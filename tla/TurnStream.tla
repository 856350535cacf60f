----------------------------- MODULE TurnStream -----------------------------
(***************************************************************************)
(* One turn on its way from the server to the browser: the executor        *)
(* (server/app.ts), the boundary that checks, numbers and frames what it   *)
(* emits (src/server/turn-stream-boundary.ts), the connection, and the     *)
(* client, which is the gateway (src/infrastructure/browser/               *)
(* turn-gateway.ts) with TurnController.run reading from it.               *)
(*                                                                         *)
(* The boundary numbers a frame when it is written and chains its writes,  *)
(* so what the executor emits and the frame of it are one step; what the   *)
(* connection carries arrives in order, up to where it is cut.  Text is    *)
(* abstracted to its length, frames to what the client's checks look at.   *)
(***************************************************************************)
EXTENDS Integers, Sequences

CONSTANTS
    MaxFrames,     \* preview frames of one answer (256)
    MaxChars,      \* characters of one preview (64000)
    Batch,         \* preview characters worth a frame (256)
    MaxEvents,     \* events the client keeps (512)
    MaxPhases,     \* bound on the progress the executor reports
    MaxFragments,  \* bound on the fragments of an answer
    FragmentSizes  \* lengths of fragments

ASSUME LimitsAssumption ==
    /\ MaxFrames \in Nat \ {0} /\ MaxChars \in Nat \ {0} /\ Batch \in Nat \ {0}
    /\ MaxPhases \in Nat /\ MaxFragments \in Nat /\ FragmentSizes \subseteq Nat \ {0}
    /\ MaxEvents \in Nat /\ MaxEvents >= MaxFrames + MaxPhases + 3

VARIABLES
    executor,  \* its stage, and the preview it holds back
    boundary,  \* the server's end of the stream
    wire,      \* frames under way
    cut,       \* whether the connection is lost
    client,    \* the browser's end
    faulty,    \* history: the executor has failed or emitted something invalid
    oversize   \* history: a frame is larger than the client takes

vars == <<executor, boundary, wire, cut, client, faulty, oversize>>

(* A malformed state is a checkpoint that the boundary and the gateway let   *)
(* through, because they ask no more of one than to be an object, and the    *)
(* schema of a turn refuses (turn-stream-boundary.ts:141, turn-gateway.ts:35).*)
States == {"none", "checkpoint", "malformed", "insufficient", "resolution"}

Frame == [type : {"accepted", "progress", "state", "delta", "terminal", "error"},
          seq : Nat, size : Nat, state : States, large : BOOLEAN]

TypeOK ==
    /\ executor \in [stage : {"resolving", "synthesizing", "returning", "done"},
                     phases : 0..MaxPhases, fragments : 0..MaxFragments,
                     queued : 0..MaxChars, chars : 0..MaxChars, frames : 0..MaxFrames]
    /\ boundary \in [phase : {"waiting", "running", "ended", "refused"}, seq : Nat,
                     abort : BOOLEAN, gone : BOOLEAN, invalid : BOOLEAN,
                     chars : 0..MaxChars, frames : 0..MaxFrames]
    /\ wire \in Seq(Frame)
    /\ cut \in BOOLEAN /\ faulty \in BOOLEAN /\ oversize \in BOOLEAN
    /\ client \in [phase : {"reading", "terminal", "failed", "interrupted"},
                   last : Nat, events : 0..MaxEvents, draft : 0..MaxChars,
                   previews : 0..MaxFrames, state : States, cancelled : BOOLEAN,
                   error : {"none", "invalid_event", "turn_error", "invalid_terminal"}]

Init ==
    /\ executor = [stage |-> "resolving", phases |-> 0, fragments |-> 0,
                   queued |-> 0, chars |-> 0, frames |-> 0]
    /\ boundary = [phase |-> "waiting", seq |-> 1, abort |-> FALSE, gone |-> FALSE,
                   invalid |-> FALSE, chars |-> 0, frames |-> 0]
    /\ wire = <<>>
    /\ cut = FALSE
    /\ client = [phase |-> "reading", last |-> 0, events |-> 0, draft |-> 0,
                 previews |-> 0, state |-> "none", cancelled |-> FALSE, error |-> "none"]
    /\ faulty = FALSE /\ oversize = FALSE

-----------------------------------------------------------------------------
(* The boundary. *)

(* What is written to a connection that is cut goes nowhere. *)
Write(type, size, state, large) ==
    wire' = IF cut THEN wire
            ELSE Append(wire, [type |-> type, seq |-> boundary.seq, size |-> size,
                               state |-> state, large |-> large])

Accept ==
    /\ boundary.phase = "waiting"
    /\ Write("accepted", 0, "none", FALSE)
    /\ boundary' = [boundary EXCEPT !.phase = "running", !.seq = @ + 1]
    /\ UNCHANGED <<executor, cut, client, faulty, oversize>>

(* Authentication, origin, size or schema of the request. *)
Refuse ==
    /\ boundary.phase = "waiting"
    /\ boundary' = [boundary EXCEPT !.phase = "refused"]
    /\ UNCHANGED <<executor, wire, cut, client, faulty, oversize>>

(* onSignal: a signal is dropped once the execution is aborted, and a        *)
(* preview once it is full; an invalid one, or one that overflows the        *)
(* preview, aborts the execution.                                            *)
PreviewFull == boundary.frames >= MaxFrames \/ boundary.chars >= MaxChars
Overflows(size) == boundary.chars + size > MaxChars

OnSignal(type, size, state, large, valid) ==
    LET preview == type = "delta"
        dropped == boundary.abort \/ (valid /\ preview /\ PreviewFull)
        refused == ~valid \/ (preview /\ Overflows(size))
    IN \/ /\ dropped
          /\ UNCHANGED <<boundary, wire>>
       \/ /\ ~dropped /\ refused
          /\ boundary' = [boundary EXCEPT !.invalid = TRUE, !.abort = TRUE]
          /\ UNCHANGED wire
       \/ /\ ~dropped /\ ~refused
          /\ Write(type, size, state, large)
          /\ boundary' = [boundary EXCEPT
                            !.seq = @ + 1, !.chars = @ + size,
                            !.frames = IF preview THEN @ + 1 ELSE @]

(* The execution ends: its terminal result is written unless the execution   *)
(* was aborted or the result is invalid; anything else is an error frame.    *)
TerminalStands(valid) == ~boundary.abort /\ ~boundary.invalid /\ valid

(* A mutant: errors end the stream without a frame.                          *)
SilentEnd(type, large) ==
    /\ IF type = "error" THEN UNCHANGED wire ELSE Write(type, 0, "none", large)
    /\ boundary' = [boundary EXCEPT !.phase = "ended", !.seq = @ + 1]

End(type, large) ==
    /\ Write(type, 0, "none", large)
    /\ boundary' = [boundary EXCEPT !.phase = "ended", !.seq = @ + 1]

(* A mutant: the request is known to be lost, the execution goes on.         *)
NoticeOnly ==
    /\ cut /\ boundary.phase = "running" /\ ~boundary.gone
    /\ boundary' = [boundary EXCEPT !.gone = TRUE]
    /\ UNCHANGED <<executor, wire, cut, client, faulty, oversize>>

(* The request's own signal, or a write that fails.                          *)
NoticeLoss ==
    /\ cut /\ boundary.phase = "running" /\ ~boundary.gone
    /\ boundary' = [boundary EXCEPT !.gone = TRUE, !.abort = TRUE]
    /\ UNCHANGED <<executor, wire, cut, client, faulty, oversize>>

-----------------------------------------------------------------------------
(* The executor. *)

Running(stage) == boundary.phase = "running" /\ executor.stage = stage

(* A phase, or the sources of a search; the last phase is that of synthesis. *)
Progress ==
    /\ Running("resolving") \/ (Running("synthesizing") /\ executor.fragments = 0)
    /\ executor.phases < MaxPhases
    /\ \E valid \in BOOLEAN :
        /\ OnSignal("progress", 0, "none", FALSE, valid)
        /\ faulty' = (faulty \/ ~valid)
    /\ executor' = [executor EXCEPT !.phases = @ + 1]
    /\ UNCHANGED <<cut, client, oversize>>

(* The research state is emitted before synthesis; only a resolution that    *)
(* suffices or is a best effort is synthesized.  A mutant synthesizes all.   *)
SynthesizeFirst(state) == "synthesizing"
StageAfter(state) == IF state = "resolution" THEN "synthesizing" ELSE "returning"

ResearchState ==
    /\ Running("resolving")
    /\ \E state \in States \ {"none"}, valid \in BOOLEAN, large \in BOOLEAN :
        /\ OnSignal("state", 0, state, large, valid)
        /\ faulty' = (faulty \/ ~valid \/ state = "malformed")
        /\ oversize' = (oversize \/ large)
        /\ executor' = [executor EXCEPT !.stage = StageAfter(state)]
    /\ UNCHANGED <<cut, client>>

(* A search has no state to emit. *)
SearchReturns ==
    /\ Running("resolving")
    /\ executor' = [executor EXCEPT !.stage = "returning"]
    /\ UNCHANGED <<boundary, wire, cut, client, faulty, oversize>>

(* onProvisionalText and flushPreview: what fits is queued; the first        *)
(* fragment, a batch, and the end of the preview are sent at once.  A mutant *)
(* does not cut what is too long.                                            *)
Unbounded(n) == n
Fitting(n) ==
    LET room == MaxChars - executor.chars - executor.queued
    IN IF n <= room THEN n ELSE room

Worth(queued) ==
    executor.frames = 0 \/ queued >= Batch \/ queued = MaxChars - executor.chars

Keeps(queued) == executor' = [executor EXCEPT !.queued = queued, !.fragments = @ + 1]

Fragment ==
    /\ Running("synthesizing") /\ executor.fragments < MaxFragments
    /\ ~boundary.abort /\ executor.chars < MaxChars /\ executor.frames < MaxFrames
    /\ \E n \in FragmentSizes :
        LET queued == executor.queued + Fitting(n)
        IN \/ /\ ~Worth(queued)
              /\ Keeps(queued)
              /\ UNCHANGED <<boundary, wire>>
           \/ /\ Worth(queued)
              /\ OnSignal("delta", queued, "none", FALSE, queued <= MaxChars)
              /\ executor' = [executor EXCEPT
                                !.queued = 0, !.fragments = @ + 1,
                                !.chars = @ + queued, !.frames = @ + 1]
    /\ UNCHANGED <<cut, client, faulty, oversize>>

(* Synthesis ends; a completed answer flushes what is left of the preview.   *)
Synthesized ==
    /\ Running("synthesizing")
    /\ executor' = [executor EXCEPT !.stage = "returning", !.queued = 0]
    /\ \/ UNCHANGED <<boundary, wire>>
       \/ /\ executor.queued > 0 /\ executor.frames < MaxFrames /\ ~boundary.abort
          /\ OnSignal("delta", executor.queued, "none", FALSE, TRUE)
    /\ UNCHANGED <<cut, client, faulty, oversize>>

Return ==
    /\ Running("returning")
    /\ executor' = [executor EXCEPT !.stage = "done"]
    /\ \E valid \in BOOLEAN, large \in BOOLEAN :
        /\ \/ TerminalStands(valid) /\ End("terminal", large)
           \/ ~TerminalStands(valid) /\ End("error", FALSE)
        /\ faulty' = (faulty \/ ~valid)
        /\ oversize' = (oversize \/ large)
    /\ UNCHANGED <<cut, client>>

(* It throws, of itself or because it was aborted.                           *)
Throw ==
    /\ boundary.phase = "running"
    /\ executor' = [executor EXCEPT !.stage = "done"]
    /\ \/ boundary.gone /\ boundary' = [boundary EXCEPT !.phase = "ended"] /\ UNCHANGED wire
       \/ ~boundary.gone /\ End("error", FALSE)
    /\ faulty' = (faulty \/ ~boundary.abort)
    /\ UNCHANGED <<cut, client, oversize>>

-----------------------------------------------------------------------------
(* The connection. *)

(* It breaks, and takes any number of the last frames with it. *)
Break ==
    /\ ~cut /\ client.phase = "reading"
    /\ cut' = TRUE
    /\ \E n \in 0..Len(wire) : wire' = SubSeq(wire, 1, n)
    /\ UNCHANGED <<executor, boundary, client, faulty, oversize>>

(* cancel: the run is marked, its fetch aborted, its preview cleared.        *)
Cancel ==
    /\ client.phase = "reading" /\ ~client.cancelled
    /\ client' = [client EXCEPT !.cancelled = TRUE, !.draft = 0]
    /\ cut' = TRUE
    /\ UNCHANGED <<executor, boundary, wire, faulty, oversize>>

-----------------------------------------------------------------------------
(* The client. *)

Reading == client.phase = "reading" /\ ~client.cancelled

(* acceptEvent: the number that is due, room for it, and "accepted" first    *)
(* and only first.  A mutant has no room for a full preview.                 *)
Strict(f) == client.previews < MaxFrames /\ client.draft + f.size < MaxChars
DraftFits(f) == client.previews < MaxFrames /\ client.draft + f.size <= MaxChars

Expected(f) ==
    /\ f.seq = client.last + 1
    /\ client.events < MaxEvents
    /\ f.type = "delta" => DraftFits(f)
    /\ (client.last = 0) <=> (f.type = "accepted")

(* A protocol error and an error frame end the run without a turn, and       *)
(* abort its fetch.                                                          *)
Fail(error) ==
    /\ client' = [client EXCEPT !.phase = "failed", !.error = error, !.draft = 0,
                                !.events = 0]
    /\ cut' = TRUE

Receive ==
    LET f == Head(wire)
    IN /\ Reading /\ wire # <<>> /\ ~f.large
       /\ wire' = Tail(wire)
       /\ \/ ~Expected(f) /\ Fail("invalid_event")
          \/ Expected(f) /\ f.type = "error" /\ Fail("turn_error")
          \/ /\ Expected(f) /\ f.type # "error"
             /\ client' = [client EXCEPT
                   !.last = f.seq, !.events = @ + 1, !.draft = @ + f.size,
                   !.previews = IF f.type = "delta" THEN @ + 1 ELSE @,
                   !.state = IF f.type = "state" THEN f.state ELSE @,
                   !.phase = IF f.type = "terminal" THEN "terminal" ELSE @]
             /\ UNCHANGED cut
       /\ UNCHANGED <<executor, boundary, faulty, oversize>>

(* finishInterruption: the run ends with the state it has, if it can be      *)
(* kept, and without a turn if the turn does not satisfy its schema.         *)
Kept(state) == IF state = "insufficient" THEN "none" ELSE state

Interruption ==
    \/ /\ client.state # "malformed"
       /\ client' = [client EXCEPT !.phase = "interrupted", !.draft = 0,
                                   !.state = Kept(@), !.events = 0]
    \/ /\ client.state = "malformed"
       /\ client' = [client EXCEPT !.phase = "failed", !.error = "invalid_terminal",
                                   !.draft = 0, !.events = 0]

(* A frame the parser cannot take discards all that came in one chunk with   *)
(* it.                                                                       *)
ParseFails ==
    /\ Reading /\ \E i \in DOMAIN wire : wire[i].large
    /\ Interruption
    /\ UNCHANGED <<executor, boundary, wire, cut, faulty, oversize>>

(* The stream ends without a terminal frame, the request was refused, or the *)
(* run was cancelled.  A mutant does not look at refusals.                   *)
OverIfAccepted == boundary.phase = "ended" \/ cut
Over == boundary.phase \in {"ended", "refused"} \/ cut

Interrupted ==
    /\ client.phase = "reading"
    /\ client.cancelled \/ (wire = <<>> /\ Over)
    /\ Interruption
    /\ UNCHANGED <<executor, boundary, wire, cut, faulty, oversize>>

-----------------------------------------------------------------------------

ExecutorStep == Progress \/ ResearchState \/ SearchReturns \/ Fragment
                \/ Synthesized \/ Return \/ Throw
ClientStep == Receive \/ ParseFails \/ Interrupted

Quiet ==
    /\ client.phase # "reading" /\ boundary.phase # "running"
    /\ UNCHANGED vars

Next == Accept \/ Refuse \/ NoticeLoss \/ ExecutorStep \/ Break \/ Cancel
        \/ ClientStep \/ Quiet

Spec == Init /\ [][Next]_vars

(* A server answers a request, and notices that its client is gone.  A       *)
(* connected execution goes on, or its platform ends it and with it the      *)
(* connection; an aborted one goes on, since its providers are called with   *)
(* the signal; nothing is assumed of one that is neither.  A browser handles *)
(* what arrives.                                                             *)
Driven ==
    /\ boundary.phase = "running" /\ (~cut \/ boundary.abort)
    /\ ExecutorStep \/ Break

FairSpec ==
    /\ Spec
    /\ WF_vars(Accept \/ Refuse) /\ WF_vars(NoticeLoss)
    /\ WF_vars(Driven) /\ WF_vars(ClientStep)

-----------------------------------------------------------------------------
(* Correctness. *)

(* The client never takes a stream of the boundary for a broken one: the     *)
(* numbers and the limits of both ends agree (turn-stream-boundary.ts:       *)
(* 202-237 and turn-controller.ts:166-186).                                  *)
EndsAgree == client.error # "invalid_event"

(* A turn is given up without a trace only if its execution was at fault;    *)
(* in particular no preview, however long and however cut into fragments,    *)
(* costs the answer (app.ts:195-214, turn-stream-boundary.ts:223-233).       *)
GoodTurnsSurvive == client.phase = "failed" => faulty

(* A run that nobody cancelled is interrupted only if the connection was     *)
(* lost, the request refused, or a frame too large to take                   *)
(* (turn-controller.ts:144-149).                                             *)
LossIsReal ==
    (client.phase = "interrupted" /\ ~client.cancelled)
    => cut \/ boundary.phase = "refused" \/ oversize

(* An answer the user has begun to see has its research behind it: however   *)
(* the run ends then, the state is there to be kept (app.ts:187-194).        *)
DraftHasState == client.previews > 0 => client.state = "resolution"

(* Every run comes to an end in the browser (turn-controller.ts:112-150).    *)
StreamEnds == <>(client.phase # "reading")

(* An execution whose client is gone comes to an end and stops spending      *)
(* searches and tokens (turn-stream-boundary.ts:181-198).                    *)
LossEndsExecution == cut ~> (boundary.phase # "running")
=============================================================================

---------------------------- MODULE ResearchTurn ----------------------------
(***************************************************************************)
(* A research turn from the thread that asks to the outcome that is stored *)
(* (src/src/application/execute-research-turn.ts, answer-synthesizer.ts,   *)
(* the executor in src/server/app.ts): the thread grows, asks with its     *)
(* context, the resolver works, its resolution is checked for references,  *)
(* and the answer is synthesized from a stream.                            *)
(*                                                                         *)
(* What one part leaves behind is all the next part sees: once the         *)
(* resolver has returned, its state is garbage and is dropped.             *)
(*                                                                         *)
(* Bounds: MaxThread turns of history, the turns they may be (Histories),  *)
(* the histories that go on to ask (Asked) and the texts a model may       *)
(* stream (Texts) are constants.                                           *)
(***************************************************************************)
EXTENDS ResearchResolver, ThreadContext, CitationParser

CONSTANTS
    MaxThread,       \* turns of history, at most
    Histories(_),    \* the turns that may follow a thread
    Asks(_),         \* whether a thread of the instance goes on to research
    Texts            \* texts a model may stream, sequences of characters

ASSUME TextsAssumption == Texts \subseteq Seq(Int)

VARIABLES
    thread,     \* the turns stored
    turn,       \* the research turn: [pc, ...]
    stream      \* the synthesis: [text, fed, buffer, parts]

vars == <<context, resolverVars, aborted, acq, thread, turn, stream>>

NoStream == [text |-> <<>>, fed |-> 0, buffer |-> <<>>, parts |-> <<>>]

(* Turns are negative in a set of references, sources positive.              *)
IdsOnly(packs) ==
    [i \in DOMAIN packs |-> [packs[i] EXCEPT !.sources = {p.source : p \in @}]]

ContextOf(built) ==
    [known |-> built.known, evidence |-> IdsOnly(built.evidence),
     turns |-> {-i : i \in 1..built.turns}, cited |-> Citations(built.answers)]

NoContext == [known |-> {}, evidence |-> <<>>, turns |-> {}, cited |-> {}]

Forgotten ==
    /\ stack' = <<>> /\ gaps' = <<>> /\ tasks' = <<>>
    /\ used' = [searches |-> 0, sources |-> 0, assessments |-> 0]
    /\ budget' = Budget
    /\ gathered' = Unit(<<Root>>, Nothing, <<>>)
    /\ admitted' = {} /\ active' = {} /\ acq' = Idle
    /\ outcome' = Pending /\ context' = NoContext

Init ==
    /\ thread = <<>> /\ turn = [pc |-> "asking"] /\ stream = NoStream
    /\ aborted = FALSE /\ context = NoContext
    /\ stack = <<>> /\ gaps = <<>> /\ tasks = <<>>
    /\ used = [searches |-> 0, sources |-> 0, assessments |-> 0]
    /\ budget = Budget
    /\ gathered = Unit(<<Root>>, Nothing, <<>>)
    /\ admitted = {} /\ active = {} /\ acq = Idle /\ outcome = Pending

-----------------------------------------------------------------------------
(* The thread grows, and asks.  A context that is corrupt is thrown in the   *)
(* browser, where nothing more than that is seen of it.                      *)

Grow ==
    /\ turn.pc = "asking" /\ Len(thread) < MaxThread /\ ~Corrupt(Recent(thread))
    /\ \E t \in Histories(thread) : t \in StoredTurns /\ thread' = Append(thread, t)
    /\ UNCHANGED <<context, resolverVars, aborted, acq, turn, stream>>

Ask ==
    /\ turn.pc = "asking" /\ Asks(thread) /\ ~Corrupt(Recent(thread))
    /\ Begins(ContextOf(BuildThreadContext(thread)))
    /\ turn' = [pc |-> "resolving"]
    /\ UNCHANGED <<thread, aborted, stream>>

-----------------------------------------------------------------------------
(* sourceClosure: what the state of the research refers to, the context of   *)
(* its problems included, and what it has records of.                        *)

OnlySources(refs) == {s \in refs : s > 0}

Required(know) ==
    SourcesOf(know.evidence) \cup context.known \cup context.cited
    \cup SourcesOf(context.evidence)
    \cup OnlySources(References(know.findings))
    \cup OnlySources(UNION {gaps[p].support : p \in DOMAIN gaps})
    \cup UNION {tasks[i].evidence : i \in DOMAIN tasks}

Recorded == context.known \cup admitted
Closed(know) == Required(know) \subseteq Recorded

Ended(status, why) == [pc |-> "ended", status |-> status, why |-> why, citations |-> {}]
Ends(status, why) ==
    /\ turn' = Ended(status, why)
    /\ stream' = NoStream

(* executeResearchTurn up to the synthesis; what an abort or an interrupted  *)
(* call throws leaves the executor without a turn.                           *)
Settle ==
    /\ turn.pc = "resolving" /\ outcome # Pending
    /\ \/ /\ outcome.kind = "thrown"
          /\ Ends("thrown", "interrupted")
       \/ /\ outcome.kind # "thrown" /\ aborted
          /\ Ends("interrupted", "unavailable")
       \/ /\ outcome.kind = "checkpoint" /\ ~aborted
          /\ Ends("failed", IF Closed(outcome.knowledge) THEN "checkpoint"
                            ELSE "reference_missing")
       \/ /\ outcome.kind = "resolution" /\ ~aborted /\ ~Closed(outcome.knowledge)
          /\ Ends("failed", "reference_missing")
       \/ /\ outcome.kind = "resolution" /\ ~aborted /\ Closed(outcome.knowledge)
          /\ outcome.status = "insufficient"
          /\ Ends("failed", "insufficient_evidence")
       \/ /\ outcome.kind = "resolution" /\ ~aborted /\ Closed(outcome.knowledge)
          /\ outcome.status # "insufficient"
          /\ turn' = [pc |-> "streaming", status |-> outcome.status,
                      allowed |-> SourcesOf(outcome.knowledge.evidence)]
          /\ \E text \in Texts : stream' = [NoStream EXCEPT !.text = text]
    /\ Forgotten
    /\ UNCHANGED <<thread, aborted>>

-----------------------------------------------------------------------------
(* The synthesis.  Chunks end anywhere; citations that are not of a viable   *)
(* page stay text.                                                           *)

Streaming == turn.pc = "streaming"
Quiet == UNCHANGED <<context, resolverVars, acq, thread, aborted>>

Chunk ==
    /\ Streaming /\ ~aborted
    /\ \E to \in (stream.fed + 1)..Len(stream.text) :
       LET fed == Drain(stream.buffer \o SubSeq(stream.text, stream.fed + 1, to),
                        FALSE, turn.allowed)
       IN stream' = [stream EXCEPT !.fed = to, !.buffer = fed.buffer,
                                   !.parts = @ \o fed.parts]
    /\ UNCHANGED turn /\ Quiet

CitationsIn(parts) == {p.at : p \in {q \in ToSet(parts) : q.kind = "citation"}}

Reachable(parts, allowed) ==
    FlattenSeq([i \in DOMAIN parts |->
        IF parts[i].kind = "text" \/ parts[i].at \in allowed THEN <<parts[i]>> ELSE <<>>])

(* validateAnswer: something must show. *)
Shows(parts) == \E p \in ToSet(parts) : p.kind = "citation" \/ p.at # Blank

(* A stream without a part, and an answer of white space, are both reported  *)
(* as an unavailable synthesis: the code that would say more is not read.    *)
StreamEnds ==
    /\ Streaming /\ ~aborted /\ stream.fed = Len(stream.text)
    /\ LET parts == stream.parts \o Drain(stream.buffer, TRUE, turn.allowed).parts
           answer == Reachable(parts, turn.allowed)
       IN /\ turn' = IF Shows(answer)
                     THEN [Ended("completed", turn.status) EXCEPT
                             !.citations = CitationsIn(answer)]
                     ELSE Ended("failed", "synthesis_unavailable")
          /\ stream' = [stream EXCEPT !.buffer = <<>>, !.parts = answer]
    /\ Quiet

(* mapSynthesisError, and what is made of its codes. *)
SynthesisErrors == {"synthesis_unavailable", "synthesis_rate_limited"}

StreamFails ==
    /\ Streaming /\ ~aborted
    /\ \E code \in SynthesisErrors : Ends("failed", code)
    /\ Quiet

(* An abort is seen at the next part, or by the provider.                    *)
StreamInterrupted ==
    /\ Streaming /\ aborted
    /\ Ends("interrupted", turn.status)
    /\ Quiet

AbortSynthesis ==
    /\ Streaming /\ ~aborted
    /\ aborted' = TRUE
    /\ UNCHANGED <<context, resolverVars, acq, thread, turn, stream>>

-----------------------------------------------------------------------------
Works ==
    \/ Enter \/ AssessesResolved \/ AssessesSearch \/ AssessesDecompose
    \/ AttemptFails \/ ProviderUnavailable \/ AssessmentThrows
    \/ BeginSearch \/ EndSearch \/ NextChild \/ Acquire

Next ==
    \/ Grow \/ Ask \/ Settle
    \/ (Works \/ Abort) /\ UNCHANGED <<thread, turn, stream>>
    \/ Chunk \/ StreamEnds \/ StreamFails \/ StreamInterrupted \/ AbortSynthesis

(* Code that can run does, and the services answer or time out.              *)
Fairness ==
    /\ WF_vars(Works /\ UNCHANGED <<thread, turn, stream>>)
    /\ WF_vars(Settle)
    /\ WF_vars(Chunk \/ StreamEnds \/ StreamFails \/ StreamInterrupted)

Spec == Init /\ [][Next]_vars /\ Fairness

-----------------------------------------------------------------------------
(* Properties. *)

(* The states of a research turn, and what each of them carries.             *)
TypeOK ==
    /\ turn.pc \in {"asking", "resolving", "streaming", "ended"}
    /\ turn.pc = "streaming" => turn.status \in {"sufficient", "best_effort"}
    /\ turn.pc = "ended" =>
          turn.status \in {"completed", "failed", "interrupted", "thrown"}
    /\ turn.pc # "resolving" => stack = <<>> /\ acq = Idle /\ outcome = Pending
    /\ turn.pc = "resolving" => (stack = <<>>) = (outcome # Pending)
    /\ \A i \in DOMAIN stack :
          /\ stack[i].pc \in {"enter", "assess", "search", "children"}
          /\ stack[i].path \in DOMAIN gaps \/ stack[i].pc = "enter"
          /\ i < Len(stack) => stack[i].pc = "children"
    /\ acq # Idle => Running /\ Top.pc = "search"
    /\ Len(gathered.evidence) <= MaxPacks
    /\ stream.fed \in 0..Len(stream.text)

(* A context's texts and pages within the budgets.                           *)
FitsBudgets(turns, built, taken) ==
    LET answered == [i \in DOMAIN built.answers |-> Sum(LengthsOf(built.answers[i]))]
        Pages(seq) == Sum([i \in DOMAIN seq |-> seq[i].page.cost])
        Newest(place) == ToSet(PagesOf(turns[place], place))
    IN /\ built.requests + Sum(answered) <= MaxChars
       /\ Pages(SetToSeq(taken)) <= MaxTotal
       /\ \A c \in taken : c.page.cost <= MaxPerSource
       /\ Cardinality(built.known) <= MaxTurns * KnownPerTurn
       /\ (\E c \in taken : c.place < Len(turns)) =>
             \A c \in Newest(Len(turns)) : \E d \in taken : SameSnapshot(c, d)

(* Whatever has been asked and answered before, the context of the next      *)
(* question keeps to its budgets, and the newest turn's pages come before    *)
(* those of any other.                                                       *)
ContextFits ==
    turn.pc = "asking" /\ ~Corrupt(Recent(thread)) =>
        FitsBudgets(Recent(thread), BuildThreadContext(thread), Taken(Recent(thread)))

(* The context has a record of every source it refers to.                    *)
Knows(built) == PageIds(built.evidence) \cup Citations(built.answers) \subseteq built.known

(* A thread whose turns have always fitted the budgets can go on: its        *)
(* evidence is not taken for corrupt, and the context knows every source it  *)
(* refers to.  (Once a page was cut to fit, the thread may be corrupt for    *)
(* good.)                                                                    *)
ComfortableThreadsServe ==
    turn.pc = "asking" /\ (\A n \in 0..Len(thread) : Comfortable(SubSeq(thread, 1, n))) =>
        /\ ~Corrupt(Recent(thread))
        /\ Knows(BuildThreadContext(thread))

(* A research never fails for references of its own: whenever the context it *)
(* was given is closed, what it found, cites and lists has its records.      *)
ReferencesClosed ==
    turn.pc = "resolving" /\ outcome # Pending /\ outcome.kind # "thrown"
        /\ context.cited \cup SourcesOf(context.evidence) \subseteq context.known
    => Closed(outcome.knowledge)

(* However the stream of an answer is cut into chunks, the parts say what    *)
(* the text says, each character once, and are those of the text in one      *)
(* piece.                                                                    *)
AnswerIsWhole ==
    /\ Streaming =>
          LET fed == SubSeq(stream.text, 1, stream.fed)
          IN /\ Rendered(stream.parts) \o stream.buffer = fed
             /\ stream.parts \o Drain(stream.buffer, TRUE, turn.allowed).parts
                   = ParsedWhole(fed, turn.allowed)
    /\ turn.pc = "ended" /\ turn.status = "completed" =>
          Rendered(stream.parts) = stream.text

(* Every research ends, within its budgets, whatever the model proposes and  *)
(* the searches return.                                                      *)
ResearchEnds == turn.pc = "resolving" ~> turn.pc = "ended"
=============================================================================

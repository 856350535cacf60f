--------------------------- MODULE TurnController ---------------------------
(***************************************************************************)
(* From the submission of a prompt to the durable turn: run of ThreadRoute *)
(* (src/src/ui/routes/ThreadRoute.tsx) and the TurnController              *)
(* (src/src/ui/controllers/turn-controller.ts) it makes for every          *)
(* submission, over the thread store of the browser.                       *)
(*                                                                         *)
(* A run is one submission with its own controller; it is also the store   *)
(* client of that controller, which has at most one store call under way.  *)
(* Tabs that show the same thread share its records; the runs of one tab   *)
(* share the tab's view and its references to the last thread and          *)
(* controller.  The stream of turn events is abstracted to how it ends.    *)
(***************************************************************************)
EXTENDS IndexedDbThreadStore

CONSTANTS
    Runs,        \* the submissions; other clients of the store are not runs
    Tabs,
    TabOf,       \* the tab a run is submitted in
    Shown,       \* the thread all tabs show
    FullTurn,    \* the turn a run builds from a terminal or a research state
    BareTurn,    \* the turn it builds when it is interrupted before either
    Endings,     \* how streams end
    Remote,      \* whether the store is reached over a network
    MaxRetries   \* bound on the retries of one run's commit

(* A terminal turn whose source records repeat a source is refused before    *)
(* anything is committed (sourceClosure, turn-controller.ts:91-95, 194).     *)
(* The id of a turn is drawn when its prompt is submitted                    *)
(* (ThreadRoute.tsx:24, 111), so it is no past turn.  A turn of a run        *)
(* retries none, its answer is grounded (answer-synthesizer.ts:98-102), and  *)
(* one without a research state names no support.                            *)
ASSUME ControllerAssumption ==
    /\ Runs \subseteq Clients /\ Shown \in Threads
    /\ TabOf \in [Runs -> Tabs]
    /\ FullTurn \in [Runs -> TurnIds] /\ BareTurn \in [Runs -> TurnIds]
    /\ \A c \in Runs : /\ TurnSources[BareTurn[c]] = <<>>
                       /\ Cardinality(ToSet(TurnSources[FullTurn[c]]))
                            = Len(TurnSources[FullTurn[c]])
                       /\ TurnSupport[BareTurn[c]] = {}
                       /\ \A u \in {FullTurn[c], BareTurn[c]} :
                            /\ u \in Grounded /\ RetryOf[u] = None
                            /\ \A t \in Threads : u \notin Held(t) \cup Migrated(t)
    /\ \A c, d \in Runs : /\ c # d => FullTurn[c] # FullTurn[d] /\ BareTurn[c] # BareTurn[d]
                          /\ FullTurn[c] # BareTurn[d]
    /\ "early" \in Endings
    /\ Endings \subseteq {"terminal", "interrupted", "early", "failed"}
    /\ MaxRetries \in Nat /\ Remote \in BOOLEAN

VARIABLES
    run,         \* by run, its controller
    known,       \* threadRef: whether the tab knows a thread
    mounting,    \* whether the tab's first load of the thread is under way
    current,     \* the tab's controller.current
    viewActive,  \* the active flag of the tab's view
    left         \* whether the tab has been navigated away

tabVars == <<known, mounting, current, viewActive, left>>
allVars == <<vars, run, tabVars>>

Phases == {"new", "loading", "streaming", "committing", "reloading",
           "saved", "retryable", "blocked", "failed", "dropped"}

Controller ==
    [phase : Phases, expected : Nat, create : BOOLEAN, ending : Endings \cup {"none"},
     again : BOOLEAN, retries : 0..MaxRetries, context : SUBSET TurnIds]

ControllerTypeOK ==
    /\ TypeOK
    /\ run \in [Runs -> Controller]
    /\ known \in [Tabs -> BOOLEAN] /\ viewActive \in [Tabs -> BOOLEAN]
    /\ left \in [Tabs -> BOOLEAN]
    /\ mounting \in [Tabs -> BOOLEAN]
    /\ current \in [Tabs -> Runs \cup {None}]

WorkspaceInit ==
    /\ Init
    /\ run = [c \in Runs |-> [phase |-> "new", expected |-> 0, create |-> FALSE,
                              ending |-> "none", again |-> FALSE, retries |-> 0,
                              context |-> {}]]
    /\ known = [b \in Tabs |-> FALSE]
    /\ mounting = [b \in Tabs |-> TRUE]
    /\ current = [b \in Tabs |-> None]
    /\ viewActive = [b \in Tabs |-> FALSE]
    /\ left = [b \in Tabs |-> FALSE]

-----------------------------------------------------------------------------
(* Calls of the store. *)

Call(c, o) ==
    /\ op[c].pc = "idle"
    /\ op' = [op EXCEPT ![c] = o]
    /\ UNCHANGED <<storeVars, now, nextRev, started, lapsed>>

CallLoad(c) ==
    Call(c, [Returned("none") EXCEPT !.pc = "read", !.kind = "load", !.at = Shown])

TurnOf(c, ending) == IF ending = "early" THEN BareTurn[c] ELSE FullTurn[c]

(* Only a terminal event brings source records: finishInterruption passes    *)
(* none, whatever the research state it saves refers to.                     *)
NoRecords(c, ending) == <<>>
RecordsFor(c, ending) ==
    IF ending = "terminal" THEN TurnSources[FullTurn[c]] ELSE <<>>

CallCommit(c, ending, expected, create) ==
    Call(c, [Returned("none") EXCEPT
              !.pc = "read", !.kind = "commit", !.at = Shown,
              !.turn = TurnOf(c, ending), !.expected = expected,
              !.create = create, !.supplied = RecordsFor(c, ending)])

Answered(c, phase) == run[c].phase = phase /\ op[c].pc = "idle"
Answer(c) == op[c].result
NoStore == UNCHANGED vars
Becomes(c, phase) == run' = [run EXCEPT ![c].phase = phase]

-----------------------------------------------------------------------------
(* ThreadRoute.run: the prompt is open unless the view is active; the view   *)
(* becomes active only when the controller starts, after the thread has been *)
(* loaded.                                                                   *)

(* Both turns the run may build carry the time of its submission. *)
Submit(c) ==
    /\ run[c].phase = "new" /\ ~left[TabOf[c]] /\ ~viewActive[TabOf[c]]
    /\ TurnCreatedAt[FullTurn[c]] <= now /\ TurnCreatedAt[BareTurn[c]] <= now
    /\ CallLoad(c)
    /\ Becomes(c, "loading")
    /\ UNCHANGED <<candidate, tabVars>>

(* The context of the research are turns of the thread that was loaded, or,  *)
(* if the load failed, of whatever the tab has last loaded or committed.     *)
Loaded(c) ==
    LET ok  == Answer(c) = "ok"
        rev == IF ok THEN op[c].expected ELSE 0
        b   == TabOf[c]
    IN /\ Answered(c, "loading")
       /\ \/ /\ left[b]
             /\ Becomes(c, "dropped")
             /\ UNCHANGED tabVars
          \/ /\ ~left[b]
             /\ run' = [run EXCEPT ![c].phase = "streaming", ![c].expected = rev,
                          ![c].create = IF ok THEN rev = 0 ELSE ~known[b],
                          ![c].context = IF ok THEN op[c].seen
                                         ELSE IF known[b] THEN TurnIds ELSE {}]
             /\ current' = [current EXCEPT ![b] = c]
             /\ viewActive' = [viewActive EXCEPT ![b] = TRUE]
             /\ UNCHANGED <<known, mounting, left>>
       /\ NoStore

(* An accepted event publishes the controller's view.                        *)
AcceptEvent(c) ==
    /\ run[c].phase = "streaming" /\ ~viewActive[TabOf[c]]
    /\ viewActive' = [viewActive EXCEPT ![TabOf[c]] = TRUE]
    /\ UNCHANGED <<run, known, mounting, current, left>> /\ NoStore

-----------------------------------------------------------------------------
(* TurnController: how a stream ends, and the commit of what it left.        *)

(* A controller that stops, and one that has saved or failed to save, shows  *)
(* the tab a view that is not active.                                        *)
Deactivate(c) == viewActive' = [viewActive EXCEPT ![TabOf[c]] = FALSE]

Cancelled(c) == left[TabOf[c]] /\ current[TabOf[c]] = c

(* A protocol error, an error event or a research state that makes no valid  *)
(* turn ends the run without a commit.                                       *)
FinishWithoutCommit(c) ==
    /\ run[c].phase = "streaming" /\ "failed" \in Endings
    /\ run' = [run EXCEPT ![c].phase = "failed", ![c].ending = "failed"]
    /\ Deactivate(c)
    /\ UNCHANGED <<known, mounting, current, left>> /\ NoStore

(* A terminal event, or an interruption (cancellation, navigation, lost      *)
(* connection) with or without a research state.  The turn is built here; a  *)
(* research names only turns of its context as support                       *)
(* (research-resolver.ts:103-107).                                           *)
FinishWithCommit(c) ==
    /\ run[c].phase = "streaming"
    /\ \E ending \in Endings \ {"failed"} :
        LET u == TurnOf(c, ending)
        IN /\ Cancelled(c) => ending # "terminal"
           /\ TurnSupport[u] \subseteq run[c].context
           /\ candidate' = [candidate EXCEPT
                              ![u] = [thread |-> Shown, finishedAt |-> now]]
           /\ CallCommit(c, ending, run[c].expected, run[c].create)
           /\ run' = [run EXCEPT ![c].phase = "committing", ![c].ending = ending,
                                 ![c].again = FALSE]
    /\ Deactivate(c)
    /\ UNCHANGED <<known, mounting, current, left>>

Success(code) == code \in {"committed", "already_committed"}
Retryable(code) == code \in {"revision_conflict", "storage_unavailable"}

(* A first conflict is answered by a reload; a second one is not.            *)
AnyFailureAgain(c, code) == Retryable(code)
MayRebase(c, code) == code = "revision_conflict" /\ ~run[c].again

Settled(c, code) ==
    /\ Becomes(c, IF Retryable(code) THEN "retryable" ELSE "blocked")
    /\ Deactivate(c)
    /\ UNCHANGED <<known, mounting, current, left>> /\ NoStore

CommitReturns(c) ==
    LET code == Answer(c)
    IN /\ Answered(c, "committing")
       /\ \/ /\ Success(code)
             /\ Becomes(c, "saved")
             /\ known' = [known EXCEPT ![TabOf[c]] = @ \/ ~left[TabOf[c]]]
             /\ Deactivate(c)
             /\ UNCHANGED <<mounting, current, left>> /\ NoStore
          \/ /\ MayRebase(c, code)
             /\ CallLoad(c)
             /\ Becomes(c, "reloading")
             /\ UNCHANGED <<candidate, tabVars>>
          \/ /\ ~Success(code) /\ ~MayRebase(c, code)
             /\ Settled(c, code)

(* The same turn is committed once more against what was reloaded.           *)
ReloadReturns(c) ==
    LET code == Answer(c)
        rev  == op[c].expected
    IN /\ Answered(c, "reloading")
       /\ \/ /\ code = "ok"
             /\ CallCommit(c, run[c].ending, rev, rev = 0 /\ run[c].create)
             /\ run' = [run EXCEPT ![c].phase = "committing", ![c].again = TRUE]
             /\ UNCHANGED <<candidate, tabVars>>
          \/ /\ code # "ok"
             /\ Settled(c, code)

(* retryCommit starts over with the input of the run, on the controller the  *)
(* tab refers to.  What is pending stays pending when its retry is blocked.  *)
Pending(c) ==
    \/ run[c].phase = "retryable"
    \/ run[c].phase = "blocked" /\ run[c].retries > 0
RetryCommit(c) ==
    /\ Pending(c) /\ run[c].retries < MaxRetries
    /\ current[TabOf[c]] = c /\ ~left[TabOf[c]]
    /\ CallCommit(c, run[c].ending, run[c].expected, run[c].create)
    /\ run' = [run EXCEPT ![c].phase = "committing", ![c].again = FALSE,
                          ![c].retries = @ + 1]
    /\ Deactivate(c)
    /\ UNCHANGED <<candidate, known, mounting, current, left>>

-----------------------------------------------------------------------------
(* The tab: its own load of the thread, which only tells it whether there is *)
(* one and may fail or answer null from before the thread was stored, and    *)
(* leaving the route.                                                        *)

Loadable == \/ records[Shown] # None /\ ~IsExpired(records[Shown].expiresAt)
            \/ records[Shown] = None /\ tombs[Shown] = None /\ Shown \in legacy
               /\ ~IsExpired(LegacyExpiry)

MountLoaded(b) ==
    /\ mounting[b] /\ ~left[b]
    /\ \E found \in {Loadable, FALSE, known[b]} : known' = [known EXCEPT ![b] = found]
    /\ mounting' = [mounting EXCEPT ![b] = FALSE]
    /\ UNCHANGED <<run, current, viewActive, left>> /\ NoStore

Leave(b) ==
    /\ ~left[b]
    /\ left' = [left EXCEPT ![b] = TRUE]
    /\ mounting' = [mounting EXCEPT ![b] = FALSE]
    /\ UNCHANGED <<run, known, current, viewActive>> /\ NoStore

RunStep(c) ==
    \/ Loaded(c) \/ FinishWithoutCommit(c) \/ FinishWithCommit(c)
    \/ CommitReturns(c) \/ ReloadReturns(c)

(* Other clients commit turns of their own. *)
RunTurns == {FullTurn[c] : c \in Runs} \cup {BareTurn[c] : c \in Runs}

(* BrowserRemoteThreadStore.request: an operation has taken place, and its   *)
(* answer is lost, too long or does not parse.  (A call that is lost is an   *)
(* Interrupt.)                                                               *)
AnswerLost(c) ==
    /\ Remote
    /\ run[c].phase \in {"loading", "committing", "reloading"} /\ op[c].pc = "idle"
    /\ op[c] # Returned("storage_unavailable")
    /\ op' = [op EXCEPT ![c] = Returned("storage_unavailable")]
    /\ UNCHANGED <<storeVars, now, nextRev, started, lapsed, candidate>>

StoreStep ==
    /\ \/ Tick
       \/ \E c \in Runs : AnswerLost(c)
       \/ \E c \in Clients : Progress(c) \/ Interrupt(c)
       \/ \E c \in Clients \ Runs : Start(c) /\ op'[c].turn \notin RunTurns
    /\ UNCHANGED <<run, tabVars>>

(* Every run is over; a retry may still be asked for.                        *)
Over(c) == run[c].phase \in {"saved", "retryable", "blocked", "failed", "dropped"}
AllOver ==
    /\ \A c \in Runs : Over(c) \/ run[c].phase = "new"
    /\ UNCHANGED allVars

WorkspaceNext ==
    \/ StoreStep
    \/ AllOver
    \/ \E c \in Runs : Submit(c) \/ AcceptEvent(c) \/ RetryCommit(c) \/ RunStep(c)
    \/ \E b \in Tabs : MountLoaded(b) \/ Leave(b)

WorkspaceSpec == WorkspaceInit /\ [][WorkspaceNext]_allVars

(* A browser runs the promise reactions of the operations it has started,    *)
(* and every stream ends: the server bounds its work and a lost connection   *)
(* ends the stream too.                                                      *)
FairSpec ==
    /\ WorkspaceSpec
    /\ \A c \in Runs :
        WF_allVars(RunStep(c)) /\ WF_allVars(Progress(c) /\ UNCHANGED <<run, tabVars>>)

-----------------------------------------------------------------------------
(* Correctness. *)

(* A turn the user was told is saved stays in the thread while the thread is *)
(* neither deleted nor past its retention, whatever other tabs commit        *)
(* (turn-controller.ts:243-263 over thread-store-base.ts:85-95).             *)
SavedTurnsStay ==
    \A c \in Runs :
        (/\ run[c].phase = "saved" /\ tombs[Shown] = None /\ Shown \notin lapsed)
        => /\ records[Shown] # None
           /\ TurnOf(c, run[c].ending)
                \in {turn.id : turn \in ToSet(records[Shown].turns)}

(* A complete turn for a thread the run has loaded is refused for good only  *)
(* if the thread has been deleted or has outlived its retention: races with  *)
(* other tabs end in a rebase or in a retry (turn-controller.ts:248-258).    *)
(* And no turn at all is refused for good that is in the thread, by a commit *)
(* whose answer was lost: the retry of one is told that it is there          *)
(* (remote-thread-store.ts:42, commit-terminal-turn.ts:90).                  *)
RebasedTurnsLand ==
    \A c \in Runs : run[c].phase = "blocked" =>
        /\ run[c].expected # 0 /\ run[c].ending = "terminal"
              => Shown \in lapsed \/ tombs[Shown] # None
        /\ records[Shown] # None
              => TurnOf(c, run[c].ending)
                    \notin {turn.id : turn \in ToSet(records[Shown].turns)}

(* Every run comes to an end: conflicts and failures of the store cannot     *)
(* keep a controller committing (turn-controller.ts:246).                    *)
EveryRunEnds ==
    \A c \in Runs :
        run[c].phase \in {"loading", "streaming", "committing", "reloading"}
        ~> Over(c)

(* A complete turn for a thread the run has loaded is refused for good only  *)
(* if the thread is gone, also when an import has replaced the thread        *)
(* (turn-controller.ts:248-258).                                             *)
CitingTurnsLand ==
    \A c \in Runs :
        (run[c].phase = "blocked" /\ run[c].expected # 0 /\ run[c].ending = "terminal")
        => Shown \in lapsed \/ tombs[Shown] # None

(* A turn is refused for good only if its thread is gone.                    *)
BlockedMeansGone ==
    \A c \in Runs : run[c].phase = "blocked"
                    => Shown \in lapsed \/ tombs[Shown] # None

(* At most one turn executes or awaits its commit in a workspace.            *)
Executing(c) == run[c].phase \in {"streaming", "committing", "reloading", "retryable"}
SingleExecution ==
    \A c, d \in Runs : Executing(c) /\ Executing(d) /\ TabOf[c] = TabOf[d] => c = d
=============================================================================

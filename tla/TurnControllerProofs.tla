------------------------- MODULE TurnControllerProofs -------------------------
(***************************************************************************)
(* Theorems on the turn controller over the browser store, for every       *)
(* number of tabs, submissions and other clients.  In the workspace the    *)
(* store is driven by the controllers, so its two invariants are shown     *)
(* again, of the calls they make; on top of them stands what a run knows   *)
(* of the thread it commits to.                                            *)
(***************************************************************************)
EXTENDS TurnController, IndexedDbProofs

-----------------------------------------------------------------------------
(* The first invariant: types, the store's invariants, and that a run builds *)
(* its turn once, when its stream has ended.                                 *)

TabsTyped ==
    /\ known \in [Tabs -> BOOLEAN] /\ viewActive \in [Tabs -> BOOLEAN]
    /\ left \in [Tabs -> BOOLEAN] /\ mounting \in [Tabs -> BOOLEAN]
    /\ current \in [Tabs -> Runs \cup {None}]

TurnsOf(c) == {FullTurn[c], BareTurn[c]}

(* The turn a run commits has finished after it was created.                 *)
Lived(u, cand) == cand[u] # None /\ TurnCreatedAt[u] <= cand[u].finishedAt

Drafted(c, r, cand, time) ==
    /\ r.phase \in {"new", "loading", "streaming"}
       => \A u \in TurnsOf(c) : cand[u] = None
    /\ r.phase \in {"loading", "streaming"}
       => \A u \in TurnsOf(c) : TurnCreatedAt[u] <= time
    /\ r.phase \in {"committing", "reloading", "retryable", "blocked"}
       => Lived(TurnOf(c, r.ending), cand)

TInv ==
    /\ IInv /\ WInv /\ PurgesAreDue
    /\ run \in [Runs -> Controller] /\ TabsTyped
    /\ \A c \in Runs : Drafted(c, run[c], candidate, now)

(* The second invariant speaks of a run's controller r, its store operation  *)
(* o, whether its thread has been deleted or has outlived its retention      *)
(* (gone), and the stored record rec.                                        *)

Bears(record, u) == record # None /\ u \in {turn.id : turn \in ToSet(record.turns)}

Gone == Shown \in lapsed \/ tombs[Shown] # None

(* The record has the turns S.                                               *)
Spans(record, S) == \A w \in S : Bears(record, w)

(* What a run asks of the store.                                             *)
Errand(c, r, o) ==
    o.pc # "idle" =>
        /\ o.at = Shown
        /\ o.pc \in {"read", "reread", "legacy", "migrate", "settle", "purge", "write"}
        /\ \/ /\ r.phase \in {"loading", "reloading"}
              /\ o.kind = "load" /\ o.pc # "write"
           \/ /\ r.phase = "committing" /\ o.kind = "commit"
              /\ o.turn = TurnOf(c, r.ending) /\ o.supplied = RecordsFor(c, r.ending)
              /\ r.expected # 0 => ~o.create

(* What the operation has read is behind the thread by other clients' turns, *)
(* a deletion or the end of its retention, and by nothing else: no other     *)
(* client adds the run's own turn.                                           *)
Sight(u, r, o, gone, rec) ==
    o.pc # "idle" =>
        /\ o.record # None => gone \/ rec # None
        /\ \A w : Bears(o.record, w) => gone \/ Bears(rec, w)
        /\ o.record # None /\ r.expected # 0 => gone \/ Spans(o.record, r.context)
        /\ o.tomb # None => gone
        /\ o.pc \in {"legacy", "migrate", "settle"} =>
              /\ ~Bears(o.record, u) => ~Bears(rec, u)
              /\ o.record = None /\ r.expected # 0 => gone

(* A turn refused for good is not in the thread, and if it was complete and  *)
(* its thread loaded, the thread is gone.                                    *)
Refused(u, r, gone, rec) ==
    /\ ~Bears(rec, u)
    /\ r.expected # 0 /\ r.ending = "terminal" => gone

(* What the answer of an operation that is over says of the thread.          *)
Reply(u, r, o, gone, rec) ==
    o.pc = "idle" =>
        /\ r.phase \in {"loading", "reloading"} =>
              /\ o.result \in {"ok", "storage_unavailable"}
              /\ o.expected # 0 => gone \/ rec # None
              /\ o.result = "ok" => gone \/ Spans(rec, o.seen)
        /\ r.phase = "committing" =>
              /\ Success(o.result) => gone \/ Bears(rec, u)
              /\ ~Success(o.result) /\ ~Retryable(o.result) => Refused(u, r, gone, rec)

(* Where the run stands.                                                     *)
Standing(u, r, o, gone, rec) ==
    /\ r.phase = "saved" => gone \/ Bears(rec, u)
    /\ r.phase = "blocked" => Refused(u, r, gone, rec)
    /\ r.phase \notin {"loading", "reloading", "committing"} => o.pc = "idle"
    /\ r.expected # 0 => ~r.create /\ (gone \/ rec # None)
                        /\ (gone \/ Spans(rec, r.context))
    /\ r.phase \in {"committing", "reloading", "retryable", "blocked"}
       => TurnSupport[u] \subseteq r.context

Knows(c, r, o, gone, rec) ==
    /\ Errand(c, r, o)
    /\ Sight(TurnOf(c, r.ending), r, o, gone, rec)
    /\ Reply(TurnOf(c, r.ending), r, o, gone, rec)
    /\ Standing(TurnOf(c, r.ending), r, o, gone, rec)

(* Nobody imports, and nobody else commits the turns of the runs.            *)
Foreign ==
    /\ \A c \in Clients : op[c].kind # "import"
    /\ \A c \in Clients \ Runs : op[c].turn \notin RunTurns

KInv ==
    /\ Foreign
    /\ \A c \in Runs : Knows(c, run[c], op[c], Gone, records[Shown])

-----------------------------------------------------------------------------
(* The calls a run makes.                                                    *)

LoadOp == [Returned("none") EXCEPT !.pc = "read", !.kind = "load", !.at = Shown]

CommitOp(c, ending, expected, create) ==
    [Returned("none") EXCEPT
       !.pc = "read", !.kind = "commit", !.at = Shown,
       !.turn = TurnOf(c, ending), !.expected = expected,
       !.create = create, !.supplied = RecordsFor(c, ending)]

(* The locals of a call that has read nothing yet, or of a lost answer.      *)
Unread(o) ==
    /\ o.record = None /\ o.tomb = None
    /\ o.pc \in {"read", "idle"} /\ o.kind \in {"none", "load", "commit"}
    /\ o.result \in {"none", "storage_unavailable"}

(* The locals of the load a controller begins with.                          *)
LEMMA LoadOpFits ==
    ASSUME NEW cand, NEW o, o = LoadOp
    PROVE  /\ Fits(o, cand) /\ Unread(o)
           /\ o.pc = "read" /\ o.kind = "load" /\ o.at = Shown
<1>1. <<>> \in Seq(Sources) /\ Shown \in Threads
  BY EmptySeq, ControllerAssumption
<1>2. o = [pc |-> "read", kind |-> "load", at |-> Shown, turn |-> None,
                expected |-> 0, create |-> FALSE, supplied |-> <<>>,
                replace |-> FALSE, again |-> FALSE, record |-> None, tomb |-> None,
                time |-> 0, todo |-> {}, seen |-> {}, result |-> "none"]
  BY DEF LoadOp, Returned
<1>3. o \in Op
  BY <1>1, <1>2 DEF Op, PCs, OpKinds, Codes
<1> QED
  BY <1>1, <1>2, <1>3 DEF Fits, Unread

(* The locals of a commit of a turn the controller has built.                *)
LEMMA CommitOpFits ==
    ASSUME NEW c \in Runs, NEW ending, NEW expected \in Nat, NEW create \in BOOLEAN,
           NEW cand, cand[TurnOf(c, ending)] # None,
           NEW o, o = CommitOp(c, ending, expected, create)
    PROVE  /\ Fits(o, cand) /\ Unread(o)
           /\ o.pc = "read" /\ o.kind = "commit" /\ o.at = Shown
           /\ o.turn = TurnOf(c, ending) /\ o.supplied = RecordsFor(c, ending)
           /\ o.create = create /\ o.expected = expected
<1>1. <<>> \in Seq(Sources) /\ Shown \in Threads
  BY EmptySeq, ControllerAssumption
<1>2. TurnOf(c, ending) \in TurnIds /\ FullTurn[c] \in TurnIds
  BY ControllerAssumption DEF TurnOf
<1>3. RecordsFor(c, ending) \in Seq(Sources)
  BY <1>1, <1>2, SourcesAssumption DEF RecordsFor
<1>4. o = [pc |-> "read", kind |-> "commit", at |-> Shown,
           turn |-> TurnOf(c, ending), expected |-> expected, create |-> create,
           supplied |-> RecordsFor(c, ending),
           replace |-> FALSE, again |-> FALSE, record |-> None, tomb |-> None,
           time |-> 0, todo |-> {}, seen |-> {}, result |-> "none"]
  BY DEF CommitOp, Returned
<1>5. o \in Op
  BY <1>1, <1>2, <1>3, <1>4 DEF Op, PCs, OpKinds, Codes
<1> QED
  BY <1>1, <1>2, <1>4, <1>5 DEF Fits, Unread

(* The locals of an operation whose answer was lost.                         *)
LEMMA LostAnswerFits ==
    ASSUME NEW cand, NEW o, o = Returned("storage_unavailable")
    PROVE  /\ Fits(o, cand) /\ Unread(o) /\ o.pc = "idle" /\ o.expected = 0
           /\ o.result = "storage_unavailable"
<1>1. Fits(o, cand)
  BY ReturnedFits DEF Codes
<1> QED
  BY <1>1 DEF Returned, Unread

-----------------------------------------------------------------------------
(* A run moves: its controller becomes r and its operation o, which has read *)
(* nothing or is the one it had; the store stays as it is.                   *)

Sets(c, r, o) ==
    /\ run' = [run EXCEPT ![c] = r] /\ op' = [op EXCEPT ![c] = o]
    /\ UNCHANGED <<storeVars, now, nextRev, started, lapsed>>

(* The candidates of its own turns are all that the run may set, once.       *)
Builds(c) ==
    /\ candidate' \in [TurnIds -> Candidate \cup {None}]
    /\ \A u \in TurnIds : \/ candidate'[u] = candidate[u]
                          \/ /\ u \in TurnsOf(c) /\ candidate[u] = None
                             /\ candidate'[u] # None

(* Two runs build different turns: every submission draws its own turn id    *)
(* (ThreadRoute.tsx:111).                                                    *)
LEMMA OtherTurns ==
    ASSUME NEW c \in Runs, NEW d \in Runs, c # d
    PROVE  /\ TurnsOf(c) \cap TurnsOf(d) = {}
           /\ TurnsOf(c) \subseteq TurnIds
           /\ \A ending : TurnOf(c, ending) \in TurnsOf(c)
BY ControllerAssumption DEF TurnsOf, TurnOf

(* The turn a run commits is one of its own.                                 *)
LEMMA OwnTurn ==
    ASSUME NEW c \in Runs, NEW ending
    PROVE  /\ TurnOf(c, ending) \in TurnsOf(c) /\ TurnOf(c, ending) \in TurnIds
           /\ TurnOf(c, ending) \in RunTurns /\ TurnOf(c, ending) # None
           /\ c \in Clients
<1>1. c \in Clients /\ FullTurn[c] \in TurnIds /\ BareTurn[c] \in TurnIds
  BY ControllerAssumption
<1> QED
  BY <1>1, BaseAssumption DEF TurnOf, TurnsOf, RunTurns

(* A move of one client that writes nothing keeps the invariants of the      *)
(* store.                                                                    *)
LEMMA MoveKeepsStore ==
    ASSUME IInv, WInv, PurgesAreDue, NEW c \in Clients, NEW o,
           op' = [op EXCEPT ![c] = o],
           UNCHANGED <<storeVars, now, nextRev, started, lapsed>>,
           candidate' \in [TurnIds -> Candidate \cup {None}],
           Stays(candidate, candidate'),
           o = op[c] \/ Unread(o), Fits(o, candidate')
    PROVE  IInv' /\ WInv' /\ PurgesAreDue'
<1>1. /\ Fits(op[c], candidate) /\ Genuine(op[c], records, nextRev)
      /\ op \in [Clients -> Op]
  BY DEF IInv
<1>2. UNCHANGED <<records, tombs, index, legacy, nextRev, now, started, lapsed>>
  BY DEF storeVars
<1>3. IInv'
  <2>1. Typed'
    BY <1>2 DEF IInv, Typed
  <2>2. OneFace' /\ Drawn'
    BY <1>2 DEF IInv, OneFace, Drawn
  <2>3. Evolves(records, nextRev, candidate, records', nextRev', candidate')
    BY <1>2 DEF Evolves, IInv, Typed, Stays
  <2>4. Genuine(o, records', nextRev')
    BY <1>1, <1>2 DEF Genuine, Unread
  <2> QED
    BY <2>1, <2>2, <2>3, <2>4, StepKeeps
<1>4. WInv'
  <2>1. Good(op[c], candidate) /\ Clean(op[c])
    BY DEF WInv, SInv
  <2>2. Good(op[c], candidate')
    BY <1>1, <2>1, GoodStays
  <2>3. Good(o, candidate') /\ Clean(o)
    BY <2>1, <2>2 DEF Unread, Good, Sound, Clean
  <2> QED
    BY <1>2, <2>3, WholeStep
<1>5. PurgesAreDue'
  <2>1. \A d \in Clients : op'[d] = IF d = c THEN o ELSE op[d]
    BY <1>1
  <2> QED
    BY <1>2, <2>1 DEF PurgesAreDue, Unread
<1> QED
  BY <1>3, <1>4, <1>5

(* A move of a run keeps the first invariant, and the second one if the run  *)
(* knows afterwards what it has to.                                          *)
LEMMA MoveKeeps ==
    ASSUME TInv, NEW c \in Runs, NEW r \in Controller, NEW o, Sets(c, r, o), Builds(c),
           TabsTyped', o = op[c] \/ Unread(o), Fits(o, candidate'),
           Drafted(c, r, candidate', now')
    PROVE  /\ TInv'
           /\ KInv /\ Knows(c, r, o, Gone, records[Shown]) => KInv'
<1>1. /\ c \in Clients /\ op \in [Clients -> Op] /\ run \in [Runs -> Controller]
      /\ Runs \subseteq Clients
  BY ControllerAssumption DEF TInv, IInv
<1>2. Stays(candidate, candidate')
  BY DEF Builds, Stays
<1>3. IInv' /\ WInv' /\ PurgesAreDue'
  BY <1>1, <1>2, MoveKeepsStore DEF Sets, Builds, TInv
<1>4. /\ \A d \in Runs : run'[d] = IF d = c THEN r ELSE run[d]
      /\ \A d \in Clients : op'[d] = IF d = c THEN o ELSE op[d]
      /\ run' \in [Runs -> Controller]
      /\ records' = records /\ tombs' = tombs /\ lapsed' = lapsed /\ now' = now
  BY <1>1 DEF Sets, storeVars
<1>5. ASSUME NEW d \in Runs PROVE Drafted(d, run'[d], candidate', now')
  <2>1. CASE d = c
    BY <1>4, <2>1
  <2>2. CASE d # c
    <3>1. \A u \in TurnsOf(d) : candidate'[u] = candidate[u]
      BY <2>2, OtherTurns DEF Builds
    <3>2. TurnOf(d, run[d].ending) \in TurnsOf(d)
      BY OwnTurn
    <3>3. Drafted(d, run[d], candidate, now) /\ run'[d] = run[d]
      BY <1>4, <2>2 DEF TInv
    <3> QED
      BY <1>4, <3>1, <3>2, <3>3 DEF Drafted, Lived
  <2> QED
    BY <2>1, <2>2
<1>6. TInv'
  BY <1>3, <1>4, <1>5 DEF TInv
<1>7. ASSUME KInv, Knows(c, r, o, Gone, records[Shown]) PROVE KInv'
  <2>1. Gone' <=> Gone
    BY <1>4 DEF Gone
  <2>2. o.kind # "import"
    BY <1>1, <1>7 DEF Unread, KInv, Foreign
  <2>3. Foreign'
    BY <1>1, <1>4, <1>7, <2>2 DEF KInv, Foreign
  <2>4. ASSUME NEW d \in Runs
        PROVE  Knows(d, run'[d], op'[d], Gone', records'[Shown])
    <3>1. d \in Clients
      BY <1>1
    <3>2. Gone' = Gone
      BY <2>1 DEF Gone
    <3>3. Knows(d, run[d], op[d], Gone, records[Shown])
      BY <1>7 DEF KInv
    <3> QED
      BY <1>4, <1>7, <3>1, <3>2, <3>3
  <2> QED
    BY <2>3, <2>4 DEF KInv
<1> QED
  BY <1>6, <1>7

-----------------------------------------------------------------------------
(* The steps of a run.                                                       *)

(* A controller in another phase is otherwise as it was.                     *)
LEMMA PhaseSet ==
    ASSUME NEW q \in Controller, NEW phase \in Phases,
           NEW r, r = [q EXCEPT !.phase = phase]
    PROVE  /\ r \in Controller /\ r.phase = phase /\ r.expected = q.expected
           /\ r.create = q.create /\ r.ending = q.ending /\ r.again = q.again
           /\ r.retries = q.retries /\ r.context = q.context
BY DEF Controller

(* The store and the operation stay as they are.                             *)
LEMMA QuietSets ==
    ASSUME TInv, NEW c \in Runs, NEW r, run' = [run EXCEPT ![c] = r], NoStore
    PROVE  /\ Sets(c, r, op[c]) /\ Builds(c) /\ Fits(op[c], candidate')
           /\ candidate' = candidate /\ now' = now
<1>1. c \in Clients /\ op \in [Clients -> Op] /\ Fits(op[c], candidate)
  BY ControllerAssumption DEF TInv, IInv
<1>2. candidate \in [TurnIds -> Candidate \cup {None}]
  BY DEF TInv, IInv, Typed
<1>3. candidate' = candidate /\ op' = op /\ now' = now
  BY DEF NoStore, vars
<1>4. UNCHANGED <<storeVars, now, nextRev, started, lapsed>>
  BY DEF NoStore, vars, storeVars
<1> QED
  BY <1>1, <1>2, <1>3, <1>4 DEF Sets, Builds

(* A call of the store is a move of its caller.                              *)
LEMMA CallSets ==
    ASSUME TInv, NEW c \in Runs, NEW r, NEW o, run' = [run EXCEPT ![c] = r], Call(c, o)
    PROVE  Sets(c, r, o) /\ (UNCHANGED candidate => Builds(c))
<1>1. candidate \in [TurnIds -> Candidate \cup {None}]
  BY DEF TInv, IInv, Typed
<1> QED
  BY <1>1 DEF Sets, Builds, Call

(* A call that has read nothing says nothing of the thread yet.              *)
LEMMA UnreadKnows ==
    ASSUME NEW u, NEW r, NEW o, NEW gone, NEW rec, Unread(o), o.pc = "read"
    PROVE  Sight(u, r, o, gone, rec) /\ Reply(u, r, o, gone, rec)
BY DEF Unread, Sight, Reply, Bears

(* A submission loads the thread first (ThreadRoute.tsx:107-117).            *)
LEMMA SubmitKeeps ==
    ASSUME TInv, NEW c \in Runs, Submit(c)
    PROVE  TInv' /\ (KInv => KInv')
<1>1. PICK r : r = [run[c] EXCEPT !.phase = "loading"]
  OBVIOUS
<1>2. PICK o : o = LoadOp
  OBVIOUS
<1>3. run[c] \in Controller /\ Drafted(c, run[c], candidate, now) /\ run[c].phase = "new"
  BY DEF TInv, Submit
<1>4. /\ r \in Controller /\ r.phase = "loading" /\ r.expected = run[c].expected
      /\ r.create = run[c].create /\ r.ending = run[c].ending
      /\ r.context = run[c].context
  BY <1>1, <1>3, PhaseSet DEF Phases
<1>5. /\ Fits(o, candidate') /\ Unread(o)
      /\ o.pc = "read" /\ o.kind = "load" /\ o.at = Shown
  BY <1>2, LoadOpFits
<1>6. Sets(c, r, o) /\ Builds(c)
  BY <1>1, <1>2, CallSets DEF Submit, CallLoad, LoadOp, Becomes
<1>7. TabsTyped' /\ Drafted(c, r, candidate', now')
  <2>1. now' = now /\ candidate' = candidate
    BY <1>6 DEF Submit, Sets
  <2>2. \A u \in TurnsOf(c) : TurnCreatedAt[u] <= now
    BY DEF Submit, TurnsOf
  <2>3. TabsTyped'
    BY DEF Submit, tabVars, TInv, TabsTyped
  <2> QED
    BY <1>3, <1>4, <2>1, <2>2, <2>3 DEF Drafted
<1>8. KInv => Knows(c, r, o, Gone, records[Shown])
  <2>1. SUFFICES ASSUME KInv PROVE Knows(c, r, o, Gone, records[Shown])
    OBVIOUS
  <2>2. Standing(TurnOf(c, r.ending), r, o, Gone, records[Shown])
    BY <1>4, <2>1 DEF KInv, Knows, Standing
  <2> QED
    BY <1>4, <1>5, <2>2, UnreadKnows DEF Knows, Errand
<1> QED
  BY <1>4, <1>5, <1>6, <1>7, <1>8, MoveKeeps

(* The load has answered: the stream starts, or the user has left. The       *)
(* revision a run starts from is one the thread had, so the thread was       *)
(* there.                                                                    *)
LEMMA LoadedKeeps ==
    ASSUME TInv, NEW c \in Runs, Loaded(c)
    PROVE  TInv' /\ (KInv => KInv')
<1> DEFINE ok == Answer(c) = "ok"
           rev == IF ok THEN op[c].expected ELSE 0
           create == IF ok THEN rev = 0 ELSE ~known[TabOf[c]]
           context == IF ok THEN op[c].seen ELSE IF known[TabOf[c]] THEN TurnIds ELSE {}
<1>1. /\ run[c] \in Controller /\ Drafted(c, run[c], candidate, now)
      /\ run[c].phase = "loading" /\ op[c].pc = "idle" /\ NoStore
      /\ TabOf[c] \in Tabs /\ TabsTyped
  BY ControllerAssumption DEF TInv, Loaded, Answered
<1>2. op[c] \in Op /\ rev \in Nat /\ create \in BOOLEAN /\ context \in SUBSET TurnIds
  BY ControllerAssumption, <1>1 DEF TInv, IInv, Op, TabsTyped
<1>3. CASE Becomes(c, "dropped") /\ UNCHANGED tabVars
  <2>1. PICK r : r = [run[c] EXCEPT !.phase = "dropped"]
    OBVIOUS
  <2>2. /\ r \in Controller /\ r.phase = "dropped" /\ r.expected = run[c].expected
        /\ r.create = run[c].create /\ r.ending = run[c].ending
        /\ r.context = run[c].context
    BY <1>1, <2>1, PhaseSet DEF Phases
  <2>3. Sets(c, r, op[c]) /\ Builds(c) /\ Fits(op[c], candidate')
    BY <1>1, <1>3, <2>1, QuietSets DEF Becomes
  <2>4. TabsTyped' /\ Drafted(c, r, candidate', now')
    BY <1>1, <1>3, <2>2 DEF tabVars, TabsTyped, Drafted
  <2>5. KInv => Knows(c, r, op[c], Gone, records[Shown])
    BY <1>1, <2>2 DEF KInv, Knows, Standing, Errand, Sight, Reply
  <2> QED
    BY <2>2, <2>3, <2>4, <2>5, MoveKeeps
<1>4. CASE /\ run' = [run EXCEPT ![c].phase = "streaming", ![c].expected = rev,
                          ![c].create = create, ![c].context = context]
           /\ current' = [current EXCEPT ![TabOf[c]] = c]
           /\ viewActive' = [viewActive EXCEPT ![TabOf[c]] = TRUE]
           /\ UNCHANGED <<known, mounting, left>>
  <2>1. PICK r : r = [run[c] EXCEPT !.phase = "streaming", !.expected = rev,
                                    !.create = create, !.context = context]
    OBVIOUS
  <2>2. /\ r \in Controller /\ r.phase = "streaming" /\ r.expected = rev
        /\ r.create = create /\ r.ending = run[c].ending /\ r.context = context
    <3> HIDE DEF rev, create, context
    <3> QED
      BY <1>1, <1>2, <2>1 DEF Controller, Phases
  <2>3. run' = [run EXCEPT ![c] = r]
    BY <1>4, <2>1 DEF TInv
  <2>4. /\ Sets(c, r, op[c]) /\ Builds(c) /\ Fits(op[c], candidate')
        /\ candidate' = candidate /\ now' = now
    BY <1>1, <2>3, QuietSets
  <2>5. TabsTyped' /\ Drafted(c, r, candidate', now')
    BY <1>1, <1>4, <2>2, <2>4 DEF TabsTyped, Drafted
  <2>6. KInv => Knows(c, r, op[c], Gone, records[Shown])
    <3> SUFFICES ASSUME KInv PROVE Knows(c, r, op[c], Gone, records[Shown])
      OBVIOUS
    <3>1. /\ op[c].expected # 0 => Gone \/ records[Shown] # None
          /\ ok => Gone \/ Spans(records[Shown], op[c].seen)
      BY <1>1 DEF KInv, Knows, Reply, Answer
    <3>2. r.expected # 0 => /\ ~r.create /\ (Gone \/ records[Shown] # None)
                            /\ Gone \/ Spans(records[Shown], r.context)
      BY <2>2, <3>1
    <3> QED
      BY <1>1, <2>2, <3>2 DEF Knows, Standing, Errand, Sight, Reply
  <2> QED
    BY <2>2, <2>4, <2>5, <2>6, MoveKeeps
<1> QED
  BY <1>3, <1>4 DEF Loaded

(* A step that only changes what a tab shows or knows.                       *)
LEMMA ViewKeeps ==
    ASSUME TInv, NoStore, UNCHANGED run, TabsTyped'
    PROVE  TInv' /\ (KInv => KInv')
<1>1. UNCHANGED <<vars, records, tombs, lapsed, op, candidate, now, run>> /\ [Next]_vars
  BY DEF NoStore, vars
<1>2. IInv' /\ WInv' /\ PurgesAreDue'
  BY <1>1, NextKeeps, NextWhole, PurgesStayDue DEF TInv
<1>3. TInv'
  BY <1>1, <1>2 DEF TInv
<1>4. KInv => KInv'
  BY <1>1 DEF KInv, Foreign, Gone
<1> QED
  BY <1>3, <1>4

(* The tab shows events, learns whether there is a thread, or is left.       *)
LEMMA TabKeeps ==
    ASSUME TInv, \/ \E c \in Runs : AcceptEvent(c)
                 \/ \E b \in Tabs : MountLoaded(b) \/ Leave(b)
    PROVE  TInv' /\ (KInv => KInv')
<1>1. NoStore /\ UNCHANGED run
  BY DEF AcceptEvent, MountLoaded, Leave
<1>2. TabsTyped
  BY DEF TInv
<1>3. ASSUME NEW c \in Runs, AcceptEvent(c) PROVE TabsTyped'
  BY <1>2, <1>3 DEF AcceptEvent, TabsTyped
<1>4. ASSUME NEW b \in Tabs, Leave(b) PROVE TabsTyped'
  BY <1>2, <1>4 DEF Leave, TabsTyped
<1>5. ASSUME NEW b \in Tabs, MountLoaded(b) PROVE TabsTyped'
  <2>1. Loadable \in BOOLEAN /\ known[b] \in BOOLEAN
    BY <1>2 DEF Loadable, TabsTyped, IsExpired
  <2>2. PICK found \in {Loadable, FALSE, known[b]} : known' = [known EXCEPT ![b] = found]
    BY <1>5 DEF MountLoaded
  <2>3. found \in BOOLEAN
    BY <2>1, <2>2
  <2> QED
    BY <1>2, <1>5, <2>2, <2>3 DEF MountLoaded, TabsTyped
<1>6. TabsTyped'
  BY <1>3, <1>4, <1>5
<1> QED
  BY <1>1, <1>6, ViewKeeps

(* A view that is not active any more.                                       *)
LEMMA DeactivateTyped ==
    ASSUME TabsTyped, NEW c, Deactivate(c), UNCHANGED <<known, mounting, current, left>>
    PROVE  TabsTyped'
BY DEF TabsTyped, Deactivate

(* A stream that failed leaves nothing to commit.                            *)
LEMMA FinishWithoutCommitKeeps ==
    ASSUME TInv, NEW c \in Runs, FinishWithoutCommit(c)
    PROVE  TInv' /\ (KInv => KInv')
<1>1. /\ run[c] \in Controller /\ run[c].phase = "streaming" /\ NoStore
      /\ TabsTyped /\ "failed" \in Endings
  BY DEF TInv, FinishWithoutCommit
<1>2. PICK r : r = [run[c] EXCEPT !.phase = "failed", !.ending = "failed"]
  OBVIOUS
<1>3. /\ r \in Controller /\ r.phase = "failed" /\ r.expected = run[c].expected
      /\ r.create = run[c].create /\ r.context = run[c].context
  BY <1>1, <1>2 DEF Controller, Phases
<1>4. run' = [run EXCEPT ![c] = r]
  BY <1>2 DEF TInv, FinishWithoutCommit
<1>5. Sets(c, r, op[c]) /\ Builds(c) /\ Fits(op[c], candidate')
  BY <1>1, <1>4, QuietSets
<1>6. TabsTyped' /\ Drafted(c, r, candidate', now')
  BY <1>1, <1>3, DeactivateTyped DEF FinishWithoutCommit, Drafted
<1>7. KInv => Knows(c, r, op[c], Gone, records[Shown])
  BY <1>1, <1>3 DEF KInv, Knows, Standing, Errand, Sight, Reply
<1> QED
  BY <1>3, <1>5, <1>6, <1>7, MoveKeeps

(* The turn is built once, when the stream ends, and committed against the   *)
(* revision loaded before the stream began.                                  *)
LEMMA FinishWithCommitKeeps ==
    ASSUME TInv, NEW c \in Runs, FinishWithCommit(c)
    PROVE  TInv' /\ (KInv => KInv')
<1>1. /\ run[c] \in Controller /\ Drafted(c, run[c], candidate, now) /\ TabsTyped
      /\ run[c].phase = "streaming" /\ now \in Nat
      /\ candidate \in [TurnIds -> Candidate \cup {None}]
  BY DEF TInv, IInv, Typed, FinishWithCommit
<1>2. PICK ending \in Endings \ {"failed"} :
        /\ candidate' = [candidate EXCEPT
                            ![TurnOf(c, ending)] = [thread |-> Shown, finishedAt |-> now]]
        /\ TurnSupport[TurnOf(c, ending)] \subseteq run[c].context
        /\ CallCommit(c, ending, run[c].expected, run[c].create)
        /\ run' = [run EXCEPT ![c].phase = "committing", ![c].ending = ending,
                              ![c].again = FALSE]
  BY DEF FinishWithCommit
<1>3. PICK r : r = [run[c] EXCEPT !.phase = "committing", !.ending = ending,
                                  !.again = FALSE]
  OBVIOUS
<1>4. /\ r \in Controller /\ r.phase = "committing" /\ r.expected = run[c].expected
      /\ r.create = run[c].create /\ r.ending = ending /\ r.context = run[c].context
  BY <1>1, <1>2, <1>3 DEF Controller, Phases
<1>5. PICK o : o = CommitOp(c, ending, run[c].expected, run[c].create)
  OBVIOUS
<1>6. /\ TurnOf(c, ending) \in TurnsOf(c) /\ TurnOf(c, ending) \in TurnIds
      /\ Shown \in Threads /\ candidate[TurnOf(c, ending)] = None
      /\ TurnCreatedAt[TurnOf(c, ending)] <= now
  BY <1>1, OwnTurn, ControllerAssumption DEF Drafted
<1>7. Builds(c) /\ Lived(TurnOf(c, ending), candidate')
  <2>1. [thread |-> Shown, finishedAt |-> now] \in Candidate
    BY <1>1, <1>6 DEF Candidate
  <2>2. [thread |-> Shown, finishedAt |-> now] # None
    BY <2>1, BaseAssumption
  <2>3. PICK x \in Candidate : /\ x # None /\ x.finishedAt = now
                               /\ candidate' = [candidate EXCEPT ![TurnOf(c, ending)] = x]
    BY <1>2, <2>1, <2>2
  <2> QED
    BY <1>1, <1>6, <2>3 DEF Builds, Lived
<1>8. run[c].expected \in Nat /\ run[c].create \in BOOLEAN
  BY <1>1 DEF Controller
<1>9. /\ Fits(o, candidate') /\ Unread(o)
      /\ o.pc = "read" /\ o.kind = "commit" /\ o.at = Shown
      /\ o.turn = TurnOf(c, ending) /\ o.supplied = RecordsFor(c, ending)
      /\ o.create = run[c].create
  BY <1>5, <1>7, <1>8, CommitOpFits DEF Lived
<1>10. run' = [run EXCEPT ![c] = r]
  BY <1>2, <1>3 DEF TInv
<1>11. Sets(c, r, o)
  BY <1>2, <1>5, <1>10, CallSets DEF CallCommit, CommitOp
<1>12. TabsTyped' /\ Drafted(c, r, candidate', now')
  BY <1>1, <1>4, <1>7, DeactivateTyped DEF FinishWithCommit, Drafted
<1>13. KInv => Knows(c, r, o, Gone, records[Shown])
  <2> SUFFICES ASSUME KInv PROVE Knows(c, r, o, Gone, records[Shown])
    OBVIOUS
  <2>1. run[c].expected # 0 => /\ ~run[c].create /\ (Gone \/ records[Shown] # None)
                               /\ Gone \/ Spans(records[Shown], run[c].context)
    BY DEF KInv, Knows, Standing
  <2>2. Errand(c, r, o)
    BY <1>4, <1>9, <2>1 DEF Errand
  <2>3. Standing(TurnOf(c, r.ending), r, o, Gone, records[Shown])
    BY <1>2, <1>4, <2>1 DEF Standing
  <2> QED
    BY <1>9, <2>2, <2>3, UnreadKnows DEF Knows
<1> QED
  BY <1>4, <1>7, <1>9, <1>11, <1>12, <1>13, MoveKeeps

(* The run calls the store to commit its turn, for the first time or again.  *)
LEMMA CommitCallKeeps ==
    ASSUME TInv, NEW c \in Runs, NEW r \in Controller, NEW expected \in Nat,
           NEW create \in BOOLEAN, run' = [run EXCEPT ![c] = r],
           CallCommit(c, run[c].ending, expected, create), UNCHANGED candidate,
           TabsTyped', run[c].phase \in {"reloading", "retryable", "blocked"},
           r.phase = "committing", r.ending = run[c].ending,
           r.expected = run[c].expected, r.create = run[c].create,
           r.context = run[c].context, create => run[c].create
    PROVE  TInv' /\ (KInv => KInv')
<1>1. Drafted(c, run[c], candidate, now)
  BY DEF TInv
<1>2. PICK o : o = CommitOp(c, run[c].ending, expected, create)
  OBVIOUS
<1>3. Lived(TurnOf(c, run[c].ending), candidate')
  BY <1>1 DEF Drafted, Lived
<1>4. /\ Fits(o, candidate') /\ Unread(o)
      /\ o.pc = "read" /\ o.kind = "commit" /\ o.at = Shown
      /\ o.turn = TurnOf(c, run[c].ending) /\ o.supplied = RecordsFor(c, run[c].ending)
      /\ o.create = create
  BY <1>2, <1>3, CommitOpFits DEF Lived
<1>5. Sets(c, r, o) /\ Builds(c)
  BY <1>2, CallSets DEF CallCommit, CommitOp
<1>6. Drafted(c, r, candidate', now')
  BY <1>3 DEF Drafted
<1>7. KInv => Knows(c, r, o, Gone, records[Shown])
  <2> SUFFICES ASSUME KInv PROVE Knows(c, r, o, Gone, records[Shown])
    OBVIOUS
  <2>1. /\ run[c].expected # 0 => /\ ~run[c].create /\ (Gone \/ records[Shown] # None)
                                  /\ Gone \/ Spans(records[Shown], run[c].context)
        /\ TurnSupport[TurnOf(c, run[c].ending)] \subseteq run[c].context
    BY DEF KInv, Knows, Standing
  <2>2. Errand(c, r, o)
    BY <1>4, <2>1 DEF Errand
  <2>3. Standing(TurnOf(c, r.ending), r, o, Gone, records[Shown])
    BY <2>1 DEF Standing
  <2> QED
    BY <1>4, <2>2, <2>3, UnreadKnows DEF Knows
<1> QED
  BY <1>4, <1>5, <1>6, <1>7, MoveKeeps

(* retryCommit commits the same turn again.                                  *)
LEMMA RetryCommitKeeps ==
    ASSUME TInv, NEW c \in Runs, RetryCommit(c)
    PROVE  TInv' /\ (KInv => KInv')
<1>1. /\ run[c] \in Controller /\ TabsTyped /\ run[c].phase \in {"retryable", "blocked"}
      /\ run[c].retries < MaxRetries /\ MaxRetries \in Nat
  BY ControllerAssumption DEF TInv, RetryCommit, Pending
<1>2. PICK n : n = run[c].retries + 1
  OBVIOUS
<1>3. n \in 0..MaxRetries
  <2>1. run[c].retries \in 0..MaxRetries
    BY <1>1 DEF Controller
  <2> QED
    BY <1>1, <1>2, <2>1
<1>4. PICK r : r = [run[c] EXCEPT !.phase = "committing", !.again = FALSE, !.retries = n]
  OBVIOUS
<1>5. /\ r \in Controller /\ r.phase = "committing" /\ r.expected = run[c].expected
      /\ r.create = run[c].create /\ r.ending = run[c].ending
      /\ r.context = run[c].context
      /\ run[c].expected \in Nat /\ run[c].create \in BOOLEAN
  BY <1>1, <1>3, <1>4 DEF Controller, Phases
<1>6. run' = [run EXCEPT ![c] = r]
  BY <1>2, <1>4 DEF TInv, RetryCommit
<1>7. TabsTyped' /\ UNCHANGED candidate
  BY <1>1, DeactivateTyped DEF RetryCommit
<1>8. CallCommit(c, run[c].ending, run[c].expected, run[c].create)
  BY DEF RetryCommit
<1> QED
  BY <1>1, <1>5, <1>6, <1>7, <1>8, CommitCallKeeps

(* A commit or a reload has failed and no further attempt follows.           *)
LEMMA SettledKeeps ==
    ASSUME TInv, NEW c \in Runs, NEW code, Settled(c, code),
           run[c].phase \in {"committing", "reloading"}, op[c].pc = "idle",
           KInv /\ ~Retryable(code)
             => Refused(TurnOf(c, run[c].ending), run[c], Gone, records[Shown])
    PROVE  TInv' /\ (KInv => KInv')
<1> DEFINE phase == IF Retryable(code) THEN "retryable" ELSE "blocked"
<1>1. /\ run[c] \in Controller /\ Drafted(c, run[c], candidate, now) /\ TabsTyped /\ NoStore
  BY DEF TInv, Settled
<1>2. PICK r : r = [run[c] EXCEPT !.phase = phase]
  OBVIOUS
<1>3. phase \in Phases /\ phase \in {"retryable", "blocked"}
  BY DEF Phases
<1>4. /\ r \in Controller /\ r.phase = phase /\ r.expected = run[c].expected
      /\ r.create = run[c].create /\ r.ending = run[c].ending
      /\ r.context = run[c].context
  BY <1>1, <1>2, <1>3, PhaseSet
<1>5. run' = [run EXCEPT ![c] = r]
  BY <1>2 DEF Settled, Becomes, TInv
<1>6. Sets(c, r, op[c]) /\ Builds(c) /\ Fits(op[c], candidate') /\ candidate' = candidate
  BY <1>1, <1>5, QuietSets
<1>7. TabsTyped' /\ Drafted(c, r, candidate', now')
  BY <1>1, <1>3, <1>4, <1>6, DeactivateTyped DEF Settled, Drafted
<1>8. KInv => Knows(c, r, op[c], Gone, records[Shown])
  <2> SUFFICES ASSUME KInv PROVE Knows(c, r, op[c], Gone, records[Shown])
    OBVIOUS
  <2>1. Errand(c, r, op[c]) /\ Sight(TurnOf(c, r.ending), r, op[c], Gone, records[Shown])
    BY DEF Errand, Sight
  <2>2. Reply(TurnOf(c, r.ending), r, op[c], Gone, records[Shown])
    BY <1>3, <1>4 DEF Reply
  <2>3. r.phase = "blocked" => Refused(TurnOf(c, r.ending), r, Gone, records[Shown])
    BY <1>4 DEF Refused
  <2>4. Standing(TurnOf(c, r.ending), r, op[c], Gone, records[Shown])
    BY <1>3, <1>4, <2>3 DEF Standing, KInv, Knows
  <2> QED
    BY <2>1, <2>2, <2>4 DEF Knows
<1> QED
  BY <1>4, <1>6, <1>7, <1>8, MoveKeeps

(* The commit has answered: the turn is saved, a first conflict is answered  *)
(* by a reload, or the run settles (turn-controller.ts:248-253).             *)
LEMMA CommitReturnsKeeps ==
    ASSUME TInv, NEW c \in Runs, CommitReturns(c)
    PROVE  TInv' /\ (KInv => KInv')
<1>1. /\ run[c] \in Controller /\ Drafted(c, run[c], candidate, now) /\ TabsTyped
      /\ run[c].phase = "committing" /\ op[c].pc = "idle"
  BY DEF TInv, CommitReturns, Answered
<1>2. KInv => /\ Reply(TurnOf(c, run[c].ending), run[c], op[c], Gone, records[Shown])
              /\ Standing(TurnOf(c, run[c].ending), run[c], op[c], Gone, records[Shown])
  BY DEF KInv, Knows
<1>3. CASE /\ Success(Answer(c))
           /\ Becomes(c, "saved")
           /\ known' = [known EXCEPT ![TabOf[c]] = @ \/ ~left[TabOf[c]]]
           /\ Deactivate(c)
           /\ UNCHANGED <<mounting, current, left>> /\ NoStore
  <2>1. PICK r : r = [run[c] EXCEPT !.phase = "saved"]
    OBVIOUS
  <2>2. /\ r \in Controller /\ r.phase = "saved" /\ r.expected = run[c].expected
        /\ r.create = run[c].create /\ r.ending = run[c].ending
        /\ r.context = run[c].context
    BY <1>1, <2>1, PhaseSet DEF Phases
  <2>3. /\ Sets(c, r, op[c]) /\ Builds(c) /\ Fits(op[c], candidate')
        /\ candidate' = candidate
    BY <1>3, <2>1, QuietSets DEF Becomes
  <2>4. TabsTyped'
    <3>1. PICK x \in BOOLEAN : known' = [known EXCEPT ![TabOf[c]] = x]
      <4>1. TabOf[c] \in Tabs
        BY ControllerAssumption
      <4>2. (known[TabOf[c]] \/ ~left[TabOf[c]]) \in BOOLEAN
        BY <1>1, <4>1 DEF TabsTyped
      <4> QED
        BY <1>3, <4>2
    <3>2. viewActive' = [viewActive EXCEPT ![TabOf[c]] = FALSE]
      BY <1>3 DEF Deactivate
    <3> QED
      BY <1>1, <1>3, <3>1, <3>2 DEF TabsTyped
  <2>5. Drafted(c, r, candidate', now')
    BY <2>2 DEF Drafted
  <2>6. KInv => Knows(c, r, op[c], Gone, records[Shown])
    BY <1>1, <1>2, <1>3, <2>2 DEF Knows, Errand, Sight, Reply, Standing, Answer
  <2> QED
    BY <2>2, <2>3, <2>4, <2>5, <2>6, MoveKeeps
<1>4. CASE /\ CallLoad(c)
           /\ Becomes(c, "reloading")
           /\ UNCHANGED <<candidate, tabVars>>
  <2>1. PICK r : r = [run[c] EXCEPT !.phase = "reloading"]
    OBVIOUS
  <2>2. /\ r \in Controller /\ r.phase = "reloading" /\ r.expected = run[c].expected
        /\ r.create = run[c].create /\ r.ending = run[c].ending
        /\ r.context = run[c].context
    BY <1>1, <2>1, PhaseSet DEF Phases
  <2>3. PICK o : o = LoadOp
    OBVIOUS
  <2>4. /\ Fits(o, candidate') /\ Unread(o)
        /\ o.pc = "read" /\ o.kind = "load" /\ o.at = Shown
    BY <2>3, LoadOpFits
  <2>5. Sets(c, r, o) /\ Builds(c)
    BY <1>4, <2>1, <2>3, CallSets DEF CallLoad, LoadOp, Becomes
  <2>6. TabsTyped' /\ Drafted(c, r, candidate', now')
    BY <1>1, <1>4, <2>2 DEF tabVars, TabsTyped, Drafted
  <2>7. KInv => Knows(c, r, o, Gone, records[Shown])
    <3> SUFFICES ASSUME KInv PROVE Knows(c, r, o, Gone, records[Shown])
      OBVIOUS
    <3>1. Standing(TurnOf(c, r.ending), r, o, Gone, records[Shown])
      BY <1>1, <1>2, <2>2 DEF Standing
    <3>2. Errand(c, r, o)
      BY <2>2, <2>4 DEF Errand
    <3> QED
      BY <2>4, <3>1, <3>2, UnreadKnows DEF Knows
  <2> QED
    BY <2>2, <2>4, <2>5, <2>6, <2>7, MoveKeeps
<1>5. CASE ~Success(Answer(c)) /\ Settled(c, Answer(c))
  <2>1. KInv /\ ~Retryable(Answer(c))
          => Refused(TurnOf(c, run[c].ending), run[c], Gone, records[Shown])
    BY <1>1, <1>2, <1>5 DEF Reply, Answer
  <2> QED
    BY <1>1, <1>5, <2>1, SettledKeeps
<1> QED
  BY <1>3, <1>4, <1>5 DEF CommitReturns

(* The reload has answered: the turn is committed against what was loaded,   *)
(* or the run settles (turn-controller.ts:254-260).                          *)
LEMMA ReloadReturnsKeeps ==
    ASSUME TInv, NEW c \in Runs, ReloadReturns(c)
    PROVE  TInv' /\ (KInv => KInv')
<1>1. /\ run[c] \in Controller /\ TabsTyped /\ op[c] \in Op
      /\ run[c].phase = "reloading" /\ op[c].pc = "idle"
  BY ControllerAssumption DEF TInv, IInv, ReloadReturns, Answered
<1>2. CASE /\ CallCommit(c, run[c].ending, op[c].expected,
                         op[c].expected = 0 /\ run[c].create)
           /\ run' = [run EXCEPT ![c].phase = "committing", ![c].again = TRUE]
           /\ UNCHANGED <<candidate, tabVars>>
  <2>1. PICK r : r = [run[c] EXCEPT !.phase = "committing", !.again = TRUE]
    OBVIOUS
  <2>2. /\ r \in Controller /\ r.phase = "committing" /\ r.expected = run[c].expected
        /\ r.create = run[c].create /\ r.ending = run[c].ending
        /\ r.context = run[c].context
        /\ run[c].create \in BOOLEAN
    BY <1>1, <2>1 DEF Controller, Phases
  <2>3. run' = [run EXCEPT ![c] = r]
    BY <1>2, <2>1 DEF TInv
  <2>4. PICK expected \in Nat : expected = op[c].expected
    BY <1>1 DEF Op
  <2>5. PICK create \in BOOLEAN : create = (expected = 0 /\ run[c].create)
    OBVIOUS
  <2>6. CallCommit(c, run[c].ending, expected, create)
    BY <1>2, <2>4, <2>5
  <2>7. TabsTyped'
    BY <1>1, <1>2 DEF tabVars, TabsTyped
  <2> QED
    BY <1>1, <1>2, <2>2, <2>3, <2>5, <2>6, <2>7, CommitCallKeeps
<1>3. CASE Answer(c) # "ok" /\ Settled(c, Answer(c))
  <2>1. KInv => Answer(c) \in {"ok", "storage_unavailable"}
    BY <1>1 DEF KInv, Knows, Reply, Answer
  <2>2. KInv => Retryable(Answer(c))
    BY <1>3, <2>1 DEF Retryable
  <2> QED
    BY <1>1, <1>3, <2>2, SettledKeeps
<1> QED
  BY <1>2, <1>3 DEF ReloadReturns

-----------------------------------------------------------------------------
(* What a step of the store does to a thread, imports apart.                 *)

Untouched(t) == records'[t] = records[t] /\ tombs'[t] = tombs[t]
Vanishes(t) == records'[t] = None /\ (tombs'[t] # None \/ t \in lapsed)
Migrates(t) ==
    /\ records[t] = None /\ records'[t] # None /\ records'[t].turns = Legacy[t].turns
    /\ tombs'[t] = tombs[t]
Admits(c, t) ==
    /\ op[c].pc = "write" /\ op[c].kind = "commit" /\ op[c].at = t
    /\ records'[t] # None /\ tombs'[t] = tombs[t]
    /\ ToSet(records'[t].turns)
         = ToSet(CurrentTurns(records[t])) \cup {InputOf(op[c]).turn}

(* An accepted write adds the turn of the commit to the stored thread.       *)
LEMMA AcceptedAdmits ==
    ASSUME IInv, NEW c \in Clients, Write(c), Accepts(op[c]), op[c].kind = "commit"
    PROVE  Admits(c, op[c].at)
<1>1. /\ records \in [Threads -> Record \cup {None}]
      /\ candidate \in [TurnIds -> Candidate \cup {None}]
      /\ op[c] \in Op /\ Fits(op[c], candidate)
  BY DEF IInv, Typed
<1>2. op[c].pc = "write" /\ op[c].at \in Threads
  BY <1>1 DEF Write, Fits
<1>3. PICK t \in Threads : t = op[c].at
  BY <1>2
<1>4. PICK r : r = NewRecord(op[c])
  OBVIOUS
<1>5. records' = [records EXCEPT ![t] = r] /\ tombs' = tombs
  BY <1>3, <1>4 DEF Write, ClearsTombstone
<1>6. r \in Record /\ r # None
  BY <1>1, <1>2, <1>4, NewRecordType, NoneAssumption
<1>7. records[t] = op[c].record
  BY <1>3, AcceptedIsStored
<1>8. InputOf(op[c]).turn \in Turn
  BY <1>1, InputTyped DEF InputOf, InputWith
<1>9. CurrentTurns(records[t]) \in Seq(Turn)
  BY <1>1, EmptySeq DEF CurrentTurns, Record
<1>10. r.turns = InsertTurn(CurrentTurns(records[t]), InputOf(op[c]).turn)
  BY <1>4, <1>7 DEF NewRecord, Extended
<1>11. ToSet(r.turns) = ToSet(CurrentTurns(records[t])) \cup {InputOf(op[c]).turn}
  BY <1>8, <1>9, <1>10, InsertTurnKeeps
<1>12. records'[t] = r
  BY <1>1, <1>5
<1> QED
  BY <1>2, <1>3, <1>5, <1>6, <1>11, <1>12 DEF Admits

(* Every step of the store leaves a thread alone, removes it behind a        *)
(* tombstone or after its retention, migrates its legacy record or admits    *)
(* one turn.                                                                 *)
LEMMA ThreadMoves ==
    ASSUME IInv, PurgesAreDue, NEW c \in Clients, op[c].kind # "import",
           Start(c) \/ Progress(c) \/ Interrupt(c), NEW t \in Threads
    PROVE  /\ Untouched(t) \/ Vanishes(t) \/ Migrates(t) \/ Admits(c, t)
           /\ lapsed \subseteq lapsed'
<1>1. /\ records \in [Threads -> Record \cup {None}]
      /\ tombs \in [Threads -> Nat \cup {None}]
      /\ candidate \in [TurnIds -> Candidate \cup {None}]
      /\ nextRev \in [Threads -> Nat \ {0}]
      /\ op[c] \in Op /\ Fits(op[c], candidate)
  BY DEF IInv, Typed
<1>2. ASSUME UNCHANGED <<records, tombs>> PROVE Untouched(t)
  BY <1>2 DEF Untouched
<1>3. CASE Start(c)
  <2>1. PICK o : Begin(c, o)
    BY <1>1, <1>3, StartBegins
  <2> QED
    BY <1>2, <2>1 DEF Begin
<1>4. CASE \/ Settle(c) \/ PickThread(c) \/ Interrupt(c)
           \/ Read(c) \/ ReadLegacy(c) \/ ListLegacyKeys(c)
  <2>1. UNCHANGED <<records, tombs>>
    BY <1>4 DEF Settle, PickThread, Interrupt, Read, ReadLegacy, ListLegacyKeys,
       storeVars
  <2>2. lapsed \subseteq lapsed'
    <3>1. CASE Settle(c)
      <4>1. lapsed' = lapsed \/ lapsed' = lapsed \cup {op[c].at}
        BY <3>1 DEF Settle
      <4> QED
        BY <4>1
    <3>2. CASE ~Settle(c)
      BY <1>4, <3>2 DEF PickThread, Interrupt, Read, ReadLegacy, ListLegacyKeys, Elsewhere
    <3> QED
      BY <3>1, <3>2
  <2> QED
    BY <1>2, <2>1, <2>2
<1>5. CASE Migrate(c) \/ Sweep(c)
  <2>1. UNCHANGED lapsed
    BY <1>5 DEF Migrate, Sweep, Elsewhere
  <2>2. ASSUME NEW s \in Threads, CanMigrate(s), InstallLegacy(s)
        PROVE  Untouched(t) \/ Migrates(t)
    <3>1. PICK r : r = Converted(s, nextRev[s])
      OBVIOUS
    <3>2. r \in Record /\ r.turns = Legacy[s].turns
      BY <1>1, <3>1, ConvertedType DEF Converted, AsConverted
    <3>3. records' = [records EXCEPT ![s] = r] /\ UNCHANGED tombs
      BY <2>2, <3>1 DEF InstallLegacy
    <3> QED
      BY <1>1, <2>2, <3>2, <3>3, NoneAssumption DEF CanMigrate, Untouched, Migrates
  <2>3. UNCHANGED storeVars \/ \E s \in Threads : CanMigrate(s) /\ InstallLegacy(s)
    <3>1. op[c].pc = "migrate" => op[c].at \in Threads
      BY <1>1 DEF Fits
    <3>2. op[c].todo \subseteq Threads
      BY <1>1 DEF Op
    <3> QED
      BY <1>5, <3>1, <3>2 DEF Migrate, Sweep
  <2> QED
    BY <1>2, <2>1, <2>2, <2>3 DEF storeVars
<1>6. CASE Purge(c)
  <2>1. /\ records' = [records EXCEPT ![op[c].at] = None]
        /\ tombs' = [tombs EXCEPT ![op[c].at] = None]
        /\ op[c].at \in lapsed /\ UNCHANGED lapsed
    BY <1>6 DEF Purge, Elsewhere, PurgesAreDue
  <2> QED
    BY <1>1, <2>1 DEF Untouched, Vanishes
<1>7. CASE Write(c)
  <2>1. /\ op[c].pc = "write" /\ op[c].at \in Threads /\ op[c].kind = "commit"
        /\ UNCHANGED lapsed
    BY <1>1, <1>7 DEF Write, Fits, Elsewhere
  <2>2. CASE UNCHANGED storeVars
    BY <1>2, <2>1, <2>2 DEF storeVars
  <2>3. CASE /\ Accepts(op[c])
             /\ records' = [records EXCEPT ![op[c].at] = NewRecord(op[c])]
             /\ tombs' = IF ClearsTombstone(op[c])
                         THEN [tombs EXCEPT ![op[c].at] = None] ELSE tombs
    <3>1. Accepts(op[c]) /\ Write(c)
      BY <1>7, <2>3
    <3>2. CASE op[c].at # t
      <4>1. tombs' = tombs
        BY <2>1, <2>3 DEF ClearsTombstone
      <4>2. Untouched(t)
        BY <1>1, <2>3, <3>2, <4>1 DEF Untouched
      <4> QED
        BY <2>1, <4>2
    <3>3. CASE op[c].at = t
      <4>1. Admits(c, t)
        BY <2>1, <3>1, <3>3, AcceptedAdmits
      <4> QED
        BY <2>1, <4>1
    <3> QED
      BY <3>2, <3>3
  <2> QED
    BY <1>7, <2>2, <2>3 DEF Write
<1>8. CASE WriteTombstone(c)
  <2>1. op[c].at \in Threads /\ UNCHANGED lapsed
    BY <1>1, <1>8 DEF WriteTombstone, Fits, Elsewhere
  <2>2. CASE UNCHANGED storeVars
    BY <1>2, <2>1, <2>2 DEF storeVars
  <2>3. CASE /\ records' = [records EXCEPT ![op[c].at] = None]
             /\ tombs' = [tombs EXCEPT ![op[c].at] = ThreadExpiryAt(op[c].time)]
    <3>1. PICK x : x = ThreadExpiryAt(op[c].time)
      OBVIOUS
    <3>2. x # None
      <4>1. x \in Nat
        BY <1>1, <3>1, RetentionAssumption DEF Op, ThreadExpiryAt
      <4> QED
        BY <4>1, NoneAssumption
    <3>3. /\ records' = [records EXCEPT ![op[c].at] = None]
          /\ tombs' = [tombs EXCEPT ![op[c].at] = x]
      BY <2>3, <3>1
    <3>4. CASE op[c].at = t
      BY <1>1, <2>1, <3>2, <3>3, <3>4 DEF Vanishes
    <3>5. CASE op[c].at # t
      BY <1>1, <2>1, <3>3, <3>5 DEF Untouched
    <3> QED
      BY <3>4, <3>5
  <2> QED
    BY <1>8, <2>2, <2>3 DEF WriteTombstone
<1> QED
  BY <1>3, <1>4, <1>5, <1>6, <1>7, <1>8 DEF Progress

(* From one state to a later one a thread keeps what it has until it is gone, *)
(* and gone it stays; the turn u is not added.                               *)
Ages(gone, rec, gone2, rec2) ==
    /\ gone => gone2
    /\ rec # None => gone2 \/ rec2 # None
    /\ \A u : Bears(rec, u) => gone2 \/ Bears(rec2, u)
Adds(u, rec, rec2) == Bears(rec2, u) /\ ~Bears(rec, u)

(* Exactly the turn of the commit is added.                                  *)
LEMMA AdmitsBears ==
    ASSUME NEW c, NEW t, Admits(c, t), NEW u
    PROVE  Bears(records'[t], u) <=> Bears(records[t], u) \/ u = op[c].turn
<1>1. PICK turn : turn = InputOf(op[c]).turn
  OBVIOUS
<1>2. turn.id = op[c].turn
  BY <1>1 DEF InputOf
<1>3. /\ ToSet(records'[t].turns) = ToSet(CurrentTurns(records[t])) \cup {turn}
      /\ records'[t] # None
  BY <1>1 DEF Admits
<1>4. records[t] = None => ToSet(CurrentTurns(records[t])) = {}
  BY DEF CurrentTurns, ToSet
<1>5. records[t] # None => ToSet(CurrentTurns(records[t])) = ToSet(records[t].turns)
  BY DEF CurrentTurns
<1> QED
  BY <1>2, <1>3, <1>4, <1>5 DEF Bears

(* Every step of the store but that of an import lets the thread age, and    *)
(* adds no turn of a run but the one its operation commits: a legacy record  *)
(* holds none of theirs.                                                     *)
LEMMA StoreAges ==
    ASSUME IInv, PurgesAreDue, NEW c \in Clients, op[c].kind # "import",
           Start(c) \/ Progress(c) \/ Interrupt(c), Shown \in Threads
    PROVE  /\ Ages(Gone, records[Shown], Gone', records'[Shown])
           /\ \A u \in RunTurns : Adds(u, records[Shown], records'[Shown])
                                  => Admits(c, Shown) /\ op[c].turn = u
<1>1. /\ Untouched(Shown) \/ Vanishes(Shown) \/ Migrates(Shown) \/ Admits(c, Shown)
      /\ lapsed \subseteq lapsed'
  BY ThreadMoves
<1>2. records[Shown] \in Record \cup {None}
  BY DEF IInv, Typed
<1>3. CASE Untouched(Shown)
  BY <1>1, <1>3 DEF Untouched, Ages, Adds, Gone
<1>4. CASE Vanishes(Shown)
  BY <1>1, <1>4 DEF Vanishes, Ages, Adds, Gone, Bears
<1>5. CASE Migrates(Shown)
  <2>1. \A u : ~Bears(records[Shown], u)
    BY <1>5 DEF Migrates, Bears
  <2>2. ASSUME NEW u \in RunTurns PROVE ~Bears(records'[Shown], u)
    <3>1. u \notin Migrated(Shown)
      BY <2>2, ControllerAssumption DEF RunTurns
    <3> QED
      BY <1>5, <3>1 DEF Migrates, Migrated, Ids, Bears
  <2> QED
    BY <1>1, <1>5, <2>1, <2>2 DEF Migrates, Ages, Adds, Gone
<1>6. CASE Admits(c, Shown)
  <2>1. \A u : Bears(records'[Shown], u) <=> Bears(records[Shown], u) \/ u = op[c].turn
    BY <1>6, AdmitsBears
  <2> QED
    BY <1>1, <1>6, <2>1 DEF Admits, Ages, Adds, Gone
<1> QED
  BY <1>1, <1>3, <1>4, <1>5, <1>6

(* What a run knows of the thread stays true as the thread ages.             *)
LEMMA AgesKnows ==
    ASSUME NEW c \in Runs, NEW r, NEW o, NEW gone, NEW rec, NEW gone2, NEW rec2,
           Ages(gone, rec, gone2, rec2), ~Adds(TurnOf(c, r.ending), rec, rec2),
           Knows(c, r, o, gone, rec)
    PROVE  Knows(c, r, o, gone2, rec2)
<1> DEFINE u == TurnOf(c, r.ending)
<1>1. /\ gone => gone2
      /\ rec # None => gone2 \/ rec2 # None
      /\ \A w : Bears(rec, w) => gone2 \/ Bears(rec2, w)
      /\ \A S : gone \/ Spans(rec, S) => gone2 \/ Spans(rec2, S)
      /\ ~Bears(rec, u) => ~Bears(rec2, u)
  BY DEF Ages, Adds, Spans
<1>2. /\ Errand(c, r, o) /\ Sight(u, r, o, gone, rec)
      /\ Reply(u, r, o, gone, rec) /\ Standing(u, r, o, gone, rec)
  BY DEF Knows
<1> HIDE DEF u
<1>3. Sight(u, r, o, gone2, rec2)
  BY <1>1, <1>2 DEF Sight
<1>4. Refused(u, r, gone, rec) => Refused(u, r, gone2, rec2)
  BY <1>1 DEF Refused
<1>5. Reply(u, r, o, gone2, rec2)
  BY <1>1, <1>2, <1>4 DEF Reply
<1>6. Standing(u, r, o, gone2, rec2)
  BY <1>1, <1>2, <1>4 DEF Standing
<1> QED
  BY <1>2, <1>3, <1>5, <1>6 DEF Knows, u

-----------------------------------------------------------------------------
(* What the policy's verdict tells the run.                                  *)

(* The policy looks for the turn by its id.                                  *)
LEMMA SameTurnBears ==
    ASSUME NEW record, record # None, NEW turn
    PROVE  SameTurn(record, turn) # {} <=> Bears(record, turn.id)
BY DEF SameTurn, Bears, ToSet

(* A turn of a run belongs to a thread that has the turns it names.          *)
LEMMA RunTurnBelongs ==
    ASSUME NEW c \in Runs, NEW record \in Record, NEW turn \in Turn,
           turn.id \in TurnsOf(c), TurnCreatedAt[turn.id] <= turn.finishedAt,
           Spans(record, TurnSupport[turn.id])
    PROVE  Belongs(turn, InsertTurn(CurrentTurns(record), turn))
<1>1. turn.id \in Grounded /\ RetryOf[turn.id] = None
  BY ControllerAssumption DEF TurnsOf
<1>2. record.turns \in Seq(Turn) /\ record # None
  BY NoneAssumption DEF Record
<1>3. PICK turns : turns = InsertTurn(record.turns, turn)
  OBVIOUS
<1>4. ToSet(turns) = ToSet(record.turns) \cup {turn}
  BY <1>2, <1>3, InsertTurnKeeps
<1>5. TurnSupport[turn.id] \subseteq Ids(turns)
  BY <1>4 DEF Spans, Bears, Ids
<1> QED
  BY <1>1, <1>2, <1>3, <1>5 DEF Belongs, CurrentTurns

(* A load answers with turns of the record it has read.                      *)
LEMMA SeenSpans ==
    ASSUME NEW record
    PROVE  Spans(record, Ids(CurrentTurns(record)))
<1>1. CASE record = None
  BY <1>1 DEF CurrentTurns, Ids, ToSet, Spans
<1>2. CASE record # None
  BY <1>2 DEF CurrentTurns, Ids, Bears, Spans
<1> QED
  BY <1>1, <1>2

(* The turn is there, or the commit may be tried again, or it is not there   *)
(* and was refused for good: a complete one of a run that does not ask for   *)
(* the thread's creation only where the thread is missing or lacks a turn it *)
(* names, for it supplies the records of its sources                         *)
(* (commit-terminal-turn.ts:77-137).                                         *)
LEMMA VerdictTells ==
    ASSUME NEW c \in Runs, NEW ending, NEW o \in Op, Fits(o, candidate),
           Good(o, candidate), Clean(o), o.kind = "commit",
           candidate \in [TurnIds -> Candidate \cup {None}],
           o.turn = TurnOf(c, ending), o.supplied = RecordsFor(c, ending),
           Lived(o.turn, candidate),
           NEW v, v = Verdict(o.record, o.tomb # None, InputOf(o))
    PROVE  /\ v = "already_committed" => Bears(o.record, o.turn)
           /\ v \notin {"committed", "already_committed", "revision_conflict"}
              => /\ ~Bears(o.record, o.turn)
                 /\ ~o.create /\ ending = "terminal" /\ Spans(o.record, TurnSupport[o.turn])
                    => o.tomb # None \/ o.record = None
<1>1. PICK input : input = InputOf(o)
  OBVIOUS
<1>2. /\ input.turn.id = o.turn /\ input.supplied = o.supplied
      /\ input.create = o.create /\ input.expected = o.expected
  BY <1>1 DEF InputOf
<1>3. PICK deleted \in BOOLEAN : deleted = (o.tomb # None)
  OBVIOUS
<1>4. PICK refusal : refusal = Refusal(o.record, deleted, input)
  OBVIOUS
<1>5. /\ v # "integrity_failure"
      /\ v = "schema_rejected"
         => ~Belongs(input.turn, InsertTurn(CurrentTurns(o.record), input.turn))
  <2>1. input = InputWith(o, candidate)
    BY <1>1 DEF InputOf, InputWith
  <2> QED
    BY <1>1, <2>1, VerdictSound DEF Good
<1>6. v \in {refusal, "invalid_record", "schema_rejected", "committed"}
  BY <1>1, <1>3, <1>4 DEF Verdict
<1>7. refusal # "none" => v = refusal
  BY <1>1, <1>3, <1>4 DEF Verdict
<1>8. o.record # None => (SameTurn(o.record, input.turn) # {} <=> Bears(o.record, o.turn))
  BY <1>2, SameTurnBears
<1>9. v = "already_committed" => Bears(o.record, o.turn)
  <2>1. refusal = "already_committed"
          => o.record # None /\ SameTurn(o.record, input.turn) # {}
    BY <1>4 DEF Refusal
  <2> QED
    BY <1>6, <1>8, <2>1
<1>10. ASSUME v \notin {"committed", "already_committed", "revision_conflict"},
              o.record # None
       PROVE  /\ ~Bears(o.record, o.turn)
              /\ ~(/\ ~o.create /\ ending = "terminal"
                   /\ Spans(o.record, TurnSupport[o.turn]))
  <2>1. ~deleted
    BY <1>3, <1>10 DEF Clean
  <2>2. SameTurn(o.record, input.turn) = {}
    <3>1. SameTurn(o.record, input.turn) # {}
            => refusal \in {"already_committed", "integrity_failure"}
      BY <1>4, <1>10, <2>1 DEF Refusal
    <3> QED
      BY <1>5, <1>7, <1>10, <3>1
  <2>3. ASSUME ~o.create, ending = "terminal", Spans(o.record, TurnSupport[o.turn])
        PROVE  FALSE
    <3>1. refusal \in {"revision_conflict", "none"}
      BY <1>2, <1>4, <1>10, <2>1, <2>2, <2>3 DEF Refusal
    <3>2. refusal = "none"
      BY <1>7, <1>10, <3>1
    <3>3. o.turn = FullTurn[c] /\ o.supplied = TurnSources[FullTurn[c]]
      BY <2>3 DEF TurnOf, RecordsFor
    <3>4. Cardinality(ToSet(o.supplied)) = Len(o.supplied)
      BY <3>3, ControllerAssumption
    <3>5. SourcesClosed(o.record, input)
      BY <1>2, <3>3, <3>4 DEF SourcesClosed
    <3>6. v \in {"schema_rejected", "committed"}
      BY <1>1, <1>3, <1>4, <3>2, <3>5 DEF Verdict
    <3>7. /\ input.turn \in Turn /\ input.turn.id = o.turn
          /\ input.turn.finishedAt = candidate[o.turn].finishedAt
      BY <1>1, InputTyped DEF InputOf, InputWith
    <3>8. o.record \in Record /\ o.turn \in TurnsOf(c)
      BY <1>10, OwnTurn DEF Op
    <3>9. TurnCreatedAt[input.turn.id] <= input.turn.finishedAt
      BY <3>7 DEF Lived
    <3>10. Belongs(input.turn, InsertTurn(CurrentTurns(o.record), input.turn))
      BY <2>3, <3>7, <3>8, <3>9, RunTurnBelongs
    <3> QED
      BY <1>5, <1>10, <3>6, <3>10
  <2> QED
    BY <1>8, <1>10, <2>2, <2>3
<1> QED
  BY <1>9, <1>10 DEF Bears

-----------------------------------------------------------------------------
(* An operation of the run goes on.                                          *)

(* What an operation that has settled the thread's state has found out.      *)
Tells(u, r, o, gone, rec) ==
    /\ o.record # None => gone \/ rec # None
    /\ \A w : Bears(o.record, w) => gone \/ Bears(rec, w)
    /\ o.record # None /\ r.expected # 0 => gone \/ Spans(o.record, r.context)
    /\ o.tomb # None => gone
    /\ ~Bears(o.record, u) => ~Bears(rec, u)
    /\ o.record = None /\ r.expected # 0 => gone

(* What the operation decides on the state it has settled is what the run    *)
(* has to know.                                                              *)
LEMMA DecisionKnows ==
    ASSUME NEW c \in Runs, NEW r, NEW o \in Op, Fits(o, candidate),
           Good(o, candidate), Clean(o), Errand(c, r, o), o.pc # "idle",
           candidate \in [TurnIds -> Candidate \cup {None}],
           Drafted(c, r, candidate, now),
           r.phase = "committing" => TurnSupport[TurnOf(c, r.ending)] \subseteq r.context,
           NEW gone, NEW rec, Tells(TurnOf(c, r.ending), r, o, gone, rec)
    PROVE  /\ Errand(c, r, Decision(o))
           /\ Sight(TurnOf(c, r.ending), r, Decision(o), gone, rec)
           /\ Reply(TurnOf(c, r.ending), r, Decision(o), gone, rec)
<1>1. PICK u : u = TurnOf(c, r.ending)
  OBVIOUS
<1>2. CASE o.kind = "load"
  <2>1. PICK d : d = LoadDecision(o)
    OBVIOUS
  <2>2. /\ d.pc = "idle" /\ d.result = "ok" /\ d.expected = SeenRevision(o)
        /\ d.seen = Ids(CurrentTurns(o.record)) /\ d.record = None /\ d.tomb = None
    BY <2>1 DEF LoadDecision, Returned
  <2>3. d.expected # 0 => o.record # None
    BY <2>2 DEF SeenRevision
  <2>4. r.phase \in {"loading", "reloading"}
    BY <1>2 DEF Errand
  <2>5. gone \/ Spans(rec, d.seen)
    BY <2>2, SeenSpans DEF Tells, Spans
  <2>6. Errand(c, r, d) /\ Sight(u, r, d, gone, rec) /\ Reply(u, r, d, gone, rec)
    BY <1>1, <2>2, <2>3, <2>4, <2>5 DEF Errand, Sight, Reply, Tells
  <2> QED
    BY <1>1, <1>2, <2>1, <2>6 DEF Decision
<1>3. CASE o.kind = "commit"
  <2>1. /\ r.phase = "committing" /\ o.at = Shown
        /\ o.turn = u /\ o.supplied = RecordsFor(c, r.ending)
        /\ r.expected # 0 => ~o.create
        /\ Lived(u, candidate) /\ TurnSupport[u] \subseteq r.context
    BY <1>1, <1>3 DEF Errand, Drafted
  <2>2. PICK v : v = Verdict(o.record, o.tomb # None, InputOf(o))
    OBVIOUS
  <2>3. /\ v = "already_committed" => Bears(o.record, u)
        /\ v \notin {"committed", "already_committed", "revision_conflict"}
           => /\ ~Bears(o.record, u)
              /\ ~o.create /\ r.ending = "terminal" /\ Spans(o.record, TurnSupport[u])
                 => o.tomb # None \/ o.record = None
    <3>1. o.turn = TurnOf(c, r.ending)
      BY <1>1, <2>1
    <3> QED
      BY <1>3, <2>1, <2>2, <3>1, VerdictTells
  <2>4. PICK d : d = CommitDecision(o)
    OBVIOUS
  <2>5. ASSUME NEW code, d = Returned(code),
               code \in {"already_committed", "revision_conflict"} \/ code = v,
               code = "already_committed" => v = "already_committed",
               code # "committed"
        PROVE  Errand(c, r, d) /\ Sight(u, r, d, gone, rec) /\ Reply(u, r, d, gone, rec)
    <3>1. d.pc = "idle" /\ d.result = code
      BY <2>5 DEF Returned
    <3>2. Success(code) => gone \/ Bears(rec, u)
      BY <1>1, <2>3, <2>5 DEF Success, Tells
    <3>3. ~Success(code) /\ ~Retryable(code) => Refused(u, r, gone, rec)
      <4>1. o.record # None /\ r.expected # 0
              => gone \/ Spans(o.record, TurnSupport[u])
        BY <2>1 DEF Tells, Spans
      <4> QED
        BY <1>1, <2>1, <2>3, <2>5, <4>1 DEF Success, Retryable, Refused, Tells
    <3> QED
      BY <2>1, <3>1, <3>2, <3>3 DEF Errand, Sight, Reply
  <2>6. CASE o.again
    <3>1. d = Returned(IF v = "already_committed" THEN v ELSE "revision_conflict")
      BY <2>2, <2>4, <2>6 DEF CommitDecision
    <3>2. Errand(c, r, d) /\ Sight(u, r, d, gone, rec) /\ Reply(u, r, d, gone, rec)
      BY <2>5, <3>1
    <3> QED
      BY <1>1, <1>3, <2>4, <3>2 DEF Decision
  <2>7. CASE ~o.again /\ v # "committed"
    <3>1. d = Returned(v)
      BY <2>2, <2>4, <2>7 DEF CommitDecision
    <3>2. Errand(c, r, d) /\ Sight(u, r, d, gone, rec) /\ Reply(u, r, d, gone, rec)
      BY <2>5, <2>7, <3>1
    <3> QED
      BY <1>1, <1>3, <2>4, <3>2 DEF Decision
  <2>8. CASE ~o.again /\ v = "committed"
    <3>1. d = [o EXCEPT !.pc = "write"]
      BY <2>2, <2>4, <2>8 DEF CommitDecision
    <3>2. /\ d.pc = "write" /\ d.kind = o.kind /\ d.at = o.at /\ d.turn = o.turn
          /\ d.supplied = o.supplied /\ d.create = o.create
          /\ d.record = o.record /\ d.tomb = o.tomb
      BY <3>1 DEF Op
    <3>3. Errand(c, r, d) /\ Sight(u, r, d, gone, rec) /\ Reply(u, r, d, gone, rec)
      BY <1>1, <1>3, <2>1, <3>2 DEF Errand, Sight, Reply, Tells
    <3> QED
      BY <1>1, <1>3, <2>4, <3>3 DEF Decision
  <2> QED
    BY <2>6, <2>7, <2>8
<1> QED
  BY <1>2, <1>3 DEF Errand

(* The operation moves to another place without having read more.            *)
LEMMA PlaceKnows ==
    ASSUME NEW c \in Runs, NEW r, NEW o \in Op, NEW gone, NEW rec,
           Knows(c, r, o, gone, rec), o.pc \in {"legacy", "migrate"},
           NEW q \in {"migrate", "settle", "reread"}, NEW p, p = [o EXCEPT !.pc = q]
    PROVE  Knows(c, r, p, gone, rec)
<1>1. /\ p.pc = q /\ p.kind = o.kind /\ p.at = o.at /\ p.turn = o.turn
      /\ p.supplied = o.supplied /\ p.create = o.create
      /\ p.record = o.record /\ p.tomb = o.tomb
  BY DEF Op
<1>2. PICK u : u = TurnOf(c, r.ending)
  OBVIOUS
<1>3. /\ Errand(c, r, o) /\ Sight(u, r, o, gone, rec) /\ Standing(u, r, o, gone, rec)
  BY <1>2 DEF Knows
<1>4. Errand(c, r, p)
  BY <1>1, <1>3 DEF Errand
<1>5. Sight(u, r, p, gone, rec) /\ Reply(u, r, p, gone, rec)
  BY <1>1, <1>3 DEF Sight, Reply
<1>6. Standing(u, r, p, gone, rec)
  BY <1>1, <1>3 DEF Standing, Errand
<1> QED
  BY <1>2, <1>4, <1>5, <1>6 DEF Knows

(* The run knows what it has to after every step of its own operation. A     *)
(* write that is accepted puts the turn in the thread; one that is refused   *)
(* reads and evaluates once more.                                            *)
LEMMA OwnStepKnows ==
    ASSUME TInv, KInv, NEW c \in Runs, Progress(c) \/ Interrupt(c)
    PROVE  Knows(c, run[c], op'[c], Gone', records'[Shown])
<1> DEFINE o == op[c]
<1>1. PICK r : r = run[c]
  OBVIOUS
<1>2. PICK u : u = TurnOf(c, r.ending)
  OBVIOUS
<1>3. /\ c \in Clients /\ Shown \in Threads /\ u \in RunTurns
      /\ op \in [Clients -> Op] /\ o \in Op /\ Fits(o, candidate)
      /\ Good(o, candidate) /\ Clean(o)
      /\ candidate \in [TurnIds -> Candidate \cup {None}]
      /\ records \in [Threads -> Record \cup {None}]
  BY <1>2, OwnTurn, ControllerAssumption DEF TInv, IInv, Typed, WInv, SInv
<1>4. /\ Knows(c, r, o, Gone, records[Shown]) /\ o.kind # "import"
      /\ Drafted(c, r, candidate, now)
      /\ r.phase = "committing" => TurnSupport[TurnOf(c, r.ending)] \subseteq r.context
  BY <1>1, <1>3 DEF TInv, KInv, Foreign, Knows, Standing
<1>5. o.pc # "idle"
  BY DEF Progress, Interrupt, Read, ReadLegacy, Migrate, ListLegacyKeys, Sweep,
     Settle, PickThread, Purge, Write, WriteTombstone
<1>6. /\ o.at = Shown
      /\ o.pc \in {"read", "reread", "legacy", "migrate", "settle", "purge", "write"}
      /\ \/ o.kind = "load" /\ o.pc # "write"
         \/ o.kind = "commit" /\ o.turn = u
  BY <1>2, <1>4, <1>5 DEF Knows, Errand
<1>7. Ages(Gone, records[Shown], Gone', records'[Shown])
  BY <1>3, <1>4, StoreAges DEF TInv
<1>8. ASSUME o.pc # "write" PROVE Knows(c, r, o, Gone', records'[Shown])
  <2>1. ~Adds(u, records[Shown], records'[Shown])
    BY <1>3, <1>4, <1>8, StoreAges DEF TInv, Admits
  <2> QED
    BY <1>2, <1>4, <1>7, <2>1, AgesKnows
<1>9. ASSUME NEW p, op' = [op EXCEPT ![c] = p], Errand(c, r, p),
             Sight(u, r, p, Gone', records'[Shown]),
             Reply(u, r, p, Gone', records'[Shown])
      PROVE  Knows(c, r, op'[c], Gone', records'[Shown])
  <2>1. op'[c] = p
    BY <1>3, <1>9
  <2>2. Standing(u, r, p, Gone', records'[Shown])
    <3>1. /\ Standing(u, r, o, Gone, records[Shown])
          /\ r.phase \in {"loading", "reloading", "committing"}
      BY <1>2, <1>4, <1>5 DEF Knows, Errand
    <3> QED
      BY <1>7, <3>1 DEF Standing, Ages, Spans
  <2> QED
    BY <1>2, <1>9, <2>1, <2>2 DEF Knows
<1>10. CASE Interrupt(c)
  <2>1. PICK p : p = Returned("storage_unavailable")
    OBVIOUS
  <2>2. p.pc = "idle" /\ p.result = "storage_unavailable" /\ p.expected = 0
    BY <2>1 DEF Returned
  <2>3. /\ Errand(c, r, p) /\ Sight(u, r, p, Gone', records'[Shown])
        /\ Reply(u, r, p, Gone', records'[Shown])
    BY <2>2 DEF Errand, Sight, Reply, Success, Retryable
  <2> QED
    BY <1>1, <1>9, <1>10, <2>1, <2>3 DEF Interrupt
<1>11. CASE Read(c)
  <2>1. PICK q \in {"legacy", "settle"} :
          op' = [op EXCEPT ![c] = [o EXCEPT !.record = records[Shown],
                                            !.tomb = tombs[Shown], !.pc = q]]
    BY <1>6, <1>11 DEF Read, Step
  <2>2. PICK p : p = [o EXCEPT !.record = records[Shown], !.tomb = tombs[Shown], !.pc = q]
    OBVIOUS
  <2>3. /\ p.pc = q /\ p.kind = o.kind /\ p.at = o.at /\ p.turn = o.turn
        /\ p.supplied = o.supplied /\ p.create = o.create
        /\ p.record = records[Shown] /\ p.tomb = tombs[Shown]
    BY <2>2 DEF Op
  <2>4. UNCHANGED <<records, tombs, lapsed>>
    BY <1>11 DEF Read, storeVars, Elsewhere
  <2>5. Gone' <=> Gone
    BY <2>4 DEF Gone
  <2>6. Errand(c, r, p)
    BY <1>4, <1>5, <1>6, <2>3 DEF Knows, Errand
  <2>7. Sight(u, r, p, Gone', records'[Shown])
    <3>1. r.expected # 0 => /\ Gone \/ records[Shown] # None
                            /\ Gone \/ Spans(records[Shown], r.context)
      BY <1>2, <1>4 DEF Knows, Standing
    <3>2. tombs[Shown] # None => Gone
      BY DEF Gone
    <3> QED
      BY <2>3, <2>4, <2>5, <3>1, <3>2 DEF Sight
  <2>8. Reply(u, r, p, Gone', records'[Shown])
    BY <2>3 DEF Reply
  <2> QED
    BY <1>1, <1>9, <2>1, <2>2, <2>6, <2>7, <2>8
<1>12. CASE ReadLegacy(c) \/ Migrate(c)
  <2>1. PICK q \in {"migrate", "settle", "reread"} :
          op' = [op EXCEPT ![c] = [o EXCEPT !.pc = q]]
    BY <1>12 DEF ReadLegacy, Migrate, Step
  <2>2. o.pc \in {"legacy", "migrate"}
    BY <1>12 DEF ReadLegacy, Migrate
  <2>3. PICK p : p = [o EXCEPT !.pc = q]
    OBVIOUS
  <2>4. Knows(c, r, p, Gone', records'[Shown])
    BY <1>3, <1>8, <2>2, <2>3, PlaceKnows
  <2> QED
    BY <1>1, <1>3, <2>1, <2>3, <2>4
<1>13. CASE Settle(c)
  <2>1. CASE /\ SeenExpired(o)
             /\ op' = [op EXCEPT ![c] = [o EXCEPT !.pc = "purge",
                                            !.record = None, !.tomb = None]]
             /\ lapsed' = lapsed \cup {o.at}
    <3>1. PICK p : p = [o EXCEPT !.pc = "purge", !.record = None, !.tomb = None]
      OBVIOUS
    <3>2. /\ p.pc = "purge" /\ p.kind = o.kind /\ p.at = o.at /\ p.turn = o.turn
          /\ p.supplied = o.supplied /\ p.create = o.create
          /\ p.record = None /\ p.tomb = None
      BY <3>1 DEF Op
    <3>3. Errand(c, r, p)
      BY <1>4, <1>5, <1>13, <3>2 DEF Knows, Errand, Settle
    <3>4. Sight(u, r, p, Gone', records'[Shown]) /\ Reply(u, r, p, Gone', records'[Shown])
      BY <3>2 DEF Sight, Reply, Bears
    <3> QED
      BY <1>1, <1>9, <2>1, <3>1, <3>3, <3>4
  <2>2. CASE op' = [op EXCEPT ![c] = Decision(o)]
    <3>1. Knows(c, r, o, Gone', records'[Shown])
      BY <1>8, <1>13 DEF Settle
    <3>2. Tells(u, r, o, Gone', records'[Shown])
      BY <1>2, <1>13, <3>1 DEF Knows, Sight, Tells, Settle
    <3>3. /\ Errand(c, r, Decision(o)) /\ Sight(u, r, Decision(o), Gone', records'[Shown])
          /\ Reply(u, r, Decision(o), Gone', records'[Shown])
      BY <1>2, <1>3, <1>4, <1>5, <3>1, <3>2, DecisionKnows DEF Knows
    <3> QED
      BY <1>1, <1>9, <2>2, <3>3
  <2>3. ~(o.record # None /\ o.tomb # None)
    BY <1>3 DEF Clean
  <2> QED
    BY <1>13, <2>1, <2>2, <2>3 DEF Settle
<1>14. CASE Purge(c)
  <2>1. Knows(c, r, o, Gone', records'[Shown])
    BY <1>8, <1>14 DEF Purge
  <2>2. /\ records'[Shown] = None /\ o.record = None /\ Gone'
    <3>1. Shown \in lapsed /\ UNCHANGED lapsed
      BY <1>3, <1>6, <1>14 DEF TInv, PurgesAreDue, Purge, Elsewhere
    <3>2. records' = [records EXCEPT ![Shown] = None] /\ o.pc = "purge"
      BY <1>6, <1>14 DEF Purge
    <3> QED
      BY <1>3, <3>1, <3>2 DEF Gone, Fits
  <2>3. Tells(u, r, o, Gone', records'[Shown])
    BY <2>2 DEF Tells, Bears
  <2>4. /\ Errand(c, r, Decision(o)) /\ Sight(u, r, Decision(o), Gone', records'[Shown])
        /\ Reply(u, r, Decision(o), Gone', records'[Shown])
    BY <1>2, <1>3, <1>4, <1>5, <2>1, <2>3, DecisionKnows DEF Knows
  <2> QED
    BY <1>1, <1>9, <1>14, <2>4 DEF Purge, Step
<1>15. CASE Write(c)
  <2>1. o.pc = "write" /\ o.kind = "commit" /\ o.turn = u /\ r.phase = "committing"
    BY <1>2, <1>4, <1>5, <1>6, <1>15 DEF Write, Knows, Errand
  <2>2. CASE Accepts(o) /\ Step(c, AfterWrite(o))
    <3>1. Admits(c, Shown)
      BY <1>3, <1>6, <1>15, <2>1, <2>2, AcceptedAdmits DEF TInv
    <3>2. Bears(records'[Shown], u)
      BY <2>1, <3>1, AdmitsBears
    <3>3. PICK p : p = Returned("committed")
      OBVIOUS
    <3>4. p.pc = "idle" /\ p.result = "committed"
      BY <3>3 DEF Returned
    <3>5. op' = [op EXCEPT ![c] = p]
      BY <2>1, <2>2, <3>3 DEF Step, AfterWrite
    <3>6. /\ Errand(c, r, p) /\ Sight(u, r, p, Gone', records'[Shown])
          /\ Reply(u, r, p, Gone', records'[Shown])
      BY <2>1, <3>2, <3>4 DEF Errand, Sight, Reply, Success
    <3> QED
      BY <1>1, <1>9, <3>5, <3>6
  <2>3. CASE Step(c, AfterRefusal(o))
    <3>1. PICK p : p = Reading([o EXCEPT !.again = TRUE])
      OBVIOUS
    <3>2. /\ p.pc = "read" /\ p.kind = o.kind /\ p.at = o.at /\ p.turn = o.turn
          /\ p.supplied = o.supplied /\ p.create = o.create
          /\ p.record = None /\ p.tomb = None
      BY <3>1 DEF Op, Reading
    <3>3. op' = [op EXCEPT ![c] = p]
      BY <2>1, <2>3, <3>1 DEF Step, AfterRefusal
    <3>4. Errand(c, r, p)
      BY <1>4, <1>5, <2>1, <3>2 DEF Knows, Errand
    <3>5. Sight(u, r, p, Gone', records'[Shown]) /\ Reply(u, r, p, Gone', records'[Shown])
      BY <3>2 DEF Sight, Reply, Bears
    <3> QED
      BY <1>1, <1>9, <3>3, <3>4, <3>5
  <2> QED
    BY <1>15, <2>2, <2>3 DEF Write
<1>16. ~(ListLegacyKeys(c) \/ Sweep(c) \/ PickThread(c) \/ WriteTombstone(c))
  BY <1>6 DEF ListLegacyKeys, Sweep, PickThread, WriteTombstone
<1> QED
  BY <1>10, <1>11, <1>12, <1>13, <1>14, <1>15, <1>16, <1>1 DEF Progress

-----------------------------------------------------------------------------
(* Steps of the store.                                                       *)

(* An operation keeps its turn and its kind until it is over.                *)
Passes(o, p) == p.turn \in {o.turn, None} /\ p.kind \in {o.kind, "none"}

(* A decision keeps the turn and the kind, or ends the operation.            *)
LEMMA DecisionPasses ==
    ASSUME NEW o \in Op
    PROVE  Passes(o, Decision(o))
<1>1. Passes(o, NextThread(o)) /\ Passes(o, LoadDecision(o))
  BY DEF NextThread, LoadDecision, Returned, Op, Passes
<1>2. \A code : Passes(o, Returned(code))
  BY DEF Returned, Passes
<1>3. Passes(o, [o EXCEPT !.pc = "write"])
  BY DEF Op, Passes
<1>4. Passes(o, CommitDecision(o))
  BY <1>2, <1>3 DEF CommitDecision
<1>5. Passes(o, RemoveDecision(o))
  <2>1. Passes(o, [o EXCEPT !.pc = "bury", !.time = now])
    BY DEF Op, Passes
  <2> QED
    BY <1>2, <2>1 DEF RemoveDecision
<1>6. Passes(o, ImportDecision(o))
  <2>1. Passes(o, [o EXCEPT !.pc = "write", !.time = now])
    BY DEF Op, Passes
  <2> QED
    BY <1>1, <2>1 DEF ImportDecision
<1>7. \/ Decision(o) = NextThread(o) \/ Decision(o) = LoadDecision(o)
      \/ Decision(o) = CommitDecision(o) \/ Decision(o) = RemoveDecision(o)
      \/ Decision(o) = ImportDecision(o)
  BY DEF Decision
<1> QED
  BY <1>1, <1>4, <1>5, <1>6, <1>7

(* So does every step.                                                       *)
LEMMA StepPasses ==
    ASSUME IInv, NEW c \in Clients, Progress(c) \/ Interrupt(c)
    PROVE  \E p : op' = [op EXCEPT ![c] = p] /\ Passes(op[c], p)
<1> DEFINE o == op[c]
<1>1. o \in Op
  BY DEF IInv
<1>2. \A code : Passes(o, Returned(code))
  BY DEF Returned, Passes
<1>3. CASE Settle(c)
  <2>1. PICK p : p = [o EXCEPT !.pc = "purge", !.record = None, !.tomb = None]
    OBVIOUS
  <2>2. Passes(o, p)
    BY <1>1, <2>1 DEF Op, Passes
  <2>3. \/ op' = [op EXCEPT ![c] = p] \/ op' = [op EXCEPT ![c] = Decision(o)]
        \/ op' = [op EXCEPT ![c] = Returned("integrity_failure")]
    BY <1>3, <2>1 DEF Settle
  <2> HIDE DEF o
  <2> QED
    BY <1>1, <1>2, <2>2, <2>3, DecisionPasses DEF o
<1>4. CASE PickThread(c)
  <2>1. ASSUME NEW t PROVE Passes(o, Reading([o EXCEPT !.at = t, !.todo = o.todo \ {t}]))
    BY <1>1 DEF Op, Passes, Reading
  <2>2. \/ op' = [op EXCEPT ![c] = Returned("ok")]
        \/ \E t : op' = [op EXCEPT ![c] = Reading([o EXCEPT !.at = t,
                                                     !.todo = o.todo \ {t}])]
    BY <1>4 DEF PickThread
  <2> QED
    BY <1>2, <2>1, <2>2
<1>5. CASE Interrupt(c)
  BY <1>2, <1>5 DEF Interrupt
<1>6. CASE Read(c)
  <2>1. PICK q : op' = [op EXCEPT ![c] = [o EXCEPT !.record = records[o.at],
                                                   !.tomb = tombs[o.at], !.pc = q]]
    BY <1>6 DEF Read, Step
  <2>2. Passes(o, [o EXCEPT !.record = records[o.at], !.tomb = tombs[o.at], !.pc = q])
    BY <1>1 DEF Op, Passes
  <2> QED
    BY <2>1, <2>2
<1>7. CASE ReadLegacy(c) \/ Migrate(c)
  <2>1. PICK q : op' = [op EXCEPT ![c] = [o EXCEPT !.pc = q]]
    BY <1>7 DEF ReadLegacy, Migrate, Step
  <2>2. Passes(o, [o EXCEPT !.pc = q])
    BY <1>1 DEF Op, Passes
  <2> QED
    BY <2>1, <2>2
<1>8. CASE ListLegacyKeys(c) \/ Sweep(c)
  <2>1. ASSUME NEW q, NEW S
        PROVE  Passes(o, [o EXCEPT !.pc = q, !.todo = S]) /\ Passes(o, [o EXCEPT !.todo = S])
    BY <1>1 DEF Op, Passes
  <2>2. \/ \E q, S : op' = [op EXCEPT ![c] = [o EXCEPT !.pc = q, !.todo = S]]
        \/ \E S : op' = [op EXCEPT ![c] = [o EXCEPT !.todo = S]]
    BY <1>8 DEF ListLegacyKeys, Sweep, Step
  <2> QED
    BY <2>1, <2>2
<1>9. CASE Purge(c)
  BY <1>1, <1>9, DecisionPasses DEF Purge, Step
<1>10. CASE Write(c)
  <2>1. Passes(o, AfterWrite(o)) /\ Passes(o, AfterRefusal(o))
    <3>1. Passes(o, NextThread(o)) /\ Passes(o, Reading([o EXCEPT !.again = TRUE]))
      BY <1>1 DEF NextThread, Reading, Op, Passes
    <3> QED
      BY <1>2, <3>1 DEF AfterWrite, AfterRefusal
  <2>2. \/ op' = [op EXCEPT ![c] = AfterWrite(o)]
        \/ op' = [op EXCEPT ![c] = AfterRefusal(o)]
    BY <1>10 DEF Write, Step
  <2> QED
    BY <2>1, <2>2
<1>11. CASE WriteTombstone(c)
  <2>1. \/ op' = [op EXCEPT ![c] = Returned("removed")]
        \/ op' = [op EXCEPT ![c] = Returned("revision_conflict")]
    BY <1>11 DEF WriteTombstone, Step
  <2> QED
    BY <1>2, <2>1
<1> QED
  BY <1>3, <1>4, <1>5, <1>6, <1>7, <1>8, <1>9, <1>10, <1>11 DEF Progress

(* The clock does not move back.                                             *)
LEMMA ClockSteps ==
    ASSUME [Next]_vars
    PROVE  now' = now \/ now' = now + 1
<1>1. CASE Tick \/ Rest \/ UNCHANGED vars
  BY <1>1 DEF Tick, Rest, vars
<1>2. ASSUME NEW c, Start(c) PROVE now' = now
  BY <1>2 DEF Start, StartLoad, StartList, StartCommit, StartRemove, StartImport, Begin
<1>3. ASSUME NEW c, Progress(c) \/ Interrupt(c) PROVE now' = now
  BY <1>3 DEF Progress, Interrupt, Read, ReadLegacy, Migrate, ListLegacyKeys, Sweep,
     Settle, PickThread, Purge, Write, WriteTombstone, Elsewhere
<1> QED
  BY <1>1, <1>2, <1>3 DEF Next

(* The store goes on; the runs and the tabs stay as they are.                *)
LEMMA StoreKeepsTypes ==
    ASSUME TInv, [Next]_vars, UNCHANGED <<run, tabVars>>,
           \A u \in RunTurns : candidate'[u] = candidate[u]
    PROVE  TInv'
<1>1. IInv' /\ WInv' /\ PurgesAreDue'
  BY NextKeeps, NextWhole, PurgesStayDue DEF TInv
<1>2. TabsTyped' /\ run' \in [Runs -> Controller]
  BY DEF TInv, TabsTyped, tabVars
<1>3. ASSUME NEW c \in Runs PROVE Drafted(c, run'[c], candidate', now')
  <2>1. Drafted(c, run[c], candidate, now) /\ run' = run
    BY DEF TInv
  <2>2. \A u \in TurnsOf(c) : candidate'[u] = candidate[u]
    BY DEF TurnsOf, RunTurns
  <2>3. TurnOf(c, run[c].ending) \in TurnsOf(c) /\ TurnsOf(c) \subseteq TurnIds
    BY OwnTurn, ControllerAssumption DEF TurnsOf
  <2>4. \A u \in TurnsOf(c) : TurnCreatedAt[u] <= now => TurnCreatedAt[u] <= now'
    <3>1. now \in Nat /\ (now' = now \/ now' = now + 1)
      BY ClockSteps DEF TInv, IInv, Typed
    <3>2. \A u \in TurnsOf(c) : TurnCreatedAt[u] \in Nat
      BY <2>3, RankAssumption
    <3> QED
      BY <3>1, <3>2
  <2> QED
    BY <2>1, <2>2, <2>3, <2>4 DEF Drafted, Lived
<1> QED
  BY <1>1, <1>2, <1>3 DEF TInv

(* An operation goes on, of a run or of another client. What the other runs  *)
(* know stays true: the step adds no turn of theirs.                         *)
LEMMA OperationKeeps ==
    ASSUME TInv, NEW c \in Clients, Progress(c) \/ Interrupt(c), UNCHANGED <<run, tabVars>>
    PROVE  TInv' /\ (KInv => KInv')
<1>1. /\ op \in [Clients -> Op] /\ Runs \subseteq Clients /\ Shown \in Threads
  BY ControllerAssumption DEF TInv, IInv
<1>2. [Next]_vars
  BY DEF Next
<1>3. UNCHANGED candidate
  BY DEF Progress, Interrupt, Read, ReadLegacy, Migrate, ListLegacyKeys, Sweep,
     Settle, PickThread, Purge, Write, WriteTombstone, Elsewhere
<1>4. TInv'
  BY <1>2, <1>3, StoreKeepsTypes
<1>5. ASSUME KInv PROVE KInv'
  <2>1. PICK p : op' = [op EXCEPT ![c] = p] /\ Passes(op[c], p)
    BY StepPasses DEF TInv
  <2>2. \A d \in Clients : op'[d] = IF d = c THEN p ELSE op[d]
    BY <1>1, <2>1
  <2>3. op[c].kind # "import" /\ (c \notin Runs => op[c].turn \notin RunTurns)
    BY <1>5 DEF KInv, Foreign
  <2>4. None \notin RunTurns
    BY ControllerAssumption, BaseAssumption DEF RunTurns
  <2>5. Foreign'
    BY <1>5, <2>1, <2>2, <2>3, <2>4 DEF KInv, Foreign, Passes
  <2>6. ASSUME NEW d \in Runs
        PROVE  Knows(d, run'[d], op'[d], Gone', records'[Shown])
    <3>1. CASE d = c
      BY <1>5, <3>1, OwnStepKnows
    <3>2. CASE d # c
      <4>1. PICK u : u = TurnOf(d, run[d].ending)
        OBVIOUS
      <4>2. u \in TurnIds /\ u \in TurnsOf(d) /\ u \in RunTurns
        BY <4>1, OwnTurn
      <4>3. /\ Ages(Gone, records[Shown], Gone', records'[Shown])
            /\ Adds(u, records[Shown], records'[Shown])
               => Admits(c, Shown) /\ op[c].turn = u
        BY <1>1, <2>3, <4>2, StoreAges DEF TInv
      <4>4. ~Adds(u, records[Shown], records'[Shown])
        <5>1. SUFFICES ASSUME Admits(c, Shown), op[c].turn = u PROVE FALSE
          BY <4>3
        <5>2. c \in Runs
          BY <2>3, <4>2, <5>1
        <5>3. op[c].turn = TurnOf(c, run[c].ending)
          BY <1>5, <5>1, <5>2 DEF KInv, Knows, Errand, Admits
        <5>4. op[c].turn \in TurnsOf(c)
          BY <5>2, <5>3, OwnTurn
        <5> QED
          BY <3>2, <4>2, <5>1, <5>2, <5>4, OtherTurns
      <4>5. Knows(d, run[d], op[d], Gone, records[Shown])
        BY <1>5 DEF KInv
      <4>6. Knows(d, run[d], op[d], Gone', records'[Shown])
        BY <4>1, <4>3, <4>4, <4>5, AgesKnows
      <4>7. op'[d] = op[d] /\ run' = run
        BY <1>1, <2>2, <3>2
      <4> QED
        BY <4>6, <4>7
    <3> QED
      BY <3>1, <3>2
  <2> QED
    BY <2>5, <2>6 DEF KInv
<1> QED
  BY <1>4, <1>5

(* Another client begins an operation on a turn of its own.                  *)
LEMMA StartKeepsRuns ==
    ASSUME TInv, NEW c \in Clients \ Runs, Start(c), op'[c].turn \notin RunTurns,
           UNCHANGED <<run, tabVars>>
    PROVE  TInv' /\ ("import" \notin Kinds /\ KInv => KInv')
<1>1. /\ op \in [Clients -> Op] /\ Runs \subseteq Clients
      /\ candidate \in [TurnIds -> Candidate \cup {None}]
  BY ControllerAssumption DEF TInv, IInv, Typed
<1>2. PICK o : Begin(c, o) /\ Fresh(o) /\ Brings(o, candidate, candidate')
  BY <1>1, StartBegins
<1>3. /\ op'[c] = o /\ \A d \in Clients : d # c => op'[d] = op[d]
      /\ UNCHANGED <<records, tombs, lapsed>>
  BY <1>1, <1>2 DEF Begin
<1>4. \A u \in RunTurns : candidate'[u] = candidate[u]
  <2>1. RunTurns \subseteq TurnIds
    BY ControllerAssumption DEF RunTurns
  <2> QED
    BY <1>2, <1>3, <2>1 DEF Brings
<1>5. TInv'
  <2>1. [Next]_vars
    BY DEF Next
  <2> QED
    BY <1>4, <2>1, StoreKeepsTypes
<1>6. ASSUME "import" \notin Kinds, KInv PROVE KInv'
  <2>1. o.kind # "import"
    BY <1>2, <1>6 DEF Brings
  <2>2. Foreign'
    BY <1>3, <1>6, <2>1 DEF KInv, Foreign
  <2>3. Gone' <=> Gone
    BY <1>3 DEF Gone
  <2>4. ASSUME NEW d \in Runs
        PROVE  Knows(d, run'[d], op'[d], Gone', records'[Shown])
    <3>1. Gone' = Gone
      BY <2>3 DEF Gone
    <3>2. Knows(d, run[d], op[d], Gone, records[Shown])
      BY <1>6 DEF KInv
    <3> QED
      BY <1>1, <1>3, <3>1, <3>2
  <2> QED
    BY <2>2, <2>4 DEF KInv
<1> QED
  BY <1>5, <1>6

(* A step of the store that leaves records and operations alone.             *)
LEMMA ClockKeeps ==
    ASSUME TInv, [Next]_vars,
           UNCHANGED <<records, tombs, lapsed, op, candidate, run, tabVars>>
    PROVE  TInv' /\ (KInv => KInv')
<1>1. TInv'
  BY StoreKeepsTypes
<1>2. KInv => KInv'
  BY DEF KInv, Foreign, Gone
<1> QED
  BY <1>1, <1>2

(* The answer of the store is lost on its way to the run.                    *)
LEMMA AnswerLostKeeps ==
    ASSUME TInv, NEW c \in Runs, AnswerLost(c), UNCHANGED <<run, tabVars>>
    PROVE  TInv' /\ (KInv => KInv')
<1>1. /\ run[c] \in Controller /\ Drafted(c, run[c], candidate, now) /\ TabsTyped
      /\ run[c].phase \in {"loading", "committing", "reloading"} /\ UNCHANGED candidate
      /\ candidate \in [TurnIds -> Candidate \cup {None}]
  BY DEF TInv, IInv, Typed, AnswerLost
<1>2. PICK o : o = Returned("storage_unavailable")
  OBVIOUS
<1>3. /\ Fits(o, candidate') /\ Unread(o) /\ o.pc = "idle" /\ o.expected = 0
      /\ o.result = "storage_unavailable"
  BY <1>2, LostAnswerFits
<1>4. Sets(c, run[c], o) /\ Builds(c)
  <2>1. run' = [run EXCEPT ![c] = run[c]]
    BY DEF TInv
  <2>2. op' = [op EXCEPT ![c] = o]
    BY <1>2 DEF AnswerLost
  <2>3. UNCHANGED <<storeVars, now, nextRev, started, lapsed>>
    BY DEF AnswerLost
  <2> QED
    BY <1>1, <2>1, <2>2, <2>3 DEF Sets, Builds
<1>5. TabsTyped' /\ Drafted(c, run[c], candidate', now')
  <2>1. now' = now
    BY DEF AnswerLost
  <2> QED
    BY <1>1, <2>1 DEF tabVars, TabsTyped
<1>6. KInv => Knows(c, run[c], o, Gone, records[Shown])
  <2> SUFFICES ASSUME KInv PROVE Knows(c, run[c], o, Gone, records[Shown])
    OBVIOUS
  <2>1. Standing(TurnOf(c, run[c].ending), run[c], op[c], Gone, records[Shown])
    BY DEF KInv, Knows
  <2> QED
    BY <1>1, <1>3, <2>1 DEF Knows, Errand, Sight, Reply, Standing, Success, Retryable
<1> QED
  BY <1>1, <1>3, <1>4, <1>5, <1>6, MoveKeeps

(* All steps of the store together.                                          *)
LEMMA StoreStepKeeps ==
    ASSUME TInv, StoreStep
    PROVE  TInv' /\ ("import" \notin Kinds /\ KInv => KInv')
<1>1. UNCHANGED <<run, tabVars>>
  BY DEF StoreStep
<1>2. CASE Tick
  <2>1. [Next]_vars /\ UNCHANGED <<records, tombs, lapsed, op, candidate>>
    BY <1>2 DEF Next, Tick, storeVars
  <2> QED
    BY <1>1, <2>1, ClockKeeps
<1>3. ASSUME NEW c \in Runs, AnswerLost(c)
      PROVE  TInv' /\ (KInv => KInv')
  BY <1>1, <1>3, AnswerLostKeeps
<1>4. ASSUME NEW c \in Clients, Progress(c) \/ Interrupt(c)
      PROVE  TInv' /\ (KInv => KInv')
  BY <1>1, <1>4, OperationKeeps
<1>5. ASSUME NEW c \in Clients \ Runs, Start(c) /\ op'[c].turn \notin RunTurns
      PROVE  TInv' /\ ("import" \notin Kinds /\ KInv => KInv')
  BY <1>1, <1>5, StartKeepsRuns
<1> QED
  BY <1>2, <1>3, <1>4, <1>5 DEF StoreStep

(* Every step of the workspace keeps both invariants.                        *)
LEMMA WorkspaceKeeps ==
    ASSUME TInv, [WorkspaceNext]_allVars
    PROVE  TInv' /\ ("import" \notin Kinds /\ KInv => KInv')
<1>1. CASE UNCHANGED allVars
  <2>1. UNCHANGED <<vars, run, tabVars>>
    BY <1>1 DEF allVars
  <2>2. [Next]_vars /\ UNCHANGED <<records, tombs, lapsed, op, candidate, run, tabVars>>
    BY <2>1 DEF vars
  <2> QED
    BY <2>2, ClockKeeps
<1>2. CASE AllOver
  BY <1>1, <1>2 DEF AllOver
<1>3. CASE StoreStep
  BY <1>3, StoreStepKeeps
<1>4. ASSUME NEW c \in Runs, Submit(c) \/ AcceptEvent(c) \/ RetryCommit(c) \/ RunStep(c)
      PROVE  TInv' /\ (KInv => KInv')
  BY <1>4, SubmitKeeps, TabKeeps, RetryCommitKeeps, LoadedKeeps, FinishWithoutCommitKeeps,
     FinishWithCommitKeeps, CommitReturnsKeeps, ReloadReturnsKeeps DEF RunStep
<1>5. ASSUME NEW b \in Tabs, MountLoaded(b) \/ Leave(b)
      PROVE  TInv' /\ (KInv => KInv')
  BY <1>5, TabKeeps
<1> QED
  BY <1>1, <1>2, <1>3, <1>4, <1>5 DEF WorkspaceNext

(* Both invariants hold before anything is submitted.                        *)
LEMMA WorkspaceInitHolds ==
    ASSUME WorkspaceInit
    PROVE  TInv /\ KInv
<1>1. Init
  BY DEF WorkspaceInit
<1>2. IInv /\ WInv /\ PurgesAreDue
  BY <1>1, InitHolds, InitSound DEF Init, IndexComplete, PurgesAreDue, Returned, WInv
<1>3. PICK q : q = [phase |-> "new", expected |-> 0, create |-> FALSE,
                    ending |-> "none", again |-> FALSE, retries |-> 0, context |-> {}]
  OBVIOUS
<1>4. /\ q \in Controller /\ q.phase = "new" /\ q.expected = 0
  BY <1>3, ControllerAssumption DEF Controller, Phases
<1>5. run = [c \in Runs |-> q]
  BY <1>3 DEF WorkspaceInit
<1>6. TabsTyped
  BY DEF WorkspaceInit, TabsTyped
<1>7. ASSUME NEW c \in Runs PROVE Drafted(c, run[c], candidate, now)
  <2>1. \A u \in TurnsOf(c) :
           u \in TurnIds /\ \A t \in Threads : u \notin Held(t) \cup Migrated(t)
    BY ControllerAssumption DEF TurnsOf
  <2>2. \A u \in TurnsOf(c) : candidate[u] = None
    BY <1>1, <2>1 DEF Init, PastCandidate
  <2> QED
    BY <1>4, <1>5, <2>2 DEF Drafted
<1>8. TInv
  BY <1>2, <1>4, <1>5, <1>6, <1>7 DEF TInv
<1>9. PICK o : o = Returned("none")
  OBVIOUS
<1>10. /\ o.pc = "idle" /\ o.kind = "none" /\ o.turn = None
       /\ op = [c \in Clients |-> o]
  BY <1>1, <1>9 DEF Returned, Init
<1>11. Foreign
  <2>1. None \notin RunTurns
    BY ControllerAssumption, BaseAssumption DEF RunTurns
  <2> QED
    BY <1>10, <2>1 DEF Foreign
<1>12. ASSUME NEW c \in Runs PROVE Knows(c, run[c], op[c], Gone, records[Shown])
  <2>1. run[c] = q /\ op[c] = o
    BY <1>5, <1>10, ControllerAssumption
  <2> QED
    BY <1>4, <1>10, <2>1 DEF Knows, Errand, Sight, Reply, Standing
<1> QED
  BY <1>8, <1>11, <1>12 DEF KInv

-----------------------------------------------------------------------------
(* The theorems.                                                             *)

(* The first invariant of the workspace: the invariants of the store hold of *)
(* the calls the controllers make, and a run builds its turn once, when its  *)
(* stream has ended (turn-controller.ts:232-241).                            *)
THEOREM WorkspaceTyped == WorkspaceSpec => []TInv
<1>1. WorkspaceInit => TInv
  BY WorkspaceInitHolds
<1>2. TInv /\ [WorkspaceNext]_allVars => TInv'
  BY WorkspaceKeeps
<1> QED
  BY <1>1, <1>2, PTL DEF WorkspaceSpec

(* The state of controllers and tabs keeps its types; no commit is retried   *)
(* beyond the bound.                                                         *)
THEOREM ControllersTyped == WorkspaceSpec => []ControllerTypeOK
<1>1. TInv => ControllerTypeOK
  BY Consequences DEF TInv, TabsTyped, ControllerTypeOK
<1> QED
  BY <1>1, WorkspaceTyped, PTL

(* Without imports a run knows where its turn is: what a controller has been *)
(* told, and what its operation has read on the way to the answer, differs   *)
(* from the stored thread only by turns of other clients, a deletion or the  *)
(* end of the retention (turn-controller.ts:243-263 over                     *)
(* thread-store-base.ts:57-95). An import that replaces the thread really    *)
(* takes its turns away.                                                     *)
THEOREM RunsKnowTheirThread ==
    ASSUME "import" \notin Kinds
    PROVE  WorkspaceSpec => []KInv
<1>1. WorkspaceInit => KInv
  BY WorkspaceInitHolds
<1>2. TInv /\ KInv /\ [WorkspaceNext]_allVars => KInv'
  BY WorkspaceKeeps
<1> QED
  BY <1>1, <1>2, WorkspaceTyped, PTL DEF WorkspaceSpec

(* A turn the user was told is saved stays in the thread while the thread is *)
(* neither deleted nor past its retention, for any number of tabs,           *)
(* submissions, retries, lost answers and other clients, none of which       *)
(* imports (turn-controller.ts:243-263, thread-store-base.ts:85-95).         *)
THEOREM SavedTurnsAreKept ==
    ASSUME "import" \notin Kinds
    PROVE  WorkspaceSpec => []SavedTurnsStay
<1>1. KInv => SavedTurnsStay
  BY DEF KInv, Knows, Standing, Gone, Bears, SavedTurnsStay
<1> QED
  BY <1>1, RunsKnowTheirThread, PTL

(* Nobody importing, a complete turn for a thread the run has loaded is      *)
(* refused for good only if the thread was deleted or has outlived its       *)
(* retention, and no turn is refused for good that is in the thread: a       *)
(* conflict ends in a rebase or a retry, the turns a research has named as   *)
(* support when it began are still there for the schema at its commit, and   *)
(* the retry after a lost answer finds the turn                              *)
(* (turn-controller.ts:248-258, commit-terminal-turn.ts:90-94, 121-136).     *)
THEOREM RefusalsAreFinal ==
    ASSUME "import" \notin Kinds
    PROVE  WorkspaceSpec => []RebasedTurnsLand
<1>1. KInv => RebasedTurnsLand
  BY DEF KInv, Knows, Standing, Refused, Gone, Bears, RebasedTurnsLand
<1> QED
  BY <1>1, RunsKnowTheirThread, PTL

-----------------------------------------------------------------------------
(* The store in the workspace.                                               *)

(* Every step of the workspace is one of the store or leaves what is stored  *)
(* alone.                                                                    *)
LEMMA WorkspaceUsesStore ==
    ASSUME [WorkspaceNext]_allVars
    PROVE  [Next]_vars \/ UNCHANGED <<records, tombs, lapsed>>
<1>1. CASE UNCHANGED allVars \/ AllOver
  BY <1>1 DEF AllOver, allVars, vars
<1>2. CASE StoreStep
  <2>1. ASSUME NEW c, AnswerLost(c) PROVE UNCHANGED <<records, tombs, lapsed>>
    BY <2>1 DEF AnswerLost, storeVars
  <2>2. CASE Tick \/ \E c \in Clients : Progress(c) \/ Interrupt(c) \/ Start(c)
    BY <2>2 DEF Next
  <2> QED
    BY <1>2, <2>1, <2>2 DEF StoreStep
<1>3. ASSUME NoStore PROVE UNCHANGED <<records, tombs, lapsed>>
  BY <1>3 DEF NoStore, vars
<1>4. ASSUME NEW c, NEW o, Call(c, o) PROVE UNCHANGED <<records, tombs, lapsed>>
  BY <1>4 DEF Call, storeVars
<1>5. ASSUME NEW c, Submit(c) \/ AcceptEvent(c) \/ RetryCommit(c) \/ RunStep(c)
      PROVE  UNCHANGED <<records, tombs, lapsed>>
  <2>1. NoStore \/ \E o : Call(c, o)
    BY <1>5 DEF Submit, AcceptEvent, RetryCommit, RunStep, Loaded, FinishWithoutCommit,
       FinishWithCommit, CommitReturns, ReloadReturns, CallLoad, CallCommit, Settled
  <2> QED
    BY <1>3, <1>4, <2>1
<1>6. ASSUME NEW b, MountLoaded(b) \/ Leave(b)
      PROVE  UNCHANGED <<records, tombs, lapsed>>
  BY <1>3, <1>6 DEF MountLoaded, Leave
<1> QED
  BY <1>1, <1>2, <1>5, <1>6 DEF WorkspaceNext

(* Driven by controllers, whose answers may be lost, the store still keeps   *)
(* deletion and storage apart, compares revisions soundly, lists every       *)
(* thread, builds a thread its schema refuses only on account of the new     *)
(* turn itself and never reports corruption (thread-store-base.ts:57-95,     *)
(* commit-terminal-turn.ts:121-136, indexeddb-thread-store.ts:39-109).       *)
THEOREM WorkspaceStoreSound ==
    WorkspaceSpec => [](/\ OneFace /\ RevisionsIdentify /\ IndexComplete
                        /\ BuildsValidThreads /\ NoFalseCorruption)
<1>1. TInv => /\ OneFace /\ RevisionsIdentify /\ IndexComplete
              /\ BuildsValidThreads /\ NoFalseCorruption
  BY Consequences, SoundConsequence DEF TInv, WInv, Clean, NoFalseCorruption
<1> QED
  BY <1>1, WorkspaceTyped, PTL

(* No commit of any controller overwrites a turn another one has committed   *)
(* meanwhile (thread-store-base.ts:85-95).                                   *)
THEOREM WorkspaceLosesNoTurn == WorkspaceSpec => CommitsOnlyExtend
<1>1. TInv /\ [WorkspaceNext]_allVars =>
        [\A t \in Threads :
           (/\ records[t] # None /\ records'[t] # None
            /\ ~ReplacesThread(t))
           => Extends(records[t], records'[t])]_vars
  <2> SUFFICES ASSUME TInv, [WorkspaceNext]_allVars, NEW t \in Threads,
                      records[t] # None, records'[t] # None, ~ReplacesThread(t)
               PROVE  Extends(records[t], records'[t])
    OBVIOUS
  <2>1. CASE [Next]_vars
    BY <2>1, StepExtends DEF TInv
  <2>2. CASE records' = records
    BY <2>2 DEF Extends
  <2> QED
    BY <2>1, <2>2, WorkspaceUsesStore
<1> QED
  BY <1>1, WorkspaceTyped, PTL DEF WorkspaceSpec, CommitsOnlyExtend

(* The whole workspace implements ThreadHistory: whatever tabs submit, retry *)
(* or abandon, a thread changes by the admission of one turn, a removal, an  *)
(* import or a migration until it first outlives its retention.              *)
THEOREM WorkspaceRefines == WorkspaceSpec => RefinesHistory
<1>1. TInv /\ TInv' /\ [WorkspaceNext]_allVars => [History!Next]_History!vars
  <2> SUFFICES ASSUME TInv, TInv', [WorkspaceNext]_allVars PROVE History!Next
    OBVIOUS
  <2>1. CASE [Next]_vars
    BY <2>1, StepMaps DEF TInv
  <2>2. CASE UNCHANGED <<records, tombs, lapsed>>
    <3>1. lapsed' \subseteq Threads
      BY DEF TInv, IInv, Typed
    <3>2. History!Retire
      BY <2>2, <3>1, MapsRetire
    <3> QED
      BY <3>2 DEF History!Next
  <2> QED
    BY <2>1, <2>2, WorkspaceUsesStore
<1>2. WorkspaceInit => History!Init
  BY InitMaps DEF WorkspaceInit
<1> QED
  BY <1>1, <1>2, WorkspaceTyped, PTL DEF WorkspaceSpec, RefinesHistory, History!Spec
=============================================================================

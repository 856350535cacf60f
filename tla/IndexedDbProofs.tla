--------------------------- MODULE IndexedDbProofs ---------------------------
(***************************************************************************)
(* Safety of the browser adapter of the thread store, for any number of    *)
(* tabs, threads, turns and sources: deletion and storage exclude each     *)
(* other, compare-and-set on the revision is sound, and a commit only      *)
(* extends the thread that is stored.                                      *)
(***************************************************************************)
EXTENDS IndexedDbThreadStore, ThreadStoreProofs

-----------------------------------------------------------------------------
(* Steps that read.                                                          *)
LEMMA ReadingKeeps ==
    ASSUME IInv, NEW c \in Clients,
           Read(c) \/ ReadLegacy(c) \/ ListLegacyKeys(c)
    PROVE  IInv'
<1> DEFINE o == op[c]
<1>1. /\ o \in Op /\ Fits(o, candidate) /\ Genuine(o, records, nextRev)
      /\ now \in Nat /\ started \in Nat /\ lapsed \in SUBSET Threads
  BY DEF IInv, Typed
<1>2. /\ UNCHANGED <<records, tombs, index, legacy, nextRev, candidate>>
      /\ UNCHANGED <<now, started, lapsed>>
  BY DEF Read, ReadLegacy, ListLegacyKeys, Elsewhere, storeVars
<1>3. ASSUME Read(c) PROVE IInv'
  <2> DEFINE pc == IF /\ o.pc = "read" /\ records[o.at] = None /\ tombs[o.at] = None
                   THEN "legacy" ELSE "settle"
             p == [o EXCEPT !.record = records[o.at], !.tomb = tombs[o.at], !.pc = pc]
  <2>1. o.at \in Threads /\ op' = [op EXCEPT ![c] = p]
    BY <1>1, <1>3 DEF Read, Step, Fits
  <2>2. records[o.at] \in Record \cup {None} /\ tombs[o.at] \in Nat \cup {None}
    BY <2>1 DEF IInv, Typed
  <2>3. /\ p \in Op /\ p.at = o.at /\ p.record = records[o.at]
        /\ p.pc = pc /\ p.kind = o.kind /\ p.turn = o.turn
    <3>1. pc \in PCs
      BY DEF PCs
    <3> HIDE DEF pc
    <3> QED
      BY <1>1, <2>2, <3>1 DEF Op
  <2> HIDE DEF p
  <2>4. Fits(p, candidate)
    BY <1>1, <2>1, <2>3 DEF Fits
  <2>5. Genuine(p, records, nextRev)
    BY <2>1, <2>3 DEF IInv, Drawn, Genuine
  <2> QED
    BY <1>1, <1>2, <2>1, <2>4, <2>5, LocalStep
<1>4. ASSUME ReadLegacy(c) PROVE IInv'
  <2> DEFINE p == [o EXCEPT !.pc = IF o.at \in legacy THEN "migrate" ELSE "settle"]
  <2>1. o.at \in Threads /\ o.record = None /\ op' = [op EXCEPT ![c] = p]
    BY <1>1, <1>4 DEF ReadLegacy, Step, Fits
  <2>2. /\ p \in Op /\ p.at = o.at /\ p.record = o.record
        /\ p.pc \in {"migrate", "settle"} /\ p.kind = o.kind /\ p.turn = o.turn
    BY <1>1 DEF Op, PCs
  <2> HIDE DEF p
  <2>3. Fits(p, candidate) /\ Genuine(p, records, nextRev)
    BY <1>1, <2>1, <2>2 DEF Fits, Genuine
  <2> QED
    BY <1>1, <1>2, <2>1, <2>3, LocalStep
<1>5. ASSUME ListLegacyKeys(c) PROVE IInv'
  <2> DEFINE p == [o EXCEPT !.pc = "sweep", !.todo = legacy]
  <2>1. op' = [op EXCEPT ![c] = p] /\ legacy \in SUBSET Threads /\ o.record = None
    BY <1>1, <1>5 DEF ListLegacyKeys, Step, Fits, IInv, Typed
  <2>2. /\ p \in Op /\ p.at = o.at /\ p.record = o.record
        /\ p.pc = "sweep" /\ p.kind = o.kind /\ p.turn = o.turn
    BY <1>1, <2>1, ZenonT(40) DEF Op, PCs
  <2> HIDE DEF p
  <2>3. Fits(p, candidate) /\ Genuine(p, records, nextRev)
    BY <1>1, <2>1, <2>2 DEF Fits, Genuine
  <2> QED
    BY <1>1, <1>2, <2>1, <2>3, LocalStep
<1> QED
  BY <1>3, <1>4, <1>5

-----------------------------------------------------------------------------
(* Steps that write.                                                         *)

(* A legacy record is installed while an operation that holds no record      *)
(* moves on.                                                                 *)
LEMMA InstallKeeps ==
    ASSUME IInv, NEW c \in Clients, NEW o, NEW t \in Threads,
           CanMigrate(t), InstallLegacy(t), Elsewhere,
           op' = [op EXCEPT ![c] = o], Fits(o, candidate), o.record = None
    PROVE  IInv'
<1> DEFINE r == Converted(t, nextRev[t])
           n == nextRev[t] + 1
<1>1. /\ nextRev[t] \in Nat \ {0} /\ index \in SUBSET Threads
      /\ legacy \in SUBSET Threads /\ lapsed \in SUBSET Threads
      /\ tombs \in [Threads -> Nat \cup {None}]
      /\ nextRev \in [Threads -> Nat \ {0}]
  BY DEF IInv, Typed
<1>2. r \in Record /\ r.rev = nextRev[t]
  BY <1>1, ConvertedType
<1>3. n \in Nat /\ nextRev[t] <= n /\ nextRev[t] < n
  BY <1>1
<1>4. /\ records' = [records EXCEPT ![t] = r]
      /\ nextRev' = [nextRev EXCEPT ![t] = n]
      /\ index' = index \cup {t} /\ legacy' = legacy \ {t} /\ tombs' = tombs
  BY <1>1 DEF InstallLegacy
<1>5. tombs' = [tombs EXCEPT ![t] = None]
  BY <1>1, <1>4 DEF CanMigrate
<1>6. /\ index' \in SUBSET Threads /\ legacy' \in SUBSET Threads
      /\ lapsed' \in SUBSET Threads
      /\ UNCHANGED <<now, candidate, started>>
  BY <1>1, <1>4 DEF Elsewhere
<1> HIDE DEF r, n
<1> QED
  BY <1>2, <1>3, <1>4, <1>5, <1>6, ThreadStep

(* A migration keeps the first invariant.                                    *)
LEMMA MigrationKeeps ==
    ASSUME IInv, NEW c \in Clients, Migrate(c) \/ Sweep(c)
    PROVE  IInv'
<1> DEFINE o == op[c]
<1>1. /\ o \in Op /\ Fits(o, candidate) /\ Genuine(o, records, nextRev)
      /\ now \in Nat /\ started \in Nat /\ lapsed \in SUBSET Threads
      /\ index \in SUBSET Threads
  BY DEF IInv, Typed
<1>2. ASSUME UNCHANGED <<storeVars, nextRev>>, Elsewhere
      PROVE  /\ UNCHANGED <<records, tombs, index, legacy, nextRev, candidate>>
             /\ now' \in Nat /\ started' \in Nat /\ lapsed' \in SUBSET Threads
  BY <1>1, <1>2 DEF storeVars, Elsewhere
<1>3. ASSUME Migrate(c) PROVE IInv'
  <2>1. o.pc = "migrate" /\ o.at \in Threads /\ o.record = None /\ Elsewhere
    BY <1>1, <1>3 DEF Migrate, Fits
  <2>2. \A pc \in {"reread", "settle"} :
          /\ Fits([o EXCEPT !.pc = pc], candidate)
          /\ Genuine([o EXCEPT !.pc = pc], records, nextRev)
          /\ [o EXCEPT !.pc = pc].record = None
    <3> SUFFICES ASSUME NEW pc \in {"reread", "settle"}
                 PROVE  /\ Fits([o EXCEPT !.pc = pc], candidate)
                        /\ Genuine([o EXCEPT !.pc = pc], records, nextRev)
                        /\ [o EXCEPT !.pc = pc].record = None
      OBVIOUS
    <3> DEFINE p == [o EXCEPT !.pc = pc]
    <3>1. /\ p \in Op /\ p.at = o.at /\ p.record = None
          /\ p.pc = pc /\ p.kind = o.kind /\ p.turn = o.turn
      BY <1>1, <2>1, SMTT(30) DEF Op, PCs
    <3> HIDE DEF p
    <3>2. Fits(p, candidate) /\ Genuine(p, records, nextRev) /\ p.record = None
      BY <1>1, <2>1, <3>1 DEF Fits, Genuine
    <3> QED
      BY <3>2 DEF p
  <2>3. CASE /\ CanMigrate(o.at) /\ InstallLegacy(o.at)
             /\ Step(c, [o EXCEPT !.pc = "reread"])
    BY <2>1, <2>2, <2>3, InstallKeeps DEF Step
  <2>4. CASE /\ Step(c, [o EXCEPT !.pc = IF records[o.at] # None
                                        THEN "reread" ELSE "settle"])
             /\ UNCHANGED <<storeVars, nextRev>>
    <3> DEFINE pc == IF records[o.at] # None THEN "reread" ELSE "settle"
    <3>1. pc \in {"reread", "settle"} /\ op' = [op EXCEPT ![c] = [o EXCEPT !.pc = pc]]
      BY <2>4 DEF Step
    <3> HIDE DEF pc
    <3>2. /\ Fits([o EXCEPT !.pc = pc], candidate)
          /\ Genuine([o EXCEPT !.pc = pc], records, nextRev)
      BY <2>2, <3>1
    <3> QED
      BY <1>2, <2>1, <2>4, <3>1, <3>2, LocalStep
  <2> QED
    BY <1>3, <2>3, <2>4 DEF Migrate
<1>4. ASSUME Sweep(c) PROVE IInv'
  <2>1. o.pc = "sweep" /\ o.record = None /\ Elsewhere
    BY <1>1, <1>4 DEF Sweep, Fits
  <2>2. CASE /\ Step(c, [o EXCEPT !.pc = "loop", !.todo = index])
             /\ UNCHANGED <<storeVars, nextRev>>
    <3> DEFINE p == [o EXCEPT !.pc = "loop", !.todo = index]
    <3>1. /\ p \in Op /\ p.at = o.at /\ p.record = None
          /\ p.pc = "loop" /\ p.kind = o.kind /\ p.turn = o.turn
      BY <1>1, <2>1, ZenonT(40) DEF Op, PCs
    <3>2. op' = [op EXCEPT ![c] = p]
      BY <2>2 DEF Step
    <3> HIDE DEF p
    <3>3. Fits(p, candidate) /\ Genuine(p, records, nextRev)
      BY <1>1, <3>1 DEF Fits, Genuine
    <3> QED
      BY <1>2, <2>1, <2>2, <3>2, <3>3, LocalStep
  <2>3. ASSUME NEW t \in o.todo,
               Step(c, [o EXCEPT !.todo = o.todo \ {t}]),
               IF CanMigrate(t) THEN InstallLegacy(t)
               ELSE UNCHANGED <<storeVars, nextRev>>
        PROVE  IInv'
    <3> DEFINE p == [o EXCEPT !.todo = o.todo \ {t}]
    <3>1. /\ p \in Op /\ p.at = o.at /\ p.record = None /\ t \in Threads
          /\ p.pc = "sweep" /\ p.kind = o.kind /\ p.turn = o.turn
      BY <1>1, <2>1 DEF Op
    <3>2. op' = [op EXCEPT ![c] = p]
      BY <2>3 DEF Step
    <3> HIDE DEF p
    <3>3. Fits(p, candidate) /\ Genuine(p, records, nextRev)
      BY <1>1, <3>1 DEF Fits, Genuine
    <3>4. CASE CanMigrate(t)
      BY <2>1, <2>3, <3>1, <3>2, <3>3, <3>4, InstallKeeps
    <3>5. CASE ~CanMigrate(t)
      BY <1>2, <2>1, <2>3, <3>2, <3>3, <3>5, LocalStep
    <3> QED
      BY <3>4, <3>5
  <2> QED
    BY <1>4, <2>2, <2>3 DEF Sweep
<1> QED
  BY <1>3, <1>4

(* Purging forgets a thread; the operation goes on without a record.         *)
LEMMA PurgeKeeps ==
    ASSUME IInv, NEW c \in Clients, Purge(c)
    PROVE  IInv'
<1> DEFINE o == op[c]
<1>1. /\ o \in Op /\ Fits(o, candidate) /\ now \in Nat
      /\ lapsed \in SUBSET Threads /\ index \in SUBSET Threads
      /\ legacy \in SUBSET Threads /\ nextRev \in [Threads -> Nat \ {0}]
  BY DEF IInv, Typed
<1>2. o.pc = "purge" /\ o.at \in Threads /\ o.record = None
  BY <1>1 DEF Purge, Fits
<1>3. Fits(Decision(o), candidate) /\ Decision(o).record = None
  BY <1>1, <1>2, DecisionFits
<1>4. /\ records' = [records EXCEPT ![o.at] = None]
      /\ tombs' = [tombs EXCEPT ![o.at] = None]
      /\ index' \in SUBSET Threads /\ legacy' \in SUBSET Threads
      /\ lapsed' \in SUBSET Threads
      /\ UNCHANGED <<now, candidate, started>>
      /\ op' = [op EXCEPT ![c] = Decision(o)]
  BY <1>1 DEF Purge, Step, Elsewhere
<1>5. nextRev' = [nextRev EXCEPT ![o.at] = nextRev[o.at]]
  BY <1>1, <1>2 DEF Purge
<1>6. nextRev[o.at] \in Nat /\ nextRev[o.at] <= nextRev[o.at]
  BY <1>1, <1>2
<1> HIDE DEF o
<1> QED
  BY <1>2, <1>3, <1>4, <1>5, <1>6, ThreadStep

(* A write takes place only if the stored revision is the one read and no    *)
(* tombstone is left.                                                        *)
LEMMA WriteKeeps ==
    ASSUME IInv, NEW c \in Clients, Write(c)
    PROVE  IInv'
<1> DEFINE o == op[c]
<1>1. /\ o \in Op /\ Fits(o, candidate) /\ now \in Nat /\ started \in Nat
      /\ lapsed \in SUBSET Threads /\ index \in SUBSET Threads
      /\ legacy \in SUBSET Threads /\ nextRev \in [Threads -> Nat \ {0}]
      /\ tombs \in [Threads -> Nat \cup {None}]
  BY DEF IInv, Typed
<1>2. o.pc = "write" /\ o.at \in Threads /\ Elsewhere
  BY <1>1 DEF Write, Fits
<1>3. /\ Fits(AfterWrite(o), candidate) /\ AfterWrite(o).record = None
      /\ Fits(AfterRefusal(o), candidate) /\ AfterRefusal(o).record = None
  BY <1>1, <1>2, AfterwardsFits
<1>4. CASE /\ Accepts(o)
           /\ records' = [records EXCEPT ![o.at] = NewRecord(o)]
           /\ tombs' = IF ClearsTombstone(o) THEN [tombs EXCEPT ![o.at] = None]
                       ELSE tombs
           /\ index' = index \cup {o.at}
           /\ nextRev' = [nextRev EXCEPT ![o.at] = @ + 1]
           /\ UNCHANGED legacy
           /\ Step(c, AfterWrite(o))
  <2> DEFINE r == NewRecord(o)
             n == nextRev[o.at] + 1
  <2>1. r \in Record /\ r.rev = nextRev[o.at]
    BY <1>1, <1>2, NewRecordType
  <2>2. /\ n \in Nat /\ nextRev[o.at] <= n /\ nextRev[o.at] < n
        /\ nextRev' = [nextRev EXCEPT ![o.at] = n]
    BY <1>1, <1>2, <1>4
  <2>3. tombs' = [tombs EXCEPT ![o.at] = None]
    BY <1>1, <1>2, <1>4 DEF Accepts
  <2>4. /\ index' \in SUBSET Threads /\ legacy' \in SUBSET Threads
        /\ lapsed' \in SUBSET Threads /\ UNCHANGED <<now, candidate, started>>
        /\ records' = [records EXCEPT ![o.at] = r]
        /\ op' = [op EXCEPT ![c] = AfterWrite(o)]
    BY <1>1, <1>2, <1>4 DEF Elsewhere, Step
  <2> HIDE DEF r, n, o
  <2> QED
    BY <1>2, <1>3, <2>1, <2>2, <2>3, <2>4, ThreadStep
<1>5. CASE /\ UNCHANGED <<storeVars, nextRev>>
           /\ Step(c, AfterRefusal(o))
  <2>1. /\ UNCHANGED <<records, tombs, index, legacy, nextRev, candidate>>
        /\ now' \in Nat /\ started' \in Nat /\ lapsed' \in SUBSET Threads
        /\ op' = [op EXCEPT ![c] = AfterRefusal(o)]
    BY <1>1, <1>2, <1>5 DEF storeVars, Elsewhere, Step
  <2>2. Genuine(AfterRefusal(o), records, nextRev)
    BY <1>3 DEF Genuine
  <2> QED
    BY <1>3, <2>1, <2>2, LocalStep
<1> QED
  BY <1>4, <1>5 DEF Write

(* A tombstone takes the place of the record the caller has read.            *)
LEMMA WriteTombstoneKeeps ==
    ASSUME IInv, NEW c \in Clients, WriteTombstone(c)
    PROVE  IInv'
<1> DEFINE o == op[c]
<1>1. /\ o \in Op /\ Fits(o, candidate) /\ now \in Nat /\ started \in Nat
      /\ lapsed \in SUBSET Threads /\ index \in SUBSET Threads
      /\ legacy \in SUBSET Threads /\ nextRev \in [Threads -> Nat \ {0}]
  BY DEF IInv, Typed
<1>2. o.pc = "bury" /\ o.at \in Threads /\ Elsewhere /\ UNCHANGED nextRev
  BY <1>1 DEF WriteTombstone, Fits
<1>3. \A code \in {"removed", "revision_conflict"} :
         /\ Fits(Returned(code), candidate) /\ Returned(code).record = None
         /\ Genuine(Returned(code), records, nextRev)
  BY ReturnedFits DEF Codes, Genuine
<1>4. CASE /\ records' = [records EXCEPT ![o.at] = None]
           /\ tombs' = [tombs EXCEPT ![o.at] = ThreadExpiryAt(o.time)]
           /\ index' = index \cup {o.at}
           /\ UNCHANGED legacy
           /\ Step(c, Returned("removed"))
  <2> DEFINE x == ThreadExpiryAt(o.time)
  <2>1. x \in Nat
    BY <1>1, RetentionAssumption DEF Op, ThreadExpiryAt
  <2>2. /\ nextRev' = [nextRev EXCEPT ![o.at] = nextRev[o.at]]
        /\ nextRev[o.at] \in Nat /\ nextRev[o.at] <= nextRev[o.at]
    BY <1>1, <1>2
  <2>3. /\ index' \in SUBSET Threads /\ legacy' \in SUBSET Threads
        /\ lapsed' \in SUBSET Threads /\ UNCHANGED <<now, candidate, started>>
        /\ tombs' = [tombs EXCEPT ![o.at] = x]
        /\ op' = [op EXCEPT ![c] = Returned("removed")]
    BY <1>1, <1>2, <1>4 DEF Elsewhere, Step
  <2> HIDE DEF x, o
  <2> QED
    BY <1>2, <1>3, <1>4, <2>1, <2>2, <2>3, ThreadStep
<1>5. CASE /\ UNCHANGED storeVars
           /\ Step(c, Returned("revision_conflict"))
  <2>1. /\ UNCHANGED <<records, tombs, index, legacy, nextRev, candidate>>
        /\ now' \in Nat /\ started' \in Nat /\ lapsed' \in SUBSET Threads
        /\ op' = [op EXCEPT ![c] = Returned("revision_conflict")]
    BY <1>1, <1>2, <1>5 DEF storeVars, Elsewhere, Step
  <2> QED
    BY <1>3, <2>1, LocalStep
<1> QED
  BY <1>4, <1>5 DEF WriteTombstone

-----------------------------------------------------------------------------
(* Every step keeps the invariant.                                           *)
LEMMA NextKeeps ==
    ASSUME IInv, [Next]_vars
    PROVE  IInv'
<1>1. CASE UNCHANGED vars
  BY <1>1 DEF IInv, vars, Typed, OneFace, Drawn
<1>2. CASE Tick
  BY <1>2 DEF Tick, storeVars, IInv, Typed, OneFace, Drawn
<1>3. CASE Rest
  BY <1>1, <1>3 DEF Rest
<1>4. ASSUME NEW c \in Clients, Start(c) \/ Progress(c) \/ Interrupt(c)
      PROVE  IInv'
  <2>1. CASE Start(c)
    BY <2>1, StartKeeps
  <2>2. CASE Progress(c)
    BY <2>2, ReadingKeeps, MigrationKeeps, SharedStepsKeep, PurgeKeeps,
       WriteKeeps, WriteTombstoneKeeps DEF Progress
  <2>3. CASE Interrupt(c)
    BY <2>3, SharedStepsKeep
  <2> QED
    BY <1>4, <2>1, <2>2, <2>3
<1> QED
  BY <1>1, <1>2, <1>3, <1>4 DEF Next

(* The first invariant holds of the browser store: its transactions keep     *)
(* what every suspended operation relies on                                  *)
(* (indexeddb-thread-store.ts:39-109).                                       *)
THEOREM Invariance == Spec => []IInv
<1>1. Init => IInv
  BY InitHolds
<1>2. IInv /\ [Next]_vars => IInv'
  BY NextKeeps
<1> QED
  BY <1>1, <1>2, PTL DEF Spec

(* The state keeps its types.                                                *)
THEOREM TypeCorrect == Spec => []TypeOK
BY Invariance, Consequences, PTL

(* No thread is ever stored both as a record and as a tombstone, whatever    *)
(* deletes, commits, imports and migrations race (writeRecord, writeTombstone*)
(* and migrateLegacy of indexeddb-thread-store.ts).                          *)
THEOREM DeletionExcludesStorage == Spec => []OneFace
BY Invariance, Consequences, PTL

(* A tab whose copy carries the stored revision holds the stored record: the *)
(* comparison of revisions in writeRecord and writeTombstone stands for a    *)
(* comparison of the records themselves.                                     *)
THEOREM CompareAndSetSound == Spec => []RevisionsIdentify
BY Invariance, Consequences, PTL

-----------------------------------------------------------------------------
(* No committed turn is lost.                                                *)

(* A thread that stays stored is extended or left alone by every step, an    *)
(* import's apart.                                                           *)
LEMMA StepExtends ==
    ASSUME IInv, [Next]_vars, NEW t \in Threads,
           records[t] # None, records'[t] # None, ~ReplacesThread(t)
    PROVE  Extends(records[t], records'[t])
<1>1. Extends(records[t], records[t])
  BY DEF Extends
<1>2. CASE UNCHANGED records
  BY <1>1, <1>2
<1>3. records \in [Threads -> Record \cup {None}]
  BY DEF IInv, Typed
<1>4. ASSUME NEW c \in Clients, Migrate(c) \/ Sweep(c)
      PROVE  Extends(records[t], records'[t])
  <2>1. ASSUME NEW u, CanMigrate(u), InstallLegacy(u)
        PROVE  records'[t] = records[t]
    BY <1>3, <2>1 DEF CanMigrate, InstallLegacy
  <2>2. records'[t] = records[t]
    BY <1>4, <2>1 DEF Migrate, Sweep, storeVars
  <2> QED
    BY <1>1, <2>2
<1>5. ASSUME NEW c \in Clients, Purge(c) \/ WriteTombstone(c)
      PROVE  Extends(records[t], records'[t])
  <2>1. records'[t] = records[t]
    BY <1>3, <1>5 DEF Purge, WriteTombstone, storeVars
  <2> QED
    BY <1>1, <2>1
<1>6. ASSUME NEW c \in Clients, Write(c)
      PROVE  Extends(records[t], records'[t])
  <2> DEFINE o == op[c]
  <2>1. /\ o \in Op /\ Fits(o, candidate) /\ Genuine(o, records, nextRev)
        /\ o.pc = "write"
    BY <1>6 DEF IInv, Write
  <2>2. o.at \in Threads /\ o.kind \in {"commit", "import"}
    BY <2>1 DEF Fits
  <2>3. CASE records' = records \/ o.at # t
    <3>1. records'[t] = records[t]
      BY <1>3, <1>6, <2>3 DEF Write, storeVars
    <3> QED
      BY <1>1, <3>1
  <2>4. CASE records' # records /\ o.at = t
    <3>1. Accepts(o) /\ records' = [records EXCEPT ![t] = NewRecord(o)]
      BY <1>6, <2>4 DEF Write, storeVars
    <3>2. o.kind = "commit"
      BY <2>1, <2>2, <2>4 DEF ReplacesThread
    <3>3. records[t] \in Record /\ records[t].rev \in Nat \ {0}
      BY <1>3 DEF Record
    <3>4. o.record = records[t]
      <4>1. o.record # None /\ o.record.rev = records[t].rev
        BY <2>4, <3>1, <3>3 DEF Accepts, StoredRevision, SeenRevision
      <4> QED
        BY <2>1, <2>4, <4>1 DEF Genuine
    <3>5. InputOf(o).turn \in Turn /\ InputOf(o).supplied \in Seq(Sources)
      <4>1. o.turn \in TurnIds /\ candidate[o.turn].finishedAt \in Nat
        BY <2>1, <3>2 DEF Fits, IInv, Typed, Candidate
      <4> QED
        BY <2>1, <4>1 DEF InputOf, Turn, Op
    <3>6. Extends(records[t], Extended(records[t], InputOf(o), nextRev[t]))
      BY <3>3, <3>5, ExtendedExtends
    <3>7. records'[t] = Extended(records[t], InputOf(o), nextRev[t])
      BY <1>3, <2>4, <3>1, <3>2, <3>4 DEF NewRecord
    <3> QED
      BY <3>6, <3>7
  <2> QED
    BY <2>3, <2>4
<1>7. CASE UNCHANGED vars \/ Tick \/ Rest
  <2>1. UNCHANGED records
    BY <1>7 DEF vars, storeVars, Tick, Rest
  <2> QED
    BY <1>2, <2>1
<1>8. ASSUME NEW c \in Clients, Start(c)
      PROVE  Extends(records[t], records'[t])
  <2>1. ASSUME NEW o, Begin(c, o) PROVE UNCHANGED records
    BY <2>1 DEF Begin
  <2>2. UNCHANGED records
    BY <1>8, <2>1 DEF Start, StartLoad, StartList, StartCommit, StartRemove,
       StartImport
  <2> QED
    BY <1>2, <2>2
<1>9. ASSUME NEW c \in Clients,
             \/ Interrupt(c) \/ Settle(c) \/ PickThread(c) \/ Read(c)
             \/ ReadLegacy(c) \/ ListLegacyKeys(c)
      PROVE  Extends(records[t], records'[t])
  <2>1. UNCHANGED records
    BY <1>9 DEF storeVars, Interrupt, Settle, PickThread, Read, ReadLegacy,
       ListLegacyKeys
  <2> QED
    BY <1>2, <2>1
<1> QED
  BY <1>4, <1>5, <1>6, <1>7, <1>8, <1>9 DEF Next, Progress

(* A commit computed on a stale copy never overwrites a turn committed       *)
(* meanwhile, and no source's ordinal moves: between two versions of a       *)
(* stored thread only an import replaces turns (thread-store-base.ts:85-95). *)
THEOREM NoLostTurn == Spec => CommitsOnlyExtend
<1>1. IInv /\ [Next]_vars =>
        [\A t \in Threads :
           (/\ records[t] # None /\ records'[t] # None
            /\ ~ReplacesThread(t))
           => Extends(records[t], records'[t])]_vars
  BY StepExtends
<1> QED
  BY <1>1, Invariance, PTL DEF Spec, CommitsOnlyExtend

-----------------------------------------------------------------------------
(* Soundness, and the index.                                                 *)

(* Stored and held threads are sound, no operation holds a torn state or has *)
(* met corruption, and the index is complete.                                *)
WInv ==
    /\ SInv
    /\ \A c \in Clients : Clean(op[c])
    /\ IndexComplete

(* One operation moves: what is to be shown of what it writes and lists, and *)
(* of its locals.                                                            *)
LEMMA WholeStep ==
    ASSUME IInv, WInv, NEW c \in Clients, NEW o,
           Stays(candidate, candidate'),
           \A t \in Threads : \/ records'[t] = records[t]
                              \/ Sound(records'[t], candidate'),
           \A t \in Threads : \/ /\ records'[t] = records[t] /\ tombs'[t] = tombs[t]
                                 /\ t \in index => t \in index'
                              \/ records'[t] = None /\ tombs'[t] = None
                              \/ t \in index',
           op' = [op EXCEPT ![c] = o], Good(o, candidate'), Clean(o)
    PROVE  WInv'
<1>1. SInv'
  BY SoundStep DEF WInv
<1>2. \A d \in Clients : Clean(op'[d])
  <2>1. op \in [Clients -> Op]
    BY DEF IInv
  <2>2. \A d \in Clients : op'[d] = IF d = c THEN o ELSE op[d]
    BY <2>1
  <2> QED
    BY <2>2 DEF WInv
<1>3. IndexComplete'
  BY DEF WInv, IndexComplete
<1> QED
  BY <1>1, <1>2, <1>3 DEF WInv

(* The database stays as it is.                                              *)
LEMMA WholeLocalStep ==
    ASSUME IInv, WInv, NEW c \in Clients, NEW o,
           UNCHANGED <<records, tombs, index, candidate>>,
           op' = [op EXCEPT ![c] = o], Good(o, candidate), Clean(o)
    PROVE  WInv'
<1>1. Stays(candidate, candidate') /\ Good(o, candidate')
  BY DEF Stays
<1> QED
  BY <1>1, WholeStep

(* A transaction reads both values, of which at most one is there.           *)
LEMMA ReadingWhole ==
    ASSUME IInv, WInv, NEW c \in Clients,
           Read(c) \/ ReadLegacy(c) \/ ListLegacyKeys(c)
    PROVE  WInv'
<1> DEFINE o == op[c]
<1>1. o \in Op /\ Fits(o, candidate) /\ Good(o, candidate) /\ Clean(o)
  BY DEF IInv, WInv, SInv
<1>2. UNCHANGED <<records, tombs, index, candidate>>
  BY DEF Read, ReadLegacy, ListLegacyKeys, Elsewhere, storeVars
<1>3. ASSUME Read(c) PROVE WInv'
  <2> DEFINE pc == IF /\ o.pc = "read" /\ records[o.at] = None /\ tombs[o.at] = None
                   THEN "legacy" ELSE "settle"
             p == [o EXCEPT !.record = records[o.at], !.tomb = tombs[o.at], !.pc = pc]
  <2>1. o.at \in Threads /\ op' = [op EXCEPT ![c] = p]
    BY <1>1, <1>3 DEF Read, Step, Fits
  <2>2. /\ p.record = records[o.at] /\ p.tomb = tombs[o.at] /\ p.pc # "write"
        /\ p.result = o.result
    BY <1>1 DEF Op
  <2> HIDE DEF p
  <2>3. Good(p, candidate)
    BY <1>1, <2>1, <2>2 DEF WInv, SInv, Good
  <2>4. Clean(p)
    BY <1>1, <2>1, <2>2 DEF Clean, IInv, OneFace
  <2> QED
    BY <1>2, <2>1, <2>3, <2>4, WholeLocalStep
<1>4. ASSUME NEW p, op' = [op EXCEPT ![c] = p], p.record = o.record,
             p.tomb = o.tomb, p.result = o.result, p.pc # "write"
      PROVE  WInv'
  <2>1. Good(p, candidate) /\ Clean(p)
    BY <1>1, <1>4 DEF Good, Clean
  <2> QED
    BY <1>2, <1>4, <2>1, WholeLocalStep
<1>5. ASSUME ReadLegacy(c) PROVE WInv'
  <2> DEFINE p == [o EXCEPT !.pc = IF o.at \in legacy THEN "migrate" ELSE "settle"]
  <2>1. op' = [op EXCEPT ![c] = p]
    BY <1>5 DEF ReadLegacy, Step
  <2>2. /\ p.record = o.record /\ p.tomb = o.tomb /\ p.result = o.result
        /\ p.pc # "write"
    BY <1>1 DEF Op
  <2> HIDE DEF p
  <2> QED
    BY <1>4, <2>1, <2>2
<1>6. ASSUME ListLegacyKeys(c) PROVE WInv'
  <2> DEFINE p == [o EXCEPT !.pc = "sweep", !.todo = legacy]
  <2>1. op' = [op EXCEPT ![c] = p]
    BY <1>6 DEF ListLegacyKeys, Step
  <2>2. /\ p.record = o.record /\ p.tomb = o.tomb /\ p.result = o.result
        /\ p.pc # "write"
    BY <1>1 DEF Op
  <2> HIDE DEF p
  <2> QED
    BY <1>4, <2>1, <2>2
<1> QED
  BY <1>3, <1>5, <1>6

(* A legacy record is installed and listed.                                  *)
LEMMA MigrationWhole ==
    ASSUME IInv, WInv, NEW c \in Clients, Migrate(c) \/ Sweep(c)
    PROVE  WInv'
<1> DEFINE o == op[c]
<1>1. /\ o \in Op /\ Fits(o, candidate) /\ Good(o, candidate) /\ Clean(o)
      /\ records \in [Threads -> Record \cup {None}]
  BY DEF IInv, WInv, SInv, Typed
<1>2. UNCHANGED candidate /\ Stays(candidate, candidate')
  BY DEF Migrate, Sweep, Elsewhere, Stays
<1>3. ASSUME NEW p, op' = [op EXCEPT ![c] = p], p.record = o.record,
             p.tomb = o.tomb, p.result = o.result, p.pc # "write",
             \/ UNCHANGED storeVars
             \/ \E t \in Threads : InstallLegacy(t)
      PROVE  WInv'
  <2>1. Good(p, candidate) /\ Clean(p)
    BY <1>1, <1>3 DEF Good, Clean
  <2>2. CASE UNCHANGED storeVars
    BY <1>2, <1>3, <2>1, <2>2, WholeLocalStep DEF storeVars
  <2>3. ASSUME NEW t \in Threads, InstallLegacy(t) PROVE WInv'
    <3>1. /\ records' = [records EXCEPT ![t] = Converted(t, nextRev[t])]
          /\ index' = index \cup {t} /\ UNCHANGED tombs
      BY <2>3 DEF InstallLegacy
    <3>2. \A u \in Threads : \/ records'[u] = records[u]
                             \/ Sound(records'[u], candidate')
      <4>1. Sound(Converted(t, nextRev[t]), candidate')
        <5>1. PastAttested(t, candidate')
          BY <1>1, <1>2 DEF WInv, SInv
        <5> QED
          BY <5>1, ConvertedSound
      <4> QED
        BY <1>1, <3>1, <4>1
    <3>3. \A u \in Threads : \/ /\ records'[u] = records[u] /\ tombs'[u] = tombs[u]
                                /\ u \in index => u \in index'
                             \/ u \in index'
      BY <1>1, <3>1
    <3>4. Good(p, candidate')
      BY <1>2, <2>1
    <3> QED
      BY <1>2, <1>3, <2>1, <3>2, <3>3, <3>4, WholeStep
  <2> QED
    BY <1>3, <2>2, <2>3
<1>4. \A q \in PCs \ {"write"} :
        LET p == [o EXCEPT !.pc = q]
        IN  /\ p.record = o.record /\ p.tomb = o.tomb /\ p.result = o.result
            /\ p.pc # "write"
  BY <1>1 DEF Op
<1>5. CASE Migrate(c)
  <2>1. o.at \in Threads
    BY <1>1, <1>5 DEF Migrate, Fits
  <2>2. \/ UNCHANGED storeVars
        \/ \E t \in Threads : InstallLegacy(t)
    BY <1>5, <2>1 DEF Migrate
  <2>3. PICK q \in {"reread", "settle"} : op' = [op EXCEPT ![c] = [o EXCEPT !.pc = q]]
    BY <1>5 DEF Migrate, Step
  <2> DEFINE p == [o EXCEPT !.pc = q]
  <2>4. /\ p.record = o.record /\ p.tomb = o.tomb /\ p.result = o.result
        /\ p.pc # "write"
    BY <1>4, <2>3 DEF PCs
  <2> HIDE DEF p
  <2> QED
    BY <1>3, <2>2, <2>3, <2>4 DEF p
<1>6. CASE Sweep(c)
  <2>1. o.todo \subseteq Threads /\ o.pc = "sweep"
    BY <1>1, <1>6 DEF Op, Sweep
  <2>2. \/ UNCHANGED storeVars
        \/ \E t \in Threads : InstallLegacy(t)
    BY <1>6, <2>1 DEF Sweep
  <2>3. CASE Step(c, [o EXCEPT !.pc = "loop", !.todo = index])
    <3> DEFINE p == [o EXCEPT !.pc = "loop", !.todo = index]
    <3>1. /\ p.record = o.record /\ p.tomb = o.tomb /\ p.result = o.result
          /\ p.pc # "write"
      BY <1>1 DEF Op
    <3>2. op' = [op EXCEPT ![c] = p]
      BY <2>3 DEF Step
    <3> HIDE DEF p
    <3> QED
      BY <1>3, <2>2, <3>1, <3>2
  <2>4. ASSUME NEW t \in o.todo, Step(c, [o EXCEPT !.todo = o.todo \ {t}])
        PROVE  WInv'
    <3> DEFINE p == [o EXCEPT !.todo = o.todo \ {t}]
    <3>1. /\ p.record = o.record /\ p.tomb = o.tomb /\ p.result = o.result
          /\ p.pc # "write"
      BY <1>1, <2>1 DEF Op
    <3>2. op' = [op EXCEPT ![c] = p]
      BY <2>4 DEF Step
    <3> HIDE DEF p
    <3> QED
      BY <1>3, <2>2, <3>1, <3>2
  <2> QED
    BY <1>6, <2>3, <2>4 DEF Sweep
<1> QED
  BY <1>5, <1>6

(* A purge takes record, tombstone and index entry in one transaction, a     *)
(* write and a deletion list what they store.                                *)
LEMMA WritingWhole ==
    ASSUME IInv, WInv, NEW c \in Clients,
           Purge(c) \/ Write(c) \/ WriteTombstone(c)
    PROVE  WInv'
<1> DEFINE o == op[c]
<1>1. /\ o \in Op /\ Fits(o, candidate) /\ Good(o, candidate) /\ Clean(o)
      /\ records \in [Threads -> Record \cup {None}]
      /\ tombs \in [Threads -> Nat \cup {None}]
      /\ candidate \in [TurnIds -> Candidate \cup {None}]
  BY DEF IInv, WInv, SInv, Typed
<1>2. /\ UNCHANGED candidate /\ Stays(candidate, candidate') /\ o.at \in Threads
  BY <1>1 DEF Purge, Write, WriteTombstone, Elsewhere, Stays, Fits
<1>3. \A t \in Threads : t # o.at =>
        records'[t] = records[t] /\ tombs'[t] = tombs[t] /\ (t \in index => t \in index')
  BY <1>1, <1>2 DEF Purge, Write, WriteTombstone, storeVars
<1>4. CASE Purge(c)
  <2>1. records'[o.at] = None /\ tombs'[o.at] = None /\ op' = [op EXCEPT ![c] = Decision(o)]
    BY <1>1, <1>2, <1>4 DEF Purge, Step
  <2>2. Good(Decision(o), candidate') /\ Clean(Decision(o))
    BY <1>1, <1>2, DecisionGood DEF Clean
  <2>3. Sound(None, candidate')
    BY DEF Sound
  <2> HIDE DEF o
  <2> QED
    BY <1>2, <1>3, <2>1, <2>2, <2>3, WholeStep
<1>5. CASE Write(c)
  <2>1. /\ Good(AfterWrite(o), candidate') /\ Clean(AfterWrite(o))
        /\ Good(AfterRefusal(o), candidate') /\ Clean(AfterRefusal(o))
    BY <1>1, <1>2, AfterwardsGood
  <2>2. CASE UNCHANGED storeVars /\ op' = [op EXCEPT ![c] = AfterRefusal(o)]
    BY <1>2, <2>1, <2>2, WholeLocalStep DEF storeVars
  <2>3. CASE /\ records' = [records EXCEPT ![o.at] = NewRecord(o)]
             /\ index' = index \cup {o.at}
             /\ op' = [op EXCEPT ![c] = AfterWrite(o)]
    <3>1. Sound(NewRecord(o), candidate')
      BY <1>2, <1>5, NewRecordSound DEF WInv, Write
    <3>2. records'[o.at] = NewRecord(o) /\ o.at \in index'
      BY <1>1, <1>2, <2>3
    <3> HIDE DEF o
    <3> QED
      BY <1>2, <1>3, <2>1, <2>3, <3>1, <3>2, WholeStep
  <2> QED
    BY <1>5, <2>2, <2>3 DEF Write, Step
<1>6. CASE WriteTombstone(c)
  <2>1. \A code \in {"removed", "revision_conflict"} :
          Good(Returned(code), candidate') /\ Clean(Returned(code))
    BY DEF Returned, Good, Sound, Clean
  <2>2. CASE UNCHANGED storeVars /\ op' = [op EXCEPT ![c] = Returned("revision_conflict")]
    BY <1>2, <2>1, <2>2, WholeLocalStep DEF storeVars
  <2>3. CASE /\ records' = [records EXCEPT ![o.at] = None]
             /\ index' = index \cup {o.at}
             /\ op' = [op EXCEPT ![c] = Returned("removed")]
    <3>1. Sound(None, candidate') /\ records'[o.at] = None /\ o.at \in index'
      BY <1>1, <1>2, <2>3 DEF Sound
    <3> HIDE DEF o
    <3> QED
      BY <1>2, <1>3, <2>1, <2>3, <3>1, WholeStep
  <2> QED
    BY <1>6, <2>2, <2>3 DEF WriteTombstone, Step
<1> QED
  BY <1>4, <1>5, <1>6

(* Every step keeps the second invariant, operations free of torn reads and  *)
(* the index complete.                                                       *)
LEMMA NextWhole ==
    ASSUME IInv, WInv, [Next]_vars
    PROVE  WInv'
<1>1. CASE UNCHANGED <<records, tombs, index, candidate, op>>
  <2>1. SInv'
    BY <1>1 DEF WInv, SInv
  <2>2. IndexComplete' /\ \A c \in Clients : Clean(op'[c])
    BY <1>1 DEF WInv, IndexComplete
  <2> QED
    BY <2>1, <2>2 DEF WInv
<1>2. CASE UNCHANGED vars \/ Tick \/ Rest
  BY <1>1, <1>2 DEF vars, storeVars, Tick, Rest
<1>3. ASSUME NEW c \in Clients, Start(c)
      PROVE  WInv'
  <2>1. candidate \in [TurnIds -> Candidate \cup {None}]
    BY DEF IInv, Typed
  <2>2. PICK o : Begin(c, o) /\ Fresh(o)
    BY <1>3, <2>1, StartBegins
  <2>3. Stays(candidate, candidate')
    BY <1>3, <2>1, StartBegins
  <2>4. UNCHANGED <<records, tombs, index>> /\ op' = [op EXCEPT ![c] = o]
    BY <2>2 DEF Begin
  <2>5. Good(o, candidate') /\ Clean(o)
    BY <2>2 DEF Fresh, Good, Sound, Clean
  <2> QED
    BY <2>3, <2>4, <2>5, WholeStep
<1>4. ASSUME NEW c \in Clients, Settle(c) \/ PickThread(c) \/ Interrupt(c)
      PROVE  WInv'
  <2>1. PICK p : /\ op' = [op EXCEPT ![c] = p] /\ Good(p, candidate)
                 /\ Clean(op[c]) => Clean(p)
    BY <1>4, SharedStepsMove DEF WInv
  <2>2. UNCHANGED <<records, tombs, index, candidate>> /\ Clean(p)
    BY <1>4, <2>1 DEF Settle, PickThread, Interrupt, storeVars, WInv
  <2> QED
    BY <2>1, <2>2, WholeLocalStep
<1> QED
  BY <1>2, <1>3, <1>4, ReadingWhole, MigrationWhole, WritingWhole DEF Next, Progress

(* The second invariant of the browser store: every stored or held thread is *)
(* one its schema accepts, no read is torn and the index is complete         *)
(* (indexeddb-thread-store.ts:39-109, thread-store-base.ts:57-95).           *)
THEOREM Wholeness == Spec => []WInv
<1>1. Init => WInv
  <2> SUFFICES ASSUME Init PROVE WInv
    OBVIOUS
  <2>1. IndexComplete
    BY DEF Init, IndexComplete
  <2> QED
    BY <2>1, InitSound DEF WInv
<1>2. IInv /\ WInv /\ [Next]_vars => WInv'
  BY NextWhole
<1> QED
  BY <1>1, <1>2, Invariance, PTL DEF Spec

(* Whatever turns, late activity and racing sources the tabs commit, the     *)
(* schema refuses a thread the policy builds only because the new turn does  *)
(* not belong to it: a turn it rests on is no longer there, or its own times,*)
(* citations or retry are not in order (commit-terminal-turn.ts:121-136).    *)
THEOREM ThreadsStayValid == Spec => []BuildsValidThreads
<1>1. IInv /\ WInv => BuildsValidThreads
  BY SoundConsequence DEF WInv
<1> QED
  BY <1>1, Invariance, Wholeness, PTL

(* No sequence of operations of any tabs makes liveState report corruption:  *)
(* one read transaction sees a thread and its tombstone together, and they   *)
(* are never both there (thread-store-base.ts:57-66,                         *)
(* indexeddb-thread-store.ts:39-50).                                         *)
THEOREM CorruptionIsReal == Spec => []NoFalseCorruption
<1>1. WInv => NoFalseCorruption
  BY DEF WInv, Clean, NoFalseCorruption
<1> QED
  BY <1>1, Wholeness, PTL

(* The index lists every thread and tombstone that is stored, after every    *)
(* write, deletion, purge and migration (indexeddb-thread-store.ts:58-109).  *)
THEOREM ListsAreComplete == Spec => []IndexComplete
<1>1. WInv => IndexComplete
  BY DEF WInv
<1> QED
  BY <1>1, Wholeness, PTL

-----------------------------------------------------------------------------
(* The browser store implements ThreadHistory.                               *)

(* A purge is under way only of a thread whose expiry was seen.              *)
PurgesAreDue == \A c \in Clients : op[c].pc = "purge" => op[c].at \in lapsed

(* Only liveState starts a purge, of a thread it has just found expired      *)
(* (thread-store-base.ts:57-66).                                             *)
LEMMA PurgesStayDue ==
    ASSUME IInv, PurgesAreDue, [Next]_vars
    PROVE  PurgesAreDue'
<1>1. op \in [Clients -> Op] /\ \A c \in Clients : Fits(op[c], candidate)
  BY DEF IInv
<1>2. ASSUME NEW c \in Clients, NEW p, op' = [op EXCEPT ![c] = p],
             lapsed \subseteq lapsed', p.pc = "purge" => p.at \in lapsed'
      PROVE  PurgesAreDue'
  <2>1. \A d \in Clients : op'[d] = IF d = c THEN p ELSE op[d]
    BY <1>1, <1>2
  <2> QED
    BY <1>2, <2>1 DEF PurgesAreDue
<1>3. CASE UNCHANGED vars \/ Tick \/ Rest
  BY <1>3 DEF vars, Tick, Rest, PurgesAreDue
<1>4. ASSUME NEW c \in Clients, Start(c) PROVE PurgesAreDue'
  <2>1. candidate \in [TurnIds -> Candidate \cup {None}]
    BY DEF IInv, Typed
  <2>2. PICK o : Begin(c, o) /\ Fresh(o)
    BY <1>4, <2>1, StartBegins
  <2> QED
    BY <1>2, <2>2 DEF Begin, Fresh
<1>5. ASSUME NEW c \in Clients, Settle(c) PROVE PurgesAreDue'
  <2> DEFINE o == op[c]
             q == [o EXCEPT !.pc = "purge", !.record = None, !.tomb = None]
  <2>1. q.at = o.at
    BY <1>1 DEF Op
  <2>2. CASE op' = [op EXCEPT ![c] = q] /\ lapsed' = lapsed \cup {o.at}
    <3> HIDE DEF q
    <3> QED
      BY <1>2, <2>1, <2>2
  <2>3. CASE UNCHANGED lapsed /\ op' = [op EXCEPT ![c] = Decision(o)]
    <3>1. Decision(o).pc # "purge"
      BY <1>1, DecisionPc
    <3> QED
      BY <1>2, <2>3, <3>1
  <2>4. CASE UNCHANGED lapsed /\ op' = [op EXCEPT ![c] = Returned("integrity_failure")]
    BY <1>2, <2>4 DEF Returned
  <2> QED
    BY <1>5, <2>2, <2>3, <2>4 DEF Settle
<1>6. ASSUME NEW c \in Clients, PickThread(c) \/ Interrupt(c) \/ (Progress(c) /\ ~Settle(c))
      PROVE  PurgesAreDue'
  <2> DEFINE o == op[c]
  <2>1. o \in Op /\ UNCHANGED lapsed
    BY <1>1, <1>6 DEF PickThread, Interrupt, Progress, Read, ReadLegacy, Migrate,
       ListLegacyKeys, Sweep, Purge, Write, WriteTombstone, Elsewhere
  <2>2. \A q \in PCs : [o EXCEPT !.pc = q].pc = q
    BY <2>1 DEF Op
  <2>3. ASSUME NEW p, op' = [op EXCEPT ![c] = p], p.pc # "purge"
        PROVE  PurgesAreDue'
    BY <1>2, <2>1, <2>3
  <2>4. ASSUME NEW code, op' = [op EXCEPT ![c] = Returned(code)]
        PROVE  PurgesAreDue'
    <3>1. Returned(code).pc # "purge"
      BY DEF Returned
    <3> QED
      BY <2>3, <2>4, <3>1
  <2>5. PurgesAreDue'
    <3>1. CASE PickThread(c)
      <4>1. CASE op' = [op EXCEPT ![c] = Returned("ok")]
        BY <2>4, <4>1
      <4>2. ASSUME NEW t,
                   op' = [op EXCEPT ![c] = Reading([o EXCEPT !.at = t,
                                                      !.todo = o.todo \ {t}])]
            PROVE  PurgesAreDue'
        <5> DEFINE p == Reading([o EXCEPT !.at = t, !.todo = o.todo \ {t}])
        <5>1. p.pc = "read"
          BY <2>1 DEF Op, Reading
        <5>2. op' = [op EXCEPT ![c] = p]
          BY <4>2
        <5> HIDE DEF p
        <5> QED
          BY <2>3, <5>1, <5>2
      <4>3. \/ op' = [op EXCEPT ![c] = Returned("ok")]
            \/ \E t : op' = [op EXCEPT ![c] = Reading([o EXCEPT !.at = t,
                                                         !.todo = o.todo \ {t}])]
        BY <3>1 DEF PickThread
      <4> HIDE DEF o
      <4> QED
        BY <4>1, <4>2, <4>3
    <3>2. CASE Interrupt(c)
      BY <2>4, <3>2 DEF Interrupt
    <3>3. CASE Read(c)
      <4> DEFINE p == [o EXCEPT !.record = records[o.at], !.tomb = tombs[o.at],
                         !.pc = IF /\ o.pc = "read"
                                   /\ records[o.at] = None /\ tombs[o.at] = None
                                THEN "legacy" ELSE "settle"]
      <4>1. p.pc # "purge"
        BY <2>1 DEF Op
      <4>2. op' = [op EXCEPT ![c] = p]
        BY <3>3 DEF Read, Step
      <4> HIDE DEF p
      <4> QED
        BY <2>3, <4>1, <4>2
    <3>4. CASE ReadLegacy(c) \/ Migrate(c)
      <4>1. PICK q \in {"migrate", "settle", "reread"} :
              op' = [op EXCEPT ![c] = [o EXCEPT !.pc = q]]
        BY <3>4 DEF ReadLegacy, Migrate, Step
      <4> DEFINE p == [o EXCEPT !.pc = q]
      <4>2. p.pc # "purge" /\ op' = [op EXCEPT ![c] = p]
        BY <2>2, <4>1 DEF PCs
      <4> HIDE DEF p
      <4> QED
        BY <2>3, <4>2
    <3>5. CASE ListLegacyKeys(c) \/ Sweep(c)
      <4>1. ASSUME NEW q \in {"sweep", "loop"}, NEW S,
                   op' = [op EXCEPT ![c] = [o EXCEPT !.pc = q, !.todo = S]]
            PROVE  PurgesAreDue'
        <5> DEFINE p == [o EXCEPT !.pc = q, !.todo = S]
        <5>1. p.pc # "purge" /\ op' = [op EXCEPT ![c] = p]
          BY <2>1, <4>1 DEF Op
        <5> HIDE DEF p
        <5> QED
          BY <2>3, <5>1
      <4>2. ASSUME NEW S, o.pc = "sweep", op' = [op EXCEPT ![c] = [o EXCEPT !.todo = S]]
            PROVE  PurgesAreDue'
        <5> DEFINE p == [o EXCEPT !.todo = S]
        <5>1. p.pc # "purge" /\ op' = [op EXCEPT ![c] = p]
          BY <2>1, <4>2 DEF Op
        <5> HIDE DEF p
        <5> QED
          BY <2>3, <5>1
      <4> QED
        BY <3>5, <4>1, <4>2 DEF ListLegacyKeys, Sweep, Step
    <3>6. CASE Purge(c)
      BY <2>1, <2>3, <3>6, DecisionPc DEF Purge, Step
    <3>7. CASE Write(c)
      <4>1. AfterWrite(o).pc # "purge" /\ AfterRefusal(o).pc # "purge"
        <5>1. NextThread(o).pc = "loop" /\ Returned("committed").pc = "idle"
          BY <2>1 DEF NextThread, Returned, Op
        <5>2. Reading([o EXCEPT !.again = TRUE]).pc = "read"
          BY <2>1 DEF Reading, Op
        <5> QED
          BY <5>1, <5>2 DEF AfterWrite, AfterRefusal
      <4>2. \/ op' = [op EXCEPT ![c] = AfterWrite(o)]
            \/ op' = [op EXCEPT ![c] = AfterRefusal(o)]
        BY <3>7 DEF Write, Step
      <4> QED
        BY <2>3, <4>1, <4>2
    <3>8. CASE WriteTombstone(c)
      <4>1. \/ op' = [op EXCEPT ![c] = Returned("removed")]
            \/ op' = [op EXCEPT ![c] = Returned("revision_conflict")]
        BY <3>8 DEF WriteTombstone, Step
      <4> QED
        BY <2>4, <4>1
    <3> QED
      BY <1>6, <3>1, <3>2, <3>3, <3>4, <3>5, <3>6, <3>7, <3>8 DEF Progress
  <2> QED
    BY <2>5
<1> QED
  BY <1>3, <1>4, <1>5, <1>6 DEF Next, Progress

(* A record that a write accepts to replace is the one its operation holds.  *)
LEMMA AcceptedIsStored ==
    ASSUME IInv, NEW c \in Clients, op[c].at \in Threads, Accepts(op[c])
    PROVE  records[op[c].at] = op[c].record
<1> DEFINE o == op[c]
<1>1. /\ o \in Op /\ Genuine(o, records, nextRev)
      /\ records[o.at] \in Record \cup {None} /\ o.record \in Record \cup {None}
      /\ StoredRevision(o.at) = SeenRevision(o)
  BY DEF IInv, Typed, Op, Accepts
<1>2. \A r \in Record : r.rev # 0
  BY DEF Record
<1>3. CASE records[o.at] = None
  BY <1>1, <1>2, <1>3 DEF StoredRevision, SeenRevision
<1>4. CASE records[o.at] # None
  <2>1. o.record # None /\ o.record.rev = records[o.at].rev
    BY <1>1, <1>2, <1>4 DEF StoredRevision, SeenRevision
  <2> QED
    BY <1>1, <1>4, <2>1 DEF Genuine
<1> QED
  BY <1>3, <1>4

(* Every step of the browser store is one of ThreadHistory.                  *)
LEMMA StepMaps ==
    ASSUME IInv, IInv', WInv, PurgesAreDue, [Next]_vars
    PROVE  History!Next
<1>1. /\ records \in [Threads -> Record \cup {None}]
      /\ tombs \in [Threads -> Nat \cup {None}]
      /\ op \in [Clients -> Op] /\ \A c \in Clients : Fits(op[c], candidate)
      /\ lapsed' \subseteq Threads
      /\ candidate \in [TurnIds -> Candidate \cup {None}]
  BY DEF IInv, Typed
<1>2. ASSUME UNCHANGED <<records, tombs>>, lapsed \subseteq lapsed'
      PROVE  History!Next
  BY <1>1, <1>2, MapsRetire DEF History!Next
<1>3. CASE UNCHANGED vars \/ Tick \/ Rest
  BY <1>2, <1>3 DEF vars, storeVars, Tick, Rest
<1>4. ASSUME NEW c \in Clients, Start(c)
      PROVE  History!Next
  <2>1. PICK o : Begin(c, o)
    BY <1>1, <1>4, StartBegins
  <2> QED
    BY <1>2, <2>1 DEF Begin
<1>5. ASSUME NEW c \in Clients,
             \/ Settle(c) \/ PickThread(c) \/ Interrupt(c)
             \/ Read(c) \/ ReadLegacy(c) \/ ListLegacyKeys(c)
      PROVE  History!Next
  <2>1. UNCHANGED <<records, tombs>> /\ lapsed \subseteq lapsed'
    BY <1>5 DEF Settle, PickThread, Interrupt, Read, ReadLegacy, ListLegacyKeys,
       Elsewhere, storeVars
  <2> QED
    BY <1>2, <2>1
<1>6. ASSUME NEW c \in Clients, Migrate(c) \/ Sweep(c)
      PROVE  History!Next
  <2>1. UNCHANGED lapsed
    BY <1>6 DEF Migrate, Sweep, Elsewhere
  <2>2. ASSUME NEW t \in Threads, CanMigrate(t), InstallLegacy(t)
        PROVE  History!Next
    <3> DEFINE r == Converted(t, nextRev[t])
    <3>1. records' = [records EXCEPT ![t] = r] /\ UNCHANGED tombs
      BY <2>2 DEF InstallLegacy
    <3>2. r \in Record /\ r.turns = Legacy[t].turns /\ r.catalog = Legacy[t].catalog
      <4>1. nextRev[t] \in Nat \ {0}
        BY DEF IInv, Typed
      <4> QED
        BY <4>1, ConvertedType DEF Converted, AsConverted
    <3> HIDE DEF r
    <3>3. records'[t] = r /\ r # None
      BY <1>1, <3>1, <3>2, NoneAssumption
    <3>4. OthersStay(t)
      BY <1>1, <3>1 DEF OthersStay
    <3>5. History!Migrate(t)
      BY <2>1, <2>2, <3>2, <3>3, <3>4, MapsMigrate DEF CanMigrate
    <3> QED
      BY <3>5 DEF History!Next
  <2>3. \/ UNCHANGED storeVars
        \/ \E t \in Threads : CanMigrate(t) /\ InstallLegacy(t)
    <3>1. op[c].pc = "migrate" => op[c].at \in Threads
      BY <1>1 DEF Fits
    <3>2. op[c].todo \subseteq Threads
      BY <1>1 DEF Op
    <3> QED
      BY <1>6, <3>1, <3>2 DEF Migrate, Sweep
  <2> QED
    BY <1>2, <2>1, <2>2, <2>3 DEF storeVars
<1>7. ASSUME NEW c \in Clients, Purge(c)
      PROVE  History!Next
  <2>1. /\ records' = [records EXCEPT ![op[c].at] = None]
        /\ tombs' = [tombs EXCEPT ![op[c].at] = None] /\ UNCHANGED lapsed
    BY <1>7 DEF Purge, Elsewhere
  <2>2. op[c].at \in lapsed
    BY <1>7 DEF Purge, PurgesAreDue
  <2>3. History!Retire
    BY <1>1, <2>1, <2>2, MapsRetire
  <2> QED
    BY <2>3 DEF History!Next
<1>8. ASSUME NEW c \in Clients, Write(c)
      PROVE  History!Next
  <2> DEFINE o == op[c]
  <2>1. o.pc = "write" /\ o.at \in Threads /\ o.kind \in {"commit", "import"}
    BY <1>1, <1>8 DEF Write, Fits
  <2>2. UNCHANGED lapsed
    BY <1>8 DEF Write, Elsewhere
  <2>3. CASE UNCHANGED storeVars
    BY <1>2, <2>2, <2>3 DEF storeVars
  <2>4. CASE /\ Accepts(o)
             /\ records' = [records EXCEPT ![o.at] = NewRecord(o)]
             /\ tombs' = IF ClearsTombstone(o) THEN [tombs EXCEPT ![o.at] = None]
                         ELSE tombs
    <3> PICK t \in Threads : t = o.at
      BY <2>1
    <3> DEFINE new == NewRecord(o)
    <3>1. records'[t] = new /\ OthersStay(t)
      BY <1>1, <2>1, <2>4 DEF OthersStay
    <3>2. new # None
      BY <1>1, <2>1, NewRecordType, NoneAssumption
    <3>3. CASE o.kind = "import"
      <4>1. new.turns = Backup[t].turns /\ new.catalog = Backup[t].catalog
        BY <3>3 DEF NewRecord, Imported
      <4> HIDE DEF new
      <4>2. History!Import(t)
        BY <2>2, <3>1, <3>2, <4>1, MapsImport
      <4> QED
        BY <4>2 DEF History!Next
    <3>4. CASE o.kind = "commit"
      <4> PICK input : input = InputWith(o, candidate)
        OBVIOUS
      <4>1. records[t] = o.record /\ records[t] \in Record \cup {None}
        BY <1>1, <2>1, <2>4, AcceptedIsStored
      <4>2. tombs[t] = None
        BY <2>4, <3>4 DEF Accepts, ClearsTombstone
      <4>3. input.turn \in Turn /\ input.supplied \in Seq(Sources)
        BY <1>1, <3>4, InputTyped
      <4>4. Good(o, candidate)
        BY DEF WInv, SInv
      <4>5. Verdict(records[t], o.tomb # None, input) = "committed"
        BY <2>1, <3>4, <4>1, <4>4 DEF Good
      <4>6. records[t] # None => ValidThread(records[t])
        BY <4>1, <4>4 DEF Good, Sound
      <4> PICK rev : rev = nextRev[t]
        OBVIOUS
      <4>7. new = Extended(records[t], input, rev)
        BY <3>4, <4>1 DEF NewRecord, InputOf, InputWith
      <4>8. /\ records[t] # None => SameTurn(records[t], input.turn) = {}
            /\ SourcesClosed(records[t], input)
        BY <4>5, CommittedMeans
      <4> HIDE DEF new, o
      <4>9. records'[t] # None /\ records'[t] = Extended(records[t], input, rev)
        BY <3>1, <3>2, <4>7
      <4>10. History!Admit(t)
        BY <2>2, <3>1, <4>1, <4>2, <4>3, <4>6, <4>8, <4>9, MapsAdmit
      <4> QED
        BY <4>10 DEF History!Next
    <3> QED
      BY <2>1, <3>3, <3>4
  <2> QED
    BY <1>8, <2>3, <2>4 DEF Write
<1>9. ASSUME NEW c \in Clients, WriteTombstone(c)
      PROVE  History!Next
  <2> DEFINE o == op[c]
  <2>1. o.at \in Threads /\ UNCHANGED lapsed
    BY <1>1, <1>9 DEF WriteTombstone, Fits, Elsewhere
  <2>2. CASE UNCHANGED storeVars
    BY <1>2, <2>1, <2>2 DEF storeVars
  <2>3. CASE /\ Buries(o)
             /\ records' = [records EXCEPT ![o.at] = None]
             /\ tombs' = [tombs EXCEPT ![o.at] = ThreadExpiryAt(o.time)]
    <3> PICK t \in Threads : t = o.at
      BY <2>1
    <3> PICK x : x = ThreadExpiryAt(o.time)
      OBVIOUS
    <3>1. x # None
      <4>1. x \in Nat
        BY <1>1, RetentionAssumption DEF Op, ThreadExpiryAt
      <4> QED
        BY <4>1, NoneAssumption
    <3>2. /\ OthersStay(t) /\ records[t] # None
          /\ records'[t] = None /\ tombs'[t] # None
      BY <1>1, <2>1, <2>3, <3>1 DEF OthersStay, Buries
    <3>3. History!Remove(t)
      BY <2>1, <3>2, MapsRemove
    <3> QED
      BY <3>3 DEF History!Next
  <2> QED
    BY <1>9, <2>2, <2>3 DEF WriteTombstone
<1> QED
  BY <1>3, <1>4, <1>5, <1>6, <1>7, <1>8, <1>9 DEF Next, Progress

(* The empty database, legacy records included, is the empty history.        *)
LEMMA InitMaps ==
    ASSUME Init
    PROVE  History!Init
<1>1. \A t \in Threads : /\ records[t] = None /\ tombs[t] = None
                         /\ StateOf(t) = "absent"
  BY StateCases DEF Init
<1>2. \A t \in Threads : /\ CurrentTurns(records[t]) = <<>>
                         /\ CurrentCatalog(records[t]) = EmptyCatalog
  BY <1>1 DEF CurrentTurns, CurrentCatalog
<1>3. ToSet(<<>>) = {}
  BY DEF ToSet
<1>4. lapsed = {}
  BY DEF Init
<1> QED
  BY <1>1, <1>2, <1>3, <1>4 DEF History!Init, EmptyCatalog, Ids

(* The browser store implements ThreadHistory: whatever tabs interleave, until *)
(* a thread first outlives its retention every change to it is the admission   *)
(* of one turn with its sources numbered after the earlier ones, a removal, an *)
(* import or the migration of a legacy record.  The compare-and-set of a write *)
(* makes what was computed from a copy a step of the present state             *)
(* (indexeddb-thread-store.ts:58-109).                                         *)
THEOREM Refinement == Spec => RefinesHistory
<1>1. Init => PurgesAreDue
  BY DEF Init, PurgesAreDue, Returned
<1>2. IInv /\ PurgesAreDue /\ [Next]_vars => PurgesAreDue'
  BY PurgesStayDue
<1>3. IInv /\ IInv' /\ WInv /\ PurgesAreDue /\ [Next]_vars => [History!Next]_History!vars
  BY StepMaps
<1>4. Init => History!Init
  BY InitMaps
<1> QED
  BY <1>1, <1>2, <1>3, <1>4, Invariance, Wholeness, PTL DEF Spec, RefinesHistory, History!Spec
=============================================================================

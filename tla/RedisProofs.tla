----------------------------- MODULE RedisProofs -----------------------------
(***************************************************************************)
(* Theorems on the server adapter of the thread store, for any number of   *)
(* request handlers, threads, turns and sources.  What is proved anew is   *)
(* what differs from the browser adapter: reads and purges in two          *)
(* commands, values that are written past their expiry, and keys that      *)
(* Redis drops while operations are under way.                             *)
(***************************************************************************)
EXTENDS RedisThreadStore, ThreadStoreProofs

-----------------------------------------------------------------------------
(* Redis drops the keys that reach their expiry, of all threads at once; no  *)
(* operation moves, and each keeps a record that was genuine.                *)
LEMMA ClockKeeps ==
    ASSUME IInv, Tick
    PROVE  IInv'
<1>1. /\ records \in [Threads -> Record \cup {None}]
      /\ tombs \in [Threads -> Nat \cup {None}]
      /\ nextRev \in [Threads -> Nat \ {0}]
      /\ now \in Nat /\ lapsed \in SUBSET Threads
  BY DEF IInv, Typed
<1>2. /\ UNCHANGED <<index, legacy, nextRev, candidate, started, op>>
      /\ now' = now + 1
      /\ records' \in [Threads -> Record \cup {None}]
      /\ tombs' \in [Threads -> Nat \cup {None}]
  BY <1>1 DEF Tick
<1>3. \A t \in Threads : /\ records'[t] = records[t] \/ records'[t] = None
                         /\ tombs'[t] = tombs[t] \/ tombs'[t] = None
  BY DEF Tick
<1>4. lapsed' \in SUBSET Threads
  BY <1>1 DEF Tick
<1>5. Typed'
  BY <1>1, <1>2, <1>4 DEF IInv, Typed
<1>6. OneFace'
  BY <1>3 DEF IInv, OneFace
<1>7. Drawn'
  BY <1>2, <1>3 DEF IInv, Drawn
<1>8. Evolves(records, nextRev, candidate, records', nextRev', candidate')
  BY <1>1, <1>2, <1>3 DEF Evolves
<1>9. \A c \in Clients : /\ Fits(op'[c], candidate')
                         /\ Genuine(op'[c], records', nextRev')
  <2> SUFFICES ASSUME NEW c \in Clients
               PROVE  /\ Fits(op[c], candidate')
                      /\ Genuine(op[c], records', nextRev')
    BY <1>2
  <2>1. Fits(op[c], candidate) /\ Genuine(op[c], records, nextRev)
    BY DEF IInv
  <2>2. nextRev' \in [Threads -> Nat \ {0}]
    BY <1>1, <1>2
  <2> QED
    BY <1>1, <1>2, <1>8, <2>1, <2>2, OthersKeep
<1> QED
  BY <1>2, <1>5, <1>6, <1>7, <1>9 DEF IInv

-----------------------------------------------------------------------------
(* Steps that read.  A record that was fetched before its tombstone stays    *)
(* genuine while the other command is served.                                *)
LEMMA ReadingKeeps ==
    ASSUME IInv, NEW c \in Clients,
           \/ GetRecord(c) \/ GetTombstone(c)
           \/ GetLegacy(c) \/ ListLegacyIndex(c)
    PROVE  IInv'
<1> DEFINE o == op[c]
<1>1. /\ o \in Op /\ Fits(o, candidate) /\ Genuine(o, records, nextRev)
      /\ now \in Nat /\ started \in Nat /\ lapsed \in SUBSET Threads
  BY DEF IInv, Typed
<1>2. /\ UNCHANGED <<records, tombs, index, legacy, nextRev, candidate>>
      /\ UNCHANGED <<now, started, lapsed>>
  BY DEF GetRecord, GetTombstone, GetLegacy, ListLegacyIndex, Elsewhere, storeVars
<1>3. ASSUME GetRecord(c) PROVE IInv'
  <2> DEFINE pc == CASE o.pc = "read"   -> "getTomb"
                     [] o.pc = "reread" -> "regetTomb"
                     [] OTHER -> IF /\ o.pc = "getRecord"
                                    /\ records[o.at] = None /\ o.tomb = None
                                 THEN "legacy" ELSE "settle"
             p == [o EXCEPT !.record = records[o.at], !.pc = pc]
  <2>1. o.at \in Threads /\ op' = [op EXCEPT ![c] = p]
    BY <1>1, <1>3 DEF GetRecord, Step, Fits
  <2>2. records[o.at] \in Record \cup {None}
    BY <2>1 DEF IInv, Typed
  <2>3. /\ pc \in {"getTomb", "regetTomb", "legacy", "settle"}
        /\ pc = "legacy" => records[o.at] = None
    OBVIOUS
  <2> HIDE DEF pc
  <2>4. /\ p \in Op /\ p.at = o.at /\ p.record = records[o.at]
        /\ p.pc = pc /\ p.kind = o.kind /\ p.turn = o.turn
    BY <1>1, <2>2, <2>3, ZenonT(40) DEF Op, PCs
  <2> HIDE DEF p
  <2>5. Fits(p, candidate)
    BY <1>1, <2>1, <2>3, <2>4 DEF Fits
  <2>6. Genuine(p, records, nextRev)
    BY <2>1, <2>4 DEF IInv, Drawn, Genuine
  <2> QED
    BY <1>1, <1>2, <2>1, <2>5, <2>6, LocalStep
<1>4. ASSUME GetTombstone(c) PROVE IInv'
  <2> DEFINE pc == CASE o.pc = "read"   -> "getRecord"
                     [] o.pc = "reread" -> "regetRecord"
                     [] OTHER -> IF /\ o.pc = "getTomb"
                                    /\ tombs[o.at] = None /\ o.record = None
                                 THEN "legacy" ELSE "settle"
             p == [o EXCEPT !.tomb = tombs[o.at], !.pc = pc]
  <2>1. o.at \in Threads /\ op' = [op EXCEPT ![c] = p]
    BY <1>1, <1>4 DEF GetTombstone, Step, Fits
  <2>2. tombs[o.at] \in Nat \cup {None}
    BY <2>1 DEF IInv, Typed
  <2>3. /\ pc \in {"getRecord", "regetRecord", "legacy", "settle"}
        /\ pc = "legacy" => o.record = None
    <3>1. CASE o.pc = "read"
      <4>1. pc = "getRecord"
        BY <3>1
      <4> QED
        BY <4>1
    <3>2. CASE o.pc = "reread"
      <4>1. o.pc # "read"
        BY <3>2
      <4>2. pc = "regetRecord"
        BY <3>2, <4>1
      <4> QED
        BY <4>2
    <3>3. CASE o.pc \notin {"read", "reread"}
      <4>1. pc = IF /\ o.pc = "getTomb"
                    /\ tombs[o.at] = None /\ o.record = None
                 THEN "legacy" ELSE "settle"
        BY <3>3
      <4> QED
        BY <4>1
    <3> QED
      BY <3>1, <3>2, <3>3
  <2> HIDE DEF pc
  <2>4. /\ p \in Op /\ p.at = o.at /\ p.record = o.record
        /\ p.pc = pc /\ p.kind = o.kind /\ p.turn = o.turn
    <3>1. o \in Op /\ pc \in PCs
      BY <1>1, <2>3 DEF PCs
    <3> QED
      BY <2>2, <3>1 DEF Op
  <2> HIDE DEF p
  <2>5. Fits(p, candidate) /\ Genuine(p, records, nextRev)
    BY <1>1, <2>1, <2>3, <2>4 DEF Fits, Genuine
  <2> QED
    BY <1>1, <1>2, <2>1, <2>5, LocalStep
<1>5. ASSUME GetLegacy(c) PROVE IInv'
  <2> DEFINE p == [o EXCEPT !.pc = IF o.at \in legacy THEN "migrate" ELSE "settle"]
  <2>1. o.at \in Threads /\ o.record = None /\ op' = [op EXCEPT ![c] = p]
    BY <1>1, <1>5 DEF GetLegacy, Step, Fits
  <2>2. /\ p \in Op /\ p.at = o.at /\ p.record = o.record
        /\ p.pc \in {"migrate", "settle"} /\ p.kind = o.kind /\ p.turn = o.turn
    BY <1>1 DEF Op, PCs
  <2> HIDE DEF p
  <2>3. Fits(p, candidate) /\ Genuine(p, records, nextRev)
    BY <1>1, <2>1, <2>2 DEF Fits, Genuine
  <2> QED
    BY <1>1, <1>2, <2>1, <2>3, LocalStep
<1>6. ASSUME ListLegacyIndex(c) PROVE IInv'
  <2> DEFINE p == [o EXCEPT !.pc = "sweep", !.todo = legacy]
  <2>1. op' = [op EXCEPT ![c] = p] /\ legacy \in SUBSET Threads /\ o.record = None
    BY <1>1, <1>6 DEF ListLegacyIndex, Step, Fits, IInv, Typed
  <2>2. /\ p \in Op /\ p.at = o.at /\ p.record = o.record
        /\ p.pc = "sweep" /\ p.kind = o.kind /\ p.turn = o.turn
    BY <1>1, <2>1, ZenonT(40) DEF Op, PCs
  <2> HIDE DEF p
  <2>3. Fits(p, candidate) /\ Genuine(p, records, nextRev)
    BY <1>1, <2>1, <2>2 DEF Fits, Genuine
  <2> QED
    BY <1>1, <1>2, <2>1, <2>3, LocalStep
<1> QED
  BY <1>3, <1>4, <1>5, <1>6

-----------------------------------------------------------------------------
(* Steps that write.                                                         *)

(* The migration script runs while an operation that holds no record moves   *)
(* on; a legacy record past its expiry does not stay.                        *)
LEMMA ScriptKeeps ==
    ASSUME IInv, NEW c \in Clients, NEW o, NEW t \in Threads,
           CanMigrate(t), MigrateRecord(t), UNCHANGED lapsed, Elsewhere,
           op' = [op EXCEPT ![c] = o], Fits(o, candidate), o.record = None
    PROVE  IInv'
<1> DEFINE r == Kept(Converted(t, nextRev[t]), LegacyExpiry)
           n == nextRev[t] + 1
<1>1. /\ nextRev[t] \in Nat \ {0} /\ index \in SUBSET Threads
      /\ legacy \in SUBSET Threads /\ lapsed \in SUBSET Threads
      /\ tombs \in [Threads -> Nat \cup {None}]
      /\ nextRev \in [Threads -> Nat \ {0}]
  BY DEF IInv, Typed
<1>2. r \in Record \cup {None} /\ (r # None => r.rev = nextRev[t])
  BY <1>1, ConvertedType DEF Kept
<1>3. n \in Nat /\ nextRev[t] <= n /\ nextRev[t] < n
  BY <1>1
<1>4. /\ records' = [records EXCEPT ![t] = r]
      /\ nextRev' = [nextRev EXCEPT ![t] = n]
      /\ index' = index \cup {t} /\ legacy' = legacy \ {t} /\ tombs' = tombs
  BY <1>1 DEF MigrateRecord
<1>5. tombs' = [tombs EXCEPT ![t] = None]
  BY <1>1, <1>4 DEF CanMigrate
<1>6. /\ index' \in SUBSET Threads /\ legacy' \in SUBSET Threads
      /\ lapsed' \in SUBSET Threads
      /\ UNCHANGED <<now, candidate, started>>
  BY <1>1, <1>4 DEF Elsewhere
<1> HIDE DEF r, n
<1> QED
  BY <1>2, <1>3, <1>4, <1>5, <1>6, ThreadStep

(* A migration keeps the first invariant.                                    *)
LEMMA MigrationKeeps ==
    ASSUME IInv, NEW c \in Clients, Migrate(c) \/ Sweep(c)
    PROVE  IInv'
<1> DEFINE o == op[c]
<1>1. /\ o \in Op /\ Fits(o, candidate) /\ Genuine(o, records, nextRev)
      /\ now \in Nat /\ started \in Nat /\ lapsed \in SUBSET Threads
      /\ index \in SUBSET Threads
  BY DEF IInv, Typed
<1>2. ASSUME UNCHANGED <<storeVars, nextRev>>, UNCHANGED lapsed, Elsewhere
      PROVE  /\ UNCHANGED <<records, tombs, index, legacy, nextRev, candidate>>
             /\ now' \in Nat /\ started' \in Nat /\ lapsed' \in SUBSET Threads
  BY <1>1, <1>2 DEF storeVars, Elsewhere
<1>3. ASSUME Migrate(c) PROVE IInv'
  <2>1. /\ o.pc = "migrate" /\ o.at \in Threads /\ o.record = None
        /\ Elsewhere /\ UNCHANGED lapsed
    BY <1>1, <1>3 DEF Migrate, Fits
  <2>2. ASSUME NEW pc \in {"reread", "settle"}
        PROVE  /\ Fits([o EXCEPT !.pc = pc], candidate)
               /\ Genuine([o EXCEPT !.pc = pc], records, nextRev)
               /\ [o EXCEPT !.pc = pc].record = None
    <3> DEFINE p == [o EXCEPT !.pc = pc]
    <3>1. /\ p \in Op /\ p.at = o.at /\ p.record = None
          /\ p.pc = pc /\ p.kind = o.kind /\ p.turn = o.turn
      BY <1>1, <2>1 DEF Op, PCs
    <3> HIDE DEF p
    <3>2. Fits(p, candidate) /\ Genuine(p, records, nextRev) /\ p.record = None
      BY <1>1, <2>1, <3>1 DEF Fits, Genuine
    <3> QED
      BY <3>2 DEF p
  <2>3. CASE /\ CanMigrate(o.at) /\ MigrateRecord(o.at)
             /\ Step(c, [o EXCEPT !.pc = "reread"])
    BY <2>1, <2>2, <2>3, ScriptKeeps DEF Step
  <2>4. CASE /\ Step(c, [o EXCEPT !.pc = "settle"])
             /\ UNCHANGED <<storeVars, nextRev>>
    BY <1>2, <2>1, <2>2, <2>4, LocalStep DEF Step
  <2> QED
    BY <1>3, <2>3, <2>4 DEF Migrate
<1>4. ASSUME Sweep(c) PROVE IInv'
  <2>1. o.pc = "sweep" /\ o.record = None /\ Elsewhere /\ UNCHANGED lapsed
    BY <1>1, <1>4 DEF Sweep, Fits
  <2>2. CASE /\ Step(c, [o EXCEPT !.pc = "loop", !.todo = index])
             /\ UNCHANGED <<storeVars, nextRev>>
    <3> DEFINE p == [o EXCEPT !.pc = "loop", !.todo = index]
    <3>1. /\ p \in Op /\ p.at = o.at /\ p.record = None
          /\ p.pc = "loop" /\ p.kind = o.kind /\ p.turn = o.turn
      BY <1>1, <2>1, ZenonT(40) DEF Op, PCs
    <3>2. op' = [op EXCEPT ![c] = p]
      BY <2>2 DEF Step
    <3> HIDE DEF p
    <3>3. Fits(p, candidate) /\ Genuine(p, records, nextRev)
      BY <1>1, <3>1 DEF Fits, Genuine
    <3> QED
      BY <1>2, <2>1, <2>2, <3>2, <3>3, LocalStep
  <2>3. ASSUME NEW t \in o.todo,
               Step(c, [o EXCEPT !.todo = o.todo \ {t}]),
               IF CanMigrate(t) THEN MigrateRecord(t)
               ELSE UNCHANGED <<storeVars, nextRev>>
        PROVE  IInv'
    <3> DEFINE p == [o EXCEPT !.todo = o.todo \ {t}]
    <3>1. /\ p \in Op /\ p.at = o.at /\ p.record = None /\ t \in Threads
          /\ p.pc = "sweep" /\ p.kind = o.kind /\ p.turn = o.turn
      BY <1>1, <2>1 DEF Op
    <3>2. op' = [op EXCEPT ![c] = p]
      BY <2>3 DEF Step
    <3> HIDE DEF p
    <3>3. Fits(p, candidate) /\ Genuine(p, records, nextRev)
      BY <1>1, <3>1 DEF Fits, Genuine
    <3>4. CASE CanMigrate(t)
      BY <2>1, <2>3, <3>1, <3>2, <3>3, <3>4, ScriptKeeps
    <3>5. CASE ~CanMigrate(t)
      BY <1>2, <2>1, <2>3, <3>2, <3>3, <3>5, LocalStep
    <3> QED
      BY <3>4, <3>5
  <2> QED
    BY <1>4, <2>2, <2>3 DEF Sweep
<1> QED
  BY <1>3, <1>4

(* The two halves of a purge: the keys go, then the index entry; the         *)
(* operation goes on without a record.                                       *)
LEMMA PurgeKeeps ==
    ASSUME IInv, NEW c \in Clients, Delete(c) \/ RemoveFromIndex(c)
    PROVE  IInv'
<1> DEFINE o == op[c]
<1>1. /\ o \in Op /\ Fits(o, candidate) /\ now \in Nat /\ started \in Nat
      /\ lapsed \in SUBSET Threads /\ index \in SUBSET Threads
      /\ legacy \in SUBSET Threads /\ nextRev \in [Threads -> Nat \ {0}]
  BY DEF IInv, Typed
<1>2. o.at \in Threads /\ o.record = None
  BY <1>1 DEF Delete, RemoveFromIndex, Fits
<1>3. CASE Delete(c)
  <2> DEFINE p == [o EXCEPT !.pc = "unindex"]
  <2>1. /\ p \in Op /\ p.at = o.at /\ p.record = None
        /\ p.pc = "unindex" /\ p.kind = o.kind /\ p.turn = o.turn
    <3>1. p \in Op
      <4>1. "unindex" \in PCs
        BY DEF PCs
      <4> QED
        BY <1>1, <4>1 DEF Op
    <3>2. /\ p.at = o.at /\ p.record = None /\ p.pc = "unindex"
          /\ p.kind = o.kind /\ p.turn = o.turn
      BY <1>1, <1>2 DEF Op
    <3> QED
      BY <3>1, <3>2
  <2>2. /\ records' = [records EXCEPT ![o.at] = None]
        /\ tombs' = [tombs EXCEPT ![o.at] = None]
        /\ index' \in SUBSET Threads /\ legacy' \in SUBSET Threads
        /\ lapsed' \in SUBSET Threads
        /\ UNCHANGED <<now, candidate, started>>
        /\ op' = [op EXCEPT ![c] = p]
    BY <1>1, <1>3 DEF Delete, Step, Elsewhere
  <2>3. /\ nextRev' = [nextRev EXCEPT ![o.at] = nextRev[o.at]]
        /\ nextRev[o.at] \in Nat /\ nextRev[o.at] <= nextRev[o.at]
    BY <1>1, <1>2, <1>3 DEF Delete
  <2> HIDE DEF p
  <2>4. Fits(p, candidate)
    BY <1>1, <1>2, <2>1 DEF Fits
  <2> HIDE DEF o
  <2> QED
    BY <1>2, <2>1, <2>2, <2>3, <2>4, ThreadStep
<1>4. CASE RemoveFromIndex(c)
  <2>1. Fits(Decision(o), candidate) /\ Decision(o).record = None
    BY <1>1, <1>2, DecisionFits
  <2>2. /\ UNCHANGED <<records, tombs, legacy, nextRev, candidate, now, started, lapsed>>
        /\ index' \in SUBSET Threads
        /\ op' = [op EXCEPT ![c] = Decision(o)]
    BY <1>1, <1>4 DEF RemoveFromIndex, Step, Elsewhere
  <2>3. Typed' /\ OneFace' /\ Drawn'
    BY <2>2 DEF IInv, Typed, OneFace, Drawn
  <2>4. Evolves(records, nextRev, candidate, records', nextRev', candidate')
    BY <1>1, <2>2 DEF Evolves
  <2>5. Fits(Decision(o), candidate') /\ Genuine(Decision(o), records', nextRev')
    BY <2>1, <2>2 DEF Genuine
  <2> HIDE DEF o
  <2> QED
    BY <2>2, <2>3, <2>4, <2>5, StepKeeps
<1> QED
  BY <1>3, <1>4

(* A write takes place only if the stored revision is the one read and no    *)
(* tombstone is left; what is written past its expiry is gone at once.       *)
LEMMA WriteKeeps ==
    ASSUME IInv, NEW c \in Clients, WriteRecord(c)
    PROVE  IInv'
<1> DEFINE o == op[c]
           new == NewRecord(o)
<1>1. /\ o \in Op /\ Fits(o, candidate) /\ now \in Nat /\ started \in Nat
      /\ lapsed \in SUBSET Threads /\ index \in SUBSET Threads
      /\ legacy \in SUBSET Threads /\ nextRev \in [Threads -> Nat \ {0}]
      /\ tombs \in [Threads -> Nat \cup {None}]
  BY DEF IInv, Typed
<1>2. o.pc = "write" /\ o.at \in Threads /\ Elsewhere
  BY <1>1 DEF WriteRecord, Fits
<1>3. /\ Fits(AfterWrite(o), candidate) /\ AfterWrite(o).record = None
      /\ Fits(AfterRefusal(o), candidate) /\ AfterRefusal(o).record = None
  BY <1>1, <1>2, AfterwardsFits
<1>4. CASE /\ Accepts(o)
           /\ records' = [records EXCEPT ![o.at] = Kept(new, new.expiresAt)]
           /\ tombs' = IF ClearsTombstone(o) THEN [tombs EXCEPT ![o.at] = None]
                       ELSE tombs
           /\ index' = index \cup {o.at}
           /\ nextRev' = [nextRev EXCEPT ![o.at] = @ + 1]
           /\ lapsed' = IF IsExpired(new.expiresAt) THEN lapsed \cup {o.at}
                        ELSE lapsed
           /\ UNCHANGED legacy
           /\ Step(c, AfterWrite(o))
  <2> DEFINE r == Kept(new, new.expiresAt)
             n == nextRev[o.at] + 1
  <2>1. new \in Record /\ new.rev = nextRev[o.at]
    BY <1>1, <1>2, NewRecordType
  <2>2. r \in Record \cup {None} /\ (r # None => r.rev = nextRev[o.at])
    BY <2>1 DEF Kept
  <2>3. /\ n \in Nat /\ nextRev[o.at] <= n /\ nextRev[o.at] < n
        /\ nextRev' = [nextRev EXCEPT ![o.at] = n]
    BY <1>1, <1>2, <1>4
  <2>4. tombs' = [tombs EXCEPT ![o.at] = None]
    BY <1>1, <1>2, <1>4 DEF Accepts
  <2>5. lapsed' \in SUBSET Threads
    BY <1>1, <1>2, <1>4
  <2>6. /\ index' \in SUBSET Threads /\ legacy' \in SUBSET Threads
        /\ UNCHANGED <<now, candidate, started>>
        /\ records' = [records EXCEPT ![o.at] = r]
        /\ op' = [op EXCEPT ![c] = AfterWrite(o)]
    BY <1>1, <1>2, <1>4 DEF Elsewhere, Step
  <2> HIDE DEF r, n, o
  <2> QED
    BY <1>2, <1>3, <2>2, <2>3, <2>4, <2>5, <2>6, ThreadStep
<1>5. CASE /\ UNCHANGED <<storeVars, nextRev, lapsed>>
           /\ Step(c, AfterRefusal(o))
  <2>1. /\ UNCHANGED <<records, tombs, index, legacy, nextRev, candidate>>
        /\ now' \in Nat /\ started' \in Nat /\ lapsed' \in SUBSET Threads
        /\ op' = [op EXCEPT ![c] = AfterRefusal(o)]
    BY <1>1, <1>2, <1>5 DEF storeVars, Elsewhere, Step
  <2>2. Genuine(AfterRefusal(o), records, nextRev)
    BY <1>3 DEF Genuine
  <2> QED
    BY <1>3, <2>1, <2>2, LocalStep
<1> QED
  BY <1>4, <1>5 DEF WriteRecord

(* A tombstone, if it is not past its own expiry, takes the place of the     *)
(* record the caller has read.                                               *)
LEMMA WriteTombstoneKeeps ==
    ASSUME IInv, NEW c \in Clients, WriteTombstone(c)
    PROVE  IInv'
<1> DEFINE o == op[c]
<1>1. /\ o \in Op /\ Fits(o, candidate) /\ now \in Nat /\ started \in Nat
      /\ lapsed \in SUBSET Threads /\ index \in SUBSET Threads
      /\ legacy \in SUBSET Threads /\ nextRev \in [Threads -> Nat \ {0}]
  BY DEF IInv, Typed
<1>2. /\ o.pc = "bury" /\ o.at \in Threads /\ Elsewhere
      /\ UNCHANGED <<legacy, nextRev>> /\ lapsed' \in SUBSET Threads
  BY <1>1 DEF WriteTombstone, Fits
<1>3. \A code \in {"removed", "revision_conflict"} :
         /\ Fits(Returned(code), candidate) /\ Returned(code).record = None
         /\ Genuine(Returned(code), records, nextRev)
  BY ReturnedFits DEF Codes, Genuine
<1>4. CASE /\ records' = [records EXCEPT ![o.at] = None]
           /\ tombs' = [tombs EXCEPT ![o.at] =
                          Kept(ThreadExpiryAt(o.time), ThreadExpiryAt(o.time))]
           /\ index' = index \cup {o.at}
           /\ Step(c, Returned("removed"))
  <2> DEFINE x == Kept(ThreadExpiryAt(o.time), ThreadExpiryAt(o.time))
  <2>1. x \in Nat \cup {None}
    BY <1>1, RetentionAssumption DEF Op, ThreadExpiryAt, Kept
  <2>2. /\ nextRev' = [nextRev EXCEPT ![o.at] = nextRev[o.at]]
        /\ nextRev[o.at] \in Nat /\ nextRev[o.at] <= nextRev[o.at]
    BY <1>1, <1>2
  <2>3. /\ index' \in SUBSET Threads /\ legacy' \in SUBSET Threads
        /\ lapsed' \in SUBSET Threads /\ UNCHANGED <<now, candidate, started>>
        /\ tombs' = [tombs EXCEPT ![o.at] = x]
        /\ op' = [op EXCEPT ![c] = Returned("removed")]
    BY <1>1, <1>2, <1>4 DEF Elsewhere, Step
  <2> HIDE DEF x, o
  <2> QED
    BY <1>2, <1>3, <1>4, <2>1, <2>2, <2>3, ThreadStep
<1>5. CASE /\ UNCHANGED <<records, tombs, index>>
           /\ Step(c, Returned("revision_conflict"))
  <2>1. /\ UNCHANGED <<records, tombs, index, legacy, nextRev, candidate>>
        /\ now' \in Nat /\ started' \in Nat /\ lapsed' \in SUBSET Threads
        /\ op' = [op EXCEPT ![c] = Returned("revision_conflict")]
    BY <1>1, <1>2, <1>5 DEF Elsewhere, Step
  <2> QED
    BY <1>3, <2>1, LocalStep
<1> QED
  BY <1>4, <1>5 DEF WriteTombstone

-----------------------------------------------------------------------------
(* Every step keeps the invariant.                                           *)
LEMMA NextKeeps ==
    ASSUME IInv, [Next]_vars
    PROVE  IInv'
<1>1. CASE UNCHANGED vars
  BY <1>1 DEF IInv, vars, Typed, OneFace, Drawn
<1>2. CASE Tick
  BY <1>2, ClockKeeps
<1>3. CASE Rest
  BY <1>1, <1>3 DEF Rest
<1>4. ASSUME NEW c \in Clients, Start(c) \/ Progress(c) \/ Interrupt(c)
      PROVE  IInv'
  <2>1. CASE Start(c)
    BY <2>1, StartKeeps
  <2>2. CASE Progress(c)
    BY <2>2, ReadingKeeps, MigrationKeeps, SharedStepsKeep, PurgeKeeps,
       WriteKeeps, WriteTombstoneKeeps DEF Progress
  <2>3. CASE Interrupt(c)
    BY <2>3, SharedStepsKeep
  <2> QED
    BY <1>4, <2>1, <2>2, <2>3
<1> QED
  BY <1>1, <1>2, <1>3, <1>4 DEF Next

(* The invariant of the browser store is one of this store as well           *)
(* (redis-thread-store.ts:8-112).                                            *)
THEOREM Invariance == Spec => []IInv
<1>1. Init => IInv
  BY InitHolds
<1>2. IInv /\ [Next]_vars => IInv'
  BY NextKeeps
<1> QED
  BY <1>1, <1>2, PTL DEF Spec

(* The state keeps its types.                                                *)
THEOREM TypeCorrect == Spec => []TypeOK
BY Invariance, Consequences, PTL

(* No thread is ever stored both as a record and as a tombstone, although    *)
(* the handlers read the two keys one by one and purge without a script      *)
(* (redis-thread-store.ts:72-130).                                           *)
THEOREM DeletionExcludesStorage == Spec => []OneFace
BY Invariance, Consequences, PTL

(* A handler whose copy carries the stored revision holds the stored record, *)
(* also when Redis has dropped and a client has rewritten the key meanwhile: *)
(* the scripts' comparison of revisions is one of records.                   *)
THEOREM CompareAndSetSound == Spec => []RevisionsIdentify
BY Invariance, Consequences, PTL

-----------------------------------------------------------------------------
(* No committed turn is lost.                                                *)

(* A thread that stays stored is extended or left alone by every step, an    *)
(* import's apart.                                                           *)
LEMMA StepExtends ==
    ASSUME IInv, [Next]_vars, NEW t \in Threads,
           records[t] # None, records'[t] # None, ~ReplacesThread(t)
    PROVE  Extends(records[t], records'[t])
<1>1. Extends(records[t], records[t])
  BY DEF Extends
<1>2. records \in [Threads -> Record \cup {None}]
  BY DEF IInv, Typed
<1>3. CASE UNCHANGED records
  BY <1>1, <1>3
<1>4. CASE Tick
  <2>1. records'[t] = records[t]
    BY <1>4 DEF Tick
  <2> QED
    BY <1>1, <2>1
<1>5. ASSUME NEW c \in Clients, Migrate(c) \/ Sweep(c)
      PROVE  Extends(records[t], records'[t])
  <2>1. ASSUME NEW u, CanMigrate(u), MigrateRecord(u)
        PROVE  records'[t] = records[t]
    BY <1>2, <2>1 DEF CanMigrate, MigrateRecord
  <2>2. records'[t] = records[t]
    BY <1>5, <2>1 DEF Migrate, Sweep, storeVars
  <2> QED
    BY <1>1, <2>2
<1>6. ASSUME NEW c \in Clients, Delete(c) \/ WriteTombstone(c)
      PROVE  Extends(records[t], records'[t])
  <2>1. records'[t] = records[t]
    BY <1>2, <1>6 DEF Delete, WriteTombstone
  <2> QED
    BY <1>1, <2>1
<1>7. ASSUME NEW c \in Clients, WriteRecord(c)
      PROVE  Extends(records[t], records'[t])
  <2> DEFINE o == op[c]
  <2>1. /\ o \in Op /\ Fits(o, candidate) /\ Genuine(o, records, nextRev)
        /\ o.pc = "write"
    BY <1>7 DEF IInv, WriteRecord
  <2>2. o.at \in Threads /\ o.kind \in {"commit", "import"}
    BY <2>1 DEF Fits
  <2>3. CASE records' = records \/ o.at # t
    <3>1. records'[t] = records[t]
      BY <1>2, <1>7, <2>3 DEF WriteRecord, storeVars
    <3> QED
      BY <1>1, <3>1
  <2>4. CASE records' # records /\ o.at = t
    <3>1. /\ Accepts(o)
          /\ records' = [records EXCEPT ![t] = Kept(NewRecord(o), NewRecord(o).expiresAt)]
      BY <1>7, <2>4 DEF WriteRecord, storeVars
    <3>2. o.kind = "commit"
      BY <2>1, <2>2, <2>4 DEF ReplacesThread
    <3>3. records[t] \in Record /\ records[t].rev \in Nat \ {0}
      BY <1>2 DEF Record
    <3>4. o.record = records[t]
      <4>1. o.record # None /\ o.record.rev = records[t].rev
        BY <2>4, <3>1, <3>3 DEF Accepts, StoredRevision, SeenRevision
      <4> QED
        BY <2>1, <2>4, <4>1 DEF Genuine
    <3>5. InputOf(o).turn \in Turn /\ InputOf(o).supplied \in Seq(Sources)
      <4>1. o.turn \in TurnIds /\ candidate[o.turn].finishedAt \in Nat
        BY <2>1, <3>2 DEF Fits, IInv, Typed, Candidate
      <4> QED
        BY <2>1, <4>1 DEF InputOf, Turn, Op
    <3>6. Extends(records[t], Extended(records[t], InputOf(o), nextRev[t]))
      BY <3>3, <3>5, ExtendedExtends
    <3>7. records'[t] = NewRecord(o)
      BY <1>2, <3>1 DEF Kept
    <3>8. NewRecord(o) = Extended(records[t], InputOf(o), nextRev[t])
      BY <2>4, <3>2, <3>4 DEF NewRecord
    <3> QED
      BY <3>6, <3>7, <3>8
  <2> QED
    BY <2>3, <2>4
<1>8. CASE UNCHANGED vars \/ Rest
  <2>1. UNCHANGED records
    BY <1>8 DEF vars, Rest
  <2> QED
    BY <1>3, <2>1
<1>9. ASSUME NEW c \in Clients, Start(c)
      PROVE  Extends(records[t], records'[t])
  <2>1. ASSUME NEW o, Begin(c, o) PROVE UNCHANGED records
    BY <2>1 DEF Begin
  <2>2. UNCHANGED records
    BY <1>9, <2>1 DEF Start, StartLoad, StartList, StartCommit, StartRemove,
       StartImport
  <2> QED
    BY <1>3, <2>2
<1>10. ASSUME NEW c \in Clients,
              \/ Interrupt(c) \/ Settle(c) \/ PickThread(c) \/ GetRecord(c)
              \/ GetTombstone(c) \/ GetLegacy(c) \/ ListLegacyIndex(c)
              \/ RemoveFromIndex(c)
      PROVE  Extends(records[t], records'[t])
  <2>1. UNCHANGED records
    BY <1>10 DEF storeVars, Interrupt, Settle, PickThread, GetRecord, GetTombstone,
       GetLegacy, ListLegacyIndex, RemoveFromIndex
  <2> QED
    BY <1>3, <2>1
<1> QED
  BY <1>4, <1>5, <1>6, <1>7, <1>8, <1>9, <1>10 DEF Next, Progress

(* No commit computed by a handler on a stale copy overwrites a turn that    *)
(* another one committed, and no source's ordinal moves, unless an import    *)
(* replaces the thread (thread-store-base.ts:85-95, redis-thread-store.ts).  *)
THEOREM NoLostTurn == Spec => CommitsOnlyExtend
<1>1. IInv /\ [Next]_vars =>
        [\A t \in Threads :
           (/\ records[t] # None /\ records'[t] # None
            /\ ~ReplacesThread(t))
           => Extends(records[t], records'[t])]_vars
  BY StepExtends
<1> QED
  BY <1>1, Invariance, PTL DEF Spec, CommitsOnlyExtend

-----------------------------------------------------------------------------
(* Soundness.                                                                *)

(* A read of one key, and a step that keeps what it holds.                   *)
LEMMA ReadingSound ==
    ASSUME IInv, SInv, NEW c \in Clients,
           \/ GetRecord(c) \/ GetTombstone(c)
           \/ GetLegacy(c) \/ ListLegacyIndex(c)
    PROVE  SInv'
<1> DEFINE o == op[c]
<1>1. o \in Op /\ Fits(o, candidate) /\ Good(o, candidate)
  BY DEF IInv, SInv
<1>2. UNCHANGED <<records, candidate>>
  BY DEF GetRecord, GetTombstone, GetLegacy, ListLegacyIndex, Elsewhere, storeVars
<1>3. ASSUME NEW p, op' = [op EXCEPT ![c] = p], p.result = o.result,
             p.pc # "write",
             p.record = o.record \/ (o.at \in Threads /\ p.record = records[o.at])
      PROVE  SInv'
  <2>1. Good(p, candidate)
    BY <1>1, <1>3 DEF Good, SInv
  <2> QED
    BY <1>2, <1>3, <2>1, SoundLocalStep
<1>4. ASSUME GetRecord(c) PROVE SInv'
  <2> DEFINE pc == CASE o.pc = "read"   -> "getTomb"
                     [] o.pc = "reread" -> "regetTomb"
                     [] OTHER -> IF /\ o.pc = "getRecord"
                                    /\ records[o.at] = None /\ o.tomb = None
                                 THEN "legacy" ELSE "settle"
             p == [o EXCEPT !.record = records[o.at], !.pc = pc]
  <2>1. o.at \in Threads /\ op' = [op EXCEPT ![c] = p]
    BY <1>1, <1>4 DEF GetRecord, Step, Fits
  <2>2. pc # "write"
    OBVIOUS
  <2> HIDE DEF pc
  <2>3. p.record = records[o.at] /\ p.result = o.result /\ p.pc # "write"
    BY <1>1, <2>2 DEF Op
  <2> HIDE DEF p
  <2> QED
    BY <1>3, <2>1, <2>3
<1>5. ASSUME GetTombstone(c) PROVE SInv'
  <2> DEFINE pc == CASE o.pc = "read"   -> "getRecord"
                     [] o.pc = "reread" -> "regetRecord"
                     [] OTHER -> IF /\ o.pc = "getTomb"
                                    /\ tombs[o.at] = None /\ o.record = None
                                 THEN "legacy" ELSE "settle"
             p == [o EXCEPT !.tomb = tombs[o.at], !.pc = pc]
  <2>1. op' = [op EXCEPT ![c] = p]
    BY <1>5 DEF GetTombstone, Step
  <2>2. pc # "write"
    OBVIOUS
  <2> HIDE DEF pc
  <2>3. p.record = o.record /\ p.result = o.result /\ p.pc # "write"
    BY <1>1, <2>2 DEF Op
  <2> HIDE DEF p
  <2> QED
    BY <1>3, <2>1, <2>3
<1>6. ASSUME GetLegacy(c) PROVE SInv'
  <2> DEFINE p == [o EXCEPT !.pc = IF o.at \in legacy THEN "migrate" ELSE "settle"]
  <2>1. op' = [op EXCEPT ![c] = p]
    BY <1>6 DEF GetLegacy, Step
  <2>2. p.record = o.record /\ p.result = o.result /\ p.pc # "write"
    BY <1>1 DEF Op
  <2> HIDE DEF p
  <2> QED
    BY <1>3, <2>1, <2>2
<1>7. ASSUME ListLegacyIndex(c) PROVE SInv'
  <2> DEFINE p == [o EXCEPT !.pc = "sweep", !.todo = legacy]
  <2>1. op' = [op EXCEPT ![c] = p]
    BY <1>7 DEF ListLegacyIndex, Step
  <2>2. p.record = o.record /\ p.result = o.result /\ p.pc # "write"
    BY <1>1 DEF Op
  <2> HIDE DEF p
  <2> QED
    BY <1>3, <2>1, <2>2
<1> QED
  BY <1>4, <1>5, <1>6, <1>7

(* A legacy record is installed, or dropped by Redis at once.                *)
LEMMA MigrationSound ==
    ASSUME IInv, SInv, NEW c \in Clients, Migrate(c) \/ Sweep(c)
    PROVE  SInv'
<1> DEFINE o == op[c]
<1>1. /\ o \in Op /\ Fits(o, candidate) /\ Good(o, candidate)
      /\ records \in [Threads -> Record \cup {None}]
  BY DEF IInv, SInv, Typed
<1>2. UNCHANGED candidate /\ Stays(candidate, candidate')
  BY DEF Migrate, Sweep, Elsewhere, Stays
<1>3. \A t \in Threads : records'[t] = records[t] \/ Sound(records'[t], candidate')
  <2>1. ASSUME NEW u \in Threads, MigrateRecord(u)
        PROVE  \A t \in Threads : records'[t] = records[t] \/ Sound(records'[t], candidate')
    <3> DEFINE r == Kept(Converted(u, nextRev[u]), LegacyExpiry)
    <3>1. Sound(r, candidate')
      <4>1. Sound(Converted(u, nextRev[u]), candidate') /\ Sound(None, candidate')
        <5>1. PastAttested(u, candidate')
          BY <1>2 DEF SInv
        <5> QED
          BY <5>1, ConvertedSound DEF Sound
      <4> QED
        BY <4>1 DEF Kept
    <3>2. records' = [records EXCEPT ![u] = r]
      BY <2>1 DEF MigrateRecord
    <3> HIDE DEF r
    <3> QED
      BY <1>1, <3>1, <3>2
  <2>2. op[c].at \in Threads \/ op[c].pc # "migrate"
    BY <1>1 DEF Fits
  <2>3. op[c].todo \subseteq Threads
    BY <1>1 DEF Op
  <2> QED
    BY <2>1, <2>2, <2>3 DEF Migrate, Sweep, storeVars
<1>4. ASSUME NEW p, op' = [op EXCEPT ![c] = p], p.result = o.result,
             p.pc # "write", p.record = o.record
      PROVE  SInv'
  <2>1. Good(p, candidate')
    BY <1>1, <1>2, <1>4 DEF Good
  <2> QED
    BY <1>2, <1>3, <1>4, <2>1, SoundStep
<1>5. CASE Migrate(c)
  <2>1. PICK q \in {"reread", "settle"} : op' = [op EXCEPT ![c] = [o EXCEPT !.pc = q]]
    BY <1>5 DEF Migrate, Step
  <2> DEFINE p == [o EXCEPT !.pc = q]
  <2>2. p.record = o.record /\ p.result = o.result /\ p.pc # "write"
    BY <1>1, <2>1 DEF Op
  <2> HIDE DEF p
  <2> QED
    BY <1>4, <2>1, <2>2 DEF p
<1>6. CASE Sweep(c)
  <2>1. CASE Step(c, [o EXCEPT !.pc = "loop", !.todo = index])
    <3> DEFINE p == [o EXCEPT !.pc = "loop", !.todo = index]
    <3>1. p.record = o.record /\ p.result = o.result /\ p.pc # "write"
      BY <1>1 DEF Op
    <3>2. op' = [op EXCEPT ![c] = p]
      BY <2>1 DEF Step
    <3> HIDE DEF p
    <3> QED
      BY <1>4, <3>1, <3>2
  <2>2. ASSUME NEW t \in o.todo, Step(c, [o EXCEPT !.todo = o.todo \ {t}])
        PROVE  SInv'
    <3> DEFINE p == [o EXCEPT !.todo = o.todo \ {t}]
    <3>1. p.record = o.record /\ p.result = o.result /\ p.pc # "write"
      BY <1>1, <1>6 DEF Op, Sweep
    <3>2. op' = [op EXCEPT ![c] = p]
      BY <2>2 DEF Step
    <3> HIDE DEF p
    <3> QED
      BY <1>4, <3>1, <3>2
  <2> QED
    BY <1>6, <2>1, <2>2 DEF Sweep
<1> QED
  BY <1>5, <1>6

(* The commands that write.                                                  *)
LEMMA WritingSound ==
    ASSUME IInv, SInv, NEW c \in Clients,
           \/ Delete(c) \/ RemoveFromIndex(c)
           \/ WriteRecord(c) \/ WriteTombstone(c)
    PROVE  SInv'
<1> DEFINE o == op[c]
<1>1. /\ o \in Op /\ Fits(o, candidate) /\ Good(o, candidate)
      /\ records \in [Threads -> Record \cup {None}]
      /\ candidate \in [TurnIds -> Candidate \cup {None}]
  BY DEF IInv, SInv, Typed
<1>2. UNCHANGED candidate /\ Stays(candidate, candidate')
  BY DEF Delete, RemoveFromIndex, WriteRecord, WriteTombstone, Elsewhere, Stays
<1>3. Sound(None, candidate')
  BY DEF Sound
<1>4. CASE Delete(c)
  <2> DEFINE p == [o EXCEPT !.pc = "unindex"]
  <2>1. p.record = o.record /\ p.result = o.result /\ p.pc # "write"
    BY <1>1 DEF Op
  <2>2. records' = [records EXCEPT ![o.at] = None] /\ op' = [op EXCEPT ![c] = p]
    BY <1>4 DEF Delete, Step
  <2> HIDE DEF p
  <2>3. Good(p, candidate')
    BY <1>1, <1>2, <2>1 DEF Good
  <2>4. \A t \in Threads : records'[t] = records[t] \/ Sound(records'[t], candidate')
    BY <1>1, <1>3, <2>2
  <2> QED
    BY <1>2, <2>2, <2>3, <2>4, SoundStep
<1>5. CASE RemoveFromIndex(c)
  <2>1. Good(Decision(o), candidate)
    BY <1>1, DecisionGood
  <2>2. UNCHANGED records /\ op' = [op EXCEPT ![c] = Decision(o)]
    BY <1>5 DEF RemoveFromIndex, Step
  <2> QED
    BY <1>2, <2>1, <2>2, SoundLocalStep
<1>6. CASE WriteRecord(c)
  <2>1. Good(AfterWrite(o), candidate') /\ Good(AfterRefusal(o), candidate')
    BY <1>1, <1>2, AfterwardsGood
  <2>2. CASE UNCHANGED records /\ op' = [op EXCEPT ![c] = AfterRefusal(o)]
    BY <1>2, <2>1, <2>2, SoundLocalStep
  <2>3. CASE /\ records' = [records EXCEPT ![o.at] =
                              Kept(NewRecord(o), NewRecord(o).expiresAt)]
             /\ op' = [op EXCEPT ![c] = AfterWrite(o)]
    <3>1. Sound(NewRecord(o), candidate')
      BY <1>2, <1>6, NewRecordSound DEF WriteRecord
    <3>2. \A t \in Threads : records'[t] = records[t] \/ Sound(records'[t], candidate')
      BY <1>1, <1>3, <2>3, <3>1 DEF Kept
    <3> HIDE DEF o
    <3> QED
      BY <1>2, <2>1, <2>3, <3>2, SoundStep
  <2> QED
    BY <1>6, <2>2, <2>3 DEF WriteRecord, Step, storeVars
<1>7. CASE WriteTombstone(c)
  <2>1. \A code \in {"removed", "revision_conflict"} : Good(Returned(code), candidate')
    BY DEF Returned, Good, Sound
  <2>2. PICK code \in {"removed", "revision_conflict"} :
           op' = [op EXCEPT ![c] = Returned(code)]
    BY <1>7 DEF WriteTombstone, Step
  <2>3. \A t \in Threads : records'[t] = records[t] \/ Sound(records'[t], candidate')
    BY <1>1, <1>3, <1>7 DEF WriteTombstone
  <2> QED
    BY <1>2, <2>1, <2>2, <2>3, SoundStep
<1> QED
  BY <1>4, <1>5, <1>6, <1>7

(* Every step keeps the second invariant.                                    *)
LEMMA NextSound ==
    ASSUME IInv, SInv, [Next]_vars
    PROVE  SInv'
<1>1. CASE UNCHANGED vars \/ Rest
  BY <1>1 DEF vars, Rest, SInv
<1>2. CASE Tick
  <2>1. UNCHANGED <<candidate, op>>
    BY <1>2 DEF Tick
  <2>2. \A t \in Threads : records'[t] = records[t] \/ records'[t] = None
    BY <1>2 DEF Tick
  <2>3. \A t \in Threads : Sound(records'[t], candidate')
    BY <2>1, <2>2 DEF SInv, Sound
  <2> QED
    BY <2>1, <2>3 DEF SInv
<1>3. ASSUME NEW c \in Clients, Start(c) \/ Progress(c) \/ Interrupt(c)
      PROVE  SInv'
  BY <1>3, StartSound, SharedStepsSound, ReadingSound, MigrationSound,
     WritingSound DEF Progress
<1> QED
  BY <1>1, <1>2, <1>3 DEF Next

(* The second invariant of the Redis store: every stored or held thread is   *)
(* one its schema accepts, although keys are read one by one and may be      *)
(* dropped between two reads (redis-thread-store.ts:72-112).                 *)
THEOREM Soundness == Spec => []SInv
<1>1. Init => SInv
  BY InitSound
<1>2. IInv /\ SInv /\ [Next]_vars => SInv'
  BY NextSound
<1> QED
  BY <1>1, <1>2, Invariance, PTL DEF Spec

(* Also when Redis drops and clients rewrite keys between a read and the     *)
(* commit it decides, the schema refuses a thread the policy builds only     *)
(* because the new turn does not belong to it (thread-store-base.ts:85-95,   *)
(* commit-terminal-turn.ts:121-136).                                         *)
THEOREM ThreadsStayValid == Spec => []BuildsValidThreads
<1>1. IInv /\ SInv => BuildsValidThreads
  BY SoundConsequence
<1> QED
  BY <1>1, Invariance, Soundness, PTL

-----------------------------------------------------------------------------
(* The Redis store implements ThreadHistory.                                 *)

(* A purge is under way only of a thread whose expiry was seen.              *)
PurgesAreDue == \A c \in Clients : op[c].pc = "purge" => op[c].at \in lapsed

(* Only liveState starts a purge, of a thread it has just found expired      *)
(* (thread-store-base.ts:57-66).                                             *)
LEMMA PurgesStayDue ==
    ASSUME IInv, PurgesAreDue, [Next]_vars
    PROVE  PurgesAreDue'
<1>1. op \in [Clients -> Op] /\ \A c \in Clients : Fits(op[c], candidate)
  BY DEF IInv
<1>2. ASSUME NEW c \in Clients, NEW p, op' = [op EXCEPT ![c] = p],
             lapsed \subseteq lapsed', p.pc = "purge" => p.at \in lapsed'
      PROVE  PurgesAreDue'
  <2>1. \A d \in Clients : op'[d] = IF d = c THEN p ELSE op[d]
    BY <1>1, <1>2
  <2> QED
    BY <1>2, <2>1 DEF PurgesAreDue
<1>3. CASE UNCHANGED vars \/ Tick \/ Rest
  BY <1>3 DEF vars, Tick, Rest, PurgesAreDue
<1>4. ASSUME NEW c \in Clients, Start(c) PROVE PurgesAreDue'
  <2>1. candidate \in [TurnIds -> Candidate \cup {None}]
    BY DEF IInv, Typed
  <2>2. PICK o : Begin(c, o) /\ Fresh(o)
    BY <1>4, <2>1, StartBegins
  <2> QED
    BY <1>2, <2>2 DEF Begin, Fresh
<1>5. ASSUME NEW c \in Clients, Settle(c) PROVE PurgesAreDue'
  <2> DEFINE o == op[c]
             q == [o EXCEPT !.pc = "purge", !.record = None, !.tomb = None]
  <2>1. q.at = o.at
    BY <1>1 DEF Op
  <2>2. CASE op' = [op EXCEPT ![c] = q] /\ lapsed' = lapsed \cup {o.at}
    <3> HIDE DEF q
    <3> QED
      BY <1>2, <2>1, <2>2
  <2>3. CASE UNCHANGED lapsed /\ op' = [op EXCEPT ![c] = Decision(o)]
    <3>1. Decision(o).pc # "purge"
      BY <1>1, DecisionPc
    <3> QED
      BY <1>2, <2>3, <3>1
  <2>4. CASE UNCHANGED lapsed /\ op' = [op EXCEPT ![c] = Returned("integrity_failure")]
    BY <1>2, <2>4 DEF Returned
  <2> QED
    BY <1>5, <2>2, <2>3, <2>4 DEF Settle
<1>6. ASSUME NEW c \in Clients, PickThread(c) \/ Interrupt(c) \/ (Progress(c) /\ ~Settle(c))
      PROVE  PurgesAreDue'
  <2> DEFINE o == op[c]
  <2>1. o \in Op /\ lapsed \subseteq lapsed'
    BY <1>1, <1>6 DEF PickThread, Interrupt, Progress, GetRecord, GetTombstone,
       GetLegacy, Migrate, ListLegacyIndex, Sweep, Delete, RemoveFromIndex,
       WriteRecord, WriteTombstone
  <2>2. \A q \in PCs : [o EXCEPT !.pc = q].pc = q
    BY <2>1 DEF Op
  <2>3. ASSUME NEW p, op' = [op EXCEPT ![c] = p], p.pc # "purge"
        PROVE  PurgesAreDue'
    BY <1>2, <2>1, <2>3
  <2>4. ASSUME NEW code, op' = [op EXCEPT ![c] = Returned(code)]
        PROVE  PurgesAreDue'
    <3>1. Returned(code).pc # "purge"
      BY DEF Returned
    <3> QED
      BY <2>3, <2>4, <3>1
  <2>5. PurgesAreDue'
    <3>1. CASE PickThread(c)
      <4>1. CASE op' = [op EXCEPT ![c] = Returned("ok")]
        BY <2>4, <4>1
      <4>2. ASSUME NEW t,
                   op' = [op EXCEPT ![c] = Reading([o EXCEPT !.at = t,
                                                      !.todo = o.todo \ {t}])]
            PROVE  PurgesAreDue'
        <5> DEFINE p == Reading([o EXCEPT !.at = t, !.todo = o.todo \ {t}])
        <5>1. p.pc = "read"
          BY <2>1 DEF Op, Reading
        <5>2. op' = [op EXCEPT ![c] = p]
          BY <4>2
        <5> HIDE DEF p
        <5> QED
          BY <2>3, <5>1, <5>2
      <4>3. \/ op' = [op EXCEPT ![c] = Returned("ok")]
            \/ \E t : op' = [op EXCEPT ![c] = Reading([o EXCEPT !.at = t,
                                                         !.todo = o.todo \ {t}])]
        BY <3>1 DEF PickThread
      <4> HIDE DEF o
      <4> QED
        BY <4>1, <4>2, <4>3
    <3>2. CASE Interrupt(c)
      BY <2>4, <3>2 DEF Interrupt
    <3>3. CASE GetRecord(c)
      <4> PICK q : q = CASE o.pc = "read"   -> "getTomb"
                         [] o.pc = "reread" -> "regetTomb"
                         [] OTHER -> IF /\ o.pc = "getRecord"
                                        /\ records[o.at] = None /\ o.tomb = None
                                     THEN "legacy" ELSE "settle"
        OBVIOUS
      <4> DEFINE p == [o EXCEPT !.record = records[o.at], !.pc = q]
      <4>1. q # "purge" /\ p.pc = q
        BY <2>1 DEF Op
      <4>2. op' = [op EXCEPT ![c] = p]
        BY <3>3 DEF GetRecord, Step
      <4> HIDE DEF p
      <4> QED
        BY <2>3, <4>1, <4>2
    <3>4. CASE GetTombstone(c)
      <4> PICK q : q = CASE o.pc = "read"   -> "getRecord"
                         [] o.pc = "reread" -> "regetRecord"
                         [] OTHER -> IF /\ o.pc = "getTomb"
                                        /\ tombs[o.at] = None /\ o.record = None
                                     THEN "legacy" ELSE "settle"
        OBVIOUS
      <4> DEFINE p == [o EXCEPT !.tomb = tombs[o.at], !.pc = q]
      <4>1. q # "purge" /\ p.pc = q
        BY <2>1 DEF Op
      <4>2. op' = [op EXCEPT ![c] = p]
        BY <3>4 DEF GetTombstone, Step
      <4> HIDE DEF p
      <4> QED
        BY <2>3, <4>1, <4>2
    <3>5. CASE GetLegacy(c) \/ Migrate(c) \/ Delete(c)
      <4>1. PICK q \in {"migrate", "settle", "reread", "unindex"} :
              op' = [op EXCEPT ![c] = [o EXCEPT !.pc = q]]
        BY <3>5 DEF GetLegacy, Migrate, Delete, Step
      <4> DEFINE p == [o EXCEPT !.pc = q]
      <4>2. p.pc # "purge" /\ op' = [op EXCEPT ![c] = p]
        BY <2>2, <4>1 DEF PCs
      <4> HIDE DEF p
      <4> QED
        BY <2>3, <4>2
    <3>6. CASE ListLegacyIndex(c) \/ Sweep(c)
      <4>1. ASSUME NEW q \in {"sweep", "loop"}, NEW S,
                   op' = [op EXCEPT ![c] = [o EXCEPT !.pc = q, !.todo = S]]
            PROVE  PurgesAreDue'
        <5> DEFINE p == [o EXCEPT !.pc = q, !.todo = S]
        <5>1. p.pc # "purge" /\ op' = [op EXCEPT ![c] = p]
          BY <2>1, <4>1 DEF Op
        <5> HIDE DEF p
        <5> QED
          BY <2>3, <5>1
      <4>2. ASSUME NEW S, o.pc = "sweep", op' = [op EXCEPT ![c] = [o EXCEPT !.todo = S]]
            PROVE  PurgesAreDue'
        <5> DEFINE p == [o EXCEPT !.todo = S]
        <5>1. p.pc # "purge" /\ op' = [op EXCEPT ![c] = p]
          BY <2>1, <4>2 DEF Op
        <5> HIDE DEF p
        <5> QED
          BY <2>3, <5>1
      <4> QED
        BY <3>6, <4>1, <4>2 DEF ListLegacyIndex, Sweep, Step
    <3>7. CASE RemoveFromIndex(c)
      BY <2>1, <2>3, <3>7, DecisionPc DEF RemoveFromIndex, Step
    <3>8. CASE WriteRecord(c)
      <4>1. AfterWrite(o).pc # "purge" /\ AfterRefusal(o).pc # "purge"
        <5>1. NextThread(o).pc = "loop" /\ Returned("committed").pc = "idle"
          BY <2>1 DEF NextThread, Returned, Op
        <5>2. Reading([o EXCEPT !.again = TRUE]).pc = "read"
          BY <2>1 DEF Reading, Op
        <5> QED
          BY <5>1, <5>2 DEF AfterWrite, AfterRefusal
      <4>2. \/ op' = [op EXCEPT ![c] = AfterWrite(o)]
            \/ op' = [op EXCEPT ![c] = AfterRefusal(o)]
        BY <3>8 DEF WriteRecord, Step
      <4> QED
        BY <2>3, <4>1, <4>2
    <3>9. CASE WriteTombstone(c)
      <4>1. \/ op' = [op EXCEPT ![c] = Returned("removed")]
            \/ op' = [op EXCEPT ![c] = Returned("revision_conflict")]
        BY <3>9 DEF WriteTombstone, Step
      <4> QED
        BY <2>4, <4>1
    <3> QED
      BY <1>6, <3>1, <3>2, <3>3, <3>4, <3>5, <3>6, <3>7, <3>8, <3>9
         DEF Progress
  <2> QED
    BY <2>5
<1> QED
  BY <1>3, <1>4, <1>5, <1>6 DEF Next, Progress

(* A record that a write accepts to replace is the one its operation holds.  *)
LEMMA AcceptedIsStored ==
    ASSUME IInv, NEW c \in Clients, op[c].at \in Threads, Accepts(op[c])
    PROVE  records[op[c].at] = op[c].record
<1> DEFINE o == op[c]
<1>1. /\ o \in Op /\ Genuine(o, records, nextRev)
      /\ records[o.at] \in Record \cup {None} /\ o.record \in Record \cup {None}
      /\ StoredRevision(o.at) = SeenRevision(o)
  BY DEF IInv, Typed, Op, Accepts
<1>2. \A r \in Record : r.rev # 0
  BY DEF Record
<1>3. CASE records[o.at] = None
  BY <1>1, <1>2, <1>3 DEF StoredRevision, SeenRevision
<1>4. CASE records[o.at] # None
  <2>1. o.record # None /\ o.record.rev = records[o.at].rev
    BY <1>1, <1>2, <1>4 DEF StoredRevision, SeenRevision
  <2> QED
    BY <1>1, <1>4, <2>1 DEF Genuine
<1> QED
  BY <1>3, <1>4

(* Every step of the Redis store is one of ThreadHistory.                    *)
LEMMA StepMaps ==
    ASSUME IInv, IInv', SInv, PurgesAreDue, [Next]_vars
    PROVE  History!Next
<1>1. /\ records \in [Threads -> Record \cup {None}]
      /\ tombs \in [Threads -> Nat \cup {None}]
      /\ op \in [Clients -> Op] /\ \A c \in Clients : Fits(op[c], candidate)
      /\ lapsed' \subseteq Threads
      /\ candidate \in [TurnIds -> Candidate \cup {None}]
  BY DEF IInv, Typed
<1>2. ASSUME UNCHANGED <<records, tombs>>, lapsed \subseteq lapsed'
      PROVE  History!Next
  BY <1>1, <1>2, MapsRetire DEF History!Next
<1>3. CASE UNCHANGED vars \/ Tick \/ Rest
  <2>1. CASE Tick
    <3>1. ASSUME NEW t \in Threads
          PROVE  \/ records'[t] = records[t] /\ tombs'[t] = tombs[t]
                 \/ t \in lapsed' /\ records'[t] = None /\ tombs'[t] = None
      <4>1. /\ records'[t] = records[t] \/ records'[t] = None
            /\ tombs'[t] = tombs[t] \/ tombs'[t] = None
        BY <2>1 DEF Tick
      <4>2. records[t] = None \/ tombs[t] = None
        BY DEF IInv, OneFace
      <4>3. StateOf(t) # StateOf(t)' => t \in lapsed'
        BY <2>1 DEF Tick
      <4> QED
        BY <4>1, <4>2, <4>3, StateCases
    <3>2. History!Retire
      BY <1>1, <2>1, <3>1, MapsRetire DEF Tick
    <3> QED
      BY <3>2 DEF History!Next
  <2>2. CASE UNCHANGED vars \/ Rest
    BY <1>2, <2>2 DEF vars, storeVars, Rest
  <2> QED
    BY <1>3, <2>1, <2>2
<1>4. ASSUME NEW c \in Clients, Start(c)
      PROVE  History!Next
  <2>1. PICK o : Begin(c, o)
    BY <1>1, <1>4, StartBegins
  <2> QED
    BY <1>2, <2>1 DEF Begin
<1>5. ASSUME NEW c \in Clients,
             \/ Settle(c) \/ PickThread(c) \/ Interrupt(c)
             \/ GetRecord(c) \/ GetTombstone(c) \/ GetLegacy(c)
             \/ ListLegacyIndex(c) \/ RemoveFromIndex(c)
      PROVE  History!Next
  <2>1. UNCHANGED <<records, tombs>> /\ lapsed \subseteq lapsed'
    BY <1>5 DEF Settle, PickThread, Interrupt, GetRecord, GetTombstone, GetLegacy,
       ListLegacyIndex, RemoveFromIndex, storeVars
  <2> QED
    BY <1>2, <2>1
<1>6. ASSUME NEW c \in Clients, Migrate(c) \/ Sweep(c)
      PROVE  History!Next
  <2>1. UNCHANGED lapsed
    BY <1>6 DEF Migrate, Sweep, Elsewhere
  <2>2. ASSUME NEW t \in Threads, CanMigrate(t), MigrateRecord(t)
        PROVE  History!Next
    <3> DEFINE r == Converted(t, nextRev[t])
    <3>1. records' = [records EXCEPT ![t] = Kept(r, LegacyExpiry)] /\ UNCHANGED tombs
      BY <2>2 DEF MigrateRecord
    <3>2. r \in Record /\ r.turns = Legacy[t].turns /\ r.catalog = Legacy[t].catalog
      <4>1. nextRev[t] \in Nat \ {0}
        BY DEF IInv, Typed
      <4> QED
        BY <4>1, ConvertedType DEF Converted, AsConverted
    <3> HIDE DEF r
    <3>3. OthersStay(t)
      BY <1>1, <3>1 DEF OthersStay
    <3>4. CASE IsExpired(LegacyExpiry)
      <4>1. records' = records
        BY <1>1, <2>2, <3>1, <3>4 DEF CanMigrate, Kept
      <4> QED
        BY <1>2, <2>1, <3>1, <4>1
    <3>5. CASE ~IsExpired(LegacyExpiry)
      <4>1. records'[t] = r /\ r # None
        BY <1>1, <3>1, <3>2, <3>5, NoneAssumption DEF Kept
      <4>2. History!Migrate(t)
        BY <2>1, <2>2, <3>2, <3>3, <4>1, MapsMigrate DEF CanMigrate
      <4> QED
        BY <4>2 DEF History!Next
    <3> QED
      BY <3>4, <3>5
  <2>3. \/ UNCHANGED storeVars
        \/ \E t \in Threads : CanMigrate(t) /\ MigrateRecord(t)
    <3>1. op[c].pc = "migrate" => op[c].at \in Threads
      BY <1>1 DEF Fits
    <3>2. op[c].todo \subseteq Threads
      BY <1>1 DEF Op
    <3> QED
      BY <1>6, <3>1, <3>2 DEF Migrate, Sweep
  <2> QED
    BY <1>2, <2>1, <2>2, <2>3 DEF storeVars
<1>7. ASSUME NEW c \in Clients, Delete(c)
      PROVE  History!Next
  <2>1. /\ records' = [records EXCEPT ![op[c].at] = None]
        /\ tombs' = [tombs EXCEPT ![op[c].at] = None] /\ UNCHANGED lapsed
    BY <1>7 DEF Delete
  <2>2. op[c].at \in lapsed
    BY <1>7 DEF Delete, PurgesAreDue
  <2>3. History!Retire
    BY <1>1, <2>1, <2>2, MapsRetire
  <2> QED
    BY <2>3 DEF History!Next
<1>8. ASSUME NEW c \in Clients, WriteRecord(c)
      PROVE  History!Next
  <2> DEFINE o == op[c]
  <2>1. o.pc = "write" /\ o.at \in Threads /\ o.kind \in {"commit", "import"}
    BY <1>1, <1>8 DEF WriteRecord, Fits
  <2>2. CASE UNCHANGED <<storeVars, lapsed>>
    BY <1>2, <2>2 DEF storeVars
  <2>3. CASE /\ Accepts(o) /\ IsExpired(NewRecord(o).expiresAt)
             /\ records' = [records EXCEPT ![o.at] = None]
             /\ tombs' = IF ClearsTombstone(o) THEN [tombs EXCEPT ![o.at] = None]
                         ELSE tombs
             /\ lapsed' = lapsed \cup {o.at}
    <3>1. \A t \in Threads :
             \/ records'[t] = records[t] /\ tombs'[t] = tombs[t]
             \/ t \in lapsed' /\ records'[t] = None /\ tombs'[t] = None
      BY <1>1, <2>1, <2>3 DEF Accepts
    <3>2. History!Retire
      BY <1>1, <2>3, <3>1, MapsRetire
    <3> QED
      BY <3>2 DEF History!Next
  <2>4. CASE /\ Accepts(o)
             /\ records' = [records EXCEPT ![o.at] = NewRecord(o)]
             /\ tombs' = IF ClearsTombstone(o) THEN [tombs EXCEPT ![o.at] = None]
                         ELSE tombs
             /\ UNCHANGED lapsed
    <3> PICK t \in Threads : t = o.at
      BY <2>1
    <3> DEFINE new == NewRecord(o)
    <3>1. records'[t] = new /\ OthersStay(t)
      BY <1>1, <2>1, <2>4 DEF OthersStay
    <3>2. new # None
      BY <1>1, <2>1, NewRecordType, NoneAssumption
    <3>3. CASE o.kind = "import"
      <4>1. new.turns = Backup[t].turns /\ new.catalog = Backup[t].catalog
        BY <3>3 DEF NewRecord, Imported
      <4> HIDE DEF new
      <4>2. History!Import(t)
        BY <2>4, <3>1, <3>2, <4>1, MapsImport
      <4> QED
        BY <4>2 DEF History!Next
    <3>4. CASE o.kind = "commit"
      <4> PICK input : input = InputWith(o, candidate)
        OBVIOUS
      <4>1. records[t] = o.record /\ records[t] \in Record \cup {None}
        BY <1>1, <2>1, <2>4, AcceptedIsStored
      <4>2. tombs[t] = None
        BY <2>4, <3>4 DEF Accepts, ClearsTombstone
      <4>3. input.turn \in Turn /\ input.supplied \in Seq(Sources)
        BY <1>1, <3>4, InputTyped
      <4>4. Good(o, candidate)
        BY DEF SInv
      <4>5. Verdict(records[t], o.tomb # None, input) = "committed"
        BY <2>1, <3>4, <4>1, <4>4 DEF Good
      <4>6. records[t] # None => ValidThread(records[t])
        BY <4>1, <4>4 DEF Good, Sound
      <4> PICK rev : rev = nextRev[t]
        OBVIOUS
      <4>7. new = Extended(records[t], input, rev)
        BY <3>4, <4>1 DEF NewRecord, InputOf, InputWith
      <4>8. /\ records[t] # None => SameTurn(records[t], input.turn) = {}
            /\ SourcesClosed(records[t], input)
        BY <4>5, CommittedMeans
      <4> HIDE DEF new, o
      <4>9. records'[t] # None /\ records'[t] = Extended(records[t], input, rev)
        BY <3>1, <3>2, <4>7
      <4>10. History!Admit(t)
        BY <2>4, <3>1, <4>1, <4>2, <4>3, <4>6, <4>8, <4>9, MapsAdmit
      <4> QED
        BY <4>10 DEF History!Next
    <3> QED
      BY <2>1, <3>3, <3>4
  <2> QED
    BY <1>8, <2>2, <2>3, <2>4 DEF WriteRecord, Kept
<1>9. ASSUME NEW c \in Clients, WriteTombstone(c)
      PROVE  History!Next
  <2> DEFINE o == op[c]
  <2>1. o.at \in Threads
    BY <1>1, <1>9 DEF WriteTombstone, Fits
  <2> PICK x : x = ThreadExpiryAt(o.time)
    OBVIOUS
  <2>2. CASE UNCHANGED <<records, tombs, lapsed>>
    BY <1>2, <2>2
  <2>3. CASE /\ IsExpired(x) /\ lapsed' = lapsed \cup {o.at}
             /\ records' = [records EXCEPT ![o.at] = None]
             /\ tombs' = [tombs EXCEPT ![o.at] = None]
    <3>1. History!Retire
      BY <1>1, <2>1, <2>3, MapsRetire
    <3> QED
      BY <3>1 DEF History!Next
  <2>4. CASE /\ Buries(o) /\ UNCHANGED lapsed
             /\ records' = [records EXCEPT ![o.at] = None]
             /\ tombs' = [tombs EXCEPT ![o.at] = x]
    <3> PICK t \in Threads : t = o.at
      BY <2>1
    <3>1. x # None
      <4>1. x \in Nat
        BY <1>1, RetentionAssumption DEF Op, ThreadExpiryAt
      <4> QED
        BY <4>1, NoneAssumption
    <3>2. /\ OthersStay(t) /\ records[t] # None
          /\ records'[t] = None /\ tombs'[t] # None
      BY <1>1, <2>1, <2>4, <3>1 DEF OthersStay, Buries
    <3>3. History!Remove(t)
      BY <2>4, <3>2, MapsRemove
    <3> QED
      BY <3>3 DEF History!Next
  <2> QED
    BY <1>9, <2>2, <2>3, <2>4 DEF WriteTombstone, Kept
<1> QED
  BY <1>3, <1>4, <1>5, <1>6, <1>7, <1>8, <1>9 DEF Next, Progress

(* The empty store, legacy records included, is the empty history.           *)
LEMMA InitMaps ==
    ASSUME Init
    PROVE  History!Init
<1>1. \A t \in Threads : /\ records[t] = None /\ tombs[t] = None
                         /\ StateOf(t) = "absent"
  BY StateCases DEF Init
<1>2. \A t \in Threads : /\ CurrentTurns(records[t]) = <<>>
                         /\ CurrentCatalog(records[t]) = EmptyCatalog
  BY <1>1 DEF CurrentTurns, CurrentCatalog
<1>3. ToSet(<<>>) = {}
  BY DEF ToSet
<1>4. lapsed = {}
  BY DEF Init
<1> QED
  BY <1>1, <1>2, <1>3, <1>4 DEF History!Init, EmptyCatalog, Ids

(* The Redis store implements ThreadHistory: although a read is two commands  *)
(* and a purge two more, and keys may be dropped or written past their expiry *)
(* at any time, until a thread first outlives its retention every change to   *)
(* it is the admission of one turn, a removal, an import or the migration of  *)
(* a legacy record. The scripts decide on what is stored when they run        *)
(* (redis-thread-store.ts:17-47, 98-120).                                     *)
THEOREM Refinement == Spec => RefinesHistory
<1>1. Init => PurgesAreDue
  BY DEF Init, PurgesAreDue, Returned
<1>2. IInv /\ PurgesAreDue /\ [Next]_vars => PurgesAreDue'
  BY PurgesStayDue
<1>3. IInv /\ IInv' /\ SInv /\ PurgesAreDue /\ [Next]_vars => [History!Next]_History!vars
  BY StepMaps
<1>4. Init => History!Init
  BY InitMaps
<1> QED
  BY <1>1, <1>2, <1>3, <1>4, Invariance, Soundness, PTL DEF Spec, RefinesHistory, History!Spec
=============================================================================

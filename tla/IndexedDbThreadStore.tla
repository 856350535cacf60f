------------------------ MODULE IndexedDbThreadStore ------------------------
(***************************************************************************)
(* The browser adapter of the thread store                                 *)
(* (src/src/infrastructure/browser/indexeddb-thread-store.ts).  Several    *)
(* tabs share one database; every storage step is one IndexedDB            *)
(* transaction over the stores it names, and is atomic.                    *)
(***************************************************************************)
EXTENDS ThreadStoreBase

(* The clock. Nothing in the database changes when time passes. *)
Tick ==
    /\ now < MaxTime
    /\ now' = now + 1
    /\ UNCHANGED <<storeVars, nextRev, candidate, started, lapsed, op>>

Step(c, o) == op' = [op EXCEPT ![c] = o]
Elsewhere == UNCHANGED <<now, candidate, started, lapsed>>

-----------------------------------------------------------------------------
(* readState: one read transaction; migration only if nothing was found, and *)
(* a second read after a migration.                                          *)

Read(c) ==
    LET o == op[c]
    IN /\ o.pc \in {"read", "reread"}
       /\ Step(c, [o EXCEPT !.record = records[o.at], !.tomb = tombs[o.at],
                     !.pc = IF /\ o.pc = "read"
                               /\ records[o.at] = None /\ tombs[o.at] = None
                            THEN "legacy" ELSE "settle"])
       /\ UNCHANGED <<storeVars, nextRev>> /\ Elsewhere

(* migrateLegacy: the legacy value is read first and converted outside the   *)
(* transaction that replaces it.                                             *)
ReadLegacy(c) ==
    LET o == op[c]
    IN /\ o.pc = "legacy"
       /\ Step(c, [o EXCEPT !.pc = IF o.at \in legacy THEN "migrate" ELSE "settle"])
       /\ UNCHANGED <<storeVars, nextRev>> /\ Elsewhere

CanMigrate(t) == t \in legacy /\ records[t] = None /\ tombs[t] = None

InstallUnlisted(t) ==
    /\ records' = [records EXCEPT ![t] = Converted(t, nextRev[t])]
    /\ legacy' = legacy \ {t}
    /\ nextRev' = [nextRev EXCEPT ![t] = @ + 1]
    /\ UNCHANGED <<tombs, index>>
InstallLegacy(t) ==
    /\ records' = [records EXCEPT ![t] = Converted(t, nextRev[t])]
    /\ index' = index \cup {t}
    /\ legacy' = legacy \ {t}
    /\ nextRev' = [nextRev EXCEPT ![t] = @ + 1]
    /\ UNCHANGED tombs

Migrate(c) ==
    LET o == op[c]
    IN /\ o.pc = "migrate"
       /\ \/ /\ CanMigrate(o.at)
             /\ InstallLegacy(o.at)
             /\ Step(c, [o EXCEPT !.pc = "reread"])
          \/ /\ ~CanMigrate(o.at)
             /\ Step(c, [o EXCEPT !.pc = IF records[o.at] # None
                                         THEN "reread" ELSE "settle"])
             /\ UNCHANGED <<storeVars, nextRev>>
       /\ Elsewhere

-----------------------------------------------------------------------------
(* listIds: every legacy record is migrated, then the index keys are read.   *)

ListLegacyKeys(c) ==
    LET o == op[c]
    IN /\ o.pc = "keys"
       /\ Step(c, [o EXCEPT !.pc = "sweep", !.todo = legacy])
       /\ UNCHANGED <<storeVars, nextRev>> /\ Elsewhere

Sweep(c) ==
    LET o == op[c]
    IN /\ o.pc = "sweep"
       /\ \/ /\ o.todo = {}
             /\ Step(c, [o EXCEPT !.pc = "loop", !.todo = index])
             /\ UNCHANGED <<storeVars, nextRev>>
          \/ \E t \in o.todo :
                /\ Step(c, [o EXCEPT !.todo = o.todo \ {t}])
                /\ IF CanMigrate(t) THEN InstallLegacy(t)
                   ELSE UNCHANGED <<storeVars, nextRev>>
       /\ Elsewhere

-----------------------------------------------------------------------------
(* The transactions that write. *)

(* purge deletes the record, the tombstone and the index entry, whatever     *)
(* they hold by now.                                                         *)
Purge(c) ==
    LET o == op[c]
    IN /\ o.pc = "purge"
       /\ records' = [records EXCEPT ![o.at] = None]
       /\ tombs' = [tombs EXCEPT ![o.at] = None]
       /\ index' = index \ {o.at}
       /\ Step(c, Decision(o))
       /\ UNCHANGED <<legacy, nextRev>> /\ Elsewhere

(* Compare-and-set on the revision; a tombstone refuses the write unless the *)
(* caller clears it.                                                         *)
ClearsTombstone(o) == o.kind = "import" /\ o.replace
IgnoresTombstone(o) == StoredRevision(o.at) = SeenRevision(o)
IgnoresRevision(o) == tombs[o.at] = None \/ ClearsTombstone(o)
Accepts(o) ==
    /\ StoredRevision(o.at) = SeenRevision(o)
    /\ tombs[o.at] = None \/ ClearsTombstone(o)

Write(c) ==
    LET o == op[c]
    IN /\ o.pc = "write"
       /\ \/ /\ Accepts(o)
             /\ records' = [records EXCEPT ![o.at] = NewRecord(o)]
             /\ tombs' = IF ClearsTombstone(o) THEN [tombs EXCEPT ![o.at] = None]
                         ELSE tombs
             /\ index' = index \cup {o.at}
             /\ nextRev' = [nextRev EXCEPT ![o.at] = @ + 1]
             /\ UNCHANGED legacy
             /\ Step(c, AfterWrite(o))
          \/ /\ ~Accepts(o)
             /\ UNCHANGED <<storeVars, nextRev>>
             /\ Step(c, AfterRefusal(o))
       /\ Elsewhere

(* writeTombstone replaces the record the caller has seen by a tombstone.    *)
Buries(o) == records[o.at] # None /\ records[o.at].rev = o.record.rev

WriteTombstone(c) ==
    LET o == op[c]
    IN /\ o.pc = "bury"
       /\ \/ /\ Buries(o)
             /\ records' = [records EXCEPT ![o.at] = None]
             /\ tombs' = [tombs EXCEPT ![o.at] = ThreadExpiryAt(o.time)]
             /\ index' = index \cup {o.at}
             /\ UNCHANGED legacy
             /\ Step(c, Returned("removed"))
          \/ /\ ~Buries(o)
             /\ UNCHANGED storeVars
             /\ Step(c, Returned("revision_conflict"))
       /\ UNCHANGED nextRev /\ Elsewhere

-----------------------------------------------------------------------------

Progress(c) ==
    \/ Read(c) \/ ReadLegacy(c) \/ Migrate(c) \/ ListLegacyKeys(c) \/ Sweep(c)
    \/ Settle(c) \/ PickThread(c) \/ Purge(c) \/ Write(c) \/ WriteTombstone(c)

Next ==
    \/ Tick
    \/ Rest
    \/ \E c \in Clients : Start(c) \/ Progress(c) \/ Interrupt(c)

Spec == Init /\ [][Next]_vars
=============================================================================

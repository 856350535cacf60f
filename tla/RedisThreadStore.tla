-------------------------- MODULE RedisThreadStore --------------------------
(***************************************************************************)
(* The server adapter of the thread store                                  *)
(* (src/src/infrastructure/storage/redis-thread-store.ts).  Request        *)
(* handlers share one Redis; every storage step is one Redis command or    *)
(* one Lua script and is atomic.  Unlike the browser adapter it reads a    *)
(* thread's two keys with two commands, purges with two commands, and      *)
(* leaves expiry to Redis (PXAT), which drops a key and not its index      *)
(* entry.                                                                  *)
(***************************************************************************)
EXTENDS ThreadStoreBase

(* Redis never returns a key that has reached its expiry (external).         *)
Tick ==
    /\ now < MaxTime
    /\ now' = now + 1
    /\ records' = [t \in Threads |->
                    IF records[t] # None /\ records[t].expiresAt <= now'
                    THEN None ELSE records[t]]
    /\ tombs' = [t \in Threads |->
                    IF tombs[t] # None /\ tombs[t] <= now' THEN None ELSE tombs[t]]
    /\ lapsed' = lapsed \cup {t \in Threads : StateOf(t) # StateOf(t)'}
    /\ UNCHANGED <<index, legacy, nextRev, candidate, started, op>>

(* SET with PXAT: a value that is already past its expiry does not stay.     *)
Kept(value, expiresAt) == IF IsExpired(expiresAt) THEN None ELSE value

Step(c, o) == op' = [op EXCEPT ![c] = o]
Elsewhere == UNCHANGED <<now, candidate, started>>

-----------------------------------------------------------------------------
(* readState: GET of the record and GET of the tombstone are issued together *)
(* and served one after the other, in either order.                          *)

GetRecord(c) ==
    LET o == op[c]
    IN /\ o.pc \in {"read", "reread", "getRecord", "regetRecord"}
       /\ Step(c, [o EXCEPT
                    !.record = records[o.at],
                    !.pc = CASE o.pc = "read"   -> "getTomb"
                             [] o.pc = "reread" -> "regetTomb"
                             [] OTHER -> IF /\ o.pc = "getRecord"
                                            /\ records[o.at] = None /\ o.tomb = None
                                         THEN "legacy" ELSE "settle"])
       /\ UNCHANGED <<storeVars, nextRev, lapsed>> /\ Elsewhere

GetTombstone(c) ==
    LET o == op[c]
    IN /\ o.pc \in {"read", "reread", "getTomb", "regetTomb"}
       /\ Step(c, [o EXCEPT
                    !.tomb = tombs[o.at],
                    !.pc = CASE o.pc = "read"   -> "getRecord"
                             [] o.pc = "reread" -> "regetRecord"
                             [] OTHER -> IF /\ o.pc = "getTomb"
                                            /\ tombs[o.at] = None /\ o.record = None
                                         THEN "legacy" ELSE "settle"])
       /\ UNCHANGED <<storeVars, nextRev, lapsed>> /\ Elsewhere

(* migrateLegacy: a GET, the conversion, then the migration script.          *)
GetLegacy(c) ==
    LET o == op[c]
    IN /\ o.pc = "legacy"
       /\ Step(c, [o EXCEPT !.pc = IF o.at \in legacy THEN "migrate" ELSE "settle"])
       /\ UNCHANGED <<storeVars, nextRev, lapsed>> /\ Elsewhere

CanMigrate(t) == t \in legacy /\ records[t] = None /\ tombs[t] = None

MigrateRecord(t) ==
    /\ records' = [records EXCEPT ![t] = Kept(Converted(t, nextRev[t]), LegacyExpiry)]
    /\ index' = index \cup {t}
    /\ legacy' = legacy \ {t}
    /\ nextRev' = [nextRev EXCEPT ![t] = @ + 1]
    /\ UNCHANGED tombs

Migrate(c) ==
    LET o == op[c]
    IN /\ o.pc = "migrate"
       /\ \/ /\ CanMigrate(o.at)
             /\ MigrateRecord(o.at)
             /\ Step(c, [o EXCEPT !.pc = "reread"])
          \/ /\ ~CanMigrate(o.at)
             /\ Step(c, [o EXCEPT !.pc = "settle"])
             /\ UNCHANGED <<storeVars, nextRev>>
       /\ UNCHANGED lapsed /\ Elsewhere

-----------------------------------------------------------------------------
(* listIds: the legacy index is swept, then the index is read.               *)

ListLegacyIndex(c) ==
    LET o == op[c]
    IN /\ o.pc = "keys"
       /\ Step(c, [o EXCEPT !.pc = "sweep", !.todo = legacy])
       /\ UNCHANGED <<storeVars, nextRev, lapsed>> /\ Elsewhere

Sweep(c) ==
    LET o == op[c]
    IN /\ o.pc = "sweep"
       /\ \/ /\ o.todo = {}
             /\ Step(c, [o EXCEPT !.pc = "loop", !.todo = index])
             /\ UNCHANGED <<storeVars, nextRev>>
          \/ \E t \in o.todo :
                /\ Step(c, [o EXCEPT !.todo = o.todo \ {t}])
                /\ IF CanMigrate(t) THEN MigrateRecord(t)
                   ELSE UNCHANGED <<storeVars, nextRev>>
       /\ UNCHANGED lapsed /\ Elsewhere

-----------------------------------------------------------------------------
(* purge: DEL of both keys, whatever they hold by now, then ZREM.            *)

Delete(c) ==
    LET o == op[c]
    IN /\ o.pc = "purge"
       /\ records' = [records EXCEPT ![o.at] = None]
       /\ tombs' = [tombs EXCEPT ![o.at] = None]
       /\ Step(c, [o EXCEPT !.pc = "unindex"])
       /\ UNCHANGED <<index, legacy, nextRev, lapsed>> /\ Elsewhere

RemoveFromIndex(c) ==
    LET o == op[c]
    IN /\ o.pc = "unindex"
       /\ index' = index \ {o.at}
       /\ Step(c, Decision(o))
       /\ UNCHANGED <<records, tombs, legacy, nextRev, lapsed>> /\ Elsewhere

-----------------------------------------------------------------------------
(* The scripts that write. *)

ClearsTombstone(o) == o.kind = "import" /\ o.replace
IgnoresTombstone(o) == StoredRevision(o.at) = SeenRevision(o)
IgnoresRevision(o) == tombs[o.at] = None \/ ClearsTombstone(o)
Accepts(o) ==
    /\ StoredRevision(o.at) = SeenRevision(o)
    /\ tombs[o.at] = None \/ ClearsTombstone(o)

(* A record that is written past its expiry is gone at once.                 *)
WriteRecord(c) ==
    LET o == op[c]
        new == NewRecord(o)
    IN /\ o.pc = "write"
       /\ \/ /\ Accepts(o)
             /\ records' = [records EXCEPT ![o.at] = Kept(new, new.expiresAt)]
             /\ tombs' = IF ClearsTombstone(o) THEN [tombs EXCEPT ![o.at] = None]
                         ELSE tombs
             /\ index' = index \cup {o.at}
             /\ nextRev' = [nextRev EXCEPT ![o.at] = @ + 1]
             /\ lapsed' = IF IsExpired(new.expiresAt) THEN lapsed \cup {o.at} ELSE lapsed
             /\ UNCHANGED legacy
             /\ Step(c, AfterWrite(o))
          \/ /\ ~Accepts(o)
             /\ UNCHANGED <<storeVars, nextRev, lapsed>>
             /\ Step(c, AfterRefusal(o))
       /\ Elsewhere

Buries(o) == records[o.at] # None /\ records[o.at].rev = o.record.rev

(* A tombstone that is written past its expiry is gone at once.              *)
WriteTombstone(c) ==
    LET o == op[c]
    IN /\ o.pc = "bury"
       /\ \/ /\ Buries(o)
             /\ records' = [records EXCEPT ![o.at] = None]
             /\ tombs' = [tombs EXCEPT ![o.at] =
                            Kept(ThreadExpiryAt(o.time), ThreadExpiryAt(o.time))]
             /\ index' = index \cup {o.at}
             /\ lapsed' = IF IsExpired(ThreadExpiryAt(o.time)) THEN lapsed \cup {o.at}
                          ELSE lapsed
             /\ Step(c, Returned("removed"))
          \/ /\ ~Buries(o)
             /\ UNCHANGED <<records, tombs, index, lapsed>>
             /\ Step(c, Returned("revision_conflict"))
       /\ UNCHANGED <<legacy, nextRev>> /\ Elsewhere

-----------------------------------------------------------------------------

Progress(c) ==
    \/ GetRecord(c) \/ GetTombstone(c) \/ GetLegacy(c) \/ Migrate(c)
    \/ ListLegacyIndex(c) \/ Sweep(c) \/ Settle(c) \/ PickThread(c)
    \/ Delete(c) \/ RemoveFromIndex(c) \/ WriteRecord(c) \/ WriteTombstone(c)

Next ==
    \/ Tick
    \/ Rest
    \/ \E c \in Clients : Start(c) \/ Progress(c) \/ Interrupt(c)

Spec == Init /\ [][Next]_vars
=============================================================================

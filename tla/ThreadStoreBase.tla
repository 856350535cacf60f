--------------------------- MODULE ThreadStoreBase ---------------------------
(***************************************************************************)
(* ThreadStoreBase (src/src/infrastructure/storage/thread-store-base.ts):  *)
(* the operations both storage adapters share.  Every operation reads a    *)
(* thread's state through the adapter, settles expiry, decides on what it  *)
(* read and only then writes, so other clients act between any two of its  *)
(* storage calls.  The adapters (IndexedDbThreadStore, RedisThreadStore)   *)
(* supply the storage steps; this module holds the state, the beginning of *)
(* every operation and the decisions it takes between storage steps.       *)
(*                                                                         *)
(* A client is one running operation: a tab on IndexedDB, a request        *)
(* handler on Redis.  Its local variables are the record op[c]; pc names   *)
(* the await it is suspended at.                                           *)
(***************************************************************************)
EXTENDS ThreadRecord

CONSTANTS
    Clients,       \* concurrent operations
    Kinds,         \* the operations clients start
    LegacyThreads, \* threads with a record of schema v1 or v2 that converts
    Legacy,        \* what the conversion of a thread's legacy record yields
    LegacyExpiry,  \* when those records expire
    Backup,        \* the thread a validated backup holds for each id
    MaxOps,        \* bound on the operations started
    MaxTime        \* bound on the clock

OpKinds == {"load", "list", "inspect", "commit", "remove", "import"}

(* A terminal turn, once built, belongs to a thread.                         *)
Candidate == [thread : Threads, finishedAt : Nat]

ASSUME BaseAssumption ==
    /\ Kinds \subseteq OpKinds
    /\ LegacyThreads \subseteq Threads
    /\ LegacyExpiry \in Nat /\ MaxOps \in Nat /\ MaxTime \in Nat
    /\ None \notin Threads \cup TurnIds \cup Candidate
    /\ Backup \in [Threads -> Thread] /\ Legacy \in [Threads -> Thread]
    /\ \A t \in Threads : ValidThread(Backup[t]) /\ ValidThread(Legacy[t])

(* The turns that are older than this history: a backup holds them, or a     *)
(* legacy record.  A turn has finished once.                                 *)
Held(t) == Ids(Backup[t].turns)
Migrated(t) == Ids(Legacy[t].turns)
Past == UNION {ToSet(Backup[t].turns) \cup ToSet(Legacy[t].turns) : t \in Threads}
ASSUME PastAssumption ==
    /\ \A a, b \in Past : a.id = b.id => a = b
    /\ \A t, r \in Threads :
        t # r => (Held(t) \cup Migrated(t)) \cap (Held(r) \cup Migrated(r)) = {}

VARIABLES
    records,    \* thread records by thread id
    tombs,      \* deletion tombstones: when they expire
    index,      \* thread ids in the index
    legacy,     \* thread ids that still have a legacy record
    now,        \* the clock
    nextRev,    \* by thread, the next revision drawn
    candidate,  \* by turn id, the thread and finish time of its terminal turn
    started,    \* operations started so far
    lapsed,     \* history: thread ids that expired, as a client or Redis has seen
    op          \* by client, the operation it runs

storeVars == <<records, tombs, index, legacy>>
vars == <<records, tombs, index, legacy, now, nextRev, candidate, started,
          lapsed, op>>

Codes == {"none", "ok", "committed", "already_committed", "thread_deleted",
          "thread_not_found", "integrity_failure", "invalid_record",
          "schema_rejected", "revision_conflict", "storage_unavailable",
          "removed", "already_absent"}

PCs == {"idle", "keys", "sweep", "loop", "read", "getTomb", "getRecord",
        "legacy", "migrate", "reread", "regetTomb", "regetRecord",
        "settle", "purge", "unindex", "write", "bury"}

Op == [pc : PCs, kind : OpKinds \cup {"none"}, at : Threads \cup {None},
       turn : TurnIds \cup {None}, expected : Nat, create : BOOLEAN,
       supplied : Seq(Sources), replace : BOOLEAN, again : BOOLEAN,
       record : Record \cup {None}, tomb : Nat \cup {None},
       time : Nat, todo : SUBSET Threads, seen : SUBSET TurnIds, result : Codes]

TypeOK ==
    /\ records \in [Threads -> Record \cup {None}]
    /\ tombs \in [Threads -> Nat \cup {None}]
    /\ index \in SUBSET Threads
    /\ legacy \in SUBSET Threads
    /\ now \in Nat
    /\ nextRev \in [Threads -> Nat \ {0}]
    /\ candidate \in [TurnIds -> Candidate \cup {None}]
    /\ started \in Nat
    /\ lapsed \in SUBSET Threads
    /\ op \in [Clients -> Op]

(* An operation that is over keeps only its result. *)
Returned(code) ==
    [pc |-> "idle", kind |-> "none", at |-> None, turn |-> None,
     expected |-> 0, create |-> FALSE, supplied |-> <<>>, replace |-> FALSE,
     again |-> FALSE, record |-> None, tomb |-> None, time |-> 0,
     todo |-> {}, seen |-> {}, result |-> code]

(* A past turn was committed once, and may be committed again. *)
PastCandidate(u) ==
    IF \E t \in Threads : u \in Held(t) \cup Migrated(t)
    THEN [thread     |-> CHOOSE t \in Threads : u \in Held(t) \cup Migrated(t),
          finishedAt |-> (CHOOSE turn \in Past : turn.id = u).finishedAt]
    ELSE None

Init ==
    /\ records = [t \in Threads |-> None]
    /\ tombs = [t \in Threads |-> None]
    /\ index = {}
    /\ legacy = LegacyThreads
    /\ now = 0
    /\ nextRev = [t \in Threads |-> 1]
    /\ candidate = [u \in TurnIds |-> PastCandidate(u)]
    /\ started = 0
    /\ lapsed = {}
    /\ op = [c \in Clients |-> Returned("none")]

-----------------------------------------------------------------------------
(* The beginning of an operation. *)

Begin(c, o) ==
    /\ op[c].pc = "idle"
    /\ started < MaxOps
    /\ started' = started + 1
    /\ op' = [op EXCEPT ![c] = o]
    /\ UNCHANGED <<records, tombs, index, legacy, now, nextRev, lapsed>>

StartLoad(c) ==
    /\ "load" \in Kinds
    /\ \E t \in Threads :
        Begin(c, [Returned("none") EXCEPT !.pc = "read", !.kind = "load", !.at = t])
    /\ UNCHANGED candidate

(* list, exportData and inspectImport walk the index in the same way. *)
StartList(c) ==
    /\ \E k \in Kinds \cap {"list", "inspect"} :
        Begin(c, [Returned("none") EXCEPT !.pc = "keys", !.kind = k])
    /\ UNCHANGED candidate

(* A terminal turn is built once and may be committed any number of times,   *)
(* by the tab that built it or by a retry whose first answer was lost.  The  *)
(* caller's revision is one it has loaded at some time, or null; create is   *)
(* sent only by a caller that believes the thread absent.                    *)
StartCommit(c) ==
    /\ "commit" \in Kinds
    /\ \E t \in Threads, u \in TurnIds, create \in BOOLEAN :
        /\ IF candidate[u] = None THEN TurnCreatedAt[u] <= now
           ELSE candidate[u].thread = t
        /\ \E expected \in IF create THEN {0} ELSE 0..(nextRev[t] - 1) :
            Begin(c, [Returned("none") EXCEPT
                        !.pc = "read", !.kind = "commit", !.at = t, !.turn = u,
                        !.expected = expected, !.create = create,
                        !.supplied = TurnSources[u]])
        /\ candidate' = IF candidate[u] # None THEN candidate
                        ELSE [candidate EXCEPT
                                ![u] = [thread |-> t, finishedAt |-> now]]

StartRemove(c) ==
    /\ "remove" \in Kinds
    /\ \E t \in Threads : \E expected \in 0..(nextRev[t] - 1) :
        Begin(c, [Returned("none") EXCEPT
                    !.pc = "read", !.kind = "remove", !.at = t,
                    !.expected = expected])
    /\ UNCHANGED candidate

(* importData installs the threads of a validated backup. *)
StartImport(c) ==
    /\ "import" \in Kinds
    /\ \E replace \in BOOLEAN :
        Begin(c, [Returned("none") EXCEPT
                    !.pc = "loop", !.kind = "import", !.replace = replace,
                    !.todo = Threads])
    /\ UNCHANGED candidate

Start(c) ==
    \/ StartLoad(c) \/ StartList(c) \/ StartCommit(c)
    \/ StartRemove(c) \/ StartImport(c)

-----------------------------------------------------------------------------
(* Decisions between storage steps: what becomes of the operation o.         *)

InputOf(o) ==
    [turn |-> [id |-> o.turn, finishedAt |-> candidate[o.turn].finishedAt],
     expected |-> o.expected, create |-> o.create, supplied |-> o.supplied]

Reading(o) == [o EXCEPT !.pc = "read", !.record = None, !.tomb = None]

SeenRevision(o) == IF o.record = None THEN 0 ELSE o.record.rev

(* One thread of a walk is done; the walk goes on. *)
NextThread(o) ==
    [o EXCEPT !.pc = "loop", !.at = None, !.record = None, !.tomb = None,
              !.time = 0]

(* commitTerminalTurn: evaluate and write; after a lost write read and       *)
(* evaluate once more, and only the turn's own presence is a success then.   *)
CommitDecision(o) ==
    LET verdict == Verdict(o.record, o.tomb # None, InputOf(o))
    IN IF o.again
       THEN Returned(IF verdict = "already_committed" THEN verdict
                     ELSE "revision_conflict")
       ELSE IF verdict = "committed" THEN [o EXCEPT !.pc = "write"]
       ELSE Returned(verdict)

RemoveDecision(o) ==
    IF o.record = None THEN Returned("already_absent")
    ELSE IF o.expected # 0 /\ o.expected # o.record.rev
         THEN Returned("revision_conflict")
    ELSE [o EXCEPT !.pc = "bury", !.time = now]

(* keep_existing leaves a thread or its tombstone alone.  Both a removal and *)
(* an import read the clock here, before the write they prepare.  A thread   *)
(* that is not valid with this clock as its activity, because the clock that *)
(* wrote the backup was ahead, is skipped.                                   *)
ImportDecision(o) ==
    IF \/ ~o.replace /\ (o.record # None \/ o.tomb # None)
       \/ ~ValidThread([Backup[o.at] EXCEPT !.updatedAt = now])
    THEN NextThread(o)
    ELSE [o EXCEPT !.pc = "write", !.time = now]

(* A load returns what it has read: its revision, 0 for null, and its turns. *)
LoadDecision(o) ==
    [Returned("ok") EXCEPT !.expected = SeenRevision(o),
                           !.seen = Ids(CurrentTurns(o.record))]

Decision(o) ==
    CASE o.kind = "load"   -> LoadDecision(o)
      [] o.kind = "commit" -> CommitDecision(o)
      [] o.kind = "remove" -> RemoveDecision(o)
      [] o.kind = "import" -> ImportDecision(o)
      [] OTHER             -> NextThread(o)

IsExpired(expiresAt) == expiresAt <= now

(* liveState, once the adapter has read both values: both present is an      *)
(* integrity failure; an expired value is purged and then counts as absent.  *)
SeenExpired(o) ==
    \/ o.record # None /\ IsExpired(o.record.expiresAt)
    \/ o.record = None /\ o.tomb # None /\ IsExpired(o.tomb)

Settle(c) ==
    LET o == op[c]
    IN /\ o.pc = "settle"
       /\ \/ /\ o.record # None /\ o.tomb # None
             /\ op' = [op EXCEPT ![c] = Returned("integrity_failure")]
             /\ UNCHANGED lapsed
          \/ /\ o.record = None \/ o.tomb = None
             /\ SeenExpired(o)
             /\ op' = [op EXCEPT ![c] = [o EXCEPT !.pc = "purge",
                                            !.record = None, !.tomb = None]]
             /\ lapsed' = lapsed \cup {o.at}
          \/ /\ o.record = None \/ o.tomb = None
             /\ ~SeenExpired(o)
             /\ op' = [op EXCEPT ![c] = Decision(o)]
             /\ UNCHANGED lapsed
       /\ UNCHANGED <<storeVars, now, nextRev, candidate, started>>

(* The walk over thread ids of list, export, inspection and import. *)
PickThread(c) ==
    LET o == op[c]
    IN /\ o.pc = "loop"
       /\ \/ /\ o.todo = {}
             /\ op' = [op EXCEPT ![c] = Returned("ok")]
          \/ \E t \in o.todo :
                op' = [op EXCEPT ![c] = Reading([o EXCEPT !.at = t,
                                                  !.todo = o.todo \ {t}])]
       /\ UNCHANGED <<storeVars, now, nextRev, candidate, started, lapsed>>

(* A storage call throws, or the tab or handler dies. *)
Interrupt(c) ==
    /\ op[c].pc # "idle"
    /\ op' = [op EXCEPT ![c] = Returned("storage_unavailable")]
    /\ UNCHANGED <<storeVars, now, nextRev, candidate, started, lapsed>>

-----------------------------------------------------------------------------
(* What a write puts in place. *)

(* An imported thread's activity is the time its import was decided. *)
Imported(t, rev, activity) ==
    [rev       |-> rev,
     expiresAt |-> ThreadExpiryAt(activity),
     createdAt |-> Backup[t].createdAt,
     updatedAt |-> activity,
     turns     |-> Backup[t].turns,
     archive   |-> Backup[t].archive,
     catalog   |-> Backup[t].catalog]

(* convertLegacyStoredRecord keeps the legacy record's expiry; lookups have  *)
(* become search turns and everything else entries of the archive.           *)
AsConverted(thread, rev) ==
    [rev       |-> rev,
     expiresAt |-> LegacyExpiry,
     createdAt |-> thread.createdAt,
     updatedAt |-> thread.updatedAt,
     turns     |-> thread.turns,
     archive   |-> thread.archive,
     catalog   |-> thread.catalog]
Unconverted(t, rev) == AsConverted(Legacy[t], 0)
Converted(t, rev) == AsConverted(Legacy[t], rev)

KeptRevision(o) == IF o.record = None THEN nextRev[o.at] ELSE o.record.rev
SameRevision(o) ==
    IF o.kind = "import" THEN Imported(o.at, KeptRevision(o), o.time)
    ELSE Extended(o.record, InputOf(o), KeptRevision(o))
NewRecord(o) ==
    IF o.kind = "import" THEN Imported(o.at, nextRev[o.at], o.time)
    ELSE Extended(o.record, InputOf(o), nextRev[o.at])

StoredRevision(t) == IF records[t] = None THEN 0 ELSE records[t].rev

(* What follows a write that took place, and one that was refused. *)
AfterWrite(o) ==
    IF o.kind = "import" THEN NextThread(o) ELSE Returned("committed")
AfterRefusal(o) ==
    IF o.kind = "import" THEN NextThread(o)
    ELSE Reading([o EXCEPT !.again = TRUE])

(* Nothing is asked of the store. *)
Rest ==
    /\ \A c \in Clients : op[c].pc = "idle"
    /\ UNCHANGED vars

-----------------------------------------------------------------------------
(* Correctness. *)

(* A thread is never stored both as a record and as a tombstone: deletion,   *)
(* commit, import and migration exclude each other although each of them     *)
(* decides on an earlier read (redis-thread-store.ts scripts,                *)
(* indexeddb-thread-store.ts transactions).                                  *)
OneFace == \A t \in Threads : records[t] = None \/ tombs[t] = None

(* Compare-and-set on the revision is sound: a client whose record carries   *)
(* the stored revision holds the stored record, so what it computed from its *)
(* copy is computed from the present state (no ABA).                         *)
RevisionsIdentify ==
    \A c \in Clients : LET o == op[c]
                       IN (/\ o.record # None /\ o.at # None
                           /\ records[o.at] # None
                           /\ records[o.at].rev = o.record.rev)
                          => records[o.at] = o.record

(* The schema refuses a thread the policy has built only on account of the   *)
(* new turn itself: its times, its answer, the turn it retries or a turn it  *)
(* names as support that is not in the thread.  Turns inserted out of        *)
(* completion order, sources admitted by racing turns and activity that      *)
(* arrives late always fit together, and no turn stored before loses what it *)
(* rests on (commit-terminal-turn.ts:121-136).                               *)
BuildsValidThreads ==
    \A c \in Clients :
        LET o == op[c]
        IN (/\ o.kind = "commit"
            /\ Verdict(o.record, o.tomb # None, InputOf(o)) = "schema_rejected")
           => ~Belongs(InputOf(o).turn,
                       InsertTurn(CurrentTurns(o.record), InputOf(o).turn))

(* No sequence of legal operations makes the store report corruption. *)
NoFalseCorruption == \A c \in Clients : op[c].result # "integrity_failure"

(* Between two versions of a stored thread no turn disappears and no source  *)
(* changes its ordinal, unless an import replaced the thread: a commit that  *)
(* was computed on a stale copy never overwrites a turn committed meanwhile. *)
ReplacesThread(t) ==
    \E c \in Clients : op[c].pc = "write" /\ op[c].kind = "import" /\ op[c].at = t
Extends(old, new) ==
    /\ ToSet(old.turns) \subseteq ToSet(new.turns)
    /\ \A s \in Admitted(old.catalog) : new.catalog[s] = old.catalog[s]
CommitsOnlyExtend ==
    [][\A t \in Threads :
         (/\ records[t] # None /\ records'[t] # None
          /\ ~ReplacesThread(t))
         => Extends(records[t], records'[t])]_vars

(* A thread that has not expired disappears only behind a tombstone: the     *)
(* expiry a client saw is still the expiry of what its purge deletes         *)
(* (thread-store-base.ts:57-66).                                             *)
OnlyExpiredVanish ==
    [][\A t \in Threads :
         (records[t] # None /\ records'[t] = None)
         => IsExpired(records[t].expiresAt) \/ tombs'[t] # None]_vars

(* The index lists a thread as long as its record or its tombstone is there, *)
(* so that no stored thread is missing from lists and exports.               *)
IndexComplete ==
    \A t \in Threads : records[t] # None \/ tombs[t] # None => t \in index

-----------------------------------------------------------------------------
(* What the store promises, thread by thread. *)

StateOf(t) ==
    CASE records[t] # None -> "live"
      [] records[t] = None /\ tombs[t] # None -> "deleted"
      [] OTHER -> "absent"

History ==
    INSTANCE ThreadHistory WITH
        state   <- [t \in Threads |-> StateOf(t)],
        turns   <- [t \in Threads |-> Ids(CurrentTurns(records[t]))],
        ordinal <- [t \in Threads |-> CurrentCatalog(records[t])],
        lapsed  <- lapsed,
        BackupTurns   <- [t \in Threads |-> Held(t)],
        BackupOrdinal <- [t \in Threads |-> Backup[t].catalog],
        LegacyTurns   <- [t \in Threads |-> Migrated(t)],
        LegacyOrdinal <- [t \in Threads |-> Legacy[t].catalog]

(* The store implements ThreadHistory: until a thread id first outlives its  *)
(* retention, every change to it is one admission of one turn, a removal, an *)
(* import or the migration of a legacy record.                               *)
RefinesHistory == History!Spec
=============================================================================

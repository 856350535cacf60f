---------------------------- MODULE ThreadRecord ----------------------------
(***************************************************************************)
(* The durable thread record and the pure policy that decides what one     *)
(* terminal commit does to it                                              *)
(* (src/src/application/commit-terminal-turn.ts), with the thread schema   *)
(* (src/src/domain/schemas.ts) and the retention rule                      *)
(* (src/src/domain/retention.ts).                                          *)
(*                                                                         *)
(* A turn is its id and the time it finished; when it was created, what it *)
(* asks, what it refers to and what it rests on are constants of the id.   *)
(* A thread is its times, its turns, its archive of legacy entries, which  *)
(* nothing changes once the thread exists, and its catalogue, which maps   *)
(* every source to its ordinal, 0 for a source the thread has not          *)
(* admitted.  Time is a natural number, None stands for JavaScript's null  *)
(* and 0 for the null revision.                                            *)
(***************************************************************************)
EXTENDS Integers, FiniteSets, SequencesExt

CONSTANTS
    Threads,      \* thread ids
    TurnIds,      \* turn ids
    Sources,      \* canonical source ids
    TurnCreatedAt,\* when a turn was created
    TurnRank,     \* its position in the (createdAt, id) order
    TurnSources,  \* the source records it refers to, in supplied order
    TurnSupport,  \* the turns its findings and gaps name as support
    RetryOf,      \* the turn it retries, if any
    Request,      \* what its user message asks
    Grounded,     \* turns whose answer cites only what their findings rest on
    Retention,    \* seven days
    None          \* null: no record, no tombstone

ASSUME RankAssumption ==
    /\ TurnRank \in [TurnIds -> Nat]
    /\ TurnCreatedAt \in [TurnIds -> Nat]
    /\ \A a, b \in TurnIds : /\ TurnRank[a] = TurnRank[b] => a = b
                             /\ TurnCreatedAt[a] < TurnCreatedAt[b]
                                  => TurnRank[a] < TurnRank[b]
ASSUME SourcesAssumption ==
    /\ IsFiniteSet(Sources)
    /\ TurnSources \in [TurnIds -> Seq(Sources)]
ASSUME SupportAssumption ==
    /\ TurnSupport \in [TurnIds -> SUBSET TurnIds]
    /\ RetryOf \in [TurnIds -> TurnIds \cup {None}]
    /\ DOMAIN Request = TurnIds
    /\ Grounded \subseteq TurnIds
ASSUME RetentionAssumption == Retention \in Nat \ {0}

Turn == [id : TurnIds, finishedAt : Nat]

(* An entry of the archive: the sources of its destinations. *)
Entry == [sources : SUBSET Sources, finishedAt : Nat]

Thread ==
    [createdAt : Nat, updatedAt : Nat, turns : Seq(Turn),
     archive : SUBSET Entry, catalog : [Sources -> Nat]]

Record ==
    [rev : Nat \ {0}, expiresAt : Nat, createdAt : Nat, updatedAt : Nat,
     turns : Seq(Turn), archive : SUBSET Entry, catalog : [Sources -> Nat]]

ASSUME NoneAssumption == None \notin Record /\ None \notin Nat /\ None \notin TurnIds

-----------------------------------------------------------------------------
(* retention.ts *)

ThreadExpiryAt(activity) == activity + Retention

-----------------------------------------------------------------------------
(* Threads: what they refer to, and when the schema accepts them. *)

EmptyCatalog == [s \in Sources |-> 0]

Admitted(catalog) == {s \in Sources : catalog[s] # 0}

Ids(turns) == {turn.id : turn \in ToSet(turns)}

Referenced(turns, archive) ==
    UNION {ToSet(TurnSources[turns[i].id]) : i \in DOMAIN turns}
        \cup UNION {entry.sources : entry \in archive}

InTurnOrder(turns) ==
    \A i, j \in DOMAIN turns :
        i < j => TurnRank[turns[i].id] < TurnRank[turns[j].id]

Contiguous(catalog) ==
    {catalog[s] : s \in Admitted(catalog)} = 1..Cardinality(Admitted(catalog))

(* What the schema asks of one turn: it did not finish before it was created,*)
(* its answer is grounded, what it retries is an earlier turn that asked the *)
(* same, and every turn it names as support is in the thread.                *)
Belongs(turn, turns) ==
    /\ TurnCreatedAt[turn.id] <= turn.finishedAt
    /\ turn.id \in Grounded
    /\ RetryOf[turn.id] # None =>
            /\ RetryOf[turn.id] \in Ids(turns)
            /\ TurnRank[RetryOf[turn.id]] < TurnRank[turn.id]
            /\ Request[RetryOf[turn.id]] = Request[turn.id]
    /\ TurnSupport[turn.id] \subseteq Ids(turns)

(* updatedAt is not before the thread's creation nor its latest activity. *)
Timely(thread) ==
    /\ thread.createdAt <= thread.updatedAt
    /\ \A i \in DOMAIN thread.turns : thread.turns[i].finishedAt <= thread.updatedAt
    /\ \A entry \in thread.archive : entry.finishedAt <= thread.updatedAt

(* threadV3Schema: some history, contiguous ordinals, ordered and distinct   *)
(* turns, no missing and no orphan source, every turn in its place.          *)
ValidThread(thread) ==
    /\ thread.turns # <<>> \/ thread.archive # {}
    /\ Contiguous(thread.catalog)
    /\ InTurnOrder(thread.turns)
    /\ Admitted(thread.catalog) = Referenced(thread.turns, thread.archive)
    /\ \A i \in DOMAIN thread.turns : Belongs(thread.turns[i], thread.turns)
    /\ Timely(thread)

-----------------------------------------------------------------------------
(* How a commit extends a thread. *)

(* The turn takes its place in the (createdAt, id) order. *)
AppendTurn(turns, turn) == Append(turns, turn)
Earlier(turns, turn) ==
    {i \in DOMAIN turns : TurnRank[turns[i].id] < TurnRank[turn.id]}
InsertTurn(turns, turn) ==
    InsertAt(turns, Cardinality(Earlier(turns, turn)) + 1, turn)

(* Supplied sources that are new take the next ordinals in supplied order;   *)
(* a source admitted before keeps the ordinal of its first admission.        *)
Position(supplied, s) == CHOOSE i \in DOMAIN supplied : supplied[i] = s
NewUpTo(catalog, supplied, n) ==
    Cardinality({i \in 1..n : catalog[supplied[i]] = 0})

RenumberedSources(catalog, supplied) ==
    [s \in Sources |->
        IF s \in ToSet(supplied) THEN Position(supplied, s) ELSE catalog[s]]
AdmitSources(catalog, supplied) ==
    [s \in Sources |->
        IF catalog[s] = 0 /\ s \in ToSet(supplied)
        THEN Cardinality(Admitted(catalog))
                + NewUpTo(catalog, supplied, Position(supplied, s))
        ELSE catalog[s]]

MaxOf(a, b) == IF a >= b THEN a ELSE b

CurrentTurns(record) == IF record = None THEN <<>> ELSE record.turns
CurrentCatalog(record) == IF record = None THEN EmptyCatalog ELSE record.catalog

(* Activity never moves back: a turn that finished before the thread's last  *)
(* activity does not shorten its retention.                                  *)
FinishedActivity(record, turn) == turn.finishedAt
LatestActivity(record, turn) ==
    IF record = None THEN turn.finishedAt
    ELSE MaxOf(record.updatedAt, turn.finishedAt)

(* A new thread is created with its first turn and has no archive. *)
Extended(record, input, rev) ==
    LET updatedAt == LatestActivity(record, input.turn)
    IN [rev       |-> rev,
        expiresAt |-> ThreadExpiryAt(updatedAt),
        createdAt |-> IF record = None THEN TurnCreatedAt[input.turn.id]
                      ELSE record.createdAt,
        updatedAt |-> updatedAt,
        turns     |-> InsertTurn(CurrentTurns(record), input.turn),
        archive   |-> IF record = None THEN {} ELSE record.archive,
        catalog   |-> AdmitSources(CurrentCatalog(record), input.supplied)]

-----------------------------------------------------------------------------
(* commitTerminalTurn: the verdict on an input                              *)
(* [turn, expected, create, supplied] against the state a store has read.    *)

(* Without the look for a turn that is stored already, a commit that is      *)
(* repeated after its answer was lost is a conflict.                         *)
NeverThere(record, turn) == {}
SameTurn(record, turn) ==
    {i \in DOMAIN record.turns : record.turns[i].id = turn.id}

(* Sources supplied once each and only if the turn refers to them, and every *)
(* source the turn refers to either supplied or admitted before.             *)
SourcesClosed(record, input) ==
    LET supplied == ToSet(input.supplied)
        needed   == ToSet(TurnSources[input.turn.id])
    IN /\ supplied \subseteq needed
       /\ Cardinality(supplied) = Len(input.supplied)
       /\ needed \subseteq supplied \cup Admitted(CurrentCatalog(record))

(* The checks that turn an input away before its sources are looked at. *)
Refusal(record, deleted, input) ==
    IF deleted THEN "thread_deleted"
    ELSE IF record = None
         THEN IF input.expected # 0 \/ ~input.create
              THEN "thread_not_found" ELSE "none"
    ELSE IF SameTurn(record, input.turn) # {}
         THEN IF \E i \in DOMAIN record.turns : record.turns[i] = input.turn
              THEN "already_committed" ELSE "integrity_failure"
    ELSE IF input.create THEN "invalid_record"
    ELSE IF input.expected # record.rev THEN "revision_conflict"
    ELSE "none"

(* "schema_rejected" is the invalid_record that the final validation of the  *)
(* extended thread returns; it has a name of its own so that a property can  *)
(* say when the policy builds such a thread.                                 *)
Verdict(record, deleted, input) ==
    LET refusal == Refusal(record, deleted, input)
        next    == Extended(record, input, 1)
    IN IF refusal # "none" THEN refusal
       ELSE IF ~SourcesClosed(record, input) THEN "invalid_record"
       ELSE IF ~ValidThread(next) THEN "schema_rejected"
       ELSE "committed"
=============================================================================

---------------------------- MODULE ThreadHistory ----------------------------
(***************************************************************************)
(* What a thread store promises for every thread id, whatever the adapter  *)
(* and however its operations interleave: turns are admitted one at a time *)
(* and stay, sources keep the ordinal of their first admission, a deleted  *)
(* thread comes back only through an import, and a thread is forgotten     *)
(* only once it has outlived its retention.                                *)
(***************************************************************************)
EXTENDS Integers

CONSTANTS
    Threads, TurnIds, Sources,
    BackupTurns,   \* the turns an import installs, by thread
    BackupOrdinal, \* and its sources' ordinals
    LegacyTurns,   \* the same of a migration
    LegacyOrdinal

VARIABLES
    state,    \* "absent", "live" or "deleted", by thread
    turns,    \* the ids of a thread's turns
    ordinal,  \* the ordinals of a thread's sources, 0 for none
    lapsed    \* threads whose retention has ended at some time

vars == <<state, turns, ordinal, lapsed>>

Others(t) == \A u \in Threads \ {t} :
    state'[u] = state[u] /\ turns'[u] = turns[u] /\ ordinal'[u] = ordinal[u]

Init ==
    /\ state = [t \in Threads |-> "absent"]
    /\ turns = [t \in Threads |-> {}]
    /\ ordinal = [t \in Threads |-> [s \in Sources |-> 0]]
    /\ lapsed = {}

(* One more turn, and sources after those admitted before. *)
Admit(t) ==
    /\ state[t] \in {"absent", "live"} /\ state'[t] = "live"
    /\ \E u \in TurnIds \ turns[t] : turns'[t] = turns[t] \cup {u}
    /\ \A s \in Sources :
        IF ordinal[t][s] # 0 THEN ordinal'[t][s] = ordinal[t][s]
        ELSE \A r \in Sources : ordinal'[t][s] # 0 => ordinal[t][r] < ordinal'[t][s]
    /\ Others(t) /\ UNCHANGED lapsed

Remove(t) ==
    /\ state[t] = "live" /\ state'[t] = "deleted"
    /\ turns'[t] = {} /\ ordinal'[t] = [s \in Sources |-> 0]
    /\ Others(t) /\ UNCHANGED lapsed

(* An import puts a whole thread in place, of a deleted one too. *)
Import(t) ==
    /\ state'[t] = "live"
    /\ turns'[t] = BackupTurns[t] /\ ordinal'[t] = BackupOrdinal[t]
    /\ Others(t) /\ UNCHANGED lapsed

(* A legacy record becomes a thread. *)
Migrate(t) ==
    /\ state[t] = "absent" /\ state'[t] = "live"
    /\ turns'[t] = LegacyTurns[t] /\ ordinal'[t] = LegacyOrdinal[t]
    /\ Others(t) /\ UNCHANGED lapsed

(* Retention ends for some threads; those whose retention has ended at some  *)
(* time may be forgotten, the others stay as they are.                       *)
Retire ==
    /\ lapsed \subseteq lapsed' /\ lapsed' \subseteq Threads
    /\ \A t \in Threads :
        \/ state'[t] = state[t] /\ turns'[t] = turns[t] /\ ordinal'[t] = ordinal[t]
        \/ /\ t \in lapsed' /\ state'[t] = "absent"
           /\ turns'[t] = {} /\ ordinal'[t] = [s \in Sources |-> 0]

Next ==
    \/ Retire
    \/ \E t \in Threads : Admit(t) \/ Remove(t) \/ Import(t) \/ Migrate(t)

Spec == Init /\ [][Next]_vars
=============================================================================

----------------------------- MODULE MCThreadInstance -----------------------------
(* The threads, turns and clients of the instances that TLC checks: one      *)
(* thread with a legacy record.  Turn u1 precedes u2 in creation order and   *)
(* refers to one source more; u3 retries u2 and names u2 as support.  The    *)
(* backup holds u2, which finished at 1, and the conversion of the legacy    *)
(* record an entry of the archive that refers to s2.                         *)
EXTENDS ThreadRecord, TLC

CONSTANTS t1, u1, u2, u3, s1, s2, c1, c2

MCThreads == {t1}
MCTurnIds == {u1, u2, u3}
MCSources == {s1, s2}
MCTurnCreatedAt == (u1 :> 0) @@ (u2 :> 0) @@ (u3 :> 1)
MCTurnRank == (u1 :> 1) @@ (u2 :> 2) @@ (u3 :> 3)
MCTurnSources == (u1 :> <<s2, s1>>) @@ (u2 :> <<s1>>) @@ (u3 :> <<>>)
MCTurnSupport == (u1 :> {}) @@ (u2 :> {}) @@ (u3 :> {u2})
MCRetryOf == (u1 :> None) @@ (u2 :> None) @@ (u3 :> u2)
MCRequest == (u1 :> 1) @@ (u2 :> 2) @@ (u3 :> 2)
MCBackup ==
    t1 :> [createdAt |-> 0, updatedAt |-> 1,
           turns     |-> <<[id |-> u2, finishedAt |-> 1]>>, archive |-> {},
           catalog   |-> (s1 :> 1) @@ (s2 :> 0)]
MCLegacy ==
    t1 :> [createdAt |-> 0, updatedAt |-> 0, turns |-> <<>>,
           archive   |-> {[sources |-> {s2}, finishedAt |-> 0]},
           catalog   |-> (s1 :> 0) @@ (s2 :> 1)]
MCClients == {c1, c2}
MCKinds == {"load", "list", "inspect", "commit", "remove", "import"}
Symmetry == Permutations(MCClients)
=============================================================================

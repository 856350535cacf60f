-------------------------- MODULE MCTurnController --------------------------
(* The instances of TurnController that TLC checks.  Thread t1 may have a    *)
(* legacy record, which holds the turn w1; run c1 builds u1 or v1, run c2    *)
(* builds u2 or v2.                                                          *)
EXTENDS TurnController, TLC

CONSTANTS t1, u1, u2, v1, v2, w1, s1, s2, c1, c2, b1, b2

MCThreads == {t1}
MCNoThreads == {}
MCTurnIds == {u1, u2, v1, v2, w1}
MCSources == {s1, s2}
MCAtStart == [u \in TurnIds |-> 0]
MCRank == (w1 :> 0) @@ (u1 :> 1) @@ (v1 :> 2) @@ (u2 :> 3) @@ (v2 :> 4)
MCTurnRank == [u \in TurnIds |-> MCRank[u]]
MCTurnSources == [u \in TurnIds |-> IF u = u1 THEN <<s2, s1>>
                                    ELSE IF u = u2 THEN <<s1>> ELSE <<>>]
MCNoSupport == [u \in TurnIds |-> {}]
MCNoRetry == [u \in TurnIds |-> None]
MCSupportOfU1 == [u \in TurnIds |-> IF u = u1 THEN {w1} ELSE {}]
MCSupportOfU2 == [u \in TurnIds |-> IF u = u2 THEN {w1} ELSE {}]

(* The turn w1, and an entry of the archive alone. *)
MCLookup ==
    t1 :> [createdAt |-> 0, updatedAt |-> 0,
           turns |-> <<[id |-> w1, finishedAt |-> 0]>>, archive |-> {},
           catalog |-> [s \in MCSources |-> 0]]
MCArchived ==
    t1 :> [createdAt |-> 0, updatedAt |-> 0, turns |-> <<>>,
           archive |-> {[sources |-> {}, finishedAt |-> 0]},
           catalog |-> [s \in MCSources |-> 0]]

MCClients == {c1, c2}
MCOneTab == (c1 :> b1) @@ (c2 :> b1)
MCFullTurn == (c1 :> u1) @@ (c2 :> u2)
MCBareTurn == (c1 :> v1) @@ (c2 :> v2)

(* One run, and another client. *)
MCOneRun == {c1}
MCOneRunTurnIds == {u1, v1, u2}
MCCitingTurnIds == {u1, v1, w1}
MCOneRunTab == {b1}
MCOneRunTabOf == c1 :> b1
MCOneRunFull == c1 :> u1
MCOneRunBare == c1 :> v1
MCOthers == {"commit", "remove"}
MCImports == {"import"}
MCEndings == {"terminal", "interrupted", "early", "failed"}
MCInterruptedEndings == {"interrupted", "early"}
MCTerminal == {"terminal", "early"}
=============================================================================

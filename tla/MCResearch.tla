------------------------------ MODULE MCResearch ------------------------------
(* The instance of ResearchTurn that TLC checks. *)
EXTENDS ResearchTurn

MCQuestions == {0, 1, 2}
MCDecompositions == {<<1, 2>>}
MCClaims == {<<"p">>, <<"q", "p">>}
MCBudget == [searches |-> 2, sources |-> 3, assessments |-> 3]

Hit(s) == [source |-> s, rank |-> 0]
MCSearchResults ==
    {<<>>, <<Hit(1), Junk, Hit(1), Hit(2), Hit(3)>>, <<Hit(3), [source |-> 4, rank |-> 1]>>}

(* One or two packs of one or two pages of 2 or 4 characters. *)
FreshPacks(n) ==
    LET Page(s, c) == [source |-> s, at |-> n, cost |-> c]
        Pack(o, q, pages) == [order |-> o, problem |-> 4 - n, query |-> q, sources |-> pages]
    IN {<<>>, <<Pack(1, 0, {Page(1, 2), Page(2, 4)})>>,
        <<Pack(1, 0, {Page(3, 4)}), Pack(2, 1, {Page(4, 2), Page(2, 2)})>>}

MCHistories(t) ==
    {ResearchTurnOf(t, r, f, 2, c) :
        r \in {1, 3}, f \in FreshPacks(Len(t) + 1), c \in {{}, {3}, {2, 3}}}
    \cup {SearchTurnOf(1, <<[source |-> 5, rank |-> 2], [source |-> 4, rank |-> 1],
                           [source |-> 4, rank |-> 3], [source |-> 6, rank |-> 1]>>)}

(* The context of the thread has a record of all it refers to. *)
ClosedContext(t) == Knows(BuildThreadContext(t))

MCAsks(t) ==
    \/ t = <<>>
    \/ /\ Len(t) = 1 /\ t[1].request = 1 /\ Len(t[1].packs) = 2 /\ t[1].supports # {}
    \/ /\ Len(t) = 2 /\ ~ClosedContext(t)
       /\ t[1].request = 1 /\ t[2].request = 1 /\ Len(t[2].answer) = 2

MCTexts == {<<Letter, Open, Open, Open, Cite, 1, Close, Close>>,
            <<Open, Open, Cite, 2, Close, Open, Open, Cite, 3, Close, Close, Open, Open>>,
            <<Blank>>}
=============================================================================

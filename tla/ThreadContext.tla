---------------------------- MODULE ThreadContext ----------------------------
(***************************************************************************)
(* What a thread contributes to its next research                          *)
(* (src/src/domain/thread-context.ts): the newest turns, as much of their  *)
(* answers and of their evidence as fits the budgets, and the sources that *)
(* go with them.  A thread grows by turns whose evidence is the context's  *)
(* joined with what the turn extracted itself, which is how a page comes   *)
(* to be stored twice.                                                     *)
(*                                                                         *)
(* Lengths are numbers of characters, scaled down.  A page is a source,    *)
(* when it was extracted, and its length; a part of an answer is a text    *)
(* (source 0) or a citation, with its length.                              *)
(***************************************************************************)
EXTENDS Knowledge

CONSTANTS
    MaxTurns,       \* maxThreadContextTurns
    MaxChars,       \* maxThreadContextChars: requests and answers
    MaxPerSource,   \* maxEvidenceCharsPerSource
    MaxTotal,       \* maxEvidenceCharsTotal
    MinPart,        \* the shortest part of a page that is admitted (256)
    KnownPerTurn,   \* known sources per turn (3)
    CiteCost,       \* characters of a citation token
    MaxResults      \* destinations of a search turn (5)

ASSUME ContextAssumption ==
    {MaxTurns, MaxChars, MaxPerSource, MaxTotal, MinPart, KnownPerTurn, CiteCost, MaxResults}
        \subseteq Nat \ {0}

Sum(seq) ==
    LET upTo[n \in 0..Len(seq)] == IF n = 0 THEN 0 ELSE upTo[n - 1] + seq[n]
    IN upTo[Len(seq)]
LengthsOf(parts) == [i \in DOMAIN parts |-> parts[i].cost]
Shorter(m, n) == IF m <= n THEN m ELSE n

-----------------------------------------------------------------------------
(* What a stored turn is, to its schema: its packs are few, none is empty,   *)
(* and none has two pages of one source.                                     *)

PageRecord == [source : Nat, at : Nat, cost : Nat]

StoredPacks ==
    {p \in [order : Nat, problem : Nat, query : Nat, sources : SUBSET PageRecord] :
        /\ IsFiniteSet(p.sources) /\ p.sources # {}
        /\ \A c, d \in p.sources : c.source = d.source => c = d}

StoredTurns ==
    {t \in [request : Nat \ {0}, packs : Seq(StoredPacks), supports : SUBSET Nat,
            destinations : Seq(Nat), answer : Seq([source : Nat, cost : Nat])] :
        Len(t.packs) <= MaxPacks /\ IsFiniteSet(t.supports)}

-----------------------------------------------------------------------------
(* The newest turns, without the oldest while their requests do not fit.     *)

Requests(turns) == Sum([i \in DOMAIN turns |-> turns[i].request])

Recent(turns) ==
    LET n == Len(turns)
        Fits(k) == n - k < MaxTurns /\ Requests(SubSeq(turns, k, n)) <= MaxChars
        first == CHOOSE k \in 1..(n + 1) :
                    /\ k = n + 1 \/ Fits(k)
                    /\ \A j \in 1..(k - 1) : ~Fits(j)
    IN SubSeq(turns, first, n)

-----------------------------------------------------------------------------
(* contextualAnswer: parts in order while they fit; a text that does not is  *)
(* cut, and nothing follows a part that did not fit.                         *)

Projected(answer, room) ==
    LET Whole(k) == Sum(LengthsOf(SubSeq(answer, 1, k)))
        n == CHOOSE k \in 0..Len(answer) :
                /\ Whole(k) <= room
                /\ k = Len(answer) \/ Whole(k + 1) > room
        cut == IF n < Len(answer) /\ answer[n + 1].source = 0 /\ Whole(n) < room
               THEN <<[source |-> 0, cost |-> room - Whole(n)]>> ELSE <<>>
    IN SubSeq(answer, 1, n) \o cut

(* The room for answers is spent on the newest first.                        *)
Answers(turns) ==
    LET n == Len(turns)
        room[i \in 1..(n + 1)] ==
            IF i = n + 1 THEN MaxChars - Requests(turns)
            ELSE room[i + 1] - Sum(LengthsOf(Projected(turns[i].answer, room[i + 1])))
    IN [i \in 1..n |-> Projected(turns[i].answer, room[i + 1])]

-----------------------------------------------------------------------------
(* buildEvidence: newest turn first, its packs in order, page by page.       *)

InPack(p, q) == p.order < q.order \/ (p.order = q.order /\ p.problem < q.problem)
ById(p, q) == p.source < q.source \/ (p.source = q.source /\ p.at < q.at)

PagesOf(turn, place) ==
    LET packs == turn.packs
        Before(i, j) == \/ InPack(packs[i], packs[j])
                        \/ ~InPack(packs[j], packs[i]) /\ i < j
        inOrder == InOrder(DOMAIN packs, Before)
        Pages(p) == LET pages == InOrder(p.sources, ById)
                    IN [i \in DOMAIN pages |->
                          [place |-> place, order |-> p.order, problem |-> p.problem,
                           query |-> p.query, page |-> pages[i]]]
    IN FlattenSeq([i \in DOMAIN packs |-> Pages(packs[inOrder[i]])])

Candidates(turns) ==
    LET n == Len(turns)
    IN FlattenSeq([i \in 1..n |-> PagesOf(turns[n + 1 - i], n + 1 - i)])

SamePage(c, d) == c.page.source = d.page.source   \* a mutant: any snapshot of it
SameSnapshot(c, d) ==
    /\ c.problem = d.problem /\ c.query = d.query
    /\ c.page.source = d.page.source /\ c.page.at = d.page.at

Seen(all, i) == \E j \in 1..(i - 1) : SameSnapshot(all[j], all[i])
Cost(c) == Shorter(c.page.cost, MaxPerSource)
Spent(all, i) ==
    Sum([j \in 1..(i - 1) |-> IF Seen(all, j) THEN 0 ELSE Cost(all[j])])

(* The first page that does not fit; there the reading stops.                *)
Stop(all) ==
    CHOOSE i \in 1..(Len(all) + 1) :
        /\ i = Len(all) + 1 \/ (~Seen(all, i) /\ Spent(all, i) + Cost(all[i]) > MaxTotal)
        /\ \A j \in 1..(i - 1) : Seen(all, j) \/ Spent(all, j) + Cost(all[j]) <= MaxTotal

(* evidence_integrity_failure: a page met before with another content.       *)
Corrupt(turns) ==
    LET all == Candidates(turns)
    IN \E i \in 1..(Stop(all) - 1), j \in 1..(Stop(all) - 1) :
          SameSnapshot(all[i], all[j]) /\ all[i].page.cost # all[j].page.cost

Uncut(c, room) == c   \* a mutant
Cut(c, room) == [c EXCEPT !.page.cost = Shorter(Cost(c), room)]

ReadUpTo(all, stop) ==
    LET room == MaxTotal - Spent(all, stop)
    IN {Cut(all[i], MaxTotal) : i \in {j \in 1..(stop - 1) : ~Seen(all, j)}}
       \cup (IF stop <= Len(all) /\ room >= MinPart THEN {Cut(all[stop], room)} ELSE {})

TakenOf(all) == ReadUpTo(all, Stop(all))
Taken(turns) == TakenOf(Candidates(turns))

(* Taken pages as packs again, oldest turn first.                            *)
PackOf(taken, c) ==
    [place |-> c.place, order |-> c.order, problem |-> c.problem, query |-> c.query,
     sources |-> {d.page : d \in {e \in taken :
                     /\ e.place = c.place /\ e.order = c.order
                     /\ e.problem = c.problem /\ e.query = c.query}}]

Chronicle(placed) ==
    LET Before(p, q) == p.place < q.place \/ (p.place = q.place /\ Precedes(p, q))
        Pack(p) == [order |-> p.order, problem |-> p.problem,
                    query |-> p.query, sources |-> p.sources]
        sorted == InOrder(placed, Before)
    IN [i \in DOMAIN sorted |-> Pack(sorted[i])]

PacksOf(taken) == Chronicle({PackOf(taken, c) : c \in taken})
Evidence(turns) == PacksOf(Taken(turns))

PageIds(evidence) == {page.source : page \in SourcesOf(evidence)}

-----------------------------------------------------------------------------
(* Known sources: of the evidence, of the findings, of completed searches,   *)
(* newest first, and no more than the cap.                                   *)

NewestFirst(parts) == FlattenSeq(Reverse(parts))

PageOrder(pages) == [i \in DOMAIN pages |-> pages[i].page.source]

Priorities(turns, ids) ==
    LET OfEvidence(t) ==
            LET order == PageOrder(PagesOf(t, 0))
            IN FlattenSeq([i \in DOMAIN order |->
                    IF order[i] \in ids THEN <<order[i]>> ELSE <<>>])
    IN NewestFirst([i \in DOMAIN turns |-> OfEvidence(turns[i])])
       \o NewestFirst([i \in DOMAIN turns |-> InOrder(turns[i].supports, <)])
       \o NewestFirst([i \in DOMAIN turns |-> turns[i].destinations])

Distinct(seq) ==
    LET firsts == {i \in DOMAIN seq : \A j \in 1..(i - 1) : seq[j] # seq[i]}
        places == InOrder(firsts, <)
    IN [i \in DOMAIN places |-> seq[places[i]]]

Capped(wanted) == ToSet(SubSeq(wanted, 1, Shorter(Len(wanted), MaxTurns * KnownPerTurn)))
Known(turns, evidence) == Capped(Distinct(Priorities(turns, PageIds(evidence))))

-----------------------------------------------------------------------------
(* buildThreadContext *)

Citations(answers) ==
    UNION {{part.source : part \in ToSet(answers[i])} : i \in DOMAIN answers} \ {0}

ContextWith(turns, evidence) ==
    [requests |-> Requests(turns), answers |-> Answers(turns),
     evidence |-> evidence, known |-> Known(turns, evidence), turns |-> Len(turns)]

ContextFrom(turns) == ContextWith(turns, Evidence(turns))
BuildThreadContext(thread) == ContextFrom(Recent(thread))

(* All that the context should carry fits its budgets.                       *)
AllFits(turns, all) ==
    /\ Stop(all) = Len(all) + 1
    /\ \A i \in DOMAIN all : all[i].page.cost <= MaxPerSource
    /\ Len(Distinct(Priorities(turns, PageIds(PacksOf(TakenOf(all))))))
          <= MaxTurns * KnownPerTurn

Comfortable(thread) == Recent(thread) = thread /\ AllFits(thread, Candidates(thread))

-----------------------------------------------------------------------------
(* A turn that ended: its evidence is the context's and its own, bounded;   *)
(* it is answered, with citations of pages it holds, when it holds two.      *)

Cites(cited) == [i \in DOMAIN cited |-> [source |-> cited[i], cost |-> CiteCost]]

AnsweredTurn(request, evidence, text, cited) ==
    [request |-> request, packs |-> evidence, destinations |-> <<>>,
     supports |-> ToSet(SubSeq(cited, 2, Len(cited))),
     answer |-> IF Cardinality(PageIds(evidence)) < 2 THEN <<>>
                ELSE <<[source |-> 0, cost |-> text]>> \o Cites(cited)]

TurnHolding(request, evidence, text, chosen) ==
    AnsweredTurn(request, evidence, text,
                 InOrder(chosen \cap PageIds(evidence), <))

ResearchTurnOf(thread, request, fresh, text, chosen) ==
    TurnHolding(request, Bounded(JoinEvidence(Evidence(Recent(thread)), fresh)),
                text, chosen)

(* normalizedResults: the first results of different sources, by rank.  A    *)
(* result without a rank makes the whole search fail.                        *)
NormalizedResults(raw) ==
    LET Fresh(i) == \A j \in 1..(i - 1) : raw[j].source # raw[i].source
        kept == {i \in DOMAIN raw :
                    /\ Fresh(i)
                    /\ Cardinality({j \in 1..i : Fresh(j)}) <= MaxResults}
        Before(a, b) == \/ a.rank < b.rank
                        \/ a.rank = b.rank /\ a.source < b.source
        sorted == InOrder({raw[i] : i \in kept}, Before)
    IN IF \E i \in kept : raw[i].rank <= 0 THEN <<>>
       ELSE [i \in DOMAIN sorted |-> sorted[i].source]

(* A search that found nothing, failed or was interrupted leaves its request.*)
SearchTurnOf(request, raw) ==
    [request |-> request, packs |-> <<>>, supports |-> {},
     destinations |-> NormalizedResults(raw), answer |-> <<>>]
=============================================================================

--------------------------- MODULE EvidenceAcquirer ---------------------------
(***************************************************************************)
(* The acquirer of evidence (src/src/application/evidence-acquirer.ts) as  *)
(* the resolver uses it, with one request at a time: one search, then      *)
(* workers that extract the first candidates, then one more candidate at a *)
(* time while fewer than two sources are viable.  Candidates that some     *)
(* retained pack already holds are associated and never extracted again.   *)
(*                                                                         *)
(* What the page of a source yields is decided when its extraction         *)
(* settles: "viable", or "lost" for every other outcome (skipped, failed,  *)
(* another source's page, blank text); the outcomes differ only in counts  *)
(* and in the status of a task record, which nothing here reads.           *)
(***************************************************************************)
EXTENDS Knowledge

CONSTANTS
    MaxCandidates,   \* candidates kept of one search
    Initial,         \* sources extracted at first, at most
    MaxSources,      \* sources extracted for one request, at most
    Workers,         \* extractions under way at a time, at most
    SearchResults    \* what a search may return: sequences of entries

ASSUME AcquirerAssumption ==
    /\ {MaxCandidates, Initial, MaxSources, Workers} \subseteq Nat \ {0}
    /\ Initial <= MaxSources
    /\ SearchResults \subseteq Seq([source : Nat, rank : Nat])

VARIABLE acq   \* the acquisition under way

Idle == [pc |-> "idle"]

(* A search has been admitted by the resolver's checks on the budget.        *)
Requested(problem, query, order, available, sources) ==
    [pc |-> "search", problem |-> problem, query |-> query, order |-> order,
     available |-> available,                     \* sources of retained packs
     capacity |-> sources,                        \* what the budget leaves
     candidates |-> <<>>, selected |-> <<>>, started |-> 0,
     outcome |-> <<>>, failure |-> "none"]

-----------------------------------------------------------------------------
(* canonicalizeSearchResults: entries that are no link, and links seen       *)
(* before, are discarded; a link without a rank of its own gets its place.   *)

Junk == [source |-> 0, rank |-> 0]

Canonical(raw) ==
    LET Fresh(i) == /\ raw[i] # Junk
                    /\ \A j \in 1..(i - 1) : raw[j].source # raw[i].source
        kept == {i \in DOMAIN raw : Fresh(i)}
        Place(i) == Cardinality({j \in kept : j <= i})
        Ranked(i) == [source |-> raw[i].source,
                      rank |-> IF raw[i].rank > 0 THEN raw[i].rank ELSE Place(i)]
        Before(a, b) == \/ a.rank < b.rank
                        \/ a.rank = b.rank /\ a.source < b.source
        links == {Ranked(i) : i \in {k \in kept : Place(k) <= MaxCandidates}}
        sorted == InOrder(links, Before)
    IN [i \in 1..Cardinality(links) |-> sorted[i].source]

(* The candidates that may be extracted, in the order of their ranks.        *)
AnyCandidate(a) == a.candidates   \* a mutant
Unextracted(a) ==
    LET new == {i \in DOMAIN a.candidates : a.candidates[i] \notin a.available}
        place == InOrder(new, <)
    IN [n \in 1..Cardinality(new) |-> a.candidates[place[n]]]

Least(m, n) == IF m <= n THEN m ELSE n

Viable(a) == {a.selected[i] : i \in {j \in DOMAIN a.outcome : a.outcome[j] = "viable"}}
InFlight(a) == {i \in 1..a.started : i \notin DOMAIN a.outcome}

(* Workers take the next selected source as soon as they are free.           *)
Manned(a) ==
    [a EXCEPT !.started =
        Least(Len(a.selected), Cardinality(DOMAIN a.outcome) + Workers)]

(* The first ownership opportunities, in rank order, within the budget.      *)
Selected(a) ==
    LET n == Least(Least(Initial, a.capacity), Len(Unextracted(a)))
    IN Manned([a EXCEPT !.pc = IF n = 0 THEN "done" ELSE "extract",
                        !.selected = SubSeq(Unextracted(a), 1, n)])

SearchAnswers ==
    /\ acq.pc = "search"
    /\ \E raw \in SearchResults :
          acq' = Selected([acq EXCEPT !.candidates = Canonical(raw)])

(* failureFor: of its codes only search_unavailable is told from the others. *)
SearchFails ==
    /\ acq.pc = "search"
    /\ \E code \in {"search_unavailable", "rate_limited"} :
          acq' = [acq EXCEPT !.pc = "done", !.failure = code]

(* Backfill: allocate one more, only when all that was allocated has settled *)
(* and pages are still sparse.                                               *)
BackfillsFreely(a) ==   \* a mutant: the budget is not looked at
    /\ MaxSources > Initial
    /\ Cardinality(a.available \cup Viable(a)) < 2
    /\ Len(a.selected) < MaxSources
    /\ Len(a.selected) < Len(Unextracted(a))

Backfills(a) ==
    /\ MaxSources > Initial
    /\ Cardinality(a.available \cup Viable(a)) < 2
    /\ Len(a.selected) < Least(a.capacity, MaxSources)
    /\ Len(a.selected) < Len(Unextracted(a))

Settled(a) ==
    IF DOMAIN a.outcome # DOMAIN a.selected THEN Manned(a)
    ELSE IF Backfills(a)
         THEN Manned([a EXCEPT !.selected = Append(@, Unextracted(a)[Len(@) + 1])])
         ELSE [a EXCEPT !.pc = "done"]

(* Map.set: x now maps to y. *)
With(f, x, y) == [z \in DOMAIN f \cup {x} |-> IF z = x THEN y ELSE f[z]]

ExtractionSettles ==
    /\ acq.pc = "extract"
    /\ \E i \in InFlight(acq), result \in {"viable", "lost"} :
          acq' = Settled([acq EXCEPT !.outcome = With(@, i, result)])

-----------------------------------------------------------------------------
(* What the caller gets.                                                     *)

Reused(a) == ToSet(a.candidates) \cap a.available

NewPacks(a) ==
    IF Viable(a) = {} THEN <<>>
    ELSE <<[order |-> a.order, problem |-> a.problem, query |-> a.query,
            sources |-> Viable(a)]>>

OnlyReused(a) == Reused(a)   \* a mutant: records of new pages are dropped
Admitted(a) == Reused(a) \cup Viable(a)
=============================================================================

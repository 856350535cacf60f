------------------------------ MODULE Knowledge ------------------------------
(***************************************************************************)
(* Knowledge units and how they are joined                                 *)
(* (src/src/domain/knowledge.ts, the bounded join of                       *)
(* src/src/application/research-resolver.ts, the synthesis floor of        *)
(* src/src/application/research-synthesis-policy.ts).                      *)
(*                                                                         *)
(* A source is its canonical URL, a number; a problem and a query are the  *)
(* numbers they sort by.  A pack is what one request for evidence          *)
(* extracted.  Every pack of a program carries the same createdAt, because *)
(* no caller of the acquirer supplies a clock, so packs are ordered by     *)
(* request order and names alone.  Findings map a proposition to the text  *)
(* it is displayed with and to its observations, each the set of           *)
(* references that support it.  A unit records the problem that owns it,   *)
(* for two units compared as JSON differ when their owners do.             *)
(***************************************************************************)
EXTENDS Integers, FiniteSets, SequencesExt

CONSTANT MaxPacks   \* MAX_KNOWLEDGE_EVIDENCE_PACKS
ASSUME MaxPacksAssumption == MaxPacks \in Nat \ {0}

Nothing == <<>>     \* no findings: the function with the empty domain

Unit(owner, findings, evidence) ==
    [owner |-> owner, findings |-> findings, evidence |-> evidence]

SourcesOf(evidence) == UNION {p.sources : p \in ToSet(evidence)}

(* sort: the elements of a set in an order that tells them apart, each in    *)
(* the place that the number of those before it gives.  (T names S, and has  *)
(* TLC evaluate it once.)                                                    *)
InOrder(S, Before(_, _)) ==
    LET Placed(T) ==
            [n \in 1..Cardinality(T) |->
                CHOOSE x \in T : Cardinality({y \in T : Before(y, x)}) = n - 1]
    IN CHOOSE f \in {Placed(T) : T \in {S}} : TRUE

-----------------------------------------------------------------------------
(* joinFindings: a proposition keeps the text it has; another text for it is *)
(* a KnowledgeIntegrityError.                                                *)

Conflict(f, g) == \E p \in DOMAIN f \cap DOMAIN g : f[p].text # g[p].text

Observations(f, p) == IF p \in DOMAIN f THEN f[p].observations ELSE {}

JoinFindings(f, g) ==
    [p \in DOMAIN f \cup DOMAIN g |->
        [text |-> IF p \in DOMAIN f THEN f[p].text ELSE g[p].text,
         observations |-> Observations(f, p) \cup Observations(g, p)]]

References(f) == UNION {UNION f[p].observations : p \in DOMAIN f}

-----------------------------------------------------------------------------
(* joinEvidence: packs with the same key are one pack.                       *)

SamePack(p, q) == p.order = q.order /\ p.problem = q.problem /\ p.query = q.query

Precedes(p, q) ==
    \/ p.order < q.order
    \/ p.order = q.order /\ p.problem < q.problem
    \/ p.order = q.order /\ p.problem = q.problem /\ p.query < q.query

JoinEvidence(a, b) ==
    LET all == ToSet(a) \cup ToSet(b)
        Whole(p) == UNION {q.sources : q \in {r \in all : SamePack(p, r)}}
    IN InOrder({[p EXCEPT !.sources = Whole(p)] : p \in all}, Precedes)

(* The newest packs are kept, and then put in another order than the join's. *)
Newer(p, q) ==
    \/ p.order > q.order
    \/ p.order = q.order /\ p.query < q.query
    \/ p.order = q.order /\ p.query = q.query /\ p.problem < q.problem

Chronological(p, q) ==
    \/ p.order < q.order
    \/ p.order = q.order /\ p.query < q.query
    \/ p.order = q.order /\ p.query = q.query /\ p.problem < q.problem

Latest(packs) == {p \in packs : Cardinality({q \in packs : Newer(q, p)}) < MaxPacks}

KeptAll(evidence) == evidence   \* a mutant: the join is not bounded
Bounded(evidence) ==
    IF Len(evidence) <= MaxPacks THEN evidence
    ELSE InOrder(Latest(ToSet(evidence)), Chronological)

JoinBounded(owner, a, b) ==
    Unit(owner, JoinFindings(a.findings, b.findings),
         Bounded(JoinEvidence(a.evidence, b.evidence)))

-----------------------------------------------------------------------------
Useful(unit) == unit.findings # Nothing \/ SourcesOf(unit.evidence) # {}

(* viableEvidenceSourceCount, and the floor every answer stands on.          *)
ViableCount(unit) == Cardinality(SourcesOf(unit.evidence))

Unfloored(r) == r   \* a mutant
Floored(r) ==
    IF r.status = "insufficient" \/ ViableCount(r.knowledge) >= 2 THEN r
    ELSE [r EXCEPT !.status = "insufficient",
                   !.stop = IF r.status = "sufficient" THEN "no_new_knowledge" ELSE @]
=============================================================================

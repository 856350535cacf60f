--------------------------- MODULE ResearchResolver ---------------------------
(***************************************************************************)
(* The recursive resolver of one research                                  *)
(* (src/src/application/research-resolver.ts) with the assessor it asks    *)
(* (src/src/application/research-assessor.ts), the attempts of the         *)
(* language model behind it (anthropic.ts) and the acquirer.               *)
(*                                                                         *)
(* A problem is the path of questions that leads to it, which is what its  *)
(* id is derived from; its fingerprint is its last question.  The stack    *)
(* holds the calls of resolveProblem; the calls that revisit a problem     *)
(* after a search or after its children are tail calls and stay in their   *)
(* frame.  What runs between two awaits is one step.                       *)
(*                                                                         *)
(* Bounds: the budgets and MaxDepth are constants; the questions, the      *)
(* claims and the decompositions an assessment may propose are small sets. *)
(***************************************************************************)
EXTENDS EvidenceAcquirer

CONSTANTS
    Root,            \* the user's question
    Questions,       \* questions a decomposition may name
    Queries,         \* queries an assessment may ask for; a question is one too
    Decompositions,  \* sequences of questions, in the order of priority
    Claims,          \* sequences of propositions a resolved assessment makes
    Budget,          \* [searches, sources, assessments]
    MaxDepth         \* MAX_RESEARCH_DEPTH

ASSUME ResolverAssumption ==
    /\ Root \in Questions /\ IsFiniteSet(Questions)
    /\ Questions \subseteq Nat /\ Queries \subseteq Nat
    /\ Decompositions \subseteq Seq(Questions)
    /\ \A claim \in Claims : ToSet(claim) # {}
    /\ MaxDepth \in Nat \ {0}
    /\ Budget \in [searches : Nat, sources : Nat, assessments : Nat]

VARIABLES
    context,    \* what the thread contributes: [known, evidence, turns]
    stack,      \* frames of resolveProblem, the innermost last
    gaps,       \* the ledger: problem -> [status, support]
    used,       \* the ledger's counters
    budget,     \* what remains of the budget
    gathered,   \* state.knowledge: all that was learned, for a checkpoint
    tasks,      \* the searches done: [query, evidence]
    admitted,   \* sources admitted since the research began
    active,     \* fingerprints of the problems being resolved
    aborted,    \* the request was aborted
    outcome     \* what resolve returned or threw

resolverVars == <<stack, gaps, used, budget, gathered, tasks, admitted, active, outcome>>

Pending == [kind |-> "pending"]
Running == stack # <<>> /\ outcome = Pending
Top == stack[Len(stack)]
Depth(path) == Len(path) - 1
Fingerprint(path) == path[Len(path)]
OpenGap == [status |-> "open", support |-> {}]

(* The place of a problem id among others; an id is a hash.                  *)
IdRank(path) ==
    LET rank[n \in 0..Len(path)] ==
            IF n = 0 THEN 0
            ELSE rank[n - 1] * (1 + Cardinality(Questions)) + path[n] + 1
    IN rank[Len(path)]

Frame(path, know) ==
    [path |-> path, know |-> know, pc |-> "enter", query |-> Root,
     todo |-> <<>>, operator |-> "all", attempt |-> 0]

(* finally: the fingerprint of a call is released. *)
NotFreed(path) == active   \* a mutant: it stays
Freed(path) == active \ {Fingerprint(path)}

NearlyUsedUp(part) == budget[part] <= 1   \* a mutant: off by one
UsedUp(part) == budget[part] <= 0

WithTop(f) == [stack EXCEPT ![Len(stack)] = f]
Mark(path, status) == [gaps EXCEPT ![path].status = status]

-----------------------------------------------------------------------------
(* How a call ends. *)

(* resolution(): the status of the root's answer, and the floor.             *)
Answer(know, stop, ledger) ==
    LET open == \E path \in DOMAIN ledger : ledger[path].status = "open"
        status == IF ~open /\ stop = "sufficient" THEN "sufficient"
                  ELSE IF Useful(know) THEN "best_effort" ELSE "insufficient"
    IN Floored([kind |-> "resolution", knowledge |-> know, status |-> status,
                stop |-> IF status # "sufficient" /\ stop = "sufficient"
                         THEN "no_new_knowledge" ELSE stop])

(* What a caller knows once a call of its own has returned.                  *)
Ignored(parent, know) == parent.know   \* a mutant: the child's findings are lost
Combined(parent, know) == JoinBounded(parent.path, parent.know, know)

(* The innermost call returns: its fingerprint is released and the caller    *)
(* joins what it learned; `any' needs one sufficient child.  (A quantifier   *)
(* over one joined unit names it, and has TLC evaluate it once.)             *)
Return(know, stop, ledger, learned, busy) ==
    /\ gaps' = ledger
    /\ active' = busy
    /\ IF Len(stack) = 1
       THEN /\ stack' = <<>>
            /\ outcome' = Answer(know, stop, ledger)
            /\ gathered' = learned
       ELSE LET parent == stack[Len(stack) - 1]
                enough == parent.operator = "any" /\ stop = "sufficient"
            IN \E combined \in {Combined(parent, know)} :
                 /\ stack' = Append(SubSeq(stack, 1, Len(stack) - 2),
                                    [parent EXCEPT !.know = combined,
                                                   !.todo = IF enough THEN <<>> ELSE @])
                 /\ gathered' = JoinBounded(<<Root>>, learned, combined)
                 /\ UNCHANGED outcome

StillOpen(know, stop) ==   \* a mutant: the gap is forgotten
    Return(know, stop, gaps, gathered, Freed(Top.path))
Blocked(know, stop) ==
    Return(know, stop, Mark(Top.path, "blocked"), gathered,
           Freed(Top.path))

(* After an abort, and when it reads like an interruption, an error is       *)
(* thrown through; any other becomes a checkpoint.                           *)
Throws(interrupted) ==
    /\ stack' = <<>>
    /\ outcome' = IF aborted \/ interrupted THEN [kind |-> "thrown"]
                  ELSE [kind |-> "checkpoint", knowledge |-> gathered]
    /\ active' = {}
    /\ UNCHANGED <<gaps, gathered>>

-----------------------------------------------------------------------------
(* resolveProblem, up to its first await. *)

RootSearch(f) == Depth(f.path) = 0 /\ tasks = <<>>

Enter ==
    /\ Running /\ Top.pc = "enter"
    /\ LET f == Top
           mark == Fingerprint(f.path)
           ledger == IF f.path \in DOMAIN gaps THEN gaps ELSE With(gaps, f.path, OpenGap)
           block == [ledger EXCEPT ![f.path].status = "blocked"]
       IN \/ aborted /\ Throws(FALSE)
          \/ /\ ~aborted /\ mark \in active
             /\ Return(f.know, "duplicate_problem", block, gathered, active)
          \/ /\ ~aborted /\ mark \notin active /\ UsedUp("assessments")
             /\ Return(f.know, "assessment_budget_exhausted", block, gathered, active)
          \/ /\ ~aborted /\ mark \notin active /\ ~UsedUp("assessments")
             /\ gaps' = ledger
             /\ active' = active \cup {mark}
             /\ stack' = WithTop(IF RootSearch(f)
                                 THEN [f EXCEPT !.pc = "search", !.query = mark]
                                 ELSE [f EXCEPT !.pc = "assess", !.attempt = 1])
             /\ UNCHANGED <<gathered, outcome>>
    /\ UNCHANGED <<context, used, budget, tasks, admitted, aborted, acq>>

-----------------------------------------------------------------------------
(* assess: at most two attempts at the model, then validation. *)

Assessing == Running /\ Top.pc = "assess"

(* refsFor: what an observation may cite.                                    *)
AllowedRefs(know) ==
    context.turns \cup SourcesOf(context.evidence) \cup SourcesOf(know.evidence)
        \cup References(know.findings)

FreeOfCharge == UNCHANGED <<budget, used>>   \* a mutant
Charge ==
    /\ budget' = [budget EXCEPT !.assessments = @ - 1]
    /\ used' = [used EXCEPT !.assessments = @ + 1]

(* One observation for each proposition claimed, citing all that is allowed. *)
(* The text of every finding is that of the FIRST observation.               *)
Asserted(claim, refs) ==
    [p \in ToSet(claim) |-> [text |-> claim[1], observations |-> {refs}]]

(* mergeFindings: a proposition known already keeps its text when the two    *)
(* are the same.                                                             *)
Merged(f, found) == JoinBounded(f.path, f.know, Unit(f.path, found, f.know.evidence))

(* A conflict of texts is thrown before the assessment is charged.           *)
AssessesResolved ==
    /\ Assessing
    /\ AllowedRefs(Top.know) # {}
    /\ \E claim \in Claims :
       \E found \in {Asserted(claim, AllowedRefs(Top.know))} :
       \E merged \in {Merged(Top, found)} :
       \E learned \in {JoinBounded(<<Root>>, gathered, merged)} :
       LET f == Top
       IN IF Conflict(f.know.findings, found) \/ Conflict(gathered.findings, found)
          THEN Throws(FALSE) /\ UNCHANGED <<used, budget>>
          ELSE /\ Charge
               /\ IF merged = f.know
                  THEN Return(merged, "no_new_knowledge", Mark(f.path, "blocked"),
                              learned, Freed(f.path))
                  ELSE Return(merged, "sufficient",
                              [gaps EXCEPT ![f.path] =
                                  [status |-> "resolved",
                                   support |-> References(merged.findings)]],
                              learned, Freed(f.path))
    /\ UNCHANGED <<context, tasks, admitted, aborted, acq>>

AssessesSearch ==
    /\ Assessing
    /\ \E q \in Queries :
          stack' = WithTop([Top EXCEPT !.pc = "search", !.query = q])
    /\ Charge
    /\ UNCHANGED <<context, gaps, gathered, tasks, admitted, active, aborted, outcome, acq>>

AssessesDecompose ==
    /\ Assessing
    /\ \E children \in Decompositions, operator \in {"all", "any"} :
          stack' = WithTop([Top EXCEPT !.pc = "children", !.operator = operator,
                                       !.todo = children])
    /\ gaps' = Mark(Top.path, "decomposed")
    /\ Charge
    /\ UNCHANGED <<context, gathered, tasks, admitted, active, aborted, outcome, acq>>

(* Output that does not parse, or a request the provider refuses, uses up an *)
(* attempt; a second one makes the provider unavailable.                     *)
AttemptFails ==
    /\ Assessing
    /\ \/ /\ Top.attempt = 1
          /\ stack' = WithTop([Top EXCEPT !.attempt = 2])
          /\ UNCHANGED <<gaps, gathered, active, outcome>>
       \/ /\ Top.attempt = 2
          /\ Blocked(Top.know, "provider_unavailable")
    /\ UNCHANGED <<context, used, budget, tasks, admitted, aborted, acq>>

(* A limit, an outage or a failure of the provider is not tried again.       *)
ProviderUnavailable ==
    /\ Assessing
    /\ Blocked(Top.know, "provider_unavailable")
    /\ UNCHANGED <<context, used, budget, tasks, admitted, aborted, acq>>

(* The proposal is rejected by validation, or the call was interrupted.      *)
AssessmentThrows ==
    /\ Assessing
    /\ \E interrupted \in BOOLEAN : Throws(interrupted)
    /\ UNCHANGED <<context, used, budget, tasks, admitted, aborted, acq>>

-----------------------------------------------------------------------------
(* A search: the checks on the budget, the acquisition, and what follows. *)

Repeated(q) == \E i \in DOMAIN tasks : tasks[i].query = q

BeginSearch ==
    /\ Running /\ Top.pc = "search" /\ acq = Idle
    /\ LET f == Top
       IN \/ /\ UsedUp("searches")
             /\ Blocked(f.know, "search_budget_exhausted")
             /\ UNCHANGED acq
          \/ /\ ~UsedUp("searches") /\ UsedUp("sources")
             /\ Blocked(f.know, "source_budget_exhausted")
             /\ UNCHANGED acq
          \/ /\ ~UsedUp("searches") /\ ~UsedUp("sources") /\ Repeated(f.query)
             /\ Blocked(f.know, "no_new_knowledge")
             /\ UNCHANGED acq
          \/ /\ ~UsedUp("searches") /\ ~UsedUp("sources") /\ ~Repeated(f.query)
             /\ acq' = Requested(IdRank(f.path), f.query, Cardinality(DOMAIN gaps),
                                 SourcesOf(gathered.evidence), budget.sources)
             /\ UNCHANGED <<stack, gaps, gathered, active, outcome>>
    /\ UNCHANGED <<context, used, budget, tasks, admitted, aborted>>

(* The hits whose pages the research holds, three at most.                   *)
TaskEvidence(f) ==
    LET held == SourcesOf(f.know.evidence) \cup SourcesOf(context.evidence) \cup Viable(acq)
        hits == {i \in DOMAIN acq.candidates : acq.candidates[i] \in held}
    IN {acq.candidates[i] : i \in {j \in hits : Cardinality({k \in hits : k < j}) < 3}}

(* A search that found nothing new ends the problem, except the first one of *)
(* the root, which an assessment follows all the same.                       *)
EndSearch ==
    /\ Running /\ acq.pc = "done"
    /\ \E after \in {JoinBounded(Top.path, Top.know,
                                Unit(Top.path, Nothing, NewPacks(acq)))} :
       \E learned \in {JoinBounded(<<Root>>, gathered, after)} :
       LET f == Top
           again == \/ f.know # after
                    \/ Depth(f.path) = 0 /\ tasks = <<>> /\ used.assessments = 0
       IN /\ admitted' = admitted \cup Admitted(acq)
          /\ tasks' = Append(tasks, [query |-> f.query, evidence |-> TaskEvidence(f)])
          /\ budget' = [budget EXCEPT !.searches = @ - 1,
                                      !.sources = @ - Len(acq.selected)]
          /\ used' = [used EXCEPT !.searches = @ + 1, !.sources = @ + Len(acq.selected)]
          /\ IF again
             THEN /\ gaps' = Mark(f.path, "open")
                  /\ active' = Freed(f.path)
                  /\ stack' = WithTop([f EXCEPT !.know = after, !.pc = "enter"])
                  /\ gathered' = learned
                  /\ UNCHANGED outcome
             ELSE Return(after, IF acq.failure = "search_unavailable"
                                THEN "provider_unavailable" ELSE "no_new_knowledge",
                         Mark(f.path, "blocked"), learned, Freed(f.path))
    /\ acq' = Idle
    /\ UNCHANGED <<context, aborted>>

-----------------------------------------------------------------------------
(* The children of a decomposition, one after the other; then the problem is *)
(* assessed again.                                                           *)

NextChild ==
    /\ Running /\ Top.pc = "children"
    /\ LET f == Top
       IN \/ /\ Depth(f.path) >= MaxDepth
             /\ Blocked(f.know, "depth_limit_reached")
          \/ /\ Depth(f.path) < MaxDepth /\ f.todo # <<>>
             /\ stack' = Append(WithTop([f EXCEPT !.todo = Tail(@)]),
                                Frame(Append(f.path, Head(f.todo)), f.know))
             /\ UNCHANGED <<gaps, gathered, active, outcome>>
          \/ /\ Depth(f.path) < MaxDepth /\ f.todo = <<>>
             /\ active' = Freed(f.path)
             /\ stack' = WithTop([f EXCEPT !.pc = "enter"])
             /\ UNCHANGED <<gaps, gathered, outcome>>
    /\ UNCHANGED <<context, used, budget, tasks, admitted, aborted, acq>>

(* The acquirer works for the innermost call and knows of no abort.          *)
Acquire ==
    /\ Running
    /\ SearchAnswers \/ SearchFails \/ ExtractionSettles
    /\ UNCHANGED <<context, aborted, resolverVars>>

Abort ==
    /\ Running /\ ~aborted
    /\ aborted' = TRUE
    /\ UNCHANGED <<context, resolverVars, acq>>

ResolverNext ==
    \/ Enter \/ AssessesResolved \/ AssessesSearch \/ AssessesDecompose
    \/ AttemptFails \/ ProviderUnavailable \/ AssessmentThrows
    \/ BeginSearch \/ EndSearch \/ NextChild \/ Acquire \/ Abort

(* resolve(): a fresh ledger, and the context's evidence as first knowledge. *)
Begins(ctx) ==
    /\ context' = ctx
    /\ gathered' = JoinBounded(<<Root>>, Unit(<<Root>>, Nothing, <<>>),
                               Unit(<<Root>>, Nothing, ctx.evidence))
    /\ stack' = <<Frame(<<Root>>, gathered')>>
    /\ gaps' = [path \in {<<Root>>} |-> OpenGap]
    /\ used' = [searches |-> 0, sources |-> 0, assessments |-> 0]
    /\ budget' = Budget
    /\ tasks' = <<>> /\ admitted' = {} /\ active' = {}
    /\ outcome' = Pending /\ acq' = Idle

-----------------------------------------------------------------------------
(* Properties. *)

Resolved == outcome # Pending /\ outcome.kind = "resolution"

(* What was spent and what is left make up the budget, nothing is spent that *)
(* was not there, and an acquisition keeps within the sources left and the   *)
(* workers it has, for whatever searches and extractions bring.              *)
BudgetsHold ==
    /\ \A k \in DOMAIN Budget : budget[k] \in Nat /\ used[k] + budget[k] = Budget[k]
    /\ acq.pc \in {"extract", "done"} =>
          /\ Len(acq.selected) <= Least(MaxSources, budget.sources)
          /\ Cardinality(InFlight(acq)) <= Workers

(* What is marked as being resolved is what the calls under way have marked, *)
(* each problem once, so that no revisit takes itself for a cycle and no     *)
(* cycle is entered, whatever returns, searches and children come between.   *)
ActiveIsStack ==
    LET entered == {i \in DOMAIN stack : stack[i].pc # "enter"}
    IN /\ active = {Fingerprint(stack[i].path) : i \in entered}
       /\ Cardinality(active) = Cardinality(entered)

(* A research that ends with a resolution leaves no gap open or waiting for  *)
(* children, whichever way each of its calls ended.                          *)
GapsDecided ==
    Resolved => \A p \in DOMAIN gaps : gaps[p].status \in {"resolved", "blocked"}

(* "Sufficient" means that the user's question was resolved, by findings,    *)
(* and that two sources were extracted or brought along; it is the stop      *)
(* reason exactly then.                                                      *)
SufficientIsEarned ==
    Resolved =>
        /\ (outcome.status = "sufficient") = (outcome.stop = "sufficient")
        /\ outcome.status = "sufficient" =>
              /\ gaps[<<Root>>].status = "resolved"
              /\ outcome.knowledge.findings # Nothing
              /\ ViableCount(outcome.knowledge) >= 2

(* A research stops for the reason it gives: the budget it names is used up, *)
(* and the reasons that only stop a part of it are not reported for all.     *)
StopIsTrue ==
    Resolved =>
        /\ outcome.stop = "assessment_budget_exhausted" => budget.assessments = 0
        /\ outcome.stop = "search_budget_exhausted" => budget.searches = 0
        /\ outcome.stop = "source_budget_exhausted" => budget.sources = 0
        /\ outcome.stop \notin {"duplicate_problem", "depth_limit_reached"}

(* What a checkpoint would save is what the innermost call knows, through    *)
(* every call, return and search: nothing learned is lost on the way up.     *)
KnowledgeTravels ==
    LET Same(know) == /\ know.findings = gathered.findings
                      /\ ToSet(know.evidence) = ToSet(gathered.evidence)
    IN /\ Running => Same(Top.know)
       /\ Resolved => Same(outcome.knowledge)

(* No page is held twice by the packs of a research: a source is extracted   *)
(* anew only when the pack that held it has been given up.  Two packs of the *)
(* context may share one.                                                    *)
OfContext(p) == \E c \in ToSet(context.evidence) : SamePack(c, p)

OnePackPerSource ==
    \A i, j \in DOMAIN gathered.evidence :
        LET p == gathered.evidence[i]
            q == gathered.evidence[j]
        IN \/ i = j
           \/ p.sources \cap q.sources = {}
           \/ OfContext(p) /\ OfContext(q)
=============================================================================

# A verification project for Dorothy Ann

Dorothy Ann is a research assistant in the browser: the user asks in a *thread*,
a server executes the *turn* (a search, or a recursive research), streams it
back, and the browser commits the finished turn to a *thread store*, which is
IndexedDB or, when configured, a Redis behind an authenticated API. This
directory holds TLA+ models of the parts where the order of events matters,
the TLC instances that check them and proofs for TLAPS. Paths below are relative
to the repository (`src/` is its code, `server/` and `api/` its deployment).

## 1. Inventory

| Component | State it keeps | Operations | Hard behaviour | What makes it correct |
|---|---|---|---|---|
| Terminal commit policy (`application/commit-terminal-turn.ts`, `domain/schemas.ts`, `domain/retention.ts`) | none (pure) | `commitTerminalTurn` on a record that was read and a finished turn | turns that finish in another order than they were created; a turn that is there already; sources met again | idempotent; turns ordered by (createdAt, id); ordinals of sources contiguous and stable; retention never shortened; a thread it builds fails its schema only for a fault of the new turn |
| Thread store operations (`infrastructure/storage/thread-store-base.ts`) | inspected import candidates (32) | load, list, commit, remove, export, inspect, import | read, decide, write with other clients in between; expiry; deletion; migration | no lost update, no resurrection, no false integrity failure, no listing that misses a thread |
| IndexedDB adapter (`infrastructure/browser/indexeddb-thread-store.ts`) | records, tombstones, index, legacy values | one transaction per step | several tabs; a tab that dies | as above |
| Redis adapter (`infrastructure/storage/redis-thread-store.ts`) | the same, as keys with expiry | GETs, DEL, ZREM, three Lua scripts | several requests; two GETs that are not a transaction; keys Redis drops itself | as above |
| Turn controller (`ui/controllers/turn-controller.ts`) | the run, its pending candidate, the sequence expected | run, acceptEvent, cancel, retryCommit | cancellation against a terminal event; conflict, reload, one rebase; the failure of a commit | a saved turn is in the thread; a run ends; a turn is refused for good only when its thread is gone |
| Thread route (`ui/routes/ThreadRoute.tsx`) | the thread last known, the controller last made, the view | submit, first load, leaving | a submission while the first one loads or commits | one run at a time per workspace |
| Turn stream (`server/turn-stream-boundary.ts`, `infrastructure/browser/turn-gateway.ts`) | sequence, caps on previews, abort | frames out, frames in | abort against terminal, invalid signals, a connection that ends | exactly one ending, in order, accepted as what it was |
| Remote thread store (`infrastructure/browser/remote-thread-store.ts`, `server/thread-storage-routes.ts`) | candidates | the store's operations over HTTP | calls and answers that are lost | a commit that took place is never refused when it is tried again |
| Research resolver (`application/research-resolver.ts`, `domain/knowledge.ts`) | ledger of gaps, budgets, active problems, knowledge, tasks | resolve, assess, acquire, decompose | recursion under budgets with failures anywhere | terminates within its budgets; no gap is left undecided; the stop reason is the true one; nothing learned is lost on the way up |
| Evidence acquirer (`application/evidence-acquirer.ts`) | candidates, chosen sources, extractions under way | search and extraction workers, backfill | workers that settle in any order, failures, shared capacities | the budget of sources is never overrun; no page is held twice |
| Thread context (`domain/thread-context.ts`) | none (pure) | select what a thread contributes to its next turn | budgets of characters per page, per turn and in all; the same page in several turns | within its budgets; newest first; a thread that fits them can go on |
| Research and search turns (`execute-research-turn.ts`, `execute-search-turn.ts`, `answer-synthesizer.ts`, the citation parser of `anthropic.ts`) | none across turns | context, resolution, closure of references, streamed answer | which failure becomes which outcome; an answer cut into chunks anywhere | every research ends; one that was given closed context never fails for references of its own; the answer says what the stream said |
| Turn executor of the server (`server/app.ts`) | stage, the preview held back | emit states, previews and the terminal | abort against terminal | every execution yields one ending |
| Migrations, identity policy (`domain/migrations.ts`, `application/identity-policy.ts`) | none (pure) | conversions, hashes of canonical material | bounds on data | deterministic |
| Server application, auth, limiter, runtime, providers, user interface, build | configuration | I/O, rendering | little of it is ordering | not modelled |

The parts interact so: the thread route loads the thread from the store, makes a
controller and runs it; the controller opens a stream through the gateway and
reads events until a terminal one, an error or an interruption; it builds the
turn and commits it through the store operations, which call the adapter
transaction by transaction; a conflict sends the controller back to the store
for the current revision. Tabs (or request handlers) meet only in the database.
On the server, a research turn is a chain: the browser sends the context it built
from the thread; the resolver asks the assessor for directives, and the acquirer
for evidence, one call inside the other; what it resolves is checked for
references and given to the synthesizer, whose stream the citation parser turns
into an answer. Each link sees only what the previous one returned.

`PROJECT.json` lists the hazards of this code, each at its line and with the
property that covers it, or the reason why none does.

## 2. Modules

    ThreadRecord                 records, the commit policy, the schema's rules
      ThreadStoreBase            the operations, suspended between storage steps
        IndexedDbThreadStore     their steps as IndexedDB transactions
          TurnController         submissions, controllers and tabs over the store
        RedisThreadStore         their steps as Redis commands and scripts
    TurnStream                   executor, boundary, connection and client of one turn
    Knowledge                    units of knowledge, their join, bounded packs, the floor
      EvidenceAcquirer           one search and the extractions it leads to
        ResearchResolver         the recursion over problems, with assessor and budgets
          ResearchTurn           thread, context, resolver, closure, synthesis: one turn
      ThreadContext              what a thread contributes      (used by ResearchTurn)
    CitationParser               the parser of a streamed answer (used by ResearchTurn)
    ThreadHistory                what a store promises; both adapters implement it
    ThreadStoreProofs            lemmas on the policy, the inductive invariant of both adapters
    IndexedDbProofs              theorems on the browser store
    RedisProofs                  theorems on the server store
    TurnControllerProofs         theorems on the controllers and the whole workspace
    TurnStreamProofs             theorems on the stream
    ResearchProofs               theorems on the research: calls, marks, gaps, budgets
      KnowledgeProofs            theorems on what it knows, cites and holds
        ResearchTurnProofs       theorems on the parsed answer and the context of a thread
    MCThreadInstance, MCIndexedDb, MCRedis, MCTurnController, MCTurnStream,
    MCResearch                   instances for TLC

**ThreadRecord** is pure. A turn is an id and the time it finished; when it was created
(`TurnCreatedAt`, `TurnRank`), the sources it refers to (`TurnSources`), the turns it names
as support (`TurnSupport`), what it retries (`RetryOf`) and asks (`Request`), and whether its
answer cites only what its findings rest on (`Grounded`) are constants of the id, which is
what an immutable turn means. `ValidThread` is `threadV3Schema`: some history, contiguous
ordinals, ordered and distinct turns, no missing and no orphan source, `Belongs` for every
turn (its times, its answer, the turn it retries, the turns it rests on) and `Timely` for
the thread. An archive is a set of entries, each the sources of its destinations and the time it
finished; nothing changes an archive once its thread exists, so the rules
between its entries (their order and distinct ids, `schemas.ts:398-404`) are left out, as
are titles. `Refusal` is the chain of early returns of `commitTerminalTurn` in their order,
`SourcesClosed` the checks on sources, `Extended` the new thread (`InsertTurn`, `AdmitSources`,
`LatestActivity`), `Verdict` the whole function. The schema check at its end does fail: a turn may
rest on a turn that the thread no longer has, for the policy checks the sources a turn
refers to and not the turns. Its outcome has a name of its own, `schema_rejected`, so that
`BuildsValidThreads` can say when: only for a fault of the new turn itself, never
because of the order of turns, the catalogue, the times or what older turns rest on.

**ThreadStoreBase** has the state (`records`, `tombs`, `index`, `legacy`) and one record `op[c]`
per client: the operation under way, with `pc` naming the `await` it is suspended at and the
fields holding its local variables (the record and tombstone it read, the time it read the
clock, the ids it still walks). `Start` begins an operation, `Settle` is the part of `liveState`
after the read (both found: integrity failure; expired: purge; else decide), `Decision` is what
every operation does with what it found, `AfterWrite` and `AfterRefusal` what follows its write.
A commit whose write is refused reads once more and answers by what it finds. `export` and
`inspectImport` are the walk "inspect". An import takes its threads one by one, each with the
clock as its activity, and skips one that its schema then refuses (its backup comes from a clock
that was ahead). There is one backup, with one valid thread for each id; it and the legacy
records may hold turns, which have finished at any time. A turn of theirs may be committed again
(`PastCandidate`); every other turn is built by a client when it finishes. `LegacyThreads` are
those with a legacy record that converts: for one that does not, the adapters report the thread
absent and leave the value alone, as if it were not there. `Interrupt` ends an operation at any
storage step: a quota or transport failure, or a tab that died; nothing of the step happened,
which is what a transaction or a script gives.

**IndexedDbThreadStore** and **RedisThreadStore** supply the steps. Each action is
one transaction, command or script. Revisions are random in the code; the model
draws them in order, by thread, so that equality of revisions means what it
means there. In the Redis module `Tick` drops keys that reach their expiry, the
two GETs are served in either order, a purge is two steps, and what is written past its
expiry is not kept. The history variable `lapsed` has the threads that have outlived their
retention in any of these ways.

**TurnController** models submissions. A run is a submission with the controller it makes, and
also the store client of that controller. `Submit`, `Loaded` are `ThreadRoute.run`;
`FinishWithCommit` covers the terminal event and all interruptions, where `RecordsFor` says
which source records are supplied with the turn; `CommitReturns`, `ReloadReturns` are `commit`
with its one rebase; `RetryCommit` is `retryCommit`; `MountLoaded`, `Leave` are the effect of
the route. A run remembers in `context` the turns of the thread it has loaded, for a research
names only those as support (`refsFor`, `research-resolver.ts:103-107`); a run whose load failed
has the thread its tab last knew, of which the model knows no turns and so allows all. Between
any two of these, the store takes its own steps and other clients theirs. With `Remote` the
store is the one behind the API: `AnswerLost` is a call whose answer is lost or does not parse
after the store has acted, which the client sees as `storage_unavailable`, so that the retry of
the user meets its own turn. An atomic step of `IndexedDbThreadStore` then stands for the remote
store's operation on one key; what the Redis adapter adds below that level (torn reads, two
halves of a purge) is the subject of `RedisThreadStore` and its runs.

**TurnStream** models one execution from end to end. `executor` is what `createExecutor` in
`server/app.ts` keeps while it emits: its stage and the preview it holds back. `boundary` has
the variables of `createTurnStreamBoundary`: the sequence number, the two counters of the
preview, `protocolInvalid` (`invalid`), the abort signal and the signal of the request (`gone`).
`wire` is the connection, which delivers in order up to where it is cut. `client` is the gateway
with `TurnController.run`: `Expected` is `acceptEvent`, `ParseFails` the parser's limit,
`Interrupted` the two ends of `run` without a terminal event. The boundary chains its writes and
numbers a frame when it is written, so a signal and its frame are one step. Every signal and
every terminal may be invalid, which sets the history variable `faulty`. `oversize` remembers
frames beyond the 256 kB that the client's parser takes, which nothing on the server limits. A
checkpoint may be `malformed`: the boundary and the gateway ask of it only to be an object, and
the client finds out when it makes an interrupted turn of it, which then ends as
`invalid_terminal` without a commit. How this stream ends is what `FinishWithCommit` and
`FinishWithoutCommit` choose freely in `TurnController`.

**Knowledge** is pure. A source, a problem and a query are numbers, in the order their
names sort in; a pack is a set of sources with its key. `JoinFindings` and
`Conflict` are `joinFindings` with its integrity error, `JoinEvidence` the union of
packs by key, `Bounded` the resolver's own bound (newest packs, then an order that
differs from the join's), `Floored` the synthesis policy: no answer on fewer than
two viable sources.

**EvidenceAcquirer** has the acquisition under way, `acq`. `Canonical` is
`canonicalizeSearchResults` (junk and repeated links go, missing ranks are places,
order by rank). `Selected` and `Manned` give the first candidates to the workers,
`Settled` lets a worker take the next one, and backfills one more when all have settled
and fewer than two sources are viable. Extractions settle in any order.

**ResearchResolver** is the recursion as a stack of frames. A frame is a call of
`resolveProblem` with its path of questions, its knowledge and the `await` it is at; the calls
with which a problem is revisited, after its search or its children, are tail calls and stay in
their frame. `Enter` is the code up to the first `await` (abort, duplicate, assessment budget,
root search); the `Assess` actions are the three directives a valid assessment may give, with
`AttemptFails` for the two attempts at the model; `BeginSearch` and `EndSearch` surround an
acquisition; `NextChild` walks a decomposition; `Return` is what a caller does with a returned
call: join, bound, and for `any` skip the rest. `Throws` is the catch of `resolve`: after an
abort, and for an error that reads like an interruption (`isInterrupted`), it throws on; every
other error becomes a checkpoint.

**ThreadContext** is pure. `BuildThreadContext` takes the recent turns: the requests
and answers under the budget of characters, the pages under the budgets per page and
in all (`Taken`: newest turn first, what does not fit is cut if enough of it is left),
the packs they make, and the known sources under their cap. `Corrupt` is the evidence
integrity failure: two contents for one snapshot of one page. `ResearchTurnOf` and
`SearchTurnOf` are the turns as they are stored, with `NormalizedResults` for the latter.

**CitationParser** is the incremental parser of a streamed answer: `Drain` consumes
what can be decided and keeps the rest, with all runs of brackets and ends of chunks.
`ParsedWhole` is the parse of the same text in one piece.

**ResearchTurn** composes them. `Grow` adds to the thread a turn of an instance's `Histories`,
provided it is one its schema takes (`StoredTurns`), and `Ask` makes the context of the thread,
`Settle` is `executeResearchTurn` after the resolver (abort or interruption, checkpoint, closure of
references, insufficient evidence), `Chunk`, `StreamEnds`, `StreamFails` and
`StreamInterrupted` the synthesis. When a part has returned, its state is reset:
in the code it is garbage.

What is abstracted: contents of turns, titles, previews, hashes (an id stands for the canonical
material); the parsing of backups and legacy values (`Backup` and `Legacy` are what it yields);
clocks that differ between clients or go back; the cache of inspected candidates; the order of
the Redis index; in `TurnStream`, text is its length, and the client's check of a terminal
(`buildTerminal`), which repeats the server's, is left out. `MountLoaded` lets a first load
answer what is there, null or fail, whichever is possible at some time since it began, without
running it as a store operation. `RetryCommit` is the controller's public operation on what is
`Pending`, which stays pending when its retry is refused for good; it is guarded by the
controller being the tab's current one, as the interface reaches no other
(`ThreadRoute.tsx:157`). Two retries of one controller at the same time are not modelled: both
commit the same turn, and the store answers the later one that it is there already.

In the research modules an assessment may propose anything of its kind out of small
sets, and cites all it may cite; what a page yields is "viable" or "lost", and the
other outcomes differ only in counters; hashes and ids are the paths they are
computed from; a refused synthesis is not told from one that is unavailable. Left
out because no execution reaches them: the resolver's check of the depth on entry (206,
decompositions are refused before), `duplicate_problem` of a revisit (347), the owner
of the state's knowledge (nothing reads it), rounds of the acquirer over several
requests (no caller makes more than one). Left out for size: the limits of an answer
(256 parts, 64 000 characters), headings and the publication of previews (the previews are in
`TurnStream`), failures of the progress observer.

## 3. Runs

The runs of the store and of the controller use one thread id: threads never share a key, and
the walks over several ids take one id at a time. Three turns and two sources suffice for a
reordering of turns, a source met again and one that is new; turn `u1` refers to `<<s2, s1>>`
and `u2` to `<<s1>>`, so order of admission and order of turns differ. Turn `u3` retries `u2`
and rests on it; `u2` is in the backup, and the legacy record has an entry of the archive alone,
so that `u3` is committed with and without what it needs. In `two_submissions` the legacy record
has a turn that one of the two rests on. With `Retention = 1` and `MaxTime = 2` a record can be
written, expire, be purged and be written again. Clients are interchangeable in the store runs
and no liveness is checked there, so TLC uses symmetry.

| Run | Question | Answer |
|---|---|---|
| `indexeddb` | Two tabs, any three operations of any kind, a legacy record, expiry, failures | Well typed; record and tombstone never both stored (`OneFace`); a revision identifies one record (`RevisionsIdentify`); a thread the policy built is refused only for a fault of the new turn (`BuildsValidThreads`); no operation reports corruption (`NoFalseCorruption`); every stored thread is in the index (`IndexComplete`); a commit never loses a turn nor renumbers a source (`CommitsOnlyExtend`); `ThreadHistory` is implemented (`RefinesHistory`) |
| `redis` | The same for request handlers on Redis | The same, except `NoFalseCorruption` (see `redis_reads`) and `IndexComplete` |
| `turn_controller` | One submission with every ending, a manual retry, navigation, expiry, storage failures, answers of the store that are lost after it has acted, and another client that commits or removes | A saved turn stays (`SavedTurnsStay`); a complete turn for a loaded thread is refused only when the thread is gone (`RebasedTurnsLand`); every run ends (`EveryRunEnds`) |
| `two_submissions` | Two submissions in one tab that race each other and the tab's first load, without other clients and retries | `SavedTurnsStay` and `RebasedTurnsLand` hold between them too: once a run has loaded the thread, the other only makes it rebase |
| `turn_stream` | One turn streamed with fragments of every size, invalid signals and results, frames too large, cancellation, refusal and a connection that breaks anywhere | The client never takes the boundary's stream for a broken one (`EndsAgree`); a turn is given up only if its execution was at fault (`GoodTurnsSurvive`); a run is "interrupted" only by a cause (`LossIsReal`); a preview has its research behind it (`DraftHasState`); the run ends in the browser (`StreamEnds`) and, after a loss, on the server (`LossEndsExecution`) |
| `research` | A thread of up to three turns, its context, and one research from its first search to its terminal, with every directive, failing searches, extractions, attempts and streams, aborts, and chunks cut anywhere | The context keeps its budgets (`ContextFits`) and serves every thread that has always fitted them (`ComfortableThreadsServe`); nothing overruns a budget (`BudgetsHold`); the marks of active problems are those of the calls under way (`ActiveIsStack`); every gap is decided (`GapsDecided`), "sufficient" is earned (`SufficientIsEarned`) and the stop reason true (`StopIsTrue`); nothing learned is lost on the way up (`KnowledgeTravels`), no page is held twice (`OnePackPerSource`); a closed context leads to a closed outcome (`ReferencesClosed`); the answer is the text of the stream, however cut (`AnswerIsWhole`); every research ends (`ResearchEnds`) |
| `purge_race` | Does a purge delete only what has expired? | No, see below |
| `redis_reads` | May Redis' reads report corruption of a healthy thread? | Yes |
| `interrupted_turn` | Can an interrupted turn be refused for good? | Yes |
| `create_race` | Can a turn be refused for good because another created the thread? | Yes |
| `one_tab` | Is at most one turn executing in a tab? | No |
| `cited_turn` | Does a turn that rests on an earlier one land after its thread was replaced? | No |

Three operations are enough for a reader, a writer and a third one that changes
what the first read; every violation above needs three or fewer. In the
controller's run one other operation is enough to make its first commit conflict,
and failures of its own operations to make the rebase fail; the second
conflict that a second operation would bring leads to the same branch as a
failing reload.

In `turn_stream` a preview has three characters and two frames, fragments one, two
or four characters, and a batch is two: that reaches both limits exactly and
beyond, together and apart, with text held back or not. `MaxEvents` leaves room for
every frame a run can send, as 512 does for 256 previews and the few dozen
phases of a research; this is the assumption `LimitsAssumption`.

In `research` there are three questions, the root and the two that any problem may be
decomposed into, so that a child meets itself among its ancestors; two queries, budgets of
two searches, three sources and three assessments, two packs, and the program's own
limit on depth, two. Each budget is used up in some execution, a third pack displaces one,
two claims conflict, the stack is as deep as it can be, and every stop reason is reached,
with and without useful knowledge. The context is checked on all threads of up to three turns
(pages of two or four characters, `MaxPerSource` 4 and `MaxTotal` 11, so that pages are
taken whole, cut, and dropped, and met again in another turn); three of these threads go on
to a research: the empty one, one whose references are closed, and one whose answer cites
a source that its context has dropped. The texts that are streamed end in the middle of a
marker, cite what they may and what they may not, repeat opening brackets, or are blank.
The run does not check for deadlock: an ended research stops.

A request that is refused (authentication, size, schema) reaches the controller as a
response that is not a stream and is saved as an interruption, "The connection
was lost"; `LossIsReal` counts it as a cause.

Each property of a passing run has a mutant in `PROJECT.json`: a definition and a
variant of it, kept beside it in its module, with a bug one could plausibly write
(`IgnoresRevision`, `SilentEnd`, ...). With the variant in its place the run
finds the property violated. The variants are used nowhere else.

### The disagreements found

`PROJECT.json` quotes the lines of the design document that each one contradicts.

1. *Purge race.* `liveState` decides to purge on what it read, and both adapters
   then delete whatever the id holds. Another tab may have purged the thread
   and imported or committed it again. A guard on revision, as the writes have,
   would close it.
2. *Torn read.* Redis' `readState` issues two GETs. A removal between them shows
   the old record and the new tombstone, and the answer is `integrity_failure`,
   which is not retryable.
3. *Interrupted research.* `finishInterruption` saves the latest research state,
   whose sources the thread has not admitted, without source records. The commit
   is refused as `invalid_record` and the run is blocked.
4. *Create race.* A commit with `create` for a thread that is stored by now is
   answered `invalid_record` before revisions are compared, so there is no
   reload.
5. *Two runs in a tab.* The prompt is closed by `view.active`, which the
   controller sets after the load and clears before the commit. A second
   prompt may be sent in both windows.
6. *Cited turn.* A research may rest on a turn of its context. If an import with
   `replace_existing` has put a thread without that turn in place by the time
   it is committed, the reload and the rebase succeed up to the schema check, which finds
   the support missing: `invalid_record`, and the run is blocked although its thread is there.

### Disagreements without a run of their own

Found while translating; the models follow the code.

- `redis-thread-store.ts:89, 93-95`: a client that finds the legacy key gone, or loses the migration
  script, is told that the thread is absent although the winner has just stored it; there is no second
  read. The local adapter has the same window at `indexeddb-thread-store.ts:61`.
  `docs/plans/archive/dorothy-ann-v1.1.0.md:2198` speaks of a migration "inside one adapter transaction".
- `thread-context.ts:110-133`: a page cut to fit is stored with the next turn, shorter, under
  the same snapshot. A later context that meets both versions throws an evidence integrity
  failure, and the thread cannot go on (`Corrupt` is reached in `research`; `ComfortableThreadsServe`
  needs its hypothesis). `docs/plans/archive/dorothy-ann-v1.1.0.md:234` speaks of a bounded selection only.
- `thread-context.ts:150-163` against `schemas.ts:320-323`: citations of older answers whose
  evidence no longer fits, or whose source falls under the cap of 24, are not among the known sources, and the
  research that follows ends as `reference_missing`. The third thread of `research` does this.
- `server/app.ts:128-141` passes no `now` to the acquirer or the resolver, so every pack is created at 1970 and only names break ties.
- `research-assessor.ts:276-278` gives each finding the text of the first observation; a later
  assessment that names the same proposition with another text is a conflict and ends in a checkpoint.
- `research-resolver.ts:248`: the support of a gap is neither deduplicated nor capped, while
  `schemas.ts:193` allows 24.
- `research-resolver.ts:74-81`: a pack of the research displaces or is displaced by packs of the
  context by request order alone, and those of the context have the higher ones.
- the repository's `README.md:34` says the root searches first when no evidence is admissible; the code
  (`research-resolver.ts:218-221`) always searches first.
- `execute-research-turn.ts:276-283` maps an invalid output of the synthesis to "unavailable".
- `execute-search-turn.ts` numbers normalized results with ranks that may repeat.
- `remote-thread-store.ts:92-93` deletes the candidate before the call, so an import whose call
  fails has to be inspected again.
- The parser's final drain (590-592 of `anthropic.ts`) would repeat a prefix that `feed` never leaves;
  `AnswerIsWhole` shows that it does not.

## 4. Fairness

`turn_controller`, `turn_stream` and `research` check liveness. The first assumes, in
`TurnController`'s `FairSpec`, weak fairness of `RunStep(c)` and of `Progress(c)` of
the operation a run has started: a browser runs the reactions of settled
promises, IndexedDB completes or aborts every transaction, and every stream ends,
which is what `StreamEnds` shows. Nothing is assumed of other clients, of the
clock, of failures, of retries (the user may never ask), or of leaving the page.

`TurnStream`'s `FairSpec` assumes that a server answers a request and hears of a
connection that is lost, that a browser handles what arrives, and that an
execution goes on while it is either connected or aborted (`Driven`). A connected
execution that hangs is ended by its platform's limit on requests, which breaks
the connection (`Break` is one of the ways to go on). An aborted one goes on
because providers are called with the signal. An execution that is neither
connected nor aborted is not assumed to do anything, so `LossEndsExecution` really
rests on `NoticeLoss`.

`ResearchTurn`'s `Fairness` is weak fairness of the resolver's and acquirer's own work
(`Works`), of `Settle`, and of the stream of an answer: code that can run does, and a search, an
extraction or a model answers or times out. Which directive the model gives, and whether
anything succeeds, is free; `ResearchEnds` rests on the budgets alone. Nothing is assumed of
aborts.

Deadlock is checked in every run but `research`; states in which every operation is over and the
bounds are reached stutter by `Rest` and `AllOver`.

## 5. Proofs

Everything below is proved for any sets of threads, turns, sources, clients, problems and
texts, for any clock, any number of operations and any limits that satisfy the assumptions:

| Assumption | Says | Why the code justifies it |
|---|---|---|
| of `ThreadRecord`, `ThreadStoreBase` | finite sources; an injective order of turns that agrees with when they were created; what backups and legacy records yield is valid | ids are random; both are parsed with the schema |
| `PastAssumption` (`ThreadStoreBase`) | a turn of a backup or a legacy record has finished once and is of one thread | terminal turns are immutable, and their ids random |
| `ControllerAssumption` (`TurnController`) | the turn of a terminal event names no source twice | `sourceClosure`, `turn-controller.ts:91-95, 194` |
| | a run's turns are its own, in no backup and in no legacy record | the id is drawn when the prompt is submitted, `ThreadRoute.tsx:24, 111` |
| | they retry none, their answers are grounded, and without a research state they name no support | `ThreadRoute.tsx:124` sends no retry; `answer-synthesizer.ts:98-102` |
| `LimitsAssumption` (`TurnStream`) | a stream has room for all frames of a turn | 512 against 256 previews and a few dozen phases |
| `AcquirerAssumption` (`EvidenceAcquirer`) | what a search returns is a sequence of results | the response is parsed |
| `ResolverAssumption` (`ResearchResolver`) | an assessment that resolves has claims; the limit on depth is positive | `research-assessor.ts:246`; `research-resolver.ts:25` |
| `TextsAssumption` (`ResearchTurn`) | a streamed text is a sequence of pieces | it is a string |

TLC evaluates all of them on every instance.

### The stores

| Theorem | Browser | Server | States |
|---|---|---|---|
| `TypeCorrect` | yes | yes | `[]TypeOK` |
| `DeletionExcludesStorage` | yes | yes | `[]OneFace` |
| `CompareAndSetSound` | yes | yes | `[]RevisionsIdentify` |
| `NoLostTurn` | yes | yes | `CommitsOnlyExtend`, an action property |
| `ThreadsStayValid` | yes | yes | `[]BuildsValidThreads` |
| `CorruptionIsReal` | yes | (false, `redis_reads`) | `[]NoFalseCorruption` |
| `ListsAreComplete` | yes | (not claimed) | `[]IndexComplete` |
| `Refinement` | yes | yes | `Spec => RefinesHistory` |

*The first invariant.* `IInv` joins `TypeOK` and `OneFace` with three facts that neither
property states. Every stored record and every record a client holds has a revision that has
been drawn (`Drawn`), so that a new one differs from all of them; equal revisions mean equal
records, in the store and in the clients' variables (`Genuine`); and an operation suspended at a
step holds what that step needs (`Fits`): one that is about to write or bury knows its thread,
its turn and the record its decision was taken on. Without `Drawn` and `Genuine`, the
compare-and-set of `Write` could accept a copy that differs from what is stored, which is
exactly the lost update; without `Fits` the actions are not even typed. `ThreadStoreProofs`
shows what the policy does to a record (a turn inserted keeps the others, admitted sources keep
their ordinals, the extended record is well typed) and proves, once for both adapters, that the
steps without storage preserve the invariant; `IndexedDbProofs` adds one step per transaction
and `RedisProofs` one per command or script. The invariant is the same for both. For Redis it
has to stand three more steps: a record read before its tombstone is already held while the
other GET is under way (`ReadingKeeps`), a value written past its expiry is gone at once
(`WriteKeeps`), and the clock drops keys of all threads while operations hold copies of them
(`ClockKeeps`): the revisions of dropped records stay drawn, so no later record is taken for one
of them. A purge needs no guard for these theorems, because it only takes records away
(`PurgeKeeps`); that it may take the wrong one is run `purge_race`. `NoLostTurn` follows from
the lemma that each step either leaves a thread's record, replaces it by an extension of it,
removes it, or is an import.

*The second invariant.* `BuildsValidThreads` speaks of the schema check of what
`commitTerminalTurn` has built: when it fails, the new turn does not belong in the thread. Its
proof is the invariant `SInv` (`Soundness` in `RedisProofs`), that every record stored or held
satisfies the schema and its turns, like those of the backup and of the legacy records, have
finished when their client says they did. It rests on the lemma that `Extended` gives a valid
thread if the new turn belongs to it: turns stay in order and distinct, ordinals contiguous from
one, the catalogue is exactly what is referred to, no activity is later than the thread's, and a
turn that belonged still does, as no turn it rests on or retries is lost. A commit that is about
to write has passed the check, and an import has been checked with the clock as its activity.
For the browser `WInv` (`Wholeness`) adds that a read is of one moment, so that an operation
never holds a record and a tombstone at once, and that the index lists every thread;
`NoFalseCorruption` and `IndexComplete` follow. On Redis both additions are false: `redis_reads`
shows the first, and a purge in two halves the second.

*The refinement.* `ThreadHistory` promises that the history of a thread, until it first outlives its
retention, is a sequence of admissions of one turn, removals, imports and migrations. The proof maps
each transaction to one such step or to `Retire`, which changes only threads that have outlived
theirs. The step that needs an argument is the purge, which has no guard of its own: `PurgesAreDue`
says that a purge is under way only of a thread that some client has seen expired. It says no more,
because no more is true: that the thread may be a new one by then is `purge_race`. For Redis three more
steps map to `Retire`: the clock that drops keys of several threads at once, and a record or a
tombstone that is written when its own expiry has passed, which Redis does not keep. The
reads need no argument: each script decides on what is stored when it runs, so a torn read can
make an operation fail but not make it a step the abstract store does not have.

### The stream

`TurnStreamProofs` proves `TypeCorrect`, `StreamsAreTaken` (`EndsAgree`), `TurnsSurvive`
(`GoodTurnsSurvive`), `LossesAreReal` (`LossIsReal`) and `DraftsHaveState` (`DraftHasState`).
The invariant has to tie three parties that never share a state: what the executor has emitted,
what the boundary has let through, and what the client has taken, with the frames on the wire
between them. `Counts` bounds sequence numbers by what has been sent and what is still possible;
`Places` and `Numbered` say that the frames on the wire carry consecutive numbers, beginning
with the one the client expects; `FramesMarked` that a frame too large is remembered as such;
`Foreseen` that what the client will have received when it has read the wire is what the
boundary has sent; `Aborts` relates the abort signal to its causes; `EndComes` and `Outcomes`
that a terminal frame is the last one and that the run ended as it says. `EndsAgree` is false
without `LimitsAssumption`: a stream that reaches the limit on events is cut by the client.

### The research

`ResearchProofs` proves `BudgetsAreKept`, `CyclesAreCaught`, `GapsAreDecided`,
`AnswersAreEarned` and `ReasonsAreTrue` for any branching, depth and budgets. The inductive
invariant `Inv` has as its centre the predicate `Shape`, which is stated of four values (stack,
marks, gaps and outcome) instead of the variables, so that it can be used of a state in the
middle of a step. It says that the frames are a chain of problem and child, each with the mark
of its fingerprint and no other marked; which gaps each frame may leave open, given the `await`
it is at; and that what a frame has decided is consistent with its children. `Accounts` ties the
counters to the acquisition under way and to the packs held; `Waits` says for which frame an
acquisition is. Every step of the resolver is one of three kinds: it goes on in the same frame
(`GoKeeps`), returns to the caller (`ReturnKeeps`), or throws, which empties the stack
(`ThrowsKeeps`); each action is shown to be one of them. TLC has checked the invariant on the
instance of the run `research`.

### What a research knows

`KnowledgeProofs` adds two invariants to `Inv`, one on the other, about the values that calls hand to
each other, for every thread of stored turns, every search and every bound on packs.

| Theorem | States |
|---|---|
| `TypeCorrect` | `[]TypeOK`, which reads fields of findings and packs and so rests on `Learning` |
| `KnowledgeIsKept` | `[]KnowledgeTravels` |
| `ReferencesAreClosed` | `[]ReferencesClosed` |
| `PagesAreHeldOnce` | `[]OnePackPerSource` |

*The operators.* Half of the module says what joining and bounding compute: packs with equal
keys become one with the union of their pages (`MergeIs`), the newest of them are kept
(`LatestIs`), sorting loses nothing (`ListedIs`, `SortedIs`), findings are joined by
proposition. The lemma the rest turns on is `KeptOfKept`: cutting the union of what two calls
hold gives the same packs as cutting each of them first. This is why joining on the way up may
cut at every return and still agree with what the run has gathered.

*`Learning`* (`KnowledgeInvariance`). The top frame's knowledge and `gathered`, which a checkpoint would
save, are equal up to order. That is not inductive: after a return the top is the caller, whose own
knowledge is older. So each frame is `Aware`: whatever it holds, joined with `gathered` and
cut, is `gathered` again. This passes on (`Passes`) along every step that extends `gathered`, and the
join of a return makes an aware caller the new top. Two contents are the same only with the bound: a
frame may hold a pack that was cut meanwhile, and the join cuts it again. `Learning` also has that an
acquisition extracts only sources no pack holds, and that the thread is one of stored turns, from which
the context's packs are well formed (`ContextPacks`, through all of `buildThreadContext`).

*`Sound`* (`SoundInvariance`). If the context was closed, then what findings cite, what supports
a gap and what tasks list has a record; nothing is removed from the records, while packs may be
cut, so that an assessment may cite only what is held but what it cited stays recorded. Two
packs share a page only if both have the key of a pack of the context. `Sound` holds whether the
thread is closed or not, except for the conjunct that says so (`Founded`): `ReferencesClosed`
excludes only contexts that were broken before the research began.

### The answer

`ResearchTurnProofs` proves `AnswersAreWhole` (`AnswerIsWhole`) for all texts, over any
characters, and any chunks. The invariant `Answering` says that what was fed so far has been
drained as if in one piece. A chunk keeps it by `DrainGoesOn`: draining a buffer, and then what
it left with more text behind, makes the parts and leaves the rest that draining both at once
does. Its proof follows the parser's loop from the last place of the buffer back to the first
(`Carries`), and says what can wait at the end (`Lingers`): up to two open brackets, which may
begin a marker, or a marker without its end. At every other place the longer text reads as the
shorter one. `Whole` then gives that parts and rest render the text, and `Shown` that a citation
is shown only of an allowed source. The final drain repeats text that stands before an unclosed
marker (590-592 of `anthropic.ts`); the proof shows that nothing ever stands there, as `feed`
leaves a marker at the head of its buffer. The drain is a recursive function of the place; what
it computes is proved from its equations, by going back from the end.

### The context

`ResearchTurnProofs` also proves `ContextsFit` (`ContextFits`) for threads of any stored turns
and any budgets. Its only use of the invariant is that the thread is one of stored turns
(`Learning`); the rest is what `buildThreadContext` computes.

*Characters.* Answers are cut newest first, each to the room that the newer ones have left. `RoomIs`
turns that loop into a sequence of rooms with an equation for each step (`Spending`), and
`AnswersFit` adds the equations up: what all answers take and the last room make the room that the
requests had left (`RequestsFit`).

*Pages.* Pages are taken in one order, up to the first that no longer fits, which is cut
(`Stop`). The context lists what was taken as a set, so its total may be added up in any order.
`TakenPlace` gives each page the place it was taken from and `PagesFit` compares the two sums:
pages listed once are at different places, and numbers found at different places of a sequence
add up to no more than the sequence (`SumOfSome`). That a page of an older turn is taken only
after all of the newest turn's (`NewestTaken`) is seen from the order itself, which begins with
those (`FlatBegins`, `NewestFirstOf`).

*Sources.* The sources a context knows are among the first of a sequence without repetitions
(`KnownFits`).

### The controllers

`TurnControllerProofs` is about `WorkspaceSpec`, where the controllers of several tabs drive the
browser store among other clients and answers may be lost.

| Theorem | States |
|---|---|
| `WorkspaceTyped`, `ControllersTyped` | `[]TInv`, from which `[]ControllerTypeOK` |
| `WorkspaceStoreSound` | `OneFace`, `RevisionsIdentify`, `IndexComplete`, `BuildsValidThreads` and `NoFalseCorruption`, for the calls controllers make |
| `WorkspaceLosesNoTurn` | `CommitsOnlyExtend` |
| `WorkspaceRefines` | `RefinesHistory`: the whole workspace implements `ThreadHistory` |
| `RunsKnowTheirThread` | `[]KInv` |
| `SavedTurnsAreKept` | `[]SavedTurnsStay` |
| `RefusalsAreFinal` | `[]RebasedTurnsLand` |

*The store in the workspace.* The controllers do not use `Start`: a run's load and commit are calls of
their own, with a turn the run has built and sources that depend on how its stream ended.
`TInv` therefore carries the three invariants of the store together with `Drafted`, that a run
builds its turn once and only when its stream has ended; without it a second draft could change a
turn that is stored already, and `Genuine` would fall. Every step of the workspace is then a step
of the store or leaves what is stored alone (`WorkspaceUsesStore`), and the theorems of
`IndexedDbProofs` carry over.

*What a run knows.* `SavedTurnsStay` and `RebasedTurnsLand` relate a controller's phase to the
stored thread, with an operation of several steps, a lost answer, a reload and a retry between
them. `KInv` follows a run through all of it: `Errand` says which call a run in each phase has
under way; `Sight`, that what this call has read is behind the stored thread only by turns of
other clients, a deletion or the end of the retention (so the turns of the context, and with
them all the run's turn may name as support, are still in the thread: `Spans`); `Reply`, what
its answer then says of the thread; `Standing`, what the run may still rely on when the call is
over. `Foreign` says that nobody else commits a run's turn. TLC checked `KInv` on the instances
of both controller runs before it was proved.

*The hypothesis.* The last three theorems assume that no other client imports (`"import" \notin
Kinds`, as in the configurations of the runs). With imports they are false for a reason that is
no defect: an import with `replace_existing` takes a saved turn away, as it was asked to. (What
it does to a turn that rests on one it takes away is run `cited_turn`.) The hypothesis also
excludes imports with `keep_existing`, which write only where nothing is stored.

### Only model-checked

- Liveness (`EveryRunEnds`, `StreamEnds`, `LossEndsExecution`, `ResearchEnds`): out of the prover's reach.
- `ComfortableThreadsServe`: it speaks of the threads an instance can grow (`Histories`) and is false of some
  threads of stored turns, such as one whose answer cites what its packs do not have; a proof
  would need what a turn that was executed here guarantees to the next.

An induction theorem of the library takes an operator, which the provers cannot instantiate. The
modules above therefore do their inductions over sets: `Induction` is the least exception of a
set of numbers (`WFMin`), `Recursion` gives a recursive function its values, and a sort is known
by the rank of each element.

## 6. Not modelled, and the plan

- The cache of inspected candidates (32, the oldest goes) and the digest that names one.
- `domain/migrations.ts`: how the lookups of a legacy record become search turns and everything else
  entries of the archive. The conversion is one of formats; `Legacy` is any valid thread it may yield.
- The order of the Redis index by time of update, and its entries for keys that expired or were
  written between the two halves of a purge: a listing skips or misses them.
- Identity hashes: the model uses the material they are computed from, so collisions
  and the canonical form are not covered.
- Rounds of the acquirer over several requests, which no caller uses.
- The torn reads of the Redis adapter seen through the API by the controller: each layer is checked
  alone.
- Providers and content extraction (I/O; they enter as outcomes, except the attempts of the model
  and the citation parser), authentication, rate limits and runtime configuration, timing and
  observability, rendering, theme, PWA, build and deployment: their correctness is not a
  matter of ordering.

The proofs can go on where a hypothesis is stronger than it need be: the theorems on what a run
knows should hold when other clients import with `keep_existing` only, which neither TLC nor a
proof covers yet.

# Knowledge-diffusion: TLA+ models and proofs

Knowledge-diffusion builds an evidence graph in Neo4j from bibliographic sources and answers questions from frozen
releases of it. Its core logic is a small distributed system: worker processes take tasks from a durable ledger
(PostgreSQL, or SQLite on one host), build content-addressed batches, write them to Neo4j and acknowledge them in the
ledger, while processes die, leases lapse under skewed clocks and commits outlive their clients. Around it are nested
launchers that save and resume it, and an analysis whose answers must replay from the release. These modules model
that system from its code. File names below are relative to `src/src/kdiff/` unless they start with `docs/` or `deploy/`.

## The system

| Component | State | Operations | Interacts with |
|---|---|---|---|
| Task ledger (`core/durable.py:105-241`) | `kdiff_task` rows (state, owner, token, generation, expiry, attempts), `kdiff_intent` rows | enqueue, claim (sweep + grant), heartbeat, prepare, integrate, complete, release | workers; `integrate` calls the graph inside its transaction |
| Worker and build (`construction/worker.py`, `workflows.py:12-120`) | lease copy, prepared batch | claim, compare the source's hash, wait for the writer lock, five role turns, release on any exception | ledger, graph, lock, Redis, stores, model budget |
| Identity resolution (`construction/resolution.py`) | none (pure) | match records of a batch with the exported graph by exact identifiers | called by the build |
| Graph (`core/graph.py`) | Neo4j nodes, `KDBatch` receipts, `KDStore` lock node | integrate, has_namespace, export, restore, counts | workers; outlives them |
| Writer lock (`core/artifacts.py:86-98`) | one flock per graph root | enter, freed with its process | every graph command on the host |
| Redis delivery (`core/durable.py:328-365`) | `pending` and `processing:<owner>` lists | reconstruct, BLMOVE + claim, acknowledge | ledger |
| Checkpoints (`core/durable.py:257-285`) | named value + revision, leader lock | compare-and-set | cache, frontier, dialogue |
| Export and restore (`core/durable.py:287-325`, `core/graph.py:136-218`) | JSON and release files | export, restore into empty stores | launchers |
| Artifact stores (`core/artifacts.py`, `core/durable.py:15-102`) | immutable bytes by digest, capture metadata | publish by link or INSERT, read back | everything |
| Extraction cache (`core/cache.py`) | L1, Redis L2, checkpoint pointer | get, put | checkpoints, artifacts |
| Seeds and frontier (`construction/seeds.py`) | captured cohorts, `frontier` checkpoint, tasks | import_csv, import_xlsx, enqueue_expansion | stores, ledger, checkpoints |
| Model budget and turns (`inference/limits.py`, `agents.py`) | calls, reserved tokens and cost | reserve, finish, one tool result per turn | builds, analysis |
| Launchers (`deployment/metadata.py`, `deployment/vllm.py`, `deploy/local/run.py`) | a server and an application each, a signal flag | start, forward a signal, kill after a patience, freeze, export | nested in each other; the last one runs the program |
| Temporal programs (`analysis/temporal.py`, `graph_program.py`, `requests.py`) | none (pure) | plan a typed request, validate and execute ten operations on uncertain dates | analysis |
| Analysis (`analysis/workflow.py`, `claims.py`, `general_witness.py`, `witness.py`) | locals of seven role turns | plan, execute, draft, verify, build and replay witnesses, answer or abstain | frozen release |
| Dialogue (`cli.py`, `analysis/dialogue.py`) | a checkpoint: resolved entities, earlier witnesses | read, answer, compare-and-set | checkpoints, analysis |

What is hard in it: a lease is judged by the clock of whoever looks; `integrate` spans two databases without a common
transaction; a graph commit may take effect after its client died and its task was retried or given up; a batch is
resolved against the graph long before it is committed; a retry resolves again. Redis and the ledger are two servers, so
that deliveries get lost and go stale. The graph and the ledger of a job are saved by two launchers at two times, and either
may be killed. A date is an interval in which a day is not known, and what a program concludes must hold on
each of those days. The full list, line by line, is under
`hazards` in `PROJECT.json`.

What makes each part correct: the ledger grants one current lease per task and never lets a stale holder write; done
means applied; a task writes at most one batch; every task ends. Construction commits only batches that fit the graph
they land in, so equal identifiers never get two identities and conflicting ones are never merged. Delivery loses no
claimable task; compare-and-set loses no update; restore fences old leases and what a job is resumed from agrees; budgets
are never overspent; a signalled job ends. Caches never change which result a key has. An answer replays from the frozen
release and holds whatever the days behind its dates were. All of these are modelled and checked, and all but the liveness
among them (every task ends, nothing is lost for good, a signalled job ends) are also proved for every value of the
constants.

## Modules

| Module | Models |
|---|---|
| `Dates` | Uncertain dates, windows, appointments, traces and return moves as operators |
| `GraphProgram` | Validator, ten operations and executor of typed programs, and the planner of requests |
| `Analysis` | The seven roles of a question, the fixed count, and the dialogue they leave |
| `MCAnalysis` | Graphs, requests and programs for `Analysis` |
| `AnalysisProofs` | Programs never go wrong on types; answers replay; counts, paths and traces hold on every possible day |
| `Services` | The nested launchers, a small program under them, and jobs resumed from one another |
| `MCServices` | The three launchers as the job script nests them |
| `ServicesProofs` | What a job is resumed from agrees, for any chain, tasks and number of jobs |
| `Intake` | Captures by concurrent commands, cohorts, source batches, expansions and their frontier |
| `Delivery` | `Intake` composed with Redis and the workers it feeds |
| `DeliveryProofs` | Captures agree, the frontier is sound and only grows, and the types of deliveries, for any commands, expansions and workers |
| `MCDelivery` | Commands, files and candidates for `Delivery` |
| `TaskOutcome` | Abstract: what readers of the rows and of the graph may rely on |
| `TaskLedger` | The ledger and its workers in full detail |
| `MCTaskLedger` | Instances of `TaskLedger` |
| `TaskLedgerProofs` | Type, safety and refinement theorems of `TaskLedger` |
| `Resolution` | `resolve_identifiers` as operators, and a reference definition of its expansion loop |
| `ResolutionProofs` | The expansion loop finds whole components; resolution is stable under its own commit |
| `Construction` | Builds end to end: lease, writer lock, resolution, intent, graph commit |
| `MCConstruction` | Sources for `Construction` |
| `ConstructionProofs` | Builds commit what they resolved against the current graph, and identities stay unique |
| `ModelBudget` | Budget of model calls, and the probe and turns that spend it |
| `MCModelBudget` | Agendas of calls for `ModelBudget` |
| `ModelBudgetProofs` | Limits, cover of the real usage, truth of reports |
| `WriteOnce` | Abstract: one result per dependency key, used by every build |
| `ExtractionCache` | The three cache tiers under concurrent workers |
| `ExtractionCacheProofs` | Types, agreement of the tiers and refinement of `WriteOnce` |

**TaskLedger.** One action per ledger call, because each call is one transaction, except `integrate`, which is
`OpenIntegrate` (fence, intent check), `CommitGraph` (the callback), `CommitLedger` (receipt and `done`), with rollback in
`Raise` and `Crash`. `Claim` makes the sweep of *all* exhausted rows and the grant in one step, as the code does;
`ClaimNothing` is a claim that only sweeps. Row variables are the columns; `lapsed[t]` stands for `expires`: the workers
whose clock is past it. So there is no bound on clock skew. Token and generation always change together (`claim` is the
only writer of both except for `release`, which clears the token of a row that is then not leased), so a number stands for both. Locks:
`Free(S)` says a writer of rows `S` does not wait; with `SharedNode = FALSE` it is `BEGIN IMMEDIATE` on the whole file.
`batch` is chosen anew by each attempt from `Resolved[t]`, since a retry resolves again. `inflight` holds commits
whose client is gone: `SettleInflight` applies or drops them at any later time. `heartbeat` and `complete` are part
of the ledger's interface; in the repository only tests call them.

**Resolution and Construction.** A row of `Resolution` is a record with its source entity, canonical id and identifier.
`Construction` keeps the ledger in coarse steps (a lease may lapse whenever `integrate` does not hold the row) and adds
the order of a build: `Claim`, `Enter` (host lock), `Look` (`has_namespace`, a plain read), `Export` (waits for the
`KDStore` lock), `Prepare`, `CommitGraph`, `CommitLedger`; `Stop` is an exception or death at any place. `inflight` is one
commit that still holds the `KDStore` lock. `wait_for_writer` giving up after 60 s is `Stop` while waiting.
The graph is a set of batches: MERGE never deletes or overwrites. Each kind has one identifier field, so
one kind is modelled; assertions and payloads are left out because resolution does not read them.

**ExtractionCache.** `get` is `Get` (per-process tier), `GetRedis` (hit, miss or any error) and `GetDurable`; `put` is
`Check`, `Write` (the compare-and-set transaction), `Reread` after a lost race, and `Publish` to Redis and the own tier.
A pointer is the digest of `{cache_key, result}` and the artifact behind it is immutable, so a pointer is modelled as
that pair, and the key comparison of `cache.py:37` cannot fail. `Extract` may come up with any result: `put` is there to
find out that an extraction that should be deterministic was not. Which entry of a full tier is the oldest is left open,
so the model covers any eviction order. `used` remembers what builds went on with.

**ModelBudget.** A scope is a sequence of calls, the `Agenda`: probe calls, then the turns of a build or an analysis; nothing
in the repository issues two calls of a scope at once. `Start` is `AgentRun.turn` with its own counter, `Reserve` and
`Refuse` are `RunBudget.reserve`, and a call ends in `Answer`, `AnswerUnaccounted` (no usable accounting) or `NoAnswer`
(timeout, cancellation, error). In all three the provider may have processed the prompt: `billed` records what it really
did, which the code never sees for a lost answer. Accounting that is present is taken to be right. `Raise` is the
exception path: only a `ValueError` of a Planner turn is caught, once. `Judge` and `Tools` are what follows an answer; tool
functions are synchronous, so the tool calls of one turn run one after another and the one-result rule is a plain check.
For the mock profile there is no budget, only the turn counter. `MCModelBudget` writes down the 16 calls of a job and
asserts their number (`JobCalls`).

**Dates and GraphProgram.** A day is an integer and a date a record of bounds, as `TimeRange` is; parsing of text is
`Parse` of a year, month or day by its first and last day. The operators keep the order of the tests in the code, because what
is "indeterminate" depends on it. `Possible` and `Periods` are not code: they are the reference, all days or periods
that a record allows, against which `CountExact`, `PathsSound` and `TraceSound` judge results. A program is
executed as in `execute_program`: step by step, each failure one of the three exceptions the code raises (or a
`KeyError`, which it must not), `Incomplete` as soon as a limit is passed. `Paths` grows the walks of a
search level by level, a recursive function on the number of hops, where the code keeps a queue. The result is the same:
an unfinished walk is one state of the queue, and whichever limit is passed or order unknown first, the search
ends in `Incomplete`.

**Analysis.** Each role is an action: `Manager` (subject and scope), `Planner` with `PlannerRetries` for its one repair,
`Retriever` (execution on the *working* graph), `DraftingBridge`, `Verifier`, `EvidenceBuilder` (witnesses,
replayed on the *frozen* graph) and `Synthesizer`. `TurnFails` is any exception of a turn. `Open` and `Save` are the
chat command around them, `AskCount` the fixed count of `ask`, with its own reading of the release and the database.
`Build` integrates an assertion between two questions, since one service holds the graph's lock for a command;
`Elsewhere` is another service that saves the same dialogue at any moment. A digest is the value it is the digest of,
which makes a replay an equality of values.

**Services.** `Chain` gives the kinds of the launchers from the outermost in: metadata (PostgreSQL, Redis), vllm, neo4j. A
launcher's `phase` follows its main function: start the server, restore, run the application, freeze or export in
`finally`, stop the server. Time is counted in units in which the three patiences (15, 30 and 120 s) differ and keep their
order; `Tick` waits for whatever a launcher is due to do, since it polls every fraction of a second. `Reached` is
who gets a forwarded signal: a launcher without a running application only sets its flag, which ends the start-up if it is
read in time, and else nothing. The metadata launcher signals the group of its application, in which the database is, too
(`metadata.py:78`, `run.py:91`): `Struck` marks it `term`, and `ServerEnds` ends it at any later moment, so that the program, a
restore and the freeze may still find it or not. `Kill(i)` ends the group of processes that the code's `killpg` reaches, and no more. The
program has the order of `TaskLedger` in coarse steps: lease and intent, graph, ledger. `Resume` is the next job in
fresh directories (`run.sbatch:89-90`). That it goes on from the last results with a checkpoint (`Left`) is the
operator's runbook (`README.md:308-315` of the repository), not code: `ResultsGrow` says nothing of an operator who
starts the metadata launcher by hand with one `--export` directory for several jobs, where a later export replaces the earlier one.

**Intake and Delivery.** In `Intake` files may be edited at any moment, so every read of a path is a step: the
capture of bytes, the publishing of metadata (`Stamp` looks, `Link` publishes unless another has), the parse, and for
workbooks the comparison of size and time. `Enqueue` keeps what is there (ON CONFLICT DO NOTHING). An expansion reads
the frontier, decides and enqueues one candidate at a time, and saves by compare-and-set. `Delivery` adds worker
invocations: `Begin` reads the unsettled tasks, `Push` puts them on the list (one step: pushes of two invocations commute up
to the order of the list), then `Move`, `Claim`, `CheckSource`, `Build`, `Integrate`, `Acknowledge` per delivery, each one call
of Redis or of the ledger, and `Build` the turns of a build up to `prepare`, of which the capture stays when a later one
fails; `BuildFails` is the exception path with its release, `Crash` is death. The ledger is coarse
here; its fences, transactions and late commits are the subject of `TaskLedger`.

## Runs

| Run | Instance | Shows |
|---|---|---|
| `ledger_safety` | 2 tasks, 2 workers, 2 batches, 2 attempts, row locks | type, fencing, crash window, budget, refinement of `TaskOutcome` (474,259 states) |
| `ledger_live` | same size, file lock, one task without a graph write | every submitted task settles (113,903 states) |
| `construction` | 3 tasks, 2 workers, 2 attempts, seven entities with agreeing, conflicting, shared and missing identifiers, non-empty namespace | committed batches are current; one id per identifier; expansion equals components; no conflicting merge; repeat is idempotent (1.1 million states) |
| `extraction_cache` | 2 keys, 2 results, 2 workers, a tier of one entry | tiers agree with the durable pointer; refinement of `WriteOnce` (86,613 states) |
| `budget_accounting` | 4 calls with a Planner, limits of 2, 4 and 5 calls, tokens and cost that just do not suffice, usage below, at and beyond the reservation | limits; reservations cover real usage; true reports; nothing after an excess; as many calls as the agenda has suffice (40,844 states) |
| `intake` | 2 files, 2 contents, four agendas of commands, 2 workers, lists of 2 tasks, 2 attempts, 1 crash | captures agree; the frontier counts what it enqueued and loses nothing; every queued batch is built or given up (688,581 states) |
| `analysis` | graphs of up to 3 of 6 publications, 5 appointments or 5 citations, 18 requests, 2 questions | answers replay; counts, paths and traces hold on every possible day; both counts agree; cards suffice; no saved state is lost (127,278 states) |
| `services` | 3 launchers, 2 tasks, 3 jobs | what a job is resumed from agrees and never shrinks; leases are fenced; a signalled job stops (538,571 states) |
| `ledger_crash_window` | 1 task, 1 worker, 3 attempts | **violated**: `failed` with the batch in the graph |
| `construction_first_batch` | 2 tasks, 2 workers, empty namespace | **violated**: a batch resolved before another build's late first commit |
| `path_order` | as `analysis` | **violated**: a walk whose events may be in order is denied |
| `queue_changed_input` | as `intake` | **violated**: a task is done with content it was not submitted for |

Bounds. Every attempt raises a generation and `MaxAttempts` bounds attempts, so no further bound is needed. Two
attempts give a first holder, a zombie, a new holder and a sweep; two tasks give a sweep of one while another is
integrated; two workers give a stale and a current holder with different clocks. Two batches let one task resolve
differently on its retry and share a batch with the other task. Seven entities over three sources give chains of
identifiers, a conflict reached only through another entity, and two established identities. In
`extraction_cache` a tier of one entry evicts at the second key, and two differing results make every race visible. In
`budget_accounting` the limits are reached by calls, by tokens and by cost, each alone.

In `intake` a behaviour has one of four agendas: two queued batches; a batch and an edit; a cohort as CSV and as a
workbook and an edit; three expansions at the depths 0 to 2. `MaxEntities` and `MaxDepth` are 2, so a third
key meets a full frontier and the third expansion the depth limit. One edit puts a change before or after every read. One
crash loses a delivery at each place, `MaxTasks` 2 ends an invocation by its limit, and two workers make deliveries stale.
A worker is invoked when a task can be claimed or given up; other invocations change nothing but the list of pending
deliveries. In `analysis` publications, appointments and citations are in separate graphs, as no request reads two of
them, except one graph that has both kinds a comparison needs; dates are exact, wide, half open, unknown and in
disagreement with each other, over days 0 to 7 with years of 4 days. `MaxPaths` 2, `MaxSearch` 6, `MaxEdges` 3 and
`MaxEvents` 3 are each passed by some request. `MaxTurns` 2 gives a question that reads what the first one saved. In `services`
two tasks are in different states at every save, and three jobs resume from results that were themselves resumed.
Deadlock is checked in every run; `Finished` is the only state in which the system may stop.

Fairness. `ledger_live`: a worker that holds a lease goes on, raises or dies: its waits (model calls, graph
transactions, locks) have timeouts. Clocks advance past any expiry. Some worker is invoked as long as a claim would do
something: expired leases are "reclaimed on a later worker invocation" (`docs/USAGE.md:125`). Nothing is assumed
about which of its steps a worker takes, so it may fail every attempt and the task then ends `failed`. `intake` assumes
the same of each worker and of the clock, and nothing of commands, edits or crashes. `services`: launchers poll, their waits for
a server to answer or to stop are bounded, an export ends or fails, and time passes. Nothing is assumed of the program, which
may ignore a signal until it is killed.

### The violated statements

1. *`ledger_crash_window`.* `claim` marks a task `failed` by its attempts alone (`durable.py:178`). If the last attempt
   fails after Neo4j committed, by a crash or because `counts()` raises (`graph.py:121`), the task is `failed`
   for good, its intent `prepared`, its batch in the graph. `docs/USAGE.md:125` says the intent and the fenced
   transaction handle that window.
2. *`construction_first_batch`.* `has_namespace` (`graph.py:167-169`) does not take the `KDStore` lock, and when it finds
   nothing, `workflows.py:78` skips the export that would wait. After a killed client's first commit in a namespace is
   sent and before it lands, the next build resolves against nothing. Two canonical ids for one identifier follow. In a
   namespace with a batch this cannot happen: `construction` checks it and `ConstructionProofs` proves it.
3. *`path_order`.* In a path search an event that overlaps with the one before raises `Incomplete`, since "overlapping
   uncertainty cannot prove the required order" (`graph_program.py:313`). But an event whose latest day is before the
   latest day of the one before is skipped (`graph_program.py:316`), even if the two ranges overlap and the order is possible. The walk is
   missing from a result called complete.
4. *`queue_changed_input`.* The worker compares the hash of the source, waits up to 60 s for the writer lock
   (`worker.py:88`), and `build` reads the path again (`workflows.py:30-40`). An edit in between is integrated under the task
   of the old content, which is then done. `docs/USAGE.md:113`: "Changed inputs need a new task."

Seen while modelling, without a run of their own:

- A retry can resolve to another batch than the prepared one (after an entity of it got another identity), and `prepare`
  then refuses it until the retry limit; the comment at `durable.py:222-224` expects the exact batch to be retried.
  `RepeatIdempotent` is about a retry after its own commit only; that the other batch does not reach the graph, whatever
  made it differ, is `GraphOnlyPrepared` in `TaskLedger`, where every attempt may build any batch.
- Since a signal to the metadata launcher also stops the database, an interrupted job only leaves a checkpoint if the program
  and the freeze are done before the database is; `README.md:17` of the repository lists "shutdown checkpoints".
- A repaired Planner (`prompts/analysis/Planner.txt:1`, `analysis/workflow.py:102`) makes the Synthesizer of a job its 17th
  call, and no profile may allow more than 16 (`inference/client.py:27`). The default limit is 14.
- The cards of a witness leave out the assertions that a topic, an identity context or a role was decided by, so that
  `docs/USAGE.md:109` ("complete ... operands") does not hold for such requests; `CardsSuffice` is stated without them.
- A signal between the readiness of a server and the start of its application is only remembered: the application is
  started and learns nothing of it until a launcher's patience is over. The outermost kill does not reach the
  program, which has a session of its own, and the program goes on to write until its database is gone.
- `import_csv` captures bytes and then opens the path again to parse it (`seeds.py:20-23`); `import_xlsx` guards against
  an edit in between. `CapturesAgree` says so of workbooks only.
- A stale delivery ends an invocation (`worker.py:80`), so a list with many of them takes as many invocations.

## Proofs

`TaskLedgerProofs`, from `LedgerAssumption` (1 to 10 attempts as `claim` demands, distinct null values), for any sets:

- `TypeCorrect`. `TypeInv` adds `LeaseHeld` (a busy worker's lease names a task) and `WriterHasBatch`.
- `Safety`: the inductive invariant `IInv` is `TypeInv`, the five safety invariants of `ledger_safety`, and
  `WrittenApplied` (after the callback the graph holds the batch). The conjuncts need each other:
  `DoneMeansApplied` after `CommitLedger` needs `WrittenApplied` and the intent part of `CriticalSectionOwned`, which
  survives other workers' claims because `Claimable` leaves locked rows out and their sweeps wait for them
  (`Free`), and survives releases because a stale token is refused. `SectionOwned`, `DoneApplied`,
  `OnlyPreparedInGraph`, `GiveUpOnlyExhausted` and `AcknowledgeableUntilReturn` follow.
- `Refinement`: under `outcome <- Outcome`, `chosen <- intent`, `applied <- graph`, each step is a step of
  `TaskOutcome` or a stutter, using `IInv`. A claim with a sweep is one `GiveUp(S)`; a late graph commit is `Apply`.

`ResolutionProofs`, over any finite set of rows whose identifiers are values or `NoValue` (`IsRows`):

- `CandidatesAreComponent`: the expansion loop ends within as many passes as there are rows, with the connected component.
  The loop is a recursive function; that it exists is proved by an induction on `0..n` stated over sets
  (`SetInduction`), since the induction theorems of the library take an operator. A pass that
  adds nothing has reached a set that is closed under shared identifiers, and a pass that adds something adds a row, so the
  loop cannot go on.
- `ResolveRepeated`: resolving again over a graph that holds the resolved batch gives the same batch. Each resolved row
  is in one component with its own earlier copy, which carries the identity that was chosen.

`ConstructionProofs`, from `ParsedAssumption` (a source yields finitely many records, each under the id of its own
entity, as extraction makes them) and `SeedAssumption` (a namespace starts with finitely many batches):

- `ResolvedAgainstCurrentGraph` and `GraphGrowsSerially`, assuming `Seed # {}`. `IInv` adds to `ResolutionCurrent` that one
  build is inside the lock (`OneInside`) and that no commit is in flight once a build has resolved (`NoneInflight`). Both
  leave `Resolve` opaque: they hold for any resolution policy.
- `ExpansionAlwaysComplete` and `RepeatAlwaysIdempotent`, from the theorems of `ResolutionProofs` and the invariant that the
  graph stays a finite set of batches of rows.
- `MergedAlwaysAgree` and `IdentityAlwaysOne`, for a namespace that starts consistent. A batch is committed to the graph it
  was resolved against (the first result), and one that is resolved against a consistent graph leaves it consistent:
  this is the step that fails in `construction_first_batch`.

`ExtractionCacheProofs`: `TypeInvariant`, `Agreement` and `Refinement`, from `CacheAssumption`. `IInv` adds to `TiersAgree` that a call under
way has its key and result and that a `put` about to publish has its result in the checkpoint (`PublishesDurable`): it is
there from its own write, from `Check` or from `Reread`, and nothing overwrites a checkpoint, since `Write` only succeeds on
revision 0. `Bounded` is the size of the per-process tier: remembering a pointer drops one first when the tier is full.

`ModelBudgetProofs`: `LimitsHold`, `ReservationsCover`, `ReportsTrue` and `ExcessEnds`, from `BudgetAssumption` (natural limits and
prices). `IInv` says of a call under way that its ticket is the last one, that its reservation is not spent yet (`Slack`),
that the tickets before it account for all that was billed if they are complete (`PriorTrue`), and that an accounted
excess has used up the calls (`Disabled`).

`AgendaAdmitted`: `AgendaFits`, by `Paced`: while the Planner is not repaired, calls never run ahead of the agenda. An excess
sets `calls` to the limit, but then the run has failed or is in its repair.

`ServicesProofs`: `TypeCorrect`, `LeasesFenced`, `CheckpointsAgree` and `CheckpointsGrow`, from `ChainAssumption`: the chain ends
in the one Neo4j launcher, vLLM is directly above it if there, and the metadata launcher is outermost if there, as the local
launchers and `deploy/rivanna/*.sbatch` nest them; tasks, patience and the number of jobs are arbitrary. `IInv` says, in the
order of the argument: a launcher that is past running has no inner one that goes on (`Nested`), even where it is killed; the
program runs under the innermost one and has ended before that freezes the graph (`Hosted`); done tasks have
their batch in the graph (`Behind`), so the release is the last graph (`Frozen`); ledger and intents, exported after it, are
the last ones too (`Exported`); and what is done in the checkpoint that a job starts from is in its release (`Restored`).

`DeliveryProofs`: `CapturesCorrect`, `FrontierCounts` and `FrontierOnlyGrows`, from `IntakeAssumption` (a file is a workbook or
not; a reason to leave a candidate out is not the one to include it). Workers only add to the store and never replace a
published time (`Beside`), so both follow from the commands. `Held`: what a command is about to stamp is in the store, and
it holds the published time. `Staging` carries the content a task names up to its row; for a workbook it needs
`Reading`: what was hashed is what the file holds while nobody has edited it, which the last stat decides. `Ahead`: an expansion
whose revision is still current goes on from what the frontier holds; every save raises the revision, so all
others are refused. `Counted` places each child of an expansion that was called once in its own `seen`, or in the frontier
once it has saved. `DeliveryTypes` is the type invariant of the whole composition, from `DeliveryAssumption` (an invocation
handles at least one batch). `DInv` ties the rows to the workers: what is pending, pushed or delivered has a row, a worker
without a task holds none, and the done rows are exactly those whose prepared batch is integrated.

`AnalysisProofs`, for any graphs, requests, programs, limits and number of questions. What it assumes of the constants:

- `RequestsAssumption`: requests are what `AnalysisRequest.valid` lets through, with windows that do not end before they
  start (`core/contracts.py:83-93`).
- `GraphsAssumption` (`IsGraph`): a graph has the model's fields, one entity or assertion per id (ids are digests of their content,
  `core/contracts.py:36-37`, under a UNIQUE constraint, `core/graph.py:74-76`), dates are valid ranges
  (`core/contracts.py:44-63`), every assertion has a time, and the tails of a known relation are of its kinds, as
  `validate_batch` demands before a batch is integrated (`construction/openalex.py:141-166`).
- `DaysAssumption`: `Days`, from which the properties take the possible days, has every known bound of a time. Nothing is
  assumed about how many days there are.
- `ProgramsAssumption`, `TurnsAssumption`, `NoneAssumption` and `BoundsAssumption` are types.

The argument has five parts.

- *Programs.* `AcceptedNeverWrongType`: the validator's types of steps are right, so the executor of an accepted program
  finds in every operand the fields its operation reads; `ProgramsAlwaysTyped` says so of every program, and
  `PlanAccepted` that the planner only fails the validator on unknown relations. A run of the executor is a
  recursive function of the step, which exists by `SetInduction` (`RunsExist`), and each operation keeps the types.
- *Questions.* `IInv` says role by role what the locals hold: the checkpoint is older than what was read (`Checkpoint`), the
  question and the subject are those of a request (`Questioned`, `Resolved`), the plan is the planner's (`Validated`),
  the results are those of its execution (`Retrieved`), claims and labels refer to them (`Claimed`, `Checked`), witnesses
  are replays on the frozen graph that agree (`Witnessed`), and so does what was said (`Said`). `AnalysisTypes`,
  `AnswersGrounded` and `StatesSucceed` follow. TLC checked each conjunct before it was proved. `Questioned` also
  carries that the working graph is the frozen one as long as a question lasts, so that a replay can agree.
- *Counts.* `CountsExact` reads off a count what it kept and what it called indeterminate, and compares both with the possible days;
  `CountsAlwaysAgree` also needs the fixed count: both select the publications of the same authorships.
  Its half about an answer assumes that all authorships fit the limit of an `Expand`, beyond which the typed program abstains.
- *Paths and traces.* `PathsAlwaysSound`: by induction on the level, every walk of the search is in the graph, in the
  window and in order on every possible day (soundness). Conversely a walk that is in order on every possible day is followed edge
  by edge: no edge of it is outside, indeterminate or misordered, so no test of the search drops it and every level has its
  prefix (`LevelsExist` and `Finds`). `Elapsed` bounds the distance of the true days. `TracesSound` decides event
  traces and return moves by cases on the known bounds.
- *Cards.* `CardsAlwaysSuffice` replays the program on the frozen graph cut down to the records of the cards. A plan ends
  in its provenance, and the facts among the obligations are the operands of all its results (`FactsAre`). So each result
  rests on kept records, and each operation returns the same on the cut graph (`CutPerform`): it finds what it
  returned, and nothing else, since the cut adds nothing. The runs agree step by step up to the provenance (`CutRun`), which
  is never what a claim is of (`ClaimedOther`). With a role the people would be taken from all assertions, which no
  card refers to; with a topic or an identity context the same: `CardsSuffice` excludes them.

Only model-checked:

- Liveness: `EveryTaskSettles`, `EveryTaskDelivered` and `SignalStops`. Fairness and ENABLED are out of the prover's reach.

## Not modelled, and the plan

Left out for good: source readers, OpenAlex parsing and the web adapter (bounded input handling without shared state; only
the period of an affiliation is modelled, in `Dates`), question interpretation (one model turn: `Requests` stands for what it may
yield), rendering of answers, evaluation statistics, preflight, the provider client and its profiles, CLI wiring, prompts and
packaging. Of modelled components: the advisory leader lock, which only maintenance commands take; the processing lists of
Redis, which nothing reads; the labels of `verify` that no role can reach (ambiguity, counterevidence, scoped absence); the
replay of version 1 witnesses; hashes of exported rows, manifests, port and path checks.

Left to do:

1. In `Construction`, one batch for a task over all its attempts.

# A TLA+ development of the Agent Ontology Engine

The repository is a TypeScript monorepo (26 packages, about 37,000 lines) that compiles,
mounts, queries and *acts on* packaged ontologies. This directory models the parts whose
correctness depends on order (who does what first, what survives a crash, which of two
processes wins) and the algorithms whose inputs a unit test can only sample.

Each module names the file it models; `PROJECT.json` maps every definition to its lines.

## 1. Inventory

| Part | State it keeps | Operations | Talks to | What is hard | What makes it correct |
|---|---|---|---|---|---|
| `action-runtime` | live runs, in-flight map, run counter | `execute`, plan walk, `claimFor`, attempts, `approve` | event store, ledger, providers, policy | several processes over one ledger; crash between save and append; approval from another process | one effect per key; claim before effect; gates before effect; rest state equals last revision |
| `event-store` | event lines or rows, revisions, ledger rows, scopes | `append`, `save`, `claimIdempotency`, `load` | files, SQLite | torn last line, second writer, ids from memory | nothing acknowledged is lost until a line is torn; sequence per run; first claim wins |
| `plugin-host` | lifecycle per plugin, child process, pending calls | `discover`, `admit`, `activate`, `call`, `shutdown` | plugin processes, mediated effects | start racing shutdown, timeouts, crash of the child | no call is left pending; a call is answered once; no child is left to itself |
| `runtime` | mounted corpus releases, the active one of a namespace | mount, `add`, `activate`, `swap`, `resolve` | bundles on disk, HTTP server | bundles replaced on disk, a failed mount, a swap of what is mounted | what was served can be replayed; a failed swap changes nothing |
| `http-server` | settings, calls under way | boot, authenticate, query, activate | registry, engine, host | a body that arrives after another switch | switches form a chain; one span per call |
| `mcp-server-core` | one mounted bundle, its graph | `aoe_query`, `aoe_plan`, `aoe_resource` | registry, model, clients that keep names | a name given to one principal presented by another | what is answered is what a bundle without the hidden units gives, but for two counts (section 8); a name stands for what was served |
| `projection-engine` | projection cache | `project`, budget, redact, deliver | corpus files | entries of another scope, release or policy, engines with other rules | a hit is a fresh projection under the rules of an engine of the same scope and policies |
| `constraint-solver` | none | derive, order, solve | query engine | fixpoint over relations, minimal core | closed, conflict-free, acyclic order |
| `query-engine` | none between queries | admit, generate, score, rerank, expand, exclude, order, budget, degrade | constraint solver, host rerankers | relations against the cutoff, budget boundaries, stuck order | every unit selected or rejected, once; nothing hidden leaves a trace but the number withheld |
| `policy-engine` | loaded sets | load, select, validate, `decide` | action runtime, model | deny against allow in any order, claims, axes | a deny wins; a fault anywhere loads nothing |
| `evaluation-engine` | provider registry | `evaluate`, `register` | providers, policy decision | a check nobody answered; expressions that bind differently | a skip sinks the suite; an expression means what its grammar says |
| `compiler` | none between calls; directories it replaces | parse, check, resolve, normalise, chunk, emit, corpus index | parser, model, file system | what is installed around a file; cycles; a half-written directory | closed and ordered graph; no field lost; a unit is whole |
| `parser` | position, errors | lex, parse, recover | compiler, editor | lookahead over line breaks; recovery | nothing dropped without an error; the next field survives |
| `bundle` | staged and backup files | finalise, verify, restore | registry's loader, file system | a failure between two renames, units written meanwhile | never a manifest of another index |
| `corpus-schema`, `testkit` | none | version order and ranges, licences, load and resolve a corpus, conformance suite | file system | boundaries of ranges, licences that nest | the highest release in range; licences judged by the choices they leave |
| `corpus-tools` | none | load, normalise, reconcile | two corpora | six tiers of evidence, splits against mergers | both sides' verdicts agree |
| `language-server` | open documents, parse cache | open, change, close, diagnose, complete | editor, compiler, model | late, repeated and reordered edits; positions | the document is the editor's as long as no edit was skipped; one parse per version; told what the compiler finds |
| `registry`, `observability`, `model-schema` | index table; spans; none | SQL, flush, schema | | see section 13 | |
| `cli`, `sdk`, `sdk-codegen`, `ir`, `types` | none | glue, text output, type declarations | | | |

## 2. Plan

The most important behaviour first; each item is one or more modules and their runs.

1. **Action runtime**: `IdempotentExecution` (the promise), `ActionRuntime` (the program),
   `ActionRuntimeProofs`. *Done.*
2. **Plugin host**: `PluginLifecycle` (the state machine as operators), `PluginHost` (host,
   executor, child), `PluginHostProofs`. *Done.*
3. **Event store**: `MemoryEventStore` (the reference), `EventStore` (JSONL and SQLite over
   `base.ts`), `EventStoreProofs`. *Done.*
4. **Constraint solver and query engine**: `ConstraintSolver`, `Retrieval`, `QueryEngine`,
   `ConstrainedPlan`, `ConstraintSolverProofs`. *Done.*
5. **Serving**: `CorpusRegistry` (mounting, as operators), `CorpusServer` (HTTP), `CorpusServerProofs`,
   `Projection` and `ProjectionEngine`, `McpServer`. *Done.*
6. **Compiler**: `Declarations`, `Resolver`, `Checker`, `Normalizer`, `Emitter`, composed by
   `CompilePipeline`; `UnitEmitter` and `BundleFinalizer` over a failing file system,
   `WriterProofs`. *Done.*
7. **Parser**: `Lexer`, `Parser`, composed and compared with a reference by `SourceText`. *Done.*
8. **Corpus tools**: `CorpusPackage`, `Reconciler`. *Done.*
9. **Governance and editing**: `PolicyEngine`, `EvaluationEngine`, `LanguageServer`,
   `EditorFeatures`. *Done.*
10. **More proofs**: the runtime's remaining safety properties, the event store, all of the solver, the
   corpus server, projection, the policy engine, the finalizer and the emitter of units: *done*
   (`InductionTheorems` has what several share). Open: the admitted plan of the query engine.

`MCActionRuntime` and `MCPluginHost` are the instances of items 1 and 2. Items 3 to 9 share one
instance, `MCComponents`, in which the variable `focus` picks, once and for all, the component that
steps while the others rest: its state space is the sum of theirs (468,433 states, 71,747 of them
initial), and every property of a component speaks of the states in which that one has the focus.
It extends the six whose proof modules state a property it checks (event store, corpus server, constraint
solver, projection engine, finalizer, policy engine) and instantiates the others. Where one component calls another it instantiates or extends its module: `ConstrainedPlan` the
solver, `McpServer` the registry and the projection, `BundleFinalizer` the registry's loader,
`EditorFeatures` the compiler. Inputs are listed in `ServingCases`, `CompilerCases` and `CorpusCases`.

## 3. Action runtime

### What is modelled

`ActionRuntime.tla` models `packages/action-runtime/src/index.ts` run by several operating-system
processes over a durable store and ledger, the way `aoe action run` is deployed: every command is
a process of its own over one SQLite file (`cli/src/audit/assemble.ts`).

* A process is one JavaScript event loop. Code between two awaits runs to completion; `cpu[p]`
  names the run whose synchronous segment is executing. Inside a segment every call on the store
  (`save`, `append`) and on the provider is one step, taken from the walker's `todo`. Other processes
  interleave between those steps, and a crash may fall between any two.
* `execute` splits into `ExecuteKnown` (the ledger answers), `ExecuteShared` (the in-flight map
  answers) and `ExecuteNew` (a new run). `AcceptRequest`/`RefuseRequest` are the request checks.
* `walk` is the loop head (`EndOfPlan`, `StopDryRun`, `ClaimKey`, `BeginNode`), and one action per
  way a node's await may resolve (`CheckPasses` to `InvokeRefused`). `EndWalk` settles the promise.
* `approve` judges the copy its own process has, and resumes after the first approval node.
* `Crash` empties a process. Its callers get no answer. Store and ledger stay.

Inputs, principals, evidence and step records are abstracted: an input is its fingerprint, a node its
kind, a step the position of its node, and each decision of a provider, policy or authorizer a choice. Store calls
succeed. A provider call counts in `effects` once per walk, whatever its retries.

### What is checked

| Run | Instance | Shows |
|---|---|---|
| `ar_safety`, race | 2 processes, 3 calls, 3 run ids, 1 key, 2 inputs | claim before attempt; callers agree on the owner; the ledger names a saved run; one effect per key |
| `ar_safety`, approve | human approval behind a policy gate and a retry, in the second process, 1 crash, 2 approvals | the inductive invariant of the claim; gates before the attempt; final states stay; the promise of the key (refinement of `IdempotentExecution`) |
| `ar_safety`, plans | 1 process, 10 plans with dry runs and approvals | types; no two recorded steps are of one node; a run at rest is its last revision |
| `ar_live` | 2 processes, a plan with retries and timers and one without a duration | calls return and walks end unless somebody outside holds them up (`NobodyWaitsForEver`); a reported success is audited |

The three scenes of `ar_safety` share their properties and nothing else; every property is checked in each.
`IdempotentExecution` counts the effects of a key: `starts` is mapped to `effects` itself, so a second effect
is not a stutter but a step the promise does not have.

Bounds: two processes suffice for every race on one key (a third only repeats the loser's role, and
there already is a third call); one key, because keys share no state except run ids; two inputs to
tell replay from conflict. `MaxCrashes` and `MaxApprovals` bound the two actions nothing else bounds.
All runs use one store and run ids that do not repeat; the theorems below say which of the properties hold without.

Fairness (`ar_live`): each event loop keeps running what it has: the synchronous segments, the timer of an
attempt, and what settles within the process. A timer is there only if the plan's budget names a duration
(`timed`; `index.ts:425` says "runs unbounded" otherwise), and the authorizer, the policy engine, the
precondition and an untimed provider are the host's, with no timer at all. Nothing is assumed of these
(`Elsewhere`): `NobodyWaitsForEver` holds *if* none of them keeps a walk waiting for ever. Callers, approvers and
crashes owe nothing either.

### Where the code differs from what it says

Two runs must end in a counterexample:

* `ar_two_approvers`: two processes that both receive an approval both resume the run.
* `ar_two_checkpoints`: with two approval nodes, the second approval resumes after the *first*.

Three more follow from the model and have no run of their own. Run ids are `run-<ms>-<counter>`
with a counter per process: with `UniqueIds = FALSE`, two processes that start in the same
millisecond mint one id and both believe to own the key. A crash between `save` and `append` of the
last transition leaves a success that is replayed and never audited. The run that loses the claim
rests with steps in memory that no revision holds, and so does a suspended copy whose run another process
resumed: the two exceptions of `RestEquivalence`.

### What is proved

For every number of processes, stores, callers, keys, runs and plans, from the named assumptions on
the constants only:

* `TypeCorrect`. `TypeOK` is not inductive alone: a walk needs a run to work on and a run to answer
  with (`WalkHasRun`), else `EndWalk` could answer with no status.
* `DisciplineHolds` and `ClaimFirst`, assuming run ids do not repeat (`UniqueIds`,
  without which `ClaimFirst` is false). They hold for every `StoreOf`, the deployment in which
  processes share a ledger but not a store included. The strengthening `ClaimDiscipline` follows a claim through its
  carriers: a claimed walk owns its key; an unclaimed one has queued neither an attempt nor a
  suspension and awaits only checks; a suspended copy, in memory or on disk, owns its key, which is
  what lets `approve` resume without claiming again; all copies of a run agree on key and input;
  and a run is saved before anything else happens to it. `ar_safety` checks it as an invariant.

The second half of `ActionRuntimeProofs` reduces every action to a normal form, `Step`: at most one walk moves, by one
of five changes of its position and queue (`Advance`), or performs the operation at the head of its
queue; other walks and other runs stay (`StepForm`). What follows is proved over `Step`, not over the
actions:

* `QueuesFit`: a queue fits the node its walk stands at. From it, `NodesRunOnce`: a step records the
  position of its node, and the steps of a copy rise and lie behind the walk over it (`StepsCount`), so that no two
  are of one node.
* `GatesComeFirst`: a run stays in the store it was created in and keeps its plan (`AtHome`), and the
  gates behind a walk, a suspended copy or a queued attempt are on record in that store's log
  (`GatesRecorded`).
* `VerdictsAreFinal`: at most one process writes a run, none writes one whose saved status is terminal,
  and an approver's suspended copy is what the store has (`OneWriter`, `WriterMayWrite`,
  `ApproverIsCurrent`).
* `EffectHappensOnce`: a key with an effect has one, and the run that owns it is spent: no walk of it may
  still come to a first attempt, and no saved suspension leads to one (`SpentOnce`).

`ActionRuntimeProofs` goes on with what callers rely on: `LedgerNamesSaved`, `PromiseIsKept` (the
refinement of `IdempotentExecution`, step by step: the step that calls the provider is the one that raises the
count, and it finds the count at zero) and `AnswersAreOfOwners`, by following a run from the
call that minted it through the in-flight map and the walk's `result` to the answer.

It ends with `RunsRestSaved`, for one process with any number of crashes, approvals, dry runs and repeated ids:
a run at rest is its last revision, without exception. Two invariants carry it. `LastSaved`: a run that no walk may still save is
what its store has. `Reserved`: the key of a run that has yet to claim it is free, and the in-flight map keeps
it for that run, so a claim is never lost and every end of a walk queues a save. TLC checked both before, with a
crash and without `UniqueIds` (1,281,025 states). With more processes a copy may differ in the two ways
`RestEquivalence` excepts: the loser of a claim, and a process whose suspended copy is stale because another one
approved the run. That these are the only ones is TLC's (`ar_safety`).

The hypotheses are named, and each is one the code depends on:

| Hypothesis | Says | Why it is there |
|---|---|---|
| `UniqueIds` | run ids do not repeat | two processes may mint one id in one millisecond, and then both own the key |
| `OneApprover` | one process receives approvals | `ar_two_approvers` is the counterexample without it |
| `OneCheckpoint` | no plan has two AwaitApproval nodes | `ar_two_checkpoints` is the counterexample without it |
| `OneSide` | no InvokeAction between two such nodes | weaker than `OneCheckpoint`, and enough for the effect |
| `OneInvoke` | no plan has two InvokeAction nodes | a second one would repeat the effect by design |
| `OneProcess` | one process runs (`RunsRestSaved` only) | a second one could claim the key first, or resume a run suspended here |

Every plan `PlanFor` derives satisfies the three about plans, and so does every plan of the passing runs; a
planner may hand back others.

Left to TLC: liveness.

## 4. Plugin host

### What is modelled

`PluginLifecycle.tla` is `lifecycle.ts` as operators: the transition table, `advance`, `advanceTo`
with its backwards walk, `fail`, and what a legal history is. `PluginHost.tla` is `host.ts` over
`executor/process.ts` and the child's loop in `executor/child.ts`.

* The host is one event loop. `Activate` starts `activate()`; its gates (`VerifySignature`,
  `ResolveDependencies`, `AuthorizeCapabilities`, `ModeUnsupported`, `Start`) are steps of their own, and
  `loop` names the activation inside them. `ReadReady`, `StartTimeout`, `SpawnFails` and `Exit`
  resume it, each with the whole continuation: an advance that is refused does not stop it.
* An executor is named by the activation that made it, as `record.executor` is overwritten by the
  next one. `box[e]` holds the host's reference, the process and what is on the wire in each direction.
* `Send`, `Refuse`, `ReadReply`, `CallTimeout` are `call()`; `Mediate` and `FetchSettles` the effects; `Shutdown`,
  `Drain`, `Drained`, `StopTimer` are `shutdown()`. `Child...` is a process that owes nothing: it
  answers in any order or never, asks for anything, ignores SIGTERM, dies.

The signature check, the operator's policy on `provides`, path and host containment are choices.
Manifests, payloads and file system errors are left out.

### What is checked

| Run | Instance | Shows |
|---|---|---|
| `ph_races` | 1 plugin, 2 activations, 2 shutdowns, 2 calls | types; pending entries are exactly the waiting calls; no child is left to itself (`NoneAdrift`); legal histories; answers are final; each launch is authorized and each `ok` means serving (`ActivationsAreSound`) |
| `ph_live` | 5 directories for 2 names, 1 activation, 1 call, 4 capabilities | one digest per version, a sound second version under a taken name included; calls, activations, shutdowns return; a stopped plugin has no process |
| `ph_orphan` | 2 activations, 1 shutdown | a counterexample: the first child outlives the stopped plugin |

Two of each call is the least that lets every pair race, and the actions count no more than two
actors each. The four capabilities are the four combinations of declared and granted.

`serving` does not mean a live child: an exit settles the pending calls and leaves the record as it is
(`process.ts:118`), so a plugin whose child died stays `serving`, and a call to it is refused or times out. What
`NoneAdrift` says is the converse: a living child is the one its plugin's record holds, where `shutdown()` finds it,
or a kill or a shutdown is under way for it, or a second activation replaced its executor, which is `ph_orphan`.

Fairness: the loop runs its synchronous code and its timers, and a process that was sent SIGKILL
dies. Frames, replies, exits and calls from outside are never owed, so each liveness property rests on
a timer.

The two parts of `ActivationsAreSound`, `LaunchIsAuthorized` and `OkMeansServing`, are conditional, and the conditions are what the code lacks:
`activate()` ignores refused transitions, so a second activation, or one after a shutdown, starts a
child for a plugin in any state; and a ready frame read while a shutdown waits answers `ok`. `ph_orphan`
shows what follows for the process.

### What is proved

For any number of plugins, activations, shutdowns and calls (`PluginHostProofs.tla`), from
the four named assumptions on the constants (`Constants`):

* `PluginTypes`. `TypeOK` is inductive with `Placed`: an executor, a pending entry and every ask or fetch in
  flight belong to an activation that passed its gates, which is what makes the manifest and the
  granted set of an effect those of an authorized plugin.
* `PendingIsExact` and `AnswersAreFinal` follow from the type and from `MovesStep`: each step leaves a
  call untouched, refuses it, sends it or settles it, and the executor's entry moves with it.
* `HistoriesAreLegal`: a step changes a lifecycle only through the operators of `PluginLifecycle`,
  each of which preserves legality.

* `RecordsAreRegistered`: a record and its digest are written together, and only for a version that is new or
  has the same digest.
* `NoChildIsAdrift` and `ActivationsStand` rest on a second normal form, `HostStep`: an activation begins,
  passes a gate, launches, gets ready or fails, a child is gone, a shutdown turns. `Held` says who has
  whose child: an executor is of its plugin and keeps its child until a shutdown takes it. That no process is adrift then needs one
lemma more: what a step of a child, a reply or a timer leaves alone (`MildSteps`). `Stands` adds that a
  plugin with one activation is where that activation has brought it, unless a shutdown came between. TLC
  checked both as invariants before they were proved.

Liveness, and `ph_orphan`, are TLC's. `advanceTo`'s
backwards walk has no caller outside tests; it is kept as the operator `AdvancedTo`.

## 5. Event store

`MemoryEventStore.tla` is `memory.ts`, which calls itself the reference. `EventStore.tla` is `base.ts` over
the JSONL and SQLite backends, opened and closed by processes that may die. JSONL answers from its
index and writes a line; SQLite numbers and inserts in one statement. A crash or a failed write may
leave a torn line: a fragment, or a record without its newline. `Written` says what the next append
then does: it lands on the same line, and neither parses. `Load` is the loop of `load()`, line after line; the
sort at its end is each row put in its place (`Placed`), which gives the same rows.

| Run | Instance | Shows |
|---|---|---|
| `components` | 2 processes, 2 scopes, 3 lines, 2 faults, both backends | types; a torn line costs at most one acknowledged record of the file, and readers at most the streams it hit; until a line is torn the store refines `MemoryEventStore`, through crashes and concurrent SQLite writers |
| `es_torn` | the JSONL backend | a counterexample: an acknowledged record is gone at the next open |

A record lost from the middle of a stream leaves a gap, and `events()` and `get()` refuse a stream with one
(`SequenceIntegrityError`, `base.ts:243`, `base.ts:301`): its readers lose all of it. `Recovered` is therefore what
is on disk *and* in a stream without a gap, and `LossIsBounded` bounds both losses: the records gone from the file by
the number of torn writes, the streams refused or cut by those a write was torn in or swallowed from (`hit`).

Three lines and two faults hold the whole hazard: a good record, a torn one, the record lost on top of
it, and the gap it leaves in the numbers. `MaxLines` bounds the log, `MaxFaults` crashes and failed writes.

Two processes on one JSONL file are excluded, as `jsonl.ts` itself says. After a restart the root has
forgotten the scopes it learned and admits a run under another scope (within one process the guard of `Admits` is all
there is to it, and no property restates it). Redaction and serialisation are not modelled, and the cache of live run objects is in
`ActionRuntime`.

### What is proved

`EventStoreProofs.tla`, for any number of processes, scopes, runs and tuples, any length of the file and
any number of faults, from the assumptions in `EventStore` (`Default` is a scope, garbage is not a record):

* `StoreIsTyped`, by one case per write. A write is one of two
  kinds, a row (`Grown`) or a claim (`Claimed`), whoever asked for it.
* `StoreIsMemory`: the store refines `MemoryEventStore` until a line is torn. The refinement needs
  `Steady`: while nothing is torn, the file ends in a newline, each stream is numbered 1, 2, 3, and an open
  JSONL index is what a fresh load of the file gives. A row is then the last of its stream in both.
* `LossStaysBounded`. `LossIsBounded` is not inductive: a torn line loses nothing yet, the *next*
  record does. `Bounded` counts it beforehand: the acknowledged records missing from the lines that end in a
  newline, plus one if the last line has none, are at most the torn writes. A second clause keeps a
  claim from being answered twice: what an index lacks, the whole lines lack. `Spared` does the same for readers: a
  stream that was not hit is numbered 1, 2, 3 in the whole lines and has every row that was acknowledged
  (`Untouched`), and if the last line has no newline its stream counts as hit.

The lemmas under them say what one line more, or one that no longer parses, does to what `Load` reads
(`InductionTheorems` has induction over the lines). TLC checked `Steady` and `Bounded` as invariants first.

## 6. Constraint solver

`ConstraintSolver.tla` is `packages/constraint-solver/src`: the constraints of a graph (`derive.ts`), its load
order (`order.ts`) and the decision (`solve.ts`). The solver keeps no state between requests; its variables
are the locals of one `solve()`, its steps the turns of its two loops. `Delete` is one turn of
`minimiseCore`, `Prefer` one of the loop over soft preferences. `Closure`, `Components` and `LoadOrder` are
recursive functions, so that theorems about the module stay possible. `Components` is the set of
strongly connected components, whichever way Tarjan's algorithm finds it.

Units are numbers in the order of their ids, a constraint is its class and its edge or unit, and a label
is what the principal's check of it answers. Of a plan only what decides is kept.

| Run | Instance | Shows |
|---|---|---|
| `components` (`SolutionIsSound`) | sequences of at most 3 of 14 edges over 3 units, 4 relations, budget 2 | a selection breaks no hard constraint, is closed under transitive requirements and within its budget; the load order respects every ordering outside a tolerated cycle; each ref of a core is needed |
| `cs_one_hop` | 2 edges, 4 units | a counterexample: a one-hop relation reaches its second hop once a preference is accepted |

Three edges are enough for a cycle with a tail, an exclusion reached through a requirement and two
cycles that share an edge, which is what makes deletion order matter. The relations are one of each kind of
selection, with the three cycle policies; `what` is undeclared, unit 4 is absent from the graph.

Two things the model shows without a run: a preference for a unit that the graph does not have is
selected (nothing checks the target; admission drops such edges before), and `minimiseCore`'s fallback to all
constraints is never taken (`CoreStaysMinimal` rests on that).

### What is proved

`ConstraintSolverProofs.tla` proves all of `SolutionIsSound`, for every model and every set of requests that are
`Solvable`: finitely many unit ids, edges and preferences over them, finite weights, a cost for each unit. TLC
checked the invariants below on the instance above first.

* `SelectionStaysLawful`, from `LawfulInv` over the two loops. The closure is taken in rounds, and what holds
  after each (`Closing`) is that a unit the frontier has passed has its transitive requirements met; each
  round finds another unit, so after as many rounds as there are ids the frontier is empty. A cost is a sum by
  recursion on a set, shown not to depend on the order of its elements.
* `OrderStaysRespected`, from `OrderInv`: besides, no cycle that the model rejects is in what is selected. The
  components come from paths whose length doubles each round; as many rounds as there are units reach every
  unit that can be reached (`Doubling`), so being linked is transitive and the components partition
  the units (`ComponentsPartition`). Among components not placed yet one has nothing before it (`Minimal`), so a
  turn of `orderUnits()` always places one (`SomeIsReady`), and after as many turns as there are units all are
  placed, each behind what comes before it (`Placing`).
* `CoreStaysMinimal`, from `CoreInv`: while `minimiseCore()` runs, the core blocks and every ref tried and kept
  is needed. That later deletions do not undo this is not a matter of course, since fewer constraints may
  well block where more do not: with a requirement gone, a unit may be reached by another relation, that hops
  further. Two facts save it. The refs that a blocked evaluation names, the chains of the units it trips over and
  the constraint itself, block by themselves (`BlockerBlocks`), so that the loop starts from a core and the
  fallback is not taken; and they are branches: no two of them require the same unit
  (`BlockerBranches`), since a unit is reached once, by one edge. Of branches, fewer block no more (`FewerBlockNoMore`).
* `SolverTypes`, and `SolutionStaysSound`, which puts the three together.

## 7. Query engine

`Retrieval.tla` holds what both entry points share: who is admitted, which edges are left, the walk of
the graph generator, the weighted score and the ranking. `QueryEngine.tla` is `planSelection()`, one action per
stage, since each stage decides over what the previous one left and what an earlier one has already
reported. `ConstrainedPlan.tla` is `planWithConstraints()`: it hands the ranking to an instance of
`ConstraintSolver` as preferences and chooses projections for what comes back (`degrade.ts`).

Text scoring is a parameter that sees all units it is given, because that is how a hidden unit could
shift the scores of the rest; the instance counts term frequencies against the units that have the term.
A feature value is a multiple of `1/One`. A host reranker may answer any list of candidates as long as theirs, one of
them twice and another not at all included: that is all `applyReranker` looks at.

| Run | Instance | Shows |
|---|---|---|
| `components` (`PlanIsSound`) | 4 units, at most 3 of 12 edges, hidden and filtered units, 2 sets of seeds, cutoff, 2 projection tiers, budgets 3 to 5 | every unit considered is answered for, and the budget and the exclusions are kept, whatever the reranker did; if it permuted, every candidate is selected or rejected once and the load order holds; a plan is the one the graph without the hidden units gives, but for the number withheld; under constraints no unit is dropped for the budget, and it is exceeded by what is mandatory only |

Three edges are a requirement below the cutoff, an exclusion it meets and an order against the rank.
`OrderKept`, a part of `PlanIsAccounted`, excuses units on a cycle of orderings or waiting for one, as `loadorder.ts` does.

Seen in the code while modelling, without a run:

* `reranker.ts:215` promises "A permutation, or nothing", but checks length and membership (`reranker.ts:218`): an
  answer that repeats one unit and drops another passes. A candidate may then be missing from the plan, or be both
  selected and rejected, or load before what it is ordered after, which is why the second half of `PlanIsAccounted`
  asks for a permutation.
* The plan tells how many units the principal may not see (`engine.ts:243`): `withheld`.
* Orderings are emitted only from units that made the cut, so in a chain of `before` the middle link may
  be missing and its two ends load in rank order.
* Units stuck on a cycle are appended by id, where the message says they "keep rank order" (`loadorder.ts:68`).
* A unit dropped by an exclusion still excludes: with 1 over 2 and 2 over 3, both 2 and 3 go.
* The graph generator does not walk on from a unit that a one-hop relation reached first, even if a
  transitive edge reaches it as well; which comes first is the order of relation names.
* In `degrade.ts` "cheapest" is the last projection of the chain, whatever it costs, and the base is one
  tier for all: a mix of tiers that fits is not looked for.

## 8. Serving corpora

`CorpusRegistry.tla` is `runtime/src/corpus-snapshot.ts` and `corpus-signature.ts` as operators: a bundle is a
function from names to entries, a digest is what it is taken of. `CorpusServer.tla` is the HTTP server over it:
the host mounts at boot and may swap a release in later, other processes replace the bundles on disk, and two
calls overlap, each split where `handler.ts` awaits a body or the engine. `Projection.tla` holds the projection
engine's operators, `ProjectionEngine.tla` engines of several tenants and releases over one cache, each with redaction rules of its own.
`McpServer.tla` is a process on one bundle and a client that keeps the resource names it was given and presents
them to a later process, with another release, tenant or principal.

| Property | Instance | Shows |
|---|---|---|
| `ServesItsHistory` | 4 boots, intact and broken bundles, 1 write, 1 swap, 2 calls | whatever was active is still mounted with the snapshot it had; the changes of a namespace form one chain and an activation reports what it displaced, however late its body came; strangers learn no route and a span ends once |
| `ProjectionIsLawful` | 4 engines, of 2 tenants with 2 releases, two of one scope with different rules; 2 requests; levels that cost the same | what is served follows the rules of an engine that was asked in that scope under those policy references; what is projected anew, and every hit where the engines mean the same by them, follows the asker's own and holds nothing these remove; the budget is kept, and spent as the degradation can spend it |
| `ServesTheAdmitted` | 2 releases, broken locks, 2 tenants, 2 principals, 2 starts | the answer is the one a bundle without the hidden units gives, by id, relation, enumeration or an old name, but for two counts; a name stands for what was served, if no other level has its level's name; a plan is delivered |

One write and one swap are enough for every order of a bundle changing under a mount; two calls are the pair whose
bodies can overtake each other; two starts are the least in which a name outlives its process.

`AccessProofs` proves `ProjectionStaysLawful`: `ProjectionIsLawful` for every catalog, routing, rule set
and holding, and any number of requests, if `WellStocked`: every engine has a bundle, a bundle has no two units of one name (the engine keeps
them by name, `engine.ts:130`), a profile no two levels of one name and target, and a budget is a number. Levels
of one target are allowed (`profile.ts:168` orders them by name). The greedy solver looks for a saving above nothing
(`budget.ts:103`), so with two of them it stops above the tie and drops a unit although a cheaper level below would fit,
where the comment at `budget.ts:14` has every unit at its cheapest first; `Spent` says what it does instead. The run
evaluates `WellStocked` on its instance. The inductive invariant is `CacheSound`: every entry is what some engine that
was asked in its scope under its policy references would project, for every request that would find it (`meant` is the
history of who was asked what).

The rules themselves are no part of the key (`cache.ts:60`), only the references a request names (`engine.ts:136`), and
nothing makes two engines mean the same rules by one reference (`engine.ts:28`, `engine.ts:189`): over one cache, an engine may
serve what another one's rules left in. That is what the condition on hits in `HitsAreFresh` is for.

It stands because two requests with one key have the same text
(`SameKeySameText`), which fails as soon as the policies, the scope or the level are left out of the key. For the
budget: sums change by what one row changes (`SumChanges`); while the total is over the budget, the last row that
saves most gives up a level, so as many steps as there are levels to give up suffice (`DegradedIs`), and the last
one given up was needed (`Needed`); what is kept is the longest prefix that fits (`KeptIs`).

Seen while modelling, without a run:

* A `swap` of an identity that is mounted already reports success with the *old* mount, wherever the new bundle
  lies (`corpus-snapshot.ts:614`; the comment at 420 describes a fresh load).
* The handler's engine is fixed at boot: an activation changes the registry only (`corpus.ts:101` says otherwise);
  `main.ts` passes no registry, so `/v1/corpora` answers 404, and it discards the tracer's flush.
* A malformed percent-encoding in a path answers 500, where `wire.ts` says 400.
* A cache hit returns an empty `redactedPaths`.
* Two numbers tell of units a principal may not see: `total_index_tokens` (`index.ts:271`), and the withheld count in
  the rationale of a plan (`serve.ts:448`). `HiddenIsAbsent` is about everything else (`Told`).
* A resource name carries a level, which is looked up as the name of a definition in whatever profile (`serve.ts:217`,
  `serve.ts:558`; the profile of the name is ignored): a definition named as another one's level shadows it.

### What is proved

`CorpusServerProofs.tla`, for any number of bundles, boots, swaps, calls and writes, under `WellKept`: every path the
host names has a bundle on disk, a bundle that loads states a release, and a listening process has settings (the
instance satisfies it). `HistoryIsServed` is `ServesItsHistory`; `HistoryIsAppended` says of each step
that it takes nothing back: no mount is replaced or dropped, no entry of the log changes.

The property is not inductive. `Kept` adds that everything active is mounted (`Sound`), that the last entry of
each namespace is what is active and no entry is of another namespace (`Chained`), that what each entry names is mounted
as it was (`Recorded`), and what a call may hold while it waits (`Lawful`). Boot, swap and activation all grow
the registry and log the difference, so one lemma, `ChainGrows`, covers the three; boot is an induction
over its requests (`FromIsSound`), and a swap logs the switched namespaces in any order since
each is switched once (`LogOfIs`).
* A resource name resolves whatever release it carries; a level that does not apply falls back silently.
* `emitBundleDiagnostics` writes `diagnostics.json` into the hashed root, after which the bundle no longer
  mounts (`CONTENT_DIGEST_MISMATCH`), against the comment at `diagnostics-sink.ts:184`.

## 9. Compiler, parser, bundles

`Declarations.tla` is what the parser hands on. `Resolver.tla` (graph and load order), `Checker.tla` (one
declaration, and a corpus), `Normalizer.tla` and `Emitter.tla` (chunks, compiled units, text and graph) are the phases
as operators; `CompilePipeline.tla` runs them, one action per phase, and stops at the first that finds an error.
Wording and layout of what is emitted are left out: a text is the sequence of what it says of whom.
`Lexer.tla` and `Parser.tla` follow the code method by method, recovery included; `SourceText.tla` writes
declarations down again, as the reference, and runs both over small inputs.
`UnitEmitter.tla` replaces the directory of a unit, `BundleFinalizer.tla` index and manifest of a bundle: any
file system call may fail, the process may stop between two and start again, and units may be written
meanwhile. `BundleFinalizer.tla` also has the index a corpus gets.

| Property | Instance | Shows |
|---|---|---|
| `CompilationIsSound` | graphs over 3 installed declarations, units of 3 types, corpora of 3; every short text over the lexer's alphabet, every line of up to 3 tokens where a line may stand | an accepted graph is closed, ordered and free of conflicts; the text says what the graph says; a unit keeps every field; layers contain each other; findings do not depend on the order of declarations; tokens stand where they say; a source without an error loses nothing; the field after a wrong line survives |
| `AUnitIsWhole` | 3 emissions of a unit with 2 projections, 2 troubles | a unit's directory is never half of one; with one trouble it is the unit written last, after a stop that, a later one, or the old one beside it |
| `BundleIsWhole` | 3 finalizations, 2 mishaps, 3 requests, a unit that is read, replaced or no regular file | success leaves a pair the loader accepts, and an index that names each entry once; a refusal leaves index and manifest alone; a failure after the manifest took the place of an old one puts both back, an earlier one leaves no manifest; a stop or an abandoned restoration leaves no new manifest beside another index than its own; the old pair is there until the loader accepts the new one |

Short texts and lines hold every pair of constructs that can meet; two troubles, or mishaps, are a failure and a failing
restoration. `GraphIsSound` excuses what lies behind a cycle, which the code loads last.

Seen while modelling, without a run:

* Parser: a raw expression that ends in a quoted text or a percentage is cut short (`parser.ts:695`; the comment at
  637 says it round-trips); the range `0.0-1.0` is an error; keywords are looked up in a plain object, so
  `constructor` and `toString` are no names; text behind the closing brace is ignored; unknown characters are skipped
  silently; a field without a value takes the next line's; an empty `error:` is taken without a word; a text
  whose bar stands on a later line is lost.
  `readBlockScalar` strips all indentation, where `lexer.ts:195` says the common one.
* Resolver and checker: dependencies loaded *after* never order anything; a cycle the root does not reach by
  *before* edges is not reported; requested versions are never compared with what is installed; the rules for
  `@sealed` and `@abstract` never fire on installed files, which carry no decorators; a required field named like a
  relation can never be present; `checkL3Cross` is called by tests only.
* Emission: text output is three or four files written one after the other; where a restore fails, the backup
  is removed as well; a stop between the two renames leaves only the hidden backup.
* Finalizer: `oldIndex` and `oldManifest` start as false (`bundle/src/index.ts:26`), so a call that fails before they are
  set, or units that changed meanwhile, make the restoration delete a valid manifest (64, 68). The test at
  `finalize.test.ts:43`, "preserves a prior valid index and manifest", refuses at the start, before anything is
  staged, where the property holds. Stopped between its renames, or abandoned by a failing restoration, a
  finalization may leave the old manifest beside the new index: the loader refuses that pair. A second finalizer removes the stage files of a first one that still runs (`index.ts:55`).

### What is proved

`BundleStaysWhole` (`WriterProofs.tla`): `BundleIsWhole` for every number of rounds and mishaps, every
unit and every request whose names stand in one order (`WellAsked`: string comparison does, and the instance is
checked against it by an `ASSUME`). Not inductive: that the old pair comes back depends on where it is meanwhile.
`FinalizerInv` says so step by step (`Law`): which of the old files stands in its place and which beside it
(`Stands`), that the index written is the one asked for, and that what the process *knows* it moved
(`oldIndex`, `oldManifest`) is what it moved, except in between: from a failing rename to the assignment
it knows less than it did, and then no manifest survives, which is why the property promises the old pair only once the
new manifest is in. For the ends no restoration completes, it says of each file which one it may be. That the index names each entry once is a lemma about data: `ById` and `InOrder` place each name by
how many come before it, so that each has one place (`RankIs`), and the clusters share the entries out
(`IndexNamesOnce`).

`UnitStaysWhole` (`WriterProofs.tla`): `AUnitIsWhole` for any versions, projections and numbers of emissions and
troubles. The property speaks of the moments between emissions; `EmitterInv` adds the calls in between: what is
whole under either name, what the staged directory holds before it is moved in (`EmitterCourse`), and where
the newest unit is as long as nothing went wrong, or one call did (`EmitterKeeps`). Two troubles may lose
the old unit (a failing call, then a failing way back), so the second half of the property stops at one.

## 10. Corpus packages and reconciliation

The first part of `CorpusPackage.tla` is `semver.ts`: the order of versions, ranges, and which versions a range
offers, against a reference that says of a comparator what it means without bounds: which part is held
fixed, what floor the rest has, and, for prereleases, what the code does: a clause that names any prerelease has all
of them within its bounds. The rest loads a declaration,
looks its paths up, resolves models and licences and runs the conformance suite of `testkit`. `Reconciler.tla` loads two
corpora, matches each legacy unit by the strongest evidence there is (one action per unit) and judges both sides.

| Property | Instance | Shows |
|---|---|---|
| `PackageIsResolved` | a sound declaration with one thing changed at a time, ranges around their bounds, with wildcards, hyphens and prereleases under every operator, licences over 4 identifiers | what is published is there under one licence; each model gets the highest version its range means, if and only if it means one; a licence passes exactly if a permitted choice is left; the suite fails exactly for errors |
| `VerdictsAgree` | small corpora with one, several or no counterpart by each kind of evidence | a twin is never overlooked, and one of the same name is mapped; the verdicts of both sides agree; unmatched means no edge |

`cp_prerelease` must end in a counterexample to `PrereleaseIsPinned`, which is the comment at `semver.ts:240`: a
prerelease is in range only if a comparator of its clause names one of the same three numbers. One prerelease comparator
admits every prerelease within its clause's bounds (`^1.0.0-alpha` takes 2.0.0-rc.1): the test at 240 is dead.

Seen while modelling, without a run:

* A comparator without any number beside others (`* <2.0.0`, `^*`, `1.0.0 - *`) is read as zeros.
* An available version that does not parse makes `resolveCorpusPackage` throw (`loader.ts:162`).
* `requireDeclared: false` silences the load check only; exceptions and "+" do not count in a licence.
* `reconcile.ts:32` calls one tier the only one that maps, `MAPPED_TIERS` (`reconcile.ts:61`) has two, and the
  report says so (`cli.ts:89`, "the two exact-identifier tiers yield `mapped`"). The code and the comment cannot both be meant, so of a twin behind a kind
  prefix `VerdictsAgree` asks only that it is matched, not under which verdict; a source without a file yields a
  bare repository key, which the comment at 127 excludes; ids are not checked to be unique.

## 11. Policies and evaluation

`PolicyEngine.tla` loads a directory of policy sets, all of them or none (a file may be missing, a directory, a
link that leaves the root, or hold something else), selects the set a request claims and decides. The host
may bind a request to the set it names or to one in use, which is why a claim can mismatch. `EvaluationEngine.tla`
parses and evaluates expressions and runs a suite check by check; a provider answers, throws, or breaks its
contract, and the host may register one between two checks.

| Property | Instance | Shows |
|---|---|---|
| `DecisionIsLawful` | rules on every axis in both effects and orders, 1 or 2 files in every condition | what is allowed is allowed by the claimed set, in whichever order its rules stand, and the decision names what supports it; the set that decides is the only one or the one that was named; one fault loads nothing |
| `VerdictsAgree` | expressions around the operators that bind differently, suites of up to 3 checks | a satisfied suite has an earned verdict for every check and no check could be left out to satisfy it; an expression splits where its grammar says, survives being written with all its parentheses, and obeys De Morgan where operands fail too |

`AccessProofs` also proves `DecisionStaysLawful`: `DecisionIsLawful` for every directory, claim, context and action,
under `WellRequested` (files and rules are sequences). Two facts carry it. `ExplainIsLawful`: the first deny, else
the first match, allows exactly when no rule that matches denies and a rule or the default allows, which says
nothing of order, so reversing the rules decides the same. `LoadsAll`: without a fault every file holds a set,
so the sets are the files', one for one, with different names. The inductive invariant `PolicyInv` adds that the
set that decides is one of those, selected by the name the request is held to, and that a decision is what that
set explains. What an axis compares is left opaque: the theorem holds whatever `AxisMatches` says.

A rule that is pinned to a capability no action requires may still fire, for a principal who holds it, where the
comment at `policy-engine/src/engine.ts:98` says that such a rule never does. Nothing in `src` but tests selects or validates a set.

## 12. Language server

`LanguageServer.tla` is one document between an editor and the store: the editor (external) opens, edits by line
and character, and closes; its notifications arrive late, twice, in any order; the store refuses what is
not newer, applies a notification whole or not at all, and parses on request. `EditorFeatures.tla` extends
`CompilePipeline`: the phases up to the emitters run again for diagnostics, the model is asked apart from them, and
completion reads the tokens before the cursor. Each input of the pipeline is written out token by token, and the
cursor is placed behind each token.

| Property | Instance | Shows |
|---|---|---|
| `EditorIsInStep` | texts with line feeds and carriage returns, 3 notifications sent, 3 accepted | if no notification was skipped since the last whole text, the document is what the editor had, whatever came late, twice or could not be applied; one parse per version taken; offsets and positions are each other's |
| `EditorIsInStep` | the inputs of the compiler | an editor is told what the compiler finds, phase for phase; the cursor's place is the grammar's; a field that is offered removes its own complaint and adds none |

`ls_overtaken` must end in a counterexample to `EveryVersionIsTheEditors`: the same without the condition. Only a version
that is *not newer* is refused, so version 3 arriving before version 2 is applied to a text it was not made for, although
`document-store.ts:99` gives reordering as the reason for refusing. Three notifications are the least in which one
overtakes another and a third comes twice. An edit of an earlier session with a higher version, which the reopened
document takes too, needs a fourth and is outside the instance.

Seen while modelling, without a run: behind a decorator the kind and prime forms take the decorator for the type
(`completion.ts:80`), so nothing is offered there; inside a list fields are offered; a cursor in a comment
is not recognised; the editor reports relation-named fields and `_meta` as unknown or missing, which the
normalizer accepts. `EditorAgrees` excludes those.

## 13. What is proved, and what is only checked

The theorems of sections 3 to 6, 8 and 9 hold for every value of the constants, under the hypotheses named there:

| Module | Theorems | Properties of runs they state |
|---|---|---|
| `ActionRuntimeProofs` | `TypeCorrect`, `DisciplineHolds`, `ClaimFirst` | `TypeOK`, `ClaimDiscipline`, `ClaimPrecedesEffect` |
| | `NodesRunOnce`, `GatesComeFirst`, `VerdictsAreFinal`, `EffectHappensOnce`, `LedgerNamesSaved`, `PromiseIsKept`, `AnswersAreOfOwners`, `RunsRestSaved` | `EachNodeOnce`, `GatesPrecedeEffect`, `TerminalIsFinal`, `OneEffectPerKey`, `LedgerNamesSavedRun`, `KeepsPromise`, `AnswersAgree`, `RestEquivalence` |
| `PluginHostProofs` | `PluginTypes`, `HistoriesAreLegal`, `PendingIsExact`, `AnswersAreFinal`, `RecordsAreRegistered`, `NoChildIsAdrift`, `ActivationsStand` | `TypeOK`, `Histories`, `PendingExact`, `AnswerIsFinal`, `RecordIsRegistered`, `NoneAdrift`, `ActivationsAreSound` |
| `EventStoreProofs` | `StoreIsTyped`, `StoreIsSteady`, `StoreIsMemory`, `LossStaysBounded` | `LikeMemoryUntilTorn`, `LossIsBounded` |
| `ConstraintSolverProofs` | `SelectionStaysLawful`, `OrderStaysRespected`, `CoreStaysMinimal`, `SolutionStaysSound`, `SolverTypes` | `SolutionIsSound` and its three parts |
| `CorpusServerProofs` | `HistoryIsServed`, `HistoryIsAppended` | `ServesItsHistory` |
| `AccessProofs` | `ProjectionStaysLawful`, `DecisionStaysLawful` | `ProjectionIsLawful`, `DecisionIsLawful` |
| `WriterProofs` | `BundleStaysWhole`, `UnitStaysWhole` | `BundleIsWhole`, `AUnitIsWhole` |

Everything else is model-checked on the instances above only:

* Liveness under fairness, in sections 3 and 4.
* The components of sections 7 and 9 to 12 but the two that write directories and the policy engine, and the MCP
  server in section 8. The modules with recursive operators (`Lexer`, `Parser`, `SourceText`,
  `CorpusPackage`, `EvaluationEngine`, `LanguageServer` and those that extend them, `MCComponents` included) are
  out of the prover's reach, and it does not expand `SelectSeq` and `SortSeq`, which other modules use. What a
  recursive function computes could be proved where its value after `n` rounds can be written down as a set
  or a function (`Load`, `Closure`, `Components`, `LoadOrder`, a sum), which is how `InductionTheorems` states induction.
* Properties of `MCComponents` that join several components' invariants are stated there, out of the
  prover's reach; the theorems speak of the component's own.

In `PROJECT.json` a helper whose lines lie within those of the operator it serves is mapped with that operator.

## 14. Not modelled

* `registry`: SQL over one table; a model would restate the statements.
* `observability`: spans steer nothing in the modelled parts; `CorpusServer` checks that a call ends its span once.
* `model-schema`: a declarative schema and a file lookup; where a model matters it is a parameter.
* `cli`, `sdk`, `sdk-codegen`, `ir`: argument parsing, forwarding, generated text. The way the CLI runs one
  process per command over one database is what `ActionRuntime` is instantiated with.
* Within modelled parts: loading atoms (`runtime/src/atom-loader.ts`), the diagnostics sink
  (`mcp-server-core`), the tokenizer of expressions, redaction and serialisation of events, the remaining
  suites of `testkit`, and all wording and layout. The rows of `PROJECT.json` say so part by part.
* Faults: exceptions of the event store inside `action-runtime`, and file system errors inside a plugin's mediated
  read, are not modelled; two hazards are listed for them without a property. Nor is a ledger of its own store: the runs
  use one store for both, while `ClaimFirst`, `AnswersAreOfOwners` and `EffectHappensOnce` hold for any `StoreOf`.

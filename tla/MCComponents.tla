---------------------------- MODULE MCComponents ----------------------------
(* Small instances of components that do not interact, side by side: `focus`, chosen at the start, is *)
(* the component that steps, and the others rest in an initial state, so that the states add up.     *)
EXTENDS EventStore, CorpusServer, ConstraintSolver, ProjectionEngine, BundleFinalizer, PolicyEngine,
        UnitEmitter

CONSTANTS
    p1, p2, q1, q2,
    Focuses,      \* the components this run steps
    GraphUnits,   \* unit ids of a graph given to the solver
    MaxEdges,     \* bound on the edges of such a graph
    Budget,       \* its token budget
    MaxRelations  \* bound on the edges of a graph that is queried

VARIABLES
    focus,
    query, tier, tokens, verdict,
    stage, scores, ranking, pulled, before, loaded, spent, rejections, withheld,
    process, names, answer, starts,
    given, pass, made,               \* of the other tools, which take turns
    parseCache, parses, applied      \* of the editor's

Symmetry == Permutations(Proc)

-----------------------------------------------------------------------------
\* Solver: four relations, one of each kind of selection, graphs of a few edges over a fixed choice,
\* among them requirements of an absent unit, cycles, and a relation the model does not declare.
Meaning(t, s, l, cy, co, d) ==
    [traversal |-> t, selection |-> s, loadOrder |-> l, cycle |-> cy, conflict |-> co, directional |-> d]
needs == 1  uses == 2  bans == 3  likes == 4  what == 5
Model == << Meaning("transitive", "closure", "before", "reject", "none", TRUE),
            Meaning("one-hop", "closure", "none", "allow", "none", TRUE),
            Meaning("one-hop", "exclude", "none", "allow", "error", TRUE),
            Meaning("one-hop", "expand", "after", "collapse", "none", FALSE) >>
Link(rel, from, to) == [rel |-> rel, from |-> from, to |-> to, weight |-> to]
GraphEdges == <<Link(needs, 1, 2), Link(needs, 2, 3), Link(needs, 2, 1), Link(needs, 3, 2), Link(needs, 2, 4),
                Link(uses, 1, 2), Link(uses, 2, 3), Link(uses, 3, 4), Link(bans, 1, 2), Link(bans, 3, 1),
                Link(likes, 1, 2), Link(likes, 2, 3), Link(likes, 3, 2), Link(what, 1, 2)>>
\* Two edges in either order, more of them in one.
Graphs(k) == {[i \in 1..k |-> GraphEdges[at[i]]] :
                 at \in {f \in [1..k -> DOMAIN GraphEdges] : k < 3 \/ \A i \in 2..k : f[i - 1] < f[i]}}
Asked(edges, mandatory, prefer, label) ==
    [units |-> GraphUnits, edges |-> edges, mandatory |-> mandatory, prefer |-> prefer,
     label |-> [u \in GraphUnits |-> IF u = 3 THEN label ELSE "none"], undeclared |-> "deny",
     cost |-> [u \in 1..4 |-> 1], budget |-> Budget]
AskedRequests ==
    {Asked(edges, mandatory, prefer, label) :
        edges \in UNION {Graphs(k) : k \in 0..MaxEdges},
        mandatory \in {{1}, {1, 4}}, prefer \in {<< >>, 3 :> 2, 4 :> 2}, label \in {"none", "closed"}}

FourIds == 1..4

-----------------------------------------------------------------------------
\* Query engine: four units, two terms, and the relations of the solver.
Frequency == << <<1, 0>>, <<0, 1>>, <<1, 1>>, <<0, 0>> >>
Lexical(units, u) ==
    LET having(t) == Cardinality({v \in units : Frequency[v][t] > 0})
    IN Frequency[u][1] * (1 + Cardinality(units) - having(1)) + Frequency[u][2] * (1 + Cardinality(units) - having(2))
QueryEdges == {Link(needs, 1, 2), Link(needs, 2, 1), Link(needs, 2, 3), Link(needs, 1, 4), Link(needs, 4, 3), Link(likes, 1, 4),
               Link(likes, 3, 1), Link(likes, 2, 4), Link(bans, 1, 2), Link(bans, 2, 4), Link(bans, 3, 2), Link(what, 1, 4)}
SomeEdges == {edges \in SUBSET QueryEdges : Cardinality(edges) <= MaxRelations}
RerankedEdges == {Link(needs, 2, 1), Link(needs, 2, 3), Link(needs, 1, 4), Link(likes, 1, 4), Link(bans, 3, 2), Link(bans, 1, 2)}
Query(edges, denied, unwanted, seeds, limit, reranker, max, cost) ==
    [units |-> 1..4, edges |-> edges, denied |-> denied, unwanted |-> unwanted, seeds |-> seeds, limit |-> limit,
     reranker |-> reranker, max |-> max, cost |-> cost, tiers |-> 2,
     label |-> [u \in 1..4 |-> IF u = 4 THEN "undeclared" ELSE "none"], undeclared |-> "allow"]
Falling == [u \in 1..4 |-> <<u, 1>>]
Uneven == << <<2, 1>>, <<1, 2>>, <<3, 2>>, <<1, 1>> >>
PlannedQueries ==
    {Query(edges, denied, unwanted, seeds, limit, "none", 4, Falling) :
        edges \in SomeEdges, denied \in {{}, {3}}, unwanted \in {{}, {2}}, seeds \in {{1}, {3, 4}}, limit \in {1, 2}}
    \cup {Query(edges, {3}, {}, {1}, 2, "own", 0, Uneven) : edges \in {{}}}
    \cup {Query(edges, {}, {}, {3, 4}, 2, "own", 3, Uneven) : edges \in {e \in SUBSET RerankedEdges : Cardinality(e) < MaxRelations}}
ConstrainedQueries ==
    {Query(edges, denied, {}, seeds, 4, "none", max, cost) :
        edges \in SomeEdges, denied \in {{}, {3}}, seeds \in {{1}, {3, 4}}, max \in {3, 5}, cost \in {Falling, Uneven}}

Weights == [lexical |-> 1, graph |-> 1]
Engine == INSTANCE QueryEngine WITH One <- 12, MaxDepth <- 8, Profile <- Weights, Queries <- PlannedQueries
Constrained == INSTANCE ConstrainedPlan WITH
                   Ids <- 1..4, One <- 12, MaxDepth <- 8, Profile <- Weights, Queries <- ConstrainedQueries

-----------------------------------------------------------------------------
\* Corpora: one bundle that stays, one that is replaced; two calls, of which one only activates.
Shown == INSTANCE ServingCases
FormalNamespaces == {"org/alpha", "org/beta"}
OneReplaced == [path \in {"there"} |-> {Shown!OtherRelease, Shown!Recompiled}]
StartingDisks == Shown!DiskCases
StartingBoots == Shown!BootCases
LaterSwaps == Shown!SwapCases
AskedOfServer == q1 :> Shown!HttpCases @@ q2 :> Shown!ActivateCases
OneReader == [p \in {"reader"} |-> {"u1"}]

-----------------------------------------------------------------------------
\* Projection: two tenants and two releases share a cache; the MCP server: two releases, two principals.
LevelsShown == Shown!FiveLevels
ProfilesRouted == Shown!Routed
EnginesBuilt == Shown!FourEngines
BundlesHeld == Shown!ThreeHoldings
ProjectionsAsked == Shown!SomeProjections
Mcp == INSTANCE McpServer WITH
           Unset <- None, Catalog <- Shown!NamedLevels, Primary <- "core",
           Deployed <- Shown!SoundBundles \cup Shown!UnsoundBundles, Tenants <- {"t1", "t2"},
           Principals <- Shown!Clearances, Queries <- Shown!McpQueries, MaxStarts <- 2

-----------------------------------------------------------------------------
\* The tools: compiler and editor, parser, the writer of a unit, the finalizer of a bundle, the loader of
\* a corpus package, the reconciler of two corpora, and what decides and evaluates.
Compiled == INSTANCE CompilerCases WITH Absent <- None
Compiling == INSTANCE EditorFeatures WITH
                 Absent <- None, Sources <- Compiled!AllSources, Definitions <- Compiled!DeclaredRelations,
                 RelationKeys <- <<"requires", "extends", "contradicts", "enhances", "helps", "sees">>,
                 NotKebab <- {"Bad"}, NotSemver <- {"new"}, Kebab <- Compiled!KebabOf, Lower <- Compiled!LowerOf,
                 Words <- Compiled!WordsOf, Precedes <- Compiled!InOrder, ModelName <- "m", Types <- Compiled!UnitTypes,
                 Module <- Compiled!ModuleOf, Bare <- Compiled!BareOf, Projections <- Compiled!UnitProjections, Unsafe <- {}
Reading == INSTANCE SourceText WITH
               Absent <- None, Texts <- Compiled!SomeTexts, Bodies <- Compiled!SomeBodies, MaxErrors <- 2, Qualified <- {"@q/r"},
               Letters <- {"p", "n"}, Digits <- {"1"}, Keywords <- [word \in {<<"p">>} |-> "PRIME"]
UnitArtifacts == <<"full", "summary">>
Corpus == INSTANCE CorpusCases
NameOrder(x, y) == Corpus!Before(x, y)
BundlesAsked == Corpus!SomeRequests
UnitsWritten == Corpus!SomeContents
Packaging == INSTANCE CorpusPackage WITH
                 Absent <- None, Declared <- Corpus!PackageCases, Prose <- {"see"}, Later <- ("GPL+" :> "GPL")
Reconciling == INSTANCE Reconciler WITH
                   Absent <- None, Documents <- Corpus!CorporaCases, Filler <- {"of"}, Stems <- ("rules" :> "rule"),
                   Beginnings <- {<<"col", "color">>}
InquiriesMade == Corpus!PolicyCases
Evaluating == INSTANCE EvaluationEngine WITH Absent <- None, Suites <- Corpus!SuiteCases
Editing == INSTANCE LanguageServer WITH
               Absent <- None, FirstTexts <- {<<"x", "\r", "\n">>}, Insertions <- {<<"\n">>}, MaxSent <- 3, MaxAccepted <- 3,
               client <- given, wire <- pass, document <- made

-----------------------------------------------------------------------------
AnyQuery == Query({}, {}, {}, {1}, 1, "none", 4, Falling)
tierVars == <<tier, tokens, verdict>>
engineVars == <<stage, scores, ranking, pulled, before, loaded, spent, rejections, withheld>>
corpusVars == <<folders, registry, serving, calls, log, writes>>
mcpVars == <<process, names, answer, starts>>
cacheVars == <<parseCache, parses, applied>>
toolVars == <<given, pass, made, cacheVars>>
planningVars == <<solverVars, tierVars, query, engineVars>>
servingVars == <<corpusVars, projectionVars, mcpVars, toolVars, bundleVars, policyVars, emitVars>>
all == <<focus, vars, planningVars, servingVars>>

\* What projection engine, finalizer and policy engine are given is what their theorems take for granted.
CasesAssumption == WellStocked /\ WellAsked /\ WellRequested
ASSUME CasesAssumption

StoreRests == Init /\ backend = "sqlite"
SolverRests == Begin(Asked(<< >>, {1}, << >>, "none"))
TiersRest == tier = << >> /\ tokens = 0 /\ verdict = ""
EngineRests == /\ stage = "failed" /\ scores = << >> /\ ranking = << >> /\ pulled = {} /\ before = {}
               /\ loaded = << >> /\ spent = 0 /\ rejections = {} /\ withheld = 0
CorporaRest == /\ folders = << >> /\ registry = NoRegistry /\ serving = None /\ calls = [q \in Calls |-> NoCall]
               /\ log = << >> /\ writes = << >>
BundleRests ==
    /\ wanted = None /\ step = "idle" /\ mishaps = 0 /\ directory = [linked |-> FALSE, entries |-> << >>]
    /\ outcome = Outcome(<< >>, << >>, FALSE, FALSE)
PolicyRests == inquiry = None /\ progress = "idle" /\ ruling = Ruling(<< >>, None, None, {})
McpRests == process = None /\ names = {} /\ answer = None /\ starts = 0
EmissionRests == EmitInit /\ emitted = << >>
CacheRests == parseCache = None /\ parses = 0 /\ applied = None
ToolsRest == given = None /\ pass = "" /\ made = None /\ CacheRests

PlanningInit ==
    \/ focus = "solver" /\ SolverInit /\ TiersRest /\ EngineRests /\ query = AnyQuery
    \/ focus = "query" /\ SolverRests /\ TiersRest /\ Engine!Init
    \/ focus = "constrained" /\ EngineRests /\ Constrained!Init
    \/ /\ focus \notin {"solver", "query", "constrained"}
       /\ SolverRests /\ TiersRest /\ EngineRests /\ query = AnyQuery
ToolsInit ==
    \/ focus = "compiler" /\ Compiling!PipelineInit /\ CacheRests
    \/ focus = "reader" /\ Reading!ReaderInit /\ CacheRests
    \/ focus = "package" /\ Packaging!PackageInit /\ CacheRests
    \/ focus = "reconciler" /\ Reconciling!ReconcilerInit /\ CacheRests
    \/ focus = "evaluation" /\ Evaluating!EvaluationInit /\ CacheRests
    \/ focus = "editor" /\ Editing!EditorInit
    \/ focus \notin {"compiler", "reader", "package", "reconciler", "evaluation", "editor"} /\ ToolsRest

ComponentsInit ==
    /\ focus \in Focuses
    /\ IF focus = "store" THEN Init ELSE StoreRests
    /\ PlanningInit
    /\ IF focus = "corpora" THEN ServerInit ELSE CorporaRest
    /\ EngineInit
    /\ IF focus = "bundle" THEN BundleInit ELSE BundleRests
    /\ IF focus = "policy" THEN PolicyInit ELSE PolicyRests
    /\ IF focus = "mcp" THEN Mcp!McpInit ELSE McpRests
    /\ IF focus = "emitter" THEN EmitInit ELSE EmissionRests
    /\ ToolsInit

StoreSteps == focus = "store" /\ Next /\ UNCHANGED <<focus, planningVars, servingVars>>
SolverSteps == focus = "solver" /\ SolverNext /\ UNCHANGED <<focus, vars, tierVars, query, engineVars, servingVars>>
QuerySteps == focus = "query" /\ Engine!Next /\ UNCHANGED <<focus, vars, solverVars, tierVars, servingVars>>
ConstrainedSteps == focus = "constrained" /\ Constrained!Next /\ UNCHANGED <<focus, vars, engineVars, servingVars>>
CorpusSteps == focus = "corpora" /\ ServerNext /\ UNCHANGED <<focus, vars, planningVars, projectionVars, mcpVars, toolVars, bundleVars, policyVars, emitVars>>
ProjectionSteps == focus = "projection" /\ EngineNext /\ UNCHANGED <<focus, vars, planningVars, corpusVars, mcpVars, toolVars, bundleVars, policyVars, emitVars>>
McpSteps == focus = "mcp" /\ Mcp!McpNext /\ UNCHANGED <<focus, vars, planningVars, corpusVars, projectionVars, toolVars, bundleVars, policyVars, emitVars>>
aside == <<focus, vars, planningVars, corpusVars, projectionVars, mcpVars>>
toolsAside == <<aside, bundleVars, policyVars, emitVars>>
CompilerSteps == focus = "compiler" /\ Compiling!PipelineNext /\ UNCHANGED <<toolsAside, cacheVars>>
ReaderSteps == focus = "reader" /\ Reading!ReaderNext /\ UNCHANGED <<toolsAside, cacheVars>>
EmitterSteps == focus = "emitter" /\ EmitNext /\ UNCHANGED <<aside, toolVars, bundleVars, policyVars>>
BundleSteps == focus = "bundle" /\ BundleNext /\ UNCHANGED <<aside, toolVars, policyVars, emitVars>>
PackageSteps == focus = "package" /\ Packaging!PackageNext /\ UNCHANGED <<toolsAside, cacheVars>>
ReconcilerSteps == focus = "reconciler" /\ Reconciling!ReconcilerNext /\ UNCHANGED <<toolsAside, cacheVars>>
PolicySteps == focus = "policy" /\ PolicyNext /\ UNCHANGED <<aside, toolVars, bundleVars, emitVars>>
EvaluationSteps == focus = "evaluation" /\ Evaluating!EvaluationNext /\ UNCHANGED <<toolsAside, cacheVars>>
EditorSteps == focus = "editor" /\ Editing!EditorNext /\ UNCHANGED toolsAside
ComponentsNext ==
    \/ StoreSteps \/ SolverSteps \/ QuerySteps \/ ConstrainedSteps
    \/ CorpusSteps \/ ProjectionSteps \/ McpSteps
    \/ CompilerSteps \/ ReaderSteps \/ EmitterSteps \/ BundleSteps
    \/ PackageSteps \/ ReconcilerSteps \/ PolicySteps \/ EvaluationSteps \/ EditorSteps

ComponentsSpec == ComponentsInit /\ [][ComponentsNext]_all

-----------------------------------------------------------------------------
\* The variables of the components have the types their code gives them.
TypesOK ==
    /\ focus \in Focuses
    /\ TypeOK
    /\ SolverTypeOK
    /\ focus = "query" => Engine!TypeOK
    /\ focus = "constrained" => Constrained!TypeOK
\* The plan of a query, described in QueryEngine: it accounts for every unit, and what the principal
\* may not see leaves no trace in it; under constraints, described in ConstrainedPlan, a budget costs
\* detail and no unit.
PlanIsSound == Engine!PlanIsAccounted /\ Engine!PlanIgnoresTheUnseen /\ Constrained!BudgetNeverDrops
\* The MCP server's, described in McpServer.
ServesTheAdmitted == focus = "mcp" => Mcp!ServesTheAdmitted
\* The compiler's, described in SourceText for the text of a unit and in CompilePipeline for a corpus.
CompilationIsSound ==
    /\ focus = "reader" => Reading!ReadingIsFaithful
    /\ focus = "compiler" => Compiling!CompilationIsSound
\* The corpus package's, described in CorpusPackage; and what its range resolution says of prereleases.
PackageIsResolved == focus = "package" => Packaging!PackageIsResolved
PrereleaseIsPinned == focus = "package" => Packaging!PrereleaseIsPinned
\* The verdicts on the units of two corpora, described in Reconciler, and on a suite, in EvaluationEngine.
VerdictsAgree ==
    /\ focus = "reconciler" => Reconciling!VerdictsAgree
    /\ focus = "evaluation" => Evaluating!EvaluationIsEarned
\* The editor's, described in LanguageServer for its documents, as long as no edit is skipped, and in
\* EditorFeatures for what it is told; and what the store says of its documents, without that condition.
EditorIsInStep ==
    /\ focus = "editor" => Editing!DocumentIsInStep
    /\ focus = "compiler" => Compiling!EditorAgrees
EveryVersionIsTheEditors == focus = "editor" => Editing!EveryVersionIsTheEditors
=============================================================================

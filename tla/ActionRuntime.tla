--------------------------- MODULE ActionRuntime ---------------------------
(***************************************************************************)
(* The governed action runtime: packages/action-runtime/src/index.ts, run  *)
(* by several operating-system processes over a durable event store and    *)
(* idempotency ledger (packages/event-store/src).                          *)
(*                                                                         *)
(* A process is one JavaScript event loop.  Code between two awaits runs   *)
(* to completion, so cpu[p] names the run whose synchronous segment the    *)
(* loop of p is inside.  Within a segment every call on the store is a     *)
(* step of its own: another process can interleave with it, and a crash    *)
(* can fall between two of them.                                           *)
(*                                                                         *)
(* Abstracted: what an input, a plan node or an event carries.  A node is  *)
(* its kind, an event its type, and every decision of an external          *)
(* provider, authorizer or policy is a choice.                             *)
(***************************************************************************)
EXTENDS Naturals, Sequences

CONSTANTS
    Proc,        \* runtime processes
    Stores,      \* event stores (databases)
    StoreOf,     \* the event store each process is configured with
    Callers,     \* calls of execute(), each made once
    Keys,        \* idempotency tuples (tenant, workspace, snapshot, action, key)
    Inputs,      \* canonical input fingerprints
    RunIds,      \* run identifiers
    Plans,       \* execution plans a definition or a planner may yield
    DryRun,      \* the values the dryRun argument takes: subset of BOOLEAN
    Approvers,   \* processes that receive approve() calls
    UniqueIds,   \* TRUE: `run-<ms>-<counter>` never repeats across processes
    MaxCrashes,  \* bound on crashes
    MaxApprovals,\* bound on accepted approve() calls
    None

ProcAssumption   == StoreOf \in [Proc -> Stores] /\ Approvers \subseteq Proc
FlagAssumption   == UniqueIds \in BOOLEAN /\ DryRun \subseteq BOOLEAN
BoundAssumption  == MaxCrashes \in Nat /\ MaxApprovals \in Nat
ASSUME ProcAssumption
ASSUME FlagAssumption
ASSUME BoundAssumption

Status   == {"planned", "awaiting_approval", "running", "succeeded", "failed", "denied"}
Terminal == {"succeeded", "failed", "denied"}

\* Node kinds by what runNode does with them; "gap" is every kind of NODE_KIND_GAPS.
NodeKind  == {"validate", "authorize", "capability", "precondition", "policy",
              "approval", "invoke", "output", "emit", "gap"}
Precheck  == {"validate", "authorize", "capability", "precondition"}
\* timed: the plan's budget names a duration, so an attempt gets a timer (oneAttempt).
PlanType  == [nodes : Seq(NodeKind), max : 0..10, idem : BOOLEAN, timed : BOOLEAN]

PlansAssumption == Plans \subseteq PlanType
ASSUME PlansAssumption

\* The plan the runtime derives from a definition, before a planner sees it.
PlanFor(gates, approval, max, idem, timed) ==
    [nodes |-> <<"validate", "authorize">> \o gates
                 \o (CASE approval = "human"  -> <<"approval">>
                       [] approval = "policy" -> <<"policy">>
                       [] OTHER               -> << >>)
                 \o <<"invoke", "output", "emit">>,
     max |-> max, idem |-> idem, timed |-> timed]

VARIABLES
    ledger,    \* key -> the claim that owns it, or None
    rev,       \* store -> run id -> last saved revision, or None
    log,       \* store -> run id -> event types in append order
    live,      \* process -> run id -> the run object it holds, or None
    walk,      \* process -> run id -> the walk in progress, or None
    cpu,       \* process -> run whose synchronous segment is executing, or None
    pending,   \* process -> key -> the in-flight execution, or None
    minted,    \* process -> run ids its counter has produced since it started
    call,      \* caller -> what became of its execute() call
    effects,   \* key -> walks that called the provider for it (history)
    crashes,   \* crashes so far (bound)
    approvals  \* accepted approvals so far (bound)

vars == <<ledger, rev, log, live, walk, cpu, pending, minted, call, effects,
          crashes, approvals>>

-----------------------------------------------------------------------------
(* State *)

Event == {"run.created", "run.planned", "run.denied", "run.failed", "run.succeeded",
          "authorization.allowed", "authorization.refused", "authorization.error",
          "authorization.denied", "policy.decided", "policy.denied", "policy.error",
          "policy.failed", "node.skipped", "idempotency.replayed",
          "idempotency.unresolved", "approval.requested", "approval.granted",
          "approval.accepted", "provider.attempt.started",
          "provider.attempt.succeeded", "provider.attempt.failed"}

\* key is history: the code keeps it in WalkState only.  steps lists the nodes that
\* were executed, by their position in the plan.
RunRecord == [status : Status, key : Keys, input : Inputs, plan : Plans, steps : Seq(Nat)]
Claim     == [run : RunIds, input : Inputs]
Op        == [op : {"save"}, arg : Status] \cup [op : {"append"}, arg : Event]
               \cup [op : {"call"}, arg : {"provider"}]
Walker    == [i : Nat, n : 0..10, claimed : BOOLEAN, dry : BOOLEAN, todo : Seq(Op),
              then : {"check", "enter", "await", "end"}, result : RunIds]
CallState == [st : {"idle", "waiting", "answered", "rejected", "lost"},
              proc : Proc \cup {None}, key : Keys \cup {None}, input : Inputs \cup {None},
              dry : BOOLEAN, run : RunIds \cup {None}, status : Status \cup {None}]

NoneAssumption == /\ None \notin RunIds /\ None \notin Status
                  /\ None \notin Claim /\ None \notin RunRecord /\ None \notin Walker
ASSUME NoneAssumption

NoCall == [st |-> "idle", proc |-> None, key |-> None, input |-> None,
           dry |-> FALSE, run |-> None, status |-> None]

\* BaseEventStore.getIn: the object this process holds, else the folded revisions.
Get(p, r) == IF live[p][r] # None THEN live[p][r] ELSE rev[StoreOf[p]][r]

Save(status)      == [op |-> "save", arg |-> status]
Append1(type)     == [op |-> "append", arg |-> type]
CallProvider1     == [op |-> "call", arg |-> "provider"]

\* transition(): save the run under its new status, then append the event.
Transition(status, type) == <<Save(status), Append1(type)>>

Init ==
    /\ ledger    = [k \in Keys |-> None]
    /\ rev       = [s \in Stores |-> [r \in RunIds |-> None]]
    /\ log       = [s \in Stores |-> [r \in RunIds |-> << >>]]
    /\ live      = [p \in Proc |-> [r \in RunIds |-> None]]
    /\ walk      = [p \in Proc |-> [r \in RunIds |-> None]]
    /\ cpu       = [p \in Proc |-> None]
    /\ pending   = [p \in Proc |-> [k \in Keys |-> None]]
    /\ minted    = [p \in Proc |-> {}]
    /\ call      = [c \in Callers |-> NoCall]
    /\ effects   = [k \in Keys |-> 0]
    /\ crashes   = 0
    /\ approvals = 0
-----------------------------------------------------------------------------
(* execute() *)

\* Synchronous code runs in one place at a time: a segment starts on an idle loop.
Idle(p) == cpu[p] = None

Become(p, r, w) == walk' = [walk EXCEPT ![p][r] = w]

\* Mutant: a key answers for every input.
AnyInput(claim, i) == TRUE

\* The fingerprint comparison of execute() and of the ledger.
SameInput(claim, i) == claim.input = i

\* Mutant: execute() answers with the run before its promise settles.
SettleEarly(c, p, k, i, dry, st, r, status) ==
    call' = [call EXCEPT ![c] = [st |-> IF st = "waiting" THEN "answered" ELSE st,
                                 proc |-> p, key |-> k, input |-> i,
                                 dry |-> dry, run |-> r, status |-> status]]

Settle(c, p, k, i, dry, st, r, status) ==
    call' = [call EXCEPT ![c] = [st |-> st, proc |-> p, key |-> k, input |-> i,
                                 dry |-> dry, run |-> r, status |-> status]]

\* A run id whose counter value this process has not used; with UniqueIds the
\* millisecond part keeps it apart from the ids of every other process too.
Fresh(p, r) == /\ r \notin minted[p]
               /\ UniqueIds => \A s \in Stores : rev[s][r] = None
               /\ UniqueIds => \A q \in Proc : r \notin minted[q]

\* The ledger already knows the tuple: the prior run, a conflict, or a torn deployment.
ExecuteKnown(c, p, k, i) ==
    /\ call[c].st = "idle" /\ Idle(p) /\ ledger[k] # None
    /\ LET prior == ledger[k]
           run   == Get(p, prior.run)
       IN IF SameInput(prior, i) /\ run # None
          THEN Settle(c, p, k, i, FALSE, "answered", prior.run, run.status)
          ELSE Settle(c, p, k, i, FALSE, "rejected", None, None)
    /\ UNCHANGED <<ledger, rev, log, live, walk, cpu, pending, minted, effects,
                   crashes, approvals>>

\* The tuple is being executed by this process: share its promise, or conflict.
ExecuteShared(c, p, k, i) ==
    /\ call[c].st = "idle" /\ Idle(p) /\ ledger[k] = None /\ pending[p][k] # None
    /\ IF SameInput(pending[p][k], i)
       THEN Settle(c, p, k, i, FALSE, "waiting", pending[p][k].run, None)
       ELSE Settle(c, p, k, i, FALSE, "rejected", None, None)
    /\ UNCHANGED <<ledger, rev, log, live, walk, cpu, pending, minted, effects,
                   crashes, approvals>>

\* newRun(): a fresh run object, saved and announced before it is checked.  A dry
\* run looks at neither the ledger nor the in-flight map, and enters neither.
ExecuteNew(c, p, k, i, dry, r, plan) ==
    /\ call[c].st = "idle" /\ Idle(p) /\ Fresh(p, r)
    /\ ~dry => ledger[k] = None /\ pending[p][k] = None
    /\ live' = [live EXCEPT ![p][r] = [status |-> "planned", key |-> k, input |-> i,
                                       plan |-> plan, steps |-> << >>]]
    /\ Become(p, r, [i |-> 1, n |-> 0, claimed |-> FALSE, dry |-> dry,
                     todo |-> Transition("planned", "run.created"),
                     then |-> "check", result |-> r])
    /\ cpu' = [cpu EXCEPT ![p] = r]
    /\ minted' = [minted EXCEPT ![p] = @ \cup {r}]
    /\ pending' = IF dry THEN pending
                  ELSE [pending EXCEPT ![p][k] = [run |-> r, input |-> i]]
    /\ Settle(c, p, k, i, dry, "waiting", r, None)
    /\ UNCHANGED <<ledger, rev, log, effects, crashes, approvals>>

-----------------------------------------------------------------------------
(* The synchronous segment of the run the loop of p is inside *)

\* Continue the segment with the store operations of todo, then as `then` says.
Goto(p, r, todo, then) ==
    Become(p, r, [walk[p][r] EXCEPT !.todo = todo, !.then = then])

\* finish(): the last transition of a walk, whose result is the run itself.
Finish(p, r, before, status, type) ==
    Goto(p, r, before \o Transition(status, type), "end")

\* Everything except the walk, the store and the caller's results.
Bookkeeping == <<minted, crashes, approvals>>

HasTodo(p, r) == walk[p][r].todo # << >>
Ready(p, r, then) == /\ cpu[p] = r /\ walk[p][r] # None
                     /\ walk[p][r].todo = << >> /\ walk[p][r].then = then

Releases(w) == Len(w.todo) = 1 /\ w.then = "await"

\* One store call of the segment; the loop is released where the segment awaits.
StoreStep(p, r, op) ==
    /\ cpu[p] = r /\ walk[p][r] # None /\ HasTodo(p, r)
    /\ Head(walk[p][r].todo) = op
    /\ Become(p, r, [walk[p][r] EXCEPT !.todo = Tail(@)])
    /\ cpu' = IF Releases(walk[p][r]) THEN [cpu EXCEPT ![p] = None] ELSE cpu
    /\ UNCHANGED <<ledger, pending, call, Bookkeeping>>

\* Mutants: the run is saved before its status is assigned; a planned run is not saved.
SavedEarly(p, r, status) == live[p][r]
SavedLazily(p, r, status) == IF status = "planned" THEN rev[StoreOf[p]][r]
                             ELSE [live[p][r] EXCEPT !.status = status]
Saved(p, r, status) == [live[p][r] EXCEPT !.status = status]

SaveRun(p, r, status) ==
    /\ StoreStep(p, r, Save(status))
    /\ live' = [live EXCEPT ![p][r] = [@ EXCEPT !.status = status]]
    /\ rev' = [rev EXCEPT ![StoreOf[p]][r] = Saved(p, r, status)]
    /\ UNCHANGED <<log, effects>>

AppendEvent(p, r, type) ==
    /\ StoreStep(p, r, Append1(type))
    /\ log' = [log EXCEPT ![StoreOf[p]][r] = Append(@, type)]
    /\ UNCHANGED <<rev, live, effects>>

\* provider.execute(): the external effect.  A retry is the same walk's effect.
CallProvider(p, r) ==
    /\ StoreStep(p, r, CallProvider1)
    /\ effects' = IF walk[p][r].n = 1
                  THEN [effects EXCEPT ![live[p][r].key] = @ + 1] ELSE effects
    /\ UNCHANGED <<rev, log, live>>

\* validateContext, validateSnapshot, effect() and executionOrder either let the
\* request be walked or deny it.
AcceptRequest(p, r) ==
    /\ Ready(p, r, "check")
    /\ Goto(p, r, << >>, "enter")
    /\ UNCHANGED <<ledger, rev, log, live, cpu, pending, call, effects, Bookkeeping>>

RefuseRequest(p, r) ==
    /\ Ready(p, r, "check")
    /\ Finish(p, r, << >>, "denied", "run.denied")
    /\ UNCHANGED <<ledger, rev, log, live, cpu, pending, call, effects, Bookkeeping>>

-----------------------------------------------------------------------------
(* walk(): the loop head *)

Nodes(p, r)    == live[p][r].plan.nodes
AtEnd(p, r)    == walk[p][r].i > Len(Nodes(p, r))
Node(p, r)     == Nodes(p, r)[walk[p][r].i]
\* Mutant: the claim waits for the node that writes the audit record.
MustClaimLate(p, r) == ~walk[p][r].claimed /\ Node(p, r) = "emit"
MustClaim(p, r) == ~walk[p][r].claimed /\ Node(p, r) \notin Precheck

Enter(p, r) == Ready(p, r, "enter")

\* The plan ran out before an Emit node recorded the run.
EndOfPlan(p, r) ==
    /\ Enter(p, r) /\ AtEnd(p, r)
    /\ Finish(p, r, << >>, "failed", "run.failed")
    /\ UNCHANGED <<ledger, rev, log, live, cpu, pending, call, effects, Bookkeeping>>

\* A dry run stops where a real one would claim its key.
StopDryRun(p, r) ==
    /\ Enter(p, r) /\ ~AtEnd(p, r) /\ MustClaim(p, r) /\ walk[p][r].dry
    /\ Finish(p, r, << >>, "planned", "run.planned")
    /\ UNCHANGED <<ledger, rev, log, live, cpu, pending, call, effects, Bookkeeping>>

\* Mutant: the ledger row is replaced.
LatestOwner(k, mine) == mine

\* putIdempotency: insert if absent, and read back who owns the row.
Owner(k, mine) == IF ledger[k] = None THEN mine ELSE ledger[k]

\* claimFor(): judged by who owns the row after the insert.
ClaimKey(p, r) ==
    /\ Enter(p, r) /\ ~AtEnd(p, r) /\ MustClaim(p, r) /\ ~walk[p][r].dry
    /\ LET k     == live[p][r].key
           mine  == [run |-> r, input |-> live[p][r].input]
           owner == Owner(k, mine)
       IN /\ ledger' = [ledger EXCEPT ![k] = owner]
          /\ \/ /\ ~SameInput(owner, mine.input)         \* conflict thrown
                /\ Finish(p, r, << >>, "denied", "run.denied")
             \/ /\ SameInput(owner, mine.input) /\ owner.run = r
                /\ Become(p, r, [walk[p][r] EXCEPT !.claimed = TRUE])
             \/ /\ SameInput(owner, mine.input) /\ owner.run # r
                /\ Get(p, owner.run) # None           \* answer with the owner's run
                /\ Become(p, r, [walk[p][r] EXCEPT
                             !.todo = <<Append1("idempotency.replayed")>>,
                             !.then = "end", !.result = owner.run])
             \/ /\ SameInput(owner, mine.input) /\ owner.run # r
                /\ Get(p, owner.run) = None
                /\ Finish(p, r, <<Append1("idempotency.replayed")>>,
                          "denied", "idempotency.unresolved")
    /\ UNCHANGED <<rev, log, live, cpu, pending, call, effects, Bookkeeping>>

\* InvokeAction's own checks: the attempt budget, and retries only if idempotent.
Invocable(plan) == plan.max \in 1..10 /\ (plan.max > 1 => plan.idem)

Attempt == Transition("running", "provider.attempt.started") \o <<CallProvider1>>

\* The synchronous part of runNode, up to its await.
BeginNode(p, r) ==
    /\ Enter(p, r) /\ ~AtEnd(p, r) /\ ~MustClaim(p, r)
    /\ LET invokes == Node(p, r) = "invoke" /\ Invocable(live[p][r].plan)
           todo == IF Node(p, r) = "gap" THEN <<Append1("node.skipped")>>
                   ELSE IF invokes THEN Attempt ELSE << >>
       IN /\ Become(p, r, [walk[p][r] EXCEPT !.n = IF invokes THEN 1 ELSE 0,
                                               !.todo = todo, !.then = "await"])
          /\ cpu' = IF todo = << >> THEN [cpu EXCEPT ![p] = None] ELSE cpu
    /\ UNCHANGED <<ledger, rev, log, live, pending, call, effects, Bookkeeping>>
-----------------------------------------------------------------------------
(* What a node's await resolves to.  Each starts a segment on the idle loop. *)

Awaiting(p, r) == /\ Idle(p) /\ walk[p][r] # None
                  /\ walk[p][r].todo = << >> /\ walk[p][r].then = "await"

\* recordStep() extends the live run only; a later transition saves it.
Recorded(p, r) ==
    live' = [live EXCEPT ![p][r] = [live[p][r] EXCEPT !.steps = Append(@, walk[p][r].i)]]

Resolve(p, r, kinds) ==
    /\ Awaiting(p, r) /\ Node(p, r) \in kinds
    /\ cpu' = [cpu EXCEPT ![p] = r]
    /\ UNCHANGED <<ledger, rev, log, pending, call, effects, Bookkeeping>>

\* The node passed: on to the loop head, after the events it appended.
Pass(p, r, kinds, events) ==
    /\ Resolve(p, r, kinds)
    /\ Recorded(p, r)
    /\ Become(p, r, [walk[p][r] EXCEPT !.i = @ + 1, !.todo = events, !.then = "enter"])

\* The node ended the run.
Halt(p, r, kinds, events, status, type) ==
    /\ Resolve(p, r, kinds)
    /\ Recorded(p, r)
    /\ Finish(p, r, events, status, type)

CheckPasses(p, r) == Pass(p, r, Precheck \ {"authorize"}, << >>)
CheckDenies(p, r) == Halt(p, r, Precheck \ {"authorize"}, << >>, "denied", "run.denied")
Authorizes(p, r)  == Pass(p, r, {"authorize"}, <<Append1("authorization.allowed")>>)
RefusesPrincipal(p, r) ==
    \E type \in {"authorization.refused", "authorization.error"} :
        Halt(p, r, {"authorize"}, <<Append1(type)>>, "denied", "authorization.denied")
PolicyAllows(p, r) == Pass(p, r, {"policy"}, <<Append1("policy.decided")>>)
PolicyDenies(p, r) ==
    Halt(p, r, {"policy"}, <<Append1("policy.decided")>>, "denied", "policy.denied")
PolicyErrs(p, r) ==
    Halt(p, r, {"policy"}, <<Append1("policy.error")>>, "failed", "policy.failed")
OutputPasses(p, r) == Pass(p, r, {"output"}, << >>)
OutputFails(p, r)  == Halt(p, r, {"output"}, << >>, "failed", "run.failed")
GapRefused(p, r)   == Halt(p, r, {"gap"}, << >>, "failed", "run.failed")
\* Mutant: success is saved but never announced.
EmitsSilently(p, r) ==
    /\ Resolve(p, r, {"emit"}) /\ Recorded(p, r) /\ Goto(p, r, <<Save("succeeded")>>, "end")
Emits(p, r)        == Halt(p, r, {"emit"}, << >>, "succeeded", "run.succeeded")

\* Mutant: an AwaitApproval node is walked over.
SuspendsNever(p, r) == Pass(p, r, {"approval"}, << >>)

\* AwaitApproval suspends: the run rests under a status approve() looks for.
Suspends(p, r) ==
    Halt(p, r, {"approval"}, << >>, "awaiting_approval", "approval.requested")

AttemptSucceeds(p, r) ==
    /\ walk[p][r] # None /\ walk[p][r].n > 0
    /\ Pass(p, r, {"invoke"}, <<Append1("provider.attempt.succeeded")>>)

LastAttempt(p, r) == walk[p][r].n >= live[p][r].plan.max

\* The provider rejected, or plan.budget's timer won the race: retry within max.
AttemptFails(p, r) ==
    /\ walk[p][r] # None /\ walk[p][r].n > 0
    /\ \/ /\ LastAttempt(p, r)
          /\ Halt(p, r, {"invoke"}, <<Append1("provider.attempt.failed")>>,
                  "failed", "run.failed")
       \/ /\ ~LastAttempt(p, r)
          /\ Resolve(p, r, {"invoke"})
          /\ Become(p, r, [walk[p][r] EXCEPT !.n = @ + 1,
                       !.todo = <<Append1("provider.attempt.failed")>> \o Attempt])
          /\ UNCHANGED live

\* A budget or a retry InvokeAction refuses before it calls the provider.
InvokeRefused(p, r) ==
    /\ walk[p][r] # None /\ walk[p][r].n = 0
    /\ Halt(p, r, {"invoke"}, << >>, "failed", "run.failed")

-----------------------------------------------------------------------------
(* The end of a walk, approval, crashes *)

\* Mutant: only the calls that get their own run back are answered.
AwaitsOwn(c, p, r) == /\ call[c].st = "waiting" /\ call[c].proc = p /\ call[c].run = r
                      /\ walk[p][r].result = r
Awaits(c, p, r) == call[c].st = "waiting" /\ call[c].proc = p /\ call[c].run = r

\* The walk's promise settles: the in-flight entry goes, every waiting call is answered.
EndWalk(p, r) ==
    /\ Ready(p, r, "end")
    /\ LET result == walk[p][r].result
       IN call' = [c \in Callers |->
                     IF Awaits(c, p, r)
                     THEN [call[c] EXCEPT !.st = "answered", !.run = result,
                                          !.status = Get(p, result).status]
                     ELSE call[c]]
    /\ pending' = [pending EXCEPT ![p] = [k \in Keys |->
                     IF @[k] # None /\ @[k].run = r THEN None ELSE @[k]]]
    /\ Become(p, r, None)
    /\ cpu' = [cpu EXCEPT ![p] = None]
    /\ UNCHANGED <<ledger, rev, log, live, effects, Bookkeeping>>

\* Mutant: a resumed walk starts over.
FromTheStart(nodes) == {0}

\* findIndex: the position of the first AwaitApproval node, if the plan has one.
Suspended(nodes) == {i \in DOMAIN nodes : /\ nodes[i] = "approval"
                                          /\ \A j \in 1..(i - 1) : nodes[j] # "approval"}

\* Mutant: any run that was not denied can be approved.
Reapprovable(run) == run.status # "denied"
Approvable(run)   == run.status = "awaiting_approval"

\* approve(): judged by the run object this process has, resumed after the plan's
\* first AwaitApproval node, under the claim the first walk took.
Approve(p, r) ==
    /\ p \in Approvers /\ approvals < MaxApprovals
    /\ Idle(p) /\ Get(p, r) # None
    /\ Approvable(Get(p, r))
    /\ live' = [live EXCEPT ![p][r] = Get(p, r)]
    /\ \E i \in Suspended(Get(p, r).plan.nodes) :
          Become(p, r, [i |-> i + 1, n |-> 0, claimed |-> TRUE,
                        dry |-> FALSE, then |-> "enter", result |-> r,
                        todo |-> <<Append1("approval.granted")>>
                                   \o Transition("planned", "approval.accepted")])
    /\ cpu' = [cpu EXCEPT ![p] = r]
    /\ approvals' = approvals + 1
    /\ UNCHANGED <<ledger, rev, log, pending, minted, call, effects, crashes>>

\* The process dies and restarts empty; the store and the ledger are what is left.
Crash(p) ==
    /\ crashes < MaxCrashes
    /\ crashes' = crashes + 1
    /\ live' = [live EXCEPT ![p] = [r \in RunIds |-> None]]
    /\ walk' = [walk EXCEPT ![p] = [r \in RunIds |-> None]]
    /\ cpu' = [cpu EXCEPT ![p] = None]
    /\ pending' = [pending EXCEPT ![p] = [k \in Keys |-> None]]
    /\ minted' = [minted EXCEPT ![p] = {}]
    /\ call' = [c \in Callers |->
                  IF call[c].st = "waiting" /\ call[c].proc = p
                  THEN [call[c] EXCEPT !.st = "lost"] ELSE call[c]]
    /\ UNCHANGED <<ledger, rev, log, effects, approvals>>

-----------------------------------------------------------------------------
(* Specification *)

Execute(c, p) ==
    \E k \in Keys, i \in Inputs :
        \/ ExecuteKnown(c, p, k, i)
        \/ ExecuteShared(c, p, k, i)
        \/ \E dry \in DryRun, r \in RunIds, plan \in Plans :
              ExecuteNew(c, p, k, i, dry, r, plan)

StoreCall(p, r) == \/ \E status \in Status : SaveRun(p, r, status)
                   \/ \E type \in Event : AppendEvent(p, r, type)
                   \/ CallProvider(p, r)

\* What the event loop of p runs on its own: segments it is inside ...
Segment(p, r) == \/ StoreCall(p, r)
                 \/ AcceptRequest(p, r) \/ RefuseRequest(p, r)
                 \/ EndOfPlan(p, r) \/ StopDryRun(p, r) \/ ClaimKey(p, r)
                 \/ BeginNode(p, r) \/ EndWalk(p, r)

\* ... and awaits that resolve.
Resolution(p, r) == \/ CheckPasses(p, r) \/ CheckDenies(p, r)
                    \/ Authorizes(p, r) \/ RefusesPrincipal(p, r)
                    \/ PolicyAllows(p, r) \/ PolicyDenies(p, r) \/ PolicyErrs(p, r)
                    \/ OutputPasses(p, r) \/ OutputFails(p, r) \/ GapRefused(p, r)
                    \/ Emits(p, r) \/ Suspends(p, r)
                    \/ AttemptSucceeds(p, r) \/ AttemptFails(p, r)
                    \/ InvokeRefused(p, r)

Next == \/ \E c \in Callers, p \in Proc : Execute(c, p)
        \/ \E p \in Proc, r \in RunIds :
              Segment(p, r) \/ Resolution(p, r) \/ Approve(p, r)
        \/ \E p \in Proc : Crash(p)

Spec == Init /\ [][Next]_vars

\* What a host's authorizer, policy, precondition or provider decides, in its own time;
\* an attempt also ends by its timer, where the plan's budget set one.
Elsewhere(p, r) == \/ Node(p, r) \in {"authorize", "policy", "precondition"}
                   \/ walk[p][r].n > 0 /\ ~live[p][r].plan.timed

\* The walk of r in p waits for somebody who owes the runtime nothing.
AwaitsOthers(p, r) == /\ walk[p][r] # None /\ walk[p][r].todo = << >>
                      /\ walk[p][r].then = "await" /\ Elsewhere(p, r)

\* The awaits the runtime settles by itself, the timer of an attempt included.
OwnResolution(p, r) ==
    \/ /\ walk[p][r] # None /\ walk[p][r].n = 0
       /\ Resolution(p, r) /\ ~AwaitsOthers(p, r)
    \/ /\ walk[p][r] # None /\ live[p][r].plan.timed
       /\ AttemptFails(p, r)

\* The loop of p keeps running what it has and settles what it awaits of itself.  Walks
\* are finite, so no run can starve another.  Callers, approvers, crashes and whatever
\* decides elsewhere owe nothing.
Loop(p)  == \E r \in RunIds : Segment(p, r) \/ OwnResolution(p, r)
Fairness == \A p \in Proc : WF_vars(Loop(p))
FairSpec == Spec /\ Fairness
-----------------------------------------------------------------------------
(* Properties *)

\* Every variable stays in its type; an answer always carries a run and its status.
TypeOK ==
    /\ ledger \in [Keys -> Claim \cup {None}]
    /\ rev \in [Stores -> [RunIds -> RunRecord \cup {None}]]
    /\ log \in [Stores -> [RunIds -> Seq(Event)]]
    /\ live \in [Proc -> [RunIds -> RunRecord \cup {None}]]
    /\ walk \in [Proc -> [RunIds -> Walker \cup {None}]]
    /\ cpu \in [Proc -> RunIds \cup {None}]
    /\ pending \in [Proc -> [Keys -> Claim \cup {None}]]
    /\ minted \in [Proc -> SUBSET RunIds]
    /\ call \in [Callers -> CallState]
    /\ \A c \in Callers : call[c].st = "answered" => call[c].status # None
    /\ effects \in [Keys -> Nat]
    /\ crashes \in 0..MaxCrashes
    /\ approvals \in 0..MaxApprovals

\* A repeated call with the same key does not repeat its effect: over all processes,
\* restarts, approvals and concurrent calls, at most one walk of one run reaches the
\* provider for a key (claimFor, and the sync prefix of approve).
OneEffectPerKey == \A k \in Keys : effects[k] <= 1

Happened(s, r, type) == \E j \in 1..Len(log[s][r]) : log[s][r][j] = type

Owns(run, r) == ledger[run.key] = [run |-> r, input |-> run.input]

\* The event log never shows an attempt for a run that does not own its key in the
\* ledger, under the very input that was executed: the claim comes first (walk).
ClaimPrecedesEffect ==
    \A s \in Stores, r \in RunIds :
        Happened(s, r, "provider.attempt.started") => Owns(rev[s][r], r)

\* A process holds only runs its own counter named or its store can produce.
IdKnown ==
    \A p \in Proc, r \in RunIds :
        live[p][r] # None => r \in minted[p] \/ rev[StoreOf[p]][r] # None

\* All copies of a run, in memory and on disk, are of one key and one input.
CopiesAgree ==
    \A r \in RunIds : \E k \in Keys \cup {None}, i \in Inputs \cup {None} :
        /\ \A p \in Proc : live[p][r] # None => live[p][r].key = k /\ live[p][r].input = i
        /\ \A s \in Stores : rev[s][r] # None => rev[s][r].key = k /\ rev[s][r].input = i

\* A run no store has yet is a new one, about to be saved.
SavedFirst ==
    \A p \in Proc, r \in RunIds :
        live[p][r] # None /\ rev[StoreOf[p]][r] = None =>
            /\ walk[p][r] # None /\ live[p][r].status = "planned"
            /\ walk[p][r].todo = Transition("planned", "run.created")

ClaimedOwns ==
    \A p \in Proc, r \in RunIds :
        walk[p][r] # None /\ walk[p][r].claimed => Owns(live[p][r], r)

\* Statuses that tell a caller its key's work is under way, suspended or done.
Active == {"running", "awaiting_approval", "succeeded"}

\* An unclaimed walk has queued neither an attempt nor an active status, and awaits a
\* check.
Harmless == Op \ ({Append1("provider.attempt.started"), CallProvider1}
                    \cup {Save(status) : status \in Active})
UnclaimedHarmless ==
    \A p \in Proc, r \in RunIds :
        walk[p][r] # None /\ ~walk[p][r].claimed =>
            /\ walk[p][r].todo \in Seq(Harmless)
            /\ walk[p][r].then = "await" => Node(p, r) \in Precheck

ActiveOwns ==
    \A r \in RunIds :
        /\ \A p \in Proc : live[p][r] # None /\ live[p][r].status \in Active
                             => Owns(live[p][r], r)
        /\ \A s \in Stores : rev[s][r] # None /\ rev[s][r].status \in Active
                             => Owns(rev[s][r], r)

StartedOwns ==
    \A s \in Stores, r \in RunIds :
        Happened(s, r, "provider.attempt.started") => rev[s][r] # None /\ Owns(rev[s][r], r)

\* Whoever may cause an effect, now or after an approval or a restart, owns its key:
\* every claimed walk, every copy that runs, is suspended or succeeded, and every
\* started attempt, as long as
\* run ids do not repeat (claimFor, walk, approve).
ClaimDiscipline ==
    /\ IdKnown /\ CopiesAgree /\ SavedFirst /\ ClaimedOwns
    /\ UnclaimedHarmless /\ ActiveOwns /\ StartedOwns

\* Callers agree: whoever is told that a key's work is under way, suspended or done
\* is told of the one run that owns the key, and asked for that run's input
\* (execute: ledger hit, shared promise and lost claim).
AnswersAgree ==
    \A c \in Callers :
        call[c].st = "answered" /\ ~call[c].dry
            /\ call[c].status \in Active
          => ledger[call[c].key] = [run |-> call[c].run, input |-> call[c].input]

\* The event that shows that a gate was passed.
Evidence == [authorize |-> "authorization.allowed", policy |-> "policy.decided",
             approval |-> "approval.granted"]

\* A log that shows, before any attempt, every gate the nodes have before InvokeAction.
GatesFirst(l, nodes) ==
    \A j \in 1..Len(l) : l[j] = "provider.attempt.started" =>
        \A gate \in DOMAIN Evidence :
            (\E a, b \in 1..Len(nodes) : a < b /\ nodes[a] = gate /\ nodes[b] = "invoke")
            => \E h \in 1..(j - 1) : l[h] = Evidence[gate]

\* The order the plan asks for is the order of the audit log: before any attempt,
\* the principal was authorized, the policy decided and the approval granted, for
\* each of these the plan places before InvokeAction (walk, approve).
GatesPrecedeEffect ==
    \A s \in Stores, r \in RunIds : GatesFirst(log[s][r], rev[s][r].plan.nodes)

\* Whenever a caller is told that a run succeeded, the run's audit record, its
\* terminal event run.succeeded, reaches the log (emitNode: the terminal event is
\* the audit record; transition saves the status first).
SuccessIsAudited ==
    \A c \in Callers :
        call[c].st = "answered" /\ call[c].status = "succeeded" ~>
            \E p \in Proc, r \in RunIds :
                /\ call[c].proc = p /\ call[c].run = r
                /\ Happened(StoreOf[p], r, "run.succeeded")

\* A run at rest is what its last revision says, so that replaying the log rebuilds it,
\* but for two kinds of copies: the run of a claim that was lost keeps the steps it made
\* before, which nobody saves, and a suspended copy stays behind when another process
\* resumes the run (replayEquivalence, the comment on finish(), claimFor, approve).
RestEquivalence ==
    \A p \in Proc, r \in RunIds :
        live[p][r] # None /\ walk[p][r] = None =>
            \/ rev[StoreOf[p]][r] = live[p][r]
            \/ Happened(StoreOf[p], r, "idempotency.replayed")
            \/ /\ live[p][r].status = "awaiting_approval"
               /\ Happened(StoreOf[p], r, "approval.granted")

\* No node of the plan is executed twice: a resumed walk continues behind the
\* checkpoint it was suspended at (approve, walk).
EachNodeOnce ==
    \A s \in Stores, r \in RunIds : rev[s][r] # None =>
        \A a, b \in 1..Len(rev[s][r].steps) :
            a # b => rev[s][r].steps[a] # rev[s][r].steps[b]

\* The ledger only ever names a run that the store it shares with the runtimes can
\* produce, even if the owner crashed right after claiming (newRun saves first).
LedgerNamesSavedRun ==
    \A k \in Keys : ledger[k] # None =>
        \E s \in Stores : /\ rev[s][ledger[k].run] # None
                          /\ rev[s][ledger[k].run].key = k
                          /\ rev[s][ledger[k].run].input = ledger[k].input

\* A saved terminal status is final: no late provider answer, approval, replay or
\* restart saves another status over it.
TerminalIsFinal ==
    [][\A s \in Stores, r \in RunIds :
         rev[s][r] # None /\ rev[s][r].status \in Terminal =>
            rev'[s][r].status = rev[s][r].status]_vars

\* Nobody waits for ever for the runtime: as long as no authorizer, policy, precondition
\* or untimed provider keeps a walk waiting for ever, every call of execute() is answered
\* or its process crashed under it, and every walk ends with its run settled, suspended,
\* or its process crashed (walk, oneAttempt).
NobodyWaitsForEver ==
    (\A p \in Proc, r \in RunIds : []<>~AwaitsOthers(p, r)) =>
        /\ \A c \in Callers : call[c].st = "waiting" ~> call[c].st \in {"answered", "lost"}
        /\ \A p \in Proc, r \in RunIds : walk[p][r] # None ~> walk[p][r] = None

-----------------------------------------------------------------------------
(* Refinement *)

Promise == INSTANCE IdempotentExecution WITH
              Claims <- Claim, owner <- ledger, starts <- effects

\* The runtimes together keep the promise of an idempotency key: one claim for good, and
\* a start of the effect that happens once and after the claim (claimFor, walk, approve).
KeepsPromise == Promise!ISpec
=============================================================================

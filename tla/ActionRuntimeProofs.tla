------------------------ MODULE ActionRuntimeProofs ------------------------
(***************************************************************************)
(* Theorems about ActionRuntime, for every number of processes, stores,    *)
(* calls, keys, runs and plans: those that rest on one action at a time,   *)
(* then the steps reduced to what each does to one walk, one run and one   *)
(* log, a normal form on which the theorems about effects, gates and node  *)
(* order rest, those about what a caller is told, and what a run at rest   *)
(* is where one process runs.                                              *)
(***************************************************************************)
EXTENDS ActionRuntime, SequenceTheorems, TLAPS

-----------------------------------------------------------------------------
(* Lemmas about data *)

\* Updating one entry of a two-level function keeps its type.
LEMMA Update2 ==
    ASSUME NEW A, NEW B, NEW S, NEW f \in [A -> [B -> S]],
           NEW a \in A, NEW b \in B, NEW v \in S
    PROVE  [f EXCEPT ![a][b] = v] \in [A -> [B -> S]]
  OBVIOUS

\* The sequences of store operations the actions build are sequences of operations.
LEMMA OpTypes ==
    /\ \A st \in Status : Save(st) \in Op
    /\ \A ty \in Event : Append1(ty) \in Op
    /\ \A st \in Status, ty \in Event : Transition(st, ty) \in Seq(Op)
    /\ \A ty \in Event : <<Append1(ty)>> \in Seq(Op)
    /\ << >> \in Seq(Op)
    /\ Attempt \in Seq(Op)
<1>1. /\ \A st \in Status : Save(st) \in Op
      /\ \A ty \in Event : Append1(ty) \in Op
      /\ CallProvider1 \in Op
  BY DEF Save, Append1, CallProvider1, Op
<1>2. \A st \in Status, ty \in Event : Transition(st, ty) \in Seq(Op)
  BY <1>1 DEF Transition
<1>3. \A ty \in Event : <<Append1(ty)>> \in Seq(Op)
  BY <1>1
<1>4. /\ Transition("running", "provider.attempt.started") \in Seq(Op)
      /\ <<CallProvider1>> \in Seq(Op)
  BY <1>1, <1>2 DEF Status, Event
<1>5. Attempt \in Seq(Op)
  BY <1>4 DEF Attempt
<1> QED BY <1>1, <1>2, <1>3, <1>5

\* Concatenation and tail stay within the sequences of operations.
LEMMA OpSeqs ==
    /\ \A s, t \in Seq(Op) : s \o t \in Seq(Op)
    /\ \A s \in Seq(Op) : s # << >> => Tail(s) \in Seq(Op) /\ Head(s) \in Op
  OBVIOUS

\* What is queued without an attempt or an active status among it.
LEMMA HarmlessOps ==
    /\ Seq(Harmless) \subseteq Seq(Op)
    /\ << >> \in Seq(Harmless)
    /\ \A ty \in Event \ {"provider.attempt.started"} : <<Append1(ty)>> \in Seq(Harmless)
    /\ \A st \in Status \ Active, ty \in Event \ {"provider.attempt.started"} :
          Transition(st, ty) \in Seq(Harmless)
    /\ \A s, t \in Seq(Harmless) : s \o t \in Seq(Harmless)
    /\ \A s \in Seq(Harmless) : s # << >> => Tail(s) \in Seq(Harmless) /\ Head(s) \in Harmless
<1>1. Harmless \subseteq Op
  BY DEF Harmless
<1>2. \A ty \in Event \ {"provider.attempt.started"} : Append1(ty) \in Harmless
  BY OpTypes DEF Harmless, Append1, Save, CallProvider1, Active
<1>3. \A st \in Status \ Active : Save(st) \in Harmless
  BY OpTypes DEF Harmless, Append1, Save, CallProvider1, Active
<1> QED BY <1>1, <1>2, <1>3 DEF Transition

\* A run as it is created, and with one more node recorded.
LEMMA NewRun ==
    ASSUME NEW k \in Keys, NEW i \in Inputs, NEW plan \in Plans, NEW x,
           x = [status |-> "planned", key |-> k, input |-> i, plan |-> plan, steps |-> << >>]
    PROVE  x \in RunRecord /\ x # None
<1>1. << >> \in Seq(Nat)
  OBVIOUS
<1>2. x \in RunRecord
  BY <1>1 DEF RunRecord, Status
<1> QED BY <1>2, NoneAssumption DEF NoneAssumption

LEMMA StepMore ==
    ASSUME NEW x \in RunRecord, NEW i \in Nat, NEW y, y = [x EXCEPT !.steps = Append(@, i)]
    PROVE  /\ y \in RunRecord /\ y # None /\ y.key = x.key /\ y.input = x.input
           /\ y.plan = x.plan /\ y.status = x.status /\ y.steps = Append(x.steps, i)
<1>1. x.steps \in Seq(Nat)
  BY DEF RunRecord
<1> DEFINE more == Append(x.steps, i)
<1>2. more \in Seq(Nat) /\ y = [x EXCEPT !.steps = more]
  BY <1>1, AppendProperties
<1> HIDE DEF more
<1>3. /\ y \in RunRecord /\ y.key = x.key /\ y.input = x.input
      /\ y.plan = x.plan /\ y.status = x.status /\ y.steps = more
  BY <1>2 DEF RunRecord
<1> QED BY <1>3, NoneAssumption DEF NoneAssumption, more

-----------------------------------------------------------------------------
(* Type correctness *)

\* TypeOK is not inductive alone: a walk must hold a run, and have a run to return.
WalkHasRun ==
    \A p \in Proc, r \in RunIds :
        walk[p][r] # None => live[p][r] # None /\ Get(p, walk[p][r].result) # None

TInv == TypeOK /\ WalkHasRun

LEMMA InitTInv == Init => TInv
<1> SUFFICES ASSUME Init PROVE TInv
  OBVIOUS
<1>1. NoCall \in CallState /\ NoCall.st # "answered"
  BY DEF NoCall, CallState
<1>2. WalkHasRun
  BY DEF Init, WalkHasRun
<1>3. TypeOK
  BY <1>1, BoundAssumption DEF Init, TypeOK, BoundAssumption
<1> QED BY <1>2, <1>3 DEF TInv

\* Whatever a process can produce of a run is a run record.
LEMMA GetType ==
    ASSUME TypeOK, NEW p \in Proc, NEW r \in RunIds, Get(p, r) # None
    PROVE  Get(p, r) \in RunRecord
<1>1. StoreOf[p] \in Stores
  BY ProcAssumption DEF ProcAssumption
<1> QED BY <1>1 DEF TypeOK, Get

\* A step that gives one walk a well-typed walker keeps the walks well typed.
LEMMA BecomeType ==
    ASSUME TypeOK, NEW p \in Proc, NEW r \in RunIds, NEW w \in Walker \cup {None},
           Become(p, r, w)
    PROVE  /\ walk' \in [Proc -> [RunIds -> Walker \cup {None}]]
           /\ walk'[p][r] = w
           /\ \A q \in Proc, t \in RunIds :
                 <<q, t>> # <<p, r>> => walk'[q][t] = walk[q][t]
  BY Update2 DEF TypeOK, Become

LEMMA GotoType ==
    ASSUME TypeOK, NEW p \in Proc, NEW r \in RunIds, walk[p][r] # None,
           NEW todo \in Seq(Op), NEW then \in {"check", "enter", "await", "end"}
    PROVE  [walk[p][r] EXCEPT !.todo = todo, !.then = then] \in Walker
<1>1. walk[p][r] \in Walker
  BY DEF TypeOK
<1> QED BY <1>1 DEF Walker

LEMMA FinishType ==
    ASSUME TypeOK, NEW p \in Proc, NEW r \in RunIds, walk[p][r] # None,
           NEW before \in Seq(Op), NEW status \in Status, NEW type \in Event,
           Finish(p, r, before, status, type)
    PROVE  /\ walk' \in [Proc -> [RunIds -> Walker \cup {None}]]
           /\ walk'[p][r] # None => walk'[p][r].result = walk[p][r].result
           /\ \A q \in Proc, t \in RunIds :
                 <<q, t>> # <<p, r>> => walk'[q][t] = walk[q][t]
<1> DEFINE w == [walk[p][r] EXCEPT !.todo = before \o Transition(status, type),
                                   !.then = "end"]
<1>1. before \o Transition(status, type) \in Seq(Op)
  BY OpTypes, OpSeqs
<1>2. w \in Walker
  BY <1>1, GotoType
<1>3. w.result = walk[p][r].result
  BY DEF TypeOK, Walker
<1>4. Become(p, r, w)
  BY DEF Finish, Goto
<1> QED BY <1>2, <1>3, <1>4, BecomeType

\* Walks that keep their result keep their runs, as long as no copy of a run is lost.
LEMMA KeepsRuns ==
    ASSUME TInv,
           \A q \in Proc, t \in RunIds : walk'[q][t] # None =>
              walk[q][t] # None /\ walk'[q][t].result = walk[q][t].result,
           \A q \in Proc, t \in RunIds : live[q][t] # None => live'[q][t] # None,
           \A s \in Stores, t \in RunIds : rev[s][t] # None => rev'[s][t] # None
    PROVE  WalkHasRun'
<1> SUFFICES ASSUME NEW q \in Proc, NEW t \in RunIds, walk'[q][t] # None
             PROVE  live'[q][t] # None /\ Get(q, walk[q][t].result)' # None
  BY DEF WalkHasRun, Get
<1>1. walk[q][t] # None /\ live[q][t] # None /\ Get(q, walk[q][t].result) # None
  BY DEF TInv, WalkHasRun
<1>2. walk[q][t].result \in RunIds /\ StoreOf[q] \in Stores
  BY <1>1, ProcAssumption DEF TInv, TypeOK, Walker, ProcAssumption
<1> QED BY <1>1, <1>2 DEF Get

LEMMA ExecuteKnownTInv ==
    ASSUME TInv, NEW c \in Callers, NEW p \in Proc, NEW k \in Keys, NEW i \in Inputs,
           ExecuteKnown(c, p, k, i)
    PROVE  TInv'
<1> DEFINE run == Get(p, ledger[k].run)
<1>1. ledger[k] \in Claim /\ ledger[k].run \in RunIds
  BY DEF ExecuteKnown, TInv, TypeOK, Claim
<1>2. run # None => run.status \in Status
  BY <1>1, ProcAssumption DEF TInv, TypeOK, Get, RunRecord, ProcAssumption
<1>3. /\ call' \in [Callers -> CallState]
      /\ \A d \in Callers : call'[d].st = "answered" => call'[d].status # None
  <2>1. CASE SameInput(ledger[k], i) /\ run # None
    <3>1. Settle(c, p, k, i, FALSE, "answered", ledger[k].run, run.status)
      BY <2>1 DEF ExecuteKnown
    <3> DEFINE v == [st |-> "answered", proc |-> p, key |-> k, input |-> i,
                     dry |-> FALSE, run |-> ledger[k].run, status |-> run.status]
    <3>2. v \in CallState /\ v.status # None
      BY <1>1, <1>2, <2>1, NoneAssumption DEF CallState, NoneAssumption
    <3>3. call' = [call EXCEPT ![c] = v]
      BY <3>1 DEF Settle
    <3> QED BY <3>2, <3>3 DEF TInv, TypeOK
  <2>2. CASE ~(SameInput(ledger[k], i) /\ run # None)
    <3>1. Settle(c, p, k, i, FALSE, "rejected", None, None)
      BY <2>2 DEF ExecuteKnown
    <3> DEFINE v == [st |-> "rejected", proc |-> p, key |-> k, input |-> i,
                     dry |-> FALSE, run |-> None, status |-> None]
    <3>2. v \in CallState /\ v.st # "answered"
      BY DEF CallState
    <3>3. call' = [call EXCEPT ![c] = v]
      BY <3>1 DEF Settle
    <3> QED BY <3>2, <3>3 DEF TInv, TypeOK
  <2> QED BY <2>1, <2>2
<1>4. TypeOK'
  BY <1>3 DEF ExecuteKnown, TInv, TypeOK
<1>5. WalkHasRun'
  BY KeepsRuns DEF ExecuteKnown
<1> QED BY <1>4, <1>5 DEF TInv

LEMMA SettleType ==
    ASSUME TypeOK, NEW c \in Callers, NEW p \in Proc, NEW k \in Keys, NEW i \in Inputs,
           NEW dry \in BOOLEAN, NEW st \in {"waiting", "rejected"},
           NEW r \in RunIds \cup {None}, Settle(c, p, k, i, dry, st, r, None)
    PROVE  /\ call' \in [Callers -> CallState]
           /\ \A d \in Callers : call'[d].st = "answered" => call'[d].status # None
<1> DEFINE v == [st |-> st, proc |-> p, key |-> k, input |-> i,
                 dry |-> dry, run |-> r, status |-> None]
<1>1. v \in CallState /\ v.st # "answered"
  BY DEF CallState
<1>2. call' = [call EXCEPT ![c] = v]
  BY DEF Settle
<1> QED BY <1>1, <1>2 DEF TypeOK

LEMMA ExecuteSharedTInv ==
    ASSUME TInv, NEW c \in Callers, NEW p \in Proc, NEW k \in Keys, NEW i \in Inputs,
           ExecuteShared(c, p, k, i)
    PROVE  TInv'
<1>1. pending[p][k].run \in RunIds
  BY DEF ExecuteShared, TInv, TypeOK, Claim
<1>2. \/ Settle(c, p, k, i, FALSE, "waiting", pending[p][k].run, None)
      \/ Settle(c, p, k, i, FALSE, "rejected", None, None)
  BY DEF ExecuteShared
<1>3. /\ call' \in [Callers -> CallState]
      /\ \A d \in Callers : call'[d].st = "answered" => call'[d].status # None
  BY <1>1, <1>2, SettleType DEF TInv
<1>4. TypeOK'
  BY <1>3 DEF ExecuteShared, TInv, TypeOK
<1>5. WalkHasRun'
  BY KeepsRuns DEF ExecuteShared
<1> QED BY <1>4, <1>5 DEF TInv

LEMMA ExecuteNewTInv ==
    ASSUME TInv, NEW c \in Callers, NEW p \in Proc, NEW k \in Keys, NEW i \in Inputs,
           NEW dry \in DryRun, NEW r \in RunIds, NEW plan \in Plans,
           ExecuteNew(c, p, k, i, dry, r, plan)
    PROVE  TInv'
<1> DEFINE x == [status |-> "planned", key |-> k, input |-> i, plan |-> plan, steps |-> << >>]
           w == [i |-> 1, n |-> 0, claimed |-> FALSE, dry |-> dry,
                 todo |-> Transition("planned", "run.created"),
                 then |-> "check", result |-> r]
<1>0. dry \in BOOLEAN
  BY FlagAssumption DEF FlagAssumption
<1>1. x \in RunRecord /\ x # None
  BY NewRun
<1>2. Transition("planned", "run.created") \in Seq(Op)
  BY OpTypes DEF Status, Event
<1>3. w \in Walker
  BY <1>0, <1>2 DEF Walker
<1>4. Become(p, r, w)
  BY DEF ExecuteNew
<1>5. /\ walk' \in [Proc -> [RunIds -> Walker \cup {None}]]
      /\ walk'[p][r] = w
      /\ \A q \in Proc, t \in RunIds : <<q, t>> # <<p, r>> => walk'[q][t] = walk[q][t]
  BY <1>3, <1>4, BecomeType DEF TInv
<1>6. live' = [live EXCEPT ![p][r] = x]
  BY DEF ExecuteNew
<1>7. /\ live' \in [Proc -> [RunIds -> RunRecord \cup {None}]]
      /\ live'[p][r] = x
      /\ \A q \in Proc, t \in RunIds : <<q, t>> # <<p, r>> => live'[q][t] = live[q][t]
  BY <1>1, <1>6, Update2 DEF TInv, TypeOK
<1>8. [run |-> r, input |-> i] \in Claim
  BY DEF Claim
<1>9. pending' \in [Proc -> [Keys -> Claim \cup {None}]]
  BY <1>8, Update2 DEF ExecuteNew, TInv, TypeOK
<1>10. /\ call' \in [Callers -> CallState]
       /\ \A d \in Callers : call'[d].st = "answered" => call'[d].status # None
  BY <1>0, SettleType DEF ExecuteNew, TInv
<1>11. TypeOK'
  BY <1>5, <1>7, <1>9, <1>10 DEF ExecuteNew, TInv, TypeOK
<1>12. WalkHasRun'
  <2> SUFFICES ASSUME NEW q \in Proc, NEW t \in RunIds, walk'[q][t] # None
               PROVE  live'[q][t] # None /\ Get(q, walk[q][t].result)' # None
    BY DEF WalkHasRun, Get
  <2>1. CASE <<q, t>> = <<p, r>>
    BY <2>1, <1>1, <1>5, <1>7 DEF Get
  <2>2. CASE <<q, t>> # <<p, r>>
    <3>1. /\ walk'[q][t] = walk[q][t] /\ walk[q][t] # None
          /\ live[q][t] # None /\ Get(q, walk[q][t].result) # None
      BY <2>2, <1>5 DEF TInv, WalkHasRun
    <3>2. walk[q][t].result \in RunIds
      BY <3>1 DEF TInv, TypeOK, Walker
    <3>3. rev' = rev
      BY DEF ExecuteNew
    <3> QED BY <2>2, <3>1, <3>2, <3>3, <1>1, <1>7 DEF Get
  <2> QED BY <2>1, <2>2
<1> QED BY <1>11, <1>12 DEF TInv

-----------------------------------------------------------------------------
(* Segments *)

\* A step of a walk that keeps its result and every other variable in its type.
LEMMA WalkStep ==
    ASSUME TInv, NEW p \in Proc, NEW r \in RunIds, walk[p][r] # None,
           NEW w \in Walker, w.result = walk[p][r].result, Become(p, r, w)
    PROVE  /\ walk' \in [Proc -> [RunIds -> Walker \cup {None}]]
           /\ \A q \in Proc, t \in RunIds : walk'[q][t] # None =>
                walk[q][t] # None /\ walk'[q][t].result = walk[q][t].result
<1>1. /\ walk' \in [Proc -> [RunIds -> Walker \cup {None}]]
      /\ walk'[p][r] = w
      /\ \A q \in Proc, t \in RunIds : <<q, t>> # <<p, r>> => walk'[q][t] = walk[q][t]
  BY BecomeType DEF TInv
<1> QED BY <1>1

LEMMA StoreStepTypes ==
    ASSUME TInv, NEW p \in Proc, NEW r \in RunIds, NEW op, StoreStep(p, r, op)
    PROVE  /\ walk' \in [Proc -> [RunIds -> Walker \cup {None}]]
           /\ \A q \in Proc, t \in RunIds : walk'[q][t] # None =>
                walk[q][t] # None /\ walk'[q][t].result = walk[q][t].result
           /\ cpu' \in [Proc -> RunIds \cup {None}]
           /\ walk[p][r] \in Walker /\ live[p][r] \in RunRecord
<1> DEFINE w == [walk[p][r] EXCEPT !.todo = Tail(@)]
<1>1. walk[p][r] \in Walker /\ walk[p][r] # None /\ walk[p][r].todo # << >>
  BY DEF StoreStep, HasTodo, TInv, TypeOK
<1>2. w \in Walker /\ w.result = walk[p][r].result
  BY <1>1, OpSeqs DEF Walker
<1>3. Become(p, r, w)
  BY DEF StoreStep
<1>4. cpu' \in [Proc -> RunIds \cup {None}]
  BY DEF StoreStep, TInv, TypeOK
<1>5. live[p][r] \in RunRecord
  BY <1>1 DEF TInv, TypeOK, WalkHasRun
<1> QED BY <1>1, <1>2, <1>3, <1>4, <1>5, WalkStep

LEMMA SaveRunTInv ==
    ASSUME TInv, NEW p \in Proc, NEW r \in RunIds, NEW status \in Status,
           SaveRun(p, r, status)
    PROVE  TInv'
<1> DEFINE x == [live[p][r] EXCEPT !.status = status]
<1>1. StoreStep(p, r, Save(status))
  BY DEF SaveRun
<1>2. x \in RunRecord /\ x # None
  <2>1. live[p][r] \in RunRecord
    BY <1>1, StoreStepTypes
  <2>2. x \in RunRecord
    BY <2>1 DEF RunRecord
  <2> QED BY <2>2, NoneAssumption DEF NoneAssumption
<1>3. live' = [live EXCEPT ![p][r] = x] /\ rev' = [rev EXCEPT ![StoreOf[p]][r] = x]
  BY DEF SaveRun, Saved
<1>4. /\ live' \in [Proc -> [RunIds -> RunRecord \cup {None}]]
      /\ \A q \in Proc, t \in RunIds : live[q][t] # None => live'[q][t] # None
  BY <1>2, <1>3, Update2 DEF TInv, TypeOK
<1>5. StoreOf[p] \in Stores
  BY ProcAssumption DEF ProcAssumption
<1>6. /\ rev' \in [Stores -> [RunIds -> RunRecord \cup {None}]]
      /\ \A s \in Stores, t \in RunIds : rev[s][t] # None => rev'[s][t] # None
  BY <1>2, <1>3, <1>5, Update2 DEF TInv, TypeOK
<1>7. TypeOK'
  BY <1>1, <1>4, <1>6, StoreStepTypes DEF SaveRun, StoreStep, Bookkeeping, TInv, TypeOK
<1>8. WalkHasRun'
  BY <1>1, <1>4, <1>6, StoreStepTypes, KeepsRuns
<1> QED BY <1>7, <1>8 DEF TInv

LEMMA AppendEventTInv ==
    ASSUME TInv, NEW p \in Proc, NEW r \in RunIds, NEW type \in Event,
           AppendEvent(p, r, type)
    PROVE  TInv'
<1>1. StoreStep(p, r, Append1(type))
  BY DEF AppendEvent
<1>2. StoreOf[p] \in Stores
  BY ProcAssumption DEF ProcAssumption
<1>3. Append(log[StoreOf[p]][r], type) \in Seq(Event)
  BY <1>2 DEF TInv, TypeOK
<1>4. log' \in [Stores -> [RunIds -> Seq(Event)]]
  BY <1>2, <1>3, Update2 DEF AppendEvent, TInv, TypeOK
<1>5. TypeOK'
  BY <1>1, <1>4, StoreStepTypes DEF AppendEvent, StoreStep, Bookkeeping, TInv, TypeOK
<1>6. WalkHasRun'
  BY <1>1, StoreStepTypes, KeepsRuns DEF AppendEvent
<1> QED BY <1>5, <1>6 DEF TInv

LEMMA CallProviderTInv ==
    ASSUME TInv, NEW p \in Proc, NEW r \in RunIds, CallProvider(p, r)
    PROVE  TInv'
<1>1. StoreStep(p, r, CallProvider1)
  BY DEF CallProvider
<1>2. live[p][r].key \in Keys
  BY <1>1, StoreStepTypes DEF RunRecord
<1>3. effects' \in [Keys -> Nat]
  BY <1>2 DEF CallProvider, TInv, TypeOK
<1>4. TypeOK'
  BY <1>1, <1>3, StoreStepTypes DEF CallProvider, StoreStep, Bookkeeping, TInv, TypeOK
<1>5. WalkHasRun'
  BY <1>1, StoreStepTypes, KeepsRuns DEF CallProvider
<1> QED BY <1>4, <1>5 DEF TInv

-----------------------------------------------------------------------------
(* The rest of a segment: only the walk, the claim and the loop move *)

\* A walk moves within its segment, towards a result this process can produce.
LEMMA MoveTInv ==
    ASSUME TInv, NEW p \in Proc, NEW r \in RunIds, walk[p][r] # None,
           NEW w \in Walker, Get(p, w.result) # None, Become(p, r, w),
           cpu' \in [Proc -> RunIds \cup {None}],
           ledger' \in [Keys -> Claim \cup {None}],
           UNCHANGED <<rev, log, live, pending, call, effects, Bookkeeping>>
    PROVE  TInv'
<1>1. /\ walk' \in [Proc -> [RunIds -> Walker \cup {None}]]
      /\ walk'[p][r] = w
      /\ \A q \in Proc, t \in RunIds : <<q, t>> # <<p, r>> => walk'[q][t] = walk[q][t]
  BY BecomeType DEF TInv
<1>2. TypeOK'
  BY <1>1 DEF TInv, TypeOK, Bookkeeping
<1>3. live[p][r] # None
  BY DEF TInv, WalkHasRun
<1>4. WalkHasRun'
  BY <1>1, <1>3 DEF TInv, WalkHasRun, Get
<1> QED BY <1>2, <1>4 DEF TInv

LEMMA GotoTInv ==
    ASSUME TInv, NEW p \in Proc, NEW r \in RunIds, walk[p][r] # None,
           NEW todo \in Seq(Op), NEW then \in {"check", "enter", "await", "end"},
           Goto(p, r, todo, then),
           cpu' \in [Proc -> RunIds \cup {None}],
           UNCHANGED <<ledger, rev, log, live, pending, call, effects, Bookkeeping>>
    PROVE  TInv'
<1> DEFINE w == [walk[p][r] EXCEPT !.todo = todo, !.then = then]
<1>1. w \in Walker
  BY GotoType DEF TInv
<1>2. w.result = walk[p][r].result
  BY DEF TInv, TypeOK, Walker
<1>3. Become(p, r, w)
  BY DEF Goto
<1>4. Get(p, w.result) # None
  BY <1>2 DEF TInv, WalkHasRun
<1>5. ledger' \in [Keys -> Claim \cup {None}]
  BY DEF TInv, TypeOK
<1> HIDE DEF w
<1> QED BY <1>1, <1>3, <1>4, <1>5, MoveTInv

LEMMA FinishTInv ==
    ASSUME TInv, NEW p \in Proc, NEW r \in RunIds, walk[p][r] # None,
           NEW before \in Seq(Op), NEW status \in Status, NEW type \in Event,
           Finish(p, r, before, status, type),
           cpu' \in [Proc -> RunIds \cup {None}],
           UNCHANGED <<ledger, rev, log, live, pending, call, effects, Bookkeeping>>
    PROVE  TInv'
<1>1. before \o Transition(status, type) \in Seq(Op)
  BY OpTypes, OpSeqs
<1>2. Goto(p, r, before \o Transition(status, type), "end")
  BY DEF Finish
<1> QED BY <1>1, <1>2, GotoTInv

\* Accepting, refusing, running off the plan and stopping a dry run.
LEMMA LoopHeadTInv ==
    ASSUME TInv, NEW p \in Proc, NEW r \in RunIds,
           \/ AcceptRequest(p, r) \/ RefuseRequest(p, r)
           \/ EndOfPlan(p, r) \/ StopDryRun(p, r)
    PROVE  TInv'
<1>1. cpu' \in [Proc -> RunIds \cup {None}]
  BY DEF AcceptRequest, RefuseRequest, EndOfPlan, StopDryRun, TInv, TypeOK
<1>2. << >> \in Seq(Op)
  BY OpTypes
<1>3. CASE AcceptRequest(p, r)
  BY <1>1, <1>2, <1>3, GotoTInv DEF AcceptRequest, Ready
<1>4. CASE RefuseRequest(p, r)
  <2>1. "denied" \in Status /\ "run.denied" \in Event
    BY DEF Status, Event
  <2> QED BY <2>1, <1>1, <1>2, <1>4, FinishTInv DEF RefuseRequest, Ready
<1>5. CASE EndOfPlan(p, r)
  <2>1. "failed" \in Status /\ "run.failed" \in Event
    BY DEF Status, Event
  <2> QED BY <2>1, <1>1, <1>2, <1>5, FinishTInv DEF EndOfPlan, Enter, Ready
<1>6. CASE StopDryRun(p, r)
  <2>1. "planned" \in Status /\ "run.planned" \in Event
    BY DEF Status, Event
  <2> QED BY <2>1, <1>1, <1>2, <1>6, FinishTInv DEF StopDryRun, Enter, Ready
<1> QED BY <1>3, <1>4, <1>5, <1>6
LEMMA ClaimKeyTInv ==
    ASSUME TInv, NEW p \in Proc, NEW r \in RunIds, ClaimKey(p, r)
    PROVE  TInv'
<1> DEFINE k     == live[p][r].key
           mine  == [run |-> r, input |-> live[p][r].input]
           owner == Owner(k, mine)
<1>1. walk[p][r] # None /\ walk[p][r] \in Walker
  BY DEF ClaimKey, Enter, Ready, TInv, TypeOK
<1>2. live[p][r] \in RunRecord /\ Get(p, walk[p][r].result) # None
  BY <1>1 DEF TInv, TypeOK, WalkHasRun
<1>3. k \in Keys /\ mine \in Claim
  BY <1>2 DEF RunRecord, Claim
<1>4. owner \in Claim /\ owner.run \in RunIds
  BY <1>3 DEF Owner, TInv, TypeOK, Claim
<1>5. /\ ledger' = [ledger EXCEPT ![k] = owner]
      /\ UNCHANGED <<rev, log, live, cpu, pending, call, effects, Bookkeeping>>
  BY DEF ClaimKey
<1>6. /\ ledger' \in [Keys -> Claim \cup {None}]
      /\ cpu' \in [Proc -> RunIds \cup {None}]
  BY <1>3, <1>4, <1>5 DEF TInv, TypeOK
<1>7. ASSUME NEW w \in Walker, Get(p, w.result) # None, Become(p, r, w)
      PROVE  TInv'
  BY <1>1, <1>5, <1>6, <1>7, MoveTInv
<1>8. ASSUME NEW before \in Seq(Op), NEW status \in Status, NEW type \in Event,
             Finish(p, r, before, status, type)
      PROVE  TInv'
  <2> DEFINE w == [walk[p][r] EXCEPT !.todo = before \o Transition(status, type),
                                     !.then = "end"]
  <2>1. before \o Transition(status, type) \in Seq(Op)
    BY OpTypes, OpSeqs
  <2>2. w \in Walker
    BY <2>1, <1>1, GotoType DEF TInv
  <2>3. w.result = walk[p][r].result
    BY <1>1 DEF Walker
  <2>4. Become(p, r, w)
    BY <1>8 DEF Finish, Goto
  <2> HIDE DEF w
  <2> QED BY <1>2, <1>7, <2>2, <2>3, <2>4
<1>9. CASE Finish(p, r, << >>, "denied", "run.denied")
  BY <1>8, <1>9, OpTypes DEF Status, Event
<1>10. CASE Become(p, r, [walk[p][r] EXCEPT !.claimed = TRUE])
  <2> DEFINE w == [walk[p][r] EXCEPT !.claimed = TRUE]
  <2>1. w \in Walker /\ w.result = walk[p][r].result
    BY <1>1 DEF Walker
  <2> QED BY <1>2, <1>7, <1>10, <2>1
<1>11. CASE /\ Get(p, owner.run) # None
            /\ Become(p, r, [walk[p][r] EXCEPT
                                 !.todo = <<Append1("idempotency.replayed")>>,
                                 !.then = "end", !.result = owner.run])
  <2> DEFINE todo == <<Append1("idempotency.replayed")>>
             w == [walk[p][r] EXCEPT !.todo = todo, !.then = "end", !.result = owner.run]
  <2>1. todo \in Seq(Op)
    BY OpTypes DEF Event
  <2> HIDE DEF todo
  <2>2. w \in Walker /\ w.result = owner.run
    BY <1>1, <1>4, <2>1 DEF Walker
  <2>3. Become(p, r, w)
    BY <1>11 DEF todo
  <2> QED BY <1>7, <1>11, <2>2, <2>3
<1>12. CASE Finish(p, r, <<Append1("idempotency.replayed")>>,
                   "denied", "idempotency.unresolved")
  BY <1>8, <1>12, OpTypes DEF Status, Event
<1> QED BY <1>9, <1>10, <1>11, <1>12 DEF ClaimKey

LEMMA BeginNodeTInv ==
    ASSUME TInv, NEW p \in Proc, NEW r \in RunIds, BeginNode(p, r)
    PROVE  TInv'
<1> DEFINE invokes == Node(p, r) = "invoke" /\ Invocable(live[p][r].plan)
           todo == IF Node(p, r) = "gap" THEN <<Append1("node.skipped")>>
                   ELSE IF invokes THEN Attempt ELSE << >>
           n == IF invokes THEN 1 ELSE 0
           w == [walk[p][r] EXCEPT !.n = n, !.todo = todo, !.then = "await"]
<1>1. walk[p][r] # None /\ walk[p][r] \in Walker /\ Get(p, walk[p][r].result) # None
  BY DEF BeginNode, Enter, Ready, TInv, TypeOK, WalkHasRun
<1>2. todo \in Seq(Op) /\ n \in 0..10
  BY OpTypes DEF Event
<1>3. Become(p, r, w)
  BY DEF BeginNode
<1>4. cpu' \in [Proc -> RunIds \cup {None}] /\ ledger' \in [Keys -> Claim \cup {None}]
  BY DEF BeginNode, TInv, TypeOK
<1> HIDE DEF todo, n
<1>5. w \in Walker /\ w.result = walk[p][r].result
  BY <1>1, <1>2 DEF Walker
<1> HIDE DEF w
<1> QED BY <1>1, <1>3, <1>4, <1>5, MoveTInv DEF BeginNode

LEMMA EndWalkTInv ==
    ASSUME TInv, NEW p \in Proc, NEW r \in RunIds, EndWalk(p, r)
    PROVE  TInv'
<1> DEFINE result == walk[p][r].result
           run == Get(p, result)
<1>1. walk[p][r] # None /\ result \in RunIds /\ run # None
  <2>1. walk[p][r] # None
    BY DEF EndWalk, Ready
  <2>2. walk[p][r] \in Walker
    BY <2>1 DEF TInv, TypeOK
  <2> QED BY <2>1, <2>2 DEF TInv, WalkHasRun, Walker
<1>2. run \in RunRecord
  BY <1>1, ProcAssumption DEF Get, TInv, TypeOK, ProcAssumption
<1>3. run.status \in Status /\ run.status # None
  BY <1>2, NoneAssumption DEF RunRecord, NoneAssumption
<1>4. /\ call' \in [Callers -> CallState]
      /\ \A c \in Callers : call'[c].st = "answered" => call'[c].status # None
  <2>1. call' = [c \in Callers |->
                   IF Awaits(c, p, r)
                   THEN [call[c] EXCEPT !.st = "answered", !.run = result,
                                        !.status = run.status]
                   ELSE call[c]]
    BY DEF EndWalk
  <2> HIDE DEF result, run
  <2>2. ASSUME NEW c \in Callers
        PROVE  [call[c] EXCEPT !.st = "answered", !.run = result, !.status = run.status]
                 \in CallState
    <3>1. call[c] \in CallState
      BY DEF TInv, TypeOK
    <3> QED BY <1>1, <1>3, <3>1 DEF CallState
  <2>3. ASSUME NEW c \in Callers
        PROVE  [call[c] EXCEPT !.st = "answered", !.run = result,
                               !.status = run.status].status = run.status
    <3>1. call[c] \in CallState
      BY DEF TInv, TypeOK
    <3> QED BY <3>1 DEF CallState
  <2> QED BY <1>3, <2>1, <2>2, <2>3 DEF TInv, TypeOK
<1>5. pending' \in [Proc -> [Keys -> Claim \cup {None}]]
  BY DEF EndWalk, TInv, TypeOK
<1>6. /\ walk' \in [Proc -> [RunIds -> Walker \cup {None}]]
      /\ \A q \in Proc, t \in RunIds : walk'[q][t] # None => walk'[q][t] = walk[q][t]
  <2>1. Become(p, r, None)
    BY DEF EndWalk
  <2>2. /\ walk' \in [Proc -> [RunIds -> Walker \cup {None}]]
        /\ walk'[p][r] = None
        /\ \A q \in Proc, t \in RunIds : <<q, t>> # <<p, r>> => walk'[q][t] = walk[q][t]
    BY <2>1, BecomeType DEF TInv
  <2> QED BY <2>2
<1>7. TypeOK'
  BY <1>4, <1>5, <1>6 DEF EndWalk, Bookkeeping, TInv, TypeOK
<1>8. WalkHasRun'
  BY <1>6, KeepsRuns DEF EndWalk
<1> QED BY <1>7, <1>8 DEF TInv

-----------------------------------------------------------------------------
(* Awaits that resolve *)

LEMMA RecordedType ==
    ASSUME TInv, NEW p \in Proc, NEW r \in RunIds, walk[p][r] # None, Recorded(p, r)
    PROVE  /\ live' \in [Proc -> [RunIds -> RunRecord \cup {None}]]
           /\ \A q \in Proc, t \in RunIds : live[q][t] # None => live'[q][t] # None
<1> DEFINE x == [live[p][r] EXCEPT !.steps = Append(@, walk[p][r].i)]
<1>1. live[p][r] \in RunRecord /\ walk[p][r].i \in Nat
  BY DEF TInv, TypeOK, WalkHasRun, Walker
<1>2. x \in RunRecord
  BY <1>1, StepMore
<1>3. live' = [live EXCEPT ![p][r] = x] /\ x # None
  <2>1. live' = [live EXCEPT ![p][r] = x]
    BY DEF Recorded
  <2>2. RunRecord \cap {None} = {}
    BY NoneAssumption DEF NoneAssumption
  <2> HIDE DEF x
  <2> QED BY <1>2, <2>1, <2>2
<1> HIDE DEF x
<1> QED BY <1>2, <1>3, Update2 DEF TInv, TypeOK

\* A resolution that moves the walk on and may record a step.
LEMMA ResolveTInv ==
    ASSUME TInv, NEW p \in Proc, NEW r \in RunIds, NEW kinds, Resolve(p, r, kinds),
           NEW w \in Walker, w.result = walk[p][r].result, Become(p, r, w),
           Recorded(p, r) \/ UNCHANGED live
    PROVE  TInv'
<1>1. walk[p][r] # None
  BY DEF Resolve, Awaiting
<1>2. /\ walk' \in [Proc -> [RunIds -> Walker \cup {None}]]
      /\ \A q \in Proc, t \in RunIds : walk'[q][t] # None =>
           walk[q][t] # None /\ walk'[q][t].result = walk[q][t].result
  BY <1>1, WalkStep
<1>3. /\ live' \in [Proc -> [RunIds -> RunRecord \cup {None}]]
      /\ \A q \in Proc, t \in RunIds : live[q][t] # None => live'[q][t] # None
  BY <1>1, RecordedType DEF TInv, TypeOK
<1>4. /\ cpu' \in [Proc -> RunIds \cup {None}]
      /\ UNCHANGED <<ledger, rev, log, pending, call, effects, minted, crashes, approvals>>
  BY DEF Resolve, Bookkeeping, TInv, TypeOK
<1>5. TypeOK'
  BY <1>2, <1>3, <1>4 DEF TInv, TypeOK
<1>6. WalkHasRun'
  BY <1>2, <1>3, <1>4, KeepsRuns
<1> QED BY <1>5, <1>6 DEF TInv

\* Every resolution of an await moves the walk of r to a walker w of this shape: it
\* keeps the claim as it is and, behind a check, queues nothing harmful.
Shape(p, r, w) ==
    /\ Resolve(p, r, NodeKind)
    /\ Become(p, r, w)
    /\ Recorded(p, r) \/ UNCHANGED live
    /\ w.result = walk[p][r].result /\ w.claimed = walk[p][r].claimed
    /\ Node(p, r) \in Precheck => w.todo \in Seq(Harmless) /\ w.then # "await"

LEMMA PassShape ==
    ASSUME TInv, NEW p \in Proc, NEW r \in RunIds, NEW kinds \in SUBSET NodeKind,
           NEW events \in Seq(Harmless), Pass(p, r, kinds, events)
    PROVE  \E w \in Walker : Shape(p, r, w)
<1> DEFINE w == [walk[p][r] EXCEPT !.i = @ + 1, !.todo = events, !.then = "enter"]
<1>1. Resolve(p, r, kinds) /\ Recorded(p, r) /\ Become(p, r, w)
  BY Zenon DEF Pass
<1>2. walk[p][r] \in Walker
  BY <1>1 DEF Resolve, Awaiting, TInv, TypeOK
<1>3. walk[p][r].i + 1 \in Nat /\ events \in Seq(Op)
  BY <1>2, HarmlessOps DEF Walker
<1>4. /\ w \in Walker /\ w.result = walk[p][r].result
      /\ w.claimed = walk[p][r].claimed /\ w.todo = events /\ w.then = "enter"
  BY <1>2, <1>3 DEF Walker
<1> HIDE DEF w
<1> QED BY <1>1, <1>4 DEF Shape, Resolve

LEMMA HaltShape ==
    ASSUME TInv, NEW p \in Proc, NEW r \in RunIds, NEW kinds \in SUBSET NodeKind,
           NEW events \in Seq(Harmless), NEW status \in Status,
           NEW type \in Event \ {"provider.attempt.started"},
           status \in Active => kinds \cap Precheck = {},
           Halt(p, r, kinds, events, status, type)
    PROVE  \E w \in Walker : Shape(p, r, w)
<1> DEFINE todo == events \o Transition(status, type)
           w == [walk[p][r] EXCEPT !.todo = todo, !.then = "end"]
<1>1. Resolve(p, r, kinds) /\ Recorded(p, r) /\ Become(p, r, w)
  BY DEF Halt, Finish, Goto
<1>2. walk[p][r] \in Walker
  BY <1>1 DEF Resolve, Awaiting, TInv, TypeOK
<1>3. todo \in Seq(Op)
  BY OpTypes, OpSeqs, HarmlessOps
<1>4. status \notin Active => todo \in Seq(Harmless)
  BY HarmlessOps
<1> HIDE DEF todo
<1>5. /\ w \in Walker /\ w.result = walk[p][r].result
      /\ w.claimed = walk[p][r].claimed /\ w.todo = todo /\ w.then = "end"
  BY <1>2, <1>3 DEF Walker
<1> HIDE DEF w
<1>6. Node(p, r) \in Precheck => status \notin Active
  BY <1>1 DEF Resolve
<1> QED BY <1>1, <1>4, <1>5, <1>6 DEF Shape, Resolve

LEMMA ResolutionShape ==
    ASSUME TInv, NEW p \in Proc, NEW r \in RunIds, Resolution(p, r)
    PROVE  \E w \in Walker : Shape(p, r, w)
<1> USE HarmlessOps
<1>1. CASE \/ CheckPasses(p, r) \/ Authorizes(p, r) \/ PolicyAllows(p, r)
           \/ OutputPasses(p, r) \/ AttemptSucceeds(p, r)
  BY <1>1, PassShape DEF CheckPasses, Authorizes, PolicyAllows, OutputPasses,
                         AttemptSucceeds, Event, Precheck, NodeKind
<1>2. CASE CheckDenies(p, r) \/ PolicyDenies(p, r) \/ PolicyErrs(p, r)
  BY <1>2, HaltShape DEF CheckDenies, PolicyDenies, PolicyErrs, Status, Active,
                         Event, Precheck, NodeKind
<1>3. CASE RefusesPrincipal(p, r)
  BY <1>3, HaltShape DEF RefusesPrincipal, Status, Active, Event, NodeKind
<1>4. CASE OutputFails(p, r) \/ GapRefused(p, r) \/ Emits(p, r) \/ InvokeRefused(p, r)
  BY <1>4, HaltShape DEF OutputFails, GapRefused, Emits, InvokeRefused,
                         Status, Active, Event, NodeKind, Precheck
<1>5. CASE Suspends(p, r)
  BY <1>5, HaltShape DEF Suspends, Status, Active, Event, NodeKind, Precheck
<1>6. CASE AttemptFails(p, r)
  <2>1. CASE Halt(p, r, {"invoke"}, <<Append1("provider.attempt.failed")>>,
                  "failed", "run.failed")
    BY <2>1, HaltShape DEF Status, Active, Event, NodeKind
  <2>2. CASE /\ ~LastAttempt(p, r)
             /\ Resolve(p, r, {"invoke"})
             /\ Become(p, r, [walk[p][r] EXCEPT !.n = @ + 1,
                          !.todo = <<Append1("provider.attempt.failed")>> \o Attempt])
             /\ UNCHANGED live
    <3> DEFINE todo == <<Append1("provider.attempt.failed")>> \o Attempt
               w == [walk[p][r] EXCEPT !.n = @ + 1, !.todo = todo]
    <3>1. walk[p][r] # None /\ walk[p][r] \in Walker
      BY <2>2 DEF Resolve, Awaiting, TInv, TypeOK
    <3>2. live[p][r] \in RunRecord
      BY <3>1 DEF TInv, TypeOK, WalkHasRun
    <3>3. live[p][r].plan.max \in 0..10
      BY <3>2, PlansAssumption DEF PlansAssumption, PlanType, RunRecord
    <3>4. walk[p][r].n + 1 \in 0..10
      <4>1. walk[p][r].n \in 0..10
        BY <3>1 DEF Walker
      <4>2. ~(walk[p][r].n >= live[p][r].plan.max)
        BY <2>2 DEF LastAttempt
      <4> QED BY <3>3, <4>1, <4>2
    <3>5. todo \in Seq(Op)
      BY OpTypes, OpSeqs DEF Event
    <3>6. Become(p, r, w)
      BY <2>2
    <3> HIDE DEF todo
    <3>7. /\ w \in Walker /\ w.result = walk[p][r].result
          /\ w.claimed = walk[p][r].claimed
      BY <3>1, <3>4, <3>5 DEF Walker
    <3> HIDE DEF w
    <3>8. Node(p, r) \notin Precheck
      BY <2>2 DEF Resolve, Precheck
    <3> QED BY <2>2, <3>6, <3>7, <3>8 DEF Shape, Resolve, NodeKind
  <2> QED BY <1>6, <2>1, <2>2 DEF AttemptFails
<1> QED BY <1>1, <1>2, <1>3, <1>4, <1>5, <1>6 DEF Resolution

LEMMA ResolutionTInv ==
    ASSUME TInv, NEW p \in Proc, NEW r \in RunIds, Resolution(p, r)
    PROVE  TInv'
<1>1. PICK w \in Walker : Shape(p, r, w)
  BY ResolutionShape
<1> QED BY <1>1, ResolveTInv DEF Shape

-----------------------------------------------------------------------------
(* Approval and crashes *)

LEMMA ApproveTInv ==
    ASSUME TInv, NEW p \in Proc, NEW r \in RunIds, Approve(p, r)
    PROVE  TInv'
<1> DEFINE run == Get(p, r)
<1>1. run \in RunRecord /\ run # None
  BY GetType DEF Approve, TInv
<1>2. run.plan.nodes \in Seq(NodeKind)
  BY <1>1, PlansAssumption DEF RunRecord, PlansAssumption, PlanType
<1>3. PICK i \in Suspended(run.plan.nodes) :
         Become(p, r, [i |-> i + 1, n |-> 0, claimed |-> TRUE,
                       dry |-> FALSE, then |-> "enter", result |-> r,
                       todo |-> <<Append1("approval.granted")>>
                                  \o Transition("planned", "approval.accepted")])
  BY Zenon DEF Approve
<1> DEFINE todo == <<Append1("approval.granted")>>
                      \o Transition("planned", "approval.accepted")
           w == [i |-> i + 1, n |-> 0, claimed |-> TRUE, dry |-> FALSE,
                 then |-> "enter", result |-> r, todo |-> todo]
<1>4. i + 1 \in Nat
  BY <1>2, <1>3 DEF Suspended
<1>5. todo \in Seq(Op)
  BY OpTypes, OpSeqs DEF Status, Event
<1>6. Become(p, r, w)
  BY <1>3
<1> HIDE DEF todo
<1>7. w \in Walker /\ w.result = r
  BY <1>4, <1>5 DEF Walker
<1> HIDE DEF w
<1>8. /\ walk' \in [Proc -> [RunIds -> Walker \cup {None}]]
      /\ walk'[p][r] = w
      /\ \A q \in Proc, t \in RunIds : <<q, t>> # <<p, r>> => walk'[q][t] = walk[q][t]
  BY <1>6, <1>7, BecomeType DEF TInv
<1>9. live' = [live EXCEPT ![p][r] = run]
  BY DEF Approve
<1> HIDE DEF run
<1>10. /\ live' \in [Proc -> [RunIds -> RunRecord \cup {None}]]
       /\ live'[p][r] = run
       /\ \A q \in Proc, t \in RunIds : <<q, t>> # <<p, r>> => live'[q][t] = live[q][t]
  BY <1>1, <1>9, Update2 DEF TInv, TypeOK
<1>11. /\ cpu' \in [Proc -> RunIds \cup {None}] /\ approvals' \in 0..MaxApprovals
       /\ UNCHANGED <<ledger, rev, log, pending, minted, call, effects, crashes>>
  BY BoundAssumption DEF Approve, TInv, TypeOK, BoundAssumption
<1>12. TypeOK'
  BY <1>8, <1>10, <1>11 DEF TInv, TypeOK
<1>13. WalkHasRun'
  <2> SUFFICES ASSUME NEW q \in Proc, NEW t \in RunIds, walk'[q][t] # None
               PROVE  live'[q][t] # None /\ Get(q, walk[q][t].result)' # None
    BY DEF WalkHasRun, Get
  <2>1. CASE <<q, t>> = <<p, r>>
    BY <2>1, <1>1, <1>7, <1>8, <1>10 DEF Get
  <2>2. CASE <<q, t>> # <<p, r>>
    <3>1. /\ walk'[q][t] = walk[q][t] /\ walk[q][t] # None
          /\ live[q][t] # None /\ Get(q, walk[q][t].result) # None
      BY <2>2, <1>8 DEF TInv, WalkHasRun
    <3>2. walk[q][t].result \in RunIds
      BY <3>1 DEF TInv, TypeOK, Walker
    <3> QED BY <2>2, <3>1, <3>2, <1>1, <1>10, <1>11 DEF Get
  <2> QED BY <2>1, <2>2
<1> QED BY <1>12, <1>13 DEF TInv

LEMMA CrashTInv ==
    ASSUME TInv, NEW p \in Proc, Crash(p)
    PROVE  TInv'
<1>1. /\ live' \in [Proc -> [RunIds -> RunRecord \cup {None}]]
      /\ walk' \in [Proc -> [RunIds -> Walker \cup {None}]]
      /\ cpu' \in [Proc -> RunIds \cup {None}]
      /\ pending' \in [Proc -> [Keys -> Claim \cup {None}]]
      /\ minted' \in [Proc -> SUBSET RunIds]
      /\ UNCHANGED <<ledger, rev, log, effects, approvals>>
  BY DEF Crash, TInv, TypeOK
<1>2. crashes' \in 0..MaxCrashes
  BY BoundAssumption DEF Crash, TInv, TypeOK, BoundAssumption
<1>3. /\ call' \in [Callers -> CallState]
      /\ \A c \in Callers : call'[c].st = "answered" => call'[c].status # None
  <2>1. call' = [c \in Callers |->
                   IF call[c].st = "waiting" /\ call[c].proc = p
                   THEN [call[c] EXCEPT !.st = "lost"] ELSE call[c]]
    BY DEF Crash
  <2>2. ASSUME NEW c \in Callers
        PROVE  /\ [call[c] EXCEPT !.st = "lost"] \in CallState
               /\ [call[c] EXCEPT !.st = "lost"].st = "lost"
    <3>1. call[c] \in CallState
      BY DEF TInv, TypeOK
    <3> QED BY <3>1 DEF CallState
  <2> QED BY <2>1, <2>2 DEF TInv, TypeOK
<1>4. TypeOK'
  BY <1>1, <1>2, <1>3 DEF TInv, TypeOK
<1>5. ASSUME NEW q \in Proc, NEW t \in RunIds
      PROVE  IF q = p THEN walk'[q][t] = None
             ELSE walk'[q][t] = walk[q][t] /\ live'[q][t] = live[q][t]
  BY DEF Crash, TInv, TypeOK
<1>6. WalkHasRun'
  <2> SUFFICES ASSUME NEW q \in Proc, NEW t \in RunIds, walk'[q][t] # None
               PROVE  live'[q][t] # None /\ Get(q, walk[q][t].result)' # None
    BY DEF WalkHasRun, Get
  <2>1. /\ q # p /\ walk'[q][t] = walk[q][t] /\ walk[q][t] # None
        /\ live[q][t] # None /\ Get(q, walk[q][t].result) # None
    BY <1>5 DEF TInv, WalkHasRun
  <2>2. walk[q][t].result \in RunIds
    BY <2>1 DEF TInv, TypeOK, Walker
  <2> QED BY <2>1, <2>2, <1>1, <1>5 DEF Get
<1> QED BY <1>4, <1>6 DEF TInv

-----------------------------------------------------------------------------
(* Theorems *)

LEMMA NextTInv ==
    ASSUME TInv, [Next]_vars
    PROVE  TInv'
<1>1. ASSUME NEW c \in Callers, NEW p \in Proc, Execute(c, p) PROVE TInv'
  BY <1>1, ExecuteKnownTInv, ExecuteSharedTInv, ExecuteNewTInv DEF Execute
<1>2. ASSUME NEW p \in Proc, NEW r \in RunIds, Segment(p, r) PROVE TInv'
  <2>1. CASE StoreCall(p, r)
    BY <2>1, SaveRunTInv, AppendEventTInv, CallProviderTInv DEF StoreCall
  <2>2. CASE \/ AcceptRequest(p, r) \/ RefuseRequest(p, r)
             \/ EndOfPlan(p, r) \/ StopDryRun(p, r)
    BY <2>2, LoopHeadTInv
  <2>3. CASE ClaimKey(p, r) \/ BeginNode(p, r) \/ EndWalk(p, r)
    BY <2>3, ClaimKeyTInv, BeginNodeTInv, EndWalkTInv
  <2> QED BY <1>2, <2>1, <2>2, <2>3 DEF Segment
<1>3. ASSUME NEW p \in Proc, NEW r \in RunIds, Resolution(p, r) \/ Approve(p, r)
      PROVE  TInv'
  BY <1>3, ResolutionTInv, ApproveTInv
<1>4. ASSUME NEW p \in Proc, Crash(p) PROVE TInv'
  BY <1>4, CrashTInv
<1>5. CASE UNCHANGED vars
  <2>1. WalkHasRun'
    BY <1>5 DEF vars, TInv, WalkHasRun, Get
  <2>2. TypeOK'
    BY <1>5 DEF vars, TInv, TypeOK
  <2> QED BY <2>1, <2>2 DEF TInv
<1> QED BY <1>1, <1>2, <1>3, <1>4, <1>5 DEF Next

\* Type correctness of every reachable state, and every walk in progress has a run
\* and a run to answer with, whatever the instance (execute, walk, approve).
THEOREM TypeCorrect == Spec => [](TypeOK /\ WalkHasRun)
<1>1. Init => TInv
  BY InitTInv
<1>2. TInv /\ [Next]_vars => TInv'
  BY NextTInv
<1> QED BY <1>1, <1>2, PTL DEF Spec, TInv

-----------------------------------------------------------------------------
(* The ledger *)

\* A ledger row, once written, stays.
LedgerKept == \A k \in Keys : ledger[k] # None => ledger'[k] = ledger[k]

LEMMA NextLedgerKept ==
    ASSUME TInv, [Next]_vars
    PROVE  LedgerKept
<1>1. ASSUME NEW p \in Proc, NEW r \in RunIds, ClaimKey(p, r) PROVE LedgerKept
  <2> DEFINE k == live[p][r].key
             mine == [run |-> r, input |-> live[p][r].input]
  <2>1. ledger' = [ledger EXCEPT ![k] = Owner(k, mine)]
    BY <1>1 DEF ClaimKey
  <2> QED BY <2>1 DEF Owner, LedgerKept, TInv, TypeOK
<1>2. CASE UNCHANGED ledger
  BY <1>2 DEF LedgerKept
<1>3. ASSUME NEW p \in Proc, NEW r \in RunIds, Segment(p, r), ~ClaimKey(p, r)
      PROVE  UNCHANGED ledger
  BY <1>3 DEF Segment, StoreCall, SaveRun, AppendEvent, CallProvider, StoreStep,
              AcceptRequest, RefuseRequest, EndOfPlan, StopDryRun, BeginNode, EndWalk
<1>4. ASSUME NEW p \in Proc, NEW r \in RunIds, Resolution(p, r)
      PROVE  UNCHANGED ledger
  BY <1>4, ResolutionShape DEF Shape, Resolve
<1>5. ASSUME NEW c \in Callers, NEW p \in Proc, Execute(c, p) PROVE UNCHANGED ledger
  <2>1. ASSUME NEW k \in Keys, NEW i \in Inputs, ExecuteKnown(c, p, k, i)
        PROVE  UNCHANGED ledger
    BY <2>1, Zenon DEF ExecuteKnown
  <2>2. ASSUME NEW k \in Keys, NEW i \in Inputs, ExecuteShared(c, p, k, i)
        PROVE  UNCHANGED ledger
    BY <2>2, Zenon DEF ExecuteShared
  <2>3. ASSUME NEW k \in Keys, NEW i \in Inputs, NEW dry \in DryRun,
               NEW r \in RunIds, NEW plan \in Plans, ExecuteNew(c, p, k, i, dry, r, plan)
        PROVE  UNCHANGED ledger
    BY <2>3, Zenon DEF ExecuteNew
  <2> QED BY <1>5, <2>1, <2>2, <2>3 DEF Execute
<1>6. ASSUME NEW p \in Proc, Crash(p) PROVE UNCHANGED ledger
  BY <1>6 DEF Crash
<1>7. ASSUME NEW p \in Proc, NEW r \in RunIds, Approve(p, r) PROVE UNCHANGED ledger
  BY <1>7 DEF Approve
<1>8. CASE Next
  BY <1>1, <1>2, <1>3, <1>4, <1>5, <1>6, <1>7, <1>8 DEF Next
<1> QED BY <1>2, <1>8 DEF vars

-----------------------------------------------------------------------------
(* The claim comes before the effect *)

CInv == TInv /\ ClaimDiscipline

\* Every copy of every run stays, with its key, input, plan and status.
LiveKept ==
    \A p \in Proc, r \in RunIds :
        /\ live'[p][r] # None <=> live[p][r] # None
        /\ live[p][r] # None => /\ live'[p][r].key = live[p][r].key
                                /\ live'[p][r].input = live[p][r].input
                                /\ live'[p][r].plan = live[p][r].plan
                                /\ live'[p][r].status = live[p][r].status

\* Who owns a key owns it after a step that keeps the ledger.
LEMMA OwnsKept ==
    ASSUME LedgerKept, NEW x \in RunRecord, NEW r \in RunIds, Owns(x, r)
    PROVE  ledger'[x.key] = [run |-> r, input |-> x.input]
<1>1. x.key \in Keys /\ [run |-> r, input |-> x.input] \in Claim
  BY DEF RunRecord, Claim
<1>2. ledger[x.key] # None
  BY <1>1, NoneAssumption DEF Owns, NoneAssumption
<1> QED BY <1>1, <1>2 DEF LedgerKept, Owns

\* The log shows no new attempt, or one of a run that owns its key.
LogKept ==
    \A s \in Stores, r \in RunIds :
        Happened(s, r, "provider.attempt.started")' =>
            \/ Happened(s, r, "provider.attempt.started")
            \/ rev[s][r] # None /\ Owns(rev[s][r], r)

LEMMA SameLogKept == UNCHANGED log => LogKept
  BY DEF LogKept, Happened

\* What a walker must look like for the discipline to hold of it.
Disciplined(p, r, w) ==
    /\ w.claimed => ledger'[live[p][r].key] = [run |-> r, input |-> live[p][r].input]
    /\ ~w.claimed => /\ w.todo \in Seq(Harmless)
                     /\ w.then = "await" => live[p][r].plan.nodes[w.i] \in Precheck

\* A step of one walk that saves nothing.
LEMMA QuietStep ==
    ASSUME CInv, TypeOK', NEW p \in Proc, NEW r \in RunIds, walk[p][r] # None,
           rev[StoreOf[p]][r] # None,
           NEW w \in Walker \cup {None}, Become(p, r, w),
           w # None => Disciplined(p, r, w),
           LedgerKept, LiveKept, LogKept, UNCHANGED <<rev, minted>>
    PROVE  ClaimDiscipline'
<1>1. /\ walk'[p][r] = w
      /\ \A q \in Proc, t \in RunIds : <<q, t>> # <<p, r>> => walk'[q][t] = walk[q][t]
  BY BecomeType DEF CInv, TInv
<1>2. \A q \in Proc, t \in RunIds : walk[q][t] # None => live[q][t] # None
  BY DEF CInv, TInv, WalkHasRun
<1>3. \A q \in Proc, t \in RunIds : live[q][t] # None => live[q][t] \in RunRecord
  BY DEF CInv, TInv, TypeOK
<1>4. \A q \in Proc : StoreOf[q] \in Stores
  BY ProcAssumption DEF ProcAssumption
<1>5. IdKnown'
  BY <1>4 DEF LiveKept, IdKnown, CInv, ClaimDiscipline
<1>6. CopiesAgree'
  <2> SUFFICES ASSUME NEW t \in RunIds
               PROVE  \E k \in Keys \cup {None}, i \in Inputs \cup {None} :
                 /\ \A q \in Proc : live'[q][t] # None => live'[q][t].key = k /\ live'[q][t].input = i
                 /\ \A s \in Stores : rev'[s][t] # None => rev'[s][t].key = k /\ rev'[s][t].input = i
    BY DEF CopiesAgree
  <2>1. PICK k \in Keys \cup {None}, i \in Inputs \cup {None} :
          /\ \A q \in Proc : live[q][t] # None => live[q][t].key = k /\ live[q][t].input = i
          /\ \A s \in Stores : rev[s][t] # None => rev[s][t].key = k /\ rev[s][t].input = i
    BY DEF CopiesAgree, CInv, ClaimDiscipline
  <2> QED BY <2>1 DEF LiveKept
<1>7. SavedFirst'
  <2> SUFFICES ASSUME NEW q \in Proc, NEW t \in RunIds, live'[q][t] # None,
                      rev'[StoreOf[q]][t] = None
               PROVE  /\ walk'[q][t] # None /\ live'[q][t].status = "planned"
                      /\ walk'[q][t].todo = Transition("planned", "run.created")
    BY DEF SavedFirst, Transition, Save, Append1
  <2>1. live[q][t] # None /\ rev[StoreOf[q]][t] = None /\ <<q, t>> # <<p, r>>
    BY DEF LiveKept
  <2> QED BY <1>1, <2>1 DEF LiveKept, SavedFirst, CInv, ClaimDiscipline
<1>8. ClaimedOwns'
  <2> SUFFICES ASSUME NEW q \in Proc, NEW t \in RunIds, walk'[q][t] # None, walk'[q][t].claimed
               PROVE  Owns(live[q][t], t)'
    BY DEF ClaimedOwns
  <2>1. CASE <<q, t>> = <<p, r>>
    BY <2>1, <1>1, <1>2 DEF Disciplined, LiveKept, Owns
  <2>2. CASE <<q, t>> # <<p, r>>
    <3>1. Owns(live[q][t], t) /\ live[q][t] # None
      BY <2>2, <1>1, <1>2 DEF ClaimedOwns, CInv, ClaimDiscipline
    <3> QED BY <3>1, <1>3, OwnsKept DEF LiveKept, Owns
  <2> QED BY <2>1, <2>2
<1>9. UnclaimedHarmless'
  <2> SUFFICES ASSUME NEW q \in Proc, NEW t \in RunIds, walk'[q][t] # None, ~walk'[q][t].claimed
               PROVE  /\ walk'[q][t].todo \in Seq(Harmless)
                      /\ walk'[q][t].then = "await" => Node(q, t)' \in Precheck
    BY DEF UnclaimedHarmless, Harmless, Op, Append1, Save, CallProvider1, Active,
           Precheck
  <2>1. CASE <<q, t>> = <<p, r>>
    BY <2>1, <1>1, <1>2 DEF Disciplined, LiveKept, Node, Nodes
  <2>2. CASE <<q, t>> # <<p, r>>
    <3>1. walk'[q][t] = walk[q][t] /\ live[q][t] # None
      BY <2>2, <1>1, <1>2
    <3>2. /\ walk[q][t].todo \in Seq(Harmless)
          /\ walk[q][t].then = "await" => Node(q, t) \in Precheck
      BY <3>1 DEF UnclaimedHarmless, CInv, ClaimDiscipline
    <3>3. live'[q][t].plan = live[q][t].plan
      BY <3>1 DEF LiveKept
    <3> QED BY <3>1, <3>2, <3>3 DEF Node, Nodes
  <2> QED BY <2>1, <2>2
<1>10. ActiveOwns'
  <2>1. ASSUME NEW t \in RunIds, NEW q \in Proc, live'[q][t] # None,
               live'[q][t].status \in Active
        PROVE  Owns(live[q][t], t)'
    <3>1. live[q][t] # None /\ Owns(live[q][t], t)
      BY <2>1 DEF LiveKept, ActiveOwns, CInv, ClaimDiscipline
    <3> QED BY <3>1, <1>3, OwnsKept DEF LiveKept, Owns
  <2>2. ASSUME NEW t \in RunIds, NEW s \in Stores, rev'[s][t] # None,
               rev'[s][t].status \in Active
        PROVE  Owns(rev[s][t], t)'
    <3>1. rev[s][t] \in RunRecord /\ Owns(rev[s][t], t)
      BY <2>2 DEF ActiveOwns, CInv, ClaimDiscipline, TInv, TypeOK
    <3> QED BY <3>1, OwnsKept DEF Owns
  <2> QED BY <2>1, <2>2 DEF ActiveOwns
<1>11. StartedOwns'
  <2> SUFFICES ASSUME NEW s \in Stores, NEW t \in RunIds,
                      Happened(s, t, "provider.attempt.started")'
               PROVE  rev'[s][t] # None /\ Owns(rev[s][t], t)'
    BY DEF StartedOwns
  <2>1. rev[s][t] # None /\ Owns(rev[s][t], t) /\ rev[s][t] \in RunRecord
    BY DEF LogKept, StartedOwns, CInv, ClaimDiscipline, TInv, TypeOK
  <2> QED BY <2>1, OwnsKept DEF Owns
<1> QED BY <1>5, <1>6, <1>7, <1>8, <1>9, <1>10, <1>11 DEF ClaimDiscipline

\* A walk with nothing queued is of a run its store has.
LEMMA IdleWalkSaved ==
    ASSUME CInv, NEW p \in Proc, NEW r \in RunIds, walk[p][r] # None,
           walk[p][r].todo = << >>
    PROVE  rev[StoreOf[p]][r] # None
<1>1. live[p][r] # None
  BY DEF CInv, TInv, WalkHasRun
<1>2. Transition("planned", "run.created") # << >>
  BY DEF Transition
<1> QED BY <1>1, <1>2 DEF CInv, ClaimDiscipline, SavedFirst

LEMMA SameLiveKept == UNCHANGED live => LiveKept
  BY DEF LiveKept

LEMMA RecordedLiveKept ==
    ASSUME TInv, NEW p \in Proc, NEW r \in RunIds, walk[p][r] # None, Recorded(p, r)
    PROVE  LiveKept
<1> DEFINE x == [live[p][r] EXCEPT !.steps = Append(@, walk[p][r].i)]
<1>1. live[p][r] \in RunRecord /\ live[p][r] # None /\ walk[p][r].i \in Nat
  BY DEF TInv, TypeOK, WalkHasRun, Walker
<1>2. /\ x \in RunRecord /\ x.key = live[p][r].key /\ x.input = live[p][r].input
      /\ x.plan = live[p][r].plan /\ x.status = live[p][r].status
  BY <1>1, StepMore
<1>3. x # None
  BY <1>2, NoneAssumption DEF NoneAssumption
<1>4. live' = [live EXCEPT ![p][r] = x]
  BY DEF Recorded
<1> HIDE DEF x
<1>5. /\ live'[p][r] = x
      /\ \A q \in Proc, t \in RunIds : <<q, t>> # <<p, r>> => live'[q][t] = live[q][t]
  BY <1>2, <1>4, Update2 DEF TInv, TypeOK
<1> QED BY <1>1, <1>2, <1>3, <1>5 DEF LiveKept

\* A walker that keeps its claim and queues nothing harmful is as disciplined as it was.
LEMMA StaysDisciplined ==
    ASSUME CInv, LedgerKept, NEW p \in Proc, NEW r \in RunIds, walk[p][r] # None,
           NEW w \in Walker, w.claimed = walk[p][r].claimed,
           ~w.claimed => w.todo \in Seq(Harmless),
           ~w.claimed /\ w.then = "await" => live[p][r].plan.nodes[w.i] \in Precheck
    PROVE  Disciplined(p, r, w)
<1>1. live[p][r] \in RunRecord
  BY DEF CInv, TInv, TypeOK, WalkHasRun
<1>2. w.claimed => Owns(live[p][r], r)
  BY DEF CInv, ClaimDiscipline, ClaimedOwns
<1> QED BY <1>1, <1>2, OwnsKept DEF Disciplined

\* The shape of a goto: the claim is kept.
LEMMA GotoStep ==
    ASSUME CInv, TypeOK', LedgerKept, NEW p \in Proc, NEW r \in RunIds,
           walk[p][r] # None, walk[p][r].todo = << >>,
           NEW todo \in Seq(Op), NEW then \in {"check", "enter", "end"},
           Goto(p, r, todo, then), ~walk[p][r].claimed => todo \in Seq(Harmless),
           UNCHANGED <<rev, log, live, minted>>
    PROVE  ClaimDiscipline'
<1> DEFINE w == [walk[p][r] EXCEPT !.todo = todo, !.then = then]
<1>1. walk[p][r] \in Walker
  BY DEF CInv, TInv, TypeOK
<1>2. /\ w \in Walker /\ w.claimed = walk[p][r].claimed
      /\ w.todo = todo /\ w.then = then
  BY <1>1 DEF Walker
<1>3. Become(p, r, w)
  BY DEF Goto
<1> HIDE DEF w
<1>4. Disciplined(p, r, w)
  BY <1>2, StaysDisciplined
<1> QED BY <1>2, <1>3, <1>4, IdleWalkSaved, SameLiveKept, SameLogKept, QuietStep

LEMMA FinishStep ==
    ASSUME CInv, TypeOK', LedgerKept, NEW p \in Proc, NEW r \in RunIds,
           walk[p][r] # None, walk[p][r].todo = << >>, NEW before \in Seq(Harmless),
           NEW status \in Status \ Active,
           NEW type \in Event \ {"provider.attempt.started"},
           Finish(p, r, before, status, type),
           UNCHANGED <<rev, log, live, minted>>
    PROVE  ClaimDiscipline'
<1>1. before \o Transition(status, type) \in Seq(Harmless)
  BY HarmlessOps
<1>2. before \o Transition(status, type) \in Seq(Op)
  BY <1>1, HarmlessOps
<1>3. Goto(p, r, before \o Transition(status, type), "end")
  BY DEF Finish
<1> QED BY <1>1, <1>2, <1>3, GotoStep

LEMMA LoopHeadStep ==
    ASSUME CInv, TypeOK', LedgerKept, NEW p \in Proc, NEW r \in RunIds,
           \/ AcceptRequest(p, r) \/ RefuseRequest(p, r)
           \/ EndOfPlan(p, r) \/ StopDryRun(p, r)
    PROVE  ClaimDiscipline'
<1>1. << >> \in Seq(Harmless) /\ << >> \in Seq(Op)
  BY HarmlessOps
<1>2. /\ walk[p][r] # None /\ walk[p][r].todo = << >>
      /\ UNCHANGED <<rev, log, live, minted>>
  BY DEF AcceptRequest, RefuseRequest, EndOfPlan, StopDryRun, Enter, Ready, Bookkeeping
<1>3. CASE AcceptRequest(p, r)
  BY <1>1, <1>2, <1>3, GotoStep DEF AcceptRequest
<1>4. CASE RefuseRequest(p, r)
  <2>1. "denied" \in Status \ Active
        /\ "run.denied" \in Event \ {"provider.attempt.started"}
    BY DEF Status, Active, Event
  <2> QED BY <2>1, <1>1, <1>2, <1>4, FinishStep DEF RefuseRequest
<1>5. CASE EndOfPlan(p, r)
  <2>1. "failed" \in Status \ Active
        /\ "run.failed" \in Event \ {"provider.attempt.started"}
    BY DEF Status, Active, Event
  <2> QED BY <2>1, <1>1, <1>2, <1>5, FinishStep DEF EndOfPlan
<1>6. CASE StopDryRun(p, r)
  <2>1. "planned" \in Status \ Active
        /\ "run.planned" \in Event \ {"provider.attempt.started"}
    BY DEF Status, Active, Event
  <2> QED BY <2>1, <1>1, <1>2, <1>6, FinishStep DEF StopDryRun
<1> QED BY <1>3, <1>4, <1>5, <1>6

\* claimFor() is where a walk becomes an owner.
LEMMA ClaimKeyStep ==
    ASSUME CInv, TypeOK', LedgerKept, NEW p \in Proc, NEW r \in RunIds, ClaimKey(p, r)
    PROVE  ClaimDiscipline'
<1> DEFINE k     == live[p][r].key
           mine  == [run |-> r, input |-> live[p][r].input]
           owner == Owner(k, mine)
<1>1. /\ walk[p][r] # None /\ walk[p][r] \in Walker /\ walk[p][r].todo = << >>
      /\ walk[p][r].then = "enter" /\ ~walk[p][r].claimed
  BY DEF ClaimKey, Enter, Ready, MustClaim, CInv, TInv, TypeOK
<1>2. live[p][r] \in RunRecord
  BY <1>1 DEF CInv, TInv, TypeOK, WalkHasRun
<1>3. k \in Keys /\ mine \in Claim
  BY <1>2 DEF RunRecord, Claim
<1>4. owner \in Claim /\ owner.run \in RunIds
  BY <1>3 DEF Owner, CInv, TInv, TypeOK, Claim
<1>5. ledger' = [ledger EXCEPT ![k] = owner] /\ UNCHANGED <<rev, log, live, minted>>
  BY DEF ClaimKey, Bookkeeping
<1>6. ledger'[k] = owner
  BY <1>3, <1>5 DEF CInv, TInv, TypeOK
<1>7. ASSUME NEW w \in Walker, Disciplined(p, r, w), Become(p, r, w)
      PROVE  ClaimDiscipline'
  BY <1>1, <1>5, <1>7, IdleWalkSaved, SameLiveKept, SameLogKept, QuietStep
<1>8. CASE Finish(p, r, << >>, "denied", "run.denied")
  BY <1>1, <1>5, <1>8, FinishStep, HarmlessOps DEF Status, Active, Event
<1>9. CASE /\ SameInput(owner, mine.input) /\ owner.run = r
           /\ Become(p, r, [walk[p][r] EXCEPT !.claimed = TRUE])
  <2> DEFINE w == [walk[p][r] EXCEPT !.claimed = TRUE]
  <2>1. w \in Walker /\ w.claimed
    BY <1>1 DEF Walker
  <2>2. owner = mine
    BY <1>4, <1>9 DEF SameInput, Claim
  <2>3. Disciplined(p, r, w)
    BY <1>6, <2>1, <2>2 DEF Disciplined
  <2> QED BY <1>7, <1>9, <2>1, <2>3
<1>10. CASE Become(p, r, [walk[p][r] EXCEPT
                              !.todo = <<Append1("idempotency.replayed")>>,
                              !.then = "end", !.result = owner.run])
  <2> DEFINE todo == <<Append1("idempotency.replayed")>>
             w == [walk[p][r] EXCEPT !.todo = todo, !.then = "end", !.result = owner.run]
  <2>1. todo \in Seq(Harmless) /\ todo \in Seq(Op)
    BY HarmlessOps DEF Event
  <2>2. Become(p, r, w)
    BY <1>10
  <2> HIDE DEF todo
  <2>3. w \in Walker /\ ~w.claimed /\ w.todo = todo /\ w.then = "end"
    BY <1>1, <1>4, <2>1 DEF Walker
  <2>4. Disciplined(p, r, w)
    BY <2>1, <2>3 DEF Disciplined
  <2> QED BY <1>7, <2>2, <2>3, <2>4
<1>11. CASE Finish(p, r, <<Append1("idempotency.replayed")>>,
                   "denied", "idempotency.unresolved")
  BY <1>1, <1>5, <1>11, FinishStep, HarmlessOps DEF Status, Active, Event
<1> QED BY <1>8, <1>9, <1>10, <1>11 DEF ClaimKey

\* A node other than a check begins only under the claim.
LEMMA BeginNodeStep ==
    ASSUME CInv, TypeOK', LedgerKept, NEW p \in Proc, NEW r \in RunIds, BeginNode(p, r)
    PROVE  ClaimDiscipline'
<1> DEFINE invokes == Node(p, r) = "invoke" /\ Invocable(live[p][r].plan)
           todo == IF Node(p, r) = "gap" THEN <<Append1("node.skipped")>>
                   ELSE IF invokes THEN Attempt ELSE << >>
           n == IF invokes THEN 1 ELSE 0
           w == [walk[p][r] EXCEPT !.n = n, !.todo = todo, !.then = "await"]
<1>1. /\ walk[p][r] # None /\ walk[p][r] \in Walker /\ walk[p][r].todo = << >>
      /\ UNCHANGED <<rev, log, live, minted>>
  BY DEF BeginNode, Enter, Ready, Bookkeeping, CInv, TInv, TypeOK
<1>2. todo \in Seq(Op) /\ n \in 0..10
  BY OpTypes DEF Event
<1>3. ~walk[p][r].claimed => todo = << >> /\ Node(p, r) \in Precheck
  BY DEF BeginNode, MustClaim, Precheck
<1>4. Become(p, r, w)
  BY DEF BeginNode
<1> HIDE DEF todo, n
<1>5. /\ w \in Walker /\ w.claimed = walk[p][r].claimed /\ w.todo = todo
      /\ w.i = walk[p][r].i
  BY <1>1, <1>2 DEF Walker
<1> HIDE DEF w
<1>6. Disciplined(p, r, w)
  BY <1>1, <1>3, <1>5, HarmlessOps, StaysDisciplined DEF Node, Nodes
<1> QED BY <1>1, <1>4, <1>5, <1>6, IdleWalkSaved, SameLiveKept, SameLogKept, QuietStep

LEMMA EndWalkStep ==
    ASSUME CInv, TypeOK', LedgerKept, NEW p \in Proc, NEW r \in RunIds, EndWalk(p, r)
    PROVE  ClaimDiscipline'
<1>1. /\ walk[p][r] # None /\ walk[p][r].todo = << >> /\ Become(p, r, None)
      /\ UNCHANGED <<rev, log, live, minted>>
  BY DEF EndWalk, Ready, Bookkeeping
<1> QED BY <1>1, IdleWalkSaved, SameLiveKept, SameLogKept, QuietStep

\* What an await resolves to leaves the claim as it is; only a claimed walk awaits
\* anything but a check.
LEMMA ResolutionStep ==
    ASSUME CInv, TypeOK', LedgerKept, NEW p \in Proc, NEW r \in RunIds, Resolution(p, r)
    PROVE  ClaimDiscipline'
<1>1. PICK w \in Walker : Shape(p, r, w)
  BY ResolutionShape DEF CInv
<1>2. /\ walk[p][r] # None /\ walk[p][r].todo = << >> /\ walk[p][r].then = "await"
      /\ UNCHANGED <<rev, log, minted>>
  BY <1>1 DEF Shape, Resolve, Awaiting, Bookkeeping
<1>3. LiveKept
  BY <1>1, <1>2, SameLiveKept, RecordedLiveKept DEF Shape, CInv
<1>4. ~walk[p][r].claimed => Node(p, r) \in Precheck
  BY <1>2 DEF UnclaimedHarmless, ClaimDiscipline, CInv
<1>5. Disciplined(p, r, w)
  BY <1>1, <1>2, <1>4, StaysDisciplined DEF Shape
<1> QED BY <1>1, <1>2, <1>3, <1>5, IdleWalkSaved, SameLogKept, QuietStep DEF Shape

-----------------------------------------------------------------------------
(* Store calls *)

LEMMA StoreStepWalker ==
    ASSUME CInv, LedgerKept, NEW p \in Proc, NEW r \in RunIds, NEW op, StoreStep(p, r, op)
    PROVE  /\ walk[p][r] # None /\ walk[p][r].todo # << >> /\ Head(walk[p][r].todo) = op
           /\ ~walk[p][r].claimed => op \in Harmless
           /\ live[p][r] \in RunRecord /\ live[p][r] # None
           /\ \E w \in Walker : /\ Become(p, r, w) /\ Disciplined(p, r, w)
                                /\ w.claimed = walk[p][r].claimed
<1> DEFINE w == [walk[p][r] EXCEPT !.todo = Tail(@)]
<1>1. /\ walk[p][r] # None /\ walk[p][r].todo # << >> /\ Head(walk[p][r].todo) = op
      /\ Become(p, r, w)
  BY DEF StoreStep, HasTodo
<1>2. walk[p][r] \in Walker /\ live[p][r] \in RunRecord /\ live[p][r] # None
  BY <1>1 DEF CInv, TInv, TypeOK, WalkHasRun
<1>3. Tail(walk[p][r].todo) \in Seq(Op)
  BY <1>1, <1>2, OpSeqs DEF Walker
<1>4. /\ w \in Walker /\ w.claimed = walk[p][r].claimed /\ w.i = walk[p][r].i
      /\ w.todo = Tail(walk[p][r].todo) /\ w.then = walk[p][r].then
  BY <1>2, <1>3 DEF Walker
<1> HIDE DEF w
<1>5. ~walk[p][r].claimed => /\ walk[p][r].todo \in Seq(Harmless)
                             /\ walk[p][r].then = "await" => Node(p, r) \in Precheck
  BY <1>1 DEF CInv, ClaimDiscipline, UnclaimedHarmless
<1>6. ~walk[p][r].claimed => /\ Tail(walk[p][r].todo) \in Seq(Harmless)
                             /\ op \in Harmless
  BY <1>1, <1>5, HarmlessOps
<1>7. Disciplined(p, r, w)
  BY <1>1, <1>4, <1>5, <1>6, StaysDisciplined DEF Node, Nodes
<1> QED BY <1>1, <1>2, <1>4, <1>6, <1>7

\* A run is saved before anything is appended to its log or done for it.
LEMMA NotSavedFirst ==
    ASSUME CInv, LedgerKept, NEW p \in Proc, NEW r \in RunIds, NEW op,
           StoreStep(p, r, op), op # Save("planned")
    PROVE  rev[StoreOf[p]][r] # None
<1>1. /\ walk[p][r] # None /\ Head(walk[p][r].todo) = op
      /\ live[p][r] # None
  BY StoreStepWalker
<1>2. Head(Transition("planned", "run.created")) = Save("planned")
  BY DEF Transition
<1> QED BY <1>1, <1>2 DEF CInv, ClaimDiscipline, SavedFirst

LEMMA CallProviderStep ==
    ASSUME CInv, TypeOK', LedgerKept, NEW p \in Proc, NEW r \in RunIds, CallProvider(p, r)
    PROVE  ClaimDiscipline'
<1>1. StoreStep(p, r, CallProvider1) /\ UNCHANGED <<rev, log, live, minted>>
  BY DEF CallProvider, StoreStep, Bookkeeping
<1>2. CallProvider1 # Save("planned")
  BY DEF CallProvider1, Save
<1>3. walk[p][r] # None /\ rev[StoreOf[p]][r] # None
  BY <1>1, <1>2, StoreStepWalker, NotSavedFirst
<1>4. PICK w \in Walker : Become(p, r, w) /\ Disciplined(p, r, w)
  BY <1>1, StoreStepWalker
<1> QED BY <1>1, <1>3, <1>4, SameLiveKept, SameLogKept, QuietStep

\* An attempt is announced only by a walk that holds the claim.
LEMMA AppendEventStep ==
    ASSUME CInv, TypeOK', LedgerKept, NEW p \in Proc, NEW r \in RunIds,
           NEW type \in Event, AppendEvent(p, r, type)
    PROVE  ClaimDiscipline'
<1> DEFINE s == StoreOf[p]
<1>1. /\ StoreStep(p, r, Append1(type)) /\ UNCHANGED <<rev, live, minted>>
      /\ log' = [log EXCEPT ![s][r] = Append(log[s][r], type)]
  BY DEF AppendEvent, StoreStep, Bookkeeping
<1>2. Append1(type) # Save("planned")
  BY DEF Append1, Save
<1>3. walk[p][r] # None /\ rev[s][r] # None /\ live[p][r] # None
  BY <1>1, <1>2, StoreStepWalker, NotSavedFirst
<1>4. PICK w \in Walker : Become(p, r, w) /\ Disciplined(p, r, w)
  BY <1>1, StoreStepWalker
<1>5. s \in Stores
  BY ProcAssumption DEF ProcAssumption
<1>6. type = "provider.attempt.started" => Owns(rev[s][r], r)
  <2> SUFFICES ASSUME type = "provider.attempt.started" PROVE Owns(rev[s][r], r)
    OBVIOUS
  <2>1. walk[p][r].claimed
    BY <1>1, StoreStepWalker DEF Harmless
  <2>2. Owns(live[p][r], r)
    BY <1>3, <2>1 DEF CInv, ClaimDiscipline, ClaimedOwns
  <2>3. rev[s][r].key = live[p][r].key /\ rev[s][r].input = live[p][r].input
    BY <1>3, <1>5 DEF CInv, ClaimDiscipline, CopiesAgree
  <2> QED BY <2>2, <2>3 DEF Owns
<1>7. LogKept
  <2> SUFFICES ASSUME NEW z \in Stores, NEW t \in RunIds,
                      Happened(z, t, "provider.attempt.started")',
                      ~Happened(z, t, "provider.attempt.started")
               PROVE  rev[z][t] # None /\ Owns(rev[z][t], t)
    BY DEF LogKept
  <2>1. log[s][r] \in Seq(Event)
    BY <1>5 DEF CInv, TInv, TypeOK
  <2>2. z = s /\ t = r
    BY <1>1, <1>5 DEF Happened, CInv, TInv, TypeOK
  <2>3. log'[s][r] = Append(log[s][r], type)
    BY <1>1, <1>5 DEF CInv, TInv, TypeOK
  <2>4. type = "provider.attempt.started"
    BY <2>1, <2>2, <2>3 DEF Happened
  <2> QED BY <1>3, <1>6, <2>2, <2>4
<1> QED BY <1>1, <1>3, <1>4, <1>7, SameLiveKept, QuietStep

\* A saved revision is a copy of the live run: of its key and input, and suspended only
\* under the claim.
LEMMA SaveRunStep ==
    ASSUME CInv, TypeOK', LedgerKept, NEW p \in Proc, NEW r \in RunIds,
           NEW status \in Status, SaveRun(p, r, status)
    PROVE  ClaimDiscipline'
<1> DEFINE s == StoreOf[p]
           x == [live[p][r] EXCEPT !.status = status]
<1>1. /\ StoreStep(p, r, Save(status)) /\ UNCHANGED <<log, minted>>
      /\ ledger' = ledger
      /\ live' = [live EXCEPT ![p][r] = x] /\ rev' = [rev EXCEPT ![s][r] = x]
  BY DEF SaveRun, StoreStep, Saved, Bookkeeping
<1>2. walk[p][r] # None /\ live[p][r] \in RunRecord /\ live[p][r] # None
  BY <1>1, StoreStepWalker
<1>3. /\ x \in RunRecord /\ x.key = live[p][r].key /\ x.input = live[p][r].input
      /\ x.plan = live[p][r].plan /\ x.status = status
  BY <1>2 DEF RunRecord
<1>4. x # None
  BY <1>3, NoneAssumption DEF NoneAssumption
<1> HIDE DEF x
<1>5. PICK w \in Walker : Become(p, r, w) /\ Disciplined(p, r, w)
  BY <1>1, StoreStepWalker
<1>6. /\ walk'[p][r] = w
      /\ \A q \in Proc, t \in RunIds : <<q, t>> # <<p, r>> => walk'[q][t] = walk[q][t]
  BY <1>5, BecomeType DEF CInv, TInv
<1>7. /\ live'[p][r] = x
      /\ \A q \in Proc, t \in RunIds : <<q, t>> # <<p, r>> => live'[q][t] = live[q][t]
  BY <1>1, <1>3, Update2 DEF CInv, TInv, TypeOK
<1>8. s \in Stores
  BY ProcAssumption DEF ProcAssumption
<1>9. /\ rev'[s][r] = x
      /\ \A z \in Stores, t \in RunIds : <<z, t>> # <<s, r>> => rev'[z][t] = rev[z][t]
  BY <1>1, <1>3, <1>8, Update2 DEF CInv, TInv, TypeOK
<1> HIDE DEF s
<1>10. status \in Active => Owns(x, r)
  <2>1. status \in Active => walk[p][r].claimed
    BY <1>1, StoreStepWalker DEF Harmless
  <2>2. walk[p][r].claimed => Owns(live[p][r], r)
    BY <1>2 DEF CInv, ClaimDiscipline, ClaimedOwns
  <2> QED BY <1>3, <2>1, <2>2 DEF Owns
<1>11. PICK k \in Keys \cup {None}, i \in Inputs \cup {None} :
         /\ \A q \in Proc : live[q][r] # None => live[q][r].key = k /\ live[q][r].input = i
         /\ \A z \in Stores : rev[z][r] # None => rev[z][r].key = k /\ rev[z][r].input = i
  BY DEF CInv, ClaimDiscipline, CopiesAgree
<1>12. x.key = k /\ x.input = i
  BY <1>2, <1>3, <1>11
<1>13. IdKnown'
  <2> SUFFICES ASSUME NEW q \in Proc, NEW t \in RunIds, live'[q][t] # None
               PROVE  t \in minted'[q] \/ rev'[StoreOf[q]][t] # None
    BY DEF IdKnown
  <2>1. StoreOf[q] \in Stores
    BY ProcAssumption DEF ProcAssumption
  <2>2. CASE <<q, t>> = <<p, r>>
    BY <2>2, <1>4, <1>9 DEF s
  <2>3. CASE <<q, t>> # <<p, r>>
    <3>1. t \in minted[q] \/ rev[StoreOf[q]][t] # None
      BY <2>3, <1>7 DEF IdKnown, CInv, ClaimDiscipline
    <3> QED BY <3>1, <2>1, <1>1, <1>4, <1>9
  <2> QED BY <2>2, <2>3
<1>14. CopiesAgree'
  <2> SUFFICES ASSUME NEW t \in RunIds
               PROVE  \E k2 \in Keys \cup {None}, i2 \in Inputs \cup {None} :
                 /\ \A q \in Proc : live'[q][t] # None => live'[q][t].key = k2 /\ live'[q][t].input = i2
                 /\ \A z \in Stores : rev'[z][t] # None => rev'[z][t].key = k2 /\ rev'[z][t].input = i2
    BY DEF CopiesAgree
  <2>1. CASE t = r
    BY <2>1, <1>7, <1>9, <1>11, <1>12
  <2>2. CASE t # r
    BY <2>2, <1>7, <1>9 DEF CInv, ClaimDiscipline, CopiesAgree
  <2> QED BY <2>1, <2>2
<1>15. SavedFirst'
  <2> SUFFICES ASSUME NEW q \in Proc, NEW t \in RunIds, live'[q][t] # None,
                      rev'[StoreOf[q]][t] = None
               PROVE  /\ walk'[q][t] # None /\ live'[q][t].status = "planned"
                      /\ walk'[q][t].todo = Transition("planned", "run.created")
    BY DEF SavedFirst, Transition, Save, Append1
  <2>1. StoreOf[q] \in Stores
    BY ProcAssumption DEF ProcAssumption
  <2>2. <<q, t>> # <<p, r>> /\ rev[StoreOf[q]][t] = None
    BY <2>1, <1>4, <1>9 DEF s
  <2> QED BY <2>2, <1>6, <1>7 DEF SavedFirst, CInv, ClaimDiscipline
<1>16. ClaimedOwns'
  <2> SUFFICES ASSUME NEW q \in Proc, NEW t \in RunIds, walk'[q][t] # None, walk'[q][t].claimed
               PROVE  Owns(live[q][t], t)'
    BY DEF ClaimedOwns
  <2>1. CASE <<q, t>> = <<p, r>>
    BY <2>1, <1>3, <1>5, <1>6, <1>7 DEF Disciplined, Owns
  <2>2. CASE <<q, t>> # <<p, r>>
    BY <2>2, <1>1, <1>6, <1>7 DEF ClaimedOwns, CInv, ClaimDiscipline, Owns
  <2> QED BY <2>1, <2>2
<1>17. UnclaimedHarmless'
  <2> SUFFICES ASSUME NEW q \in Proc, NEW t \in RunIds, walk'[q][t] # None, ~walk'[q][t].claimed
               PROVE  /\ walk'[q][t].todo \in Seq(Harmless)
                      /\ walk'[q][t].then = "await" => Node(q, t)' \in Precheck
    BY DEF UnclaimedHarmless, Harmless, Op, Append1, Save, CallProvider1, Active,
           Precheck
  <2>1. CASE <<q, t>> = <<p, r>>
    BY <2>1, <1>3, <1>5, <1>6, <1>7 DEF Disciplined, Node, Nodes
  <2>2. CASE <<q, t>> # <<p, r>>
    BY <2>2, <1>6, <1>7 DEF Node, Nodes, UnclaimedHarmless, CInv, ClaimDiscipline
  <2> QED BY <2>1, <2>2
<1>18. ActiveOwns'
  <2>1. ASSUME NEW t \in RunIds, NEW q \in Proc, live'[q][t] # None,
               live'[q][t].status \in Active
        PROVE  Owns(live[q][t], t)'
    <3>1. CASE <<q, t>> = <<p, r>>
      BY <3>1, <2>1, <1>1, <1>3, <1>7, <1>10 DEF Owns
    <3>2. CASE <<q, t>> # <<p, r>>
      BY <3>2, <2>1, <1>1, <1>7 DEF ActiveOwns, CInv, ClaimDiscipline, Owns
    <3> QED BY <3>1, <3>2
  <2>2. ASSUME NEW t \in RunIds, NEW z \in Stores, rev'[z][t] # None,
               rev'[z][t].status \in Active
        PROVE  Owns(rev[z][t], t)'
    <3>1. CASE <<z, t>> = <<s, r>>
      BY <3>1, <2>2, <1>1, <1>3, <1>9, <1>10 DEF Owns
    <3>2. CASE <<z, t>> # <<s, r>>
      BY <3>2, <2>2, <1>1, <1>9 DEF ActiveOwns, CInv, ClaimDiscipline, Owns
    <3> QED BY <3>1, <3>2
  <2> QED BY <2>1, <2>2 DEF ActiveOwns
<1>19. StartedOwns'
  <2> SUFFICES ASSUME NEW z \in Stores, NEW t \in RunIds,
                      Happened(z, t, "provider.attempt.started")'
               PROVE  rev'[z][t] # None /\ Owns(rev[z][t], t)'
    BY DEF StartedOwns
  <2>1. rev[z][t] # None /\ Owns(rev[z][t], t)
    BY <1>1 DEF Happened, StartedOwns, CInv, ClaimDiscipline
  <2>2. CASE <<z, t>> = <<s, r>>
    BY <2>1, <2>2, <1>1, <1>4, <1>8, <1>9, <1>11, <1>12 DEF Owns
  <2>3. CASE <<z, t>> # <<s, r>>
    BY <2>1, <2>3, <1>1, <1>9 DEF Owns
  <2> QED BY <2>2, <2>3
<1> QED BY <1>13, <1>14, <1>15, <1>16, <1>17, <1>18, <1>19 DEF ClaimDiscipline

-----------------------------------------------------------------------------
(* New runs, approvals, crashes *)

\* A step that moves no walk, copy, claim or event.
LEMMA IdleStep ==
    ASSUME ClaimDiscipline, UNCHANGED <<ledger, rev, log, live, walk, minted>>
    PROVE  ClaimDiscipline'
<1>1. IdKnown' /\ CopiesAgree' /\ SavedFirst'
  BY DEF ClaimDiscipline, IdKnown, CopiesAgree, SavedFirst, Transition, Save, Append1
<1>2. ClaimedOwns' /\ ActiveOwns'
  BY DEF ClaimDiscipline, ClaimedOwns, ActiveOwns, Owns
<1>3. UnclaimedHarmless'
  BY DEF ClaimDiscipline, UnclaimedHarmless, Harmless, Op, Append1, Save,
         CallProvider1, Active, Node, Nodes, Precheck
<1>4. StartedOwns'
  BY DEF ClaimDiscipline, StartedOwns, Happened, Owns
<1> QED BY <1>1, <1>2, <1>3, <1>4 DEF ClaimDiscipline

\* The id of a new run names no run yet, on disk or in the memory of a process.
LEMMA FreshIsNew ==
    ASSUME CInv, UniqueIds, NEW p \in Proc, NEW r \in RunIds, Fresh(p, r)
    PROVE  /\ \A s \in Stores : rev[s][r] = None
           /\ \A q \in Proc : live[q][r] = None
<1>1. /\ \A s \in Stores : rev[s][r] = None
      /\ \A q \in Proc : r \notin minted[q]
  BY DEF Fresh
<1> QED BY <1>1, ProcAssumption DEF CInv, ClaimDiscipline, IdKnown, ProcAssumption

LEMMA ExecuteNewStep ==
    ASSUME CInv, UniqueIds, LedgerKept,
           NEW c \in Callers, NEW p \in Proc, NEW k \in Keys, NEW i \in Inputs,
           NEW dry \in DryRun, NEW r \in RunIds, NEW plan \in Plans,
           ExecuteNew(c, p, k, i, dry, r, plan)
    PROVE  ClaimDiscipline'
<1> DEFINE x == [status |-> "planned", key |-> k, input |-> i, plan |-> plan, steps |-> << >>]
           w == [i |-> 1, n |-> 0, claimed |-> FALSE, dry |-> dry,
                 todo |-> Transition("planned", "run.created"),
                 then |-> "check", result |-> r]
<1>1. x \in RunRecord /\ x # None
  BY NewRun
<1>2. dry \in BOOLEAN /\ Transition("planned", "run.created") \in Seq(Harmless)
  BY FlagAssumption, HarmlessOps DEF FlagAssumption, Status, Active, Event
<1>3. Transition("planned", "run.created") \in Seq(Op)
  BY <1>2, HarmlessOps
<1>4. w \in Walker
  BY <1>2, <1>3 DEF Walker
<1>5. Become(p, r, w)
  BY DEF ExecuteNew
<1>6. w # None
  BY <1>4, NoneAssumption DEF NoneAssumption
<1>7. /\ walk'[p][r] = w
      /\ \A q \in Proc, t \in RunIds : <<q, t>> # <<p, r>> => walk'[q][t] = walk[q][t]
  BY <1>4, <1>5, BecomeType DEF CInv, TInv
<1>8. live' = [live EXCEPT ![p][r] = x]
  BY DEF ExecuteNew
<1>9. /\ live'[p][r] = x
      /\ \A q \in Proc, t \in RunIds : <<q, t>> # <<p, r>> => live'[q][t] = live[q][t]
  BY <1>1, <1>8, Update2 DEF CInv, TInv, TypeOK
<1>10. /\ UNCHANGED <<ledger, rev, log>>
       /\ minted' = [minted EXCEPT ![p] = @ \cup {r}]
  BY DEF ExecuteNew
<1>11. /\ \A s \in Stores : rev[s][r] = None
       /\ \A q \in Proc : live[q][r] = None
  BY FreshIsNew DEF ExecuteNew
<1>12. \A q \in Proc : StoreOf[q] \in Stores
  BY ProcAssumption DEF ProcAssumption
<1>13. IdKnown'
  <2> SUFFICES ASSUME NEW q \in Proc, NEW t \in RunIds, live'[q][t] # None
               PROVE  t \in minted'[q] \/ rev'[StoreOf[q]][t] # None
    BY DEF IdKnown
  <2>1. minted \in [Proc -> SUBSET RunIds]
    BY DEF CInv, TInv, TypeOK
  <2>2. minted[q] \subseteq minted'[q] /\ r \in minted'[p]
    BY <2>1, <1>10
  <2>3. CASE <<q, t>> = <<p, r>>
    BY <2>2, <2>3
  <2>4. CASE <<q, t>> # <<p, r>>
    BY <2>2, <2>4, <1>9, <1>10 DEF IdKnown, CInv, ClaimDiscipline
  <2> QED BY <2>3, <2>4
<1>14. CopiesAgree'
  <2> SUFFICES ASSUME NEW t \in RunIds
               PROVE  \E k2 \in Keys \cup {None}, i2 \in Inputs \cup {None} :
                 /\ \A q \in Proc : live'[q][t] # None => live'[q][t].key = k2 /\ live'[q][t].input = i2
                 /\ \A z \in Stores : rev'[z][t] # None => rev'[z][t].key = k2 /\ rev'[z][t].input = i2
    BY DEF CopiesAgree
  <2>1. CASE t = r
    BY <2>1, <1>9, <1>10, <1>11
  <2>2. CASE t # r
    <3>1. PICK k2 \in Keys \cup {None}, i2 \in Inputs \cup {None} :
             /\ \A q \in Proc : live[q][t] # None => live[q][t].key = k2 /\ live[q][t].input = i2
             /\ \A z \in Stores : rev[z][t] # None => rev[z][t].key = k2 /\ rev[z][t].input = i2
      BY DEF CInv, ClaimDiscipline, CopiesAgree
    <3>2. /\ \A q \in Proc : live'[q][t] = live[q][t]
          /\ rev' = rev
      BY <2>2, <1>9, <1>10
    <3> QED BY <3>1, <3>2
  <2> QED BY <2>1, <2>2
<1>15. SavedFirst'
  <2> SUFFICES ASSUME NEW q \in Proc, NEW t \in RunIds, live'[q][t] # None,
                      rev'[StoreOf[q]][t] = None
               PROVE  /\ walk'[q][t] # None /\ live'[q][t].status = "planned"
                      /\ walk'[q][t].todo = Transition("planned", "run.created")
    BY DEF SavedFirst, Transition, Save, Append1
  <2>1. CASE <<q, t>> = <<p, r>>
    BY <2>1, <1>6, <1>7, <1>9
  <2>2. CASE <<q, t>> # <<p, r>>
    BY <2>2, <1>7, <1>9, <1>10 DEF SavedFirst, CInv, ClaimDiscipline
  <2> QED BY <2>1, <2>2
<1>16. ClaimedOwns'
  <2> SUFFICES ASSUME NEW q \in Proc, NEW t \in RunIds, walk'[q][t] # None, walk'[q][t].claimed
               PROVE  Owns(live[q][t], t)'
    BY DEF ClaimedOwns
  <2>1. <<q, t>> # <<p, r>>
    BY <1>7
  <2> QED BY <2>1, <1>7, <1>9, <1>10 DEF ClaimedOwns, CInv, ClaimDiscipline, Owns
<1>17. UnclaimedHarmless'
  <2> SUFFICES ASSUME NEW q \in Proc, NEW t \in RunIds, walk'[q][t] # None, ~walk'[q][t].claimed
               PROVE  /\ walk'[q][t].todo \in Seq(Harmless)
                      /\ walk'[q][t].then = "await" => Node(q, t)' \in Precheck
    BY DEF UnclaimedHarmless, Harmless, Op, Append1, Save, CallProvider1, Active,
           Precheck
  <2>1. CASE <<q, t>> = <<p, r>>
    BY <2>1, <1>2, <1>7
  <2>2. CASE <<q, t>> # <<p, r>>
    <3>1. walk'[q][t] = walk[q][t] /\ live'[q][t] = live[q][t]
      BY <2>2, <1>7, <1>9
    <3> QED BY <3>1 DEF Node, Nodes, UnclaimedHarmless, CInv, ClaimDiscipline
  <2> QED BY <2>1, <2>2
<1>18. ActiveOwns'
  <2>1. ASSUME NEW t \in RunIds, NEW q \in Proc, live'[q][t] # None,
               live'[q][t].status \in Active
        PROVE  Owns(live[q][t], t)'
    <3>1. <<q, t>> # <<p, r>>
      BY <2>1, <1>9 DEF Active
    <3> QED BY <3>1, <2>1, <1>9, <1>10 DEF ActiveOwns, CInv, ClaimDiscipline, Owns
  <2>2. ASSUME NEW t \in RunIds, NEW z \in Stores, rev'[z][t] # None,
               rev'[z][t].status \in Active
        PROVE  Owns(rev[z][t], t)'
    BY <2>2, <1>10 DEF ActiveOwns, CInv, ClaimDiscipline, Owns
  <2> QED BY <2>1, <2>2 DEF ActiveOwns
<1>19. StartedOwns'
  BY <1>10 DEF StartedOwns, Happened, Owns, CInv, ClaimDiscipline
<1> QED BY <1>13, <1>14, <1>15, <1>16, <1>17, <1>18, <1>19 DEF ClaimDiscipline

\* approve() resumes under the claim the suspended walk took.
LEMMA ApproveStep ==
    ASSUME CInv, TInv', NEW p \in Proc, NEW r \in RunIds, Approve(p, r)
    PROVE  ClaimDiscipline'
<1> DEFINE run == Get(p, r)
           s == StoreOf[p]
<1>1. /\ run # None /\ run \in RunRecord /\ run.status = "awaiting_approval"
      /\ live' = [live EXCEPT ![p][r] = run]
      /\ UNCHANGED <<ledger, rev, log, minted>>
  BY GetType DEF Approve, Approvable, CInv, TInv
<1>2. PICK i \in Suspended(run.plan.nodes) :
         Become(p, r, [i |-> i + 1, n |-> 0, claimed |-> TRUE,
                       dry |-> FALSE, then |-> "enter", result |-> r,
                       todo |-> <<Append1("approval.granted")>>
                                  \o Transition("planned", "approval.accepted")])
  BY Zenon DEF Approve
<1> DEFINE w == [i |-> i + 1, n |-> 0, claimed |-> TRUE,
                 dry |-> FALSE, then |-> "enter", result |-> r,
                 todo |-> <<Append1("approval.granted")>>
                            \o Transition("planned", "approval.accepted")]
<1>3. walk' = [walk EXCEPT ![p][r] = w] /\ w.claimed
  BY <1>2 DEF Become
<1> HIDE DEF w
<1>4. /\ walk'[p][r] = w
      /\ \A q \in Proc, t \in RunIds : <<q, t>> # <<p, r>> => walk'[q][t] = walk[q][t]
  BY <1>3 DEF CInv, TInv, TypeOK
<1>5. s \in Stores
  BY ProcAssumption DEF ProcAssumption
<1>6. run = live[p][r] \/ (live[p][r] = None /\ run = rev[s][r])
  BY DEF Get
<1> HIDE DEF run, s
<1>7. /\ live'[p][r] = run
      /\ \A q \in Proc, t \in RunIds : <<q, t>> # <<p, r>> => live'[q][t] = live[q][t]
  BY <1>1, Update2 DEF CInv, TInv, TypeOK
<1>8. Owns(run, r)
  BY <1>1, <1>5, <1>6 DEF CInv, ClaimDiscipline, ActiveOwns, Active
<1>9. rev[s][r] # None
  <2>1. CASE run = live[p][r]
    BY <1>1, <2>1 DEF s, SavedFirst, CInv, ClaimDiscipline
  <2>2. CASE run = rev[s][r]
    BY <1>1, <2>2
  <2> QED BY <1>6, <2>1, <2>2
<1>10. IdKnown'
  <2> SUFFICES ASSUME NEW q \in Proc, NEW t \in RunIds, live'[q][t] # None
               PROVE  t \in minted'[q] \/ rev'[StoreOf[q]][t] # None
    BY DEF IdKnown
  <2>1. CASE <<q, t>> = <<p, r>>
    BY <2>1, <1>1, <1>9 DEF s
  <2>2. CASE <<q, t>> # <<p, r>>
    BY <2>2, <1>1, <1>7 DEF IdKnown, CInv, ClaimDiscipline
  <2> QED BY <2>1, <2>2
<1>11. CopiesAgree'
  <2> SUFFICES ASSUME NEW t \in RunIds
               PROVE  \E k \in Keys \cup {None}, i2 \in Inputs \cup {None} :
                 /\ \A q \in Proc : live'[q][t] # None => live'[q][t].key = k /\ live'[q][t].input = i2
                 /\ \A z \in Stores : rev'[z][t] # None => rev'[z][t].key = k /\ rev'[z][t].input = i2
    BY DEF CopiesAgree
  <2>1. PICK k \in Keys \cup {None}, i2 \in Inputs \cup {None} :
          /\ \A q \in Proc : live[q][t] # None => live[q][t].key = k /\ live[q][t].input = i2
          /\ \A z \in Stores : rev[z][t] # None => rev[z][t].key = k /\ rev[z][t].input = i2
    BY DEF CInv, ClaimDiscipline, CopiesAgree
  <2>2. CASE t = r
    <3>1. run.key = k /\ run.input = i2
      BY <2>1, <2>2, <1>1, <1>5, <1>6
    <3>2. ASSUME NEW q \in Proc, live'[q][r] # None
          PROVE  live'[q][r].key = k /\ live'[q][r].input = i2
      BY <2>1, <2>2, <3>1, <3>2, <1>7
    <3> QED BY <2>1, <2>2, <3>2, <1>1
  <2>3. CASE t # r
    BY <2>1, <2>3, <1>1, <1>7
  <2> QED BY <2>2, <2>3
<1>12. SavedFirst'
  <2> SUFFICES ASSUME NEW q \in Proc, NEW t \in RunIds, live'[q][t] # None,
                      rev'[StoreOf[q]][t] = None
               PROVE  /\ walk'[q][t] # None /\ live'[q][t].status = "planned"
                      /\ walk'[q][t].todo = Transition("planned", "run.created")
    BY DEF SavedFirst, Transition, Save, Append1
  <2>1. <<q, t>> # <<p, r>>
    BY <1>1, <1>9 DEF s
  <2> QED BY <2>1, <1>1, <1>4, <1>7 DEF SavedFirst, CInv, ClaimDiscipline
<1>13. ClaimedOwns'
  <2> SUFFICES ASSUME NEW q \in Proc, NEW t \in RunIds, walk'[q][t] # None, walk'[q][t].claimed
               PROVE  Owns(live[q][t], t)'
    BY DEF ClaimedOwns
  <2>1. CASE <<q, t>> = <<p, r>>
    BY <2>1, <1>1, <1>7, <1>8 DEF Owns
  <2>2. CASE <<q, t>> # <<p, r>>
    BY <2>2, <1>1, <1>4, <1>7 DEF ClaimedOwns, CInv, ClaimDiscipline, Owns
  <2> QED BY <2>1, <2>2
<1>14. UnclaimedHarmless'
  <2> SUFFICES ASSUME NEW q \in Proc, NEW t \in RunIds, walk'[q][t] # None, ~walk'[q][t].claimed
               PROVE  /\ walk'[q][t].todo \in Seq(Harmless)
                      /\ walk'[q][t].then = "await" => Node(q, t)' \in Precheck
    BY DEF UnclaimedHarmless, Harmless, Op, Append1, Save, CallProvider1, Active,
           Precheck
  <2>1. <<q, t>> # <<p, r>>
    BY <1>3, <1>4
  <2>2. walk'[q][t] = walk[q][t] /\ live'[q][t] = live[q][t]
    BY <2>1, <1>4, <1>7
  <2> QED BY <2>2 DEF Node, Nodes, UnclaimedHarmless, CInv, ClaimDiscipline
<1>15. ActiveOwns'
  <2>1. ASSUME NEW t \in RunIds, NEW q \in Proc, live'[q][t] # None,
               live'[q][t].status \in Active
        PROVE  Owns(live[q][t], t)'
    <3>1. CASE <<q, t>> = <<p, r>>
      BY <3>1, <1>1, <1>7, <1>8 DEF Owns
    <3>2. CASE <<q, t>> # <<p, r>>
      BY <3>2, <2>1, <1>1, <1>7 DEF ActiveOwns, CInv, ClaimDiscipline, Owns
    <3> QED BY <3>1, <3>2
  <2>2. ASSUME NEW t \in RunIds, NEW z \in Stores, rev'[z][t] # None,
               rev'[z][t].status \in Active
        PROVE  Owns(rev[z][t], t)'
    BY <2>2, <1>1 DEF ActiveOwns, CInv, ClaimDiscipline, Owns
  <2> QED BY <2>1, <2>2 DEF ActiveOwns
<1>16. StartedOwns'
  BY <1>1 DEF StartedOwns, Happened, Owns, CInv, ClaimDiscipline
<1> QED BY <1>10, <1>11, <1>12, <1>13, <1>14, <1>15, <1>16 DEF ClaimDiscipline

\* A crash forgets; what is left on disk owns what it owned.
LEMMA CrashStep ==
    ASSUME CInv, NEW p \in Proc, Crash(p)
    PROVE  ClaimDiscipline'
<1>1. UNCHANGED <<ledger, rev, log>>
  BY DEF Crash
<1>2. ASSUME NEW q \in Proc, NEW t \in RunIds
      PROVE  IF q = p THEN walk'[q][t] = None /\ live'[q][t] = None
             ELSE walk'[q][t] = walk[q][t] /\ live'[q][t] = live[q][t]
  BY DEF Crash, CInv, TInv, TypeOK
<1>3. ASSUME NEW q \in Proc, q # p PROVE minted'[q] = minted[q]
  BY <1>3 DEF Crash, CInv, TInv, TypeOK
<1>4. IdKnown'
  BY <1>1, <1>2, <1>3 DEF IdKnown, CInv, ClaimDiscipline
<1>5. CopiesAgree'
  <2> SUFFICES ASSUME NEW t \in RunIds
               PROVE  \E k \in Keys \cup {None}, i \in Inputs \cup {None} :
                 /\ \A q \in Proc : live'[q][t] # None => live'[q][t].key = k /\ live'[q][t].input = i
                 /\ \A z \in Stores : rev'[z][t] # None => rev'[z][t].key = k /\ rev'[z][t].input = i
    BY DEF CopiesAgree
  <2>1. PICK k \in Keys \cup {None}, i \in Inputs \cup {None} :
          /\ \A q \in Proc : live[q][t] # None => live[q][t].key = k /\ live[q][t].input = i
          /\ \A z \in Stores : rev[z][t] # None => rev[z][t].key = k /\ rev[z][t].input = i
    BY DEF CInv, ClaimDiscipline, CopiesAgree
  <2> QED BY <2>1, <1>1, <1>2
<1>6. SavedFirst'
  BY <1>1, <1>2 DEF SavedFirst, CInv, ClaimDiscipline, Transition, Save, Append1
<1>7. ClaimedOwns' /\ ActiveOwns'
  <2>1. ASSUME NEW q \in Proc, NEW t \in RunIds, walk'[q][t] # None, walk'[q][t].claimed
        PROVE  Owns(live[q][t], t)'
    BY <2>1, <1>1, <1>2 DEF ClaimedOwns, Owns, CInv, ClaimDiscipline
  <2>2. ASSUME NEW t \in RunIds, NEW q \in Proc, live'[q][t] # None,
               live'[q][t].status \in Active
        PROVE  Owns(live[q][t], t)'
    BY <2>2, <1>1, <1>2 DEF ActiveOwns, Owns, CInv, ClaimDiscipline
  <2>3. ASSUME NEW t \in RunIds, NEW z \in Stores, rev'[z][t] # None,
               rev'[z][t].status \in Active
        PROVE  Owns(rev[z][t], t)'
    BY <2>3, <1>1 DEF ActiveOwns, Owns, CInv, ClaimDiscipline
  <2> QED BY <2>1, <2>2, <2>3 DEF ClaimedOwns, ActiveOwns
<1>8. UnclaimedHarmless'
  <2> SUFFICES ASSUME NEW q \in Proc, NEW t \in RunIds, walk'[q][t] # None, ~walk'[q][t].claimed
               PROVE  /\ walk'[q][t].todo \in Seq(Harmless)
                      /\ walk'[q][t].then = "await" => Node(q, t)' \in Precheck
    BY DEF UnclaimedHarmless, Harmless, Op, Append1, Save, CallProvider1, Active,
           Precheck
  <2>1. walk'[q][t] = walk[q][t] /\ live'[q][t] = live[q][t]
    BY <1>2
  <2> QED BY <2>1 DEF Node, Nodes, UnclaimedHarmless, CInv, ClaimDiscipline
<1>9. StartedOwns'
  BY <1>1 DEF StartedOwns, Happened, Owns, CInv, ClaimDiscipline
<1> QED BY <1>4, <1>5, <1>6, <1>7, <1>8, <1>9 DEF ClaimDiscipline

LEMMA InitDiscipline == Init => ClaimDiscipline
<1> SUFFICES ASSUME Init PROVE ClaimDiscipline
  OBVIOUS
<1>1. \A p \in Proc : StoreOf[p] \in Stores
  BY ProcAssumption DEF ProcAssumption
<1>2. \A p \in Proc, r \in RunIds : live[p][r] = None /\ walk[p][r] = None
  BY DEF Init
<1>3. \A s \in Stores, r \in RunIds :
         rev[s][r] = None /\ ~Happened(s, r, "provider.attempt.started")
  BY DEF Init, Happened
<1>4. CopiesAgree
  BY <1>2, <1>3 DEF CopiesAgree
<1> QED BY <1>1, <1>2, <1>3, <1>4 DEF ClaimDiscipline, IdKnown, SavedFirst, ClaimedOwns,
         UnclaimedHarmless, ActiveOwns, StartedOwns

LEMMA NextDiscipline ==
    ASSUME CInv, UniqueIds, [Next]_vars
    PROVE  CInv'
<1>1. TInv' /\ TypeOK' /\ LedgerKept
  BY NextTInv, NextLedgerKept DEF CInv, TInv
<1>2. ASSUME NEW c \in Callers, NEW p \in Proc, Execute(c, p) PROVE ClaimDiscipline'
  <2>1. ASSUME NEW k \in Keys, NEW i \in Inputs,
               ExecuteKnown(c, p, k, i) \/ ExecuteShared(c, p, k, i)
        PROVE  ClaimDiscipline'
    <3>1. UNCHANGED <<ledger, rev, log, live, walk, minted>>
      BY <2>1 DEF ExecuteKnown, ExecuteShared
    <3> QED BY <3>1, IdleStep DEF CInv
  <2> QED BY <1>1, <1>2, <2>1, ExecuteNewStep DEF Execute
<1>3. ASSUME NEW p \in Proc, NEW r \in RunIds, Segment(p, r) PROVE ClaimDiscipline'
  <2>1. CASE StoreCall(p, r)
    BY <1>1, <2>1, SaveRunStep, AppendEventStep, CallProviderStep DEF StoreCall
  <2>2. CASE \/ AcceptRequest(p, r) \/ RefuseRequest(p, r)
             \/ EndOfPlan(p, r) \/ StopDryRun(p, r)
    BY <1>1, <2>2, LoopHeadStep
  <2>3. CASE ClaimKey(p, r) \/ BeginNode(p, r) \/ EndWalk(p, r)
    BY <1>1, <2>3, ClaimKeyStep, BeginNodeStep, EndWalkStep
  <2> QED BY <1>3, <2>1, <2>2, <2>3 DEF Segment
<1>4. ASSUME NEW p \in Proc, NEW r \in RunIds, Resolution(p, r) \/ Approve(p, r)
      PROVE  ClaimDiscipline'
  BY <1>1, <1>4, ResolutionStep, ApproveStep
<1>5. ASSUME NEW p \in Proc, Crash(p) PROVE ClaimDiscipline'
  BY <1>5, CrashStep
<1>6. ASSUME UNCHANGED vars PROVE ClaimDiscipline'
  <2>1. UNCHANGED <<ledger, rev, log, live, walk, minted>>
    BY <1>6 DEF vars
  <2>2. ClaimDiscipline
    BY DEF CInv
  <2> QED BY <2>1, <2>2, IdleStep
<1>7. ASSUME Next PROVE ClaimDiscipline'
  BY <1>2, <1>3, <1>4, <1>5, <1>7 DEF Next
<1>8. ClaimDiscipline'
  BY <1>6, <1>7
<1> QED BY <1>1, <1>8 DEF CInv

\* As long as run ids do not repeat, whoever may cause an effect owns its key: every
\* claimed walk, every active run and every started attempt, over any number of
\* processes and stores, through approvals and crashes (claimFor, walk, approve).
THEOREM DisciplineHolds == UniqueIds => (Spec => []ClaimDiscipline)
<1> SUFFICES ASSUME UniqueIds PROVE Spec => []ClaimDiscipline
  OBVIOUS
<1>1. Init => CInv
  BY InitTInv, InitDiscipline DEF CInv
<1>2. CInv /\ [Next]_vars => CInv'
  BY NextDiscipline
<1> QED BY <1>1, <1>2, PTL DEF Spec, CInv

\* The ledger claim comes before the provider call, in every log of every store.
THEOREM ClaimFirst == UniqueIds => (Spec => []ClaimPrecedesEffect)
<1>1. ClaimDiscipline => ClaimPrecedesEffect
  BY DEF ClaimDiscipline, StartedOwns, ClaimPrecedesEffect
<1> QED BY <1>1, DisciplineHolds, PTL
-----------------------------------------------------------------------------
(* Queues of store operations *)

Started == Append1("provider.attempt.started")
Rest    == Save("awaiting_approval")

In(op, s)   == \E j \in 1..Len(s) : s[j] = op
OneSave(s)  == \A j, m \in 1..Len(s) : s[j].op = "save" /\ s[m].op = "save" => j = m
NoSave(s)   == \A op : In(op, s) => op.op # "save"
CallLast(s) == \A j \in 1..Len(s) : s[j] = CallProvider1 => j = Len(s)

\* A queue with one save at most, and a call of the provider only as its last entry.
Orderly(s) == OneSave(s) /\ CallLast(s)

LEMMA OpsDiffer ==
    /\ \A st, ty : Save(st) # Append1(ty)
    /\ \A st : Save(st) # CallProvider1 /\ Save(st).op = "save"
    /\ \A ty : Append1(ty) # CallProvider1 /\ Append1(ty).op # "save"
    /\ \A a, b : Save(a) = Save(b) => a = b
    /\ \A a, b : Append1(a) = Append1(b) => a = b
    /\ CallProvider1.op # "save"
  BY DEF Save, Append1, CallProvider1

\* What the sequences the actions build contain.
LEMMA InEmpty == \A op : ~In(op, << >>)
  BY DEF In

LEMMA InOne == ASSUME NEW op, NEW a PROVE In(op, <<a>>) <=> op = a
  BY DEF In

LEMMA InTwo ==
    ASSUME NEW op, NEW a, NEW b PROVE In(op, <<a, b>>) <=> op \in {a, b}
<1>1. In(op, <<a, b>>) => op \in {a, b}
  BY DEF In
<1>2. ASSUME op = a PROVE In(op, <<a, b>>)
  BY <1>2 DEF In
<1>3. ASSUME op = b PROVE In(op, <<a, b>>)
  BY <1>3 DEF In
<1> QED BY <1>1, <1>2, <1>3

LEMMA InConcat ==
    ASSUME NEW op, NEW s \in Seq(Op), NEW t \in Seq(Op)
    PROVE  In(op, s \o t) <=> In(op, s) \/ In(op, t)
<1>1. ASSUME NEW j \in 1..Len(s \o t), (s \o t)[j] = op PROVE In(op, s) \/ In(op, t)
  <2>1. CASE j <= Len(s)
    BY <1>1, <2>1 DEF In
  <2>2. CASE j > Len(s)
    <3>1. t[j - Len(s)] = op /\ j - Len(s) \in 1..Len(t)
      BY <1>1, <2>2
    <3> QED BY <3>1 DEF In
  <2> QED BY <2>1, <2>2
<1>2. ASSUME NEW j \in 1..Len(s), s[j] = op PROVE In(op, s \o t)
  <2>1. (s \o t)[j] = op /\ j \in 1..Len(s \o t)
    BY <1>2
  <2> QED BY <2>1 DEF In
<1>3. ASSUME NEW j \in 1..Len(t), t[j] = op PROVE In(op, s \o t)
  <2>1. (s \o t)[j + Len(s)] = op /\ j + Len(s) \in 1..Len(s \o t)
    BY <1>3
  <2> QED BY <2>1 DEF In
<1> QED BY <1>1, <1>2, <1>3 DEF In

\* The head of a queue and what remains behind it.
LEMMA InTail ==
    ASSUME NEW s \in Seq(Op), s # << >>
    PROVE  /\ \A op : In(op, s) <=> op = Head(s) \/ In(op, Tail(s))
           /\ Orderly(s) => Orderly(Tail(s))
           /\ OneSave(s) /\ Head(s).op = "save" => NoSave(Tail(s))
           /\ CallLast(s) /\ Head(s) = CallProvider1 => Tail(s) = << >>
<1>1. /\ Len(Tail(s)) = Len(s) - 1 /\ Head(s) = s[1] /\ Len(s) >= 1
      /\ \A j \in 1..Len(Tail(s)) : Tail(s)[j] = s[j + 1] /\ j + 1 \in 1..Len(s)
      /\ Len(s) \in Nat /\ Len(Tail(s)) \in Nat
  OBVIOUS
<1>2. ASSUME NEW op, In(op, s) PROVE op = Head(s) \/ In(op, Tail(s))
  <2>1. PICK j \in 1..Len(s) : s[j] = op
    BY <1>2 DEF In
  <2>2. CASE j = 1
    BY <1>1, <2>1, <2>2
  <2>3. CASE j > 1
    <3>1. j - 1 \in 1..Len(Tail(s)) /\ Tail(s)[j - 1] = op
      BY <1>1, <2>1, <2>3
    <3> QED BY <3>1 DEF In
  <2> QED BY <2>1, <2>2, <2>3
<1>3. ASSUME NEW op, op = Head(s) \/ In(op, Tail(s)) PROVE In(op, s)
  <2>1. CASE op = Head(s)
    BY <1>1, <2>1 DEF In
  <2>2. CASE In(op, Tail(s))
    <3>1. PICK j \in 1..Len(Tail(s)) : Tail(s)[j] = op
      BY <2>2 DEF In
    <3>2. s[j + 1] = op /\ j + 1 \in 1..Len(s)
      BY <1>1, <3>1
    <3> QED BY <3>2 DEF In
  <2> QED BY <1>3, <2>1, <2>2
<1>4. OneSave(s) => OneSave(Tail(s))
  BY <1>1 DEF OneSave
<1>5. ASSUME CallLast(s) PROVE CallLast(Tail(s))
  <2> SUFFICES ASSUME NEW j \in 1..Len(Tail(s)), Tail(s)[j] = CallProvider1
               PROVE  j = Len(Tail(s))
    BY DEF CallLast
  <2>1. s[j + 1] = CallProvider1 /\ j + 1 \in 1..Len(s)
    BY <1>1
  <2>2. j + 1 = Len(s)
    BY <1>1, <1>5, <2>1 DEF CallLast
  <2>3. j \in Nat /\ Len(s) \in Nat /\ Len(Tail(s)) = Len(s) - 1
    BY <1>1
  <2> QED BY <2>2, <2>3
<1>6. ASSUME OneSave(s), Head(s).op = "save" PROVE NoSave(Tail(s))
  <2>1. ASSUME NEW j \in 1..Len(Tail(s)) PROVE Tail(s)[j].op # "save"
    <3>1. s[1].op = "save" /\ 1 \in 1..Len(s) /\ j + 1 \in 1..Len(s) /\ j + 1 # 1
      BY <1>1, <1>6
    <3>2. s[j + 1].op # "save"
      BY <1>6, <3>1 DEF OneSave
    <3> QED BY <1>1, <3>2
  <2> QED BY <2>1 DEF NoSave, In
<1>7. ASSUME CallLast(s), Head(s) = CallProvider1 PROVE Tail(s) = << >>
  <2>1. s[1] = CallProvider1 /\ 1 \in 1..Len(s)
    BY <1>1, <1>7
  <2>2. Len(s) = 1
    BY <1>1, <1>7, <2>1 DEF CallLast
  <2>3. Tail(s) \in Seq(Op) /\ Len(Tail(s)) = 0
    BY <1>1, <2>2
  <2>4. \A t \in Seq(Op) : Len(t) = 0 => t = << >>
    OBVIOUS
  <2> QED BY <2>3, <2>4
<1> QED BY <1>2, <1>3, <1>4, <1>5, <1>6, <1>7 DEF Orderly

\* The queues the actions build are orderly, and hold what they name.
LEMMA OrderlyEvent ==
    ASSUME NEW s \in Seq(Op), Orderly(s), NEW e \in Event
    PROVE  Orderly(<<Append1(e)>> \o s)
<1> DEFINE t == <<Append1(e)>> \o s
<1>1. t[1] = Append1(e) /\ Len(t) = Len(s) + 1 /\ Len(s) \in Nat
  OBVIOUS
<1>2. \A j \in 1..Len(t) : j # 1 => j - 1 \in 1..Len(s) /\ t[j] = s[j - 1]
  OBVIOUS
<1>3. t[1].op # "save" /\ t[1] # CallProvider1
  BY <1>1, OpsDiffer
<1> HIDE DEF t
<1>4. OneSave(t)
  <2> SUFFICES ASSUME NEW j \in 1..Len(t), NEW m \in 1..Len(t),
                      t[j].op = "save", t[m].op = "save"
               PROVE  j = m
    BY DEF OneSave
  <2>1. j # 1 /\ m # 1
    BY <1>3
  <2>2. s[j - 1].op = "save" /\ s[m - 1].op = "save"
    BY <1>2, <2>1
  <2>3. j - 1 = m - 1
    BY <1>2, <2>1, <2>2 DEF Orderly, OneSave
  <2>4. j \in Nat /\ m \in Nat
    BY <1>1
  <2> QED BY <2>1, <2>3, <2>4
<1>5. CallLast(t)
  <2> SUFFICES ASSUME NEW j \in 1..Len(t), t[j] = CallProvider1 PROVE j = Len(t)
    BY DEF CallLast
  <2>1. j # 1
    BY <1>3
  <2>2. s[j - 1] = CallProvider1 /\ j - 1 \in 1..Len(s)
    BY <1>2, <2>1
  <2>3. j - 1 = Len(s)
    BY <2>2 DEF Orderly, CallLast
  <2>4. j \in Nat
    BY <1>1
  <2> QED BY <1>1, <2>1, <2>3, <2>4
<1> QED BY <1>4, <1>5 DEF Orderly, t

LEMMA OrderlyQueues ==
    /\ Orderly(<< >>)
    /\ \A e \in Event : Orderly(<<Append1(e)>>)
    /\ \A st \in Status, ty \in Event : Orderly(Transition(st, ty))
    /\ Orderly(Attempt)
<1>1. Orderly(<< >>)
  BY DEF Orderly, OneSave, CallLast
<1>2. ASSUME NEW e \in Event PROVE Orderly(<<Append1(e)>>)
  BY DEF Orderly, OneSave, CallLast
<1>3. ASSUME NEW st \in Status, NEW ty \in Event PROVE Orderly(Transition(st, ty))
  <2>1. Transition(st, ty) = <<Save(st), Append1(ty)>>
    BY DEF Transition
  <2>2. Append1(ty).op # "save" /\ Append1(ty) # CallProvider1 /\ Save(st) # CallProvider1
    BY OpsDiffer
  <2> QED BY <2>1, <2>2 DEF Orderly, OneSave, CallLast
<1>4. Orderly(Attempt)
  <2> DEFINE t == <<Save("running"), Started>>
             u == t \o <<CallProvider1>>
  <2>1. /\ Started.op # "save" /\ Started # CallProvider1 /\ Save("running") # CallProvider1
        /\ CallProvider1.op # "save"
    BY OpsDiffer DEF Started
  <2>2. /\ Len(u) = 3 /\ u[1] = Save("running") /\ u[2] = Started
        /\ u[3] = CallProvider1
    OBVIOUS
  <2>3. Attempt = u
    BY DEF Attempt, Transition, Started
  <2> HIDE DEF u
  <2>4. \A j \in 1..Len(u) : j = 1 \/ j = 2 \/ j = 3
    BY <2>2
  <2>5. OneSave(u)
    BY <2>1, <2>2, <2>4 DEF OneSave
  <2>6. CallLast(u)
    BY <2>1, <2>2, <2>4 DEF CallLast
  <2> QED BY <2>3, <2>5, <2>6 DEF Orderly
<1> QED BY <1>1, <1>2, <1>3, <1>4

LEMMA InQueues ==
    /\ \A op : \A st, ty : In(op, Transition(st, ty)) <=> op \in {Save(st), Append1(ty)}
    /\ \A op : In(op, Attempt) <=> op \in {Save("running"), Started, CallProvider1}
<1>1. ASSUME NEW op, NEW st, NEW ty
      PROVE  In(op, Transition(st, ty)) <=> op \in {Save(st), Append1(ty)}
  BY InTwo DEF Transition
<1>2. ASSUME NEW op
      PROVE  In(op, Attempt) <=> op \in {Save("running"), Started, CallProvider1}
  <2>1. Transition("running", "provider.attempt.started") \in Seq(Op)
    BY OpTypes DEF Status, Event
  <2>2. <<CallProvider1>> \in Seq(Op)
    BY DEF Op, CallProvider1
  <2>3. In(op, Attempt) <=> \/ In(op, Transition("running", "provider.attempt.started"))
                            \/ In(op, <<CallProvider1>>)
    BY <2>1, <2>2, InConcat DEF Attempt
  <2>4. In(op, <<CallProvider1>>) <=> op = CallProvider1
    BY InOne
  <2> QED BY <1>1, <2>3, <2>4 DEF Started
<1> QED BY <1>1, <1>2

-----------------------------------------------------------------------------
(* What a step does *)

\* The walk of one run moves from v to w while its run object goes from x to y: an
\* accepted or claimed request, a node begun, passed, attempted again, or the end.
Opened(v, w, x, y) ==
    /\ v.then \in {"check", "enter"} /\ w.then = "enter"
    /\ w.i = v.i /\ w.todo = << >> /\ y = x

Begun(v, w, x, y) ==
    /\ v.then = "enter" /\ w.then = "await" /\ w.i = v.i /\ y = x
    /\ w.i <= Len(x.plan.nodes)
    /\ In(Started, w.todo) \/ In(CallProvider1, w.todo) =>
          w.n = 1 /\ x.plan.nodes[w.i] = "invoke"
    /\ \A st : In(Save(st), w.todo) => st = "running"

Passed(v, w, x, y) ==
    /\ v.then = "await" /\ w.then = "enter" /\ w.i = v.i + 1
    /\ y.steps = Append(x.steps, v.i)
    /\ NoSave(w.todo) /\ ~In(Started, w.todo) /\ ~In(CallProvider1, w.todo)
    /\ x.plan.nodes[v.i] # "approval"
    /\ x.plan.nodes[v.i] = "authorize" => In(Append1("authorization.allowed"), w.todo)
    /\ x.plan.nodes[v.i] = "policy" => In(Append1("policy.decided"), w.todo)

Retried(v, w, x, y) ==
    /\ v.then = "await" /\ w.then = "await" /\ w.i = v.i /\ w.n >= 2 /\ y = x
    /\ x.plan.nodes[v.i] = "invoke"
    /\ \A st : In(Save(st), w.todo) => st = "running"

Ended(v, w, x, y) ==
    /\ v.then # "end" /\ w.then = "end" /\ w.i = v.i
    /\ y.steps = IF v.then = "await" THEN Append(x.steps, v.i) ELSE x.steps
    /\ ~In(Started, w.todo) /\ ~In(CallProvider1, w.todo)
    /\ In(Rest, w.todo) => v.then = "await" /\ x.plan.nodes[v.i] = "approval"

Advance(v, w, x, y) ==
    /\ v \in Walker /\ w \in Walker /\ x \in RunRecord /\ y \in RunRecord
    /\ y.key = x.key /\ y.input = x.input /\ y.plan = x.plan /\ y.status = x.status
    /\ v.todo = << >> /\ Orderly(w.todo)
    /\ \/ Opened(v, w, x, y) \/ Begun(v, w, x, y) \/ Passed(v, w, x, y)
       \/ Retried(v, w, x, y) \/ Ended(v, w, x, y)

OtherWalks(p, r) ==
    \A q \in Proc, t \in RunIds : <<q, t>> # <<p, r>> => walk'[q][t] = walk[q][t]
OtherRuns(p, r) ==
    \A q \in Proc, t \in RunIds : <<q, t>> # <<p, r>> => live'[q][t] = live[q][t]

\* The loop of p is inside r until a walk of r has nothing left to do.
Runs(p, r) == /\ \A q \in Proc : q # p => cpu'[q] = cpu[q]
              /\ cpu'[p] = r \/ walk'[p][r].todo = << >>

\* A step between two store calls.
Moves(p, r) ==
    /\ walk[p][r] # None /\ live[p][r] # None /\ live'[p][r] # None
    /\ Advance(walk[p][r], walk'[p][r], live[p][r], live'[p][r])
    /\ OtherWalks(p, r) /\ OtherRuns(p, r) /\ UNCHANGED <<rev, log, effects>>
    /\ cpu[p] \in {None, r} /\ Runs(p, r)

\* A store call, the head of the queue.
Performed(v, w) ==
    /\ v \in Walker /\ w \in Walker /\ v.todo # << >> /\ w.todo = Tail(v.todo)
    /\ w.i = v.i /\ w.n = v.n /\ w.then = v.then /\ w.claimed = v.claimed
    /\ w.result = v.result

Performs(p, r, op) ==
    /\ walk[p][r] # None /\ live[p][r] # None /\ live[p][r] \in RunRecord
    /\ Performed(walk[p][r], walk'[p][r]) /\ Head(walk[p][r].todo) = op
    /\ OtherWalks(p, r) /\ cpu[p] = r /\ Runs(p, r)

Saves(p, r, st) ==
    /\ Performs(p, r, Save(st)) /\ OtherRuns(p, r) /\ UNCHANGED <<log, effects>>
    /\ live'[p][r] = [live[p][r] EXCEPT !.status = st]
    /\ rev'[StoreOf[p]][r] = [live[p][r] EXCEPT !.status = st]
    /\ \A s \in Stores, t \in RunIds : <<s, t>> # <<StoreOf[p], r>> => rev'[s][t] = rev[s][t]

Appends(p, r, type) ==
    /\ Performs(p, r, Append1(type)) /\ UNCHANGED <<rev, live, effects>>
    /\ log'[StoreOf[p]][r] = Append(log[StoreOf[p]][r], type)
    /\ \A s \in Stores, t \in RunIds : <<s, t>> # <<StoreOf[p], r>> => log'[s][t] = log[s][t]

Calls(p, r) ==
    /\ Performs(p, r, CallProvider1) /\ UNCHANGED <<rev, live, log>>
    /\ effects' = IF walk[p][r].n = 1
                  THEN [effects EXCEPT ![live[p][r].key] = @ + 1] ELSE effects

\* A walk ends, a run is created, a run is approved, a process forgets, or nothing of
\* this happens.
Leaves(p, r) ==
    /\ walk[p][r] # None /\ walk[p][r].todo = << >> /\ walk'[p][r] = None /\ cpu[p] = r
    /\ OtherWalks(p, r) /\ UNCHANGED <<rev, live, log, effects>>
    /\ \A q \in Proc : q # p => cpu'[q] = cpu[q]

Starts(p, r) ==
    /\ Fresh(p, r) /\ cpu[p] = None /\ Runs(p, r) /\ cpu'[p] = r
    /\ live'[p][r] \in RunRecord /\ live'[p][r].steps = << >> /\ live'[p][r].status = "planned"
    /\ walk'[p][r] \in Walker /\ walk'[p][r].i = 1 /\ walk'[p][r].then = "check"
    /\ walk'[p][r].todo = Transition("planned", "run.created")
    /\ OtherWalks(p, r) /\ OtherRuns(p, r) /\ UNCHANGED <<rev, log, effects>>

Resumed == {Append1("approval.granted"), Save("planned"), Append1("approval.accepted")}

Resumes(p, r) ==
    /\ p \in Approvers /\ cpu[p] = None /\ Runs(p, r) /\ cpu'[p] = r
    /\ Get(p, r) # None /\ Get(p, r) \in RunRecord /\ Get(p, r).status = "awaiting_approval"
    /\ live'[p][r] = Get(p, r)
    /\ walk'[p][r] \in Walker /\ walk'[p][r].then = "enter" /\ walk'[p][r].n = 0
    /\ \E i \in Suspended(Get(p, r).plan.nodes) : walk'[p][r].i = i + 1
    /\ Orderly(walk'[p][r].todo)
    /\ \A op : In(op, walk'[p][r].todo) <=> op \in Resumed
    /\ OtherWalks(p, r) /\ OtherRuns(p, r) /\ UNCHANGED <<rev, log, effects>>

Forgets(p) ==
    /\ \A r \in RunIds : walk'[p][r] = None /\ live'[p][r] = None
    /\ \A q \in Proc, r \in RunIds :
          q # p => walk'[q][r] = walk[q][r] /\ live'[q][r] = live[q][r]
    /\ \A q \in Proc : q # p => cpu'[q] = cpu[q]
    /\ UNCHANGED <<rev, log, effects>>

Rests == UNCHANGED <<rev, log, live, walk, cpu, effects>>

Step == \/ \E p \in Proc, r \in RunIds :
              \/ Moves(p, r) \/ Calls(p, r) \/ Leaves(p, r) \/ Starts(p, r) \/ Resumes(p, r)
              \/ \E st \in Status : Saves(p, r, st)
              \/ \E type \in Event : Appends(p, r, type)
        \/ \E p \in Proc : Forgets(p)
        \/ Rests

-----------------------------------------------------------------------------
(* Every step is one of these *)

LEMMA HoldsRun ==
    ASSUME TInv, NEW p \in Proc, NEW r \in RunIds, walk[p][r] # None
    PROVE  /\ walk[p][r] \in Walker /\ live[p][r] \in RunRecord /\ live[p][r] # None
           /\ live[p][r].plan.nodes \in Seq(NodeKind) /\ live[p][r].steps \in Seq(Nat)
           /\ walk[p][r].i \in Nat
<1>1. /\ walk[p][r] \in Walker /\ live[p][r] \in RunRecord /\ live[p][r] # None
  BY DEF TInv, TypeOK, WalkHasRun
<1> QED BY <1>1, PlansAssumption DEF RunRecord, PlansAssumption, PlanType, Walker

\* A move that leaves the run object alone, or records a step in it.
LEMMA StillMoves ==
    ASSUME TInv, NEW p \in Proc, NEW r \in RunIds, walk[p][r] # None,
           NEW w \in Walker, Become(p, r, w), UNCHANGED live,
           Advance(walk[p][r], w, live[p][r], live[p][r]),
           UNCHANGED <<rev, log, effects>>, cpu[p] \in {None, r},
           \A q \in Proc : q # p => cpu'[q] = cpu[q], cpu'[p] = r \/ w.todo = << >>
    PROVE  Moves(p, r)
<1>1. walk'[p][r] = w /\ OtherWalks(p, r)
  BY BecomeType DEF TInv, OtherWalks
<1>2. OtherRuns(p, r) /\ live'[p][r] = live[p][r] /\ live[p][r] # None
  BY HoldsRun DEF OtherRuns
<1> QED BY <1>1, <1>2 DEF Moves, Runs

LEMMA RecordedMoves ==
    ASSUME TInv, NEW p \in Proc, NEW r \in RunIds, NEW kinds, Resolve(p, r, kinds),
           NEW w \in Walker, Become(p, r, w), Recorded(p, r),
           \A y \in RunRecord :
              /\ y.key = live[p][r].key /\ y.input = live[p][r].input
              /\ y.plan = live[p][r].plan /\ y.status = live[p][r].status
              /\ y.steps = Append(live[p][r].steps, walk[p][r].i)
              => Advance(walk[p][r], w, live[p][r], y)
    PROVE  Moves(p, r)
<1> DEFINE y == [live[p][r] EXCEPT !.steps = Append(@, walk[p][r].i)]
<1>1. walk[p][r] # None /\ cpu[p] = None /\ cpu' = [cpu EXCEPT ![p] = r]
      /\ UNCHANGED <<rev, log, effects>>
  BY DEF Resolve, Awaiting, Idle
<1>2. live[p][r] \in RunRecord /\ live[p][r] # None /\ walk[p][r].i \in Nat
  BY <1>1, HoldsRun
<1>3. /\ y \in RunRecord /\ y.key = live[p][r].key /\ y.input = live[p][r].input
      /\ y.plan = live[p][r].plan /\ y.status = live[p][r].status
      /\ y.steps = Append(live[p][r].steps, walk[p][r].i)
  BY <1>2, StepMore
<1>4. live' = [live EXCEPT ![p][r] = y]
  BY DEF Recorded
<1> HIDE DEF y
<1>5. live'[p][r] = y /\ OtherRuns(p, r)
  BY <1>3, <1>4, Update2 DEF TInv, TypeOK, OtherRuns
<1>6. Advance(walk[p][r], w, live[p][r], y) /\ y # None
  BY <1>3, NoneAssumption DEF NoneAssumption
<1>7. walk'[p][r] = w /\ OtherWalks(p, r)
  BY BecomeType DEF TInv, OtherWalks
<1>8. cpu'[p] = r /\ \A q \in Proc : q # p => cpu'[q] = cpu[q]
  BY <1>1 DEF TInv, TypeOK
<1> QED BY <1>1, <1>2, <1>5, <1>6, <1>7, <1>8 DEF Moves, Runs

\* What a node may append before it passes or ends the run.
Notes == {<< >>} \cup {<<Append1(e)>> : e \in Event \ {"provider.attempt.started"}}

LEMMA NoteQueue ==
    ASSUME NEW s \in Notes
    PROVE  /\ s \in Seq(Op) /\ Orderly(s) /\ NoSave(s)
           /\ ~In(Started, s) /\ ~In(CallProvider1, s)
<1>1. CASE s = << >>
  BY <1>1, OrderlyQueues, InEmpty, OpTypes DEF NoSave
<1>2. CASE s # << >>
  <2>1. PICK e \in Event \ {"provider.attempt.started"} : s = <<Append1(e)>>
    BY <1>2 DEF Notes
  <2>2. /\ Append1(e).op # "save" /\ Append1(e) # Started /\ Append1(e) # CallProvider1
    BY OpsDiffer DEF Started
  <2>3. \A op : In(op, s) <=> op = Append1(e)
    BY <2>1, InOne
  <2> QED BY <2>1, <2>2, <2>3, OrderlyQueues, OpTypes DEF NoSave
<1> QED BY <1>1, <1>2

LEMMA NothingBefore == ASSUME NEW s \in Seq(Op) PROVE << >> \o s = s
  OBVIOUS

\* How a walk ends: notes, a last status and its event.
LEMMA ClosingQueue ==
    ASSUME NEW s \in Notes, NEW st \in Status,
           NEW ty \in Event \ {"provider.attempt.started"}
    PROVE  LET todo == s \o Transition(st, ty)
           IN  /\ todo \in Seq(Op) /\ Orderly(todo)
               /\ ~In(Started, todo) /\ ~In(CallProvider1, todo)
               /\ In(Rest, todo) => st = "awaiting_approval"
<1> DEFINE t == Transition(st, ty)
           todo == s \o t
<1>1. s \in Seq(Op) /\ NoSave(s) /\ ~In(Started, s) /\ ~In(CallProvider1, s)
  BY NoteQueue
<1>2. t \in Seq(Op) /\ Orderly(t)
  BY OpTypes, OrderlyQueues
<1>3. \A op : In(op, t) <=> op \in {Save(st), Append1(ty)}
  BY InQueues
<1> HIDE DEF t
<1>4. \A op : In(op, todo) <=> In(op, s) \/ In(op, t)
  BY <1>1, <1>2, InConcat
<1>5. Orderly(todo)
  <2>1. CASE s = << >>
    BY <1>2, <2>1, NothingBefore
  <2>2. CASE s # << >>
    <3>1. PICK e \in Event : s = <<Append1(e)>>
      BY <2>2 DEF Notes
    <3> QED BY <1>2, <3>1, OrderlyEvent
  <2> QED BY <2>1, <2>2
<1>6. todo \in Seq(Op)
  BY <1>1, <1>2, OpSeqs
<1> HIDE DEF todo
<1>7. ~In(Started, todo) /\ ~In(CallProvider1, todo)
  BY <1>1, <1>3, <1>4, OpsDiffer DEF Started
<1>8. In(Rest, todo) => st = "awaiting_approval"
  BY <1>1, <1>3, <1>4, OpsDiffer DEF Rest, NoSave
<1> QED BY <1>5, <1>6, <1>7, <1>8 DEF todo, t

LEMMA PassMoves ==
    ASSUME TInv, NEW p \in Proc, NEW r \in RunIds, NEW kinds, NEW events \in Notes,
           Pass(p, r, kinds, events), "approval" \notin kinds,
           "authorize" \in kinds => In(Append1("authorization.allowed"), events),
           "policy" \in kinds => In(Append1("policy.decided"), events)
    PROVE  Moves(p, r)
<1> DEFINE w == [walk[p][r] EXCEPT !.i = @ + 1, !.todo = events, !.then = "enter"]
<1>1. Resolve(p, r, kinds) /\ Recorded(p, r) /\ Become(p, r, w)
  BY Zenon DEF Pass
<1>2. /\ walk[p][r] # None /\ walk[p][r].todo = << >> /\ walk[p][r].then = "await"
      /\ Node(p, r) \in kinds
  BY <1>1 DEF Resolve, Awaiting
<1>3. walk[p][r] \in Walker /\ live[p][r] \in RunRecord
  BY <1>2, HoldsRun
<1>4. events \in Seq(Op) /\ Orderly(events) /\ NoSave(events)
      /\ ~In(Started, events) /\ ~In(CallProvider1, events)
  BY NoteQueue
<1>5. /\ w \in Walker /\ w.i = walk[p][r].i + 1 /\ w.todo = events
      /\ w.then = "enter"
  <2>1. walk[p][r].i + 1 \in Nat /\ events \in Seq(Op)
    BY <1>3, <1>4 DEF Walker
  <2> QED BY <1>3, <2>1 DEF Walker
<1> HIDE DEF w
<1>6. ASSUME NEW y \in RunRecord, y.steps = Append(live[p][r].steps, walk[p][r].i)
      PROVE  Passed(walk[p][r], w, live[p][r], y)
  BY <1>2, <1>4, <1>5, <1>6 DEF Passed, Node, Nodes
<1> QED BY <1>1, <1>2, <1>3, <1>4, <1>5, <1>6, RecordedMoves DEF Advance

LEMMA HaltMoves ==
    ASSUME TInv, NEW p \in Proc, NEW r \in RunIds, NEW kinds, NEW events \in Notes,
           NEW status \in Status, NEW type \in Event \ {"provider.attempt.started"},
           Halt(p, r, kinds, events, status, type),
           status = "awaiting_approval" => kinds = {"approval"}
    PROVE  Moves(p, r)
<1> DEFINE todo == events \o Transition(status, type)
           w == [walk[p][r] EXCEPT !.todo = todo, !.then = "end"]
<1>1. Resolve(p, r, kinds) /\ Recorded(p, r) /\ Become(p, r, w)
  BY DEF Halt, Finish, Goto
<1>2. /\ walk[p][r] # None /\ walk[p][r].todo = << >> /\ walk[p][r].then = "await"
      /\ Node(p, r) \in kinds
  BY <1>1 DEF Resolve, Awaiting
<1>3. walk[p][r] \in Walker /\ live[p][r] \in RunRecord
  BY <1>2, HoldsRun
<1>4. /\ todo \in Seq(Op) /\ Orderly(todo) /\ ~In(Started, todo) /\ ~In(CallProvider1, todo)
      /\ In(Rest, todo) => status = "awaiting_approval"
  BY ClosingQueue
<1> HIDE DEF todo
<1>5. w \in Walker /\ w.i = walk[p][r].i /\ w.todo = todo /\ w.then = "end"
  BY <1>3, <1>4 DEF Walker
<1> HIDE DEF w
<1>6. ASSUME NEW y \in RunRecord, y.steps = Append(live[p][r].steps, walk[p][r].i)
      PROVE  Ended(walk[p][r], w, live[p][r], y)
  BY <1>2, <1>4, <1>5, <1>6 DEF Ended, Node, Nodes
<1> QED BY <1>1, <1>2, <1>3, <1>4, <1>5, <1>6, RecordedMoves DEF Advance

LEMMA ResolutionMoves ==
    ASSUME TInv, NEW p \in Proc, NEW r \in RunIds, Resolution(p, r)
    PROVE  Moves(p, r)
<1>1. /\ << >> \in Notes
      /\ \A e \in Event \ {"provider.attempt.started"} : <<Append1(e)>> \in Notes
      /\ \A e : In(Append1(e), <<Append1(e)>>)
  BY InOne DEF Notes
<1>2. CASE CheckPasses(p, r) \/ OutputPasses(p, r)
  BY <1>1, <1>2, PassMoves DEF CheckPasses, OutputPasses, Precheck
<1>3. CASE Authorizes(p, r) \/ PolicyAllows(p, r)
  BY <1>1, <1>3, PassMoves DEF Authorizes, PolicyAllows, Event
<1>4. CASE AttemptSucceeds(p, r)
  BY <1>1, <1>4, PassMoves DEF AttemptSucceeds, Event
<1>5. CASE CheckDenies(p, r) \/ PolicyDenies(p, r) \/ PolicyErrs(p, r)
  BY <1>1, <1>5, HaltMoves DEF CheckDenies, PolicyDenies, PolicyErrs, Status, Event
<1>6. CASE RefusesPrincipal(p, r)
  BY <1>1, <1>6, HaltMoves DEF RefusesPrincipal, Status, Event
<1>7. CASE OutputFails(p, r) \/ GapRefused(p, r) \/ Emits(p, r) \/ InvokeRefused(p, r)
  BY <1>1, <1>7, HaltMoves DEF OutputFails, GapRefused, Emits, InvokeRefused, Status, Event
<1>8. CASE Suspends(p, r)
  BY <1>1, <1>8, HaltMoves DEF Suspends, Status, Event
<1>9. CASE AttemptFails(p, r)
  <2>1. CASE Halt(p, r, {"invoke"}, <<Append1("provider.attempt.failed")>>,
                  "failed", "run.failed")
    BY <1>1, <2>1, HaltMoves DEF Status, Event
  <2>2. CASE /\ ~LastAttempt(p, r)
             /\ Resolve(p, r, {"invoke"})
             /\ Become(p, r, [walk[p][r] EXCEPT !.n = @ + 1,
                          !.todo = <<Append1("provider.attempt.failed")>> \o Attempt])
             /\ UNCHANGED live
    <3> DEFINE todo == <<Append1("provider.attempt.failed")>> \o Attempt
               w == [walk[p][r] EXCEPT !.n = @ + 1, !.todo = todo]
    <3>1. /\ walk[p][r] # None /\ walk[p][r].todo = << >> /\ walk[p][r].then = "await"
          /\ Node(p, r) = "invoke" /\ cpu[p] = None /\ cpu' = [cpu EXCEPT ![p] = r]
          /\ UNCHANGED <<rev, log, effects>>
      BY <2>2 DEF Resolve, Awaiting, Idle
    <3>2. walk[p][r] \in Walker /\ live[p][r] \in RunRecord
      BY <3>1, HoldsRun
    <3>3. live[p][r].plan.max \in 0..10
      BY <3>2, PlansAssumption DEF PlansAssumption, PlanType, RunRecord
    <3>4. walk[p][r].n + 1 \in 0..10 /\ walk[p][r].n + 1 >= 2
      <4>1. walk[p][r].n \in 0..10
        BY <3>2 DEF Walker
      <4>2. ~(walk[p][r].n >= live[p][r].plan.max) /\ walk[p][r].n > 0
        BY <1>9, <2>2 DEF LastAttempt, AttemptFails
      <4> QED BY <3>3, <4>1, <4>2
    <3>5. todo \in Seq(Op) /\ Orderly(todo)
      BY OpTypes, OpSeqs, OrderlyEvent, OrderlyQueues DEF Event
    <3>6. \A st : In(Save(st), todo) => st = "running"
      <4>1. <<Append1("provider.attempt.failed")>> \in Seq(Op) /\ Attempt \in Seq(Op)
        BY OpTypes DEF Event
      <4>2. ASSUME NEW st, In(Save(st), todo) PROVE In(Save(st), Attempt)
        <5>1. \/ In(Save(st), <<Append1("provider.attempt.failed")>>)
              \/ In(Save(st), Attempt)
          BY <4>1, <4>2, InConcat
        <5>2. Save(st) # Append1("provider.attempt.failed")
          BY OpsDiffer
        <5> QED BY <5>1, <5>2, InOne
      <4> QED BY <4>2, InQueues, OpsDiffer DEF Started
    <3>7. Become(p, r, w)
      BY <2>2
    <3> HIDE DEF todo
    <3>8. /\ w \in Walker /\ w.i = walk[p][r].i /\ w.n >= 2 /\ w.then = "await"
          /\ w.todo = todo
      BY <3>1, <3>2, <3>4, <3>5 DEF Walker
    <3> HIDE DEF w
    <3>9. Retried(walk[p][r], w, live[p][r], live[p][r])
      BY <3>1, <3>6, <3>8 DEF Retried, Node, Nodes
    <3>10. Advance(walk[p][r], w, live[p][r], live[p][r])
      BY <3>1, <3>2, <3>5, <3>8, <3>9 DEF Advance
    <3>11. cpu'[p] = r /\ \A q \in Proc : q # p => cpu'[q] = cpu[q]
      BY <3>1 DEF TInv, TypeOK
    <3> QED BY <2>2, <3>1, <3>7, <3>8, <3>10, <3>11, StillMoves
  <2> QED BY <1>9, <2>1, <2>2 DEF AttemptFails
<1> QED BY <1>2, <1>3, <1>4, <1>5, <1>6, <1>7, <1>8, <1>9 DEF Resolution

\* The loop head: a goto that leaves the run object alone and stays inside the run.
LEMMA GotoMoves ==
    ASSUME TInv, NEW p \in Proc, NEW r \in RunIds, NEW w \in Walker,
           walk[p][r] # None, cpu[p] = r, Become(p, r, w),
           Advance(walk[p][r], w, live[p][r], live[p][r]),
           UNCHANGED <<rev, log, live, cpu, effects>>
    PROVE  Moves(p, r)
  BY StillMoves

LEMMA FinishMoves ==
    ASSUME TInv, NEW p \in Proc, NEW r \in RunIds, NEW then \in {"check", "enter"},
           Ready(p, r, then), NEW events \in Notes,
           NEW status \in Status \ {"awaiting_approval"},
           NEW type \in Event \ {"provider.attempt.started"},
           Finish(p, r, events, status, type),
           UNCHANGED <<rev, log, live, cpu, effects>>
    PROVE  Moves(p, r)
<1> DEFINE todo == events \o Transition(status, type)
           w == [walk[p][r] EXCEPT !.todo = todo, !.then = "end"]
<1>1. /\ walk[p][r] # None /\ walk[p][r].todo = << >> /\ walk[p][r].then = then
      /\ cpu[p] = r
  BY DEF Ready
<1>2. walk[p][r] \in Walker /\ live[p][r] \in RunRecord
  BY <1>1, HoldsRun
<1>3. /\ todo \in Seq(Op) /\ Orderly(todo) /\ ~In(Started, todo) /\ ~In(CallProvider1, todo)
      /\ ~In(Rest, todo)
  BY ClosingQueue
<1>4. Become(p, r, w)
  BY DEF Finish, Goto
<1> HIDE DEF todo
<1>5. w \in Walker /\ w.i = walk[p][r].i /\ w.todo = todo /\ w.then = "end"
  BY <1>2, <1>3 DEF Walker
<1> HIDE DEF w
<1>6. Ended(walk[p][r], w, live[p][r], live[p][r])
  BY <1>1, <1>3, <1>5 DEF Ended
<1>7. Advance(walk[p][r], w, live[p][r], live[p][r])
  BY <1>1, <1>2, <1>3, <1>5, <1>6 DEF Advance
<1> QED BY <1>1, <1>4, <1>5, <1>7, GotoMoves

LEMMA LoopHeadMoves ==
    ASSUME TInv, NEW p \in Proc, NEW r \in RunIds,
           \/ AcceptRequest(p, r) \/ RefuseRequest(p, r)
           \/ EndOfPlan(p, r) \/ StopDryRun(p, r)
    PROVE  Moves(p, r)
<1>1. << >> \in Notes
  BY DEF Notes
<1>2. UNCHANGED <<rev, log, live, cpu, effects>>
  BY DEF AcceptRequest, RefuseRequest, EndOfPlan, StopDryRun
<1>3. CASE AcceptRequest(p, r)
  <2> DEFINE w == [walk[p][r] EXCEPT !.todo = << >>, !.then = "enter"]
  <2>1. /\ walk[p][r] # None /\ walk[p][r].todo = << >> /\ walk[p][r].then = "check"
        /\ cpu[p] = r /\ Become(p, r, w)
    BY <1>3 DEF AcceptRequest, Ready, Goto
  <2>2. walk[p][r] \in Walker /\ live[p][r] \in RunRecord
    BY <2>1, HoldsRun
  <2>3. /\ w \in Walker /\ w.i = walk[p][r].i
        /\ w.todo = << >> /\ w.then = "enter"
    BY <2>2, OpTypes DEF Walker
  <2> HIDE DEF w
  <2>4. Opened(walk[p][r], w, live[p][r], live[p][r])
    BY <2>1, <2>3 DEF Opened
  <2>5. Advance(walk[p][r], w, live[p][r], live[p][r])
    BY <2>1, <2>2, <2>3, <2>4, OrderlyQueues DEF Advance
  <2> QED BY <1>2, <2>1, <2>3, <2>5, GotoMoves
<1>4. CASE RefuseRequest(p, r)
  BY <1>1, <1>2, <1>4, FinishMoves DEF RefuseRequest, Status, Event
<1>5. CASE EndOfPlan(p, r)
  BY <1>1, <1>2, <1>5, FinishMoves DEF EndOfPlan, Enter, Status, Event
<1>6. CASE StopDryRun(p, r)
  BY <1>1, <1>2, <1>6, FinishMoves DEF StopDryRun, Enter, Status, Event
<1> QED BY <1>3, <1>4, <1>5, <1>6

LEMMA ClaimKeyMoves ==
    ASSUME TInv, NEW p \in Proc, NEW r \in RunIds, ClaimKey(p, r)
    PROVE  Moves(p, r)
<1> DEFINE owner == Owner(live[p][r].key, [run |-> r, input |-> live[p][r].input])
<1>1. /\ walk[p][r] # None /\ walk[p][r].todo = << >> /\ walk[p][r].then = "enter"
      /\ cpu[p] = r /\ Ready(p, r, "enter") /\ UNCHANGED <<rev, log, live, cpu, effects>>
  BY DEF ClaimKey, Enter, Ready
<1>2. walk[p][r] \in Walker /\ live[p][r] \in RunRecord
  BY <1>1, HoldsRun
<1>3. << >> \in Notes /\ <<Append1("idempotency.replayed")>> \in Notes
  BY DEF Notes, Event
<1>4. CASE \/ Finish(p, r, << >>, "denied", "run.denied")
           \/ Finish(p, r, <<Append1("idempotency.replayed")>>,
                     "denied", "idempotency.unresolved")
  BY <1>1, <1>3, <1>4, FinishMoves DEF Status, Event
<1>5. CASE Become(p, r, [walk[p][r] EXCEPT !.claimed = TRUE])
  <2> DEFINE w == [walk[p][r] EXCEPT !.claimed = TRUE]
  <2>1. /\ w \in Walker /\ w.i = walk[p][r].i /\ w.todo = << >> /\ w.then = "enter"
    BY <1>1, <1>2 DEF Walker
  <2>2. Become(p, r, w)
    BY <1>5
  <2> HIDE DEF w
  <2>3. Opened(walk[p][r], w, live[p][r], live[p][r])
    BY <1>1, <2>1 DEF Opened
  <2>4. Advance(walk[p][r], w, live[p][r], live[p][r])
    BY <1>1, <1>2, <2>1, <2>3, OrderlyQueues DEF Advance
  <2> QED BY <1>1, <2>1, <2>2, <2>4, GotoMoves
<1>6. CASE Become(p, r, [walk[p][r] EXCEPT
                             !.todo = <<Append1("idempotency.replayed")>>,
                             !.then = "end", !.result = owner.run])
  <2> DEFINE todo == <<Append1("idempotency.replayed")>>
             w == [walk[p][r] EXCEPT !.todo = todo, !.then = "end", !.result = owner.run]
  <2>1. owner.run \in RunIds
    <3>1. live[p][r].key \in Keys /\ live[p][r].input \in Inputs
      BY <1>2 DEF RunRecord
    <3>2. ledger[live[p][r].key] # None => ledger[live[p][r].key] \in Claim
      BY <3>1 DEF TInv, TypeOK
    <3> QED BY <3>1, <3>2 DEF Owner, Claim
  <2>2. /\ todo \in Seq(Op) /\ Orderly(todo) /\ NoSave(todo)
        /\ ~In(Started, todo) /\ ~In(CallProvider1, todo)
    BY <1>3, NoteQueue
  <2>3. Become(p, r, w)
    BY <1>6
  <2> HIDE DEF todo, owner
  <2>4. w \in Walker /\ w.i = walk[p][r].i /\ w.todo = todo /\ w.then = "end"
    BY <1>2, <2>1, <2>2 DEF Walker
  <2> HIDE DEF w
  <2>5. ~In(Rest, todo)
    BY <2>2, OpsDiffer DEF Rest, NoSave
  <2>6. Ended(walk[p][r], w, live[p][r], live[p][r])
    BY <1>1, <2>2, <2>4, <2>5 DEF Ended
  <2>7. Advance(walk[p][r], w, live[p][r], live[p][r])
    BY <1>1, <1>2, <2>2, <2>4, <2>6 DEF Advance
  <2> QED BY <1>1, <2>3, <2>4, <2>7, GotoMoves
<1> QED BY <1>4, <1>5, <1>6 DEF ClaimKey

LEMMA BeginNodeMoves ==
    ASSUME TInv, NEW p \in Proc, NEW r \in RunIds, BeginNode(p, r)
    PROVE  Moves(p, r)
<1> DEFINE invokes == Node(p, r) = "invoke" /\ Invocable(live[p][r].plan)
           todo == IF Node(p, r) = "gap" THEN <<Append1("node.skipped")>>
                   ELSE IF invokes THEN Attempt ELSE << >>
           n == IF invokes THEN 1 ELSE 0
           w == [walk[p][r] EXCEPT !.n = n, !.todo = todo, !.then = "await"]
<1>1. /\ walk[p][r] # None /\ walk[p][r].todo = << >> /\ walk[p][r].then = "enter"
      /\ cpu[p] = r /\ ~AtEnd(p, r) /\ UNCHANGED <<rev, log, live, effects>>
      /\ cpu' = IF todo = << >> THEN [cpu EXCEPT ![p] = None] ELSE cpu
      /\ Become(p, r, w)
  BY DEF BeginNode, Enter, Ready
<1>2. walk[p][r] \in Walker /\ live[p][r] \in RunRecord
      /\ live[p][r].plan.nodes \in Seq(NodeKind)
  BY <1>1, HoldsRun
<1>3. todo \in Seq(Op) /\ n \in 0..10 /\ Orderly(todo)
  BY OpTypes, OrderlyQueues DEF Event
<1>4. In(Started, todo) \/ In(CallProvider1, todo) => n = 1 /\ Node(p, r) = "invoke"
  <2>1. ~In(Started, << >>) /\ ~In(CallProvider1, << >>)
    BY InEmpty
  <2>2. /\ ~In(Started, <<Append1("node.skipped")>>)
        /\ ~In(CallProvider1, <<Append1("node.skipped")>>)
    BY InOne, OpsDiffer DEF Started
  <2> QED BY <2>1, <2>2
<1>5. \A st : In(Save(st), todo) => st = "running"
  <2>1. \A st : ~In(Save(st), << >>)
    BY InEmpty
  <2>2. \A st : ~In(Save(st), <<Append1("node.skipped")>>)
    BY InOne, OpsDiffer
  <2>3. \A st : In(Save(st), Attempt) => st = "running"
    BY InQueues, OpsDiffer DEF Started
  <2> QED BY <2>1, <2>2, <2>3
<1>6. walk[p][r].i <= Len(live[p][r].plan.nodes)
  BY <1>1, <1>2 DEF AtEnd, Nodes, Walker
<1>7. /\ \A q \in Proc : q # p => cpu'[q] = cpu[q]
      /\ cpu'[p] = r \/ todo = << >>
  BY <1>1 DEF TInv, TypeOK
<1> HIDE DEF todo, n
<1>8. /\ w \in Walker /\ w.i = walk[p][r].i /\ w.todo = todo /\ w.then = "await" /\ w.n = n
  BY <1>2, <1>3 DEF Walker
<1> HIDE DEF w
<1>9. Begun(walk[p][r], w, live[p][r], live[p][r])
  BY <1>1, <1>4, <1>5, <1>6, <1>8 DEF Begun, Node, Nodes
<1>10. Advance(walk[p][r], w, live[p][r], live[p][r])
  BY <1>1, <1>2, <1>3, <1>8, <1>9 DEF Advance
<1> QED BY <1>1, <1>7, <1>8, <1>10, StillMoves

LEMMA EndWalkLeaves ==
    ASSUME TInv, NEW p \in Proc, NEW r \in RunIds, EndWalk(p, r)
    PROVE  Leaves(p, r)
<1>1. /\ walk[p][r] # None /\ walk[p][r].todo = << >> /\ Become(p, r, None)
      /\ UNCHANGED <<rev, log, live, effects>> /\ cpu' = [cpu EXCEPT ![p] = None]
      /\ cpu[p] = r
  BY DEF EndWalk, Ready
<1>2. walk'[p][r] = None /\ OtherWalks(p, r)
  BY <1>1, BecomeType DEF TInv, OtherWalks
<1>3. \A q \in Proc : q # p => cpu'[q] = cpu[q]
  BY <1>1 DEF TInv, TypeOK
<1> QED BY <1>1, <1>2, <1>3 DEF Leaves

LEMMA StorePerforms ==
    ASSUME TInv, NEW p \in Proc, NEW r \in RunIds, NEW op, StoreStep(p, r, op)
    PROVE  Performs(p, r, op)
<1> DEFINE w == [walk[p][r] EXCEPT !.todo = Tail(@)]
<1>1. /\ walk[p][r] # None /\ walk[p][r].todo # << >> /\ Head(walk[p][r].todo) = op
      /\ cpu[p] = r /\ Become(p, r, w)
      /\ cpu' = IF Releases(walk[p][r]) THEN [cpu EXCEPT ![p] = None] ELSE cpu
  BY DEF StoreStep, HasTodo
<1>2. walk[p][r] \in Walker /\ live[p][r] \in RunRecord /\ live[p][r] # None
  BY <1>1, HoldsRun
<1>3. walk[p][r].todo \in Seq(Op) /\ Tail(walk[p][r].todo) \in Seq(Op)
  BY <1>1, <1>2, OpSeqs DEF Walker
<1>4. /\ w \in Walker /\ w.i = walk[p][r].i /\ w.n = walk[p][r].n
      /\ w.then = walk[p][r].then /\ w.claimed = walk[p][r].claimed
      /\ w.result = walk[p][r].result /\ w.todo = Tail(walk[p][r].todo)
  BY <1>2, <1>3 DEF Walker
<1> HIDE DEF w
<1>5. walk'[p][r] = w /\ OtherWalks(p, r)
  BY <1>1, <1>4, BecomeType DEF TInv, OtherWalks
<1>6. \A q \in Proc : q # p => cpu'[q] = cpu[q]
  BY <1>1 DEF TInv, TypeOK
<1>7. cpu'[p] = r \/ w.todo = << >>
  <2>1. CASE Releases(walk[p][r])
    <3>1. Len(walk[p][r].todo) = 1
      BY <2>1 DEF Releases
    <3>2. Len(w.todo) = 0
      BY <1>3, <1>4, <3>1
    <3>3. \A t \in Seq(Op) : Len(t) = 0 => t = << >>
      OBVIOUS
    <3> QED BY <1>3, <1>4, <3>2, <3>3
  <2>2. CASE ~Releases(walk[p][r])
    BY <1>1, <2>2
  <2> QED BY <2>1, <2>2
<1> QED BY <1>1, <1>2, <1>4, <1>5, <1>6, <1>7 DEF Performs, Performed, Runs

LEMMA StoreCallStep ==
    ASSUME TInv, NEW p \in Proc, NEW r \in RunIds, StoreCall(p, r)
    PROVE  \/ Calls(p, r) \/ \E st \in Status : Saves(p, r, st)
           \/ \E type \in Event : Appends(p, r, type)
<1>1. StoreOf[p] \in Stores
  BY ProcAssumption DEF ProcAssumption
<1>2. ASSUME NEW st \in Status, SaveRun(p, r, st) PROVE Saves(p, r, st)
  <2> DEFINE x == [live[p][r] EXCEPT !.status = st]
             z == StoreOf[p]
  <2>1. /\ StoreStep(p, r, Save(st)) /\ UNCHANGED <<log, effects>>
        /\ live' = [live EXCEPT ![p][r] = x] /\ rev' = [rev EXCEPT ![z][r] = x]
    BY <1>2 DEF SaveRun, Saved
  <2>2. Performs(p, r, Save(st)) /\ live[p][r] \in RunRecord
    BY <2>1, StorePerforms DEF Performs
  <2>3. x \in RunRecord
    BY <2>2 DEF RunRecord
  <2>4. x = [live[p][r] EXCEPT !.status = st]
    OBVIOUS
  <2> HIDE DEF x
  <2>5. live'[p][r] = x /\ OtherRuns(p, r)
    BY <2>1, <2>3, Update2 DEF TInv, TypeOK, OtherRuns
  <2>6. /\ rev'[z][r] = x
        /\ \A s \in Stores, t \in RunIds : <<s, t>> # <<z, r>> => rev'[s][t] = rev[s][t]
    <3> HIDE DEF z
    <3>1. z \in Stores
      BY <1>1 DEF z
    <3> QED BY <2>1, <2>3, <3>1, Update2 DEF TInv, TypeOK
  <2> QED BY <2>1, <2>2, <2>4, <2>5, <2>6 DEF Saves
<1>3. ASSUME NEW type \in Event, AppendEvent(p, r, type) PROVE Appends(p, r, type)
  <2> DEFINE z == StoreOf[p]
             l == Append(log[z][r], type)
  <2>1. /\ StoreStep(p, r, Append1(type)) /\ UNCHANGED <<rev, live, effects>>
        /\ log' = [log EXCEPT ![z][r] = l]
    BY <1>3 DEF AppendEvent
  <2>2. Performs(p, r, Append1(type))
    BY <2>1, StorePerforms
  <2>3. l \in Seq(Event)
    BY <1>1 DEF TInv, TypeOK
  <2>4. l = Append(log[z][r], type)
    OBVIOUS
  <2> HIDE DEF l
  <2>5. /\ log'[z][r] = l
        /\ \A s \in Stores, t \in RunIds : <<s, t>> # <<z, r>> => log'[s][t] = log[s][t]
    <3> HIDE DEF z
    <3>1. z \in Stores
      BY <1>1 DEF z
    <3> QED BY <2>1, <2>3, <3>1, Update2 DEF TInv, TypeOK
  <2> QED BY <2>1, <2>2, <2>4, <2>5 DEF Appends
<1>4. ASSUME CallProvider(p, r) PROVE Calls(p, r)
  BY <1>4, StorePerforms DEF CallProvider, Calls
<1> QED BY <1>2, <1>3, <1>4 DEF StoreCall

LEMMA ExecuteNewStarts ==
    ASSUME TInv, NEW c \in Callers, NEW p \in Proc, NEW k \in Keys, NEW i \in Inputs,
           NEW dry \in DryRun, NEW r \in RunIds, NEW plan \in Plans,
           ExecuteNew(c, p, k, i, dry, r, plan)
    PROVE  Starts(p, r)
<1> DEFINE x == [status |-> "planned", key |-> k, input |-> i, plan |-> plan, steps |-> << >>]
           w == [i |-> 1, n |-> 0, claimed |-> FALSE, dry |-> dry,
                 todo |-> Transition("planned", "run.created"),
                 then |-> "check", result |-> r]
<1>1. x \in RunRecord /\ x.steps = << >> /\ x.status = "planned"
  BY DEF RunRecord, Status
<1>2. dry \in BOOLEAN /\ Transition("planned", "run.created") \in Seq(Op)
  BY FlagAssumption, OpTypes DEF FlagAssumption, Status, Event
<1>3. /\ w \in Walker /\ w.i = 1 /\ w.then = "check"
      /\ w.todo = Transition("planned", "run.created")
  BY <1>2 DEF Walker
<1>4. /\ Become(p, r, w) /\ live' = [live EXCEPT ![p][r] = x] /\ Fresh(p, r)
      /\ cpu[p] = None /\ cpu' = [cpu EXCEPT ![p] = r]
      /\ UNCHANGED <<rev, log, effects>>
  BY DEF ExecuteNew, Idle
<1> HIDE DEF x, w
<1>5. walk'[p][r] = w /\ OtherWalks(p, r)
  BY <1>3, <1>4, BecomeType DEF TInv, OtherWalks
<1>6. live'[p][r] = x /\ OtherRuns(p, r)
  BY <1>1, <1>4, Update2 DEF TInv, TypeOK, OtherRuns
<1>7. cpu'[p] = r /\ \A q \in Proc : q # p => cpu'[q] = cpu[q]
  BY <1>4 DEF TInv, TypeOK
<1> QED BY <1>1, <1>3, <1>4, <1>5, <1>6, <1>7 DEF Starts, Runs

LEMMA ApproveResumes ==
    ASSUME TInv, NEW p \in Proc, NEW r \in RunIds, Approve(p, r)
    PROVE  Resumes(p, r)
<1> DEFINE run == Get(p, r)
           todo == <<Append1("approval.granted")>>
                      \o Transition("planned", "approval.accepted")
<1>1. /\ p \in Approvers /\ cpu[p] = None /\ cpu' = [cpu EXCEPT ![p] = r]
      /\ run # None /\ run.status = "awaiting_approval"
      /\ live' = [live EXCEPT ![p][r] = run] /\ UNCHANGED <<rev, log, effects>>
  BY DEF Approve, Idle, Approvable
<1>2. run \in RunRecord
  BY <1>1, GetType DEF TInv
<1>3. PICK i \in Suspended(run.plan.nodes) :
         Become(p, r, [i |-> i + 1, n |-> 0, claimed |-> TRUE,
                       dry |-> FALSE, then |-> "enter", result |-> r, todo |-> todo])
  BY Zenon DEF Approve
<1> DEFINE w == [i |-> i + 1, n |-> 0, claimed |-> TRUE, dry |-> FALSE,
                 then |-> "enter", result |-> r, todo |-> todo]
<1>4. i + 1 \in Nat
  <2>1. run.plan.nodes \in Seq(NodeKind)
    BY <1>2, PlansAssumption DEF RunRecord, PlansAssumption, PlanType
  <2> QED BY <2>1 DEF Suspended
<1>5. /\ todo \in Seq(Op) /\ Orderly(todo)
      /\ \A op : In(op, todo) <=> op \in Resumed
  <2>1. /\ <<Append1("approval.granted")>> \in Seq(Op)
        /\ Transition("planned", "approval.accepted") \in Seq(Op)
        /\ Orderly(Transition("planned", "approval.accepted"))
    BY OpTypes, OrderlyQueues DEF Status, Event
  <2>2. todo \in Seq(Op) /\ Orderly(todo)
    BY <2>1, OpSeqs, OrderlyEvent DEF Event
  <2>3. ASSUME NEW op PROVE In(op, todo) <=> op \in Resumed
    <3>1. In(op, todo) <=> \/ In(op, <<Append1("approval.granted")>>)
                           \/ In(op, Transition("planned", "approval.accepted"))
      BY <2>1, InConcat
    <3>2. In(op, <<Append1("approval.granted")>>) <=> op = Append1("approval.granted")
      BY InOne
    <3> QED BY <3>1, <3>2, InQueues DEF Resumed
  <2> QED BY <2>2, <2>3
<1> HIDE DEF todo
<1>6. /\ w \in Walker /\ w.i = i + 1 /\ w.n = 0 /\ w.then = "enter" /\ w.todo = todo
  BY <1>4, <1>5 DEF Walker
<1>7. Become(p, r, w)
  BY <1>3
<1> HIDE DEF w
<1>8. walk'[p][r] = w /\ OtherWalks(p, r)
  BY <1>6, <1>7, BecomeType DEF TInv, OtherWalks
<1>9. live'[p][r] = run /\ OtherRuns(p, r)
  <2> HIDE DEF run
  <2> QED BY <1>1, <1>2, Update2 DEF TInv, TypeOK, OtherRuns
<1>10. cpu'[p] = r /\ \A q \in Proc : q # p => cpu'[q] = cpu[q]
  BY <1>1 DEF TInv, TypeOK
<1> QED BY <1>1, <1>2, <1>3, <1>5, <1>6, <1>8, <1>9, <1>10 DEF Resumes, Runs

LEMMA CrashForgets ==
    ASSUME TInv, NEW p \in Proc, Crash(p)
    PROVE  Forgets(p)
  BY DEF Crash, Forgets, TInv, TypeOK

\* The normal form: whatever the runtimes do is one of these steps.
LEMMA StepForm ==
    ASSUME TInv, [Next]_vars
    PROVE  Step
<1>1. ASSUME NEW c \in Callers, NEW p \in Proc, Execute(c, p) PROVE Step
  <2>1. ASSUME NEW k \in Keys, NEW i \in Inputs,
               ExecuteKnown(c, p, k, i) \/ ExecuteShared(c, p, k, i)
        PROVE  Rests
    BY <2>1 DEF ExecuteKnown, ExecuteShared, Rests
  <2>2. ASSUME NEW k \in Keys, NEW i \in Inputs, NEW dry \in DryRun,
               NEW r \in RunIds, NEW plan \in Plans, ExecuteNew(c, p, k, i, dry, r, plan)
        PROVE  Starts(p, r)
    BY <2>2, ExecuteNewStarts
  <2> QED BY <1>1, <2>1, <2>2 DEF Execute, Step
<1>2. ASSUME NEW p \in Proc, NEW r \in RunIds, Segment(p, r) PROVE Step
  <2>1. CASE StoreCall(p, r)
    BY <2>1, StoreCallStep DEF Step
  <2>2. CASE \/ AcceptRequest(p, r) \/ RefuseRequest(p, r)
             \/ EndOfPlan(p, r) \/ StopDryRun(p, r)
    BY <2>2, LoopHeadMoves DEF Step
  <2>3. CASE ClaimKey(p, r) \/ BeginNode(p, r)
    BY <2>3, ClaimKeyMoves, BeginNodeMoves DEF Step
  <2>4. CASE EndWalk(p, r)
    BY <2>4, EndWalkLeaves DEF Step
  <2> QED BY <1>2, <2>1, <2>2, <2>3, <2>4 DEF Segment
<1>3. ASSUME NEW p \in Proc, NEW r \in RunIds, Resolution(p, r) PROVE Step
  BY <1>3, ResolutionMoves DEF Step
<1>4. ASSUME NEW p \in Proc, NEW r \in RunIds, Approve(p, r) PROVE Step
  BY <1>4, ApproveResumes DEF Step
<1>5. ASSUME NEW p \in Proc, Crash(p) PROVE Step
  BY <1>5, CrashForgets DEF Step
<1>6. CASE UNCHANGED vars
  BY <1>6 DEF vars, Rests, Step
<1> QED BY <1>1, <1>2, <1>3, <1>4, <1>5, <1>6 DEF Next

-----------------------------------------------------------------------------
(* What a walk has queued *)

\* A queue fits the node its walk stands at: attempts at InvokeAction, suspension at
\* AwaitApproval and only as the end of a walk.
Queue(w, nodes) ==
    /\ Orderly(w.todo) /\ w.i >= 1
    /\ w.then = "await" => w.i <= Len(nodes)
    /\ In(Started, w.todo) \/ In(CallProvider1, w.todo) =>
          w.then = "await" /\ nodes[w.i] = "invoke" /\ w.n >= 1
    /\ In(Rest, w.todo) => w.then = "end" /\ w.i <= Len(nodes) /\ nodes[w.i] = "approval"
    /\ w.then # "end" => \A st : In(Save(st), w.todo) => st \in {"planned", "running"}

QueuesFit ==
    \A p \in Proc, r \in RunIds :
        walk[p][r] # None => Queue(walk[p][r], live[p][r].plan.nodes)

QInv == TInv /\ QueuesFit

LEMMA AdvanceQueue ==
    ASSUME NEW v, NEW w, NEW x, NEW y, Advance(v, w, x, y), Queue(v, x.plan.nodes)
    PROVE  Queue(w, y.plan.nodes)
<1>1. /\ v \in Walker /\ w \in Walker /\ y.plan = x.plan /\ Orderly(w.todo)
      /\ v.i \in Nat /\ w.i \in Nat /\ w.n \in Nat
  BY DEF Advance, Walker
<1>2. /\ Rest = Save("awaiting_approval") /\ \A st, ty : Save(st) # Append1(ty)
      /\ \A st, tu : Save(st) = Save(tu) => st = tu
  BY OpsDiffer DEF Rest
<1>3. CASE Opened(v, w, x, y)
  <2>1. w.todo = << >> /\ w.then = "enter" /\ w.i = v.i
    BY <1>3 DEF Opened
  <2>2. \A op : ~In(op, w.todo)
    BY <2>1, InEmpty
  <2> QED BY <1>1, <2>1, <2>2 DEF Queue
<1>4. CASE Begun(v, w, x, y)
  <2>1. ~In(Rest, w.todo)
    BY <1>2, <1>4 DEF Begun
  <2> QED BY <1>1, <1>4, <2>1 DEF Begun, Queue
<1>5. CASE Passed(v, w, x, y)
  <2>1. \A st : ~In(Save(st), w.todo)
    BY <1>5, OpsDiffer DEF Passed, NoSave
  <2> QED BY <1>1, <1>2, <1>5, <2>1 DEF Passed, Queue
<1>6. CASE Retried(v, w, x, y)
  <2>1. ~In(Rest, w.todo)
    BY <1>2, <1>6 DEF Retried
  <2> QED BY <1>1, <1>6, <2>1 DEF Retried, Queue
<1>7. CASE Ended(v, w, x, y)
  BY <1>1, <1>7 DEF Ended, Queue
<1> QED BY <1>3, <1>4, <1>5, <1>6, <1>7 DEF Advance

\* What is left of a queue after its head is performed.
LEMMA PerformedQueue ==
    ASSUME NEW v, NEW w, Performed(v, w)
    PROVE  /\ \A op : In(op, v.todo) <=> op = Head(v.todo) \/ In(op, w.todo)
           /\ Orderly(v.todo) => Orderly(w.todo)
           /\ OneSave(v.todo) /\ Head(v.todo).op = "save" => NoSave(w.todo)
           /\ CallLast(v.todo) /\ Head(v.todo) = CallProvider1 => w.todo = << >>
<1>1. v.todo \in Seq(Op) /\ v.todo # << >> /\ w.todo = Tail(v.todo)
  BY DEF Performed, Walker
<1> QED BY <1>1, InTail

LEMMA PerformQueue ==
    ASSUME NEW v, NEW w, NEW nodes, Performed(v, w), Queue(v, nodes)
    PROVE  Queue(w, nodes)
<1>1. \A op : In(op, w.todo) => In(op, v.todo)
  BY PerformedQueue
<1>2. Orderly(w.todo)
  BY PerformedQueue DEF Queue
<1> QED BY <1>1, <1>2 DEF Queue, Performed

LEMMA StepQueues ==
    ASSUME QInv, TInv', Step
    PROVE  QueuesFit'
<1> SUFFICES ASSUME NEW q \in Proc, NEW t \in RunIds, walk'[q][t] # None
             PROVE  Queue(walk'[q][t], live'[q][t].plan.nodes)
  BY DEF QueuesFit, Queue, Orderly, OneSave, CallLast, In, Rest, Started, Save, Append1,
         CallProvider1
<1>1. ASSUME walk'[q][t] = walk[q][t], live'[q][t] = live[q][t]
      PROVE  Queue(walk'[q][t], live'[q][t].plan.nodes)
  BY <1>1 DEF QInv, QueuesFit
<1>2. ASSUME NEW p \in Proc, NEW r \in RunIds, Moves(p, r)
      PROVE  Queue(walk'[q][t], live'[q][t].plan.nodes)
  <2>1. CASE <<q, t>> = <<p, r>>
    BY <1>2, <2>1, AdvanceQueue DEF Moves, QInv, QueuesFit
  <2>2. CASE <<q, t>> # <<p, r>>
    BY <1>1, <1>2, <2>2 DEF Moves, OtherWalks, OtherRuns
  <2> QED BY <2>1, <2>2
<1>3. ASSUME NEW p \in Proc, NEW r \in RunIds, NEW op, Performs(p, r, op),
             live'[p][r].plan = live[p][r].plan, OtherRuns(p, r)
      PROVE  Queue(walk'[q][t], live'[q][t].plan.nodes)
  <2>1. CASE <<q, t>> = <<p, r>>
    BY <1>3, <2>1, PerformQueue DEF Performs, QInv, QueuesFit
  <2>2. CASE <<q, t>> # <<p, r>>
    BY <1>1, <1>3, <2>2 DEF Performs, OtherWalks, OtherRuns
  <2> QED BY <2>1, <2>2
<1>4. ASSUME NEW p \in Proc, NEW r \in RunIds, NEW st \in Status, Saves(p, r, st)
      PROVE  Queue(walk'[q][t], live'[q][t].plan.nodes)
  <2>1. live'[p][r].plan = live[p][r].plan
    BY <1>4 DEF Saves, Performs, RunRecord
  <2> QED BY <1>3, <1>4, <2>1 DEF Saves
<1>5. ASSUME NEW p \in Proc, NEW r \in RunIds, NEW ty \in Event, Appends(p, r, ty)
      PROVE  Queue(walk'[q][t], live'[q][t].plan.nodes)
  BY <1>3, <1>5 DEF Appends, OtherRuns
<1>6. ASSUME NEW p \in Proc, NEW r \in RunIds, Calls(p, r)
      PROVE  Queue(walk'[q][t], live'[q][t].plan.nodes)
  BY <1>3, <1>6 DEF Calls, OtherRuns
<1>7. ASSUME NEW p \in Proc, NEW r \in RunIds, Leaves(p, r)
      PROVE  Queue(walk'[q][t], live'[q][t].plan.nodes)
  BY <1>1, <1>7 DEF Leaves, OtherWalks
<1>8. ASSUME NEW p \in Proc, NEW r \in RunIds, Starts(p, r)
      PROVE  Queue(walk'[q][t], live'[q][t].plan.nodes)
  <2>1. CASE <<q, t>> = <<p, r>>
    <3>1. /\ walk'[p][r].todo = Transition("planned", "run.created")
          /\ walk'[p][r].i = 1 /\ walk'[p][r].then = "check"
      BY <1>8 DEF Starts
    <3>2. Orderly(walk'[p][r].todo)
      BY <3>1, OrderlyQueues DEF Status, Event
    <3>3. \A op : In(op, walk'[p][r].todo) <=> op \in {Save("planned"), Append1("run.created")}
      BY <3>1, InQueues
    <3> QED BY <2>1, <3>1, <3>2, <3>3, OpsDiffer DEF Queue, Started, Rest
  <2>2. CASE <<q, t>> # <<p, r>>
    BY <1>1, <1>8, <2>2 DEF Starts, OtherWalks, OtherRuns
  <2> QED BY <2>1, <2>2
<1>9. ASSUME NEW p \in Proc, NEW r \in RunIds, Resumes(p, r)
      PROVE  Queue(walk'[q][t], live'[q][t].plan.nodes)
  <2>1. CASE <<q, t>> = <<p, r>>
    <3>1. /\ walk'[p][r] \in Walker /\ Orderly(walk'[p][r].todo) /\ walk'[p][r].then = "enter"
          /\ \A op : In(op, walk'[p][r].todo) <=> op \in Resumed
      BY <1>9 DEF Resumes
    <3>2. walk'[p][r].i >= 1
      <4>1. PICK i \in Suspended(Get(p, r).plan.nodes) : walk'[p][r].i = i + 1
        BY <1>9 DEF Resumes
      <4>2. Get(p, r).plan.nodes \in Seq(NodeKind)
        BY <1>9, PlansAssumption DEF Resumes, RunRecord, PlansAssumption, PlanType
      <4> QED BY <4>1, <4>2 DEF Suspended
    <3> QED BY <2>1, <3>1, <3>2, OpsDiffer DEF Queue, Started, Rest, Resumed
  <2>2. CASE <<q, t>> # <<p, r>>
    BY <1>1, <1>9, <2>2 DEF Resumes, OtherWalks, OtherRuns
  <2> QED BY <2>1, <2>2
<1>10. ASSUME NEW p \in Proc, Forgets(p)
       PROVE  Queue(walk'[q][t], live'[q][t].plan.nodes)
  BY <1>1, <1>10 DEF Forgets
<1>11. CASE Rests
  BY <1>1, <1>11 DEF Rests
<1> QED BY <1>2, <1>4, <1>5, <1>6, <1>7, <1>8, <1>9, <1>10, <1>11 DEF Step

LEMMA InitQueues == Init => QInv
  BY InitTInv DEF Init, QInv, QueuesFit

LEMMA NextQueues == QInv /\ [Next]_vars => QInv'
  BY NextTInv, StepForm, StepQueues DEF QInv

-----------------------------------------------------------------------------
(* Each node once *)

\* A plan has one checkpoint: a second one would make approve() resume behind the first.
OneCheckpoint ==
    \A plan \in Plans : \A i, j \in DOMAIN plan.nodes :
        plan.nodes[i] = "approval" /\ plan.nodes[j] = "approval" => i = j

\* Positions in the order of the plan, and all of them before one.
Rising(steps)   == \A a, b \in 1..Len(steps) : a < b => steps[a] < steps[b]
Below(steps, n) == \A a \in 1..Len(steps) : steps[a] < n

\* A copy of a run, and a walk over one: nodes were executed in the order of the plan, a
\* walk stands behind all of them, a suspended copy has executed none behind its checkpoint.
CopySteps(x) ==
    /\ Rising(x.steps)
    /\ x.status = "awaiting_approval" =>
          \A i \in Suspended(x.plan.nodes) : Below(x.steps, i + 1)

WalkSteps(w, x) ==
    /\ w.then # "end" => Below(x.steps, w.i)
    /\ In(Rest, w.todo) => \A i \in Suspended(x.plan.nodes) : Below(x.steps, i + 1)
    /\ x.status = "awaiting_approval" /\ w.then # "end" => In(Save("planned"), w.todo)

StepsCount ==
    /\ \A s \in Stores, r \in RunIds : rev[s][r] # None => CopySteps(rev[s][r])
    /\ \A p \in Proc, r \in RunIds : live[p][r] # None => CopySteps(live[p][r])
    /\ \A p \in Proc, r \in RunIds : walk[p][r] # None => WalkSteps(walk[p][r], live[p][r])

LEMMA RecordFacts ==
    ASSUME NEW x \in RunRecord
    PROVE  /\ x.plan \in Plans /\ x.plan.nodes \in Seq(NodeKind) /\ x.steps \in Seq(Nat)
           /\ \A i \in Suspended(x.plan.nodes) :
                 i \in 1..Len(x.plan.nodes) /\ x.plan.nodes[i] = "approval"
<1>1. x.plan.nodes \in Seq(NodeKind)
  BY PlansAssumption DEF RunRecord, PlansAssumption, PlanType
<1> QED BY <1>1 DEF RunRecord, Suspended

\* The next node behind all that were executed.
LEMMA NextRises ==
    ASSUME NEW steps \in Seq(Nat), NEW n \in Nat, Rising(steps), Below(steps, n)
    PROVE  Rising(Append(steps, n)) /\ Below(Append(steps, n), n + 1)
<1> DEFINE t == Append(steps, n)
<1>1. /\ Len(t) = Len(steps) + 1 /\ t[Len(steps) + 1] = n /\ Len(steps) \in Nat
      /\ \A a \in 1..Len(steps) : t[a] = steps[a] /\ steps[a] \in Nat
  OBVIOUS
<1> HIDE DEF t
<1>2. Below(t, n + 1)
  <2> SUFFICES ASSUME NEW a \in 1..Len(t) PROVE t[a] < n + 1
    BY DEF Below
  <2>1. CASE a = Len(steps) + 1
    BY <1>1, <2>1
  <2>2. CASE a \in 1..Len(steps)
    <3>1. t[a] = steps[a] /\ steps[a] \in Nat /\ steps[a] < n
      BY <1>1, <2>2 DEF Below
    <3> QED BY <3>1
  <2> QED BY <1>1, <2>1, <2>2
<1>3. Rising(t)
  <2> SUFFICES ASSUME NEW a \in 1..Len(t), NEW b \in 1..Len(t), a < b PROVE t[a] < t[b]
    BY DEF Rising
  <2>1. a \in 1..Len(steps) /\ t[a] = steps[a]
    BY <1>1
  <2>2. CASE b = Len(steps) + 1
    BY <1>1, <2>1, <2>2 DEF Below
  <2>3. CASE b \in 1..Len(steps)
    <3>1. t[b] = steps[b]
      BY <1>1, <2>3
    <3>2. \A c, d \in 1..Len(steps) : c < d => steps[c] < steps[d]
      BY DEF Rising
    <3>3. steps[a] < steps[b]
      BY ONLY <2>1, <2>3, <3>2, a < b
    <3> QED BY <2>1, <3>1, <3>3
  <2>4. b = Len(steps) + 1 \/ b \in 1..Len(steps)
    <3>1. b \in 1..(Len(steps) + 1) /\ Len(steps) \in Nat
      BY <1>1
    <3> QED BY ONLY <3>1
  <2> QED BY <2>2, <2>3, <2>4
<1> QED BY <1>2, <1>3 DEF t

LEMMA AdvanceSteps ==
    ASSUME OneCheckpoint, NEW v, NEW w, NEW x, NEW y, Advance(v, w, x, y),
           Queue(v, x.plan.nodes), CopySteps(x), WalkSteps(v, x)
    PROVE  CopySteps(y) /\ WalkSteps(w, y)
<1>1. /\ v \in Walker /\ w \in Walker /\ x \in RunRecord /\ y \in RunRecord
      /\ y.plan = x.plan /\ y.status = x.status
      /\ v.i \in Nat /\ w.i \in Nat /\ x.steps \in Seq(Nat) /\ Len(x.plan.nodes) \in Nat
  BY RecordFacts DEF Advance, Walker
<1>2. v.then # "end"
  BY DEF Advance, Opened, Begun, Passed, Retried, Ended
<1>3. y.status # "awaiting_approval"
  <2>1. v.todo = << >>
    BY DEF Advance
  <2> QED BY <1>1, <1>2, <2>1, InEmpty DEF WalkSteps
<1>4. Below(x.steps, v.i) /\ Rising(x.steps)
  BY <1>2 DEF WalkSteps, CopySteps
<1>5. v.then = "await" => v.i <= Len(x.plan.nodes)
  BY DEF Queue
<1>6. CASE Opened(v, w, x, y) \/ Begun(v, w, x, y) \/ Retried(v, w, x, y)
  <2>1. w.i = v.i /\ y = x /\ ~In(Rest, w.todo)
    BY <1>6, InEmpty, OpsDiffer DEF Opened, Begun, Retried, Rest
  <2> QED BY <1>3, <1>4, <2>1 DEF CopySteps, WalkSteps
<1>7. CASE Passed(v, w, x, y)
  <2>1. w.i = v.i + 1 /\ y.steps = Append(x.steps, v.i) /\ NoSave(w.todo)
    BY <1>7 DEF Passed
  <2>2. ~In(Rest, w.todo)
    BY <2>1, OpsDiffer DEF Rest, NoSave
  <2>3. Below(y.steps, w.i) /\ Rising(y.steps)
    BY <1>1, <1>4, <2>1, NextRises
  <2> QED BY <1>3, <2>2, <2>3 DEF CopySteps, WalkSteps
<1>8. CASE Ended(v, w, x, y)
  <2>1. /\ w.then = "end"
        /\ y.steps = IF v.then = "await" THEN Append(x.steps, v.i) ELSE x.steps
        /\ In(Rest, w.todo) => v.then = "await" /\ x.plan.nodes[v.i] = "approval"
    BY <1>8 DEF Ended
  <2>2. Rising(y.steps)
    BY <1>1, <1>4, <2>1, NextRises
  <2>3. ASSUME In(Rest, w.todo), NEW i \in Suspended(y.plan.nodes)
        PROVE  Below(y.steps, i + 1)
    <3>1. v.i <= Len(x.plan.nodes) /\ x.plan.nodes[v.i] = "approval" /\ v.i >= 1
      BY <1>5, <2>1, <2>3 DEF Queue
    <3>2. /\ x.plan \in Plans /\ i \in 1..Len(x.plan.nodes)
          /\ x.plan.nodes[i] = "approval" /\ x.plan.nodes \in Seq(NodeKind)
      BY <1>1, <2>3, RecordFacts
    <3>3. i = v.i
      <4>1. v.i \in DOMAIN x.plan.nodes /\ i \in DOMAIN x.plan.nodes
        BY <1>1, <3>1, <3>2
      <4> QED BY <3>1, <3>2, <4>1 DEF OneCheckpoint
    <3>4. y.steps = Append(x.steps, v.i)
      BY <2>1, <2>3
    <3> QED BY <1>1, <1>4, <3>3, <3>4, NextRises
  <2> QED BY <1>3, <2>1, <2>2, <2>3 DEF CopySteps, WalkSteps
<1> QED BY <1>6, <1>7, <1>8 DEF Advance

\* Saving a status keeps the steps, and suspends only at the checkpoint.
LEMMA SaveSteps ==
    ASSUME NEW v, NEW w, NEW x \in RunRecord, NEW y, NEW st \in Status, Performed(v, w),
           Head(v.todo) = Save(st), y = [x EXCEPT !.status = st],
           Queue(v, x.plan.nodes), CopySteps(x), WalkSteps(v, x)
    PROVE  CopySteps(y) /\ WalkSteps(w, y)
<1>1. /\ y.steps = x.steps /\ y.plan = x.plan /\ y.status = st
  BY DEF RunRecord
<1>2. /\ \A op : In(op, v.todo) <=> op = Head(v.todo) \/ In(op, w.todo)
      /\ NoSave(w.todo)
  BY PerformedQueue, OpsDiffer DEF Queue, Orderly
<1>3. ~In(Rest, w.todo)
  BY <1>2, OpsDiffer DEF NoSave, Rest
<1>4. st = "awaiting_approval" => In(Rest, v.todo)
  BY <1>2 DEF Rest
<1>5. w.then = v.then /\ w.i = v.i
  BY DEF Performed
<1>6. CopySteps(y)
  BY <1>1, <1>4 DEF CopySteps, WalkSteps
<1>7. WalkSteps(w, y)
  BY <1>1, <1>3, <1>4, <1>5 DEF WalkSteps, Queue
<1> QED BY <1>6, <1>7

LEMMA PerformSteps ==
    ASSUME NEW v, NEW w, NEW x, Performed(v, w), Head(v.todo).op # "save", WalkSteps(v, x)
    PROVE  WalkSteps(w, x)
<1>1. /\ \A op : In(op, v.todo) <=> op = Head(v.todo) \/ In(op, w.todo)
      /\ w.i = v.i /\ w.then = v.then
  BY PerformedQueue DEF Performed
<1>2. Head(v.todo) # Save("planned")
  BY OpsDiffer
<1> QED BY <1>1, <1>2 DEF WalkSteps

EInv == QInv /\ StepsCount

LEMMA StepSteps ==
    ASSUME EInv, OneCheckpoint, TInv', Step
    PROVE  StepsCount'
<1> DEFINE Goal == /\ \A s \in Stores, t \in RunIds : rev'[s][t] # None => CopySteps(rev'[s][t])
                   /\ \A q \in Proc, t \in RunIds : live'[q][t] # None => CopySteps(live'[q][t])
                   /\ \A q \in Proc, t \in RunIds :
                         walk'[q][t] # None => WalkSteps(walk'[q][t], live'[q][t])
<1> SUFFICES Goal
  BY DEF StepsCount, WalkSteps, CopySteps, Rising, Below, In, Rest, Save, Suspended
<1>1. /\ \A s \in Stores, t \in RunIds : rev[s][t] # None => CopySteps(rev[s][t])
      /\ \A q \in Proc, t \in RunIds : live[q][t] # None => CopySteps(live[q][t])
      /\ \A q \in Proc, t \in RunIds : walk[q][t] # None => WalkSteps(walk[q][t], live[q][t])
      /\ \A q \in Proc, t \in RunIds :
            walk[q][t] # None => Queue(walk[q][t], live[q][t].plan.nodes)
  BY DEF EInv, QInv, QueuesFit, StepsCount
<1>2. ASSUME NEW p \in Proc, NEW r \in RunIds, Moves(p, r) PROVE Goal
  <2>1. CopySteps(live'[p][r]) /\ WalkSteps(walk'[p][r], live'[p][r])
    BY <1>1, <1>2, AdvanceSteps DEF Moves
  <2> QED BY <1>1, <1>2, <2>1 DEF Moves, OtherWalks, OtherRuns
<1>3. ASSUME NEW p \in Proc, NEW r \in RunIds, NEW st \in Status, Saves(p, r, st) PROVE Goal
  <2>1. /\ walk[p][r] # None /\ live[p][r] # None /\ live[p][r] \in RunRecord
        /\ Performed(walk[p][r], walk'[p][r]) /\ Head(walk[p][r].todo) = Save(st)
        /\ OtherWalks(p, r) /\ OtherRuns(p, r)
        /\ live'[p][r] = [live[p][r] EXCEPT !.status = st]
        /\ rev'[StoreOf[p]][r] = live'[p][r]
        /\ \A s \in Stores, t \in RunIds :
              <<s, t>> # <<StoreOf[p], r>> => rev'[s][t] = rev[s][t]
    BY <1>3 DEF Saves, Performs
  <2>2. CopySteps(live'[p][r]) /\ WalkSteps(walk'[p][r], live'[p][r])
    BY <1>1, <2>1, SaveSteps
  <2> QED BY <1>1, <2>1, <2>2 DEF OtherWalks, OtherRuns
<1>4. ASSUME NEW p \in Proc, NEW r \in RunIds, NEW op, Performs(p, r, op), op.op # "save",
             UNCHANGED <<live, rev>>
      PROVE  Goal
  <2>1. WalkSteps(walk'[p][r], live[p][r])
    BY <1>1, <1>4, PerformSteps DEF Performs
  <2> QED BY <1>1, <1>4, <2>1 DEF Performs, OtherWalks
<1>5. ASSUME NEW p \in Proc, NEW r \in RunIds, NEW ty \in Event, Appends(p, r, ty) PROVE Goal
  BY <1>4, <1>5, OpsDiffer DEF Appends
<1>6. ASSUME NEW p \in Proc, NEW r \in RunIds, Calls(p, r) PROVE Goal
  BY <1>4, <1>6, OpsDiffer DEF Calls
<1>7. ASSUME NEW p \in Proc, NEW r \in RunIds, Leaves(p, r) PROVE Goal
  BY <1>1, <1>7 DEF Leaves, OtherWalks
<1>8. ASSUME NEW p \in Proc, NEW r \in RunIds, Starts(p, r) PROVE Goal
  <2>1. /\ live'[p][r] \in RunRecord /\ live'[p][r].steps = << >>
        /\ live'[p][r].status = "planned" /\ walk'[p][r].i = 1
        /\ walk'[p][r].todo = Transition("planned", "run.created")
    BY <1>8 DEF Starts
  <2>2. CopySteps(live'[p][r])
    BY <2>1 DEF CopySteps, Rising
  <2>3. ~In(Rest, walk'[p][r].todo)
    BY <2>1, InQueues, OpsDiffer DEF Rest
  <2>4. WalkSteps(walk'[p][r], live'[p][r])
    BY <2>1, <2>3 DEF WalkSteps, Below
  <2> QED BY <1>1, <1>8, <2>2, <2>4 DEF Starts, OtherWalks, OtherRuns
<1>9. ASSUME NEW p \in Proc, NEW r \in RunIds, Resumes(p, r) PROVE Goal
  <2> DEFINE x == Get(p, r)
  <2>1. /\ x \in RunRecord /\ x # None /\ x.status = "awaiting_approval"
        /\ live'[p][r] = x /\ \A op : In(op, walk'[p][r].todo) <=> op \in Resumed
    BY <1>9 DEF Resumes
  <2>2. CopySteps(x)
    <3>1. StoreOf[p] \in Stores
      BY ProcAssumption DEF ProcAssumption
    <3> QED BY <1>1, <2>1, <3>1 DEF Get
  <2>3. PICK i \in Suspended(x.plan.nodes) : walk'[p][r].i = i + 1
    BY <1>9 DEF Resumes
  <2> HIDE DEF x
  <2>4. ~In(Rest, walk'[p][r].todo) /\ In(Save("planned"), walk'[p][r].todo)
    BY <2>1, OpsDiffer DEF Resumed, Rest
  <2>5. Below(x.steps, walk'[p][r].i)
    BY <2>1, <2>2, <2>3 DEF CopySteps
  <2>6. WalkSteps(walk'[p][r], live'[p][r])
    BY <2>1, <2>4, <2>5 DEF WalkSteps
  <2> QED BY <1>1, <1>9, <2>1, <2>2, <2>6 DEF Resumes, OtherWalks, OtherRuns
<1>10. ASSUME NEW p \in Proc, Forgets(p) PROVE Goal
  BY <1>1, <1>10 DEF Forgets
<1>11. CASE Rests
  BY <1>1, <1>11 DEF Rests
<1> HIDE DEF Goal
<1> QED BY <1>2, <1>3, <1>5, <1>6, <1>7, <1>8, <1>9, <1>10, <1>11 DEF Step

\* No node of a plan with one checkpoint is executed twice: whatever suspends, resumes,
\* crashes or is approved by several processes, no two steps a saved run has recorded are
\* of one node (walk, recordStep, approve).
THEOREM NodesRunOnce == OneCheckpoint => (Spec => []EachNodeOnce)
<1> SUFFICES ASSUME OneCheckpoint PROVE Spec => []EachNodeOnce
  OBVIOUS
<1>1. Init => EInv
  BY InitQueues DEF Init, EInv, StepsCount
<1>2. EInv /\ [Next]_vars => EInv'
  BY NextQueues, NextTInv, StepForm, StepSteps DEF EInv, QInv
<1>3. EInv => EachNodeOnce
  <2> SUFFICES ASSUME EInv, NEW s \in Stores, NEW r \in RunIds, rev[s][r] # None,
                      NEW a \in 1..Len(rev[s][r].steps), NEW b \in 1..Len(rev[s][r].steps),
                      a # b
               PROVE  rev[s][r].steps[a] # rev[s][r].steps[b]
    BY DEF EachNodeOnce
  <2>1. rev[s][r].steps \in Seq(Nat) /\ Rising(rev[s][r].steps)
    BY DEF EInv, QInv, TInv, TypeOK, RunRecord, StepsCount, CopySteps
  <2>2. a < b \/ b < a
    OBVIOUS
  <2>3. rev[s][r].steps[a] \in Nat /\ rev[s][r].steps[b] \in Nat
    BY <2>1, ElementOfSeq
  <2>4. rev[s][r].steps[a] < rev[s][r].steps[b] \/ rev[s][r].steps[b] < rev[s][r].steps[a]
    BY <2>1, <2>2 DEF Rising
  <2> QED BY <2>3, <2>4
<1> QED BY <1>1, <1>2, <1>3, PTL DEF Spec

-----------------------------------------------------------------------------
(* Gates first *)

\* A run stays in the store it was created in, and keeps its plan.
AtHome ==
    \A r \in RunIds : \E z \in Stores \cup {None}, plan \in Plans \cup {None} :
        /\ \A p \in Proc : live[p][r] # None => StoreOf[p] = z /\ live[p][r].plan = plan
        /\ \A s \in Stores : rev[s][r] # None => s = z /\ rev[s][r].plan = plan

LEMMA StepHome ==
    ASSUME CInv, AtHome, UniqueIds, Step
    PROVE  AtHome'
<1> SUFFICES ASSUME NEW t \in RunIds
             PROVE  \E z \in Stores \cup {None}, plan \in Plans \cup {None} :
                       /\ \A q \in Proc : live'[q][t] # None =>
                             StoreOf[q] = z /\ live'[q][t].plan = plan
                       /\ \A s \in Stores : rev'[s][t] # None =>
                             s = z /\ rev'[s][t].plan = plan
  BY DEF AtHome
<1> DEFINE At(z, plan) ==
              /\ \A q \in Proc : live'[q][t] # None => StoreOf[q] = z /\ live'[q][t].plan = plan
              /\ \A s \in Stores : rev'[s][t] # None => s = z /\ rev'[s][t].plan = plan
<1>1. PICK z \in Stores \cup {None}, plan \in Plans \cup {None} :
         /\ \A q \in Proc : live[q][t] # None => StoreOf[q] = z /\ live[q][t].plan = plan
         /\ \A s \in Stores : rev[s][t] # None => s = z /\ rev[s][t].plan = plan
  BY DEF AtHome
<1>2. ASSUME \A q \in Proc : live'[q][t] = live[q][t] \/ live'[q][t] = None, UNCHANGED rev
      PROVE  At(z, plan)
  BY <1>1, <1>2
<1>3. ASSUME NEW p \in Proc, NEW r \in RunIds, Moves(p, r) PROVE At(z, plan)
  <2>1. live[p][r] # None /\ live'[p][r].plan = live[p][r].plan
    BY <1>3 DEF Moves, Advance
  <2> QED BY <1>1, <1>3, <2>1 DEF Moves, OtherRuns
<1>4. ASSUME NEW p \in Proc, NEW r \in RunIds, NEW st \in Status, Saves(p, r, st)
      PROVE  At(z, plan)
  <2>1. /\ live[p][r] # None /\ live'[p][r].plan = live[p][r].plan
        /\ rev'[StoreOf[p]][r].plan = live[p][r].plan
    BY <1>4 DEF Saves, Performs, RunRecord
  <2>2. /\ OtherRuns(p, r)
        /\ \A s \in Stores, u \in RunIds :
              <<s, u>> # <<StoreOf[p], r>> => rev'[s][u] = rev[s][u]
    BY <1>4 DEF Saves
  <2> QED BY <1>1, <2>1, <2>2 DEF OtherRuns
<1>5. ASSUME NEW p \in Proc, NEW r \in RunIds, Starts(p, r)
      PROVE  \E zz \in Stores \cup {None}, pp \in Plans \cup {None} : At(zz, pp)
  <2>1. CASE t = r
    <3>1. /\ live'[p][r].plan \in Plans /\ StoreOf[p] \in Stores
      BY <1>5, ProcAssumption DEF Starts, RunRecord, ProcAssumption
    <3>2. /\ \A q \in Proc : live[q][r] = None
          /\ \A s \in Stores : rev[s][r] = None
      BY <1>5, FreshIsNew DEF Starts
    <3>3. At(StoreOf[p], live'[p][r].plan)
      BY <1>5, <2>1, <3>2 DEF Starts, OtherRuns
    <3> QED BY <3>1, <3>3
  <2>2. CASE t # r
    BY <1>1, <1>2, <1>5, <2>2 DEF Starts, OtherRuns
  <2> QED BY <2>1, <2>2
<1>6. ASSUME NEW p \in Proc, NEW r \in RunIds, Resumes(p, r) PROVE At(z, plan)
  <2>1. /\ live'[p][r] = Get(p, r) /\ Get(p, r) # None /\ StoreOf[p] \in Stores
    BY <1>6, ProcAssumption DEF Resumes, ProcAssumption
  <2>2. t = r => StoreOf[p] = z /\ live'[p][r].plan = plan
    BY <1>1, <2>1 DEF Get
  <2> QED BY <1>1, <1>6, <2>2 DEF Resumes, OtherRuns
<1>7. ASSUME NEW p \in Proc, Forgets(p) PROVE At(z, plan)
  BY <1>2, <1>7 DEF Forgets
<1>8. ASSUME NEW p \in Proc, NEW r \in RunIds,
             Calls(p, r) \/ Leaves(p, r) \/ \E ty \in Event : Appends(p, r, ty)
      PROVE  At(z, plan)
  BY <1>2, <1>8 DEF Calls, Leaves, Appends
<1>9. ASSUME Rests PROVE At(z, plan)
  BY <1>2, <1>9 DEF Rests
<1> HIDE DEF At
<1>10. CASE \E p \in Proc, r \in RunIds : Starts(p, r)
  BY <1>5, <1>10 DEF At
<1>11. CASE ~\E p \in Proc, r \in RunIds : Starts(p, r)
  <2>1. At(z, plan)
    BY <1>3, <1>4, <1>6, <1>7, <1>8, <1>9, <1>11 DEF Step
  <2> QED BY <2>1 DEF At
<1> QED BY <1>10, <1>11

\* Logs only grow, by the entry a walk of the run appends.
LEMMA LogGrows ==
    ASSUME TInv, Step, NEW s \in Stores, NEW t \in RunIds
    PROVE  /\ \A j \in 1..Len(log[s][t]) :
                 j \in 1..Len(log'[s][t]) /\ log'[s][t][j] = log[s][t][j]
           /\ \A j \in 1..Len(log'[s][t]) :
                 \/ j \in 1..Len(log[s][t])
                 \/ /\ j = Len(log[s][t]) + 1
                    /\ \E p \in Proc : s = StoreOf[p] /\ Appends(p, t, log'[s][t][j])
<1>1. log[s][t] \in Seq(Event)
  BY DEF TInv, TypeOK
<1>2. CASE log'[s][t] = log[s][t]
  BY <1>1, <1>2
<1>3. ASSUME NEW p \in Proc, NEW r \in RunIds, NEW ty \in Event, Appends(p, r, ty),
             log'[s][t] # log[s][t]
      PROVE  s = StoreOf[p] /\ t = r /\ log'[s][t] = Append(log[s][t], ty)
  BY <1>3 DEF Appends
<1>4. ASSUME NEW p \in Proc, NEW ty \in Event, Appends(p, t, ty),
             s = StoreOf[p], log'[s][t] = Append(log[s][t], ty)
      PROVE  /\ \A j \in 1..Len(log[s][t]) :
                   j \in 1..Len(log'[s][t]) /\ log'[s][t][j] = log[s][t][j]
             /\ \A j \in 1..Len(log'[s][t]) :
                   \/ j \in 1..Len(log[s][t])
                   \/ (j = Len(log[s][t]) + 1 /\ Appends(p, t, log'[s][t][j]))
  <2> DEFINE l == log[s][t]
             m == log'[s][t]
  <2>1. l \in Seq(Event) /\ m = Append(l, ty)
    BY <1>1, <1>4
  <2>2. m[Len(l) + 1] = ty
    BY <2>1
  <2>3. /\ \A j \in 1..Len(l) : j \in 1..Len(m) /\ m[j] = l[j]
        /\ \A j \in 1..Len(m) : j \in 1..Len(l) \/ j = Len(l) + 1
    BY <2>1
  <2> HIDE DEF l, m
  <2>4. \A j \in 1..Len(m) : j \in 1..Len(l) \/ (j = Len(l) + 1 /\ Appends(p, t, m[j]))
    BY <1>4, <2>2, <2>3
  <2> QED BY <2>3, <2>4 DEF l, m
<1>5. ASSUME log'[s][t] # log[s][t]
      PROVE  \E p \in Proc, ty \in Event :
                Appends(p, t, ty) /\ s = StoreOf[p] /\ log'[s][t] = Append(log[s][t], ty)
  <2>1. ASSUME NEW p \in Proc, NEW r \in RunIds,
               \/ Moves(p, r) \/ Calls(p, r) \/ Leaves(p, r) \/ Starts(p, r) \/ Resumes(p, r)
               \/ \E st \in Status : Saves(p, r, st)
        PROVE  FALSE
    BY <1>5, <2>1 DEF Moves, Calls, Leaves, Starts, Resumes, Saves
  <2>2. ~Rests /\ ~\E p \in Proc : Forgets(p)
    BY <1>5 DEF Forgets, Rests
  <2>3. \E p \in Proc, r \in RunIds, ty \in Event : Appends(p, r, ty)
    BY <2>1, <2>2 DEF Step
  <2> QED BY <1>3, <1>5, <2>3
<1> QED BY <1>2, <1>4, <1>5

\* What the plan has before InvokeAction is asked once: after the second one, the log
\* would hold an attempt made before the gates between them.
OneInvoke ==
    \A plan \in Plans : \A i, j \in DOMAIN plan.nodes :
        plan.nodes[i] = "invoke" /\ plan.nodes[j] = "invoke" => i = j

\* The events that show that every gate before position i was passed.
Gates(nodes, i) == {Evidence[nodes[a]] :
                       a \in {b \in 1..Len(nodes) : b < i /\ nodes[b] \in DOMAIN Evidence}}

Known(s, r) == {e \in Event : Happened(s, r, e)}

\* A walk has the gates behind it on record, or about to be; an attempt and a
\* suspension have them on record.
GateWalk(w, nodes, known) ==
    /\ w.then # "end" => \A e \in Gates(nodes, w.i) : e \in known \/ In(Append1(e), w.todo)
    /\ In(Started, w.todo) => Gates(nodes, w.i) \subseteq known
    /\ In(Rest, w.todo) => \A i \in Suspended(nodes) : Gates(nodes, i) \subseteq known

GateCopy(x, known) ==
    x.status = "awaiting_approval" =>
        \A i \in Suspended(x.plan.nodes) : Gates(x.plan.nodes, i) \subseteq known

GatesRecorded ==
    /\ \A s \in Stores, r \in RunIds : rev[s][r] # None => GateCopy(rev[s][r], Known(s, r))
    /\ \A p \in Proc, r \in RunIds :
          live[p][r] # None => GateCopy(live[p][r], Known(StoreOf[p], r))
    /\ \A p \in Proc, r \in RunIds :
          walk[p][r] # None =>
              GateWalk(walk[p][r], live[p][r].plan.nodes, Known(StoreOf[p], r))

LEMMA GatesFacts ==
    ASSUME NEW nodes \in Seq(NodeKind), NEW i \in Nat
    PROVE  /\ Gates(nodes, 0) = {} /\ Gates(nodes, 1) = {}
           /\ \A j \in Nat : i <= j => Gates(nodes, i) \subseteq Gates(nodes, j)
           /\ \A e \in Gates(nodes, i + 1) :
                 e \in Gates(nodes, i) \/ (/\ i \in 1..Len(nodes)
                                           /\ nodes[i] \in DOMAIN Evidence
                                           /\ e = Evidence[nodes[i]])
           /\ \A a \in 1..Len(nodes) :
                 a < i /\ nodes[a] \in DOMAIN Evidence => Evidence[nodes[a]] \in Gates(nodes, i)
  BY DEF Gates

LEMMA GateAdvance ==
    ASSUME NEW v, NEW w, NEW x, NEW y, NEW known, Advance(v, w, x, y),
           Queue(v, x.plan.nodes), GateCopy(x, known), GateWalk(v, x.plan.nodes, known)
    PROVE  GateCopy(y, known) /\ GateWalk(w, y.plan.nodes, known)
<1> DEFINE nodes == x.plan.nodes
<1>1. /\ v \in Walker /\ w \in Walker /\ x \in RunRecord /\ y \in RunRecord
      /\ y.plan = x.plan /\ y.status = x.status /\ v.i \in Nat /\ w.i \in Nat
      /\ nodes \in Seq(NodeKind) /\ v.todo = << >>
  BY RecordFacts DEF Advance, Walker
<1>2. v.then # "end"
  BY DEF Advance, Opened, Begun, Passed, Retried, Ended
<1>3. Gates(nodes, v.i) \subseteq known
  BY <1>1, <1>2, InEmpty DEF GateWalk
<1>4. GateCopy(y, known)
  BY <1>1 DEF GateCopy
<1>5. CASE Opened(v, w, x, y) \/ Begun(v, w, x, y) \/ Retried(v, w, x, y)
  <2>1. w.i = v.i /\ ~In(Rest, w.todo)
    BY <1>5, InEmpty, OpsDiffer DEF Opened, Begun, Retried, Rest
  <2> QED BY <1>1, <1>3, <1>4, <2>1 DEF GateWalk
<1>6. CASE Passed(v, w, x, y)
  <2>1. /\ w.i = v.i + 1 /\ NoSave(w.todo) /\ ~In(Started, w.todo)
        /\ nodes[v.i] # "approval"
        /\ nodes[v.i] = "authorize" => In(Append1("authorization.allowed"), w.todo)
        /\ nodes[v.i] = "policy" => In(Append1("policy.decided"), w.todo)
    BY <1>6 DEF Passed
  <2>2. ~In(Rest, w.todo)
    BY <2>1, OpsDiffer DEF Rest, NoSave
  <2>3. ASSUME NEW e \in Gates(nodes, w.i) PROVE e \in known \/ In(Append1(e), w.todo)
    <3>1. e \in Gates(nodes, v.i) \/ (/\ nodes[v.i] \in DOMAIN Evidence
                                      /\ e = Evidence[nodes[v.i]])
      BY <1>1, <2>1, GatesFacts
    <3> QED BY <1>3, <2>1, <3>1 DEF Evidence
  <2> QED BY <1>1, <1>4, <2>1, <2>2, <2>3 DEF GateWalk
<1>7. CASE Ended(v, w, x, y)
  <2>1. /\ w.then = "end" /\ ~In(Started, w.todo)
        /\ In(Rest, w.todo) => v.then = "await" /\ nodes[v.i] = "approval"
    BY <1>7 DEF Ended
  <2>2. ASSUME In(Rest, w.todo), NEW i \in Suspended(nodes)
        PROVE  Gates(nodes, i) \subseteq known
    <3>1. v.i \in 1..Len(nodes) /\ nodes[v.i] = "approval"
      BY <1>1, <2>1, <2>2 DEF Queue
    <3>2. i <= v.i /\ i \in Nat
      BY <1>1, <3>1 DEF Suspended
    <3> QED BY <1>1, <1>3, <3>2, GatesFacts
  <2> QED BY <1>1, <1>4, <2>1, <2>2 DEF GateWalk
<1> QED BY <1>5, <1>6, <1>7 DEF Advance

LEMMA GateGrows ==
    ASSUME NEW x, NEW w, NEW nodes, NEW known, NEW more, known \subseteq more
    PROVE  /\ GateCopy(x, known) => GateCopy(x, more)
           /\ GateWalk(w, nodes, known) => GateWalk(w, nodes, more)
  BY DEF GateCopy, GateWalk

\* An entry that leaves the queue is in the log.
LEMMA GatePerform ==
    ASSUME NEW v, NEW w, NEW nodes, NEW known, Performed(v, w), GateWalk(v, nodes, known),
           \A e : Head(v.todo) = Append1(e) => e \in known
    PROVE  GateWalk(w, nodes, known)
<1>1. /\ \A op : In(op, v.todo) <=> op = Head(v.todo) \/ In(op, w.todo)
      /\ w.i = v.i /\ w.then = v.then
  BY PerformedQueue DEF Performed
<1>2. ASSUME w.then # "end", NEW e \in Gates(nodes, w.i)
      PROVE  e \in known \/ In(Append1(e), w.todo)
  <2>1. e \in known \/ In(Append1(e), v.todo)
    BY <1>1, <1>2 DEF GateWalk
  <2> QED BY <1>1, <2>1
<1> QED BY <1>1, <1>2 DEF GateWalk

\* A run is suspended with the gates of its checkpoint on record.
LEMMA GateSave ==
    ASSUME NEW v, NEW w, NEW x \in RunRecord, NEW y, NEW known, NEW st \in Status,
           Performed(v, w), Head(v.todo) = Save(st), y = [x EXCEPT !.status = st],
           GateWalk(v, x.plan.nodes, known)
    PROVE  GateCopy(y, known) /\ GateWalk(w, y.plan.nodes, known)
<1>1. y.plan = x.plan /\ y.status = st
  BY DEF RunRecord
<1>2. \A op : In(op, v.todo) <=> op = Head(v.todo) \/ In(op, w.todo)
  BY PerformedQueue
<1>3. GateCopy(y, known)
  BY <1>1, <1>2 DEF GateCopy, GateWalk, Rest
<1>4. GateWalk(w, y.plan.nodes, known)
  BY <1>1, GatePerform, OpsDiffer
<1> QED BY <1>3, <1>4

GInv == QInv /\ CInv /\ AtHome /\ GatesRecorded

LEMMA StepGates ==
    ASSUME GInv, UniqueIds, TInv', Step
    PROVE  GatesRecorded'
<1> DEFINE After(s, t) == {e \in Event : \E j \in 1..Len(log'[s][t]) : log'[s][t][j] = e}
           Goal == /\ \A s \in Stores, t \in RunIds :
                         rev'[s][t] # None => GateCopy(rev'[s][t], After(s, t))
                   /\ \A q \in Proc, t \in RunIds :
                         live'[q][t] # None => GateCopy(live'[q][t], After(StoreOf[q], t))
                   /\ \A q \in Proc, t \in RunIds :
                         walk'[q][t] # None =>
                            GateWalk(walk'[q][t], live'[q][t].plan.nodes, After(StoreOf[q], t))
<1> SUFFICES Goal
  BY DEF GatesRecorded, GateCopy, GateWalk, Known, Happened, Gates, Evidence, In, Rest, Started,
         Save, Append1, Suspended
<1>1. \A s \in Stores, t \in RunIds : Known(s, t) \subseteq After(s, t)
  BY LogGrows DEF GInv, QInv, Known, Happened
<1> HIDE DEF After
<1>2. /\ \A s \in Stores, t \in RunIds : rev[s][t] # None => GateCopy(rev[s][t], After(s, t))
      /\ \A q \in Proc, t \in RunIds :
            live[q][t] # None => GateCopy(live[q][t], After(StoreOf[q], t))
      /\ \A q \in Proc, t \in RunIds :
            walk[q][t] # None =>
               GateWalk(walk[q][t], live[q][t].plan.nodes, After(StoreOf[q], t))
      /\ \A q \in Proc : StoreOf[q] \in Stores
  BY <1>1, GateGrows, ProcAssumption DEF GInv, GatesRecorded, ProcAssumption
<1>3. ASSUME NEW p \in Proc, NEW r \in RunIds, Moves(p, r) PROVE Goal
  <2>1. /\ GateCopy(live'[p][r], After(StoreOf[p], r))
        /\ GateWalk(walk'[p][r], live'[p][r].plan.nodes, After(StoreOf[p], r))
    BY <1>2, <1>3, GateAdvance DEF Moves, GInv, QInv, QueuesFit
  <2> QED BY <1>2, <1>3, <2>1 DEF Moves, OtherWalks, OtherRuns
<1>4. ASSUME NEW p \in Proc, NEW r \in RunIds, NEW st \in Status, Saves(p, r, st) PROVE Goal
  <2>1. /\ walk[p][r] # None /\ live[p][r] # None /\ live[p][r] \in RunRecord
        /\ Performed(walk[p][r], walk'[p][r]) /\ Head(walk[p][r].todo) = Save(st)
        /\ OtherWalks(p, r) /\ OtherRuns(p, r)
        /\ live'[p][r] = [live[p][r] EXCEPT !.status = st]
        /\ rev'[StoreOf[p]][r] = live'[p][r]
        /\ \A s \in Stores, t \in RunIds :
              <<s, t>> # <<StoreOf[p], r>> => rev'[s][t] = rev[s][t]
    BY <1>4 DEF Saves, Performs
  <2>2. /\ GateCopy(live'[p][r], After(StoreOf[p], r))
        /\ GateWalk(walk'[p][r], live'[p][r].plan.nodes, After(StoreOf[p], r))
    <3>1. GateWalk(walk[p][r], live[p][r].plan.nodes, After(StoreOf[p], r))
      BY <1>2, <2>1
    <3> QED BY <2>1, <3>1, GateSave
  <2>3. ASSUME NEW s \in Stores, NEW t \in RunIds, rev'[s][t] # None PROVE GateCopy(rev'[s][t], After(s, t))
    <3>1. CASE <<s, t>> = <<StoreOf[p], r>>
      BY <2>1, <2>2, <3>1
    <3>2. CASE <<s, t>> # <<StoreOf[p], r>>
      BY <1>2, <2>1, <2>3, <3>2
    <3> QED BY <3>1, <3>2
  <2>4. ASSUME NEW q \in Proc, NEW t \in RunIds
        PROVE  /\ live'[q][t] # None => GateCopy(live'[q][t], After(StoreOf[q], t))
               /\ walk'[q][t] # None => GateWalk(walk'[q][t], live'[q][t].plan.nodes, After(StoreOf[q], t))
    <3>1. CASE <<q, t>> = <<p, r>>
      BY <2>2, <3>1
    <3>2. CASE <<q, t>> # <<p, r>>
      <4>1. live'[q][t] = live[q][t] /\ walk'[q][t] = walk[q][t]
        BY <2>1, <3>2 DEF OtherWalks, OtherRuns
      <4> QED BY <1>2, <4>1
    <3> QED BY <3>1, <3>2
  <2> QED BY <2>3, <2>4
<1>5. ASSUME NEW p \in Proc, NEW r \in RunIds, NEW op, Performs(p, r, op),
             UNCHANGED <<live, rev>>, \A e : op = Append1(e) => e \in After(StoreOf[p], r)
      PROVE  Goal
  <2>1. GateWalk(walk'[p][r], live[p][r].plan.nodes, After(StoreOf[p], r))
    BY <1>2, <1>5, GatePerform DEF Performs
  <2> QED BY <1>2, <1>5, <2>1 DEF Performs, OtherWalks
<1>6. ASSUME NEW p \in Proc, NEW r \in RunIds, NEW ty \in Event, Appends(p, r, ty) PROVE Goal
  <2>1. ty \in After(StoreOf[p], r)
    <3>1. log[StoreOf[p]][r] \in Seq(Event)
      BY <1>2 DEF GInv, QInv, TInv, TypeOK
    <3>2. log'[StoreOf[p]][r] = Append(log[StoreOf[p]][r], ty)
      BY <1>6 DEF Appends
    <3> DEFINE l == log[StoreOf[p]][r]
               m == log'[StoreOf[p]][r]
    <3>3. Len(l) + 1 \in 1..Len(m) /\ m[Len(l) + 1] = ty
      BY <3>1, <3>2
    <3> QED BY <3>3 DEF After
  <2>2. \A e : Append1(ty) = Append1(e) => e = ty
    BY OpsDiffer
  <2> QED BY <1>5, <1>6, <2>1, <2>2 DEF Appends
<1>7. ASSUME NEW p \in Proc, NEW r \in RunIds, Calls(p, r) PROVE Goal
  BY <1>5, <1>7, OpsDiffer DEF Calls
<1>8. ASSUME NEW p \in Proc, NEW r \in RunIds, Leaves(p, r) PROVE Goal
  BY <1>2, <1>8 DEF Leaves, OtherWalks
<1>9. ASSUME NEW p \in Proc, NEW r \in RunIds, Starts(p, r) PROVE Goal
  <2>1. /\ live'[p][r] \in RunRecord /\ live'[p][r].status = "planned"
        /\ walk'[p][r].i = 1
        /\ walk'[p][r].todo = Transition("planned", "run.created")
    BY <1>9 DEF Starts
  <2>2. GateCopy(live'[p][r], After(StoreOf[p], r))
    BY <2>1 DEF GateCopy
  <2>3. ~In(Rest, walk'[p][r].todo) /\ ~In(Started, walk'[p][r].todo)
    BY <2>1, InQueues, OpsDiffer DEF Rest, Started
  <2>4. Gates(live'[p][r].plan.nodes, 1) = {}
    BY <2>1, RecordFacts DEF Gates
  <2>5. GateWalk(walk'[p][r], live'[p][r].plan.nodes, After(StoreOf[p], r))
    BY <2>1, <2>3, <2>4 DEF GateWalk
  <2> QED BY <1>2, <1>9, <2>2, <2>5 DEF Starts, OtherWalks, OtherRuns
<1>10. ASSUME NEW p \in Proc, NEW r \in RunIds, Resumes(p, r) PROVE Goal
  <2> DEFINE x == Get(p, r)
  <2>1. /\ x \in RunRecord /\ x # None /\ x.status = "awaiting_approval"
        /\ live'[p][r] = x /\ \A op : In(op, walk'[p][r].todo) <=> op \in Resumed
    BY <1>10 DEF Resumes
  <2>2. GateCopy(x, After(StoreOf[p], r))
    BY <1>2, <2>1 DEF Get
  <2>3. PICK i \in Suspended(x.plan.nodes) : walk'[p][r].i = i + 1
    BY <1>10 DEF Resumes
  <2> HIDE DEF x
  <2>4. /\ ~In(Rest, walk'[p][r].todo) /\ ~In(Started, walk'[p][r].todo)
        /\ In(Append1("approval.granted"), walk'[p][r].todo)
    BY <2>1, OpsDiffer DEF Resumed, Rest, Started
  <2>5. x.plan.nodes \in Seq(NodeKind) /\ i \in Nat /\ x.plan.nodes[i] = "approval"
    <3>1. x.plan.nodes \in Seq(NodeKind) /\ i \in 1..Len(x.plan.nodes) /\ x.plan.nodes[i] = "approval"
      BY <2>1, RecordFacts
    <3> QED BY <3>1
  <2>6. ASSUME NEW e \in Gates(x.plan.nodes, i + 1)
        PROVE  e \in After(StoreOf[p], r) \/ e = "approval.granted"
    <3>1. e \in Gates(x.plan.nodes, i) \/ e = Evidence[x.plan.nodes[i]]
      BY <2>5, GatesFacts
    <3>2. Evidence["approval"] = "approval.granted"
      BY DEF Evidence
    <3> QED BY <2>1, <2>2, <2>3, <2>5, <3>1, <3>2 DEF GateCopy
  <2>7. GateWalk(walk'[p][r], live'[p][r].plan.nodes, After(StoreOf[p], r))
    BY <2>1, <2>3, <2>4, <2>6 DEF GateWalk
  <2> QED BY <1>2, <1>10, <2>1, <2>2, <2>7 DEF Resumes, OtherWalks, OtherRuns
<1>11. ASSUME NEW p \in Proc, Forgets(p) PROVE Goal
  BY <1>2, <1>11 DEF Forgets
<1>12. CASE Rests
  BY <1>2, <1>12 DEF Rests
<1> HIDE DEF Goal
<1> QED BY <1>3, <1>4, <1>6, <1>7, <1>8, <1>9, <1>10, <1>11, <1>12 DEF Step

\* The step that appends an attempt finds the gates before it in the log.
LEMMA StepPrecedes ==
    ASSUME GInv, CInv', AtHome', OneInvoke, GatesPrecedeEffect, Step
    PROVE  GatesPrecedeEffect'
<1> SUFFICES ASSUME NEW s \in Stores, NEW r \in RunIds
             PROVE  GatesFirst(log'[s][r], rev'[s][r].plan.nodes)
  BY DEF GatesPrecedeEffect, GatesFirst, Evidence
<1> SUFFICES ASSUME NEW j \in 1..Len(log'[s][r]),
                    log'[s][r][j] = "provider.attempt.started", NEW gate \in DOMAIN Evidence,
                    NEW a \in 1..Len(rev'[s][r].plan.nodes),
                    NEW b \in 1..Len(rev'[s][r].plan.nodes), a < b,
                    rev'[s][r].plan.nodes[a] = gate, rev'[s][r].plan.nodes[b] = "invoke"
             PROVE  \E h \in 1..(j - 1) : log'[s][r][h] = Evidence[gate]
  BY Zenon DEF GatesFirst
<1>1. /\ \A h \in 1..Len(log[s][r]) :
            h \in 1..Len(log'[s][r]) /\ log'[s][r][h] = log[s][r][h]
      /\ \/ j \in 1..Len(log[s][r])
         \/ /\ j = Len(log[s][r]) + 1
            /\ \E p \in Proc : s = StoreOf[p] /\ Appends(p, r, "provider.attempt.started")
  BY LogGrows DEF GInv, QInv
<1>2. rev[s][r] # None /\ rev'[s][r] # None => rev'[s][r].plan = rev[s][r].plan
  <2>1. \/ rev'[s][r] = rev[s][r]
        \/ \E p \in Proc : /\ live[p][r] # None /\ s = StoreOf[p]
                           /\ rev'[s][r].plan = live[p][r].plan
    <3>1. ASSUME NEW p \in Proc, NEW t \in RunIds, NEW st \in Status, Saves(p, t, st)
          PROVE  \/ rev'[s][r] = rev[s][r]
                 \/ /\ live[p][r] # None /\ s = StoreOf[p]
                    /\ rev'[s][r].plan = live[p][r].plan
      <4>1. /\ live[p][t] # None /\ rev'[StoreOf[p]][t].plan = live[p][t].plan
            /\ \A z \in Stores, u \in RunIds :
                  <<z, u>> # <<StoreOf[p], t>> => rev'[z][u] = rev[z][u]
        BY <3>1 DEF Saves, Performs, RunRecord
      <4> QED BY <4>1
    <3>2. ASSUME NEW p \in Proc, NEW t \in RunIds,
                 \/ Moves(p, t) \/ Calls(p, t) \/ Leaves(p, t) \/ Starts(p, t)
                 \/ Resumes(p, t) \/ \E ty \in Event : Appends(p, t, ty)
          PROVE  rev' = rev
      BY <3>2 DEF Moves, Calls, Leaves, Starts, Resumes, Appends
    <3>3. ASSUME Rests \/ \E p \in Proc : Forgets(p) PROVE rev' = rev
      BY <3>3 DEF Rests, Forgets
    <3> QED BY <3>1, <3>2, <3>3 DEF Step
  <2> QED BY <2>1 DEF GInv, AtHome
<1>3. CASE j \in 1..Len(log[s][r])
  <2>1. log[s][r][j] = "provider.attempt.started"
    BY <1>1, <1>3
  <2>2. rev[s][r] # None /\ rev'[s][r] # None
    <3>1. Happened(s, r, "provider.attempt.started")
      BY <1>3, <2>1 DEF Happened
    <3>2. Happened(s, r, "provider.attempt.started")'
      BY DEF Happened
    <3>3. rev[s][r] # None
      BY <3>1 DEF GInv, CInv, ClaimDiscipline, StartedOwns
    <3>4. rev'[s][r] # None
      BY <3>2 DEF CInv, ClaimDiscipline, StartedOwns
    <3> QED BY <3>3, <3>4
  <2>3. PICK h \in 1..(j - 1) : log[s][r][h] = Evidence[gate]
    <3>1. rev'[s][r].plan = rev[s][r].plan
      BY <1>2, <2>2
    <3>2. /\ a \in 1..Len(rev[s][r].plan.nodes) /\ b \in 1..Len(rev[s][r].plan.nodes)
          /\ rev[s][r].plan.nodes[a] = gate /\ rev[s][r].plan.nodes[b] = "invoke"
      BY <3>1
    <3>3. GatesFirst(log[s][r], rev[s][r].plan.nodes)
      BY DEF GatesPrecedeEffect
    <3> QED BY <1>3, <2>1, <3>2, <3>3, Zenon DEF GatesFirst
  <2>4. log[s][r] \in Seq(Event)
    BY DEF GInv, QInv, TInv, TypeOK
  <2>5. h \in 1..Len(log[s][r])
    BY <1>3, <2>4
  <2> QED BY <1>1, <2>3, <2>5
<1>4. ASSUME NEW p \in Proc, s = StoreOf[p], Appends(p, r, "provider.attempt.started"),
             j = Len(log[s][r]) + 1
      PROVE  \E h \in 1..(j - 1) : log'[s][r][h] = Evidence[gate]
  <2> DEFINE nodes == live[p][r].plan.nodes
             w == walk[p][r]
  <2>1. /\ w # None /\ live[p][r] # None /\ live[p][r] \in RunRecord /\ w.todo \in Seq(Op)
        /\ w.todo # << >> /\ Head(w.todo) = Started /\ w \in Walker /\ rev' = rev
    BY <1>4 DEF Appends, Performs, Performed, Started, Walker
  <2>2. In(Started, w.todo)
    BY <2>1, InTail
  <2>3. /\ w.then = "await" /\ nodes[w.i] = "invoke" /\ w.i \in 1..Len(nodes)
        /\ Gates(nodes, w.i) \subseteq Known(s, r)
    <3>1. w.i \in Nat
      BY <2>1 DEF Walker
    <3>2. nodes \in Seq(NodeKind) /\ Len(nodes) \in Nat
      <4>1. nodes \in Seq(NodeKind)
        BY <2>1, RecordFacts
      <4> HIDE DEF nodes
      <4> QED BY <4>1
    <3>3. Queue(w, nodes)
      BY <2>1 DEF GInv, QInv, QueuesFit
    <3>4. GateWalk(w, nodes, Known(s, r))
      BY <1>4, <2>1 DEF GInv, GatesRecorded
    <3> HIDE DEF w, nodes
    <3>5. w.then = "await" /\ nodes[w.i] = "invoke" /\ w.i >= 1 /\ w.i <= Len(nodes)
      BY <2>2, <3>3 DEF Queue
    <3> QED BY <2>2, <3>1, <3>2, <3>4, <3>5 DEF GateWalk
  <2>4. rev[s][r] # None
    <3>1. Happened(s, r, "provider.attempt.started")'
      BY DEF Happened
    <3> QED BY <2>1, <3>1 DEF CInv, ClaimDiscipline, StartedOwns
  <2>5. rev'[s][r].plan.nodes = nodes /\ live[p][r].plan \in Plans
    BY <2>1, <2>4, RecordFacts DEF GInv, AtHome
  <2>6. b = w.i /\ nodes[a] = gate /\ a \in 1..Len(nodes)
    <3>1. nodes \in Seq(NodeKind)
      BY <2>1, RecordFacts
    <3>2. b \in 1..Len(nodes) /\ nodes[b] = "invoke" /\ nodes[a] = gate /\ a \in 1..Len(nodes)
      BY <2>5
    <3> QED BY <2>3, <2>5, <3>1, <3>2 DEF OneInvoke
  <2>7. Evidence[gate] \in Gates(nodes, w.i)
    BY <2>6 DEF Gates
  <2>8. PICK h \in 1..Len(log[s][r]) : log[s][r][h] = Evidence[gate]
    BY <2>3, <2>7 DEF Known, Happened
  <2>9. log[s][r] \in Seq(Event)
    BY DEF GInv, QInv, TInv, TypeOK
  <2>10. h \in 1..(j - 1)
    BY <1>4, <2>9
  <2> QED BY <1>1, <2>8, <2>10
<1> QED BY <1>1, <1>3, <1>4

\* Before any attempt of a run, the log shows that the principal was authorized, the
\* policy decided and the approval granted, where its plan asks for them first, in every
\* interleaving, approval and restart (walk, approve).
THEOREM GatesComeFirst == UniqueIds /\ OneInvoke => (Spec => []GatesPrecedeEffect)
<1> SUFFICES ASSUME UniqueIds, OneInvoke PROVE Spec => []GatesPrecedeEffect
  OBVIOUS
<1> DEFINE Inv == GInv /\ GatesPrecedeEffect
<1>1. Init => Inv
  <2> SUFFICES ASSUME Init PROVE Inv
    OBVIOUS
  <2>1. CInv /\ QInv
    BY InitTInv, InitDiscipline, InitQueues DEF CInv
  <2>2. AtHome /\ GatesRecorded
    BY ProcAssumption DEF Init, AtHome, GatesRecorded, ProcAssumption
  <2>3. GatesPrecedeEffect
    <3>1. \A s \in Stores, r \in RunIds : Len(log[s][r]) = 0
      BY DEF Init
    <3> QED BY <3>1 DEF GatesPrecedeEffect, GatesFirst
  <2> QED BY <2>1, <2>2, <2>3 DEF GInv
<1>2. Inv /\ [Next]_vars => Inv'
  <2> SUFFICES ASSUME Inv, [Next]_vars PROVE Inv'
    OBVIOUS
  <2>1. TInv /\ QInv /\ CInv /\ AtHome /\ Step
    BY StepForm DEF GInv, QInv
  <2>2. TInv' /\ QInv' /\ CInv'
    BY <2>1, NextTInv, NextQueues, NextDiscipline
  <2>3. AtHome'
    BY <2>1, StepHome
  <2>4. GatesRecorded'
    BY <2>1, <2>2, StepGates
  <2>5. GatesPrecedeEffect'
    BY <2>1, <2>2, <2>3, StepPrecedes
  <2> QED BY <2>2, <2>3, <2>4, <2>5 DEF GInv
<1>3. Inv => GatesPrecedeEffect
  OBVIOUS
<1> HIDE DEF Inv
<1> QED BY <1>1, <1>2, <1>3, PTL DEF Spec

-----------------------------------------------------------------------------
(* One walk writes a run *)

\* Two processes that both receive approve() would both resume a run from the copy
\* each has of it.
OneApprover == \A a, b \in Approvers : a = b

\* A walk that may still save its run.
Writes(w) == w # None /\ (w.then # "end" \/ ~NoSave(w.todo))

\* At most one process writes a run; none writes a run whose saved status is terminal,
\* and only a resuming approver one that is suspended.  An approver's suspended copy is
\* what its store has.
OneWriter ==
    \A p, q \in Proc, r \in RunIds : Writes(walk[p][r]) /\ Writes(walk[q][r]) => p = q

WriterMayWrite ==
    \A p \in Proc, s \in Stores, r \in RunIds :
        Writes(walk[p][r]) /\ rev[s][r] # None =>
            /\ rev[s][r].status \notin Terminal
            /\ rev[s][r].status = "awaiting_approval" =>
                  p \in Approvers /\ In(Save("planned"), walk[p][r].todo)

ApproverIsCurrent ==
    \A a \in Approvers, r \in RunIds :
        live[a][r] # None /\ live[a][r].status = "awaiting_approval" =>
            /\ rev[StoreOf[a]][r] # None
            /\ rev[StoreOf[a]][r].status = "awaiting_approval"

WInv == QInv /\ CInv /\ AtHome /\ OneWriter /\ WriterMayWrite /\ ApproverIsCurrent

\* A walk only writes if it did before, until it is resumed.
LEMMA WritesKept ==
    ASSUME NEW v, NEW w, v # None
    PROVE  /\ Performed(v, w) /\ Writes(w) => Writes(v)
           /\ \A x, y : Advance(v, w, x, y) => Writes(v)
           /\ Performed(v, w) /\ Head(v.todo).op = "save" => Writes(v)
<1>1. ASSUME Performed(v, w)
      PROVE  /\ Writes(w) => Writes(v)
             /\ Head(v.todo).op = "save" => Writes(v)
  <2>1. /\ \A op : In(op, v.todo) <=> op = Head(v.todo) \/ In(op, w.todo)
        /\ w.then = v.then
    BY <1>1, PerformedQueue DEF Performed
  <2> QED BY <2>1 DEF Writes, NoSave
<1>2. ASSUME NEW x, NEW y, Advance(v, w, x, y) PROVE Writes(v)
  BY <1>2 DEF Advance, Opened, Begun, Passed, Retried, Ended, Writes
<1> QED BY <1>1, <1>2

\* After a save only a walk that goes on still writes.
LEMMA SavedWrites ==
    ASSUME NEW v, NEW w, NEW nodes, NEW st \in Status, v # None, w # None,
           Performed(v, w), Head(v.todo) = Save(st), Queue(v, nodes), Writes(w)
    PROVE  st \in {"planned", "running"}
<1>1. /\ \A op : In(op, v.todo) <=> op = Head(v.todo) \/ In(op, w.todo)
      /\ NoSave(w.todo) /\ w.then = v.then
  BY PerformedQueue, OpsDiffer DEF Queue, Orderly, Performed
<1>2. v.then # "end"
  BY <1>1 DEF Writes
<1> QED BY <1>1, <1>2 DEF Queue

\* An approver finds the run it resumes suspended in its store.
LEMMA ResumedFromStore ==
    ASSUME WInv, NEW p \in Proc, NEW r \in RunIds, Resumes(p, r)
    PROVE  /\ rev[StoreOf[p]][r] # None
           /\ rev[StoreOf[p]][r].status = "awaiting_approval"
           /\ rev[StoreOf[p]][r].plan = Get(p, r).plan
           /\ \A s \in Stores : rev[s][r] # None => s = StoreOf[p]
<1>1. /\ p \in Approvers /\ Get(p, r) # None /\ Get(p, r).status = "awaiting_approval"
      /\ StoreOf[p] \in Stores
  BY ProcAssumption DEF Resumes, ProcAssumption
<1>2. /\ rev[StoreOf[p]][r] # None
      /\ rev[StoreOf[p]][r].status = "awaiting_approval"
  BY <1>1 DEF Get, WInv, ApproverIsCurrent
<1> QED BY <1>1, <1>2 DEF Get, WInv, AtHome

LEMMA StepWriters ==
    ASSUME WInv, UniqueIds, OneApprover, Step
    PROVE  OneWriter' /\ WriterMayWrite' /\ ApproverIsCurrent'
<1> DEFINE Goal ==
       /\ \A a, b \in Proc, t \in RunIds : Writes(walk'[a][t]) /\ Writes(walk'[b][t]) => a = b
       /\ \A a \in Proc, s \in Stores, t \in RunIds :
             Writes(walk'[a][t]) /\ rev'[s][t] # None =>
                /\ rev'[s][t].status \notin Terminal
                /\ rev'[s][t].status = "awaiting_approval" =>
                      a \in Approvers /\ In(Save("planned"), walk'[a][t].todo)
       /\ \A a \in Approvers, t \in RunIds :
             live'[a][t] # None /\ live'[a][t].status = "awaiting_approval" =>
                /\ rev'[StoreOf[a]][t] # None
                /\ rev'[StoreOf[a]][t].status = "awaiting_approval"
<1> SUFFICES Goal
  BY DEF OneWriter, WriterMayWrite, ApproverIsCurrent, Writes, NoSave, In, Save
<1>1. /\ \A a, b \in Proc, t \in RunIds : Writes(walk[a][t]) /\ Writes(walk[b][t]) => a = b
      /\ \A a \in Proc, s \in Stores, t \in RunIds :
            Writes(walk[a][t]) /\ rev[s][t] # None =>
               /\ rev[s][t].status \notin Terminal
               /\ rev[s][t].status = "awaiting_approval" =>
                     a \in Approvers /\ In(Save("planned"), walk[a][t].todo)
      /\ \A a \in Approvers, t \in RunIds :
            live[a][t] # None /\ live[a][t].status = "awaiting_approval" =>
               /\ rev[StoreOf[a]][t] # None
               /\ rev[StoreOf[a]][t].status = "awaiting_approval"
      /\ \A a \in Proc : StoreOf[a] \in Stores
      /\ \A a \in Approvers : a \in Proc
  BY ProcAssumption DEF WInv, OneWriter, WriterMayWrite, ApproverIsCurrent, ProcAssumption
<1>2. ~Writes(None)
  BY DEF Writes
<1>3. ASSUME NEW p \in Proc, NEW r \in RunIds, Moves(p, r) PROVE Goal
  <2>1. /\ Writes(walk[p][r]) /\ walk[p][r].todo = << >>
        /\ live'[p][r].status = live[p][r].status /\ live[p][r] # None
    BY <1>3, WritesKept DEF Moves, Advance
  <2>2. \A s \in Stores : rev[s][r] # None => rev[s][r].status # "awaiting_approval"
    BY <1>1, <2>1, InEmpty
  <2> QED BY <1>1, <1>3, <2>1, <2>2 DEF Moves, OtherWalks, OtherRuns
<1>4. ASSUME NEW p \in Proc, NEW r \in RunIds, NEW st \in Status, Saves(p, r, st) PROVE Goal
  <2>1. /\ walk[p][r] # None /\ live[p][r] # None /\ live[p][r] \in RunRecord
        /\ Performed(walk[p][r], walk'[p][r]) /\ Head(walk[p][r].todo) = Save(st)
        /\ OtherWalks(p, r) /\ OtherRuns(p, r)
        /\ rev'[StoreOf[p]][r] = live'[p][r]
        /\ \A s \in Stores, t \in RunIds :
              <<s, t>> # <<StoreOf[p], r>> => rev'[s][t] = rev[s][t]
    BY <1>4 DEF Saves, Performs
  <2>2. live'[p][r] \in RunRecord /\ live'[p][r].status = st /\ live'[p][r] # None
    <3>1. live'[p][r] = [live[p][r] EXCEPT !.status = st]
      BY <1>4 DEF Saves
    <3> QED BY <2>1, <3>1, NoneAssumption DEF RunRecord, NoneAssumption
  <2>3. Writes(walk[p][r]) /\ \A a \in Proc : a # p => ~Writes(walk[a][r])
    BY <1>1, <2>1, WritesKept, OpsDiffer
  <2>4. /\ \A a \in Proc : a # p => ~Writes(walk'[a][r])
        /\ \A s \in Stores : s # StoreOf[p] => rev[s][r] = None
    BY <2>1, <2>3 DEF OtherWalks, WInv, AtHome
  <2>5. Writes(walk'[p][r]) => st \in {"planned", "running"}
    <3>1. Queue(walk[p][r], live[p][r].plan.nodes)
      BY <2>1 DEF WInv, QInv, QueuesFit
    <3>2. Writes(walk'[p][r]) => walk'[p][r] # None
      BY <1>2
    <3> QED BY <2>1, <3>1, <3>2, SavedWrites
  <2>6. ASSUME NEW a \in Approvers, live'[a][r] # None,
               live'[a][r].status = "awaiting_approval"
        PROVE  st = "awaiting_approval" /\ rev'[StoreOf[a]][r] = live'[p][r]
    <3>1. CASE a = p
      BY <2>1, <2>2, <2>6, <3>1
    <3>2. CASE a # p
      <4>1. /\ rev[StoreOf[a]][r] # None /\ StoreOf[a] \in Stores
            /\ rev[StoreOf[a]][r].status = "awaiting_approval"
        BY <1>1, <2>1, <2>6, <3>2 DEF OtherRuns
      <4>2. p \in Approvers
        BY <1>1, <2>3, <4>1
      <4> QED BY <3>2, <4>2 DEF OneApprover
    <3> QED BY <3>1, <3>2
  <2>7. \A a \in Proc, t \in RunIds :
           Writes(walk'[a][t]) => (t # r /\ walk'[a][t] = walk[a][t]) \/ (t = r /\ a = p)
    BY <2>1, <2>4 DEF OtherWalks
  <2>8. \A a, b \in Proc, t \in RunIds : Writes(walk'[a][t]) /\ Writes(walk'[b][t]) => a = b
    BY <1>1, <2>7
  <2>9. ASSUME NEW a \in Proc, NEW s \in Stores, NEW t \in RunIds,
               Writes(walk'[a][t]), rev'[s][t] # None
        PROVE  /\ rev'[s][t].status \notin Terminal
               /\ rev'[s][t].status = "awaiting_approval" =>
                     a \in Approvers /\ In(Save("planned"), walk'[a][t].todo)
    <3>1. CASE t # r
      BY <1>1, <2>1, <2>7, <2>9, <3>1
    <3>2. CASE t = r
      <4>1. s = StoreOf[p] /\ st \in {"planned", "running"}
        BY <2>1, <2>4, <2>5, <2>7, <2>9, <3>2
      <4> QED BY <2>1, <2>2, <3>2, <4>1 DEF Terminal
    <3> QED BY <3>1, <3>2
  <2>10. ASSUME NEW a \in Approvers, NEW t \in RunIds,
                live'[a][t] # None, live'[a][t].status = "awaiting_approval"
         PROVE  /\ rev'[StoreOf[a]][t] # None
                /\ rev'[StoreOf[a]][t].status = "awaiting_approval"
    <3>1. CASE t # r
      BY <1>1, <2>1, <2>10, <3>1 DEF OtherRuns
    <3>2. CASE t = r
      BY <2>2, <2>6, <2>10, <3>2
    <3> QED BY <3>1, <3>2
  <2> QED BY <2>8, <2>9, <2>10
<1>5. ASSUME NEW p \in Proc, NEW r \in RunIds, NEW op, Performs(p, r, op), op.op # "save",
             UNCHANGED <<live, rev>>
      PROVE  Goal
  <2>1. /\ Writes(walk'[p][r]) => Writes(walk[p][r])
        /\ In(Save("planned"), walk[p][r].todo) => In(Save("planned"), walk'[p][r].todo)
    <3>1. Performed(walk[p][r], walk'[p][r]) /\ walk[p][r] # None /\ Head(walk[p][r].todo) = op
      BY <1>5 DEF Performs
    <3>2. Save("planned") # op
      BY <1>5, OpsDiffer
    <3> QED BY <3>1, <3>2, WritesKept, PerformedQueue
  <2> QED BY <1>1, <1>5, <2>1 DEF Performs, OtherWalks
<1>6. ASSUME NEW p \in Proc, NEW r \in RunIds, NEW ty \in Event, Appends(p, r, ty) PROVE Goal
  BY <1>5, <1>6, OpsDiffer DEF Appends
<1>7. ASSUME NEW p \in Proc, NEW r \in RunIds, Calls(p, r) PROVE Goal
  BY <1>5, <1>7, OpsDiffer DEF Calls
<1>8. ASSUME NEW p \in Proc, NEW r \in RunIds, Leaves(p, r) PROVE Goal
  BY <1>1, <1>2, <1>8 DEF Leaves, OtherWalks
<1>9. ASSUME NEW p \in Proc, NEW r \in RunIds, Starts(p, r) PROVE Goal
  <2>1. /\ \A q \in Proc : live[q][r] = None
        /\ \A s \in Stores : rev[s][r] = None
    BY <1>9, FreshIsNew DEF Starts, WInv
  <2>2. \A q \in Proc : walk[q][r] = None
    BY <2>1 DEF WInv, CInv, TInv, WalkHasRun
  <2>3. live'[p][r].status = "planned" /\ OtherWalks(p, r) /\ OtherRuns(p, r) /\ rev' = rev
    BY <1>9 DEF Starts
  <2> QED BY <1>1, <1>2, <2>1, <2>2, <2>3 DEF OtherWalks, OtherRuns
<1>10. ASSUME NEW p \in Proc, NEW r \in RunIds, Resumes(p, r) PROVE Goal
  <2>1. /\ rev[StoreOf[p]][r] # None
        /\ rev[StoreOf[p]][r].status = "awaiting_approval"
        /\ \A s \in Stores : rev[s][r] # None => s = StoreOf[p]
    BY <1>10, ResumedFromStore
  <2>2. /\ p \in Approvers /\ live'[p][r] = Get(p, r) /\ rev' = rev
        /\ OtherWalks(p, r) /\ OtherRuns(p, r)
        /\ In(Save("planned"), walk'[p][r].todo)
    BY <1>10 DEF Resumes, Resumed
  <2>3. \A a \in Proc : Writes(walk[a][r]) => a = p
    BY <1>1, <2>1, <2>2 DEF OneApprover
  <2>4. \A a \in Proc, t \in RunIds :
           Writes(walk'[a][t]) => (t # r /\ walk'[a][t] = walk[a][t]) \/ (t = r /\ a = p)
    BY <2>2, <2>3 DEF OtherWalks
  <2>5. \A a, b \in Proc, t \in RunIds : Writes(walk'[a][t]) /\ Writes(walk'[b][t]) => a = b
    BY <1>1, <2>4
  <2>6. ASSUME NEW a \in Proc, NEW s \in Stores, NEW t \in RunIds,
               Writes(walk'[a][t]), rev'[s][t] # None
        PROVE  /\ rev'[s][t].status \notin Terminal
               /\ rev'[s][t].status = "awaiting_approval" =>
                     a \in Approvers /\ In(Save("planned"), walk'[a][t].todo)
    <3>1. CASE t # r
      BY <1>1, <2>2, <2>4, <2>6, <3>1
    <3>2. CASE t = r
      BY <2>1, <2>2, <2>4, <2>6, <3>2 DEF Terminal
    <3> QED BY <3>1, <3>2
  <2>7. ASSUME NEW a \in Approvers, NEW t \in RunIds,
               live'[a][t] # None, live'[a][t].status = "awaiting_approval"
        PROVE  /\ rev'[StoreOf[a]][t] # None
               /\ rev'[StoreOf[a]][t].status = "awaiting_approval"
    BY <1>1, <2>1, <2>2, <2>7 DEF OtherRuns
  <2> QED BY <2>5, <2>6, <2>7
<1>11. ASSUME NEW p \in Proc, Forgets(p) PROVE Goal
  BY <1>1, <1>2, <1>11 DEF Forgets
<1>12. CASE Rests
  BY <1>1, <1>12 DEF Rests
<1> HIDE DEF Goal
<1> QED BY <1>3, <1>4, <1>6, <1>7, <1>8, <1>9, <1>10, <1>11, <1>12 DEF Step

LEMMA InitWInv == Init => WInv
<1> SUFFICES ASSUME Init PROVE WInv
  OBVIOUS
<1>1. CInv /\ QInv
  BY InitTInv, InitDiscipline, InitQueues DEF CInv
<1>2. AtHome /\ OneWriter /\ WriterMayWrite /\ ApproverIsCurrent
  BY ProcAssumption DEF Init, AtHome, OneWriter, WriterMayWrite, ApproverIsCurrent, Writes,
     ProcAssumption
<1> QED BY <1>1, <1>2 DEF WInv

LEMMA NextWInv ==
    ASSUME WInv, UniqueIds, OneApprover, [Next]_vars
    PROVE  WInv' /\ Step
<1>1. TInv /\ QInv /\ CInv /\ AtHome /\ Step
  BY StepForm DEF WInv, QInv
<1>2. QInv' /\ CInv'
  BY <1>1, NextQueues, NextDiscipline
<1>3. AtHome'
  BY <1>1, StepHome
<1>4. OneWriter' /\ WriterMayWrite' /\ ApproverIsCurrent'
  BY <1>1, StepWriters
<1> QED BY <1>1, <1>2, <1>3, <1>4 DEF WInv

\* No late provider answer, approval, replay or restart saves another status over a
\* terminal one, as long as one process receives approve() (transition, approve).
THEOREM VerdictsAreFinal == UniqueIds /\ OneApprover => (Spec => TerminalIsFinal)
<1> SUFFICES ASSUME UniqueIds, OneApprover PROVE Spec => TerminalIsFinal
  OBVIOUS
<1> DEFINE Keeps == \A s \in Stores, r \in RunIds :
                       rev[s][r] # None /\ rev[s][r].status \in Terminal =>
                          rev'[s][r].status = rev[s][r].status
<1>1. ASSUME WInv, Step PROVE Keeps
  <2> SUFFICES ASSUME NEW s \in Stores, NEW t \in RunIds, rev[s][t] # None,
                      rev[s][t].status \in Terminal
               PROVE  rev'[s][t] = rev[s][t]
    OBVIOUS
  <2>1. ASSUME NEW p \in Proc, NEW r \in RunIds, NEW st \in Status, Saves(p, r, st)
        PROVE  rev'[s][t] = rev[s][t]
    <3>1. Writes(walk[p][r])
      BY <2>1, WritesKept, OpsDiffer DEF Saves, Performs
    <3>2. <<s, t>> # <<StoreOf[p], r>>
      BY <1>1, <3>1 DEF WInv, WriterMayWrite
    <3> QED BY <2>1, <3>2 DEF Saves
  <2>2. ASSUME NEW p \in Proc, NEW r \in RunIds,
               \/ Moves(p, r) \/ Calls(p, r) \/ Leaves(p, r) \/ Starts(p, r)
               \/ Resumes(p, r) \/ \E ty \in Event : Appends(p, r, ty)
        PROVE  rev'[s][t] = rev[s][t]
    BY <2>2 DEF Moves, Calls, Leaves, Starts, Resumes, Appends
  <2>3. ASSUME Rests \/ \E p \in Proc : Forgets(p) PROVE rev'[s][t] = rev[s][t]
    BY <2>3 DEF Rests, Forgets
  <2> QED BY <1>1, <2>1, <2>2, <2>3 DEF Step
<1>2. WInv /\ [Next]_vars => WInv' /\ [Keeps]_vars
  BY <1>1, NextWInv
<1>3. TerminalIsFinal <=> [][Keeps]_vars
  BY DEF TerminalIsFinal
<1> HIDE DEF Keeps
<1> QED BY <1>2, <1>3, InitWInv, PTL DEF Spec
-----------------------------------------------------------------------------
(* One effect *)

\* No plan has InvokeAction between two AwaitApproval nodes: the second suspension would
\* resume behind the first, and invoke again.
OneSide ==
    \A plan \in Plans : \A i, j, l \in DOMAIN plan.nodes :
        plan.nodes[i] = "approval" /\ plan.nodes[j] = "invoke" /\ plan.nodes[l] = "approval"
            => ~(i < j /\ j < l)

\* An approval of the run leads to an attempt, and a walk may still come to its first one:
\* at a node it has not begun, a call it has queued, or after it is suspended and resumed.
Leads(nodes) == \E i \in Suspended(nodes), j \in 1..Len(nodes) : i < j /\ nodes[j] = "invoke"

Effective(w, nodes) ==
    \/ /\ w.then # "end"
       /\ \E j \in 1..Len(nodes) :
             /\ nodes[j] = "invoke" /\ w.i <= j
             /\ w.then = "await" => w.i # j
    \/ In(CallProvider1, w.todo) /\ w.n = 1
    \/ In(Rest, w.todo) /\ Leads(nodes)

\* A run whose effect was started will not start another.
Spent(r) ==
    /\ \E s \in Stores : rev[s][r] # None
    /\ \A s \in Stores : rev[s][r] # None /\ rev[s][r].status = "awaiting_approval" =>
          ~Leads(rev[s][r].plan.nodes)
    /\ \A p \in Proc :
          walk[p][r] # None => ~Effective(walk[p][r], live[p][r].plan.nodes)

SpentOnce ==
    \A k \in Keys : effects[k] > 0 =>
        effects[k] = 1 /\ \E r \in RunIds : ledger[k] # None /\ ledger[k].run = r /\ Spent(r)

LEMMA AdvanceEffective ==
    ASSUME OneSide, NEW v, NEW w, NEW x, NEW y, Advance(v, w, x, y), Queue(v, x.plan.nodes),
           Effective(w, y.plan.nodes)
    PROVE  Effective(v, x.plan.nodes)
<1> DEFINE nodes == x.plan.nodes
<1>1. /\ v \in Walker /\ w \in Walker /\ x \in RunRecord /\ y.plan = x.plan
      /\ v.i \in Nat /\ w.i \in Nat /\ nodes \in Seq(NodeKind) /\ x.plan \in Plans
      /\ v.then # "end"
  BY RecordFacts DEF Advance, Walker, Opened, Begun, Passed, Retried, Ended
<1>2. v.then = "await" => v.i \in 1..Len(nodes)
  BY <1>1 DEF Queue
<1>3. ASSUME w.then # "end", NEW j \in 1..Len(nodes), nodes[j] = "invoke", w.i <= j,
             w.then = "await" => w.i # j
      PROVE  Effective(v, nodes)
  <2>1. CASE Opened(v, w, x, y) \/ Begun(v, w, x, y) \/ Retried(v, w, x, y)
    <3>1. w.i = v.i /\ (v.then = "await" => w.then = "await")
      BY <2>1 DEF Opened, Begun, Retried
    <3> QED BY <1>1, <1>3, <3>1 DEF Effective
  <2>2. CASE Passed(v, w, x, y)
    <3>1. w.i = v.i + 1
      BY <2>2 DEF Passed
    <3>2. v.i <= j /\ v.i # j
      BY <1>1, <1>3, <3>1
    <3> QED BY <1>1, <1>3, <3>2 DEF Effective
  <2>3. ~Ended(v, w, x, y)
    BY <1>3 DEF Ended
  <2> QED BY <2>1, <2>2, <2>3 DEF Advance
<1>4. ASSUME In(CallProvider1, w.todo), w.n = 1 PROVE Effective(v, nodes)
  <2>1. Begun(v, w, x, y)
    BY <1>4, InEmpty DEF Advance, Opened, Passed, Retried, Ended
  <2>2. v.then = "enter" /\ w.i = v.i /\ w.i <= Len(nodes) /\ nodes[w.i] = "invoke"
    BY <1>4, <2>1 DEF Begun
  <2>3. w.i \in 1..Len(nodes)
    BY <1>1, <2>2 DEF Queue
  <2> QED BY <2>2, <2>3 DEF Effective
<1>5. ASSUME In(Rest, w.todo), Leads(nodes) PROVE Effective(v, nodes)
  <2>1. v.then = "await" /\ nodes[v.i] = "approval"
    <3>1. ~Opened(v, w, x, y) /\ ~Begun(v, w, x, y) /\ ~Passed(v, w, x, y)
          /\ ~Retried(v, w, x, y)
      BY <1>5, InEmpty, OpsDiffer DEF Opened, Begun, Passed, Retried, Rest, NoSave
    <3> QED BY <1>5, <3>1 DEF Advance, Ended
  <2>2. PICK i \in Suspended(nodes), j \in 1..Len(nodes) : i < j /\ nodes[j] = "invoke"
    BY <1>5 DEF Leads
  <2>3. i \in 1..Len(nodes) /\ nodes[i] = "approval" /\ v.i \in 1..Len(nodes)
    BY <1>1, <1>2, <2>1, <2>2 DEF Suspended
  <2>4. ~(j < v.i) /\ j # v.i
    BY <1>1, <2>1, <2>2, <2>3 DEF OneSide
  <2>5. v.i <= j
    BY <1>1, <2>3, <2>4
  <2> QED BY <1>1, <2>2, <2>4, <2>5 DEF Effective
<1> QED BY <1>1, <1>3, <1>4, <1>5 DEF Effective

LEMMA PerformEffective ==
    ASSUME NEW v, NEW w, NEW nodes, Performed(v, w)
    PROVE  /\ Effective(w, nodes) => Effective(v, nodes)
           /\ Head(v.todo) = Rest /\ Leads(nodes) => Effective(v, nodes)
           /\ Head(v.todo) = CallProvider1 /\ v.n = 1 => Effective(v, nodes)
<1>1. /\ \A op : In(op, v.todo) <=> op = Head(v.todo) \/ In(op, w.todo)
      /\ w.i = v.i /\ w.n = v.n /\ w.then = v.then
  BY PerformedQueue DEF Performed
<1> QED BY <1>1 DEF Effective

\* A call of the provider is the last the walk of its run had to start.
LEMMA CallSpends ==
    ASSUME WInv, OneInvoke, NEW p \in Proc, NEW r \in RunIds, Calls(p, r), walk[p][r].n = 1
    PROVE  /\ Owns(live[p][r], r) /\ live[p][r].key \in Keys
           /\ \E s \in Stores : rev[s][r] # None
           /\ \A s \in Stores : rev[s][r] # None => rev[s][r].status # "awaiting_approval"
           /\ \A q \in Proc : walk'[q][r] # None =>
                 ~Effective(walk'[q][r], live[q][r].plan.nodes)
<1> DEFINE v == walk[p][r]
           w == walk'[p][r]
           nodes == live[p][r].plan.nodes
<1>1. /\ v # None /\ live[p][r] # None /\ live[p][r] \in RunRecord /\ OtherWalks(p, r)
      /\ Performed(v, w) /\ Head(v.todo) = CallProvider1 /\ v \in Walker
      /\ v.todo # << >> /\ v.todo \in Seq(Op)
  BY DEF Calls, Performs, Performed, Walker
<1>2. /\ \A op : In(op, v.todo) <=> op = Head(v.todo) \/ In(op, w.todo)
      /\ CallLast(v.todo) => w.todo = << >>
      /\ w.i = v.i /\ w.then = v.then /\ w.n = v.n
  BY <1>1, PerformedQueue DEF Performed
<1>3. Queue(v, nodes)
  BY <1>1 DEF WInv, QInv, QueuesFit
<1>4. /\ w.todo = << >> /\ v.then = "await" /\ nodes[v.i] = "invoke" /\ v.i >= 1
      /\ v.i <= Len(nodes)
  BY <1>1, <1>2, <1>3 DEF Queue, Orderly
<1>5. \A op : In(op, v.todo) => op = CallProvider1
  BY <1>1, <1>2, <1>4, InEmpty
<1>6. Owns(live[p][r], r)
  <2>1. v.claimed
    <3>1. CallProvider1 \notin Harmless
      BY DEF Harmless
    <3>2. v.todo \in Seq(Harmless) => Head(v.todo) \in Harmless
      BY <1>1
    <3> QED BY <1>1, <3>1, <3>2 DEF WInv, CInv, ClaimDiscipline, UnclaimedHarmless
  <2> QED BY <1>1, <2>1 DEF WInv, CInv, ClaimDiscipline, ClaimedOwns
<1>7. StoreOf[p] \in Stores /\ rev[StoreOf[p]][r] # None
  <2>1. StoreOf[p] \in Stores
    BY ProcAssumption DEF ProcAssumption
  <2>2. Head(Transition("planned", "run.created")) # CallProvider1
    BY OpsDiffer DEF Transition
  <2> QED BY <1>1, <2>1, <2>2 DEF WInv, CInv, ClaimDiscipline, SavedFirst
<1>8. Writes(v)
  BY <1>1, <1>4 DEF Writes
<1>9. ASSUME NEW s \in Stores, rev[s][r] # None PROVE rev[s][r].status # "awaiting_approval"
  BY <1>5, <1>8, <1>9, OpsDiffer DEF WInv, WriterMayWrite
<1>10. ASSUME NEW q \in Proc, walk'[q][r] # None
       PROVE  ~Effective(walk'[q][r], live[q][r].plan.nodes)
  <2>1. CASE q = p
    <3>1. \A j \in 1..Len(nodes) : nodes[j] = "invoke" => j = v.i
      <4>1. nodes \in Seq(NodeKind) /\ live[p][r].plan \in Plans /\ v.i \in Nat
        BY <1>1, RecordFacts DEF Walker
      <4> HIDE DEF nodes, v
      <4>2. v.i \in 1..Len(nodes) /\ nodes[v.i] = "invoke" /\ DOMAIN nodes = 1..Len(nodes)
        BY <1>4, <4>1
      <4> QED BY <4>1, <4>2 DEF OneInvoke, nodes
    <3> QED BY <1>2, <1>4, <2>1, <3>1, InEmpty DEF Effective
  <2>2. CASE q # p
    <3>1. walk'[q][r] = walk[q][r] /\ walk[q][r] # None
      BY <1>1, <1>10, <2>2 DEF OtherWalks
    <3>2. ~Writes(walk[q][r])
      BY <1>8, <2>2 DEF WInv, OneWriter
    <3>3. walk[q][r].then = "end" /\ NoSave(walk[q][r].todo)
      BY <3>1, <3>2 DEF Writes
    <3>4. Queue(walk[q][r], live[q][r].plan.nodes)
      BY <3>1 DEF WInv, QInv, QueuesFit
    <3>5. ~In(CallProvider1, walk[q][r].todo) /\ ~In(Rest, walk[q][r].todo)
      BY <3>3, <3>4, OpsDiffer DEF Queue, NoSave, Rest
    <3> QED BY <3>1, <3>3, <3>5 DEF Effective
  <2> QED BY <2>1, <2>2
<1> QED BY <1>1, <1>6, <1>7, <1>9, <1>10 DEF RunRecord

\* A run whose effect was started stays spent.
LEMMA SpentKept ==
    ASSUME WInv, UniqueIds, OneSide, Step, NEW t \in RunIds, Spent(t)
    PROVE  /\ Spent(t)'
           /\ \A p \in Proc : Calls(p, t) => walk[p][t].n # 1
<1> DEFINE Goal == /\ \E s \in Stores : rev'[s][t] # None
                   /\ \A s \in Stores :
                         rev'[s][t] # None /\ rev'[s][t].status = "awaiting_approval" =>
                            ~Leads(rev'[s][t].plan.nodes)
                   /\ \A q \in Proc : walk'[q][t] # None =>
                         ~Effective(walk'[q][t], live'[q][t].plan.nodes)
<1>1. /\ \E s \in Stores : rev[s][t] # None
      /\ \A s \in Stores : rev[s][t] # None /\ rev[s][t].status = "awaiting_approval" =>
            ~Leads(rev[s][t].plan.nodes)
      /\ \A q \in Proc : walk[q][t] # None =>
            ~Effective(walk[q][t], live[q][t].plan.nodes)
  BY DEF Spent
<1>2. ASSUME NEW p \in Proc, Calls(p, t) PROVE walk[p][t].n # 1
  BY <1>1, <1>2, PerformEffective DEF Calls, Performs
<1>3. ASSUME NEW p \in Proc, NEW r \in RunIds, Moves(p, r) PROVE Goal
  <2>1. ASSUME r = t
        PROVE  /\ walk[p][t] # None /\ Queue(walk[p][t], live[p][t].plan.nodes)
               /\ ~Effective(walk'[p][t], live'[p][t].plan.nodes)
    <3>1. /\ walk[p][t] # None
          /\ Advance(walk[p][t], walk'[p][t], live[p][t], live'[p][t])
      BY <1>3, <2>1 DEF Moves
    <3>2. Queue(walk[p][t], live[p][t].plan.nodes)
      BY <3>1 DEF WInv, QInv, QueuesFit
    <3> QED BY <1>1, <3>1, <3>2, AdvanceEffective
  <2> QED BY <1>1, <1>3, <2>1 DEF Moves, OtherWalks, OtherRuns
<1>4. ASSUME NEW p \in Proc, NEW r \in RunIds, NEW st \in Status, Saves(p, r, st) PROVE Goal
  <2>1. /\ walk[p][r] # None /\ live[p][r] # None /\ live[p][r] \in RunRecord
        /\ Performed(walk[p][r], walk'[p][r]) /\ Head(walk[p][r].todo) = Save(st)
        /\ OtherWalks(p, r) /\ OtherRuns(p, r)
        /\ rev'[StoreOf[p]][r] = live'[p][r]
        /\ \A s \in Stores, u \in RunIds :
              <<s, u>> # <<StoreOf[p], r>> => rev'[s][u] = rev[s][u]
    BY <1>4 DEF Saves, Performs
  <2>2. /\ live'[p][r] \in RunRecord /\ live'[p][r].status = st
        /\ live'[p][r].plan = live[p][r].plan /\ live'[p][r] # None
    <3>1. live'[p][r] = [live[p][r] EXCEPT !.status = st]
      BY <1>4 DEF Saves
    <3> QED BY <2>1, <3>1, NoneAssumption DEF RunRecord, NoneAssumption
  <2>3. ASSUME r = t
        PROVE  /\ ~Effective(walk'[p][t], live'[p][t].plan.nodes)
               /\ st = "awaiting_approval" => ~Leads(live'[p][t].plan.nodes)
    <3>1. ~Effective(walk[p][t], live[p][t].plan.nodes)
      BY <1>1, <2>1, <2>3
    <3> QED BY <2>1, <2>2, <2>3, <3>1, PerformEffective DEF Rest
  <2> QED BY <1>1, <2>1, <2>2, <2>3 DEF OtherWalks, OtherRuns
<1>5. ASSUME NEW p \in Proc, NEW r \in RunIds, NEW op, Performs(p, r, op),
             UNCHANGED <<live, rev>>
      PROVE  Goal
  BY <1>1, <1>5, PerformEffective DEF Performs, OtherWalks
<1>6. ASSUME NEW p \in Proc, NEW r \in RunIds, NEW ty \in Event, Appends(p, r, ty) PROVE Goal
  BY <1>5, <1>6 DEF Appends
<1>7. ASSUME NEW p \in Proc, NEW r \in RunIds, Calls(p, r) PROVE Goal
  BY <1>5, <1>7 DEF Calls
<1>8. ASSUME NEW p \in Proc, NEW r \in RunIds, Leaves(p, r) PROVE Goal
  BY <1>1, <1>8 DEF Leaves, OtherWalks
<1>9. ASSUME NEW p \in Proc, NEW r \in RunIds, Starts(p, r) PROVE Goal
  <2>1. r # t
    BY <1>1, <1>9 DEF Starts, Fresh
  <2> QED BY <1>1, <1>9, <2>1 DEF Starts, OtherWalks, OtherRuns
<1>10. ASSUME NEW p \in Proc, NEW r \in RunIds, Resumes(p, r) PROVE Goal
  <2>1. ASSUME r = t PROVE ~Effective(walk'[p][t], live'[p][t].plan.nodes)
    <3> DEFINE x == Get(p, t)
    <3>1. /\ x \in RunRecord /\ live'[p][t] = x /\ walk'[p][t].then = "enter"
          /\ \A op : In(op, walk'[p][t].todo) <=> op \in Resumed
      BY <1>10, <2>1 DEF Resumes
    <3>2. PICK i \in Suspended(x.plan.nodes) : walk'[p][t].i = i + 1
      BY <1>10, <2>1 DEF Resumes
    <3>3. ~Leads(x.plan.nodes)
      <4>1. StoreOf[p] \in Stores
        BY ProcAssumption DEF ProcAssumption
      <4> QED BY <1>1, <1>10, <2>1, <4>1, ResumedFromStore
    <3> HIDE DEF x
    <3>4. ~In(CallProvider1, walk'[p][t].todo) /\ ~In(Rest, walk'[p][t].todo)
      BY <3>1, OpsDiffer DEF Resumed, Rest
    <3>5. i \in Nat /\ Len(x.plan.nodes) \in Nat
      <4>1. x.plan.nodes \in Seq(NodeKind) /\ i \in 1..Len(x.plan.nodes)
        BY <3>1, <3>2, RecordFacts
      <4> QED BY <4>1
    <3>6. \A j \in 1..Len(x.plan.nodes) : x.plan.nodes[j] = "invoke" => ~(i + 1 <= j)
      BY <3>2, <3>3, <3>5 DEF Leads
    <3> QED BY <3>1, <3>2, <3>4, <3>6 DEF Effective
  <2> QED BY <1>1, <1>10, <2>1 DEF Resumes, OtherWalks, OtherRuns
<1>11. ASSUME NEW p \in Proc, Forgets(p) PROVE Goal
  BY <1>1, <1>11 DEF Forgets
<1>12. ASSUME Rests PROVE Goal
  BY <1>1, <1>12 DEF Rests
<1>13. Goal
  <2> HIDE DEF Goal
  <2> QED BY <1>3, <1>4, <1>6, <1>7, <1>8, <1>9, <1>10, <1>11, <1>12 DEF Step
<1>14. Goal => Spent(t)'
  BY DEF Spent, Effective, Leads, In, Rest, Save, CallProvider1, Suspended
<1> QED BY <1>2, <1>13, <1>14

LEMMA StepSpent ==
    ASSUME WInv, UniqueIds, OneInvoke, OneSide, SpentOnce, Step, LedgerKept
    PROVE  SpentOnce'
<1> SUFFICES ASSUME NEW k \in Keys, effects'[k] > 0
             PROVE  effects'[k] = 1 /\ \E r \in RunIds :
                       ledger'[k] # None /\ ledger'[k].run = r /\ Spent(r)'
  BY DEF SpentOnce, Spent, Effective, Leads, In, Rest, Save, CallProvider1, Suspended
<1>1. effects[k] \in Nat /\ effects \in [Keys -> Nat]
  BY DEF WInv, QInv, TInv, TypeOK
\* A step that leaves the count of k alone.
<1>2. ASSUME effects'[k] = effects[k]
      PROVE  effects'[k] = 1 /\ \E r \in RunIds :
                ledger'[k] # None /\ ledger'[k].run = r /\ Spent(r)'
  <2>1. effects[k] = 1 /\ ledger'[k] = ledger[k] /\ ledger[k] # None
    BY <1>2 DEF SpentOnce, LedgerKept
  <2>2. PICK r \in RunIds : ledger[k].run = r /\ Spent(r)
    BY <1>2 DEF SpentOnce
  <2>3. Spent(r)'
    BY <2>2, SpentKept
  <2> QED BY <1>2, <2>1, <2>2, <2>3
\* The first call for k, by the run that owns it.
<1>3. ASSUME NEW p \in Proc, NEW r \in RunIds, Calls(p, r), effects'[k] # effects[k]
      PROVE  effects'[k] = 1 /\ ledger'[k] # None /\ ledger'[k].run = r /\ Spent(r)'
  <2>1. /\ walk[p][r].n = 1 /\ effects' = [effects EXCEPT ![live[p][r].key] = @ + 1]
        /\ rev' = rev /\ live' = live
    BY <1>3 DEF Calls
  <2>2. live[p][r].key = k /\ effects'[k] = effects[k] + 1
    BY <1>1, <1>3, <2>1
  <2>3. /\ Owns(live[p][r], r)
        /\ \E s \in Stores : rev[s][r] # None
        /\ \A s \in Stores : rev[s][r] # None => rev[s][r].status # "awaiting_approval"
        /\ \A q \in Proc : walk'[q][r] # None =>
              ~Effective(walk'[q][r], live[q][r].plan.nodes)
    BY <1>3, <2>1, CallSpends
  <2>4. ledger[k].run = r
    BY <2>2, <2>3 DEF Owns
  <2>5. ledger[k] # None
    <3>1. live[p][r] \in RunRecord
      BY <1>3 DEF Calls, Performs
    <3>2. ledger[k] \in Claim
      BY <2>2, <2>3, <3>1 DEF Owns, Claim, RunRecord
    <3> QED BY <3>2, NoneAssumption DEF NoneAssumption
  <2>6. effects[k] = 0
    <3>1. Spent(r) => walk[p][r].n # 1
      BY <1>3, SpentKept
    <3> QED BY <1>1, <2>1, <2>4, <3>1 DEF SpentOnce
  <2>7. ledger'[k] = ledger[k]
    BY <2>5 DEF LedgerKept
  <2>8. Spent(r)'
    <3>1. /\ \E s \in Stores : rev'[s][r] # None
          /\ \A s \in Stores :
                rev'[s][r] # None /\ rev'[s][r].status = "awaiting_approval" =>
                   ~Leads(rev'[s][r].plan.nodes)
          /\ \A q \in Proc : walk'[q][r] # None =>
                ~Effective(walk'[q][r], live'[q][r].plan.nodes)
      BY <2>1, <2>3
    <3> QED BY <3>1 DEF Spent, Effective, Leads, In, Rest, Save, CallProvider1, Suspended
  <2> QED BY <2>2, <2>4, <2>5, <2>6, <2>7, <2>8
<1>4. effects'[k] = effects[k] \/ \E p \in Proc, r \in RunIds : Calls(p, r)
  <2>1. ASSUME NEW p \in Proc, NEW r \in RunIds,
               \/ Moves(p, r) \/ Leaves(p, r) \/ Starts(p, r) \/ Resumes(p, r)
               \/ \E st \in Status : Saves(p, r, st)
               \/ \E ty \in Event : Appends(p, r, ty)
        PROVE  effects' = effects
    BY <2>1 DEF Moves, Leaves, Starts, Resumes, Saves, Appends
  <2>2. ASSUME Rests \/ \E p \in Proc : Forgets(p) PROVE effects' = effects
    BY <2>2 DEF Forgets, Rests
  <2> QED BY <2>1, <2>2 DEF Step
<1> QED BY <1>2, <1>3, <1>4

\* A repeated call with the same key does not repeat its effect: over all processes,
\* restarts, approvals and concurrent calls, the provider is reached once for a key, if
\* one process receives approve() and no plan invokes twice (claimFor, approve).
THEOREM EffectHappensOnce ==
    UniqueIds /\ OneApprover /\ OneInvoke /\ OneSide => (Spec => []OneEffectPerKey)
<1> SUFFICES ASSUME UniqueIds, OneApprover, OneInvoke, OneSide
             PROVE  Spec => []OneEffectPerKey
  OBVIOUS
<1> DEFINE Inv == WInv /\ SpentOnce
<1>1. Init => Inv
  <2>1. Init => SpentOnce
    BY DEF Init, SpentOnce
  <2> QED BY <2>1, InitWInv
<1>2. Inv /\ [Next]_vars => Inv'
  <2> SUFFICES ASSUME Inv, [Next]_vars PROVE Inv'
    OBVIOUS
  <2>1. WInv' /\ Step
    BY NextWInv
  <2>2. LedgerKept
    BY NextLedgerKept DEF WInv, QInv
  <2> QED BY <2>1, <2>2, StepSpent
<1>3. Inv => OneEffectPerKey
  <2> SUFFICES ASSUME Inv, NEW k \in Keys PROVE effects[k] <= 1
    BY DEF OneEffectPerKey
  <2>1. effects[k] \in Nat
    BY DEF WInv, QInv, TInv, TypeOK
  <2>2. effects[k] > 0 => effects[k] = 1
    BY DEF SpentOnce
  <2> QED BY <2>1, <2>2
<1> HIDE DEF Inv
<1> QED BY <1>1, <1>2, <1>3, PTL DEF Spec

-----------------------------------------------------------------------------
(* Ledger rows *)

\* A row is written by a walk that claims the key of its own run, and that run is saved.
LEMMA LedgerMoves ==
    ASSUME CInv, [Next]_vars, NEW k \in Keys, ledger'[k] # ledger[k]
    PROVE  \E p \in Proc, r \in RunIds :
              /\ ClaimKey(p, r) /\ ledger[k] = None /\ live[p][r] \in RunRecord
              /\ k = live[p][r].key /\ rev[StoreOf[p]][r] # None
              /\ ledger' = [ledger EXCEPT ![k] = [run |-> r, input |-> live[p][r].input]]
<1>1. ASSUME NEW p \in Proc, NEW r \in RunIds, ClaimKey(p, r)
      PROVE  /\ ledger[k] = None /\ live[p][r] \in RunRecord
             /\ k = live[p][r].key /\ rev[StoreOf[p]][r] # None
             /\ ledger' = [ledger EXCEPT ![k] = [run |-> r, input |-> live[p][r].input]]
  <2> DEFINE mine == [run |-> r, input |-> live[p][r].input]
  <2>1. /\ ledger' = [ledger EXCEPT ![live[p][r].key] = Owner(live[p][r].key, mine)]
        /\ walk[p][r] # None /\ walk[p][r].todo = << >>
    BY <1>1 DEF ClaimKey, Enter, Ready
  <2>2. live[p][r] \in RunRecord /\ rev[StoreOf[p]][r] # None
    BY <2>1, HoldsRun, IdleWalkSaved DEF CInv
  <2>3. k = live[p][r].key /\ ledger[k] = None
    BY <2>1 DEF Owner, CInv, TInv, TypeOK
  <2> QED BY <2>1, <2>2, <2>3 DEF Owner
<1>2. \E p \in Proc, r \in RunIds : ClaimKey(p, r)
  <2>1. ASSUME NEW p \in Proc, NEW r \in RunIds, Segment(p, r), ~ClaimKey(p, r)
        PROVE  UNCHANGED ledger
    BY <2>1 DEF Segment, StoreCall, SaveRun, AppendEvent, CallProvider, StoreStep,
                AcceptRequest, RefuseRequest, EndOfPlan, StopDryRun, BeginNode, EndWalk
  <2>2. ASSUME NEW p \in Proc, NEW r \in RunIds, Resolution(p, r)
        PROVE  UNCHANGED ledger
    BY <2>2, ResolutionShape DEF Shape, Resolve, CInv
  <2>3. ASSUME NEW c \in Callers, NEW p \in Proc, Execute(c, p) PROVE UNCHANGED ledger
    <3>1. ASSUME NEW j \in Keys, NEW i \in Inputs,
                 ExecuteKnown(c, p, j, i) \/ ExecuteShared(c, p, j, i)
          PROVE  UNCHANGED ledger
      BY <3>1, Zenon DEF ExecuteKnown, ExecuteShared
    <3>2. ASSUME NEW j \in Keys, NEW i \in Inputs, NEW dry \in DryRun,
                 NEW r \in RunIds, NEW plan \in Plans, ExecuteNew(c, p, j, i, dry, r, plan)
          PROVE  UNCHANGED ledger
      BY <3>2, Zenon DEF ExecuteNew
    <3> QED BY <2>3, <3>1, <3>2 DEF Execute
  <2>4. ASSUME NEW p \in Proc, Crash(p) PROVE UNCHANGED ledger
    BY <2>4 DEF Crash
  <2>5. ASSUME NEW p \in Proc, NEW r \in RunIds, Approve(p, r) PROVE UNCHANGED ledger
    BY <2>5 DEF Approve
  <2>6. Next
    BY DEF vars
  <2> QED BY <2>1, <2>2, <2>3, <2>4, <2>5, <2>6 DEF Next
<1> QED BY <1>1, <1>2

\* A saved run stays saved, and stays the run of its key and input.
RunsKept ==
    \A s \in Stores, t \in RunIds :
        rev[s][t] # None => /\ rev'[s][t] # None
                            /\ rev'[s][t].key = rev[s][t].key
                            /\ rev'[s][t].input = rev[s][t].input

LEMMA StepRunsKept ==
    ASSUME CInv, Step
    PROVE  RunsKept
<1> SUFFICES ASSUME NEW s \in Stores, NEW t \in RunIds, rev[s][t] # None
             PROVE  /\ rev'[s][t] # None
                    /\ rev'[s][t].key = rev[s][t].key
                    /\ rev'[s][t].input = rev[s][t].input
  BY DEF RunsKept
<1>1. ASSUME NEW p \in Proc, NEW r \in RunIds, NEW st \in Status, Saves(p, r, st)
      PROVE  /\ rev'[s][t] # None
             /\ rev'[s][t].key = rev[s][t].key
             /\ rev'[s][t].input = rev[s][t].input
  <2> DEFINE x == [live[p][r] EXCEPT !.status = st]
  <2>1. /\ live[p][r] # None /\ live[p][r] \in RunRecord /\ rev'[StoreOf[p]][r] = x
        /\ \A z \in Stores, u \in RunIds :
              <<z, u>> # <<StoreOf[p], r>> => rev'[z][u] = rev[z][u]
    BY <1>1 DEF Saves, Performs
  <2>2. x \in RunRecord /\ x.key = live[p][r].key /\ x.input = live[p][r].input /\ x # None
    BY <2>1, NoneAssumption DEF RunRecord, NoneAssumption
  <2> HIDE DEF x
  <2>3. live[p][t] # None => live[p][t].key = rev[s][t].key /\ live[p][t].input = rev[s][t].input
    BY DEF CInv, ClaimDiscipline, CopiesAgree
  <2> QED BY <2>1, <2>2, <2>3
<1>2. ASSUME NEW p \in Proc, NEW r \in RunIds,
             \/ Moves(p, r) \/ Calls(p, r) \/ Leaves(p, r) \/ Starts(p, r)
             \/ Resumes(p, r) \/ \E ty \in Event : Appends(p, r, ty)
      PROVE  rev' = rev
  BY <1>2 DEF Moves, Calls, Leaves, Starts, Resumes, Appends
<1>3. ASSUME Rests \/ \E p \in Proc : Forgets(p) PROVE rev' = rev
  BY <1>3 DEF Rests, Forgets
<1> QED BY <1>1, <1>2, <1>3 DEF Step

\* The ledger only ever names a run that some store can produce, of the key and the
\* input of its row, whatever crashes right after the claim (newRun, claimFor).
THEOREM LedgerNamesSaved == UniqueIds => (Spec => []LedgerNamesSavedRun)
<1> SUFFICES ASSUME UniqueIds PROVE Spec => []LedgerNamesSavedRun
  OBVIOUS
<1> DEFINE Inv == CInv /\ LedgerNamesSavedRun
<1>1. Init => Inv
  BY InitTInv, InitDiscipline DEF CInv, Init, LedgerNamesSavedRun
<1>2. Inv /\ [Next]_vars => Inv'
  <2> SUFFICES ASSUME Inv, [Next]_vars PROVE Inv'
    OBVIOUS
  <2>1. CInv' /\ RunsKept /\ LedgerKept
    BY NextDiscipline, StepForm, StepRunsKept, NextLedgerKept DEF CInv
  <2>2. ASSUME NEW k \in Keys, ledger'[k] # None
        PROVE  \E s \in Stores : /\ rev'[s][ledger'[k].run] # None
                                 /\ rev'[s][ledger'[k].run].key = k
                                 /\ rev'[s][ledger'[k].run].input = ledger'[k].input
    <3>1. CASE ledger'[k] = ledger[k]
      <4>1. PICK s \in Stores : /\ rev[s][ledger[k].run] # None
                                /\ rev[s][ledger[k].run].key = k
                                /\ rev[s][ledger[k].run].input = ledger[k].input
        BY <2>2, <3>1 DEF LedgerNamesSavedRun
      <4>2. ledger[k].run \in RunIds
        BY <2>2, <3>1 DEF CInv, TInv, TypeOK, Claim
      <4> QED BY <2>1, <3>1, <4>1, <4>2 DEF RunsKept
    <3>2. CASE ledger'[k] # ledger[k]
      <4>1. PICK p \in Proc, r \in RunIds :
               /\ k = live[p][r].key /\ rev[StoreOf[p]][r] # None
               /\ ledger' = [ledger EXCEPT ![k] = [run |-> r, input |-> live[p][r].input]]
               /\ ClaimKey(p, r)
        BY <3>2, LedgerMoves
      <4>2. ledger'[k].run = r /\ ledger'[k].input = live[p][r].input
        BY <4>1 DEF CInv, TInv, TypeOK
      <4>3. StoreOf[p] \in Stores /\ live[p][r] # None
        BY <4>1, HoldsRun, ProcAssumption DEF ProcAssumption, ClaimKey, Enter, Ready, CInv
      <4>4. /\ rev[StoreOf[p]][r].key = k
            /\ rev[StoreOf[p]][r].input = live[p][r].input
        BY <4>1, <4>3 DEF CInv, ClaimDiscipline, CopiesAgree
      <4>5. /\ rev'[StoreOf[p]][r] # None /\ rev'[StoreOf[p]][r].key = k
            /\ rev'[StoreOf[p]][r].input = live[p][r].input
        BY <2>1, <4>1, <4>3, <4>4 DEF RunsKept
      <4> QED BY <4>2, <4>3, <4>5
    <3> QED BY <3>1, <3>2
  <2> QED BY <2>1, <2>2 DEF LedgerNamesSavedRun
<1>3. Inv => LedgerNamesSavedRun
  OBVIOUS
<1> HIDE DEF Inv
<1> QED BY <1>1, <1>2, <1>3, PTL DEF Spec

-----------------------------------------------------------------------------
(* The promise of a key *)

LEMMA PromiseInit == Init => Promise!IInit
  BY DEF Init, Promise!IInit

\* A call of the provider is made by a run that owns its key.
LEMMA CallOwns ==
    ASSUME CInv, NEW p \in Proc, NEW r \in RunIds, Calls(p, r)
    PROVE  /\ live[p][r].key \in Keys /\ ledger[live[p][r].key] # None
           /\ ledger[live[p][r].key] \in Claim
<1>1. /\ walk[p][r] # None /\ live[p][r] \in RunRecord /\ walk[p][r].todo \in Seq(Op)
      /\ walk[p][r].todo # << >> /\ Head(walk[p][r].todo) = CallProvider1
  BY DEF Calls, Performs, Performed, Walker
<1>2. walk[p][r].claimed
  <2>1. CallProvider1 \notin Harmless
    BY DEF Harmless
  <2>2. walk[p][r].todo \in Seq(Harmless) => Head(walk[p][r].todo) \in Harmless
    BY <1>1
  <2> QED BY <1>1, <2>1, <2>2 DEF CInv, ClaimDiscipline, UnclaimedHarmless
<1>3. Owns(live[p][r], r)
  BY <1>1, <1>2 DEF CInv, ClaimDiscipline, ClaimedOwns
<1>4. live[p][r].key \in Keys /\ live[p][r].input \in Inputs
  BY <1>1 DEF RunRecord
<1>5. ledger[live[p][r].key] \in Claim
  BY <1>3, <1>4 DEF Owns, Claim
<1> QED BY <1>4, <1>5, NoneAssumption DEF NoneAssumption

\* A claim is the first of its key, a call of the provider the first of an owned key.
LEMMA PromiseStep ==
    ASSUME CInv, [Next]_vars, TInv', OneEffectPerKey'
    PROVE  [Promise!INext]_(Promise!ivars)
<1>1. effects \in [Keys -> Nat] /\ ledger \in [Keys -> Claim \cup {None}] /\ Step
      /\ effects' \in [Keys -> Nat] /\ ledger' \in [Keys -> Claim \cup {None}]
  BY StepForm DEF CInv, TInv, TypeOK
\* A claim makes an owner.
<1>2. ASSUME NEW k \in Keys, ledger'[k] # ledger[k] PROVE Promise!INext
  <2>1. PICK p \in Proc, r \in RunIds :
           /\ ClaimKey(p, r) /\ ledger[k] = None /\ live[p][r] \in RunRecord
           /\ ledger' = [ledger EXCEPT ![k] = [run |-> r, input |-> live[p][r].input]]
    BY <1>2, LedgerMoves
  <2>2. UNCHANGED effects
    BY <2>1 DEF ClaimKey
  <2>3. [run |-> r, input |-> live[p][r].input] \in Claim
    BY <2>1 DEF Claim, RunRecord
  <2> QED BY <2>1, <2>2, <2>3 DEF Promise!INext, Promise!Own
<1>3. ASSUME \A k \in Keys : ledger'[k] = ledger[k]
      PROVE  [Promise!INext]_(Promise!ivars)
  <2>1. UNCHANGED ledger
    BY <1>1, <1>3
  \* A call starts the effect of its key.
  <2>2. ASSUME effects' # effects PROVE Promise!INext
    <3>1. PICK p \in Proc, r \in RunIds : Calls(p, r)
      <4>1. ASSUME NEW p \in Proc, NEW r \in RunIds,
                   \/ Moves(p, r) \/ Leaves(p, r) \/ Starts(p, r) \/ Resumes(p, r)
                   \/ \E st \in Status : Saves(p, r, st)
                   \/ \E ty \in Event : Appends(p, r, ty)
            PROVE  effects' = effects
        BY <4>1 DEF Moves, Leaves, Starts, Resumes, Saves, Appends
      <4>2. ASSUME Rests \/ \E p \in Proc : Forgets(p) PROVE effects' = effects
        BY <4>2 DEF Forgets, Rests
      <4> QED BY <1>1, <2>2, <4>1, <4>2 DEF Step
    <3> DEFINE k == live[p][r].key
    <3>2. k \in Keys /\ ledger[k] # None
      BY <3>1, CallOwns
    <3>3. effects' = [effects EXCEPT ![k] = @ + 1]
      BY <2>2, <3>1 DEF Calls
    <3> HIDE DEF k
    <3>4. effects[k] \in Nat /\ effects'[k] = effects[k] + 1 /\ effects'[k] <= 1
      BY <1>1, <3>2, <3>3 DEF OneEffectPerKey
    <3>5. effects[k] = 0
      BY <3>4
    <3>6. effects' = [effects EXCEPT ![k] = 1]
      BY <1>1, <3>2, <3>3, <3>5
    <3>7. Promise!Start(k)
      BY <2>1, <3>2, <3>5, <3>6 DEF Promise!Start
    <3> QED BY <3>2, <3>7 DEF Promise!INext
  <2> QED BY <2>1, <2>2 DEF Promise!ivars
<1> QED BY <1>2, <1>3

\* The runtimes together implement the promise of an idempotency key: the first claim of
\* the key, a run and its input, stands for good, and the effect is started once, after
\* the claim.  The hypotheses are those of EffectHappensOnce (claimFor, walk, approve).
THEOREM PromiseIsKept ==
    UniqueIds /\ OneApprover /\ OneInvoke /\ OneSide => (Spec => KeepsPromise)
<1> SUFFICES ASSUME UniqueIds, OneApprover, OneInvoke, OneSide PROVE Spec => KeepsPromise
  OBVIOUS
<1>1. Init => CInv
  BY InitTInv, InitDiscipline DEF CInv
<1>2. CInv /\ [Next]_vars => CInv'
  BY NextDiscipline
<1>3. CInv /\ [Next]_vars /\ OneEffectPerKey' => [Promise!INext]_(Promise!ivars)
  BY NextTInv, PromiseStep DEF CInv
<1>4. Spec => []OneEffectPerKey
  BY EffectHappensOnce
<1> QED BY <1>1, <1>2, <1>3, <1>4, PromiseInit, PTL DEF Spec, KeepsPromise, Promise!ISpec

-----------------------------------------------------------------------------
(* What callers are told *)

OfRun(cl, x) == x # None /\ x.key = cl.key /\ x.input = cl.input

\* A call that waits, waits for a run of its own key and input, and one that was told
\* of work on its key was told of the run that owns it.
Sound(cl, lv, ld) ==
    /\ cl.st \in {"waiting", "answered"} =>
          cl.key \in Keys /\ cl.input \in Inputs /\ cl.run \in RunIds
    /\ cl.st = "waiting" => cl.proc \in Proc /\ OfRun(cl, lv[cl.proc][cl.run])
    /\ cl.st = "answered" /\ ~cl.dry /\ cl.status \in Active
         => ld[cl.key] = [run |-> cl.run, input |-> cl.input]
CallsSound == \A c \in Callers : Sound(call[c], live, ledger)

\* The in-flight map shares only runs of the entry's key and input.
PendingSound ==
    \A p \in Proc, k \in Keys :
        pending[p][k] # None => /\ live[p][pending[p][k].run] # None
                                /\ live[p][pending[p][k].run].key = k
                                /\ live[p][pending[p][k].run].input = pending[p][k].input

\* A walk answers with its own run, or with the one it found to own its key.
ResultOwns ==
    \A p \in Proc, r \in RunIds :
        walk[p][r] # None =>
            \/ walk[p][r].result = r
            \/ ledger[live[p][r].key] = [run |-> walk[p][r].result, input |-> live[p][r].input]

AInv == CInv /\ CallsSound /\ PendingSound /\ ResultOwns

\* No process loses a run it holds, or confuses its key or input.
HeldRuns ==
    \A q \in Proc, t \in RunIds :
        live[q][t] # None => /\ live'[q][t] # None
                             /\ live'[q][t].key = live[q][t].key
                             /\ live'[q][t].input = live[q][t].input

LEMMA SameHeld == UNCHANGED live => HeldRuns
  BY DEF HeldRuns

LEMMA RowKept ==
    ASSUME LedgerKept, NEW k \in Keys, NEW i \in Inputs, NEW r \in RunIds,
           ledger[k] = [run |-> r, input |-> i]
    PROVE  ledger'[k] = [run |-> r, input |-> i]
<1>1. [run |-> r, input |-> i] \in Claim
  BY DEF Claim
<1> QED BY <1>1, NoneAssumption DEF LedgerKept, NoneAssumption

LEMMA SoundStays ==
    ASSUME HeldRuns, LedgerKept, NEW cl, Sound(cl, live, ledger)
    PROVE  Sound(cl, live', ledger')
<1>1. cl.st \in {"waiting", "answered"} =>
        cl.key \in Keys /\ cl.input \in Inputs /\ cl.run \in RunIds
  BY DEF Sound
<1>2. cl.st = "waiting" => cl.proc \in Proc /\ OfRun(cl, live'[cl.proc][cl.run])
  BY <1>1 DEF Sound, OfRun, HeldRuns
<1>3. cl.st = "answered" /\ ~cl.dry /\ cl.status \in Active
        => ledger'[cl.key] = [run |-> cl.run, input |-> cl.input]
  BY <1>1, RowKept DEF Sound
<1> QED BY <1>1, <1>2, <1>3 DEF Sound

LEMMA PendingStays ==
    ASSUME TInv, HeldRuns, PendingSound,
           \A p \in Proc, k \in Keys :
              pending'[p][k] # None => pending'[p][k] = pending[p][k]
    PROVE  PendingSound'
<1> SUFFICES ASSUME NEW p \in Proc, NEW k \in Keys, pending'[p][k] # None
             PROVE  /\ live'[p][pending'[p][k].run] # None
                    /\ live'[p][pending'[p][k].run].key = k
                    /\ live'[p][pending'[p][k].run].input = pending'[p][k].input
  BY DEF PendingSound
<1>1. pending'[p][k] = pending[p][k] /\ pending[p][k].run \in RunIds
  BY DEF TInv, TypeOK, Claim
<1> QED BY <1>1 DEF PendingSound, HeldRuns

\* A step that moves one walk to its own result, an owner, or leaves the result alone.
Results(p, r) ==
    /\ OtherWalks(p, r)
    /\ walk'[p][r] # None =>
          \/ walk'[p][r].result = r
          \/ walk[p][r] # None /\ walk'[p][r].result = walk[p][r].result
          \/ ledger'[live'[p][r].key] = [run |-> walk'[p][r].result,
                                         input |-> live'[p][r].input]

LEMMA ResultsOwn ==
    ASSUME TInv, ResultOwns, HeldRuns, LedgerKept,
           NEW p \in Proc, NEW r \in RunIds, Results(p, r)
    PROVE  ResultOwns'
<1> SUFFICES ASSUME NEW q \in Proc, NEW t \in RunIds, walk'[q][t] # None
             PROVE  \/ walk'[q][t].result = t
                    \/ ledger'[live'[q][t].key] = [run |-> walk'[q][t].result,
                                                   input |-> live'[q][t].input]
  BY DEF ResultOwns
<1>1. ASSUME walk[q][t] # None, walk'[q][t].result = walk[q][t].result,
             walk[q][t].result # t
      PROVE  ledger'[live'[q][t].key] = [run |-> walk'[q][t].result,
                                         input |-> live'[q][t].input]
  <2>1. ledger[live[q][t].key] = [run |-> walk[q][t].result, input |-> live[q][t].input]
    BY <1>1 DEF ResultOwns
  <2>2. /\ walk[q][t] \in Walker /\ live[q][t] \in RunRecord /\ live[q][t] # None
        /\ walk[q][t].result \in RunIds
        /\ live[q][t].key \in Keys /\ live[q][t].input \in Inputs
    BY <1>1, HoldsRun DEF Walker, RunRecord
  <2>3. live'[q][t].key = live[q][t].key /\ live'[q][t].input = live[q][t].input
    BY <2>2 DEF HeldRuns
  <2> QED BY <1>1, <2>1, <2>2, <2>3, RowKept
<1>2. CASE q = p /\ t = r
  BY <1>1, <1>2 DEF Results
<1>3. CASE ~(q = p /\ t = r)
  BY <1>1, <1>3 DEF Results, OtherWalks
<1> QED BY <1>2, <1>3

\* A step that settles no call.
LEMMA QuietAnswers ==
    ASSUME AInv, CInv', HeldRuns, LedgerKept, UNCHANGED <<call, pending>>,
           NEW p \in Proc, NEW r \in RunIds, Results(p, r)
    PROVE  AInv'
<1>1. ResultOwns'
  BY ResultsOwn DEF AInv, CInv
<1>2. PendingSound'
  BY PendingStays DEF AInv, CInv
<1>3. CallsSound'
  BY SoundStays DEF AInv, CallsSound
<1> QED BY <1>1, <1>2, <1>3 DEF AInv

LEMMA BecomesResult ==
    ASSUME TInv, NEW p \in Proc, NEW r \in RunIds, NEW w \in Walker, Become(p, r, w),
           w.result = r \/ (walk[p][r] # None /\ w.result = walk[p][r].result)
    PROVE  Results(p, r)
<1>1. walk'[p][r] = w /\ OtherWalks(p, r)
  BY BecomeType DEF TInv, OtherWalks
<1> QED BY <1>1 DEF Results

LEMMA FinishResult ==
    ASSUME TInv, NEW p \in Proc, NEW r \in RunIds, walk[p][r] # None,
           NEW before \in Seq(Op), NEW status \in Status, NEW type \in Event,
           Finish(p, r, before, status, type)
    PROVE  Results(p, r)
<1>1. /\ walk'[p][r] # None => walk'[p][r].result = walk[p][r].result
      /\ OtherWalks(p, r)
  BY FinishType DEF TInv, OtherWalks
<1> QED BY <1>1 DEF Results

LEMMA FormHeld ==
    ASSUME NEW p \in Proc, NEW r \in RunIds,
           \/ Moves(p, r) \/ Calls(p, r) \/ Resumes(p, r)
           \/ \E st \in Status : Saves(p, r, st)
           \/ \E type \in Event : Appends(p, r, type)
    PROVE  HeldRuns
<1>1. CASE Moves(p, r)
  BY <1>1 DEF HeldRuns, Moves, Advance, OtherRuns
<1>2. CASE Calls(p, r) \/ \E type \in Event : Appends(p, r, type)
  BY <1>2 DEF Calls, Appends, HeldRuns
<1>3. CASE Resumes(p, r)
  BY <1>3 DEF Resumes, OtherRuns, HeldRuns, Get
<1>4. ASSUME NEW st \in Status, Saves(p, r, st) PROVE HeldRuns
  <2> DEFINE x == [live[p][r] EXCEPT !.status = st]
  <2>1. live[p][r] \in RunRecord /\ live'[p][r] = x /\ OtherRuns(p, r)
    BY <1>4 DEF Saves, Performs
  <2>2. x # None /\ x.key = live[p][r].key /\ x.input = live[p][r].input
    <3>1. x \in RunRecord
      BY <2>1 DEF RunRecord
    <3>2. x.key = live[p][r].key /\ x.input = live[p][r].input
      BY <2>1 DEF RunRecord
    <3> HIDE DEF x
    <3> QED BY <3>1, <3>2, NoneAssumption DEF NoneAssumption
  <2> HIDE DEF x
  <2> QED BY <2>1, <2>2 DEF HeldRuns, OtherRuns
<1> QED BY <1>1, <1>2, <1>3, <1>4

\* A claim that is lost makes the owner's run the result of the walk.
LEMMA ClaimKeyResult ==
    ASSUME CInv, NEW p \in Proc, NEW r \in RunIds, ClaimKey(p, r)
    PROVE  Results(p, r)
<1> DEFINE k     == live[p][r].key
           mine  == [run |-> r, input |-> live[p][r].input]
           owner == Owner(k, mine)
<1>1. /\ walk[p][r] # None /\ walk[p][r].todo = << >> /\ live' = live
      /\ ledger' = [ledger EXCEPT ![k] = owner]
  BY DEF ClaimKey, Enter, Ready
<1>2. walk[p][r] \in Walker /\ live[p][r] \in RunRecord
  BY <1>1, HoldsRun DEF CInv
<1>3. k \in Keys /\ live[p][r].input \in Inputs
  BY <1>2 DEF RunRecord
<1>4. owner \in Claim /\ ledger'[k] = owner
  BY <1>1, <1>3 DEF Owner, Claim, CInv, TInv, TypeOK
<1>5. CASE \/ Finish(p, r, << >>, "denied", "run.denied")
           \/ Finish(p, r, <<Append1("idempotency.replayed")>>,
                     "denied", "idempotency.unresolved")
  BY <1>1, <1>5, FinishResult, OpTypes DEF Status, Event, CInv
<1>6. CASE Become(p, r, [walk[p][r] EXCEPT !.claimed = TRUE])
  <2>1. /\ [walk[p][r] EXCEPT !.claimed = TRUE] \in Walker
        /\ [walk[p][r] EXCEPT !.claimed = TRUE].result = walk[p][r].result
    BY <1>2 DEF Walker
  <2> QED BY <1>1, <1>6, <2>1, BecomesResult DEF CInv
<1>7. ASSUME SameInput(owner, mine.input),
             Become(p, r, [walk[p][r] EXCEPT !.todo = <<Append1("idempotency.replayed")>>,
                                             !.then = "end", !.result = owner.run])
      PROVE  Results(p, r)
  <2> DEFINE todo == <<Append1("idempotency.replayed")>>
             w == [walk[p][r] EXCEPT !.todo = todo, !.then = "end", !.result = owner.run]
  <2>1. todo \in Seq(Op)
    BY OpTypes DEF Event
  <2>2. owner.run \in RunIds /\ owner.input = live[p][r].input
        /\ owner = [run |-> owner.run, input |-> owner.input]
    BY <1>4, <1>7 DEF Claim, SameInput
  <2>3. Become(p, r, w)
    BY <1>7
  <2> HIDE DEF todo, owner
  <2>4. w \in Walker /\ w.result = owner.run
    BY <1>2, <2>1, <2>2 DEF Walker
  <2> HIDE DEF w
  <2>5. walk'[p][r] = w /\ OtherWalks(p, r)
    BY <2>3, <2>4, BecomeType DEF CInv, TInv, OtherWalks
  <2>6. ledger'[live'[p][r].key] = [run |-> w.result, input |-> live'[p][r].input]
    BY <1>1, <1>4, <2>2, <2>4
  <2> QED BY <2>5, <2>6 DEF Results
<1> QED BY <1>5, <1>6, <1>7 DEF ClaimKey

LEMMA SegmentAnswers ==
    ASSUME AInv, CInv', LedgerKept, NEW p \in Proc, NEW r \in RunIds,
           Segment(p, r), ~EndWalk(p, r)
    PROVE  AInv'
<1> USE DEF AInv, CInv
<1>1. CASE StoreCall(p, r)
  <2>1. UNCHANGED <<call, pending>>
    BY <1>1 DEF StoreCall, SaveRun, AppendEvent, CallProvider, StoreStep
  <2>2. \/ Calls(p, r) \/ \E st \in Status : Saves(p, r, st)
        \/ \E type \in Event : Appends(p, r, type)
    BY <1>1, StoreCallStep
  <2>3. Results(p, r)
    BY <2>2 DEF Calls, Saves, Appends, Performs, Performed, Results
  <2>4. HeldRuns
    BY <2>2, FormHeld
  <2> QED BY <2>1, <2>3, <2>4, QuietAnswers
<1>2. CASE AcceptRequest(p, r)
  <2>1. /\ walk[p][r] # None /\ walk[p][r] \in Walker
        /\ Become(p, r, [walk[p][r] EXCEPT !.todo = << >>, !.then = "enter"])
        /\ UNCHANGED <<call, pending, live>>
    BY <1>2, HoldsRun DEF AcceptRequest, Ready, Goto
  <2>2. /\ [walk[p][r] EXCEPT !.todo = << >>, !.then = "enter"] \in Walker
        /\ [walk[p][r] EXCEPT !.todo = << >>, !.then = "enter"].result = walk[p][r].result
    BY <2>1, OpTypes DEF Walker
  <2> QED BY <2>1, <2>2, BecomesResult, SameHeld, QuietAnswers
<1>3. CASE RefuseRequest(p, r) \/ EndOfPlan(p, r) \/ StopDryRun(p, r)
  <2>1. /\ walk[p][r] # None /\ UNCHANGED <<call, pending, live>>
        /\ \/ Finish(p, r, << >>, "denied", "run.denied")
           \/ Finish(p, r, << >>, "failed", "run.failed")
           \/ Finish(p, r, << >>, "planned", "run.planned")
    BY <1>3 DEF RefuseRequest, EndOfPlan, StopDryRun, Ready, Enter
  <2>2. Results(p, r)
    BY <2>1, FinishResult, OpTypes DEF Status, Event
  <2> QED BY <2>1, <2>2, SameHeld, QuietAnswers
<1>4. CASE ClaimKey(p, r)
  <2>1. UNCHANGED <<call, pending, live>>
    BY <1>4 DEF ClaimKey
  <2> QED BY <1>4, <2>1, ClaimKeyResult, SameHeld, QuietAnswers
<1>5. CASE BeginNode(p, r)
  <2> DEFINE invokes == Node(p, r) = "invoke" /\ Invocable(live[p][r].plan)
             todo == IF Node(p, r) = "gap" THEN <<Append1("node.skipped")>>
                     ELSE IF invokes THEN Attempt ELSE << >>
             n == IF invokes THEN 1 ELSE 0
             w == [walk[p][r] EXCEPT !.n = n, !.todo = todo, !.then = "await"]
  <2>1. /\ walk[p][r] # None /\ walk[p][r] \in Walker /\ Become(p, r, w)
        /\ UNCHANGED <<call, pending, live>>
    BY <1>5, HoldsRun DEF BeginNode, Enter, Ready
  <2>2. todo \in Seq(Op) /\ n \in 0..10
    BY OpTypes DEF Event
  <2> HIDE DEF todo, n
  <2>3. w \in Walker /\ w.result = walk[p][r].result
    BY <2>1, <2>2 DEF Walker
  <2> HIDE DEF w
  <2> QED BY <2>1, <2>3, BecomesResult, SameHeld, QuietAnswers
<1> QED BY <1>1, <1>2, <1>3, <1>4, <1>5 DEF Segment

LEMMA ResolutionAnswers ==
    ASSUME AInv, CInv', LedgerKept, NEW p \in Proc, NEW r \in RunIds, Resolution(p, r)
    PROVE  AInv'
<1> USE DEF AInv, CInv
<1>1. PICK w \in Walker : Shape(p, r, w)
  BY ResolutionShape
<1>2. walk[p][r] # None /\ UNCHANGED <<call, pending>>
  BY <1>1 DEF Shape, Resolve, Awaiting
<1>3. Results(p, r)
  BY <1>1, <1>2, BecomesResult DEF Shape
<1>4. HeldRuns
  BY ResolutionMoves, FormHeld
<1> QED BY <1>2, <1>3, <1>4, QuietAnswers

LEMMA ApproveAnswers ==
    ASSUME AInv, CInv', LedgerKept, NEW p \in Proc, NEW r \in RunIds, Approve(p, r)
    PROVE  AInv'
<1> USE DEF AInv, CInv
<1>1. UNCHANGED <<call, pending>>
  BY DEF Approve
<1>2. Resumes(p, r)
  BY ApproveResumes
<1>3. walk'[p][r].result = r
  <2>1. PICK w : Become(p, r, w) /\ w.result = r
    BY DEF Approve
  <2> QED BY <2>1 DEF Become, TInv, TypeOK
<1>4. Results(p, r)
  BY <1>2, <1>3 DEF Resumes, Results
<1>5. HeldRuns
  BY <1>2, FormHeld
<1> QED BY <1>1, <1>4, <1>5, QuietAnswers

\* A call gets a state of its own, and nothing is lost.
LEMMA OneCall ==
    ASSUME AInv, HeldRuns, LedgerKept, NEW c \in Callers, NEW cl,
           call' = [call EXCEPT ![c] = cl], Sound(cl, live', ledger')
    PROVE  CallsSound'
<1> SUFFICES ASSUME NEW d \in Callers PROVE Sound(call'[d], live', ledger')
  BY DEF CallsSound
<1>1. CASE d = c
  BY <1>1 DEF AInv, CInv, TInv, TypeOK
<1>2. CASE d # c
  <2>1. call'[d] = call[d]
    BY <1>2
  <2> QED BY <2>1, SoundStays DEF AInv, CallsSound
<1> QED BY <1>1, <1>2

\* A rejected call is owed nothing.
LEMMA RejectedSound ==
    ASSUME NEW cl, cl.st = "rejected" PROVE Sound(cl, live', ledger')
  BY DEF Sound

LEMMA ExecuteKnownAnswers ==
    ASSUME AInv, CInv', LedgerKept, NEW c \in Callers, NEW p \in Proc,
           NEW k \in Keys, NEW i \in Inputs, ExecuteKnown(c, p, k, i)
    PROVE  AInv'
<1> USE DEF AInv, CInv
<1> DEFINE prior == ledger[k]
           known == [st |-> "answered", proc |-> p, key |-> k, input |-> i, dry |-> FALSE,
                     run |-> prior.run, status |-> Get(p, prior.run).status]
           refused == [st |-> "rejected", proc |-> p, key |-> k, input |-> i, dry |-> FALSE,
                       run |-> None, status |-> None]
<1>1. /\ ledger[k] # None /\ UNCHANGED <<ledger, live, walk, pending>>
      /\ \/ SameInput(prior, i) /\ call' = [call EXCEPT ![c] = known]
         \/ call' = [call EXCEPT ![c] = refused]
  BY Zenon DEF ExecuteKnown, Settle
<1>2. prior \in Claim
  BY <1>1 DEF TInv, TypeOK
<1>3. SameInput(prior, i) => prior = [run |-> prior.run, input |-> i]
  BY <1>2 DEF SameInput, Claim
<1>4. HeldRuns
  BY <1>1, SameHeld
<1>5. SameInput(prior, i) => Sound(known, live', ledger')
  BY <1>1, <1>2, <1>3 DEF Sound, Claim
<1>6. Sound(refused, live', ledger')
  BY RejectedSound
<1> HIDE DEF known, refused
<1>7. CallsSound'
  BY <1>1, <1>4, <1>5, <1>6, OneCall
<1>8. PendingSound'
  BY <1>1, <1>4, PendingStays
<1>9. ResultOwns'
  BY <1>1 DEF ResultOwns
<1> QED BY <1>7, <1>8, <1>9

LEMMA ExecuteSharedAnswers ==
    ASSUME AInv, CInv', LedgerKept, NEW c \in Callers, NEW p \in Proc,
           NEW k \in Keys, NEW i \in Inputs, ExecuteShared(c, p, k, i)
    PROVE  AInv'
<1> USE DEF AInv, CInv
<1> DEFINE shared == [st |-> "waiting", proc |-> p, key |-> k, input |-> i, dry |-> FALSE,
                      run |-> pending[p][k].run, status |-> None]
           refused == [st |-> "rejected", proc |-> p, key |-> k, input |-> i, dry |-> FALSE,
                       run |-> None, status |-> None]
<1>1. /\ pending[p][k] # None /\ UNCHANGED <<ledger, live, walk, pending>>
      /\ \/ SameInput(pending[p][k], i) /\ call' = [call EXCEPT ![c] = shared]
         \/ call' = [call EXCEPT ![c] = refused]
  BY Zenon DEF ExecuteShared, Settle
<1>2. pending[p][k] \in Claim
  BY <1>1 DEF TInv, TypeOK
<1>3. HeldRuns
  BY <1>1, SameHeld
<1>4. /\ live[p][pending[p][k].run] # None /\ live[p][pending[p][k].run].key = k
      /\ live[p][pending[p][k].run].input = pending[p][k].input
  BY <1>1 DEF PendingSound
<1>5. SameInput(pending[p][k], i) => Sound(shared, live', ledger')
  BY <1>1, <1>2, <1>4 DEF Sound, OfRun, Claim, SameInput
<1>6. Sound(refused, live', ledger')
  BY RejectedSound
<1> HIDE DEF shared, refused
<1>7. CallsSound'
  BY <1>1, <1>3, <1>5, <1>6, OneCall
<1>8. PendingSound'
  BY <1>1, <1>3, PendingStays
<1>9. ResultOwns'
  BY <1>1 DEF ResultOwns
<1> QED BY <1>7, <1>8, <1>9

LEMMA ExecuteNewAnswers ==
    ASSUME AInv, CInv', UniqueIds, LedgerKept, NEW c \in Callers, NEW p \in Proc,
           NEW k \in Keys, NEW i \in Inputs, NEW dry \in DryRun, NEW r \in RunIds,
           NEW plan \in Plans, ExecuteNew(c, p, k, i, dry, r, plan)
    PROVE  AInv'
<1> USE DEF AInv, CInv
<1> DEFINE x == [status |-> "planned", key |-> k, input |-> i, plan |-> plan, steps |-> << >>]
           w == [i |-> 1, n |-> 0, claimed |-> FALSE, dry |-> dry,
                 todo |-> Transition("planned", "run.created"),
                 then |-> "check", result |-> r]
           new == [st |-> "waiting", proc |-> p, key |-> k, input |-> i, dry |-> dry,
                   run |-> r, status |-> None]
           entry == [run |-> r, input |-> i]
<1>1. /\ Fresh(p, r) /\ live' = [live EXCEPT ![p][r] = x] /\ Become(p, r, w)
      /\ pending' = IF dry THEN pending ELSE [pending EXCEPT ![p][k] = entry]
      /\ call' = [call EXCEPT ![c] = new]
  BY Zenon DEF ExecuteNew, Settle
<1>2. Starts(p, r)
  BY ExecuteNewStarts
<1>3. x \in RunRecord /\ x # None
  BY NewRun
<1>4. /\ live'[p][r] # None /\ live'[p][r].key = k /\ live'[p][r].input = i
      /\ OtherRuns(p, r)
  <2>1. x.key = k /\ x.input = i
    OBVIOUS
  <2> HIDE DEF x
  <2> QED BY <1>1, <1>2, <1>3, <2>1, Update2 DEF TInv, TypeOK, Starts
<1>5. HeldRuns
  BY <1>1, <1>4, FreshIsNew DEF HeldRuns, OtherRuns
<1>6. Sound(new, live', ledger')
  BY <1>4 DEF Sound, OfRun
<1>7. CallsSound'
  <2> HIDE DEF new
  <2> QED BY <1>1, <1>5, <1>6, OneCall
<1>8. PendingSound'
  <2> SUFFICES ASSUME NEW q \in Proc, NEW j \in Keys, pending'[q][j] # None
               PROVE  /\ live'[q][pending'[q][j].run] # None
                      /\ live'[q][pending'[q][j].run].key = j
                      /\ live'[q][pending'[q][j].run].input = pending'[q][j].input
    BY DEF PendingSound
  <2>1. entry \in Claim /\ entry.run = r /\ entry.input = i
    BY DEF Claim
  <2> HIDE DEF entry
  <2>2. \/ q = p /\ j = k /\ pending'[q][j] = entry
        \/ pending'[q][j] = pending[q][j]
    BY <1>1 DEF TInv, TypeOK
  <2>3. CASE q = p /\ j = k /\ pending'[q][j] = entry
    BY <1>4, <2>1, <2>3
  <2>4. CASE pending'[q][j] = pending[q][j]
    <3>1. pending[q][j].run \in RunIds
      BY <2>4 DEF TInv, TypeOK, Claim
    <3> QED BY <1>5, <2>4, <3>1 DEF PendingSound, HeldRuns
  <2> QED BY <2>2, <2>3, <2>4
<1>9. ResultOwns'
  <2>1. dry \in BOOLEAN /\ Transition("planned", "run.created") \in Seq(Op)
    BY FlagAssumption, OpTypes DEF FlagAssumption, Status, Event
  <2>2. w \in Walker /\ w.result = r
    BY <2>1 DEF Walker
  <2>3. Become(p, r, w)
    BY <1>1
  <2> HIDE DEF w
  <2>4. walk'[p][r] = w
    BY <2>2, <2>3, BecomeType DEF TInv
  <2>5. Results(p, r)
    BY <1>2, <2>2, <2>4 DEF Starts, Results
  <2> QED BY <1>5, <2>5, ResultsOwn
<1> QED BY <1>7, <1>8, <1>9

\* The end of a walk tells every waiting call of the walk's result.
LEMMA EndWalkAnswers ==
    ASSUME AInv, CInv', LedgerKept, NEW p \in Proc, NEW r \in RunIds, EndWalk(p, r)
    PROVE  AInv'
<1> USE DEF AInv, CInv
<1> DEFINE result == walk[p][r].result
           told(d) == [call[d] EXCEPT !.st = "answered", !.run = result,
                                      !.status = Get(p, result).status]
<1>1. /\ walk[p][r] # None /\ UNCHANGED <<ledger, live>>
      /\ call' = [d \in Callers |-> IF Awaits(d, p, r) THEN told(d) ELSE call[d]]
      /\ pending' = [pending EXCEPT ![p] = [k \in Keys |->
                        IF pending[p][k] # None /\ pending[p][k].run = r
                        THEN None ELSE pending[p][k]]]
  BY DEF EndWalk, Ready
<1>2. /\ walk[p][r] \in Walker /\ live[p][r] \in RunRecord /\ live[p][r] # None
      /\ result \in RunIds
  BY <1>1, HoldsRun DEF Walker
<1>3. HeldRuns
  BY <1>1, SameHeld
<1>4. Results(p, r)
  BY EndWalkLeaves DEF Leaves, Results
<1>5. PendingSound'
  <2>1. ASSUME NEW q \in Proc, NEW k \in Keys, pending'[q][k] # None
        PROVE  pending'[q][k] = pending[q][k]
    BY <1>1, <2>1 DEF TInv, TypeOK
  <2> QED BY <1>3, <2>1, PendingStays
<1>6. ASSUME NEW d \in Callers, Awaits(d, p, r)
      PROVE  Sound(told(d), live', ledger')
  <2>1. /\ call[d].st = "waiting" /\ call[d].proc = p /\ call[d].run = r
        /\ call[d].key \in Keys /\ call[d].input \in Inputs
        /\ live[p][r].key = call[d].key /\ live[p][r].input = call[d].input
    BY <1>6 DEF Awaits, CallsSound, Sound, OfRun
  <2>2. /\ told(d).st = "answered" /\ told(d).key = call[d].key
        /\ told(d).input = call[d].input /\ told(d).run = result
        /\ told(d).status = Get(p, result).status
    BY DEF TInv, TypeOK, CallState
  <2>3. ASSUME told(d).status \in Active
        PROVE  ledger[call[d].key] = [run |-> result, input |-> call[d].input]
    <3>1. CASE result = r
      <4>1. Get(p, result) = live[p][r] /\ live[p][r].status \in Active
        BY <1>2, <2>2, <2>3, <3>1 DEF Get
      <4>2. Owns(live[p][r], r)
        BY <1>2, <4>1 DEF ClaimDiscipline, ActiveOwns
      <4> QED BY <2>1, <3>1, <4>2 DEF Owns
    <3>2. CASE result # r
      BY <1>1, <2>1, <3>2 DEF ResultOwns
    <3> QED BY <3>1, <3>2
  <2> HIDE DEF told, result
  <2> QED BY <1>1, <1>2, <2>1, <2>2, <2>3 DEF Sound
<1>7. CallsSound'
  <2> SUFFICES ASSUME NEW d \in Callers PROVE Sound(call'[d], live', ledger')
    BY DEF CallsSound
  <2>1. CASE Awaits(d, p, r)
    <3>1. call'[d] = told(d)
      BY <1>1, <2>1
    <3> HIDE DEF told
    <3> QED BY <1>6, <2>1, <3>1
  <2>2. CASE ~Awaits(d, p, r)
    <3>1. call'[d] = call[d]
      BY <1>1, <2>2
    <3> QED BY <1>3, <3>1, SoundStays DEF CallsSound
  <2> QED BY <2>1, <2>2
<1>8. ResultOwns'
  BY <1>3, <1>4, ResultsOwn
<1> QED BY <1>5, <1>7, <1>8

\* A crash loses the calls that wait at the process, with the runs they wait for.
LEMMA CrashAnswers ==
    ASSUME AInv, CInv', LedgerKept, NEW p \in Proc, Crash(p)
    PROVE  AInv'
<1> USE DEF AInv, CInv
<1>1. /\ ledger' = ledger /\ Forgets(p)
      /\ \A k \in Keys : pending'[p][k] = None
      /\ \A q \in Proc : q # p => pending'[q] = pending[q]
      /\ \A d \in Callers : call'[d] = IF call[d].st = "waiting" /\ call[d].proc = p
                                       THEN [call[d] EXCEPT !.st = "lost"] ELSE call[d]
  BY CrashForgets DEF Crash, TInv, TypeOK
<1>2. CallsSound'
  <2> SUFFICES ASSUME NEW d \in Callers PROVE Sound(call'[d], live', ledger')
    BY DEF CallsSound
  <2>1. CASE call[d].st = "waiting" /\ call[d].proc = p
    <3>1. call'[d].st = "lost"
      BY <1>1, <2>1 DEF TInv, TypeOK, CallState
    <3> QED BY <3>1 DEF Sound
  <2>2. CASE ~(call[d].st = "waiting" /\ call[d].proc = p)
    <3>1. call'[d] = call[d] /\ Sound(call[d], live, ledger)
      BY <1>1, <2>2 DEF CallsSound
    <3> QED BY <1>1, <2>2, <3>1 DEF Sound, OfRun, Forgets
  <2> QED BY <2>1, <2>2
<1>3. PendingSound'
  <2> SUFFICES ASSUME NEW q \in Proc, NEW j \in Keys, pending'[q][j] # None
               PROVE  /\ live'[q][pending'[q][j].run] # None
                      /\ live'[q][pending'[q][j].run].key = j
                      /\ live'[q][pending'[q][j].run].input = pending'[q][j].input
    BY DEF PendingSound
  <2>1. q # p /\ pending'[q][j] = pending[q][j] /\ pending[q][j].run \in RunIds
    BY <1>1 DEF TInv, TypeOK, Claim
  <2> QED BY <1>1, <2>1 DEF PendingSound, Forgets
<1>4. ResultOwns'
  BY <1>1 DEF Forgets, ResultOwns
<1> QED BY <1>2, <1>3, <1>4

LEMMA NextAnswers ==
    ASSUME UniqueIds, AInv, [Next]_vars
    PROVE  AInv'
<1>1. CInv' /\ LedgerKept
  BY NextDiscipline, NextLedgerKept DEF AInv, CInv
<1>2. ASSUME NEW c \in Callers, NEW p \in Proc, Execute(c, p) PROVE AInv'
  BY <1>1, <1>2, ExecuteKnownAnswers, ExecuteSharedAnswers, ExecuteNewAnswers DEF Execute
<1>3. ASSUME NEW p \in Proc, NEW r \in RunIds,
             Segment(p, r) \/ Resolution(p, r) \/ Approve(p, r)
      PROVE  AInv'
  BY <1>1, <1>3, SegmentAnswers, EndWalkAnswers, ResolutionAnswers, ApproveAnswers
<1>4. ASSUME NEW p \in Proc, Crash(p) PROVE AInv'
  BY <1>1, <1>4, CrashAnswers
<1>5. CASE UNCHANGED vars
  <2>1. UNCHANGED <<ledger, live, walk, call, pending>>
    BY <1>5 DEF vars
  <2>2. CallsSound' /\ PendingSound' /\ ResultOwns'
    BY <2>1 DEF AInv, CallsSound, Sound, OfRun, PendingSound, ResultOwns
  <2> QED BY <1>1, <2>2 DEF AInv
<1> QED BY <1>2, <1>3, <1>4, <1>5 DEF Next

\* Callers agree: whoever is told that work on a key is under way, suspended or done
\* is told of the run that owns the key, and asked for that run's input (execute:
\* ledger hit, shared promise and lost claim).
THEOREM AnswersAreOfOwners == UniqueIds => (Spec => []AnswersAgree)
<1> SUFFICES ASSUME UniqueIds PROVE Spec => []AnswersAgree
  OBVIOUS
<1>1. Init => AInv
  <2> SUFFICES ASSUME Init PROVE AInv
    OBVIOUS
  <2>1. CallsSound
    BY DEF Init, CallsSound, Sound, NoCall
  <2>2. PendingSound /\ ResultOwns
    BY DEF Init, PendingSound, ResultOwns
  <2> QED BY <2>1, <2>2, InitTInv, InitDiscipline DEF AInv, CInv
<1>2. AInv /\ [Next]_vars => AInv'
  BY NextAnswers
<1>3. AInv => AnswersAgree
  BY DEF AInv, CallsSound, Sound, AnswersAgree
<1> QED BY <1>1, <1>2, <1>3, PTL DEF Spec

-----------------------------------------------------------------------------
(* Rest *)

\* Another process could take the key a call reserved, or leave the copy here stale.
OneProcess == \A p, q \in Proc : p = q

\* A run that no walk may still save is what its last revision says.
LastSaved ==
    \A p \in Proc, r \in RunIds :
        live[p][r] # None /\ ~Writes(walk[p][r]) => rev[StoreOf[p]][r] = live[p][r]

\* The key of a run that has yet to claim it is free, and the in-flight map keeps it
\* for that run.
Reserved ==
    \A p \in Proc, r \in RunIds :
        walk[p][r] # None /\ ~walk[p][r].claimed /\ ~walk[p][r].dry =>
            /\ ledger[live[p][r].key] = None
            /\ pending[p][live[p][r].key] # None
            /\ pending[p][live[p][r].key].run = r

RInv == TInv /\ LastSaved /\ Reserved

\* A walk that writes and has nothing queued writes after the step too, unless its
\* process forgets the run.
Carried ==
    \A p \in Proc, r \in RunIds :
        Writes(walk[p][r]) /\ walk[p][r].todo = << >> =>
            Writes(walk'[p][r]) \/ live'[p][r] = None

\* A step of one walk that leaves its claim alone.
Keeps(p, r) ==
    /\ OtherWalks(p, r) /\ walk[p][r] # None /\ walk'[p][r] # None
    /\ walk'[p][r].claimed = walk[p][r].claimed /\ walk'[p][r].dry = walk[p][r].dry
    /\ walk[p][r].todo # << >> \/ Writes(walk'[p][r])

LEMMA KeepsCarried ==
    ASSUME NEW p \in Proc, NEW r \in RunIds, Keeps(p, r)
    PROVE  Carried
  BY DEF Keeps, OtherWalks, Carried

LEMMA KeepsReserved ==
    ASSUME TInv, Reserved, HeldRuns, UNCHANGED <<ledger, pending>>,
           NEW p \in Proc, NEW r \in RunIds, Keeps(p, r)
    PROVE  Reserved'
<1> SUFFICES ASSUME NEW q \in Proc, NEW t \in RunIds,
                    walk'[q][t] # None, ~walk'[q][t].claimed, ~walk'[q][t].dry
             PROVE  /\ ledger'[live'[q][t].key] = None
                    /\ pending'[q][live'[q][t].key] # None
                    /\ pending'[q][live'[q][t].key].run = t
  BY DEF Reserved
<1>1. walk[q][t] # None /\ ~walk[q][t].claimed /\ ~walk[q][t].dry
  BY DEF Keeps, OtherWalks
<1>2. live'[q][t].key = live[q][t].key
  BY <1>1, HoldsRun DEF HeldRuns
<1> QED BY <1>1, <1>2 DEF Reserved

\* A walk that becomes one that writes, under the same claim.
LEMMA BecomesKeeps ==
    ASSUME TInv, NEW p \in Proc, NEW r \in RunIds, walk[p][r] # None,
           NEW w \in Walker, Become(p, r, w), w.claimed = walk[p][r].claimed,
           w.dry = walk[p][r].dry, w.then # "end" \/ ~NoSave(w.todo)
    PROVE  Keeps(p, r)
<1>1. walk'[p][r] = w /\ OtherWalks(p, r) /\ w # None
  BY BecomeType, NoneAssumption DEF TInv, OtherWalks, NoneAssumption
<1> QED BY <1>1 DEF Keeps, Writes

\* finish() queues a save.
LEMMA FinishKeeps ==
    ASSUME TInv, NEW p \in Proc, NEW r \in RunIds, walk[p][r] # None,
           NEW events \in Notes, NEW status \in Status,
           NEW type \in Event \ {"provider.attempt.started"},
           Finish(p, r, events, status, type)
    PROVE  Keeps(p, r)
<1> DEFINE t == Transition(status, type)
           todo == events \o t
           w == [walk[p][r] EXCEPT !.todo = todo, !.then = "end"]
<1>1. Become(p, r, w)
  BY DEF Finish, Goto
<1>2. walk[p][r] \in Walker
  BY HoldsRun
<1>3. events \in Seq(Op) /\ t \in Seq(Op) /\ In(Save(status), t)
  BY NoteQueue, OpTypes, InQueues
<1> HIDE DEF t
<1>4. todo \in Seq(Op) /\ In(Save(status), todo)
  BY <1>3, InConcat, OpSeqs
<1> HIDE DEF todo
<1>5. ~NoSave(todo)
  BY <1>4, OpsDiffer DEF NoSave
<1>6. /\ w \in Walker /\ w.claimed = walk[p][r].claimed /\ w.dry = walk[p][r].dry
      /\ w.todo = todo
  BY <1>2, <1>4 DEF Walker
<1> HIDE DEF w
<1> QED BY <1>1, <1>5, <1>6, BecomesKeeps

LEMMA HaltKeeps ==
    ASSUME TInv, NEW p \in Proc, NEW r \in RunIds, NEW kinds, NEW events \in Notes,
           NEW status \in Status, NEW type \in Event \ {"provider.attempt.started"},
           Halt(p, r, kinds, events, status, type)
    PROVE  Keeps(p, r)
<1>1. walk[p][r] # None /\ Finish(p, r, events, status, type)
  BY DEF Halt, Resolve, Awaiting
<1> QED BY <1>1, FinishKeeps

LEMMA PassKeeps ==
    ASSUME TInv, NEW p \in Proc, NEW r \in RunIds, NEW kinds, NEW events \in Notes,
           Pass(p, r, kinds, events)
    PROVE  Keeps(p, r)
<1> DEFINE w == [walk[p][r] EXCEPT !.i = @ + 1, !.todo = events, !.then = "enter"]
<1>1. walk[p][r] # None /\ Become(p, r, w)
  BY Zenon DEF Pass, Resolve, Awaiting
<1>2. walk[p][r] \in Walker
  BY <1>1, HoldsRun
<1>3. walk[p][r].i + 1 \in Nat /\ events \in Seq(Op)
  BY <1>2, NoteQueue DEF Walker
<1>4. /\ w \in Walker /\ w.claimed = walk[p][r].claimed /\ w.dry = walk[p][r].dry
      /\ w.then = "enter"
  BY <1>2, <1>3 DEF Walker
<1> HIDE DEF w
<1> QED BY <1>1, <1>4, BecomesKeeps

LEMMA AttemptFailsKeeps ==
    ASSUME TInv, NEW p \in Proc, NEW r \in RunIds, AttemptFails(p, r)
    PROVE  Keeps(p, r)
<1>1. <<Append1("provider.attempt.failed")>> \in Notes
  BY DEF Notes, Event
<1>2. CASE Halt(p, r, {"invoke"}, <<Append1("provider.attempt.failed")>>,
                "failed", "run.failed")
  BY <1>1, <1>2, HaltKeeps DEF Status, Event
<1>3. CASE /\ ~LastAttempt(p, r) /\ Resolve(p, r, {"invoke"})
           /\ Become(p, r, [walk[p][r] EXCEPT !.n = @ + 1,
                       !.todo = <<Append1("provider.attempt.failed")>> \o Attempt])
  <2> DEFINE todo == <<Append1("provider.attempt.failed")>> \o Attempt
             w == [walk[p][r] EXCEPT !.n = @ + 1, !.todo = todo]
  <2>1. /\ walk[p][r] # None /\ walk[p][r].then = "await" /\ Become(p, r, w)
    BY <1>3 DEF Resolve, Awaiting
  <2>2. walk[p][r] \in Walker /\ live[p][r] \in RunRecord
    BY <2>1, HoldsRun
  <2>3. walk[p][r].n + 1 \in 0..10
    <3>1. live[p][r].plan.max \in 0..10
      BY <2>2, PlansAssumption DEF RunRecord, PlansAssumption, PlanType
    <3>2. walk[p][r].n \in 0..10
      BY <2>2 DEF Walker
    <3>3. ~(walk[p][r].n >= live[p][r].plan.max)
      BY <1>3 DEF LastAttempt
    <3> QED BY <3>1, <3>2, <3>3
  <2>4. todo \in Seq(Op)
    BY <1>1, NoteQueue, OpTypes, OpSeqs
  <2> HIDE DEF todo
  <2>5. /\ w \in Walker /\ w.claimed = walk[p][r].claimed /\ w.dry = walk[p][r].dry
        /\ w.then = "await"
    BY <2>1, <2>2, <2>3, <2>4 DEF Walker
  <2> HIDE DEF w
  <2> QED BY <2>1, <2>5, BecomesKeeps
<1> QED BY <1>2, <1>3 DEF AttemptFails

LEMMA ResolutionKeeps ==
    ASSUME TInv, NEW p \in Proc, NEW r \in RunIds, Resolution(p, r)
    PROVE  Keeps(p, r)
<1>1. /\ << >> \in Notes
      /\ \A e \in Event \ {"provider.attempt.started"} : <<Append1(e)>> \in Notes
  BY DEF Notes
<1>2. CASE CheckPasses(p, r) \/ OutputPasses(p, r)
  BY <1>1, <1>2, PassKeeps DEF CheckPasses, OutputPasses
<1>3. CASE Authorizes(p, r) \/ PolicyAllows(p, r) \/ AttemptSucceeds(p, r)
  BY <1>1, <1>3, PassKeeps DEF Authorizes, PolicyAllows, AttemptSucceeds, Event
<1>4. CASE CheckDenies(p, r) \/ PolicyDenies(p, r) \/ PolicyErrs(p, r)
  BY <1>1, <1>4, HaltKeeps DEF CheckDenies, PolicyDenies, PolicyErrs, Status, Event
<1>5. CASE RefusesPrincipal(p, r)
  <2>1. PICK type \in {"authorization.refused", "authorization.error"} :
           Halt(p, r, {"authorize"}, <<Append1(type)>>, "denied", "authorization.denied")
    BY <1>5 DEF RefusesPrincipal
  <2>2. /\ type \in Event \ {"provider.attempt.started"} /\ "denied" \in Status
        /\ "authorization.denied" \in Event \ {"provider.attempt.started"}
    BY DEF Event, Status
  <2>3. <<Append1(type)>> \in Notes
    BY <1>1, <2>2
  <2> QED BY <2>1, <2>2, <2>3, HaltKeeps
<1>6. CASE OutputFails(p, r) \/ GapRefused(p, r) \/ Emits(p, r)
  BY <1>1, <1>6, HaltKeeps DEF OutputFails, GapRefused, Emits, Status, Event
<1>7. CASE Suspends(p, r) \/ InvokeRefused(p, r)
  BY <1>1, <1>7, HaltKeeps DEF Suspends, InvokeRefused, Status, Event
<1>8. CASE AttemptFails(p, r)
  BY <1>8, AttemptFailsKeeps
<1> QED BY <1>2, <1>3, <1>4, <1>5, <1>6, <1>7, <1>8 DEF Resolution

LEMMA LoopHeadKeeps ==
    ASSUME TInv, NEW p \in Proc, NEW r \in RunIds,
           \/ AcceptRequest(p, r) \/ RefuseRequest(p, r)
           \/ EndOfPlan(p, r) \/ StopDryRun(p, r)
    PROVE  Keeps(p, r)
<1>1. << >> \in Notes
  BY DEF Notes
<1>2. CASE AcceptRequest(p, r)
  <2> DEFINE w == [walk[p][r] EXCEPT !.todo = << >>, !.then = "enter"]
  <2>1. walk[p][r] # None /\ Become(p, r, w)
    BY <1>2 DEF AcceptRequest, Ready, Goto
  <2>2. walk[p][r] \in Walker
    BY <2>1, HoldsRun
  <2>3. /\ w \in Walker /\ w.claimed = walk[p][r].claimed /\ w.dry = walk[p][r].dry
        /\ w.then = "enter"
    BY <2>2, OpTypes DEF Walker
  <2> HIDE DEF w
  <2> QED BY <2>1, <2>3, BecomesKeeps
<1>3. CASE RefuseRequest(p, r)
  BY <1>1, <1>3, FinishKeeps DEF RefuseRequest, Ready, Status, Event
<1>4. CASE EndOfPlan(p, r)
  BY <1>1, <1>4, FinishKeeps DEF EndOfPlan, Enter, Ready, Status, Event
<1>5. CASE StopDryRun(p, r)
  BY <1>1, <1>5, FinishKeeps DEF StopDryRun, Enter, Ready, Status, Event
<1> QED BY <1>2, <1>3, <1>4, <1>5

LEMMA BeginNodeKeeps ==
    ASSUME TInv, NEW p \in Proc, NEW r \in RunIds, BeginNode(p, r)
    PROVE  Keeps(p, r)
<1> DEFINE invokes == Node(p, r) = "invoke" /\ Invocable(live[p][r].plan)
           todo == IF Node(p, r) = "gap" THEN <<Append1("node.skipped")>>
                   ELSE IF invokes THEN Attempt ELSE << >>
           n == IF invokes THEN 1 ELSE 0
           w == [walk[p][r] EXCEPT !.n = n, !.todo = todo, !.then = "await"]
<1>1. walk[p][r] # None /\ Become(p, r, w)
  BY DEF BeginNode, Enter, Ready
<1>2. walk[p][r] \in Walker
  BY <1>1, HoldsRun
<1>3. todo \in Seq(Op) /\ n \in 0..10
  BY OpTypes DEF Event
<1> HIDE DEF todo, n
<1>4. /\ w \in Walker /\ w.claimed = walk[p][r].claimed /\ w.dry = walk[p][r].dry
      /\ w.then = "await"
  BY <1>2, <1>3 DEF Walker
<1> HIDE DEF w
<1> QED BY <1>1, <1>4, BecomesKeeps

LEMMA StoreKeeps ==
    ASSUME TInv, NEW p \in Proc, NEW r \in RunIds, NEW op, StoreStep(p, r, op)
    PROVE  Keeps(p, r) /\ UNCHANGED <<ledger, pending>>
<1> DEFINE w == [walk[p][r] EXCEPT !.todo = Tail(@)]
<1>1. /\ walk[p][r] # None /\ walk[p][r].todo # << >> /\ Become(p, r, w)
      /\ UNCHANGED <<ledger, pending>>
  BY DEF StoreStep, HasTodo
<1>2. walk[p][r] \in Walker
  BY <1>1, HoldsRun
<1>3. Tail(walk[p][r].todo) \in Seq(Op)
  BY <1>1, <1>2, OpSeqs DEF Walker
<1>4. w \in Walker /\ w.claimed = walk[p][r].claimed /\ w.dry = walk[p][r].dry
  BY <1>2, <1>3 DEF Walker
<1> HIDE DEF w
<1>5. walk'[p][r] = w /\ OtherWalks(p, r) /\ w # None
  BY <1>1, <1>4, BecomeType, NoneAssumption DEF TInv, OtherWalks, NoneAssumption
<1> QED BY <1>1, <1>4, <1>5 DEF Keeps

\* With its key reserved a walk never loses the claim.
LEMMA ClaimKeyRests ==
    ASSUME RInv, NEW p \in Proc, NEW r \in RunIds, ClaimKey(p, r)
    PROVE  Carried /\ (OneProcess => Reserved')
<1> DEFINE k    == live[p][r].key
           mine == [run |-> r, input |-> live[p][r].input]
           w    == [walk[p][r] EXCEPT !.claimed = TRUE]
<1>1. /\ walk[p][r] # None /\ ~walk[p][r].claimed /\ ~walk[p][r].dry
      /\ walk[p][r].then = "enter" /\ UNCHANGED <<live, pending>>
  BY DEF ClaimKey, Enter, Ready, MustClaim
<1>2. walk[p][r] \in Walker /\ live[p][r] \in RunRecord
  BY <1>1, HoldsRun DEF RInv
<1>3. k \in Keys /\ ledger[k] = None
  BY <1>1, <1>2 DEF RInv, Reserved, RunRecord
<1>4. Owner(k, mine) = mine /\ mine.run = r /\ SameInput(mine, mine.input)
  BY <1>3 DEF Owner, SameInput
<1>5. ledger' = [ledger EXCEPT ![k] = mine] /\ Become(p, r, w)
  BY <1>4 DEF ClaimKey
<1>6. w \in Walker /\ w.claimed = TRUE /\ w.then = "enter" /\ w # None
  <2>1. w \in Walker /\ w.claimed = TRUE /\ w.then = "enter"
    BY <1>1, <1>2 DEF Walker
  <2> QED BY <2>1, NoneAssumption DEF NoneAssumption
<1> HIDE DEF w
<1>7. walk'[p][r] = w /\ OtherWalks(p, r)
  BY <1>5, <1>6, BecomeType DEF RInv, TInv, OtherWalks
<1>8. Carried
  BY <1>6, <1>7 DEF Carried, OtherWalks, Writes
<1>9. ASSUME OneProcess, NEW q \in Proc, NEW t \in RunIds,
             walk'[q][t] # None, ~walk'[q][t].claimed, ~walk'[q][t].dry
      PROVE  /\ ledger'[live'[q][t].key] = None
             /\ pending'[q][live'[q][t].key] # None
             /\ pending'[q][live'[q][t].key].run = t
  <2>1. q = p /\ t # r /\ walk'[q][t] = walk[q][t]
    BY <1>6, <1>7, <1>9 DEF OneProcess, OtherWalks
  <2>2. /\ ledger[live[q][t].key] = None /\ pending[q][live[q][t].key] # None
        /\ pending[q][live[q][t].key].run = t
    BY <1>9, <2>1 DEF RInv, Reserved
  <2>3. pending[p][k].run = r
    BY <1>1 DEF RInv, Reserved
  <2>4. live[q][t].key \in Keys /\ live[q][t].key # k
    <3>1. live[q][t] \in RunRecord
      BY <1>9, <2>1, HoldsRun DEF RInv
    <3> QED BY <2>1, <2>2, <2>3, <3>1 DEF RunRecord
  <2>5. ledger'[live[q][t].key] = ledger[live[q][t].key]
    <3> HIDE DEF k, mine
    <3> QED BY <1>5, <2>4 DEF RInv, TInv, TypeOK
  <2> QED BY <1>1, <2>2, <2>5
<1> QED BY <1>8, <1>9 DEF Reserved

\* A call reserves the key it finds free, unless it is a dry run.
LEMMA ExecuteNewRests ==
    ASSUME RInv, OneProcess, NEW c \in Callers, NEW p \in Proc, NEW k \in Keys,
           NEW i \in Inputs, NEW dry \in DryRun, NEW r \in RunIds, NEW plan \in Plans,
           ExecuteNew(c, p, k, i, dry, r, plan)
    PROVE  Carried /\ Reserved'
<1> DEFINE x == [status |-> "planned", key |-> k, input |-> i, plan |-> plan, steps |-> << >>]
           w == [i |-> 1, n |-> 0, claimed |-> FALSE, dry |-> dry,
                 todo |-> Transition("planned", "run.created"),
                 then |-> "check", result |-> r]
           claim == [run |-> r, input |-> i]
<1>1. /\ Become(p, r, w) /\ live' = [live EXCEPT ![p][r] = x] /\ UNCHANGED ledger
      /\ ~dry => ledger[k] = None /\ pending[p][k] = None
      /\ dry => pending' = pending
      /\ ~dry => pending' = [pending EXCEPT ![p][k] = claim]
  BY DEF ExecuteNew
<1>2. x \in RunRecord /\ x.key = k
  BY DEF RunRecord, Status
<1>3. w \in Walker /\ w.dry = dry /\ w.then = "check" /\ w # None
  <2>1. dry \in BOOLEAN /\ Transition("planned", "run.created") \in Seq(Op)
    BY FlagAssumption, OpTypes DEF FlagAssumption, Status, Event
  <2>2. w \in Walker /\ w.dry = dry /\ w.then = "check"
    BY <2>1 DEF Walker
  <2> QED BY <2>2, NoneAssumption DEF NoneAssumption
<1>4. claim \in Claim /\ claim.run = r /\ claim # None
  BY NoneAssumption DEF Claim, NoneAssumption
<1> HIDE DEF x, w, claim
<1>5. walk'[p][r] = w /\ OtherWalks(p, r)
  BY <1>1, <1>3, BecomeType DEF RInv, TInv, OtherWalks
<1>6. live'[p][r] = x /\ OtherRuns(p, r)
  BY <1>1, <1>2, Update2 DEF RInv, TInv, TypeOK, OtherRuns
<1>7. Carried
  BY <1>3, <1>5 DEF Carried, OtherWalks, Writes
<1>8. ~dry => /\ pending'[p][k] = claim
              /\ \A j \in Keys : j # k => pending'[p][j] = pending[p][j]
  BY <1>1 DEF RInv, TInv, TypeOK
<1>9. ASSUME NEW q \in Proc, NEW t \in RunIds,
             walk'[q][t] # None, ~walk'[q][t].claimed, ~walk'[q][t].dry
      PROVE  /\ ledger'[live'[q][t].key] = None
             /\ pending'[q][live'[q][t].key] # None
             /\ pending'[q][live'[q][t].key].run = t
  <2>1. q = p
    BY DEF OneProcess
  <2>2. CASE t = r
    BY <1>1, <1>2, <1>3, <1>4, <1>5, <1>6, <1>8, <1>9, <2>1, <2>2
  <2>3. CASE t # r
    <3>1. walk'[q][t] = walk[q][t] /\ live'[q][t] = live[q][t]
      BY <1>5, <1>6, <2>3 DEF OtherWalks, OtherRuns
    <3>2. /\ ledger[live[q][t].key] = None /\ pending[q][live[q][t].key] # None
          /\ pending[q][live[q][t].key].run = t
      BY <1>9, <3>1 DEF RInv, Reserved
    <3>3. live[q][t].key \in Keys
      BY <1>9, <3>1, HoldsRun DEF RInv, RunRecord
    <3>4. pending'[q][live[q][t].key] = pending[q][live[q][t].key]
      BY <1>1, <1>8, <2>1, <3>2, <3>3
    <3> QED BY <1>1, <3>1, <3>2, <3>4
  <2> QED BY <2>2, <2>3
<1> QED BY <1>7, <1>9 DEF Reserved

LEMMA EndWalkRests ==
    ASSUME RInv, NEW p \in Proc, NEW r \in RunIds, EndWalk(p, r)
    PROVE  Carried /\ Reserved'
<1>1. /\ walk[p][r] # None /\ walk[p][r].todo = << >> /\ walk[p][r].then = "end"
      /\ Become(p, r, None) /\ UNCHANGED <<ledger, live>>
      /\ pending' = [pending EXCEPT ![p] = [k \in Keys |->
                       IF @[k] # None /\ @[k].run = r THEN None ELSE @[k]]]
  BY DEF EndWalk, Ready
<1>2. walk'[p][r] = None /\ OtherWalks(p, r)
  BY <1>1, BecomeType DEF RInv, TInv, OtherWalks
<1>3. ~Writes(walk[p][r])
  BY <1>1, InEmpty DEF Writes, NoSave
<1>4. Carried
  BY <1>2, <1>3 DEF Carried, OtherWalks
<1>5. \A q \in Proc, k \in Keys :
         pending'[q][k] = pending[q][k] \/ (pending[q][k] # None /\ pending[q][k].run = r /\ q = p)
  BY <1>1 DEF RInv, TInv, TypeOK
<1>6. ASSUME NEW q \in Proc, NEW t \in RunIds,
             walk'[q][t] # None, ~walk'[q][t].claimed, ~walk'[q][t].dry
      PROVE  /\ ledger'[live'[q][t].key] = None
             /\ pending'[q][live'[q][t].key] # None
             /\ pending'[q][live'[q][t].key].run = t
  <2>1. walk'[q][t] = walk[q][t] /\ (q = p => t # r)
    BY <1>2, <1>6 DEF OtherWalks
  <2>2. /\ ledger[live[q][t].key] = None /\ pending[q][live[q][t].key] # None
        /\ pending[q][live[q][t].key].run = t
    BY <1>6, <2>1 DEF RInv, Reserved
  <2>3. live[q][t].key \in Keys
    BY <1>6, <2>1, HoldsRun DEF RInv, RunRecord
  <2>4. pending'[q][live[q][t].key] = pending[q][live[q][t].key]
    BY <1>5, <2>1, <2>2, <2>3
  <2> QED BY <1>1, <2>2, <2>4
<1> QED BY <1>4, <1>6 DEF Reserved

\* An approved run is claimed already.
LEMMA ApproveRests ==
    ASSUME RInv, NEW p \in Proc, NEW r \in RunIds, Approve(p, r)
    PROVE  Carried /\ Reserved'
<1>1. Resumes(p, r)
  BY ApproveResumes DEF RInv
<1>2. /\ OtherWalks(p, r) /\ OtherRuns(p, r) /\ walk'[p][r] \in Walker
      /\ walk'[p][r].then = "enter" /\ walk'[p][r] # None
  BY <1>1, NoneAssumption DEF Resumes, NoneAssumption
<1>3. UNCHANGED <<ledger, pending>>
  BY DEF Approve
<1>4. walk'[p][r].claimed = TRUE
  <2> DEFINE todo == <<Append1("approval.granted")>>
                        \o Transition("planned", "approval.accepted")
  <2>1. PICK i \in Suspended(Get(p, r).plan.nodes) :
           Become(p, r, [i |-> i + 1, n |-> 0, claimed |-> TRUE,
                         dry |-> FALSE, then |-> "enter", result |-> r, todo |-> todo])
    BY Zenon DEF Approve
  <2> DEFINE w == [i |-> i + 1, n |-> 0, claimed |-> TRUE, dry |-> FALSE,
                   then |-> "enter", result |-> r, todo |-> todo]
  <2>2. Become(p, r, w) /\ w.claimed = TRUE
    BY <2>1
  <2> HIDE DEF w
  <2>3. walk'[p][r] = w
    BY <2>2 DEF Become, RInv, TInv, TypeOK
  <2> QED BY <2>2, <2>3
<1>5. Carried
  BY <1>2 DEF Carried, OtherWalks, Writes
<1>6. Reserved'
  BY <1>2, <1>3, <1>4 DEF RInv, Reserved, OtherWalks, OtherRuns
<1> QED BY <1>5, <1>6

LEMMA CrashRests ==
    ASSUME RInv, NEW p \in Proc, Crash(p)
    PROVE  Carried /\ Reserved'
<1>1. Forgets(p) /\ UNCHANGED ledger
  BY CrashForgets DEF RInv, Crash
<1>2. \A q \in Proc : q # p => pending'[q] = pending[q]
  BY DEF Crash, RInv, TInv, TypeOK
<1>3. Carried
  BY <1>1 DEF Carried, Forgets
<1>4. Reserved'
  BY <1>1, <1>2 DEF Forgets, RInv, Reserved
<1> QED BY <1>3, <1>4

\* What is at rest stays as it was saved.
LEMMA StepSaved ==
    ASSUME RInv, OneProcess, Step, Carried
    PROVE  LastSaved'
<1> DEFINE Goal == \A q \in Proc, t \in RunIds :
                      live'[q][t] # None /\ ~Writes(walk'[q][t])
                         => rev'[StoreOf[q]][t] = live'[q][t]
<1> SUFFICES Goal
  BY DEF LastSaved, Writes, NoSave, In
<1>1. /\ \A q \in Proc, t \in RunIds :
            live[q][t] # None /\ ~Writes(walk[q][t]) => rev[StoreOf[q]][t] = live[q][t]
      /\ \A q \in Proc : StoreOf[q] \in Stores
  BY ProcAssumption DEF RInv, LastSaved, ProcAssumption
<1>2. ASSUME NEW p \in Proc, NEW r \in RunIds, Moves(p, r) PROVE Goal
  <2>1. Writes(walk[p][r]) /\ walk[p][r].todo = << >> /\ live'[p][r] # None
    BY <1>2, WritesKept DEF Moves, Advance
  <2>2. Writes(walk'[p][r])
    BY <2>1 DEF Carried
  <2> QED BY <1>1, <1>2, <2>2 DEF Moves, OtherWalks, OtherRuns
<1>3. ASSUME NEW p \in Proc, NEW r \in RunIds, NEW st \in Status, Saves(p, r, st) PROVE Goal
  <2>1. /\ OtherWalks(p, r) /\ OtherRuns(p, r) /\ rev'[StoreOf[p]][r] = live'[p][r]
        /\ \A s \in Stores, t \in RunIds :
              <<s, t>> # <<StoreOf[p], r>> => rev'[s][t] = rev[s][t]
    BY <1>3 DEF Saves, Performs
  <2>2. \A q \in Proc : q = p
    BY DEF OneProcess
  <2> QED BY <1>1, <2>1, <2>2 DEF OtherWalks, OtherRuns
<1>4. ASSUME NEW p \in Proc, NEW r \in RunIds, NEW op, Performs(p, r, op), op.op # "save",
             UNCHANGED <<live, rev>>
      PROVE  Goal
  <2>1. /\ walk[p][r] # None /\ Performed(walk[p][r], walk'[p][r])
        /\ Head(walk[p][r].todo) = op /\ OtherWalks(p, r)
    BY <1>4 DEF Performs
  <2>2. Writes(walk[p][r]) => Writes(walk'[p][r])
    <3>1. /\ \A o : In(o, walk[p][r].todo) <=> o = op \/ In(o, walk'[p][r].todo)
          /\ walk'[p][r].then = walk[p][r].then /\ walk'[p][r] # None
      BY <2>1, PerformedQueue, NoneAssumption DEF Performed, NoneAssumption
    <3> QED BY <1>4, <3>1 DEF Writes, NoSave
  <2> QED BY <1>1, <1>4, <2>1, <2>2 DEF OtherWalks
<1>5. ASSUME NEW p \in Proc, NEW r \in RunIds, NEW ty \in Event, Appends(p, r, ty) PROVE Goal
  BY <1>4, <1>5, OpsDiffer DEF Appends
<1>6. ASSUME NEW p \in Proc, NEW r \in RunIds, Calls(p, r) PROVE Goal
  BY <1>4, <1>6, OpsDiffer DEF Calls
<1>7. ASSUME NEW p \in Proc, NEW r \in RunIds, Leaves(p, r) PROVE Goal
  <2>1. walk[p][r].todo = << >> /\ walk'[p][r] = None /\ ~Writes(None)
    BY <1>7 DEF Leaves, Writes
  <2>2. live'[p][r] = None \/ ~Writes(walk[p][r])
    BY <2>1 DEF Carried
  <2> QED BY <1>1, <1>7, <2>2 DEF Leaves, OtherWalks
<1>8. ASSUME NEW p \in Proc, NEW r \in RunIds, Starts(p, r) \/ Resumes(p, r) PROVE Goal
  <2>1. /\ walk'[p][r] \in Walker /\ walk'[p][r].then # "end"
        /\ OtherWalks(p, r) /\ OtherRuns(p, r) /\ rev' = rev
    BY <1>8 DEF Starts, Resumes
  <2>2. Writes(walk'[p][r])
    BY <2>1, NoneAssumption DEF Writes, NoneAssumption
  <2> QED BY <1>1, <2>1, <2>2 DEF OtherWalks, OtherRuns
<1>9. ASSUME NEW p \in Proc, Forgets(p) PROVE Goal
  BY <1>1, <1>9 DEF Forgets
<1>10. CASE Rests
  BY <1>1, <1>10 DEF Rests
<1> HIDE DEF Goal
<1> QED BY <1>2, <1>3, <1>5, <1>6, <1>7, <1>8, <1>9, <1>10 DEF Step

LEMMA NextRests ==
    ASSUME RInv, OneProcess, [Next]_vars
    PROVE  RInv'
<1>1. TInv /\ TInv' /\ Step /\ Reserved
  BY NextTInv, StepForm DEF RInv
<1>2. ASSUME NEW p \in Proc, NEW r \in RunIds, Keeps(p, r), HeldRuns,
             UNCHANGED <<ledger, pending>>
      PROVE  Carried /\ Reserved'
  BY <1>1, <1>2, KeepsCarried, KeepsReserved
<1>3. ASSUME UNCHANGED <<ledger, pending, live, walk>> PROVE Carried /\ Reserved'
  BY <1>1, <1>3 DEF Carried, Reserved
<1>4. ASSUME NEW c \in Callers, NEW p \in Proc, Execute(c, p) PROVE Carried /\ Reserved'
  <2>1. PICK k \in Keys, i \in Inputs :
           \/ ExecuteKnown(c, p, k, i) \/ ExecuteShared(c, p, k, i)
           \/ \E dry \in DryRun, r \in RunIds, plan \in Plans :
                 ExecuteNew(c, p, k, i, dry, r, plan)
    BY <1>4 DEF Execute
  <2>2. CASE ExecuteKnown(c, p, k, i) \/ ExecuteShared(c, p, k, i)
    BY <1>3, <2>2 DEF ExecuteKnown, ExecuteShared
  <2>3. ASSUME NEW dry \in DryRun, NEW r \in RunIds, NEW plan \in Plans,
               ExecuteNew(c, p, k, i, dry, r, plan)
        PROVE  Carried /\ Reserved'
    BY <2>3, ExecuteNewRests
  <2> QED BY <2>1, <2>2, <2>3
<1>5. ASSUME NEW p \in Proc, NEW r \in RunIds, Segment(p, r) PROVE Carried /\ Reserved'
  <2>1. CASE StoreCall(p, r)
    <3>1. Keeps(p, r) /\ UNCHANGED <<ledger, pending>>
      BY <1>1, <2>1, StoreKeeps DEF StoreCall, SaveRun, AppendEvent, CallProvider
    <3>2. HeldRuns
      BY <1>1, <2>1, StoreCallStep, FormHeld
    <3> QED BY <1>2, <3>1, <3>2
  <2>2. CASE \/ AcceptRequest(p, r) \/ RefuseRequest(p, r)
             \/ EndOfPlan(p, r) \/ StopDryRun(p, r)
    <3>1. UNCHANGED <<ledger, pending, live>>
      BY <2>2 DEF AcceptRequest, RefuseRequest, EndOfPlan, StopDryRun
    <3> QED BY <1>1, <1>2, <2>2, <3>1, LoopHeadKeeps, SameHeld
  <2>3. CASE BeginNode(p, r)
    <3>1. UNCHANGED <<ledger, pending, live>>
      BY <2>3 DEF BeginNode
    <3> QED BY <1>1, <1>2, <2>3, <3>1, BeginNodeKeeps, SameHeld
  <2>4. CASE ClaimKey(p, r)
    BY <2>4, ClaimKeyRests
  <2>5. CASE EndWalk(p, r)
    BY <2>5, EndWalkRests
  <2> QED BY <1>5, <2>1, <2>2, <2>3, <2>4, <2>5 DEF Segment
<1>6. ASSUME NEW p \in Proc, NEW r \in RunIds, Resolution(p, r) PROVE Carried /\ Reserved'
  <2>1. Keeps(p, r) /\ HeldRuns
    BY <1>1, <1>6, ResolutionKeeps, ResolutionMoves, FormHeld
  <2>2. UNCHANGED <<ledger, pending>>
    <3>1. PICK w \in Walker : Shape(p, r, w)
      BY <1>1, <1>6, ResolutionShape
    <3> QED BY <3>1 DEF Shape, Resolve
  <2> QED BY <1>2, <2>1, <2>2
<1>7. ASSUME NEW p \in Proc, NEW r \in RunIds, Approve(p, r) PROVE Carried /\ Reserved'
  BY <1>7, ApproveRests
<1>8. ASSUME NEW p \in Proc, Crash(p) PROVE Carried /\ Reserved'
  BY <1>8, CrashRests
<1>9. ASSUME UNCHANGED vars PROVE Carried /\ Reserved'
  BY <1>3, <1>9 DEF vars
<1>10. Carried /\ Reserved'
  BY <1>4, <1>5, <1>6, <1>7, <1>8, <1>9 DEF Next
<1>11. LastSaved'
  BY <1>1, <1>10, StepSaved
<1> QED BY <1>1, <1>10, <1>11 DEF RInv

\* A run at rest is what its last revision says, without exception.
RestsSaved ==
    \A p \in Proc, r \in RunIds :
        live[p][r] # None /\ walk[p][r] = None => rev[StoreOf[p]][r] = live[p][r]

\* Where one process runs, a run at rest is what its last revision says, so that
\* replaying the log rebuilds it; there is no other process to lose a claim to or to
\* leave a copy behind (replayEquivalence, and the comment on finish()).
THEOREM RunsRestSaved == OneProcess => (Spec => [](RestsSaved /\ RestEquivalence))
<1> SUFFICES ASSUME OneProcess PROVE Spec => [](RestsSaved /\ RestEquivalence)
  OBVIOUS
<1>1. Init => RInv
  <2> SUFFICES ASSUME Init PROVE RInv
    OBVIOUS
  <2>1. LastSaved /\ Reserved
    BY DEF Init, LastSaved, Reserved
  <2> QED BY <2>1, InitTInv DEF RInv
<1>2. RInv /\ [Next]_vars => RInv'
  BY NextRests
<1>3. RInv => RestsSaved /\ RestEquivalence
  <2>1. RInv => RestsSaved
    BY DEF RInv, LastSaved, RestsSaved, Writes
  <2> QED BY <2>1 DEF RestsSaved, RestEquivalence
<1> QED BY <1>1, <1>2, <1>3, PTL DEF Spec

=============================================================================

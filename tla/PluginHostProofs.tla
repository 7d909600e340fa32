-------------------------- MODULE PluginHostProofs --------------------------
(***************************************************************************)
(* Theorems about PluginHost, for every number of plugins, directories,    *)
(* activations, shutdowns and calls, and every child.                      *)
(***************************************************************************)
EXTENDS PluginHost, TLAPS

-----------------------------------------------------------------------------
(* Lemmas about the lifecycle *)

\* Each operation of the lifecycle returns a lifecycle.
LEMMA LifecycleTypes ==
    /\ NewLifecycle \in Lifecycle
    /\ \A l \in Lifecycle, to \in LifecycleState : Advanced(l, to) \in Lifecycle
    /\ \A l \in Lifecycle : Failed(l) \in Lifecycle /\ Stopped(l) \in Lifecycle
<1>1. \A l \in Lifecycle, s \in LifecycleState : Enter1(l, s) \in Lifecycle
  BY DEF Enter1, Lifecycle
<1>2. {"discovered", "stopped", "failed"} \subseteq LifecycleState
  BY DEF LifecycleState, Chain
<1>3. NewLifecycle \in Lifecycle
  BY <1>2 DEF NewLifecycle, Lifecycle
<1> QED BY <1>1, <1>2, <1>3 DEF Advanced, Failed, Stopped

\* The states activate() and shutdown() name are states.
LEMMA Named ==
    {"verified", "dependencies-resolved", "authorized", "initialized", "healthy",
     "serving", "draining"} \subseteq LifecycleState
BY DEF LifecycleState, Chain

\* A legal move at the end of a history leaves a history.
LEMMA Extends1 ==
    ASSUME NEW l \in Lifecycle, IsHistory(l), NEW s \in LifecycleState,
           \/ <<l.state, s>> \in NextState
           \/ l.state \notin TerminalStates /\ s = "failed"
           \/ l.state # "stopped" /\ s = "stopped"
    PROVE  IsHistory(Enter1(l, s))
<1> DEFINE n == Len(l.log)
<1>1. l.log \in Seq(LifecycleState) /\ n \in Nat /\ n > 0 /\ l.log[n] = l.state
  BY DEF Lifecycle, IsHistory
<1>2. /\ Enter1(l, s).log = Append(l.log, s) /\ Enter1(l, s).state = s
  BY DEF Enter1
<1>3. /\ Len(Append(l.log, s)) = n + 1
      /\ Append(l.log, s)[n + 1] = s
      /\ \A i \in 1..n : Append(l.log, s)[i] = l.log[i]
  BY <1>1
<1>4. ASSUME NEW i \in 1..(n + 1) - 1
      PROVE  LET h == Append(l.log, s)
             IN \/ <<h[i], h[i + 1]>> \in NextState
                \/ h[i] \notin TerminalStates /\ h[i + 1] = "failed"
                \/ h[i] # "stopped" /\ h[i + 1] = "stopped"
  <2>1. CASE i = n
    BY <1>1, <1>3, <2>1
  <2>2. CASE i # n
    <3>1. i \in 1..n - 1 /\ i + 1 \in 1..n
      BY <2>2, <1>1
    <3> QED BY <3>1, <1>3 DEF IsHistory
  <2> QED BY <2>1, <2>2
<1> QED BY <1>1, <1>2, <1>3, <1>4 DEF IsHistory

\* Whatever the host calls on a lifecycle, and however its calls interleave, the
\* history stays legal: the operations refuse every other move.
LEMMA HistoryKept ==
    /\ IsHistory(NewLifecycle)
    /\ \A l \in Lifecycle, to \in LifecycleState : IsHistory(l) => IsHistory(Advanced(l, to))
    /\ \A l \in Lifecycle : IsHistory(l) => IsHistory(Failed(l)) /\ IsHistory(Stopped(l))
<1>1. IsHistory(NewLifecycle)
  BY DEF IsHistory, NewLifecycle
<1>2. {"failed", "stopped"} \subseteq LifecycleState
  BY DEF LifecycleState, Chain
<1>3. "stopped" \in TerminalStates
  BY DEF TerminalStates
<1>4. ASSUME NEW l \in Lifecycle, NEW to \in LifecycleState, IsHistory(l)
      PROVE  IsHistory(Advanced(l, to))
  BY <1>4, Extends1 DEF Advanced
<1>5. ASSUME NEW l \in Lifecycle, IsHistory(l)
      PROVE  IsHistory(Failed(l)) /\ IsHistory(Stopped(l))
  <2>1. CASE l.state \in TerminalStates
    BY <1>2, <1>3, <1>5, <2>1, Extends1 DEF Failed, Stopped
  <2>2. CASE l.state \notin TerminalStates
    BY <1>2, <1>3, <1>5, <2>2, Extends1 DEF Failed, Stopped
  <2> QED BY <2>1, <2>2
<1> QED BY <1>1, <1>4, <1>5
-----------------------------------------------------------------------------
(* Types *)

\* The activation has left its gates: only then is there an executor in its name.
Launched(a) == act[a].at \in {"starting", "ok", "refused"}

\* What a step relies on besides its types.
Placed ==
    /\ \A a \in Activations : act[a].at # "idle" => PluginOf(a) \in Plugins
    /\ \A n \in Plugins : executor[n] # None => Launched(executor[n])
    /\ \A e \in Activations :
          \/ box[e].proc # "none" \/ box[e].pending # {}
          \/ asks[e] # {} \/ fetching[e] # {}
          => Launched(e)

Typed == TypeOK /\ Placed

\* The initial state.
LEMMA TypedInit == PolicyAssumption /\ NameAssumption /\ Init => Typed
BY LifecycleTypes DEF Init, Typed, TypeOK, Placed, NewBox, Box, ActType, Stage, CallType,
     StopType, PluginOf

\* The steps that only move an activation through its gates.
LEMMA GateSteps ==
    ASSUME NameAssumption, Typed, NEW a \in Activations,
           \/ \E n \in Plugins : Activate(a, n) \/ ActivateUnknown(a, n)
           \/ VerifySignature(a) \/ ResolveDependencies(a)
           \/ AuthorizeCapabilities(a) \/ ModeUnsupported(a) \/ StartTimeout(a)
    PROVE  Typed'
<1> USE DEF Typed
<1>1. /\ UNCHANGED <<registry, record, executor, box, calls, asks, fetching, stop>>
      /\ \/ \E n \in Plugins, at \in {"verify", "refused"} :
               /\ act[a].at = "idle"
               /\ act' = [act EXCEPT ![a] = [at |-> at, plugin |-> n]]
               /\ UNCHANGED life
         \/ /\ PluginOf(a) \in Plugins
            /\ \E at \in {"depend", "authorize", "create", "refused"} :
                  /\ act' = [act EXCEPT ![a].at = at]
                  /\ act[a].at = "starting" => at = "refused"
                  /\ act[a].at \in {"verify", "depend", "authorize", "create", "starting"}
            /\ \/ \E to \in LifecycleState : 
                     life' = [life EXCEPT ![PluginOf(a)] = Advanced(@, to)]
               \/ life' = [life EXCEPT ![PluginOf(a)] = Failed(@)]
      /\ loop' \in {loop, a, None}
  <2>1. CASE \E n \in Plugins : Activate(a, n) \/ ActivateUnknown(a, n)
    BY <2>1 DEF Activate, ActivateUnknown, Quiet, Discovery, Effects
  <2>2. CASE VerifySignature(a)
    BY <2>2, Named DEF VerifySignature, InGate, Advance, Abort, Quiet, Discovery, Effects, Placed
  <2>3. CASE ResolveDependencies(a)
    BY <2>3, Named DEF ResolveDependencies, InGate, Advance, Abort, Quiet, Discovery, Effects, Placed
  <2>4. CASE AuthorizeCapabilities(a)
    BY <2>4, Named DEF AuthorizeCapabilities, InGate, Advance, Abort, Quiet, Discovery, Effects, Placed
  <2>5. CASE ModeUnsupported(a)
    BY <2>5 DEF ModeUnsupported, InGate, Abort, Quiet, Discovery, Effects, Placed
  <2>6. CASE StartTimeout(a)
    BY <2>6 DEF StartTimeout, StartOverdue, Abort, Quiet, Discovery, Effects, Placed
  <2> QED BY <2>1, <2>2, <2>3, <2>4, <2>5, <2>6
<1>2. act \in [Activations -> ActType] /\ life \in [Plugins -> Lifecycle]
  BY DEF TypeOK
<1>3. act' \in [Activations -> ActType]
  BY <1>1, <1>2 DEF ActType, Stage
<1>4. life' \in [Plugins -> Lifecycle]
  BY <1>1, <1>2, LifecycleTypes
<1>5. TypeOK'
  BY <1>1, <1>3, <1>4 DEF TypeOK
<1>6. \A b \in Activations : /\ Launched(b) => Launched(b)'
                             /\ act'[b].at # "idle" => act'[b].plugin \in Plugins
  BY <1>1, <1>2 DEF Launched, ActType, Stage, Placed, PluginOf
<1>7. Placed'
  BY <1>1, <1>6 DEF Placed, PluginOf, TypeOK
<1> QED BY <1>5, <1>7

\* What the host knows of a child it has just spawned.
LEMMA NewBoxTypes == NewBox \in Box /\ [NewBox EXCEPT !.child = TRUE, !.proc = "booting"] \in Box
BY DEF Box, NewBox

\* A step that types its own changes, launches nothing by accident and keeps the
\* plugin of every activation keeps everything typed and placed.
LEMMA PlacedKept ==
    ASSUME Typed, UNCHANGED act,
           \A n \in Plugins : executor'[n] \in {executor[n], None},
           \A e \in Activations :
              /\ box'[e].proc # "none" \/ box'[e].pending # {}
                 \/ asks'[e] # {} \/ fetching'[e] # {}
              => Launched(e)
    PROVE  Placed'
BY DEF Typed, Placed, Launched, PluginOf

LEMMA AdmitStep ==
    ASSUME NameAssumption, DirAssumption, Typed, NEW d \in Dirs, Admit(d)
    PROVE  Typed'
<1>1. d.name \in Plugins /\ d.version \in Versions /\ d.digest \in Digests
  BY DEF DirAssumption, DirType, Versions, Digests
<1>2. /\ registry' \in [Plugins -> [Versions -> Digests \cup {None}]]
      /\ record' \in [Plugins -> Dirs \cup {None}]
  BY <1>1 DEF Admit, Typed, TypeOK
<1>3. TypeOK'
  BY <1>2 DEF Admit, Typed, TypeOK, Effects
<1>4. Placed'
  BY PlacedKept DEF Admit, Typed, Placed, Effects
<1> QED BY <1>3, <1>4 DEF Typed

LEMMA StartStep ==
    ASSUME NameAssumption, Typed, NEW a \in Activations, Start(a)
    PROVE  Typed'
<1>1. /\ PluginOf(a) \in Plugins
      /\ act' = [act EXCEPT ![a].at = "starting"]
      /\ executor' = [executor EXCEPT ![PluginOf(a)] = a]
      /\ box' = [box EXCEPT ![a] = [NewBox EXCEPT !.child = TRUE, !.proc = "booting"]]
  BY DEF Start, Becomes, InGate, Typed, Placed
<1>2. /\ act' \in [Activations -> ActType]
      /\ executor' \in [Plugins -> Activations \cup {None}]
      /\ box' \in [Activations -> Box]
  BY <1>1, NewBoxTypes DEF Typed, TypeOK, ActType, Stage
<1>3. TypeOK'
  BY <1>2 DEF Start, Typed, TypeOK, Effects, Discovery
<1>4. \A b \in Activations : /\ Launched(b) => Launched(b)'
                             /\ act'[b].plugin = act[b].plugin
                             /\ act'[b].at # "idle" => b = a \/ act[b].at # "idle"
                             /\ b = a => Launched(b)'
  BY <1>1 DEF Launched, Typed, TypeOK, ActType
<1>5. Placed'
  BY <1>1, <1>4 DEF Start, Typed, TypeOK, Placed, PluginOf, Effects
<1> QED BY <1>3, <1>5 DEF Typed

\* The frame, the timer and the exit that resume an activation.
LEMMA ResumeSteps ==
    ASSUME NameAssumption, Typed, NEW a \in Activations,
           ReadReady(a) \/ SpawnFails(a)
    PROVE  Typed'
<1>1. /\ UNCHANGED <<registry, record, executor, calls, asks, fetching, stop>>
      /\ loop' \in {loop, None}
      /\ \/ UNCHANGED <<life, act>>
         \/ /\ act[a].at = "starting" /\ PluginOf(a) \in Plugins
            /\ \E at \in {"ok", "refused"} : act' = [act EXCEPT ![a].at = at]
            /\ \/ life' = [life EXCEPT ![PluginOf(a)] = Serve(@)]
               \/ life' = [life EXCEPT ![PluginOf(a)] = Failed(@)]
      /\ \E b \in Box : /\ box' = [box EXCEPT ![a] = b] /\ b.pending = box[a].pending
                        /\ b.proc = box[a].proc \/ act[a].at = "starting"
  <2> DEFINE heard == [box[a] EXCEPT !.hello = FALSE]
             gone  == [box[a] EXCEPT !.proc = "dead", !.exit = TRUE]
  <2>1. box[a] \in Box
    BY DEF Typed, TypeOK
  <2>2. /\ heard \in Box /\ heard.pending = box[a].pending /\ heard.proc = box[a].proc
        /\ gone \in Box /\ gone.pending = box[a].pending
    BY <2>1 DEF Box
  <2> HIDE DEF heard, gone
  <2>3. CASE ReadReady(a)
    <3>1. box' = [box EXCEPT ![a] = heard]
      BY <2>3 DEF ReadReady, Becomes, heard
    <3> QED BY <2>2, <2>3, <3>1 DEF ReadReady, Typed, Placed, Discovery, Effects
  <2>4. CASE SpawnFails(a)
    <3>1. box' = [box EXCEPT ![a] = gone]
      BY <2>4 DEF SpawnFails, Becomes, gone
    <3> QED BY <2>2, <2>4, <3>1 DEF SpawnFails, Abort, Typed, Placed, Discovery, Effects
  <2> QED BY <2>3, <2>4
<1>2. /\ act \in [Activations -> ActType] /\ life \in [Plugins -> Lifecycle]
      /\ box \in [Activations -> Box]
  BY DEF Typed, TypeOK
<1>3. act' \in [Activations -> ActType]
  BY <1>1, <1>2 DEF ActType, Stage
<1>4. \A l \in Lifecycle : Serve(l) \in Lifecycle
  BY LifecycleTypes, Named DEF Serve
<1>5. life' \in [Plugins -> Lifecycle]
  BY <1>1, <1>2, <1>4, LifecycleTypes
<1>6. box' \in [Activations -> Box]
  BY <1>1, <1>2
<1>7. TypeOK'
  BY <1>1, <1>3, <1>5, <1>6 DEF Typed, TypeOK
<1>8. \A b \in Activations : /\ Launched(b) => Launched(b)'
                             /\ act'[b].plugin = act[b].plugin
                             /\ act'[b].at # "idle" => act[b].at # "idle"
                             /\ box'[b].proc # "none" => box[b].proc # "none" \/ Launched(b)'
                             /\ box'[b].pending = box[b].pending
  BY <1>1, <1>2 DEF Launched, ActType, Box
<1>9. Placed'
  BY <1>1, <1>8 DEF Typed, TypeOK, Placed, PluginOf
<1> QED BY <1>7, <1>9 DEF Typed

LEMMA ChildSteps ==
    ASSUME NameAssumption, Typed, NEW e \in Activations, Child(e)
    PROVE  Typed'
<1>1. box[e] \in Box
  BY DEF Typed, TypeOK
<1>2. /\ UNCHANGED <<registry, record, life, executor, loop, act, calls, fetching, stop>>
      /\ box[e].proc # "none"
      /\ \/ UNCHANGED box
         \/ \E b \in Box : box' = [box EXCEPT ![e] = b] /\ b.pending = box[e].pending
      /\ \/ UNCHANGED asks
         \/ \E cap \in Requests : asks' = [asks EXCEPT ![e] = @ \cup {cap}]
  <2> DEFINE answers(c) == [box[e] EXCEPT !.work = @ \ {c}, !.replies = @ \cup {c}]
             boots == [box[e] EXCEPT !.proc = "up", !.hello = TRUE]
             dies  == [box[e] EXCEPT !.proc = "dead", !.work = {}]
  <2>1. /\ boots \in Box /\ boots.pending = box[e].pending
        /\ dies \in Box /\ dies.pending = box[e].pending
        /\ \A c \in Calls : answers(c) \in Box /\ answers(c).pending = box[e].pending
    BY <1>1 DEF Box
  <2>2. CASE ChildReady(e)
    BY <2>1, <2>2 DEF ChildReady, Becomes, ChildOnly, Discovery, Effects
  <2>3. CASE ChildDies(e)
    BY <2>1, <2>3 DEF ChildDies, Becomes, Alive, ChildOnly, Discovery, Effects
  <2>4. CASE \E c \in Calls : ChildReplies(e, c)
    BY <2>1, <2>4 DEF ChildReplies, Becomes, ChildOnly, Discovery, Effects
  <2>5. CASE \E cap \in Requests : ChildAsks(e, cap)
    BY <2>5 DEF ChildAsks, Alive, ChildOnly, Discovery
  <2> QED BY <2>2, <2>3, <2>4, <2>5 DEF Child
<1>3. /\ box' \in [Activations -> Box]
      /\ asks' \in [Activations -> SUBSET Requests]
  <2>1. box \in [Activations -> Box] /\ asks \in [Activations -> SUBSET Requests]
    BY DEF Typed, TypeOK
  <2>2. box' \in [Activations -> Box]
    BY <1>2, <2>1
  <2>3. ASSUME NEW cap \in Requests, asks' = [asks EXCEPT ![e] = @ \cup {cap}]
        PROVE  asks' \in [Activations -> SUBSET Requests]
    BY <2>1, <2>3
  <2> QED BY <1>2, <2>1, <2>2, <2>3
<1>4. TypeOK'
  BY <1>2, <1>3 DEF Typed, TypeOK
<1>5. \A b \in Activations : /\ b # e => box'[b] = box[b] /\ asks'[b] = asks[b]
                             /\ box'[b].pending = box[b].pending
  BY <1>2 DEF Typed, TypeOK
<1>6. Launched(e)
  BY <1>2 DEF Typed, Placed
<1>7. Placed'
  BY <1>2, <1>5, <1>6, PlacedKept DEF Typed, Placed
<1> QED BY <1>4, <1>7 DEF Typed

\* An answer, whether to one call or to all that an executor holds, is an answer.
LEMMA AnswerTypes ==
    /\ \A c \in CallType, answer \in Answer : Answered(c, answer) \in CallType
    /\ calls \in [Calls -> CallType] =>
          \A e \in Activations : FailPending(e) \in [Calls -> CallType]
<1>1. ASSUME NEW S, NEW T, NEW U, NEW c \in [st : S, to : T, answer : U], NEW answer \in Answer
      PROVE  Answered(c, answer) \in [st : {"answered"}, to : T, answer : Answer]
  BY DEF Answered
<1>2. ASSUME NEW c \in CallType, NEW answer \in Answer
      PROVE  Answered(c, answer) \in CallType
  <2>1. \E S, T, U : c \in [st : S, to : T, answer : U] /\ T \subseteq Activations \cup {None}
    BY DEF CallType
  <2>2. Answered(c, answer) \in [st : {"answered"}, to : Activations \cup {None}, answer : Answer]
    BY <1>1, <2>1
  <2> QED BY <2>2 DEF CallType
<1>3. "CALL_FAILED" \in Answer
  BY DEF Answer
<1> QED BY <1>2, <1>3 DEF FailPending

LEMMA CallSteps ==
    ASSUME AnswerAssumption, Typed, NEW c \in Calls, NEW n, NEW e,
           \/ n \in Plugins /\ (Refuse(c, n) \/ Send(c, n))
           \/ e \in Activations /\ (ReadReply(e, c) \/ CallTimeout(e, c))
    PROVE  Typed'
<1>1. /\ calls \in [Calls -> CallType] /\ box \in [Activations -> Box]
      /\ executor \in [Plugins -> Activations \cup {None}]
  BY DEF Typed, TypeOK
<1>2. /\ UNCHANGED <<registry, record, life, executor, loop, act, asks, fetching, stop>>
      /\ calls' \in [Calls -> CallType]
      /\ \/ UNCHANGED box
         \/ \E f \in Activations, b \in Box :
               /\ box' = [box EXCEPT ![f] = b]
               /\ Launched(f) \/ (b.proc = box[f].proc /\ b.pending \subseteq box[f].pending)
  <2>1. CASE n \in Plugins /\ Refuse(c, n)
    <3>1. Refusal(n) # None => Refusal(n) \in Answer
      BY DEF Refusal, Answer
    <3> QED BY <1>1, <2>1, <3>1, AnswerTypes DEF Refuse, Discovery, Effects
  <2>2. CASE n \in Plugins /\ Send(c, n)
    <3> DEFINE f == executor[n]
               work == IF Alive(f) THEN box[f].work \cup {c} ELSE box[f].work
               b == [box[f] EXCEPT !.pending = @ \cup {c}, !.work = work]
    <3>1. executor[n] # None
      BY <2>2 DEF Send, Refusal, AnswerAssumption, Answer
    <3>2. f \in Activations /\ Launched(f)
      BY <1>1, <2>2, <3>1 DEF Typed, Placed
    <3>3. box[f] \in Box /\ work \in SUBSET Calls
      BY <1>1, <3>2 DEF Box
    <3>4. /\ box' = [box EXCEPT ![f] = b]
          /\ UNCHANGED <<registry, record, life, executor, loop, act, asks, fetching, stop>>
      BY <2>2 DEF Send, Becomes, Discovery, Effects
    <3>5. calls' = [calls EXCEPT ![c] = [st |-> "waiting", to |-> f, answer |-> None]]
      BY <2>2 DEF Send
    <3>6. calls' \in [Calls -> CallType]
      BY <1>1, <3>2, <3>5 DEF CallType
    <3> HIDE DEF work
    <3>7. b \in Box
      BY <3>3 DEF Box
    <3> HIDE DEF b, f
    <3> QED BY <3>2, <3>4, <3>6, <3>7
  <2>3. CASE e \in Activations /\ ReadReply(e, c)
    <3> DEFINE b == [box[e] EXCEPT !.replies = @ \ {c}, !.pending = @ \ {c}]
    <3>1. b \in Box /\ b.proc = box[e].proc /\ b.pending \subseteq box[e].pending
      BY <1>1, <2>3 DEF Box
    <3>2. box' = [box EXCEPT ![e] = b]
      BY <2>3 DEF ReadReply, Becomes
    <3>4. {"value", "error"} \subseteq Answer
      BY DEF Answer
    <3>5. calls' \in [Calls -> CallType]
      BY <1>1, <2>3, <3>4, AnswerTypes DEF ReadReply
    <3> HIDE DEF b
    <3> QED BY <2>3, <3>1, <3>2, <3>5 DEF ReadReply, Discovery, Effects
  <2>4. CASE e \in Activations /\ CallTimeout(e, c)
    <3> DEFINE b == [box[e] EXCEPT !.pending = Drops(@, c), !.kill = @ \/ box[e].child]
    <3>1. b \in Box
      BY <1>1, <2>4 DEF Box, Drops
    <3>2. box' = [box EXCEPT ![e] = b]
      BY <2>4 DEF CallTimeout, Becomes
    <3>3. Launched(e)
      BY <2>4 DEF CallTimeout, Typed, Placed
    <3>4. "CALL_TIMEOUT" \in Answer
      BY DEF Answer
    <3>5. calls' \in [Calls -> CallType]
      BY <1>1, <2>4, <3>4, AnswerTypes DEF CallTimeout
    <3> HIDE DEF b
    <3> QED BY <2>4, <3>1, <3>2, <3>3, <3>5 DEF CallTimeout, Discovery, Effects
  <2> QED BY <2>1, <2>2, <2>3, <2>4
<1>3. box' \in [Activations -> Box]
  BY <1>1, <1>2
<1>4. TypeOK'
  BY <1>2, <1>3 DEF Typed, TypeOK
<1>5. \A f \in Activations : \/ Launched(f)
                             \/ box'[f].proc = box[f].proc /\ box'[f].pending \subseteq box[f].pending
  <2>1. CASE UNCHANGED box
    BY <2>1
  <2>2. CASE \E g \in Activations, b \in Box :
               /\ box' = [box EXCEPT ![g] = b]
               /\ Launched(g) \/ (b.proc = box[g].proc /\ b.pending \subseteq box[g].pending)
    BY <1>1, <2>2
  <2> QED BY <1>2, <2>1, <2>2
<1>6. Placed'
  BY <1>2, <1>5, PlacedKept DEF Typed, Placed
<1> QED BY <1>4, <1>6 DEF Typed

LEMMA EffectSteps ==
    ASSUME NameAssumption, Typed, NEW e \in Activations, NEW cap \in Requests,
           Mediate(e, cap) \/ FetchSettles(e, cap)
    PROVE  Typed'
<1>1. /\ UNCHANGED <<registry, record, life, executor, loop, act, box, calls, stop>>
      /\ asks[e] # {} \/ fetching[e] # {}
      /\ asks' = asks \/ asks' = [asks EXCEPT ![e] = @ \ {cap}]
      /\ \/ fetching' = fetching \/ fetching' = [fetching EXCEPT ![e] = @ \cup {cap}]
         \/ fetching' = [fetching EXCEPT ![e] = @ \ {cap}]
  <2>1. CASE Mediate(e, cap)
    BY <2>1 DEF Mediate, ChildOnly, Discovery
  <2>2. CASE FetchSettles(e, cap)
    BY <2>2 DEF FetchSettles, ChildOnly, Discovery
  <2> QED BY <2>1, <2>2
<1>2. TypeOK'
  <2>1. asks' \in [Activations -> SUBSET Requests]
    BY <1>1 DEF Typed, TypeOK
  <2>2. fetching' \in [Activations -> SUBSET Requests]
    BY <1>1 DEF Typed, TypeOK
  <2> QED BY <1>1, <2>1, <2>2 DEF Typed, TypeOK
<1>3. \A f \in Activations : \/ asks'[f] = asks[f] /\ fetching'[f] = fetching[f]
                             \/ Launched(f)
  BY <1>1 DEF Typed, TypeOK, Placed
<1>4. Placed'
  BY <1>1, <1>3, PlacedKept DEF Typed, Placed
<1> QED BY <1>2, <1>4 DEF Typed

\* shutdown() of the executor the record points to, ahead of its exit or without one.
LEMMA StopExecutorStep ==
    ASSUME Typed, NEW s \in Shutdowns, NEW n \in Plugins, StopExecutor(s, n)
    PROVE  /\ box' \in [Activations -> Box]
           /\ calls' \in [Calls -> CallType]
           /\ life' \in [Plugins -> Lifecycle]
           /\ stop' \in [Shutdowns -> StopType]
           /\ \A f \in Activations : /\ box'[f].proc = box[f].proc
                                     /\ box'[f].pending \subseteq box[f].pending
<1> DEFINE e == executor[n]
           b == [box[e] EXCEPT !.child = FALSE, !.pending = {}]
<1>1. /\ calls \in [Calls -> CallType] /\ box \in [Activations -> Box]
      /\ executor \in [Plugins -> Activations \cup {None}]
      /\ life \in [Plugins -> Lifecycle] /\ stop \in [Shutdowns -> StopType]
  BY DEF Typed, TypeOK
<1>2. Return(s, n) => /\ life' \in [Plugins -> Lifecycle]
                      /\ stop' \in [Shutdowns -> StopType]
  BY <1>1, LifecycleTypes DEF Return, StopType
<1>3. CASE e = None
  BY <1>1, <1>2, <1>3 DEF StopExecutor
<1>4. CASE e # None
  <2>1. e \in Activations /\ box[e] \in Box
    BY <1>1, <1>4
  <2>2. b \in Box /\ b.proc = box[e].proc /\ b.pending = {}
    BY <2>1 DEF Box
  <2>3. box' = [box EXCEPT ![e] = b] /\ calls' = FailPending(e)
    BY <1>4 DEF StopExecutor, Becomes
  <2>4. \/ Return(s, n)
        \/ /\ stop' = [stop EXCEPT ![s] = [at |-> "stopping", plugin |-> n, child |-> e]]
           /\ UNCHANGED life
    BY <1>4 DEF StopExecutor
  <2>5. /\ life' \in [Plugins -> Lifecycle]
        /\ stop' \in [Shutdowns -> StopType]
    BY <1>1, <1>2, <2>1, <2>4 DEF StopType
  <2> HIDE DEF b, e
  <2> QED BY <1>1, <2>1, <2>2, <2>3, <2>5, AnswerTypes
<1> QED BY <1>3, <1>4

LEMMA ShutdownSteps ==
    ASSUME Typed, NEW s \in Shutdowns, NEW n,
           \/ n \in Plugins /\ (Shutdown(s, n) \/ Drain(s, n))
           \/ Drained(s) \/ StopTimer(s)
    PROVE  Typed'
<1>1. /\ calls \in [Calls -> CallType] /\ box \in [Activations -> Box]
      /\ life \in [Plugins -> Lifecycle] /\ stop \in [Shutdowns -> StopType]
  BY DEF Typed, TypeOK
<1>2. /\ stop[s].at = "draining" => stop[s].plugin \in Plugins
      /\ stop[s].at = "stopping" => stop[s].plugin \in Plugins /\ stop[s].child \in Activations
  BY <1>1 DEF StopType
<1>3. /\ UNCHANGED <<registry, record, executor, loop, act, asks, fetching>>
      /\ box' \in [Activations -> Box]
      /\ calls' \in [Calls -> CallType]
      /\ life' \in [Plugins -> Lifecycle]
      /\ stop' \in [Shutdowns -> StopType]
      /\ \A f \in Activations : /\ box'[f].proc = box[f].proc
                                /\ box'[f].pending \subseteq box[f].pending
  <2>1. CASE n \in Plugins /\ Shutdown(s, n)
    BY <2>1, StopExecutorStep DEF Shutdown, Discovery, Effects
  <2>2. CASE n \in Plugins /\ Drain(s, n)
    BY <1>1, <2>2, LifecycleTypes, Named DEF Drain, Discovery, Effects, StopType
  <2>3. CASE Drained(s)
    BY <1>2, <2>3, StopExecutorStep DEF Drained, Discovery, Effects
  <2>4. CASE StopTimer(s)
    <3> DEFINE e == stop[s].child
               b == [box[e] EXCEPT !.kill = Kills(e)]
    <3>1. e \in Activations /\ stop[s].plugin \in Plugins
      BY <1>2, <2>4 DEF StopTimer, StopOverdue
    <3>2. b \in Box /\ b.proc = box[e].proc /\ b.pending = box[e].pending
      BY <1>1, <3>1 DEF Box, Kills
    <3>3. box' = [box EXCEPT ![e] = b] /\ Return(s, stop[s].plugin)
      BY <2>4 DEF StopTimer, Becomes
    <3>4. life' \in [Plugins -> Lifecycle] /\ stop' \in [Shutdowns -> StopType]
      BY <1>1, <3>1, <3>3, LifecycleTypes DEF Return, StopType
    <3> HIDE DEF b, e
    <3> QED BY <1>1, <2>4, <3>1, <3>2, <3>3, <3>4 DEF StopTimer, Discovery, Effects
  <2> QED BY <2>1, <2>2, <2>3, <2>4
<1>4. TypeOK'
  BY <1>3 DEF Typed, TypeOK
<1>5. Placed'
  BY <1>3, PlacedKept DEF Typed, Placed
<1> QED BY <1>4, <1>5 DEF Typed

LEMMA ExitStep ==
    ASSUME Typed, NEW e \in Activations, Exit(e)
    PROVE  Typed'
<1> DEFINE n == PluginOf(e)
           b == [box[e] EXCEPT !.exit = TRUE, !.pending = {}]
           waiting == {s \in Shutdowns : stop[s].at = "stopping" /\ stop[s].child = e}
           stopped == IF waiting = {} THEN life[n] ELSE Stopped(life[n])
<1>1. /\ calls \in [Calls -> CallType] /\ box \in [Activations -> Box]
      /\ act \in [Activations -> ActType]
      /\ life \in [Plugins -> Lifecycle] /\ stop \in [Shutdowns -> StopType]
  BY DEF Typed, TypeOK
<1>2. /\ UNCHANGED <<registry, record, executor, loop, asks, fetching>>
      /\ box' = [box EXCEPT ![e] = b]
      /\ calls' = FailPending(e)
      /\ act' = IF act[e].at = "starting" THEN [act EXCEPT ![e].at = "refused"] ELSE act
      /\ life' = [life EXCEPT ![n] = IF act[e].at = "starting" THEN Failed(stopped) ELSE stopped]
      /\ stop' = [s \in Shutdowns |-> IF s \in waiting
                     THEN [at |-> "returned", plugin |-> n, child |-> None] ELSE stop[s]]
      /\ box[e].proc = "dead"
  BY DEF Exit, Becomes, Discovery, Effects
<1>3. Launched(e) /\ n \in Plugins
  BY <1>2 DEF Typed, Placed, Launched
<1>4. stopped \in Lifecycle
  BY <1>1, <1>3, LifecycleTypes
<1>5. b \in Box /\ b.proc = box[e].proc /\ b.pending = {}
  BY <1>1 DEF Box
<1> HIDE DEF b, n, waiting, stopped
<1>6. /\ box' \in [Activations -> Box]
      /\ calls' \in [Calls -> CallType]
  BY <1>1, <1>2, <1>5, AnswerTypes
<1>7. life' \in [Plugins -> Lifecycle]
  BY <1>1, <1>2, <1>4, LifecycleTypes
<1>8. stop' \in [Shutdowns -> StopType]
  BY <1>1, <1>2, <1>3 DEF StopType
<1>9. act' \in [Activations -> ActType]
  BY <1>1, <1>2 DEF ActType, Stage
<1>10. TypeOK'
  BY <1>2, <1>6, <1>7, <1>8, <1>9 DEF Typed, TypeOK
<1>11. \A f \in Activations : /\ Launched(f) => Launched(f)'
                              /\ act'[f].plugin = act[f].plugin
                              /\ act'[f].at # "idle" => act[f].at # "idle"
                              /\ box'[f].proc = box[f].proc
                              /\ box'[f].pending \subseteq box[f].pending
  BY <1>1, <1>2, <1>5 DEF Launched, ActType
<1>12. Placed'
  BY <1>2, <1>11 DEF Typed, TypeOK, Placed, PluginOf
<1> QED BY <1>10, <1>12 DEF Typed

\* Every step keeps the types and the placing of executors.
LEMMA TypedStep ==
    DirAssumption /\ NameAssumption /\ AnswerAssumption /\ Typed /\ [Next]_vars => Typed'
<1> SUFFICES ASSUME DirAssumption, NameAssumption, AnswerAssumption, Typed, [Next]_vars
             PROVE  Typed'
  OBVIOUS
<1>1. CASE UNCHANGED vars
  BY <1>1 DEF vars, Typed, TypeOK, Placed, Launched, PluginOf
<1>2. ASSUME NEW d \in Dirs, Admit(d) PROVE Typed'
  BY <1>2, AdmitStep
<1>3. ASSUME NEW a \in Activations, NEW n \in Plugins, Activate(a, n) \/ ActivateUnknown(a, n)
      PROVE  Typed'
  BY <1>3, GateSteps
<1>4. ASSUME NEW a \in Activations, Gates(a) PROVE Typed'
  BY <1>4, GateSteps, StartStep DEF Gates
<1>5. ASSUME NEW a \in Activations, Child(a) PROVE Typed'
  BY <1>5, ChildSteps
<1>6. ASSUME NEW a \in Activations, ReadReady(a) \/ StartTimeout(a) \/ SpawnFails(a) \/ Exit(a)
      PROVE  Typed'
  BY <1>6, ResumeSteps, GateSteps, ExitStep
<1>7. ASSUME NEW e \in Activations, NEW cap \in Requests, Mediate(e, cap) \/ FetchSettles(e, cap)
      PROVE  Typed'
  BY <1>7, EffectSteps
<1>8. ASSUME NEW e \in Activations, NEW c \in Calls, ReadReply(e, c) \/ CallTimeout(e, c)
      PROVE  Typed'
  BY <1>8, CallSteps
<1>9. ASSUME NEW c \in Calls, NEW n \in Plugins, Refuse(c, n) \/ Send(c, n)
      PROVE  Typed'
  BY <1>9, CallSteps
<1>10. ASSUME NEW s \in Shutdowns, NEW n \in Plugins, Shutdown(s, n) \/ Drain(s, n)
       PROVE  Typed'
  BY <1>10, ShutdownSteps
<1>11. ASSUME NEW s \in Shutdowns, Drained(s) \/ StopTimer(s)
       PROVE  Typed'
  BY <1>11, ShutdownSteps
<1> QED BY <1>1, <1>2, <1>3, <1>4, <1>5, <1>6, <1>7, <1>8, <1>9, <1>10, <1>11
        DEF Next, Event

Constants == PolicyAssumption /\ DirAssumption /\ NameAssumption /\ AnswerAssumption

\* The inductive invariant of the types: an executor and all that depends on it belong
\* to an activation that is past its gates.
LEMMA AlwaysTyped == Constants => (Spec => []Typed)
<1> SUFFICES ASSUME Constants PROVE Spec => []Typed
  OBVIOUS
<1>1. Init => Typed
  BY TypedInit DEF Constants
<1>2. Typed /\ [Next]_vars => Typed'
  BY TypedStep DEF Constants
<1> QED BY <1>1, <1>2, PTL DEF Spec

\* Type correctness: records, lifecycles, executors, calls and shutdowns are what the
\* code declares them to be.
THEOREM PluginTypes == Constants => (Spec => []TypeOK)
<1> SUFFICES ASSUME Constants PROVE Spec => []TypeOK
  OBVIOUS
<1>1. Typed => TypeOK
  BY DEF Typed
<1> QED BY <1>1, AlwaysTyped, PTL

-----------------------------------------------------------------------------
(* Histories *)

Good == {l \in Lifecycle : IsHistory(l)}
GoodLives == life \in [Plugins -> Good]

LEMMA GoodMoves ==
    /\ NewLifecycle \in Good
    /\ \A l \in Good, to \in LifecycleState : Advanced(l, to) \in Good
    /\ \A l \in Good : Failed(l) \in Good /\ Stopped(l) \in Good /\ Serve(l) \in Good
<1>1. /\ NewLifecycle \in Good
      /\ \A l \in Good, to \in LifecycleState : Advanced(l, to) \in Good
      /\ \A l \in Good : Failed(l) \in Good /\ Stopped(l) \in Good
  BY LifecycleTypes, HistoryKept DEF Good
<1> QED BY <1>1, Named DEF Serve

\* A step changes the lifecycle of at most one plugin, by operations of lifecycle.ts.
LEMMA HistoriesStep ==
    Typed /\ life \in [Plugins -> Good] /\ [Next]_vars => life' \in [Plugins -> Good]
<1> SUFFICES ASSUME Typed, life \in [Plugins -> Good], [Next]_vars
             PROVE  life' \in [Plugins -> Good]
  OBVIOUS
<1>1. /\ stop \in [Shutdowns -> StopType]
      /\ \A a \in Activations : act[a].at # "idle" => PluginOf(a) \in Plugins
  BY DEF Typed, TypeOK, Placed
<1>2. CASE UNCHANGED vars
  BY <1>2 DEF vars
<1>3. ASSUME NEW d \in Dirs, Admit(d) PROVE UNCHANGED life
  BY <1>3 DEF Admit
<1>4. ASSUME NEW a \in Activations, NEW n \in Plugins, Activate(a, n) \/ ActivateUnknown(a, n)
      PROVE  UNCHANGED life
  BY <1>4 DEF Activate, ActivateUnknown
<1>5. ASSUME NEW a \in Activations, Gates(a) PROVE life' \in [Plugins -> Good]
  <2>1. /\ act[a].at # "idle" 
        /\ \/ UNCHANGED life
           \/ \E to \in LifecycleState : life' = [life EXCEPT ![PluginOf(a)] = Advanced(@, to)]
           \/ life' = [life EXCEPT ![PluginOf(a)] = Failed(@)]
    BY <1>5, Named DEF Gates, VerifySignature, ResolveDependencies, AuthorizeCapabilities,
         ModeUnsupported, Start, Advance, Abort, InGate
  <2> QED BY <1>1, <2>1, GoodMoves
<1>6. ASSUME NEW a \in Activations, Child(a) PROVE UNCHANGED life
  BY <1>6 DEF Child, ChildReady, ChildReplies, ChildAsks, ChildDies, ChildOnly
<1>7. ASSUME NEW a \in Activations, ReadReady(a) \/ StartTimeout(a) \/ SpawnFails(a)
      PROVE  life' \in [Plugins -> Good]
  <2>1. \/ UNCHANGED life
        \/ /\ act[a].at = "starting"
           /\ \/ life' = [life EXCEPT ![PluginOf(a)] = Serve(@)]
              \/ life' = [life EXCEPT ![PluginOf(a)] = Failed(@)]
    BY <1>7 DEF ReadReady, StartTimeout, StartOverdue, SpawnFails, Abort
  <2> QED BY <1>1, <2>1, GoodMoves
<1>8. ASSUME NEW e \in Activations, Exit(e) PROVE life' \in [Plugins -> Good]
  <2> DEFINE n == PluginOf(e)
             waiting == {s \in Shutdowns : stop[s].at = "stopping" /\ stop[s].child = e}
             stopped == IF waiting = {} THEN life[n] ELSE Stopped(life[n])
  <2>1. /\ box[e].proc = "dead"
        /\ life' = [life EXCEPT ![n] = IF act[e].at = "starting" THEN Failed(stopped) ELSE stopped]
    BY <1>8 DEF Exit
  <2>2. n \in Plugins
    BY <1>1, <2>1 DEF Typed, Placed, Launched
  <2>3. stopped \in Good
    BY <2>2, GoodMoves
  <2> HIDE DEF n, stopped
  <2> QED BY <2>1, <2>3, GoodMoves
<1>9. ASSUME NEW e \in Activations, NEW cap \in Requests, Mediate(e, cap) \/ FetchSettles(e, cap)
      PROVE  UNCHANGED life
  BY <1>9 DEF Mediate, FetchSettles, ChildOnly
<1>10. ASSUME NEW e \in Activations, NEW c \in Calls, ReadReply(e, c) \/ CallTimeout(e, c)
       PROVE  UNCHANGED life
  BY <1>10 DEF ReadReply, CallTimeout
<1>11. ASSUME NEW c \in Calls, NEW n \in Plugins, Refuse(c, n) \/ Send(c, n)
       PROVE  UNCHANGED life
  BY <1>11 DEF Refuse, Send
<1>12. ASSUME NEW s \in Shutdowns, NEW n \in Plugins, Shutdown(s, n) \/ Drain(s, n)
       PROVE  life' \in [Plugins -> Good]
  <2>1. \/ UNCHANGED life
        \/ life' = [life EXCEPT ![n] = Stopped(@)]
        \/ life' = [life EXCEPT ![n] = Advanced(@, "draining")]
    BY <1>12 DEF Shutdown, Drain, StopExecutor, Return
  <2> QED BY <2>1, GoodMoves, Named
<1>13. ASSUME NEW s \in Shutdowns, Drained(s) \/ StopTimer(s)
       PROVE  life' \in [Plugins -> Good]
  <2>1. \/ UNCHANGED life
        \/ life' = [life EXCEPT ![stop[s].plugin] = Stopped(@)]
    BY <1>13 DEF Drained, StopTimer, StopExecutor, Return
  <2>2. stop[s].plugin \in Plugins
    BY <1>1, <1>13 DEF Drained, StopTimer, StopOverdue, StopType
  <2> QED BY <2>1, <2>2, GoodMoves
<1> QED BY <1>2, <1>3, <1>4, <1>5, <1>6, <1>7, <1>8, <1>9, <1>10, <1>11, <1>12, <1>13
        DEF Next, Event

\* However activations, calls, shutdowns, timers and the child interleave, the history
\* of every plugin is a path of the lifecycle lifecycle.ts declares.
THEOREM HistoriesAreLegal == Constants => (Spec => []Histories)
<1> SUFFICES ASSUME Constants PROVE Spec => []Histories
  OBVIOUS
<1>1. Init => GoodLives
  BY GoodMoves DEF Init, GoodLives
<1>2. Typed /\ GoodLives /\ [Next]_vars => GoodLives'
  BY HistoriesStep DEF GoodLives
<1>3. GoodLives => Histories
  BY DEF Good, GoodLives, Histories
<1>4. Spec => []Typed
  BY AlwaysTyped
<1> QED BY <1>1, <1>2, <1>3, <1>4, PTL DEF Spec

-----------------------------------------------------------------------------
(* Calls *)

\* What a step may do to a call c and to the pending entries for it.
Holds(c, e) == c \in box[e].pending
Untouched(c) == /\ calls'[c] = calls[c]
                /\ \A e \in Activations : Holds(c, e)' <=> Holds(c, e)
Refused(c)   == /\ calls[c].st = "idle" /\ calls'[c].st = "answered"
                /\ \A e \in Activations : Holds(c, e)' <=> Holds(c, e)
Sent(c)      == /\ calls[c].st = "idle" /\ calls'[c].st = "waiting"
                /\ \A e \in Activations : Holds(c, e)' <=> Holds(c, e) \/ e = calls'[c].to
Settled(c)   == \E f \in Activations :
                   /\ Holds(c, f) /\ calls'[c].st = "answered"
                   /\ \A e \in Activations : Holds(c, e)' <=> Holds(c, e) /\ e # f
Moves(c) == Untouched(c) \/ Refused(c) \/ Sent(c) \/ Settled(c)

LEMMA StillAnswers ==
    ASSUME NEW c \in CallType, NEW answer
    PROVE  Answered(c, answer).st = "answered"
BY DEF Answered, CallType

\* Failing all that an executor holds settles each of its calls and touches no other.
LEMMA FailMoves ==
    ASSUME Typed, NEW e \in Activations, NEW b, b.pending = {},
           box' = [box EXCEPT ![e] = b], calls' = FailPending(e)
    PROVE  \A c \in Calls : Moves(c)
<1> SUFFICES ASSUME NEW c \in Calls PROVE Moves(c)
  OBVIOUS
<1>1. /\ box'[e].pending = {}
      /\ \A f \in Activations : f # e => box'[f] = box[f]
      /\ calls'[c] = IF Holds(c, e) THEN Answered(calls[c], "CALL_FAILED") ELSE calls[c]
      /\ calls[c] \in CallType
  BY DEF Typed, TypeOK, FailPending, Holds
<1>2. CASE Holds(c, e)
  <2>1. calls'[c].st = "answered"
    BY <1>1, <1>2, StillAnswers
  <2>2. Settled(c)
    BY <1>1, <1>2, <2>1 DEF Settled, Holds
  <2> QED BY <2>2 DEF Moves
<1>3. CASE ~Holds(c, e)
  BY <1>1, <1>3 DEF Moves, Untouched, Holds
<1> QED BY <1>2, <1>3

\* A step that leaves the calls and every pending set as they are.
LEMMA QuietMoves ==
    ASSUME UNCHANGED calls, \A e \in Activations : box'[e].pending = box[e].pending
    PROVE  \A c \in Calls : Moves(c)
BY DEF Moves, Untouched, Holds

LEMMA MovesStep == Typed /\ [Next]_vars => \A c \in Calls : Moves(c)
<1> SUFFICES ASSUME Typed, [Next]_vars PROVE \A c \in Calls : Moves(c)
  OBVIOUS
<1>1. /\ box \in [Activations -> Box] /\ calls \in [Calls -> CallType]
      /\ executor \in [Plugins -> Activations \cup {None}]
      /\ stop \in [Shutdowns -> StopType]
  BY DEF Typed, TypeOK
<1>2. CASE UNCHANGED vars
  BY <1>2, QuietMoves DEF vars
<1>3. ASSUME NEW d \in Dirs, Admit(d) PROVE UNCHANGED <<calls, box>>
  BY <1>3 DEF Admit
<1>4. ASSUME NEW a \in Activations, NEW n \in Plugins, Activate(a, n) \/ ActivateUnknown(a, n)
      PROVE  UNCHANGED <<calls, box>>
  BY <1>4 DEF Activate, ActivateUnknown, Quiet
<1>5. ASSUME NEW a \in Activations, Gates(a) PROVE \A c \in Calls : Moves(c)
  <2>1. CASE Start(a)
    <3>1. ~Launched(a) /\ box[a].pending = {}
      BY <2>1 DEF Start, InGate, Launched, Typed, Placed
    <3>2. /\ UNCHANGED calls
          /\ box' = [box EXCEPT ![a] = [NewBox EXCEPT !.child = TRUE, !.proc = "booting"]]
      BY <2>1 DEF Start, Becomes
    <3>3. \A e \in Activations : box'[e].pending = box[e].pending
      BY <1>1, <3>1, <3>2 DEF NewBox
    <3> QED BY <3>2, <3>3, QuietMoves
  <2>2. CASE ~Start(a)
    BY <1>5, <2>2, QuietMoves DEF Gates, VerifySignature, ResolveDependencies,
       AuthorizeCapabilities, ModeUnsupported, Quiet
  <2> QED BY <2>1, <2>2
<1>6. ASSUME NEW a \in Activations, Child(a) \/ ReadReady(a) \/ StartTimeout(a) \/ SpawnFails(a)
      PROVE  \A c \in Calls : Moves(c)
  <2>1. CASE StartTimeout(a)
    BY <2>1, QuietMoves DEF StartTimeout, Quiet
  <2>2. CASE \E cap \in Requests : ChildAsks(a, cap)
    BY <2>2, QuietMoves DEF ChildAsks, ChildOnly
  <2>3. CASE ChildReady(a) \/ ChildDies(a) \/ ReadReady(a) \/ SpawnFails(a)
              \/ \E c \in Calls : ChildReplies(a, c)
    <3>1. /\ UNCHANGED calls
          /\ \E b : box' = [box EXCEPT ![a] = b] /\ b.pending = box[a].pending
      <4>1. CASE ChildReady(a) \/ ChildDies(a)
        BY <1>1, <4>1 DEF ChildReady, ChildDies, ChildOnly, Becomes, Box
      <4>2. CASE ReadReady(a) \/ SpawnFails(a)
        BY <1>1, <4>2 DEF ReadReady, SpawnFails, Becomes, Box
      <4>3. CASE \E c \in Calls : ChildReplies(a, c)
        BY <1>1, <4>3 DEF ChildReplies, ChildOnly, Becomes, Box
      <4> QED BY <2>3, <4>1, <4>2, <4>3
    <3>2. \A e \in Activations : box'[e].pending = box[e].pending
      BY <1>1, <3>1
    <3> QED BY <3>1, <3>2, QuietMoves
  <2> QED BY <1>6, <2>1, <2>2, <2>3 DEF Child
<1>7. ASSUME NEW e \in Activations, Exit(e) PROVE \A c \in Calls : Moves(c)
  <2> DEFINE b == [box[e] EXCEPT !.exit = TRUE, !.pending = {}]
  <2>1. b.pending = {}
    BY <1>1 DEF Box
  <2>2. box' = [box EXCEPT ![e] = b] /\ calls' = FailPending(e)
    BY <1>7 DEF Exit, Becomes
  <2> HIDE DEF b
  <2> QED BY <2>1, <2>2, FailMoves
<1>8. ASSUME NEW e \in Activations, NEW cap \in Requests, Mediate(e, cap) \/ FetchSettles(e, cap)
      PROVE  UNCHANGED <<calls, box>>
  BY <1>8 DEF Mediate, FetchSettles, ChildOnly
<1>9. ASSUME NEW e \in Activations, NEW c \in Calls, ReadReply(e, c) \/ CallTimeout(e, c)
      PROVE  \A k \in Calls : Moves(k)
  <2>1. \E b : /\ box' = [box EXCEPT ![e] = b]
               /\ b.pending = box[e].pending \ {c}
    <3> DEFINE read  == [box[e] EXCEPT !.replies = @ \ {c}, !.pending = @ \ {c}]
               timed == [box[e] EXCEPT !.pending = Drops(@, c), !.kill = @ \/ box[e].child]
    <3>1. read.pending = box[e].pending \ {c} /\ timed.pending = box[e].pending \ {c}
      BY <1>1 DEF Box, Drops
    <3>2. box' = [box EXCEPT ![e] = read] \/ box' = [box EXCEPT ![e] = timed]
      BY <1>9 DEF ReadReply, CallTimeout, Becomes
    <3> HIDE DEF read, timed
    <3> QED BY <3>1, <3>2
  <2>2. IF Holds(c, e)
        THEN \E answer : calls' = [calls EXCEPT ![c] = Answered(@, answer)]
        ELSE UNCHANGED calls
    BY <1>9 DEF ReadReply, Takes, CallTimeout, Holds
  <2>3. \A k \in Calls, f \in Activations : Holds(k, f)' <=> Holds(k, f) /\ ~(k = c /\ f = e)
    BY <1>1, <2>1 DEF Holds
  <2>4. ASSUME NEW k \in Calls, k # c PROVE Untouched(k)
    BY <1>1, <2>2, <2>3, <2>4 DEF Untouched
  <2>5. CASE Holds(c, e)
    <3>1. calls'[c].st = "answered"
      BY <1>1, <2>2, <2>5, StillAnswers
    <3>2. Settled(c)
      BY <2>3, <2>5, <3>1 DEF Settled
    <3> QED BY <2>4, <3>2 DEF Moves
  <2>6. CASE ~Holds(c, e)
    <3>1. Untouched(c)
      BY <2>2, <2>3, <2>6 DEF Untouched
    <3> QED BY <2>4, <3>1 DEF Moves
  <2> QED BY <2>5, <2>6
<1>10. ASSUME NEW c \in Calls, NEW n \in Plugins, Refuse(c, n)
       PROVE  \A k \in Calls : Moves(k)
  <2>1. /\ UNCHANGED box /\ calls[c].st = "idle"
        /\ calls' = [calls EXCEPT ![c] = Answered(@, Refusal(n))]
    BY <1>10 DEF Refuse
  <2>2. \A k \in Calls : IF k = c THEN calls'[k].st = "answered" ELSE calls'[k] = calls[k]
    BY <1>1, <2>1, StillAnswers
  <2> QED BY <2>1, <2>2 DEF Moves, Untouched, Refused, Holds
<1>11. ASSUME NEW c \in Calls, NEW n \in Plugins, Send(c, n)
       PROVE  \A k \in Calls : Moves(k)
  <2> DEFINE f == executor[n]
  <2>1. /\ calls[c].st = "idle"
        /\ calls' = [calls EXCEPT ![c] = [st |-> "waiting", to |-> f, answer |-> None]]
        /\ \E work : box' = [box EXCEPT ![f] = [box[f] EXCEPT !.pending = @ \cup {c}, !.work = work]]
    BY <1>11 DEF Send, Becomes
  <2> HIDE DEF f
  <2>2. \A e \in Activations : box'[e].pending = IF e = f THEN box[e].pending \cup {c} ELSE box[e].pending
    <3>1. PICK work : box' = [box EXCEPT ![f] = [box[f] EXCEPT !.pending = @ \cup {c}, !.work = work]]
      BY <2>1
    <3> DEFINE b == [box[f] EXCEPT !.pending = @ \cup {c}, !.work = work]
    <3>2. f \in Activations => b.pending = box[f].pending \cup {c}
      BY <1>1 DEF Box
    <3>3. box' = [box EXCEPT ![f] = b]
      BY <3>1
    <3> HIDE DEF b
    <3> QED BY <1>1, <3>2, <3>3
  <2>3. /\ calls'[c].st = "waiting" /\ calls'[c].to = f
        /\ \A k \in Calls : k # c => calls'[k] = calls[k]
    BY <1>1, <2>1
  <2>4. \A k \in Calls, e \in Activations : Holds(k, e)' <=> Holds(k, e) \/ (k = c /\ e = f)
    BY <2>2 DEF Holds
  <2> QED BY <2>1, <2>3, <2>4 DEF Moves, Untouched, Sent
<1>12. ASSUME NEW s \in Shutdowns, NEW n, StopExecutor(s, n), n \in Plugins
       PROVE  \A c \in Calls : Moves(c)
  <2> DEFINE e == executor[n]
             b == [box[e] EXCEPT !.child = FALSE, !.pending = {}]
  <2>1. CASE e = None
    BY <1>12, <2>1, QuietMoves DEF StopExecutor
  <2>2. CASE e # None
    <3>1. e \in Activations
      BY <1>1, <1>12, <2>2
    <3>2. b.pending = {}
      BY <1>1, <3>1 DEF Box
    <3>3. box' = [box EXCEPT ![e] = b] /\ calls' = FailPending(e)
      BY <1>12, <2>2 DEF StopExecutor, Becomes
    <3> HIDE DEF b, e
    <3> QED BY <3>1, <3>2, <3>3, FailMoves
  <2> QED BY <2>1, <2>2
<1>13. ASSUME NEW s \in Shutdowns, NEW n \in Plugins, Shutdown(s, n) \/ Drain(s, n)
       PROVE  \A c \in Calls : Moves(c)
  BY <1>12, <1>13, QuietMoves DEF Shutdown, Drain
<1>14. ASSUME NEW s \in Shutdowns, Drained(s) PROVE \A c \in Calls : Moves(c)
  <2>1. stop[s].plugin \in Plugins
    BY <1>1, <1>14 DEF Drained, StopType
  <2> QED BY <1>12, <1>14, <2>1 DEF Drained
<1>15. ASSUME NEW s \in Shutdowns, StopTimer(s) PROVE \A c \in Calls : Moves(c)
  <2> DEFINE e == stop[s].child
  <2>1. /\ UNCHANGED calls
        /\ box' = [box EXCEPT ![e] = [box[e] EXCEPT !.kill = Kills(e)]]
    BY <1>15 DEF StopTimer, Becomes
  <2> HIDE DEF e
  <2>2. \A f \in Activations : box'[f].pending = box[f].pending
    BY <1>1, <2>1 DEF Box
  <2> QED BY <2>1, <2>2, QuietMoves
<1> QED BY <1>2, <1>3, <1>4, <1>5, <1>6, <1>7, <1>8, <1>9, <1>10, <1>11, <1>13, <1>14, <1>15,
           QuietMoves DEF Next, Event

\* A call waits exactly while its executor holds a pending entry, and so a timer, for
\* it: no reply, timeout, exit or shutdown leaves one without the other.
THEOREM PendingIsExact == Constants => (Spec => []PendingExact)
<1> SUFFICES ASSUME Constants PROVE Spec => []PendingExact
  OBVIOUS
<1>1. Init => PendingExact
  BY DEF Init, PendingExact, NewBox
<1>2. Typed /\ PendingExact /\ [Next]_vars => PendingExact'
  <2> SUFFICES ASSUME Typed, PendingExact, [Next]_vars,
                      NEW c \in Calls, NEW e \in Activations
               PROVE  Holds(c, e)' <=> calls'[c].st = "waiting" /\ calls'[c].to = e
    BY DEF PendingExact, Holds
  <2>1. \A f \in Activations : Holds(c, f) <=> calls[c].st = "waiting" /\ calls[c].to = f
    BY DEF PendingExact, Holds
  <2>2. Moves(c)
    BY MovesStep
  <2>3. CASE Untouched(c)
    BY <2>1, <2>3 DEF Untouched
  <2>4. CASE Refused(c)
    BY <2>1, <2>4 DEF Refused
  <2>5. CASE Sent(c)
    BY <2>1, <2>5 DEF Sent
  <2>6. CASE Settled(c)
    BY <2>1, <2>6 DEF Settled
  <2> QED BY <2>2, <2>3, <2>4, <2>5, <2>6 DEF Moves
<1>3. Spec => []Typed
  BY AlwaysTyped
<1> QED BY <1>1, <1>2, <1>3, PTL DEF Spec

\* An answer is final: a late frame, a timer, an exit or a shutdown never changes it.
THEOREM AnswersAreFinal == Constants => (Spec => AnswerIsFinal)
<1> SUFFICES ASSUME Constants PROVE Spec => AnswerIsFinal
  OBVIOUS
<1>1. Typed /\ PendingExact /\ [Next]_vars
      => [\A c \in Calls : calls[c].st = "answered" => calls'[c] = calls[c]]_vars
  <2> SUFFICES ASSUME Typed, PendingExact, [Next]_vars, NEW c \in Calls,
                      calls[c].st = "answered"
               PROVE  calls'[c] = calls[c]
    OBVIOUS
  <2>1. \A f \in Activations : ~Holds(c, f)
    BY DEF PendingExact, Holds
  <2>2. Moves(c)
    BY MovesStep
  <2> QED BY <2>1, <2>2 DEF Moves, Untouched, Refused, Sent, Settled
<1>2. Spec => []Typed /\ []PendingExact
  BY AlwaysTyped, PendingIsExact
<1> QED BY <1>1, <1>2, PTL DEF Spec, AnswerIsFinal

-----------------------------------------------------------------------------
(* Activations *)

\* An activation keeps its plugin.
LEMMA PluginKept ==
    Typed /\ [Next]_vars =>
       \A a \in Activations : act[a].at # "idle" => act'[a].plugin = act[a].plugin
<1> SUFFICES ASSUME Typed, [Next]_vars
             PROVE  \A a \in Activations : act[a].at # "idle" => act'[a].plugin = act[a].plugin
  OBVIOUS
<1> DEFINE Edited(a) == \E at : act' = [act EXCEPT ![a].at = at]
<1>1. act \in [Activations -> ActType]
  BY DEF Typed, TypeOK
<1>2. ASSUME NEW a, UNCHANGED act \/ Edited(a)
      PROVE  \A b \in Activations : act[b].at # "idle" => act'[b].plugin = act[b].plugin
  BY <1>1, <1>2 DEF ActType
<1> HIDE DEF Edited
<1>3. CASE UNCHANGED vars
  BY <1>2, <1>3 DEF vars
<1>4. ASSUME NEW d \in Dirs, Admit(d) PROVE UNCHANGED act
  BY <1>4 DEF Admit
<1>5. ASSUME NEW a \in Activations, NEW n \in Plugins, Activate(a, n) \/ ActivateUnknown(a, n)
      PROVE  \A b \in Activations : act[b].at # "idle" => act'[b] = act[b]
  BY <1>1, <1>5 DEF Activate, ActivateUnknown
<1>6. ASSUME NEW a \in Activations, Gates(a) PROVE Edited(a)
  BY <1>6 DEF Gates, VerifySignature, ResolveDependencies, AuthorizeCapabilities,
       ModeUnsupported, Start, Advance, Abort, Edited
<1>7. ASSUME NEW a \in Activations, Child(a) PROVE UNCHANGED act
  BY <1>7 DEF Child, ChildReady, ChildReplies, ChildAsks, ChildDies, ChildOnly
<1>8. ASSUME NEW a \in Activations, ReadReady(a) \/ StartTimeout(a) \/ SpawnFails(a) \/ Exit(a)
      PROVE  UNCHANGED act \/ Edited(a)
  BY <1>8 DEF ReadReady, StartTimeout, SpawnFails, Exit, Abort, Edited
<1>9. ASSUME NEW e \in Activations, NEW cap \in Requests, Mediate(e, cap) \/ FetchSettles(e, cap)
      PROVE  UNCHANGED act
  BY <1>9 DEF Mediate, FetchSettles, ChildOnly
<1>10. ASSUME NEW e \in Activations, NEW c \in Calls, ReadReply(e, c) \/ CallTimeout(e, c)
       PROVE  UNCHANGED act
  BY <1>10 DEF ReadReply, CallTimeout
<1>11. ASSUME NEW c \in Calls, NEW n \in Plugins, Refuse(c, n) \/ Send(c, n) PROVE UNCHANGED act
  BY <1>11 DEF Refuse, Send
<1>12. ASSUME NEW s \in Shutdowns, NEW n \in Plugins, Shutdown(s, n) \/ Drain(s, n)
       PROVE  UNCHANGED act
  BY <1>12 DEF Shutdown, Drain
<1>13. ASSUME NEW s \in Shutdowns, Drained(s) \/ StopTimer(s) PROVE UNCHANGED act
  BY <1>13 DEF Drained, StopTimer
<1> QED BY <1>2, <1>3, <1>4, <1>5, <1>6, <1>7, <1>8, <1>9, <1>10, <1>11, <1>12, <1>13
        DEF Next, Event

-----------------------------------------------------------------------------
(* Records *)

\* A record is the directory the registry knows its version by: discovery is the only
\* step that touches either, and it never changes a digest on record.
THEOREM RecordsAreRegistered == Constants => (Spec => []RecordIsRegistered)
<1> SUFFICES ASSUME Constants PROVE Spec => []RecordIsRegistered
  OBVIOUS
<1>1. Init => RecordIsRegistered
  BY DEF Init, RecordIsRegistered, Known
<1>2. Typed /\ RecordIsRegistered /\ [Next]_vars => RecordIsRegistered'
  <2> SUFFICES ASSUME Typed, RecordIsRegistered, [Next]_vars PROVE RecordIsRegistered'
    OBVIOUS
  <2>1. CASE UNCHANGED <<registry, record>>
    BY <2>1 DEF RecordIsRegistered, Known
  <2>2. ASSUME NEW d \in Dirs, Admit(d) PROVE RecordIsRegistered'
    <3>1. d.name \in Plugins /\ d.version \in Versions /\ d.digest \in Digests
      BY DEF Constants, DirAssumption, DirType, Versions, Digests
    <3>2. /\ registry \in [Plugins -> [Versions -> Digests \cup {None}]]
          /\ record \in [Plugins -> Dirs \cup {None}]
      BY DEF Typed, TypeOK
    <3>3. /\ registry[d.name][d.version] \in {None, d.digest}
          /\ registry' = [registry EXCEPT ![d.name][d.version] = d.digest]
          /\ record' = IF Known(d.name) THEN record ELSE [record EXCEPT ![d.name] = d]
      BY <2>2 DEF Admit, Unique
    <3>4. \A f \in Dirs : f \in DirType /\ f.version \in Versions /\ f.digest # None
      BY DEF Constants, DirAssumption, NameAssumption, DirType, Versions
    <3> SUFFICES ASSUME NEW n \in Plugins, record'[n] # None
                 PROVE  record'[n].name = n /\ registry'[n][record'[n].version] = record'[n].digest
      BY DEF RecordIsRegistered, Known
    <3>5. CASE record'[n] = record[n]
      <4>1. /\ record[n].name = n /\ registry[n][record[n].version] = record[n].digest
            /\ record[n].version \in Versions /\ record[n].digest # None
        BY <3>2, <3>4, <3>5 DEF RecordIsRegistered, Known
      <4>2. registry'[n][record[n].version] = registry[n][record[n].version]
        BY <3>1, <3>2, <3>3, <4>1
      <4> QED BY <3>5, <4>1, <4>2
    <3>6. CASE record'[n] # record[n]
      <4>1. n = d.name /\ record'[n] = d
        BY <3>1, <3>2, <3>3, <3>6
      <4>2. registry'[n][d.version] = d.digest
        BY <3>1, <3>2, <3>3, <4>1
      <4> QED BY <4>1, <4>2
    <3> QED BY <3>5, <3>6
  <2>3. (\E d \in Dirs : Admit(d)) \/ UNCHANGED <<registry, record>>
    <3>1. ASSUME NEW a \in Activations, NEW n \in Plugins, Activate(a, n) \/ ActivateUnknown(a, n)
          PROVE  UNCHANGED <<registry, record>>
      BY <3>1 DEF Activate, ActivateUnknown, Quiet, Discovery
    <3>2. ASSUME NEW a \in Activations, Gates(a) PROVE UNCHANGED <<registry, record>>
      BY <3>2 DEF Gates, VerifySignature, ResolveDependencies, AuthorizeCapabilities,
           ModeUnsupported, Start, Quiet, Discovery
    <3>3. ASSUME NEW a \in Activations, Child(a) PROVE UNCHANGED <<registry, record>>
      BY <3>3 DEF Child, ChildReady, ChildReplies, ChildAsks, ChildDies, ChildOnly, Discovery
    <3>4. ASSUME NEW a \in Activations, Event(a) PROVE UNCHANGED <<registry, record>>
      BY <3>4 DEF Event, ReadReady, StartTimeout, SpawnFails, Exit, ReadReply, CallTimeout,
           Mediate, FetchSettles, Quiet, ChildOnly, Discovery
    <3>5. ASSUME NEW c \in Calls, NEW n \in Plugins, Refuse(c, n) \/ Send(c, n)
          PROVE  UNCHANGED <<registry, record>>
      BY <3>5 DEF Refuse, Send, Discovery
    <3>6. ASSUME NEW s \in Shutdowns, NEW n \in Plugins, Shutdown(s, n) \/ Drain(s, n)
          PROVE  UNCHANGED <<registry, record>>
      BY <3>6 DEF Shutdown, Drain, Discovery
    <3>7. ASSUME NEW s \in Shutdowns, Drained(s) \/ StopTimer(s)
          PROVE  UNCHANGED <<registry, record>>
      BY <3>7 DEF Drained, StopTimer, Discovery
    <3>8. CASE UNCHANGED vars
      BY <3>8 DEF vars
    <3> QED BY <3>1, <3>2, <3>3, <3>4, <3>5, <3>6, <3>7, <3>8 DEF Next
  <2> QED BY <2>1, <2>2, <2>3
<1>3. Spec => []Typed
  BY AlwaysTyped
<1> QED BY <1>1, <1>2, <1>3, PTL DEF Spec

-----------------------------------------------------------------------------
(* What a step does to lifecycles, executors and shutdowns *)

SameChildren == \A e \in Activations : box'[e].child = box[e].child
SameStops    == UNCHANGED <<executor, stop>> /\ SameChildren

\* Nothing of this happens.
Stays == UNCHANGED <<life, act, loop>> /\ SameStops

\* An activation begins, passes a gate, starts its child, hears of it, or fails.
Begins(a, n) ==
    /\ loop = None /\ act[a].at = "idle" /\ UNCHANGED life /\ SameStops
    /\ \/ act' = [act EXCEPT ![a] = [at |-> "verify", plugin |-> n]] /\ loop' = a
       \/ act' = [act EXCEPT ![a] = [at |-> "refused", plugin |-> n]] /\ loop' = loop

GateTable == {<<"verify", "verified", "depend">>,
               <<"depend", "dependencies-resolved", "authorize">>,
               <<"authorize", "authorized", "create">>}

Passes(a) ==
    /\ loop = a /\ SameStops /\ UNCHANGED loop
    /\ \E g \in GateTable : /\ act[a].at = g[1]
                             /\ act' = [act EXCEPT ![a].at = g[3]]
                             /\ life' = [life EXCEPT ![PluginOf(a)] = Advanced(@, g[2])]

Launches(a) ==
    /\ loop = a /\ act[a].at = "create" /\ loop' = None
    /\ act' = [act EXCEPT ![a].at = "starting"]
    /\ executor' = [executor EXCEPT ![PluginOf(a)] = a]
    /\ box'[a].child /\ \A e \in Activations : e # a => box'[e].child = box[e].child
    /\ UNCHANGED <<life, stop>>

Readies(a) ==
    /\ loop = None /\ act[a].at = "starting" /\ UNCHANGED loop /\ SameStops
    /\ act' = [act EXCEPT ![a].at = "ok"]
    /\ life' = [life EXCEPT ![PluginOf(a)] = Serve(@)]

Fails(a) ==
    /\ \/ act[a].at \in {"verify", "depend", "authorize", "create"} /\ loop = a
       \/ act[a].at = "starting" /\ loop = None
    /\ act' = [act EXCEPT ![a].at = "refused"] /\ loop' = None /\ SameStops
    /\ life' = [life EXCEPT ![PluginOf(a)] = Failed(@)]

Gone(e) ==
    LET n       == PluginOf(e)
        waiting == {s \in Shutdowns : stop[s].at = "stopping" /\ stop[s].child = e}
        stopped == IF waiting = {} THEN life[n] ELSE Stopped(life[n])
    IN /\ loop = None /\ box[e].proc = "dead" /\ SameChildren /\ UNCHANGED <<loop, executor>>
       /\ act' = IF act[e].at = "starting" THEN [act EXCEPT ![e].at = "refused"] ELSE act
       /\ life' = [life EXCEPT ![n] = IF act[e].at = "starting"
                                      THEN Failed(stopped) ELSE stopped]
       /\ stop' = [s \in Shutdowns |-> IF s \in waiting
                     THEN [at |-> "returned", plugin |-> n, child |-> None] ELSE stop[s]]

\* A shutdown of n may go on at s.
Turn(s, n) == /\ loop = None /\ UNCHANGED <<loop, act, executor>>
              /\ \/ stop[s].at = "idle"
                 \/ stop[s].at \in {"draining", "stopping"} /\ stop[s].plugin = n

Drains(s, n) ==
    /\ Turn(s, n) /\ stop[s].at = "idle" /\ SameChildren /\ IsServing(life[n])
    /\ life' = [life EXCEPT ![n] = Advanced(@, "draining")]
    /\ stop' = [stop EXCEPT ![s] = [at |-> "draining", plugin |-> n, child |-> None]]

Waits(s, n) ==
    /\ Turn(s, n) /\ executor[n] # None /\ UNCHANGED life
    /\ stop' = [stop EXCEPT ![s] = [at |-> "stopping", plugin |-> n, child |-> executor[n]]]
    /\ \A e \in Activations : e # executor[n] => box'[e].child = box[e].child

Returns(s, n) ==
    /\ Turn(s, n) /\ Return(s, n) /\ SameChildren

HostStep ==
    \/ Stays
    \/ \E a \in Activations :
          \/ \E n \in Plugins : Begins(a, n)
          \/ Passes(a) \/ Launches(a) \/ Readies(a) \/ Fails(a) \/ Gone(a)
    \/ \E s \in Shutdowns, n \in Plugins : Drains(s, n) \/ Waits(s, n) \/ Returns(s, n)

LEMMA GateForms ==
    ASSUME Typed, NEW a \in Activations, Gates(a)
    PROVE  Passes(a) \/ Launches(a) \/ Fails(a)
<1>1. box \in [Activations -> Box]
  BY DEF Typed, TypeOK
<1>2. /\ <<"verify", "verified", "depend">> \in GateTable
      /\ <<"depend", "dependencies-resolved", "authorize">> \in GateTable
      /\ <<"authorize", "authorized", "create">> \in GateTable
  BY DEF GateTable
<1>3. ASSUME UNCHANGED Quiet PROVE SameStops
  BY <1>3 DEF Quiet, SameStops, SameChildren
<1>4. CASE VerifySignature(a)
  <2>1. CASE Advance(a, "verified", "depend")
    <3>1. \E g \in GateTable : /\ act[a].at = g[1]
                                /\ act' = [act EXCEPT ![a].at = g[3]]
                                /\ life' = [life EXCEPT ![PluginOf(a)] = Advanced(@, g[2])]
      BY <1>2, <1>4, <2>1 DEF VerifySignature, InGate, Advance
    <3> QED BY <1>3, <1>4, <2>1, <3>1 DEF VerifySignature, InGate, Advance, Passes
  <2>2. CASE Abort(a)
    BY <1>3, <1>4, <2>2 DEF VerifySignature, InGate, Abort, Fails
  <2> QED BY <1>4, <2>1, <2>2 DEF VerifySignature
<1>5. CASE ResolveDependencies(a)
  <2>1. CASE Advance(a, "dependencies-resolved", "authorize")
    <3>1. \E g \in GateTable : /\ act[a].at = g[1]
                                /\ act' = [act EXCEPT ![a].at = g[3]]
                                /\ life' = [life EXCEPT ![PluginOf(a)] = Advanced(@, g[2])]
      BY <1>2, <1>5, <2>1 DEF ResolveDependencies, InGate, Advance
    <3> QED BY <1>3, <1>5, <2>1, <3>1 DEF ResolveDependencies, InGate, Advance, Passes
  <2>2. CASE Abort(a)
    BY <1>3, <1>5, <2>2 DEF ResolveDependencies, InGate, Abort, Fails
  <2> QED BY <1>5, <2>1, <2>2 DEF ResolveDependencies
<1>6. CASE AuthorizeCapabilities(a)
  <2>1. CASE Advance(a, "authorized", "create")
    <3>1. \E g \in GateTable : /\ act[a].at = g[1]
                                /\ act' = [act EXCEPT ![a].at = g[3]]
                                /\ life' = [life EXCEPT ![PluginOf(a)] = Advanced(@, g[2])]
      BY <1>2, <1>6, <2>1 DEF AuthorizeCapabilities, InGate, Advance
    <3> QED BY <1>3, <1>6, <2>1, <3>1 DEF AuthorizeCapabilities, InGate, Advance, Passes
  <2>2. CASE Abort(a)
    BY <1>3, <1>6, <2>2 DEF AuthorizeCapabilities, InGate, Abort, Fails
  <2> QED BY <1>6, <2>1, <2>2 DEF AuthorizeCapabilities
<1>7. CASE ModeUnsupported(a)
  BY <1>3, <1>7 DEF ModeUnsupported, InGate, Abort, Fails
<1>8. CASE Start(a)
  <2> DEFINE b == [NewBox EXCEPT !.child = TRUE, !.proc = "booting"]
  <2>1. b.child /\ box' = [box EXCEPT ![a] = b]
    BY <1>8 DEF NewBox, Start, Becomes
  <2> HIDE DEF b
  <2> QED BY <1>1, <1>8, <2>1 DEF Start, InGate, Launches
<1> QED BY <1>4, <1>5, <1>6, <1>7, <1>8 DEF Gates

LEMMA StopForms ==
    ASSUME Typed, NEW s \in Shutdowns, NEW n \in Plugins, Turn(s, n), StopExecutor(s, n)
    PROVE  Waits(s, n) \/ Returns(s, n)
<1> DEFINE e == executor[n]
           b == [box[e] EXCEPT !.child = FALSE, !.pending = {}]
<1>1. CASE e = None
  BY <1>1 DEF StopExecutor, Returns, SameChildren
<1>2. CASE e # None
  <2>1. e \in Activations /\ box \in [Activations -> Box]
    BY <1>2 DEF Typed, TypeOK
  <2>2. b.child = FALSE /\ box' = [box EXCEPT ![e] = b]
    BY <1>2, <2>1 DEF StopExecutor, Becomes, Box
  <2>3. \/ /\ ~box[e].child /\ Return(s, n)
        \/ /\ stop' = [stop EXCEPT ![s] = [at |-> "stopping", plugin |-> n, child |-> e]]
           /\ UNCHANGED life
    BY <1>2 DEF StopExecutor
  <2>4. box[e].child \in BOOLEAN
    BY <2>1 DEF Box
  <2> HIDE DEF b, e
  <2>5. /\ \A f \in Activations : f # e => box'[f].child = box[f].child
        /\ box'[e].child = FALSE
    BY <2>1, <2>2
  <2>6. CASE ~box[e].child /\ Return(s, n)
    BY <2>1, <2>4, <2>5, <2>6 DEF Returns, SameChildren
  <2>7. CASE /\ stop' = [stop EXCEPT ![s] = [at |-> "stopping", plugin |-> n, child |-> e]]
             /\ UNCHANGED life
    BY <1>2, <2>5, <2>7 DEF Waits, e
  <2> QED BY <2>3, <2>6, <2>7
<1> QED BY <1>1, <1>2

\* The normal form of the steps of the host.
LEMMA HostForm ==
    ASSUME Typed, [Next]_vars
    PROVE  HostStep
<1>1. /\ box \in [Activations -> Box] /\ stop \in [Shutdowns -> StopType]
  BY DEF Typed, TypeOK
<1>2. CASE UNCHANGED vars
  BY <1>2 DEF vars, HostStep, Stays, SameStops, SameChildren
<1>3. ASSUME NEW d \in Dirs, Admit(d) PROVE Stays
  BY <1>3 DEF Admit, Stays, SameStops, SameChildren
<1>4. ASSUME NEW a \in Activations, NEW n \in Plugins, Activate(a, n) \/ ActivateUnknown(a, n)
      PROVE  Begins(a, n)
  BY <1>4 DEF Activate, ActivateUnknown, Begins, Quiet, Idle, SameStops, SameChildren
<1>5. ASSUME NEW a \in Activations, Child(a) PROVE Stays
  <2> DEFINE Keeps(b) == box' = [box EXCEPT ![a] = b] /\ b.child = box[a].child
  <2>1. \/ UNCHANGED box
        \/ \E b : Keeps(b)
    <3>1. CASE ChildReady(a) \/ ChildDies(a)
      BY <1>1, <3>1 DEF ChildReady, ChildDies, Becomes, Box
    <3>2. CASE \E c \in Calls : ChildReplies(a, c)
      BY <1>1, <3>2 DEF ChildReplies, Becomes, Box
    <3>3. CASE \E cap \in Requests : ChildAsks(a, cap)
      BY <3>3 DEF ChildAsks
    <3> QED BY <1>5, <3>1, <3>2, <3>3 DEF Child
  <2>2. SameChildren
    BY <1>1, <2>1 DEF SameChildren
  <2>3. UNCHANGED <<life, act, loop, executor, stop>>
    BY <1>5 DEF Child, ChildReady, ChildReplies, ChildAsks, ChildDies, ChildOnly
  <2> QED BY <2>2, <2>3 DEF Stays, SameStops
<1>6. ASSUME NEW a \in Activations, ReadReady(a) PROVE Readies(a) \/ Stays
  <2> DEFINE b == [box[a] EXCEPT !.hello = FALSE]
  <2>1. b.child = box[a].child /\ box' = [box EXCEPT ![a] = b]
    BY <1>1, <1>6 DEF ReadReady, Becomes, Box
  <2> HIDE DEF b
  <2>2. SameChildren
    BY <1>1, <2>1 DEF SameChildren
  <2> QED BY <1>6, <2>2 DEF ReadReady, Readies, Stays, SameStops, Idle
<1>7. ASSUME NEW a \in Activations, StartTimeout(a) \/ SpawnFails(a) PROVE Fails(a)
  <2> DEFINE b == [box[a] EXCEPT !.proc = "dead", !.exit = TRUE]
  <2>1. b.child = box[a].child /\ (UNCHANGED box \/ box' = [box EXCEPT ![a] = b])
    BY <1>1, <1>7 DEF StartTimeout, SpawnFails, Becomes, Quiet, Box
  <2> HIDE DEF b
  <2>2. SameChildren
    BY <1>1, <2>1 DEF SameChildren
  <2> QED BY <1>7, <2>2 DEF StartTimeout, StartOverdue, SpawnFails, Abort, Fails, SameStops,
                            Quiet, Idle
<1>8. ASSUME NEW e \in Activations, Exit(e) PROVE Gone(e)
  <2> DEFINE b == [box[e] EXCEPT !.exit = TRUE, !.pending = {}]
  <2>1. b.child = box[e].child /\ box' = [box EXCEPT ![e] = b]
    BY <1>1, <1>8 DEF Exit, Becomes, Box
  <2> HIDE DEF b
  <2>2. SameChildren
    BY <1>1, <2>1 DEF SameChildren
  <2> QED BY <1>8, <2>2 DEF Exit, Gone, Idle
<1>9. ASSUME NEW e \in Activations, NEW cap \in Requests, Mediate(e, cap) \/ FetchSettles(e, cap)
      PROVE  Stays
  BY <1>9 DEF Mediate, FetchSettles, ChildOnly, Stays, SameStops, SameChildren
<1>10. ASSUME NEW e \in Activations, NEW c \in Calls, ReadReply(e, c) \/ CallTimeout(e, c)
       PROVE  Stays
  <2> DEFINE read  == [box[e] EXCEPT !.replies = @ \ {c}, !.pending = @ \ {c}]
             timed == [box[e] EXCEPT !.pending = Drops(@, c), !.kill = @ \/ box[e].child]
  <2>1. /\ read.child = box[e].child /\ timed.child = box[e].child
        /\ box' = [box EXCEPT ![e] = read] \/ box' = [box EXCEPT ![e] = timed]
    BY <1>1, <1>10 DEF ReadReply, CallTimeout, Becomes, Box
  <2> HIDE DEF read, timed
  <2>2. SameChildren
    BY <1>1, <2>1 DEF SameChildren
  <2> QED BY <1>10, <2>2 DEF ReadReply, CallTimeout, Stays, SameStops
<1>11. ASSUME NEW c \in Calls, NEW n \in Plugins, Refuse(c, n) \/ Send(c, n)
       PROVE  Stays
  <2>1. CASE Refuse(c, n)
    BY <2>1 DEF Refuse, Stays, SameStops, SameChildren
  <2>2. CASE Send(c, n)
    <3> DEFINE f == executor[n]
               work == IF Alive(f) THEN box[f].work \cup {c} ELSE box[f].work
               b == [box[f] EXCEPT !.pending = @ \cup {c}, !.work = work]
    <3>1. box' = [box EXCEPT ![f] = b]
      BY <2>2 DEF Send, Becomes
    <3>2. f \in Activations => b.child = box[f].child
      BY <1>1 DEF Box
    <3> HIDE DEF b, f
    <3>3. SameChildren
      BY <1>1, <3>1, <3>2 DEF SameChildren
    <3> QED BY <2>2, <3>3 DEF Send, Stays, SameStops
  <2> QED BY <1>11, <2>1, <2>2
<1>12. ASSUME NEW s \in Shutdowns, NEW n \in Plugins, Shutdown(s, n) \/ Drain(s, n)
       PROVE  Drains(s, n) \/ Waits(s, n) \/ Returns(s, n)
  <2>1. Turn(s, n)
    BY <1>12 DEF Shutdown, Drain, Turn, Idle
  <2>2. CASE Shutdown(s, n)
    BY <2>1, <2>2, StopForms DEF Shutdown
  <2>3. CASE Drain(s, n)
    BY <2>1, <2>3 DEF Drain, Drains, SameChildren
  <2> QED BY <1>12, <2>2, <2>3
<1>13. ASSUME NEW s \in Shutdowns, Drained(s) \/ StopTimer(s)
       PROVE  \E n \in Plugins : Waits(s, n) \/ Returns(s, n)
  <2> DEFINE n == stop[s].plugin
  <2>1. n \in Plugins /\ Turn(s, n)
    BY <1>1, <1>13 DEF Drained, StopTimer, StopOverdue, StopType, Turn, Idle
  <2>2. CASE Drained(s)
    BY <2>1, <2>2, StopForms DEF Drained
  <2>3. CASE StopTimer(s)
    <3> DEFINE e == stop[s].child
               b == [box[e] EXCEPT !.kill = Kills(e)]
    <3>1. /\ box' = [box EXCEPT ![e] = b] /\ (e \in Activations => b.child = box[e].child)
      BY <1>1, <2>3 DEF StopTimer, Becomes, Box
    <3> HIDE DEF b, e
    <3>2. SameChildren
      BY <1>1, <3>1 DEF SameChildren
    <3> QED BY <2>1, <2>3, <3>2 DEF StopTimer, Returns
  <2> QED BY <1>13, <2>2, <2>3
<1> QED BY <1>2, <1>3, <1>4, <1>5, <1>6, <1>7, <1>8, <1>9, <1>10, <1>11, <1>12, <1>13,
           GateForms DEF Next, Event, HostStep

-----------------------------------------------------------------------------
(* What a serving plugin holds *)

\* Nothing leaves stopped, and only the walk of activate() ends in serving.
LEMMA StateMoves ==
    ASSUME NEW l
    PROVE  /\ \A to \in {"verified", "dependencies-resolved", "authorized", "draining"} :
                 IsServing(Advanced(l, to)) => IsServing(l)
           /\ IsServing(Failed(l)) => IsServing(l)
           /\ IsServing(Stopped(l)) => IsServing(l)
           /\ Stopped(l).state = "stopped"
           /\ l.state = "stopped" => /\ \A to : Advanced(l, to) = l
                                     /\ Failed(l) = l /\ Serve(l) = l
<1>1. \A to : Advanced(l, to) = l \/ Advanced(l, to).state = to
  BY DEF Advanced, Enter1
<1>2. Failed(l) = l \/ Failed(l).state = "failed"
  BY DEF Failed, Enter1
<1>3. Stopped(l).state = "stopped"
  BY DEF Stopped, Enter1
<1>4. ASSUME l.state = "stopped"
      PROVE  (\A to : Advanced(l, to) = l) /\ Failed(l) = l
  BY <1>4 DEF Advanced, Failed, TerminalStates
<1>5. ASSUME l.state = "stopped" PROVE Serve(l) = l
  BY <1>4, <1>5 DEF Serve
<1> QED BY <1>1, <1>2, <1>3, <1>4, <1>5 DEF IsServing

\* What one step makes of a lifecycle: it stays stopped, and comes to serve only by
\* the ready frame of an activation of its own.
LEMMA LifeMoves ==
    ASSUME Typed, HostStep, NEW n \in Plugins
    PROVE  /\ life[n].state = "stopped" => life'[n].state = "stopped"
           /\ \/ IsServing(life'[n]) => IsServing(life[n])
              \/ \E a \in Activations : PluginOf(a) = n /\ Readies(a)
<1> DEFINE Goal == /\ life[n].state = "stopped" => life'[n].state = "stopped"
                   /\ \/ IsServing(life'[n]) => IsServing(life[n])
                      \/ \E a \in Activations : PluginOf(a) = n /\ Readies(a)
           Stays1 == life'[n] = life[n]
<1>1. life \in [Plugins -> Lifecycle] /\ stop \in [Shutdowns -> StopType]
  BY DEF Typed, TypeOK
<1>2. ASSUME life'[n] = life[n] PROVE Goal
  BY <1>2
<1>3. CASE Stays
  BY <1>2, <1>3 DEF Stays
<1>4. ASSUME NEW a \in Activations, NEW m \in Plugins, Begins(a, m) PROVE Goal
  BY <1>2, <1>4 DEF Begins
<1>5. ASSUME NEW a \in Activations, Passes(a) PROVE Goal
  <2>1. PICK g \in GateTable : life' = [life EXCEPT ![PluginOf(a)] = Advanced(@, g[2])]
    BY <1>5 DEF Passes
  <2>2. g[2] \in {"verified", "dependencies-resolved", "authorized"}
    BY DEF GateTable
  <2>3. life'[n] = life[n] \/ life'[n] = Advanced(life[n], g[2])
    BY <1>1, <2>1
  <2> QED BY <1>2, <2>2, <2>3, StateMoves
<1>6. ASSUME NEW a \in Activations, Launches(a) PROVE Goal
  BY <1>2, <1>6 DEF Launches
<1>7. ASSUME NEW a \in Activations, Readies(a) PROVE Goal
  <2>1. life'[n] = life[n] \/ (PluginOf(a) = n /\ life'[n] = Serve(life[n]))
    BY <1>1, <1>7 DEF Readies
  <2> QED BY <1>2, <1>7, <2>1, StateMoves
<1>8. ASSUME NEW a \in Activations, Fails(a) PROVE Goal
  <2>1. life'[n] = life[n] \/ life'[n] = Failed(life[n])
    BY <1>1, <1>8 DEF Fails
  <2> QED BY <1>2, <2>1, StateMoves
<1>9. ASSUME NEW a \in Activations, Gone(a) PROVE Goal
  <2>1. \/ life'[n] = life[n] \/ life'[n] = Failed(life[n])
        \/ life'[n] = Stopped(life[n]) \/ life'[n] = Failed(Stopped(life[n]))
    BY <1>1, <1>9 DEF Gone
  <2>2. /\ Stopped(life[n]).state = "stopped" 
        /\ Failed(Stopped(life[n])) = Stopped(life[n])
    BY StateMoves
  <2> QED BY <1>2, <2>1, <2>2, StateMoves
<1>10. ASSUME NEW s \in Shutdowns, NEW m \in Plugins, Drains(s, m) PROVE Goal
  <2>1. life'[n] = life[n] \/ life'[n] = Advanced(life[n], "draining")
    BY <1>1, <1>10 DEF Drains
  <2> QED BY <1>2, <2>1, StateMoves
<1>11. ASSUME NEW s \in Shutdowns, NEW m \in Plugins, Waits(s, m) PROVE Goal
  BY <1>2, <1>11 DEF Waits
<1>12. ASSUME NEW s \in Shutdowns, NEW m \in Plugins, Returns(s, m) PROVE Goal
  <2>1. life'[n] = life[n] \/ life'[n] = Stopped(life[n])
    BY <1>1, <1>12 DEF Returns, Return
  <2> QED BY <1>2, <2>1, StateMoves
<1> QED BY <1>3, <1>4, <1>5, <1>6, <1>7, <1>8, <1>9, <1>10, <1>11, <1>12 DEF HostStep

\* A shutdown of n waits for the exit of a child.
Stopping(n) == \E s \in Shutdowns : stop[s].at = "stopping" /\ stop[s].plugin = n

\* The executor of a record is of its plugin, and it has its child until a shutdown
\* takes it; that shutdown ends with the plugin stopped.
ExecutorHeld(n) == executor[n] # None =>
    /\ PluginOf(executor[n]) = n
    /\ box[executor[n]].child \/ Stopping(n) \/ life[n].state = "stopped"
StopsOwn(s) == stop[s].at = "stopping" => PluginOf(stop[s].child) = stop[s].plugin
Backed(a)   == act[a].at = "starting" => executor[PluginOf(a)] # None
Unborn(a)   == act[a].at = "idle" => PluginOf(a) = None
Served(n)   == IsServing(life[n]) => executor[n] # None

Held == /\ \A n \in Plugins : ExecutorHeld(n) /\ Served(n)
        /\ \A s \in Shutdowns : StopsOwn(s)
        /\ \A a \in Activations : Backed(a) /\ Unborn(a)

\* What one step makes of executors and of their children.
LEMMA ExecutorMoves ==
    ASSUME Typed, HostStep
    PROVE  /\ \A n \in Plugins : 
                 \/ executor'[n] = executor[n]
                 \/ \E a \in Activations : /\ PluginOf(a) = n /\ executor'[n] = a
                                           /\ act[a].at = "create" /\ box'[a].child
           /\ \A e \in Activations : box[e].child =>
                 \/ box'[e].child
                 \/ \E s \in Shutdowns, m \in Plugins : Waits(s, m) /\ executor[m] = e
           /\ \A a \in Activations : act'[a].at = "starting" =>
                 \/ act[a].at = "starting"
                 \/ act[a].at = "create" /\ executor'[PluginOf(a)] = a
           /\ \A a \in Activations : act'[a].at = "idle" => act'[a] = act[a]
<1> DEFINE Execs == \A n \in Plugins : 
                 \/ executor'[n] = executor[n]
                 \/ \E a \in Activations : /\ PluginOf(a) = n /\ executor'[n] = a
                                           /\ act[a].at = "create" /\ box'[a].child
           Children == \A e \in Activations : box[e].child =>
                 \/ box'[e].child
                 \/ \E s \in Shutdowns, m \in Plugins : Waits(s, m) /\ executor[m] = e
           Starts == \A a \in Activations : act'[a].at = "starting" =>
                 \/ act[a].at = "starting"
                 \/ act[a].at = "create" /\ executor'[PluginOf(a)] = a
           Idles == \A a \in Activations : act'[a].at = "idle" => act'[a] = act[a]
           Goal == Execs /\ Children /\ Starts /\ Idles
<1>1. /\ act \in [Activations -> ActType] /\ executor \in [Plugins -> Activations \cup {None}]
  BY DEF Typed, TypeOK
<1>2. ASSUME SameChildren PROVE Children
  BY <1>2 DEF SameChildren
<1>3. ASSUME NEW a \in Activations, NEW at \in Stage, at \notin {"starting", "idle"},
             act' = [act EXCEPT ![a].at = at]
      PROVE  Starts /\ Idles
  BY <1>1, <1>3 DEF ActType
<1>4. CASE Stays
  BY <1>2, <1>4 DEF Stays, SameStops
<1>5. ASSUME NEW a \in Activations, NEW m \in Plugins, Begins(a, m) PROVE Goal
  BY <1>1, <1>2, <1>5 DEF Begins, SameStops
<1>6. ASSUME NEW a \in Activations, Passes(a) PROVE Goal
  <2>1. PICK g \in GateTable : act' = [act EXCEPT ![a].at = g[3]]
    BY <1>6 DEF Passes
  <2>2. g[3] \in Stage /\ g[3] \notin {"starting", "idle"}
    BY DEF GateTable, Stage
  <2> QED BY <1>2, <1>3, <1>6, <2>1, <2>2 DEF Passes, SameStops
<1>7. ASSUME NEW a \in Activations, Launches(a) PROVE Goal
  <2>1. PluginOf(a) \in Plugins
    BY <1>7 DEF Launches, Typed, Placed
  <2>2. executor'[PluginOf(a)] = a /\ \A n \in Plugins : n # PluginOf(a) => executor'[n] = executor[n]
    BY <1>1, <1>7, <2>1 DEF Launches
  <2>3. Execs
    BY <1>7, <2>2 DEF Launches
  <2>4. \A b \in Activations : b # a => act'[b] = act[b]
    BY <1>1, <1>7 DEF Launches
  <2>5. Starts /\ Idles
    BY <1>1, <1>7, <2>2, <2>4 DEF Launches
  <2> QED BY <1>7, <2>3, <2>5 DEF Launches
<1>8. ASSUME NEW a \in Activations, Readies(a) PROVE Goal
  BY <1>2, <1>3, <1>8 DEF Readies, SameStops, Stage
<1>9. ASSUME NEW a \in Activations, Fails(a) PROVE Goal
  BY <1>2, <1>3, <1>9 DEF Fails, SameStops, Stage
<1>10. ASSUME NEW a \in Activations, Gone(a) PROVE Goal
  <2>1. UNCHANGED act \/ act' = [act EXCEPT ![a].at = "refused"]
    BY <1>10 DEF Gone
  <2>2. Starts /\ Idles
    BY <1>3, <2>1 DEF Stage
  <2> QED BY <1>2, <1>10, <2>2 DEF Gone
<1>11. ASSUME NEW s \in Shutdowns, NEW m \in Plugins, Drains(s, m) \/ Returns(s, m) PROVE Goal
  BY <1>2, <1>11 DEF Drains, Returns, Turn
<1>12. ASSUME NEW s \in Shutdowns, NEW m \in Plugins, Waits(s, m) PROVE Goal
  <2>1. UNCHANGED <<executor, act>> /\ \A e \in Activations : e # executor[m] => box'[e].child = box[e].child
    BY <1>12 DEF Waits, Turn
  <2> QED BY <1>12, <2>1
<1> QED BY <1>4, <1>5, <1>6, <1>7, <1>8, <1>9, <1>10, <1>11, <1>12 DEF HostStep

\* What one step makes of a shutdown: it comes to wait only for the executor of its
\* plugin, and when it no longer waits the plugin is stopped.
LEMMA StopMoves ==
    ASSUME Typed, HostStep, NEW s \in Shutdowns
    PROVE  /\ stop'[s].at = "stopping" =>
                 \/ stop'[s] = stop[s]
                 \/ /\ UNCHANGED executor /\ executor[stop'[s].plugin] # None
                    /\ stop'[s].plugin \in Plugins
                    /\ stop'[s].child = executor[stop'[s].plugin]
           /\ stop[s].at = "stopping" /\ StopsOwn(s) =>
                 \/ stop'[s].at = "stopping" /\ stop'[s].plugin = stop[s].plugin
                 \/ life'[stop[s].plugin].state = "stopped"
<1> DEFINE Comes == stop'[s].at = "stopping" =>
                 \/ stop'[s] = stop[s]
                 \/ /\ UNCHANGED executor /\ executor[stop'[s].plugin] # None
                    /\ stop'[s].plugin \in Plugins
                    /\ stop'[s].child = executor[stop'[s].plugin]
           Goes == stop[s].at = "stopping" /\ StopsOwn(s) =>
                 \/ stop'[s].at = "stopping" /\ stop'[s].plugin = stop[s].plugin
                 \/ life'[stop[s].plugin].state = "stopped"
<1>1. /\ stop \in [Shutdowns -> StopType] /\ life \in [Plugins -> Lifecycle]
  BY DEF Typed, TypeOK
<1>2. ASSUME stop'[s] = stop[s] PROVE Comes /\ Goes
  BY <1>2
<1>3. CASE Stays \/ \E a \in Activations : \/ \E n \in Plugins : Begins(a, n)
                                           \/ Passes(a) \/ Launches(a) \/ Readies(a) \/ Fails(a)
  BY <1>2, <1>3 DEF Stays, Begins, Passes, Launches, Readies, Fails, SameStops
<1>4. ASSUME NEW e \in Activations, Gone(e) PROVE Comes /\ Goes
  <2> DEFINE n == PluginOf(e)
             waiting == {t \in Shutdowns : stop[t].at = "stopping" /\ stop[t].child = e}
             stopped == IF waiting = {} THEN life[n] ELSE Stopped(life[n])
  <2>1. /\ life' = [life EXCEPT ![n] = IF act[e].at = "starting" THEN Failed(stopped) ELSE stopped]
        /\ stop' = [t \in Shutdowns |-> IF t \in waiting
                      THEN [at |-> "returned", plugin |-> n, child |-> None] ELSE stop[t]]
    BY <1>4 DEF Gone
  <2>2. CASE s \notin waiting
    BY <1>2, <2>1, <2>2
  <2>3. CASE s \in waiting
    <3>1. stop[s].at = "stopping" /\ stop[s].child = e /\ stop[s].plugin \in Plugins
      BY <1>1, <2>3 DEF StopType
    <3>2. stopped = Stopped(life[n])
      BY <2>3
    <3> HIDE DEF stopped, waiting
    <3>3. stopped.state = "stopped" /\ Failed(stopped) = stopped
      BY <3>2, StateMoves
    <3>4. stop'[s].at = "returned"
      BY <2>1, <2>3
    <3>5. StopsOwn(s) => life'[stop[s].plugin].state = "stopped"
      BY <1>1, <2>1, <3>1, <3>3 DEF StopsOwn
    <3> QED BY <3>4, <3>5
  <2> QED BY <2>2, <2>3
<1>5. ASSUME NEW t \in Shutdowns, NEW n \in Plugins, Drains(t, n) PROVE Comes /\ Goes
  <2>1. CASE t # s
    BY <1>1, <1>2, <1>5, <2>1 DEF Drains
  <2>2. CASE t = s
    BY <1>1, <1>5, <2>2 DEF Drains
  <2> QED BY <2>1, <2>2
<1>6. ASSUME NEW t \in Shutdowns, NEW n \in Plugins, Waits(t, n) PROVE Comes /\ Goes
  <2>1. CASE t # s
    BY <1>1, <1>2, <1>6, <2>1 DEF Waits
  <2>2. CASE t = s
    <3>1. /\ stop'[s] = [at |-> "stopping", plugin |-> n, child |-> executor[n]]
          /\ executor[n] # None /\ UNCHANGED executor
          /\ stop[s].at = "stopping" => stop[s].plugin = n
      BY <1>1, <1>6, <2>2 DEF Waits, Turn
    <3> QED BY <3>1
  <2> QED BY <2>1, <2>2
<1>7. ASSUME NEW t \in Shutdowns, NEW n \in Plugins, Returns(t, n) PROVE Comes /\ Goes
  <2>1. CASE t # s
    BY <1>1, <1>2, <1>7, <2>1 DEF Returns, Return
  <2>2. CASE t = s
    <3>1. /\ stop'[s].at = "returned" /\ life'[n] = Stopped(life[n])
          /\ stop[s].at = "stopping" => stop[s].plugin = n
      BY <1>1, <1>7, <2>2 DEF Returns, Return, Turn
    <3> QED BY <3>1, StateMoves
  <2> QED BY <2>1, <2>2
<1> QED BY <1>3, <1>4, <1>5, <1>6, <1>7 DEF HostStep

\* These hold in every state.
LEMMA AlwaysHeld == Constants => (Spec => []Held)
<1> SUFFICES ASSUME Constants PROVE Spec => []Held
  OBVIOUS
<1>1. Init => Held
  BY DEF Init, Held, ExecutorHeld, StopsOwn, Backed, Unborn, Served, IsServing, NewLifecycle,
       PluginOf
<1>2. Typed /\ Held /\ [Next]_vars => Held'
  <2> SUFFICES ASSUME Typed, Held, [Next]_vars PROVE Held'
    OBVIOUS
  <2>1. HostStep
    BY HostForm
  <2>2. /\ act \in [Activations -> ActType] /\ executor \in [Plugins -> Activations \cup {None}]
        /\ stop \in [Shutdowns -> StopType] /\ None \notin Activations
    BY DEF Typed, TypeOK, Constants, NameAssumption
  <2>3. \A a \in Activations : act[a].at # "idle" => act'[a].plugin = act[a].plugin
    BY PluginKept
  <2>4. \A n \in Plugins : executor[n] # None => act'[executor[n]].plugin = act[executor[n]].plugin
    BY <2>2, <2>3 DEF Typed, Placed, Launched
  <2>5. \A n \in Plugins : executor[n] # None => executor'[n] # None
    BY <2>1, <2>2, ExecutorMoves
  <2>6. ASSUME NEW n \in Plugins PROVE ExecutorHeld(n)'
    <3> SUFFICES ASSUME executor'[n] # None
                 PROVE  /\ act'[executor'[n]].plugin = n
                        /\ \/ box'[executor'[n]].child
                           \/ \E s \in Shutdowns : stop'[s].at = "stopping" /\ stop'[s].plugin = n
                           \/ life'[n].state = "stopped"
      BY DEF ExecutorHeld, Stopping, PluginOf
    <3>1. CASE executor'[n] # executor[n]
      <4>1. PICK a \in Activations : /\ PluginOf(a) = n /\ executor'[n] = a
                                     /\ act[a].at = "create" /\ box'[a].child
        BY <2>1, <3>1, ExecutorMoves
      <4> QED BY <2>3, <4>1 DEF PluginOf
    <3>2. CASE executor'[n] = executor[n]
      <4>1. /\ executor[n] \in Activations /\ PluginOf(executor[n]) = n
            /\ act'[executor'[n]].plugin = n
        BY <2>2, <2>4, <3>2 DEF Held, ExecutorHeld, PluginOf
      <4>2. CASE box[executor[n]].child
        <5>1. CASE box'[executor[n]].child
          BY <3>2, <4>1, <5>1
        <5>2. CASE ~box'[executor[n]].child
          <6>1. PICK s \in Shutdowns, m \in Plugins : Waits(s, m) /\ executor[m] = executor[n]
            BY <2>1, <4>1, <4>2, <5>2, ExecutorMoves
          <6>2. PluginOf(executor[m]) = m
            BY <2>2, <4>1, <6>1 DEF Held, ExecutorHeld
          <6>3. stop'[s].at = "stopping" /\ stop'[s].plugin = n
            BY <2>2, <4>1, <6>1, <6>2 DEF Waits
          <6> QED BY <4>1, <6>3
        <5> QED BY <5>1, <5>2
      <4>3. CASE Stopping(n)
        BY <2>1, <4>1, <4>3, StopMoves DEF Stopping, Held
      <4>4. CASE life[n].state = "stopped"
        BY <2>1, <4>1, <4>4, LifeMoves
      <4> QED BY <2>2, <3>2, <4>2, <4>3, <4>4 DEF Held, ExecutorHeld
    <3> QED BY <3>1, <3>2
  <2>7. ASSUME NEW n \in Plugins PROVE Served(n)'
    <3> SUFFICES ASSUME IsServing(life'[n]) PROVE executor'[n] # None
      BY DEF Served
    <3>1. executor[n] # None
      BY <2>1, LifeMoves DEF Held, Served, Backed, Readies
    <3> QED BY <2>5, <3>1
  <2>8. ASSUME NEW s \in Shutdowns PROVE StopsOwn(s)'
    <3> SUFFICES ASSUME stop'[s].at = "stopping"
                 PROVE  act'[stop'[s].child].plugin = stop'[s].plugin
      BY DEF StopsOwn, PluginOf
    <3>1. CASE stop'[s] = stop[s]
      <4>1. stop[s].child \in Activations /\ stop[s].plugin \in Plugins /\ PluginOf(stop[s].child) = stop[s].plugin
        BY <2>2, <3>1 DEF Held, StopsOwn, StopType
      <4>2. act[stop[s].child].at # "idle"
        BY <4>1 DEF Constants, NameAssumption, Held, Unborn
      <4> QED BY <2>3, <3>1, <4>1, <4>2 DEF PluginOf
    <3>2. CASE stop'[s] # stop[s]
      BY <2>1, <2>4, <3>2, StopMoves DEF Held, ExecutorHeld, PluginOf
    <3> QED BY <3>1, <3>2
  <2>9. ASSUME NEW a \in Activations PROVE Backed(a)'
    <3> SUFFICES ASSUME act'[a].at = "starting" PROVE executor'[act'[a].plugin] # None
      BY DEF Backed, PluginOf
    <3>1. CASE act[a].at = "starting"
      <4>1. PluginOf(a) \in Plugins /\ executor[PluginOf(a)] # None /\ act'[a].plugin = PluginOf(a)
        BY <2>3, <3>1 DEF Held, Backed, Typed, Placed, PluginOf
      <4> QED BY <2>5, <4>1
    <3>2. CASE act[a].at # "starting"
      <4>1. act[a].at = "create" /\ executor'[PluginOf(a)] = a
        BY <2>1, <3>2, ExecutorMoves
      <4> QED BY <2>2, <2>3, <4>1 DEF PluginOf
    <3> QED BY <3>1, <3>2
  <2>10. ASSUME NEW a \in Activations PROVE Unborn(a)'
    BY <2>1, ExecutorMoves DEF Held, Unborn, PluginOf
  <2> QED BY <2>6, <2>7, <2>8, <2>9, <2>10 DEF Held
<1>3. Spec => []Typed
  BY AlwaysTyped
<1> QED BY <1>1, <1>2, <1>3, PTL DEF Spec

-----------------------------------------------------------------------------
(* Who knows of a process *)

\* A process that lives is known, and a process was only ever started for a plugin
\* whose record got an executor.
Kept(e) == /\ Alive(e) => box[e].child \/ box[e].kill \/ Awaited(e)
           /\ box[e].proc # "none" => executor[PluginOf(e)] # None

\* Nobody loses sight of e in this step, and it is not born in it.
Mild(e) == /\ Alive(e)' => Alive(e)
           /\ box'[e].proc # "none" => box[e].proc # "none"
           /\ box[e].child => box'[e].child \/ Awaited(e)'
           /\ box[e].kill => box'[e].kill
           /\ Awaited(e) => Awaited(e)' \/ box'[e].kill \/ box'[e].proc = "dead"

\* Every step but the start of e itself is of this kind.
LEMMA MildSteps ==
    ASSUME Typed, NameAssumption, AnswerAssumption, [Next]_vars, NEW e \in Activations, ~Start(e)
    PROVE  Mild(e)
<1>1. /\ box \in [Activations -> Box] /\ stop \in [Shutdowns -> StopType]
      /\ executor \in [Plugins -> Activations \cup {None}]
      /\ act \in [Activations -> ActType]
  BY DEF Typed, TypeOK
<1>2. ASSUME UNCHANGED <<box, stop>> PROVE Mild(e)
  BY <1>2 DEF Mild, Alive, Awaited
<1>3. ASSUME NEW f \in Activations, NEW b \in Box, box' = [box EXCEPT ![f] = b], UNCHANGED stop,
             b.child = box[f].child, box[f].kill => b.kill,
             b.proc \in {"booting", "up"} => Alive(f),
             b.proc # "none" => box[f].proc # "none"
      PROVE  Mild(e)
  <2>1. CASE f = e
    BY <1>1, <1>3, <2>1 DEF Mild, Alive, Awaited
  <2>2. CASE f # e
    BY <1>1, <1>3, <2>2 DEF Mild, Alive, Awaited
  <2> QED BY <2>1, <2>2
<1>4. ASSUME NEW s \in Shutdowns, NEW n \in Plugins, StopExecutor(s, n), stop[s].at # "stopping"
      PROVE  Mild(e)
  <2>1. CASE executor[n] = None
    <3>1. /\ UNCHANGED box
          /\ \A t \in Shutdowns : stop[t].at = "stopping" => stop'[t] = stop[t]
      BY <1>1, <1>4, <2>1 DEF StopExecutor, Return
    <3> QED BY <3>1 DEF Mild, Alive, Awaited
  <2>2. CASE executor[n] # None
    <3>1. PICK x \in Activations : x = executor[n]
      BY <1>1, <2>2
    <3>2. /\ box' = [box EXCEPT ![x] = [box[x] EXCEPT !.child = FALSE, !.pending = {}]]
          /\ box[x].child => stop' = [stop EXCEPT ![s] = [at |-> "stopping", plugin |-> n, child |-> x]]
          /\ ~box[x].child => stop' = [stop EXCEPT ![s] = [at |-> "returned", plugin |-> n, child |-> None]]
      BY <1>4, <2>2, <3>1 DEF StopExecutor, Return, Becomes
    <3>3. \A t \in Shutdowns : stop[t].at = "stopping" => stop'[t] = stop[t]
      BY <1>1, <1>4, <3>2
    <3>4. box[x].child => stop'[s].at = "stopping" /\ stop'[s].child = x
      BY <1>1, <3>2
    <3>5. /\ box'[x].proc = box[x].proc /\ box'[x].kill = box[x].kill
          /\ e # x => box'[e] = box[e]
      BY <1>1, <3>2 DEF Box
    <3> QED BY <3>3, <3>4, <3>5 DEF Mild, Alive, Awaited
  <2> QED BY <2>1, <2>2
<1>5. CASE UNCHANGED vars
  BY <1>2, <1>5 DEF vars
<1>6. ASSUME NEW d \in Dirs, Admit(d) PROVE Mild(e)
  BY <1>2, <1>6 DEF Admit
<1>7. ASSUME NEW a \in Activations, NEW n \in Plugins, Activate(a, n) \/ ActivateUnknown(a, n)
      PROVE  Mild(e)
  BY <1>2, <1>7 DEF Activate, ActivateUnknown, Quiet
<1>8. ASSUME NEW a \in Activations, Gates(a) PROVE Mild(e)
  <2>1. CASE Start(a)
    <3>1. a # e
      BY <2>1
    <3>2. box'[e] = box[e] /\ UNCHANGED stop
      BY <1>1, <2>1, <3>1 DEF Start, Becomes
    <3> QED BY <3>2 DEF Mild, Alive, Awaited
  <2>2. CASE VerifySignature(a) \/ ResolveDependencies(a) \/ AuthorizeCapabilities(a) \/ ModeUnsupported(a)
    BY <1>2, <2>2 DEF VerifySignature, ResolveDependencies, AuthorizeCapabilities, ModeUnsupported, Quiet
  <2> QED BY <1>8, <2>1, <2>2 DEF Gates
<1>9. ASSUME NEW a \in Activations, Child(a) PROVE Mild(e)
  <2>1. CASE ChildReady(a)
    <3>1. [box[a] EXCEPT !.proc = "up", !.hello = TRUE] \in Box
      BY <1>1 DEF Box
    <3> QED BY <1>1, <1>3, <2>1, <3>1 DEF ChildReady, ChildOnly, Becomes, Alive, Box
  <2>2. ASSUME NEW c \in Calls, ChildReplies(a, c) PROVE Mild(e)
    <3>1. [box[a] EXCEPT !.work = @ \ {c}, !.replies = @ \cup {c}] \in Box
      BY <1>1 DEF Box
    <3> QED BY <1>1, <1>3, <2>2, <3>1 DEF ChildReplies, ChildOnly, Becomes, Alive, Box
  <2>3. ASSUME NEW cap \in Requests, ChildAsks(a, cap) PROVE Mild(e)
    BY <1>2, <2>3 DEF ChildAsks, ChildOnly
  <2>4. CASE ChildDies(a)
    <3>1. [box[a] EXCEPT !.proc = "dead", !.work = {}] \in Box
      BY <1>1 DEF Box
    <3> QED BY <1>1, <1>3, <2>4, <3>1 DEF ChildDies, ChildOnly, Becomes, Alive, Box
  <2> QED BY <1>9, <2>1, <2>2, <2>3, <2>4 DEF Child
<1>10. ASSUME NEW a \in Activations, Event(a) PROVE Mild(e)
  <2>1. CASE ReadReady(a)
    <3>1. [box[a] EXCEPT !.hello = FALSE] \in Box
      BY <1>1 DEF Box
    <3> QED BY <1>1, <1>3, <2>1, <3>1 DEF ReadReady, Becomes, Alive, Box
  <2>2. CASE StartTimeout(a)
    BY <1>2, <2>2 DEF StartTimeout, Quiet
  <2>3. CASE SpawnFails(a)
    <3>1. [box[a] EXCEPT !.proc = "dead", !.exit = TRUE] \in Box
      BY <1>1 DEF Box
    <3> QED BY <1>1, <1>3, <2>3, <3>1 DEF SpawnFails, Becomes, Alive, Box
  <2>4. CASE Exit(a)
    <3>1. /\ box[a].proc = "dead" /\ box' = [box EXCEPT ![a] = [box[a] EXCEPT !.exit = TRUE, !.pending = {}]]
          /\ \A s \in Shutdowns : ~(stop[s].at = "stopping" /\ stop[s].child = a) => stop'[s] = stop[s]
      BY <2>4 DEF Exit, Becomes
    <3>2. /\ box'[a].proc = "dead" /\ box'[a].child = box[a].child /\ box'[a].kill = box[a].kill
          /\ e # a => box'[e] = box[e] /\ (Awaited(e) => Awaited(e)')
      BY <1>1, <3>1 DEF Box, Awaited
    <3> QED BY <3>1, <3>2 DEF Mild, Alive
  <2>5. ASSUME NEW c \in Calls, ReadReply(a, c) PROVE Mild(e)
    <3>1. [box[a] EXCEPT !.replies = @ \ {c}, !.pending = @ \ {c}] \in Box
      BY <1>1 DEF Box
    <3> QED BY <1>1, <1>3, <2>5, <3>1 DEF ReadReply, Becomes, Alive, Box
  <2>6. ASSUME NEW c \in Calls, CallTimeout(a, c) PROVE Mild(e)
    <3>1. [box[a] EXCEPT !.pending = Drops(@, c), !.kill = @ \/ box[a].child] \in Box
      BY <1>1 DEF Box, Drops
    <3> QED BY <1>1, <1>3, <2>6, <3>1 DEF CallTimeout, Becomes, Alive, Box
  <2>7. ASSUME NEW cap \in Requests, Mediate(a, cap) \/ FetchSettles(a, cap) PROVE Mild(e)
    BY <1>2, <2>7 DEF Mediate, FetchSettles, ChildOnly
  <2> QED BY <1>10, <2>1, <2>2, <2>3, <2>4, <2>5, <2>6, <2>7 DEF Event
<1>11. ASSUME NEW c \in Calls, NEW n \in Plugins, Refuse(c, n) \/ Send(c, n) PROVE Mild(e)
  <2>1. CASE Refuse(c, n)
    BY <1>2, <2>1 DEF Refuse
  <2>2. CASE Send(c, n)
    <3>1. PICK x \in Activations : x = executor[n]
      <4>1. executor[n] # None
        BY <2>2 DEF Send, Refusal, Answer, AnswerAssumption
      <4> QED BY <1>1, <4>1
    <3>2. [box[x] EXCEPT !.pending = @ \cup {c}, !.work = IF Alive(x) THEN @ \cup {c} ELSE @] \in Box
      BY <1>1 DEF Box
    <3> QED BY <1>1, <1>3, <2>2, <3>1, <3>2 DEF Send, Becomes, Alive, Box
  <2> QED BY <1>11, <2>1, <2>2
<1>12. ASSUME NEW s \in Shutdowns, NEW n \in Plugins, Shutdown(s, n) \/ Drain(s, n) PROVE Mild(e)
  <2>1. CASE Shutdown(s, n)
    BY <1>4, <2>1 DEF Shutdown
  <2>2. CASE Drain(s, n)
    <3>1. UNCHANGED box /\ \A t \in Shutdowns : stop[t].at = "stopping" => stop'[t] = stop[t]
      BY <1>1, <2>2 DEF Drain
    <3> QED BY <3>1 DEF Mild, Alive, Awaited
  <2> QED BY <1>12, <2>1, <2>2
<1>13. ASSUME NEW s \in Shutdowns, Drained(s) PROVE Mild(e)
  <2>1. stop[s].plugin \in Plugins /\ stop[s].at = "draining"
    BY <1>1, <1>13 DEF Drained, StopType
  <2> QED BY <1>4, <1>13, <2>1 DEF Drained
<1>14. ASSUME NEW s \in Shutdowns, StopTimer(s) PROVE Mild(e)
  <2>1. PICK x \in Activations : stop[s].at = "stopping" /\ x = stop[s].child
    BY <1>1, <1>14 DEF StopTimer, StopOverdue, StopType
  <2>2. /\ box' = [box EXCEPT ![x] = [box[x] EXCEPT !.kill = TRUE]]
        /\ \A t \in Shutdowns : t # s => stop'[t] = stop[t]
    BY <1>1, <1>14, <2>1 DEF StopTimer, Becomes, Kills, Return
  <2>3. /\ box'[x].kill /\ box'[x].proc = box[x].proc /\ box'[x].child = box[x].child
        /\ e # x => box'[e] = box[e] /\ (Awaited(e) => Awaited(e)')
    BY <1>1, <2>1, <2>2 DEF Box, Awaited
  <2> QED BY <2>3 DEF Mild, Alive
<1> QED BY <1>5, <1>6, <1>7, <1>8, <1>9, <1>10, <1>11, <1>12, <1>13, <1>14 DEF Next

\* No process is left to itself.  The executor its plugin's record points to belongs to the
\* plugin, so it is the one the process was started for unless there was another activation.
THEOREM NoChildIsAdrift == Constants => (Spec => []NoneAdrift)
<1> SUFFICES ASSUME Constants PROVE Spec => []NoneAdrift
  OBVIOUS
<1> DEFINE AllKept == \A e \in Activations : Kept(e)
<1>1. Init => AllKept
  BY DEF Init, Kept, Alive, NewBox
<1>2. Typed /\ Held /\ AllKept /\ [Next]_vars => AllKept'
  <2> SUFFICES ASSUME Typed, Held, AllKept, [Next]_vars, NEW e \in Activations PROVE Kept(e)'
    OBVIOUS
  <2>1. /\ box \in [Activations -> Box] /\ executor \in [Plugins -> Activations \cup {None}]
        /\ act \in [Activations -> ActType] /\ None \notin Activations
    BY DEF Typed, TypeOK, Constants, NameAssumption
  <2>2. Kept(e)
    OBVIOUS
  <2> HIDE DEF AllKept
  <2>3. CASE Start(e)
    <3>1. act[e].at = "create" /\ PluginOf(e) \in Plugins
      BY <2>3 DEF Start, InGate, Typed, Placed
    <3>2. /\ box'[e].child /\ executor'[PluginOf(e)] = e /\ act'[e].plugin = PluginOf(e)
      BY <2>1, <2>3, <3>1 DEF Start, Becomes, NewBox, Box, PluginOf, ActType
    <3> QED BY <2>1, <3>2 DEF Kept, PluginOf
  <2>4. CASE ~Start(e)
    <3>1. Mild(e)
      BY <2>4, MildSteps DEF Constants
    <3>2. Alive(e)' => (box[e].child \/ box[e].kill \/ Awaited(e))'
      BY <2>2, <3>1 DEF Kept, Mild, Alive
    <3>3. ASSUME box'[e].proc # "none" PROVE executor'[act'[e].plugin] # None
      <4>1. box[e].proc # "none" /\ executor[PluginOf(e)] # None
        BY <2>2, <3>1, <3>3 DEF Kept, Mild
      <4>2. act[e].at # "idle" /\ PluginOf(e) \in Plugins
        BY <4>1 DEF Typed, Placed, Launched
      <4>3. act'[e].plugin = PluginOf(e)
        BY <4>2, PluginKept DEF PluginOf
      <4>4. executor'[PluginOf(e)] # None
        BY <2>1, <4>1, <4>2, HostForm, ExecutorMoves
      <4> QED BY <4>3, <4>4
    <3> QED BY <3>2, <3>3 DEF Kept, PluginOf
  <2> QED BY <2>3, <2>4
<1>3. Typed /\ Held /\ AllKept => NoneAdrift
  <2> SUFFICES ASSUME Typed, Held, AllKept, NEW e \in Activations, Alive(e),
                      ~(box[e].kill \/ Awaited(e))
               PROVE  box[e].child /\ (executor[PluginOf(e)] = e \/ Replaced(e))
    BY Zenon DEF NoneAdrift
  <2>1. box[e].child /\ executor[PluginOf(e)] # None
    BY DEF Kept, Alive
  <2>2. PluginOf(e) \in Plugins
    BY DEF Alive, Typed, Placed, Launched
  <2>3. executor[PluginOf(e)] \in Activations /\ PluginOf(executor[PluginOf(e)]) = PluginOf(e)
    BY <2>1, <2>2 DEF Typed, TypeOK, Held, ExecutorHeld
  <2> QED BY <2>1, <2>3 DEF Replaced
<1>4. Spec => []Typed /\ []Held
  BY AlwaysTyped, AlwaysHeld
<1> QED BY <1>1, <1>2, <1>3, <1>4, PTL DEF Spec

-----------------------------------------------------------------------------
(* Where an activation finds the lifecycle of its plugin *)

\* The gates walk the chain from discovered, and the ready frame from authorized.
LEMMA Walk ==
    /\ \A l : l.state = "discovered" => Advanced(l, "verified").state = "verified"
    /\ \A l : l.state = "verified" =>
                 Advanced(l, "dependencies-resolved").state = "dependencies-resolved"
    /\ \A l : l.state = "dependencies-resolved" => Advanced(l, "authorized").state = "authorized"
    /\ \A l : l.state = "authorized" => IsServing(Serve(l))
<1>1. \A i \in 1..8 : <<Chain[i], Chain[i + 1]>> \in NextState
  BY DEF NextState
<1>2. /\ <<Chain[1], Chain[1 + 1]>> \in NextState /\ <<Chain[2], Chain[2 + 1]>> \in NextState
      /\ <<Chain[3], Chain[3 + 1]>> \in NextState /\ <<Chain[4], Chain[4 + 1]>> \in NextState
      /\ <<Chain[5], Chain[5 + 1]>> \in NextState /\ <<Chain[6], Chain[6 + 1]>> \in NextState
  BY <1>1
<1>3. /\ <<"discovered", "verified">> \in NextState
      /\ <<"verified", "dependencies-resolved">> \in NextState
      /\ <<"dependencies-resolved", "authorized">> \in NextState
      /\ <<"authorized", "initialized">> \in NextState
      /\ <<"initialized", "healthy">> \in NextState
      /\ <<"healthy", "serving">> \in NextState
  BY <1>2 DEF Chain
<1>4. \A l, to : l.state \notin TerminalStates /\ <<l.state, to>> \in NextState
                 => Advanced(l, to).state = to
  BY DEF Advanced, Enter1
<1>5. {"discovered", "verified", "dependencies-resolved", "authorized", "initialized", "healthy"}
        \cap TerminalStates = {}
  BY DEF TerminalStates
<1>6. ASSUME NEW l, l.state = "authorized" PROVE IsServing(Serve(l))
  <2> DEFINE i == Advanced(l, "initialized")
             h == Advanced(i, "healthy")
  <2>1. i.state = "initialized"
    BY <1>3, <1>4, <1>5, <1>6
  <2>2. h.state = "healthy"
    BY <1>3, <1>4, <1>5, <2>1
  <2> HIDE DEF i, h
  <2>3. Advanced(h, "serving").state = "serving"
    BY <1>3, <1>4, <1>5, <2>2
  <2> QED BY <2>3 DEF Serve, IsServing, i, h
<1> QED BY <1>3, <1>4, <1>5, <1>6

\* No other activation is of the plugin of a.
Alone(a) == \A b \in Activations : PluginOf(b) = PluginOf(a) => b = a

\* A plugin nobody activated: discovered, and perhaps stopped at once.
Early == {NewLifecycle, Stopped(NewLifecycle)}
Fresh(n) == (\A a \in Activations : PluginOf(a) # n) =>
    /\ life[n] \in Early
    /\ \A s \in Shutdowns : stop[s].at \in {"draining", "stopping"} => stop[s].plugin # n

\* The lifecycle where the only activation of a plugin finds it: at the state its last
\* gate brought it to, unless a shutdown was there before it, or came while it waited.
Gating == {"verify", "depend", "authorize", "create"}
StandsAt == [verify |-> "discovered", depend |-> "verified",
             authorize |-> "dependencies-resolved", create |-> "authorized",
             starting |-> "authorized"]
On(a) == act[a].at \in Gating \cup {"starting"} /\ Alone(a) =>
    \/ life[PluginOf(a)] = Stopped(NewLifecycle)
    \/ life[PluginOf(a)].state = StandsAt[act[a].at]
    \/ act[a].at = "starting" /\ \E s \in Shutdowns : stop[s].plugin = PluginOf(a)

\* The gates of an activation are passed in one go.
Running(a) == act[a].at \in Gating => loop = a

Stands == /\ \A n \in Plugins : Fresh(n)
          /\ \A a \in Activations : On(a) /\ Running(a)

\* Which step touches the lifecycle of n.
LEMMA LifeOf ==
    ASSUME Typed, HostStep, NEW n \in Plugins
    PROVE  \/ life'[n] = life[n]
           \/ \E a \in Activations :
                 PluginOf(a) = n /\ (Passes(a) \/ Readies(a) \/ Fails(a) \/ Gone(a))
           \/ \E s \in Shutdowns : Drains(s, n) \/ Returns(s, n)
<1>1. life \in [Plugins -> Lifecycle]
  BY DEF Typed, TypeOK
<1>2. \/ UNCHANGED life
      \/ \E a \in Activations : /\ Passes(a) \/ Readies(a) \/ Fails(a) \/ Gone(a)
                                /\ \E l : life' = [life EXCEPT ![PluginOf(a)] = l]
      \/ \E s \in Shutdowns, m \in Plugins : /\ Drains(s, m) \/ Returns(s, m)
                                             /\ \E l : life' = [life EXCEPT ![m] = l]
  <2>1. CASE Stays
    BY <2>1 DEF Stays
  <2>2. ASSUME NEW a \in Activations, (\E m \in Plugins : Begins(a, m)) \/ Launches(a)
        PROVE  UNCHANGED life
    BY <2>2 DEF Begins, Launches
  <2>3. ASSUME NEW a \in Activations, Passes(a) PROVE \E l : life' = [life EXCEPT ![PluginOf(a)] = l]
    BY <2>3 DEF Passes
  <2>4. ASSUME NEW a \in Activations, Readies(a) \/ Fails(a)
        PROVE  \E l : life' = [life EXCEPT ![PluginOf(a)] = l]
    BY <2>4 DEF Readies, Fails
  <2>5. ASSUME NEW a \in Activations, Gone(a) PROVE \E l : life' = [life EXCEPT ![PluginOf(a)] = l]
    BY <2>5 DEF Gone
  <2>6. ASSUME NEW s \in Shutdowns, NEW m \in Plugins, Drains(s, m) \/ Returns(s, m)
        PROVE  \E l : life' = [life EXCEPT ![m] = l]
    BY <2>6 DEF Drains, Returns, Return
  <2>7. ASSUME NEW s \in Shutdowns, NEW m \in Plugins, Waits(s, m) PROVE UNCHANGED life
    BY <2>7 DEF Waits
  <2> QED BY <2>1, <2>2, <2>3, <2>4, <2>5, <2>6, <2>7 DEF HostStep
<1> QED BY <1>1, <1>2

\* Which step moves the activation a.
LEMMA ActOf ==
    ASSUME Typed, HostStep, NEW a \in Activations
    PROVE  \/ act'[a] = act[a] \/ \E n \in Plugins : Begins(a, n)
           \/ Passes(a) \/ Launches(a) \/ Readies(a)
           \/ (Fails(a) /\ act'[a].at = "refused") \/ (Gone(a) /\ act'[a].at = "refused")
<1>1. act \in [Activations -> ActType]
  BY DEF Typed, TypeOK
<1>2. ASSUME NEW b \in Activations, NEW x, act' = [act EXCEPT ![b] = x], b # a
      PROVE  act'[a] = act[a]
  BY <1>1, <1>2
<1>3. ASSUME NEW b \in Activations, NEW x, act' = [act EXCEPT ![b].at = x]
      PROVE  (b # a => act'[a] = act[a]) /\ act'[b].at = x
  BY <1>1, <1>3 DEF ActType
<1>4. CASE Stays
  BY <1>4 DEF Stays
<1>5. ASSUME NEW b \in Activations, NEW n \in Plugins, Begins(b, n)
      PROVE  b = a \/ act'[a] = act[a]
  BY <1>2, <1>5 DEF Begins
<1>6. ASSUME NEW b \in Activations, Passes(b) \/ Launches(b) \/ Readies(b) \/ Fails(b)
      PROVE  /\ b = a \/ act'[a] = act[a]
             /\ Fails(b) => act'[b].at = "refused"
  BY <1>3, <1>6 DEF Passes, Launches, Readies, Fails
<1>7. ASSUME NEW b \in Activations, Gone(b)
      PROVE  act'[a] = act[a] \/ (b = a /\ act'[a].at = "refused")
  <2>1. UNCHANGED act \/ act' = [act EXCEPT ![b].at = "refused"]
    BY <1>7 DEF Gone
  <2> QED BY <1>3, <2>1
<1>8. ASSUME NEW s \in Shutdowns, NEW n \in Plugins, Drains(s, n) \/ Waits(s, n) \/ Returns(s, n)
      PROVE  act'[a] = act[a]
  BY <1>8 DEF Drains, Waits, Returns, Turn
<1> QED BY <1>4, <1>5, <1>6, <1>7, <1>8 DEF HostStep

\* Which step moves the loop.
LEMMA LoopOf ==
    ASSUME Typed, HostStep
    PROVE  \/ UNCHANGED loop
           \/ loop = None
           \/ loop' = None /\ loop \in Activations /\ (Launches(loop) \/ Fails(loop))
BY DEF HostStep, Stays, Begins, Passes, Launches, Readies, Fails, Gone, Drains, Waits, Returns, Turn

\* A shutdown keeps its plugin, and which step makes it drain or wait.
LEMMA StopOf ==
    ASSUME Constants, Typed, HostStep, NEW s \in Shutdowns, StopsOwn(s)
    PROVE  /\ stop[s].plugin \in Plugins => stop'[s].plugin = stop[s].plugin
           /\ \/ stop'[s] = stop[s]
              \/ stop'[s].at = "returned"
              \/ \E n \in Plugins : (Drains(s, n) \/ Waits(s, n)) /\ stop'[s].plugin = n
           /\ \A n \in Plugins : Drains(s, n) \/ Returns(s, n) => stop'[s].plugin = n
<1> DEFINE Keeps == stop[s].plugin \in Plugins => stop'[s].plugin = stop[s].plugin
           Comes == \/ stop'[s] = stop[s]
                    \/ stop'[s].at = "returned"
                    \/ \E n \in Plugins : (Drains(s, n) \/ Waits(s, n)) /\ stop'[s].plugin = n
           Names == \A n \in Plugins : Drains(s, n) \/ Returns(s, n) => stop'[s].plugin = n
<1>1. stop \in [Shutdowns -> StopType] /\ None \notin Plugins
  BY DEF Typed, TypeOK, Constants, NameAssumption
<1>2. ASSUME NEW t \in Shutdowns, NEW n \in Plugins, Turn(t, n)
      PROVE  stop[t].plugin \in Plugins => stop[t].plugin = n
  BY <1>1, <1>2 DEF Turn, StopType
<1>3. ASSUME NEW t \in Shutdowns, NEW n \in Plugins, Drains(t, n) \/ Waits(t, n) \/ Returns(t, n)
      PROVE  \E at \in {"draining", "stopping", "returned"} : \E c :
                stop' = [stop EXCEPT ![t] = [at |-> at, plugin |-> n, child |-> c]]
  BY <1>3 DEF Drains, Waits, Returns, Return
<1>4. ASSUME NEW t \in Shutdowns, NEW n \in Plugins, Drains(t, n) \/ Waits(t, n) \/ Returns(t, n)
      PROVE  /\ Keeps
             /\ t = s => stop'[s].plugin = n
             /\ t # s => stop'[s] = stop[s]
  <2>1. PICK at, c : stop' = [stop EXCEPT ![t] = [at |-> at, plugin |-> n, child |-> c]]
    BY <1>3, <1>4
  <2>2. (t # s => stop'[s] = stop[s]) /\ (t = s => stop'[s].plugin = n)
    BY <1>1, <2>1
  <2>3. Turn(t, n)
    BY <1>4 DEF Drains, Waits, Returns
  <2> QED BY <1>2, <2>2, <2>3
<1>5. Names
  BY <1>4
<1>6. CASE stop'[s] = stop[s]
  BY <1>5, <1>6
<1>7. ASSUME NEW e \in Activations, Gone(e)
      PROVE  stop'[s] = stop[s] \/ (stop'[s].at = "returned" /\ stop'[s].plugin = stop[s].plugin)
  <2> DEFINE waiting == {t \in Shutdowns : stop[t].at = "stopping" /\ stop[t].child = e}
  <2>1. stop' = [t \in Shutdowns |-> IF t \in waiting
                   THEN [at |-> "returned", plugin |-> PluginOf(e), child |-> None] ELSE stop[t]]
    BY <1>7 DEF Gone
  <2>2. s \in waiting => PluginOf(e) = stop[s].plugin
    BY DEF StopsOwn
  <2> HIDE DEF waiting
  <2> QED BY <2>1, <2>2
<1>8. ASSUME NEW n \in Plugins, Returns(s, n) PROVE stop'[s].at = "returned"
  BY <1>1, <1>8 DEF Returns, Return
<1>9. \/ stop'[s] = stop[s]
      \/ \E e \in Activations : Gone(e)
      \/ \E t \in Shutdowns, n \in Plugins : Drains(t, n) \/ Waits(t, n) \/ Returns(t, n)
  BY DEF HostStep, Stays, Begins, Passes, Launches, Readies, Fails, SameStops
<1> QED BY <1>4, <1>5, <1>6, <1>7, <1>8, <1>9

\* The only activation of a plugin comes to a place where its lifecycle stands.
LEMMA StandsInit == Constants /\ Init => Stands
BY DEF Init, Stands, Fresh, On, Running, Early, Gating, PluginOf

LEMMA StandsStep ==
    Constants /\ Typed /\ Held /\ Stands /\ [Next]_vars => Stands'
<1> SUFFICES ASSUME Constants, Typed, Held, Stands, [Next]_vars PROVE Stands'
  OBVIOUS
<1>1. HostStep
  BY HostForm
<1>2. /\ act \in [Activations -> ActType] /\ executor \in [Plugins -> Activations \cup {None}]
      /\ stop \in [Shutdowns -> StopType] /\ None \notin Activations /\ None \notin Plugins
  BY DEF Typed, TypeOK, Constants, NameAssumption
<1>3. \A a \in Activations : /\ act[a].at # "idle" => act'[a].plugin = act[a].plugin
                             /\ act[a].at # "idle" => act[a].plugin \in Plugins
                             /\ act[a].at = "idle" => act[a].plugin = None
  BY PluginKept DEF Typed, Placed, Held, Unborn, PluginOf
<1>4. \A s \in Shutdowns : StopsOwn(s)
  BY DEF Held
<1>5. ASSUME NEW n \in Plugins PROVE Fresh(n)'
  <2> SUFFICES ASSUME \A a \in Activations : act'[a].plugin # n
               PROVE  /\ life'[n] \in Early
                      /\ \A s \in Shutdowns : stop'[s].at \in {"draining", "stopping"}
                                              => stop'[s].plugin # n
    BY DEF Fresh, PluginOf
  <2>1. \A a \in Activations : PluginOf(a) # n
    BY <1>2, <1>3 DEF PluginOf
  <2>2. life[n] \in Early /\ \A s \in Shutdowns : stop[s].at \in {"draining", "stopping"} => stop[s].plugin # n
    BY <2>1 DEF Stands, Fresh
  <2>3. \A l \in Early : ~IsServing(l) /\ Stopped(l) \in Early
    BY DEF Early, NewLifecycle, Stopped, IsServing, Enter1
  <2>4. executor[n] = None
    BY <1>2, <2>1 DEF Held, ExecutorHeld
  <2>5. \A s \in Shutdowns : ~Drains(s, n) /\ ~Waits(s, n)
    BY <2>2, <2>3, <2>4 DEF Drains, Waits
  <2>6. life'[n] \in Early
    <3>1. ASSUME NEW s \in Shutdowns, Returns(s, n) PROVE life'[n] = Stopped(life[n])
      BY <3>1 DEF Returns, Return, Typed, TypeOK
    <3>2. life'[n] = life[n] \/ \E s \in Shutdowns : Returns(s, n)
      BY <1>1, <2>1, <2>5, LifeOf
    <3> QED BY <2>2, <2>3, <3>1, <3>2
  <2>7. ASSUME NEW s \in Shutdowns, stop'[s].at \in {"draining", "stopping"}
        PROVE  stop'[s].plugin # n
    <3>1. stop'[s] = stop[s] \/ \E m \in Plugins : (Drains(s, m) \/ Waits(s, m)) /\ stop'[s].plugin = m
      BY <1>1, <1>4, <2>7, StopOf
    <3> QED BY <2>2, <2>5, <2>7, <3>1
  <2> QED BY <2>6, <2>7
<1>6. ASSUME NEW a \in Activations PROVE Running(a)'
  <2> SUFFICES ASSUME act'[a].at \in Gating PROVE loop' = a
    BY DEF Running
  <2>1. CASE act'[a] = act[a]
    <3>1. loop = a
      BY <2>1 DEF Stands, Running
    <3>2. ~(Launches(a) \/ Fails(a))
      BY <1>2, <2>1 DEF Launches, Fails, Gating, ActType
    <3> QED BY <1>1, <1>2, <3>1, <3>2, LoopOf
  <2>2. ASSUME NEW n \in Plugins, Begins(a, n) PROVE loop' = a
    BY <1>2, <2>2 DEF Begins, Gating
  <2>3. CASE Passes(a)
    BY <2>3 DEF Passes
  <2>4. CASE Launches(a) \/ Readies(a)
    BY <1>2, <2>4 DEF Launches, Readies, Gating, ActType
  <2> QED BY <1>1, <2>1, <2>2, <2>3, <2>4, ActOf DEF Gating
<1>7. ASSUME NEW a \in Activations PROVE On(a)'
  <2> DEFINE p == act'[a].plugin
  <2> SUFFICES ASSUME act'[a].at \in Gating \cup {"starting"},
                      \A b \in Activations : act'[b].plugin = p => b = a
               PROVE  \/ life'[p] = Stopped(NewLifecycle)
                      \/ life'[p].state = StandsAt[act'[a].at]
                      \/ act'[a].at = "starting" /\ \E s \in Shutdowns : stop'[s].plugin = p
    BY DEF On, Alone, PluginOf
  <2>1. ASSUME NEW n \in Plugins, Begins(a, n)
        PROVE  life'[p] = Stopped(NewLifecycle) \/ life'[p].state = StandsAt[act'[a].at]
    <3>1. /\ act'[a].plugin = n /\ act'[a].at = "verify" /\ act[a].at = "idle" /\ life' = life
      BY <1>2, <2>1 DEF Begins, Gating
    <3>2. \A b \in Activations : PluginOf(b) # n
      BY <1>2, <1>3, <3>1 DEF PluginOf
    <3>3. life[n] \in Early
      BY <3>2 DEF Stands, Fresh
    <3>4. NewLifecycle.state = StandsAt["verify"]
      BY DEF NewLifecycle, StandsAt
    <3> QED BY <3>1, <3>3, <3>4 DEF Early
  <2>2. ASSUME act[a].at # "idle"
        PROVE  p = PluginOf(a) /\ PluginOf(a) \in Plugins /\ Alone(a)
    BY <1>2, <1>3, <2>2 DEF PluginOf, Alone
  <2>3. CASE Passes(a)
    <3>1. PICK g \in GateTable : /\ act[a].at = g[1] /\ act'[a].at = g[3]
                                 /\ life' = [life EXCEPT ![PluginOf(a)] = Advanced(@, g[2])]
      BY <1>2, <2>3 DEF Passes, ActType
    <3>2. act[a].at # "idle" /\ act[a].at \in Gating /\ act[a].at # "starting"
      BY <3>1 DEF GateTable, Gating
    <3>3. life'[p] = Advanced(life[p], g[2])
      BY <2>2, <3>1, <3>2 DEF Typed, TypeOK
    <3>4. life[p] = Stopped(NewLifecycle) \/ life[p].state = StandsAt[g[1]]
      BY <2>2, <3>1, <3>2 DEF Stands, On
    <3>5. CASE life[p] = Stopped(NewLifecycle)
      BY <3>3, <3>5, StateMoves
    <3>6. CASE life[p].state = StandsAt[g[1]]
      <4>1. life'[p].state = StandsAt[g[3]]
        BY <3>3, <3>6, Walk DEF GateTable, StandsAt
      <4> QED BY <3>1, <4>1
    <3> QED BY <3>4, <3>5, <3>6
  <2>4. CASE Launches(a)
    <3>1. act[a].at = "create" /\ act'[a].at = "starting" /\ life' = life
      BY <1>2, <2>4 DEF Launches, ActType
    <3>2. StandsAt["create"] = StandsAt["starting"]
      BY DEF StandsAt
    <3>3. life[p] = Stopped(NewLifecycle) \/ life[p].state = StandsAt["create"]
      BY <2>2, <3>1 DEF Stands, On, Gating
    <3> QED BY <3>1, <3>2, <3>3
  <2>5. CASE act'[a] = act[a]
    <3>1. /\ act[a].at \in Gating \cup {"starting"} /\ act[a].at \notin {"idle", "ok", "refused"}
          /\ ~Launched(a) \/ act[a].at = "starting"
      BY <2>5 DEF Gating, Launched
    <3>2. p = PluginOf(a) /\ p \in Plugins /\ Alone(a) /\ act'[a].at = act[a].at
      BY <2>2, <2>5, <3>1
    <3>3. \/ life[p] = Stopped(NewLifecycle)
          \/ life[p].state = StandsAt[act[a].at]
          \/ act[a].at = "starting" /\ \E s \in Shutdowns : stop[s].plugin = p
      BY <3>1, <3>2 DEF Stands, On
    <3>4. \A s \in Shutdowns : stop[s].plugin = p => stop'[s].plugin = p
      BY <1>1, <1>4, <3>2, StopOf
    <3>5. CASE life'[p] = life[p]
      BY <3>2, <3>3, <3>4, <3>5
    <3>6. ASSUME NEW s \in Shutdowns, Drains(s, p) \/ Returns(s, p)
          PROVE  act'[a].at = "starting" /\ stop'[s].plugin = p
      <4>1. loop = None
        BY <3>6 DEF Drains, Returns, Turn
      <4>2. act[a].at = "starting"
        BY <1>2, <3>1, <4>1 DEF Stands, Running
      <4> QED BY <1>1, <1>4, <3>2, <3>6, <4>2, StopOf
    <3>7. ASSUME NEW b \in Activations, PluginOf(b) = p,
                 Passes(b) \/ Readies(b) \/ Fails(b) \/ Gone(b)
          PROVE  FALSE
      <4>1. b = a
        BY <3>2, <3>7 DEF Alone
      <4>2. ~Passes(a) /\ ~Readies(a) /\ ~Fails(a)
        BY <1>2, <2>5, <3>1 DEF Passes, Readies, Fails, GateTable, ActType
      <4>3. CASE Gone(a)
        <5>1. Launched(a) /\ act[a].at # "starting"
          BY <1>2, <2>5, <4>3 DEF Gone, ActType, Typed, Placed
        <5> QED BY <3>1, <5>1
      <4> QED BY <3>7, <4>1, <4>2, <4>3
    <3> QED BY <1>1, <3>2, <3>5, <3>6, <3>7, LifeOf
  <2>6. CASE Readies(a) \/ act'[a].at = "refused"
    BY <1>2, <2>6 DEF Readies, Gating, ActType
  <2> QED BY <1>1, <2>1, <2>3, <2>4, <2>5, <2>6, ActOf
<1> QED BY <1>5, <1>6, <1>7 DEF Stands

\* Plugin code is started only for a plugin that stands at authorized, and activate()
\* answers ok only when it has brought its plugin to serving, as long as nobody stops or
\* activates the plugin besides.
THEOREM ActivationsStand == Constants => (Spec => ActivationsAreSound)
<1> SUFFICES ASSUME Constants PROVE Spec => ActivationsAreSound
  OBVIOUS
<1>1. Typed /\ Held /\ Stands /\ [Next]_vars
      => [\A a \in Activations : LaunchIsAuthorized(a) /\ OkMeansServing(a)]_vars
  <2> SUFFICES ASSUME Typed, Held, Stands, [Next]_vars, NEW a \in Activations
               PROVE  LaunchIsAuthorized(a) /\ OkMeansServing(a)
    OBVIOUS
  <2>1. HostStep
    BY HostForm
  <2> DEFINE n == PluginOf(a)
  <2>2. act \in [Activations -> ActType]
    BY DEF Typed, TypeOK
  <2>3. Straight(n) => Alone(a) /\ life[n] # Stopped(NewLifecycle)
    <3>1. Stopped(NewLifecycle).log = Append(<<"discovered">>, "stopped")
      BY DEF NewLifecycle, Stopped, Enter1
    <3>2. <<"discovered">> \in Seq(LifecycleState) /\ Len(<<"discovered">>) = 1
      BY LifecycleTypes DEF NewLifecycle, Lifecycle
    <3>3. /\ Len(Append(<<"discovered">>, "stopped")) = 2
          /\ Append(<<"discovered">>, "stopped")[2] = "stopped"
      BY <3>2
    <3> QED BY <3>1, <3>3 DEF Straight, Alone
  <2>4. LaunchIsAuthorized(a)
    BY <2>3 DEF LaunchIsAuthorized, Stands, On, Gating, StandsAt
  <2>5. OkMeansServing(a)
    <3> SUFFICES ASSUME act[a].at = "starting", act'[a].at = "ok", Straight(n),
                        ~\E s \in Shutdowns : stop[s].plugin = n
                 PROVE  IsServing(life'[n])
      BY DEF OkMeansServing
    <3>1. life[n].state = "authorized"
      BY <2>3 DEF Stands, On, StandsAt
    <3>2. Readies(a)
      BY <2>1, <2>2, ActOf DEF Begins, Passes, Launches, GateTable
    <3>3. n \in Plugins /\ life'[n] = Serve(life[n])
      BY <3>2 DEF Readies, Typed, TypeOK, Placed
    <3> QED BY <3>1, <3>3, Walk
  <2> QED BY <2>4, <2>5
<1>2. Spec => []Typed /\ []Held
  BY AlwaysTyped, AlwaysHeld
<1>3. Spec => []Stands
  BY <1>2, StandsInit, StandsStep, PTL DEF Spec
<1> QED BY <1>1, <1>2, <1>3, PTL DEF Spec, ActivationsAreSound

=============================================================================

----------------------------- MODULE PluginHost -----------------------------
(***************************************************************************)
(* The plugin host: packages/plugin-host/src/host.ts driving the lifecycle *)
(* of each plugin, and executor/process.ts running each plugin in a child  *)
(* process.                                                                *)
(*                                                                         *)
(* The host is one event loop.  activate(), call() and shutdown() run to   *)
(* their first await; what resumes them is a frame of the child, its exit, *)
(* or a timer, and each of these is an action that includes the            *)
(* continuation it resumes.  The gates of activate() are steps of their    *)
(* own, with loop naming the activation whose synchronous code runs.  The  *)
(* child is a process that answers calls in any order, asks for effects,   *)
(* dies when it likes and may ignore SIGTERM.                              *)
(*                                                                         *)
(* An executor is named by the activation that created it.  Abstracted:    *)
(* manifests, payloads, reasons and events; the signature check and the    *)
(* operator's policy are choices; a capability is its name.                *)
(***************************************************************************)
EXTENDS PluginLifecycle

CONSTANTS
    Plugins,      \* plugin names
    Dirs,         \* candidate directories under the declared plugin roots
    Dependencies, \* plugin -> the plugins its manifest depends on
    Declared,     \* plugin -> capabilities its manifest declares
    Operator,     \* plugin -> capabilities the operator grants
    Requests,     \* capabilities a plugin may ask for at run time
    Network,      \* those mediated by the network fetcher, not by a file read
    Activations,  \* activate() calls, each naming the executor it creates
    Shutdowns,    \* shutdown() calls
    Calls,        \* call() calls
    None

DirType == [name : Plugins, version : Nat, digest : Nat, sound : BOOLEAN]

DirAssumption    == Dirs \subseteq DirType
PolicyAssumption == /\ Dependencies \in [Plugins -> SUBSET Plugins]
                    /\ Declared \in [Plugins -> SUBSET Requests]
                    /\ Operator \in [Plugins -> SUBSET Requests]
NameAssumption   == /\ None \notin Plugins /\ None \notin Activations
                    /\ None \notin Nat /\ None \notin Dirs
ASSUME DirAssumption
ASSUME PolicyAssumption
ASSUME NameAssumption

VARIABLES
    registry, \* name -> version -> digest on record, or None
    record,   \* plugin -> the directory admitted under its name, or None
    life,     \* plugin -> its lifecycle
    executor, \* plugin -> the executor its record points to, or None
    loop,     \* the activation whose synchronous code is running, or None
    act,      \* activation -> where its activate() is and what it returned
    box,      \* executor -> its child process and the host's view of it
    calls,    \* call -> what became of it
    asks,     \* executor -> effect requests of the child the host has not read
    fetching, \* executor -> network effects whose fetch has not settled
    stop      \* shutdown -> where its shutdown() is

vars == <<registry, record, life, executor, loop, act, box, calls, asks, fetching, stop>>

-----------------------------------------------------------------------------
(* State *)

Versions == {d.version : d \in Dirs}
Digests  == {d.digest : d \in Dirs}

\* child: the executor's reference to the process; proc: the process; exit: its
\* exit event has been delivered, or never will be; kill: SIGKILL was sent; hello:
\* a ready frame is on the wire; pending: calls with a timer; work: calls the
\* child is handling; replies: answers on the wire.  SIGTERM may be ignored.
Box == [child : BOOLEAN, proc : {"none", "booting", "up", "dead"}, exit : BOOLEAN,
        kill : BOOLEAN, hello : BOOLEAN,
        pending : SUBSET Calls, work : SUBSET Calls, replies : SUBSET Calls]
NewBox == [child |-> FALSE, proc |-> "none", exit |-> FALSE, kill |-> FALSE,
           hello |-> FALSE, pending |-> {}, work |-> {}, replies |-> {}]

Stage   == {"idle", "verify", "depend", "authorize", "create", "starting", "ok", "refused"}
ActType == [at : Stage, plugin : Plugins \cup {None}]
Answer  == {"value", "error", "CALL_TIMEOUT", "CALL_FAILED", "SANDBOX_NOT_RUNNING",
            "PLUGIN_NOT_SERVING"}
AnswerAssumption == None \notin Answer
ASSUME AnswerAssumption

CallType == [st : {"idle"}, to : {None}, answer : {None}]
              \cup [st : {"waiting"}, to : Activations, answer : {None}]
              \cup [st : {"answered"}, to : Activations \cup {None}, answer : Answer]
StopType == [at : {"idle"}, plugin : {None}, child : {None}]
              \cup [at : {"draining", "returned"}, plugin : Plugins, child : {None}]
              \cup [at : {"stopping"}, plugin : Plugins, child : Activations]

Init ==
    /\ registry = [n \in Plugins |-> [v \in Versions |-> None]]
    /\ record   = [n \in Plugins |-> None]
    /\ life     = [n \in Plugins |-> NewLifecycle]
    /\ executor = [n \in Plugins |-> None]
    /\ loop     = None
    /\ act      = [a \in Activations |-> [at |-> "idle", plugin |-> None]]
    /\ box      = [e \in Activations |-> NewBox]
    /\ calls    = [c \in Calls |-> [st |-> "idle", to |-> None, answer |-> None]]
    /\ asks     = [e \in Activations |-> {}]
    /\ fetching = [e \in Activations |-> {}]
    /\ stop     = [s \in Shutdowns |-> [at |-> "idle", plugin |-> None, child |-> None]]

Idle == loop = None
Known(n) == record[n] # None
PluginOf(a) == act[a].plugin
Becomes(e, b) == box' = [box EXCEPT ![e] = b]

\* What is left alone by the steps of each part.
Effects   == <<asks, fetching>>
Discovery == <<registry, record>>

-----------------------------------------------------------------------------
(* Discovery *)

\* Mutant: the registry forgets what it has seen.
NoConflict(d) == TRUE

\* PluginDigestRegistry.record: the same version never has two digests.
Unique(d) == registry[d.name][d.version] \in {None, d.digest}

\* admit(): the registry learns the digest even when the name is already taken.
\* One step is one candidate of one discover(), which may be called at any time.
Admit(d) ==
    /\ Idle /\ d.sound /\ Unique(d)
    /\ registry' = [registry EXCEPT ![d.name][d.version] = d.digest]
    /\ record' = IF Known(d.name) THEN record ELSE [record EXCEPT ![d.name] = d]
    /\ UNCHANGED <<life, executor, loop, act, box, calls, Effects, stop>>

-----------------------------------------------------------------------------
(* activate() *)

\* Abort: fail the lifecycle and return; the loop is free again.
Abort(a) ==
    /\ life' = [life EXCEPT ![PluginOf(a)] = Failed(@)]
    /\ act' = [act EXCEPT ![a].at = "refused"]
    /\ loop' = IF loop = a THEN None ELSE loop

Advance(a, to, at) ==
    /\ life' = [life EXCEPT ![PluginOf(a)] = Advanced(@, to)]
    /\ act' = [act EXCEPT ![a].at = at]
    /\ UNCHANGED loop

InGate(a, at) == loop = a /\ act[a].at = at

Quiet == <<Discovery, executor, box, calls, Effects, stop>>

\* activate() of a name nobody discovered is refused without touching a record.
ActivateUnknown(a, n) ==
    /\ Idle /\ act[a].at = "idle" /\ ~Known(n)
    /\ act' = [act EXCEPT ![a] = [at |-> "refused", plugin |-> n]]
    /\ UNCHANGED <<life, loop, Quiet>>

Activate(a, n) ==
    /\ Idle /\ act[a].at = "idle" /\ Known(n)
    /\ act' = [act EXCEPT ![a] = [at |-> "verify", plugin |-> n]]
    /\ loop' = a
    /\ UNCHANGED <<life, Quiet>>

\* Each advance() is called for its effect: a refusal does not stop activate().
VerifySignature(a) ==
    /\ InGate(a, "verify")
    /\ Advance(a, "verified", "depend") \/ Abort(a)
    /\ UNCHANGED Quiet

ResolveDependencies(a) ==
    /\ InGate(a, "depend")
    /\ IF \A d \in Dependencies[PluginOf(a)] : Known(d)
       THEN Advance(a, "dependencies-resolved", "authorize") ELSE Abort(a)
    /\ UNCHANGED Quiet

\* provides not accepted, or a malformed capability: abort.
AuthorizeCapabilities(a) ==
    /\ InGate(a, "authorize")
    /\ Advance(a, "authorized", "create") \/ Abort(a)
    /\ UNCHANGED Quiet

\* createExecutor: no executor for the declared sandbox mode.
ModeUnsupported(a) ==
    /\ InGate(a, "create") /\ Abort(a)
    /\ UNCHANGED Quiet

\* start(): the child is spawned and the activation waits for its ready frame.
\* A second activation replaces the executor of the record.
Start(a) ==
    /\ InGate(a, "create")
    /\ executor' = [executor EXCEPT ![PluginOf(a)] = a]
    /\ Becomes(a, [NewBox EXCEPT !.child = TRUE, !.proc = "booting"])
    /\ act' = [act EXCEPT ![a].at = "starting"]
    /\ loop' = None
    /\ UNCHANGED <<Discovery, life, calls, Effects, stop>>

\* Mutant: the health step is skipped.
ServeUnchecked(l) == Advanced(Advanced(l, "initialized"), "serving")
Serve(l) == Advanced(Advanced(Advanced(l, "initialized"), "healthy"), "serving")

\* The ready frame is read: whatever became of the lifecycle meanwhile, activate()
\* advances it and returns ok.
ReadReady(a) ==
    /\ Idle /\ box[a].hello
    /\ Becomes(a, [box[a] EXCEPT !.hello = FALSE])
    /\ IF act[a].at = "starting"
       THEN /\ life' = [life EXCEPT ![PluginOf(a)] = Serve(@)]
            /\ act' = [act EXCEPT ![a].at = "ok"]
       ELSE UNCHANGED <<life, act>>
    /\ UNCHANGED <<Discovery, executor, loop, calls, Effects, stop>>

StartOverdue(a) == act[a].at = "starting"

\* withTimeout: start() rejects; the child it spawned is left as it is.
StartTimeout(a) ==
    /\ Idle /\ StartOverdue(a) /\ Abort(a)
    /\ UNCHANGED Quiet

\* The runtime cannot be spawned: an error event, and no exit event ever.
SpawnFails(a) ==
    /\ Idle /\ act[a].at = "starting" /\ box[a].proc = "booting" /\ ~box[a].kill
    /\ Abort(a)
    /\ Becomes(a, [box[a] EXCEPT !.proc = "dead", !.exit = TRUE])
    /\ UNCHANGED <<Discovery, executor, calls, Effects, stop>>

-----------------------------------------------------------------------------
(* The child process *)

Alive(e) == box[e].proc \in {"booting", "up"}
ChildOnly == <<Discovery, life, executor, loop, act, calls, stop>>

ChildReady(e) ==
    /\ box[e].proc = "booting"
    /\ Becomes(e, [box[e] EXCEPT !.proc = "up", !.hello = TRUE])
    /\ UNCHANGED <<ChildOnly, Effects>>

ChildReplies(e, c) ==
    /\ box[e].proc = "up" /\ c \in box[e].work
    /\ Becomes(e, [box[e] EXCEPT !.work = @ \ {c}, !.replies = @ \cup {c}])
    /\ UNCHANGED <<ChildOnly, Effects>>

\* While the plugin is imported, while it handles a call and long after it answered.
ChildAsks(e, cap) ==
    /\ Alive(e) /\ cap \notin asks[e] \cup fetching[e]
    /\ asks' = [asks EXCEPT ![e] = @ \cup {cap}]
    /\ UNCHANGED <<ChildOnly, box, fetching>>

\* The process ends: a crash, an early process.exit, or a signal.
ChildDies(e) ==
    /\ Alive(e)
    /\ Becomes(e, [box[e] EXCEPT !.proc = "dead", !.work = {}])
    /\ UNCHANGED <<ChildOnly, Effects>>

-----------------------------------------------------------------------------
(* call() *)

\* Mutant: the answer is given but the call goes on waiting.
AnsweredHalf(c, answer) == [c EXCEPT !.answer = answer]
Answered(c, answer) == [c EXCEPT !.st = "answered", !.answer = answer]

\* failAllPending: every pending call of the executor answers CALL_FAILED.
FailPending(e) == [c \in Calls |-> IF c \in box[e].pending
                                   THEN Answered(calls[c], "CALL_FAILED") ELSE calls[c]]

\* Dispatch is refused unless the plugin is serving and its executor has a child.
Refusal(n) ==
    IF ~IsServing(life[n]) \/ executor[n] = None THEN "PLUGIN_NOT_SERVING"
    ELSE IF ~box[executor[n]].child THEN "SANDBOX_NOT_RUNNING" ELSE None

Refuse(c, n) ==
    /\ Idle /\ calls[c].st = "idle" /\ Refusal(n) # None
    /\ calls' = [calls EXCEPT ![c] = Answered(@, Refusal(n))]
    /\ UNCHANGED <<Discovery, life, executor, loop, act, box, Effects, stop>>

\* The call frame is written, to whatever is at the other end of the pipe.
Send(c, n) ==
    /\ Idle /\ calls[c].st = "idle" /\ Refusal(n) = None
    /\ LET e == executor[n] IN
       /\ calls' = [calls EXCEPT ![c] = [st |-> "waiting", to |-> e, answer |-> None]]
       /\ Becomes(e, [box[e] EXCEPT !.pending = @ \cup {c},
                                  !.work = IF Alive(e) THEN @ \cup {c} ELSE @])
    /\ UNCHANGED <<Discovery, life, executor, loop, act, Effects, stop>>

\* Mutant: a late answer is delivered although its call is no longer pending.
TakesAny(e, c) == TRUE
Takes(e, c) == c \in box[e].pending

\* onFrame: a result or an error settles its pending call; a late one is dropped.
ReadReply(e, c) ==
    /\ Idle /\ c \in box[e].replies
    /\ Becomes(e, [box[e] EXCEPT !.replies = @ \ {c}, !.pending = @ \ {c}])
    /\ \E answer \in {"value", "error"} :
          calls' = IF Takes(e, c) THEN [calls EXCEPT ![c] = Answered(@, answer)] ELSE calls
    /\ UNCHANGED <<Discovery, life, executor, loop, act, Effects, stop>>

\* Mutant: the timed-out call stays pending.
KeepsPending(s, c) == s
Drops(s, c) == s \ {c}

\* The per-call timer: give up on the call and kill the child, if still held.
CallTimeout(e, c) ==
    /\ Idle /\ c \in box[e].pending /\ calls[c].st = "waiting"
    /\ Becomes(e, [box[e] EXCEPT !.pending = Drops(@, c), !.kill = @ \/ box[e].child])
    /\ calls' = [calls EXCEPT ![c] = Answered(@, "CALL_TIMEOUT")]
    /\ UNCHANGED <<Discovery, life, executor, loop, act, Effects, stop>>

-----------------------------------------------------------------------------
(* Effects: the mediation point *)

\* authorizeCapabilities: granted by the operator AND declared by the plugin.
Grants(n) == Declared[n] \cap Operator[n]

\* mediate(): refused or read at once, or fetched; containment of the path and of the
\* host name is a choice.  The child need not be there any more.
Mediate(e, cap) ==
    /\ Idle /\ cap \in asks[e]
    /\ asks' = [asks EXCEPT ![e] = @ \ {cap}]
    /\ \/ UNCHANGED fetching
       \/ /\ cap \in Grants(PluginOf(e)) \cap Network
          /\ fetching' = [fetching EXCEPT ![e] = @ \cup {cap}]
    /\ UNCHANGED <<ChildOnly, box>>

\* The fetcher settles, however long after the request.
FetchSettles(e, cap) ==
    /\ Idle /\ cap \in fetching[e]
    /\ fetching' = [fetching EXCEPT ![e] = @ \ {cap}]
    /\ UNCHANGED <<ChildOnly, box, asks>>

-----------------------------------------------------------------------------
(* shutdown() *)

Return(s, n) ==
    /\ life' = [life EXCEPT ![n] = Stopped(@)]
    /\ stop' = [stop EXCEPT ![s] = [at |-> "returned", plugin |-> n, child |-> None]]

\* SandboxExecutor.shutdown: forget the child, fail its calls, ask it to go.
StopExecutor(s, n) ==
    LET e == executor[n] IN
    IF e = None THEN Return(s, n) /\ UNCHANGED <<box, calls>>
    ELSE /\ calls' = FailPending(e)
         /\ Becomes(e, [box[e] EXCEPT !.child = FALSE, !.pending = {}])
         /\ IF box[e].child
            THEN /\ stop' = [stop EXCEPT ![s] = [at |-> "stopping", plugin |-> n, child |-> e]]
                 /\ UNCHANGED life
            ELSE Return(s, n)

\* A plugin that is not serving is stopped at once ...
Shutdown(s, n) ==
    /\ Idle /\ stop[s].at = "idle" /\ Known(n) /\ ~IsServing(life[n])
    /\ StopExecutor(s, n)
    /\ UNCHANGED <<Discovery, executor, loop, act, Effects>>

\* ... one that serves first leaves `serving`, so that no call is dispatched to it.
Drain(s, n) ==
    /\ Idle /\ stop[s].at = "idle" /\ Known(n) /\ IsServing(life[n])
    /\ life' = [life EXCEPT ![n] = Advanced(@, "draining")]
    /\ stop' = [stop EXCEPT ![s] = [at |-> "draining", plugin |-> n, child |-> None]]
    /\ UNCHANGED <<Discovery, executor, loop, act, box, calls, Effects>>

\* setTimeout(0): draining does not wait for the calls in flight.
Drained(s) ==
    /\ Idle /\ stop[s].at = "draining"
    /\ StopExecutor(s, stop[s].plugin)
    /\ UNCHANGED <<Discovery, executor, loop, act, Effects>>

\* Mutant: after 200 ms shutdown() gives up without a SIGKILL.
Leaves(e) == FALSE
Kills(e) == TRUE

\* Mutant: only an exit ends the wait.
NeverOverdue(s) == FALSE
StopOverdue(s) == stop[s].at = "stopping"

StopTimer(s) ==
    /\ Idle /\ StopOverdue(s)
    /\ LET e == stop[s].child IN Becomes(e, [box[e] EXCEPT !.kill = Kills(e)])
    /\ Return(s, stop[s].plugin)
    /\ UNCHANGED <<Discovery, executor, loop, act, calls, Effects>>

\* The exit event: pending calls fail, a start() still waiting rejects, a
\* shutdown() waiting for it returns, ahead of the activation.
Exit(e) ==
    /\ Idle /\ box[e].proc = "dead" /\ ~box[e].exit
    /\ Becomes(e, [box[e] EXCEPT !.exit = TRUE, !.pending = {}])
    /\ calls' = FailPending(e)
    /\ LET n       == PluginOf(e)
           waiting == {s \in Shutdowns : stop[s].at = "stopping" /\ stop[s].child = e}
           stopped == IF waiting = {} THEN life[n] ELSE Stopped(life[n])
       IN /\ act' = IF act[e].at = "starting" THEN [act EXCEPT ![e].at = "refused"] ELSE act
          /\ life' = [life EXCEPT ![n] = IF act[e].at = "starting"
                                         THEN Failed(stopped) ELSE stopped]
          /\ stop' = [s \in Shutdowns |-> IF s \in waiting
                        THEN [at |-> "returned", plugin |-> n, child |-> None] ELSE stop[s]]
    /\ UNCHANGED <<Discovery, executor, loop, Effects>>

-----------------------------------------------------------------------------
(* Specification *)

Gates(a) == \/ VerifySignature(a) \/ ResolveDependencies(a)
            \/ AuthorizeCapabilities(a) \/ ModeUnsupported(a) \/ Start(a)

Child(e) == \/ ChildReady(e) \/ ChildDies(e)
            \/ \E c \in Calls : ChildReplies(e, c)
            \/ \E cap \in Requests : ChildAsks(e, cap)

Event(e) == \/ ReadReady(e) \/ StartTimeout(e) \/ SpawnFails(e) \/ Exit(e)
            \/ \E c \in Calls : ReadReply(e, c) \/ CallTimeout(e, c)
            \/ \E cap \in Requests : Mediate(e, cap) \/ FetchSettles(e, cap)

Next ==
    \/ \E d \in Dirs : Admit(d)
    \/ \E a \in Activations, n \in Plugins : Activate(a, n) \/ ActivateUnknown(a, n)
    \/ \E a \in Activations : Gates(a) \/ Child(a) \/ Event(a)
    \/ \E c \in Calls, n \in Plugins : Refuse(c, n) \/ Send(c, n)
    \/ \E s \in Shutdowns, n \in Plugins : Shutdown(s, n) \/ Drain(s, n)
    \/ \E s \in Shutdowns : Drained(s) \/ StopTimer(s)

Spec == Init /\ [][Next]_vars

\* The event loop runs its timers and its synchronous code, and SIGKILL kills.
\* Nothing is assumed of the child: neither a frame, nor an exit, is ever owed.
Fairness ==
    /\ \A a \in Activations : WF_vars(Gates(a)) /\ WF_vars(StartTimeout(a))
    /\ \A e \in Activations, c \in Calls : WF_vars(CallTimeout(e, c))
    /\ \A e \in Activations : WF_vars(box[e].kill /\ ChildDies(e))
    /\ \A s \in Shutdowns : WF_vars(Drained(s)) /\ WF_vars(StopTimer(s))

LiveSpec == Spec /\ Fairness

-----------------------------------------------------------------------------
(* Properties *)

TypeOK ==
    /\ registry \in [Plugins -> [Versions -> Digests \cup {None}]]
    /\ record \in [Plugins -> Dirs \cup {None}]
    /\ life \in [Plugins -> Lifecycle]
    /\ executor \in [Plugins -> Activations \cup {None}]
    /\ loop \in Activations \cup {None}
    /\ act \in [Activations -> ActType]
    /\ box \in [Activations -> Box]
    /\ calls \in [Calls -> CallType]
    /\ asks \in [Activations -> SUBSET Requests]
    /\ fetching \in [Activations -> SUBSET Requests]
    /\ stop \in [Shutdowns -> StopType]

\* A record is the one directory whose digest its version is registered with, and
\* the bytes of a version never change: a second digest is refused, not recorded.
RecordIsRegistered ==
    \A n \in Plugins : Known(n) =>
        record[n].name = n /\ registry[n][record[n].version] = record[n].digest

\* The history of every plugin is a path of the declared lifecycle, whatever calls
\* race: no step is skipped, nothing follows stopped, failed leads to stopped only.
Histories == \A n \in Plugins : IsHistory(life[n])

\* A call waits exactly while its executor holds a pending entry, that is a timer,
\* for it: nobody waits for an answer no event can bring, and no timer outlives it.
PendingExact ==
    \A c \in Calls, e \in Activations :
        c \in box[e].pending <=> calls[c].st = "waiting" /\ calls[c].to = e

Awaited(e)  == \E s \in Shutdowns : stop[s].at = "stopping" /\ stop[s].child = e
Replaced(e) == \E a \in Activations : a # e /\ PluginOf(a) = PluginOf(e)

\* No process is left to itself: one that lives is the child of the executor its plugin's record
\* points to, where shutdown() finds it, or it was sent SIGKILL, or a shutdown() is waiting for its exit
\* and will send one; only a second activation of the plugin loses sight of it.
NoneAdrift ==
    \A e \in Activations : Alive(e) =>
        \/ box[e].child /\ (executor[PluginOf(e)] = e \/ Replaced(e))
        \/ box[e].kill \/ Awaited(e)

\* An answer is final: a late frame, a timer or an exit never changes it.
AnswerIsFinal ==
    [][\A c \in Calls : calls[c].st = "answered" => calls'[c] = calls[c]]_vars

\* The plugin was not stopped before it was first activated, nor activated twice.
Straight(n) == /\ \A a, b \in Activations : PluginOf(a) = n /\ PluginOf(b) = n => a = b
               /\ Len(life[n].log) > 1 => life[n].log[2] # "stopped"

\* Plugin code is started for a plugin whose lifecycle stands at `authorized` (it takes a second
\* activation, or one after a shutdown, to start any other), and activate() that answers ok has brought
\* its plugin to serving, unless a shutdown or another activation of the plugin has come between.
LaunchIsAuthorized(a) ==
    act[a].at = "create" /\ act'[a].at = "starting" /\ Straight(PluginOf(a)) => life[PluginOf(a)].state = "authorized"
OkMeansServing(a) ==
    act[a].at = "starting" /\ act'[a].at = "ok" =>
        \/ IsServing(life'[PluginOf(a)]) \/ ~Straight(PluginOf(a))
        \/ \E s \in Shutdowns : stop[s].plugin = PluginOf(a)
ActivationsAreSound == [][\A a \in Activations : LaunchIsAuthorized(a) /\ OkMeansServing(a)]_vars

\* Whatever is begun returns: a call, by the plugin, its exit, the host's shutdown or its timer; an
\* activate(), also of a child that never says ready; a shutdown(), also of one that ignores SIGTERM or
\* is long gone.
NobodyWaitsForEver ==
    /\ \A c \in Calls : calls[c].st = "waiting" ~> calls[c].st = "answered"
    /\ \A a \in Activations : act[a].at # "idle" ~> act[a].at \in {"ok", "refused"}
    /\ \A s \in Shutdowns : stop[s].at # "idle" ~> stop[s].at = "returned"

Released(n) == \A e \in Activations : PluginOf(e) = n => ~Alive(e)

\* A stopped plugin that was activated once comes to have no process, and keeps none.
StoppedReleases ==
    \A n \in Plugins : life[n].state = "stopped" ~> [](Straight(n) => Released(n))

\* The same of every plugin, however often it was activated.
ShutdownReleases == \A n \in Plugins : life[n].state = "stopped" ~> []Released(n)
=============================================================================

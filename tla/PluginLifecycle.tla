-------------------------- MODULE PluginLifecycle --------------------------
(***************************************************************************)
(* packages/plugin-host/src/lifecycle.ts: the lifecycle of one plugin as a *)
(* value [state, log] and its methods as operators on that value.  Every   *)
(* method that refuses returns the lifecycle it was given; the host drops  *)
(* the refusal, so the value is all that matters.                          *)
(***************************************************************************)
EXTENDS Naturals, Sequences

Chain == <<"discovered", "verified", "dependencies-resolved", "authorized",
           "initialized", "healthy", "serving", "draining", "stopped">>
TerminalStates == {"stopped", "failed"}
LifecycleState == {Chain[i] : i \in 1..9} \cup {"failed"}
Lifecycle      == [state : LifecycleState, log : Seq(LifecycleState)]

\* NEXT: the one legal successor of each state.
NextState == {<<Chain[i], Chain[i + 1]>> : i \in 1..8}

NewLifecycle == [state |-> "discovered", log |-> <<"discovered">>]
IsServing(l) == l.state = "serving"
Enter1(l, s) == [state |-> s, log |-> Append(l.log, s)]

\* Mutant: advance() checks neither that the state is live nor the order.
AdvancedAnyhow(l, to) == Enter1(l, to)

Advanced(l, to) ==
    IF l.state \notin TerminalStates /\ <<l.state, to>> \in NextState
    THEN Enter1(l, to) ELSE l

\* advanceTo(): the states from the current one up to the target; a target that
\* is not ahead is only refused once the walk has run off the end of the chain.
AdvancedTo(l, target) ==
    LET here  == CHOOSE i \in 1..9 : Chain[i] = l.state
        ahead == {j \in here..9 : Chain[j] = target}
        stop  == IF ahead = {} THEN 9 ELSE CHOOSE j \in ahead : TRUE
    IN IF l.state = "failed" THEN l
       ELSE [state |-> Chain[stop], log |-> l.log \o SubSeq(Chain, here + 1, stop)]

Failed(l) == IF l.state \in TerminalStates THEN l ELSE Enter1(l, "failed")

Stopped(l) == IF l.state = "stopped" THEN l ELSE Enter1(l, "stopped")

\* The history is a path of the declared chain that may leave it to "failed" from
\* a live state, and to "stopped" from any.
IsHistory(l) ==
    /\ Len(l.log) > 0 /\ l.log[1] = "discovered" /\ l.log[Len(l.log)] = l.state
    /\ \A i \in 1..Len(l.log) - 1 :
          \/ <<l.log[i], l.log[i + 1]>> \in NextState
          \/ l.log[i] \notin TerminalStates /\ l.log[i + 1] = "failed"
          \/ l.log[i] # "stopped" /\ l.log[i + 1] = "stopped"
=============================================================================

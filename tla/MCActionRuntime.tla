-------------------------- MODULE MCActionRuntime --------------------------
(***************************************************************************)
(* Instances of ActionRuntime for TLC.  One run checks several scenes: the *)
(* scene is chosen at the start and bounds who may do what, so that each   *)
(* mixes the hazards that meet and the whole stays small.                  *)
(***************************************************************************)
EXTENDS ActionRuntime, FiniteSets, TLC

CONSTANTS p1, p2, s1, s2,
          Scenes   \* the scenes a run checks

VARIABLE scene

OneStore  == [p \in Proc |-> s1]

Plain   == PlanFor(<< >>, "none", 1, FALSE, FALSE)
Retried == PlanFor(<< >>, "none", 2, TRUE, TRUE)
Human   == PlanFor(<< >>, "human", 1, FALSE, FALSE)
Policed == PlanFor(<<"capability", "precondition">>, "policy", 2, TRUE, FALSE)
Untimed == [Plain EXCEPT !.nodes = <<"policy", "invoke", "emit">>]
\* A planner that adds a policy gate in front of the approval, and a retry.
Gated   == [Human EXCEPT !.nodes = <<"authorize", "policy", "approval", "invoke", "emit">>,
                         !.max = 2, !.idem = TRUE]

\* What a planner may hand back instead of the derived plan.
NoEmit      == [Plain EXCEPT !.nodes = <<"validate", "authorize", "invoke", "output">>]
OnlyChecks  == [Plain EXCEPT !.nodes = <<"validate", "authorize">>]
WithGap     == [Plain EXCEPT !.nodes = <<"validate", "gap", "invoke", "output", "emit">>]
BadRetry    == [Plain EXCEPT !.max = 2]
NoBudget    == [Plain EXCEPT !.max = 0]
OutputFirst == [Plain EXCEPT !.nodes = <<"validate", "output", "invoke", "emit">>]
TwoApprovals ==
    [Human EXCEPT !.nodes = <<"validate", "approval", "invoke", "approval", "emit">>]

DerivedPlans == {Plain, Retried, Human, Policed}
PlannerPlans == DerivedPlans \cup {NoEmit, OnlyChecks, WithGap, BadRetry, NoBudget, OutputFirst}
AllPlans     == PlannerPlans \cup {Gated, TwoApprovals, Untimed}

\* race: two processes and three calls for one key.  approve: a suspended run is approved
\* in one process, which may crash and try again.  plans: one process, dry runs and what
\* a planner may hand back.  both: either process is told to approve.  twice: a plan that
\* waits for approval at two nodes.  live: what a fair loop must bring to an end.
PlansOf == [race |-> {Plain}, approve |-> {Gated}, plans |-> PlannerPlans,
            both |-> {Human}, twice |-> {TwoApprovals}, live |-> {Retried, Untimed}]
ProcsOf == [race |-> {p1, p2}, approve |-> {p1, p2}, plans |-> {p1},
            both |-> {p1, p2}, twice |-> {p1}, live |-> {p1, p2}]
ApproversOf == [race |-> {}, approve |-> {p2}, plans |-> {p1},
                both |-> {p1, p2}, twice |-> {p1}, live |-> {}]
CallsOf == [race |-> 3, approve |-> 2, plans |-> 2, both |-> 2, twice |-> 2, live |-> 2]
DryOf   == [race |-> {FALSE}, approve |-> {FALSE}, plans |-> BOOLEAN,
            both |-> {FALSE}, twice |-> {FALSE}, live |-> {FALSE}]
CrashesOf == [race |-> 0, approve |-> 1, plans |-> 0, both |-> 0, twice |-> 0, live |-> 0]

SceneInit == Init /\ scene \in Scenes

Called == {c \in Callers : call[c].st # "idle"}
Calls  == \E c \in Callers, p \in ProcsOf[scene], k \in Keys, i \in Inputs :
             /\ Cardinality(Called) < CallsOf[scene]
             /\ \/ ExecuteKnown(c, p, k, i)
                \/ ExecuteShared(c, p, k, i)
                \/ \E dry \in DryOf[scene], r \in RunIds, plan \in PlansOf[scene] :
                       ExecuteNew(c, p, k, i, dry, r, plan)

SceneNext ==
    /\ \/ Calls
       \/ \E p \in ProcsOf[scene], r \in RunIds : Segment(p, r) \/ Resolution(p, r)
       \/ \E p \in ApproversOf[scene], r \in RunIds : Approve(p, r)
       \/ \E p \in ProcsOf[scene] : crashes < CrashesOf[scene] /\ Crash(p)
    /\ UNCHANGED scene

SceneSpec     == SceneInit /\ [][SceneNext]_<<vars, scene>>
FairSceneSpec == SceneSpec /\ Fairness

Symmetry == Permutations(Callers) \cup Permutations(RunIds) \cup Permutations(Inputs)
=============================================================================

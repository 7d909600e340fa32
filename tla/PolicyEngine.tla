---------------------------- MODULE PolicyEngine -----------------------------
(* policy-engine: the sets of rules of a directory are loaded, all of them or none, the one a request *)
(* claims is selected, and it decides on the action: a deny that matches wins, then an allow, then    *)
(* what the set says of a request no rule matches.                                                    *)
EXTENDS Integers, SequencesExt

CONSTANTS
    Unsaid,
    PolicyInquiries \* sets of what is asked: a directory, the claim of the request, its context, an action of a model

VARIABLES
    inquiry,   \* the directory and the request
    progress,  \* "load", "select", "decide", then "done" or "failed"
    ruling     \* what was loaded, selected, decided, and what is wrong

policyVars == <<inquiry, progress, ruling>>

-----------------------------------------------------------------------------
\* PolicySetSchema: a rule constrains some axes, each to a set of values that is not empty; only the
\* axes of the scope know the empty name, and those of governance only what an action may declare.
ScopeAxes == {"tenants", "workspaces"}
Declarable ==
    [sideEffects |-> {"none", "read", "write"}, idempotency |-> {"idempotent", "non-idempotent", "unknown"},
     approval |-> {"never", "always", "conditional"}]
IsMatch(match) ==
    \A axis \in DOMAIN match \ {"requiresDeclaredCapabilities"} :
        /\ match[axis] # {} /\ (axis \in ScopeAxes \/ "" \notin match[axis])
        /\ axis \in DOMAIN Declarable => match[axis] \subseteq Declarable[axis]
Effects == {"allow", "deny"}
IsPolicySet(set) ==
    /\ set.name # "" /\ set.default \in Effects
    /\ \A rule \in ToSet(set.rules) : rule.id # "" /\ rule.effect \in Effects /\ IsMatch(rule.match)

\* loadPolicySets, in the order of the file names. A file that is a link is followed.
DoubledRules(rules) == {i \in DOMAIN rules : \E j \in 1..(i - 1) : rules[j].id = rules[i].id}
FileFaults(file) ==
    IF file.lies # "inside" THEN {IF file.lies = "outside" THEN "PATH_OUTSIDE_ROOT" ELSE "POLICY_FILE_INVALID"}
    ELSE IF ~file.parses THEN {"YAML_PARSE_ERROR"}
    ELSE IF ~IsPolicySet(file.set) THEN {"INVALID_POLICY_SET"}
    ELSE {"DUPLICATE_POLICY_RULE" : i \in DoubledRules(file.set.rules)}
Readable(files) == {i \in DOMAIN files : files[i].lies = "inside" /\ files[i].parses /\ IsPolicySet(files[i].set)}
\* The sets that can be read, in the order of their files.
SetsIn(files) ==
    [k \in 1..Cardinality(Readable(files)) |->
        files[CHOOSE i \in Readable(files) : Cardinality({j \in Readable(files) : j < i}) = k - 1].set]
DoubledSets(sets) == {i \in DOMAIN sets : \E j \in 1..(i - 1) : sets[j].name = sets[i].name}
LoadFaults(root) ==
    IF ~root.there THEN {"POLICY_ROOT_INVALID"}
    ELSE IF root.files = << >> THEN {"POLICY_SET_NOT_FOUND"}
    ELSE (UNION {FileFaults(file) : file \in ToSet(root.files)})
         \cup {"DUPLICATE_POLICY_SET" : i \in DoubledSets(SetsIn(root.files))}

\* selectPolicySet: no claim selects the only set, if it is the only one.
Earliest(places) == CHOOSE i \in places : \A j \in places : i <= j
Unclaimed(claim) == claim \in {Unsaid, ""}
SelectPolicySet(sets, claim) ==
    LET named == {i \in DOMAIN sets : IF Unclaimed(claim) THEN Len(sets) = 1 ELSE sets[i].name = claim}
    IN IF named = {} THEN Unsaid ELSE sets[Earliest(named)]

\* validatePolicySet: names the model does not have.
DanglingActions(set, model) ==
    {rule \in ToSet(set.rules) : "actions" \in DOMAIN rule.match /\ ~(rule.match["actions"] \subseteq {a.name : a \in model})}
Capabilities(match) == UNION {match[axis] : axis \in DOMAIN match \cap {"anyCapability", "allCapabilities"}}
ValidatePolicySet(set, model) ==
    {"DANGLING_ACTION_REF" : rule \in DanglingActions(set, model)}
    \cup {"DANGLING_CAPABILITY_REF" : rule \in {r \in ToSet(set.rules) : ~(Capabilities(r.match) \subseteq UNION {a.capabilities : a \in model})}}

-----------------------------------------------------------------------------
\* What a request presents on an axis with one value, and what its principal holds.
Presented(action, context) ==
    [actions |-> action.name, sideEffects |-> action.sideEffects, idempotency |-> action.idempotency, approval |-> action.approval,
     principals |-> context.principal, tenants |-> IF context.tenant = Unsaid THEN "" ELSE context.tenant,
     workspaces |-> IF context.workspace = Unsaid THEN "" ELSE context.workspace]
AxisMatches(axis, admitted, action, context) ==
    CASE axis = "anyRole" -> admitted \cap context.roles # {}
      [] axis = "allRoles" -> admitted \subseteq context.roles
      [] axis = "anyCapability" -> admitted \cap context.allowedCapabilities # {}
      [] axis = "allCapabilities" -> admitted \subseteq context.allowedCapabilities
      [] axis = "requiresDeclaredCapabilities" -> admitted => action.capabilities \subseteq context.allowedCapabilities
      [] OTHER -> Presented(action, context)[axis] \in admitted
Matches(match, action, context) == \A axis \in DOMAIN match : AxisMatches(axis, match[axis], action, context)

\* explain: the first deny that matches, else the first rule that does. An axis that is declared but
\* does not constrain leaves no evidence.
Decision(allowed, by, evidence) == [allowed |-> allowed, by |-> by, evidence |-> evidence]
\* A bug: the first rule that matches decides, whatever its effect.
FirstMatching(rules, matching) == rules[Earliest(matching)]
Decisive(rules, matching) ==
    LET denying == {i \in matching : rules[i].effect = "deny"} IN rules[Earliest(IF denying = {} THEN matching ELSE denying)]
Evident(match) == {axis \in DOMAIN match : axis = "requiresDeclaredCapabilities" => match[axis]}
By(rule, unbound) == Decision(rule.effect = "allow", rule.id, unbound \cup Evident(rule.match))
Decided(set, matching, unbound) ==
    IF matching = {} THEN Decision(set.default = "allow", "default", unbound)
    ELSE By(Decisive(set.rules, matching), unbound)
Explain(set, claim, action, context) ==
    IF ~Unclaimed(claim) /\ claim # set.name THEN Decision(FALSE, "mismatch", {"policy-ref-claimed"})
    ELSE Decided(set, {i \in DOMAIN set.rules : Matches(set.rules[i].match, action, context)},
                 IF Unclaimed(claim) THEN {"policy-ref-unbound"} ELSE {})

-----------------------------------------------------------------------------
Ruling(sets, set, decision, faults) == [sets |-> sets, set |-> set, decision |-> decision, faults |-> faults]
PolicyInit == (\E some \in PolicyInquiries : inquiry \in some) /\ progress = "load" /\ ruling = Ruling(<< >>, Unsaid, Unsaid, {})

LoadPolicySets ==
    /\ progress = "load" /\ UNCHANGED inquiry
    /\ IF LoadFaults(inquiry.directory) # {}
       THEN progress' = "failed" /\ ruling' = Ruling(<< >>, Unsaid, Unsaid, LoadFaults(inquiry.directory))
       ELSE progress' = "select" /\ ruling' = Ruling(SetsIn(inquiry.directory.files), Unsaid, Unsaid, {})

\* The host may hold a request to the set it names, or to the one it has in use.
Named(asked) == IF asked.inUse = Unsaid THEN asked.claim ELSE asked.inUse
Bind(set) ==
    IF set = Unsaid THEN progress' = "failed" /\ ruling' = Ruling(ruling.sets, Unsaid, Unsaid, {"no such set"})
    ELSE progress' = "decide" /\ ruling' = Ruling(ruling.sets, set, Unsaid, ValidatePolicySet(set, inquiry.model))
Select == progress = "select" /\ UNCHANGED inquiry /\ Bind(SelectPolicySet(ruling.sets, Named(inquiry)))
Decide ==
    /\ progress = "decide" /\ UNCHANGED inquiry
    /\ progress' = "done"
    /\ ruling' = Ruling(ruling.sets, ruling.set, Explain(ruling.set, inquiry.claim, inquiry.action, inquiry.context), ruling.faults)

PolicyNext == LoadPolicySets \/ Select \/ Decide
PolicySpec == PolicyInit /\ [][PolicyNext]_policyVars

-----------------------------------------------------------------------------
\* What is allowed is allowed by the set that was claimed, whichever order its rules stand in: some rule
\* or the default allows it, and no rule denies it, nor any rule of a set loaded beside it has a say.
Agreeing(set, asked, effect) ==
    {rule \in ToSet(set.rules) : rule.effect = effect /\ Matches(rule.match, asked.action, asked.context)}
Reversed(set) == [name |-> set.name, default |-> set.default, rules |-> Reverse(set.rules)]
IsLawful(decision, set, asked) ==
    /\ decision.allowed <=> /\ Unclaimed(asked.claim) \/ asked.claim = set.name
                            /\ Agreeing(set, asked, "deny") = {}
                            /\ Agreeing(set, asked, "allow") # {} \/ set.default = "allow"
    /\ Explain(Reversed(set), asked.claim, asked.action, asked.context).allowed = decision.allowed
\* A decision names what it rests on: a rule with its effect, with all that rule says of the request; the
\* default, of a request on which no rule agrees; or a claim to another set.
RestsOn(decision, set, asked) ==
    \/ decision.by = "mismatch" /\ ~Unclaimed(asked.claim) /\ asked.claim # set.name
    \/ decision.by = "default" /\ Agreeing(set, asked, "deny") = {} /\ Agreeing(set, asked, "allow") = {}
    \/ \E rule \in Agreeing(set, asked, IF decision.allowed THEN "allow" ELSE "deny") :
          rule.id = decision.by /\ Evident(rule.match) \subseteq decision.evidence
\* The set that decides was loaded, and is the only one or the one the host or the request names.
IsBound(set, sets, asked) ==
    /\ set \in ToSet(sets)
    /\ IF Unclaimed(Named(asked)) THEN Len(sets) = 1 ELSE set.name = Named(asked)
\* One fault in one file of the directory and no set of it is used.
AllOrNothing(root, sets) ==
    /\ Len(sets) = Len(root.files) /\ \A i \in DOMAIN sets : sets[i] = root.files[i].set
    /\ \A i, j \in DOMAIN sets : sets[i].name = sets[j].name => i = j

DecisionIsLawful ==
    /\ progress = "done" => /\ IsLawful(ruling.decision, ruling.set, inquiry)
                            /\ RestsOn(ruling.decision, ruling.set, inquiry)
                            /\ IsBound(ruling.set, ruling.sets, inquiry)
    /\ ruling.sets # << >> => AllOrNothing(inquiry.directory, ruling.sets)
    /\ progress = "failed" => ruling.decision = Unsaid
\* What that takes of what is asked: files and rules are sequences.
WellRequested ==
    \A some \in PolicyInquiries : \A asked \in some :
        LET files == asked.directory.files
        IN files \in Seq(ToSet(files)) /\ \A file \in ToSet(files) : file.set.rules \in Seq(ToSet(file.set.rules))
=============================================================================

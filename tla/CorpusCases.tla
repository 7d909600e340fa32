------------------------------ MODULE CorpusCases ------------------------------
(* What the small instances of the finalizer, of the corpus package, of the reconciler, of the policy *)
(* engine and of the evaluation engine are given.                                                     *)
EXTENDS Integers, Sequences, TLC

CONSTANT None

\* Versions: releases around the bounds of the ranges, a prerelease below and above one, and two builds.
V(major, minor, patch) == [numbers |-> <<major, minor, patch>>, pre |-> << >>, build |-> ""]
Pre(major, minor, patch, pre) == [V(major, minor, patch) EXCEPT !.pre = pre]
Offers ==
    {<<V(1, 2, 3), V(2, 0, 0), V(1, 2, 0), V(1, 10, 0), V(0, 2, 9), V(1, 3, 0)>>,
     <<V(0, 0, 3), V(0, 1, 0), V(0, 0, 4), V(0, 2, 0), V(1, 0, 0), V(0, 0, 0)>>,
     <<Pre(2, 0, 0, <<<<1, 2>>, <<0, 1>>>>), Pre(1, 2, 3, <<<<1, 1>>>>), V(1, 2, 3), [V(1, 2, 3) EXCEPT !.build = "b"],
       Pre(1, 2, 3, <<<<1, 1>>, <<0, 2>>>>), Pre(1, 2, 3, <<<<0, 7>>>>)>>,
     << >>}
Written(operator, numbers) == [operator |-> operator, numbers |-> numbers, pre |-> << >>]
WrittenPre(operator, numbers) == [Written(operator, numbers) EXCEPT !.pre = <<<<1, 1>>>>]
AllOf(written) == [form |-> "all", of |-> written]
Operators == {"", "=", "^", "~", ">", ">=", "<", "<="}
SomeNumbers == {<<1, 2, 3>>, <<1, 2>>, <<1>>, <<0, 2>>, <<0, 0, 3>>, <<0, 0>>, <<0>>, <<1, -1, 3>>}
Ranges ==
    {<<AllOf(<<Written(operator, numbers)>>)>> : operator \in Operators, numbers \in SomeNumbers}
    \cup {<<[form |-> "any", of |-> << >>]>>, <<AllOf(<<Written("^", << >>)>>)>>, <<AllOf(<< >>)>>, << >>,
          <<AllOf(<<Written(">=", <<1, 2>>), Written("<", <<2>>)>>), AllOf(<<Written("~", <<0, 2, 9>>)>>)>>,
          <<[form |-> "hyphen", of |-> <<Written("", <<1, 2>>), Written("", <<1, 2, 3>>)>>]>>,
          <<[form |-> "hyphen", of |-> <<Written("", <<0, 0, 3>>), Written("", <<1>>)>>]>>,
          <<AllOf(<<Written("=", <<-1>>)>>)>>, <<AllOf(<<Written("^", <<-1>>)>>)>>, <<AllOf(<<Written("<=", <<-1>>)>>)>>}
    \cup {<<AllOf(<<WrittenPre(operator, numbers)>>)>> : operator \in Operators, numbers \in {<<1, 2, 3>>, <<2, 0, 0>>, <<1, 2>>}}
    \cup {<<AllOf(<<WrittenPre(">", <<1, 2, 3>>), Written("<", <<2>>)>>), AllOf(<<Written("~", <<1, 2>>)>>)>>,
          <<[form |-> "hyphen", of |-> <<Written("", <<1, 2>>), WrittenPre("", <<2, 0, 0>>)>>]>>,
          <<[form |-> "hyphen", of |-> <<WrittenPre("", <<1, 2, 3>>), Written("", <<-1>>)>>]>>}

\* Licences: four identifiers, one of them with a "+", an exception, and text that is none.
Licences ==
    {<<"MIT">>, <<"GPL">>, <<"GPL+">>, <<"MIT", "AND", "GPL">>, <<"GPL", "AND", "MIT">>, <<"MIT", "OR", "GPL">>,
     <<"GPL", "OR", "MPL", "OR", "GPL">>, <<"MIT", "OR", "GPL", "AND", "MPL">>, <<"(", "MIT", "OR", "GPL", ")", "AND", "MPL">>,
     <<"MIT", "AND", "(", "MPL", "AND", "(", "GPL", "OR", "MIT", ")", ")">>, <<"GPL", "WITH", "classpath">>,
     <<"(", "MIT", ")">>, <<"NOASSERTION">>, <<"MIT", "GPL">>, <<"MIT", "OR">>, <<"(", "MIT">>, <<"see", "site">>, <<"AND">>,
     <<"MIT", "WITH">>, << >>}
Policy(allow, deny, declared, escape) ==
    [allow |-> allow, deny |-> deny, requireDeclared |-> declared, allowDisjunctiveEscape |-> escape]
Policies ==
    {Policy(allow, deny, declared, escape) :
        allow \in {{}, {"MIT", "MPL"}}, deny \in {{}, {"GPL"}}, declared \in BOOLEAN, escape \in BOOLEAN}

-----------------------------------------------------------------------------
\* A sound declaration, and what is changed in it, one thing at a time.
Binding(name, range, required) == [id |-> name, range |-> range, required |-> required]
Source(id, licence, path) == [id |-> id, license |-> licence, path |-> path, counted |-> TRUE]
Asset(id, licence, path, emit) == [id |-> id, license |-> licence, path |-> path, emit |-> emit]
Citation(id, targets) == [id |-> id, appliesTo |-> targets, located |-> TRUE, anchored |-> TRUE, path |-> None]
Published(visibility, channel, signed, publishers) ==
    [visibility |-> visibility, channel |-> channel, requireSignature |-> signed, publishers |-> publishers]
Caret == <<AllOf(<<Written("^", <<1, 2>>)>>)>>
Sound ==
    [models |-> <<Binding("m", Caret, TRUE)>>, sources |-> <<Source("s", <<"MIT">>, "src")>>,
     assets |-> <<Asset("a", <<"MIT">>, "art", TRUE)>>, citations |-> <<Citation("c", {"s"})>>,
     license |-> <<"MIT">>, policy |-> Policy({"MIT", "MPL"}, {"GPL"}, TRUE, FALSE), default |-> "fast", additional |-> {"deep"},
     publication |-> Published("public", "pinned", TRUE, {"p"}), golden |-> <<[id |-> "g", expects |-> TRUE]>>,
     eval |-> None, dist |-> "out", name |-> "corpus"]
Here == [path \in {"src", "art", "out", "gone", "up", "abs", "link", "corpus"} |->
            CASE path = "gone" -> "missing" [] path = "up" -> "outside" [] path = "abs" -> "absolute" [] path = "link" -> "link"
              [] OTHER -> "there"]
Given(declaration, file, offer, profiles) ==
    [declaration |-> declaration, file |-> file, disk |-> Here, available |-> [name \in {"m"} |-> offer], profiles |-> profiles]
Usual(declaration) == Given(declaration, "there", <<V(1, 2, 3)>>, {"fast", "deep"})
Changed ==
    {[Sound EXCEPT !.models = models] :
        models \in {<<Binding("m", Caret, FALSE)>>, <<Binding("m", Caret, TRUE), Binding("m", Caret, FALSE)>>,
                    <<Binding("m", Caret, TRUE), Binding("n", Caret, FALSE)>>, <<Binding("n", Caret, TRUE)>>}}
    \cup {[Sound EXCEPT !.sources = sources] :
             sources \in {<<Source("s", <<"MIT">>, "gone")>>, <<Source("s", <<"MIT">>, "up"), Source("t", <<"MIT">>, "abs")>>,
                          <<Source("s", <<"MIT">>, "link")>>, <<Source("s", <<"MIT">>, None), Source("s", <<"MPL">>, None)>>,
                          <<[Source("s", <<"MPL">>, None) EXCEPT !.counted = FALSE]>>, <<Source("a", <<"MIT">>, None), Source("s", <<"MIT">>, None)>>}}
    \cup {[Sound EXCEPT !.assets = <<Asset("a", <<"MIT">>, "art", first), Asset(id, <<"MPL">>, path, TRUE)>>] :
             first \in BOOLEAN, id \in {"a", "b"}, path \in {"art", "src"}}
    \cup {[Sound EXCEPT !.citations = <<Citation("c", {"s"}), citation>>] :
             citation \in {Citation("c", {"s"}), Citation("d", {"t"}), [Citation("d", {"s"}) EXCEPT !.located = FALSE],
                           [Citation("d", {"s"}) EXCEPT !.anchored = FALSE]}}
    \cup {[Sound EXCEPT !.publication = Published(visibility, channel, signed, publishers)] :
             visibility \in {"private", "public"}, channel \in {"pinned", "latest"}, signed \in BOOLEAN, publishers \in {{}, {"p"}}}
    \cup {[Sound EXCEPT !.additional = {"fast"}], [Sound EXCEPT !.additional = {"odd"}], [Sound EXCEPT !.default = "odd"],
          [Sound EXCEPT !.dist = "corpus"], [Sound EXCEPT !.dist = None], [Sound EXCEPT !.eval = "gone"],
          [Sound EXCEPT !.golden = <<[id |-> "g", expects |-> TRUE], [id |-> "g", expects |-> TRUE]>>],
          [Sound EXCEPT !.golden = <<[id |-> "g", expects |-> FALSE]>>]}
PackageCases ==
    {{Usual(declaration) : declaration \in Changed},
     {Given(Sound, file, <<V(1, 2, 3)>>, profiles) : file \in {"there", "missing", "no yaml"}, profiles \in {None, {"fast", "deep"}, {"fast"}}},
     {Given(Sound, "there", <<[V(1, 2, 3) EXCEPT !.numbers = << >>]>>, None)},
     {Given([Sound EXCEPT !.models = <<Binding("m", range, TRUE)>>], "value", offer, {"fast", "deep"}) : range \in Ranges, offer \in Offers},
     {Usual([Sound EXCEPT !.sources[1].license = licence, !.policy = policy]) : licence \in Licences, policy \in Policies},
     {Given([Sound EXCEPT !.assets[1].license = licence, !.license = <<"MIT", "AND", "MPL">>, !.policy = policy],
            "value", <<V(1, 2, 3)>>, {"fast", "deep"}) : licence \in Licences, policy \in Policies}}

-----------------------------------------------------------------------------
\* Two corpora: legacy units whose slugs, texts, sources or words find one, several or no v3 unit.
Says(text) == [says |-> text, words |-> 4]
Legacy(id, slug) ==
    [reads |-> TRUE, id |-> id, slug |-> slug, module |-> << >>, status |-> "active", supersededBy |-> None, deprecatedAt |-> None,
     named |-> <<[says |-> "short", words |-> 3]>>, prose |-> << >>, repo |-> "", file |-> "", section |-> "", others |-> << >>, urls |-> << >>]
V3(id, slug, head) ==
    [reads |-> TRUE, id |-> id, slug |-> slug, head |-> head, named |-> <<[says |-> "short", words |-> 3]>>, description |-> None,
     repo |-> "", file |-> "", section |-> "", urls |-> << >>]
Page == <<"host", "page">>
LegacyCases ==
    {Legacy("l1", <<"color", "rule">>), Legacy("l2", <<"rules", "of", "color">>), Legacy("l3", <<"check", "color", "rule">>),
     [Legacy("l4", <<"four">>) EXCEPT !.named = <<Says("t1"), Says("t2")>>, !.urls = <<<<"host", "">>, Page>>],
     [Legacy("l5", <<"five">>) EXCEPT !.prose = <<[says |-> "no prose", words |-> 1], Says("t2")>>, !.status = "archived"],
     [Legacy("l6", <<"six">>) EXCEPT !.repo = "r", !.file = "f", !.section = "s", !.urls = <<Page>>, !.deprecatedAt = "then"],
     [Legacy("l7", <<"seven">>) EXCEPT !.others = <<[repo |-> "r", file |-> "f", section |-> ""], [repo |-> "q", file |-> "", section |-> ""]>>,
                                       !.module = <<"mod">>],
     [Legacy("l8", <<"big", "red", "round", "old", "moon">>) EXCEPT !.urls = <<Page>>, !.supersededBy = "other"],
     [Legacy("l9", <<"nine">>) EXCEPT !.repo = "r", !.supersededBy = "other"], [Legacy("l0", <<"ten">>) EXCEPT !.reads = FALSE]}
V3Cases ==
    <<V3("v1", <<"color", "rule">>, << >>), V3("v2", <<"check", "color", "rule">>, <<"check">>),
      [V3("v3", <<"check", "list", "rule", "color">>, <<"check">>) EXCEPT !.named = <<Says("t1")>>, !.urls = <<Page>>],
      [V3("v4", <<"four", "things">>, <<"check", "list">>) EXCEPT !.description = Says("t2"), !.repo = "r", !.file = "f"],
      [V3("v5", <<"big", "red", "round", "old">>, << >>) EXCEPT !.repo = "r", !.file = "f", !.section = "s"],
      V3("v6", <<"big", "red", "round", "old", "new", "moon">>, << >>),
      [V3("v7", <<"seven", "up">>, << >>) EXCEPT !.id = None]>>
Crowd == <<[V3("w1", <<"a1">>, << >>) EXCEPT !.repo = "r", !.file = "f"], [V3("w2", <<"a2">>, << >>) EXCEPT !.repo = "r", !.file = "f"]>>
CompiledCases ==
    <<[reads |-> TRUE, id |-> "v3", kind |-> <<"check", "list">>, description |-> Says("t2")],
      [reads |-> FALSE, id |-> "v1", kind |-> <<"check">>, description |-> None]>>
Fixture(name, hash) == [reads |-> TRUE, id |-> "there", name |-> name, hash |-> hash]
Fixtures == <<Fixture(<<"mod", "seven">>, << >>), Fixture(<<"rule", "color">>, << >>), Fixture(<<"check", "col">>, <<"0123abc">>),
              Fixture(<<"nobody">>, << >>), [Fixture(<<"none">>, << >>) EXCEPT !.id = None]>>
Pick(units, at) == [i \in DOMAIN at |-> units[at[i]]]
CorporaCases ==
    {[legacy |-> legacy, migrated |-> Fixtures, v3 |-> v3, compiled |-> compiled] :
        legacy \in {<<a, b>> : a, b \in LegacyCases},
        v3 \in {V3Cases, Pick(V3Cases, <<3, 4, 5>>), Pick(V3Cases, <<2, 6, 7>>), Pick(V3Cases, <<4, 5>>) \o Crowd},
        compiled \in {<< >>, CompiledCases}}

-----------------------------------------------------------------------------
\* Bundles: entries in and out of order, of other corpora, twice, and a manifest of another protocol.
Order == <<"a", "b", "c", "data", "general", "t">>
Before(x, y) == \E i, j \in DOMAIN Order : Order[i] = x /\ Order[j] = y /\ i < j
Atom(id, domain, tags, deprecated, corpus) ==
    [id |-> id, domain |-> domain, tags |-> tags, deprecated |-> deprecated, corpus |-> corpus, tokens |-> 1]
A == Atom("a", "data", <<"t">>, FALSE, None)
B == Atom("b", "", <<"t">>, FALSE, "org/alpha")
C == Atom("c", "", << >>, FALSE, None)
Old == Atom("b", "data", << >>, TRUE, None)
Manifest(protocol) ==
    [valid |-> TRUE, protocol |-> protocol, ir |-> 2, emitter |-> 4, corpus |-> "org/alpha", release |-> "r1", schema |-> "s1",
     index |-> None, content |-> None]
Request(entries, protocol) == [entries |-> entries, manifest |-> Manifest(protocol)]
SomeRequests ==
    {Request(entries, 2) : entries \in {<<B, A>>, <<C, Old, A>>, <<C, B, [A EXCEPT !.domain = ""]>>}}
    \cup {Request(entries, 2) : entries \in {<< >>, <<A, A>>, <<[A EXCEPT !.tokens = -1]>>, <<[B EXCEPT !.corpus = "org/beta"]>>}}
    \cup {Request(<<A>>, 1)}
SomeContents == {[kind |-> "file", bytes |-> "u1"], [kind |-> "file", bytes |-> "u2"], [kind |-> "link", bytes |-> "u1"]}

-----------------------------------------------------------------------------
\* Policies: a rule on every axis, some on two, one on none.
Rule(id, effect, match) == [id |-> id, effect |-> effect, match |-> match]
Rules ==
    {Rule("any", "allow", << >>), Rule("wipe", "deny", "actions" :> {"wipe"}), Rule("editors", "allow", "anyRole" :> {"editor", "owner"}),
     Rule("both", "deny", "allRoles" :> {"editor", "guest"}), Rule("declared", "allow", "requiresDeclaredCapabilities" :> TRUE @@ "tenants" :> {"", "t"}),
     Rule("outside", "deny", "sideEffects" :> {"write"} @@ "approval" :> {"never"}), Rule("undeclared", "deny", "requiresDeclaredCapabilities" :> FALSE @@ "principals" :> {"ann"}),
     Rule("held", "allow", "anyCapability" :> {"write", "erase"}), Rule("all", "deny", "allCapabilities" :> {"write", "erase"}),
     Rule("once", "allow", "idempotency" :> {"idempotent"} @@ "workspaces" :> {"w"})}
Ruled == {<< >>} \cup {<<one>> : one \in Rules} \cup {<<one, other>> : one \in Rules, other \in Rules}
Set(name, default, rules) == [name |-> name, default |-> default, rules |-> rules]
Action(name, effects, idempotency, approval, capabilities) ==
    [name |-> name, sideEffects |-> effects, idempotency |-> idempotency, approval |-> approval, capabilities |-> capabilities]
Actions == {Action("wipe", "write", "unknown", "never", {"erase"}), Action("save", "read", "idempotent", "never", {"write", "read"})}
Context(principal, roles, capabilities, tenant, workspace) ==
    [principal |-> principal, roles |-> roles, allowedCapabilities |-> capabilities, tenant |-> tenant, workspace |-> workspace]
Contexts == {Context("ann", {"editor", "guest"}, {"erase"}, None, "w"), Context("bob", {"owner"}, {"write", "read"}, "t", None),
             Context("ann", {}, {"write", "erase"}, "u", ""), Context("bob", {"guest"}, {}, "", "w")}
Asking(directory, inUse, claim, action, context) ==
    [directory |-> directory, inUse |-> inUse, claim |-> claim, action |-> action, context |-> context, model |-> Actions]

\* Directories: none, one without a file, one or two files, each lying or holding something else.
Directory(there, files) == [there |-> there, files |-> files]
File(lies, parses, set) == [lies |-> lies, parses |-> parses, set |-> set]
Lawful == Set("sound", "deny", <<Rule("any", "allow", << >>)>>)
Other == Set("other", "allow", <<Rule("wipe", "deny", "actions" :> {"wipe"})>>)
Kept(set) == File("inside", TRUE, set)
Files ==
    {Kept(Lawful), Kept(Other), File("inside", FALSE, Lawful), File("gone", TRUE, Lawful), File("directory", TRUE, Lawful), File("outside", TRUE, Lawful),
     Kept([Other EXCEPT !.default = "maybe"]), Kept([Other EXCEPT !.name = "third", !.rules = <<Rule("any", "deny", << >>), Rule("any", "allow", << >>)>>]),
     Kept(Set("third", "deny", <<Rule("", "allow", << >>)>>)), Kept(Set("third", "deny", <<Rule("none", "allow", "actions" :> {})>>)),
     Kept(Set("third", "deny", <<Rule("empty", "allow", "anyRole" :> {""})>>)), Kept(Set("third", "deny", <<Rule("gone", "allow", "actions" :> {"gone"})>>)),
     Kept(Set("third", "deny", <<Rule("held", "allow", "anyCapability" :> {"gone"})>>)), Kept(Set("third", "deny", <<Rule("often", "deny", "idempotency" :> {"often"})>>))}
Directories == {Directory(FALSE, << >>)} \cup {Directory(TRUE, files) : files \in {<< >>} \cup {<<f>> : f \in Files} \cup {<<f, g>> : f \in Files, g \in Files}}
PolicyCases ==
    {{Asking(Directory(TRUE, <<Kept(Set("s", default, rules))>>), None, claim, action, context) :
        rules \in {r \in Ruled : Len(r) < 2 \/ r[1].id # r[2].id}, default \in {"allow", "deny"}, claim \in {"s", None}, action \in Actions, context \in Contexts},
     {Asking(directory, inUse, claim, action, context) :
        directory \in Directories, inUse \in {None, "other"}, claim \in {None, "", "sound", "other", "gone"},
        action \in Actions, context \in {Context("ann", {}, {}, None, None)}}}

-----------------------------------------------------------------------------
\* Expressions: the tokens around the marks that bind differently, and what each may be missing.
Mark(mark) == <<"punct", mark>>
Name(name) == <<"name", name>>
Number(n) == <<"number", n>>
Items == <<"array", 1, <<Number(1), Number(2)>>>>
Subject == <<"object", 2, [items |-> Items, title |-> <<"string", <<97, 98>>>>, ready |-> <<"boolean", TRUE>>, length |-> Number(9)]>>
Scope == [subject |-> Subject, context |-> <<"object", 3, [principal |-> <<"string", <<97>>>>]>>]
Path(names) == [i \in 1..(2 * Len(names) - 1) |-> IF i % 2 = 0 THEN Mark(".") ELSE Name(names[(i + 1) \div 2])]
Atoms == {<<Name("true")>>, <<Name("false")>>, Path(<<"subject", "ready">>), Path(<<"context", "gone">>), <<Name("null")>>, <<Number(1)>>}
Joined(op, parts) == parts[1] \o <<Mark(op[1])>> \o parts[2] \o <<Mark(op[2])>> \o parts[3]
Grouped(tokens) == <<Mark("(")>> \o tokens \o <<Mark(")")>>
Negated(tokens) == <<Mark("!")>> \o tokens
Marks == {"&&", "||", "=="}
Few == {<<Name("true")>>, <<Name("false")>>, Path(<<"context", "gone">>)}
Compared ==
    {left \o <<op>> \o right :
        left \in {<<Number(1)>>, <<<<"string", <<97>>>>>>, Path(<<"subject", "title">>), Path(<<"subject", "items", "length">>), <<Name("null")>>, Path(<<"subject", "items">>)},
        op \in {Mark("=="), Mark("!=="), Mark("<"), Mark("<="), Mark(">"), Mark(">="), Name("in")},
        right \in {<<Number(2)>>, <<<<"string", <<97, 98>>>>>>, Path(<<"context", "principal">>), Path(<<"subject", "items">>), Path(<<"context", "gone">>)}}
Indexed == {Path(<<"subject", "items">>) \o <<Mark("["), at, Mark("]"), Mark("=="), Number(2)>> : at \in {Number(0), Number(1), Number(2), Name("x")}}
Broken == {<< >>, <<Mark("(")>>, <<Mark("!")>>, <<Name("true"), Name("true")>>, <<Name("true"), Mark("&&")>>, Grouped(<<Name("true")>>) \o <<Mark(")")>>,
           <<Name("subject"), Mark("."), Number(1)>>, <<Name("subject"), Mark("["), Number(1)>>, Path(<<"subject", "length">>), Path(<<"nobody", "there">>),
           Path(<<"subject", "ready", "more">>), Path(<<"context", "gone", "more">>)}
Expressions ==
    {Atoms, Indexed, Broken, Compared, {Negated(t) : t \in Atoms \cup {Negated(a) : a \in Atoms}},
     {Joined(<<op1, op2>>, <<a, b, c>>) : op1 \in Marks, op2 \in Marks, a \in Atoms, b \in Few, c \in Few},
     {Grouped(a \o <<Mark(op1)>> \o b) \o <<Mark(op2)>> \o c : op1 \in Marks, op2 \in Marks, a \in Few, b \in Few, c \in Atoms},
     {a \o <<Mark(op1)>> \o Grouped(b \o <<Mark(op2)>> \o c) : op1 \in Marks, op2 \in Marks, a \in Few, b \in Few, c \in Few},
     {Negated(Grouped(a \o <<Mark(op1)>> \o b)) \o <<Mark(op2)>> \o Negated(c) : op1 \in Marks, op2 \in Marks, a \in Few, b \in Few, c \in Few}}

\* Suites: one check of an expression, or several asked of providers that are there, come late or never.
Check(id, provider, severity, expression) == [id |-> id, provider |-> provider, severity |-> severity, expression |-> expression]
Verdict(satisfied, confidence) == [throws |-> FALSE, satisfied |-> satisfied, confidence |-> confidence]
Provider(kind, deterministic, answers) == [kind |-> kind, deterministic |-> deterministic, answers |-> answers]
Providers == ("rules" :> Provider("rule-engine", TRUE, {Verdict(TRUE, 90), Verdict(FALSE, 90), Verdict(TRUE, 101), [throws |-> TRUE]})
              @@ "expression" :> Provider("deterministic-expression", TRUE, {}))
Late == ("judge" :> Provider("llm-judge", FALSE, {Verdict(TRUE, 60), Verdict(FALSE, 0)}) @@ "rules" :> Provider("script", FALSE, {Verdict(TRUE, 100)}))
Suite(checks, policy, version) ==
    [checks |-> checks, scope |-> Scope, providers |-> Providers, late |-> Late, policy |-> policy, modelVersion |-> version]
SomeChecks(id) ==
    {Check(id, provider, severity, None) : provider \in {"rules", "judge", "nobody"}, severity \in {"error", "warning"}}
    \cup {Check(id, "expression", "error", e) : e \in {None, <<Name("true")>>, <<Name("false")>>}}
Permissions == {None, [allowed |-> TRUE], [allowed |-> FALSE]}
SuiteCases ==
    {{Suite(<<Check("e", "expression", "error", e)>>, None, "1") : e \in some} : some \in Expressions}
    \cup {{Suite(<<one, other>>, policy, "1") : one \in SomeChecks("a"), other \in SomeChecks("b"), policy \in Permissions},
          {Suite(<<one, Check("b", "rules", "warning", None), Check("c", "judge", "info", None)>>, policy, "1") :
              one \in SomeChecks("a"), policy \in Permissions},
          {Suite(<<Check("e", "expression", "error", <<Name("true")>>)>>, None, "")}}
=============================================================================

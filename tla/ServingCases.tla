---------------------------- MODULE ServingCases ----------------------------
(* What the small instances of the servers and of the projection engine are given. *)
EXTENDS TLC

CONSTANT None

\* Bundles: two releases that are intact, the first one recompiled with other bytes under the same
\* release, and what goes wrong with a bundle, one thing at a time.
Entry(bytes) == [kind |-> "file", bytes |-> bytes]
Manifest(release, index, atom) ==
    [valid |-> TRUE, protocol |-> 2, ir |-> 2, emitter |-> 4, corpus |-> "org/alpha", release |-> release, schema |-> "s1",
     index |-> index, content |-> ("_index.xml" :> index @@ "atom.yaml" :> atom)]
Directory(index, atom, manifest) ==
    [linked |-> FALSE,
     entries |-> "_index.xml" :> Entry(index) @@ "atom.yaml" :> Entry(atom) @@ ".DS_Store" :> Entry("noise")
                 @@ "corpus.manifest.json" :> Entry(manifest)]
Intact(release, bytes) == Directory(bytes, bytes, Manifest(release, bytes, bytes))
Signed(bundle, by) == [bundle EXCEPT !.entries = @ @@ "signature.json" :> Entry(by)]
Legacy == [linked |-> FALSE, entries |-> ("_index.xml" :> Entry("i0"))]
Broken == {
    Directory("i9", "a1", Manifest("r1", "i1", "a1")),
    Directory("i1", "a9", Manifest("r1", "i1", "a1")),
    Directory("i1", "a1", [Manifest("r1", "i1", "a1") EXCEPT !.emitter = 3]),
    Directory("i1", "a1", [Manifest("r1", "i1", "a1") EXCEPT !.valid = FALSE]),
    Signed(Intact("r2", "b2"), Manifest("r1", "b1", "b1")),
    [Intact("r1", "b1") EXCEPT !.linked = TRUE],
    [Intact("r1", "b1") EXCEPT !.entries["atom.yaml"].kind = "link"],
    [Intact("r1", "b1") EXCEPT !.entries["corpus.manifest.json"].kind = "link"]}
ABundle == Intact("r1", "b1")
OtherRelease == Signed(Intact("r2", "b2"), Manifest("r2", "b2", "b2"))
Recompiled == Intact("r1", "b3")
BundleCases == {OtherRelease, Recompiled, Legacy} \cup Broken
DiskCases == {"here" :> ABundle @@ "there" :> bundle : bundle \in BundleCases}

MountCase(path, expected, required, declared, namespace, signature) ==
    [path |-> path, expected |-> expected, requireManifest |-> required, declared |-> declared,
     declarationLoads |-> namespace # "", namespace |-> namespace, requireSignature |-> signature]
Plain(path) == MountCase(path, None, FALSE, FALSE, "org/alpha", FALSE)
Declared(path) == MountCase(path, None, FALSE, TRUE, "org/beta", TRUE)
SwapCases == {Plain("there"), Declared("there")}

Started(requests, source, hostname, tokenLength, registry) ==
    [requests |-> requests, source |-> source,
     settings |-> [hostname |-> hostname, acknowledged |-> FALSE, registry |-> registry,
                   credentials |-> {[token |-> "secret", length |-> tokenLength, principal |-> "reader"]}]]
BootCases == {Started(<<Plain("here"), Plain("there")>>, "declaration", "loopback", 32, TRUE),
              Started(<<Plain("here"), Plain("there")>>, "manifest", "loopback", 32, TRUE),
              Started(<<Plain("here"), Declared("there")>>, "declaration", "loopback", 32, TRUE),
              Started(<<MountCase("there", "s2", FALSE, FALSE, "", FALSE), MountCase("here", "s1", TRUE, TRUE, "", FALSE)>>,
                      "declaration", "loopback", 32, TRUE),
              Started(<<Plain("here")>>, "declaration", "loopback", 32, FALSE),
              Started(<<Plain("here")>>, "declaration", "loopback", 31, TRUE),
              Started(<<Plain("here")>>, "declaration", "public", 32, TRUE)}

Ask(path, verb, authorization, body, release, unit) ==
    [path |-> path, verb |-> verb, authorization |-> authorization, body |-> body,
     namespace |-> "org/alpha", release |-> release, unit |-> unit]
ActivateCases == {
    Ask("activate", "POST", "secret", "accepted", "r1", ""), Ask("activate", "POST", "secret", "accepted", "r2", "")}
HttpCases == ActivateCases \cup {
    Ask("healthz", "GET", None, "", "", ""), Ask("other", "GET", None, "", "", ""),
    Ask("plan", "POST", "wrong", "", "", ""), Ask("query", "POST", "secret", "accepted", "", ""),
    Ask("plan", "GET", "secret", "", "", ""), Ask("resource", "GET", "secret", "", "", "u2"),
    Ask("resource", "GET", "secret", "", "", "malformed"), Ask("corpora", "GET", "secret", "", "", ""),
    Ask("snapshot", "GET", "secret", "", "", ""), Ask("activate", "POST", "secret", "principal", "r2", "")}

-----------------------------------------------------------------------------
\* A catalog: one profile of three levels for every type, one of two for one type, one nobody declares.
Level(name, profile, level, rank, tokens, groups, rules, renderer) ==
    [name |-> name, profile |-> profile, level |-> level, rank |-> rank, version |-> "1", tokens |-> tokens,
     groups |-> groups, rules |-> rules, renderer |-> renderer]
FiveLevels == {Level("brief", "page", "brief", 1, 1, {}, {}, None), Level("page", "page", "page", 2, 3, {"fact", "term"}, {}, None),
                Level("book", "page", "book", 3, 6, {}, {"fact"}, None), Level("sheet", "page", "sheet", 5, 3, {"term"}, {}, None),
                Level("slide", "deck", "slide", 4, 2, {}, {}, "html")}
Routed == "read" :> <<"nowhere", "page">> @@ "show" :> <<"deck">> @@ "other" :> <<"nowhere">>

File(faults, shows) == [faults |-> faults, shows |-> shows]
AUnit(id, digest, types, labels, shows) ==
    [id |-> id, version |-> "1", digest |-> digest, types |-> types, labels |-> labels,
     fields |-> (<<"body">> :> "b" @@ <<"note", "author">> :> "a"),
     artifacts |-> ("brief" :> File({}, shows) @@ "page" :> File({}, shows \cup {"a"}) @@ "book" :> File({}, shows \cup {"a"}))]
ManyUnits(digest, shows) ==
    <<AUnit("u1", digest, {"fact"}, {"internal"}, shows),
      [AUnit("u2", digest, {"term"}, {}, shows) EXCEPT !.artifacts = ("brief" :> File({}, shows) @@ "sheet" :> File({"escapes"}, shows))],
      [AUnit("u3", digest, {"fact"}, {"secret"}, shows) EXCEPT !.artifacts = ("book" :> File({}, shows) @@ "brief" :> File({"not found"}, shows))]>>
ScopeOf(tenant, release) == [tenant |-> tenant, corpus |-> "c", release |-> release]
ThreeHoldings == ScopeOf("t1", "r1") :> ManyUnits("d1", {"b"}) @@ ScopeOf("t2", "r1") :> ManyUnits("d1", {"b", "other"})
               @@ ScopeOf("t1", "r2") :> ManyUnits("d2", {"b", "new"})
Redaction == {[label |-> "internal", field |-> <<"note">>], [label |-> "secret", field |-> <<"*">>]}
\* One engine for each bundle, which redacts, and one more for the first of them, which does not.
FourEngines == {[scope |-> scope, rules |-> Redaction] : scope \in DOMAIN ThreeHoldings} \cup {[scope |-> ScopeOf("t1", "r1"), rules |-> {}]}
Wanted(purpose, max, transports, ceiling, policies) ==
    [purpose |-> purpose, max |-> max, policies |-> policies,
     consumer |-> [transports |-> transports, ceiling |-> ceiling, renderers |-> {"plain"}]]
SomeProjections ==
    {Wanted("read", max, <<transport>>, ceiling, policies) :
        max \in {3, 7, 20}, transport \in {"inline", "path"}, ceiling \in {None, 3}, policies \in {{}, {"p"}}}
    \cup {Wanted("show", 9, <<"inline">>, None, {}), Wanted("other", 9, <<"inline">>, None, {}), Wanted("read", 9, <<"uri", "path">>, None, {"p"})}

\* MCP: two releases of a corpus, the later one with another text and a unit withdrawn from the public,
\* and bundles whose lock does not hold. Metadata of u3 cannot be read; u1 points at it and at a unit
\* nobody has.
\* Two levels are not named as their definitions are, and one of these as another definition is.
NamedLevels == {Level("brief", "page", "brief", 1, 1, {}, {}, None), Level("core", "page", "core", 2, 3, {"fact"}, {}, None),
                Level("side/notes", "side", "notes", 3, 2, {}, {}, None), Level("deep/core", "deep", "core", 4, 2, {}, {}, None)}
Edge(to) == [relation |-> "supports", to |-> to]
CorpusUnit(id, type, visibility, readable, relations, text) ==
    [id |-> id, version |-> "1", digest |-> text, type |-> type, types |-> {type}, labels |-> {}, fields |-> << >>,
     visibility |-> visibility, readable |-> readable, relations |-> relations,
     artifacts |-> "brief" :> File({}, {text}) @@ "core" :> File({}, {text, "more"})
                   @@ "notes" :> File(IF type = "term" THEN {"escapes"} ELSE {}, {text})]
CorpusUnits(text, visibility) ==
    <<CorpusUnit("u1", "fact", "public", TRUE, <<Edge("u2"), Edge("u3"), Edge("u2"), Edge("u4"), Edge("u9")>>, text),
      CorpusUnit("u2", "fact", visibility, TRUE, <<Edge("u1")>>, text),
      CorpusUnit("u3", "fact", "public", FALSE, << >>, text),
      CorpusUnit("u4", "term", "public", TRUE, <<Edge("u1"), Edge("u2")>>, text)>>
TheModel == [name |-> "m", version |-> "1", protocol |-> "2", schema |-> "s", files |-> "f", manifest |-> "y"]
Locked(models) == [parses |-> TRUE, models |-> models]
Bundle(release, units, lock, declares) ==
    [corpus |-> "c", release |-> release, intact |-> TRUE, units |-> units, model |-> TheModel, lock |-> lock, declares |-> declares]
Declares(version, schema) == [models |-> ("m" :> version), schema |-> schema]
SoundBundles == {Bundle("r1", CorpusUnits("t1", "public"), None, None),
                 Bundle("r2", CorpusUnits("t2", "private"), Locked("m" :> TheModel @@ "n" :> TheModel), Declares("1", "s9"))}
UnsoundBundles ==
    {Bundle("r1", CorpusUnits("t3", "public"), lock, declares) :
        lock \in {Locked("m" :> [TheModel EXCEPT !.files = "f9"]), Locked("n" :> TheModel), [parses |-> FALSE, models |-> << >>]},
        declares \in {None}}
    \cup {Bundle("r1", CorpusUnits("t3", "public"), Locked("m" :> TheModel), declares) : declares \in {Declares("2", "s"), Declares("1", "s9")}}
    \cup {[Bundle("r1", CorpusUnits("t3", "public"), None, None) EXCEPT !.intact = FALSE]}
Arguments(scope, id, kind, level, limit, signal) ==
    [scope |-> scope, id |-> id, kind |-> kind, level |-> level, limit |-> limit, signal |-> signal]
Clearances == "any" :> {"public", "private"} @@ "outsider" :> {"public"}
McpQueries == {
    Arguments("atoms", None, None, None, 10, FALSE), Arguments("atoms", None, "fact", "side/notes", 1, FALSE),
    Arguments("atoms", None, "fact", None, 10, TRUE), Arguments("atoms", None, "term", "nothing", 10, FALSE),
    Arguments("show", None, None, None, 10, FALSE), Arguments("show", "u2", "term", "brief", 10, FALSE), Arguments("show", "u4", None, "deep/core", 10, FALSE),
    Arguments("show", "u3", None, None, 10, FALSE), Arguments("related", "u1", None, None, 10, FALSE),
    Arguments("related", "u1", None, "side/notes", 1, FALSE), Arguments("related", "u2", "fact", None, 10, FALSE)}
=============================================================================

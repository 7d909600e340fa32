------------------------------ MODULE Reconciler ------------------------------
(* Two corpora compared, from corpus-tools: load.ts, normalize.ts and reconcile.ts. Units are read *)
(* from documents, each legacy unit is matched by the strongest evidence there is, and when all     *)
(* are matched every unit of either side gets a verdict. A slug is the sequence of its words.       *)
EXTENDS Integers, SequencesExt

CONSTANTS
    Absent,
    Documents,     \* the documents of a reconciliation: legacy, migrated, v3, and the compiled kinds
    Filler,        \* words without meaning of their own
    Stems,         \* of a word with an ending that is cut off, the stem
    Beginnings     \* pairs of the beginning of a word and the word

VARIABLES
    given,   \* the units read from the documents, and what was skipped
    pass,    \* "loading", "matching", "judged"
    made     \* how many legacy units are matched, the edges, the hints, and the verdicts

reconcilerVars == <<given, pass, made>>

-----------------------------------------------------------------------------
\* Normalisation. A slug loses the longest kind it begins with; its token set is its words without
\* fillers, stemmed.
KindVocabulary(units) == {units[i].kind : i \in DOMAIN units} \ {<< >>}
StripKindPrefix(slug, vocabulary) ==
    LET kinds == {k \in vocabulary : Len(k) < Len(slug) /\ IsPrefix(k, slug)}
        longest == CHOOSE k \in kinds : \A other \in kinds : Len(other) <= Len(k)
    IN IF kinds = {} THEN slug ELSE SubSeq(slug, Len(longest) + 1, Len(slug))
Stem(word) == IF word \in DOMAIN Stems THEN Stems[word] ELSE word
TokenSet(slug) == {Stem(word) : word \in ToSet(slug) \ Filler}
\* Of two token sets, what they share and all they have.
Shared(a, b) == Cardinality(a \cap b)
All(a, b) == Cardinality(a \cup b)
IsAlike(a, b) == a # {} /\ b # {} /\ 10 * Shared(a, b) >= 8 * All(a, b)
IsMoreAlike(tokens, a, b) == Shared(tokens, a) * All(tokens, b) > Shared(tokens, b) * All(tokens, a)
\* A text too short to mean anything, of fewer than four words, has no digest.
TextDigest(text) == IF text = Absent \/ text.words < 4 THEN {} ELSE {text.says}
ProvenanceKey(repo, file, section) == IF repo = "" /\ file = "" THEN {} ELSE {<<repo, file, section>>}
\* A url is a host and a path; a bare host identifies nothing.
UrlKey(url) == IF url[2] = "" THEN {} ELSE {url}

-----------------------------------------------------------------------------
\* Loading. A document that cannot be read, or that has no id, is counted and left out.
HasId(document) == document.reads /\ document.id # Absent
Readable(documents) == SelectSeq(documents, HasId)
CollectProse(document) == SelectSeq(document.prose, LAMBDA text : text.words > 1)
LegacyUnit(document) ==
    [id |-> document.id, slug |-> document.slug, module |-> document.module, status |-> document.status,
     supersededBy |-> document.supersededBy, deprecatedAt |-> document.deprecatedAt,
     texts |-> document.named \o CollectProse(document),
     sources |-> <<[repo |-> document.repo, file |-> document.file, section |-> document.section]>> \o document.others,
     urls |-> document.urls]
\* The compiled form of a unit, where it was read and names a kind, overrides the kind of its source;
\* its description stands in for one that is missing.
CompiledOf(compiled, id) == SelectLastInSeq(compiled, LAMBDA c : c.reads /\ c.id = id)
Compiled(compiled, id) ==
    LET at == CompiledOf(compiled, id) IN IF at = 0 THEN [kind |-> << >>, description |-> Absent] ELSE compiled[at]
V3Unit(document, compiled) ==
    [id |-> document.id, slug |-> document.slug, kind |-> IF compiled.kind # << >> THEN compiled.kind ELSE document.head,
     texts |-> document.named \o <<IF document.description # Absent THEN document.description ELSE compiled.description>>,
     source |-> [repo |-> document.repo, file |-> document.file, section |-> document.section], urls |-> document.urls]
Skipped(documents) == Len(documents) - Len(Readable(documents))
LoadUnits ==
    /\ pass = "loading"
    /\ LET read == [side \in {"legacy", "migrated", "v3"} |-> Readable(given[side])]
           compiled == SelectSeq(given.compiled, LAMBDA c : c.reads)
       IN given' = [legacy |-> [i \in DOMAIN read.legacy |-> LegacyUnit(read.legacy[i])],
                    migrated |-> read.migrated,
                    v3 |-> [i \in DOMAIN read.v3 |-> V3Unit(read.v3[i], Compiled(compiled, read.v3[i].id))],
                    skipped |-> [legacy |-> Skipped(given.legacy), migrated |-> Skipped(given.migrated),
                                 v3 |-> Skipped(given.v3) + (Len(given.compiled) - Len(compiled))]]
    /\ pass' = "matching" /\ UNCHANGED made

-----------------------------------------------------------------------------
\* What a v3 unit is indexed by.
OwnStripped(u) == IF u.kind = << >> THEN u.slug ELSE StripKindPrefix(u.slug, {u.kind})
Stripped(u, vocabulary) == StripKindPrefix(OwnStripped(u), vocabulary)
StrippedSlugs(u, vocabulary) == {Stripped(u, vocabulary), OwnStripped(u)}
V3Tokens(u, vocabulary) == TokenSet(Stripped(u, vocabulary))
V3Digests(u) == UNION {TextDigest(u.texts[i]) : i \in DOMAIN u.texts}
V3ProvenanceKeys(u) ==
    ProvenanceKey(u.source.repo, u.source.file, u.source.section) \cup ProvenanceKey(u.source.repo, u.source.file, "")
\* What a legacy unit is looked up by, strongest first; its further sources count with a file only,
\* and never with a section.
LegacyDigests(l) == FlattenSeq([i \in DOMAIN l.texts |-> SetToSeq(TextDigest(l.texts[i]))])
LegacyProvenanceKeys(l) ==
    LET keyed(s, section) == SetToSeq(ProvenanceKey(s.repo, s.file, section))
    IN keyed(l.sources[1], l.sources[1].section)
       \o FlattenSeq([i \in DOMAIN l.sources |-> IF i > 1 /\ l.sources[i].file = "" THEN << >> ELSE keyed(l.sources[i], "")])

\* The places of the v3 units a key finds. A key that finds more than three names a project, not an excerpt.
Finds(v3, Keyed(_)) == {i \in DOMAIN v3 : Keyed(v3[i])}
FirstFinding(keys, Found(_)) == LET at == SelectInSeq(keys, LAMBDA k : Found(k) # {}) IN IF at = 0 THEN {} ELSE Found(keys[at])
ByDigest(v3, digest) == Finds(v3, LAMBDA u : digest \in V3Digests(u))
ByProvenance(v3, key) ==
    LET hits == Finds(v3, LAMBDA u : key \in V3ProvenanceKeys(u)) IN IF Cardinality(hits) > 3 THEN {} ELSE hits
\* The first of the most alike of those that are alike enough, for a slug of three words or more.
MostAlike(v3, tokens, vocabulary) ==
    LET alike == Finds(v3, LAMBDA u : IsAlike(tokens, V3Tokens(u, vocabulary)))
        best == {i \in alike : \A j \in alike : /\ ~IsMoreAlike(tokens, V3Tokens(v3[j], vocabulary), V3Tokens(v3[i], vocabulary))
                                                /\ j < i => IsMoreAlike(tokens, V3Tokens(v3[i], vocabulary), V3Tokens(v3[j], vocabulary))}
    IN IF Cardinality(tokens) >= 3 THEN best ELSE {}

Tiers == <<"slug-exact", "slug-kindstripped-exact", "slug-tokenset", "prose-digest", "provenance-repo-file", "slug-jaccard-0.80">>
MappedTiers == {"slug-exact", "slug-kindstripped-exact"}
EvidenceOf(l, v3, tier) ==
    LET vocabulary == KindVocabulary(v3)
    IN CASE tier = "slug-exact" -> Finds(v3, LAMBDA u : u.slug = l.slug)
         [] tier = "slug-kindstripped-exact" -> Finds(v3, LAMBDA u : l.slug \in StrippedSlugs(u, vocabulary))
         [] tier = "slug-tokenset" -> Finds(v3, LAMBDA u : TokenSet(l.slug) # {} /\ V3Tokens(u, vocabulary) = TokenSet(l.slug))
         [] tier = "prose-digest" -> FirstFinding(LegacyDigests(l), LAMBDA d : ByDigest(v3, d))
         [] tier = "provenance-repo-file" -> FirstFinding(LegacyProvenanceKeys(l), LAMBDA k : ByProvenance(v3, k))
         [] tier = "slug-jaccard-0.80" -> MostAlike(v3, TokenSet(l.slug), vocabulary)
\* A bug: the weakest evidence is taken.
WeakestTier(l, v3) == SelectLastInSeq(Tiers, LAMBDA tier : EvidenceOf(l, v3, tier) # {})
FiringTier(l, v3) == SelectInSeq(Tiers, LAMBDA tier : EvidenceOf(l, v3, tier) # {})
\* Each pair of ids has one edge, the first one found.
AddEdges(edges, l, v3, found, tier) ==
    edges \cup {[legacyId |-> l.id, v3Id |-> v3[i].id, tier |-> tier] :
                   i \in {k \in found : \A e \in edges : e.legacyId # l.id \/ e.v3Id # v3[k].id}}
\* A shared project is recorded when nothing but likeness speaks for the unit.
V3WeakKeys(u) == UNION {UrlKey(u.urls[i]) : i \in DOMAIN u.urls}
LegacyWeakKeys(l) == FlattenSeq([i \in DOMAIN l.urls |-> SetToSeq(UrlKey(l.urls[i]))])
WeakHits(l, v3) == FirstFinding(LegacyWeakKeys(l), LAMBDA key : Finds(v3, LAMBDA u : key \in V3WeakKeys(u)))
HintsOf(l, v3, tier) == IF tier \in 1..5 \/ WeakHits(l, v3) = {} THEN {} ELSE {<<l.id, {v3[i].id : i \in WeakHits(l, v3)}>>}

MatchLegacyUnit ==
    /\ pass = "matching" /\ made.matched < Len(given.legacy)
    /\ LET l == given.legacy[made.matched + 1]
           tier == FiringTier(l, given.v3)
       IN made' = [made EXCEPT
            !.matched = @ + 1,
            !.edges = IF tier = 0 THEN @ ELSE AddEdges(@, l, given.v3, EvidenceOf(l, given.v3, Tiers[tier]), Tiers[tier]),
            !.hints = @ \cup HintsOf(l, given.v3, tier)]
    /\ UNCHANGED <<given, pass>>

-----------------------------------------------------------------------------
\* Verdicts. More than one match is a split, a match shared with others a merger; what has none is
\* deprecated if its own document says so.
EdgesOf(edges, id) == {e \in edges : e.legacyId = id}
EdgesTo(edges, id) == {e \in edges : e.v3Id = id}
IsArchived(l) == l.status \in {"archived", "deprecated"} \/ l.deprecatedAt # Absent
Named(edge) == IF edge.tier \in MappedTiers THEN "mapped" ELSE "renamed"
LegacyVerdict(edges, l) ==
    LET es == EdgesOf(edges, l.id)
        e == CHOOSE x \in es : TRUE
    IN CASE es = {} -> IF l.supersededBy # Absent \/ IsArchived(l) THEN "deprecated" ELSE "unmapped"
         [] Cardinality(es) > 1 -> "split"
         [] Cardinality(EdgesTo(edges, e.v3Id)) > 1 -> "merged"
         [] OTHER -> Named(e)
V3Verdict(edges, u) ==
    LET es == EdgesTo(edges, u.id)
        e == CHOOSE x \in es : TRUE
    IN CASE es = {} -> "unmapped"
         [] Cardinality(es) > 1 -> "merged"
         [] Cardinality(EdgesOf(edges, e.legacyId)) > 1 -> "split"
         [] OTHER -> Named(e)

\* A fixture maps to the legacy unit with its token set, under its module's name or without; a name cut
\* off and hashed to the first whose words begin like it.
LegacyNames(l) == {l.slug} \cup (IF l.module = << >> THEN {} ELSE {l.module \o l.slug})
TokenHits(m, legacy) ==
    LET tokens == TokenSet(m.name \o m.hash)
    IN {i \in DOMAIN legacy : tokens # {} /\ \E name \in LegacyNames(legacy[i]) : TokenSet(name) = tokens}
Begins(stem, name) ==
    \/ stem = << >>
    \/ /\ Len(stem) <= Len(name) /\ IsPrefix(Front(stem), name)
       /\ Last(stem) = name[Len(stem)] \/ <<Last(stem), name[Len(stem)]>> \in Beginnings
PrefixHits(m, legacy) ==
    {i \in DOMAIN legacy : m.hash # << >> /\ \E name \in LegacyNames(legacy[i]) : Begins(m.name, name)}
FirstOf(hits) == CHOOSE i \in hits : \A j \in hits : i <= j
MigratedRow(m, legacy) ==
    LET hits == IF TokenHits(m, legacy) # {} THEN TokenHits(m, legacy) ELSE PrefixHits(m, legacy)
    IN IF hits = {} THEN Absent ELSE legacy[FirstOf(hits)].id

JudgeUnits ==
    /\ pass = "matching" /\ made.matched = Len(given.legacy)
    /\ made' = [made EXCEPT
            !.legacy = [i \in DOMAIN given.legacy |-> LegacyVerdict(made.edges, given.legacy[i])],
            !.v3 = [i \in DOMAIN given.v3 |-> V3Verdict(made.edges, given.v3[i])],
            !.migrated = [i \in DOMAIN given.migrated |-> MigratedRow(given.migrated[i], given.legacy)]]
    /\ pass' = "judged" /\ UNCHANGED given

Rest == pass = "judged" /\ UNCHANGED reconcilerVars
NothingMade == [matched |-> 0, edges |-> {}, hints |-> {}, legacy |-> << >>, v3 |-> << >>, migrated |-> << >>]
ReconcilerInit == given \in Documents /\ pass = "loading" /\ made = NothingMade
ReconcilerNext == LoadUnits \/ MatchLegacyUnit \/ JudgeUnits \/ Rest

-----------------------------------------------------------------------------
Single == {"mapped", "renamed"}
IsTwin(l, u) == u.slug = l.slug
IsTwinBehindKind(l, u) == u.kind # << >> /\ u.slug = u.kind \o l.slug
\* A unit with a twin, one of the same slug, is matched with nothing else and never called renamed, and
\* one with a twin behind a kind is matched. Whether that one is mapped or renamed is left open:
\* reconcile.ts:32-34 says that the exact slug alone maps, :61 and the report (cli.ts:88) map both.
\* The verdicts of the two sides agree: units mapped or renamed are each other's only match and get one
\* verdict, the parts of a split are split or merged, a merger is merged on both sides, and a hint
\* alone leaves a unit unmatched or matched by likeness.
VerdictsAgree ==
    /\ \A edge \in made.edges : \A l \in ToSet(given.legacy) :
          l.id = edge.legacyId /\ (\E u \in ToSet(given.v3) : IsTwin(l, u)) =>
              \E u \in ToSet(given.v3) : u.id = edge.v3Id /\ IsTwin(l, u)
    /\ pass = "judged" =>
          /\ \A i \in DOMAIN given.legacy : \A u \in ToSet(given.v3) :
                /\ IsTwin(given.legacy[i], u) => made.legacy[i] \in {"mapped", "merged", "split"}
                /\ IsTwinBehindKind(given.legacy[i], u) => made.legacy[i] \notin {"unmapped", "deprecated"}
          /\ \A i \in DOMAIN given.legacy, k \in DOMAIN given.v3 :
                LET edge == {e \in made.edges : e.legacyId = given.legacy[i].id /\ e.v3Id = given.v3[k].id}
                IN IF edge = {} THEN TRUE
                   ELSE /\ made.legacy[i] \in Single <=> made.v3[k] \in Single
                        /\ made.legacy[i] \in Single => made.legacy[i] = made.v3[k]
                        /\ made.legacy[i] = "split" => made.v3[k] \in {"split", "merged"}
                        /\ made.legacy[i] = "merged" => made.v3[k] = "merged"
                        /\ made.v3[k] = "split" => made.legacy[i] = "split"
          /\ \A i \in DOMAIN given.legacy :
                made.legacy[i] \in {"unmapped", "deprecated"} <=> \A e \in made.edges : e.legacyId # given.legacy[i].id
          /\ \A hint \in made.hints : \A e \in EdgesOf(made.edges, hint[1]) : e.tier = "slug-jaccard-0.80"
=============================================================================

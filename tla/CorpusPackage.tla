---------------------------- MODULE CorpusPackage ----------------------------
(* A corpus package from its declaration to the verdict on it, from corpus-schema (semver.ts,      *)
(* license.ts, schema.ts, loader.ts) and testkit's corpus-declaration-conformance.ts: the          *)
(* declaration is loaded and its paths looked up, its model ranges and licences are resolved, and  *)
(* the suite reports on what came out. A diagnostic is <<code, subject>>; a licence text is its    *)
(* tokens. A version is its three numbers, its prerelease identifiers and its build; a numeric     *)
(* identifier n is <<0, n>> and a word <<1, its place in string order>>.                           *)
EXTENDS Integers, SequencesExt, FiniteSets

CONSTANTS
    Absent,
    Declared,  \* sets of requests: a declaration, how its file reads, the paths on disk, the model versions there are
    Prose,     \* tokens that are not licence identifiers
    Later      \* of a token with a "+", the identifier without it

VARIABLES
    given,     \* the request
    pass,      \* how far it came: "given", "refused", "loaded", "threw", "resolved", "reported"
    made       \* the diagnostics, then what was resolved, then the report

packageVars == <<given, pass, made>>

-----------------------------------------------------------------------------
(* Versions, ranges over them and the choice of the highest one in range: semver.ts. *)
Wild == -1
Version(numbers, pre, build) == [numbers |-> numbers, pre |-> pre, build |-> build]
Released(numbers) == Version(numbers, << >>, "")

-----------------------------------------------------------------------------
\* The order: -1, 0 or 1. A release is above its prereleases, and the longer of two prereleases that
\* agree as far as the shorter goes is above it.
Sign(n) == IF n < 0 THEN -1 ELSE IF n > 0 THEN 1 ELSE 0
CompareIdentifiers(a, b) == IF a[1] # b[1] THEN Sign(a[1] - b[1]) ELSE Sign(a[2] - b[2])
\* Sequences are compared at their first difference.
FirstDifference(s, t) == SelectInSeq([i \in 1..(IF Len(s) < Len(t) THEN Len(s) ELSE Len(t)) |-> s[i] # t[i]], LAMBDA d : d)
ComparePrerelease(left, right) ==
    LET at == FirstDifference(left, right)
    IN IF left = << >> \/ right = << >> THEN Sign(Len(right) - Len(left))
       ELSE IF at = 0 THEN Sign(Len(left) - Len(right)) ELSE CompareIdentifiers(left[at], right[at])
CompareSemVer(left, right) ==
    LET at == FirstDifference(left.numbers, right.numbers)
    IN IF at = 0 THEN ComparePrerelease(left.pre, right.pre) ELSE Sign(left.numbers[at] - right.numbers[at])

-----------------------------------------------------------------------------
\* A comparator as written is an operator and numbers, of which the first wildcard ends those that
\* count; a prerelease counts only behind all three. `numbers` is empty where the text does not parse.
Pinned(numbers) == LET at == SelectInSeq(numbers, LAMBDA n : n = Wild) IN IF at = 0 THEN numbers ELSE SubSeq(numbers, 1, at - 1)
ParsePartial(written) ==
    LET pinned == Pinned(written.numbers) IN [numbers |-> pinned, pre |-> IF Len(pinned) = 3 THEN written.pre ELSE << >>]
VersionOf(partial) ==
    Version([i \in 1..3 |-> IF i <= Len(partial.numbers) THEN partial.numbers[i] ELSE 0], partial.pre, "")
\* The least release above every version that agrees with these numbers on the first `fields`.
NextOf(numbers, fields) ==
    Released([i \in 1..3 |-> CASE i < fields -> numbers[i] [] i = fields -> numbers[i] + 1 [] OTHER -> 0])

Compared(operator, version) == [operator |-> operator, version |-> version]
LowerBound(partial) == Compared(">=", VersionOf(partial))
UpperBound(partial) == Compared("<", NextOf(partial.numbers, Len(partial.numbers)))
PinsSome(partial) == Len(partial.numbers) \in {1, 2}
\* A bug: the first field is held, zero or not.
MajorBound(partial) == Compared("<", NextOf(IF partial.numbers = << >> THEN <<0>> ELSE partial.numbers, 1))
\* The leftmost field that is not zero is held; where all are, the last one written is. No field at all
\* is held like a zero first one.
CaretBound(partial) ==
    LET held == SelectInSeq(partial.numbers, LAMBDA n : n # 0)
    IN IF partial.numbers = << >> THEN Compared("<", Released(<<1, 0, 0>>))
       ELSE Compared("<", NextOf(partial.numbers, IF held = 0 THEN Len(partial.numbers) ELSE held))
TildeBound(partial) ==
    IF partial.numbers = << >> THEN Compared("<", Released(<<1, 0, 0>>))
    ELSE Compared("<", NextOf(partial.numbers, IF Len(partial.numbers) = 1 THEN 1 ELSE 2))
Widened(partial) ==
    IF PinsSome(partial) THEN <<LowerBound(partial), UpperBound(partial)>> ELSE <<Compared("=", VersionOf(partial))>>

ParseComparator(operator, partial) ==
    CASE operator = "^" -> <<LowerBound(partial), CaretBound(partial)>>
      [] operator = "~" -> <<LowerBound(partial), TildeBound(partial)>>
      [] operator \in {">", "<", ">=", "<="} -> <<Compared(operator, VersionOf(partial))>>
      [] OTHER -> Widened(partial)
\* A clause is "*", two numbers with a hyphen between them, or comparators that must all hold.
ParseHyphen(left, right) ==
    [comparators |-> <<LowerBound(left), IF PinsSome(right) THEN UpperBound(right) ELSE Compared("<=", VersionOf(right))>>,
     allowsPrerelease |-> left.pre # << >> \/ right.pre # << >>]
ParseComparators(written) ==
    LET partials == [i \in DOMAIN written |-> ParsePartial(written[i])]
    IN [comparators |-> FlattenSeq([i \in DOMAIN written |-> ParseComparator(written[i].operator, partials[i])]),
        allowsPrerelease |-> \E i \in DOMAIN partials : partials[i].pre # << >>]
ParseClause(clause) ==
    CASE clause.form = "any" -> [comparators |-> << >>, allowsPrerelease |-> FALSE]
      [] clause.form = "hyphen" -> ParseHyphen(ParsePartial(clause.of[1]), ParsePartial(clause.of[2]))
      [] OTHER -> ParseComparators(clause.of)
IsParsable(range) ==
    /\ range # << >>
    /\ \A i \in DOMAIN range :
          /\ range[i].form # "any" => range[i].of # << >>
          /\ \A j \in DOMAIN range[i].of : range[i].of[j].numbers # << >>
ParseRange(range) == [i \in DOMAIN range |-> ParseClause(range[i])]

-----------------------------------------------------------------------------
SatisfiesComparator(version, comparator) ==
    LET ordering == CompareSemVer(version, comparator.version)
    IN CASE comparator.operator = "<" -> ordering < 0
         [] comparator.operator = "<=" -> ordering <= 0
         [] comparator.operator = ">" -> ordering > 0
         [] comparator.operator = ">=" -> ordering >= 0
         [] comparator.operator = "=" -> ordering = 0
SatisfiesAll(version, clause) == \A i \in DOMAIN clause.comparators : SatisfiesComparator(version, clause.comparators[i])
NamesSameNumbers(version, clause) ==
    \E i \in DOMAIN clause.comparators :
        clause.comparators[i].version.pre # << >> /\ clause.comparators[i].version.numbers = version.numbers
SatisfiesClause(version, clause) ==
    IF clause.comparators = << >> THEN version.pre = << >>
    ELSE /\ version.pre # << >> => clause.allowsPrerelease \/ NamesSameNumbers(version, clause)
         /\ SatisfiesAll(version, clause)
Satisfies(version, parsed) == \E i \in DOMAIN parsed : SatisfiesClause(version, parsed[i])

\* What is offered, highest first, equal versions in the order they came.
HighestFirst(available) ==
    LET places == SetToSortSeq(DOMAIN available,
            LAMBDA i, j : \/ CompareSemVer(available[i], available[j]) > 0
                          \/ CompareSemVer(available[i], available[j]) = 0 /\ i < j)
    IN [k \in DOMAIN places |-> available[places[k]]]
ResolveVersion(range, available) ==
    SelectSeq(HighestFirst(available), LAMBDA v : Satisfies(v, ParseRange(range)))

-----------------------------------------------------------------------------
\* The reference: what a range says of a version, without bounds. Versions are ordered by their numbers,
\* those of the same numbers by their prereleases, identifier by identifier, with the release on top.
SoonerPre(left, right) ==
    \E k \in DOMAIN right :
        /\ \A i \in 1..(k - 1) : i \in DOMAIN left /\ left[i] = right[i]
        /\ \/ k \notin DOMAIN left
           \/ left[k][1] < right[k][1]
           \/ left[k][1] = right[k][1] /\ left[k][2] < right[k][2]
Below(version, other) ==
    \/ \E k \in 1..3 : /\ \A i \in 1..(k - 1) : version.numbers[i] = other.numbers[i]
                       /\ version.numbers[k] < other.numbers[k]
    \/ /\ version.numbers = other.numbers /\ version.pre # << >>
       /\ other.pre = << >> \/ SoonerPre(version.pre, other.pre)
\* The fields a comparator fixes. One that fixes none stands for major 0 behind "^" and "~" and for 0.0.0
\* elsewhere: only a clause of its own, "*", means anything.
Fixed(written) ==
    CASE Pinned(written.numbers) # << >> -> Pinned(written.numbers)
      [] written.operator \in {"^", "~"} -> <<0>>
      [] OTHER -> <<0, 0, 0>>
Floor(written) == VersionOf([numbers |-> Fixed(written), pre |-> ParsePartial(written).pre])
Held(operator, numbers) ==
    CASE operator = "^" -> IF \E i \in DOMAIN numbers : numbers[i] # 0
                           THEN CHOOSE i \in DOMAIN numbers : numbers[i] # 0 /\ \A j \in 1..(i - 1) : numbers[j] = 0
                           ELSE Len(numbers)
      [] operator = "~" -> IF Len(numbers) > 2 THEN 2 ELSE Len(numbers)
      [] OTHER -> Len(numbers)
\* A version holds the fields if it has them, or is a prerelease of the first release that has not.
Holds(version, numbers, fields) ==
    \/ \A i \in 1..fields : version.numbers[i] = numbers[i]
    \/ version.pre # << >> /\ version.numbers = NextOf(numbers, fields).numbers
\* It is what is written, or begins with it where fields are left open.
Matches(version, written) ==
    IF Len(Fixed(written)) = 3 THEN ~Below(version, Floor(written)) /\ ~Below(Floor(written), version)
    ELSE ~Below(version, Floor(written)) /\ Holds(version, Fixed(written), Len(Fixed(written)))
Means(version, written) ==
    LET below == Below(version, Floor(written))
        above == Below(Floor(written), version)
    IN CASE written.operator \in {"^", "~"} ->
              ~below /\ Holds(version, Fixed(written), Held(written.operator, Fixed(written)))
         [] written.operator = ">=" -> ~below
         [] written.operator = "<" -> below
         [] written.operator = ">" -> above
         [] written.operator = "<=" -> ~above
         [] OTHER -> Matches(version, written)
\* Both ends of a hyphen belong to it, the upper one with all that begins with it. A prerelease needs a
\* clause that names one, of whatever version.
NamesPre(written) == ParsePartial(written).pre # << >>
MeansClause(version, clause) ==
    /\ version.pre # << >> => \E i \in DOMAIN clause.of : NamesPre(clause.of[i])
    /\ CASE clause.form = "any" -> TRUE
         [] clause.form = "hyphen" ->
               /\ ~Below(version, Floor(clause.of[1]))
               /\ Below(version, Floor(clause.of[2])) \/ Matches(version, clause.of[2])
         [] OTHER -> \A i \in DOMAIN clause.of : Means(version, clause.of[i])

\* A resolution offers exactly what is available and meant by some clause, releases and prereleases,
\* and nothing stands before a version that is above it.
ChoosesHighest(range, available, candidates) ==
    /\ ToSet(candidates) = {v \in ToSet(available) : \E k \in DOMAIN range : MeansClause(v, range[k])}
    /\ \A i, j \in DOMAIN candidates : i < j => ~Below(candidates[i], candidates[j])

-----------------------------------------------------------------------------
\* SPDX expressions. AND binds tighter than OR; what does not parse to its end is no expression.
Reserved == {"AND", "OR", "WITH"}
IsIdentifier(token) == token \notin Prose \cup {"(", ")"}
Unparsable == [kind |-> "unparsable"]
Chain(kind, operands) == IF Len(operands) = 1 THEN operands[1] ELSE [kind |-> kind, operands |-> operands]
Failed == [ok |-> FALSE, node |-> Unparsable, at |-> 0]
Parsed(node, at) == [ok |-> TRUE, node |-> node, at |-> at]
TokenAt(tokens, at) == IF at \in DOMAIN tokens THEN tokens[at] ELSE ""
Then(result, Goes(_)) == IF result.ok THEN Goes(result) ELSE Failed

RECURSIVE ParseAt(_, _, _)
RECURSIVE MoreOperands(_, _, _, _)
\* The operands of a chain, from the word behind those read so far.
MoreOperands(tokens, word, operands, at) ==
    IF TokenAt(tokens, at) # word THEN Parsed(Chain(IF word = "OR" THEN "or" ELSE "and", operands), at)
    ELSE Then(ParseAt(tokens, word, at + 1), LAMBDA next : MoreOperands(tokens, word, Append(operands, next.node), next.at))
ParseChain(tokens, word, at) ==
    Then(ParseAt(tokens, word, at), LAMBDA first : MoreOperands(tokens, word, <<first.node>>, first.at))
ParseGroup(tokens, at) ==
    Then(ParseAt(tokens, "group", at + 1),
         LAMBDA inner : IF TokenAt(tokens, inner.at) = ")" THEN Parsed(inner.node, inner.at + 1) ELSE Failed)
ParseIdentifier(tokens, at) ==
    LET id(exception) == [kind |-> "id", token |-> tokens[at], exception |-> exception]
        exception == TokenAt(tokens, at + 2)
    IN IF TokenAt(tokens, at + 1) # "WITH" THEN Parsed(id(<< >>), at + 1)
       ELSE IF at + 2 \in DOMAIN tokens /\ IsIdentifier(exception) THEN Parsed(id(<<exception>>), at + 3) ELSE Failed
ParseTerm(tokens, at) ==
    LET token == TokenAt(tokens, at)
    IN IF token = "(" THEN ParseGroup(tokens, at)
       ELSE IF token \in Reserved \cup {""} \/ ~IsIdentifier(token) THEN Failed ELSE ParseIdentifier(tokens, at)
\* One operand of a chain of this word, or what stands in parentheses.
ParseAt(tokens, word, at) ==
    CASE word = "group" -> ParseChain(tokens, "OR", at)
      [] word = "OR" -> ParseChain(tokens, "AND", at)
      [] word = "AND" -> ParseTerm(tokens, at)
ParseLicenseExpression(tokens) ==
    LET parsed == ParseAt(tokens, "group", 1)
    IN IF tokens \in {<< >>, <<"NOASSERTION">>} \/ ~parsed.ok \/ parsed.at # Len(tokens) + 1 THEN Unparsable ELSE parsed.node

\* An expression as text again: an OR keeps its parentheses only inside an AND.
RECURSIVE FormatLicenseExpression(_)
Wrapped(node, inside) ==
    LET text == FormatLicenseExpression(node)
    IN IF inside = "and" /\ node.kind = "or" THEN <<"(">> \o text \o <<")">> ELSE text
FormatLicenseExpression(node) ==
    CASE node.kind = "id" -> <<node.token>> \o (IF node.exception = << >> THEN << >> ELSE <<"WITH">> \o node.exception)
      [] node.kind \in {"and", "or"} ->
            FlattenSeq([i \in 1..(2 * Len(node.operands) - 1) |->
                IF i % 2 = 1 THEN Wrapped(node.operands[(i + 1) \div 2], node.kind)
                ELSE <<IF node.kind = "or" THEN "OR" ELSE "AND">>])
      [] OTHER -> << >>

IdOf(node) == IF node.token \in DOMAIN Later THEN Later[node.token] ELSE node.token
RECURSIVE LicenseIdentifiers(_)
LicenseIdentifiers(node) ==
    CASE node.kind = "id" -> {IdOf(node)}
      [] node.kind \in {"and", "or"} -> UNION {LicenseIdentifiers(node.operands[i]) : i \in DOMAIN node.operands}
      [] OTHER -> {}

-----------------------------------------------------------------------------
\* The policy on an expression: an AND fails with its first failing operand, an OR needs one that
\* passes and the permission to choose it.
Permits(policy, id) == id \notin policy.deny /\ (policy.allow = {} \/ id \in policy.allow)
VerdictOnId(policy, id) ==
    CASE id \in policy.deny -> "LICENSE_DENIED" [] Permits(policy, id) -> "ok" [] OTHER -> "LICENSE_NOT_ALLOWED"
VerdictOnAll(verdicts) ==
    LET at == SelectInSeq(verdicts, LAMBDA v : v # "ok") IN IF at = 0 THEN "ok" ELSE verdicts[at]
VerdictOnAny(policy, verdicts) ==
    CASE "ok" \in ToSet(verdicts) -> IF policy.allowDisjunctiveEscape THEN "ok" ELSE "LICENSE_NOT_ALLOWED"
      [] ToSet(verdicts) = {"LICENSE_DENIED"} -> "LICENSE_DENIED"
      [] OTHER -> "LICENSE_NOT_ALLOWED"
RECURSIVE EvaluateLicense(_, _)
EvaluateLicense(node, policy) ==
    LET verdicts == [i \in DOMAIN node.operands |-> EvaluateLicense(node.operands[i], policy)]
    IN CASE node.kind = "unparsable" -> "LICENSE_UNPARSABLE"
         [] node.kind = "id" -> VerdictOnId(policy, IdOf(node))
         [] node.kind = "and" -> VerdictOnAll(verdicts)
         [] node.kind = "or" -> VerdictOnAny(policy, verdicts)

-----------------------------------------------------------------------------
\* Loading: the file, its shape, what the declaration says of itself, and the paths it names.
Repeats(seq, i) == \E j \in 1..(i - 1) : seq[j].id = seq[i].id
Repeated(seq, code) == {<<code, seq[i].id>> : i \in {k \in DOMAIN seq : Repeats(seq, k)}}
IdsOf(seq) == {seq[i].id : i \in DOMAIN seq}
Unlicensed(declaration, seq, code) ==
    {<<code, seq[i].id>> : i \in {k \in DOMAIN seq :
        declaration.policy.requireDeclared /\ ParseLicenseExpression(seq[k].license) = Unparsable}}
When(condition, code, subject) == IF condition THEN {<<code, subject>>} ELSE {}

ModelProblems(declaration) ==
    Repeated(declaration.models, "DUPLICATE_MODEL_BINDING")
    \cup When(\A i \in DOMAIN declaration.models : ~declaration.models[i].required, "NO_REQUIRED_MODEL", "")
SourceProblems(declaration) ==
    Repeated(declaration.sources, "DUPLICATE_SOURCE_SET")
    \cup Unlicensed(declaration, declaration.sources, "SOURCE_LICENSE_UNPARSABLE")
    \cup When(declaration.policy.requireDeclared /\ ParseLicenseExpression(declaration.license) = Unparsable,
              "CORPUS_LICENSE_UNPARSABLE", "")
\* Two asset sets that are emitted may not claim one path, nor an asset set the id of a source set.
ClaimsTwice(assets, i) == assets[i].emit /\ \E j \in 1..(i - 1) : assets[j].emit /\ assets[j].path = assets[i].path
AssetProblems(declaration) ==
    LET assets == declaration.assets
    IN Repeated(assets, "DUPLICATE_ASSET_SET")
       \cup {<<"ASSET_ID_COLLIDES_WITH_SOURCE", id>> : id \in IdsOf(assets) \cap IdsOf(declaration.sources)}
       \cup Unlicensed(declaration, assets, "ASSET_LICENSE_UNPARSABLE")
       \cup {<<"ASSET_PATH_CLAIMED_TWICE", assets[i].id>> : i \in {k \in DOMAIN assets : ClaimsTwice(assets, k)}}
CitationProblems(declaration) ==
    LET citations == declaration.citations
        where(Test(_)) == {citations[i].id : i \in {k \in DOMAIN citations : Test(citations[k])}}
    IN Repeated(citations, "DUPLICATE_CITATION")
       \cup {<<"CITATION_TARGET_UNKNOWN", id>> : id \in where(LAMBDA c : ~(c.appliesTo \subseteq IdsOf(declaration.sources)))}
       \cup {<<"CITATION_NOT_LOCATABLE", id>> : id \in where(LAMBDA c : ~c.located)}
       \cup {<<"CITATION_NOT_ANCHORED", id>> : id \in where(LAMBDA c : ~c.anchored)}
PublicationProblems(declaration) ==
    LET publication == declaration.publication
    IN When(declaration.default \in declaration.additional, "DEFAULT_PROFILE_REPEATED", declaration.default)
       \cup Repeated(declaration.golden, "DUPLICATE_GOLDEN_QUERY")
       \cup When(publication.visibility = "public" /\ ~publication.requireSignature, "PUBLIC_WITHOUT_SIGNATURE", "")
       \cup When(publication.channel = "pinned" /\ publication.visibility = "public" /\ publication.publishers = {},
                 "NO_PUBLISHER", "")
ValidateDeclarationSemantics(declaration) ==
    ModelProblems(declaration) \cup SourceProblems(declaration) \cup AssetProblems(declaration)
    \cup CitationProblems(declaration) \cup PublicationProblems(declaration)

PathsOf(declaration) ==
    {path \in {declaration.eval, declaration.dist} \cup {declaration.sources[i].path : i \in DOMAIN declaration.sources}
                  \cup {declaration.assets[i].path : i \in DOMAIN declaration.assets}
                  \cup {declaration.citations[i].path : i \in DOMAIN declaration.citations} : path # Absent}
CheckContainedPath(disk, path) ==
    CASE disk[path] = "absolute" -> {<<"PATH_NOT_RELATIVE", path>>}
      [] disk[path] = "outside" -> {<<"PATH_ESCAPES_ROOT", path>>}
      [] disk[path] = "missing" -> {<<"PATH_NOT_FOUND", path>>}
      [] disk[path] = "link" -> {<<"PATH_IS_SYMLINK", path>>}
      [] OTHER -> {}
HasShape(declaration) == \A i \in DOMAIN declaration.models : IsParsable(declaration.models[i].range)
LoadProblems(request) ==
    CASE request.file = "missing" -> {<<"CORPUS_DECLARATION_MISSING", "">>}
      [] request.file = "no yaml" -> {<<"YAML_PARSE_ERROR", "">>}
      [] ~HasShape(request.declaration) -> {<<"INVALID_CORPUS_DECLARATION", "">>}
      [] OTHER -> ValidateDeclarationSemantics(request.declaration)
                  \cup UNION {CheckContainedPath(request.disk, path) : path \in PathsOf(request.declaration)}
LoadCorpusPackage ==
    /\ pass = "given" /\ given.file # "value"
    /\ made' = [made EXCEPT !.diagnostics = LoadProblems(given)]
    /\ pass' = IF LoadProblems(given) = {} THEN "loaded" ELSE "refused"
    /\ UNCHANGED given

-----------------------------------------------------------------------------
\* Resolving: the version of every model, the licence of every source and asset set, the profiles.
Severity(code) ==
    IF code \in {"OPTIONAL_MODEL_VERSION_UNRESOLVED", "CORPUS_LICENSE_INCOMPLETE", "MODEL_RANGE_IS_EXACT_PIN",
                 "SOURCE_UNIT_COUNT_ABSENT", "PUBLIC_FLOATING_CHANNEL"}
    THEN "warning" ELSE "error"
Errors(diagnostics) == {d \in diagnostics : Severity(d[1]) = "error"}
AvailableOf(request, name) == IF name \in DOMAIN request.available THEN request.available[name] ELSE << >>
\* The candidates of each binding, highest first, none for a range that does not parse.
ResolveModels(request) ==
    LET models == request.declaration.models
    IN [i \in DOMAIN models |->
           IF IsParsable(models[i].range) THEN ResolveVersion(models[i].range, AvailableOf(request, models[i].id)) ELSE << >>]
ModelFindings(models, resolved) ==
    UNION {CASE ~IsParsable(models[i].range) -> {<<"MODEL_RANGE_INVALID", models[i].id>>}
             [] resolved[i] # << >> -> {}
             [] models[i].required -> {<<"MODEL_VERSION_UNRESOLVED", models[i].id>>}
             [] OTHER -> {<<"OPTIONAL_MODEL_VERSION_UNRESOLVED", models[i].id>>} : i \in DOMAIN models}
Material(declaration) == ToSet(declaration.sources) \cup ToSet(declaration.assets)
VerdictOf(declaration, tokens) == EvaluateLicense(ParseLicenseExpression(tokens), declaration.policy)
LicenseFindings(declaration) ==
    LET judged == {<<VerdictOf(declaration, m.license), m.id>> : m \in Material(declaration)}
                  \cup {<<VerdictOf(declaration, declaration.license), "corpus">>}
    IN {finding \in judged : finding[1] # "ok"}
CarriedIds(declaration) == UNION {LicenseIdentifiers(ParseLicenseExpression(m.license)) : m \in Material(declaration)}
Unmentioned(declaration) ==
    {<<"CORPUS_LICENSE_INCOMPLETE", id>> :
        id \in CarriedIds(declaration) \ LicenseIdentifiers(ParseLicenseExpression(declaration.license))}
ProfileFindings(declaration, profiles) ==
    IF profiles = Absent THEN {}
    ELSE When(declaration.default \notin profiles, "DEFAULT_PROFILE_NOT_DECLARED", declaration.default)
         \cup {<<"PROFILE_NOT_DECLARED", name>> : name \in declaration.additional \ profiles}

\* An available version that is none is not caught: the whole call throws.
Unreadable(request) ==
    \E binding \in ToSet(request.declaration.models) :
        IsParsable(binding.range) /\ \E version \in ToSet(AvailableOf(request, binding.id)) : version.numbers = << >>
MayResolve == pass = "loaded" \/ (pass = "given" /\ given.file = "value")
RefuseVersions == MayResolve /\ Unreadable(given) /\ pass' = "threw" /\ UNCHANGED <<given, made>>
ResolveCorpusPackage ==
    /\ MayResolve /\ ~Unreadable(given)
    /\ LET resolved == ResolveModels(given)
       IN made' = [made EXCEPT
            !.diagnostics = ModelFindings(given.declaration.models, resolved) \cup LicenseFindings(given.declaration)
                            \cup Unmentioned(given.declaration) \cup ProfileFindings(given.declaration, given.profiles),
            !.models = resolved]
    /\ pass' = "resolved" /\ UNCHANGED given

-----------------------------------------------------------------------------
\* The conformance suite: checks over the findings of the resolution, each with some of its own.
IsExactPin(range) ==
    Len(range) = 1 /\ range[1].form = "all" /\ Len(range[1].of) = 1
    /\ range[1].of[1].operator = "" /\ Len(Pinned(range[1].of[1].numbers)) = 3 /\ range[1].of[1].pre = << >>
Only(diagnostics, codes) == {d \in diagnostics : d[1] \in codes}
ModelCheck(declaration, diagnostics) ==
    Only(diagnostics, {"MODEL_RANGE_INVALID", "MODEL_VERSION_UNRESOLVED", "OPTIONAL_MODEL_VERSION_UNRESOLVED"})
    \cup {<<"MODEL_RANGE_IS_EXACT_PIN", b.id>> : b \in {m \in ToSet(declaration.models) : IsExactPin(m.range)}}
ProvenanceCheck(declaration, diagnostics) ==
    Only(diagnostics, {"LICENSE_UNPARSABLE", "LICENSE_DENIED", "LICENSE_NOT_ALLOWED", "CORPUS_LICENSE_INCOMPLETE"})
    \cup {<<"SOURCE_UNIT_COUNT_ABSENT", s.id>> : s \in {t \in ToSet(declaration.sources) : ~t.counted}}
NamespaceCheck(declaration) == When(declaration.dist = declaration.name, "NAMESPACE_ECHOES_DIST_DIR", declaration.name)
RetrievalCheck(diagnostics) == Only(diagnostics, {"DEFAULT_PROFILE_NOT_DECLARED", "PROFILE_NOT_DECLARED"})
PublicationCheck(declaration) ==
    When(declaration.publication.visibility = "public" /\ declaration.publication.channel = "latest", "PUBLIC_FLOATING_CHANNEL", "")
EvalCheck(declaration) ==
    {<<"GOLDEN_QUERY_NO_EXPECTATION", g.id>> : g \in {q \in ToSet(declaration.golden) : ~q.expects}}
Checks(declaration, diagnostics) ==
    <<ModelCheck(declaration, diagnostics), ProvenanceCheck(declaration, diagnostics), NamespaceCheck(declaration),
      RetrievalCheck(diagnostics), PublicationCheck(declaration), EvalCheck(declaration)>>
RunConformance ==
    /\ pass = "resolved" /\ given.profiles # Absent
    /\ LET checks == Checks(given.declaration, made.diagnostics)
       IN made' = [made EXCEPT !.report = IF \E i \in DOMAIN checks : Errors(checks[i]) # {} THEN "fail" ELSE "pass"]
    /\ pass' = "reported" /\ UNCHANGED given

Settled == pass \in {"refused", "threw", "reported"} \/ (pass = "resolved" /\ given.profiles = Absent)
Settle == Settled /\ UNCHANGED packageVars
PackageInit == (\E some \in Declared : given \in some) /\ pass = "given" /\ made = [diagnostics |-> {}, models |-> << >>, report |-> ""]
PackageNext == LoadCorpusPackage \/ RefuseVersions \/ ResolveCorpusPackage \/ RunConformance \/ Settle

-----------------------------------------------------------------------------
\* The licences a consumer may end up with: one operand of every OR, all operands of every AND.
RECURSIVE LicenceSets(_)
LicenceSets(node) ==
    CASE node.kind = "id" -> {{IdOf(node)}}
      [] node.kind = "or" -> UNION {LicenceSets(node.operands[i]) : i \in DOMAIN node.operands}
      [] node.kind = "and" ->
            {UNION {choice[i] : i \in DOMAIN node.operands} :
                choice \in {f \in [DOMAIN node.operands -> UNION {LicenceSets(node.operands[i]) : i \in DOMAIN node.operands}] :
                               \A i \in DOMAIN node.operands : f[i] \in LicenceSets(node.operands[i])}}
      [] OTHER -> {}
Permitted(policy, choice) == \A id \in choice : Permits(policy, id)
\* A licence passes exactly if a consumer has a permitted choice, and only one choice where the corpus
\* may not count on the consumer's; and written out again it is judged the same.
JudgedByChoice(declaration, tokens) ==
    LET node == ParseLicenseExpression(tokens)
        passes == EvaluateLicense(node, declaration.policy) = "ok"
    IN /\ passes <=> IF declaration.policy.allowDisjunctiveEscape
                     THEN \E choice \in LicenceSets(node) : Permitted(declaration.policy, choice)
                     ELSE /\ LicenceSets(node) # {} /\ \A choice \in LicenceSets(node) : Permitted(declaration.policy, choice)
                          /\ "OR" \notin ToSet(tokens)
       /\ node # Unparsable => passes = (VerdictOf(declaration, FormatLicenseExpression(node)) = "ok")
\* The bytes a declaration publishes have one licence and are there.
PublishesOnce(declaration, disk) ==
    \A i, j \in DOMAIN declaration.assets :
        /\ disk[declaration.assets[i].path] = "there"
        /\ i # j => declaration.assets[i].id # declaration.assets[j].id
        /\ i # j /\ declaration.assets[i].emit /\ declaration.assets[j].emit =>
              declaration.assets[i].path # declaration.assets[j].path

\* A prerelease a model resolves to was asked for: "a prerelease is only ever in range when some
\* comparator in the same clause pinned the identical [major, minor, patch] with a prerelease"
\* (semver.ts:240-241). The code lets a clause that names any prerelease (:209) have all of them.
PrereleaseIsPinned ==
    pass \in {"resolved", "reported"} =>
        \A i \in DOMAIN made.models : \A version \in ToSet(made.models[i]) : version.pre # << >> =>
            \E clause \in ToSet(given.declaration.models[i].range) :
                /\ MeansClause(version, clause)
                /\ \E written \in ToSet(clause.of) : NamesPre(written) /\ Floor(written).numbers = version.numbers

\* A loaded package publishes bytes that are there under one licence; a resolved one has, for every
\* model, the highest version its range means, and licences judged by the choices they leave, so that
\* one without errors carries nothing the policy refuses; and the suite turns red exactly for errors.
PackageIsResolved ==
    /\ pass = "loaded" => PublishesOnce(given.declaration, given.disk)
    /\ pass \in {"resolved", "reported"} =>
          /\ \A i \in DOMAIN made.models :
                LET binding == given.declaration.models[i]
                IN IsParsable(binding.range) => ChoosesHighest(binding.range, AvailableOf(given, binding.id), made.models[i])
          /\ \A material \in Material(given.declaration) : JudgedByChoice(given.declaration, material.license)
          /\ Errors(made.diagnostics) = {} =>
                /\ \A i \in DOMAIN made.models : given.declaration.models[i].required => made.models[i] # << >>
                /\ \A material \in Material(given.declaration) :
                      \E choice \in LicenceSets(ParseLicenseExpression(material.license)) : Permitted(given.declaration.policy, choice)
    /\ pass = "reported" =>
          (made.report = "fail" <=>
              Errors(made.diagnostics) # {} \/ given.declaration.dist = given.declaration.name
              \/ \E query \in ToSet(given.declaration.golden) : ~query.expects)
=============================================================================

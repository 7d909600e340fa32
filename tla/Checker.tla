------------------------------ MODULE Checker -------------------------------
(* compiler/src/checker-l1.ts, what one declaration must have, and checker-l3-cross.ts, what the      *)
(* declarations of a corpus must not have between them.                                               *)
EXTENDS Resolver

CONSTANTS
    NotKebab,    \* names that are not kebab-case
    NotSemver,   \* versions that are not three numbers
    Kebab(_),    \* toKebabCase
    Lower(_),    \* toLowerCase
    Words(_),    \* descWordSet: the words of a description that count
    Precedes(_, _)  \* the order of names

Finding(level, rule, about) == [level |-> level, rule |-> rule, about |-> about]

-----------------------------------------------------------------------------
\* Level 1. The targets of use[] and links[], as written.
UseReferences(ast) ==
    {item.path[1] : item \in ToSet(OfKind(Items(ast, "use"), "Reference"))}
    \cup {item.text : item \in ToSet(OfKind(Items(ast, "use"), "String"))}
LinkTargets(ast) ==
    {[verb |-> item.verb, to |-> item.target] : item \in ToSet(OfKind(Items(ast, "links"), "LinkShorthand"))}
    \cup {[verb |-> Else(WordOf(Value(item.fields, "type")), ""), to |-> Else(TextOf(Value(item.fields, "to")), "")] :
             item \in {i \in ToSet(OfKind(Items(ast, "links"), "Object")) : Declares(i.fields, "type") /\ Declares(i.fields, "to")}}

\* A step is safe by an entry of its body: an error field, the word @safe, or a field that says it.
StepHasErrorHandler(step) ==
    \E i \in DOMAIN step.body :
        LET entry == step.body[i]
        IN \/ entry.kind = "Field" /\ (entry.key \in {"error", "error_handler"} \/ WordOf(entry.value) = "@safe")
           \/ entry.kind = "String" /\ entry.text = "@safe"
Increasing(levels) == {"block", "warn", "pass"} \subseteq DOMAIN levels => levels["block"] < levels["warn"] /\ levels["warn"] < levels["pass"]

\* How many declarations stand above this one, a chain that comes back counted once.
ParentOf(name, library) ==
    IF name \in DOMAIN library /\ library[name].ast # Absent /\ library[name].ast.form = "prime" THEN library[name].ast.type ELSE Absent
Ancestors(type, library) ==
    FoldLeft(LAMBDA chain, k : LET next == IF chain = << >> THEN type ELSE ParentOf(Last(chain), library)
                               IN IF next = Absent \/ Contains(chain, next) THEN chain ELSE Append(chain, next),
             << >>, [k \in 0..Cardinality(DOMAIN library) |-> k])
InheritanceDepth(ast, library) == IF ast.form = "prime" THEN Len(Ancestors(ast.type, library)) ELSE 0

Marked(name, mark, library) == name \in DOMAIN library /\ mark \in library[name].decorators
MissingUse(name, library) == {name, Kebab(name)} \cap DOMAIN library = {}
MissingLink(to, library) == {to, Kebab(to), Lower(to)} \cap DOMAIN library = {}
Verb(link) == IF IsRelation(link.verb) THEN link.verb ELSE Lower(link.verb)
MissingLinks(ast, library) == {link \in LinkTargets(ast) : MissingLink(link.to, library)}

CheckL1(ast, library) ==
    {Finding("error", "name", n) : n \in {StringField(ast, "name")} \cap NotKebab}
    \cup {Finding("error", "version", v) : v \in {StringField(ast, "version")} \cap NotSemver}
    \cup {Finding("error", "step", s.name) : s \in {s \in ToSet(OfKind(Items(ast, "steps"), "Step")) : ~StepHasErrorHandler(s)}}
    \cup {Finding("error", "threshold", t.metric) : t \in {t \in ToSet(OfKind(Items(ast, "thresholds"), "Threshold")) : ~Increasing(t.levels)}}
    \cup {Finding("error", "use", name) : name \in {n \in UseReferences(ast) : MissingUse(n, library)}}
    \cup {Finding("error", "required", link.to) : link \in {l \in MissingLinks(ast, library) : Required(Verb(l))}}
    \cup {Finding("warn", "optional", link.to) : link \in {l \in MissingLinks(ast, library) : Expands(Verb(l))}}
    \cup {Finding("error", "sealed", type) : type \in {t \in {ast.type} : ast.form = "prime" /\ Marked(t, "@sealed", library)}}
    \cup {Finding("error", "abstract", name) : name \in {n \in UseReferences(ast) : Marked(n, "@abstract", library)}}
    \cup (IF InheritanceDepth(ast, library) > 3 THEN {Finding("error", "depth", ast.name)} ELSE {})

-----------------------------------------------------------------------------
\* Across a corpus. A link is a field named like a relation, or a link written short in any list; only
\* strings are targets.
FieldLinks(field) ==
    LET value == field.value
        items == IF value.kind = "Array" THEN value.items ELSE << >>
        short == {[verb |-> i.verb, to |-> i.target] : i \in ToSet(OfKind(items, "LinkShorthand"))}
        plain == IF value.kind = "String" THEN {value.text} ELSE {i.text : i \in ToSet(OfKind(items, "String"))}
    IN short \cup (IF IsRelation(field.key) THEN {[verb |-> field.key, to |-> text] : text \in plain} ELSE {})
ExtractLinkTargets(ast) ==
    {link \in UNION {FieldLinks(field) : field \in ToSet(ast.body)} : IsRelation(link.verb) /\ link.to # ""}

NameOf(ast) == Else(StringField(ast, "name"), ast.name)
IdOf(ast) == StringField(ast, "id")
KindOf(ast) == Else(StringField(ast, "kind"), IF ast.form = "atom" THEN ast.type ELSE "?")
TagSet(ast) == {Lower(i.text) : i \in ToSet(OfKind(Items(ast, "tags"), "String"))}
IsRoot(ast) == Value(ast.body, "root") = Scalar("Boolean", TRUE)

\* Fractions are compared without dividing.
AtLeast(part, whole, bound) == part * bound[2] >= bound[1] * whole
Similar(a, b, bound) == (a = {} /\ b = {}) \/ AtLeast(Cardinality(a \cap b), Cardinality(a \cup b), bound)

\* C1: two declarations of a name. C2: a link to nobody. C4: a declaration nobody names and that names
\* nobody, in a corpus that has links at all; a link by id is not counted for the name.
Named(asts, name) == SelectSeq(asts, LAMBDA a : NameOf(a) = name)
Doubles(asts) ==
    {Finding(IF Cardinality({KindOf(a) : a \in ToSet(Named(asts, name))}) = 1 THEN "error" ELSE "suggestion", "C1", name) :
        name \in {n \in {NameOf(a) : a \in ToSet(asts)} \ {""} : Len(Named(asts, n)) > 1}}
Known(asts) == ({NameOf(a) : a \in ToSet(asts)} \cup {IdOf(a) : a \in ToSet(asts)}) \ {"", Absent}
Dangling(asts) ==
    {Finding("error", "C2", <<NameOf(pair[1]), pair[2].to>>) :
        pair \in {p \in UNION {{a} \X ExtractLinkTargets(a) : a \in ToSet(asts)} : NameOf(p[1]) # "" /\ p[2].to \notin Known(asts)}}
Incoming(asts) ==
    {link.to : link \in {l \in UNION {ExtractLinkTargets(a) : a \in {b \in ToSet(asts) : NameOf(b) # ""}} : ~Excludes(l.verb)}} \cap Known(asts)
Linking(asts) == Len(SelectSeq(asts, LAMBDA a : NameOf(a) # "" /\ ExtractLinkTargets(a) # {}))
Alone(asts, options) ==
    IF asts = << >> \/ ~AtLeast(Linking(asts), Len(asts), options.density) THEN {}
    ELSE {Finding("suggestion", "C4", NameOf(ast)) :
             ast \in {a \in ToSet(asts) : /\ NameOf(a) \notin Incoming(asts) \cup {""} /\ ExtractLinkTargets(a) = {}
                                         /\ ~IsRoot(a) /\ TagSet(a) \cap options.rootTags = {}}}

\* C3: declarations that look alike, unless they share a parent or one accounts for the other. The cap
\* is looked at after a pair is reported.
Parents(ast) == {link.to : link \in {l \in ExtractLinkTargets(ast) : Parentward(l.verb)}}
AccountsFor(ast, name) ==
    \E link \in ExtractLinkTargets(ast) : link.to = name /\ (Required(link.verb) \/ Expands(link.verb) \/ Parentward(link.verb))
LookAlike(a, b, options) ==
    /\ Similar(TagSet(a), TagSet(b), options.duplicate)
    /\ Similar(Words(StringField(a, "description")), Words(StringField(b, "description")), options.overlap)
    /\ Parents(a) \cap Parents(b) = {} /\ ~AccountsFor(a, NameOf(b)) /\ ~AccountsFor(b, NameOf(a))
Eligible(asts, options) ==
    SortSeq(SelectSeq(asts, LAMBDA a : NameOf(a) # "" /\ Cardinality(TagSet(a)) >= options.minTags), LAMBDA a, b : Precedes(NameOf(a), NameOf(b)))
Pairs(sorted, options) ==
    FlattenSeq([i \in DOMAIN sorted |->
        SelectSeq([j \in 1..(Len(sorted) - i) |-> <<sorted[i], sorted[i + j]>>], LAMBDA pair : LookAlike(pair[1], pair[2], options))])
UpTo(pairs, cap) == SubSeq(pairs, 1, IF cap < 1 THEN (IF pairs = << >> THEN 0 ELSE 1) ELSE IF Len(pairs) < cap THEN Len(pairs) ELSE cap)
Duplicates(asts, options) ==
    {Finding("suggestion", "C3", <<NameOf(pair[1]), NameOf(pair[2])>>) : pair \in ToSet(UpTo(Pairs(Eligible(asts, options), options), options.cap))}

CheckL3Cross(asts, options) == Doubles(asts) \cup Dangling(asts) \cup Alone(asts, options) \cup Duplicates(asts, options)
=============================================================================

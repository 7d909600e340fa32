---------------------------- MODULE Declarations ----------------------------
(* What the parser hands on: a declaration with its fields in source order, and the values of the    *)
(* fields. Text is a model value or a string nobody takes apart.                                      *)
EXTENDS Integers, SequencesExt

CONSTANT Absent  \* an optional part that is not there

String(text) == [kind |-> "String", text |-> text]
Ident(text) == [kind |-> "Ident", text |-> text]
Scalar(kind, value) == [kind |-> kind, value |-> value]
Number(value, whole) == [kind |-> "Number", value |-> value, whole |-> whole]
Reference(path) == [kind |-> "Reference", path |-> path]
List(items) == [kind |-> "Array", items |-> items]
Object(fields) == [kind |-> "Object", fields |-> fields]
Link(verb, target) == [kind |-> "LinkShorthand", verb |-> verb, target |-> target]
Step(name, body) == [kind |-> "Step", name |-> name, body |-> body]
Threshold(metric, levels) == [kind |-> "Threshold", metric |-> metric, levels |-> levels]
Field(key, value) == [key |-> key, value |-> value]

\* form is "prime", "atom" or "unit"; type is what a prime extends, the kind of an atom, the type of a unit.
Declaration(form, name, type, body) == [form |-> form, name |-> name, type |-> type, body |-> body]

-----------------------------------------------------------------------------
\* Every reader takes the first field of a name, and values of a kind it does not expect for nothing.
Find(fields, key) == SelectInSeq(fields, LAMBDA f : f.key = key)
Declares(fields, key) == Find(fields, key) # 0
Value(fields, key) == IF Declares(fields, key) THEN fields[Find(fields, key)].value ELSE [kind |-> "none"]

TextOf(value) == IF value.kind = "String" THEN value.text ELSE Absent
WordOf(value) == IF value.kind \in {"String", "Ident"} THEN value.text ELSE Absent
StringField(ast, key) == TextOf(Value(ast.body, key))
Items(ast, key) == LET value == Value(ast.body, key) IN IF value.kind = "Array" THEN value.items ELSE << >>
OfKind(items, kind) == SelectSeq(items, LAMBDA i : i.kind = kind)
NonEmpty(text) == text # Absent /\ text # ""
Else(value, default) == IF value = Absent THEN default ELSE value
=============================================================================

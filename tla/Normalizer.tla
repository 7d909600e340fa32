----------------------------- MODULE Normalizer -----------------------------
(* compiler/src/normalizer.ts: a declaration read against the types of a model. A unit has its fields *)
(* by name, typed, and its relations; a value is kept as it was written, with the type it has.       *)
EXTENDS Resolver

CONSTANTS
    ModelName,  \* the model package
    Types,      \* its types by name: fields in order, and whether further fields are rejected
    Module(_),  \* the module a field or a name gives an id to, or Absent
    Bare(_)     \* a name without the prefix of its module

ScalarTypes == {"string", "number", "boolean", "integer"}
Ok(value) == [ok |-> TRUE, value |-> value]
No(code) == [ok |-> FALSE, code |-> code]

-----------------------------------------------------------------------------
\* convert: what a value is under the type its field declares. Without one, anything of a plain kind
\* is taken, and a structure when all it holds is.
Nested(value) ==
    CASE value.kind = "Array" -> ToSet(value.items)
      [] value.kind = "Object" -> {f.value : f \in ToSet(value.fields)}
      [] OTHER -> {}
Plain(value) == value.kind \in {"String", "Ident", "Number", "EnumValue", "Boolean", "Reference", "Array", "Object"}
AllPlain(value) ==  \* to a depth no value here exceeds
    \A v \in FoldLeft(LAMBDA vs, k : vs \cup UNION {Nested(w) : w \in vs}, {value}, <<1, 2, 3>>) : Plain(v)
ConvertUnknown(value) == IF AllPlain(value) THEN Ok(value) ELSE No("UNSUPPORTED_VALUE")
ConvertReference(value, expected) ==
    CASE expected \notin DOMAIN Types -> No("UNKNOWN_DECLARED_TYPE_REF")
      [] expected \in DOMAIN Types /\ value.kind # "Reference" -> No("REFERENCE_MISMATCH")
      [] expected \in DOMAIN Types /\ value.kind = "Reference" /\ value.path[1] # expected -> No("REFERENCE_TYPE_MISMATCH")
      [] OTHER -> Ok(value)
ConvertScalar(value, expected) ==
    IF \/ expected = "string" /\ value.kind = "String"
       \/ expected = "number" /\ value.kind = "Number"
       \/ expected = "integer" /\ value.kind = "Number" /\ value.whole
       \/ expected = "boolean" /\ value.kind = "Boolean"
    THEN Ok(value) ELSE No("PRIMITIVE_MISMATCH")
Convert(value, expected) ==
    IF expected = "unknown" THEN ConvertUnknown(value)
    ELSE IF expected \in ScalarTypes THEN ConvertScalar(value, expected) ELSE ConvertReference(value, expected)

\* valueIR: the protocol's own field must be an object of plain values.
IsMeta(value) == value.kind = "Object" /\ AllPlain(value)

-----------------------------------------------------------------------------
\* extractRelations: fields named like a relation. What has no text names nobody; the corpus may say
\* what a name stands for, and then a name it does not know makes no edge.
RelationTarget(value) ==
    CASE value.kind \in {"String", "Ident"} -> <<value.text>>
      [] value.kind = "Reference" -> value.path
      [] OTHER -> << >>
Nobody == {<< >>, <<"">>}
Targets(value) == IF value.kind = "Array" THEN {RelationTarget(i) : i \in ToSet(value.items)} ELSE {RelationTarget(value)}
ResolvedTarget(raw, context) ==
    IF context.resolves = Absent THEN raw ELSE IF raw \in DOMAIN context.resolves THEN context.resolves[raw] ELSE Absent
NamedTargets(body) == UNION {{<<Canonical(field.key), raw>> : raw \in Targets(field.value) \ Nobody} : field \in {f \in ToSet(body) : IsRelation(f.key)}}
ExtractRelations(body, context) ==
    {[relation |-> named[1], to |-> ResolvedTarget(named[2], context)] :
        named \in {n \in NamedTargets(body) : ResolvedTarget(n[2], context) # Absent}}
OnUnresolvedRelation(body, context) == {n \in NamedTargets(body) : ResolvedTarget(n[2], context) = Absent}

-----------------------------------------------------------------------------
\* resolveTypeRef: a qualified type must belong to this model.
ResolveTypeRef(ref) == IF ref.model \in {Absent, ModelName} THEN ref.name ELSE Absent
Qualified(ast) == [model |-> ModelName, name |-> ast.type]  \* applyV1SyntaxMacro

Fault(code, field) == [code |-> code, field |-> field]
FieldType(type, key) ==
    LET at == SelectInSeq(type.fields, LAMBDA f : f.name = key) IN IF at = 0 THEN "unknown" ELSE type.fields[at].type
Belongs(type, key) == SelectInSeq(type.fields, LAMBDA f : f.name = key) # 0

\* One field: a second one of a name is refused; _meta is the protocol's; a relation makes no field.
FieldFaults(body, i, type) ==
    LET field == body[i]
    IN IF Find(body, field.key) # i THEN {Fault("DUPLICATE_FIELD", field.key)}
       ELSE IF field.key = "_meta" THEN (IF IsMeta(field.value) THEN {} ELSE {Fault("INVALID_PROTOCOL_META", "_meta")})
       ELSE IF IsRelation(field.key) THEN {}
       ELSE IF ~Belongs(type, field.key) /\ type.rejects THEN {Fault("UNKNOWN_FIELD", field.key)}
       ELSE {Fault(c.code, field.key) : c \in {c \in {Convert(field.value, FieldType(type, field.key))} : ~c.ok}}
IsField(body, i, type) == body[i].key # "_meta" /\ ~IsRelation(body[i].key) /\ FieldFaults(body, i, type) = {}
Kept(body, type) == {body[i].key : i \in {i \in DOMAIN body : IsField(body, i, type)}}
Missing(body, type) == {Fault("MISSING_REQUIRED_FIELD", f.name) : f \in {f \in ToSet(type.fields) : f.required /\ f.name \notin Kept(body, type)}}
BodyFaults(body, type) == UNION {FieldFaults(body, i, type) : i \in DOMAIN body} \cup Missing(body, type)

Unit(id, ref, body, type, context) ==
    [id |-> id, type |-> ref, corpus |-> context.corpus, fields |-> [key \in Kept(body, type) |-> Value(body, key)],
     relations |-> ExtractRelations(body, context), meta |-> Value(body, "_meta")]
Refused(faults) == [ok |-> FALSE, faults |-> faults]
NormalizeAs(name, ref, body, context) ==
    IF ref = Absent THEN Refused({Fault("FOREIGN_MODEL_TYPE_REF", Absent)})
    ELSE IF ref \notin DOMAIN Types THEN Refused({Fault("UNKNOWN_TYPE", Absent)})
    ELSE IF BodyFaults(body, Types[ref]) # {} THEN Refused(BodyFaults(body, Types[ref]))
    ELSE Ok(Unit(Else(context.id, name), ref, body, Types[ref], context))
Normalize(ast, ref, context) ==
    IF "" \in {context.corpus, context.version, context.digest} THEN Refused({Fault("INVALID_NORMALIZE_CONTEXT", Absent)})
    ELSE NormalizeAs(ast.name, ResolveTypeRef(ref), ast.body, context)
NormalizePrimeV1Atom(ast, context) == Normalize(ast, Qualified(ast), context)

\* deriveV1AtomId: the declared id; otherwise the name, under the module a field or the name gives.
DeclaredField(ast, key) == Else(WordOf(Value(ast.body, key)), "")
DeriveV1AtomId(ast) ==
    LET name == IF DeclaredField(ast, "name") # "" THEN DeclaredField(ast, "name") ELSE ast.name
        module == IF Module(DeclaredField(ast, "module")) # Absent THEN Module(DeclaredField(ast, "module")) ELSE Module(name)
    IN IF DeclaredField(ast, "id") # "" THEN <<DeclaredField(ast, "id")>>
       ELSE IF module # Absent THEN <<module, Bare(name)>> ELSE <<"prime", name>>
=============================================================================

---------------------------- MODULE SchemaLowering ----------------------------
(***************************************************************************)
(* How the importer of OpenAPI and Swagger documents lowers a schema: it   *)
(* inlines references until a cycle and notes what it cannot say           *)
(* (toSchema() of openapi.ts).                                             *)
(* A schema of a document is a record of the keywords it has; a reference  *)
(* names a component, or something outside of the document.  Keywords that *)
(* only describe, or bound a number, a text or a list, are left out, and   *)
(* so are those that toSchema() does not read.                             *)
(***************************************************************************)
EXTENDS ApiSchema

CONSTANT MaxDepth   \* MAX_SCHEMA_DEPTH

Has(raw, keyword) == keyword \in DOMAIN raw
Primitive(v) == Head(v) \notin {"array", "object"}

\* A node, and the codes of the warnings that were noted for it.
Lowered(schema, notes) == [schema |-> schema, notes |-> notes]
Notes(nodes) == UNION {n.notes : n \in ToSet(nodes)}
SchemasOf(nodes) == [i \in DOMAIN nodes |-> nodes[i].schema]

\* Seeded bug: only OpenAPI 3.0's way of saying it.
NullableKeyword(raw) == Has(raw, "nullable")
IsNullable(raw) ==
  Has(raw, "nullable") \/ (Has(raw, "types") /\ "null" \in ToSet(raw.types))

\* resolveType(): null is nullability; of several types the first one stays.
Concrete(raw) == IF Has(raw, "types") THEN SelectSeq(raw.types, LAMBDA t : t # "null") ELSE <<>>
ResolveType(raw) ==
  IF Has(raw, "type") THEN raw.type
  ELSE IF Concrete(raw) # <<>> THEN Head(Concrete(raw))
  ELSE IF Has(raw, "properties") \/ Has(raw, "additional") THEN "object"
  ELSE IF Has(raw, "items") THEN "array" ELSE "unknown"
TypeNotes(raw) ==
  IF ~Has(raw, "type") /\ Len(Concrete(raw)) > 1 THEN {"UNSUPPORTED_FEATURE"} ELSE {}

RECURSIVE ToSchema(_, _, _, _)
LowerAll(components, open, raws, depth) ==
  [i \in DOMAIN raws |-> ToSchema(components, open, raws[i], depth)]

\* expandRef(): `open` holds the references that are being expanded.
ExpandRef(components, open, ref, depth) ==
  IF ref.local /\ ref.name \in open
  THEN Lowered(RefTo(ref.name, TRUE), {"CIRCULAR_REF"})
  ELSE IF ~ref.local \/ ref.name \notin DOMAIN components
  THEN Lowered(RefTo(ref.name, FALSE), {"UNRESOLVED_REF"})
  ELSE ToSchema(components, open \cup {ref.name}, components[ref.name], depth + 1)

\* One alternative, or one part, is the schema itself.
Composed(nodes, whole, nullable) ==
  Lowered(WithNull(IF Len(nodes) = 1 THEN nodes[1].schema ELSE whole, nullable), Notes(nodes))

ArrayItems(components, open, raw, depth) ==
  IF Has(raw, "items") THEN ToSchema(components, open, raw.items, depth + 1)
  ELSE IF Has(raw, "prefixItems") /\ raw.prefixItems # <<>>
  THEN LET nodes == LowerAll(components, open, raw.prefixItems, depth + 1) IN
       Lowered(IF Len(nodes) = 1 THEN nodes[1].schema ELSE Union(SchemasOf(nodes)),
               Notes(nodes) \cup {"UNSUPPORTED_FEATURE"})
  ELSE Lowered(Unknown, {"MISSING_SCHEMA"})

ObjectSchema(components, open, raw, depth) ==
  LET declared == IF Has(raw, "properties") THEN raw.properties ELSE <<>>
      required == IF Has(raw, "required") THEN raw.required ELSE {}
      nodes == [n \in DOMAIN declared |-> ToSchema(components, open, declared[n], depth + 1)]
      further == IF Has(raw, "additional") THEN ToSchema(components, open, raw.additional, depth + 1)
                 ELSE Lowered(Unknown, {})
  IN Lowered(Object([n \in DOMAIN declared |-> Property(n \in required, nodes[n].schema)]),
             UNION {nodes[n].notes : n \in DOMAIN declared} \cup further.notes
             \cup IF required \subseteq DOMAIN declared THEN {} ELSE {"MALFORMED_ENTRY"})

TypedSchema(components, open, raw, depth) ==
  LET type == ResolveType(raw)
      array == ArrayItems(components, open, raw, depth)
      node == CASE type = "array" -> Lowered(Array(array.schema), array.notes)
                [] type = "object" -> ObjectSchema(components, open, raw, depth)
                [] OTHER -> Lowered(Plain(type), {})
  IN Lowered(WithNull(node.schema, IsNullable(raw)), node.notes \cup TypeNotes(raw))

\* Composition comes before values, the one value first, and values before a
\* type; what else the schema says is not looked at.
BuildSchema(components, open, raw, depth) ==
  LET all == IF Has(raw, "allOf") THEN LowerAll(components, open, raw.allOf, depth + 1) ELSE <<>>
      alternatives == IF Has(raw, "oneOf") THEN raw.oneOf
                      ELSE IF Has(raw, "anyOf") THEN raw.anyOf ELSE <<>>
      some == LowerAll(components, open, alternatives, depth + 1)
      nullable == IsNullable(raw)
      dropped == IF Has(raw, "not") THEN {"UNSUPPORTED_FEATURE"} ELSE {}
  IN IF all # <<>> THEN Composed(all, Intersection(SchemasOf(all)), nullable)
     ELSE IF some # <<>> THEN Composed(some, Union(SchemasOf(some)), nullable)
     ELSE IF Has(raw, "const") /\ Primitive(raw.const)
     THEN Lowered(WithNull(Enum({raw.const}), nullable), dropped)
     ELSE IF Has(raw, "enum")
     THEN Lowered(WithNull(Enum({v \in raw.enum : Primitive(v)}), nullable),
                  dropped \cup IF \A v \in raw.enum : Primitive(v) THEN {} ELSE {"UNSUPPORTED_FEATURE"})
     ELSE LET node == TypedSchema(components, open, raw, depth)
          IN Lowered(node.schema, node.notes \cup dropped)

\* A bare `true` or `false` is a schema too, and is nothing that can be said.
ToSchema(components, open, raw, depth) ==
  IF Has(raw, "bare") THEN Lowered(Unknown, {})
  ELSE IF depth > MaxDepth THEN Lowered(Unknown, {"UNSUPPORTED_FEATURE"})
  ELSE IF Has(raw, "ref") THEN ExpandRef(components, open, raw.ref, depth)
  ELSE BuildSchema(components, open, raw, depth)

\* parseComponents(): a component that names itself is in a cycle at once.
ParseComponents(components) ==
  [n \in DOMAIN components |-> ToSchema(components, {n}, components[n], 0)]

-----------------------------------------------------------------------------
(* Reference: the values a document's schema allows, every keyword of it   *)
(* but `additional` taken as a condition; `fuel` bounds the references     *)
(* that are followed.                                                      *)
TypesOf(raw) ==
  IF Has(raw, "types") THEN ToSet(raw.types)
  ELSE IF ResolveType(raw) = "unknown" THEN {Head(Null), "string", "integer", "number", "array", "object"}
  ELSE {ResolveType(raw)}
OfType(raw, v) == Head(v) \in TypesOf(raw) \/ (Head(v) = "integer" /\ "number" \in TypesOf(raw))

RECURSIVE Allows(_, _, _, _)
Conditions(C, fuel, raw, v) ==
  /\ OfType(raw, v)
  /\ Has(raw, "enum") => v \in raw.enum
  /\ Has(raw, "const") => v = raw.const
  /\ Has(raw, "allOf") => \A r \in ToSet(raw.allOf) : Allows(C, fuel, r, v)
  /\ \A keyword \in {"oneOf", "anyOf"} \cap DOMAIN raw :
       \E r \in ToSet(raw[keyword]) : Allows(C, fuel, r, v)
  /\ Has(raw, "not") => ~Allows(C, fuel, raw.not, v)
  /\ Has(raw, "items") /\ Head(v) = "array" => \A x \in ToSet(v[2]) : Allows(C, fuel, raw.items, x)
  /\ Has(raw, "prefixItems") /\ Head(v) = "array" =>
       /\ Len(v[2]) <= Len(raw.prefixItems)
       /\ \A i \in DOMAIN v[2] : Allows(C, fuel, raw.prefixItems[i], v[2][i])
  /\ Has(raw, "properties") /\ Head(v) = "object" =>
       \A n \in DOMAIN v[2] \cap DOMAIN raw.properties : Allows(C, fuel, raw.properties[n], v[2][n])
  /\ Has(raw, "required") /\ Head(v) = "object" => raw.required \subseteq DOMAIN v[2]
Allows(C, fuel, raw, v) ==
  IF Has(raw, "bare") THEN raw.bare
  ELSE IF ~Has(raw, "ref") THEN (v = Null /\ IsNullable(raw)) \/ Conditions(C, fuel, raw, v)
  ELSE IF raw.ref.local /\ raw.ref.name \in DOMAIN C
  THEN fuel > 0 /\ Allows(C, fuel - 1, C[raw.ref.name], v) ELSE TRUE

\* What a schema is made of, references not followed.
RECURSIVE Parts(_)
Parts(raw) ==
  {raw} \cup UNION {UNION {Parts(r) : r \in ToSet(raw[k])} :
                      k \in {"allOf", "oneOf", "anyOf", "prefixItems"} \cap DOMAIN raw}
        \cup UNION {Parts(raw[k]) : k \in {"items", "additional", "not"} \cap DOMAIN raw}
        \cup IF Has(raw, "properties")
             THEN UNION {Parts(raw.properties[n]) : n \in DOMAIN raw.properties} ELSE {}
Composition == {"allOf", "oneOf", "anyOf"}
SaysMore(raw) ==
  \/ Composition \cap DOMAIN raw # {} /\ Cardinality(DOMAIN raw \ {"nullable"}) > 1
  \/ Has(raw, "const") /\ (Has(raw, "enum") \/ ~Primitive(raw.const))
NamedIn(raw) == {p.ref.name : p \in {q \in Parts(raw) : Has(q, "ref") /\ q.ref.local}}
RECURSIVE Reaches(_, _, _)
Reaches(C, n, names) ==
  IF n = 0 THEN names
  ELSE Reaches(C, n - 1, names \cup UNION {NamedIn(C[m]) : m \in names \cap DOMAIN C})

RECURSIVE RefsIn(_)
RefsIn(schema) ==
  CASE schema.kind = "ref" -> {schema}
    [] schema.kind = "array" -> RefsIn(schema.items)
    [] schema.kind = "object" ->
         UNION {RefsIn(schema.properties[n].schema) : n \in DOMAIN schema.properties}
    [] schema.kind = "union" -> UNION {RefsIn(o) : o \in ToSet(schema.options)}
    [] schema.kind = "intersection" -> UNION {RefsIn(p) : p \in ToSet(schema.parts)}
    [] OTHER -> {}

(* The lowered schema accepts all that the document allows, and no more    *)
(* where nothing was noted and nothing is left open; a reference that      *)
(* stays is one to a type that contains itself, or leads nowhere           *)
(* (toSchema()).  What is written beside a composition is lost, as is a    *)
(* `const` that is a list or an object and an enumeration beside another   *)
(* one, so that such schemas accept more.                                  *)
LoweringMeansDocument(components, raw, values) ==
  LET node == ToSchema(components, {}, raw, 0)
      size == Cardinality(DOMAIN components)
      closed == node.notes = {} /\ KindsIn(node.schema) \cap {"unknown", "ref", "intersection"} = {}
      written == Parts(raw) \cup UNION {Parts(components[n]) : n \in DOMAIN components}
  IN /\ "UNSUPPORTED_FEATURE" \notin node.notes =>
          \A v \in values : Allows(components, size + 1, raw, v) => Accepts(node.schema, v)
     /\ closed /\ (\A p \in written : ~SaysMore(p)) =>
          \A v \in values : Accepts(node.schema, v) => Allows(components, size + 1, raw, v)
     /\ \A r \in RefsIn(node.schema) :
          IF r.circular THEN r.name \in Reaches(components, size, NamedIn(components[r.name]))
          ELSE "UNRESOLVED_REF" \in node.notes
     /\ node.notes = {} => RefsIn(node.schema) = {}
=============================================================================

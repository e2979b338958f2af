------------------------------ MODULE ApiSchema ------------------------------
(***************************************************************************)
(* Schemas of the API representation (schema.ts), the schema that is       *)
(* inferred from observed values (infer.ts) and the comparison of two      *)
(* accounts of one value (compareSchemas() of conflicts.ts).               *)
(* A value is a tuple of its JSON type and its content, an object's a      *)
(* function of its fields; examples, formats and wording are left out.     *)
(***************************************************************************)
EXTENDS Naturals, Sequences, FiniteSets, SequencesExt

Null == <<"null">>
Plain(kind) == [kind |-> kind, nullable |-> FALSE]
Unknown == Plain("unknown")
Enum(values) == [values |-> values] @@ Plain("enum")
Object(properties) == [properties |-> properties] @@ Plain("object")
Array(items) == [items |-> items] @@ Plain("array")
Union(options) == [options |-> options] @@ Plain("union")
Intersection(parts) == [parts |-> parts] @@ Plain("intersection")
RefTo(name, circular) == [name |-> name, circular |-> circular] @@ Plain("ref")
Property(required, schema) == [required |-> required, schema |-> schema]
Nullable(schema) == [schema EXCEPT !.nullable = TRUE]

-----------------------------------------------------------------------------
(* compareSchemas(): what `actual` does that `expected` does not describe. *)
Conflict(code, severity, path) == [code |-> code, severity |-> severity, path |-> path]
Error(code, path) == {Conflict(code, "error", path)}
Warning(code, path) == {Conflict(code, "warning", path)}
Info(code, path) == {Conflict(code, "info", path)}

\* Seeded bug: a documented integer takes any number.
KindsCompatibleSwapped(expected, actual) ==
  expected = actual \/ (expected = "integer" /\ actual = "number") \/ "intersection" \in {expected, actual}

\* An integer is a number; intersections are not unfolded.
KindsCompatible(expected, actual) ==
  \/ expected = actual
  \/ expected = "number" /\ actual = "integer"
  \/ "intersection" \in {expected, actual}

DiffNull(expected, actual, path) ==
  IF actual.nullable /\ ~expected.nullable THEN Error("FIELD_NULLABILITY", path) ELSE {}

DiffEnum(expected, actual, path) ==
  IF expected.kind # "enum" THEN {}
  ELSE IF actual.kind # "enum" THEN Warning("ENUM_MISMATCH", path)
  ELSE IF actual.values \subseteq expected.values THEN {}
  ELSE Error("ENUM_MISMATCH", path)

Options(schema) == IF schema.kind = "union" THEN schema.options ELSE <<schema>>

RECURSIVE Diff(_, _, _, _, _)
\* Every observed variant must be covered by a documented one without a finding.
DiffUnion(expected, actual, path, max, depth) ==
  IF \A o \in ToSet(Options(actual)) : \E c \in ToSet(Options(expected)) :
       Diff(c, o, path, max, depth + 1) = {}
  THEN {} ELSE Error("FIELD_TYPE", path)

DiffProperty(p, q, path, max, depth) ==
  (IF p.required /\ ~q.required THEN Warning("FIELD_REQUIREDNESS", path) ELSE {})
  \cup Diff(p.schema, q.schema, path, max, depth + 1)
DiffObject(expected, actual, path, max, depth) ==
  LET E == expected.properties A == actual.properties IN
  UNION {IF n \in DOMAIN A THEN DiffProperty(E[n], A[n], Append(path, n), max, depth)
         ELSE IF E[n].required THEN Error("FIELD_MISSING", Append(path, n)) ELSE {} : n \in DOMAIN E}
  \cup UNION {Info("FIELD_UNDOCUMENTED", Append(path, n)) : n \in DOMAIN A \ DOMAIN E}

Diff(expected, actual, path, max, depth) ==
  LET kinds == {expected.kind, actual.kind} IN
  IF depth > max \/ "unknown" \in kinds THEN {}
  ELSE IF "ref" \in kinds
  THEN IF kinds = {"ref"} /\ expected.name # actual.name THEN Warning("FIELD_TYPE", path) ELSE {}
  ELSE DiffNull(expected, actual, path) \cup
       (IF "union" \in kinds THEN DiffUnion(expected, actual, path, max, depth)
        ELSE IF "enum" \in kinds THEN DiffEnum(expected, actual, path)
        ELSE IF ~KindsCompatible(expected.kind, actual.kind) THEN Error("FIELD_TYPE", path)
        ELSE IF kinds = {"object"} THEN DiffObject(expected, actual, path, max, depth)
        ELSE IF kinds = {"array"}
        THEN Diff(expected.items, actual.items, Append(path, "[]"), max, depth + 1)
        ELSE {})

CompareSchemas(expected, actual) == Diff(expected, actual, <<>>, 10, 0)

-----------------------------------------------------------------------------
(* inferSchemaFromSamples(): one schema for all samples, merged in order.  *)
Numeric == {"number", "integer"}
OnlyNull(schema) == schema.kind = "unknown" /\ schema.nullable
WithNull(schema, nullable) == [schema EXCEPT !.nullable = @ \/ nullable]

\* The first option of each kind stays.
FlattenOptions(left, right) ==
  FoldLeft(LAMBDA acc, o : IF \E x \in ToSet(acc) : x.kind = o.kind THEN acc ELSE Append(acc, o),
           <<>>, Options(left) \o Options(right))

RECURSIVE MergePair(_, _)
\* Seeded bug: a field that one sample lacks stays required.
MergePropertiesRequired(L, R) ==
  [n \in DOMAIN L \cup DOMAIN R |->
     IF n \notin DOMAIN R THEN L[n] ELSE IF n \notin DOMAIN L THEN R[n]
     ELSE Property(L[n].required /\ R[n].required, MergePair(L[n].schema, R[n].schema))]
MergeProperties(L, R) ==
  [n \in DOMAIN L \cup DOMAIN R |->
     IF n \notin DOMAIN R THEN [L[n] EXCEPT !.required = FALSE]
     ELSE IF n \notin DOMAIN L THEN [R[n] EXCEPT !.required = FALSE]
     ELSE Property(L[n].required /\ R[n].required, MergePair(L[n].schema, R[n].schema))]
MergePair(left, right) ==
  LET kinds == {left.kind, right.kind} IN
  IF OnlyNull(left) /\ right.kind # "unknown" THEN Nullable(right)
  ELSE IF OnlyNull(right) /\ left.kind # "unknown" THEN Nullable(left)
  ELSE IF left.kind = "unknown" THEN right
  ELSE IF right.kind = "unknown" THEN left
  ELSE WithNull(IF kinds = {"object"} THEN Object(MergeProperties(left.properties, right.properties))
                ELSE IF kinds = {"array"} THEN Array(MergePair(left.items, right.items))
                ELSE IF kinds = Numeric THEN Plain("number")
                ELSE IF left.kind = right.kind THEN left
                ELSE Union(FlattenOptions(left, right)),
                left.nullable \/ right.nullable)
Merge(schemas) == FoldLeft(MergePair, Head(schemas), Tail(schemas))

\* A null says that a value may be null, and nothing else.
RECURSIVE FromValue(_)
FromValue(v) ==
  IF v = Null THEN Nullable(Unknown)
  ELSE IF Head(v) = "array"
  THEN Array(IF v[2] = <<>> THEN Unknown ELSE Merge([i \in DOMAIN v[2] |-> FromValue(v[2][i])]))
  ELSE IF Head(v) = "object" THEN Object([n \in DOMAIN v[2] |-> Property(TRUE, FromValue(v[2][n]))])
  ELSE Plain(Head(v))
InferSchema(samples) ==
  IF samples = <<>> THEN Unknown ELSE Merge([i \in DOMAIN samples |-> FromValue(samples[i])])

-----------------------------------------------------------------------------
(* Reference: the values a schema describes, as a predicate.  What is not  *)
(* described may be anything; further fields may be there, unless closed.  *)
RECURSIVE Describes(_, _, _)
Describes(closed, schema, v) ==
  \/ schema.kind \in {"unknown", "ref", "intersection"}
  \/ v = Null /\ schema.nullable
  \/ schema.kind = "union" /\ \E o \in ToSet(schema.options) : Describes(closed, o, v)
  \/ schema.kind = "enum" /\ v \in schema.values
  \/ schema.kind = Head(v) /\ schema.kind \notin {"array", "object"}
  \/ schema.kind = "number" /\ Head(v) = "integer"
  \/ schema.kind = "array" /\ Head(v) = "array" /\ \A x \in ToSet(v[2]) : Describes(closed, schema.items, x)
  \/ /\ schema.kind = "object" /\ Head(v) = "object"
     /\ closed => DOMAIN v[2] \subseteq DOMAIN schema.properties
     /\ \A n \in DOMAIN schema.properties :
          IF n \in DOMAIN v[2] THEN Describes(closed, schema.properties[n].schema, v[2][n])
          ELSE ~schema.properties[n].required
Accepts(schema, v) == Describes(FALSE, schema, v)

\* The kinds that occur in a schema, at any depth.
RECURSIVE KindsIn(_)
KindsIn(schema) ==
  {schema.kind} \cup
  (IF schema.kind = "array" THEN KindsIn(schema.items)
   ELSE IF schema.kind = "object"
   THEN UNION {KindsIn(schema.properties[n].schema) : n \in DOMAIN schema.properties}
   ELSE IF schema.kind = "union" THEN UNION {KindsIn(o) : o \in ToSet(schema.options)} ELSE {})
Serious(conflicts) == {c \in conflicts : c.severity # "info"}
Errors(conflicts) == {c \in conflicts : c.severity = "error"}

(* Where the comparison finds nothing that may break, whatever the other   *)
(* account allows is allowed; an error that is not about variants stands   *)
(* for a value that is not, and an account agrees with itself              *)
(* (compareSchemas()).  An enumeration where none is documented is not     *)
(* looked at.                                                              *)
ComparisonMeansAcceptance(expected, actual, values) ==
  LET found == CompareSchemas(expected, actual) IN
  /\ expected = actual => found = {}
  /\ KindsIn(actual) \cap {"unknown", "ref", "intersection", "enum"} = {} /\ Serious(found) = {}
       => \A v \in values : Describes(TRUE, actual, v) => Accepts(expected, v)
  /\ Errors(found) # {} /\ "union" \notin KindsIn(expected) \cup KindsIn(actual)
       => \E v \in values : Describes(TRUE, actual, v) /\ ~Accepts(expected, v)

(* A schema that is inferred describes what it was inferred from, and is   *)
(* in no conflict with documentation that describes it, while one that     *)
(* nothing is found about does describe it (inferSchemaFromSamples()).     *)
\* Variants keep one shape of each kind, so they are left out; a field that
\* was only ever null has no type to compare.
InferenceMeansSamples(expected, samples) ==
  LET inferred == InferSchema(samples)
      found == CompareSchemas(expected, inferred)
      accepted == \A v \in ToSet(samples) : Accepts(expected, v)
  IN /\ "union" \notin KindsIn(inferred) => \A v \in ToSet(samples) : Accepts(inferred, v)
     /\ accepted /\ "union" \notin KindsIn(expected) => Errors(found) = {}
     /\ KindsIn(inferred) \cap {"unknown", "union"} = {} /\ Serious(found) = {} => accepted
=============================================================================

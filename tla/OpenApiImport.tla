---------------------------- MODULE OpenApiImport ----------------------------
(***************************************************************************)
(* The importer of OpenAPI 3 and Swagger 2 documents: servers, security,   *)
(* parameters, bodies and answers of one description, in two spellings     *)
(* (openapi.ts).  A document is a record of its parts, an operation a      *)
(* record of what it declares, and what it does not declare is not a       *)
(* field; media types are the constants of a body, JSON or not.            *)
(***************************************************************************)
EXTENDS SchemaLowering, SpecComparison

CONSTANT JsonMedia   \* the media types that are JSON; the first is the default

Declared(record, field, default) == IF Has(record, field) THEN record[field] ELSE default
Component(doc, raw) == ToSchema(doc.components, {}, raw, 0)

\* deref(): a reference to a parameter, body or answer, followed once.
Deref(doc, entry) ==
  IF ~Has(entry, "$ref") THEN {entry}
  ELSE IF entry["$ref"] \in DOMAIN doc.shared THEN {doc.shared[entry["$ref"]]} ELSE {}

-----------------------------------------------------------------------------
(* Servers, and the kinds of credential the schemes stand for.             *)
Root == << [origin |-> Nothing, base |-> <<>>] >>
\* Seeded bug: a Swagger 2 document has no server.
ParseServersOf3(doc) ==
  IF doc.flavor # "openapi3" \/ Declared(doc, "servers", <<>>) = <<>> THEN Root ELSE doc.servers
ParseServers(doc) ==
  IF doc.flavor = "openapi3" THEN IF Declared(doc, "servers", <<>>) = <<>> THEN Root ELSE doc.servers
  ELSE LET base == Declared(doc, "basePath", <<>>) IN
       IF ~Has(doc, "host") THEN << [origin |-> Nothing, base |-> base] >>
       ELSE [i \in DOMAIN doc.protocols |-> [origin |-> <<doc.protocols[i], doc.host>>, base |-> base]]

ParseAuthScheme(raw) ==
  CASE raw.type = "apiKey" ->
         IF raw.name = Nothing THEN "unknown" ELSE IF raw.in = "cookie" THEN "cookie" ELSE "apiKey"
    [] raw.type = "http" ->
         IF raw.scheme = "basic" THEN "basic"
         ELSE IF raw.scheme # "bearer" THEN "custom" ELSE IF raw.jwt THEN "jwt" ELSE "bearer"
    [] raw.type = "basic" -> "basic"
    [] raw.type \in {"oauth2", "openIdConnect"} -> "oauth2"
    [] raw.type = "mutualTLS" -> "custom"
    [] OTHER -> "unknown"

\* No `security` inherits; an empty one says that nothing is needed.
ParseSecurity(record) ==
  IF ~Has(record, "security") THEN <<>>
  ELSE IF record.security = <<>> THEN << {} >> ELSE record.security

-----------------------------------------------------------------------------
(* Parameters                                                              *)
Body == {"body", "formData"}
ParameterSchema(doc, raw) == Component(doc, raw.schema).schema
ParseParameter(doc, raw) ==
  IF ~({"name", "in"} \subseteq DOMAIN raw) \/ raw.in \notin {"path", "query", "header", "cookie"} THEN {}
  ELSE {[in |-> raw.in, name |-> raw.name, required |-> raw.in = "path" \/ raw.required,
         schema |-> ParameterSchema(doc, raw), example |-> Nothing]}
ParseParameters(doc, entries) ==
  FlattenSeq([i \in DOMAIN entries |->
    SetToSeq(UNION {ParseParameter(doc, raw) :
                      raw \in {r \in Deref(doc, entries[i]) : ~(Has(r, "in") /\ r.in \in Body)}})])

\* Seeded bug: the path's parameter stands, not the operation's.
MergeParametersFirst(shared, own) ==
  LET all == shared \o own IN
  {all[i] : i \in {j \in DOMAIN all : \A k \in 1 .. j - 1 : ~SameParameter(all[k], all[j])}}
\* Of those with one name and place, the operation's last one.
MergeParameters(shared, own) ==
  LET all == shared \o own IN
  {all[i] : i \in {j \in DOMAIN all : \A k \in j + 1 .. Len(all) : ~SameParameter(all[k], all[j])}}

-----------------------------------------------------------------------------
(* Bodies and answers                                                      *)
MediaBody(type, schema) == [mediaType |-> type, json |-> type \in ToSet(JsonMedia), schema |-> schema]
ParseContent(doc, content) ==
  [i \in DOMAIN content |->
     MediaBody(content[i].type, IF Has(content[i], "schema") THEN Component(doc, content[i].schema).schema
                                ELSE Unknown)]
ParseRequestBody(doc, op) ==
  IF ~Has(op, "requestBody") THEN <<>>
  ELSE LET bodies == Deref(doc, op.requestBody) IN
       IF bodies = {} THEN <<>> ELSE ParseContent(doc, (CHOOSE b \in bodies : TRUE).content)

\* swagger2RequestBody(): the body parameter, else the form's fields as an object.
Swagger2RequestBody(doc, op) ==
  LET raws == FlattenSeq([i \in DOMAIN op.parameters |-> SetToSeq(Deref(doc, op.parameters[i]))])
      In(where) == SelectSeq(raws, LAMBDA r : Has(r, "in") /\ r.in = where)
      consumes == Declared(op, "consumes", Declared(doc, "consumes", <<>>))
      Each(types, schema) == [i \in DOMAIN types |-> MediaBody(types[i], schema)]
      fields == In("formData")
  IN IF In("body") # <<>>
     THEN Each(IF consumes = <<>> THEN << Head(JsonMedia) >> ELSE consumes,
               Component(doc, Head(In("body")).schema).schema)
     ELSE IF fields = <<>> THEN <<>>
     ELSE Each(IF consumes # <<>> THEN consumes
               ELSE IF \E f \in ToSet(fields) : f.file THEN <<"multipart">> ELSE <<"form">>,
               Object([n \in {f.name : f \in ToSet(fields)} |->
                         LET f == CHOOSE x \in ToSet(fields) : x.name = n
                         IN Property(f.required, Component(doc, f.schema).schema)]))

Swagger2ResponseContent(doc, op, raw) ==
  LET produces == Declared(op, "produces", Declared(doc, "produces", <<>>)) IN
  IF ~Has(raw, "schema") THEN <<>>
  ELSE [i \in DOMAIN (IF produces = <<>> THEN << Head(JsonMedia) >> ELSE produces) |->
          MediaBody((IF produces = <<>> THEN << Head(JsonMedia) >> ELSE produces)[i],
                    Component(doc, raw.schema).schema)]
ParseResponses(doc, op) ==
  FlattenSeq([i \in DOMAIN op.responses |->
    SetToSeq({[status |-> op.responses[i].status,
               content |-> IF doc.flavor = "swagger2" THEN Swagger2ResponseContent(doc, op, raw)
                           ELSE ParseContent(doc, Declared(raw, "content", <<>>))] :
                raw \in Deref(doc, op.responses[i].value)})])

-----------------------------------------------------------------------------
(* Operations: what a path declares, unless the operation declares it.     *)
ParseOperation(doc, item, op) ==
  [method |-> op.method, path |-> item.path,
   parameters |-> MergeParameters(ParseParameters(doc, item.parameters), ParseParameters(doc, op.parameters)),
   body |-> IF doc.flavor = "swagger2" THEN Swagger2RequestBody(doc, op) ELSE ParseRequestBody(doc, op),
   responses |-> ParseResponses(doc, op),
   security |-> ParseSecurity(op),
   servers |-> IF Declared(op, "servers", <<>>) # <<>> THEN op.servers
               ELSE IF doc.flavor = "openapi3" THEN Declared(item, "servers", <<>>) ELSE <<>>]
ParsePaths(doc) ==
  FlattenSeq([i \in DOMAIN doc.paths |->
    [j \in DOMAIN doc.paths[i].operations |->
       ParseOperation(doc, doc.paths[i], doc.paths[i].operations[j])]])
ParseOpenApi(doc) ==
  [endpoints |-> ParsePaths(doc), servers |-> ParseServers(doc), security |-> ParseSecurity(doc),
   schemes |-> [id \in DOMAIN doc.schemes |-> ParseAuthScheme(doc.schemes[id])]]

-----------------------------------------------------------------------------
(* The same description in the words of Swagger 2, for documents that say  *)
(* nothing Swagger cannot say: one server, one schema for all media.       *)
With(record, field, value) == (field :> value) @@ record
FormField(name, object) ==
  [in |-> "formData", name |-> name, required |-> name \in object.required, file |-> FALSE,
   schema |-> object.properties[name]]
SwaggerBody(content) ==
  LET schema == Head(content).schema IN
  IF Head(content).type = "form" /\ Has(schema, "properties")
  THEN SetToSeq({FormField(n, schema) : n \in DOMAIN schema.properties})
  ELSE << [in |-> "body", name |-> "body", required |-> TRUE, schema |-> schema] >>
SwaggerOperation(doc, op) ==
  LET content == IF Has(op, "requestBody") THEN (CHOOSE b \in Deref(doc, op.requestBody) : TRUE).content
                 ELSE <<>>
      Types(c) == [i \in DOMAIN c |-> c[i].type]
      answers == [i \in DOMAIN op.responses |-> CHOOSE r \in Deref(doc, op.responses[i].value) : TRUE]
      produced == [i \in DOMAIN answers |-> Types(Declared(answers[i], "content", <<>>))]
      Answer(r) == IF Declared(r, "content", <<>>) = <<>> THEN [empty |-> TRUE]
                   ELSE [schema |-> Head(r.content).schema]
  IN With(With(With(With(op, "parameters", op.parameters \o IF content = <<>> THEN <<>> ELSE SwaggerBody(content)),
            "consumes", Types(content)),
       "produces", IF \E p \in ToSet(produced) : p # <<>>
                   THEN CHOOSE p \in ToSet(produced) : p # <<>> ELSE <<>>),
       "responses", [i \in DOMAIN answers |-> [op.responses[i] EXCEPT !.value = Answer(answers[i])]])
SwaggerScheme(raw) == IF raw.type = "http" /\ raw.scheme = "basic" THEN [type |-> "basic"] ELSE raw
Swagger(doc) ==
  LET server == Head(ParseServers(doc))
      place == IF server.origin = Nothing THEN [basePath |-> server.base]
               ELSE [host |-> server.origin[2], protocols |-> << server.origin[1] >>, basePath |-> server.base]
  IN place @@ [doc EXCEPT !.flavor = "swagger2",
       !.paths = [i \in DOMAIN @ |-> [@[i] EXCEPT !.operations =
                    [j \in DOMAIN @ |-> SwaggerOperation(doc, @[j])]]],
       !.schemes = [id \in DOMAIN @ |-> SwaggerScheme(@[id])]]

(* The two spellings of one description are imported as one API: neither   *)
(* account finds anything about the other (parseOpenApi()).                *)
SpellingsAgree(doc) ==
  LET one == ParseOpenApi(doc) other == ParseOpenApi(Swagger(doc)) IN
  CompareSpecs(one, other) = {} /\ CompareSpecs(other, one) = {}

(* Of an operation every parameter is known once, as the operation says    *)
(* where path and operation both do, and it is open to everybody exactly   *)
(* when it, or else the document, says so (parseOperation()).              *)
Known(doc, entries) == UNION {Deref(doc, entries[i]) : i \in DOMAIN entries}
OperationsMeanDocument(doc) ==
  LET spec == ParseOpenApi(doc) IN
  \A i \in DOMAIN doc.paths : \A op \in ToSet(doc.paths[i].operations) :
    \E e \in ToSet(spec.endpoints) :
      /\ e.method = op.method /\ e.path = doc.paths[i].path
      /\ \A p, q \in e.parameters : SameParameter(p, q) => p = q
      /\ \A raw \in Known(doc, op.parameters) : ~Has(raw, "$ref") /\ raw.in \notin Body =>
           \E p \in e.parameters : /\ SameParameter(p, raw)
                                   /\ p.required = (raw.in = "path" \/ raw.required)
                                   /\ p.schema = ParameterSchema(doc, raw)
      /\ \A raw \in Known(doc, doc.paths[i].parameters) : ~Has(raw, "$ref") /\ raw.in \notin Body =>
           \E p \in e.parameters : SameParameter(p, raw)
      /\ LET options == EffectiveSecurity(spec, e) IN
         (options = <<>> \/ {} \in ToSet(options))
           = (LET said == IF Has(op, "security") THEN op.security ELSE Declared(doc, "security", <<>>)
              IN said = <<>> \/ {} \in ToSet(said))
=============================================================================

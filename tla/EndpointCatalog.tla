--------------------------- MODULE EndpointCatalog ---------------------------
(***************************************************************************)
(* The catalog of a session (ProjectSession of project.ts): the APIs that  *)
(* were imported and the endpoint index over them (catalog.ts), which is   *)
(* built when it is asked for and kept until an API is added.              *)
(* A path is a sequence of segments [param, name]; a term is a sequence of *)
(* parts of a word, so that one may begin another; an id is a number in    *)
(* the order ids are sorted.                                               *)
(***************************************************************************)
EXTENDS Integers, Sequences, FiniteSets, SequencesExt, Selection

CONSTANTS
  Api,       \* the descriptions that can be imported, records [id, endpoints]
  Request,   \* requests seen somewhere, records [method, path]
  Query,     \* searches, records [terms, method, tag, spec, limit], "any" if not given
  None

VARIABLES
  apis,      \* what is imported, in the order the ids first were
  cached,    \* endpointIndex: the records it holds, or None
  answer     \* what was last asked since the last import, and the answer

catalogVars == <<apis, cached, answer>>

\* A normalized path has no empty segment (normalizePath()).
IsEndpoint(e) ==
  e.id \in Int /\ e.path \in Seq([param : BOOLEAN, name : STRING]) /\ IsFiniteSet(DOMAIN e.fields)
CatalogAssumption ==
  /\ \A api \in Api : /\ api.endpoints \in Seq(ToSet(api.endpoints))
                      /\ \A e \in ToSet(api.endpoints) : IsEndpoint(e)
  /\ \A r \in Request : r.path \in Seq(STRING \ {""}) /\ "terms" \notin DOMAIN r
  /\ \A q \in Query : /\ q.terms \in Seq(ToSet(q.terms)) /\ q.limit \in Nat
                      /\ "path" \notin DOMAIN q

-----------------------------------------------------------------------------
(* EndpointIndex                                                           *)
RecordsOf(specs) ==
  FlattenSeq([i \in DOMAIN specs |->
    [j \in DOMAIN specs[i].endpoints |->
       [spec |-> specs[i].id, endpoint |-> specs[i].endpoints[j]]]])

\* Sorted stably: what compares equal stays in the order of the records.
Sorted(records, Before(_, _)) ==
  LET order == Ranked(DOMAIN records, LAMBDA i, j :
        \/ Before(records[i], records[j])
        \/ ~Before(records[j], records[i]) /\ i < j)
  IN [i \in DOMAIN records |-> records[order[i]]]

\* matchPath(): the values of the parameters, of a name the last one.
MatchPath(template, path) ==
  IF /\ Len(template) = Len(path)
     /\ \A i \in DOMAIN path : IF template[i].param THEN path[i] # ""
                               ELSE template[i].name = path[i]
  THEN {[n \in {template[i].name : i \in {j \in DOMAIN template : template[j].param}} |->
           path[CHOOSE i \in DOMAIN template :
                  /\ template[i].param /\ template[i].name = n
                  /\ \A j \in i + 1 .. Len(template) : template[j] # template[i]]]}
  ELSE {}
FillPath(template, values) ==
  [i \in DOMAIN template |-> IF template[i].param THEN values[template[i].name] ELSE template[i].name]

\* match(): every endpoint a request fits, the most specific first.
Captured(record, path) == CHOOSE values \in MatchPath(record.endpoint.path, path) : TRUE
Match(records, method, path) ==
  LET fits == Picked(records, {i \in DOMAIN records :
                /\ records[i].endpoint.method = method
                /\ MatchPath(records[i].endpoint.path, path) # {}})
      Count(r) == Cardinality(DOMAIN Captured(r, path))
  IN Sorted(fits, LAMBDA l, r : \/ Count(l) < Count(r)
                                \/ Count(l) = Count(r) /\ l.endpoint.id < r.endpoint.id)

\* FIELD_WEIGHTS, doubled, as the beginning of a word counts one half.
Weight(field) == CASE field \in {"path", "operationId"} -> 6
                   [] field \in {"summary", "tags"} -> 4
                   [] OTHER -> 2
Begins(token, term) == IsPrefix(term, token) \/ IsPrefix(token, term)
Hit(tokens, term, weight) ==
  IF term \in tokens THEN weight
  ELSE IF \E t \in tokens : Begins(t, term) THEN weight \div 2 ELSE 0
Score(record, terms) ==
  FoldLeft(LAMBDA total, term :
             FoldSet(LAMBDA f, t : t + Hit(record.endpoint.fields[f], term, Weight(f)),
                     total, DOMAIN record.endpoint.fields), 0, terms)
MatchedOn(record, terms) ==
  {f \in DOMAIN record.endpoint.fields :
     \E term \in ToSet(terms) : Hit(record.endpoint.fields[f], term, Weight(f)) > 0}

\* A score is an average over the terms and must exceed a hundredth.
Scores(record, terms) == 50 * Score(record, terms) > Len(terms)
Capped(seq, n) == SubSeq(seq, 1, IF Len(seq) < n THEN Len(seq) ELSE n)

Admits(query, r) ==
  /\ query.spec \in {"any", r.spec}
  /\ query.method \in {"any", r.endpoint.method}
  /\ query.tag = "any" \/ query.tag \in r.endpoint.tags
Search(records, query) ==
  LET hits == Picked(records, {i \in DOMAIN records :
                Admits(query, records[i]) /\ Scores(records[i], query.terms)})
      Before(l, r) == \/ Score(l, query.terms) > Score(r, query.terms)
                      \/ Score(l, query.terms) = Score(r, query.terms) /\ l.endpoint.id < r.endpoint.id
      sorted == Sorted(hits, Before)
  IN IF query.terms = <<>> THEN <<>> ELSE Capped(sorted, query.limit)

\* duplicates(): endpoints that are one but for what their parameters are called.
PathSignature(path) ==
  [i \in DOMAIN path |-> IF path[i].param THEN [path[i] EXCEPT !.name = ""] ELSE path[i]]
Signature(e) == <<e.method, PathSignature(e.path)>>
Duplicates(records) ==
  {g \in {{i \in DOMAIN records : Signature(records[i].endpoint) = s} :
            s \in {Signature(r.endpoint) : r \in ToSet(records)}} : Cardinality(g) > 1}

-----------------------------------------------------------------------------
(* ProjectSession                                                          *)
CatalogInit == apis = <<>> /\ cached = None /\ answer = None

\* addSpec(): a description with the id of another takes its place.
WithApi(api) ==
  IF \E i \in DOMAIN apis : apis[i].id = api.id
  THEN [i \in DOMAIN apis |-> IF apis[i].id = api.id THEN api ELSE apis[i]]
  ELSE Append(apis, api)
\* Seeded bug: an import does not invalidate the endpoint index.
KeptIndex == cached
AfterImport == None
ImportApi(api) == apis' = WithApi(api) /\ cached' = AfterImport /\ answer' = None

\* endpoints(): the index, built when there is none.
Endpoints == IF cached = None THEN RecordsOf(apis) ELSE cached
Ask ==
  /\ cached' = Endpoints
  /\ \/ \E q \in Query : answer' = [asked |-> q, found |-> Search(Endpoints, q), of |-> apis]
     \/ \E r \in Request :
          answer' = [asked |-> r, found |-> Match(Endpoints, r.method, r.path), of |-> apis]
  /\ UNCHANGED apis

CatalogNext == (\E api \in Api : ImportApi(api)) \/ Ask

CatalogSpec == CatalogInit /\ [][CatalogNext]_catalogVars

-----------------------------------------------------------------------------
Found(kind) == answer # None /\ kind \in DOMAIN answer.asked

\* No parameter of a template has the name of another.
Distinct(path) ==
  \A i, j \in DOMAIN path : i # j /\ path[i].param /\ path[j].param => path[i].name # path[j].name
Instances(records, request) ==
  {r \in ToSet(records) : /\ r.endpoint.method = request.method
                          /\ Len(r.endpoint.path) = Len(request.path)
                          /\ \A i \in DOMAIN request.path :
                               r.endpoint.path[i].param \/ r.endpoint.path[i].name = request.path[i]}
Covers(q, p) == \A i \in DOMAIN p : q[i].param \/ p[i] = q[i]
Refines(p, q) == Covers(q, p) /\ ~Covers(p, q)

(* A request is attributed to every endpoint of the catalog as it is whose *)
(* template it is an instance of, with the values that make it one, and a  *)
(* template that says more comes before one that says less (match()).      *)
RequestsAreAttributed ==
  Found("path") =>
    LET records == RecordsOf(answer.of) path == answer.asked.path found == answer.found IN
    /\ ToSet(found) = Instances(records, answer.asked)
    /\ \A i \in DOMAIN found : Distinct(found[i].endpoint.path) =>
         /\ FillPath(found[i].endpoint.path, Captured(found[i], path)) = path
         /\ \A j \in {k \in DOMAIN found : Distinct(found[k].endpoint.path)} :
              Refines(found[i].endpoint.path, found[j].endpoint.path) => i < j

(* A search answers from the catalog as it is: whatever order the APIs     *)
(* were imported in, its best results by score and id, each for a field it *)
(* matched on (search()).                                                  *)
Reimported(specs) == RecordsOf(Reverse(specs))
UniqueIds(records) == IsInjective([i \in DOMAIN records |-> records[i].endpoint.id])
SearchesAreReproducible ==
  Found("terms") =>
    LET records == RecordsOf(answer.of) query == answer.asked found == answer.found IN
    /\ found = Search(records, query)
    /\ UniqueIds(records) => found = Search(Reimported(answer.of), query)
    /\ \A r \in ToSet(found) : MatchedOn(r, query.terms) # {}
    /\ \A r \in ToSet(records) \ ToSet(found) :
         Admits(query, r) /\ Scores(r, query.terms) =>
           /\ Len(found) = query.limit
           /\ \A f \in ToSet(found) : Score(r, query.terms) <= Score(f, query.terms)
=============================================================================

---------------------------- MODULE SpecComparison ----------------------------
(***************************************************************************)
(* Two accounts of one API compared (compareSpecs() of conflicts.ts), with *)
(* what of an endpoint that takes (endpoint.ts, auth.ts).                  *)
(* A path is a sequence of segments, a status its class and its code, 0    *)
(* for none; a security option is the set of schemes it asks for.          *)
(***************************************************************************)
EXTENDS ApiSchema

CONSTANT Nothing   \* no base, no body, no example

Segment(name) == [param |-> FALSE, name |-> name]
Param(name) == [param |-> TRUE, name |-> name]
PathSignature(path) == [i \in DOMAIN path |-> IF path[i].param THEN Param("") ELSE path[i]]

\* successResponse(): the lowest 2xx, else the range, else the catch-all.
SuccessResponse(e) ==
  LET with(class, codes) ==
        {r \in ToSet(e.responses) : r.status.class = class /\ r.status.code \in codes}
      concrete == {r \in with(2, 200 .. 299) :
                     \A x \in with(2, 200 .. 299) : r.status.code <= x.status.code}
  IN IF concrete # {} THEN concrete ELSE IF with(2, {0}) # {} THEN with(2, {0}) ELSE with(0, {0})

\* preferredBody(): JSON where there is some.
PreferredBody(content) ==
  LET json == SelectSeq(content, LAMBDA b : b.json) IN
  IF json # <<>> THEN {Head(json)} ELSE IF content # <<>> THEN {Head(content)} ELSE {}

EffectiveSecurity(spec, e) == IF e.security # <<>> THEN e.security ELSE spec.security
ReferencedSchemeIds(options) == UNION ToSet(options)

-----------------------------------------------------------------------------
(* align(): a base path may be in the server's URL or in the path.         *)
Servers(spec, e) == IF e.servers # <<>> THEN e.servers ELSE spec.servers
BasePaths(servers) ==
  SelectSeq([i \in DOMAIN servers |-> servers[i].base],
            LAMBDA b : b # <<>> /\ \A i \in DOMAIN b : ~b[i].param)
AlignedPaths(spec, e) ==
  LET bases == BasePaths(Servers(spec, e)) IN
  << e.path >> \o [i \in DOMAIN bases |-> bases[i] \o e.path]
Align(spec, e) ==
  LET paths == AlignedPaths(spec, e) IN
  [i \in DOMAIN paths |->
     [endpoint |-> e, path |-> paths[i], key |-> <<e.method, PathSignature(paths[i])>>]]
AlignAll(spec) == FlattenSeq([i \in DOMAIN spec.endpoints |-> Align(spec, spec.endpoints[i])])

\* The first way of writing it that the other account has, and who has it first.
Counterpart(expected, actual, e) ==
  LET with(key) == SelectSeq(AlignAll(actual), LAMBDA a : a.key = key)
      found == SelectSeq(Align(expected, e), LAMBDA a : with(a.key) # <<>>)
  IN IF found = <<>> THEN {}
     ELSE {[endpoint |-> Head(with(Head(found).key)).endpoint,
            renamed |-> Head(found).path # Head(with(Head(found).key)).path]}

-----------------------------------------------------------------------------
(* compareEndpoints()                                                      *)
Scalar == {"string", "number", "integer", "boolean", "enum"}

\* A scalar is sent as text; only an enumeration can be contradicted by it.
CompareParameterSchemas(p, q) ==
  IF q.schema.kind = "string" /\ p.schema.kind \in Scalar
  THEN IF p.schema.kind = "enum" /\ q.example # Nothing
          /\ q.example \notin {v[2] : v \in p.schema.values}
       THEN Error("ENUM_MISMATCH", <<p.name>>) ELSE {}
  ELSE Diff(p.schema, q.schema, <<p.name>>, 10, 0)

SameParameter(p, q) == p.in = q.in /\ p.name = q.name
CompareParameters(E, A) ==
  UNION {LET same == {q \in A : SameParameter(p, q)} IN
         IF same = {} THEN IF p.required THEN Error("PARAMETER_MISSING", <<p.name>>) ELSE {}
         ELSE UNION {(IF p.required /\ ~q.required
                      THEN Warning("PARAMETER_REQUIREDNESS", <<p.name>>) ELSE {})
                     \cup CompareParameterSchemas(p, q) : q \in same} : p \in E}
  \cup {Conflict("PARAMETER_UNDOCUMENTED", IF q.in = "header" THEN "info" ELSE "warning", <<q.name>>) :
          q \in {x \in A : \A p \in E : ~SameParameter(p, x)}}

CompareRequestBodies(e, a) ==
  UNION {IF m.mediaType # n.mediaType THEN Error("MEDIA_TYPE_MISMATCH", <<>>)
         ELSE Diff(m.schema, n.schema, <<"body">>, 10, 0) :
           <<m, n>> \in PreferredBody(e.body) \X PreferredBody(a.body)}

CompareResponses(e, a) ==
  LET Statuses(x) == {r.status : r \in ToSet(x.responses)} IN
  (IF Statuses(e) # {} /\ ~(Statuses(a) \subseteq Statuses(e))
   THEN Warning("STATUS_UNDOCUMENTED", <<>>) ELSE {})
  \cup UNION {Diff(m.schema, n.schema, <<"response">>, 10, 0) :
                <<m, n>> \in UNION {PreferredBody(r.content) \X PreferredBody(s.content) :
                                      <<r, s>> \in SuccessResponse(e) \X SuccessResponse(a)}}

\* Seeded bug: a JWT is a credential of its own.
CredentialFamilyApart(kind) == kind
\* A JWT is a bearer token; what schemes are called does not matter.
CredentialFamily(kind) == IF kind = "jwt" THEN "bearer" ELSE kind
CredentialKinds(spec, e) ==
  {CredentialFamily(IF id \in DOMAIN spec.schemes THEN spec.schemes[id] ELSE "unknown") :
     id \in ReferencedSchemeIds(EffectiveSecurity(spec, e))}
\* Seeded bug: all of what is documented must be sent, and not one of it.
CompareAuthAll(expected, actual, e, a) ==
  LET E == CredentialKinds(expected, e) A == CredentialKinds(actual, a) IN
  IF E # {} /\ A # {} /\ ~(E \subseteq A) THEN Error("AUTH_MISMATCH", <<>>) ELSE {}
CompareAuth(expected, actual, e, a) ==
  LET E == CredentialKinds(expected, e) A == CredentialKinds(actual, a) IN
  IF E # {} /\ A # {} /\ E \cap A = {} THEN Error("AUTH_MISMATCH", <<>>) ELSE {}

CompareEndpoints(expected, actual, e, a) ==
  CompareParameters(e.parameters, a.parameters) \cup CompareRequestBodies(e, a)
  \cup CompareResponses(e, a) \cup CompareAuth(expected, actual, e, a)

\* A relative server has no origin, and cannot conflict.
CompareServers(expected, actual) ==
  LET Origins(spec) == {s.origin : s \in ToSet(spec.servers)}
      comparable == Origins(actual) \ {Nothing}
  IN IF expected.servers # <<>> /\ ~(comparable \subseteq Origins(expected))
     THEN Warning("SERVER_MISMATCH", <<>>) ELSE {}

Of(e, conflicts) == {<<e, c>> : c \in conflicts}
CompareSpecs(expected, actual) ==
  LET pairs == {<<e, c>> \in UNION {{e} \X Counterpart(expected, actual, e) :
                                      e \in ToSet(expected.endpoints)} : TRUE}
      matched == {p[2].endpoint : p \in pairs}
  IN UNION {Of(e, Warning("ENDPOINT_MISSING", <<>>)) :
              e \in ToSet(expected.endpoints) \ {p[1] : p \in pairs}}
     \cup UNION {Of(p[1], (IF p[2].renamed THEN Info("PATH_PARAMETER_RENAMED", <<>>) ELSE {})
                          \cup CompareEndpoints(expected, actual, p[1], p[2].endpoint)) : p \in pairs}
     \cup UNION {Of(a, Warning("ENDPOINT_UNDOCUMENTED", <<>>)) :
                   a \in ToSet(actual.endpoints) \ matched}
     \cup Of(Nothing, CompareServers(expected, actual))

-----------------------------------------------------------------------------
(* What a client records that does as an account says: the base path is in *)
(* the path, whose parameters have other names; what is required is sent,  *)
(* as text; a JWT is the token; and one answer of each body was seen, with *)
(* the status it had: some 2xx for a range, some other for the catch-all.  *)
Renamed(path) == [i \in DOMAIN path |-> IF path[i].param THEN Param("x") ELSE path[i]]
TextOf(schema) == IF schema.kind = "enum" THEN (CHOOSE v \in schema.values : TRUE)[2] ELSE "text"
Sent(parameters) ==
  {[p EXCEPT !.schema = Plain("string"), !.example = TextOf(p.schema)] :
     p \in {q \in parameters : q.required}}
SeenOf(content, values) ==
  {<<[m EXCEPT !.schema = InferSchema(<<v>>)]>> : <<m, v>> \in
     {x \in PreferredBody(content) \X values : Accepts(x[1].schema, x[2])}}
Status(class, code) == [class |-> class, code |-> code]
SeenStatus(status) ==
  IF status.code # 0 THEN {status}
  ELSE {Status(2, 201)} \cup IF status.class = 0 THEN {Status(4, 404)} ELSE {}
AnswersOf(e, values) ==
  {<<>>} \cup UNION {{<<[status |-> s, content |-> c]>> :
                       s \in SeenStatus(r.status), c \in SeenOf(r.content, values) \cup {<<>>}} :
                     r \in SuccessResponse(e)}
ObservedOf(spec, e, values) ==
  LET bases == BasePaths(Servers(spec, e)) IN
  {[e EXCEPT !.path = Renamed((IF bases = <<>> THEN <<>> ELSE Head(bases)) \o e.path), !.servers = <<>>,
             !.parameters = Sent(e.parameters), !.body = b, !.responses = answer] :
     b \in SeenOf(e.body, values) \cup {<<>>}, answer \in AnswersOf(e, values)}
Observed(spec, values) ==
  {[spec EXCEPT !.endpoints = <<e>>, !.servers = <<>>,
      !.schemes = [id \in DOMAIN spec.schemes |->
                     IF spec.schemes[id] = "bearer" THEN "jwt" ELSE spec.schemes[id]]] :
     e \in UNION {ObservedOf(spec, x, values) : x \in ToSet(spec.endpoints)}}

\* No two endpoints of an account can be reached in one way.
Unambiguous(spec) == IsInjective([i \in DOMAIN AlignAll(spec) |-> AlignAll(spec)[i].key])
Coded(conflicts, codes) == {x \in conflicts : x[2].code \in codes}

(* Who follows an account is in no conflict with it: nothing of what was   *)
(* observed is called an error or undocumented, but for a status that the  *)
(* account has only under a range or the catch-all, as statuses are        *)
(* compared as they are written; and the account agrees with itself        *)
(* (compareSpecs()).                                                       *)
FollowersDoNotConflict(spec, values) ==
  Unambiguous(spec) =>
    /\ CompareSpecs(spec, spec) = {}
    /\ \A seen \in Observed(spec, values) :
         LET found == CompareSpecs(spec, seen) IN
         /\ {x \in found : x[2].severity = "error"} = {}
         /\ Coded(found, {"ENDPOINT_UNDOCUMENTED"}) = {}
         /\ \A x \in Coded(found, {"STATUS_UNDOCUMENTED"}) :
              \A r \in SuccessResponse(x[1]) : r.status.code = 0
         /\ Cardinality(Coded(found, {"ENDPOINT_MISSING"})) = Len(spec.endpoints) - 1

(* Seen from either side, no endpoint that both accounts have is missing,  *)
(* and the credentials they disagree on are the same (compareSpecs(),      *)
(* compareAuth()).                                                         *)
ComparisonIsMutual(expected, actual) ==
  LET there == CompareSpecs(expected, actual)
      back == CompareSpecs(actual, expected)
      Ways(spec, e) == {a.key : a \in ToSet(Align(spec, e))}
      Both(e, a) == Ways(expected, e) \cap Ways(actual, a) # {}
      Who(found, code) == {x[1] : x \in Coded(found, {code})}
  IN /\ \A e \in ToSet(expected.endpoints) :
          (e \in Who(there, "ENDPOINT_MISSING")) = (\A a \in ToSet(actual.endpoints) : ~Both(e, a))
     /\ \A a \in ToSet(actual.endpoints) :
          a \in Who(back, "ENDPOINT_MISSING") => a \in Who(there, "ENDPOINT_UNDOCUMENTED")
     /\ Len(expected.endpoints) = 1 /\ Len(actual.endpoints) = 1 =>
          (Who(there, "AUTH_MISMATCH") = {}) = (Who(back, "AUTH_MISMATCH") = {})
=============================================================================

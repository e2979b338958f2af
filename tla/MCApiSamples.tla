----------------------------- MODULE MCApiSamples -----------------------------
(***************************************************************************)
(* Inputs for the laws about descriptions of APIs: values and schemas,     *)
(* pairs of accounts, JSON schemas over two components, and documents; and *)
(* the ways of writing a call down.                                        *)
(***************************************************************************)
EXTENDS DocImport, TLC

St(x) == <<"string", x>>
In(x) == <<"integer", x>>
Nu(x) == <<"number", x>>
Obj(f) == <<"object", f>>
Arr(s) == <<"array", s>>
FieldsOf(values, names) == UNION {[D -> values] : D \in SUBSET names}

-----------------------------------------------------------------------------
(* Values of every type, up to two fields or items, and schemas for them.  *)
Scalars == {Null, St("a"), St("b"), In(1), Nu(1)}
Flat ==
  Scalars \cup {Arr(<<>>)} \cup {Arr(<<v>>) : v \in Scalars}
  \cup {Arr(<<v, w>>) : v, w \in {Null, St("a"), In(1), Nu(1)}}
Values ==
  Flat \cup {Obj(f) : f \in FieldsOf(Scalars \cup {Arr(<<In(1)>>), Arr(<<St("a")>>)}, {"f", "g"})}
  \cup {Arr(<<Obj(f)>>) : f \in FieldsOf({St("a"), In(1), Null}, {"f"})}

Base ==
  {Plain("string"), Plain("integer"), Plain("number"), Unknown, Enum({St("a")}),
   Enum({St("a"), St("b")}), RefTo("R", TRUE), RefTo("Q", TRUE)}
Mixed ==
  {Nullable(b) : b \in {Plain("string"), Plain("integer"), Enum({St("a")})}}
  \cup {Union(<<Plain("string"), Plain("integer")>>), Union(<<Plain("integer"), Enum({St("a")})>>),
        Nullable(Union(<<Plain("number"), Plain("string")>>))}
Sub == {Plain("string"), Nullable(Plain("integer")), Plain("number"), Enum({St("a")}), Unknown}
Objects ==
  {Object(f) : f \in FieldsOf({Property(r, x) : r \in BOOLEAN, x \in Sub}, {"f"})}
  \cup {Object("f" :> Property(TRUE, x) @@ "g" :> Property(r, Plain("integer"))) :
          r \in BOOLEAN, x \in Sub}
O == Object("f" :> Property(TRUE, Plain("string")))
Schemas ==
  Base \cup Mixed \cup Objects \cup {Array(x) : x \in Sub}
  \cup {Array(O), Nullable(Array(Plain("integer"))), Object("f" :> Property(FALSE, Array(Plain("string"))))}
Samples ==
  {<<v>> : v \in Values} \cup {<<v, w>> : v, w \in Flat}
  \cup {<<Obj(f), Obj(g)>> : f, g \in FieldsOf({St("a"), In(1), Nu(1), Null}, {"f", "g"})}

-----------------------------------------------------------------------------
(* Accounts of one API: base paths in servers and in paths, every          *)
(* preference of a body and an answer, and schemes under two names.        *)
Text(n) == <<"integer", n>>
SentValues ==
  {Null, St("a"), Text("1"), Arr(<<>>), Obj("f" :> St("a")), Obj("f" :> St("b") @@ "g" :> Text("1"))}
Body1(type, schema) == [mediaType |-> type, json |-> type = "json", schema |-> schema]
Resp(class, code, content) == [status |-> [class |-> class, code |-> code], content |-> content]
Par(in, n, r, s) == [in |-> in, name |-> n, required |-> r, schema |-> s, example |-> Nothing]
Ep(m, p) ==
  [method |-> m, path |-> p, servers |-> <<>>, parameters |-> {}, body |-> <<>>,
   responses |-> <<>>, security |-> <<>>]
V1 == [origin |-> "h", base |-> <<Segment("v1")>>]
Relative == [origin |-> Nothing, base |-> <<>>]
Template == [origin |-> "k", base |-> <<Param("region")>>]
Orders == <<Segment("orders")>>
One == <<Segment("orders"), Param("id")>>
Q == Enum({St("a"), Text("1")})
Reading ==
  {Ep("GET", One),
   [Ep("GET", <<Segment("orders"), Param("x")>>) EXCEPT !.security = <<{"b"}>>, !.servers = <<V1>>],
   [Ep("GET", <<Segment("v1")>> \o One) EXCEPT
      !.parameters = {Par("path", "id", TRUE, Plain("integer")), Par("query", "q", FALSE, Q)},
      !.responses = <<Resp(0, 0, <<Body1("xml", O)>>),
                      Resp(2, 201, <<Body1("xml", Plain("string")), Body1("json", Plain("integer"))>>),
                      Resp(2, 200, <<Body1("json", O)>>)>>]}
Writing ==
  {[Ep("POST", Orders) EXCEPT !.body = <<Body1("xml", Plain("string")), Body1("json", O)>>,
      !.parameters = {Par("query", "q", TRUE, Q), Par("header", "h", FALSE, Plain("string"))},
      !.security = s, !.responses = r] :
     s \in {<<>>, <<{"k"}>>, <<{"b", "k"}, {}>>},
     r \in {<<>>, <<Resp(2, 0, <<Body1("json", Nullable(O))>>)>>, <<Resp(0, 0, <<Body1("json", O)>>)>>}}
  \cup {[Ep("POST", Orders) EXCEPT
            !.body = <<Body1("json", Object("f" :> Property(FALSE, Plain("integer"))))>>],
        Ep("PUT", Orders)}
Specs ==
  {[endpoints |-> es, servers |-> sv, security |-> sec, schemes |-> ("b" :> kb) @@ ("k" :> "apiKey")] :
     es \in {<<x>> : x \in Reading \cup Writing} \cup {<<x, y>> : x \in Reading, y \in Writing}
           \cup {<<Ep("GET", Orders), Ep("GET", <<Segment("v1")>> \o Orders)>>},
     sv \in {<<>>, <<V1>>, <<Relative, Template>>}, sec \in {<<>>, <<{"b"}>>}, kb \in {"bearer", "jwt"}}
Others == {x \in Specs : x.schemes["b"] = "jwt" /\ Len(x.endpoints) = 1}

-----------------------------------------------------------------------------
(* JSON schemas in every keyword the importer knows, one inside another,   *)
(* over components that name each other and themselves.                    *)
Instances ==
  LET scalars == {Null, St("a"), Text("1"), <<"number", "h">>} IN
  scalars \cup {Arr(<<>>), Arr(<<St("a"), Text("1")>>), Obj(<<>>)} \cup {Arr(<<v>>) : v \in scalars}
  \cup {Obj("f" :> v) : v \in scalars \cup {Obj("f" :> St("a")), Obj("f" :> Null), Obj("f" :> Obj("f" :> Null))}}
  \cup {Obj("f" :> v @@ "g" :> St("a")) : v \in scalars}
T(t) == [type |-> t]
R(n) == [ref |-> [local |-> TRUE, name |-> n]]
Leaf ==
  {T("string"), T("integer"), T("null"), R("A"), R("B"), R("No"), [ref |-> [local |-> FALSE, name |-> "Far"]],
   [types |-> <<"string", "null">>], [types |-> <<"string", "integer">>], [type |-> "number", nullable |-> TRUE],
   [enum |-> {St("a"), Text("1")}], [enum |-> {St("a"), Arr(<<>>)}], [bare |-> FALSE],
   [type |-> "string", const |-> St("a")], [type |-> "array", const |-> Arr(<<>>), items |-> T("string")]}
Inner ==
  Leaf
  \cup {[type |-> "array", items |-> x] : x \in Leaf}
  \cup {[items |-> T("string")], T("array"), [type |-> "array", prefixItems |-> <<T("string"), T("integer")>>]}
  \cup {[type |-> "object", properties |-> ("f" :> x), required |-> rq] : x \in Leaf, rq \in {{}, {"f"}, {"z"}}}
  \cup {[properties |-> ("f" :> x @@ "g" :> T("string"))] : x \in Leaf}
  \cup {[allOf |-> <<x>>, nullable |-> TRUE] : x \in Leaf} \cup {[allOf |-> <<x, R("A")>>] : x \in Leaf}
  \cup {[oneOf |-> <<x, T("string")>>] : x \in Leaf} \cup {[anyOf |-> <<x>>] : x \in Leaf}
  \cup {[allOf |-> <<R("A")>>, properties |-> ("g" :> T("integer"))],
        [oneOf |-> <<T("string"), R("A")>>, anyOf |-> <<T("integer")>>],
        [type |-> "string", not |-> [enum |-> {St("a")}]], [additional |-> T("string")]}
Raws == Inner \cup {[type |-> "object", properties |-> ("f" :> x), required |-> {"f"}] : x \in Inner}
Components ==
  {("A" :> a) @@ ("B" :> b) :
     a \in {T("string"), R("B"), [type |-> "object", properties |-> ("f" :> R("A"))],
            [type |-> "object", required |-> {"f"}, properties |-> ("f" :> R("B"))], [allOf |-> <<R("B")>>]},
     b \in {[type |-> "object", required |-> {"f"}, properties |-> ("f" :> T("string"))], R("A"),
            [oneOf |-> <<T("null"), R("A")>>], [type |-> "array", items |-> R("A")]}}

-----------------------------------------------------------------------------
(* Documents of one operation: parameters of the path and by reference,    *)
(* bodies and answers in several media, and security at either level.      *)
Form == [type |-> "object", required |-> {"f"}, properties |-> ("f" :> T("string") @@ "g" :> R("A"))]
Given(in, n, r, s) == [in |-> in, name |-> n, required |-> r, schema |-> s]
Answer(class, code, v) == [status |-> [class |-> class, code |-> code], value |-> v]
Media(t, s) == [type |-> t, schema |-> s]
Shared(name) == "$ref" :> name
Op(m) == [method |-> m, parameters |-> <<>>, responses |-> <<>>]
Operations ==
  {Op("GET")} \cup {("security" :> s) @@ Op("GET") : s \in {<<>>, <<{"b"}>>, <<{"b", "k"}, {}>>}}
  \cup {[Op("GET") EXCEPT !.parameters = ps, !.responses = rs] :
     ps \in {<<Given("query", "q", TRUE, T("integer")), Shared("Id")>>,
             <<Shared("Twice"), Given("header", "h", FALSE, T("string"))>>},
     rs \in {<<Answer(2, 200, [content |-> <<Media("json", R("A"))>>]), Answer(0, 0, Shared("Err"))>>,
             <<Answer(2, 0, [content |-> <<>>])>>}}
  \cup {("requestBody" :> b) @@ Op("POST") :
     b \in {[content |-> <<Media("json", Form)>>], [content |-> <<Media("form", Form)>>],
            [content |-> <<Media("xml", R("A")), Media("json", R("A"))>>], Shared("Bod")}}
Docs ==
  {sv @@ sc @@
   [flavor |-> "openapi3", components |-> ("A" :> a),
    shared |-> [Id |-> Given("path", "id", FALSE, T("integer")), Twice |-> Shared("Id"),
                Err |-> [content |-> <<Media("json", T("string"))>>],
                Bod |-> [content |-> <<Media("json", R("A"))>>]],
    schemes |-> [b |-> [type |-> "http", scheme |-> hs, jwt |-> FALSE],
                 k |-> [type |-> "apiKey", in |-> "query", name |-> "k"]],
    paths |-> <<[path |-> <<Segment("a"), Param("id")>>, parameters |-> ps, operations |-> <<op>>]>>] :
     op \in Operations, hs \in {"basic", "bearer"},
     a \in {T("string"), [type |-> "object", properties |-> ("f" :> R("A"))]},
     sv \in {<<>>, [servers |-> <<[origin |-> <<"https", "h">>, base |-> <<Segment("v1")>>]>>]},
     sc \in {<<>>, [security |-> <<{"b"}>>], [security |-> <<>>]},
     ps \in {<<>>, <<Given("path", "id", TRUE, T("string")), Given("query", "q", FALSE, T("string"))>>}}

-----------------------------------------------------------------------------
(* Calls, and the ways of writing each of them down that the importers     *)
(* take for that call: as a command, a collection and a text.  Left out    *)
(* are ways whose account is known to be another one: in a command fields  *)
(* of a form in parts without a file; in a collection a name that is given *)
(* twice, an Authorization header that is no bearer token and a base that  *)
(* is the host's variable; in a text what has no JSON, and a statement in  *)
(* the first heading after other lines.                                    *)
Chars == {"a", " ", "'", "\"", "\\", "\n", "$", "^"}
Lines == UNION {[1 .. n -> Chars] : n \in 0 .. 4}

F(name, text) == [name |-> name, text |-> <<text>>, secret |-> text = "s3cret", file |-> text = "@"]
Ob == <<"object", "f" :> St("a")>>
None == [kind |-> "none"]
Calls ==
  {[method |-> b[1], origin |-> <<"http", "h">>, base |-> v, path |-> p, query |-> q, headers |-> h,
    auth |-> a, sent |-> b[2], body |-> b[3], answers |-> r] :
     v \in {<<>>, <<Segment("v1")>>}, p \in {<<Segment("a")>>, <<Segment("a"), Param("id")>>},
     q \in {<<>>, <<F("q", "a")>>, <<F("q", "a"), F("q", "b")>>, <<F("token", "t"), F("q", "s3cret")>>},
     h \in {<<>>, <<F("x", "a")>>}, a \in {"none", "bearer", "jwt", "basic", "apiKey"},
     b \in {<<"GET", "", <<>>>>, <<"HEAD", "", <<>>>>, <<"PUT", "json", <<Ob>>>>,
            <<"POST", "json", <<Ob>>>>, <<"POST", "form", <<F("f", "a"), F("g", "b")>>>>,
            <<"POST", "parts", <<F("f", "@"), F("g", "b")>>>>},
     r \in {<<>>, <<[code |-> 200, value |-> Ob], [code |-> 404, value |-> St("a")]>>}}

-----------------------------------------------------------------------------
(* Commands                                                                *)
Opaque == [json |-> {}, braces |-> FALSE, fields |-> <<F("?", "")>>, file |-> FALSE]
Blank ==
  [flag |-> "", inline |-> FALSE, method |-> {}, header |-> {}, part |-> Opaque, field |-> {}, url |-> {},
   text |-> <<"?">>, secret |-> FALSE]
Flag(f) == [Blank EXCEPT !.flag = f]
AsHeader(h) == <<Flag("-H"), [Blank EXCEPT !.header = {h}]>>
Inline(h) == << [Blank EXCEPT !.flag = "--header", !.inline = TRUE, !.header = {h}] >>
Data(fields) == [Blank EXCEPT !.part = [Opaque EXCEPT !.fields = fields]]
Json(v) == [Blank EXCEPT !.part = [Opaque EXCEPT !.json = {v}, !.braces = Head(v) = "object"]]
AuthHeader(a) ==
  CASE a = "apiKey" -> F("x-api-key", "k")
    [] OTHER -> [F("authorization", "") EXCEPT
                   !.text = CASE a = "jwt" -> <<"bearer", "jwt">> [] OTHER -> <<a, "opaque">>]

AuthWords(call) ==
  CASE call.auth = "none" -> {<<>>}
    [] call.auth = "basic" -> {<<Flag("-u"), Flag("-X")>>, AsHeader(AuthHeader("basic"))}
    [] OTHER -> {AsHeader(AuthHeader(call.auth)), Inline(AuthHeader(call.auth))}
BodyWords(call) ==
  CASE call.body = <<>> -> {<<>>}
    [] call.sent = "json" ->
         {<<Flag("--json"), Json(call.body[1])>>, <<Flag("-d"), Json(call.body[1])>>,
          <<Flag("--data"), Json(call.body[1])>> \o AsHeader(F("content-type", "json"))}
    [] call.sent = "form" ->
         {<<Flag("-d"), Data(call.body)>>, <<Flag("-d"), Data(<<call.body[1]>>), Flag("--data-raw"), Data(<<call.body[2]>>)>>}
    [] OTHER -> {<<Flag("-F"), [Blank EXCEPT !.field = {call.body[1]}], Flag("-F"), [Blank EXCEPT !.field = {call.body[2]}]>>}
MethodWords(call) ==
  {<<Flag("-X"), [Blank EXCEPT !.method = {call.method}]>>}
  \cup (IF call.method = (IF call.body = <<>> THEN "GET" ELSE "POST") THEN {<<>>} ELSE {})
  \cup (IF call.method = "HEAD" THEN {<<Flag("-I")>>} ELSE {})
Address(call, query) ==
  [Blank EXCEPT !.url = {[scheme |-> "", host |-> "h", path |-> call.base \o call.path, query |-> query]}]
QueryWords(call) ==
  {<<Address(call, call.query)>>, <<Flag("--url"), Address(call, call.query), Flag("-s")>>}
  \cup (IF call.body = <<>> /\ call.query # <<>>
        THEN {<<Flag("-G"), Flag("-d"), Data(call.query), Address(call, <<>>)>>} ELSE {})
HeaderWords(call) == {FlattenSeq([i \in DOMAIN call.headers |-> AsHeader(call.headers[i])])}
Commands(call) ==
  IF PathNames(call.path) # {} THEN {}
  ELSE {q \o m \o h \o a \o b : <<q, m, h, a, b>> \in
          QueryWords(call) \X MethodWords(call) \X HeaderWords(call) \X AuthWords(call) \X BodyWords(call)}
       \cup {b \o a \o h \o m \o q : <<q, m, h, a, b>> \in
          QueryWords(call) \X MethodWords(call) \X HeaderWords(call) \X AuthWords(call) \X BodyWords(call)}

-----------------------------------------------------------------------------
(* Collections                                                             *)
Entry(f, var) == f @@ [var |-> var, disabled |-> FALSE]
Off1(name) == [name |-> name, text |-> <<"off">>, secret |-> FALSE, var |-> Nothing, disabled |-> TRUE]
Entries(fields) == [i \in DOMAIN fields |-> Entry(fields[i], Nothing)] \o << Off1("off") >>
Vars(call) ==
  "baseUrl" :> [text |-> <<"http", "h">>, secret |-> FALSE, origin |-> call.origin, path |-> call.base]
  @@ "host" :> [text |-> <<"h">>, secret |-> FALSE, origin |-> Nothing, path |-> <<>>]
Urls(call) ==
  LET path == call.base \o call.path IN
  {[raw |-> [base |-> "", origin |-> call.origin, path |-> path, query |-> call.query]],
   [raw |-> [base |-> "baseUrl", path |-> call.path, query |-> call.query]],
   [raw |-> [base |-> "unknown", path |-> call.path, query |-> <<>>], query |-> Entries(call.query),
    variable |-> <<F("id", "a")>>],
   [protocol |-> "http", host |-> [var |-> "host", text |-> <<>>], path |-> path, query |-> Entries(call.query)]}
SavedBody(call) ==
  CASE call.body = <<>> -> <<>>
    [] call.sent = "json" -> [body |-> [mode |-> "raw", text |-> [json |-> {call.body[1]}]]]
    [] call.sent = "form" -> [body |-> [mode |-> "urlencoded", fields |-> Entries(call.body)]]
    [] OTHER -> [body |-> [mode |-> "formdata", fields |-> Entries(call.body)]]
SavedAnswers(call) ==
  [i \in DOMAIN call.answers |-> [code |-> call.answers[i].code, media |-> "json", json |-> {call.answers[i].value}]]
Blocks(call) ==
  CASE call.auth = "none" -> {<<>>, [auth |-> [type |-> "noauth"]]}
    [] call.auth = "apiKey" -> {[auth |-> [type |-> "apikey", key |-> "x-api-key"]]}
    [] OTHER -> {[auth |-> [type |-> IF call.auth = "jwt" THEN "bearer" ELSE call.auth]]}
Item(call, url, auth, headers) ==
  [request |-> auth @@ [method |-> call.method, url |-> url, header |-> headers] @@ SavedBody(call),
   response |-> SavedAnswers(call)]
Collections(call) ==
  IF ~IsInjective([i \in DOMAIN call.query |-> call.query[i].name]) THEN {}
  ELSE {[vars |-> Vars(call), item |-> <<Item(call, u, b, Entries(call.headers))>>] :
          u \in Urls(call), b \in Blocks(call)}
       \cup {b @@ [vars |-> Vars(call), item |-> <<[item |-> <<[item |-> <<Item(call, u, <<>>, Entries(call.headers))>>]>>]>>] :
          u \in Urls(call), b \in Blocks(call)}
       \cup (IF call.auth \in {"none", "basic"} THEN {}
             ELSE {[vars |-> Vars(call), item |-> <<[item |-> <<Item(call, u, <<>>, Entries(Append(call.headers, AuthHeader(call.auth))))>>]>>] :
                     u \in Urls(call)})

-----------------------------------------------------------------------------
(* Texts                                                                   *)
Row(in, f) == [in |-> in, name |-> f.name, required |-> FALSE, schema |-> Plain("string"), example |-> Nothing]
Rows(call) ==
  [i \in DOMAIN call.query |-> Row("query", call.query[i])]
  \o [i \in DOMAIN call.headers |-> Row("header", call.headers[i])]
  \o [i \in DOMAIN SetToSeq(PathNames(call.path)) |-> Row("query", F(SetToSeq(PathNames(call.path))[i], ""))]
Example(about, v) == [Line EXCEPT !.block = {[json |-> TRUE, about |-> about, sample |-> {v}]}]
Examples(call) ==
  (IF call.body = <<>> THEN <<>> ELSE << Example("request", call.body[1]) >>)
  \o FlattenSeq([i \in DOMAIN call.answers |->
       << [Line EXCEPT !.status = call.answers[i].code], Example("", call.answers[i].value) >>])
State(method, origin, path) == << [method |-> method, origin |-> origin, path |-> path] >>
Title == [Line EXCEPT !.heading = TRUE]
About(call, states) ==
  LET said == [Line EXCEPT !.states = states] rows == [Line EXCEPT !.rows = Rows(call)] IN
  {<<[said EXCEPT !.heading = TRUE], rows>> \o Examples(call), <<Title, Line, said, rows>> \o Examples(call),
   <<Title, rows, said>> \o Examples(call) \o << Title, Line >>, <<rows, said>> \o Examples(call)}
Texts(call) ==
  IF call.sent \in {"form", "parts"} \/ ~IsInjective([i \in DOMAIN call.query |-> call.query[i].name]) THEN {}
  ELSE {[lines |-> ls, given |-> {[origin |-> call.origin, base |-> call.base]}] :
          ls \in About(call, State(call.method, Nothing, call.path))}
       \cup {[lines |-> ls, given |-> {}] : ls \in
               About(call, State(call.method, call.origin, call.base \o call.path))
               \cup About(call, State(call.method, call.origin, call.base \o call.path)
                                \o State(call.method, Nothing, call.path))}
=============================================================================

-------------------------- MODULE MCProjectSamples --------------------------
(***************************************************************************)
(* What the agent is given to know of a project: small projects for the    *)
(* code index, catalogs and requests for plans, and indexes, skills and    *)
(* memories for a prompt.                                                  *)
(***************************************************************************)
EXTENDS Naturals, Sequences, FiniteSets, TLC

CONSTANT Nothing

(* A module, a barrel in front of it and an application, in the shapes     *)
(* imports and exports are written in.                                     *)
P(stem) == [stem |-> stem, ext |-> ".ts"]
S(stem, ext) == [package |-> FALSE, stem |-> stem, ext |-> ext]
React == [package |-> TRUE, stem |-> "react", ext |-> ""]
Core == P("core")
Barrel == P("lib-index")
App == P("app")
Files == {Core, Barrel, App}
LibIndex(stem) == IF stem = "lib" THEN "lib-index" ELSE "none"

Src(imports, exports, decls) == [imports |-> imports, exports |-> exports, decls |-> decls]
Imp(form, from, name, as) == [form |-> form, from |-> from, name |-> name, as |-> as]
Exp(name, local, from) == [name |-> name, local |-> local, from |-> from]
Use(name, kind) == [name |-> name, kind |-> kind, member |-> FALSE]
Access(name) == [name |-> name, kind |-> "call", member |-> TRUE]
Fun(name, exported, bound, uses) ==
  [name |-> name, kind |-> "function", exported |-> exported, default |-> FALSE,
   bound |-> bound, uses |-> uses, members |-> {}]
Class(name, members) ==
  [name |-> name, kind |-> "class", exported |-> TRUE, default |-> FALSE,
   bound |-> {}, uses |-> {}, members |-> members]
Member(name, uses) == [name |-> name, method |-> TRUE, bound |-> {}, uses |-> uses]
Property(name, uses) == [name |-> name, method |-> FALSE, bound |-> {}, uses |-> uses]

\* A function, and a class that uses it in a method and in a property.
CoreApi ==
  Src({}, <<>>, {Fun("get", TRUE, {"id"}, {Use("id", "read"), Use("fetch", "call")}),
                 Class("Api", {Member("load", {Use("get", "call")}), Property("base", {Use("get", "read")})})})
\* What is exported as get is not what is called get here.
CoreRenamed ==
  Src({}, << Exp("get", "put", Nothing) >>,
      {Fun("put", FALSE, {}, {}), Fun("get", FALSE, {}, {Use("put", "call")})})
\* A default export that uses the application that uses it.
CoreCircle ==
  Src({Imp("named", S("app", ".js"), "main", "main")}, <<>>,
      {[Fun("get", TRUE, {}, {Use("main", "call")}) EXCEPT !.default = TRUE]})

BarrelStar == Src({}, << Exp("*", Nothing, S("core", ".js")) >>, {})
BarrelNamed ==
  Src({}, << Exp("get", "get", S("core", "")), Exp("Api", "Api", S("core", "")) >>, {})
BarrelRenamed ==
  Src({}, << Exp("fetchIt", "get", S("core", ".js")), Exp("Api", "default", S("core", ".js")) >>, {})
BarrelPassed ==
  Src({Imp("named", S("core", ".js"), "get", "get")}, << Exp("get", "get", Nothing) >>, {})

AppNamed ==
  Src({Imp("named", S("lib", ""), "get", "get"), Imp("named", React, "useState", "useState")}, <<>>,
      {Fun("main", TRUE, {}, {Use("get", "call"), Use("useState", "call")}),
       Fun("other", FALSE, {"get"}, {Use("get", "call"), Use("main", "call")})})
AppRenamed ==
  Src({Imp("named", S("lib", ""), "Api", "Api"), Imp("named", S("lib", ""), "fetchIt", "load")}, <<>>,
      {Fun("main", TRUE, {}, {Use("Api", "construct"), Access("load"), Use("load", "call")})})
AppDefault ==
  Src({Imp("default", S("core", ".js"), "default", "core"), Imp("namespace", S("lib", ""), "*", "lib")},
      <<>>, {Fun("main", TRUE, {}, {Use("core", "call"), Use("lib", "read"), Access("get")})})

Project(c, b, a) == (Core :> c) @@ (Barrel :> b) @@ (App :> a)
Projects ==
  {Project(c, b, AppNamed) : c \in {CoreApi, CoreRenamed}, b \in {BarrelNamed}}
  \cup {Project(CoreApi, BarrelStar, AppNamed)}
  \cup {Project(CoreApi, BarrelRenamed, AppRenamed), Project(CoreCircle, BarrelRenamed, AppRenamed),
        Project(CoreCircle, BarrelPassed, AppDefault), Project(CoreApi, Nothing, AppNamed)}
\* More than the reader takes.
CoreLarge == Src({}, <<>>, {Fun("get", TRUE, {}, {}), Fun("large", TRUE, {}, {})})
Large == {CoreLarge}
Saved == {CoreApi, CoreRenamed, CoreLarge}

-----------------------------------------------------------------------------
(* APIs, searches, requests and code for the catalog and the plans of a    *)
(* session: templates that cover each other, an API imported again in      *)
(* other words, base paths in servers, endpoints and code.                 *)
Fixed(n) == [param |-> FALSE, name |-> n]
Hole(n) == [param |-> TRUE, name |-> n]
user == <<"user">>
users == <<"user", "s">>
refund == <<"refund">>

Fields(path, summary, description) ==
  [path |-> path, summary |-> summary, description |-> description]
Endpoint(id, m, path, tags, fields) ==
  [id |-> id, method |-> m, path |-> path, tags |-> tags, fields |-> fields]
Named(id, servers, endpoints) == [id |-> id, servers |-> servers, endpoints |-> endpoints]
Users == <<Fixed("users")>>
V1Users == <<Fixed("v1"), Fixed("users")>>
UserById == Endpoint(3, "GET", <<Fixed("users"), Hole("id")>>, {"t"}, Fields({users}, {}, {refund}))
Pay ==
  Named("pay", {<<Fixed("v1")>>},
    <<Endpoint(5, "GET", <<Hole("a"), Fixed("me")>>, {}, Fields({}, {refund}, {})),
      Endpoint(4, "POST", Users, {"t"}, Fields({users}, {}, {})),
      Endpoint(1, "GET", <<Hole("a"), Hole("a")>>, {"t"}, Fields({refund}, {}, {}))>>)
Apis ==
  {Named("shop", {}, <<UserById, Endpoint(2, "GET", <<Fixed("users"), Fixed("me")>>, {}, Fields({users}, {user}, {}))>>),
   Pay, [Pay EXCEPT !.endpoints = <<UserById>>],
   Named("web", {}, <<Endpoint(9, "POST", V1Users, {}, Fields({users}, {users}, {}))>>)}

Requests ==
  {[method |-> "GET", path |-> <<"users", "me">>], [method |-> "GET", path |-> <<"users", "7">>],
   [method |-> "POST", path |-> <<"users">>]}
Search(terms, m, tag, spec) ==
  [terms |-> terms, method |-> m, tag |-> tag, spec |-> spec, limit |-> 2]
Queries ==
  {Search(<<user>>, "any", "any", "any"), Search(<<refund, users>>, "any", "any", "any"),
   Search(<<users>>, "GET", "t", "any"), Search(<<refund>>, "any", "any", "pay")}

-----------------------------------------------------------------------------
(* Requests of a user, and a client, two files of one name and a caller.   *)
Word(kind, terms) ==
  [kind |-> kind, action |-> "none", path |-> <<>>, dotted |-> FALSE, file |-> <<>>, name |-> "",
   terms |-> terms]
Verb(a) == [Word("word", <<>>) EXCEPT !.action = a]
Term(t) == Word("word", <<t>>)
Method(m) == [Word("method", <<>>) EXCEPT !.name = m]
Route(p, dotted) == [Word("path", <<users>>) EXCEPT !.path = p, !.dotted = dotted]
File(p) == [Word("file", <<>>) EXCEPT !.file = p]
Ident(n) == [Word("symbol", <<>>) EXCEPT !.name = n]
SrcPay == File(<<"src", "pay.ts">>)
Texts ==
  {<<w>> : w \in {Verb("integrate"), Verb("fix"), Term(refund), Term(users), Route(Users, FALSE),
                  Route(Users, TRUE), File(<<"pay.ts">>), SrcPay, Ident("Pay")}}
  \cup {<<Verb("integrate"), w, v>> : w \in {Term(refund), Route(Users, FALSE)}, v \in {SrcPay, Ident("Pay")}}
  \cup {<<Verb("integrate"), Method(m), Route(p, FALSE), SrcPay>> :
          m \in {"GET", "POST"}, p \in {Users, UserById.path}}
  \cup {<<Method("POST"), v, Term(users)>> : v \in {Verb("fix"), Route(V1Users, FALSE)}}
  \cup {<<Term(user), File(<<"pay.ts">>), File(<<"z.ts">>)>>, <<Word("word", <<user, refund>>), SrcPay>>}

Literal(lead, p, glued, query) == [lead |-> lead, path |-> p, glued |-> glued, query |-> query]
Source(p, terms, symbols, literals, dependents) ==
  [path |-> p, terms |-> terms, symbols |-> symbols, literals |-> literals, dependents |-> dependents]
Symbol(n, inner, terms) == [name |-> n, inner |-> inner, terms |-> terms]
\* A file that shares two words with a request in every one of its symbols.
Crowded ==
  <<Source(<<"all.ts">>, {users, refund}, {Symbol(ToString(n), FALSE, {}) : n \in 1 .. 51}, <<>>, 0),
    Source(<<"src", "pay.ts">>, {}, {Symbol("Pay", FALSE, {refund})}, <<Literal("none", Users, FALSE, FALSE)>>, 0)>>
Codes ==
  {<<>>, Crowded} \cup
  {<<Source(<<"api.ts">>, {}, {Symbol("call", FALSE, {users})},
            <<Literal("origin", base, FALSE, FALSE),
              Literal("hole", <<Fixed("users"), Hole("")>>, FALSE, FALSE),
              Literal("none", Users, TRUE, FALSE)>>, 4),
     Source(<<"src", "pay.ts">>, {}, {Symbol("Pay", FALSE, {refund})}, inPay, 3),
     Source(<<"web", "pay.ts">>, {}, {Symbol("Pay", TRUE, {refund}), Symbol("x", FALSE, {})}, <<>>, 0),
     Source(<<"z.ts">>, {}, {Symbol("users", FALSE, {users, refund}), Symbol("u2", FALSE, {users})},
            <<Literal("none", V1Users, FALSE, FALSE)>>, 3)>> :
     base \in {<<>>, <<Fixed("v1")>>},
     inPay \in {<<>>, <<Literal("none", <<Fixed("v1"), Fixed("users"), Hole("")>>, FALSE, TRUE)>>,
                <<Literal("none", Users, TRUE, TRUE)>>}}

-----------------------------------------------------------------------------
(* Small indexes, skills and memories for PromptBudget.                    *)

\* Words in parts: an order, a word it begins, a client, and another.
Order == <<"order">>
Orders == <<"order", "s">>
Client == <<"client">>
Other == <<"other">>

Sym(id, file, inner, exported, name, doc, bytes) ==
  [id |-> id, file |-> file, inner |-> inner, exported |-> exported, name |-> name,
   path |-> IF file = "client" THEN {Client} ELSE {Other}, doc |-> doc,
   signature |-> IF inner THEN {} ELSE {Orders}, bytes |-> bytes]

\* Three files; the first exports one declaration and keeps one, with a member.
Symbols(sizes) ==
  {Sym(1, "client", FALSE, TRUE, {Orders}, {}, sizes[1]),
   Sym(2, "client", FALSE, FALSE, {Client}, {Order}, sizes[2]),
   Sym(3, "page", TRUE, FALSE, {Order}, {}, sizes[1]),
   Sym(4, "page", FALSE, TRUE, {Other}, {}, sizes[2]),
   Sym(5, "util", FALSE, TRUE, {Other}, {Client}, sizes[1])}
Edges == {<<"page", "client">>, <<"client", "util">>, <<"util", "page">>}
UsesOf(n) == [i \in 1 .. n |-> [from |-> 4, to |-> 1]] \o << [from |-> 3, to |-> 2] >>

Indexes ==
  {[symbols |-> Symbols(sizes), files |-> {"client", "page", "util"}, imports |-> imports, uses |-> UsesOf(n)] :
     sizes \in {<<1, 1>>, <<1, 2>>, <<3, 1>>}, imports \in SUBSET Edges, n \in {0, 1, 2}}
Questions ==
  {[terms |-> terms, symbols |-> symbols, files |-> files, depth |-> depth, maxItems |-> most,
    maxBytes |-> 3] :
     terms \in {<<>>, <<Order>>, <<Client>>, <<Client, Orders>>, <<Other, Client>>},
     symbols \in {{}, {1}, {2, 9}}, files \in {{}, {"client"}, {"page"}, {"gone"}},
     depth \in {1, 2}, most \in {1, 3}}

-----------------------------------------------------------------------------
Skill(name, source, requires, always, words, bytes) ==
  [name |-> name, source |-> source, requires |-> requires, always |-> always, tasks |-> {"fix"},
   extensions |-> {".ts"}, keywords |-> {"hook"}, words |-> words, bytes |-> bytes]
Skills ==
  {Skill(1, "shipped", {"react"}, FALSE, <<"hook", "state">>, 2),
   Skill(1, "project", {}, FALSE, <<"state">>, 1),
   Skill(2, "shipped", {"vue", "react"}, TRUE, <<>>, 1),
   Skill(2, "project", {"vue"}, FALSE, <<"state", "state", "hook", "hook">>, 3),
   Skill(3, "shipped", {}, FALSE, <<>>, 1)}
\* One whose dependencies count for more than asking does.
Many == {"react", "d1", "d2", "d3", "d4", "d5", "d6", "d7", "d8"}
Heavy == Skill(4, "shipped", Many, TRUE, <<>>, 1)
\* Without a task, none.
Contexts ==
  {[task |-> task, terms |-> terms, dependencies |-> deps, extensions |-> exts, requested |-> req] :
     task \in {"none", "fix"}, terms \in {{}, {"hook", "state"}}, deps \in {{}, {"react"}},
     exts \in {{}, {".ts"}}, req \in {{}, {2}, {3}}}
  \cup {[task |-> "none", terms |-> {}, dependencies |-> Many, extensions |-> {}, requested |-> {3}]}
Added == UNION {[1 .. n -> Skills] : n \in 0 .. 3} \cup {<<Heavy, s>> : s \in Skills}

-----------------------------------------------------------------------------
Op(do, scope, key, value, valid) ==
  [do |-> do, scope |-> scope, key |-> key, value |-> value, valid |-> valid,
   credential |-> value = "secret", bytes |-> IF value = "long" THEN 3 ELSE 1]
Ops ==
  {Op("remember", s, k, v, TRUE) : s \in {"task", "global"}, k \in {1, 2}, v \in {"short", "long"}}
  \cup {Op("remember", "task", 1, "secret", TRUE), Op("remember", "project", 2, "short", FALSE),
        Op("hydrate", "task", 1, "secret", TRUE), Op("hydrate", "project", 2, "long", TRUE),
        Op("hydrate", "task", 2, "short", TRUE), Op("forget", "task", 1, "short", TRUE),
        Op("forgetScope", "task", 1, "short", TRUE)}
\* Every call at its time; what is persisted is from before them all.
Timed(ops) ==
  [i \in DOMAIN ops |-> ops[i] @@ [at |-> IF ops[i].do = "hydrate" THEN 0 ELSE i]]
Histories == {Timed(ops) : ops \in UNION {[1 .. n -> Ops] : n \in 0 .. 3}}
=============================================================================

--------------------------- MODULE IntegrationPlan ---------------------------
(***************************************************************************)
(* The plan a session makes of a request (planner.ts): what is asked for   *)
(* (intent.ts), the endpoint that is meant, where the code calls it        *)
(* already (matching.ts), and which files to change or to leave alone.     *)
(* A request is a sequence of words; the code is its files in the order of *)
(* their paths, with what the index holds of each (CodeIndex).  Wording,   *)
(* evidence, and signatures of functions are left out.                     *)
(***************************************************************************)
EXTENDS EndpointCatalog

CONSTANTS
  Text,      \* requests, sequences of words [kind, action, path, dotted, file, name, terms]
  Code       \* code indexes, sequences of files

-----------------------------------------------------------------------------
(* parseIntent(): patterns are tried one action after the other.           *)
Actions == <<"integrate", "fix", "refactor", "test", "explain">>
Kind(text, kind) == {i \in DOMAIN text : text[i].kind = kind}
FirstOf(S) == {i \in S : \A j \in S : i <= j}

\* `POST /payments`, else the first path on its own; one that ends like a file
\* is none.
NamedEndpoint(text) ==
  FirstOf({i \in Kind(text, "method") : i + 1 \in Kind(text, "path")})
RawPath(text) ==
  IF NamedEndpoint(text) # {} THEN {text[i + 1] : i \in NamedEndpoint(text)}
  ELSE {text[i] : i \in FirstOf(Kind(text, "path"))}

ClassifyAction(text, hasEndpoint) ==
  LET stated == SelectSeq(Actions, LAMBDA a : \E w \in ToSet(text) : w.action = a) IN
  IF stated # <<>> THEN Head(stated) ELSE IF hasEndpoint THEN "integrate" ELSE "unknown"

ParseIntent(text) ==
  LET method == {text[i].name : i \in NamedEndpoint(text)}
      path == {w.path : w \in {x \in RawPath(text) : ~x.dotted}}
      action == ClassifyAction(text, NamedEndpoint(text) # {} \/ path # {})
      files == {text[i].file : i \in Kind(text, "file")}
      symbols == {text[i].name : i \in Kind(text, "symbol")}
  IN [action |-> action, method |-> method, path |-> path, files |-> files, symbols |-> symbols,
      terms |-> FlattenSeq([i \in DOMAIN text |-> text[i].terms]),
      mentioned |-> {text[i].name : i \in FirstOf(Kind(text, "method"))},
      ambiguities |-> {a \in {"action", "endpoint", "target"} :
         CASE a = "action" -> action = "unknown"
           [] a = "endpoint" -> action = "integrate" /\ method = {}
           [] OTHER -> files \cup symbols = {}}]

-----------------------------------------------------------------------------
(* matchEndpoint(): a literal of the code is a call when its path is the   *)
(* endpoint's, with a base path of the servers before it, or with one of   *)
(* the code taken away.                                                    *)
\* The origin goes, an interpolation in its place too, and one behind the last
\* segment unless a query follows it.
LiteralSignature(l) == [path |-> PathSignature(l.path), glued |-> l.glued /\ l.query]

Fixed(path) == path # <<>> /\ \A i \in DOMAIN path : ~path[i].param
LiteralsOf(code) == UNION {ToSet(code[i].literals) : i \in DOMAIN code}
CodeBasePaths(code) ==
  {l.path : l \in {x \in LiteralsOf(code) : x.lead = "origin" /\ ~x.glued /\ Fixed(x.path)}}
BasePathsOf(servers) == {b \in servers : Fixed(b)}

StripBases(path, bases) ==
  {SubSeq(path, Len(b) + 1, Len(path)) : b \in {x \in bases : IsStrictPrefix(x, path)}}
Calls(literal, endpoint, servers, bases) ==
  LET signature == LiteralSignature(literal)
      full == {b \o endpoint.path : b \in BasePathsOf(servers)}
      ways == {endpoint.path} \cup full \cup StripBases(endpoint.path, bases)
  IN ~signature.glued /\ signature.path \in {PathSignature(p) : p \in ways}

\* Files that call the endpoint; sites are sorted by file.
CallSites(endpoint, servers, code) ==
  SelectSeq([i \in DOMAIN code |-> i],
    LAMBDA i : \E l \in ToSet(code[i].literals) : Calls(l, endpoint, servers, CodeBasePaths(code)))

(* findClientConventions(): a file with two request paths is the client.   *)
RequestPaths(file) == Len(SelectSeq(file.literals, LAMBDA l : l.lead # "origin"))
ClientFiles(code) ==
  SetToSortSeq({i \in DOMAIN code : RequestPaths(code[i]) >= 2},
    LAMBDA i, j : \/ RequestPaths(code[i]) > RequestPaths(code[j])
                  \/ RequestPaths(code[i]) = RequestPaths(code[j]) /\ i < j)

-----------------------------------------------------------------------------
(* findTargets(), and what calls the endpoint already preferred.           *)
\* The file a written path stands for: itself, or the only one it ends.
ResolveNamedFile(code, named) ==
  LET exact == {i \in DOMAIN code : code[i].path = named}
      ends == {i \in DOMAIN code : IsSuffix(named, code[i].path)}
  IN IF exact # {} THEN exact ELSE IF Cardinality(ends) = 1 THEN ends ELSE {}

NamedScore == 100
SymbolScore == 60
\* Seeded bug: a call of the endpoint outranks what the user named.
CallSiteOverride == 200
CallSiteBoost == 40
Hits(file, symbol, terms) ==
  Len(SelectSeq(terms, LAMBDA t : \E x \in symbol.terms \cup file.terms : IsPrefix(t, x)))
TargetScore(code, intent, i) ==
  NamedScore * Cardinality({n \in intent.files : i \in ResolveNamedFile(code, n)})
  + FoldSet(LAMBDA s, n : n + (IF s.name \in intent.symbols THEN SymbolScore ELSE 0)
                            + (IF s.inner THEN 0 ELSE Hits(code[i], s, intent.terms)),
            0, code[i].symbols)
Boosted(code, intent, sites, i) ==
  TargetScore(code, intent, i) + IF i \in ToSet(sites) THEN CallSiteBoost ELSE 0

\* A quarter of the best is the floor, three files the cap.
MaxTargetFiles == 3
SelectTargets(code, intent, sites) ==
  LET candidates == {i \in DOMAIN code : TargetScore(code, intent, i) > 0}
      score(i) == Boosted(code, intent, sites, i)
      near == {i \in candidates : \A j \in candidates : 4 * score(i) >= score(j)}
  IN Capped(SetToSortSeq(near, LAMBDA i, j : score(i) > score(j) \/ (score(i) = score(j) /\ i < j)),
            MaxTargetFiles)

ProtectedThreshold == 3
\* Seeded bug: the targets are not left out.
SelectAllProtected(code, targets) == {i \in DOMAIN code : code[i].dependents >= ProtectedThreshold}
SelectProtectedFiles(code, targets) ==
  {i \in DOMAIN code \ ToSet(targets) : code[i].dependents >= ProtectedThreshold}

-----------------------------------------------------------------------------
(* selectEndpoint(): what is named is taken or nothing is; two results     *)
(* that score alike are a question.                                        *)
Choice(record, questions) == [record |-> record, questions |-> questions]
FindEndpoint(records, method, path) ==
  SelectSeq(records, LAMBDA r : r.endpoint.method = method /\ r.endpoint.path = path)
SearchFor(intent) ==
  [terms |-> intent.terms, tag |-> "any", spec |-> "any", limit |-> 3,
   method |-> IF intent.method # {} THEN CHOOSE m \in intent.method : TRUE
              ELSE IF intent.mentioned # {} THEN CHOOSE m \in intent.mentioned : TRUE ELSE "any"]
\* Scores alike: nine tenths of the best.
Alike(results, terms) ==
  Len(results) > 1 /\ 10 * Score(results[2], terms) >= 9 * Score(results[1], terms)

Asked(intent, question) == IF intent.action = "integrate" THEN {question} ELSE {}
ChooseNamed(named) ==
  IF named # <<>> THEN Choice(<<Head(named)>>, {}) ELSE Choice(<<>>, {"not documented"})
ChooseFound(intent, results) ==
  IF results = <<>> THEN Choice(<<>>, Asked(intent, "no match"))
  ELSE Choice(<<Head(results)>>, IF Alike(results, intent.terms) THEN {"which one"} ELSE {})
SelectEndpoint(intent, records, loaded) ==
  IF ~loaded THEN Choice(<<>>, Asked(intent, "no specification"))
  ELSE IF intent.method # {} /\ intent.path # {}
  THEN ChooseNamed(FindEndpoint(records, CHOOSE m \in intent.method : TRUE,
                                         CHOOSE p \in intent.path : TRUE))
  ELSE ChooseFound(intent, Search(records, SearchFor(intent)))

\* byId: of the APIs with an endpoint of this id the last one.
SpecOf(specs, record) ==
  LET has == {i \in DOMAIN specs : \E e \in ToSet(specs[i].endpoints) : e.id = record.endpoint.id}
  IN specs[CHOOSE i \in has : \A j \in has : j <= i]

-----------------------------------------------------------------------------
(* buildPlan()                                                             *)
Step(what, file) == [what |-> what, file |-> file]
BuildSteps(intent, chosen, sites, targets, client) ==
  (IF chosen = <<>> THEN <<>>
   ELSE IF sites # <<>> THEN << Step("extend", {sites[1]}) >>
   ELSE IF client # <<>> THEN << Step("add", {client[1]}) >> ELSE << Step("add", {}) >>)
  \o [i \in DOMAIN SelectSeq(Capped(targets, 2), LAMBDA f : client = <<>> \/ f # client[1]) |->
        Step("wire", {SelectSeq(Capped(targets, 2), LAMBDA f : client = <<>> \/ f # client[1])[i]})]
  \o (IF intent.action = "integrate" THEN << Step("states", {}) >> ELSE <<>>)
  \o << Step("tests", {}), Step("validate", {}) >>

GradeConfidence(chosen, sites, targets, questions) ==
  LET evidence == (IF chosen # <<>> THEN 2 ELSE 0) + (IF sites # <<>> THEN 1 ELSE 0)
                  + (IF targets # <<>> THEN 1 ELSE 0)
      asked == Cardinality(questions)
  IN IF evidence >= 3 + asked THEN "high" ELSE IF evidence >= 1 + asked THEN "medium" ELSE "low"

PlanOf(intent, code, choice, spec, sites, targets) ==
  LET questions == intent.ambiguities \cup choice.questions
                   \cup IF targets = <<>> THEN {"no file"} ELSE {}
  IN [endpoint |-> choice.record, spec |-> spec, callSites |-> sites, targetFiles |-> targets,
      protectedFiles |-> SelectProtectedFiles(code, targets),
      steps |-> BuildSteps(intent, choice.record, sites, targets, ClientFiles(code)),
      openQuestions |-> questions,
      confidence |-> GradeConfidence(choice.record, sites, targets, questions)]
PlanAround(intent, code, choice, spec) ==
  LET sites == IF spec = <<>> THEN <<>>
               ELSE CallSites(choice.record[1].endpoint, spec[1].servers, code)
  IN PlanOf(intent, code, choice, spec, sites, SelectTargets(code, intent, sites))
PlanFor(intent, code, specs, choice) ==
  PlanAround(intent, code, choice,
             [i \in DOMAIN choice.record |-> SpecOf(specs, choice.record[i])])
BuildPlan(intent, code, specs) ==
  PlanFor(intent, code, specs, SelectEndpoint(intent, RecordsOf(specs), specs # <<>>))

\* createPlan: of the APIs and the code as they are when it is asked; bound: the
\* first thing asked after an import, as it looks at no earlier answer.
CreatePlan ==
  /\ answer = None
  /\ \E text \in Text, code \in Code :
       answer' = [asked |-> [text |-> text, code |-> code], of |-> apis,
                  found |-> BuildPlan(ParseIntent(text), code, apis)]
  /\ UNCHANGED <<apis, cached>>

PlanNext == CatalogNext \/ CreatePlan

-----------------------------------------------------------------------------
(* A literal and an endpoint name one path when the base paths of servers  *)
(* and code, put before either, make them the same.                        *)
OnePath(l, endpoint, servers, code) ==
  \E x \in {<<>>} \cup CodeBasePaths(code), y \in {<<>>} \cup BasePathsOf(servers) :
    x \o PathSignature(l.path) = y \o PathSignature(endpoint.path)
OneSide(l, endpoint, servers, code) ==
  OnePath(l, endpoint, {}, code) \/ OnePath(l, endpoint, servers, <<>>)

(* A file calls the endpoint exactly when a path in it is the endpoint's,  *)
(* wherever the base path is written (matchEndpoint()).  What has a base   *)
(* on both sides, or an interpolated suffix before a query, is not seen.   *)
CallSitesAreCalls(plan, code) ==
  plan.endpoint # <<>> =>
    LET endpoint == plan.endpoint[1].endpoint servers == plan.spec[1].servers IN
    \A i \in DOMAIN code :
      LET seen == {l \in ToSet(code[i].literals) : ~(l.glued /\ l.query)} IN
      /\ i \in ToSet(plan.callSites) => \E l \in seen : OnePath(l, endpoint, servers, code)
      /\ (\E l \in seen : OneSide(l, endpoint, servers, code)) => i \in ToSet(plan.callSites)

\* What a file shares with the words of the request, symbol by symbol.
Shared(file, terms) ==
  {<<s, k>> \in file.symbols \X DOMAIN terms :
     ~s.inner /\ \E x \in s.terms \cup file.terms : IsPrefix(terms[k], x)}

\* What the user wrote decides: the endpoint, and the files before others that
\* only call it or share its words. A call counts 40 and a shared word one, for
\* every symbol of the file, so that 60 of them take a file past the 100 of one
\* that was named.
WhatIsNamedDecides(plan, intent, code, specs) ==
  /\ intent.method # {} /\ intent.path # {} =>
       IF \E r \in ToSet(RecordsOf(specs)) : {r.endpoint.method} = intent.method /\ {r.endpoint.path} = intent.path
       THEN /\ {plan.endpoint[1].endpoint.method} = intent.method
            /\ {plan.endpoint[1].endpoint.path} = intent.path
       ELSE plan.endpoint = <<>> /\ (specs # <<>> => "not documented" \in plan.openQuestions)
  /\ LET named == UNION {ResolveNamedFile(code, n) : n \in intent.files}
         declares(i) == \E s \in code[i].symbols : s.name \in intent.symbols
         at(i) == {k \in DOMAIN plan.targetFiles : plan.targetFiles[k] = i}
         few(i) == Cardinality(Shared(code[i], intent.terms)) < 60
     IN \A f \in named, g \in DOMAIN code \ named : ~declares(g) /\ few(g) =>
          \A k \in at(g) : \E m \in at(f) : m < k

\* What is not known is asked, and is no ground for confidence.
GapsAreAsked(plan, intent, specs) ==
  /\ plan.targetFiles = <<>> \/ (plan.endpoint = <<>> /\ intent.action = "integrate")
       => plan.openQuestions # {}
  /\ plan.confidence = "high" => /\ plan.endpoint # <<>>
                                 /\ plan.targetFiles # <<>> \/ plan.callSites # <<>>
  /\ \A r \in ToSet(RecordsOf(specs)) :
       /\ plan.endpoint # <<>> /\ intent.method \cup intent.mentioned = {}
       /\ r # plan.endpoint[1]
       => \/ Score(plan.endpoint[1], intent.terms) > Score(r, intent.terms)
          \/ "which one" \in plan.openQuestions

IsGrounded(plan, intent, code, specs) ==
  /\ CallSitesAreCalls(plan, code)
  /\ WhatIsNamedDecides(plan, intent, code, specs)
  /\ GapsAreAsked(plan, intent, specs)
  /\ ToSet(plan.targetFiles) \cap plan.protectedFiles = {}
  /\ UniqueIds(RecordsOf(specs)) =>
       /\ plan = BuildPlan(intent, code, Reverse(specs))
       /\ plan.endpoint # <<>> => plan.spec[1].id = plan.endpoint[1].spec

(* A plan rests on what the session knows: its call sites are calls, what  *)
(* the user named decides, gaps are asked, no target is one of the files   *)
(* to leave alone, and, where ids tell endpoints apart, neither another    *)
(* order of imports nor another API's account is in it (buildPlan()).      *)
PlansAreGrounded ==
  Found("text") =>
    IsGrounded(answer.found, ParseIntent(answer.asked.text), answer.asked.code, answer.of)
=============================================================================

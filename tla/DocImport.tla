------------------------------- MODULE DocImport -------------------------------
(***************************************************************************)
(* The importer of written documentation: statements of endpoints, the     *)
(* tables and examples of their sections (docs.ts), and the law that one   *)
(* call is imported as one API, however it is written down.                *)
(* A document is a sequence of lines; a table or a fenced block is a line, *)
(* and a line has what can be read in it.                                  *)
(***************************************************************************)
EXTENDS PostmanImport

Line == [heading |-> FALSE, states |-> <<>>, rows |-> <<>>, block |-> {}, status |-> 0]

-----------------------------------------------------------------------------
(* scanStatements(): the relative paths tell where the base of a written-  *)
(* out address ends.                                                       *)
RelativePaths(lines) ==
  {s.path : s \in {x \in UNION {ToSet(lines[i].states) : i \in DOMAIN lines} : x.origin = Nothing}}
SplitAbsolute(s, relative) ==
  LET ends == {p \in relative \ {<<>>} : IsSuffix(p, s.path)}
      longest == CHOOSE p \in ends : \A q \in ends : Len(q) <= Len(p)
      path == IF ends = {} THEN s.path ELSE longest
  IN [method |-> s.method, path |-> path,
      server |-> {[origin |-> s.origin, base |-> SubSeq(s.path, 1, Len(s.path) - Len(path))]}]
Statement(lines, s) ==
  IF s.origin = Nothing THEN [method |-> s.method, path |-> s.path, server |-> {}]
  ELSE SplitAbsolute(s, RelativePaths(lines))

-----------------------------------------------------------------------------
(* splitSections(): from a heading to the next one; what is before the     *)
(* first counts its own line, and so reaches the heading after it.         *)
Section(first, last, reach) == [first |-> first, last |-> last, reach |-> reach]
SplitSections(lines) ==
  LET starts == SelectSeq([i \in DOMAIN lines |-> i], LAMBDA i : i = 1 \/ lines[i].heading)
  IN [k \in DOMAIN starts |->
        LET next == IF k = Len(starts) THEN Len(lines) + 1 ELSE starts[k + 1] IN
        Section(starts[k], next - 1, IF lines[starts[k]].heading THEN next - 1 ELSE next)]
InSection(lines, section, field) ==
  FlattenSeq([i \in 1 .. section.last - section.first + 1 |-> lines[section.first + i - 1][field]])

\* Of rows and names of the path; a name of the path is one, wherever the row says.
MergeWithPathParameters(path, rows) ==
  {IF \E r \in ToSet(rows) : r.name = n
   THEN [Head(Named(rows, n)) EXCEPT !.in = "path", !.required = TRUE]
   ELSE [in |-> "path", name |-> n, required |-> TRUE, schema |-> Plain("string"), example |-> Nothing] :
     n \in PathNames(path)}
  \cup {r \in ToSet(rows) : r.name \notin PathNames(path)}

\* Blocks may lie one line further.
BlocksIn(lines, section) ==
  SelectSeq([i \in DOMAIN lines |-> i],
    LAMBDA i : i >= section.first /\ i <= section.reach + 1 /\ \E b \in lines[i].block : b.json)
BlockAt(lines, i) == CHOOSE b \in lines[i].block : TRUE
RequestBodyIn(lines, section) ==
  LET asked == SelectSeq(BlocksIn(lines, section), LAMBDA i : BlockAt(lines, i).about \in {"request", "body"})
  IN IF asked = <<>> \/ BlockAt(lines, asked[1]).sample = {} THEN <<>>
     ELSE Content(Head(JsonMedia), InferSchema(SetToSeq(BlockAt(lines, asked[1]).sample)))

\* The nearest status of the three lines before, or else that of a success.
StatusNear(lines, i) ==
  LET near == {j \in DOMAIN lines : j < i /\ i <= j + 3 /\ lines[j].status # 0}
      code == IF near = {} THEN 200 ELSE lines[CHOOSE j \in near : \A k \in near : k <= j].status
  IN [class |-> code \div 100, code |-> code]
ResponsesIn(lines, section) ==
  LET shown == SelectSeq(BlocksIn(lines, section),
                 LAMBDA i : BlockAt(lines, i).about # "request" /\ BlockAt(lines, i).sample # {})
      first == SelectSeq(shown, LAMBDA i : \A j \in ToSet(shown) :
                 j < i => StatusNear(lines, j) # StatusNear(lines, i))
      with(s) == SelectSeq(shown, LAMBDA i : StatusNear(lines, i) = s)
  IN [k \in DOMAIN first |->
        LET s == StatusNear(lines, first[k]) IN
        [status |-> s,
         content |-> Content(Head(JsonMedia),
           InferSchema(FlattenSeq([j \in DOMAIN with(s) |-> SetToSeq(BlockAt(lines, with(s)[j]).sample)])))]]

EndpointsInSection(lines, section) ==
  LET stated == FlattenSeq([i \in DOMAIN lines |->
                  IF i >= section.first /\ i <= section.reach THEN lines[i].states ELSE <<>>])
      rows == InSection(lines, section, "rows")
  IN [k \in DOMAIN stated |->
        LET s == Statement(lines, stated[k]) IN
        [method |-> s.method, path |-> s.path, servers |-> <<>>,
         parameters |-> MergeWithPathParameters(s.path, rows), body |-> RequestBodyIn(lines, section),
         responses |-> ResponsesIn(lines, section), security |-> <<>>]]

\* The first of those with one method and path stays.
CollectEndpoints(lines) ==
  LET sections == SplitSections(lines)
      all == FlattenSeq([k \in DOMAIN sections |-> EndpointsInSection(lines, sections[k])])
      same(e, x) == e.method = x.method /\ e.path = x.path
      first == SelectSeq([i \in DOMAIN all |-> i], LAMBDA i : \A j \in 1 .. i - 1 : ~same(all[j], all[i]))
  IN [k \in DOMAIN first |-> all[first[k]]]

\* Without a statement there is no account.
ParseApiDocs(lines, given) ==
  LET servers == given \cup UNION {Statement(lines, s).server :
                   s \in UNION {ToSet(lines[i].states) : i \in DOMAIN lines}}
      endpoints == CollectEndpoints(lines)
  IN IF endpoints = <<>> THEN {}
     ELSE {[endpoints |-> endpoints, servers |-> SetToSeq(servers), security |-> <<>>, schemes |-> <<>>]}

-----------------------------------------------------------------------------
(* Reference: what documentation of one call says of it.  Nothing but the  *)
(* names in the path is known to be required.                              *)
CallPath(call) == {[in |-> "path", name |-> n, required |-> TRUE, schema |-> Plain("string"), example |-> Nothing] :
                     n \in PathNames(call.path)}
CallFields(call, in, fields) ==
  {[in |-> in, name |-> f.name, required |-> FALSE, example |-> Nothing,
    schema |-> IF Len(Named(fields, f.name)) > 1 /\ ~IsCredential(f) THEN Array(Plain("string")) ELSE Plain("string")] :
     f \in ToSet(fields)}
CallBody(call) ==
  CASE call.body = <<>> -> <<>>
    [] call.sent = "json" -> Content(Head(JsonMedia), InferSchema(call.body))
    [] OTHER -> Content(FormMedia[IF call.sent = "form" THEN 1 ELSE 2], FormObject(call.body))
CallScheme(call) ==
  (IF call.auth = "none" THEN <<>> ELSE "auth" :> call.auth)
  @@ [n \in {f.name : f \in {x \in ToSet(call.query) : IsCredential(x)}} |-> "apiKey"]
Documented(call) ==
  [endpoints |-> << [method |-> call.method, path |-> call.path, servers |-> <<>>,
     parameters |-> CallPath(call) \cup CallFields(call, "query", call.query)
                    \cup CallFields(call, "header", call.headers),
     body |-> CallBody(call),
     responses |-> [i \in DOMAIN call.answers |->
       [status |-> [class |-> call.answers[i].code \div 100, code |-> call.answers[i].code],
        content |-> Content(Head(JsonMedia), InferSchema(<<call.answers[i].value>>))]],
     security |-> << DOMAIN CallScheme(call) >>] >>,
   servers |-> << [origin |-> call.origin, base |-> call.base] >>, security |-> <<>>, schemes |-> CallScheme(call)]

\* `--json` says what is accepted, which no documentation of the call does.
Unsaid(found) == {x \in found : x[2] # Conflict("PARAMETER_UNDOCUMENTED", "info", <<"accept">>)}
SentTo(call, spec) ==
  /\ Len(spec.endpoints) = 1 /\ spec.servers # <<>>
  /\ \A s \in ToSet(spec.servers) :
       s.origin = call.origin /\ s.base \o spec.endpoints[1].path = call.base \o call.path
OfOneCall(call, accounts) ==
  \E spec \in accounts :
    /\ Unsaid(CompareSpecs(Documented(call), spec)) = {} /\ CompareSpecs(spec, Documented(call)) = {}
    /\ CheckSpecInvariants(spec) \subseteq {"MISSING_SCHEMA"} /\ SentTo(call, spec)

(* One call is imported as what documentation of it says, with all that    *)
(* its account refers to and the address it goes to, from every command    *)
(* that makes it, every collection that saves it and every text that       *)
(* states it (parseCurl(), parsePostman(), parseApiDocs()).                *)
CallsMeanTheirAccount(call, commands, collections, texts) ==
  /\ \A words \in commands : OfOneCall(call, ParseCurl(words))
  /\ \A c \in collections : OfOneCall(call, {ParsePostman(c)})
  /\ \A text \in texts : OfOneCall(call, ParseApiDocs(text.lines, text.given))
=============================================================================

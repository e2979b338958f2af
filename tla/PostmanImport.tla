----------------------------- MODULE PostmanImport -----------------------------
(***************************************************************************)
(* The importer of Postman collections: saved requests in folders, with    *)
(* templates for variables, saved answers and auth blocks (postman.ts).    *)
(* An address is raw, a base with path and query, or in parts; a base, a   *)
(* host or a text may be a variable's; what a record does not give is not  *)
(* a field of it.                                                          *)
(***************************************************************************)
EXTENDS CurlImport

-----------------------------------------------------------------------------
(* resolveTemplate(): what the collection does not define stays.           *)
Resolved(vars, f) ==
  IF f.var \in DOMAIN vars THEN [f EXCEPT !.text = vars[f.var].text, !.secret = vars[f.var].secret] ELSE f
Enabled(fields) == SelectSeq(fields, LAMBDA f : ~f.disabled /\ f.name # Nothing)

\* A base that does not resolve leaves the path, and no origin.
FromRaw(vars, raw) ==
  LET base == IF raw.base \in DOMAIN vars THEN vars[raw.base] ELSE raw IN
  [origin |-> IF raw.base \in DOMAIN vars \cup {""} THEN base.origin ELSE Nothing,
   path |-> (IF raw.base \in DOMAIN vars THEN base.path ELSE <<>>) \o raw.path]

\* The text of a host goes after the protocol, even when it has one itself.
FromParts(vars, url) ==
  LET host == IF url.host.var \in DOMAIN vars THEN vars[url.host.var].text ELSE url.host.text
  IN [origin |-> IF host = <<>> THEN Nothing ELSE << Declared(url, "protocol", "https") >> \o host,
      path |-> url.path]

PathParameters(url, path) ==
  {LET given == Named(Declared(url, "variable", <<>>), n) IN
   [in |-> "path", name |-> n, required |-> TRUE, schema |-> Plain("string"),
    example |-> IF given = <<>> \/ Head(given).text = <<>> THEN Nothing ELSE Head(given).text[1]] :
     n \in PathNames(path)}

\* Whether a text is a credential is asked before it is resolved, of the
\* schema's example after that.
SavedQuery(vars, url) ==
  IF Has(url, "query")
  THEN {Noted("query", [Resolved(vars, f) EXCEPT !.secret = @ \/ f.secret], Plain("string")) :
          f \in ToSet(Enabled(url.query))}
  ELSE IF Has(url, "raw") /\ FromRaw(vars, url.raw).origin # Nothing
  THEN {Noted("query", [f EXCEPT !.text = <<>>], Plain("string")) : f \in ToSet(url.raw.query)}
  ELSE {}

ParseUrl(vars, url) ==
  IF Has(url, "path") THEN {FromParts(vars, url)}
  ELSE IF Has(url, "raw") THEN {FromRaw(vars, url.raw)} ELSE {}

\* As the comparison reads it, an address within an address is a path.
ServerAt(origin) ==
  [origin |-> origin, base |-> [i \in 1 .. Len(origin) - 2 |-> Segment(origin[i + 2])]]

-----------------------------------------------------------------------------
(* Headers and auth blocks.                                                *)
ParseHeaders(vars, headers) ==
  LET enabled == Enabled(headers) IN [i \in DOMAIN enabled |-> Resolved(vars, enabled[i])]
ExtractHeaderCredentials(headers) ==
  FlattenSeq([i \in DOMAIN headers |->
    IF headers[i].name = "authorization" THEN Scheme("authorization", "bearer")
    ELSE IF IsCredential(headers[i]) THEN Scheme(headers[i].name, "apiKey") ELSE <<>>])

ToAuthScheme(block) ==
  CASE block.type \in {"bearer", "basic", "oauth2"} -> Scheme(block.type, block.type)
    [] block.type = "apikey" -> Scheme("apikey-" \o Declared(block, "key", "x-api-key"), "apiKey")
    [] block.type = "awsv4" -> Scheme("aws", "awsSignature")
    [] OTHER -> Scheme(block.type, "unknown")
ParseAuth(record) ==
  IF ~Has(record, "auth") \/ record.auth.type = "noauth" THEN <<>> ELSE ToAuthScheme(record.auth)

-----------------------------------------------------------------------------
(* Bodies and saved answers.                                               *)
LanguageMedia == [json |-> Head(JsonMedia), text |-> TextMedia, xml |-> "xml"]
RawBody(body) ==
  LET language == Declared(body, "language", "none") IN
  IF language \in {"none", "json"} /\ body.text.json # {}
  THEN Content(Head(JsonMedia), InferSchema(SetToSeq(body.text.json)))
  ELSE Content(Declared(LanguageMedia, language, TextMedia), Unknown)
GraphqlBody ==
  Content(Head(JsonMedia),
    Object("query" :> Property(TRUE, Plain("string")) @@ "variables" :> Property(FALSE, Unknown)))
ParseBody(request) ==
  IF ~Has(request, "body") THEN <<>>
  ELSE LET body == request.body IN
       CASE body.mode = "raw" -> IF Has(body, "text") THEN RawBody(body) ELSE <<>>
         [] body.mode \in {"urlencoded", "formdata"} ->
              IF Enabled(body.fields) = <<>> THEN <<>>
              ELSE Content(FormMedia[IF body.mode = "formdata" THEN 2 ELSE 1], FormObject(Enabled(body.fields)))
         [] body.mode = "file" -> Content("binary", Unknown)
         [] body.mode = "graphql" -> GraphqlBody
         [] OTHER -> <<>>

\* The samples of a status make one schema, of the media type of the first.
ParseSavedResponses(saved) ==
  LET usable == SelectSeq(saved, LAMBDA r : r.code \in 100 .. 599)
      first == SelectSeq([i \in DOMAIN usable |-> i],
                         LAMBDA i : \A j \in 1 .. i - 1 : usable[j].code # usable[i].code)
      with(code) == SelectSeq(usable, LAMBDA r : r.code = code)
  IN [k \in DOMAIN first |->
        LET r == usable[first[k]] IN
        [status |-> [class |-> r.code \div 100, code |-> r.code],
         content |-> Content(r.media,
           InferSchema(FlattenSeq([j \in DOMAIN with(r.code) |-> SetToSeq(with(r.code)[j].json)])))]]

-----------------------------------------------------------------------------
(* Items: a request with the schemes it brings, a folder with its items.   *)
BuildEndpoint(vars, method, request, url, saved) ==
  LET headers == ParseHeaders(vars, Declared(request, "header", <<>>))
      schemes == ParseAuth(request) \o ExtractHeaderCredentials(headers)
      at == ParseUrl(vars, url)
  IN {[schemes |-> schemes,
       endpoint |->
         [method |-> method, path |-> u.path,
          servers |-> IF u.origin = Nothing THEN <<>> ELSE << ServerAt(u.origin) >>,
          parameters |-> PathParameters(url, u.path) \cup SavedQuery(vars, url) \cup HeaderParameters(headers),
          body |-> ParseBody(request), responses |-> ParseSavedResponses(saved),
          security |-> IF schemes = <<>> THEN <<>> ELSE << {s.id : s \in ToSet(schemes)} >>]] : u \in at}

\* Without a method it is a GET, and an unknown one is not imported.
ParseRequestItem(vars, item) ==
  IF Has(item, "url") THEN BuildEndpoint(vars, "GET", <<>>, item.url, <<>>)
  ELSE IF ~Has(item, "request") \/ Declared(item.request, "method", "GET") = "unknown" THEN {}
  ELSE BuildEndpoint(vars, Declared(item.request, "method", "GET"), item.request,
                     Declared(item.request, "url", <<>>), Declared(item, "response", <<>>))

MaxFolderDepth == 16
RECURSIVE CollectItems(_, _, _)
CollectItems(vars, items, depth) ==
  IF depth > MaxFolderDepth THEN <<>>
  ELSE FlattenSeq([i \in DOMAIN items |->
         IF Has(items[i], "item") THEN CollectItems(vars, items[i].item, depth + 1)
         ELSE SetToSeq(ParseRequestItem(vars, items[i]))])

\* The origins of the requests, those of most requests first.
DeriveServers(vars, endpoints) ==
  LET all == FlattenSeq([i \in DOMAIN endpoints |-> endpoints[i].servers])
      count(s) == Len(SelectSeq(all, LAMBDA x : x = s))
      first(s) == CHOOSE i \in DOMAIN all : all[i] = s /\ \A j \in 1 .. i - 1 : all[j] # s
      base == SelectSeq(<<"baseUrl", "base_url">>, LAMBDA v : v \in DOMAIN vars)
  IN IF all # <<>>
     THEN SetToSortSeq(ToSet(all), LAMBDA s, t : count(s) > count(t) \/ (count(s) = count(t) /\ first(s) < first(t)))
     ELSE IF base = <<>> THEN <<>>
     ELSE << [origin |-> vars[Head(base)].origin, base |-> vars[Head(base)].path] >>

ParsePostman(c) ==
  LET shared == ParseAuth(c)
      found == CollectItems(c.vars, c.item, 0)
      endpoints == [i \in DOMAIN found |-> found[i].endpoint]
      schemes == shared \o FlattenSeq([i \in DOMAIN found |-> found[i].schemes])
  IN [endpoints |-> endpoints, servers |-> DeriveServers(c.vars, endpoints),
      security |-> IF shared = <<>> THEN <<>> ELSE << {shared[1].id} >>,
      schemes |-> [id \in {s.id : s \in ToSet(schemes)} |->
                     Head(SelectSeq(schemes, LAMBDA s : s.id = id)).kind]]
=============================================================================

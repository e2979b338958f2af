------------------------------ MODULE CurlImport ------------------------------
(***************************************************************************)
(* The importer of curl commands: the words of a command line, the request *)
(* they describe and the account of an API with that one request           *)
(* (curl.ts), with the invariants every account is checked for             *)
(* (endpoint.ts).                                                          *)
(* A field is a name with its text; a header's text is the tuple of its    *)
(* words, a media type or a scheme first.  A word of the command is what   *)
(* each flag would read in it.                                             *)
(***************************************************************************)
EXTENDS OpenApiImport

CONSTANTS
  Sensitive,   \* names that say that a credential follows
  FormMedia,   \* the media types of form fields: as in an URL, and in parts
  TextMedia    \* the media type of plain text

-----------------------------------------------------------------------------
(* tokenizeCommand(): quoting as in a shell, over single characters.       *)
Failed == [ok |-> FALSE, tokens |-> <<>>]
Pushed(acc) ==
  [tokens |-> IF acc.started THEN Append(acc.tokens, acc.current) ELSE acc.tokens,
   current |-> <<>>, started |-> FALSE]
\* Seeded bug: empty quotes are no word.
TakenIfAny(acc, text) == [acc EXCEPT !.current = @ \o text, !.started = @ \/ text # <<>>]
Taken(acc, text) == [acc EXCEPT !.current = @ \o text, !.started = TRUE]
From(cs, n) == SubSeq(cs, n, Len(cs))

\* A backslash is kept, unless it is before what the shell would interpret (a
\* backquote too).
RECURSIVE ReadDoubleQuoted(_, _)
ReadDoubleQuoted(cs, text) ==
  IF cs = <<>> \/ cs = <<"\\">> THEN [ok |-> FALSE, text |-> text, rest |-> cs]
  ELSE IF Head(cs) = "\"" THEN [ok |-> TRUE, text |-> text, rest |-> Tail(cs)]
  ELSE IF Head(cs) # "\\" THEN ReadDoubleQuoted(Tail(cs), Append(text, Head(cs)))
  ELSE ReadDoubleQuoted(From(cs, 3),
         text \o (IF cs[2] = "\n" THEN <<>>
                  ELSE IF cs[2] \in {"\"", "\\", "$"} THEN << cs[2] >> ELSE <<"\\", cs[2]>>))

RECURSIVE Tokens(_, _)
Tokens(cs, acc) ==
  LET next == IF Len(cs) > 1 THEN cs[2] ELSE "none"
      quote == {i \in 2 .. Len(cs) : cs[i] = "'" /\ \A j \in 2 .. i - 1 : cs[j] # "'"}
      double == ReadDoubleQuoted(Tail(cs), <<>>)
  IN IF cs = <<>> THEN [ok |-> TRUE, tokens |-> Pushed(acc).tokens]
     ELSE IF Head(cs) \in {"\\", "^"} /\ next = "\n" THEN Tokens(From(cs, 3), acc)
     ELSE IF Head(cs) = "\\"
     THEN IF next = "none" THEN Failed ELSE Tokens(From(cs, 3), Taken(acc, << next >>))
     ELSE IF Head(cs) = "'"
     THEN IF quote = {} THEN Failed
          ELSE LET end == CHOOSE i \in quote : TRUE
               IN Tokens(From(cs, end + 1), Taken(acc, SubSeq(cs, 2, end - 1)))
     ELSE IF Head(cs) = "\""
     THEN IF double.ok THEN Tokens(double.rest, Taken(acc, double.text)) ELSE Failed
     ELSE IF Head(cs) \in {" ", "\n"} THEN Tokens(Tail(cs), Pushed(acc))
     ELSE Tokens(Tail(cs), Taken(acc, << Head(cs) >>))
TokenizeCommand(cs) == Tokens(cs, [tokens |-> <<>>, current |-> <<>>, started |-> FALSE])

-----------------------------------------------------------------------------
(* parseCurlCommand(): the words after `curl`, from left to right.         *)
MethodFlags == {"-X", "--request"}
HeaderFlags == {"-H", "--header"}
DataFlags == {"-d", "--data", "--data-raw", "--data-binary", "--data-ascii", "--data-urlencode"}
FormFlags == {"-F", "--form", "--form-string"}
NamedHeader ==
  [flag \in {"-b", "--cookie", "-A", "--user-agent", "-e", "--referer"} |->
     CASE flag \in {"-b", "--cookie"} -> "cookie" [] flag \in {"-A", "--user-agent"} -> "user-agent"
       [] OTHER -> "referer"]
UserFlags == {"-u", "--user"}
SkippedFlags == {"-o", "--output", "--connect-timeout", "--max-time", "-m", "--retry", "--proxy", "-x"}
ValueFlags ==
  MethodFlags \cup HeaderFlags \cup DataFlags \cup {"--json"} \cup FormFlags \cup UserFlags
  \cup DOMAIN NamedHeader \cup {"--url"} \cup SkippedFlags

\* A word that is no header, field or URL is not one of them.
Value(acc, flag, w) ==
  CASE flag \in MethodFlags -> [acc EXCEPT !.explicit = << w.method >>]
    [] flag \in HeaderFlags -> [acc EXCEPT !.headers = @ \o SetToSeq(w.header)]
    [] flag \in DataFlags -> IF w.part.file THEN acc ELSE [acc EXCEPT !.parts = Append(@, w.part)]
    [] flag = "--json" -> [acc EXCEPT !.parts = Append(@, w.part)]
    [] flag \in FormFlags -> [acc EXCEPT !.fields = @ \o SetToSeq(w.field)]
    [] flag \in DOMAIN NamedHeader ->
         [acc EXCEPT !.headers = Append(@, [name |-> NamedHeader[flag], text |-> w.text, secret |-> w.secret])]
    [] flag = "--url" -> [acc EXCEPT !.url = w.url]
    [] OTHER -> acc

\* A flag waits for the next word, whatever that is, unless its own has a `=`.
Word(acc, w) ==
  LET set == [acc EXCEPT !.basic = @ \/ w.flag \in UserFlags, !.json = @ \/ w.flag = "--json",
                         !.get = @ \/ w.flag \in {"-G", "--get"}, !.head = @ \/ w.flag \in {"-I", "--head"}]
  IN IF acc.awaiting # "" THEN [Value(acc, acc.awaiting, w) EXCEPT !.awaiting = ""]
     ELSE IF w.flag = "" THEN [acc EXCEPT !.url = w.url]
     ELSE IF w.flag \notin ValueFlags THEN set
     ELSE IF w.inline THEN Value(set, w.flag, w) ELSE [set EXCEPT !.awaiting = w.flag]

Start ==
  [awaiting |-> "", explicit |-> <<>>, headers |-> <<>>, fields |-> <<>>, parts |-> <<>>, url |-> {},
   basic |-> FALSE, json |-> FALSE, get |-> FALSE, head |-> FALSE]
Named(fields, name) == SelectSeq(fields, LAMBDA f : f.name = name)
Fields(parts) == FlattenSeq([i \in DOMAIN parts |-> parts[i].fields])

\* Seeded bug: a body does not make it a POST.
ResolveMethodSaid(acc, hasBody) ==
  IF acc.explicit # <<>> /\ acc.awaiting \notin MethodFlags
  THEN IF acc.explicit[1] = {} THEN "POST" ELSE CHOOSE m \in acc.explicit[1] : TRUE
  ELSE IF acc.head THEN "HEAD" ELSE "GET"

\* An unknown method is taken for POST; without one a body makes it a POST. The
\* last flag may have come without its value.
ResolveMethod(acc, hasBody) ==
  IF acc.explicit # <<>> /\ acc.awaiting \notin MethodFlags
  THEN IF acc.explicit[1] = {} THEN "POST" ELSE CHOOSE m \in acc.explicit[1] : TRUE
  ELSE IF acc.head THEN "HEAD" ELSE IF hasBody THEN "POST" ELSE "GET"

\* What --json says, the command may have said itself.
WithJson(acc) ==
  LET Add(headers, name) ==
        IF Named(headers, name) # <<>> THEN headers
        ELSE Append(headers, [name |-> name, text |-> << Head(JsonMedia) >>, secret |-> FALSE])
  IN IF acc.json THEN Add(Add(acc.headers, "content-type"), "accept") ELSE acc.headers

ParseCurlCommand(words) ==
  LET acc == FoldLeft(Word, Start, words) IN
  {[method |-> ResolveMethod(acc, ~acc.get /\ (acc.parts # <<>> \/ acc.fields # <<>>)),
    origin |-> <<IF url.scheme = "" THEN "http" ELSE url.scheme, url.host>>, path |-> url.path,
    query |-> url.query \o (IF acc.get THEN Fields(acc.parts) ELSE <<>>),
    headers |-> WithJson(acc), fields |-> acc.fields,
    parts |-> IF acc.get THEN <<>> ELSE acc.parts, basic |-> acc.basic] : url \in acc.url}

-----------------------------------------------------------------------------
(* parseCurl(): the account; credentials are known by their scheme only.   *)
Structural ==
  {"authorization", "cookie", "content-type", "content-length", "host", "accept-encoding",
   "connection", "user-agent"}
IsCredential(f) == f.name \in Sensitive \/ f.secret
Scheme(id, kind) == << [id |-> id, kind |-> kind] >>

Authorization(text) ==
  CASE text[1] = "bearer" -> Scheme("bearer", IF text[2] = "jwt" THEN "jwt" ELSE "bearer")
    [] text[1] = "basic" -> Scheme("basic", "basic")
    [] OTHER -> Scheme("authorization", "custom")
HeaderScheme(h) ==
  CASE h.name = "authorization" -> Authorization(h.text)
    [] h.name = "cookie" -> Scheme("cookie", "cookie")
    [] OTHER -> IF IsCredential(h) THEN Scheme(h.name, "apiKey") ELSE <<>>

\* One credential may be given twice; the first of an id stays.
ExtractAuth(r) ==
  LET all == (IF r.basic THEN Scheme("basic", "basic") ELSE <<>>)
             \o FlattenSeq([i \in DOMAIN r.headers |-> HeaderScheme(r.headers[i])])
             \o FlattenSeq([i \in DOMAIN r.query |->
                  IF IsCredential(r.query[i]) THEN Scheme(r.query[i].name, "apiKey") ELSE <<>>])
  IN [id \in {s.id : s \in ToSet(all)} |-> Head(SelectSeq(all, LAMBDA s : s.id = id)).kind]

Noted(in, f, schema) ==
  [in |-> in, name |-> f.name, required |-> FALSE, schema |-> schema,
   example |-> IF IsCredential(f) \/ schema.kind # "string" \/ f.text = <<>> THEN Nothing ELSE f.text[1]]
QueryParameters(r) ==
  {LET same == Named(r.query, f.name)
       secret == \E x \in ToSet(same) : IsCredential(x)
   IN Noted("query", [Head(same) EXCEPT !.secret = secret],
                IF Len(same) = 1 \/ secret THEN Plain("string") ELSE Array(Plain("string"))) :
     f \in ToSet(r.query)}
HeaderParameters(headers) ==
  {Noted("header", h, Plain("string")) :
     h \in {x \in ToSet(headers) : x.name \notin Structural /\ ~IsCredential(x)}}

FormObject(fields) == Object([n \in {f.name : f \in ToSet(fields)} |-> Property(TRUE, Plain("string"))])
Content(type, schema) == << MediaBody(type, schema) >>

\* Without a media type, what does not begin like JSON is fields.
BuildRequestBody(r) ==
  LET types == Named(r.headers, "content-type")
      declared == IF types = <<>> THEN {} ELSE {Head(types).text[1]}
      alone == IF Len(r.parts) = 1 THEN r.parts[1].json ELSE {}
      type(default) == IF declared = {} THEN default ELSE CHOOSE t \in declared : TRUE
  IN IF r.fields # <<>>
     THEN Content(FormMedia[IF \E f \in ToSet(r.fields) : f.file THEN 2 ELSE 1], FormObject(r.fields))
     ELSE IF r.parts = <<>> THEN <<>>
     ELSE IF /\ declared = {FormMedia[1]} \/ (declared = {} /\ ~r.parts[1].braces)
             /\ Fields(r.parts) # <<>>
     THEN Content(FormMedia[1], FormObject(Fields(r.parts)))
     ELSE Content(type(Head(JsonMedia)), InferSchema(SetToSeq(alone)))

ParseCurl(words) ==
  {LET schemes == ExtractAuth(r) IN
   [endpoints |-> << [method |-> r.method, path |-> r.path, servers |-> <<>>,
      parameters |-> QueryParameters(r) \cup HeaderParameters(r.headers), body |-> BuildRequestBody(r),
      responses |-> <<>>, security |-> IF schemes = <<>> THEN <<>> ELSE << DOMAIN schemes >>] >>,
    servers |-> << [origin |-> r.origin, base |-> <<>>] >>, security |-> <<>>, schemes |-> schemes] :
     r \in ParseCurlCommand(words)}

-----------------------------------------------------------------------------
(* checkSpecInvariants(), as the codes of what is found.                   *)
Bodyless == {"GET", "HEAD", "DELETE", "OPTIONS", "TRACE"}
PathNames(path) == {s.name : s \in {x \in ToSet(path) : x.param}}
CheckEndpointInvariants(spec, e) ==
  LET declared == {p.name : p \in {q \in e.parameters : q.in = "path"}} IN
  UNION {IF PathNames(e.path) \subseteq declared THEN {} ELSE {"UNDECLARED_PATH_PARAMETER"},
         IF declared \subseteq PathNames(e.path) THEN {} ELSE {"UNUSED_PATH_PARAMETER"},
         IF ReferencedSchemeIds(e.security) \subseteq DOMAIN spec.schemes THEN {} ELSE {"UNKNOWN_SECURITY_SCHEME"},
         IF e.body # <<>> /\ e.method \in Bodyless THEN {"UNSUPPORTED_FEATURE"} ELSE {},
         IF e.responses = <<>> THEN {"MISSING_SCHEMA"} ELSE {}}
CheckSpecInvariants(spec) ==
  (IF ReferencedSchemeIds(spec.security) \subseteq DOMAIN spec.schemes THEN {} ELSE {"UNKNOWN_SECURITY_SCHEME"})
  \cup (IF IsInjective([i \in DOMAIN spec.endpoints |-> <<spec.endpoints[i].method, spec.endpoints[i].path>>])
        THEN {} ELSE {"DUPLICATE_ENDPOINT"})
  \cup UNION {CheckEndpointInvariants(spec, e) : e \in ToSet(spec.endpoints)}

-----------------------------------------------------------------------------
(* Reference: the shell, one character after the other.                    *)
ShellStep(s, c) ==
  CASE s.mode = "plain" ->
         CASE c = "\\" -> [s EXCEPT !.mode = "escape"]
           [] c = "'" -> [s EXCEPT !.mode = "single", !.began = TRUE]
           [] c = "\"" -> [s EXCEPT !.mode = "double", !.began = TRUE]
           [] c \in {" ", "\n"} ->
                [s EXCEPT !.words = IF s.began THEN Append(@, s.word) ELSE @, !.word = <<>>, !.began = FALSE]
           [] OTHER -> [s EXCEPT !.word = Append(@, c), !.began = TRUE]
    [] s.mode = "escape" ->
         IF c = "\n" THEN [s EXCEPT !.mode = "plain"]
         ELSE [s EXCEPT !.mode = "plain", !.word = Append(@, c), !.began = TRUE]
    [] s.mode = "single" ->
         IF c = "'" THEN [s EXCEPT !.mode = "plain"] ELSE [s EXCEPT !.word = Append(@, c)]
    [] s.mode = "double" ->
         CASE c = "\"" -> [s EXCEPT !.mode = "plain"] [] c = "\\" -> [s EXCEPT !.mode = "kept"]
           [] OTHER -> [s EXCEPT !.word = Append(@, c)]
    [] s.mode = "kept" ->
         [s EXCEPT !.mode = "double",
            !.word = IF c = "\n" THEN @ ELSE IF c \in {"\\", "\"", "$"} THEN Append(@, c) ELSE @ \o <<"\\", c>>]

ShellStart == [mode |-> "plain", word |-> <<>>, began |-> FALSE, words |-> <<>>]

(* A command line is split as a shell splits it, and refused when a shell  *)
(* would wait for more (tokenizeCommand()).  A caret at the end of a line, *)
(* which another shell knows, is left out.                                 *)
WordsAreTheShells(cs) ==
  LET at == FoldLeft(ShellStep, ShellStart, cs)
  IN (\A i \in 1 .. Len(cs) - 1 : cs[i] # "^" \/ cs[i + 1] # "\n") =>
       TokenizeCommand(cs) = IF at.mode # "plain" THEN Failed
                             ELSE [ok |-> TRUE, tokens |-> ShellStep(at, "\n").words]
=============================================================================

---------------------------- MODULE ApiExecution ----------------------------
(***************************************************************************)
(* One request to a documented endpoint: ApiExecutor.execute of            *)
(* packages/api-engine/src/executor.ts with the URL policy (ssrf.ts), the  *)
(* secret resolver and the redactor of packages/security-engine, and how a *)
(* call authenticates (packages/api-ir/src/auth.ts).                       *)
(*                                                                         *)
(* The steps are what happens between two awaits: the prompt, each secret, *)
(* each lookup of a name (the policy's, then that of fetch), each answer   *)
(* (or the timer before it), each chunk of the body.  A header holds the   *)
(* set of values it carries; a value is the reference it was resolved      *)
(* from, the pair of a basic scheme, or what the caller gave.  The servers *)
(* answer what they like, echoing any value they were sent.                *)
(***************************************************************************)
EXTENDS RiskPolicy, Naturals, Sequences

CONSTANTS
  Host,         \* host names and literal addresses
  MetadataHost, \* those of METADATA_HOSTS
  LocalName,    \* names that mean a machine of this network
  Literal,      \* addresses written out, and the names of this machine
  NoRef,        \* a secret reference that is not configured
  Calls,        \* records of method, url, options, schemes, headers, body, environment,
                \* and what the policies and the user say
  HeaderName,
  ShortRef,     \* references to values too short to be redacted
  MaxRedirects,
  Cap           \* bytes of a body that are read

ExecutionAssumption == MaxRedirects \in Nat /\ Cap \in Nat

-----------------------------------------------------------------------------
(* Which URLs may be requested, and how a call authenticates: functions of *)
(* a URL, what its name resolves to, the project's policy and the schemes  *)
(* of a specification.  The tables of address ranges and of names are      *)
(* given as sets: what an address or a name is like, not how that is       *)
(* recognised.                                                             *)
(*                                                                         *)
(* A URL is a record of scheme, userinfo, host and port.  What a host      *)
(* resolves to is a set of "public" and "private" addresses; an address    *)
(* written out is not looked up.                                           *)
Origin(url) == <<url.scheme, url.host, url.port>>

Addresses(host) ==
  IF host \in Literal THEN {{IF host \in LocalName THEN "private" ELSE "public"}}
  ELSE SUBSET {"public", "private"}

Allowlisted(host, policy) == host \in policy.allowedHosts

(* check() up to the lookup: an empty list of allowed hosts allows all.    *)
PermittedByName(url, policy) ==
  /\ url.scheme \in {"http", "https"}
  /\ ~url.userinfo
  /\ url.host \notin policy.blockedHosts
  /\ policy.allowedHosts # {} => Allowlisted(url.host, policy)
  /\ url.host \notin MetadataHost
  /\ url.port # "odd"

(* And behind it: one private address makes the host private.              *)
PermittedByAddress(url, addresses, policy) ==
  LET private == "private" \in addresses \/ url.host \in LocalName
  IN /\ addresses # {}
     /\ private => policy.allowPrivateNetwork \/ Allowlisted(url.host, policy)
     /\ url.scheme = "http" =>
          private \/ policy.allowInsecureHttp \/ Allowlisted(url.host, policy)

-----------------------------------------------------------------------------
(* A scheme is a record of kind, the place and name of its key, its OAuth  *)
(* flow and its references.                                                *)
Ref(scheme, field) == IF field \in DOMAIN scheme.refs THEN scheme.refs[field] ELSE NoRef

Given(scheme, field) == Ref(scheme, field) # NoRef

IsConfigured(scheme) ==
  CASE scheme.kind = "none" -> TRUE
    [] scheme.kind = "unknown" -> FALSE
    [] scheme.kind = "basic" -> Given(scheme, "username") /\ Given(scheme, "password")
    [] scheme.kind = "awsSignature" -> Given(scheme, "accessKeyId") /\ Given(scheme, "secretAccessKey")
    [] scheme.kind = "oauth2" ->
         IF scheme.flow = "clientCredentials"
         THEN Given(scheme, "clientId") /\ Given(scheme, "clientSecret")
         ELSE Given(scheme, "secret") \/ Given(scheme, "clientId")
    [] OTHER -> Given(scheme, "secret")

(* An endpoint has a list of options, each a list of scheme ids that are   *)
(* needed together; schemes is a function of the ids a specification has.  *)
IsPublic(options) == options = <<>> \/ \E i \in DOMAIN options : options[i] = <<>>

Satisfiable(option, schemes) ==
  \A k \in DOMAIN option : option[k] \in DOMAIN schemes /\ IsConfigured(schemes[option[k]])

(* satisfiableOption(): the first of them, or <<>> when there is none.     *)
SatisfiableOption(options, schemes) ==
  IF \E i \in DOMAIN options : Satisfiable(options[i], schemes)
  THEN options[CHOOSE i \in DOMAIN options :
                 /\ Satisfiable(options[i], schemes)
                 /\ \A j \in DOMAIN options : Satisfiable(options[j], schemes) => i <= j]
  ELSE <<>>

-----------------------------------------------------------------------------
VARIABLES
  job,        \* the call
  step,       \* what it waits for
  due,        \* ids of the schemes still to be applied
  got,        \* fields of the first of them that are resolved
  cache,      \* references that were resolved
  known,      \* values the redactor removes
  headers, method, body,
  url, redirects,
  vetted,     \* the addresses the policy found for url
  total,      \* bytes read
  truncated,
  shown,      \* the exchange returned
  outcome,    \* "none", "ok", or why it failed
  sent,       \* history: the requests sent, with the addresses that were
              \* checked and those fetch found
  granted,    \* history: the prompt was answered with yes, or none was needed
  lookedUp,   \* history: names looked up
  lost        \* history: bytes of the body that were not returned

plan == <<due, got, cache, known>>
message == <<headers, method, body>>
response == <<total, truncated, shown, lost>>
evidence == <<sent, granted, lookedUp>>
vars == <<job, step, plan, message, url, redirects, vetted, response, outcome, evidence>>

(* What the caller gave, which is no secret of a scheme.                   *)
Caller == <<"caller">>

Init ==
  /\ job \in Calls
  /\ step = "start"
  /\ due = <<>> /\ got = 0 /\ cache = {} /\ known = {}
  /\ headers = [h \in HeaderName |->
                 IF h \in job.headers \/ (h = "content-type" /\ job.body) THEN {Caller} ELSE {}]
  /\ method = job.method /\ body = job.body
  /\ url = job.url /\ redirects = <<>> /\ vetted = {}
  /\ total = 0 /\ truncated = FALSE /\ lost = 0
  /\ shown = [answer |-> {}, request |-> {}, parts |-> {}, verbatim |-> {}]
  /\ outcome = "none"
  /\ sent = <<>> /\ granted = FALSE /\ lookedUp = {}

Return(how) == step' = "done" /\ outcome' = how

Await(what) == step' = what /\ UNCHANGED outcome

-----------------------------------------------------------------------------
(* buildUrl(): no server, a path value or server variable that is missing. *)
UrlFails ==
  /\ step = "start" /\ ~job.complete
  /\ Return("config")
  /\ UNCHANGED <<job, plan, message, url, redirects, vetted, response, evidence>>

Action == [kind |-> "api_request", risk |-> ClassifyHttpRisk(job.method, job.environment), subject |-> job.url.host,
           environment |-> job.environment, method |-> job.method, requiresApproval |-> FALSE]

(* serializeBody() is the last that can go wrong before the first hop.     *)
Built == IF job.serializable THEN Await("policy") ELSE Return("invalid")

(* effectiveSecurity() and satisfiableOption(), looked at once the request *)
(* is authorised.                                                          *)
Authenticate ==
  LET option == SatisfiableOption(job.options, job.schemes)
  IN IF IsPublic(job.options) THEN Built /\ UNCHANGED due
     ELSE IF option = <<>> THEN Return("auth") /\ UNCHANGED due
     ELSE Await("secrets") /\ due' = option

(* classifyHttpRisk() refuses what is not a method; without a gate nobody  *)
(* is asked; the policy may allow, forbid or ask.                          *)
Authorize ==
  /\ step = "start" /\ job.complete
  /\ IF job.method \notin ReadOnlyMethod \cup MutatingMethod
     THEN Return("invalid") /\ UNCHANGED <<due, granted>>
     ELSE LET verdict == IF job.gated THEN EvaluatePolicy(Action, job.context) ELSE "allow"
          IN \/ verdict = "allow" /\ granted' = TRUE /\ Authenticate
             \/ verdict = "deny" /\ Return("denied") /\ UNCHANGED <<due, granted>>
             \/ verdict = "require_approval" /\ Await("prompt") /\ UNCHANGED <<due, granted>>
  /\ UNCHANGED <<job, got, cache, known, message, url, redirects, vetted, response, sent, lookedUp>>

Answered(yes) ==
  /\ step = "prompt"
  /\ IF yes THEN granted' = TRUE /\ Authenticate
     ELSE Return("denied") /\ UNCHANGED <<due, granted>>
  /\ UNCHANGED <<job, got, cache, known, message, url, redirects, vetted, response, sent, lookedUp>>

-----------------------------------------------------------------------------
(* applyScheme(): the fields it resolves, and the header it writes.        *)
Fields(scheme) ==
  CASE scheme.kind = "none" -> <<>>
    [] scheme.kind = "basic" -> <<"username", "password">>
    [] scheme.kind \in {"apiKey", "bearer", "jwt", "cookie", "oauth2"} -> <<"secret">>
    [] OTHER -> <<"unsupported">>

Value(scheme) ==
  IF scheme.kind = "basic" THEN <<"pair", Ref(scheme, "username"), Ref(scheme, "password")>>
  ELSE Ref(scheme, "secret")

Target(scheme) ==
  CASE scheme.kind = "cookie" \/ (scheme.kind = "apiKey" /\ scheme.in = "cookie") -> "cookie"
    [] scheme.kind \in {"apiKey", "bearer", "jwt"} -> scheme.header
    [] OTHER -> "authorization"

(* A cookie is appended, any other header replaced.                        *)
Applied(scheme) ==
  [headers EXCEPT ![Target(scheme)] =
     IF Target(scheme) = "cookie" THEN @ \cup {Value(scheme)} ELSE {Value(scheme)}]

Unsupported(scheme) ==
  \/ Fields(scheme) = <<"unsupported">>
  \/ scheme.kind = "apiKey" /\ scheme.in = "query" /\ got = 1

(* Seeded bug: the pair of a basic scheme is not registered.               *)
RegisterWithoutPair(scheme) == UNCHANGED known

(* The encoded pair is itself a credential.                                *)
Register(scheme) ==
  IF scheme.kind = "basic" THEN known' = known \cup {Value(scheme)} ELSE UNCHANGED known

Head1 == job.schemes[due[1]]

(* The next reference of the scheme in hand, from the cache or its         *)
(* provider, is registered as it is resolved.                              *)
SecretResolved ==
  /\ step = "secrets" /\ due # <<>>
  /\ ~Unsupported(Head1)
  /\ got < Len(Fields(Head1))
  /\ LET reference == Ref(Head1, Fields(Head1)[got + 1])
     IN /\ job.resolver /\ reference # NoRef
        /\ cache' = cache \cup {reference}
        /\ known' = known \cup ({reference} \ ShortRef)
  /\ got' = got + 1
  /\ UNCHANGED <<job, step, due, message, url, redirects, vetted, response, outcome, evidence>>

(* No resolver, no reference, a provider that fails or an empty value, or  *)
(* a kind that cannot be applied.                                          *)
SecretFails ==
  /\ step = "secrets" /\ due # <<>> /\ Head1.kind # "none"
  /\ \/ Unsupported(Head1)
     \/ got < Len(Fields(Head1)) /\ Ref(Head1, Fields(Head1)[got + 1]) \notin cache
  /\ Return("secret")
  /\ UNCHANGED <<job, plan, message, url, redirects, vetted, response, evidence>>

SchemeApplied ==
  /\ step = "secrets" /\ due # <<>>
  /\ ~Unsupported(Head1) /\ got = Len(Fields(Head1))
  /\ headers' = IF Head1.kind = "none" THEN headers ELSE Applied(Head1)
  /\ Register(Head1)
  /\ due' = Tail(due) /\ got' = 0
  /\ IF Tail(due) = <<>> THEN Built ELSE UNCHANGED <<step, outcome>>
  /\ UNCHANGED <<job, cache, method, body, url, redirects, vetted, response, evidence>>

-----------------------------------------------------------------------------
CredentialHeader == {"authorization", "proxy-authorization", "cookie", "x-api-key",
                     "x-auth-token", "x-access-token"}

Request(addresses) == [url |-> url, method |-> method, checked |-> vetted, addresses |-> addresses,
                       credentials |-> UNION {headers[h] : h \in CredentialHeader \cap HeaderName},
                       values |-> UNION {headers[h] : h \in HeaderName}]

(* Seeded bug: only the first URL is looked at.                            *)
CheckedOnce(addresses) ==
  redirects # <<>> \/ (PermittedByName(url, job.policy)
                       /\ PermittedByAddress(url, addresses, job.policy))

Checked(addresses) ==
  PermittedByName(url, job.policy) /\ PermittedByAddress(url, addresses, job.policy)

(* One turn of the loop of send() begins with the policy, with a lookup of *)
(* its own where the name alone does not refuse it.                        *)
CheckUrl(addresses) ==
  /\ step = "policy"
  /\ addresses \in Addresses(url.host)
  /\ lookedUp' = IF PermittedByName(url, job.policy) /\ url.host \notin Literal
                 THEN lookedUp \cup {url.host} ELSE lookedUp
  /\ IF Checked(addresses) THEN vetted' = addresses /\ Await("fetch")
     ELSE Return("refused") /\ UNCHANGED vetted
  /\ UNCHANGED <<job, plan, message, url, redirects, response, sent, granted>>

(* Then sendOnce(): fetch is given the URL and not the addresses that were *)
(* checked, and looks the name up once more.                               *)
Send(addresses) ==
  /\ step = "fetch"
  /\ addresses \in Addresses(url.host) \ {{}}
  /\ sent' = Append(sent, Request(addresses))
  /\ Await("answer")
  /\ UNCHANGED <<job, plan, message, url, redirects, vetted, response, granted, lookedUp>>

(* The name has no address any more, the timer, or the connection breaks.  *)
SendFails ==
  /\ step \in {"fetch", "answer"}
  /\ Return("network")
  /\ UNCHANGED <<job, plan, message, url, redirects, vetted, response, evidence>>

(* Seeded bug: a cookie is thought harmless.                               *)
WithoutCredentialsButCookies ==
  [h \in HeaderName |-> IF h \in CredentialHeader \ {"cookie"} THEN {} ELSE headers[h]]

WithoutCredentials == [h \in HeaderName |-> IF h \in CredentialHeader THEN {} ELSE headers[h]]

(* Seeded bug: redirects are not counted.                                  *)
LastHopNever == FALSE

LastHop == Len(redirects) >= MaxRedirects

(* 303, and 301 and 302 in practice, turn the follow-up into a GET.        *)
TurnsToGet(status) == status = 303 \/ (status < 303 /\ method = "POST")

(* An answer with a redirect status and a Location that can be read: the   *)
(* credentials go when the origin changes, and the body with the method.   *)
Redirected(status, next) ==
  /\ step = "answer"
  /\ LET kept == IF Origin(next) = Origin(url) THEN headers ELSE WithoutCredentials
     IN headers' = IF TurnsToGet(status) THEN [kept EXCEPT !["content-type"] = {}] ELSE kept
  /\ body' = (body /\ ~TurnsToGet(status))
  /\ method' = IF TurnsToGet(status) THEN "GET" ELSE method
  /\ redirects' = Append(redirects, next)
  /\ url' = next
  /\ IF LastHop THEN Return("limit") ELSE Await("policy")
  /\ UNCHANGED <<job, plan, vetted, response, evidence>>

LocationUnreadable ==
  /\ step = "answer"
  /\ Return("malformed")
  /\ UNCHANGED <<job, plan, message, url, redirects, vetted, response, evidence>>

AnswerArrives ==
  /\ step = "answer"
  /\ Await("body")
  /\ UNCHANGED <<job, plan, message, url, redirects, vetted, response, evidence>>

-----------------------------------------------------------------------------
(* Seeded bug: only what was read before is compared with the cap.         *)
OverCapLate(bytes) == total >= Cap

OverCap(bytes) == bytes >= Cap - total

(* readBody(): chunk by chunk; the one that reaches the cap is the last.   *)
ReadChunk(bytes) ==
  /\ step = "body" /\ ~truncated
  /\ truncated' = OverCap(bytes)
  /\ total' = IF OverCap(bytes) THEN Cap ELSE total + bytes
  /\ lost' = lost + bytes - (total' - total)
  /\ UNCHANGED <<job, step, plan, message, url, redirects, vetted, shown, outcome, evidence>>

Redacted(values) == values \ known

(* What the servers were sent on the way.                                  *)
Received == UNION {sent[i].values : i \in DOMAIN sent}

(* toExchange(): the body, the headers and the request are returned as the *)
(* redactor leaves them, whatever the servers echoed.  It runs after the   *)
(* cut, where a value may be cut in two; and the status text and the URLs  *)
(* of the redirects do not go through it.                                  *)
BodyEnds(echoed) ==
  /\ step = "body"
  /\ shown' = [answer |-> Redacted(echoed),
               request |-> Redacted(UNION {headers[h] : h \in HeaderName \ CredentialHeader}),
               parts |-> IF truncated THEN echoed ELSE {},
               verbatim |-> echoed]
  /\ Return("ok")
  /\ UNCHANGED <<job, plan, message, url, redirects, vetted, total, truncated, lost, evidence>>

BodyFails ==
  /\ step = "body" /\ ~truncated
  /\ Return("network")
  /\ UNCHANGED <<job, plan, message, url, redirects, vetted, response, evidence>>

Advance ==
  \/ UrlFails \/ Authorize \/ \E yes \in BOOLEAN : Answered(yes)
  \/ SecretResolved \/ SecretFails \/ SchemeApplied
  \/ \E addresses \in SUBSET {"public", "private"} : CheckUrl(addresses) \/ Send(addresses)
  \/ SendFails \/ LocationUnreadable \/ AnswerArrives
  \/ \E status \in {301, 302, 303, 307, 308}, next \in job.elsewhere : Redirected(status, next)
  \/ \E bytes \in 1..2 : ReadChunk(bytes)
  \/ \E echoed \in SUBSET Received : BodyEnds(echoed)
  \/ BodyFails

Spec == Init /\ [][Advance]_vars /\ WF_vars(Advance)

-----------------------------------------------------------------------------
(* The headers the code lists as credentials reach the origin that was     *)
(* asked for and no other, however the request is sent around, and do not  *)
(* come back when it returns after leaving.                                *)
CredentialsStayHome ==
  \A i \in DOMAIN sent :
    (\E j \in 1..i : Origin(sent[j].url) # Origin(sent[1].url)) => sent[i].credentials = {}

(* Nothing is looked up, resolved or sent before the call is authorised,   *)
(* each hop was checked with the addresses the policy's own lookup gave    *)
(* for that very hop, there are no more than one and MaxRedirects of them, *)
(* and the exchange lists the ones that were followed, in order.  Where it *)
(* goes is known to be what was checked only for an address written out: a *)
(* name is looked up again in between, and may have changed.               *)
EveryHopIsChecked ==
  /\ lookedUp # {} \/ cache # {} \/ sent # <<>> => granted
  /\ \A i \in DOMAIN sent :
       /\ PermittedByName(sent[i].url, job.policy)
       /\ PermittedByAddress(sent[i].url, sent[i].checked, job.policy)
       /\ sent[i].url.host \in Literal => sent[i].addresses = sent[i].checked
  /\ Len(sent) <= MaxRedirects + 1
  /\ outcome = "ok" => redirects = [i \in 1..Len(sent) - 1 |-> sent[i + 1].url]

(* What went through the redactor holds no secret that was resolved for    *)
(* the call, though the servers may echo them all, but for those too short *)
(* to be told from other text; a part of one may be left where the cap cut *)
(* the body.  (The status text and the redirects are handed on as the      *)
(* server wrote them: no more is promised of them than that they hold what *)
(* it was sent.)                                                           *)
Secrets == (cache \cup Received) \ {Caller}

ExchangeTellsNoSecret ==
  outcome = "ok" =>
    /\ (shown.answer \cup shown.request) \cap (Secrets \ ShortRef) = {}
    /\ ~truncated => shown.parts = {}
    /\ shown.verbatim \subseteq Received

(* A body that is not called truncated is whole, and none is longer than   *)
(* the cap.                                                                *)
UncutBodiesAreWhole ==
  outcome = "ok" => total <= Cap /\ (~truncated => lost = 0)

(* Every call is over some time: hops are counted, an answer is waited for *)
(* no longer than the timer, and the body is read no further than the cap. *)
CallEnds == <>(step = "done")
=============================================================================

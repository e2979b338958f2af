----------------------------- MODULE MCEffects -----------------------------
(***************************************************************************)
(* Effects on a few requests and commands, and up to three servers.         *)
(***************************************************************************)
EXTENDS Effects

CONSTANTS home, other, box, meta, k1, k2, k3, p1

MCHost == {home, other, box, meta}
MCMetadataHost == {meta}
MCLocal == {box}
MCHeaderName == {"authorization", "cookie", "x-api-key", "content-type"}
MCShortRef == {k2}
MCServers == 1..3

-----------------------------------------------------------------------------
(* Requests: read and mutating methods and one that is none, public and    *)
(* authenticated endpoints, and policies that are open, allow one host, or *)
(* block it.                                                               *)
U(scheme, host, port) == [scheme |-> scheme, userinfo |-> FALSE, host |-> host, port |-> port]
Home == U("https", home, "default")
Elsewhere == {Home, U("https", other, "default"), U("http", box, "dev"), U("https", meta, "default")}
Policy(allowed, blocked, lenient) ==
  [allowedHosts |-> allowed, blockedHosts |-> blocked, allowPrivateNetwork |-> lenient,
   allowInsecureHttp |-> lenient]
Scheme(kind, in, header, refs) ==
  [kind |-> kind, in |-> in, header |-> header, flow |-> "implicit", refs |-> refs]
Schemes == [key     |-> Scheme("apiKey", "header", "x-api-key", [secret |-> k1]),
            basic   |-> Scheme("basic", "", "", [username |-> k2, password |-> k3]),
            session |-> Scheme("cookie", "", "", [secret |-> k2]),
            signed  |-> Scheme("hmac", "", "", [secret |-> k3]),
            later   |-> Scheme("bearer", "", "authorization", [secret |-> NoRef])]
Context == [mode |-> "askOnApiAndDestructive", allowedEnvironments |-> {"local"},
            apiExecutionEnabled |-> TRUE, allowedMutationMethods |-> {"POST"}]
Call(m, options, policy) ==
  [method |-> m, environment |-> "local", url |-> Home, elsewhere |-> Elsewhere,
   options |-> options, schemes |-> Schemes, headers |-> {}, body |-> m = "POST",
   complete |-> TRUE, serializable |-> TRUE, gated |-> TRUE, resolver |-> TRUE,
   policy |-> policy, context |-> Context]
Open == Policy({}, {}, FALSE)
Session == << <<"later">>, <<"basic", "session">> >>
MCCalls ==
  {Call("GET", << <<"later">> >>, Open)}
  \cup {Call(m, Session, Open) : m \in {"GET", "POST", "DELETE", "UPDATE"}}
  \cup {Call("POST", options, Open) : options \in {<<>>, << <<"later">> >>, << <<"key", "signed">> >>}}
  \cup {Call("GET", << <<"key", "basic">> >>, policy) :
          policy \in {Policy({home}, {}, FALSE), Policy({}, {home}, TRUE)}}
  \cup {Call("GET", << <<"key">> >>, Policy({}, {}, TRUE))}
  \cup {[Call("POST", Session, Open) EXCEPT !.complete = FALSE],
        [Call("GET", <<>>, Open) EXCEPT !.serializable = FALSE],
        [Call("POST", Session, Open) EXCEPT !.serializable = FALSE],
        [Call("GET", Session, Open) EXCEPT !.resolver = FALSE],
        [Call("DELETE", <<>>, Open) EXCEPT !.gated = FALSE]}

(* Commands: allowed, denied and unlisted subcommands and programs, a path,*)
(* a shell and a program that is not installed.                            *)
Arg(n) == [option |-> FALSE, name |-> n]
Flag == [option |-> TRUE, name |-> "-x"]
Line(program, spelling, args) ==
  [program |-> program, spelling |-> spelling, control |-> FALSE, destructive |-> FALSE,
   args |-> args, resolves |-> TRUE]
MCSpecs ==
  {Line("git", "name", <<Flag, Arg("status")>>), Line("git", "name", <<Arg("push")>>),
   Line("git", "name", <<Flag>>), Line("tsc", "name", <<>>), Line("tsc", "path", <<>>),
   Line("sh", "name", <<>>), [Line("tsc", "name", <<>>) EXCEPT !.resolves = FALSE],
   [Line("git", "name", <<Arg("status")>>) EXCEPT !.destructive = TRUE]}

MCRules == [git |-> [allowed |-> {"status"}, denied |-> {"push"}],
            tsc |-> [allowed |-> {}, denied |-> {}]]
=============================================================================

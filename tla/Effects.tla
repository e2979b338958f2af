------------------------------ MODULE Effects ------------------------------
(***************************************************************************)
(* The three components that act on the world outside the project's files, *)
(* one behaviour of one of them at a time: a request to an API, a command, *)
(* or the editor's session with its server.  They share no state; which    *)
(* one runs is chosen at Init, and the variables of the others are Off.    *)
(***************************************************************************)
EXTENDS Naturals, Sequences

CONSTANTS
  Host, MetadataHost, LocalName, Literal, NoRef,           \* of ApiExecution
  Calls, HeaderName, ShortRef, MaxRedirects, Cap,
  Specs, Rules, Descendant,                                \* of CommandExecution
  Servers, MaxFailures, Patch, MaxWire,                    \* of EditorSession
  Off

VARIABLES
  part,
  job, step, due, got, cache, known, headers, method, body, url, redirects, vetted, total,
  truncated, shown, outcome, sent, granted, lookedUp, lost,
  spec, habits, state, alive, forked, signal, timedOut, aborted, escalation, result,
  serverUp,
  process, server, client, project, startup, failures, disposed, early, registry, view,
  running, command, asks, wire, deserted, unheard

apiVars == <<job, step, due, got, cache, known, headers, method, body, url, redirects,
             vetted, total, truncated, shown, outcome, sent, granted, lookedUp, lost>>
commandVars == <<spec, habits, state, alive, forked, signal, timedOut, aborted,
                 escalation, result, serverUp>>
sessionVars == <<process, server, client, project, startup, failures, disposed, early,
                 registry, view, running, command, asks, wire, deserted, unheard>>
vars == <<part, apiVars, commandVars, sessionVars>>

Api == INSTANCE ApiExecution
Cmd == INSTANCE CommandExecution
Editor == INSTANCE EditorSession

ASSUME EffectsAssumption == Api!ExecutionAssumption /\ Editor!SessionAssumption

-----------------------------------------------------------------------------
ApiOff ==
  /\ job = Off /\ step = Off /\ due = Off /\ got = Off /\ cache = Off /\ known = Off
  /\ headers = Off /\ method = Off /\ body = Off /\ url = Off /\ redirects = Off
  /\ vetted = Off /\ total = Off /\ truncated = Off /\ shown = Off /\ outcome = Off /\ sent = Off
  /\ granted = Off /\ lookedUp = Off /\ lost = Off
CommandOff ==
  /\ spec = Off /\ habits = Off /\ state = Off /\ alive = Off /\ forked = Off
  /\ signal = Off /\ timedOut = Off /\ aborted = Off /\ escalation = Off
  /\ result = Off /\ serverUp = Off
SessionOff ==
  /\ process = Off /\ server = Off /\ client = Off /\ project = Off /\ startup = Off
  /\ failures = Off /\ disposed = Off /\ early = Off /\ registry = Off /\ view = Off
  /\ running = Off /\ command = Off /\ asks = Off /\ wire = Off /\ deserted = Off /\ unheard = Off

Init ==
  \/ part = "api" /\ Api!Init /\ CommandOff /\ SessionOff
  \/ part = "command" /\ Cmd!Init /\ ApiOff /\ SessionOff
  \/ part = "session" /\ Editor!Init /\ ApiOff /\ CommandOff

In(which) == part = which /\ UNCHANGED part

Next ==
  \/ In("api") /\ Api!Advance /\ UNCHANGED <<commandVars, sessionVars>>
  \/ In("command") /\ Cmd!Next /\ UNCHANGED <<apiVars, sessionVars>>
  \/ In("session") /\ Editor!Next /\ UNCHANGED <<apiVars, commandVars>>

\* The fairness of the three specifications, for the one that runs.
Fairness ==
  /\ WF_apiVars(part = "api" /\ Api!Advance)
  /\ WF_commandVars(part = "command" /\ Cmd!TimerFires)
  /\ WF_commandVars(part = "command" /\ Cmd!Escalate)
  /\ WF_commandVars(part = "command" /\ Cmd!Close)
  /\ \A s \in Servers : WF_sessionVars(part = "session" /\ Editor!Ends(s))

Spec == Init /\ [][Next]_vars /\ Fairness

-----------------------------------------------------------------------------
(* The credentials of a request reach the origin that was asked for and no *)
(* other, and each hop it takes was authorised and checked with the        *)
(* addresses its name had when the policy looked (send() of executor.ts).  *)
RequestsStayInBounds ==
  part = "api" => Api!CredentialsStayHome /\ Api!EveryHopIsChecked

(* What of an exchange is redacted tells no secret it was made with, and   *)
(* the exchange says so when it does not hold the whole body               *)
(* (toExchange(), readBody()).                                             *)
ExchangesAreHonest ==
  part = "api" => Api!ExchangeTellsNoSecret /\ Api!UncutBodiesAreWhole

(* What is reported of a command is what happened to it, and is reported   *)
(* when nobody can write to its output any more (spawnAndCollect()).       *)
CommandsAreReportedTruly == part = "command" => Cmd!CommandOutcome

(* The editor supervises every server that runs, calls the one its project *)
(* is open on, gives up on one that keeps dying before that, and shows the *)
(* patches as they are, but for changes nobody told it of (extension.ts,   *)
(* serverProcess.ts).                                                      *)
SessionIsInStep ==
  part = "session" => /\ Editor!OneServer /\ Editor!ProjectIsServed
                      /\ Editor!SpinStops /\ Editor!ViewIsCurrent

(* Whatever was started ends: a call, a command that was stopped and the   *)
(* answer about it, and the servers of an editor that is closed.           *)
WhatWasStartedEnds ==
  /\ part = "api" ~> step = "done"
  /\ part = "command" /\ (timedOut = TRUE \/ aborted = TRUE)
       ~> part = "command" /\ (Cmd!Group = {} \/ ~serverUp)
  /\ part = "command" /\ state = "running"
       ~> part = "command" /\ (\/ state = "settled" \/ ~serverUp
                               \/ Cmd!Writers \ Cmd!Group # {})
  /\ part = "session" /\ disposed = TRUE
       ~> part = "session" /\ \A s \in Servers : process[s] \in {"unborn", "gone"}
=============================================================================

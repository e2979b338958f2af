---------------------------- MODULE RunLifecycle ----------------------------
(***************************************************************************)
(* Agent runs from request to answer: Orchestrator.run and execute of      *)
(* apps/agent-server/src/orchestrator.ts with the event bus and emitter of *)
(* packages/shared, the store, the MCP registry and client                 *)
(* (packages/mcp-engine) and the startRun and cancelRun handlers.          *)
(*                                                                         *)
(* One orchestrator serves every run of a project: `running`, the patches  *)
(* and the one field for the MCP registry are shared.  A step is the code  *)
(* of a run between two awaits, so other runs, requests and cancellations  *)
(* come in between.  The agent and repair loops appear by how they end     *)
(* (AgentRun, RepairLoop).  The events a step emits in a row are one       *)
(* event; what the store makes of an event, which nobody waits for, is     *)
(* decided when it is sent.                                                *)
(***************************************************************************)
EXTENDS Naturals

CONSTANTS
  Run,        \* the runs clients ask for
  Server,     \* the configured MCP servers
  NoRun,      \* no registry in the orchestrator's field
  SelfApply,  \* the approval mode lets the agent apply its patches
  MaxSteps,   \* bound: tool calls of one agent loop
  MaxFaults   \* bound: store calls that fail

ASSUME LifecycleAssumption ==
  /\ NoRun \notin Run
  /\ SelfApply \in BOOLEAN
  /\ MaxSteps \in Nat /\ MaxFaults \in Nat

VARIABLES
  pc,         \* where each run waits
  cancelled,  \* the run's own controller is aborted
  running,    \* runs that can be cancelled, by id or by their request
  deserted,   \* runs whose request was aborted: its client cancelled it or left
  record,     \* the status stored for the run, "none" without a row
  answer,     \* "none", "ok" or "error"
  indexed,    \* the project has an index
  applied,    \* some patch of the shared registry is applied
  steps,      \* tool calls of the run so far
  untried,    \* servers the run has not tried yet
  starting,   \* server processes spawned and not yet registered
  servers,    \* server processes in the run's registry
  current,    \* the run whose registry is in the orchestrator's field
  seq,        \* events emitted by the run
  subscribed, \* runs whose events are being persisted
  stored,     \* how many events of the run the store has
  faults,     \* store calls that failed
  heard,      \* history: runs cancelled while they could be, before their agent loop
  met         \* history: runs during which another run was under way

request == <<cancelled, running, deserted, heard>>
project == <<indexed, applied>>
processes == <<untried, starting, servers, current>>
timeline == <<seq, subscribed, stored>>
vars == <<pc, request, record, answer, project, steps, processes, timeline, faults, met>>

UnderWay(r) == pc[r] \notin {"idle", "ended"}
BeforeAgent == {"recording", "connecting", "skills"}

Init ==
  /\ pc = [r \in Run |-> "idle"]
  /\ cancelled = [r \in Run |-> FALSE]
  /\ running = {}
  /\ deserted = {}
  /\ record = [r \in Run |-> "none"]
  /\ answer = [r \in Run |-> "none"]
  /\ indexed \in BOOLEAN
  /\ applied = FALSE
  /\ steps = [r \in Run |-> 0]
  /\ untried = [r \in Run |-> Server]
  /\ starting = [r \in Run |-> {}]
  /\ servers = [r \in Run |-> {}]
  /\ current = NoRun
  /\ seq = [r \in Run |-> 0]
  /\ subscribed = {}
  /\ stored = [r \in Run |-> 0]
  /\ faults = 0
  /\ heard = {}
  /\ met = {}

At(r, here, there) == pc[r] = here /\ pc' = [pc EXCEPT ![r] = there]

(* A store call works or fails; a failure is logged and changes nothing.   *)
Stores(done, undone) ==
  \/ done /\ UNCHANGED faults
  \/ undone /\ faults < MaxFaults /\ faults' = faults + 1

(* RunEmitter.emit: the next number of the run, to every subscriber, among *)
(* them the one that persists the run's events.                            *)
Emit(r, listeners) ==
  /\ seq' = [seq EXCEPT ![r] = @ + 1]
  /\ IF r \in listeners
     THEN Stores(stored' = [stored EXCEPT ![r] = @ + 1], UNCHANGED stored)
     ELSE UNCHANGED <<stored, faults>>

-----------------------------------------------------------------------------
(* startRun: the provider is resolved before anything else.                *)
StartRun(r) ==
  /\ At(r, "idle", "resolving")
  /\ met' = IF \E s \in Run : UnderWay(s)
            THEN met \cup {r} \cup {s \in Run : UnderWay(s)} ELSE met
  /\ UNCHANGED <<request, record, answer, project, steps, processes, timeline, faults>>

ProviderFails(r) ==
  /\ At(r, "resolving", "ended")
  /\ answer' = [answer EXCEPT ![r] = "error"]
  /\ UNCHANGED <<request, record, project, steps, processes, timeline, faults, met>>

(* The run can be cancelled from here on: the listener for the request's   *)
(* signal is only added now, and nobody looks whether it is set already.   *)
(* The row of the run goes to the store.                                   *)
ProviderResolved(r) ==
  /\ At(r, "resolving", "recording")
  /\ running' = running \cup {r}
  /\ Stores(record' = [record EXCEPT ![r] = "running"], UNCHANGED record)
  /\ UNCHANGED <<cancelled, deserted, heard, answer, project, steps, processes, timeline, met>>

Heard(r) == IF pc[r] \in BeforeAgent THEN heard \cup {r} ELSE heard

(* cancelRun, from whichever client knows the id.                          *)
CancelRun(r) ==
  /\ r \in running /\ ~cancelled[r]
  /\ cancelled' = [cancelled EXCEPT ![r] = TRUE]
  /\ heard' = Heard(r)
  /\ UNCHANGED <<pc, running, deserted, record, answer, project, steps, processes, timeline,
                 faults, met>>

(* The client of the request cancels it or leaves.  While the provider is  *)
(* resolved nothing listens, and the run goes on as if nothing had         *)
(* happened.                                                               *)
AbortRequest(r) ==
  /\ UnderWay(r) /\ r \notin deserted
  /\ deserted' = deserted \cup {r}
  /\ cancelled' = [cancelled EXCEPT ![r] = @ \/ r \in running]
  /\ heard' = IF r \in running THEN Heard(r) ELSE heard
  /\ UNCHANGED <<pc, running, record, answer, project, steps, processes, timeline,
                 faults, met>>

-----------------------------------------------------------------------------
(* Seeded bug: the field is cleared and nothing is closed.                 *)
CloseServersNever ==
  /\ current' = NoRun
  /\ UNCHANGED <<untried, starting, servers>>

(* closeAll of whatever registry is in the field: it closes the servers    *)
(* registered so far.                                                      *)
CloseServers ==
  /\ servers' = IF current = NoRun THEN servers ELSE [servers EXCEPT ![current] = {}]
  /\ current' = NoRun
  /\ UNCHANGED <<untried, starting>>

(* The finally block of run().                                             *)
Close(r, how) ==
  /\ answer' = [answer EXCEPT ![r] = how]
  /\ running' = running \ {r}
  /\ subscribed' = subscribed \ {r}
  /\ CloseServers
  /\ UNCHANGED <<cancelled, deserted, heard>>

(* Seeded bug: events are persisted from the second one on.                *)
SubscribeLate(r) == IF seq[r] = 0 THEN subscribed ELSE subscribed \cup {r}

Subscribe(r) == subscribed \cup {r}

(* Events are persisted from here on and execute() begins: without an      *)
(* index it gives up at once, else the plan is made and announced, and a   *)
(* registry of the run's own is put in the shared field.                   *)
RecordStarted(r) ==
  /\ pc[r] = "recording"
  /\ Emit(r, Subscribe(r))
  /\ IF indexed
     THEN /\ pc' = [pc EXCEPT ![r] = "connecting"]
          /\ subscribed' = Subscribe(r) \cup {r}
          /\ current' = r
          /\ UNCHANGED <<request, answer, untried, starting, servers>>
     ELSE /\ pc' = [pc EXCEPT ![r] = "ended"]
          /\ Close(r, "error")
  /\ UNCHANGED <<record, project, steps, met>>

(* connectAll: server after server.  One that is not permitted here, or    *)
(* cannot be started, is skipped.                                          *)
SpawnServer(r, s, works) ==
  /\ pc[r] = "connecting" /\ starting[r] = {}
  /\ s \in untried[r]
  /\ untried' = [untried EXCEPT ![r] = @ \ {s}]
  /\ starting' = IF works THEN [starting EXCEPT ![r] = {s}] ELSE starting
  /\ UNCHANGED <<pc, request, record, answer, project, steps, servers, current, timeline, faults,
                 met>>

Registered(r, s, works) == IF works THEN [servers EXCEPT ![r] = @ \cup {s}] ELSE servers

(* Seeded bug: a server that refuses is tried again.                       *)
LeftForRetry(r, s, works) == IF works THEN untried[r] ELSE untried[r] \cup {s}

(* A server is tried once.                                                 *)
Left(r, s, works) == untried[r]

(* The handshake and the tool list are answered, or the server is closed.  *)
ServerAnswers(r, s, works) ==
  /\ pc[r] = "connecting"
  /\ s \in starting[r]
  /\ starting' = [starting EXCEPT ![r] = {}]
  /\ untried' = [untried EXCEPT ![r] = Left(r, s, works)]
  /\ servers' = Registered(r, s, works)
  /\ UNCHANGED <<pc, request, record, answer, project, steps, current, timeline, faults,
                 met>>

Connected(r) ==
  /\ At(r, "connecting", "skills")
  /\ untried[r] = {} /\ starting[r] = {}
  /\ Emit(r, subscribed)
  /\ UNCHANGED <<request, record, answer, project, steps, processes, subscribed, met>>

(* Seeded bug: the loop looks at the signal only after its first turn.     *)
AgentStartsRegardless(r) == "agent"

(* The loop looks at the signal before it does anything.                   *)
AgentStarts(r) == IF cancelled[r] THEN "recordingFailure" ELSE "agent"

SkillsSelected(r) ==
  /\ At(r, "skills", AgentStarts(r))
  /\ Emit(r, subscribed)
  /\ UNCHANGED <<request, record, answer, project, steps, processes, subscribed, met>>

(* A tool call of the loop; where the mode allows, it applies a patch.     *)
AgentCalls(r, writes) ==
  /\ pc[r] = "agent"
  /\ ~cancelled[r]
  /\ steps[r] < MaxSteps
  /\ writes => SelfApply
  /\ steps' = [steps EXCEPT ![r] = @ + 1]
  /\ applied' = (applied \/ writes)
  /\ Emit(r, subscribed)
  /\ UNCHANGED <<pc, request, record, answer, indexed, processes, subscribed, met>>

(* The loop ends: stopped by a cancellation or by its provider, or with an *)
(* outcome.  It validates when any patch of the project is applied.        *)
AgentFails(r) ==
  /\ At(r, "agent", "recordingFailure")
  /\ Emit(r, subscribed)
  /\ UNCHANGED <<request, record, answer, project, steps, processes, subscribed, met>>

AgentConcludes(r) ==
  /\ At(r, "agent", IF applied THEN "validating" ELSE "recordingEnd")
  /\ Emit(r, subscribed)
  /\ UNCHANGED <<request, record, answer, project, steps, processes, subscribed, met>>

Validated(r) ==
  /\ At(r, "validating", "recordingEnd")
  /\ Emit(r, subscribed)
  /\ UNCHANGED <<request, record, answer, project, steps, processes, subscribed, met>>

(* Seeded bug: every run that ends is stored as completed.                 *)
RecordedAlike(r, status) ==
  record' = IF record[r] = "none" THEN record ELSE [record EXCEPT ![r] = "completed"]

(* finishRun: a row that was never written is not invented.                *)
Recorded(r, status) ==
  record' = IF record[r] = "none" THEN record ELSE [record EXCEPT ![r] = status]

FailureRecorded(r) ==
  /\ At(r, "recordingFailure", "ended")
  /\ Stores(Recorded(r, "failed"), UNCHANGED record)
  /\ Close(r, "error")
  /\ UNCHANGED <<project, steps, seq, stored, met>>

EndRecorded(r) ==
  /\ At(r, "recordingEnd", "ended")
  /\ Stores(Recorded(r, "completed"), UNCHANGED record)
  /\ Close(r, "ok")
  /\ UNCHANGED <<project, steps, seq, stored, met>>

-----------------------------------------------------------------------------
(* indexCode, and the review handlers of the user (PatchReview).           *)
IndexBuilt ==
  /\ ~indexed /\ indexed' = TRUE
  /\ UNCHANGED <<pc, request, record, answer, applied, steps, processes, timeline, faults, met>>

UserReviews ==
  /\ applied' = ~applied
  /\ UNCHANGED <<pc, request, record, answer, indexed, steps, processes, timeline, faults, met>>

(* What the run does next, its tool calls aside.                           *)
Advance(r) ==
  \/ ProviderFails(r)
  \/ ProviderResolved(r)
  \/ RecordStarted(r)
  \/ \E s \in Server, works \in BOOLEAN : SpawnServer(r, s, works) \/ ServerAnswers(r, s, works)
  \/ Connected(r)
  \/ SkillsSelected(r)
  \/ AgentFails(r)
  \/ AgentConcludes(r)
  \/ Validated(r)
  \/ FailureRecorded(r)
  \/ EndRecorded(r)

Next ==
  \/ \E r \in Run : StartRun(r) \/ CancelRun(r) \/ AbortRequest(r) \/ Advance(r)
  \/ \E r \in Run, writes \in BOOLEAN : AgentCalls(r, writes)
  \/ IndexBuilt
  \/ UserReviews

(* Providers, servers and the store answer or time out, and the loops end. *)
Fairness == \A r \in Run : WF_vars(Advance(r))

Spec == Init /\ [][Next]_vars /\ Fairness

-----------------------------------------------------------------------------
TypeOK ==
  /\ pc \in [Run -> {"idle", "resolving", "recording", "connecting", "skills", "agent",
                     "validating", "recordingFailure", "recordingEnd", "ended"}]
  /\ cancelled \in [Run -> BOOLEAN]
  /\ running \subseteq Run
  /\ record \in [Run -> {"none", "running", "failed", "completed"}]
  /\ answer \in [Run -> {"none", "ok", "error"}]
  /\ indexed \in BOOLEAN /\ applied \in BOOLEAN
  /\ steps \in [Run -> 0..MaxSteps]
  /\ untried \in [Run -> SUBSET Server]
  /\ starting \in [Run -> SUBSET Server]
  /\ servers \in [Run -> SUBSET Server]
  /\ current \in Run \cup {NoRun}
  /\ seq \in [Run -> Nat]
  /\ subscribed \subseteq Run
  /\ stored \in [Run -> Nat]
  /\ faults \in 0..MaxFaults
  /\ deserted \subseteq Run /\ heard \subseteq Run /\ met \subseteq Run

(* Every event is persisted as it is emitted (orchestrator.ts): a replay   *)
(* of a run has each of its events, but for as many as the store refused.  *)
EventsArePersisted ==
  \A r \in Run : stored[r] <= seq[r] /\ seq[r] - stored[r] <= faults

(* A run that is cancelled or deserted at any await between its            *)
(* registration and its agent loop calls no tool and is not answered as    *)
(* one that was done.  The earliest await is not among them: a request     *)
(* aborted while its provider is resolved runs to its end                  *)
(* (orchestrator.ts:135-142).                                              *)
EarlyCancelIsHeard ==
  \A r \in heard : answer[r] # "ok" /\ steps[r] = 0

(* While the store works, the row of a run that got as far as its agent    *)
(* says how it was answered.                                               *)
RecordMatchesAnswer ==
  faults = 0 =>
    \A r \in Run :
      /\ answer[r] = "ok" <=> record[r] = "completed" /\ ~UnderWay(r)
      /\ record[r] = "failed" => answer[r] = "error"

(* Third-party processes do not outlive the run that needed them           *)
(* (orchestrator.ts), where no other run was under way beside it,          *)
ServersEndWithLoneRuns ==
  \A r \in Run \ met : starting[r] \cup servers[r] # {} => UnderWay(r)

(* and, as the code says it, for every run.                                *)
ServersEndWithTheirRun ==
  \A r \in Run : starting[r] \cup servers[r] # {} => UnderWay(r)

(* Every request for a run is answered.                                    *)
RunsAreAnswered == \A r \in Run : pc[r] = "resolving" ~> answer[r] # "none"
=============================================================================

---------------------------- MODULE EditorSession ----------------------------
(***************************************************************************)
(* The editor's session with its agent server (apps/vscode-extension:      *)
(* extension.ts Session, serverProcess.ts ServerProcess and RestartPolicy; *)
(* apps/agent-server/src/main.ts for the other end of the pipe).           *)
(*                                                                         *)
(* The session spawns a server, opens the project on it, starts another    *)
(* when it dies and stops it when the user or the editor says so.  What    *)
(* the Changes view shows is a copy of the server's patch registry, asked  *)
(* for again whenever the session hears that it changed.  A call that is   *)
(* not answered in time has failed to the session, and the server may go   *)
(* on with it.                                                             *)
(***************************************************************************)
EXTENDS Naturals, Sequences

CONSTANTS Servers,       \* the processes that may be spawned (a bound)
          MaxFailures,   \* RestartPolicy.maxFailures
          Patch,         \* the patches the server may hold
          MaxWire        \* bound on what is under way between the two

SessionAssumption ==
  /\ 0 \notin Servers
  /\ MaxFailures \in Nat
  /\ MaxWire \in Nat \ {0}

VARIABLES
  process,    \* what has become of each process
  server,     \* this.server: the process the session supervises, 0 for none
  client,     \* this.client: the process it talks to, 0 once disposed
  project,    \* this.projectId: the process the project is open on, 0 if none
  startup,    \* what the call of start() that spawned each process waits for
  failures,   \* RestartPolicy.failures
  disposed,   \* the session was disposed of
  early,      \* deaths in a row before the project was open (for a property)
  registry,   \* the patches the session's server holds, by status
  view,       \* this.patches, and the server it was read from
  running,    \* the run the user started: "no", "yes", or "answered"
  command,    \* the decision of the user the server is working on
  asks,       \* list requests the server has not answered
  wire,       \* what the server has sent and the editor has not handled
  deserted,   \* what the server still works on after the session gave it up: the run,
              \* decisions
  unheard     \* history: the patches that changed since the server last gave a list
              \* without a word to the session, or whose list was lost

lifecycle == <<process, server, client, project, startup, failures, disposed, early>>
reviewing == <<registry, view, running, command, asks, wire, deserted, unheard>>
vars == <<lifecycle, reviewing>>

Empty == [p \in Patch |-> "absent"]
Idle == "idle"
Unborn == {s \in Servers : process[s] = "unborn"}
Next1 == CHOOSE s \in Unborn : TRUE
CanSpawn == Unborn # {}

Init ==
  /\ process = [s \in Servers |-> "unborn"]
  /\ startup = [s \in Servers |-> "none"]
  /\ server = 0 /\ client = 0 /\ project = 0
  /\ failures = 0 /\ early = 0 /\ disposed = FALSE
  /\ registry = Empty
  /\ view = [of |-> 0, patches |-> Empty]
  /\ running = "no" /\ command = Idle /\ asks = 0 /\ wire = << >>
  /\ deserted = {} /\ unheard = {}

-----------------------------------------------------------------------------
(* Starting a server. *)

\* What the session hears of a disposed client: nothing.  Its calls have failed, and
\* the patches its server held in memory are gone.
Unplug ==
  /\ registry' = Empty /\ running' = "no" /\ command' = Idle /\ asks' = 0 /\ wire' = << >>
  /\ deserted' = {} /\ unheard' = {}

\* start(): spawn, connect and shake hands, after what `left` leaves of the
\* processes.
Spawned(left) ==
  /\ CanSpawn
  /\ process' = [left EXCEPT ![Next1] = "alive"]
  /\ startup' = [s \in Servers |-> IF s = Next1 THEN "handshake"
                                   ELSE IF s = client THEN "over" ELSE startup[s]]
  /\ server' = Next1
  /\ client' = Next1

Activate ==
  /\ server = 0 /\ ~disposed
  /\ Spawned(process)
  /\ UNCHANGED <<project, failures, disposed, early, reviewing>>

\* The answer to `initialize`: on to openProject, or fail() and stay where we are.
Handshake(s) ==
  /\ s = client /\ process[s] = "alive" /\ startup[s] = "handshake"
  /\ \E next \in {"opening", "over"} : startup' = [startup EXCEPT ![s] = next]
  /\ UNCHANGED <<process, server, client, project, failures, disposed, early, reviewing>>

\* The answer to `openProject`: the session is connected and forgets its failures.
Opened(s) ==
  /\ s = client /\ process[s] = "alive" /\ startup[s] = "opening"
  /\ startup' = [startup EXCEPT ![s] = "over"]
  /\ \/ project' = s /\ failures' = 0 /\ early' = 0
     \/ UNCHANGED <<project, failures, early>>
  /\ UNCHANGED <<process, server, client, disposed, reviewing>>

-----------------------------------------------------------------------------
(* Losing one. *)

\* Seeded bug: every exit counts as the first.
CountedAnew(healthy) == IF healthy THEN 0 ELSE 1

\* RestartPolicy.shouldRestart after an exit, and the failures it leaves.
Counted(healthy) == IF healthy THEN 0 ELSE failures + 1
Allowed(healthy) == healthy \/ Counted(healthy) <= MaxFailures

\* A server the session has not let go of exits: onServerExit.  Whether it had
\* been up for healthyUptimeMs is the clock's choice.
Dies(s) ==
  /\ s = server /\ process[s] = "alive" /\ ~disposed
  /\ \E healthy \in BOOLEAN :
       LET gone == [process EXCEPT ![s] = "gone"] IN
       /\ failures' = Counted(healthy)
       /\ early' = IF healthy THEN 0 ELSE early + 1
       /\ project' = 0
       /\ \/ Allowed(healthy) /\ Spawned(gone)
          \/ /\ ~Allowed(healthy)
             /\ process' = gone
             /\ startup' = [startup EXCEPT ![s] = "over"]
             /\ client' = 0
             /\ UNCHANGED server
  /\ Unplug
  /\ UNCHANGED <<disposed, view>>

\* Seeded bug: the old server is forgotten and not stopped.
StoppedLater == process

\* ServerProcess.stop(): SIGTERM, and SIGKILL when the grace has passed.
Stopped == IF server # 0 /\ process[server] = "alive"
             THEN [process EXCEPT ![server] = "asked"] ELSE process

\* The user restarts the server, whatever it was doing.
Restart ==
  /\ server # 0 /\ ~disposed
  /\ Spawned(Stopped)
  /\ project' = 0 /\ failures' = 0 /\ early' = 0
  /\ Unplug
  /\ UNCHANGED <<disposed, view>>

Dispose ==
  /\ ~disposed
  /\ disposed' = TRUE
  /\ process' = Stopped
  /\ client' = 0
  /\ startup' = [s \in Servers |-> IF s = client THEN "over" ELSE startup[s]]
  /\ Unplug
  /\ UNCHANGED <<server, project, failures, early, view>>

\* A process told to stop ends, of itself or by the second signal; its exit is
\* not reported, since the session was stopping it.
Ends(s) ==
  /\ process[s] = "asked"
  /\ process' = [process EXCEPT ![s] = "gone"]
  /\ UNCHANGED <<server, client, project, startup, failures, disposed, early, reviewing>>

-----------------------------------------------------------------------------
(* The Changes view. *)

\* requireProject().
Ready == client # 0 /\ project # 0 /\ process[client] = "alive"

Message(kind, patches) == [kind |-> kind, of |-> client, patches |-> patches]
Told(message) == Len(wire) < MaxWire /\ wire' = Append(wire, message)

\* Applying, reverting and discarding, as the registry allows them.
Decision == [apply   |-> [from |-> {"proposed", "reverted", "discarded"}, to |-> "applied"],
             revert  |-> [from |-> {"applied"}, to |-> "reverted"],
             discard |-> [from |-> {"proposed"}, to |-> "discarded"]]

\* A patch changes; whether the session is told of it is the caller's business.
Becomes(p, status) == registry' = [registry EXCEPT ![p] = status]
InSilence(p) == unheard' = unheard \cup {p}

\* A bound: the user begins nothing while the session waits for a list it asked for.
Quiet == asks = 0

\* startRun.
StartRun ==
  /\ Ready /\ running = "no" /\ Quiet
  /\ running' = "yes"
  /\ UNCHANGED <<lifecycle, registry, view, command, asks, wire, deserted, unheard>>

\* applyChange, revertChange, discardChange: of a patch that is on screen.
Decide(c) ==
  /\ Ready /\ command = Idle /\ Quiet
  /\ \E p \in Patch : view.patches[p] # "absent"
  /\ command' = c
  /\ UNCHANGED <<lifecycle, registry, view, running, asks, wire, deserted, unheard>>

\* The timer of a call fires before its answer: the session reports it, asks for nothing
\* and is ready for the next, whatever the server does with the first.  (An answer that is
\* under way when the timer fires is a "failed" or "refused" below.)  One at a time is
\* given up: a bound.
GiveUp ==
  /\ Ready /\ deserted = {}
  /\ \/ running = "yes" /\ running' = "no" /\ deserted' = deserted \cup {"run"} /\ UNCHANGED command
     \/ /\ command \in DOMAIN Decision /\ command' = Idle
        /\ deserted' = deserted \cup {command} /\ UNCHANGED running
  /\ UNCHANGED <<lifecycle, registry, view, asks, wire, unheard>>

\* The agent stages a patch, or applies one, during a run.  A new patch is announced
\* when the run's turn is over and its position says it is new; of one that is applied
\* no event is sent, and the session asks again when the run ends well.
AgentAtWork == Ready /\ (running = "yes" \/ "run" \in deserted)

AgentStages(p, announced) ==
  /\ AgentAtWork /\ registry[p] = "absent"
  /\ Becomes(p, "proposed")
  /\ IF announced THEN Told(Message("event", Empty)) /\ UNCHANGED unheard
     ELSE InSilence(p) /\ UNCHANGED wire
  /\ UNCHANGED <<lifecycle, view, running, command, asks, deserted>>

AgentApplies(p) ==
  /\ AgentAtWork /\ registry[p] \in Decision.apply.from
  /\ Becomes(p, "applied") /\ InSilence(p)
  /\ UNCHANGED <<lifecycle, view, running, command, asks, wire, deserted>>

RunAnswered ==
  /\ Ready /\ running = "yes"
  /\ running' = "answered"
  /\ \E kind \in {"ran", "failed"} : Told(Message(kind, Empty))
  /\ UNCHANGED <<lifecycle, registry, view, command, asks, deserted, unheard>>

\* The server carries out, refuses or has nothing to do for a decision of the user;
\* the answer to one that was carried out may be lost.
Decided(c, p) ==
  /\ Ready /\ command = c /\ view.patches[p] # "absent"
  /\ command' = "answered"
  /\ \/ /\ registry[p] \in Decision[c].from
        /\ Becomes(p, Decision[c].to)
        /\ \/ Told(Message("decided", Empty)) /\ UNCHANGED unheard
           \/ Told(Message("refused", Empty)) /\ InSilence(p)
     \/ /\ UNCHANGED <<registry, unheard>>
        /\ \E kind \in {"decided", "refused"} : Told(Message(kind, Empty))
  /\ UNCHANGED <<lifecycle, view, running, asks, deserted>>

\* What was given up ends, a decision after it was carried out or not.
DesertedEnds(work) ==
  /\ Ready /\ work \in deserted
  /\ deserted' = deserted \ {work}
  /\ \/ \E p \in Patch :
          /\ work \in DOMAIN Decision /\ registry[p] \in Decision[work].from
          /\ Becomes(p, Decision[work].to) /\ InSilence(p)
     \/ UNCHANGED <<registry, unheard>>
  /\ UNCHANGED <<lifecycle, view, running, command, asks, wire>>

\* listPatches at the server: what it holds at that moment.
Lists ==
  /\ Ready /\ asks > 0
  /\ asks' = asks - 1
  /\ Told(Message("list", registry))
  /\ unheard' = {}
  /\ UNCHANGED <<lifecycle, registry, view, running, command, deserted>>

\* A list that fails, or does not come in time: refreshPatches does not ask again.
ListLost ==
  /\ Ready /\ asks > 0
  /\ asks' = asks - 1
  /\ unheard' = Patch
  /\ UNCHANGED <<lifecycle, registry, view, running, command, wire, deserted>>

\* Seeded bug: only its own commands make the session ask again.
AsksAgainAfterAnswers(kind) == kind \in {"ran", "decided"}

\* After which messages the session asks for the list again: onEvent, the end of
\* startRun, and the decisions that were carried out.
AsksAgain(kind) == kind \in {"event", "ran", "decided"}

\* A message of the server is handled.  What failed is only reported.
Handle ==
  /\ wire # << >>
  /\ wire' = Tail(wire)
  /\ LET message == Head(wire) IN
       /\ view' = IF message.kind = "list"
                    THEN [of |-> message.of, patches |-> message.patches] ELSE view
       /\ asks' = IF AsksAgain(message.kind) THEN asks + 1 ELSE asks
       /\ running' = IF message.kind \in {"ran", "failed"} THEN "no" ELSE running
       /\ command' = IF message.kind \in {"decided", "refused"} THEN Idle ELSE command
  /\ UNCHANGED <<lifecycle, registry, deserted, unheard>>

Next ==
  \/ Activate \/ Restart \/ Dispose
  \/ \E s \in Servers : Handshake(s) \/ Opened(s) \/ Dies(s) \/ Ends(s)
  \/ \E c \in DOMAIN Decision : Decide(c)
  \/ \E p \in Patch : \/ AgentApplies(p)
                      \/ \E announced \in BOOLEAN : AgentStages(p, announced)
                      \/ \E c \in DOMAIN Decision : Decided(c, p)
  \/ \E work \in {"run"} \cup DOMAIN Decision : DesertedEnds(work)
  \/ StartRun \/ GiveUp \/ RunAnswered \/ Lists \/ ListLost \/ Handle

\* The operating system ends what it was told to end.
Fairness == \A s \in Servers : WF_vars(Ends(s))

Spec == Init /\ [][Next]_vars /\ Fairness

-----------------------------------------------------------------------------
(* Properties. *)

\* However exits, restarts and disposal fall, at most one process is running that
\* nobody asked to stop, and it is the one the session supervises: no server is
\* left behind holding an index (serverProcess.ts: "The child does not outlive the
\* editor").
OneServer ==
  \A s \in Servers : process[s] = "alive" => s = server /\ ~disposed

\* The project id the session sends with every call was given by the server that
\* call goes to, whatever was restarted while it was being opened (requireProject).
ProjectIsServed == project # 0 /\ client # 0 => project = client

\* A server that dies young before the project is open on it is started again at most MaxFailures times in a row (RestartPolicy).
SpinStops == early <= MaxFailures + 1

\* When nothing is under way between the session and its server, what the Changes
\* view shows of that server's patches is what the server holds: no patch is shown as
\* proposed that was applied or discarded, or as applied that was reverted, whoever did
\* it (refreshPatches, onEvent), in whatever order answers, events and lists come.  Only
\* what nobody told the session of is excepted, until the next list: what a run staged
\* or applied that failed or was given up, a decision given up, and a list lost.
ViewIsCurrent ==
  Ready /\ running = "no" /\ command = Idle /\ asks = 0 /\ wire = << >> /\ view.of = client
    => \A p \in Patch \ unheard : view.patches[p] = registry[p]

\* After the session is disposed of, every process it ever started ends.
ServersEnd == disposed ~> \A s \in Servers : process[s] \in {"unborn", "gone"}

=============================================================================

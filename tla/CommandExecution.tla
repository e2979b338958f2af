-------------------------- MODULE CommandExecution --------------------------
(***************************************************************************)
(* One command run for the agent: CommandPolicy.check of                   *)
(* packages/security-engine/src/commands.ts, then the process, its timer,  *)
(* the run's signal and the two-step termination of CommandExecutor        *)
(* (packages/exec-engine/src/executor.ts) on a POSIX system.               *)
(*                                                                         *)
(* A command is a tree of processes: the child leads a group of its own,   *)
(* which a descendant may leave; each may ignore SIGTERM and hold the      *)
(* child's output open.  What is written to the output is left out.        *)
(***************************************************************************)
EXTENDS Naturals, Sequences

CONSTANTS
  Specs,      \* the commands: records of program, spelling, control, destructive, arguments
  Rules,      \* the allowlist: a function of program names
  Descendant  \* processes the child may start

Child == "child"
Process == {Child} \cup Descendant

VARIABLES
  spec,
  habits,     \* of each process: leaves the group, holds the output, ignores SIGTERM
  state,      \* "new", "running", "settled"
  alive,      \* processes of the command
  forked,     \* descendants that were started
  signal,     \* the run's signal is aborted
  timedOut, aborted,
  escalation, \* a SIGKILL is due
  result,     \* "none", "refused", "failed", "ok", "timeout" or "aborted"
  serverUp    \* the server, whose timers these are, is alive

tree == <<alive, forked>>
flags == <<timedOut, aborted>>
vars == <<spec, habits, state, tree, signal, flags, escalation, result, serverUp>>

Init ==
  /\ spec \in Specs
  /\ habits \in [Process -> [leaves : BOOLEAN, holds : BOOLEAN, stubborn : BOOLEAN]]
  /\ ~habits[Child].leaves /\ habits[Child].holds
  /\ state = "new"
  /\ alive = {} /\ forked = {}
  /\ signal \in BOOLEAN
  /\ timedOut = FALSE /\ aborted = FALSE
  /\ escalation = FALSE
  /\ result = "none"
  /\ serverUp = TRUE

-----------------------------------------------------------------------------
(* firstSubcommand(): the first argument that is no option; "none".        *)
Subcommand(args) ==
  IF \E i \in DOMAIN args : ~args[i].option
  THEN args[CHOOSE i \in DOMAIN args : ~args[i].option /\ \A j \in 1..i - 1 : args[j].option].name
  ELSE "none"

(* check(): a name and never a path, no deny rule, on the allowlist, and   *)
(* with a subcommand the rule lets through.  A rule's allowed subcommands  *)
(* are {} when it has no list of them.                                     *)
Permitted(c) ==
  /\ c.spelling \notin {"empty", "path"}
  /\ ~c.control
  /\ ~c.destructive
  /\ c.program \in DOMAIN Rules
  /\ LET rule == Rules[c.program]
         sub == Subcommand(c.args)
     IN /\ sub \notin rule.denied
        /\ rule.allowed # {} => sub \in rule.allowed

Settle(how) == state' = "settled" /\ result' = how

(* The policy, the directory or the search for the program refuses.        *)
Refuse ==
  /\ state = "new" /\ serverUp
  /\ ~Permitted(spec) \/ ~spec.resolves
  /\ Settle("refused")
  /\ UNCHANGED <<spec, habits, tree, signal, flags, escalation, serverUp>>

(* The child leads a group of its own; the timer and the listener are set. *)
Spawn ==
  /\ state = "new" /\ serverUp
  /\ Permitted(spec) /\ spec.resolves
  /\ state' = "running"
  /\ alive' = {Child}
  /\ UNCHANGED <<spec, habits, forked, signal, flags, escalation, result, serverUp>>

(* spawn() throws, or the child reports an error instead of starting.      *)
SpawnFails ==
  /\ state = "new" /\ serverUp
  /\ Permitted(spec) /\ spec.resolves
  /\ Settle("failed")
  /\ UNCHANGED <<spec, habits, tree, signal, flags, escalation, serverUp>>

-----------------------------------------------------------------------------
Fork(p) ==
  /\ Child \in alive
  /\ p \in Descendant \ forked
  /\ alive' = alive \cup {p}
  /\ forked' = forked \cup {p}
  /\ UNCHANGED <<spec, habits, state, signal, flags, escalation, result, serverUp>>

Exit(p) ==
  /\ p \in alive
  /\ alive' = alive \ {p}
  /\ UNCHANGED <<spec, habits, state, forked, signal, flags, escalation, result, serverUp>>

Group == {p \in alive : ~habits[p].leaves}
Stubborn == {p \in alive : habits[p].stubborn}
Writers == {p \in alive : habits[p].holds}

(* Seeded bug: the child is killed, and not the group it leads.            *)
KilledChild == alive \ {Child}

Killed == alive \ Group

(* terminate(): SIGTERM to the group now, SIGKILL in three seconds.        *)
Terminate ==
  /\ alive' = alive \ (Group \ Stubborn)
  /\ escalation' = TRUE

TimerFires ==
  /\ state = "running" /\ serverUp
  /\ ~timedOut
  /\ timedOut' = TRUE
  /\ Terminate
  /\ UNCHANGED <<spec, habits, state, forked, signal, aborted, result, serverUp>>

(* The signal is listened to while the command runs; one that was aborted  *)
(* before is not noticed.                                                  *)
Abort ==
  /\ ~signal /\ serverUp
  /\ signal' = TRUE
  /\ IF state = "running" THEN aborted' = TRUE /\ Terminate
     ELSE UNCHANGED <<aborted, alive, escalation>>
  /\ UNCHANGED <<spec, habits, state, forked, timedOut, result, serverUp>>

(* The escalation goes off although the command may have settled.          *)
Escalate ==
  /\ escalation /\ serverUp
  /\ escalation' = FALSE
  /\ alive' = Killed
  /\ UNCHANGED <<spec, habits, state, forked, signal, flags, result, serverUp>>

(* Seeded bug: the child's exit is taken for the end of its output.        *)
ClosedAtExit == Child \notin alive

(* 'close': the child has exited and nobody holds its output open.         *)
Closed == Child \notin alive /\ Writers = {}

Close ==
  /\ state = "running" /\ serverUp
  /\ Closed
  /\ Settle(IF timedOut THEN "timeout" ELSE IF aborted THEN "aborted" ELSE "ok")
  /\ UNCHANGED <<spec, habits, tree, signal, flags, escalation, serverUp>>

(* The server exits: its timers do not keep it, and die with it.           *)
ServerExits ==
  /\ serverUp
  /\ serverUp' = FALSE
  /\ UNCHANGED <<spec, habits, state, tree, signal, flags, escalation, result>>

Next ==
  \/ Refuse \/ Spawn \/ SpawnFails
  \/ \E p \in Process : Fork(p) \/ Exit(p)
  \/ TimerFires \/ Abort \/ Escalate \/ Close
  \/ ServerExits

Spec == Init /\ [][Next]_vars /\ WF_vars(TimerFires) /\ WF_vars(Escalate) /\ WF_vars(Close)

-----------------------------------------------------------------------------
(* What is reported is what happened: a command that was stopped never     *)
(* counts as finished, none is called stopped without a cause, and one     *)
(* that was run is reported when nobody is left who could write to its     *)
(* output.                                                                 *)
CommandOutcome ==
  /\ result = "ok" => ~timedOut /\ ~aborted
  /\ result = "timeout" => timedOut
  /\ result = "aborted" => aborted /\ ~timedOut
  /\ result \in {"ok", "timeout", "aborted"} => Writers = {}

(* A command that was stopped leaves no process of its group behind, even  *)
(* one that ignores SIGTERM and gave up the output, while the server is      *)
(* there to see to it;                                                     *)
StoppedIsGone == (timedOut \/ aborted) ~> (Group = {} \/ ~serverUp)

(* and every command is answered some time, unless a process that left the *)
(* group keeps its output open.                                            *)
CommandsSettle ==
  state = "running" ~> (state = "settled" \/ ~serverUp \/ Writers \ Group # {})
=============================================================================

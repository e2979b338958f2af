------------------------------ MODULE AgentRun ------------------------------
(***************************************************************************)
(* One agent run: the loop of packages/agent-core runtime.ts, the calls it *)
(* makes through packages/tool-registry dispatcher.ts, and the approval    *)
(* gate of packages/security-engine approvals.ts between the two.          *)
(*                                                                         *)
(* The model proposes calls, the user answers prompts and may cancel, the  *)
(* clock may run out on a tool.  The loop runs on one thread: somebody     *)
(* else acts only while it waits for the provider, for an answer or for a  *)
(* handler.  What a turn says and what a tool returns are left out; the    *)
(* calls of a turn are chosen when they are reached.                       *)
(***************************************************************************)
EXTENDS RiskPolicy, FiniteSets

(* The registry keeps one external tool of each qualified name.            *)
CONSTANTS
  Contexts,               \* the policy contexts a project may be configured with
  McpTools,               \* what the connected MCP servers declare: a set of Descriptors
  Subjects,               \* what describeCall() can say of a call of a built-in tool
  MaxIterations,          \* Limits.maxAgentIterations
  MaxConsecutiveFailures, \* maxConsecutiveFailures
  MaxCalls                \* bound: calls in one turn of the provider

ASSUME RunAssumption ==
  /\ \A c \in Contexts : c.mode \in Mode /\ c.allowedEnvironments \subseteq Environment
  /\ McpTools \subseteq Descriptor
  /\ \A d, e \in McpTools : d.name = e.name => d = e
  /\ Subjects # {}
  /\ MaxIterations \in Nat \ {0} /\ MaxConsecutiveFailures \in Nat \ {0} /\ MaxCalls \in Nat \ {0}

VARIABLES
  context,    \* the policy context of this run
  phase,      \* where the loop is
  iteration,  \* iterations
  left,       \* calls of the turn not reached yet
  call,       \* the call being dispatched
  succeeded,  \* iterationHadSuccess
  failures,   \* consecutiveFailures
  aborted,    \* the run's signal
  timedOut,   \* the running tool exceeded its budget
  remembered, \* the standing grants of the gate
  outcome,    \* stoppedBecause, or "failed"
  yes,        \* history: what the user said yes to
  confirmed,  \* history: the user said yes to this very call
  lastOk      \* history: the last iteration with a successful call

turn == <<iteration, left, succeeded, failures>>
gate == <<remembered, yes>>
vars == <<context, phase, turn, call, aborted, timedOut, gate, outcome, confirmed, lastOk>>

-----------------------------------------------------------------------------
(* The tools of the run: buildToolset(), and what the servers offer.       *)
Tool(name, kind, risk, confirm, subjects) ==
  [name : {name}, kind : {kind}, risk : {risk}, requiresApproval : {confirm}, subject : subjects,
   method : {"GET"}, environment : {"local"}]

SelfApplyModes == {"auto", "askOnDestructive"}

BuiltIn ==
  Tool("read", "file_read", "READ_ONLY", FALSE, Subjects)
  \cup Tool("validate", "command", "LOW_RISK_WRITE", FALSE, Subjects)
  \cup (IF context.mode \in SelfApplyModes
        THEN Tool("apply_patch", "patch_apply", "HIGH_RISK_WRITE", FALSE, Subjects) ELSE {})

External ==
  UNION {LET policy == ClassifyMcpTool(d)
         IN Tool(d.name, "mcp_tool", policy.risk, policy.alwaysConfirm, {d.name})
         : d \in {d \in McpTools : Offered(d)}}

(* Every call that names a tool with arguments its schema accepts.         *)
Calls == BuiltIn \cup External
NoCall == [kind |-> "none"]

(* Seeded bug: a grant covers every subject.                               *)
RememberKeyOfKind(action) == <<action.kind, action.environment>>
RememberKey(action) == <<action.kind, action.subject, action.environment>>

Init ==
  /\ context \in Contexts
  /\ phase = "top"
  /\ iteration = 1 /\ left = 0 /\ succeeded = FALSE /\ failures = 0
  /\ call = NoCall
  /\ aborted \in BOOLEAN /\ timedOut = FALSE
  /\ remembered = {} /\ yes = {}
  /\ outcome = "none"
  /\ confirmed = FALSE /\ lastOk = 0

-----------------------------------------------------------------------------
(* The loop: runtime.ts.                                                   *)
Finish(reason) ==
  /\ phase' = "done"
  /\ outcome' = reason
  /\ UNCHANGED <<context, turn, call, aborted, timedOut, gate, confirmed, lastOk>>

StopAborted == phase = "top" /\ iteration <= MaxIterations /\ aborted /\ Finish("aborted")

StopExhausted == phase = "top" /\ iteration > MaxIterations /\ Finish("max_iterations")

AskProvider ==
  /\ phase = "top" /\ iteration <= MaxIterations /\ ~aborted
  /\ phase' = "chat"
  /\ UNCHANGED <<context, turn, call, aborted, timedOut, gate, outcome, confirmed, lastOk>>

ProviderFails == phase = "chat" /\ Finish("failed")

ProviderConcludes == phase = "chat" /\ Finish("completed")

ProviderCalls(n) ==
  /\ phase = "chat"
  /\ phase' = "calls"
  /\ left' = n
  /\ succeeded' = FALSE
  /\ UNCHANGED <<context, iteration, failures, call, aborted, timedOut, gate, outcome, confirmed, lastOk>>

(* The turn is over, or cut short by a cancellation.                       *)
TurnOver == phase = "calls" /\ (left = 0 \/ aborted)

(* Seeded bug: a success does not reset the count.                         *)
FailuresAfterTurnForgetful == IF succeeded THEN failures ELSE failures + 1
FailuresAfterTurn == IF succeeded THEN 0 ELSE failures + 1

EndTurn ==
  /\ TurnOver
  /\ failures' = FailuresAfterTurn
  /\ IF failures' >= MaxConsecutiveFailures
     THEN phase' = "done" /\ outcome' = "repeated_failures" /\ UNCHANGED iteration
     ELSE phase' = "top" /\ iteration' = iteration + 1 /\ UNCHANGED outcome
  /\ UNCHANGED <<context, left, succeeded, call, aborted, timedOut, gate, confirmed, lastOk>>

-----------------------------------------------------------------------------
(* One call: dispatcher.ts.                                                *)
NextCall == phase = "calls" /\ left > 0 /\ ~aborted

(* Arguments that are not JSON, a tool nobody registered, arguments the    *)
(* schema refuses: the model is told so.                                   *)
CallRejected ==
  /\ NextCall
  /\ left' = left - 1
  /\ UNCHANGED <<context, phase, iteration, succeeded, failures, call, aborted, timedOut, gate,
                 outcome, confirmed, lastOk>>

CallEnds(ok) ==
  /\ phase' = "calls"
  /\ call' = NoCall
  /\ timedOut' = FALSE
  /\ confirmed' = FALSE
  /\ succeeded' = (succeeded \/ ok)
  /\ lastOk' = IF ok THEN iteration ELSE lastOk
  /\ UNCHANGED <<context, iteration, left, failures, aborted, outcome>>

(* authorize(): policy, then standing grants, then the user.               *)
Decision(action) ==
  LET decision == EvaluatePolicy(action, context)
  IN IF decision = "require_approval" /\ RememberKey(action) \in remembered THEN "allow" ELSE decision

Authorize(action) ==
  /\ NextCall
  /\ action \in Calls
  /\ left' = left - 1
  /\ LET decision == Decision(action)
     IN \/ decision = "deny" /\ UNCHANGED <<phase, call>>
        \/ decision = "allow" /\ phase' = "authorized" /\ call' = action
        \/ decision = "require_approval" /\ phase' = "asking" /\ call' = action
  /\ UNCHANGED <<context, iteration, succeeded, failures, aborted, timedOut, gate, outcome,
                 confirmed, lastOk>>

(* Seeded bug: a standing grant covers destructive actions as well.        *)
StandingAlways(action) == {RememberKey(action)}

(* A standing grant is never extended to destructive actions.              *)
Standing(action) == IF action.risk = "DESTRUCTIVE" THEN {} ELSE {RememberKey(action)}

Granted(remember) ==
  /\ phase = "asking"
  /\ phase' = "authorized"
  /\ confirmed' = TRUE
  /\ yes' = yes \cup {<<call.kind, call.subject>>}
  /\ remembered' = IF remember THEN remembered \cup Standing(call) ELSE remembered
  /\ UNCHANGED <<context, turn, call, aborted, timedOut, outcome, lastOk>>

Declined ==
  /\ phase = "asking"
  /\ CallEnds(FALSE)
  /\ UNCHANGED gate

(* Seeded bug: only a cancelled prompt is given up.                        *)
UnansweredPatient ==
  /\ phase = "asking" /\ aborted
  /\ CallEnds(FALSE)
  /\ UNCHANGED gate

(* Nobody can be asked, or the request for an answer times out.            *)
Unanswered ==
  /\ phase = "asking"
  /\ CallEnds(FALSE)
  /\ UNCHANGED gate

(* Seeded bug: what was authorised is started whatever happened meanwhile. *)
StartHandlerRegardless ==
  /\ phase = "authorized"
  /\ phase' = "executing"
  /\ UNCHANGED <<context, turn, call, aborted, timedOut, gate, outcome, confirmed, lastOk>>

(* execute(): nothing starts once the run is cancelled.                    *)
StartHandler ==
  /\ phase = "authorized" /\ ~aborted
  /\ phase' = "executing"
  /\ UNCHANGED <<context, turn, call, aborted, timedOut, gate, outcome, confirmed, lastOk>>

AbortedBeforeStart ==
  /\ phase = "authorized" /\ aborted
  /\ CallEnds(FALSE)
  /\ UNCHANGED gate

(* The tool's signal is aborted; the handler is awaited all the same.      *)
TimerFires ==
  /\ phase = "executing" /\ ~timedOut
  /\ timedOut' = TRUE
  /\ UNCHANGED <<context, phase, turn, call, aborted, gate, outcome, confirmed, lastOk>>

(* A result that comes after the timer is a timeout, whatever it says.     *)
HandlerEnds ==
  /\ phase = "executing"
  /\ \E ok \in BOOLEAN : CallEnds(ok /\ ~timedOut)
  /\ UNCHANGED gate

-----------------------------------------------------------------------------
(* cancelRun, or the request that started the run being cancelled; that    *)
(* may have happened before the loop was reached.                          *)
Suspended == phase \in {"chat", "asking", "executing"}

Cancel ==
  /\ Suspended
  /\ ~aborted
  /\ aborted' = TRUE
  /\ UNCHANGED <<context, phase, turn, call, timedOut, gate, outcome, confirmed, lastOk>>

LoopStep ==
  \/ StopAborted
  \/ StopExhausted
  \/ AskProvider
  \/ ProviderFails
  \/ ProviderConcludes
  \/ \E n \in 1..MaxCalls : ProviderCalls(n)
  \/ EndTurn
  \/ CallRejected
  \/ \E action \in Calls : Authorize(action)
  \/ Unanswered
  \/ StartHandler
  \/ AbortedBeforeStart
  \/ HandlerEnds

UserStep ==
  \/ \E remember \in BOOLEAN : Granted(remember)
  \/ Declined
  \/ Cancel

Next == LoopStep \/ UserStep \/ TimerFires

(* The provider answers or fails, a request for an answer times out, and   *)
(* handlers end: then the loop goes on.  Nobody has to answer a prompt.    *)
Spec == Init /\ [][Next]_vars /\ WF_vars(LoopStep)

-----------------------------------------------------------------------------
Phase == {"top", "chat", "calls", "asking", "authorized", "executing", "done"}
Outcome == {"none", "completed", "max_iterations", "aborted", "repeated_failures", "failed"}

CountersOK ==
  /\ iteration \in 1..MaxIterations + 1
  /\ left \in 0..MaxCalls
  /\ failures \in 0..MaxConsecutiveFailures
  /\ lastOk \in 0..MaxIterations

FlagsOK == succeeded \in BOOLEAN /\ aborted \in BOOLEAN /\ timedOut \in BOOLEAN /\ confirmed \in BOOLEAN

PhaseOK ==
  /\ phase \in Phase /\ outcome \in Outcome
  /\ phase = "done" <=> outcome # "none"
  /\ call \in IF phase \in {"asking", "authorized", "executing"} THEN Calls ELSE {NoCall}

TypeOK ==
  /\ context \in Contexts
  /\ CountersOK /\ FlagsOK /\ PhaseOK
  /\ \A key \in remembered : \E action \in Calls : key = RememberKey(action)

(* Even in auto mode, and whatever was granted for good before, a          *)
(* destructive call runs only on a yes to that very call (risk.ts,         *)
(* approvals.ts: "each one is confirmed on its own").                      *)
DestructionIsConfirmed ==
  phase = "executing" /\ call.risk = "DESTRUCTIVE" => confirmed

(* In the mode that asks before every side effect, and for the tools that  *)
(* demand it in any mode, nothing runs whose kind and subject the user     *)
(* never said yes to in this run, standing grants included.                *)
MustAsk(action) == action.requiresApproval \/ (context.mode = "askAlways" /\ action.risk # "READ_ONLY")

WritesWereApproved ==
  phase = "executing" /\ MustAsk(call) => <<call.kind, call.subject>> \in yes

(* A cancelled run starts no handler, even when the yes to its prompt      *)
(* arrives after the cancellation (dispatcher.ts: "aborted before start"). *)
NothingStartsCancelled ==
  [][phase' = "executing" /\ phase # "executing" => ~aborted]_vars

(* A run that made progress lately is not given up for repeated failures.  *)
OnlyStuckRunsAreStopped ==
  outcome = "repeated_failures" => iteration - lastOk >= MaxConsecutiveFailures

(* Every run ends, cancelled or not, timed out or not.                     *)
RunEnds == <>(phase = "done")
=============================================================================

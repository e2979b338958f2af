--------------------------- MODULE AgentRunProofs ---------------------------
(***************************************************************************)
(* What the agent run guarantees for every configuration, every set of     *)
(* external tools and every bound.  The invariant adds to the properties   *)
(* that what is authorised but not started yet is covered as well, that    *)
(* standing grants come from a yes and never cover a destructive call, and *)
(* how the count of failures relates to the last success.                  *)
(***************************************************************************)
EXTENDS AgentRun, TLAPS

Covered == {"authorized", "executing"}
InTurn == {"calls", "asking", "authorized", "executing"}

Confirmation ==
  /\ phase \in Covered /\ call.risk = "DESTRUCTIVE" => confirmed
  /\ \A action \in Calls : action.risk = "DESTRUCTIVE" => RememberKey(action) \notin remembered

Approval ==
  /\ phase \in Covered /\ MustAsk(call) => <<call.kind, call.subject>> \in yes
  /\ \A action \in Calls : RememberKey(action) \in remembered => <<action.kind, action.subject>> \in yes

Progress ==
  /\ phase \in {"top", "chat"} => failures <= iteration - 1 - lastOk
  /\ phase \in InTurn => (succeeded => lastOk = iteration) /\ (~succeeded => failures <= iteration - 1 - lastOk)
  /\ outcome = "repeated_failures" => iteration - lastOk >= MaxConsecutiveFailures

(* The part of TypeOK that bounds the counters, phase by phase.            *)
Bounds ==
  /\ phase \notin {"top", "done"} => iteration <= MaxIterations
  /\ phase # "done" => failures < MaxConsecutiveFailures

-----------------------------------------------------------------------------
(* Two calls under one key are calls of one tool, at one risk.             *)
LEMMA KeyFixesRisk ==
  ASSUME NEW a \in Calls, NEW b \in Calls, RememberKey(a) = RememberKey(b)
  PROVE  a.risk = b.risk /\ a.kind = b.kind /\ a.subject = b.subject
<1>1. a.kind = b.kind /\ a.subject = b.subject
  BY DEF RememberKey
<1>2. CASE a.kind = "mcp_tool"
  <2>1. a \in External /\ b \in External
    BY <1>1, <1>2 DEF Calls, BuiltIn, Tool
  <2>2. PICK d \in McpTools : a.risk = ClassifyMcpTool(d).risk /\ a.subject = d.name
    BY <2>1 DEF External, Tool
  <2>3. PICK e \in McpTools : b.risk = ClassifyMcpTool(e).risk /\ b.subject = e.name
    BY <2>1 DEF External, Tool
  <2>4. d = e
    BY <1>1, <2>2, <2>3, RunAssumption
  <2> QED
    BY <1>1, <2>2, <2>3, <2>4
<1>3. CASE a.kind # "mcp_tool"
  <2>1. a \in BuiltIn /\ b \in BuiltIn
    BY <1>1, <1>3 DEF Calls, External, Tool
  <2> QED
    BY <1>1, <2>1 DEF BuiltIn, Tool
<1> QED
  BY <1>2, <1>3

(* No call of a run is an HTTP request.                                    *)
LEMMA CallsAreTools ==
  ASSUME NEW a \in Calls
  PROVE  a.kind # "api_request" /\ a # NoCall
<1> SUFFICES a.kind \notin {"api_request", "none"}
  BY DEF NoCall
<1>1. CASE a \in BuiltIn
  BY <1>1 DEF BuiltIn, Tool
<1>2. CASE a \in External
  BY <1>2 DEF External, Tool
<1> QED
  BY <1>1, <1>2 DEF Calls

(* In no mode is destroying allowed without asking.                        *)
LEMMA DestructionIsNeverAllowed ==
  ASSUME NEW a, NEW c, a.kind # "api_request", a.risk = "DESTRUCTIVE"
  PROVE  EvaluatePolicy(a, c) # "allow"
<1>1. DecideByRisk(a, "DESTRUCTIVE") # "allow" /\ DecideByRisk(a, "HIGH_RISK_WRITE") # "allow"
  BY DEF DecideByRisk, RiskAtLeast, RiskRank
<1>2. DecideByMode(a, c.mode) # "allow"
  BY <1>1 DEF DecideByMode
<1> QED
  BY <1>2 DEF EvaluatePolicy

(* What must be asked about is not allowed by policy alone.                *)
LEMMA AskingIsNeverSkipped ==
  ASSUME NEW a, a.kind # "api_request", MustAsk(a)
  PROVE  EvaluatePolicy(a, context) # "allow"
<1>1. CASE a.requiresApproval
  BY <1>1 DEF EvaluatePolicy, AlwaysConfirmed
<1>2. CASE context.mode = "askAlways" /\ a.risk # "READ_ONLY"
  <2>1. DecideByMode(a, context.mode) = "require_approval"
    BY <1>2 DEF DecideByMode
  <2> QED
    BY <1>2, <2>1 DEF EvaluatePolicy
<1> QED
  BY <1>1, <1>2 DEF MustAsk

(* The call of an external tool, and the tool without what its server      *)
(* claims of it.                                                           *)
CallOf(d) ==
  [name |-> d.name, kind |-> "mcp_tool", risk |-> ClassifyMcpTool(d).risk,
   requiresApproval |-> ClassifyMcpTool(d).alwaysConfirm, subject |-> d.name,
   method |-> "GET", environment |-> "local"]
Unclaimed(d) == [d EXCEPT !.destructiveHint = FALSE, !.readOnlyHint = FALSE]

(* These are the external calls of a run.                                  *)
LEMMA ExternalCalls == External = {CallOf(d) : d \in {e \in McpTools : Offered(e)}}
<1>1. ASSUME NEW n, NEW r, NEW confirm
      PROVE  Tool(n, "mcp_tool", r, confirm, {n})
               = {[name |-> n, kind |-> "mcp_tool", risk |-> r, requiresApproval |-> confirm,
                   subject |-> n, method |-> "GET", environment |-> "local"]}
  <2> DEFINE T == Tool(n, "mcp_tool", r, confirm, {n})
             x == [name |-> n, kind |-> "mcp_tool", risk |-> r, requiresApproval |-> confirm,
                   subject |-> n, method |-> "GET", environment |-> "local"]
  <2>1. x \in T
    BY DEF Tool
  <2>2. ASSUME NEW y \in T
        PROVE  y = x
    BY DEF Tool
  <2> HIDE DEF T, x
  <2>3. T = {x}
    BY <2>1, <2>2
  <2> QED
    BY <2>3 DEF T, x
<1>2. \A d : Tool(d.name, "mcp_tool", ClassifyMcpTool(d).risk, ClassifyMcpTool(d).alwaysConfirm, {d.name})
               = {CallOf(d)}
  BY <1>1 DEF CallOf
<1>3. ASSUME NEW x
      PROVE  x \in External <=> \E d \in {e \in McpTools : Offered(e)} : x = CallOf(d)
  <2>1. x \in External <=> \E d \in {e \in McpTools : Offered(e)} :
          x \in Tool(d.name, "mcp_tool", ClassifyMcpTool(d).risk, ClassifyMcpTool(d).alwaysConfirm,
                     {d.name})
    BY Zenon DEF External
  <2> QED
    BY ONLY <1>2, <2>1, Zenon
<1> QED
  BY ONLY <1>3, Zenon

(* permissions.ts, risk.ts: what a server says of its own tool never makes *)
(* a call run unasked that would not run unasked without it, but in one    *)
(* case: it says the tool only reads, nothing in the tool's name says      *)
(* otherwise, the project has waived approval for the server, and asks for *)
(* grave writes only.                                                      *)
THEOREM ClaimsNeverEase ==
  ASSUME NEW d \in Descriptor, NEW c \in Contexts, EvaluatePolicy(CallOf(d), c) = "allow"
  PROVE  \/ EvaluatePolicy(CallOf(Unclaimed(d)), c) = "allow"
         \/ /\ d.readOnlyHint /\ ~d.mutatingName /\ ~d.destructiveName
            /\ ~d.requireApproval /\ ~d.trusted
            /\ c.mode \in {"reviewEveryPatch", "askOnApiAndDestructive"}
<1> DEFINE u == Unclaimed(d)
           before == CallOf(u)
           after == CallOf(d)
<1>1. /\ u.destructiveHint = FALSE /\ u.readOnlyHint = FALSE
      /\ u.destructiveName = d.destructiveName /\ u.mutatingName = d.mutatingName
      /\ u.trusted = d.trusted /\ u.requireApproval = d.requireApproval
  BY DEF Unclaimed, Descriptor
<1>2. /\ after.kind = "mcp_tool" /\ before.kind = "mcp_tool"
      /\ after.environment = before.environment
      /\ after.risk = ClassifyMcpTool(d).risk /\ before.risk = ClassifyMcpTool(u).risk
      /\ after.requiresApproval = ClassifyMcpTool(d).alwaysConfirm
      /\ before.requiresApproval = ClassifyMcpTool(u).alwaysConfirm
  BY DEF CallOf
<1> HIDE DEF u, before, after
<1>3. /\ after.risk # "DESTRUCTIVE" /\ ~after.requiresApproval
      /\ ~Forbidden(after, c)
  <2>1. ~Forbidden(after, c) /\ ~AlwaysConfirmed(after)
    BY DEF EvaluatePolicy, after
  <2>2. after.risk # "DESTRUCTIVE"
    BY <1>2, DestructionIsNeverAllowed DEF after
  <2> QED
    BY <2>1, <2>2 DEF AlwaysConfirmed
<1>4. ~d.destructiveHint /\ ~d.destructiveName
  BY <1>2, <1>3 DEF ClassifyMcpTool, DeclaredRisk
<1>5. CASE after.risk = before.risk /\ after.requiresApproval = before.requiresApproval
  <2>1. Forbidden(before, c) <=> Forbidden(after, c)
    BY <1>2 DEF Forbidden
  <2>2. AlwaysConfirmed(before) <=> AlwaysConfirmed(after)
    BY <1>2, <1>5 DEF AlwaysConfirmed
  <2>3. DecideByMode(before, c.mode) = DecideByMode(after, c.mode)
    BY <1>2, <1>5 DEF DecideByMode, DecideByRisk
  <2> QED
    BY <1>2, <1>5, <2>1, <2>2, <2>3 DEF EvaluatePolicy, after, before, u
<1>6. CASE ~ (after.risk = before.risk /\ after.requiresApproval = before.requiresApproval)
  <2>1. /\ d.readOnlyHint /\ ~d.mutatingName /\ ~d.trusted /\ ~d.requireApproval
        /\ after.risk = "LOW_RISK_WRITE" /\ before.risk = "HIGH_RISK_WRITE"
        /\ ~before.requiresApproval
    BY <1>1, <1>2, <1>3, <1>4, <1>6 DEF ClassifyMcpTool, DeclaredRisk
  <2>2. ~Forbidden(before, c) /\ ~AlwaysConfirmed(before)
    BY <1>2, <1>3, <2>1 DEF Forbidden, AlwaysConfirmed
  <2>3. DecideByMode(after, c.mode) = "allow"
    BY <1>2, <2>1 DEF EvaluatePolicy, after
  <2>4. c.mode \in Mode
    BY RunAssumption
  <2>5. c.mode \notin {"readOnly", "askAlways"}
    BY <2>1, <2>3 DEF DecideByMode
  <2>6. CASE c.mode \in {"askOnDestructive", "auto"}
    <3>1. DecideByMode(before, c.mode) = "allow"
      BY <2>1, <2>6 DEF DecideByMode, DecideByRisk, RiskAtLeast, RiskRank
    <3> QED
      BY <1>2, <2>1, <2>2, <3>1 DEF EvaluatePolicy, before, u
  <2> QED
    BY <1>4, <2>1, <2>4, <2>5, <2>6 DEF Mode
<1> QED
  BY <1>5, <1>6

LEMMA Limits ==
  MaxIterations \in Nat \ {0} /\ MaxConsecutiveFailures \in Nat \ {0} /\ MaxCalls \in Nat \ {0}
BY RunAssumption

(* The project's configuration, and so the tools, are those of the start.  *)
LEMMA ContextIsFixed ==
  ASSUME [Next]_vars
  PROVE  UNCHANGED context /\ Calls' = Calls
<1>1. UNCHANGED context
  BY DEF Next, LoopStep, UserStep, StopAborted, StopExhausted, AskProvider, ProviderFails,
     ProviderConcludes, ProviderCalls, EndTurn, CallRejected, Authorize, Granted, Declined,
     Unanswered, StartHandler, AbortedBeforeStart, HandlerEnds, CallEnds, Finish, TimerFires,
     Cancel, vars
<1> QED
  BY <1>1 DEF Calls, BuiltIn

-----------------------------------------------------------------------------
(* The actions of the loop that neither reach a call nor end one, and what *)
(* every other action does.                                                *)
Plain == StopAborted \/ StopExhausted \/ AskProvider \/ ProviderFails \/ ProviderConcludes
         \/ StartHandler \/ TimerFires \/ Cancel

Ends == Declined \/ Unanswered \/ AbortedBeforeStart \/ HandlerEnds

LEMMA Cases ==
  ASSUME [Next]_vars
  PROVE  \/ Plain
         \/ \E n \in 1..MaxCalls : ProviderCalls(n)
         \/ EndTurn
         \/ CallRejected
         \/ \E action \in Calls : Authorize(action)
         \/ \E remember \in BOOLEAN : Granted(remember)
         \/ Ends
         \/ UNCHANGED vars
BY DEF Next, LoopStep, UserStep, Plain, Ends

-----------------------------------------------------------------------------
(* Types and bounds.                                                       *)
LEMMA InitTypes == Init => TypeOK /\ Bounds
<1> SUFFICES ASSUME Init PROVE TypeOK /\ Bounds
  OBVIOUS
<1>1. CountersOK
  BY Limits DEF Init, CountersOK
<1>2. FlagsOK
  BY DEF Init, FlagsOK
<1>3. PhaseOK
  BY DEF Init, PhaseOK, Phase, Outcome
<1>4. Bounds
  BY Limits DEF Init, Bounds
<1> QED
  BY <1>1, <1>2, <1>3, <1>4 DEF TypeOK, Init

LEMMA CountersStep ==
  ASSUME CountersOK, Bounds, PhaseOK, [Next]_vars
  PROVE  CountersOK' /\ Bounds'
<1> USE Limits DEF CountersOK, Bounds, turn, gate
<1>1. CASE Plain
  BY <1>1 DEF Plain, StopAborted, StopExhausted, ProviderFails, ProviderConcludes, Finish, AskProvider,
     StartHandler, TimerFires, Cancel
<1>2. ASSUME NEW n \in 1..MaxCalls, ProviderCalls(n) PROVE CountersOK' /\ Bounds'
  BY <1>2 DEF ProviderCalls
<1>3. CASE EndTurn
  BY <1>3 DEF EndTurn, TurnOver, FailuresAfterTurn
<1>4. CASE CallRejected
  BY <1>4 DEF CallRejected, NextCall
<1>5. ASSUME NEW action \in Calls, Authorize(action) PROVE CountersOK' /\ Bounds'
  BY <1>5 DEF Authorize, NextCall
<1>6. ASSUME NEW remember \in BOOLEAN, Granted(remember) PROVE CountersOK' /\ Bounds'
  BY <1>6 DEF Granted
<1>7. CASE Ends
  BY <1>7 DEF Ends, Declined, Unanswered, AbortedBeforeStart, HandlerEnds, CallEnds
<1>8. CASE UNCHANGED vars
  BY <1>8 DEF vars
<1> QED
  BY <1>1, <1>2, <1>3, <1>4, <1>5, <1>6, <1>7, <1>8, Cases

LEMMA FlagsStep ==
  ASSUME FlagsOK, [Next]_vars
  PROVE  FlagsOK'
<1> USE DEF FlagsOK, turn, gate
<1>1. CASE Plain
  BY <1>1 DEF Plain, StopAborted, StopExhausted, ProviderFails, ProviderConcludes, Finish, AskProvider,
     StartHandler, TimerFires, Cancel
<1>2. ASSUME NEW n \in 1..MaxCalls, ProviderCalls(n) PROVE FlagsOK'
  BY <1>2 DEF ProviderCalls
<1>3. CASE EndTurn \/ CallRejected
  BY <1>3 DEF EndTurn, CallRejected
<1>4. ASSUME NEW action \in Calls, Authorize(action) PROVE FlagsOK'
  BY <1>4 DEF Authorize
<1>5. ASSUME NEW remember \in BOOLEAN, Granted(remember) PROVE FlagsOK'
  BY <1>5 DEF Granted
<1>6. CASE Ends
  BY <1>6, Zenon DEF Ends, Declined, Unanswered, AbortedBeforeStart, HandlerEnds, CallEnds
<1>7. CASE UNCHANGED vars
  BY <1>7 DEF vars
<1> QED
  BY <1>1, <1>2, <1>3, <1>4, <1>5, <1>6, <1>7, Cases

LEMMA PhaseStep ==
  ASSUME PhaseOK, Calls' = Calls, [Next]_vars
  PROVE  PhaseOK'
<1> USE DEF PhaseOK, Phase, Outcome, turn, gate
<1>1. CASE Plain
  BY <1>1 DEF Plain, StopAborted, StopExhausted, ProviderFails, ProviderConcludes, Finish, AskProvider,
     StartHandler, TimerFires, Cancel, Suspended
<1>2. ASSUME NEW n \in 1..MaxCalls, ProviderCalls(n) PROVE PhaseOK'
  BY <1>2 DEF ProviderCalls
<1>3. CASE EndTurn \/ CallRejected
  BY <1>3 DEF EndTurn, TurnOver, CallRejected, NextCall
<1>4. ASSUME NEW action \in Calls, Authorize(action) PROVE PhaseOK'
  BY <1>4 DEF Authorize, NextCall
<1>5. ASSUME NEW remember \in BOOLEAN, Granted(remember) PROVE PhaseOK'
  BY <1>5 DEF Granted
<1>6. CASE Ends
  BY <1>6 DEF Ends, Declined, Unanswered, AbortedBeforeStart, HandlerEnds, CallEnds
<1>7. CASE UNCHANGED vars
  BY <1>7 DEF vars
<1> QED
  BY <1>1, <1>2, <1>3, <1>4, <1>5, <1>6, <1>7, Cases

(* Every standing grant is the key of some call.                           *)
Keyed == \A key \in remembered : \E action \in Calls : key = RememberKey(action)

LEMMA KeyedStep ==
  ASSUME Keyed, PhaseOK, Calls' = Calls, [Next]_vars
  PROVE  Keyed'
<1> USE DEF Keyed, turn, gate
<1>1. CASE Plain
  BY <1>1 DEF Plain, StopAborted, StopExhausted, ProviderFails, ProviderConcludes, Finish, AskProvider,
     StartHandler, TimerFires, Cancel
<1>2. ASSUME NEW n \in 1..MaxCalls, ProviderCalls(n) PROVE Keyed'
  BY <1>2 DEF ProviderCalls
<1>3. CASE EndTurn \/ CallRejected
  BY <1>3 DEF EndTurn, CallRejected
<1>4. ASSUME NEW action \in Calls, Authorize(action) PROVE Keyed'
  BY <1>4 DEF Authorize
<1>5. ASSUME NEW remember \in BOOLEAN, Granted(remember) PROVE Keyed'
  <2>1. call \in Calls
    BY <1>5 DEF Granted, PhaseOK
  <2> QED
    BY <1>5, <2>1 DEF Granted, Standing
<1>6. CASE Ends
  BY <1>6 DEF Ends, Declined, Unanswered, AbortedBeforeStart, HandlerEnds
<1>7. CASE UNCHANGED vars
  BY <1>7 DEF vars
<1> QED
  BY <1>1, <1>2, <1>3, <1>4, <1>5, <1>6, <1>7, Cases

LEMMA TypeStep ==
  ASSUME TypeOK, Bounds, [Next]_vars
  PROVE  TypeOK' /\ Bounds'
<1>1. UNCHANGED context /\ Calls' = Calls
  BY ContextIsFixed
<1>2. CountersOK' /\ Bounds' /\ FlagsOK' /\ PhaseOK' /\ Keyed'
  BY <1>1, CountersStep, FlagsStep, PhaseStep, KeyedStep DEF TypeOK, Keyed
<1> QED
  BY <1>1, <1>2 DEF TypeOK, Keyed

(* At every moment each variable of a run is what the code can make it.    *)
THEOREM TypeCorrect == Spec => []TypeOK
<1>1. Init => TypeOK /\ Bounds
  BY InitTypes
<1>2. TypeOK /\ Bounds /\ [Next]_vars => TypeOK' /\ Bounds'
  BY TypeStep
<1> QED
  BY <1>1, <1>2, PTL DEF Spec

-----------------------------------------------------------------------------
(* Nothing destroys without a yes to that very call: what is authorised    *)
(* was confirmed, and no standing grant can stand in for it.               *)
LEMMA ConfirmationStep ==
  ASSUME TypeOK, Confirmation, [Next]_vars
  PROVE  Confirmation'
<1> USE DEF Confirmation, Covered, turn, gate
<1>c. UNCHANGED context /\ Calls' = Calls
  BY ContextIsFixed
<1>1. CASE Plain
  BY <1>1, <1>c DEF Plain, StopAborted, StopExhausted, ProviderFails, ProviderConcludes, Finish,
     AskProvider, StartHandler, TimerFires, Cancel, RememberKey
<1>2. ASSUME NEW n \in 1..MaxCalls, ProviderCalls(n) PROVE Confirmation'
  BY <1>2, <1>c DEF ProviderCalls, RememberKey
<1>3. CASE EndTurn \/ CallRejected
  BY <1>3, <1>c DEF EndTurn, TurnOver, CallRejected, NextCall, RememberKey
<1>4. ASSUME NEW action \in Calls, Authorize(action) PROVE Confirmation'
  <2>1. remembered' = remembered
    BY <1>4 DEF Authorize
  <2>2. CASE phase' \notin Covered
    BY <2>1, <2>2, <1>c DEF RememberKey
  <2>3. CASE phase' \in Covered
    <3>1. call' = action /\ Decision(action) = "allow"
      BY <1>4, <2>3 DEF Authorize, NextCall
    <3>2. action.risk # "DESTRUCTIVE"
      BY <3>1, DestructionIsNeverAllowed, CallsAreTools DEF Decision
    <3> QED
      BY <2>1, <3>1, <3>2, <1>c DEF RememberKey
  <2> QED
    BY <2>2, <2>3
<1>5. ASSUME NEW remember \in BOOLEAN, Granted(remember) PROVE Confirmation'
  <2>1. call \in Calls /\ call' = call /\ confirmed'
    BY <1>5 DEF Granted, TypeOK, PhaseOK
  <2>2. ASSUME NEW action \in Calls, action.risk = "DESTRUCTIVE"
        PROVE  RememberKey(action) \notin remembered'
    <3>1. CASE RememberKey(action) = RememberKey(call)
      BY <1>5, <2>1, <2>2, <3>1, KeyFixesRisk DEF Granted, Standing
    <3>2. CASE RememberKey(action) # RememberKey(call)
      BY <1>5, <2>2, <3>2 DEF Granted, Standing
    <3> QED
      BY <3>1, <3>2
  <2> QED
    BY <2>1, <2>2, <1>c DEF RememberKey
<1>6. CASE Ends
  BY <1>6, <1>c DEF Ends, Declined, Unanswered, AbortedBeforeStart, HandlerEnds, CallEnds, RememberKey
<1>7. CASE UNCHANGED vars
  BY <1>7, <1>c DEF vars, RememberKey
<1> QED
  BY <1>1, <1>2, <1>3, <1>4, <1>5, <1>6, <1>7, Cases

(* A destructive call runs only on a yes to that very call, in every       *)
(* approval mode and whatever was granted for good before.                 *)
THEOREM DestructionConfirmed == Spec => []DestructionIsConfirmed
<1>1. Init => TypeOK /\ Bounds /\ Confirmation
  BY InitTypes DEF Init, Confirmation, Covered
<1>2. TypeOK /\ Bounds /\ Confirmation /\ [Next]_vars => (TypeOK /\ Bounds /\ Confirmation)'
  BY TypeStep, ConfirmationStep
<1>3. Confirmation => DestructionIsConfirmed
  BY DEF Confirmation, Covered, DestructionIsConfirmed
<1> QED
  BY <1>1, <1>2, <1>3, PTL DEF Spec

-----------------------------------------------------------------------------
(* What must be asked about was said yes to, now or by a standing grant,   *)
(* and every standing grant came from a yes.                               *)
LEMMA ApprovalStep ==
  ASSUME TypeOK, Approval, [Next]_vars
  PROVE  Approval'
<1> USE DEF Approval, Covered, turn, gate
<1>c. UNCHANGED context /\ Calls' = Calls
  BY ContextIsFixed
<1>m. \A action : MustAsk(action)' <=> MustAsk(action)
  BY <1>c DEF MustAsk
<1>1. CASE Plain
  BY <1>1, <1>c, <1>m DEF Plain, StopAborted, StopExhausted, ProviderFails, ProviderConcludes, Finish,
     AskProvider, StartHandler, TimerFires, Cancel, RememberKey, MustAsk
<1>2. ASSUME NEW n \in 1..MaxCalls, ProviderCalls(n) PROVE Approval'
  BY <1>2, <1>c DEF ProviderCalls, RememberKey
<1>3. CASE EndTurn \/ CallRejected
  BY <1>3, <1>c DEF EndTurn, TurnOver, CallRejected, NextCall, RememberKey
<1>4. ASSUME NEW action \in Calls, Authorize(action) PROVE Approval'
  <2>1. UNCHANGED <<remembered, yes>>
    BY <1>4 DEF Authorize
  <2>2. CASE phase' \notin Covered
    BY <2>1, <2>2, <1>c DEF RememberKey
  <2>3. CASE phase' \in Covered
    <3>1. call' = action /\ Decision(action) = "allow"
      BY <1>4, <2>3 DEF Authorize, NextCall
    <3>2. MustAsk(action) => RememberKey(action) \in remembered
      BY <3>1, AskingIsNeverSkipped, CallsAreTools DEF Decision
    <3>3. MustAsk(action) => <<action.kind, action.subject>> \in yes
      BY <3>2
    <3> QED
      BY <2>1, <3>1, <3>3, <1>c DEF RememberKey, MustAsk
  <2> QED
    BY <2>2, <2>3
<1>5. ASSUME NEW remember \in BOOLEAN, Granted(remember) PROVE Approval'
  <2>1. call \in Calls /\ call' = call /\ yes' = yes \cup {<<call.kind, call.subject>>}
    BY <1>5 DEF Granted, TypeOK, PhaseOK
  <2>2. ASSUME NEW action \in Calls, RememberKey(action) \in remembered'
        PROVE  <<action.kind, action.subject>> \in yes'
    <3>1. CASE RememberKey(action) = RememberKey(call)
      BY <2>1, <3>1, KeyFixesRisk
    <3>2. CASE RememberKey(action) # RememberKey(call)
      BY <1>5, <2>1, <2>2, <3>2 DEF Granted, Standing
    <3> QED
      BY <3>1, <3>2
  <2> QED
    BY <2>1, <2>2, <1>c DEF RememberKey
<1>6. CASE Ends
  BY <1>6, <1>c DEF Ends, Declined, Unanswered, AbortedBeforeStart, HandlerEnds, CallEnds, RememberKey
<1>7. CASE UNCHANGED vars
  BY <1>7, <1>c DEF vars, RememberKey, MustAsk
<1> QED
  BY <1>1, <1>2, <1>3, <1>4, <1>5, <1>6, <1>7, Cases

(* Nothing that must be asked about runs on a subject the user never said  *)
(* yes to in this run.                                                     *)
THEOREM WritesApproved == Spec => []WritesWereApproved
<1>1. Init => TypeOK /\ Bounds /\ Approval
  BY InitTypes DEF Init, Approval, Covered
<1>2. TypeOK /\ Bounds /\ Approval /\ [Next]_vars => (TypeOK /\ Bounds /\ Approval)'
  BY TypeStep, ApprovalStep
<1>3. Approval => WritesWereApproved
  BY DEF Approval, Covered, WritesWereApproved
<1> QED
  BY <1>1, <1>2, <1>3, PTL DEF Spec

-----------------------------------------------------------------------------
(* How the count of failures relates to the last success.                  *)
LEMMA ProgressStep ==
  ASSUME TypeOK, Bounds, Progress, [Next]_vars
  PROVE  Progress'
<1> USE Limits DEF Progress, InTurn, turn, gate, TypeOK, CountersOK, PhaseOK, Phase, Outcome
<1>1. CASE StopAborted \/ StopExhausted \/ ProviderFails \/ ProviderConcludes
  BY <1>1 DEF StopAborted, StopExhausted, ProviderFails, ProviderConcludes, Finish
<1>2. CASE AskProvider \/ StartHandler \/ TimerFires \/ Cancel
  BY <1>2 DEF AskProvider, StartHandler, TimerFires, Cancel
<1>3. ASSUME NEW n \in 1..MaxCalls, ProviderCalls(n) PROVE Progress'
  BY <1>3 DEF ProviderCalls
<1>4. CASE EndTurn
  <2>1. phase = "calls" /\ outcome = "none" /\ UNCHANGED lastOk
    BY <1>4 DEF EndTurn, TurnOver
  <2>2. CASE succeeded
    BY <1>4, <2>1, <2>2 DEF EndTurn, FailuresAfterTurn
  <2>3. CASE ~succeeded
    BY <1>4, <2>1, <2>3 DEF EndTurn, FailuresAfterTurn
  <2> QED
    BY <2>2, <2>3
<1>5. CASE CallRejected
  BY <1>5 DEF CallRejected, NextCall
<1>6. ASSUME NEW action \in Calls, Authorize(action) PROVE Progress'
  BY <1>6 DEF Authorize, NextCall
<1>7. ASSUME NEW remember \in BOOLEAN, Granted(remember) PROVE Progress'
  BY <1>7 DEF Granted
<1>8. CASE Ends
  <2>1. PICK ok \in BOOLEAN : CallEnds(ok)
    BY <1>8, Zenon DEF Ends, Declined, Unanswered, AbortedBeforeStart, HandlerEnds
  <2>2. phase \in InTurn /\ outcome = "none"
    BY <1>8 DEF Ends, Declined, Unanswered, AbortedBeforeStart, HandlerEnds
  <2>3. CASE ok
    BY <2>1, <2>2, <2>3 DEF CallEnds
  <2>4. CASE ~ok
    BY <2>1, <2>2, <2>4 DEF CallEnds
  <2> QED
    BY <2>3, <2>4
<1>9. CASE UNCHANGED vars
  BY <1>9 DEF vars
<1> QED
  BY <1>1, <1>2, <1>3, <1>4, <1>5, <1>6, <1>7, <1>8, <1>9, Cases DEF Plain

(* A run is stopped for repeated failures only when that many turns passed *)
(* since a call of it succeeded.                                           *)
THEOREM OnlyStuckStopped == Spec => []OnlyStuckRunsAreStopped
<1>1. Init => TypeOK /\ Bounds /\ Progress
  BY InitTypes DEF Init, Progress, InTurn
<1>2. TypeOK /\ Bounds /\ Progress /\ [Next]_vars => (TypeOK /\ Bounds /\ Progress)'
  BY TypeStep, ProgressStep
<1>3. Progress => OnlyStuckRunsAreStopped
  BY DEF Progress, OnlyStuckRunsAreStopped
<1> QED
  BY <1>1, <1>2, <1>3, PTL DEF Spec

-----------------------------------------------------------------------------
(* No step starts a handler in a cancelled run.                            *)
THEOREM CancelledStartsNothing == Spec => NothingStartsCancelled
<1>1. ASSUME [Next]_vars, phase' = "executing", phase # "executing"
      PROVE  ~aborted
  BY <1>1 DEF Next, LoopStep, UserStep, StopAborted, StopExhausted, AskProvider, ProviderFails,
     ProviderConcludes, ProviderCalls, EndTurn, CallRejected, Authorize, Granted, Declined,
     Unanswered, StartHandler, AbortedBeforeStart, HandlerEnds, CallEnds, Finish, TimerFires,
     Cancel, vars, turn
<1>2. [Next]_vars => [phase' = "executing" /\ phase # "executing" => ~aborted]_vars
  BY <1>1
<1> QED
  BY <1>2, PTL DEF Spec, NothingStartsCancelled
=============================================================================

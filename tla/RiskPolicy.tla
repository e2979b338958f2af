----------------------------- MODULE RiskPolicy -----------------------------
(***************************************************************************)
(* May the agent do this, and must it ask first: packages/security-engine  *)
(* risk.ts, and the verdict packages/mcp-engine permissions.ts reaches on  *)
(* a tool an external server offers.  Pure functions of an action and of   *)
(* the project's configuration; the reasons given to people are left out.  *)
(***************************************************************************)
EXTENDS Integers

Mode == {"readOnly", "askAlways", "askOnApiAndDestructive", "askOnDestructive",
         "reviewEveryPatch", "auto"}

RiskRank == [READ_ONLY |-> 0, LOW_RISK_WRITE |-> 1, HIGH_RISK_WRITE |-> 2, DESTRUCTIVE |-> 3]
Risk == DOMAIN RiskRank
RiskAtLeast(level, threshold) == RiskRank[level] >= RiskRank[threshold]

Environment == {"local", "staging", "production"}
ReadOnlyMethod == {"GET", "HEAD", "OPTIONS"}
MutatingMethod == {"POST", "PUT", "PATCH", "DELETE"}

(* classifyHttpRisk(); "UPDATE" is refused before it gets a risk.          *)
ClassifyHttpRisk(method, environment) ==
  IF method \in ReadOnlyMethod THEN "READ_ONLY"
  ELSE IF method = "DELETE" THEN "DESTRUCTIVE"
  ELSE IF method \notin MutatingMethod \/ environment = "production" THEN "HIGH_RISK_WRITE"
  ELSE "LOW_RISK_WRITE"

-----------------------------------------------------------------------------
(* An action is a record of kind, risk, subject, environment, method (GET  *)
(* where there is none) and requiresApproval; a context one of mode,       *)
(* allowedEnvironments, apiExecutionEnabled and allowedMutationMethods.    *)
Writes == {"patch_apply", "file_write", "file_delete"}

(* Denials are absolute and cannot be resolved by asking.                  *)
Forbidden(action, context) ==
  \/ action.environment \notin context.allowedEnvironments
  \/ /\ action.kind = "api_request"
     /\ \/ ~context.apiExecutionEnabled
        \/ action.method \in MutatingMethod \ context.allowedMutationMethods

AlwaysConfirmed(action) ==
  \/ action.requiresApproval
  \/ /\ action.kind = "api_request"
     /\ action.environment = "production"
     /\ action.risk = "DESTRUCTIVE"

DecideByRisk(action, threshold) ==
  IF RiskAtLeast(action.risk, threshold) THEN "require_approval" ELSE "allow"

DecideByMode(action, mode) ==
  CASE mode = "readOnly" -> IF action.risk = "READ_ONLY" THEN "allow" ELSE "deny"
    [] mode = "askAlways" -> "require_approval"
    [] mode = "reviewEveryPatch" ->
         IF action.kind \in Writes THEN "require_approval"
         ELSE DecideByRisk(action, "HIGH_RISK_WRITE")
    [] mode = "askOnApiAndDestructive" ->
         IF action.kind # "api_request" THEN DecideByRisk(action, "HIGH_RISK_WRITE")
         ELSE IF action.method \in ReadOnlyMethod THEN "allow" ELSE "require_approval"
    [] OTHER -> DecideByRisk(action, "DESTRUCTIVE")

(* evaluatePolicy(): what always asks is decided before the mode is.       *)
EvaluatePolicy(action, context) ==
  IF Forbidden(action, context) THEN "deny"
  ELSE IF AlwaysConfirmed(action) THEN "require_approval"
  ELSE IF action.risk = "READ_ONLY" /\ action.kind # "api_request" THEN "allow"
  ELSE DecideByMode(action, context.mode)

-----------------------------------------------------------------------------
(* What an external tool says of itself, what its name says, and what the  *)
(* project's configuration says of it.                                     *)
Descriptor ==
  [name : STRING, destructiveHint : BOOLEAN, readOnlyHint : BOOLEAN, destructiveName : BOOLEAN,
   mutatingName : BOOLEAN, trusted : BOOLEAN, denied : BOOLEAN, inScope : BOOLEAN,
   requireApproval : BOOLEAN]

(* The hints only ever lower the risk of a tool that is not named like a   *)
(* write, and never below a write.                                         *)
DeclaredRisk(d) ==
  IF d.destructiveHint \/ d.destructiveName THEN "DESTRUCTIVE"
  ELSE IF d.readOnlyHint /\ ~d.mutatingName THEN "LOW_RISK_WRITE"
  ELSE "HIGH_RISK_WRITE"

Offered(d) == ~d.denied /\ d.inScope

(* classifyMcpTool(): trust moves a tool to READ_ONLY unless it destroys.  *)
ClassifyMcpTool(d) ==
  LET risk == DeclaredRisk(d)
  IN IF d.trusted /\ risk # "DESTRUCTIVE"
     THEN [risk |-> "READ_ONLY", alwaysConfirm |-> FALSE]
     ELSE [risk |-> risk, alwaysConfirm |-> d.requireApproval \/ risk = "DESTRUCTIVE"]
=============================================================================

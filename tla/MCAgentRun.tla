----------------------------- MODULE MCAgentRun -----------------------------
(* Every approval mode, with four tools of external servers: one the       *)
(* project trusts, one that claims to read, one that destroys and that the *)
(* project trusts, and one that is not offered.                            *)
EXTENDS AgentRun

Plain == [name |-> "plain", destructiveHint |-> FALSE, readOnlyHint |-> FALSE,
          destructiveName |-> FALSE, mutatingName |-> FALSE, trusted |-> FALSE, denied |-> FALSE,
          inScope |-> TRUE, requireApproval |-> TRUE]

MCMcpTools ==
  {[Plain EXCEPT !.name = "lookup", !.trusted = TRUE],
   [Plain EXCEPT !.name = "hinted", !.readOnlyHint = TRUE],
   [Plain EXCEPT !.name = "purge", !.destructiveName = TRUE, !.trusted = TRUE,
                 !.requireApproval = FALSE],
   [Plain EXCEPT !.name = "hidden", !.denied = TRUE]}

MCContexts ==
  [mode : Mode, allowedEnvironments : {{"local"}}, apiExecutionEnabled : {FALSE},
   allowedMutationMethods : {{}}]
  \cup [mode : {"auto"}, allowedEnvironments : {{"staging"}}, apiExecutionEnabled : {FALSE},
        allowedMutationMethods : {{}}]

MCSubjects == {"s1", "s2"}
=============================================================================

------------------------------ MODULE RepairLoop ------------------------------
(***************************************************************************)
(* Validation and bounded repair: runRepairLoop over                       *)
(* ValidationPipeline.run (packages/validation-engine), as                 *)
(* Orchestrator.validateAndRepair puts them together.  A step ends where   *)
(* the code waits: for a check's command, or for the agent run that        *)
(* performs an attempt.                                                    *)
(*                                                                         *)
(* A finding is the place it blames (check, file, line and code), which is *)
(* all the loop compares; wording, grouping and durations are left out.    *)
(***************************************************************************)
EXTENDS Integers, FiniteSets, Sequences

CONSTANTS
  Configurations, \* the sets of checks a project may have commands for
  Sites,          \* places in the project an error can name
  Nowhere,        \* the place of an error that names none
  MaxAttempts     \* validation.maxRepairAttempts

CheckOrder == <<"typecheck", "lint", "test", "build", "contractTest", "e2e">>
Check == {CheckOrder[i] : i \in DOMAIN CheckOrder}
Site == Sites \cup {Nowhere}

ASSUME ConstantsAssumption ==
  /\ Configurations \subseteq SUBSET Check
  /\ IsFiniteSet(Sites)
  /\ MaxAttempts \in Nat

(* What a command says of the tree: it passes; fails and reports errors,   *)
(* most of them in the project or most of them about the tool itself; or   *)
(* fails with nothing but warnings.                                        *)
Passing == [kind |-> "passes", errors |-> {}]
Verdict ==
  {Passing, [kind |-> "warns", errors |-> {}]}
    \cup [kind : {"errors", "misconfigured"}, errors : (SUBSET Site) \ {{}}]

(* What is read into the output of a command that somebody killed: it is   *)
(* taken for one that failed, with the errors it had printed.  Where there *)
(* are none, its last lines are an error that names no place.              *)
Fragments(verdict) ==
  {[kind |-> "warns", errors |-> {}]}
    \cup [kind : {"errors", "misconfigured"}, errors : ((SUBSET verdict.errors) \cup {{Nowhere}}) \ {{}}]

(* A command that was refused, was not found, or that the executor stopped:*)
(* out of time, or in a cancelled run.                                     *)
CannotRun == [kind |-> "cannotRun", errors |-> {Nowhere}]

(* A report, by its first failure.                                         *)
Report ==
  [check : Check \cup {"none"}, kind : {"passes", "warns", "misconfigured", "errors", "cannotRun", "nothing"},
   errors : SUBSET Site]
ReportOn(c, verdict) == [check |-> c, kind |-> verdict.kind, errors |-> verdict.errors]
AllPassed == ReportOn("none", Passing)
NothingRan == [check |-> "none", kind |-> "nothing", errors |-> {}]

VARIABLES
  configured, \* the checks that have a command
  tree,       \* what each command says of the working tree as it stands
  touched,    \* history: it changed since this validation began
  aborted,    \* the run's signal
  deaf,       \* the running command was started with the signal already set
  stage,      \* what the loop waits for
  at,         \* the running check, as its place in the order; 0: none
  killed,     \* history: the last command that ended was killed by somebody else
  asked,      \* the reports it asked to repair, one per attempt
  report,     \* the last report
  ending      \* the outcome

loopVars == <<configured, tree, touched, aborted, deaf, stage, at, killed, asked, report, ending>>

-----------------------------------------------------------------------------
(* ValidationPipeline.run                                                  *)

(* Seeded bug: the loop over the checks steps twice.                       *)
LaterSkipping(i) == {j \in DOMAIN CheckOrder : j > i + 1 /\ CheckOrder[j] \in configured}

Later(i) == {j \in DOMAIN CheckOrder : j > i /\ CheckOrder[j] \in configured}

First(places) == IF places = {} THEN 0 ELSE CHOOSE i \in places : \A j \in places : i <= j

(* Starts a command.  The executor listens for the signal and does not     *)
(* look whether it is set already.                                         *)
StartCommand(i) == stage' = "check" /\ at' = i /\ deaf' = aborted

Validate == StartCommand(First(Later(0))) /\ touched' = FALSE

(* How the running command can end, by itself or killed: when the tree     *)
(* changes meanwhile, it may have read some files before and some after.   *)
Printed == IF touched THEN Verdict ELSE {tree[CheckOrder[at]]}
Verdicts(kill) ==
  IF kill THEN UNION {Fragments(verdict) : verdict \in Printed}
  ELSE IF aborted /\ ~deaf THEN {CannotRun} ELSE {CannotRun} \cup Printed

-----------------------------------------------------------------------------
(* runRepairLoop                                                           *)

LoopInit ==
  /\ configured \in Configurations
  /\ tree \in [configured -> Verdict]
  /\ touched = FALSE
  /\ aborted \in BOOLEAN
  /\ deaf = aborted
  /\ stage = "check"
  /\ at = First(Later(0))
  /\ killed = FALSE
  /\ asked = <<>>
  /\ report = NothingRan
  /\ ending = "none"

Stop(outcome, r) ==
  /\ stage' = "done" /\ ending' = outcome /\ report' = r
  /\ UNCHANGED <<at, deaf, touched, asked>>

Signature(r) == {<<r.check, s>> : s \in r.errors}

(* Seeded bug: whatever failed with an error is sent to be repaired.       *)
RepairableAny(r) == r.errors # {}

(* diagnose: an edit can fix what a command that ran blames.               *)
Repairable(r) == r.kind = "errors"

(* Seeded bug: only failures of one check are compared.                    *)
RegressedSameCheck(r) ==
  /\ asked # <<>> /\ r.kind # "passes" /\ r.check = report.check
  /\ Cardinality(r.errors) > Cardinality(report.errors)

(* The attempt left more errors than it was given.                         *)
Regressed(r) ==
  /\ asked # <<>> /\ r.kind # "passes"
  /\ Cardinality(r.errors) > Cardinality(report.errors)

NoProgress(r) == asked # <<>> /\ Signature(r) = Signature(asked[Len(asked)])

Spent == Len(asked) >= MaxAttempts

(* What the loop makes of a fresh report.                                  *)
Judge(r) ==
  IF Regressed(r) THEN Stop("regressed", r)
  ELSE IF r.kind = "passes" THEN Stop("passed", r)
  ELSE IF Spent \/ aborted THEN Stop("exhausted", r)
  ELSE IF ~Repairable(r) THEN Stop("notRepairable", r)
  ELSE IF NoProgress(r) THEN Stop("noProgress", r)
  ELSE /\ stage' = "repair" /\ asked' = Append(asked, r) /\ report' = r
       /\ UNCHANGED <<at, deaf, touched, ending>>

(* A command ends, and the pipeline goes on to the next check or reports.  *)
CheckEnds ==
  /\ stage = "check" /\ at # 0
  /\ UNCHANGED <<configured, tree, aborted>>
  /\ killed' \in {FALSE, ~aborted \/ deaf}
  /\ \E verdict \in Verdicts(killed') :
       IF verdict.kind # "passes" THEN Judge(ReportOn(CheckOrder[at], verdict))
       ELSE IF Later(at) = {} THEN Judge(AllPassed)
       ELSE StartCommand(First(Later(at))) /\ UNCHANGED <<touched, asked, report, ending>>

(* No check has a command: that is not a pass.                             *)
NothingToRun ==
  /\ stage = "check" /\ at = 0
  /\ UNCHANGED <<configured, tree, aborted, killed>>
  /\ Judge(NothingRan)

(* Seeded bug: an attempt that could not act is made again.                *)
GiveUpNot == UNCHANGED <<stage, at, deaf, touched, asked, report, ending>>

GiveUp == Stop("actionFailed", report)

(* The agent run of an attempt ends; it may have written, whether or not   *)
(* it then failed.                                                         *)
AttemptEnds ==
  /\ stage = "repair"
  /\ tree' \in [configured -> Verdict]
  /\ \/ Validate /\ UNCHANGED <<asked, report, ending>>
     \/ GiveUp
  /\ UNCHANGED <<configured, aborted, killed>>

-----------------------------------------------------------------------------
(* The user saves a file while checks run.                                 *)
Save ==
  /\ stage = "check"
  /\ tree' \in [configured -> Verdict] /\ touched' = TRUE
  /\ UNCHANGED <<configured, aborted, deaf, stage, at, killed, asked, report, ending>>

(* The run is cancelled.                                                   *)
Cancel ==
  /\ stage # "done" /\ ~aborted
  /\ aborted' = TRUE
  /\ UNCHANGED <<configured, tree, touched, deaf, stage, at, killed, asked, report, ending>>

LoopStep == CheckEnds \/ NothingToRun \/ AttemptEnds
LoopNext == LoopStep \/ Save \/ Cancel

LoopSpec == LoopInit /\ [][LoopNext]_loopVars /\ WF_loopVars(LoopStep)

-----------------------------------------------------------------------------
(* Every variable stays in its range; attempts are bounded by the          *)
(* configured number.                                                      *)
LoopTypeOK ==
  /\ configured \in Configurations
  /\ tree \in [configured -> Verdict]
  /\ {touched, aborted, deaf, killed} \subseteq BOOLEAN
  /\ stage \in {"check", "repair", "done"}
  /\ at \in 0..Len(CheckOrder)
  /\ asked \in Seq(Report) /\ Len(asked) <= MaxAttempts
  /\ report \in Report
  /\ ending \in {"none", "passed", "exhausted", "noProgress", "notRepairable", "regressed", "actionFailed"}

Precedes(c, d) ==
  \E i, j \in DOMAIN CheckOrder :
    i < j /\ CheckOrder[i] = c /\ (CheckOrder[j] = d)

(* What the loop reports in the end is true of the tree it leaves, unless  *)
(* the tree changed under it or its last attempt failed: a pass means that *)
(* there are checks and that every one of them passes, a failure is the    *)
(* first check that fails, with the errors it has now.  Of a command that  *)
(* was killed it reports no errors but those of the tree, and one that     *)
(* names no place.                                                         *)
ReportIsCurrent ==
  stage = "done" /\ ~touched /\ ending # "actionFailed" =>
    /\ ending = "passed" <=> report.kind = "passes"
    /\ report.kind = "passes" => configured # {} /\ \A c \in configured : tree[c] = Passing
    /\ report.check # "none" =>
         /\ report.check \in configured
         /\ \A c \in configured : Precedes(c, report.check) => tree[c] = Passing
         /\ killed => report.errors \subseteq tree[report.check].errors \cup {Nowhere}
         /\ ~killed /\ report.kind # "cannotRun" => ReportOn(report.check, tree[report.check]) = report

(* Attempts never dig deeper: the errors an attempt is given are never     *)
(* more than those any earlier attempt was given, and not the same as the  *)
(* last one's.                                                             *)
AttemptsNeverEscalate ==
  \A j \in DOMAIN asked : \A i \in 1..(j - 1) :
    /\ Cardinality(asked[j].errors) <= Cardinality(asked[i].errors)
    /\ i = j - 1 => Signature(asked[j]) # Signature(asked[i])

(* An attempt is begun only in a run nobody cancelled, and only on errors  *)
(* that, unless somebody edited meanwhile, the tree has: never on a        *)
(* command that timed out, was cancelled or could not start.  One that     *)
(* somebody killed does cost an attempt (executor.ts reports no error, and *)
(* pipeline.ts reads what it printed), on no errors but those of the tree  *)
(* and the one that names no place.                                        *)
RepairsRealFailures ==
  [][asked' # asked =>
       /\ ~aborted
       /\ report'.errors # {}
       /\ \/ touched
          \/ killed' /\ report'.errors \subseteq tree[report'.check].errors \cup {Nowhere}
          \/ tree[report'.check] = [kind |-> "errors", errors |-> report'.errors]]_loopVars

(* Validation and repair end: commands are killed after their time, agent  *)
(* runs end, and the attempts are counted.                                 *)
LoopEnds == <>(stage = "done")
=============================================================================

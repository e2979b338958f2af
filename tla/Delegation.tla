------------------------------ MODULE Delegation ------------------------------
(***************************************************************************)
(* One delegation: Delegator.run (packages/coding-agent/src/delegation.ts) *)
(* over JulesProvider, and the service the provider talks to.  Every await *)
(* of the code ends a step, and the service goes on between them.          *)
(*                                                                         *)
(* Of a session's state only what the loop tells apart is kept: "busy" is  *)
(* pending, queued, planning, running and paused.  A change set is named   *)
(* by the position of its activity in the session, and of an activity only *)
(* what decides whether its change set is taken.  Events, texts and the    *)
(* lengths of the waits are left out.                                      *)
(***************************************************************************)
EXTENDS Integers, Sequences, FiniteSets

CONSTANTS
  MaxPolls,    \* maxPolls, of each wait
  MaxRepairs,  \* maxRepairAttempts
  MaxRetries,  \* how often a request that may be repeated is
  MaxPages,    \* MAX_ACTIVITY_PAGES; a page holds one activity
  MaxLog       \* bound: how many activities a session has

ASSUME BoundsAssumption ==
  /\ {MaxPolls, MaxRepairs, MaxRetries, MaxPages, MaxLog} \subseteq Nat
  /\ MaxPages > 0

SessionState == {"busy", "awaitingApproval", "awaitingInput", "completed", "failed"}
Effect == {"create", "approve", "instruct"}
Status == {"verified", "unvalidated", "repairExhausted", "failed", "awaitingDecision"}

(* What an activity is to a result: without changes; with a change set;    *)
(* with one, but no time of creation that can be read; with one that is    *)
(* left out, because it is above MAX_PATCH_BYTES or the activity has no id.*)
(* Of several change sets of an activity only the first is ever taken.     *)
Activity == {"message", "changes", "undated", "unusable"}
NoChange == 0

VARIABLES
  approver,  \* an approvePlan callback is configured
  validator, \* a validation port is configured
  pc,        \* what the delegation waits for
  tries,     \* retries its current request has used
  overdue,   \* maxDurationMs have passed
  seen,      \* the session's state as it was last read
  polls,     \* polls of the current wait
  pages,     \* pages of activities read
  candidate, \* the change set of them that sorts last
  createdAt, \* and when it was created, as far as the provider knows
  decided,   \* how often it decided to cause each effect
  passed,    \* history: change sets whose last validation passed
  ending,    \* the outcome's status, or "error"
  work,      \* service: the session's state
  log,       \* service: its activities, oldest first
  unread,    \* service: instructions it has not acted on
  served     \* service: how often it carried out each effect

request == <<pc, tries, ending>>
findings == <<pages, candidate, createdAt, passed>>
service == <<work, log, unread, served>>
vars == <<approver, validator, request, overdue, seen, polls, findings, decided, service>>

Init ==
  /\ approver \in BOOLEAN
  /\ validator \in BOOLEAN
  /\ pc = "create"
  /\ tries = 0
  /\ overdue = FALSE
  /\ seen = "busy"
  /\ polls = 0
  /\ pages = 0
  /\ candidate = NoChange
  /\ createdAt = 0
  /\ decided = [e \in Effect |-> IF e = "create" THEN 1 ELSE 0]
  /\ passed = {}
  /\ ending = "none"
  /\ work = "busy"
  /\ log = <<>>
  /\ unread = 0
  /\ served = [e \in Effect |-> 0]

Repairs == decided["instruct"]

-----------------------------------------------------------------------------
(* How a step goes on: with the next wait, or with the end.                *)
Await(next) == pc' = next /\ tries' = 0 /\ UNCHANGED ending
Finish(status) == pc' = "done" /\ ending' = status /\ UNCHANGED tries

(* Seeded bug: every request is repeated.                                  *)
RepeatableAll == {"create", "approve", "instruct", "poll", "result", "page"}

(* The reads.                                                              *)
Repeatable == {"poll", "result", "page"}

(* An attempt that brings no answer: what can pass is tried again while    *)
(* retries are left, anything else is the delegation's error.              *)
Failed == \E transient \in BOOLEAN :
  IF transient /\ pc \in Repeatable /\ tries < MaxRetries
  THEN tries' = tries + 1 /\ UNCHANGED <<pc, ending>>
  ELSE Finish("error")

(* A request that only reads.                                              *)
Get(answer, kept) ==
  /\ UNCHANGED <<approver, validator, overdue, decided, passed, service>>
  /\ answer \/ (Failed /\ UNCHANGED kept)

(* A request with an effect: it may be carried out and its answer lost.    *)
Post(effect, answer, kept) ==
  /\ UNCHANGED <<approver, validator, overdue, seen, findings, decided>>
  /\ \/ effect /\ answer
     \/ effect /\ Failed /\ UNCHANGED kept
     \/ UNCHANGED service /\ Failed /\ UNCHANGED kept

Serve(e) == served' = [served EXCEPT ![e] = @ + 1]

-----------------------------------------------------------------------------
(* createSession: the service accepts the task and starts to work on it.   *)
Create ==
  /\ pc = "create"
  /\ Post(Serve("create") /\ UNCHANGED <<work, log, unread>>,
          Await("look") /\ UNCHANGED polls, polls)

(* The session has stopped: settled is what run makes of its state.        *)
Settled ==
  CASE seen \in {"awaitingApproval", "awaitingInput"} -> Finish("awaitingDecision")
    [] seen = "failed" -> Finish("failed")
    [] seen = "completed" -> Await("result")

SleepUnlessOverdue == IF overdue THEN Finish("error") ELSE Await("poll")

(* One turn of pollUntilSettled, up to its first await.                    *)
Look ==
  /\ pc = "look"
  /\ IF polls >= MaxPolls THEN Finish("error")
     ELSE IF seen = "busy" THEN SleepUnlessOverdue
     ELSE IF seen = "awaitingApproval" /\ approver THEN Await("ask")
     ELSE Settled
  /\ UNCHANGED <<approver, validator, overdue, seen, polls, findings, decided, service>>

(* The approver's answer.                                                  *)
Ask ==
  /\ pc = "ask"
  /\ \/ /\ Await("approve")
        /\ decided' = [decided EXCEPT !["approve"] = @ + 1]
     \/ Settled /\ UNCHANGED decided
  /\ UNCHANGED <<approver, validator, overdue, seen, polls, findings, service>>

(* approvePlan: it names the session, and the service may be slow to show  *)
(* that it goes on.                                                        *)
Approve ==
  /\ pc = "approve"
  /\ Post(/\ Serve("approve")
          /\ work' \in {work, IF work = "awaitingApproval" THEN "busy" ELSE work}
          /\ UNCHANGED <<log, unread>>,
          SleepUnlessOverdue /\ UNCHANGED polls, polls)

(* Seeded bug: the attempt cap is lost.                                    *)
CountPollNot == polls' = polls

CountPoll == polls' = polls + 1

(* sleep, then getSession.                                                 *)
Poll ==
  /\ pc = "poll"
  /\ Get(Await("look") /\ seen' = work /\ CountPoll, <<seen, polls>>)
  /\ UNCHANGED <<pages, candidate, createdAt>>

(* getResult: the session once more, then its activities.                  *)
ReadSession ==
  /\ pc = "result"
  /\ Get(Await("page") /\ pages' = 0 /\ candidate' = NoChange /\ createdAt' = 0,
         <<pages, candidate, createdAt>>)
  /\ UNCHANGED <<seen, polls>>

(* toCodingActivity: an activity whose time cannot be read is dated now.   *)
DateOf(i) == IF log[i] = "undated" THEN 2 * Len(log) + 1 ELSE 2 * i

Carries(i) == i \in DOMAIN log /\ log[i] \in {"changes", "undated"}

(* Seeded bug: the first change set is taken.                              *)
SortsFirst(i) == Carries(i) /\ candidate = NoChange

(* The activities are sorted by time, stably, and the last change set of   *)
(* them is the result's.                                                   *)
SortsLast(i) == Carries(i) /\ DateOf(i) >= createdAt

(* Seeded bug: changes nobody checked are called verified.                 *)
CollectedTrusting(change) ==
  IF change = NoChange THEN Finish("failed")
  ELSE IF validator THEN Await("validate") ELSE Finish("verified")

Collected(change) ==
  IF change = NoChange THEN Finish("failed")
  ELSE IF validator THEN Await("validate") ELSE Finish("unvalidated")

(* A page of getActivities.  Pages beyond the limit are not read.          *)
ReadPage ==
  LET taken == SortsLast(pages + 1)
  IN /\ pc = "page"
     /\ Get(/\ candidate' = IF taken THEN pages + 1 ELSE candidate
            /\ createdAt' = IF taken THEN DateOf(pages + 1) ELSE createdAt
            /\ pages' = pages + 1
            /\ IF pages' < Len(log) /\ pages' < MaxPages THEN Await("page") ELSE Collected(candidate'),
            <<pages, candidate, createdAt>>)
     /\ UNCHANGED <<seen, polls>>

(* Seeded bug: the budget is over one repair early.                        *)
OutOfRepairsEarly == Repairs + 1 >= MaxRepairs

OutOfRepairs == Repairs >= MaxRepairs

Passes ==
  /\ Finish("verified")
  /\ passed' = passed \cup {candidate}
  /\ UNCHANGED <<decided>>

Fails ==
  /\ passed' = passed \ {candidate}
  /\ IF OutOfRepairs
     THEN Finish("repairExhausted") /\ UNCHANGED <<decided>>
     ELSE /\ Await("instruct")
          /\ decided' = [decided EXCEPT !["instruct"] = @ + 1]

(* The validation port answers, or fails.                                  *)
Validate ==
  /\ pc = "validate"
  /\ \/ Passes
     \/ Fails
     \/ Finish("error") /\ UNCHANGED <<decided, passed>>
  /\ UNCHANGED <<approver, validator, overdue, seen, polls, pages, candidate, createdAt, service>>

(* sendMessage, and round again with the session as it was last seen.      *)
Instruct ==
  /\ pc = "instruct"
  /\ Post(Serve("instruct") /\ unread' = unread + 1 /\ UNCHANGED <<work, log>>,
          Await("look") /\ polls' = 0, polls)

-----------------------------------------------------------------------------
(* The wall clock passes the budget.                                       *)
BudgetElapses ==
  /\ ~overdue
  /\ overdue' = TRUE
  /\ UNCHANGED <<approver, validator, request, seen, polls, findings, decided, service>>

delegation == <<approver, validator, request, overdue, seen, polls, findings, decided>>

Started == served["create"] > 0

(* The service works, asks, is answered on its own page, stops or fails.   *)
ServiceMoves ==
  /\ Started
  /\ \/ work = "busy" /\ work' \in SessionState \ {"busy"}
     \/ work \in {"awaitingApproval", "awaitingInput"} /\ work' = "busy"
  /\ UNCHANGED <<log, unread, served>>
  /\ UNCHANGED delegation

ServiceReports ==
  /\ Started
  /\ work = "busy"
  /\ Len(log) < MaxLog
  /\ \E activity \in Activity : log' = Append(log, activity)
  /\ UNCHANGED <<work, unread, served>>
  /\ UNCHANGED delegation

(* An instruction sets a session to work again, even a completed one.      *)
ServiceResumes ==
  /\ unread > 0
  /\ unread' = unread - 1
  /\ work' = IF work = "failed" THEN work ELSE "busy"
  /\ UNCHANGED <<log, served>>
  /\ UNCHANGED delegation

Delegate ==
  Create \/ Look \/ Ask \/ Approve \/ Poll \/ ReadSession \/ ReadPage \/ Validate \/ Instruct

Ended == pc = "done" /\ UNCHANGED vars

Next == Delegate \/ BudgetElapses \/ ServiceMoves \/ ServiceReports \/ ServiceResumes \/ Ended

(* Requests end by their timeout, and the two callbacks are taken to end.  *)
Spec == Init /\ [][Next]_vars /\ WF_vars(Delegate)

-----------------------------------------------------------------------------
TypeOK ==
  /\ approver \in BOOLEAN /\ validator \in BOOLEAN /\ overdue \in BOOLEAN
  /\ pc \in RepeatableAll \cup {"look", "ask", "validate", "done"}
  /\ tries \in 0..MaxRetries
  /\ seen \in SessionState /\ work \in SessionState
  /\ polls \in 0..MaxPolls
  /\ pages \in 0..MaxPages
  /\ candidate \in 0..MaxLog
  /\ createdAt \in 0..2 * MaxLog + 1
  /\ passed \subseteq 1..MaxLog
  /\ ending \in Status \cup {"none", "error"}
  /\ log \in Seq(Activity) /\ Len(log) <= MaxLog
  /\ unread \in 0..MaxRepairs
  /\ decided \in [Effect -> Nat] /\ Repairs <= MaxRepairs
  /\ served \in [Effect -> Nat]

(* provider.ts: creating, approving and instructing are never repeated,    *)
(* because an attempt that seems lost may have arrived.  So the service    *)
(* carries out no more than the delegation decided, whatever is lost.      *)
NothingTwice == \A e \in Effect : served[e] <= decided[e]

(* "Silently calling them verified is the one thing this must never do":   *)
(* a verified outcome holds a change set, and its validation passed.       *)
VerifiedWasChecked == ending = "verified" => candidate \in passed

(* Before any repair, what is validated or handed over is the newest       *)
(* change set of the completed session that the pages hold and the mapping *)
(* keeps; only one whose time is unknown comes before newer ones.          *)
Offered == {i \in DOMAIN log : i <= MaxPages /\ Carries(i)}

FirstResultIsNewest ==
  (pc = "validate" \/ ending = "unvalidated") /\ Repairs = 0 =>
    /\ candidate \in Offered
    /\ \A i \in Offered : i > candidate => log[candidate] = "undated" /\ log[i] = "changes"

(* The repair budget is given up only when it was used: every instruction  *)
(* of it was delivered, and the change set at hand does not pass.          *)
ExhaustedMeansTried ==
  ending = "repairExhausted" =>
    /\ served["instruct"] = MaxRepairs
    /\ candidate # NoChange /\ candidate \notin passed

(* Polls, retries, pages and repairs are all bounded: a delegation ends    *)
(* whatever the service does.                                              *)
DelegationEnds == <>(pc = "done")
=============================================================================

-------------------------- MODULE DelegationProofs --------------------------
(***************************************************************************)
(* What a delegation guarantees for every bound on polls, repairs, retries *)
(* and pages, however the service and the network behave.  The invariant   *)
(* adds to the properties what the loop knows at each of its awaits, and   *)
(* that the service is behind the delegation by at most the request in     *)
(* flight.                                                                 *)
(***************************************************************************)
EXTENDS Delegation, FiniteSetTheorems, TLAPS

Ending == Status \cup {"none", "error"}
Place == RepeatableAll \cup {"look", "ask", "validate", "done"}

(* What the session was last seen to be, at each await.                    *)
Stage ==
  /\ pc = "done" <=> ending # "none"
  /\ pc \in {"ask", "approve"} => seen = "awaitingApproval"
  /\ pc \in {"result", "page", "validate", "instruct"} => seen = "completed"
  /\ pc \in {"ask", "approve", "poll"} => polls < MaxPolls
  /\ pc = "page" => pages < MaxPages
  /\ pc = "validate" => candidate # NoChange

(* The service carried out what was decided, but for the request in flight.*)
InStep ==
  /\ \A e \in Effect : pc = e => served[e] < decided[e]
  /\ pc \notin {"instruct", "done"} => served["instruct"] = decided["instruct"]
  /\ pc = "instruct" => served["instruct"] + 1 = decided["instruct"]
  /\ unread <= served["instruct"]

(* The candidate sorts last of the change sets that the pages read hold.   *)
SortedLast ==
  IF candidate = NoChange
  THEN createdAt = 0 /\ \A i \in DOMAIN log : i <= pages => ~Carries(i)
  ELSE /\ candidate <= pages /\ Carries(candidate)
       /\ createdAt = DateOf(candidate)
       /\ \A i \in DOMAIN log : i <= pages /\ i > candidate /\ Carries(i) => DateOf(i) < createdAt

(* Until it is instructed, a completed session rests, so that the activities*)
(* are the same on every page.                                              *)
Resting == Repairs = 0 /\ seen = "completed" => work = "completed"
Newest == Repairs = 0 /\ pc = "page" => SortedLast

(* What was handed over unvalidated, was so by a session that rests.       *)
HandedOver == ending = "unvalidated" /\ Repairs = 0 => seen = "completed"

IInv ==
  /\ TypeOK /\ Stage /\ InStep /\ Resting /\ Newest /\ HandedOver
  /\ NothingTwice /\ VerifiedWasChecked /\ FirstResultIsNewest /\ ExhaustedMeansTried

-----------------------------------------------------------------------------
(* An attempt without an answer is made again, or ends the delegation.     *)
LEMMA FailedEnds ==
  ASSUME Failed, TypeOK
  PROVE  /\ tries' \in 0..MaxRetries
         /\ \/ pc' = pc /\ ending' = ending /\ pc \in Repeatable
            \/ pc' = "done" /\ ending' = "error"
<1>1. PICK transient \in BOOLEAN :
        IF transient /\ pc \in Repeatable /\ tries < MaxRetries
        THEN tries' = tries + 1 /\ UNCHANGED <<pc, ending>>
        ELSE Finish("error")
  BY DEF Failed
<1> QED
  BY <1>1, BoundsAssumption DEF TypeOK, Finish

-----------------------------------------------------------------------------
(* At first nothing is decided.                                            *)
LEMMA Initially == Init => IInv
<1> SUFFICES ASSUME Init PROVE IInv
  OBVIOUS
<1>1. TypeOK
  <2>1. approver \in BOOLEAN /\ validator \in BOOLEAN /\ overdue \in BOOLEAN
    BY Zenon DEF Init
  <2>2. log \in Seq(Activity) /\ Len(log) = 0
    BY DEF Init
  <2>3. decided \in [Effect -> Nat] /\ served \in [Effect -> Nat] /\ Repairs = 0
    BY DEF Init, Effect, Repairs
  <2>4. pc \in RepeatableAll /\ seen \in SessionState /\ work \in SessionState /\ ending = "none"
    BY DEF Init, RepeatableAll, SessionState
  <2> QED
    BY <2>1, <2>3, <2>4, BoundsAssumption DEF Init, TypeOK, NoChange
<1>2. Stage /\ InStep /\ Resting /\ Newest /\ HandedOver
  BY DEF Init, Stage, InStep, Resting, Newest, HandedOver, Effect
<1>3. NothingTwice /\ VerifiedWasChecked /\ FirstResultIsNewest /\ ExhaustedMeansTried
  BY DEF Init, NothingTwice, VerifiedWasChecked, FirstResultIsNewest, ExhaustedMeansTried
<1> QED
  BY <1>1, <1>2, <1>3 DEF IInv

(* The types of the loop, of what it found, and of the service.            *)
LoopOK ==
  /\ pc \in Place /\ ending \in Ending
  /\ tries \in 0..MaxRetries
  /\ seen \in SessionState
  /\ polls \in 0..MaxPolls
FindingsOK ==
  /\ pages \in 0..MaxPages
  /\ candidate \in 0..MaxLog
  /\ createdAt \in 0..2 * MaxLog + 1
  /\ passed \subseteq 1..MaxLog
ServiceOK ==
  /\ work \in SessionState
  /\ log \in Seq(Activity) /\ Len(log) <= MaxLog
  /\ unread \in 0..MaxRepairs
CountsOK ==
  /\ decided \in [Effect -> Nat] /\ Repairs <= MaxRepairs
  /\ served \in [Effect -> Nat]
FlagsOK == approver \in BOOLEAN /\ validator \in BOOLEAN /\ overdue \in BOOLEAN

(* The type invariant in parts.                                            *)
LEMMA TypeParts == TypeOK <=> FlagsOK /\ LoopOK /\ FindingsOK /\ ServiceOK /\ CountsOK
  BY Zenon DEF TypeOK, FlagsOK, LoopOK, FindingsOK, ServiceOK, CountsOK, Place, Ending

(* Bounds that follow from the types.                                      *)
LEMMA Bounds ==
  /\ MaxPolls \in Nat /\ MaxRepairs \in Nat /\ MaxRetries \in Nat /\ MaxLog \in Nat
  /\ MaxPages \in Nat /\ MaxPages > 0
  BY BoundsAssumption

(* An effect that is carried out or decided counts once.                   *)
LEMMA ServedOnce ==
  ASSUME CountsOK, NEW e \in Effect, Serve(e)
  PROVE  /\ served' \in [Effect -> Nat]
         /\ served'[e] = served[e] + 1
         /\ \A d \in Effect : d # e => served'[d] = served[d]
  BY DEF CountsOK, Serve

(* A decision is counted once.                                             *)
LEMMA DecidedOnce ==
  ASSUME CountsOK, NEW e \in Effect, decided' = [decided EXCEPT ![e] = @ + 1]
  PROVE  /\ decided' \in [Effect -> Nat]
         /\ decided'[e] = decided[e] + 1
         /\ \A d \in Effect : d # e => decided'[d] = decided[d]
  BY DEF CountsOK

(* What run makes of a session that stopped.                               *)
LEMMA SettledEnds ==
  ASSUME Settled, seen \in SessionState \ {"busy"}
  PROVE  \/ Finish("awaitingDecision")
         \/ seen = "failed" /\ Finish("failed")
         \/ seen = "completed" /\ Await("result")
  BY Zenon DEF Settled, SessionState

(* Looking at the session leads to one of these.                           *)
LEMMA LookGoesOn ==
  ASSUME Look, seen \in SessionState
  PROVE  /\ pc = "look"
         /\ UNCHANGED <<approver, validator, overdue, seen, polls, findings, decided, service>>
         /\ \/ \E status \in {"error", "awaitingDecision", "failed"} : Finish(status)
            \/ seen = "busy" /\ ~(polls >= MaxPolls) /\ Await("poll")
            \/ seen = "awaitingApproval" /\ ~(polls >= MaxPolls) /\ Await("ask")
            \/ seen = "completed" /\ Await("result")
<1>1. CASE polls >= MaxPolls
  BY <1>1, Zenon DEF Look
<1>2. CASE ~(polls >= MaxPolls) /\ seen = "busy"
  BY <1>2, Zenon DEF Look, SleepUnlessOverdue
<1>3. CASE ~(polls >= MaxPolls) /\ seen # "busy" /\ seen = "awaitingApproval" /\ approver
  BY <1>3, Zenon DEF Look
<1>4. CASE ~(polls >= MaxPolls) /\ seen # "busy" /\ ~(seen = "awaitingApproval" /\ approver)
  <2>1. Settled
    BY <1>4, Zenon DEF Look
  <2> QED
    BY <1>4, SettledEnds, Zenon DEF Look
<1> QED
  BY <1>1, <1>2, <1>3, <1>4

(* What the loop and the service count.                                    *)
Control == TypeOK /\ Stage /\ InStep /\ NothingTwice /\ VerifiedWasChecked /\ ExhaustedMeansTried

(* Control is kept by every step,                                          *)
LEMMA ControlPreserved == IInv /\ [Next]_vars => Control'
<1> SUFFICES ASSUME IInv, [Next]_vars PROVE Control'
  OBVIOUS
<1>0. FlagsOK /\ LoopOK /\ FindingsOK /\ ServiceOK /\ CountsOK
  BY TypeParts DEF IInv
<1>1. CASE Create
  <2>1. FlagsOK'
    BY <1>1, <1>0, Zenon DEF Create, FlagsOK, Post
  <2>2. LoopOK'
    BY <1>1, <1>0, FailedEnds, Bounds DEF Create, LoopOK, Place, Ending, IInv, Await, Post
  <2>3. FindingsOK'
    BY <1>1, <1>0 DEF Create, FindingsOK, findings, Post
  <2>4. ServiceOK' /\ CountsOK'
    BY <1>1, <1>0, ServedOnce DEF Create, ServiceOK, CountsOK, Effect, service, Post, Repairs
  <2>5. Stage'
    BY <1>1, FailedEnds DEF Create, Stage, IInv, Await, Post
  <2>6. InStep' /\ NothingTwice'
    BY <1>1, <1>0, FailedEnds, ServedOnce DEF Create, CountsOK, InStep, NothingTwice, Repeatable, Effect,
       IInv, service, Await, Post
  <2>7. VerifiedWasChecked' /\ ExhaustedMeansTried'
    BY <1>1, FailedEnds DEF Create, Stage, VerifiedWasChecked, ExhaustedMeansTried, IInv, Await, Post
  <2>8. TypeOK'
    BY <2>1, <2>2, <2>3, <2>4, Zenon DEF TypeOK, FlagsOK, LoopOK, FindingsOK, ServiceOK, CountsOK, Place,
       Ending
  <2> QED
    BY <2>5, <2>6, <2>7, <2>8 DEF Control
<1>2. CASE Look
  <2>1. FlagsOK'
    BY <1>2, <1>0, LookGoesOn, Zenon DEF FlagsOK, LoopOK
  <2>2. LoopOK'
    BY <1>2, <1>0, LookGoesOn, Bounds DEF LoopOK, Place, Ending, RepeatableAll, Status, Await, Finish
  <2>3. FindingsOK'
    <3>1. UNCHANGED <<pages, candidate, createdAt, passed>>
      BY <1>2, <1>0, LookGoesOn DEF LoopOK, findings
    <3> QED
      BY <3>1, <1>0 DEF FindingsOK
  <2>4. ServiceOK' /\ CountsOK'
    <3>1. UNCHANGED <<work, log, unread, served, decided>>
      BY <1>2, <1>0, LookGoesOn DEF LoopOK, service
    <3> QED
      BY <3>1, <1>0 DEF ServiceOK, CountsOK, Repairs
  <2>5. Stage'
    BY <1>2, LookGoesOn, Bounds DEF TypeOK, Stage, IInv, Await, Finish
  <2>6. InStep' /\ NothingTwice'
    <3>1. UNCHANGED <<unread, served, decided>> /\ pc = "look" /\ pc' \in {"poll", "ask", "result", "done"}
      BY <1>2, <1>0, LookGoesOn DEF LoopOK, service, Await, Finish
    <3> QED
      BY <3>1 DEF InStep, NothingTwice, Effect, IInv
  <2>7. VerifiedWasChecked' /\ ExhaustedMeansTried'
    BY <1>2, LookGoesOn DEF TypeOK, Stage, VerifiedWasChecked, ExhaustedMeansTried, IInv, Await, Finish
  <2>8. TypeOK'
    BY <2>1, <2>2, <2>3, <2>4, Zenon DEF TypeOK, FlagsOK, LoopOK, FindingsOK, ServiceOK, CountsOK, Place,
       Ending
  <2> QED
    BY <2>5, <2>6, <2>7, <2>8 DEF Control
<1>3. CASE Ask
  <2>1. FlagsOK'
    BY <1>3, <1>0, Zenon DEF Ask, FlagsOK
  <2>2. LoopOK'
    BY <1>3, <1>0, Bounds DEF Ask, LoopOK, Place, Ending, Stage, RepeatableAll, Status, IInv, Await, Finish,
       Settled
  <2>3. FindingsOK'
    BY <1>3, <1>0 DEF Ask, FindingsOK, findings
  <2>4. ServiceOK' /\ CountsOK'
    BY <1>3, <1>0 DEF Ask, ServiceOK, CountsOK, Effect, service, Repairs
  <2>5. Stage'
    BY <1>3 DEF Ask, Stage, IInv, Await, Finish, Settled
  <2>6. InStep' /\ NothingTwice'
    BY <1>3, <1>0 DEF Ask, CountsOK, Stage, InStep, NothingTwice, Effect, IInv, service, Await, Finish,
       Settled
  <2>7. VerifiedWasChecked' /\ ExhaustedMeansTried'
    BY <1>3 DEF Ask, Stage, VerifiedWasChecked, ExhaustedMeansTried, IInv, Await, Finish, Settled
  <2>8. TypeOK'
    BY <2>1, <2>2, <2>3, <2>4, Zenon DEF TypeOK, FlagsOK, LoopOK, FindingsOK, ServiceOK, CountsOK, Place,
       Ending
  <2> QED
    BY <2>5, <2>6, <2>7, <2>8 DEF Control
<1>4. CASE Approve
  <2>1. FlagsOK'
    BY <1>4, <1>0, Zenon DEF Approve, FlagsOK, Post
  <2>2. LoopOK'
    BY <1>4, <1>0, FailedEnds, Bounds DEF Approve, LoopOK, Place, Ending, RepeatableAll, IInv, Await, Finish,
       Post, SleepUnlessOverdue
  <2>3. FindingsOK'
    BY <1>4, <1>0 DEF Approve, FindingsOK, findings, Post
  <2>4. ServiceOK' /\ CountsOK'
    BY <1>4, <1>0, ServedOnce DEF Approve, ServiceOK, CountsOK, SessionState, Effect, service, Post, Repairs
  <2>5. Stage'
    BY <1>4, FailedEnds DEF Approve, Stage, IInv, Await, Finish, Post, SleepUnlessOverdue
  <2>6. InStep' /\ NothingTwice'
    BY <1>4, <1>0, FailedEnds, ServedOnce DEF Approve, CountsOK, InStep, NothingTwice, Repeatable, Effect,
       IInv, service, Await, Finish, Post, SleepUnlessOverdue
  <2>7. VerifiedWasChecked' /\ ExhaustedMeansTried'
    BY <1>4, FailedEnds DEF Approve, Stage, VerifiedWasChecked, ExhaustedMeansTried, IInv, Await, Finish,
       Post, SleepUnlessOverdue
  <2>8. TypeOK'
    BY <2>1, <2>2, <2>3, <2>4, Zenon DEF TypeOK, FlagsOK, LoopOK, FindingsOK, ServiceOK, CountsOK, Place,
       Ending
  <2> QED
    BY <2>5, <2>6, <2>7, <2>8 DEF Control
<1>5. CASE Poll
  <2>1. FlagsOK'
    BY <1>5, <1>0, Zenon DEF Poll, FlagsOK, Get
  <2>2. LoopOK'
    <3>1. CASE Await("look") /\ seen' = work /\ CountPoll
      BY <1>5, <1>0, <3>1, Bounds DEF Poll, CountPoll, LoopOK, ServiceOK, Place, Stage, IInv, Await
    <3>2. CASE Failed /\ UNCHANGED <<seen, polls>>
      BY <1>0, <3>2, FailedEnds DEF LoopOK, Place, Ending, IInv
    <3> QED
      BY <1>5, <3>1, <3>2 DEF Poll, Get
  <2>3. FindingsOK'
    BY <1>5, <1>0 DEF Poll, FindingsOK, Get
  <2>4. ServiceOK' /\ CountsOK'
    BY <1>5, <1>0 DEF Poll, ServiceOK, CountsOK, service, Get, Repairs
  <2>5. Stage'
    BY <1>5, FailedEnds DEF Poll, Stage, IInv, Await, Get
  <2>6. InStep' /\ NothingTwice'
    BY <1>5, FailedEnds DEF Poll, InStep, NothingTwice, Effect, IInv, service, Await, Get
  <2>7. VerifiedWasChecked' /\ ExhaustedMeansTried'
    BY <1>5, FailedEnds DEF Poll, Stage, VerifiedWasChecked, ExhaustedMeansTried, IInv, Await, Get
  <2>8. TypeOK'
    BY <2>1, <2>2, <2>3, <2>4, Zenon DEF TypeOK, FlagsOK, LoopOK, FindingsOK, ServiceOK, CountsOK, Place,
       Ending
  <2> QED
    BY <2>5, <2>6, <2>7, <2>8 DEF Control
<1>6. CASE ReadSession
  <2>1. FlagsOK'
    BY <1>6, <1>0, Zenon DEF ReadSession, FlagsOK, Get
  <2>2. LoopOK'
    BY <1>6, <1>0, FailedEnds, Bounds DEF ReadSession, LoopOK, Place, Ending, RepeatableAll, IInv, Await, Get
  <2>3. FindingsOK'
    BY <1>6, <1>0, Bounds DEF ReadSession, FindingsOK, Get, NoChange
  <2>4. ServiceOK' /\ CountsOK'
    BY <1>6, <1>0 DEF ReadSession, ServiceOK, CountsOK, service, Get, Repairs
  <2>5. Stage'
    BY <1>6, FailedEnds, Bounds DEF ReadSession, Stage, IInv, Await, Get
  <2>6. InStep' /\ NothingTwice'
    BY <1>6, FailedEnds DEF ReadSession, InStep, NothingTwice, Effect, IInv, service, Await, Get
  <2>7. VerifiedWasChecked' /\ ExhaustedMeansTried'
    BY <1>6, FailedEnds DEF ReadSession, Stage, VerifiedWasChecked, ExhaustedMeansTried, IInv, Await, Get
  <2>8. TypeOK'
    BY <2>1, <2>2, <2>3, <2>4, Zenon DEF TypeOK, FlagsOK, LoopOK, FindingsOK, ServiceOK, CountsOK, Place,
       Ending
  <2> QED
    BY <2>5, <2>6, <2>7, <2>8 DEF Control
<1>7. CASE ReadPage
  <2>1. FlagsOK'
    BY <1>7, <1>0, Zenon DEF ReadPage, FlagsOK, Get
  <2>2. LoopOK'
    BY <1>7, <1>0, FailedEnds, Bounds DEF ReadPage, Collected, LoopOK, Place, Ending, Status, IInv, Await,
       Finish, Get
  <2>3. FindingsOK'
    <3>1. CASE SortsLast(pages + 1)
      <4>1. pages + 1 \in 1..Len(log) /\ DateOf(pages + 1) \in 0..2 * MaxLog + 1
        BY <1>0, <3>1, Bounds DEF SortsLast, Carries, DateOf, FindingsOK, ServiceOK
      <4>2. /\ pages' \in {pages, pages + 1} /\ candidate' \in {candidate, pages + 1}
            /\ createdAt' \in {createdAt, DateOf(pages + 1)} /\ passed' = passed /\ pages < MaxPages
        BY <1>7, <3>1 DEF ReadPage, Stage, IInv, Get
      <4> QED
        BY <1>0, <4>1, <4>2, Bounds DEF FindingsOK, ServiceOK
    <3>2. CASE ~SortsLast(pages + 1)
      BY <1>7, <1>0, <3>2, Bounds DEF ReadPage, FindingsOK, Stage, IInv, Get
    <3> QED
      BY <3>1, <3>2
  <2>4. ServiceOK' /\ CountsOK'
    BY <1>7, <1>0 DEF ReadPage, ServiceOK, CountsOK, service, Get, Repairs
  <2>5. Stage'
    BY <1>7, FailedEnds DEF ReadPage, Collected, Stage, IInv, Await, Finish, Get
  <2>6. InStep' /\ NothingTwice'
    BY <1>7, FailedEnds DEF ReadPage, Collected, InStep, NothingTwice, Effect, IInv, service, Await, Finish,
       Get
  <2>7. VerifiedWasChecked' /\ ExhaustedMeansTried'
    BY <1>7, FailedEnds DEF ReadPage, Collected, Stage, VerifiedWasChecked, ExhaustedMeansTried, IInv, Await,
       Finish, Get
  <2>8. TypeOK'
    BY <2>1, <2>2, <2>3, <2>4, Zenon DEF TypeOK, FlagsOK, LoopOK, FindingsOK, ServiceOK, CountsOK, Place,
       Ending
  <2> QED
    BY <2>5, <2>6, <2>7, <2>8 DEF Control
<1>8. CASE Validate
  <2>1. FlagsOK'
    BY <1>8, <1>0, Zenon DEF Validate, FlagsOK
  <2>2. LoopOK'
    BY <1>8, <1>0, Bounds DEF Validate, Passes, Fails, LoopOK, Place, Ending, RepeatableAll, Status, Await,
       Finish
  <2>3. FindingsOK'
    <3>1. UNCHANGED <<pages, candidate, createdAt>> /\ passed' \subseteq passed \cup {candidate}
      BY <1>8, Zenon DEF Validate, Passes, Fails
    <3>2. candidate \in 1..MaxLog
      BY <1>8, <1>0 DEF Validate, Stage, FindingsOK, IInv, NoChange
    <3> QED
      BY <1>0, <3>1, <3>2 DEF FindingsOK
  <2>4. ServiceOK' /\ CountsOK'
    BY <1>8, <1>0, Bounds DEF Validate, Passes, Fails, OutOfRepairs, ServiceOK, CountsOK, SessionState,
       service, Repairs
  <2>5. Stage'
    BY <1>8 DEF Validate, Passes, Fails, Stage, IInv, Await, Finish
  <2>6. InStep' /\ NothingTwice'
    BY <1>8, <1>0 DEF Validate, Passes, Fails, CountsOK, InStep, NothingTwice, Effect, IInv, service, Await,
       Finish
  <2>7. VerifiedWasChecked' /\ ExhaustedMeansTried'
    BY <1>8, Bounds DEF Validate, Passes, Fails, OutOfRepairs, TypeOK, Stage, InStep, VerifiedWasChecked,
       ExhaustedMeansTried, Repeatable, Effect, IInv, service, Await, Finish, Repairs
  <2>8. TypeOK'
    BY <2>1, <2>2, <2>3, <2>4, Zenon DEF TypeOK, FlagsOK, LoopOK, FindingsOK, ServiceOK, CountsOK, Place,
       Ending
  <2> QED
    BY <2>5, <2>6, <2>7, <2>8 DEF Control
<1>9. CASE Instruct
  <2>1. FlagsOK'
    BY <1>9, <1>0, Zenon DEF Instruct, FlagsOK, Post
  <2>2. LoopOK'
    BY <1>9, <1>0, FailedEnds, Bounds DEF Instruct, LoopOK, Place, Ending, IInv, Await, Post
  <2>3. FindingsOK'
    BY <1>9, <1>0 DEF Instruct, FindingsOK, findings, Post
  <2>4. ServiceOK' /\ CountsOK'
    BY <1>9, <1>0, FailedEnds, ServedOnce, DecidedOnce, Bounds, SMTT(60) DEF Instruct, ServiceOK, CountsOK,
       SessionState, InStep, NothingTwice, Effect, IInv, findings, service, Post, Repairs
  <2>5. Stage'
    BY <1>9, FailedEnds DEF Instruct, Stage, IInv, Await, Post
  <2>6. InStep' /\ NothingTwice'
    <3>1. pc = "instruct" /\ UNCHANGED decided /\ pc' \in {"look", "done"}
      BY <1>9, FailedEnds DEF Instruct, Repeatable, IInv, Await, Post
    <3>2. CASE Serve("instruct") /\ unread' = unread + 1
      <4>1. served["instruct"] + 1 = decided["instruct"] /\ served'["instruct"] = served["instruct"] + 1
        BY <1>0, <3>1, <3>2, ServedOnce DEF InStep, Effect, IInv
      <4> QED
        BY <1>0, <3>1, <3>2, ServedOnce DEF InStep, NothingTwice, CountsOK, ServiceOK, Effect, IInv
    <3>3. CASE UNCHANGED service /\ pc' = "done"
      BY <3>1, <3>3 DEF InStep, NothingTwice, Effect, IInv, service
    <3> QED
      BY <1>9, <3>2, <3>3, FailedEnds DEF Instruct, Repeatable, IInv, Post
  <2>7. VerifiedWasChecked' /\ ExhaustedMeansTried'
    BY <1>9, FailedEnds DEF Instruct, Stage, VerifiedWasChecked, ExhaustedMeansTried, IInv, Await, Post
  <2>8. TypeOK'
    BY <2>1, <2>2, <2>3, <2>4, Zenon DEF TypeOK, FlagsOK, LoopOK, FindingsOK, ServiceOK, CountsOK, Place,
       Ending
  <2> QED
    BY <2>5, <2>6, <2>7, <2>8 DEF Control
<1>10. CASE BudgetElapses
  <2>1. FlagsOK'
    BY <1>10, <1>0, Zenon DEF BudgetElapses, FlagsOK
  <2>2. LoopOK'
    BY <1>10, <1>0 DEF BudgetElapses, LoopOK, request
  <2>3. FindingsOK'
    BY <1>10, <1>0 DEF BudgetElapses, FindingsOK, findings
  <2>4. ServiceOK' /\ CountsOK'
    BY <1>10, <1>0 DEF BudgetElapses, ServiceOK, CountsOK, service, Repairs
  <2>5. Stage'
    BY <1>10 DEF BudgetElapses, Stage, IInv, request, findings
  <2>6. InStep' /\ NothingTwice'
    BY <1>10 DEF BudgetElapses, InStep, NothingTwice, IInv, request, service
  <2>7. VerifiedWasChecked' /\ ExhaustedMeansTried'
    BY <1>10 DEF BudgetElapses, VerifiedWasChecked, ExhaustedMeansTried, IInv, request, findings, service
  <2>8. TypeOK'
    BY <2>1, <2>2, <2>3, <2>4, Zenon DEF TypeOK, FlagsOK, LoopOK, FindingsOK, ServiceOK, CountsOK, Place,
       Ending
  <2> QED
    BY <2>5, <2>6, <2>7, <2>8 DEF Control
<1>11. CASE ServiceMoves
  <2>1. FlagsOK'
    BY <1>11, <1>0, Zenon DEF ServiceMoves, FlagsOK, delegation
  <2>2. LoopOK'
    BY <1>11, <1>0 DEF ServiceMoves, LoopOK, request, delegation
  <2>3. FindingsOK'
    BY <1>11, <1>0 DEF ServiceMoves, FindingsOK, findings, delegation
  <2>4. ServiceOK' /\ CountsOK'
    BY <1>11, <1>0 DEF ServiceMoves, ServiceOK, CountsOK, SessionState, delegation, Repairs
  <2>5. Stage'
    BY <1>11 DEF ServiceMoves, Stage, IInv, request, findings, delegation
  <2>6. InStep' /\ NothingTwice'
    BY <1>11 DEF ServiceMoves, InStep, NothingTwice, IInv, request, delegation
  <2>7. VerifiedWasChecked' /\ ExhaustedMeansTried'
    BY <1>11 DEF ServiceMoves, VerifiedWasChecked, ExhaustedMeansTried, IInv, request, findings, delegation
  <2>8. TypeOK'
    BY <2>1, <2>2, <2>3, <2>4, Zenon DEF TypeOK, FlagsOK, LoopOK, FindingsOK, ServiceOK, CountsOK, Place,
       Ending
  <2> QED
    BY <2>5, <2>6, <2>7, <2>8 DEF Control
<1>12. CASE ServiceReports
  <2>1. FlagsOK'
    BY <1>12, <1>0, Zenon DEF ServiceReports, FlagsOK, delegation
  <2>2. LoopOK'
    BY <1>12, <1>0 DEF ServiceReports, LoopOK, request, delegation
  <2>3. FindingsOK'
    BY <1>12, <1>0 DEF ServiceReports, FindingsOK, findings, delegation
  <2>4. ServiceOK' /\ CountsOK'
    <3>1. PICK entry \in Activity : log' = Append(log, entry)
      BY <1>12 DEF ServiceReports
    <3>2. Len(log) < MaxLog
      BY <1>12 DEF ServiceReports
    <3>3. log' \in Seq(Activity) /\ Len(log') <= MaxLog
      BY <1>0, <3>1, <3>2, Bounds DEF ServiceOK
    <3> QED
      BY <1>12, <1>0, <3>3 DEF ServiceReports, ServiceOK, CountsOK, delegation, Repairs
  <2>5. Stage'
    BY <1>12 DEF ServiceReports, Stage, IInv, request, findings, delegation
  <2>6. InStep' /\ NothingTwice'
    BY <1>12 DEF ServiceReports, InStep, NothingTwice, IInv, request, delegation
  <2>7. VerifiedWasChecked' /\ ExhaustedMeansTried'
    BY <1>12 DEF ServiceReports, VerifiedWasChecked, ExhaustedMeansTried, IInv, request, findings, delegation
  <2>8. TypeOK'
    BY <2>1, <2>2, <2>3, <2>4, Zenon DEF TypeOK, FlagsOK, LoopOK, FindingsOK, ServiceOK, CountsOK, Place,
       Ending
  <2> QED
    BY <2>5, <2>6, <2>7, <2>8 DEF Control
<1>13. CASE ServiceResumes
  <2>1. FlagsOK'
    BY <1>13, <1>0, Zenon DEF ServiceResumes, FlagsOK, delegation
  <2>2. LoopOK'
    BY <1>13, <1>0 DEF ServiceResumes, LoopOK, request, delegation
  <2>3. FindingsOK'
    BY <1>13, <1>0 DEF ServiceResumes, FindingsOK, findings, delegation
  <2>4. ServiceOK' /\ CountsOK'
    BY <1>13, <1>0, Bounds DEF ServiceResumes, ServiceOK, CountsOK, SessionState, delegation, Repairs
  <2>5. Stage'
    BY <1>13 DEF ServiceResumes, Stage, IInv, request, findings, delegation
  <2>6. InStep' /\ NothingTwice'
    BY <1>13, <1>0 DEF ServiceResumes, InStep, NothingTwice, Effect, ServiceOK, CountsOK, IInv, request,
       delegation
  <2>7. VerifiedWasChecked' /\ ExhaustedMeansTried'
    BY <1>13 DEF ServiceResumes, VerifiedWasChecked, ExhaustedMeansTried, IInv, request, findings, delegation
  <2>8. TypeOK'
    BY <2>1, <2>2, <2>3, <2>4, Zenon DEF TypeOK, FlagsOK, LoopOK, FindingsOK, ServiceOK, CountsOK, Place,
       Ending
  <2> QED
    BY <2>5, <2>6, <2>7, <2>8 DEF Control
<1>14. CASE UNCHANGED vars
  BY <1>14 DEF vars, Control, TypeOK, Stage, InStep, NothingTwice, VerifiedWasChecked, ExhaustedMeansTried,
     IInv, request, findings, service, Repairs
<1> QED
  BY <1>1, <1>2, <1>3, <1>4, <1>5, <1>6, <1>7, <1>8, <1>9, <1>10, <1>11, <1>12, <1>13, <1>14 DEF Next,
     Delegate, Ended

(* What is known of the change sets.                                       *)
Knowledge == Resting /\ Newest /\ HandedOver /\ FirstResultIsNewest

(* and so is what the delegation knows of the service.                     *)
LEMMA KnowledgePreserved == IInv /\ [Next]_vars => Knowledge'
<1> SUFFICES ASSUME IInv, [Next]_vars PROVE Knowledge'
  OBVIOUS
<1>0. FlagsOK /\ LoopOK /\ FindingsOK /\ ServiceOK /\ CountsOK
  BY TypeParts DEF IInv
<1>1. CASE Create
  <2>2. Resting'
    BY <1>1 DEF Create, Resting, IInv, service, Post, Repairs
  <2>3. Newest'
    BY <1>1, FailedEnds DEF Create, Newest, IInv, Await, Post
  <2>4. HandedOver'
    BY <1>1, FailedEnds DEF Create, HandedOver, Stage, IInv, Await, Post
  <2>5. FirstResultIsNewest'
    BY <1>1, FailedEnds DEF Create, FirstResultIsNewest, Stage, IInv, Await, Post
  <2> QED
    BY <2>2, <2>3, <2>4, <2>5 DEF Knowledge
<1>2. CASE Look
  <2>0. /\ pc = "look" /\ UNCHANGED <<seen, decided, pages, candidate, work, log>>
        /\ pc' \in {"poll", "ask", "result", "done"}
        /\ ending' # "unvalidated"
    BY <1>2, <1>0, LookGoesOn DEF LoopOK, Stage, IInv, findings, service, Await, Finish
  <2>1. Resting'
    BY <2>0 DEF Resting, IInv, Repairs
  <2>2. Newest' /\ HandedOver' /\ FirstResultIsNewest'
    BY <2>0 DEF Newest, HandedOver, FirstResultIsNewest
  <2> QED
    BY <2>1, <2>2 DEF Knowledge
<1>3. CASE Ask
  <2>0. /\ UNCHANGED <<seen, pages, candidate, work, log>> /\ Repairs' = Repairs
        /\ pc' \in {"approve", "done"} /\ (pc' = "done" => ending' = "awaitingDecision") /\ (pc' = "approve" => ending' = ending)
    <3>1. pc = "ask" /\ seen = "awaitingApproval"
      BY <1>3 DEF Ask, Stage, IInv
    <3>2. Settled => Finish("awaitingDecision")
      BY <3>1, SettledEnds DEF SessionState
    <3> QED
      BY <1>0, <1>3, <3>2, DecidedOnce DEF Ask, Effect, findings, service, Await, Finish, Repairs
  <2>1. Resting'
    BY <2>0 DEF Resting, IInv
  <2>2. Newest' /\ HandedOver' /\ FirstResultIsNewest'
    BY <2>0 DEF Newest, HandedOver, FirstResultIsNewest, Offered, Carries, IInv
  <2> QED
    BY <2>1, <2>2 DEF Knowledge
<1>4. CASE Approve
  <2>2. Resting'
    BY <1>4 DEF Approve, Resting, IInv, service, Post, Repairs
  <2>3. Newest'
    BY <1>4, FailedEnds DEF Approve, Newest, IInv, Await, Finish, Post, SleepUnlessOverdue
  <2>4. HandedOver'
    BY <1>4, FailedEnds DEF Approve, HandedOver, Stage, IInv, Await, Finish, Post, SleepUnlessOverdue
  <2>5. FirstResultIsNewest'
    BY <1>4, FailedEnds DEF Approve, FirstResultIsNewest, Stage, IInv, Await, Finish, Post, SleepUnlessOverdue
  <2> QED
    BY <2>2, <2>3, <2>4, <2>5 DEF Knowledge
<1>5. CASE Poll
  <2>2. Resting'
    BY <1>5 DEF Poll, Resting, IInv, service, Get, Repairs
  <2>3. Newest'
    BY <1>5, FailedEnds DEF Poll, Newest, IInv, Await, Get
  <2>4. HandedOver'
    BY <1>5, FailedEnds DEF Poll, HandedOver, Stage, IInv, Await, Get
  <2>5. FirstResultIsNewest'
    BY <1>5, FailedEnds DEF Poll, FirstResultIsNewest, Stage, IInv, Await, Get
  <2> QED
    BY <2>2, <2>3, <2>4, <2>5 DEF Knowledge
<1>6. CASE ReadSession
  <2>2. Resting'
    BY <1>6 DEF ReadSession, Resting, IInv, service, Get, Repairs
  <2>3. Newest'
    BY <1>6, <1>0, FailedEnds DEF ReadSession, Newest, SortedLast, ServiceOK, IInv, service, Get, NoChange
  <2>4. HandedOver'
    BY <1>6 DEF ReadSession, HandedOver, Stage, IInv
  <2>5. FirstResultIsNewest'
    BY <1>6, FailedEnds DEF ReadSession, FirstResultIsNewest, Stage, IInv, Await, Get
  <2> QED
    BY <2>2, <2>3, <2>4, <2>5 DEF Knowledge
<1>7. CASE ReadPage
  <2>0. /\ pc = "page"
        /\ UNCHANGED <<approver, validator, overdue, decided, passed, work, log, unread, served, seen, polls>>
        /\ \/ /\ candidate' = IF SortsLast(pages + 1) THEN pages + 1 ELSE candidate
              /\ createdAt' = IF SortsLast(pages + 1) THEN DateOf(pages + 1) ELSE createdAt
              /\ pages' = pages + 1
              /\ IF pages' < Len(log) /\ pages' < MaxPages THEN Await("page") ELSE Collected(candidate')
           \/ Failed /\ UNCHANGED <<pages, candidate, createdAt>>
    BY <1>7, Zenon DEF ReadPage, Get, service
  <2>1. Resting'
    BY <2>0 DEF Resting, IInv, Repairs
  <2>2. HandedOver'
    BY <2>0 DEF HandedOver, Stage, IInv
  <2>3. Repairs = 0 => SortedLast'
    <3> SUFFICES ASSUME Repairs = 0 PROVE SortedLast'
      OBVIOUS
    <3>1. SortedLast /\ log \in Seq(Activity) /\ pages \in Nat /\ candidate \in Nat /\ createdAt \in Nat
      BY <1>0, <2>0, Bounds DEF Newest, FindingsOK, ServiceOK, IInv
    <3>2. \A i \in DOMAIN log : DateOf(i) \in Nat
      BY <3>1 DEF DateOf
    <3>3. CASE UNCHANGED <<pages, candidate, createdAt>>
      BY <2>0, <3>1, <3>3 DEF SortedLast, Carries, DateOf
    <3>4. CASE /\ SortsLast(pages + 1)
               /\ candidate' = pages + 1 /\ createdAt' = DateOf(pages + 1) /\ pages' = pages + 1
      BY <2>0, <3>1, <3>4 DEF SortedLast, SortsLast, Carries, DateOf, NoChange
    <3>5. CASE /\ ~SortsLast(pages + 1)
               /\ candidate' = candidate /\ createdAt' = createdAt /\ pages' = pages + 1
      <4>1. \A i \in DOMAIN log : i <= pages + 1 => i <= pages \/ i = pages + 1
        BY <3>1
      <4>2. Carries(pages + 1) => DateOf(pages + 1) < createdAt
        BY <3>1, <3>2, <3>5 DEF SortsLast, Carries
      <4>3. candidate # NoChange \/ ~Carries(pages + 1)
        BY <3>1, <3>2, <4>2 DEF SortedLast, Carries
      <4> QED
        BY <2>0, <3>1, <3>5, <4>1, <4>2, <4>3 DEF SortedLast, Carries, DateOf
    <3> QED
      BY <2>0, <3>3, <3>4, <3>5
  <2>4. Newest'
    BY <2>0, <2>3 DEF Newest, Repairs
  <2>5. FirstResultIsNewest'
    <3> SUFFICES ASSUME (pc' = "validate" \/ ending' = "unvalidated"), Repairs = 0
                 PROVE  /\ candidate' \in Offered'
                        /\ \A i \in Offered' : i > candidate' => log[candidate'] = "undated" /\ log[i] = "changes"
      BY <2>0 DEF FirstResultIsNewest, Repairs
    <3>1. ending # "unvalidated" /\ pc # "validate"
      BY <2>0 DEF Stage, IInv
    <3>2. /\ pages' = pages + 1 /\ ~(pages' < Len(log) /\ pages' < MaxPages)
          /\ candidate' # NoChange
      BY <2>0, <3>1, FailedEnds DEF IInv, Await, Collected, Finish
    <3>3. /\ log \in Seq(Activity) /\ pages \in Nat /\ candidate' \in Nat /\ pages < MaxPages
          /\ MaxPages \in Nat
      BY <1>0, <2>0, Bounds DEF FindingsOK, ServiceOK, Stage, IInv
    <3>4. /\ candidate' <= pages' /\ Carries(candidate') /\ createdAt' = DateOf(candidate')
          /\ \A i \in DOMAIN log : i <= pages' /\ i > candidate' /\ Carries(i) => DateOf(i) < createdAt'
      BY <2>0, <2>3, <3>2 DEF SortedLast, Carries, DateOf
    <3>5. candidate' \in Offered'
      BY <2>0, <3>2, <3>3, <3>4 DEF Offered, Carries
    <3>6. ASSUME NEW i \in Offered', i > candidate'
          PROVE  log[candidate'] = "undated" /\ log[i] = "changes"
      <4>1. i \in DOMAIN log /\ i <= pages' /\ Carries(i)
        BY <2>0, <3>2, <3>3, <3>6 DEF Offered, Carries
      <4>2. DateOf(i) < DateOf(candidate')
        BY <3>4, <3>6, <4>1
      <4> QED
        BY <3>3, <3>4, <3>6, <4>1, <4>2 DEF DateOf, Carries
    <3> QED
      BY <3>5, <3>6
  <2> QED
    BY <2>1, <2>2, <2>4, <2>5 DEF Knowledge
<1>8. CASE Validate
  <2>2. Resting'
    BY <1>8, <1>0 DEF Validate, Passes, Fails, Resting, CountsOK, IInv, service, Repairs
  <2>3. Newest'
    BY <1>8 DEF Validate, Passes, Fails, Newest, Await, Finish
  <2>4. HandedOver'
    BY <1>8 DEF Validate, HandedOver, Stage, IInv
  <2>5. FirstResultIsNewest'
    BY <1>8 DEF Validate, Passes, Fails, FirstResultIsNewest, Stage, IInv, Await, Finish
  <2> QED
    BY <2>2, <2>3, <2>4, <2>5 DEF Knowledge
<1>9. CASE Instruct
  <2>2. Resting'
    BY <1>9, <1>0 DEF Instruct, Resting, InStep, Effect, CountsOK, IInv, Post, Repairs
  <2>3. Newest'
    BY <1>9, FailedEnds DEF Instruct, Newest, IInv, Await, Post
  <2>4. HandedOver'
    BY <1>9 DEF Instruct, HandedOver, Stage, IInv, Post
  <2>5. FirstResultIsNewest'
    BY <1>9, FailedEnds DEF Instruct, FirstResultIsNewest, Stage, IInv, Await, Post
  <2> QED
    BY <2>2, <2>3, <2>4, <2>5 DEF Knowledge
<1>10. CASE BudgetElapses
  <2>2. Resting'
    BY <1>10 DEF BudgetElapses, Resting, IInv, service, Repairs
  <2>3. Newest'
    BY <1>10 DEF BudgetElapses, Newest, SortedLast, Carries, DateOf, IInv, request, findings, service, Repairs
  <2>4. HandedOver'
    BY <1>10 DEF BudgetElapses, HandedOver, IInv, request, Repairs
  <2>5. FirstResultIsNewest'
    BY <1>10 DEF BudgetElapses, FirstResultIsNewest, Offered, Carries, IInv, request, findings, service, Repairs
  <2> QED
    BY <2>2, <2>3, <2>4, <2>5 DEF Knowledge
<1>11. CASE ServiceMoves
  <2>2. Resting'
    BY <1>11 DEF ServiceMoves, Resting, IInv, delegation, Repairs
  <2>3. Newest'
    BY <1>11 DEF ServiceMoves, Newest, SortedLast, Carries, DateOf, IInv, request, findings, delegation, Repairs
  <2>4. HandedOver'
    BY <1>11 DEF ServiceMoves, HandedOver, IInv, request, delegation, Repairs
  <2>5. FirstResultIsNewest'
    BY <1>11 DEF ServiceMoves, FirstResultIsNewest, Offered, Carries, IInv, request, findings, delegation, Repairs
  <2> QED
    BY <2>2, <2>3, <2>4, <2>5 DEF Knowledge
<1>12. CASE ServiceReports
  <2>1. UNCHANGED <<pc, ending, seen, decided, candidate, pages, work>> /\ work = "busy"
    BY <1>12 DEF ServiceReports, request, findings, delegation
  <2>4. Resting' /\ HandedOver'
    BY <2>1 DEF Resting, HandedOver, IInv, Repairs
  <2>5. Newest' /\ FirstResultIsNewest'
    <3>1. Repairs = 0 => pc \notin {"page", "validate"} /\ ending # "unvalidated"
      BY <2>1 DEF Resting, Stage, HandedOver, IInv
    <3> QED
      BY <2>1, <3>1 DEF Newest, FirstResultIsNewest, Repairs
  <2> QED
    BY <2>4, <2>5 DEF Knowledge
<1>13. CASE ServiceResumes
  <2>0. Repairs # 0 /\ UNCHANGED <<pc, ending, seen, decided, pages, candidate, log>>
    BY <1>13, <1>0 DEF ServiceResumes, InStep, NothingTwice, Effect, ServiceOK, CountsOK, IInv, request,
       findings, delegation, Repairs
  <2>2. Resting' /\ Newest' /\ HandedOver' /\ FirstResultIsNewest'
    BY <2>0 DEF Resting, Newest, HandedOver, FirstResultIsNewest, Repairs
  <2> QED
    BY <2>2 DEF Knowledge
<1>14. CASE UNCHANGED vars
  BY <1>14 DEF vars, Knowledge, Resting, Newest, SortedLast, DateOf, HandedOver, FirstResultIsNewest, Offered, Carries, IInv,
     request, findings, service, Repairs
<1> QED
  BY <1>1, <1>2, <1>3, <1>4, <1>5, <1>6, <1>7, <1>8, <1>9, <1>10, <1>11, <1>12, <1>13, <1>14 DEF Next,
     Delegate, Ended

(* The invariant holds throughout.                                         *)
LEMMA Invariance == Spec => []IInv
<1>1. IInv /\ [Next]_vars => IInv'
  BY ControlPreserved, KnowledgePreserved DEF IInv, Control, Knowledge
<1> QED
  BY Initially, <1>1, PTL DEF Spec

-----------------------------------------------------------------------------
(* A delegation keeps to its types, its bounds and its budgets, whatever   *)
(* the service answers.                                                    *)
THEOREM TypeCorrect == Spec => []TypeOK
<1>1. IInv => TypeOK
  BY DEF IInv
<1> QED
  BY Invariance, <1>1, PTL

(* provider.ts, a request with an effect is never sent twice: the service  *)
(* creates, approves and is instructed at most as often as the delegation  *)
(* decided, whichever of its answers are lost.                             *)
THEOREM EffectsHappenOnce == Spec => []NothingTwice
<1>1. IInv => NothingTwice
  BY DEF IInv
<1> QED
  BY Invariance, <1>1, PTL

(* delegation.ts, an outcome is called verified only when the change set   *)
(* it carries passed its validation.                                       *)
THEOREM VerifiedIsChecked == Spec => []VerifiedWasChecked
<1>1. IInv => VerifiedWasChecked
  BY DEF IInv
<1> QED
  BY Invariance, <1>1, PTL

(* getResult, before the first repair the change set validated or handed   *)
(* over is the newest that MAX_ACTIVITY_PAGES hold and the mapping keeps,  *)
(* however many there are; one without a readable time may take its place. *)
THEOREM NewestIsTaken == Spec => []FirstResultIsNewest
<1>1. IInv => FirstResultIsNewest
  BY DEF IInv
<1> QED
  BY Invariance, <1>1, PTL

(* run, a delegation that reports its repairs exhausted delivered every    *)
(* one of its instructions and holds a change set that does not pass.      *)
THEOREM ExhaustionIsEarned == Spec => []ExhaustedMeansTried
<1>1. IInv => ExhaustedMeansTried
  BY DEF IInv
<1> QED
  BY Invariance, <1>1, PTL
=============================================================================

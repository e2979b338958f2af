---------------------------- MODULE RpcConnection ----------------------------
(***************************************************************************)
(* Two RpcConnection peers over a pair of streams: packages/rpc/src        *)
(* connection.ts, framing.ts and transport.ts, as the editor and the agent *)
(* server use them.  Both call and both are called.                        *)
(*                                                                         *)
(* A message is its kind and the id of the call it is about; calls are     *)
(* numbered by the peer that makes them.  A stream is the sequence of      *)
(* frames its reader has not decoded yet: a stray write to it, or a frame  *)
(* above MAX_MESSAGE_BYTES, is a frame no decoder gets past.  Values,      *)
(* method names and how bytes are cut into chunks are left out.            *)
(***************************************************************************)
EXTENDS Integers, Sequences, FiniteSets, SequencesExt

CONSTANTS
  Peer,      \* the two ends
  Other,     \* the end facing each of them
  Quotas,    \* bound: how many calls each peer may make in a behaviour
  TimesOut   \* requestTimeoutMs > 0

ASSUME PeerAssumption ==
  /\ Other \in [Peer -> Peer]
  /\ \A p \in Peer : Other[p] # p /\ Other[Other[p]] = p
  /\ Quotas \subseteq [Peer -> Nat]
  /\ TimesOut \in BOOLEAN

Id == UNION {1..quota[p] : quota \in Quotas, p \in Peer}

VARIABLES
  quota,     \* how many calls each peer may still make
  calls,     \* of each peer: how many calls it made (nextId - 1)
  pending,   \* its calls that are not settled
  outcome,   \* history: what each of its calls was settled with
  listening, \* its calls whose abort listener is registered
  inFlight,  \* calls of the other peer with an AbortController here
  running,   \* calls of the other peer whose handler has not finished
  aborted,   \* history: calls of the other peer whose handler was told to stop
  verdict,   \* history: what the handler of each such call answered
  closed,    \* the connection is disposed
  stream     \* frames on their way to it

vars == <<quota, calls, pending, outcome, listening, inFlight, running, aborted, verdict,
          closed, stream>>
caller == <<quota, calls, pending, outcome, listening>>
callee == <<inFlight, running, aborted, verdict>>

RequestFrame(id) == [kind |-> "request", id |-> id]
CancelFrame(id) == [kind |-> "cancel", id |-> id]
ResponseFrame(id, value) == [kind |-> "response", id |-> id, value |-> value]
Garbage == [kind |-> "garbage"]

Init ==
  /\ quota \in Quotas
  /\ calls = [p \in Peer |-> 0]
  /\ pending = [p \in Peer |-> {}]
  /\ outcome = [p \in Peer |-> [id \in Id |-> "none"]]
  /\ listening = [p \in Peer |-> {}]
  /\ inFlight = [p \in Peer |-> {}]
  /\ running = [p \in Peer |-> {}]
  /\ aborted = [p \in Peer |-> {}]
  /\ verdict = [p \in Peer |-> [id \in Id |-> "none"]]
  /\ closed = [p \in Peer |-> FALSE]
  /\ stream = [p \in Peer |-> <<>>]

(* What is written behind garbage is never decoded and left out.           *)
Garbled(frames) == Garbage \in ToSet(frames)
Put(frames, frame) == IF Garbled(frames) THEN frames ELSE Append(frames, frame)

(* send(): a closed transport drops what it is given.                      *)
Sent(p, streams, frame) ==
  IF closed[p] THEN streams ELSE [streams EXCEPT ![Other[p]] = Put(@, frame)]

Send(p, frame) == stream' = Sent(p, stream, frame)

(* Seeded bug: a settled call stays in the table.                          *)
SettleKeeping(p, id, result) ==
  /\ pending' = pending
  /\ outcome' = IF id \in pending[p] THEN [outcome EXCEPT ![p][id] = result] ELSE outcome

(* settle(): only a call still pending has anybody waiting for it.         *)
Settle(p, id, result) ==
  /\ pending' = [pending EXCEPT ![p] = @ \ {id}]
  /\ outcome' = IF id \in pending[p] THEN [outcome EXCEPT ![p][id] = result] ELSE outcome

-----------------------------------------------------------------------------
(* request(): once closed it only returns an error.                        *)
MayCall(p) == ~closed[p] /\ quota[p] > 0

Number(p) ==
  /\ MayCall(p)
  /\ calls' = [calls EXCEPT ![p] = @ + 1]
  /\ quota' = [quota EXCEPT ![p] = @ - 1]

Request(p) ==
  LET id == calls[p] + 1
  IN /\ Number(p)
     /\ pending' = [pending EXCEPT ![p] = @ \cup {id}]
     /\ listening' = [listening EXCEPT ![p] = @ \cup {id}]
     /\ Send(p, RequestFrame(id))
     /\ UNCHANGED <<outcome, callee, closed>>

(* request() whose signal is aborted already: the cancellation is sent and *)
(* the request is not.                                                     *)
RequestAborted(p) ==
  LET id == calls[p] + 1
  IN /\ Number(p)
     /\ outcome' = [outcome EXCEPT ![p][id] = "aborted"]
     /\ Send(p, CancelFrame(id))
     /\ UNCHANGED <<pending, listening, callee, closed>>

(* request() whose parameters cannot be encoded.                           *)
RequestUnsent(p) ==
  LET id == calls[p] + 1
  IN /\ Number(p)
     /\ outcome' = [outcome EXCEPT ![p][id] = "unsent"]
     /\ listening' = [listening EXCEPT ![p] = @ \cup {id}]
     /\ UNCHANGED <<pending, callee, closed, stream>>

(* The caller's signal fires.  The listener is removed by firing only, not *)
(* when the call is settled.                                               *)
Cancel(p, id) ==
  /\ id \in listening[p]
  /\ listening' = [listening EXCEPT ![p] = @ \ {id}]
  /\ Send(p, CancelFrame(id))
  /\ Settle(p, id, "aborted")
  /\ UNCHANGED <<quota, calls, callee, closed>>

Timeout(p, id) ==
  /\ TimesOut
  /\ id \in pending[p]
  /\ Send(p, CancelFrame(id))
  /\ Settle(p, id, "timeout")
  /\ UNCHANGED <<quota, calls, listening, callee, closed>>

-----------------------------------------------------------------------------
(* dispose(): everything in flight is settled or told to stop.  Reached by *)
(* a call, by the end of either stream and by a framing failure.           *)
Dispose(p) ==
  /\ ~closed[p]
  /\ closed' = [closed EXCEPT ![p] = TRUE]
  /\ outcome' = [outcome EXCEPT ![p] =
       [id \in Id |-> IF id \in pending[p] THEN "closed" ELSE @[id]]]
  /\ pending' = [pending EXCEPT ![p] = {}]
  /\ aborted' = [aborted EXCEPT ![p] = @ \cup inFlight[p]]
  /\ inFlight' = [inFlight EXCEPT ![p] = {}]

Close(p) ==
  /\ Dispose(p)
  /\ UNCHANGED <<quota, calls, listening, running, verdict, stream>>

(* receive() and dispatch(), one frame at a time, closed or not.           *)
NextFrame(p) == Head(stream[p])
Arrives(p, kind) == stream[p] # <<>> /\ NextFrame(p).kind = kind
Consume(p) == stream' = [stream EXCEPT ![p] = Tail(@)]

(* Seeded bug: the answer goes to the latest call.                         *)
SettleLatest(p) ==
  /\ Arrives(p, "response")
  /\ Settle(p, calls[p], NextFrame(p).value)
  /\ Consume(p)
  /\ UNCHANGED <<quota, calls, listening, callee, closed>>

SettleResponse(p) ==
  /\ Arrives(p, "response")
  /\ Settle(p, NextFrame(p).id, NextFrame(p).value)
  /\ Consume(p)
  /\ UNCHANGED <<quota, calls, listening, callee, closed>>

StartHandler(p) ==
  /\ Arrives(p, "request")
  /\ inFlight' = [inFlight EXCEPT ![p] = @ \cup {NextFrame(p).id}]
  /\ running' = [running EXCEPT ![p] = @ \cup {NextFrame(p).id}]
  /\ Consume(p)
  /\ UNCHANGED <<caller, aborted, verdict, closed>>

(* A request for a method nobody registered is answered at once; the answer*)
(* holds the method's name, and what was decoded can be encoded.           *)
RefuseRequest(p) ==
  LET id == NextFrame(p).id
  IN /\ Arrives(p, "request")
     /\ verdict' = [verdict EXCEPT ![p][id] = "error"]
     /\ stream' = Sent(p, [stream EXCEPT ![p] = Tail(@)], ResponseFrame(id, "error"))
     /\ UNCHANGED <<caller, inFlight, running, aborted, closed>>

(* Seeded bugs: everything is stopped; the wrong table is consulted.       *)
AbortHandlers(p) ==
  /\ Arrives(p, "cancel")
  /\ aborted' = [aborted EXCEPT ![p] = @ \cup inFlight[p]]
  /\ Consume(p)
  /\ UNCHANGED <<caller, inFlight, running, verdict, closed>>
AbortPending(p) ==
  /\ Arrives(p, "cancel")
  /\ aborted' = [aborted EXCEPT ![p] = @ \cup ({NextFrame(p).id} \cap pending[p])]
  /\ Consume(p)
  /\ UNCHANGED <<caller, inFlight, running, verdict, closed>>

AbortHandler(p) ==
  /\ Arrives(p, "cancel")
  /\ aborted' = [aborted EXCEPT ![p] = @ \cup ({NextFrame(p).id} \cap inFlight[p])]
  /\ Consume(p)
  /\ UNCHANGED <<caller, inFlight, running, verdict, closed>>

(* A framing failure disposes of the connection; the decoder stays stuck.  *)
FramingFailure(p) ==
  /\ Arrives(p, "garbage")
  /\ Dispose(p)
  /\ UNCHANGED <<quota, calls, listening, running, verdict, stream>>

(* A handler finishes, told to stop or not; throwing is answering "error". *)
(* "oversized" is a result the other end's decoder will not accept, and    *)
(* "unsendable" a result, or the details of an error, that cannot be       *)
(* encoded: nobody looks at what send() returns, and nothing is sent.      *)
Answers == {"ok", "error", "oversized", "unsendable"}

Respond(p, id, value) ==
  CASE value = "oversized"  -> Send(p, Garbage)
    [] value = "unsendable" -> UNCHANGED stream
    [] OTHER                -> Send(p, ResponseFrame(id, value))

Answer(p, id, value) ==
  /\ id \in running[p]
  /\ running' = [running EXCEPT ![p] = @ \ {id}]
  /\ inFlight' = [inFlight EXCEPT ![p] = @ \ {id}]
  /\ verdict' = [verdict EXCEPT ![p][id] = value]
  /\ Respond(p, id, value)
  /\ UNCHANGED <<caller, aborted, closed>>

(* Something else writes to the stream.                                    *)
StrayWrite(p) ==
  /\ ~closed[p]
  /\ ~Garbled(stream[p])
  /\ stream' = [stream EXCEPT ![p] = Append(@, Garbage)]
  /\ UNCHANGED <<caller, callee, closed>>

Receive(p) ==
  \/ SettleResponse(p)
  \/ StartHandler(p)
  \/ RefuseRequest(p)
  \/ AbortHandler(p)
  \/ FramingFailure(p)

PeerStep(p) ==
  \/ Request(p)
  \/ RequestAborted(p)
  \/ RequestUnsent(p)
  \/ \E id \in Id : Cancel(p, id)
  \/ \E id \in Id : Timeout(p, id)
  \/ \E id \in Id, value \in Answers : Answer(p, id, value)
  \/ Receive(p)
  \/ Close(p)
  \/ StrayWrite(p)

Next == \E p \in Peer : PeerStep(p)

(* The event loop goes on reading what has arrived.                        *)
Fairness == \A p \in Peer : WF_vars(Receive(p))

Spec == Init /\ [][Next]_vars /\ Fairness

-----------------------------------------------------------------------------
Frame ==
  [kind : {"request", "cancel"}, id : Id]
  \cup [kind : {"response"}, id : Id, value : {"ok", "error"}]
  \cup {Garbage}

Outcome == {"none", "ok", "error", "aborted", "timeout", "closed", "unsent"}
Verdict == {"none"} \cup Answers

TypeOK ==
  /\ quota \in [Peer -> Nat]
  /\ calls \in [Peer -> Nat]
  /\ \E start \in Quotas : \A p \in Peer : calls[p] + quota[p] = start[p]
  /\ pending \in [Peer -> SUBSET Id]
  /\ outcome \in [Peer -> [Id -> Outcome]]
  /\ listening \in [Peer -> SUBSET Id]
  /\ inFlight \in [Peer -> SUBSET Id]
  /\ running \in [Peer -> SUBSET Id]
  /\ aborted \in [Peer -> SUBSET Id]
  /\ verdict \in [Peer -> [Id -> Verdict]]
  /\ closed \in [Peer -> BOOLEAN]
  /\ stream \in [Peer -> Seq(Frame)]

(* Where a call of p may be while p waits for it.                          *)
Underway(p, frame) == frame \in ToSet(stream[p])

Answerable(p, id) ==
  LET q == Other[p]
  IN \/ Underway(q, RequestFrame(id))
     \/ id \in running[q]
     \/ \E value \in {"ok", "error"} : Underway(p, ResponseFrame(id, value))

(* A handler has finished whose answer could not be encoded.               *)
Unanswered(p, id) == verdict[Other[p]][id] = "unsendable"

(* A call that is still waited for is still going to be answered, unless   *)
(* the other end is gone, a stream is broken or its answer could not be    *)
(* encoded; what was answered in any other way waits for nothing, and      *)
(* nothing waits on a closed connection (connection.ts: "every pending     *)
(* request is settled"; the unsendable answer is the case where it is the  *)
(* caller's timeout or signal that must settle it).                        *)
PendingIsAnswerable ==
  \A p \in Peer, id \in Id : id \in pending[p] =>
    /\ ~closed[p]
    /\ \/ Answerable(p, id)
       \/ Unanswered(p, id)
       \/ closed[Other[p]] \/ Garbled(stream[p]) \/ Garbled(stream[Other[p]])

(* A caller is told what the handler of that very call answered, never the *)
(* answer to another one or to a call it gave up before.                   *)
AnswersMatch ==
  \A p \in Peer, id \in Id :
    outcome[p][id] \in {"ok", "error"} => verdict[Other[p]][id] = outcome[p][id]

GivenUp(p, id) == outcome[Other[p]][id] \in {"aborted", "timeout"}

StopsOwed(p) == {id \in running[p] \ aborted[p] : GivenUp(p, id) /\ ~closed[p]}

(* A handler is told to stop only when its caller gave up on it or its own *)
(* connection closed, although abort listeners outlive the calls and late  *)
(* cancellations keep arriving; and while one that was given up still runs,*)
(* the cancellation is on its way to it, behind the request.               *)
OnlyAbandonedWorkIsStopped ==
  \A p \in Peer :
    /\ \A id \in aborted[p] : closed[p] \/ GivenUp(p, id)
    /\ \A id \in StopsOwed(p) : Underway(p, CancelFrame(id)) \/ Garbled(stream[p])

(* Work nobody waits for is stopped: when a caller gives up on a call whose*)
(* handler runs, the handler is told so in the end, however late request   *)
(* and cancellation arrive, or its connection closes, which tells it too.  *)
AbandonedWorkIsStopped ==
  \A p \in Peer : StopsOwed(p) # {} ~> StopsOwed(p) = {}
=============================================================================

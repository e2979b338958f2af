------------------------ MODULE RpcConnectionProofs ------------------------
(***************************************************************************)
(* What two connected peers guarantee for every number of calls they make  *)
(* and every order in which frames, timeouts, cancellations and the ends   *)
(* of connections meet.  The invariant follows one call: what is known of  *)
(* it at the peer p that makes it, at the other end q, and on the streams  *)
(* between them.                                                           *)
(***************************************************************************)
EXTENDS RpcConnection, TLAPS

(* A call not made yet has left no trace.                                  *)
Untouched(p, id) ==
  /\ id \notin pending[p] \cup listening[p] /\ outcome[p][id] = "none"
  /\ id \notin running[Other[p]] \cup aborted[Other[p]]
  /\ verdict[Other[p]][id] = "none"
  /\ RequestFrame(id) \notin ToSet(stream[Other[p]])
  /\ CancelFrame(id) \notin ToSet(stream[Other[p]])

(* A call is pending until it is settled.                                  *)
Waited(p, id) ==
  /\ id > calls[p] => Untouched(p, id)
  /\ id \in pending[p] => outcome[p][id] = "none" /\ ~closed[p]
  /\ id <= calls[p] /\ outcome[p][id] = "none" => id \in pending[p]
  /\ outcome[p][id] = "closed" => closed[p]

(* A call whose handler runs was sent and has no answer yet.               *)
Handled(p, id) ==
  /\ id \in inFlight[Other[p]] => id \in running[Other[p]]
  /\ id \in running[Other[p]] =>
       /\ verdict[Other[p]][id] = "none" /\ outcome[p][id] # "unsent"
       /\ id \in inFlight[Other[p]] \/ closed[Other[p]]

(* A request on its way is not handled yet, and the cancellation of a call *)
(* given up follows it; an answer on its way is the handler's.             *)
Carried(p, id) ==
  /\ RequestFrame(id) \in ToSet(stream[Other[p]]) =>
       /\ id \notin running[Other[p]] /\ verdict[Other[p]][id] = "none" /\ outcome[p][id] # "unsent"
       /\ outcome[p][id] \in {"aborted", "timeout"} =>
            CancelFrame(id) \in ToSet(stream[Other[p]]) \/ Garbled(stream[Other[p]])
  /\ CancelFrame(id) \in ToSet(stream[Other[p]]) => outcome[p][id] \notin {"none", "closed"}
  /\ \A value \in {"ok", "error"} :
       ResponseFrame(id, value) \in ToSet(stream[p]) => verdict[Other[p]][id] = value

(* A handler told to stop was given up or lost its connection, and one     *)
(* given up is told to stop unless the cancellation is on its way.         *)
Stopped(p, id) ==
  /\ id \in aborted[Other[p]] => closed[Other[p]] \/ outcome[p][id] \in {"aborted", "timeout"}
  /\ /\ id \in running[Other[p]] \ aborted[Other[p]] /\ ~closed[Other[p]]
     /\ outcome[p][id] \in {"aborted", "timeout"}
     => CancelFrame(id) \in ToSet(stream[Other[p]]) \/ Garbled(stream[Other[p]])

(* A pending call will be answered unless that cannot be encoded, and a    *)
(* settled one was by its handler.                                         *)
Answered(p, id) ==
  /\ id \in pending[p] =>
       \/ RequestFrame(id) \in ToSet(stream[Other[p]]) \/ id \in running[Other[p]]
       \/ \E value \in {"ok", "error"} : ResponseFrame(id, value) \in ToSet(stream[p])
       \/ closed[Other[p]] \/ Garbled(stream[p]) \/ Garbled(stream[Other[p]])
       \/ verdict[Other[p]][id] = "unsendable"
  /\ outcome[p][id] \in {"ok", "error"} => verdict[Other[p]][id] = outcome[p][id]

Call(p, id) ==
  Waited(p, id) /\ Handled(p, id) /\ Carried(p, id) /\ Stopped(p, id) /\ Answered(p, id)

(* Nothing about a call comes before its request.                          *)
Orderly(frames) ==
  \A i, j \in DOMAIN frames, id \in Id :
    i < j /\ frames[j] = RequestFrame(id) => frames[i] \notin {RequestFrame(id), CancelFrame(id)}

IInv ==
  /\ TypeOK
  /\ \A p \in Peer : Orderly(stream[p])
  /\ \A p \in Peer, id \in Id : Call(p, id)
-----------------------------------------------------------------------------
LEMMA Ends ==
  \A p \in Peer : Other[p] \in Peer /\ Other[p] # p /\ Other[Other[p]] = p
  BY PeerAssumption

(* Ids are counted from one.                                               *)
LEMMA IdsAreCounts == \A id \in Id : id \in Nat /\ id > 0
  BY PeerAssumption DEF Id

(* The number the next call gets.                                          *)
LEMMA NextIdIsNew ==
  ASSUME TypeOK, NEW p \in Peer, MayCall(p)
  PROVE  calls[p] + 1 \in Id
<1>1. PICK start \in Quotas : calls[p] + quota[p] = start[p]
  BY DEF TypeOK
<1>2. calls[p] \in Nat /\ quota[p] \in Nat /\ quota[p] > 0 /\ start[p] \in Nat
  BY <1>1, PeerAssumption DEF TypeOK, MayCall
<1>3. calls[p] + 1 \in 1..start[p]
  BY <1>1, <1>2
<1> DEFINE ids == {1..bound[r] : bound \in Quotas, r \in Peer}
<1>4. 1..start[p] \in ids /\ Id = UNION ids
  BY <1>1 DEF Id
<1> HIDE DEF ids
<1> QED
  BY <1>3, <1>4

(* What a frame is about can be told from it.                              *)
LEMMA FramesDiffer ==
  /\ \A id \in Id : RequestFrame(id) \in Frame /\ CancelFrame(id) \in Frame
  /\ \A id \in Id, value \in {"ok", "error"} : ResponseFrame(id, value) \in Frame
  /\ Garbage \in Frame
  /\ \A a, b \in Id : /\ RequestFrame(a) = RequestFrame(b) => a = b
                      /\ CancelFrame(a) = CancelFrame(b) => a = b
                      /\ RequestFrame(a) # CancelFrame(b)
  /\ \A a, b \in Id, v, w \in {"ok", "error"} :
       /\ ResponseFrame(a, v) = ResponseFrame(b, w) => a = b /\ v = w
       /\ ResponseFrame(a, v) # RequestFrame(b) /\ ResponseFrame(a, v) # CancelFrame(b)
  /\ \A id \in Id : RequestFrame(id) # Garbage /\ CancelFrame(id) # Garbage
  /\ \A id \in Id, value \in {"ok", "error"} : ResponseFrame(id, value) # Garbage
<1>1. /\ \A id \in Id : RequestFrame(id) \in Frame /\ CancelFrame(id) \in Frame
      /\ \A id \in Id, value \in {"ok", "error"} : ResponseFrame(id, value) \in Frame
      /\ Garbage \in Frame
  BY DEF Frame, RequestFrame, CancelFrame, ResponseFrame, Garbage
<1>2. ASSUME NEW a, NEW b
      PROVE  /\ RequestFrame(a) = RequestFrame(b) => a = b
             /\ CancelFrame(a) = CancelFrame(b) => a = b
             /\ RequestFrame(a) # CancelFrame(b)
  <2>1. RequestFrame(a).id = a /\ CancelFrame(a).id = a /\ RequestFrame(b).id = b /\ CancelFrame(b).id = b
    BY DEF RequestFrame, CancelFrame
  <2>2. RequestFrame(a).kind = "request" /\ CancelFrame(b).kind = "cancel"
    BY DEF RequestFrame, CancelFrame
  <2> QED
    BY <2>1, <2>2
<1>3. ASSUME NEW a, NEW b, NEW v, NEW w
      PROVE  /\ ResponseFrame(a, v) = ResponseFrame(b, w) => a = b /\ v = w
             /\ ResponseFrame(a, v) # RequestFrame(b) /\ ResponseFrame(a, v) # CancelFrame(b)
  <2>1. /\ ResponseFrame(a, v).id = a /\ ResponseFrame(a, v).value = v /\ ResponseFrame(a, v).kind = "response"
        /\ ResponseFrame(b, w).id = b /\ ResponseFrame(b, w).value = w
    BY DEF ResponseFrame
  <2>2. RequestFrame(b).kind = "request" /\ CancelFrame(b).kind = "cancel"
    BY DEF RequestFrame, CancelFrame
  <2> QED
    BY <2>1, <2>2
<1>4. \A a, v : RequestFrame(a) # Garbage /\ CancelFrame(a) # Garbage /\ ResponseFrame(a, v) # Garbage
  <2> SUFFICES ASSUME NEW a, NEW v
               PROVE  RequestFrame(a) # Garbage /\ CancelFrame(a) # Garbage /\ ResponseFrame(a, v) # Garbage
    OBVIOUS
  <2>1. /\ RequestFrame(a).kind = "request" /\ CancelFrame(a).kind = "cancel"
        /\ ResponseFrame(a, v).kind = "response"
    BY DEF RequestFrame, CancelFrame, ResponseFrame
  <2>2. Garbage.kind = "garbage"
    BY DEF Garbage
  <2> QED
    BY <2>1, <2>2
<1> QED
  BY <1>1, <1>2, <1>3, <1>4

(* A frame put on a stream is the last one of it,                          *)
LEMMA PutAdds ==
  ASSUME NEW frames \in Seq(Frame), NEW frame \in Frame
  PROVE  /\ Put(frames, frame) \in Seq(Frame)
         /\ ToSet(frames) \subseteq ToSet(Put(frames, frame))
         /\ ToSet(Put(frames, frame)) \subseteq ToSet(frames) \cup {frame}
         /\ frame \in ToSet(Put(frames, frame)) \/ Garbled(Put(frames, frame))
<1>1. CASE Garbled(frames)
  BY <1>1 DEF Put
<1>2. CASE ~Garbled(frames)
  <2>1. Put(frames, frame) = Append(frames, frame)
    BY <1>2 DEF Put
  <2>2. ToSet(Append(frames, frame)) = ToSet(frames) \cup {frame}
    <3>1. Append(frames, frame)[Len(frames) + 1] = frame /\ Len(frames) + 1 \in DOMAIN Append(frames, frame)
      OBVIOUS
    <3>2. \A i \in DOMAIN frames : i \in DOMAIN Append(frames, frame) /\ Append(frames, frame)[i] = frames[i]
      OBVIOUS
    <3>3. \A i \in DOMAIN Append(frames, frame) : i \in DOMAIN frames \/ i = Len(frames) + 1
      OBVIOUS
    <3> QED
      BY <3>1, <3>2, <3>3 DEF ToSet
  <2> QED
    BY <2>1, <2>2
<1> QED
  BY <1>1, <1>2

(* and comes in order when it is newer than what it could overtake.        *)
LEMMA PutIsOrderly ==
  ASSUME NEW frames \in Seq(Frame), NEW frame \in Frame, Orderly(frames),
         \A id \in Id : frame = RequestFrame(id) =>
           RequestFrame(id) \notin ToSet(frames) /\ CancelFrame(id) \notin ToSet(frames)
  PROVE  Orderly(Put(frames, frame))
<1> SUFFICES ASSUME ~Garbled(frames), NEW i \in DOMAIN Append(frames, frame), NEW j \in DOMAIN Append(frames, frame),
                    NEW id \in Id, i < j, Append(frames, frame)[j] = RequestFrame(id)
             PROVE  Append(frames, frame)[i] \notin {RequestFrame(id), CancelFrame(id)}
  BY DEF Put, Orderly
<1>1. i \in 1..Len(frames) /\ Append(frames, frame)[i] = frames[i]
  OBVIOUS
<1>2. CASE j \in 1..Len(frames)
  <2>1. frames[j] = RequestFrame(id) /\ i \in DOMAIN frames /\ j \in DOMAIN frames
    BY <1>1, <1>2
  <2> QED
    BY <1>1, <2>1 DEF Orderly
<1>3. CASE j = Len(frames) + 1
  <2>1. frame = RequestFrame(id)
    BY <1>3
  <2>2. RequestFrame(id) \notin ToSet(frames) /\ CancelFrame(id) \notin ToSet(frames)
    BY <2>1
  <2> QED
    BY <1>1, <2>2 DEF ToSet
<1> QED
  BY <1>2, <1>3

(* A stream that was read from keeps the order of the rest.                *)
LEMMA TailKeeps ==
  ASSUME NEW frames \in Seq(Frame), frames # <<>>
  PROVE  /\ Tail(frames) \in Seq(Frame) /\ Head(frames) \in Frame
         /\ Head(frames) \in ToSet(frames)
         /\ ToSet(Tail(frames)) \subseteq ToSet(frames)
         /\ ToSet(frames) \subseteq ToSet(Tail(frames)) \cup {Head(frames)}
         /\ Orderly(frames) => Orderly(Tail(frames))
         /\ \A id \in Id : Orderly(frames) /\ Head(frames) \in {RequestFrame(id), CancelFrame(id)}
                             => RequestFrame(id) \notin ToSet(Tail(frames))
<1>1. /\ Tail(frames) \in Seq(Frame) /\ Head(frames) \in Frame /\ Head(frames) = frames[1]
      /\ DOMAIN Tail(frames) = 1..(Len(frames) - 1) /\ DOMAIN frames = 1..Len(frames)
      /\ \A i \in 1..(Len(frames) - 1) : Tail(frames)[i] = frames[i + 1]
      /\ 1 \in 1..Len(frames)
  OBVIOUS
<1>2. Head(frames) \in ToSet(frames)
  BY <1>1 DEF ToSet
<1>3. ToSet(Tail(frames)) \subseteq ToSet(frames)
  <2>1. \A i \in DOMAIN Tail(frames) : i + 1 \in DOMAIN frames /\ Tail(frames)[i] = frames[i + 1]
    BY <1>1
  <2> QED
    BY <2>1 DEF ToSet
<1>4. ToSet(frames) \subseteq ToSet(Tail(frames)) \cup {Head(frames)}
  <2> SUFFICES ASSUME NEW i \in DOMAIN frames, i # 1 PROVE frames[i] \in ToSet(Tail(frames))
    BY <1>1 DEF ToSet
  <2>1. i - 1 \in DOMAIN Tail(frames) /\ Tail(frames)[i - 1] = frames[i]
    BY <1>1
  <2> QED
    BY <2>1 DEF ToSet
<1>5. ASSUME Orderly(frames) PROVE Orderly(Tail(frames))
  <2> SUFFICES ASSUME NEW i \in DOMAIN Tail(frames), NEW j \in DOMAIN Tail(frames), NEW id \in Id,
                      i < j, Tail(frames)[j] = RequestFrame(id)
               PROVE  Tail(frames)[i] \notin {RequestFrame(id), CancelFrame(id)}
    BY DEF Orderly
  <2>1. i + 1 \in DOMAIN frames /\ j + 1 \in DOMAIN frames /\ i + 1 < j + 1
    BY <1>1
  <2>2. Tail(frames)[i] = frames[i + 1] /\ Tail(frames)[j] = frames[j + 1]
    BY <1>1
  <2> QED
    BY <1>5, <2>1, <2>2 DEF Orderly
<1>6. ASSUME NEW id \in Id, Orderly(frames), Head(frames) \in {RequestFrame(id), CancelFrame(id)}
      PROVE  RequestFrame(id) \notin ToSet(Tail(frames))
  <2> SUFFICES ASSUME NEW i \in 1..(Len(frames) - 1), frames[i + 1] = RequestFrame(id) PROVE FALSE
    BY <1>1 DEF ToSet
  <2>1. 1 \in DOMAIN frames /\ i + 1 \in DOMAIN frames /\ 1 < i + 1
    BY <1>1
  <2> QED
    BY <1>1, <1>6, <2>1 DEF Orderly
<1> QED
  BY <1>1, <1>2, <1>3, <1>4, <1>5, <1>6

(* What is sent on an open connection is under way,                        *)
LEMMA SentAdds ==
  ASSUME NEW streams \in [Peer -> Seq(Frame)], NEW r \in Peer, NEW frame \in Frame, NEW p \in Peer
  PROVE  /\ Sent(r, streams, frame) \in [Peer -> Seq(Frame)]
         /\ p # Other[r] \/ closed[r] => Sent(r, streams, frame)[p] = streams[p]
         /\ ToSet(streams[p]) \subseteq ToSet(Sent(r, streams, frame)[p])
         /\ ToSet(Sent(r, streams, frame)[p]) \subseteq ToSet(streams[p]) \cup {frame}
         /\ p = Other[r] /\ ~closed[r] =>
              frame \in ToSet(Sent(r, streams, frame)[p]) \/ Garbled(Sent(r, streams, frame)[p])
<1>1. streams[p] \in Seq(Frame) /\ Other[r] \in Peer /\ streams[Other[r]] \in Seq(Frame)
  BY Ends
<1>2. Put(streams[Other[r]], frame) \in Seq(Frame)
  BY <1>1, PutAdds
<1>3. Sent(r, streams, frame) \in [Peer -> Seq(Frame)]
  BY <1>1, <1>2 DEF Sent
<1>4. p # Other[r] \/ closed[r] => Sent(r, streams, frame)[p] = streams[p]
  BY <1>1 DEF Sent
<1>5. CASE p = Other[r] /\ ~closed[r]
  <2>1. Sent(r, streams, frame)[p] = Put(streams[p], frame)
    BY <1>1, <1>5 DEF Sent
  <2> QED
    BY <1>1, <1>3, <1>5, <2>1, PutAdds, SMTT(60)
<1> QED
  BY <1>3, <1>4, <1>5

(* in order.                                                               *)
LEMMA SentIsOrderly ==
  ASSUME NEW streams \in [Peer -> Seq(Frame)], NEW r \in Peer, NEW frame \in Frame,
         NEW p \in Peer, Orderly(streams[p]),
         p = Other[r] => \A id \in Id : frame = RequestFrame(id) =>
           RequestFrame(id) \notin ToSet(streams[p]) /\ CancelFrame(id) \notin ToSet(streams[p])
  PROVE  Orderly(Sent(r, streams, frame)[p])
<1>1. CASE p # Other[r] \/ closed[r]
  BY <1>1, SentAdds
<1>2. CASE p = Other[r] /\ ~closed[r]
  <2>1. Sent(r, streams, frame)[p] = Put(streams[p], frame) /\ streams[p] \in Seq(Frame)
    BY <1>2 DEF Sent
  <2>2. Orderly(Put(streams[p], frame))
    BY <1>2, <2>1, PutIsOrderly
  <2> QED
    BY <2>1, <2>2
<1> QED
  BY <1>1, <1>2

(* What a step that sends does to each stream.                             *)
LEMMA SendChanges ==
  ASSUME stream \in [Peer -> Seq(Frame)], NEW r \in Peer, NEW frame \in Frame, Send(r, frame)
  PROVE  /\ stream' \in [Peer -> Seq(Frame)]
         /\ \A p \in Peer :
              /\ p # Other[r] \/ closed[r] => stream'[p] = stream[p]
              /\ ToSet(stream[p]) \subseteq ToSet(stream'[p])
              /\ ToSet(stream'[p]) \subseteq ToSet(stream[p]) \cup {frame}
              /\ p = Other[r] /\ ~closed[r] => frame \in ToSet(stream'[p]) \/ Garbled(stream'[p])
<1>1. stream' = Sent(r, stream, frame)
  BY DEF Send
<1>2. stream' \in [Peer -> Seq(Frame)]
  BY <1>1, SentAdds
<1>3. ASSUME NEW p \in Peer
      PROVE  /\ p # Other[r] \/ closed[r] => stream'[p] = stream[p]
             /\ ToSet(stream[p]) \subseteq ToSet(stream'[p])
             /\ ToSet(stream'[p]) \subseteq ToSet(stream[p]) \cup {frame}
             /\ p = Other[r] /\ ~closed[r] => frame \in ToSet(stream'[p]) \/ Garbled(stream'[p])
  <2>1. p # Other[r] \/ closed[r] => stream'[p] = stream[p]
    BY <1>1, SentAdds
  <2>2. ToSet(stream[p]) \subseteq ToSet(stream'[p])
    BY <1>1, SentAdds
  <2>3. ToSet(stream'[p]) \subseteq ToSet(stream[p]) \cup {frame}
    BY <1>1, SentAdds
  <2>4. p = Other[r] /\ ~closed[r] => frame \in ToSet(stream'[p]) \/ Garbled(stream'[p])
    BY <1>1, SentAdds
  <2> QED
    BY <2>1, <2>2, <2>3, <2>4
<1> QED
  BY <1>2, <1>3

(* What a peer takes from its stream leaves the rest.                      *)
LEMMA TakenLeaves ==
  ASSUME stream \in [Peer -> Seq(Frame)], NEW r \in Peer, stream[r] # <<>>, NEW p \in Peer
  PROVE  LET taken == [stream EXCEPT ![r] = Tail(@)]
         IN /\ taken \in [Peer -> Seq(Frame)]
            /\ NextFrame(r) \in Frame /\ NextFrame(r) \in ToSet(stream[r])
            /\ p # r => taken[p] = stream[p]
            /\ ToSet(taken[p]) \subseteq ToSet(stream[p])
            /\ ToSet(stream[p]) \subseteq ToSet(taken[p]) \cup {NextFrame(r)}
            /\ Orderly(stream[p]) => Orderly(taken[p])
            /\ \A id \in Id : Orderly(stream[r]) /\ NextFrame(r) \in {RequestFrame(id), CancelFrame(id)}
                                => RequestFrame(id) \notin ToSet(taken[r])
<1> DEFINE taken == [stream EXCEPT ![r] = Tail(@)]
<1>1. stream[r] \in Seq(Frame)
  OBVIOUS
<1>2. /\ taken[r] = Tail(stream[r]) /\ Tail(stream[r]) \in Seq(Frame)
      /\ p # r => taken[p] = stream[p]
      /\ taken \in [Peer -> Seq(Frame)]
  BY <1>1, TailKeeps
<1> HIDE DEF taken
<1>3. NextFrame(r) \in Frame /\ NextFrame(r) \in ToSet(stream[r])
  BY <1>1, TailKeeps DEF NextFrame
<1>4. /\ ToSet(taken[r]) \subseteq ToSet(stream[r])
      /\ ToSet(stream[r]) \subseteq ToSet(taken[r]) \cup {NextFrame(r)}
  BY <1>1, <1>2, TailKeeps DEF NextFrame
<1>5. Orderly(stream[r]) => Orderly(taken[r])
  BY <1>1, <1>2, TailKeeps
<1>6. \A id \in Id : Orderly(stream[r]) /\ NextFrame(r) \in {RequestFrame(id), CancelFrame(id)}
                       => RequestFrame(id) \notin ToSet(taken[r])
  BY <1>1, <1>2, TailKeeps DEF NextFrame
<1> QED
  BY <1>2, <1>3, <1>4, <1>5, <1>6 DEF taken

(* Frames of different kinds are different frames.                         *)
LEMMA KindsTell ==
  ASSUME NEW f \in Frame
  PROVE  /\ f.kind = "request" => f.id \in Id /\ f = RequestFrame(f.id)
         /\ f.kind = "cancel" => f.id \in Id /\ f = CancelFrame(f.id)
         /\ f.kind = "response" =>
              f.id \in Id /\ f.value \in {"ok", "error"} /\ f = ResponseFrame(f.id, f.value)
         /\ f.kind = "garbage" => f = Garbage
  BY DEF Frame, RequestFrame, CancelFrame, ResponseFrame, Garbage

LEMMA RequestPreserves ==
  ASSUME IInv, NEW r \in Peer, Request(r)
  PROVE  IInv'
<1> DEFINE k == calls[r] + 1
<1>1. k \in Id /\ k > calls[r] /\ ~closed[r]
  BY NextIdIsNew DEF IInv, TypeOK, Request, Number, MayCall
<1>2. Untouched(r, k)
  BY <1>1 DEF IInv, Call, Waited
<1>3. /\ calls' = [calls EXCEPT ![r] = k] /\ quota' = [quota EXCEPT ![r] = @ - 1] /\ quota[r] > 0
      /\ pending' = [pending EXCEPT ![r] = @ \cup {k}]
      /\ listening' = [listening EXCEPT ![r] = @ \cup {k}]
      /\ Send(r, RequestFrame(k))
      /\ UNCHANGED <<outcome, inFlight, running, aborted, verdict, closed>>
  BY DEF Request, Number, MayCall, callee
<1> HIDE DEF k
<1>4. RequestFrame(k) \in Frame /\ stream \in [Peer -> Seq(Frame)]
  BY <1>1, FramesDiffer DEF IInv, TypeOK
<1>5. ASSUME NEW p \in Peer PROVE Orderly(stream'[p])
  <2>1. \A id \in Id : RequestFrame(k) = RequestFrame(id) => k = id
    BY <1>1, FramesDiffer
  <2> QED
    BY <1>2, <1>3, <1>4, <2>1, SentIsOrderly DEF IInv, Untouched, Send
<1>6. TypeOK'
  <2>1. quota' \in [Peer -> Nat] /\ calls' \in [Peer -> Nat]
    BY <1>1, <1>3 DEF IInv, TypeOK, k
  <2>2. \E start \in Quotas : \A p \in Peer : calls'[p] + quota'[p] = start[p]
    BY <1>3, <2>1 DEF IInv, TypeOK, k
  <2> QED
    BY <1>1, <1>3, <1>4, <2>1, <2>2, SendChanges DEF IInv, TypeOK
<1>7. ASSUME NEW p \in Peer, NEW id \in Id
      PROVE  Call(p, id)'
  <2>1. Other[p] \in Peer /\ Other[p] # p /\ (Other[p] = Other[r] <=> p = r) /\ Call(p, id)
    BY Ends DEF IInv
  <2>0. /\ stream'[p] = stream[p] \/ Other[p] = r
        /\ ToSet(stream[p]) \subseteq ToSet(stream'[p])
        /\ ToSet(stream'[p]) \subseteq ToSet(stream[p]) \cup {RequestFrame(k)}
        /\ stream'[Other[p]] = stream[Other[p]] \/ p = r
        /\ ToSet(stream[Other[p]]) \subseteq ToSet(stream'[Other[p]])
        /\ ToSet(stream'[Other[p]]) \subseteq ToSet(stream[Other[p]]) \cup {RequestFrame(k)}
        /\ p = r => RequestFrame(k) \in ToSet(stream'[Other[p]]) \/ Garbled(stream'[Other[p]])
    BY <1>1, <1>3, <1>4, <2>1, Ends, SendChanges
  <2>2. /\ CancelFrame(id) # RequestFrame(k) /\ (RequestFrame(id) = RequestFrame(k) => id = k)
        /\ \A value \in {"ok", "error"} : ResponseFrame(id, value) # RequestFrame(k)
        /\ Garbage # RequestFrame(k)
    BY <1>1, FramesDiffer
  <2>3. Waited(p, id)'
    <3>1. id > calls'[p] => id > calls[p] /\ ~(p = r /\ id = k)
      BY <1>1, <1>3, IdsAreCounts DEF IInv, TypeOK, k
    <3>2. id > calls'[p] => Untouched(p, id)'
      BY <1>3, <2>0, <2>1, <2>2, <3>1 DEF IInv, TypeOK, Call, Waited, Untouched
    <3>3. id <= calls'[p] => id <= calls[p] \/ (p = r /\ id = k)
      BY <1>1, <1>3, IdsAreCounts DEF IInv, TypeOK, k
    <3> QED
      BY <1>1, <1>2, <1>3, <2>1, <3>2, <3>3 DEF IInv, TypeOK, Call, Waited, Untouched
  <2>4. Handled(p, id)'
    BY <1>3, <2>1 DEF IInv, TypeOK, Call, Handled
  <2>5. Carried(p, id)'
    <3>1. /\ RequestFrame(id) \in ToSet(stream'[Other[p]]) =>
               RequestFrame(id) \in ToSet(stream[Other[p]]) \/ (p = r /\ id = k)
          /\ CancelFrame(id) \in ToSet(stream'[Other[p]]) => CancelFrame(id) \in ToSet(stream[Other[p]])
      BY <2>0, <2>1, <2>2
    <3>2. \A value \in {"ok", "error"} :
            ResponseFrame(id, value) \in ToSet(stream'[p]) => ResponseFrame(id, value) \in ToSet(stream[p])
      BY <2>0, <2>1, <2>2
    <3>3. ToSet(stream[Other[p]]) \subseteq ToSet(stream'[Other[p]])
      BY <2>0, <2>1
    <3> QED
      BY <1>2, <1>3, <2>1, <3>1, <3>2, <3>3 DEF Call, Carried, Untouched, Garbled
  <2>6. Stopped(p, id)'
    BY <1>2, <1>3, <2>0, <2>1, <2>2 DEF IInv, TypeOK, Call, Stopped, Untouched, Garbled
  <2>7. Answered(p, id)'
    BY <1>2, <1>3, <2>0, <2>1, <2>2 DEF IInv, TypeOK, Call, Answered, Untouched, Garbled
  <2> QED
    BY <2>3, <2>4, <2>5, <2>6, <2>7 DEF Call
<1> QED
  BY <1>5, <1>6, <1>7 DEF IInv

(* Of a call aborted before it is made only the cancellation is sent,      *)
LEMMA RequestAbortedPreserves ==
  ASSUME IInv, NEW r \in Peer, RequestAborted(r)
  PROVE  IInv'
<1> DEFINE k == calls[r] + 1
<1>1. k \in Id /\ k > calls[r] /\ ~closed[r]
  BY NextIdIsNew DEF IInv, TypeOK, RequestAborted, Number, MayCall
<1>2. Untouched(r, k)
  BY <1>1 DEF IInv, Call, Waited
<1>3. /\ calls' = [calls EXCEPT ![r] = k] /\ quota' = [quota EXCEPT ![r] = @ - 1] /\ quota[r] > 0
      /\ outcome' = [outcome EXCEPT ![r][k] = "aborted"]
      /\ Send(r, CancelFrame(k))
      /\ UNCHANGED <<pending, listening, inFlight, running, aborted, verdict, closed>>
  BY DEF RequestAborted, Number, MayCall, callee
<1> HIDE DEF k
<1>4. CancelFrame(k) \in Frame /\ stream \in [Peer -> Seq(Frame)]
  BY <1>1, FramesDiffer DEF IInv, TypeOK
<1>5. ASSUME NEW p \in Peer PROVE Orderly(stream'[p])
  <2>1. \A id \in Id : CancelFrame(k) # RequestFrame(id)
    BY <1>1, FramesDiffer
  <2> QED
    BY <1>3, <1>4, <2>1, SentIsOrderly DEF IInv, Send
<1>6. TypeOK'
  <2>1. quota' \in [Peer -> Nat] /\ calls' \in [Peer -> Nat]
    BY <1>1, <1>3 DEF IInv, TypeOK, k
  <2>2. \E start \in Quotas : \A p \in Peer : calls'[p] + quota'[p] = start[p]
    BY <1>3, <2>1 DEF IInv, TypeOK, k
  <2>3. outcome' \in [Peer -> [Id -> Outcome]]
    BY <1>1, <1>3 DEF IInv, TypeOK, Outcome
  <2> QED
    BY <1>1, <1>3, <1>4, <2>1, <2>2, <2>3, SendChanges DEF IInv, TypeOK
<1>7. ASSUME NEW p \in Peer, NEW id \in Id
      PROVE  Call(p, id)'
  <2>1. Other[p] \in Peer /\ Other[p] # p /\ (Other[p] = Other[r] <=> p = r) /\ Call(p, id)
    BY Ends DEF IInv
  <2>0. /\ stream'[p] = stream[p] \/ Other[p] = r
        /\ ToSet(stream[p]) \subseteq ToSet(stream'[p])
        /\ ToSet(stream'[p]) \subseteq ToSet(stream[p]) \cup {CancelFrame(k)}
        /\ stream'[Other[p]] = stream[Other[p]] \/ p = r
        /\ ToSet(stream[Other[p]]) \subseteq ToSet(stream'[Other[p]])
        /\ ToSet(stream'[Other[p]]) \subseteq ToSet(stream[Other[p]]) \cup {CancelFrame(k)}
        /\ p = r /\ ~closed[r] => CancelFrame(k) \in ToSet(stream'[Other[p]]) \/ Garbled(stream'[Other[p]])
    BY <1>3, <1>4, <2>1, Ends, SendChanges
  <2>2. /\ (CancelFrame(id) = CancelFrame(k) => id = k) /\ RequestFrame(id) # CancelFrame(k)
        /\ \A value \in {"ok", "error"} : ResponseFrame(id, value) # CancelFrame(k)
        /\ Garbage # CancelFrame(k)
    BY <1>1, FramesDiffer
  <2>a. outcome'[p][id] = IF p = r /\ id = k THEN "aborted" ELSE outcome[p][id]
    BY <1>3 DEF IInv, TypeOK
  <2>3. Waited(p, id)'
    <3>1. id > calls'[p] => id > calls[p] /\ ~(p = r /\ id = k)
      BY <1>1, <1>3, IdsAreCounts DEF IInv, TypeOK, k
    <3>2. id > calls'[p] => Untouched(p, id)'
      BY <1>3, <2>0, <2>1, <2>2, <2>a, <3>1 DEF Call, Waited, Untouched
    <3>3. id <= calls'[p] => id <= calls[p] \/ (p = r /\ id = k)
      BY <1>1, <1>3, IdsAreCounts DEF IInv, TypeOK, k
    <3> QED
      BY <1>1, <1>2, <1>3, <2>1, <2>a, <3>2, <3>3 DEF Call, Waited, Untouched
  <2>4. Handled(p, id)'
    BY <1>3, <2>1, <2>a DEF Call, Handled
  <2>5. Carried(p, id)'
    BY <1>1, <1>2, <1>3, <2>0, <2>1, <2>2, <2>a DEF Call, Carried, Untouched, Garbled
  <2>6. Stopped(p, id)'
    BY <1>1, <1>2, <1>3, <2>0, <2>1, <2>2, <2>a DEF Call, Stopped, Untouched, Garbled
  <2>7. Answered(p, id)'
    BY <1>1, <1>2, <1>3, <2>0, <2>1, <2>2, <2>a DEF Call, Answered, Untouched, Garbled
  <2> QED
    BY <2>3, <2>4, <2>5, <2>6, <2>7 DEF Call
<1> QED
  BY <1>5, <1>6, <1>7 DEF IInv

(* and of one that cannot be encoded nothing.                              *)
LEMMA RequestUnsentPreserves ==
  ASSUME IInv, NEW r \in Peer, RequestUnsent(r)
  PROVE  IInv'
<1> DEFINE k == calls[r] + 1
<1>1. k \in Id /\ k > calls[r] /\ ~closed[r]
  BY NextIdIsNew DEF IInv, TypeOK, RequestUnsent, Number, MayCall
<1>2. Untouched(r, k)
  BY <1>1 DEF IInv, Call, Waited
<1>3. /\ calls' = [calls EXCEPT ![r] = k] /\ quota' = [quota EXCEPT ![r] = @ - 1] /\ quota[r] > 0
      /\ outcome' = [outcome EXCEPT ![r][k] = "unsent"]
      /\ listening' = [listening EXCEPT ![r] = @ \cup {k}]
      /\ UNCHANGED <<pending, inFlight, running, aborted, verdict, closed, stream>>
  BY DEF RequestUnsent, Number, MayCall, callee
<1> HIDE DEF k
<1>5. ASSUME NEW p \in Peer PROVE Orderly(stream'[p])
  BY <1>3 DEF IInv
<1>6. TypeOK'
  <2>1. quota' \in [Peer -> Nat] /\ calls' \in [Peer -> Nat]
    BY <1>1, <1>3 DEF IInv, TypeOK, k
  <2>2. \E start \in Quotas : \A p \in Peer : calls'[p] + quota'[p] = start[p]
    BY <1>3, <2>1 DEF IInv, TypeOK, k
  <2>3. outcome' \in [Peer -> [Id -> Outcome]] /\ listening' \in [Peer -> SUBSET Id]
    BY <1>1, <1>3 DEF IInv, TypeOK, Outcome
  <2> QED
    BY <1>1, <1>3, <2>1, <2>2, <2>3 DEF IInv, TypeOK
<1>7. ASSUME NEW p \in Peer, NEW id \in Id
      PROVE  Call(p, id)'
  <2>1. Other[p] \in Peer /\ Other[p] # p /\ (Other[p] = Other[r] <=> p = r) /\ Call(p, id)
    BY Ends DEF IInv
  <2>a. /\ outcome'[p][id] = IF p = r /\ id = k THEN "unsent" ELSE outcome[p][id]
        /\ id \in listening'[p] <=> id \in listening[p] \/ (p = r /\ id = k)
    BY <1>3 DEF IInv, TypeOK
  <2>3. Waited(p, id)'
    <3>1. id > calls'[p] => id > calls[p] /\ ~(p = r /\ id = k)
      BY <1>1, <1>3, IdsAreCounts DEF IInv, TypeOK, k
    <3>2. id > calls'[p] => Untouched(p, id)'
      BY <1>3, <2>1, <2>a, <3>1 DEF Call, Waited, Untouched
    <3>3. id <= calls'[p] => id <= calls[p] \/ (p = r /\ id = k)
      BY <1>1, <1>3, IdsAreCounts DEF IInv, TypeOK, k
    <3> QED
      BY <1>1, <1>2, <1>3, <2>1, <2>a, <3>2, <3>3 DEF Call, Waited, Untouched
  <2>4. Handled(p, id)'
    BY <1>2, <1>3, <2>1, <2>a DEF Call, Handled, Untouched
  <2>5. Carried(p, id)'
    BY <1>2, <1>3, <2>1, <2>a DEF Call, Carried, Untouched
  <2>6. Stopped(p, id)'
    BY <1>2, <1>3, <2>1, <2>a DEF Call, Stopped, Untouched
  <2>7. Answered(p, id)'
    BY <1>2, <1>3, <2>1, <2>a DEF Call, Answered, Untouched
  <2> QED
    BY <2>3, <2>4, <2>5, <2>6, <2>7 DEF Call
<1> QED
  BY <1>5, <1>6, <1>7 DEF IInv

(* A call given up: its caller says so, and it is settled if it was        *)
(* pending.                                                                *)
LEMMA GivingUpPreserves ==
  ASSUME IInv, NEW r \in Peer, NEW k \in Id, NEW result \in {"aborted", "timeout"},
         k \in listening[r] \cup pending[r], Send(r, CancelFrame(k)), Settle(r, k, result),
         listening' \in [Peer -> SUBSET Id],
         \A p \in Peer : listening'[p] \subseteq listening[p],
         UNCHANGED <<quota, calls, inFlight, running, aborted, verdict, closed>>
  PROVE  IInv'
<1>1. ~Untouched(r, k) /\ (k \in pending[r] => outcome[r][k] = "none" /\ ~closed[r])
  BY DEF IInv, Call, Waited, Untouched
<1>2. ~(k > calls[r]) /\ k <= calls[r] /\ (outcome[r][k] = "none" => k \in pending[r])
  BY <1>1, IdsAreCounts DEF IInv, TypeOK, Call, Waited
<1>3. /\ pending' = [pending EXCEPT ![r] = @ \ {k}]
      /\ outcome' = IF k \in pending[r] THEN [outcome EXCEPT ![r][k] = result] ELSE outcome
  BY DEF Settle
<1>4. CancelFrame(k) \in Frame /\ stream \in [Peer -> Seq(Frame)]
  BY FramesDiffer DEF IInv, TypeOK
<1>5. ASSUME NEW p \in Peer PROVE Orderly(stream'[p])
  <2>1. \A id \in Id : CancelFrame(k) # RequestFrame(id)
    BY FramesDiffer
  <2> QED
    BY <1>4, <2>1, SentIsOrderly DEF IInv, Send
<1>6. TypeOK'
  <2>1. outcome' \in [Peer -> [Id -> Outcome]]
    BY <1>3 DEF IInv, TypeOK, Outcome
  <2>2. pending' \in [Peer -> SUBSET Id]
    BY <1>3 DEF IInv, TypeOK
  <2> QED
    BY <1>4, <2>1, <2>2, SendChanges DEF IInv, TypeOK
<1>7. ASSUME NEW p \in Peer, NEW id \in Id
      PROVE  Call(p, id)'
  <2>1. Other[p] \in Peer /\ Other[p] # p /\ (Other[p] = Other[r] <=> p = r) /\ Call(p, id)
    BY Ends DEF IInv
  <2>0. /\ stream'[p] = stream[p] \/ Other[p] = r
        /\ ToSet(stream[p]) \subseteq ToSet(stream'[p])
        /\ ToSet(stream'[p]) \subseteq ToSet(stream[p]) \cup {CancelFrame(k)}
        /\ stream'[Other[p]] = stream[Other[p]] \/ (p = r /\ ~closed[r])
        /\ ToSet(stream[Other[p]]) \subseteq ToSet(stream'[Other[p]])
        /\ ToSet(stream'[Other[p]]) \subseteq ToSet(stream[Other[p]]) \cup {CancelFrame(k)}
        /\ p = r /\ ~closed[r] => CancelFrame(k) \in ToSet(stream'[Other[p]]) \/ Garbled(stream'[Other[p]])
    BY <1>4, <2>1, Ends, SendChanges
  <2>2. /\ (CancelFrame(id) = CancelFrame(k) => id = k) /\ RequestFrame(id) # CancelFrame(k)
        /\ \A value \in {"ok", "error"} : ResponseFrame(id, value) # CancelFrame(k)
        /\ Garbage # CancelFrame(k)
    BY FramesDiffer
  <2>a. /\ outcome'[p][id] = IF p = r /\ id = k /\ k \in pending[r] THEN result ELSE outcome[p][id]
        /\ id \in pending'[p] <=> id \in pending[p] /\ ~(p = r /\ id = k)
    BY <1>3 DEF IInv, TypeOK
  <2>3. Waited(p, id)'
    <3>1. id > calls[p] => ~(p = r /\ id = k)
      BY <1>2
    <3>2. id > calls'[p] => Untouched(p, id)'
      BY <2>0, <2>1, <2>2, <2>a, <3>1 DEF Call, Waited, Untouched
    <3> QED
      BY <1>1, <2>1, <2>a, <3>2 DEF Call, Waited
  <2>4. Handled(p, id)'
    BY <1>1, <2>1, <2>a DEF Call, Handled
  <2>5. Carried(p, id)'
    BY <1>1, <1>2, <2>0, <2>1, <2>2, <2>a DEF Call, Carried, Waited, Garbled
  <2>6. Stopped(p, id)'
    BY <1>1, <2>0, <2>1, <2>2, <2>a DEF Call, Stopped, Garbled
  <2>7. Answered(p, id)'
    BY <1>1, <2>0, <2>1, <2>2, <2>a DEF Call, Answered, Garbled
  <2> QED
    BY <2>3, <2>4, <2>5, <2>6, <2>7 DEF Call
<1> QED
  BY <1>5, <1>6, <1>7 DEF IInv

(* A connection that closes settles what it waits for and stops what it    *)
(* runs.                                                                   *)
LEMMA DisposePreserves ==
  ASSUME IInv, NEW r \in Peer, Dispose(r), UNCHANGED <<quota, calls, listening, running, verdict, stream>>
  PROVE  IInv'
<1>1. /\ ~closed[r] /\ closed' = [closed EXCEPT ![r] = TRUE]
      /\ outcome' = [outcome EXCEPT ![r] = [id \in Id |-> IF id \in pending[r] THEN "closed" ELSE @[id]]]
      /\ pending' = [pending EXCEPT ![r] = {}]
      /\ aborted' = [aborted EXCEPT ![r] = @ \cup inFlight[r]]
      /\ inFlight' = [inFlight EXCEPT ![r] = {}]
  BY DEF Dispose
<1>5. ASSUME NEW p \in Peer PROVE Orderly(stream'[p])
  BY DEF IInv
<1>6. TypeOK'
  <2>1. outcome' \in [Peer -> [Id -> Outcome]]
    BY <1>1 DEF IInv, TypeOK, Outcome
  <2>2. pending' \in [Peer -> SUBSET Id] /\ aborted' \in [Peer -> SUBSET Id] /\ inFlight' \in [Peer -> SUBSET Id]
    BY <1>1 DEF IInv, TypeOK
  <2>3. closed' \in [Peer -> BOOLEAN]
    BY <1>1 DEF IInv, TypeOK
  <2> QED
    BY <2>1, <2>2, <2>3 DEF IInv, TypeOK
<1>7. ASSUME NEW p \in Peer, NEW id \in Id
      PROVE  Call(p, id)'
  <2>1. Other[p] \in Peer /\ Other[p] # p /\ (Other[p] = Other[r] <=> p = r) /\ Call(p, id)
    BY Ends DEF IInv
  <2>a. /\ outcome'[p][id] = IF p = r /\ id \in pending[r] THEN "closed" ELSE outcome[p][id]
        /\ id \in pending'[p] <=> id \in pending[p] /\ p # r
        /\ \A q \in Peer : closed'[q] <=> closed[q] \/ q = r
        /\ id \in inFlight'[Other[p]] <=> id \in inFlight[Other[p]] /\ Other[p] # r
        /\ id \in aborted'[Other[p]] <=> id \in aborted[Other[p]] \/ (Other[p] = r /\ id \in inFlight[r])
    BY <1>1, <2>1 DEF IInv, TypeOK
  <2>3. Waited(p, id)'
    <3>1. Untouched(p, id) => Untouched(p, id)'
      BY <2>1, <2>a DEF Call, Handled, Untouched
    <3> QED
      BY <2>1, <2>a, <3>1 DEF Call, Waited
  <2>4. Handled(p, id)'
    BY <2>1, <2>a DEF Call, Handled
  <2>5. Carried(p, id)'
    BY <1>1, <2>1, <2>a DEF Call, Carried, Waited
  <2>6. Stopped(p, id)'
    BY <2>1, <2>a DEF Call, Stopped, Waited
  <2>7. Answered(p, id)'
    BY <2>1, <2>a DEF Call, Answered
  <2> QED
    BY <2>3, <2>4, <2>5, <2>6, <2>7 DEF Call
<1> QED
  BY <1>5, <1>6, <1>7 DEF IInv

(* What a step that takes a frame does to each stream.                     *)
LEMMA TakeChanges ==
  ASSUME stream \in [Peer -> Seq(Frame)], NEW r \in Peer, stream[r] # <<>>, Consume(r)
  PROVE  /\ stream' \in [Peer -> Seq(Frame)]
         /\ \A p \in Peer :
              /\ p # r => stream'[p] = stream[p]
              /\ ToSet(stream'[p]) \subseteq ToSet(stream[p])
              /\ ToSet(stream[p]) \subseteq ToSet(stream'[p]) \cup {NextFrame(r)}
              /\ Orderly(stream[p]) => Orderly(stream'[p])
<1>1. stream' = [stream EXCEPT ![r] = Tail(@)]
  BY DEF Consume
<1>2. stream' \in [Peer -> Seq(Frame)]
  BY <1>1, TakenLeaves
<1>3. ASSUME NEW p \in Peer
      PROVE  /\ p # r => stream'[p] = stream[p]
             /\ ToSet(stream'[p]) \subseteq ToSet(stream[p])
             /\ ToSet(stream[p]) \subseteq ToSet(stream'[p]) \cup {NextFrame(r)}
             /\ Orderly(stream[p]) => Orderly(stream'[p])
  <2>1. p # r => stream'[p] = stream[p]
    BY <1>1
  <2>2. ToSet(stream'[p]) \subseteq ToSet(stream[p])
    BY <1>1, TakenLeaves
  <2>3. ToSet(stream[p]) \subseteq ToSet(stream'[p]) \cup {NextFrame(r)}
    BY <1>1, TakenLeaves
  <2>4. Orderly(stream[p]) => Orderly(stream'[p])
    BY <1>1, TakenLeaves
  <2> QED
    BY <2>1, <2>2, <2>3, <2>4
<1> QED
  BY <1>2, <1>3

(* A response settles the call it answers, if it still waits.              *)
LEMMA SettleResponsePreserves ==
  ASSUME IInv, NEW r \in Peer, SettleResponse(r)
  PROVE  IInv'
<1> DEFINE k == NextFrame(r).id
           v == NextFrame(r).value
<1>1. stream \in [Peer -> Seq(Frame)] /\ stream[r] # <<>> /\ NextFrame(r).kind = "response"
  BY DEF IInv, TypeOK, SettleResponse, Arrives
<1>2. /\ k \in Id /\ v \in {"ok", "error"} /\ NextFrame(r) = ResponseFrame(k, v)
      /\ NextFrame(r) \in ToSet(stream[r])
  BY <1>1, TakenLeaves, KindsTell
<1>3. /\ pending' = [pending EXCEPT ![r] = @ \ {k}]
      /\ outcome' = IF k \in pending[r] THEN [outcome EXCEPT ![r][k] = v] ELSE outcome
      /\ Consume(r)
      /\ UNCHANGED <<quota, calls, listening, inFlight, running, aborted, verdict, closed>>
  BY DEF SettleResponse, Settle, callee
<1> HIDE DEF k, v
<1>4. verdict[Other[r]][k] = v /\ (k \in pending[r] => outcome[r][k] = "none")
  BY <1>2 DEF IInv, Call, Carried, Waited
<1>5. ASSUME NEW p \in Peer PROVE Orderly(stream'[p])
  BY <1>1, <1>3, TakeChanges DEF IInv
<1>6. TypeOK'
  <2>1. outcome' \in [Peer -> [Id -> Outcome]]
    BY <1>2, <1>3 DEF IInv, TypeOK, Outcome
  <2>2. pending' \in [Peer -> SUBSET Id]
    BY <1>3 DEF IInv, TypeOK
  <2> QED
    BY <1>1, <1>3, <2>1, <2>2, TakeChanges DEF IInv, TypeOK
<1>7. ASSUME NEW p \in Peer, NEW id \in Id
      PROVE  Call(p, id)'
  <2>1. Other[p] \in Peer /\ Other[p] # p /\ (Other[p] = Other[r] <=> p = r) /\ Call(p, id)
    BY Ends DEF IInv
  <2>0. /\ \A q \in Peer : ToSet(stream'[q]) \subseteq ToSet(stream[q])
        /\ \A q \in Peer : ToSet(stream[q]) \subseteq ToSet(stream'[q]) \cup {ResponseFrame(k, v)}
        /\ p # r => stream'[p] = stream[p]
    BY <1>1, <1>2, <1>3, TakeChanges
  <2>2. /\ CancelFrame(id) # ResponseFrame(k, v) /\ RequestFrame(id) # ResponseFrame(k, v)
        /\ \A value \in {"ok", "error"} : ResponseFrame(id, value) = ResponseFrame(k, v) => id = k
        /\ Garbage # ResponseFrame(k, v)
    BY <1>2, FramesDiffer
  <2>a. /\ outcome'[p][id] = IF p = r /\ id = k /\ k \in pending[r] THEN v ELSE outcome[p][id]
        /\ id \in pending'[p] <=> id \in pending[p] /\ ~(p = r /\ id = k)
    BY <1>2, <1>3 DEF IInv, TypeOK
  <2>3. Waited(p, id)'
    <3>1. id > calls[p] => ~(p = r /\ id = k)
      BY <1>2, <1>4 DEF IInv, Call, Waited, Untouched
    <3>2. id > calls'[p] => Untouched(p, id)'
      BY <1>3, <2>0, <2>1, <2>2, <2>a, <3>1 DEF Call, Waited, Untouched
    <3>3. p = r /\ id = k /\ k \in pending[r] => outcome'[p][id] \notin {"none", "closed"}
      BY <1>2, <2>a
    <3>4. p = r /\ id = k /\ k \notin pending[r] => outcome'[p][id] = outcome[p][id] /\ id \notin pending[p]
      BY <2>a
    <3> QED
      BY <1>3, <2>1, <2>a, <3>2, <3>3, <3>4 DEF Call, Waited
  <2>4. Handled(p, id)'
    BY <1>2, <1>3, <2>1, <2>a DEF Call, Handled
  <2>5. Carried(p, id)'
    BY <1>2, <1>3, <1>4, <2>0, <2>1, <2>2, <2>a DEF Call, Carried, Waited, Garbled
  <2>6. Stopped(p, id)'
    BY <1>2, <1>3, <1>4, <2>0, <2>1, <2>2, <2>a DEF Call, Stopped, Garbled
  <2>7. Answered(p, id)'
    BY <1>2, <1>3, <1>4, <2>0, <2>1, <2>2, <2>a DEF Call, Answered, Garbled
  <2> QED
    BY <2>3, <2>4, <2>5, <2>6, <2>7 DEF Call
<1> QED
  BY <1>5, <1>6, <1>7 DEF IInv

(* A request starts its handler.                                           *)
LEMMA StartHandlerPreserves ==
  ASSUME IInv, NEW r \in Peer, StartHandler(r)
  PROVE  IInv'
<1> DEFINE k == NextFrame(r).id
<1>1. stream \in [Peer -> Seq(Frame)] /\ stream[r] # <<>> /\ NextFrame(r).kind = "request"
  BY DEF IInv, TypeOK, StartHandler, Arrives
<1>2. k \in Id /\ NextFrame(r) = RequestFrame(k) /\ NextFrame(r) \in ToSet(stream[r])
  BY <1>1, TakenLeaves, KindsTell
<1>3. /\ inFlight' = [inFlight EXCEPT ![r] = @ \cup {k}]
      /\ running' = [running EXCEPT ![r] = @ \cup {k}]
      /\ Consume(r)
      /\ UNCHANGED <<quota, calls, pending, outcome, listening, aborted, verdict, closed>>
  BY DEF StartHandler, caller
<1> HIDE DEF k
<1>4. Other[r] \in Peer /\ Other[Other[r]] = r /\ Call(Other[r], k)
  BY <1>2, Ends DEF IInv
<1>5. ASSUME NEW p \in Peer PROVE Orderly(stream'[p])
  BY <1>1, <1>3, TakeChanges DEF IInv
<1>6. TypeOK'
  <2>1. inFlight' \in [Peer -> SUBSET Id] /\ running' \in [Peer -> SUBSET Id]
    BY <1>2, <1>3 DEF IInv, TypeOK
  <2> QED
    BY <1>1, <1>3, <2>1, TakeChanges DEF IInv, TypeOK
<1>8. RequestFrame(k) \notin ToSet(stream'[r])
  BY <1>1, <1>2, <1>3, TakenLeaves DEF IInv, Consume
<1>7. ASSUME NEW p \in Peer, NEW id \in Id
      PROVE  Call(p, id)'
  <2>1. Other[p] \in Peer /\ Other[p] # p /\ (Other[p] = Other[r] <=> p = r) /\ Call(p, id)
    BY Ends DEF IInv
  <2>0. /\ \A q \in Peer : ToSet(stream'[q]) \subseteq ToSet(stream[q])
        /\ \A q \in Peer : ToSet(stream[q]) \subseteq ToSet(stream'[q]) \cup {RequestFrame(k)}
        /\ Other[p] # r => stream'[Other[p]] = stream[Other[p]]
    BY <1>1, <1>2, <1>3, <2>1, TakeChanges
  <2>2. /\ CancelFrame(id) # RequestFrame(k) /\ (RequestFrame(id) = RequestFrame(k) => id = k)
        /\ \A value \in {"ok", "error"} : ResponseFrame(id, value) # RequestFrame(k)
        /\ Garbage # RequestFrame(k)
    BY <1>2, FramesDiffer
  <2>a. /\ id \in inFlight'[Other[p]] <=> id \in inFlight[Other[p]] \/ (Other[p] = r /\ id = k)
        /\ id \in running'[Other[p]] <=> id \in running[Other[p]] \/ (Other[p] = r /\ id = k)
    BY <1>3, <2>1 DEF IInv, TypeOK
  <2>b. Other[p] = r /\ id = k =>
          /\ RequestFrame(id) \in ToSet(stream[Other[p]])
          /\ RequestFrame(id) \notin ToSet(stream'[Other[p]])
    BY <1>2, <1>8
  <2>3. Waited(p, id)'
    <3>1. id > calls[p] => ~(Other[p] = r /\ id = k)
      BY <2>1, <2>b DEF Call, Waited, Untouched
    <3>2. id > calls'[p] => Untouched(p, id)'
      BY <1>3, <2>0, <2>1, <2>2, <2>a, <3>1 DEF Call, Waited, Untouched
    <3> QED
      BY <1>3, <2>1, <3>2 DEF Call, Waited
  <2>4. Handled(p, id)'
    BY <1>3, <2>1, <2>a, <2>b DEF Call, Handled, Carried
  <2>5. Carried(p, id)'
    BY <1>3, <2>0, <2>1, <2>2, <2>a, <2>b DEF Call, Carried, Garbled
  <2>6. Stopped(p, id)'
    BY <1>3, <2>0, <2>1, <2>2, <2>a, <2>b DEF Call, Stopped, Carried, Garbled
  <2>7. Answered(p, id)'
    BY <1>3, <2>0, <2>1, <2>2, <2>a, <2>b DEF Call, Answered, Garbled
  <2> QED
    BY <2>3, <2>4, <2>5, <2>6, <2>7 DEF Call
<1> QED
  BY <1>5, <1>6, <1>7 DEF IInv

(* A cancellation reaches the handler it names.                            *)
LEMMA AbortHandlerPreserves ==
  ASSUME IInv, NEW r \in Peer, AbortHandler(r)
  PROVE  IInv'
<1> DEFINE k == NextFrame(r).id
<1>1. stream \in [Peer -> Seq(Frame)] /\ stream[r] # <<>> /\ NextFrame(r).kind = "cancel"
  BY DEF IInv, TypeOK, AbortHandler, Arrives
<1>2. k \in Id /\ NextFrame(r) = CancelFrame(k) /\ NextFrame(r) \in ToSet(stream[r])
  BY <1>1, TakenLeaves, KindsTell
<1>3. /\ aborted' = [aborted EXCEPT ![r] = @ \cup ({k} \cap inFlight[r])]
      /\ Consume(r)
      /\ UNCHANGED <<quota, calls, pending, outcome, listening, inFlight, running, verdict, closed>>
  BY DEF AbortHandler, caller
<1> HIDE DEF k
<1>4. Other[r] \in Peer /\ Other[Other[r]] = r /\ Call(Other[r], k)
  BY <1>2, Ends DEF IInv
<1>5. ASSUME NEW p \in Peer PROVE Orderly(stream'[p])
  BY <1>1, <1>3, TakeChanges DEF IInv
<1>6. TypeOK'
  <2>1. aborted' \in [Peer -> SUBSET Id]
    BY <1>2, <1>3 DEF IInv, TypeOK
  <2> QED
    BY <1>1, <1>3, <2>1, TakeChanges DEF IInv, TypeOK
<1>8. RequestFrame(k) \notin ToSet(stream'[r])
  BY <1>1, <1>2, <1>3, TakenLeaves DEF IInv, Consume
<1>7. ASSUME NEW p \in Peer, NEW id \in Id
      PROVE  Call(p, id)'
  <2>1. Other[p] \in Peer /\ Other[p] # p /\ (Other[p] = Other[r] <=> p = r) /\ Call(p, id)
    BY Ends DEF IInv
  <2>0. /\ \A q \in Peer : ToSet(stream'[q]) \subseteq ToSet(stream[q])
        /\ \A q \in Peer : ToSet(stream[q]) \subseteq ToSet(stream'[q]) \cup {CancelFrame(k)}
        /\ Other[p] # r => stream'[Other[p]] = stream[Other[p]]
    BY <1>1, <1>2, <1>3, <2>1, TakeChanges
  <2>2. /\ (CancelFrame(id) = CancelFrame(k) => id = k) /\ RequestFrame(id) # CancelFrame(k)
        /\ \A value \in {"ok", "error"} : ResponseFrame(id, value) # CancelFrame(k)
        /\ Garbage # CancelFrame(k)
    BY <1>2, FramesDiffer
  <2>a. id \in aborted'[Other[p]] <=> id \in aborted[Other[p]] \/ (Other[p] = r /\ id = k /\ k \in inFlight[r])
    BY <1>3, <2>1 DEF IInv, TypeOK
  <2>b. Other[p] = r /\ id = k =>
          /\ CancelFrame(id) \in ToSet(stream[Other[p]]) /\ RequestFrame(id) \notin ToSet(stream'[Other[p]])
          /\ id \in inFlight[r] => outcome[p][id] \in {"aborted", "timeout"}
    <3>1. outcome[p][id] \in Outcome
      BY DEF IInv, TypeOK
    <3> QED
      BY <1>2, <1>8, <2>1, <3>1 DEF Call, Carried, Handled, Answered, Outcome
  <2>3. Waited(p, id)'
    <3>1. id > calls[p] => ~(Other[p] = r /\ id = k)
      BY <2>1, <2>b DEF Call, Waited, Untouched
    <3>2. id > calls'[p] => Untouched(p, id)'
      BY <1>3, <2>0, <2>1, <2>2, <2>a, <3>1 DEF Call, Waited, Untouched
    <3> QED
      BY <1>3, <2>1, <3>2 DEF Call, Waited
  <2>4. Handled(p, id)'
    BY <1>3, <2>1 DEF Call, Handled
  <2>5. Carried(p, id)'
    BY <1>3, <2>0, <2>1, <2>2, <2>b DEF Call, Carried, Garbled
  <2>6. Stopped(p, id)'
    BY <1>3, <2>0, <2>1, <2>2, <2>a, <2>b DEF Call, Stopped, Handled, Garbled
  <2>7. Answered(p, id)'
    BY <1>3, <2>0, <2>1, <2>2, <2>b DEF Call, Answered, Garbled
  <2> QED
    BY <2>3, <2>4, <2>5, <2>6, <2>7 DEF Call
<1> QED
  BY <1>5, <1>6, <1>7 DEF IInv

(* A handler answers once.                                                 *)
LEMMA AnswerPreserves ==
  ASSUME IInv, NEW r \in Peer, NEW k \in Id, NEW value \in Answers, Answer(r, k, value)
  PROVE  IInv'
<1> DEFINE answer == IF value \in {"ok", "error"} THEN ResponseFrame(k, value) ELSE Garbage
<1>1. /\ k \in running[r]
      /\ running' = [running EXCEPT ![r] = @ \ {k}]
      /\ inFlight' = [inFlight EXCEPT ![r] = @ \ {k}]
      /\ verdict' = [verdict EXCEPT ![r][k] = value]
      /\ IF value = "unsendable" THEN stream' = stream ELSE Send(r, answer)
      /\ UNCHANGED <<quota, calls, pending, outcome, listening, aborted, closed>>
  BY DEF Answer, Respond, Answers, caller
<1>2. /\ answer \in Frame
      /\ \A id \in Id : answer # RequestFrame(id) /\ answer # CancelFrame(id)
      /\ \A id \in Id, v \in {"ok", "error"} : answer = ResponseFrame(id, v) => id = k /\ v = value
      /\ answer = Garbage \/ (value \in {"ok", "error"} /\ answer = ResponseFrame(k, value))
  BY FramesDiffer
<1> HIDE DEF answer
<1>3. stream \in [Peer -> Seq(Frame)]
  BY DEF IInv, TypeOK
<1>5. ASSUME NEW p \in Peer PROVE Orderly(stream'[p])
  <2>1. CASE value = "unsendable"
    BY <1>1, <2>1 DEF IInv
  <2>2. CASE value # "unsendable"
    BY <1>1, <1>2, <1>3, <2>2, SentIsOrderly DEF IInv, Send
  <2> QED
    BY <2>1, <2>2
<1>6. TypeOK'
  <2>1. running' \in [Peer -> SUBSET Id] /\ inFlight' \in [Peer -> SUBSET Id]
    BY <1>1 DEF IInv, TypeOK
  <2>2. verdict' \in [Peer -> [Id -> Verdict]]
    BY <1>1 DEF IInv, TypeOK, Verdict, Answers
  <2>3. stream' \in [Peer -> Seq(Frame)]
    BY <1>1, <1>2, <1>3, SendChanges
  <2> QED
    BY <1>1, <2>1, <2>2, <2>3 DEF IInv, TypeOK
<1>7. ASSUME NEW p \in Peer, NEW id \in Id
      PROVE  Call(p, id)'
  <2>1. Other[p] \in Peer /\ Other[p] # p /\ (Other[p] = Other[r] <=> p = r) /\ Call(p, id)
    BY Ends DEF IInv
  <2>0. /\ \A q \in Peer : ToSet(stream[q]) \subseteq ToSet(stream'[q])
        /\ \A q \in Peer : ToSet(stream'[q]) \subseteq ToSet(stream[q]) \cup {answer}
        /\ p # Other[r] => stream'[p] = stream[p]
        /\ p = Other[r] /\ ~closed[r] /\ value # "unsendable" =>
             answer \in ToSet(stream'[p]) \/ Garbled(stream'[p])
    <3>1. CASE value = "unsendable"
      BY <1>1, <3>1
    <3>2. CASE value # "unsendable"
      BY <1>1, <1>2, <1>3, <3>2, SendChanges
    <3> QED
      BY <3>1, <3>2
  <2>2. Other[p] = r <=> p = Other[r]
    BY Ends
  <2>a. /\ verdict'[Other[p]][id] = IF Other[p] = r /\ id = k THEN value ELSE verdict[Other[p]][id]
        /\ id \in running'[Other[p]] <=> id \in running[Other[p]] /\ ~(Other[p] = r /\ id = k)
        /\ id \in inFlight'[Other[p]] <=> id \in inFlight[Other[p]] /\ ~(Other[p] = r /\ id = k)
    BY <1>1, <2>1 DEF IInv, TypeOK
  <2>b. Other[p] = r /\ id = k =>
          /\ verdict[Other[p]][id] = "none" /\ outcome[p][id] \notin {"ok", "error"}
          /\ RequestFrame(id) \notin ToSet(stream[Other[p]])
    BY <1>1, <2>1 DEF Call, Handled, Carried, Answered
  <2>3. Waited(p, id)'
    <3>1. id > calls[p] => ~(Other[p] = r /\ id = k)
      BY <1>1, <2>1 DEF Call, Waited, Untouched
    <3>2. id > calls'[p] => Untouched(p, id)'
      BY <1>1, <1>2, <2>0, <2>1, <2>a, <3>1 DEF Call, Waited, Untouched
    <3> QED
      BY <1>1, <2>1, <3>2 DEF Call, Waited
  <2>4. Handled(p, id)'
    BY <1>1, <2>1, <2>a DEF Call, Handled
  <2>5. Carried(p, id)'
    BY <1>1, <1>2, <2>0, <2>1, <2>2, <2>a, <2>b DEF Call, Carried, Garbled
  <2>6. Stopped(p, id)'
    BY <1>1, <1>2, <2>0, <2>1, <2>a DEF Call, Stopped, Garbled
  <2>7. Answered(p, id)'
    BY <1>1, <1>2, <2>0, <2>1, <2>2, <2>a, <2>b DEF Call, Answered, Garbled
  <2> QED
    BY <2>3, <2>4, <2>5, <2>6, <2>7 DEF Call
<1> QED
  BY <1>5, <1>6, <1>7 DEF IInv

(* A request no handler is registered for is answered with an error.       *)
LEMMA RefuseRequestPreserves ==
  ASSUME IInv, NEW r \in Peer, RefuseRequest(r)
  PROVE  IInv'
<1> DEFINE k == NextFrame(r).id
<1>1. stream \in [Peer -> Seq(Frame)] /\ stream[r] # <<>> /\ NextFrame(r).kind = "request"
  BY DEF IInv, TypeOK, RefuseRequest, Arrives
<1>2. k \in Id /\ NextFrame(r) = RequestFrame(k) /\ NextFrame(r) \in ToSet(stream[r])
  BY <1>1, TakenLeaves, KindsTell
<1> DEFINE taken == [stream EXCEPT ![r] = Tail(@)]
           answer == ResponseFrame(k, "error")
<1>3. /\ verdict' = [verdict EXCEPT ![r][k] = "error"]
      /\ stream' = Sent(r, taken, answer)
      /\ UNCHANGED <<quota, calls, pending, outcome, listening, inFlight, running, aborted, closed>>
  BY DEF RefuseRequest, caller
<1> HIDE DEF k
<1>4. Other[r] \in Peer /\ Other[Other[r]] = r /\ Call(Other[r], k)
  BY <1>2, Ends DEF IInv
<1>8. /\ answer \in Frame
      /\ \A id \in Id : answer # RequestFrame(id) /\ answer # CancelFrame(id)
      /\ \A id \in Id, v \in {"ok", "error"} : answer = ResponseFrame(id, v) => id = k /\ v = "error"
      /\ answer # Garbage
  BY <1>2, FramesDiffer
<1>9. /\ taken \in [Peer -> Seq(Frame)] /\ RequestFrame(k) \notin ToSet(taken[r])
      /\ \A p \in Peer : p # r => taken[p] = stream[p]
  BY <1>1, <1>2, TakenLeaves DEF IInv
<1>10. \A p \in Peer : ToSet(taken[p]) \subseteq ToSet(stream[p])
  BY <1>1, TakenLeaves
<1>11. \A p \in Peer : ToSet(stream[p]) \subseteq ToSet(taken[p]) \cup {RequestFrame(k)}
  BY <1>1, <1>2, TakenLeaves
<1>12. \A p \in Peer : Orderly(taken[p])
  BY <1>1, TakenLeaves DEF IInv
<1> HIDE DEF taken
<1>5. ASSUME NEW p \in Peer PROVE Orderly(stream'[p])
  BY <1>3, <1>8, <1>9, <1>12, SentIsOrderly
<1> HIDE DEF answer
<1>6. TypeOK'
  <2>1. verdict' \in [Peer -> [Id -> Verdict]]
    BY <1>2, <1>3 DEF IInv, TypeOK, Verdict, Answers
  <2>2. stream' \in [Peer -> Seq(Frame)]
    BY <1>3, <1>8, <1>9, SentAdds
  <2> QED
    BY <1>3, <2>1, <2>2 DEF IInv, TypeOK
<1>13. ASSUME NEW p \in Peer
      PROVE  /\ p # Other[r] => stream'[p] = taken[p]
             /\ ToSet(stream'[p]) \subseteq ToSet(taken[p]) \cup {answer}
             /\ ToSet(taken[p]) \subseteq ToSet(stream'[p])
             /\ p = Other[r] /\ ~closed[r] => answer \in ToSet(stream'[p]) \/ Garbled(stream'[p])
  <2>1. p # Other[r] => stream'[p] = taken[p]
    BY <1>3, <1>8, <1>9, SentAdds, SMTT(60)
  <2>2. ToSet(stream'[p]) \subseteq ToSet(taken[p]) \cup {answer}
    BY <1>3, <1>8, <1>9, SentAdds
  <2>3. ToSet(taken[p]) \subseteq ToSet(stream'[p])
    BY <1>3, <1>8, <1>9, SentAdds
  <2>4. p = Other[r] /\ ~closed[r] => answer \in ToSet(stream'[p]) \/ Garbled(stream'[p])
    BY <1>3, <1>8, <1>9, SentAdds
  <2> QED
    BY <2>1, <2>2, <2>3, <2>4
<1>7. ASSUME NEW p \in Peer, NEW id \in Id
      PROVE  Call(p, id)'
  <2>1. Other[p] \in Peer /\ Other[p] # p /\ (Other[p] = Other[r] <=> p = r) /\ Call(p, id)
    BY Ends DEF IInv
  <2>0. /\ \A q \in Peer : ToSet(stream'[q]) \subseteq ToSet(stream[q]) \cup {answer}
        /\ \A q \in Peer : ToSet(stream[q]) \subseteq ToSet(stream'[q]) \cup {RequestFrame(k)}
        /\ p = Other[r] /\ ~closed[r] => answer \in ToSet(stream'[p]) \/ Garbled(stream'[p])
    BY <1>10, <1>11, <1>13
  <2>2. /\ Other[p] = r <=> p = Other[r]
        /\ p # Other[r] => ToSet(stream'[p]) \subseteq ToSet(stream[p])
        /\ CancelFrame(id) # RequestFrame(k) /\ (RequestFrame(id) = RequestFrame(k) => id = k)
        /\ \A value \in {"ok", "error"} : ResponseFrame(id, value) # RequestFrame(k)
        /\ Garbage # RequestFrame(k)
    BY <1>2, <1>10, <1>13, Ends, FramesDiffer
  <2>a. verdict'[Other[p]][id] = IF Other[p] = r /\ id = k THEN "error" ELSE verdict[Other[p]][id]
    BY <1>2, <1>3, <2>1 DEF IInv, TypeOK
  <2>b. /\ Other[p] = r /\ id = k =>
             /\ verdict[Other[p]][id] = "none" /\ outcome[p][id] \notin {"ok", "error"}
             /\ id \notin running[Other[p]]
             /\ RequestFrame(id) \in ToSet(stream[Other[p]]) /\ RequestFrame(id) \notin ToSet(stream'[Other[p]])
        /\ Other[p] # r =>
             (RequestFrame(id) \in ToSet(stream[Other[p]]) => RequestFrame(id) \in ToSet(stream'[Other[p]]))
    <3>1. RequestFrame(id) \notin ToSet(taken[r]) => RequestFrame(id) \notin ToSet(stream'[r])
      BY <1>8, <1>13
    <3>2. Other[p] # r => ToSet(stream[Other[p]]) \subseteq ToSet(stream'[Other[p]])
      BY <1>9, <1>13, <2>1
    <3> QED
      BY <1>2, <1>9, <2>1, <3>1, <3>2 DEF Call, Carried, Answered
  <2>3. Waited(p, id)'
    <3>1. id > calls[p] => ~(Other[p] = r /\ id = k)
      BY <2>1, <2>b DEF Call, Waited, Untouched
    <3>2. id > calls'[p] => Untouched(p, id)'
      BY <1>3, <1>8, <2>0, <2>1, <2>a, <3>1 DEF Call, Waited, Untouched
    <3> QED
      BY <1>3, <2>1, <3>2 DEF Call, Waited
  <2>4. Handled(p, id)'
    BY <1>3, <2>1, <2>a, <2>b DEF Call, Handled
  <2>5. Carried(p, id)'
    BY <1>3, <1>8, <2>0, <2>1, <2>2, <2>a, <2>b DEF Call, Carried, Garbled
  <2>6. Stopped(p, id)'
    BY <1>3, <1>8, <2>0, <2>1, <2>2, <2>a DEF Call, Stopped, Garbled
  <2>7. Answered(p, id)'
    BY <1>3, <1>8, <2>0, <2>1, <2>2, <2>a, <2>b DEF Call, Answered, Garbled, answer
  <2> QED
    BY <2>3, <2>4, <2>5, <2>6, <2>7 DEF Call
<1> QED
  BY <1>5, <1>6, <1>7 DEF IInv

(* What something else writes garbles the stream behind what is under way. *)
LEMMA StrayWritePreserves ==
  ASSUME IInv, NEW r \in Peer, StrayWrite(r)
  PROVE  IInv'
<1>1. /\ stream' = [stream EXCEPT ![r] = Append(@, Garbage)] /\ ~Garbled(stream[r])
      /\ UNCHANGED <<quota, calls, pending, outcome, listening, inFlight, running, aborted, verdict, closed>>
  BY DEF StrayWrite, caller, callee
<1>2. /\ Garbage \in Frame
      /\ \A id \in Id : Garbage # RequestFrame(id) /\ Garbage # CancelFrame(id)
      /\ \A id \in Id, value \in {"ok", "error"} : Garbage # ResponseFrame(id, value)
  BY FramesDiffer
<1>3. stream[r] \in Seq(Frame) /\ Put(stream[r], Garbage) = Append(stream[r], Garbage)
  BY <1>1 DEF IInv, TypeOK, Put
<1>4. ASSUME NEW p \in Peer
      PROVE  /\ ToSet(stream[p]) \subseteq ToSet(stream'[p])
             /\ ToSet(stream'[p]) \subseteq ToSet(stream[p]) \cup {Garbage}
             /\ Orderly(stream'[p])
  <2>1. CASE p = r
    <3>1. stream'[p] = Put(stream[r], Garbage)
      BY <1>1, <1>3, <2>1 DEF IInv, TypeOK
    <3>2. Orderly(Put(stream[r], Garbage))
      BY <1>2, <1>3, PutIsOrderly DEF IInv
    <3> QED
      BY <1>2, <1>3, <2>1, <3>1, <3>2, PutAdds
  <2>2. CASE p # r
    BY <1>1, <2>2 DEF IInv, TypeOK
  <2> QED
    BY <2>1, <2>2
<1>5. ASSUME NEW p \in Peer PROVE Orderly(stream'[p])
  BY <1>4
<1>6. TypeOK'
  BY <1>1, <1>2, <1>3 DEF IInv, TypeOK
<1>7. ASSUME NEW p \in Peer, NEW id \in Id
      PROVE  Call(p, id)'
  <2>1. Other[p] \in Peer /\ Other[p] # p /\ (Other[p] = Other[r] <=> p = r) /\ Call(p, id)
    BY Ends DEF IInv
  <2>2. /\ RequestFrame(id) \in ToSet(stream'[Other[p]]) <=> RequestFrame(id) \in ToSet(stream[Other[p]])
        /\ CancelFrame(id) \in ToSet(stream'[Other[p]]) <=> CancelFrame(id) \in ToSet(stream[Other[p]])
        /\ \A value \in {"ok", "error"} :
             ResponseFrame(id, value) \in ToSet(stream'[p]) <=> ResponseFrame(id, value) \in ToSet(stream[p])
        /\ Garbled(stream[p]) => Garbled(stream'[p])
        /\ Garbled(stream[Other[p]]) => Garbled(stream'[Other[p]])
    BY <1>2, <1>4, <2>1 DEF Garbled
  <2>3. Waited(p, id)'
    BY <1>1, <2>1, <2>2 DEF Call, Waited, Untouched
  <2>4. Handled(p, id)'
    BY <1>1, <2>1 DEF Call, Handled
  <2>5. Carried(p, id)'
    BY <1>1, <2>1, <2>2 DEF Call, Carried
  <2>6. Stopped(p, id)'
    BY <1>1, <2>1, <2>2 DEF Call, Stopped
  <2>7. Answered(p, id)'
    BY <1>1, <2>1, <2>2 DEF Call, Answered
  <2> QED
    BY <2>3, <2>4, <2>5, <2>6, <2>7 DEF Call
<1> QED
  BY <1>5, <1>6, <1>7 DEF IInv

-----------------------------------------------------------------------------
(* At first nothing is pending and nothing under way.                      *)
LEMMA Initially == Init => IInv
<1> SUFFICES ASSUME Init PROVE IInv
  OBVIOUS
<1>1. TypeOK
  <2>1. quota \in [Peer -> Nat] /\ \E start \in Quotas : \A p \in Peer : calls[p] + quota[p] = start[p]
    BY PeerAssumption DEF Init
  <2> QED
    BY <2>1 DEF Init, TypeOK, Outcome, Verdict
<1>2. \A p \in Peer : Orderly(stream[p])
  BY DEF Init, Orderly
<1>3. ASSUME NEW p \in Peer, NEW id \in Id PROVE Call(p, id)
  <2>1. Other[p] \in Peer /\ id \in Nat /\ id > 0
    BY Ends, IdsAreCounts
  <2>2. \A q \in Peer : stream[q] = <<>> /\ ToSet(stream[q]) = {}
    BY DEF Init, ToSet
  <2>3. Waited(p, id)
    BY <2>1, <2>2 DEF Init, Waited, Untouched
  <2> QED
    BY <2>1, <2>2, <2>3 DEF Init, Call, Handled, Carried, Stopped, Answered
<1> QED
  BY <1>1, <1>2, <1>3 DEF IInv

(* The invariant holds throughout.                                         *)
LEMMA Invariance == Spec => []IInv
<1>1. IInv /\ [Next]_vars => IInv'
  <2> SUFFICES ASSUME IInv, [Next]_vars PROVE IInv'
    OBVIOUS
  <2>1. CASE UNCHANGED vars
    BY <2>1 DEF vars, IInv, TypeOK, Call, Waited, Untouched, Handled, Carried, Stopped, Answered
  <2>2. ASSUME NEW r \in Peer, Request(r) PROVE IInv'
    BY <2>2, RequestPreserves
  <2>3. ASSUME NEW r \in Peer, RequestAborted(r) PROVE IInv'
    BY <2>3, RequestAbortedPreserves
  <2>4. ASSUME NEW r \in Peer, RequestUnsent(r) PROVE IInv'
    BY <2>4, RequestUnsentPreserves
  <2>5. ASSUME NEW r \in Peer, NEW k \in Id, Cancel(r, k) PROVE IInv'
    <3>1. listening' \in [Peer -> SUBSET Id] /\ \A p \in Peer : listening'[p] \subseteq listening[p]
      BY <2>5 DEF Cancel, IInv, TypeOK
    <3> QED
      BY <2>5, <3>1, GivingUpPreserves DEF Cancel, callee
  <2>6. ASSUME NEW r \in Peer, NEW k \in Id, Timeout(r, k) PROVE IInv'
    <3>1. listening' \in [Peer -> SUBSET Id] /\ \A p \in Peer : listening'[p] \subseteq listening[p]
      BY <2>6 DEF Timeout, IInv, TypeOK
    <3> QED
      BY <2>6, <3>1, GivingUpPreserves DEF Timeout, callee
  <2>7. ASSUME NEW r \in Peer, NEW k \in Id, NEW value \in Answers, Answer(r, k, value)
        PROVE  IInv'
    BY <2>7, AnswerPreserves
  <2>8. ASSUME NEW r \in Peer, Receive(r) PROVE IInv'
    <3>1. CASE FramingFailure(r)
      BY <3>1, DisposePreserves DEF FramingFailure
    <3> QED
      BY <2>8, <3>1, SettleResponsePreserves, StartHandlerPreserves, RefuseRequestPreserves, AbortHandlerPreserves
         DEF Receive
  <2>9. ASSUME NEW r \in Peer, Close(r) PROVE IInv'
    BY <2>9, DisposePreserves DEF Close
  <2>10. ASSUME NEW r \in Peer, StrayWrite(r) PROVE IInv'
    BY <2>10, StrayWritePreserves
  <2> QED
    BY <2>1, <2>2, <2>3, <2>4, <2>5, <2>6, <2>7, <2>8, <2>9, <2>10, Zenon DEF Next, PeerStep
<1> QED
  BY Initially, <1>1, PTL DEF Spec

(* Each call is made once, and every frame is one of the protocol.         *)
THEOREM TypeCorrect == Spec => []TypeOK
<1>1. IInv => TypeOK
  BY DEF IInv
<1> QED
  BY Invariance, <1>1, PTL

(* connection.ts, "every pending request is settled": whoever waits for a  *)
(* call still gets its answer, or the other end is gone, a stream broken   *)
(* or the answer one that could not be encoded, which nobody is told; and  *)
(* nobody waits on a connection that is closed.                            *)
THEOREM PendingGetsAnswered == Spec => []PendingIsAnswerable
<1>1. IInv => PendingIsAnswerable
  BY DEF IInv, Call, Waited, Answered, PendingIsAnswerable, Answerable, Unanswered, Underway
<1> QED
  BY Invariance, <1>1, PTL

(* A call is settled with what the handler of that very call answered, in  *)
(* whatever order answers, cancellations and timeouts come.                *)
THEOREM AnswersAreTheirOwn == Spec => []AnswersMatch
<1>1. IInv => AnswersMatch
  BY DEF IInv, Call, Answered, AnswersMatch
<1> QED
  BY Invariance, <1>1, PTL

(* A handler is told to stop only when its caller gave up or its           *)
(* connection closed, and a cancellation that is owed is on its way.       *)
THEOREM StopsAreDue == Spec => []OnlyAbandonedWorkIsStopped
<1>1. IInv => OnlyAbandonedWorkIsStopped
  <2> SUFFICES ASSUME IInv, NEW q \in Peer
               PROVE  /\ \A id \in aborted[q] : closed[q] \/ GivenUp(q, id)
                      /\ \A id \in StopsOwed(q) : Underway(q, CancelFrame(id)) \/ Garbled(stream[q])
    BY DEF OnlyAbandonedWorkIsStopped
  <2>1. Other[q] \in Peer /\ Other[Other[q]] = q
    BY Ends
  <2>2. \A id \in Id : Stopped(Other[q], id)
    BY <2>1 DEF IInv, Call
  <2>3. aborted[q] \subseteq Id /\ running[q] \subseteq Id
    BY DEF IInv, TypeOK
  <2> QED
    BY <2>1, <2>2, <2>3 DEF Stopped, GivenUp, StopsOwed, Underway
<1> QED
  BY Invariance, <1>1, PTL
=============================================================================

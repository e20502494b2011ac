--------------------------- MODULE ControlProofs ----------------------------
(***************************************************************************)
(* Facts about the control stream that the proofs of Tracks and of         *)
(* Announcements share.                                                    *)
(***************************************************************************)
EXTENDS ControlPlane, SequenceTheorems, TLAPS

-----------------------------------------------------------------------------
(***************************************************************************)
(* The control stream: what writing and reading leave in flight.           *)
(***************************************************************************)

\* The peer of an endpoint is the other endpoint.
LEMMA PeerType ==
    ASSUME NEW e \in Endpoints
    PROVE  Peer(e) \in Endpoints /\ Peer(e) # e /\ Peer(Peer(e)) = e
BY DEF Endpoints, Client, Server, Peer

\* Messages without and with a limit are messages.
LEMMA MsgType ==
    ASSUME NEW type \in MessageTypes, NEW id \in Ids, NEW max \in Nat
    PROVE  Msg(type, id) \in Message /\ LimitMsg(type, max) \in Message
BY ControlAssumption DEF Msg, LimitMsg, Message, Ids

\* A write adds a message to what is in flight, or nothing.
LEMMA WrittenType ==
    ASSUME NEW q \in Seq(Message), NEW m \in Message
    PROVE  Written(q, m) \in Seq(Message)
BY DEF Written

\* A write of an endpoint keeps the channels well typed.
LEMMA WriteType ==
    ASSUME ctrl \in [Endpoints -> Seq(Message)],
           NEW e \in Endpoints, NEW m \in Message, Write(e, m)
    PROVE  ctrl' \in [Endpoints -> Seq(Message)]
<1>1. Written(ctrl[Peer(e)], m) \in Seq(Message)
  BY PeerType, WrittenType
<1> QED  BY <1>1, PeerType DEF Write

\* Taking a message out of a channel keeps the channels well typed.
LEMMA ConsumeType ==
    ASSUME ctrl \in [Endpoints -> Seq(Message)],
           NEW e \in Endpoints, ctrl[e] # << >>, Consume(e)
    PROVE  ctrl' \in [Endpoints -> Seq(Message)]
<1>1. Tail(ctrl[e]) \in Seq(Message)
  BY HeadTailProperties
<1> QED  BY <1>1 DEF Consume

\* So does taking one and leaving others for the peer.
LEMMA ConsumeAndLeaveType ==
    ASSUME ctrl \in [Endpoints -> Seq(Message)],
           NEW e \in Endpoints, ctrl[e] # << >>,
           NEW out \in Seq(Message), ConsumeAndLeave(e, out)
    PROVE  ctrl' \in [Endpoints -> Seq(Message)]
<1>1. Tail(ctrl[e]) \in Seq(Message)
  BY HeadTailProperties
<1> QED  BY <1>1, PeerType DEF ConsumeAndLeave

\* The elements of a tail are those of the sequence, one place further.
LEMMA TailElements ==
    ASSUME NEW q \in Seq(Message), q # << >>
    PROVE  /\ Tail(q) \in Seq(Message) /\ Len(q) \in Nat /\ Len(q) >= 1
           /\ Len(Tail(q)) = Len(q) - 1
           /\ \A i \in 1 .. Len(Tail(q)) : Tail(q)[i] = q[i + 1]
           /\ Head(q) = q[1]
BY HeadTailProperties

\* The message a handler takes is a message, with a Request ID in range.
LEMMA HeadType ==
    ASSUME ctrl \in [Endpoints -> Seq(Message)],
           NEW e \in Endpoints, ctrl[e] # << >>
    PROVE  /\ Head(ctrl[e]) \in Message
           /\ Head(ctrl[e]).id \in Ids
           /\ Head(ctrl[e]).val \in Nat
<1>1. Head(ctrl[e]) \in Message
  BY HeadTailProperties
<1> QED  BY <1>1 DEF Message

\* What addLocalTrack announces is well typed.
LEMMA AnnounceLimitType ==
    ASSUME ctrl \in [Endpoints -> Seq(Message)], localMax \in [Endpoints -> Nat],
           NEW e \in Endpoints, NEW id \in Ids
    PROVE  AnnounceLimit(e, id) \in Seq(Message) /\ LimitAfter(e, id) \in Nat
<1>1. 2 * localMax[e] \in Nat
  OBVIOUS
<1>2. LimitMsg("MAX_REQUEST_ID", 2 * localMax[e]) \in Message
  BY <1>1, MsgType DEF MessageTypes
<1>3. ctrl[Peer(e)] \in Seq(Message)
  BY PeerType
<1>4. Written(ctrl[Peer(e)], LimitMsg("MAX_REQUEST_ID", 2 * localMax[e])) \in Seq(Message)
  BY <1>2, <1>3, WrittenType
<1> QED  BY <1>1, <1>3, <1>4 DEF AnnounceLimit, LimitAfter

-----------------------------------------------------------------------------
(***************************************************************************)
(* The messages in flight about one request.                               *)
(***************************************************************************)

\* A message of one of these types about this request is in q.
Has(q, types, id) == \E i \in 1 .. Len(q) : q[i].type \in types /\ q[i].id = id

\* There is at most one such message in q.
Once(q, types, id) ==
    \A i, j \in 1 .. Len(q) :
      /\ q[i].type \in types /\ q[i].id = id
      /\ q[j].type \in types /\ q[j].id = id
      => i = j

\* Taking a message leaves the others, and none like it if it was the only one.
LEMMA HasTail ==
    ASSUME NEW q \in Seq(Message), q # << >>, NEW T, NEW id
    PROVE  /\ Has(Tail(q), T, id) => Has(q, T, id)
           /\ ~(Head(q).type \in T /\ Head(q).id = id) => (Has(q, T, id) => Has(Tail(q), T, id))
           /\ Head(q).type \in T /\ Head(q).id = id => Has(q, T, id)
           /\ Once(q, T, id) => Once(Tail(q), T, id)
           /\ \A U : U \subseteq T /\ Once(q, T, id) /\ Head(q).type \in T /\ Head(q).id = id
                       => ~Has(Tail(q), U, id)
<1> DEFINE t == Tail(q)
           h == Head(q)
<1>1. /\ Len(q) \in Nat /\ Len(q) >= 1
      /\ Len(t) = Len(q) - 1
      /\ \A i \in 1 .. Len(t) : t[i] = q[i + 1]
      /\ h = q[1]
  BY TailElements
<1> HIDE DEF t, h
<1>2. \A i \in 1 .. Len(t) : i + 1 \in 1 .. Len(q) /\ t[i] = q[i + 1] /\ i + 1 # 1
  BY <1>1
<1>3. 1 \in 1 .. Len(q)
  BY <1>1
<1>4. Has(t, T, id) => Has(q, T, id)
  BY <1>2 DEF Has
<1>5. ASSUME ~(h.type \in T /\ h.id = id), Has(q, T, id) PROVE Has(t, T, id)
  <2>1. PICK i \in 1 .. Len(q) : q[i].type \in T /\ q[i].id = id
    BY <1>5 DEF Has
  <2>2. i # 1
    BY <1>1, <1>5, <2>1
  <2>3. i - 1 \in 1 .. Len(t) /\ (i - 1) + 1 = i
    BY <1>1, <2>2
  <2>4. t[i - 1] = q[i]
    BY <1>1, <2>3
  <2> QED  BY <2>1, <2>3, <2>4 DEF Has
<1>6. h.type \in T /\ h.id = id => Has(q, T, id)
  BY <1>1, <1>3 DEF Has
<1>7. ASSUME Once(q, T, id) PROVE Once(t, T, id)
  <2> SUFFICES ASSUME NEW i \in 1 .. Len(t), NEW j \in 1 .. Len(t),
                      t[i].type \in T, t[i].id = id, t[j].type \in T, t[j].id = id
               PROVE  i = j
    BY DEF Once
  <2>1. i + 1 = j + 1
    BY <1>2, <1>7 DEF Once
  <2> QED  BY <2>1
<1>8. ASSUME NEW U, U \subseteq T, Once(q, T, id), h.type \in T, h.id = id, Has(t, U, id)
      PROVE  FALSE
  <2>1. PICK i \in 1 .. Len(t) : t[i].type \in U /\ t[i].id = id
    BY <1>8 DEF Has
  <2> QED  BY <1>1, <1>2, <1>3, <1>8, <2>1 DEF Once
<1> QED  BY <1>4, <1>5, <1>6, <1>7, <1>8 DEF t, h

\* Writing a message adds it, and it is the only one if there was none like it.
LEMMA HasAppend ==
    ASSUME NEW q \in Seq(Message), NEW m \in Message, NEW T, NEW id
    PROVE  /\ Has(q, T, id) => Has(Append(q, m), T, id)
           /\ m.type \in T /\ m.id = id => Has(Append(q, m), T, id)
           /\ ~(m.type \in T /\ m.id = id) =>
                /\ Has(Append(q, m), T, id) => Has(q, T, id)
                /\ Once(q, T, id) => Once(Append(q, m), T, id)
           /\ ~Has(q, T, id) => Once(Append(q, m), T, id)
<1> DEFINE a == Append(q, m)
<1>1. /\ Len(q) \in Nat /\ Len(a) = Len(q) + 1 /\ a[Len(q) + 1] = m
      /\ \A i \in 1 .. Len(q) : a[i] = q[i]
  BY AppendProperties
<1> HIDE DEF a
<1>2. /\ \A i \in 1 .. Len(a) : \/ i \in 1 .. Len(q) /\ a[i] = q[i]
                                \/ i = Len(q) + 1 /\ a[i] = m
      /\ \A i \in 1 .. Len(q) : i \in 1 .. Len(a) /\ a[i] = q[i]
      /\ Len(q) + 1 \in 1 .. Len(a)
  BY <1>1
<1>3. Has(q, T, id) => Has(a, T, id)
  BY <1>2 DEF Has
<1>4. m.type \in T /\ m.id = id => Has(a, T, id)
  BY <1>1, <1>2 DEF Has
<1>5. ~(m.type \in T /\ m.id = id) => (Has(a, T, id) => Has(q, T, id))
  BY <1>2 DEF Has
<1>6. ~(m.type \in T /\ m.id = id) => (Once(q, T, id) => Once(a, T, id))
  BY <1>2 DEF Once
<1>7. ~Has(q, T, id) => Once(a, T, id)
  BY <1>2 DEF Once, Has
<1> QED  BY <1>3, <1>4, <1>5, <1>6, <1>7 DEF a

=============================================================================

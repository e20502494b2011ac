----------------------------- MODULE DataProofs -----------------------------
(***************************************************************************)
(* What DataPlane promises, for every value of the constants: a fetch has  *)
(* one stream, SUBSCRIBE_DONE counts the streams of its track, settled     *)
(* datagrams are safe, and the objects of a stream are kept in order or    *)
(* dropped.                                                                *)
(***************************************************************************)
EXTENDS DataPlane, RequestProofs, FiniteSetTheorems

-----------------------------------------------------------------------------
(***************************************************************************)
(* The inductive invariants.                                               *)
(***************************************************************************)

\* SUBSCRIBE_OK carries the alias 0, and FETCH_OK answers one of these requests.
QueueOK(q, fetches) ==
    \A i \in 1 .. Len(q) :
      /\ q[i].type = "SUBSCRIBE_OK" => q[i].val = 0
      /\ q[i].type = "FETCH_OK" => q[i].id \in fetches

Fetches(e) == {id \in Ids : lt[e][id].kind = "fetch"}

\* A request that was not refused or given up is filed, and the alias of an
\* accepted subscription is known.
CallInv(e, id) ==
    /\ rt[e][id].call \in {"begun", "waiting", "aborting", "ok"} =>
         id \in Remote(e) \/ rt[e][id].resp = "error"
    /\ rt[e][id].resp = "ok" \/ rt[e][id].call = "ok" =>
         id \in Fetches(Peer(e)) \/ AliasTaken(e, 0)

\* Every alias leads to an open track.
FiledInv ==
    \A e \in Endpoints :
      /\ QueueOK(ctrl[e], Fetches(Peer(e)))
      /\ \A p \in aliases[e] : p[2] \in ropen[e]
      /\ \A id \in Ids : CallInv(e, id)

\* The call was refused, or given up, or is going to be refused.
Doomed(e, id) ==
    rt[e][id].resp = "error" \/ rt[e][id].call \in {"refused", "cancelled", "unsent"}

\* What a writer works on is there, and the lock of a fetch track is its own.
WriterInv(w) ==
    LET id == writer[w].id
        pc == writer[w].pc IN
    /\ pc # "idle" => id \in Ids
    /\ pc \in {"opening", "counting"} => Kind(id) = "subscribe"
    /\ pc \in {"counting", "writing"} => writer[w].stream \in 1 .. Len(streams)
    /\ pc = "counting" =>
         /\ streams[writer[w].stream].state = "opened"
         /\ \A v \in Writers :
              writer[v].pc = "counting" /\ writer[v].stream = writer[w].stream => v = w
    /\ pc = "fetching" => Kind(id) = "fetch" /\ fetchLock[id] = w /\ fetchStream[id] = 0

\* The stream of a fetch is the one that its track has kept.
StreamInv(i) ==
    LET s == streams[i] IN
    /\ Kind(s.track) # "none"
    /\ Kind(s.track) = "fetch" => fetchStream[s.track] = i
    /\ s.state = "unknown" /\ Kind(s.track) = "fetch" => Doomed(Subscriber(s.track), s.track)
    /\ s.state = "reading" => s.target # NoRequest
    /\ s.state \in {"opened", "sent", "accepted"} => s.target = NoRequest /\ s.read = 0

FetchInv(id) == fetchStream[id] # 0 => fetchStream[id] \in 1 .. Len(streams)

\* The goroutines between the opening of a stream of the track and its counting.
Counting(id) == {w \in Writers : writer[w].pc = "counting" /\ writer[w].id = id}

\* The count is at most the number of streams, and without a race it lacks only the
\* stream of the one goroutine that has not stored it yet.
CountInv(id) ==
    LET n == Cardinality(StreamsOf(id)) IN
    /\ subgroupCount[id] <= n
    /\ \A w \in Counting(id) : writer[w].seen + 1 <= n
    /\ doneCount[id] # -1 =>
         /\ Kind(id) = "subscribe" /\ doneCount[id] <= n
         /\ lt[Publisher(id)][id].ctx # "live"
    /\ id \notin raced /\ Kind(id) # "fetch" =>
         /\ \A v, w \in InOpenSubgroup(id) : v = w
         /\ \A w \in Counting(id) : writer[w].seen = subgroupCount[id] /\ n = subgroupCount[id] + 1
         /\ Counting(id) = {} => n = subgroupCount[id]
         /\ doneCount[id] # -1 => InOpenSubgroup(id) = {} /\ doneCount[id] = n

\* The subscriber knows the alias of a datagram, unless the publisher was rash.
DatagramInv(o) ==
    LET e == Subscriber(o.track) IN
    /\ Kind(o.track) = "subscribe" /\ o.stream = 0
    /\ e \in rash \/ (lt[Publisher(o.track)][o.track].alias = 0 /\ AliasTaken(e, 0))

\* An object of a stream is found only where the stream was read to.
ReadFrom(o, t) ==
    o.stream # 0 =>
      /\ o.stream \in 1 .. Len(streams)
      /\ streams[o.stream].target = t
      /\ o.n <= streams[o.stream].read
BufferInv(t) ==
    /\ IsFiniteSet(dropped[t])
    /\ \A o \in dropped[t] : ReadFrom(o, t)
    /\ \A k \in 1 .. Len(Pushed(t)) : ReadFrom(Pushed(t)[k], t)

\* The publishers' goroutines and streams; the counts; the datagrams; the buffers.
PublishInv ==
    /\ \A w \in Writers : WriterInv(w)
    /\ \A i \in 1 .. Len(streams) : StreamInv(i)
    /\ \A id \in Ids : FetchInv(id)
CountsInv == \A id \in Ids : CountInv(id)
DatagramsInv == (\A o \in datagrams : DatagramInv(o)) /\ SettledDatagramsAreSafe
BuffersInv == (\A id \in Ids : BufferInv(id)) /\ StreamOrder

DataInv ==
    /\ FiledInv /\ DataTypeOK
    /\ PublishInv /\ CountsInv /\ DatagramsInv /\ BuffersInv

-----------------------------------------------------------------------------
(***************************************************************************)
(* What a step of the control plane does to the tracks.                    *)
(***************************************************************************)

\* A filed track keeps its kind and its alias, a cancelled context stays so, and a
\* subscription that leaves the map without an error has its context cancelled.
LocalKept ==
    \A e \in Endpoints, id \in Ids :
      /\ lt[e][id].kind # "none" =>
           /\ lt'[e][id].kind = lt[e][id].kind
           /\ lt'[e][id].alias = lt[e][id].alias
           /\ lt[e][id].ctx # "live" => lt'[e][id].ctx # "live"
      /\ /\ lt[e][id].kind = "subscribe"
         /\ id \in Local(e) /\ id \notin Local(e)'
         /\ lt'[e][id].answer # "error"
         => lt'[e][id].ctx # "live"

\* A request that is read belongs to a track that is not filed.
LEMMA RequestIsNew ==
    ASSUME TypeOK, RequestInv, NEW e \in Endpoints, ctrl[e] # << >>,
           Head(ctrl[e]).type \in Requests
    PROVE  Head(ctrl[e]).id \in Ids /\ lt[e][Head(ctrl[e]).id].kind = "none"
<1> DEFINE p == Peer(e)
           id == Head(ctrl[e]).id
<1>1. p \in Endpoints /\ Peer(p) = e
  BY PeerType
<1>2. ctrl[e] \in Seq(Message) /\ id \in Ids
  BY HeadType DEF TypeOK
<1>3. Has(ctrl[e], Requests, id)
  BY <1>2, HasTail
<1>4. Asked(p, id)
  BY <1>1, <1>3 DEF Asked
<1>5. PairInv(p, id)
  BY <1>1, <1>2 DEF RequestInv
<1> QED  BY <1>1, <1>2, <1>4, <1>5 DEF PairInv

\* The steps that leave the localTrackMap alone.
LEMMA LocalUntouched ==
    ASSUME UNCHANGED <<lt, lpending, lopen>>
    PROVE  LocalKept
BY DEF LocalKept, Local

\* The requests of the peer, handled by the reader.
LEMMA PeerRequestLocal ==
    ASSUME TypeOK, RequestInv, NEW e \in Endpoints,
           \/ OnSubscribe(e) \/ RefuseSubscribe(e)
           \/ OnFetch(e) \/ RefuseFetch(e) \/ OnInvalidRequest(e)
           \/ OnUnsubscribe(e) \/ OnFetchCancel(e) \/ OnSubscribeUpdate(e)
           \/ OnUnknownRequestID(e)
    PROVE  LocalKept
<1> DEFINE id == Head(ctrl[e]).id
<1>0. /\ lt \in LocalTracks /\ lpending \in [Endpoints -> SUBSET Ids]
      /\ lopen \in [Endpoints -> SUBSET Ids]
  BY DEF TypeOK, LocalTracks
<1>1. CASE RefuseSubscribe(e) \/ OnInvalidRequest(e) \/ OnSubscribeUpdate(e)
           \/ OnUnknownRequestID(e)
  BY <1>1, LocalUntouched
     DEF RefuseSubscribe, OnInvalidRequest, OnSubscribeUpdate, OnUnknownRequestID, trackVars
<1>2. ASSUME NEW kind \in {"subscribe", "fetch"}, OnRequest(e, kind) PROVE LocalKept
  <2>1. id \in Ids /\ lt[e][id].kind = "none"
    BY <1>2, RequestIsNew DEF OnRequest, Reading, NextIs, RequestType, Requests
  <2>2. /\ lopen' = lopen
        /\ \A f \in Endpoints : lpending[f] \subseteq lpending'[f]
        /\ \A f \in Endpoints, i \in Ids : f # e \/ i # id => lt'[f][i] = lt[f][i]
    BY <1>0, <1>2 DEF OnRequest, LocalTracks
  <2> QED  BY <2>1, <2>2 DEF LocalKept, Local
<1>3. CASE RefuseFetch(e)
  <2>1. id \in Ids /\ lt[e][id].kind = "none"
    BY <1>3, RequestIsNew DEF RefuseFetch, Reading, NextIs, Requests
  <2>2. /\ lopen' = lopen /\ lt' = lt
        /\ \A f \in Endpoints, i \in Ids :
             f # e \/ i # id => (i \in lpending'[f] <=> i \in lpending[f])
    BY <1>0, <1>3 DEF RefuseFetch
  <2> QED  BY <2>1, <2>2 DEF LocalKept, Local
<1>4. CASE OnUnsubscribe(e)
  <2>1. id \in Ids
    BY <1>4, HeadType DEF OnUnsubscribe, Reading, NextIs, TypeOK
  <2>2. /\ lopen' = lopen /\ lpending' = lpending
        /\ \A f \in Endpoints, i \in Ids :
             /\ lt'[f][i].kind = lt[f][i].kind /\ lt'[f][i].alias = lt[f][i].alias
             /\ lt[f][i].ctx # "live" => lt'[f][i].ctx # "live"
    BY <1>0, <1>4, <2>1, SMTT(30) DEF OnUnsubscribe, LocalTracks, LocalTrack, Cancelled
  <2> QED  BY <2>2 DEF LocalKept, Local
<1>5. CASE OnFetchCancel(e)
  <2>1. id \in Ids
    BY <1>5, HeadType DEF OnFetchCancel, Reading, NextIs, TypeOK
  <2>2. /\ \A f \in Endpoints, i \in Ids :
             /\ lt'[f][i].kind = lt[f][i].kind /\ lt'[f][i].alias = lt[f][i].alias
             /\ lt[f][i].ctx # "live" => lt'[f][i].ctx # "live"
             /\ f = e /\ i = id => lt'[f][i].ctx # "live"
    <3>1. lt' = [lt EXCEPT ![e][id].ctx = Cancelled(lt[e][id].ctx, "unsubscribed")]
      BY <1>5 DEF OnFetchCancel
    <3>2. lt \in LocalTracks /\ lt[e] \in [Ids -> LocalTrack] /\ lt[e][id] \in LocalTrack
      BY <1>0, <2>1 DEF LocalTracks
    <3>3. /\ lt'[e][id].kind = lt[e][id].kind /\ lt'[e][id].alias = lt[e][id].alias
          /\ lt'[e][id].ctx = Cancelled(lt[e][id].ctx, "unsubscribed")
      BY <2>1, <3>1, <3>2 DEF LocalTracks, LocalTrack
    <3>4. \A f \in Endpoints, i \in Ids : ~(f = e /\ i = id) => lt'[f][i] = lt[f][i]
      BY <3>1, <3>2 DEF LocalTracks
    <3> QED  BY <3>3, <3>4 DEF Cancelled
  <2>3. \A f \in Endpoints, i \in Ids : f # e \/ i # id =>
          (i \in lpending'[f] <=> i \in lpending[f]) /\ (i \in lopen'[f] <=> i \in lopen[f])
    BY <1>0, <1>5 DEF OnFetchCancel
  <2> QED  BY <2>2, <2>3 DEF LocalKept, Local
<1> QED  BY <1>1, <1>2, <1>3, <1>4, <1>5 DEF OnSubscribe, OnFetch

\* What the application does with its response writers.
LEMMA ResponseWriterLocal ==
    ASSUME TypeOK, NEW e \in Endpoints, NEW id \in Ids,
           \/ Accept(e, id) \/ WriteAccept(e, id) \/ Reject(e, id)
           \/ handling[e] = id /\ HandlerReturn(e)
           \/ CloseWithError(e, id)
    PROVE  LocalKept
<1>0. /\ lt \in LocalTracks /\ lpending \in [Endpoints -> SUBSET Ids]
      /\ lopen \in [Endpoints -> SUBSET Ids] /\ lt[e][id] \in LocalTrack
  BY DEF TypeOK, LocalTracks
<1>1. \A answer : /\ Handled(lt[e][id], answer).kind = lt[e][id].kind
                  /\ Handled(lt[e][id], answer).alias = lt[e][id].alias
                  /\ Handled(lt[e][id], answer).ctx = lt[e][id].ctx
                  /\ Handled(lt[e][id], answer).answer = answer
  BY <1>0 DEF Handled, LocalTrack
<1> DEFINE Same(f, i) == /\ lt'[f][i].kind = lt[f][i].kind
                         /\ lt'[f][i].alias = lt[f][i].alias
                         /\ lt'[f][i].ctx = lt[f][i].ctx
<1>2. CASE Accept(e, id)
  <2>1. \A f \in Endpoints, i \in Ids : Same(f, i)
    BY <1>0, <1>1, <1>2 DEF Accept, LocalTracks
  <2>2. \A f \in Endpoints, i \in Ids : i \in Local(f) => i \in Local(f)'
    BY <1>0, <1>2 DEF Accept, Local
  <2> QED  BY <2>1, <2>2 DEF LocalKept
<1>3. CASE WriteAccept(e, id)
  <2>1. \A f \in Endpoints, i \in Ids : Same(f, i)
    BY <1>0, <1>3 DEF WriteAccept, LocalTracks, LocalTrack
  <2> QED  BY <1>3, <2>1 DEF WriteAccept, LocalKept, Local
<1>4. ASSUME NEW answer, lt' = [lt EXCEPT ![e][id] = Handled(@, answer)],
             id \in lpending[e] => answer = "error",
             lpending' = [lpending EXCEPT ![e] = PendingAfterReject(e, id)], lopen' = lopen
      PROVE  LocalKept
  <2>1. \A f \in Endpoints, i \in Ids : Same(f, i)
    BY <1>0, <1>1, <1>4 DEF LocalTracks
  <2>2. lt'[e][id].answer = answer
    BY <1>0, <1>1, <1>4 DEF LocalTracks
  <2>3. \A f \in Endpoints, i \in Ids : f # e \/ i # id => (i \in lpending'[f] <=> i \in lpending[f])
    BY <1>0, <1>4 DEF PendingAfterReject
  <2> QED  BY <1>4, <2>1, <2>2, <2>3 DEF LocalKept, Local
<1>5. CASE Reject(e, id)
  BY <1>4, <1>5, Zenon DEF Reject
<1>6. CASE handling[e] = id /\ HandlerReturn(e)
  <2>1. CASE ~Unhandled(e, id)
    BY <1>0, <1>6, <2>1, LocalUntouched DEF HandlerReturn
  <2>2. CASE Unhandled(e, id)
    <3>1. /\ lt' = [lt EXCEPT ![e][id] =
                       Handled(@, IF id \in lpending[e] THEN "error" ELSE lt[e][id].answer)]
          /\ lpending' = [lpending EXCEPT ![e] = PendingAfterReject(e, id)] /\ lopen' = lopen
      BY <1>6, <2>2 DEF HandlerReturn
    <3> QED  BY <1>4, <3>1
  <2> QED  BY <2>1, <2>2
<1>7. CASE CloseWithError(e, id)
  <2>1. /\ \A f \in Endpoints, i \in Ids :
             /\ lt'[f][i].kind = lt[f][i].kind /\ lt'[f][i].alias = lt[f][i].alias
             /\ lt[f][i].ctx # "live" => lt'[f][i].ctx # "live"
             /\ f = e /\ i = id => lt'[f][i].ctx # "live"
    BY <1>0, <1>7 DEF CloseWithError, LocalTracks, LocalTrack, Cancelled
  <2>2. \A f \in Endpoints, i \in Ids : f # e \/ i # id =>
          (i \in lpending'[f] <=> i \in lpending[f]) /\ (i \in lopen'[f] <=> i \in lopen[f])
    BY <1>0, <1>7 DEF CloseWithError
  <2> QED  BY <2>1, <2>2 DEF LocalKept, Local
<1> QED  BY <1>2, <1>3, <1>5, <1>6, <1>7

\* Every step of the control plane.
LEMMA NextLocal ==
    ASSUME TypeOK, RequestInv, [Next]_vars
    PROVE  LocalKept
<1>1. CASE UNCHANGED vars
  BY <1>1, LocalUntouched DEF vars, trackVars
<1>2. ASSUME NEW e \in Endpoints, Reader(e) PROVE LocalKept
  <2>1. CASE ControlStep(e) \/ OnSubscribeOk(e) \/ OnFetchOk(e) \/ OnSubscribeError(e)
             \/ OnFetchError(e) \/ OnSubscribeDone(e)
    BY <2>1, LocalUntouched
       DEF ControlStep, OnSubscribeOk, OnFetchOk, OnSubscribeError, OnFetchError, OnError,
           OnSubscribeDone, trackVars
  <2> QED  BY <1>2, <2>1, PeerRequestLocal DEF Reader
<1>3. ASSUME NEW e \in Endpoints, HandlerReturn(e) PROVE LocalKept
  <2>1. handling[e] \in Ids
    BY <1>3 DEF HandlerReturn, TypeOK
  <2> QED  BY <1>3, <2>1, ResponseWriterLocal
<1>4. ASSUME NEW e \in Endpoints, Application(e) PROVE LocalKept
  <2>1. CASE \E kind \in {"subscribe", "fetch"}, bad \in BOOLEAN : BeginRequest(e, kind, bad)
    BY <2>1, LocalUntouched DEF BeginRequest
  <2>2. CASE UNCHANGED trackVars
    BY <2>2, LocalUntouched DEF trackVars
  <2>3. ASSUME NEW id \in Ids, Cancel(e, id) \/ CloseTrack(e, id) \/ UpdateSubscription(e, id)
        PROVE  LocalKept
    BY <2>3, LocalUntouched DEF Cancel, CloseTrack, UpdateSubscription
  <2> QED  BY <1>4, <2>1, <2>2, <2>3, ResponseWriterLocal DEF Application
<1>5. ASSUME NEW e \in Endpoints, NEW id \in Ids, CallStep(e, id) \/ WriteAccept(e, id)
      PROVE  LocalKept
  <2>1. CASE CallStep(e, id)
    BY <2>1, LocalUntouched DEF CallStep, WriteRequest, Resolve, Abort
  <2> QED  BY <1>5, <2>1, ResponseWriterLocal
<1> QED  BY <1>1, <1>2, <1>3, <1>4, <1>5 DEF Next

\* A message that is no OK changes nothing about the OKs in flight; nor does it
\* that one is taken.
LEMMA QueueSteps ==
    ASSUME NEW q \in Seq(Message), NEW F, QueueOK(q, F)
    PROVE  /\ q # << >> => QueueOK(Tail(q), F)
           /\ \A m \in Message :
                /\ m.type = "SUBSCRIBE_OK" => m.val = 0
                /\ m.type = "FETCH_OK" => m.id \in F
                => QueueOK(Written(q, m), F)
           /\ \A G : F \subseteq G => QueueOK(q, G)
<1>1. ASSUME q # << >> PROVE QueueOK(Tail(q), F)
  <2>1. \A i \in 1 .. Len(Tail(q)) : i + 1 \in 1 .. Len(q) /\ Tail(q)[i] = q[i + 1]
    BY <1>1, TailElements
  <2> QED  BY <2>1 DEF QueueOK
<1>2. ASSUME NEW m \in Message, m.type = "SUBSCRIBE_OK" => m.val = 0,
             m.type = "FETCH_OK" => m.id \in F
      PROVE  QueueOK(Written(q, m), F)
  <2> DEFINE a == Append(q, m)
  <2>1. \A i \in 1 .. Len(a) : a[i] = m \/ (i \in 1 .. Len(q) /\ a[i] = q[i])
    BY <1>2, AppendProperties
  <2> HIDE DEF a
  <2>2. QueueOK(a, F)
    BY <1>2, <2>1 DEF QueueOK
  <2> QED  BY <2>2 DEF a, Written
<1>3. \A G : F \subseteq G => QueueOK(q, G)
  BY DEF QueueOK
<1> QED  BY <1>1, <1>2, <1>3

QueuesOK == \A e \in Endpoints : QueueOK(ctrl[e], Fetches(Peer(e)))
QueuesKept == \A e \in Endpoints : QueueOK(ctrl'[e], Fetches(Peer(e)))

LEMMA WriteQueue ==
    ASSUME TypeOK, QueuesOK, NEW e \in Endpoints, NEW m \in Message,
           m.type = "SUBSCRIBE_OK" => m.val = 0,
           m.type = "FETCH_OK" => m.id \in Fetches(e),
           Write(e, m)
    PROVE  QueuesKept
<1>1. Peer(e) \in Endpoints /\ Peer(Peer(e)) = e /\ \A f \in Endpoints : ctrl[f] \in Seq(Message)
  BY PeerType DEF TypeOK
<1>2. QueueOK(Written(ctrl[Peer(e)], m), Fetches(e))
  BY <1>1, QueueSteps DEF QueuesOK
<1>3. ctrl'[Peer(e)] = Written(ctrl[Peer(e)], m)
      /\ \A f \in Endpoints : f # Peer(e) => ctrl'[f] = ctrl[f]
  BY <1>1 DEF Write, TypeOK
<1> QED  BY <1>1, <1>2, <1>3 DEF QueuesOK, QueuesKept

LEMMA ReadQueue ==
    ASSUME TypeOK, QueuesOK, NEW e \in Endpoints, ctrl[e] # << >>,
           \/ Consume(e)
           \/ \E out : ConsumeAndLeave(e, out) /\ QueueOK(out, Fetches(e))
    PROVE  QueuesKept
<1>1. Peer(e) \in Endpoints /\ Peer(e) # e /\ Peer(Peer(e)) = e
      /\ \A f \in Endpoints : (f = e \/ f = Peer(e)) /\ ctrl[f] \in Seq(Message)
  BY PeerType DEF TypeOK, Endpoints, Peer, Client, Server
<1>2. QueueOK(Tail(ctrl[e]), Fetches(Peer(e)))
  BY <1>1, QueueSteps DEF QueuesOK
<1>3. CASE Consume(e)
  <2>1. ctrl'[e] = Tail(ctrl[e]) /\ ctrl'[Peer(e)] = ctrl[Peer(e)]
    BY <1>1, <1>3 DEF Consume, TypeOK
  <2> QED  BY <1>1, <1>2, <2>1 DEF QueuesOK, QueuesKept
<1>4. ASSUME NEW out, ConsumeAndLeave(e, out), QueueOK(out, Fetches(e)) PROVE QueuesKept
  <2>1. ctrl'[e] = Tail(ctrl[e]) /\ ctrl'[Peer(e)] = out
    BY <1>1, <1>4 DEF ConsumeAndLeave, TypeOK
  <2> QED  BY <1>1, <1>2, <1>4, <2>1 DEF QueuesKept
<1> QED  BY <1>3, <1>4

\* What addLocalTrack announces is no OK.
LEMMA AnnounceQueue ==
    ASSUME TypeOK, QueuesOK, NEW e \in Endpoints, NEW id \in Ids
    PROVE  AnnounceLimit(e, id) \in Seq(Message) /\ QueueOK(AnnounceLimit(e, id), Fetches(e))
<1>1. AnnounceLimit(e, id) \in Seq(Message)
  BY AnnounceLimitType DEF TypeOK
<1>2. Peer(e) \in Endpoints /\ Peer(Peer(e)) = e /\ ctrl[Peer(e)] \in Seq(Message)
  BY PeerType DEF TypeOK
<1>3. LimitMsg("MAX_REQUEST_ID", 2 * localMax[e]) \in Message
  <2>1. 2 * localMax[e] \in Nat /\ 0 \in Ids
    BY ControlAssumption DEF TypeOK, Ids
  <2> QED  BY <2>1, MsgType DEF MessageTypes
<1>4. LimitMsg("MAX_REQUEST_ID", 2 * localMax[e]).type = "MAX_REQUEST_ID"
  BY DEF LimitMsg
<1> QED  BY <1>1, <1>2, <1>3, <1>4, QueueSteps DEF AnnounceLimit, QueuesOK

\* The messages without a value.
LEMMA PlainMsg ==
    ASSUME NEW id \in Ids,
           NEW type \in MessageTypes \ {"SUBSCRIBE_OK", "FETCH_OK"}
    PROVE  Msg(type, id) \in Message /\ Msg(type, id).type = type
BY DEF Msg, Message, MessageTypes

\* The steps of the session.
LEMMA ControlQueues ==
    ASSUME TypeOK, QueuesOK, NEW e \in Endpoints, ControlStep(e)
    PROVE  QueuesKept
<1>1. CASE UNCHANGED ctrl
  BY <1>1 DEF QueuesOK, QueuesKept
<1>2. CASE ctrl[e] # << >> /\ Consume(e)
  BY <1>2, ReadQueue
<1>3. CASE e = Server /\ WriteServerSetup
  <2>1. /\ LimitMsg("SERVER_SETUP", ServerSetupMax) \in Message
        /\ LimitMsg("SERVER_SETUP", ServerSetupMax).type = "SERVER_SETUP"
    BY ControlAssumption DEF LimitMsg, Message, MessageTypes, Ids
  <2> QED  BY <1>3, <2>1, WriteQueue DEF WriteServerSetup
<1>4. \/ UNCHANGED ctrl \/ (ctrl[e] # << >> /\ Consume(e)) \/ (e = Server /\ WriteServerSetup)
  BY DEF ControlStep, ControlReads, OnClientSetup, OnServerSetup, OnMessageBeforeSetup,
         OnMaxRequestID, OnRequestsBlocked, ReadFails, NextIs, Reading
<1> QED  BY <1>1, <1>2, <1>3, <1>4

\* The other messages that the reader takes.
LEMMA ReaderQueues ==
    ASSUME TypeOK, QueuesOK, NEW e \in Endpoints, Reader(e)
    PROVE  QueuesKept
<1> DEFINE m == Head(ctrl[e])
<1>0. /\ Peer(e) \in Endpoints /\ Peer(Peer(e)) = e /\ ctrl[Peer(e)] \in Seq(Message)
      /\ QueueOK(ctrl[Peer(e)], Fetches(e))
      /\ ctrl[e] # << >> => m.id \in Ids
  BY PeerType, HeadType DEF TypeOK, QueuesOK
<1>1. CASE ControlStep(e)
  BY <1>1, ControlQueues
<1>2. CASE OnSubscribeError(e) \/ OnFetchError(e) \/ OnSubscribeDone(e) \/ OnInvalidRequest(e)
           \/ OnUnsubscribe(e) \/ OnFetchCancel(e) \/ OnSubscribeUpdate(e)
           \/ OnUnknownRequestID(e)
  BY <1>2, ReadQueue
     DEF OnSubscribeError, OnFetchError, OnError, OnSubscribeDone, OnInvalidRequest,
         OnUnsubscribe, OnFetchCancel, OnSubscribeUpdate, OnUnknownRequestID, Reading, NextIs
<1>3. ASSUME NEW type \in {"UNSUBSCRIBE", "FETCH_CANCEL"}, ctrl[e] # << >>
      PROVE  QueueOK(Written(ctrl[Peer(e)], Msg(type, m.id)), Fetches(e))
  <2>1. Msg(type, m.id) \in Message /\ Msg(type, m.id).type = type
    BY <1>0, <1>3, PlainMsg DEF MessageTypes
  <2> QED  BY <1>0, <1>3, <2>1, QueueSteps
<1>4. CASE OnSubscribeOk(e)
  <2>1. ctrl[e] # << >>
    BY <1>4 DEF OnSubscribeOk, Reading, NextIs
  <2>2. Consume(e) \/ ConsumeAndLeave(e, ctrl[Peer(e)])
        \/ ConsumeAndLeave(e, Written(ctrl[Peer(e)], Msg("UNSUBSCRIBE", m.id)))
    BY <1>4 DEF OnSubscribeOk
  <2> QED  BY <1>0, <1>3, <2>1, <2>2, ReadQueue
<1>5. CASE OnFetchOk(e)
  <2>1. ctrl[e] # << >>
    BY <1>5 DEF OnFetchOk, Reading, NextIs
  <2>2. ConsumeAndLeave(e, ctrl[Peer(e)])
        \/ ConsumeAndLeave(e, Written(ctrl[Peer(e)], Msg("FETCH_CANCEL", m.id)))
    BY <1>5 DEF OnFetchOk
  <2> QED  BY <1>0, <1>3, <2>1, <2>2, ReadQueue
<1>6. ASSUME NEW kind, OnRequest(e, kind) PROVE QueuesKept
  <2>1. ctrl[e] # << >> /\ ConsumeAndLeave(e, AnnounceLimit(e, m.id))
    BY <1>6 DEF OnRequest, Reading, NextIs
  <2> QED  BY <1>0, <2>1, AnnounceQueue, ReadQueue
<1>7. ASSUME NEW type \in {"SUBSCRIBE_ERROR", "FETCH_ERROR"}, ctrl[e] # << >>
      PROVE  QueueOK(Written(AnnounceLimit(e, m.id), Msg(type, m.id)), Fetches(e))
  <2>1. Msg(type, m.id) \in Message /\ Msg(type, m.id).type = type
    BY <1>0, <1>7, PlainMsg DEF MessageTypes
  <2> QED  BY <1>0, <1>7, <2>1, AnnounceQueue, QueueSteps
<1>8. CASE RefuseSubscribe(e) \/ RefuseFetch(e)
  <2>1. ctrl[e] # << >>
    BY <1>8 DEF RefuseSubscribe, RefuseFetch, Reading, NextIs
  <2>2. ConsumeAndLeave(e, AnnounceLimit(e, m.id))
        \/ ConsumeAndLeave(e, Written(AnnounceLimit(e, m.id), Msg("SUBSCRIBE_ERROR", m.id)))
        \/ ConsumeAndLeave(e, Written(AnnounceLimit(e, m.id), Msg("FETCH_ERROR", m.id)))
    BY <1>8 DEF RefuseSubscribe, RefuseFetch
  <2> QED  BY <1>0, <1>7, <2>1, <2>2, AnnounceQueue, ReadQueue
<1> QED  BY <1>1, <1>2, <1>4, <1>5, <1>6, <1>8 DEF Reader, OnSubscribe, OnFetch

\* What the calls and the applications write.
LEMMA CallQueues ==
    ASSUME TypeOK, QueuesOK, RequestInv, NEW e \in Endpoints,
           \/ HandlerReturn(e) \/ Application(e)
           \/ \E id \in Ids : CallStep(e, id) \/ WriteAccept(e, id)
    PROVE  QueuesKept
<1>1. CASE UNCHANGED ctrl
  BY <1>1 DEF QueuesOK, QueuesKept
<1>2. ASSUME NEW id \in Ids, NEW type \in MessageTypes \ {"SUBSCRIBE_OK", "FETCH_OK"},
             Write(e, Msg(type, id))
      PROVE  QueuesKept
  BY <1>2, PlainMsg, WriteQueue
<1>3. ASSUME NEW id \in Ids, WriteAccept(e, id) PROVE QueuesKept
  <2> DEFINE kind == lt[e][id].kind
             m == [type |-> OkType(kind), id |-> id, val |-> OkAlias(e, id)]
  <2>1. kind \in {"subscribe", "fetch"}
    <3>1. Peer(e) \in Endpoints /\ Peer(Peer(e)) = e
      BY PeerType
    <3>2. PairInv(Peer(e), id)
      BY <3>1 DEF RequestInv
    <3>3. kind # "none"
      BY <1>3, <3>1, <3>2 DEF PairInv, WriteAccept
    <3> QED  BY <3>3 DEF TypeOK, LocalTrack, Kinds
  <2>2. m \in Message /\ m.id = id /\ m.val = 0
        /\ m.type = IF kind = "subscribe" THEN "SUBSCRIBE_OK" ELSE "FETCH_OK"
    BY <2>1 DEF OkType, OkAlias, Message, MessageTypes
  <2>3. Write(e, m)
    BY <1>3 DEF WriteAccept
  <2> HIDE DEF m
  <2> QED  BY <2>1, <2>2, <2>3, WriteQueue DEF Fetches
<1>4. ASSUME NEW id \in Ids, WriteRequest(e, id) PROVE QueuesKept
  <2> DEFINE m == [type |-> RequestType(rt[e][id].kind), id |-> id,
                   val |-> IF rt[e][id].badNamespace THEN 1 ELSE 0]
  <2>1. m \in Message /\ m.type \in {"SUBSCRIBE", "FETCH"}
    BY DEF Message, MessageTypes, RequestType
  <2>2. Write(e, m)
    BY <1>4 DEF WriteRequest
  <2> HIDE DEF m
  <2> QED  BY <2>1, <2>2, WriteQueue
<1>5. ASSUME NEW id \in Ids,
             Resolve(e, id) \/ Abort(e, id) \/ CloseTrack(e, id) \/ UpdateSubscription(e, id)
             \/ CloseWithError(e, id)
      PROVE  QueuesKept
  <2>1. \/ UNCHANGED ctrl \/ Write(e, Msg("FETCH_CANCEL", id)) \/ Write(e, Msg("UNSUBSCRIBE", id))
        \/ Write(e, Msg("SUBSCRIBE_UPDATE", id)) \/ Write(e, Msg("SUBSCRIBE_DONE", id))
    BY <1>5 DEF Resolve, Abort, CloseTrack, UpdateSubscription, CloseWithError, CloseType
  <2> QED  BY <1>1, <1>2, <2>1 DEF MessageTypes
<1>6. ASSUME NEW id \in Ids, Reject(e, id) \/ (handling[e] = id /\ HandlerReturn(e))
      PROVE  QueuesKept
  <2>1. \/ UNCHANGED ctrl \/ Write(e, Msg("SUBSCRIBE_ERROR", id))
        \/ Write(e, Msg("FETCH_ERROR", id))
    BY <1>6 DEF Reject, HandlerReturn, ErrorType
  <2> QED  BY <1>1, <1>2, <2>1 DEF MessageTypes
<1>7. HandlerReturn(e) => handling[e] \in Ids
  BY DEF HandlerReturn, TypeOK
<1>8. CASE RequestBlocked(e)
  <2>1. /\ LimitMsg("REQUESTS_BLOCKED", maxId[e]) \in Message
        /\ LimitMsg("REQUESTS_BLOCKED", maxId[e]).type = "REQUESTS_BLOCKED"
    BY ControlAssumption DEF LimitMsg, Message, MessageTypes, Ids, TypeOK
  <2> QED  BY <1>8, <2>1, WriteQueue DEF RequestBlocked
<1>9. ASSUME Application(e) PROVE QueuesKept
  <2>1. CASE \E kind \in {"subscribe", "fetch"}, bad \in BOOLEAN : BeginRequest(e, kind, bad)
    BY <1>1, <2>1 DEF BeginRequest
  <2>2. CASE Close(e)
    BY <1>1, <2>2 DEF Close
  <2>3. ASSUME NEW id \in Ids, Cancel(e, id) \/ Accept(e, id) PROVE QueuesKept
    BY <1>1, <2>3 DEF Cancel, Accept, controlVars
  <2> QED  BY <1>5, <1>6, <1>8, <1>9, <2>1, <2>2, <2>3 DEF Application
<1> QED  BY <1>3, <1>4, <1>5, <1>6, <1>7, <1>9 DEF CallStep

CallersOK == \A e \in Endpoints, id \in Ids : CallInv(e, id)
AliasesOK == \A e \in Endpoints : \A p \in aliases[e] : p[2] \in ropen[e]
AliasesGrow == \A e \in Endpoints : aliases[e] \subseteq aliases'[e] /\ ropen[e] \subseteq ropen'[e]

\* The track of one call changes, and the others stay filed.
LEMMA OneCaller ==
    ASSUME TypeOK, LocalKept, CallersOK, AliasesGrow,
           NEW e \in Endpoints, NEW id \in Ids, NEW call, NEW resp,
           RemoteSet(rt, rt', e, id, call, resp),
           \A f \in Endpoints, i \in Ids : f # e \/ i # id => (i \in Remote(f) => i \in Remote(f)'),
           call \in {"begun", "waiting", "aborting", "ok"} => id \in Remote(e)' \/ resp = "error",
           resp = "ok" \/ call = "ok" =>
             id \in Fetches(Peer(e)) \/ AliasTaken(e, 0) \/ AliasTaken(e, 0)'
    PROVE  CallersOK'
<1>1. \A f \in Endpoints : Fetches(Peer(f)) \subseteq Fetches(Peer(f))'
  BY PeerType DEF LocalKept, Fetches
<1>2. \A f \in Endpoints : AliasTaken(f, 0) => AliasTaken(f, 0)'
  BY DEF AliasesGrow, AliasTaken
<1>3. CallInv(e, id)'
  BY <1>1, <1>2 DEF CallInv, RemoteSet
<1>4. ASSUME NEW f \in Endpoints, NEW i \in Ids, f # e \/ i # id PROVE CallInv(f, i)'
  <2>1. rt'[f][i] = rt[f][i] /\ (i \in Remote(f) => i \in Remote(f)') /\ CallInv(f, i)
    BY <1>4 DEF RemoteSet, CallersOK
  <2> QED  BY <1>1, <1>2, <2>1 DEF CallInv
<1> QED  BY <1>3, <1>4 DEF CallersOK

\* No call changes.
LEMMA NoCaller ==
    ASSUME LocalKept, CallersOK, UNCHANGED <<rt, rpending, ropen, aliases>>
    PROVE  CallersOK' /\ AliasesGrow /\ (AliasesOK => AliasesOK')
<1>1. \A f \in Endpoints : Fetches(Peer(f)) \subseteq Fetches(Peer(f))'
  BY PeerType DEF LocalKept, Fetches
<1>2. AliasesGrow /\ (AliasesOK => AliasesOK')
  BY DEF AliasesGrow, AliasesOK
<1>3. ASSUME NEW f \in Endpoints, NEW i \in Ids PROVE CallInv(f, i)'
  <2>1. (i \in Remote(f) <=> i \in Remote(f)') /\ CallInv(f, i)
        /\ (AliasTaken(f, 0) <=> AliasTaken(f, 0)')
    BY DEF CallersOK, Remote, AliasTaken
  <2> QED  BY <1>1, <2>1 DEF CallInv
<1> QED  BY <1>2, <1>3 DEF CallersOK

\* The calls, and what the application does with their tracks.
LEMMA CallCallers ==
    ASSUME TypeOK, RequestInv, LocalKept, CallersOK, AliasesOK,
           NEW e \in Endpoints, NEW id \in Ids,
           \/ CallStep(e, id) \/ Cancel(e, id)
           \/ CloseTrack(e, id) \/ UpdateSubscription(e, id)
    PROVE  CallersOK' /\ AliasesGrow /\ AliasesOK'
<1>0. /\ rt \in RemoteTracks /\ rpending \in [Endpoints -> SUBSET Ids]
      /\ ropen \in [Endpoints -> SUBSET Ids] /\ CallInv(e, id) /\ PairInv(e, id)
      /\ rt[e][id].resp \in {"empty", "ok", "error"}
  BY DEF TypeOK, RemoteTracks, RemoteTrack, CallersOK, RequestInv
<1>1. UNCHANGED <<ropen, aliases>>
  BY DEF CallStep, WriteRequest, Resolve, Abort, Cancel, CloseTrack, UpdateSubscription
<1>2. AliasesGrow /\ AliasesOK'
  BY <1>1 DEF AliasesGrow, AliasesOK
<1>3. \A f \in Endpoints, i \in Ids : f # e \/ i # id => (i \in Remote(f) => i \in Remote(f)')
  BY <1>0, <1>1 DEF CallStep, WriteRequest, Resolve, Abort, Cancel, CloseTrack,
                    UpdateSubscription, Remote
<1>4. CASE WriteRequest(e, id)
  <2> DEFINE call == IF WriteFails THEN "unsent" ELSE "waiting"
  <2>1. RemoteSet(rt, rt', e, id, call, rt[e][id].resp)
    BY <1>0, <1>4, RemoteAfter DEF WriteRequest
  <2>2. call = "waiting" => rpending' = rpending
    BY <1>0, <1>4 DEF WriteRequest
  <2>3. rt[e][id].call = "begun"
    BY <1>4 DEF WriteRequest
  <2>4. call = "waiting" => (id \in Remote(e) => id \in Remote(e)')
    BY <1>1, <2>2 DEF Remote
  <2>5. call \in {"unsent", "waiting"}
    OBVIOUS
  <2> HIDE DEF call
  <2> QED  BY <1>0, <1>2, <1>3, <2>1, <2>3, <2>4, <2>5, OneCaller DEF CallInv
<1>5. CASE Resolve(e, id)
  <2> DEFINE call == IF rt[e][id].resp = "error" THEN "refused" ELSE "ok"
  <2>1. RemoteSet(rt, rt', e, id, call, "empty")
    BY <1>0, <1>5, RemoteAfter DEF Resolve
  <2>2. call = "ok" => rpending' = rpending /\ rt[e][id].resp = "ok" /\ rt[e][id].call = "waiting"
    BY <1>0, <1>5 DEF Resolve
  <2>3. call = "ok" => (id \in Remote(e) => id \in Remote(e)')
    BY <1>1, <2>2 DEF Remote
  <2>4. call \in {"refused", "ok"}
    OBVIOUS
  <2> HIDE DEF call
  <2> QED  BY <1>0, <1>2, <1>3, <2>1, <2>2, <2>3, <2>4, OneCaller DEF CallInv
<1>6. CASE Abort(e, id)
  <2>1. RemoteSet(rt, rt', e, id, "cancelled", rt[e][id].resp)
    BY <1>0, <1>6, RemoteAfter DEF Abort
  <2> QED  BY <1>0, <1>2, <1>3, <2>1, OneCaller DEF CallInv
<1>7. CASE Cancel(e, id)
  <2>1. RemoteSet(rt, rt', e, id, "aborting", rt[e][id].resp) /\ rt[e][id].call = "waiting"
    BY <1>0, <1>7, RemoteAfter DEF Cancel
  <2>2. id \in Remote(e) => id \in Remote(e)'
    BY <1>7 DEF Cancel, Remote
  <2> QED  BY <1>0, <1>2, <1>3, <2>1, <2>2, OneCaller DEF CallInv
<1>8. CASE CloseTrack(e, id) \/ UpdateSubscription(e, id)
  <2>1. RemoteSet(rt, rt', e, id, rt[e][id].call, rt[e][id].resp)
    BY <1>0, <1>8, RemoteAfter DEF CloseTrack, UpdateSubscription
  <2>2. id \in Remote(e) => id \in Remote(e)'
    BY <1>8 DEF CloseTrack, UpdateSubscription, Remote
  <2> QED  BY <1>0, <1>2, <1>3, <2>1, <2>2, OneCaller DEF CallInv
<1> QED  BY <1>4, <1>5, <1>6, <1>7, <1>8 DEF CallStep

\* A request that is begun.
LEMMA BeginCallers ==
    ASSUME TypeOK, RequestInv, LocalKept, CallersOK, AliasesOK,
           NEW e \in Endpoints, NEW kind, NEW bad, BeginRequest(e, kind, bad)
    PROVE  CallersOK' /\ AliasesGrow /\ AliasesOK'
<1> DEFINE id == nextId[e]
           new == [NoRemoteTrack EXCEPT !.kind = kind, !.badNamespace = bad, !.call = "begun"]
<1>0. /\ rt \in RemoteTracks /\ rpending \in [Endpoints -> SUBSET Ids] /\ id \in Ids
      /\ ropen \in [Endpoints -> SUBSET Ids]
  <2>1. nextId[e] \in Nat /\ nextId[e] < IdBound
    BY DEF TypeOK, BeginRequest, DrawId
  <2>2. id \in Ids
    BY <2>1, ControlAssumption DEF Ids
  <2> QED  BY <2>2 DEF TypeOK, RemoteTracks
<1>1. CASE id \in Remote(e)
  BY <1>1, NoCaller DEF BeginRequest
<1>2. CASE id \notin Remote(e)
  <2>1. rt' = [rt EXCEPT ![e][id] = new] /\ rpending' = [rpending EXCEPT ![e] = @ \cup {id}]
        /\ UNCHANGED <<ropen, aliases>>
    BY <1>2 DEF BeginRequest
  <2>2. new.call = "begun" /\ new.resp = "empty"
    BY DEF NoRemoteTrack
  <2> HIDE DEF new
  <2>3. RemoteSet(rt, rt', e, id, "begun", "empty")
    BY <1>0, <2>1, <2>2, TrackReplaced
  <2>4. AliasesGrow /\ AliasesOK'
    BY <2>1 DEF AliasesGrow, AliasesOK
  <2>5. id \in Remote(e)' /\ \A f \in Endpoints, i \in Ids : i \in Remote(f) => i \in Remote(f)'
    BY <1>0, <2>1 DEF Remote
  <2> QED  BY <1>0, <2>3, <2>4, <2>5, OneCaller
<1> QED  BY <1>1, <1>2

\* The answers, handled by the reader.
LEMMA AnswerCallers ==
    ASSUME TypeOK, RequestInv, LocalKept, QueuesOK, CallersOK, AliasesOK,
           NEW e \in Endpoints,
           \/ OnSubscribeOk(e) \/ OnFetchOk(e)
           \/ OnSubscribeError(e) \/ OnFetchError(e) \/ OnSubscribeDone(e)
    PROVE  CallersOK' /\ AliasesGrow /\ AliasesOK'
<1> DEFINE m == Head(ctrl[e])
           id == m.id
<1>1. ctrl[e] # << >>
  BY DEF OnSubscribeOk, OnFetchOk, OnSubscribeError, OnFetchError, OnError, OnSubscribeDone,
         Reading, NextIs
<1>2. id \in Ids /\ m \in Message /\ ctrl[e] \in Seq(Message)
  BY <1>1, HeadType DEF TypeOK
<1>0. /\ rt \in RemoteTracks /\ rpending \in [Endpoints -> SUBSET Ids]
      /\ ropen \in [Endpoints -> SUBSET Ids] /\ aliases \in [Endpoints -> SUBSET (Nat \X Ids)]
      /\ CallInv(e, id) /\ PairInv(e, id)
      /\ rt[e][id].resp \in {"empty", "ok", "error"}
  BY <1>2 DEF TypeOK, RemoteTracks, RemoteTrack, CallersOK, RequestInv
<1>3. /\ m.type = "SUBSCRIBE_OK" => m.val = 0
      /\ m.type = "FETCH_OK" => id \in Fetches(Peer(e))
  <2>1. 1 \in 1 .. Len(ctrl[e]) /\ ctrl[e][1] = m
    BY <1>1, <1>2, TailElements
  <2> QED  BY <2>1 DEF QueuesOK, QueueOK
<1>4. ASSUME m.type \in Answers
      PROVE  rt[e][id].call \in Live /\ rt[e][id].resp = "empty"
  <2>1. Has(ctrl[e], Answers, id)
    BY <1>1, <1>2, <1>4, HasTail
  <2>2. OkSent(e, id) \/ ErrorSent(e, id)
    BY <2>1, AnswerTypes DEF OkSent, ErrorSent
  <2> QED  BY <1>0, <2>2 DEF PairInv, Underway, Unanswered
<1> HIDE DEF m
<1>5. CASE OnSubscribeOk(e)
  <2>1. /\ m.type = "SUBSCRIBE_OK" /\ id \in rpending[e]
        /\ rpending' = [rpending EXCEPT ![e] = PendingAfterConfirm(e, id)]
        /\ ropen' = [ropen EXCEPT ![e] = @ \cup {id}]
    BY <1>5 DEF OnSubscribeOk, Reading, NextIs, m
  <2>2. /\ id \in ropen'[e] /\ id \in Remote(e)'
        /\ \A f \in Endpoints : ropen[f] \subseteq ropen'[f]
        /\ \A f \in Endpoints, i \in Ids : i \in Remote(f) => i \in Remote(f)'
    BY <1>0, <1>2, <2>1 DEF PendingAfterConfirm, Remote
  <2>3. CASE AliasTaken(e, m.val)
    <3>1. UNCHANGED <<aliases, rt>>
      BY <1>5, <2>3 DEF OnSubscribeOk, m
    <3>2. AliasesGrow /\ AliasesOK'
      BY <2>2, <3>1 DEF AliasesGrow, AliasesOK
    <3>3. RemoteSet(rt, rt', e, id, rt[e][id].call, rt[e][id].resp)
      BY <3>1 DEF RemoteSet
    <3> QED  BY <1>0, <1>2, <2>2, <3>2, <3>3, OneCaller DEF CallInv
  <2>4. CASE ~AliasTaken(e, m.val)
    <3>1. /\ aliases' = [aliases EXCEPT ![e] = @ \cup {<<m.val, id>>}]
          /\ rt' = [rt EXCEPT ![e][id].resp = IF rt[e][id].resp = "empty" THEN "ok" ELSE @]
      BY <1>5, <2>4 DEF OnSubscribeOk, m
    <3>2. rt' = [rt EXCEPT ![e][id].resp = "ok"]
      BY <1>4, <2>1, <3>1 DEF Answers
    <3>3. RemoteSet(rt, rt', e, id, rt[e][id].call, "ok")
      BY <1>0, <1>2, <3>2, RemoteAfter
    <3>4. /\ <<m.val, id>> \in aliases'[e]
          /\ \A f \in Endpoints : aliases[f] \subseteq aliases'[f]
          /\ \A f \in Endpoints : \A p \in aliases'[f] :
               p \in aliases[f] \/ (f = e /\ p = <<m.val, id>>)
      BY <1>0, <3>1
    <3>5. AliasesGrow
      BY <2>2, <3>4 DEF AliasesGrow
    <3>6. AliasesOK'
      BY <2>2, <3>4 DEF AliasesOK
    <3>7. AliasTaken(e, 0)'
      <4>1. m.val = 0
        BY <1>3, <2>1
      <4>2. <<0, id>> \in aliases'[e] /\ <<0, id>>[1] = 0
        BY <3>4, <4>1
      <4> QED  BY <4>2 DEF AliasTaken
    <3> QED  BY <1>2, <2>2, <3>3, <3>5, <3>6, <3>7, OneCaller
  <2> QED  BY <2>3, <2>4
<1>6. CASE OnFetchOk(e)
  <2>1. /\ m.type = "FETCH_OK" /\ id \in rpending[e]
        /\ rpending' = [rpending EXCEPT ![e] = PendingAfterConfirm(e, id)]
        /\ ropen' = [ropen EXCEPT ![e] = @ \cup {id}]
        /\ rt' = [rt EXCEPT ![e][id].resp = IF rt[e][id].resp = "empty" THEN "ok" ELSE @]
        /\ aliases' = aliases
    BY <1>6 DEF OnFetchOk, Reading, NextIs, m
  <2>2. /\ id \in ropen'[e] /\ id \in Remote(e)'
        /\ \A f \in Endpoints : ropen[f] \subseteq ropen'[f]
        /\ \A f \in Endpoints, i \in Ids : i \in Remote(f) => i \in Remote(f)'
    BY <1>0, <1>2, <2>1 DEF PendingAfterConfirm, Remote
  <2>3. rt' = [rt EXCEPT ![e][id].resp = "ok"]
    BY <1>4, <2>1 DEF Answers
  <2>4. RemoteSet(rt, rt', e, id, rt[e][id].call, "ok")
    BY <1>0, <1>2, <2>3, RemoteAfter
  <2>5. AliasesGrow /\ AliasesOK'
    BY <2>1, <2>2 DEF AliasesGrow, AliasesOK
  <2> QED  BY <1>2, <1>3, <2>1, <2>2, <2>4, <2>5, OneCaller
<1>7. ASSUME NEW type \in Errors, OnError(e, type) PROVE CallersOK' /\ AliasesGrow /\ AliasesOK'
  <2>1. /\ m.type = type /\ id \in rpending[e]
        /\ rpending' = [rpending EXCEPT ![e] = @ \ {id}]
        /\ rt' = [rt EXCEPT ![e][id].resp = IF @ = "empty" THEN "error" ELSE @]
        /\ UNCHANGED <<ropen, aliases>>
    BY <1>7 DEF OnError, Reading, NextIs, m
  <2>2. \A f \in Endpoints, i \in Ids : f # e \/ i # id => (i \in Remote(f) => i \in Remote(f)')
    BY <1>0, <1>2, <2>1 DEF Remote
  <2>3. rt[e][id].call \in Live /\ rt[e][id].resp = "empty"
    BY <1>4, <1>7, <2>1, AnswerTypes
  <2>4. rt' = [rt EXCEPT ![e][id].resp = "error"]
    BY <1>0, <1>2, <2>1, <2>3 DEF RemoteTracks
  <2>5. RemoteSet(rt, rt', e, id, rt[e][id].call, "error")
    BY <1>0, <1>2, <2>4, RemoteAfter
  <2>6. AliasesGrow /\ AliasesOK'
    BY <2>1 DEF AliasesGrow, AliasesOK
  <2> QED  BY <1>2, <2>2, <2>3, <2>5, <2>6, OneCaller DEF Live
<1>8. CASE OnSubscribeDone(e)
  <2>1. rt' = [rt EXCEPT ![e][id].done = TRUE] /\ UNCHANGED <<rpending, ropen, aliases>>
    BY <1>8 DEF OnSubscribeDone, m
  <2>2. RemoteSet(rt, rt', e, id, rt[e][id].call, rt[e][id].resp)
    BY <1>0, <1>2, <2>1, RemoteAfter
  <2>3. AliasesGrow /\ AliasesOK' /\ \A f \in Endpoints : Remote(f)' = Remote(f)
    BY <2>1 DEF AliasesGrow, AliasesOK, Remote
  <2> QED  BY <1>0, <1>2, <2>2, <2>3, OneCaller DEF CallInv
<1> QED  BY <1>5, <1>6, <1>7, <1>8 DEF OnSubscribeError, OnFetchError, Errors

\* Every step of the control plane.
LEMMA NextFiled ==
    ASSUME TypeOK, TypeOK', RequestInv, FiledInv, [Next]_vars
    PROVE  FiledInv' /\ AliasesGrow
<1>1. LocalKept /\ QueuesOK /\ CallersOK /\ AliasesOK
  BY NextLocal DEF FiledInv, QueuesOK, CallersOK, AliasesOK
<1>2. QueuesOK'
  <2>1. QueuesKept
    <3>1. CASE UNCHANGED vars
      BY <1>1, <3>1 DEF vars, controlVars, QueuesOK, QueuesKept
    <3> QED  BY <1>1, <3>1, ReaderQueues, CallQueues DEF Next
  <2>2. \A f \in Endpoints : /\ Fetches(Peer(f)) \subseteq Fetches(Peer(f))'
                             /\ ctrl'[f] \in Seq(Message)
    BY <1>1, PeerType DEF LocalKept, Fetches, TypeOK
  <2>3. \A f \in Endpoints : QueueOK(ctrl'[f], Fetches(Peer(f))')
    BY <2>1, <2>2, QueueSteps DEF QueuesKept
  <2> QED  BY <2>3 DEF QueuesOK
<1>3. CallersOK' /\ AliasesGrow /\ AliasesOK'
  <2>1. CASE UNCHANGED <<rt, rpending, ropen, aliases>>
    BY <1>1, <2>1, NoCaller
  <2>2. ASSUME NEW e \in Endpoints, Reader(e) PROVE CallersOK' /\ AliasesGrow /\ AliasesOK'
    <3>1. CASE \/ ControlStep(e) \/ OnSubscribe(e) \/ RefuseSubscribe(e) \/ OnFetch(e)
               \/ RefuseFetch(e) \/ OnInvalidRequest(e) \/ OnUnsubscribe(e) \/ OnFetchCancel(e)
               \/ OnSubscribeUpdate(e) \/ OnUnknownRequestID(e)
      <4>1. UNCHANGED <<rt, rpending, ropen, aliases>>
        BY <3>1
           DEF ControlStep, OnSubscribe, RefuseSubscribe, OnFetch, OnRequest, RefuseFetch,
               OnInvalidRequest, OnUnsubscribe, OnFetchCancel, OnSubscribeUpdate,
               OnUnknownRequestID, trackVars
      <4> QED  BY <2>1, <4>1
    <3> QED  BY <1>1, <2>2, <3>1, AnswerCallers DEF Reader
  <2>3. ASSUME NEW e \in Endpoints, Application(e) PROVE CallersOK' /\ AliasesGrow /\ AliasesOK'
    <3>1. CASE UNCHANGED trackVars
      BY <2>1, <3>1 DEF trackVars
    <3>2. ASSUME NEW id \in Ids, Accept(e, id) \/ Reject(e, id) \/ CloseWithError(e, id)
          PROVE  UNCHANGED <<rt, rpending, ropen, aliases>>
      BY <3>2 DEF Accept, Reject, CloseWithError
    <3> QED  BY <1>1, <2>1, <2>3, <3>1, <3>2, BeginCallers, CallCallers DEF Application
  <2>4. ASSUME NEW e \in Endpoints,
               HandlerReturn(e) \/ \E id \in Ids : WriteAccept(e, id)
        PROVE  UNCHANGED <<rt, rpending, ropen, aliases>>
    BY <2>4 DEF HandlerReturn, WriteAccept
  <2>5. CASE UNCHANGED vars
    BY <2>1, <2>5 DEF vars, trackVars
  <2> QED  BY <1>1, <2>1, <2>2, <2>3, <2>4, <2>5, CallCallers DEF Next
<1> QED  BY <1>2, <1>3 DEF FiledInv, QueuesOK, CallersOK, AliasesOK

\* A request that is refused or given up stays so.
LEMMA DoomedStays ==
    ASSUME TypeOK, RequestInv, [Next]_vars, NEW e \in Endpoints, NEW id \in Ids, Doomed(e, id)
    PROVE  Doomed(e, id)'
<1>1. PairInv(e, id) /\ PairStep(e, id) /\ (nextId[e] = id => rt[e][id].call = "none")
  <2>1. Moved
    BY NextMoves
  <2>2. Fade(e, id) => PairStep(e, id)
    BY DEF PairStep
  <2>3. PairInv(e, id) /\ (nextId[e] <= id => rt[e][id].call = "none")
    BY DEF RequestInv
  <2>4. nextId[e] = id => nextId[e] <= id
    BY DEF TypeOK
  <2> QED  BY <2>1, <2>2, <2>3, <2>4 DEF Moved, OnePairMoves
<1>2. CASE HearOk(e, id)
  <2>1. Unanswered(e, id)
    BY <1>1, <1>2 DEF HearOk, PairInv, Underway
  <2> QED  BY <1>2, <2>1 DEF HearOk, Unanswered, Doomed
<1>3. CASE ~HearOk(e, id)
  BY <1>1, <1>3
     DEF PairStep, Fade, Begin, Send, NotSent, Learn, GiveUp, HearError, Admit, Refuse, Open,
         Answer, Deny, CallerSame, Doomed, PairInv, Live
<1> QED  BY <1>2, <1>3

-----------------------------------------------------------------------------
(***************************************************************************)
(* Types of the data plane.                                                *)
(***************************************************************************)

LEMMA TrackEnds ==
    ASSUME NEW id \in Ids
    PROVE  /\ Subscriber(id) \in Endpoints /\ Publisher(id) \in Endpoints
           /\ Peer(Subscriber(id)) = Publisher(id) /\ NoRequest \notin Ids
<1>1. Owner(id) \in Endpoints
  BY OwnerType
<1> QED  BY <1>1, PeerType, ControlAssumption DEF Subscriber, Publisher, Ids, NoRequest

\* The work a goroutine begins, and what becomes of it.
LEMMA WorkType ==
    ASSUME NEW id \in Ids, NEW n \in Nat, NEW pc \in {"opening", "fetching"}
    PROVE  /\ NoWork \in WriterStates /\ NoWork.pc = "idle"
           /\ LET r == [NoWork EXCEPT !.pc = pc, !.id = id] IN
              r \in WriterStates /\ r.pc = pc /\ r.id = id
           /\ LET r == [NoWork EXCEPT !.pc = "writing", !.id = id, !.stream = n] IN
              r \in WriterStates /\ r.pc = "writing" /\ r.id = id /\ r.stream = n
<1>1. NoWork \in WriterStates /\ NoWork.pc = "idle"
  BY DEF NoWork, WriterStates
<1> QED  BY <1>1 DEF WriterStates

\* One goroutine goes on.
WriterSet(w, r) ==
    /\ r \in WriterStates /\ writer' \in [Writers -> WriterStates]
    /\ writer'[w] = r /\ \A v \in Writers : v # w => writer'[v] = writer[v]
LEMMA WorkingSets ==
    ASSUME writer \in [Writers -> WriterStates], NEW w \in Writers, NEW r \in WriterStates,
           Working(w, r)
    PROVE  WriterSet(w, r)
BY DEF Working, WriterSet

\* One stream changes; its track does not.
StreamSet(i, r) ==
    /\ i \in 1 .. Len(streams) /\ r \in StreamStates /\ streams' \in Seq(StreamStates)
    /\ Len(streams') = Len(streams) /\ r.track = streams[i].track
    /\ streams'[i] = r /\ \A j \in 1 .. Len(streams) : j # i => streams'[j] = streams[j]
LEMMA StreamReplaced ==
    ASSUME streams \in Seq(StreamStates), NEW i \in 1 .. Len(streams), NEW r \in StreamStates,
           r.track = streams[i].track, streams' = [streams EXCEPT ![i] = r]
    PROVE  StreamSet(i, r)
<1>1. streams' \in Seq(StreamStates) /\ Len(streams') = Len(streams)
  BY ExceptSeq
<1>2. streams'[i] = r /\ \A j \in 1 .. Len(streams) : j # i => streams'[j] = streams[j]
  BY ExceptSeq
<1> QED  BY <1>1, <1>2 DEF StreamSet

\* A stream is opened.
StreamAdded(id) ==
    /\ streams' \in Seq(StreamStates) /\ Len(streams') = Len(streams) + 1
    /\ \A j \in 1 .. Len(streams) : streams'[j] = streams[j]
    /\ LET s == streams'[Len(streams) + 1] IN
       s.track = id /\ s.target = NoRequest /\ s.read = 0 /\ s.state \in {"opened", "sent"}
LEMMA StreamAppended ==
    ASSUME streams \in Seq(StreamStates), NEW id \in Ids, NEW settled \in BOOLEAN,
           NEW state \in {"opened", "sent"},
           streams' = Append(streams, NewStream(id, settled, state))
    PROVE  StreamAdded(id)
<1> DEFINE s == NewStream(id, settled, state)
<1>1. /\ s \in StreamStates /\ s.track = id /\ s.target = NoRequest
      /\ s.read = 0 /\ s.state = state
  BY DEF NewStream, StreamStates
<1> HIDE DEF s
<1>2. streams' = Append(streams, s)
  BY DEF s
<1>3. /\ Append(streams, s) \in Seq(StreamStates) /\ Len(Append(streams, s)) = Len(streams) + 1
      /\ \A j \in 1 .. Len(streams) : Append(streams, s)[j] = streams[j]
      /\ Append(streams, s)[Len(streams) + 1] = s
  BY <1>1, AppendProperties
<1> QED  BY <1>1, <1>2, <1>3 DEF StreamAdded

-----------------------------------------------------------------------------
(***************************************************************************)
(* What each step does to the goroutines, the streams and the buffers.     *)
(***************************************************************************)

LEMMA OpenSubgroupDoes ==
    ASSUME DataTypeOK, NEW w \in Writers, NEW id \in Ids, OpenSubgroup(w, id)
    PROVE  \E r : WriterSet(w, r) /\ r.pc = "opening" /\ r.id = id
<1> DEFINE r == [NoWork EXCEPT !.pc = "opening", !.id = id]
<1>1. r \in WriterStates /\ r.pc = "opening" /\ r.id = id
  BY WorkType
<1>2. Working(w, r)
  BY DEF OpenSubgroup
<1> HIDE DEF r
<1> QED  BY <1>1, <1>2, WorkingSets DEF DataTypeOK

LEMMA StopDoes ==
    ASSUME DataTypeOK, NEW w \in Writers, Working(w, NoWork)
    PROVE  WriterSet(w, NoWork) /\ NoWork.pc = "idle"
<1>1. NoWork \in WriterStates /\ NoWork.pc = "idle"
  BY DEF NoWork, WriterStates
<1> QED  BY <1>1, WorkingSets DEF DataTypeOK

LEMMA OpenStreamDoes ==
    ASSUME DataTypeOK, PublishInv, NEW w \in Writers, OpenStream(w, TRUE)
    PROVE  LET id == writer[w].id IN
           /\ id \in Ids /\ StreamAdded(id) /\ UNCHANGED subgroupCount
           /\ streams'[Len(streams) + 1].state = "opened"
           /\ \E r : /\ WriterSet(w, r) /\ r.pc = "counting" /\ r.id = id
                     /\ r.stream = Len(streams) + 1 /\ r.seen = subgroupCount[id]
<1> DEFINE id == writer[w].id
           r == [writer[w] EXCEPT !.pc = "counting", !.stream = Len(streams) + 1,
                                  !.seen = subgroupCount[id]]
<1>1. id \in Ids /\ writer[w] \in WriterStates /\ streams \in Seq(StreamStates)
      /\ Len(streams) + 1 \in Nat /\ subgroupCount[id] \in Nat
  <2>1. id \in Ids
    BY DEF PublishInv, WriterInv, OpenStream
  <2>2. streams \in Seq(StreamStates)
    BY DEF DataTypeOK
  <2> QED  BY <2>1, <2>2 DEF DataTypeOK
<1>2. /\ r \in WriterStates /\ r.pc = "counting" /\ r.id = id
      /\ r.stream = Len(streams) + 1 /\ r.seen = subgroupCount[id]
  BY <1>1 DEF WriterStates
<1>3. Working(w, r) /\ UNCHANGED subgroupCount
      /\ streams' = Append(streams, NewStream(id, Settled(id), "opened"))
  BY DEF OpenStream
<1> HIDE DEF r
<1>4. WriterSet(w, r)
  BY <1>2, <1>3, WorkingSets DEF DataTypeOK
<1>5. Settled(id) \in BOOLEAN
  BY DEF Settled
<1>6. StreamAdded(id)
  BY <1>1, <1>3, <1>5, StreamAppended
<1>7. streams'[Len(streams) + 1].state = "opened"
  <2>1. NewStream(id, Settled(id), "opened") \in StreamStates
        /\ NewStream(id, Settled(id), "opened").state = "opened"
    BY <1>1, <1>5 DEF NewStream, StreamStates
  <2> QED  BY <1>1, <1>3, <2>1, AppendProperties
<1> QED  BY <1>1, <1>2, <1>3, <1>4, <1>6, <1>7

LEMMA NoStreamDoes ==
    ASSUME DataTypeOK, PublishInv, NEW w \in Writers, OpenStream(w, FALSE)
    PROVE  WriterSet(w, NoWork) /\ NoWork.pc = "idle" /\ UNCHANGED <<streams, subgroupCount>>
<1>1. Working(w, NoWork) /\ UNCHANGED streams
      /\ subgroupCount' = [subgroupCount EXCEPT ![writer[w].id] = CountAfter(@, FALSE)]
  BY DEF OpenStream
<1>2. UNCHANGED subgroupCount
  BY <1>1 DEF CountAfter, DataTypeOK
<1> QED  BY <1>1, <1>2, StopDoes

LEMMA WriteHeaderDoes ==
    ASSUME DataTypeOK, PublishInv, NEW w \in Writers, WriteHeader(w)
    PROVE  LET id == writer[w].id
               i == writer[w].stream IN
           /\ id \in Ids /\ i \in 1 .. Len(streams)
           /\ \E s : /\ StreamSet(i, s) /\ s.state \in {"sent", "cut"}
                     /\ s.target = streams[i].target /\ s.read = streams[i].read
           /\ \E r : /\ WriterSet(w, r)
                     /\ \/ r.pc = "writing" /\ r.id = id /\ r.stream = i
                        \/ r.pc = "idle"
           /\ subgroupCount' = [subgroupCount EXCEPT ![id] = writer[w].seen + 1]
<1> DEFINE id == writer[w].id
           i == writer[w].stream
           v == IF conn = "up" THEN "sent" ELSE "cut"
           s == [streams[i] EXCEPT !.state = v]
           r == IF conn = "up" THEN [writer[w] EXCEPT !.pc = "writing", !.seen = 0] ELSE NoWork
<1>1. id \in Ids /\ i \in 1 .. Len(streams) /\ streams \in Seq(StreamStates)
      /\ writer[w] \in WriterStates
  BY DEF PublishInv, WriterInv, WriteHeader, DataTypeOK
<1>2. streams[i] \in StreamStates
  BY <1>1, ElementOfSeq
<1>3. /\ s \in StreamStates /\ s.track = streams[i].track /\ s.state = v
      /\ s.target = streams[i].target /\ s.read = streams[i].read
  <2>1. v \in {"opened", "sent", "accepted", "reading", "ended", "unknown", "tooMany", "cut"}
    OBVIOUS
  <2> HIDE DEF v
  <2> QED  BY <1>2, <2>1 DEF StreamStates
<1>4. r \in WriterStates /\ \/ r.pc = "writing" /\ r.id = id /\ r.stream = i
                            \/ r.pc = "idle"
  <2>1. LET t == [writer[w] EXCEPT !.pc = "writing", !.seen = 0] IN
        t \in WriterStates /\ t.pc = "writing" /\ t.id = id /\ t.stream = i
    BY <1>1 DEF WriterStates
  <2>2. NoWork \in WriterStates /\ NoWork.pc = "idle"
    BY DEF NoWork, WriterStates
  <2> QED  BY <2>1, <2>2, Zenon
<1>5. /\ streams' = [streams EXCEPT ![i] = s] /\ Working(w, r)
      /\ subgroupCount' = [subgroupCount EXCEPT ![id] = writer[w].seen + 1]
  BY DEF WriteHeader, CountAfter
<1> HIDE DEF s, r
<1>6. StreamSet(i, s) /\ WriterSet(w, r)
  BY <1>1, <1>3, <1>4, <1>5, StreamReplaced, WorkingSets DEF DataTypeOK
<1> QED  BY <1>1, <1>3, <1>4, <1>5, <1>6

LEMMA GetFetchStreamDoes ==
    ASSUME DataTypeOK, PublishInv, NEW w \in Writers, NEW id \in Ids, GetFetchStream(w, id)
    PROVE  /\ fetchLock[id] = NoOne /\ Kind(id) = "fetch"
           /\ \E r : /\ WriterSet(w, r) /\ r.id = id
                     /\ \/ /\ r.pc = "writing" /\ r.stream \in 1 .. Len(streams)
                           /\ UNCHANGED fetchLock
                        \/ /\ r.pc = "fetching" /\ fetchStream[id] = 0
                           /\ fetchLock' = [fetchLock EXCEPT ![id] = w]
<1>1. fetchLock[id] = NoOne /\ Kind(id) = "fetch"
  BY DEF GetFetchStream, FetchLockFree
<1>2. CASE fetchStream[id] # 0
  <2> DEFINE r == [NoWork EXCEPT !.pc = "writing", !.id = id, !.stream = fetchStream[id]]
  <2>1. fetchStream[id] \in 1 .. Len(streams) /\ fetchStream[id] \in Nat
    BY <1>2 DEF PublishInv, FetchInv, DataTypeOK
  <2>2. r \in WriterStates /\ r.pc = "writing" /\ r.id = id /\ r.stream = fetchStream[id]
    <3>1. NoWork \in WriterStates
      BY DEF NoWork, WriterStates
    <3> QED  BY <2>1, <3>1 DEF WriterStates
  <2>3. Working(w, r) /\ UNCHANGED fetchLock
    BY <1>2 DEF GetFetchStream
  <2> HIDE DEF r
  <2> QED  BY <1>1, <2>1, <2>2, <2>3, WorkingSets DEF DataTypeOK
<1>3. CASE fetchStream[id] = 0
  <2> DEFINE r == [NoWork EXCEPT !.pc = "fetching", !.id = id]
  <2>1. r \in WriterStates /\ r.pc = "fetching" /\ r.id = id
    BY WorkType
  <2>2. Working(w, r) /\ fetchLock' = [fetchLock EXCEPT ![id] = w]
    BY <1>3 DEF GetFetchStream
  <2> HIDE DEF r
  <2> QED  BY <1>1, <1>3, <2>1, <2>2, WorkingSets DEF DataTypeOK
<1> QED  BY <1>2, <1>3

LEMMA OpenFetchStreamDoes ==
    ASSUME DataTypeOK, PublishInv, NEW w \in Writers, NEW ok \in BOOLEAN, OpenFetchStream(w, ok)
    PROVE  LET id == writer[w].id IN
           /\ id \in Ids /\ fetchLock' = [fetchLock EXCEPT ![id] = NoOne]
           /\ Kind(id) = "fetch" /\ fetchLock[id] = w /\ fetchStream[id] = 0
           /\ \/ /\ StreamAdded(id)
                 /\ fetchStream' = [fetchStream EXCEPT ![id] = Len(streams) + 1]
                 /\ \E r : /\ WriterSet(w, r) /\ r.pc = "writing" /\ r.id = id
                           /\ r.stream = Len(streams) + 1
              \/ WriterSet(w, NoWork) /\ NoWork.pc = "idle" /\ UNCHANGED <<streams, fetchStream>>
<1> DEFINE id == writer[w].id
           r == [writer[w] EXCEPT !.pc = "writing", !.stream = Len(streams) + 1]
<1>1. id \in Ids /\ writer[w] \in WriterStates /\ streams \in Seq(StreamStates)
      /\ Kind(id) = "fetch" /\ fetchLock[id] = w /\ fetchStream[id] = 0
  BY DEF PublishInv, WriterInv, OpenFetchStream, DataTypeOK
<1>2. Len(streams) + 1 \in Nat /\ fetchLock' = [fetchLock EXCEPT ![id] = NoOne]
  BY <1>1 DEF OpenFetchStream
<1>3. CASE ok
  <2>1. r \in WriterStates /\ r.pc = "writing" /\ r.id = id /\ r.stream = Len(streams) + 1
    BY <1>1, <1>2 DEF WriterStates
  <2>2. /\ Working(w, r) /\ fetchStream' = [fetchStream EXCEPT ![id] = Len(streams) + 1]
        /\ streams' = Append(streams, NewStream(id, Settled(id), "sent"))
    BY <1>3 DEF OpenFetchStream
  <2> HIDE DEF r
  <2>3. Settled(id) \in BOOLEAN
    BY DEF Settled
  <2>4. StreamAdded(id) /\ WriterSet(w, r)
    BY <1>1, <2>1, <2>2, <2>3, StreamAppended, WorkingSets DEF DataTypeOK
  <2> QED  BY <1>1, <1>2, <2>1, <2>2, <2>4
<1>4. CASE ~ok
  BY <1>1, <1>2, <1>4, StopDoes DEF OpenFetchStream
<1> QED  BY <1>3, <1>4

\* The fields that matter to the reader stay.
LEMMA WriteDoes ==
    ASSUME DataTypeOK, PublishInv, NEW w \in Writers, WriteObject(w) \/ CloseStream(w)
    PROVE  LET i == writer[w].stream IN
           /\ i \in 1 .. Len(streams)
           /\ \E s : /\ StreamSet(i, s) /\ s.state = streams[i].state
                     /\ s.target = streams[i].target /\ s.read = streams[i].read
<1> DEFINE i == writer[w].stream
<1>1. i \in 1 .. Len(streams) /\ streams \in Seq(StreamStates)
  BY DEF PublishInv, WriterInv, WriteObject, CloseStream, DataTypeOK
<1>2. streams[i] \in StreamStates
  BY <1>1, ElementOfSeq
<1>3. CASE WriteObject(w)
  <2> DEFINE s == [streams[i] EXCEPT !.written = streams[i].written + 1]
  <2>1. /\ s \in StreamStates /\ s.track = streams[i].track /\ s.state = streams[i].state
        /\ s.target = streams[i].target /\ s.read = streams[i].read
    BY <1>2 DEF StreamStates
  <2>2. streams' = [streams EXCEPT ![i] = s]
    BY <1>3 DEF WriteObject
  <2> HIDE DEF s
  <2> QED  BY <1>1, <2>1, <2>2, StreamReplaced
<1>4. CASE CloseStream(w)
  <2> DEFINE v == (conn = "up") \/ streams[i].fin
             s == [streams[i] EXCEPT !.fin = v]
  <2>1. /\ s \in StreamStates /\ s.track = streams[i].track /\ s.state = streams[i].state
        /\ s.target = streams[i].target /\ s.read = streams[i].read
    <3>1. v \in BOOLEAN
      OBVIOUS
    <3> HIDE DEF v
    <3> QED  BY <1>2, <3>1 DEF StreamStates
  <2>2. streams' = [streams EXCEPT ![i] = s]
    BY <1>4 DEF CloseStream
  <2> HIDE DEF s
  <2> QED  BY <1>1, <2>1, <2>2, StreamReplaced
<1> QED  BY <1>3, <1>4

LEMMA StateDoes ==
    ASSUME DataTypeOK, NEW i \in 1 .. MaxStreams,
           AcceptStream(i) \/ EndOfStream(i) \/ StreamCut(i)
    PROVE  /\ i \in 1 .. Len(streams) /\ streams[i].state \in {"sent", "accepted", "reading"}
           /\ \E s : /\ StreamSet(i, s) /\ s.state \in {"accepted", "ended", "cut"}
                     /\ s.state = "accepted" => streams[i].state = "sent"
                     /\ s.target = streams[i].target /\ s.read = streams[i].read
<1>1. i \in 1 .. Len(streams) /\ streams \in Seq(StreamStates)
  BY DataAssumption DEF AcceptStream, EndOfStream, StreamCut, DataTypeOK
<1>2. streams[i] \in StreamStates
  BY <1>1, ElementOfSeq
<1>3. PICK v \in {"accepted", "ended", "cut"} :
        streams' = [streams EXCEPT ![i].state = v] /\ (v = "accepted" => streams[i].state = "sent")
  BY DEF AcceptStream, EndOfStream, StreamCut
<1> DEFINE s == [streams[i] EXCEPT !.state = v]
<1>4. /\ s \in StreamStates /\ s.track = streams[i].track /\ s.state = v
      /\ s.target = streams[i].target /\ s.read = streams[i].read
  BY <1>2, <1>3 DEF StreamStates
<1>5. streams' = [streams EXCEPT ![i] = s]
  BY <1>3
<1> HIDE DEF s
<1>6. StreamSet(i, s)
  BY <1>1, <1>4, <1>5, StreamReplaced
<1>7. streams[i].state \in {"sent", "accepted", "reading"}
  BY DEF AcceptStream, EndOfStream, StreamCut
<1> QED  BY <1>1, <1>3, <1>4, <1>6, <1>7

\* What the subscriber finds for a stream or a datagram is a request ID, or nothing.
LEMMA FoundType ==
    ASSUME TypeOK, NEW e \in Endpoints
    PROVE  /\ \A id : FindByRequestID(e, id) \in Ids \cup {NoRequest}
           /\ \A alias : FindByTrackAlias(e, alias) \in Ids \cup {NoRequest}
<1>1. \A id : FindByRequestID(e, id) \in Ids \cup {NoRequest}
  BY DEF FindByRequestID, Remote, TypeOK
<1> QED  BY <1>1 DEF FindByTrackAlias

LEMMA FindTrackDoes ==
    ASSUME TypeOK, DataTypeOK, NEW i \in 1 .. MaxStreams, FindTrack(i)
    PROVE  LET id == streams[i].track IN
           /\ i \in 1 .. Len(streams) /\ streams[i].state = "accepted"
           /\ \E s : /\ StreamSet(i, s) /\ s.read = streams[i].read
                     /\ s.state \in {"reading", "unknown", "tooMany"}
                     /\ s.state = "reading" => s.target # NoRequest
                     /\ s.state = "unknown" /\ Kind(id) = "fetch" => id \notin Remote(Subscriber(id))
<1> DEFINE id == streams[i].track
           e == Subscriber(id)
           t == IF Kind(id) = "fetch" THEN FindByRequestID(e, HeaderKey(id))
                ELSE FindByTrackAlias(e, HeaderKey(id))
           second == Kind(id) = "fetch" /\ \E j \in StreamsOf(id) : streams[j].target = t
           v == IF t = NoRequest THEN "unknown" ELSE IF second THEN "tooMany" ELSE "reading"
           s == [streams[i] EXCEPT !.state = v, !.target = t]
<1>1. i \in 1 .. Len(streams) /\ streams \in Seq(StreamStates) /\ streams[i].state = "accepted"
  BY DataAssumption DEF FindTrack, DataTypeOK
<1>2. streams[i] \in StreamStates
  BY <1>1, ElementOfSeq
<1>3. id \in Ids /\ e \in Endpoints
  BY <1>2, TrackEnds DEF StreamStates
<1>4. t \in Ids \cup {NoRequest}
  BY <1>3, FoundType
<1>5. v = "unknown" /\ Kind(id) = "fetch" => id \notin Remote(e)
  BY <1>3, TrackEnds DEF FindByRequestID, HeaderKey
<1>6. v \in {"reading", "unknown", "tooMany"} /\ (v = "reading" => t # NoRequest)
  OBVIOUS
<1>7. streams' = [streams EXCEPT ![i].state = v, ![i].target = t]
  BY Zenon DEF FindTrack
<1> HIDE DEF v, t
<1>8. /\ s \in StreamStates /\ s.track = streams[i].track /\ s.state = v
      /\ s.target = t /\ s.read = streams[i].read
  BY <1>2, <1>4, <1>6 DEF StreamStates
<1>9. streams' = [streams EXCEPT ![i] = s]
  BY <1>1, <1>7
<1> HIDE DEF s
<1>10. StreamSet(i, s)
  BY <1>1, <1>8, <1>9, StreamReplaced
<1> QED  BY <1>1, <1>5, <1>6, <1>8, <1>10

\* An object is put into the buffer of a track, or dropped.
PushSet(t, o) ==
    /\ buffer' \in [Ids -> Seq(Objects)] /\ dropped' \in [Ids -> SUBSET Objects]
    /\ \A id \in Ids : Len(buffer'[id]) <= BufferSize
    /\ \A id \in Ids : id # t => buffer'[id] = buffer[id] /\ dropped'[id] = dropped[id]
    /\ \/ buffer'[t] = Append(buffer[t], o) /\ dropped'[t] = dropped[t]
       \/ buffer'[t] = buffer[t] /\ dropped'[t] = dropped[t] \cup {o}
LEMMA PushDoes ==
    ASSUME DataTypeOK, NEW t \in Ids, NEW o \in Objects, Push(t, o)
    PROVE  PushSet(t, o)
<1>1. buffer \in [Ids -> Seq(Objects)] /\ dropped \in [Ids -> SUBSET Objects]
      /\ \A id \in Ids : buffer[id] \in Seq(Objects) /\ Len(buffer[id]) <= BufferSize
  BY DEF DataTypeOK
<1>2. CASE Len(buffer[t]) < BufferSize
  <2> DEFINE b == Append(buffer[t], o)
  <2>1. b \in Seq(Objects) /\ Len(b) <= BufferSize
    BY <1>1, <1>2, DataAssumption, AppendProperties
  <2>2. buffer' = [buffer EXCEPT ![t] = b] /\ dropped' = dropped
    BY <1>1, <1>2 DEF Push, BufferAfter
  <2> HIDE DEF b
  <2>3. buffer' \in [Ids -> Seq(Objects)] /\ buffer'[t] = b
        /\ \A id \in Ids : id # t => buffer'[id] = buffer[id]
    BY <1>1, <2>1, <2>2
  <2>4. \A id \in Ids : Len(buffer'[id]) <= BufferSize
    BY <1>1, <2>1, <2>3
  <2> QED  BY <1>1, <2>2, <2>3, <2>4 DEF PushSet, b
<1>3. CASE ~(Len(buffer[t]) < BufferSize)
  <2>1. buffer' = buffer
    BY <1>1, <1>3 DEF Push, BufferAfter
  <2>2. dropped' = [dropped EXCEPT ![t] = dropped[t] \cup {o}]
    BY <1>1, <1>3 DEF Push
  <2>3. dropped[t] \cup {o} \in SUBSET Objects
    BY <1>1
  <2> QED  BY <1>1, <2>1, <2>2, <2>3 DEF PushSet
<1> QED  BY <1>2, <1>3

LEMMA ReadStreamDoes ==
    ASSUME DataTypeOK, PublishInv, NEW i \in 1 .. MaxStreams, ReadStream(i)
    PROVE  LET t == streams[i].target
               o == Object(streams[i].track, i, streams[i].read + 1) IN
           /\ i \in 1 .. Len(streams) /\ t \in Ids /\ streams[i].state = "reading"
           /\ o \in Objects /\ o.stream = i /\ o.n = streams[i].read + 1 /\ streams[i].read \in Nat
           /\ PushSet(t, o)
           /\ \E s : /\ StreamSet(i, s) /\ s.state = "reading"
                     /\ s.target = t /\ s.read = streams[i].read + 1
<1> DEFINE t == streams[i].target
           o == Object(streams[i].track, i, streams[i].read + 1)
           s == [streams[i] EXCEPT !.read = streams[i].read + 1]
<1>1. i \in 1 .. Len(streams) /\ streams \in Seq(StreamStates) /\ streams[i].state = "reading"
      /\ i \in Nat
  BY DataAssumption DEF ReadStream, DataTypeOK
<1>2. streams[i] \in StreamStates
  BY <1>1, ElementOfSeq
<1>3. t \in Ids /\ streams[i].read \in Nat
  BY <1>1, <1>2 DEF PublishInv, StreamInv, StreamStates
<1>4. o \in Objects /\ o.stream = i /\ o.n = streams[i].read + 1
  BY <1>1, <1>2, <1>3 DEF Object, Objects, StreamStates
<1>5. PushSet(t, o)
  <2>1. Push(t, o)
    BY DEF ReadStream
  <2> QED  BY <1>3, <1>4, <2>1, PushDoes
<1>6. /\ s \in StreamStates /\ s.track = streams[i].track /\ s.state = streams[i].state
      /\ s.target = t /\ s.read = streams[i].read + 1
  BY <1>2, <1>3 DEF StreamStates
<1>7. streams' = [streams EXCEPT ![i] = s]
  BY DEF ReadStream
<1> HIDE DEF s
<1>8. StreamSet(i, s)
  BY <1>1, <1>6, <1>7, StreamReplaced
<1> QED  BY <1>1, <1>3, <1>4, <1>5, <1>6, <1>8

\* The lemmas below have one step for each action of the data plane.
LEMMA DataTypeStep ==
    ASSUME TypeOK, DataTypeOK, PublishInv, [DataNext]_<<vars, dataVars>>
    PROVE  DataTypeOK'
<1> USE DEF publisherVars, datagramVars, bufferVars, readVars
<1>0. DataTypeOK
  OBVIOUS
<1>1. CASE UNCHANGED dataVars
  BY <1>0, <1>1 DEF dataVars, DataTypeOK
<1>2. CASE TrackStep
  <2>1. doneCount' \in [Ids -> Nat \cup {-1}]
    BY <1>0, <1>2 DEF TrackStep, DataTypeOK
  <2>2. raced' \subseteq Ids
    BY <1>0, <1>2 DEF TrackStep, DataTypeOK
  <2> QED  BY <1>0, <1>2, <2>1, <2>2 DEF TrackStep, DataTypeOK
<1>3. ASSUME NEW w \in Writers, NEW id \in Ids, OpenSubgroup(w, id) PROVE DataTypeOK'
  <2>1. writer' \in [Writers -> WriterStates]
    BY <1>3, OpenSubgroupDoes DEF WriterSet
  <2> QED  BY <1>0, <1>3, <2>1 DEF OpenSubgroup, DataTypeOK
<1>4. ASSUME NEW w \in Writers, NEW ok \in BOOLEAN, OpenStream(w, ok) PROVE DataTypeOK'
  <2>1. writer' \in [Writers -> WriterStates] /\ streams' \in Seq(StreamStates)
        /\ UNCHANGED subgroupCount
    <3>1. CASE ok
      BY <1>4, <3>1, OpenStreamDoes DEF WriterSet, StreamAdded
    <3>2. CASE ~ok
      BY <1>0, <1>4, <3>2, NoStreamDoes DEF WriterSet, DataTypeOK
    <3> QED  BY <3>1, <3>2
  <2> QED  BY <1>0, <1>4, <2>1 DEF OpenStream, DataTypeOK
<1>5. ASSUME NEW w \in Writers, WriteHeader(w) PROVE DataTypeOK'
  <2>1. writer' \in [Writers -> WriterStates] /\ streams' \in Seq(StreamStates)
    BY <1>5, WriteHeaderDoes DEF WriterSet, StreamSet
  <2>2. subgroupCount' \in [Ids -> Nat]
    <3>1. /\ subgroupCount' = [subgroupCount EXCEPT ![writer[w].id] = writer[w].seen + 1]
          /\ writer[w].id \in Ids
      BY <1>5, WriteHeaderDoes
    <3>2. writer[w].seen + 1 \in Nat
      BY <1>0 DEF DataTypeOK, WriterStates
    <3> QED  BY <1>0, <3>1, <3>2 DEF DataTypeOK
  <2> QED  BY <1>0, <1>5, <2>1, <2>2 DEF WriteHeader, DataTypeOK
<1>6. ASSUME NEW w \in Writers, NEW id \in Ids, GetFetchStream(w, id) PROVE DataTypeOK'
  <2>1. writer' \in [Writers -> WriterStates]
        /\ fetchLock' \in {fetchLock, [fetchLock EXCEPT ![id] = w]}
    BY <1>6, GetFetchStreamDoes DEF WriterSet
  <2>2. fetchLock' \in [Ids -> Writers \cup {NoOne}]
    BY <1>0, <2>1 DEF DataTypeOK
  <2> QED  BY <1>0, <1>6, <2>1, <2>2 DEF GetFetchStream, DataTypeOK
<1>7. ASSUME NEW w \in Writers, NEW ok \in BOOLEAN, OpenFetchStream(w, ok) PROVE DataTypeOK'
  <2>1. writer' \in [Writers -> WriterStates] /\ streams' \in Seq(StreamStates)
        /\ fetchStream' \in {fetchStream, [fetchStream EXCEPT ![writer[w].id] = Len(streams) + 1]}
        /\ fetchLock' = [fetchLock EXCEPT ![writer[w].id] = NoOne]
    BY <1>0, <1>7, OpenFetchStreamDoes DEF WriterSet, StreamAdded, DataTypeOK
  <2>2. fetchLock' \in [Ids -> Writers \cup {NoOne}]
    BY <1>0, <2>1 DEF DataTypeOK
  <2>3. fetchStream' \in [Ids -> Nat]
    <3>1. Len(streams) + 1 \in Nat
      BY <1>0 DEF DataTypeOK
    <3> QED  BY <1>0, <2>1, <3>1 DEF DataTypeOK
  <2> QED  BY <1>0, <1>7, <2>1, <2>2, <2>3 DEF OpenFetchStream, DataTypeOK
<1>8. ASSUME NEW w \in Writers, WriteObject(w) PROVE DataTypeOK'
  <2>1. streams' \in Seq(StreamStates)
    BY <1>8, WriteDoes DEF StreamSet
  <2> QED  BY <1>0, <1>8, <2>1 DEF WriteObject, DataTypeOK
<1>9. ASSUME NEW w \in Writers, CloseStream(w) PROVE DataTypeOK'
  <2>1. streams' \in Seq(StreamStates)
    BY <1>9, WriteDoes DEF StreamSet
  <2>2. writer' \in [Writers -> WriterStates]
    <3>1. Working(w, NoWork)
      BY <1>9 DEF CloseStream
    <3> QED  BY <3>1, StopDoes DEF WriterSet
  <2> QED  BY <1>0, <1>9, <2>1, <2>2 DEF CloseStream, DataTypeOK
<1>10. ASSUME NEW w \in Writers, NEW id \in Ids, SendDatagram(w, id) PROVE DataTypeOK'
  <2>1. Object(id, 0, datagramsSent + 1) \in Objects /\ datagramsSent + 1 \in Nat
    BY <1>0 DEF Object, Objects, DataTypeOK
  <2>2. Subscriber(id) \in Endpoints
    BY TrackEnds
  <2>3. datagrams' \subseteq Objects /\ datagramsSent' \in Nat /\ rash' \subseteq Endpoints
    BY <1>0, <1>10, <2>1, <2>2 DEF SendDatagram, DataTypeOK
  <2> QED  BY <1>0, <1>10, <2>3 DEF SendDatagram, DataTypeOK
<1>11. ASSUME NEW i \in 1 .. MaxStreams, AcceptStream(i) \/ EndOfStream(i) \/ StreamCut(i)
       PROVE  DataTypeOK'
  <2>1. streams' \in Seq(StreamStates)
    BY <1>11, StateDoes DEF StreamSet
  <2> QED  BY <1>0, <1>11, <2>1 DEF AcceptStream, EndOfStream, StreamCut, DataTypeOK
<1>12. ASSUME NEW i \in 1 .. MaxStreams, FindTrack(i) PROVE DataTypeOK'
  <2>1. streams' \in Seq(StreamStates)
    BY <1>12, FindTrackDoes DEF StreamSet
  <2> QED  BY <1>0, <1>12, <2>1 DEF FindTrack, DataTypeOK
<1>13. ASSUME NEW i \in 1 .. MaxStreams, ReadStream(i) PROVE DataTypeOK'
  <2>1. /\ streams' \in Seq(StreamStates) /\ buffer' \in [Ids -> Seq(Objects)]
        /\ dropped' \in [Ids -> SUBSET Objects]
        /\ \A id \in Ids : Len(buffer'[id]) <= BufferSize
    BY <1>13, ReadStreamDoes DEF StreamSet, PushSet
  <2> QED  BY <1>0, <1>13, <2>1 DEF ReadStream, DataTypeOK
<1>14. ASSUME NEW o \in datagrams, ReceiveDatagram(o) PROVE DataTypeOK'
  <2> DEFINE e == Subscriber(o.track)
             t == FindByTrackAlias(e, HeaderKey(o.track))
  <2>1. o \in Objects /\ e \in Endpoints /\ t \in Ids \cup {NoRequest}
    BY <1>0, TrackEnds, FoundType DEF DataTypeOK, Objects
  <2>2. datagrams' \subseteq Objects
    BY <1>0, <1>14 DEF ReceiveDatagram, DataTypeOK
  <2>3. CASE t = NoRequest
    <3>1. UNCHANGED bufferVars
          /\ dataReaders' = [dataReaders EXCEPT ![e].datagrams = "unknownTrackAlias"]
      BY <1>14, <2>3 DEF ReceiveDatagram
    <3>2. dataReaders' \in [Endpoints -> [streams : {"running", "ended"},
                                          datagrams : {"running", "ended", "unknownTrackAlias"}]]
      BY <1>0, <2>1, <3>1 DEF DataTypeOK
    <3> QED  BY <1>0, <1>14, <2>2, <3>1, <3>2 DEF ReceiveDatagram, DataTypeOK
  <2>4. CASE t # NoRequest
    <3>1. Push(t, o) /\ UNCHANGED dataReaders /\ t \in Ids
      BY <1>14, <2>1, <2>4 DEF ReceiveDatagram
    <3>2. PushSet(t, o)
      BY <2>1, <3>1, PushDoes
    <3> QED  BY <1>0, <1>14, <2>2, <3>1, <3>2 DEF ReceiveDatagram, DataTypeOK, PushSet
  <2> QED  BY <2>3, <2>4
<1>15. ASSUME NEW o \in datagrams, LoseDatagram(o) PROVE DataTypeOK'
  BY <1>0, <1>15 DEF LoseDatagram, DataTypeOK
<1>16. ASSUME NEW e \in Endpoints, NEW which \in {"streams", "datagrams"}, DataReaderEnds(e, which)
       PROVE  DataTypeOK'
  <2>1. dataReaders' \in [Endpoints -> [streams : {"running", "ended"},
                                        datagrams : {"running", "ended", "unknownTrackAlias"}]]
    BY <1>0, <1>16 DEF DataReaderEnds, DataTypeOK
  <2> QED  BY <1>0, <1>16, <2>1 DEF DataReaderEnds, DataTypeOK
<1>17. ASSUME NEW e \in Endpoints, NEW id \in Ids, ReadObject(e, id) PROVE DataTypeOK'
  <2>1. /\ buffer[id] \in Seq(Objects) /\ got[id] \in Seq(Objects) /\ buffer[id] # << >>
        /\ Len(buffer[id]) <= BufferSize
    BY <1>0, <1>17 DEF ReadObject, DataTypeOK
  <2>2. /\ Head(buffer[id]) \in Objects /\ Tail(buffer[id]) \in Seq(Objects)
        /\ Len(Tail(buffer[id])) <= BufferSize /\ Append(got[id], Head(buffer[id])) \in Seq(Objects)
    <3>1. /\ Head(buffer[id]) \in Objects /\ Tail(buffer[id]) \in Seq(Objects)
          /\ Len(Tail(buffer[id])) = Len(buffer[id]) - 1 /\ Len(buffer[id]) \in Nat
      BY <2>1, HeadTailProperties
    <3> QED  BY <2>1, <3>1, DataAssumption, AppendProperties
  <2>3. /\ buffer' = [buffer EXCEPT ![id] = Tail(buffer[id])]
        /\ got' = [got EXCEPT ![id] = Append(got[id], Head(buffer[id]))]
        /\ reading' = [reading EXCEPT ![id] = ~rt[e][id].done]
    BY <1>17 DEF ReadObject
  <2>4. buffer' \in [Ids -> Seq(Objects)] /\ got' \in [Ids -> Seq(Objects)]
        /\ \A j \in Ids : Len(buffer'[j]) <= BufferSize
    <3>1. buffer'[id] = Tail(buffer[id]) /\ \A j \in Ids : j # id => buffer'[j] = buffer[j]
      BY <1>0, <2>3 DEF DataTypeOK
    <3>2. \A j \in Ids : Len(buffer[j]) <= BufferSize
      BY <1>0 DEF DataTypeOK
    <3>3. buffer' \in [Ids -> Seq(Objects)] /\ got' \in [Ids -> Seq(Objects)]
      BY <1>0, <2>2, <2>3 DEF DataTypeOK
    <3> QED  BY <2>2, <3>1, <3>2, <3>3
  <2>5. reading' \in [Ids -> BOOLEAN]
    <3>1. (~rt[e][id].done) \in BOOLEAN
      OBVIOUS
    <3> QED  BY <1>0, <2>3, <3>1 DEF DataTypeOK
  <2> QED  BY <1>0, <1>17, <2>4, <2>5 DEF ReadObject, DataTypeOK
<1>18. ASSUME NEW e \in Endpoints, NEW id \in Ids, ReadDone(e, id) PROVE DataTypeOK'
  BY <1>0, <1>18 DEF ReadDone, DataTypeOK
<1>19. CASE DataStep
  BY <1>3, <1>4, <1>5, <1>6, <1>7, <1>8, <1>9, <1>10, <1>11, <1>12, <1>13, <1>14, <1>15, <1>16,
     <1>17, <1>18, <1>19
     DEF DataStep, WriterStep, WriterCall, StreamStep
<1> QED  BY <1>1, <1>2, <1>19 DEF DataNext

-----------------------------------------------------------------------------
(***************************************************************************)
(* The goroutines, the streams and the one stream of a fetch.              *)
(***************************************************************************)

\* The streams that were there are as far as before, but for one.
OthersSame(i) ==
    /\ Len(streams) <= Len(streams')
    /\ \A j \in 1 .. Len(streams) : j # i => streams'[j] = streams[j]

\* A goroutine goes on; the others see no difference.
LEMMA OneWriter ==
    ASSUME DataTypeOK, PublishInv, UNCHANGED vars, NEW w \in Writers, NEW r, WriterSet(w, r),
           NEW i, OthersSame(i),
           \A v \in Writers : v # w /\ writer[v].pc = "counting" => writer[v].stream # i,
           \A v \in Writers : v # w /\ writer[v].pc = "fetching" =>
             /\ fetchLock'[writer[v].id] = fetchLock[writer[v].id]
             /\ fetchStream'[writer[v].id] = fetchStream[writer[v].id],
           r.pc = "counting" => r.stream \notin 1 .. Len(streams),
           WriterInv(w)'
    PROVE  \A v \in Writers : WriterInv(v)'
<1>1. \A id : Kind(id)' = Kind(id)
  BY DEF Kind, vars, trackVars
<1>2. ASSUME NEW v \in Writers, v # w PROVE WriterInv(v)'
  <2>1. WriterInv(v) /\ writer'[v] = writer[v] /\ writer'[w] = r
    BY <1>2 DEF PublishInv, WriterSet
  <2>2. Len(streams) \in Nat /\ Len(streams') \in Nat
    BY DEF DataTypeOK, OthersSame
  <2>3. writer[v].stream \in 1 .. Len(streams) => writer[v].stream \in 1 .. Len(streams')
    BY <2>2 DEF OthersSame
  <2>4. ASSUME writer[v].pc = "counting"
        PROVE  /\ streams'[writer[v].stream].state = "opened"
               /\ \A x \in Writers :
                    writer'[x].pc = "counting" /\ writer'[x].stream = writer[v].stream => x = v
    <3>1. /\ writer[v].stream \in 1 .. Len(streams) /\ streams[writer[v].stream].state = "opened"
          /\ \A x \in Writers :
               writer[x].pc = "counting" /\ writer[x].stream = writer[v].stream => x = v
      BY <2>1, <2>4 DEF WriterInv
    <3>2. \A x \in Writers : x # w => writer'[x] = writer[x]
      BY DEF WriterSet
    <3> QED  BY <1>2, <2>1, <2>4, <3>1, <3>2 DEF OthersSame
  <2> QED  BY <1>1, <1>2, <2>1, <2>3, <2>4 DEF WriterInv
<1> QED  BY <1>2

\* No goroutine goes on; what changes is not the stream of one that counts.
LEMMA NoWriter ==
    ASSUME DataTypeOK, PublishInv, UNCHANGED <<vars, writer, fetchLock, fetchStream>>,
           NEW i, OthersSame(i),
           \A v \in Writers : writer[v].pc = "counting" /\ writer[v].stream = i =>
             streams'[i].state = "opened"
    PROVE  \A v \in Writers : WriterInv(v)'
<1>1. \A id : Kind(id)' = Kind(id)
  BY DEF Kind, vars, trackVars
<1>2. ASSUME NEW v \in Writers PROVE WriterInv(v)'
  <2>1. WriterInv(v)
    BY DEF PublishInv
  <2>2. Len(streams) \in Nat /\ Len(streams') \in Nat
    BY DEF DataTypeOK, OthersSame
  <2>3. writer[v].stream \in 1 .. Len(streams) => writer[v].stream \in 1 .. Len(streams')
    BY <2>2 DEF OthersSame
  <2>4. writer[v].pc = "counting" => streams'[writer[v].stream].state = "opened"
    BY <2>1 DEF WriterInv, OthersSame
  <2> QED  BY <1>1, <2>1, <2>3, <2>4 DEF WriterInv
<1> QED  BY <1>2

\* The streams are left alone.
LEMMA NoStream ==
    ASSUME PublishInv, UNCHANGED <<vars, streams, fetchStream>>
    PROVE  /\ \A j \in 1 .. Len(streams') : StreamInv(j)'
           /\ \A id \in Ids : FetchInv(id)'
           /\ \A i : OthersSame(i)
<1>1. \A id : Kind(id)' = Kind(id) /\ Subscriber(id)' = Subscriber(id)
              /\ \A e : Doomed(e, id)' = Doomed(e, id)
  BY DEF Kind, vars, trackVars, Doomed, Subscriber
<1>2. \A i : OthersSame(i)
  BY DEF OthersSame
<1> QED  BY <1>1, <1>2 DEF PublishInv, StreamInv, FetchInv

\* One stream changes.
LEMMA OneStream ==
    ASSUME DataTypeOK, PublishInv, UNCHANGED <<vars, fetchStream>>, NEW i, NEW s, StreamSet(i, s),
           s.state = "reading" => s.target # NoRequest,
           s.state \in {"opened", "sent", "accepted"} => s.target = NoRequest /\ s.read = 0,
           s.state = "unknown" /\ Kind(s.track) = "fetch" => Doomed(Subscriber(s.track), s.track)
    PROVE  /\ \A j \in 1 .. Len(streams') : StreamInv(j)'
           /\ \A id \in Ids : FetchInv(id)'
           /\ OthersSame(i)
<1>1. \A id : Kind(id)' = Kind(id) /\ Subscriber(id)' = Subscriber(id)
              /\ \A e : Doomed(e, id)' = Doomed(e, id)
  BY DEF Kind, vars, trackVars, Doomed, Subscriber
<1>2. OthersSame(i)
  BY DEF OthersSame, StreamSet, DataTypeOK
<1>3. \A id \in Ids : FetchInv(id)'
  BY DEF PublishInv, FetchInv, StreamSet
<1>4. StreamInv(i) /\ s.track = streams[i].track /\ streams'[i] = s
  BY DEF PublishInv, StreamSet
<1>5. StreamInv(i)'
  BY <1>1, <1>4 DEF StreamInv
<1>6. ASSUME NEW j \in 1 .. Len(streams'), j # i PROVE StreamInv(j)'
  <2>1. StreamInv(j) /\ streams'[j] = streams[j]
    BY <1>6 DEF PublishInv, StreamSet
  <2> QED  BY <1>1, <2>1 DEF StreamInv
<1> QED  BY <1>2, <1>3, <1>5, <1>6

\* A stream is opened.
LEMMA NewStreamInv ==
    ASSUME DataTypeOK, PublishInv, UNCHANGED vars, NEW id \in Ids, StreamAdded(id),
           \/ Kind(id) = "subscribe" /\ UNCHANGED fetchStream
           \/ /\ Kind(id) = "fetch" /\ fetchStream[id] = 0
              /\ fetchStream' = [fetchStream EXCEPT ![id] = Len(streams) + 1]
    PROVE  /\ \A j \in 1 .. Len(streams') : StreamInv(j)'
           /\ \A x \in Ids : FetchInv(x)'
           /\ OthersSame(Len(streams) + 1)
<1>1. \A x : Kind(x)' = Kind(x) /\ Subscriber(x)' = Subscriber(x)
             /\ \A e : Doomed(e, x)' = Doomed(e, x)
  BY DEF Kind, vars, trackVars, Doomed, Subscriber
<1>2. Len(streams) \in Nat /\ Len(streams') = Len(streams) + 1
  BY DEF DataTypeOK, StreamAdded
<1>3. OthersSame(Len(streams) + 1)
  BY <1>2 DEF OthersSame, StreamAdded
<1>4. \A x \in Ids : fetchStream'[x] = fetchStream[x]
                     \/ (x = id /\ fetchStream'[x] = Len(streams) + 1 /\ fetchStream[x] = 0)
  BY DEF DataTypeOK
<1>5. \A x \in Ids : FetchInv(x)'
  <2>1. \A x \in Ids : FetchInv(x)
    BY DEF PublishInv
  <2>2. Len(streams) + 1 \in 1 .. Len(streams')
        /\ \A n \in 1 .. Len(streams) : n \in 1 .. Len(streams')
    BY <1>2
  <2> QED  BY <1>4, <2>1, <2>2 DEF FetchInv
<1>6. ASSUME NEW n, n = Len(streams) + 1 PROVE StreamInv(n)'
  <2>1. Kind(id) = "fetch" => fetchStream'[id] = n
    BY <1>6 DEF DataTypeOK
  <2>2. streams'[n].track = id /\ streams'[n].target = NoRequest /\ streams'[n].read = 0
        /\ streams'[n].state \in {"opened", "sent"}
    BY <1>6 DEF StreamAdded
  <2>3. Kind(id)' = Kind(id) /\ Kind(id) # "none"
    BY <1>1
  <2> QED  BY <2>1, <2>2, <2>3 DEF StreamInv
<1>7. ASSUME NEW j \in 1 .. Len(streams) PROVE StreamInv(j)'
  <2>1. StreamInv(j) /\ streams'[j] = streams[j] /\ streams[j].track \in Ids
    <3>1. streams[j] \in StreamStates
      BY ElementOfSeq DEF DataTypeOK
    <3> QED  BY <3>1 DEF PublishInv, StreamAdded, StreamStates
  <2>2. Kind(streams[j].track) = "fetch" => fetchStream'[streams[j].track] = j
    <3>1. Kind(streams[j].track) = "fetch" => fetchStream[streams[j].track] = j /\ j # 0
      BY <1>2, <2>1 DEF StreamInv
    <3> QED  BY <1>4, <2>1, <3>1
  <2> QED  BY <1>1, <2>1, <2>2 DEF StreamInv
<1>8. \A j \in 1 .. Len(streams') : j \in 1 .. Len(streams) \/ j = Len(streams) + 1
  BY <1>2
<1> QED  BY <1>3, <1>5, <1>6, <1>7, <1>8

\* A request that the publisher has seen and the subscriber has not filed is doomed.
LEMMA UnfiledIsDoomed ==
    ASSUME TypeOK, RequestInv, FiledInv, NEW id \in Ids, Kind(id) = "fetch",
           id \notin Remote(Subscriber(id))
    PROVE  Doomed(Subscriber(id), id)
<1> DEFINE e == Subscriber(id)
<1>1. e \in Endpoints /\ Peer(e) = Publisher(id)
  BY TrackEnds
<1>2. PairInv(e, id) /\ CallInv(e, id)
  BY <1>1 DEF RequestInv, FiledInv
<1>3. rt[e][id].call \notin {"none", "begun"}
  BY <1>1, <1>2 DEF PairInv, Kind
<1>4. rt[e][id].call \in {"none", "begun", "waiting", "aborting", "ok", "refused", "cancelled",
                         "unsent"}
  BY <1>1 DEF TypeOK, RemoteTrack
<1> QED  BY <1>2, <1>3, <1>4 DEF CallInv, Doomed

\* Every step of the data plane keeps goroutines and streams in order.
LEMMA PublishData ==
    ASSUME TypeOK, RequestInv, FiledInv, DataTypeOK, PublishInv, DataStep, UNCHANGED vars
    PROVE  PublishInv'
<1> USE DEF publisherVars, datagramVars, bufferVars, readVars
<1> DEFINE W == \A v \in Writers : WriterInv(v)'
           S == (\A j \in 1 .. Len(streams') : StreamInv(j)') /\ (\A x \in Ids : FetchInv(x)')
<1>k. \A x : Kind(x)' = Kind(x)
  BY DEF Kind, vars, trackVars
<1>t. /\ writer \in [Writers -> WriterStates] /\ Len(streams) \in Nat /\ streams \in Seq(StreamStates)
      /\ fetchLock \in [Ids -> Writers \cup {NoOne}] /\ fetchStream \in [Ids -> Nat]
      /\ \A v \in Writers : WriterInv(v)
      /\ \A j \in 1 .. Len(streams) : StreamInv(j)
  BY DEF DataTypeOK, PublishInv
<1>q. W /\ S => PublishInv'
  BY DEF PublishInv
<1> HIDE DEF W, S
<1>1. CASE UNCHANGED <<writer, streams, fetchLock, fetchStream>>
  <2>1. S /\ OthersSame(0)
    BY <1>1, NoStream DEF S
  <2>2. W
    BY <1>1, <1>t, <2>1, NoWriter DEF W, WriterInv
  <2> QED  BY <1>q, <2>1, <2>2
<1>3. ASSUME NEW w \in Writers, NEW id \in Ids, OpenSubgroup(w, id) PROVE W /\ S
  <2>1. UNCHANGED <<streams, fetchLock, fetchStream>> /\ Kind(id) = "subscribe"
    BY <1>3 DEF OpenSubgroup
  <2>2. S /\ OthersSame(0)
    BY <2>1, NoStream DEF S
  <2>3. PICK r : WriterSet(w, r) /\ r.pc = "opening" /\ r.id = id
    BY <1>3, OpenSubgroupDoes
  <2>4. WriterInv(w)'
    BY <1>k, <2>1, <2>3 DEF WriterInv, WriterSet
  <2>5. W
    BY <1>t, <2>1, <2>2, <2>3, <2>4, OneWriter DEF W, WriterInv
  <2> QED  BY <2>2, <2>5
<1>4. ASSUME NEW w \in Writers, OpenStream(w, TRUE) PROVE W /\ S
  <2> DEFINE id == writer[w].id
  <2>1. UNCHANGED <<fetchLock, fetchStream>> /\ writer[w].pc = "opening"
    BY <1>4 DEF OpenStream
  <2>2. id \in Ids /\ Kind(id) = "subscribe"
    BY <1>t, <2>1 DEF WriterInv
  <2>3. StreamAdded(id) /\ streams'[Len(streams) + 1].state = "opened"
    BY <1>4, OpenStreamDoes
  <2>4. PICK r : /\ WriterSet(w, r) /\ r.pc = "counting" /\ r.id = id
                 /\ r.stream = Len(streams) + 1
    BY <1>4, OpenStreamDoes
  <2>5. S /\ OthersSame(Len(streams) + 1)
    BY <2>1, <2>2, <2>3, NewStreamInv DEF S
  <2>6. r.stream \in 1 .. Len(streams') /\ r.stream \notin 1 .. Len(streams)
    BY <1>t, <2>3, <2>4 DEF StreamAdded
  <2>7. \A v \in Writers : v # w /\ writer[v].pc = "counting" => writer[v].stream # Len(streams) + 1
    BY <1>t DEF WriterInv
  <2>8. WriterInv(w)'
    <3>1. \A v \in Writers : v # w => writer'[v] = writer[v]
      BY <2>4 DEF WriterSet
    <3> QED  BY <1>k, <2>2, <2>3, <2>4, <2>6, <2>7, <3>1 DEF WriterInv, WriterSet
  <2>9. W
    BY <2>1, <2>4, <2>5, <2>6, <2>7, <2>8, OneWriter DEF W
  <2> QED  BY <2>5, <2>9
<1>5. ASSUME NEW w \in Writers, OpenStream(w, FALSE) PROVE W /\ S
  <2>1. UNCHANGED <<streams, fetchLock, fetchStream>>
    BY <1>5, NoStreamDoes DEF OpenStream
  <2>2. S /\ OthersSame(0)
    BY <2>1, NoStream DEF S
  <2>3. WriterSet(w, NoWork) /\ NoWork.pc = "idle"
    BY <1>5, NoStreamDoes
  <2>4. WriterInv(w)'
    BY <2>3 DEF WriterInv, WriterSet
  <2>5. W
    BY <1>t, <2>1, <2>2, <2>3, <2>4, OneWriter DEF W, WriterInv
  <2> QED  BY <2>2, <2>5
<1>6. ASSUME NEW w \in Writers, WriteHeader(w) PROVE W /\ S
  <2> DEFINE i == writer[w].stream
  <2>1. /\ UNCHANGED <<fetchLock, fetchStream>> /\ writer[w].pc = "counting"
        /\ i \in 1 .. Len(streams) /\ writer[w].id \in Ids
    BY <1>6, WriteHeaderDoes DEF WriteHeader
  <2>2. PICK s : /\ StreamSet(i, s) /\ s.state \in {"sent", "cut"}
                 /\ s.target = streams[i].target /\ s.read = streams[i].read
    BY <1>6, WriteHeaderDoes
  <2>3. PICK r : /\ WriterSet(w, r)
                 /\ \/ r.pc = "writing" /\ r.id = writer[w].id /\ r.stream = i
                    \/ r.pc = "idle"
    BY <1>6, WriteHeaderDoes
  <2>4. streams[i].state = "opened" /\ s.target = NoRequest /\ s.read = 0
    BY <1>t, <2>1, <2>2 DEF WriterInv, StreamInv
  <2>5. S /\ OthersSame(i)
    BY <2>1, <2>2, <2>4, OneStream DEF S
  <2>6. \A v \in Writers : v # w /\ writer[v].pc = "counting" => writer[v].stream # i
    BY <1>t, <2>1 DEF WriterInv
  <2>7. WriterInv(w)'
    BY <1>k, <2>1, <2>2, <2>3 DEF WriterInv, WriterSet, StreamSet
  <2>8. W
    BY <2>1, <2>3, <2>5, <2>6, <2>7, OneWriter DEF W
  <2> QED  BY <2>5, <2>8
<1>7. ASSUME NEW w \in Writers, NEW id \in Ids, GetFetchStream(w, id) PROVE W /\ S
  <2>1. UNCHANGED <<streams, fetchStream>> /\ fetchLock[id] = NoOne /\ Kind(id) = "fetch"
    BY <1>7, GetFetchStreamDoes DEF GetFetchStream
  <2>2. S /\ OthersSame(0)
    BY <2>1, NoStream DEF S
  <2>3. PICK r : /\ WriterSet(w, r) /\ r.id = id
                 /\ \/ /\ r.pc = "writing" /\ r.stream \in 1 .. Len(streams)
                       /\ UNCHANGED fetchLock
                    \/ /\ r.pc = "fetching" /\ fetchStream[id] = 0
                       /\ fetchLock' = [fetchLock EXCEPT ![id] = w]
    BY <1>7, GetFetchStreamDoes
  <2>4. WriterInv(w)'
    BY <1>k, <1>t, <2>1, <2>3 DEF WriterInv, WriterSet
  <2>5. \A v \in Writers : v # w /\ writer[v].pc = "fetching" =>
          fetchLock'[writer[v].id] = fetchLock[writer[v].id]
    <3>1. \A v \in Writers : writer[v].pc = "fetching" =>
            writer[v].id \in Ids /\ fetchLock[writer[v].id] = v
      BY <1>t DEF WriterInv
    <3>2. CASE UNCHANGED fetchLock
      BY <3>2
    <3>3. CASE fetchLock' = [fetchLock EXCEPT ![id] = w]
      <4>1. \A v \in Writers : writer[v].pc = "fetching" /\ writer[v].id = id => v = NoOne
        BY <2>1, <3>1
      <4>2. \A x \in Ids : x # id => fetchLock'[x] = fetchLock[x]
        BY <1>t, <3>3
      <4> QED  BY <3>1, <4>1, <4>2, DataAssumption
    <3> QED  BY <2>3, <3>2, <3>3
  <2>6. W
    BY <1>t, <2>1, <2>2, <2>3, <2>4, <2>5, OneWriter DEF W, WriterInv
  <2> QED  BY <2>2, <2>6
<1>8. ASSUME NEW w \in Writers, NEW ok \in BOOLEAN, OpenFetchStream(w, ok) PROVE W /\ S
  <2> DEFINE id == writer[w].id
  <2>1. /\ id \in Ids /\ fetchLock' = [fetchLock EXCEPT ![id] = NoOne]
        /\ Kind(id) = "fetch" /\ fetchLock[id] = w /\ fetchStream[id] = 0
    BY <1>8, OpenFetchStreamDoes
  <2>2. \A v \in Writers : v # w /\ writer[v].pc = "fetching" => writer[v].id \in Ids /\ writer[v].id # id
    BY <1>t, <2>1 DEF WriterInv
  <2>3. \A x \in Ids : x # id => fetchLock'[x] = fetchLock[x]
    BY <1>t, <2>1
  <2>4. ASSUME NEW r, StreamAdded(id), fetchStream' = [fetchStream EXCEPT ![id] = Len(streams) + 1],
               WriterSet(w, r), r.pc = "writing", r.id = id, r.stream = Len(streams) + 1
        PROVE  W /\ S
    <3>1. S /\ OthersSame(Len(streams) + 1)
      BY <2>1, <2>4, NewStreamInv DEF S
    <3>2. WriterInv(w)'
      <4>1. Len(streams) + 1 \in 1 .. Len(streams')
        BY <1>t, <2>4 DEF StreamAdded
      <4> QED  BY <2>1, <2>4, <4>1 DEF WriterInv, WriterSet
    <3>3. \A x \in Ids : x # id => fetchStream'[x] = fetchStream[x]
      BY <1>t, <2>4
    <3>4. \A v \in Writers : v # w /\ writer[v].pc = "counting" => writer[v].stream # Len(streams) + 1
      BY <1>t DEF WriterInv
    <3>5. W
      BY <2>2, <2>3, <2>4, <3>1, <3>2, <3>3, <3>4, OneWriter DEF W
    <3> QED  BY <3>1, <3>5
  <2>5. ASSUME WriterSet(w, NoWork), NoWork.pc = "idle", UNCHANGED <<streams, fetchStream>>
        PROVE  W /\ S
    <3>1. S /\ OthersSame(0)
      BY <2>5, NoStream DEF S
    <3>2. WriterInv(w)'
      BY <2>5 DEF WriterInv, WriterSet
    <3>3. W
      BY <1>t, <2>2, <2>3, <2>5, <3>1, <3>2, OneWriter DEF W, WriterInv
    <3> QED  BY <3>1, <3>3
  <2> QED  BY <1>8, <2>4, <2>5, OpenFetchStreamDoes
<1>9. ASSUME NEW w \in Writers, WriteObject(w) \/ CloseStream(w) PROVE W /\ S
  <2> DEFINE i == writer[w].stream
  <2>1. /\ UNCHANGED <<fetchLock, fetchStream>> /\ i \in 1 .. Len(streams)
        /\ writer[w].pc = "writing"
    BY <1>9, WriteDoes DEF WriteObject, CloseStream
  <2>2. PICK s : /\ StreamSet(i, s) /\ s.state = streams[i].state
                 /\ s.target = streams[i].target /\ s.read = streams[i].read
    BY <1>9, WriteDoes
  <2>3. S /\ OthersSame(i)
    <3>1. StreamInv(i) /\ s.track = streams[i].track
      BY <1>t, <2>1, <2>2 DEF StreamSet
    <3> QED  BY <2>1, <2>2, <3>1, OneStream DEF S, StreamInv
  <2>5. ASSUME NEW v \in Writers PROVE WriterInv(v)'
    <3>1. /\ WriterInv(v) /\ writer' \in [Writers -> WriterStates]
          /\ \A x \in Writers : writer'[x] = writer[x] \/ writer'[x].pc = "idle"
      <4>1. CASE WriteObject(w)
        BY <1>t, <4>1 DEF WriteObject
      <4>2. CASE CloseStream(w)
        <5>1. WriterSet(w, NoWork) /\ NoWork.pc = "idle"
          BY <4>2, StopDoes DEF CloseStream
        <5> QED  BY <1>t, <5>1 DEF WriterSet
      <4> QED  BY <1>9, <4>1, <4>2
    <3>2. Len(streams') = Len(streams)
          /\ \A j \in 1 .. Len(streams) : streams'[j].state = streams[j].state
      BY <2>2 DEF StreamSet
    <3> QED  BY <1>k, <2>1, <3>1, <3>2 DEF WriterInv
  <2> QED  BY <2>3, <2>5 DEF W
<1>10. ASSUME NEW i \in 1 .. MaxStreams, StreamStep(i) PROVE W /\ S
  <2>1. UNCHANGED <<writer, fetchLock, fetchStream>>
    BY <1>10 DEF StreamStep, AcceptStream, FindTrack, ReadStream, EndOfStream, StreamCut
  <2>2. /\ i \in 1 .. Len(streams) /\ streams[i].state # "opened"
        /\ \E s : /\ StreamSet(i, s) /\ (s.state = "reading" => s.target # NoRequest)
                  /\ s.state \in {"opened", "sent", "accepted"} => s.target = NoRequest /\ s.read = 0
                  /\ s.state = "unknown" /\ Kind(s.track) = "fetch" =>
                       Doomed(Subscriber(s.track), s.track)
    <3>1. CASE AcceptStream(i) \/ EndOfStream(i) \/ StreamCut(i)
      <4>1. /\ i \in 1 .. Len(streams) /\ streams[i].state \in {"sent", "accepted", "reading"}
        BY <3>1, StateDoes
      <4>2. PICK s : /\ StreamSet(i, s) /\ s.state \in {"accepted", "ended", "cut"}
                     /\ s.state = "accepted" => streams[i].state = "sent"
                     /\ s.target = streams[i].target /\ s.read = streams[i].read
        BY <3>1, StateDoes
      <4>3. s.state = "accepted" => s.target = NoRequest /\ s.read = 0
        BY <1>t, <4>1, <4>2 DEF StreamInv
      <4> QED  BY <4>1, <4>2, <4>3
    <3>2. CASE FindTrack(i)
      <4> DEFINE id == streams[i].track
      <4>1. i \in 1 .. Len(streams) /\ streams[i].state = "accepted"
        BY <3>2, FindTrackDoes
      <4>2. PICK s : /\ StreamSet(i, s) /\ s.state \in {"reading", "unknown", "tooMany"}
                     /\ s.state = "reading" => s.target # NoRequest
                     /\ s.state = "unknown" /\ Kind(id) = "fetch" =>
                          id \notin Remote(Subscriber(id))
        BY <3>2, FindTrackDoes
      <4>3. s.track = id /\ id \in Ids
        BY <4>1, <4>2 DEF StreamSet, StreamStates
      <4>4. Kind(id) = "fetch" /\ id \notin Remote(Subscriber(id)) => Doomed(Subscriber(id), id)
        BY <4>3, UnfiledIsDoomed
      <4> QED  BY <4>1, <4>2, <4>3, <4>4
    <3>3. CASE ReadStream(i)
      <4>1. /\ i \in 1 .. Len(streams) /\ streams[i].state = "reading"
            /\ \E s : StreamSet(i, s) /\ s.state = "reading" /\ s.target \in Ids
        BY <3>3, ReadStreamDoes
      <4> QED  BY <4>1, TrackEnds
    <3> QED  BY <1>10, <3>1, <3>2, <3>3 DEF StreamStep
  <2>3. S /\ OthersSame(i)
    BY <2>1, <2>2, OneStream DEF S
  <2>4. W
    <3>1. \A v \in Writers : ~(writer[v].pc = "counting" /\ writer[v].stream = i)
      BY <1>t, <2>2 DEF WriterInv
    <3> QED  BY <2>1, <2>3, <3>1, NoWriter DEF W
  <2> QED  BY <2>3, <2>4
<1>11. ASSUME \/ \E w \in Writers, id \in Ids : SendDatagram(w, id)
              \/ \E o \in datagrams : ReceiveDatagram(o) \/ LoseDatagram(o)
              \/ \E e \in Endpoints, which \in {"streams", "datagrams"} : DataReaderEnds(e, which)
              \/ \E e \in Endpoints, id \in Ids : ReadObject(e, id) \/ ReadDone(e, id)
       PROVE  PublishInv'
  BY <1>1, <1>11 DEF SendDatagram, ReceiveDatagram, LoseDatagram, DataReaderEnds, ReadObject, ReadDone
<1> QED  BY <1>q, <1>3, <1>4, <1>5, <1>6, <1>7, <1>8, <1>9, <1>10, <1>11
         DEF DataStep, WriterStep, WriterCall

\* What a step of the control plane does to the tracks, seen from a track.
LEMMA KindKept ==
    ASSUME LocalKept, NEW id \in Ids, Kind(id) # "none"
    PROVE  /\ Kind(id)' = Kind(id)
           /\ lt'[Publisher(id)][id].alias = lt[Publisher(id)][id].alias
           /\ lt[Publisher(id)][id].ctx # "live" => lt'[Publisher(id)][id].ctx # "live"
<1>1. Publisher(id) \in Endpoints /\ Publisher(id)' = Publisher(id)
  BY TrackEnds DEF Publisher, Owner
<1> QED  BY <1>1 DEF LocalKept, Kind

LEMMA PublishTrack ==
    ASSUME TypeOK, RequestInv, DataTypeOK, PublishInv, [Next]_vars,
           UNCHANGED <<writer, streams, fetchLock, fetchStream>>
    PROVE  PublishInv'
<1>1. \A x \in Ids : Kind(x) # "none" => Kind(x)' = Kind(x)
  <2>1. LocalKept
    BY NextLocal
  <2> QED  BY <2>1, KindKept
<1>2. ASSUME NEW v \in Writers PROVE WriterInv(v)'
  BY <1>1 DEF PublishInv, WriterInv
<1>3. ASSUME NEW i \in 1 .. Len(streams) PROVE StreamInv(i)'
  <2> DEFINE x == streams[i].track
  <2>1. x \in Ids /\ StreamInv(i)
    <3>1. streams[i] \in StreamStates
      BY ElementOfSeq DEF DataTypeOK
    <3> QED  BY <3>1 DEF PublishInv, StreamStates
  <2>2. Kind(x)' = Kind(x) /\ Kind(x) # "none"
    BY <1>1, <2>1 DEF StreamInv
  <2>3. Doomed(Subscriber(x), x) => Doomed(Subscriber(x), x)'
    <3>1. Subscriber(x) \in Endpoints
      BY <2>1, TrackEnds
    <3> QED  BY <2>1, <3>1, DoomedStays
  <2> QED  BY <2>1, <2>2, <2>3 DEF StreamInv
<1>4. \A id \in Ids : FetchInv(id)'
  BY DEF PublishInv, FetchInv
<1> QED  BY <1>2, <1>3, <1>4 DEF PublishInv

-----------------------------------------------------------------------------
(***************************************************************************)
(* The counts.                                                             *)
(***************************************************************************)

\* The streams of a track are a finite set, and a new stream is one more.
LEMMA StreamsFinite ==
    ASSUME DataTypeOK
    PROVE  \A id \in Ids : /\ IsFiniteSet(StreamsOf(id)) /\ Cardinality(StreamsOf(id)) \in Nat
                           /\ StreamsOf(id) \subseteq 1 .. Len(streams)
<1>1. Len(streams) \in Nat
  BY DEF DataTypeOK
<1>2. IsFiniteSet(1 .. Len(streams))
  BY <1>1, FS_Interval
<1>3. \A id \in Ids : StreamsOf(id) \subseteq 1 .. Len(streams)
  BY DEF StreamsOf
<1>4. \A id \in Ids : IsFiniteSet(StreamsOf(id))
  BY <1>2, <1>3, FS_Subset
<1> QED  BY <1>3, <1>4, FS_CardinalityType

\* The streams stay those of their tracks.
TracksSame ==
    /\ Len(streams') = Len(streams)
    /\ \A i \in 1 .. Len(streams) : streams'[i].track = streams[i].track
LEMMA StreamsSame ==
    ASSUME TracksSame
    PROVE  \A id \in Ids : StreamsOf(id)' = StreamsOf(id)
BY DEF StreamsOf, TracksSame

LEMMA StreamsMore ==
    ASSUME DataTypeOK, NEW id \in Ids, StreamAdded(id)
    PROVE  /\ Cardinality(StreamsOf(id))' = Cardinality(StreamsOf(id)) + 1
           /\ \A x \in Ids : x # id => StreamsOf(x)' = StreamsOf(x)
<1> DEFINE n == Len(streams) + 1
<1>1. /\ Len(streams) \in Nat /\ Len(streams') = n /\ streams'[n].track = id
      /\ \A j \in 1 .. Len(streams) : streams'[j] = streams[j]
  BY DEF DataTypeOK, StreamAdded
<1>2. \A j : j \in 1 .. n <=> j \in 1 .. Len(streams) \/ j = n
  BY <1>1
<1>3. \A x \in Ids : \A j : j \in StreamsOf(x)' <=> j \in StreamsOf(x) \/ (x = id /\ j = n)
  BY <1>1, <1>2 DEF StreamsOf
<1>4. n \notin StreamsOf(id)
  BY <1>1 DEF StreamsOf
<1>5. \A x \in Ids : x # id => StreamsOf(x)' = StreamsOf(x)
  BY <1>3, Zenon
<1>6. StreamsOf(id)' = StreamsOf(id) \cup {n}
  BY <1>3, Zenon
<1>7. Cardinality(StreamsOf(id) \cup {n}) = Cardinality(StreamsOf(id)) + 1
  BY <1>4, StreamsFinite, FS_AddElement
<1> QED  BY <1>5, <1>6, <1>7

\* The goroutines inside openSubgroup of a track stay the same ones.
WorkSame(x) ==
    /\ InOpenSubgroup(x)' = InOpenSubgroup(x) /\ Counting(x)' = Counting(x)
    /\ \A v \in Counting(x) : writer'[v].seen = writer[v].seen

LEMMA WorkUntouched ==
    ASSUME UNCHANGED writer
    PROVE  \A x \in Ids : WorkSame(x)
BY DEF WorkSame, InOpenSubgroup, Counting

\* One goroutine goes on: it enters or leaves the sets, the others stay.
LEMMA WorkOf ==
    ASSUME NEW w \in Writers, NEW r, WriterSet(w, r), NEW x \in Ids
    PROVE  /\ \A v \in Writers : v # w =>
                /\ (v \in InOpenSubgroup(x)' <=> v \in InOpenSubgroup(x))
                /\ (v \in Counting(x)' <=> v \in Counting(x)) /\ writer'[v] = writer[v]
           /\ w \in InOpenSubgroup(x)' <=> r.id = x /\ r.pc \in {"opening", "counting"}
           /\ w \in Counting(x)' <=> r.id = x /\ r.pc = "counting"
           /\ w \in InOpenSubgroup(x) <=>
                writer[w].id = x /\ writer[w].pc \in {"opening", "counting"}
           /\ w \in Counting(x) <=> writer[w].id = x /\ writer[w].pc = "counting"
           /\ InOpenSubgroup(x)' \subseteq Writers /\ Counting(x)' \subseteq Writers
           /\ InOpenSubgroup(x) \subseteq Writers /\ Counting(x) \subseteq InOpenSubgroup(x)
BY DEF WriterSet, InOpenSubgroup, Counting

LEMMA WorkElsewhere ==
    ASSUME NEW w \in Writers, NEW r, WriterSet(w, r), NEW x \in Ids,
           \/ writer[w].pc \notin {"opening", "counting"}
           \/ writer[w].id # x,
           \/ r.pc \notin {"opening", "counting"}
           \/ r.id # x
    PROVE  WorkSame(x)
<1>1. \A v \in Writers : /\ (v \in InOpenSubgroup(x)' <=> v \in InOpenSubgroup(x))
                         /\ (v \in Counting(x)' <=> v \in Counting(x))
  BY WorkOf
<1>2. /\ InOpenSubgroup(x)' \subseteq Writers /\ Counting(x)' \subseteq Writers
      /\ InOpenSubgroup(x) \subseteq Writers /\ Counting(x) \subseteq Writers
  BY DEF InOpenSubgroup, Counting
<1>3. InOpenSubgroup(x)' = InOpenSubgroup(x) /\ Counting(x)' = Counting(x)
  BY <1>1, <1>2, Zenon
<1>4. \A v \in Counting(x) : v \in Writers /\ v # w
  BY DEF Counting
<1>5. \A v \in Counting(x) : writer'[v].seen = writer[v].seen
  BY <1>4 DEF WriterSet
<1> QED  BY <1>3, <1>5 DEF WorkSame

LEMMA CountKept ==
    ASSUME NEW x \in Ids, CountInv(x), WorkSame(x), StreamsOf(x)' = StreamsOf(x),
           subgroupCount'[x] = subgroupCount[x], doneCount'[x] = doneCount[x],
           x \in raced => x \in raced', LocalKept
    PROVE  CountInv(x)'
<1>1. /\ Kind(x) # "none" => Kind(x)' = Kind(x)
      /\ Kind(x) # "none" /\ lt[Publisher(x)][x].ctx # "live" => lt'[Publisher(x)][x].ctx # "live"
  BY KindKept
<1>2. Cardinality(StreamsOf(x))' = Cardinality(StreamsOf(x))
  OBVIOUS
<1>3. Publisher(x)' = Publisher(x)
  BY DEF Publisher
<1> DEFINE n == Cardinality(StreamsOf(x))
<1>4. /\ subgroupCount'[x] <= n
      /\ \A w \in Counting(x)' : writer'[w].seen + 1 <= n
  BY DEF CountInv, WorkSame
<1>5. doneCount'[x] # -1 =>
         /\ Kind(x)' = "subscribe" /\ doneCount'[x] <= n
         /\ lt'[Publisher(x)][x].ctx # "live"
  BY <1>1 DEF CountInv
<1>6. x \notin raced' /\ Kind(x)' # "fetch" => x \notin raced /\ Kind(x) # "fetch"
  BY <1>1
<1>7. x \notin raced /\ Kind(x) # "fetch" =>
         /\ \A v, w \in InOpenSubgroup(x)' : v = w
         /\ \A w \in Counting(x)' : writer'[w].seen = subgroupCount'[x] /\ n = subgroupCount'[x] + 1
         /\ Counting(x)' = {} => n = subgroupCount'[x]
         /\ doneCount'[x] # -1 => InOpenSubgroup(x)' = {} /\ doneCount'[x] = n
  BY DEF CountInv, WorkSame
<1> QED  BY <1>2, <1>3, <1>4, <1>5, <1>6, <1>7 DEF CountInv

\* A goroutine enters openSubgroup, of which it learns that the track is not closed.
LEMMA CountEnter ==
    ASSUME DataTypeOK, PublishInv, CountsInv, UNCHANGED vars,
           NEW w \in Writers, NEW id \in Ids, OpenSubgroup(w, id)
    PROVE  CountInv(id)'
<1>1. PICK r : WriterSet(w, r) /\ r.pc = "opening" /\ r.id = id
  BY OpenSubgroupDoes
<1>2. /\ writer[w].pc = "idle" /\ Kind(id) = "subscribe" /\ lt[Publisher(id)][id].ctx = "live"
      /\ UNCHANGED <<streams, subgroupCount, doneCount>>
      /\ raced' = IF InOpenSubgroup(id) # {} THEN raced \cup {id} ELSE raced
  BY DEF OpenSubgroup, Idle
<1>3. CountInv(id) /\ doneCount[id] = -1
  BY <1>2 DEF CountsInv, CountInv
<1>4. Counting(id)' = Counting(id) /\ \A v \in Counting(id) : writer'[v] = writer[v]
  <2>1. \A v \in Writers : v \in Counting(id)' <=> v \in Counting(id)
    BY <1>1, <1>2, WorkOf
  <2>2. Counting(id) \subseteq Writers /\ Counting(id)' \subseteq Writers /\ w \notin Counting(id)
    BY <1>2 DEF Counting
  <2>3. Counting(id)' = Counting(id)
    BY <2>1, <2>2, Zenon
  <2> QED  BY <1>1, <2>2, <2>3 DEF WriterSet
<1>5. InOpenSubgroup(id) = {} => \A v \in InOpenSubgroup(id)' : v = w
  BY <1>1, WorkOf
<1>6. Cardinality(StreamsOf(id))' = Cardinality(StreamsOf(id)) /\ Kind(id)' = Kind(id)
  BY <1>2 DEF StreamsOf, Kind, vars, trackVars
<1>7. id \notin raced' => id \notin raced /\ InOpenSubgroup(id) = {}
  BY <1>2
<1> QED  BY <1>2, <1>3, <1>4, <1>5, <1>6, <1>7 DEF CountInv

\* The stream is open and the count is loaded.
LEMMA CountLoad ==
    ASSUME DataTypeOK, PublishInv, CountsInv, UNCHANGED vars,
           NEW w \in Writers, OpenStream(w, TRUE), NEW id, id = writer[w].id
    PROVE  id \in Ids /\ CountInv(id)'
<1> DEFINE n == Cardinality(StreamsOf(id))
<1>1. id \in Ids /\ StreamAdded(id) /\ UNCHANGED subgroupCount
  BY OpenStreamDoes
<1>2. PICK r : WriterSet(w, r) /\ r.pc = "counting" /\ r.id = id /\ r.seen = subgroupCount[id]
  BY OpenStreamDoes
<1>3. /\ writer[w].pc = "opening" /\ UNCHANGED <<raced, doneCount>>
      /\ Cardinality(StreamsOf(id))' = n + 1 /\ n \in Nat
      /\ Kind(id) = "subscribe" /\ Kind(id)' = Kind(id) /\ CountInv(id)
      /\ Publisher(id)' = Publisher(id) /\ lt' = lt
  <2>1. writer[w].pc = "opening" /\ UNCHANGED <<raced, doneCount>>
    BY DEF OpenStream
  <2>2. Kind(id) = "subscribe" /\ Kind(id)' = Kind(id) /\ lt' = lt /\ Publisher(id)' = Publisher(id)
    BY <2>1 DEF PublishInv, WriterInv, Kind, vars, trackVars, Publisher
  <2> QED  BY <1>1, <2>1, <2>2, StreamsMore, StreamsFinite DEF CountsInv
<1>4. /\ w \in InOpenSubgroup(id) /\ w \notin Counting(id) /\ Counting(id) \subseteq InOpenSubgroup(id)
      /\ writer'[w].seen = subgroupCount[id] /\ w \in Counting(id)'
      /\ \A v \in Counting(id)' : v = w \/ (v \in Counting(id) /\ writer'[v] = writer[v])
      /\ \A v \in InOpenSubgroup(id)' : v \in InOpenSubgroup(id)
  BY <1>1, <1>2, <1>3, WorkOf DEF WriterSet
<1>5. subgroupCount[id] \in Nat /\ doneCount[id] \in Nat \cup {-1}
      /\ \A v \in Writers : writer[v].seen \in Nat
  BY <1>1 DEF DataTypeOK, WriterStates
<1>6. \A v \in Counting(id) : v \in Writers
  BY DEF Counting
<1> HIDE DEF n
<1>7. /\ subgroupCount[id] <= n /\ \A v \in Counting(id) : writer[v].seen + 1 <= n
      /\ doneCount[id] # -1 => doneCount[id] <= n /\ lt[Publisher(id)][id].ctx # "live"
      /\ id \notin raced => /\ \A u, v \in InOpenSubgroup(id) : u = v
                            /\ Counting(id) = {} => n = subgroupCount[id]
                            /\ doneCount[id] # -1 => InOpenSubgroup(id) = {}
  BY <1>3 DEF CountInv, n
<1>8. id \notin raced => Counting(id) = {} /\ n = subgroupCount[id] /\ doneCount[id] = -1
  <2>1. id \notin raced => Counting(id) = {}
    BY <1>4, <1>7
  <2> QED  BY <1>4, <1>7, <2>1
<1>9. /\ subgroupCount'[id] <= n + 1 /\ \A v \in Counting(id)' : writer'[v].seen + 1 <= n + 1
      /\ doneCount'[id] # -1 => doneCount'[id] <= n + 1
  <2>1. ASSUME NEW v \in Counting(id)' PROVE writer'[v].seen + 1 <= n + 1
    <3>1. CASE v = w
      BY <1>3, <1>4, <1>5, <1>7, <3>1
    <3>2. CASE v \in Counting(id) /\ writer'[v] = writer[v]
      BY <1>3, <1>5, <1>6, <1>7, <3>2
    <3> QED  BY <1>4, <3>1, <3>2
  <2> QED  BY <1>1, <1>3, <1>5, <1>7, <2>1
<1>10. id \notin raced =>
         /\ \A u, v \in InOpenSubgroup(id)' : u = v
         /\ \A v \in Counting(id)' : writer'[v].seen = subgroupCount'[id] /\ n + 1 = subgroupCount'[id] + 1
         /\ Counting(id)' # {} /\ doneCount'[id] = -1
  <2>1. ASSUME id \notin raced, NEW v \in Counting(id)' PROVE v = w
    BY <1>4, <1>8, <2>1
  <2> QED  BY <1>1, <1>3, <1>4, <1>5, <1>7, <1>8, <2>1
<1> QED  BY <1>1, <1>3, <1>7, <1>9, <1>10 DEF CountInv

\* A goroutine leaves openSubgroup: without a stream, or with its count stored.
LEMMA CountLeave ==
    ASSUME DataTypeOK, PublishInv, CountsInv, UNCHANGED vars,
           NEW w \in Writers, OpenStream(w, FALSE) \/ WriteHeader(w), NEW id, id = writer[w].id
    PROVE  id \in Ids /\ CountInv(id)'
<1> DEFINE n == Cardinality(StreamsOf(id))
<1>1. /\ id \in Ids /\ UNCHANGED <<raced, doneCount>> /\ Kind(id) = "subscribe"
      /\ Kind(id)' = Kind(id) /\ lt' = lt /\ Publisher(id)' = Publisher(id)
  <2>1. writer[w].pc \in {"opening", "counting"} /\ UNCHANGED <<raced, doneCount>>
    BY DEF OpenStream, WriteHeader
  <2> QED  BY <2>1 DEF PublishInv, WriterInv, Kind, vars, trackVars, Publisher
<1>2. PICK r : WriterSet(w, r) /\ r.pc \notin {"opening", "counting"}
  <2>1. CASE OpenStream(w, FALSE)
    BY <2>1, NoStreamDoes
  <2>2. CASE WriteHeader(w)
    BY <2>2, WriteHeaderDoes
  <2> QED  BY <2>1, <2>2
<1>3. Cardinality(StreamsOf(id))' = n /\ n \in Nat
  <2>1. TracksSame
    <3>1. CASE OpenStream(w, FALSE)
      BY <3>1, NoStreamDoes DEF TracksSame
    <3>2. CASE WriteHeader(w)
      BY <3>2, WriteHeaderDoes DEF StreamSet, TracksSame
    <3> QED  BY <3>1, <3>2
  <2> QED  BY <1>1, <2>1, StreamsSame, StreamsFinite
<1>4. \/ writer[w].pc = "opening" /\ subgroupCount'[id] = subgroupCount[id]
      \/ writer[w].pc = "counting" /\ subgroupCount'[id] = writer[w].seen + 1
  <2>1. CASE OpenStream(w, FALSE)
    BY <2>1, NoStreamDoes DEF OpenStream
  <2>2. CASE WriteHeader(w)
    <3>1. subgroupCount' = [subgroupCount EXCEPT ![id] = writer[w].seen + 1]
      BY <2>2, WriteHeaderDoes
    <3> QED  BY <1>1, <2>2, <3>1 DEF DataTypeOK, WriteHeader
  <2> QED  BY <2>1, <2>2
<1>5. /\ w \in InOpenSubgroup(id) /\ (w \in Counting(id) <=> writer[w].pc = "counting")
      /\ Counting(id) \subseteq InOpenSubgroup(id)
      /\ w \notin InOpenSubgroup(id)' /\ w \notin Counting(id)'
      /\ \A v \in InOpenSubgroup(id)' : v \in InOpenSubgroup(id)
      /\ \A v \in Counting(id)' : v \in Counting(id) /\ writer'[v] = writer[v]
  <2>1. w \in InOpenSubgroup(id) /\ (w \in Counting(id) <=> writer[w].pc = "counting")
    BY <1>4 DEF InOpenSubgroup, Counting
  <2> QED  BY <1>1, <1>2, <2>1, WorkOf DEF WriterSet
<1> HIDE DEF n
<1>6. /\ subgroupCount[id] <= n /\ \A v \in Counting(id) : writer[v].seen + 1 <= n
      /\ doneCount[id] # -1 => doneCount[id] <= n /\ lt[Publisher(id)][id].ctx # "live"
      /\ id \notin raced =>
           /\ \A u, v \in InOpenSubgroup(id) : u = v
           /\ \A v \in Counting(id) : writer[v].seen = subgroupCount[id] /\ n = subgroupCount[id] + 1
           /\ Counting(id) = {} => n = subgroupCount[id]
           /\ doneCount[id] # -1 => InOpenSubgroup(id) = {}
  <2>1. CountInv(id)
    BY <1>1 DEF CountsInv
  <2> QED  BY <1>1, <2>1 DEF CountInv, n
<1>7. subgroupCount'[id] <= n /\ \A v \in Counting(id)' : writer'[v].seen + 1 <= n
  BY <1>4, <1>5, <1>6
<1>8. ASSUME id \notin raced
      PROVE  /\ InOpenSubgroup(id)' = {} /\ Counting(id)' = {} /\ n = subgroupCount'[id]
             /\ doneCount'[id] = -1
  <2>1. InOpenSubgroup(id)' = {} /\ Counting(id)' = {} /\ doneCount'[id] = -1
    BY <1>1, <1>5, <1>6, <1>8
  <2>2. CASE writer[w].pc = "opening"
    <3>1. Counting(id) = {}
      BY <1>5, <1>6, <1>8, <2>2
    <3>2. subgroupCount'[id] = subgroupCount[id]
      BY <1>4, <2>2
    <3> QED  BY <1>6, <1>8, <2>1, <3>1, <3>2
  <2>3. CASE writer[w].pc = "counting"
    <3>1. subgroupCount'[id] = writer[w].seen + 1 /\ w \in Counting(id)
      BY <1>4, <1>5, <2>3
    <3>2. writer[w].seen = subgroupCount[id] /\ n = subgroupCount[id] + 1
      BY <1>6, <1>8, <3>1
    <3> QED  BY <2>1, <3>1, <3>2
  <2> QED  BY <1>4, <2>1, <2>2, <2>3
<1> QED  BY <1>1, <1>3, <1>6, <1>7, <1>8 DEF CountInv

\* Every step of the data plane.
LEMMA CountsData ==
    ASSUME TypeOK, DataTypeOK, PublishInv, CountsInv, DataStep, UNCHANGED vars
    PROVE  CountsInv'
<1> USE DEF publisherVars, datagramVars, bufferVars, readVars
<1>l. LocalKept /\ \A x : Kind(x)' = Kind(x)
  BY LocalUntouched DEF Kind, vars, trackVars
<1>s. ASSUME NEW x \in Ids, WorkSame(x), StreamsOf(x)' = StreamsOf(x),
             subgroupCount'[x] = subgroupCount[x], UNCHANGED doneCount, x \in raced => x \in raced'
      PROVE  CountInv(x)'
  BY <1>l, <1>s, CountKept DEF CountsInv
<1>1. CASE UNCHANGED <<subgroupCount, doneCount, raced, writer, streams>>
  <2>1. \A x \in Ids : WorkSame(x) /\ StreamsOf(x)' = StreamsOf(x)
    BY <1>1, WorkUntouched DEF StreamsOf
  <2> QED  BY <1>1, <1>s, <2>1 DEF CountsInv
<1>2. ASSUME NEW w \in Writers, NEW id \in Ids, OpenSubgroup(w, id) PROVE CountsInv'
  <2>1. PICK r : WriterSet(w, r) /\ r.pc = "opening" /\ r.id = id
    BY <1>2, OpenSubgroupDoes
  <2>2. ASSUME NEW x \in Ids, x # id PROVE CountInv(x)'
    <3>1. WorkSame(x)
      BY <1>2, <2>1, <2>2, WorkElsewhere DEF OpenSubgroup, Idle
    <3>2. StreamsOf(x)' = StreamsOf(x) /\ subgroupCount' = subgroupCount
          /\ UNCHANGED doneCount /\ (x \in raced => x \in raced')
      BY <1>2 DEF OpenSubgroup, StreamsOf
    <3> QED  BY <1>s, <3>1, <3>2
  <2> QED  BY <1>2, <2>2, CountEnter DEF CountsInv
<1>3. ASSUME NEW w \in Writers, OpenStream(w, TRUE) PROVE CountsInv'
  <2> DEFINE id == writer[w].id
  <2>1. id \in Ids /\ StreamAdded(id) /\ UNCHANGED subgroupCount
    BY <1>3, OpenStreamDoes
  <2>2. PICK r : WriterSet(w, r) /\ r.pc = "counting" /\ r.id = id
    BY <1>3, OpenStreamDoes
  <2>3. ASSUME NEW x \in Ids, x # id PROVE CountInv(x)'
    <3>1. WorkSame(x)
      BY <2>2, <2>3, WorkElsewhere
    <3>2. StreamsOf(x)' = StreamsOf(x)
      BY <2>1, <2>3, StreamsMore
    <3> QED  BY <1>3, <1>s, <2>1, <3>1, <3>2 DEF OpenStream
  <2>4. ASSUME NEW x, x = id PROVE CountInv(x)'
    BY <1>3, <2>4, CountLoad
  <2> QED  BY <2>3, <2>4 DEF CountsInv
<1>4. ASSUME NEW w \in Writers, OpenStream(w, FALSE) \/ WriteHeader(w) PROVE CountsInv'
  <2> DEFINE id == writer[w].id
  <2>1. PICK r : WriterSet(w, r) /\ r.pc \notin {"opening", "counting"}
    <3>1. CASE OpenStream(w, FALSE)
      BY <3>1, NoStreamDoes
    <3>2. CASE WriteHeader(w)
      BY <3>2, WriteHeaderDoes
    <3> QED  BY <1>4, <3>1, <3>2
  <2>2. TracksSame /\ \A x \in Ids : x # id => subgroupCount'[x] = subgroupCount[x]
    <3>1. CASE OpenStream(w, FALSE)
      BY <3>1, NoStreamDoes DEF TracksSame
    <3>2. CASE WriteHeader(w)
      <4>1. subgroupCount' = [subgroupCount EXCEPT ![id] = writer[w].seen + 1]
        BY <3>2, WriteHeaderDoes
      <4>2. TracksSame
        BY <3>2, WriteHeaderDoes DEF StreamSet, TracksSame
      <4> QED  BY <4>1, <4>2 DEF DataTypeOK
    <3> QED  BY <1>4, <3>1, <3>2
  <2>3. UNCHANGED <<doneCount, raced>>
    BY <1>4 DEF OpenStream, WriteHeader
  <2>4. ASSUME NEW x \in Ids, x # id PROVE CountInv(x)'
    <3>1. WorkSame(x)
      BY <2>1, <2>4, WorkElsewhere
    <3> QED  BY <1>s, <2>2, <2>3, <2>4, <3>1, StreamsSame
  <2>5. ASSUME NEW x, x = id PROVE CountInv(x)'
    BY <1>4, <2>5, CountLeave
  <2> QED  BY <2>4, <2>5 DEF CountsInv
<1>5. ASSUME NEW w \in Writers, NEW id \in Ids, GetFetchStream(w, id) PROVE CountsInv'
  <2>1. PICK r : WriterSet(w, r) /\ r.pc \in {"writing", "fetching"}
    BY <1>5, GetFetchStreamDoes
  <2>2. \A x \in Ids : WorkSame(x)
    BY <1>5, <2>1, WorkElsewhere DEF GetFetchStream, Idle
  <2>3. UNCHANGED <<subgroupCount, doneCount, raced, streams>>
    BY <1>5 DEF GetFetchStream
  <2> QED  BY <1>s, <2>2, <2>3 DEF StreamsOf, CountsInv
<1>6. ASSUME NEW w \in Writers, NEW ok \in BOOLEAN, OpenFetchStream(w, ok) PROVE CountsInv'
  <2> DEFINE id == writer[w].id
  <2>1. PICK r : WriterSet(w, r) /\ r.pc \in {"writing", "idle"}
    BY <1>6, OpenFetchStreamDoes
  <2>2. /\ id \in Ids /\ Kind(id) = "fetch" /\ writer[w].pc = "fetching"
        /\ UNCHANGED <<subgroupCount, doneCount, raced>>
    BY <1>6, OpenFetchStreamDoes DEF OpenFetchStream
  <2>3. \A x \in Ids : WorkSame(x)
    BY <2>1, <2>2, WorkElsewhere
  <2>4. CASE UNCHANGED streams
    BY <1>s, <2>2, <2>3, <2>4 DEF StreamsOf, CountsInv
  <2>5. CASE StreamAdded(id)
    <3>1. ASSUME NEW x \in Ids, x # id PROVE CountInv(x)'
      BY <1>s, <2>2, <2>3, <2>5, <3>1, StreamsMore
    <3>2. ASSUME NEW x \in Ids, x = id PROVE CountInv(x)'
      <4> DEFINE n == Cardinality(StreamsOf(x))
      <4>1. Cardinality(StreamsOf(x))' = n + 1 /\ n \in Nat
        BY <2>5, <3>2, StreamsMore, StreamsFinite
      <4> HIDE DEF n
      <4>2. /\ subgroupCount[x] <= n /\ doneCount[x] = -1 /\ Kind(x)' = "fetch"
            /\ \A v \in Counting(x) : writer[v].seen + 1 <= n
        BY <1>l, <2>2, <3>2 DEF CountsInv, CountInv, n
      <4>3. subgroupCount[x] \in Nat /\ \A v \in Counting(x) : writer[v].seen \in Nat
        BY DEF DataTypeOK, WriterStates, Counting
      <4>4. subgroupCount'[x] <= n + 1
            /\ \A v \in Counting(x)' : writer'[v].seen + 1 <= n + 1
        BY <2>2, <2>3, <4>1, <4>2, <4>3 DEF WorkSame
      <4> QED  BY <2>2, <4>1, <4>2, <4>4 DEF CountInv
    <3> QED  BY <3>1, <3>2 DEF CountsInv
  <2> QED  BY <1>6, <2>4, <2>5, OpenFetchStreamDoes
<1>7. ASSUME TracksSame, UNCHANGED <<subgroupCount, doneCount, raced>>,
             \A x \in Ids : WorkSame(x)
      PROVE  CountsInv'
  BY <1>s, <1>7, StreamsSame DEF CountsInv
<1>8. ASSUME NEW w \in Writers, WriteObject(w) \/ CloseStream(w) PROVE CountsInv'
  <2>1. TracksSame
    BY <1>8, WriteDoes DEF StreamSet, TracksSame
  <2>2. UNCHANGED <<subgroupCount, doneCount, raced>>
    BY <1>8 DEF WriteObject, CloseStream
  <2>3. \A x \in Ids : WorkSame(x)
    <3>1. CASE WriteObject(w)
      BY <3>1, WorkUntouched DEF WriteObject
    <3>2. CASE CloseStream(w)
      <4>1. WriterSet(w, NoWork) /\ NoWork.pc = "idle" /\ writer[w].pc = "writing"
        BY <3>2, StopDoes DEF CloseStream
      <4> QED  BY <4>1, WorkElsewhere
    <3> QED  BY <1>8, <3>1, <3>2
  <2> QED  BY <1>7, <2>1, <2>2, <2>3
<1>9. ASSUME NEW i \in 1 .. MaxStreams, StreamStep(i) PROVE CountsInv'
  <2>1. TracksSame
    <3>1. \E s : StreamSet(i, s)
      BY <1>9, StateDoes, FindTrackDoes, ReadStreamDoes DEF StreamStep
    <3> QED  BY <3>1 DEF StreamSet, TracksSame
  <2>2. UNCHANGED <<subgroupCount, doneCount, raced, writer>>
    BY <1>9 DEF StreamStep, AcceptStream, FindTrack, ReadStream, EndOfStream, StreamCut
  <2> QED  BY <1>7, <2>1, <2>2, WorkUntouched
<1>10. ASSUME \/ \E w \in Writers, id \in Ids : SendDatagram(w, id)
              \/ \E o \in datagrams : ReceiveDatagram(o) \/ LoseDatagram(o)
              \/ \E e \in Endpoints, which \in {"streams", "datagrams"} : DataReaderEnds(e, which)
              \/ \E e \in Endpoints, id \in Ids : ReadObject(e, id) \/ ReadDone(e, id)
       PROVE  CountsInv'
  BY <1>1, <1>10
     DEF SendDatagram, ReceiveDatagram, LoseDatagram, DataReaderEnds, ReadObject, ReadDone
<1>11. ASSUME NEW w \in Writers, NEW ok \in BOOLEAN, OpenStream(w, ok) PROVE CountsInv'
  BY <1>3, <1>4, <1>11
<1> QED  BY <1>2, <1>4, <1>5, <1>6, <1>8, <1>9, <1>10, <1>11
         DEF DataStep, WriterStep, WriterCall

\* Every step of the control plane.  CloseWithError passes the count on, and from then
\* on no goroutine enters openSubgroup.
LEMMA CountsTrack ==
    ASSUME TypeOK, RequestInv, DataTypeOK, PublishInv, CountsInv, TrackStep
    PROVE  CountsInv'
<1>1. LocalKept
  BY NextLocal DEF TrackStep
<1>2. /\ UNCHANGED <<writer, subgroupCount, streams>>
      /\ \A id \in Ids : /\ ClosesWithError(id) => doneCount'[id] = subgroupCount[id]
                         /\ ~ClosesWithError(id) => doneCount'[id] = doneCount[id]
                         /\ id \in raced => id \in raced'
                         /\ ClosesWithError(id) /\ id \notin raced' =>
                              id \notin raced /\ InOpenSubgroup(id) = {}
  BY DEF TrackStep
<1>3. \A x \in Ids : WorkSame(x) /\ StreamsOf(x)' = StreamsOf(x)
  BY <1>2, WorkUntouched DEF StreamsOf
<1>4. ASSUME NEW x \in Ids, ~ClosesWithError(x) PROVE CountInv(x)'
  BY <1>1, <1>2, <1>3, <1>4, CountKept DEF CountsInv
<1>5. ASSUME NEW x \in Ids, ClosesWithError(x) PROVE CountInv(x)'
  <2> DEFINE n == Cardinality(StreamsOf(x))
  <2>1. /\ CountInv(x) /\ Kind(x) = "subscribe" /\ Kind(x)' = "subscribe"
        /\ Publisher(x)' = Publisher(x) /\ n \in Nat /\ subgroupCount[x] \in Nat
    BY <1>1, <1>5, KindKept, StreamsFinite
       DEF CountsInv, ClosesWithError, Publisher, DataTypeOK
  <2>2. lt'[Publisher(x)][x].ctx # "live"
    BY <1>1, <1>5, TrackEnds DEF ClosesWithError, LocalKept, Kind
  <2>3. Counting(x) \subseteq InOpenSubgroup(x)
    BY DEF Counting, InOpenSubgroup
  <2>4. Cardinality(StreamsOf(x))' = n
    BY <1>3
  <2> HIDE DEF n
  <2>5. /\ doneCount'[x] = subgroupCount[x] /\ subgroupCount'[x] = subgroupCount[x]
        /\ subgroupCount[x] <= n
        /\ \A v \in Counting(x)' : writer'[v].seen + 1 <= n
    BY <1>2, <1>3, <1>5, <2>1 DEF CountInv, WorkSame, n
  <2>6. ASSUME x \notin raced'
        PROVE  InOpenSubgroup(x)' = {} /\ Counting(x)' = {} /\ n = subgroupCount[x]
    <3>1. x \notin raced /\ InOpenSubgroup(x) = {} /\ Counting(x) = {}
      BY <1>2, <1>5, <2>3, <2>6
    <3>2. n = subgroupCount[x]
      BY <2>1, <3>1 DEF CountInv, n
    <3> QED  BY <1>3, <3>1, <3>2 DEF WorkSame
  <2> QED  BY <2>1, <2>2, <2>4, <2>5, <2>6 DEF CountInv
<1> QED  BY <1>4, <1>5 DEF CountsInv

-----------------------------------------------------------------------------
(***************************************************************************)
(* The datagrams.                                                          *)
(***************************************************************************)

\* A datagram stays harmless as long as its track and the aliases are kept.
LEMMA HarmlessStays ==
    ASSUME LocalKept, AliasesGrow, rash \subseteq rash', NEW o \in Objects, DatagramInv(o)
    PROVE  DatagramInv(o)'
<1> DEFINE x == o.track
<1>1. x \in Ids
  BY DEF Objects
<1>2. /\ Kind(x)' = Kind(x) /\ Publisher(x)' = Publisher(x) /\ Subscriber(x)' = Subscriber(x)
      /\ lt'[Publisher(x)][x].alias = lt[Publisher(x)][x].alias /\ Subscriber(x) \in Endpoints
  BY <1>1, KindKept, TrackEnds DEF DatagramInv, Publisher, Subscriber
<1>3. AliasTaken(Subscriber(x), 0) => AliasTaken(Subscriber(x), 0)'
  BY <1>2 DEF AliasesGrow, AliasTaken
<1> QED  BY <1>2, <1>3 DEF DatagramInv

\* A known alias leads to a track.
LEMMA AliasFound ==
    ASSUME TypeOK, FiledInv, NEW e \in Endpoints, AliasTaken(e, 0)
    PROVE  FindByTrackAlias(e, 0) # NoRequest
<1> DEFINE p == CHOOSE p \in aliases[e] : p[1] = 0
<1>1. p \in aliases[e]
  BY DEF AliasTaken
<1> HIDE DEF p
<1>2. p[2] \in Remote(e)
  BY <1>1 DEF FiledInv, Remote
<1>3. Remote(e) \subseteq Ids
  BY DEF TypeOK, Remote
<1>4. NoRequest \notin Ids
  BY ControlAssumption DEF Ids, NoRequest
<1>5. FindByTrackAlias(e, 0) = FindByRequestID(e, p[2])
  BY DEF FindByTrackAlias, p
<1> QED  BY <1>2, <1>3, <1>4, <1>5 DEF FindByRequestID

\* Every step of the data plane.
LEMMA DatagramsData ==
    ASSUME TypeOK, FiledInv, DataTypeOK, DatagramsInv, DataStep, UNCHANGED vars
    PROVE  DatagramsInv'
<1> USE DEF publisherVars, datagramVars, bufferVars, readVars
<1>1. LocalKept /\ AliasesGrow
  BY LocalUntouched DEF vars, trackVars, AliasesGrow
<1>2. ASSUME rash \subseteq rash', datagrams' \subseteq datagrams,
             \A e \in Endpoints : dataReaders'[e].datagrams = "unknownTrackAlias" =>
               dataReaders[e].datagrams = "unknownTrackAlias" \/ e \in rash
      PROVE  DatagramsInv'
  <2>1. \A o \in datagrams : DatagramInv(o)'
    BY <1>1, <1>2, HarmlessStays DEF DatagramsInv, DataTypeOK
  <2> QED  BY <1>2, <2>1 DEF DatagramsInv, SettledDatagramsAreSafe
<1>3. ASSUME NEW w \in Writers, NEW id \in Ids, SendDatagram(w, id) PROVE DatagramsInv'
  <2> DEFINE e == Subscriber(id)
             o == Object(id, 0, datagramsSent + 1)
  <2>1. /\ Kind(id) = "subscribe" /\ datagrams' = datagrams \cup {o}
        /\ rash' = IF Settled(id) THEN rash ELSE rash \cup {e}
        /\ UNCHANGED dataReaders
    BY <1>3 DEF SendDatagram
  <2>2. e \in Endpoints /\ Peer(e) = Publisher(id)
    BY TrackEnds
  <2>3. Settled(id) => lt[Publisher(id)][id].alias = 0 /\ AliasTaken(e, 0)
    <3>1. CallInv(e, id) /\ id \notin Fetches(Peer(e))
      BY <2>1, <2>2 DEF FiledInv, Fetches, Kind
    <3> QED  BY <2>1, <3>1 DEF CallInv, Settled, OkAlias
  <2>4. o.track = id /\ o.stream = 0
    BY DEF Object
  <2> HIDE DEF o
  <2>5. ASSUME NEW d, d = o PROVE DatagramInv(d)'
    <3>1. /\ Kind(id)' = Kind(id) /\ Publisher(id)' = Publisher(id) /\ lt' = lt
          /\ Subscriber(id)' = e /\ AliasTaken(e, 0)' = AliasTaken(e, 0)
      BY DEF Kind, Publisher, Subscriber, AliasTaken, vars, trackVars
    <3> QED  BY <2>1, <2>3, <2>4, <2>5, <3>1 DEF DatagramInv
  <2>6. rash \subseteq rash'
    BY <2>1
  <2>7. \A d \in datagrams : DatagramInv(d)'
    BY <1>1, <2>6, HarmlessStays DEF DatagramsInv, DataTypeOK
  <2> QED  BY <2>1, <2>5, <2>6, <2>7 DEF DatagramsInv, SettledDatagramsAreSafe
<1>4. ASSUME NEW o \in datagrams, ReceiveDatagram(o) PROVE DatagramsInv'
  <2> DEFINE e == Subscriber(o.track)
             t == FindByTrackAlias(e, HeaderKey(o.track))
  <2>1. o.track \in Ids /\ e \in Endpoints /\ DatagramInv(o)
    BY TrackEnds DEF DataTypeOK, Objects, DatagramsInv
  <2>2. rash' = rash /\ datagrams' \subseteq datagrams
    BY <1>4 DEF ReceiveDatagram
  <2>3. CASE t = NoRequest
    <3>1. e \in rash
      <4>1. Kind(o.track) = "subscribe" /\ HeaderKey(o.track) = lt[Publisher(o.track)][o.track].alias
        BY <2>1 DEF DatagramInv, HeaderKey
      <4> QED  BY <2>1, <2>3, <4>1, AliasFound DEF DatagramInv
    <3>2. dataReaders' = [dataReaders EXCEPT ![e].datagrams = "unknownTrackAlias"]
      BY <1>4, <2>3 DEF ReceiveDatagram
    <3>3. \A f \in Endpoints : f # e => dataReaders'[f] = dataReaders[f]
      BY <3>2 DEF DataTypeOK
    <3>4. \A f \in Endpoints : dataReaders'[f].datagrams = "unknownTrackAlias" =>
            dataReaders[f].datagrams = "unknownTrackAlias" \/ f \in rash
      BY <3>1, <3>3
    <3> QED  BY <1>2, <2>2, <3>4, Zenon
  <2>4. CASE t # NoRequest
    <3>1. UNCHANGED dataReaders
      BY <1>4, <2>4 DEF ReceiveDatagram
    <3> QED  BY <1>2, <2>2, <3>1, Zenon
  <2> QED  BY <2>3, <2>4
<1>5. ASSUME NEW e \in Endpoints, NEW which \in {"streams", "datagrams"}, DataReaderEnds(e, which)
      PROVE  DatagramsInv'
  <2>1. \A f \in Endpoints : dataReaders'[f].datagrams \in {dataReaders[f].datagrams, "ended"}
    <3>1. /\ dataReaders' = [dataReaders EXCEPT ![e][which] = "ended"]
          /\ dataReaders \in [Endpoints -> [streams : {"running", "ended"},
                                           datagrams : {"running", "ended", "unknownTrackAlias"}]]
      BY <1>5 DEF DataReaderEnds, DataTypeOK
    <3>2. CASE which = "streams"
      BY <3>1, <3>2
    <3>3. CASE which = "datagrams"
      BY <3>1, <3>3
    <3> QED  BY <3>2, <3>3
  <2> QED  BY <1>2, <1>5, <2>1 DEF DataReaderEnds
<1>6. ASSUME NEW o \in datagrams, LoseDatagram(o) PROVE DatagramsInv'
  BY <1>2, <1>6 DEF LoseDatagram
<1>7. ASSUME \/ \E w \in Writers : \/ WriterStep(w) \/ WriteObject(w) \/ CloseStream(w)
                                   \/ \E id \in Ids : OpenSubgroup(w, id) \/ GetFetchStream(w, id)
             \/ \E i \in 1 .. MaxStreams : StreamStep(i)
             \/ \E e \in Endpoints, id \in Ids : ReadObject(e, id) \/ ReadDone(e, id)
      PROVE  DatagramsInv'
  <2>1. UNCHANGED <<rash, datagrams, dataReaders>>
    BY <1>7
       DEF WriterStep, OpenStream, OpenFetchStream, WriteHeader, WriteObject, CloseStream,
           OpenSubgroup, GetFetchStream, StreamStep, AcceptStream, FindTrack, ReadStream,
           EndOfStream, StreamCut, ReadObject, ReadDone
  <2> QED  BY <1>2, <2>1
<1> QED  BY <1>3, <1>4, <1>5, <1>6, <1>7 DEF DataStep, WriterCall

\* Every step of the control plane.
LEMMA DatagramsTrack ==
    ASSUME TypeOK, TypeOK', RequestInv, FiledInv, DataTypeOK, DatagramsInv, [Next]_vars,
           UNCHANGED <<rash, datagrams, dataReaders>>
    PROVE  DatagramsInv'
<1>1. LocalKept /\ AliasesGrow
  BY NextLocal, NextFiled
<1>2. \A o \in datagrams : DatagramInv(o)'
  BY <1>1, HarmlessStays DEF DatagramsInv, DataTypeOK
<1> QED  BY <1>2 DEF DatagramsInv, SettledDatagramsAreSafe

-----------------------------------------------------------------------------
(***************************************************************************)
(* The buffers.                                                            *)
(***************************************************************************)

\* What StreamOrder says of a stream i of which n objects were read, when q was put
\* into the buffer and d was dropped.
Kept(i, q) == {k \in 1 .. Len(q) : q[k].stream = i}
Lost(i, d) == {o \in d : o.stream = i}
OrderOf(i, q, d, n) ==
    /\ \A j, k \in Kept(i, q) : j < k => q[j].n < q[k].n
    /\ Cardinality(Kept(i, q)) + Cardinality(Lost(i, d)) = n
    /\ \A k \in Kept(i, q) : q[k] \notin Lost(i, d)

LEMMA OrderIsOrderOf ==
    StreamOrder =>
      \A i \in 1 .. Len(streams) :
        streams[i].target # NoRequest =>
          OrderOf(i, Pushed(streams[i].target), dropped[streams[i].target], streams[i].read)
BY DEF StreamOrder, OrderOf, Kept, Lost

\* Both sets are finite.
LEMMA OrderFinite ==
    ASSUME NEW q \in Seq(Objects), NEW d, IsFiniteSet(d), NEW i
    PROVE  /\ IsFiniteSet(Kept(i, q)) /\ IsFiniteSet(Lost(i, d))
           /\ Cardinality(Kept(i, q)) \in Nat /\ Cardinality(Lost(i, d)) \in Nat
<1>1. IsFiniteSet(1 .. Len(q))
  BY FS_Interval
<1>2. Kept(i, q) \subseteq 1 .. Len(q) /\ Lost(i, d) \subseteq d
  BY DEF Kept, Lost
<1>3. IsFiniteSet(Kept(i, q)) /\ IsFiniteSet(Lost(i, d))
  BY <1>1, <1>2, FS_Subset
<1> QED  BY <1>3, FS_CardinalityType

\* An object of another stream, or the next one of this, is put into the buffer.
LEMMA OrderAppend ==
    ASSUME NEW q \in Seq(Objects), NEW d, IsFiniteSet(d), NEW i, NEW n \in Nat, OrderOf(i, q, d, n),
           NEW o \in Objects
    PROVE  /\ o.stream # i => OrderOf(i, Append(q, o), d, n)
           /\ /\ o.stream = i /\ o.n = n + 1
              /\ \A k \in Kept(i, q) : q[k].n <= n
              /\ \A x \in Lost(i, d) : x.n <= n
              => OrderOf(i, Append(q, o), d, n + 1)
<1> DEFINE a == Append(q, o)
           m == Len(q) + 1
<1>1. /\ a \in Seq(Objects) /\ Len(a) = m /\ Len(q) \in Nat /\ a[m] = o
      /\ \A k \in 1 .. Len(q) : a[k] = q[k]
  BY AppendProperties
<1> HIDE DEF a
<1>2. \A k : k \in 1 .. m <=> k \in 1 .. Len(q) \/ k = m
  BY <1>1
<1>3. /\ \A k : k \in Kept(i, a) <=> k \in Kept(i, q) \/ (k = m /\ o.stream = i)
      /\ \A k \in Kept(i, q) : k \in 1 .. Len(q) /\ a[k] = q[k] /\ k < m
  BY <1>1, <1>2 DEF Kept
<1>4. ASSUME o.stream # i PROVE OrderOf(i, a, d, n)
  <2>1. Kept(i, a) = Kept(i, q)
    BY <1>3, <1>4, Zenon
  <2> QED  BY <1>3, <2>1 DEF OrderOf
<1>5. ASSUME o.stream = i, o.n = n + 1, \A k \in Kept(i, q) : q[k].n <= n,
             \A x \in Lost(i, d) : x.n <= n
      PROVE  OrderOf(i, a, d, n + 1)
  <2>1. Kept(i, a) = Kept(i, q) \cup {m}
    <3>1. \A k : k \in Kept(i, a) <=> k \in Kept(i, q) \/ k = m
      BY <1>3, <1>5
    <3> QED  BY <3>1, Zenon
  <2>2. m \notin Kept(i, q)
    BY <1>1 DEF Kept
  <2>3. Cardinality(Kept(i, a)) = Cardinality(Kept(i, q)) + 1
    BY <2>1, <2>2, OrderFinite, FS_AddElement
  <2>4. Cardinality(Kept(i, q)) \in Nat /\ Cardinality(Lost(i, d)) \in Nat
        /\ Cardinality(Kept(i, q)) + Cardinality(Lost(i, d)) = n
    BY OrderFinite DEF OrderOf
  <2>5. Cardinality(Kept(i, a)) + Cardinality(Lost(i, d)) = n + 1
    BY <2>3, <2>4
  <2>6. o \notin Lost(i, d)
    BY <1>5
  <2>7. \A k \in Kept(i, a) : a[k] \notin Lost(i, d)
    BY <1>1, <1>3, <2>1, <2>6 DEF OrderOf
  <2>8. ASSUME NEW j \in Kept(i, a), NEW k \in Kept(i, a), j < k PROVE a[j].n < a[k].n
    <3>1. CASE k \in Kept(i, q)
      <4>1. j \in Kept(i, q)
        <5>1. j # m
          BY <1>1, <1>3, <2>8, <3>1
        <5> QED  BY <2>1, <5>1
      <4> QED  BY <1>3, <2>8, <3>1, <4>1 DEF OrderOf
    <3>2. CASE k = m
      <4>1. j \in Kept(i, q) /\ j \in 1 .. Len(q)
        <5>1. j # m
          BY <1>1, <2>8, <3>2
        <5> QED  BY <1>3, <2>1, <5>1
      <4>2. q[j].n <= n /\ q[j].n \in Nat
        <5>1. q[j] \in Objects
          BY <4>1, ElementOfSeq
        <5> QED  BY <1>5, <4>1, <5>1 DEF Objects
      <4> QED  BY <1>1, <1>3, <1>5, <3>2, <4>1, <4>2
    <3> QED  BY <2>1, <3>1, <3>2
  <2> QED  BY <2>5, <2>7, <2>8 DEF OrderOf
<1> QED  BY <1>4, <1>5 DEF a

\* It finds the buffer full.
LEMMA OrderDrop ==
    ASSUME NEW q \in Seq(Objects), NEW d, IsFiniteSet(d), NEW i, NEW n \in Nat, OrderOf(i, q, d, n),
           NEW o \in Objects
    PROVE  /\ o.stream # i => OrderOf(i, q, d \cup {o}, n)
           /\ /\ o.stream = i /\ o.n = n + 1
              /\ \A k \in Kept(i, q) : q[k].n <= n
              /\ \A x \in Lost(i, d) : x.n <= n
              => OrderOf(i, q, d \cup {o}, n + 1)
<1>1. \A x : x \in Lost(i, d \cup {o}) <=> x \in Lost(i, d) \/ (x = o /\ o.stream = i)
  BY DEF Lost
<1>2. ASSUME o.stream # i PROVE OrderOf(i, q, d \cup {o}, n)
  <2>1. Lost(i, d \cup {o}) = Lost(i, d)
    BY <1>1, <1>2, Zenon
  <2> QED  BY <2>1 DEF OrderOf
<1>3. ASSUME o.stream = i, o.n = n + 1, \A k \in Kept(i, q) : q[k].n <= n,
             \A x \in Lost(i, d) : x.n <= n
      PROVE  OrderOf(i, q, d \cup {o}, n + 1)
  <2>1. Lost(i, d \cup {o}) = Lost(i, d) \cup {o}
    <3>1. \A x : x \in Lost(i, d \cup {o}) <=> x \in Lost(i, d) \/ x = o
      BY <1>1, <1>3
    <3> QED  BY <3>1, Zenon
  <2>2. o \notin Lost(i, d) /\ \A k \in Kept(i, q) : q[k] # o
    BY <1>3
  <2>3. Cardinality(Lost(i, d \cup {o})) = Cardinality(Lost(i, d)) + 1
    BY <2>1, <2>2, OrderFinite, FS_AddElement
  <2>4. Cardinality(Kept(i, q)) \in Nat /\ Cardinality(Lost(i, d)) \in Nat
        /\ Cardinality(Kept(i, q)) + Cardinality(Lost(i, d)) = n
    BY OrderFinite DEF OrderOf
  <2>5. Cardinality(Kept(i, q)) + Cardinality(Lost(i, d \cup {o})) = n + 1
    BY <2>3, <2>4
  <2>6. \A k \in Kept(i, q) : q[k] \notin Lost(i, d \cup {o})
    BY <2>1, <2>2 DEF OrderOf
  <2> QED  BY <2>5, <2>6 DEF OrderOf
<1> QED  BY <1>2, <1>3

LEMMA PushedType ==
    ASSUME DataTypeOK
    PROVE  \A t \in Ids : /\ Pushed(t) \in Seq(Objects) /\ Len(Pushed(t)) \in Nat
                          /\ dropped[t] \subseteq Objects
<1>1. \A t \in Ids : got[t] \in Seq(Objects) /\ buffer[t] \in Seq(Objects)
                     /\ dropped[t] \subseteq Objects
  BY DEF DataTypeOK
<1>2. \A t \in Ids : Pushed(t) \in Seq(Objects)
  BY <1>1, ConcatProperties DEF Pushed
<1> QED  BY <1>1, <1>2

\* The reader of a stream goes on with the track it found, from where it is.
Onward ==
    /\ Len(streams) <= Len(streams')
    /\ \A j \in 1 .. Len(streams) :
         /\ streams[j].read <= streams'[j].read
         /\ streams[j].target # NoRequest => streams'[j].target = streams[j].target
LEMMA ReadFromStays ==
    ASSUME DataTypeOK, DataTypeOK', Onward, NEW t \in Ids, NEW o \in Objects, ReadFrom(o, t)
    PROVE  ReadFrom(o, t)'
<1>1. CASE o.stream = 0
  BY <1>1 DEF ReadFrom
<1>2. CASE o.stream # 0
  <2> DEFINE i == o.stream
  <2>1. i \in 1 .. Len(streams) /\ streams[i].target = t /\ o.n <= streams[i].read
    BY <1>2 DEF ReadFrom
  <2>2. t # NoRequest
    BY TrackEnds
  <2>3. Len(streams) \in Nat /\ Len(streams') \in Nat
    BY DEF DataTypeOK
  <2>4. i \in 1 .. Len(streams') /\ streams'[i].target = t
    BY <2>1, <2>2, <2>3 DEF Onward
  <2>5. o.n \in Nat /\ streams[i].read \in Nat /\ streams'[i].read \in Nat
    <3>1. streams[i] \in StreamStates /\ streams'[i] \in StreamStates
      BY <2>1, <2>4, ElementOfSeq DEF DataTypeOK
    <3> QED  BY <3>1 DEF StreamStates, Objects
  <2>6. o.n <= streams'[i].read
    BY <2>1, <2>5 DEF Onward
  <2> QED  BY <2>4, <2>6 DEF ReadFrom
<1> QED  BY <1>1, <1>2

\* A stream of which nothing was read has left nothing in a buffer.
LEMMA FreshOrder ==
    ASSUME DataTypeOK, BuffersInv, NEW i \in 1 .. Len(streams), NEW t \in Ids,
           streams[i].target = NoRequest
    PROVE  OrderOf(i, Pushed(t), dropped[t], 0)
<1>1. i # 0 /\ t # NoRequest
  BY TrackEnds DEF DataTypeOK
<1>2. Kept(i, Pushed(t)) = {}
  BY <1>1 DEF BuffersInv, BufferInv, ReadFrom, Kept
<1>3. Lost(i, dropped[t]) = {}
  BY <1>1 DEF BuffersInv, BufferInv, ReadFrom, Lost
<1>4. Cardinality({}) = 0
  BY FS_EmptySet
<1> QED  BY <1>2, <1>3, <1>4 DEF OrderOf

\* Nothing is put into a buffer and nothing is read from a stream.
LEMMA BuffersKept ==
    ASSUME DataTypeOK, DataTypeOK', BuffersInv,
           \A t \in Ids : Pushed(t)' = Pushed(t) /\ dropped'[t] = dropped[t],
           Len(streams) <= Len(streams'),
           \A j \in 1 .. Len(streams) :
             /\ streams'[j].read = streams[j].read
             /\ \/ streams'[j].target = streams[j].target
                \/ streams[j].target = NoRequest /\ streams[j].read = 0,
           \A j \in 1 .. Len(streams') :
             j \in 1 .. Len(streams) \/ streams'[j].target = NoRequest
    PROVE  BuffersInv'
<1>1. Onward
  <2>1. \A j \in 1 .. Len(streams) : streams[j].read \in Nat
    <3>1. \A j \in 1 .. Len(streams) : streams[j] \in StreamStates
      BY ElementOfSeq DEF DataTypeOK
    <3> QED  BY <3>1 DEF StreamStates
  <2> QED  BY <2>1 DEF Onward
<1>2. ASSUME NEW t \in Ids PROVE BufferInv(t)'
  <2>1. BufferInv(t) /\ Pushed(t)' = Pushed(t) /\ dropped'[t] = dropped[t]
    BY DEF BuffersInv
  <2>2. \A o \in dropped[t] : ReadFrom(o, t)'
    BY <1>1, <2>1, PushedType, ReadFromStays DEF BufferInv
  <2>3. ASSUME NEW k \in 1 .. Len(Pushed(t)), NEW o, o = Pushed(t)[k] PROVE ReadFrom(o, t)'
    <3>1. o \in Objects
      BY <2>3, PushedType, ElementOfSeq
    <3> QED  BY <1>1, <2>1, <2>3, <3>1, ReadFromStays DEF BufferInv
  <2>4. \A k \in 1 .. Len(Pushed(t))' : ReadFrom(Pushed(t)[k], t)'
    BY <2>1, <2>3
  <2> QED  BY <2>1, <2>2, <2>4 DEF BufferInv
<1>3. ASSUME NEW i \in 1 .. Len(streams'), NEW t, t = streams'[i].target, t # NoRequest
      PROVE  OrderOf(i, Pushed(t)', dropped'[t], streams'[i].read)
  <2>1. i \in 1 .. Len(streams) /\ t \in Ids
    <3>1. streams'[i] \in StreamStates
      BY ElementOfSeq DEF DataTypeOK
    <3> QED  BY <1>3, <3>1 DEF StreamStates
  <2>2. OrderOf(i, Pushed(t), dropped[t], streams[i].read)
    <3>1. CASE streams[i].target = t
      <4>1. StreamOrder /\ t # NoRequest
        BY <2>1, TrackEnds DEF BuffersInv
      <4> QED  BY <2>1, <3>1, <4>1, OrderIsOrderOf
    <3>2. CASE streams[i].target # t
      BY <1>3, <2>1, <3>2, FreshOrder
    <3> QED  BY <3>1, <3>2
  <2>3. Pushed(t)' = Pushed(t) /\ dropped'[t] = dropped[t] /\ streams'[i].read = streams[i].read
    BY <2>1
  <2> QED  BY <2>2, <2>3
<1>4. StreamOrder'
  <2>1. ASSUME NEW i \in 1 .. Len(streams'), NEW x, x = streams'[i].target, x # NoRequest
        PROVE  /\ \A k \in Kept(i, Pushed(x)') : Pushed(x)'[k].n <= streams'[i].read
               /\ \A l \in Lost(i, dropped'[x]) : l.n <= streams'[i].read
    <3>1. streams' \in Seq(StreamStates)
      BY DEF DataTypeOK
    <3>2. x \in Ids /\ i # 0
      <4>1. streams'[i] \in StreamStates
        BY <3>1, ElementOfSeq
      <4>2. x \in Ids
        BY <2>1, <4>1 DEF StreamStates
      <4>3. Len(streams') \in Nat
        BY <3>1
      <4> QED  BY <4>2, <4>3
    <3>3. BufferInv(x)'
      BY <1>2, <3>2
    <3> QED  BY <3>2, <3>3 DEF BufferInv, ReadFrom, Kept, Lost
  <2> QED  BY <1>3, <2>1 DEF StreamOrder, Pushed, OrderOf, Kept, Lost
<1> QED  BY <1>2, <1>4 DEF BuffersInv

\* What was put into the buffers, after one more object.
LEMMA PushedAfter ==
    ASSUME DataTypeOK, NEW t \in Ids, NEW o \in Objects, PushSet(t, o), UNCHANGED got
    PROVE  /\ \A x \in Ids : x # t => Pushed(x)' = Pushed(x) /\ dropped'[x] = dropped[x]
           /\ \/ Pushed(t)' = Append(Pushed(t), o) /\ dropped'[t] = dropped[t]
              \/ Pushed(t)' = Pushed(t) /\ dropped'[t] = dropped[t] \cup {o}
<1>1. \A x \in Ids : x # t => Pushed(x)' = Pushed(x) /\ dropped'[x] = dropped[x]
  BY DEF PushSet, Pushed
<1>2. CASE buffer'[t] = buffer[t] /\ dropped'[t] = dropped[t] \cup {o}
  BY <1>1, <1>2 DEF Pushed
<1>3. CASE buffer'[t] = Append(buffer[t], o) /\ dropped'[t] = dropped[t]
  <2> DEFINE g == got[t]
             b == buffer[t]
  <2>1. g \in Seq(Objects) /\ b \in Seq(Objects)
    BY DEF DataTypeOK
  <2> HIDE DEF g, b
  <2>2. /\ Append(b, o) \in Seq(Objects) /\ Len(Append(b, o)) = Len(b) + 1
        /\ Append(b, o)[Len(b) + 1] = o /\ \A k \in 1 .. Len(b) : Append(b, o)[k] = b[k]
    BY <2>1, AppendProperties
  <2>3. /\ g \o b \in Seq(Objects) /\ Len(g \o b) = Len(g) + Len(b)
        /\ \A k \in 1 .. Len(g) + Len(b) :
             (g \o b)[k] = IF k <= Len(g) THEN g[k] ELSE b[k - Len(g)]
    BY <2>1, ConcatProperties
  <2> DEFINE u == g \o Append(b, o)
             v == Append(g \o b, o)
  <2>4. /\ u \in Seq(Objects) /\ Len(u) = Len(g) + Len(b) + 1
        /\ \A k \in 1 .. Len(g) + Len(b) + 1 :
             u[k] = IF k <= Len(g) THEN g[k] ELSE Append(b, o)[k - Len(g)]
    <3>1. /\ u \in Seq(Objects) /\ Len(u) = Len(g) + Len(Append(b, o))
          /\ \A k \in 1 .. Len(g) + Len(Append(b, o)) :
               u[k] = IF k <= Len(g) THEN g[k] ELSE Append(b, o)[k - Len(g)]
      BY <2>1, <2>2, ConcatProperties
    <3>2. Len(g) + Len(Append(b, o)) = Len(g) + Len(b) + 1
      BY <2>1, <2>2
    <3> QED  BY <3>1, <3>2
  <2>5. /\ v \in Seq(Objects) /\ Len(v) = Len(g) + Len(b) + 1
        /\ v[Len(g) + Len(b) + 1] = o
        /\ \A k \in 1 .. Len(g) + Len(b) : v[k] = (g \o b)[k]
    BY <2>3, AppendProperties
  <2>6. Len(g) \in Nat /\ Len(b) \in Nat
    BY <2>1
  <2> HIDE DEF u, v
  <2>7. ASSUME NEW k \in 1 .. Len(u) PROVE u[k] = v[k]
    <3>1. CASE k <= Len(g)
      <4>1. k \in 1 .. Len(g) + Len(b) + 1 /\ k \in 1 .. Len(g) + Len(b)
        BY <2>4, <2>6, <2>7, <3>1
      <4>2. u[k] = g[k]
        BY <2>4, <3>1, <4>1
      <4>3. (g \o b)[k] = g[k] /\ v[k] = (g \o b)[k]
        BY <2>3, <2>5, <3>1, <4>1
      <4> QED  BY <4>2, <4>3
    <3>2. CASE k > Len(g) /\ k <= Len(g) + Len(b)
      <4>1. /\ k \in 1 .. Len(g) + Len(b) + 1 /\ k \in 1 .. Len(g) + Len(b)
            /\ k - Len(g) \in 1 .. Len(b) /\ ~(k <= Len(g))
        BY <2>4, <2>6, <2>7, <3>2
      <4>2. u[k] = Append(b, o)[k - Len(g)]
        BY <2>4, <4>1
      <4>3. (g \o b)[k] = b[k - Len(g)] /\ v[k] = (g \o b)[k]
        BY <2>3, <2>5, <4>1
      <4>4. Append(b, o)[k - Len(g)] = b[k - Len(g)]
        BY <2>2, <4>1
      <4> QED  BY <4>2, <4>3, <4>4
    <3>3. CASE k = Len(g) + Len(b) + 1
      <4>1. k - Len(g) = Len(b) + 1 /\ ~(k <= Len(g))
        BY <2>6, <3>3
      <4> QED  BY <2>2, <2>4, <2>5, <2>6, <2>7, <3>3, <4>1
    <3> QED  BY <2>4, <2>6, <2>7, <3>1, <3>2, <3>3
  <2>8. u = v
    BY <2>4, <2>5, <2>7, SeqEqual
  <2>9. Pushed(t)' = Append(Pushed(t), o)
    BY <1>3, <2>8 DEF Pushed, g, b, u, v
  <2> QED  BY <1>1, <1>3, <2>9
<1> QED  BY <1>2, <1>3 DEF PushSet

\* ReadObject moves the first object of the buffer to what was returned.
LEMMA PushedStays ==
    ASSUME DataTypeOK, NEW e \in Endpoints, NEW id \in Ids, ReadObject(e, id)
    PROVE  \A t \in Ids : Pushed(t)' = Pushed(t)
<1> DEFINE g == got[id]
           b == buffer[id]
<1>1. g \in Seq(Objects) /\ b \in Seq(Objects) /\ b # << >>
  BY DEF DataTypeOK, ReadObject
<1>2. /\ got' = [got EXCEPT ![id] = Append(g, Head(b))]
      /\ buffer' = [buffer EXCEPT ![id] = Tail(b)]
  BY DEF ReadObject
<1>3. got'[id] = Append(g, Head(b)) /\ buffer'[id] = Tail(b)
      /\ \A t \in Ids : t # id => got'[t] = got[t] /\ buffer'[t] = buffer[t]
  BY <1>2 DEF DataTypeOK
<1> HIDE DEF g, b
<1>4. /\ Head(b) \in Objects /\ Tail(b) \in Seq(Objects) /\ Len(Tail(b)) = Len(b) - 1
      /\ \A k \in 1 .. Len(Tail(b)) : Tail(b)[k] = b[k + 1]
      /\ Head(b) = b[1] /\ Len(b) \in Nat \ {0} /\ Len(g) \in Nat
  BY <1>1, HeadTailProperties, EmptySeq
<1>5. /\ Append(g, Head(b)) \in Seq(Objects) /\ Len(Append(g, Head(b))) = Len(g) + 1
      /\ Append(g, Head(b))[Len(g) + 1] = Head(b)
      /\ \A k \in 1 .. Len(g) : Append(g, Head(b))[k] = g[k]
  BY <1>1, <1>4, AppendProperties
<1> DEFINE a == Append(g, Head(b))
           u == g \o b
           v == a \o Tail(b)
<1>6. /\ u \in Seq(Objects) /\ Len(u) = Len(g) + Len(b)
      /\ \A k \in 1 .. Len(g) + Len(b) : u[k] = IF k <= Len(g) THEN g[k] ELSE b[k - Len(g)]
  BY <1>1, ConcatProperties
<1>7. /\ v \in Seq(Objects) /\ Len(v) = Len(g) + Len(b)
      /\ \A k \in 1 .. Len(g) + Len(b) :
           v[k] = IF k <= Len(g) + 1 THEN a[k] ELSE Tail(b)[k - (Len(g) + 1)]
  <2> HIDE DEF a
  <2>1. a \in Seq(Objects) /\ Len(a) = Len(g) + 1
    BY <1>5 DEF a
  <2>2. /\ v \in Seq(Objects) /\ Len(v) = Len(a) + Len(Tail(b))
        /\ \A k \in 1 .. Len(a) + Len(Tail(b)) :
             v[k] = IF k <= Len(a) THEN a[k] ELSE Tail(b)[k - Len(a)]
    BY <1>4, <2>1, ConcatProperties
  <2>3. Len(a) + Len(Tail(b)) = Len(g) + Len(b)
    BY <1>4, <2>1
  <2> QED  BY <2>1, <2>2, <2>3
<1> HIDE DEF u, v
<1>8. ASSUME NEW k \in 1 .. Len(u) PROVE u[k] = v[k]
  <2>1. CASE k <= Len(g)
    <3>1. k \in 1 .. Len(g) + Len(b) /\ k \in 1 .. Len(g) /\ k <= Len(g) + 1
      BY <1>4, <1>6, <1>8, <2>1
    <3>2. u[k] = g[k]
      BY <1>6, <2>1, <3>1
    <3>3. v[k] = a[k]
      BY <1>7, <3>1
    <3> QED  BY <1>5, <3>1, <3>2, <3>3
  <2>2. CASE k = Len(g) + 1
    <3>1. k - Len(g) = 1 /\ ~(k <= Len(g))
      BY <1>4, <2>2
    <3> QED  BY <1>4, <1>5, <1>6, <1>7, <1>8, <2>2, <3>1
  <2>3. CASE k > Len(g) + 1
    <3>1. k - (Len(g) + 1) \in 1 .. Len(Tail(b)) /\ (k - (Len(g) + 1)) + 1 = k - Len(g)
      BY <1>4, <1>6, <1>8, <2>3
    <3> QED  BY <1>4, <1>6, <1>7, <1>8, <2>3, <3>1
  <2> QED  BY <1>4, <1>6, <1>8, <2>1, <2>2, <2>3
<1>9. u = v
  BY <1>6, <1>7, <1>8, SeqEqual
<1>10. Pushed(id)' = Pushed(id)
  BY <1>3, <1>9 DEF Pushed, g, b, a, u, v
<1> QED  BY <1>3, <1>10 DEF Pushed

\* An object is put into the buffer of its track, or dropped: a datagram, or the next
\* object of a stream.
LEMMA BuffersPush ==
    ASSUME DataTypeOK, DataTypeOK', BuffersInv, NEW t \in Ids, NEW o \in Objects,
           PushSet(t, o), UNCHANGED got,
           Len(streams') = Len(streams),
           \A j \in 1 .. Len(streams) :
             /\ streams'[j].target = streams[j].target
             /\ j # o.stream => streams'[j].read = streams[j].read,
           o.stream # 0 =>
             /\ o.stream \in 1 .. Len(streams) /\ streams[o.stream].target = t
             /\ o.n = streams[o.stream].read + 1
             /\ streams'[o.stream].read = streams[o.stream].read + 1
    PROVE  BuffersInv'
<1>1. /\ \A x \in Ids : x # t => Pushed(x)' = Pushed(x) /\ dropped'[x] = dropped[x]
      /\ \/ Pushed(t)' = Append(Pushed(t), o) /\ dropped'[t] = dropped[t]
         \/ Pushed(t)' = Pushed(t) /\ dropped'[t] = dropped[t] \cup {o}
  BY PushedAfter
<1>2. \A j \in 1 .. Len(streams) : streams[j].read \in Nat /\ streams[j].target \in Ids \cup {NoRequest}
  <2>1. \A j \in 1 .. Len(streams) : streams[j] \in StreamStates
    BY ElementOfSeq DEF DataTypeOK
  <2> QED  BY <2>1 DEF StreamStates
<1>3. Len(streams) \in Nat /\ o.n \in Nat /\ o.stream \in Nat
  BY DEF DataTypeOK, Objects
<1>4. Onward
  <2>1. ASSUME NEW j \in 1 .. Len(streams) PROVE streams[j].read <= streams'[j].read
    <3>1. CASE j = o.stream
      <4>1. o.stream # 0
        BY <1>3, <3>1
      <4> QED  BY <1>2, <3>1, <4>1
    <3>2. CASE j # o.stream
      BY <1>2, <3>2
    <3> QED  BY <3>1, <3>2
  <2> QED  BY <1>3, <2>1 DEF Onward
<1>5. ReadFrom(o, t)'
  <2>1. CASE o.stream # 0
    BY <1>2, <1>3, <2>1 DEF ReadFrom
  <2> QED  BY <2>1 DEF ReadFrom
<1>6. \A x \in Ids : BufferInv(x) /\ Pushed(x) \in Seq(Objects) /\ dropped[x] \subseteq Objects
  BY PushedType DEF BuffersInv
<1>7. ASSUME NEW x \in Ids PROVE BufferInv(x)'
  <2>1. \A d \in dropped[x] : ReadFrom(d, x)'
    BY <1>4, <1>6, ReadFromStays DEF BufferInv
  <2>2. ASSUME NEW k \in 1 .. Len(Pushed(x)), NEW d, d = Pushed(x)[k] PROVE ReadFrom(d, x)'
    <3>1. d \in Objects
      BY <1>6, <2>2, ElementOfSeq
    <3> QED  BY <1>4, <1>6, <2>2, <3>1, ReadFromStays DEF BufferInv
  <2>3. CASE Pushed(x)' = Pushed(x) /\ dropped'[x] = dropped[x]
    BY <1>6, <2>1, <2>2, <2>3 DEF BufferInv
  <2>4. CASE x = t /\ Pushed(x)' = Append(Pushed(x), o) /\ dropped'[x] = dropped[x]
    <3> DEFINE q == Pushed(x)
    <3>1. Len(Append(q, o)) = Len(q) + 1 /\ Append(q, o)[Len(q) + 1] = o
          /\ \A k \in 1 .. Len(q) : Append(q, o)[k] = q[k]
      BY <1>6, AppendProperties
    <3>2. \A k \in 1 .. Len(q) + 1 : k \in 1 .. Len(q) \/ k = Len(q) + 1
      BY <1>6
    <3>3. ASSUME NEW k \in 1 .. Len(Pushed(x)') PROVE ReadFrom(Pushed(x)[k], x)'
      <4>1. k \in 1 .. Len(q) \/ k = Len(q) + 1
        BY <2>4, <3>1, <3>2, <3>3
      <4>2. CASE k \in 1 .. Len(q)
        BY <2>2, <2>4, <3>1, <4>2
      <4>3. CASE k = Len(q) + 1
        BY <1>5, <2>4, <3>1, <4>3
      <4> QED  BY <4>1, <4>2, <4>3
    <3> QED  BY <1>6, <2>1, <2>4, <3>3 DEF BufferInv
  <2>5. CASE x = t /\ Pushed(x)' = Pushed(x) /\ dropped'[x] = dropped[x] \cup {o}
    <3>1. IsFiniteSet(dropped[x] \cup {o})
      BY <1>6, FS_AddElement DEF BufferInv
    <3>2. \A d \in dropped'[x] : ReadFrom(d, x)'
      BY <1>5, <2>1, <2>5
    <3>3. \A k \in 1 .. Len(Pushed(x)') : ReadFrom(Pushed(x)[k], x)'
      BY <2>2, <2>5
    <3> QED  BY <2>5, <3>1, <3>2, <3>3 DEF BufferInv
  <2> QED  BY <1>1, <2>3, <2>4, <2>5
<1>8. ASSUME NEW i \in 1 .. Len(streams'), NEW x, x = streams'[i].target, x # NoRequest
      PROVE  OrderOf(i, Pushed(x)', dropped'[x], streams'[i].read)
  <2> DEFINE q == Pushed(x)
             d == dropped[x]
             n == streams[i].read
  <2>1. i \in 1 .. Len(streams) /\ x \in Ids /\ x = streams[i].target /\ n \in Nat /\ i # 0
    BY <1>2, <1>3, <1>8
  <2>2. OrderOf(i, q, d, n) /\ q \in Seq(Objects) /\ IsFiniteSet(d)
    <3>1. StreamOrder
      BY DEF BuffersInv
    <3>2. OrderOf(i, q, d, n)
      BY <1>8, <2>1, <3>1, OrderIsOrderOf
    <3> QED  BY <1>6, <2>1, <3>2 DEF BufferInv
  <2>3. CASE x # t
    <3>1. Pushed(x)' = q /\ dropped'[x] = d /\ streams'[i].read = n
      BY <1>1, <2>1, <2>3
    <3> QED  BY <2>2, <3>1
  <2>4. CASE x = t /\ i # o.stream
    <3>1. streams'[i].read = n
      BY <2>1, <2>4
    <3>2. OrderOf(i, Append(q, o), d, n)
      BY <2>1, <2>2, <2>4, OrderAppend
    <3>3. OrderOf(i, q, d \cup {o}, n)
      BY <2>1, <2>2, <2>4, OrderDrop
    <3> QED  BY <1>1, <2>4, <3>1, <3>2, <3>3
  <2>5. CASE x = t /\ i = o.stream
    <3>1. streams'[i].read = n + 1 /\ o.n = n + 1
      BY <2>1, <2>5
    <3>2. (\A k \in Kept(i, q) : q[k].n <= n) /\ (\A l \in Lost(i, d) : l.n <= n)
      <4>1. BufferInv(x)
        BY <1>6, <2>1
      <4> QED  BY <2>1, <4>1 DEF BufferInv, ReadFrom, Kept, Lost
    <3> HIDE DEF q, d, n
    <3>3. OrderOf(i, Append(q, o), d, n + 1)
      BY <2>1, <2>2, <2>5, <3>1, <3>2, OrderAppend
    <3>4. OrderOf(i, q, d \cup {o}, n + 1)
      BY <2>1, <2>2, <2>5, <3>1, <3>2, OrderDrop
    <3> QED  BY <1>1, <2>5, <3>1, <3>3, <3>4 DEF q, d
  <2> QED  BY <2>3, <2>4, <2>5
<1>9. StreamOrder'
  <2>1. ASSUME NEW i \in 1 .. Len(streams'), NEW x, x = streams'[i].target, x # NoRequest
        PROVE  /\ \A k \in Kept(i, Pushed(x)') : Pushed(x)'[k].n <= streams'[i].read
               /\ \A l \in Lost(i, dropped'[x]) : l.n <= streams'[i].read
    <3>1. streams' \in Seq(StreamStates)
      BY DEF DataTypeOK
    <3>2. x \in Ids /\ i # 0
      <4>1. streams'[i] \in StreamStates
        BY <3>1, ElementOfSeq
      <4>2. x \in Ids
        BY <2>1, <4>1 DEF StreamStates
      <4>3. Len(streams') \in Nat
        BY <3>1
      <4> QED  BY <4>2, <4>3
    <3>3. BufferInv(x)'
      BY <1>7, <3>2
    <3> QED  BY <3>2, <3>3 DEF BufferInv, ReadFrom, Kept, Lost
  <2> QED  BY <1>8, <2>1 DEF StreamOrder, Pushed, OrderOf, Kept, Lost
<1> QED  BY <1>7, <1>9 DEF BuffersInv

\* Every step of the data plane.
LEMMA BuffersData ==
    ASSUME TypeOK, DataTypeOK, DataTypeOK', PublishInv, DatagramsInv, BuffersInv, DataStep
    PROVE  BuffersInv'
<1> USE DEF publisherVars, datagramVars, bufferVars, readVars
<1>1. Len(streams) \in Nat
  BY DEF DataTypeOK
<1>2. ASSUME UNCHANGED <<got, bufferVars>>
      PROVE  \A t \in Ids : Pushed(t)' = Pushed(t) /\ dropped'[t] = dropped[t]
  BY <1>2 DEF Pushed
<1>3. ASSUME \A t \in Ids : Pushed(t)' = Pushed(t) /\ dropped'[t] = dropped[t], UNCHANGED streams
      PROVE  BuffersInv'
  BY <1>1, <1>3, BuffersKept
<1>4. ASSUME NEW i, NEW s, StreamSet(i, s), s.read = streams[i].read,
             \/ s.target = streams[i].target
             \/ streams[i].target = NoRequest /\ streams[i].read = 0,
             UNCHANGED <<got, bufferVars>>
      PROVE  BuffersInv'
  <2>1. Len(streams') = Len(streams)
        /\ \A j \in 1 .. Len(streams) :
             /\ streams'[j].read = streams[j].read
             /\ \/ streams'[j].target = streams[j].target
                \/ streams[j].target = NoRequest /\ streams[j].read = 0
    BY <1>4 DEF StreamSet
  <2> QED  BY <1>1, <1>2, <1>4, <2>1, BuffersKept
<1>5. ASSUME NEW id, StreamAdded(id), UNCHANGED <<got, bufferVars>> PROVE BuffersInv'
  <2>1. /\ Len(streams') = Len(streams) + 1 /\ streams'[Len(streams) + 1].target = NoRequest
        /\ \A j \in 1 .. Len(streams) : streams'[j] = streams[j]
    BY <1>5 DEF StreamAdded
  <2>2. Len(streams) <= Len(streams')
        /\ \A j \in 1 .. Len(streams') : j \in 1 .. Len(streams) \/ streams'[j].target = NoRequest
    BY <1>1, <2>1
  <2> QED  BY <1>2, <1>5, <2>1, <2>2, BuffersKept
<1>6. ASSUME NEW w \in Writers, NEW ok \in BOOLEAN, OpenStream(w, ok) PROVE BuffersInv'
  <2>1. UNCHANGED <<got, bufferVars>>
    BY <1>6 DEF OpenStream
  <2>2. CASE ok
    BY <1>5, <1>6, <2>1, <2>2, OpenStreamDoes
  <2>3. CASE ~ok
    BY <1>2, <1>3, <1>6, <2>1, <2>3, NoStreamDoes
  <2> QED  BY <2>2, <2>3
<1>7. ASSUME NEW w \in Writers, NEW ok \in BOOLEAN, OpenFetchStream(w, ok) PROVE BuffersInv'
  <2>1. UNCHANGED <<got, bufferVars>>
    BY <1>7 DEF OpenFetchStream
  <2>2. StreamAdded(writer[w].id) \/ UNCHANGED streams
    BY <1>7, OpenFetchStreamDoes
  <2> QED  BY <1>2, <1>3, <1>5, <2>1, <2>2
<1>8. ASSUME NEW w \in Writers, WriteHeader(w) PROVE BuffersInv'
  <2>1. UNCHANGED <<got, bufferVars>>
    BY <1>8 DEF WriteHeader
  <2> DEFINE i == writer[w].stream
  <2>2. PICK s : StreamSet(i, s) /\ s.target = streams[i].target /\ s.read = streams[i].read
    BY <1>8, WriteHeaderDoes
  <2> QED  BY <1>4, <2>1, <2>2
<1>9. ASSUME NEW w \in Writers, WriteObject(w) \/ CloseStream(w) PROVE BuffersInv'
  <2>1. UNCHANGED <<got, bufferVars>>
    BY <1>9 DEF WriteObject, CloseStream
  <2> DEFINE i == writer[w].stream
  <2>2. PICK s : StreamSet(i, s) /\ s.target = streams[i].target /\ s.read = streams[i].read
    BY <1>9, WriteDoes
  <2> QED  BY <1>4, <2>1, <2>2
<1>10. ASSUME NEW i \in 1 .. MaxStreams, AcceptStream(i) \/ EndOfStream(i) \/ StreamCut(i)
       PROVE  BuffersInv'
  <2>1. UNCHANGED <<got, bufferVars>>
    BY <1>10 DEF AcceptStream, EndOfStream, StreamCut
  <2>2. PICK s : StreamSet(i, s) /\ s.target = streams[i].target /\ s.read = streams[i].read
    BY <1>10, StateDoes
  <2> QED  BY <1>4, <2>1, <2>2
<1>11. ASSUME NEW i \in 1 .. MaxStreams, FindTrack(i) PROVE BuffersInv'
  <2>1. UNCHANGED <<got, bufferVars>>
    BY <1>11 DEF FindTrack
  <2>2. i \in 1 .. Len(streams) /\ streams[i].state = "accepted"
    BY <1>11, FindTrackDoes
  <2>3. PICK s : StreamSet(i, s) /\ s.read = streams[i].read
    BY <1>11, FindTrackDoes
  <2>4. streams[i].target = NoRequest /\ streams[i].read = 0
    BY <2>2 DEF PublishInv, StreamInv
  <2> QED  BY <1>4, <2>1, <2>3, <2>4
<1>12. ASSUME NEW i \in 1 .. MaxStreams, ReadStream(i) PROVE BuffersInv'
  <2> DEFINE t == streams[i].target
             o == Object(streams[i].track, i, streams[i].read + 1)
  <2>1. /\ i \in 1 .. Len(streams) /\ t \in Ids
        /\ o \in Objects /\ o.stream = i /\ o.n = streams[i].read + 1
        /\ PushSet(t, o)
    BY <1>12, ReadStreamDoes
  <2>2. PICK s : StreamSet(i, s) /\ s.target = t /\ s.read = streams[i].read + 1
    BY <1>12, ReadStreamDoes
  <2>3. UNCHANGED got
    BY <1>12 DEF ReadStream
  <2> HIDE DEF o
  <2>4. /\ Len(streams') = Len(streams) /\ streams'[i].read = streams[i].read + 1
        /\ \A j \in 1 .. Len(streams) : /\ streams'[j].target = streams[j].target
                                        /\ j # i => streams'[j].read = streams[j].read
    BY <2>2 DEF StreamSet
  <2> QED  BY <2>1, <2>3, <2>4, BuffersPush
<1>13. ASSUME NEW o \in datagrams, ReceiveDatagram(o) PROVE BuffersInv'
  <2> DEFINE e == Subscriber(o.track)
             t == FindByTrackAlias(e, HeaderKey(o.track))
  <2>1. o \in Objects /\ e \in Endpoints /\ t \in Ids \cup {NoRequest} /\ o.stream = 0
    BY TrackEnds, FoundType DEF DataTypeOK, Objects, DatagramsInv, DatagramInv
  <2>2. UNCHANGED <<got, streams>>
    BY <1>13 DEF ReceiveDatagram
  <2>3. CASE t = NoRequest
    BY <1>2, <1>3, <1>13, <2>2, <2>3 DEF ReceiveDatagram
  <2>4. CASE t # NoRequest
    <3>1. Push(t, o) /\ t \in Ids
      BY <1>13, <2>1, <2>4 DEF ReceiveDatagram
    <3>2. PushSet(t, o)
      BY <2>1, <3>1, PushDoes
    <3> HIDE DEF t
    <3> QED  BY <2>1, <2>2, <3>1, <3>2, BuffersPush
  <2> QED  BY <2>3, <2>4
<1>14. ASSUME NEW e \in Endpoints, NEW id \in Ids, ReadObject(e, id) PROVE BuffersInv'
  <2>1. \A t \in Ids : Pushed(t)' = Pushed(t) /\ dropped'[t] = dropped[t]
    BY <1>14, PushedStays DEF ReadObject
  <2> QED  BY <1>3, <1>14, <2>1 DEF ReadObject
<1>15. ASSUME \/ \E w \in Writers, id \in Ids :
                   OpenSubgroup(w, id) \/ GetFetchStream(w, id) \/ SendDatagram(w, id)
              \/ \E o \in datagrams : LoseDatagram(o)
              \/ \E e \in Endpoints, which \in {"streams", "datagrams"} : DataReaderEnds(e, which)
              \/ \E e \in Endpoints, id \in Ids : ReadDone(e, id)
       PROVE  BuffersInv'
  <2>1. UNCHANGED <<got, bufferVars, streams>>
    BY <1>15 DEF OpenSubgroup, GetFetchStream, SendDatagram, LoseDatagram, DataReaderEnds, ReadDone
  <2> QED  BY <1>2, <1>3, <2>1
<1> QED  BY <1>6, <1>7, <1>8, <1>9, <1>10, <1>11, <1>12, <1>13, <1>14, <1>15
         DEF DataStep, WriterStep, WriterCall, StreamStep

-----------------------------------------------------------------------------
(***************************************************************************)
(* The theorems.                                                           *)
(***************************************************************************)

LEMMA InitDataInv == DataInit => DataInv
<1> SUFFICES ASSUME DataInit PROVE DataInv
  OBVIOUS
<1>1. FiledInv
  <2>1. ASSUME NEW e \in Endpoints PROVE QueueOK(ctrl[e], Fetches(Peer(e)))
    <3>1. \A i \in 1 .. Len(ctrl[e]) : ctrl[e][i].type = "CLIENT_SETUP"
      <4>1. CASE e = Server
        BY <4>1 DEF DataInit, Init, ControlInit, LimitMsg
      <4>2. CASE e # Server
        <5>1. ctrl[e] = << >>
          BY <4>2 DEF DataInit, Init, ControlInit
        <5> QED  BY <5>1
      <4> QED  BY <4>1, <4>2
    <3> QED  BY <3>1 DEF QueueOK
  <2>2. \A e \in Endpoints, id \in Ids : CallInv(e, id)
    BY DEF DataInit, Init, CallInv, NoRemoteTrack
  <2>3. \A e \in Endpoints : aliases[e] = {}
    BY DEF DataInit, Init
  <2> QED  BY <2>1, <2>2, <2>3 DEF FiledInv
<1>2. DataTypeOK
  <2>1. NoWork \in WriterStates
    BY DEF NoWork, WriterStates
  <2>2. \A id \in Ids : buffer[id] = << >> /\ got[id] = << >>
    BY DEF DataInit
  <2>3. Len(<< >>) = 0 /\ << >> \in Seq(Objects) /\ << >> \in Seq(StreamStates)
    OBVIOUS
  <2>4. \A id \in Ids : Len(buffer[id]) <= BufferSize
    BY <2>2, <2>3, DataAssumption
  <2>5. /\ buffer \in [Ids -> Seq(Objects)] /\ got \in [Ids -> Seq(Objects)]
        /\ streams \in Seq(StreamStates)
    BY <2>3 DEF DataInit
  <2> QED  BY <2>1, <2>4, <2>5 DEF DataInit, DataTypeOK
<1>3. PublishInv
  BY DEF DataInit, PublishInv, WriterInv, FetchInv, NoWork
<1>4. CountsInv
  <2>1. ASSUME NEW id \in Ids PROVE CountInv(id)
    <3>1. StreamsOf(id) = {} /\ Counting(id) = {} /\ InOpenSubgroup(id) = {}
      BY DEF DataInit, StreamsOf, Counting, InOpenSubgroup, NoWork
    <3>2. Cardinality(StreamsOf(id)) = 0
      BY <3>1, FS_EmptySet
    <3> QED  BY <3>1, <3>2 DEF CountInv, DataInit
  <2> QED  BY <2>1 DEF CountsInv
<1>5. DatagramsInv
  BY DEF DataInit, DatagramsInv, SettledDatagramsAreSafe
<1>6. BuffersInv
  <2>1. StreamOrder
    BY DEF DataInit, StreamOrder
  <2>2. ASSUME NEW id \in Ids PROVE BufferInv(id)
    <3>1. got[id] = << >> /\ buffer[id] = << >> /\ dropped[id] = {}
      BY DEF DataInit
    <3>2. Len(Pushed(id)) = 0
      BY <3>1 DEF Pushed
    <3>3. IsFiniteSet({})
      BY FS_EmptySet
    <3> QED  BY <3>1, <3>2, <3>3 DEF BufferInv
  <2> QED  BY <2>1, <2>2 DEF BuffersInv
<1> QED  BY <1>1, <1>2, <1>3, <1>4, <1>5, <1>6 DEF DataInv

\* Nothing of the data plane moves.
LEMMA DataStutter ==
    ASSUME TypeOK, RequestInv, DataInv, DataTypeOK', UNCHANGED <<vars, dataVars>>
    PROVE  PublishInv' /\ CountsInv' /\ DatagramsInv' /\ BuffersInv'
<1> USE DEF dataVars, publisherVars, datagramVars, bufferVars, readVars
<1>1. PublishInv'
  BY PublishTrack DEF DataInv
<1>2. CountsInv'
  <2>1. LocalKept
    BY LocalUntouched DEF vars, trackVars
  <2>2. \A x \in Ids : WorkSame(x) /\ StreamsOf(x)' = StreamsOf(x)
    BY WorkUntouched DEF StreamsOf
  <2> QED  BY <2>1, <2>2, CountKept DEF DataInv, CountsInv
<1>3. DatagramsInv'
  <2>1. LocalKept /\ AliasesGrow
    BY LocalUntouched DEF vars, trackVars, AliasesGrow
  <2>2. \A o \in datagrams : DatagramInv(o)'
    BY <2>1, HarmlessStays DEF DataInv, DatagramsInv, DataTypeOK
  <2> QED  BY <2>2 DEF DataInv, DatagramsInv, SettledDatagramsAreSafe
<1>4. BuffersInv'
  <2>1. DataTypeOK /\ BuffersInv
    BY DEF DataInv
  <2>2. Len(streams) \in Nat /\ \A t \in Ids : Pushed(t)' = Pushed(t) /\ dropped'[t] = dropped[t]
    BY <2>1 DEF DataTypeOK, Pushed
  <2> QED  BY <2>1, <2>2, BuffersKept
<1> QED  BY <1>1, <1>2, <1>3, <1>4

\* A step of the system is one of the control plane, or leaves that alone.
LEMMA DataNextIsNext == [DataNext]_<<vars, dataVars>> => [Next]_vars
BY DEF DataNext, TrackStep

\* The inductive invariant.
LEMMA DataInvStep ==
    ASSUME TypeOK, TypeOK', RequestInv, DataInv, [DataNext]_<<vars, dataVars>>
    PROVE  DataInv'
<1>0. FiledInv /\ DataTypeOK /\ PublishInv /\ CountsInv /\ DatagramsInv /\ BuffersInv
  BY DEF DataInv
<1>1. FiledInv'
  BY <1>0, NextFiled, DataNextIsNext
<1>2. DataTypeOK'
  BY <1>0, DataTypeStep
<1>3. CASE TrackStep
  <2> USE DEF datagramVars, bufferVars, readVars
  <2>1. /\ [Next]_vars /\ UNCHANGED <<writer, streams, fetchLock, fetchStream>>
        /\ UNCHANGED <<rash, datagrams, dataReaders>> /\ UNCHANGED <<buffer, dropped, got>>
    BY <1>3 DEF TrackStep
  <2>2. PublishInv'
    BY <1>0, <2>1, PublishTrack
  <2>3. CountsInv'
    BY <1>0, <1>3, CountsTrack
  <2>4. DatagramsInv'
    BY <1>0, <2>1, DatagramsTrack
  <2>5. BuffersInv'
    <3>1. Len(streams) \in Nat /\ \A t \in Ids : Pushed(t)' = Pushed(t) /\ dropped'[t] = dropped[t]
      BY <1>0, <2>1 DEF DataTypeOK, Pushed
    <3> QED  BY <1>0, <1>2, <2>1, <3>1, BuffersKept
  <2> QED  BY <1>1, <1>2, <2>2, <2>3, <2>4, <2>5 DEF DataInv
<1>4. CASE DataStep /\ UNCHANGED vars
  <2>1. PublishInv'
    BY <1>0, <1>4, PublishData
  <2>2. CountsInv'
    BY <1>0, <1>4, CountsData
  <2>3. DatagramsInv'
    BY <1>0, <1>4, DatagramsData
  <2>4. BuffersInv'
    BY <1>0, <1>2, <1>4, BuffersData
  <2> QED  BY <1>1, <1>2, <2>1, <2>2, <2>3, <2>4 DEF DataInv
<1>5. CASE UNCHANGED <<vars, dataVars>>
  BY <1>1, <1>2, <1>5, DataStutter DEF DataInv
<1> QED  BY <1>3, <1>4, <1>5 DEF DataNext

LEMMA DataInvariant == DataSpec => []DataInv
<1>1. DataInit => Init
  BY DEF DataInit
<1>2. DataSpec => Spec
  BY <1>1, DataNextIsNext, PTL DEF DataSpec, Spec
<1>3. TypeOK /\ TypeOK' /\ RequestInv /\ DataInv /\ [DataNext]_<<vars, dataVars>> => DataInv'
  BY DataInvStep
<1> QED  BY <1>2, <1>3, InitDataInv, RequestInvariant, PTL DEF DataSpec

\* Every variable of the data plane has the values the code can give it, and no buffer
\* holds more than its channel, however many goroutines publish (remote_track.go:173).
THEOREM DataTypeCorrect == DataSpec => []DataTypeOK
<1>1. DataInv => DataTypeOK
  BY DEF DataInv
<1> QED  BY <1>1, DataInvariant, PTL

\* A fetch has one stream, for any number of goroutines that ask for it
\* (local_track.go:52), and its reader misses the track only when the fetch was refused
\* or given up (session.go:241).
THEOREM OneFetch == DataSpec => []OneFetchStream
<1>1. DataInv => OneFetchStream
  <2> SUFFICES ASSUME DataInv, NEW i \in 1 .. Len(streams), Kind(streams[i].track) = "fetch"
               PROVE  LET id == streams[i].track
                          r == rt[Subscriber(id)][id] IN
                      /\ StreamsOf(id) = {i} /\ fetchStream[id] = i
                      /\ streams[i].state = "unknown" =>
                           r.resp = "error" \/ r.call \in {"refused", "cancelled", "unsent"}
    BY DEF OneFetchStream
  <2> DEFINE id == streams[i].track
  <2>1. \A j \in 1 .. Len(streams) : StreamInv(j)
    BY DEF DataInv, PublishInv
  <2>2. fetchStream[id] = i /\ (streams[i].state = "unknown" => Doomed(Subscriber(id), id))
    BY <2>1 DEF StreamInv
  <2>3. \A j : j \in StreamsOf(id) <=> j = i
    BY <2>1, <2>2 DEF StreamInv, StreamsOf
  <2>4. StreamsOf(id) = {i}
    BY <2>3, Zenon
  <2> QED  BY <2>2, <2>4 DEF Doomed
<1> QED  BY <1>1, DataInvariant, PTL

\* The StreamCount of SUBSCRIBE_DONE never exceeds the number of streams, and is that
\* number when no openSubgroup overlapped another or CloseWithError
\* (local_track.go:123), for any number of publishing goroutines.
THEOREM CountsRight == DataSpec => []StreamCount
<1>1. DataInv => StreamCount
  <2> SUFFICES ASSUME DataInv, NEW id \in Ids, doneCount[id] # -1
               PROVE  /\ doneCount[id] <= Cardinality(StreamsOf(id))
                      /\ id \notin raced => doneCount[id] = Cardinality(StreamsOf(id))
    BY DEF StreamCount
  <2>1. CountInv(id)
    BY DEF DataInv, CountsInv
  <2> QED  BY <2>1 DEF CountInv
<1> QED  BY <1>1, DataInvariant, PTL

\* Datagrams sent only to subscribers that have their track never end a data reader,
\* whatever is closed, unsubscribed or answered meanwhile (session.go:258).
THEOREM DatagramsSafe == DataSpec => []SettledDatagramsAreSafe
<1>1. DataInv => SettledDatagramsAreSafe
  BY DEF DataInv, DatagramsInv
<1> QED  BY <1>1, DataInvariant, PTL

\* The objects of a stream are kept in their order, each once, and the missing ones are
\* those that were dropped, whatever shares the buffer (remote_track.go:141, 173).
THEOREM OrderKept == DataSpec => []StreamOrder
<1>1. DataInv => StreamOrder
  BY DEF DataInv, BuffersInv
<1> QED  BY <1>1, DataInvariant, PTL

=============================================================================

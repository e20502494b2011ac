---------------------------- MODULE TracksProofs ----------------------------
(***************************************************************************)
(* Theorems about Tracks, for every value of the constants.                *)
(***************************************************************************)
EXTENDS Tracks, ControlProofs

-----------------------------------------------------------------------------
(***************************************************************************)
(* Updates of one track.                                                   *)
(***************************************************************************)

\* The types of rt and lt, kept folded while their updates are reasoned about.
RemoteTracks == [Endpoints -> [Ids -> RemoteTrack]]
LocalTracks == [Endpoints -> [Ids -> LocalTrack]]

\* Replacing a remote track by another.
LEMMA RemoteTrackUpdate ==
    ASSUME NEW f \in RemoteTracks, NEW e \in Endpoints, NEW id \in Ids,
           NEW r \in RemoteTrack
    PROVE  [f EXCEPT ![e][id] = r] \in RemoteTracks
BY DEF RemoteTracks

\* A field of a remote track takes any value of its type.
LEMMA RemoteFieldUpdate ==
    ASSUME NEW r \in RemoteTrack
    PROVE  /\ \A v \in {"none", "begun", "waiting", "aborting", "ok", "refused",
                        "cancelled", "unsent"} : [r EXCEPT !.call = v] \in RemoteTrack
           /\ \A v \in {"empty", "ok", "error"} : [r EXCEPT !.resp = v] \in RemoteTrack
           /\ \A v \in {"ok", "refused"} :
                [r EXCEPT !.call = v, !.resp = "empty"] \in RemoteTrack
           /\ [r EXCEPT !.done = TRUE] \in RemoteTrack
           /\ [r EXCEPT !.closes = r.closes + 1] \in RemoteTrack
           /\ [r EXCEPT !.updates = r.updates + 1] \in RemoteTrack
           /\ r.resp \in {"empty", "ok", "error"}
<1>1. \A v \in {"none", "begun", "waiting", "aborting", "ok", "refused",
                "cancelled", "unsent"} : [r EXCEPT !.call = v] \in RemoteTrack
  BY DEF RemoteTrack
<1>2. \A v \in {"empty", "ok", "error"} : [r EXCEPT !.resp = v] \in RemoteTrack
  BY DEF RemoteTrack
<1>3. \A v \in {"ok", "refused"} : [r EXCEPT !.call = v, !.resp = "empty"] \in RemoteTrack
  BY DEF RemoteTrack
<1>4. [r EXCEPT !.done = TRUE] \in RemoteTrack
  BY DEF RemoteTrack
<1>5. [r EXCEPT !.closes = r.closes + 1] \in RemoteTrack
  BY DEF RemoteTrack
<1>6. [r EXCEPT !.updates = r.updates + 1] \in RemoteTrack
  BY DEF RemoteTrack
<1>7. r.resp \in {"empty", "ok", "error"}
  BY DEF RemoteTrack
<1> QED  BY <1>1, <1>2, <1>3, <1>4, <1>5, <1>6, <1>7

\* Replacing a local track by another.
LEMMA LocalTrackUpdate ==
    ASSUME NEW f \in LocalTracks, NEW e \in Endpoints, NEW id \in Ids,
           NEW r \in LocalTrack
    PROVE  [f EXCEPT ![e][id] = r] \in LocalTracks
BY DEF LocalTracks

\* A field of a local track takes any value of its type.
LEMMA LocalFieldUpdate ==
    ASSUME NEW r \in LocalTrack
    PROVE  /\ \A v \in {"live", "unsubscribed", "done"} : [r EXCEPT !.ctx = v] \in LocalTrack
           /\ \A v \in {"none", "confirmed", "ok", "error"} : [r EXCEPT !.answer = v] \in LocalTrack
           /\ \A v \in {"none", "confirmed", "ok", "error"} : Handled(r, v) \in LocalTrack
           /\ r.answer \in {"none", "confirmed", "ok", "error"}
           /\ r.ctx \in {"live", "unsubscribed", "done"}
BY DEF LocalTrack, Handled

\* The updates of a remote track that the actions make.
LEMMA RemoteTrackSteps ==
    ASSUME NEW f \in RemoteTracks, NEW e \in Endpoints, NEW id \in Ids
    PROVE  /\ \A v \in {"none", "begun", "waiting", "aborting", "ok", "refused",
                        "cancelled", "unsent"} : [f EXCEPT ![e][id].call = v] \in RemoteTracks
           /\ \A v \in {"empty", "ok", "error"} : [f EXCEPT ![e][id].resp = v] \in RemoteTracks
           /\ [f EXCEPT ![e][id].done = TRUE] \in RemoteTracks
           /\ [f EXCEPT ![e][id].closes = @ + 1] \in RemoteTracks
           /\ [f EXCEPT ![e][id].updates = @ + 1] \in RemoteTracks
           /\ \A v \in {"ok", "refused"} :
                [f EXCEPT ![e][id] = [@ EXCEPT !.call = v, !.resp = "empty"]] \in RemoteTracks
           /\ f[e][id].resp \in {"empty", "ok", "error"}
<1>1. f[e][id] \in RemoteTrack
  BY DEF RemoteTracks
<1> QED  BY <1>1, RemoteTrackUpdate, RemoteFieldUpdate, Zenon

\* The updates of a local track that the actions make.
LEMMA LocalTrackSteps ==
    ASSUME NEW f \in LocalTracks, NEW e \in Endpoints, NEW id \in Ids
    PROVE  /\ \A v \in {"live", "unsubscribed", "done"} :
                [f EXCEPT ![e][id].ctx = v] \in LocalTracks
           /\ \A v \in {"none", "confirmed", "ok", "error"} :
                [f EXCEPT ![e][id].answer = v] \in LocalTracks
           /\ \A v \in {"none", "confirmed", "ok", "error"} :
                [f EXCEPT ![e][id] = Handled(@, v)] \in LocalTracks
           /\ f[e][id].answer \in {"none", "confirmed", "ok", "error"}
           /\ f[e][id].ctx \in {"live", "unsubscribed", "done"}
<1>1. f[e][id] \in LocalTrack
  BY DEF LocalTracks
<1> QED  BY <1>1, LocalTrackUpdate, LocalFieldUpdate, Zenon

-----------------------------------------------------------------------------
(***************************************************************************)
(* Type correctness.  One lemma per group of actions.                      *)
(***************************************************************************)

\* The steps of the control plane keep the type invariant.
LEMMA ControlStepType ==
    ASSUME TypeOK, NEW e \in Endpoints, ControlStep(e)
    PROVE  TypeOK'
<1> USE DEF TypeOK, trackVars
<1>0. Client \in Endpoints /\ Server \in Endpoints
  BY DEF Endpoints
<1>1. CASE OnClientSetup
  <2>1. /\ ctrl' \in [Endpoints -> Seq(Message)]
        /\ Head(ctrl[Server]).val \in Nat
    BY <1>0, <1>1, ConsumeType, HeadType DEF OnClientSetup, NextIs
  <2> QED  BY <1>0, <1>1, <2>1 DEF OnClientSetup, ControlStep, ControlReads
<1>2. CASE WriteServerSetup
  <2>1. LimitMsg("SERVER_SETUP", ServerSetupMax) \in Message
    BY ControlAssumption, MsgType DEF MessageTypes, LimitMsg, Message, Ids
  <2>2. ctrl' \in [Endpoints -> Seq(Message)]
    BY <1>0, <1>2, <2>1, WriteType DEF WriteServerSetup
  <2> QED  BY <1>0, <1>2, <2>2 DEF WriteServerSetup, Return, Failures, ControlStep, ControlReads
<1>3. CASE OnServerSetup
  <2>1. /\ ctrl' \in [Endpoints -> Seq(Message)]
        /\ Head(ctrl[Client]).val \in Nat
    BY <1>0, <1>3, ConsumeType, HeadType DEF OnServerSetup, NextIs
  <2> QED  BY <1>0, <1>3, <2>1 DEF OnServerSetup, SetMax, Return, Failures, ControlStep, ControlReads
<1>4. CASE OnMessageBeforeSetup(e)
  <2>1. ctrl' \in [Endpoints -> Seq(Message)]
    BY <1>4, ConsumeType DEF OnMessageBeforeSetup
  <2> QED  BY <1>4, <2>1 DEF OnMessageBeforeSetup, Return, Failures, ControlStep, ControlReads
<1>5. CASE OnMaxRequestID(e)
  <2>1. /\ ctrl' \in [Endpoints -> Seq(Message)]
        /\ Head(ctrl[e]).val \in Nat
    BY <1>5, ConsumeType, HeadType DEF OnMaxRequestID, Reading, NextIs
  <2> QED  BY <1>5, <2>1 DEF OnMaxRequestID, SetMax, Return, Failures, ControlStep, ControlReads
<1>6. CASE OnRequestsBlocked(e)
  <2>1. ctrl' \in [Endpoints -> Seq(Message)]
    BY <1>6, ConsumeType DEF OnRequestsBlocked, Reading, NextIs
  <2> QED  BY <1>6, <2>1 DEF OnRequestsBlocked, ControlStep, ControlReads
<1>7. CASE ReadFails(e)
  BY <1>7 DEF ReadFails, Return, Failures, ControlStep, ControlReads
<1> QED  BY <1>1, <1>2, <1>3, <1>4, <1>5, <1>6, <1>7 DEF ControlStep, ControlReads

\* The answers and SUBSCRIBE_DONE keep it.
LEMMA AnswerType ==
    ASSUME TypeOK, NEW e \in Endpoints,
           \/ OnSubscribeOk(e) \/ OnFetchOk(e)
           \/ OnSubscribeError(e) \/ OnFetchError(e) \/ OnSubscribeDone(e)
    PROVE  TypeOK'
<1> DEFINE m == Head(ctrl[e])
<1> USE DEF TypeOK
<1>0. ctrl[e] # << >> /\ m.id \in Ids /\ m.val \in Nat
  BY HeadType DEF OnSubscribeOk, OnFetchOk, OnSubscribeError, OnFetchError,
                  OnError, OnSubscribeDone, Reading, NextIs
<1>1. \A type \in MessageTypes :
        Written(ctrl[Peer(e)], Msg(type, m.id)) \in Seq(Message)
  BY <1>0, MsgType, WrittenType, PeerType
<1>2. ctrl[Peer(e)] \in Seq(Message)
  BY PeerType
<1>r. /\ [rt EXCEPT ![e][m.id].resp = "ok"] \in RemoteTracks
      /\ [rt EXCEPT ![e][m.id].resp = "error"] \in RemoteTracks
      /\ [rt EXCEPT ![e][m.id].resp = rt[e][m.id].resp] \in RemoteTracks
      /\ [rt EXCEPT ![e][m.id].done = TRUE] \in RemoteTracks
      /\ rt \in RemoteTracks
  <2>1. rt \in RemoteTracks
    BY DEF RemoteTracks
  <2> HIDE DEF TypeOK
  <2> QED  BY <1>0, <2>1, RemoteTrackSteps, ZenonT(30)
<1>3. CASE OnSubscribeOk(e)
  <2>1. ctrl' \in [Endpoints -> Seq(Message)]
    <3>1. CASE Consume(e)
      BY <3>1, <1>0, ConsumeType
    <3>2. CASE ConsumeAndLeave(e, ctrl[Peer(e)])
      BY <3>2, <1>0, <1>2, ConsumeAndLeaveType
    <3>3. CASE ConsumeAndLeave(e, Written(ctrl[Peer(e)], Msg("UNSUBSCRIBE", m.id)))
      BY <3>3, <1>0, <1>1, ConsumeAndLeaveType DEF MessageTypes
    <3> QED  BY <1>3, <3>1, <3>2, <3>3 DEF OnSubscribeOk
  <2>2. aliases' \in [Endpoints -> SUBSET (Nat \X Ids)]
    <3>1. <<m.val, m.id>> \in Nat \X Ids
      BY <1>0
    <3>2. aliases' = aliases \/ aliases' = [aliases EXCEPT ![e] = @ \cup {<<m.val, m.id>>}]
      BY <1>3, Zenon DEF OnSubscribeOk
    <3>3. aliases[e] \cup {<<m.val, m.id>>} \in SUBSET (Nat \X Ids)
      BY <3>1, Zenon
    <3> HIDE DEF m
    <3> QED  BY <3>2, <3>3
  <2>3. rt' \in [Endpoints -> [Ids -> RemoteTrack]]
    <3>1. rt' = rt \/ rt' = [rt EXCEPT ![e][m.id].resp = "ok"]
                    \/ rt' = [rt EXCEPT ![e][m.id].resp = rt[e][m.id].resp]
      BY <1>3, Zenon DEF OnSubscribeOk
    <3> QED  BY <3>1, <1>r, Zenon DEF RemoteTracks
  <2>4. failure' \in [Endpoints -> Failures]
    BY <1>3 DEF OnSubscribeOk, Return, Failures
  <2>5. /\ rpending' \in [Endpoints -> SUBSET Ids]
        /\ ropen' \in [Endpoints -> SUBSET Ids]
        /\ \A x \in Endpoints : rpending'[x] \cap ropen'[x] = {}
    BY <1>0, <1>3 DEF OnSubscribeOk, PendingAfterConfirm
  <2> QED  BY <1>3, <2>1, <2>2, <2>3, <2>4, <2>5 DEF OnSubscribeOk
<1>4. CASE OnFetchOk(e)
  <2>1. ctrl' \in [Endpoints -> Seq(Message)]
    <3>1. CASE ConsumeAndLeave(e, ctrl[Peer(e)])
      BY <3>1, <1>0, <1>2, ConsumeAndLeaveType
    <3>2. CASE ConsumeAndLeave(e, Written(ctrl[Peer(e)], Msg("FETCH_CANCEL", m.id)))
      BY <3>2, <1>0, <1>1, ConsumeAndLeaveType DEF MessageTypes
    <3> QED  BY <1>4, <3>1, <3>2 DEF OnFetchOk
  <2>2. rt' \in [Endpoints -> [Ids -> RemoteTrack]]
    <3>1. rt' = [rt EXCEPT ![e][m.id].resp = "ok"]
            \/ rt' = [rt EXCEPT ![e][m.id].resp = rt[e][m.id].resp]
      BY <1>4, Zenon DEF OnFetchOk
    <3> QED  BY <3>1, <1>r, Zenon DEF RemoteTracks
  <2>3. /\ rpending' \in [Endpoints -> SUBSET Ids]
        /\ ropen' \in [Endpoints -> SUBSET Ids]
        /\ \A x \in Endpoints : rpending'[x] \cap ropen'[x] = {}
    BY <1>0, <1>4 DEF OnFetchOk, PendingAfterConfirm
  <2> QED  BY <1>4, <2>1, <2>2, <2>3 DEF OnFetchOk
<1>5. ASSUME NEW type, OnError(e, type)
      PROVE  TypeOK'
  <2>1. ctrl' \in [Endpoints -> Seq(Message)]
    BY <1>0, <1>5, ConsumeType DEF OnError
  <2>2. rt' \in [Endpoints -> [Ids -> RemoteTrack]]
    <3>1. rt' = [rt EXCEPT ![e][m.id].resp = "error"]
            \/ rt' = [rt EXCEPT ![e][m.id].resp = rt[e][m.id].resp]
      BY <1>5, Zenon DEF OnError
    <3> QED  BY <3>1, <1>r, Zenon DEF RemoteTracks
  <2> QED  BY <1>5, <2>1, <2>2 DEF OnError
<1>6. CASE OnSubscribeDone(e)
  <2>1. ctrl' \in [Endpoints -> Seq(Message)]
    BY <1>0, <1>6, ConsumeType DEF OnSubscribeDone
  <2>2. rt' \in [Endpoints -> [Ids -> RemoteTrack]]
    BY <1>r, <1>6, Zenon DEF OnSubscribeDone, RemoteTracks
  <2> QED  BY <1>6, <2>1, <2>2 DEF OnSubscribeDone
<1> QED  BY <1>3, <1>4, <1>5, <1>6 DEF OnSubscribeError, OnFetchError

\* The requests of the peer, and what it asks for afterwards, keep it.
LEMMA PeerRequestType ==
    ASSUME TypeOK, NEW e \in Endpoints,
           \/ OnSubscribe(e) \/ RefuseSubscribe(e) \/ OnFetch(e) \/ RefuseFetch(e)
           \/ OnInvalidRequest(e) \/ OnUnsubscribe(e) \/ OnFetchCancel(e)
           \/ OnSubscribeUpdate(e) \/ OnUnknownRequestID(e)
    PROVE  TypeOK'
<1> DEFINE m == Head(ctrl[e])
<1> USE DEF TypeOK
<1>0. ctrl[e] # << >> /\ m.id \in Ids /\ m.val \in Nat
  BY HeadType DEF OnSubscribe, RefuseSubscribe, OnFetch, RefuseFetch, OnInvalidRequest,
                  OnUnsubscribe, OnFetchCancel, OnSubscribeUpdate, OnUnknownRequestID,
                  OnRequest, Reading, NextIs
<1>1. AnnounceLimit(e, m.id) \in Seq(Message) /\ LimitAfter(e, m.id) \in Nat
  BY <1>0, AnnounceLimitType
<1>2. lt \in LocalTracks
  BY DEF LocalTracks
<1>3. ASSUME NEW kind \in {"subscribe", "fetch"}, OnRequest(e, kind)
      PROVE  TypeOK'
  <2>1. ctrl' \in [Endpoints -> Seq(Message)]
    BY <1>0, <1>1, <1>3, ConsumeAndLeaveType DEF OnRequest
  <2> DEFINE r == [NoLocalTrack EXCEPT !.kind = kind, !.alias = nextAlias[e]]
  <2>2. r \in LocalTrack
    BY DEF NoLocalTrack, LocalTrack, Kinds
  <2>3. lt' = [lt EXCEPT ![e][m.id] = r]
    BY <1>3, Zenon DEF OnRequest
  <2>4. lt' \in [Endpoints -> [Ids -> LocalTrack]]
    <3> HIDE DEF r
    <3> QED  BY <1>0, <1>2, <2>2, <2>3, LocalTrackUpdate DEF LocalTracks
  <2>5. /\ localMax' \in [Endpoints -> Nat]
        /\ handling' \in [Endpoints -> Ids \cup {NoRequest}]
        /\ nextAlias' \in [Endpoints -> Nat]
    BY <1>0, <1>1, <1>3 DEF OnRequest
  <2>6. /\ lpending' \in [Endpoints -> SUBSET Ids]
        /\ \A x \in Endpoints : lpending'[x] \cap lopen'[x] = {}
    BY <1>0, <1>3 DEF OnRequest, Admissible, Local
  <2> QED  BY <1>3, <2>1, <2>4, <2>5, <2>6 DEF OnRequest
<1>4. CASE RefuseSubscribe(e)
  <2>1. Written(AnnounceLimit(e, m.id), Msg("SUBSCRIBE_ERROR", m.id)) \in Seq(Message)
    BY <1>0, <1>1, MsgType, WrittenType DEF MessageTypes
  <2>2. ctrl' \in [Endpoints -> Seq(Message)]
    BY <1>0, <1>4, <2>1, ConsumeAndLeaveType DEF RefuseSubscribe
  <2>3. localMax' \in [Endpoints -> Nat] /\ nextAlias' \in [Endpoints -> Nat]
    BY <1>1, <1>4 DEF RefuseSubscribe
  <2>4. failure' \in [Endpoints -> Failures]
    BY <1>4 DEF RefuseSubscribe, Return, Failures
  <2> QED  BY <1>4, <2>2, <2>3, <2>4 DEF RefuseSubscribe
<1>5. CASE RefuseFetch(e)
  <2>1. Written(AnnounceLimit(e, m.id), Msg("FETCH_ERROR", m.id)) \in Seq(Message)
    BY <1>0, <1>1, MsgType, WrittenType DEF MessageTypes
  <2>2. ctrl' \in [Endpoints -> Seq(Message)]
    <3>1. CASE ConsumeAndLeave(e, Written(AnnounceLimit(e, m.id), Msg("FETCH_ERROR", m.id)))
      BY <3>1, <1>0, <2>1, ConsumeAndLeaveType
    <3>2. CASE ConsumeAndLeave(e, AnnounceLimit(e, m.id))
      BY <3>2, <1>0, <1>1, ConsumeAndLeaveType
    <3> QED  BY <1>5, <3>1, <3>2 DEF RefuseFetch
  <2>3. /\ localMax' \in [Endpoints -> Nat]
        /\ nextAlias' \in [Endpoints -> Nat]
        /\ failure' \in [Endpoints -> Failures]
        /\ lpending' \in [Endpoints -> SUBSET Ids]
        /\ \A x \in Endpoints : lpending'[x] \cap lopen'[x] = {}
    BY <1>1, <1>5 DEF RefuseFetch, Return, Failures
  <2> QED  BY <1>5, <2>2, <2>3 DEF RefuseFetch
<1>6. CASE OnInvalidRequest(e)
  <2>1. ctrl' \in [Endpoints -> Seq(Message)]
    BY <1>0, <1>6, ConsumeType DEF OnInvalidRequest
  <2> QED  BY <1>6, <2>1 DEF OnInvalidRequest, Return, Failures, trackVars
<1>c. /\ [lt EXCEPT ![e][m.id].ctx = "live"] \in LocalTracks
      /\ [lt EXCEPT ![e][m.id].ctx = "unsubscribed"] \in LocalTracks
      /\ [lt EXCEPT ![e][m.id].ctx = "done"] \in LocalTracks
      /\ lt[e][m.id].ctx \in {"live", "unsubscribed", "done"}
  <2> HIDE DEF TypeOK
  <2> QED  BY <1>0, <1>2, LocalTrackSteps, Zenon
<1>d. [lt EXCEPT ![e][m.id].ctx = Cancelled(@, "unsubscribed")] \in LocalTracks
  <2>1. Cancelled(lt[e][m.id].ctx, "unsubscribed") \in {"live", "unsubscribed", "done"}
    BY <1>c, Zenon DEF Cancelled
  <2> HIDE DEF TypeOK
  <2> QED  BY <2>1, <1>0, <1>2, LocalTrackSteps, Zenon
<1>7. CASE OnUnsubscribe(e)
  <2>1. ctrl' \in [Endpoints -> Seq(Message)]
    BY <1>0, <1>7, ConsumeType DEF OnUnsubscribe
  <2>2. lt' \in [Endpoints -> [Ids -> LocalTrack]]
    BY <1>7, <1>d, Zenon DEF OnUnsubscribe, LocalTracks
  <2> QED  BY <1>7, <2>1, <2>2 DEF OnUnsubscribe
<1>8. CASE OnFetchCancel(e)
  <2>1. ctrl' \in [Endpoints -> Seq(Message)]
    BY <1>0, <1>8, ConsumeType DEF OnFetchCancel
  <2>2. lt' \in [Endpoints -> [Ids -> LocalTrack]]
    BY <1>8, <1>d, Zenon DEF OnFetchCancel, LocalTracks
  <2>3. /\ lpending' \in [Endpoints -> SUBSET Ids]
        /\ lopen' \in [Endpoints -> SUBSET Ids]
        /\ \A x \in Endpoints : lpending'[x] \cap lopen'[x] = {}
    BY <1>8 DEF OnFetchCancel
  <2> QED  BY <1>8, <2>1, <2>2, <2>3 DEF OnFetchCancel
<1>9. CASE OnSubscribeUpdate(e)
  <2>1. ctrl' \in [Endpoints -> Seq(Message)]
    BY <1>0, <1>9, ConsumeType DEF OnSubscribeUpdate
  <2> QED  BY <1>9, <2>1 DEF OnSubscribeUpdate, trackVars
<1>10. CASE OnUnknownRequestID(e)
  <2>1. ctrl' \in [Endpoints -> Seq(Message)]
    BY <1>0, <1>10, ConsumeType DEF OnUnknownRequestID
  <2> QED  BY <1>10, <2>1 DEF OnUnknownRequestID, Return, Failures, trackVars
<1> QED  BY <1>3, <1>4, <1>5, <1>6, <1>7, <1>8, <1>9, <1>10 DEF OnSubscribe, OnFetch

\* The calls of the requesting application keep it.
LEMMA CallType ==
    ASSUME TypeOK, NEW e \in Endpoints, NEW id \in Ids,
           \/ CallStep(e, id) \/ Cancel(e, id)
           \/ CloseTrack(e, id) \/ UpdateSubscription(e, id)
    PROVE  TypeOK'
<1> USE DEF TypeOK
<1>0. rt \in RemoteTracks
  BY DEF RemoteTracks
<1>1. \A type \in MessageTypes : Msg(type, id) \in Message
  BY MsgType
<1>2. /\ \A v \in {"waiting", "unsent", "aborting", "cancelled"} :
           [rt EXCEPT ![e][id].call = v] \in RemoteTracks
      /\ \A v \in {"ok", "refused"} :
           [rt EXCEPT ![e][id] = [@ EXCEPT !.call = v, !.resp = "empty"]] \in RemoteTracks
      /\ [rt EXCEPT ![e][id].closes = @ + 1] \in RemoteTracks
      /\ [rt EXCEPT ![e][id].updates = @ + 1] \in RemoteTracks
  <2> HIDE DEF TypeOK
  <2> QED  BY <1>0, RemoteTrackSteps, Zenon
<1>3. CASE WriteRequest(e, id)
  <2> DEFINE m == [type |-> RequestType(rt[e][id].kind), id |-> id,
                   val |-> IF rt[e][id].badNamespace THEN 1 ELSE 0]
  <2>1. m \in Message
    BY DEF RequestType, Message, MessageTypes
  <2>2. Write(e, m)
    BY <1>3, Zenon DEF WriteRequest
  <2>3. ctrl' \in [Endpoints -> Seq(Message)]
    <3> HIDE DEF m
    <3> QED  BY <2>1, <2>2, WriteType
  <2>4. rt' \in [Endpoints -> [Ids -> RemoteTrack]]
    BY <1>3, <1>2, Zenon DEF WriteRequest, RemoteTracks
  <2>5. /\ rpending' \in [Endpoints -> SUBSET Ids]
        /\ \A x \in Endpoints : rpending'[x] \cap ropen'[x] = {}
    BY <1>3 DEF WriteRequest
  <2> QED  BY <1>3, <2>3, <2>4, <2>5 DEF WriteRequest
<1>4. CASE Resolve(e, id)
  <2>1. ctrl' \in [Endpoints -> Seq(Message)]
    BY <1>4, <1>1, WriteType DEF Resolve, MessageTypes
  <2>2. rt' \in [Endpoints -> [Ids -> RemoteTrack]]
    BY <1>4, <1>2, Zenon DEF Resolve, RemoteTracks
  <2>3. /\ rpending' \in [Endpoints -> SUBSET Ids]
        /\ \A x \in Endpoints : rpending'[x] \cap ropen'[x] = {}
    BY <1>4 DEF Resolve
  <2> QED  BY <1>4, <2>1, <2>2, <2>3 DEF Resolve
<1>5. CASE Abort(e, id)
  <2>1. ctrl' \in [Endpoints -> Seq(Message)]
    BY <1>5, <1>1, WriteType DEF Abort, MessageTypes
  <2>2. rt' \in [Endpoints -> [Ids -> RemoteTrack]]
    BY <1>5, <1>2, Zenon DEF Abort, RemoteTracks
  <2>3. /\ rpending' \in [Endpoints -> SUBSET Ids]
        /\ \A x \in Endpoints : rpending'[x] \cap ropen'[x] = {}
    BY <1>5 DEF Abort
  <2> QED  BY <1>5, <2>1, <2>2, <2>3 DEF Abort
<1>6. CASE Cancel(e, id)
  <2>1. rt' \in [Endpoints -> [Ids -> RemoteTrack]]
    BY <1>6, <1>2, Zenon DEF Cancel, RemoteTracks
  <2> QED  BY <1>6, <2>1 DEF Cancel, controlVars
<1>7. CASE CloseTrack(e, id)
  <2>1. ctrl' \in [Endpoints -> Seq(Message)]
    BY <1>7, <1>1, WriteType DEF CloseTrack, CloseType, MessageTypes
  <2>2. rt' \in [Endpoints -> [Ids -> RemoteTrack]]
    BY <1>7, <1>2, Zenon DEF CloseTrack, RemoteTracks
  <2> QED  BY <1>7, <2>1, <2>2 DEF CloseTrack
<1>8. CASE UpdateSubscription(e, id)
  <2>1. ctrl' \in [Endpoints -> Seq(Message)]
    BY <1>8, <1>1, WriteType DEF UpdateSubscription, MessageTypes
  <2>2. rt' \in [Endpoints -> [Ids -> RemoteTrack]]
    BY <1>8, <1>2, Zenon DEF UpdateSubscription, RemoteTracks
  <2> QED  BY <1>8, <2>1, <2>2 DEF UpdateSubscription
<1> QED  BY <1>3, <1>4, <1>5, <1>6, <1>7, <1>8 DEF CallStep

\* Drawing an ID, finding none, and closing the session keep it.
LEMMA SessionCallType ==
    ASSUME TypeOK, NEW e \in Endpoints,
           \/ \E kind \in {"subscribe", "fetch"}, bad \in BOOLEAN : BeginRequest(e, kind, bad)
           \/ RequestBlocked(e) /\ UNCHANGED trackVars
           \/ Close(e) /\ UNCHANGED trackVars
    PROVE  TypeOK'
<1> USE DEF TypeOK
<1>1. ASSUME NEW kind \in {"subscribe", "fetch"}, NEW bad \in BOOLEAN,
             BeginRequest(e, kind, bad)
      PROVE  TypeOK'
  <2> DEFINE id == nextId[e]
             r == [NoRemoteTrack EXCEPT !.kind = kind, !.badNamespace = bad, !.call = "begun"]
  <2>0. DrawId(e)
    BY <1>1, Zenon DEF BeginRequest
  <2>1. id \in Ids /\ nextId' \in [Endpoints -> Nat]
    BY <2>0, ControlAssumption DEF DrawId, NextIdAfterDraw, Ids
  <2>2. r \in RemoteTrack
    BY DEF NoRemoteTrack, RemoteTrack, Kinds
  <2>3. rt' = rt \/ rt' = [rt EXCEPT ![e][id] = r]
    BY <1>1, Zenon DEF BeginRequest
  <2>4. rt' \in [Endpoints -> [Ids -> RemoteTrack]]
    <3>1. rt \in RemoteTracks
      BY DEF RemoteTracks
    <3> HIDE DEF r, id, TypeOK
    <3>2. [rt EXCEPT ![e][id] = r] \in RemoteTracks
      BY <2>1, <2>2, <3>1, RemoteTrackUpdate
    <3> QED  BY <2>3, <3>1, <3>2, Zenon DEF RemoteTracks
  <2>5. /\ rpending' \in [Endpoints -> SUBSET Ids]
        /\ \A x \in Endpoints : rpending'[x] \cap ropen'[x] = {}
    <3>1. \/ rpending' = rpending
          \/ id \notin Remote(e) /\ rpending' = [rpending EXCEPT ![e] = @ \cup {id}]
      BY <1>1, Zenon DEF BeginRequest
    <3>2. ropen' = ropen
      BY <1>1, Zenon DEF BeginRequest
    <3> HIDE DEF id
    <3>3. CASE rpending' = rpending
      BY <3>2, <3>3
    <3>4. CASE id \notin Remote(e) /\ rpending' = [rpending EXCEPT ![e] = @ \cup {id}]
      <4>1. \A x \in Endpoints : rpending'[x] = IF x = e THEN rpending[x] \cup {id} ELSE rpending[x]
        BY <3>4
      <4>2. id \notin ropen[e]
        BY <3>4 DEF Remote
      <4>3. rpending' \in [Endpoints -> SUBSET Ids]
        BY <2>1, <3>4
      <4> QED  BY <3>2, <4>1, <4>2, <4>3
    <3> QED  BY <3>1, <3>3, <3>4
  <2>6. UNCHANGED <<setup, maxId, localMax, ctrl, failure, handling, conn, blockedCalls,
                    ropen, aliases, lpending, lopen, lt, nextAlias>>
    BY <1>1, Zenon DEF BeginRequest
  <2> QED  BY <2>1, <2>4, <2>5, <2>6
<1>2. CASE RequestBlocked(e) /\ UNCHANGED trackVars
  <2>1. LimitMsg("REQUESTS_BLOCKED", maxId[e]) \in Message
    BY ControlAssumption DEF LimitMsg, Message, MessageTypes, Ids
  <2>2. ctrl' \in [Endpoints -> Seq(Message)]
    BY <1>2, <2>1, WriteType DEF RequestBlocked
  <2>3. blockedCalls' \in [Endpoints -> Nat]
    BY <1>2 DEF RequestBlocked
  <2> QED  BY <1>2, <2>2, <2>3 DEF RequestBlocked, trackVars
<1>3. CASE Close(e) /\ UNCHANGED trackVars
  BY <1>3 DEF Close, trackVars
<1> QED  BY <1>1, <1>2, <1>3

\* The response writer and the end of the handler keep it.
LEMMA ResponseWriterType ==
    ASSUME TypeOK, NEW e \in Endpoints, NEW id \in Ids,
           \/ Accept(e, id) \/ WriteAccept(e, id) \/ Reject(e, id)
           \/ handling[e] = id /\ HandlerReturn(e)
           \/ CloseWithError(e, id)
    PROVE  TypeOK'
<1> USE DEF TypeOK
<1>0. lt \in LocalTracks
  BY DEF LocalTracks
<1>1. \A type \in MessageTypes : Msg(type, id) \in Message
  BY MsgType
<1>2. /\ \A v \in {"live", "unsubscribed", "done"} : [lt EXCEPT ![e][id].ctx = v] \in LocalTracks
      /\ [lt EXCEPT ![e][id].answer = "ok"] \in LocalTracks
      /\ \A v \in {"none", "confirmed", "ok", "error"} :
           [lt EXCEPT ![e][id] = Handled(@, v)] \in LocalTracks
      /\ lt[e][id].answer \in {"none", "confirmed", "ok", "error"}
      /\ lt[e][id].ctx \in {"live", "unsubscribed", "done"}
  <2> HIDE DEF TypeOK
  <2> QED  BY <1>0, LocalTrackSteps, Zenon
<1>r. /\ [lt EXCEPT ![e][id] = Handled(@, "confirmed")] \in LocalTracks
      /\ [lt EXCEPT ![e][id] = Handled(@, "error")] \in LocalTracks
      /\ [lt EXCEPT ![e][id] = Handled(@, lt[e][id].answer)] \in LocalTracks
  <2> HIDE DEF TypeOK
  <2> QED  BY <1>2, Zenon
<1>3. CASE Accept(e, id)
  <2>1. lt' \in [Endpoints -> [Ids -> LocalTrack]]
    <3>1. \/ lt' = [lt EXCEPT ![e][id] = Handled(@, "confirmed")]
          \/ lt' = [lt EXCEPT ![e][id] = Handled(@, lt[e][id].answer)]
      BY <1>3, Zenon DEF Accept
    <3>2. lt' \in LocalTracks
      <4> HIDE DEF TypeOK
      <4> QED  BY <1>0, <1>r, <3>1, Zenon
    <3> QED  BY <3>2, Zenon DEF LocalTracks
  <2>2. /\ lpending' \in [Endpoints -> SUBSET Ids]
        /\ lopen' \in [Endpoints -> SUBSET Ids]
        /\ \A x \in Endpoints : lpending'[x] \cap lopen'[x] = {}
    BY <1>3 DEF Accept
  <2> QED  BY <1>3, <2>1, <2>2 DEF Accept, controlVars
<1>4. CASE WriteAccept(e, id)
  <2> DEFINE m == [type |-> OkType(lt[e][id].kind), id |-> id, val |-> OkAlias(e, id)]
  <2>1. m \in Message
    BY DEF OkType, OkAlias, Message, MessageTypes
  <2>2. Write(e, m)
    BY <1>4, Zenon DEF WriteAccept
  <2>3. ctrl' \in [Endpoints -> Seq(Message)]
    <3> HIDE DEF m
    <3> QED  BY <2>1, <2>2, WriteType
  <2>4. lt' \in [Endpoints -> [Ids -> LocalTrack]]
    BY <1>4, <1>2, Zenon DEF WriteAccept, LocalTracks
  <2> QED  BY <1>4, <2>3, <2>4 DEF WriteAccept
<1>5. CASE Reject(e, id)
  <2>1. ctrl' \in [Endpoints -> Seq(Message)]
    BY <1>5, <1>1, WriteType DEF Reject, ErrorType, MessageTypes
  <2>2. lt' \in [Endpoints -> [Ids -> LocalTrack]]
    <3>1. \/ lt' = [lt EXCEPT ![e][id] = Handled(@, "error")]
          \/ lt' = [lt EXCEPT ![e][id] = Handled(@, lt[e][id].answer)]
      BY <1>5, Zenon DEF Reject
    <3>2. lt' \in LocalTracks
      <4> HIDE DEF TypeOK
      <4> QED  BY <1>0, <1>r, <3>1, Zenon
    <3> QED  BY <3>2, Zenon DEF LocalTracks
  <2>3. /\ lpending' \in [Endpoints -> SUBSET Ids]
        /\ \A x \in Endpoints : lpending'[x] \cap lopen'[x] = {}
    BY <1>5 DEF Reject, PendingAfterReject
  <2> QED  BY <1>5, <2>1, <2>2, <2>3 DEF Reject
<1>6. CASE handling[e] = id /\ HandlerReturn(e)
  <2>1. ctrl' \in [Endpoints -> Seq(Message)]
    BY <1>6, <1>1, WriteType DEF HandlerReturn, ErrorType, MessageTypes
  <2>2. lt' \in [Endpoints -> [Ids -> LocalTrack]]
    <3>1. \/ lt' = lt
          \/ lt' = [lt EXCEPT ![e][id] = Handled(@, "error")]
          \/ lt' = [lt EXCEPT ![e][id] = Handled(@, lt[e][id].answer)]
      BY <1>6, Zenon DEF HandlerReturn
    <3>2. lt' \in LocalTracks
      <4> HIDE DEF TypeOK
      <4> QED  BY <1>0, <1>r, <3>1, Zenon
    <3> QED  BY <3>2, Zenon DEF LocalTracks
  <2>3. /\ lpending' \in [Endpoints -> SUBSET Ids]
        /\ \A x \in Endpoints : lpending'[x] \cap lopen'[x] = {}
    BY <1>6 DEF HandlerReturn, PendingAfterReject
  <2>4. failure' \in [Endpoints -> Failures]
    BY <1>6 DEF HandlerReturn, Return, Failures
  <2>5. handling' \in [Endpoints -> Ids \cup {NoRequest}]
    BY <1>6 DEF HandlerReturn
  <2> QED  BY <1>6, <2>1, <2>2, <2>3, <2>4, <2>5 DEF HandlerReturn
<1>7. CASE CloseWithError(e, id)
  <2>1. ctrl' \in [Endpoints -> Seq(Message)]
    BY <1>7, <1>1, WriteType DEF CloseWithError, MessageTypes
  <2>2. lt' \in [Endpoints -> [Ids -> LocalTrack]]
    <3>1. Cancelled(lt[e][id].ctx, "done") \in {"live", "unsubscribed", "done"}
      BY <1>2, Zenon DEF Cancelled
    <3> QED  BY <1>7, <1>2, <3>1, Zenon DEF CloseWithError, LocalTracks
  <2>3. /\ lpending' \in [Endpoints -> SUBSET Ids]
        /\ lopen' \in [Endpoints -> SUBSET Ids]
        /\ \A x \in Endpoints : lpending'[x] \cap lopen'[x] = {}
    BY <1>7 DEF CloseWithError
  <2> QED  BY <1>7, <2>1, <2>2, <2>3 DEF CloseWithError
<1> QED  BY <1>3, <1>4, <1>5, <1>6, <1>7

\* Every variable keeps its type, and a track is never pending and open at once,
\* whatever the two applications do and however their calls and the messages of
\* the two readers interleave.
THEOREM TypeCorrect == Spec => []TypeOK
<1>1. Init => TypeOK
  <2> SUFFICES ASSUME Init PROVE TypeOK
    OBVIOUS
  <2>1. LimitMsg("CLIENT_SETUP", InitialMaxRequestID[Client]) \in Message
    BY ControlAssumption DEF LimitMsg, Message, MessageTypes, Ids, Endpoints
  <2>2. ctrl \in [Endpoints -> Seq(Message)]
    BY <2>1 DEF Init, ControlInit
  <2>3. NoRemoteTrack \in RemoteTrack /\ NoLocalTrack \in LocalTrack
    BY DEF NoRemoteTrack, RemoteTrack, NoLocalTrack, LocalTrack, Kinds
  <2>4. nextId \in [Endpoints -> Nat]
    BY DEF Init, ControlInit, Endpoints, Client, Server
  <2> QED  BY <2>2, <2>3, <2>4, ControlAssumption
           DEF Init, ControlInit, TypeOK, Failures
<1>2. TypeOK /\ [Next]_vars => TypeOK'
  <2> SUFFICES ASSUME TypeOK, [Next]_vars PROVE TypeOK'
    OBVIOUS
  <2>1. CASE UNCHANGED vars
    BY <2>1 DEF vars, controlVars, trackVars, TypeOK
  <2>2. ASSUME NEW e \in Endpoints, Reader(e) PROVE TypeOK'
    BY <2>2, ControlStepType, AnswerType, PeerRequestType DEF Reader
  <2>3. ASSUME NEW e \in Endpoints, HandlerReturn(e) PROVE TypeOK'
    <3>1. handling[e] \in Ids
      BY <2>3 DEF HandlerReturn, TypeOK
    <3> QED  BY <2>3, <3>1, ResponseWriterType
  <2>4. ASSUME NEW e \in Endpoints, Application(e) PROVE TypeOK'
    BY <2>4, SessionCallType, CallType, ResponseWriterType DEF Application
  <2>5. ASSUME NEW e \in Endpoints, NEW id \in Ids, CallStep(e, id) \/ WriteAccept(e, id)
        PROVE  TypeOK'
    BY <2>5, CallType, ResponseWriterType
  <2> QED  BY <2>1, <2>2, <2>3, <2>4, <2>5 DEF Next
<1> QED  BY <1>1, <1>2, PTL DEF Spec

-----------------------------------------------------------------------------
(***************************************************************************)
(* The limits of Request IDs are safe, for every value of the constants    *)
(* with which SERVER_SETUP promises no more than the server enforces.      *)
(***************************************************************************)

(***************************************************************************)
(* The inductive invariant, in terms of one channel q at a time.           *)
(***************************************************************************)

\* The grants in q lie between lo and hi and do not decrease.
GrantsOK(q, lo, hi) ==
    \A i \in 1 .. Len(q) :
      q[i].type \in Grants =>
        /\ lo <= q[i].val
        /\ q[i].val <= hi
        /\ \A j \in 1 .. Len(q) : i < j /\ q[j].type \in Grants => q[i].val <= q[j].val

\* The requests in q are below n.
RequestsBelow(q, n) == \A i \in 1 .. Len(q) : q[i].type \in Requests => q[i].id < n

NoGrants(q) == \A i \in 1 .. Len(q) : q[i].type \notin Grants

\* What is granted in flight lies between what the receiver has and what the
\* granter enforces; requests written, and drawn but not yet written, are below
\* what their receiver enforces; and the server grants nothing before its setup
\* is complete, so that SERVER_SETUP is its first grant.
FlowInv ==
    /\ \A e \in Endpoints :
         /\ maxId[e] <= localMax[Peer(e)]
         /\ GrantsOK(ctrl[e], maxId[e], localMax[Peer(e)])
         /\ RequestsBelow(ctrl[e], localMax[e])
         /\ \A id \in Ids : rt[e][id].call = "begun" => id < localMax[Peer(e)]
         /\ failure[e] # "maxRequestIDDecreased"
    /\ setup[Server] # "done" => maxId[Client] = 0 /\ NoGrants(ctrl[Client])
    /\ InitialMaxRequestID[Server] <= localMax[Server]

\* The invariant says what the two properties of the runs say.
LEMMA FlowInvSuffices ==
    ASSUME TypeOK, FlowInv
    PROVE  RequestsWithinLimit /\ GrantsNeverShrink
<1>1. \A e \in Endpoints : Peer(e) \in Endpoints /\ Peer(Peer(e)) = e
  BY PeerType
<1>2. RequestsWithinLimit
  BY <1>1 DEF FlowInv, RequestsWithinLimit, RequestsBelow, At
<1>3. GrantsNeverShrink
  BY DEF FlowInv, GrantsNeverShrink, GrantsOK, At
<1> QED  BY <1>2, <1>3

-----------------------------------------------------------------------------
(***************************************************************************)
(* Changes of a channel.                                                   *)
(***************************************************************************)

\* Everything the invariant says of q1 it also says of q2.
LimitsKept(q1, q2) ==
    /\ \A lo, hi \in Nat : GrantsOK(q1, lo, hi) => GrantsOK(q2, lo, hi)
    /\ \A n \in Nat : RequestsBelow(q1, n) => RequestsBelow(q2, n)
    /\ NoGrants(q1) => NoGrants(q2)

\* What a message in a channel holds.
LEMMA MessageFields ==
    ASSUME NEW q \in Seq(Message)
    PROVE  \A i \in 1 .. Len(q) : q[i].val \in Nat /\ q[i].id \in Int
<1>1. \A i \in 1 .. Len(q) : q[i] \in Message
  BY ElementOfSeq
<1>2. \A m \in Message : m.val \in Nat /\ m.id \in Int
  BY ControlAssumption DEF Message, Ids
<1> QED  BY <1>1, <1>2

\* Taking a message away keeps what is left.
LEMMA KeptTail ==
    ASSUME NEW q \in Seq(Message), q # << >>
    PROVE  LimitsKept(q, Tail(q))
<1> DEFINE t == Tail(q)
<1>1. /\ t \in Seq(Message) /\ Len(q) \in Nat /\ Len(q) >= 1
      /\ Len(t) = Len(q) - 1
      /\ \A i \in 1 .. Len(t) : t[i] = q[i + 1]
  BY TailElements
<1>2. \A i \in 1 .. Len(t) : i + 1 \in 1 .. Len(q)
  BY <1>1
<1> HIDE DEF t
<1>3. ASSUME NEW lo \in Nat, NEW hi \in Nat, GrantsOK(q, lo, hi)
      PROVE  GrantsOK(t, lo, hi)
  <2> SUFFICES ASSUME NEW i \in 1 .. Len(t), t[i].type \in Grants
               PROVE  /\ lo <= t[i].val /\ t[i].val <= hi
                      /\ \A j \in 1 .. Len(t) :
                           i < j /\ t[j].type \in Grants => t[i].val <= t[j].val
    BY DEF GrantsOK
  <2>1. t[i] = q[i + 1] /\ i + 1 \in 1 .. Len(q) /\ i \in Nat
    BY <1>1, <1>2
  <2>2. lo <= t[i].val /\ t[i].val <= hi
    BY <1>3, <2>1 DEF GrantsOK
  <2>3. ASSUME NEW j \in 1 .. Len(t), i < j, t[j].type \in Grants
        PROVE  t[i].val <= t[j].val
    <3>1. t[j] = q[j + 1] /\ j + 1 \in 1 .. Len(q) /\ i + 1 < j + 1
      BY <1>1, <1>2, <2>1, <2>3
    <3> QED  BY <1>3, <2>1, <2>3, <3>1 DEF GrantsOK
  <2> QED  BY <2>2, <2>3
<1>4. ASSUME NEW n \in Nat, RequestsBelow(q, n) PROVE RequestsBelow(t, n)
  BY <1>1, <1>2, <1>4 DEF RequestsBelow
<1>5. NoGrants(q) => NoGrants(t)
  BY <1>1, <1>2 DEF NoGrants
<1> QED  BY <1>3, <1>4, <1>5 DEF LimitsKept, t

\* After a grant is taken, the others are no less than it.
LEMMA GrantTaken ==
    ASSUME NEW q \in Seq(Message), q # << >>, NEW lo \in Nat, NEW hi \in Nat,
           GrantsOK(q, lo, hi), Head(q).type \in Grants
    PROVE  /\ lo <= Head(q).val /\ Head(q).val <= hi
           /\ GrantsOK(Tail(q), Head(q).val, hi)
<1> DEFINE t == Tail(q)
           h == Head(q)
<1>1. /\ t \in Seq(Message) /\ Len(q) \in Nat /\ Len(q) >= 1
      /\ Len(t) = Len(q) - 1
      /\ \A i \in 1 .. Len(t) : t[i] = q[i + 1]
      /\ h = q[1]
  BY TailElements
<1>2. GrantsOK(t, lo, hi)
  BY KeptTail DEF LimitsKept
<1> HIDE DEF t, h
<1>3. lo <= h.val /\ h.val <= hi
  BY <1>1 DEF GrantsOK, h
<1>4. ASSUME NEW i \in 1 .. Len(t), t[i].type \in Grants
      PROVE  h.val <= t[i].val
  <2>1. t[i] = q[i + 1] /\ i + 1 \in 1 .. Len(q) /\ 1 \in 1 .. Len(q) /\ 1 < i + 1
    BY <1>1
  <2> QED  BY <1>1, <1>4, <2>1 DEF GrantsOK, h
<1>5. GrantsOK(t, h.val, hi)
  BY <1>2, <1>4 DEF GrantsOK
<1> QED  BY <1>3, <1>5 DEF t, h

\* A message that is neither a grant nor a request changes nothing.
LEMMA KeptAppend ==
    ASSUME NEW q \in Seq(Message), NEW m \in Message, m.type \notin Grants \cup Requests
    PROVE  LimitsKept(q, Append(q, m))
<1> DEFINE a == Append(q, m)
<1>1. /\ Len(q) \in Nat /\ Len(a) = Len(q) + 1 /\ a[Len(q) + 1] = m
      /\ \A i \in 1 .. Len(q) : a[i] = q[i]
  BY AppendProperties
<1> HIDE DEF a
<1>2. \A i \in 1 .. Len(a) : (i \in 1 .. Len(q) /\ a[i] = q[i]) \/ a[i] = m
  BY <1>1
<1>3. \A lo, hi \in Nat : GrantsOK(q, lo, hi) => GrantsOK(a, lo, hi)
  BY <1>2 DEF GrantsOK
<1>4. \A n \in Nat : RequestsBelow(q, n) => RequestsBelow(a, n)
  BY <1>2 DEF RequestsBelow
<1>5. NoGrants(q) => NoGrants(a)
  BY <1>2 DEF NoGrants
<1> QED  BY <1>3, <1>4, <1>5 DEF LimitsKept, a

\* A request that is below the limit keeps the rest.
LEMMA RequestAppended ==
    ASSUME NEW q \in Seq(Message), NEW m \in Message, m.type \in Requests,
           NEW n \in Nat, RequestsBelow(q, n), m.id < n
    PROVE  /\ \A lo, hi \in Nat : GrantsOK(q, lo, hi) => GrantsOK(Append(q, m), lo, hi)
           /\ RequestsBelow(Append(q, m), n)
           /\ NoGrants(q) => NoGrants(Append(q, m))
<1> DEFINE a == Append(q, m)
<1>1. /\ Len(q) \in Nat /\ Len(a) = Len(q) + 1 /\ a[Len(q) + 1] = m
      /\ \A i \in 1 .. Len(q) : a[i] = q[i]
  BY AppendProperties
<1>0. m.type \notin Grants
  BY DEF Requests, Grants
<1> HIDE DEF a
<1>2. \A i \in 1 .. Len(a) : (i \in 1 .. Len(q) /\ a[i] = q[i]) \/ a[i] = m
  BY <1>1
<1>3. \A lo, hi \in Nat : GrantsOK(q, lo, hi) => GrantsOK(a, lo, hi)
  BY <1>0, <1>2 DEF GrantsOK
<1>4. RequestsBelow(a, n)
  BY <1>2 DEF RequestsBelow
<1>5. NoGrants(q) => NoGrants(a)
  BY <1>0, <1>2 DEF NoGrants
<1> QED  BY <1>3, <1>4, <1>5 DEF a

\* A grant no less than the limit enforced so far keeps the grants in order.
LEMMA GrantAppended ==
    ASSUME NEW q \in Seq(Message), NEW m \in Message, m.type \in Grants,
           NEW lo \in Nat, NEW hi \in Nat, lo <= hi, hi <= m.val, GrantsOK(q, lo, hi)
    PROVE  /\ GrantsOK(Append(q, m), lo, m.val)
           /\ \A n \in Nat : RequestsBelow(q, n) => RequestsBelow(Append(q, m), n)
<1> DEFINE a == Append(q, m)
<1>1. /\ Len(q) \in Nat /\ Len(a) = Len(q) + 1 /\ a[Len(q) + 1] = m
      /\ \A i \in 1 .. Len(q) : a[i] = q[i]
  BY AppendProperties
<1>e. \A i \in 1 .. Len(q) : q[i].val \in Nat
  BY MessageFields
<1>0. m.type \notin Requests /\ m.val \in Nat
  BY DEF Requests, Grants, Message
<1> HIDE DEF a
<1>2. \A i \in 1 .. Len(a) : \/ i \in 1 .. Len(q) /\ a[i] = q[i]
                             \/ i = Len(q) + 1 /\ a[i] = m
  BY <1>1
<1>3. GrantsOK(a, lo, m.val)
  <2> SUFFICES ASSUME NEW i \in 1 .. Len(a), a[i].type \in Grants
               PROVE  /\ lo <= a[i].val /\ a[i].val <= m.val
                      /\ \A j \in 1 .. Len(a) :
                           i < j /\ a[j].type \in Grants => a[i].val <= a[j].val
    BY DEF GrantsOK
  <2>1. lo <= a[i].val /\ a[i].val <= m.val
    BY <1>0, <1>e, <1>1, <1>2 DEF GrantsOK
  <2>2. ASSUME NEW j \in 1 .. Len(a), i < j, a[j].type \in Grants
        PROVE  a[i].val <= a[j].val
    <3>1. CASE j = Len(q) + 1
      BY <1>1, <2>1, <3>1
    <3>2. CASE j \in 1 .. Len(q)
      <4>1. i \in 1 .. Len(q)
        BY <1>1, <2>2, <3>2
      <4> QED  BY <1>1, <2>2, <3>2, <4>1 DEF GrantsOK
    <3> QED  BY <1>2, <3>1, <3>2
  <2> QED  BY <2>1, <2>2
<1>4. \A n \in Nat : RequestsBelow(q, n) => RequestsBelow(a, n)
  BY <1>0, <1>2 DEF RequestsBelow
<1> QED  BY <1>3, <1>4 DEF a

\* A higher limit admits what a lower one admits.
LEMMA LimitsMonotone ==
    ASSUME NEW q \in Seq(Message), NEW lo \in Nat, NEW hi \in Nat, NEW higher \in Nat,
           hi <= higher
    PROVE  /\ GrantsOK(q, lo, hi) => GrantsOK(q, lo, higher)
           /\ RequestsBelow(q, hi) => RequestsBelow(q, higher)
<1>1. \A i \in 1 .. Len(q) : q[i].val \in Nat /\ q[i].id \in Int
  BY MessageFields
<1> QED  BY <1>1 DEF GrantsOK, RequestsBelow

\* A write of a message that is neither a grant nor a request.
LEMMA WriteKept ==
    ASSUME ctrl \in [Endpoints -> Seq(Message)], NEW e \in Endpoints,
           NEW m \in Message, m.type \notin Grants \cup Requests, Write(e, m)
    PROVE  \A x \in Endpoints : LimitsKept(ctrl[x], ctrl'[x])
<1>1. Peer(e) \in Endpoints
  BY PeerType
<1>2. LimitsKept(ctrl[Peer(e)], Append(ctrl[Peer(e)], m))
  BY <1>1, KeptAppend
<1>3. \A q \in Seq(Message) : LimitsKept(q, q)
  BY DEF LimitsKept
<1>4. \A x \in Endpoints : \/ ctrl'[x] = ctrl[x]
                           \/ x = Peer(e) /\ ctrl'[x] = Append(ctrl[x], m)
  BY <1>1 DEF Write, Written
<1> QED  BY <1>2, <1>3, <1>4

\* The reader takes a message and leaves something harmless in flight.
LEMMA LeaveKept ==
    ASSUME ctrl \in [Endpoints -> Seq(Message)], NEW e \in Endpoints, ctrl[e] # << >>,
           NEW out, LimitsKept(ctrl[Peer(e)], out), ConsumeAndLeave(e, out)
    PROVE  \A x \in Endpoints : LimitsKept(ctrl[x], ctrl'[x])
<1>1. LimitsKept(ctrl[e], Tail(ctrl[e]))
  BY KeptTail
<1>2. ctrl'[e] = Tail(ctrl[e]) /\ ctrl'[Peer(e)] = out
  BY PeerType DEF ConsumeAndLeave
<1>3. \A x \in Endpoints : x = e \/ x = Peer(e)
  BY DEF Endpoints, Client, Server, Peer
<1> QED  BY <1>1, <1>2, <1>3

\* The reader takes a message.
LEMMA ConsumeKept ==
    ASSUME ctrl \in [Endpoints -> Seq(Message)], NEW e \in Endpoints, ctrl[e] # << >>,
           Consume(e)
    PROVE  \A x \in Endpoints : LimitsKept(ctrl[x], ctrl'[x])
<1>1. LimitsKept(ctrl[e], Tail(ctrl[e]))
  BY KeptTail
<1>2. \A q \in Seq(Message) : LimitsKept(q, q)
  BY DEF LimitsKept
<1>3. \A x \in Endpoints : IF x = e THEN ctrl'[x] = Tail(ctrl[x]) ELSE ctrl'[x] = ctrl[x]
  BY DEF Consume
<1> QED  BY <1>1, <1>2, <1>3

\* A harmless message may be written, or not, on top of what is in flight.
LEMMA WrittenKept ==
    ASSUME NEW q \in Seq(Message), NEW m \in Message, m.type \notin Grants \cup Requests
    PROVE  LimitsKept(q, Written(q, m)) /\ LimitsKept(q, q)
BY KeptAppend DEF Written, LimitsKept

\* The messages about a request that carry neither a request nor a grant.
LEMMA HarmlessMessages ==
    ASSUME NEW type \in MessageTypes \ (Grants \cup Requests), NEW id \in Ids
    PROVE  Msg(type, id) \in Message /\ Msg(type, id).type \notin Grants \cup Requests
BY MsgType DEF Msg

-----------------------------------------------------------------------------
(***************************************************************************)
(* Changes of the calls.                                                   *)
(***************************************************************************)

\* No call of g is about to write its request that was not so in f.
BegunKept(f, g) ==
    \A x \in Endpoints, y \in Ids : g[x][y].call = "begun" => f[x][y].call = "begun"

\* Replacing a track by one that is not about to write its request.
LEMMA BegunUpdate ==
    ASSUME NEW f \in RemoteTracks, NEW e \in Endpoints, NEW id \in Ids, NEW r,
           r.call = "begun" => f[e][id].call = "begun"
    PROVE  BegunKept(f, [f EXCEPT ![e][id] = r])
BY DEF BegunKept, RemoteTracks

\* The updates of a remote track that the actions make, but for BeginRequest.
LEMMA BegunSteps ==
    ASSUME NEW f \in RemoteTracks, NEW e \in Endpoints, NEW id \in Ids
    PROVE  /\ \A v \in {"waiting", "unsent", "aborting", "cancelled"} :
                BegunKept(f, [f EXCEPT ![e][id].call = v])
           /\ \A v \in {"empty", "ok", "error"} : BegunKept(f, [f EXCEPT ![e][id].resp = v])
           /\ BegunKept(f, [f EXCEPT ![e][id].done = TRUE])
           /\ BegunKept(f, [f EXCEPT ![e][id].closes = @ + 1])
           /\ BegunKept(f, [f EXCEPT ![e][id].updates = @ + 1])
           /\ \A v \in {"ok", "refused"} :
                BegunKept(f, [f EXCEPT ![e][id] = [@ EXCEPT !.call = v, !.resp = "empty"]])
           /\ BegunKept(f, f)
<1> DEFINE r == f[e][id]
<1>1. r \in RemoteTrack
  BY DEF RemoteTracks
<1>2. /\ \A v \in {"waiting", "unsent", "aborting", "cancelled"} :
           [r EXCEPT !.call = v].call = "begun" => r.call = "begun"
      /\ \A v \in {"empty", "ok", "error"} : [r EXCEPT !.resp = v].call = r.call
      /\ [r EXCEPT !.done = TRUE].call = r.call
      /\ [r EXCEPT !.closes = r.closes + 1].call = r.call
      /\ [r EXCEPT !.updates = r.updates + 1].call = r.call
      /\ \A v \in {"ok", "refused"} :
           [r EXCEPT !.call = v, !.resp = "empty"].call = "begun" => r.call = "begun"
  <2> HIDE DEF r
  <2> QED  BY <1>1 DEF RemoteTrack
<1>3. BegunKept(f, f)
  BY DEF BegunKept
<1> QED  BY <1>2, <1>3, BegunUpdate, Zenon

-----------------------------------------------------------------------------
(***************************************************************************)
(* The invariant is inductive.  Most steps leave the limits alone.         *)
(***************************************************************************)

\* A step that changes no limit, draws no ID and puts neither a grant nor a
\* request in flight keeps the invariant.
LEMMA QuietStep ==
    ASSUME TypeOK, FlowInv, UNCHANGED <<maxId, localMax>>,
           setup'[Server] # "done" => setup[Server] # "done",
           \A x \in Endpoints : LimitsKept(ctrl[x], ctrl'[x]),
           BegunKept(rt, rt'),
           \A x \in Endpoints : failure'[x] # "maxRequestIDDecreased"
    PROVE  FlowInv'
<1>1. \A x \in Endpoints : Peer(x) \in Endpoints /\ maxId[x] \in Nat /\ localMax[x] \in Nat
  BY PeerType DEF TypeOK
<1>2. ASSUME NEW x \in Endpoints
      PROVE  /\ maxId'[x] <= localMax'[Peer(x)]
             /\ GrantsOK(ctrl'[x], maxId'[x], localMax'[Peer(x)])
             /\ RequestsBelow(ctrl'[x], localMax'[x])
             /\ \A id \in Ids : rt'[x][id].call = "begun" => id < localMax'[Peer(x)]
             /\ failure'[x] # "maxRequestIDDecreased"
  BY <1>1 DEF FlowInv, LimitsKept, BegunKept
<1>3. setup'[Server] # "done" => maxId'[Client] = 0 /\ NoGrants(ctrl'[Client])
  BY DEF FlowInv, LimitsKept, Endpoints
<1>4. InitialMaxRequestID[Server] <= localMax'[Server]
  BY DEF FlowInv
<1> QED  BY <1>2, <1>3, <1>4 DEF FlowInv

\* A limit that arrives is no lower than the one the generator has, and becomes
\* the lower bound of those still in flight.
LEMMA GrantReceived ==
    ASSUME TypeOK, FlowInv, NEW e \in Endpoints, ctrl[e] # << >>,
           Head(ctrl[e]).type \in Grants, Consume(e),
           maxId' = [maxId EXCEPT ![e] = Head(ctrl[e]).val],
           UNCHANGED <<localMax, rt, failure>>,
           setup'[Server] # "done" => setup[Server] # "done"
    PROVE  FlowInv'
<1> DEFINE h == Head(ctrl[e])
           p == Peer(e)
<1>1. /\ p \in Endpoints /\ p # e /\ Peer(p) = e
      /\ \A x \in Endpoints : x = e \/ x = p
      /\ \A x \in Endpoints : ctrl[x] \in Seq(Message) /\ maxId[x] \in Nat /\ localMax[x] \in Nat
  BY PeerType DEF TypeOK, Endpoints, Client, Server, Peer
<1>2. /\ maxId[e] <= h.val /\ h.val <= localMax[p]
      /\ GrantsOK(Tail(ctrl[e]), h.val, localMax[p])
  BY <1>1, GrantTaken DEF FlowInv
<1>3. RequestsBelow(Tail(ctrl[e]), localMax[e])
  BY <1>1, KeptTail DEF LimitsKept, FlowInv
<1>4. /\ ctrl'[e] = Tail(ctrl[e]) /\ ctrl'[p] = ctrl[p]
      /\ maxId'[e] = h.val /\ maxId'[p] = maxId[p]
  BY <1>1 DEF Consume, TypeOK
<1>5. ASSUME setup[Server] # "done"
      PROVE  e = Server
  <2>1. CASE e = Client
    <3>1. NoGrants(ctrl[Client])
      BY <1>5 DEF FlowInv
    <3>2. h = ctrl[e][1] /\ 1 \in 1 .. Len(ctrl[e])
      BY <1>1, TailElements
    <3> QED  BY <2>1, <3>1, <3>2 DEF NoGrants
  <2> QED  BY <2>1 DEF Endpoints
<1>6. setup'[Server] # "done" => maxId'[Client] = 0 /\ NoGrants(ctrl'[Client])
  BY <1>4, <1>5 DEF FlowInv, Peer, Client, Server
<1> HIDE DEF h, p
<1>7. ASSUME NEW x \in Endpoints
      PROVE  /\ maxId'[x] <= localMax'[Peer(x)]
             /\ GrantsOK(ctrl'[x], maxId'[x], localMax'[Peer(x)])
             /\ RequestsBelow(ctrl'[x], localMax'[x])
             /\ \A id \in Ids : rt'[x][id].call = "begun" => id < localMax'[Peer(x)]
             /\ failure'[x] # "maxRequestIDDecreased"
  <2>1. CASE x = e
    BY <2>1, <1>2, <1>3, <1>4 DEF FlowInv, p
  <2>2. CASE x = p
    BY <2>2, <1>1, <1>4 DEF FlowInv
  <2> QED  BY <1>1, <2>1, <2>2
<1> QED  BY <1>6, <1>7 DEF FlowInv

\* SERVER_SETUP is the first grant of the server, and no more than it enforces.
LEMMA ServerSetupFlow ==
    ASSUME ServerSetupMax <= InitialMaxRequestID[Server], TypeOK, FlowInv,
           WriteServerSetup, UNCHANGED trackVars
    PROVE  FlowInv'
<1> DEFINE m == LimitMsg("SERVER_SETUP", ServerSetupMax)
           q == ctrl[Client]
<1>0. /\ Client \in Endpoints /\ Server \in Endpoints /\ Client # Server
      /\ Peer(Server) = Client /\ Peer(Client) = Server
      /\ \A x \in Endpoints : x = Client \/ x = Server
      /\ \A x \in Endpoints : ctrl[x] \in Seq(Message) /\ maxId[x] \in Nat /\ localMax[x] \in Nat
  BY DEF Endpoints, Client, Server, Peer, TypeOK
<1>1. CASE WriteFails
  <2>1. UNCHANGED <<maxId, localMax, setup, rt>> /\ ctrl' = ctrl
    BY <1>1, <1>0 DEF WriteServerSetup, Write, Written, WriteFails, trackVars, TypeOK
  <2>2. \A x \in Endpoints : failure'[x] # "maxRequestIDDecreased"
    BY <1>1, <1>0 DEF WriteServerSetup, Return, FlowInv, TypeOK
  <2>3. BegunKept(rt, rt')
    BY <2>1 DEF BegunKept
  <2>4. \A x \in Endpoints : LimitsKept(ctrl[x], ctrl'[x])
    BY <2>1 DEF LimitsKept
  <2> QED  BY <2>1, <2>2, <2>3, <2>4, QuietStep
<1>2. CASE ~WriteFails
  <2>1. /\ UNCHANGED <<maxId, localMax, failure, rt>>
        /\ ctrl'[Client] = Append(q, m) /\ ctrl'[Server] = ctrl[Server]
        /\ setup'[Server] = "done"
    BY <1>0, <1>2 DEF WriteServerSetup, Write, Written, WriteFails, trackVars, TypeOK
  <2>2. maxId[Client] = 0 /\ NoGrants(q)
    BY DEF WriteServerSetup, FlowInv
  <2>3. m \in Message /\ m.type \in Grants /\ m.val = ServerSetupMax /\ ServerSetupMax \in Nat
    BY ControlAssumption, MsgType DEF LimitMsg, Message, MessageTypes, Grants, Ids
  <2>4. GrantsOK(q, 0, 0)
    BY <2>2 DEF GrantsOK, NoGrants
  <2>a. Append(q, m) \in Seq(Message)
    BY <1>0, <2>3, AppendProperties
  <2> HIDE DEF m, q
  <2>5. /\ GrantsOK(Append(q, m), 0, ServerSetupMax)
        /\ \A n \in Nat : RequestsBelow(q, n) => RequestsBelow(Append(q, m), n)
    BY <1>0, <2>3, <2>4, GrantAppended DEF q
  <2>6. ServerSetupMax <= localMax[Server]
    BY <1>0, <2>3, ControlAssumption DEF FlowInv
  <2>7. GrantsOK(Append(q, m), 0, localMax[Server])
    BY <1>0, <2>3, <2>5, <2>6, <2>a, LimitsMonotone
  <2>8. RequestsBelow(Append(q, m), localMax[Client])
    BY <1>0, <2>5 DEF FlowInv, q
  <2>9. ASSUME NEW x \in Endpoints
        PROVE  /\ maxId'[x] <= localMax'[Peer(x)]
               /\ GrantsOK(ctrl'[x], maxId'[x], localMax'[Peer(x)])
               /\ RequestsBelow(ctrl'[x], localMax'[x])
               /\ \A id \in Ids : rt'[x][id].call = "begun" => id < localMax'[Peer(x)]
               /\ failure'[x] # "maxRequestIDDecreased"
    <3>1. CASE x = Client
      BY <3>1, <1>0, <2>1, <2>2, <2>7, <2>8 DEF FlowInv
    <3>2. CASE x = Server
      BY <3>2, <1>0, <2>1 DEF FlowInv
    <3> QED  BY <1>0, <3>1, <3>2
  <2> QED  BY <2>1, <2>9 DEF FlowInv
<1> QED  BY <1>1, <1>2

\* The steps of the control plane keep the invariant.
LEMMA ControlStepFlow ==
    ASSUME ServerSetupMax <= InitialMaxRequestID[Server], TypeOK, FlowInv,
           NEW e \in Endpoints, ControlStep(e)
    PROVE  FlowInv'
<1>0. /\ Client \in Endpoints /\ Server \in Endpoints
      /\ ctrl \in [Endpoints -> Seq(Message)]
      /\ UNCHANGED trackVars /\ rt' = rt
  BY DEF Endpoints, ControlStep, ControlReads, trackVars, TypeOK
<1>r. BegunKept(rt, rt')
  BY <1>0 DEF BegunKept
<1>1. CASE OnClientSetup
  <2> DEFINE h == Head(ctrl[Server])
  <2>1. /\ ctrl[Server] # << >> /\ h.type \in Grants /\ Consume(Server)
        /\ maxId' = [maxId EXCEPT ![Server] = IF h.val > 0 THEN h.val ELSE @]
        /\ UNCHANGED <<localMax, failure>>
        /\ setup[Server] # "done"
    BY <1>1 DEF OnClientSetup, NextIs, Grants
  <2>2. maxId[Server] <= h.val /\ h.val \in Nat
    BY <1>0, <2>1, GrantTaken, PeerType, HeadType DEF FlowInv, TypeOK
  <2> HIDE DEF h
  <2>3. (IF h.val > 0 THEN h.val ELSE maxId[Server]) = h.val
    <3>1. maxId[Server] \in Nat
      BY <1>0 DEF TypeOK
    <3> QED  BY <2>2, <3>1
  <2>4. maxId' = [maxId EXCEPT ![Server] = h.val]
    BY <2>1, <2>3, Zenon
  <2> QED  BY <1>0, <2>1, <2>4, GrantReceived DEF h
<1>2. CASE WriteServerSetup
  BY <1>0, <1>2, ServerSetupFlow
<1>3. ASSUME NEW x \in Endpoints, ctrl[x] # << >>, Head(ctrl[x]).type \in Grants,
             Consume(x), SetMax(x, Head(ctrl[x]).val), localMax' = localMax,
             setup'[Server] # "done" => setup[Server] # "done"
      PROVE  FlowInv'
  <2>1. maxId[x] <= Head(ctrl[x]).val /\ Head(ctrl[x]).val \in Nat
    BY <1>0, <1>3, GrantTaken, PeerType, HeadType DEF FlowInv, TypeOK
  <2>2. maxId' = [maxId EXCEPT ![x] = Head(ctrl[x]).val] /\ failure' = failure
    BY <1>3, <2>1 DEF SetMax, MaxAccepted, TypeOK
  <2> QED  BY <1>0, <1>3, <2>2, GrantReceived
<1>4. CASE OnServerSetup
  <2>1. /\ ctrl[Client] # << >> /\ Head(ctrl[Client]).type \in Grants
        /\ Consume(Client) /\ SetMax(Client, Head(ctrl[Client]).val)
        /\ localMax' = localMax
    BY <1>4 DEF OnServerSetup, NextIs, Grants
  <2>2. setup'[Server] = setup[Server]
    BY <1>0, <1>4 DEF OnServerSetup, TypeOK, Client, Server
  <2> QED  BY <1>0, <1>3, <2>1, <2>2
<1>5. CASE OnMaxRequestID(e)
  BY <1>3, <1>5 DEF OnMaxRequestID, Reading, NextIs, Grants
<1>6. CASE OnMessageBeforeSetup(e) \/ OnRequestsBlocked(e)
  <2>1. /\ ctrl[e] # << >> /\ Consume(e) /\ UNCHANGED <<maxId, localMax, setup>>
        /\ failure' = failure \/ Return(e, "beforeSetup")
    BY <1>6 DEF OnMessageBeforeSetup, OnRequestsBlocked, Reading, NextIs
  <2>2. \A x \in Endpoints : failure'[x] # "maxRequestIDDecreased"
    BY <2>1 DEF Return, FlowInv, TypeOK
  <2>3. \A x \in Endpoints : LimitsKept(ctrl[x], ctrl'[x])
    BY <1>0, <2>1, ConsumeKept
  <2> QED  BY <1>r, <2>1, <2>2, <2>3, QuietStep
<1>7. CASE ReadFails(e)
  <2>1. \A x \in Endpoints : failure'[x] # "maxRequestIDDecreased"
    BY <1>7 DEF ReadFails, Return, FlowInv, TypeOK
  <2>2. \A x \in Endpoints : LimitsKept(ctrl[x], ctrl'[x])
    BY <1>7 DEF ReadFails, LimitsKept
  <2>3. UNCHANGED <<maxId, localMax, setup>>
    BY <1>7 DEF ReadFails
  <2> QED  BY <1>r, <2>1, <2>2, <2>3, QuietStep
<1> QED  BY <1>1, <1>2, <1>4, <1>5, <1>6, <1>7 DEF ControlStep, ControlReads

\* addLocalTrack raises the limit at once and announces it after everything that
\* was announced before; what else the handler writes is harmless.
LEMMA LimitRaised ==
    ASSUME TypeOK, FlowInv, NEW e \in Endpoints, NEW id \in Ids,
           setup[e] = "done", ctrl[e] # << >>,
           localMax' = [localMax EXCEPT ![e] = LimitAfter(e, id)],
           NEW out, LimitsKept(AnnounceLimit(e, id), out), ConsumeAndLeave(e, out),
           UNCHANGED <<maxId, setup, rt>>,
           \A x \in Endpoints : failure'[x] # "maxRequestIDDecreased"
    PROVE  FlowInv'
<1> DEFINE p == Peer(e)
           L == LimitAfter(e, id)
           a == AnnounceLimit(e, id)
           m == LimitMsg("MAX_REQUEST_ID", 2 * localMax[e])
<1>1. /\ p \in Endpoints /\ p # e /\ Peer(p) = e
      /\ \A x \in Endpoints : x = e \/ x = p
      /\ \A x \in Endpoints : ctrl[x] \in Seq(Message) /\ maxId[x] \in Nat /\ localMax[x] \in Nat
  BY PeerType DEF TypeOK, Endpoints, Client, Server, Peer
<1>2. L \in Nat /\ localMax[e] <= L
  BY <1>1, AnnounceLimitType DEF LimitAfter, TypeOK
<1>3. /\ m \in Message /\ m.type \in Grants /\ m.val = 2 * localMax[e] /\ m.val \in Nat
  <2>1. 2 * localMax[e] \in Nat
    BY <1>1
  <2> QED  BY <2>1, ControlAssumption DEF LimitMsg, Message, MessageTypes, Grants, Ids
<1>4. \/ a = ctrl[p]
      \/ a = Append(ctrl[p], m) /\ L = m.val
  BY <1>3 DEF AnnounceLimit, LimitAfter, Written
<1>5. /\ maxId[p] <= localMax[e]
      /\ GrantsOK(ctrl[p], maxId[p], localMax[e])
      /\ RequestsBelow(ctrl[p], localMax[p])
  BY <1>1 DEF FlowInv
<1> HIDE DEF p, L, a, m
<1>6. GrantsOK(a, maxId[p], L) /\ RequestsBelow(a, localMax[p])
  <2>1. CASE a = ctrl[p]
    BY <1>1, <1>2, <1>5, <2>1, LimitsMonotone
  <2>2. CASE a = Append(ctrl[p], m) /\ L = m.val
    BY <1>1, <1>2, <1>3, <1>5, <2>2, GrantAppended
  <2> QED  BY <1>4, <2>1, <2>2
<1>7. GrantsOK(out, maxId[p], L) /\ RequestsBelow(out, localMax[p])
  BY <1>1, <1>2, <1>6 DEF LimitsKept, a
<1>8. /\ ctrl'[e] = Tail(ctrl[e]) /\ ctrl'[p] = out
      /\ localMax'[e] = L /\ localMax'[p] = localMax[p]
  BY <1>1 DEF ConsumeAndLeave, TypeOK, p, L
<1>9. /\ Tail(ctrl[e]) \in Seq(Message)
      /\ GrantsOK(Tail(ctrl[e]), maxId[e], localMax[p])
      /\ RequestsBelow(Tail(ctrl[e]), localMax[e])
      /\ NoGrants(ctrl[e]) => NoGrants(Tail(ctrl[e]))
  BY <1>1, TailElements, KeptTail DEF LimitsKept, FlowInv, p
<1>10. RequestsBelow(Tail(ctrl[e]), L)
  BY <1>1, <1>2, <1>9, LimitsMonotone
<1>11. ASSUME NEW x \in Endpoints
       PROVE  /\ maxId'[x] <= localMax'[Peer(x)]
              /\ GrantsOK(ctrl'[x], maxId'[x], localMax'[Peer(x)])
              /\ RequestsBelow(ctrl'[x], localMax'[x])
              /\ \A y \in Ids : rt'[x][y].call = "begun" => y < localMax'[Peer(x)]
              /\ failure'[x] # "maxRequestIDDecreased"
  <2>1. CASE x = e
    BY <2>1, <1>8, <1>9, <1>10 DEF FlowInv, p
  <2>2. CASE x = p
    <3>1. \A y \in Ids : rt[p][y].call = "begun" => y < L
      BY <1>1, <1>2, ControlAssumption DEF FlowInv, Ids
    <3> QED  BY <2>2, <3>1, <1>1, <1>2, <1>5, <1>7, <1>8
  <2> QED  BY <1>1, <2>1, <2>2
<1>12. setup'[Server] # "done" => maxId'[Client] = 0 /\ NoGrants(ctrl'[Client])
  <2> SUFFICES ASSUME setup[Server] # "done"
               PROVE  maxId[Client] = 0 /\ NoGrants(ctrl'[Client])
    OBVIOUS
  <2>1. e = Client
    BY DEF Endpoints
  <2> QED  BY <2>1, <1>8, <1>9 DEF FlowInv
<1>13. InitialMaxRequestID[Server] <= localMax'[Server]
  <2>1. localMax[Server] <= localMax'[Server] /\ localMax'[Server] \in Nat /\ localMax[Server] \in Nat
    BY <1>1, <1>2, <1>8 DEF Endpoints
  <2>2. InitialMaxRequestID[Server] \in Nat
    BY ControlAssumption DEF Endpoints
  <2> QED  BY <2>1, <2>2 DEF FlowInv
<1> QED  BY <1>11, <1>12, <1>13 DEF FlowInv

\* The answers and SUBSCRIBE_DONE keep the invariant.
LEMMA AnswerFlow ==
    ASSUME TypeOK, FlowInv, NEW e \in Endpoints,
           \/ OnSubscribeOk(e) \/ OnFetchOk(e)
           \/ OnSubscribeError(e) \/ OnFetchError(e) \/ OnSubscribeDone(e)
    PROVE  FlowInv'
<1> DEFINE m == Head(ctrl[e])
           c == ctrl[Peer(e)]
<1>0. /\ ctrl \in [Endpoints -> Seq(Message)] /\ ctrl[e] # << >> /\ m.id \in Ids
      /\ c \in Seq(Message) /\ rt \in RemoteTracks
  BY HeadType, PeerType
     DEF OnSubscribeOk, OnFetchOk, OnSubscribeError, OnFetchError,
         OnError, OnSubscribeDone, Reading, NextIs, TypeOK, RemoteTracks
<1>1. UNCHANGED <<maxId, localMax, setup>>
  BY DEF OnSubscribeOk, OnFetchOk, OnSubscribeError, OnFetchError, OnError, OnSubscribeDone
<1>2. \A x \in Endpoints : failure'[x] # "maxRequestIDDecreased"
  <2>1. failure' = failure \/ Return(e, "duplicateTrackAlias")
    BY DEF OnSubscribeOk, OnFetchOk, OnSubscribeError, OnFetchError, OnError, OnSubscribeDone
  <2> QED  BY <2>1 DEF Return, FlowInv, TypeOK
<1>3. \A x \in Endpoints : LimitsKept(ctrl[x], ctrl'[x])
  <2>1. /\ Msg("UNSUBSCRIBE", m.id) \in Message
        /\ Msg("UNSUBSCRIBE", m.id).type \notin Grants \cup Requests
        /\ Msg("FETCH_CANCEL", m.id) \in Message
        /\ Msg("FETCH_CANCEL", m.id).type \notin Grants \cup Requests
    BY <1>0, HarmlessMessages DEF MessageTypes, Grants, Requests
  <2>2. /\ LimitsKept(c, c)
        /\ LimitsKept(c, Written(c, Msg("UNSUBSCRIBE", m.id)))
        /\ LimitsKept(c, Written(c, Msg("FETCH_CANCEL", m.id)))
    BY <1>0, <2>1, WrittenKept
  <2>3. \/ Consume(e)
        \/ ConsumeAndLeave(e, c)
        \/ ConsumeAndLeave(e, Written(c, Msg("UNSUBSCRIBE", m.id)))
        \/ ConsumeAndLeave(e, Written(c, Msg("FETCH_CANCEL", m.id)))
    BY DEF OnSubscribeOk, OnFetchOk, OnSubscribeError, OnFetchError, OnError, OnSubscribeDone
  <2> HIDE DEF m
  <2> QED  BY <1>0, <2>2, <2>3, LeaveKept, ConsumeKept
<1>4. BegunKept(rt, rt')
  <2>0. rt[e][m.id].resp \in {"empty", "ok", "error"}
    BY <1>0, RemoteTrackSteps, Zenon
  <2>1. /\ BegunKept(rt, [rt EXCEPT ![e][m.id].resp = "ok"])
        /\ BegunKept(rt, [rt EXCEPT ![e][m.id].resp = "error"])
        /\ BegunKept(rt, [rt EXCEPT ![e][m.id].resp = rt[e][m.id].resp])
        /\ BegunKept(rt, [rt EXCEPT ![e][m.id].done = TRUE])
        /\ BegunKept(rt, rt)
    <3> HIDE DEF m
    <3> QED  BY <1>0, <2>0, BegunSteps, Zenon
  <2>2. \/ rt' = rt
        \/ rt' = [rt EXCEPT ![e][m.id].resp = "ok"]
        \/ rt' = [rt EXCEPT ![e][m.id].resp = "error"]
        \/ rt' = [rt EXCEPT ![e][m.id].resp = rt[e][m.id].resp]
        \/ rt' = [rt EXCEPT ![e][m.id].done = TRUE]
    <3>1. CASE OnSubscribeOk(e)
      BY <3>1, Zenon DEF OnSubscribeOk
    <3>2. CASE OnFetchOk(e)
      BY <3>2, Zenon DEF OnFetchOk
    <3>3. CASE OnSubscribeError(e) \/ OnFetchError(e)
      BY <3>3, Zenon DEF OnSubscribeError, OnFetchError, OnError
    <3>4. CASE OnSubscribeDone(e)
      BY <3>4, Zenon DEF OnSubscribeDone
    <3> QED  BY <3>1, <3>2, <3>3, <3>4
  <2> QED  BY <2>1, <2>2, Zenon
<1> QED  BY <1>1, <1>2, <1>3, <1>4, QuietStep

\* The requests of the peer raise the limit; what it asks afterwards does not.
LEMMA PeerRequestFlow ==
    ASSUME TypeOK, FlowInv, NEW e \in Endpoints,
           \/ OnSubscribe(e) \/ RefuseSubscribe(e) \/ OnFetch(e) \/ RefuseFetch(e)
           \/ OnInvalidRequest(e) \/ OnUnsubscribe(e) \/ OnFetchCancel(e)
           \/ OnSubscribeUpdate(e) \/ OnUnknownRequestID(e)
    PROVE  FlowInv'
<1> DEFINE m == Head(ctrl[e])
           a == AnnounceLimit(e, m.id)
<1>0. /\ ctrl \in [Endpoints -> Seq(Message)] /\ ctrl[e] # << >>
      /\ m.id \in Ids /\ setup[e] = "done"
  BY HeadType DEF OnSubscribe, RefuseSubscribe, OnFetch, RefuseFetch, OnRequest,
                  OnInvalidRequest, OnUnsubscribe, OnFetchCancel, OnSubscribeUpdate,
                  OnUnknownRequestID, Reading, NextIs, TypeOK
<1>1. a \in Seq(Message)
  BY <1>0, AnnounceLimitType DEF TypeOK
<1>2. /\ LimitsKept(a, a)
      /\ LimitsKept(a, Written(a, Msg("SUBSCRIBE_ERROR", m.id)))
      /\ LimitsKept(a, Written(a, Msg("FETCH_ERROR", m.id)))
  <2>1. /\ Msg("SUBSCRIBE_ERROR", m.id) \in Message
        /\ Msg("SUBSCRIBE_ERROR", m.id).type \notin Grants \cup Requests
        /\ Msg("FETCH_ERROR", m.id) \in Message
        /\ Msg("FETCH_ERROR", m.id).type \notin Grants \cup Requests
    BY <1>0, HarmlessMessages DEF MessageTypes, Grants, Requests
  <2> QED  BY <1>1, <2>1, WrittenKept
<1>3. CASE OnSubscribe(e) \/ OnFetch(e) \/ RefuseSubscribe(e) \/ RefuseFetch(e)
  <2>1. /\ localMax' = [localMax EXCEPT ![e] = LimitAfter(e, m.id)]
        /\ UNCHANGED <<maxId, setup, rt>>
    BY <1>3 DEF OnSubscribe, OnFetch, OnRequest, RefuseSubscribe, RefuseFetch
  <2>2. \/ ConsumeAndLeave(e, a)
        \/ ConsumeAndLeave(e, Written(a, Msg("SUBSCRIBE_ERROR", m.id)))
        \/ ConsumeAndLeave(e, Written(a, Msg("FETCH_ERROR", m.id)))
    BY <1>3 DEF OnSubscribe, OnFetch, OnRequest, RefuseSubscribe, RefuseFetch
  <2>3. \A x \in Endpoints : failure'[x] # "maxRequestIDDecreased"
    <3>1. \/ failure' = failure
          \/ \E err \in {"writeFailed", "unknownRequestID", "duplicateRequestID"} : Return(e, err)
      BY <1>3 DEF OnSubscribe, OnFetch, OnRequest, RefuseSubscribe, RefuseFetch
    <3> QED  BY <3>1 DEF Return, FlowInv, TypeOK
  <2> HIDE DEF m
  <2> QED  BY <1>0, <1>2, <2>1, <2>2, <2>3, LimitRaised
<1>4. CASE \/ OnInvalidRequest(e) \/ OnUnsubscribe(e) \/ OnFetchCancel(e)
           \/ OnSubscribeUpdate(e) \/ OnUnknownRequestID(e)
  <2>1. Consume(e) /\ UNCHANGED <<maxId, localMax, setup, rt>>
    BY <1>4 DEF OnInvalidRequest, OnUnsubscribe, OnFetchCancel, OnSubscribeUpdate,
                OnUnknownRequestID, trackVars
  <2>2. \A x \in Endpoints : failure'[x] # "maxRequestIDDecreased"
    <3>1. \/ failure' = failure
          \/ Return(e, "invalidNamespaceLength") \/ Return(e, "unknownRequestID")
      BY <1>4 DEF OnInvalidRequest, OnUnsubscribe, OnFetchCancel, OnSubscribeUpdate,
                  OnUnknownRequestID
    <3> QED  BY <3>1 DEF Return, FlowInv, TypeOK
  <2>3. \A x \in Endpoints : LimitsKept(ctrl[x], ctrl'[x])
    BY <1>0, <2>1, ConsumeKept
  <2>4. BegunKept(rt, rt')
    BY <2>1 DEF BegunKept
  <2> QED  BY <2>1, <2>2, <2>3, <2>4, QuietStep
<1> QED  BY <1>3, <1>4

\* A request is written under the limit that its ID was drawn under, or a higher
\* one; the other steps of a call are harmless.
LEMMA CallFlow ==
    ASSUME TypeOK, FlowInv, NEW e \in Endpoints, NEW id \in Ids,
           CallStep(e, id) \/ Cancel(e, id) \/ CloseTrack(e, id) \/ UpdateSubscription(e, id)
    PROVE  FlowInv'
<1> DEFINE p == Peer(e)
<1>0. /\ ctrl \in [Endpoints -> Seq(Message)] /\ rt \in RemoteTracks
      /\ p \in Endpoints /\ p # e /\ Peer(p) = e
      /\ \A x \in Endpoints : x = e \/ x = p
      /\ \A x \in Endpoints : ctrl[x] \in Seq(Message) /\ maxId[x] \in Nat /\ localMax[x] \in Nat
  BY PeerType DEF TypeOK, RemoteTracks, Endpoints, Client, Server, Peer
<1>1. UNCHANGED <<maxId, localMax, setup, failure>>
  BY DEF CallStep, WriteRequest, Resolve, Abort, Cancel, CloseTrack, UpdateSubscription,
         controlVars
<1>2. BegunKept(rt, rt')
  <2>1. /\ \A v \in {"waiting", "unsent", "aborting", "cancelled"} :
             BegunKept(rt, [rt EXCEPT ![e][id].call = v])
        /\ BegunKept(rt, [rt EXCEPT ![e][id].closes = @ + 1])
        /\ BegunKept(rt, [rt EXCEPT ![e][id].updates = @ + 1])
        /\ \A v \in {"ok", "refused"} :
             BegunKept(rt, [rt EXCEPT ![e][id] = [@ EXCEPT !.call = v, !.resp = "empty"]])
    BY <1>0, BegunSteps, Zenon
  <2>2. CASE WriteRequest(e, id)
    BY <2>1, <2>2, Zenon DEF WriteRequest
  <2>3. CASE Resolve(e, id)
    BY <2>1, <2>3, Zenon DEF Resolve
  <2>4. CASE Abort(e, id)
    BY <2>1, <2>4, Zenon DEF Abort
  <2>5. CASE Cancel(e, id)
    BY <2>1, <2>5, Zenon DEF Cancel
  <2>6. CASE CloseTrack(e, id)
    BY <2>1, <2>6, Zenon DEF CloseTrack
  <2>7. CASE UpdateSubscription(e, id)
    BY <2>1, <2>7, Zenon DEF UpdateSubscription
  <2> QED  BY <2>2, <2>3, <2>4, <2>5, <2>6, <2>7 DEF CallStep
<1>3. \A x \in Endpoints : failure'[x] # "maxRequestIDDecreased"
  BY <1>1 DEF FlowInv
<1>4. CASE WriteRequest(e, id)
  <2> DEFINE m == [type |-> RequestType(rt[e][id].kind), id |-> id,
                   val |-> IF rt[e][id].badNamespace THEN 1 ELSE 0]
             q == ctrl[p]
  <2>1. m \in Message /\ m.type \in Requests /\ m.id = id
    BY DEF RequestType, Message, MessageTypes, Requests
  <2>2. Write(e, m) /\ rt[e][id].call = "begun"
    BY <1>4, Zenon DEF WriteRequest
  <2>3. id < localMax[p]
    BY <2>2 DEF FlowInv
  <2> HIDE DEF m
  <2>4. \A x \in Endpoints : \/ ctrl'[x] = ctrl[x]
                             \/ x = p /\ ctrl'[x] = Append(q, m)
    BY <1>0, <2>2 DEF Write, Written
  <2> HIDE DEF p, q
  <2>5. /\ \A lo, hi \in Nat : GrantsOK(q, lo, hi) => GrantsOK(Append(q, m), lo, hi)
        /\ RequestsBelow(Append(q, m), localMax[p])
        /\ NoGrants(q) => NoGrants(Append(q, m))
    BY <1>0, <2>1, <2>3, RequestAppended DEF FlowInv, q
  <2>6. ASSUME NEW x \in Endpoints
        PROVE  /\ maxId'[x] <= localMax'[Peer(x)]
               /\ GrantsOK(ctrl'[x], maxId'[x], localMax'[Peer(x)])
               /\ RequestsBelow(ctrl'[x], localMax'[x])
               /\ \A y \in Ids : rt'[x][y].call = "begun" => y < localMax'[Peer(x)]
               /\ failure'[x] # "maxRequestIDDecreased"
               /\ NoGrants(ctrl[x]) => NoGrants(ctrl'[x])
    <3>1. CASE ctrl'[x] = ctrl[x]
      BY <3>1, <1>1, <1>2, <1>3 DEF FlowInv, BegunKept
    <3>2. CASE x = p /\ ctrl'[x] = Append(q, m)
      <4>1. GrantsOK(q, maxId[p], localMax[Peer(p)])
        BY <1>0 DEF FlowInv, q
      <4>2. GrantsOK(Append(q, m), maxId[p], localMax[Peer(p)])
        BY <1>0, <2>5, <4>1
      <4> QED  BY <3>2, <4>2, <1>0, <1>1, <1>2, <1>3, <2>5 DEF FlowInv, BegunKept, q
    <3> QED  BY <2>4, <3>1, <3>2
  <2>7. setup'[Server] # "done" => maxId'[Client] = 0 /\ NoGrants(ctrl'[Client])
    BY <1>1, <2>6 DEF FlowInv, Endpoints
  <2> QED  BY <1>1, <2>6, <2>7 DEF FlowInv
<1>5. CASE \/ Resolve(e, id) \/ Abort(e, id) \/ Cancel(e, id)
           \/ CloseTrack(e, id) \/ UpdateSubscription(e, id)
  <2>1. \/ ctrl' = ctrl
        \/ Write(e, Msg("FETCH_CANCEL", id)) \/ Write(e, Msg("UNSUBSCRIBE", id))
        \/ Write(e, Msg("SUBSCRIBE_UPDATE", id))
    BY <1>5 DEF Resolve, Abort, Cancel, CloseTrack, UpdateSubscription, CloseType, controlVars
  <2>2. \A type \in {"FETCH_CANCEL", "UNSUBSCRIBE", "SUBSCRIBE_UPDATE"} :
          Msg(type, id) \in Message /\ Msg(type, id).type \notin Grants \cup Requests
    BY HarmlessMessages DEF MessageTypes, Grants, Requests
  <2>3. \A x \in Endpoints : LimitsKept(ctrl[x], ctrl'[x])
    <3>1. CASE ctrl' = ctrl
      BY <3>1 DEF LimitsKept
    <3>2. CASE \E type \in {"FETCH_CANCEL", "UNSUBSCRIBE", "SUBSCRIBE_UPDATE"} :
                 Write(e, Msg(type, id))
      BY <3>2, <1>0, <2>2, WriteKept
    <3> QED  BY <2>1, <3>1, <3>2
  <2> QED  BY <1>1, <1>2, <1>3, <2>3, QuietStep
<1> QED  BY <1>4, <1>5 DEF CallStep

\* An ID is drawn below the generator's limit, which is no more than the peer's.
LEMMA SessionCallFlow ==
    ASSUME TypeOK, FlowInv, NEW e \in Endpoints,
           \/ \E kind \in {"subscribe", "fetch"}, bad \in BOOLEAN : BeginRequest(e, kind, bad)
           \/ RequestBlocked(e) /\ UNCHANGED trackVars
           \/ Close(e) /\ UNCHANGED trackVars
    PROVE  FlowInv'
<1>0. /\ ctrl \in [Endpoints -> Seq(Message)] /\ rt \in RemoteTracks
      /\ \A x \in Endpoints : Peer(x) \in Endpoints /\ nextId[x] \in Nat
                              /\ maxId[x] \in Nat /\ localMax[x] \in Nat
  BY PeerType DEF TypeOK, RemoteTracks
<1>1. ASSUME NEW kind \in {"subscribe", "fetch"}, NEW bad \in BOOLEAN,
             BeginRequest(e, kind, bad)
      PROVE  FlowInv'
  <2> DEFINE id == nextId[e]
             r == [NoRemoteTrack EXCEPT !.kind = kind, !.badNamespace = bad, !.call = "begun"]
  <2>1. UNCHANGED <<maxId, localMax, setup, failure, ctrl>>
    BY <1>1, Zenon DEF BeginRequest
  <2>2. id < localMax[Peer(e)] /\ id \in Ids
    <3>1. DrawId(e)
      BY <1>1, Zenon DEF BeginRequest
    <3>2. maxId[e] <= localMax[Peer(e)]
      BY DEF FlowInv
    <3>3. nextId[e] < maxId[e] /\ nextId[e] < IdBound
      BY <3>1 DEF DrawId, IdAvailable
    <3>4. /\ nextId[e] \in Nat /\ maxId[e] \in Nat /\ localMax[Peer(e)] \in Nat
          /\ IdBound \in Nat
      BY <1>0, ControlAssumption
    <3> QED  BY <3>2, <3>3, <3>4 DEF Ids
  <2>3. rt' = rt \/ rt' = [rt EXCEPT ![e][id] = r]
    BY <1>1, Zenon DEF BeginRequest
  <2> HIDE DEF id, r
  <2>4. ASSUME NEW x \in Endpoints, NEW y \in Ids, rt'[x][y].call = "begun"
        PROVE  y < localMax[Peer(x)]
    <3>1. CASE x = e /\ y = id
      BY <2>2, <3>1
    <3>2. CASE ~(x = e /\ y = id)
      <4>1. rt'[x][y] = rt[x][y]
        BY <1>0, <2>2, <2>3, <3>2 DEF RemoteTracks
      <4> QED  BY <2>4, <4>1 DEF FlowInv
    <3> QED  BY <3>1, <3>2
  <2> QED  BY <2>1, <2>4 DEF FlowInv
<1>2. CASE RequestBlocked(e) /\ UNCHANGED trackVars
  <2> DEFINE m == LimitMsg("REQUESTS_BLOCKED", maxId[e])
  <2>1. m \in Message /\ m.type \notin Grants \cup Requests
    BY <1>0, ControlAssumption DEF LimitMsg, Message, MessageTypes, Ids, Grants, Requests
  <2>2. Write(e, m) /\ UNCHANGED <<maxId, localMax, setup, failure, rt>>
    BY <1>2 DEF RequestBlocked, trackVars
  <2> HIDE DEF m
  <2>3. \A x \in Endpoints : LimitsKept(ctrl[x], ctrl'[x])
    BY <1>0, <2>1, <2>2, WriteKept
  <2>4. BegunKept(rt, rt') /\ \A x \in Endpoints : failure'[x] # "maxRequestIDDecreased"
    BY <2>2 DEF BegunKept, FlowInv
  <2> QED  BY <2>2, <2>3, <2>4, QuietStep
<1>3. CASE Close(e) /\ UNCHANGED trackVars
  BY <1>3 DEF Close, trackVars, FlowInv
<1> QED  BY <1>1, <1>2, <1>3

\* The response writer and the end of the handler write harmless messages.
LEMMA ResponseWriterFlow ==
    ASSUME TypeOK, FlowInv, NEW e \in Endpoints, NEW id \in Ids,
           \/ Accept(e, id) \/ WriteAccept(e, id) \/ Reject(e, id)
           \/ handling[e] = id /\ HandlerReturn(e)
           \/ CloseWithError(e, id)
    PROVE  FlowInv'
<1>0. ctrl \in [Endpoints -> Seq(Message)]
  BY DEF TypeOK
<1>1. UNCHANGED <<maxId, localMax, setup, rt>>
  BY DEF Accept, WriteAccept, Reject, HandlerReturn, CloseWithError, controlVars
<1>2. \A x \in Endpoints : failure'[x] # "maxRequestIDDecreased"
  <2>1. failure' = failure \/ Return(e, "writeFailed") \/ Return(e, "unknownRequestID")
    BY DEF Accept, WriteAccept, Reject, HandlerReturn, CloseWithError, controlVars
  <2> QED  BY <2>1 DEF Return, FlowInv, TypeOK
<1>3. BegunKept(rt, rt')
  BY <1>1 DEF BegunKept
<1>4. \A type \in {"SUBSCRIBE_ERROR", "FETCH_ERROR", "SUBSCRIBE_DONE"} :
        Msg(type, id) \in Message /\ Msg(type, id).type \notin Grants \cup Requests
  BY HarmlessMessages DEF MessageTypes, Grants, Requests
<1>5. \A x \in Endpoints : LimitsKept(ctrl[x], ctrl'[x])
  <2>1. CASE WriteAccept(e, id)
    <3> DEFINE m == [type |-> OkType(lt[e][id].kind), id |-> id, val |-> OkAlias(e, id)]
    <3>1. m \in Message /\ m.type \notin Grants \cup Requests
      BY DEF OkType, OkAlias, Message, MessageTypes, Grants, Requests
    <3>2. Write(e, m)
      BY <2>1, Zenon DEF WriteAccept
    <3> HIDE DEF m
    <3> QED  BY <1>0, <3>1, <3>2, WriteKept
  <2>2. CASE ~WriteAccept(e, id)
    <3>1. \/ ctrl' = ctrl
          \/ \E type \in {"SUBSCRIBE_ERROR", "FETCH_ERROR", "SUBSCRIBE_DONE"} :
               Write(e, Msg(type, id))
      BY <2>2 DEF Accept, Reject, HandlerReturn, CloseWithError, controlVars, ErrorType
    <3>2. CASE ctrl' = ctrl
      BY <3>2 DEF LimitsKept
    <3> QED  BY <1>0, <1>4, <3>1, <3>2, WriteKept
  <2> QED  BY <2>1, <2>2
<1> QED  BY <1>1, <1>2, <1>3, <1>5, QuietStep

\* If SERVER_SETUP promises no more than the server enforces, then no request is
\* ever over the limit its receiver enforces (addLocalTrack never fails with
\* errMaxRequestIDViolated) and no limit that arrives is ever lower than the one
\* before (setMax never fails with errMaxRequestIDDecreased), whatever the limits
\* and however the calls of the two applications and the messages interleave.
THEOREM LimitsSafe ==
    ASSUME ServerSetupMax <= InitialMaxRequestID[Server]
    PROVE  Spec => [](RequestsWithinLimit /\ GrantsNeverShrink)
<1>1. Init => FlowInv
  <2> SUFFICES ASSUME Init PROVE FlowInv
    OBVIOUS
  <2>1. /\ ctrl[Client] = << >>
        /\ ctrl[Server] = <<LimitMsg("CLIENT_SETUP", InitialMaxRequestID[Client])>>
        /\ localMax = InitialMaxRequestID
        /\ \A e \in Endpoints : maxId[e] = 0 /\ failure[e] = "none"
        /\ \A e \in Endpoints : localMax[e] \in Nat
    BY ControlAssumption DEF Init, ControlInit, Endpoints, Client, Server
  <2>2. \A e \in Endpoints, id \in Ids : rt[e][id].call # "begun"
    BY DEF Init, NoRemoteTrack
  <2>3. \A e \in Endpoints : Peer(e) \in Endpoints
    BY PeerType
  <2>4. GrantsOK(ctrl[Server], 0, localMax[Client]) /\ RequestsBelow(ctrl[Server], localMax[Server])
    BY <2>1 DEF GrantsOK, RequestsBelow, LimitMsg, Requests, Endpoints
  <2>5. GrantsOK(ctrl[Client], 0, localMax[Server]) /\ RequestsBelow(ctrl[Client], localMax[Client])
        /\ NoGrants(ctrl[Client])
    BY <2>1 DEF GrantsOK, RequestsBelow, NoGrants
  <2>6. /\ \A e \in Endpoints : e = Client \/ e = Server
        /\ Peer(Client) = Server /\ Peer(Server) = Client
    BY DEF Endpoints, Client, Server, Peer
  <2>7. ASSUME NEW e \in Endpoints
        PROVE  /\ maxId[e] <= localMax[Peer(e)]
               /\ GrantsOK(ctrl[e], maxId[e], localMax[Peer(e)])
               /\ RequestsBelow(ctrl[e], localMax[e])
    BY <2>1, <2>3, <2>4, <2>5, <2>6
  <2>8. InitialMaxRequestID[Server] <= localMax[Server] /\ maxId[Client] = 0
    BY <2>1 DEF Endpoints
  <2> QED  BY <2>1, <2>2, <2>5, <2>7, <2>8 DEF FlowInv
<1>2. TypeOK /\ FlowInv /\ [Next]_vars => FlowInv'
  <2> SUFFICES ASSUME TypeOK, FlowInv, [Next]_vars PROVE FlowInv'
    OBVIOUS
  <2>1. CASE UNCHANGED vars
    BY <2>1 DEF vars, controlVars, trackVars, FlowInv
  <2>2. ASSUME NEW e \in Endpoints, Reader(e)
        PROVE  FlowInv'
    BY <2>2, ControlStepFlow, AnswerFlow, PeerRequestFlow DEF Reader
  <2>3. ASSUME NEW e \in Endpoints, HandlerReturn(e)
        PROVE  FlowInv'
    <3>1. handling[e] \in Ids
      BY <2>3 DEF HandlerReturn, TypeOK
    <3> QED  BY <2>3, <3>1, ResponseWriterFlow
  <2>4. ASSUME NEW e \in Endpoints, Application(e)
        PROVE  FlowInv'
    BY <2>4, SessionCallFlow, CallFlow, ResponseWriterFlow DEF Application
  <2>5. ASSUME NEW e \in Endpoints, NEW id \in Ids, CallStep(e, id) \/ WriteAccept(e, id)
        PROVE  FlowInv'
    BY <2>5, CallFlow, ResponseWriterFlow
  <2> QED  BY <2>1, <2>2, <2>3, <2>4, <2>5 DEF Next
<1>3. TypeOK /\ FlowInv => RequestsWithinLimit /\ GrantsNeverShrink
  BY FlowInvSuffices
<1> QED  BY <1>1, <1>2, <1>3, TypeCorrect, PTL DEF Spec

\* The same, of the grants alone: setMax never takes a grant for a decrease.
THEOREM GrantsAccepted ==
    ASSUME ServerSetupMax <= InitialMaxRequestID[Server]
    PROVE  Spec => []GrantsNeverShrink
<1>1. Spec => [](RequestsWithinLimit /\ GrantsNeverShrink)
  BY LimitsSafe
<1> QED  BY <1>1, PTL

=============================================================================

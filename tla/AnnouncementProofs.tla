------------------------- MODULE AnnouncementProofs -------------------------
(***************************************************************************)
(* Theorems about Announcements, for every value of the constants.         *)
(***************************************************************************)
EXTENDS Announcements, ControlProofs

-----------------------------------------------------------------------------
(***************************************************************************)
(* Type correctness.                                                       *)
(***************************************************************************)

\* What each end knows of the requests, kept folded while it is updated.
Asks == [Endpoints -> [Ids -> Ask]]
Tells == [Endpoints -> [Ids -> Tell]]

\* A request as its call leaves it.
LEMMA AskSteps ==
    ASSUME NEW f \in Asks, NEW e \in Endpoints, NEW id \in Ids
    PROVE  /\ \A v \in {"waiting", "cancelled", "unsent"} : [f EXCEPT ![e][id].call = v] \in Asks
           /\ \A v \in {"empty", "ok", "error"} : [f EXCEPT ![e][id].resp = v] \in Asks
           /\ \A v \in {"ok", "refused"} :
                [f EXCEPT ![e][id] = [@ EXCEPT !.call = v, !.resp = "empty"]] \in Asks
           /\ \A kind \in AskKinds, ns \in Nat :
                [f EXCEPT ![e][id] =
                   [NoAsk EXCEPT !.kind = kind, !.ns = ns, !.call = "begun"]] \in Asks
           /\ f[e][id].kind \in AskKinds \cup {"none"} /\ f[e][id].ns \in Nat
           /\ f[e][id].resp \in {"empty", "ok", "error"}
<1> DEFINE r == f[e][id]
<1>1. r \in Ask
  BY DEF Asks
<1> HIDE DEF r
<1>2. \A v \in {"waiting", "cancelled", "unsent"} : [r EXCEPT !.call = v] \in Ask
  BY <1>1 DEF Ask
<1>3. \A v \in {"empty", "ok", "error"} : [r EXCEPT !.resp = v] \in Ask
  BY <1>1 DEF Ask
<1>4. \A v \in {"ok", "refused"} : [r EXCEPT !.call = v, !.resp = "empty"] \in Ask
  BY <1>1 DEF Ask
<1>5. \A kind \in AskKinds, ns \in Nat :
        [NoAsk EXCEPT !.kind = kind, !.ns = ns, !.call = "begun"] \in Ask
  BY DEF Ask, NoAsk
<1>6. \A s \in Ask : [f EXCEPT ![e][id] = s] \in Asks
  BY DEF Asks
<1>7. r.kind \in AskKinds \cup {"none"} /\ r.ns \in Nat /\ r.resp \in {"empty", "ok", "error"}
  BY <1>1 DEF Ask
<1>8. \A v \in {"waiting", "cancelled", "unsent"} : [f EXCEPT ![e][id].call = v] \in Asks
  BY <1>2, <1>6, Zenon DEF r
<1>9. \A v \in {"empty", "ok", "error"} : [f EXCEPT ![e][id].resp = v] \in Asks
  BY <1>3, <1>6, Zenon DEF r
<1>10. \A v \in {"ok", "refused"} :
         [f EXCEPT ![e][id] = [@ EXCEPT !.call = v, !.resp = "empty"]] \in Asks
  BY <1>4, <1>6, Zenon DEF r
<1> QED  BY <1>5, <1>6, <1>7, <1>8, <1>9, <1>10, Zenon DEF r

\* A received request as its response writer leaves it.
LEMMA TellSteps ==
    ASSUME NEW f \in Tells, NEW e \in Endpoints, NEW id \in Ids
    PROVE  /\ \A kind \in AskKinds, ns \in Nat :
                [f EXCEPT ![e][id] = [NoTell EXCEPT !.kind = kind, !.ns = ns]] \in Tells
           /\ \A b \in BOOLEAN :
                [f EXCEPT ![e][id] = [@ EXCEPT !.handled = TRUE, !.accepting = b]] \in Tells
           /\ [f EXCEPT ![e][id] = [@ EXCEPT !.accepting = FALSE, !.oks = f[e][id].oks + 1]] \in Tells
           /\ [f EXCEPT ![e][id] = [@ EXCEPT !.handled = TRUE, !.oks = f[e][id].oks + 1]] \in Tells
           /\ [f EXCEPT ![e][id] = [@ EXCEPT !.handled = TRUE, !.errors = f[e][id].errors + 1]] \in Tells
           /\ f[e][id].kind \in AskKinds \cup {"none"} /\ f[e][id].ns \in Nat
           /\ f[e][id].oks \in Nat /\ f[e][id].errors \in Nat
           /\ f[e][id].handled \in BOOLEAN /\ f[e][id].accepting \in BOOLEAN
<1> DEFINE r == f[e][id]
<1>1. r \in Tell
  BY DEF Tells
<1> HIDE DEF r
<1>2. \A kind \in AskKinds, ns \in Nat : [NoTell EXCEPT !.kind = kind, !.ns = ns] \in Tell
  BY DEF Tell, NoTell
<1>3. \A b \in BOOLEAN : [r EXCEPT !.handled = TRUE, !.accepting = b] \in Tell
  BY <1>1 DEF Tell
<1>4. \A n \in Nat : [r EXCEPT !.accepting = FALSE, !.oks = n] \in Tell
  BY <1>1 DEF Tell
<1>5. \A n \in Nat : [r EXCEPT !.handled = TRUE, !.oks = n] \in Tell
  BY <1>1 DEF Tell
<1>6. \A n \in Nat : [r EXCEPT !.handled = TRUE, !.errors = n] \in Tell
  BY <1>1 DEF Tell
<1>7. \A s \in Tell : [f EXCEPT ![e][id] = s] \in Tells
  BY DEF Tells
<1>8. /\ r.kind \in AskKinds \cup {"none"} /\ r.ns \in Nat /\ r.oks \in Nat /\ r.errors \in Nat
      /\ r.handled \in BOOLEAN /\ r.accepting \in BOOLEAN
  BY <1>1 DEF Tell
<1>n. r.oks + 1 \in Nat /\ r.errors + 1 \in Nat
  BY <1>8
<1>9. \A b \in BOOLEAN :
        [f EXCEPT ![e][id] = [@ EXCEPT !.handled = TRUE, !.accepting = b]] \in Tells
  BY <1>3, <1>7, Zenon DEF r
<1>10. [f EXCEPT ![e][id] = [@ EXCEPT !.accepting = FALSE, !.oks = f[e][id].oks + 1]] \in Tells
  BY <1>n, <1>4, <1>7, Zenon DEF r
<1>11. [f EXCEPT ![e][id] = [@ EXCEPT !.handled = TRUE, !.oks = f[e][id].oks + 1]] \in Tells
  BY <1>n, <1>5, <1>7, Zenon DEF r
<1>12. [f EXCEPT ![e][id] = [@ EXCEPT !.handled = TRUE, !.errors = f[e][id].errors + 1]] \in Tells
  BY <1>n, <1>6, <1>7, Zenon DEF r
<1> QED  BY <1>2, <1>7, <1>8, <1>9, <1>10, <1>11, <1>12, Zenon DEF r

\* A message about a namespace is a message.
LEMMA NsMsgType ==
    ASSUME NEW type \in MessageTypes, NEW id \in Ids, NEW ns \in Nat
    PROVE  NsMsg(type, id, ns) \in Message
BY DEF NsMsg, Message

\* The types of the variables, without what TypeOK says of announcements in two maps.
\* A call that has yet to write its request knows which.
ControlTypes ==
    /\ setup \in [Endpoints -> {"waiting", "limitSet", "done"}]
    /\ nextId \in [Endpoints -> Nat]
    /\ maxId \in [Endpoints -> Nat]
    /\ localMax \in [Endpoints -> Nat]
    /\ ctrl \in [Endpoints -> Seq(Message)]
    /\ failure \in [Endpoints -> Failures]
    /\ handling \in [Endpoints -> Ids \cup {NoRequest}]
    /\ conn \in {"up", "down"}
    /\ blockedCalls \in [Endpoints -> Nat]
MapTypes ==
    /\ outPending \in [Endpoints -> SUBSET Ids]
    /\ outAnnounced \in [Endpoints -> SUBSET Ids]
    /\ inPending \in [Endpoints -> SUBSET Ids]
    /\ inAnnounced \in [Endpoints -> SUBSET Ids]
    /\ prefixes \in [Endpoints -> SUBSET Ids]
    /\ statusUses \in [Endpoints -> Nat]
    /\ unannouncing \in [Endpoints -> SUBSET Namespaces]
    /\ made \in [Endpoints -> SUBSET (Withdrawals \X Namespaces)]
RequestTypes ==
    /\ ask \in Asks
    /\ tell \in Tells
    /\ \A e \in Endpoints, id \in Ids : ask[e][id].call = "begun" => ask[e][id].kind # "none"
Types == ControlTypes /\ MapTypes /\ RequestTypes

\* The steps of the control plane keep its types.
LEMMA ControlStepType ==
    ASSUME ControlTypes, NEW e \in Endpoints, ControlReads(e) \/ RequestBlocked(e) \/ Close(e)
    PROVE  ControlTypes'
<1> USE DEF ControlTypes
<1>0. Client \in Endpoints /\ Server \in Endpoints
  BY DEF Endpoints
<1>1. CASE OnClientSetup
  <2>1. ctrl' \in [Endpoints -> Seq(Message)] /\ Head(ctrl[Server]).val \in Nat
    BY <1>0, <1>1, ConsumeType, HeadType DEF OnClientSetup, NextIs
  <2> QED  BY <1>0, <1>1, <2>1 DEF OnClientSetup
<1>2. CASE WriteServerSetup
  <2>1. LimitMsg("SERVER_SETUP", ServerSetupMax) \in Message
    BY ControlAssumption, MsgType DEF MessageTypes, LimitMsg, Message, Ids
  <2>2. ctrl' \in [Endpoints -> Seq(Message)]
    BY <1>0, <1>2, <2>1, WriteType DEF WriteServerSetup
  <2> QED  BY <1>0, <1>2, <2>2 DEF WriteServerSetup, Return, Failures
<1>3. CASE OnServerSetup
  <2>1. ctrl' \in [Endpoints -> Seq(Message)] /\ Head(ctrl[Client]).val \in Nat
    BY <1>0, <1>3, ConsumeType, HeadType DEF OnServerSetup, NextIs
  <2> QED  BY <1>0, <1>3, <2>1 DEF OnServerSetup, SetMax, Return, Failures
<1>4. CASE OnMessageBeforeSetup(e)
  <2>1. ctrl' \in [Endpoints -> Seq(Message)]
    BY <1>4, ConsumeType DEF OnMessageBeforeSetup
  <2> QED  BY <1>4, <2>1 DEF OnMessageBeforeSetup, Return, Failures
<1>5. CASE OnMaxRequestID(e)
  <2>1. ctrl' \in [Endpoints -> Seq(Message)] /\ Head(ctrl[e]).val \in Nat
    BY <1>5, ConsumeType, HeadType DEF OnMaxRequestID, Reading, NextIs
  <2> QED  BY <1>5, <2>1 DEF OnMaxRequestID, SetMax, Return, Failures
<1>6. CASE OnRequestsBlocked(e)
  <2>1. ctrl' \in [Endpoints -> Seq(Message)]
    BY <1>6, ConsumeType DEF OnRequestsBlocked, Reading, NextIs
  <2> QED  BY <1>6, <2>1 DEF OnRequestsBlocked
<1>7. CASE ReadFails(e)
  BY <1>7 DEF ReadFails, Return, Failures
<1>8. CASE RequestBlocked(e)
  <2>1. LimitMsg("REQUESTS_BLOCKED", maxId[e]) \in Message
    BY ControlAssumption, MsgType DEF MessageTypes, LimitMsg, Message, Ids
  <2>2. ctrl' \in [Endpoints -> Seq(Message)]
    BY <1>8, <2>1, WriteType DEF RequestBlocked
  <2>3. blockedCalls' \in [Endpoints -> Nat]
    BY <1>8 DEF RequestBlocked
  <2> QED  BY <1>8, <2>2, <2>3 DEF RequestBlocked
<1>9. CASE Close(e)
  BY <1>9 DEF Close
<1> QED  BY <1>1, <1>2, <1>3, <1>4, <1>5, <1>6, <1>7, <1>8, <1>9 DEF ControlReads

\* Those steps leave the requests alone.
LEMMA ControlStepTypes ==
    ASSUME Types, NEW e \in Endpoints, ControlReads(e) \/ RequestBlocked(e) \/ Close(e),
           UNCHANGED namespaceVars
    PROVE  Types'
<1>1. ControlTypes'
  BY ControlStepType DEF Types
<1> QED  BY <1>1 DEF Types, MapTypes, RequestTypes, namespaceVars

\* The calls keep the types.
LEMMA CallType ==
    ASSUME Types, NEW e \in Endpoints,
           \/ \E kind \in AskKinds, ns \in Namespaces : BeginAsk(e, kind, ns)
           \/ \E id \in Ids : CallStep(e, id) \/ GiveUp(e, id)
    PROVE  Types'
<1>t. /\ Namespaces \subseteq Nat /\ ask \in Asks /\ ctrl \in [Endpoints -> Seq(Message)]
  BY NamespaceAssumption DEF Types, ControlTypes, RequestTypes
<1>1. ASSUME NEW kind \in AskKinds, NEW ns \in Namespaces, BeginAsk(e, kind, ns)
      PROVE  Types'
  <2> DEFINE id == nextId[e]
  <2>0. DrawId(e) /\ nextId \in [Endpoints -> Nat]
    BY <1>1, Zenon DEF BeginAsk, Types, ControlTypes
  <2>1. id \in Ids
    BY <2>0, ControlAssumption DEF DrawId, Ids
  <2>2. ask' \in Asks
    BY <1>1, <1>t, <2>1, AskSteps DEF BeginAsk
  <2>3. \A f \in Endpoints, i \in Ids :
          \/ ask'[f][i] = ask[f][i]
          \/ ask'[f][i].kind \in AskKinds
    BY <1>1, <1>t, <2>1 DEF BeginAsk, Asks, Ask, NoAsk
  <2>4. nextId' \in [Endpoints -> Nat]
    BY <2>0 DEF DrawId, NextIdAfterDraw
  <2>5. ControlTypes'
    BY <1>1, <2>4 DEF BeginAsk, Types, ControlTypes
  <2>6. MapTypes'
    BY <1>1, <2>1 DEF BeginAsk, Types, MapTypes
  <2> HIDE DEF id
  <2>7. RequestTypes'
    BY <1>1, <2>2, <2>3, ZenonT(40) DEF BeginAsk, Types, RequestTypes, AskKinds
  <2> QED  BY <2>5, <2>6, <2>7 DEF Types
<1>2. ASSUME NEW id \in Ids, WriteAsk(e, id) PROVE Types'
  <2>1. ask[e][id].kind \in AskKinds /\ ask[e][id].ns \in Nat
    BY <1>2, <1>t, AskSteps DEF WriteAsk, Types, RequestTypes
  <2>2. ask' \in Asks
    BY <1>2, <1>t, AskSteps DEF WriteAsk
  <2>3. \A f \in Endpoints, i \in Ids :
          /\ ask'[f][i].kind = ask[f][i].kind
          /\ ask'[f][i].call = "begun" => ask[f][i].call = "begun"
    BY <1>2, <1>t DEF WriteAsk, Asks, Ask
  <2>4. NsMsg(AskType[ask[e][id].kind], WireId(ask[e][id].kind, id), ask[e][id].ns) \in Message
    <3>1. AskType[ask[e][id].kind] \in MessageTypes
      BY <2>1 DEF AskType, AskKinds, MessageTypes
    <3>2. WireId(ask[e][id].kind, id) \in Ids
      BY ControlAssumption DEF WireId, Ids
    <3> QED  BY <2>1, <3>1, <3>2, NsMsgType
  <2>5. ctrl' \in [Endpoints -> Seq(Message)]
    BY <1>2, <1>t, <2>4, WriteType DEF WriteAsk
  <2>6. ControlTypes'
    BY <1>2, <2>5 DEF WriteAsk, Types, ControlTypes
  <2>7. MapTypes'
    BY <1>2 DEF WriteAsk, Types, MapTypes
  <2>8. RequestTypes'
    BY <1>2, <2>2, <2>3 DEF WriteAsk, Types, RequestTypes
  <2> QED  BY <2>6, <2>7, <2>8 DEF Types
<1>3. ASSUME NEW id \in Ids, ReturnAnswer(e, id) \/ GiveUp(e, id) PROVE Types'
  <2>1. ask' \in Asks
    <3>1. CASE ReturnAnswer(e, id)
      BY <3>1, <1>t, AskSteps DEF ReturnAnswer
    <3>2. CASE GiveUp(e, id)
      BY <3>2, <1>t, AskSteps DEF GiveUp
    <3> QED  BY <1>3, <3>1, <3>2
  <2>2. \A f \in Endpoints, i \in Ids :
          /\ ask'[f][i].kind = ask[f][i].kind
          /\ ask'[f][i].call = "begun" => ask[f][i].call = "begun"
    <3>1. CASE ReturnAnswer(e, id)
      BY <3>1, <1>t DEF ReturnAnswer, Asks, Ask
    <3>2. CASE GiveUp(e, id)
      BY <3>2, <1>t DEF GiveUp, Asks, Ask
    <3> QED  BY <1>3, <3>1, <3>2
  <2>3. ControlTypes' /\ MapTypes'
    BY <1>3 DEF ReturnAnswer, GiveUp, Types, controlVars, ControlTypes, MapTypes
  <2>4. RequestTypes'
    BY <1>3, <2>1, <2>2 DEF ReturnAnswer, GiveUp, Types, RequestTypes
  <2> QED  BY <2>3, <2>4 DEF Types
<1> QED  BY <1>1, <1>2, <1>3 DEF CallStep

\* The calls that withdraw something keep the types.
LEMMA WithdrawType ==
    ASSUME Types, NEW e \in Endpoints, NEW ns \in Namespaces,
           \/ Unannounce(e, ns) \/ WriteUnannounce(e, ns)
           \/ AnnounceCancel(e, ns) \/ UnsubscribeAnnouncements(e, ns)
    PROVE  Types'
<1>t. ns \in Nat /\ 0 \in Ids /\ ctrl \in [Endpoints -> Seq(Message)]
  BY NamespaceAssumption, ControlAssumption DEF Types, ControlTypes, Ids
<1>m. \A type \in MessageTypes : NsMsg(type, 0, ns) \in Message
  BY <1>t, NsMsgType
<1>w. ASSUME NEW call \in Withdrawals, Withdraw(e, call, ns)
      PROVE  made' \in [Endpoints -> SUBSET (Withdrawals \X Namespaces)]
  BY <1>w DEF Withdraw, Types, MapTypes
<1> USE DEF Withdrawals
<1>1. CASE Unannounce(e, ns)
  <2>1. made' \in [Endpoints -> SUBSET (Withdrawals \X Namespaces)]
    BY <1>1, <1>w DEF Unannounce
  <2>2. ControlTypes' /\ RequestTypes'
    BY <1>1 DEF Unannounce, Types, ControlTypes, RequestTypes, controlVars
  <2> HIDE DEF Withdrawals
  <2>3. MapTypes'
    BY <1>1, <2>1 DEF Unannounce, Types, MapTypes
  <2> QED  BY <2>2, <2>3 DEF Types
<1>2. CASE WriteUnannounce(e, ns)
  <2>1. NsMsg("UNANNOUNCE", 0, ns) \in Message
    BY <1>m DEF MessageTypes
  <2>2. ctrl' \in [Endpoints -> Seq(Message)]
    BY <1>2, <1>t, <2>1, WriteType DEF WriteUnannounce
  <2>3. ControlTypes' /\ RequestTypes'
    BY <1>2, <2>2 DEF WriteUnannounce, Types, ControlTypes, RequestTypes
  <2>4. MapTypes'
    BY <1>2 DEF WriteUnannounce, Types, MapTypes
  <2> QED  BY <2>3, <2>4 DEF Types
<1>3. CASE AnnounceCancel(e, ns)
  <2>1. NsMsg("ANNOUNCE_CANCEL", 0, ns) \in Message
    BY <1>m DEF MessageTypes
  <2>2. ctrl' \in [Endpoints -> Seq(Message)]
    BY <1>3, <1>t, <2>1, WriteType DEF AnnounceCancel
  <2>3. ControlTypes' /\ RequestTypes'
    BY <1>3, <2>2 DEF AnnounceCancel, Types, ControlTypes, RequestTypes
  <2>4. made' \in [Endpoints -> SUBSET (Withdrawals \X Namespaces)]
    BY <1>3, <1>w DEF AnnounceCancel
  <2>6. inPending' \in [Endpoints -> SUBSET Ids] /\ inAnnounced' \in [Endpoints -> SUBSET Ids]
    BY <1>3 DEF AnnounceCancel, Types, MapTypes
  <2>7. UNCHANGED <<outPending, outAnnounced, prefixes, statusUses, unannouncing>>
    BY <1>3 DEF AnnounceCancel
  <2> HIDE DEF Withdrawals
  <2>5. MapTypes'
    BY <2>4, <2>6, <2>7 DEF Types, MapTypes
  <2> QED  BY <2>3, <2>5 DEF Types
<1>4. CASE UnsubscribeAnnouncements(e, ns)
  <2>1. NsMsg("UNSUBSCRIBE_ANNOUNCES", 0, ns) \in Message
    BY <1>m DEF MessageTypes
  <2>2. ctrl' \in [Endpoints -> Seq(Message)]
    BY <1>4, <1>t, <2>1, WriteType DEF UnsubscribeAnnouncements
  <2>3. ControlTypes' /\ RequestTypes'
    BY <1>4, <2>2 DEF UnsubscribeAnnouncements, Types, ControlTypes, RequestTypes
  <2>4. made' \in [Endpoints -> SUBSET (Withdrawals \X Namespaces)]
    BY <1>4, <1>w DEF UnsubscribeAnnouncements
  <2>6. prefixes' \in [Endpoints -> SUBSET Ids]
    BY <1>4 DEF UnsubscribeAnnouncements, Types, MapTypes
  <2>7. UNCHANGED <<outPending, outAnnounced, inPending, inAnnounced, statusUses, unannouncing>>
    BY <1>4 DEF UnsubscribeAnnouncements
  <2> HIDE DEF Withdrawals
  <2>5. MapTypes'
    BY <2>4, <2>6, <2>7 DEF Types, MapTypes
  <2> QED  BY <2>3, <2>5 DEF Types
<1> QED  BY <1>1, <1>2, <1>3, <1>4

\* The handlers of requests and withdrawals keep the types.
LEMMA PeerRequestType ==
    ASSUME Types, NEW e \in Endpoints,
           \/ OnAnnounce(e) \/ OnSubscribeAnnounces(e) \/ OnTrackStatusRequest(e)
           \/ OnInvalidNamespace(e) \/ OnUnannounce(e) \/ OnAnnounceCancel(e)
           \/ OnUnsubscribeAnnounces(e) \/ OnUnknown(e)
    PROVE  Types'
<1>t. tell \in Tells /\ ctrl \in [Endpoints -> Seq(Message)] /\ 0 \in Ids
  BY ControlAssumption DEF Types, RequestTypes, ControlTypes, Ids
<1>c. ctrl[e] # << >>
  BY DEF OnAnnounce, OnSubscribeAnnounces, OnAsk, OnTrackStatusRequest, OnInvalidNamespace,
         OnUnannounce, OnAnnounceCancel, OnUnsubscribeAnnounces, OnUnknown, Reading, NextIs
<1>h. Head(ctrl[e]).id \in Ids /\ Head(ctrl[e]).val \in Nat
  BY <1>t, <1>c, HeadType
<1>1. ASSUME NEW kind \in AskKinds, OnAsk(e, kind) PROVE Types'
  <2> DEFINE id == Head(ctrl[e]).id
  <2>1. ctrl' \in [Endpoints -> Seq(Message)]
    BY <1>1, <1>t, <1>c, ConsumeType DEF OnAsk
  <2>2. tell' \in Tells
    BY <1>1, <1>t, <1>h, TellSteps DEF OnAsk
  <2>3. ControlTypes' /\ RequestTypes'
    BY <1>1, <1>h, <2>1, <2>2 DEF OnAsk, Types, ControlTypes, RequestTypes
  <2>4. MapTypes'
    BY <1>1, <1>h DEF OnAsk, Types, MapTypes
  <2> QED  BY <2>3, <2>4 DEF Types
<1>2. CASE OnTrackStatusRequest(e)
  <2>1. Msg("TRACK_STATUS", 0) \in Message
    BY <1>t, MsgType DEF MessageTypes
  <2>2. Written(ctrl[Peer(e)], Msg("TRACK_STATUS", 0)) \in Seq(Message)
    BY <1>t, <2>1, PeerType, WrittenType
  <2>3. ctrl' \in [Endpoints -> Seq(Message)]
    BY <1>2, <1>t, <1>c, <2>2, ConsumeAndLeaveType DEF OnTrackStatusRequest
  <2>4. ControlTypes' /\ RequestTypes'
    BY <1>2, <2>3 DEF OnTrackStatusRequest, Types, ControlTypes, RequestTypes, Return, Failures
  <2>5. statusUses[e] + MaxAnswers - 1 \in Nat
    BY NamespaceAssumption DEF Types, MapTypes
  <2>6. MapTypes'
    BY <1>2, <2>5 DEF OnTrackStatusRequest, Types, MapTypes
  <2> QED  BY <2>4, <2>6 DEF Types
<1>3. CASE OnInvalidNamespace(e) \/ OnAnnounceCancel(e) \/ OnUnsubscribeAnnounces(e) \/ OnUnknown(e)
  <2>1. ctrl' \in [Endpoints -> Seq(Message)]
    BY <1>3, <1>t, <1>c, ConsumeType
       DEF OnInvalidNamespace, OnAnnounceCancel, OnUnsubscribeAnnounces, OnUnknown
  <2>2. failure' \in [Endpoints -> Failures]
    BY <1>3 DEF OnInvalidNamespace, OnAnnounceCancel, OnUnsubscribeAnnounces, OnUnknown,
                NotFound, Return, Failures, Types, ControlTypes
  <2> QED  BY <1>3, <2>1, <2>2
           DEF OnInvalidNamespace, OnAnnounceCancel, OnUnsubscribeAnnounces, OnUnknown,
               Types, ControlTypes, MapTypes, RequestTypes, namespaceVars
<1>4. CASE OnUnannounce(e)
  <2>1. ctrl' \in [Endpoints -> Seq(Message)]
    BY <1>4, <1>t, <1>c, ConsumeType DEF OnUnannounce
  <2>2. ControlTypes' /\ RequestTypes'
    BY <1>4, <2>1 DEF OnUnannounce, Types, ControlTypes, RequestTypes
  <2>3. MapTypes'
    BY <1>4 DEF OnUnannounce, Types, MapTypes
  <2> QED  BY <2>2, <2>3 DEF Types
<1> QED  BY <1>1, <1>2, <1>3, <1>4 DEF OnAnnounce, OnSubscribeAnnounces, AskKinds

\* The handlers of answers keep the types.
LEMMA PeerAnswerType ==
    ASSUME Types, NEW e \in Endpoints,
           \/ OnAnnounceOk(e) \/ OnAnnounceError(e) \/ OnSubscribeAnnouncesOk(e)
           \/ OnSubscribeAnnouncesError(e) \/ OnTrackStatus(e)
    PROVE  Types'
<1> DEFINE id == Head(ctrl[e]).id
<1>t. ask \in Asks /\ ctrl \in [Endpoints -> Seq(Message)]
  BY DEF Types, RequestTypes, ControlTypes
<1>c. ctrl[e] # << >>
  BY DEF OnAnnounceOk, OnAnnounceError, OnSubscribeAnnouncesOk, OnSubscribeAnnouncesError,
         OnPrefixAnswer, OnTrackStatus, Reading, NextIs
<1>h. id \in Ids
  BY <1>t, <1>c, HeadType
<1>u. PICK v \in {"empty", "ok", "error"} : ask' = [ask EXCEPT ![e][id].resp = v]
  <2>1. ask[e][id].resp \in {"empty", "ok", "error"}
    BY <1>t, <1>h, AskSteps
  <2>2. \A v \in {"ok", "error"} : AfterAnswer(ask[e][id].resp, v) \in {"empty", "ok", "error"}
    BY <2>1 DEF AfterAnswer
  <2>3. \/ ask' = [ask EXCEPT ![e][id].resp = AfterAnswer(ask[e][id].resp, "ok")]
        \/ ask' = [ask EXCEPT ![e][id].resp = AfterAnswer(ask[e][id].resp, "error")]
    BY DEF OnAnnounceOk, OnAnnounceError, OnSubscribeAnnouncesOk, OnSubscribeAnnouncesError,
           OnPrefixAnswer, OnTrackStatus
  <2> QED  BY <2>2, <2>3
<1>f. UNCHANGED <<setup, nextId, maxId, localMax, failure, handling, conn, blockedCalls,
                  inPending, inAnnounced, tell, statusUses, unannouncing, made>>
  BY DEF OnAnnounceOk, OnAnnounceError, OnSubscribeAnnouncesOk, OnSubscribeAnnouncesError,
         OnPrefixAnswer, OnTrackStatus
<1>1. ctrl' \in [Endpoints -> Seq(Message)]
  BY <1>t, <1>c, ConsumeType DEF OnAnnounceOk, OnAnnounceError, OnSubscribeAnnouncesOk,
     OnSubscribeAnnouncesError, OnPrefixAnswer, OnTrackStatus
<1>2. /\ outPending' \in [Endpoints -> SUBSET Ids] /\ outAnnounced' \in [Endpoints -> SUBSET Ids]
      /\ prefixes' \in [Endpoints -> SUBSET Ids]
  <2>1. /\ outPending \in [Endpoints -> SUBSET Ids] /\ outAnnounced \in [Endpoints -> SUBSET Ids]
        /\ prefixes \in [Endpoints -> SUBSET Ids]
    BY DEF Types, MapTypes
  <2>2. CASE OnAnnounceOk(e)
    <3>1. /\ outPending' = [outPending EXCEPT ![e] = PendingAfterConfirm(outPending[e], id)]
          /\ outAnnounced' = [outAnnounced EXCEPT ![e] = AnnouncedAfterConfirm(outAnnounced[e], id)]
          /\ prefixes' = prefixes
      BY <2>2 DEF OnAnnounceOk
    <3> HIDE DEF id
    <3> QED  BY <1>h, <2>1, <3>1 DEF PendingAfterConfirm, AnnouncedAfterConfirm
  <2>3. CASE OnAnnounceError(e)
    <3>1. /\ outPending' = [outPending EXCEPT ![e] = outPending[e] \ {id}]
          /\ UNCHANGED <<outAnnounced, prefixes>>
      BY <2>3 DEF OnAnnounceError
    <3> HIDE DEF id
    <3> QED  BY <2>1, <3>1
  <2>4. CASE OnSubscribeAnnouncesOk(e) \/ OnSubscribeAnnouncesError(e)
    <3>1. /\ prefixes' = [prefixes EXCEPT ![e] = prefixes[e] \ {id}]
          /\ UNCHANGED <<outPending, outAnnounced>>
      BY <2>4 DEF OnSubscribeAnnouncesOk, OnSubscribeAnnouncesError, OnPrefixAnswer
    <3> HIDE DEF id
    <3> QED  BY <2>1, <3>1
  <2>5. CASE OnTrackStatus(e)
    BY <2>1, <2>5 DEF OnTrackStatus
  <2> QED  BY <2>2, <2>3, <2>4, <2>5
<1>3. ask' \in Asks
  BY <1>t, <1>h, <1>u, AskSteps
<1>4. \A f \in Endpoints, i \in Ids :
        ask'[f][i].kind = ask[f][i].kind /\ ask'[f][i].call = ask[f][i].call
  BY <1>t, <1>u DEF Asks, Ask
<1>5. ControlTypes' /\ MapTypes'
  BY <1>f, <1>1, <1>2 DEF Types, ControlTypes, MapTypes
<1>6. RequestTypes'
  BY <1>f, <1>3, <1>4 DEF Types, RequestTypes
<1> QED  BY <1>5, <1>6 DEF Types

\* The response writers keep the types.
LEMMA WriterType ==
    ASSUME Types, NEW e \in Endpoints,
           \/ \E id \in Ids : \/ AcceptAnnouncement(e, id) \/ WriteAnnounceOk(e, id)
                              \/ AcceptAnnouncementSubscription(e, id) \/ Reject(e, id)
           \/ LateTrackStatus(e) \/ HandlerReturn(e)
    PROVE  Types'
<1>t. tell \in Tells /\ ctrl \in [Endpoints -> Seq(Message)] /\ 0 \in Ids
  BY ControlAssumption DEF Types, RequestTypes, ControlTypes, Ids
<1>m. \A id \in Ids :
        /\ Msg("ANNOUNCE_OK", id) \in Message
        /\ Msg("SUBSCRIBE_ANNOUNCES_OK", id) \in Message
        /\ Msg(AnswerType(tell[e][id].kind, FALSE), id) \in Message
        /\ Msg("TRACK_STATUS", 0) \in Message
  BY <1>t, MsgType DEF MessageTypes, AnswerType
<1>r. ASSUME NEW id \in Ids, RejectAsk(e, id)
      PROVE  tell' \in Tells /\ ctrl' \in [Endpoints -> Seq(Message)]
  <2>1. tell' \in Tells
    BY <1>t, <1>r, TellSteps DEF RejectAsk
  <2>2. ctrl' \in [Endpoints -> Seq(Message)]
    BY <1>t, <1>m, <1>r, WriteType DEF RejectAsk
  <2> QED  BY <2>1, <2>2
<1>1. ASSUME NEW id \in Ids, AcceptAnnouncement(e, id) PROVE Types'
  <2>1. tell' \in Tells
    <3>1. \A b \in BOOLEAN :
            [tell EXCEPT ![e][id] = [@ EXCEPT !.handled = TRUE, !.accepting = b]] \in Tells
      BY <1>t, TellSteps
    <3>2. (id \in inPending[e]) \in BOOLEAN
      OBVIOUS
    <3> QED  BY <1>1, <3>1, <3>2, Zenon DEF AcceptAnnouncement
  <2>2. ControlTypes' /\ RequestTypes'
    BY <1>1, <2>1 DEF AcceptAnnouncement, Types, ControlTypes, RequestTypes, controlVars
  <2>3. MapTypes'
    BY <1>1 DEF AcceptAnnouncement, Types, MapTypes, PendingAfterConfirm, AnnouncedAfterConfirm
  <2> QED  BY <2>2, <2>3 DEF Types
<1>2. ASSUME NEW id \in Ids, WriteAnnounceOk(e, id) PROVE Types'
  <2>1. tell' \in Tells
    BY <1>2, <1>t, TellSteps DEF WriteAnnounceOk
  <2>2. ctrl' \in [Endpoints -> Seq(Message)]
    BY <1>t, <1>m, <1>2, WriteType DEF WriteAnnounceOk
  <2> QED  BY <1>2, <2>1, <2>2 DEF WriteAnnounceOk, Types, ControlTypes, RequestTypes, MapTypes
<1>3. ASSUME NEW id \in Ids, AcceptAnnouncementSubscription(e, id) PROVE Types'
  <2>1. tell' \in Tells
    BY <1>3, <1>t, TellSteps DEF AcceptAnnouncementSubscription
  <2>2. ctrl' \in [Endpoints -> Seq(Message)]
    BY <1>t, <1>m, <1>3, WriteType DEF AcceptAnnouncementSubscription
  <2> QED  BY <1>3, <2>1, <2>2
           DEF AcceptAnnouncementSubscription, Types, ControlTypes, RequestTypes, MapTypes
<1>4. ASSUME NEW id \in Ids, Reject(e, id) PROVE Types'
  BY <1>4, <1>r DEF Reject, Types, ControlTypes, RequestTypes, MapTypes
<1>5. CASE LateTrackStatus(e)
  <2>1. ctrl' \in [Endpoints -> Seq(Message)]
    BY <1>t, <1>m, <1>5, WriteType DEF LateTrackStatus
  <2>2. statusUses' \in [Endpoints -> Nat]
    BY <1>5 DEF LateTrackStatus, Types, MapTypes
  <2> QED  BY <1>5, <2>1, <2>2 DEF LateTrackStatus, Types, ControlTypes, RequestTypes, MapTypes
<1>6. CASE HandlerReturn(e)
  <2>1. handling[e] \in Ids
    BY <1>6 DEF HandlerReturn, Types, ControlTypes
  <2>2. tell' \in Tells /\ ctrl' \in [Endpoints -> Seq(Message)]
    BY <1>6, <1>t, <2>1, <1>r DEF HandlerReturn
  <2>3. failure' \in [Endpoints -> Failures] /\ handling' \in [Endpoints -> Ids \cup {NoRequest}]
    BY <1>6 DEF HandlerReturn, Return, Failures, Types, ControlTypes
  <2> QED  BY <1>6, <2>2, <2>3 DEF HandlerReturn, Types, ControlTypes, RequestTypes, MapTypes
<1> QED  BY <1>1, <1>2, <1>3, <1>4, <1>5, <1>6

\* Every step keeps the types.
LEMMA TypesStep == Types /\ [Next]_vars => Types'
<1> SUFFICES ASSUME Types, [Next]_vars PROVE Types'
  OBVIOUS
<1>1. CASE UNCHANGED vars
  BY <1>1 DEF vars, controlVars, namespaceVars, Types, ControlTypes, RequestTypes, MapTypes
<1>2. ASSUME NEW e \in Endpoints, Reader(e) PROVE Types'
  BY <1>2, ControlStepTypes, PeerRequestType, PeerAnswerType DEF Reader, ControlStep
<1>3. ASSUME NEW e \in Endpoints, Application(e) PROVE Types'
  BY <1>3, ControlStepTypes, CallType, WithdrawType, WriterType DEF Application
<1>4. ASSUME NEW e \in Endpoints,
             \/ HandlerReturn(e) \/ \E id \in Ids : CallStep(e, id) \/ WriteAnnounceOk(e, id)
             \/ \E ns \in Namespaces : WriteUnannounce(e, ns)
      PROVE  Types'
  BY <1>4, CallType, WithdrawType, WriterType
<1> QED  BY <1>1, <1>2, <1>3, <1>4 DEF Next

-----------------------------------------------------------------------------
(***************************************************************************)
(* The inductive invariant.                                                *)
(***************************************************************************)

AskMsgs == {"ANNOUNCE", "SUBSCRIBE_ANNOUNCES"}
OkMsgs == {"ANNOUNCE_OK"}
AnswerMsgs ==
    {"ANNOUNCE_OK", "ANNOUNCE_ERROR", "SUBSCRIBE_ANNOUNCES_OK", "SUBSCRIBE_ANNOUNCES_ERROR"}

\* The request is on its way, or an answer to it is.
Asked(e, id) == Has(ctrl[Peer(e)], AskMsgs, id)
OkSent(e, id) == Has(ctrl[e], OkMsgs, id)
AnswerSent(e, id) == Has(ctrl[e], AnswerMsgs, id)
Answers(e, id) == tell[Peer(e)][id].oks + tell[Peer(e)][id].errors

\* e reads no more messages, or will not.
Lost(e) == failure[e] # "none" \/ conn = "down"

\* The peer of the announcer has withdrawn its namespace.
Cancelled(e, id) == <<"announceCancel", ask[e][id].ns>> \in made[Peer(e)]
Unsubscribed(e, id) == <<"unsubscribeAnnouncements", ask[e][id].ns>> \in made[e]

\* The peer has the announcement confirmed, unless one end has withdrawn it.
Kept(e, id) == id \in inAnnounced[Peer(e)] \/ Unannounced(e, id) \/ Cancelled(e, id)

\* An answer to the request will be welcome.
Filed(e, id) ==
    /\ ask[e][id].kind = "announce" => id \in outPending[e] \/ Unannounced(e, id)
    /\ ask[e][id].kind = "subscribeAnnouncements" => id \in prefixes[e] \/ Unsubscribed(e, id)

\* The call has not written its request.
Unwritten == {"none", "begun", "unsent"}

\* What a message in flight to f says is true of its sender.
MsgInv(f, m) ==
    LET e == Peer(f) IN
    /\ m.type # "MAX_REQUEST_ID"
    /\ m.type \in AskMsgs =>
         /\ ask[e][m.id].kind # "none" /\ m.type = AskType[ask[e][m.id].kind]
         /\ m.val = ask[e][m.id].ns
         /\ ask[e][m.id].call \notin Unwritten
    /\ m.type = "TRACK_STATUS_REQUEST" =>
         \E id \in Ids : ask[e][id].kind = "trackStatus" /\ ask[e][id].ns = m.val
    /\ m.type = "TRACK_STATUS" => m.id = 0 /\ StatusRequests(f) # {}
    /\ m.type = "UNANNOUNCE" => <<"unannounce", m.val>> \in made[e]
    /\ m.type = "ANNOUNCE_CANCEL" => <<"announceCancel", m.val>> \in made[e]
    /\ m.type \in AnswerMsgs =>
         /\ tell[e][m.id].kind \in {"announce", "subscribeAnnouncements"}
         /\ \E ok \in BOOLEAN : m.type = AnswerType(tell[e][m.id].kind, ok)
         /\ Answers(f, m.id) >= 1
    /\ m.type = "ANNOUNCE_OK" => Kept(f, m.id)
    /\ m.type = "ANNOUNCE_ERROR" => tell[e][m.id].errors >= 1

FlightInv == \A f \in Endpoints : \A i \in 1 .. Len(ctrl[f]) : MsgInv(f, ctrl[f][i])

\* A request of e, and what its peer has of it.
PairInv(e, id) ==
    LET p == Peer(e)
        a == ask[e][id]
        t == tell[p][id] IN
    /\ Once(ctrl[p], AskMsgs, id)
    /\ Asked(e, id) => t.kind = "none"
    /\ a.call \in Unwritten => t.kind = "none"
    /\ (a.kind = "none") <=> (a.call = "none")
    /\ a.kind = "none" => a.resp = "empty"
    /\ nextId[e] <= id => a.kind = "none"
    /\ t.kind = "none" => ~t.accepting /\ Answers(e, id) = 0
    /\ t.kind # "none" => t.kind = a.kind /\ t.kind # "trackStatus" /\ t.ns = a.ns
    /\ id \in outPending[e] \cup outAnnounced[e] => a.kind = "announce"
    /\ id \in prefixes[e] => a.kind = "subscribeAnnouncements"
    /\ id \in inPending[p] \cup inAnnounced[p] => t.kind = "announce"
    /\ ~(id \in outPending[e] /\ id \in outAnnounced[e])
    /\ ~(id \in inPending[p] /\ id \in inAnnounced[p])
    /\ t.accepting => t.handled /\ t.kind = "announce" /\ Kept(e, id)
    /\ a.kind = "announce" /\ (a.resp = "ok" \/ a.call = "ok") =>
         Kept(e, id) /\ (id \in outAnnounced[e] \/ Unannounced(e, id))
    /\ a.kind = "announce" /\ (a.resp = "error" \/ a.call = "refused") =>
         id \notin outPending[e] \cup outAnnounced[e] /\ t.errors >= 1
    /\ id \in outAnnounced[e] => Kept(e, id)
    /\ id \in inAnnounced[p] =>
         \/ t.accepting \/ OkSent(e, id)
         \/ id \in outAnnounced[e] \/ Unannounced(e, id) \/ Lost(e)
    /\ Answers(e, id) <= 1 =>
         Once(ctrl[e], AnswerMsgs, id) /\ (AnswerSent(e, id) => Filed(e, id))
    /\ Answers(e, id) = 0 /\ a.call \notin {"none", "unsent"} => Filed(e, id)

\* What an endpoint is about to do concerns something that is there.
EndInv(e) ==
    LET p == Peer(e) IN
    /\ handling[e] # NoRequest => tell[e][handling[e]].kind # "none"
    /\ \A ns \in unannouncing[e] : <<"unannounce", ns>> \in made[e]
    /\ statusUses[e] > 0 => StatusRequests(p) # {}
    /\ (\E ns \in Namespaces : <<"announceCancel", ns>> \in made[e]) =>
         Lost(p) \/ Has(ctrl[p], {"ANNOUNCE_CANCEL"}, 0)

\* An endpoint whose application waits for Run has written nothing before its setup
\* is done, and the first message an endpoint gets is the peer's setup.
Silent(e) ==
    /\ \A id \in Ids : ask[e][id].call = "none" /\ tell[e][id].kind = "none"
    /\ unannouncing[e] = {} /\ statusUses[e] = 0 /\ handling[e] = NoRequest
SetupInv ==
    /\ setup[Client] # "limitSet"
    /\ setup[Client] = "waiting" => maxId[Client] = 0
    /\ ~EarlyCalls =>
         /\ \A e \in Endpoints : setup[e] # "done" => Silent(e)
         /\ setup[Server] # "done" => setup[Client] # "done" /\ ctrl[Client] = << >>
         /\ setup[Server] = "waiting" /\ ctrl[Server] # << >> =>
              Head(ctrl[Server]).type = "CLIENT_SETUP"
         /\ setup[Server] = "done" /\ setup[Client] = "waiting" =>
              ctrl[Client] # << >> /\ Head(ctrl[Client]).type = "SERVER_SETUP"

RequestInv == FlightInv /\ \A e \in Endpoints, id \in Ids : PairInv(e, id)
Inv == Types /\ RequestInv /\ (\A e \in Endpoints : EndInv(e)) /\ SetupInv /\ DeathHasCause

-----------------------------------------------------------------------------
(***************************************************************************)
(* The ways in which a step moves a pair.                                  *)
(***************************************************************************)

\* What no step undoes: calls that withdraw something, IDs drawn, a reader that has
\* ended or a connection that is gone.
Onward ==
    \A e \in Endpoints :
      /\ made[e] \subseteq made'[e]
      /\ nextId[e] <= nextId'[e]
      /\ Lost(e) => Lost(e)'
      /\ conn = "down" => conn' = "down"

AskSame(e, id) == ask'[e][id] = ask[e][id]
TellSame(e, id) ==
    LET t == tell[Peer(e)][id]
        u == tell'[Peer(e)][id] IN
    /\ u.kind = t.kind /\ u.ns = t.ns /\ u.oks = t.oks /\ u.errors = t.errors
    /\ u.accepting <=> t.accepting
    /\ t.handled => u.handled
OutSame(e, id) ==
    /\ id \in outPending'[e] <=> id \in outPending[e]
    /\ id \in outAnnounced'[e] <=> id \in outAnnounced[e]
    /\ id \in prefixes'[e] <=> id \in prefixes[e]
InSame(e, id) ==
    /\ id \in inPending'[Peer(e)] <=> id \in inPending[Peer(e)]
    /\ id \in inAnnounced'[Peer(e)] <=> id \in inAnnounced[Peer(e)]

\* An entry is gone only because of a call that withdraws its namespace.
OutShrinks(e, id) ==
    /\ id \in outPending'[e] => id \in outPending[e]
    /\ id \in outAnnounced'[e] => id \in outAnnounced[e]
    /\ id \in prefixes'[e] => id \in prefixes[e]
    /\ id \in outPending[e] /\ id \notin outPending'[e] => Unannounced(e, id)'
    /\ id \in outAnnounced[e] /\ id \notin outAnnounced'[e] => Unannounced(e, id)'
    /\ id \in prefixes[e] /\ id \notin prefixes'[e] => Unsubscribed(e, id)'
InShrinks(e, id) ==
    /\ id \in inPending'[Peer(e)] => id \in inPending[Peer(e)]
    /\ id \in inAnnounced'[Peer(e)] => id \in inAnnounced[Peer(e)]
    /\ id \in inAnnounced[Peer(e)] /\ id \notin inAnnounced'[Peer(e)] =>
         Unannounced(e, id)' \/ Cancelled(e, id)'

\* Nothing new about the pair is in flight, and ANNOUNCE_OK is lost only with the reader.
AskedShrinks(e, id) ==
    /\ Asked(e, id)' => Asked(e, id)
    /\ Once(ctrl[Peer(e)], AskMsgs, id) => Once(ctrl'[Peer(e)], AskMsgs, id)
AnswersShrink(e, id) ==
    /\ AnswerSent(e, id)' => AnswerSent(e, id)
    /\ Once(ctrl[e], AnswerMsgs, id) => Once(ctrl'[e], AnswerMsgs, id)
OkKept(e, id) == OkSent(e, id) => OkSent(e, id)' \/ Lost(e)'
FlightShrinks(e, id) == AskedShrinks(e, id) /\ AnswersShrink(e, id) /\ OkKept(e, id)

\* Nothing happens to the pair but that it is withdrawn or a message is lost.
Rest(e, id) ==
    /\ AskSame(e, id) /\ TellSame(e, id)
    /\ OutShrinks(e, id) /\ InShrinks(e, id) /\ FlightShrinks(e, id)

\* BeginAsk.
Begin(e, id) ==
    /\ nextId[e] = id /\ id < nextId'[e]
    /\ ask'[e][id].kind \in AskKinds /\ ask'[e][id].call = "begun" /\ ask'[e][id].resp = "empty"
    /\ id \in outPending'[e] <=> ask'[e][id].kind = "announce"
    /\ id \in prefixes'[e] <=> ask'[e][id].kind = "subscribeAnnouncements"
    /\ id \in outAnnounced'[e] <=> id \in outAnnounced[e]
    /\ TellSame(e, id) /\ InSame(e, id) /\ FlightShrinks(e, id)

\* WriteAsk, with and without a connection.
Send(e, id) ==
    /\ ask[e][id].call = "begun" /\ ask'[e][id].call = "waiting"
    /\ ask'[e][id].kind = ask[e][id].kind /\ ask'[e][id].ns = ask[e][id].ns
    /\ ask'[e][id].resp = ask[e][id].resp
    /\ Once(ctrl'[Peer(e)], AskMsgs, id)
    /\ OutSame(e, id) /\ TellSame(e, id) /\ InSame(e, id)
    /\ AnswersShrink(e, id) /\ OkKept(e, id)
NotSent(e, id) ==
    /\ ask[e][id].call = "begun" /\ ask'[e][id].call = "unsent"
    /\ ask'[e][id].kind = ask[e][id].kind /\ ask'[e][id].ns = ask[e][id].ns
    /\ ask'[e][id].resp = ask[e][id].resp
    /\ id \in outPending'[e] => id \in outPending[e]
    /\ id \in prefixes'[e] => id \in prefixes[e]
    /\ id \in outAnnounced'[e] <=> id \in outAnnounced[e]
    /\ TellSame(e, id) /\ InSame(e, id) /\ FlightShrinks(e, id)

\* ReturnAnswer and GiveUp.
Finish(e, id) ==
    /\ ask[e][id].call = "waiting"
    /\ \/ /\ ask[e][id].resp # "empty" /\ ask'[e][id].resp = "empty"
          /\ ask'[e][id].call = IF ask[e][id].resp = "error" THEN "refused" ELSE "ok"
       \/ ask'[e][id].resp = ask[e][id].resp /\ ask'[e][id].call = "cancelled"
    /\ ask'[e][id].kind = ask[e][id].kind /\ ask'[e][id].ns = ask[e][id].ns
    /\ OutSame(e, id) /\ TellSame(e, id) /\ InSame(e, id) /\ FlightShrinks(e, id)

\* An answer reaches the call: ANNOUNCE_OK, ANNOUNCE_ERROR, or another.
Hear(e, id) ==
    /\ ask'[e][id].kind = ask[e][id].kind /\ ask'[e][id].ns = ask[e][id].ns
    /\ ask'[e][id].call = ask[e][id].call
    /\ TellSame(e, id) /\ InSame(e, id) /\ AskedShrinks(e, id) /\ AnswersShrink(e, id)
HearOk(e, id) ==
    /\ Hear(e, id)
    /\ ask'[e][id].resp = AfterAnswer(ask[e][id].resp, "ok")
    /\ id \in outPending[e] /\ id \notin outPending'[e] /\ id \in outAnnounced'[e]
    /\ id \in prefixes'[e] <=> id \in prefixes[e]
    /\ Kept(e, id) /\ AnswerSent(e, id)
    /\ Once(ctrl[e], AnswerMsgs, id) => ~AnswerSent(e, id)'
HearError(e, id) ==
    /\ Hear(e, id) /\ OkKept(e, id)
    /\ ask'[e][id].resp = AfterAnswer(ask[e][id].resp, "error")
    /\ id \in outPending[e] /\ id \notin outPending'[e]
    /\ id \in outAnnounced'[e] <=> id \in outAnnounced[e]
    /\ id \in prefixes'[e] <=> id \in prefixes[e]
    /\ tell[Peer(e)][id].errors >= 1
    /\ Once(ctrl[e], AnswerMsgs, id) => ~AnswerSent(e, id)'
HearOther(e, id) ==
    /\ Hear(e, id) /\ OkKept(e, id)
    /\ id \in outPending'[e] <=> id \in outPending[e]
    /\ id \in outAnnounced'[e] <=> id \in outAnnounced[e]
    /\ id \in prefixes'[e] => id \in prefixes[e]
    /\ \/ ask[e][id].kind = "subscribeAnnouncements"
          /\ (Once(ctrl[e], AnswerMsgs, id) => ~AnswerSent(e, id)') /\ AnswerSent(e, id)
       \/ ask[e][id].kind = "trackStatus"

\* OnAsk.
Admit(e, id) ==
    LET u == tell'[Peer(e)][id] IN
    /\ Asked(e, id) /\ ~Asked(e, id)'
    /\ ask[e][id].call \notin Unwritten
    /\ u.kind \in {"announce", "subscribeAnnouncements"}
    /\ u.kind = ask[e][id].kind /\ u.ns = ask[e][id].ns
    /\ ~u.accepting /\ u.oks = 0 /\ u.errors = 0
    /\ id \in inPending'[Peer(e)] => u.kind = "announce"
    /\ id \in inAnnounced'[Peer(e)] <=> id \in inAnnounced[Peer(e)]
    /\ AskSame(e, id) /\ OutSame(e, id) /\ FlightShrinks(e, id)

\* AcceptAnnouncement of a pending one.
Confirm(e, id) ==
    LET t == tell[Peer(e)][id]
        u == tell'[Peer(e)][id] IN
    /\ t.kind = "announce"
    /\ u.kind = t.kind /\ u.ns = t.ns /\ u.oks = t.oks /\ u.errors = t.errors
    /\ u.accepting /\ u.handled
    /\ id \notin inPending'[Peer(e)] /\ id \in inAnnounced'[Peer(e)]
    /\ AskSame(e, id) /\ OutSame(e, id) /\ FlightShrinks(e, id)

\* A response writer is used.
Reply(e, id) ==
    LET t == tell[Peer(e)][id]
        u == tell'[Peer(e)][id] IN
    /\ t.kind # "none" /\ u.kind = t.kind /\ u.ns = t.ns
    /\ \/ u.oks = t.oks + 1 /\ u.errors = t.errors
       \/ u.oks = t.oks /\ u.errors = t.errors + 1
    /\ t.handled => u.handled
    /\ \/ u.accepting = t.accepting
       \/ ~u.accepting /\ (OkSent(e, id)' \/ Lost(e)')
    /\ AskSame(e, id) /\ OutSame(e, id) /\ InSame(e, id)
    /\ AskedShrinks(e, id) /\ OkKept(e, id)
    /\ ~AnswerSent(e, id) => Once(ctrl'[e], AnswerMsgs, id)

PairStep(e, id) ==
    \/ Rest(e, id) \/ Begin(e, id) \/ Send(e, id) \/ NotSent(e, id) \/ Finish(e, id)
    \/ HearOk(e, id) \/ HearError(e, id) \/ HearOther(e, id)
    \/ Admit(e, id) \/ Confirm(e, id) \/ Reply(e, id)

\* The steps of PairStep keep the invariant of a pair.
LEMMA PairStepInv ==
    ASSUME Types, Types', Onward, NEW e \in Endpoints, NEW id \in Ids,
           PairInv(e, id), AnswerSent(e, id) => Answers(e, id) >= 1,
           PairStep(e, id)
    PROVE  PairInv(e, id)'
<1> DEFINE p == Peer(e)
<1>0. /\ p \in Endpoints /\ made[e] \subseteq made'[e] /\ made[p] \subseteq made'[p]
      /\ (Lost(e) => Lost(e)') /\ nextId[e] \in Nat /\ nextId'[e] \in Nat /\ id \in Nat
      /\ nextId[e] <= nextId'[e]
  <2>1. p \in Endpoints
    BY PeerType
  <2>2. id \in Nat
    BY DEF Ids
  <2>3. nextId[e] \in Nat /\ nextId'[e] \in Nat
    BY DEF Types, ControlTypes
  <2> QED  BY <2>1, <2>2, <2>3 DEF Onward
<1>r. ask[e][id].resp \in {"empty", "ok", "error"}
  BY AskSteps DEF Types, RequestTypes
<1>n. /\ tell[p][id].oks \in Nat /\ tell[p][id].errors \in Nat
      /\ tell'[p][id].oks \in Nat /\ tell'[p][id].errors \in Nat
  <2>1. tell \in Tells /\ tell' \in Tells
    BY DEF Types, RequestTypes
  <2> QED  BY <1>0, <2>1, TellSteps
<1>k. ask'[e][id].ns = ask[e][id].ns =>
        /\ (Unannounced(e, id) => Unannounced(e, id)')
        /\ (Cancelled(e, id) => Cancelled(e, id)')
        /\ (Unsubscribed(e, id) => Unsubscribed(e, id)')
  BY <1>0 DEF Unannounced, Cancelled, Unsubscribed
<1> USE DEF PairInv, Answers, Unwritten
<1>1. CASE Rest(e, id)
  BY <1>0, <1>n, <1>k, <1>1 DEF Rest, AskSame, TellSame, OutShrinks, InShrinks,
     FlightShrinks, AskedShrinks, AnswersShrink, OkKept, Kept, Filed
<1> USE DEF FlightShrinks, AskedShrinks, AnswersShrink, OkKept, Kept, Filed
<1>2. CASE Begin(e, id)
  BY <1>0, <1>n, <1>2 DEF Begin, TellSame, InSame, AskKinds
<1>3. CASE Send(e, id)
  BY <1>0, <1>n, <1>k, <1>3 DEF Send, OutSame, TellSame, InSame
<1>4. CASE NotSent(e, id)
  BY <1>0, <1>n, <1>k, <1>4 DEF NotSent, TellSame, InSame
<1>5. CASE Finish(e, id)
  BY <1>0, <1>n, <1>k, <1>r, <1>5 DEF Finish, OutSame, TellSame, InSame
<1>6. CASE HearOk(e, id)
  BY <1>0, <1>n, <1>k, <1>r, <1>6 DEF HearOk, Hear, TellSame, InSame, AfterAnswer
<1>7. CASE HearError(e, id)
  BY <1>0, <1>n, <1>k, <1>7 DEF HearError, Hear, TellSame, InSame, AfterAnswer
<1>8. CASE HearOther(e, id)
  BY <1>0, <1>n, <1>k, <1>8 DEF HearOther, Hear, TellSame, InSame
<1>9. CASE Admit(e, id)
  BY <1>0, <1>n, <1>k, <1>9 DEF Admit, AskSame, OutSame
<1>10. CASE Confirm(e, id)
  BY <1>0, <1>n, <1>k, <1>10 DEF Confirm, AskSame, OutSame
<1>11. CASE Reply(e, id)
  <2>1. Answers(e, id)' = Answers(e, id) + 1 /\ Answers(e, id) \in Nat
    BY <1>n, <1>11 DEF Reply
  <2>2. tell'[p][id].errors >= tell[p][id].errors
    BY <1>n, <1>11 DEF Reply
  <2> HIDE DEF Answers
  <2> QED  BY <1>0, <1>n, <1>k, <1>11, <2>1, <2>2 DEF Reply, AskSame, OutSame, InSame
<1> QED  BY <1>1, <1>2, <1>3, <1>4, <1>5, <1>6, <1>7, <1>8, <1>9, <1>10, <1>11 DEF PairStep

\* What was true of a request stays so.
LEMMA PairOnward ==
    ASSUME Types, Types', Onward, NEW e \in Endpoints, NEW id \in Ids,
           PairInv(e, id), PairStep(e, id)
    PROVE  /\ ask[e][id].kind # "none" =>
                /\ ask'[e][id].kind = ask[e][id].kind /\ ask'[e][id].ns = ask[e][id].ns
                /\ Kept(e, id) => Kept(e, id)'
           /\ ask[e][id].call \notin Unwritten => ask'[e][id].call \notin Unwritten
           /\ tell[Peer(e)][id].kind # "none" =>
                /\ tell'[Peer(e)][id].kind = tell[Peer(e)][id].kind
                /\ tell'[Peer(e)][id].errors >= tell[Peer(e)][id].errors
                /\ Answers(e, id)' >= Answers(e, id)
<1> DEFINE p == Peer(e)
<1>0. p \in Endpoints /\ made[e] \subseteq made'[e] /\ made[p] \subseteq made'[p]
  BY PeerType DEF Onward
<1>n. /\ tell[p][id].oks \in Nat /\ tell[p][id].errors \in Nat
      /\ tell'[p][id].oks \in Nat /\ tell'[p][id].errors \in Nat
  <2>1. tell \in Tells /\ tell' \in Tells
    BY DEF Types, RequestTypes
  <2> QED  BY <1>0, <2>1, TellSteps
<1>b. Begin(e, id) => ask[e][id].kind = "none" /\ ask[e][id].call = "none"
  <2>1. nextId[e] = id => nextId[e] <= id
    BY DEF Ids
  <2> QED  BY <2>1 DEF Begin, PairInv
<1>1. ask[e][id].kind # "none" =>
        ask'[e][id].kind = ask[e][id].kind /\ ask'[e][id].ns = ask[e][id].ns
  BY <1>b DEF PairStep, Rest, Send, NotSent, Finish, HearOk, HearError, HearOther, Hear, Admit,
     Confirm, Reply, AskSame
<1>2. ask[e][id].call \notin Unwritten => ask'[e][id].call \notin Unwritten
  BY <1>b DEF PairStep, Rest, Send, NotSent, Finish, HearOk, HearError, HearOther, Hear, Admit,
     Confirm, Reply, AskSame, Unwritten
<1>3. ask[e][id].kind # "none" =>
        /\ (Unannounced(e, id) => Unannounced(e, id)')
        /\ (Cancelled(e, id) => Cancelled(e, id)')
  BY <1>0, <1>1 DEF Unannounced, Cancelled
<1>4. ask[e][id].kind # "none" => (Kept(e, id) => Kept(e, id)')
  BY <1>b, <1>3 DEF PairStep, Rest, Send, NotSent, Finish, HearOk, HearError, HearOther, Hear,
     Admit, Confirm, Reply, InSame, InShrinks, Kept
<1>5. tell[p][id].kind # "none" =>
        /\ tell'[p][id].kind = tell[p][id].kind
        /\ tell'[p][id].errors >= tell[p][id].errors
        /\ tell'[p][id].oks >= tell[p][id].oks
  BY <1>n DEF PairStep, Rest, Begin, Send, NotSent, Finish, HearOk, HearError, HearOther, Hear,
     Admit, Confirm, Reply, TellSame, PairInv
<1>6. tell[p][id].kind # "none" => Answers(e, id)' >= Answers(e, id)
  BY <1>n, <1>5 DEF Answers
<1> QED  BY <1>1, <1>2, <1>4, <1>5, <1>6

-----------------------------------------------------------------------------
(***************************************************************************)
(* The messages in flight.                                                 *)
(***************************************************************************)

\* The message was in flight before.
Old(q, m) == \E k \in 1 .. Len(q) : q[k] = m

\* Every message that a step puts in flight is true of its sender.
News ==
    \A f \in Endpoints : \A j \in 1 .. Len(ctrl'[f]) :
      \/ Old(ctrl[f], ctrl'[f][j])
      \/ \E m \in Message : ctrl'[f][j] = m /\ MsgInv(f, m)'

\* Every step moves every pair, and writes only what is true.
Moves == Onward /\ News /\ \A e \in Endpoints, id \in Ids : PairStep(e, id)

\* What a message says stays true.
LEMMA MsgOnward ==
    ASSUME Types, Types', RequestInv, Moves, NEW f \in Endpoints, NEW m \in Message, MsgInv(f, m)
    PROVE  MsgInv(f, m)'
<1> DEFINE e == Peer(f)
<1>0. e \in Endpoints /\ Peer(e) = f /\ m.id \in Ids /\ made[e] \subseteq made'[e]
  BY PeerType DEF Message, Moves, Onward
<1>1. /\ ask[e][m.id].kind # "none" =>
           ask'[e][m.id].kind = ask[e][m.id].kind /\ ask'[e][m.id].ns = ask[e][m.id].ns
      /\ ask[e][m.id].call \notin Unwritten => ask'[e][m.id].call \notin Unwritten
  BY <1>0, PairOnward DEF RequestInv, Moves
<1>2. /\ ask[f][m.id].kind # "none" => (Kept(f, m.id) => Kept(f, m.id)')
      /\ tell[e][m.id].kind # "none" =>
           /\ tell'[e][m.id].kind = tell[e][m.id].kind
           /\ tell'[e][m.id].errors >= tell[e][m.id].errors
           /\ Answers(f, m.id)' >= Answers(f, m.id)
           /\ tell[e][m.id].kind = ask[f][m.id].kind
  BY <1>0, PairOnward DEF RequestInv, Moves, PairInv
<1>3. \A id \in Ids : ask[e][id].kind # "none" =>
        ask'[e][id].kind = ask[e][id].kind /\ ask'[e][id].ns = ask[e][id].ns
  BY <1>0, PairOnward DEF RequestInv, Moves
<1>4. StatusRequests(f) # {} => (StatusRequests(f) # {})'
  <2>1. \A id \in Ids : ask[f][id].kind # "none" => ask'[f][id].kind = ask[f][id].kind
    BY PairOnward DEF RequestInv, Moves
  <2> QED  BY <2>1 DEF StatusRequests
<1>n. /\ tell[e][m.id].oks \in Nat /\ tell[e][m.id].errors \in Nat
      /\ tell'[e][m.id].oks \in Nat /\ tell'[e][m.id].errors \in Nat
  <2>1. tell \in Tells /\ tell' \in Tells
    BY DEF Types, RequestTypes
  <2> QED  BY <1>0, <2>1, TellSteps
<1>5. Answers(f, m.id) \in Nat /\ Answers(f, m.id)' \in Nat
  BY <1>n DEF Answers
<1>6. /\ m.type # "MAX_REQUEST_ID"
      /\ m.type \in AskMsgs =>
           /\ ask'[e][m.id].kind # "none" /\ m.type = AskType[ask'[e][m.id].kind]
           /\ m.val = ask'[e][m.id].ns
           /\ ask'[e][m.id].call \notin Unwritten
      /\ m.type = "UNANNOUNCE" => <<"unannounce", m.val>> \in made'[e]
      /\ m.type = "ANNOUNCE_CANCEL" => <<"announceCancel", m.val>> \in made'[e]
  BY <1>0, <1>1 DEF MsgInv
<1>7. m.type = "TRACK_STATUS_REQUEST" =>
         \E id \in Ids : ask'[e][id].kind = "trackStatus" /\ ask'[e][id].ns = m.val
  BY <1>3 DEF MsgInv
<1>8. m.type = "TRACK_STATUS" => m.id = 0 /\ (StatusRequests(f) # {})'
  BY <1>4 DEF MsgInv
<1>9. m.type \in AnswerMsgs =>
        /\ tell'[e][m.id].kind \in {"announce", "subscribeAnnouncements"}
        /\ \E ok \in BOOLEAN : m.type = AnswerType(tell'[e][m.id].kind, ok)
        /\ Answers(f, m.id)' >= 1
  BY <1>2, <1>5 DEF MsgInv
<1>10. m.type = "ANNOUNCE_OK" => Kept(f, m.id)'
  BY <1>2 DEF MsgInv, AnswerMsgs
<1>11. m.type = "ANNOUNCE_ERROR" => tell'[e][m.id].errors >= 1
  BY <1>2, <1>n DEF MsgInv, AnswerMsgs
<1> QED  BY <1>6, <1>7, <1>8, <1>9, <1>10, <1>11 DEF MsgInv

\* An answer in flight has been counted, and a request in flight was written.
LEMMA SentFacts ==
    ASSUME Types, FlightInv, NEW e \in Endpoints, NEW id \in Ids
    PROVE  /\ AnswerSent(e, id) => Answers(e, id) >= 1
           /\ Asked(e, id) => ask[e][id].call \notin Unwritten
<1>1. Peer(e) \in Endpoints /\ Peer(Peer(e)) = e
  BY PeerType
<1>2. ASSUME AnswerSent(e, id) PROVE Answers(e, id) >= 1
  <2>1. PICK i \in 1 .. Len(ctrl[e]) : ctrl[e][i].type \in AnswerMsgs /\ ctrl[e][i].id = id
    BY <1>2 DEF AnswerSent, Has
  <2>2. MsgInv(e, ctrl[e][i])
    BY DEF FlightInv
  <2> QED  BY <2>1, <2>2 DEF MsgInv
<1>3. ASSUME Asked(e, id) PROVE ask[e][id].call \notin Unwritten
  <2> DEFINE q == ctrl[Peer(e)]
  <2>1. PICK i \in 1 .. Len(q) : q[i].type \in AskMsgs /\ q[i].id = id
    BY <1>3 DEF Asked, Has
  <2>2. MsgInv(Peer(e), q[i])
    BY <1>1 DEF FlightInv
  <2> HIDE DEF q
  <2> QED  BY <1>1, <2>1, <2>2 DEF MsgInv
<1> QED  BY <1>2, <1>3

\* A step that moves every pair and writes what is true keeps the invariant.
LEMMA MovesInv ==
    ASSUME Types, Types', RequestInv, Moves
    PROVE  RequestInv'
<1>1. ASSUME NEW e \in Endpoints, NEW id \in Ids PROVE PairInv(e, id)'
  BY PairStepInv, SentFacts DEF RequestInv, Moves
<1>2. ASSUME NEW f \in Endpoints, NEW j \in 1 .. Len(ctrl'[f]), NEW m, m = ctrl'[f][j]
      PROVE  MsgInv(f, m)'
  <2>1. CASE Old(ctrl[f], ctrl'[f][j])
    <3>1. PICK k \in 1 .. Len(ctrl[f]) : ctrl[f][k] = m
      BY <1>2, <2>1 DEF Old
    <3>2. m \in Message
      BY <3>1 DEF Types, ControlTypes
    <3>3. MsgInv(f, m)
      BY <3>1 DEF RequestInv, FlightInv
    <3> QED  BY <3>2, <3>3, MsgOnward
  <2>2. CASE \E n \in Message : ctrl'[f][j] = n /\ MsgInv(f, n)'
    BY <1>2, <2>2
  <2> QED  BY <2>1, <2>2 DEF Moves, News
<1>3. FlightInv'
  BY <1>2 DEF FlightInv
<1> QED  BY <1>1, <1>3 DEF RequestInv

\* A write of x adds m to what is in flight to its peer, or nothing.
LEMMA WriteFlight ==
    ASSUME Types, NEW x \in Endpoints, NEW m \in Message, Write(x, m)
    PROVE  /\ \A f \in Endpoints, i \in Ids :
                /\ OkKept(f, i)
                /\ f # x \/ m.type \notin AskMsgs \/ m.id # i => AskedShrinks(f, i)
                /\ f # Peer(x) \/ m.type \notin AnswerMsgs \/ m.id # i => AnswersShrink(f, i)
           /\ \A i \in Ids :
                /\ ~Asked(x, i) => Once(ctrl'[Peer(x)], AskMsgs, i)
                /\ ~AnswerSent(Peer(x), i) => Once(ctrl'[Peer(x)], AnswerMsgs, i)
           /\ m.type \in OkMsgs /\ conn = "up" => OkSent(Peer(x), m.id)'
           /\ \A f \in Endpoints : \A j \in 1 .. Len(ctrl'[f]) :
                Old(ctrl[f], ctrl'[f][j]) \/ (f = Peer(x) /\ ctrl'[f][j] = m)
<1> DEFINE p == Peer(x)
           q == ctrl[p]
           r == ctrl'[p]
<1>0. /\ p \in Endpoints /\ p # x /\ Peer(p) = x /\ q \in Seq(Message)
      /\ \A f \in Endpoints : f = x \/ f = p
  BY PeerType DEF Endpoints, Client, Server, Peer, Types, ControlTypes
<1>1. ctrl'[x] = ctrl[x] /\ r = Written(q, m)
  BY <1>0 DEF Write, Types, ControlTypes
<1>2. r = q \/ r = Append(q, m)
  BY <1>1 DEF Written
<1>3. conn = "up" => r = Append(q, m)
  BY <1>1 DEF Written
<1>4. \A i \in Ids :
        /\ Has(q, OkMsgs, i) => Has(r, OkMsgs, i)
        /\ m.type \notin AskMsgs \/ m.id # i =>
             /\ (Has(r, AskMsgs, i) => Has(q, AskMsgs, i))
             /\ (Once(q, AskMsgs, i) => Once(r, AskMsgs, i))
        /\ m.type \notin AnswerMsgs \/ m.id # i =>
             /\ (Has(r, AnswerMsgs, i) => Has(q, AnswerMsgs, i))
             /\ (Once(q, AnswerMsgs, i) => Once(r, AnswerMsgs, i))
        /\ ~Has(q, AskMsgs, i) => Once(r, AskMsgs, i)
        /\ ~Has(q, AnswerMsgs, i) => Once(r, AnswerMsgs, i)
  <2>1. CASE r = Append(q, m)
    BY <1>0, <2>1, HasAppend
  <2>2. CASE r = q
    BY <2>2 DEF Has, Once
  <2> QED  BY <1>2, <2>1, <2>2
<1>5. m.type \in OkMsgs /\ conn = "up" => Has(r, OkMsgs, m.id)
  BY <1>0, <1>3, HasAppend
<1>6. \A j \in 1 .. Len(r) : Old(q, r[j]) \/ r[j] = m
  <2>1. CASE r = Append(q, m)
    <3>1. \A j \in 1 .. Len(r) : (j \in 1 .. Len(q) /\ r[j] = q[j]) \/ r[j] = m
      BY <1>0, <2>1, AppendProperties
    <3> QED  BY <3>1 DEF Old
  <2>2. CASE r = q
    BY <2>2 DEF Old
  <2> QED  BY <1>2, <2>1, <2>2
<1>7. \A j \in 1 .. Len(ctrl'[x]) : Old(ctrl[x], ctrl'[x][j])
  BY <1>1 DEF Old
<1> HIDE DEF p, q, r
<1>8. ASSUME NEW i \in Ids
      PROVE  /\ OkKept(x, i) /\ AnswersShrink(x, i) /\ AskedShrinks(p, i)
             /\ OkKept(p, i)
             /\ m.type \notin AskMsgs \/ m.id # i => AskedShrinks(x, i)
             /\ m.type \notin AnswerMsgs \/ m.id # i => AnswersShrink(p, i)
             /\ ~Asked(x, i) => Once(r, AskMsgs, i)
             /\ ~AnswerSent(p, i) => Once(r, AnswerMsgs, i)
  <2>1. Peer(x) = p /\ Peer(p) = x /\ ctrl[p] = q /\ ctrl'[p] = r /\ ctrl'[x] = ctrl[x]
    BY <1>0, <1>1 DEF p, q, r
  <2>2. OkKept(x, i) /\ AnswersShrink(x, i) /\ AskedShrinks(p, i)
    BY <2>1 DEF OkKept, AnswersShrink, AskedShrinks, OkSent, AnswerSent, Asked
  <2> QED  BY <1>4, <2>1, <2>2
           DEF OkKept, AnswersShrink, AskedShrinks, OkSent, AnswerSent, Asked
<1>9. m.type \in OkMsgs /\ conn = "up" => OkSent(p, m.id)'
  BY <1>5 DEF OkSent, r
<1>10. \A f \in Endpoints : \A j \in 1 .. Len(ctrl'[f]) :
         Old(ctrl[f], ctrl'[f][j]) \/ (f = p /\ ctrl'[f][j] = m)
  BY <1>0, <1>6, <1>7 DEF q, r
<1> QED  BY <1>0, <1>8, <1>9, <1>10 DEF p, r

\* A read of x takes the first message out of flight.
LEMMA ReadFlight ==
    ASSUME Types, NEW x \in Endpoints, ctrl[x] # << >>, Consume(x)
    PROVE  /\ \A f \in Endpoints, i \in Ids :
                /\ AskedShrinks(f, i) /\ AnswersShrink(f, i)
                /\ f # x \/ Head(ctrl[x]).type \notin OkMsgs \/ Head(ctrl[x]).id # i => OkKept(f, i)
           /\ \A i \in Ids :
                /\ Head(ctrl[x]).type \in AskMsgs /\ Head(ctrl[x]).id = i =>
                     /\ Asked(Peer(x), i)
                     /\ Once(ctrl[x], AskMsgs, i) => ~Asked(Peer(x), i)'
                /\ Head(ctrl[x]).type \in AnswerMsgs /\ Head(ctrl[x]).id = i =>
                     /\ AnswerSent(x, i)
                     /\ Once(ctrl[x], AnswerMsgs, i) => ~AnswerSent(x, i)'
           /\ \A f \in Endpoints : \A j \in 1 .. Len(ctrl'[f]) : Old(ctrl[f], ctrl'[f][j])
           /\ Head(ctrl[x]) \in Message /\ Old(ctrl[x], Head(ctrl[x]))
<1> DEFINE p == Peer(x)
           q == ctrl[x]
           m == Head(q)
           r == ctrl'[x]
<1>0. /\ p \in Endpoints /\ p # x /\ Peer(p) = x /\ q \in Seq(Message)
      /\ \A f \in Endpoints : f = x \/ f = p
  BY PeerType DEF Endpoints, Client, Server, Peer, Types, ControlTypes
<1>1. ctrl'[p] = ctrl[p] /\ r = Tail(q)
  BY <1>0 DEF Consume, Types, ControlTypes
<1>2. /\ Len(q) \in Nat /\ Len(q) >= 1 /\ Len(r) = Len(q) - 1 /\ m = q[1]
      /\ \A i \in 1 .. Len(r) : r[i] = q[i + 1]
  BY <1>0, <1>1, TailElements
<1>3. m \in Message /\ 1 \in 1 .. Len(q)
  BY <1>0, <1>2
<1>4. ASSUME NEW i \in Ids
      PROVE  /\ (Has(r, AskMsgs, i) => Has(q, AskMsgs, i))
             /\ (Once(q, AskMsgs, i) => Once(r, AskMsgs, i))
             /\ (Has(r, AnswerMsgs, i) => Has(q, AnswerMsgs, i))
             /\ (Once(q, AnswerMsgs, i) => Once(r, AnswerMsgs, i))
             /\ m.type \notin OkMsgs \/ m.id # i => (Has(q, OkMsgs, i) => Has(r, OkMsgs, i))
             /\ m.type \in AskMsgs /\ m.id = i =>
                  Has(q, AskMsgs, i) /\ (Once(q, AskMsgs, i) => ~Has(r, AskMsgs, i))
             /\ m.type \in AnswerMsgs /\ m.id = i =>
                  Has(q, AnswerMsgs, i) /\ (Once(q, AnswerMsgs, i) => ~Has(r, AnswerMsgs, i))
  BY <1>0, <1>1, HasTail
<1>5. \A j \in 1 .. Len(r) : Old(q, r[j])
  <2>1. \A j \in 1 .. Len(r) : j + 1 \in 1 .. Len(q) /\ r[j] = q[j + 1]
    BY <1>2
  <2> QED  BY <2>1 DEF Old
<1>6. \A j \in 1 .. Len(ctrl'[p]) : Old(ctrl[p], ctrl'[p][j])
  BY <1>1 DEF Old
<1>7. Old(q, m)
  BY <1>2, <1>3 DEF Old
<1> HIDE DEF p, q, r, m
<1>8. Peer(x) = p /\ Peer(p) = x /\ ctrl[x] = q /\ ctrl'[x] = r /\ ctrl'[p] = ctrl[p]
  BY <1>0, <1>1 DEF p, q, r
<1>9. ASSUME NEW i \in Ids
      PROVE  /\ AskedShrinks(x, i) /\ AnswersShrink(p, i) /\ OkKept(p, i)
             /\ AskedShrinks(p, i) /\ AnswersShrink(x, i)
             /\ m.type \notin OkMsgs \/ m.id # i => OkKept(x, i)
             /\ m.type \in AskMsgs /\ m.id = i =>
                  Asked(p, i) /\ (Once(q, AskMsgs, i) => ~Asked(p, i)')
             /\ m.type \in AnswerMsgs /\ m.id = i =>
                  AnswerSent(x, i) /\ (Once(q, AnswerMsgs, i) => ~AnswerSent(x, i)')
  <2>1. AskedShrinks(x, i) /\ AnswersShrink(p, i) /\ OkKept(p, i)
    BY <1>8 DEF OkKept, AnswersShrink, AskedShrinks, OkSent, AnswerSent, Asked
  <2> QED  BY <1>4, <1>8, <2>1
           DEF OkKept, AnswersShrink, AskedShrinks, OkSent, AnswerSent, Asked
<1>10. \A f \in Endpoints : \A j \in 1 .. Len(ctrl'[f]) : Old(ctrl[f], ctrl'[f][j])
  BY <1>0, <1>5, <1>6, <1>8
<1> QED  BY <1>0, <1>3, <1>7, <1>8, <1>9, <1>10 DEF m, q

\* Nothing is read or written.
LEMMA QuietFlight ==
    ASSUME UNCHANGED ctrl
    PROVE  /\ \A f \in Endpoints, i \in Ids : FlightShrinks(f, i)
           /\ News
BY DEF FlightShrinks, OkKept, AnswersShrink, AskedShrinks, OkSent, AnswerSent, Asked, News, Old

-----------------------------------------------------------------------------
(***************************************************************************)
(* Every action moves the pairs.                                           *)
(***************************************************************************)

\* The pair is left alone.
LEMMA LeftAlone ==
    ASSUME NEW e \in Endpoints, NEW id \in Ids,
           AskSame(e, id), TellSame(e, id), OutSame(e, id), InSame(e, id), FlightShrinks(e, id)
    PROVE  PairStep(e, id)
BY DEF PairStep, Rest, OutShrinks, InShrinks, OutSame, InSame

\* Messages that say nothing of requests.
PlainMsgs == {"CLIENT_SETUP", "SERVER_SETUP", "REQUESTS_BLOCKED", "UNSUBSCRIBE_ANNOUNCES"}

LEMMA PlainMsg ==
    ASSUME NEW f, NEW m, m.type \in PlainMsgs
    PROVE  MsgInv(f, m)' /\ m.type \notin AskMsgs /\ m.type \notin AnswerMsgs
BY DEF MsgInv, PlainMsgs, AskMsgs, AnswerMsgs

\* A step that reads a message and changes none of the maps and requests.
LEMMA ReadOnlyMoves ==
    ASSUME Types, Onward, NEW e \in Endpoints, ctrl[e] # << >>, Consume(e),
           UNCHANGED <<outPending, outAnnounced, inPending, inAnnounced, prefixes, ask, tell>>,
           Head(ctrl[e]).type \in OkMsgs => Lost(e)'
    PROVE  Moves
<1>1. ASSUME NEW f \in Endpoints, NEW i \in Ids PROVE PairStep(f, i)
  <2>1. AskSame(f, i) /\ TellSame(f, i) /\ OutSame(f, i) /\ InSame(f, i)
    BY DEF AskSame, TellSame, OutSame, InSame
  <2>2. AskedShrinks(f, i) /\ AnswersShrink(f, i)
    BY ReadFlight
  <2>3. OkKept(f, i)
    BY ReadFlight DEF OkKept
  <2> QED  BY <2>1, <2>2, <2>3, LeftAlone DEF FlightShrinks
<1>2. News
  BY ReadFlight DEF News
<1> QED  BY <1>1, <1>2 DEF Moves

\* A step that writes a message without a request and changes none of the maps and requests.
LEMMA WriteOnlyMoves ==
    ASSUME Types, Onward, NEW e \in Endpoints, NEW m \in Message, Write(e, m),
           m.type \notin AskMsgs, m.type \notin AnswerMsgs, MsgInv(Peer(e), m)',
           UNCHANGED <<outPending, outAnnounced, inPending, inAnnounced, prefixes, ask, tell>>
    PROVE  Moves
<1>1. ASSUME NEW f \in Endpoints, NEW i \in Ids PROVE PairStep(f, i)
  <2>1. AskSame(f, i) /\ TellSame(f, i) /\ OutSame(f, i) /\ InSame(f, i)
    BY DEF AskSame, TellSame, OutSame, InSame
  <2>2. AskedShrinks(f, i) /\ AnswersShrink(f, i) /\ OkKept(f, i)
    BY WriteFlight
  <2> QED  BY <2>1, <2>2, LeftAlone DEF FlightShrinks
<1>2. News
  BY WriteFlight DEF News
<1> QED  BY <1>1, <1>2 DEF Moves

\* The steps of the control plane, and the messages that end the reader or are ignored.
LEMMA ControlMoves ==
    ASSUME Types, NEW e \in Endpoints, UNCHANGED namespaceVars,
           \/ ControlReads(e) \/ RequestBlocked(e) \/ Close(e)
           \/ OnInvalidNamespace(e) \/ OnAnnounceCancel(e)
           \/ OnUnsubscribeAnnounces(e) \/ OnUnknown(e)
    PROVE  Moves
<1>0. /\ UNCHANGED <<outPending, outAnnounced, inPending, inAnnounced, prefixes, ask, tell, made>>
      /\ Client \in Endpoints /\ Server \in Endpoints
  BY DEF namespaceVars, Endpoints
<1>t. /\ failure \in [Endpoints -> Failures] /\ nextId \in [Endpoints -> Nat]
      /\ conn \in {"up", "down"}
  BY DEF Types, ControlTypes
<1>o. ASSUME \A f \in Endpoints : failure'[f] = "none" => failure[f] = "none",
             conn = "down" => conn' = "down", UNCHANGED nextId
      PROVE  Onward
  BY <1>0, <1>o, <1>t DEF Onward, Lost
<1>1. CASE OnClientSetup
  <2>1. Onward
    BY <1>1, <1>o DEF OnClientSetup
  <2>2. Head(ctrl[Server]).type \notin OkMsgs /\ ctrl[Server] # << >> /\ Consume(Server)
    BY <1>1 DEF OnClientSetup, NextIs, OkMsgs
  <2> QED  BY <1>0, <2>1, <2>2, ReadOnlyMoves
<1>2. CASE WriteServerSetup
  <2> DEFINE m == LimitMsg("SERVER_SETUP", ServerSetupMax)
  <2>1. m \in Message /\ m.type \in PlainMsgs
    BY ControlAssumption, MsgType DEF MessageTypes, LimitMsg, Message, Ids, PlainMsgs
  <2>2. Onward
    BY <1>2, <1>o, <1>t, <1>0 DEF WriteServerSetup, Return
  <2>3. Write(Server, m)
    BY <1>2 DEF WriteServerSetup
  <2> HIDE DEF m
  <2> QED  BY <1>0, <2>1, <2>2, <2>3, PlainMsg, WriteOnlyMoves
<1>3. CASE OnServerSetup
  <2>1. Onward
    <3>1. \A f \in Endpoints : failure'[f] = "none" => failure[f] = "none"
      BY <1>3, <1>0, <1>t DEF OnServerSetup, SetMax, Return
    <3> QED  BY <1>3, <1>o, <3>1 DEF OnServerSetup
  <2>2. Head(ctrl[Client]).type \notin OkMsgs /\ ctrl[Client] # << >> /\ Consume(Client)
    BY <1>3 DEF OnServerSetup, NextIs, OkMsgs
  <2> QED  BY <1>0, <2>1, <2>2, ReadOnlyMoves
<1>4. CASE OnMessageBeforeSetup(e) \/ OnInvalidNamespace(e) \/ OnAnnounceCancel(e) \/ OnUnknown(e)
  <2>1. /\ ctrl[e] # << >> /\ Consume(e) /\ UNCHANGED <<conn, nextId>>
        /\ \E err \in Failures \ {"none"} : failure' = [failure EXCEPT ![e] = err]
    <3>1. CASE OnMessageBeforeSetup(e)
      BY <3>1 DEF OnMessageBeforeSetup, Return, Failures
    <3>2. CASE OnInvalidNamespace(e)
      BY <3>2 DEF OnInvalidNamespace, Reading, NextIs, Return, Failures
    <3>3. CASE OnAnnounceCancel(e)
      BY <3>3 DEF OnAnnounceCancel, Reading, NextIs, Return, Failures
    <3>4. CASE OnUnknown(e)
      <4>1. NotFound(e, Head(ctrl[e])) \in Failures \ {"none"}
        BY <3>4 DEF OnUnknown, NotFound, Failures
      <4> QED  BY <3>4, <4>1 DEF OnUnknown, Return
    <3> QED  BY <1>4, <3>1, <3>2, <3>3, <3>4
  <2>2. \A f \in Endpoints : failure'[f] = "none" => failure[f] = "none"
    BY <1>t, <2>1
  <2>3. failure'[e] # "none"
    BY <1>t, <2>1
  <2>4. Onward /\ Lost(e)'
    BY <1>o, <2>1, <2>2, <2>3 DEF Lost
  <2> QED  BY <1>0, <2>1, <2>4, ReadOnlyMoves
<1>5. CASE OnMaxRequestID(e) \/ OnRequestsBlocked(e) \/ OnUnsubscribeAnnounces(e)
  <2>1. /\ ctrl[e] # << >> /\ Consume(e) /\ UNCHANGED <<conn, nextId>>
        /\ Head(ctrl[e]).type \notin OkMsgs
    BY <1>5 DEF OnMaxRequestID, OnRequestsBlocked, OnUnsubscribeAnnounces, Reading, NextIs, OkMsgs
  <2>2. \A f \in Endpoints : failure'[f] = "none" => failure[f] = "none"
    BY <1>t, <1>5 DEF OnMaxRequestID, OnRequestsBlocked, OnUnsubscribeAnnounces, SetMax, Return
  <2>3. Onward
    BY <1>o, <2>1, <2>2
  <2> QED  BY <1>0, <2>1, <2>3, ReadOnlyMoves
<1>6. CASE ReadFails(e) \/ Close(e)
  <2>1. UNCHANGED <<ctrl, nextId>> /\ (conn = "down" => conn' = "down")
    BY <1>6 DEF ReadFails, Close
  <2>2. \A f \in Endpoints : failure'[f] = "none" => failure[f] = "none"
    BY <1>6, <1>t DEF ReadFails, Close, Return
  <2>3. Onward /\ News
    BY <1>o, <2>1, <2>2, QuietFlight
  <2>4. ASSUME NEW f \in Endpoints, NEW i \in Ids PROVE PairStep(f, i)
    <3>1. AskSame(f, i) /\ TellSame(f, i) /\ OutSame(f, i) /\ InSame(f, i)
      BY <1>0 DEF AskSame, TellSame, OutSame, InSame
    <3> QED  BY <2>1, <3>1, LeftAlone, QuietFlight
  <2> QED  BY <2>3, <2>4 DEF Moves
<1>7. CASE RequestBlocked(e)
  <2> DEFINE m == LimitMsg("REQUESTS_BLOCKED", maxId[e])
  <2>0. maxId[e] \in Nat
    BY DEF Types, ControlTypes
  <2>1. m \in Message /\ m.type \in PlainMsgs
    BY <2>0, ControlAssumption, MsgType DEF MessageTypes, LimitMsg, Message, Ids, PlainMsgs
  <2>2. Onward
    BY <1>7, <1>o DEF RequestBlocked
  <2>3. Write(e, m)
    BY <1>7 DEF RequestBlocked
  <2> HIDE DEF m
  <2> QED  BY <1>0, <2>1, <2>2, <2>3, PlainMsg, WriteOnlyMoves
<1> QED  BY <1>1, <1>2, <1>3, <1>4, <1>5, <1>6, <1>7 DEF ControlReads

\* A step that leaves the IDs, the readers and the connection alone undoes nothing.
LEMMA StillOnward ==
    ASSUME Types, UNCHANGED <<nextId, failure, conn>>,
           \A f \in Endpoints : made[f] \subseteq made'[f]
    PROVE  Onward
BY DEF Onward, Lost, Types, ControlTypes

\* A step that touches neither requests nor channels.
LEMMA QuietMoves ==
    ASSUME Onward, UNCHANGED ctrl,
           UNCHANGED <<outPending, outAnnounced, inPending, inAnnounced, prefixes, ask, tell>>
    PROVE  Moves
<1>1. ASSUME NEW f \in Endpoints, NEW i \in Ids PROVE PairStep(f, i)
  <2>1. AskSame(f, i) /\ TellSame(f, i) /\ OutSame(f, i) /\ InSame(f, i)
    BY DEF AskSame, TellSame, OutSame, InSame
  <2> QED  BY <2>1, LeftAlone, QuietFlight
<1> QED  BY <1>1, QuietFlight DEF Moves

\* BeginAsk files a request under a new ID.
LEMMA BeginMoves ==
    ASSUME Types, RequestInv, NEW x \in Endpoints, NEW kind \in AskKinds, NEW ns \in Namespaces,
           BeginAsk(x, kind, ns)
    PROVE  Moves
<1> DEFINE id == nextId[x]
<1>0. DrawId(x) /\ nextId \in [Endpoints -> Nat]
  BY Zenon DEF BeginAsk, Types, ControlTypes
<1>1. id \in Ids
  BY <1>0, ControlAssumption DEF DrawId, Ids
<1>2. nextId'[x] = id + 2 /\ \A f \in Endpoints : nextId[f] <= nextId'[f]
  BY <1>0 DEF DrawId, NextIdAfterDraw
<1>3. UNCHANGED <<ctrl, failure, conn, outAnnounced, inPending, inAnnounced, tell, made>>
  BY DEF BeginAsk
<1>4. Onward
  BY <1>2, <1>3 DEF Onward, Lost
<1>5. PairInv(x, id)
  BY <1>1 DEF RequestInv
<1>6. ask[x][id].kind = "none"
  BY <1>5, <1>1 DEF PairInv, Ids
<1>7. ask[x][id].kind # "announce" => id \notin outPending[x]
  BY <1>5 DEF PairInv
<1>8. ask[x][id].kind # "subscribeAnnouncements" => id \notin prefixes[x]
  BY <1>5 DEF PairInv
<1>9. id \notin outPending[x] /\ id \notin prefixes[x]
  BY <1>6, <1>7, <1>8
<1>10. ASSUME NEW f \in Endpoints, NEW i \in Ids PROVE PairStep(f, i)
  <2>1. TellSame(f, i) /\ InSame(f, i) /\ FlightShrinks(f, i)
    BY <1>3, QuietFlight DEF TellSame, InSame
  <2>2. CASE f = x /\ i = id
    <3>1. /\ ask'[x][id].kind = kind /\ ask'[x][id].call = "begun" /\ ask'[x][id].resp = "empty"
      BY <1>1 DEF BeginAsk, Types, RequestTypes, Asks, Ask, NoAsk
    <3>2. id \in outPending'[x] <=> kind = "announce"
      BY <1>1, <1>9 DEF BeginAsk, Types, MapTypes
    <3>3. id \in prefixes'[x] <=> kind = "subscribeAnnouncements"
      BY <1>1, <1>9 DEF BeginAsk, Types, MapTypes
    <3>4. id < nextId'[x]
      BY <1>2, <1>1 DEF Ids
    <3> QED  BY <1>3, <2>1, <2>2, <3>1, <3>2, <3>3, <3>4 DEF PairStep, Begin
  <2>3. CASE ~(f = x /\ i = id)
    <3>1. ask'[f][i] = ask[f][i]
      BY <1>1, <2>3 DEF BeginAsk, Types, RequestTypes, Asks
    <3>2. OutSame(f, i)
      BY <1>1, <2>3 DEF BeginAsk, Types, MapTypes, OutSame
    <3> QED  BY <2>1, <3>1, <3>2, LeftAlone DEF AskSame
  <2> QED  BY <2>2, <2>3
<1> QED  BY <1>3, <1>4, <1>10, QuietFlight DEF Moves

\* WriteAsk writes the request, or forgets it.
LEMMA WriteAskMoves ==
    ASSUME Types, RequestInv, NEW x \in Endpoints, NEW id \in Ids, WriteAsk(x, id)
    PROVE  Moves
<1> DEFINE kind == ask[x][id].kind
           ns == ask[x][id].ns
<1>t. ask \in Asks /\ conn \in {"up", "down"} /\ ask[x][id].call = "begun"
  BY DEF Types, RequestTypes, ControlTypes, WriteAsk
<1>0. kind \in AskKinds /\ ns \in Nat
  BY <1>t, AskSteps DEF Types, RequestTypes
<1>u. UNCHANGED <<nextId, failure, conn, outAnnounced, inPending, inAnnounced, tell, made>>
  BY DEF WriteAsk
<1>1. Onward
  BY <1>u, StillOnward
<1>2. \A f \in Endpoints, i \in Ids : TellSame(f, i) /\ InSame(f, i)
  BY <1>u DEF TellSame, InSame
<1>3. \A f \in Endpoints, i \in Ids : ~(f = x /\ i = id) => AskSame(f, i) /\ OutSame(f, i)
  <2>1. \A f \in Endpoints, i \in Ids : ~(f = x /\ i = id) => AskSame(f, i)
    BY <1>t DEF WriteAsk, Asks, AskSame
  <2>2. \A f \in Endpoints, i \in Ids : ~(f = x /\ i = id) => OutSame(f, i)
    BY DEF WriteAsk, Types, MapTypes, OutSame
  <2> QED  BY <2>1, <2>2
<1>4. /\ ask'[x][id].kind = kind /\ ask'[x][id].ns = ns /\ ask'[x][id].resp = ask[x][id].resp
      /\ ask'[x][id].call = IF conn = "down" THEN "unsent" ELSE "waiting"
  BY <1>t DEF WriteAsk, WriteFails, Asks, Ask
<1>5. CASE conn = "down"
  <2>1. UNCHANGED ctrl
    BY <1>5 DEF WriteAsk, Write, Written, Types, ControlTypes
  <2>2. id \in outPending'[x] => id \in outPending[x]
    BY DEF WriteAsk, Types, MapTypes
  <2>3. id \in prefixes'[x] => id \in prefixes[x]
    BY DEF WriteAsk, Types, MapTypes
  <2>4. NotSent(x, id)
    BY <1>t, <1>u, <1>2, <1>4, <1>5, <2>1, <2>2, <2>3, QuietFlight DEF NotSent
  <2>5. \A f \in Endpoints, i \in Ids : PairStep(f, i)
    BY <1>2, <1>3, <2>1, <2>4, QuietFlight, LeftAlone DEF PairStep
  <2> QED  BY <1>1, <2>1, <2>5, QuietFlight DEF Moves
<1>6. ASSUME conn = "up", NEW m, m = NsMsg(AskType[kind], WireId(kind, id), ns) PROVE Moves
  <2>1. OutSame(x, id)
    BY <1>6 DEF WriteAsk, WriteFails, Types, MapTypes, OutSame
  <2>2. m.type = AskType[kind] /\ m.id = WireId(kind, id) /\ m.val = ns
    BY <1>6 DEF NsMsg
  <2>3. m \in Message
    <3>1. AskType[kind] \in MessageTypes
      BY <1>0 DEF AskType, AskKinds, MessageTypes
    <3>2. WireId(kind, id) \in Ids
      BY ControlAssumption DEF WireId, Ids
    <3> QED  BY <1>0, <1>6, <3>1, <3>2, NsMsgType
  <2>4. Write(x, m)
    BY <1>6 DEF WriteAsk
  <2>5. /\ m.type \notin AnswerMsgs
        /\ m.type \in AskMsgs => m.id = id
        /\ m.type \in AskMsgs \/ (m.type = "TRACK_STATUS_REQUEST" /\ kind = "trackStatus")
    BY <1>0, <2>2 DEF AskType, AskKinds, AskMsgs, AnswerMsgs, WireId
  <2>6. ~Asked(x, id)
    BY <1>t, SentFacts DEF RequestInv, Unwritten
  <2>7. /\ \A f \in Endpoints, i \in Ids :
             /\ AnswersShrink(f, i) /\ OkKept(f, i)
             /\ ~(f = x /\ i = id) => AskedShrinks(f, i)
        /\ Once(ctrl'[Peer(x)], AskMsgs, id)
        /\ \A f \in Endpoints : \A j \in 1 .. Len(ctrl'[f]) :
             Old(ctrl[f], ctrl'[f][j]) \/ (f = Peer(x) /\ ctrl'[f][j] = m)
    BY <2>3, <2>4, <2>5, <2>6, WriteFlight
  <2>8. Send(x, id)
    BY <1>t, <1>2, <1>4, <1>6, <2>1, <2>7 DEF Send
  <2>9. \A f \in Endpoints, i \in Ids : PairStep(f, i)
    BY <1>2, <1>3, <2>7, <2>8, LeftAlone DEF PairStep, FlightShrinks
  <2>10. MsgInv(Peer(x), m)'
    <3>1. Peer(Peer(x)) = x
      BY PeerType
    <3>2. ask'[x][id].call = "waiting" /\ kind # "none"
      BY <1>0, <1>4, <1>6 DEF AskKinds
    <3>3. m.type \in AskMsgs =>
            /\ ask'[x][m.id].kind # "none" /\ m.type = AskType[ask'[x][m.id].kind]
            /\ m.val = ask'[x][m.id].ns
            /\ ask'[x][m.id].call \notin Unwritten
      BY <1>4, <2>2, <2>5, <3>2 DEF Unwritten
    <3>4. m.type = "TRACK_STATUS_REQUEST" =>
            \E i \in Ids : ask'[x][i].kind = "trackStatus" /\ ask'[x][i].ns = m.val
      BY <1>4, <2>2, <2>5 DEF AskMsgs
    <3> QED  BY <2>5, <3>1, <3>3, <3>4 DEF MsgInv, AskMsgs, AnswerMsgs
  <2> QED  BY <1>1, <2>3, <2>7, <2>9, <2>10 DEF Moves, News
<1> QED  BY <1>t, <1>5, <1>6

\* The call returns.
LEMMA FinishMoves ==
    ASSUME Types, NEW x \in Endpoints, NEW id \in Ids, ReturnAnswer(x, id) \/ GiveUp(x, id)
    PROVE  Moves
<1>t. ask \in Asks /\ ask[x][id].call = "waiting"
  BY DEF Types, RequestTypes, ReturnAnswer, GiveUp
<1>u. UNCHANGED <<nextId, failure, conn, ctrl, outPending, outAnnounced, inPending, inAnnounced,
                  prefixes, tell, made>>
  BY DEF ReturnAnswer, GiveUp, controlVars
<1>1. Onward
  BY <1>u, StillOnward
<1>2. \A f \in Endpoints, i \in Ids :
        TellSame(f, i) /\ InSame(f, i) /\ OutSame(f, i) /\ FlightShrinks(f, i)
  BY <1>u, QuietFlight DEF TellSame, InSame, OutSame
<1>3. CASE ReturnAnswer(x, id)
  <2>1. \A f \in Endpoints, i \in Ids : ~(f = x /\ i = id) => AskSame(f, i)
    BY <1>t, <1>3 DEF ReturnAnswer, Asks, AskSame
  <2>2. Finish(x, id)
    BY <1>t, <1>2, <1>3 DEF ReturnAnswer, Asks, Ask, Finish
  <2> QED  BY <1>u, <1>1, <1>2, <2>1, <2>2, LeftAlone, QuietFlight DEF Moves, PairStep
<1>4. CASE GiveUp(x, id)
  <2>1. \A f \in Endpoints, i \in Ids : ~(f = x /\ i = id) => AskSame(f, i)
    BY <1>t, <1>4 DEF GiveUp, Asks, AskSame
  <2>2. Finish(x, id)
    BY <1>t, <1>2, <1>4 DEF GiveUp, Asks, Ask, Finish
  <2> QED  BY <1>u, <1>1, <1>2, <2>1, <2>2, LeftAlone, QuietFlight DEF Moves, PairStep
<1> QED  BY <1>3, <1>4

\* A call that withdraws something is remembered.
LEMMA WithdrawFacts ==
    ASSUME Types, NEW x \in Endpoints, NEW call, NEW ns, Withdraw(x, call, ns)
    PROVE  <<call, ns>> \in made'[x] /\ \A f \in Endpoints : made[f] \subseteq made'[f]
BY DEF Withdraw, Types, MapTypes

\* Unannounce and the write that follows it.
LEMMA UnannounceMoves ==
    ASSUME Types, NEW x \in Endpoints, EndInv(x), NEW ns \in Namespaces,
           Unannounce(x, ns) \/ WriteUnannounce(x, ns)
    PROVE  Moves
<1>1. CASE Unannounce(x, ns)
  <2>u. UNCHANGED <<nextId, failure, conn, ctrl, inPending, inAnnounced, prefixes, ask, tell>>
    BY <1>1 DEF Unannounce, controlVars
  <2>w. <<"unannounce", ns>> \in made'[x] /\ \A f \in Endpoints : made[f] \subseteq made'[f]
    BY <1>1, WithdrawFacts DEF Unannounce
  <2>1. Onward
    BY <2>u, <2>w, StillOnward
  <2>2. ASSUME NEW f \in Endpoints, NEW i \in Ids PROVE OutShrinks(f, i)
    <3>1. /\ i \in outPending'[f] => i \in outPending[f]
          /\ i \in outAnnounced'[f] => i \in outAnnounced[f]
      BY <1>1 DEF Unannounce, Types, MapTypes
    <3>2. \/ i \in outPending[f] /\ i \notin outPending'[f]
          \/ i \in outAnnounced[f] /\ i \notin outAnnounced'[f]
          => f = x /\ i \in OutMatches(x, ns)
      BY <1>1 DEF Unannounce, Types, MapTypes
    <3>3. i \in OutMatches(x, ns) => ask[x][i].ns = ns
      BY DEF OutMatches
    <3>4. f = x /\ i \in OutMatches(x, ns) => Unannounced(f, i)'
      BY <2>u, <2>w, <3>3 DEF Unannounced
    <3> QED  BY <2>u, <3>1, <3>2, <3>4 DEF OutShrinks
  <2>3. \A f \in Endpoints, i \in Ids : Rest(f, i)
    BY <2>u, <2>2, QuietFlight DEF Rest, AskSame, TellSame, InShrinks
  <2> QED  BY <2>u, <2>1, <2>3, QuietFlight DEF Moves, PairStep
<1>2. ASSUME WriteUnannounce(x, ns), NEW m, m = NsMsg("UNANNOUNCE", 0, ns) PROVE Moves
  <2>u. UNCHANGED <<nextId, failure, conn, outPending, outAnnounced, inPending, inAnnounced,
                    prefixes, ask, tell, made>>
    BY <1>2 DEF WriteUnannounce
  <2>1. Onward
    BY <2>u, StillOnward
  <2>2. m.type = "UNANNOUNCE" /\ m.val = ns
    BY <1>2 DEF NsMsg
  <2>3. m \in Message
    BY <1>2, ControlAssumption, NamespaceAssumption, NsMsgType DEF Ids, MessageTypes
  <2>4. <<"unannounce", ns>> \in made[x]
    BY <1>2 DEF EndInv, WriteUnannounce
  <2>5. MsgInv(Peer(x), m)'
    BY <2>u, <2>2, <2>4, PeerType DEF MsgInv, AskMsgs, AnswerMsgs
  <2>6. Write(x, m)
    BY <1>2 DEF WriteUnannounce
  <2>7. m.type \notin AskMsgs /\ m.type \notin AnswerMsgs
    BY <2>2 DEF AskMsgs, AnswerMsgs
  <2> QED  BY <2>u, <2>1, <2>3, <2>5, <2>6, <2>7, WriteOnlyMoves
<1> QED  BY <1>1, <1>2

\* AnnounceCancel and UnsubscribeAnnouncements.
LEMMA CancelMoves ==
    ASSUME Types, RequestInv, NEW x \in Endpoints, NEW ns \in Namespaces,
           AnnounceCancel(x, ns) \/ UnsubscribeAnnouncements(x, ns)
    PROVE  Moves
<1>p. Peer(x) \in Endpoints /\ Peer(Peer(x)) = x /\ Peer(x) # x
  BY PeerType
<1>c. \A f \in Endpoints : f = x \/ Peer(f) = x
  BY DEF Endpoints, Client, Server, Peer
<1>1. ASSUME AnnounceCancel(x, ns), NEW m, m = NsMsg("ANNOUNCE_CANCEL", 0, ns) PROVE Moves
  <2>u. UNCHANGED <<nextId, failure, conn, outPending, outAnnounced, prefixes, ask, tell>>
    BY <1>1 DEF AnnounceCancel
  <2>w. <<"announceCancel", ns>> \in made'[x] /\ \A f \in Endpoints : made[f] \subseteq made'[f]
    BY <1>1, WithdrawFacts DEF AnnounceCancel
  <2>1. Onward
    BY <2>u, <2>w, StillOnward
  <2>2. m.type = "ANNOUNCE_CANCEL" /\ m.val = ns
    BY <1>1 DEF NsMsg
  <2>3. m \in Message
    BY <1>1, ControlAssumption, NamespaceAssumption, NsMsgType DEF Ids, MessageTypes
  <2>4. MsgInv(Peer(x), m)'
    BY <1>p, <2>2, <2>w DEF MsgInv, AskMsgs, AnswerMsgs
  <2>5. Write(x, m)
    BY <1>1 DEF AnnounceCancel
  <2>6. m.type \notin AskMsgs /\ m.type \notin AnswerMsgs
    BY <2>2 DEF AskMsgs, AnswerMsgs
  <2>7. ASSUME NEW f \in Endpoints, NEW i \in Ids PROVE InShrinks(f, i)
    <3> DEFINE p == Peer(f)
    <3>0. p \in Endpoints
      BY PeerType
    <3>1. /\ i \in inPending'[p] => i \in inPending[p]
          /\ i \in inAnnounced'[p] => i \in inAnnounced[p]
      BY <1>1, <3>0 DEF AnnounceCancel, Types, MapTypes
    <3>2. i \in inAnnounced[p] /\ i \notin inAnnounced'[p] => p = x /\ i \in InMatches(x, ns)
      BY <1>1, <3>0 DEF AnnounceCancel, Types, MapTypes
    <3>3. i \in InMatches(x, ns) => tell[x][i].ns = ns
      BY DEF InMatches
    <3>4. i \in inAnnounced[p] => tell[p][i].kind = "announce" /\ tell[p][i].ns = ask[f][i].ns
      BY DEF RequestInv, PairInv
    <3>5. i \in inAnnounced[p] /\ i \notin inAnnounced'[p] => Cancelled(f, i)'
      BY <2>u, <2>w, <3>2, <3>3, <3>4 DEF Cancelled
    <3> QED  BY <3>1, <3>5 DEF InShrinks
  <2>8. ASSUME NEW f \in Endpoints, NEW i \in Ids PROVE PairStep(f, i)
    <3>1. AskedShrinks(f, i) /\ AnswersShrink(f, i) /\ OkKept(f, i)
      BY <2>3, <2>5, <2>6, WriteFlight
    <3>2. AskSame(f, i) /\ TellSame(f, i) /\ OutShrinks(f, i)
      BY <2>u DEF AskSame, TellSame, OutShrinks
    <3> QED  BY <2>7, <3>1, <3>2 DEF PairStep, Rest, FlightShrinks
  <2>9. News
    BY <2>3, <2>4, <2>5, WriteFlight DEF News
  <2> QED  BY <2>1, <2>8, <2>9 DEF Moves
<1>2. ASSUME UnsubscribeAnnouncements(x, ns),
             NEW m, m = NsMsg("UNSUBSCRIBE_ANNOUNCES", 0, ns)
      PROVE  Moves
  <2>u. UNCHANGED <<nextId, failure, conn, outPending, outAnnounced, inPending, inAnnounced,
                    ask, tell>>
    BY <1>2 DEF UnsubscribeAnnouncements
  <2>w. /\ <<"unsubscribeAnnouncements", ns>> \in made'[x]
        /\ \A f \in Endpoints : made[f] \subseteq made'[f]
    BY <1>2, WithdrawFacts DEF UnsubscribeAnnouncements
  <2>1. Onward
    BY <2>u, <2>w, StillOnward
  <2>2. m.type \in PlainMsgs
    BY <1>2 DEF NsMsg, PlainMsgs
  <2>3. m \in Message
    BY <1>2, ControlAssumption, NamespaceAssumption, NsMsgType DEF Ids, MessageTypes
  <2>4. MsgInv(Peer(x), m)' /\ m.type \notin AskMsgs /\ m.type \notin AnswerMsgs
    BY <2>2, PlainMsg
  <2>5. Write(x, m)
    BY <1>2 DEF UnsubscribeAnnouncements
  <2>6. ASSUME NEW f \in Endpoints, NEW i \in Ids PROVE OutShrinks(f, i)
    <3>1. i \in prefixes'[f] => i \in prefixes[f]
      BY <1>2 DEF UnsubscribeAnnouncements, Types, MapTypes
    <3>2. i \in prefixes[f] /\ i \notin prefixes'[f] => f = x /\ i \in PrefixMatches(x, ns)
      BY <1>2 DEF UnsubscribeAnnouncements, Types, MapTypes
    <3>3. f = x /\ i \in PrefixMatches(x, ns) => Unsubscribed(f, i)'
      BY <2>u, <2>w DEF PrefixMatches, Unsubscribed
    <3> QED  BY <2>u, <3>1, <3>2, <3>3 DEF OutShrinks
  <2>7. ASSUME NEW f \in Endpoints, NEW i \in Ids PROVE PairStep(f, i)
    <3>1. AskedShrinks(f, i) /\ AnswersShrink(f, i) /\ OkKept(f, i)
      BY <2>3, <2>4, <2>5, WriteFlight
    <3>2. AskSame(f, i) /\ TellSame(f, i) /\ InShrinks(f, i)
      BY <2>u DEF AskSame, TellSame, InShrinks
    <3> QED  BY <2>6, <3>1, <3>2 DEF PairStep, Rest, FlightShrinks
  <2>8. News
    BY <2>3, <2>4, <2>5, WriteFlight DEF News
  <2> QED  BY <2>1, <2>7, <2>8 DEF Moves
<1> QED  BY <1>1, <1>2

\* The message that a reader takes is true of its sender.
LEMMA HeadInv ==
    ASSUME Types, RequestInv, NEW x \in Endpoints, ctrl[x] # << >>
    PROVE  MsgInv(x, Head(ctrl[x]))
<1>1. ctrl[x] \in Seq(Message)
  BY DEF Types, ControlTypes
<1>2. Head(ctrl[x]) = ctrl[x][1] /\ 1 \in 1 .. Len(ctrl[x])
  BY <1>1, TailElements
<1> QED  BY <1>2 DEF RequestInv, FlightInv

\* OnUnannounce forgets what its announcer has withdrawn.
LEMMA OnUnannounceMoves ==
    ASSUME Types, RequestInv, NEW x \in Endpoints, OnUnannounce(x)
    PROVE  Moves
<1> DEFINE m == Head(ctrl[x])
<1>0. ctrl[x] # << >> /\ m.type = "UNANNOUNCE" /\ Consume(x)
  BY DEF OnUnannounce, Reading, NextIs
<1>u. UNCHANGED <<nextId, failure, conn, outPending, outAnnounced, prefixes, ask, tell, made>>
  BY DEF OnUnannounce
<1>1. Onward
  BY <1>u, StillOnward
<1>2. <<"unannounce", m.val>> \in made[Peer(x)]
  BY <1>0, HeadInv DEF MsgInv
<1>3. ASSUME NEW f \in Endpoints, NEW i \in Ids PROVE InShrinks(f, i)
  <2> DEFINE p == Peer(f)
  <2>0. p \in Endpoints /\ Peer(p) = f
    BY PeerType
  <2>1. /\ i \in inPending'[p] => i \in inPending[p]
        /\ i \in inAnnounced'[p] => i \in inAnnounced[p]
    BY <2>0 DEF OnUnannounce, Types, MapTypes
  <2>2. i \in inAnnounced[p] /\ i \notin inAnnounced'[p] => p = x /\ i \in InMatches(x, m.val)
    BY <2>0 DEF OnUnannounce, Types, MapTypes
  <2>3. i \in InMatches(x, m.val) => tell[x][i].ns = m.val
    BY DEF InMatches
  <2>4. i \in inAnnounced[p] => tell[p][i].kind = "announce" /\ tell[p][i].ns = ask[f][i].ns
    BY DEF RequestInv, PairInv
  <2>5. i \in inAnnounced[p] /\ i \notin inAnnounced'[p] => Unannounced(f, i)'
    BY <1>u, <1>2, <2>0, <2>2, <2>3, <2>4 DEF Unannounced
  <2> QED  BY <2>1, <2>5 DEF InShrinks
<1>4. ASSUME NEW f \in Endpoints, NEW i \in Ids PROVE PairStep(f, i)
  <2>0. m.type \notin OkMsgs
    BY <1>0 DEF OkMsgs
  <2>1. AskedShrinks(f, i) /\ AnswersShrink(f, i) /\ OkKept(f, i)
    BY <1>0, <2>0, ReadFlight
  <2>2. AskSame(f, i) /\ TellSame(f, i) /\ OutShrinks(f, i)
    BY <1>u DEF AskSame, TellSame, OutShrinks
  <2> QED  BY <1>3, <2>1, <2>2 DEF PairStep, Rest, FlightShrinks
<1>5. News
  BY <1>0, ReadFlight DEF News
<1> QED  BY <1>1, <1>4, <1>5 DEF Moves

\* OnAnnounce and OnSubscribeAnnounces admit a request.
LEMMA OnAskMoves ==
    ASSUME Types, RequestInv, NEW x \in Endpoints,
           NEW kind \in {"announce", "subscribeAnnouncements"}, OnAsk(x, kind)
    PROVE  Moves
<1> SUFFICES ASSUME NEW m, m = Head(ctrl[x]), NEW id, id = m.id PROVE Moves
  OBVIOUS
<1> DEFINE p == Peer(x)
<1>0. ctrl[x] # << >> /\ m.type = AskType[kind] /\ Consume(x)
  BY DEF OnAsk, Reading, NextIs
<1>p. p \in Endpoints /\ Peer(p) = x
  BY PeerType
<1>t. tell \in Tells /\ id \in Ids /\ m.val \in Nat
  BY <1>0, HeadType DEF Types, RequestTypes, ControlTypes
<1>u. UNCHANGED <<nextId, failure, conn, outPending, outAnnounced, inAnnounced, prefixes, ask, made>>
  BY DEF OnAsk
<1>1. Onward
  BY <1>u, StillOnward
<1>2. m.type \in AskMsgs /\ m.type \notin OkMsgs
  BY <1>0 DEF AskType, AskMsgs, OkMsgs
<1>3. /\ ask[p][id].kind # "none" /\ AskType[kind] = AskType[ask[p][id].kind]
      /\ m.val = ask[p][id].ns /\ ask[p][id].call \notin Unwritten
  BY <1>0, <1>2, HeadInv DEF MsgInv
<1>4. ask[p][id].kind \in AskKinds
  <2>1. ask \in Asks
    BY DEF Types, RequestTypes
  <2> QED  BY <1>p, <1>t, <1>3, <2>1, AskSteps
<1>5. ask[p][id].kind = kind
  BY <1>3, <1>4 DEF AskType, AskKinds
<1>6. /\ \A f \in Endpoints, i \in Ids :
           AskedShrinks(f, i) /\ AnswersShrink(f, i) /\ OkKept(f, i)
      /\ Asked(p, id) /\ (Once(ctrl[x], AskMsgs, id) => ~Asked(p, id)')
  BY <1>0, <1>2, <1>t, ReadFlight
<1>7. Once(ctrl[x], AskMsgs, id) /\ (id \in inPending[x] => tell[x][id].kind = "announce")
      /\ tell[x][id].kind = "none"
  BY <1>p, <1>t, <1>6 DEF RequestInv, PairInv
<1>8. /\ tell'[x][id].kind = kind /\ tell'[x][id].ns = m.val /\ ~tell'[x][id].accepting
      /\ tell'[x][id].oks = 0 /\ tell'[x][id].errors = 0
  BY <1>t DEF OnAsk, Tells, Tell, NoTell
<1>9. id \in inPending'[x] => kind = "announce"
  BY <1>t, <1>7 DEF OnAsk, Types, MapTypes
<1>10. Admit(p, id)
  BY <1>p, <1>u, <1>3, <1>5, <1>6, <1>7, <1>8, <1>9, <1>t DEF Admit, AskSame, OutSame, FlightShrinks
<1>11. ASSUME NEW f \in Endpoints, NEW i \in Ids, ~(f = p /\ i = id) PROVE PairStep(f, i)
  <2>1. Peer(f) \in Endpoints /\ (Peer(f) = x => f = p)
    BY PeerType
  <2>2. tell'[Peer(f)][i] = tell[Peer(f)][i]
    BY <1>11, <1>t, <2>1 DEF OnAsk, Tells
  <2>3. InSame(f, i)
    BY <1>11, <1>t, <1>u, <2>1 DEF OnAsk, Types, MapTypes, InSame
  <2> QED  BY <1>u, <1>6, <2>2, <2>3, LeftAlone DEF AskSame, TellSame, OutSame, FlightShrinks
<1>12. \A f \in Endpoints, i \in Ids : PairStep(f, i)
  BY <1>10, <1>11 DEF PairStep
<1>13. News
  BY <1>0, ReadFlight DEF News
<1> QED  BY <1>1, <1>12, <1>13 DEF Moves

\* A channel that loses or gains a message of another type.
LEMMA ChannelKept ==
    ASSUME NEW q \in Seq(Message), NEW r, NEW T, NEW i,
           \/ q # << >> /\ r = Tail(q) /\ Head(q).type \notin T
           \/ \E m \in Message : m.type \notin T /\ r = Append(q, m)
           \/ r = q
    PROVE  (Has(r, T, i) <=> Has(q, T, i)) /\ (Once(q, T, i) => Once(r, T, i))
<1>1. CASE q # << >> /\ r = Tail(q) /\ Head(q).type \notin T
  BY <1>1, HasTail
<1>2. ASSUME NEW m \in Message, m.type \notin T, r = Append(q, m)
      PROVE  (Has(r, T, i) <=> Has(q, T, i)) /\ (Once(q, T, i) => Once(r, T, i))
  BY <1>2, HasAppend
<1> QED  BY <1>1, <1>2

\* OnTrackStatusRequest reads a request and writes an answer.
LEMMA StatusMoves ==
    ASSUME Types, RequestInv, NEW x \in Endpoints, OnTrackStatusRequest(x)
    PROVE  Moves
<1> SUFFICES ASSUME NEW m, m = Msg("TRACK_STATUS", 0) PROVE Moves
  OBVIOUS
<1> DEFINE p == Peer(x)
<1>p. p \in Endpoints /\ Peer(p) = x /\ p # x /\ \A f \in Endpoints : f = x \/ f = p
  BY PeerType DEF Endpoints, Client, Server, Peer
<1>u. UNCHANGED <<nextId, conn, outPending, outAnnounced, inPending, inAnnounced, prefixes, ask,
                  tell, made>>
  BY DEF OnTrackStatusRequest
<1>t. ctrl[x] \in Seq(Message) /\ ctrl[p] \in Seq(Message)
  BY <1>p DEF Types, ControlTypes
<1>0. ctrl[x] # << >> /\ Head(ctrl[x]).type = "TRACK_STATUS_REQUEST"
  BY DEF OnTrackStatusRequest, Reading, NextIs
<1>1. Onward
  <2>1. \A f \in Endpoints : failure'[f] = "none" => failure[f] = "none"
    BY DEF OnTrackStatusRequest, Return, Types, ControlTypes
  <2> QED  BY <1>u, <2>1 DEF Onward, Lost, Types, ControlTypes
<1>2. m \in Message /\ m.type = "TRACK_STATUS" /\ m.id = 0
  BY ControlAssumption DEF Msg, Message, MessageTypes, Ids
<1>3. ctrl'[x] = Tail(ctrl[x]) /\ (ctrl'[p] = Append(ctrl[p], m) \/ ctrl'[p] = ctrl[p])
  BY <1>p DEF OnTrackStatusRequest, ConsumeAndLeave, Written, Types, ControlTypes
<1>4. ASSUME NEW T \in {AskMsgs, AnswerMsgs, OkMsgs}, NEW g \in Endpoints, NEW i \in Ids
      PROVE  (Has(ctrl'[g], T, i) <=> Has(ctrl[g], T, i)) /\ (Once(ctrl[g], T, i) => Once(ctrl'[g], T, i))
  <2>1. "TRACK_STATUS" \notin T /\ "TRACK_STATUS_REQUEST" \notin T
    BY DEF AskMsgs, AnswerMsgs, OkMsgs
  <2>2. CASE g = x
    BY <1>t, <1>0, <1>3, <2>1, <2>2, ChannelKept
  <2>3. CASE g = p
    BY <1>t, <1>2, <1>3, <2>1, <2>3, ChannelKept
  <2> QED  BY <1>p, <2>2, <2>3
<1>5. ASSUME NEW f \in Endpoints, NEW i \in Ids PROVE PairStep(f, i)
  <2>1. Peer(f) \in Endpoints
    BY PeerType
  <2>2. FlightShrinks(f, i)
    BY <1>4, <2>1 DEF FlightShrinks, AskedShrinks, AnswersShrink, OkKept, Asked, AnswerSent, OkSent
  <2> QED  BY <1>u, <2>2, LeftAlone DEF AskSame, TellSame, OutSame, InSame
<1>6. MsgInv(p, m)'
  <2>1. \E i \in Ids : ask[p][i].kind = "trackStatus"
    BY <1>0, HeadInv DEF MsgInv
  <2>2. (StatusRequests(p) # {})'
    BY <1>u, <2>1 DEF StatusRequests
  <2> QED  BY <1>2, <2>2 DEF MsgInv, AskMsgs, AnswerMsgs
<1>7. \A j \in 1 .. Len(ctrl'[x]) : Old(ctrl[x], ctrl'[x][j])
  <2>1. \A j \in 1 .. Len(ctrl'[x]) : j + 1 \in 1 .. Len(ctrl[x]) /\ ctrl'[x][j] = ctrl[x][j + 1]
    BY <1>t, <1>0, <1>3, TailElements
  <2> QED  BY <2>1 DEF Old
<1>8. \A j \in 1 .. Len(ctrl'[p]) : Old(ctrl[p], ctrl'[p][j]) \/ ctrl'[p][j] = m
  <2>1. CASE ctrl'[p] = Append(ctrl[p], m)
    <3>1. \A j \in 1 .. Len(ctrl'[p]) :
            (j \in 1 .. Len(ctrl[p]) /\ ctrl'[p][j] = ctrl[p][j]) \/ ctrl'[p][j] = m
      BY <1>t, <1>2, <2>1, AppendProperties
    <3> QED  BY <3>1 DEF Old
  <2>2. CASE ctrl'[p] = ctrl[p]
    BY <2>2 DEF Old
  <2> QED  BY <1>3, <2>1, <2>2
<1>9. News
  BY <1>p, <1>2, <1>6, <1>7, <1>8 DEF News
<1> QED  BY <1>1, <1>5, <1>9 DEF Moves

\* The answers of the peer reach the calls.
LEMMA AnswerMoves ==
    ASSUME Types, RequestInv, NEW x \in Endpoints,
           \/ OnAnnounceOk(x) \/ OnAnnounceError(x)
           \/ OnSubscribeAnnouncesOk(x) \/ OnSubscribeAnnouncesError(x)
           \/ OnTrackStatus(x)
    PROVE  Moves
<1> SUFFICES ASSUME NEW m, m = Head(ctrl[x]), NEW id, id = m.id PROVE Moves
  OBVIOUS
<1> DEFINE p == Peer(x)
<1> USE DEF OnSubscribeAnnouncesOk, OnSubscribeAnnouncesError
<1>0. ctrl[x] # << >> /\ Consume(x)
  BY DEF OnAnnounceOk, OnAnnounceError, OnPrefixAnswer, OnTrackStatus, Reading, NextIs
<1>u. UNCHANGED <<nextId, failure, conn, inPending, inAnnounced, tell, made>>
  BY DEF OnAnnounceOk, OnAnnounceError, OnPrefixAnswer, OnTrackStatus
<1>t. ask \in Asks /\ id \in Ids /\ ask[x] \in [Ids -> Ask] /\ ask[x][id] \in Ask
  BY <1>0, HeadType DEF Types, RequestTypes, ControlTypes, Asks
<1>1. Onward
  BY <1>u, StillOnward
<1>2. /\ \A f \in Endpoints, i \in Ids :
           /\ AskedShrinks(f, i) /\ AnswersShrink(f, i)
           /\ f # x \/ m.type \notin OkMsgs \/ id # i => OkKept(f, i)
      /\ m.type \in AnswerMsgs =>
           AnswerSent(x, id) /\ (Once(ctrl[x], AnswerMsgs, id) => ~AnswerSent(x, id)')
  BY <1>0, <1>t, ReadFlight
<1>3. \A f \in Endpoints, i \in Ids : TellSame(f, i) /\ InSame(f, i)
  BY <1>u DEF TellSame, InSame
<1>4. News
  BY <1>0, ReadFlight DEF News
<1>5. MsgInv(x, m) /\ PairInv(x, id)
  BY <1>0, <1>t, HeadInv DEF RequestInv
<1>a. PICK v : ask' = [ask EXCEPT ![x][id].resp = v]
  BY DEF OnAnnounceOk, OnAnnounceError, OnPrefixAnswer, OnTrackStatus
<1>6. /\ ask'[x][id].kind = ask[x][id].kind /\ ask'[x][id].ns = ask[x][id].ns
      /\ ask'[x][id].call = ask[x][id].call
  BY <1>a, <1>t DEF Asks, Ask
<1>7. \A f \in Endpoints, i \in Ids : ~(f = x /\ i = id) => AskSame(f, i)
  BY <1>a, <1>t DEF Asks, AskSame
<1>8. \A f \in Endpoints, i \in Ids : ~(f = x /\ i = id) => OutSame(f, i)
  <2> USE DEF Types, MapTypes, OutSame, PendingAfterConfirm, AnnouncedAfterConfirm
  <2>1. CASE OnAnnounceOk(x)
    BY <1>t, <2>1 DEF OnAnnounceOk
  <2>2. CASE OnAnnounceError(x)
    BY <1>t, <2>2 DEF OnAnnounceError
  <2>3. CASE OnSubscribeAnnouncesOk(x) \/ OnSubscribeAnnouncesError(x)
    <3>1. /\ prefixes' = [prefixes EXCEPT ![x] = prefixes[x] \ {id}]
          /\ UNCHANGED <<outPending, outAnnounced>>
      BY <2>3 DEF OnPrefixAnswer
    <3> QED  BY <1>t, <3>1
  <2>4. CASE OnTrackStatus(x)
    BY <2>4 DEF OnTrackStatus
  <2> QED  BY <2>1, <2>2, <2>3, <2>4
<1>9. Hear(x, id)
  BY <1>t, <1>2, <1>3, <1>6 DEF Hear
<1>10. \A f \in Endpoints, i \in Ids : ~(f = x /\ i = id) => PairStep(f, i)
  BY <1>2, <1>3, <1>7, <1>8, LeftAlone DEF FlightShrinks
<1>11. PairStep(x, id)
  <2>1. CASE OnAnnounceOk(x)
    <3>1. m.type = "ANNOUNCE_OK"
      BY <2>1 DEF OnAnnounceOk, Reading, NextIs
    <3>2. ask'[x][id].resp = AfterAnswer(ask[x][id].resp, "ok")
      BY <1>t, <2>1 DEF OnAnnounceOk, Asks, Ask
    <3>3. /\ id \in outPending[x] /\ id \notin outPending'[x] /\ id \in outAnnounced'[x]
          /\ id \in prefixes'[x] <=> id \in prefixes[x]
      BY <1>t, <2>1 DEF OnAnnounceOk, Types, MapTypes, PendingAfterConfirm,
         AnnouncedAfterConfirm
    <3>4. Kept(x, id)
      BY <1>5, <3>1 DEF MsgInv
    <3> QED  BY <1>2, <1>9, <3>1, <3>2, <3>3, <3>4 DEF PairStep, HearOk, AnswerMsgs
  <2>2. CASE OnAnnounceError(x)
    <3>1. m.type = "ANNOUNCE_ERROR"
      BY <2>2 DEF OnAnnounceError, Reading, NextIs
    <3>2. ask'[x][id].resp = AfterAnswer(ask[x][id].resp, "error")
      BY <1>t, <2>2 DEF OnAnnounceError, Asks, Ask
    <3>3. /\ id \in outPending[x] /\ id \notin outPending'[x]
          /\ id \in outAnnounced'[x] <=> id \in outAnnounced[x]
          /\ id \in prefixes'[x] <=> id \in prefixes[x]
      BY <1>t, <2>2 DEF OnAnnounceError, Types, MapTypes
    <3>4. tell[p][id].errors >= 1
      BY <1>5, <3>1 DEF MsgInv
    <3>5. OkKept(x, id)
      BY <1>t, <1>2, <3>1 DEF OkMsgs
    <3> QED  BY <1>2, <1>9, <3>1, <3>2, <3>3, <3>4, <3>5 DEF PairStep, HearError, AnswerMsgs
  <2>3. CASE OnSubscribeAnnouncesOk(x) \/ OnSubscribeAnnouncesError(x)
    <3>1. m.type \in {"SUBSCRIBE_ANNOUNCES_OK", "SUBSCRIBE_ANNOUNCES_ERROR"}
      BY <2>3 DEF OnPrefixAnswer, Reading, NextIs
    <3>2. /\ id \in prefixes[x] /\ id \notin prefixes'[x]
          /\ id \in outAnnounced'[x] <=> id \in outAnnounced[x]
          /\ id \in outPending'[x] <=> id \in outPending[x]
      BY <1>t, <2>3, ZenonT(40) DEF OnPrefixAnswer, Types, MapTypes
    <3>3. ask[x][id].kind = "subscribeAnnouncements"
      BY <1>5, <3>2 DEF PairInv
    <3>4. OkKept(x, id)
      BY <1>t, <1>2, <3>1 DEF OkMsgs
    <3> QED  BY <1>2, <1>9, <3>1, <3>2, <3>3, <3>4 DEF PairStep, HearOther, AnswerMsgs
  <2>4. CASE OnTrackStatus(x)
    <3>1. m.type = "TRACK_STATUS"
      BY <2>4 DEF OnTrackStatus, Reading, NextIs
    <3>2. ask[x][id].kind = "trackStatus"
      BY <2>4 DEF OnTrackStatus, StatusRequests
    <3>3. /\ id \in prefixes'[x] <=> id \in prefixes[x]
          /\ id \in outAnnounced'[x] <=> id \in outAnnounced[x]
          /\ id \in outPending'[x] <=> id \in outPending[x]
      BY <2>4 DEF OnTrackStatus
    <3>4. OkKept(x, id)
      BY <1>t, <1>2, <3>1 DEF OkMsgs
    <3> QED  BY <1>9, <3>2, <3>3, <3>4 DEF PairStep, HearOther
  <2> QED  BY <2>1, <2>2, <2>3, <2>4
<1> QED  BY <1>1, <1>4, <1>10, <1>11 DEF Moves

\* A response writer of x answers the request of its peer.
LEMMA ReplyMoves ==
    ASSUME Types, Onward, NEW x \in Endpoints, NEW id \in Ids, NEW m \in Message,
           Write(x, m), m.type \in AnswerMsgs, m.id = id, MsgInv(Peer(x), m)',
           tell[x][id].kind # "none",
           tell'[x][id].kind = tell[x][id].kind, tell'[x][id].ns = tell[x][id].ns,
           \/ tell'[x][id].oks = tell[x][id].oks + 1 /\ tell'[x][id].errors = tell[x][id].errors
           \/ tell'[x][id].oks = tell[x][id].oks /\ tell'[x][id].errors = tell[x][id].errors + 1,
           tell[x][id].handled => tell'[x][id].handled,
           \/ tell'[x][id].accepting = tell[x][id].accepting
           \/ ~tell'[x][id].accepting /\ m.type \in OkMsgs,
           \A f \in Endpoints, i \in Ids : ~(f = x /\ i = id) => tell'[f][i] = tell[f][i],
           UNCHANGED <<outPending, outAnnounced, inPending, inAnnounced, prefixes, ask, conn>>
    PROVE  Moves
<1> DEFINE p == Peer(x)
<1>p. p \in Endpoints /\ Peer(p) = x /\ p # x
  BY PeerType
<1>1. \A f \in Endpoints, i \in Ids : AskSame(f, i) /\ OutSame(f, i) /\ InSame(f, i)
  BY DEF AskSame, OutSame, InSame
<1>2. /\ \A f \in Endpoints, i \in Ids :
           /\ OkKept(f, i) /\ AskedShrinks(f, i)
           /\ ~(f = p /\ i = id) => AnswersShrink(f, i)
      /\ ~AnswerSent(p, id) => Once(ctrl'[p], AnswerMsgs, id)
      /\ m.type \in OkMsgs /\ conn = "up" => OkSent(p, id)'
  <2>1. m.type \notin AskMsgs
    BY DEF AskMsgs, AnswerMsgs
  <2> QED  BY <2>1, WriteFlight
<1>3. conn # "up" => Lost(p)'
  BY DEF Lost, Types, ControlTypes
<1>4. Reply(p, id)
  BY <1>p, <1>1, <1>2, <1>3 DEF Reply
<1>5. ASSUME NEW f \in Endpoints, NEW i \in Ids, ~(f = p /\ i = id) PROVE PairStep(f, i)
  <2>1. Peer(f) \in Endpoints /\ (Peer(f) = x => f = p)
    BY PeerType
  <2>2. TellSame(f, i)
    BY <1>5, <2>1 DEF TellSame
  <2> QED  BY <1>1, <1>2, <1>5, <2>2, LeftAlone DEF FlightShrinks
<1>6. News
  BY WriteFlight DEF News
<1> QED  BY <1>4, <1>5, <1>6 DEF Moves, PairStep

\* AcceptAnnouncement confirms an announcement if it is pending.
LEMMA AcceptMoves ==
    ASSUME Types, RequestInv, NEW x \in Endpoints, NEW id \in Ids, AcceptAnnouncement(x, id)
    PROVE  Moves
<1> DEFINE p == Peer(x)
<1>p. p \in Endpoints /\ Peer(p) = x /\ p # x
  BY PeerType
<1>t. tell \in Tells /\ tell[x] \in [Ids -> Tell] /\ tell[x][id] \in Tell
  BY DEF Types, RequestTypes, Tells
<1>u. UNCHANGED <<nextId, failure, conn, ctrl, outPending, outAnnounced, prefixes, ask, made>>
  BY DEF AcceptAnnouncement, controlVars
<1>1. Onward
  BY <1>u, StillOnward
<1>2. \A f \in Endpoints, i \in Ids : AskSame(f, i) /\ OutSame(f, i) /\ FlightShrinks(f, i)
  BY <1>u, QuietFlight DEF AskSame, OutSame
<1>3. /\ tell[x][id].kind = "announce"
      /\ tell'[x][id].kind = tell[x][id].kind /\ tell'[x][id].ns = tell[x][id].ns
      /\ tell'[x][id].oks = tell[x][id].oks /\ tell'[x][id].errors = tell[x][id].errors
      /\ tell'[x][id].handled = TRUE /\ tell'[x][id].accepting = (id \in inPending[x])
  BY <1>t DEF AcceptAnnouncement, Tells, Tell
<1>4. \A f \in Endpoints, i \in Ids : ~(f = x /\ i = id) => tell'[f][i] = tell[f][i]
  BY <1>t DEF AcceptAnnouncement, Tells
<1>5. ASSUME NEW f \in Endpoints, NEW i \in Ids, ~(f = p /\ i = id) PROVE PairStep(f, i)
  <2>1. Peer(f) \in Endpoints /\ (Peer(f) = x => f = p)
    BY PeerType
  <2>2. TellSame(f, i)
    BY <1>4, <1>5, <2>1 DEF TellSame
  <2>3. InSame(f, i)
    BY <1>5, <2>1 DEF AcceptAnnouncement, Types, MapTypes, InSame, PendingAfterConfirm,
       AnnouncedAfterConfirm
  <2> QED  BY <1>2, <2>2, <2>3, LeftAlone
<1>6. PairStep(p, id)
  <2>1. CASE id \in inPending[x]
    <3>1. id \notin inPending'[x] /\ id \in inAnnounced'[x]
      BY <2>1 DEF AcceptAnnouncement, Types, MapTypes, PendingAfterConfirm, AnnouncedAfterConfirm
    <3> QED  BY <1>p, <1>2, <1>3, <2>1, <3>1 DEF PairStep, Confirm
  <2>2. CASE id \notin inPending[x]
    <3>1. InSame(p, id)
      BY <1>p, <2>2 DEF AcceptAnnouncement, Types, MapTypes, InSame
    <3>2. ~tell[x][id].accepting
      <4>1. ~tell[x][id].handled
        BY <2>2 DEF AcceptAnnouncement
      <4>2. tell[x][id].accepting => tell[x][id].handled
        BY <1>p DEF RequestInv, PairInv
      <4> QED  BY <4>1, <4>2
    <3>3. ~tell'[x][id].accepting
      BY <1>3, <2>2
    <3>4. TellSame(p, id)
      BY <1>p, <1>3, <3>2, <3>3 DEF TellSame
    <3> QED  BY <1>p, <1>2, <3>1, <3>4, LeftAlone
  <2> QED  BY <2>1, <2>2
<1>7. News
  BY <1>u, QuietFlight
<1> QED  BY <1>1, <1>5, <1>6, <1>7 DEF Moves

\* The response writers that write OK.
LEMMA OkMoves ==
    ASSUME Types, RequestInv, NEW x \in Endpoints, NEW id \in Ids,
           WriteAnnounceOk(x, id) \/ AcceptAnnouncementSubscription(x, id)
    PROVE  Moves
<1> DEFINE p == Peer(x)
<1>p. p \in Endpoints /\ Peer(p) = x /\ p # x
  BY PeerType
<1>t. tell \in Tells /\ tell[x] \in [Ids -> Tell] /\ tell[x][id] \in Tell
  BY DEF Types, RequestTypes, Tells
<1>n. tell[x][id].oks \in Nat /\ tell[x][id].errors \in Nat
  BY <1>t DEF Tell
<1>u. UNCHANGED <<nextId, failure, conn, outPending, outAnnounced, inPending, inAnnounced,
                  prefixes, ask, made>>
  BY DEF WriteAnnounceOk, AcceptAnnouncementSubscription
<1>1. Onward
  BY <1>u, StillOnward
<1>2. \A f \in Endpoints, i \in Ids : ~(f = x /\ i = id) => tell'[f][i] = tell[f][i]
  BY <1>t DEF WriteAnnounceOk, AcceptAnnouncementSubscription, Tells
<1>3. ASSUME WriteAnnounceOk(x, id), NEW m, m = Msg("ANNOUNCE_OK", id) PROVE Moves
  <2>1. /\ tell'[x][id].kind = tell[x][id].kind /\ tell'[x][id].ns = tell[x][id].ns
        /\ tell'[x][id].oks = tell[x][id].oks + 1 /\ tell'[x][id].errors = tell[x][id].errors
        /\ tell'[x][id].handled = tell[x][id].handled /\ ~tell'[x][id].accepting
    BY <1>t, <1>3 DEF WriteAnnounceOk, Tells, Tell
  <2>2. tell[x][id].kind = "announce" /\ Kept(p, id)
    BY <1>p, <1>3 DEF WriteAnnounceOk, RequestInv, PairInv
  <2>3. m \in Message /\ m.type = "ANNOUNCE_OK" /\ m.id = id
    BY <1>3, ControlAssumption DEF Msg, Message, MessageTypes
  <2>4. Kept(p, id)'
    BY <1>u, <2>2 DEF Kept, Unannounced, Cancelled
  <2>5. Answers(p, id)' >= 1
    BY <1>p, <1>n, <2>1 DEF Answers
  <2>6. MsgInv(p, m)'
    BY <1>p, <2>1, <2>2, <2>3, <2>4, <2>5 DEF MsgInv, AskMsgs, AnswerMsgs, AnswerType
  <2>7. Write(x, m)
    BY <1>3 DEF WriteAnnounceOk
  <2>8. m.type \in AnswerMsgs /\ m.type \in OkMsgs
    BY <2>3 DEF AnswerMsgs, OkMsgs
  <2> QED  BY <1>u, <1>1, <1>2, <2>1, <2>2, <2>3, <2>6, <2>7, <2>8, ReplyMoves
<1>4. ASSUME AcceptAnnouncementSubscription(x, id), NEW m, m = Msg("SUBSCRIBE_ANNOUNCES_OK", id)
      PROVE  Moves
  <2>1. /\ tell'[x][id].kind = tell[x][id].kind /\ tell'[x][id].ns = tell[x][id].ns
        /\ tell'[x][id].oks = tell[x][id].oks + 1 /\ tell'[x][id].errors = tell[x][id].errors
        /\ tell'[x][id].handled = TRUE /\ tell'[x][id].accepting = tell[x][id].accepting
    BY <1>t, <1>4 DEF AcceptAnnouncementSubscription, Tells, Tell
  <2>2. tell[x][id].kind = "subscribeAnnouncements"
    BY <1>4 DEF AcceptAnnouncementSubscription
  <2>3. m \in Message /\ m.type = "SUBSCRIBE_ANNOUNCES_OK" /\ m.id = id
    BY <1>4, ControlAssumption DEF Msg, Message, MessageTypes
  <2>5. Answers(p, id)' >= 1
    BY <1>p, <1>n, <2>1 DEF Answers
  <2>6. MsgInv(p, m)'
    BY <1>p, <2>1, <2>2, <2>3, <2>5 DEF MsgInv, AskMsgs, AnswerMsgs, AnswerType
  <2>7. Write(x, m)
    BY <1>4 DEF AcceptAnnouncementSubscription
  <2>8. m.type \in AnswerMsgs
    BY <2>3 DEF AnswerMsgs
  <2> QED  BY <1>u, <1>1, <1>2, <2>1, <2>2, <2>3, <2>6, <2>7, <2>8, ReplyMoves
<1> QED  BY <1>3, <1>4

\* Reject, by the application or by the reader.
LEMMA RejectMoves ==
    ASSUME Types, RequestInv, Onward, NEW x \in Endpoints, NEW id \in Ids, RejectAsk(x, id),
           tell[x][id].kind # "none",
           UNCHANGED <<outPending, outAnnounced, inPending, inAnnounced, prefixes, ask, conn>>
    PROVE  Moves
<1> SUFFICES ASSUME NEW m, m = Msg(AnswerType(tell[x][id].kind, FALSE), id) PROVE Moves
  OBVIOUS
<1> DEFINE p == Peer(x)
<1>p. p \in Endpoints /\ Peer(p) = x /\ p # x
  BY PeerType
<1>t. tell \in Tells /\ tell[x] \in [Ids -> Tell] /\ tell[x][id] \in Tell
  BY DEF Types, RequestTypes, Tells
<1>n. tell[x][id].oks \in Nat /\ tell[x][id].errors \in Nat
  BY <1>t DEF Tell
<1>k. tell[x][id].kind \in {"announce", "subscribeAnnouncements"}
  <2>1. tell[x][id].kind # "trackStatus"
    BY <1>p DEF RequestInv, PairInv
  <2> QED  BY <1>t, <2>1 DEF Tell, AskKinds
<1>2. \A f \in Endpoints, i \in Ids : ~(f = x /\ i = id) => tell'[f][i] = tell[f][i]
  BY <1>t DEF RejectAsk, Tells
<1>3. /\ tell'[x][id].kind = tell[x][id].kind /\ tell'[x][id].ns = tell[x][id].ns
      /\ tell'[x][id].oks = tell[x][id].oks /\ tell'[x][id].errors = tell[x][id].errors + 1
      /\ tell'[x][id].handled = TRUE /\ tell'[x][id].accepting = tell[x][id].accepting
  BY <1>t DEF RejectAsk, Tells, Tell
<1>4. /\ m.type = AnswerType(tell[x][id].kind, FALSE) /\ m.id = id
      /\ m.type \in {"ANNOUNCE_ERROR", "SUBSCRIBE_ANNOUNCES_ERROR"}
  BY <1>k DEF Msg, AnswerType
<1>5. m \in Message
  BY <1>4, MsgType, ControlAssumption DEF Msg, Message, MessageTypes
<1>6. Answers(p, id)' >= 1 /\ tell'[x][id].errors >= 1
  BY <1>p, <1>n, <1>3 DEF Answers
<1>7. MsgInv(p, m)'
  BY <1>p, <1>k, <1>3, <1>4, <1>6 DEF MsgInv, AskMsgs, AnswerMsgs
<1>8. Write(x, m) /\ m.type \in AnswerMsgs
  BY <1>4 DEF RejectAsk, AnswerMsgs
<1> QED  BY <1>2, <1>3, <1>4, <1>5, <1>7, <1>8, ReplyMoves

\* The application rejects, or the handler returns and the reader does.
LEMMA RefuseMoves ==
    ASSUME Types, RequestInv, NEW x \in Endpoints, EndInv(x),
           (\E id \in Ids : Reject(x, id)) \/ HandlerReturn(x)
    PROVE  Moves
<1>1. ASSUME NEW id \in Ids, Reject(x, id) PROVE Moves
  <2>1. Onward
    BY <1>1, StillOnward DEF Reject
  <2> QED  BY <1>1, <2>1, RejectMoves DEF Reject, Usable
<1>2. CASE HandlerReturn(x)
  <2> DEFINE id == handling[x]
  <2>1. id \in Ids /\ tell[x][id].kind # "none"
    BY <1>2 DEF HandlerReturn, EndInv, Types, ControlTypes
  <2>u. UNCHANGED <<nextId, conn, outPending, outAnnounced, inPending, inAnnounced, prefixes,
                    ask, made>>
    BY <1>2 DEF HandlerReturn
  <2>2. \A f \in Endpoints : failure'[f] = "none" => failure[f] = "none"
    BY <1>2 DEF HandlerReturn, Return, Types, ControlTypes
  <2>3. Onward
    BY <2>u, <2>2 DEF Onward, Lost, Types, ControlTypes
  <2>4. RejectAsk(x, id) \/ UNCHANGED <<tell, ctrl>>
    BY <1>2 DEF HandlerReturn
  <2> HIDE DEF id
  <2> QED  BY <2>u, <2>1, <2>3, <2>4, RejectMoves, QuietMoves
<1> QED  BY <1>1, <1>2

\* A response writer of a track status request is used again.
LEMMA LateStatusMoves ==
    ASSUME Types, NEW x \in Endpoints, EndInv(x), LateTrackStatus(x)
    PROVE  Moves
<1> SUFFICES ASSUME NEW m, m = Msg("TRACK_STATUS", 0) PROVE Moves
  OBVIOUS
<1>u. UNCHANGED <<nextId, failure, conn, outPending, outAnnounced, inPending, inAnnounced,
                  prefixes, ask, tell, made>>
  BY DEF LateTrackStatus
<1>1. Onward
  BY <1>u, StillOnward
<1>2. m \in Message /\ m.type = "TRACK_STATUS" /\ m.id = 0
  BY ControlAssumption DEF Msg, Message, MessageTypes, Ids
<1>3. (StatusRequests(Peer(x)) # {})'
  BY <1>u DEF LateTrackStatus, EndInv, StatusRequests
<1>4. MsgInv(Peer(x), m)'
  BY <1>2, <1>3 DEF MsgInv, AskMsgs, AnswerMsgs
<1>5. Write(x, m) /\ m.type \notin AskMsgs /\ m.type \notin AnswerMsgs
  BY <1>2 DEF LateTrackStatus, AskMsgs, AnswerMsgs
<1> QED  BY <1>u, <1>1, <1>2, <1>4, <1>5, WriteOnlyMoves

\* Every step moves every pair and writes only what is true.
LEMMA NextMoves ==
    ASSUME Types, RequestInv, \A e \in Endpoints : EndInv(e), [Next]_vars
    PROVE  Moves
<1>1. CASE UNCHANGED vars
  BY <1>1, StillOnward, QuietMoves DEF vars, controlVars, namespaceVars
<1>2. ASSUME NEW e \in Endpoints, Reader(e) PROVE Moves
  <2>1. CASE \/ ControlStep(e) \/ OnInvalidNamespace(e) \/ OnAnnounceCancel(e)
             \/ OnUnsubscribeAnnounces(e) \/ OnUnknown(e)
    BY <2>1, ControlMoves DEF ControlStep, OnInvalidNamespace, OnAnnounceCancel,
       OnUnsubscribeAnnounces, OnUnknown
  <2>2. CASE OnAnnounce(e) \/ OnSubscribeAnnounces(e)
    BY <2>2, OnAskMoves DEF OnAnnounce, OnSubscribeAnnounces
  <2> QED  BY <1>2, <2>1, <2>2, StatusMoves, OnUnannounceMoves, AnswerMoves DEF Reader
<1>3. ASSUME NEW e \in Endpoints, Application(e) PROVE Moves
  <2>1. CASE \/ e \in Askers /\ RequestBlocked(e) /\ UNCHANGED namespaceVars
             \/ "closeSession" \in NamespaceCalls /\ Close(e) /\ UNCHANGED namespaceVars
    BY <2>1, ControlMoves
  <2> QED  BY <1>3, <2>1, BeginMoves, UnannounceMoves, CancelMoves, FinishMoves, AcceptMoves,
              OkMoves, RefuseMoves, LateStatusMoves DEF Application
<1>4. ASSUME NEW e \in Endpoints,
             \/ HandlerReturn(e) \/ \E id \in Ids : CallStep(e, id) \/ WriteAnnounceOk(e, id)
             \/ \E ns \in Namespaces : WriteUnannounce(e, ns)
      PROVE  Moves
  BY <1>4, WriteAskMoves, FinishMoves, OkMoves, RefuseMoves, UnannounceMoves DEF CallStep
<1> QED  BY <1>1, <1>2, <1>3, <1>4 DEF Next

-----------------------------------------------------------------------------
(***************************************************************************)
(* What a step does outside the pairs.                                     *)
(***************************************************************************)

\* The channels after a step of x: it took a message, or added one for its peer.
OwnChannels(x) ==
    /\ \/ ctrl'[x] = ctrl[x]
       \/ /\ ctrl[x] # << >> /\ ctrl'[x] = Tail(ctrl[x])
          /\ Head(ctrl[x]).type = "ANNOUNCE_CANCEL" => failure'[x] # "none"
    /\ \/ ctrl'[Peer(x)] = ctrl[Peer(x)]
       \/ \E m \in Message : ctrl'[Peer(x)] = Append(ctrl[Peer(x)], m)

\* A step of x that is not about the setup leaves the other endpoint alone.
OwnVars(x) ==
    /\ UNCHANGED setup
    /\ setup[x] # "done" => UNCHANGED maxId
    /\ \A f \in Endpoints : f # x =>
         /\ maxId'[f] = maxId[f] /\ ask'[f] = ask[f] /\ tell'[f] = tell[f]
         /\ unannouncing'[f] = unannouncing[f] /\ statusUses'[f] = statusUses[f]
         /\ handling'[f] = handling[f]

\* The steps of the setup.
SetupStep ==
    OnClientSetup \/ WriteServerSetup \/ OnServerSetup \/ \E e \in Endpoints : OnMessageBeforeSetup(e)

\* The other steps of e: the control plane, the requests and answers of the peer, the
\* calls of the application and its use of the response writers.
ControlActs(e) ==
    /\ OnMaxRequestID(e) \/ OnRequestsBlocked(e) \/ RequestBlocked(e) \/ Close(e)
    /\ UNCHANGED namespaceVars
ReaderActs(e) ==
    \/ OnAnnounce(e) \/ OnSubscribeAnnounces(e) \/ OnInvalidNamespace(e)
    \/ OnUnannounce(e) \/ OnAnnounceCancel(e) \/ OnUnsubscribeAnnounces(e)
    \/ OnAnnounceOk(e) \/ OnAnnounceError(e)
    \/ OnSubscribeAnnouncesOk(e) \/ OnSubscribeAnnouncesError(e)
    \/ OnTrackStatus(e) \/ OnUnknown(e)
CallActs(e) ==
    \/ \E kind \in AskKinds, ns \in Namespaces : BeginAsk(e, kind, ns)
    \/ \E id \in Ids : WriteAsk(e, id) \/ ReturnAnswer(e, id) \/ GiveUp(e, id)
WithdrawActs(e) ==
    \E ns \in Namespaces :
      \/ Unannounce(e, ns) \/ WriteUnannounce(e, ns)
      \/ AnnounceCancel(e, ns) \/ UnsubscribeAnnouncements(e, ns)
WriterActs(e) ==
    \/ HandlerReturn(e) \/ LateTrackStatus(e)
    \/ \E id \in Ids :
         \/ Reject(e, id) \/ AcceptAnnouncement(e, id)
         \/ AcceptAnnouncementSubscription(e, id) \/ WriteAnnounceOk(e, id)
Acts(e) ==
    \/ ControlActs(e) \/ ReaderActs(e) \/ OnTrackStatusRequest(e)
    \/ CallActs(e) \/ WithdrawActs(e) \/ WriterActs(e)

\* There are no other steps.
LEMMA StepKinds ==
    ASSUME [Next]_vars
    PROVE  \/ UNCHANGED vars
           \/ (SetupStep \/ \E e \in Endpoints : ReadFails(e)) /\ UNCHANGED namespaceVars
           \/ \E e \in Endpoints : Acts(e)
<1>1. ASSUME NEW e \in Endpoints, Reader(e)
      PROVE  \/ (SetupStep \/ ReadFails(e)) /\ UNCHANGED namespaceVars
             \/ Acts(e)
  BY <1>1 DEF Reader, ControlStep, ControlReads, SetupStep, Acts, ControlActs, ReaderActs
<1>2. ASSUME NEW e \in Endpoints, Application(e) PROVE Acts(e)
  BY <1>2 DEF Application, Acts, ControlActs, CallActs, WithdrawActs, WriterActs
<1>3. ASSUME NEW e \in Endpoints,
             \/ HandlerReturn(e) \/ \E id \in Ids : CallStep(e, id) \/ WriteAnnounceOk(e, id)
             \/ \E ns \in Namespaces : WriteUnannounce(e, ns)
      PROVE  Acts(e)
  BY <1>3 DEF CallStep, Acts, CallActs, WithdrawActs, WriterActs
<1> QED  BY <1>1, <1>2, <1>3 DEF Next

\* What is appended to a channel is a message.
LEMMA AppendType ==
    ASSUME NEW q \in Seq(Message), NEW m, Append(q, m) \in Seq(Message)
    PROVE  m \in Message
<1>1. Append(q, m)[Len(q) + 1] = m /\ Len(Append(q, m)) = Len(q) + 1 /\ Len(q) \in Nat
  OBVIOUS
<1>2. Len(q) + 1 \in 1 .. Len(Append(q, m))
  BY <1>1
<1> QED  BY <1>1, <1>2

\* A read, a write, and both, as steps of x on the channels.
LEMMA OwnFlow ==
    ASSUME Types, Types', NEW x \in Endpoints,
           \/ UNCHANGED ctrl
           \/ \E m : Write(x, m)
           \/ \E m : ctrl[x] # << >> /\ ConsumeAndLeave(x, Written(ctrl[Peer(x)], m))
              /\ Head(ctrl[x]).type # "ANNOUNCE_CANCEL"
           \/ /\ ctrl[x] # << >> /\ Consume(x)
              /\ Head(ctrl[x]).type = "ANNOUNCE_CANCEL" => failure'[x] # "none"
    PROVE  OwnChannels(x)
<1> DEFINE p == Peer(x)
<1>0. p \in Endpoints /\ p # x /\ ctrl[p] \in Seq(Message) /\ ctrl'[p] \in Seq(Message)
  BY PeerType DEF Types, ControlTypes
<1>1. ASSUME NEW m, ctrl'[p] = Written(ctrl[p], m)
      PROVE  ctrl'[p] = ctrl[p] \/ \E n \in Message : ctrl'[p] = Append(ctrl[p], n)
  BY <1>0, <1>1, AppendType DEF Written
<1>2. ASSUME NEW m, Write(x, m) PROVE OwnChannels(x)
  <2>1. ctrl'[p] = Written(ctrl[p], m) /\ ctrl'[x] = ctrl[x]
    BY <1>0, <1>2 DEF Write, Types, ControlTypes
  <2> QED  BY <1>1, <2>1 DEF OwnChannels
<1>3. ASSUME NEW m, ctrl[x] # << >>, ConsumeAndLeave(x, Written(ctrl[Peer(x)], m)),
             Head(ctrl[x]).type # "ANNOUNCE_CANCEL"
      PROVE  OwnChannels(x)
  <2>1. ctrl'[p] = Written(ctrl[p], m) /\ ctrl'[x] = Tail(ctrl[x])
    BY <1>0, <1>3 DEF ConsumeAndLeave, Types, ControlTypes
  <2> QED  BY <1>1, <1>3, <2>1 DEF OwnChannels
<1>4. ASSUME ctrl[x] # << >>, Consume(x),
             Head(ctrl[x]).type = "ANNOUNCE_CANCEL" => failure'[x] # "none"
      PROVE  OwnChannels(x)
  <2>1. ctrl'[p] = ctrl[p] /\ ctrl'[x] = Tail(ctrl[x])
    BY <1>0, <1>4 DEF Consume, Types, ControlTypes
  <2> QED  BY <1>4, <2>1 DEF OwnChannels
<1>5. CASE UNCHANGED ctrl
  BY <1>5 DEF OwnChannels
<1> QED  BY <1>2, <1>3, <1>4, <1>5

\* A step takes a message, or adds one for the peer.
LEMMA ActsChannels ==
    ASSUME Types, Types', NEW e \in Endpoints, Acts(e)
    PROVE  OwnChannels(e)
<1>t. failure \in [Endpoints -> Failures]
  BY DEF Types, ControlTypes
<1>1. CASE ControlActs(e)
  <2>1. CASE OnMaxRequestID(e) \/ OnRequestsBlocked(e)
    BY <2>1, OwnFlow DEF OnMaxRequestID, OnRequestsBlocked, Reading, NextIs
  <2>2. CASE RequestBlocked(e) \/ Close(e)
    BY <2>2, OwnFlow DEF RequestBlocked, Close
  <2> QED  BY <1>1, <2>1, <2>2 DEF ControlActs
<1>2. CASE ReaderActs(e)
  <2>1. CASE OnInvalidNamespace(e) \/ OnAnnounceCancel(e) \/ OnUnknown(e)
    <3>1. failure'[e] # "none"
      <4>1. CASE OnUnknown(e)
        BY <1>t, <4>1 DEF OnUnknown, Return
      <4> QED  BY <1>t, <2>1, <4>1 DEF OnInvalidNamespace, OnAnnounceCancel, Return
    <3>2. ctrl[e] # << >> /\ Consume(e)
      BY <2>1 DEF OnInvalidNamespace, OnAnnounceCancel, OnUnknown, Reading, NextIs
    <3> QED  BY <3>1, <3>2, OwnFlow
  <2>2. CASE \/ OnAnnounce(e) \/ OnSubscribeAnnounces(e) \/ OnUnannounce(e)
             \/ OnUnsubscribeAnnounces(e) \/ OnAnnounceOk(e) \/ OnAnnounceError(e)
             \/ OnSubscribeAnnouncesOk(e) \/ OnSubscribeAnnouncesError(e) \/ OnTrackStatus(e)
    <3>1. ctrl[e] # << >> /\ Consume(e) /\ Head(ctrl[e]).type # "ANNOUNCE_CANCEL"
      BY <2>2 DEF OnAnnounce, OnSubscribeAnnounces, OnAsk, OnUnannounce, OnUnsubscribeAnnounces,
         OnAnnounceOk, OnAnnounceError, OnSubscribeAnnouncesOk, OnSubscribeAnnouncesError,
         OnPrefixAnswer, OnTrackStatus, Reading, NextIs, AskType
    <3> QED  BY <3>1, OwnFlow
  <2> QED  BY <1>2, <2>1, <2>2 DEF ReaderActs
<1>3. CASE OnTrackStatusRequest(e)
  BY <1>3, OwnFlow DEF OnTrackStatusRequest, Reading, NextIs
<1>4. CASE CallActs(e)
  BY <1>4, OwnFlow DEF CallActs, BeginAsk, WriteAsk, ReturnAnswer, GiveUp, controlVars
<1>5. CASE WithdrawActs(e)
  BY <1>5, OwnFlow DEF WithdrawActs, Unannounce, WriteUnannounce, AnnounceCancel,
     UnsubscribeAnnouncements, controlVars
<1>6. CASE WriterActs(e)
  BY <1>6, OwnFlow DEF WriterActs, HandlerReturn, LateTrackStatus, Reject, RejectAsk,
     AcceptAnnouncement, AcceptAnnouncementSubscription, WriteAnnounceOk, controlVars
<1> QED  BY <1>1, <1>2, <1>3, <1>4, <1>5, <1>6 DEF Acts

\* A step of one endpoint leaves the other alone.
LEMMA ActsVars ==
    ASSUME Types, NEW e \in Endpoints, Acts(e)
    PROVE  OwnVars(e)
<1>t. /\ ask \in [Endpoints -> [Ids -> Ask]] /\ tell \in [Endpoints -> [Ids -> Tell]]
      /\ maxId \in [Endpoints -> Nat] /\ handling \in [Endpoints -> Ids \cup {NoRequest}]
      /\ unannouncing \in [Endpoints -> SUBSET Namespaces] /\ statusUses \in [Endpoints -> Nat]
  BY DEF Types, ControlTypes, MapTypes, RequestTypes, Asks, Tells
<1> USE DEF OwnVars
<1>1. CASE ControlActs(e)
  BY <1>t, <1>1 DEF ControlActs, OnMaxRequestID, OnRequestsBlocked, RequestBlocked, Close,
     namespaceVars, Reading, SetMax
<1>2. CASE ReaderActs(e)
  <2>1. CASE \/ OnInvalidNamespace(e) \/ OnAnnounceCancel(e) \/ OnUnsubscribeAnnounces(e)
             \/ OnUnknown(e) \/ OnUnannounce(e)
    BY <2>1 DEF OnInvalidNamespace, OnAnnounceCancel, OnUnsubscribeAnnounces, OnUnknown,
       OnUnannounce, namespaceVars
  <2>2. CASE OnAnnounce(e) \/ OnSubscribeAnnounces(e)
    BY <1>t, <2>2 DEF OnAnnounce, OnSubscribeAnnounces, OnAsk
  <2>3. CASE \/ OnAnnounceOk(e) \/ OnAnnounceError(e)
             \/ OnSubscribeAnnouncesOk(e) \/ OnSubscribeAnnouncesError(e) \/ OnTrackStatus(e)
    BY <1>t, <2>3 DEF OnAnnounceOk, OnAnnounceError, OnSubscribeAnnouncesOk,
       OnSubscribeAnnouncesError, OnPrefixAnswer, OnTrackStatus
  <2> QED  BY <1>2, <2>1, <2>2, <2>3 DEF ReaderActs
<1>3. CASE OnTrackStatusRequest(e)
  BY <1>t, <1>3 DEF OnTrackStatusRequest
<1>4. CASE CallActs(e)
  <2>1. ASSUME NEW kind \in AskKinds, NEW ns \in Namespaces, BeginAsk(e, kind, ns)
        PROVE  OwnVars(e)
    BY <1>t, <2>1 DEF BeginAsk
  <2>2. ASSUME NEW id \in Ids, WriteAsk(e, id) \/ ReturnAnswer(e, id) \/ GiveUp(e, id)
        PROVE  OwnVars(e)
    BY <1>t, <2>2 DEF WriteAsk, ReturnAnswer, GiveUp, controlVars
  <2> QED  BY <1>4, <2>1, <2>2 DEF CallActs
<1>5. CASE WithdrawActs(e)
  BY <1>t, <1>5 DEF WithdrawActs, Unannounce, WriteUnannounce, AnnounceCancel,
     UnsubscribeAnnouncements, controlVars
<1>6. CASE WriterActs(e)
  BY <1>t, <1>6 DEF WriterActs, HandlerReturn, LateTrackStatus, Reject, RejectAsk,
     AcceptAnnouncement, AcceptAnnouncementSubscription, WriteAnnounceOk, controlVars
<1> QED  BY <1>1, <1>2, <1>3, <1>4, <1>5, <1>6 DEF Acts

\* An endpoint acts after its setup, or because it has acted before, or because its
\* application does not wait.
LEMMA ActsMay ==
    ASSUME Types, RequestInv, NEW e \in Endpoints, Acts(e)
    PROVE  EarlyCalls \/ setup[e] = "done" \/ ~Silent(e)
<1>1. CASE ControlActs(e)
  BY <1>1 DEF ControlActs, OnMaxRequestID, OnRequestsBlocked, RequestBlocked, Close, Reading, MayCall
<1>2. CASE ReaderActs(e) \/ OnTrackStatusRequest(e)
  BY <1>2 DEF ReaderActs, OnTrackStatusRequest, OnInvalidNamespace, OnAnnounceCancel,
     OnUnsubscribeAnnounces, OnUnknown, OnUnannounce, OnAnnounce, OnSubscribeAnnounces, OnAsk,
     OnAnnounceOk, OnAnnounceError, OnSubscribeAnnouncesOk, OnSubscribeAnnouncesError,
     OnPrefixAnswer, OnTrackStatus, Reading
<1>3. CASE CallActs(e)
  BY <1>3 DEF CallActs, BeginAsk, WriteAsk, ReturnAnswer, GiveUp, DrawId, MayCall, Silent
<1>4. CASE WithdrawActs(e)
  BY <1>4 DEF WithdrawActs, Unannounce, WriteUnannounce, AnnounceCancel,
     UnsubscribeAnnouncements, Withdraw, MayCall, Silent
<1>5. CASE WriterActs(e)
  <2>1. CASE HandlerReturn(e) \/ LateTrackStatus(e)
    BY <2>1 DEF HandlerReturn, LateTrackStatus, Silent
  <2>2. ASSUME NEW id \in Ids, WriteAnnounceOk(e, id) PROVE ~Silent(e)
    <3>1. tell[e][id].accepting => tell[e][id].kind = "announce"
      BY PeerType DEF RequestInv, PairInv
    <3> QED  BY <2>2, <3>1 DEF WriteAnnounceOk, Silent
  <2>3. ASSUME NEW id \in Ids, \/ Reject(e, id) \/ AcceptAnnouncement(e, id)
                               \/ AcceptAnnouncementSubscription(e, id)
        PROVE  ~Silent(e)
    BY <2>3 DEF Reject, AcceptAnnouncement, AcceptAnnouncementSubscription, Usable, Silent
  <2> QED  BY <1>5, <2>1, <2>2, <2>3 DEF WriterActs
<1> QED  BY <1>1, <1>2, <1>3, <1>4, <1>5 DEF Acts

\* The setup stays in order: the peer's setup is the first message of each endpoint,
\* and before it nothing is said by an application that waits.
LEMMA SetupStepInv ==
    ASSUME Types, Types', RequestInv, SetupInv, [Next]_vars
    PROVE  SetupInv'
<1>0. /\ Client \in Endpoints /\ Server \in Endpoints /\ Client # Server
      /\ Peer(Client) = Server /\ Peer(Server) = Client /\ Endpoints = {Client, Server}
  BY DEF Endpoints, Client, Server, Peer
<1>t. /\ setup \in [Endpoints -> {"waiting", "limitSet", "done"}] /\ maxId \in [Endpoints -> Nat]
      /\ ctrl \in [Endpoints -> Seq(Message)]
  BY DEF Types, ControlTypes
<1>1. CASE UNCHANGED <<setup, maxId, ctrl, handling>> /\ UNCHANGED namespaceVars
  BY <1>1 DEF SetupInv, Silent, namespaceVars
<1>2. CASE OnClientSetup /\ UNCHANGED namespaceVars
  <2>1. /\ setup[Server] = "waiting" /\ setup'[Server] = "limitSet"
        /\ setup'[Client] = setup[Client] /\ maxId'[Client] = maxId[Client]
        /\ ctrl'[Client] = ctrl[Client] /\ UNCHANGED handling
    BY <1>0, <1>t, <1>2 DEF OnClientSetup, Consume
  <2>2. \A e \in Endpoints : Silent(e) => Silent(e)'
    BY <1>2, <2>1 DEF Silent, namespaceVars
  <2> QED  BY <1>0, <2>1, <2>2 DEF SetupInv
<1>3. CASE WriteServerSetup /\ UNCHANGED namespaceVars
  <2> DEFINE m == LimitMsg("SERVER_SETUP", ServerSetupMax)
  <2>1. /\ setup[Server] = "limitSet" /\ setup'[Client] = setup[Client]
        /\ UNCHANGED <<maxId, handling>> /\ ctrl'[Server] = ctrl[Server]
        /\ ctrl'[Client] = Written(ctrl[Client], m)
    BY <1>0, <1>t, <1>3 DEF WriteServerSetup, Write
  <2>2. \/ conn = "down" /\ setup'[Server] = "limitSet"
        \/ conn # "down" /\ setup'[Server] = "done"
    BY <1>0, <1>t, <1>3 DEF WriteServerSetup, WriteFails
  <2>3. \A e \in Endpoints : Silent(e) => Silent(e)'
    BY <1>3, <2>1 DEF Silent, namespaceVars
  <2>4. conn \in {"up", "down"}
    BY DEF Types, ControlTypes
  <2>5. conn = "down" => ctrl'[Client] = ctrl[Client]
    BY <2>1 DEF Written
  <2>6. conn = "up" /\ ctrl[Client] = << >> =>
          ctrl'[Client] # << >> /\ Head(ctrl'[Client]).type = "SERVER_SETUP"
    <3>1. m.type = "SERVER_SETUP"
      BY DEF LimitMsg
    <3> HIDE DEF m
    <3>2. Append(<< >>, m) # << >> /\ Head(Append(<< >>, m)) = m
      OBVIOUS
    <3> QED  BY <2>1, <3>1, <3>2 DEF Written
  <2> HIDE DEF m
  <2> QED  BY <1>0, <2>1, <2>2, <2>3, <2>4, <2>5, <2>6 DEF SetupInv
<1>4. CASE OnServerSetup /\ UNCHANGED namespaceVars
  <2>1. /\ setup[Client] = "waiting" /\ ctrl[Client] # << >> /\ setup'[Server] = setup[Server]
        /\ UNCHANGED handling /\ ctrl'[Server] = ctrl[Server] /\ Head(ctrl[Client]).val \in Nat
    BY <1>0, <1>t, <1>4, HeadType DEF OnServerSetup, NextIs, Consume
  <2>2. maxId[Client] = 0
    BY <2>1 DEF SetupInv
  <2>3. setup'[Client] = "done"
    BY <1>0, <1>t, <1>4, <2>1, <2>2 DEF OnServerSetup, MaxAccepted
  <2>4. \A e \in Endpoints : Silent(e) => Silent(e)'
    BY <1>4, <2>1 DEF Silent, namespaceVars
  <2>5. ~EarlyCalls => setup[Server] = "done"
    BY <2>1 DEF SetupInv
  <2> QED  BY <1>0, <2>1, <2>3, <2>4, <2>5 DEF SetupInv
<1>5. ASSUME NEW e \in Endpoints, OnMessageBeforeSetup(e), UNCHANGED namespaceVars
      PROVE  SetupInv'
  <2>1. /\ setup[e] = "waiting" /\ ctrl[e] # << >>
        /\ Head(ctrl[e]).type \notin {"CLIENT_SETUP", "SERVER_SETUP"}
        /\ UNCHANGED <<setup, maxId, handling>>
    BY <1>5 DEF OnMessageBeforeSetup
  <2>2. EarlyCalls
    BY <1>0, <1>t, <2>1 DEF SetupInv
  <2> QED  BY <2>1, <2>2 DEF SetupInv
<1>6. ASSUME NEW x \in Endpoints, Acts(x) PROVE SetupInv'
  <2>1. OwnChannels(x) /\ OwnVars(x)
    BY <1>6, ActsChannels, ActsVars
  <2>2. EarlyCalls \/ setup[x] = "done"
    BY <1>6, ActsMay DEF SetupInv
  <2>3. setup'[Client] # "limitSet" /\ (setup'[Client] = "waiting" => maxId'[Client] = 0)
    BY <1>0, <2>1 DEF SetupInv, OwnVars
  <2>4. ASSUME ~EarlyCalls, NEW e \in Endpoints, setup'[e] # "done" PROVE Silent(e)'
    <3>1. e # x /\ Silent(e)
      BY <2>1, <2>2, <2>4 DEF SetupInv, OwnVars
    <3> QED  BY <2>1, <3>1 DEF Silent, OwnVars
  <2>5. ~EarlyCalls => setup[Server] = "done"
    BY <1>0, <2>2 DEF SetupInv
  <2>6. ASSUME ~EarlyCalls, setup'[Client] = "waiting"
        PROVE  ctrl'[Client] # << >> /\ Head(ctrl'[Client]).type = "SERVER_SETUP"
    <3>1. x = Server
      BY <1>0, <2>1, <2>2, <2>6 DEF OwnVars
    <3>2. ctrl[Client] # << >> /\ Head(ctrl[Client]).type = "SERVER_SETUP"
      BY <2>1, <2>5, <2>6 DEF SetupInv, OwnVars
    <3>3. CASE ctrl'[Client] = ctrl[Client]
      BY <3>2, <3>3
    <3>4. ASSUME NEW m \in Message, ctrl'[Client] = Append(ctrl[Client], m)
          PROVE  ctrl'[Client] # << >> /\ Head(ctrl'[Client]) = Head(ctrl[Client])
      <4>1. ctrl[Client] \in Seq(Message)
        BY <1>0, <1>t
      <4> QED  BY <3>2, <3>4, <4>1
    <3> QED  BY <1>0, <2>1, <3>1, <3>2, <3>3, <3>4 DEF OwnChannels
  <2>7. UNCHANGED setup
    BY <2>1 DEF OwnVars
  <2> QED  BY <2>3, <2>4, <2>5, <2>6, <2>7 DEF SetupInv
<1>7. ASSUME NEW e \in Endpoints, ReadFails(e), UNCHANGED namespaceVars PROVE SetupInv'
  BY <1>1, <1>7 DEF ReadFails
<1>8. CASE UNCHANGED vars
  BY <1>1, <1>8 DEF vars, controlVars
<1> QED  BY <1>2, <1>3, <1>4, <1>5, <1>6, <1>7, <1>8, StepKinds DEF SetupStep

\* Handlers, calls that have yet to write, and withdrawals, after a step.
EndStep(e) ==
    /\ \/ handling'[e] = handling[e] \/ handling'[e] = NoRequest
       \/ tell'[e][handling'[e]].kind # "none"
    /\ \A ns \in unannouncing'[e] : ns \in unannouncing[e] \/ <<"unannounce", ns>> \in made'[e]
    /\ statusUses'[e] > 0 => statusUses[e] > 0 \/ StatusRequests(Peer(e)) # {}
    /\ \A ns \in Namespaces : <<"announceCancel", ns>> \in made'[e] =>
         \/ <<"announceCancel", ns>> \in made[e]
         \/ Lost(Peer(e))' \/ Has(ctrl'[Peer(e)], {"ANNOUNCE_CANCEL"}, 0)

\* Each step changes them as the code means to.
LEMMA ActsEnds ==
    ASSUME Types, RequestInv, NEW x \in Endpoints, Acts(x)
    PROVE  \A e \in Endpoints : EndStep(e)
<1>p. /\ Peer(x) \in Endpoints /\ Peer(x) # x
      /\ \A e \in Endpoints : e = x \/ e = Peer(x)
  BY PeerType DEF Endpoints, Client, Server, Peer
<1>t. /\ handling \in [Endpoints -> Ids \cup {NoRequest}] /\ statusUses \in [Endpoints -> Nat]
      /\ unannouncing \in [Endpoints -> SUBSET Namespaces]
      /\ made \in [Endpoints -> SUBSET (Withdrawals \X Namespaces)]
      /\ ctrl \in [Endpoints -> Seq(Message)] /\ conn \in {"up", "down"} /\ tell \in Tells
  BY DEF Types, ControlTypes, MapTypes, RequestTypes
<1>1. CASE UNCHANGED <<handling, unannouncing, statusUses, made>>
  BY <1>1 DEF EndStep
<1>2. CASE ControlActs(x)
  BY <1>1, <1>2 DEF ControlActs, namespaceVars, OnMaxRequestID, OnRequestsBlocked,
     RequestBlocked, Close
<1>3. CASE ReaderActs(x)
  <2>1. ASSUME NEW kind \in {"announce", "subscribeAnnouncements"}, OnAsk(x, kind)
        PROVE  \A e \in Endpoints : EndStep(e)
    <3> DEFINE id == Head(ctrl[x]).id
    <3>1. id \in Ids
      BY <1>t, <2>1, HeadType DEF OnAsk, Reading, NextIs
    <3>2. handling'[x] = id /\ tell'[x][id].kind = kind
      BY <1>t, <2>1, <3>1 DEF OnAsk, Tells, Tell, NoTell
    <3>3. /\ UNCHANGED <<unannouncing, statusUses, made>>
          /\ \A e \in Endpoints : e # x => handling'[e] = handling[e]
      BY <1>t, <2>1 DEF OnAsk
    <3> HIDE DEF id
    <3> QED  BY <3>2, <3>3 DEF EndStep
  <2> QED  BY <1>1, <1>3, <2>1 DEF ReaderActs, OnAnnounce, OnSubscribeAnnounces,
           OnInvalidNamespace, OnUnannounce, OnAnnounceCancel, OnUnsubscribeAnnounces,
           OnAnnounceOk, OnAnnounceError, OnSubscribeAnnouncesOk, OnSubscribeAnnouncesError,
           OnPrefixAnswer, OnTrackStatus, OnUnknown, namespaceVars
<1>4. CASE OnTrackStatusRequest(x)
  <2>1. \E i \in Ids : ask[Peer(x)][i].kind = "trackStatus"
    BY <1>4, HeadInv DEF OnTrackStatusRequest, Reading, NextIs, MsgInv
  <2>2. StatusRequests(Peer(x)) # {}
    BY <2>1 DEF StatusRequests
  <2>3. /\ UNCHANGED <<handling, unannouncing, made>>
        /\ \A e \in Endpoints : e # x => statusUses'[e] = statusUses[e]
    BY <1>4, <1>t DEF OnTrackStatusRequest
  <2> QED  BY <2>2, <2>3 DEF EndStep
<1>5. CASE CallActs(x)
  BY <1>1, <1>5 DEF CallActs, BeginAsk, WriteAsk, ReturnAnswer, GiveUp, controlVars
<1>6. ASSUME NEW ns \in Namespaces, Unannounce(x, ns) \/ WriteUnannounce(x, ns)
             \/ UnsubscribeAnnouncements(x, ns)
      PROVE  \A e \in Endpoints : EndStep(e)
  <2>1. UNCHANGED <<handling, statusUses>>
    BY <1>6 DEF Unannounce, WriteUnannounce, UnsubscribeAnnouncements, controlVars
  <2>w. ASSUME NEW call \in {"unannounce", "unsubscribeAnnouncements"}, Withdraw(x, call, ns)
        PROVE  \A e \in Endpoints, n \in Namespaces :
                 <<"announceCancel", n>> \in made'[e] => <<"announceCancel", n>> \in made[e]
    <3>1. <<call, ns>> # <<"announceCancel", ns>> /\ call # "announceCancel"
      BY <2>w
    <3>2. \A n : <<call, ns>> # <<"announceCancel", n>>
      BY <3>1
    <3>3. \A e \in Endpoints : made'[e] = made[e] \/ made'[e] = made[e] \cup {<<call, ns>>}
      BY <1>t, <2>w DEF Withdraw
    <3> QED  BY <3>2, <3>3
  <2>2. \A e \in Endpoints, n \in Namespaces :
          <<"announceCancel", n>> \in made'[e] => <<"announceCancel", n>> \in made[e]
    BY <1>6, <2>w DEF Unannounce, WriteUnannounce, UnsubscribeAnnouncements
  <2>3. \A e \in Endpoints : \A n \in unannouncing'[e] :
          n \in unannouncing[e] \/ <<"unannounce", n>> \in made'[e]
    <3>1. CASE Unannounce(x, ns)
      <4>1. <<"unannounce", ns>> \in made'[x]
        BY <3>1, WithdrawFacts DEF Unannounce
      <4>2. \A e \in Endpoints : \A n \in unannouncing'[e] : n \in unannouncing[e] \/ (e = x /\ n = ns)
        BY <1>t, <3>1 DEF Unannounce
      <4> QED  BY <4>1, <4>2
    <3>2. CASE WriteUnannounce(x, ns)
      BY <1>t, <3>2 DEF WriteUnannounce
    <3>3. CASE UnsubscribeAnnouncements(x, ns)
      BY <3>3 DEF UnsubscribeAnnouncements
    <3> QED  BY <1>6, <3>1, <3>2, <3>3
  <2> QED  BY <2>1, <2>2, <2>3 DEF EndStep
<1>7. ASSUME NEW ns \in Namespaces, AnnounceCancel(x, ns),
             NEW m, m = NsMsg("ANNOUNCE_CANCEL", 0, ns)
      PROVE  \A e \in Endpoints : EndStep(e)
  <2>1. UNCHANGED <<handling, unannouncing, statusUses, conn>>
    BY <1>7 DEF AnnounceCancel
  <2>2. \A e \in Endpoints : e # x => made'[e] = made[e]
    BY <1>7, <1>t DEF AnnounceCancel, Withdraw
  <2>3. m \in Message /\ m.type = "ANNOUNCE_CANCEL" /\ m.id = 0
    BY <1>7, ControlAssumption, NamespaceAssumption DEF NsMsg, Message, MessageTypes, Ids
  <2>4. ctrl'[Peer(x)] = Written(ctrl[Peer(x)], m)
    BY <1>7, <1>t, <1>p DEF AnnounceCancel, Write
  <2>5. conn = "up" => Has(ctrl'[Peer(x)], {"ANNOUNCE_CANCEL"}, 0)
    <3>1. conn = "up" => ctrl'[Peer(x)] = Append(ctrl[Peer(x)], m)
      BY <2>4 DEF Written
    <3>2. m.type \in {"ANNOUNCE_CANCEL"} /\ ctrl[Peer(x)] \in Seq(Message)
      BY <1>t, <1>p, <2>3
    <3>3. Has(Append(ctrl[Peer(x)], m), {"ANNOUNCE_CANCEL"}, 0)
      BY <2>3, <3>2, HasAppend
    <3> QED  BY <3>1, <3>3
  <2>6. conn = "down" => Lost(Peer(x))'
    BY <2>1 DEF Lost
  <2> QED  BY <1>t, <2>1, <2>2, <2>5, <2>6 DEF EndStep
<1>8. CASE HandlerReturn(x)
  <2>1. /\ UNCHANGED <<unannouncing, statusUses, made>>
        /\ \A e \in Endpoints : handling'[e] = handling[e] \/ handling'[e] = NoRequest
    BY <1>8, <1>t DEF HandlerReturn
  <2> QED  BY <2>1 DEF EndStep
<1>9. CASE LateTrackStatus(x)
  <2>1. /\ UNCHANGED <<handling, unannouncing, made>>
        /\ \A e \in Endpoints : statusUses'[e] > 0 => statusUses[e] > 0
    BY <1>9, <1>t DEF LateTrackStatus
  <2> QED  BY <2>1 DEF EndStep
<1>10. ASSUME NEW id \in Ids,
              \/ Reject(x, id) \/ AcceptAnnouncement(x, id)
              \/ AcceptAnnouncementSubscription(x, id) \/ WriteAnnounceOk(x, id)
       PROVE  \A e \in Endpoints : EndStep(e)
  BY <1>1, <1>10 DEF Reject, AcceptAnnouncement, AcceptAnnouncementSubscription, WriteAnnounceOk,
     controlVars
<1> QED  BY <1>2, <1>3, <1>4, <1>5, <1>6, <1>7, <1>8, <1>9, <1>10
         DEF Acts, WithdrawActs, WriterActs

\* ANNOUNCE_CANCEL is in flight until it ends the reader that takes it.
LEMMA CancelKept ==
    ASSUME Types, Types', [Next]_vars, NEW f \in Endpoints,
           Has(ctrl[f], {"ANNOUNCE_CANCEL"}, 0)
    PROVE  Has(ctrl'[f], {"ANNOUNCE_CANCEL"}, 0) \/ Lost(f)'
<1> DEFINE T == {"ANNOUNCE_CANCEL"}
<1>t. ctrl[f] \in Seq(Message) /\ failure \in [Endpoints -> Failures]
  BY DEF Types, ControlTypes
<1>0. /\ Client \in Endpoints /\ Server \in Endpoints /\ Client # Server
      /\ Peer(Client) = Server /\ Peer(Server) = Client /\ Endpoints = {Client, Server}
  BY DEF Endpoints, Client, Server, Peer
<1>1. CASE ctrl'[f] = ctrl[f]
  BY <1>1
<1>2. CASE \E m \in Message : ctrl'[f] = Append(ctrl[f], m)
  BY <1>t, <1>2, HasAppend
<1>3. CASE ctrl[f] # << >> /\ ctrl'[f] = Tail(ctrl[f]) /\ Head(ctrl[f]).type \notin T
  BY <1>t, <1>3, HasTail
<1>4. ASSUME NEW x \in Endpoints, Acts(x)
      PROVE  Has(ctrl'[f], T, 0) \/ Lost(f)'
  <2>1. OwnChannels(x)
    BY <1>4, ActsChannels
  <2>2. f = x \/ f = Peer(x)
    BY <1>0
  <2>3. CASE f = x /\ Head(ctrl[f]).type = "ANNOUNCE_CANCEL"
    BY <1>1, <2>1, <2>3 DEF OwnChannels, Lost
  <2>4. CASE f = x /\ Head(ctrl[f]).type # "ANNOUNCE_CANCEL"
    BY <1>1, <1>3, <2>1, <2>4 DEF OwnChannels
  <2>5. CASE f = Peer(x)
    BY <1>1, <1>2, <2>1, <2>5 DEF OwnChannels
  <2> QED  BY <2>2, <2>3, <2>4, <2>5
<1>5. CASE OnClientSetup
  <2>1. CASE f = Server
    <3>1. ctrl[f] # << >> /\ ctrl'[f] = Tail(ctrl[f]) /\ Head(ctrl[f]).type \notin T
      BY <1>0, <1>5, <2>1 DEF OnClientSetup, NextIs, Consume, Types, ControlTypes
    <3> QED  BY <1>3, <3>1
  <2>2. CASE f = Client
    BY <1>0, <1>1, <1>5, <2>2 DEF OnClientSetup, Consume, Types, ControlTypes
  <2> QED  BY <1>0, <2>1, <2>2
<1>6. CASE OnServerSetup
  <2>1. CASE f = Client
    <3>1. ctrl[f] # << >> /\ ctrl'[f] = Tail(ctrl[f]) /\ Head(ctrl[f]).type \notin T
      BY <1>0, <1>6, <2>1 DEF OnServerSetup, NextIs, Consume, Types, ControlTypes
    <3> QED  BY <1>3, <3>1
  <2>2. CASE f = Server
    BY <1>0, <1>1, <1>6, <2>2 DEF OnServerSetup, Consume, Types, ControlTypes
  <2> QED  BY <1>0, <2>1, <2>2
<1>7. CASE WriteServerSetup
  <2>1. OwnChannels(Server)
    BY <1>0, <1>7, OwnFlow DEF WriteServerSetup
  <2>2. ctrl'[Server] = ctrl[Server]
    BY <1>0, <1>7 DEF WriteServerSetup, Write, Types, ControlTypes
  <2> QED  BY <1>0, <1>1, <1>2, <2>1, <2>2 DEF OwnChannels
<1>8. ASSUME NEW e \in Endpoints, OnMessageBeforeSetup(e)
      PROVE  Has(ctrl'[f], T, 0) \/ Lost(f)'
  <2>1. failure'[e] # "none"
    BY <1>t, <1>8 DEF OnMessageBeforeSetup, Return
  <2>2. f # e => ctrl'[f] = ctrl[f]
    BY <1>8 DEF OnMessageBeforeSetup, Consume, Types, ControlTypes
  <2> QED  BY <1>1, <2>1, <2>2 DEF Lost
<1>9. ASSUME NEW e \in Endpoints, ReadFails(e) PROVE Has(ctrl'[f], T, 0) \/ Lost(f)'
  BY <1>1, <1>9 DEF ReadFails
<1>10. CASE UNCHANGED vars
  BY <1>1, <1>10 DEF vars, controlVars
<1> QED  BY <1>4, <1>5, <1>6, <1>7, <1>8, <1>9, <1>10, StepKinds DEF SetupStep

\* What an endpoint is about to do still concerns something that is there.
LEMMA EndStepInv ==
    ASSUME Types, Types', RequestInv, Moves, \A e \in Endpoints : EndInv(e), [Next]_vars
    PROVE  \A e \in Endpoints : EndInv(e)'
<1>1. \A e \in Endpoints : EndStep(e)
  <2>1. CASE UNCHANGED vars
    BY <2>1 DEF vars, controlVars, namespaceVars, EndStep
  <2>2. CASE SetupStep /\ UNCHANGED namespaceVars
    <3>1. UNCHANGED handling
      BY <2>2 DEF SetupStep, OnClientSetup, WriteServerSetup, OnServerSetup, OnMessageBeforeSetup
    <3> QED  BY <2>2, <3>1 DEF namespaceVars, EndStep
  <2>3. ASSUME NEW e \in Endpoints, ReadFails(e), UNCHANGED namespaceVars
        PROVE  \A f \in Endpoints : EndStep(f)
    BY <2>3 DEF ReadFails, namespaceVars, EndStep
  <2> QED  BY <2>1, <2>2, <2>3, ActsEnds, StepKinds
<1>2. ASSUME NEW e \in Endpoints PROVE EndInv(e)'
  <2> DEFINE p == Peer(e)
  <2>0. /\ p \in Endpoints /\ Peer(p) = e /\ handling[e] \in Ids \cup {NoRequest}
        /\ made[e] \subseteq made'[e] /\ (Lost(p) => Lost(p)')
    BY PeerType DEF Types, ControlTypes, Moves, Onward
  <2>1. ASSUME handling'[e] # NoRequest PROVE tell'[e][handling'[e]].kind # "none"
    <3>1. \A id \in Ids : tell[e][id].kind # "none" => tell'[e][id].kind # "none"
      BY <2>0, PairOnward DEF RequestInv, Moves
    <3> QED  BY <1>1, <2>0, <2>1, <3>1 DEF EndStep, EndInv
  <2>2. \A ns \in unannouncing'[e] : <<"unannounce", ns>> \in made'[e]
    BY <1>1, <2>0 DEF EndStep, EndInv
  <2>3. ASSUME statusUses'[e] > 0 PROVE (StatusRequests(p) # {})'
    <3>1. \A id \in Ids : ask[p][id].kind # "none" => ask'[p][id].kind = ask[p][id].kind
      BY <2>0, PairOnward DEF RequestInv, Moves
    <3>2. StatusRequests(p) # {}
      BY <1>1, <2>3 DEF EndStep, EndInv
    <3> QED  BY <3>1, <3>2 DEF StatusRequests
  <2>4. ASSUME NEW ns \in Namespaces, <<"announceCancel", ns>> \in made'[e]
        PROVE  Lost(p)' \/ Has(ctrl'[p], {"ANNOUNCE_CANCEL"}, 0)
    <3>1. CASE <<"announceCancel", ns>> \in made[e]
      <4>1. Lost(p) \/ Has(ctrl[p], {"ANNOUNCE_CANCEL"}, 0)
        BY <3>1 DEF EndInv
      <4> QED  BY <2>0, <4>1, CancelKept
    <3> QED  BY <1>1, <2>4, <3>1 DEF EndStep
  <2> QED  BY <2>1, <2>2, <2>3, <2>4 DEF EndInv
<1> QED  BY <1>2

-----------------------------------------------------------------------------
(***************************************************************************)
(* Why a reader ends.                                                      *)
(***************************************************************************)

\* The application of f has made the call.
Called(f, call) == \E ns \in Namespaces : <<call, ns>> \in made[f]

\* What DeathHasCause says of a reader of e that has ended with err.
Cause(e, err) ==
    LET p == Peer(e) IN
    /\ err = "unknownAnnouncement" =>
         \/ AnsweredTwice(e, "announce")
         \/ Called(e, "unannounce") \/ Called(p, "unannounce")
    /\ err = "unknownPrefix" =>
         \/ AnsweredTwice(e, "subscribeAnnouncements")
         \/ Called(e, "unsubscribeAnnouncements")
    /\ err = "unknownTrackStatus" => StatusRequests(e) # {} /\ 0 \notin StatusRequests(e)
    /\ err = "malformed" => Called(p, "announceCancel")
    /\ err = "invalidNamespaceLength" =>
         \/ \E id \in Ids : ask[p][id].kind # "none" /\ ask[p][id].ns = 0
         \/ <<"unannounce", 0>> \in made[p]
    /\ err = "beforeSetup" => EarlyCalls
    /\ err \in {"writeFailed", "connectionClosed"} => conn = "down"
    /\ err \notin {"unknownRequestID", "duplicateTrackAlias", "duplicateRequestID",
                   "maxRequestIDDecreased"}

\* DeathHasCause, endpoint by endpoint.
LEMMA CausesOfDeath == DeathHasCause <=> \A e \in Endpoints : Cause(e, failure[e])
BY DEF DeathHasCause, Cause, Called

\* A request answered twice stays so.  Once a track status request was made the ID 0 is
\* drawn no more, so an answer with that ID stays unknown.
LEMMA AnsweredKept ==
    ASSUME Types, Types', RequestInv, Moves, NEW e \in Endpoints
    PROVE  /\ \A kind \in AskKinds : AnsweredTwice(e, kind) => AnsweredTwice(e, kind)'
           /\ StatusRequests(e) # {} /\ 0 \notin StatusRequests(e) =>
                (StatusRequests(e) # {} /\ 0 \notin StatusRequests(e))'
<1> DEFINE p == Peer(e)
<1>t. tell \in Tells /\ tell' \in Tells /\ p \in Endpoints
  BY PeerType DEF Types, RequestTypes
<1>1. ASSUME NEW kind \in AskKinds, AnsweredTwice(e, kind) PROVE AnsweredTwice(e, kind)'
  <2>1. PICK id \in Ids : /\ ask[e][id].kind = kind /\ tell[p][id].kind = kind
                          /\ tell[p][id].oks + tell[p][id].errors > 1
    BY <1>1 DEF AnsweredTwice
  <2>2. kind # "none"
    BY DEF AskKinds
  <2>3. /\ ask'[e][id].kind = kind /\ tell'[p][id].kind = kind
        /\ Answers(e, id)' >= Answers(e, id)
    BY <2>1, <2>2, PairOnward DEF RequestInv, Moves
  <2>4. /\ tell[p][id].oks \in Nat /\ tell[p][id].errors \in Nat
        /\ tell'[p][id].oks \in Nat /\ tell'[p][id].errors \in Nat
    BY <1>t, TellSteps
  <2>5. tell'[p][id].oks + tell'[p][id].errors > 1
    BY <2>1, <2>3, <2>4 DEF Answers
  <2> QED  BY <2>3, <2>5 DEF AnsweredTwice
<1>2. ASSUME StatusRequests(e) # {}, 0 \notin StatusRequests(e)
      PROVE  (StatusRequests(e) # {} /\ 0 \notin StatusRequests(e))'
  <2>0. 0 \in Ids /\ nextId[e] \in Nat /\ Ids \subseteq Nat
    BY ControlAssumption DEF Ids, Types, ControlTypes
  <2>1. PICK id \in Ids : ask[e][id].kind = "trackStatus"
    BY <1>2 DEF StatusRequests
  <2>2. ask'[e][id].kind = "trackStatus"
    BY <2>1, PairOnward DEF RequestInv, Moves
  <2>3. ~(nextId[e] <= id)
    BY <2>1 DEF RequestInv, PairInv
  <2>4. nextId[e] # 0
    BY <2>0, <2>3
  <2>5. ~Begin(e, 0)
    BY <2>4 DEF Begin
  <2>6. PairStep(e, 0) /\ PairInv(e, 0)
    BY <2>0 DEF Moves, RequestInv
  <2>7. ask'[e][0].kind = ask[e][0].kind
    BY <2>5, <2>6 DEF PairStep, Rest, Send, NotSent, Finish, HearOk, HearError, HearOther, Hear,
       Admit, Confirm, Reply, AskSame
  <2>8. ask[e][0].kind # "trackStatus"
    BY <1>2, <2>0 DEF StatusRequests
  <2> QED  BY <2>2, <2>7, <2>8 DEF StatusRequests
<1> QED  BY <1>1, <1>2

\* A cause stays a cause.
LEMMA CauseKept ==
    ASSUME Types, Types', RequestInv, Moves, NEW e \in Endpoints, NEW err, Cause(e, err)
    PROVE  Cause(e, err)'
<1> DEFINE p == Peer(e)
<1>0. /\ p \in Endpoints /\ made[e] \subseteq made'[e] /\ made[p] \subseteq made'[p]
      /\ conn = "down" => conn' = "down"
  BY PeerType DEF Moves, Onward
<1>1. \A call : /\ Called(e, call) => Called(e, call)'
                /\ Called(p, call) => Called(p, call)'
  BY <1>0 DEF Called
<1>2. /\ AnsweredTwice(e, "announce") => AnsweredTwice(e, "announce")'
      /\ AnsweredTwice(e, "subscribeAnnouncements") => AnsweredTwice(e, "subscribeAnnouncements")'
      /\ StatusRequests(e) # {} /\ 0 \notin StatusRequests(e) =>
           (StatusRequests(e) # {} /\ 0 \notin StatusRequests(e))'
  BY AnsweredKept DEF AskKinds
<1>3. \A id \in Ids : ask[p][id].kind # "none" =>
        ask'[p][id].kind = ask[p][id].kind /\ ask'[p][id].ns = ask[p][id].ns
  BY <1>0, PairOnward DEF RequestInv, Moves
<1>4. (\E id \in Ids : ask[p][id].kind # "none" /\ ask[p][id].ns = 0) =>
        (\E id \in Ids : ask'[p][id].kind # "none" /\ ask'[p][id].ns = 0)
  BY <1>3
<1> QED  BY <1>0, <1>1, <1>2, <1>4 DEF Cause

\* A handler that does not find what its message is about has a cause.
LEMMA UnknownCause ==
    ASSUME Types, RequestInv, NEW e \in Endpoints, OnUnknown(e)
    PROVE  Cause(e, NotFound(e, Head(ctrl[e])))
<1> SUFFICES ASSUME NEW m, m = Head(ctrl[e]), NEW id, id = m.id PROVE Cause(e, NotFound(e, m))
  OBVIOUS
<1> DEFINE p == Peer(e)
<1>0. ctrl[e] # << >> /\ NotFound(e, m) # "none"
  BY DEF OnUnknown
<1>t. /\ m \in Message /\ id \in Ids /\ tell \in Tells /\ p \in Endpoints /\ Peer(p) = e
      /\ made \in [Endpoints -> SUBSET (Withdrawals \X Namespaces)]
  BY <1>0, HeadType, PeerType DEF Types, ControlTypes, RequestTypes, MapTypes
<1>1. MsgInv(e, m) /\ PairInv(e, id)
  BY <1>0, <1>t, HeadInv DEF RequestInv
<1>w. \A f \in Endpoints : \A call, ns : <<call, ns>> \in made[f] => ns \in Namespaces
  BY <1>t
<1>2. ASSUME m.type \in AnswerMsgs
      PROVE  /\ tell[p][id].kind = ask[e][id].kind
             /\ AnsweredTwice(e, ask[e][id].kind) \/ Filed(e, id)
  <2>1. AnswerSent(e, id)
    <3>1. ctrl[e] \in Seq(Message)
      BY DEF Types, ControlTypes
    <3>2. Has(ctrl[e], AnswerMsgs, id)
      BY <1>0, <1>2, <3>1, HasTail
    <3> QED  BY <3>2 DEF AnswerSent
  <2>2. tell[p][id].kind = ask[e][id].kind
    BY <1>1, <1>2 DEF MsgInv, PairInv
  <2>3. tell[p][id].oks \in Nat /\ tell[p][id].errors \in Nat
    BY <1>t, TellSteps
  <2>4. CASE Answers(e, id) <= 1
    BY <1>1, <2>1, <2>2, <2>4 DEF PairInv
  <2>5. CASE ~(Answers(e, id) <= 1)
    <3>1. tell[p][id].oks + tell[p][id].errors > 1
      BY <2>3, <2>5 DEF Answers
    <3> QED  BY <1>t, <2>2, <3>1 DEF AnsweredTwice
  <2> QED  BY <2>4, <2>5
<1>3. ASSUME m.type \in {"ANNOUNCE_OK", "ANNOUNCE_ERROR"}, id \notin outPending[e]
      PROVE  AnsweredTwice(e, "announce") \/ Called(e, "unannounce")
  <2>1. m.type \in AnswerMsgs
    BY <1>3 DEF AnswerMsgs
  <2>2. tell[p][id].kind = "announce"
    BY <1>1, <1>3, <2>1 DEF MsgInv, AnswerType
  <2>3. Filed(e, id) => Unannounced(e, id)
    BY <1>2, <1>3, <2>1, <2>2 DEF Filed
  <2> QED  BY <1>2, <1>w, <2>1, <2>2, <2>3 DEF Unannounced, Called
<1>4. ASSUME m.type \in {"SUBSCRIBE_ANNOUNCES_OK", "SUBSCRIBE_ANNOUNCES_ERROR"},
             id \notin prefixes[e]
      PROVE  AnsweredTwice(e, "subscribeAnnouncements") \/ Called(e, "unsubscribeAnnouncements")
  <2>1. m.type \in AnswerMsgs
    BY <1>4 DEF AnswerMsgs
  <2>2. tell[p][id].kind = "subscribeAnnouncements"
    BY <1>1, <1>4, <2>1 DEF MsgInv, AnswerType
  <2>3. Filed(e, id) => Unsubscribed(e, id)
    BY <1>2, <1>4, <2>1, <2>2 DEF Filed
  <2> QED  BY <1>2, <1>w, <2>1, <2>2, <2>3 DEF Unsubscribed, Called
<1>5. m.type = "UNANNOUNCE" => Called(p, "unannounce")
  BY <1>1, <1>w, <1>t DEF MsgInv, Called
<1>6. m.type = "TRACK_STATUS" /\ id \notin StatusRequests(e) =>
        StatusRequests(e) # {} /\ 0 \notin StatusRequests(e)
  BY <1>1 DEF MsgInv
<1> QED  BY <1>0, <1>3, <1>4, <1>5, <1>6 DEF NotFound, Cause

\* A reader that ends has a cause.
LEMMA FailureCause ==
    ASSUME Types, RequestInv, SetupInv, [Next]_vars, NEW e \in Endpoints
    PROVE  failure'[e] = failure[e] \/ Cause(e, failure'[e])
<1>t. failure \in [Endpoints -> Failures] /\ Client \in Endpoints /\ Server \in Endpoints
  BY DEF Types, ControlTypes, Endpoints
<1>1. ASSUME NEW x \in Endpoints, NEW err, Return(x, err), Cause(x, err)
      PROVE  failure'[e] = failure[e] \/ Cause(e, failure'[e])
  BY <1>t, <1>1 DEF Return
<1>2. CASE UNCHANGED failure
  BY <1>2
<1>3. conn = "down" => \A x \in Endpoints : Cause(x, "writeFailed") /\ Cause(x, "connectionClosed")
  BY DEF Cause
<1>4. CASE SetupStep
  <2>1. CASE OnClientSetup
    BY <1>2, <2>1 DEF OnClientSetup
  <2>2. CASE WriteServerSetup
    BY <1>t, <1>1, <1>2, <1>3, <2>2 DEF WriteServerSetup, WriteFails
  <2>3. CASE OnServerSetup
    <3>1. Head(ctrl[Client]).val \in Nat /\ maxId[Client] = 0
      <4>1. ctrl \in [Endpoints -> Seq(Message)]
        BY DEF Types, ControlTypes
      <4> QED  BY <1>t, <2>3, <4>1, HeadType DEF OnServerSetup, NextIs, SetupInv
    <3>2. MaxAccepted(Client, Head(ctrl[Client]).val)
      BY <3>1 DEF MaxAccepted
    <3> QED  BY <1>2, <2>3, <3>2 DEF OnServerSetup, SetMax
  <2>4. ASSUME NEW x \in Endpoints, OnMessageBeforeSetup(x)
        PROVE  failure'[e] = failure[e] \/ Cause(e, failure'[e])
    <3>1. /\ setup[x] = "waiting" /\ ctrl[x] # << >>
          /\ Head(ctrl[x]).type \notin {"CLIENT_SETUP", "SERVER_SETUP"}
      BY <2>4 DEF OnMessageBeforeSetup
    <3>2. x = Client \/ x = Server
      BY DEF Endpoints
    <3>3. setup[Server] \in {"waiting", "limitSet", "done"}
      BY <1>t DEF Types, ControlTypes
    <3>4. EarlyCalls
      BY <3>1, <3>2, <3>3 DEF SetupInv
    <3>5. Cause(x, "beforeSetup")
      BY <3>4 DEF Cause
    <3> QED  BY <1>1, <2>4, <3>5 DEF OnMessageBeforeSetup
  <2> QED  BY <1>4, <2>1, <2>2, <2>3, <2>4 DEF SetupStep
<1>5. ASSUME NEW x \in Endpoints, ReadFails(x)
      PROVE  failure'[e] = failure[e] \/ Cause(e, failure'[e])
  BY <1>1, <1>3, <1>5 DEF ReadFails
<1>6. ASSUME NEW x \in Endpoints, OnMaxRequestID(x) PROVE FALSE
  BY <1>6, HeadInv DEF OnMaxRequestID, Reading, NextIs, MsgInv
<1>7. ASSUME NEW x \in Endpoints, OnUnknown(x)
      PROVE  failure'[e] = failure[e] \/ Cause(e, failure'[e])
  BY <1>1, <1>7, UnknownCause DEF OnUnknown
<1>8. ASSUME NEW x \in Endpoints, OnAnnounceCancel(x)
      PROVE  failure'[e] = failure[e] \/ Cause(e, failure'[e])
  <2> DEFINE m == Head(ctrl[x])
  <2>1. <<"announceCancel", m.val>> \in made[Peer(x)]
    BY <1>8, HeadInv DEF OnAnnounceCancel, Reading, NextIs, MsgInv
  <2>2. m.val \in Namespaces
    BY <2>1, PeerType DEF Types, MapTypes
  <2>3. Cause(x, "malformed")
    BY <2>1, <2>2 DEF Cause, Called
  <2> QED  BY <1>1, <1>8, <2>3 DEF OnAnnounceCancel
<1>9. ASSUME NEW x \in Endpoints, OnInvalidNamespace(x)
      PROVE  failure'[e] = failure[e] \/ Cause(e, failure'[e])
  <2> DEFINE m == Head(ctrl[x])
             p == Peer(x)
  <2>1. /\ ctrl[x] # << >> /\ m.val = 0
        /\ m.type \in {"ANNOUNCE", "UNANNOUNCE", "TRACK_STATUS_REQUEST"}
    BY <1>9 DEF OnInvalidNamespace, Reading, NextIs
  <2>2. MsgInv(x, m) /\ m.id \in Ids
    BY <2>1, HeadInv, HeadType DEF Types, ControlTypes
  <2> HIDE DEF m
  <2>3. m.type = "ANNOUNCE" => ask[p][m.id].kind # "none" /\ ask[p][m.id].ns = 0
    BY <2>1, <2>2 DEF MsgInv, AskMsgs
  <2>4. m.type = "UNANNOUNCE" => <<"unannounce", 0>> \in made[p]
    BY <2>1, <2>2 DEF MsgInv
  <2>5. m.type = "TRACK_STATUS_REQUEST" =>
          \E id \in Ids : ask[p][id].kind = "trackStatus" /\ ask[p][id].ns = 0
    BY <2>1, <2>2 DEF MsgInv
  <2>6. Cause(x, "invalidNamespaceLength")
    BY <2>1, <2>2, <2>3, <2>4, <2>5 DEF Cause
  <2> QED  BY <1>1, <1>9, <2>6 DEF OnInvalidNamespace
<1>10. ASSUME NEW x \in Endpoints, OnTrackStatusRequest(x) \/ HandlerReturn(x)
       PROVE  failure'[e] = failure[e] \/ Cause(e, failure'[e])
  <2>1. UNCHANGED failure \/ (conn = "down" /\ Return(x, "writeFailed"))
    BY <1>10 DEF OnTrackStatusRequest, HandlerReturn, WriteFails
  <2> QED  BY <1>1, <1>2, <1>3, <2>1
<1>11. ASSUME NEW x \in Endpoints, Acts(x)
       PROVE  failure'[e] = failure[e] \/ Cause(e, failure'[e])
  <2>1. CASE ControlActs(x)
    BY <1>2, <1>6, <2>1 DEF ControlActs, OnRequestsBlocked, RequestBlocked, Close
  <2>2. CASE ReaderActs(x)
    BY <1>2, <1>7, <1>8, <1>9, <2>2 DEF ReaderActs, OnAnnounce, OnSubscribeAnnounces, OnAsk,
       OnUnannounce, OnUnsubscribeAnnounces, OnAnnounceOk, OnAnnounceError,
       OnSubscribeAnnouncesOk, OnSubscribeAnnouncesError, OnPrefixAnswer, OnTrackStatus
  <2>3. CASE CallActs(x)
    BY <1>2, <2>3 DEF CallActs, BeginAsk, WriteAsk, ReturnAnswer, GiveUp, controlVars
  <2>4. CASE WithdrawActs(x)
    BY <1>2, <2>4 DEF WithdrawActs, Unannounce, WriteUnannounce, AnnounceCancel,
       UnsubscribeAnnouncements, controlVars
  <2>5. CASE WriterActs(x)
    BY <1>2, <1>10, <2>5 DEF WriterActs, LateTrackStatus, Reject, AcceptAnnouncement,
       AcceptAnnouncementSubscription, WriteAnnounceOk, controlVars
  <2> QED  BY <1>10, <1>11, <2>1, <2>2, <2>3, <2>4, <2>5 DEF Acts
<1>12. CASE UNCHANGED vars
  BY <1>2, <1>12 DEF vars, controlVars
<1> QED  BY <1>4, <1>5, <1>11, <1>12, StepKinds

-----------------------------------------------------------------------------
(***************************************************************************)
(* The theorems.                                                           *)
(***************************************************************************)

\* Nothing has been asked, and only the client's setup is in flight.
LEMMA InitInv == Init => Inv
<1> SUFFICES ASSUME Init PROVE Inv
  OBVIOUS
<1>0. /\ Client \in Endpoints /\ Server \in Endpoints /\ Client # Server /\ 0 \in Ids
      /\ Endpoints = {Client, Server} /\ Endpoints \subseteq Nat
  BY ControlAssumption DEF Endpoints, Client, Server, Ids
<1>c. ctrl[Client] = << >> /\ ctrl[Server] = <<LimitMsg("CLIENT_SETUP", InitialMaxRequestID[Client])>>
  BY <1>0 DEF Init, ControlInit
<1>m. LimitMsg("CLIENT_SETUP", InitialMaxRequestID[Client]) \in Message
  BY <1>0, ControlAssumption, MsgType DEF MessageTypes, LimitMsg, Message
<1>q. /\ ctrl \in [Endpoints -> Seq(Message)]
      /\ \A f \in Endpoints : \A j \in 1 .. Len(ctrl[f]) : ctrl[f][j].type = "CLIENT_SETUP"
  <2>1. \A f \in Endpoints : ctrl[f] \in Seq(Message)
    <3>1. << >> \in Seq(Message) /\ \A m \in Message : <<m>> \in Seq(Message)
      OBVIOUS
    <3> QED  BY <1>0, <1>c, <1>m, <3>1
  <2>2. \A f \in Endpoints : \A j \in 1 .. Len(ctrl[f]) : ctrl[f][j].type = "CLIENT_SETUP"
    BY <1>0, <1>c DEF LimitMsg
  <2>3. ctrl = [f \in Endpoints |-> ctrl[f]]
    BY DEF Init, ControlInit
  <2> QED  BY <2>1, <2>2, <2>3
<1>r. /\ \A e \in Endpoints, id \in Ids : ask[e][id] = NoAsk /\ tell[e][id] = NoTell
      /\ ask \in Asks /\ tell \in Tells
  BY DEF Init, Asks, Tells, Ask, Tell, NoAsk, NoTell
<1>e. \A e \in Endpoints :
        /\ outPending[e] = {} /\ outAnnounced[e] = {} /\ inPending[e] = {} /\ inAnnounced[e] = {}
        /\ prefixes[e] = {} /\ unannouncing[e] = {} /\ made[e] = {} /\ statusUses[e] = 0
        /\ handling[e] = NoRequest /\ failure[e] = "none" /\ setup[e] = "waiting" /\ maxId[e] = 0
  BY DEF Init, ControlInit
<1>1. ControlTypes
  BY <1>0, <1>q, ControlAssumption DEF Init, ControlInit, ControlTypes, Failures
<1>2. MapTypes
  BY DEF Init, MapTypes
<1>3. RequestTypes
  BY <1>r DEF RequestTypes, NoAsk
<1>4. FlightInv
  BY <1>q DEF FlightInv, MsgInv, AskMsgs, AnswerMsgs
<1>5. ASSUME NEW e \in Endpoints, NEW id \in Ids PROVE PairInv(e, id)
  <2>1. Peer(e) \in Endpoints
    BY PeerType
  <2>2. \A f \in Endpoints : /\ Once(ctrl[f], AskMsgs, id) /\ ~Has(ctrl[f], AskMsgs, id)
                             /\ Once(ctrl[f], AnswerMsgs, id) /\ ~Has(ctrl[f], AnswerMsgs, id)
    BY <1>q DEF Once, Has, AskMsgs, AnswerMsgs
  <2>3. /\ ask[e][id].kind = "none" /\ ask[e][id].call = "none" /\ ask[e][id].resp = "empty"
        /\ tell[Peer(e)][id].kind = "none" /\ ~tell[Peer(e)][id].accepting
        /\ tell[Peer(e)][id].oks = 0 /\ tell[Peer(e)][id].errors = 0
    BY <1>r, <2>1 DEF NoAsk, NoTell
  <2> QED  BY <1>e, <2>1, <2>2, <2>3 DEF PairInv, Asked, AnswerSent, Answers, Unwritten
<1>6. ASSUME NEW e \in Endpoints PROVE EndInv(e)
  <2>1. ~(statusUses[e] > 0) /\ handling[e] = NoRequest
    BY <1>e
  <2>2. unannouncing[e] = {} /\ \A ns \in Namespaces : <<"announceCancel", ns>> \notin made[e]
    BY <1>e
  <2> QED  BY <2>1, <2>2 DEF EndInv
<1>7. SetupInv
  <2>1. \A e \in Endpoints : Silent(e)
    BY <1>e, <1>r DEF Silent, NoAsk, NoTell
  <2>2. Head(ctrl[Server]).type = "CLIENT_SETUP"
    BY <1>c DEF LimitMsg
  <2> QED  BY <1>0, <1>c, <1>e, <2>1, <2>2 DEF SetupInv
<1>8. DeathHasCause
  BY <1>e, CausesOfDeath DEF Cause
<1> QED  BY <1>1, <1>2, <1>3, <1>4, <1>5, <1>6, <1>7, <1>8 DEF Inv, Types, RequestInv

\* Every step keeps the invariant.
LEMMA NextInv == Inv /\ [Next]_vars => Inv'
<1> SUFFICES ASSUME Inv, [Next]_vars PROVE Inv'
  OBVIOUS
<1>1. Types /\ RequestInv /\ (\A e \in Endpoints : EndInv(e)) /\ SetupInv /\ DeathHasCause
  BY DEF Inv
<1>2. Types'
  BY <1>1, TypesStep
<1>3. Moves
  BY <1>1, NextMoves
<1>4. RequestInv' /\ SetupInv' /\ \A e \in Endpoints : EndInv(e)'
  BY <1>1, <1>2, <1>3, MovesInv, SetupStepInv, EndStepInv
<1>5. ASSUME NEW e \in Endpoints PROVE Cause(e, failure[e])'
  <2>1. \E err : err = failure'[e] /\ Cause(e, err)
    BY <1>1, CausesOfDeath, FailureCause
  <2>2. PICK err : err = failure'[e] /\ Cause(e, err)
    BY <2>1
  <2>3. Cause(e, err)'
    BY <1>1, <1>2, <1>3, <2>2, CauseKept
  <2> QED  BY <2>2, <2>3
<1>6. DeathHasCause'
  <2>1. (DeathHasCause <=> \A e \in Endpoints : Cause(e, failure[e]))'
    BY CausesOfDeath, PTL
  <2> QED  BY <1>5, <2>1
<1> QED  BY <1>1, <1>2, <1>4, <1>6 DEF Inv

\* Inv is an invariant of every session.
THEOREM Invariant == Spec => []Inv
BY InitInv, NextInv, PTL DEF Spec

\* Every variable has the values the code can give it, and no announcement is pending
\* and confirmed at once, at either end: confirmAndGet moves an entry, and neither
\* Announce nor onAnnounce files one again that has been confirmed.
THEOREM TypeCorrect == Spec => []TypeOK
<1>1. Inv => TypeOK
  <2> SUFFICES ASSUME Inv PROVE TypeOK
    OBVIOUS
  <2>1. ASSUME NEW e \in Endpoints
        PROVE  outPending[e] \cap outAnnounced[e] = {} /\ inPending[e] \cap inAnnounced[e] = {}
    <3>1. Peer(e) \in Endpoints /\ Peer(Peer(e)) = e
      BY PeerType
    <3>2. \A id \in Ids : ~(id \in outPending[e] /\ id \in outAnnounced[e])
      BY DEF Inv, RequestInv, PairInv
    <3>3. \A id \in Ids : ~(id \in inPending[e] /\ id \in inAnnounced[e])
      BY <3>1 DEF Inv, RequestInv, PairInv
    <3>4. /\ outPending[e] \subseteq Ids /\ inPending[e] \subseteq Ids
      BY DEF Inv, Types, MapTypes
    <3> QED  BY <3>2, <3>3, <3>4
  <2> QED  BY <2>1 DEF Inv, Types, ControlTypes, MapTypes, RequestTypes, Asks, Tells, TypeOK
<1> QED  BY <1>1, Invariant, PTL

\* The return value of Announce is true at both ends: after nil the announcement is
\* confirmed at both, as long as neither withdraws its namespace, and after an error the
\* announcer has forgotten it and the peer has rejected it.
THEOREM ReturnsTrue == Spec => []ReturnsTellTheTruth
<1>1. Inv => ReturnsTellTheTruth
  <2> SUFFICES ASSUME Inv, NEW e \in Endpoints, NEW id \in Ids, ask[e][id].kind = "announce"
               PROVE  /\ (/\ ask[e][id].call = "ok" /\ ~Unannounced(e, id)
                          /\ <<"announceCancel", ask[e][id].ns>> \notin made[Peer(e)])
                           => id \in outAnnounced[e] /\ id \in inAnnounced[Peer(e)]
                      /\ ask[e][id].call = "refused" =>
                           /\ id \notin outPending[e] \cup outAnnounced[e]
                           /\ tell[Peer(e)][id].errors > 0
    BY DEF ReturnsTellTheTruth
  <2>1. PairInv(e, id) /\ Peer(e) \in Endpoints /\ tell \in Tells
    BY PeerType DEF Inv, RequestInv, Types, RequestTypes
  <2>2. tell[Peer(e)][id].errors \in Nat
    BY <2>1, TellSteps
  <2> QED  BY <2>1, <2>2 DEF PairInv, Kept, Cancelled
<1> QED  BY <1>1, Invariant, PTL

\* When nothing is in progress the two ends have the same announcements, unless
\* Unannounce was called for the namespace.
THEOREM EndsAgree == Spec => []AnnouncementAgreement
<1>1. Inv => AnnouncementAgreement
  <2> SUFFICES ASSUME Inv, Quiet, NEW e \in Endpoints, NEW id \in Ids, ~Unannounced(e, id)
               PROVE  id \in outAnnounced[e] <=> id \in inAnnounced[Peer(e)]
    BY DEF AnnouncementAgreement
  <2> DEFINE p == Peer(e)
  <2>0. p \in Endpoints /\ Peer(p) = e /\ PairInv(e, id) /\ EndInv(p)
    BY PeerType DEF Inv, RequestInv
  <2>1. /\ \A f \in Endpoints : ~Lost(f) /\ ctrl[f] = << >>
        /\ ~tell[p][id].accepting
    BY <2>0 DEF Quiet, Lost, ReaderIdle
  <2>2. \A f \in Endpoints : \A T, i : ~Has(ctrl[f], T, i)
    BY <2>1 DEF Has
  <2>3. ~Cancelled(e, id)
    <3>1. \A ns \in Namespaces : <<"announceCancel", ns>> \notin made[p]
      BY <2>0, <2>1, <2>2 DEF EndInv
    <3>2. made[p] \subseteq Withdrawals \X Namespaces
      BY <2>0 DEF Inv, Types, MapTypes
    <3> QED  BY <3>1, <3>2 DEF Cancelled
  <2>4. id \in outAnnounced[e] => id \in inAnnounced[p]
    BY <2>0, <2>3 DEF PairInv, Kept
  <2>5. id \in inAnnounced[p] => id \in outAnnounced[e]
    BY <2>0, <2>1, <2>2 DEF PairInv, OkSent
  <2> QED  BY <2>4, <2>5
<1> QED  BY <1>1, Invariant, PTL

\* A reader ends only for a reason the code gives: in particular no answer to a request
\* that was answered once, and no message of an application that waits for Run, ends one.
THEOREM DeathsHaveCause == Spec => []DeathHasCause
<1>1. Inv => DeathHasCause
  BY DEF Inv
<1> QED  BY <1>1, Invariant, PTL

=============================================================================

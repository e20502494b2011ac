---------------------------- MODULE Announcements ----------------------------
(***************************************************************************)
(* The requests about namespaces: announcements, subscriptions to          *)
(* announcements, and track status requests (session.go, announcement*.go, *)
(* track_status*.go).  As in module Tracks a call is a process named by    *)
(* the request ID it draws, and the reader of the peer runs the            *)
(* application's handler.  Unlike there, no answer is refused by the       *)
(* response writer, entries are also looked up by namespace, and nothing   *)
(* raises the limit.                                                       *)
(***************************************************************************)
EXTENDS ControlPlane

CONSTANTS
    Namespaces,      \* numbers; 0 is a namespace of invalid length
    NamespaceCalls,  \* what the applications may do, see NamespaceCallNames
    Askers,          \* endpoints whose application makes requests
    MaxAnswers       \* bound: uses of a response writer

AskKinds == {"announce", "subscribeAnnouncements", "trackStatus"}
Withdrawals == {"unannounce", "announceCancel", "unsubscribeAnnouncements"}
NamespaceCallNames ==
    AskKinds \cup Withdrawals \cup {"cancel", "accept", "reject", "closeSession"}

ASSUME NamespaceAssumption ==
    /\ Namespaces \subseteq Nat
    /\ NamespaceCalls \subseteq NamespaceCallNames
    /\ Askers \subseteq Endpoints
    /\ MaxAnswers \in Nat \ {0}

VARIABLES
    outPending,    \* outgoingAnnouncements.pending
    outAnnounced,  \* outgoingAnnouncements.announcements
    inPending,     \* incomingAnnouncements.pending
    inAnnounced,   \* incomingAnnouncements.announcements
    prefixes,      \* pendingOutgointAnnouncementSubscriptions
    ask,           \* the requests of e and the calls that made them
    tell,          \* the requests e received and their response writers
    statusUses,    \* uses left of the response writers of track status requests
    unannouncing,  \* namespaces for which Unannounce has yet to write
    made           \* withdrawals made so far, each at most once per namespace

namespaceVars == <<outPending, outAnnounced, inPending, inAnnounced, prefixes,
                   ask, tell, statusUses, unannouncing, made>>
vars == <<controlVars, namespaceVars>>

\* call: "begun" is filed and not yet written, "waiting" is in the select, the
\* others have returned.  resp is the content of the response channel.
Ask ==
    [kind : AskKinds \cup {"none"}, ns : Nat,
     call : {"none", "begun", "waiting", "ok", "refused", "cancelled", "unsent"},
     resp : {"empty", "ok", "error"}]

\* accepting: the announcement is confirmed, ANNOUNCE_OK is not yet written.
\* oks and errors count the answers given.
Tell ==
    [kind : AskKinds \cup {"none"}, ns : Nat, handled : BOOLEAN,
     accepting : BOOLEAN, oks : Nat, errors : Nat]

NoAsk == [kind |-> "none", ns |-> 0, call |-> "none", resp |-> "empty"]
NoTell == [kind |-> "none", ns |-> 0, handled |-> FALSE, accepting |-> FALSE,
           oks |-> 0, errors |-> 0]

AskType ==
    [announce |-> "ANNOUNCE", subscribeAnnouncements |-> "SUBSCRIBE_ANNOUNCES",
     trackStatus |-> "TRACK_STATUS_REQUEST"]
AnswerType(kind, ok) ==
    IF kind = "announce"
    THEN IF ok THEN "ANNOUNCE_OK" ELSE "ANNOUNCE_ERROR"
    ELSE IF ok THEN "SUBSCRIBE_ANNOUNCES_OK" ELSE "SUBSCRIBE_ANNOUNCES_ERROR"
NsMsg(type, id, ns) == [type |-> type, id |-> id, val |-> ns]

(***************************************************************************)
(* Variants of the definitions below with a bug each, which the properties *)
(* are shown to catch; nothing else uses them.                             *)
(***************************************************************************)

ConfirmKeepsPending(pending, id) == pending
ConfirmForgets(announced, id) == announced
WireIdUnset(kind, id) == 0
NeverUnhandled(e, id) == FALSE
CancelNotApplied(e) ==
    /\ Reading(e, "ANNOUNCE_CANCEL")
    /\ Consume(e)
    /\ UNCHANGED <<setup, nextId, maxId, localMax, failure, handling, conn, blockedCalls>>
    /\ UNCHANGED namespaceVars

-----------------------------------------------------------------------------
(***************************************************************************)
(* The maps, searched by namespace.                                        *)
(***************************************************************************)

\* announcementMap.delete takes one of these away: pending entries come first,
\* and of several with this namespace the iteration over the map finds any.
OutMatches(e, ns) ==
    LET match(ids) == {id \in ids : ask[e][id].ns = ns} IN
    IF match(outPending[e]) # {} THEN match(outPending[e]) ELSE match(outAnnounced[e])
InMatches(e, ns) ==
    LET match(ids) == {id \in ids : tell[e][id].ns = ns} IN
    IF match(inPending[e]) # {} THEN match(inPending[e]) ELSE match(inAnnounced[e])
PrefixMatches(e, ns) == {id \in prefixes[e] : ask[e][id].ns = ns}

\* announcementMap.confirmAndGet moves an entry from one map to the other.
PendingAfterConfirm(pending, id) == pending \ {id}
AnnouncedAfterConfirm(announced, id) == announced \cup {id}

\* outgoingTrackStatusRequests: its delete deletes nothing.
StatusRequests(e) == {id \in Ids : ask[e][id].kind = "trackStatus"}

-----------------------------------------------------------------------------
(***************************************************************************)
(* The calls.                                                              *)
(***************************************************************************)

\* Announce, SubscribeAnnouncements and RequestTrackStatus up to the write.
BeginAsk(e, kind, ns) ==
    /\ e \in Askers
    /\ kind \in NamespaceCalls
    /\ DrawId(e)
    /\ LET id == nextId[e]
           filed(ids, k) == [ids EXCEPT ![e] = IF kind = k THEN @ \cup {id} ELSE @] IN
       /\ ask' = [ask EXCEPT ![e][id] = [NoAsk EXCEPT !.kind = kind, !.ns = ns, !.call = "begun"]]
       /\ outPending' = filed(outPending, "announce")
       /\ prefixes' = filed(prefixes, "subscribeAnnouncements")
    /\ UNCHANGED <<setup, maxId, localMax, ctrl, failure, handling, conn, blockedCalls>>
    /\ UNCHANGED <<outAnnounced, inPending, inAnnounced, tell, statusUses, unannouncing, made>>

\* RequestTrackStatus does not set the Request ID of its message.
WireId(kind, id) == IF kind = "trackStatus" THEN 0 ELSE id

\* The request is written; if that fails the entry is deleted again.
WriteAsk(e, id) ==
    /\ ask[e][id].call = "begun"
    /\ Write(e, NsMsg(AskType[ask[e][id].kind], WireId(ask[e][id].kind, id), ask[e][id].ns))
    /\ ask' = [ask EXCEPT ![e][id].call = IF WriteFails THEN "unsent" ELSE "waiting"]
    /\ outPending' = [outPending EXCEPT ![e] = IF WriteFails THEN @ \ {id} ELSE @]
    /\ prefixes' = [prefixes EXCEPT ![e] = IF WriteFails THEN @ \ {id} ELSE @]
    /\ UNCHANGED <<setup, nextId, maxId, localMax, failure, handling, conn, blockedCalls>>
    /\ UNCHANGED <<outAnnounced, inPending, inAnnounced, tell, statusUses, unannouncing, made>>

\* The call receives the answer and returns.
ReturnAnswer(e, id) ==
    /\ ask[e][id].call = "waiting"
    /\ ask[e][id].resp # "empty"
    /\ ask' = [ask EXCEPT ![e][id] =
                 [@ EXCEPT !.call = IF ask[e][id].resp = "error" THEN "refused" ELSE "ok",
                           !.resp = "empty"]]
    /\ UNCHANGED controlVars
    /\ UNCHANGED <<outPending, outAnnounced, inPending, inAnnounced, prefixes, tell,
                   statusUses, unannouncing, made>>

\* The caller's ctx is cancelled: the call returns and leaves its entry behind.
GiveUp(e, id) ==
    /\ "cancel" \in NamespaceCalls
    /\ ask[e][id].call = "waiting"
    /\ ask' = [ask EXCEPT ![e][id].call = "cancelled"]
    /\ UNCHANGED controlVars
    /\ UNCHANGED <<outPending, outAnnounced, inPending, inAnnounced, prefixes, tell,
                   statusUses, unannouncing, made>>

\* The application makes one of the calls that withdraw something.
Withdraw(e, call, ns) ==
    /\ call \in NamespaceCalls
    /\ MayCall(e)
    /\ <<call, ns>> \notin made[e]
    /\ made' = [made EXCEPT ![e] = @ \cup {<<call, ns>>}]

\* Unannounce: a namespace that is found is deleted, and the call returns
\* errUnknownAnnouncementNamespace.  One that is not found is yet to be written.
Unannounce(e, ns) ==
    /\ Withdraw(e, "unannounce", ns)
    /\ \/ /\ \E id \in OutMatches(e, ns) :
               /\ outPending' = [outPending EXCEPT ![e] = @ \ {id}]
               /\ outAnnounced' = [outAnnounced EXCEPT ![e] = @ \ {id}]
          /\ UNCHANGED unannouncing
       \/ /\ OutMatches(e, ns) = {}
          /\ unannouncing' = [unannouncing EXCEPT ![e] = @ \cup {ns}]
          /\ UNCHANGED <<outPending, outAnnounced>>
    /\ UNCHANGED controlVars
    /\ UNCHANGED <<inPending, inAnnounced, prefixes, ask, tell, statusUses>>

WriteUnannounce(e, ns) ==
    /\ ns \in unannouncing[e]
    /\ unannouncing' = [unannouncing EXCEPT ![e] = @ \ {ns}]
    /\ Write(e, NsMsg("UNANNOUNCE", 0, ns))
    /\ UNCHANGED <<setup, nextId, maxId, localMax, failure, handling, conn, blockedCalls>>
    /\ UNCHANGED <<outPending, outAnnounced, inPending, inAnnounced, prefixes, ask, tell,
                   statusUses, made>>

\* AnnounceCancel: an unknown namespace is an error and changes nothing.
AnnounceCancel(e, ns) ==
    /\ Withdraw(e, "announceCancel", ns)
    /\ \E id \in InMatches(e, ns) :
         /\ inPending' = [inPending EXCEPT ![e] = @ \ {id}]
         /\ inAnnounced' = [inAnnounced EXCEPT ![e] = @ \ {id}]
    /\ Write(e, NsMsg("ANNOUNCE_CANCEL", 0, ns))
    /\ UNCHANGED <<setup, nextId, maxId, localMax, failure, handling, conn, blockedCalls>>
    /\ UNCHANGED <<outPending, outAnnounced, prefixes, ask, tell, statusUses, unannouncing>>

\* UnsubscribeAnnouncements deletes an entry if there is one, and always writes.
UnsubscribeAnnouncements(e, ns) ==
    /\ Withdraw(e, "unsubscribeAnnouncements", ns)
    /\ \/ \E id \in PrefixMatches(e, ns) : prefixes' = [prefixes EXCEPT ![e] = @ \ {id}]
       \/ PrefixMatches(e, ns) = {} /\ UNCHANGED prefixes
    /\ Write(e, NsMsg("UNSUBSCRIBE_ANNOUNCES", 0, ns))
    /\ UNCHANGED <<setup, nextId, maxId, localMax, failure, handling, conn, blockedCalls>>
    /\ UNCHANGED <<outPending, outAnnounced, inPending, inAnnounced, ask, tell,
                   statusUses, unannouncing>>

-----------------------------------------------------------------------------
(***************************************************************************)
(* The reader: requests and withdrawals of the peer.                       *)
(***************************************************************************)

\* These handlers return an error for a namespace of invalid length.
OnInvalidNamespace(e) ==
    /\ \E type \in {"ANNOUNCE", "UNANNOUNCE", "TRACK_STATUS_REQUEST"} : Reading(e, type)
    /\ Head(ctrl[e]).val = 0
    /\ Return(e, "invalidNamespaceLength")
    /\ Consume(e)
    /\ UNCHANGED <<setup, nextId, maxId, localMax, handling, conn, blockedCalls>>
    /\ UNCHANGED namespaceVars

\* onAnnounce and onSubscribeAnnounces up to the application's handler.  Neither
\* looks at the limit or for a duplicate, and the map in which onSubscribeAnnounces
\* files the request is never read.
OnAsk(e, kind) ==
    /\ Reading(e, AskType[kind])
    /\ LET m == Head(ctrl[e]) IN
       /\ kind = "announce" => m.val # 0
       /\ tell' = [tell EXCEPT ![e][m.id] = [NoTell EXCEPT !.kind = kind, !.ns = m.val]]
       /\ inPending' = [inPending EXCEPT ![e] = IF kind = "announce" THEN @ \cup {m.id} ELSE @]
       /\ handling' = [handling EXCEPT ![e] = m.id]
    /\ Consume(e)
    /\ UNCHANGED <<setup, nextId, maxId, localMax, failure, conn, blockedCalls>>
    /\ UNCHANGED <<outPending, outAnnounced, inAnnounced, prefixes, ask, statusUses,
                   unannouncing, made>>

OnAnnounce(e) == OnAsk(e, "announce")
OnSubscribeAnnounces(e) == OnAsk(e, "subscribeAnnouncements")

\* onTrackStatusRequest: one answer is written, by the handler or, if it gave
\* none, by the reader, which ends when it cannot.  The application keeps the
\* response writer.
OnTrackStatusRequest(e) ==
    /\ Reading(e, "TRACK_STATUS_REQUEST")
    /\ Head(ctrl[e]).val # 0
    /\ ConsumeAndLeave(e, Written(ctrl[Peer(e)], Msg("TRACK_STATUS", 0)))
    /\ statusUses' = [statusUses EXCEPT ![e] = @ + MaxAnswers - 1]
    /\ \/ UNCHANGED failure
       \/ WriteFails /\ Return(e, "writeFailed")
    /\ UNCHANGED <<setup, nextId, maxId, localMax, handling, conn, blockedCalls>>
    /\ UNCHANGED <<outPending, outAnnounced, inPending, inAnnounced, prefixes, ask, tell,
                   unannouncing, made>>

\* onUnannounce deletes the announcement and tells the application.
OnUnannounce(e) ==
    /\ Reading(e, "UNANNOUNCE")
    /\ Head(ctrl[e]).val # 0
    /\ \E id \in InMatches(e, Head(ctrl[e]).val) :
         /\ inPending' = [inPending EXCEPT ![e] = @ \ {id}]
         /\ inAnnounced' = [inAnnounced EXCEPT ![e] = @ \ {id}]
    /\ Consume(e)
    /\ UNCHANGED <<setup, nextId, maxId, localMax, failure, handling, conn, blockedCalls>>
    /\ UNCHANGED <<outPending, outAnnounced, prefixes, ask, tell, statusUses, unannouncing, made>>

\* ANNOUNCE_CANCEL is written with the type of ANNOUNCE.  Its fields, read as
\* those of ANNOUNCE, shift by one: the first byte of the namespace's first
\* element becomes a length that, for a letter, exceeds the message.
OnAnnounceCancel(e) ==
    /\ Reading(e, "ANNOUNCE_CANCEL")
    /\ Return(e, "malformed")
    /\ Consume(e)
    /\ UNCHANGED <<setup, nextId, maxId, localMax, handling, conn, blockedCalls>>
    /\ UNCHANGED namespaceVars

\* UNSUBSCRIBE_ANNOUNCES is only passed to the application.
OnUnsubscribeAnnounces(e) ==
    /\ Reading(e, "UNSUBSCRIBE_ANNOUNCES")
    /\ Consume(e)
    /\ UNCHANGED <<setup, nextId, maxId, localMax, failure, handling, conn, blockedCalls>>
    /\ UNCHANGED namespaceVars

-----------------------------------------------------------------------------
(***************************************************************************)
(* The reader: answers of the peer.                                        *)
(***************************************************************************)

\* The response channel has room for one answer; more are dropped.
AfterAnswer(resp, answer) == IF resp = "empty" THEN answer ELSE resp

OnAnnounceOk(e) ==
    /\ Reading(e, "ANNOUNCE_OK")
    /\ LET id == Head(ctrl[e]).id IN
       /\ id \in outPending[e]
       /\ outPending' = [outPending EXCEPT ![e] = PendingAfterConfirm(@, id)]
       /\ outAnnounced' = [outAnnounced EXCEPT ![e] = AnnouncedAfterConfirm(@, id)]
       /\ ask' = [ask EXCEPT ![e][id].resp = AfterAnswer(@, "ok")]
    /\ Consume(e)
    /\ UNCHANGED <<setup, nextId, maxId, localMax, failure, handling, conn, blockedCalls>>
    /\ UNCHANGED <<inPending, inAnnounced, prefixes, tell, statusUses, unannouncing, made>>

OnAnnounceError(e) ==
    /\ Reading(e, "ANNOUNCE_ERROR")
    /\ LET id == Head(ctrl[e]).id IN
       /\ id \in outPending[e]
       /\ outPending' = [outPending EXCEPT ![e] = @ \ {id}]
       /\ ask' = [ask EXCEPT ![e][id].resp = AfterAnswer(@, "error")]
    /\ Consume(e)
    /\ UNCHANGED <<setup, nextId, maxId, localMax, failure, handling, conn, blockedCalls>>
    /\ UNCHANGED <<outAnnounced, inPending, inAnnounced, prefixes, tell, statusUses,
                   unannouncing, made>>

\* onSubscribeAnnouncesOk and onSubscribeAnnouncesError.
OnPrefixAnswer(e, type, answer) ==
    /\ Reading(e, type)
    /\ LET id == Head(ctrl[e]).id IN
       /\ id \in prefixes[e]
       /\ prefixes' = [prefixes EXCEPT ![e] = @ \ {id}]
       /\ ask' = [ask EXCEPT ![e][id].resp = AfterAnswer(@, answer)]
    /\ Consume(e)
    /\ UNCHANGED <<setup, nextId, maxId, localMax, failure, handling, conn, blockedCalls>>
    /\ UNCHANGED <<outPending, outAnnounced, inPending, inAnnounced, tell, statusUses,
                   unannouncing, made>>

OnSubscribeAnnouncesOk(e) == OnPrefixAnswer(e, "SUBSCRIBE_ANNOUNCES_OK", "ok")
OnSubscribeAnnouncesError(e) == OnPrefixAnswer(e, "SUBSCRIBE_ANNOUNCES_ERROR", "error")

OnTrackStatus(e) ==
    /\ Reading(e, "TRACK_STATUS")
    /\ LET id == Head(ctrl[e]).id IN
       /\ id \in StatusRequests(e)
       /\ ask' = [ask EXCEPT ![e][id].resp = AfterAnswer(@, "ok")]
    /\ Consume(e)
    /\ UNCHANGED <<setup, nextId, maxId, localMax, failure, handling, conn, blockedCalls>>
    /\ UNCHANGED <<outPending, outAnnounced, inPending, inAnnounced, prefixes, tell,
                   statusUses, unannouncing, made>>

\* What a handler returns that does not find the entry its message is about.
NotFound(e, m) ==
    IF \/ m.type \in {"ANNOUNCE_OK", "ANNOUNCE_ERROR"} /\ m.id \notin outPending[e]
       \/ m.type = "UNANNOUNCE" /\ m.val # 0 /\ InMatches(e, m.val) = {}
    THEN "unknownAnnouncement"
    ELSE IF /\ m.type \in {"SUBSCRIBE_ANNOUNCES_OK", "SUBSCRIBE_ANNOUNCES_ERROR"}
            /\ m.id \notin prefixes[e]
    THEN "unknownPrefix"
    ELSE IF m.type = "TRACK_STATUS" /\ m.id \notin StatusRequests(e)
    THEN "unknownTrackStatus"
    ELSE "none"

OnUnknown(e) ==
    /\ ReaderIdle(e) /\ setup[e] = "done"
    /\ ctrl[e] # << >>
    /\ NotFound(e, Head(ctrl[e])) # "none"
    /\ Return(e, NotFound(e, Head(ctrl[e])))
    /\ Consume(e)
    /\ UNCHANGED <<setup, nextId, maxId, localMax, handling, conn, blockedCalls>>
    /\ UNCHANGED namespaceVars

-----------------------------------------------------------------------------
(***************************************************************************)
(* The response writers in the application's hands.                        *)
(***************************************************************************)

Usable(e, id) ==
    /\ tell[e][id].kind # "none"
    /\ tell[e][id].oks + tell[e][id].errors < MaxAnswers

\* Accept of an announcement marks it handled and confirms it, if it is pending.
AcceptAnnouncement(e, id) ==
    /\ "accept" \in NamespaceCalls
    /\ Usable(e, id) /\ tell[e][id].kind = "announce"
    /\ id \in inPending[e] \/ ~tell[e][id].handled
    /\ LET found == id \in inPending[e] IN
       /\ tell' = [tell EXCEPT ![e][id] =
                     [@ EXCEPT !.handled = TRUE, !.accepting = found]]
       /\ inPending' = [inPending EXCEPT ![e] = IF found THEN PendingAfterConfirm(@, id) ELSE @]
       /\ inAnnounced' = [inAnnounced EXCEPT ![e] =
                            IF found THEN AnnouncedAfterConfirm(@, id) ELSE @]
    /\ UNCHANGED controlVars
    /\ UNCHANGED <<outPending, outAnnounced, prefixes, ask, statusUses, unannouncing, made>>

WriteAnnounceOk(e, id) ==
    /\ tell[e][id].accepting
    /\ tell' = [tell EXCEPT ![e][id] =
                  [@ EXCEPT !.accepting = FALSE, !.oks = tell[e][id].oks + 1]]
    /\ Write(e, Msg("ANNOUNCE_OK", id))
    /\ UNCHANGED <<setup, nextId, maxId, localMax, failure, handling, conn, blockedCalls>>
    /\ UNCHANGED <<outPending, outAnnounced, inPending, inAnnounced, prefixes, ask,
                   statusUses, unannouncing, made>>

\* Accept of an announcement subscription only writes, as often as it is called.
AcceptAnnouncementSubscription(e, id) ==
    /\ "accept" \in NamespaceCalls
    /\ Usable(e, id) /\ tell[e][id].kind = "subscribeAnnouncements"
    /\ tell' = [tell EXCEPT ![e][id] =
                  [@ EXCEPT !.handled = TRUE, !.oks = tell[e][id].oks + 1]]
    /\ Write(e, Msg("SUBSCRIBE_ANNOUNCES_OK", id))
    /\ UNCHANGED <<setup, nextId, maxId, localMax, failure, handling, conn, blockedCalls>>
    /\ UNCHANGED <<outPending, outAnnounced, inPending, inAnnounced, prefixes, ask,
                   statusUses, unannouncing, made>>

\* Reject of either, by the application or by the reader: the error is written,
\* and an announcement stays where it is filed.
RejectAsk(e, id) ==
    /\ tell' = [tell EXCEPT ![e][id] =
                  [@ EXCEPT !.handled = TRUE, !.errors = tell[e][id].errors + 1]]
    /\ Write(e, Msg(AnswerType(tell[e][id].kind, FALSE), id))

Reject(e, id) ==
    /\ "reject" \in NamespaceCalls
    /\ Usable(e, id)
    /\ RejectAsk(e, id)
    /\ UNCHANGED <<setup, nextId, maxId, localMax, failure, handling, conn, blockedCalls>>
    /\ UNCHANGED <<outPending, outAnnounced, inPending, inAnnounced, prefixes, ask,
                   statusUses, unannouncing, made>>

\* A response writer of a track status request is used again.
LateTrackStatus(e) ==
    /\ {"accept", "reject"} \cap NamespaceCalls # {}
    /\ statusUses[e] > 0
    /\ statusUses' = [statusUses EXCEPT ![e] = @ - 1]
    /\ Write(e, Msg("TRACK_STATUS", 0))
    /\ UNCHANGED <<setup, nextId, maxId, localMax, failure, handling, conn, blockedCalls>>
    /\ UNCHANGED <<outPending, outAnnounced, inPending, inAnnounced, prefixes, ask, tell,
                   unannouncing, made>>

\* Nobody has used the response writer by the time the handler returns.
Unhandled(e, id) == ~tell[e][id].handled

\* The handler returns to the reader, which rejects what was not handled.
HandlerReturn(e) ==
    /\ handling[e] # NoRequest
    /\ LET id == handling[e] IN
       /\ handling' = [handling EXCEPT ![e] = NoRequest]
       /\ \/ /\ Unhandled(e, id)
             /\ RejectAsk(e, id)
             /\ IF WriteFails THEN Return(e, "writeFailed") ELSE UNCHANGED failure
          \/ ~Unhandled(e, id) /\ UNCHANGED <<tell, ctrl, failure>>
    /\ UNCHANGED <<setup, nextId, maxId, localMax, conn, blockedCalls>>
    /\ UNCHANGED <<outPending, outAnnounced, inPending, inAnnounced, prefixes, ask,
                   statusUses, unannouncing, made>>

-----------------------------------------------------------------------------

Init ==
    /\ ControlInit
    /\ outPending = [e \in Endpoints |-> {}]
    /\ outAnnounced = [e \in Endpoints |-> {}]
    /\ inPending = [e \in Endpoints |-> {}]
    /\ inAnnounced = [e \in Endpoints |-> {}]
    /\ prefixes = [e \in Endpoints |-> {}]
    /\ ask = [e \in Endpoints |-> [id \in Ids |-> NoAsk]]
    /\ tell = [e \in Endpoints |-> [id \in Ids |-> NoTell]]
    /\ statusUses = [e \in Endpoints |-> 0]
    /\ unannouncing = [e \in Endpoints |-> {}]
    /\ made = [e \in Endpoints |-> {}]

\* The steps of the control plane leave the requests alone.
ControlStep(e) == ControlReads(e) /\ UNCHANGED namespaceVars

\* One step of the control stream reader, outside the application's handler.
Reader(e) ==
    \/ ControlStep(e)
    \/ OnAnnounce(e) \/ OnSubscribeAnnounces(e) \/ OnTrackStatusRequest(e)
    \/ OnInvalidNamespace(e)
    \/ OnUnannounce(e) \/ OnAnnounceCancel(e) \/ OnUnsubscribeAnnounces(e)
    \/ OnAnnounceOk(e) \/ OnAnnounceError(e)
    \/ OnSubscribeAnnouncesOk(e) \/ OnSubscribeAnnouncesError(e)
    \/ OnTrackStatus(e)
    \/ OnUnknown(e)

\* The call that drew id goes on.
CallStep(e, id) == WriteAsk(e, id) \/ ReturnAnswer(e, id)

\* The applications.
Application(e) ==
    \/ \E kind \in AskKinds, ns \in Namespaces : BeginAsk(e, kind, ns)
    \/ e \in Askers /\ RequestBlocked(e) /\ UNCHANGED namespaceVars
    \/ "closeSession" \in NamespaceCalls /\ Close(e) /\ UNCHANGED namespaceVars
    \/ \E ns \in Namespaces :
         \/ Unannounce(e, ns) \/ AnnounceCancel(e, ns) \/ UnsubscribeAnnouncements(e, ns)
    \/ \E id \in Ids :
         \/ GiveUp(e, id) \/ Reject(e, id)
         \/ AcceptAnnouncement(e, id) \/ AcceptAnnouncementSubscription(e, id)
    \/ LateTrackStatus(e)

Next ==
    \E e \in Endpoints :
      \/ Reader(e)
      \/ HandlerReturn(e)
      \/ Application(e)
      \/ \E id \in Ids : CallStep(e, id) \/ WriteAnnounceOk(e, id)
      \/ \E ns \in Namespaces : WriteUnannounce(e, ns)

Spec == Init /\ [][Next]_vars

\* Every goroutine that can go on eventually does, and a handler returns.  The
\* applications need not make any call, nor use the response writer.
Fairness ==
    \A e \in Endpoints :
      /\ WF_vars(Reader(e))
      /\ WF_vars(HandlerReturn(e))
      /\ \A id \in Ids : WF_vars(CallStep(e, id)) /\ WF_vars(WriteAnnounceOk(e, id))
      /\ \A ns \in Namespaces : WF_vars(WriteUnannounce(e, ns))

FairSpec == Spec /\ Fairness

-----------------------------------------------------------------------------
(***************************************************************************)
(* Properties.                                                             *)
(***************************************************************************)

\* Every variable has the values the code can give it, and no announcement is
\* pending and confirmed at once.
TypeOK ==
    /\ setup \in [Endpoints -> {"waiting", "limitSet", "done"}]
    /\ nextId \in [Endpoints -> Nat]
    /\ maxId \in [Endpoints -> Nat]
    /\ localMax \in [Endpoints -> Nat]
    /\ ctrl \in [Endpoints -> Seq(Message)]
    /\ failure \in [Endpoints -> Failures]
    /\ handling \in [Endpoints -> Ids \cup {NoRequest}]
    /\ conn \in {"up", "down"}
    /\ blockedCalls \in [Endpoints -> Nat]
    /\ outPending \in [Endpoints -> SUBSET Ids]
    /\ outAnnounced \in [Endpoints -> SUBSET Ids]
    /\ inPending \in [Endpoints -> SUBSET Ids]
    /\ inAnnounced \in [Endpoints -> SUBSET Ids]
    /\ prefixes \in [Endpoints -> SUBSET Ids]
    /\ ask \in [Endpoints -> [Ids -> Ask]]
    /\ tell \in [Endpoints -> [Ids -> Tell]]
    /\ statusUses \in [Endpoints -> Nat]
    /\ unannouncing \in [Endpoints -> SUBSET Namespaces]
    /\ made \in [Endpoints -> SUBSET (Withdrawals \X Namespaces)]
    /\ \A e \in Endpoints : /\ outPending[e] \cap outAnnounced[e] = {}
                            /\ inPending[e] \cap inAnnounced[e] = {}

\* e has withdrawn the namespace of its announcement.
Unannounced(e, id) == <<"unannounce", ask[e][id].ns>> \in made[e]

\* The return value of Announce is true at both ends (session.go:799): after nil
\* the announcer has the announcement confirmed and so has its peer, for as long
\* as neither withdraws the namespace; after an error the announcer has forgotten
\* it.  Two readers, a response writer used at any time and the caller take part.
ReturnsTellTheTruth ==
    \A e \in Endpoints, id \in Ids :
      ask[e][id].kind = "announce" =>
        /\ (/\ ask[e][id].call = "ok" /\ ~Unannounced(e, id)
            /\ <<"announceCancel", ask[e][id].ns>> \notin made[Peer(e)])
             => id \in outAnnounced[e] /\ id \in inAnnounced[Peer(e)]
        /\ ask[e][id].call = "refused" =>
             id \notin outPending[e] \cup outAnnounced[e] /\ tell[Peer(e)][id].errors > 0

\* Nothing is in progress: both readers wait for a message, none is in flight,
\* and no call or response writer is between two steps.
Quiet ==
    /\ conn = "up"
    /\ \A e \in Endpoints :
         /\ ReaderIdle(e) /\ setup[e] = "done" /\ ctrl[e] = << >>
         /\ unannouncing[e] = {}
         /\ \A id \in Ids : ask[e][id].call # "begun" /\ ~tell[e][id].accepting

\* When nothing is in progress the two ends have the same announcements, given
\* up or not, unless Unannounce was called for the namespace.  In particular what
\* is rejected, answered twice or cancelled either leaves both ends alike or
\* costs one of them its reader.
AnnouncementAgreement ==
    Quiet =>
      \A e \in Endpoints, id \in Ids :
        \/ id \in outAnnounced[e] <=> id \in inAnnounced[Peer(e)]
        \/ Unannounced(e, id)

\* A request of e was answered more than once.
AnsweredTwice(e, kind) ==
    \E id \in Ids : LET t == tell[Peer(e)][id] IN
      ask[e][id].kind = kind /\ t.kind = kind /\ t.oks + t.errors > 1

\* A reader ends only for one of these reasons.  Answering twice ends the reader
\* of the asker, whether the application does it or it comes too late and the
\* request was rejected when its handler returned (session.go:1373, 1454).
DeathHasCause ==
    \A e \in Endpoints :
      LET p == Peer(e)
          called(f, call) == \E ns \in Namespaces : <<call, ns>> \in made[f] IN
      /\ failure[e] = "unknownAnnouncement" =>
           \/ AnsweredTwice(e, "announce")
           \/ called(e, "unannounce") \/ called(p, "unannounce")
      /\ failure[e] = "unknownPrefix" =>
           \/ AnsweredTwice(e, "subscribeAnnouncements")
           \/ called(e, "unsubscribeAnnouncements")
      /\ failure[e] = "unknownTrackStatus" =>
           StatusRequests(e) # {} /\ 0 \notin StatusRequests(e)
      /\ failure[e] = "malformed" => called(p, "announceCancel")
      /\ failure[e] = "invalidNamespaceLength" =>
           \/ \E id \in Ids : ask[p][id].kind # "none" /\ ask[p][id].ns = 0
           \/ <<"unannounce", 0>> \in made[p]
      /\ failure[e] = "beforeSetup" => EarlyCalls
      /\ failure[e] \in {"writeFailed", "connectionClosed"} => conn = "down"
      /\ failure[e] \notin {"unknownRequestID", "duplicateTrackAlias", "duplicateRequestID",
                            "maxRequestIDDecreased"}

\* The session has lost a reader or the connection.
Broken == conn = "down" \/ \E e \in Endpoints : failure[e] # "none"

\* A call of one of these kinds returns, unless the session breaks.
Returns(e, id, kinds) ==
    (ask[e][id].kind \in kinds /\ ask[e][id].call \in {"begun", "waiting"})
      ~> (ask[e][id].call \in {"ok", "refused", "cancelled", "unsent"} \/ Broken)

\* Announce and SubscribeAnnouncements return (session.go:820, 892), whatever the
\* applications do or leave undone, unless the session breaks.
NamespaceCallsReturn ==
    \A e \in Endpoints, id \in Ids : Returns(e, id, {"announce", "subscribeAnnouncements"})

=============================================================================

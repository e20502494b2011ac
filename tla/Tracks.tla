------------------------------- MODULE Tracks -------------------------------
(***************************************************************************)
(* Subscriptions and fetches.  A call of Subscribe or Fetch is a process   *)
(* named by the request ID it draws; it shares the remoteTrackMap with the *)
(* control stream reader, which delivers the peer's answer through the     *)
(* one-slot responseChan.  On the other side the reader files the request  *)
(* in the localTrackMap and runs the application's handler, whose response *)
(* writer any goroutine may use, during the handler or after it returned   *)
(* (session.go, remote_track.go, remote_track_map.go, local_track.go,      *)
(* local_track_map.go, subscribe_response_writer.go,                       *)
(* fetch_response_writer.go).                                              *)
(***************************************************************************)
EXTENDS ControlPlane

CONSTANTS
    AppCalls,      \* what the two applications may do, see AppCallNames
    Requesters,    \* endpoints whose application subscribes or fetches
    MaxTrackCalls  \* bound: Close and UpdateSubscription calls per remote track

AppCallNames ==
    {"subscribe", "fetch", "badNamespace", "cancel", "close", "update",
     "accept", "reject", "closeWithError", "closeUnanswered", "closeSession"}

ASSUME TracksAssumption ==
    /\ AppCalls \subseteq AppCallNames
    /\ Requesters \subseteq Endpoints
    /\ MaxTrackCalls \in Nat

VARIABLES
    rpending,  \* remoteTrackMap.pending: requests of e without an answer
    ropen,     \* remoteTrackMap.open
    aliases,   \* remoteTrackMap.trackAliasToRequestID, as pairs <<alias, id>>
    rt,        \* the RemoteTrack of each request and the call that made it
    lpending,  \* localTrackMap.pending: requests of the peer not answered yet
    lopen,     \* localTrackMap.open
    lt,        \* the localTrack of each request and its response writer
    nextAlias  \* Session.trackAliases

trackVars == <<rpending, ropen, aliases, rt, lpending, lopen, lt, nextAlias>>
vars == <<controlVars, trackVars>>

Kinds == {"none", "subscribe", "fetch"}

\* call is the program counter of the Subscribe or Fetch that made the request:
\*   begun      filed in pending, the request is not written yet
\*   waiting    in the select on ctx and responseChan
\*   aborting   ctx.Done was chosen, the request is still filed
\*   ok, refused, cancelled, unsent    returned: with the track, with the peer's
\*              error, with the error of ctx, with the error of the write
\* resp is the content of responseChan; done says that doneCtx is cancelled.
RemoteTrack ==
    [kind : Kinds, badNamespace : BOOLEAN,
     call : {"none", "begun", "waiting", "aborting", "ok", "refused", "cancelled", "unsent"},
     resp : {"empty", "ok", "error"}, done : BOOLEAN,
     closes : Nat, updates : Nat]

\* ctx is the state of localTrack.ctx with the cause it was cancelled for.
\* answer: "confirmed" is open with the OK not yet written by Accept.
LocalTrack ==
    [kind : Kinds, ctx : {"live", "unsubscribed", "done"}, alias : Nat,
     handled : BOOLEAN, answer : {"none", "confirmed", "ok", "error"}]

NoRemoteTrack ==
    [kind |-> "none", badNamespace |-> FALSE, call |-> "none", resp |-> "empty",
     done |-> FALSE, closes |-> 0, updates |-> 0]
NoLocalTrack ==
    [kind |-> "none", ctx |-> "live", alias |-> 0, handled |-> FALSE, answer |-> "none"]

\* The endpoint that draws this ID: the client the even ones, the server the odd.
Owner(id) == id % 2

\* What an endpoint has filed, under either state.
Remote(e) == rpending[e] \cup ropen[e]
Local(e) == lpending[e] \cup lopen[e]

RequestType(kind) == IF kind = "subscribe" THEN "SUBSCRIBE" ELSE "FETCH"
OkType(kind) == IF kind = "subscribe" THEN "SUBSCRIBE_OK" ELSE "FETCH_OK"
ErrorType(kind) == IF kind = "subscribe" THEN "SUBSCRIBE_ERROR" ELSE "FETCH_ERROR"
CloseType(kind) == IF kind = "subscribe" THEN "UNSUBSCRIBE" ELSE "FETCH_CANCEL"

(***************************************************************************)
(* Variants of the definitions below with a bug each, which the properties *)
(* are shown to catch; nothing else uses them.                             *)
(***************************************************************************)

NeverCancelsOnError(kind) == FALSE
ConfirmWithoutDelete(e, id) == rpending[e]
RejectWithoutDelete(e, id) == lpending[e]
UnhandledNeverRejected(e, id) == FALSE
CancelLost(ctx, cause) == ctx
ConfirmLooksInOpen(e, m) == m.type \in {"SUBSCRIBE_OK", "FETCH_OK"} /\ m.id \notin ropen[e]

-----------------------------------------------------------------------------
(***************************************************************************)
(* The requesting side: Subscribe, Fetch and the methods of RemoteTrack.   *)
(***************************************************************************)

\* Subscribe and Fetch up to addPending: an ID is drawn and the track filed.  A
\* namespace of no or more than 32 elements is not noticed here.
BeginRequest(e, kind, bad) ==
    /\ e \in Requesters
    /\ kind \in AppCalls
    /\ bad => "badNamespace" \in AppCalls
    /\ DrawId(e)
    /\ LET id == nextId[e] IN
       IF id \in Remote(e)
       THEN UNCHANGED <<rpending, rt>>  \* errDuplicateRequestIDBug
       ELSE /\ rpending' = [rpending EXCEPT ![e] = @ \cup {id}]
            /\ rt' = [rt EXCEPT ![e][id] =
                        [NoRemoteTrack EXCEPT !.kind = kind, !.badNamespace = bad,
                                              !.call = "begun"]]
    /\ UNCHANGED <<setup, maxId, localMax, ctrl, failure, handling, conn, blockedCalls>>
    /\ UNCHANGED <<ropen, aliases, lpending, lopen, lt, nextAlias>>

\* A failed write makes Fetch take the track out of pending; Subscribe leaves it.
KeptUnsent(kind) == kind = "subscribe"

\* The request is written.  Calls write in any order, whatever their IDs.
WriteRequest(e, id) ==
    /\ rt[e][id].call = "begun"
    /\ Write(e, [type |-> RequestType(rt[e][id].kind), id |-> id,
                 val |-> IF rt[e][id].badNamespace THEN 1 ELSE 0])
    /\ rt' = [rt EXCEPT ![e][id].call = IF WriteFails THEN "unsent" ELSE "waiting"]
    /\ rpending' = [rpending EXCEPT ![e] =
                      IF WriteFails /\ ~KeptUnsent(rt[e][id].kind) THEN @ \ {id} ELSE @]
    /\ UNCHANGED <<setup, nextId, maxId, localMax, failure, handling, conn, blockedCalls>>
    /\ UNCHANGED <<ropen, aliases, lpending, lopen, lt, nextAlias>>

\* A Fetch that returns an error also closes its track: FETCH_CANCEL.
CancelsOnError(kind) == kind = "fetch"

\* The answer is received from responseChan and the call returns.
Resolve(e, id) ==
    /\ rt[e][id].call = "waiting"
    /\ rt[e][id].resp # "empty"
    /\ LET refused == rt[e][id].resp = "error" IN
       /\ rt' = [rt EXCEPT ![e][id] =
                   [@ EXCEPT !.call = IF refused THEN "refused" ELSE "ok", !.resp = "empty"]]
       /\ rpending' = [rpending EXCEPT ![e] = IF refused THEN @ \ {id} ELSE @]
       /\ IF refused /\ CancelsOnError(rt[e][id].kind)
          THEN Write(e, Msg("FETCH_CANCEL", id))
          ELSE UNCHANGED ctrl
    /\ UNCHANGED <<setup, nextId, maxId, localMax, failure, handling, conn, blockedCalls>>
    /\ UNCHANGED <<ropen, aliases, lpending, lopen, lt, nextAlias>>

\* The caller's ctx is cancelled and the select takes that case, even when the
\* answer is in responseChan already.
Cancel(e, id) ==
    /\ "cancel" \in AppCalls
    /\ rt[e][id].call = "waiting"
    /\ rt' = [rt EXCEPT ![e][id].call = "aborting"]
    /\ UNCHANGED controlVars
    /\ UNCHANGED <<rpending, ropen, aliases, lpending, lopen, lt, nextAlias>>

\* The cancelled call takes its request out of pending, where the reader may
\* have moved it to open in the meantime, and returns.
Abort(e, id) ==
    /\ rt[e][id].call = "aborting"
    /\ rt' = [rt EXCEPT ![e][id].call = "cancelled"]
    /\ rpending' = [rpending EXCEPT ![e] = @ \ {id}]
    /\ IF CancelsOnError(rt[e][id].kind)
       THEN Write(e, Msg("FETCH_CANCEL", id))
       ELSE UNCHANGED ctrl
    /\ UNCHANGED <<setup, nextId, maxId, localMax, failure, handling, conn, blockedCalls>>
    /\ UNCHANGED <<ropen, aliases, lpending, lopen, lt, nextAlias>>

\* RemoteTrack.Close, on a track the call returned.  The track stays filed.
CloseTrack(e, id) ==
    /\ "close" \in AppCalls
    /\ rt[e][id].call = "ok"
    /\ rt[e][id].closes < MaxTrackCalls
    /\ rt' = [rt EXCEPT ![e][id].closes = @ + 1]
    /\ Write(e, Msg(CloseType(rt[e][id].kind), id))
    /\ UNCHANGED <<setup, nextId, maxId, localMax, failure, handling, conn, blockedCalls>>
    /\ UNCHANGED <<rpending, ropen, aliases, lpending, lopen, lt, nextAlias>>

\* RemoteTrack.UpdateSubscription: nothing is written for an unfiled request.
UpdateSubscription(e, id) ==
    /\ "update" \in AppCalls
    /\ rt[e][id].call = "ok" /\ rt[e][id].kind = "subscribe"
    /\ id \in Remote(e)
    /\ rt[e][id].updates < MaxTrackCalls
    /\ rt' = [rt EXCEPT ![e][id].updates = @ + 1]
    /\ Write(e, Msg("SUBSCRIBE_UPDATE", id))
    /\ UNCHANGED <<setup, nextId, maxId, localMax, failure, handling, conn, blockedCalls>>
    /\ UNCHANGED <<rpending, ropen, aliases, lpending, lopen, lt, nextAlias>>

-----------------------------------------------------------------------------
(***************************************************************************)
(* The requesting side: the answers, handled by the reader.                *)
(***************************************************************************)

AliasTaken(e, alias) == \E p \in aliases[e] : p[1] = alias

\* remoteTrackMap.confirm takes the request out of pending and opens it.
PendingAfterConfirm(e, id) == rpending[e] \ {id}

\* SUBSCRIBE_OK: confirm, setAlias, then the answer goes into responseChan, or,
\* if that is full, the subscription is closed again.
OnSubscribeOk(e) ==
    /\ Reading(e, "SUBSCRIBE_OK")
    /\ LET m == Head(ctrl[e])
           heard == rt[e][m.id].resp = "empty" IN
       /\ m.id \in rpending[e]
       /\ rpending' = [rpending EXCEPT ![e] = PendingAfterConfirm(e, m.id)]
       /\ ropen' = [ropen EXCEPT ![e] = @ \cup {m.id}]
       /\ IF AliasTaken(e, m.val)
          THEN /\ Return(e, "duplicateTrackAlias")
               /\ Consume(e)
               /\ UNCHANGED <<aliases, rt>>
          ELSE /\ aliases' = [aliases EXCEPT ![e] = @ \cup {<<m.val, m.id>>}]
               /\ rt' = [rt EXCEPT ![e][m.id].resp = IF heard THEN "ok" ELSE @]
               /\ ConsumeAndLeave(e, IF heard THEN ctrl[Peer(e)]
                                     ELSE Written(ctrl[Peer(e)], Msg("UNSUBSCRIBE", m.id)))
               /\ UNCHANGED failure
    /\ UNCHANGED <<setup, nextId, maxId, localMax, handling, conn, blockedCalls>>
    /\ UNCHANGED <<lpending, lopen, lt, nextAlias>>

OnFetchOk(e) ==
    /\ Reading(e, "FETCH_OK")
    /\ LET m == Head(ctrl[e])
           heard == rt[e][m.id].resp = "empty" IN
       /\ m.id \in rpending[e]
       /\ rpending' = [rpending EXCEPT ![e] = PendingAfterConfirm(e, m.id)]
       /\ ropen' = [ropen EXCEPT ![e] = @ \cup {m.id}]
       /\ rt' = [rt EXCEPT ![e][m.id].resp = IF heard THEN "ok" ELSE @]
       /\ ConsumeAndLeave(e, IF heard THEN ctrl[Peer(e)]
                             ELSE Written(ctrl[Peer(e)], Msg("FETCH_CANCEL", m.id)))
    /\ UNCHANGED <<setup, nextId, maxId, localMax, failure, handling, conn, blockedCalls>>
    /\ UNCHANGED <<aliases, lpending, lopen, lt, nextAlias>>

\* SUBSCRIBE_ERROR and FETCH_ERROR take the request out of pending; an error
\* that finds responseChan full is dropped.
OnError(e, type) ==
    /\ Reading(e, type)
    /\ LET m == Head(ctrl[e]) IN
       /\ m.id \in rpending[e]
       /\ rpending' = [rpending EXCEPT ![e] = @ \ {m.id}]
       /\ rt' = [rt EXCEPT ![e][m.id].resp = IF @ = "empty" THEN "error" ELSE @]
    /\ Consume(e)
    /\ UNCHANGED <<setup, nextId, maxId, localMax, failure, handling, conn, blockedCalls>>
    /\ UNCHANGED <<ropen, aliases, lpending, lopen, lt, nextAlias>>

OnSubscribeError(e) == OnError(e, "SUBSCRIBE_ERROR")
OnFetchError(e) == OnError(e, "FETCH_ERROR")

\* SUBSCRIBE_DONE ends the track for its readers; it stays filed.
OnSubscribeDone(e) ==
    /\ Reading(e, "SUBSCRIBE_DONE")
    /\ LET m == Head(ctrl[e]) IN
       /\ m.id \in Remote(e)
       /\ rt' = [rt EXCEPT ![e][m.id].done = TRUE]
    /\ Consume(e)
    /\ UNCHANGED <<setup, nextId, maxId, localMax, failure, handling, conn, blockedCalls>>
    /\ UNCHANGED <<rpending, ropen, aliases, lpending, lopen, lt, nextAlias>>

-----------------------------------------------------------------------------
(***************************************************************************)
(* The publishing side: requests, handled by the reader.                   *)
(***************************************************************************)

\* onSubscribe and onFetch return an error for a namespace of invalid length.
OnInvalidRequest(e) ==
    /\ Reading(e, "SUBSCRIBE") \/ Reading(e, "FETCH")
    /\ Head(ctrl[e]).val = 1
    /\ Return(e, "invalidNamespaceLength")
    /\ Consume(e)
    /\ UNCHANGED <<setup, nextId, maxId, localMax, handling, conn, blockedCalls>>
    /\ UNCHANGED trackVars

\* addLocalTrack files the request unless it is over the limit or filed already.
Admissible(e, id) == ~OverLimit(e, id) /\ id \notin Local(e)

\* onSubscribe and onFetch up to the application's handler, in which the reader
\* stays until the handler returns.
OnRequest(e, kind) ==
    /\ Reading(e, RequestType(kind))
    /\ LET m == Head(ctrl[e]) IN
       /\ m.val = 0
       /\ Admissible(e, m.id)
       /\ localMax' = [localMax EXCEPT ![e] = LimitAfter(e, m.id)]
       /\ ConsumeAndLeave(e, AnnounceLimit(e, m.id))
       /\ lpending' = [lpending EXCEPT ![e] = @ \cup {m.id}]
       /\ lt' = [lt EXCEPT ![e][m.id] =
                   [NoLocalTrack EXCEPT !.kind = kind, !.alias = nextAlias[e]]]
       /\ handling' = [handling EXCEPT ![e] = m.id]
    /\ nextAlias' = [nextAlias EXCEPT ![e] = @ + 1]
    /\ UNCHANGED <<setup, nextId, maxId, failure, conn, blockedCalls>>
    /\ UNCHANGED <<rpending, ropen, aliases, rt, lopen>>

OnSubscribe(e) == OnRequest(e, "subscribe")
OnFetch(e) == OnRequest(e, "fetch")

\* A SUBSCRIBE that addLocalTrack refuses is answered with SUBSCRIBE_ERROR.
RefuseSubscribe(e) ==
    /\ Reading(e, "SUBSCRIBE")
    /\ LET m == Head(ctrl[e]) IN
       /\ m.val = 0
       /\ ~Admissible(e, m.id)
       /\ localMax' = [localMax EXCEPT ![e] = LimitAfter(e, m.id)]
       /\ ConsumeAndLeave(e, Written(AnnounceLimit(e, m.id), Msg("SUBSCRIBE_ERROR", m.id)))
    /\ IF WriteFails THEN Return(e, "writeFailed") ELSE UNCHANGED failure
    /\ nextAlias' = [nextAlias EXCEPT ![e] = @ + 1]
    /\ UNCHANGED <<setup, nextId, maxId, handling, conn, blockedCalls>>
    /\ UNCHANGED <<rpending, ropen, aliases, rt, lpending, lopen, lt>>

\* A FETCH that addLocalTrack refuses is rejected by ID, which finds it pending
\* only if it is a duplicate.  Either way the handler returns an error.
RefuseFetch(e) ==
    /\ Reading(e, "FETCH")
    /\ LET m == Head(ctrl[e])
           found == m.id \in lpending[e]
           out == AnnounceLimit(e, m.id) IN
       /\ m.val = 0
       /\ ~Admissible(e, m.id)
       /\ localMax' = [localMax EXCEPT ![e] = LimitAfter(e, m.id)]
       /\ lpending' = [lpending EXCEPT ![e] = @ \ {m.id}]
       /\ ConsumeAndLeave(e, IF found THEN Written(out, Msg("FETCH_ERROR", m.id)) ELSE out)
       /\ Return(e, IF ~found THEN "unknownRequestID"
                    ELSE IF WriteFails THEN "writeFailed" ELSE "duplicateRequestID")
    /\ nextAlias' = [nextAlias EXCEPT ![e] = @ + 1]
    /\ UNCHANGED <<setup, nextId, maxId, handling, conn, blockedCalls>>
    /\ UNCHANGED <<rpending, ropen, aliases, rt, lopen, lt>>

\* cancelCtx: the first cause stays.
Cancelled(ctx, cause) == IF ctx = "live" THEN cause ELSE ctx

OnUnsubscribe(e) ==
    /\ Reading(e, "UNSUBSCRIBE")
    /\ LET m == Head(ctrl[e]) IN
       /\ m.id \in Local(e)
       /\ lt' = [lt EXCEPT ![e][m.id].ctx = Cancelled(@, "unsubscribed")]
    /\ Consume(e)
    /\ UNCHANGED <<setup, nextId, maxId, localMax, failure, handling, conn, blockedCalls>>
    /\ UNCHANGED <<rpending, ropen, aliases, rt, lpending, lopen, nextAlias>>

OnFetchCancel(e) ==
    /\ Reading(e, "FETCH_CANCEL")
    /\ LET m == Head(ctrl[e]) IN
       /\ m.id \in Local(e)
       /\ lpending' = [lpending EXCEPT ![e] = @ \ {m.id}]
       /\ lopen' = [lopen EXCEPT ![e] = @ \ {m.id}]
       /\ lt' = [lt EXCEPT ![e][m.id].ctx = Cancelled(@, "unsubscribed")]
    /\ Consume(e)
    /\ UNCHANGED <<setup, nextId, maxId, localMax, failure, handling, conn, blockedCalls>>
    /\ UNCHANGED <<rpending, ropen, aliases, rt, nextAlias>>

\* A SUBSCRIBE_UPDATE for a filed track goes to the application, which may
\* ignore it; the track does not change.
OnSubscribeUpdate(e) ==
    /\ Reading(e, "SUBSCRIBE_UPDATE")
    /\ Head(ctrl[e]).id \in Local(e)
    /\ Consume(e)
    /\ UNCHANGED <<setup, nextId, maxId, localMax, failure, handling, conn, blockedCalls>>
    /\ UNCHANGED trackVars

\* The request a message is about is not filed where its handler looks for it.
Unfiled(e, m) ==
    \/ /\ m.type \in {"SUBSCRIBE_OK", "SUBSCRIBE_ERROR", "FETCH_OK", "FETCH_ERROR"}
       /\ m.id \notin rpending[e]
    \/ m.type = "SUBSCRIBE_DONE" /\ m.id \notin Remote(e)
    \/ /\ m.type \in {"UNSUBSCRIBE", "FETCH_CANCEL", "SUBSCRIBE_UPDATE"}
       /\ m.id \notin Local(e)

\* All these handlers return errUnknownRequestID then, which ends the reader.
OnUnknownRequestID(e) ==
    /\ ReaderIdle(e) /\ setup[e] = "done"
    /\ ctrl[e] # << >>
    /\ Unfiled(e, Head(ctrl[e]))
    /\ Return(e, "unknownRequestID")
    /\ Consume(e)
    /\ UNCHANGED <<setup, nextId, maxId, localMax, handling, conn, blockedCalls>>
    /\ UNCHANGED trackVars

-----------------------------------------------------------------------------
(***************************************************************************)
(* The publishing side: the response writer in the application's hands.    *)
(***************************************************************************)

\* A track whose response writer was used; answer says what came of it.
Handled(track, answer) == [track EXCEPT !.handled = TRUE, !.answer = answer]

\* Accept marks the request handled and, if it is pending, opens the track.
Accept(e, id) ==
    /\ "accept" \in AppCalls
    /\ id \in lpending[e] \/ (handling[e] = id /\ ~lt[e][id].handled)
    /\ lt' = [lt EXCEPT ![e][id] =
                Handled(@, IF id \in lpending[e] THEN "confirmed" ELSE lt[e][id].answer)]
    /\ lpending' = [lpending EXCEPT ![e] = @ \ {id}]
    /\ lopen' = [lopen EXCEPT ![e] = IF id \in lpending[e] THEN @ \cup {id} ELSE @]
    /\ UNCHANGED controlVars
    /\ UNCHANGED <<rpending, ropen, aliases, rt, nextAlias>>

\* The Track Alias that Accept puts into SUBSCRIBE_OK: the field is never set.
OkAlias(e, id) == 0

\* Accept goes on to write SUBSCRIBE_OK or FETCH_OK.
WriteAccept(e, id) ==
    /\ lt[e][id].answer = "confirmed"
    /\ lt' = [lt EXCEPT ![e][id].answer = "ok"]
    /\ Write(e, [type |-> OkType(lt[e][id].kind), id |-> id, val |-> OkAlias(e, id)])
    /\ UNCHANGED <<setup, nextId, maxId, localMax, failure, handling, conn, blockedCalls>>
    /\ UNCHANGED <<rpending, ropen, aliases, rt, lpending, lopen, nextAlias>>

\* localTrackMap.reject takes the request out of pending.
PendingAfterReject(e, id) == lpending[e] \ {id}

\* Reject marks the request handled and, if it is pending, writes the error.
Reject(e, id) ==
    /\ "reject" \in AppCalls
    /\ id \in lpending[e] \/ (handling[e] = id /\ ~lt[e][id].handled)
    /\ lt' = [lt EXCEPT ![e][id] =
                Handled(@, IF id \in lpending[e] THEN "error" ELSE lt[e][id].answer)]
    /\ lpending' = [lpending EXCEPT ![e] = PendingAfterReject(e, id)]
    /\ IF id \in lpending[e]
       THEN Write(e, Msg(ErrorType(lt[e][id].kind), id))
       ELSE UNCHANGED ctrl
    /\ UNCHANGED <<setup, nextId, maxId, localMax, failure, handling, conn, blockedCalls>>
    /\ UNCHANGED <<rpending, ropen, aliases, rt, lopen, nextAlias>>

\* Nobody has used the response writer by the time the handler returns.
Unhandled(e, id) == ~lt[e][id].handled

\* The handler returns to the reader.  A request it did not handle is rejected;
\* if it is not pending any more that is an error and ends the reader.
HandlerReturn(e) ==
    /\ handling[e] # NoRequest
    /\ LET id == handling[e]
           reject == Unhandled(e, id)
           found == id \in lpending[e] IN
       /\ handling' = [handling EXCEPT ![e] = NoRequest]
       /\ lpending' = [lpending EXCEPT ![e] = IF reject THEN PendingAfterReject(e, id) ELSE @]
       /\ IF reject
          THEN lt' = [lt EXCEPT ![e][id] =
                        Handled(@, IF found THEN "error" ELSE lt[e][id].answer)]
          ELSE UNCHANGED lt
       /\ IF reject /\ found
          THEN Write(e, Msg(ErrorType(lt[e][id].kind), id))
          ELSE UNCHANGED ctrl
       /\ IF reject /\ (~found \/ WriteFails)
          THEN Return(e, IF found THEN "writeFailed" ELSE "unknownRequestID")
          ELSE UNCHANGED failure
    /\ UNCHANGED <<setup, nextId, maxId, localMax, conn, blockedCalls>>
    /\ UNCHANGED <<rpending, ropen, aliases, rt, lopen, nextAlias>>

\* CloseWithError on a filed subscription: its context is cancelled, it leaves
\* the map and SUBSCRIBE_DONE is written, be it open or still unanswered.
CloseWithError(e, id) ==
    /\ "closeWithError" \in AppCalls
    /\ lt[e][id].kind = "subscribe"
    /\ id \in Local(e)
    /\ id \in lpending[e] => "closeUnanswered" \in AppCalls
    /\ lt' = [lt EXCEPT ![e][id].ctx = Cancelled(@, "done")]
    /\ lpending' = [lpending EXCEPT ![e] = @ \ {id}]
    /\ lopen' = [lopen EXCEPT ![e] = @ \ {id}]
    /\ Write(e, Msg("SUBSCRIBE_DONE", id))
    /\ UNCHANGED <<setup, nextId, maxId, localMax, failure, handling, conn, blockedCalls>>
    /\ UNCHANGED <<rpending, ropen, aliases, rt, nextAlias>>

-----------------------------------------------------------------------------

Init ==
    /\ ControlInit
    /\ rpending = [e \in Endpoints |-> {}]
    /\ ropen = [e \in Endpoints |-> {}]
    /\ aliases = [e \in Endpoints |-> {}]
    /\ rt = [e \in Endpoints |-> [id \in Ids |-> NoRemoteTrack]]
    /\ lpending = [e \in Endpoints |-> {}]
    /\ lopen = [e \in Endpoints |-> {}]
    /\ lt = [e \in Endpoints |-> [id \in Ids |-> NoLocalTrack]]
    /\ nextAlias = [e \in Endpoints |-> 0]

\* The steps of the control plane leave the tracks alone.
ControlStep(e) == ControlReads(e) /\ UNCHANGED trackVars

\* One step of the control stream reader, outside the application's handler.
Reader(e) ==
    \/ ControlStep(e)
    \/ OnSubscribe(e) \/ RefuseSubscribe(e)
    \/ OnFetch(e) \/ RefuseFetch(e) \/ OnInvalidRequest(e)
    \/ OnSubscribeOk(e) \/ OnFetchOk(e)
    \/ OnSubscribeError(e) \/ OnFetchError(e)
    \/ OnSubscribeDone(e)
    \/ OnUnsubscribe(e) \/ OnFetchCancel(e) \/ OnSubscribeUpdate(e)
    \/ OnUnknownRequestID(e)

\* The call that drew id goes on.
CallStep(e, id) == WriteRequest(e, id) \/ Resolve(e, id) \/ Abort(e, id)

\* The applications.
Application(e) ==
    \/ \E kind \in {"subscribe", "fetch"}, bad \in BOOLEAN : BeginRequest(e, kind, bad)
    \/ e \in Requesters /\ RequestBlocked(e) /\ UNCHANGED trackVars
    \/ "closeSession" \in AppCalls /\ Close(e) /\ UNCHANGED trackVars
    \/ \E id \in Ids :
         \/ Cancel(e, id) \/ CloseTrack(e, id) \/ UpdateSubscription(e, id)
         \/ Accept(e, id) \/ Reject(e, id) \/ CloseWithError(e, id)

Next ==
    \E e \in Endpoints :
      \/ Reader(e)
      \/ HandlerReturn(e)
      \/ Application(e)
      \/ \E id \in Ids : CallStep(e, id) \/ WriteAccept(e, id)

Spec == Init /\ [][Next]_vars

\* Every goroutine that can go on eventually does, and a handler returns.  The
\* applications need not make any call, nor use the response writer.
Fairness ==
    \A e \in Endpoints :
      /\ WF_vars(Reader(e))
      /\ WF_vars(HandlerReturn(e))
      /\ \A id \in Ids :
           IF e = Owner(id) THEN WF_vars(CallStep(e, id)) ELSE WF_vars(WriteAccept(e, id))

FairSpec == Spec /\ Fairness

-----------------------------------------------------------------------------
(***************************************************************************)
(* Properties.                                                             *)
(***************************************************************************)

\* Every variable has the values the code can give it, and a track is filed as
\* pending or as open, never as both, on either side.
TypeOK ==
    /\ setup \in [Endpoints -> {"waiting", "limitSet", "done"}]
    /\ nextId \in [Endpoints -> Nat]
    /\ maxId \in [Endpoints -> Nat]
    /\ localMax \in [Endpoints -> Nat]
    /\ ctrl \in [Endpoints -> Seq(Message)]
    /\ failure \in [Endpoints -> Failures]
    /\ handling \in [Endpoints -> Ids \cup {NoRequest}]
    /\ conn \in {"up", "down"}
    /\ blockedCalls \in [Endpoints -> Nat]
    /\ rpending \in [Endpoints -> SUBSET Ids]
    /\ ropen \in [Endpoints -> SUBSET Ids]
    /\ aliases \in [Endpoints -> SUBSET (Nat \X Ids)]
    /\ rt \in [Endpoints -> [Ids -> RemoteTrack]]
    /\ lpending \in [Endpoints -> SUBSET Ids]
    /\ lopen \in [Endpoints -> SUBSET Ids]
    /\ lt \in [Endpoints -> [Ids -> LocalTrack]]
    /\ nextAlias \in [Endpoints -> Nat]
    /\ \A e \in Endpoints : rpending[e] \cap ropen[e] = {} /\ lpending[e] \cap lopen[e] = {}

Requests == {"SUBSCRIBE", "FETCH"}
Answers == {"SUBSCRIBE_OK", "SUBSCRIBE_ERROR", "FETCH_OK", "FETCH_ERROR"}
Grants == {"CLIENT_SETUP", "SERVER_SETUP", "MAX_REQUEST_ID"}

\* The positions of the messages of these types in flight to e.
At(e, types) == {i \in 1 .. Len(ctrl[e]) : ctrl[e][i].type \in types}

\* No endpoint draws more than it was granted: a request in flight is below the
\* limit its receiver enforces in addLocalTrack, so addLocalTrack never refuses
\* one with errMaxRequestIDViolated (session.go:272), although the limit is
\* raised by one goroutine, announced by a message and used by any number of
\* concurrent calls.
RequestsWithinLimit ==
    \A e \in Endpoints :
      /\ maxId[Peer(e)] <= localMax[e]
      /\ \A i \in At(e, Requests) : ctrl[e][i].id < localMax[e]

\* Limits reach the peer in the order they were granted and never shrink: what is
\* in flight is no less than what the generator has, and no more than what the
\* granter enforces.  So setMax never returns errMaxRequestIDDecreased
\* (request_id.go:39), which would end the reader.
GrantsNeverShrink ==
    \A e \in Endpoints :
      /\ failure[e] # "maxRequestIDDecreased"
      /\ \A i \in At(e, Grants) :
           /\ maxId[e] <= ctrl[e][i].val
           /\ ctrl[e][i].val <= localMax[Peer(e)]
           /\ \A j \in At(e, Grants) : i < j => ctrl[e][i].val <= ctrl[e][j].val

\* A request gets at most one answer, whichever of Accept, Reject and the
\* rejection of an unhandled request comes first: the answer in flight is the
\* only one, finds responseChan empty, and belongs to a call that has written
\* its request.  So the "dropping unhandled" branches of the answer handlers
\* (session.go:1155, 1274) are never taken.
AtMostOneAnswer ==
    \A e \in Endpoints :
      /\ \A i \in At(e, Answers) :
           LET id == ctrl[e][i].id IN
           /\ rt[e][id].resp = "empty"
           /\ rt[e][id].call \in {"waiting", "aborting", "cancelled"}
           /\ \A j \in At(e, Answers) : ctrl[e][j].id = id => i = j
      /\ \A id \in rpending[e] : rt[e][id].resp = "empty"

\* Nothing is in progress: both readers wait for a message, none is in flight,
\* and no call or response writer is between two steps.
Quiet ==
    /\ conn = "up"
    /\ \A e \in Endpoints :
         /\ ReaderIdle(e) /\ setup[e] = "done" /\ ctrl[e] = << >>
         /\ \A id \in Ids : /\ rt[e][id].call \notin {"begun", "aborting"}
                           /\ lt[e][id].answer # "confirmed"

\* e has an open track and has not been told, or asked, that it ends.
Holds(e, id) ==
    /\ id \in ropen[e] /\ ~rt[e][id].done /\ rt[e][id].closes = 0
    /\ ~(rt[e][id].kind = "fetch" /\ rt[e][id].call = "cancelled")

\* e serves the track: it is open and its context is not cancelled.
Serves(e, id) == id \in lopen[e] /\ lt[e][id].ctx = "live"

\* When nothing is in progress the two ends agree: exactly the tracks that one
\* holds are served by the other, and a call that still waits does so because
\* the publisher closed the request instead of answering it.  The remoteTrackMap
\* and the localTrackMap are changed by different messages and calls that cross.
QuiescentAgreement ==
    Quiet =>
      \A e \in Endpoints, id \in Ids :
        /\ Holds(e, id) <=> Serves(Peer(e), id)
        /\ rt[e][id].call = "waiting" /\ rt[e][id].resp = "empty" => rt[e][id].done

\* A reader ends only for one of these reasons.  errUnknownRequestID is the
\* answer to a call given up by its caller, an UNSUBSCRIBE, SUBSCRIBE_UPDATE or
\* FETCH_CANCEL that crossed the end of the track at the publisher, a subscription
\* closed before it was answered, or a fetch beyond the enforced limit.
DeathHasCause ==
    \A e \in Endpoints :
      LET p == Peer(e) IN
      /\ failure[e] = "unknownRequestID" =>
           \E id \in Ids :
             \/ rt[e][id].call = "cancelled"
             \/ /\ lt[e][id].kind # "none" /\ id \notin Local(e)
                /\ \/ rt[p][id].closes + rt[p][id].updates > 0
                   \/ rt[p][id].kind = "fetch" /\ rt[p][id].call \in {"refused", "cancelled"}
                   \/ lt[e][id].ctx = "done" /\ lt[e][id].answer = "none"
             \/ rt[p][id].kind = "fetch" /\ OverLimit(e, id)
      /\ failure[e] = "duplicateTrackAlias" =>
           \E id1, id2 \in ropen[e] :
             id1 # id2 /\ rt[e][id1].kind = "subscribe" /\ rt[e][id2].kind = "subscribe"
      /\ failure[e] # "duplicateRequestID"
      /\ failure[e] = "maxRequestIDDecreased" =>
           e = Client /\ 2 * InitialMaxRequestID[Server] < ServerSetupMax
      /\ failure[e] = "invalidNamespaceLength" => \E id \in Ids : rt[p][id].badNamespace
      /\ failure[e] = "beforeSetup" => EarlyCalls
      /\ failure[e] \in {"writeFailed", "connectionClosed"} => conn = "down"

\* A Request ID is used once: a track that has left the localTrackMap, closed,
\* rejected or cancelled, is never filed again, so no late message can reach a
\* second track under an old ID (local_track_map.go:24).
NeverReused ==
    [][\A e \in Endpoints, id \in Ids :
         id \in Local(e)' /\ id \notin Local(e) => lt[e][id].kind = "none"]_vars

\* The session has lost a reader or the connection.
Broken == conn = "down" \/ \E e \in Endpoints : failure[e] # "none"

\* Subscribe and Fetch return (session.go:538, 706), unless the session breaks or
\* the publisher closed the request unanswered.
CallsReturn ==
    \A id \in Ids :
      (rt[Owner(id)][id].call \in {"begun", "waiting", "aborting"})
        ~> (\/ rt[Owner(id)][id].call \in {"ok", "refused", "cancelled", "unsent"}
            \/ rt[Owner(id)][id].done \/ Broken)

\* RemoteTrack.Close ends the track at the publisher (remote_track.go:121), unless
\* the session breaks.
CloseTakesEffect ==
    \A id \in Ids :
      (rt[Owner(id)][id].closes > 0)
        ~> (lt[Peer(Owner(id))][id].ctx # "live" \/ Broken)

\* e has used its IDs up, no limit is on its way to it, and none of its requests
\* is in the upper half of the range that the peer enforces.
Blocked(e) ==
    /\ setup[e] = "done" /\ ~IdAvailable(e)
    /\ At(e, Grants) = {}
    /\ \A id \in Ids : rt[e][id].call # "none" => id < localMax[Peer(e)] \div 2

\* An endpoint that has used its IDs up gets new ones without asking for them, since
\* its requests raise the limit (session.go:277), or it is blocked.
LimitIsRaised ==
    \A e \in Endpoints :
      (setup[e] = "done" /\ ~IdAvailable(e) /\ nextId[e] < IdBound)
        ~> (IdAvailable(e) \/ Blocked(e) \/ Broken)

\* An endpoint that is blocked stays so: only an accepted request raises the limit
\* (session.go:277), the REQUESTS_BLOCKED that it writes does not (session.go:1068),
\* and no request of the other direction does either.
BlockedForGood ==
    [][\A e \in Endpoints : Blocked(e) => Blocked(e)']_vars

\* Where SERVER_SETUP promises what the server enforces, only a limit of two or less
\* blocks: from three on, the last ID that an endpoint draws is in the upper half,
\* however the halving rounds and whichever IDs are its own (session.go:277,
\* request_id.go:28).
OnlySmallLimitsBlock ==
    \A e \in Endpoints :
      /\ Blocked(e) /\ ~Broken
      /\ e = Client => ServerSetupMax = InitialMaxRequestID[Server]
      => localMax[Peer(e)] <= 2

-----------------------------------------------------------------------------
(***************************************************************************)
(* The promise of RequestLife.                                             *)
(***************************************************************************)

\* The decision about a request whose call has not returned: the response writer's,
\* or the error with which addLocalTrack refused it, wherever that has got to.
Decision(id) ==
    LET e == Owner(id)
        answer == lt[Peer(e)][id].answer
        sent == \E i \in At(e, {"SUBSCRIBE_ERROR", "FETCH_ERROR"}) : ctrl[e][i].id = id IN
    IF answer \in {"confirmed", "ok"} THEN "accepted"
    ELSE IF answer = "error" \/ sent \/ rt[e][id].resp = "error" THEN "rejected"
    ELSE "asked"

\* The state of RequestLife.
RequestStatus ==
    [id \in Ids |->
       LET call == rt[Owner(id)][id].call IN
       IF call = "none" THEN "new"
       ELSE IF call \in {"ok", "refused"} THEN call
       ELSE IF call \in {"cancelled", "unsent"} THEN "givenUp"
       ELSE Decision(id)]

Promise == INSTANCE RequestLife WITH Requests <- Ids, status <- RequestStatus

\* The session keeps the promise of Subscribe and Fetch (session.go:472, 660): each
\* request is decided once, in one place, although Accept, Reject, CloseWithError,
\* the unhandled rejection and a refusal by addLocalTrack race each other, and the
\* caller learns that decision and no other, although its context may end while
\* the answer is on its way or in responseChan.
KeepsPromise == Promise!Spec

=============================================================================

---------------------------- MODULE ControlPlane ----------------------------
(***************************************************************************)
(* The control stream of a MoQ session and what every request shares: the  *)
(* setup exchange, the request ID generator of each endpoint, the limit    *)
(* that each endpoint grants the other with MAX_REQUEST_ID, and the reader *)
(* goroutine that stops for good at the first handler that returns an      *)
(* error (session.go, control_stream.go, request_id.go).                   *)
(*                                                                         *)
(* An endpoint is named by its perspective (connection.go), which is also  *)
(* the first ID of its generator: the client draws 0, 2, 4, ... and the    *)
(* server 1, 3, 5, ...  The QUIC stream is a FIFO per direction.           *)
(***************************************************************************)
EXTENDS Integers, Sequences, FiniteSets

CONSTANTS
    InitialMaxRequestID, \* Session.InitialMaxRequestID of each endpoint
    ServerSetupMax,      \* the limit written into SERVER_SETUP (100 in the code)
    EarlyCalls,          \* may the application use the session before Run returns?
    IdBound,             \* bound: request IDs are drawn below it
    MaxBlockedCalls      \* bound: calls of an endpoint that find the IDs exhausted

Client == 0
Server == 1
Endpoints == {Client, Server}
Peer(e) == 1 - e

ASSUME ControlAssumption ==
    /\ InitialMaxRequestID \in [Endpoints -> Nat]
    /\ ServerSetupMax \in Nat
    /\ EarlyCalls \in BOOLEAN
    /\ IdBound \in Nat \ {0}
    /\ MaxBlockedCalls \in Nat

Ids == 0 .. IdBound - 1
NoRequest == -1

MessageTypes ==
    {"CLIENT_SETUP", "SERVER_SETUP", "MAX_REQUEST_ID", "REQUESTS_BLOCKED",
     "SUBSCRIBE", "SUBSCRIBE_OK", "SUBSCRIBE_ERROR", "SUBSCRIBE_UPDATE",
     "UNSUBSCRIBE", "SUBSCRIBE_DONE",
     "FETCH", "FETCH_OK", "FETCH_ERROR", "FETCH_CANCEL",
     "ANNOUNCE", "ANNOUNCE_OK", "ANNOUNCE_ERROR", "UNANNOUNCE", "ANNOUNCE_CANCEL",
     "SUBSCRIBE_ANNOUNCES", "SUBSCRIBE_ANNOUNCES_OK", "SUBSCRIBE_ANNOUNCES_ERROR",
     "UNSUBSCRIBE_ANNOUNCES", "TRACK_STATUS_REQUEST", "TRACK_STATUS"}

\* id is the Request ID of a request or of its answer; val is the limit in the
\* setup, MAX_REQUEST_ID and REQUESTS_BLOCKED messages, the Track Alias of
\* SUBSCRIBE_OK, and the namespace of messages about announcements.  A field the
\* message does not have is 0.
Message == [type : MessageTypes, id : Ids, val : Nat]
Msg(type, id) == [type |-> type, id |-> id, val |-> 0]
LimitMsg(type, max) == [type |-> type, id |-> 0, val |-> max]

\* Why the reader of an endpoint has ended; the error the handler returned.
Failures ==
    {"none", "unknownRequestID", "duplicateTrackAlias", "duplicateRequestID",
     "maxRequestIDDecreased", "invalidNamespaceLength", "beforeSetup",
     "unknownAnnouncement", "unknownPrefix", "unknownTrackStatus", "malformed",
     "writeFailed", "connectionClosed"}

VARIABLES
    setup,         \* "waiting" for the peer's setup, "limitSet" while the server
                   \* answers it, "done" once handshakeDone is set and Run returns
    nextId,        \* requestIDGenerator.id
    maxId,         \* requestIDGenerator.max, the limit granted by the peer
    localMax,      \* Session.localMaxRequestID, the limit granted to the peer
    ctrl,          \* ctrl[e]: control messages written by Peer(e), not yet read by e
    failure,       \* the error that ended the control stream reader, or "none"
    handling,      \* the request whose application handler the reader is in
    conn,          \* "up", or "down" once one side has closed the connection
    blockedCalls   \* number of calls refused for want of an ID

controlVars == <<setup, nextId, maxId, localMax, ctrl, failure,
                 handling, conn, blockedCalls>>

(***************************************************************************)
(* Variants of the definitions below with a bug each, which the properties *)
(* are shown to catch; nothing else uses them.                             *)
(***************************************************************************)

IdAvailableOffByOne(e) == nextId[e] <= maxId[e]
IdAvailableToHalf(e) == nextId[e] < maxId[e] \div 2
NextIdNotAdvanced(e) == nextId[e]
RaisesLimitAtLastId(e, id) == id < localMax[e] /\ id + 1 >= localMax[e]
RaisesLimitOneEarly(e, id) == id < localMax[e] /\ id + 1 >= localMax[e] \div 2
LimitNotStored(e, id) == localMax[e]

(***************************************************************************)
(* Writing and reading the control stream.                                 *)
(***************************************************************************)

\* What controlStream.write leaves in flight: nothing once the connection is
\* gone, when write returns an error.
Written(queue, m) == IF conn = "up" THEN Append(queue, m) ELSE queue
WriteFails == conn = "down"

\* The application of e, or the reader of e outside a handler, writes m.
Write(e, m) == ctrl' = [ctrl EXCEPT ![Peer(e)] = Written(@, m)]

\* The reader of e is between two handlers.
ReaderIdle(e) ==
    /\ failure[e] = "none"
    /\ handling[e] = NoRequest
    /\ setup[e] # "limitSet"

\* The reader of e takes the next message; the handlers are its cases.
NextIs(e, type) ==
    /\ ReaderIdle(e)
    /\ ctrl[e] # << >>
    /\ Head(ctrl[e]).type = type
Reading(e, type) == setup[e] = "done" /\ NextIs(e, type)

Consume(e) == ctrl' = [ctrl EXCEPT ![e] = Tail(@)]

\* The reader of e takes a message and leaves `out` in flight to the peer.
ConsumeAndLeave(e, out) == ctrl' = [ctrl EXCEPT ![e] = Tail(@), ![Peer(e)] = out]

\* The handler returns err: readControlStream returns it and reads no more.
Return(e, err) == failure' = [failure EXCEPT ![e] = err]

(***************************************************************************)
(* The request ID generator.                                               *)
(***************************************************************************)

\* requestIDGenerator.next hands out nextId[e] exactly when this holds.
IdAvailable(e) == nextId[e] < maxId[e]

\* The generator steps by two, so that the endpoints never draw the same ID.
NextIdAfterDraw(e) == nextId[e] + 2

\* setMax refuses a limit below the current one.
MaxAccepted(e, v) == v >= maxId[e]

\* setMax(v) as the whole of a handler: a refused limit ends the reader.
SetMax(e, v) ==
    IF MaxAccepted(e, v)
    THEN maxId' = [maxId EXCEPT ![e] = v] /\ UNCHANGED failure
    ELSE Return(e, "maxRequestIDDecreased") /\ UNCHANGED maxId

(***************************************************************************)
(* The limit granted to the peer (addLocalTrack).                          *)
(***************************************************************************)

\* A request with this ID is over the limit.
OverLimit(e, id) == id >= localMax[e]

\* A request in the upper half of the granted range raises the limit.
RaisesLimit(e, id) == ~OverLimit(e, id) /\ id >= localMax[e] \div 2

\* localMax after a request with this ID, and what MAX_REQUEST_ID adds to the
\* messages in flight to the peer.  A failed write is only logged.
LimitAfter(e, id) == IF RaisesLimit(e, id) THEN 2 * localMax[e] ELSE localMax[e]
AnnounceLimit(e, id) ==
    IF RaisesLimit(e, id)
    THEN Written(ctrl[Peer(e)], LimitMsg("MAX_REQUEST_ID", 2 * localMax[e]))
    ELSE ctrl[Peer(e)]

-----------------------------------------------------------------------------

\* Both ends are in Run: the client has written CLIENT_SETUP.
ControlInit ==
    /\ setup = [e \in Endpoints |-> "waiting"]
    /\ nextId = [e \in Endpoints |-> e]
    /\ maxId = [e \in Endpoints |-> 0]
    /\ localMax = InitialMaxRequestID
    /\ ctrl = [e \in Endpoints |->
                 IF e = Server
                 THEN <<LimitMsg("CLIENT_SETUP", InitialMaxRequestID[Client])>>
                 ELSE << >>]
    /\ failure = [e \in Endpoints |-> "none"]
    /\ handling = [e \in Endpoints |-> NoRequest]
    /\ conn = "up"
    /\ blockedCalls = [e \in Endpoints |-> 0]

\* The server accepts CLIENT_SETUP (both ends run this library, so the version
\* and path checks pass).  The generator is enabled only by a limit above zero,
\* and from here on it serves callers that did not wait for Run.
OnClientSetup ==
    /\ setup[Server] = "waiting"
    /\ NextIs(Server, "CLIENT_SETUP")
    /\ LET max == Head(ctrl[Server]).val IN
       maxId' = [maxId EXCEPT ![Server] = IF max > 0 THEN max ELSE @]
    /\ setup' = [setup EXCEPT ![Server] = "limitSet"]
    /\ Consume(Server)
    /\ UNCHANGED <<nextId, localMax, failure, handling, conn, blockedCalls>>

\* The rest of onClientSetup.  SERVER_SETUP carries a literal, not the server's
\* own limit.  The completion that follows the write is part of the step: the only
\* ones to see it are Run, whose caller is the application of the server, and this
\* reader, which reads nothing in between.  Lifecycle has the two apart.
WriteServerSetup ==
    /\ setup[Server] = "limitSet"
    /\ failure[Server] = "none"
    /\ Write(Server, LimitMsg("SERVER_SETUP", ServerSetupMax))
    /\ IF WriteFails
       THEN Return(Server, "writeFailed") /\ UNCHANGED setup
       ELSE setup' = [setup EXCEPT ![Server] = "done"] /\ UNCHANGED failure
    /\ UNCHANGED <<nextId, maxId, localMax, handling, conn, blockedCalls>>

OnServerSetup ==
    /\ setup[Client] = "waiting"
    /\ NextIs(Client, "SERVER_SETUP")
    /\ LET max == Head(ctrl[Client]).val IN
       /\ SetMax(Client, max)
       /\ setup' = [setup EXCEPT ![Client] = IF MaxAccepted(Client, max) THEN "done" ELSE @]
    /\ Consume(Client)
    /\ UNCHANGED <<nextId, localMax, handling, conn, blockedCalls>>

\* receive: any other message before the setup is complete is an error.
OnMessageBeforeSetup(e) ==
    /\ setup[e] = "waiting"
    /\ ReaderIdle(e)
    /\ ctrl[e] # << >>
    /\ Head(ctrl[e]).type \notin {"CLIENT_SETUP", "SERVER_SETUP"}
    /\ Return(e, "beforeSetup")
    /\ Consume(e)
    /\ UNCHANGED <<setup, nextId, maxId, localMax, handling, conn, blockedCalls>>

OnMaxRequestID(e) ==
    /\ Reading(e, "MAX_REQUEST_ID")
    /\ SetMax(e, Head(ctrl[e]).val)
    /\ Consume(e)
    /\ UNCHANGED <<setup, nextId, localMax, handling, conn, blockedCalls>>

\* REQUESTS_BLOCKED is only logged: it does not raise the limit.
OnRequestsBlocked(e) ==
    /\ Reading(e, "REQUESTS_BLOCKED")
    /\ Consume(e)
    /\ UNCHANGED <<setup, nextId, maxId, localMax, failure, handling, conn,
                   blockedCalls>>

\* The code accepts calls at any time; an application that waits for Run makes
\* them after the setup.
MayCall(e) == EarlyCalls \/ setup[e] = "done"

\* A call of the application that needs an ID finds none: getRequestID writes
\* REQUESTS_BLOCKED and the call returns an error.
RequestBlocked(e) ==
    /\ MayCall(e)
    /\ ~IdAvailable(e)
    /\ blockedCalls[e] < MaxBlockedCalls
    /\ blockedCalls' = [blockedCalls EXCEPT ![e] = @ + 1]
    /\ Write(e, LimitMsg("REQUESTS_BLOCKED", maxId[e]))
    /\ UNCHANGED <<setup, nextId, maxId, localMax, failure, handling, conn>>

\* getRequestID draws an ID; what the request does with it is the caller's part.
DrawId(e) ==
    /\ MayCall(e)
    /\ IdAvailable(e)
    /\ nextId[e] < IdBound
    /\ nextId' = [nextId EXCEPT ![e] = NextIdAfterDraw(e)]

\* The application closes the session: the connection goes down for both.
Close(e) ==
    /\ MayCall(e)
    /\ conn = "up"
    /\ conn' = "down"
    /\ UNCHANGED <<setup, nextId, maxId, localMax, ctrl, failure, handling,
                   blockedCalls>>

\* The reader meets the end of the connection instead of the next message.
ReadFails(e) ==
    /\ conn = "down"
    /\ ReaderIdle(e)
    /\ Return(e, "connectionClosed")
    /\ UNCHANGED <<setup, nextId, maxId, localMax, ctrl, handling, conn,
                   blockedCalls>>

\* What the reader does with the messages of this module, and at the end.
ControlReads(e) ==
    \/ e = Server /\ (OnClientSetup \/ WriteServerSetup)
    \/ e = Client /\ OnServerSetup
    \/ OnMessageBeforeSetup(e)
    \/ OnMaxRequestID(e)
    \/ OnRequestsBlocked(e)
    \/ ReadFails(e)

=============================================================================

----------------------------- MODULE Lifecycle ------------------------------
(***************************************************************************)
(* The life of a session: Run, the setup exchange, the three readers of    *)
(* the errgroup, the handler that runs on the control stream reader, a     *)
(* call that waits for an answer, and Close, at both ends of a connection  *)
(* (session.go, session_helpers.go).  What the messages after the setup    *)
(* mean is the subject of Tracks and Announcements; here a request is any  *)
(* of them that waits for an answer.                                       *)
(***************************************************************************)
EXTENDS Integers, Sequences, FiniteSets

CONSTANTS
    SupportedVersions, \* wire.SupportedVersions of each endpoint, newest last
    Protocols,         \* the transports: "quic", "webtransport"
    PathPositions,     \* where clients put the PATH parameter: 0 for nowhere
    HandlerCalls,      \* what handlers do: "return", "close", "request"
    Events             \* what may happen besides: "loss", "datagram", "close"

Client == 0
Server == 1
Endpoints == {Client, Server}
Peer(e) == 1 - e
VersionsOf(e) == {SupportedVersions[e][i] : i \in 1 .. Len(SupportedVersions[e])}

ASSUME LifecycleAssumption ==
    /\ \A e \in Endpoints :
         /\ SupportedVersions[e] \in Seq(Nat)
         /\ \A i, j \in 1 .. Len(SupportedVersions[e]) :
              i < j => SupportedVersions[e][i] < SupportedVersions[e][j]
    /\ Protocols \subseteq {"quic", "webtransport"}
    /\ PathPositions \subseteq Nat
    /\ HandlerCalls \subseteq {"return", "close", "request"}
    /\ Events \subseteq {"loss", "datagram", "close"}

VARIABLES
    protocol,  \* conn.Protocol
    pathAt,    \* the position of the PATH parameter in CLIENT_SETUP, 0 for none
    conn,      \* "up" or "down"
    ctrl,      \* ctrl[e]: messages written by Peer(e), not yet read by e
    run,       \* Run: "none", "opening" the stream, "starting", "waiting" in the
               \* select, and "ok" or "error" once it has returned
    reader,    \* the three readers of each endpoint
    ctxDone,   \* Session.ctx, the errgroup's context, is cancelled
    version,   \* Session.version, 0 before it is set
    handshakeDone, \* handshakeDone and the closed handshakeDoneCh
    refused,   \* the setup message was refused
    caller,    \* a call of the application that waits for an answer
    closer     \* a call of Close by the application

vars == <<protocol, pathAt, conn, ctrl, run, reader, ctxDone, version,
          handshakeDone, refused, caller, closer>>

ReaderNames == {"control", "streams", "datagrams"}

\* Control messages; only SERVER_SETUP carries a version.
Message(type) == [type |-> type, version |-> 0]
ServerSetup(v) == [type |-> "SERVER_SETUP", version |-> v]
HandshakeDone(e) == handshakeDone[e]

-----------------------------------------------------------------------------
(***************************************************************************)
(* Variants of the definitions below with a bug each, which the properties *)
(* are shown to catch; nothing else uses them.                             *)
(***************************************************************************)

SelectsOldest(offered, supported) ==
    LET common == {i \in 1 .. Len(supported) : supported[i] \in offered} IN
    IF common = {} THEN 0
    ELSE supported[CHOOSE i \in common : \A j \in common : i <= j]
WaitsForHandshakeOnly(e) == HandshakeDone(e)
SelectsIndex(offered, supported) ==
    LET common == {i \in 1 .. Len(supported) : supported[i] \in offered} IN
    IF common = {} THEN 0 ELSE CHOOSE i \in common : \A j \in common : i >= j
LeavesConnectionOpen == conn
AnswerForgotten(queue) == queue
PathNeverChecked(position, isQUIC) == TRUE
KeepsDataReaders(e) == FALSE

-----------------------------------------------------------------------------
(***************************************************************************)
(* Run.                                                                    *)
(***************************************************************************)

Written(e, m) == [ctrl EXCEPT ![Peer(e)] = IF conn = "up" THEN Append(@, m) ELSE @]

CallRun(e) ==
    /\ run[e] = "none"
    /\ run' = [run EXCEPT ![e] = "opening"]
    /\ UNCHANGED <<protocol, pathAt, conn, ctrl, reader, ctxDone, version,
                   handshakeDone, refused, caller, closer>>

\* The client opens the control stream; the server accepts it, which it can once
\* the client has written on it.  The fields are set and the readers start.
OpenControlStream(e) ==
    /\ run[e] = "opening"
    /\ conn = "up"
    /\ e = Server => ctrl[Server] # << >>
    /\ run' = [run EXCEPT ![e] = IF e = Client THEN "starting" ELSE "waiting"]
    /\ reader' = [reader EXCEPT ![e] = [r \in ReaderNames |-> "running"]]
    /\ UNCHANGED <<protocol, pathAt, conn, ctrl, ctxDone, version, handshakeDone,
                   refused, caller, closer>>

OpenFails(e) ==
    /\ run[e] = "opening"
    /\ conn = "down"
    /\ run' = [run EXCEPT ![e] = "error"]
    /\ UNCHANGED <<protocol, pathAt, conn, ctrl, reader, ctxDone, version,
                   handshakeDone, refused, caller, closer>>

\* A failed write ends Run; the readers are left to themselves.
SendClientSetup ==
    /\ run[Client] = "starting"
    /\ ctrl' = Written(Client, Message("CLIENT_SETUP"))
    /\ run' = [run EXCEPT ![Client] = IF conn = "up" THEN "waiting" ELSE "error"]
    /\ UNCHANGED <<protocol, pathAt, conn, reader, ctxDone, version, handshakeDone,
                   refused, caller, closer>>

\* One of the cases of the select in Run is ready.
RunWakes(e) == HandshakeDone(e) \/ ctxDone[e]

RunEnds(e, result) ==
    /\ run[e] = "waiting"
    /\ RunWakes(e)
    /\ result = "ok" => HandshakeDone(e)
    /\ result = "error" => ctxDone[e]
    /\ run' = [run EXCEPT ![e] = result]
    /\ UNCHANGED <<protocol, pathAt, conn, ctrl, reader, ctxDone, version,
                   handshakeDone, refused, caller, closer>>

RunStep(e) ==
    \/ OpenControlStream(e) \/ OpenFails(e)
    \/ e = Client /\ SendClientSetup
    \/ \E result \in {"ok", "error"} : RunEnds(e, result)

-----------------------------------------------------------------------------
(***************************************************************************)
(* The control stream reader.                                              *)
(***************************************************************************)

\* readControlStream returns: the errgroup cancels the context.
ReaderReturns(e, which) ==
    /\ reader' = [reader EXCEPT ![e][which] = "ended"]
    /\ ctxDone' = [ctxDone EXCEPT ![e] = TRUE]

NextIs(e, m) ==
    /\ reader[e].control = "running"
    /\ ctrl[e] # << >>
    /\ Head(ctrl[e]).type = m
Taken(e) == [ctrl EXCEPT ![e] = Tail(@)]

\* The newest of the supported versions that was offered, 0 if there is none.
SelectVersion(offered, supported) ==
    LET common == {i \in 1 .. Len(supported) : supported[i] \in offered} IN
    IF common = {} THEN 0
    ELSE supported[CHOOSE i \in common : \A j \in common : i >= j]

\* validatePathParameter, as it is: PATH is required over QUIC; over WebTransport
\* only one that is not the first parameter is noticed.
PathValid(position, isQUIC) == IF isQUIC THEN position # 0 ELSE position <= 1

\* onClientSetup up to the write of SERVER_SETUP.  The version is stored before the
\* path is looked at, and the connection stays open when the setup is refused.
OnClientSetup ==
    /\ ~HandshakeDone(Server)
    /\ NextIs(Server, "CLIENT_SETUP")
    /\ LET v == SelectVersion(VersionsOf(Client), SupportedVersions[Server])
           valid == v # 0 /\ PathValid(pathAt, protocol = "quic") IN
       /\ version' = [version EXCEPT ![Server] = IF v = 0 THEN @ ELSE v]
       /\ IF valid /\ conn = "up"
          THEN /\ reader' = [reader EXCEPT ![Server].control = "completing"]
               /\ ctrl' = [Taken(Server) EXCEPT ![Client] = Append(@, ServerSetup(v))]
               /\ UNCHANGED <<ctxDone, refused>>
          ELSE /\ ReaderReturns(Server, "control")
               /\ refused' = [refused EXCEPT ![Server] = ~valid]
               /\ ctrl' = Taken(Server)
    /\ UNCHANGED <<protocol, pathAt, conn, run, handshakeDone, caller, closer>>

\* The end of onClientSetup: by then the client may have read SERVER_SETUP.
CompleteSetup ==
    /\ reader[Server].control = "completing"
    /\ handshakeDone' = [handshakeDone EXCEPT ![Server] = TRUE]
    /\ reader' = [reader EXCEPT ![Server].control = "running"]
    /\ UNCHANGED <<protocol, pathAt, conn, ctrl, run, ctxDone, version, refused,
                   caller, closer>>

\* onServerSetup.
OnServerSetup ==
    /\ ~HandshakeDone(Client)
    /\ NextIs(Client, "SERVER_SETUP")
    /\ LET v == Head(ctrl[Client]).version IN
       IF v \in VersionsOf(Client)
       THEN /\ version' = [version EXCEPT ![Client] = v]
            /\ handshakeDone' = [handshakeDone EXCEPT ![Client] = TRUE]
            /\ UNCHANGED <<reader, ctxDone, refused>>
       ELSE /\ ReaderReturns(Client, "control")
            /\ refused' = [refused EXCEPT ![Client] = TRUE]
            /\ UNCHANGED <<version, handshakeDone>>
    /\ ctrl' = Taken(Client)
    /\ UNCHANGED <<protocol, pathAt, conn, run, caller, closer>>

\* A request runs the application's handler on the reader.  One that precedes the
\* setup needs a call made before Run has returned: see EarlyCalls in Tracks.
OnRequest(e) ==
    /\ HandshakeDone(e)
    /\ NextIs(e, "REQUEST")
    /\ ctrl' = Taken(e)
    /\ reader' = [reader EXCEPT ![e].control = "handling"]
    /\ UNCHANGED <<protocol, pathAt, conn, run, ctxDone, version, handshakeDone,
                   refused, caller, closer>>

AnswerOf(queue) == Append(queue, Message("ANSWER"))

\* The handler answers and returns.  An answer that cannot be written ends the
\* reader.
HandlerReturns(e) ==
    /\ "return" \in HandlerCalls
    /\ reader[e].control = "handling"
    /\ IF conn = "up"
       THEN /\ reader' = [reader EXCEPT ![e].control = "running"]
            /\ ctrl' = [ctrl EXCEPT ![Peer(e)] = AnswerOf(@)]
            /\ UNCHANGED ctxDone
       ELSE /\ ReaderReturns(e, "control")
            /\ UNCHANGED ctrl
    /\ UNCHANGED <<protocol, pathAt, conn, run, version, handshakeDone, refused,
                   caller, closer>>

\* The handler makes a request of its own and waits for the answer, which only
\* this reader could read.
HandlerRequests(e) ==
    /\ "request" \in HandlerCalls
    /\ reader[e].control = "handling"
    /\ conn = "up"
    /\ ctrl' = Written(e, Message("REQUEST"))
    /\ reader' = [reader EXCEPT ![e].control = "stuck"]
    /\ UNCHANGED <<protocol, pathAt, conn, run, ctxDone, version, handshakeDone,
                   refused, caller, closer>>

\* The connection once Close has been called.
ConnAfterClose == "down"

\* The handler calls Close, which waits for the reader it runs on.
HandlerCloses(e) ==
    /\ "close" \in HandlerCalls
    /\ reader[e].control = "handling"
    /\ ctxDone' = [ctxDone EXCEPT ![e] = TRUE]
    /\ conn' = ConnAfterClose
    /\ reader' = [reader EXCEPT ![e].control = "stuck"]
    /\ UNCHANGED <<protocol, pathAt, ctrl, run, version, handshakeDone, refused,
                   caller, closer>>

\* An answer wakes the call that waits for it.
OnAnswer(e) ==
    /\ NextIs(e, "ANSWER")
    /\ ctrl' = Taken(e)
    /\ caller' = [caller EXCEPT ![e] = IF @ = "waiting" THEN "answered" ELSE @]
    /\ UNCHANGED <<protocol, pathAt, conn, run, reader, ctxDone, version,
                   handshakeDone, refused, closer>>

\* The reader does not look at the context; only the end of the connection or an
\* error ends it.
ControlReadFails(e) ==
    /\ reader[e].control = "running"
    /\ conn = "down"
    /\ ReaderReturns(e, "control")
    /\ UNCHANGED <<protocol, pathAt, conn, ctrl, run, version, handshakeDone,
                   refused, caller, closer>>

ControlStep(e) ==
    \/ e = Server /\ (OnClientSetup \/ CompleteSetup)
    \/ e = Client /\ OnServerSetup
    \/ OnRequest(e) \/ OnAnswer(e) \/ ControlReadFails(e)
HandlerStep(e) == HandlerReturns(e) \/ HandlerRequests(e) \/ HandlerCloses(e)

-----------------------------------------------------------------------------
(***************************************************************************)
(* The data readers, the application and the connection.                   *)
(***************************************************************************)

\* AcceptUniStream and ReceiveDatagram return when the context or the connection
\* ends.
DataReaderWakes(e) == ctxDone[e] \/ conn = "down"
DataReaderEnds(e, which) ==
    /\ which # "control"
    /\ reader[e][which] = "running"
    /\ DataReaderWakes(e)
    /\ ReaderReturns(e, which)
    /\ UNCHANGED <<protocol, pathAt, conn, ctrl, run, version, handshakeDone,
                   refused, caller, closer>>

\* A datagram that cannot be parsed or names no track ends readDatagrams, and so
\* does a transport without datagrams, which may be before the setup.
DatagramFails(e) ==
    /\ "datagram" \in Events
    /\ reader[e].datagrams = "running"
    /\ ReaderReturns(e, "datagrams")
    /\ UNCHANGED <<protocol, pathAt, conn, ctrl, run, version, handshakeDone,
                   refused, caller, closer>>

\* A call that writes a request and waits for the answer, or for nothing when the
\* write fails.  It watches the caller's context, which does not end here, and not
\* the session's.
BeginCall(e) ==
    /\ run[e] = "ok"
    /\ caller[e] = "idle"
    /\ ctrl' = Written(e, Message("REQUEST"))
    /\ caller' = [caller EXCEPT ![e] = IF conn = "up" THEN "waiting" ELSE "failed"]
    /\ UNCHANGED <<protocol, pathAt, conn, run, reader, ctxDone, version,
                   handshakeDone, refused, closer>>

\* Close: the context is cancelled and the connection closed ...
BeginClose(e) ==
    /\ "close" \in Events
    /\ run[e] \in {"ok", "error"}
    /\ reader[e].control # "none"
    /\ closer[e] = "idle"
    /\ ctxDone' = [ctxDone EXCEPT ![e] = TRUE]
    /\ conn' = ConnAfterClose
    /\ closer' = [closer EXCEPT ![e] = "waiting"]
    /\ UNCHANGED <<protocol, pathAt, ctrl, run, reader, version, handshakeDone,
                   refused, caller>>

\* ... and errgroup.Wait returns when the three readers have ended.
CloseEnds(e) ==
    /\ closer[e] = "waiting"
    /\ \A r \in ReaderNames : reader[e][r] = "ended"
    /\ closer' = [closer EXCEPT ![e] = "closed"]
    /\ UNCHANGED <<protocol, pathAt, conn, ctrl, run, reader, ctxDone, version,
                   handshakeDone, refused, caller>>

Loss ==
    /\ "loss" \in Events
    /\ conn = "up"
    /\ conn' = "down"
    /\ UNCHANGED <<protocol, pathAt, ctrl, run, reader, ctxDone, version,
                   handshakeDone, refused, caller, closer>>

-----------------------------------------------------------------------------

Init ==
    /\ protocol \in Protocols
    /\ pathAt \in PathPositions
    /\ conn = "up"
    /\ ctrl = [e \in Endpoints |-> << >>]
    /\ run = [e \in Endpoints |-> "none"]
    /\ reader = [e \in Endpoints |-> [r \in ReaderNames |-> "none"]]
    /\ ctxDone = [e \in Endpoints |-> FALSE]
    /\ version = [e \in Endpoints |-> 0]
    /\ handshakeDone = [e \in Endpoints |-> FALSE]
    /\ refused = [e \in Endpoints |-> FALSE]
    /\ caller = [e \in Endpoints |-> "idle"]
    /\ closer = [e \in Endpoints |-> "idle"]

Next ==
    \/ Loss
    \/ \E e \in Endpoints :
         \/ CallRun(e) \/ RunStep(e) \/ ControlStep(e) \/ HandlerStep(e)
         \/ DatagramFails(e) \/ BeginCall(e) \/ BeginClose(e) \/ CloseEnds(e)
         \/ \E which \in ReaderNames : DataReaderEnds(e, which)

Spec == Init /\ [][Next]_vars

\* The goroutines of the library go on, and so does a handler.  Nothing obliges
\* the applications to call, and messages and losses need not happen.
Fairness ==
    \A e \in Endpoints :
      /\ WF_vars(RunStep(e)) /\ WF_vars(ControlStep(e)) /\ WF_vars(HandlerStep(e))
      /\ WF_vars(CloseEnds(e))
      /\ \A which \in ReaderNames : WF_vars(DataReaderEnds(e, which))

FairSpec == Spec /\ Fairness

-----------------------------------------------------------------------------
(***************************************************************************)
(* Properties.                                                             *)
(***************************************************************************)

\* What is written on the control stream.
Messages ==
    {Message(t) : t \in {"CLIENT_SETUP", "REQUEST", "ANSWER"}}
      \cup {ServerSetup(v) : v \in VersionsOf(Server)}

\* What a reader does: it runs, completes a setup it has answered, runs a handler,
\* or is stuck in one that waits for it.
ReaderStates == {"none", "running", "completing", "handling", "stuck", "ended"}

\* Every variable has the values the code can give it.
TypeOK ==
    /\ protocol \in Protocols /\ pathAt \in PathPositions
    /\ conn \in {"up", "down"}
    /\ ctrl \in [Endpoints -> Seq(Messages)]
    /\ run \in [Endpoints -> {"none", "opening", "starting", "waiting", "ok", "error"}]
    /\ reader \in [Endpoints -> [ReaderNames -> ReaderStates]]
    /\ ctxDone \in [Endpoints -> BOOLEAN]
    /\ version \in [Endpoints -> VersionsOf(Server) \cup {0}]
    /\ handshakeDone \in [Endpoints -> BOOLEAN]
    /\ refused \in [Endpoints -> BOOLEAN]
    /\ caller \in [Endpoints -> {"idle", "waiting", "answered", "failed"}]
    /\ closer \in [Endpoints -> {"idle", "waiting", "closed"}]

\* The setup both ends work with (session.go:998, 1043, session_helpers.go:39).
\* Either end may complete it before the other: the client as soon as SERVER_SETUP
\* is written, the server before the client has read it.  Yet the client never
\* refuses what the server has settled on, completes it only with a server that
\* has not refused it, and with the version that server has stored, and whoever
\* completes it works with the newest version both support.  A session over QUIC
\* has a path; over WebTransport only a PATH that is the first parameter goes
\* unnoticed.
AgreedSetup ==
    LET common == VersionsOf(Client) \cap VersionsOf(Server) IN
    /\ ~refused[Client]
    /\ HandshakeDone(Client) => version[Client] = version[Server] /\ ~refused[Server]
    /\ \A e \in Endpoints : HandshakeDone(e) =>
         /\ version[e] \in common
         /\ \A v \in common : v <= version[e]
         /\ IF protocol = "quic" THEN pathAt # 0 ELSE pathAt \in {0, 1}

\* An application handler that waits for its own reader (session.go:1120).
Stuck(e) == reader[e].control = "stuck"

\* Run returns (session.go:138) once both ends have called it, unless the peer has
\* refused the setup: then the connection stays open and nothing ends the wait.
RunReturns ==
    \A e \in Endpoints :
      (run[e] # "none" /\ run[Peer(e)] # "none")
        ~> (run[e] \in {"ok", "error"} \/ refused[Peer(e)])

\* Close returns (session.go:146), whatever the peer does, unless a handler of the
\* session itself waits for the reader it runs on.
CloseReturns == \A e \in Endpoints : (closer[e] = "waiting") ~> (closer[e] = "closed" \/ Stuck(e))

\* A call gets its answer (session.go:538) unless the connection goes, the peer's
\* reader has ended, or a handler on either side waits for its own reader.  A
\* datagram that ends the data readers of one end does not keep calls from
\* returning.
CallsReturn ==
    \A e \in Endpoints :
      (caller[e] = "waiting")
        ~> \/ caller[e] = "answered"
           \/ conn = "down" \/ Stuck(e) \/ Stuck(Peer(e))
           \/ \E f \in Endpoints : reader[f].control = "ended"

\* The end of any reader ends the two accept loops (session.go:166, 188), so that
\* a session whose control stream is gone takes no new stream and no datagram.
\* Goroutines of streams it has taken before go on (session.go:174): see DataPlane.
ReadersEndTogether ==
    \A e \in Endpoints :
      (\E r \in ReaderNames : reader[e][r] = "ended")
        ~> (reader[e].streams = "ended" /\ reader[e].datagrams = "ended")

=============================================================================

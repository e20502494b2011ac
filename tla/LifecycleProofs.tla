-------------------------- MODULE LifecycleProofs ---------------------------
(***************************************************************************)
(* Theorems about Lifecycle, for every list of versions, transport,        *)
(* position of the PATH parameter and behaviour of handlers and            *)
(* application.                                                            *)
(***************************************************************************)
EXTENDS Lifecycle, SequenceTheorems, WellFoundedInduction, TLAPS

-----------------------------------------------------------------------------
(***************************************************************************)
(* SelectVersion.                                                          *)
(***************************************************************************)

\* A set of positions that is not empty has a last one.
LEMMA LastPosition ==
    ASSUME NEW n \in Nat, NEW S, S \subseteq 1 .. n, S # {}
    PROVE  \E m \in S : \A k \in S : m >= k
<1> DEFINE T == {n - i : i \in S}
           R == OpToRel(<, Nat)
<1>1. IsWellFoundedOn(R, Nat)
  BY NatLessThanWellFounded
<1>2. T \subseteq Nat /\ T # {}
  <2>1. \A i \in S : n - i \in Nat
    OBVIOUS
  <2>2. PICK i : i \in S
    OBVIOUS
  <2>3. n - i \in T
    BY <2>2
  <2> QED  BY <2>1, <2>3
<1>3. \A x, y \in Nat : <<y, x>> \in R <=> y < x
  BY DEF OpToRel
<1> HIDE DEF R
<1>4. PICK x \in T : \A y \in T : ~(<<y, x>> \in R)
  BY <1>1, <1>2, WFMin
<1>5. PICK m \in S : x = n - m
  BY <1>4
<1>6. ASSUME NEW k \in S PROVE m >= k
  <2>1. n - k \in T /\ n - k \in Nat /\ x \in Nat
    BY <1>2
  <2>2. ~(n - k < x)
    BY <1>3, <1>4, <2>1
  <2> QED  BY <1>5, <2>2
<1> QED  BY <1>6

\* The version selected is supported, was offered, and no newer one is both.
LEMMA SelectedVersion ==
    ASSUME NEW offered, NEW supported \in Seq(Nat),
           \A i, j \in 1 .. Len(supported) : i < j => supported[i] < supported[j],
           SelectVersion(offered, supported) # 0
    PROVE  /\ SelectVersion(offered, supported) \in offered
           /\ \E i \in 1 .. Len(supported) : SelectVersion(offered, supported) = supported[i]
           /\ \A j \in 1 .. Len(supported) :
                supported[j] \in offered => supported[j] <= SelectVersion(offered, supported)
<1> DEFINE common == {i \in 1 .. Len(supported) : supported[i] \in offered}
           last == CHOOSE i \in common : \A j \in common : i >= j
<1>1. common # {} /\ SelectVersion(offered, supported) = supported[last]
  BY DEF SelectVersion
<1>2. last \in common /\ \A j \in common : last >= j
  <2>1. \E i \in common : \A j \in common : i >= j
    <3>1. Len(supported) \in Nat
      BY LenProperties
    <3>2. common \subseteq 1 .. Len(supported)
      BY Zenon
    <3> HIDE DEF common
    <3> QED  BY <1>1, <3>1, <3>2, LastPosition
  <2> QED  BY <2>1
<1>3. \A j \in common : supported[j] <= supported[last]
  <2> TAKE j \in common
  <2>1. CASE j = last
    BY <1>2, <2>1
  <2>2. CASE j < last
    BY <1>2, <2>2
  <2> QED  BY <1>2, <2>1, <2>2
<1> HIDE DEF last
<1> QED  BY <1>1, <1>2, <1>3

\* What the server selects: nothing, or the newest version both ends support.
LEMMA ServerSelects ==
    LET v == SelectVersion(VersionsOf(Client), SupportedVersions[Server]) IN
    v # 0 => /\ v \in VersionsOf(Client) /\ v \in VersionsOf(Server)
             /\ \A w \in VersionsOf(Client) \cap VersionsOf(Server) : w <= v
<1> DEFINE v == SelectVersion(VersionsOf(Client), SupportedVersions[Server])
<1> SUFFICES ASSUME v # 0
             PROVE  /\ v \in VersionsOf(Client) /\ v \in VersionsOf(Server)
                    /\ \A w \in VersionsOf(Client) \cap VersionsOf(Server) : w <= v
  OBVIOUS
<1>1. /\ SupportedVersions[Server] \in Seq(Nat)
      /\ \A i, j \in 1 .. Len(SupportedVersions[Server]) :
           i < j => SupportedVersions[Server][i] < SupportedVersions[Server][j]
  BY LifecycleAssumption DEF Endpoints
<1>2. /\ v \in VersionsOf(Client)
      /\ \E i \in 1 .. Len(SupportedVersions[Server]) : v = SupportedVersions[Server][i]
      /\ \A j \in 1 .. Len(SupportedVersions[Server]) :
           SupportedVersions[Server][j] \in VersionsOf(Client)
             => SupportedVersions[Server][j] <= v
  BY <1>1, SelectedVersion
<1>3. \A w \in VersionsOf(Server) : \E j \in 1 .. Len(SupportedVersions[Server]) :
        w = SupportedVersions[Server][j]
  BY DEF VersionsOf
<1>4. v \in VersionsOf(Server)
  BY <1>2 DEF VersionsOf
<1> HIDE DEF v
<1> QED  BY <1>2, <1>3, <1>4

-----------------------------------------------------------------------------
(***************************************************************************)
(* Types.                                                                  *)
(***************************************************************************)

\* The peer of an endpoint is the other endpoint.
LEMMA PeerType ==
    ASSUME NEW e \in Endpoints
    PROVE  Peer(e) \in Endpoints /\ Peer(e) # e
BY DEF Endpoints, Client, Server, Peer

\* What the endpoints write is a message.
LEMMA MessageType ==
    /\ Message("CLIENT_SETUP") \in Messages
    /\ Message("REQUEST") \in Messages
    /\ Message("ANSWER") \in Messages
    /\ \A v \in VersionsOf(Server) : ServerSetup(v) \in Messages
BY DEF Messages

\* Writing and taking messages keep the channels well typed.
LEMMA WrittenType ==
    ASSUME TypeOK, NEW e \in Endpoints, NEW m \in Messages
    PROVE  Written(e, m) \in [Endpoints -> Seq(Messages)]
BY PeerType DEF Written, TypeOK

LEMMA TakenType ==
    ASSUME TypeOK, NEW e \in Endpoints, ctrl[e] # << >>
    PROVE  Taken(e) \in [Endpoints -> Seq(Messages)]
<1>1. Tail(ctrl[e]) \in Seq(Messages)
  BY HeadTailProperties DEF TypeOK
<1> QED  BY <1>1 DEF Taken, TypeOK

\* The end of a reader keeps the readers and contexts well typed.
LEMMA ReaderType ==
    ASSUME TypeOK, NEW e \in Endpoints, NEW which \in ReaderNames,
           ReaderReturns(e, which)
    PROVE  /\ reader' \in [Endpoints -> [ReaderNames -> ReaderStates]]
           /\ ctxDone' \in [Endpoints -> BOOLEAN]
BY DEF ReaderReturns, TypeOK, ReaderStates

\* So does a change of the control stream reader.
LEMMA ControlReaderType ==
    ASSUME TypeOK, NEW e \in Endpoints, NEW s \in ReaderStates,
           reader' = [reader EXCEPT ![e].control = s]
    PROVE  reader' \in [Endpoints -> [ReaderNames -> ReaderStates]]
<1>1. "control" \in ReaderNames
  BY DEF ReaderNames
<1> QED  BY <1>1 DEF TypeOK, ReaderStates

\* Every step keeps the types.
LEMMA TypeStep ==
    ASSUME TypeOK, [Next]_vars
    PROVE  TypeOK'
<1> USE DEF ReaderStates
<1>c. "control" \in ReaderNames /\ "datagrams" \in ReaderNames
  BY DEF ReaderNames
<1>s. Client \in Endpoints /\ Server \in Endpoints
  BY DEF Endpoints
<1>1. CASE UNCHANGED vars
  BY <1>1 DEF TypeOK, vars
<1>2. CASE Loss
  BY <1>2 DEF TypeOK, Loss
<1>3. ASSUME NEW e \in Endpoints, CallRun(e) PROVE TypeOK'
  BY <1>3 DEF TypeOK, CallRun
<1>4. ASSUME NEW e \in Endpoints, RunStep(e) PROVE TypeOK'
  <2>1. CASE OpenControlStream(e)
    BY <2>1 DEF TypeOK, OpenControlStream
  <2>2. CASE OpenFails(e)
    BY <2>2 DEF TypeOK, OpenFails
  <2>3. CASE SendClientSetup
    <3>1. ctrl' \in [Endpoints -> Seq(Messages)]
      BY <1>s, <2>3, WrittenType, MessageType DEF SendClientSetup
    <3> QED  BY <2>3, <3>1 DEF TypeOK, SendClientSetup
  <2>4. ASSUME NEW result \in {"ok", "error"}, RunEnds(e, result) PROVE TypeOK'
    BY <2>4 DEF TypeOK, RunEnds
  <2> QED  BY <1>4, <2>1, <2>2, <2>3, <2>4 DEF RunStep
<1>5. ASSUME NEW e \in Endpoints, ControlStep(e) PROVE TypeOK'
  <2>1. CASE OnClientSetup
    <3> DEFINE v == SelectVersion(VersionsOf(Client), SupportedVersions[Server])
    <3>1. Taken(Server) \in [Endpoints -> Seq(Messages)]
      BY <1>s, <2>1, TakenType DEF OnClientSetup, NextIs
    <3>2. v = 0 \/ v \in VersionsOf(Server)
      BY ServerSelects
    <3>3. version' = [version EXCEPT ![Server] = IF v = 0 THEN @ ELSE v]
      BY <2>1 DEF OnClientSetup
    <3>4. version' \in [Endpoints -> VersionsOf(Server) \cup {0}]
      <4> HIDE DEF v
      <4> QED  BY <3>2, <3>3 DEF TypeOK
    <3>5. CASE ReaderReturns(Server, "control") /\ ctrl' = Taken(Server)
      <4>1. refused' \in [Endpoints -> BOOLEAN]
        BY <1>s, <2>1, <3>5 DEF OnClientSetup, TypeOK
      <4>2. /\ reader' \in [Endpoints -> [ReaderNames -> ReaderStates]]
            /\ ctxDone' \in [Endpoints -> BOOLEAN]
        BY <1>c, <1>s, <3>5, ReaderType
      <4>3. UNCHANGED <<protocol, pathAt, conn, run, handshakeDone, caller, closer>>
        BY <2>1 DEF OnClientSetup
      <4> HIDE DEF v
      <4> QED  BY <3>1, <3>4, <3>5, <4>1, <4>2, <4>3 DEF TypeOK
    <3>6. CASE /\ v # 0
               /\ reader' = [reader EXCEPT ![Server].control = "completing"]
               /\ ctrl' = [Taken(Server) EXCEPT ![Client] = Append(@, ServerSetup(v))]
               /\ UNCHANGED <<ctxDone, refused>>
      <4>1. UNCHANGED <<protocol, pathAt, conn, run, handshakeDone, caller, closer>>
        BY <2>1 DEF OnClientSetup
      <4> HIDE DEF v
      <4>2. ctrl' \in [Endpoints -> Seq(Messages)]
        BY <1>s, <3>1, <3>2, <3>6, MessageType
      <4>3. reader' \in [Endpoints -> [ReaderNames -> ReaderStates]]
        BY <1>s, <3>6, ControlReaderType
      <4> QED  BY <3>4, <3>6, <4>1, <4>2, <4>3 DEF TypeOK
    <3> QED  BY <2>1, <3>5, <3>6 DEF OnClientSetup
  <2>2. CASE OnServerSetup
    <3> DEFINE h == Head(ctrl[Client])
    <3>1. /\ ctrl' = Taken(Client)
          /\ ctrl' \in [Endpoints -> Seq(Messages)]
      BY <1>s, <2>2, TakenType DEF OnServerSetup, NextIs
    <3>2. CASE ReaderReturns(Client, "control") /\ UNCHANGED version
      <4>1. refused' \in [Endpoints -> BOOLEAN]
        BY <1>s, <2>2, <3>2 DEF OnServerSetup, TypeOK
      <4> QED  BY <1>c, <1>s, <2>2, <3>1, <3>2, <4>1, ReaderType DEF OnServerSetup, TypeOK
    <3>3. CASE /\ version' = [version EXCEPT ![Client] = h.version]
               /\ handshakeDone' = [handshakeDone EXCEPT ![Client] = TRUE]
               /\ UNCHANGED <<reader, ctxDone, refused>>
      <4>1. h \in Messages
        BY <1>s, <2>2, HeadTailProperties DEF OnServerSetup, NextIs, TypeOK
      <4>2. h.version \in VersionsOf(Server) \cup {0}
        BY <4>1 DEF Messages, Message, ServerSetup
      <4> QED  BY <2>2, <3>1, <3>3, <4>2 DEF OnServerSetup, TypeOK
    <3> QED  BY <2>2, <3>2, <3>3 DEF OnServerSetup
  <2>3. CASE OnRequest(e)
    <3>1. ctrl' \in [Endpoints -> Seq(Messages)]
      BY <1>5, <2>3, TakenType DEF OnRequest, NextIs
    <3>2. reader' \in [Endpoints -> [ReaderNames -> ReaderStates]]
      BY <1>5, <2>3, ControlReaderType DEF OnRequest
    <3> QED  BY <2>3, <3>1, <3>2 DEF OnRequest, TypeOK
  <2>4. CASE OnAnswer(e)
    <3>1. ctrl' \in [Endpoints -> Seq(Messages)]
      BY <1>5, <2>4, TakenType DEF OnAnswer, NextIs
    <3> QED  BY <2>4, <3>1 DEF OnAnswer, TypeOK
  <2>5. CASE ControlReadFails(e)
    BY <1>5, <1>c, <2>5, ReaderType DEF ControlReadFails, TypeOK
  <2>6. CASE CompleteSetup
    <3>1. reader' \in [Endpoints -> [ReaderNames -> ReaderStates]]
      BY <1>s, <2>6, ControlReaderType DEF CompleteSetup
    <3>2. handshakeDone' \in [Endpoints -> BOOLEAN]
      BY <2>6 DEF CompleteSetup, TypeOK
    <3> QED  BY <2>6, <3>1, <3>2 DEF CompleteSetup, TypeOK
  <2> QED  BY <1>5, <2>1, <2>2, <2>3, <2>4, <2>5, <2>6 DEF ControlStep
<1>6. ASSUME NEW e \in Endpoints, HandlerStep(e) PROVE TypeOK'
  <2>1. CASE HandlerReturns(e)
    <3>1. CASE /\ reader' = [reader EXCEPT ![e].control = "running"]
               /\ ctrl' = [ctrl EXCEPT ![Peer(e)] = AnswerOf(@)]
               /\ UNCHANGED ctxDone
      <4>1. reader' \in [Endpoints -> [ReaderNames -> ReaderStates]]
        BY <1>6, <3>1, ControlReaderType
      <4>2. ctrl' \in [Endpoints -> Seq(Messages)]
        BY <1>6, <3>1, PeerType, MessageType DEF AnswerOf, TypeOK
      <4> QED  BY <2>1, <3>1, <4>1, <4>2 DEF HandlerReturns, TypeOK
    <3>2. CASE ReaderReturns(e, "control") /\ UNCHANGED ctrl
      BY <1>6, <1>c, <2>1, <3>2, ReaderType DEF HandlerReturns, TypeOK
    <3> QED  BY <2>1, <3>1, <3>2 DEF HandlerReturns
  <2>2. CASE HandlerRequests(e)
    <3>1. reader' \in [Endpoints -> [ReaderNames -> ReaderStates]]
      BY <1>6, <2>2, ControlReaderType DEF HandlerRequests
    <3>2. ctrl' \in [Endpoints -> Seq(Messages)]
      BY <1>6, <2>2, WrittenType, MessageType DEF HandlerRequests
    <3> QED  BY <2>2, <3>1, <3>2 DEF HandlerRequests, TypeOK
  <2>3. CASE HandlerCloses(e)
    <3>1. reader' \in [Endpoints -> [ReaderNames -> ReaderStates]]
      BY <1>6, <2>3, ControlReaderType DEF HandlerCloses
    <3> QED  BY <2>3, <3>1 DEF HandlerCloses, ConnAfterClose, TypeOK
  <2> QED  BY <1>6, <2>1, <2>2, <2>3 DEF HandlerStep
<1>7. ASSUME NEW e \in Endpoints, DatagramFails(e) PROVE TypeOK'
  BY <1>7, <1>c, ReaderType DEF DatagramFails, TypeOK
<1>8. ASSUME NEW e \in Endpoints, BeginCall(e) PROVE TypeOK'
  <2>1. ctrl' \in [Endpoints -> Seq(Messages)]
    BY <1>8, WrittenType, MessageType DEF BeginCall
  <2> QED  BY <1>8, <2>1 DEF BeginCall, TypeOK
<1>9. ASSUME NEW e \in Endpoints, BeginClose(e) PROVE TypeOK'
  BY <1>9 DEF BeginClose, ConnAfterClose, TypeOK
<1>10. ASSUME NEW e \in Endpoints, CloseEnds(e) PROVE TypeOK'
  BY <1>10 DEF CloseEnds, TypeOK
<1>11. ASSUME NEW e \in Endpoints, NEW which \in ReaderNames, DataReaderEnds(e, which)
       PROVE  TypeOK'
  BY <1>11, ReaderType DEF DataReaderEnds, TypeOK
<1> QED  BY <1>1, <1>2, <1>3, <1>4, <1>5, <1>6, <1>7, <1>8, <1>9, <1>10, <1>11 DEF Next

\* Every variable keeps its type, whatever the handlers, the applications and the
\* connection do.
THEOREM TypeCorrect == Spec => []TypeOK
<1>1. Init => TypeOK
  <2>1. << >> \in Seq(Messages)
    OBVIOUS
  <2> QED  BY <2>1 DEF Init, TypeOK, ReaderStates
<1> QED  BY <1>1, TypeStep, PTL DEF Spec

-----------------------------------------------------------------------------
(***************************************************************************)
(* The setup both ends agree on.                                           *)
(***************************************************************************)

\* The server has accepted the setup: it has written SERVER_SETUP.
Settled == HandshakeDone(Server) \/ reader[Server].control = "completing"

\* What the server has settled on stays as it is, for it reads no second setup.
SettledWell ==
    LET common == VersionsOf(Client) \cap VersionsOf(Server) IN
    Settled =>
      /\ ~refused[Server]
      /\ version[Server] \in common /\ \A v \in common : v <= version[Server]
      /\ IF protocol = "quic" THEN pathAt # 0 ELSE pathAt \in {0, 1}

\* A setup message to the client is what the server has settled on, and so is what
\* the client has read.  Without this, AgreedSetup would not say what the client is
\* about to read.
SettledInFlight ==
    /\ \A i \in 1 .. Len(ctrl[Client]) :
         ctrl[Client][i].type = "SERVER_SETUP" =>
           Settled /\ ctrl[Client][i].version = version[Server]
    /\ HandshakeDone(Client) => Settled /\ version[Client] = version[Server]

\* The readers do not start before the control stream is there.
ReaderBegun == run[Server] \in {"none", "opening"} => reader[Server].control = "none"

\* A refusal ends the reader, so that no later setup can be accepted.
RefusalEnds == refused[Server] => reader[Server].control = "ended"

SetupInv == ~refused[Client] /\ SettledWell /\ SettledInFlight /\ ReaderBegun /\ RefusalEnds

LEMMA SetupInvImplies ==
    ASSUME SetupInv
    PROVE  AgreedSetup
BY DEF SetupInv, SettledWell, SettledInFlight, AgreedSetup, Settled, Endpoints

\* A step that is not part of the setup: it may take messages to the client and
\* write others.
SetupApart ==
    /\ UNCHANGED <<protocol, pathAt, version, handshakeDone, refused>>
    /\ ReaderBegun' /\ RefusalEnds' /\ (Settled' <=> Settled)
    /\ \A i \in 1 .. Len(ctrl'[Client]) :
         \/ ctrl'[Client][i].type # "SERVER_SETUP"
         \/ \E j \in 1 .. Len(ctrl[Client]) : ctrl[Client][j] = ctrl'[Client][i]

LEMMA ApartKeeps ==
    ASSUME SetupInv, SetupApart
    PROVE  SetupInv'
<1> USE DEF SetupInv, SetupApart, HandshakeDone
<1>1. SettledWell'
  BY DEF SettledWell
<1>2. SettledInFlight'
  BY DEF SettledInFlight
<1> QED  BY <1>1, <1>2

\* The reader of the server's control stream before and after a step that neither
\* answers nor completes a setup.
ReaderApart ==
    /\ ReaderBegun'
    /\ (reader'[Server].control = "completing") <=> (reader[Server].control = "completing")
    /\ reader[Server].control = "ended" => reader'[Server].control = "ended"

\* Steps that are not of the control stream reader leave it alone, or start it.
LEMMA OthersApart ==
    ASSUME TypeOK, ReaderBegun, NEW e \in Endpoints, NEW which \in ReaderNames,
           \/ CallRun(e) \/ OpenControlStream(e) \/ OpenFails(e) \/ SendClientSetup
           \/ \E result \in {"ok", "error"} : RunEnds(e, result)
           \/ DatagramFails(e) \/ BeginCall(e) \/ BeginClose(e) \/ CloseEnds(e)
           \/ DataReaderEnds(e, which) \/ Loss \/ UNCHANGED vars
    PROVE  ReaderApart
<1>s. Server \in Endpoints /\ Client \in Endpoints /\ Client # Server
  BY DEF Endpoints, Client, Server
<1>c. "control" \in ReaderNames /\ "datagrams" \in ReaderNames
  BY DEF ReaderNames
<1>0. ASSUME UNCHANGED <<run, reader>> PROVE ReaderApart
  BY <1>0 DEF ReaderApart, ReaderBegun
<1>1. CASE CallRun(e)
  BY <1>s, <1>1 DEF CallRun, ReaderApart, ReaderBegun, TypeOK
<1>2. CASE OpenControlStream(e)
  BY <1>s, <1>c, <1>2 DEF OpenControlStream, ReaderApart, ReaderBegun, TypeOK
<1>3. CASE OpenFails(e)
  BY <1>s, <1>3 DEF OpenFails, ReaderApart, ReaderBegun, TypeOK
<1>4. CASE SendClientSetup
  BY <1>s, <1>4 DEF SendClientSetup, ReaderApart, ReaderBegun, TypeOK
<1>5. ASSUME NEW result \in {"ok", "error"}, RunEnds(e, result) PROVE ReaderApart
  BY <1>s, <1>5 DEF RunEnds, ReaderApart, ReaderBegun, TypeOK
<1>6. CASE DatagramFails(e)
  BY <1>s, <1>c, <1>6 DEF DatagramFails, ReaderReturns, ReaderApart, ReaderBegun, TypeOK
<1>7. CASE DataReaderEnds(e, which)
  BY <1>s, <1>c, <1>7 DEF DataReaderEnds, ReaderReturns, ReaderApart, ReaderBegun, TypeOK
<1>8. CASE BeginCall(e) \/ BeginClose(e) \/ CloseEnds(e) \/ Loss \/ UNCHANGED vars
  BY <1>0, <1>8 DEF BeginCall, BeginClose, CloseEnds, Loss, vars
<1> QED  BY <1>1, <1>2, <1>3, <1>4, <1>5, <1>6, <1>7, <1>8

\* A reader that takes a message, or runs a handler, was not completing a setup, and
\* does not begin to.
LEMMA ControlApart ==
    ASSUME TypeOK, ReaderBegun, UNCHANGED run, NEW e \in Endpoints,
           NEW s \in ReaderStates \ {"none", "completing"},
           reader[e].control \in {"running", "handling"},
           \/ reader' = [reader EXCEPT ![e].control = s]
           \/ ReaderReturns(e, "control")
           \/ UNCHANGED reader
    PROVE  ReaderApart
<1>s. Server \in Endpoints /\ "control" \in ReaderNames
  BY DEF Endpoints, ReaderNames
<1>1. reader'[Server].control = reader[Server].control
        \/ (e = Server /\ reader'[Server].control # "completing")
  <2>1. CASE reader' = [reader EXCEPT ![e].control = s]
    BY <1>s, <2>1 DEF TypeOK
  <2>2. CASE reader' = [reader EXCEPT ![e]["control"] = "ended"]
    BY <1>s, <2>2 DEF TypeOK
  <2> QED  BY <2>1, <2>2 DEF ReaderReturns
<1>2. CASE e # Server
  <2>1. reader'[Server].control = reader[Server].control
    BY <1>1, <1>2
  <2> QED  BY <2>1 DEF ReaderApart, ReaderBegun
<1>3. CASE e = Server
  <2>1. run[Server] \notin {"none", "opening"}
    BY <1>3 DEF ReaderBegun
  <2> QED  BY <1>1, <1>3, <2>1 DEF ReaderApart, ReaderBegun
<1> QED  BY <1>2, <1>3

\* What is in flight to the client after a write or a read that is not of the setup.
LEMMA ChannelApart ==
    ASSUME TypeOK, NEW e \in Endpoints, NEW t \in {"CLIENT_SETUP", "REQUEST", "ANSWER"},
           NEW c \in [Endpoints -> Seq(Messages)],
           \/ c = ctrl
           \/ c = [ctrl EXCEPT ![e] = Append(@, Message(t))]
           \/ ctrl[e] # << >> /\ c = Taken(e)
    PROVE  \A i \in 1 .. Len(c[Client]) :
             \/ c[Client][i].type # "SERVER_SETUP"
             \/ \E j \in 1 .. Len(ctrl[Client]) : ctrl[Client][j] = c[Client][i]
<1> DEFINE q == ctrl[Client]
<1>0. q \in Seq(Messages) /\ Len(q) \in Nat
  BY DEF TypeOK, Endpoints
<1>1. CASE c[Client] = q
  BY <1>1
<1>2. CASE c[Client] = Append(q, Message(t))
  <2> SUFFICES ASSUME NEW i \in 1 .. Len(c[Client])
               PROVE  \/ c[Client][i].type # "SERVER_SETUP"
                      \/ \E j \in 1 .. Len(q) : q[j] = c[Client][i]
    OBVIOUS
  <2>1. Message(t) \in Messages /\ Message(t).type # "SERVER_SETUP"
    BY MessageType DEF Message
  <2> HIDE DEF q
  <2>2. (i \in 1 .. Len(q) /\ c[Client][i] = q[i]) \/ c[Client][i] = Message(t)
    BY <1>0, <1>2, <2>1
  <2> QED  BY <2>1, <2>2
<1>3. CASE q # << >> /\ c[Client] = Tail(q)
  <2> HIDE DEF q
  <2>1. /\ Len(Tail(q)) = Len(q) - 1
        /\ \A i \in 1 .. Len(Tail(q)) : Tail(q)[i] = q[i + 1] /\ i + 1 \in 1 .. Len(q)
    BY <1>0, <1>3, HeadTailProperties
  <2> SUFFICES ASSUME NEW i \in 1 .. Len(Tail(q))
               PROVE  \E j \in 1 .. Len(q) : q[j] = Tail(q)[i]
    BY <1>3 DEF q
  <2> QED  BY <2>1
<1>4. c[Client] = q \/ c[Client] = Append(q, Message(t))
        \/ (q # << >> /\ c[Client] = Tail(q))
  <2>1. c = [ctrl EXCEPT ![e] = Append(@, Message(t))]
          => c[Client] = q \/ c[Client] = Append(q, Message(t))
    BY DEF TypeOK, Endpoints
  <2>2. ctrl[e] # << >> /\ c = Taken(e) => c[Client] = q \/ (q # << >> /\ c[Client] = Tail(q))
    BY DEF Taken, TypeOK, Endpoints
  <2> QED  BY <2>1, <2>2
<1> QED  BY <1>1, <1>2, <1>3, <1>4

\* Every step is apart from the setup, but the two setup handlers and the
\* completion of the server's.
LEMMA SetupStep ==
    ASSUME TypeOK, SetupInv, [Next]_vars
    PROVE  SetupInv'
<1>t. TypeOK'
  BY TypeStep
<1>s. Client \in Endpoints /\ Server \in Endpoints /\ Client # Server /\ Peer(Server) = Client
  BY DEF Endpoints, Client, Server, Peer
<1>b. ReaderBegun
  BY DEF SetupInv
<1>0. ASSUME UNCHANGED <<protocol, pathAt, version, handshakeDone, refused>>, ReaderApart,
             NEW e \in Endpoints, NEW t \in {"CLIENT_SETUP", "REQUEST", "ANSWER"},
             \/ UNCHANGED ctrl
             \/ ctrl' = [ctrl EXCEPT ![e] = Append(@, Message(t))]
             \/ ctrl[e] # << >> /\ ctrl' = Taken(e)
      PROVE  SetupInv'
  <2>1. ctrl' \in [Endpoints -> Seq(Messages)]
    BY <1>t DEF TypeOK
  <2>2. \A i \in 1 .. Len(ctrl'[Client]) :
          \/ ctrl'[Client][i].type # "SERVER_SETUP"
          \/ \E j \in 1 .. Len(ctrl[Client]) : ctrl[Client][j] = ctrl'[Client][i]
    BY <1>0, <2>1, ChannelApart
  <2>3. ReaderBegun' /\ RefusalEnds' /\ (Settled' <=> Settled)
    BY <1>0 DEF ReaderApart, Settled, HandshakeDone, SetupInv, RefusalEnds
  <2>4. SetupApart
    BY <1>0, <2>2, <2>3 DEF SetupApart
  <2> QED  BY <2>4, ApartKeeps
<1>w. ASSUME NEW e \in Endpoints, NEW t \in {"CLIENT_SETUP", "REQUEST", "ANSWER"},
             ctrl' = Written(e, Message(t)), ReaderApart,
             UNCHANGED <<protocol, pathAt, version, handshakeDone, refused>>
      PROVE  SetupInv'
  <2>1. UNCHANGED ctrl \/ ctrl' = [ctrl EXCEPT ![Peer(e)] = Append(@, Message(t))]
    BY <1>w, PeerType DEF Written, TypeOK
  <2> QED  BY <1>0, <1>w, <2>1, PeerType
<1>1. ASSUME ReaderApart, UNCHANGED <<ctrl, protocol, pathAt, version, handshakeDone, refused>>
      PROVE  SetupInv'
  BY <1>0, <1>1, <1>s
<1>n. PICK r \in ReaderNames : TRUE
  BY DEF ReaderNames
<1>2. CASE SendClientSetup
  <2>1. ReaderApart
    BY <1>2, <1>b, <1>n, <1>s, OthersApart
  <2> QED  BY <1>2, <1>s, <1>w, <2>1 DEF SendClientSetup
<1>3. CASE OnClientSetup
  <2> DEFINE v == SelectVersion(VersionsOf(Client), SupportedVersions[Server])
             q == ctrl[Client]
  <2>1. /\ UNCHANGED <<protocol, pathAt, run, handshakeDone>> /\ ~HandshakeDone(Server)
        /\ reader[Server].control = "running" /\ ctrl[Server] # << >>
        /\ version' = [version EXCEPT ![Server] = IF v = 0 THEN @ ELSE v]
    BY <1>3 DEF OnClientSetup, NextIs
  <2>2. ~Settled
    BY <2>1 DEF Settled
  <2>3. ~HandshakeDone(Client) /\ ~HandshakeDone(Client)'
    BY <2>1, <2>2 DEF SetupInv, SettledInFlight, HandshakeDone
  <2>4. q \in Seq(Messages) /\ Len(q) \in Nat
    BY <1>s DEF TypeOK
  <2>5. \A i \in 1 .. Len(q) : q[i].type # "SERVER_SETUP"
    BY <2>2 DEF SetupInv, SettledInFlight
  <2>6. run'[Server] \notin {"none", "opening"}
    BY <1>b, <2>1 DEF ReaderBegun
  <2>7. ReaderBegun'
    BY <2>6 DEF ReaderBegun
  <2>8. CASE ctrl' = Taken(Server) /\ ReaderReturns(Server, "control")
             /\ refused'[Client] = refused[Client]
    <3>1. ctrl'[Client] = q
      BY <1>s, <2>8 DEF Taken, TypeOK
    <3>2. reader'[Server].control = "ended"
      BY <1>s, <2>8 DEF ReaderReturns, TypeOK, ReaderNames
    <3>3. ~Settled'
      BY <2>1, <3>2 DEF Settled, HandshakeDone
    <3> HIDE DEF q, v
    <3>4. SettledInFlight'
      BY <2>3, <2>5, <3>1 DEF SettledInFlight
    <3> QED  BY <2>7, <2>8, <3>2, <3>3, <3>4 DEF SetupInv, SettledWell, RefusalEnds
  <2>9. CASE /\ v # 0 /\ PathValid(pathAt, protocol = "quic")
             /\ reader' = [reader EXCEPT ![Server].control = "completing"]
             /\ ctrl' = [Taken(Server) EXCEPT ![Client] = Append(@, ServerSetup(v))]
             /\ UNCHANGED refused
    <3>1. /\ v \in VersionsOf(Client) /\ v \in VersionsOf(Server)
          /\ \A w \in VersionsOf(Client) \cap VersionsOf(Server) : w <= v
      BY <2>9, ServerSelects
    <3> HIDE DEF v
    <3>2. version'[Server] = v
      BY <1>s, <2>1, <2>9 DEF TypeOK
    <3>3. IF protocol = "quic" THEN pathAt # 0 ELSE pathAt \in {0, 1}
      BY <2>9, LifecycleAssumption DEF PathValid, TypeOK
    <3>4. Settled'
      BY <1>s, <2>9 DEF Settled, TypeOK, ReaderNames
    <3>5. ~refused'[Server] /\ ~refused'[Client]
      BY <2>1, <2>9 DEF SetupInv, RefusalEnds
    <3>6. SettledWell'
      BY <2>1, <3>1, <3>2, <3>3, <3>5 DEF SettledWell
    <3>7. ctrl'[Client] = Append(q, ServerSetup(v))
      BY <1>s, <2>9 DEF Taken, TypeOK
    <3>8. ServerSetup(v).version = v /\ ServerSetup(v) \in Messages
      BY <3>1, MessageType DEF ServerSetup
    <3> HIDE DEF q
    <3>9. \A i \in 1 .. Len(ctrl'[Client]) :
            (i \in 1 .. Len(q) /\ ctrl'[Client][i] = q[i]) \/ ctrl'[Client][i] = ServerSetup(v)
      BY <2>4, <3>7, <3>8
    <3>10. SettledInFlight'
      BY <2>3, <2>5, <3>2, <3>4, <3>8, <3>9 DEF SettledInFlight
    <3> QED  BY <2>7, <3>5, <3>6, <3>10 DEF SetupInv, RefusalEnds
  <2>10. \/ /\ ctrl' = Taken(Server) /\ ReaderReturns(Server, "control")
            /\ refused'[Client] = refused[Client]
         \/ /\ v # 0 /\ PathValid(pathAt, protocol = "quic")
            /\ reader' = [reader EXCEPT ![Server].control = "completing"]
            /\ ctrl' = [Taken(Server) EXCEPT ![Client] = Append(@, ServerSetup(v))]
            /\ UNCHANGED refused
    BY <1>3, <1>s DEF OnClientSetup, TypeOK
  <2> QED  BY <2>8, <2>9, <2>10
<1>4. CASE CompleteSetup
  <2>1. /\ UNCHANGED <<protocol, pathAt, ctrl, run, version, refused>>
        /\ reader[Server].control = "completing"
        /\ handshakeDone' = [handshakeDone EXCEPT ![Server] = TRUE]
    BY <1>4 DEF CompleteSetup
  <2>2. Settled /\ Settled'
    BY <1>s, <2>1 DEF Settled, HandshakeDone, TypeOK
  <2>3. HandshakeDone(Client)' <=> HandshakeDone(Client)
    BY <1>s, <2>1 DEF HandshakeDone, TypeOK
  <2>4. SettledWell' /\ ~refused'[Client]
    BY <2>1, <2>2 DEF SetupInv, SettledWell
  <2>5. SettledInFlight'
    BY <2>1, <2>2, <2>3 DEF SetupInv, SettledInFlight
  <2>6. ReaderBegun' /\ RefusalEnds'
    BY <1>b, <2>1 DEF ReaderBegun, SetupInv, RefusalEnds
  <2> QED  BY <2>4, <2>5, <2>6 DEF SetupInv
<1>5. CASE OnServerSetup
  <2> DEFINE v == Head(ctrl[Client]).version
  <2>1. /\ UNCHANGED <<protocol, pathAt, run>> /\ ctrl' = Taken(Client) /\ ctrl[Client] # << >>
        /\ reader[Client].control = "running"
    BY <1>5 DEF OnServerSetup, NextIs
  <2>2. Settled /\ v = version[Server]
    <3>1. ctrl[Client] \in Seq(Messages) /\ Head(ctrl[Client]) = ctrl[Client][1]
      BY <1>s, <2>1, HeadTailProperties DEF TypeOK
    <3>2. 1 \in 1 .. Len(ctrl[Client])
      BY <2>1, <3>1
    <3> QED  BY <1>5, <3>1, <3>2 DEF OnServerSetup, NextIs, SetupInv, SettledInFlight
  <2>3. v \in VersionsOf(Client)
    BY <2>2 DEF SetupInv, SettledWell
  <2>4. /\ version' = [version EXCEPT ![Client] = v]
        /\ handshakeDone' = [handshakeDone EXCEPT ![Client] = TRUE]
        /\ UNCHANGED <<reader, refused>>
    BY <1>5, <2>3 DEF OnServerSetup
  <2> HIDE DEF v
  <2>5. version'[Client] = v /\ version'[Server] = v
    BY <1>s, <2>2, <2>4 DEF TypeOK
  <2>6. Settled'
    BY <1>s, <2>2, <2>4 DEF Settled, HandshakeDone, TypeOK
  <2>7. SettledWell' /\ ReaderBegun' /\ RefusalEnds' /\ ~refused'[Client]
    BY <2>1, <2>2, <2>4, <2>5 DEF SetupInv, SettledWell, ReaderBegun, RefusalEnds
  <2>8. SettledInFlight'
    <3>1. \A i \in 1 .. Len(ctrl'[Client]) :
            \/ ctrl'[Client][i].type # "SERVER_SETUP"
            \/ \E j \in 1 .. Len(ctrl[Client]) : ctrl[Client][j] = ctrl'[Client][i]
      <4>1. ctrl' \in [Endpoints -> Seq(Messages)]
        BY <1>t DEF TypeOK
      <4> QED  BY <1>s, <2>1, <4>1, ChannelApart
    <3> QED  BY <2>2, <2>5, <2>6, <3>1 DEF SetupInv, SettledInFlight
  <2> QED  BY <2>7, <2>8 DEF SetupInv
<1>6. ASSUME NEW e \in Endpoints,
             OnRequest(e) \/ OnAnswer(e) \/ ControlReadFails(e) \/ HandlerStep(e)
      PROVE  SetupInv'
  <2>1. ReaderApart
    <3>1. UNCHANGED run /\ reader[e].control \in {"running", "handling"}
      BY <1>6 DEF OnRequest, OnAnswer, ControlReadFails, HandlerStep, HandlerReturns,
                  HandlerRequests, HandlerCloses, NextIs
    <3>2. \/ \E s \in ReaderStates \ {"none", "completing"} :
               reader' = [reader EXCEPT ![e].control = s]
          \/ ReaderReturns(e, "control")
          \/ UNCHANGED reader
      <4>1. {"running", "handling", "stuck"} \subseteq ReaderStates \ {"none", "completing"}
        BY DEF ReaderStates
      <4> QED  BY <1>6, <4>1
               DEF OnRequest, OnAnswer, ControlReadFails, HandlerStep, HandlerReturns,
                   HandlerRequests, HandlerCloses
    <3>3. "running" \in ReaderStates \ {"none", "completing"}
      BY DEF ReaderStates
    <3> QED  BY <1>b, <1>6, <3>1, <3>2, <3>3, ControlApart
  <2>2. CASE OnRequest(e)
    BY <1>0, <1>6, <2>1, <2>2 DEF OnRequest, NextIs
  <2>3. CASE OnAnswer(e)
    BY <1>0, <1>6, <2>1, <2>3 DEF OnAnswer, NextIs
  <2>4. CASE ControlReadFails(e)
    BY <1>1, <2>1, <2>4 DEF ControlReadFails
  <2>5. CASE HandlerReturns(e)
    <3>1. UNCHANGED ctrl \/ ctrl' = [ctrl EXCEPT ![Peer(e)] = Append(@, Message("ANSWER"))]
      BY <2>5 DEF HandlerReturns, AnswerOf
    <3> QED  BY <1>0, <1>6, <2>1, <2>5, <3>1, PeerType DEF HandlerReturns
  <2>6. CASE HandlerRequests(e)
    BY <1>6, <1>w, <2>1, <2>6 DEF HandlerRequests
  <2>7. CASE HandlerCloses(e)
    BY <1>1, <2>1, <2>7 DEF HandlerCloses
  <2> QED  BY <1>6, <2>2, <2>3, <2>4, <2>5, <2>6, <2>7 DEF HandlerStep
<1>7. ASSUME NEW e \in Endpoints, BeginCall(e) PROVE SetupInv'
  <2>1. ReaderApart
    BY <1>7, <1>b, <1>n, OthersApart
  <2> QED  BY <1>7, <1>w, <2>1 DEF BeginCall
<1>8. ASSUME NEW e \in Endpoints, NEW which \in ReaderNames,
             \/ CallRun(e) \/ OpenControlStream(e) \/ OpenFails(e)
             \/ \E result \in {"ok", "error"} : RunEnds(e, result)
             \/ DatagramFails(e) \/ BeginClose(e) \/ CloseEnds(e)
             \/ DataReaderEnds(e, which) \/ Loss \/ UNCHANGED vars
      PROVE  SetupInv'
  <2>1. ReaderApart
    BY <1>8, <1>b, OthersApart
  <2> QED
    BY <1>1, <1>8, <2>1
       DEF CallRun, OpenControlStream, OpenFails, RunEnds, DatagramFails, BeginClose,
           CloseEnds, DataReaderEnds, Loss, vars
<1> QED
  BY <1>2, <1>3, <1>4, <1>5, <1>6, <1>7, <1>8, <1>n, <1>s DEF Next, RunStep, ControlStep

\* Whichever end completes the setup first, both work with the newest version they
\* support, the one the server has stored, and the client never refuses it.
THEOREM SetupAgreed == Spec => []AgreedSetup
<1>1. Init => SetupInv
  <2> SUFFICES ASSUME Init PROVE SetupInv
    OBVIOUS
  <2>1. Len(ctrl[Client]) = 0 /\ ~HandshakeDone(Client) /\ ~HandshakeDone(Server)
    BY DEF Init, Endpoints, HandshakeDone
  <2>2. reader[Server].control = "none" /\ ~refused[Client] /\ ~refused[Server]
    BY DEF Init, Endpoints, ReaderNames
  <2>3. ~Settled
    BY <2>1, <2>2 DEF Settled
  <2> QED
    BY <2>1, <2>2, <2>3 DEF SetupInv, SettledWell, SettledInFlight, ReaderBegun, RefusalEnds
<1>2. SetupInv => AgreedSetup
  BY SetupInvImplies
<1> QED  BY <1>1, <1>2, TypeCorrect, SetupStep, PTL DEF Spec

=============================================================================

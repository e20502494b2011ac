----------------------------- MODULE DataPlane ------------------------------
(***************************************************************************)
(* The objects of the tracks of module Tracks.  A publishing goroutine     *)
(* opens subgroup streams, the one fetch stream of a fetch, or sends       *)
(* datagrams; the session of the subscriber accepts streams, finds the     *)
(* remote track that a stream or a datagram names, and puts the objects    *)
(* into its bounded buffer, from which ReadObject takes them (session.go,  *)
(* local_track.go, subgroup.go, fetch_stream.go, remote_track.go,          *)
(* internal/wire/object_stream_parser.go).                                 *)
(*                                                                         *)
(* Streams, datagrams and the control stream are not ordered with respect  *)
(* to each other: data overtakes SUBSCRIBE_OK and FETCH_OK, and            *)
(* SUBSCRIBE_DONE overtakes data.                                          *)
(***************************************************************************)
EXTENDS Tracks

CONSTANTS
    Writers,      \* goroutines of the publishing applications
    BufferSize,   \* capacity of RemoteTrack.buffer (100 in the code)
    MaxStreams,   \* bound: unidirectional streams opened
    MaxObjects,   \* bound: objects written on one stream
    MaxDatagrams  \* bound: datagrams sent

\* The holder of a lock that nobody holds.
NoOne == "nobody"

ASSUME DataAssumption ==
    /\ IsFiniteSet(Writers) /\ NoOne \notin Writers
    /\ BufferSize \in Nat \ {0}
    /\ MaxStreams \in Nat /\ MaxObjects \in Nat /\ MaxDatagrams \in Nat

VARIABLES
    writer,         \* what each publishing goroutine does
    streams,        \* the unidirectional streams, in the order they were opened
    subgroupCount,  \* localTrack.subgroupCount
    fetchStream,    \* localTrack.fetchStream: a position in streams, or 0
    fetchLock,      \* holder of localTrack.fetchStreamLock
    doneCount,      \* StreamCount of the SUBSCRIBE_DONE written, or -1
    raced,          \* tracks whose openSubgroup overlapped another or CloseWithError
    datagrams,      \* datagrams in flight
    datagramsSent,  \* number of datagrams sent
    rash,           \* endpoints sent a datagram before they could expect one
    dataReaders,    \* readStreams and readDatagrams of each endpoint
    buffer,         \* RemoteTrack.buffer
    dropped,        \* objects that found the buffer full
    got,            \* what ReadObject returned
    reading         \* whether the application still calls ReadObject

publisherVars == <<writer, subgroupCount, fetchStream, fetchLock, raced>>
datagramVars == <<datagrams, datagramsSent, rash>>
bufferVars == <<buffer, dropped>>
readVars == <<got, reading>>
dataVars == <<publisherVars, streams, doneCount, datagramVars, dataReaders, bufferVars,
              readVars>>

\* pc of a publishing goroutine: "opening" has passed closed() of openSubgroup;
\* "counting" has the stream and has loaded the count; "fetching" holds
\* fetchStreamLock; "writing" has the Subgroup or FetchStream.
NoWork == [pc |-> "idle", id |-> NoRequest, stream |-> 0, seen |-> 0]

\* The endpoints of a track.
Subscriber(id) == Owner(id)
Publisher(id) == Peer(Owner(id))
Kind(id) == lt[Publisher(id)][id].kind

\* state of a stream: "opened" by the publisher, the header is not written;
\* "sent"; "accepted" by readStreams; "reading" for the track target; "ended";
\* "unknown" when no track was found; "tooMany" for a second fetch stream; "cut".
\* settled says that the subscriber had its track when the stream was opened.
NewStream(id, settled, state) ==
    [track |-> id, settled |-> settled, written |-> 0, fin |-> FALSE,
     state |-> state, target |-> NoRequest, read |-> 0]

StreamsOf(id) == {i \in 1 .. Len(streams) : streams[i].track = id}

\* The object n of a stream; datagrams count as stream 0.
Object(id, stream, n) == [track |-> id, stream |-> stream, n |-> n]

\* Subscribe or Fetch has returned the track, and SUBSCRIBE_OK carried the alias
\* that the publisher uses.
Settled(id) ==
    /\ rt[Subscriber(id)][id].call = "ok"
    /\ Kind(id) = "subscribe" => lt[Publisher(id)][id].alias = OkAlias(Publisher(id), id)

-----------------------------------------------------------------------------
(***************************************************************************)
(* Variants of the definitions below with a bug each, which the properties *)
(* are shown to catch; nothing else uses them.                             *)
(***************************************************************************)

FetchLockNotTaken(id) == TRUE
CountsAttempts(seen, opened) == seen + 1
PushesAlways(id, o) == Append(buffer[id], o)
OverwritesOldest(id, o) ==
    IF Len(buffer[id]) < BufferSize THEN Append(buffer[id], o)
    ELSE Append(Tail(buffer[id]), o)
FindsPendingOnly(e, id) == IF id \in rpending[e] THEN id ELSE NoRequest

-----------------------------------------------------------------------------
(***************************************************************************)
(* The publishing side.                                                    *)
(***************************************************************************)

Idle(w) == writer[w].pc = "idle"
Working(w, fields) == writer' = [writer EXCEPT ![w] = fields]

InOpenSubgroup(id) ==
    {w \in Writers : writer[w].id = id /\ writer[w].pc \in {"opening", "counting"}}

\* openSubgroup on a track that is not closed.  The response writer exists from
\* the request on; nothing makes the publisher wait for its own Accept.
OpenSubgroup(w, id) ==
    /\ Idle(w)
    /\ Len(streams) < MaxStreams
    /\ Kind(id) = "subscribe"
    /\ lt[Publisher(id)][id].ctx = "live"
    /\ Working(w, [NoWork EXCEPT !.pc = "opening", !.id = id])
    /\ raced' = IF InOpenSubgroup(id) # {} THEN raced \cup {id} ELSE raced
    /\ UNCHANGED <<subgroupCount, fetchStream, fetchLock, streams, doneCount,
                   datagramVars, dataReaders, bufferVars, readVars>>

\* subgroupCount after an attempt: only an opened stream counts.
CountAfter(seen, opened) == IF opened THEN seen + 1 ELSE seen

\* OpenUniStream, which does not block, may fail for want of stream credit, and
\* fails when the connection is gone.  The load of subgroupCount++ follows.
OpenStream(w, ok) ==
    /\ writer[w].pc = "opening"
    /\ Len(streams) < MaxStreams
    /\ ok => conn = "up"
    /\ LET id == writer[w].id IN
       IF ok
       THEN /\ streams' = Append(streams, NewStream(id, Settled(id), "opened"))
            /\ Working(w, [writer[w] EXCEPT !.pc = "counting", !.stream = Len(streams) + 1,
                                            !.seen = subgroupCount[id]])
            /\ UNCHANGED subgroupCount
       ELSE /\ Working(w, NoWork)
            /\ subgroupCount' = [subgroupCount EXCEPT ![id] = CountAfter(@, FALSE)]
            /\ UNCHANGED streams
    /\ UNCHANGED <<fetchStream, fetchLock, raced, doneCount,
                   datagramVars, dataReaders, bufferVars, readVars>>

\* The store of subgroupCount++, which is not atomic, then newSubgroup writes the header.
WriteHeader(w) ==
    /\ writer[w].pc = "counting"
    /\ LET id == writer[w].id
           i == writer[w].stream IN
       /\ subgroupCount' = [subgroupCount EXCEPT ![id] = CountAfter(writer[w].seen, TRUE)]
       /\ streams' = [streams EXCEPT ![i].state = IF conn = "up" THEN "sent" ELSE "cut"]
       /\ Working(w, IF conn = "up" THEN [writer[w] EXCEPT !.pc = "writing", !.seen = 0]
                     ELSE NoWork)
    /\ UNCHANGED <<fetchStream, fetchLock, raced, doneCount, datagramVars, dataReaders,
                   bufferVars, readVars>>

FetchLockFree(id) == fetchLock[id] = NoOne

\* getFetchStream: under the lock, the stream there is, or a new one.
GetFetchStream(w, id) ==
    /\ Idle(w)
    /\ Kind(id) = "fetch"
    /\ FetchLockFree(id)
    /\ lt[Publisher(id)][id].ctx = "live"
    /\ IF fetchStream[id] # 0
       THEN /\ Working(w, [NoWork EXCEPT !.pc = "writing", !.id = id,
                                         !.stream = fetchStream[id]])
            /\ UNCHANGED fetchLock
       ELSE /\ Len(streams) < MaxStreams
            /\ Working(w, [NoWork EXCEPT !.pc = "fetching", !.id = id])
            /\ fetchLock' = [fetchLock EXCEPT ![id] = w]
    /\ UNCHANGED <<subgroupCount, fetchStream, raced, streams, doneCount, datagramVars,
                   dataReaders, bufferVars, readVars>>

\* OpenUniStream and the header; the stream is kept before the lock is released.
OpenFetchStream(w, ok) ==
    /\ writer[w].pc = "fetching"
    /\ Len(streams) < MaxStreams
    /\ ok => conn = "up"
    /\ LET id == writer[w].id
           i == Len(streams) + 1 IN
       /\ fetchLock' = [fetchLock EXCEPT ![id] = NoOne]
       /\ IF ok
          THEN /\ streams' = Append(streams, NewStream(id, Settled(id), "sent"))
               /\ fetchStream' = [fetchStream EXCEPT ![id] = i]
               /\ Working(w, [writer[w] EXCEPT !.pc = "writing", !.stream = i])
          ELSE /\ Working(w, NoWork)
               /\ UNCHANGED <<streams, fetchStream>>
    /\ UNCHANGED <<subgroupCount, raced, doneCount, datagramVars, dataReaders,
                   bufferVars, readVars>>

\* Subgroup.WriteObject and FetchStream.WriteObject.  They do not look at the
\* track: objects are written after it was closed, too.
WriteObject(w) ==
    /\ writer[w].pc = "writing"
    /\ conn = "up"
    /\ LET i == writer[w].stream IN
       /\ ~streams[i].fin
       /\ streams[i].written < MaxObjects
       /\ streams' = [streams EXCEPT ![i].written = @ + 1]
    /\ UNCHANGED <<publisherVars, doneCount, datagramVars, dataReaders, bufferVars,
                   readVars>>

\* Subgroup.Close and FetchStream.Close.
CloseStream(w) ==
    /\ writer[w].pc = "writing"
    /\ streams' = [streams EXCEPT ![writer[w].stream].fin = (conn = "up") \/ @]
    /\ Working(w, NoWork)
    /\ UNCHANGED <<subgroupCount, fetchStream, fetchLock, raced, doneCount, datagramVars,
                   dataReaders, bufferVars, readVars>>

\* sendDatagram on a track that is not closed.
SendDatagram(w, id) ==
    /\ Idle(w)
    /\ Kind(id) = "subscribe"
    /\ lt[Publisher(id)][id].ctx = "live"
    /\ conn = "up"
    /\ datagramsSent < MaxDatagrams
    /\ datagramsSent' = datagramsSent + 1
    /\ datagrams' = datagrams \cup {Object(id, 0, datagramsSent + 1)}
    /\ rash' = IF Settled(id) THEN rash ELSE rash \cup {Subscriber(id)}
    /\ UNCHANGED <<publisherVars, streams, doneCount, dataReaders, bufferVars, readVars>>

\* What a writer does inside a call of the library.
WriterStep(w) ==
    \/ \E ok \in BOOLEAN : OpenStream(w, ok) \/ OpenFetchStream(w, ok)
    \/ WriteHeader(w)

WriterCall(w) ==
    \/ \E id \in Ids : OpenSubgroup(w, id) \/ GetFetchStream(w, id) \/ SendDatagram(w, id)
    \/ WriteObject(w) \/ CloseStream(w)

-----------------------------------------------------------------------------
(***************************************************************************)
(* The subscribing side: streams and datagrams.                            *)
(***************************************************************************)

\* What the header of a stream, or a datagram, names: a fetch its request, a
\* subgroup the alias of the publisher.
HeaderKey(id) == IF Kind(id) = "fetch" THEN id ELSE lt[Publisher(id)][id].alias

FindByRequestID(e, id) == IF id \in Remote(e) THEN id ELSE NoRequest

\* The alias leads to a request ID, and that to the track.
FindByTrackAlias(e, alias) ==
    IF AliasTaken(e, alias)
    THEN FindByRequestID(e, (CHOOSE p \in aliases[e] : p[1] = alias)[2])
    ELSE NoRequest

\* The errgroup's context is cancelled by the first of the three readers to end.
SessionDone(e) ==
    \/ failure[e] # "none"
    \/ dataReaders[e].streams # "running" \/ dataReaders[e].datagrams # "running"

\* readStreams accepts a stream and starts a goroutine for it.
AcceptStream(i) ==
    /\ i <= Len(streams)
    /\ streams[i].state = "sent"
    /\ conn = "up"
    /\ dataReaders[Subscriber(streams[i].track)].streams = "running"
    /\ streams' = [streams EXCEPT ![i].state = "accepted"]
    /\ UNCHANGED <<publisherVars, doneCount, datagramVars, dataReaders, bufferVars,
                   readVars>>

\* The header is parsed and the track looked up, once.  What is not found is not
\* read; the goroutine ends without a trace.
FindTrack(i) ==
    /\ i <= Len(streams)
    /\ streams[i].state = "accepted"
    /\ conn = "up"
    /\ LET id == streams[i].track
           e == Subscriber(id)
           isFetch == Kind(id) = "fetch"
           t == IF isFetch THEN FindByRequestID(e, HeaderKey(id))
                ELSE FindByTrackAlias(e, HeaderKey(id))
           second == isFetch /\ \E j \in StreamsOf(id) : streams[j].target = t IN
       streams' = [streams EXCEPT
         ![i].state = IF t = NoRequest THEN "unknown"
                      ELSE IF second THEN "tooMany" ELSE "reading",
         ![i].target = t]
    /\ UNCHANGED <<publisherVars, doneCount, datagramVars, dataReaders, bufferVars,
                   readVars>>

\* RemoteTrack.push does not wait for room in the buffer.
BufferAfter(id, o) ==
    IF Len(buffer[id]) < BufferSize THEN Append(buffer[id], o) ELSE buffer[id]
Push(id, o) ==
    /\ buffer' = [buffer EXCEPT ![id] = BufferAfter(id, o)]
    /\ dropped' = [dropped EXCEPT ![id] = IF Len(buffer[id]) < BufferSize THEN @
                                          ELSE @ \cup {o}]

\* The next object of a stream.  What is in flight when the connection goes may
\* still be read.
ReadStream(i) ==
    /\ i <= Len(streams)
    /\ streams[i].state = "reading"
    /\ streams[i].read < streams[i].written
    /\ Push(streams[i].target, Object(streams[i].track, i, streams[i].read + 1))
    /\ streams' = [streams EXCEPT ![i].read = @ + 1]
    /\ UNCHANGED <<publisherVars, doneCount, datagramVars, dataReaders, readVars>>

EndOfStream(i) ==
    /\ i <= Len(streams)
    /\ streams[i].state = "reading"
    /\ streams[i].fin /\ streams[i].read = streams[i].written
    /\ streams' = [streams EXCEPT ![i].state = "ended"]
    /\ UNCHANGED <<publisherVars, doneCount, datagramVars, dataReaders, bufferVars,
                   readVars>>

\* A stream meets the end of the connection.
StreamCut(i) ==
    /\ conn = "down"
    /\ i <= Len(streams)
    /\ streams[i].state \in {"sent", "accepted", "reading"}
    /\ streams' = [streams EXCEPT ![i].state = "cut"]
    /\ UNCHANGED <<publisherVars, doneCount, datagramVars, dataReaders, bufferVars,
                   readVars>>

\* receiveDatagram.  An alias that is not known ends readDatagrams, and so, through
\* the context of the session, readStreams; the control stream reader goes on.
ReceiveDatagram(o) ==
    LET e == Subscriber(o.track)
        t == FindByTrackAlias(e, HeaderKey(o.track)) IN
    /\ o \in datagrams
    /\ dataReaders[e].datagrams = "running"
    /\ datagrams' = datagrams \ {o}
    /\ IF t = NoRequest
       THEN /\ dataReaders' = [dataReaders EXCEPT ![e].datagrams = "unknownTrackAlias"]
            /\ UNCHANGED bufferVars
       ELSE /\ Push(t, o)
            /\ UNCHANGED dataReaders
    /\ UNCHANGED <<publisherVars, streams, doneCount, datagramsSent, rash, readVars>>

\* Datagrams arrive in any order, or not at all.
LoseDatagram(o) ==
    /\ o \in datagrams
    /\ datagrams' = datagrams \ {o}
    /\ UNCHANGED <<publisherVars, streams, doneCount, datagramsSent, rash, dataReaders,
                   bufferVars, readVars>>

\* readStreams and readDatagrams end with the context of the session or with the
\* connection.  Those of an endpoint that requests nothing get no data; they are
\* not followed.
DataReaderEnds(e, which) ==
    /\ e \in Requesters
    /\ dataReaders[e][which] = "running"
    /\ SessionDone(e) \/ conn = "down"
    /\ dataReaders' = [dataReaders EXCEPT ![e][which] = "ended"]
    /\ UNCHANGED <<publisherVars, streams, doneCount, datagramVars, bufferVars, readVars>>

StreamStep(i) ==
    AcceptStream(i) \/ FindTrack(i) \/ ReadStream(i) \/ EndOfStream(i) \/ StreamCut(i)

-----------------------------------------------------------------------------
(***************************************************************************)
(* The subscribing side: an application that calls ReadObject until it     *)
(* returns an error, as the examples do, with a context that does not end. *)
(***************************************************************************)

\* The select takes an object, even when the track is done.  It is returned with
\* the error of the done context, if there is one.
ReadObject(e, id) ==
    /\ rt[e][id].call = "ok" /\ reading[id]
    /\ buffer[id] # << >>
    /\ got' = [got EXCEPT ![id] = Append(@, Head(buffer[id]))]
    /\ buffer' = [buffer EXCEPT ![id] = Tail(@)]
    /\ reading' = [reading EXCEPT ![id] = ~rt[e][id].done]
    /\ UNCHANGED <<publisherVars, streams, doneCount, datagramVars, dataReaders, dropped>>

\* The select takes the end of the track, even when objects are in the buffer.
ReadDone(e, id) ==
    /\ rt[e][id].call = "ok" /\ reading[id]
    /\ rt[e][id].done
    /\ reading' = [reading EXCEPT ![id] = FALSE]
    /\ UNCHANGED <<publisherVars, streams, doneCount, datagramVars, dataReaders,
                   bufferVars, got>>

-----------------------------------------------------------------------------

\* CloseWithError, which passes on the count, is the step by which a subscription
\* that was not rejected leaves the localTrackMap.
ClosesWithError(id) ==
    LET p == Publisher(id) IN
    /\ Kind(id) = "subscribe"
    /\ id \in Local(p) /\ id \notin Local(p)'
    /\ lt'[p][id].answer # "error"

\* A step of the sessions' control plane.
TrackStep ==
    /\ Next
    /\ doneCount' = [id \in Ids |-> IF ClosesWithError(id) THEN subgroupCount[id]
                                    ELSE doneCount[id]]
    /\ raced' = raced \cup {id \in Ids : ClosesWithError(id) /\ InOpenSubgroup(id) # {}}
    /\ UNCHANGED <<writer, subgroupCount, fetchStream, fetchLock, streams, datagramVars,
                   dataReaders, bufferVars, readVars>>

DataStep ==
    \/ \E w \in Writers : WriterStep(w) \/ WriterCall(w)
    \/ \E i \in 1 .. MaxStreams : StreamStep(i)
    \/ \E o \in datagrams : ReceiveDatagram(o) \/ LoseDatagram(o)
    \/ \E e \in Endpoints :
         \/ \E which \in {"streams", "datagrams"} : DataReaderEnds(e, which)
         \/ \E id \in Ids : ReadObject(e, id) \/ ReadDone(e, id)

DataInit ==
    /\ Init
    /\ writer = [w \in Writers |-> NoWork]
    /\ streams = << >>
    /\ subgroupCount = [id \in Ids |-> 0]
    /\ fetchStream = [id \in Ids |-> 0]
    /\ fetchLock = [id \in Ids |-> NoOne]
    /\ doneCount = [id \in Ids |-> -1]
    /\ raced = {}
    /\ datagrams = {} /\ datagramsSent = 0 /\ rash = {}
    /\ dataReaders = [e \in Endpoints |-> [streams |-> "running", datagrams |-> "running"]]
    /\ buffer = [id \in Ids |-> << >>]
    /\ dropped = [id \in Ids |-> {}]
    /\ got = [id \in Ids |-> << >>]
    /\ reading = [id \in Ids |-> TRUE]

DataNext == TrackStep \/ (DataStep /\ UNCHANGED vars)

DataSpec == DataInit /\ [][DataNext]_<<vars, dataVars>>

\* Besides the goroutines of the control plane, those of the streams and the data
\* readers go on, and the application goes on reading.  No object need be written
\* and no datagram arrive.
DataFairness ==
    /\ Fairness
    /\ \A i \in 1 .. MaxStreams : WF_dataVars(StreamStep(i) /\ UNCHANGED vars)
    /\ \A e \in Endpoints, id \in Ids :
         WF_dataVars((ReadObject(e, id) \/ ReadDone(e, id)) /\ UNCHANGED vars)

FairDataSpec == DataSpec /\ DataFairness

-----------------------------------------------------------------------------
(***************************************************************************)
(* Properties.                                                             *)
(***************************************************************************)

Objects == [track : Ids, stream : Nat, n : Nat]
WriterStates == [pc : {"idle", "opening", "counting", "fetching", "writing"},
                 id : Ids \cup {NoRequest}, stream : Nat, seen : Nat]
StreamStates ==
    [track : Ids, settled : BOOLEAN, written : Nat, fin : BOOLEAN,
     state : {"opened", "sent", "accepted", "reading", "ended", "unknown", "tooMany", "cut"},
     target : Ids \cup {NoRequest}, read : Nat]

\* Every variable has the values the code can give it, and no buffer holds more
\* than its channel can.
DataTypeOK ==
    /\ writer \in [Writers -> WriterStates]
    /\ streams \in Seq(StreamStates)
    /\ subgroupCount \in [Ids -> Nat]
    /\ fetchStream \in [Ids -> Nat]
    /\ fetchLock \in [Ids -> Writers \cup {NoOne}]
    /\ doneCount \in [Ids -> Nat \cup {-1}]
    /\ raced \subseteq Ids
    /\ datagrams \subseteq Objects /\ datagramsSent \in Nat /\ rash \subseteq Endpoints
    /\ dataReaders \in [Endpoints -> [streams : {"running", "ended"},
                                      datagrams : {"running", "ended", "unknownTrackAlias"}]]
    /\ buffer \in [Ids -> Seq(Objects)]
    /\ \A id \in Ids : Len(buffer[id]) <= BufferSize
    /\ dropped \in [Ids -> SUBSET Objects]
    /\ got \in [Ids -> Seq(Objects)]
    /\ reading \in [Ids -> BOOLEAN]

\* The objects that were put into the buffer of a track, in the order they were.
Pushed(id) == got[id] \o buffer[id]

\* The objects of a stream reach ReadObject in the order they were written and
\* none twice, and those that do not are exactly the ones that found the buffer
\* full, although streams, datagrams and ReadObject share the buffer
\* (remote_track.go:141, 173).
StreamOrder ==
    \A i \in 1 .. Len(streams) :
      streams[i].target # NoRequest =>
        LET t == streams[i].target
            kept == {k \in 1 .. Len(Pushed(t)) : Pushed(t)[k].stream = i}
            lost == {o \in dropped[t] : o.stream = i} IN
        /\ \A j, k \in kept : j < k => Pushed(t)[j].n < Pushed(t)[k].n
        /\ Cardinality(kept) + Cardinality(lost) = streams[i].read
        /\ \A k \in kept : Pushed(t)[k] \notin lost /\ Pushed(t)[k].n <= streams[i].read
        /\ \A o \in lost : o.n <= streams[i].read

\* A fetch has one stream, however many goroutines ask for it at once
\* (local_track.go:52), and its reader finds the track even when the stream
\* overtakes FETCH_OK (session.go:241), unless the fetch was refused or given up.
OneFetchStream ==
    \A i \in 1 .. Len(streams) :
      LET id == streams[i].track
          r == rt[Subscriber(id)][id] IN
      Kind(id) = "fetch" =>
        /\ StreamsOf(id) = {i} /\ fetchStream[id] = i
        /\ streams[i].state = "unknown" =>
             r.resp = "error" \/ r.call \in {"refused", "cancelled", "unsent"}

\* The StreamCount of SUBSCRIBE_DONE is the number of streams of the track, and
\* never more, unless openSubgroup ran at the same time as another or as
\* CloseWithError (local_track.go:123): the check of the context, the opening of
\* the stream and the count are three steps without a lock.
StreamCount ==
    \A id \in Ids :
      doneCount[id] # -1 =>
        /\ doneCount[id] <= Cardinality(StreamsOf(id))
        /\ id \notin raced => doneCount[id] = Cardinality(StreamsOf(id))

\* A publisher that sends datagrams only to subscribers that have their track does
\* not end the subscriber's data readers, however late the datagrams are: the
\* alias stays known after SUBSCRIBE_DONE, UNSUBSCRIBE and Close (session.go:258).
SettledDatagramsAreSafe ==
    \A e \in Endpoints : dataReaders[e].datagrams = "unknownTrackAlias" => e \in rash

\* The track goes on and the session of its subscriber works.
Alive(id) == ~rt[Subscriber(id)][id].done /\ ~SessionDone(Subscriber(id)) /\ conn = "up"

\* What is written on a stream of a settled track is returned by ReadObject, or
\* finds the buffer full, unless the track or the session of the subscriber ends
\* first (session.go:250, remote_track.go:110).
SettledObjectsArrive ==
    \A i \in 1 .. MaxStreams, n \in 1 .. MaxObjects :
      (i <= Len(streams) /\ streams[i].settled /\ streams[i].written >= n)
        ~> /\ i <= Len(streams)
           /\ LET o == Object(streams[i].track, i, n) IN
              \/ \E k \in 1 .. Len(got[o.track]) : got[o.track][k] = o
              \/ o \in dropped[o.track]
              \/ ~Alive(o.track)

-----------------------------------------------------------------------------
(***************************************************************************)
(* What the repository says and the code does not do.                      *)
(***************************************************************************)

\* A track alias names one track of the session, and a second track under the same
\* alias is an "internal error: duplicate track alias" (remote_track_map.go:20); so
\* ReadObject of a track returns the objects of that track.
ObjectsReachTheirTrack ==
    \A id \in Ids : \A k \in 1 .. Len(got[id]) : got[id][k].track = id

=============================================================================

# A TLA+ model of mp-moqtransport

mp-moqtransport is a Go library for Media over QUIC Transport. Two endpoints, a
client and a server, share one connection. Requests and their answers travel as
control messages on one bidirectional stream; objects travel on unidirectional
streams and in datagrams. Each endpoint runs a `Session`, whose readers and whose
application run in goroutines of their own.

Paths below are relative to `src/`.

## 1. The system

| Part | Code | State | Operations | Hard behaviour |
|---|---|---|---|---|
| Control stream | `control_stream.go`, `session.go` readControlStream, receive | bytes in flight; one reader per endpoint | write (any goroutine), read, dispatch | The reader ends for good at the first handler that returns an error, and nothing else notices |
| Setup | `session.go` Run, sendClientSetup, onClientSetup, onServerSetup; `session_helpers.go` | handshakeDone, version, path, first limits | CLIENT_SETUP, SERVER_SETUP | Calls made before Run returns; a limit written as a literal |
| Request IDs and limits | `request_id.go`, `session.go` getRequestID, addLocalTrack, onMaxRequestID | generator (id, max), localMaxRequestID | next, setMax, raise, MAX_REQUEST_ID, REQUESTS_BLOCKED | The limit is raised at one end while the other draws under an older one |
| Subscriptions and fetches, requesting side | `session.go` Subscribe, Fetch, UpdateSubscription, on...Ok, on...Error, onSubscribeDone; `remote_track.go`, `remote_track_map.go` | pending, open, alias table; one-slot responseChan and doneCtx per track | Subscribe, Fetch, Close, UpdateSubscription, answers | Cancellation races the answer; several calls at once |
| Subscriptions and fetches, publishing side | `session.go` onSubscribe, onFetch, accept..., reject..., subscriptionDone, onUnsubscribe, onFetchCancel; `local_track.go`, `local_track_map.go`, response writers | pending, open; ctx, alias and handled flag per track | the application's handler, Accept, Reject, CloseWithError | The response writer outlives the handler and is used by any goroutine; what the subscriber asks crosses what the publisher does |
| Data plane | `session.go` readStreams, readDatagrams; `remote_track.go` push, ReadObject; `local_track.go`, `subgroup.go`, `fetch_stream.go` | buffer of 100 objects per track, subgroup counts | OpenSubgroup, SendDatagram, FetchStream, ReadObject | Streams and datagrams overtake SUBSCRIBE_OK and SUBSCRIBE_DONE |
| Announcements, announcement subscriptions, track status | `session.go`, `announcement*.go`, `track_status*.go` | pending and confirmed announcements, pending subscriptions and status requests | Announce, Unannounce, AnnounceCancel, SubscribeAnnouncements, UnsubscribeAnnouncements, RequestTrackStatus | As for subscriptions, and entries found by namespace instead of by ID |
| Lifecycle | `session.go` Run, Close | errgroup and context of three readers | Run, Close | Callers do not watch the session's context; a handler that calls back blocks the reader |
| Wire codec | `internal/wire` | none | Parse, Append | Lengths and optional fields |
| Transport adapters | `quicmoq`, `webtransportmoq` | none | forwarding | none of their own |
| Multipath example | `examples/multipath` | connections and their ready flags, statistics, scheduler counter, object counters, three kinds of lock | AddConnectionWithLogger, SendObject, the subscribe handler, the telemetry sampler, Close | Flags kept in two places under different locks; an index of one list used for another; paths that die unnoticed |

The parts interact through the control stream (messages), through the maps of the
session (shared by the reader and the callers, one lock per map) and through the
channel of each request (reader to caller). The application is called by the
reader, and calls the session from any goroutine.

What makes the parts correct:

* limits: no request exceeds what its receiver enforces; grants reach the peer in
  order; an endpoint that used its IDs up gets new ones, unless its limit is too small;
* requests: each is answered at most once, its ID is never used again, and the
  call returns;
* the two ends agree on which tracks are open whenever nothing is in flight;
* a reader ends only for a reason that can be named;
* the setup: both ends work with the same version, the newest they share;
* the lifecycle: Run, Close and calls in progress end, and so do all readers once one
  has ended, with the exceptions the properties name;
* the data plane: a stream keeps its order and loses only what finds the buffer full,
  a fetch has one stream, SUBSCRIBE_DONE counts the streams, and what is written on
  a track its subscriber has arrives;
* multipath: ready paths stay selectable and take turns, the counters balance, nobody
  waits for ever.

## 2. The modules

### `ControlPlane`

The control stream, the setup and the limits. An endpoint is its `Perspective`:
`Client` is 0 and `Server` is 1, which are also the first IDs of the generators.

| Variable | Code |
|---|---|
| `setup` | `handshakeDone`; `limitSet` is the server between `setMax` and the end of `onClientSetup` |
| `nextId`, `maxId` | `requestIDGenerator.id`, `.max` |
| `localMax` | `Session.localMaxRequestID` |
| `ctrl[e]` | messages written by the peer of `e` and not yet read: the QUIC stream is reliable and in order |
| `failure[e]` | the error with which `readControlStream` returned |
| `handling[e]` | the request whose handler the reader is in |
| `conn` | the connection, `down` after `Close` of either side |
| `blockedCalls` | only a bound on `RequestBlocked` |

Each handler is an action. A handler that returns an error is the same action, or
one of its own, that sets `failure`; `ReaderIdle` then keeps the reader from going
on. After `Close` a reader may still find messages or the end of the stream, in
either order, and writes leave nothing in flight. The write of SERVER_SETUP and the
completion of the server's setup are one step here, since nothing that this module and
those that extend it say depends on what lies between: the client cannot see the
server's `handshakeDone`, and the server's reader reads nothing in between. `Lifecycle`,
which compares the setups of the two ends, has two steps.

### `Tracks`

Extends `ControlPlane` with subscriptions and fetches. A call of Subscribe or Fetch
is a process named by the ID it draws; its steps are the places where another
goroutine can come between: the draw and `addPending` (`BeginRequest`), the write
(`WriteRequest`), the two cases of the select (`Resolve`, `Cancel`) and what follows
a cancellation (`Abort`). Drawing an ID and filing the track are one step, because
no other goroutine knows the ID before it is written.

On the publishing side `OnSubscribe` and `OnFetch` run up to the application's
handler, in which the reader stays until `HandlerReturn`. `Accept`, `WriteAccept`,
`Reject` and `CloseWithError` may be used by any goroutine, during the handler or
later; `Accept` is two steps, since `confirm` and the write are separate.
`OnUnknownRequestID` is the common failure of the handlers that look a request up.

Data is abstracted: a message is its type, its Request ID and the one number that
matters (limit or Track Alias, or for a request whether its namespace has an invalid
length). Namespaces, names, locations, priorities, error codes and parameters are
left out. `AppCalls` and `Requesters` say what the two applications do in a run.

### `Announcements`

Extends `ControlPlane` with the requests about namespaces, beside `Tracks`: the two
families share the control plane and nothing else, so they are modelled separately.
`ask` and `tell` are the two ends of a request, `outPending`, `outAnnounced`,
`inPending` and `inAnnounced` the two announcement maps of each endpoint. The three
calls have the same shape: `BeginAsk` (draw, file), `WriteAsk`, `ReturnAnswer` or
`GiveUp`, which leaves the entry behind. `Unannounce` is two steps, since its lookup
and its write are not one. Deletion by namespace takes any matching entry, as the
iteration over a Go map does. A track status request and its answer are one step of
the peer's reader, because exactly one answer is written whatever the handler does;
`LateTrackStatus` is a response writer used again.

`ANNOUNCE_CANCEL` in the model is the message as written; `OnAnnounceCancel` is what
its reader makes of it. The bytes do not parse as ANNOUNCE for a namespace whose first
element starts with a letter, which is assumed.

A namespace is a number, 0 one of invalid length. `made` records the withdrawals, each
at most once per namespace, which also bounds them.

### `RequestLife`

The promise behind Subscribe and Fetch, in one variable: a request is asked, decided
once by the publisher, and its caller learns that decision or gives up. `Tracks`
implements it: `RequestStatus` maps the state of the two ends to the status of each
request, and `KeepsPromise` is the specification of `RequestLife` under that mapping.
While the call has not returned the status is the decision of the response writer
(`lt.answer`), or the error with which `addLocalTrack` refused the request, in flight
or in responseChan.

### `DataPlane`

Extends `Tracks`: every step is a step of the sessions' control plane or of the data
plane beside it. A publishing goroutine (`writer`) is in the middle of `openSubgroup`
or `getFetchStream`, or holds a stream. `openSubgroup` is three steps (the check of
the context, the opening of the stream, the store of `subgroupCount++`), since no lock
joins them; `getFetchStream` holds `fetchStreamLock`. A stream is a record of what was
written and how far its reader at the subscriber has come; the goroutine that
`readStreams` starts for it looks the track up once (`FindTrack`) and pushes objects
into the buffer of the track it found. Streams, datagrams and the control stream are
independent of each other, so that data overtakes SUBSCRIBE_OK, and SUBSCRIBE_DONE
overtakes data. Datagrams may be lost and reordered.

`settled`, `rash` and `raced` record what the properties except: whether the
subscriber had its track when a stream was opened or a datagram sent, and whether
`openSubgroup` overlapped another call of it or CloseWithError. They restrict no step.

### `Lifecycle`

The setup and the life of a session from Run to Close, at both ends, with what
`Tracks` and `Announcements` take for granted: the three readers of the errgroup and
the context they share, the choice of the version and the check of PATH, refusals, a
handler on the reader that answers, makes a request of its own or calls Close, and a
call that waits for an answer. It stands beside the other modules: a request here is
any of theirs. `OnClientSetup` ends with the write of SERVER_SETUP (`session.go:1022`), and
`CompleteSetup` is the rest of it (`session.go:1033`): in between the client may complete
its own setup and make a request. A data reader may fail from the moment it runs, before
the setup too. The client may be another implementation, which is why its versions
and the position of its PATH parameter are free.

### `Multipath`

The multipath example. Goroutines are the main one, the senders, the subscribe
handler of each path, the sampler and the subscriber's readers. A critical section
that neither blocks nor takes a second lock is one step; `mp.mu`, `statsMutex` (by the
sampler) and the connection's mutex (over the write) have a holder where they are held
over several steps, and a writer that waits for `mp.mu` keeps new readers out. The
statistics are listed in any order, as the iteration over a Go map does. The sessions
are those of the other modules, reduced to running or closed.

### `MCTracks`, `MCAnnouncements`, `MCDataPlane`, `MCLifecycle`, `MCMultipath`

The constants of the runs: limits, the goroutines as model values (which are
interchangeable, hence the symmetry of the two runs without liveness that have two),
the version lists and the two paths.

### `ControlProofs`, `TracksProofs`, `RequestProofs`, `AgreementProofs`, `AnnouncementProofs`, `DataProofs`, `LifecycleProofs`, `MultipathProofs`

The theorems, see section 4.

## 3. The runs

Deadlock is not checked: the applications may stop making calls, and a reader that
has ended stays ended.

Of `MCTracks`:

| Run | Bounds | Checks |
|---|---|---|
| `one_sided` | the client makes two requests (IDs 0 and 2) with every call of both applications; one Close and one update per track; fair | `TypeOK`, `QuiescentAgreement`, `DeathHasCause`, `CallsReturn`, `CloseTakesEffect`, `KeepsPromise` |
| `two_sided` | both sides request (IDs 0, 1 and 2); calls before Run returns, invalid namespaces, exhausted IDs, session closed, server limit 1 with SERVER_SETUP saying 4 | `AtMostOneAnswer`, `DeathHasCause`, `NeverReused`, `KeepsPromise` |
| `limits` | both sides request, the server four times under a limit of 3 that is doubled twice in flight, the client under a limit of 2; fair | `RequestsWithinLimit`, `GrantsNeverShrink`, `OnlySmallLimitsBlock`, `LimitIsRaised`, `BlockedForGood` |

Of `MCAnnouncements`:

| Run | Bounds | Checks |
|---|---|---|
| `announcements` | the client announces one namespace twice, or asks for a status; accepts in time or late, cancelled calls, Unannounce and AnnounceCancel | `TypeOK`, `ReturnsTellTheTruth`, `AnnouncementAgreement`, `DeathHasCause` |
| `ns_deaths` | one request of any kind by the server; calls before Run returns, an invalid namespace, exhausted IDs, up to two answers, UnsubscribeAnnouncements, session closed | `DeathHasCause` |
| `ns_liveness` | two requests of the client, answered or not, and Unannounce; fair | `NamespaceCallsReturn` |

Of `MCDataPlane`, `MCLifecycle` and `MCMultipath`:

| Run | Bounds | Checks |
|---|---|---|
| `data_order` | one request, two publishing goroutines, two streams of up to two objects, a buffer of one; CloseWithError | `DataTypeOK`, `StreamOrder`, `OneFetchStream`, `StreamCount` |
| `data_arrival` | one request, one publishing goroutine, one stream of one object and one datagram; CloseWithError, session closed; fair | `SettledDatagramsAreSafe`, `SettledObjectsArrive` |
| `lifecycle` | both transports, PATH absent, first or second, a server that knows two versions more than the client, one call and one Close per end, handlers of every kind, a bad datagram, a lost connection; fair | `TypeOK`, `AgreedSetup`, `RunReturns`, `CloseReturns`, `CallsReturn`, `ReadersEndTogether` |
| `multipath` | two paths, two senders, two selections of the scheduler, paths that die | `TypeOK`, `ReadyPathsStaySelectable`, `GiveUpHasCause`, `Accounts`, `TakesTurns` |
| `multipath_liveness` | two paths, one sender, one selection, a subscription to another track, Close; fair | `SendsReturn`, `CloseEnds` |

A buffer of one is full after one object, so that the drops of the real buffer of 100
happen; two writers and two streams are the smallest case in which openings, counts
and fetch streams can collide. Two paths are what the example has, and two selections
take the round robin once around. `TakesTurns` speaks of objects that are offered when
every path is ready: until then the index that the scheduler returns is one of a map that
is listed anew for each object, and is used on a shorter list, so that nothing can be said
of consecutive objects.

Two announcements of one namespace are the smallest case in which deletion by
namespace has a choice and in which Unannounce races a new Announce.

Two requests of one endpoint are enough for the interleavings of concurrent calls
and for the alias table; one of each side for messages that cross; the four
of the server in `limits` for two raises of the limit. Two is the largest limit that blocks
an endpoint, and three the smallest that does not. The literal 100 of SERVER_SETUP is scaled
down with the limits (`ServerSetupMax`), so that the IDs run out within a few calls.

Bounds: `IdBound` (IDs drawn), `MaxBlockedCalls` (calls that find no ID),
`MaxTrackCalls` (Close and UpdateSubscription calls per track),
`MaxAnswers` (uses of one response writer of `Announcements`), `MaxStreams`,
`MaxObjects` and `MaxDatagrams` (what publishers send), `BufferSize` (100 in the code),
`MaxSelections` (objects offered to the scheduler). `Lifecycle` needs none: every call
happens once.

Fairness: every reader, every call that is under way and every Accept between its
two steps eventually goes on, because each is a goroutine that waits for nothing
but what the guard says; and a handler eventually returns. The applications owe
nothing: they need not answer, close or read, which is why the rejection of an
unhandled request matters for `CallsReturn` and `NamespaceCallsReturn`. These and
`CloseTakesEffect` leave out sessions that are broken (a reader ended or the
connection gone): there calls do hang. `CallsReturn` of `Lifecycle` says how little that
takes, and how much: the end of a control stream reader or of the connection, or a
handler that waits for its own reader. In `DataPlane` the goroutines of the streams go
on too, and the application goes on calling ReadObject, as the examples do. `Multipath`
assumes strong fairness of goroutines that wait for a lock: a `sync.Mutex` hands itself
over to a goroutine that has waited for a millisecond, and a waiting writer of an
`RWMutex` keeps new readers out. A message, a tick, a loss or a call need never come.

One run shows a disagreement between the code and what the repository says of it;
`PROJECT.json` quotes the line. `stray_objects`: every SUBSCRIBE_OK carries Track Alias
0, since the field is never set (`session.go:614`), whereas streams and datagrams carry
the publisher's alias of the track. With two subscriptions in a session, objects of one
track are delivered to the other, and the second SUBSCRIBE_OK ends the subscriber's
reader with an "internal error".

`DeathHasCause` of `Tracks` names the other weaknesses of the code as reasons for which
a reader ends, and `QuiescentAgreement` holds with the consequences of a cancelled call:

* SERVER_SETUP promises 100 IDs whatever `InitialMaxRequestID` is (`session.go:1027`); a
  server limit below 50 makes its first MAX_REQUEST_ID look like a decrease, and the
  client's reader ends (`maxRequestIDDecreased`);
* a Fetch that is rejected or given up sends FETCH_CANCEL for a request its publisher may
  have forgotten, and ends the publisher's reader (`session.go:714`, `unknownRequestID`);
* the answer to a call that was given up ends the caller's reader (`unknownRequestID`), or,
  if it comes just before, leaves a subscription open at both ends with nobody to close
  it (`session.go:1154`): both ends agree on it, and nobody holds it.

`LimitIsRaised` excepts endpoints that are `Blocked`: they have used their IDs up, no grant
is on its way, and none of their requests has reached half of the limit, which alone raises
it (`session.go:277`). `BlockedForGood` says that this lasts, since REQUESTS_BLOCKED is only
logged (`session.go:1068`), and `OnlySmallLimitsBlock` how it comes about:

* under a limit of 2 the client draws only ID 0, which is below 2/2;
* under a limit of 1 ID 0 raises the limit to 2, and ID 2 is then blocked;
* from 3 on the last ID drawn is in the upper half, for either side, if SERVER_SETUP
  promises what the server enforces. It need not: against a server whose limit is 198 or
  more the client draws IDs up to 98 under the literal 100, below the half, and is blocked
  after fifty requests.

Announcements and the other requests of `Announcements` use IDs up and never raise the
limit; there every limit is exhausted for good.

What the new modules except is of the same kind. Run does not return when the peer
refuses the setup, because the refusing end leaves the connection open (`RunReturns`).
A PATH that is the first parameter of a WebTransport setup is not noticed
(`AgreedSetup`). A stream or datagram that overtakes SUBSCRIBE_OK is lost, and the
datagram ends both data readers (`SettledObjectsArrive`, `SettledDatagramsAreSafe`).
ReadObject may prefer the end of a track to objects in the buffer. The multipath
publisher drops an object, without an error, while the scheduler's index does not fit
the list of available connections, and never takes note of a dead path
(`GiveUpHasCause`, `Accounts`).

The reasons that `DeathHasCause` of `Announcements` accepts are partly faults of the
code, and stated there so that nothing else hides behind them: ANNOUNCE_CANCEL is
written with the type of ANNOUNCE and does not parse (`announce_cancel_message.go:30`);
all answers to track status requests name request 0 (`session.go:790`), so that a
request with another ID is never answered and the answer is unknown to its receiver;
`rejectAnnouncement` leaves the announcement pending, so that a late Accept sends a
second answer. `AnnouncementAgreement` excepts Unannounce, whose test is inverted
(`session.go:849`): a live announcement is deleted without a message, and only an
unknown one is written.

Every property of a passing run has a mutant in `PROJECT.json`: a definition with a
plausible bug (a dropped delete, an off-by-one, a reset that is missing) under which
TLC finds the property violated. The buggy variants stand in a section of their own
at the top of each module.

## 4. The proofs

The theorems hold for every value of the constants that satisfies the named
assumptions: `ControlAssumption`, `TracksAssumption`, `NamespaceAssumption`,
`DataAssumption`, `LifecycleAssumption` and `MultipathAssumption`. They say that limits and bounds are
natural numbers, that the names of calls are among those the model knows, that the
names of goroutines differ from the value for nobody, that there are paths to choose
from, and that each end lists its versions in ascending order.

Each theorem has the same form: an inductive invariant that says more than the
property, one lemma per kind of step, and a last step that puts them together. The
type invariants come first, because every other proof uses them.

`ControlProofs` holds what the proofs of `Tracks` and `Announcements` share: which
messages are in flight after a write and after a read, in terms of `Has` (a message of
some types for an ID is in flight) and `Once` (at most one is).

`TracksProofs` proves `TypeCorrect`, `Spec => []TypeOK`. `TypeOK` is inductive as it
stands: every action assigns values of the declared sets, and the only arithmetic is
that an ID drawn is below `IdBound`. There is one lemma per group of actions
(control plane, calls, answers, publishing side), and the updates of one field of
one track are folded into lemmas on `RemoteTracks` and `LocalTracks`.

`TracksProofs` also proves `LimitsSafe`: if the limit promised in SERVER_SETUP is not above
the server's own (`ServerSetupMax <= InitialMaxRequestID[Server]`), then
`RequestsWithinLimit` and `GrantsNeverShrink` always hold; `GrantsAccepted` states the
second alone. The hypothesis is needed: in `two_sided`, whose server breaks it, readers
do end with `maxRequestIDDecreased`. Neither property is inductive: that a request is
within its receiver's limit when it is read depends on every grant that was in flight
when its ID was drawn. `FlowInv` adds what is missing:

* the grants in flight to an endpoint lie between the limit it knows and the limit
  their sender enforces, and are in order;
* every request in flight, and every call that has drawn its ID and not yet written
  it, is below the limit its receiver enforces;
* the limit an endpoint enforces is at least its initial one, and the server grants
  nothing before its setup is complete, so that SERVER_SETUP is the first grant.

Most steps touch no limit: `QuietStep` disposes of them at once. What remains is one
lemma per kind of step that does: the setup, a grant that is received, a limit that
is raised, an ID that is drawn, a request that is written.

`RequestProofs` proves `AnsweredOnce` (`AtMostOneAnswer`), `FiledOnce` (`NeverReused`)
and `Implements` (the refinement `KeepsPromise`: the sessions implement `RequestLife`
under `RequestStatus`). All three follow from `RequestInv`, which says of every pair of
an endpoint and a Request ID (`PairInv`) where the request is: not drawn, drawn and not
written, in flight, in the peer's maps, answered with the answer in flight, or answered
with the answer received. In particular the request or its answer is in flight at most
once, never both, and the track at the publisher has an answer exactly when one was
written. The properties are not inductive without it: a second answer is excluded by the
flags of the local track only if nothing in flight can file that track again. Every
step of `Next` moves each pair by one of a few kinds of steps (`PairStep`), and at most
one pair by a kind that matters; the invariant, `NeverReused` and the steps of
`RequestLife` are then shown of pair steps, not of the actions.

`AgreementProofs` proves `EndsAgree` (`QuiescentAgreement`), `DeathsHaveCause`
(`DeathHasCause`), `BlockedStays` (`BlockedForGood`) and `LargeLimitsSuffice`
(`OnlySmallLimitsBlock`) of `Tracks`. The first two follow from one invariant,
`AgreeInv`, on top of `RequestInv`, which follows a request up to its answer and no further. Neither property is
inductive: that the ends agree once all is quiet depends on everything that was in flight
before, and that a handler does not find its request on what the other end did when it
wrote the message. `AgreeInv` is the conjunction of

* `MsgInv`, for every message in flight: what it says is so at the end that wrote it. A
  SUBSCRIBE_DONE comes from a track that was closed, an UNSUBSCRIBE or FETCH_CANCEL from a
  caller that wants no more, and both ends mean the same kind of track;
* `LinkInv`, for every endpoint and Request ID: `KindsAgree`; `Learned` (what the caller
  knows is what the publisher did); `Published` (the publisher's maps, its handler and
  its track go together); `Told` (what the publisher did is known to the caller, on its
  way, or lost with a reader or the connection); `Ended` (a track ends because one end
  wanted it to, and the other learns of it); and `Ordered` (a FETCH that is not filed yet
  is ahead of its FETCH_CANCEL);
* `HandlerEnd` and `AliasesOpen`: a reader that has ended is in no handler, and aliases
  lead to open subscriptions;
* `Deaths`: the causes that concern a request or a write.

A step concerns one pair of an endpoint and a Request ID, or none. All other pairs are
`Idle`, up to a loss, and `OnePair` keeps the invariant for them once and for all; each
action then has a lemma for its own pair, stated of the fields of the two tracks and of
what is in flight, not of the action.

The remaining two causes in `DeathHasCause` are about the order of messages. `RaiseInv`
says that the limits in flight do not decrease; in contrast to `FlowInv` it needs no
hypothesis on SERVER_SETUP beyond the one the property names: if the server promised at
most twice what it enforces, its first MAX_REQUEST_ID is not below the promise. `SetupInv`
says that where the applications wait for Run, the setup message of each end is the
first it writes. For both, `StepKinds` sorts the steps into those that take a setup
message or a limit, and those in which an endpoint takes some other message, writes
something and raises its limit.

`BlockedStays` rests on the same invariants: with no grant in flight a blocked endpoint draws
no ID, and a request that its peer accepts is one it made (`RequestInv`), hence below the
half. `LargeLimitsSuffice` needs to know how the endpoint got there. `GrantInv` says
that the limit an endpoint enforces is the last one on its way to the peer or, with none on
its way, the one the peer draws under, as long as nothing was lost with a reader or the
connection; and that the ID drawn last belongs to a request. An endpoint
without IDs and without a grant on its way has then drawn every ID of its own below the
limit, the last of which is at most two below it.

`AnnouncementProofs` proves `TypeCorrect`, `ReturnsTrue` (`ReturnsTellTheTruth`),
`EndsAgree` (`AnnouncementAgreement`) and `DeathsHaveCause` (`DeathHasCause`). Not even
`TypeOK` is inductive here: that an announcement is not in two maps of an endpoint at
once depends on what is in flight. The inductive invariant `Inv` is the conjunction of

* `Types`: the types of the variables alone;
* `FlightInv`: what a message in flight says is true of its sender;
* `PairInv`, for every endpoint and Request ID: the state of the request at its maker
  and at the peer fit each other, and an answer that is the only one finds the entry it
  looks for, unless the request was withdrawn;
* `EndInv`: what an endpoint is about to do concerns something that is there, and an
  ANNOUNCE_CANCEL that was written is still in flight or has ended the peer's reader;
* `SetupInv`: an endpoint whose application waits for Run is silent before its setup,
  and SERVER_SETUP heads what the client has to read;
* `DeathHasCause`.

The method is that of `RequestProofs`: every action moves each pair by one of a few kinds
of steps (`PairStep`) and writes only what is true (`News`); `Moves` says both, and the
invariant is shown of `Moves`. Two parts need the action itself and have lemmas of their
own: why a reader ends, and what happens before the setup is complete.

`LifecycleProofs` proves `TypeCorrect` and `SetupAgreed` (`AgreedSetup`). The invariant
follows CLIENT_SETUP and SERVER_SETUP: once SERVER_SETUP is written the server has stored
the version it carries and does not refuse any more, whether or not it has completed its
own setup; and the server chooses with `onClientSetup`'s loop over its ascending list of versions,
which is shown to return the newest common one from the least-number principle of the
library.

`MultipathProofs` proves `TypeCorrect`, `PathsStaySelectable`
(`ReadyPathsStaySelectable`), `ReadyPathsTakeTurns` (`TakesTurns`), `GivesUpWithCause`
(`GiveUpHasCause`) and `BooksBalance` (`Accounts`, which is `PathAccounts` and
`TotalAccounts`). `PathsInv` says who holds which
lock and what the sampler's copy of a path's statistics says when it is about to be
stored: it has the connected flag if the statistics have it, and only for a path that is
ready. Storing it therefore never undoes what a subscribe handler stored.

`WholeInv` says that paths which were all ready stay so, that the connections stand in the
order in which they were added, and that the list of available connections of an object
offered since is all of them: whatever order the statistics are listed in, the scheduler
then counts as many paths as there are connections, and its index is the position of the
next one. `TakesTurns` and `GiveUpHasCause` follow.

The accounts of a path balance because a sender that has counted an object and not yet
sent it, or the reverse, is visible in its program counter. The totals are sums over the
paths. `SumOver` takes such a sum as the number of the things that are counted, a set of
pairs of a path and a number, so that a step that counts one more object on a path adds
one element; that the sets are finite is part of the invariant (`Totals`).

`DataProofs` proves `DataTypeCorrect`, `OneFetch`, `CountsRight`, `DatagramsSafe` and
`OrderKept` about `DataSpec`. Every step of `DataSpec` is a step of `Tracks` or leaves it
alone, so `TypeOK` and `RequestInv` hold of it too and the proofs build on them. The
inductive invariant `DataInv` is the conjunction of

* `FiledInv`: every SUBSCRIBE_OK in flight carries alias 0, aliases lead to open
  tracks, and a call that was not refused has its track filed;
* `DataTypeOK`;
* `PublishInv`: a goroutine inside openSubgroup or fetchStream owns the stream it opened,
  and of the goroutines that ask for one fetch stream at most one, which holds the lock,
  has seen that there is none;
* `CountsInv`: the count of a track lags behind its streams by the one goroutine that has
  opened a stream and not counted it, unless openings overlapped;
* `DatagramsInv`: the subscriber knows the alias of every datagram in flight, unless the
  publisher sent one before it could;
* `BuffersInv`: an object that is in a buffer, taken or dropped lies before the position
  up to which its stream was read, and the objects of a stream stand in order.

Every invariant of a passing run, every action property and the refinement are the
statement of a theorem. Only model-checked: the liveness properties, since fairness is out
of the prover's reach.

## 5. Not modelled, and the plan

Not modelled:

* the byte formats of `internal/wire`, beyond what the protocol tells apart: they have
  no state;
* the transport adapters, which forward every call, and QUIC itself, which is assumed to
  keep streams reliable and in order;
* the figures that `quicmoq/logging.go` collects: no decision of the code reads them;
* the date example: its calls are among those the applications of `DataPlane` make;
* printing, qlog events, TLS and dialling;
* GOAWAY, which nobody sends and whose handler only informs the application;
* the multipath publisher's Announce, and Close of a session whose Run has not got as
  far as its fields (the code then meets a nil connection).

Of the plan, nothing is left but the proofs of the liveness properties, which the prover
cannot express.

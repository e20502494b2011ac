----------------------------- MODULE Multipath ------------------------------
(***************************************************************************)
(* The multipath example: a publisher that spreads the objects of one      *)
(* track over several sessions, one per path, and the subscriber that      *)
(* counts them (examples/multipath).  The goroutines are the main one,     *)
(* which adds the paths, the senders, the subscribe handler of each path's *)
(* session, the telemetry sampler, and the reader of each path at the      *)
(* subscriber.  They share three kinds of lock: mp.mu and mp.statsMutex    *)
(* (RWMutex), and one mutex per connection.  The goroutine that prints the *)
(* statistics changes nothing and takes the locks as a sender does; it is  *)
(* left out.                                                               *)
(*                                                                         *)
(* A critical section that neither blocks nor takes a second lock is one   *)
(* step, whose guard is that the lock is free.  A lock has a holder in the *)
(* state only where it is held over several steps.                         *)
(***************************************************************************)
EXTENDS Integers, Sequences, FiniteSets, Functions

CONSTANTS
    PathOrder,   \* the names of the paths, in the order they are added
    Senders,     \* goroutines that call SendObject
    MaxSelections, \* bound: calls of the scheduler that find a path
    Events       \* what may happen besides sending, see EventNames

Paths == Range(PathOrder)
EventNames == {"wrongTrack", "loss", "close"}

ASSUME MultipathAssumption ==
    /\ IsInjective(PathOrder)
    /\ PathOrder \in Seq(Paths) /\ PathOrder # << >>
    /\ IsFiniteSet(Senders)
    /\ MaxSelections \in Nat
    /\ Events \subseteq EventNames

VARIABLES
    connections,  \* MultiPathPublisher.connections: the paths in the order added
    ready,        \* ConnectionInfo.IsConnected, set together with Publisher
    stats,        \* MultiPathPublisher.pathStats
    counter,      \* RoundRobinSelector.counter
    objects,      \* MultiPathPublisher.objectCounter
    session,      \* the session of each path: "none", "running" or "closed"
    main,         \* the main goroutine: program counter and the path it is at
    sender,       \* each SendObject: program counter and local variables
    handler,      \* the subscribe handler of each path
    sampler,      \* the telemetry sampler
    mpWriter, mpReaders, \* holders of mp.mu
    connLock,     \* holder of ConnectionInfo.mu of each path
    flight,       \* objects of each path written and not yet read
    failed,       \* objects of each path whose write failed
    reader,       \* subscribeAndRead of each path: "reading" or "counted"
    objectCount,  \* SubscriberConnectionInfo.ObjectCount
    totalObjects  \* MultiPathSubscriber.totalObjects

lockVars == <<mpWriter, mpReaders, connLock>>
subscriberVars == <<reader, objectCount, totalObjects>>
dataVars == <<flight, failed, subscriberVars>>
vars == <<connections, ready, stats, counter, objects, session, main, sender, handler,
          sampler, lockVars, dataVars>>

Free == "free"
None == "none"
NoStats == [known |-> FALSE, connected |-> FALSE, sent |-> 0, errors |-> 0]

\* A SendObject: at is the position its loop over connections has reached,
\* available its local list, path the connection it uses; whole says that every
\* path was ready, for the scheduler too, when it began.
NoSend == [pc |-> "idle", at |-> 0, available |-> << >>, path |-> None, whole |-> FALSE]

-----------------------------------------------------------------------------
(***************************************************************************)
(* Variants of the definitions below with a bug each, which the properties *)
(* are shown to catch; nothing else uses them.                             *)
(***************************************************************************)

CountsFromOne(n, indices) ==
    IF indices = << >> THEN -1 ELSE indices[(n % Len(indices)) + 1] + 1
StaysOnFirst(n, indices) ==
    IF indices = << >> THEN -1 ELSE indices[1]
MarkKeepsLock(p) == [connLock EXCEPT ![p] = "handler"]
CountsSuccessOnly(old, ok) ==
    IF ok THEN [old EXCEPT !.sent = @ + 1] ELSE [old EXCEPT !.errors = @ + 1]
SamplerTakesNoLock == TRUE

-----------------------------------------------------------------------------
AddedPaths == Range(connections)
Known == {p \in Paths : stats[p].known}

\* mp.mu: a writer that waits keeps new readers out, as in sync.RWMutex.
MainWaits == main.pc \in {"adding", "closing"}
MpReadable == mpWriter = Free /\ ~MainWaits
MpWritable == mpWriter = Free /\ mpReaders = {}
\* mp.statsMutex is held over several steps by the sampler only.
StatsFree == sampler.pc \notin {"sampling", "storing"}
ConnFree(p) == connLock[p] = Free

-----------------------------------------------------------------------------
(***************************************************************************)
(* The scheduler.                                                          *)
(***************************************************************************)

\* The indices, from zero, of the paths of a list that the statistics call
\* connected, in increasing order.
ConnectedIndices(list) ==
    LET up == {i \in 1 .. Len(list) : stats[list[i]].connected} IN
    [k \in 1 .. Cardinality(up) |->
       (CHOOSE i \in up : Cardinality({j \in up : j <= i}) = k) - 1]

\* SelectPath once the counter stands at n: an index of the list, from zero.
PathAt(n, indices) ==
    IF indices = << >> THEN -1 ELSE indices[(n % Len(indices)) + 1]

\* counter.Add(1); nothing is counted when no path is connected.
CounterAfter == counter + 1

SelectPath(list) == PathAt(CounterAfter, ConnectedIndices(list))

\* getCurrentPathStats lists a map, in whatever order the iteration takes.
Listings(S) == {list \in [1 .. Cardinality(S) -> S] : IsInjective(list)}

-----------------------------------------------------------------------------
(***************************************************************************)
(* SendObject.                                                             *)
(***************************************************************************)

AllReady == /\ AddedPaths = Paths
            /\ \A p \in Paths : ready[p] /\ stats[p].connected

\* mp.mu.RLock.  An object is offered only while MaxSelections allows.
BeginSend(s) ==
    /\ sender[s].pc = "idle"
    /\ counter + Cardinality({t \in Senders : sender[t].pc \in {"collecting", "selecting"}})
         < MaxSelections
    /\ MpReadable
    /\ mpReaders' = mpReaders \cup {s}
    /\ sender' = [sender EXCEPT ![s] = [NoSend EXCEPT !.pc = "collecting", !.at = 1,
                                                      !.whole = AllReady]]
    /\ UNCHANGED <<connections, ready, stats, counter, objects, session, main, handler,
                   sampler, mpWriter, connLock, dataVars>>

\* The next connection of the loop, under its own lock.
Collect(s) ==
    /\ sender[s].pc = "collecting"
    /\ sender[s].at <= Len(connections)
    /\ LET p == connections[sender[s].at] IN
       /\ ConnFree(p)
       /\ sender' = [sender EXCEPT ![s].at = @ + 1,
                                   ![s].available = IF ready[p] THEN Append(@, p) ELSE @]
    /\ UNCHANGED <<connections, ready, stats, counter, objects, session, main, handler,
                   sampler, lockVars, dataVars>>

\* mp.mu.RUnlock; with no connection available the object is given up.
Collected(s) ==
    /\ sender[s].pc = "collecting"
    /\ sender[s].at > Len(connections)
    /\ mpReaders' = mpReaders \ {s}
    /\ sender' = [sender EXCEPT ![s].pc = IF sender[s].available = << >>
                                          THEN "noPath" ELSE "selecting"]
    /\ UNCHANGED <<connections, ready, stats, counter, objects, session, main, handler,
                   sampler, mpWriter, connLock, dataVars>>

\* objectCounter.Add(1), once the index is found to be valid.
ObjectsAfter(valid) == IF valid THEN objects + 1 ELSE objects

\* The scheduler picks from the statistics of all paths; what it returns is taken
\* as an index of available.  An index beyond available gives the object up.
Select(s) ==
    /\ sender[s].pc = "selecting"
    /\ StatsFree
    /\ \E list \in Listings(Known) :
         LET idx == SelectPath(list)
             available == sender[s].available
             valid == idx >= 0 /\ idx < Len(available) IN
         /\ counter' = IF ConnectedIndices(list) = << >> THEN counter ELSE CounterAfter
         /\ objects' = ObjectsAfter(valid)
         /\ sender' = [sender EXCEPT
              ![s].pc = IF valid THEN "locking" ELSE "invalidIndex",
              ![s].path = IF valid THEN available[idx + 1] ELSE None]
    /\ UNCHANGED <<connections, ready, stats, session, main, handler, sampler, lockVars,
                   dataVars>>

\* sendObjectToConnection holds the connection's lock over the write.
LockConnection(s) ==
    /\ sender[s].pc = "locking"
    /\ ConnFree(sender[s].path)
    /\ connLock' = [connLock EXCEPT ![sender[s].path] = s]
    /\ sender' = [sender EXCEPT ![s].pc = "writing"]
    /\ UNCHANGED <<connections, ready, stats, counter, objects, session, main, handler,
                   sampler, mpWriter, mpReaders, dataVars>>

\* OpenSubgroup, WriteObject and Close of the subgroup, and the unlock.  The
\* session may be gone, or the transport allow no further stream for now; then
\* the object is lost, and the path stays ready.
WriteObject(s, ok) ==
    /\ sender[s].pc = "writing"
    /\ ok => session[sender[s].path] = "running"
    /\ LET p == sender[s].path IN
       /\ flight' = [flight EXCEPT ![p] = IF ok THEN @ + 1 ELSE @]
       /\ failed' = [failed EXCEPT ![p] = IF ok THEN @ ELSE @ + 1]
       /\ connLock' = [connLock EXCEPT ![p] = Free]
       /\ sender' = [sender EXCEPT ![s].pc = IF ok THEN "sent" ELSE "sendFailed"]
    /\ UNCHANGED <<connections, ready, stats, counter, objects, session, main, handler,
                   sampler, mpWriter, mpReaders, subscriberVars>>

\* The entry of a path after an object: ObjectsSent counts the failed ones too.
Accounted(old, ok) ==
    [old EXCEPT !.sent = @ + 1, !.errors = IF ok THEN @ ELSE @ + 1]

\* updatePathStats, and SendObject returns.
UpdatePathStats(s) ==
    /\ sender[s].pc \in {"sent", "sendFailed"}
    /\ StatsFree
    /\ stats' = [stats EXCEPT ![sender[s].path] = Accounted(@, sender[s].pc = "sent")]
    /\ sender' = [sender EXCEPT ![s] = NoSend]
    /\ UNCHANGED <<connections, ready, counter, objects, session, main, handler,
                   sampler, lockVars, dataVars>>

\* SendObject returns nil for an object that went nowhere.
GiveUp(s) ==
    /\ sender[s].pc \in {"noPath", "invalidIndex"}
    /\ sender' = [sender EXCEPT ![s] = NoSend]
    /\ UNCHANGED <<connections, ready, stats, counter, objects, session, main, handler,
                   sampler, lockVars, dataVars>>

SendStep(s) ==
    \/ Collect(s) \/ Collected(s) \/ Select(s) \/ LockConnection(s)
    \/ (\E ok \in BOOLEAN : WriteObject(s, ok)) \/ UpdatePathStats(s) \/ GiveUp(s)

-----------------------------------------------------------------------------
(***************************************************************************)
(* The main goroutine: AddConnectionWithLogger for each path, then Close.  *)
(***************************************************************************)

\* mp.mu.Lock is asked for.
BeginAdd ==
    /\ main.pc = "idle"
    /\ Len(connections) < Len(PathOrder)
    /\ main' = [main EXCEPT !.pc = "adding", !.path = PathOrder[Len(connections) + 1]]
    /\ UNCHANGED <<connections, ready, stats, counter, objects, session, sender,
                   handler, sampler, lockVars, dataVars>>

\* mp.mu.Lock of AddConnectionWithLogger and of Close.
MainLocks ==
    /\ main.pc \in {"adding", "closing"}
    /\ MpWritable
    /\ mpWriter' = "main"
    /\ main' = [main EXCEPT !.pc = IF @ = "adding" THEN "addStats" ELSE "closeNext", !.at = 1]
    /\ UNCHANGED <<connections, ready, stats, counter, objects, session, sender,
                   handler, sampler, mpReaders, connLock, dataVars>>

\* The entry in the statistics comes first, under statsMutex ...
AddStats ==
    /\ main.pc = "addStats"
    /\ StatsFree
    /\ stats' = [stats EXCEPT ![main.path] = [NoStats EXCEPT !.known = TRUE]]
    /\ main' = [main EXCEPT !.pc = "append"]
    /\ UNCHANGED <<connections, ready, counter, objects, session, sender, handler,
                   sampler, lockVars, dataVars>>

\* ... then the connection, whose session runs from here on.
AppendConnection ==
    /\ main.pc = "append"
    /\ connections' = Append(connections, main.path)
    /\ session' = [session EXCEPT ![main.path] = "running"]
    /\ mpWriter' = Free
    /\ main' = [main EXCEPT !.pc = "idle", !.path = None]
    /\ UNCHANGED <<ready, stats, counter, objects, sender, handler, sampler, mpReaders,
                   connLock, dataVars>>

BeginClose ==
    /\ main.pc = "idle"
    /\ "close" \in Events
    /\ AddedPaths = Paths
    /\ main' = [main EXCEPT !.pc = "closing"]
    /\ UNCHANGED <<connections, ready, stats, counter, objects, session, sender,
                   handler, sampler, lockVars, dataVars>>

\* Session.Close cancels and closes, then waits for the session's goroutines,
\* among them the reader that may be in the subscribe handler.
CloseSession ==
    /\ main.pc = "closeNext"
    /\ main.at <= Len(connections)
    /\ session' = [session EXCEPT ![connections[main.at]] = "closed"]
    /\ main' = [main EXCEPT !.pc = "closeWaits"]
    /\ UNCHANGED <<connections, ready, stats, counter, objects, sender, handler,
                   sampler, lockVars, dataVars>>

SessionClosed ==
    /\ main.pc = "closeWaits"
    /\ handler[connections[main.at]] \in {"none", "accepted_done", "rejected"}
    /\ main' = [main EXCEPT !.pc = "closeNext", !.at = @ + 1]
    /\ UNCHANGED <<connections, ready, stats, counter, objects, session, sender,
                   handler, sampler, lockVars, dataVars>>

CloseReturns ==
    /\ main.pc = "closeNext"
    /\ main.at > Len(connections)
    /\ mpWriter' = Free
    /\ main' = [main EXCEPT !.pc = "closed"]
    /\ UNCHANGED <<connections, ready, stats, counter, objects, session, sender,
                   handler, sampler, mpReaders, connLock, dataVars>>

MainStep ==
    \/ MainLocks \/ AddStats \/ AppendConnection
    \/ CloseSession \/ SessionClosed \/ CloseReturns

\* A path is lost; nothing in the publisher takes note of it.
PathDies(p) ==
    /\ "loss" \in Events
    /\ session[p] = "running"
    /\ session' = [session EXCEPT ![p] = "closed"]
    /\ UNCHANGED <<connections, ready, stats, counter, objects, main, sender, handler,
                   sampler, lockVars, dataVars>>

-----------------------------------------------------------------------------
(***************************************************************************)
(* The subscribe handler of a path's session.                              *)
(***************************************************************************)

\* SUBSCRIBE arrives: for another track it is rejected; the Accept of the
\* published one fails when the session is gone.
HandleSubscribe(p) ==
    /\ session[p] = "running"
    /\ handler[p] = "none"
    /\ \E answer \in {"accepting"} \cup (IF "wrongTrack" \in Events THEN {"rejected"} ELSE {}) :
         handler' = [handler EXCEPT ![p] = answer]
    /\ UNCHANGED <<connections, ready, stats, counter, objects, session, main, sender,
                   sampler, lockVars, dataVars>>

AcceptSubscribe(p) ==
    /\ handler[p] = "accepting"
    /\ handler' = [handler EXCEPT ![p] = IF session[p] = "running" THEN "accepted" ELSE "rejected"]
    /\ UNCHANGED <<connections, ready, stats, counter, objects, session, main, sender,
                   sampler, lockVars, dataVars>>

\* The lock of the connection is taken for the two assignments only.
LockAfterMark(p) == [connLock EXCEPT ![p] = Free]

MarkReady(p) ==
    /\ handler[p] = "accepted"
    /\ ConnFree(p)
    /\ ready' = [ready EXCEPT ![p] = TRUE]
    /\ connLock' = LockAfterMark(p)
    /\ handler' = [handler EXCEPT ![p] = "marked"]
    /\ UNCHANGED <<connections, stats, counter, objects, session, main, sender, sampler,
                   mpWriter, mpReaders, dataVars>>

MarkStats(p) ==
    /\ handler[p] = "marked"
    /\ StatsFree
    /\ stats' = [stats EXCEPT ![p].connected = @ \/ stats[p].known]
    /\ handler' = [handler EXCEPT ![p] = "accepted_done"]
    /\ UNCHANGED <<connections, ready, counter, objects, session, main, sender, sampler,
                   lockVars, dataVars>>

HandlerStep(p) == AcceptSubscribe(p) \/ MarkReady(p) \/ MarkStats(p)

-----------------------------------------------------------------------------
(***************************************************************************)
(* The telemetry sampler.                                                  *)
(***************************************************************************)

\* A tick: statsMutex is taken and held over the loop.  The list of connections
\* is read without mp.mu.
SamplerTick ==
    /\ sampler.pc = "idle"
    /\ sampler' = [sampler EXCEPT !.pc = "sampling", !.at = 1, !.upTo = Len(connections)]
    /\ UNCHANGED <<connections, ready, stats, counter, objects, session, main, sender,
                   handler, lockVars, dataVars>>

\* What the sampler copies under the lock of the connection.
Sampled(p) == ready[p]

Sample ==
    /\ sampler.pc = "sampling"
    /\ sampler.at <= sampler.upTo
    /\ LET p == connections[sampler.at] IN
       /\ ConnFree(p)
       /\ sampler' = [sampler EXCEPT !.pc = "storing", !.flag = Sampled(p)]
    /\ UNCHANGED <<connections, ready, stats, counter, objects, session, main, sender,
                   handler, lockVars, dataVars>>

\* The transport's figures, which no decision uses, are stored along with it.
StoreSample ==
    /\ sampler.pc = "storing"
    /\ LET p == connections[sampler.at] IN
       stats' = [stats EXCEPT ![p].connected = IF stats[p].known THEN sampler.flag ELSE @]
    /\ sampler' = [sampler EXCEPT !.pc = "sampling", !.at = @ + 1]
    /\ UNCHANGED <<connections, ready, counter, objects, session, main, sender, handler,
                   lockVars, dataVars>>

SamplerDone ==
    /\ sampler.pc = "sampling"
    /\ sampler.at > sampler.upTo
    /\ sampler' = [sampler EXCEPT !.pc = "idle", !.at = 0, !.upTo = 0, !.flag = FALSE]
    /\ UNCHANGED <<connections, ready, stats, counter, objects, session, main, sender,
                   handler, lockVars, dataVars>>

SamplerStep == Sample \/ StoreSample \/ SamplerDone

-----------------------------------------------------------------------------
(***************************************************************************)
(* The subscriber: ReadObject, then two counters.                          *)
(***************************************************************************)

\* Every object is a stream of its own, so the order of arrival is open; what
\* has arrived may be read after the session is gone.
ReadObject(p) ==
    /\ reader[p] = "reading"
    /\ flight[p] > 0
    /\ flight' = [flight EXCEPT ![p] = @ - 1]
    /\ objectCount' = [objectCount EXCEPT ![p] = @ + 1]
    /\ reader' = [reader EXCEPT ![p] = "counted"]
    /\ UNCHANGED <<connections, ready, stats, counter, objects, session, main, sender,
                   handler, sampler, lockVars, failed, totalObjects>>

CountTotal(p) ==
    /\ reader[p] = "counted"
    /\ totalObjects' = totalObjects + 1
    /\ reader' = [reader EXCEPT ![p] = "reading"]
    /\ UNCHANGED <<connections, ready, stats, counter, objects, session, main, sender,
                   handler, sampler, lockVars, flight, failed, objectCount>>

-----------------------------------------------------------------------------

Init ==
    /\ connections = << >>
    /\ ready = [p \in Paths |-> FALSE]
    /\ stats = [p \in Paths |-> NoStats]
    /\ counter = 0 /\ objects = 0
    /\ session = [p \in Paths |-> "none"]
    /\ main = [pc |-> "idle", path |-> None, at |-> 0]
    /\ sender = [s \in Senders |-> NoSend]
    /\ handler = [p \in Paths |-> "none"]
    /\ sampler = [pc |-> "idle", at |-> 0, upTo |-> 0, flag |-> FALSE]
    /\ mpWriter = Free /\ mpReaders = {}
    /\ connLock = [p \in Paths |-> Free]
    /\ flight = [p \in Paths |-> 0]
    /\ failed = [p \in Paths |-> 0]
    /\ reader = [p \in Paths |-> "reading"]
    /\ objectCount = [p \in Paths |-> 0]
    /\ totalObjects = 0

Next ==
    \/ \E s \in Senders : BeginSend(s) \/ SendStep(s)
    \/ \E p \in Paths : PathDies(p) \/ HandleSubscribe(p) \/ HandlerStep(p)
    \/ BeginAdd \/ BeginClose \/ MainStep
    \/ SamplerTick \/ SamplerStep
    \/ \E p \in Paths : ReadObject(p) \/ CountTotal(p)

Spec == Init /\ [][Next]_vars

\* Every goroutine goes on.  A goroutine that waits for a lock gets it in the end,
\* although others take it again and again: sync.Mutex hands a lock over to the
\* one that has waited too long, and a write on a stream ends.  No call, tick,
\* message or loss is bound to happen.
Fairness ==
    /\ \A s \in Senders : SF_vars(SendStep(s))
    /\ \A p \in Paths : SF_vars(HandlerStep(p))
    /\ SF_vars(MainStep) /\ SF_vars(SamplerStep)

FairSpec == Spec /\ Fairness

-----------------------------------------------------------------------------
(***************************************************************************)
(* Properties.                                                             *)
(***************************************************************************)

PathStats == [known : BOOLEAN, connected : BOOLEAN, sent : Nat, errors : Nat]
SendCalls ==
    [pc : {"idle", "collecting", "selecting", "noPath", "invalidIndex", "locking",
           "writing", "sent", "sendFailed"},
     at : Nat, available : Seq(Paths), path : Paths \cup {None}, whole : BOOLEAN]

\* Every variable has the values the code can give it.
TypeOK ==
    /\ connections \in Seq(Paths)
    /\ ready \in [Paths -> BOOLEAN]
    /\ stats \in [Paths -> PathStats]
    /\ counter \in Nat /\ objects \in Nat
    /\ session \in [Paths -> {"none", "running", "closed"}]
    /\ main \in [pc : {"idle", "adding", "addStats", "append", "closing", "closeNext",
                       "closeWaits", "closed"},
                 path : Paths \cup {None}, at : Nat]
    /\ sender \in [Senders -> SendCalls]
    /\ handler \in [Paths -> {"none", "accepting", "accepted", "marked", "accepted_done",
                              "rejected"}]
    /\ sampler \in [pc : {"idle", "sampling", "storing"}, at : Nat, upTo : Nat, flag : BOOLEAN]
    /\ mpWriter \in {Free, "main"} /\ mpReaders \subseteq Senders
    /\ connLock \in [Paths -> Senders \cup {Free}]
    /\ flight \in [Paths -> Nat] /\ failed \in [Paths -> Nat]
    /\ reader \in [Paths -> {"reading", "counted"}]
    /\ objectCount \in [Paths -> Nat] /\ totalObjects \in Nat

\* The scheduler never loses sight of a path: once the subscribe handler has
\* marked it, the statistics say so for good.  The sampler writes the same flag
\* from a copy it takes of the connection, which would be stale if it were not
\* taken under statsMutex (multipath_publisher.go:260).
ReadyPathsStaySelectable ==
    \A p \in Paths : handler[p] = "accepted_done" => ready[p] /\ stats[p].connected

\* SendObject gives an object up without an error only while a path is not ready
\* yet: the index of the scheduler, which counts all paths in an order of its own,
\* fits the list of available connections once all of them are in it
\* (multipath_publisher.go:138).
GiveUpHasCause ==
    \A s \in Senders : sender[s].pc \in {"noPath", "invalidIndex"} => ~sender[s].whole

SendersAt(pcs) == Cardinality({s \in Senders : sender[s].pc \in pcs})
SendersOn(p, pcs) == Cardinality({s \in Senders : sender[s].pc \in pcs /\ sender[s].path = p})
\* The sum of f over the paths, as the number of the things f counts.
Units(f) == UNION {{p} \X (1 .. f[p]) : p \in Paths}
SumOver(f) == Cardinality(Units(f))

\* The books of a path: the statistics lack only the objects in progress on it, and
\* every object written is in flight, failed or counted by the subscriber.
PathAccounts ==
    \A p \in Paths :
      /\ stats[p].sent + SendersOn(p, {"sent", "sendFailed"})
           = flight[p] + failed[p] + objectCount[p]
      /\ stats[p].errors + SendersOn(p, {"sendFailed"}) = failed[p]

\* The totals: an object that was given a path is in progress, in flight, failed or
\* counted, and the total of the subscriber lacks only the readers between their two
\* counters.
TotalAccounts ==
    /\ objects = SendersAt({"locking", "writing"})
                   + SumOver(flight) + SumOver(failed) + SumOver(objectCount)
    /\ totalObjects + Cardinality({p \in Paths : reader[p] = "counted"}) = SumOver(objectCount)

\* The books of publisher and subscriber balance at every moment, path by path and in
\* total, although senders, sampler and readers update them under different locks and
\* a failed write is counted in another place than a successful one
\* (multipath_publisher.go:144, 192, multipath_subscriber.go:112).
Accounts == PathAccounts /\ TotalAccounts

\* Objects that are offered when every path is ready take turns: the next goes to the
\* next path, in the order in which the paths were added, although the statistics are
\* a map that is listed anew, in any order, for each object, and although other
\* senders select in between (multipath_publisher.go:136, Schedulers/round_robin.go:27).
TakesTurns ==
    [][\A s \in Senders :
         /\ sender[s].pc = "selecting" /\ sender'[s].pc # "selecting"
         /\ sender[s].whole
         => /\ counter' = counter + 1
            /\ sender'[s].path = PathOrder[(counter' % Len(PathOrder)) + 1]]_vars

\* SendObject returns: no order in which the goroutines take the three kinds of
\* lock leaves a sender waiting for ever (multipath_publisher.go:113).
SendsReturn == \A s \in Senders : (sender[s].pc # "idle") ~> (sender[s].pc = "idle")

\* Close returns, although it holds mp.mu while it waits for subscribe handlers
\* that need other locks (multipath_publisher.go:367).
CloseEnds == (main.pc = "closing") ~> (main.pc = "closed")

=============================================================================

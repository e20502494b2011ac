-------------------------- MODULE AgreementProofs ---------------------------
(***************************************************************************)
(* The two ends of a session of Tracks agree when nothing is in progress,  *)
(* and a reader that ends has one of the causes it may have, for every     *)
(* value of the constants.  As in RequestProofs, a pair (e, id) is a       *)
(* request together with the end e that made it.                           *)
(***************************************************************************)
EXTENDS RequestProofs

-----------------------------------------------------------------------------
(***************************************************************************)
(* The inductive invariant.                                                *)
(***************************************************************************)

\* The reader of e has ended, or what is written to it may not arrive.
Lost(e) == failure[e] # "none" \/ conn = "down"

Closes == {"UNSUBSCRIBE", "FETCH_CANCEL"}
Followers == Closes \cup {"SUBSCRIBE_UPDATE"}
Dones == {"SUBSCRIBE_DONE"}

\* The end of the track is on its way, from the publisher or from the caller.
DoneSent(e, id) == Has(ctrl[e], Dones, id)
CloseSent(e, id) == Has(ctrl[Peer(e)], Closes, id)

\* What q holds about a request after it was made comes behind the request.
Follows(q, id) ==
    \A j \in 1 .. Len(q) :
      q[j].type \in Followers /\ q[j].id = id =>
        \E i \in 1 .. Len(q) : i < j /\ q[i].type \in Requests /\ q[i].id = id

\* The caller wants no more of the track than what is on its way.
Ending(e, id) ==
    \/ rt[e][id].closes > 0
    \/ rt[e][id].kind = "fetch" /\ rt[e][id].call \in {"refused", "cancelled"}

\* What a message m in flight to f says is so at the end s that wrote it.
MsgInv(f, m) ==
    LET s == Peer(f)
        r == rt[s][m.id]
        l == lt[s][m.id] IN
    /\ m.type \in Requests =>
         r.call # "none" /\ m.type = RequestType(r.kind) /\ (m.val = 1 => r.badNamespace)
    /\ m.type = "SUBSCRIBE_OK" => rt[f][m.id].kind = "subscribe"
    /\ m.type \in Dones =>
         l.kind # "none" /\ l.ctx # "live" /\ l.answer # "error" /\ m.id \notin lpending[s]
    /\ m.type \in Closes => Ending(s, m.id)
    /\ m.type = "SUBSCRIBE_UPDATE" => r.updates > 0
    /\ m.type \in Followers => lt[f][m.id].kind # "none" \/ r.kind = "fetch"

\* The two ends mean the same track, and only a track that was opened is closed.
KindsAgree(e, id) ==
    LET r == rt[e][id]
        l == lt[Peer(e)][id] IN
    /\ l.kind # "none" => l.kind = r.kind
    /\ l.kind = "none" => l.ctx = "live"
    /\ r.call = "none" <=> r.kind = "none"
    /\ r.call = "none" => ~r.badNamespace /\ ~r.done
    /\ r.closes > 0 \/ r.updates > 0 => r.call = "ok"

\* What the caller has learned is what the publisher did.
Learned(e, id) ==
    LET r == rt[e][id]
        l == lt[Peer(e)][id] IN
    /\ r.call = "ok" => l.answer = "ok"
    /\ ErrorSent(e, id) \/ r.resp = "error" \/ r.call = "refused" =>
         l.answer = "error" \/ (l.kind = "none" /\ r.kind = "subscribe")
    /\ id \in ropen[e] => l.answer = "ok"
    /\ l.kind # "none" /\ l.answer # "error" => id \in Remote(e) \/ r.call = "cancelled"

\* The publisher's map, its handler and its track go together.
Published(e, id) ==
    LET p == Peer(e)
        l == lt[p][id] IN
    /\ id \in lopen[p] => l.answer \in {"confirmed", "ok"}
    /\ l.answer \in {"confirmed", "ok"} /\ id \notin lopen[p] => l.ctx # "live"
    /\ l.kind # "none" /\ l.answer = "none" /\ id \notin lpending[p] => l.ctx = "done"
    /\ id \in lpending[p] =>
         handling[p] = id /\ ~l.handled /\ l.ctx = "live" /\ l.kind # "none"
    /\ handling[p] = id => l.kind # "none" /\ (~l.handled => l.answer = "none")

\* What the publisher did reaches the caller, or is on its way.
Told(e, id) ==
    LET p == Peer(e)
        r == rt[e][id]
        l == lt[p][id] IN
    /\ l.ctx = "done" => DoneSent(e, id) \/ r.done \/ Lost(e)
    /\ l.answer = "ok" => OkSent(e, id) \/ id \in ropen[e] \/ Lost(e)
    /\ id \in ropen[e] /\ r.call = "waiting" => r.resp = "ok" \/ Lost(e)
    /\ r.call = "waiting" /\ r.resp = "empty" =>
         /\ l.kind = "none" => Asked(e, id) \/ ErrorSent(e, id) \/ Lost(p) \/ Lost(e)
         /\ l.answer = "error" => ErrorSent(e, id) \/ Lost(e)

\* A track ends for its publisher because one end wanted it to.
Ended(e, id) ==
    LET p == Peer(e)
        r == rt[e][id]
        l == lt[p][id] IN
    /\ l.ctx = "unsubscribed" => Ending(e, id)
    /\ r.done => l.ctx # "live"
    /\ r.closes > 0 \/ (r.kind = "fetch" /\ r.call = "cancelled") =>
         CloseSent(e, id) \/ l.ctx # "live" \/ Lost(p)

\* A FETCH that the publisher has not met is ahead of its FETCH_CANCEL.
Ordered(e, id) ==
    LET p == Peer(e)
        r == rt[e][id] IN
    r.kind = "fetch" /\ lt[p][id].kind = "none" =>
      /\ failure[p] = "none" => Follows(ctrl[p], id)
      /\ r.call \in {"waiting", "aborting", "cancelled", "ok", "refused"} =>
           Asked(e, id) \/ failure[p] # "none"

LinkInv(e, id) ==
    /\ KindsAgree(e, id) /\ Learned(e, id) /\ Published(e, id)
    /\ Told(e, id) /\ Ended(e, id) /\ Ordered(e, id)

\* A reader that has ended is in no handler, and handlers run after the setup.
HandlerEnd(e) ==
    /\ failure[e] # "none" => handling[e] = NoRequest
    /\ handling[e] # NoRequest => setup[e] = "done"

\* An alias is that of an open subscription.
AliasesOpen(e) ==
    \A a \in aliases[e] : a[2] \in ropen[e] /\ rt[e][a[2]].kind = "subscribe"

\* Why a handler of e may not find the request it is about.
UnknownCause(e, id) ==
    LET p == Peer(e) IN
    \/ rt[e][id].call = "cancelled"
    \/ /\ lt[e][id].kind # "none" /\ id \notin Local(e)
       /\ \/ rt[p][id].closes + rt[p][id].updates > 0
          \/ rt[p][id].kind = "fetch" /\ rt[p][id].call \in {"refused", "cancelled"}
          \/ lt[e][id].ctx = "done" /\ lt[e][id].answer = "none"
    \/ rt[p][id].kind = "fetch" /\ OverLimit(e, id)

\* The part of DeathHasCause about requests and writes.
Deaths(e) ==
    /\ failure[e] = "unknownRequestID" => \E id \in Ids : UnknownCause(e, id)
    /\ failure[e] = "duplicateTrackAlias" =>
         \E id1, id2 \in ropen[e] :
           id1 # id2 /\ rt[e][id1].kind = "subscribe" /\ rt[e][id2].kind = "subscribe"
    /\ failure[e] # "duplicateRequestID"
    /\ failure[e] = "invalidNamespaceLength" => \E id \in Ids : rt[Peer(e)][id].badNamespace
    /\ failure[e] \in {"writeFailed", "connectionClosed"} => conn = "down"

AgreeInv ==
    /\ \A f \in Endpoints : \A j \in 1 .. Len(ctrl[f]) : MsgInv(f, ctrl[f][j])
    /\ \A e \in Endpoints, id \in Ids : LinkInv(e, id)
    /\ \A e \in Endpoints : HandlerEnd(e) /\ AliasesOpen(e) /\ Deaths(e)

-----------------------------------------------------------------------------
(***************************************************************************)
(* Changes of a channel.                                                   *)
(***************************************************************************)

\* The messages of a request that are for its caller, and those for its publisher.
ForCaller == Oks \cup Errors \cup Dones
ForPublisher == Requests \cup Followers

\* What q1 held about a request is what q2 holds, or the reader has ended.
AnswersPass(q1, q2, id, ended) ==
    /\ Has(q2, Oks, id) => Has(q1, Oks, id)
    /\ Has(q2, Errors, id) => Has(q1, Errors, id)
    /\ Has(q2, Dones, id) => Has(q1, Dones, id)
    /\ \/ ended
       \/ /\ Has(q1, Oks, id) => Has(q2, Oks, id)
          /\ Has(q1, Errors, id) => Has(q2, Errors, id)
          /\ Has(q1, Dones, id) => Has(q2, Dones, id)
RequestsPass(q1, q2, id, ended) ==
    /\ Has(q2, Requests, id) => Has(q1, Requests, id)
    /\ Has(q2, Closes, id) => Has(q1, Closes, id)
    /\ \/ ended
       \/ /\ Has(q1, Requests, id) => Has(q2, Requests, id)
          /\ Has(q1, Closes, id) => Has(q2, Closes, id)
          /\ Follows(q1, id) => Follows(q2, id)

\* The kinds of messages are disjoint.
LEMMA TrackedTypes ==
    /\ Requests \cap Oks = {} /\ Requests \cap Errors = {} /\ Requests \cap Dones = {}
    /\ Requests \cap Followers = {} /\ Oks \cap Errors = {} /\ Oks \cap Dones = {}
    /\ Oks \cap Followers = {} /\ Errors \cap Dones = {} /\ Errors \cap Followers = {}
    /\ Dones \cap Followers = {} /\ Closes \subseteq Followers
    /\ ForCaller \cap ForPublisher = {}
    /\ \A t \in Grants \cup {"REQUESTS_BLOCKED"} : t \notin ForCaller /\ t \notin ForPublisher
BY DEF Requests, Oks, Errors, Dones, Followers, Closes, ForCaller, ForPublisher, Grants

\* Taking a message that is not the request leaves the order.
LEMMA FollowsTail ==
    ASSUME NEW q \in Seq(Message), q # << >>, NEW id, Follows(q, id),
           ~(Head(q).type \in Requests /\ Head(q).id = id)
    PROVE  Follows(Tail(q), id)
<1> DEFINE t == Tail(q)
<1>1. /\ Len(q) \in Nat /\ Len(q) >= 1 /\ Len(t) = Len(q) - 1
      /\ \A i \in 1 .. Len(t) : t[i] = q[i + 1]
      /\ Head(q) = q[1]
  BY TailElements
<1> HIDE DEF t
<1> SUFFICES ASSUME NEW j \in 1 .. Len(t), t[j].type \in Followers, t[j].id = id
             PROVE  \E i \in 1 .. Len(t) : i < j /\ t[i].type \in Requests /\ t[i].id = id
  BY DEF Follows, t
<1>2. j + 1 \in 1 .. Len(q) /\ t[j] = q[j + 1] /\ j \in Int
  BY <1>1
<1>3. PICK i \in 1 .. Len(q) : i < j + 1 /\ q[i].type \in Requests /\ q[i].id = id
  BY <1>2 DEF Follows
<1>4. i # 1
  BY <1>1, <1>3
<1>5. i - 1 \in 1 .. Len(t) /\ (i - 1) + 1 = i /\ i - 1 < j
  BY <1>1, <1>2, <1>3, <1>4
<1>6. t[i - 1] = q[i]
  BY <1>1, <1>5
<1> QED  BY <1>3, <1>5, <1>6

\* Writing keeps the order, unless it is about a request that is not there.
LEMMA FollowsAppend ==
    ASSUME NEW q \in Seq(Message), NEW m \in Message, NEW id, Follows(q, id),
           m.type \in Followers /\ m.id = id => Has(q, Requests, id)
    PROVE  Follows(Append(q, m), id)
<1> DEFINE a == Append(q, m)
<1>1. /\ Len(q) \in Nat /\ Len(a) = Len(q) + 1 /\ a[Len(q) + 1] = m
      /\ \A i \in 1 .. Len(q) : a[i] = q[i]
  BY AppendProperties
<1> HIDE DEF a
<1>2. \A i \in 1 .. Len(q) : i \in 1 .. Len(a) /\ a[i] = q[i]
  BY <1>1
<1> SUFFICES ASSUME NEW j \in 1 .. Len(a), a[j].type \in Followers, a[j].id = id
             PROVE  \E i \in 1 .. Len(a) : i < j /\ a[i].type \in Requests /\ a[i].id = id
  BY DEF Follows, a
<1>3. CASE j \in 1 .. Len(q)
  <2>1. PICK i \in 1 .. Len(q) : i < j /\ q[i].type \in Requests /\ q[i].id = id
    BY <1>2, <1>3 DEF Follows
  <2> QED  BY <1>2, <2>1
<1>4. CASE j = Len(q) + 1
  <2>1. PICK i \in 1 .. Len(q) : q[i].type \in Requests /\ q[i].id = id
    BY <1>1, <1>4 DEF Has
  <2>2. i < j
    BY <1>1, <1>4, <2>1
  <2> QED  BY <1>2, <2>1, <2>2
<1> QED  BY <1>1, <1>3, <1>4

\* A message that is taken is about another request, or another side of it, or
\* the reader ends with it.
LEMMA PassTail ==
    ASSUME NEW q \in Seq(Message), q # << >>, NEW id, NEW ended \in BOOLEAN
    PROVE  /\ Head(q).type \notin ForCaller \/ Head(q).id # id \/ ended =>
                AnswersPass(q, Tail(q), id, ended)
           /\ Head(q).type \notin Requests \cup Closes \/ Head(q).id # id \/ ended =>
                RequestsPass(q, Tail(q), id, ended)
<1> DEFINE t == Tail(q)
<1>1. ASSUME Head(q).type \notin ForCaller \/ Head(q).id # id \/ ended
      PROVE  AnswersPass(q, t, id, ended)
  <2>1. /\ Has(t, Oks, id) => Has(q, Oks, id)
        /\ Has(t, Errors, id) => Has(q, Errors, id)
        /\ Has(t, Dones, id) => Has(q, Dones, id)
    BY HasTail
  <2>2. ASSUME ~ended
        PROVE  /\ Has(q, Oks, id) => Has(t, Oks, id)
               /\ Has(q, Errors, id) => Has(t, Errors, id)
               /\ Has(q, Dones, id) => Has(t, Dones, id)
    <3>1. /\ ~(Head(q).type \in Oks /\ Head(q).id = id)
          /\ ~(Head(q).type \in Errors /\ Head(q).id = id)
          /\ ~(Head(q).type \in Dones /\ Head(q).id = id)
      BY <1>1, <2>2 DEF ForCaller
    <3> QED  BY <3>1, HasTail
  <2> HIDE DEF t
  <2> QED  BY <2>1, <2>2 DEF AnswersPass
<1>2. ASSUME Head(q).type \notin Requests \cup Closes \/ Head(q).id # id \/ ended
      PROVE  RequestsPass(q, t, id, ended)
  <2>1. /\ Has(t, Requests, id) => Has(q, Requests, id)
        /\ Has(t, Closes, id) => Has(q, Closes, id)
    BY HasTail
  <2>2. ASSUME ~ended
        PROVE  /\ Has(q, Requests, id) => Has(t, Requests, id)
               /\ Has(q, Closes, id) => Has(t, Closes, id)
               /\ Follows(q, id) => Follows(t, id)
    <3>1. /\ ~(Head(q).type \in Requests /\ Head(q).id = id)
          /\ ~(Head(q).type \in Closes /\ Head(q).id = id)
      BY <1>2, <2>2
    <3> QED  BY <3>1, HasTail, FollowsTail
  <2> HIDE DEF t
  <2> QED  BY <2>1, <2>2 DEF RequestsPass
<1> QED  BY <1>1, <1>2

\* A message about another request, or the other side, may be written, or not.
LEMMA PassWritten ==
    ASSUME NEW q \in Seq(Message), NEW m \in Message, NEW id, NEW ended
    PROVE  /\ m.type \notin ForCaller \/ m.id # id => AnswersPass(q, Written(q, m), id, ended)
           /\ m.type \notin ForPublisher \/ m.id # id =>
                RequestsPass(q, Written(q, m), id, ended)
           /\ AnswersPass(q, q, id, ended) /\ RequestsPass(q, q, id, ended)
<1> DEFINE a == Append(q, m)
<1>0. AnswersPass(q, q, id, ended) /\ RequestsPass(q, q, id, ended)
  BY DEF AnswersPass, RequestsPass
<1>1. ASSUME m.type \notin ForCaller \/ m.id # id
      PROVE  AnswersPass(q, a, id, ended)
  <2>1. /\ ~(m.type \in Oks /\ m.id = id) /\ ~(m.type \in Errors /\ m.id = id)
        /\ ~(m.type \in Dones /\ m.id = id)
    BY <1>1 DEF ForCaller
  <2>2. /\ Has(a, Oks, id) <=> Has(q, Oks, id)
        /\ Has(a, Errors, id) <=> Has(q, Errors, id)
        /\ Has(a, Dones, id) <=> Has(q, Dones, id)
    BY <2>1, HasAppend
  <2> HIDE DEF a
  <2> QED  BY <2>2 DEF AnswersPass
<1>2. ASSUME m.type \notin ForPublisher \/ m.id # id
      PROVE  RequestsPass(q, a, id, ended)
  <2>1. /\ ~(m.type \in Requests /\ m.id = id) /\ ~(m.type \in Closes /\ m.id = id)
        /\ ~(m.type \in Followers /\ m.id = id)
    BY <1>2, TrackedTypes DEF ForPublisher
  <2>2. /\ Has(a, Requests, id) <=> Has(q, Requests, id)
        /\ Has(a, Closes, id) <=> Has(q, Closes, id)
    BY <2>1, HasAppend
  <2>3. Follows(q, id) => Follows(a, id)
    BY <2>1, FollowsAppend
  <2> HIDE DEF a
  <2> QED  BY <2>2, <2>3 DEF RequestsPass
<1> QED  BY <1>0, <1>1, <1>2 DEF Written

\* The messages of q2 are those of q1, and m.
FromOr(q1, q2, m) ==
    \A j \in 1 .. Len(q2) : q2[j] = m \/ \E k \in 1 .. Len(q1) : q2[j] = q1[k]
From(q1, q2) == \A j \in 1 .. Len(q2) : \E k \in 1 .. Len(q1) : q2[j] = q1[k]

\* What writing and taking leave.
LEMMA FromSteps ==
    ASSUME NEW q \in Seq(Message), NEW m \in Message
    PROVE  /\ From(q, q) /\ FromOr(q, Written(q, m), m)
           /\ q # << >> => From(q, Tail(q))
<1>1. From(q, q)
  BY DEF From
<1>2. FromOr(q, Append(q, m), m)
  <2> DEFINE a == Append(q, m)
  <2>1. /\ Len(q) \in Nat /\ Len(a) = Len(q) + 1 /\ a[Len(q) + 1] = m
        /\ \A i \in 1 .. Len(q) : a[i] = q[i]
    BY AppendProperties
  <2> HIDE DEF a
  <2>2. \A j \in 1 .. Len(a) : a[j] = m \/ (j \in 1 .. Len(q) /\ a[j] = q[j])
    BY <2>1
  <2>3. FromOr(q, a, m)
    BY <2>2 DEF FromOr
  <2> QED  BY <2>3 DEF a
<1>3. ASSUME q # << >> PROVE From(q, Tail(q))
  <2> DEFINE t == Tail(q)
  <2>1. /\ Len(q) \in Nat /\ Len(t) = Len(q) - 1
        /\ \A i \in 1 .. Len(t) : t[i] = q[i + 1]
    BY <1>3, TailElements
  <2> HIDE DEF t
  <2>2. \A j \in 1 .. Len(t) : j + 1 \in 1 .. Len(q) /\ t[j] = q[j + 1]
    BY <2>1
  <2>3. From(q, t)
    BY <2>2 DEF From
  <2> QED  BY <2>3 DEF t
<1>4. FromOr(q, Written(q, m), m)
  BY <1>1, <1>2 DEF Written, From, FromOr
<1> QED  BY <1>1, <1>3, <1>4

-----------------------------------------------------------------------------
(***************************************************************************)
(* What every step keeps of a pair and of an end, and what it does to the  *)
(* pairs it is not about.                                                  *)
(***************************************************************************)

\* A call that has returned stays so, closing is never taken back, and a track
\* that has left the localTrackMap is decided and gone for good.
PairOnward(e, id) ==
    LET p == Peer(e)
        r == rt[e][id]
        l == lt[p][id] IN
    /\ r.call # "none" =>
         /\ rt'[e][id].kind = r.kind /\ (rt'[e][id].badNamespace <=> r.badNamespace)
         /\ rt'[e][id].call # "none"
    /\ r.call \in {"ok", "refused", "cancelled", "unsent"} => rt'[e][id].call = r.call
    /\ rt'[e][id].closes >= r.closes /\ rt'[e][id].updates >= r.updates
    /\ l.kind # "none" => lt'[p][id].kind = l.kind
    /\ l.ctx # "live" => lt'[p][id].ctx = l.ctx
    /\ l.kind # "none" /\ id \notin lpending[p] =>
         id \notin lpending'[p] /\ (l.answer # "error" => lt'[p][id].answer # "error")
    /\ l.kind # "none" /\ id \notin Local(p) =>
         id \notin Local(p)' /\ (l.answer = "none" => lt'[p][id].answer = "none")
    /\ id \in ropen[e] => id \in ropen'[e]

\* A reader ends once, and nothing is enforced after it; so does the connection.
EndOnward(e) ==
    /\ failure[e] # "none" => failure'[e] = failure[e] /\ localMax'[e] = localMax[e]
    /\ conn = "down" => conn' = "down"

\* The tracks of the pair and where they are filed are the same.
CallerStill(f, i) ==
    /\ rt'[f][i] = rt[f][i]
    /\ i \in rpending'[f] <=> i \in rpending[f]
    /\ i \in ropen'[f] <=> i \in ropen[f]
PublisherStill(f, i) ==
    LET p == Peer(f) IN
    /\ lt'[p][i] = lt[p][i]
    /\ i \in lpending'[p] <=> i \in lpending[p]
    /\ i \in lopen'[p] <=> i \in lopen[p]
    /\ handling'[p] = i <=> handling[p] = i

\* What is in flight about the pair arrives as before.
AnswersStill(f, i) == AnswersPass(ctrl[f], ctrl'[f], i, failure'[f] # "none")
RequestsStill(f, i) ==
    LET p == Peer(f) IN RequestsPass(ctrl[p], ctrl'[p], i, failure'[p] # "none")
FlightStill(f, i) == AnswersStill(f, i) /\ RequestsStill(f, i)

\* The step is not about this pair.
Idle(f, i) == CallerStill(f, i) /\ PublisherStill(f, i) /\ FlightStill(f, i)

\* The numbers of a remote track, after a step.
LEMMA NumbersNext ==
    ASSUME TypeOK', NEW e \in Endpoints, NEW id \in Ids
    PROVE  rt'[e][id].closes \in Nat /\ rt'[e][id].updates \in Nat
<1>1. \A r \in RemoteTrack : r.closes \in Nat /\ r.updates \in Nat
  BY DEF RemoteTrack
<1>2. rt'[e][id] \in RemoteTrack
  BY DEF TypeOK
<1> QED  BY <1>1, <1>2

\* Fields of a remote and of a local track.
LEMMA TrackTypes ==
    ASSUME TypeOK, NEW e \in Endpoints, NEW id \in Ids
    PROVE  /\ rt[e][id] \in RemoteTrack /\ lt[e][id] \in LocalTrack
           /\ rt[e][id].kind \in Kinds /\ lt[e][id].kind \in Kinds
           /\ rt[e][id].closes \in Nat /\ rt[e][id].updates \in Nat
           /\ rt[e][id].resp \in {"empty", "ok", "error"}
           /\ rt[e][id].call \in {"none", "begun", "waiting", "aborting", "ok", "refused",
                                  "cancelled", "unsent"}
           /\ lt[e][id].ctx \in {"live", "unsubscribed", "done"}
           /\ lt[e][id].answer \in {"none", "confirmed", "ok", "error"}
<1>1. rt[e][id] \in RemoteTrack /\ lt[e][id] \in LocalTrack
  BY DEF TypeOK
<1> DEFINE r == rt[e][id]
           l == lt[e][id]
<1> HIDE DEF r, l
<1>2. r \in RemoteTrack => /\ r.kind \in Kinds /\ r.closes \in Nat /\ r.updates \in Nat
                           /\ r.resp \in {"empty", "ok", "error"}
                           /\ r.call \in {"none", "begun", "waiting", "aborting", "ok",
                                          "refused", "cancelled", "unsent"}
  BY DEF RemoteTrack
<1>3. l \in LocalTrack => /\ l.kind \in Kinds /\ l.ctx \in {"live", "unsubscribed", "done"}
                          /\ l.answer \in {"none", "confirmed", "ok", "error"}
  BY DEF LocalTrack
<1> QED  BY <1>1, <1>2, <1>3 DEF r, l

\* A pair that the step is not about goes on as it was.
LEMMA IdleOnward ==
    ASSUME TypeOK, NEW f \in Endpoints, NEW i \in Ids,
           CallerStill(f, i), PublisherStill(f, i)
    PROVE  PairOnward(f, i)
<1>1. rt[f][i].closes \in Nat /\ rt[f][i].updates \in Nat
  BY TrackTypes
<1> QED  BY <1>1 DEF CallerStill, PublisherStill, PairOnward, Local

\* Its invariant holds on.
LEMMA IdleLink ==
    ASSUME NEW f \in Endpoints, NEW i \in Ids, Idle(f, i), LinkInv(f, i),
           EndOnward(f), EndOnward(Peer(f))
    PROVE  LinkInv(f, i)'
<1> DEFINE p == Peer(f)
<1>1. /\ rt'[f][i] = rt[f][i] /\ lt'[p][i] = lt[p][i]
      /\ i \in ropen'[f] <=> i \in ropen[f]
      /\ i \in Remote(f)' <=> i \in Remote(f)
      /\ i \in lopen'[p] <=> i \in lopen[p]
      /\ i \in lpending'[p] <=> i \in lpending[p]
      /\ handling'[p] = i <=> handling[p] = i
  BY DEF Idle, CallerStill, PublisherStill, Remote
<1>2. /\ ErrorSent(f, i)' => ErrorSent(f, i)
      /\ OkSent(f, i) => OkSent(f, i)' \/ Lost(f)'
      /\ ErrorSent(f, i) => ErrorSent(f, i)' \/ Lost(f)'
      /\ DoneSent(f, i) => DoneSent(f, i)' \/ Lost(f)'
  BY DEF Idle, FlightStill, AnswersStill, AnswersPass, ErrorSent, OkSent, DoneSent, Lost
<1>3. /\ Asked(f, i) => Asked(f, i)' \/ failure'[p] # "none"
      /\ CloseSent(f, i) => CloseSent(f, i)' \/ failure'[p] # "none"
      /\ Follows(ctrl[p], i) => Follows(ctrl'[p], i) \/ failure'[p] # "none"
  BY DEF Idle, FlightStill, RequestsStill, RequestsPass, Asked, CloseSent
<1>4. /\ (Lost(f) => Lost(f)') /\ (Lost(p) => Lost(p)')
      /\ failure[p] # "none" => failure'[p] # "none"
      /\ failure'[p] # "none" => Lost(p)'
  BY DEF EndOnward, Lost
<1> HIDE DEF p
<1>5. KindsAgree(f, i)'
  BY <1>1 DEF LinkInv, KindsAgree, p
<1>6. Learned(f, i)'
  BY <1>1, <1>2 DEF LinkInv, Learned, p
<1>7. Published(f, i)'
  BY <1>1 DEF LinkInv, Published, p
<1>8. Told(f, i)'
  BY <1>1, <1>2, <1>3, <1>4 DEF LinkInv, Told, p
<1>9. Ended(f, i)'
  BY <1>1, <1>3, <1>4 DEF LinkInv, Ended, Ending, p
<1>10. Ordered(f, i)'
  BY <1>1, <1>3, <1>4 DEF LinkInv, Ordered, p
<1> QED  BY <1>5, <1>6, <1>7, <1>8, <1>9, <1>10 DEF LinkInv

\* What a message says stays so.
LEMMA MessageKept ==
    ASSUME TypeOK, TypeOK', NEW f \in Endpoints, NEW m \in Message, MsgInv(f, m),
           \A x \in Endpoints, i \in Ids : PairOnward(x, i) /\ KindsAgree(x, i)
    PROVE  MsgInv(f, m)'
<1> DEFINE s == Peer(f)
           id == m.id
<1>0. s \in Endpoints /\ Peer(s) = f /\ id \in Ids
  BY PeerType DEF Message
<1>1. PairOnward(s, id) /\ KindsAgree(s, id) /\ PairOnward(f, id) /\ KindsAgree(f, id)
  BY <1>0
<1>2. /\ rt[s][id].closes \in Nat /\ rt[s][id].updates \in Nat
      /\ rt'[s][id].closes \in Nat /\ rt'[s][id].updates \in Nat
  BY <1>0, TrackTypes, NumbersNext
<1> HIDE DEF s, id
<1>3. rt[s][id].call # "none" =>
        /\ rt'[s][id].kind = rt[s][id].kind /\ rt'[s][id].call # "none"
        /\ rt'[s][id].badNamespace <=> rt[s][id].badNamespace
  BY <1>1 DEF PairOnward
<1>4. Ending(s, id) => Ending(s, id)'
  BY <1>1, <1>2, <1>3 DEF Ending, PairOnward, KindsAgree
<1>5. /\ m.type \in Requests =>
           /\ rt'[s][id].call # "none" /\ m.type = RequestType(rt'[s][id].kind)
           /\ m.val = 1 => rt'[s][id].badNamespace
      /\ m.type \in Closes => Ending(s, id)'
      /\ m.type = "SUBSCRIBE_UPDATE" => rt'[s][id].updates > 0
  BY <1>1, <1>2, <1>3, <1>4 DEF MsgInv, PairOnward, s, id
<1>6. m.type = "SUBSCRIBE_OK" => rt'[f][id].kind = "subscribe"
  BY <1>1 DEF MsgInv, PairOnward, KindsAgree, id
<1>7. m.type \in Dones =>
        /\ lt'[s][id].kind # "none" /\ lt'[s][id].ctx # "live"
        /\ lt'[s][id].answer # "error" /\ id \notin lpending'[s]
  BY <1>1 DEF MsgInv, PairOnward, s, id
<1>8. m.type \in Followers => lt'[f][id].kind # "none" \/ rt'[s][id].kind = "fetch"
  BY <1>0, <1>1, <1>3 DEF MsgInv, PairOnward, KindsAgree, s, id
<1> QED  BY <1>5, <1>6, <1>7, <1>8 DEF MsgInv, s, id

\* A cause of the end of a reader stays one.
LEMMA CauseKept ==
    ASSUME TypeOK, TypeOK', NEW e \in Endpoints, Deaths(e), failure'[e] = failure[e],
           EndOnward(e),
           \A x \in Endpoints, i \in Ids : PairOnward(x, i) /\ KindsAgree(x, i)
    PROVE  Deaths(e)'
<1> DEFINE p == Peer(e)
<1>0. p \in Endpoints /\ Peer(p) = e
  BY PeerType
<1>1. ASSUME failure[e] = "unknownRequestID"
      PROVE  \E id \in Ids : UnknownCause(e, id)'
  <2>1. PICK id \in Ids : UnknownCause(e, id)
    BY <1>1 DEF Deaths
  <2>2. PairOnward(e, id) /\ PairOnward(p, id) /\ KindsAgree(p, id)
    BY <1>0
  <2>3. /\ rt[p][id].closes \in Nat /\ rt[p][id].updates \in Nat
        /\ rt'[p][id].closes \in Nat /\ rt'[p][id].updates \in Nat
    BY <1>0, TrackTypes, NumbersNext
  <2> HIDE DEF p
  <2>4. CASE rt[e][id].call = "cancelled"
    BY <2>2, <2>4 DEF PairOnward, UnknownCause
  <2>5. CASE /\ lt[e][id].kind # "none" /\ id \notin Local(e)
             /\ \/ rt[p][id].closes + rt[p][id].updates > 0
                \/ rt[p][id].kind = "fetch" /\ rt[p][id].call \in {"refused", "cancelled"}
                \/ lt[e][id].ctx = "done" /\ lt[e][id].answer = "none"
    <3>1. lt'[e][id].kind # "none" /\ id \notin Local(e)'
      BY <1>0, <2>2, <2>5 DEF PairOnward
    <3>2. CASE rt[p][id].closes + rt[p][id].updates > 0
      <4>1. rt'[p][id].closes + rt'[p][id].updates > 0
        BY <2>2, <2>3, <3>2 DEF PairOnward
      <4> QED  BY <3>1, <4>1 DEF UnknownCause, p
    <3>3. CASE rt[p][id].kind = "fetch" /\ rt[p][id].call \in {"refused", "cancelled"}
      <4>1. rt'[p][id].kind = "fetch" /\ rt'[p][id].call \in {"refused", "cancelled"}
        BY <2>2, <3>3 DEF PairOnward
      <4> QED  BY <3>1, <4>1 DEF UnknownCause, p
    <3>4. CASE lt[e][id].ctx = "done" /\ lt[e][id].answer = "none"
      <4>1. lt'[e][id].ctx = "done" /\ lt'[e][id].answer = "none"
        BY <1>0, <2>2, <2>5, <3>4 DEF PairOnward
      <4> QED  BY <3>1, <4>1 DEF UnknownCause, p
    <3> QED  BY <2>5, <3>2, <3>3, <3>4
  <2>6. CASE rt[p][id].kind = "fetch" /\ OverLimit(e, id)
    <3>1. rt'[p][id].kind = "fetch" /\ OverLimit(e, id)'
      BY <1>1, <2>2, <2>6 DEF PairOnward, KindsAgree, EndOnward, OverLimit
    <3> QED  BY <3>1 DEF UnknownCause, p
  <2>7. \/ rt[e][id].call = "cancelled"
        \/ /\ lt[e][id].kind # "none" /\ id \notin Local(e)
           /\ \/ rt[p][id].closes + rt[p][id].updates > 0
              \/ rt[p][id].kind = "fetch" /\ rt[p][id].call \in {"refused", "cancelled"}
              \/ lt[e][id].ctx = "done" /\ lt[e][id].answer = "none"
        \/ rt[p][id].kind = "fetch" /\ OverLimit(e, id)
    BY <2>1 DEF UnknownCause, p
  <2> QED  BY <2>4, <2>5, <2>6, <2>7
<1>2. ASSUME failure[e] = "duplicateTrackAlias"
      PROVE  \E id1, id2 \in ropen'[e] :
               id1 # id2 /\ rt'[e][id1].kind = "subscribe" /\ rt'[e][id2].kind = "subscribe"
  <2>1. PICK id1, id2 \in ropen[e] :
          id1 # id2 /\ rt[e][id1].kind = "subscribe" /\ rt[e][id2].kind = "subscribe"
    BY <1>2 DEF Deaths
  <2>2. id1 \in Ids /\ id2 \in Ids
    BY DEF TypeOK
  <2>3. PairOnward(e, id1) /\ PairOnward(e, id2) /\ KindsAgree(e, id1) /\ KindsAgree(e, id2)
    BY <2>2
  <2>4. /\ id1 \in ropen'[e] /\ rt'[e][id1].kind = "subscribe"
        /\ id2 \in ropen'[e] /\ rt'[e][id2].kind = "subscribe"
    BY <2>1, <2>3 DEF PairOnward, KindsAgree
  <2> QED  BY <2>1, <2>4
<1>3. ASSUME failure[e] = "invalidNamespaceLength"
      PROVE  \E id \in Ids : rt'[p][id].badNamespace
  <2>1. PICK id \in Ids : rt[p][id].badNamespace
    BY <1>3 DEF Deaths
  <2>2. PairOnward(p, id) /\ KindsAgree(p, id)
    BY <1>0
  <2>3. rt'[p][id].badNamespace
    BY <2>1, <2>2 DEF PairOnward, KindsAgree
  <2> QED  BY <2>3
<1>4. failure[e] # "duplicateRequestID"
  BY DEF Deaths
<1>5. failure[e] \in {"writeFailed", "connectionClosed"} => conn' = "down"
  BY DEF Deaths, EndOnward
<1> QED  BY <1>1, <1>2, <1>3, <1>4, <1>5 DEF Deaths

\* What is written to f is so.
TruthWritten(f) ==
    \/ From(ctrl[f], ctrl'[f])
    \/ \E m \in Message : FromOr(ctrl[f], ctrl'[f], m) /\ MsgInv(f, m)'

\* What a step does to an end: a reader that ends has a cause, and what is written
\* to it is so.
EndFrame(f) ==
    /\ EndOnward(f) /\ HandlerEnd(f)'
    /\ aliases'[f] = aliases[f] \/ AliasesOpen(f)'
    /\ failure'[f] = failure[f] \/ Deaths(f)'
    /\ TruthWritten(f)

\* A step that keeps every pair going keeps the invariant.
LEMMA Framed ==
    ASSUME TypeOK, TypeOK', AgreeInv,
           \A f \in Endpoints, i \in Ids : PairOnward(f, i) /\ LinkInv(f, i)',
           \A f \in Endpoints : EndFrame(f)
    PROVE  AgreeInv'
<1>0. \A x \in Endpoints, i \in Ids : PairOnward(x, i) /\ KindsAgree(x, i)
  BY DEF AgreeInv, LinkInv
<1>1. ASSUME NEW f \in Endpoints, NEW m \in Message,
             \E k \in 1 .. Len(ctrl[f]) : m = ctrl[f][k]
      PROVE  MsgInv(f, m)'
  <2>1. MsgInv(f, m)
    BY <1>1 DEF AgreeInv
  <2> QED  BY <1>0, <2>1, MessageKept
<1>2. ASSUME NEW f \in Endpoints, NEW j \in 1 .. Len(ctrl'[f]), NEW m, m = ctrl'[f][j]
      PROVE  MsgInv(f, m)'
  <2>1. m \in Message
    <3>1. ctrl'[f] \in Seq(Message)
      BY DEF TypeOK
    <3> QED  BY <1>2, <3>1, ElementOfSeq
  <2>2. CASE From(ctrl[f], ctrl'[f])
    BY <1>1, <1>2, <2>1, <2>2 DEF From
  <2>3. ASSUME NEW n \in Message, FromOr(ctrl[f], ctrl'[f], n), MsgInv(f, n)'
        PROVE  MsgInv(f, m)'
    <3>1. CASE m = n
      BY <2>3, <3>1
    <3>2. CASE m # n
      BY <1>1, <1>2, <2>1, <2>3, <3>2 DEF FromOr
    <3> QED  BY <3>1, <3>2
  <2> QED  BY <2>2, <2>3 DEF EndFrame, TruthWritten
<1>3. ASSUME NEW f \in Endpoints
      PROVE  \A j \in 1 .. Len(ctrl'[f]) : MsgInv(f, ctrl[f][j])'
  <2> SUFFICES ASSUME NEW j \in 1 .. Len(ctrl'[f])
               PROVE  MsgInv(f, ctrl[f][j])'
    OBVIOUS
  <2>1. \E m : m = ctrl'[f][j]
    OBVIOUS
  <2>2. PICK m : m = ctrl'[f][j]
    BY <2>1
  <2>3. MsgInv(f, m)'
    BY <1>2, <2>2
  <2> QED  BY <2>2, <2>3 DEF MsgInv, Ending
<1>4. ASSUME NEW f \in Endpoints
      PROVE  AliasesOpen(f)'
  <2>1. CASE aliases'[f] = aliases[f]
    <3> SUFFICES ASSUME NEW a \in aliases[f]
                 PROVE  a[2] \in ropen'[f] /\ rt'[f][a[2]].kind = "subscribe"
      BY <2>1 DEF AliasesOpen
    <3>1. a[2] \in ropen[f] /\ rt[f][a[2]].kind = "subscribe"
      BY DEF AgreeInv, AliasesOpen
    <3>2. a[2] \in Ids
      BY <3>1 DEF TypeOK
    <3>3. PairOnward(f, a[2]) /\ KindsAgree(f, a[2])
      BY <1>0, <3>2
    <3> QED  BY <3>1, <3>3 DEF PairOnward, KindsAgree
  <2> QED  BY <2>1 DEF EndFrame
<1>5. ASSUME NEW f \in Endpoints
      PROVE  Deaths(f)'
  <2>1. CASE failure'[f] = failure[f]
    BY <1>0, <2>1, CauseKept DEF AgreeInv, EndFrame
  <2> QED  BY <2>1 DEF EndFrame
<1> QED  BY <1>3, <1>4, <1>5 DEF AgreeInv, EndFrame

\* A step about one pair, and a step about none.
LEMMA OnePair ==
    ASSUME TypeOK, TypeOK', AgreeInv, NEW e \in Endpoints, NEW id \in Ids,
           Idle(e, id) \/ (PairOnward(e, id) /\ LinkInv(e, id)'),
           \A f \in Endpoints, i \in Ids : f # e \/ i # id => Idle(f, i),
           \A f \in Endpoints : EndFrame(f)
    PROVE  AgreeInv'
<1>1. ASSUME NEW f \in Endpoints, NEW i \in Ids
      PROVE  PairOnward(f, i) /\ LinkInv(f, i)'
  <2>1. CASE Idle(f, i)
    <3>1. PairOnward(f, i)
      BY <2>1, IdleOnward DEF Idle
    <3>2. LinkInv(f, i) /\ EndOnward(f) /\ EndOnward(Peer(f))
      BY PeerType DEF AgreeInv, EndFrame
    <3> QED  BY <2>1, <3>1, <3>2, IdleLink
  <2>2. CASE ~Idle(f, i)
    BY <2>2
  <2> QED  BY <2>1, <2>2
<1> QED  BY <1>1, Framed

\* A step that concerns no pair.
LEMMA NoPair ==
    ASSUME TypeOK, TypeOK', AgreeInv,
           \A f \in Endpoints, i \in Ids : Idle(f, i),
           \A f \in Endpoints : EndFrame(f)
    PROVE  AgreeInv'
<1>1. 0 \in Ids /\ Client \in Endpoints
  BY ControlAssumption DEF Ids, Endpoints
<1> QED  BY <1>1, OnePair

-----------------------------------------------------------------------------
(***************************************************************************)
(* What writing and reading do to what is in flight.                       *)
(***************************************************************************)

\* The two ends.
LEMMA TwoEnds ==
    ASSUME NEW x \in Endpoints
    PROVE  /\ Peer(x) \in Endpoints /\ Peer(x) # x /\ Peer(Peer(x)) = x
           /\ \A f \in Endpoints : f # x <=> f = Peer(x)
BY DEF Endpoints, Client, Server, Peer

\* A write of x is about its own requests, or about those it answers.
LEMMA WriteStill ==
    ASSUME TypeOK, NEW x \in Endpoints, NEW m \in Message, Write(x, m)
    PROVE  /\ \A f \in Endpoints, i \in Ids :
                /\ m.type \notin ForCaller \/ f # Peer(x) \/ i # m.id => AnswersStill(f, i)
                /\ m.type \notin ForPublisher \/ f # x \/ i # m.id => RequestsStill(f, i)
           /\ From(ctrl[x], ctrl'[x]) /\ FromOr(ctrl[Peer(x)], ctrl'[Peer(x)], m)
           /\ ctrl'[x] = ctrl[x] /\ ctrl'[Peer(x)] = Written(ctrl[Peer(x)], m)
<1> DEFINE p == Peer(x)
<1>0. /\ p \in Endpoints /\ p # x /\ Peer(p) = x
      /\ \A f \in Endpoints : f = x \/ f = p
  BY TwoEnds
<1>1. ctrl'[x] = ctrl[x] /\ ctrl'[p] = Written(ctrl[p], m)
  BY <1>0 DEF Write, TypeOK
<1>2. ctrl[x] \in Seq(Message) /\ ctrl[p] \in Seq(Message)
  BY <1>0 DEF TypeOK
<1>3. From(ctrl[x], ctrl'[x]) /\ FromOr(ctrl[p], ctrl'[p], m)
  BY <1>1, <1>2, FromSteps
<1>4. ASSUME NEW i \in Ids
      PROVE  /\ AnswersStill(x, i) /\ RequestsStill(p, i)
             /\ m.type \notin ForCaller \/ i # m.id => AnswersStill(p, i)
             /\ m.type \notin ForPublisher \/ i # m.id => RequestsStill(x, i)
  <2>1. AnswersStill(x, i)
    BY <1>1, <1>2, PassWritten DEF AnswersStill
  <2>2. RequestsStill(p, i)
    <3>1. RequestsPass(ctrl[x], ctrl'[x], i, failure'[x] # "none")
      BY <1>1, <1>2, PassWritten
    <3> HIDE DEF p
    <3> QED  BY <1>0, <3>1 DEF RequestsStill
  <2>3. m.type \notin ForCaller \/ i # m.id => AnswersStill(p, i)
    BY <1>1, <1>2, PassWritten DEF AnswersStill
  <2>4. m.type \notin ForPublisher \/ i # m.id => RequestsStill(x, i)
    BY <1>1, <1>2, PassWritten DEF RequestsStill
  <2> QED  BY <2>1, <2>2, <2>3, <2>4
<1> HIDE DEF p
<1>5. \A f \in Endpoints, i \in Ids :
        /\ m.type \notin ForCaller \/ f # p \/ i # m.id => AnswersStill(f, i)
        /\ m.type \notin ForPublisher \/ f # x \/ i # m.id => RequestsStill(f, i)
  BY <1>0, <1>4
<1> QED  BY <1>1, <1>3, <1>5 DEF p

\* The reader of x takes what is about the other's requests, or an answer to its own.
LEMMA ReadStill ==
    ASSUME TypeOK, NEW x \in Endpoints, ctrl[x] # << >>, ctrl'[x] = Tail(ctrl[x]),
           \A i \in Ids :
             RequestsPass(ctrl[Peer(x)], ctrl'[Peer(x)], i, failure'[Peer(x)] # "none")
    PROVE  LET h == Head(ctrl[x])
               p == Peer(x)
               ended == failure'[x] # "none" IN
           /\ \A f \in Endpoints, i \in Ids :
                /\ h.type \notin ForPublisher \/ f # p \/ i # h.id \/ ended =>
                     RequestsStill(f, i)
                /\ /\ h.type \notin ForCaller \/ f # x \/ i # h.id \/ ended
                   /\ f = p => AnswersPass(ctrl[p], ctrl'[p], i, failure'[p] # "none")
                   => AnswersStill(f, i)
           /\ From(ctrl[x], ctrl'[x])
<1> DEFINE p == Peer(x)
           h == Head(ctrl[x])
           ended == failure'[x] # "none"
<1>0. /\ p \in Endpoints /\ p # x /\ Peer(p) = x
      /\ \A f \in Endpoints : f = x \/ f = p
  BY TwoEnds
<1>1. ctrl[x] \in Seq(Message)
  BY DEF TypeOK
<1>2. From(ctrl[x], ctrl'[x])
  <2>1. Head(ctrl[x]) \in Message
    BY HeadType DEF TypeOK
  <2> QED  BY <1>1, <2>1, FromSteps
<1>3. ASSUME NEW i \in Ids
      PROVE  /\ h.type \notin ForCaller \/ h.id # i \/ ended => AnswersStill(x, i)
             /\ h.type \notin ForPublisher \/ h.id # i \/ ended => RequestsStill(p, i)
             /\ RequestsStill(x, i)
             /\ AnswersPass(ctrl[p], ctrl'[p], i, failure'[p] # "none") => AnswersStill(p, i)
  <2>0. ended \in BOOLEAN /\ (h.type \notin ForPublisher => h.type \notin Requests \cup Closes)
    BY DEF ForPublisher, Followers
  <2>1. /\ h.type \notin ForCaller \/ h.id # i \/ ended =>
             AnswersPass(ctrl[x], ctrl'[x], i, ended)
        /\ h.type \notin ForPublisher \/ h.id # i \/ ended =>
             RequestsPass(ctrl[x], ctrl'[x], i, ended)
    BY <1>1, <2>0, PassTail
  <2>2. RequestsStill(x, i)
    BY DEF RequestsStill
  <2> HIDE DEF p
  <2> QED  BY <1>0, <2>1, <2>2 DEF AnswersStill, RequestsStill
<1> HIDE DEF p, h, ended
<1>4. \A f \in Endpoints, i \in Ids :
        /\ h.type \notin ForPublisher \/ f # p \/ i # h.id \/ ended => RequestsStill(f, i)
        /\ /\ h.type \notin ForCaller \/ f # x \/ i # h.id \/ ended
           /\ f = p => AnswersPass(ctrl[p], ctrl'[p], i, failure'[p] # "none")
           => AnswersStill(f, i)
  BY <1>0, <1>3
<1> QED  BY <1>2, <1>4 DEF p, h, ended

\* It leaves what is in flight to the peer alone.
LEMMA ConsumeStill ==
    ASSUME TypeOK, NEW x \in Endpoints, ctrl[x] # << >>,
           Consume(x) \/ ConsumeAndLeave(x, ctrl[Peer(x)])
    PROVE  LET h == Head(ctrl[x])
               p == Peer(x)
               ended == failure'[x] # "none" IN
           /\ ctrl'[x] = Tail(ctrl[x]) /\ ctrl'[p] = ctrl[p]
           /\ \A f \in Endpoints, i \in Ids :
                /\ h.type \notin ForPublisher \/ f # p \/ i # h.id \/ ended =>
                     RequestsStill(f, i)
                /\ h.type \notin ForCaller \/ f # x \/ i # h.id \/ ended => AnswersStill(f, i)
           /\ \A f \in Endpoints : From(ctrl[f], ctrl'[f])
<1> DEFINE p == Peer(x)
<1>0. p \in Endpoints /\ p # x /\ \A f \in Endpoints : f = x \/ f = p
  BY TwoEnds
<1>1. ctrl'[x] = Tail(ctrl[x]) /\ ctrl'[p] = ctrl[p]
  BY <1>0 DEF Consume, ConsumeAndLeave, TypeOK
<1>2. From(ctrl[p], ctrl'[p])
  BY <1>1 DEF From
<1>3. \A i \in Ids : /\ RequestsPass(ctrl[p], ctrl'[p], i, failure'[p] # "none")
                     /\ AnswersPass(ctrl[p], ctrl'[p], i, failure'[p] # "none")
  BY <1>1 DEF RequestsPass, AnswersPass
<1> QED  BY <1>0, <1>1, <1>2, <1>3, ReadStill

-----------------------------------------------------------------------------
(***************************************************************************)
(* What the actions do to a track.                                         *)
(***************************************************************************)

\* s is the remote track r with these values, and so for a local track.
RemoteIs(r, s, call, resp, done, closes, updates) ==
    /\ s.kind = r.kind /\ (s.badNamespace <=> r.badNamespace)
    /\ s.call = call /\ s.resp = resp /\ (s.done <=> done)
    /\ s.closes = closes /\ s.updates = updates
LocalIs(l, s, ctx, handled, answer) ==
    s.kind = l.kind /\ s.ctx = ctx /\ (s.handled <=> handled) /\ s.answer = answer

\* g is f but for the track of x under i.
OtherTracks(f, g, x, i) == \A y \in Endpoints, j \in Ids : y # x \/ j # i => g[y][j] = f[y][j]

\* A track is replaced, and no other.
LEMMA OneReplaced ==
    ASSUME NEW x \in Endpoints, NEW i \in Ids, NEW s
    PROVE  /\ \A f \in RemoteTracks :
                /\ [f EXCEPT ![x][i] = s][x][i] = s
                /\ OtherTracks(f, [f EXCEPT ![x][i] = s], x, i)
           /\ \A f \in LocalTracks :
                /\ [f EXCEPT ![x][i] = s][x][i] = s
                /\ OtherTracks(f, [f EXCEPT ![x][i] = s], x, i)
BY DEF OtherTracks, RemoteTracks, LocalTracks

\* The fields of a track after each update.
LEMMA RemoteUpdates ==
    ASSUME NEW r \in RemoteTrack
    PROVE  /\ \A v : RemoteIs(r, [r EXCEPT !.call = v], v, r.resp, r.done, r.closes, r.updates)
           /\ \A v : RemoteIs(r, [r EXCEPT !.resp = v], r.call, v, r.done, r.closes, r.updates)
           /\ RemoteIs(r, [r EXCEPT !.done = TRUE], r.call, r.resp, TRUE, r.closes, r.updates)
           /\ RemoteIs(r, [r EXCEPT !.closes = r.closes + 1], r.call, r.resp, r.done,
                       r.closes + 1, r.updates)
           /\ RemoteIs(r, [r EXCEPT !.updates = r.updates + 1], r.call, r.resp, r.done,
                       r.closes, r.updates + 1)
           /\ \A v : RemoteIs(r, [r EXCEPT !.call = v, !.resp = "empty"], v, "empty", r.done,
                              r.closes, r.updates)
<1> USE DEF RemoteTrack, RemoteIs
<1>1. \A v : RemoteIs(r, [r EXCEPT !.call = v], v, r.resp, r.done, r.closes, r.updates)
  OBVIOUS
<1>2. \A v : RemoteIs(r, [r EXCEPT !.resp = v], r.call, v, r.done, r.closes, r.updates)
  OBVIOUS
<1>3. RemoteIs(r, [r EXCEPT !.done = TRUE], r.call, r.resp, TRUE, r.closes, r.updates)
  OBVIOUS
<1>4. RemoteIs(r, [r EXCEPT !.closes = r.closes + 1], r.call, r.resp, r.done,
               r.closes + 1, r.updates)
  OBVIOUS
<1>5. RemoteIs(r, [r EXCEPT !.updates = r.updates + 1], r.call, r.resp, r.done,
               r.closes, r.updates + 1)
  OBVIOUS
<1>6. \A v : RemoteIs(r, [r EXCEPT !.call = v, !.resp = "empty"], v, "empty", r.done,
                      r.closes, r.updates)
  OBVIOUS
<1> QED  BY <1>1, <1>2, <1>3, <1>4, <1>5, <1>6

\* The same for the fields of a publisher's track.
LEMMA LocalUpdates ==
    ASSUME NEW l \in LocalTrack
    PROVE  /\ \A v : LocalIs(l, [l EXCEPT !.ctx = v], v, l.handled, l.answer)
           /\ \A v : LocalIs(l, [l EXCEPT !.answer = v], l.ctx, l.handled, v)
           /\ \A v : LocalIs(l, Handled(l, v), l.ctx, TRUE, v)
BY DEF LocalTrack, LocalIs, Handled

\* g is f with another track for i at x, which has these values.
RemoteMove(f, g, x, i, call, resp, done, closes, updates) ==
    OtherTracks(f, g, x, i) /\ RemoteIs(f[x][i], g[x][i], call, resp, done, closes, updates)
LocalMove(f, g, x, i, ctx, handled, answer) ==
    OtherTracks(f, g, x, i) /\ LocalIs(f[x][i], g[x][i], ctx, handled, answer)

\* The updates that the actions make.
LEMMA RemoteMoves ==
    ASSUME NEW f \in RemoteTracks, NEW x \in Endpoints, NEW i \in Ids
    PROVE  LET r == f[x][i] IN
           /\ \A v : RemoteMove(f, [f EXCEPT ![x][i].call = v], x, i,
                                v, r.resp, r.done, r.closes, r.updates)
           /\ \A v : RemoteMove(f, [f EXCEPT ![x][i].resp = v], x, i,
                                r.call, v, r.done, r.closes, r.updates)
           /\ RemoteMove(f, [f EXCEPT ![x][i].done = TRUE], x, i,
                         r.call, r.resp, TRUE, r.closes, r.updates)
           /\ RemoteMove(f, [f EXCEPT ![x][i].closes = @ + 1], x, i,
                         r.call, r.resp, r.done, r.closes + 1, r.updates)
           /\ RemoteMove(f, [f EXCEPT ![x][i].updates = @ + 1], x, i,
                         r.call, r.resp, r.done, r.closes, r.updates + 1)
           /\ \A v : RemoteMove(f, [f EXCEPT ![x][i] = [@ EXCEPT !.call = v, !.resp = "empty"]],
                                x, i, v, "empty", r.done, r.closes, r.updates)
<1> DEFINE r == f[x][i]
<1>1. r \in RemoteTrack
  BY DEF RemoteTracks
<1>2. ASSUME NEW s, NEW call, NEW resp, NEW done, NEW closes, NEW updates,
             RemoteIs(r, s, call, resp, done, closes, updates)
      PROVE  RemoteMove(f, [f EXCEPT ![x][i] = s], x, i, call, resp, done, closes, updates)
  <2>1. [f EXCEPT ![x][i] = s][x][i] = s /\ OtherTracks(f, [f EXCEPT ![x][i] = s], x, i)
    BY OneReplaced
  <2> QED  BY <1>2, <2>1, Zenon DEF RemoteMove
<1>3. ASSUME NEW v
      PROVE  RemoteMove(f, [f EXCEPT ![x][i].call = v], x, i,
                        v, r.resp, r.done, r.closes, r.updates)
  <2>1. RemoteIs(r, [r EXCEPT !.call = v], v, r.resp, r.done, r.closes, r.updates)
    BY <1>1, RemoteUpdates
  <2> QED  BY <1>2, <2>1, Zenon
<1>4. ASSUME NEW v
      PROVE  RemoteMove(f, [f EXCEPT ![x][i].resp = v], x, i,
                        r.call, v, r.done, r.closes, r.updates)
  <2>1. RemoteIs(r, [r EXCEPT !.resp = v], r.call, v, r.done, r.closes, r.updates)
    BY <1>1, RemoteUpdates
  <2> QED  BY <1>2, <2>1, Zenon
<1>5. RemoteMove(f, [f EXCEPT ![x][i].done = TRUE], x, i,
                 r.call, r.resp, TRUE, r.closes, r.updates)
  <2>1. RemoteIs(r, [r EXCEPT !.done = TRUE], r.call, r.resp, TRUE, r.closes, r.updates)
    BY <1>1, RemoteUpdates
  <2> QED  BY <1>2, <2>1, Zenon
<1>6. RemoteMove(f, [f EXCEPT ![x][i].closes = @ + 1], x, i,
                 r.call, r.resp, r.done, r.closes + 1, r.updates)
  <2>1. RemoteIs(r, [r EXCEPT !.closes = r.closes + 1], r.call, r.resp, r.done,
                 r.closes + 1, r.updates)
    BY <1>1, RemoteUpdates
  <2> QED  BY <1>2, <2>1, Zenon
<1>7. RemoteMove(f, [f EXCEPT ![x][i].updates = @ + 1], x, i,
                 r.call, r.resp, r.done, r.closes, r.updates + 1)
  <2>1. RemoteIs(r, [r EXCEPT !.updates = r.updates + 1], r.call, r.resp, r.done,
                 r.closes, r.updates + 1)
    BY <1>1, RemoteUpdates
  <2> QED  BY <1>2, <2>1, Zenon
<1>8. ASSUME NEW v
      PROVE  RemoteMove(f, [f EXCEPT ![x][i] = [@ EXCEPT !.call = v, !.resp = "empty"]],
                        x, i, v, "empty", r.done, r.closes, r.updates)
  <2>1. RemoteIs(r, [r EXCEPT !.call = v, !.resp = "empty"], v, "empty", r.done,
                 r.closes, r.updates)
    BY <1>1, RemoteUpdates
  <2> QED  BY <1>2, <2>1, Zenon
<1> QED  BY <1>3, <1>4, <1>5, <1>6, <1>7, <1>8

\* The same for the tracks of the publishers.
LEMMA LocalMoves ==
    ASSUME NEW f \in LocalTracks, NEW x \in Endpoints, NEW i \in Ids
    PROVE  LET l == f[x][i] IN
           /\ \A v : LocalMove(f, [f EXCEPT ![x][i].ctx = v], x, i, v, l.handled, l.answer)
           /\ \A v : LocalMove(f, [f EXCEPT ![x][i].answer = v], x, i, l.ctx, l.handled, v)
           /\ \A v : LocalMove(f, [f EXCEPT ![x][i] = Handled(@, v)], x, i, l.ctx, TRUE, v)
<1> DEFINE l == f[x][i]
<1>1. l \in LocalTrack
  BY DEF LocalTracks
<1>2. ASSUME NEW s, NEW ctx, NEW handled, NEW answer, LocalIs(l, s, ctx, handled, answer)
      PROVE  LocalMove(f, [f EXCEPT ![x][i] = s], x, i, ctx, handled, answer)
  <2>1. [f EXCEPT ![x][i] = s][x][i] = s /\ OtherTracks(f, [f EXCEPT ![x][i] = s], x, i)
    BY OneReplaced
  <2> QED  BY <1>2, <2>1, Zenon DEF LocalMove
<1>3. ASSUME NEW v
      PROVE  LocalMove(f, [f EXCEPT ![x][i].ctx = v], x, i, v, l.handled, l.answer)
  <2>1. LocalIs(l, [l EXCEPT !.ctx = v], v, l.handled, l.answer)
    BY <1>1, LocalUpdates
  <2> QED  BY <1>2, <2>1, Zenon
<1>4. ASSUME NEW v
      PROVE  LocalMove(f, [f EXCEPT ![x][i].answer = v], x, i, l.ctx, l.handled, v)
  <2>1. LocalIs(l, [l EXCEPT !.answer = v], l.ctx, l.handled, v)
    BY <1>1, LocalUpdates
  <2> QED  BY <1>2, <2>1, Zenon
<1>5. ASSUME NEW v
      PROVE  LocalMove(f, [f EXCEPT ![x][i] = Handled(@, v)], x, i, l.ctx, TRUE, v)
  <2>1. LocalIs(l, Handled(l, v), l.ctx, TRUE, v)
    BY <1>1, LocalUpdates
  <2> QED  BY <1>2, <2>1, Zenon
<1> QED  BY <1>3, <1>4, <1>5

-----------------------------------------------------------------------------
(***************************************************************************)
(* The steps of a call, for its pair.                                      *)
(***************************************************************************)

\* What was in flight still is, or its reader has ended.
LEMMA AnswersArrive ==
    ASSUME NEW f, NEW i, AnswersStill(f, i)
    PROVE  /\ (OkSent(f, i)' => OkSent(f, i)) /\ (OkSent(f, i) => OkSent(f, i)' \/ Lost(f)')
           /\ ErrorSent(f, i)' => ErrorSent(f, i)
           /\ ErrorSent(f, i) => ErrorSent(f, i)' \/ Lost(f)'
           /\ DoneSent(f, i)' => DoneSent(f, i)
           /\ DoneSent(f, i) => DoneSent(f, i)' \/ Lost(f)'
BY DEF AnswersStill, AnswersPass, OkSent, ErrorSent, DoneSent, Lost

\* Requests and what follows them stay on their way, or their reader has ended.
LEMMA RequestsArrive ==
    ASSUME NEW f, NEW i, RequestsStill(f, i)
    PROVE  LET p == Peer(f) IN
           /\ Asked(f, i)' => Asked(f, i)
           /\ Asked(f, i) => Asked(f, i)' \/ failure'[p] # "none"
           /\ CloseSent(f, i) => CloseSent(f, i)' \/ failure'[p] # "none"
           /\ Follows(ctrl[p], i) => Follows(ctrl'[p], i) \/ failure'[p] # "none"
BY DEF RequestsStill, RequestsPass, Asked, CloseSent

\* What is lost stays lost.
LEMMA LossStays ==
    ASSUME NEW f, EndOnward(f)
    PROVE  /\ Lost(f) => Lost(f)'
           /\ failure[f] # "none" => failure'[f] # "none"
           /\ failure'[f] # "none" => Lost(f)'
BY DEF EndOnward, Lost

\* Nothing happens to the publisher's track.
LEMMA StillPublished ==
    ASSUME NEW e, NEW id, PublisherStill(e, id), LinkInv(e, id)
    PROVE  Published(e, id)'
BY DEF PublisherStill, LinkInv, Published

\* A call begins.
LEMMA BeginLink ==
    ASSUME NEW e \in Endpoints, NEW id \in Ids, PairInv(e, id), LinkInv(e, id),
           PublisherStill(e, id), FlightStill(e, id), EndOnward(e), EndOnward(Peer(e)),
           rt[e][id].call = "none", rt'[e][id].kind # "none", rt'[e][id].call = "begun",
           rt'[e][id].resp = "empty", ~rt'[e][id].done,
           rt'[e][id].closes = 0, rt'[e][id].updates = 0,
           rt[e][id].closes = 0, rt[e][id].updates = 0,
           id \in ropen'[e] <=> id \in ropen[e], Follows(ctrl[Peer(e)], id)
    PROVE  LinkInv(e, id)' /\ PairOnward(e, id)
<1> DEFINE p == Peer(e)
<1>1. /\ ErrorSent(e, id)' => ErrorSent(e, id)
      /\ Follows(ctrl'[p], id) \/ failure'[p] # "none"
  BY AnswersArrive, RequestsArrive DEF FlightStill
<1>2. /\ id \notin ropen[e] /\ ~ErrorSent(e, id) /\ lt[p][id].kind = "none"
      /\ lt[p][id].answer = "none" /\ lt[p][id].ctx = "live" /\ id \notin Local(p)
  BY DEF PairInv, Underway, Unanswered, Live, Remote, LinkInv, KindsAgree
<1>3. lt'[p][id] = lt[p][id] /\ (id \in lpending'[p] <=> id \in lpending[p])
      /\ (id \in lopen'[p] <=> id \in lopen[p])
  BY DEF PublisherStill
<1> HIDE DEF p
<1>4. KindsAgree(e, id)' /\ Learned(e, id)'
  BY <1>1, <1>2, <1>3 DEF KindsAgree, Learned, p
<1>5. Published(e, id)'
  BY StillPublished
<1>6. Told(e, id)' /\ Ended(e, id)'
  BY <1>2, <1>3 DEF Told, Ended, p
<1>7. Ordered(e, id)'
  BY <1>1 DEF Ordered, p
<1>8. PairOnward(e, id)
  BY <1>2, <1>3 DEF PairOnward, Local, p
<1> QED  BY <1>4, <1>5, <1>6, <1>7, <1>8 DEF LinkInv

\* The request is written, or cannot be.
LEMMA SendLink ==
    ASSUME NEW e \in Endpoints, NEW id \in Ids, PairInv(e, id), LinkInv(e, id),
           NEW call \in {"waiting", "unsent"}, rt[e][id].call = "begun",
           RemoteIs(rt[e][id], rt'[e][id], call, rt[e][id].resp, rt[e][id].done,
                    rt[e][id].closes, rt[e][id].updates),
           rt[e][id].closes \in Nat, rt[e][id].updates \in Nat,
           id \in ropen'[e] <=> id \in ropen[e],
           PublisherStill(e, id), AnswersStill(e, id), EndOnward(e), EndOnward(Peer(e)),
           call = "waiting" => Asked(e, id)',
           Follows(ctrl[Peer(e)], id) => Follows(ctrl'[Peer(e)], id)
    PROVE  LinkInv(e, id)' /\ PairOnward(e, id)
<1> DEFINE p == Peer(e)
           r == rt[e][id]
<1>1. ErrorSent(e, id)' => ErrorSent(e, id)
  BY AnswersArrive
<1>2. /\ ~ErrorSent(e, id) /\ lt[p][id].kind = "none" /\ r.resp = "empty"
      /\ lt[p][id].answer = "none" /\ lt[p][id].ctx = "live" /\ id \notin Local(p)
      /\ ~(r.closes > 0) /\ ~(r.updates > 0) /\ r.kind # "none"
  BY DEF PairInv, Underway, Unanswered, Live, LinkInv, KindsAgree
<1>3. id \notin ropen[e] /\ ~r.done
  BY <1>2 DEF LinkInv, Learned, Ended
<1>4. lt'[p][id] = lt[p][id] /\ (id \in lpending'[p] <=> id \in lpending[p])
      /\ (id \in lopen'[p] <=> id \in lopen[p])
  BY DEF PublisherStill
<1>5. /\ rt'[e][id].call = call /\ rt'[e][id].kind = r.kind /\ rt'[e][id].resp = r.resp
      /\ rt'[e][id].badNamespace <=> r.badNamespace
      /\ rt'[e][id].done <=> r.done
      /\ rt'[e][id].closes = r.closes /\ rt'[e][id].updates = r.updates
  BY DEF RemoteIs
<1>6. /\ failure[p] # "none" => failure'[p] # "none"
      /\ r.kind = "fetch" /\ failure[p] = "none" => Follows(ctrl[p], id)
  BY <1>2, LossStays DEF LinkInv, Ordered
<1> HIDE DEF p, r
<1>7. KindsAgree(e, id)' /\ Learned(e, id)'
  BY <1>1, <1>2, <1>3, <1>4, <1>5 DEF KindsAgree, Learned, p
<1>8. Published(e, id)'
  BY StillPublished
<1>9. Told(e, id)' /\ Ended(e, id)'
  BY <1>2, <1>3, <1>4, <1>5 DEF Told, Ended, p
<1>10. Ordered(e, id)'
  BY <1>5, <1>6 DEF Ordered, p
<1>11. PairOnward(e, id)
  BY <1>2, <1>3, <1>4, <1>5 DEF PairOnward, Local, p, r
<1> QED  BY <1>7, <1>8, <1>9, <1>10, <1>11 DEF LinkInv

\* The call receives the answer and returns.
LEMMA ResolveLink ==
    ASSUME NEW e \in Endpoints, NEW id \in Ids, PairInv(e, id), LinkInv(e, id),
           NEW call, rt[e][id].call = "waiting", rt[e][id].resp # "empty",
           rt[e][id].resp \in {"empty", "ok", "error"},
           call = IF rt[e][id].resp = "error" THEN "refused" ELSE "ok",
           RemoteIs(rt[e][id], rt'[e][id], call, "empty", rt[e][id].done,
                    rt[e][id].closes, rt[e][id].updates),
           rt[e][id].closes \in Nat, rt[e][id].updates \in Nat,
           id \in ropen'[e] <=> id \in ropen[e],
           call = "ok" => (id \in rpending'[e] <=> id \in rpending[e]),
           PublisherStill(e, id), AnswersStill(e, id), EndOnward(e), EndOnward(Peer(e))
    PROVE  LinkInv(e, id)' /\ PairOnward(e, id)
<1> DEFINE p == Peer(e)
           r == rt[e][id]
           l == lt[p][id]
<1>1. /\ ErrorSent(e, id)' => ErrorSent(e, id)
      /\ DoneSent(e, id) => DoneSent(e, id)' \/ Lost(e)'
      /\ OkSent(e, id) => OkSent(e, id)' \/ Lost(e)'
      /\ Lost(e) => Lost(e)'
      /\ failure[p] # "none" => failure'[p] # "none"
  BY AnswersArrive, LossStays
<1>2. /\ ~Asked(e, id) /\ ~(r.closes > 0) /\ ~(r.updates > 0) /\ r.kind # "none"
      /\ r.resp = "ok" => l.answer = "ok"
      /\ r.resp = "error" => l.answer = "error" \/ (l.kind = "none" /\ r.kind = "subscribe")
      /\ l.ctx # "unsubscribed"
      /\ r.kind = "fetch" /\ l.kind = "none" => failure[p] # "none"
      /\ l.kind = "none" => l.answer = "none"
  BY DEF PairInv, Underway, Unanswered, LinkInv, KindsAgree, Learned, Ended, Ending, Ordered
<1>3. lt'[p][id] = l /\ (id \in lpending'[p] <=> id \in lpending[p])
      /\ (id \in lopen'[p] <=> id \in lopen[p])
  BY DEF PublisherStill
<1>4. /\ rt'[e][id].call = call /\ rt'[e][id].kind = r.kind /\ rt'[e][id].resp = "empty"
      /\ rt'[e][id].badNamespace <=> r.badNamespace
      /\ rt'[e][id].done <=> r.done
      /\ rt'[e][id].closes = r.closes /\ rt'[e][id].updates = r.updates
  BY DEF RemoteIs
<1> HIDE DEF p, r, l
<1>5. KindsAgree(e, id)'
  BY <1>2, <1>3, <1>4 DEF LinkInv, KindsAgree, p, r, l
<1>6. Learned(e, id)'
  BY <1>1, <1>2, <1>3, <1>4 DEF LinkInv, Learned, Remote, p, r, l
<1>7. Published(e, id)'
  BY StillPublished
<1>8. Told(e, id)'
  BY <1>1, <1>3, <1>4 DEF LinkInv, Told, p, r, l
<1>9. Ended(e, id)'
  BY <1>2, <1>3, <1>4 DEF LinkInv, Ended, p, r, l
<1>10. Ordered(e, id)'
  BY <1>1, <1>2, <1>3, <1>4 DEF Ordered, p
<1>11. PairOnward(e, id)
  BY <1>3, <1>4 DEF PairOnward, Local, p, r, l
<1> QED  BY <1>5, <1>6, <1>7, <1>8, <1>9, <1>10, <1>11 DEF LinkInv

\* The call is given up.
LEMMA GiveUpLink ==
    ASSUME NEW e \in Endpoints, NEW id \in Ids, PairInv(e, id), LinkInv(e, id),
           NEW call \in {"aborting", "cancelled"}, rt[e][id].call \in {"waiting", "aborting"},
           RemoteIs(rt[e][id], rt'[e][id], call, rt[e][id].resp, rt[e][id].done,
                    rt[e][id].closes, rt[e][id].updates),
           rt[e][id].closes \in Nat, rt[e][id].updates \in Nat,
           id \in ropen'[e] <=> id \in ropen[e],
           call = "aborting" => (id \in rpending'[e] <=> id \in rpending[e]),
           PublisherStill(e, id), AnswersStill(e, id), EndOnward(e), EndOnward(Peer(e)),
           Asked(e, id) => Asked(e, id)' \/ failure'[Peer(e)] # "none",
           CloseSent(e, id) => CloseSent(e, id)' \/ failure'[Peer(e)] # "none",
           call = "cancelled" /\ rt[e][id].kind = "fetch" => CloseSent(e, id)' \/ conn' = "down",
           Follows(ctrl[Peer(e)], id) /\ Asked(e, id) =>
             Follows(ctrl'[Peer(e)], id) \/ failure'[Peer(e)] # "none"
    PROVE  LinkInv(e, id)' /\ PairOnward(e, id)
<1> DEFINE p == Peer(e)
           r == rt[e][id]
           l == lt[p][id]
<1>1. /\ ErrorSent(e, id)' => ErrorSent(e, id)
      /\ DoneSent(e, id) => DoneSent(e, id)' \/ Lost(e)'
      /\ OkSent(e, id) => OkSent(e, id)' \/ Lost(e)'
      /\ (Lost(e) => Lost(e)') /\ (Lost(p) => Lost(p)')
      /\ failure[p] # "none" => failure'[p] # "none"
      /\ failure'[p] # "none" \/ conn' = "down" => Lost(p)'
  BY AnswersArrive, LossStays DEF Lost
<1>2. /\ ~(r.closes > 0) /\ ~(r.updates > 0) /\ r.kind # "none"
      /\ r.kind = "fetch" /\ l.kind = "none" =>
           failure'[p] # "none" \/ (Asked(e, id)' /\ Follows(ctrl'[p], id))
  BY LossStays DEF LinkInv, KindsAgree, Ordered
<1>3. lt'[p][id] = l /\ (id \in lpending'[p] <=> id \in lpending[p])
      /\ (id \in lopen'[p] <=> id \in lopen[p])
  BY DEF PublisherStill
<1>4. /\ rt'[e][id].call = call /\ rt'[e][id].kind = r.kind /\ rt'[e][id].resp = r.resp
      /\ rt'[e][id].badNamespace <=> r.badNamespace
      /\ rt'[e][id].done <=> r.done
      /\ rt'[e][id].closes = r.closes /\ rt'[e][id].updates = r.updates
  BY DEF RemoteIs
<1> HIDE DEF p, r, l
<1>5. KindsAgree(e, id)'
  BY <1>2, <1>3, <1>4 DEF LinkInv, KindsAgree, p, r, l
<1>6. Learned(e, id)'
  BY <1>1, <1>2, <1>3, <1>4 DEF LinkInv, Learned, Remote, p, r, l
<1>7. Published(e, id)'
  BY StillPublished
<1>8. Told(e, id)'
  BY <1>1, <1>3, <1>4 DEF LinkInv, Told, p, r, l
<1>9. Ended(e, id)'
  BY <1>1, <1>2, <1>3, <1>4 DEF LinkInv, Ended, Ending, p, r, l
<1>10. Ordered(e, id)'
  BY <1>2, <1>3, <1>4 DEF Ordered, p
<1>11. PairOnward(e, id)
  BY <1>3, <1>4 DEF PairOnward, Local, p, r, l
<1> QED  BY <1>5, <1>6, <1>7, <1>8, <1>9, <1>10, <1>11 DEF LinkInv

\* Close and UpdateSubscription on a track that the call returned.
LEMMA TrackCallLink ==
    ASSUME NEW e \in Endpoints, NEW id \in Ids, PairInv(e, id), LinkInv(e, id),
           NEW closes \in Nat, NEW updates \in Nat, rt[e][id].call = "ok",
           closes >= rt[e][id].closes, updates >= rt[e][id].updates,
           RemoteIs(rt[e][id], rt'[e][id], "ok", rt[e][id].resp, rt[e][id].done,
                    closes, updates),
           rt[e][id].closes \in Nat, rt[e][id].updates \in Nat,
           id \in ropen'[e] <=> id \in ropen[e], id \in rpending'[e] <=> id \in rpending[e],
           PublisherStill(e, id), AnswersStill(e, id), EndOnward(e), EndOnward(Peer(e)),
           CloseSent(e, id) => CloseSent(e, id)' \/ failure'[Peer(e)] # "none",
           closes # rt[e][id].closes => CloseSent(e, id)' \/ conn' = "down"
    PROVE  LinkInv(e, id)' /\ PairOnward(e, id)
<1> DEFINE p == Peer(e)
           r == rt[e][id]
           l == lt[p][id]
<1>1. /\ ErrorSent(e, id)' => ErrorSent(e, id)
      /\ DoneSent(e, id) => DoneSent(e, id)' \/ Lost(e)'
      /\ OkSent(e, id) => OkSent(e, id)' \/ Lost(e)'
      /\ (Lost(e) => Lost(e)') /\ (Lost(p) => Lost(p)')
      /\ failure'[p] # "none" \/ conn' = "down" => Lost(p)'
  BY AnswersArrive, LossStays DEF Lost
<1>2. l.answer = "ok" /\ l.kind # "none"
  BY DEF PairInv, LinkInv, Learned
<1>3. lt'[p][id] = l /\ (id \in lpending'[p] <=> id \in lpending[p])
      /\ (id \in lopen'[p] <=> id \in lopen[p])
  BY DEF PublisherStill
<1>4. /\ rt'[e][id].call = "ok" /\ rt'[e][id].kind = r.kind /\ rt'[e][id].resp = r.resp
      /\ rt'[e][id].badNamespace <=> r.badNamespace
      /\ rt'[e][id].done <=> r.done
      /\ rt'[e][id].closes = closes /\ rt'[e][id].updates = updates
  BY DEF RemoteIs
<1> HIDE DEF p, r, l
<1>5. KindsAgree(e, id)'
  BY <1>3, <1>4 DEF LinkInv, KindsAgree, p, r, l
<1>6. Learned(e, id)'
  BY <1>1, <1>2, <1>3, <1>4 DEF LinkInv, Learned, Remote, p, r, l
<1>7. Published(e, id)'
  BY StillPublished
<1>8. Told(e, id)'
  BY <1>1, <1>3, <1>4 DEF LinkInv, Told, p, r, l
<1>9. Ended(e, id)'
  BY <1>1, <1>3, <1>4 DEF LinkInv, Ended, Ending, p, r, l
<1>10. Ordered(e, id)'
  BY <1>2, <1>3 DEF Ordered, p
<1>11. PairOnward(e, id)
  BY <1>3, <1>4 DEF PairOnward, Local, p, r, l
<1> QED  BY <1>5, <1>6, <1>7, <1>8, <1>9, <1>10, <1>11 DEF LinkInv

-----------------------------------------------------------------------------
(***************************************************************************)
(* The answers, and the end of the track, reach the caller.                *)
(***************************************************************************)

\* The OK opens the track.  If its alias is taken the call is not told.
LEMMA HearOkLink ==
    ASSUME NEW e \in Endpoints, NEW id \in Ids, PairInv(e, id), LinkInv(e, id),
           NEW resp, OkSent(e, id), resp = "ok" \/ Lost(e)',
           RemoteIs(rt[e][id], rt'[e][id], rt[e][id].call, resp, rt[e][id].done,
                    rt[e][id].closes, rt[e][id].updates),
           resp \in {"ok", rt[e][id].resp},
           rt[e][id].closes \in Nat, rt[e][id].updates \in Nat, id \in ropen'[e],
           PublisherStill(e, id), RequestsStill(e, id), EndOnward(e), EndOnward(Peer(e)),
           ErrorSent(e, id)' => ErrorSent(e, id),
           DoneSent(e, id) => DoneSent(e, id)' \/ Lost(e)'
    PROVE  LinkInv(e, id)' /\ PairOnward(e, id)
<1> DEFINE p == Peer(e)
           r == rt[e][id]
           l == lt[p][id]
<1>1. /\ ErrorSent(e, id)' => ErrorSent(e, id)
      /\ DoneSent(e, id) => DoneSent(e, id)' \/ Lost(e)'
      /\ Asked(e, id) => Asked(e, id)' \/ failure'[p] # "none"
      /\ CloseSent(e, id) => CloseSent(e, id)' \/ failure'[p] # "none"
      /\ Follows(ctrl[p], id) => Follows(ctrl'[p], id) \/ failure'[p] # "none"
      /\ (Lost(e) => Lost(e)') /\ (Lost(p) => Lost(p)')
      /\ failure[p] # "none" => failure'[p] # "none"
      /\ failure'[p] # "none" => Lost(p)'
  BY RequestsArrive, LossStays
<1>2. /\ l.answer = "ok" /\ l.kind # "none" /\ ~ErrorSent(e, id)
      /\ r.resp = "empty" /\ r.call \in {"waiting", "aborting", "cancelled"}
  BY DEF PairInv, Underway, Unanswered, Live
<1>3. lt'[p][id] = l /\ (id \in lpending'[p] <=> id \in lpending[p])
      /\ (id \in lopen'[p] <=> id \in lopen[p])
  BY DEF PublisherStill
<1>4. /\ rt'[e][id].call = r.call /\ rt'[e][id].kind = r.kind /\ rt'[e][id].resp = resp
      /\ rt'[e][id].badNamespace <=> r.badNamespace
      /\ rt'[e][id].done <=> r.done
      /\ rt'[e][id].closes = r.closes /\ rt'[e][id].updates = r.updates
  BY DEF RemoteIs
<1> HIDE DEF p, r, l
<1>5. KindsAgree(e, id)'
  BY <1>2, <1>3, <1>4 DEF LinkInv, KindsAgree, p, r, l
<1>6. Learned(e, id)'
  BY <1>1, <1>2, <1>3, <1>4 DEF LinkInv, Learned, Remote, p, r, l
<1>7. Published(e, id)'
  BY StillPublished
<1>8. Told(e, id)'
  BY <1>1, <1>2, <1>3, <1>4 DEF LinkInv, Told, p, r, l
<1>9. Ended(e, id)'
  BY <1>1, <1>2, <1>3, <1>4 DEF LinkInv, Ended, Ending, p, r, l
<1>10. Ordered(e, id)'
  BY <1>1, <1>2, <1>3, <1>4 DEF LinkInv, Ordered, p, r, l
<1>11. PairOnward(e, id)
  BY <1>3, <1>4 DEF PairOnward, Local, p, r, l
<1> QED  BY <1>5, <1>6, <1>7, <1>8, <1>9, <1>10, <1>11 DEF LinkInv

\* The error takes the request out of pending.
LEMMA HearErrorLink ==
    ASSUME NEW e \in Endpoints, NEW id \in Ids, PairInv(e, id), LinkInv(e, id),
           ErrorSent(e, id),
           RemoteIs(rt[e][id], rt'[e][id], rt[e][id].call, "error", rt[e][id].done,
                    rt[e][id].closes, rt[e][id].updates),
           rt[e][id].closes \in Nat, rt[e][id].updates \in Nat,
           id \in ropen'[e] <=> id \in ropen[e],
           PublisherStill(e, id), RequestsStill(e, id), EndOnward(e), EndOnward(Peer(e)),
           DoneSent(e, id) => DoneSent(e, id)' \/ Lost(e)'
    PROVE  LinkInv(e, id)' /\ PairOnward(e, id)
<1> DEFINE p == Peer(e)
           r == rt[e][id]
           l == lt[p][id]
<1>1. /\ DoneSent(e, id) => DoneSent(e, id)' \/ Lost(e)'
      /\ Asked(e, id) => Asked(e, id)' \/ failure'[p] # "none"
      /\ CloseSent(e, id) => CloseSent(e, id)' \/ failure'[p] # "none"
      /\ Follows(ctrl[p], id) => Follows(ctrl'[p], id) \/ failure'[p] # "none"
      /\ (Lost(e) => Lost(e)') /\ (Lost(p) => Lost(p)')
      /\ failure[p] # "none" => failure'[p] # "none"
      /\ failure'[p] # "none" => Lost(p)'
  BY RequestsArrive, LossStays
<1>2. /\ l.answer \in {"none", "error"} /\ id \notin ropen[e]
      /\ l.answer = "error" \/ (l.kind = "none" /\ r.kind = "subscribe")
      /\ r.call \in {"waiting", "aborting", "cancelled"}
  BY DEF PairInv, Underway, Unanswered, Live, LinkInv, Learned
<1>3. lt'[p][id] = l /\ (id \in lpending'[p] <=> id \in lpending[p])
      /\ (id \in lopen'[p] <=> id \in lopen[p])
  BY DEF PublisherStill
<1>4. /\ rt'[e][id].call = r.call /\ rt'[e][id].kind = r.kind /\ rt'[e][id].resp = "error"
      /\ rt'[e][id].badNamespace <=> r.badNamespace
      /\ rt'[e][id].done <=> r.done
      /\ rt'[e][id].closes = r.closes /\ rt'[e][id].updates = r.updates
  BY DEF RemoteIs
<1> HIDE DEF p, r, l
<1>5. KindsAgree(e, id)'
  BY <1>2, <1>3, <1>4 DEF LinkInv, KindsAgree, p, r, l
<1>6. Learned(e, id)'
  BY <1>1, <1>2, <1>3, <1>4 DEF LinkInv, Learned, Remote, p, r, l
<1>7. Published(e, id)'
  BY StillPublished
<1>8. Told(e, id)'
  BY <1>1, <1>2, <1>3, <1>4 DEF LinkInv, Told, p, r, l
<1>9. Ended(e, id)'
  BY <1>1, <1>2, <1>3, <1>4 DEF LinkInv, Ended, Ending, p, r, l
<1>10. Ordered(e, id)'
  BY <1>1, <1>2, <1>3, <1>4 DEF LinkInv, Ordered, p, r, l
<1>11. PairOnward(e, id)
  BY <1>3, <1>4 DEF PairOnward, Local, p, r, l
<1> QED  BY <1>5, <1>6, <1>7, <1>8, <1>9, <1>10, <1>11 DEF LinkInv

\* SUBSCRIBE_DONE ends the track.
LEMMA HearDoneLink ==
    ASSUME NEW e \in Endpoints, NEW id \in Ids, PairInv(e, id), LinkInv(e, id),
           RemoteIs(rt[e][id], rt'[e][id], rt[e][id].call, rt[e][id].resp, TRUE,
                    rt[e][id].closes, rt[e][id].updates),
           rt[e][id].closes \in Nat, rt[e][id].updates \in Nat,
           id \in ropen'[e] <=> id \in ropen[e], id \in rpending'[e] <=> id \in rpending[e],
           PublisherStill(e, id), RequestsStill(e, id), EndOnward(e), EndOnward(Peer(e)),
           lt[Peer(e)][id].kind # "none", lt[Peer(e)][id].ctx # "live",
           ErrorSent(e, id)' <=> ErrorSent(e, id), OkSent(e, id)' <=> OkSent(e, id)
    PROVE  LinkInv(e, id)' /\ PairOnward(e, id)
<1> DEFINE p == Peer(e)
           r == rt[e][id]
           l == lt[p][id]
<1>1. /\ (ErrorSent(e, id)' <=> ErrorSent(e, id)) /\ (OkSent(e, id)' <=> OkSent(e, id))
      /\ Asked(e, id) => Asked(e, id)' \/ failure'[p] # "none"
      /\ CloseSent(e, id) => CloseSent(e, id)' \/ failure'[p] # "none"
      /\ Follows(ctrl[p], id) => Follows(ctrl'[p], id) \/ failure'[p] # "none"
      /\ (Lost(e) => Lost(e)') /\ (Lost(p) => Lost(p)')
      /\ failure[p] # "none" => failure'[p] # "none"
      /\ failure'[p] # "none" => Lost(p)'
  BY RequestsArrive, LossStays
<1>2. l.kind # "none" /\ l.ctx # "live" /\ r.call # "none"
  BY DEF PairInv
<1>3. lt'[p][id] = l /\ (id \in lpending'[p] <=> id \in lpending[p])
      /\ (id \in lopen'[p] <=> id \in lopen[p])
  BY DEF PublisherStill
<1>4. /\ rt'[e][id].call = r.call /\ rt'[e][id].kind = r.kind /\ rt'[e][id].resp = r.resp
      /\ rt'[e][id].badNamespace <=> r.badNamespace
      /\ rt'[e][id].done <=> TRUE
      /\ rt'[e][id].closes = r.closes /\ rt'[e][id].updates = r.updates
  BY DEF RemoteIs
<1> HIDE DEF p, r, l
<1>5. KindsAgree(e, id)'
  BY <1>2, <1>3, <1>4 DEF LinkInv, KindsAgree, p, r, l
<1>6. Learned(e, id)'
  BY <1>1, <1>2, <1>3, <1>4 DEF LinkInv, Learned, Remote, p, r, l
<1>7. Published(e, id)'
  BY StillPublished
<1>8. Told(e, id)'
  BY <1>1, <1>2, <1>3, <1>4 DEF LinkInv, Told, p, r, l
<1>9. Ended(e, id)'
  BY <1>1, <1>2, <1>3, <1>4 DEF LinkInv, Ended, Ending, p, r, l
<1>10. Ordered(e, id)'
  BY <1>1, <1>2, <1>3, <1>4 DEF LinkInv, Ordered, p, r, l
<1>11. PairOnward(e, id)
  BY <1>3, <1>4 DEF PairOnward, Local, p, r, l
<1> QED  BY <1>5, <1>6, <1>7, <1>8, <1>9, <1>10, <1>11 DEF LinkInv

-----------------------------------------------------------------------------
(***************************************************************************)
(* The steps of the publisher, for the pair they are about.                *)
(***************************************************************************)

\* The request is filed.
LEMMA AdmitLink ==
    ASSUME NEW e \in Endpoints, NEW id \in Ids, PairInv(e, id), LinkInv(e, id),
           Asked(e, id), lt'[Peer(e)][id].kind = rt[e][id].kind, lt'[Peer(e)][id].ctx = "live",
           ~lt'[Peer(e)][id].handled, lt'[Peer(e)][id].answer = "none",
           id \in lopen'[Peer(e)] <=> id \in lopen[Peer(e)], id \in lpending'[Peer(e)],
           handling'[Peer(e)] = id,
           rt[e][id].closes \in Nat, rt[e][id].updates \in Nat,
           CallerStill(e, id), EndOnward(e), EndOnward(Peer(e)),
           AnswersStill(e, id),
           CloseSent(e, id) => CloseSent(e, id)' \/ failure'[Peer(e)] # "none"
    PROVE  LinkInv(e, id)' /\ PairOnward(e, id)
<1> DEFINE p == Peer(e)
           r == rt[e][id]
           l == lt[p][id]
<1>1. /\ OkSent(e, id) => OkSent(e, id)' \/ Lost(e)'
      /\ DoneSent(e, id) => DoneSent(e, id)' \/ Lost(e)'
      /\ ErrorSent(e, id)' => ErrorSent(e, id)
      /\ ErrorSent(e, id) => ErrorSent(e, id)' \/ Lost(e)'
      /\ CloseSent(e, id) => CloseSent(e, id)' \/ failure'[p] # "none"
      /\ (Lost(e) => Lost(e)') /\ (Lost(p) => Lost(p)')
      /\ failure[p] # "none" => failure'[p] # "none"
      /\ failure'[p] # "none" => Lost(p)'
  BY AnswersArrive, LossStays
<1>2. /\ l.kind = "none" /\ l.answer = "none" /\ l.ctx = "live" /\ id \notin lopen[p]
      /\ ~ErrorSent(e, id) /\ r.resp = "empty" /\ id \notin ropen[e] /\ ~r.done
      /\ r.call \in {"waiting", "aborting", "cancelled"} /\ r.kind # "none"
      /\ id \in Remote(e) \/ r.call = "cancelled"
  BY DEF PairInv, Underway, Unanswered, Live, LinkInv, KindsAgree, Learned, Ended, Local, Remote
<1>3. /\ rt'[e][id] = r /\ (id \in Remote(e)' <=> id \in Remote(e))
      /\ id \in ropen'[e] <=> id \in ropen[e]
  BY DEF CallerStill, Remote
<1>4. /\ lt'[p][id].kind = r.kind /\ lt'[p][id].ctx = "live"
      /\ ~lt'[p][id].handled /\ lt'[p][id].answer = "none"
      /\ id \in lopen'[p] <=> id \in lopen[p]
      /\ handling'[p] = id /\ id \in lpending'[p]
  OBVIOUS
<1> HIDE DEF p, r, l
<1>5. KindsAgree(e, id)'
  BY <1>1, <1>2, <1>3, <1>4 DEF LinkInv, KindsAgree, p, r, l
<1>6. Learned(e, id)'
  BY <1>1, <1>2, <1>3, <1>4 DEF Learned, p
<1>7. Published(e, id)'
  BY <1>1, <1>2, <1>3, <1>4 DEF LinkInv, Published, p, r, l
<1>8. Told(e, id)'
  BY <1>1, <1>2, <1>3, <1>4 DEF LinkInv, Told, p, r, l
<1>9. Ended(e, id)'
  BY <1>1, <1>2, <1>3, <1>4 DEF LinkInv, Ended, Ending, p, r, l
<1>10. Ordered(e, id)'
  BY <1>1, <1>2, <1>3, <1>4 DEF LinkInv, Ordered, p, r, l
<1>11. PairOnward(e, id)
  BY <1>1, <1>2, <1>3, <1>4 DEF PairOnward, Local, p, r, l
<1> QED  BY <1>5, <1>6, <1>7, <1>8, <1>9, <1>10, <1>11 DEF LinkInv

\* The request is refused by addLocalTrack.
LEMMA RefuseLink ==
    ASSUME NEW e \in Endpoints, NEW id \in Ids, PairInv(e, id), LinkInv(e, id),
           Asked(e, id), rt[e][id].kind = "subscribe", PublisherStill(e, id),
           ErrorSent(e, id)' \/ Lost(e)',
           rt[e][id].closes \in Nat, rt[e][id].updates \in Nat,
           CallerStill(e, id), EndOnward(e), EndOnward(Peer(e)),
           OkSent(e, id) => OkSent(e, id)' \/ Lost(e)',
           DoneSent(e, id) => DoneSent(e, id)' \/ Lost(e)'
    PROVE  LinkInv(e, id)' /\ PairOnward(e, id)
<1> DEFINE p == Peer(e)
           r == rt[e][id]
           l == lt[p][id]
<1>1. /\ OkSent(e, id) => OkSent(e, id)' \/ Lost(e)'
      /\ DoneSent(e, id) => DoneSent(e, id)' \/ Lost(e)'
      /\ ErrorSent(e, id)' \/ Lost(e)'
      /\ (Lost(e) => Lost(e)') /\ (Lost(p) => Lost(p)')
      /\ failure[p] # "none" => failure'[p] # "none"
      /\ failure'[p] # "none" => Lost(p)'
  BY LossStays
<1>2. /\ l.kind = "none" /\ l.answer = "none" /\ id \notin ropen[e] /\ r.resp = "empty"
      /\ r.call \in {"waiting", "aborting", "cancelled"} /\ r.kind = "subscribe"
      /\ ~(r.closes > 0)
  BY DEF PairInv, Underway, Unanswered, Live, LinkInv, Learned, KindsAgree
<1>3. /\ rt'[e][id] = r /\ (id \in Remote(e)' <=> id \in Remote(e))
      /\ id \in ropen'[e] <=> id \in ropen[e]
  BY DEF CallerStill, Remote
<1>4. /\ lt'[p][id] = l /\ (id \in lpending'[p] <=> id \in lpending[p])
      /\ (id \in lopen'[p] <=> id \in lopen[p])
      /\ (handling'[p] = id <=> handling[p] = id)
  BY DEF PublisherStill
<1> HIDE DEF p, r, l
<1>5. KindsAgree(e, id)'
  BY <1>1, <1>2, <1>3, <1>4 DEF LinkInv, KindsAgree, p, r, l
<1>6. Learned(e, id)'
  BY <1>1, <1>2, <1>3, <1>4 DEF LinkInv, Learned, p, r, l
<1>7. Published(e, id)'
  BY <1>1, <1>2, <1>3, <1>4 DEF LinkInv, Published, p, r, l
<1>8. Told(e, id)'
  BY <1>1, <1>2, <1>3, <1>4 DEF LinkInv, Told, p, r, l
<1>9. Ended(e, id)'
  BY <1>1, <1>2, <1>3, <1>4 DEF LinkInv, Ended, Ending, p, r, l
<1>10. Ordered(e, id)'
  BY <1>1, <1>2, <1>3, <1>4 DEF LinkInv, Ordered, p, r, l
<1>11. PairOnward(e, id)
  BY <1>1, <1>2, <1>3, <1>4 DEF PairOnward, Local, p, r, l
<1> QED  BY <1>5, <1>6, <1>7, <1>8, <1>9, <1>10, <1>11 DEF LinkInv

\* The track ends: UNSUBSCRIBE, FETCH_CANCEL and CloseWithError.
LEMMA CloseLink ==
    ASSUME NEW e \in Endpoints, NEW id \in Ids, PairInv(e, id), LinkInv(e, id),
           NEW cause \in {"unsubscribed", "done"},
           LocalIs(lt[Peer(e)][id], lt'[Peer(e)][id], Cancelled(lt[Peer(e)][id].ctx, cause),
                   lt[Peer(e)][id].handled, lt[Peer(e)][id].answer),
           id \in Local(Peer(e)), id \notin lpending'[Peer(e)],
           id \in lopen'[Peer(e)] => id \in lopen[Peer(e)],
           handling'[Peer(e)] = id <=> handling[Peer(e)] = id,
           cause = "unsubscribed" => Ending(e, id) /\ id \notin lpending[Peer(e)],
           cause = "done" => DoneSent(e, id)' \/ Lost(e)',
           rt[e][id].closes \in Nat, rt[e][id].updates \in Nat,
           CallerStill(e, id), EndOnward(e), EndOnward(Peer(e)),
           OkSent(e, id) => OkSent(e, id)' \/ Lost(e)',
           DoneSent(e, id) => DoneSent(e, id)' \/ Lost(e)',
           ErrorSent(e, id)' => ErrorSent(e, id),
           ErrorSent(e, id) => ErrorSent(e, id)' \/ Lost(e)'
    PROVE  LinkInv(e, id)' /\ PairOnward(e, id)
<1> DEFINE p == Peer(e)
           r == rt[e][id]
           l == lt[p][id]
<1>1. /\ OkSent(e, id) => OkSent(e, id)' \/ Lost(e)'
      /\ DoneSent(e, id) => DoneSent(e, id)' \/ Lost(e)'
      /\ ErrorSent(e, id)' => ErrorSent(e, id)
      /\ ErrorSent(e, id) => ErrorSent(e, id)' \/ Lost(e)'
      /\ (Lost(e) => Lost(e)') /\ (Lost(p) => Lost(p)')
      /\ failure[p] # "none" => failure'[p] # "none"
      /\ failure'[p] # "none" => Lost(p)'
  BY LossStays
<1>2. /\ l.kind # "none" /\ id \in lpending[p] \cup lopen[p] /\ id \notin lpending'[p]
      /\ id \in lopen'[p] => id \in lopen[p]
      /\ (handling'[p] = id <=> handling[p] = id)
      /\ cause = "unsubscribed" => Ending(e, id) /\ id \notin lpending[p]
      /\ cause = "done" => DoneSent(e, id)' \/ Lost(e)'
      /\ cause \in {"unsubscribed", "done"}
  BY DEF PairInv, Local
<1>3. /\ rt'[e][id] = r /\ (id \in Remote(e)' <=> id \in Remote(e))
      /\ id \in ropen'[e] <=> id \in ropen[e]
  BY DEF CallerStill, Remote
<1>4. /\ lt'[p][id].kind = l.kind /\ lt'[p][id].ctx = (IF l.ctx = "live" THEN cause ELSE l.ctx)
      /\ lt'[p][id].handled <=> l.handled
      /\ lt'[p][id].answer = l.answer
  BY DEF LocalIs, Cancelled
<1> HIDE DEF p, r, l
<1>5. KindsAgree(e, id)'
  BY <1>1, <1>2, <1>3, <1>4 DEF LinkInv, KindsAgree, p, r, l
<1>6. Learned(e, id)'
  BY <1>1, <1>2, <1>3, <1>4 DEF LinkInv, Learned, p, r, l
<1>7. Published(e, id)'
  BY <1>1, <1>2, <1>3, <1>4 DEF LinkInv, Published, p, r, l
<1>8. Told(e, id)'
  BY <1>1, <1>2, <1>3, <1>4 DEF LinkInv, Told, p, r, l
<1>9. Ended(e, id)'
  BY <1>1, <1>2, <1>3, <1>4 DEF LinkInv, Ended, Ending, p, r, l
<1>10. Ordered(e, id)'
  BY <1>1, <1>2, <1>3, <1>4 DEF LinkInv, Ordered, p, r, l
<1>11. PairOnward(e, id)
  BY <1>1, <1>2, <1>3, <1>4 DEF PairOnward, Local, p, r, l
<1> QED  BY <1>5, <1>6, <1>7, <1>8, <1>9, <1>10, <1>11 DEF LinkInv

\* A pending request is accepted or rejected.
LEMMA DecideLink ==
    ASSUME NEW e \in Endpoints, NEW id \in Ids, PairInv(e, id), LinkInv(e, id),
           NEW answer \in {"confirmed", "error"}, id \in lpending[Peer(e)],
           LocalIs(lt[Peer(e)][id], lt'[Peer(e)][id], lt[Peer(e)][id].ctx, TRUE, answer),
           id \notin lpending'[Peer(e)],
           answer = "confirmed" => id \in lopen'[Peer(e)],
           answer = "error" =>
             (id \in lopen'[Peer(e)] <=> id \in lopen[Peer(e)]) /\ (ErrorSent(e, id)' \/ Lost(e)'),
           answer = "confirmed" => (ErrorSent(e, id)' => ErrorSent(e, id)),
           rt[e][id].closes \in Nat, rt[e][id].updates \in Nat,
           CallerStill(e, id), EndOnward(e), EndOnward(Peer(e)),
           OkSent(e, id) => OkSent(e, id)' \/ Lost(e)',
           DoneSent(e, id) => DoneSent(e, id)' \/ Lost(e)',
           RequestsStill(e, id)
    PROVE  LinkInv(e, id)' /\ PairOnward(e, id)
<1> DEFINE p == Peer(e)
           r == rt[e][id]
           l == lt[p][id]
<1>1. /\ OkSent(e, id) => OkSent(e, id)' \/ Lost(e)'
      /\ DoneSent(e, id) => DoneSent(e, id)' \/ Lost(e)'
      /\ Asked(e, id) => Asked(e, id)' \/ failure'[p] # "none"
      /\ CloseSent(e, id) => CloseSent(e, id)' \/ failure'[p] # "none"
      /\ Follows(ctrl[p], id) => Follows(ctrl'[p], id) \/ failure'[p] # "none"
      /\ (Lost(e) => Lost(e)') /\ (Lost(p) => Lost(p)')
      /\ failure[p] # "none" => failure'[p] # "none"
      /\ failure'[p] # "none" => Lost(p)'
  BY RequestsArrive, LossStays
<1>2. /\ l.kind # "none" /\ id \in lpending[p] /\ l.answer = "none" /\ id \notin lopen[p]
      /\ ~ErrorSent(e, id) /\ r.call \in {"waiting", "aborting", "cancelled"}
      /\ r.resp = "empty" /\ id \notin ropen[e] /\ l.ctx = "live"
      /\ answer = "confirmed" => id \in lopen'[p] /\ ~ErrorSent(e, id)'
      /\ answer = "error" => id \notin lopen'[p] /\ (ErrorSent(e, id)' \/ Lost(e)')
      /\ id \notin lpending'[p] /\ answer \in {"confirmed", "error"}
  BY DEF PairInv, Underway, Unanswered, Live, LinkInv, Published, Learned
<1>3. /\ rt'[e][id] = r /\ (id \in Remote(e)' <=> id \in Remote(e))
      /\ id \in ropen'[e] <=> id \in ropen[e]
  BY DEF CallerStill, Remote
<1>4. /\ lt'[p][id].kind = l.kind /\ lt'[p][id].ctx = l.ctx
      /\ lt'[p][id].handled <=> TRUE
      /\ lt'[p][id].answer = answer
  BY DEF LocalIs
<1> HIDE DEF p, r, l
<1>5. KindsAgree(e, id)'
  BY <1>1, <1>2, <1>3, <1>4 DEF LinkInv, KindsAgree, p, r, l
<1>6. Learned(e, id)'
  BY <1>1, <1>2, <1>3, <1>4 DEF LinkInv, Learned, p, r, l
<1>7. Published(e, id)'
  BY <1>1, <1>2, <1>3, <1>4 DEF LinkInv, Published, p, r, l
<1>8. Told(e, id)'
  BY <1>1, <1>2, <1>3, <1>4 DEF LinkInv, Told, p, r, l
<1>9. Ended(e, id)'
  BY <1>1, <1>2, <1>3, <1>4 DEF LinkInv, Ended, Ending, p, r, l
<1>10. Ordered(e, id)'
  BY <1>1, <1>2, <1>3, <1>4 DEF LinkInv, Ordered, p, r, l
<1>11. PairOnward(e, id)
  BY <1>1, <1>2, <1>3, <1>4 DEF PairOnward, Local, p, r, l
<1> QED  BY <1>5, <1>6, <1>7, <1>8, <1>9, <1>10, <1>11 DEF LinkInv

\* The OK of an accepted request is written.
LEMMA AcceptedLink ==
    ASSUME NEW e \in Endpoints, NEW id \in Ids, PairInv(e, id), LinkInv(e, id),
           lt[Peer(e)][id].answer = "confirmed",
           LocalIs(lt[Peer(e)][id], lt'[Peer(e)][id], lt[Peer(e)][id].ctx,
                   lt[Peer(e)][id].handled, "ok"),
           id \in lpending'[Peer(e)] <=> id \in lpending[Peer(e)],
           id \in lopen'[Peer(e)] <=> id \in lopen[Peer(e)],
           handling'[Peer(e)] = id <=> handling[Peer(e)] = id,
           OkSent(e, id)' \/ Lost(e)',
           DoneSent(e, id) => DoneSent(e, id)' \/ Lost(e)',
           ErrorSent(e, id)' => ErrorSent(e, id),
           rt[e][id].closes \in Nat, rt[e][id].updates \in Nat,
           CallerStill(e, id), EndOnward(e), EndOnward(Peer(e)),
           RequestsStill(e, id)
    PROVE  LinkInv(e, id)' /\ PairOnward(e, id)
<1> DEFINE p == Peer(e)
           r == rt[e][id]
           l == lt[p][id]
<1>1. /\ OkSent(e, id)' \/ Lost(e)'
      /\ DoneSent(e, id) => DoneSent(e, id)' \/ Lost(e)'
      /\ Asked(e, id) => Asked(e, id)' \/ failure'[p] # "none"
      /\ CloseSent(e, id) => CloseSent(e, id)' \/ failure'[p] # "none"
      /\ Follows(ctrl[p], id) => Follows(ctrl'[p], id) \/ failure'[p] # "none"
      /\ (Lost(e) => Lost(e)') /\ (Lost(p) => Lost(p)')
      /\ failure[p] # "none" => failure'[p] # "none"
      /\ failure'[p] # "none" => Lost(p)'
  BY RequestsArrive, LossStays
<1>2. /\ l.kind # "none" /\ l.answer = "confirmed" /\ ~ErrorSent(e, id)'
      /\ r.call \in {"waiting", "aborting", "cancelled"} /\ r.resp = "empty"
      /\ id \notin ropen[e]
      /\ id \in lpending'[p] <=> id \in lpending[p]
      /\ id \in lopen'[p] <=> id \in lopen[p]
      /\ handling'[p] = id <=> handling[p] = id
  BY DEF PairInv, Underway, Unanswered, Live, LinkInv, Learned
<1>3. /\ rt'[e][id] = r /\ (id \in Remote(e)' <=> id \in Remote(e))
      /\ id \in ropen'[e] <=> id \in ropen[e]
  BY DEF CallerStill, Remote
<1>4. /\ lt'[p][id].kind = l.kind /\ lt'[p][id].ctx = l.ctx
      /\ lt'[p][id].handled <=> l.handled
      /\ lt'[p][id].answer = "ok"
  BY DEF LocalIs
<1> HIDE DEF p, r, l
<1>5. KindsAgree(e, id)'
  BY <1>1, <1>2, <1>3, <1>4 DEF LinkInv, KindsAgree, p, r, l
<1>6. Learned(e, id)'
  BY <1>1, <1>2, <1>3, <1>4 DEF LinkInv, Learned, p, r, l
<1>7. Published(e, id)'
  BY <1>1, <1>2, <1>3, <1>4 DEF LinkInv, Published, p, r, l
<1>8. Told(e, id)'
  BY <1>1, <1>2, <1>3, <1>4 DEF LinkInv, Told, p, r, l
<1>9. Ended(e, id)'
  BY <1>1, <1>2, <1>3, <1>4 DEF LinkInv, Ended, Ending, p, r, l
<1>10. Ordered(e, id)'
  BY <1>1, <1>2, <1>3, <1>4 DEF LinkInv, Ordered, p, r, l
<1>11. PairOnward(e, id)
  BY <1>1, <1>2, <1>3, <1>4 DEF PairOnward, Local, p, r, l
<1> QED  BY <1>5, <1>6, <1>7, <1>8, <1>9, <1>10, <1>11 DEF LinkInv

\* A request that is not pending is marked as handled, or its handler returns.
LEMMA HandledLink ==
    ASSUME NEW e \in Endpoints, NEW id \in Ids, PairInv(e, id), LinkInv(e, id),
           LocalIs(lt[Peer(e)][id], lt'[Peer(e)][id], lt[Peer(e)][id].ctx, TRUE,
                   lt[Peer(e)][id].answer),
           id \notin lpending[Peer(e)], id \notin lpending'[Peer(e)],
           id \in lopen'[Peer(e)] <=> id \in lopen[Peer(e)],
           handling'[Peer(e)] = id => handling[Peer(e)] = id,
           rt[e][id].closes \in Nat, rt[e][id].updates \in Nat,
           CallerStill(e, id), EndOnward(e), EndOnward(Peer(e)),
           FlightStill(e, id)
    PROVE  LinkInv(e, id)' /\ PairOnward(e, id)
<1> DEFINE p == Peer(e)
           r == rt[e][id]
           l == lt[p][id]
<1>1. /\ OkSent(e, id) => OkSent(e, id)' \/ Lost(e)'
      /\ DoneSent(e, id) => DoneSent(e, id)' \/ Lost(e)'
      /\ ErrorSent(e, id)' => ErrorSent(e, id)
      /\ ErrorSent(e, id) => ErrorSent(e, id)' \/ Lost(e)'
      /\ Asked(e, id) => Asked(e, id)' \/ failure'[p] # "none"
      /\ CloseSent(e, id) => CloseSent(e, id)' \/ failure'[p] # "none"
      /\ Follows(ctrl[p], id) => Follows(ctrl'[p], id) \/ failure'[p] # "none"
      /\ (Lost(e) => Lost(e)') /\ (Lost(p) => Lost(p)')
      /\ failure[p] # "none" => failure'[p] # "none"
      /\ failure'[p] # "none" => Lost(p)'
  BY AnswersArrive, RequestsArrive, LossStays DEF FlightStill
<1>2. /\ id \notin lpending[p] /\ id \notin lpending'[p]
      /\ id \in lopen'[p] <=> id \in lopen[p]
      /\ handling'[p] = id => handling[p] = id
  OBVIOUS
<1>3. /\ rt'[e][id] = r /\ (id \in Remote(e)' <=> id \in Remote(e))
      /\ id \in ropen'[e] <=> id \in ropen[e]
  BY DEF CallerStill, Remote
<1>4. /\ lt'[p][id].kind = l.kind /\ lt'[p][id].ctx = l.ctx
      /\ lt'[p][id].handled <=> TRUE
      /\ lt'[p][id].answer = l.answer
  BY DEF LocalIs
<1> HIDE DEF p, r, l
<1>5. KindsAgree(e, id)'
  BY <1>1, <1>2, <1>3, <1>4 DEF LinkInv, KindsAgree, p, r, l
<1>6. Learned(e, id)'
  BY <1>1, <1>2, <1>3, <1>4 DEF LinkInv, Learned, p, r, l
<1>7. Published(e, id)'
  BY <1>1, <1>2, <1>3, <1>4 DEF LinkInv, Published, p, r, l
<1>8. Told(e, id)'
  BY <1>1, <1>2, <1>3, <1>4 DEF LinkInv, Told, p, r, l
<1>9. Ended(e, id)'
  BY <1>1, <1>2, <1>3, <1>4 DEF LinkInv, Ended, Ending, p, r, l
<1>10. Ordered(e, id)'
  BY <1>1, <1>2, <1>3, <1>4 DEF LinkInv, Ordered, p, r, l
<1>11. PairOnward(e, id)
  BY <1>1, <1>2, <1>3, <1>4 DEF PairOnward, Local, p, r, l
<1> QED  BY <1>5, <1>6, <1>7, <1>8, <1>9, <1>10, <1>11 DEF LinkInv

-----------------------------------------------------------------------------
(***************************************************************************)
(* From the actions to the pairs.                                          *)
(***************************************************************************)

\* T is S but for id in T[x].
OthersIn(S, T, x, id) ==
    \A f \in Endpoints, i \in Ids : f # x \/ i # id => (i \in T[f] <=> i \in S[f])

\* Filing a request, and taking it out.
LEMMA SetMoves ==
    ASSUME NEW S \in [Endpoints -> SUBSET Ids], NEW x \in Endpoints, NEW id \in Ids
    PROVE  /\ OthersIn(S, S, x, id)
           /\ OthersIn(S, [S EXCEPT ![x] = @ \ {id}], x, id)
           /\ id \notin [S EXCEPT ![x] = @ \ {id}][x]
           /\ OthersIn(S, [S EXCEPT ![x] = @ \cup {id}], x, id)
           /\ id \in [S EXCEPT ![x] = @ \cup {id}][x]
           /\ [S EXCEPT ![x] = @] = S
<1>1. OthersIn(S, S, x, id)
  BY DEF OthersIn
<1>2. OthersIn(S, [S EXCEPT ![x] = @ \ {id}], x, id)
  BY DEF OthersIn
<1>3. OthersIn(S, [S EXCEPT ![x] = @ \cup {id}], x, id)
  BY DEF OthersIn
<1>4. id \notin [S EXCEPT ![x] = @ \ {id}][x] /\ id \in [S EXCEPT ![x] = @ \cup {id}][x]
  OBVIOUS
<1>5. [S EXCEPT ![x] = @] = S
  OBVIOUS
<1> QED  BY <1>1, <1>2, <1>3, <1>4, <1>5

\* The callers, and the publishers, that a step leaves alone.
LEMMA CallersStill ==
    ASSUME NEW e \in Endpoints, NEW id \in Ids, OtherTracks(rt, rt', e, id),
           OthersIn(rpending, rpending', e, id), OthersIn(ropen, ropen', e, id)
    PROVE  \A f \in Endpoints, i \in Ids : f # e \/ i # id => CallerStill(f, i)
BY DEF OtherTracks, OthersIn, CallerStill

\* The same for the tracks of the publishers.
LEMMA PublishersStill ==
    ASSUME NEW e \in Endpoints, NEW id \in Ids, OtherTracks(lt, lt', Peer(e), id),
           OthersIn(lpending, lpending', Peer(e), id), OthersIn(lopen, lopen', Peer(e), id),
           \A f \in Endpoints, i \in Ids :
             f # Peer(e) \/ i # id => (handling'[f] = i <=> handling[f] = i)
    PROVE  \A f \in Endpoints, i \in Ids : f # e \/ i # id => PublisherStill(f, i)
<1> SUFFICES ASSUME NEW f \in Endpoints, NEW i \in Ids, f # e \/ i # id
             PROVE  PublisherStill(f, i)
  OBVIOUS
<1> DEFINE p == Peer(f)
<1>1. p \in Endpoints /\ (p # Peer(e) \/ i # id)
  BY TwoEnds
<1> HIDE DEF p
<1> QED  BY <1>1 DEF OtherTracks, OthersIn, PublisherStill, p

\* A step that changes neither side, nor what is in flight.
LEMMA AllStill ==
    /\ UNCHANGED <<rt, rpending, ropen>> =>
         \A f \in Endpoints, i \in Ids : CallerStill(f, i)
    /\ UNCHANGED <<lt, lpending, lopen, handling>> =>
         \A f \in Endpoints, i \in Ids : PublisherStill(f, i)
    /\ UNCHANGED ctrl =>
         /\ \A f \in Endpoints, i \in Ids : AnswersStill(f, i) /\ RequestsStill(f, i)
         /\ \A f \in Endpoints : From(ctrl[f], ctrl'[f])
<1>1. UNCHANGED <<rt, rpending, ropen>> => \A f \in Endpoints, i \in Ids : CallerStill(f, i)
  BY DEF CallerStill
<1>2. UNCHANGED <<lt, lpending, lopen, handling>> =>
        \A f \in Endpoints, i \in Ids : PublisherStill(f, i)
  BY DEF PublisherStill
<1>3. UNCHANGED ctrl =>
        /\ \A f \in Endpoints, i \in Ids : AnswersStill(f, i) /\ RequestsStill(f, i)
        /\ \A f \in Endpoints : From(ctrl[f], ctrl'[f])
  BY DEF AnswersStill, AnswersPass, RequestsStill, RequestsPass, From
<1> QED  BY <1>1, <1>2, <1>3

\* No reader ends, nor does the connection.
LEMMA PlainEnds ==
    ASSUME AgreeInv, UNCHANGED <<failure, handling, setup, conn, aliases, localMax>>,
           \A f \in Endpoints : TruthWritten(f)
    PROVE  \A f \in Endpoints : EndFrame(f)
<1>1. ASSUME NEW f \in Endpoints
      PROVE  EndFrame(f)
  <2>1. HandlerEnd(f)
    BY DEF AgreeInv
  <2> QED  BY <2>1 DEF EndFrame, EndOnward, HandlerEnd, TruthWritten
<1> QED  BY <1>1

\* What the invariant says of a pair and of a message in flight.
LEMMA PairFacts ==
    ASSUME TypeOK, RequestInv, AgreeInv, NEW e \in Endpoints, NEW id \in Ids
    PROVE  /\ PairInv(e, id) /\ LinkInv(e, id)
           /\ rt[e][id].closes \in Nat /\ rt[e][id].updates \in Nat
           /\ rt \in RemoteTracks /\ lt \in LocalTracks
BY TrackTypes DEF RequestInv, AgreeInv, TypeOK, RemoteTracks, LocalTracks

\* A message that e writes to its peer.
LEMMA WriteFrame ==
    ASSUME TypeOK, AgreeInv, NEW e \in Endpoints, NEW m \in Message, Write(e, m),
           MsgInv(Peer(e), m)'
    PROVE  \A f \in Endpoints : TruthWritten(f)
<1>1. From(ctrl[e], ctrl'[e]) /\ FromOr(ctrl[Peer(e)], ctrl'[Peer(e)], m)
  BY WriteStill
<1>2. ASSUME NEW f \in Endpoints PROVE TruthWritten(f)
  BY <1>1, TwoEnds DEF TruthWritten
<1> QED  BY <1>2

\* What Write leaves in the channel to the peer.
LEMMA WriteHas ==
    ASSUME TypeOK, NEW e \in Endpoints, NEW m \in Message, Write(e, m)
    PROVE  LET q == ctrl[Peer(e)]
               a == ctrl'[Peer(e)] IN
           /\ \A T, id : Has(q, T, id) => Has(a, T, id)
           /\ \A T, id : Has(a, T, id) => Has(q, T, id) \/ (m.type \in T /\ m.id = id)
           /\ conn # "down" => \A T : m.type \in T => Has(a, T, m.id)
           /\ \A id : Follows(q, id) /\ (m.type \notin Followers \/ Has(q, Requests, id)) =>
                Follows(a, id)
<1> DEFINE q == ctrl[Peer(e)]
           a == ctrl'[Peer(e)]
<1>0. q \in Seq(Message) /\ (conn # "down" => conn = "up")
  BY PeerType DEF TypeOK
<1>1. a = Written(q, m)
  BY WriteStill
<1>2. a = q \/ a = Append(q, m)
  BY <1>1 DEF Written
<1>3. conn = "up" => a = Append(q, m)
  BY <1>1 DEF Written
<1> HIDE DEF q, a
<1>4. ASSUME NEW T, NEW id
      PROVE  /\ Has(q, T, id) => Has(a, T, id)
             /\ Has(a, T, id) => Has(q, T, id) \/ (m.type \in T /\ m.id = id)
  BY <1>0, <1>2, HasAppend
<1>5. ASSUME conn # "down", NEW T, m.type \in T
      PROVE  Has(a, T, m.id)
  BY <1>0, <1>3, <1>5, HasAppend
<1>6. ASSUME NEW id, Follows(q, id), m.type \notin Followers \/ Has(q, Requests, id)
      PROVE  Follows(a, id)
  BY <1>0, <1>2, <1>6, FollowsAppend
<1> QED  BY <1>4, <1>5, <1>6 DEF q, a

-----------------------------------------------------------------------------
(***************************************************************************)
(* The actions of the calls.                                               *)
(***************************************************************************)

\* Nothing is in flight about a request that is not made yet.
LEMMA NothingFollows ==
    ASSUME TypeOK, AgreeInv, NEW e \in Endpoints, NEW id \in Ids, rt[e][id].call = "none"
    PROVE  Follows(ctrl[Peer(e)], id)
<1> DEFINE p == Peer(e)
           q == ctrl[p]
<1>0. p \in Endpoints /\ Peer(p) = e
  BY TwoEnds
<1> SUFFICES ASSUME NEW j \in 1 .. Len(q), q[j].type \in Followers, q[j].id = id
             PROVE  FALSE
  BY DEF Follows
<1> DEFINE m == q[j]
<1>1. MsgInv(p, m)
  BY <1>0 DEF AgreeInv
<1>2. m.type \in Closes \/ m.type = "SUBSCRIBE_UPDATE"
  BY DEF Followers
<1>3. ~(rt[e][id].closes > 0) /\ ~(rt[e][id].updates > 0) /\ rt[e][id].kind = "none"
  BY DEF AgreeInv, LinkInv, KindsAgree
<1>4. m.id = id
  OBVIOUS
<1> HIDE DEF m, q, p
<1> QED  BY <1>0, <1>1, <1>2, <1>3, <1>4 DEF MsgInv, Ending

\* Subscribe and Fetch begin: the ID is new to both ends.
LEMMA BeginAgree ==
    ASSUME TypeOK, TypeOK', RequestInv, AgreeInv, NEW e \in Endpoints,
           NEW kind \in {"subscribe", "fetch"}, NEW bad \in BOOLEAN, BeginRequest(e, kind, bad)
    PROVE  AgreeInv'
<1> DEFINE s == [NoRemoteTrack EXCEPT !.kind = kind, !.badNamespace = bad, !.call = "begun"]
<1>0. PICK id : id = nextId[e]
  OBVIOUS
<1>1. id \in Ids
  BY <1>0, ControlAssumption DEF BeginRequest, DrawId, TypeOK, Ids
<1>2. rt[e][id].call = "none"
  <2>1. nextId[e] <= id
    BY <1>0, <1>1 DEF Ids
  <2> QED  BY <1>1, <2>1 DEF RequestInv
<1>3. PairInv(e, id) /\ LinkInv(e, id) /\ rt \in RemoteTracks
      /\ rt[e][id].closes \in Nat /\ rt[e][id].updates \in Nat
  BY <1>1, PairFacts
<1>4. id \notin Remote(e) /\ rt[e][id].closes = 0 /\ rt[e][id].updates = 0
  BY <1>2, <1>3 DEF PairInv, LinkInv, KindsAgree
<1>5. /\ rpending' = [rpending EXCEPT ![e] = @ \cup {id}]
      /\ rt' = [rt EXCEPT ![e][id] = s]
      /\ UNCHANGED <<failure, handling, setup, conn, aliases, localMax, ctrl>>
      /\ UNCHANGED <<lt, lpending, lopen, handling>>
      /\ UNCHANGED ropen
  BY <1>0, <1>4 DEF BeginRequest
<1> HIDE DEF s
<1>6. rt'[e][id] = s /\ OtherTracks(rt, rt', e, id)
  <2>1. /\ [rt EXCEPT ![e][id] = s][e][id] = s
        /\ OtherTracks(rt, [rt EXCEPT ![e][id] = s], e, id)
    BY <1>1, <1>3, OneReplaced
  <2>2. rt' = [rt EXCEPT ![e][id] = s]
    BY <1>5
  <2> QED  BY <2>1, <2>2, Zenon
<1>7. /\ s.kind = kind /\ s.call = "begun" /\ s.resp = "empty" /\ ~s.done
      /\ s.closes = 0 /\ s.updates = 0
  BY DEF NoRemoteTrack, s
<1>8. OthersIn(rpending, rpending', e, id) /\ OthersIn(ropen, ropen', e, id)
  <2>1. OthersIn(rpending, rpending', e, id)
    BY <1>1, <1>5, SetMoves DEF TypeOK
  <2> QED  BY <1>5, <2>1 DEF OthersIn
<1>9. /\ \A f \in Endpoints, i \in Ids : PublisherStill(f, i) /\ FlightStill(f, i)
      /\ \A f \in Endpoints : TruthWritten(f)
  BY <1>5, AllStill DEF FlightStill, TruthWritten
<1>10. \A f \in Endpoints : EndFrame(f)
  BY <1>5, <1>9, PlainEnds
<1>11. \A f \in Endpoints, i \in Ids : f # e \/ i # id => Idle(f, i)
  BY <1>1, <1>6, <1>8, <1>9, CallersStill DEF Idle
<1>12. LinkInv(e, id)' /\ PairOnward(e, id)
  <2>1. EndOnward(e) /\ EndOnward(Peer(e))
    BY <1>10, PeerType DEF EndFrame
  <2>2. Follows(ctrl[Peer(e)], id)
    BY <1>1, <1>2, NothingFollows
  <2>3. /\ rt'[e][id].kind # "none" /\ rt'[e][id].call = "begun" /\ rt'[e][id].resp = "empty"
        /\ ~rt'[e][id].done /\ rt'[e][id].closes = 0 /\ rt'[e][id].updates = 0
        /\ (id \in ropen'[e] <=> id \in ropen[e])
    BY <1>5, <1>6, <1>7
  <2> QED  BY <1>1, <1>2, <1>3, <1>4, <1>9, <2>1, <2>2, <2>3, BeginLink
<1> QED  BY <1>1, <1>10, <1>11, <1>12, OnePair

\* The request is written, or its write fails.
LEMMA WriteRequestAgree ==
    ASSUME TypeOK, TypeOK', RequestInv, AgreeInv, NEW e \in Endpoints, NEW id \in Ids,
           WriteRequest(e, id)
    PROVE  AgreeInv'
<1> DEFINE r == rt[e][id]
           p == Peer(e)
           call == IF WriteFails THEN "unsent" ELSE "waiting"
<1>1. /\ PairInv(e, id) /\ LinkInv(e, id) /\ rt \in RemoteTracks
      /\ r.closes \in Nat /\ r.updates \in Nat /\ p \in Endpoints /\ Peer(p) = e
  BY PairFacts, TwoEnds
<1>2. /\ r.call = "begun" /\ rt' = [rt EXCEPT ![e][id].call = call]
      /\ UNCHANGED <<failure, handling, setup, conn, aliases, localMax>>
      /\ UNCHANGED <<lt, lpending, lopen, handling>>
      /\ UNCHANGED ropen
  BY DEF WriteRequest
<1>3. PICK m : m = [type |-> RequestType(r.kind), id |-> id,
                    val |-> IF r.badNamespace THEN 1 ELSE 0]
  OBVIOUS
<1>4. /\ m \in Message /\ m.type \in Requests /\ m.id = id
      /\ m.type = RequestType(r.kind) /\ (m.val = 1 => r.badNamespace) /\ Write(e, m)
  BY <1>3 DEF Message, MessageTypes, RequestType, Requests, WriteRequest
<1>5. /\ m.type \notin ForCaller /\ m.type \notin Followers /\ m.type \notin Dones
      /\ m.type \notin Closes /\ m.type # "SUBSCRIBE_OK" /\ m.type # "SUBSCRIBE_UPDATE"
  BY <1>4 DEF Requests, ForCaller, Oks, Errors, Dones, Followers, Closes
<1>6. /\ OtherTracks(rt, rt', e, id)
      /\ RemoteIs(r, rt'[e][id], call, r.resp, r.done, r.closes, r.updates)
  <2> HIDE DEF call
  <2>1. RemoteMove(rt, [rt EXCEPT ![e][id].call = call], e, id,
                   call, r.resp, r.done, r.closes, r.updates)
    BY <1>1, RemoteMoves, Zenon
  <2>2. RemoteMove(rt, rt', e, id, call, r.resp, r.done, r.closes, r.updates)
    BY <1>2, <2>1, Zenon
  <2> QED  BY <2>2, Zenon DEF RemoteMove
<1>7. OthersIn(rpending, rpending', e, id) /\ OthersIn(ropen, ropen', e, id)
  <2>1. rpending' = [rpending EXCEPT ![e] = @ \ {id}] \/ rpending' = rpending
    BY DEF WriteRequest, TypeOK
  <2>2. OthersIn(rpending, rpending', e, id)
    <3>1. OthersIn(rpending, [rpending EXCEPT ![e] = @ \ {id}], e, id)
      BY SetMoves DEF TypeOK
    <3> QED  BY <2>1, <3>1 DEF OthersIn
  <2> QED  BY <1>2, <2>2 DEF OthersIn
<1>8. /\ \A f \in Endpoints, i \in Ids : PublisherStill(f, i) /\ AnswersStill(f, i)
      /\ \A f \in Endpoints, i \in Ids : f # e \/ i # id => RequestsStill(f, i)
  BY <1>2, <1>4, <1>5, AllStill, WriteStill
<1> HIDE DEF r, p, call
<1>9. MsgInv(p, m)'
  <2>1. rt'[e][id].call # "none" /\ rt'[e][id].kind = r.kind
        /\ (rt'[e][id].badNamespace <=> r.badNamespace)
    BY <1>6 DEF RemoteIs, call
  <2> QED  BY <1>1, <1>4, <1>5, <2>1 DEF MsgInv
<1>10. \A f \in Endpoints : EndFrame(f)
  BY <1>2, <1>4, <1>9, WriteFrame, PlainEnds DEF p
<1>11. \A f \in Endpoints, i \in Ids : f # e \/ i # id => Idle(f, i)
  BY <1>6, <1>7, <1>8, CallersStill DEF Idle, FlightStill
<1>12. LinkInv(e, id)' /\ PairOnward(e, id)
  <2>1. EndOnward(e) /\ EndOnward(p)
    BY <1>1, <1>10 DEF EndFrame
  <2>2. /\ call \in {"waiting", "unsent"}
        /\ call = "waiting" => Asked(e, id)'
        /\ Follows(ctrl[p], id) => Follows(ctrl'[p], id)
    BY <1>4, <1>5, WriteHas DEF call, WriteFails, Asked, p
  <2>3. id \in ropen'[e] <=> id \in ropen[e]
    BY <1>2
  <2> QED  BY <1>1, <1>2, <1>6, <1>8, <2>1, <2>2, <2>3, SendLink DEF r, p
<1> QED  BY <1>10, <1>11, <1>12, OnePair

\* A call of e for its request id moves on, and may write to the publisher about it.
CallerMoves(e, id) ==
    /\ OtherTracks(rt, rt', e, id) /\ OthersIn(rpending, rpending', e, id)
    /\ UNCHANGED <<ropen, failure, handling, setup, conn, aliases, localMax>>
    /\ UNCHANGED <<lt, lpending, lopen>>
    /\ \/ UNCHANGED ctrl
       \/ \E m \in Message :
            Write(e, m) /\ m.type \in ForPublisher /\ m.id = id /\ MsgInv(Peer(e), m)'

\* A step of a call that writes at most a message about its own request.
LEMMA CallerGround ==
    ASSUME TypeOK, AgreeInv, NEW e \in Endpoints, NEW id \in Ids, CallerMoves(e, id)
    PROVE  /\ PublisherStill(e, id) /\ AnswersStill(e, id)
           /\ EndOnward(e) /\ EndOnward(Peer(e))
           /\ \A f \in Endpoints, i \in Ids : f # e \/ i # id => Idle(f, i)
           /\ \A f \in Endpoints : EndFrame(f)
<1> USE DEF CallerMoves
<1>1. /\ \A f \in Endpoints, i \in Ids : PublisherStill(f, i)
      /\ \A f \in Endpoints, i \in Ids : f # e \/ i # id => CallerStill(f, i)
  <2>1. OthersIn(ropen, ropen', e, id)
    BY DEF OthersIn
  <2> QED  BY <2>1, AllStill, CallersStill
<1>2. /\ \A f \in Endpoints, i \in Ids : AnswersStill(f, i)
      /\ \A f \in Endpoints, i \in Ids : f # e \/ i # id => RequestsStill(f, i)
      /\ \A f \in Endpoints : TruthWritten(f)
  <2>1. CASE UNCHANGED ctrl
    BY <2>1, AllStill DEF TruthWritten
  <2>2. ASSUME NEW m \in Message, Write(e, m), m.type \in ForPublisher, m.id = id,
               MsgInv(Peer(e), m)'
        PROVE  <1>2!:
    <3>1. m.type \notin ForCaller
      BY <2>2, TrackedTypes
    <3> QED  BY <2>2, <3>1, WriteStill, WriteFrame
  <2> QED  BY <2>1, <2>2
<1>3. \A f \in Endpoints : EndFrame(f)
  BY <1>2, PlainEnds
<1>4. EndOnward(e) /\ EndOnward(Peer(e))
  BY <1>3, PeerType DEF EndFrame
<1> QED  BY <1>1, <1>2, <1>3, <1>4 DEF Idle, FlightStill

\* The call takes the response it has been given.
LEMMA ResolveAgree ==
    ASSUME TypeOK, TypeOK', RequestInv, AgreeInv, NEW e \in Endpoints, NEW id \in Ids,
           Resolve(e, id)
    PROVE  AgreeInv'
<1> DEFINE r == rt[e][id]
           p == Peer(e)
           refused == r.resp = "error"
<1>0. PICK call : call = IF refused THEN "refused" ELSE "ok"
  OBVIOUS
<1>1. /\ PairInv(e, id) /\ LinkInv(e, id) /\ rt \in RemoteTracks
      /\ r.closes \in Nat /\ r.updates \in Nat /\ p \in Endpoints /\ Peer(p) = e
      /\ r.resp \in {"empty", "ok", "error"}
  BY PairFacts, TwoEnds, TrackTypes
<1>2. /\ r.call = "waiting" /\ r.resp # "empty"
      /\ rt' = [rt EXCEPT ![e][id] = [@ EXCEPT !.call = call, !.resp = "empty"]]
      /\ UNCHANGED <<ropen, failure, handling, setup, conn, aliases, localMax>>
      /\ UNCHANGED <<lt, lpending, lopen>>
  BY <1>0 DEF Resolve
<1>3. /\ OtherTracks(rt, rt', e, id)
      /\ RemoteIs(r, rt'[e][id], call, "empty", r.done, r.closes, r.updates)
  BY <1>1, <1>2, RemoteMoves DEF RemoteMove
<1>4. rpending' = [rpending EXCEPT ![e] = @ \ {id}] \/ rpending' = rpending
  BY DEF Resolve, TypeOK
<1>5. OthersIn(rpending, rpending', e, id)
  <2>1. OthersIn(rpending, [rpending EXCEPT ![e] = @ \ {id}], e, id)
    BY SetMoves DEF TypeOK
  <2> QED  BY <1>4, <2>1 DEF OthersIn
<1>6. call = "ok" => (id \in rpending'[e] <=> id \in rpending[e])
  BY <1>0 DEF Resolve, TypeOK
<1>7. PICK m : m = Msg("FETCH_CANCEL", id)
  OBVIOUS
<1>8. m \in Message /\ m.type = "FETCH_CANCEL" /\ m.id = id
  BY <1>7, MsgType DEF MessageTypes, Msg
<1>9. UNCHANGED ctrl \/ (Write(e, m) /\ refused /\ r.kind = "fetch")
  BY <1>7 DEF Resolve, CancelsOnError
<1> HIDE DEF r, p, refused
<1>10. \/ UNCHANGED ctrl
       \/ Write(e, m) /\ m.type \in ForPublisher /\ m.id = id /\ MsgInv(p, m)'
  <2>1. CASE Write(e, m) /\ refused /\ r.kind = "fetch"
    <3>1. rt'[e][id].kind = "fetch" /\ rt'[e][id].call = "refused"
      BY <1>0, <1>3, <2>1 DEF RemoteIs
    <3>2. Ending(e, id)'
      BY <3>1 DEF Ending
    <3>3. MsgInv(p, m)'
      BY <1>1, <1>8, <3>1, <3>2 DEF MsgInv, Requests, Dones
    <3> QED  BY <1>8, <2>1, <3>3 DEF ForPublisher, Followers, Closes
  <2> QED  BY <1>9, <2>1
<1>11. /\ PublisherStill(e, id) /\ AnswersStill(e, id) /\ EndOnward(e) /\ EndOnward(p)
       /\ \A f \in Endpoints, i \in Ids : f # e \/ i # id => Idle(f, i)
       /\ \A f \in Endpoints : EndFrame(f)
  <2>1. CallerMoves(e, id)
    BY <1>2, <1>3, <1>5, <1>8, <1>10 DEF CallerMoves, p
  <2> QED  BY <2>1, CallerGround DEF p
<1>12. LinkInv(e, id)' /\ PairOnward(e, id)
  <2>1. id \in ropen'[e] <=> id \in ropen[e]
    BY <1>2
  <2> QED  BY <1>0, <1>1, <1>2, <1>3, <1>6, <1>11, <2>1, ResolveLink DEF r, p, refused
<1> QED  BY <1>11, <1>12, OnePair

\* The context of a waiting call is cancelled.
LEMMA CancelAgree ==
    ASSUME TypeOK, TypeOK', RequestInv, AgreeInv, NEW e \in Endpoints, NEW id \in Ids,
           Cancel(e, id)
    PROVE  AgreeInv'
<1> DEFINE r == rt[e][id]
           p == Peer(e)
<1>1. /\ PairInv(e, id) /\ LinkInv(e, id) /\ rt \in RemoteTracks
      /\ r.closes \in Nat /\ r.updates \in Nat /\ p \in Endpoints /\ Peer(p) = e
  BY PairFacts, TwoEnds
<1>2. /\ r.call = "waiting" /\ rt' = [rt EXCEPT ![e][id].call = "aborting"]
      /\ UNCHANGED <<ropen, failure, handling, setup, conn, aliases, localMax, ctrl>>
      /\ UNCHANGED <<lt, lpending, lopen>>
      /\ UNCHANGED rpending
  BY DEF Cancel, controlVars
<1>3. /\ OtherTracks(rt, rt', e, id)
      /\ RemoteIs(r, rt'[e][id], "aborting", r.resp, r.done, r.closes, r.updates)
  BY <1>1, <1>2, RemoteMoves DEF RemoteMove
<1>4. OthersIn(rpending, rpending', e, id)
  BY <1>2 DEF OthersIn
<1>10. /\ PublisherStill(e, id) /\ AnswersStill(e, id) /\ EndOnward(e) /\ EndOnward(p)
       /\ \A f \in Endpoints, i \in Ids : f # e \/ i # id => Idle(f, i)
       /\ \A f \in Endpoints : EndFrame(f)
  <2>1. CallerMoves(e, id)
    BY <1>2, <1>3, <1>4 DEF CallerMoves
  <2> QED  BY <2>1, CallerGround DEF p
<1>11. /\ Asked(e, id) => Asked(e, id)'
       /\ CloseSent(e, id) => CloseSent(e, id)'
       /\ Follows(ctrl[p], id) => Follows(ctrl'[p], id)
  BY <1>2 DEF Asked, CloseSent
<1>12. LinkInv(e, id)' /\ PairOnward(e, id)
  <2>1. /\ id \in ropen'[e] <=> id \in ropen[e]
        /\ id \in rpending'[e] <=> id \in rpending[e]
        /\ "aborting" \in {"aborting", "cancelled"} /\ "aborting" # "cancelled"
        /\ r.call \in {"waiting", "aborting"}
    BY <1>2
  <2> QED  BY <1>1, <1>3, <1>10, <1>11, <2>1, GiveUpLink
<1> QED  BY <1>10, <1>12, OnePair

\* The call that was cancelled forgets its track; a fetch is cancelled at the peer too.
LEMMA AbortAgree ==
    ASSUME TypeOK, TypeOK', RequestInv, AgreeInv, NEW e \in Endpoints, NEW id \in Ids,
           Abort(e, id)
    PROVE  AgreeInv'
<1> DEFINE r == rt[e][id]
           p == Peer(e)
<1>1. /\ PairInv(e, id) /\ LinkInv(e, id) /\ rt \in RemoteTracks
      /\ r.closes \in Nat /\ r.updates \in Nat /\ p \in Endpoints /\ Peer(p) = e
  BY PairFacts, TwoEnds
<1>2. /\ r.call = "aborting" /\ rt' = [rt EXCEPT ![e][id].call = "cancelled"]
      /\ UNCHANGED <<ropen, failure, handling, setup, conn, aliases, localMax>>
      /\ UNCHANGED <<lt, lpending, lopen>>
      /\ rpending' = [rpending EXCEPT ![e] = @ \ {id}]
  BY DEF Abort
<1>3. /\ OtherTracks(rt, rt', e, id)
      /\ RemoteIs(r, rt'[e][id], "cancelled", r.resp, r.done, r.closes, r.updates)
  BY <1>1, <1>2, RemoteMoves DEF RemoteMove
<1>4. OthersIn(rpending, rpending', e, id)
  BY <1>2, SetMoves DEF TypeOK
<1>5. PICK m : m = Msg("FETCH_CANCEL", id)
  OBVIOUS
<1>6. m \in Message /\ m.type = "FETCH_CANCEL" /\ m.id = id
  BY <1>5, MsgType DEF MessageTypes, Msg
<1>7. \/ UNCHANGED ctrl /\ r.kind # "fetch"
      \/ Write(e, m) /\ r.kind = "fetch"
  BY <1>5 DEF Abort, CancelsOnError
<1> HIDE DEF r, p
<1>8. \/ UNCHANGED ctrl
      \/ Write(e, m) /\ m.type \in ForPublisher /\ m.id = id /\ MsgInv(p, m)'
  <2>1. CASE Write(e, m) /\ r.kind = "fetch"
    <3>1. rt'[e][id].kind = "fetch" /\ rt'[e][id].call = "cancelled"
      BY <1>3, <2>1 DEF RemoteIs
    <3>2. Ending(e, id)'
      BY <3>1 DEF Ending
    <3>3. MsgInv(p, m)'
      BY <1>1, <1>6, <3>1, <3>2 DEF MsgInv, Requests, Dones
    <3> QED  BY <1>6, <2>1, <3>3 DEF ForPublisher, Followers, Closes
  <2> QED  BY <1>7, <2>1
<1>10. /\ PublisherStill(e, id) /\ AnswersStill(e, id) /\ EndOnward(e) /\ EndOnward(p)
       /\ \A f \in Endpoints, i \in Ids : f # e \/ i # id => Idle(f, i)
       /\ \A f \in Endpoints : EndFrame(f)
  <2>1. CallerMoves(e, id)
    BY <1>2, <1>3, <1>4, <1>6, <1>8 DEF CallerMoves, p
  <2> QED  BY <2>1, CallerGround DEF p
<1>11. /\ Asked(e, id) => Asked(e, id)'
       /\ CloseSent(e, id) => CloseSent(e, id)'
       /\ r.kind = "fetch" => CloseSent(e, id)' \/ conn' = "down"
       /\ Follows(ctrl[p], id) /\ Asked(e, id) => Follows(ctrl'[p], id)
  <2>1. CASE UNCHANGED ctrl /\ r.kind # "fetch"
    BY <2>1 DEF Asked, CloseSent
  <2>2. CASE Write(e, m) /\ r.kind = "fetch"
    <3>1. m.type \in Closes
      BY <1>6 DEF Closes
    <3>2. /\ Has(ctrl[p], Requests, id) => Has(ctrl'[p], Requests, id)
          /\ Has(ctrl[p], Closes, id) => Has(ctrl'[p], Closes, id)
          /\ conn # "down" => Has(ctrl'[p], Closes, id)
          /\ Follows(ctrl[p], id) /\ Has(ctrl[p], Requests, id) => Follows(ctrl'[p], id)
      BY <1>6, <2>2, <3>1, WriteHas DEF p
    <3> QED  BY <1>2, <3>2 DEF Asked, CloseSent, p
  <2> QED  BY <1>7, <2>1, <2>2
<1>12. LinkInv(e, id)' /\ PairOnward(e, id)
  <2>1. /\ id \in ropen'[e] <=> id \in ropen[e]
        /\ "cancelled" \in {"aborting", "cancelled"} /\ "aborting" # "cancelled"
        /\ r.call \in {"waiting", "aborting"}
    BY <1>2 DEF r
  <2> QED  BY <1>1, <1>3, <1>10, <1>11, <2>1, GiveUpLink DEF r, p
<1> QED  BY <1>10, <1>12, OnePair

\* The caller closes its track: UNSUBSCRIBE or FETCH_CANCEL is written.
LEMMA CloseTrackAgree ==
    ASSUME TypeOK, TypeOK', RequestInv, AgreeInv, NEW e \in Endpoints, NEW id \in Ids,
           CloseTrack(e, id)
    PROVE  AgreeInv'
<1> DEFINE r == rt[e][id]
           p == Peer(e)
<1>1. /\ PairInv(e, id) /\ LinkInv(e, id) /\ rt \in RemoteTracks
      /\ r.closes \in Nat /\ r.updates \in Nat /\ p \in Endpoints /\ Peer(p) = e
  BY PairFacts, TwoEnds
<1>2. /\ r.call = "ok" /\ rt' = [rt EXCEPT ![e][id].closes = @ + 1]
      /\ UNCHANGED <<ropen, failure, handling, setup, conn, aliases, localMax>>
      /\ UNCHANGED <<lt, lpending, lopen>>
      /\ UNCHANGED rpending
  BY DEF CloseTrack
<1>3. /\ OtherTracks(rt, rt', e, id)
      /\ RemoteIs(r, rt'[e][id], r.call, r.resp, r.done, r.closes + 1, r.updates)
  BY <1>1, <1>2, RemoteMoves DEF RemoteMove
<1>4. OthersIn(rpending, rpending', e, id)
  BY <1>2 DEF OthersIn
<1>5. PICK m : m = Msg(CloseType(r.kind), id)
  OBVIOUS
<1>6. m \in Message /\ m.type \in Closes /\ m.id = id /\ Write(e, m)
  <2>1. CloseType(r.kind) \in MessageTypes /\ CloseType(r.kind) \in Closes
    BY DEF CloseType, MessageTypes, Closes
  <2>2. m \in Message /\ m.type = CloseType(r.kind) /\ m.id = id
    BY <1>5, <2>1, MsgType DEF Msg
  <2> QED  BY <1>5, <2>1, <2>2 DEF CloseTrack
<1>7. m.type \in ForPublisher /\ m.type \notin Requests /\ m.type \notin Dones
      /\ m.type # "SUBSCRIBE_OK" /\ m.type # "SUBSCRIBE_UPDATE"
  BY <1>6 DEF ForPublisher, Followers, Closes, Requests, Dones
<1> HIDE DEF r, p
<1>8. MsgInv(p, m)'
  <2>1. lt'[p][id].kind # "none"
    BY <1>1, <1>2 DEF LinkInv, Learned, PairInv, p, r
  <2>2. Ending(e, id)'
    BY <1>1, <1>3 DEF Ending, RemoteIs
  <2> QED  BY <1>1, <1>6, <1>7, <2>1, <2>2 DEF MsgInv
<1>10. /\ PublisherStill(e, id) /\ AnswersStill(e, id) /\ EndOnward(e) /\ EndOnward(p)
       /\ \A f \in Endpoints, i \in Ids : f # e \/ i # id => Idle(f, i)
       /\ \A f \in Endpoints : EndFrame(f)
  <2>1. CallerMoves(e, id)
    BY <1>2, <1>3, <1>4, <1>6, <1>7, <1>8 DEF CallerMoves, p
  <2> QED  BY <2>1, CallerGround DEF p
<1>11. CloseSent(e, id)' \/ conn' = "down"
  BY <1>2, <1>6, WriteHas DEF CloseSent
<1>12. LinkInv(e, id)' /\ PairOnward(e, id)
  <2>1. /\ id \in ropen'[e] <=> id \in ropen[e]
        /\ id \in rpending'[e] <=> id \in rpending[e]
    BY <1>2
  <2>2. /\ r.closes + 1 \in Nat /\ r.closes + 1 >= r.closes /\ r.updates >= r.updates
    BY <1>1
  <2>3. CloseSent(e, id) => CloseSent(e, id)'
    BY <1>6, WriteHas DEF CloseSent
  <2> QED  BY <1>1, <1>2, <1>3, <1>10, <1>11, <2>1, <2>2, <2>3, TrackCallLink DEF r, p
<1> QED  BY <1>10, <1>12, OnePair

\* The caller updates its subscription.
LEMMA UpdateAgree ==
    ASSUME TypeOK, TypeOK', RequestInv, AgreeInv, NEW e \in Endpoints, NEW id \in Ids,
           UpdateSubscription(e, id)
    PROVE  AgreeInv'
<1> DEFINE r == rt[e][id]
           p == Peer(e)
<1>1. /\ PairInv(e, id) /\ LinkInv(e, id) /\ rt \in RemoteTracks
      /\ r.closes \in Nat /\ r.updates \in Nat /\ p \in Endpoints /\ Peer(p) = e
  BY PairFacts, TwoEnds
<1>2. /\ r.call = "ok" /\ rt' = [rt EXCEPT ![e][id].updates = @ + 1]
      /\ UNCHANGED <<ropen, failure, handling, setup, conn, aliases, localMax>>
      /\ UNCHANGED <<lt, lpending, lopen>>
      /\ UNCHANGED rpending
  BY DEF UpdateSubscription
<1>3. /\ OtherTracks(rt, rt', e, id)
      /\ RemoteIs(r, rt'[e][id], r.call, r.resp, r.done, r.closes, r.updates + 1)
  BY <1>1, <1>2, RemoteMoves DEF RemoteMove
<1>4. OthersIn(rpending, rpending', e, id)
  BY <1>2 DEF OthersIn
<1>5. PICK m : m = Msg("SUBSCRIBE_UPDATE", id)
  OBVIOUS
<1>6. m \in Message /\ m.type = "SUBSCRIBE_UPDATE" /\ m.id = id /\ Write(e, m)
  BY <1>5, MsgType DEF MessageTypes, Msg, UpdateSubscription
<1>7. m.type \in ForPublisher /\ m.type \notin Requests /\ m.type \notin Dones
      /\ m.type # "SUBSCRIBE_OK" /\ m.type \notin Closes
  BY <1>6 DEF ForPublisher, Followers, Closes, Requests, Dones
<1> HIDE DEF r, p
<1>8. MsgInv(p, m)'
  <2>1. lt'[p][id].kind # "none"
    BY <1>1, <1>2 DEF LinkInv, Learned, PairInv, p, r
  <2>2. rt'[e][id].updates > 0
    BY <1>1, <1>3 DEF RemoteIs
  <2> QED  BY <1>1, <1>6, <1>7, <2>1, <2>2 DEF MsgInv
<1>10. /\ PublisherStill(e, id) /\ AnswersStill(e, id) /\ EndOnward(e) /\ EndOnward(p)
       /\ \A f \in Endpoints, i \in Ids : f # e \/ i # id => Idle(f, i)
       /\ \A f \in Endpoints : EndFrame(f)
  <2>1. CallerMoves(e, id)
    BY <1>2, <1>3, <1>4, <1>6, <1>7, <1>8 DEF CallerMoves, p
  <2> QED  BY <2>1, CallerGround DEF p
<1>12. LinkInv(e, id)' /\ PairOnward(e, id)
  <2>1. /\ id \in ropen'[e] <=> id \in ropen[e]
        /\ id \in rpending'[e] <=> id \in rpending[e]
    BY <1>2
  <2>2. /\ r.updates + 1 \in Nat /\ r.closes >= r.closes /\ r.updates + 1 >= r.updates
    BY <1>1
  <2>3. CloseSent(e, id) => CloseSent(e, id)'
    BY <1>6, WriteHas DEF CloseSent
  <2> QED  BY <1>1, <1>2, <1>3, <1>10, <2>1, <2>2, <2>3, TrackCallLink DEF r, p
<1> QED  BY <1>10, <1>12, OnePair

-----------------------------------------------------------------------------
(***************************************************************************)
(* The answers, handled by the reader.                                     *)
(***************************************************************************)

\* The next message, of which the invariant speaks.
LEMMA NextMessage ==
    ASSUME TypeOK, AgreeInv, NEW e \in Endpoints, ctrl[e] # << >>
    PROVE  LET m == Head(ctrl[e]) IN
           /\ m \in Message /\ m.id \in Ids /\ MsgInv(e, m)
           /\ \A T : m.type \in T => Has(ctrl[e], T, m.id)
<1> DEFINE q == ctrl[e]
           m == Head(q)
<1>1. q \in Seq(Message)
  BY DEF TypeOK
<1>2. Len(q) \in Nat /\ Len(q) >= 1 /\ m = q[1]
  BY <1>1, TailElements
<1>3. m \in Message /\ m.id \in Ids
  BY HeadType DEF TypeOK
<1>4. MsgInv(e, q[1])
  BY <1>2 DEF AgreeInv
<1>5. \A T : m.type \in T => Has(q, T, m.id)
  BY <1>1, HasTail
<1>6. MsgInv(e, m)
  BY <1>2, <1>4
<1> QED  BY <1>3, <1>5, <1>6

\* The reader of e takes an answer to its own request id.
AnswerTaken(e, id, m) ==
    /\ failure[e] = "none" /\ handling[e] = NoRequest
    /\ ctrl[e] # << >> /\ m = Head(ctrl[e]) /\ m.type \in ForCaller /\ m.id = id
    /\ Consume(e) \/ ConsumeAndLeave(e, ctrl[Peer(e)])
    /\ OtherTracks(rt, rt', e, id) /\ OthersIn(rpending, rpending', e, id)
    /\ OthersIn(ropen, ropen', e, id)
    /\ UNCHANGED <<lt, lpending, lopen, handling, setup, conn, localMax>>
    /\ failure'[Peer(e)] = failure[Peer(e)] /\ (failure'[e] = failure[e] \/ Deaths(e)')
    /\ aliases'[Peer(e)] = aliases[Peer(e)] /\ (aliases'[e] = aliases[e] \/ AliasesOpen(e)')

\* Everything else stays as it is then.
LEMMA AnswerGround ==
    ASSUME TypeOK, AgreeInv, NEW e \in Endpoints, NEW id \in Ids, NEW m, AnswerTaken(e, id, m)
    PROVE  /\ PublisherStill(e, id) /\ RequestsStill(e, id)
           /\ EndOnward(e) /\ EndOnward(Peer(e))
           /\ \A f \in Endpoints, i \in Ids : f # e \/ i # id => Idle(f, i)
           /\ \A f \in Endpoints : EndFrame(f)
           /\ \A T : m.type \notin T => (Has(ctrl'[e], T, id) <=> Has(ctrl[e], T, id))
           /\ \A T : Has(ctrl'[e], T, id) => Has(ctrl[e], T, id)
<1> USE DEF AnswerTaken
<1>1. /\ \A f \in Endpoints, i \in Ids : PublisherStill(f, i)
      /\ \A f \in Endpoints, i \in Ids : f # e \/ i # id => CallerStill(f, i)
  BY AllStill, CallersStill
<1>2. m.type \notin ForPublisher
  BY TrackedTypes
<1>3. /\ \A f \in Endpoints, i \in Ids : RequestsStill(f, i)
      /\ \A f \in Endpoints, i \in Ids : f # e \/ i # id => AnswersStill(f, i)
      /\ \A f \in Endpoints : From(ctrl[f], ctrl'[f])
      /\ ctrl'[e] = Tail(ctrl[e])
  BY <1>2, ConsumeStill
<1>4. EndFrame(e) /\ EndFrame(Peer(e))
  <2>1. HandlerEnd(e) /\ HandlerEnd(Peer(e)) /\ Peer(e) \in Endpoints
    BY PeerType DEF AgreeInv
  <2> QED  BY <1>3, <2>1 DEF EndFrame, EndOnward, HandlerEnd, TruthWritten
<1>5. \A f \in Endpoints : EndFrame(f)
  BY <1>4, TwoEnds
<1>6. EndOnward(e) /\ EndOnward(Peer(e))
  BY <1>4 DEF EndFrame
<1>7. ctrl[e] \in Seq(Message)
  BY DEF TypeOK
<1>8. ASSUME NEW T
      PROVE  /\ m.type \notin T => (Has(ctrl'[e], T, id) <=> Has(ctrl[e], T, id))
             /\ Has(ctrl'[e], T, id) => Has(ctrl[e], T, id)
  BY <1>3, <1>7, HasTail
<1> QED  BY <1>1, <1>3, <1>5, <1>6, <1>8 DEF Idle, FlightStill

\* SUBSCRIBE_OK and FETCH_OK are read.
LEMMA OkAgree ==
    ASSUME TypeOK, TypeOK', RequestInv, AgreeInv, NEW e \in Endpoints,
           OnSubscribeOk(e) \/ OnFetchOk(e)
    PROVE  AgreeInv'
<1>0. PICK m : m = Head(ctrl[e])
  OBVIOUS
<1>00. PICK id : id = m.id
  OBVIOUS
<1> DEFINE r == rt[e][id]
           p == Peer(e)
<1>1. /\ ReaderIdle(e) /\ ctrl[e] # << >> /\ m.type \in Oks /\ id \in rpending[e]
      /\ OnSubscribeOk(e) => m.type = "SUBSCRIBE_OK"
  BY <1>0, <1>00 DEF OnSubscribeOk, OnFetchOk, Reading, NextIs, Oks
<1>2. id \in Ids /\ MsgInv(e, m) /\ OkSent(e, id)
  BY <1>0, <1>00, <1>1, NextMessage DEF OkSent
<1>3. /\ PairInv(e, id) /\ LinkInv(e, id) /\ rt \in RemoteTracks
      /\ r.closes \in Nat /\ r.updates \in Nat /\ p \in Endpoints /\ Peer(p) = e /\ p # e
  BY <1>2, PairFacts, TwoEnds
<1>4. r.resp = "empty"
  BY <1>2, <1>3 DEF PairInv, Underway, Unanswered
<1>5. /\ rpending' = [rpending EXCEPT ![e] = @ \ {id}]
      /\ ropen' = [ropen EXCEPT ![e] = @ \cup {id}]
      /\ UNCHANGED <<lt, lpending, lopen, handling, setup, conn, localMax>>
      /\ Consume(e) \/ ConsumeAndLeave(e, ctrl[Peer(e)])
  <2>1. rpending' = [rpending EXCEPT ![e] = rpending[e] \ {id}]
    BY <1>0, <1>00 DEF OnSubscribeOk, OnFetchOk, PendingAfterConfirm
  <2>2. ropen' = [ropen EXCEPT ![e] = @ \cup {id}]
    BY <1>0, <1>00 DEF OnSubscribeOk, OnFetchOk
  <2>3. UNCHANGED <<lt, lpending, lopen, handling, setup, conn, localMax>>
    BY DEF OnSubscribeOk, OnFetchOk
  <2>4. Consume(e) \/ ConsumeAndLeave(e, ctrl[Peer(e)])
    BY <1>0, <1>00, <1>4 DEF OnSubscribeOk, OnFetchOk
  <2> QED  BY <2>1, <2>2, <2>3, <2>4
<1>6. /\ OthersIn(rpending, rpending', e, id) /\ OthersIn(ropen, ropen', e, id)
      /\ id \in ropen'[e] /\ ropen[e] \subseteq ropen'[e]
  <2>1. OthersIn(rpending, rpending', e, id)
    BY <1>2, <1>5, SetMoves DEF TypeOK
  <2>2. OthersIn(ropen, ropen', e, id) /\ id \in ropen'[e]
    BY <1>2, <1>5, SetMoves DEF TypeOK
  <2>3. ropen[e] \subseteq ropen'[e]
    BY <1>5 DEF TypeOK
  <2> QED  BY <2>1, <2>2, <2>3
<1>7. \/ /\ rt' = [rt EXCEPT ![e][id].resp = "ok"] /\ UNCHANGED failure
         /\ aliases' = aliases \/ (OnSubscribeOk(e) /\ aliases' = [aliases EXCEPT ![e] = @ \cup {<<m.val, id>>}])
      \/ /\ OnSubscribeOk(e) /\ AliasTaken(e, m.val) /\ UNCHANGED <<aliases, rt>>
         /\ Return(e, "duplicateTrackAlias")
  BY <1>0, <1>00, <1>4 DEF OnSubscribeOk, OnFetchOk
<1> HIDE DEF r, p
<1>8. PICK resp :
        /\ resp = "ok" \/ failure'[e] # "none"
        /\ resp \in {"ok", r.resp} /\ OtherTracks(rt, rt', e, id)
        /\ RemoteIs(r, rt'[e][id], r.call, resp, r.done, r.closes, r.updates)
  <2>1. CASE rt' = [rt EXCEPT ![e][id].resp = "ok"]
    <3>1. /\ OtherTracks(rt, rt', e, id)
          /\ RemoteIs(r, rt'[e][id], r.call, "ok", r.done, r.closes, r.updates)
      BY <1>2, <1>3, <2>1, RemoteMoves DEF RemoteMove, r
    <3> QED  BY <3>1
  <2>2. CASE UNCHANGED rt /\ Return(e, "duplicateTrackAlias")
    <3>1. /\ OtherTracks(rt, rt', e, id)
          /\ RemoteIs(r, rt'[e][id], r.call, r.resp, r.done, r.closes, r.updates)
      BY <2>2 DEF OtherTracks, RemoteIs, r
    <3>2. failure'[e] = "duplicateTrackAlias"
      BY <2>2 DEF Return, TypeOK
    <3> QED  BY <3>1, <3>2
  <2> QED  BY <1>7, <2>1, <2>2
<1>9. \A i \in Ids : rt'[e][i].kind = rt[e][i].kind
  BY <1>2, <1>8 DEF OtherTracks, RemoteIs, r
<1>10. /\ failure'[p] = failure[p] /\ (failure'[e] = failure[e] \/ Deaths(e)')
  <2>1. CASE UNCHANGED failure
    BY <2>1
  <2>2. CASE OnSubscribeOk(e) /\ AliasTaken(e, m.val) /\ Return(e, "duplicateTrackAlias")
    <3>1. failure'[p] = failure[p] /\ failure'[e] = "duplicateTrackAlias"
      BY <1>3, <2>2 DEF Return, TypeOK
    <3>2. PICK a \in aliases[e] : a[1] = m.val
      BY <2>2 DEF AliasTaken
    <3>3. a[2] \in ropen[e] /\ rt[e][a[2]].kind = "subscribe"
      BY DEF AgreeInv, AliasesOpen
    <3>4. rt[e][id].kind = "subscribe"
      BY <1>1, <1>2, <1>00, <2>2 DEF MsgInv
    <3>5. a[2] # id
      BY <1>1, <3>3 DEF TypeOK
    <3>6. a[2] \in Ids
      BY <3>3 DEF TypeOK
    <3>7. /\ a[2] \in ropen'[e] /\ id \in ropen'[e]
          /\ rt'[e][a[2]].kind = "subscribe" /\ rt'[e][id].kind = "subscribe"
      BY <1>2, <1>6, <1>9, <3>3, <3>4, <3>6
    <3>8. Deaths(e)'
      BY <3>1, <3>5, <3>7 DEF Deaths
    <3> QED  BY <3>1, <3>8
  <2> QED  BY <1>7, <2>1, <2>2
<1>11. aliases'[p] = aliases[p] /\ (aliases'[e] = aliases[e] \/ AliasesOpen(e)')
  <2>1. CASE aliases' = aliases
    BY <2>1
  <2>2. CASE OnSubscribeOk(e) /\ aliases' = [aliases EXCEPT ![e] = @ \cup {<<m.val, id>>}]
    <3>1. aliases'[p] = aliases[p] /\ aliases'[e] = aliases[e] \cup {<<m.val, id>>}
      BY <1>3, <2>2 DEF TypeOK
    <3>2. ASSUME NEW a \in aliases'[e]
          PROVE  a[2] \in ropen'[e] /\ rt'[e][a[2]].kind = "subscribe"
      <4>1. CASE a \in aliases[e]
        <5>1. a[2] \in ropen[e] /\ rt[e][a[2]].kind = "subscribe"
          BY <4>1 DEF AgreeInv, AliasesOpen
        <5>2. a[2] \in Ids
          BY <5>1 DEF TypeOK
        <5> QED  BY <1>6, <1>9, <5>1, <5>2
      <4>2. CASE a = <<m.val, id>>
        <5>1. a[2] = id
          BY <4>2
        <5>2. rt[e][id].kind = "subscribe"
          BY <1>1, <1>2, <1>00, <2>2 DEF MsgInv
        <5> QED  BY <1>2, <1>6, <1>9, <5>1, <5>2
      <4> QED  BY <3>1, <4>1, <4>2
    <3> QED  BY <3>1, <3>2 DEF AliasesOpen
  <2> QED  BY <1>7, <2>1, <2>2
<1>12. m.type \in ForCaller /\ m.type \notin Errors /\ m.type \notin Dones
  BY <1>1, TrackedTypes DEF ForCaller
<1>13. failure[e] = "none" /\ handling[e] = NoRequest
  BY <1>1 DEF ReaderIdle
<1>14. /\ PublisherStill(e, id) /\ RequestsStill(e, id) /\ EndOnward(e) /\ EndOnward(p)
       /\ \A f \in Endpoints, i \in Ids : f # e \/ i # id => Idle(f, i)
       /\ \A f \in Endpoints : EndFrame(f)
       /\ \A T : m.type \notin T => (Has(ctrl'[e], T, id) <=> Has(ctrl[e], T, id))
  <2>1. AnswerTaken(e, id, m)
    BY <1>0, <1>00, <1>1, <1>5, <1>6, <1>8, <1>10, <1>11, <1>12, <1>13 DEF AnswerTaken, p
  <2> QED  BY <1>2, <2>1, AnswerGround DEF p
<1>15. /\ ErrorSent(e, id)' <=> ErrorSent(e, id)
       /\ DoneSent(e, id)' <=> DoneSent(e, id)
  BY <1>12, <1>14 DEF ErrorSent, DoneSent
<1>16. LinkInv(e, id)' /\ PairOnward(e, id)
  <2>1. resp = "ok" \/ Lost(e)'
    BY <1>8 DEF Lost
  <2> QED  BY <1>2, <1>3, <1>6, <1>8, <1>14, <1>15, <2>1, HearOkLink DEF r, p
<1> QED  BY <1>2, <1>14, <1>16, OnePair

\* SUBSCRIBE_ERROR and FETCH_ERROR are read.
LEMMA ErrorAgree ==
    ASSUME TypeOK, TypeOK', RequestInv, AgreeInv, NEW e \in Endpoints,
           OnSubscribeError(e) \/ OnFetchError(e)
    PROVE  AgreeInv'
<1>0. PICK m : m = Head(ctrl[e])
  OBVIOUS
<1>00. PICK id : id = m.id
  OBVIOUS
<1> DEFINE r == rt[e][id]
           p == Peer(e)
<1>1. /\ ReaderIdle(e) /\ ctrl[e] # << >> /\ m.type \in Errors /\ id \in rpending[e]
  BY <1>0, <1>00 DEF OnSubscribeError, OnFetchError, OnError, Reading, NextIs, Errors
<1>2. id \in Ids /\ ErrorSent(e, id)
  BY <1>0, <1>00, <1>1, NextMessage DEF ErrorSent
<1>3. /\ PairInv(e, id) /\ LinkInv(e, id) /\ rt \in RemoteTracks
      /\ r.closes \in Nat /\ r.updates \in Nat /\ p \in Endpoints /\ Peer(p) = e /\ p # e
  BY <1>2, PairFacts, TwoEnds
<1>4. r.resp = "empty"
  BY <1>2, <1>3 DEF PairInv, Underway, Unanswered
<1>5. /\ rpending' = [rpending EXCEPT ![e] = @ \ {id}]
      /\ UNCHANGED <<lt, lpending, lopen, handling, setup, conn, localMax>>
      /\ UNCHANGED <<ropen, failure, aliases>>
      /\ Consume(e)
  BY <1>0, <1>00 DEF OnSubscribeError, OnFetchError, OnError
<1>6. rt' = [rt EXCEPT ![e][id].resp = "error"]
  <2>1. rt' = [rt EXCEPT ![e][id].resp = IF @ = "empty" THEN "error" ELSE @]
    BY <1>0, <1>00 DEF OnSubscribeError, OnFetchError, OnError
  <2> QED  BY <1>4, <2>1
<1>7. /\ OtherTracks(rt, rt', e, id)
      /\ RemoteIs(r, rt'[e][id], r.call, "error", r.done, r.closes, r.updates)
  BY <1>2, <1>3, <1>6, RemoteMoves DEF RemoteMove
<1>8. OthersIn(rpending, rpending', e, id) /\ OthersIn(ropen, ropen', e, id)
  <2>1. OthersIn(rpending, rpending', e, id)
    BY <1>2, <1>5, SetMoves DEF TypeOK
  <2> QED  BY <1>5, <2>1 DEF OthersIn
<1>9. /\ failure'[p] = failure[p] /\ failure'[e] = failure[e]
      /\ aliases'[p] = aliases[p] /\ aliases'[e] = aliases[e]
  BY <1>5
<1>10. m.type \in ForCaller /\ m.type \notin Dones
  BY <1>1, TrackedTypes DEF ForCaller
<1>11. failure[e] = "none" /\ handling[e] = NoRequest
  BY <1>1 DEF ReaderIdle
<1> HIDE DEF r, p
<1>12. /\ PublisherStill(e, id) /\ RequestsStill(e, id) /\ EndOnward(e) /\ EndOnward(p)
       /\ \A f \in Endpoints, i \in Ids : f # e \/ i # id => Idle(f, i)
       /\ \A f \in Endpoints : EndFrame(f)
       /\ \A T : m.type \notin T => (Has(ctrl'[e], T, id) <=> Has(ctrl[e], T, id))
  <2>1. AnswerTaken(e, id, m)
    BY <1>0, <1>00, <1>1, <1>5, <1>7, <1>8, <1>9, <1>10, <1>11 DEF AnswerTaken, p
  <2> QED  BY <1>2, <2>1, AnswerGround DEF p
<1>13. DoneSent(e, id)' <=> DoneSent(e, id)
  BY <1>10, <1>12 DEF DoneSent
<1>14. LinkInv(e, id)' /\ PairOnward(e, id)
  <2>1. id \in ropen'[e] <=> id \in ropen[e]
    BY <1>5
  <2> QED  BY <1>2, <1>3, <1>7, <1>12, <1>13, <2>1, HearErrorLink DEF r, p
<1> QED  BY <1>2, <1>12, <1>14, OnePair

\* SUBSCRIBE_DONE is read.
LEMMA DoneAgree ==
    ASSUME TypeOK, TypeOK', RequestInv, AgreeInv, NEW e \in Endpoints, OnSubscribeDone(e)
    PROVE  AgreeInv'
<1>0. PICK m : m = Head(ctrl[e])
  OBVIOUS
<1>00. PICK id : id = m.id
  OBVIOUS
<1> DEFINE r == rt[e][id]
           p == Peer(e)
<1>1. /\ ReaderIdle(e) /\ ctrl[e] # << >> /\ m.type \in Dones
  BY <1>0 DEF OnSubscribeDone, Reading, NextIs, Dones
<1>2. id \in Ids /\ MsgInv(e, m)
  BY <1>0, <1>00, <1>1, NextMessage
<1>3. /\ PairInv(e, id) /\ LinkInv(e, id) /\ rt \in RemoteTracks
      /\ r.closes \in Nat /\ r.updates \in Nat /\ p \in Endpoints /\ Peer(p) = e /\ p # e
  BY <1>2, PairFacts, TwoEnds
<1>4. lt[p][id].kind # "none" /\ lt[p][id].ctx # "live"
  BY <1>00, <1>1, <1>2 DEF MsgInv
<1>5. /\ UNCHANGED <<lt, lpending, lopen, handling, setup, conn, localMax>>
      /\ UNCHANGED <<ropen, failure, aliases, rpending>>
      /\ Consume(e)
      /\ rt' = [rt EXCEPT ![e][id].done = TRUE]
  BY <1>0, <1>00 DEF OnSubscribeDone
<1>6. /\ OtherTracks(rt, rt', e, id)
      /\ RemoteIs(r, rt'[e][id], r.call, r.resp, TRUE, r.closes, r.updates)
  BY <1>2, <1>3, <1>5, RemoteMoves DEF RemoteMove
<1>7. OthersIn(rpending, rpending', e, id) /\ OthersIn(ropen, ropen', e, id)
  BY <1>5 DEF OthersIn
<1>8. /\ failure'[p] = failure[p] /\ failure'[e] = failure[e]
      /\ aliases'[p] = aliases[p] /\ aliases'[e] = aliases[e]
  BY <1>5
<1>9. m.type \in ForCaller /\ m.type \notin Oks /\ m.type \notin Errors
  BY <1>1, TrackedTypes DEF ForCaller
<1>10. failure[e] = "none" /\ handling[e] = NoRequest
  BY <1>1 DEF ReaderIdle
<1> HIDE DEF r, p
<1>11. /\ PublisherStill(e, id) /\ RequestsStill(e, id) /\ EndOnward(e) /\ EndOnward(p)
       /\ \A f \in Endpoints, i \in Ids : f # e \/ i # id => Idle(f, i)
       /\ \A f \in Endpoints : EndFrame(f)
       /\ \A T : m.type \notin T => (Has(ctrl'[e], T, id) <=> Has(ctrl[e], T, id))
  <2>1. AnswerTaken(e, id, m)
    BY <1>0, <1>00, <1>1, <1>5, <1>6, <1>7, <1>8, <1>9, <1>10 DEF AnswerTaken, p
  <2> QED  BY <1>2, <2>1, AnswerGround DEF p
<1>12. (OkSent(e, id)' <=> OkSent(e, id)) /\ (ErrorSent(e, id)' <=> ErrorSent(e, id))
  BY <1>9, <1>11 DEF OkSent, ErrorSent
<1>13. LinkInv(e, id)' /\ PairOnward(e, id)
  <2>1. /\ id \in ropen'[e] <=> id \in ropen[e]
        /\ id \in rpending'[e] <=> id \in rpending[e]
    BY <1>5
  <2> QED  BY <1>2, <1>3, <1>4, <1>6, <1>11, <1>12, <2>1, HearDoneLink DEF r, p
<1> QED  BY <1>2, <1>11, <1>13, OnePair

-----------------------------------------------------------------------------
(***************************************************************************)
(* The response writer.                                                    *)
(***************************************************************************)

\* What the response writer of x says to e, and how a handler of x returns.
Speaks(e, x, id) ==
    \/ UNCHANGED ctrl
    \/ \E m \in Message : Write(x, m) /\ m.type \in ForCaller /\ m.id = id /\ MsgInv(e, m)'
Frees(x, id) ==
    \/ handling' = handling
    \/ handling[x] = id /\ handling' = [handling EXCEPT ![x] = NoRequest]
Breaks(x) ==
    \/ failure'[x] = failure[x]
    \/ failure[x] = "none" /\ Deaths(x)' /\ handling'[x] = NoRequest

\* A handler of x returns, or the response writer for a request of e is used.
WriterUsed(e, x, id) ==
    /\ x = Peer(e) /\ Speaks(e, x, id) /\ Frees(x, id) /\ Breaks(x)
    /\ OtherTracks(lt, lt', x, id) /\ OthersIn(lpending, lpending', x, id)
    /\ OthersIn(lopen, lopen', x, id)
    /\ UNCHANGED <<rt, rpending, ropen, setup, conn, aliases, localMax>>
    /\ failure'[e] = failure[e]

\* Everything else stays as it is then.
LEMMA WriterGround ==
    ASSUME TypeOK, AgreeInv, NEW e \in Endpoints, NEW x, NEW id \in Ids, WriterUsed(e, x, id)
    PROVE  /\ CallerStill(e, id) /\ RequestsStill(e, id)
           /\ EndOnward(e) /\ EndOnward(x)
           /\ \A f \in Endpoints, i \in Ids : f # e \/ i # id => Idle(f, i)
           /\ \A f \in Endpoints : EndFrame(f)
<1> USE DEF WriterUsed, Speaks, Frees, Breaks
<1>0. /\ x \in Endpoints /\ x # e /\ Peer(x) = e
      /\ \A f \in Endpoints : f = x \/ f = e
  BY TwoEnds
<1>1. /\ \A f \in Endpoints, i \in Ids : CallerStill(f, i)
      /\ \A f \in Endpoints, i \in Ids : f # e \/ i # id => PublisherStill(f, i)
  <2>1. \A i \in Ids : i # NoRequest
    BY ControlAssumption DEF Ids, NoRequest
  <2>2. \A f \in Endpoints, i \in Ids :
          f # x \/ i # id => (handling'[f] = i <=> handling[f] = i)
    <3>1. handling \in [Endpoints -> Ids \cup {NoRequest}]
      BY DEF TypeOK
    <3>2. CASE handling' = handling
      BY <3>2
    <3>3. CASE handling[x] = id /\ handling' = [handling EXCEPT ![x] = NoRequest]
      BY <1>0, <2>1, <3>1, <3>3
    <3> QED  BY <3>2, <3>3
  <2> QED  BY <2>2, AllStill, PublishersStill
<1>2. /\ \A f \in Endpoints, i \in Ids : RequestsStill(f, i)
      /\ \A f \in Endpoints, i \in Ids : f # e \/ i # id => AnswersStill(f, i)
      /\ \A f \in Endpoints : TruthWritten(f)
  <2>1. CASE UNCHANGED ctrl
    BY <2>1, AllStill DEF TruthWritten
  <2>2. ASSUME NEW m \in Message, Write(x, m), m.type \in ForCaller, m.id = id,
               MsgInv(e, m)'
        PROVE  <1>2!:
    <3>1. m.type \notin ForPublisher
      BY <2>2, TrackedTypes
    <3>2. MsgInv(Peer(x), m)'
      BY <1>0, <2>2
    <3>3. \A f \in Endpoints : TruthWritten(f)
      BY <1>0, <2>2, <3>2, WriteFrame
    <3> QED  BY <1>0, <2>2, <3>1, <3>3, WriteStill
  <2> QED  BY <2>1, <2>2
<1>3. ASSUME NEW f \in Endpoints
      PROVE  EndFrame(f)
  <2>1. HandlerEnd(f)
    BY DEF AgreeInv
  <2>2. handling'[f] = handling[f] \/ (f = x /\ handling'[f] = NoRequest)
    BY <1>0 DEF TypeOK
  <2>3. failure'[f] = failure[f] \/ (failure[f] = "none" /\ Deaths(f)' /\ handling'[f] = NoRequest)
    BY <1>0
  <2>4. EndOnward(f)
    BY <2>3 DEF EndOnward
  <2>5. HandlerEnd(f)'
    BY <2>1, <2>2, <2>3 DEF HandlerEnd
  <2> QED  BY <1>2, <2>3, <2>4, <2>5 DEF EndFrame
<1>4. EndOnward(e) /\ EndOnward(x)
  BY <1>0, <1>3 DEF EndFrame
<1> QED  BY <1>1, <1>2, <1>3, <1>4 DEF Idle, FlightStill

\* Accept opens a pending track, and is too late for another.
LEMMA AcceptAgree ==
    ASSUME TypeOK, TypeOK', RequestInv, AgreeInv, NEW x \in Endpoints, NEW id \in Ids,
           Accept(x, id)
    PROVE  AgreeInv'
<1>0. PICK e : e = Peer(x)
  OBVIOUS
<1> DEFINE l == lt[x][id]
<1>1. /\ e \in Endpoints /\ x = Peer(e) /\ Peer(x) = e /\ x # e
      /\ PairInv(e, id) /\ LinkInv(e, id) /\ lt \in LocalTracks
      /\ rt[e][id].closes \in Nat /\ rt[e][id].updates \in Nat
  BY <1>0, PairFacts, TwoEnds
<1>2. /\ UNCHANGED <<rt, rpending, ropen, setup, conn, aliases, localMax>>
      /\ UNCHANGED <<handling, failure, ctrl>>
      /\ lpending' = [lpending EXCEPT ![x] = @ \ {id}]
      /\ id \in lpending[x] => /\ lt' = [lt EXCEPT ![x][id] = Handled(@, "confirmed")]
                               /\ lopen' = [lopen EXCEPT ![x] = @ \cup {id}]
      /\ id \notin lpending[x] => /\ lt' = [lt EXCEPT ![x][id] = Handled(@, lt[x][id].answer)]
                                  /\ lopen' = [lopen EXCEPT ![x] = @]
  BY DEF Accept, controlVars
<1>3. /\ OtherTracks(lt, lt', x, id)
      /\ id \in lpending[x] => LocalIs(l, lt'[x][id], l.ctx, TRUE, "confirmed")
      /\ id \notin lpending[x] => LocalIs(l, lt'[x][id], l.ctx, TRUE, l.answer)
  <2>1. CASE id \in lpending[x]
    <3>1. lt' = [lt EXCEPT ![x][id] = Handled(@, "confirmed")]
      BY <1>2, <2>1
    <3> QED  BY <1>1, <2>1, <3>1, LocalMoves DEF LocalMove
  <2>2. CASE id \notin lpending[x]
    <3>1. lt' = [lt EXCEPT ![x][id] = Handled(@, lt[x][id].answer)]
      BY <1>2, <2>2
    <3> QED  BY <1>1, <2>2, <3>1, LocalMoves DEF LocalMove
  <2> QED  BY <2>1, <2>2
<1>4. /\ OthersIn(lpending, lpending', x, id) /\ OthersIn(lopen, lopen', x, id)
      /\ id \notin lpending'[x]
      /\ id \in lpending[x] => id \in lopen'[x]
      /\ id \notin lpending[x] => lopen' = lopen
  <2>1. lpending \in [Endpoints -> SUBSET Ids] /\ lopen \in [Endpoints -> SUBSET Ids]
    BY DEF TypeOK
  <2>2. OthersIn(lpending, lpending', x, id) /\ id \notin lpending'[x]
    BY <1>2, <2>1, SetMoves
  <2>3. CASE id \in lpending[x]
    <3>1. lopen' = [lopen EXCEPT ![x] = @ \cup {id}]
      BY <1>2, <2>3
    <3> QED  BY <2>1, <2>2, <2>3, <3>1, SetMoves
  <2>4. CASE id \notin lpending[x]
    <3>1. lopen' = [lopen EXCEPT ![x] = @]
      BY <1>2, <2>4
    <3>2. lopen' = lopen
      BY <2>1, <3>1
    <3> QED  BY <2>2, <2>4, <3>2 DEF OthersIn
  <2> QED  BY <2>3, <2>4
<1> HIDE DEF l
<1>5. /\ CallerStill(e, id) /\ RequestsStill(e, id) /\ EndOnward(e) /\ EndOnward(x)
      /\ \A f \in Endpoints, i \in Ids : f # e \/ i # id => Idle(f, i)
      /\ \A f \in Endpoints : EndFrame(f)
  <2>1. WriterUsed(e, x, id)
    BY <1>1, <1>2, <1>3, <1>4 DEF WriterUsed, Speaks, Frees, Breaks
  <2> QED  BY <1>1, <2>1, WriterGround
<1>6. AnswersStill(e, id)
  BY <1>1, <1>2, AllStill
<1>7. LinkInv(e, id)' /\ PairOnward(e, id)
  <2>1. CASE id \in lpending[x]
    <3>1. /\ (OkSent(e, id) => OkSent(e, id)' \/ Lost(e)')
          /\ (DoneSent(e, id) => DoneSent(e, id)' \/ Lost(e)')
          /\ (ErrorSent(e, id)' => ErrorSent(e, id))
      BY <1>6, AnswersArrive
    <3>2. "confirmed" \in {"confirmed", "error"} /\ "confirmed" # "error"
      OBVIOUS
    <3> QED  BY <1>1, <1>3, <1>4, <1>5, <2>1, <3>1, <3>2, DecideLink DEF l
  <2>2. CASE id \notin lpending[x]
    <3>1. /\ id \in lopen'[x] <=> id \in lopen[x]
          /\ handling'[x] = id => handling[x] = id
      BY <1>2, <1>4, <2>2
    <3> QED  BY <1>1, <1>3, <1>4, <1>5, <1>6, <2>2, <3>1, HandledLink DEF l, FlightStill
  <2> QED  BY <2>1, <2>2
<1> QED  BY <1>1, <1>5, <1>7, OnePair

\* A message that says nothing about the tracks.
LEMMA SilentMessage ==
    ASSUME NEW f, NEW m, m.type \notin ForPublisher, m.type \notin Dones, m.type # "SUBSCRIBE_OK"
    PROVE  MsgInv(f, m)'
BY DEF MsgInv, ForPublisher, Followers

\* A pending request is refused, by the application or for want of an answer.
LEMMA DenyAgree ==
    ASSUME TypeOK, TypeOK', RequestInv, AgreeInv, NEW x \in Endpoints, NEW id \in Ids,
           id \in lpending[x], lt' = [lt EXCEPT ![x][id] = Handled(@, "error")],
           lpending' = [lpending EXCEPT ![x] = @ \ {id}],
           Write(x, Msg(ErrorType(lt[x][id].kind), id)),
           UNCHANGED <<rt, rpending, ropen, setup, conn, aliases, localMax>>, UNCHANGED lopen,
           \/ handling' = handling
           \/ handling[x] = id /\ handling' = [handling EXCEPT ![x] = NoRequest],
           \/ failure' = failure
           \/ /\ failure[x] = "none" /\ failure' = [failure EXCEPT ![x] = "writeFailed"]
              /\ conn = "down" /\ handling'[x] = NoRequest
    PROVE  AgreeInv'
<1>0. PICK e : e = Peer(x)
  OBVIOUS
<1> DEFINE l == lt[x][id]
<1>1. /\ e \in Endpoints /\ x = Peer(e) /\ Peer(x) = e /\ x # e
      /\ PairInv(e, id) /\ LinkInv(e, id) /\ lt \in LocalTracks
      /\ rt[e][id].closes \in Nat /\ rt[e][id].updates \in Nat
  BY <1>0, PairFacts, TwoEnds
<1>2. OtherTracks(lt, lt', x, id) /\ LocalIs(l, lt'[x][id], l.ctx, TRUE, "error")
  BY <1>1, LocalMoves DEF LocalMove
<1>3. /\ OthersIn(lpending, lpending', x, id) /\ OthersIn(lopen, lopen', x, id)
      /\ id \notin lpending'[x]
  <2>1. lpending \in [Endpoints -> SUBSET Ids]
    BY DEF TypeOK
  <2>2. OthersIn(lpending, lpending', x, id) /\ id \notin lpending'[x]
    BY <2>1, SetMoves
  <2> QED  BY <2>2 DEF OthersIn
<1>4. PICK m : m = Msg(ErrorType(lt[x][id].kind), id)
  OBVIOUS
<1>5. /\ m \in Message /\ m.type \in Errors /\ m.id = id /\ Write(x, m)
  BY <1>4, MsgType DEF MessageTypes, Msg, ErrorType, Errors
<1>6. /\ m.type \in ForCaller /\ m.type \notin ForPublisher /\ m.type \notin Dones
      /\ m.type # "SUBSCRIBE_OK" /\ m.type \notin Oks
  BY <1>5, TrackedTypes DEF ForCaller, Oks
<1> HIDE DEF l
<1>7. MsgInv(e, m)'
  BY <1>6, SilentMessage
<1>8. /\ failure'[e] = failure[e]
      /\ \/ failure'[x] = failure[x]
         \/ failure[x] = "none" /\ Deaths(x)' /\ handling'[x] = NoRequest
  <2>1. CASE failure' = failure
    BY <2>1
  <2>2. CASE /\ failure[x] = "none" /\ failure' = [failure EXCEPT ![x] = "writeFailed"]
             /\ conn = "down" /\ handling'[x] = NoRequest
    <3>1. failure'[e] = failure[e] /\ failure'[x] = "writeFailed" /\ conn' = "down"
      BY <1>1, <2>2 DEF TypeOK
    <3> QED  BY <2>2, <3>1 DEF Deaths
  <2> QED  BY <2>1, <2>2
<1>9. /\ CallerStill(e, id) /\ RequestsStill(e, id) /\ EndOnward(e) /\ EndOnward(x)
      /\ \A f \in Endpoints, i \in Ids : f # e \/ i # id => Idle(f, i)
      /\ \A f \in Endpoints : EndFrame(f)
  <2>1. WriterUsed(e, x, id)
    BY <1>1, <1>2, <1>3, <1>5, <1>6, <1>7, <1>8 DEF WriterUsed, Speaks, Frees, Breaks
  <2> QED  BY <1>1, <2>1, WriterGround
<1>10. /\ (OkSent(e, id) => OkSent(e, id)') /\ (DoneSent(e, id) => DoneSent(e, id)')
       /\ ErrorSent(e, id)' \/ Lost(e)'
  BY <1>1, <1>5, WriteHas DEF OkSent, DoneSent, ErrorSent, Lost
<1>11. LinkInv(e, id)' /\ PairOnward(e, id)
  <2>1. /\ "error" \in {"confirmed", "error"} /\ "error" # "confirmed"
        /\ id \in lopen'[x] <=> id \in lopen[x]
    OBVIOUS
  <2> QED  BY <1>1, <1>2, <1>3, <1>9, <1>10, <2>1, DecideLink DEF l
<1> QED  BY <1>1, <1>9, <1>11, OnePair

\* The response writer comes too late for the request.
LEMMA LateAgree ==
    ASSUME TypeOK, TypeOK', RequestInv, AgreeInv, NEW x \in Endpoints, NEW id \in Ids,
           id \notin lpending[x], OtherTracks(lt, lt', x, id),
           LocalIs(lt[x][id], lt'[x][id], lt[x][id].ctx, TRUE, lt[x][id].answer),
           UNCHANGED <<rt, rpending, ropen, setup, conn, aliases, localMax>>,
           UNCHANGED <<lpending, lopen, ctrl>>,
           \/ handling' = handling
           \/ handling[x] = id /\ handling' = [handling EXCEPT ![x] = NoRequest],
           \/ failure' = failure
           \/ /\ failure[x] = "none" /\ failure' = [failure EXCEPT ![x] = "unknownRequestID"]
              /\ UnknownCause(x, id)' /\ handling'[x] = NoRequest
    PROVE  AgreeInv'
<1>0. PICK e : e = Peer(x)
  OBVIOUS
<1>1. /\ e \in Endpoints /\ x = Peer(e) /\ Peer(x) = e /\ x # e
      /\ PairInv(e, id) /\ LinkInv(e, id)
      /\ rt[e][id].closes \in Nat /\ rt[e][id].updates \in Nat
  BY <1>0, PairFacts, TwoEnds
<1>2. OthersIn(lpending, lpending', x, id) /\ OthersIn(lopen, lopen', x, id)
  BY DEF OthersIn
<1>3. /\ failure'[e] = failure[e]
      /\ \/ failure'[x] = failure[x]
         \/ failure[x] = "none" /\ Deaths(x)' /\ handling'[x] = NoRequest
  <2>1. CASE failure' = failure
    BY <2>1
  <2>2. CASE /\ failure[x] = "none" /\ failure' = [failure EXCEPT ![x] = "unknownRequestID"]
             /\ UnknownCause(x, id)' /\ handling'[x] = NoRequest
    <3>1. failure'[e] = failure[e] /\ failure'[x] = "unknownRequestID"
      BY <1>1, <2>2 DEF TypeOK
    <3>2. Deaths(x)'
      BY <2>2, <3>1 DEF Deaths
    <3> QED  BY <2>2, <3>1, <3>2
  <2> QED  BY <2>1, <2>2
<1>4. /\ CallerStill(e, id) /\ RequestsStill(e, id) /\ EndOnward(e) /\ EndOnward(x)
      /\ \A f \in Endpoints, i \in Ids : f # e \/ i # id => Idle(f, i)
      /\ \A f \in Endpoints : EndFrame(f)
  <2>1. WriterUsed(e, x, id)
    BY <1>1, <1>2, <1>3 DEF WriterUsed, Speaks, Frees, Breaks
  <2> QED  BY <1>1, <2>1, WriterGround
<1>5. AnswersStill(e, id)
  BY <1>1, AllStill
<1>6. LinkInv(e, id)' /\ PairOnward(e, id)
  <2>1. /\ id \in lopen'[x] <=> id \in lopen[x]
        /\ id \notin lpending'[x]
        /\ handling'[x] = id => handling[x] = id
    BY DEF TypeOK
  <2> QED  BY <1>1, <1>4, <1>5, <2>1, HandledLink DEF FlightStill
<1> QED  BY <1>1, <1>4, <1>6, OnePair

\* Reject.
LEMMA RejectAgree ==
    ASSUME TypeOK, TypeOK', RequestInv, AgreeInv, NEW x \in Endpoints, NEW id \in Ids,
           Reject(x, id)
    PROVE  AgreeInv'
<1>1. /\ UNCHANGED <<rt, rpending, ropen, setup, conn, aliases, localMax>>
      /\ UNCHANGED <<handling, failure, lopen>>
      /\ lpending' = [lpending EXCEPT ![x] = lpending[x] \ {id}]
      /\ id \in lpending[x] => /\ lt' = [lt EXCEPT ![x][id] = Handled(@, "error")]
                               /\ Write(x, Msg(ErrorType(lt[x][id].kind), id))
      /\ id \notin lpending[x] => /\ lt' = [lt EXCEPT ![x][id] = Handled(@, lt[x][id].answer)]
                                  /\ UNCHANGED ctrl
  BY DEF Reject, PendingAfterReject
<1>2. CASE id \in lpending[x]
  <2>1. /\ lt' = [lt EXCEPT ![x][id] = Handled(@, "error")]
        /\ Write(x, Msg(ErrorType(lt[x][id].kind), id))
    BY <1>1, <1>2
  <2> QED  BY <1>1, <1>2, <2>1, DenyAgree
<1>3. CASE id \notin lpending[x]
  <2>1. lt' = [lt EXCEPT ![x][id] = Handled(@, lt[x][id].answer)] /\ UNCHANGED ctrl
    BY <1>1, <1>3
  <2>2. lt \in LocalTracks
    BY DEF TypeOK, LocalTracks
  <2>3. /\ OtherTracks(lt, lt', x, id)
        /\ LocalIs(lt[x][id], lt'[x][id], lt[x][id].ctx, TRUE, lt[x][id].answer)
    BY <2>1, <2>2, LocalMoves DEF LocalMove
  <2>4. lpending' = lpending
    BY <1>1, <1>3 DEF TypeOK
  <2> QED  BY <1>1, <1>3, <2>1, <2>3, <2>4, LateAgree
<1> QED  BY <1>2, <1>3

\* A handler returns.
LEMMA HandlerReturnAgree ==
    ASSUME TypeOK, TypeOK', RequestInv, AgreeInv, NEW x \in Endpoints, HandlerReturn(x)
    PROVE  AgreeInv'
<1>0. PICK id : id = handling[x]
  OBVIOUS
<1>00. PICK e : e = Peer(x)
  OBVIOUS
<1>1. id \in Ids
  BY <1>0 DEF HandlerReturn, TypeOK
<1>2. e \in Endpoints /\ x = Peer(e) /\ LinkInv(e, id) /\ HandlerEnd(x) /\ lt \in LocalTracks
  BY <1>00, <1>1, PairFacts, TwoEnds DEF AgreeInv
<1>3. /\ UNCHANGED <<rt, rpending, ropen, setup, conn, aliases, localMax>> /\ UNCHANGED lopen
      /\ handling[x] = id /\ handling' = [handling EXCEPT ![x] = NoRequest]
      /\ handling'[x] = NoRequest
  BY <1>0 DEF HandlerReturn, TypeOK
<1>4. failure[x] = "none"
  BY <1>2 DEF HandlerReturn, HandlerEnd
<1>5. CASE lt[x][id].handled
  <2>1. lpending' = lpending /\ lt' = lt /\ ctrl' = ctrl /\ failure' = failure
    BY <1>0, <1>5 DEF HandlerReturn, Unhandled, TypeOK
  <2>2. id \notin lpending[x]
    BY <1>2, <1>5 DEF LinkInv, Published
  <2>3. /\ OtherTracks(lt, lt', x, id)
        /\ LocalIs(lt[x][id], lt'[x][id], lt[x][id].ctx, TRUE, lt[x][id].answer)
    BY <1>5, <2>1 DEF OtherTracks, LocalIs
  <2> QED  BY <1>1, <1>3, <2>1, <2>2, <2>3, LateAgree
<1>6. CASE ~lt[x][id].handled /\ id \in lpending[x]
  <2>1. /\ lpending' = [lpending EXCEPT ![x] = lpending[x] \ {id}]
        /\ lt' = [lt EXCEPT ![x][id] = Handled(@, "error")]
        /\ Write(x, Msg(ErrorType(lt[x][id].kind), id))
        /\ failure' = failure \/ (conn = "down" /\ failure' = [failure EXCEPT ![x] = "writeFailed"])
    BY <1>0, <1>6 DEF HandlerReturn, Unhandled, PendingAfterReject, Return, WriteFails
  <2> QED  BY <1>1, <1>3, <1>4, <1>6, <2>1, DenyAgree
<1>7. CASE ~lt[x][id].handled /\ id \notin lpending[x]
  <2>1. /\ lpending' = [lpending EXCEPT ![x] = lpending[x] \ {id}]
        /\ lt' = [lt EXCEPT ![x][id] = Handled(@, lt[x][id].answer)]
        /\ UNCHANGED ctrl
        /\ failure' = [failure EXCEPT ![x] = "unknownRequestID"]
    BY <1>0, <1>7 DEF HandlerReturn, Unhandled, PendingAfterReject, Return
  <2>2. lpending' = lpending
    BY <1>7, <2>1 DEF TypeOK
  <2>3. /\ OtherTracks(lt, lt', x, id)
        /\ LocalIs(lt[x][id], lt'[x][id], lt[x][id].ctx, TRUE, lt[x][id].answer)
    BY <1>1, <1>2, <2>1, LocalMoves DEF LocalMove
  <2>4. /\ lt[x][id].kind # "none" /\ lt[x][id].answer = "none" /\ lt[x][id].ctx = "done"
        /\ id \notin Local(x)
    BY <1>2, <1>3, <1>7 DEF LinkInv, Published, Local
  <2>5. UnknownCause(x, id)'
    BY <1>3, <2>2, <2>3, <2>4 DEF UnknownCause, LocalIs, Local
  <2> QED  BY <1>1, <1>3, <1>4, <1>7, <2>1, <2>2, <2>3, <2>5, LateAgree
<1> QED  BY <1>5, <1>6, <1>7

\* Accept writes its answer.
LEMMA WriteAcceptAgree ==
    ASSUME TypeOK, TypeOK', RequestInv, AgreeInv, NEW x \in Endpoints, NEW id \in Ids,
           WriteAccept(x, id)
    PROVE  AgreeInv'
<1>0. PICK e : e = Peer(x)
  OBVIOUS
<1> DEFINE l == lt[x][id]
<1>1. /\ e \in Endpoints /\ x = Peer(e) /\ Peer(x) = e /\ x # e
      /\ PairInv(e, id) /\ LinkInv(e, id) /\ lt \in LocalTracks
      /\ rt[e][id].closes \in Nat /\ rt[e][id].updates \in Nat
  BY <1>0, PairFacts, TwoEnds
<1>2. /\ UNCHANGED <<rt, rpending, ropen, setup, conn, aliases, localMax>>
      /\ UNCHANGED <<handling, failure, lopen, lpending>>
      /\ lt[x][id].answer = "confirmed" /\ lt' = [lt EXCEPT ![x][id].answer = "ok"]
  BY DEF WriteAccept
<1>3. OtherTracks(lt, lt', x, id) /\ LocalIs(l, lt'[x][id], l.ctx, l.handled, "ok")
  BY <1>1, <1>2, LocalMoves DEF LocalMove
<1>4. OthersIn(lpending, lpending', x, id) /\ OthersIn(lopen, lopen', x, id)
  BY <1>2 DEF OthersIn
<1>5. PICK m : m = [type |-> OkType(lt[x][id].kind), id |-> id, val |-> OkAlias(x, id)]
  OBVIOUS
<1>6. /\ m \in Message /\ m.type = OkType(lt[x][id].kind) /\ m.id = id /\ Write(x, m)
  <2>1. OkAlias(x, id) \in Nat /\ OkType(lt[x][id].kind) \in MessageTypes
    BY DEF OkAlias, OkType, MessageTypes
  <2> QED  BY <1>5, <2>1 DEF WriteAccept, Message
<1>7. m.type \in Oks /\ (m.type = "SUBSCRIBE_OK" => lt[x][id].kind = "subscribe")
  BY <1>6 DEF OkType, Oks
<1>8. /\ m.type \in ForCaller /\ m.type \notin Requests /\ m.type \notin Followers
      /\ m.type \notin Dones /\ m.type \notin Errors
  BY <1>7, TrackedTypes DEF ForCaller
<1> HIDE DEF l
<1>9. MsgInv(e, m)'
  <2>1. m.type = "SUBSCRIBE_OK" => rt'[e][id].kind = "subscribe"
    BY <1>1, <1>2, <1>7 DEF LinkInv, KindsAgree
  <2>2. m.type # "SUBSCRIBE_UPDATE" /\ m.type \notin Closes
    BY <1>8 DEF Followers
  <2> QED  BY <1>6, <1>8, <2>1, <2>2 DEF MsgInv
<1>10. /\ failure'[e] = failure[e] /\ failure'[x] = failure[x]
  BY <1>2
<1>11. /\ CallerStill(e, id) /\ RequestsStill(e, id) /\ EndOnward(e) /\ EndOnward(x)
       /\ \A f \in Endpoints, i \in Ids : f # e \/ i # id => Idle(f, i)
       /\ \A f \in Endpoints : EndFrame(f)
  <2>1. WriterUsed(e, x, id)
    BY <1>1, <1>2, <1>3, <1>4, <1>6, <1>8, <1>9, <1>10 DEF WriterUsed, Speaks, Frees, Breaks
  <2> QED  BY <1>1, <2>1, WriterGround
<1>12. /\ (OkSent(e, id)' \/ Lost(e)') /\ (DoneSent(e, id) => DoneSent(e, id)')
       /\ ErrorSent(e, id)' => ErrorSent(e, id)
  BY <1>1, <1>2, <1>6, <1>7, <1>8, WriteHas DEF OkSent, DoneSent, ErrorSent, Lost
<1>13. LinkInv(e, id)' /\ PairOnward(e, id)
  <2>1. /\ id \in lpending'[x] <=> id \in lpending[x]
        /\ id \in lopen'[x] <=> id \in lopen[x]
        /\ handling'[x] = id <=> handling[x] = id
    BY <1>2
  <2> QED  BY <1>1, <1>2, <1>3, <1>11, <1>12, <2>1, AcceptedLink DEF l
<1> QED  BY <1>1, <1>11, <1>13, OnePair

\* CloseWithError.
LEMMA CloseWithErrorAgree ==
    ASSUME TypeOK, TypeOK', RequestInv, AgreeInv, NEW x \in Endpoints, NEW id \in Ids,
           CloseWithError(x, id)
    PROVE  AgreeInv'
<1>0. PICK e : e = Peer(x)
  OBVIOUS
<1> DEFINE l == lt[x][id]
<1>1. /\ e \in Endpoints /\ x = Peer(e) /\ Peer(x) = e /\ x # e
      /\ PairInv(e, id) /\ LinkInv(e, id) /\ lt \in LocalTracks
      /\ rt[e][id].closes \in Nat /\ rt[e][id].updates \in Nat
  BY <1>0, PairFacts, TwoEnds
<1>2. /\ UNCHANGED <<rt, rpending, ropen, setup, conn, aliases, localMax>>
      /\ UNCHANGED <<handling, failure>>
      /\ lt[x][id].kind = "subscribe" /\ id \in Local(x)
      /\ lt' = [lt EXCEPT ![x][id].ctx = Cancelled(lt[x][id].ctx, "done")]
      /\ lpending' = [lpending EXCEPT ![x] = @ \ {id}]
      /\ lopen' = [lopen EXCEPT ![x] = @ \ {id}]
  BY DEF CloseWithError
<1>3. /\ OtherTracks(lt, lt', x, id)
      /\ LocalIs(l, lt'[x][id], Cancelled(l.ctx, "done"), l.handled, l.answer)
  BY <1>1, <1>2, LocalMoves DEF LocalMove
<1>4. /\ OthersIn(lpending, lpending', x, id) /\ OthersIn(lopen, lopen', x, id)
      /\ id \notin lpending'[x] /\ id \notin lopen'[x]
  <2>1. lpending \in [Endpoints -> SUBSET Ids] /\ lopen \in [Endpoints -> SUBSET Ids]
    BY DEF TypeOK
  <2> QED  BY <1>2, <2>1, SetMoves
<1>5. PICK m : m = Msg("SUBSCRIBE_DONE", id)
  OBVIOUS
<1>6. /\ m \in Message /\ m.type = "SUBSCRIBE_DONE" /\ m.id = id /\ Write(x, m)
  BY <1>5, MsgType DEF MessageTypes, Msg, CloseWithError
<1>7. /\ m.type \in ForCaller /\ m.type \in Dones /\ m.type \notin Requests
      /\ m.type \notin Followers /\ m.type \notin Oks /\ m.type \notin Errors
  <2>1. m.type \in Dones
    BY <1>6 DEF Dones
  <2> QED  BY <2>1, TrackedTypes DEF ForCaller
<1> HIDE DEF l
<1>8. MsgInv(e, m)'
  <2>1. lt'[x][id].kind # "none" /\ lt'[x][id].ctx # "live"
    BY <1>2, <1>3 DEF LocalIs, Cancelled, l
  <2>2. lt'[x][id].answer # "error"
    BY <1>1, <1>2, <1>3 DEF LinkInv, Published, PairInv, Local, LocalIs, l
  <2>3. m.type # "SUBSCRIBE_UPDATE" /\ m.type \notin Closes /\ m.type # "SUBSCRIBE_OK"
    BY <1>6, <1>7 DEF Followers
  <2> QED  BY <1>1, <1>4, <1>6, <1>7, <2>1, <2>2, <2>3 DEF MsgInv
<1>9. /\ failure'[e] = failure[e] /\ failure'[x] = failure[x]
  BY <1>2
<1>10. /\ CallerStill(e, id) /\ RequestsStill(e, id) /\ EndOnward(e) /\ EndOnward(x)
       /\ \A f \in Endpoints, i \in Ids : f # e \/ i # id => Idle(f, i)
       /\ \A f \in Endpoints : EndFrame(f)
  <2>1. WriterUsed(e, x, id)
    BY <1>1, <1>2, <1>3, <1>4, <1>6, <1>7, <1>8, <1>9 DEF WriterUsed, Speaks, Frees, Breaks
  <2> QED  BY <1>1, <2>1, WriterGround
<1>11. /\ (DoneSent(e, id)' \/ Lost(e)') /\ (DoneSent(e, id) => DoneSent(e, id)')
       /\ OkSent(e, id) => OkSent(e, id)'
       /\ ErrorSent(e, id)' <=> ErrorSent(e, id)
  BY <1>1, <1>2, <1>6, <1>7, WriteHas DEF OkSent, DoneSent, ErrorSent, Lost
<1>12. LinkInv(e, id)' /\ PairOnward(e, id)
  <2>1. /\ id \in lopen'[x] => id \in lopen[x]
        /\ handling'[x] = id <=> handling[x] = id
        /\ "done" \in {"unsubscribed", "done"} /\ "done" # "unsubscribed"
    BY <1>2, <1>4
  <2> QED  BY <1>1, <1>2, <1>3, <1>4, <1>10, <1>11, <2>1, CloseLink DEF l
<1> QED  BY <1>1, <1>10, <1>12, OnePair

-----------------------------------------------------------------------------
(***************************************************************************)
(* Requests and their followers, handled by the reader.                    *)
(***************************************************************************)

\* What the reader of x leaves in flight to e, and whose handler it is in.
Leaves(e, id) ==
    \/ ctrl'[e] = ctrl[e]
    \/ \E n \in Message : /\ ctrl'[e] = Written(ctrl[e], n) /\ MsgInv(e, n)'
                          /\ n.type \notin ForPublisher
                          /\ n.type \notin ForCaller \/ n.id = id
Enters(x, id) ==
    \/ handling' = handling
    \/ handling' = [handling EXCEPT ![x] = id] /\ failure'[x] = "none"
Ends(x) == failure'[x] = failure[x] \/ Deaths(x)'

\* The reader of x takes a message about a request of e, and may write one.
RequestTaken(e, x, id, m) ==
    /\ x = Peer(e) /\ failure[x] = "none" /\ setup[x] = "done" /\ handling[x] = NoRequest
    /\ ctrl[x] # << >> /\ m = Head(ctrl[x]) /\ m.type \in ForPublisher /\ m.id = id
    /\ ctrl'[x] = Tail(ctrl[x]) /\ Leaves(e, id) /\ Enters(x, id) /\ Ends(x)
    /\ OtherTracks(lt, lt', x, id) /\ OthersIn(lpending, lpending', x, id)
    /\ OthersIn(lopen, lopen', x, id)
    /\ UNCHANGED <<rt, rpending, ropen, setup, conn, aliases>>
    /\ localMax'[e] = localMax[e] /\ failure'[e] = failure[e]

\* What holds of every step that reads a request, or what follows one.
LEMMA RequestGround ==
    ASSUME TypeOK, AgreeInv, NEW e \in Endpoints, NEW x, NEW id \in Ids, NEW m,
           RequestTaken(e, x, id, m)
    PROVE  /\ CallerStill(e, id) /\ EndOnward(e) /\ EndOnward(x)
           /\ \A f \in Endpoints, i \in Ids : f # e \/ i # id => Idle(f, i)
           /\ \A f \in Endpoints : EndFrame(f)
           /\ \A T : m.type \notin T => (Has(ctrl'[x], T, id) <=> Has(ctrl[x], T, id))
<1> USE DEF RequestTaken
<1>0. /\ x \in Endpoints /\ x # e /\ Peer(x) = e
      /\ \A f \in Endpoints : f = x \/ f = e
  BY TwoEnds
<1>00. ctrl[x] \in Seq(Message) /\ ctrl[e] \in Seq(Message)
  BY <1>0 DEF TypeOK
<1>1. /\ \A f \in Endpoints, i \in Ids : CallerStill(f, i)
      /\ \A f \in Endpoints, i \in Ids : f # e \/ i # id => PublisherStill(f, i)
  <2>1. \A i \in Ids : i # NoRequest
    BY ControlAssumption DEF Ids, NoRequest
  <2>2. \A f \in Endpoints, i \in Ids :
          f # x \/ i # id => (handling'[f] = i <=> handling[f] = i)
    <3>1. CASE handling' = handling
      BY <3>1
    <3>2. CASE handling' = [handling EXCEPT ![x] = id]
      <4>1. handling'[x] = id /\ \A f \in Endpoints : f # x => handling'[f] = handling[f]
        BY <1>0, <3>2 DEF TypeOK
      <4> QED  BY <2>1, <4>1
    <3> QED  BY <3>1, <3>2 DEF Enters
  <2> QED  BY <2>2, AllStill, PublishersStill
<1>2. /\ \A i \in Ids : RequestsPass(ctrl[e], ctrl'[e], i, failure'[e] # "none")
      /\ \A i \in Ids : i # id => AnswersPass(ctrl[e], ctrl'[e], i, failure'[e] # "none")
      /\ TruthWritten(e)
  <2>1. CASE ctrl'[e] = ctrl[e]
    BY <2>1 DEF RequestsPass, AnswersPass, TruthWritten, From
  <2>2. ASSUME NEW n \in Message, ctrl'[e] = Written(ctrl[e], n), MsgInv(e, n)',
               n.type \notin ForPublisher, n.type \notin ForCaller \/ n.id = id
        PROVE  <1>2!:
    <3>1. FromOr(ctrl[e], ctrl'[e], n)
      BY <1>00, <2>2, FromSteps
    <3>2. TruthWritten(e)
      BY <2>2, <3>1 DEF TruthWritten
    <3> QED  BY <1>00, <2>2, <3>2, PassWritten
  <2> QED  BY <2>1, <2>2 DEF Leaves
<1>3. /\ \A f \in Endpoints, i \in Ids : f # e \/ i # id => RequestsStill(f, i)
      /\ \A f \in Endpoints, i \in Ids : f # e \/ i # id => AnswersStill(f, i)
      /\ From(ctrl[x], ctrl'[x])
  <2>1. m.type \notin ForCaller
    BY TrackedTypes
  <2> QED  BY <1>0, <1>2, <2>1, ReadStill
<1>4. ASSUME NEW f \in Endpoints
      PROVE  EndFrame(f)
  <2>1. HandlerEnd(f)
    BY DEF AgreeInv
  <2>2. \/ handling'[f] = handling[f]
        \/ f = x /\ failure'[f] = "none"
    BY <1>0 DEF Enters, TypeOK
  <2>3. /\ failure'[f] = failure[f] \/ Deaths(f)'
        /\ f = e => failure'[f] = failure[f] /\ localMax'[f] = localMax[f]
    BY <1>0 DEF Ends
  <2>4. EndOnward(f)
    BY <1>0, <2>3 DEF EndOnward
  <2>5. HandlerEnd(f)'
    BY <1>0, <2>1, <2>2, <2>3 DEF HandlerEnd
  <2>6. TruthWritten(f)
    BY <1>0, <1>2, <1>3 DEF TruthWritten
  <2> QED  BY <2>3, <2>4, <2>5, <2>6 DEF EndFrame
<1>5. EndOnward(e) /\ EndOnward(x)
  BY <1>0, <1>4 DEF EndFrame
<1>6. ASSUME NEW T
      PROVE  m.type \notin T => (Has(ctrl'[x], T, id) <=> Has(ctrl[x], T, id))
  BY <1>00, HasTail
<1> QED  BY <1>1, <1>3, <1>4, <1>5, <1>6 DEF Idle, FlightStill

\* UNSUBSCRIBE and FETCH_CANCEL.
LEMMA FollowerAgree ==
    ASSUME TypeOK, TypeOK', RequestInv, AgreeInv, NEW x \in Endpoints,
           OnUnsubscribe(x) \/ OnFetchCancel(x)
    PROVE  AgreeInv'
<1>0. PICK e : e = Peer(x)
  OBVIOUS
<1>00. PICK m : m = Head(ctrl[x])
  OBVIOUS
<1>000. PICK id : id = m.id
  OBVIOUS
<1> DEFINE l == lt[x][id]
<1>1. /\ ReaderIdle(x) /\ setup[x] = "done" /\ ctrl[x] # << >> /\ m.type \in Closes
      /\ id \in Local(x)
  BY <1>00, <1>000 DEF OnUnsubscribe, OnFetchCancel, Reading, NextIs, Closes
<1>2. id \in Ids /\ MsgInv(x, m)
  BY <1>00, <1>000, <1>1, NextMessage
<1>3. /\ e \in Endpoints /\ x = Peer(e) /\ Peer(x) = e /\ x # e
      /\ PairInv(e, id) /\ LinkInv(e, id) /\ lt \in LocalTracks
      /\ rt[e][id].closes \in Nat /\ rt[e][id].updates \in Nat
  BY <1>0, <1>2, PairFacts, TwoEnds
<1>4. /\ UNCHANGED <<rt, rpending, ropen, setup, conn, aliases>>
      /\ UNCHANGED <<handling, failure, localMax>>
      /\ lt' = [lt EXCEPT ![x][id].ctx = Cancelled(lt[x][id].ctx, "unsubscribed")]
      /\ \/ UNCHANGED <<lpending, lopen>>
         \/ /\ lpending' = [lpending EXCEPT ![x] = @ \ {id}]
            /\ lopen' = [lopen EXCEPT ![x] = @ \ {id}]
      /\ Consume(x)
  BY <1>00, <1>000 DEF OnUnsubscribe, OnFetchCancel
<1>5. /\ OtherTracks(lt, lt', x, id)
      /\ LocalIs(l, lt'[x][id], Cancelled(l.ctx, "unsubscribed"), l.handled, l.answer)
  BY <1>2, <1>3, <1>4, LocalMoves DEF LocalMove
<1>6. /\ failure[x] = "none" /\ handling[x] = NoRequest /\ id # NoRequest
  BY <1>1, <1>2, ControlAssumption DEF ReaderIdle, Ids, NoRequest
<1>7. id \notin lpending[x]
  BY <1>3, <1>6 DEF LinkInv, Published
<1>8. /\ OthersIn(lpending, lpending', x, id) /\ OthersIn(lopen, lopen', x, id)
      /\ id \notin lpending'[x] /\ (id \in lopen'[x] => id \in lopen[x])
  <2>1. lpending \in [Endpoints -> SUBSET Ids] /\ lopen \in [Endpoints -> SUBSET Ids]
    BY DEF TypeOK
  <2>2. CASE UNCHANGED <<lpending, lopen>>
    BY <1>7, <2>2 DEF OthersIn
  <2>3. CASE /\ lpending' = [lpending EXCEPT ![x] = @ \ {id}]
             /\ lopen' = [lopen EXCEPT ![x] = @ \ {id}]
    BY <1>2, <2>1, <2>3, SetMoves
  <2> QED  BY <1>4, <2>2, <2>3
<1>9. /\ m.type \in ForPublisher /\ m.type \notin ForCaller
      /\ ctrl'[x] = Tail(ctrl[x]) /\ ctrl'[e] = ctrl[e]
  <2>1. m.type \in ForPublisher
    BY <1>1 DEF ForPublisher, Followers
  <2>2. m.type \notin ForCaller
    BY <2>1, TrackedTypes
  <2>3. Consume(x)
    BY <1>4
  <2> QED  BY <1>3, <2>1, <2>2, <2>3 DEF Consume, TypeOK
<1>10. /\ failure'[e] = failure[e] /\ Ends(x) /\ localMax'[e] = localMax[e]
       /\ Leaves(e, id) /\ Enters(x, id)
       /\ UNCHANGED <<rt, rpending, ropen, setup, conn, aliases>>
  BY <1>4, <1>9 DEF Ends, Leaves, Enters
<1> HIDE DEF l
<1>11. /\ CallerStill(e, id) /\ EndOnward(e) /\ EndOnward(x)
       /\ \A f \in Endpoints, i \in Ids : f # e \/ i # id => Idle(f, i)
       /\ \A f \in Endpoints : EndFrame(f)
  <2>1. RequestTaken(e, x, id, m)
    BY <1>00, <1>000, <1>1, <1>3, <1>5, <1>6, <1>8, <1>9, <1>10 DEF RequestTaken
  <2> QED  BY <1>2, <1>3, <2>1, RequestGround
<1>12. /\ (OkSent(e, id)' <=> OkSent(e, id)) /\ (DoneSent(e, id)' <=> DoneSent(e, id))
       /\ (ErrorSent(e, id)' <=> ErrorSent(e, id))
  BY <1>9 DEF OkSent, DoneSent, ErrorSent
<1>13. Ending(e, id)
  BY <1>000, <1>1, <1>2, <1>3 DEF MsgInv
<1>14. LinkInv(e, id)' /\ PairOnward(e, id)
  <2>1. /\ handling'[x] = id <=> handling[x] = id
        /\ "unsubscribed" \in {"unsubscribed", "done"} /\ "unsubscribed" # "done"
    BY <1>4
  <2> QED  BY <1>1, <1>2, <1>3, <1>5, <1>7, <1>8, <1>11, <1>12, <1>13, <2>1, CloseLink DEF l
<1> QED  BY <1>2, <1>3, <1>11, <1>14, OnePair

\* SUBSCRIBE_UPDATE.
LEMMA OnUpdateAgree ==
    ASSUME TypeOK, TypeOK', RequestInv, AgreeInv, NEW x \in Endpoints, OnSubscribeUpdate(x)
    PROVE  AgreeInv'
<1>0. PICK e : e = Peer(x)
  OBVIOUS
<1>00. PICK m : m = Head(ctrl[x])
  OBVIOUS
<1>000. PICK id : id = m.id
  OBVIOUS
<1>1. /\ ReaderIdle(x) /\ setup[x] = "done" /\ ctrl[x] # << >> /\ m.type = "SUBSCRIBE_UPDATE"
  BY <1>00 DEF OnSubscribeUpdate, Reading, NextIs
<1>2. id \in Ids
  BY <1>00, <1>000, <1>1, NextMessage
<1>3. e \in Endpoints /\ x = Peer(e) /\ x # e
  BY <1>0, TwoEnds
<1>4. /\ UNCHANGED <<rt, rpending, ropen, setup, conn, aliases>>
      /\ UNCHANGED <<handling, failure, localMax, lt, lpending, lopen>>
      /\ Consume(x)
  BY DEF OnSubscribeUpdate, trackVars
<1>5. /\ OtherTracks(lt, lt', x, id)
      /\ OthersIn(lpending, lpending', x, id) /\ OthersIn(lopen, lopen', x, id)
  BY <1>4 DEF OtherTracks, OthersIn
<1>6. failure[x] = "none" /\ handling[x] = NoRequest
  BY <1>1 DEF ReaderIdle
<1>7. /\ m.type \in ForPublisher /\ m.type \notin Requests \cup Closes
      /\ ctrl'[x] = Tail(ctrl[x]) /\ ctrl'[e] = ctrl[e]
  <2>1. m.type \in ForPublisher /\ m.type \notin Requests \cup Closes
    BY <1>1 DEF ForPublisher, Followers, Requests, Closes
  <2> QED  BY <1>3, <1>4, <2>1 DEF Consume, TypeOK
<1>8. /\ failure'[e] = failure[e] /\ Ends(x) /\ localMax'[e] = localMax[e]
      /\ Leaves(e, id) /\ Enters(x, id)
  BY <1>4, <1>7 DEF Ends, Leaves, Enters
<1>9. /\ CallerStill(e, id)
      /\ \A f \in Endpoints, i \in Ids : f # e \/ i # id => Idle(f, i)
      /\ \A f \in Endpoints : EndFrame(f)
  <2>1. RequestTaken(e, x, id, m)
    BY <1>00, <1>000, <1>1, <1>3, <1>4, <1>5, <1>6, <1>7, <1>8 DEF RequestTaken
  <2> QED  BY <1>2, <1>3, <2>1, RequestGround
<1>10. Idle(e, id)
  <2>1. PublisherStill(e, id)
    BY <1>2, <1>3, <1>4, AllStill
  <2>2. AnswersStill(e, id)
    BY <1>7 DEF AnswersStill, AnswersPass
  <2>3. RequestsStill(e, id)
    <3>1. ctrl[x] \in Seq(Message) /\ (failure'[x] # "none") \in BOOLEAN
      BY DEF TypeOK
    <3>2. RequestsPass(ctrl[x], Tail(ctrl[x]), id, failure'[x] # "none")
      BY <1>00, <1>1, <1>7, <3>1, PassTail
    <3> QED  BY <1>3, <1>7, <3>2 DEF RequestsStill
  <2> QED  BY <1>9, <2>1, <2>2, <2>3 DEF Idle, FlightStill
<1> QED  BY <1>2, <1>3, <1>9, <1>10, OnePair

\* The request that the reader of x takes, which it has not met before.
LEMMA RequestMet ==
    ASSUME TypeOK, RequestInv, AgreeInv, NEW x \in Endpoints, ctrl[x] # << >>,
           NEW m, m = Head(ctrl[x]), m.type \in Requests, NEW e, e = Peer(x)
    PROVE  /\ m \in Message /\ m.id \in Ids /\ Asked(e, m.id) /\ m.id \notin Local(x)
           /\ m.type = RequestType(rt[e][m.id].kind) /\ rt[e][m.id].kind \in {"subscribe", "fetch"}
           /\ m.val = 1 => rt[e][m.id].badNamespace
           /\ e \in Endpoints /\ x = Peer(e) /\ Peer(x) = e /\ x # e
           /\ PairInv(e, m.id) /\ LinkInv(e, m.id) /\ lt \in LocalTracks
           /\ rt[e][m.id].closes \in Nat /\ rt[e][m.id].updates \in Nat
<1>0. e \in Endpoints /\ x = Peer(e) /\ Peer(x) = e /\ x # e
  BY TwoEnds
<1>1. m \in Message /\ m.id \in Ids /\ MsgInv(x, m) /\ Has(ctrl[x], Requests, m.id)
  BY NextMessage
<1>2. /\ PairInv(e, m.id) /\ LinkInv(e, m.id) /\ lt \in LocalTracks
      /\ rt[e][m.id].closes \in Nat /\ rt[e][m.id].updates \in Nat
      /\ rt[e][m.id].kind \in Kinds
  BY <1>0, <1>1, PairFacts, TrackTypes
<1>3. Asked(e, m.id)
  BY <1>0, <1>1 DEF Asked
<1>4. m.id \notin Local(x)
  BY <1>0, <1>2, <1>3 DEF PairInv
<1>5. /\ m.type = RequestType(rt[e][m.id].kind) /\ rt[e][m.id].call # "none"
      /\ m.val = 1 => rt[e][m.id].badNamespace
  BY <1>0, <1>1 DEF MsgInv
<1>6. rt[e][m.id].kind \in {"subscribe", "fetch"}
  BY <1>2, <1>5 DEF LinkInv, KindsAgree, Kinds
<1> QED  BY <1>0, <1>1, <1>2, <1>3, <1>4, <1>5, <1>6

\* A SUBSCRIBE or FETCH is filed and goes to the application.
LEMMA AdmitAgree ==
    ASSUME TypeOK, TypeOK', RequestInv, AgreeInv, NEW x \in Endpoints,
           NEW kind \in {"subscribe", "fetch"}, OnRequest(x, kind)
    PROVE  AgreeInv'
<1>0. PICK e : e = Peer(x)
  OBVIOUS
<1>00. PICK m : m = Head(ctrl[x])
  OBVIOUS
<1>000. PICK id : id = m.id
  OBVIOUS
<1>s. PICK s : s = [NoLocalTrack EXCEPT !.kind = kind, !.alias = nextAlias[x]]
  OBVIOUS
<1>1. /\ ReaderIdle(x) /\ setup[x] = "done" /\ ctrl[x] # << >> /\ m.type = RequestType(kind)
      /\ m.type \in Requests
  BY <1>00 DEF OnRequest, Reading, NextIs, RequestType, Requests
<1>2. /\ id \in Ids /\ Asked(e, id)
      /\ m.type = RequestType(rt[e][id].kind) /\ rt[e][id].kind \in {"subscribe", "fetch"}
      /\ e \in Endpoints /\ x = Peer(e) /\ Peer(x) = e /\ x # e
      /\ PairInv(e, id) /\ LinkInv(e, id) /\ lt \in LocalTracks
      /\ rt[e][id].closes \in Nat /\ rt[e][id].updates \in Nat
  BY <1>0, <1>00, <1>000, <1>1, RequestMet
<1>3. rt[e][id].kind = kind
  BY <1>1, <1>2 DEF RequestType
<1>4. /\ UNCHANGED <<rt, rpending, ropen, setup, conn, aliases>>
      /\ UNCHANGED <<failure, lopen>>
      /\ localMax' = [localMax EXCEPT ![x] = LimitAfter(x, id)]
      /\ lpending' = [lpending EXCEPT ![x] = @ \cup {id}]
      /\ handling' = [handling EXCEPT ![x] = id]
  BY <1>00, <1>000 DEF OnRequest
<1>5. lt' = [lt EXCEPT ![x][id] = s] /\ ConsumeAndLeave(x, AnnounceLimit(x, id))
  BY <1>00, <1>000, <1>s DEF OnRequest
<1>6. OtherTracks(lt, lt', x, id) /\ lt'[x][id] = s
  <2>0. id \in Ids /\ lt \in LocalTracks
    BY <1>2
  <2>1. /\ [lt EXCEPT ![x][id] = s][x][id] = s
        /\ OtherTracks(lt, [lt EXCEPT ![x][id] = s], x, id)
    BY <2>0, OneReplaced
  <2>2. lt' = [lt EXCEPT ![x][id] = s]
    BY <1>5
  <2> QED  BY <2>1, <2>2, Zenon
<1>7. s.kind = kind /\ s.ctx = "live" /\ ~s.handled /\ s.answer = "none"
  BY <1>s DEF NoLocalTrack
<1>8. ctrl'[x] = Tail(ctrl[x]) /\ ctrl'[e] = AnnounceLimit(x, id)
  BY <1>2, <1>5 DEF ConsumeAndLeave, TypeOK
<1>9. /\ OthersIn(lpending, lpending', x, id) /\ OthersIn(lopen, lopen', x, id)
      /\ id \in lpending'[x]
  <2>1. lpending \in [Endpoints -> SUBSET Ids]
    BY DEF TypeOK
  <2>2. OthersIn(lpending, lpending', x, id) /\ id \in lpending'[x]
    BY <1>2, <1>4, <2>1, SetMoves
  <2> QED  BY <1>4, <2>2 DEF OthersIn
<1>10. AnswersStill(e, id) /\ Leaves(e, id)
  <2>1. ctrl[e] \in Seq(Message)
    BY <1>2 DEF TypeOK
  <2>2. CASE ctrl'[e] = ctrl[e]
    BY <2>2 DEF AnswersStill, AnswersPass, Leaves
  <2>3. CASE RaisesLimit(x, id)
    <3>1. PICK n : n = LimitMsg("MAX_REQUEST_ID", 2 * localMax[x])
      OBVIOUS
    <3>2. n \in Message /\ n.type = "MAX_REQUEST_ID"
      <4>1. localMax[x] \in Nat /\ 0 \in Ids /\ "MAX_REQUEST_ID" \in MessageTypes
        BY ControlAssumption DEF TypeOK, Ids, MessageTypes
      <4> QED  BY <3>1, <4>1 DEF LimitMsg, Message
    <3>3. /\ n.type \notin ForPublisher /\ n.type \notin ForCaller
          /\ n.type \notin Dones /\ n.type # "SUBSCRIBE_OK"
      BY <3>2, TrackedTypes DEF Grants, Dones
    <3>4. ctrl'[e] = Written(ctrl[e], n)
      BY <1>0, <1>8, <2>3, <3>1 DEF AnnounceLimit
    <3>5. AnswersStill(e, id)
      BY <2>1, <3>2, <3>3, <3>4, PassWritten DEF AnswersStill
    <3>6. MsgInv(e, n)'
      BY <3>3, SilentMessage
    <3> QED  BY <3>2, <3>3, <3>4, <3>5, <3>6 DEF Leaves
  <2> QED  BY <1>0, <1>8, <2>2, <2>3 DEF AnnounceLimit
<1>11. /\ failure[x] = "none" /\ handling[x] = NoRequest /\ m.type \in ForPublisher
       /\ m.type \notin Closes
  BY <1>1, TrackedTypes DEF ReaderIdle, ForPublisher, Followers
<1>12. /\ failure'[e] = failure[e] /\ localMax'[e] = localMax[e] /\ Ends(x) /\ Enters(x, id)
       /\ handling'[x] = id
  BY <1>2, <1>4, <1>11 DEF Ends, Enters, TypeOK
<1>13. /\ CallerStill(e, id) /\ EndOnward(e) /\ EndOnward(x)
       /\ \A f \in Endpoints, i \in Ids : f # e \/ i # id => Idle(f, i)
       /\ \A f \in Endpoints : EndFrame(f)
       /\ \A T : m.type \notin T => (Has(ctrl'[x], T, id) <=> Has(ctrl[x], T, id))
  <2>1. RequestTaken(e, x, id, m)
    BY <1>00, <1>000, <1>1, <1>2, <1>4, <1>6, <1>8, <1>9, <1>10, <1>11, <1>12 DEF RequestTaken
  <2> QED  BY <1>2, <2>1, RequestGround
<1>14. CloseSent(e, id) => CloseSent(e, id)'
  BY <1>2, <1>11, <1>13 DEF CloseSent
<1>15. LinkInv(e, id)' /\ PairOnward(e, id)
  <2>1. id \in lopen'[x] <=> id \in lopen[x]
    BY <1>4
  <2> QED  BY <1>2, <1>3, <1>6, <1>7, <1>9, <1>10, <1>12, <1>13, <1>14, <2>1, AdmitLink
<1> QED  BY <1>2, <1>13, <1>15, OnePair

\* A SUBSCRIBE that is refused is over the limit, and is answered with an error.
LEMMA RefuseAgree ==
    ASSUME TypeOK, TypeOK', RequestInv, AgreeInv, NEW x \in Endpoints, RefuseSubscribe(x)
    PROVE  AgreeInv'
<1>0. PICK e : e = Peer(x)
  OBVIOUS
<1>00. PICK m : m = Head(ctrl[x])
  OBVIOUS
<1>000. PICK id : id = m.id
  OBVIOUS
<1>1. /\ ReaderIdle(x) /\ setup[x] = "done" /\ ctrl[x] # << >> /\ m.type = "SUBSCRIBE"
      /\ m.type \in Requests /\ ~Admissible(x, id)
  BY <1>00, <1>000 DEF RefuseSubscribe, Reading, NextIs, Requests
<1>2. /\ id \in Ids /\ Asked(e, id) /\ id \notin Local(x)
      /\ m.type = RequestType(rt[e][id].kind) /\ rt[e][id].kind \in {"subscribe", "fetch"}
      /\ e \in Endpoints /\ x = Peer(e) /\ Peer(x) = e /\ x # e
      /\ PairInv(e, id) /\ LinkInv(e, id)
      /\ rt[e][id].closes \in Nat /\ rt[e][id].updates \in Nat
  BY <1>0, <1>00, <1>000, <1>1, RequestMet
<1>3. rt[e][id].kind = "subscribe"
  BY <1>1, <1>2 DEF RequestType
<1>4. LimitAfter(x, id) = localMax[x] /\ AnnounceLimit(x, id) = ctrl[e]
  BY <1>0, <1>1, <1>2 DEF Admissible, LimitAfter, AnnounceLimit, RaisesLimit
<1>5. /\ UNCHANGED <<rt, rpending, ropen, setup, conn, aliases>>
      /\ UNCHANGED <<handling, lopen, lpending, lt>>
      /\ localMax' = [localMax EXCEPT ![x] = LimitAfter(x, id)]
      /\ failure' = failure \/ (conn = "down" /\ Return(x, "writeFailed"))
  BY <1>00, <1>000 DEF RefuseSubscribe, WriteFails
<1>6. PICK n : n = Msg("SUBSCRIBE_ERROR", id)
  OBVIOUS
<1>7. n \in Message /\ n.type = "SUBSCRIBE_ERROR" /\ n.id = id
  BY <1>2, <1>6, MsgType DEF MessageTypes, Msg
<1>8. /\ n.type \notin ForPublisher /\ n.type \notin Oks /\ n.type \in Errors
      /\ n.type \notin Dones /\ n.type # "SUBSCRIBE_OK"
  <2>1. n.type \in Errors
    BY <1>7 DEF Errors
  <2> QED  BY <1>7, <2>1, TrackedTypes DEF ForCaller
<1>9. ctrl'[x] = Tail(ctrl[x]) /\ ctrl'[e] = Written(ctrl[e], n)
  <2>1. ConsumeAndLeave(x, Written(AnnounceLimit(x, id), n))
    BY <1>00, <1>000, <1>6 DEF RefuseSubscribe
  <2> QED  BY <1>2, <1>4, <2>1 DEF ConsumeAndLeave, TypeOK
<1>10. Leaves(e, id)
  <2>1. MsgInv(e, n)'
    BY <1>8, SilentMessage
  <2> QED  BY <1>7, <1>8, <1>9, <2>1 DEF Leaves
<1>11. /\ failure[x] = "none" /\ handling[x] = NoRequest /\ m.type \in ForPublisher
  BY <1>1 DEF ReaderIdle, ForPublisher
<1>12. failure'[e] = failure[e] /\ localMax'[e] = localMax[e] /\ Ends(x) /\ Enters(x, id)
  <2>1. localMax'[e] = localMax[e] /\ Enters(x, id)
    BY <1>2, <1>5 DEF Enters, TypeOK
  <2>2. CASE failure' = failure
    BY <2>1, <2>2 DEF Ends
  <2>3. CASE conn = "down" /\ Return(x, "writeFailed")
    <3>1. failure'[x] = "writeFailed" /\ failure'[e] = failure[e] /\ conn' = "down"
      BY <1>2, <1>5, <2>3 DEF Return, TypeOK
    <3>2. Deaths(x)'
      BY <3>1 DEF Deaths
    <3> QED  BY <2>1, <3>1, <3>2 DEF Ends
  <2> QED  BY <1>5, <2>2, <2>3
<1>13. OtherTracks(lt, lt', x, id) /\ OthersIn(lpending, lpending', x, id)
       /\ OthersIn(lopen, lopen', x, id) /\ PublisherStill(e, id)
  BY <1>5 DEF OtherTracks, OthersIn, PublisherStill
<1>14. /\ CallerStill(e, id) /\ EndOnward(e) /\ EndOnward(x)
       /\ \A f \in Endpoints, i \in Ids : f # e \/ i # id => Idle(f, i)
       /\ \A f \in Endpoints : EndFrame(f)
  <2>1. RequestTaken(e, x, id, m)
    BY <1>00, <1>000, <1>1, <1>2, <1>5, <1>9, <1>10, <1>11, <1>12, <1>13 DEF RequestTaken
  <2> QED  BY <1>2, <2>1, RequestGround
<1>15. /\ ErrorSent(e, id)' \/ Lost(e)'
       /\ OkSent(e, id) => OkSent(e, id)'
       /\ DoneSent(e, id) => DoneSent(e, id)'
  <2>1. ctrl[e] \in Seq(Message) /\ conn \in {"up", "down"} /\ conn' = conn
    BY <1>2, <1>5 DEF TypeOK
  <2>2. CASE conn = "down"
    BY <1>9, <2>1, <2>2 DEF Written, Lost, OkSent, DoneSent
  <2>3. CASE conn = "up"
    <3>1. ctrl'[e] = Append(ctrl[e], n)
      BY <1>9, <2>3 DEF Written
    <3> QED  BY <1>7, <1>8, <2>1, <3>1, HasAppend DEF OkSent, DoneSent, ErrorSent
  <2> QED  BY <2>1, <2>2, <2>3
<1>16. LinkInv(e, id)' /\ PairOnward(e, id)
  BY <1>2, <1>3, <1>13, <1>14, <1>15, RefuseLink
<1> QED  BY <1>2, <1>14, <1>16, OnePair

-----------------------------------------------------------------------------
(***************************************************************************)
(* The end of a reader, and the control plane.                             *)
(***************************************************************************)

\* The tracks are left alone.
TracksStill ==
    UNCHANGED <<rt, rpending, ropen, lt, lpending, lopen, handling, aliases>>

\* The reader of x ends, with the message that it takes or without one.
LEMMA LossAgree ==
    ASSUME TypeOK, TypeOK', AgreeInv, NEW x \in Endpoints, NEW err,
           failure[x] = "none", handling[x] = NoRequest, err # "none",
           Return(x, err), Deaths(x)', TracksStill, UNCHANGED <<setup, conn, localMax>>,
           \/ UNCHANGED ctrl
           \/ ctrl[x] # << >> /\ (Consume(x) \/ ConsumeAndLeave(x, ctrl[Peer(x)]))
    PROVE  AgreeInv'
<1>1. failure'[x] = err /\ \A f \in Endpoints : f # x => failure'[f] = failure[f]
  BY DEF Return, TypeOK
<1>2. /\ \A f \in Endpoints, i \in Ids : CallerStill(f, i) /\ PublisherStill(f, i)
  BY AllStill DEF TracksStill
<1>3. /\ \A f \in Endpoints, i \in Ids : FlightStill(f, i)
      /\ \A f \in Endpoints : From(ctrl[f], ctrl'[f])
  <2>1. CASE UNCHANGED ctrl
    BY <2>1, AllStill DEF FlightStill
  <2>2. CASE ctrl[x] # << >> /\ (Consume(x) \/ ConsumeAndLeave(x, ctrl[Peer(x)]))
    <3>1. failure'[x] # "none"
      BY <1>1
    <3> QED  BY <2>2, <3>1, ConsumeStill DEF FlightStill
  <2> QED  BY <2>1, <2>2
<1>4. ASSUME NEW f \in Endpoints
      PROVE  EndFrame(f)
  <2>1. HandlerEnd(f)
    BY DEF AgreeInv
  <2>2. failure'[f] = failure[f] \/ (f = x /\ Deaths(f)')
    BY <1>1
  <2>3. EndOnward(f) /\ HandlerEnd(f)'
    BY <1>1, <2>1 DEF EndOnward, HandlerEnd, TracksStill
  <2> QED  BY <1>3, <2>2, <2>3 DEF EndFrame, TruthWritten, TracksStill
<1> QED  BY <1>2, <1>3, <1>4, NoPair DEF Idle

\* What is left in flight when a message that is not about a track is taken, or written.
ControlFlow ==
    \/ UNCHANGED ctrl
    \/ \E x \in Endpoints :
         /\ ctrl[x] # << >> /\ Consume(x)
         /\ Head(ctrl[x]).type \notin ForPublisher /\ Head(ctrl[x]).type \notin ForCaller
    \/ \E x \in Endpoints, m \in Message :
         /\ Write(x, m) /\ m.type \notin ForPublisher /\ m.type \notin ForCaller

\* A step that leaves all tracks alone and writes or reads only control messages of other
\* kinds.
LEMMA ControlAgree ==
    ASSUME TypeOK, TypeOK', AgreeInv, TracksStill, UNCHANGED <<failure, localMax>>,
           conn' = conn \/ conn' = "down",
           \A f \in Endpoints : setup[f] = "done" => setup'[f] = "done",
           ControlFlow
    PROVE  AgreeInv'
<1>1. /\ \A f \in Endpoints, i \in Ids : CallerStill(f, i) /\ PublisherStill(f, i)
  BY AllStill DEF TracksStill
<1>2. /\ \A f \in Endpoints, i \in Ids : FlightStill(f, i)
      /\ \A f \in Endpoints : TruthWritten(f)
  <2>1. CASE UNCHANGED ctrl
    BY <2>1, AllStill DEF FlightStill, TruthWritten
  <2>2. ASSUME NEW x \in Endpoints, ctrl[x] # << >>, Consume(x),
               Head(ctrl[x]).type \notin ForPublisher, Head(ctrl[x]).type \notin ForCaller
        PROVE  <1>2!:
    BY <2>2, ConsumeStill DEF FlightStill, TruthWritten
  <2>3. ASSUME NEW x \in Endpoints, NEW m \in Message, Write(x, m),
               m.type \notin ForPublisher, m.type \notin ForCaller
        PROVE  <1>2!:
    <3>1. m.type \notin Dones /\ m.type # "SUBSCRIBE_OK"
      BY <2>3 DEF ForCaller, Oks
    <3>2. MsgInv(Peer(x), m)'
      BY <2>3, <3>1, SilentMessage
    <3>3. \A f \in Endpoints : TruthWritten(f)
      BY <2>3, <3>2, WriteFrame
    <3> QED  BY <2>3, <3>3, WriteStill DEF FlightStill
  <2> QED  BY <2>1, <2>2, <2>3 DEF ControlFlow
<1>3. ASSUME NEW f \in Endpoints
      PROVE  EndFrame(f)
  <2>1. HandlerEnd(f)
    BY DEF AgreeInv
  <2>2. EndOnward(f) /\ HandlerEnd(f)'
    BY <2>1 DEF EndOnward, HandlerEnd, TracksStill
  <2> QED  BY <1>2, <2>2 DEF EndFrame, TracksStill
<1> QED  BY <1>1, <1>2, <1>3, NoPair DEF Idle

\* A request that a handler does not find has been given up, or has ended.
LEMMA UnfiledCause ==
    ASSUME TypeOK, RequestInv, AgreeInv, NEW x \in Endpoints, failure[x] = "none",
           ctrl[x] # << >>, NEW m, m = Head(ctrl[x]), Unfiled(x, m)
    PROVE  m.id \in Ids /\ UnknownCause(x, m.id)
<1>0. PICK e : e = Peer(x)
  OBVIOUS
<1>00. PICK id : id = m.id
  OBVIOUS
<1>1. /\ m \in Message /\ id \in Ids /\ MsgInv(x, m)
      /\ \A T : m.type \in T => Has(ctrl[x], T, id)
  BY <1>00, NextMessage
<1>2. /\ e \in Endpoints /\ x = Peer(e) /\ Peer(x) = e
      /\ PairInv(e, id) /\ LinkInv(e, id) /\ PairInv(x, id) /\ LinkInv(x, id)
      /\ rt[e][id].closes \in Nat /\ rt[e][id].updates \in Nat
  BY <1>0, <1>1, PairFacts, TwoEnds
<1>3. CASE m.type \in Oks \cup Errors /\ id \notin rpending[x]
  <2>1. OkSent(x, id) \/ ErrorSent(x, id)
    BY <1>1, <1>3 DEF OkSent, ErrorSent
  <2>2. rt[x][id].call = "cancelled"
    BY <1>2, <1>3, <2>1 DEF PairInv, Underway, Unanswered, Live
  <2> QED  BY <1>00, <1>1, <2>2 DEF UnknownCause
<1>4. CASE m.type \in Dones /\ id \notin Remote(x)
  <2>1. lt[e][id].kind # "none" /\ lt[e][id].answer # "error"
    BY <1>0, <1>00, <1>1, <1>4 DEF MsgInv
  <2>2. rt[x][id].call = "cancelled"
    BY <1>0, <1>2, <1>4, <2>1 DEF LinkInv, Learned
  <2> QED  BY <1>00, <1>1, <2>2 DEF UnknownCause
<1>5. CASE m.type \in Followers /\ id \notin Local(x)
  <2>1. ~Follows(ctrl[x], id)
    <3>1. ctrl[x] \in Seq(Message)
      BY DEF TypeOK
    <3>2. Len(ctrl[x]) \in Nat /\ Len(ctrl[x]) >= 1 /\ m = ctrl[x][1]
      BY <3>1, TailElements
    <3>3. 1 \in 1 .. Len(ctrl[x]) /\ ~\E i \in 1 .. Len(ctrl[x]) : i < 1
      BY <3>2
    <3> QED  BY <1>00, <1>5, <3>2, <3>3 DEF Follows
  <2>2. lt[x][id].kind # "none"
    <3>1. lt[x][id].kind # "none" \/ rt[e][id].kind = "fetch"
      BY <1>0, <1>00, <1>1, <1>5 DEF MsgInv
    <3>2. Ordered(e, id)
      BY <1>2 DEF LinkInv
    <3> QED  BY <1>2, <2>1, <3>1, <3>2 DEF Ordered
  <2>3. Ending(e, id) \/ rt[e][id].updates > 0
    BY <1>0, <1>00, <1>1, <1>5 DEF MsgInv, Followers
  <2>4. \/ rt[e][id].closes + rt[e][id].updates > 0
        \/ rt[e][id].kind = "fetch" /\ rt[e][id].call \in {"refused", "cancelled"}
    BY <1>2, <2>3 DEF Ending
  <2> QED  BY <1>0, <1>00, <1>1, <1>5, <2>2, <2>4 DEF UnknownCause
<1>6. \/ m.type \in Oks \cup Errors /\ id \notin rpending[x]
      \/ m.type \in Dones /\ id \notin Remote(x)
      \/ m.type \in Followers /\ id \notin Local(x)
  BY <1>00 DEF Unfiled, Oks, Errors, Dones, Followers, Closes
<1> QED  BY <1>3, <1>4, <1>5, <1>6

\* The handlers that return an error.
LEMMA FatalAgree ==
    ASSUME TypeOK, TypeOK', RequestInv, AgreeInv, NEW x \in Endpoints,
           OnInvalidRequest(x) \/ OnUnknownRequestID(x) \/ RefuseFetch(x)
    PROVE  AgreeInv'
<1>0. PICK e : e = Peer(x)
  OBVIOUS
<1>00. PICK m : m = Head(ctrl[x])
  OBVIOUS
<1>1. failure[x] = "none" /\ handling[x] = NoRequest /\ ctrl[x] # << >>
  BY DEF OnInvalidRequest, OnUnknownRequestID, RefuseFetch, Reading, NextIs, ReaderIdle
<1>2. CASE OnInvalidRequest(x)
  <2>1. /\ m.type \in Requests /\ m.val = 1 /\ Return(x, "invalidNamespaceLength") /\ Consume(x)
        /\ UNCHANGED <<setup, conn, localMax>> /\ TracksStill
    BY <1>00, <1>2 DEF OnInvalidRequest, Reading, NextIs, Requests, TracksStill, trackVars
  <2>2. m.id \in Ids /\ rt[e][m.id].badNamespace
    BY <1>0, <1>00, <1>1, <2>1, RequestMet
  <2>3. failure'[x] = "invalidNamespaceLength"
    BY <2>1 DEF Return, TypeOK
  <2>4. Deaths(x)'
    BY <1>0, <2>1, <2>2, <2>3 DEF Deaths, TracksStill
  <2> QED  BY <1>1, <2>1, <2>4, LossAgree
<1>3. CASE OnUnknownRequestID(x)
  <2>1. /\ Unfiled(x, m) /\ Return(x, "unknownRequestID") /\ Consume(x)
        /\ UNCHANGED <<setup, conn, localMax>> /\ TracksStill
    BY <1>00, <1>3 DEF OnUnknownRequestID, TracksStill, trackVars
  <2>2. m.id \in Ids /\ UnknownCause(x, m.id)
    BY <1>00, <1>1, <2>1, UnfiledCause
  <2>3. failure'[x] = "unknownRequestID"
    BY <2>1 DEF Return, TypeOK
  <2>4. UnknownCause(x, m.id)'
    BY <2>1, <2>2 DEF UnknownCause, TracksStill, Local, OverLimit
  <2>5. Deaths(x)'
    BY <2>2, <2>3, <2>4 DEF Deaths
  <2> QED  BY <1>1, <2>1, <2>5, LossAgree
<1>4. CASE RefuseFetch(x)
  <2>0. PICK id : id = m.id
    OBVIOUS
  <2>1. m.type = "FETCH" /\ m.type \in Requests /\ ~Admissible(x, id)
    BY <1>00, <1>4, <2>0 DEF RefuseFetch, Reading, NextIs, Requests
  <2>2. /\ id \in Ids /\ id \notin Local(x) /\ m.type = RequestType(rt[e][id].kind)
        /\ rt[e][id].kind \in {"subscribe", "fetch"}
    BY <1>0, <1>00, <1>1, <2>0, <2>1, RequestMet
  <2>3. rt[e][id].kind = "fetch" /\ OverLimit(x, id) /\ id \notin lpending[x]
    BY <2>1, <2>2 DEF RequestType, Admissible, Local
  <2>4. LimitAfter(x, id) = localMax[x] /\ AnnounceLimit(x, id) = ctrl[e]
    BY <1>0, <2>3 DEF LimitAfter, AnnounceLimit, RaisesLimit
  <2>5. /\ localMax' = [localMax EXCEPT ![x] = LimitAfter(x, id)]
        /\ lpending' = [lpending EXCEPT ![x] = @ \ {id}]
        /\ ConsumeAndLeave(x, AnnounceLimit(x, id)) /\ Return(x, "unknownRequestID")
        /\ UNCHANGED <<setup, conn>>
        /\ UNCHANGED <<rt, rpending, ropen, lt, lopen, handling, aliases>>
    BY <1>00, <1>4, <2>0, <2>3 DEF RefuseFetch
  <2>6. localMax' = localMax /\ lpending' = lpending
    <3>1. /\ localMax' = [localMax EXCEPT ![x] = localMax[x]]
          /\ lpending' = [lpending EXCEPT ![x] = lpending[x]]
      BY <2>3, <2>4, <2>5
    <3> QED  BY <3>1 DEF TypeOK
  <2>7. TracksStill /\ ConsumeAndLeave(x, ctrl[Peer(x)])
    BY <1>0, <2>4, <2>5, <2>6 DEF TracksStill
  <2>8. failure'[x] = "unknownRequestID"
    BY <2>5 DEF Return, TypeOK
  <2>9. UnknownCause(x, id)'
    BY <1>0, <2>3, <2>5, <2>6 DEF UnknownCause, OverLimit
  <2>10. Deaths(x)'
    BY <2>2, <2>8, <2>9 DEF Deaths
  <2> QED  BY <1>1, <2>5, <2>6, <2>7, <2>10, LossAgree
<1> QED  BY <1>2, <1>3, <1>4

\* The messages of the control plane are not about tracks.
LEMMA ControlTypes ==
    \A t \in {"CLIENT_SETUP", "SERVER_SETUP", "MAX_REQUEST_ID", "REQUESTS_BLOCKED"} :
      t \notin ForPublisher /\ t \notin ForCaller
BY DEF ForPublisher, ForCaller, Requests, Followers, Closes, Oks, Errors, Dones

\* The reader, outside the handlers of this module.
LEMMA ControlStepAgree ==
    ASSUME TypeOK, TypeOK', AgreeInv, NEW x \in Endpoints, ControlStep(x)
    PROVE  AgreeInv'
<1>0. TracksStill \/ handling' # handling
  BY DEF ControlStep, trackVars, TracksStill
<1>1. CASE x = Server /\ OnClientSetup
  <2>1. /\ UNCHANGED <<failure, localMax, conn, handling>> /\ Consume(x) /\ ctrl[x] # << >>
        /\ Head(ctrl[x]).type = "CLIENT_SETUP"
        /\ setup[x] = "waiting" /\ setup' = [setup EXCEPT ![x] = "limitSet"]
    BY <1>1 DEF OnClientSetup, NextIs
  <2>2. ControlFlow
    BY <2>1, ControlTypes DEF ControlFlow
  <2>3. \A f \in Endpoints : setup[f] = "done" => setup'[f] = "done"
    BY <2>1 DEF TypeOK
  <2> QED  BY <1>0, <2>1, <2>2, <2>3, ControlAgree
<1>2. CASE x = Server /\ WriteServerSetup
  <2>0. PICK m : m = LimitMsg("SERVER_SETUP", ServerSetupMax)
    OBVIOUS
  <2>1. /\ failure[x] = "none" /\ setup[x] = "limitSet" /\ Write(x, m)
        /\ UNCHANGED <<localMax, conn, handling>>
        /\ \/ conn = "down" /\ Return(x, "writeFailed") /\ UNCHANGED setup
           \/ setup' = [setup EXCEPT ![x] = "done"] /\ UNCHANGED failure
    BY <1>2, <2>0 DEF WriteServerSetup, WriteFails
  <2>2. CASE conn = "down" /\ Return(x, "writeFailed") /\ UNCHANGED setup
    <3>1. UNCHANGED ctrl
      <4>1. ctrl' = [ctrl EXCEPT ![Peer(x)] = ctrl[Peer(x)]]
        BY <2>1, <2>2 DEF Write, Written
      <4> QED  BY <4>1 DEF TypeOK
    <3>2. handling[x] = NoRequest
      BY <2>1 DEF AgreeInv, HandlerEnd
    <3>3. failure'[x] = "writeFailed" /\ conn' = "down"
      BY <2>1, <2>2 DEF Return, TypeOK
    <3>4. Deaths(x)'
      BY <3>3 DEF Deaths
    <3> QED  BY <1>0, <2>1, <2>2, <3>1, <3>2, <3>4, LossAgree
  <2>3. CASE setup' = [setup EXCEPT ![x] = "done"] /\ UNCHANGED failure
    <3>1. m \in Message /\ m.type = "SERVER_SETUP"
      <4>1. "SERVER_SETUP" \in MessageTypes /\ 0 \in Ids /\ ServerSetupMax \in Nat
        BY ControlAssumption DEF MessageTypes, Ids
      <4> QED  BY <2>0, <4>1, MsgType DEF LimitMsg
    <3>2. ControlFlow
      BY <2>1, <3>1, ControlTypes DEF ControlFlow
    <3>3. \A f \in Endpoints : setup[f] = "done" => setup'[f] = "done"
      BY <2>3 DEF TypeOK
    <3> QED  BY <1>0, <2>1, <2>3, <3>2, <3>3, ControlAgree
  <2> QED  BY <2>1, <2>2, <2>3
<1>3. CASE \/ x = Client /\ OnServerSetup
           \/ OnMaxRequestID(x)
  <2>1. /\ failure[x] = "none" /\ handling[x] = NoRequest
        /\ UNCHANGED <<localMax, conn, handling>> /\ Consume(x) /\ ctrl[x] # << >>
        /\ Head(ctrl[x]).type \in {"SERVER_SETUP", "MAX_REQUEST_ID"}
        /\ \/ UNCHANGED failure /\ (UNCHANGED setup \/ setup' = [setup EXCEPT ![x] = "done"])
           \/ Return(x, "maxRequestIDDecreased") /\ setup' = [setup EXCEPT ![x] = @]
           \/ Return(x, "maxRequestIDDecreased") /\ UNCHANGED setup
    BY <1>3 DEF OnServerSetup, OnMaxRequestID, SetMax, Reading, NextIs, ReaderIdle
  <2>2. CASE UNCHANGED failure /\ (UNCHANGED setup \/ setup' = [setup EXCEPT ![x] = "done"])
    <3>1. ControlFlow
      BY <2>1, ControlTypes DEF ControlFlow
    <3>2. \A f \in Endpoints : setup[f] = "done" => setup'[f] = "done"
      BY <2>2 DEF TypeOK
    <3> QED  BY <1>0, <2>1, <2>2, <3>1, <3>2, ControlAgree
  <2>3. CASE /\ Return(x, "maxRequestIDDecreased")
             /\ UNCHANGED setup \/ setup' = [setup EXCEPT ![x] = @]
    <3>1. UNCHANGED setup /\ failure'[x] = "maxRequestIDDecreased"
      BY <2>3 DEF Return, TypeOK
    <3>2. Deaths(x)'
      BY <3>1 DEF Deaths
    <3> QED  BY <1>0, <2>1, <2>3, <3>1, <3>2, LossAgree
  <2> QED  BY <2>1, <2>2, <2>3
<1>4. CASE OnMessageBeforeSetup(x)
  <2>1. /\ failure[x] = "none" /\ handling[x] = NoRequest /\ UNCHANGED handling
        /\ UNCHANGED <<setup, conn, localMax>> /\ Consume(x) /\ ctrl[x] # << >>
        /\ Return(x, "beforeSetup")
    BY <1>4 DEF OnMessageBeforeSetup, ReaderIdle
  <2>2. failure'[x] = "beforeSetup"
    BY <2>1 DEF Return, TypeOK
  <2>3. Deaths(x)'
    BY <2>2 DEF Deaths
  <2> QED  BY <1>0, <2>1, <2>3, LossAgree
<1>5. CASE OnRequestsBlocked(x)
  <2>1. /\ UNCHANGED <<failure, localMax, conn, handling, setup>> /\ Consume(x)
        /\ ctrl[x] # << >> /\ Head(ctrl[x]).type = "REQUESTS_BLOCKED"
    BY <1>5 DEF OnRequestsBlocked, Reading, NextIs
  <2>2. ControlFlow
    BY <2>1, ControlTypes DEF ControlFlow
  <2> QED  BY <1>0, <2>1, <2>2, ControlAgree
<1>6. CASE ReadFails(x)
  <2>1. /\ failure[x] = "none" /\ handling[x] = NoRequest /\ UNCHANGED handling
        /\ UNCHANGED <<setup, conn, localMax>> /\ UNCHANGED ctrl /\ conn = "down"
        /\ Return(x, "connectionClosed")
    BY <1>6 DEF ReadFails, ReaderIdle
  <2>2. failure'[x] = "connectionClosed" /\ conn' = "down"
    BY <2>1 DEF Return, TypeOK
  <2>3. Deaths(x)'
    BY <2>2 DEF Deaths
  <2> QED  BY <1>0, <2>1, <2>3, LossAgree
<1> QED  BY <1>1, <1>2, <1>3, <1>4, <1>5, <1>6 DEF ControlStep, ControlReads

\* A call that finds no ID, and the end of the connection.
LEMMA BlockedAgree ==
    ASSUME TypeOK, TypeOK', AgreeInv, NEW x \in Endpoints, UNCHANGED trackVars,
           RequestBlocked(x) \/ Close(x)
    PROVE  AgreeInv'
<1>1. TracksStill /\ UNCHANGED <<failure, localMax, setup>> /\ (conn' = conn \/ conn' = "down")
  BY DEF RequestBlocked, Close, trackVars, TracksStill
<1>2. ControlFlow
  <2>1. CASE Close(x)
    BY <2>1 DEF Close, ControlFlow
  <2>2. CASE RequestBlocked(x)
    <3>1. PICK m : m = LimitMsg("REQUESTS_BLOCKED", maxId[x])
      OBVIOUS
    <3>2. m \in Message /\ m.type = "REQUESTS_BLOCKED" /\ Write(x, m)
      <4>1. "REQUESTS_BLOCKED" \in MessageTypes /\ 0 \in Ids /\ maxId[x] \in Nat
        BY ControlAssumption DEF MessageTypes, Ids, TypeOK
      <4> QED  BY <2>2, <3>1, <4>1, MsgType DEF LimitMsg, RequestBlocked
    <3> QED  BY <3>2, ControlTypes DEF ControlFlow
  <2> QED  BY <2>1, <2>2
<1> QED  BY <1>1, <1>2, ControlAgree

-----------------------------------------------------------------------------
(***************************************************************************)
(* The specification.                                                      *)
(***************************************************************************)

\* Nothing has been asked for in the beginning.
LEMMA AgreeInit ==
    Init => AgreeInv
<1> SUFFICES ASSUME Init PROVE AgreeInv
  OBVIOUS
<1> USE DEF Init, ControlInit
<1>1. /\ ctrl[Client] = << >>
      /\ ctrl[Server] = <<LimitMsg("CLIENT_SETUP", InitialMaxRequestID[Client])>>
      /\ Client \in Endpoints /\ Server \in Endpoints /\ \A f \in Endpoints : f \in {Client, Server}
  BY DEF Endpoints, Client, Server
<1>2. ASSUME NEW f \in Endpoints, NEW j \in 1 .. Len(ctrl[f])
      PROVE  ctrl[f][j].type = "CLIENT_SETUP"
  BY <1>1, <1>2 DEF LimitMsg
<1>3. "CLIENT_SETUP" \notin ForPublisher /\ "CLIENT_SETUP" \notin ForCaller
  BY ControlTypes
<1>4. ASSUME NEW f \in Endpoints, NEW j \in 1 .. Len(ctrl[f])
      PROVE  MsgInv(f, ctrl[f][j])
  BY <1>2, <1>3, <1>4 DEF MsgInv, ForPublisher, ForCaller, Followers, Oks
<1>5. ASSUME NEW f \in Endpoints, NEW i
      PROVE  ~Has(ctrl[f], Errors, i) /\ ~Has(ctrl[f], Oks, i)
  BY <1>2, <1>3 DEF Has, ForCaller
<1>6. ASSUME NEW e \in Endpoints, NEW id \in Ids
      PROVE  LinkInv(e, id)
  <2>0. Peer(e) \in Endpoints
    BY PeerType
  <2>1. /\ rt[e][id] = NoRemoteTrack /\ lt[Peer(e)][id] = NoLocalTrack
        /\ id \notin ropen[e] /\ id \notin lopen[Peer(e)] /\ id \notin lpending[Peer(e)]
        /\ handling[Peer(e)] = NoRequest
    BY <2>0
  <2>2. id # NoRequest
    BY ControlAssumption DEF Ids, NoRequest
  <2>3. ~ErrorSent(e, id)
    BY <1>5 DEF ErrorSent
  <2>4. /\ NoRemoteTrack.kind = "none" /\ NoRemoteTrack.call = "none"
        /\ NoRemoteTrack.resp = "empty" /\ ~NoRemoteTrack.done /\ ~NoRemoteTrack.badNamespace
        /\ NoRemoteTrack.closes = 0 /\ NoRemoteTrack.updates = 0
        /\ NoLocalTrack.kind = "none" /\ NoLocalTrack.ctx = "live"
        /\ NoLocalTrack.answer = "none"
    BY DEF NoRemoteTrack, NoLocalTrack
  <2> HIDE DEF Init, ControlInit
  <2> QED  BY <2>1, <2>2, <2>3, <2>4
           DEF LinkInv, KindsAgree, Learned, Published, Told, Ended, Ordered
<1>7. \A e \in Endpoints : HandlerEnd(e) /\ AliasesOpen(e) /\ Deaths(e)
  BY DEF HandlerEnd, AliasesOpen, Deaths
<1> QED  BY <1>4, <1>6, <1>7 DEF AgreeInv

\* Every step of the two ends keeps the invariant.
LEMMA AgreeStep ==
    ASSUME TypeOK, TypeOK', RequestInv, AgreeInv, Next
    PROVE  AgreeInv'
<1>1. PICK e \in Endpoints :
        \/ Reader(e) \/ HandlerReturn(e) \/ Application(e)
        \/ \E id \in Ids : CallStep(e, id) \/ WriteAccept(e, id)
  BY DEF Next
<1>2. CASE Reader(e)
  <2>1. CASE ControlStep(e)
    BY <2>1, ControlStepAgree
  <2>2. CASE OnSubscribe(e) \/ OnFetch(e)
    BY <2>2, AdmitAgree DEF OnSubscribe, OnFetch
  <2>3. CASE RefuseSubscribe(e)
    BY <2>3, RefuseAgree
  <2>4. CASE OnInvalidRequest(e) \/ OnUnknownRequestID(e) \/ RefuseFetch(e)
    BY <2>4, FatalAgree
  <2>5. CASE OnSubscribeOk(e) \/ OnFetchOk(e)
    BY <2>5, OkAgree
  <2>6. CASE OnSubscribeError(e) \/ OnFetchError(e)
    BY <2>6, ErrorAgree
  <2>7. CASE OnSubscribeDone(e)
    BY <2>7, DoneAgree
  <2>8. CASE OnUnsubscribe(e) \/ OnFetchCancel(e)
    BY <2>8, FollowerAgree
  <2>9. CASE OnSubscribeUpdate(e)
    BY <2>9, OnUpdateAgree
  <2> QED  BY <1>2, <2>1, <2>2, <2>3, <2>4, <2>5, <2>6, <2>7, <2>8, <2>9 DEF Reader
<1>3. CASE HandlerReturn(e)
  BY <1>3, HandlerReturnAgree
<1>4. CASE Application(e)
  <2>1. ASSUME NEW kind \in {"subscribe", "fetch"}, NEW bad \in BOOLEAN,
               BeginRequest(e, kind, bad)
        PROVE  AgreeInv'
    BY <2>1, BeginAgree
  <2>2. CASE (RequestBlocked(e) \/ Close(e)) /\ UNCHANGED trackVars
    BY <2>2, BlockedAgree
  <2>3. ASSUME NEW id \in Ids, Cancel(e, id) \/ CloseTrack(e, id) \/ UpdateSubscription(e, id)
        PROVE  AgreeInv'
    BY <2>3, CancelAgree, CloseTrackAgree, UpdateAgree
  <2>4. ASSUME NEW id \in Ids, Accept(e, id) \/ Reject(e, id) \/ CloseWithError(e, id)
        PROVE  AgreeInv'
    BY <2>4, AcceptAgree, RejectAgree, CloseWithErrorAgree
  <2> QED  BY <1>4, <2>1, <2>2, <2>3, <2>4 DEF Application
<1>5. ASSUME NEW id \in Ids, CallStep(e, id) \/ WriteAccept(e, id)
      PROVE  AgreeInv'
  BY <1>5, WriteRequestAgree, ResolveAgree, AbortAgree, WriteAcceptAgree DEF CallStep
<1> QED  BY <1>1, <1>2, <1>3, <1>4, <1>5

\* The invariant holds in every state.
LEMMA AgreeAlways ==
    Spec => [](TypeOK /\ RequestInv /\ AgreeInv)
<1>1. Init => AgreeInv
  BY AgreeInit
<1>2. ASSUME TypeOK, TypeOK', RequestInv, AgreeInv, [Next]_vars
      PROVE  AgreeInv'
  <2>1. CASE Next
    BY <1>2, <2>1, AgreeStep
  <2>2. CASE UNCHANGED vars
    <3>1. /\ UNCHANGED <<setup, ctrl, failure, handling, conn, localMax>> /\ UNCHANGED trackVars
      BY <2>2 DEF vars, controlVars
    <3>2. TracksStill /\ ControlFlow
      BY <3>1 DEF trackVars, TracksStill, ControlFlow
    <3> QED  BY <1>2, <3>1, <3>2, ControlAgree
  <2> QED  BY <1>2, <2>1, <2>2
<1> QED  BY <1>1, <1>2, RequestInvariant, PTL DEF Spec

\* When nothing is in progress, neither on the connection nor between two steps of
\* a call or a response writer, the two ends agree: exactly the tracks that one
\* end has open, and has not been told or asked to end, are served by the other,
\* and a call that still waits was closed instead of answered.  Messages that end
\* a track from either side cross each other and the calls (session.go:472, 1068,
\* remote_track_map.go, local_track_map.go).
THEOREM EndsAgree == Spec => []QuiescentAgreement
<1>1. ASSUME TypeOK, RequestInv, AgreeInv
      PROVE  QuiescentAgreement
  <2> SUFFICES ASSUME Quiet, NEW e \in Endpoints, NEW id \in Ids
               PROVE  /\ Holds(e, id) <=> Serves(Peer(e), id)
                      /\ rt[e][id].call = "waiting" /\ rt[e][id].resp = "empty" =>
                           rt[e][id].done
    BY DEF QuiescentAgreement
  <2> DEFINE p == Peer(e)
             r == rt[e][id]
             l == lt[p][id]
  <2>1. /\ p \in Endpoints /\ Peer(p) = e
        /\ PairInv(e, id) /\ LinkInv(e, id) /\ r.closes \in Nat
        /\ l.ctx \in {"live", "unsubscribed", "done"}
        /\ l.answer \in {"none", "confirmed", "ok", "error"}
    BY <1>1, PairFacts, TwoEnds, TrackTypes
  <2>2. /\ ~Lost(e) /\ ~Lost(p) /\ ctrl[e] = << >> /\ ctrl[p] = << >>
        /\ handling[p] = NoRequest /\ l.answer # "confirmed"
        /\ r.call \notin {"begun", "aborting"}
    BY <2>1 DEF Quiet, Lost, ReaderIdle
  <2>3. /\ ~OkSent(e, id) /\ ~ErrorSent(e, id) /\ ~DoneSent(e, id)
        /\ ~Asked(e, id) /\ ~CloseSent(e, id)
    BY <2>2 DEF OkSent, ErrorSent, DoneSent, Asked, CloseSent, Has
  <2>4. id # NoRequest
    BY ControlAssumption DEF Ids, NoRequest
  <2>5. id \notin lpending[p]
    BY <2>1, <2>2, <2>4 DEF LinkInv, Published, p
  <2> HIDE DEF p, r, l
  <2>6. ASSUME Holds(e, id)
        PROVE  Serves(p, id)
    <3>1. /\ id \in ropen[e] /\ ~r.done /\ r.closes = 0
          /\ ~(r.kind = "fetch" /\ r.call = "cancelled")
      BY <2>6 DEF Holds, r
    <3>2. l.answer = "ok"
      BY <2>1, <3>1 DEF LinkInv, Learned, l, p
    <3>3. l.ctx # "done"
      BY <2>1, <2>2, <2>3, <3>1 DEF LinkInv, Told, l, p, r
    <3>4. r.call # "refused"
      BY <2>1, <3>2 DEF LinkInv, Learned, PairInv, l, p, r
    <3>5. l.ctx # "unsubscribed"
      BY <2>1, <3>1, <3>4 DEF LinkInv, Ended, Ending, l, p, r
    <3>6. l.ctx = "live"
      BY <2>1, <3>3, <3>5
    <3>7. id \in lopen[p]
      BY <2>1, <3>2, <3>6 DEF LinkInv, Published, l, p
    <3> QED  BY <3>6, <3>7 DEF Serves, l
  <2>7. ASSUME Serves(p, id)
        PROVE  Holds(e, id)
    <3>1. id \in lopen[p] /\ l.ctx = "live"
      BY <2>7 DEF Serves, l
    <3>2. l.answer = "ok"
      BY <2>1, <2>2, <3>1 DEF LinkInv, Published, l, p
    <3>3. id \in ropen[e]
      BY <2>1, <2>2, <2>3, <3>2 DEF LinkInv, Told, l, p
    <3>4. ~r.done
      BY <2>1, <3>1 DEF LinkInv, Ended, l, p, r
    <3>5. ~(r.closes > 0) /\ ~(r.kind = "fetch" /\ r.call = "cancelled")
      BY <2>1, <2>2, <2>3, <3>1 DEF LinkInv, Ended, l, p, r
    <3>6. r.closes = 0
      BY <2>1, <3>5
    <3> QED  BY <3>3, <3>4, <3>5, <3>6 DEF Holds, r
  <2>8. ASSUME r.call = "waiting", r.resp = "empty"
        PROVE  r.done
    <3>1. l.kind # "none" /\ l.answer # "error"
      BY <2>1, <2>2, <2>3, <2>8 DEF LinkInv, Told, l, p, r
    <3>2. l.answer # "ok"
      <4>1. ASSUME l.answer = "ok" PROVE id \in ropen[e]
        BY <2>1, <2>2, <2>3, <4>1 DEF LinkInv, Told, l, p
      <4> QED  BY <2>1, <2>2, <2>8, <4>1 DEF LinkInv, Told, l, p, r
    <3>3. l.answer = "none"
      BY <2>1, <2>2, <3>1, <3>2
    <3>4. l.ctx = "done"
      BY <2>1, <2>5, <3>1, <3>3 DEF LinkInv, Published, l, p
    <3> QED  BY <2>1, <2>2, <2>3, <3>4 DEF LinkInv, Told, l, p, r
  <2> QED  BY <2>6, <2>7, <2>8 DEF p, r
<1> QED  BY <1>1, AgreeAlways, PTL

-----------------------------------------------------------------------------
(***************************************************************************)
(* The limits and the setup.  These two causes of DeathHasCause are about  *)
(* the order of messages, not about one request.                           *)
(***************************************************************************)

\* The highest limit that e has been granted, arrived or not.  SERVER_SETUP grants
\* the client a literal, whatever the server enforces.
Ceiling(e) ==
    IF e = Client /\ localMax[Server] < ServerSetupMax THEN ServerSetupMax
    ELSE localMax[Peer(e)]

\* The first limit that the server raises is no less than that literal.
LimitsGrow(e) == e = Client => ServerSetupMax <= 2 * InitialMaxRequestID[Server]

\* The limits on their way to e do not decrease, and the server grants none before
\* its setup is complete.
RaiseInv ==
    /\ \A e \in Endpoints :
         LimitsGrow(e) => /\ maxId[e] <= Ceiling(e)
                          /\ GrantsOK(ctrl[e], maxId[e], Ceiling(e))
                          /\ failure[e] # "maxRequestIDDecreased"
    /\ setup[Server] # "done" => maxId[Client] = 0 /\ NoGrants(ctrl[Client])
    /\ InitialMaxRequestID[Server] <= localMax[Server]

\* An endpoint has neither made nor got a request.
Silent(e) == \A id \in Ids : rt[e][id].call = "none" /\ lt[e][id].kind = "none"

\* Where the applications wait for Run, nothing is written before the setup is done
\* but the setup itself, which is therefore the first message of each endpoint.
SetupInv ==
    /\ setup[Client] # "limitSet"
    /\ ~EarlyCalls =>
         /\ \A e \in Endpoints : setup[e] # "done" => Silent(e)
         /\ setup[Server] # "done" => setup[Client] # "done" /\ ctrl[Client] = << >>
         /\ setup[Server] = "waiting" /\ ctrl[Server] # << >> =>
              Head(ctrl[Server]).type = "CLIENT_SETUP"
         /\ setup[Server] = "done" /\ setup[Client] = "waiting" =>
              ctrl[Client] # << >> /\ Head(ctrl[Client]).type = "SERVER_SETUP"
         /\ \A e \in Endpoints : failure[e] # "beforeSetup"

\* q2 is q1 with at most one more message, which grants nothing.
Said(q1, q2) == q2 = q1 \/ \E m \in Message : m.type \notin Grants /\ q2 = Append(q1, m)

\* How a reader does not end in the steps below.
NoEnds == {"none", "maxRequestIDDecreased", "beforeSetup"}

\* An endpoint draws its next ID for a request that begins, or draws none.
Draws(e) ==
    \/ nextId'[e] = nextId[e]
    \/ nextId[e] \in Ids /\ nextId'[e] = nextId[e] + 2 /\ rt'[e][nextId[e]].call # "none"

\* A step of e that takes no limit and no setup message: e may take a message, say
\* something, and raise the limit it grants.
OwnChannels(e) ==
    /\ \/ ctrl'[e] = ctrl[e]
       \/ ctrl[e] # << >> /\ Head(ctrl[e]).type \notin Grants /\ ctrl'[e] = Tail(ctrl[e])
    /\ \/ localMax' = localMax /\ Said(ctrl[Peer(e)], ctrl'[Peer(e)])
       \/ /\ setup[e] = "done"
          /\ \E id \in Ids : /\ Has(ctrl[e], Requests, id)
                             /\ localMax' = [localMax EXCEPT ![e] = LimitAfter(e, id)]
                             /\ Said(AnnounceLimit(e, id), ctrl'[Peer(e)])
OwnVars(e) ==
    /\ UNCHANGED <<setup, maxId>>
    /\ conn' = conn \/ conn' = "down"
    /\ nextId'[Peer(e)] = nextId[Peer(e)] /\ Draws(e)
    /\ rt'[Peer(e)] = rt[Peer(e)] /\ lt'[Peer(e)] = lt[Peer(e)]
    /\ \A x \in Endpoints :
         \/ failure'[x] = failure[x]
         \/ failure'[x] \notin NoEnds
OwnStep(e) ==
    OwnChannels(e) /\ OwnVars(e) /\ (EarlyCalls \/ setup[e] = "done" \/ ~Silent(e))

\* What is said comes after everything in flight.
LEMMA SaidKept ==
    ASSUME NEW q \in Seq(Message), NEW s, Said(q, s)
    PROVE  /\ s \in Seq(Message)
           /\ \A lo, hi \in Nat : GrantsOK(q, lo, hi) => GrantsOK(s, lo, hi)
           /\ NoGrants(q) => NoGrants(s)
           /\ q # << >> => s # << >> /\ Head(s) = Head(q)
<1>1. CASE s = q
  BY <1>1
<1>2. ASSUME NEW m \in Message, m.type \notin Grants, s = Append(q, m)
      PROVE  /\ s \in Seq(Message)
             /\ \A lo, hi \in Nat : GrantsOK(q, lo, hi) => GrantsOK(s, lo, hi)
             /\ NoGrants(q) => NoGrants(s)
             /\ q # << >> => s # << >> /\ Head(s) = Head(q)
  <2>1. /\ Len(q) \in Nat /\ Len(s) = Len(q) + 1 /\ s[Len(q) + 1] = m
        /\ \A i \in 1 .. Len(q) : s[i] = q[i]
        /\ s \in Seq(Message)
    BY <1>2, AppendProperties
  <2>2. \A i \in 1 .. Len(s) : (i \in 1 .. Len(q) /\ s[i] = q[i]) \/ s[i] = m
    BY <2>1
  <2>3. \A lo, hi \in Nat : GrantsOK(q, lo, hi) => GrantsOK(s, lo, hi)
    BY <1>2, <2>2 DEF GrantsOK
  <2>4. NoGrants(q) => NoGrants(s)
    BY <1>2, <2>2 DEF NoGrants
  <2>5. q # << >> => s # << >> /\ Head(s) = Head(q)
    BY <1>2
  <2> QED  BY <2>1, <2>3, <2>4, <2>5
<1> QED  BY <1>1, <1>2 DEF Said

\* A message that is written, or fails to be, is said.
LEMMA SaidWritten ==
    ASSUME NEW q, NEW m \in Message, m.type \notin Grants
    PROVE  Said(q, Written(q, m)) /\ Said(q, q)
BY DEF Said, Written

\* A write of such a message leaves the channels as a step of its own may.
LEMMA WriteOwn ==
    ASSUME TypeOK, NEW e \in Endpoints, NEW m \in Message, m.type \notin Grants, Write(e, m)
    PROVE  ctrl'[e] = ctrl[e] /\ Said(ctrl[Peer(e)], ctrl'[Peer(e)])
<1>1. Peer(e) \in Endpoints /\ Peer(e) # e
  BY PeerType DEF Endpoints, Client, Server, Peer
<1>2. ctrl'[e] = ctrl[e] /\ ctrl'[Peer(e)] = Written(ctrl[Peer(e)], m)
  BY <1>1 DEF Write, TypeOK
<1> QED  BY <1>2, SaidWritten

\* The messages about a request that grant nothing.
LEMMA PlainMessages ==
    ASSUME NEW type \in MessageTypes \ Grants, NEW id \in Ids, NEW v \in Nat
    PROVE  /\ [type |-> type, id |-> id, val |-> v] \in Message
           /\ [type |-> type, id |-> id, val |-> v].type \notin Grants
           /\ Msg(type, id) \in Message /\ Msg(type, id).type \notin Grants
BY DEF Msg, Message

\* The two ends, and the values a step of one works with.
LEMMA OwnGround ==
    ASSUME TypeOK, NEW e \in Endpoints
    PROVE  /\ Peer(e) \in Endpoints /\ Peer(e) # e /\ Peer(Peer(e)) = e
           /\ \A x \in Endpoints : x = e \/ x = Peer(e)
           /\ ctrl[e] \in Seq(Message) /\ ctrl[Peer(e)] \in Seq(Message)
           /\ ctrl[e] # << >> => Head(ctrl[e]) \in Message /\ Head(ctrl[e]).id \in Ids
BY PeerType, HeadType DEF TypeOK, Message, Endpoints, Client, Server, Peer

\* A step that changes one track at e leaves those of its peer alone.
LEMMA PeerTracks ==
    ASSUME TypeOK, NEW e \in Endpoints
    PROVE  /\ \A g : rt' = [rt EXCEPT ![e] = g] => rt'[Peer(e)] = rt[Peer(e)]
           /\ \A g : lt' = [lt EXCEPT ![e] = g] => lt'[Peer(e)] = lt[Peer(e)]
BY OwnGround DEF TypeOK

\* The reader takes a message and changes nothing else of the channels.
LEMMA ConsumeOwn ==
    ASSUME TypeOK, NEW e \in Endpoints, ctrl[e] # << >>, Head(ctrl[e]).type \notin Grants,
           Consume(e), localMax' = localMax
    PROVE  OwnChannels(e)
<1>1. Peer(e) \in Endpoints /\ Peer(e) # e
  BY OwnGround
<1>2. ctrl'[e] = Tail(ctrl[e]) /\ ctrl'[Peer(e)] = ctrl[Peer(e)]
  BY <1>1 DEF Consume, TypeOK
<1> QED  BY <1>2 DEF OwnChannels, Said

\* A reader that ends otherwise.
LEMMA OtherFailures ==
    ASSUME TypeOK, NEW e \in Endpoints, NEW err,
           err \notin NoEnds, Return(e, err)
    PROVE  \A x \in Endpoints :
             failure'[x] = failure[x] \/ failure'[x] \notin NoEnds
BY DEF Return, TypeOK

\* The answers and SUBSCRIBE_DONE.
LEMMA AnswerOwn ==
    ASSUME TypeOK, NEW e \in Endpoints,
           \/ OnSubscribeOk(e) \/ OnFetchOk(e) \/ OnSubscribeError(e) \/ OnFetchError(e)
           \/ OnSubscribeDone(e)
    PROVE  OwnStep(e)
<1> DEFINE m == Head(ctrl[e])
           p == Peer(e)
<1> DEFINE facts ==
             /\ setup[e] = "done" /\ ctrl[e] # << >> /\ m.type \notin Grants
             /\ UNCHANGED <<setup, nextId, maxId, localMax, conn, lt>>
             /\ failure' = failure \/ Return(e, "duplicateTrackAlias")
             /\ \/ Consume(e) \/ ConsumeAndLeave(e, ctrl[p])
                \/ ConsumeAndLeave(e, Written(ctrl[p], Msg("UNSUBSCRIBE", m.id)))
                \/ ConsumeAndLeave(e, Written(ctrl[p], Msg("FETCH_CANCEL", m.id)))
<1>a. facts
  <2>1. CASE OnSubscribeOk(e)
    BY <2>1, Zenon DEF OnSubscribeOk, Reading, NextIs, Grants
  <2>2. CASE OnFetchOk(e)
    BY <2>2, Zenon DEF OnFetchOk, Reading, NextIs, Grants
  <2>3. CASE OnSubscribeError(e) \/ OnFetchError(e)
    BY <2>3, Zenon DEF OnSubscribeError, OnFetchError, OnError, Reading, NextIs, Grants
  <2>4. CASE OnSubscribeDone(e)
    BY <2>4, Zenon DEF OnSubscribeDone, Reading, NextIs, Grants
  <2> QED  BY <2>1, <2>2, <2>3, <2>4
<1>0. /\ setup[e] = "done" /\ ctrl[e] # << >> /\ m.type \notin Grants
      /\ UNCHANGED <<setup, nextId, maxId, localMax, conn, lt>>
  BY <1>a
<1>1. /\ p \in Endpoints /\ p # e /\ m.id \in Ids
  BY <1>0, OwnGround
<1>2. \A x \in Endpoints :
        failure'[x] = failure[x] \/ failure'[x] \notin NoEnds
  <2>1. failure' = failure \/ Return(e, "duplicateTrackAlias")
    BY <1>a
  <2> QED  BY <2>1, OtherFailures DEF NoEnds
<1>3. rt'[p] = rt[p]
  <2>0. rt \in [Endpoints -> [Ids -> RemoteTrack]]
    BY DEF TypeOK
  <2>1. CASE OnSubscribeOk(e)
    BY <2>0, <2>1, <1>1 DEF OnSubscribeOk
  <2>2. CASE OnFetchOk(e)
    BY <2>0, <2>2, <1>1 DEF OnFetchOk
  <2>3. CASE OnSubscribeError(e) \/ OnFetchError(e)
    BY <2>0, <2>3, <1>1 DEF OnSubscribeError, OnFetchError, OnError
  <2>4. CASE OnSubscribeDone(e)
    BY <2>0, <2>4, <1>1 DEF OnSubscribeDone
  <2> QED  BY <2>1, <2>2, <2>3, <2>4
<1>4. OwnChannels(e)
  <2>1. \A type \in {"UNSUBSCRIBE", "FETCH_CANCEL"} :
          Said(ctrl[p], Written(ctrl[p], Msg(type, m.id))) /\ Said(ctrl[p], ctrl[p])
    BY <1>1, PlainMessages, SaidWritten DEF MessageTypes, Grants
  <2>2. CASE Consume(e)
    BY <2>2, <1>0, ConsumeOwn
  <2>3. ASSUME NEW out, ConsumeAndLeave(e, out), Said(ctrl[p], out)
        PROVE  OwnChannels(e)
    <3>1. ctrl'[e] = Tail(ctrl[e]) /\ ctrl'[p] = out
      BY <1>1, <2>3 DEF ConsumeAndLeave, TypeOK
    <3> QED  BY <1>0, <2>3, <3>1 DEF OwnChannels
  <2>4. \/ Consume(e) \/ ConsumeAndLeave(e, ctrl[p])
        \/ ConsumeAndLeave(e, Written(ctrl[p], Msg("UNSUBSCRIBE", m.id)))
        \/ ConsumeAndLeave(e, Written(ctrl[p], Msg("FETCH_CANCEL", m.id)))
    BY <1>a
  <2> HIDE DEF m, p
  <2> QED  BY <2>1, <2>2, <2>3, <2>4
<1> QED  BY <1>0, <1>2, <1>3, <1>4 DEF OwnStep, OwnVars, Draws

\* What the reader does with the requests of the peer.
LEMMA PeerRequestOwn ==
    ASSUME TypeOK, NEW e \in Endpoints,
           \/ OnSubscribe(e) \/ OnFetch(e) \/ RefuseSubscribe(e) \/ RefuseFetch(e)
           \/ OnInvalidRequest(e) \/ OnUnsubscribe(e) \/ OnFetchCancel(e)
           \/ OnSubscribeUpdate(e) \/ OnUnknownRequestID(e)
           \/ OnRequestsBlocked(e) /\ UNCHANGED trackVars
    PROVE  OwnStep(e)
<1> DEFINE m == Head(ctrl[e])
           p == Peer(e)
           a == AnnounceLimit(e, m.id)
<1>0. /\ setup[e] = "done" /\ ctrl[e] # << >>
      /\ UNCHANGED <<setup, nextId, maxId, conn, rt>>
  BY DEF OnSubscribe, OnFetch, OnRequest, RefuseSubscribe, RefuseFetch, OnInvalidRequest,
         OnUnsubscribe, OnFetchCancel, OnSubscribeUpdate, OnUnknownRequestID,
         OnRequestsBlocked, Reading, NextIs, trackVars
<1>g. m.type \notin Grants
  BY DEF OnSubscribe, OnFetch, OnRequest, RequestType, RefuseSubscribe, RefuseFetch,
         OnInvalidRequest, OnUnsubscribe, OnFetchCancel, OnSubscribeUpdate,
         OnUnknownRequestID, Unfiled, OnRequestsBlocked, Reading, NextIs, Grants
<1>1. /\ p \in Endpoints /\ p # e /\ m.id \in Ids
  BY <1>0, OwnGround
<1>2. \A x \in Endpoints :
        failure'[x] = failure[x] \/ failure'[x] \notin NoEnds
  <2>1. \/ failure' = failure
        \/ \E err \in {"writeFailed", "unknownRequestID", "duplicateRequestID",
                       "invalidNamespaceLength"} : Return(e, err)
    BY DEF OnSubscribe, OnFetch, OnRequest, RefuseSubscribe, RefuseFetch, OnInvalidRequest,
           OnUnsubscribe, OnFetchCancel, OnSubscribeUpdate, OnUnknownRequestID,
           OnRequestsBlocked
  <2> QED  BY <2>1, OtherFailures DEF NoEnds
<1>3. lt'[p] = lt[p]
  <2>0. lt \in [Endpoints -> [Ids -> LocalTrack]]
    BY DEF TypeOK
  <2>1. CASE OnSubscribe(e) \/ OnFetch(e)
    BY <2>0, <2>1, <1>1 DEF OnSubscribe, OnFetch, OnRequest
  <2>2. CASE OnUnsubscribe(e) \/ OnFetchCancel(e)
    BY <2>0, <2>2, <1>1 DEF OnUnsubscribe, OnFetchCancel
  <2>3. CASE ~(OnSubscribe(e) \/ OnFetch(e) \/ OnUnsubscribe(e) \/ OnFetchCancel(e))
    BY <2>3 DEF RefuseSubscribe, RefuseFetch, OnInvalidRequest, OnSubscribeUpdate,
                OnUnknownRequestID, OnRequestsBlocked, trackVars
  <2> QED  BY <2>1, <2>2, <2>3
<1>4. OwnChannels(e)
  <2>1. CASE OnSubscribe(e) \/ OnFetch(e) \/ RefuseSubscribe(e) \/ RefuseFetch(e)
    <3>1. localMax' = [localMax EXCEPT ![e] = LimitAfter(e, m.id)]
      BY <2>1 DEF OnSubscribe, OnFetch, OnRequest, RefuseSubscribe, RefuseFetch
    <3>2. \/ ConsumeAndLeave(e, a)
          \/ ConsumeAndLeave(e, Written(a, Msg("SUBSCRIBE_ERROR", m.id)))
          \/ ConsumeAndLeave(e, Written(a, Msg("FETCH_ERROR", m.id)))
      BY <2>1 DEF OnSubscribe, OnFetch, OnRequest, RefuseSubscribe, RefuseFetch
    <3>3. \A type \in {"SUBSCRIBE_ERROR", "FETCH_ERROR"} :
            Said(a, Written(a, Msg(type, m.id))) /\ Said(a, a)
      BY <1>1, PlainMessages, SaidWritten DEF MessageTypes, Grants
    <3>4. ASSUME NEW out, ConsumeAndLeave(e, out), Said(a, out)
          PROVE  OwnChannels(e)
      <4>1. ctrl'[e] = Tail(ctrl[e]) /\ ctrl'[p] = out
        BY <1>1, <3>4 DEF ConsumeAndLeave, TypeOK
      <4>2. Has(ctrl[e], Requests, m.id)
        <5>1. m.type \in Requests
          BY <2>1 DEF OnSubscribe, OnFetch, OnRequest, RequestType, RefuseSubscribe,
                      RefuseFetch, Reading, NextIs, Requests
        <5> QED  BY <1>0, <5>1, OwnGround, HasTail
      <4> QED  BY <1>0, <1>1, <1>g, <3>1, <3>4, <4>1, <4>2 DEF OwnChannels
    <3> HIDE DEF m, p, a
    <3> QED  BY <3>2, <3>3, <3>4
  <2>2. CASE ~(OnSubscribe(e) \/ OnFetch(e) \/ RefuseSubscribe(e) \/ RefuseFetch(e))
    <3>1. Consume(e) /\ localMax' = localMax
      BY <2>2 DEF OnInvalidRequest, OnUnsubscribe, OnFetchCancel, OnSubscribeUpdate,
                  OnUnknownRequestID, OnRequestsBlocked
    <3> QED  BY <3>1, <1>0, <1>g, ConsumeOwn
  <2> QED  BY <2>1, <2>2
<1>5. rt'[p] = rt[p]
  BY <1>0
<1> QED  BY <1>0, <1>2, <1>3, <1>4, <1>5 DEF OwnStep, OwnVars, Draws

\* The steps of a call and the methods of its track: the request has been drawn.
LEMMA CallOwn ==
    ASSUME TypeOK, NEW e \in Endpoints, NEW id \in Ids,
           CallStep(e, id) \/ Cancel(e, id) \/ CloseTrack(e, id) \/ UpdateSubscription(e, id)
    PROVE  OwnStep(e)
<1> DEFINE p == Peer(e)
           m == [type |-> RequestType(rt[e][id].kind), id |-> id,
                 val |-> IF rt[e][id].badNamespace THEN 1 ELSE 0]
<1>0. /\ p \in Endpoints /\ p # e /\ rt \in [Endpoints -> [Ids -> RemoteTrack]]
  BY OwnGround DEF TypeOK
<1>1. /\ UNCHANGED <<nextId, maxId, localMax, setup, failure, conn, lt>>
      /\ rt[e][id].call # "none"
  BY Zenon DEF CallStep, WriteRequest, Resolve, Abort, Cancel, CloseTrack, UpdateSubscription,
         controlVars
<1>2. rt'[p] = rt[p]
  <2>1. CASE WriteRequest(e, id)
    BY <1>0, <2>1 DEF WriteRequest
  <2>2. CASE Resolve(e, id)
    BY <1>0, <2>2 DEF Resolve
  <2>3. CASE Abort(e, id) \/ Cancel(e, id)
    BY <1>0, <2>3 DEF Abort, Cancel
  <2>4. CASE CloseTrack(e, id) \/ UpdateSubscription(e, id)
    BY <1>0, <2>4 DEF CloseTrack, UpdateSubscription
  <2> QED  BY <2>1, <2>2, <2>3, <2>4 DEF CallStep
<1>3. \/ ctrl' = ctrl \/ Write(e, m)
      \/ \E type \in {"FETCH_CANCEL", "UNSUBSCRIBE", "SUBSCRIBE_UPDATE"} : Write(e, Msg(type, id))
  <2>1. CASE WriteRequest(e, id)
    BY <2>1, Zenon DEF WriteRequest
  <2>2. CASE Resolve(e, id)
    BY <2>2, Zenon DEF Resolve
  <2>4. CASE Abort(e, id) \/ Cancel(e, id)
    BY <2>4 DEF Abort, Cancel, controlVars
  <2>3. CASE CloseTrack(e, id) \/ UpdateSubscription(e, id)
    BY <2>3 DEF CloseTrack, UpdateSubscription, CloseType
  <2> QED  BY <2>1, <2>2, <2>3, <2>4 DEF CallStep
<1>4. OwnChannels(e)
  <2>1. m \in Message /\ m.type \notin Grants
    BY PlainMessages DEF RequestType, MessageTypes, Grants
  <2>2. \A type \in {"FETCH_CANCEL", "UNSUBSCRIBE", "SUBSCRIBE_UPDATE"} :
          Msg(type, id) \in Message /\ Msg(type, id).type \notin Grants
    BY PlainMessages DEF MessageTypes, Grants
  <2> HIDE DEF m
  <2>3. ctrl'[e] = ctrl[e] /\ Said(ctrl[p], ctrl'[p])
    BY <1>3, <2>1, <2>2, WriteOwn DEF Said
  <2> QED  BY <1>1, <2>3 DEF OwnChannels
<1>5. ~Silent(e)
  BY <1>1 DEF Silent
<1> QED  BY <1>1, <1>2, <1>4, <1>5 DEF OwnStep, OwnVars, Draws

\* The calls of the application on the session wait for Run, or need not.
LEMMA SessionOwn ==
    ASSUME TypeOK, RequestInv, NEW e \in Endpoints,
           \/ \E kind \in {"subscribe", "fetch"}, bad \in BOOLEAN : BeginRequest(e, kind, bad)
           \/ RequestBlocked(e) /\ UNCHANGED trackVars
           \/ Close(e) /\ UNCHANGED trackVars
    PROVE  OwnStep(e)
<1> DEFINE p == Peer(e)
           m == LimitMsg("REQUESTS_BLOCKED", maxId[e])
<1>0. /\ p \in Endpoints /\ p # e /\ rt \in [Endpoints -> [Ids -> RemoteTrack]]
  BY OwnGround DEF TypeOK
<1>1. /\ UNCHANGED <<maxId, localMax, setup, failure, lt>>
      /\ EarlyCalls \/ setup[e] = "done"
  <2>1. ASSUME NEW kind, NEW bad, BeginRequest(e, kind, bad)
        PROVE  UNCHANGED <<maxId, localMax, setup, failure, lt>> /\ MayCall(e)
    BY <2>1, Zenon DEF BeginRequest, DrawId
  <2>2. CASE RequestBlocked(e) /\ UNCHANGED trackVars
    BY <2>2 DEF RequestBlocked, trackVars, MayCall
  <2>3. CASE Close(e) /\ UNCHANGED trackVars
    BY <2>3 DEF Close, trackVars, MayCall
  <2> QED  BY <2>1, <2>2, <2>3 DEF MayCall
<1>2. rt'[p] = rt[p]
  <2>1. ASSUME NEW kind, NEW bad, BeginRequest(e, kind, bad) PROVE rt'[p] = rt[p]
    <3> DEFINE id == nextId[e]
               r == [NoRemoteTrack EXCEPT !.kind = kind, !.badNamespace = bad, !.call = "begun"]
    <3>1. rt' = rt \/ rt' = [rt EXCEPT ![e][id] = r]
      BY <2>1, Zenon DEF BeginRequest
    <3> HIDE DEF r
    <3> QED  BY <1>0, <3>1
  <2> QED  BY <2>1 DEF trackVars
<1>3. OwnChannels(e)
  <2>1. m \in Message /\ m.type \notin Grants
    BY ControlAssumption DEF LimitMsg, Message, MessageTypes, Ids, Grants, TypeOK
  <2>2. ctrl' = ctrl \/ Write(e, m)
    BY Zenon DEF BeginRequest, RequestBlocked, Close
  <2> HIDE DEF m
  <2>3. ctrl'[e] = ctrl[e] /\ Said(ctrl[p], ctrl'[p])
    BY <2>1, <2>2, WriteOwn DEF Said
  <2> QED  BY <1>1, <2>3 DEF OwnChannels
<1>4. conn' = conn \/ conn' = "down"
  BY Zenon DEF BeginRequest, RequestBlocked, Close
<1>5. nextId'[p] = nextId[p] /\ Draws(e)
  <2>0. nextId \in [Endpoints -> Nat]
    BY DEF TypeOK
  <2>1. ASSUME NEW kind, NEW bad, BeginRequest(e, kind, bad)
        PROVE  nextId'[p] = nextId[p] /\ Draws(e)
    <3> DEFINE id == nextId[e]
               r == [NoRemoteTrack EXCEPT !.kind = kind, !.badNamespace = bad, !.call = "begun"]
    <3>1. nextId' = [nextId EXCEPT ![e] = id + 2] /\ id < IdBound
      BY <2>1 DEF BeginRequest, DrawId, NextIdAfterDraw
    <3>2. id \in Ids
      BY <2>0, <3>1, ControlAssumption DEF Ids
    <3>3. id \notin Remote(e)
      BY <2>0, <3>2 DEF RequestInv, PairInv
    <3>4. rt' = [rt EXCEPT ![e][id] = r]
      BY <2>1, <3>3, Zenon DEF BeginRequest
    <3>5. r.call = "begun"
      BY DEF NoRemoteTrack
    <3> HIDE DEF r
    <3>6. rt'[e][id].call = "begun"
      BY <1>0, <3>2, <3>4, <3>5
    <3> QED  BY <1>0, <2>0, <3>1, <3>2, <3>6 DEF Draws
  <2>2. CASE RequestBlocked(e) \/ Close(e)
    BY <2>2 DEF RequestBlocked, Close, Draws
  <2> QED  BY <2>1, <2>2
<1> QED  BY <1>1, <1>2, <1>3, <1>4, <1>5 DEF OwnStep, OwnVars

\* A response writer belongs to a request that has arrived.
LEMMA WriterOwn ==
    ASSUME TypeOK, RequestInv, NEW e \in Endpoints, HandlerEnd(e), NEW id \in Ids,
           \/ Accept(e, id) \/ WriteAccept(e, id) \/ Reject(e, id)
           \/ handling[e] = id /\ HandlerReturn(e)
           \/ CloseWithError(e, id)
    PROVE  OwnStep(e)
<1> DEFINE p == Peer(e)
           m == [type |-> OkType(lt[e][id].kind), id |-> id, val |-> OkAlias(e, id)]
<1>0. /\ p \in Endpoints /\ p # e /\ Peer(p) = e
      /\ lt \in [Endpoints -> [Ids -> LocalTrack]] /\ NoRequest # id
  <2>1. NoRequest # id
    BY DEF NoRequest, Ids
  <2> QED  BY <2>1, OwnGround DEF TypeOK
<1>1. UNCHANGED <<nextId, maxId, localMax, setup, conn, rt>>
  BY Zenon DEF Accept, WriteAccept, Reject, HandlerReturn, CloseWithError, controlVars
<1>2. \A x \in Endpoints :
        failure'[x] = failure[x] \/ failure'[x] \notin NoEnds
  <2>1. failure' = failure \/ Return(e, "writeFailed") \/ Return(e, "unknownRequestID")
    BY DEF Accept, WriteAccept, Reject, HandlerReturn, CloseWithError, controlVars
  <2> QED  BY <2>1, OtherFailures DEF NoEnds
<1>3. lt'[p] = lt[p]
  <2>1. CASE Accept(e, id) \/ WriteAccept(e, id)
    BY <1>0, <2>1 DEF Accept, WriteAccept
  <2>2. CASE Reject(e, id) \/ CloseWithError(e, id)
    BY <1>0, <2>2 DEF Reject, CloseWithError
  <2>3. CASE HandlerReturn(e)
    BY <1>0, <2>3 DEF HandlerReturn
  <2> QED  BY <2>1, <2>2, <2>3
<1>4. \/ ctrl' = ctrl \/ Write(e, m)
      \/ \E type \in {"SUBSCRIBE_ERROR", "FETCH_ERROR", "SUBSCRIBE_DONE"} : Write(e, Msg(type, id))
  <2>1. CASE WriteAccept(e, id)
    BY <2>1, Zenon DEF WriteAccept
  <2>2. CASE ~WriteAccept(e, id)
    BY <2>2 DEF Accept, Reject, HandlerReturn, CloseWithError, controlVars, ErrorType
  <2> QED  BY <2>1, <2>2
<1>5. OwnChannels(e)
  <2>1. m \in Message /\ m.type \notin Grants
    BY PlainMessages DEF OkType, OkAlias, MessageTypes, Grants
  <2>2. \A type \in {"SUBSCRIBE_ERROR", "FETCH_ERROR", "SUBSCRIBE_DONE"} :
          Msg(type, id) \in Message /\ Msg(type, id).type \notin Grants
    BY PlainMessages DEF MessageTypes, Grants
  <2> HIDE DEF m
  <2>3. ctrl'[e] = ctrl[e] /\ Said(ctrl[p], ctrl'[p])
    BY <1>4, <2>1, <2>2, WriteOwn DEF Said
  <2> QED  BY <1>1, <2>3 DEF OwnChannels
<1>6. setup[e] = "done" \/ ~Silent(e)
  <2>1. PairInv(p, id)
    BY <1>0 DEF RequestInv
  <2>2. lt[e][id].kind = "none" => id \notin lpending[e] /\ lt[e][id].answer = "none"
    BY <1>0, <2>1 DEF PairInv, Local
  <2>3. CASE handling[e] = id
    BY <2>3, <1>0 DEF HandlerEnd
  <2>4. CASE handling[e] # id
    <3>1. id \in lpending[e] \/ lt[e][id].answer = "confirmed" \/ lt[e][id].kind = "subscribe"
      BY <2>4, Zenon DEF Accept, WriteAccept, Reject, CloseWithError
    <3> QED  BY <2>2, <3>1 DEF Silent
  <2> QED  BY <2>3, <2>4
<1>7. rt'[p] = rt[p]
  BY <1>1
<1> QED  BY <1>1, <1>2, <1>3, <1>5, <1>6, <1>7 DEF OwnStep, OwnVars, Draws

\* The steps that take a limit or a setup message, or meet the end of the connection.
ReaderStep(e) ==
    /\ \/ OnClientSetup \/ WriteServerSetup \/ OnServerSetup
       \/ OnMessageBeforeSetup(e) \/ OnMaxRequestID(e) \/ ReadFails(e)
    /\ UNCHANGED trackVars

\* Every step is one of those or a step of an endpoint's own.
LEMMA StepKinds ==
    ASSUME TypeOK, RequestInv, AgreeInv, [Next]_vars
    PROVE  \/ UNCHANGED vars
           \/ \E e \in Endpoints : OwnStep(e) \/ ReaderStep(e)
<1>0. \A e \in Endpoints : HandlerEnd(e)
  BY DEF AgreeInv
<1>1. ASSUME NEW e \in Endpoints, Reader(e) PROVE OwnStep(e) \/ ReaderStep(e)
  <2>1. CASE ControlStep(e)
    BY <2>1, PeerRequestOwn DEF ControlStep, ControlReads, ReaderStep
  <2> QED  BY <1>1, <2>1, PeerRequestOwn, AnswerOwn DEF Reader
<1>2. ASSUME NEW e \in Endpoints, HandlerReturn(e) PROVE OwnStep(e)
  <2>1. handling[e] \in Ids
    BY <1>2 DEF HandlerReturn, TypeOK
  <2> QED  BY <1>0, <1>2, <2>1, WriterOwn
<1>3. ASSUME NEW e \in Endpoints, Application(e) PROVE OwnStep(e)
  BY <1>0, <1>3, SessionOwn, CallOwn, WriterOwn DEF Application
<1>4. ASSUME NEW e \in Endpoints, NEW id \in Ids, CallStep(e, id) \/ WriteAccept(e, id)
      PROVE  OwnStep(e)
  BY <1>0, <1>4, CallOwn, WriterOwn
<1> QED  BY <1>1, <1>2, <1>3, <1>4 DEF Next

\* What Ceiling is at each end.
LEMMA CeilingValue ==
    ASSUME TypeOK
    PROVE  /\ Ceiling(Server) = localMax[Client] /\ Ceiling(Client) \in Nat
           /\ Ceiling(Client) = IF localMax[Server] < ServerSetupMax THEN ServerSetupMax
                                ELSE localMax[Server]
           /\ localMax[Client] \in Nat /\ localMax[Server] \in Nat
           /\ maxId[Client] \in Nat /\ maxId[Server] \in Nat
           /\ ServerSetupMax \in Nat /\ InitialMaxRequestID[Server] \in Nat
           /\ Client \in Endpoints /\ Server \in Endpoints /\ Client # Server
           /\ Peer(Client) = Server /\ Peer(Server) = Client /\ Endpoints = {Client, Server}
           /\ ctrl[Client] \in Seq(Message) /\ ctrl[Server] \in Seq(Message)
           /\ ~LimitsGrow(Client) \/ ServerSetupMax <= 2 * InitialMaxRequestID[Server]
BY ControlAssumption DEF TypeOK, Ceiling, LimitsGrow, Endpoints, Client, Server, Peer

\* A channel from which its reader may have taken one message.
LEMMA TakenKept ==
    ASSUME NEW q \in Seq(Message), NEW s, s = q \/ (q # << >> /\ s = Tail(q))
    PROVE  /\ \A lo, hi \in Nat : GrantsOK(q, lo, hi) => GrantsOK(s, lo, hi)
           /\ NoGrants(q) => NoGrants(s)
BY KeptTail DEF LimitsKept

\* A raised limit is announced after those granted before it, and is no less.
LEMMA AnnouncedKept ==
    ASSUME TypeOK, RaiseInv, NEW e \in Endpoints, NEW id \in Ids, NEW s,
           LimitsGrow(Peer(e)), Said(AnnounceLimit(e, id), s),
           localMax' = [localMax EXCEPT ![e] = LimitAfter(e, id)]
    PROVE  GrantsOK(s, maxId[Peer(e)], Ceiling(Peer(e))') /\ maxId[Peer(e)] <= Ceiling(Peer(e))'
<1> DEFINE p == Peer(e)
           a == AnnounceLimit(e, id)
           L == LimitAfter(e, id)
           m == LimitMsg("MAX_REQUEST_ID", 2 * localMax[e])
<1>0. /\ p \in Endpoints /\ p # e /\ Peer(p) = e
      /\ ctrl[p] \in Seq(Message) /\ maxId[p] \in Nat /\ localMax[e] \in Nat
  BY OwnGround DEF TypeOK
<1>1. m \in Message /\ m.type \in Grants /\ m.val = 2 * localMax[e] /\ m.val \in Nat
  <2>1. 2 * localMax[e] \in Nat
    BY <1>0
  <2> QED  BY <2>1, ControlAssumption DEF LimitMsg, Message, MessageTypes, Grants, Ids
<1>2. \/ a = ctrl[p] /\ (L = localMax[e] \/ L = 2 * localMax[e])
      \/ a = Append(ctrl[p], m) /\ L = 2 * localMax[e]
  BY DEF AnnounceLimit, LimitAfter, Written
<1>3. localMax'[e] = L
  BY DEF TypeOK
<1>c. Ceiling(p) \in Nat
  BY <1>0, CeilingValue DEF p
<1> PICK c \in Nat : c = Ceiling(p)
  BY <1>c
<1> HIDE DEF m, L, a
<1>4. /\ c <= 2 * localMax[e]
      /\ Ceiling(p)' \in Nat /\ c <= Ceiling(p)'
      /\ L = 2 * localMax[e] => Ceiling(p)' = 2 * localMax[e]
  <2>1. L \in Nat /\ localMax[e] <= L
    BY <1>0, <1>2
  <2>2. CASE e = Server
    <3>1. /\ p = Client /\ ServerSetupMax <= 2 * InitialMaxRequestID[Server]
          /\ InitialMaxRequestID[Server] <= localMax[Server]
      BY <2>2, CeilingValue DEF p, RaiseInv
    <3>2. c = IF localMax[e] < ServerSetupMax THEN ServerSetupMax ELSE localMax[e]
      BY <2>2, <3>1, CeilingValue
    <3>3. Ceiling(p)' = IF L < ServerSetupMax THEN ServerSetupMax ELSE L
      BY <1>3, <2>2, <3>1, CeilingValue DEF Ceiling
    <3>4. InitialMaxRequestID[Server] \in Nat /\ ServerSetupMax \in Nat
      BY CeilingValue
    <3> QED  BY <1>0, <2>1, <2>2, <3>1, <3>2, <3>3, <3>4
  <2>3. CASE e = Client
    <3>1. p = Server /\ c = localMax[e]
      BY <2>3, CeilingValue DEF p
    <3>2. Ceiling(p)' = L
      BY <1>3, <2>3, <3>1, CeilingValue DEF Ceiling
    <3> QED  BY <1>0, <2>1, <3>1, <3>2
  <2> QED  BY <2>2, <2>3 DEF Endpoints
<1>5. maxId[p] <= c /\ GrantsOK(ctrl[p], maxId[p], c)
  BY <1>0 DEF RaiseInv
<1>6. GrantsOK(a, maxId[p], Ceiling(p)') /\ a \in Seq(Message)
  <2>1. CASE a = ctrl[p]
    BY <1>0, <1>4, <1>5, <2>1, LimitsMonotone
  <2>2. CASE a = Append(ctrl[p], m) /\ L = 2 * localMax[e]
    <3>1. GrantsOK(Append(ctrl[p], m), maxId[p], m.val)
      BY <1>0, <1>1, <1>4, <1>5, GrantAppended
    <3> QED  BY <1>0, <1>1, <1>4, <2>2, <3>1, AppendProperties
  <2> QED  BY <1>2, <2>1, <2>2
<1>7. GrantsOK(s, maxId[p], Ceiling(p)')
  BY <1>0, <1>4, <1>6, SaidKept DEF a
<1> QED  BY <1>0, <1>4, <1>5, <1>7

\* A step of e's own keeps the limits in order.
LEMMA RaiseOwn ==
    ASSUME TypeOK, RaiseInv, NEW e \in Endpoints, OwnStep(e)
    PROVE  RaiseInv'
<1> DEFINE p == Peer(e)
<1>0. /\ p \in Endpoints /\ p # e /\ Peer(p) = e
      /\ \A x \in Endpoints : x = e \/ x = p
      /\ ctrl[e] \in Seq(Message) /\ ctrl[p] \in Seq(Message)
      /\ \A x \in Endpoints : maxId[x] \in Nat /\ localMax[x] \in Nat /\ Ceiling(x) \in Nat
  BY OwnGround, CeilingValue DEF TypeOK
<1>1. /\ UNCHANGED <<setup, maxId>>
      /\ \A x \in Endpoints : failure'[x] = "maxRequestIDDecreased" =>
                                failure[x] = "maxRequestIDDecreased"
  BY DEF OwnStep, OwnVars, NoEnds
<1>2. /\ \A lo, hi \in Nat : GrantsOK(ctrl[e], lo, hi) => GrantsOK(ctrl'[e], lo, hi)
      /\ NoGrants(ctrl[e]) => NoGrants(ctrl'[e])
  <2>1. ctrl'[e] = ctrl[e] \/ (ctrl[e] # << >> /\ ctrl'[e] = Tail(ctrl[e]))
    BY DEF OwnStep, OwnChannels
  <2> QED  BY <1>0, <2>1, TakenKept
<1>3. CASE localMax' = localMax /\ Said(ctrl[p], ctrl'[p])
  <2>1. /\ \A lo, hi \in Nat : GrantsOK(ctrl[p], lo, hi) => GrantsOK(ctrl'[p], lo, hi)
        /\ NoGrants(ctrl[p]) => NoGrants(ctrl'[p])
    BY <1>0, <1>3, SaidKept
  <2>2. \A x \in Endpoints : Ceiling(x)' = Ceiling(x)
    BY <1>3 DEF Ceiling
  <2>3. \A x \in Endpoints : LimitsGrow(x) => /\ maxId'[x] <= Ceiling(x)'
                                              /\ GrantsOK(ctrl'[x], maxId'[x], Ceiling(x)')
                                              /\ failure'[x] # "maxRequestIDDecreased"
    BY <1>0, <1>1, <1>2, <2>1, <2>2 DEF RaiseInv
  <2>4. setup'[Server] # "done" => maxId'[Client] = 0 /\ NoGrants(ctrl'[Client])
    BY <1>0, <1>1, <1>2, <2>1, CeilingValue DEF RaiseInv
  <2> QED  BY <1>3, <2>3, <2>4 DEF RaiseInv, LimitsGrow
<1>4. ASSUME NEW id \in Ids, setup[e] = "done", Said(AnnounceLimit(e, id), ctrl'[p]),
             localMax' = [localMax EXCEPT ![e] = LimitAfter(e, id)]
      PROVE  RaiseInv'
  <2>1. LimitsGrow(p) => GrantsOK(ctrl'[p], maxId[p], Ceiling(p)') /\ maxId[p] <= Ceiling(p)'
    BY <1>4, AnnouncedKept
  <2>2. localMax'[e] = LimitAfter(e, id) /\ localMax'[p] = localMax[p]
    BY <1>0, <1>4 DEF TypeOK
  <2>3. Ceiling(e)' = Ceiling(e)
    <3>1. Ceiling(e) = IF e = Client /\ localMax[p] < ServerSetupMax THEN ServerSetupMax
                       ELSE localMax[p]
      BY CeilingValue DEF Ceiling
    <3>2. Ceiling(e)' = IF e = Client /\ localMax'[p] < ServerSetupMax THEN ServerSetupMax
                        ELSE localMax'[p]
      BY CeilingValue DEF Ceiling
    <3> QED  BY <2>2, <3>1, <3>2
  <2>4. ASSUME NEW x \in Endpoints, LimitsGrow(x)
        PROVE  /\ maxId'[x] <= Ceiling(x)' /\ GrantsOK(ctrl'[x], maxId'[x], Ceiling(x)')
               /\ failure'[x] # "maxRequestIDDecreased"
    <3>1. CASE x = p
      BY <1>1, <2>1, <2>4, <3>1 DEF RaiseInv
    <3>2. CASE x = e
      BY <1>0, <1>1, <1>2, <2>3, <2>4, <3>2 DEF RaiseInv
    <3> QED  BY <1>0, <3>1, <3>2
  <2>5. setup'[Server] # "done" => maxId'[Client] = 0 /\ NoGrants(ctrl'[Client])
    BY <1>0, <1>1, <1>2, <1>4, CeilingValue DEF RaiseInv
  <2>6. InitialMaxRequestID[Server] <= localMax'[Server]
    <3>1. LimitAfter(e, id) >= localMax[e]
      BY <1>0 DEF LimitAfter
    <3>2. localMax'[Server] >= localMax[Server] /\ localMax'[Server] \in Nat
      <4>1. LimitAfter(e, id) \in Nat
        BY <1>0 DEF LimitAfter
      <4>2. Server = e \/ Server = p
        BY <1>0, CeilingValue
      <4>3. localMax[Server] \in Nat
        BY CeilingValue
      <4> QED  BY <2>2, <3>1, <4>1, <4>2, <4>3
    <3>3. InitialMaxRequestID[Server] <= localMax[Server]
      BY DEF RaiseInv
    <3>4. InitialMaxRequestID[Server] \in Nat /\ localMax[Server] \in Nat
      BY CeilingValue
    <3> QED  BY <3>2, <3>3, <3>4
  <2> QED  BY <2>4, <2>5, <2>6 DEF RaiseInv, LimitsGrow
<1> QED  BY <1>3, <1>4 DEF OwnStep, OwnChannels

\* A limit that arrives is accepted, and the ones behind it are no less.
LEMMA RaiseReceived ==
    ASSUME TypeOK, RaiseInv, NEW e \in Endpoints, ctrl[e] # << >>,
           Head(ctrl[e]).type \in Grants, Consume(e), localMax' = localMax,
           SetMax(e, Head(ctrl[e]).val),
           setup'[Server] # "done" => setup[Server] # "done"
    PROVE  RaiseInv'
<1> DEFINE p == Peer(e)
           h == Head(ctrl[e])
<1>0. /\ p \in Endpoints /\ p # e /\ Peer(p) = e
      /\ \A x \in Endpoints : x = e \/ x = p
      /\ ctrl[e] \in Seq(Message) /\ ctrl[p] \in Seq(Message)
      /\ \A x \in Endpoints : maxId[x] \in Nat /\ localMax[x] \in Nat /\ Ceiling(x) \in Nat
      /\ h \in Message /\ h.val \in Nat
  BY OwnGround, CeilingValue DEF TypeOK, Message
<1>1. /\ ctrl'[e] = Tail(ctrl[e]) /\ ctrl'[p] = ctrl[p]
      /\ \A x \in Endpoints : Ceiling(x)' = Ceiling(x)
  BY <1>0 DEF Consume, TypeOK, Ceiling
<1>2. maxId'[p] = maxId[p] /\ failure'[p] = failure[p]
  BY <1>0 DEF SetMax, Return, TypeOK
<1>3. ASSUME LimitsGrow(e)
      PROVE  /\ maxId'[e] <= Ceiling(e) /\ GrantsOK(ctrl'[e], maxId'[e], Ceiling(e))
             /\ failure'[e] # "maxRequestIDDecreased"
  <2>1. /\ maxId[e] <= h.val /\ h.val <= Ceiling(e)
        /\ GrantsOK(Tail(ctrl[e]), h.val, Ceiling(e)) /\ failure[e] # "maxRequestIDDecreased"
    BY <1>0, <1>3, GrantTaken DEF RaiseInv
  <2>2. maxId'[e] = h.val /\ failure' = failure
    BY <1>0, <2>1 DEF SetMax, MaxAccepted, TypeOK
  <2> QED  BY <1>1, <2>1, <2>2
<1>4. \A x \in Endpoints : LimitsGrow(x) => /\ maxId'[x] <= Ceiling(x)'
                                            /\ GrantsOK(ctrl'[x], maxId'[x], Ceiling(x)')
                                            /\ failure'[x] # "maxRequestIDDecreased"
  BY <1>0, <1>1, <1>2, <1>3 DEF RaiseInv
<1>5. ASSUME setup'[Server] # "done"
      PROVE  maxId'[Client] = 0 /\ NoGrants(ctrl'[Client])
  <2>1. maxId[Client] = 0 /\ NoGrants(ctrl[Client])
    BY <1>5 DEF RaiseInv
  <2>2. CASE e = Client
    <3>1. h = ctrl[e][1] /\ 1 \in 1 .. Len(ctrl[e])
      BY <1>0, TailElements
    <3> QED  BY <2>1, <2>2, <3>1 DEF NoGrants
  <2>3. CASE p = Client
    BY <1>1, <1>2, <2>1, <2>3
  <2> QED  BY <1>0, <2>2, <2>3, CeilingValue
<1>6. InitialMaxRequestID[Server] <= localMax'[Server]
  BY DEF RaiseInv
<1> QED  BY <1>4, <1>5, <1>6 DEF RaiseInv, LimitsGrow

\* The setup messages and the limits are taken and written in order.
LEMMA RaiseReader ==
    ASSUME TypeOK, RaiseInv, RequestInv, NEW e \in Endpoints, ReaderStep(e)
    PROVE  RaiseInv'
<1>0. /\ Client \in Endpoints /\ Server \in Endpoints /\ Client # Server
      /\ Peer(Client) = Server /\ Peer(Server) = Client /\ Endpoints = {Client, Server}
      /\ setup \in [Endpoints -> {"waiting", "limitSet", "done"}]
      /\ ctrl \in [Endpoints -> Seq(Message)]
  BY CeilingValue DEF TypeOK
<1>1. CASE OnClientSetup
  <2> DEFINE h == Head(ctrl[Server])
  <2>1. /\ ctrl[Server] # << >> /\ h.type \in Grants /\ Consume(Server)
        /\ maxId' = [maxId EXCEPT ![Server] = IF h.val > 0 THEN h.val ELSE @]
        /\ UNCHANGED <<localMax, failure>> /\ setup[Server] = "waiting"
    BY <1>1 DEF OnClientSetup, NextIs, Grants
  <2>2. maxId[Server] = 0 /\ h.val \in Nat
    BY <1>0, <2>1, HeadType DEF RequestInv, Message
  <2> HIDE DEF h
  <2>3. (IF h.val > 0 THEN h.val ELSE maxId[Server]) = h.val /\ h.val >= maxId[Server]
    BY <2>2
  <2>4. maxId' = [maxId EXCEPT ![Server] = h.val]
    BY <2>1, <2>3, Zenon
  <2>5. SetMax(Server, h.val) /\ setup[Server] # "done"
    BY <2>1, <2>3, <2>4, Zenon DEF SetMax, MaxAccepted
  <2> QED  BY <1>0, <2>1, <2>5, RaiseReceived DEF h
<1>2. CASE WriteServerSetup
  <2> DEFINE m == LimitMsg("SERVER_SETUP", ServerSetupMax)
             q == ctrl[Client]
  <2>0. /\ UNCHANGED <<maxId, localMax>> /\ setup[Server] # "done"
        /\ \A x \in Endpoints : Ceiling(x)' = Ceiling(x)
        /\ maxId[Client] = 0 /\ NoGrants(q)
    BY <1>2 DEF WriteServerSetup, Ceiling, RaiseInv
  <2>1. /\ ctrl'[Server] = ctrl[Server]
        /\ ctrl'[Client] = q \/ (ctrl'[Client] = Append(q, m) /\ setup'[Server] = "done")
    BY <1>0, <1>2 DEF WriteServerSetup, Write, Written, WriteFails, TypeOK
  <2>2. \A x \in Endpoints : failure'[x] = failure[x] \/ failure'[x] = "writeFailed"
    BY <1>0, <1>2 DEF WriteServerSetup, Return, TypeOK
  <2>3. /\ m \in Message /\ m.type \in Grants /\ m.val = ServerSetupMax
        /\ ServerSetupMax \in Nat /\ q \in Seq(Message)
    BY <1>0, ControlAssumption, MsgType DEF LimitMsg, Message, MessageTypes, Grants, Ids
  <2>4. GrantsOK(q, 0, 0)
    BY <2>0 DEF GrantsOK, NoGrants
  <2> HIDE DEF m
  <2>5. GrantsOK(Append(q, m), 0, Ceiling(Client))
    <3>1. GrantsOK(Append(q, m), 0, ServerSetupMax) /\ Append(q, m) \in Seq(Message)
      BY <2>3, <2>4, GrantAppended, AppendProperties
    <3>2. ServerSetupMax <= Ceiling(Client) /\ Ceiling(Client) \in Nat
      BY CeilingValue
    <3> QED  BY <2>3, <3>1, <3>2, LimitsMonotone
  <2>6. \A x \in Endpoints : LimitsGrow(x) => /\ maxId'[x] <= Ceiling(x)'
                                              /\ GrantsOK(ctrl'[x], maxId'[x], Ceiling(x)')
                                              /\ failure'[x] # "maxRequestIDDecreased"
    BY <1>0, <2>0, <2>1, <2>2, <2>5 DEF RaiseInv
  <2>7. setup'[Server] # "done" => maxId'[Client] = 0 /\ NoGrants(ctrl'[Client])
    BY <2>0, <2>1
  <2> QED  BY <2>0, <2>6, <2>7 DEF RaiseInv, LimitsGrow
<1>3. CASE OnServerSetup
  <2>1. /\ ctrl[Client] # << >> /\ Head(ctrl[Client]).type \in Grants
        /\ Consume(Client) /\ SetMax(Client, Head(ctrl[Client]).val) /\ localMax' = localMax
    BY <1>3 DEF OnServerSetup, NextIs, Grants
  <2>2. setup'[Server] = setup[Server]
    BY <1>0, <1>3 DEF OnServerSetup
  <2> QED  BY <1>0, <2>1, <2>2, RaiseReceived
<1>4. CASE OnMaxRequestID(e)
  <2>1. /\ ctrl[e] # << >> /\ Head(ctrl[e]).type \in Grants
        /\ Consume(e) /\ SetMax(e, Head(ctrl[e]).val) /\ UNCHANGED <<localMax, setup>>
    BY <1>4 DEF OnMaxRequestID, Reading, NextIs, Grants
  <2> QED  BY <2>1, RaiseReceived
<1>5. CASE OnMessageBeforeSetup(e) \/ ReadFails(e)
  <2>1. /\ UNCHANGED <<maxId, localMax, setup>>
        /\ (ctrl[e] # << >> /\ Consume(e)) \/ ctrl' = ctrl
        /\ Return(e, "beforeSetup") \/ Return(e, "connectionClosed")
    BY <1>5 DEF OnMessageBeforeSetup, ReadFails
  <2>2. ASSUME NEW x \in Endpoints
        PROVE  /\ \A lo, hi \in Nat : GrantsOK(ctrl[x], lo, hi) => GrantsOK(ctrl'[x], lo, hi)
               /\ NoGrants(ctrl[x]) => NoGrants(ctrl'[x])
               /\ failure'[x] = "maxRequestIDDecreased" => failure[x] = "maxRequestIDDecreased"
               /\ Ceiling(x)' = Ceiling(x)
    <3>1. ctrl'[x] = ctrl[x] \/ (ctrl[x] # << >> /\ ctrl'[x] = Tail(ctrl[x]))
      BY <1>0, <2>1 DEF Consume
    <3>2. failure'[x] = "maxRequestIDDecreased" => failure[x] = "maxRequestIDDecreased"
      BY <2>1 DEF Return, TypeOK
    <3>3. Ceiling(x)' = Ceiling(x)
      BY <2>1 DEF Ceiling
    <3> QED  BY <1>0, <3>1, <3>2, <3>3, TakenKept
  <2>3. \A x \in Endpoints : maxId[x] \in Nat /\ Ceiling(x) \in Nat
    BY <1>0, CeilingValue
  <2>4. \A x \in Endpoints : LimitsGrow(x) => /\ maxId'[x] <= Ceiling(x)'
                                              /\ GrantsOK(ctrl'[x], maxId'[x], Ceiling(x)')
                                              /\ failure'[x] # "maxRequestIDDecreased"
    BY <2>1, <2>2, <2>3 DEF RaiseInv
  <2> QED  BY <1>0, <2>1, <2>2, <2>4 DEF RaiseInv, LimitsGrow
<1> QED  BY <1>1, <1>2, <1>3, <1>4, <1>5 DEF ReaderStep

\* A step of x's own comes after its setup, so the peer's setup is still first.
LEMMA SetupOwn ==
    ASSUME TypeOK, SetupInv, NEW x \in Endpoints, OwnStep(x)
    PROVE  SetupInv'
<1>0. /\ Client \in Endpoints /\ Server \in Endpoints /\ Client # Server
      /\ Peer(Client) = Server /\ Peer(Server) = Client /\ Endpoints = {Client, Server}
      /\ setup \in [Endpoints -> {"waiting", "limitSet", "done"}]
      /\ ctrl[Client] \in Seq(Message)
  BY CeilingValue DEF TypeOK
<1>1. UNCHANGED setup
  BY DEF OwnStep, OwnVars
<1> SUFFICES ASSUME ~EarlyCalls
             PROVE  /\ \A e \in Endpoints : setup[e] # "done" => Silent(e)'
                    /\ setup[Server] # "done" => setup[Client] # "done" /\ ctrl'[Client] = << >>
                    /\ setup[Server] = "waiting" /\ ctrl'[Server] # << >> =>
                         Head(ctrl'[Server]).type = "CLIENT_SETUP"
                    /\ setup[Server] = "done" /\ setup[Client] = "waiting" =>
                         ctrl'[Client] # << >> /\ Head(ctrl'[Client]).type = "SERVER_SETUP"
                    /\ \A e \in Endpoints : failure'[e] # "beforeSetup"
  BY <1>1 DEF SetupInv
<1>2. setup[x] = "done" /\ setup[Server] = "done"
  BY <1>0 DEF OwnStep, SetupInv
<1>3. ASSUME NEW e \in Endpoints, setup[e] # "done" PROVE Silent(e)'
  <2>1. e = Peer(x) /\ Silent(e)
    BY <1>0, <1>2, <1>3 DEF SetupInv
  <2>2. rt'[e] = rt[e] /\ lt'[e] = lt[e]
    BY <2>1 DEF OwnStep, OwnVars
  <2> QED  BY <2>1, <2>2 DEF Silent
<1>4. ASSUME setup[Client] = "waiting"
      PROVE  ctrl'[Client] # << >> /\ Head(ctrl'[Client]).type = "SERVER_SETUP"
  <2>1. x = Server /\ ctrl[Client] # << >> /\ Head(ctrl[Client]).type = "SERVER_SETUP"
    BY <1>0, <1>2, <1>4 DEF SetupInv
  <2>2. CASE Said(ctrl[Client], ctrl'[Client])
    BY <1>0, <2>1, <2>2, SaidKept
  <2>3. ASSUME NEW id \in Ids, Said(AnnounceLimit(Server, id), ctrl'[Client])
        PROVE  ctrl'[Client] # << >> /\ Head(ctrl'[Client]).type = "SERVER_SETUP"
    <3> DEFINE m == LimitMsg("MAX_REQUEST_ID", 2 * localMax[Server])
               a == AnnounceLimit(Server, id)
    <3>1. m \in Message
      <4>1. 2 * localMax[Server] \in Nat
        BY CeilingValue
      <4> QED  BY <4>1, ControlAssumption DEF LimitMsg, Message, MessageTypes, Ids
    <3>2. a = ctrl[Client] \/ a = Append(ctrl[Client], m)
      BY <1>0 DEF AnnounceLimit, Written
    <3> HIDE DEF m, a
    <3>3. /\ a \in Seq(Message) /\ a # << >> /\ Head(a) = Head(ctrl[Client])
      BY <1>0, <2>1, <3>1, <3>2
    <3> QED  BY <2>1, <2>3, <3>3, SaidKept DEF a
  <2> QED  BY <1>0, <2>1, <2>2, <2>3 DEF OwnStep, OwnChannels
<1>5. \A e \in Endpoints : failure'[e] # "beforeSetup"
  BY DEF OwnStep, OwnVars, NoEnds, SetupInv
<1> QED  BY <1>2, <1>3, <1>4, <1>5

\* The setup messages are exchanged in order.
LEMMA SetupReader ==
    ASSUME TypeOK, RequestInv, SetupInv, NEW e \in Endpoints, ReaderStep(e)
    PROVE  SetupInv'
<1>0. /\ Client \in Endpoints /\ Server \in Endpoints /\ Client # Server
      /\ Peer(Client) = Server /\ Peer(Server) = Client /\ Endpoints = {Client, Server}
      /\ setup \in [Endpoints -> {"waiting", "limitSet", "done"}]
      /\ ctrl \in [Endpoints -> Seq(Message)] /\ failure \in [Endpoints -> Failures]
  BY CeilingValue DEF TypeOK
<1>s. \A x \in Endpoints : Silent(x)' <=> Silent(x)
  BY DEF ReaderStep, trackVars, Silent
<1>1. CASE OnClientSetup
  <2>1. /\ setup[Server] = "waiting" /\ setup'[Server] = "limitSet"
        /\ setup'[Client] = setup[Client] /\ ctrl'[Client] = ctrl[Client] /\ failure' = failure
    BY <1>0, <1>1 DEF OnClientSetup, Consume
  <2> QED  BY <1>0, <1>s, <2>1 DEF SetupInv
<1>2. CASE WriteServerSetup
  <2> DEFINE m == LimitMsg("SERVER_SETUP", ServerSetupMax)
  <2>1. /\ setup[Server] = "limitSet" /\ setup'[Client] = setup[Client]
        /\ ctrl'[Server] = ctrl[Server] /\ ctrl'[Client] = Written(ctrl[Client], m)
        /\ \A x \in Endpoints : failure'[x] = "beforeSetup" => failure[x] = "beforeSetup"
    BY <1>0, <1>2 DEF WriteServerSetup, Write, Return
  <2>2. \/ conn = "down" /\ setup'[Server] = "limitSet"
        \/ conn # "down" /\ setup'[Server] = "done"
    BY <1>0, <1>2 DEF WriteServerSetup, WriteFails
  <2>3. conn = "down" => ctrl'[Client] = ctrl[Client]
    BY <2>1 DEF Written
  <2>4. conn # "down" /\ ctrl[Client] = << >> =>
          ctrl'[Client] # << >> /\ Head(ctrl'[Client]).type = "SERVER_SETUP"
    <3>1. m.type = "SERVER_SETUP" /\ conn \in {"up", "down"}
      BY DEF LimitMsg, TypeOK
    <3> HIDE DEF m
    <3>2. Append(<< >>, m) # << >> /\ Head(Append(<< >>, m)) = m
      OBVIOUS
    <3> QED  BY <2>1, <3>1, <3>2 DEF Written
  <2> HIDE DEF m
  <2> QED  BY <1>0, <1>s, <2>1, <2>2, <2>3, <2>4 DEF SetupInv
<1>3. CASE OnServerSetup
  <2>1. /\ setup[Client] = "waiting" /\ ctrl[Client] # << >> /\ setup'[Server] = setup[Server]
        /\ ctrl'[Server] = ctrl[Server] /\ Head(ctrl[Client]).val \in Nat
    BY <1>0, <1>3, HeadType DEF OnServerSetup, NextIs, Consume, Message
  <2>2. maxId[Client] = 0
    BY <1>0, <2>1 DEF RequestInv
  <2>3. setup'[Client] = "done" /\ failure' = failure
    BY <1>0, <1>3, <2>1, <2>2 DEF OnServerSetup, SetMax, MaxAccepted
  <2>4. ~EarlyCalls => setup[Server] = "done"
    BY <2>1 DEF SetupInv
  <2> QED  BY <1>0, <1>s, <2>1, <2>3, <2>4 DEF SetupInv
<1>4. CASE OnMessageBeforeSetup(e)
  <2>1. /\ setup[e] = "waiting" /\ ctrl[e] # << >> /\ setup' = setup
        /\ Head(ctrl[e]).type \notin {"CLIENT_SETUP", "SERVER_SETUP"}
    BY <1>4 DEF OnMessageBeforeSetup
  <2>2. EarlyCalls
    <3>1. CASE e = Server
      BY <2>1, <3>1 DEF SetupInv
    <3>2. CASE e = Client
      BY <2>1, <3>2 DEF SetupInv
    <3> QED  BY <1>0, <3>1, <3>2
  <2> QED  BY <2>1, <2>2 DEF SetupInv
<1>5. CASE OnMaxRequestID(e)
  <2>1. /\ setup[e] = "done" /\ setup' = setup
        /\ \A x \in Endpoints : x # e => ctrl'[x] = ctrl[x]
        /\ \A x \in Endpoints : failure'[x] = "beforeSetup" => failure[x] = "beforeSetup"
    BY <1>0, <1>5 DEF OnMaxRequestID, Reading, Consume, SetMax, Return
  <2>2. ~EarlyCalls => setup[Server] = "done"
    BY <1>0, <2>1 DEF SetupInv
  <2>3. setup[Client] = "waiting" => ctrl'[Client] = ctrl[Client]
    BY <1>0, <2>1
  <2> QED  BY <1>0, <1>s, <2>1, <2>2, <2>3 DEF SetupInv
<1>6. CASE ReadFails(e)
  <2>1. /\ UNCHANGED <<setup, ctrl>>
        /\ \A x \in Endpoints : failure'[x] = "beforeSetup" => failure[x] = "beforeSetup"
    BY <1>0, <1>6 DEF ReadFails, Return
  <2> QED  BY <1>s, <2>1 DEF SetupInv
<1> QED  BY <1>1, <1>2, <1>3, <1>4, <1>5, <1>6 DEF ReaderStep

\* The limits and the setup are in order in every state.
LEMMA RaiseAlways == Spec => [](TypeOK /\ RequestInv /\ AgreeInv /\ RaiseInv /\ SetupInv)
<1>1. Init => RaiseInv /\ SetupInv
  <2> SUFFICES ASSUME Init PROVE RaiseInv /\ SetupInv
    OBVIOUS
  <2> DEFINE m == LimitMsg("CLIENT_SETUP", InitialMaxRequestID[Client])
  <2>0. /\ Client \in Endpoints /\ Server \in Endpoints /\ Client # Server
        /\ Peer(Client) = Server /\ Peer(Server) = Client /\ Endpoints = {Client, Server}
        /\ InitialMaxRequestID[Client] \in Nat /\ InitialMaxRequestID[Server] \in Nat
        /\ ServerSetupMax \in Nat
    BY ControlAssumption DEF Endpoints, Client, Server, Peer
  <2>1. /\ ctrl[Client] = << >> /\ ctrl[Server] = <<m>> /\ localMax = InitialMaxRequestID
        /\ \A e \in Endpoints : maxId[e] = 0 /\ failure[e] = "none" /\ setup[e] = "waiting"
    BY <2>0 DEF Init, ControlInit
  <2>2. m.type = "CLIENT_SETUP" /\ m.val = InitialMaxRequestID[Client]
    BY DEF LimitMsg
  <2> HIDE DEF m
  <2>3. /\ Len(<<m>>) = 1 /\ <<m>>[1] = m /\ Head(<<m>>) = m
        /\ \A i \in 1 .. 1 : i = 1
    OBVIOUS
  <2>4. GrantsOK(ctrl[Server], 0, InitialMaxRequestID[Client])
    BY <2>0, <2>1, <2>2, <2>3 DEF GrantsOK
  <2>5. NoGrants(ctrl[Client]) /\ \A hi \in Nat : GrantsOK(ctrl[Client], 0, hi)
    BY <2>1 DEF NoGrants, GrantsOK
  <2>6. /\ Ceiling(Server) = InitialMaxRequestID[Client] /\ Ceiling(Client) \in Nat
    BY <2>0, <2>1 DEF Ceiling
  <2>7. RaiseInv
    BY <2>0, <2>1, <2>4, <2>5, <2>6 DEF RaiseInv
  <2>8. \A e \in Endpoints : Silent(e)
    BY DEF Init, Silent, NoRemoteTrack, NoLocalTrack
  <2>9. SetupInv
    BY <2>0, <2>1, <2>2, <2>3, <2>8 DEF SetupInv
  <2> QED  BY <2>7, <2>9
<1>2. /\ TypeOK /\ RequestInv /\ AgreeInv /\ RaiseInv /\ SetupInv /\ [Next]_vars
      => RaiseInv' /\ SetupInv'
  <2> SUFFICES ASSUME TypeOK, RequestInv, AgreeInv, RaiseInv, SetupInv, [Next]_vars
               PROVE  RaiseInv' /\ SetupInv'
    OBVIOUS
  <2>1. CASE UNCHANGED vars
    BY <2>1 DEF vars, controlVars, trackVars, RaiseInv, SetupInv, Silent, Ceiling, LimitsGrow
  <2> QED  BY <2>1, StepKinds, RaiseOwn, RaiseReader, SetupOwn, SetupReader
<1> QED  BY <1>1, <1>2, AgreeAlways, PTL DEF Spec

\* A reader of subscriptions and fetches ends only for a reason that DeathHasCause
\* names, for every number of requests, every limit and every mix of calls: never for
\* a duplicate request (local_track_map.go:24), for a lower limit only at the client
\* of a server whose SERVER_SETUP promised more than twice what it enforces
\* (session.go:1027), and for an early message only if an application did not wait for
\* Run; each unknown request ID is traced back to the call that made it unknown.
THEOREM DeathsHaveCause == Spec => []DeathHasCause
<1>1. AgreeInv /\ RaiseInv /\ SetupInv => DeathHasCause
  <2> SUFFICES ASSUME AgreeInv, RaiseInv, SetupInv
               PROVE  DeathHasCause
    OBVIOUS
  <2>1. \A e \in Endpoints : Deaths(e)
    BY DEF AgreeInv
  <2>2. \A e \in Endpoints : failure[e] = "maxRequestIDDecreased" =>
          e = Client /\ 2 * InitialMaxRequestID[Server] < ServerSetupMax
    <3>1. ServerSetupMax \in Nat /\ InitialMaxRequestID[Server] \in Nat
      BY ControlAssumption DEF Endpoints
    <3> QED  BY <3>1 DEF RaiseInv, LimitsGrow
  <2>3. \A e \in Endpoints : failure[e] = "beforeSetup" => EarlyCalls
    BY DEF SetupInv
  <2> QED  BY <2>1, <2>2, <2>3 DEF DeathHasCause, Deaths, UnknownCause
<1> QED  BY <1>1, RaiseAlways, PTL

-----------------------------------------------------------------------------
(***************************************************************************)
(* Endpoints that run out of Request IDs.                                  *)
(***************************************************************************)

\* The last limit in q, if there is one, is L.
Latest(q, L) ==
    \A i \in 1 .. Len(q) :
      /\ q[i].type \in Grants
      /\ \A j \in 1 .. Len(q) : i < j => q[j].type \notin Grants
      => q[i].val = L

\* What the peer of e enforces is what it has promised e.
Promised(e) == e = Client => ServerSetupMax = InitialMaxRequestID[Server]

\* The peer of e has told it a limit.
Granted(e) == e = Client => setup[Server] = "done"

\* The limit that is enforced is the last one on its way to e, or the one it has.
InStep(e) ==
    /\ Latest(ctrl[e], localMax[Peer(e)])
    /\ NoGrants(ctrl[e]) => maxId[e] = localMax[Peer(e)]

\* The last ID that e has drawn is that of a request.
Drawn(e) == nextId[e] = e \/ (nextId[e] - 2 \in Ids /\ rt[e][nextId[e] - 2].call # "none")

\* As long as the session lasts, nothing that is granted is lost.
GrantInv ==
    /\ setup[Server] # "done" =>
         setup[Client] # "done" /\ localMax[Server] = InitialMaxRequestID[Server]
    /\ \A e \in Endpoints : Promised(e) /\ ~Broken /\ Granted(e) => InStep(e)
    /\ \A e \in Endpoints : Drawn(e)

\* The last limit of a channel, after a message was taken.
LEMMA LatestTaken ==
    ASSUME NEW q \in Seq(Message), q # << >>, NEW L
    PROVE  /\ Latest(q, L) => Latest(Tail(q), L)
           /\ Head(q).type \notin Grants /\ NoGrants(Tail(q)) => NoGrants(q)
           /\ Head(q).type \in Grants /\ Latest(q, L) /\ NoGrants(Tail(q)) => Head(q).val = L
<1> DEFINE s == Tail(q)
           h == Head(q)
<1>1. /\ Len(q) \in Nat /\ Len(s) = Len(q) - 1 /\ h = q[1] /\ 1 \in 1 .. Len(q)
      /\ \A i \in 1 .. Len(s) : i + 1 \in 1 .. Len(q) /\ s[i] = q[i + 1]
  BY TailElements
<1> HIDE DEF s, h
<1>2. \A j \in 1 .. Len(q) : j = 1 \/ (j - 1 \in 1 .. Len(s) /\ q[j] = s[j - 1])
  <2>1. \A j \in 1 .. Len(q) : j = 1 \/ (j - 1 \in 1 .. Len(s) /\ (j - 1) + 1 = j)
    BY <1>1
  <2> QED  BY <1>1, <2>1
<1>3. ASSUME Latest(q, L), NEW i \in 1 .. Len(s), s[i].type \in Grants,
             \A j \in 1 .. Len(s) : i < j => s[j].type \notin Grants
      PROVE  s[i].val = L
  <2>1. ASSUME NEW j \in 1 .. Len(q), i + 1 < j PROVE q[j].type \notin Grants
    <3>1. j # 1 /\ i < j - 1
      BY <1>1, <2>1
    <3> QED  BY <1>2, <1>3, <3>1
  <2> QED  BY <1>1, <1>3, <2>1 DEF Latest
<1>4. Latest(q, L) => Latest(s, L)
  BY <1>3 DEF Latest
<1>5. h.type \notin Grants /\ NoGrants(s) => NoGrants(q)
  BY <1>1, <1>2 DEF NoGrants
<1>6. ASSUME h.type \in Grants, Latest(q, L), NoGrants(s) PROVE h.val = L
  <2>1. \A j \in 1 .. Len(q) : 1 < j => q[j].type \notin Grants
    BY <1>1, <1>2, <1>6 DEF NoGrants
  <2> QED  BY <1>1, <1>6, <2>1 DEF Latest
<1> QED  BY <1>4, <1>5, <1>6 DEF s, h

\* And after one was written.
LEMMA LatestAppended ==
    ASSUME NEW q \in Seq(Message), NEW m \in Message
    PROVE  /\ m.type \in Grants => Latest(Append(q, m), m.val) /\ ~NoGrants(Append(q, m))
           /\ m.type \notin Grants =>
                /\ \A L : Latest(q, L) => Latest(Append(q, m), L)
                /\ NoGrants(Append(q, m)) => NoGrants(q)
<1> DEFINE s == Append(q, m)
           n == Len(q) + 1
<1>1. /\ Len(q) \in Nat /\ Len(s) = n /\ s[n] = m /\ n \in 1 .. Len(s)
      /\ \A i \in 1 .. Len(q) : s[i] = q[i] /\ i \in 1 .. Len(s) /\ i < n
  BY AppendProperties
<1>2. \A i \in 1 .. Len(s) : i = n \/ i \in 1 .. Len(q)
  BY <1>1
<1> HIDE DEF s, n
<1>3. m.type \in Grants => Latest(s, m.val) /\ ~NoGrants(s)
  BY <1>1, <1>2 DEF Latest, NoGrants
<1>4. ASSUME m.type \notin Grants
      PROVE  /\ \A L : Latest(q, L) => Latest(s, L)
             /\ NoGrants(s) => NoGrants(q)
  <2>1. ASSUME NEW L, Latest(q, L), NEW i \in 1 .. Len(s), s[i].type \in Grants,
               \A j \in 1 .. Len(s) : i < j => s[j].type \notin Grants
        PROVE  s[i].val = L
    <3>1. i \in 1 .. Len(q) /\ s[i] = q[i]
      BY <1>1, <1>2, <1>4, <2>1
    <3>2. \A j \in 1 .. Len(q) : i < j => q[j].type \notin Grants
      BY <1>1, <2>1
    <3> QED  BY <2>1, <3>1, <3>2 DEF Latest
  <2>2. \A L : Latest(q, L) => Latest(s, L)
    BY <2>1 DEF Latest
  <2> QED  BY <1>1, <2>2 DEF NoGrants
<1> QED  BY <1>3, <1>4 DEF s

\* What is said is not a limit.
LEMMA LatestSaid ==
    ASSUME NEW q \in Seq(Message), NEW s, Said(q, s)
    PROVE  (\A L : Latest(q, L) => Latest(s, L)) /\ (NoGrants(s) => NoGrants(q))
BY LatestAppended DEF Said

\* The numbers of the two ends.
LEMMA GrantGround ==
    ASSUME TypeOK
    PROVE  /\ \A e \in Endpoints : /\ maxId[e] \in Nat /\ localMax[e] \in Nat
                                   /\ nextId[e] \in Nat /\ ctrl[e] \in Seq(Message)
                                   /\ Peer(e) \in Endpoints /\ Peer(e) # e /\ Peer(Peer(e)) = e
           /\ localMax \in [Endpoints -> Nat] /\ maxId \in [Endpoints -> Nat]
           /\ ctrl \in [Endpoints -> Seq(Message)]
           /\ Client \in Endpoints /\ Server \in Endpoints /\ Client # Server
           /\ Endpoints = {Client, Server} /\ Peer(Client) = Server /\ Peer(Server) = Client
           /\ setup \in [Endpoints -> {"waiting", "limitSet", "done"}]
           /\ failure \in [Endpoints -> Failures]
BY PeerType DEF TypeOK, Endpoints, Client, Server, Peer

\* A broken session stays broken.
LEMMA BrokenStays ==
    ASSUME TypeOK, Broken,
           \E e \in Endpoints : OwnStep(e) \/ ReaderStep(e)
    PROVE  Broken'
<1>1. ASSUME NEW e \in Endpoints, OwnStep(e) PROVE Broken'
  BY <1>1 DEF OwnStep, OwnVars, NoEnds, Broken
<1>2. ASSUME NEW e \in Endpoints, ReaderStep(e) PROVE Broken'
  <2>1. conn' = conn
    BY <1>2 DEF ReaderStep, OnClientSetup, WriteServerSetup, OnServerSetup,
                OnMessageBeforeSetup, OnMaxRequestID, ReadFails
  <2>2. \/ failure' = failure
        \/ \E x \in Endpoints, err \in {"writeFailed", "maxRequestIDDecreased", "beforeSetup",
                                        "connectionClosed"} : Return(x, err)
    BY <1>2, GrantGround
       DEF ReaderStep, OnClientSetup, WriteServerSetup, OnServerSetup,
           OnMessageBeforeSetup, OnMaxRequestID, ReadFails, SetMax
  <2>3. \A x \in Endpoints : failure[x] # "none" => failure'[x] # "none"
    BY <2>2, GrantGround DEF Return
  <2> QED  BY <2>1, <2>3 DEF Broken
<1> QED  BY <1>1, <1>2

\* A request that e raises the limit with is the last thing that its peer hears of.
LEMMA GrantOwn ==
    ASSUME TypeOK, RequestInv, GrantInv, Moved, NEW e \in Endpoints, OwnStep(e)
    PROVE  GrantInv'
<1> DEFINE p == Peer(e)
<1>0. /\ p \in Endpoints /\ p # e /\ Peer(p) = e /\ \A x \in Endpoints : x = e \/ x = p
      /\ ctrl[e] \in Seq(Message) /\ ctrl[p] \in Seq(Message)
      /\ localMax \in [Endpoints -> Nat] /\ localMax[e] \in Nat
  BY OwnGround DEF TypeOK
<1>1. UNCHANGED <<setup, maxId>> /\ nextId'[p] = nextId[p] /\ Draws(e) /\ rt'[p] = rt[p]
  BY DEF OwnStep, OwnVars
<1>2. \/ localMax' = localMax /\ Said(ctrl[p], ctrl'[p])
      \/ /\ setup[e] = "done"
         /\ \E id \in Ids : /\ localMax' = [localMax EXCEPT ![e] = LimitAfter(e, id)]
                            /\ Said(AnnounceLimit(e, id), ctrl'[p])
  BY DEF OwnStep, OwnChannels
<1>3. localMax'[p] = localMax[p] /\ (setup[e] # "done" => localMax'[e] = localMax[e])
  BY <1>0, <1>2
<1>4. setup'[Server] # "done" =>
        setup'[Client] # "done" /\ localMax'[Server] = InitialMaxRequestID[Server]
  <2>1. Server = e \/ Server = p
    BY <1>0, GrantGround
  <2> QED  BY <1>1, <1>3, <2>1 DEF GrantInv
<1>5. ASSUME InStep(e) PROVE InStep(e)'
  <2>1. \/ ctrl'[e] = ctrl[e]
        \/ ctrl[e] # << >> /\ Head(ctrl[e]).type \notin Grants /\ ctrl'[e] = Tail(ctrl[e])
    BY DEF OwnStep, OwnChannels
  <2>2. /\ \A L : Latest(ctrl[e], L) => Latest(ctrl'[e], L)
        /\ NoGrants(ctrl'[e]) => NoGrants(ctrl[e])
    BY <1>0, <2>1, LatestTaken
  <2> QED  BY <1>1, <1>3, <1>5, <2>2 DEF InStep
<1>6. ASSUME InStep(p), conn = "up" PROVE InStep(p)'
  <2>1. CASE localMax' = localMax /\ Said(ctrl[p], ctrl'[p])
    <3>1. /\ \A L : Latest(ctrl[p], L) => Latest(ctrl'[p], L)
          /\ NoGrants(ctrl'[p]) => NoGrants(ctrl[p])
      BY <1>0, <2>1, LatestSaid
    <3> QED  BY <1>1, <1>6, <2>1, <3>1 DEF InStep
  <2>2. ASSUME NEW id \in Ids, localMax' = [localMax EXCEPT ![e] = LimitAfter(e, id)],
               Said(AnnounceLimit(e, id), ctrl'[p])
        PROVE  InStep(p)'
    <3> DEFINE m == LimitMsg("MAX_REQUEST_ID", 2 * localMax[e])
               a == AnnounceLimit(e, id)
    <3>1. localMax'[e] = LimitAfter(e, id)
      BY <1>0, <2>2
    <3>2. m \in Message /\ m.type \in Grants /\ m.val = 2 * localMax[e]
      <4>1. 2 * localMax[e] \in Nat
        BY <1>0
      <4> QED  BY <4>1, MsgType, ControlAssumption
               DEF LimitMsg, Message, MessageTypes, Grants, Ids
    <3>3. \/ a = ctrl[p] /\ localMax'[e] = localMax[e]
          \/ a = Append(ctrl[p], m) /\ localMax'[e] = 2 * localMax[e]
      BY <1>6, <3>1 DEF AnnounceLimit, LimitAfter, Written
    <3> HIDE DEF m, a
    <3>4. a \in Seq(Message)
      <4>1. ctrl[p] \in Seq(Message) /\ Append(ctrl[p], m) \in Seq(Message)
        BY <1>0, <3>2, AppendProperties
      <4> QED  BY <3>3, <4>1
    <3>5. Latest(a, localMax'[e]) /\ (NoGrants(a) => maxId[p] = localMax'[e])
      BY <1>0, <1>6, <3>2, <3>3, LatestAppended DEF InStep
    <3>6. /\ \A L : Latest(a, L) => Latest(ctrl'[p], L)
          /\ NoGrants(ctrl'[p]) => NoGrants(a)
      BY <2>2, <3>4, LatestSaid DEF a
    <3> QED  BY <1>0, <1>1, <3>5, <3>6 DEF InStep
  <2> QED  BY <1>2, <2>1, <2>2
<1>7. \A x \in Endpoints : Promised(x) /\ ~Broken' /\ Granted(x)' => InStep(x)'
  <2>1. ASSUME NEW x \in Endpoints, Promised(x), ~Broken', Granted(x)' PROVE InStep(x)'
    <3>1. ~Broken
      BY <2>1, BrokenStays
    <3>2. conn = "up"
      BY <3>1 DEF Broken, TypeOK
    <3>3. InStep(x)
      BY <1>1, <2>1, <3>1 DEF GrantInv, Granted
    <3> QED  BY <1>0, <1>5, <1>6, <3>2, <3>3
  <2> QED  BY <2>1
<1>8. \A x \in Endpoints : Drawn(x)'
  <2>1. Drawn(p)'
    BY <1>0, <1>1 DEF GrantInv, Drawn
  <2>2. Drawn(e)'
    <3>1. CASE nextId'[e] = nextId[e]
      BY <3>1, CallsBegin DEF GrantInv, Drawn
    <3>2. CASE nextId[e] \in Ids /\ nextId'[e] = nextId[e] + 2 /\ rt'[e][nextId[e]].call # "none"
      <4>1. nextId'[e] - 2 = nextId[e]
        BY <3>2 DEF Ids
      <4> QED  BY <3>2, <4>1 DEF Drawn
    <3> QED  BY <1>1, <3>1, <3>2 DEF Draws
  <2> QED  BY <1>0, <2>1, <2>2
<1> QED  BY <1>4, <1>7, <1>8 DEF GrantInv, Promised

\* A limit that arrives is the one enforced, or another follows it.
LEMMA GrantReaches ==
    ASSUME TypeOK, NEW e \in Endpoints, InStep(e), ctrl[e] # << >>,
           Head(ctrl[e]).type \in Grants, ctrl'[e] = Tail(ctrl[e]),
           localMax'[Peer(e)] = localMax[Peer(e)], maxId'[e] = Head(ctrl[e]).val
    PROVE  InStep(e)'
<1>1. ctrl[e] \in Seq(Message)
  BY GrantGround
<1>2. /\ Latest(Tail(ctrl[e]), localMax[Peer(e)])
      /\ NoGrants(Tail(ctrl[e])) => Head(ctrl[e]).val = localMax[Peer(e)]
  BY <1>1, LatestTaken DEF InStep
<1> QED  BY <1>2 DEF InStep

\* The setup messages and the limits keep the two ends in step.
LEMMA GrantReader ==
    ASSUME TypeOK, RequestInv, RaiseInv, GrantInv, NEW e \in Endpoints, ReaderStep(e)
    PROVE  GrantInv'
<1>0. /\ UNCHANGED <<localMax, nextId, rt>>
      /\ setup[Server] = "done" => setup'[Server] = "done"
  <2>1. UNCHANGED <<localMax, nextId, rt>>
    BY DEF ReaderStep, OnClientSetup, WriteServerSetup, OnServerSetup,
           OnMessageBeforeSetup, OnMaxRequestID, ReadFails, trackVars
  <2>2. setup[Server] = "done" => setup'[Server] = "done"
    BY GrantGround
       DEF ReaderStep, OnClientSetup, WriteServerSetup, OnServerSetup,
           OnMessageBeforeSetup, OnMaxRequestID, ReadFails
  <2> QED  BY <2>1, <2>2
<1>1. /\ setup'[Server] # "done" => localMax'[Server] = InitialMaxRequestID[Server]
      /\ \A x \in Endpoints : Drawn(x)'
  BY <1>0 DEF GrantInv, Drawn
<1>c. ASSUME setup'[Server] # "done" PROVE setup'[Client] # "done"
  <2>1. setup[Client] # "done" /\ NoGrants(ctrl[Client])
    BY <1>0, <1>c DEF GrantInv, RaiseInv
  <2>2. ~OnServerSetup
    <3>1. ASSUME OnServerSetup PROVE FALSE
      <4>1. ctrl[Client] # << >> /\ Head(ctrl[Client]).type \in Grants
        BY <3>1 DEF OnServerSetup, NextIs, Grants
      <4>2. Head(ctrl[Client]) = ctrl[Client][1] /\ 1 \in 1 .. Len(ctrl[Client])
        BY <4>1, GrantGround, TailElements
      <4> QED  BY <2>1, <4>1, <4>2 DEF NoGrants
    <3> QED  BY <3>1
  <2> QED  BY <2>1, <2>2, GrantGround
           DEF ReaderStep, OnClientSetup, WriteServerSetup, OnMessageBeforeSetup,
               OnMaxRequestID, ReadFails
<1>2. ASSUME NEW x \in Endpoints, Promised(x), ~Broken', Granted(x)'
      PROVE  InStep(x)'
  <2>0. ~Broken /\ (Granted(x) => InStep(x)) /\ ctrl[x] \in Seq(Message)
    <3>1. ~Broken
      BY <1>2, BrokenStays
    <3> QED  BY <1>2, <3>1, GrantGround DEF GrantInv
  <2>n. \A y \in Endpoints : failure'[y] = "none"
    BY <1>2 DEF Broken
  <2>p. /\ localMax'[Peer(x)] = localMax[Peer(x)]
        /\ x = Client /\ setup[Server] # "done" => NoGrants(ctrl[x])
        /\ x # Client => Granted(x)
    BY <1>0 DEF RaiseInv, Granted
  <2>1. ASSUME ctrl[x] # << >>, Head(ctrl[x]).type \in Grants PROVE Granted(x)
    <3>1. 1 \in 1 .. Len(ctrl[x]) /\ Head(ctrl[x]) = ctrl[x][1]
      BY <2>0, <2>1, TailElements
    <3> QED  BY <2>p, <2>1, <3>1 DEF NoGrants, Granted
  <2>2. ASSUME ctrl'[x] = ctrl[x], maxId'[x] = maxId[x], Granted(x) PROVE InStep(x)'
    BY <2>0, <2>p, <2>2 DEF InStep
  <2>3. CASE OnClientSetup
    <3>1. CASE x = Server
      <4> DEFINE h == Head(ctrl[Server])
      <4>1. /\ ctrl[Server] # << >> /\ h.type \in Grants /\ Consume(Server)
            /\ maxId' = [maxId EXCEPT ![Server] = IF h.val > 0 THEN h.val ELSE @]
            /\ setup[Server] = "waiting"
        BY <2>3 DEF OnClientSetup, NextIs, Grants
      <4>2. maxId[Server] = 0 /\ h.val \in Nat
        BY <4>1, GrantGround, HeadType DEF RequestInv
      <4>3. ctrl'[x] = Tail(ctrl[x]) /\ maxId'[x] = h.val
        <5>1. ctrl'[x] = Tail(ctrl[x])
          BY <3>1, <4>1, GrantGround DEF Consume
        <5> HIDE DEF h
        <5>2. maxId'[Server] = IF h.val > 0 THEN h.val ELSE maxId[Server]
          BY <4>1, GrantGround
        <5> QED  BY <3>1, <4>2, <5>1, <5>2
      <4> QED  BY <2>0, <2>1, <2>p, <3>1, <4>1, <4>3, GrantReaches
    <3>2. CASE x = Client
      <4>1. ctrl'[x] = ctrl[x] /\ maxId'[x] = maxId[x] /\ setup'[Server] # "done"
        BY <2>3, <3>2, GrantGround DEF OnClientSetup, Consume
      <4> QED  BY <1>2, <3>2, <4>1 DEF Granted
    <3> QED  BY <3>1, <3>2, GrantGround
  <2>4. CASE WriteServerSetup
    <3>1. CASE x = Client
      <4> DEFINE m == LimitMsg("SERVER_SETUP", ServerSetupMax)
      <4>1. conn = "up"
        BY <2>0 DEF Broken, TypeOK
      <4>2. ctrl'[x] = Append(ctrl[x], m) /\ maxId'[x] = maxId[x]
        BY <2>4, <3>1, <4>1, GrantGround DEF WriteServerSetup, Write, Written
      <4>3. m \in Message /\ m.type \in Grants /\ m.val = ServerSetupMax
        BY ControlAssumption, MsgType DEF LimitMsg, Message, MessageTypes, Grants, Ids
      <4>4. localMax[Server] = ServerSetupMax
        BY <1>2, <2>4, <3>1 DEF GrantInv, Promised, WriteServerSetup
      <4> HIDE DEF m
      <4>5. Latest(ctrl'[x], ServerSetupMax) /\ ~NoGrants(ctrl'[x])
        BY <2>0, <4>2, <4>3, LatestAppended
      <4> QED  BY <2>p, <3>1, <4>4, <4>5, GrantGround DEF InStep
    <3>2. CASE x = Server
      <4>1. ctrl'[x] = ctrl[x] /\ maxId'[x] = maxId[x]
        BY <2>4, <3>2, GrantGround DEF WriteServerSetup, Write
      <4> QED  BY <2>2, <2>p, <3>2, <4>1, GrantGround
    <3> QED  BY <3>1, <3>2, GrantGround
  <2>5. CASE OnServerSetup \/ OnMaxRequestID(e)
    <3>1. PICK y \in Endpoints :
            /\ ctrl[y] # << >> /\ Head(ctrl[y]).type \in Grants /\ Consume(y)
            /\ SetMax(y, Head(ctrl[y]).val) /\ setup'[Server] = setup[Server]
      <4>1. CASE OnServerSetup
        BY <4>1, GrantGround DEF OnServerSetup, NextIs, Grants
      <4>2. CASE OnMaxRequestID(e)
        BY <4>2 DEF OnMaxRequestID, Reading, NextIs, Grants
      <4> QED  BY <2>5, <4>1, <4>2
    <3>2. CASE x = y
      <4>1. ctrl'[x] = Tail(ctrl[x])
        BY <3>1, <3>2, GrantGround DEF Consume
      <4>2. ~Return(y, "maxRequestIDDecreased")
        BY <2>n, GrantGround DEF Return
      <4>3. maxId'[x] = Head(ctrl[x]).val
        BY <3>1, <3>2, <4>2, GrantGround DEF SetMax
      <4> QED  BY <2>0, <2>1, <2>p, <3>1, <3>2, <4>1, <4>3, GrantReaches
    <3>3. CASE x # y
      <4>1. ctrl'[x] = ctrl[x] /\ maxId'[x] = maxId[x]
        BY <3>1, <3>3, GrantGround DEF Consume, SetMax
      <4> QED  BY <1>2, <2>2, <3>1, <4>1 DEF Granted
    <3> QED  BY <3>2, <3>3
  <2>6. CASE OnMessageBeforeSetup(e) \/ ReadFails(e)
    <3>1. Return(e, "beforeSetup") \/ Return(e, "connectionClosed")
      BY <2>6 DEF OnMessageBeforeSetup, ReadFails
    <3> QED  BY <2>n, <3>1, GrantGround DEF Return
  <2> QED  BY <2>3, <2>4, <2>5, <2>6 DEF ReaderStep
<1> QED  BY <1>1, <1>c, <1>2 DEF GrantInv, Promised

\* This invariant holds in every state.
LEMMA GrantAlways == Spec => [](TypeOK /\ RequestInv /\ AgreeInv /\ GrantInv)
<1>1. Init => GrantInv
  <2> SUFFICES ASSUME Init PROVE GrantInv
    OBVIOUS
  <2> DEFINE m == LimitMsg("CLIENT_SETUP", InitialMaxRequestID[Client])
  <2>0. /\ Client \in Endpoints /\ Server \in Endpoints /\ Client # Server
        /\ Peer(Client) = Server /\ Peer(Server) = Client /\ Endpoints = {Client, Server}
    BY DEF Endpoints, Client, Server, Peer
  <2>1. /\ ctrl[Server] = <<m>> /\ localMax = InitialMaxRequestID
        /\ \A e \in Endpoints : nextId[e] = e /\ setup[e] = "waiting"
    BY <2>0 DEF Init, ControlInit
  <2>2. m.type \in Grants /\ m.val = InitialMaxRequestID[Client]
    BY DEF LimitMsg, Grants
  <2> HIDE DEF m
  <2>3. Len(<<m>>) = 1 /\ <<m>>[1] = m /\ \A i \in 1 .. 1 : i = 1
    OBVIOUS
  <2>4. InStep(Server)
    BY <2>0, <2>1, <2>2, <2>3 DEF InStep, Latest, NoGrants
  <2>5. \A e \in Endpoints : Granted(e) => e = Server
    BY <2>0, <2>1 DEF Granted
  <2> QED  BY <2>1, <2>0, <2>4, <2>5 DEF GrantInv, Drawn
<1>2. TypeOK /\ RequestInv /\ AgreeInv /\ RaiseInv /\ GrantInv /\ [Next]_vars => GrantInv'
  <2> SUFFICES ASSUME TypeOK, RequestInv, AgreeInv, RaiseInv, GrantInv, [Next]_vars
               PROVE  GrantInv'
    OBVIOUS
  <2>1. CASE UNCHANGED vars
    BY <2>1 DEF vars, controlVars, trackVars, GrantInv, Promised, Granted, InStep, Drawn,
                Broken
  <2>2. Moved
    BY NextMoves
  <2> QED  BY <2>1, <2>2, StepKinds, GrantOwn, GrantReader
<1> QED  BY <1>1, <1>2, RaiseAlways, PTL DEF Spec

\* Blocked in the terms of this module, before and after a step.
LEMMA BlockedIs ==
    ASSUME NEW e \in Endpoints
    PROVE  /\ Blocked(e) <=>
                /\ setup[e] = "done" /\ ~(nextId[e] < maxId[e]) /\ NoGrants(ctrl[e])
                /\ \A id \in Ids : rt[e][id].call # "none" => id < localMax[Peer(e)] \div 2
           /\ Blocked(e)' <=>
                /\ setup'[e] = "done" /\ ~(nextId'[e] < maxId'[e]) /\ NoGrants(ctrl'[e])
                /\ \A id \in Ids : rt'[e][id].call # "none" => id < localMax'[Peer(e)] \div 2
BY DEF Blocked, IdAvailable, At, NoGrants

\* A blocked endpoint begins no request.
LEMMA BlockedBegins ==
    ASSUME TypeOK, RequestInv, [Next]_vars, NEW e \in Endpoints, ~(nextId[e] < maxId[e])
    PROVE  /\ \A id \in Ids : rt'[e][id].call # "none" => rt[e][id].call # "none"
           /\ maxId'[e] = maxId[e] => ~(nextId'[e] < maxId'[e])
<1>1. Moved
  BY NextMoves
<1>2. nextId'[e] \in {nextId[e], nextId[e] + 2} /\ nextId[e] \in Nat /\ maxId[e] \in Nat
  BY <1>1 DEF Moved, Steady, TypeOK
<1> QED  BY <1>1, <1>2, CallsBegin

\* A step of the peer's own raises no limit of a blocked endpoint: the request that
\* it takes is one of those below the half.
LEMMA PeerRaisesNothing ==
    ASSUME TypeOK, RequestInv, NEW e \in Endpoints, Blocked(e), OwnStep(Peer(e))
    PROVE  localMax'[Peer(e)] = localMax[Peer(e)] /\ NoGrants(ctrl'[e])
<1> DEFINE p == Peer(e)
<1>0. /\ p \in Endpoints /\ Peer(p) = e /\ p # e /\ ctrl[e] \in Seq(Message)
      /\ localMax[p] \in Nat /\ localMax \in [Endpoints -> Nat]
  BY OwnGround DEF TypeOK
<1>1. /\ NoGrants(ctrl[e])
      /\ \A id \in Ids : rt[e][id].call # "none" => id < localMax[p] \div 2
  BY BlockedIs
<1>2. CASE localMax' = localMax /\ Said(ctrl[e], ctrl'[e])
  BY <1>0, <1>1, <1>2, SaidKept
<1>3. ASSUME NEW id \in Ids, Has(ctrl[p], Requests, id), Said(AnnounceLimit(p, id), ctrl'[e]),
             localMax' = [localMax EXCEPT ![p] = LimitAfter(p, id)]
      PROVE  localMax'[p] = localMax[p] /\ NoGrants(ctrl'[e])
  <2>1. rt[e][id].call # "none"
    <3>1. PairInv(e, id) /\ Asked(e, id)
      BY <1>3 DEF RequestInv, Asked
    <3> QED  BY <3>1 DEF PairInv, Underway, Unanswered, Live
  <2>2. ~RaisesLimit(p, id)
    BY <1>0, <1>1, <2>1 DEF RaisesLimit, Ids
  <2>3. LimitAfter(p, id) = localMax[p] /\ AnnounceLimit(p, id) = ctrl[e]
    BY <1>0, <2>2 DEF LimitAfter, AnnounceLimit
  <2> QED  BY <1>0, <1>1, <1>3, <2>3, SaidKept
<1>4. \/ localMax' = localMax /\ Said(ctrl[e], ctrl'[e])
      \/ \E id \in Ids : /\ Has(ctrl[p], Requests, id)
                         /\ localMax' = [localMax EXCEPT ![p] = LimitAfter(p, id)]
                         /\ Said(AnnounceLimit(p, id), ctrl'[e])
  BY <1>0 DEF OwnStep, OwnChannels
<1> HIDE DEF p
<1>5. localMax'[p] = localMax[p] /\ NoGrants(ctrl'[e])
  BY <1>2, <1>3, <1>4
<1> QED  BY <1>5 DEF p

\* Nor does a limit or a setup message reach a blocked endpoint.
LEMMA ReaderRaisesNothing ==
    ASSUME TypeOK, GrantInv, NEW e \in Endpoints, Blocked(e),
           NEW x \in Endpoints, ReaderStep(x)
    PROVE  /\ localMax' = localMax /\ setup'[e] = "done" /\ maxId'[e] = maxId[e]
           /\ NoGrants(ctrl'[e])
<1>0. /\ Client \in Endpoints /\ Server \in Endpoints /\ Client # Server
      /\ Peer(Client) = Server /\ Peer(Server) = Client /\ Endpoints = {Client, Server}
      /\ setup \in [Endpoints -> {"waiting", "limitSet", "done"}]
      /\ ctrl \in [Endpoints -> Seq(Message)] /\ ctrl[e] \in Seq(Message)
      /\ maxId \in [Endpoints -> Nat]
  BY CeilingValue DEF TypeOK
<1>1. setup[e] = "done" /\ NoGrants(ctrl[e])
  BY BlockedIs
<1>2. CASE OnClientSetup
  <2>1. e # Server
    BY <1>1, <1>2 DEF OnClientSetup
  <2> QED  BY <1>0, <1>1, <1>2, <2>1 DEF OnClientSetup, Consume
<1>3. CASE WriteServerSetup
  <2>1. setup[Server] = "done"
    BY <1>0, <1>1 DEF GrantInv
  <2> QED  BY <1>3, <2>1 DEF WriteServerSetup
<1>4. CASE OnServerSetup
  <2>1. e # Client
    BY <1>1, <1>4 DEF OnServerSetup
  <2> QED  BY <1>0, <1>1, <1>4, <2>1 DEF OnServerSetup, Consume, SetMax
<1>5. CASE OnMaxRequestID(x)
  <2>1. x # e
    <3>1. ASSUME x = e PROVE FALSE
      <4>1. ctrl[e] # << >> /\ Head(ctrl[e]).type = "MAX_REQUEST_ID"
        BY <1>5, <3>1 DEF OnMaxRequestID, Reading, NextIs
      <4>2. Head(ctrl[e]) = ctrl[e][1] /\ 1 \in 1 .. Len(ctrl[e])
        BY <1>0, <4>1, TailElements
      <4> QED  BY <1>1, <4>1, <4>2 DEF NoGrants, Grants
    <3> QED  BY <3>1
  <2> QED  BY <1>0, <1>1, <1>5, <2>1 DEF OnMaxRequestID, Consume, SetMax
<1>6. CASE OnMessageBeforeSetup(x) \/ ReadFails(x)
  <2>1. /\ UNCHANGED <<maxId, localMax, setup>>
        /\ (ctrl[x] # << >> /\ Consume(x)) \/ ctrl' = ctrl
    BY <1>6 DEF OnMessageBeforeSetup, ReadFails
  <2>2. ctrl'[e] = ctrl[e] \/ (ctrl[e] # << >> /\ ctrl'[e] = Tail(ctrl[e]))
    BY <1>0, <2>1 DEF Consume
  <2>3. NoGrants(ctrl'[e])
    BY <1>0, <1>1, <2>2, TakenKept
  <2> QED  BY <1>1, <2>1, <2>3
<1> QED  BY <1>2, <1>3, <1>4, <1>5, <1>6 DEF ReaderStep

\* An endpoint whose requests all lie below half of the limit that the peer enforces,
\* and which has no ID left, never gets another (session.go:277, 1068), whatever the
\* two sides do: for every limit, every number of requests and every mix of calls.
THEOREM BlockedStays == Spec => BlockedForGood
<1>1. ASSUME TypeOK, RequestInv, AgreeInv, GrantInv, [Next]_vars,
             NEW e \in Endpoints, Blocked(e)
      PROVE  Blocked(e)'
  <2> DEFINE p == Peer(e)
  <2>0. /\ p \in Endpoints /\ p # e /\ Peer(p) = e /\ \A x \in Endpoints : x = e \/ x = p
        /\ ctrl[e] \in Seq(Message)
    BY <1>1, OwnGround
  <2>1. /\ setup[e] = "done" /\ ~(nextId[e] < maxId[e]) /\ NoGrants(ctrl[e])
        /\ \A id \in Ids : rt[e][id].call # "none" => id < localMax[p] \div 2
    BY <1>1, BlockedIs
  <2>2. /\ \A id \in Ids : rt'[e][id].call # "none" => rt[e][id].call # "none"
        /\ maxId'[e] = maxId[e] => ~(nextId'[e] < maxId'[e])
    BY <1>1, <2>1, BlockedBegins
  <2>3. ASSUME setup'[e] = "done", maxId'[e] = maxId[e], NoGrants(ctrl'[e]),
               localMax'[p] = localMax[p]
        PROVE  Blocked(e)'
    BY <2>1, <2>2, <2>3, BlockedIs
  <2>4. CASE UNCHANGED vars
    BY <2>1, <2>3, <2>4 DEF vars, controlVars
  <2>5. CASE OwnStep(e)
    <3>1. /\ UNCHANGED <<setup, maxId>>
          /\ ctrl'[e] = ctrl[e] \/ (ctrl[e] # << >> /\ ctrl'[e] = Tail(ctrl[e]))
      BY <2>5 DEF OwnStep, OwnVars, OwnChannels
    <3>2. localMax'[p] = localMax[p]
      <4>1. \/ localMax' = localMax
            \/ \E id \in Ids : localMax' = [localMax EXCEPT ![e] = LimitAfter(e, id)]
        BY <2>5 DEF OwnStep, OwnChannels
      <4>2. localMax \in [Endpoints -> Nat]
        BY <1>1 DEF TypeOK
      <4> QED  BY <2>0, <4>1, <4>2
    <3>3. NoGrants(ctrl'[e])
      BY <2>0, <2>1, <3>1, TakenKept
    <3> QED  BY <2>1, <2>3, <3>1, <3>2, <3>3
  <2>6. CASE OwnStep(p)
    <3>1. UNCHANGED <<setup, maxId>>
      BY <2>6 DEF OwnStep, OwnVars
    <3> QED  BY <1>1, <2>1, <2>3, <2>6, <3>1, PeerRaisesNothing
  <2>7. ASSUME NEW x \in Endpoints, ReaderStep(x) PROVE Blocked(e)'
    BY <1>1, <2>3, <2>7, ReaderRaisesNothing
  <2> QED  BY <1>1, <2>0, <2>4, <2>5, <2>6, <2>7, StepKinds
<1>2. TypeOK /\ RequestInv /\ AgreeInv /\ GrantInv /\ [Next]_vars =>
        [\A e \in Endpoints : Blocked(e) => Blocked(e)']_vars
  BY <1>1
<1> QED  BY <1>2, GrantAlways, PTL DEF Spec, BlockedForGood

\* In a session that lasts, an endpoint runs out of IDs for good only under a limit of
\* two or less, where SERVER_SETUP promises what the server enforces (session.go:277,
\* 1027): any other limit is raised in time, by the last request that it allows.
THEOREM LargeLimitsSuffice == Spec => []OnlySmallLimitsBlock
<1>1. TypeOK /\ GrantInv => OnlySmallLimitsBlock
  <2> SUFFICES ASSUME TypeOK, GrantInv, NEW e \in Endpoints, Blocked(e), ~Broken,
                      e = Client => ServerSetupMax = InitialMaxRequestID[Server],
                      ~(localMax[Peer(e)] <= 2)
               PROVE  FALSE
    BY DEF OnlySmallLimitsBlock
  <2> DEFINE L == localMax[Peer(e)]
  <2>1. /\ setup[e] = "done" /\ ~(nextId[e] < maxId[e]) /\ NoGrants(ctrl[e])
        /\ \A id \in Ids : rt[e][id].call # "none" => id < L \div 2
    BY BlockedIs
  <2>2. L \in Nat /\ nextId[e] \in Nat /\ maxId[e] \in Nat /\ e \in {0, 1}
    BY GrantGround DEF Endpoints, Client, Server
  <2>3. maxId[e] = L
    <3>1. Granted(e) /\ Promised(e)
      BY <2>1 DEF GrantInv, Granted, Promised
    <3> QED  BY <2>1, <3>1 DEF GrantInv, InStep
  <2> HIDE DEF L
  <2>4. nextId[e] >= L /\ L >= 3
    BY <2>1, <2>2, <2>3 DEF L
  <2>5. nextId[e] - 2 \in Ids /\ rt[e][nextId[e] - 2].call # "none"
    BY <2>2, <2>4 DEF GrantInv, Drawn
  <2>6. nextId[e] - 2 < L \div 2
    BY <2>1, <2>5
  <2> QED  BY <2>2, <2>4, <2>6
<1> QED  BY <1>1, GrantAlways, PTL

=============================================================================

--------------------------- MODULE RequestProofs ----------------------------
(***************************************************************************)
(* A request of Tracks is decided once and answered once, for every value  *)
(* of the constants.  A pair (e, id) is a request together with the end e  *)
(* that made it: the call and its track at e, the request and its answer   *)
(* in flight, and the track at Peer(e).  Every step of the system moves at *)
(* most one pair, in one of the ways of PairStep.                          *)
(***************************************************************************)
EXTENDS TracksProofs

-----------------------------------------------------------------------------
(***************************************************************************)
(* The inductive invariant.                                                *)
(***************************************************************************)

Oks == {"SUBSCRIBE_OK", "FETCH_OK"}
Errors == {"SUBSCRIBE_ERROR", "FETCH_ERROR"}

\* The request is on its way, or its answer is.
Asked(e, id) == Has(ctrl[Peer(e)], Requests, id)
OkSent(e, id) == Has(ctrl[e], Oks, id)
ErrorSent(e, id) == Has(ctrl[e], Errors, id)

\* The call has written its request and has not had an answer.
Live == {"waiting", "aborting", "cancelled"}
Unanswered(e, id) == rt[e][id].call \in Live /\ rt[e][id].resp = "empty"

\* The request, or an answer to it, may still reach a reader.
Underway(e, id) ==
    \/ Asked(e, id) \/ id \in lpending[Peer(e)] \/ lt[Peer(e)][id].answer = "confirmed"
    \/ OkSent(e, id) \/ ErrorSent(e, id)

\* Where the request is, at the caller, in flight, or at the publisher, decides
\* what the others know of it.
PairInv(e, id) ==
    LET p == Peer(e)
        call == rt[e][id].call
        resp == rt[e][id].resp
        kind == lt[p][id].kind
        answer == lt[p][id].answer IN
    /\ Once(ctrl[p], Requests, id) /\ Once(ctrl[e], Answers, id)
    /\ Underway(e, id) => Unanswered(e, id)
    /\ Asked(e, id) => kind = "none" /\ ~OkSent(e, id) /\ ~ErrorSent(e, id)
    /\ id \in lpending[p] => answer = "none" /\ ~OkSent(e, id) /\ ~ErrorSent(e, id)
    /\ answer = "confirmed" => ~OkSent(e, id) /\ ~ErrorSent(e, id)
    /\ OkSent(e, id) => answer = "ok" /\ ~ErrorSent(e, id)
    /\ ErrorSent(e, id) => answer \in {"none", "error"}
    /\ resp # "empty" => call \in Live /\ id \notin rpending[e]
    /\ resp = "ok" => answer = "ok"
    /\ resp = "error" => answer \in {"none", "error"}
    /\ kind = "none" => id \notin Local(p) /\ answer = "none"
    /\ call \in {"none", "begun"} => kind = "none"
    /\ call = "begun" => id \in rpending[e]
    /\ call \in {"waiting", "aborting"} /\ Underway(e, id) => id \in rpending[e]
    /\ call = "none" => id \notin Remote(e)

\* IDs that are not drawn yet are not in use, and none is drawn before the setup.
RequestInv ==
    \A e \in Endpoints :
      /\ \A id \in Ids : PairInv(e, id)
      /\ \A id \in Ids : nextId[e] <= id => rt[e][id].call = "none"
      /\ setup[e] = "waiting" => maxId[e] = 0 /\ \A id \in Ids : rt[e][id].call = "none"

-----------------------------------------------------------------------------
(***************************************************************************)
(* The ways in which a step moves a pair.                                  *)
(***************************************************************************)

\* There is at most one request and one answer in flight.
Single(e, id) == Once(ctrl[Peer(e)], Requests, id) /\ Once(ctrl[e], Answers, id)

\* The call, and where its track is filed, are left alone.
CallerSame(e, id) ==
    /\ rt'[e][id].call = rt[e][id].call
    /\ rt'[e][id].resp = rt[e][id].resp
    /\ id \in rpending'[e] <=> id \in rpending[e]
    /\ id \in Remote(e)' => id \in Remote(e)

\* The publisher's track is left alone, or closed.
PublisherSame(e, id) ==
    /\ lt'[Peer(e)][id].kind = lt[Peer(e)][id].kind
    /\ lt'[Peer(e)][id].answer = lt[Peer(e)][id].answer
    /\ id \in lpending'[Peer(e)] => id \in lpending[Peer(e)]
    /\ id \in Local(Peer(e))' => id \in Local(Peer(e))

AskedSame(e, id) == Asked(e, id)' <=> Asked(e, id)
OkSame(e, id) == OkSent(e, id)' <=> OkSent(e, id)
ErrorSame(e, id) == ErrorSent(e, id)' <=> ErrorSent(e, id)
FlightSame(e, id) == AskedSame(e, id) /\ OkSame(e, id) /\ ErrorSame(e, id)

\* Nothing happens to the pair, but that a message is lost: its reader ends.  An
\* error is lost only when the caller has given up.
Fade(e, id) ==
    /\ CallerSame(e, id) /\ PublisherSame(e, id)
    /\ Asked(e, id)' => Asked(e, id)
    /\ OkSent(e, id)' => OkSent(e, id)
    /\ ErrorSent(e, id)' => ErrorSent(e, id)
    /\ ErrorSent(e, id) /\ ~ErrorSent(e, id)' => rt[e][id].call = "cancelled"

\* BeginRequest.
Begin(e, id) ==
    /\ nextId[e] = id /\ id < maxId[e] /\ nextId'[e] = id + 2
    /\ rt'[e][id].call = "begun" /\ rt'[e][id].resp = "empty"
    /\ id \in rpending'[e]
    /\ PublisherSame(e, id) /\ FlightSame(e, id)

\* WriteRequest, and WriteRequest without a connection.
Send(e, id) ==
    /\ rt[e][id].call = "begun" /\ rt'[e][id].call = "waiting"
    /\ rt'[e][id].resp = rt[e][id].resp
    /\ id \in rpending'[e]
    /\ PublisherSame(e, id) /\ OkSame(e, id) /\ ErrorSame(e, id)
NotSent(e, id) ==
    /\ rt[e][id].call = "begun" /\ rt'[e][id].call = "unsent"
    /\ rt'[e][id].resp = rt[e][id].resp
    /\ PublisherSame(e, id) /\ FlightSame(e, id)

\* Resolve.
Learn(e, id) ==
    /\ rt[e][id].call = "waiting" /\ rt[e][id].resp # "empty"
    /\ rt'[e][id].call = IF rt[e][id].resp = "error" THEN "refused" ELSE "ok"
    /\ rt'[e][id].resp = "empty"
    /\ PublisherSame(e, id) /\ FlightSame(e, id)

\* Cancel and Abort.
GiveUp(e, id) ==
    /\ \/ /\ rt[e][id].call = "waiting" /\ rt'[e][id].call = "aborting"
          /\ id \in rpending'[e] <=> id \in rpending[e]
       \/ /\ rt[e][id].call = "aborting" /\ rt'[e][id].call = "cancelled"
          /\ id \notin rpending'[e]
    /\ rt'[e][id].resp = rt[e][id].resp
    /\ PublisherSame(e, id) /\ FlightSame(e, id)

\* The OK reaches the caller: into responseChan, or nowhere if its alias is taken.
HearOk(e, id) ==
    /\ OkSent(e, id) /\ ~OkSent(e, id)' /\ ~ErrorSent(e, id)' /\ AskedSame(e, id)
    /\ rt'[e][id].call = rt[e][id].call
    /\ rt'[e][id].resp \in {rt[e][id].resp, "ok"}
    /\ id \notin rpending'[e]
    /\ PublisherSame(e, id)

\* The error reaches the caller.
HearError(e, id) ==
    /\ ErrorSent(e, id) /\ ~OkSent(e, id)' /\ ~ErrorSent(e, id)' /\ AskedSame(e, id)
    /\ rt'[e][id].call = rt[e][id].call
    /\ rt'[e][id].resp = "error"
    /\ id \notin rpending'[e]
    /\ PublisherSame(e, id)

\* OnRequest: the request is filed.
Admit(e, id) ==
    /\ Asked(e, id) /\ ~Asked(e, id)' /\ OkSame(e, id) /\ ErrorSame(e, id)
    /\ lt'[Peer(e)][id].kind # "none" /\ lt'[Peer(e)][id].answer = "none"
    /\ CallerSame(e, id)

\* RefuseSubscribe: it is not, and an error may be on its way.
Refuse(e, id) ==
    /\ Asked(e, id) /\ ~Asked(e, id)' /\ OkSame(e, id)
    /\ CallerSame(e, id) /\ PublisherSame(e, id)

\* Accept and WriteAccept.
Open(e, id) ==
    /\ id \in lpending[Peer(e)] /\ id \notin lpending'[Peer(e)]
    /\ lt'[Peer(e)][id].kind = lt[Peer(e)][id].kind
    /\ lt'[Peer(e)][id].answer = "confirmed"
    /\ CallerSame(e, id) /\ FlightSame(e, id)
Answer(e, id) ==
    /\ lt[Peer(e)][id].answer = "confirmed" /\ lt'[Peer(e)][id].answer = "ok"
    /\ lt'[Peer(e)][id].kind = lt[Peer(e)][id].kind
    /\ id \in lpending'[Peer(e)] <=> id \in lpending[Peer(e)]
    /\ id \in Local(Peer(e))' => id \in Local(Peer(e))
    /\ CallerSame(e, id) /\ AskedSame(e, id) /\ ErrorSame(e, id)

\* Reject, and HandlerReturn of a request nobody handled.
Deny(e, id) ==
    /\ id \in lpending[Peer(e)] /\ id \notin lpending'[Peer(e)]
    /\ id \in Local(Peer(e))' => id \in Local(Peer(e))
    /\ lt'[Peer(e)][id].kind = lt[Peer(e)][id].kind
    /\ lt'[Peer(e)][id].answer = "error"
    /\ CallerSame(e, id) /\ AskedSame(e, id) /\ OkSame(e, id)

PairStep(e, id) ==
    \/ Fade(e, id) \/ Begin(e, id) \/ Send(e, id) \/ NotSent(e, id) \/ Learn(e, id)
    \/ GiveUp(e, id) \/ HearOk(e, id) \/ HearError(e, id) \/ Admit(e, id)
    \/ Refuse(e, id) \/ Open(e, id) \/ Answer(e, id) \/ Deny(e, id)

\* One pair moves, and nothing happens to the others.
OnePairMoves ==
    \E e \in Endpoints, id \in Ids :
      /\ PairStep(e, id)
      /\ \A f \in Endpoints, i \in Ids : f # e \/ i # id => Fade(f, i)

\* The steps of PairStep keep the invariant of a pair.
LEMMA PairStepInv ==
    ASSUME TypeOK, RequestInv, NEW e \in Endpoints, NEW id \in Ids,
           Single(e, id)', PairStep(e, id)
    PROVE  PairInv(e, id)'
<1> DEFINE p == Peer(e)
<1>0. /\ PairInv(e, id)
      /\ nextId[e] = id => rt[e][id].call = "none"
  BY DEF RequestInv, TypeOK
<1>s. (Once(ctrl[Peer(e)], Requests, id) /\ Once(ctrl[e], Answers, id))'
  BY DEF Single
<1> USE DEF PairInv, Underway, Unanswered
<1>1. CASE Fade(e, id)
  BY <1>0, <1>s, <1>1 DEF Fade, CallerSame, PublisherSame
<1>2. CASE Begin(e, id)
  BY <1>0, <1>s, <1>2 DEF Begin, PublisherSame, FlightSame, AskedSame, OkSame, ErrorSame, Live
<1>3. CASE Send(e, id)
  BY <1>0, <1>s, <1>3 DEF Send, PublisherSame, OkSame, ErrorSame, Live
<1>4. CASE NotSent(e, id)
  BY <1>0, <1>s, <1>4 DEF NotSent, PublisherSame, FlightSame, AskedSame, OkSame, ErrorSame, Live
<1>5. CASE Learn(e, id)
  BY <1>0, <1>s, <1>5 DEF Learn, PublisherSame, FlightSame, AskedSame, OkSame, ErrorSame
<1>6. CASE GiveUp(e, id)
  BY <1>0, <1>s, <1>6 DEF GiveUp, PublisherSame, FlightSame, AskedSame, OkSame, ErrorSame, Live
<1>7. CASE HearOk(e, id)
  BY <1>0, <1>s, <1>7 DEF HearOk, PublisherSame, AskedSame
<1>8. CASE HearError(e, id)
  BY <1>0, <1>s, <1>8 DEF HearError, PublisherSame, AskedSame, Live
<1>9. CASE Admit(e, id)
  BY <1>0, <1>s, <1>9 DEF Admit, CallerSame, OkSame, ErrorSame, Live
<1>10. CASE Refuse(e, id)
  BY <1>0, <1>s, <1>10 DEF Refuse, CallerSame, PublisherSame, OkSame, Live, Local
<1>11. CASE Open(e, id)
  BY <1>0, <1>s, <1>11 DEF Open, CallerSame, FlightSame, AskedSame, OkSame, ErrorSame, Live, Local
<1>12. CASE Answer(e, id)
  BY <1>0, <1>s, <1>12 DEF Answer, CallerSame, AskedSame, ErrorSame
<1>13. CASE Deny(e, id)
  BY <1>0, <1>s, <1>13 DEF Deny, CallerSame, AskedSame, OkSame, Live, Local
<1> QED  BY <1>1, <1>2, <1>3, <1>4, <1>5, <1>6, <1>7, <1>8, <1>9, <1>10, <1>11,
            <1>12, <1>13 DEF PairStep

-----------------------------------------------------------------------------
(***************************************************************************)
(* What the actions do to the messages in flight and to the tracks.        *)
(***************************************************************************)

\* Nothing about this request is different in q2.
Alike(q1, q2, id) ==
    /\ Has(q2, Requests, id) <=> Has(q1, Requests, id)
    /\ Has(q2, Oks, id) <=> Has(q1, Oks, id)
    /\ Has(q2, Errors, id) <=> Has(q1, Errors, id)
    /\ Once(q1, Requests, id) => Once(q2, Requests, id)
    /\ Once(q1, Answers, id) => Once(q2, Answers, id)

\* An answer is an OK or an error, and neither is a request.
LEMMA AnswerTypes ==
    /\ Answers = Oks \cup Errors
    /\ Oks \cap Errors = {} /\ Oks \cap Requests = {} /\ Errors \cap Requests = {}
    /\ \A q, id : Has(q, Answers, id) <=> Has(q, Oks, id) \/ Has(q, Errors, id)
<1>1. Answers = Oks \cup Errors
  BY DEF Answers, Oks, Errors
<1>2. Oks \cap Errors = {} /\ Oks \cap Requests = {} /\ Errors \cap Requests = {}
  BY DEF Oks, Errors, Requests
<1>3. ASSUME NEW q, NEW id
      PROVE  Has(q, Answers, id) <=> Has(q, Oks, id) \/ Has(q, Errors, id)
  BY <1>1 DEF Has
<1> QED  BY <1>1, <1>2, <1>3

\* A message about something else may be written, or not.
LEMMA AlikeWritten ==
    ASSUME NEW q \in Seq(Message), NEW m \in Message, NEW id,
           m.type \notin Requests \cup Answers \/ m.id # id
    PROVE  Alike(q, Written(q, m), id) /\ Alike(q, q, id)
<1>1. Alike(q, Append(q, m), id)
  BY AnswerTypes, HasAppend DEF Alike
<1> QED  BY <1>1 DEF Written, Alike

\* A write of x changes the pair of its message, if that is a request or an answer.
LEMMA WriteFlight ==
    ASSUME TypeOK, RequestInv, NEW x \in Endpoints, NEW m \in Message, Write(x, m),
           m.type \in Requests => ~Asked(x, m.id),
           m.type \in Answers => ~OkSent(Peer(x), m.id) /\ ~ErrorSent(Peer(x), m.id)
    PROVE  \A f \in Endpoints, i \in Ids :
             /\ Single(f, i)'
             /\ m.type \notin Requests \/ f # x \/ i # m.id => AskedSame(f, i)
             /\ m.type \notin Oks \/ f # Peer(x) \/ i # m.id => OkSame(f, i)
             /\ m.type \notin Errors \/ f # Peer(x) \/ i # m.id => ErrorSame(f, i)
<1> DEFINE p == Peer(x)
           q == ctrl[p]
<1>0. /\ p \in Endpoints /\ p # x /\ Peer(p) = x
      /\ \A f \in Endpoints : f = x \/ f = p
  BY PeerType DEF Endpoints, Client, Server, Peer
<1>1. ctrl'[x] = ctrl[x] /\ (ctrl'[p] = q \/ ctrl'[p] = Append(q, m)) /\ q \in Seq(Message)
  BY <1>0 DEF Write, Written, TypeOK
<1>2. \A f \in Endpoints, i \in Ids : Single(f, i)
  BY DEF RequestInv, PairInv, Single
<1>3. CASE ctrl'[p] = q
  <2>1. \A f \in Endpoints : ctrl'[f] = ctrl[f] /\ ctrl'[Peer(f)] = ctrl[Peer(f)]
    BY <1>0, <1>1, <1>3
  <2> QED  BY <1>2, <2>1 DEF Single, AskedSame, OkSame, ErrorSame, Asked, OkSent, ErrorSent
<1>4. CASE ctrl'[p] = Append(q, m)
  <2> SUFFICES ASSUME NEW f \in Endpoints, NEW i \in Ids
               PROVE  /\ Single(f, i)'
                      /\ m.type \notin Requests \/ f # x \/ i # m.id => AskedSame(f, i)
                      /\ m.type \notin Oks \/ f # p \/ i # m.id => OkSame(f, i)
                      /\ m.type \notin Errors \/ f # p \/ i # m.id => ErrorSame(f, i)
    OBVIOUS
  <2> DEFINE a == Append(q, m)
  <2>1. /\ ~(m.type \in Requests /\ m.id = i) => (Has(a, Requests, i) <=> Has(q, Requests, i))
        /\ ~(m.type \in Oks /\ m.id = i) => (Has(a, Oks, i) <=> Has(q, Oks, i))
        /\ ~(m.type \in Errors /\ m.id = i) => (Has(a, Errors, i) <=> Has(q, Errors, i))
    BY <1>1, HasAppend
  <2>2. /\ Once(q, Requests, i) /\ (m.type \in Requests /\ m.id = i => ~Has(q, Requests, i))
             => Once(a, Requests, i)
        /\ Once(q, Answers, i) /\ (m.type \in Answers /\ m.id = i => ~Has(q, Answers, i))
             => Once(a, Answers, i)
    BY <1>1, HasAppend
  <2> HIDE DEF a, q
  <2>3. m.type \in Requests /\ m.id = i => ~Has(q, Requests, i)
    BY DEF Asked, q
  <2>4. m.type \in Answers /\ m.id = i => ~Has(q, Answers, i)
    BY AnswerTypes DEF OkSent, ErrorSent, q
  <2>5. CASE f = x
    <3>1. Peer(f) = p /\ ctrl'[Peer(f)] = a /\ ctrl[Peer(f)] = q /\ ctrl'[f] = ctrl[f] /\ f # p
      BY <1>0, <1>1, <1>4, <2>5 DEF a, q
    <3>2. Once(q, Requests, i) /\ Once(ctrl[f], Answers, i)
      BY <1>2, <3>1 DEF Single
    <3> HIDE DEF p
    <3> QED  BY <2>1, <2>2, <2>3, <2>5, <3>1, <3>2
             DEF Single, AskedSame, OkSame, ErrorSame, Asked, OkSent, ErrorSent
  <2>6. CASE f = p
    <3>1. Peer(f) = x /\ ctrl'[Peer(f)] = ctrl[Peer(f)] /\ ctrl'[f] = a /\ ctrl[f] = q /\ f # x
      BY <1>0, <1>1, <1>4, <2>6 DEF a, q
    <3>2. Once(q, Answers, i) /\ Once(ctrl[Peer(f)], Requests, i)
      BY <1>2, <3>1 DEF Single
    <3> HIDE DEF p
    <3> QED  BY <2>1, <2>2, <2>4, <2>6, <3>1, <3>2
             DEF Single, AskedSame, OkSame, ErrorSame, Asked, OkSent, ErrorSent
  <2> QED  BY <1>0, <2>5, <2>6
<1> QED  BY <1>1, <1>3, <1>4

\* The reader of x takes a request from the other's pair, or an answer from its own.
LEMMA ReadFlight ==
    ASSUME TypeOK, RequestInv, NEW x \in Endpoints, ctrl[x] # << >>,
           ctrl'[x] = Tail(ctrl[x]),
           \A i \in Ids : Alike(ctrl[Peer(x)], ctrl'[Peer(x)], i)
    PROVE  LET h == Head(ctrl[x])
               p == Peer(x) IN
           /\ \A f \in Endpoints, i \in Ids :
                /\ Single(f, i)'
                /\ h.type \notin Requests \/ f # p \/ i # h.id => AskedSame(f, i)
                /\ h.type \notin Answers \/ f # x \/ i # h.id => OkSame(f, i) /\ ErrorSame(f, i)
           /\ \A i \in Ids : h.id = i =>
                /\ h.type \in Requests => Asked(p, i) /\ ~Asked(p, i)'
                /\ h.type \in Answers => ~OkSent(x, i)' /\ ~ErrorSent(x, i)'
                /\ h.type \in Oks => OkSent(x, i)
                /\ h.type \in Errors => ErrorSent(x, i)
<1> DEFINE p == Peer(x)
           q == ctrl[x]
           t == Tail(q)
           h == Head(q)
<1>0. /\ p \in Endpoints /\ p # x /\ Peer(p) = x
      /\ \A f \in Endpoints : f = x \/ f = p
  BY PeerType DEF Endpoints, Client, Server, Peer
<1>1. q \in Seq(Message) /\ q # << >> /\ h.id \in Ids
  BY HeadType DEF TypeOK
<1>2. \A f \in Endpoints, i \in Ids : Single(f, i)
  BY DEF RequestInv, PairInv, Single
<1>3. \A i \in Ids : Once(q, Requests, i) /\ Once(q, Answers, i)
  BY <1>0, <1>2 DEF Single
<1>4. ASSUME NEW i \in Ids
      PROVE  /\ Once(t, Requests, i) /\ Once(t, Answers, i)
             /\ h.type \notin Requests \/ i # h.id => (Has(t, Requests, i) <=> Has(q, Requests, i))
             /\ h.type \notin Answers \/ i # h.id => /\ Has(t, Oks, i) <=> Has(q, Oks, i)
                                                     /\ Has(t, Errors, i) <=> Has(q, Errors, i)
             /\ h.type \in Requests /\ h.id = i => Has(q, Requests, i) /\ ~Has(t, Requests, i)
             /\ h.type \in Answers /\ h.id = i => ~Has(t, Oks, i) /\ ~Has(t, Errors, i)
             /\ h.type \in Oks /\ h.id = i => Has(q, Oks, i)
             /\ h.type \in Errors /\ h.id = i => Has(q, Errors, i)
  <2> HIDE DEF q
  <2>1. Once(t, Requests, i) /\ Once(t, Answers, i)
    BY <1>1, <1>3, HasTail
  <2>2. h.type \notin Requests \/ i # h.id => (Has(t, Requests, i) <=> Has(q, Requests, i))
    BY <1>1, HasTail
  <2>3. h.type \notin Answers \/ i # h.id => /\ Has(t, Oks, i) <=> Has(q, Oks, i)
                                             /\ Has(t, Errors, i) <=> Has(q, Errors, i)
    BY <1>1, HasTail, AnswerTypes
  <2>4. h.type \in Requests /\ h.id = i => Has(q, Requests, i) /\ ~Has(t, Requests, i)
    BY <1>1, <1>3, HasTail
  <2>5. h.type \in Answers /\ h.id = i => ~Has(t, Oks, i) /\ ~Has(t, Errors, i)
    <3>1. Oks \subseteq Answers /\ Errors \subseteq Answers
      BY AnswerTypes
    <3> QED  BY <1>1, <1>3, <3>1, HasTail
  <2>6. /\ h.type \in Oks /\ h.id = i => Has(q, Oks, i)
        /\ h.type \in Errors /\ h.id = i => Has(q, Errors, i)
    BY <1>1, HasTail
  <2> QED  BY <2>1, <2>2, <2>3, <2>4, <2>5, <2>6
<1>5. ctrl'[x] = t /\ ctrl[x] = q
  OBVIOUS
<1>6. \A i \in Ids : Alike(ctrl[p], ctrl'[p], i)
  OBVIOUS
<1> HIDE DEF t, h, q, p
<1>7. ASSUME NEW i \in Ids
      PROVE  /\ Single(x, i)' /\ AskedSame(x, i)
             /\ h.type \notin Answers \/ i # h.id => OkSame(x, i) /\ ErrorSame(x, i)
  <2>1. Once(ctrl[p], Requests, i)
    BY <1>2 DEF Single, p
  <2>2. Single(x, i)'
    BY <1>4, <1>5, <1>6, <2>1 DEF p, Alike, Single
  <2>3. AskedSame(x, i)
    BY <1>6 DEF p, Alike, AskedSame, Asked
  <2>4. h.type \notin Answers \/ i # h.id => OkSame(x, i) /\ ErrorSame(x, i)
    BY <1>4, <1>5 DEF OkSame, ErrorSame, OkSent, ErrorSent
  <2> QED  BY <2>2, <2>3, <2>4
<1>8. ASSUME NEW i \in Ids
      PROVE  /\ Single(p, i)' /\ OkSame(p, i) /\ ErrorSame(p, i)
             /\ h.type \notin Requests \/ i # h.id => AskedSame(p, i)
  <2>1. Once(ctrl[p], Answers, i)
    BY <1>0, <1>2 DEF Single
  <2> QED  BY <1>0, <1>4, <1>5, <1>6, <2>1
           DEF Alike, Single, AskedSame, OkSame, ErrorSame, Asked, OkSent, ErrorSent
<1>9. ASSUME NEW i \in Ids, h.id = i
      PROVE  /\ h.type \in Requests => Asked(p, i) /\ ~Asked(p, i)'
             /\ h.type \in Answers => ~OkSent(x, i)' /\ ~ErrorSent(x, i)'
             /\ h.type \in Oks => OkSent(x, i)
             /\ h.type \in Errors => ErrorSent(x, i)
  BY <1>0, <1>4, <1>5, <1>9 DEF Asked, OkSent, ErrorSent
<1>10. \A f \in Endpoints, i \in Ids :
         /\ Single(f, i)'
         /\ h.type \notin Requests \/ f # p \/ i # h.id => AskedSame(f, i)
         /\ h.type \notin Answers \/ f # x \/ i # h.id => OkSame(f, i) /\ ErrorSame(f, i)
  BY <1>0, <1>7, <1>8
<1> QED  BY <1>9, <1>10 DEF h, p, q

\* g is f with another track at x for i, of which this is known.
RemoteSet(f, g, x, i, call, resp) ==
    /\ g[x][i].call = call /\ g[x][i].resp = resp
    /\ \A y \in Endpoints, j \in Ids : y # x \/ j # i => g[y][j] = f[y][j]
LocalSet(f, g, x, i, kind, answer) ==
    /\ g[x][i].kind = kind /\ g[x][i].answer = answer
    /\ \A y \in Endpoints, j \in Ids : y # x \/ j # i => g[y][j] = f[y][j]

\* Replacing one track by another.
LEMMA TrackReplaced ==
    ASSUME NEW x \in Endpoints, NEW i \in Ids, NEW r
    PROVE  /\ \A f \in RemoteTracks :
                RemoteSet(f, [f EXCEPT ![x][i] = r], x, i, r.call, r.resp)
           /\ \A f \in LocalTracks :
                LocalSet(f, [f EXCEPT ![x][i] = r], x, i, r.kind, r.answer)
BY DEF RemoteSet, LocalSet, RemoteTracks, LocalTracks

\* The updates of a remote track that the actions make.
LEMMA RemoteAfter ==
    ASSUME NEW f \in RemoteTracks, NEW x \in Endpoints, NEW i \in Ids
    PROVE  /\ \A v : RemoteSet(f, [f EXCEPT ![x][i].call = v], x, i, v, f[x][i].resp)
           /\ \A v : RemoteSet(f, [f EXCEPT ![x][i].resp = v], x, i, f[x][i].call, v)
           /\ RemoteSet(f, [f EXCEPT ![x][i].done = TRUE], x, i, f[x][i].call, f[x][i].resp)
           /\ RemoteSet(f, [f EXCEPT ![x][i].closes = @ + 1], x, i, f[x][i].call, f[x][i].resp)
           /\ RemoteSet(f, [f EXCEPT ![x][i].updates = @ + 1], x, i, f[x][i].call, f[x][i].resp)
           /\ \A v : RemoteSet(f, [f EXCEPT ![x][i] = [@ EXCEPT !.call = v, !.resp = "empty"]],
                               x, i, v, "empty")
<1> DEFINE r == f[x][i]
<1>1. r \in RemoteTrack
  BY DEF RemoteTracks
<1>2. /\ \A v : [r EXCEPT !.call = v].call = v /\ [r EXCEPT !.call = v].resp = r.resp
      /\ \A v : [r EXCEPT !.resp = v].call = r.call /\ [r EXCEPT !.resp = v].resp = v
      /\ [r EXCEPT !.done = TRUE].call = r.call /\ [r EXCEPT !.done = TRUE].resp = r.resp
      /\ /\ [r EXCEPT !.closes = r.closes + 1].call = r.call
         /\ [r EXCEPT !.closes = r.closes + 1].resp = r.resp
      /\ /\ [r EXCEPT !.updates = r.updates + 1].call = r.call
         /\ [r EXCEPT !.updates = r.updates + 1].resp = r.resp
      /\ \A v : /\ [r EXCEPT !.call = v, !.resp = "empty"].call = v
                /\ [r EXCEPT !.call = v, !.resp = "empty"].resp = "empty"
  <2> HIDE DEF r
  <2> QED  BY <1>1 DEF RemoteTrack
<1>3. \A s : RemoteSet(f, [f EXCEPT ![x][i] = s], x, i, s.call, s.resp)
  BY TrackReplaced
<1>4. ASSUME NEW v
      PROVE  RemoteSet(f, [f EXCEPT ![x][i].call = v], x, i, v, f[x][i].resp)
  <2>1. RemoteSet(f, [f EXCEPT ![x][i].call = v], x, i, [r EXCEPT !.call = v].call, [r EXCEPT !.call = v].resp)
    BY <1>3, Zenon
  <2> QED  BY <1>2, <2>1, Zenon
<1>5. ASSUME NEW v
      PROVE  RemoteSet(f, [f EXCEPT ![x][i].resp = v], x, i, f[x][i].call, v)
  <2>1. RemoteSet(f, [f EXCEPT ![x][i].resp = v], x, i, [r EXCEPT !.resp = v].call, [r EXCEPT !.resp = v].resp)
    BY <1>3, Zenon
  <2> QED  BY <1>2, <2>1, Zenon
<1>6. RemoteSet(f, [f EXCEPT ![x][i].done = TRUE], x, i, f[x][i].call, f[x][i].resp)
  BY <1>2, <1>3, Zenon
<1>7. RemoteSet(f, [f EXCEPT ![x][i].closes = @ + 1], x, i, f[x][i].call, f[x][i].resp)
  BY <1>2, <1>3, Zenon
<1>8. RemoteSet(f, [f EXCEPT ![x][i].updates = @ + 1], x, i, f[x][i].call, f[x][i].resp)
  BY <1>2, <1>3, Zenon
<1>9. ASSUME NEW v
      PROVE  RemoteSet(f, [f EXCEPT ![x][i] = [@ EXCEPT !.call = v, !.resp = "empty"]], x, i, v, "empty")
  <2>1. RemoteSet(f, [f EXCEPT ![x][i] = [@ EXCEPT !.call = v, !.resp = "empty"]], x, i, [r EXCEPT !.call = v, !.resp = "empty"].call, [r EXCEPT !.call = v, !.resp = "empty"].resp)
    BY <1>3, Zenon
  <2> QED  BY <1>2, <2>1, Zenon
<1> QED  BY <1>4, <1>5, <1>6, <1>7, <1>8, <1>9

\* The updates of a local track that the actions make.
LEMMA LocalAfter ==
    ASSUME NEW f \in LocalTracks, NEW x \in Endpoints, NEW i \in Ids
    PROVE  /\ \A v : LocalSet(f, [f EXCEPT ![x][i].ctx = v], x, i, f[x][i].kind, f[x][i].answer)
           /\ \A v : LocalSet(f, [f EXCEPT ![x][i].answer = v], x, i, f[x][i].kind, v)
           /\ \A v : LocalSet(f, [f EXCEPT ![x][i] = Handled(@, v)], x, i, f[x][i].kind, v)
<1> DEFINE r == f[x][i]
<1>1. r \in LocalTrack
  BY DEF LocalTracks
<1>2. /\ \A v : [r EXCEPT !.ctx = v].kind = r.kind /\ [r EXCEPT !.ctx = v].answer = r.answer
      /\ \A v : [r EXCEPT !.answer = v].kind = r.kind /\ [r EXCEPT !.answer = v].answer = v
      /\ \A v : Handled(r, v).kind = r.kind /\ Handled(r, v).answer = v
  <2> HIDE DEF r
  <2> QED  BY <1>1 DEF LocalTrack, Handled
<1>3. \A s : LocalSet(f, [f EXCEPT ![x][i] = s], x, i, s.kind, s.answer)
  BY TrackReplaced
<1>4. ASSUME NEW v
      PROVE  LocalSet(f, [f EXCEPT ![x][i].ctx = v], x, i, f[x][i].kind, f[x][i].answer)
  <2>1. LocalSet(f, [f EXCEPT ![x][i].ctx = v], x, i, [r EXCEPT !.ctx = v].kind, [r EXCEPT !.ctx = v].answer)
    BY <1>3, Zenon
  <2> QED  BY <1>2, <2>1, Zenon
<1>5. ASSUME NEW v
      PROVE  LocalSet(f, [f EXCEPT ![x][i].answer = v], x, i, f[x][i].kind, v)
  <2>1. LocalSet(f, [f EXCEPT ![x][i].answer = v], x, i, [r EXCEPT !.answer = v].kind, [r EXCEPT !.answer = v].answer)
    BY <1>3, Zenon
  <2> QED  BY <1>2, <2>1, Zenon
<1>6. ASSUME NEW v
      PROVE  LocalSet(f, [f EXCEPT ![x][i] = Handled(@, v)], x, i, f[x][i].kind, v)
  <2>1. LocalSet(f, [f EXCEPT ![x][i] = Handled(@, v)], x, i, Handled(r, v).kind, Handled(r, v).answer)
    BY <1>3, Zenon
  <2> QED  BY <1>2, <2>1, Zenon
<1> QED  BY <1>4, <1>5, <1>6

-----------------------------------------------------------------------------
(***************************************************************************)
(* Every step moves one pair.  One lemma per group of actions.             *)
(***************************************************************************)

\* No ID is taken back, and the setup leaves the limit alone until it is over.
Steady ==
    \A x \in Endpoints :
      /\ nextId'[x] \in {nextId[x], nextId[x] + 2}
      /\ setup'[x] = "waiting" => setup[x] = "waiting" /\ maxId'[x] = maxId[x]

Moved == OnePairMoves /\ Steady /\ \A f \in Endpoints, i \in Ids : Single(f, i)'

\* A call begins with the next ID, below the limit, and is never unmade.
LEMMA CallsBegin ==
    ASSUME TypeOK, RequestInv, Moved, NEW f \in Endpoints, NEW i \in Ids
    PROVE  /\ rt[f][i].call = "none" /\ rt'[f][i].call # "none" =>
                nextId[f] = i /\ i < maxId[f] /\ nextId'[f] = i + 2
           /\ rt'[f][i].call = "none" => rt[f][i].call = "none"
<1>1. PairStep(f, i) /\ PairInv(f, i)
  <2>1. Fade(f, i) => PairStep(f, i)
    BY DEF PairStep
  <2> QED  BY <2>1 DEF Moved, OnePairMoves, RequestInv
<1>2. ASSUME rt[f][i].call = "none"
      PROVE  ~Asked(f, i) /\ ~OkSent(f, i) /\ ~ErrorSent(f, i) /\ i \notin lpending[Peer(f)]
             /\ lt[Peer(f)][i].answer # "confirmed"
  BY <1>1, <1>2 DEF PairInv, Underway, Unanswered, Live
<1> QED  BY <1>1, <1>2
         DEF PairStep, Fade, CallerSame, Begin, Send, NotSent, Learn, GiveUp, HearOk,
             HearError, Admit, Refuse, Open, Answer, Deny

\* Such a step keeps the invariant.
LEMMA MovedInv ==
    ASSUME TypeOK, RequestInv, Moved
    PROVE  RequestInv'
<1>1. \A f \in Endpoints, i \in Ids : PairStep(f, i)
  <2>1. \A f \in Endpoints, i \in Ids : Fade(f, i) => PairStep(f, i)
    BY DEF PairStep
  <2> QED  BY <2>1 DEF Moved, OnePairMoves
<1>2. \A f \in Endpoints, i \in Ids : PairInv(f, i)'
  BY <1>1, PairStepInv DEF Moved
<1>3. ASSUME NEW f \in Endpoints, NEW i \in Ids, rt[f][i].call = "none"
      PROVE  rt'[f][i].call = "none" \/ (nextId[f] = i /\ i < maxId[f] /\ nextId'[f] = i + 2)
  BY <1>3, CallsBegin
<1>4. ASSUME NEW f \in Endpoints, NEW i \in Ids, nextId'[f] <= i
      PROVE  rt'[f][i].call = "none"
  <2>1. nextId[f] \in Nat /\ nextId'[f] \in {nextId[f], nextId[f] + 2} /\ i \in Int
    BY DEF TypeOK, Moved, Steady, Ids
  <2>3. nextId[f] <= i
    BY <1>4, <2>1
  <2>4. rt[f][i].call = "none"
    BY <2>3 DEF RequestInv
  <2> QED  BY <1>3, <1>4, <2>1, <2>4
<1>5. ASSUME NEW f \in Endpoints, setup'[f] = "waiting"
      PROVE  maxId'[f] = 0 /\ \A i \in Ids : rt'[f][i].call = "none"
  <2>1. /\ maxId[f] = 0 /\ maxId'[f] = maxId[f]
        /\ \A i \in Ids : rt[f][i].call = "none"
    BY <1>5 DEF Moved, Steady, RequestInv
  <2>2. \A i \in Ids : ~(i < 0)
    BY DEF Ids
  <2> QED  BY <1>3, <2>1, <2>2
<1> QED  BY <1>2, <1>4, <1>5 DEF RequestInv

\* Parts of the state that a step does not change are the same for every pair.
LEMMA Unchanged ==
    ASSUME RequestInv
    PROVE  /\ UNCHANGED <<rt, rpending, ropen>> =>
                \A f \in Endpoints, i \in Ids : CallerSame(f, i)
           /\ UNCHANGED <<lt, lpending, lopen>> =>
                \A f \in Endpoints, i \in Ids : PublisherSame(f, i)
           /\ UNCHANGED ctrl =>
                \A f \in Endpoints, i \in Ids : FlightSame(f, i) /\ Single(f, i)'
           /\ UNCHANGED <<nextId, setup, maxId>> => Steady
<1>1. UNCHANGED <<rt, rpending, ropen>> => \A f \in Endpoints, i \in Ids : CallerSame(f, i)
  BY DEF CallerSame, Remote
<1>2. UNCHANGED <<lt, lpending, lopen>> => \A f \in Endpoints, i \in Ids : PublisherSame(f, i)
  BY DEF PublisherSame, Local
<1>3. ASSUME UNCHANGED ctrl, NEW f \in Endpoints, NEW i \in Ids
      PROVE  FlightSame(f, i) /\ Single(f, i)'
  <2>1. PairInv(f, i)
    BY DEF RequestInv
  <2> QED  BY <1>3, <2>1 DEF FlightSame, AskedSame, OkSame, ErrorSame, Asked, OkSent,
                             ErrorSent, Single, PairInv
<1>4. UNCHANGED <<nextId, setup, maxId>> => Steady
  BY DEF Steady
<1> QED  BY <1>1, <1>2, <1>3, <1>4

\* A pair to which nothing happens fades.
LEMMA SameFades ==
    ASSUME NEW f, NEW i, CallerSame(f, i), PublisherSame(f, i), FlightSame(f, i)
    PROVE  Fade(f, i)
BY DEF Fade, FlightSame, AskedSame, OkSame, ErrorSame

\* A step in which every pair fades.
LEMMA AllFade ==
    ASSUME Steady, \A f \in Endpoints, i \in Ids : Fade(f, i) /\ Single(f, i)'
    PROVE  Moved
<1>1. 0 \in Ids /\ Client \in Endpoints
  BY ControlAssumption DEF Ids, Endpoints
<1> QED  BY <1>1 DEF Moved, OnePairMoves, PairStep

\* A write about something else changes no pair.
LEMMA HarmlessWrite ==
    ASSUME TypeOK, RequestInv, NEW x \in Endpoints, NEW m \in Message, Write(x, m),
           m.type \notin Requests \cup Answers
    PROVE  \A f \in Endpoints, i \in Ids : FlightSame(f, i) /\ Single(f, i)'
<1>1. m.type \notin Requests /\ m.type \notin Oks /\ m.type \notin Errors /\ m.type \notin Answers
  BY AnswerTypes
<1> QED  BY <1>1, WriteFlight DEF FlightSame

\* Nor does taking such a message.
LEMMA HarmlessRead ==
    ASSUME TypeOK, RequestInv, NEW x \in Endpoints, ctrl[x] # << >>,
           Head(ctrl[x]).type \notin Requests \cup Answers,
           Consume(x) \/ ConsumeAndLeave(x, ctrl[Peer(x)])
    PROVE  \A f \in Endpoints, i \in Ids : FlightSame(f, i) /\ Single(f, i)'
<1>1. ctrl'[x] = Tail(ctrl[x]) /\ ctrl'[Peer(x)] = ctrl[Peer(x)]
  BY PeerType DEF Consume, ConsumeAndLeave, TypeOK
<1>2. \A i \in Ids : Alike(ctrl[Peer(x)], ctrl'[Peer(x)], i)
  BY <1>1 DEF Alike
<1> QED  BY <1>1, <1>2, ReadFlight DEF FlightSame

\* A message that its reader takes and drops: a request, or an answer to a call
\* that has given up.
LEMMA MessageLost ==
    ASSUME TypeOK, RequestInv, Steady, NEW x \in Endpoints, ctrl[x] # << >>,
           ctrl'[x] = Tail(ctrl[x]),
           \A i \in Ids : Alike(ctrl[Peer(x)], ctrl'[Peer(x)], i),
           \A f \in Endpoints, i \in Ids : CallerSame(f, i) /\ PublisherSame(f, i),
           Head(ctrl[x]).type \in Answers =>
             rt[x][Head(ctrl[x]).id].call = "none" \/ Head(ctrl[x]).id \notin rpending[x]
    PROVE  Moved
<1> DEFINE h == Head(ctrl[x])
           p == Peer(x)
<1>1. h.id \in Ids
  BY HeadType DEF TypeOK
<1>2. /\ \A f \in Endpoints, i \in Ids :
           /\ Single(f, i)'
           /\ h.type \notin Requests \/ f # p \/ i # h.id => AskedSame(f, i)
           /\ h.type \notin Answers \/ f # x \/ i # h.id => OkSame(f, i) /\ ErrorSame(f, i)
      /\ \A i \in Ids : h.id = i =>
           /\ h.type \in Requests => Asked(p, i) /\ ~Asked(p, i)'
           /\ h.type \in Answers => ~OkSent(x, i)' /\ ~ErrorSent(x, i)'
           /\ h.type \in Oks => OkSent(x, i)
           /\ h.type \in Errors => ErrorSent(x, i)
  BY ReadFlight
<1>3. ASSUME h.type \in Answers
      PROVE  rt[x][h.id].call = "cancelled"
  <2>1. OkSent(x, h.id) \/ ErrorSent(x, h.id)
    BY <1>1, <1>2, <1>3, AnswerTypes
  <2>2. PairInv(x, h.id)
    BY <1>1 DEF RequestInv
  <2> QED  BY <1>3, <2>1, <2>2 DEF PairInv, Underway, Unanswered, Live
<1> HIDE DEF h, p
<1>4. ASSUME NEW f \in Endpoints, NEW i \in Ids
      PROVE  Fade(f, i)
  <2>1. AskedSame(f, i) \/ ~Asked(f, i)'
    BY <1>2
  <2>2. \/ OkSame(f, i) /\ ErrorSame(f, i)
        \/ rt[f][i].call = "cancelled" /\ ~OkSent(f, i)' /\ ~ErrorSent(f, i)'
    BY <1>2, <1>3
  <2> QED  BY <2>1, <2>2 DEF Fade, AskedSame, OkSame, ErrorSame
<1> QED  BY <1>2, <1>4, AllFade

\* The steps of the control plane move no pair, but that a request which arrives
\* before the setup is lost.
LEMMA ControlMoves ==
    ASSUME TypeOK, RequestInv, NEW e \in Endpoints, ControlStep(e)
    PROVE  Moved
<1>0. /\ Client \in Endpoints /\ Server \in Endpoints
      /\ \A f \in Endpoints, i \in Ids : CallerSame(f, i) /\ PublisherSame(f, i)
  BY Unchanged DEF Endpoints, ControlStep, trackVars
<1>1. CASE OnMessageBeforeSetup(e)
  <2>1. /\ setup[e] = "waiting" /\ ctrl[e] # << >> /\ Consume(e)
        /\ UNCHANGED <<nextId, setup, maxId>>
    BY <1>1 DEF OnMessageBeforeSetup
  <2>2. /\ ctrl'[e] = Tail(ctrl[e]) /\ ctrl'[Peer(e)] = ctrl[Peer(e)]
        /\ Head(ctrl[e]).id \in Ids
    BY <2>1, PeerType, HeadType DEF Consume, TypeOK
  <2>3. \A i \in Ids : Alike(ctrl[Peer(e)], ctrl'[Peer(e)], i)
    BY <2>2 DEF Alike
  <2>4. Steady /\ rt[e][Head(ctrl[e]).id].call = "none"
    BY <2>1, <2>2, Unchanged DEF RequestInv
  <2> QED  BY <1>0, <2>1, <2>2, <2>3, <2>4, MessageLost
<1>2. CASE OnClientSetup
  <2>1. /\ ctrl[Server] # << >> /\ Consume(Server)
        /\ Head(ctrl[Server]).type \notin Requests \cup Answers
    BY <1>2 DEF OnClientSetup, NextIs, Requests, Answers
  <2>2. Steady
    BY <1>2 DEF OnClientSetup, Steady, TypeOK
  <2> QED  BY <1>0, <2>1, <2>2, HarmlessRead, SameFades, AllFade
<1>3. CASE WriteServerSetup
  <2> DEFINE m == LimitMsg("SERVER_SETUP", ServerSetupMax)
  <2>1. m \in Message /\ m.type \notin Requests \cup Answers
    BY ControlAssumption DEF LimitMsg, Message, MessageTypes, Ids, Requests, Answers
  <2>2. Write(Server, m)
    BY <1>3 DEF WriteServerSetup
  <2> HIDE DEF m
  <2>3. Steady
    BY <1>3 DEF WriteServerSetup, Steady, TypeOK
  <2> QED  BY <1>0, <2>1, <2>2, <2>3, HarmlessWrite, SameFades, AllFade
<1>4. CASE OnServerSetup
  <2>1. /\ ctrl[Client] # << >> /\ Consume(Client)
        /\ Head(ctrl[Client]).type \notin Requests \cup Answers
    BY <1>4 DEF OnServerSetup, NextIs, Requests, Answers
  <2>2. Steady
    BY <1>4 DEF OnServerSetup, SetMax, Steady, TypeOK
  <2> QED  BY <1>0, <2>1, <2>2, HarmlessRead, SameFades, AllFade
<1>5. CASE OnMaxRequestID(e)
  <2>1. /\ ctrl[e] # << >> /\ Consume(e)
        /\ Head(ctrl[e]).type \notin Requests \cup Answers
    BY <1>5 DEF OnMaxRequestID, Reading, NextIs, Requests, Answers
  <2>2. Steady
    BY <1>5 DEF OnMaxRequestID, Reading, SetMax, Steady, TypeOK
  <2> QED  BY <1>0, <2>1, <2>2, HarmlessRead, SameFades, AllFade
<1>6. CASE OnRequestsBlocked(e)
  <2>1. /\ ctrl[e] # << >> /\ Consume(e)
        /\ Head(ctrl[e]).type \notin Requests \cup Answers
    BY <1>6 DEF OnRequestsBlocked, Reading, NextIs, Requests, Answers
  <2>2. Steady
    BY <1>6, Unchanged DEF OnRequestsBlocked
  <2> QED  BY <1>0, <2>1, <2>2, HarmlessRead, SameFades, AllFade
<1>7. CASE ReadFails(e)
  <2>1. UNCHANGED ctrl /\ Steady
    BY <1>7, Unchanged DEF ReadFails
  <2> QED  BY <1>0, <2>1, Unchanged, SameFades, AllFade
<1> QED  BY <1>1, <1>2, <1>3, <1>4, <1>5, <1>6, <1>7 DEF ControlStep, ControlReads

\* The messages of a track other than its request and its answer.
LEMMA HarmlessMsg ==
    ASSUME NEW type \in {"UNSUBSCRIBE", "FETCH_CANCEL", "SUBSCRIBE_UPDATE", "SUBSCRIBE_DONE"},
           NEW id \in Ids
    PROVE  Msg(type, id) \in Message /\ Msg(type, id).type \notin Requests \cup Answers
<1>1. type \in MessageTypes /\ type \notin Requests \cup Answers
  BY DEF MessageTypes, Requests, Answers
<1> QED  BY <1>1, MsgType DEF Msg

\* A step that changes one call leaves the callers of the other pairs alone.
LEMMA OtherCallers ==
    ASSUME NEW e \in Endpoints, NEW id \in Ids, NEW call, NEW resp,
           RemoteSet(rt, rt', e, id, call, resp),
           \A f \in Endpoints, i \in Ids : f # e \/ i # id =>
             /\ i \in rpending'[f] <=> i \in rpending[f]
             /\ i \in ropen'[f] <=> i \in ropen[f]
    PROVE  \A f \in Endpoints, i \in Ids : f # e \/ i # id => CallerSame(f, i)
BY DEF RemoteSet, CallerSame, Remote

\* A pair that moves while nothing happens to the others.
LEMMA OneMoves ==
    ASSUME Steady, NEW e \in Endpoints, NEW id \in Ids, PairStep(e, id),
           \A f \in Endpoints, i \in Ids : Single(f, i)',
           \A f \in Endpoints, i \in Ids : f # e \/ i # id => Fade(f, i)
    PROVE  Moved
BY DEF Moved, OnePairMoves

\* The steps of a call, and what the application does with its track.
LEMMA CallMoves ==
    ASSUME TypeOK, RequestInv, NEW e \in Endpoints, NEW id \in Ids,
           \/ CallStep(e, id) \/ Cancel(e, id)
           \/ CloseTrack(e, id) \/ UpdateSubscription(e, id)
    PROVE  Moved
<1>0. /\ rt \in RemoteTracks /\ PairInv(e, id)
      /\ rpending \in [Endpoints -> SUBSET Ids]
  BY DEF TypeOK, RemoteTracks, RequestInv
<1>1. UNCHANGED <<nextId, setup, maxId, ropen, lt, lpending, lopen>>
  BY DEF CallStep, WriteRequest, Resolve, Abort, Cancel, CloseTrack, UpdateSubscription,
         controlVars
<1>2. Steady /\ \A f \in Endpoints, i \in Ids : PublisherSame(f, i)
  BY <1>1, Unchanged
<1>3. CASE WriteRequest(e, id)
  <2> DEFINE m == [type |-> RequestType(rt[e][id].kind), id |-> id,
                   val |-> IF rt[e][id].badNamespace THEN 1 ELSE 0]
             v == IF WriteFails THEN "unsent" ELSE "waiting"
  <2>1. /\ m \in Message /\ m.type \in Requests /\ m.id = id
        /\ m.type \notin Oks /\ m.type \notin Errors /\ m.type \notin Answers
    BY DEF RequestType, Message, MessageTypes, Requests, Oks, Errors, Answers
  <2>2. /\ Write(e, m) /\ rt[e][id].call = "begun"
        /\ rt' = [rt EXCEPT ![e][id].call = v]
    BY <1>3, Zenon DEF WriteRequest
  <2>3. RemoteSet(rt, rt', e, id, v, rt[e][id].resp)
    BY <1>0, <2>2, RemoteAfter, Zenon
  <2>4. ~Asked(e, id)
    BY <1>0, <2>2 DEF PairInv, Underway, Unanswered, Live
  <2> HIDE DEF m
  <2>5. \A f \in Endpoints, i \in Ids :
          /\ Single(f, i)' /\ OkSame(f, i) /\ ErrorSame(f, i)
          /\ f # e \/ i # id => AskedSame(f, i)
    BY <2>1, <2>2, <2>4, WriteFlight
  <2>6. \A f \in Endpoints, i \in Ids : f # e \/ i # id =>
          (i \in rpending'[f] <=> i \in rpending[f]) /\ (i \in ropen'[f] <=> i \in ropen[f])
    BY <1>0, <1>1, <1>3 DEF WriteRequest
  <2>7. \A f \in Endpoints, i \in Ids : f # e \/ i # id => CallerSame(f, i)
    BY <2>3, <2>6, OtherCallers
  <2>8. PairStep(e, id)
    <3>1. CASE WriteFails
      <4>1. AskedSame(e, id)
        BY <2>2, <3>1, PeerType DEF WriteFails, Write, Written, AskedSame, Asked, TypeOK
      <4> QED  BY <1>2, <2>2, <2>3, <2>5, <3>1, <4>1
               DEF PairStep, NotSent, RemoteSet, FlightSame
    <3>2. CASE ~WriteFails
      <4>1. id \in rpending'[e]
        BY <1>0, <1>3, <3>2, <2>2 DEF WriteRequest, PairInv
      <4> QED  BY <1>2, <2>2, <2>3, <2>5, <3>2, <4>1
               DEF PairStep, Send, RemoteSet
    <3> QED  BY <3>1, <3>2
  <2> QED  BY <1>2, <2>5, <2>7, <2>8, SameFades, OneMoves DEF FlightSame
<1>4. CASE Resolve(e, id) \/ Abort(e, id) \/ Cancel(e, id)
  <2>1. ctrl' = ctrl \/ Write(e, Msg("FETCH_CANCEL", id))
    BY <1>4 DEF Resolve, Abort, Cancel, controlVars
  <2>2. \A f \in Endpoints, i \in Ids : FlightSame(f, i) /\ Single(f, i)'
    BY <2>1, Unchanged, HarmlessMsg, HarmlessWrite
  <2>3. \A f \in Endpoints, i \in Ids : f # e \/ i # id =>
          (i \in rpending'[f] <=> i \in rpending[f]) /\ (i \in ropen'[f] <=> i \in ropen[f])
    <3>1. CASE Resolve(e, id)
      BY <1>0, <1>1, <3>1 DEF Resolve
    <3>2. CASE Abort(e, id)
      BY <1>0, <1>1, <3>2 DEF Abort
    <3>3. CASE Cancel(e, id)
      BY <1>0, <1>1, <3>3 DEF Cancel
    <3> QED  BY <1>4, <3>1, <3>2, <3>3
  <2>4. CASE Resolve(e, id)
    <3> DEFINE v == IF rt[e][id].resp = "error" THEN "refused" ELSE "ok"
    <3>1. rt' = [rt EXCEPT ![e][id] = [@ EXCEPT !.call = v, !.resp = "empty"]]
      BY <2>4, Zenon DEF Resolve
    <3>2. RemoteSet(rt, rt', e, id, v, "empty")
      BY <1>0, <3>1, RemoteAfter, Zenon
    <3>3. Learn(e, id)
      BY <1>2, <2>2, <2>4, <3>2 DEF Resolve, Learn, RemoteSet
    <3>4. \A f \in Endpoints, i \in Ids : f # e \/ i # id => CallerSame(f, i)
      BY <2>3, <3>2, OtherCallers
    <3> QED  BY <1>2, <2>2, <3>3, <3>4, SameFades, OneMoves DEF PairStep
  <2>5. CASE Abort(e, id)
    <3>1. rt' = [rt EXCEPT ![e][id].call = "cancelled"]
      BY <2>5, Zenon DEF Abort
    <3>2. RemoteSet(rt, rt', e, id, "cancelled", rt[e][id].resp)
      BY <1>0, <3>1, RemoteAfter, Zenon
    <3>3. id \notin rpending'[e] /\ rt[e][id].call = "aborting"
      BY <1>0, <2>5 DEF Abort
    <3>4. GiveUp(e, id)
      BY <1>2, <2>2, <3>2, <3>3 DEF GiveUp, RemoteSet
    <3>5. \A f \in Endpoints, i \in Ids : f # e \/ i # id => CallerSame(f, i)
      BY <2>3, <3>2, OtherCallers
    <3> QED  BY <1>2, <2>2, <3>4, <3>5, SameFades, OneMoves DEF PairStep
  <2>6. CASE Cancel(e, id)
    <3>1. rt' = [rt EXCEPT ![e][id].call = "aborting"]
      BY <2>6, Zenon DEF Cancel
    <3>2. RemoteSet(rt, rt', e, id, "aborting", rt[e][id].resp)
      BY <1>0, <3>1, RemoteAfter, Zenon
    <3>3. rpending' = rpending /\ rt[e][id].call = "waiting"
      BY <2>6 DEF Cancel
    <3>4. GiveUp(e, id)
      BY <1>2, <2>2, <3>2, <3>3 DEF GiveUp, RemoteSet
    <3>5. \A f \in Endpoints, i \in Ids : f # e \/ i # id => CallerSame(f, i)
      BY <2>3, <3>2, OtherCallers
    <3> QED  BY <1>2, <2>2, <3>4, <3>5, SameFades, OneMoves DEF PairStep
  <2> QED  BY <1>4, <2>4, <2>5, <2>6
<1>5. CASE CloseTrack(e, id) \/ UpdateSubscription(e, id)
  <2>1. \E type \in {"UNSUBSCRIBE", "FETCH_CANCEL", "SUBSCRIBE_UPDATE", "SUBSCRIBE_DONE"} :
          Write(e, Msg(type, id))
    BY <1>5 DEF CloseTrack, UpdateSubscription, CloseType
  <2>2. \A f \in Endpoints, i \in Ids : FlightSame(f, i) /\ Single(f, i)'
    BY <2>1, HarmlessMsg, HarmlessWrite
  <2>3. RemoteSet(rt, rt', e, id, rt[e][id].call, rt[e][id].resp)
    <3>1. \/ rt' = [rt EXCEPT ![e][id].closes = @ + 1]
          \/ rt' = [rt EXCEPT ![e][id].updates = @ + 1]
      BY <1>5, Zenon DEF CloseTrack, UpdateSubscription
    <3> QED  BY <1>0, <3>1, RemoteAfter, ZenonT(30)
  <2>4. UNCHANGED <<rpending, ropen>>
    BY <1>5 DEF CloseTrack, UpdateSubscription
  <2>5. \A f \in Endpoints, i \in Ids : CallerSame(f, i)
    BY <2>3, <2>4 DEF RemoteSet, CallerSame, Remote
  <2> QED  BY <1>2, <2>2, <2>5, SameFades, AllFade
<1> QED  BY <1>3, <1>4, <1>5 DEF CallStep

\* Drawing an ID moves the pair of that ID; finding none and closing move no pair.
LEMMA SessionCallMoves ==
    ASSUME TypeOK, RequestInv, NEW e \in Endpoints,
           \/ \E kind \in {"subscribe", "fetch"}, bad \in BOOLEAN : BeginRequest(e, kind, bad)
           \/ RequestBlocked(e) /\ UNCHANGED trackVars
           \/ Close(e) /\ UNCHANGED trackVars
    PROVE  Moved
<1>1. ASSUME NEW kind \in {"subscribe", "fetch"}, NEW bad \in BOOLEAN,
             BeginRequest(e, kind, bad)
      PROVE  Moved
  <2> DEFINE r == [NoRemoteTrack EXCEPT !.kind = kind, !.badNamespace = bad, !.call = "begun"]
  <2>0. DrawId(e)
    BY <1>1, Zenon DEF BeginRequest
  <2>1. PICK id \in Ids : id = nextId[e]
    <3>1. nextId[e] \in Nat /\ nextId[e] < IdBound
      BY <2>0 DEF DrawId, TypeOK
    <3> QED  BY <3>1, ControlAssumption DEF Ids
  <2>2. UNCHANGED <<setup, maxId, ctrl, ropen, lt, lpending, lopen>>
    BY <1>1, Zenon DEF BeginRequest
  <2>3. id < maxId[e] /\ nextId' = [nextId EXCEPT ![e] = id + 2]
    BY <2>0, <2>1 DEF DrawId, IdAvailable, NextIdAfterDraw
  <2>4. Steady /\ nextId'[e] = id + 2
    BY <2>1, <2>2, <2>3 DEF Steady, TypeOK
  <2>5. \A f \in Endpoints, i \in Ids :
          PublisherSame(f, i) /\ FlightSame(f, i) /\ Single(f, i)'
    BY <2>2, Unchanged
  <2>6. CASE UNCHANGED <<rpending, rt>>
    BY <2>2, <2>4, <2>5, <2>6, Unchanged, SameFades, AllFade
  <2>7. CASE /\ rpending' = [rpending EXCEPT ![e] = @ \cup {id}]
             /\ rt' = [rt EXCEPT ![e][id] = r]
    <3>1. r.call = "begun" /\ r.resp = "empty"
      BY DEF NoRemoteTrack
    <3> HIDE DEF r
    <3>2. rt \in RemoteTracks /\ rpending \in [Endpoints -> SUBSET Ids]
      BY DEF TypeOK, RemoteTracks
    <3>3. RemoteSet(rt, rt', e, id, "begun", "empty")
      BY <2>7, <3>1, <3>2, TrackReplaced
    <3>4. id \in rpending'[e] /\ \A f \in Endpoints, i \in Ids : f # e \/ i # id =>
            (i \in rpending'[f] <=> i \in rpending[f]) /\ (i \in ropen'[f] <=> i \in ropen[f])
      BY <2>2, <2>7, <3>2
    <3>5. \A f \in Endpoints, i \in Ids : f # e \/ i # id => CallerSame(f, i)
      BY <3>3, <3>4, OtherCallers
    <3>6. Begin(e, id)
      BY <2>1, <2>3, <2>4, <2>5, <3>3, <3>4 DEF Begin, RemoteSet
    <3> QED  BY <2>4, <2>5, <3>5, <3>6, SameFades, OneMoves DEF PairStep
  <2>8. \/ UNCHANGED <<rpending, rt>>
        \/ /\ rpending' = [rpending EXCEPT ![e] = @ \cup {id}]
           /\ rt' = [rt EXCEPT ![e][id] = r]
    BY <1>1, <2>1, Zenon DEF BeginRequest
  <2> QED  BY <2>6, <2>7, <2>8
<1>2. CASE RequestBlocked(e) /\ UNCHANGED trackVars
  <2> DEFINE m == LimitMsg("REQUESTS_BLOCKED", maxId[e])
  <2>1. m \in Message /\ m.type \notin Requests \cup Answers
    BY ControlAssumption DEF LimitMsg, Message, MessageTypes, Ids, Requests, Answers, TypeOK
  <2>2. Write(e, m) /\ UNCHANGED <<nextId, setup, maxId>> /\ UNCHANGED trackVars
    BY <1>2 DEF RequestBlocked
  <2> HIDE DEF m
  <2>3. \A f \in Endpoints, i \in Ids : FlightSame(f, i) /\ Single(f, i)'
    BY <2>1, <2>2, HarmlessWrite
  <2> QED  BY <2>2, <2>3, Unchanged, SameFades, AllFade DEF trackVars
<1>3. CASE Close(e) /\ UNCHANGED trackVars
  BY <1>3, Unchanged, SameFades, AllFade DEF Close, trackVars
<1> QED  BY <1>1, <1>2, <1>3

\* The same for the publisher of one pair.
LEMMA OtherPublishers ==
    ASSUME NEW x \in Endpoints, NEW id \in Ids, NEW kind, NEW answer,
           LocalSet(lt, lt', x, id, kind, answer),
           \A f \in Endpoints, i \in Ids : f # x \/ i # id =>
             /\ i \in lpending'[f] => i \in lpending[f]
             /\ i \in Local(f)' => i \in Local(f)
    PROVE  \A f \in Endpoints, i \in Ids : f # Peer(x) \/ i # id => PublisherSame(f, i)
<1> SUFFICES ASSUME NEW f \in Endpoints, NEW i \in Ids, f # Peer(x) \/ i # id
             PROVE  PublisherSame(f, i)
  OBVIOUS
<1>1. Peer(f) \in Endpoints /\ (Peer(f) # x \/ i # id)
  BY PeerType
<1> QED  BY <1>1 DEF LocalSet, PublisherSame

\* The answers reach the caller; SUBSCRIBE_DONE moves no pair.
LEMMA AnswerMoves ==
    ASSUME TypeOK, RequestInv, NEW e \in Endpoints,
           \/ OnSubscribeOk(e) \/ OnFetchOk(e)
           \/ OnSubscribeError(e) \/ OnFetchError(e) \/ OnSubscribeDone(e)
    PROVE  Moved
<1> DEFINE h == Head(ctrl[e])
           p == Peer(e)
<1>0. ctrl[e] # << >> /\ h.id \in Ids /\ p \in Endpoints /\ p # e
  BY HeadType, PeerType
     DEF OnSubscribeOk, OnFetchOk, OnSubscribeError, OnFetchError, OnError, OnSubscribeDone,
         Reading, NextIs, TypeOK
<1>1. PICK id \in Ids : h.id = id
  BY <1>0
<1>2. /\ rt \in RemoteTracks /\ PairInv(e, id)
      /\ rpending \in [Endpoints -> SUBSET Ids] /\ ropen \in [Endpoints -> SUBSET Ids]
      /\ ctrl \in [Endpoints -> Seq(Message)]
  BY DEF TypeOK, RemoteTracks, RequestInv
<1>3. UNCHANGED <<nextId, setup, maxId, lt, lpending, lopen>>
  BY DEF OnSubscribeOk, OnFetchOk, OnSubscribeError, OnFetchError, OnError, OnSubscribeDone
<1>4. Steady /\ \A f \in Endpoints, i \in Ids : PublisherSame(f, i)
  BY <1>3, Unchanged
<1>5. CASE OnSubscribeDone(e)
  <2>1. h.type \notin Requests \cup Answers /\ Consume(e)
    BY <1>5 DEF OnSubscribeDone, Reading, NextIs, Requests, Answers
  <2>2. \A f \in Endpoints, i \in Ids : FlightSame(f, i) /\ Single(f, i)'
    BY <1>0, <2>1, HarmlessRead
  <2>3. rt' = [rt EXCEPT ![e][id].done = TRUE] /\ UNCHANGED <<rpending, ropen>>
    BY <1>1, <1>5, Zenon DEF OnSubscribeDone
  <2>4. RemoteSet(rt, rt', e, id, rt[e][id].call, rt[e][id].resp)
    BY <1>2, <2>3, RemoteAfter, Zenon
  <2>5. \A f \in Endpoints, i \in Ids : CallerSame(f, i)
    BY <2>3, <2>4 DEF RemoteSet, CallerSame, Remote
  <2> QED  BY <1>4, <2>2, <2>5, SameFades, AllFade
<1>6. CASE OnSubscribeOk(e) \/ OnFetchOk(e) \/ OnSubscribeError(e) \/ OnFetchError(e)
  <2>1. \/ h.type \in Oks /\ (OnSubscribeOk(e) \/ OnFetchOk(e))
        \/ h.type \in Errors /\ (OnSubscribeError(e) \/ OnFetchError(e))
    BY <1>6 DEF OnSubscribeOk, OnFetchOk, OnSubscribeError, OnFetchError, OnError,
                Reading, NextIs, Oks, Errors
  <2>2. h.type \notin Requests /\ h.type \in Answers
    BY <2>1, AnswerTypes
  <2>3. ctrl'[e] = Tail(ctrl[e])
    BY <1>2, <1>6, PeerType DEF OnSubscribeOk, OnFetchOk, OnSubscribeError, OnFetchError,
       OnError, Consume, ConsumeAndLeave
  <2>4. \A i \in Ids : Alike(ctrl[p], ctrl'[p], i)
    <3>1. \/ Consume(e)
          \/ \E type \in {"UNSUBSCRIBE", "FETCH_CANCEL"} :
               ConsumeAndLeave(e, Written(ctrl[p], Msg(type, id)))
          \/ ConsumeAndLeave(e, ctrl[p])
      BY <1>1, <1>6 DEF OnSubscribeOk, OnFetchOk, OnSubscribeError, OnFetchError, OnError
    <3>2. \/ ctrl'[p] = ctrl[p]
          \/ \E type \in {"UNSUBSCRIBE", "FETCH_CANCEL"} :
               ctrl'[p] = Written(ctrl[p], Msg(type, id))
      BY <1>0, <1>2, <3>1 DEF Consume, ConsumeAndLeave
    <3>3. \A type \in {"UNSUBSCRIBE", "FETCH_CANCEL"} :
            Msg(type, id) \in Message /\ Msg(type, id).type \notin Requests \cup Answers
      BY HarmlessMsg
    <3>4. ctrl[p] \in Seq(Message)
      BY <1>0, <1>2
    <3> HIDE DEF p
    <3>5. CASE ctrl'[p] = ctrl[p]
      BY <3>5 DEF Alike
    <3>6. ASSUME NEW type \in {"UNSUBSCRIBE", "FETCH_CANCEL"},
                 ctrl'[p] = Written(ctrl[p], Msg(type, id))
          PROVE  \A i \in Ids : Alike(ctrl[p], ctrl'[p], i)
      BY <3>3, <3>4, <3>6, AlikeWritten
    <3> QED  BY <3>2, <3>5, <3>6
  <2>5. /\ \A f \in Endpoints, i \in Ids :
             /\ Single(f, i)' /\ AskedSame(f, i)
             /\ f # e \/ i # id => FlightSame(f, i)
        /\ ~OkSent(e, id)' /\ ~ErrorSent(e, id)'
        /\ h.type \in Oks => OkSent(e, id)
        /\ h.type \in Errors => ErrorSent(e, id)
    BY <1>0, <1>1, <2>2, <2>3, <2>4, ReadFlight DEF FlightSame
  <2>6. rt[e][id].resp = "empty" /\ id \in rpending[e]
    <3>1. OkSent(e, id) \/ ErrorSent(e, id)
      BY <2>1, <2>5
    <3>2. id \in rpending[e]
      BY <1>1, <1>6 DEF OnSubscribeOk, OnFetchOk, OnSubscribeError, OnFetchError, OnError
    <3> QED  BY <1>2, <3>1, <3>2 DEF PairInv, Underway, Unanswered
  <2>7. /\ id \notin rpending'[e]
        /\ \A f \in Endpoints, i \in Ids : f # e \/ i # id =>
             (i \in rpending'[f] <=> i \in rpending[f]) /\ (i \in ropen'[f] <=> i \in ropen[f])
    <3>1. CASE OnSubscribeOk(e)
      BY <1>1, <1>2, <3>1 DEF OnSubscribeOk, PendingAfterConfirm
    <3>2. CASE OnFetchOk(e)
      BY <1>1, <1>2, <3>2 DEF OnFetchOk, PendingAfterConfirm
    <3>3. CASE OnSubscribeError(e) \/ OnFetchError(e)
      BY <1>1, <1>2, <3>3, ZenonT(40) DEF OnSubscribeError, OnFetchError, OnError
    <3> QED  BY <1>6, <3>1, <3>2, <3>3
  <2>8. CASE OnSubscribeOk(e) \/ OnFetchOk(e)
    <3>1. \/ rt' = rt
          \/ rt' = [rt EXCEPT ![e][id].resp = IF rt[e][id].resp = "empty" THEN "ok" ELSE @]
      BY <1>1, <2>8, Zenon DEF OnSubscribeOk, OnFetchOk
    <3>2. PICK v \in {rt[e][id].resp, "ok"} : RemoteSet(rt, rt', e, id, rt[e][id].call, v)
      <4>1. CASE rt' = rt
        BY <4>1 DEF RemoteSet
      <4>2. CASE rt' = [rt EXCEPT ![e][id].resp = IF rt[e][id].resp = "empty" THEN "ok" ELSE @]
        <5>1. rt' = [rt EXCEPT ![e][id].resp = "ok"]
          BY <2>6, <4>2, Zenon
        <5> QED  BY <1>2, <5>1, RemoteAfter
      <4> QED  BY <3>1, <4>1, <4>2
    <3>3. \A f \in Endpoints, i \in Ids : f # e \/ i # id => CallerSame(f, i)
      BY <2>7, <3>2, OtherCallers
    <3>4. HearOk(e, id)
      <4>1. OkSent(e, id)
        BY <2>1, <2>5, <2>8 DEF OnSubscribeOk, OnFetchOk, Reading, NextIs, Oks
      <4> QED  BY <1>4, <2>5, <2>7, <3>2, <4>1 DEF HearOk, RemoteSet
    <3> QED  BY <1>4, <2>5, <3>3, <3>4, SameFades, OneMoves DEF PairStep
  <2>9. CASE OnSubscribeError(e) \/ OnFetchError(e)
    <3>1. rt' = [rt EXCEPT ![e][id].resp = IF @ = "empty" THEN "error" ELSE @]
      BY <1>1, <2>9, Zenon DEF OnSubscribeError, OnFetchError, OnError
    <3>2. RemoteSet(rt, rt', e, id, rt[e][id].call, "error")
      <4>1. rt' = [rt EXCEPT ![e][id].resp = "error"]
        BY <2>6, <3>1, Zenon
      <4> QED  BY <1>2, <4>1, RemoteAfter
    <3>3. \A f \in Endpoints, i \in Ids : f # e \/ i # id => CallerSame(f, i)
      BY <2>7, <3>2, OtherCallers
    <3>4. HearError(e, id)
      <4>1. ErrorSent(e, id)
        BY <2>1, <2>5, <2>9 DEF OnSubscribeError, OnFetchError, OnError, Reading, NextIs, Errors
      <4> QED  BY <1>4, <2>5, <2>7, <3>2, <4>1 DEF HearError, RemoteSet
    <3> QED  BY <1>4, <2>5, <3>3, <3>4, SameFades, OneMoves DEF PairStep
  <2> QED  BY <1>6, <2>8, <2>9
<1> QED  BY <1>5, <1>6

\* MAX_REQUEST_ID changes no pair.
LEMMA AlikeAnnounce ==
    ASSUME TypeOK, NEW x \in Endpoints, NEW id \in Ids
    PROVE  /\ AnnounceLimit(x, id) \in Seq(Message)
           /\ \A i \in Ids : Alike(ctrl[Peer(x)], AnnounceLimit(x, id), i)
<1> DEFINE m == LimitMsg("MAX_REQUEST_ID", 2 * localMax[x])
           q == ctrl[Peer(x)]
<1>1. m \in Message /\ m.type \notin Requests \cup Answers /\ q \in Seq(Message)
  <2>1. 2 * localMax[x] \in Nat /\ q \in Seq(Message)
    BY PeerType DEF TypeOK
  <2>2. m \in Message
    BY <2>1, MsgType DEF MessageTypes
  <2>3. m.type \notin Requests \cup Answers
    BY DEF LimitMsg, Requests, Answers
  <2> QED  BY <2>1, <2>2, <2>3
<1>2. AnnounceLimit(x, id) = q \/ AnnounceLimit(x, id) = Written(q, m)
  BY DEF AnnounceLimit
<1>3. AnnounceLimit(x, id) \in Seq(Message)
  BY AnnounceLimitType DEF TypeOK
<1> HIDE DEF m, q
<1>4. \A i \in Ids : Alike(q, AnnounceLimit(x, id), i)
  BY <1>1, <1>2, AlikeWritten
<1> QED  BY <1>3, <1>4 DEF q

\* A refused SUBSCRIBE: the request is taken, and an error may be written.
LEMMA RefuseFlight ==
    ASSUME TypeOK, RequestInv, NEW x \in Endpoints, NEW id \in Ids, ctrl[x] # << >>,
           Head(ctrl[x]).type \in Requests, Head(ctrl[x]).id = id,
           NEW q \in Seq(Message), \A i \in Ids : Alike(ctrl[Peer(x)], q, i),
           NEW m \in Message, m.type \in Errors, m.id = id,
           ctrl'[x] = Tail(ctrl[x]), ctrl'[Peer(x)] = Written(q, m)
    PROVE  /\ Asked(Peer(x), id) /\ ~Asked(Peer(x), id)' /\ OkSame(Peer(x), id)
           /\ \A f \in Endpoints, i \in Ids :
                Single(f, i)' /\ (f # Peer(x) \/ i # id => FlightSame(f, i))
<1> DEFINE p == Peer(x)
           o == ctrl[p]
           s == ctrl[x]
           t == Tail(s)
           w == Written(q, m)
<1>0. /\ p \in Endpoints /\ p # x /\ Peer(p) = x /\ Peer(x) = p
      /\ \A f \in Endpoints : f = x \/ f = p
      /\ s \in Seq(Message) /\ s # << >> /\ ctrl'[x] = t /\ ctrl'[p] = w
      /\ ctrl[x] = s /\ ctrl[p] = o
  BY PeerType DEF Endpoints, Client, Server, Peer, TypeOK
<1>1. \A i \in Ids : /\ Once(s, Requests, i) /\ Once(s, Answers, i)
                     /\ Once(o, Requests, i) /\ Once(o, Answers, i)
  <2>1. \A f \in Endpoints, i \in Ids : Single(f, i)
    BY DEF RequestInv, PairInv, Single
  <2> QED  BY <1>0, <2>1 DEF Single
<1>2. Head(s).type \notin Oks /\ Head(s).type \notin Errors /\ Head(s).type \notin Answers
  BY AnswerTypes
<1>3. ASSUME NEW i \in Ids
      PROVE  /\ Once(t, Requests, i) /\ Once(t, Answers, i)
             /\ i # id => (Has(t, Requests, i) <=> Has(s, Requests, i))
             /\ i = id => Has(s, Requests, i) /\ ~Has(t, Requests, i)
             /\ Has(t, Oks, i) <=> Has(s, Oks, i)
             /\ Has(t, Errors, i) <=> Has(s, Errors, i)
  <2>1. Head(s).type \in Requests /\ Head(s).id = id
    OBVIOUS
  <2> HIDE DEF s
  <2> QED  BY <1>0, <1>1, <1>2, <2>1, HasTail
<1>4. ~Has(o, Oks, id) /\ ~Has(o, Errors, id)
  <2>1. Asked(p, id) /\ PairInv(p, id)
    BY <1>0, <1>3 DEF Asked, RequestInv
  <2> QED  BY <2>1 DEF PairInv, OkSent, ErrorSent
<1>5. ASSUME NEW i \in Ids
      PROVE  /\ Once(w, Requests, i) /\ Once(w, Answers, i)
             /\ Has(w, Requests, i) <=> Has(o, Requests, i)
             /\ Has(w, Oks, i) <=> Has(o, Oks, i)
             /\ i # id => (Has(w, Errors, i) <=> Has(o, Errors, i))
  <2>1. Alike(o, q, i)
    OBVIOUS
  <2>2. i = id => ~Has(q, Answers, i)
    BY <1>4, <2>1, AnswerTypes DEF Alike
  <2> HIDE DEF o
  <2>3. CASE w = q
    BY <1>1, <2>1, <2>3 DEF Alike
  <2>4. CASE w = Append(q, m)
    <3>1. m.type \notin Requests /\ m.type \notin Oks
      BY AnswerTypes
    <3>2. Once(q, Requests, i) /\ Once(q, Answers, i)
      BY <1>1, <2>1 DEF Alike
    <3>3. /\ Once(w, Requests, i)
          /\ Has(w, Requests, i) <=> Has(q, Requests, i)
          /\ Has(w, Oks, i) <=> Has(q, Oks, i)
          /\ i # id => (Has(w, Errors, i) <=> Has(q, Errors, i))
      BY <2>4, <3>1, <3>2, HasAppend
    <3>4. Once(w, Answers, i)
      BY <2>2, <2>4, <3>2, HasAppend
    <3> QED  BY <2>1, <3>3, <3>4 DEF Alike
  <2> QED  BY <2>3, <2>4 DEF Written
<1> HIDE DEF o, s, t, w
<1>6. ASSUME NEW i \in Ids
      PROVE  Single(x, i)' /\ FlightSame(x, i)
  BY <1>0, <1>3, <1>5
     DEF Single, FlightSame, AskedSame, OkSame, ErrorSame, Asked, OkSent, ErrorSent
<1>7. ASSUME NEW i \in Ids
      PROVE  Single(p, i)' /\ (i # id => FlightSame(p, i)) /\ OkSame(p, i)
  BY <1>0, <1>3, <1>5
     DEF Single, FlightSame, AskedSame, OkSame, ErrorSame, Asked, OkSent, ErrorSent
<1>8. Asked(p, id) /\ ~Asked(p, id)'
  BY <1>0, <1>3 DEF Asked
<1> QED  BY <1>0, <1>6, <1>7, <1>8

\* A request is filed, refused or lost; the closing messages move no pair.
LEMMA PeerRequestMoves ==
    ASSUME TypeOK, RequestInv, NEW e \in Endpoints,
           \/ OnSubscribe(e) \/ RefuseSubscribe(e)
           \/ OnFetch(e) \/ RefuseFetch(e) \/ OnInvalidRequest(e)
           \/ OnUnsubscribe(e) \/ OnFetchCancel(e) \/ OnSubscribeUpdate(e)
           \/ OnUnknownRequestID(e)
    PROVE  Moved
<1> DEFINE h == Head(ctrl[e])
           p == Peer(e)
<1>0. /\ ctrl[e] # << >> /\ h.id \in Ids /\ p \in Endpoints /\ p # e /\ Peer(p) = e
      /\ lt \in LocalTracks /\ ctrl \in [Endpoints -> Seq(Message)]
      /\ lpending \in [Endpoints -> SUBSET Ids] /\ lopen \in [Endpoints -> SUBSET Ids]
  BY HeadType, PeerType
     DEF OnSubscribe, OnFetch, OnRequest, RefuseSubscribe, RefuseFetch, OnInvalidRequest,
         OnUnsubscribe, OnFetchCancel, OnSubscribeUpdate, OnUnknownRequestID, Reading, NextIs,
         TypeOK, LocalTracks
<1>1. PICK id \in Ids : h.id = id
  BY <1>0
<1>2. UNCHANGED <<nextId, setup, maxId, rt, rpending, ropen>>
  BY DEF OnSubscribe, OnFetch, OnRequest, RefuseSubscribe, RefuseFetch, OnInvalidRequest,
         OnUnsubscribe, OnFetchCancel, OnSubscribeUpdate, OnUnknownRequestID, trackVars
<1>3. Steady /\ \A f \in Endpoints, i \in Ids : CallerSame(f, i)
  BY <1>2, Unchanged
<1>4. ASSUME Consume(e)
      PROVE  ctrl'[e] = Tail(ctrl[e]) /\ \A i \in Ids : Alike(ctrl[p], ctrl'[p], i)
  BY <1>0, <1>4 DEF Consume, Alike
<1>5. ASSUME h.type \in Requests
      PROVE  /\ Asked(p, id) /\ lt[e][id].kind = "none"
             /\ id \notin lpending[e] /\ id \notin Local(e)
  <2>1. Asked(p, id)
    BY <1>0, <1>1, <1>5, HasTail DEF Asked
  <2>2. PairInv(p, id)
    BY <1>0 DEF RequestInv
  <2> QED  BY <1>0, <2>1, <2>2 DEF PairInv, Local
<1>6. AnnounceLimit(e, id) \in Seq(Message) /\ \A i \in Ids : Alike(ctrl[p], AnnounceLimit(e, id), i)
  BY AlikeAnnounce
<1>7. CASE OnSubscribe(e) \/ OnFetch(e)
  <2>1. PICK kind \in {"subscribe", "fetch"} : OnRequest(e, kind)
    BY <1>7 DEF OnSubscribe, OnFetch
  <2> DEFINE r == [NoLocalTrack EXCEPT !.kind = kind, !.alias = nextAlias[e]]
  <2>2. /\ h.type \in Requests /\ h.type \notin Answers
        /\ ConsumeAndLeave(e, AnnounceLimit(e, id))
        /\ lpending' = [lpending EXCEPT ![e] = @ \cup {id}] /\ UNCHANGED lopen
    BY <1>1, <2>1 DEF OnRequest, Reading, NextIs, RequestType, Requests, Answers
  <2>3. lt' = [lt EXCEPT ![e][id] = r]
    BY <1>1, <2>1, Zenon DEF OnRequest
  <2>4. r.kind = kind /\ r.answer = "none" /\ kind # "none"
    BY DEF NoLocalTrack
  <2> HIDE DEF r
  <2>5. LocalSet(lt, lt', e, id, kind, "none")
    BY <1>0, <2>3, <2>4, TrackReplaced
  <2>6. \A f \in Endpoints, i \in Ids : f # e \/ i # id =>
          (i \in lpending'[f] => i \in lpending[f]) /\ (i \in Local(f)' => i \in Local(f))
    BY <1>0, <2>2 DEF Local
  <2>7. \A f \in Endpoints, i \in Ids : f # p \/ i # id => PublisherSame(f, i)
    BY <2>5, <2>6, OtherPublishers
  <2>8. ctrl'[e] = Tail(ctrl[e]) /\ \A i \in Ids : Alike(ctrl[p], ctrl'[p], i)
    BY <1>0, <1>6, <2>2 DEF ConsumeAndLeave
  <2>9. /\ \A f \in Endpoints, i \in Ids :
             /\ Single(f, i)' /\ OkSame(f, i) /\ ErrorSame(f, i)
             /\ f # p \/ i # id => AskedSame(f, i)
        /\ Asked(p, id) /\ ~Asked(p, id)'
    BY <1>0, <1>1, <2>2, <2>8, ReadFlight
  <2>10. Admit(p, id)
    BY <1>0, <1>3, <2>4, <2>5, <2>9 DEF Admit, LocalSet
  <2> QED  BY <1>0, <1>3, <2>7, <2>9, <2>10, SameFades, OneMoves DEF PairStep, FlightSame
<1>8. CASE RefuseSubscribe(e)
  <2> DEFINE m == Msg("SUBSCRIBE_ERROR", id)
             q == AnnounceLimit(e, id)
  <2>1. /\ h.type \in Requests /\ ConsumeAndLeave(e, Written(q, m))
        /\ UNCHANGED <<lt, lpending, lopen>>
    BY <1>1, <1>8 DEF RefuseSubscribe, Reading, NextIs, Requests
  <2>2. m \in Message /\ m.type \in Errors /\ m.id = id
    BY MsgType DEF MessageTypes, Msg, Errors
  <2> HIDE DEF m
  <2>3. ctrl'[e] = Tail(ctrl[e]) /\ ctrl'[p] = Written(q, m)
    BY <1>0, <2>1 DEF ConsumeAndLeave
  <2>4. \A f \in Endpoints, i \in Ids : PublisherSame(f, i)
    BY <2>1, Unchanged
  <2>5. /\ Asked(p, id) /\ ~Asked(p, id)' /\ OkSame(p, id)
        /\ \A f \in Endpoints, i \in Ids : Single(f, i)' /\ (f # p \/ i # id => FlightSame(f, i))
    <3> HIDE DEF q
    <3>1. q \in Seq(Message) /\ \A i \in Ids : Alike(ctrl[p], q, i)
      BY <1>6 DEF q
    <3> QED  BY <1>0, <1>1, <2>1, <2>2, <2>3, <3>1, RefuseFlight
  <2>6. Refuse(p, id)
    BY <1>0, <1>3, <2>4, <2>5 DEF Refuse
  <2> QED  BY <1>0, <1>3, <2>4, <2>5, <2>6, SameFades, OneMoves DEF PairStep
<1>9. CASE RefuseFetch(e)
  <2>1. h.type \in Requests /\ h.type \notin Answers
    BY <1>9 DEF RefuseFetch, Reading, NextIs, Requests, Answers
  <2>2. ConsumeAndLeave(e, AnnounceLimit(e, id))
    BY <1>1, <1>5, <1>9, <2>1 DEF RefuseFetch
  <2>3. ctrl'[e] = Tail(ctrl[e]) /\ \A i \in Ids : Alike(ctrl[p], ctrl'[p], i)
    BY <1>0, <1>6, <2>2 DEF ConsumeAndLeave
  <2>4. lpending' = [lpending EXCEPT ![e] = @ \ {id}] /\ UNCHANGED <<lt, lopen>>
    BY <1>1, <1>9 DEF RefuseFetch
  <2>5. \A f \in Endpoints : Peer(f) \in Endpoints
    BY PeerType
  <2>6. \A f \in Endpoints, i \in Ids : PublisherSame(f, i)
    BY <1>0, <2>4, <2>5 DEF PublisherSame, Local
  <2> QED  BY <1>0, <1>3, <2>1, <2>3, <2>6, MessageLost
<1>10. CASE OnInvalidRequest(e)
  <2>1. h.type \notin Answers /\ Consume(e) /\ UNCHANGED <<lt, lpending, lopen>>
    BY <1>10 DEF OnInvalidRequest, Reading, NextIs, Answers, trackVars
  <2> QED  BY <1>0, <1>3, <1>4, <2>1, Unchanged, MessageLost
<1>11. CASE OnUnsubscribe(e) \/ OnFetchCancel(e)
  <2>1. h.type \notin Requests \cup Answers /\ Consume(e)
    BY <1>11 DEF OnUnsubscribe, OnFetchCancel, Reading, NextIs, Requests, Answers
  <2>2. LocalSet(lt, lt', e, id, lt[e][id].kind, lt[e][id].answer)
    <3>1. PICK v : lt' = [lt EXCEPT ![e][id].ctx = v]
      BY <1>1, <1>11, Zenon DEF OnUnsubscribe, OnFetchCancel
    <3> QED  BY <1>0, <3>1, LocalAfter, Zenon
  <2>3. \A f \in Endpoints, i \in Ids :
          (i \in lpending'[f] => i \in lpending[f]) /\ (i \in Local(f)' => i \in Local(f))
    BY <1>0, <1>11, ZenonT(40) DEF OnUnsubscribe, OnFetchCancel, Local
  <2>4. \A f \in Endpoints, i \in Ids : PublisherSame(f, i)
    <3>1. \A f \in Endpoints : Peer(f) \in Endpoints
      BY PeerType
    <3> QED  BY <2>2, <2>3, <3>1 DEF PublisherSame, LocalSet
  <2>5. \A f \in Endpoints, i \in Ids : FlightSame(f, i) /\ Single(f, i)'
    BY <1>0, <2>1, HarmlessRead
  <2> QED  BY <1>3, <2>4, <2>5, SameFades, AllFade
<1>12. CASE OnSubscribeUpdate(e)
  <2>1. /\ h.type \notin Requests \cup Answers /\ Consume(e)
        /\ UNCHANGED <<lt, lpending, lopen>>
    BY <1>12 DEF OnSubscribeUpdate, Reading, NextIs, Requests, Answers, trackVars
  <2>2. \A f \in Endpoints, i \in Ids : FlightSame(f, i) /\ Single(f, i)'
    BY <1>0, <2>1, HarmlessRead
  <2> QED  BY <1>3, <2>1, <2>2, Unchanged, SameFades, AllFade
<1>13. CASE OnUnknownRequestID(e)
  <2>1. Consume(e) /\ UNCHANGED <<lt, lpending, lopen>> /\ Unfiled(e, h)
    BY <1>13 DEF OnUnknownRequestID, trackVars
  <2>2. h.type \in Answers => h.id \notin rpending[e]
    BY <2>1 DEF Unfiled, Answers
  <2> QED  BY <1>0, <1>3, <1>4, <2>1, <2>2, Unchanged, MessageLost
<1> QED  BY <1>7, <1>8, <1>9, <1>10, <1>11, <1>12, <1>13

\* The response writer, the end of the handler and CloseWithError.
LEMMA ResponseWriterMoves ==
    ASSUME TypeOK, RequestInv, NEW x \in Endpoints, NEW id \in Ids,
           \/ Accept(x, id) \/ WriteAccept(x, id) \/ Reject(x, id)
           \/ handling[x] = id /\ HandlerReturn(x)
           \/ CloseWithError(x, id)
    PROVE  Moved
<1> DEFINE e == Peer(x)
<1>0. /\ e \in Endpoints /\ Peer(e) = x /\ PairInv(e, id)
      /\ lt \in LocalTracks
      /\ lpending \in [Endpoints -> SUBSET Ids] /\ lopen \in [Endpoints -> SUBSET Ids]
      /\ \A f \in Endpoints : Peer(f) \in Endpoints
  BY PeerType DEF TypeOK, LocalTracks, RequestInv
<1>1. UNCHANGED <<nextId, setup, maxId, rt, rpending, ropen>>
  BY DEF Accept, WriteAccept, Reject, HandlerReturn, CloseWithError, controlVars
<1>2. Steady /\ \A f \in Endpoints, i \in Ids : CallerSame(f, i)
  BY <1>1, Unchanged
<1>3. \A f \in Endpoints, i \in Ids : f # x \/ i # id =>
        (i \in lpending'[f] => i \in lpending[f]) /\ (i \in Local(f)' => i \in Local(f))
  <2>1. CASE Accept(x, id)
    BY <1>0, <2>1 DEF Accept, Local
  <2>2. CASE WriteAccept(x, id)
    BY <1>0, <2>2 DEF WriteAccept, Local
  <2>3. CASE Reject(x, id)
    BY <1>0, <2>3 DEF Reject, PendingAfterReject, Local
  <2>4. CASE handling[x] = id /\ HandlerReturn(x)
    BY <1>0, <2>4 DEF HandlerReturn, PendingAfterReject, Local
  <2>5. CASE CloseWithError(x, id)
    BY <1>0, <2>5 DEF CloseWithError, Local
  <2> QED  BY <2>1, <2>2, <2>3, <2>4, <2>5
<1>4. CASE WriteAccept(x, id)
  <2> DEFINE m == [type |-> OkType(lt[x][id].kind), id |-> id, val |-> OkAlias(x, id)]
  <2>1. /\ m \in Message /\ m.type \in Oks /\ m.id = id
        /\ m.type \notin Errors /\ m.type \notin Requests
    BY DEF OkType, OkAlias, Message, MessageTypes, Oks, Errors, Requests
  <2>2. /\ Write(x, m) /\ lt[x][id].answer = "confirmed"
        /\ lt' = [lt EXCEPT ![x][id].answer = "ok"] /\ UNCHANGED <<lpending, lopen>>
    BY <1>4, Zenon DEF WriteAccept
  <2>3. LocalSet(lt, lt', x, id, lt[x][id].kind, "ok")
    BY <1>0, <2>2, LocalAfter, Zenon
  <2>4. ~OkSent(e, id) /\ ~ErrorSent(e, id)
    BY <1>0, <2>2 DEF PairInv
  <2> HIDE DEF m
  <2>5. \A f \in Endpoints, i \in Ids :
          /\ Single(f, i)' /\ AskedSame(f, i) /\ ErrorSame(f, i)
          /\ f # e \/ i # id => OkSame(f, i)
    BY <2>1, <2>2, <2>4, WriteFlight
  <2>6. \A f \in Endpoints, i \in Ids : f # e \/ i # id => PublisherSame(f, i)
    BY <1>3, <2>3, OtherPublishers
  <2>7. Answer(e, id)
    BY <1>0, <1>2, <2>2, <2>3, <2>5 DEF Answer, LocalSet, Local
  <2> QED  BY <1>0, <1>2, <2>5, <2>6, <2>7, SameFades, OneMoves DEF PairStep, FlightSame
<1>5. CASE Accept(x, id) /\ id \in lpending[x]
  <2>1. /\ lt' = [lt EXCEPT ![x][id] = Handled(@, "confirmed")]
        /\ UNCHANGED ctrl
    BY <1>5, Zenon DEF Accept, controlVars
  <2>2. id \notin lpending'[x]
    BY <1>0, <1>5 DEF Accept
  <2>3. LocalSet(lt, lt', x, id, lt[x][id].kind, "confirmed")
    BY <1>0, <2>1, LocalAfter, Zenon
  <2>4. \A f \in Endpoints, i \in Ids : FlightSame(f, i) /\ Single(f, i)'
    BY <2>1, Unchanged
  <2>5. \A f \in Endpoints, i \in Ids : f # e \/ i # id => PublisherSame(f, i)
    BY <1>3, <2>3, OtherPublishers
  <2>6. Open(e, id)
    BY <1>0, <1>2, <1>5, <2>2, <2>3, <2>4 DEF Open, LocalSet
  <2> QED  BY <1>0, <1>2, <2>4, <2>5, <2>6, SameFades, OneMoves DEF PairStep
<1>6. ASSUME id \in lpending[x],
             Reject(x, id) \/ (handling[x] = id /\ HandlerReturn(x) /\ Unhandled(x, id))
      PROVE  Moved
  <2> DEFINE m == Msg(ErrorType(lt[x][id].kind), id)
  <2>1. m \in Message /\ m.type \in Errors /\ m.id = id /\ m.type \notin Oks /\ m.type \notin Requests
    BY DEF Msg, ErrorType, Message, MessageTypes, Errors, Oks, Requests
  <2>2. /\ Write(x, m)
        /\ lt' = [lt EXCEPT ![x][id] = Handled(@, "error")]
    BY <1>6, Zenon DEF Reject, HandlerReturn, PendingAfterReject
  <2>3. id \notin lpending'[x] /\ UNCHANGED lopen
    BY <1>0, <1>6 DEF Reject, HandlerReturn, PendingAfterReject
  <2>4. LocalSet(lt, lt', x, id, lt[x][id].kind, "error")
    BY <1>0, <2>2, LocalAfter, Zenon
  <2>5. ~OkSent(e, id) /\ ~ErrorSent(e, id)
    BY <1>0, <1>6 DEF PairInv
  <2> HIDE DEF m
  <2>6. \A f \in Endpoints, i \in Ids :
          /\ Single(f, i)' /\ AskedSame(f, i) /\ OkSame(f, i)
          /\ f # e \/ i # id => ErrorSame(f, i)
    BY <2>1, <2>2, <2>5, WriteFlight
  <2>7. \A f \in Endpoints, i \in Ids : f # e \/ i # id => PublisherSame(f, i)
    BY <1>3, <2>4, OtherPublishers
  <2>8. Deny(e, id)
    BY <1>0, <1>2, <1>6, <2>3, <2>4, <2>6 DEF Deny, LocalSet, Local
  <2> QED  BY <1>0, <1>2, <2>6, <2>7, <2>8, SameFades, OneMoves DEF PairStep, FlightSame
<1>7. ASSUME id \notin lpending[x],
             Accept(x, id) \/ Reject(x, id) \/ (handling[x] = id /\ HandlerReturn(x))
      PROVE  Moved
  <2>1. /\ UNCHANGED ctrl
        /\ lt' = lt \/ lt' = [lt EXCEPT ![x][id] = Handled(@, lt[x][id].answer)]
    BY <1>7, Zenon DEF Accept, Reject, HandlerReturn, controlVars
  <2>2. LocalSet(lt, lt', x, id, lt[x][id].kind, lt[x][id].answer)
    <3>1. CASE lt' = lt
      BY <3>1 DEF LocalSet
    <3>2. CASE lt' = [lt EXCEPT ![x][id] = Handled(@, lt[x][id].answer)]
      BY <1>0, <3>2, LocalAfter, Zenon
    <3> QED  BY <2>1, <3>1, <3>2
  <2>3. \A f \in Endpoints, i \in Ids :
          (i \in lpending'[f] => i \in lpending[f]) /\ (i \in Local(f)' => i \in Local(f))
    <3>1. (id \in lpending'[x] => id \in lpending[x]) /\ (id \in Local(x)' => id \in Local(x))
      <4>1. CASE Accept(x, id)
        BY <1>0, <1>7, <4>1 DEF Accept, Local
      <4>2. CASE Reject(x, id)
        BY <1>0, <4>2 DEF Reject, PendingAfterReject, Local
      <4>3. CASE handling[x] = id /\ HandlerReturn(x)
        BY <1>0, <4>3 DEF HandlerReturn, PendingAfterReject, Local
      <4> QED  BY <1>7, <4>1, <4>2, <4>3
    <3> QED  BY <1>3, <3>1
  <2>4. \A f \in Endpoints, i \in Ids : PublisherSame(f, i)
    BY <1>0, <2>2, <2>3 DEF PublisherSame, LocalSet
  <2> QED  BY <1>2, <2>1, <2>4, Unchanged, SameFades, AllFade
<1>8. CASE handling[x] = id /\ HandlerReturn(x) /\ ~Unhandled(x, id)
  <2>1. UNCHANGED <<lt, lpending, lopen, ctrl>>
    BY <1>0, <1>8 DEF HandlerReturn
  <2> QED  BY <1>2, <2>1, Unchanged, SameFades, AllFade
<1>9. CASE CloseWithError(x, id)
  <2>1. Write(x, Msg("SUBSCRIBE_DONE", id))
    BY <1>9, Zenon DEF CloseWithError
  <2>2. LocalSet(lt, lt', x, id, lt[x][id].kind, lt[x][id].answer)
    <3>1. PICK v : lt' = [lt EXCEPT ![x][id].ctx = v]
      BY <1>9, Zenon DEF CloseWithError
    <3> QED  BY <1>0, <3>1, LocalAfter, Zenon
  <2>3. (id \in lpending'[x] => id \in lpending[x]) /\ (id \in Local(x)' => id \in Local(x))
    BY <1>0, <1>9 DEF CloseWithError, Local
  <2>4. \A f \in Endpoints, i \in Ids : PublisherSame(f, i)
    BY <1>0, <1>3, <2>2, <2>3 DEF PublisherSame, LocalSet
  <2>5. \A f \in Endpoints, i \in Ids : FlightSame(f, i) /\ Single(f, i)'
    BY <2>1, HarmlessMsg, HarmlessWrite
  <2> QED  BY <1>2, <2>4, <2>5, SameFades, AllFade
<1> QED  BY <1>4, <1>5, <1>6, <1>7, <1>8, <1>9

-----------------------------------------------------------------------------
(***************************************************************************)
(* The theorems.                                                           *)
(***************************************************************************)

\* Every step of the system moves one pair or none.
LEMMA NextMoves ==
    ASSUME TypeOK, RequestInv, [Next]_vars
    PROVE  Moved
<1>1. CASE UNCHANGED vars
  BY <1>1, Unchanged, SameFades, AllFade DEF vars, controlVars, trackVars
<1>2. ASSUME NEW e \in Endpoints, Reader(e) PROVE Moved
  BY <1>2, ControlMoves, AnswerMoves, PeerRequestMoves DEF Reader
<1>3. ASSUME NEW e \in Endpoints, HandlerReturn(e) PROVE Moved
  <2>1. handling[e] \in Ids
    BY <1>3 DEF HandlerReturn, TypeOK
  <2> QED  BY <1>3, <2>1, ResponseWriterMoves
<1>4. ASSUME NEW e \in Endpoints, Application(e) PROVE Moved
  BY <1>4, SessionCallMoves, CallMoves, ResponseWriterMoves DEF Application
<1>5. ASSUME NEW e \in Endpoints, NEW id \in Ids, CallStep(e, id) \/ WriteAccept(e, id)
      PROVE  Moved
  BY <1>5, CallMoves, ResponseWriterMoves
<1> QED  BY <1>1, <1>2, <1>3, <1>4, <1>5 DEF Next

\* Nothing is asked, answered or filed at the start.
LEMMA InitRequestInv ==
    ASSUME Init
    PROVE  RequestInv
<1>1. ASSUME NEW e \in Endpoints, NEW id \in Ids
      PROVE  /\ rt[e][id].call = "none" /\ rt[e][id].resp = "empty"
             /\ lt[e][id].kind = "none" /\ lt[e][id].answer = "none"
             /\ id \notin Remote(e) /\ id \notin Local(e) /\ id \notin lpending[e]
             /\ \A types \in {Requests, Oks, Errors, Answers} :
                  ~Has(ctrl[e], types, id) /\ Once(ctrl[e], types, id)
  <2>1. /\ rt[e][id] = NoRemoteTrack /\ lt[e][id] = NoLocalTrack
        /\ rpending[e] = {} /\ ropen[e] = {} /\ lpending[e] = {} /\ lopen[e] = {}
    BY DEF Init
  <2>2. /\ ctrl[e] = << >> \/ ctrl[e] = <<LimitMsg("CLIENT_SETUP", InitialMaxRequestID[Client])>>
    BY DEF Init, ControlInit
  <2>3. \A i \in 1 .. Len(ctrl[e]) : ctrl[e][i].type = "CLIENT_SETUP"
    BY <2>2 DEF LimitMsg
  <2>4. \A types \in {Requests, Oks, Errors, Answers} : "CLIENT_SETUP" \notin types
    BY DEF Requests, Oks, Errors, Answers
  <2>5. \A types \in {Requests, Oks, Errors, Answers} :
          ~Has(ctrl[e], types, id) /\ Once(ctrl[e], types, id)
    BY <2>3, <2>4 DEF Has, Once
  <2> QED  BY <2>1, <2>5 DEF NoRemoteTrack, NoLocalTrack, Remote, Local
<1>2. ASSUME NEW e \in Endpoints, NEW id \in Ids
      PROVE  PairInv(e, id)
  <2>1. Peer(e) \in Endpoints
    BY PeerType
  <2> QED  BY <1>1, <2>1 DEF PairInv, Underway, Asked, OkSent, ErrorSent
<1>3. \A e \in Endpoints : maxId[e] = 0
  BY DEF Init, ControlInit
<1> QED  BY <1>1, <1>2, <1>3 DEF RequestInv

\* Where a request is decides what both ends know of it, in every reachable state.
LEMMA RequestInvariant == Spec => [](TypeOK /\ RequestInv)
<1>1. Init => RequestInv
  BY InitRequestInv
<1>2. TypeOK /\ RequestInv /\ [Next]_vars => RequestInv'
  BY NextMoves, MovedInv
<1> QED  BY <1>1, <1>2, TypeCorrect, PTL DEF Spec

\* A request gets at most one answer, which belongs to a call that has written its
\* request and finds responseChan empty, whichever of Accept, Reject, the unhandled
\* rejection and the refusal by addLocalTrack comes first.
THEOREM AnsweredOnce == Spec => []AtMostOneAnswer
<1>1. TypeOK /\ RequestInv => AtMostOneAnswer
  <2> SUFFICES ASSUME TypeOK, RequestInv, NEW e \in Endpoints
               PROVE  /\ \A i \in At(e, Answers) :
                           /\ rt[e][ctrl[e][i].id].resp = "empty"
                           /\ rt[e][ctrl[e][i].id].call \in Live
                           /\ \A j \in At(e, Answers) : ctrl[e][j].id = ctrl[e][i].id => i = j
                      /\ \A id \in rpending[e] : rt[e][id].resp = "empty"
    BY DEF AtMostOneAnswer, Live
  <2>1. ASSUME NEW i \in At(e, Answers)
        PROVE  /\ rt[e][ctrl[e][i].id].resp = "empty"
               /\ rt[e][ctrl[e][i].id].call \in Live
               /\ \A j \in At(e, Answers) : ctrl[e][j].id = ctrl[e][i].id => i = j
    <3> DEFINE id == ctrl[e][i].id
    <3>1. i \in 1 .. Len(ctrl[e]) /\ ctrl[e][i].type \in Answers
      BY DEF At
    <3>2. id \in Ids
      <4>1. ctrl[e] \in Seq(Message)
        BY DEF TypeOK
      <4>2. ctrl[e][i] \in Message
        BY <3>1, <4>1, ElementOfSeq
      <4> QED  BY <4>2 DEF Message
    <3>3. PairInv(e, id)
      BY <3>2 DEF RequestInv
    <3>4. OkSent(e, id) \/ ErrorSent(e, id)
      <4>1. Has(ctrl[e], Answers, id)
        BY <3>1 DEF Has
      <4> QED  BY <4>1, AnswerTypes DEF OkSent, ErrorSent
    <3>5. Once(ctrl[e], Answers, id)
      BY <3>3 DEF PairInv
    <3>6. \A j \in At(e, Answers) : ctrl[e][j].id = id => i = j
      BY <3>1, <3>5 DEF Once, At
    <3>7. Unanswered(e, id)
      BY <3>3, <3>4 DEF PairInv, Underway
    <3> QED  BY <3>6, <3>7 DEF Unanswered
  <2>2. ASSUME NEW id \in rpending[e]
        PROVE  rt[e][id].resp = "empty"
    <3>1. id \in Ids
      BY DEF TypeOK
    <3> QED  BY <3>1 DEF RequestInv, PairInv
  <2> QED  BY <2>1, <2>2
<1> QED  BY <1>1, RequestInvariant, PTL

\* A Request ID is used once: no step files a track under an ID that had one.
THEOREM FiledOnce == Spec => NeverReused
<1>1. ASSUME TypeOK, RequestInv, [Next]_vars, NEW e \in Endpoints, NEW id \in Ids,
             id \in Local(e)', id \notin Local(e)
      PROVE  lt[e][id].kind = "none"
  <2> DEFINE c == Peer(e)
  <2>1. c \in Endpoints /\ Peer(c) = e
    BY PeerType
  <2>2. PairInv(c, id) /\ PairStep(c, id)
    <3>1. Moved
      BY <1>1, NextMoves
    <3>2. Fade(c, id) => PairStep(c, id)
      BY DEF PairStep
    <3> QED  BY <1>1, <2>1, <3>1, <3>2 DEF Moved, OnePairMoves, RequestInv
  <2>3. CASE Admit(c, id)
    BY <2>1, <2>2, <2>3 DEF Admit, PairInv
  <2>4. CASE Open(c, id)
    BY <1>1, <2>1, <2>4 DEF Open, Local
  <2>5. CASE ~Admit(c, id) /\ ~Open(c, id)
    BY <1>1, <2>1, <2>2, <2>5
       DEF PairStep, Fade, Begin, Send, NotSent, Learn, GiveUp, HearOk, HearError, Refuse,
           Answer, Deny, PublisherSame
  <2> QED  BY <2>3, <2>4, <2>5
<1>2. TypeOK /\ RequestInv /\ [Next]_vars =>
        [\A e \in Endpoints, id \in Ids :
           id \in Local(e)' /\ id \notin Local(e) => lt[e][id].kind = "none"]_vars
  BY <1>1
<1> QED  BY <1>2, RequestInvariant, PTL DEF Spec, NeverReused

-----------------------------------------------------------------------------
(***************************************************************************)
(* Tracks implements RequestLife.                                          *)
(***************************************************************************)

\* RequestStatus, of a pair.
StatusOf(e, id) ==
    LET call == rt[e][id].call
        answer == lt[Peer(e)][id].answer IN
    IF call = "none" THEN "new"
    ELSE IF call \in {"ok", "refused"} THEN call
    ELSE IF call \in {"cancelled", "unsent"} THEN "givenUp"
    ELSE IF answer \in {"confirmed", "ok"} THEN "accepted"
    ELSE IF answer = "error" \/ ErrorSent(e, id) \/ rt[e][id].resp = "error" THEN "rejected"
    ELSE "asked"

\* The ends of a request are endpoints.
LEMMA OwnerType ==
    ASSUME NEW id \in Ids
    PROVE  Owner(id) \in Endpoints
BY DEF Owner, Ids, Endpoints, Client, Server

\* The refinement mapping in terms of StatusOf, before and after a step.
LEMMA StatusMap ==
    /\ RequestStatus = [id \in Ids |-> StatusOf(Owner(id), id)]
    /\ RequestStatus' = [id \in Ids |-> StatusOf(Owner(id), id)']
<1>1. ASSUME NEW id \in Ids
      PROVE  /\ (\E i \in At(Owner(id), {"SUBSCRIBE_ERROR", "FETCH_ERROR"}) :
                   ctrl[Owner(id)][i].id = id) <=> ErrorSent(Owner(id), id)
             /\ (\E i \in At(Owner(id), {"SUBSCRIBE_ERROR", "FETCH_ERROR"})' :
                   ctrl'[Owner(id)][i].id = id) <=> ErrorSent(Owner(id), id)'
  BY DEF At, ErrorSent, Has, Errors
<1>2. ASSUME NEW id \in Ids
      PROVE  RequestStatus[id] = StatusOf(Owner(id), id)
  BY <1>1 DEF RequestStatus, Decision, StatusOf
<1>3. ASSUME NEW id \in Ids
      PROVE  RequestStatus'[id] = StatusOf(Owner(id), id)'
  BY <1>1 DEF RequestStatus, Decision, StatusOf
<1>4. /\ RequestStatus = [id \in Ids |-> RequestStatus[id]]
      /\ RequestStatus' = [id \in Ids |-> RequestStatus'[id]]
  BY DEF RequestStatus
<1> QED  BY <1>2, <1>3, <1>4

\* How the status of a request moves.
StatusStep(from, to) ==
    \/ to = from
    \/ from = "new" /\ to = "asked"
    \/ from = "asked" /\ to \in {"accepted", "rejected"}
    \/ from = "accepted" /\ to = "ok"
    \/ from = "rejected" /\ to = "refused"
    \/ from \in {"asked", "accepted", "rejected"} /\ to = "givenUp"

\* A pair that fades keeps its status; a pair that moves takes a step of RequestLife.
LEMMA PairStatus ==
    ASSUME TypeOK, RequestInv, NEW e \in Endpoints, NEW id \in Ids
    PROVE  /\ Fade(e, id) => StatusOf(e, id)' = StatusOf(e, id)
           /\ PairStep(e, id) => StatusStep(StatusOf(e, id), StatusOf(e, id)')
<1>0. /\ PairInv(e, id)
      /\ nextId[e] = id => rt[e][id].call = "none"
  BY DEF RequestInv, TypeOK
<1>t. /\ rt[e][id].call \in {"none", "begun", "waiting", "aborting", "ok", "refused",
                             "cancelled", "unsent"}
      /\ rt[e][id].resp \in {"empty", "ok", "error"}
      /\ lt[Peer(e)][id].answer \in {"none", "confirmed", "ok", "error"}
  <2>1. rt[e][id] \in RemoteTrack /\ lt[Peer(e)][id] \in LocalTrack
    BY PeerType DEF TypeOK
  <2> QED  BY <2>1 DEF RemoteTrack, LocalTrack
<1> USE DEF PairInv, Underway, Unanswered, Live, StatusOf, StatusStep
<1>1. Fade(e, id) => StatusOf(e, id)' = StatusOf(e, id)
  BY <1>0 DEF Fade, CallerSame, PublisherSame
<1>2. ASSUME Begin(e, id) PROVE StatusStep(StatusOf(e, id), StatusOf(e, id)')
  BY <1>0, <1>2, <1>t DEF Begin, PublisherSame, FlightSame, ErrorSame
<1>3. ASSUME Send(e, id) PROVE StatusStep(StatusOf(e, id), StatusOf(e, id)')
  BY <1>0, <1>3, <1>t DEF Send, PublisherSame, ErrorSame
<1>4. ASSUME NotSent(e, id) PROVE StatusStep(StatusOf(e, id), StatusOf(e, id)')
  BY <1>0, <1>4, <1>t DEF NotSent
<1>5. ASSUME Learn(e, id) PROVE StatusStep(StatusOf(e, id), StatusOf(e, id)')
  BY <1>0, <1>5, <1>t DEF Learn
<1>6. ASSUME GiveUp(e, id) PROVE StatusStep(StatusOf(e, id), StatusOf(e, id)')
  BY <1>0, <1>6, <1>t DEF GiveUp, PublisherSame, FlightSame, ErrorSame
<1>7. ASSUME HearOk(e, id) PROVE StatusStep(StatusOf(e, id), StatusOf(e, id)')
  BY <1>0, <1>7, <1>t DEF HearOk, PublisherSame
<1>8. ASSUME HearError(e, id) PROVE StatusStep(StatusOf(e, id), StatusOf(e, id)')
  BY <1>0, <1>8, <1>t DEF HearError, PublisherSame
<1>9. ASSUME Admit(e, id) PROVE StatusStep(StatusOf(e, id), StatusOf(e, id)')
  BY <1>0, <1>9, <1>t DEF Admit, CallerSame, ErrorSame
<1>10. ASSUME Refuse(e, id) PROVE StatusStep(StatusOf(e, id), StatusOf(e, id)')
  BY <1>0, <1>10, <1>t DEF Refuse, CallerSame, PublisherSame
<1>11. ASSUME Open(e, id) PROVE StatusStep(StatusOf(e, id), StatusOf(e, id)')
  BY <1>0, <1>11, <1>t DEF Open, CallerSame, FlightSame, ErrorSame
<1>12. ASSUME Answer(e, id) PROVE StatusStep(StatusOf(e, id), StatusOf(e, id)')
  BY <1>0, <1>12, <1>t DEF Answer, CallerSame, ErrorSame
<1>13. ASSUME Deny(e, id) PROVE StatusStep(StatusOf(e, id), StatusOf(e, id)')
  BY <1>0, <1>13, <1>t DEF Deny, CallerSame
<1>14. Fade(e, id) => StatusStep(StatusOf(e, id), StatusOf(e, id)')
  BY <1>1
<1> QED  BY <1>1, <1>2, <1>3, <1>4, <1>5, <1>6, <1>7, <1>8, <1>9, <1>10, <1>11,
            <1>12, <1>13, <1>14 DEF PairStep

\* The session implements RequestLife under the mapping RequestStatus: a request is
\* decided once, and its call returns that decision, or gives up.
THEOREM Implements == Spec => KeepsPromise
<1>1. Init => Promise!Init
  <2> SUFFICES ASSUME Init PROVE Promise!Init
    OBVIOUS
  <2>1. ASSUME NEW id \in Ids PROVE StatusOf(Owner(id), id) = "new"
    BY OwnerType DEF Init, StatusOf, NoRemoteTrack
  <2> QED  BY <2>1, StatusMap DEF Promise!Init
<1>2. TypeOK /\ RequestInv /\ [Next]_vars => [Promise!Next]_(Promise!vars)
  <2> SUFFICES ASSUME TypeOK, RequestInv, [Next]_vars
               PROVE  Promise!Next \/ RequestStatus' = RequestStatus
    BY DEF Promise!vars
  <2> DEFINE S == [id \in Ids |-> StatusOf(Owner(id), id)]
             T == [id \in Ids |-> StatusOf(Owner(id), id)']
  <2>1. RequestStatus = S /\ RequestStatus' = T
    BY StatusMap
  <2>2. CASE \A id \in Ids : StatusOf(Owner(id), id)' = StatusOf(Owner(id), id)
    BY <2>1, <2>2
  <2>3. ASSUME NEW id \in Ids, PairStep(Owner(id), id),
               \A i \in Ids : i # id => StatusOf(Owner(i), i)' = StatusOf(Owner(i), i)
        PROVE  Promise!Next \/ RequestStatus' = RequestStatus
    <3>1. StatusStep(S[id], T[id])
      BY <2>3, OwnerType, PairStatus
    <3>2. T = [S EXCEPT ![id] = T[id]]
      BY <2>3
    <3> HIDE DEF S, T
    <3> USE DEF Promise!Next, Promise!Move
    <3>3. CASE S[id] = "new" /\ T[id] = "asked"
      BY <2>1, <3>2, <3>3 DEF Promise!Ask
    <3>4. CASE S[id] = "asked" /\ T[id] \in {"accepted", "rejected"}
      BY <2>1, <3>2, <3>4 DEF Promise!Decide
    <3>5. CASE \/ S[id] = "accepted" /\ T[id] = "ok"
               \/ S[id] = "rejected" /\ T[id] = "refused"
      BY <2>1, <3>2, <3>5 DEF Promise!Learn
    <3>6. CASE S[id] \in {"asked", "accepted", "rejected"} /\ T[id] = "givenUp"
      BY <2>1, <3>2, <3>6 DEF Promise!GiveUp
    <3>7. CASE T[id] = S[id]
      <4>1. S = [i \in Ids |-> S[i]]
        BY DEF S
      <4> QED  BY <2>1, <3>2, <3>7, <4>1
    <3> QED  BY <3>1, <3>3, <3>4, <3>5, <3>6, <3>7 DEF StatusStep
  <2>4. PICK e \in Endpoints, id \in Ids :
          /\ PairStep(e, id)
          /\ \A f \in Endpoints, i \in Ids : f # e \/ i # id => Fade(f, i)
    BY NextMoves DEF Moved, OnePairMoves
  <2>5. \A i \in Ids : Owner(i) # e \/ i # id
          => StatusOf(Owner(i), i)' = StatusOf(Owner(i), i)
    BY <2>4, OwnerType, PairStatus
  <2>6. CASE Owner(id) = e
    BY <2>3, <2>4, <2>5, <2>6
  <2>7. CASE Owner(id) # e
    BY <2>2, <2>5, <2>7
  <2> QED  BY <2>6, <2>7
<1> QED  BY <1>1, <1>2, RequestInvariant, PTL DEF Spec, KeepsPromise, Promise!Spec

=============================================================================

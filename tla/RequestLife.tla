---------------------------- MODULE RequestLife -----------------------------
(***************************************************************************)
(* What Subscribe and Fetch promise, whatever messages, maps and goroutines*)
(* carry it: a request is decided at most once, by the publisher; its      *)
(* caller returns at most once, with that decision, or gives up.  Module   *)
(* Tracks implements this.                                                 *)
(***************************************************************************)

CONSTANT Requests  \* the requests that may be made

VARIABLE status    \* status[r]: how far the request has come

vars == status

\* "accepted" and "rejected" are decisions the caller does not know of yet, "ok"
\* and "refused" what the call returned.
Status == {"new", "asked", "accepted", "rejected", "ok", "refused", "givenUp"}

Move(r, from, to) ==
    /\ status[r] \in from
    /\ status' = [status EXCEPT ![r] = to]

Init == status = [r \in Requests |-> "new"]

Ask(r) == Move(r, {"new"}, "asked")

\* The publisher's Accept or Reject, or the rejection on its behalf.
Decide(r) == Move(r, {"asked"}, "accepted") \/ Move(r, {"asked"}, "rejected")

Learn(r) == Move(r, {"accepted"}, "ok") \/ Move(r, {"rejected"}, "refused")

\* The caller's context ends, or the request cannot be sent.
GiveUp(r) == Move(r, {"asked", "accepted", "rejected"}, "givenUp")

Next == \E r \in Requests : Ask(r) \/ Decide(r) \/ Learn(r) \/ GiveUp(r)

Spec == Init /\ [][Next]_vars

=============================================================================

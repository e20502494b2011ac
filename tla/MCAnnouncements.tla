-------------------------- MODULE MCAnnouncements --------------------------
(***************************************************************************)
(* Constants for the runs of module Announcements.                         *)
(***************************************************************************)
EXTENDS Announcements

\* Enough IDs for every request of a run.
LimitOf4 == [e \in Endpoints |-> 4]

\* Room for one request of each endpoint; later calls find the IDs exhausted.
LimitOf2 == [e \in Endpoints |-> 2]
=============================================================================

------------------------------ MODULE MCTracks ------------------------------
(***************************************************************************)
(* Constants of the model-checking runs of Tracks.                         *)
(***************************************************************************)
EXTENDS Tracks

\* The limit each endpoint is configured with.  Four stands for the default 100:
\* the second request already raises it.
LimitFour == [e \in Endpoints |-> 4]
\* A server configured with a lower limit than the one SERVER_SETUP carries.
LowServerLimit == [e \in Endpoints |-> IF e = Server THEN 1 ELSE 4]
\* The client draws only ID 0 of the two that the server allows it, which does not
\* raise the limit; the IDs of the server raise the three that the client allows it.
SmallLimits == [e \in Endpoints |-> IF e = Server THEN 2 ELSE 3]

=============================================================================

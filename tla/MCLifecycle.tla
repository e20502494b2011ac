---------------------------- MODULE MCLifecycle ----------------------------
(***************************************************************************)
(* Constants for the run of module Lifecycle.                              *)
(***************************************************************************)
EXTENDS Lifecycle

\* The server also knows an older and a newer version than the client, and two
\* that the client knows too.
FourAndTwo == [e \in Endpoints |-> IF e = Server THEN <<10, 11, 12, 13>> ELSE <<11, 12>>]
=============================================================================

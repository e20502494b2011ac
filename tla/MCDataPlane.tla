---------------------------- MODULE MCDataPlane ----------------------------
(***************************************************************************)
(* Constants for the runs of module DataPlane.                             *)
(***************************************************************************)
EXTENDS DataPlane, TLC

CONSTANTS w1, w2

OneWriter == {w1}
TwoWriters == {w1, w2}
WriterSymmetry == Permutations(TwoWriters)

LimitEight == [e \in Endpoints |-> 8]
=============================================================================

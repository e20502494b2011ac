---------------------------- MODULE MCMultipath ----------------------------
(***************************************************************************)
(* Constants for the runs of module Multipath.                             *)
(***************************************************************************)
EXTENDS Multipath, TLC

CONSTANTS s1, s2

\* The two paths of the example (main.go).
WiFiAndLTE == <<"WiFi", "LTE">>

\* Two callers of SendObject; they are interchangeable.
TwoSenders == {s1, s2}
SenderSymmetry == Permutations(TwoSenders)
OneSender == {s1}
=============================================================================

------------------------------ MODULE MCLiveRun ------------------------------
(* Two gate commands of different kinds, two Ctrl-C.                       *)
EXTENDS LiveRun

TwoGates == << "acceptance", "lint" >>
=============================================================================

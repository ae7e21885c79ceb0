------------------------------ MODULE MCFlow ------------------------------
(***************************************************************************)
(* Three servers that were launched one after the other.                   *)
(***************************************************************************)
EXTENDS FlowControl

CONSTANTS s1, s2, s3

InitLaunched ==
  /\ Init
  /\ peers = [s \in Servers |-> CASE s = s1 -> <<s2, s3>>
                                  [] s = s2 -> <<s1, s3>>
                                  [] s = s3 -> <<s1, s2>>]

SpecLaunched == InitLaunched /\ [][Next]_vars
=============================================================================

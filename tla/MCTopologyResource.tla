------------------------- MODULE MCTopologyResource -------------------------
(* Instances of TopologyResource for TLC. *)
EXTENDS TopologyResource

(* At most five are in use (stored, copy, call, two late requests): one is  *)
(* always free.                                                             *)
SixVersions == 1..6

EverythingOnce == [b \in Limited |-> 1]
=============================================================================

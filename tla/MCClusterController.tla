------------------------ MODULE MCClusterController ------------------------
(* Values of the constants for the run of ClusterController. *)
EXTENDS ClusterController

(* The users with a secret to inject their credentials into. *)
One == {1}
=============================================================================

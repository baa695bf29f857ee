----------------------------- MODULE ParentHash -----------------------------
(***************************************************************************)
(* What the controller of a DeviceCluster owes the Devices of the cluster: *)
(* the hash annotation that makes them rebuild their configuration is made *)
(* from versions of its parts that exist, and from none that is older than *)
(* the one it was made from before.  It is what DeviceController takes for *)
(* granted of the parents of a Device (EditParent and StampParent).        *)
(***************************************************************************)
EXTENDS Naturals

CONSTANT Parts   (* What the hash is made from.                            *)

VARIABLES
  newest,   (* The newest version of each part.                            *)
  hashed    (* The version of each part that the hash was made from.       *)

vars == <<newest, hashed>>

Init == \A p \in Parts : hashed[p] = 0 /\ newest[p] \in Nat

(* There are newer versions of some parts. *)
Edit ==
  /\ \A p \in Parts : newest[p] <= newest'[p]
  /\ UNCHANGED hashed

Hash ==
  /\ \A p \in Parts : hashed'[p] \in hashed[p]..newest[p]
  /\ UNCHANGED newest

Spec == Init /\ [][Edit \/ Hash]_vars
=============================================================================

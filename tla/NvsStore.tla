------------------------------ MODULE NvsStore ------------------------------
(***************************************************************************)
(* What the NVS partition tool promises, without pages: the values of the  *)
(* rows that it can store become readable one by one and in their order,   *)
(* nothing that is readable is lost or altered by what is written after    *)
(* it, and a partition is only written to the output file with all of them. *)
(***************************************************************************)
EXTENDS Naturals

VARIABLES
  promised,   (* The rows of the CSV file that are promised.               *)
  readable,   (* Those of them whose values a device can read.             *)
  file        (* The output file: "absent", "empty", or the "image".       *)

vars == <<promised, readable, file>>

Init ==
  /\ promised \in SUBSET Nat
  /\ readable = {}
  /\ file = "absent"

Open ==
  /\ file = "absent"
  /\ readable = {}
  /\ file' = "empty"
  /\ UNCHANGED <<promised, readable>>

Write(r) ==
  /\ file = "empty"
  /\ readable = {q \in promised : q < r}
  /\ readable' = readable \cup {r}
  /\ UNCHANGED <<promised, file>>

Close ==
  /\ file = "empty"
  /\ readable = promised
  /\ file' = "image"
  /\ UNCHANGED <<promised, readable>>

(* The input is refused: no file is left. *)
Refuse ==
  /\ file = "empty"
  /\ file' = "absent"
  /\ UNCHANGED <<promised, readable>>

Next == Open \/ (\E r \in promised : Write(r)) \/ Close \/ Refuse

Spec == Init /\ [][Next]_vars
=============================================================================

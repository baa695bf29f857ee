------------------------- MODULE MCDeviceController -------------------------
(* Values of the constants for the runs of DeviceController. *)
EXTENDS DeviceController

(* The parents are created, and one of them may be edited once.            *)
Created    == [class |-> 1, cluster |-> 1]
TwoClasses == [class |-> 2, cluster |-> 1]
TwoTopics  == [class |-> 1, cluster |-> 2]

NoTrouble       == [crashes |-> 0, faults |-> 0, edits |-> 0, podFailures |-> 0]
CrashAndFault   == [NoTrouble EXCEPT !.crashes = 1, !.faults = 1]
CrashAndFailure == [NoTrouble EXCEPT !.crashes = 1, !.podFailures = 1]
EditAndFailure  == [NoTrouble EXCEPT !.edits = 1, !.podFailures = 1]

NoLag  == {}
JobLag == {"job"}
AllLag == Kinds
=============================================================================

-------------------------- MODULE TopologyResource --------------------------
(***************************************************************************)
(* CreateOrUpdate (device_controller.go 555-582, and the same function in  *)
(* devicecluster_controller.go 120-147) for one object of the RabbitMQ     *)
(* topology operator: a User, a Permission or a TopicPermission.           *)
(*                                                                         *)
(* The object is read from an informer's copy, written from scratch with   *)
(* the resource version of that copy, and its other writer, the topology   *)
(* operator, answers every change.  A request whose caller has given up or *)
(* has died may still reach the API server.                                *)
(*                                                                         *)
(* Resource versions are only compared for equality, so a version that     *)
(* nobody holds any more is given again.                                   *)
(***************************************************************************)
EXTENDS Naturals, FiniteSets

CONSTANTS
  None,        (* No object, no resource version.                          *)
  Versions,    (* The resource versions.                                   *)
  MaxContent,  (* How many contents the object's parents ask for.          *)
  MaxAttempts, (* How often CreateOrUpdate tries to update.                *)
  Budget       (* How many crashes, faults, ... a behaviour may have.      *)

Limited == {"crashes", "faults", "deletes", "reports"}

(* spec: the content that its parents asked for.  owned: the topology       *)
(* operator has written what makes the object its own into the metadata.   *)
Object == [rv : Versions, spec : Nat, owned : BOOLEAN]

(* A write of content spec; a create carries no version. *)
Request == [op : {"create", "update"}, rv : Versions \cup {None}, spec : Nat]

(* The call's step: a request it waits for the answer of, or the read after *)
(* a conflict.  attempts: how many updates it has sent.                     *)
Calls == [op : {"idle", "create", "update", "get"}, rv : Versions \cup {None},
          spec : Nat, attempts : 0..MaxAttempts]

ASSUME NoneAssumption == None \notin Object /\ None \notin Versions
ASSUME BoundsAssumption ==
  MaxContent \in Nat /\ MaxAttempts \in Nat \ {0} /\ Budget \in [Limited -> Nat]

VARIABLES
  stored,   (* The object at the API server.                               *)
  copy,     (* The informer's copy of it.                                  *)
  seen,     (* The newest content of the parents that the caller can see.  *)
  due,      (* The caller's key waits in the work queue.                   *)
  call,     (* The running call of CreateOrUpdate.                         *)
  late,     (* The requests nobody waits for any more.                     *)
  spent     (* What has been used up of Budget.                            *)

vars == <<stored, copy, seen, due, call, late, spent>>

Idle == [op |-> "idle", rv |-> None, spec |-> 0, attempts |-> 0]

TypeOK ==
  /\ stored \in Object \cup {None}
  /\ copy \in Object \cup {None}
  /\ seen \in Nat
  /\ due \in BOOLEAN
  /\ call \in Calls
  /\ late \subseteq Request
  /\ spent \in [Limited -> Nat]

Init ==
  /\ stored = None
  /\ copy = None
  /\ seen = 1
  /\ due = TRUE
  /\ call = Idle
  /\ late = {}
  /\ spent = [b \in Limited |-> 0]

-----------------------------------------------------------------------------
Spend(b) ==
  /\ spent[b] < Budget[b]
  /\ spent' = [spent EXCEPT ![b] = @ + 1]

(* The versions that a copy, the call or a request holds. *)
InUse == {call.rv} \cup {obj.rv : obj \in {stored, copy} \ {None}}
                   \cup {m.rv : m \in late}

(* A version that no one holds. *)
Fresh == CHOOSE v \in Versions : v \notin InUse

(* The API server stores a changed object under a version of its own, and   *)
(* leaves an unchanged one alone.                                           *)
Store(spec, owned) ==
  IF stored # None /\ stored.spec = spec /\ stored.owned = owned
    THEN UNCHANGED stored
    ELSE /\ ~(Versions \subseteq InUse)
         /\ stored' = [rv |-> Fresh, spec |-> spec, owned |-> owned]

(* Slip for Accepted: the version of an update is not looked at. *)
AcceptedUnchecked(m) ==
  IF m.op = "create" THEN stored = None ELSE stored # None

(* A create needs that there is no object, an update that it has the       *)
(* version sent along.                                                     *)
Accepted(m) ==
  IF m.op = "create" THEN stored = None ELSE stored # None /\ stored.rv = m.rv

(* Both write the object that was made from scratch: the content, and       *)
(* nothing of what the topology operator has added.                         *)
Written(m) == Store(m.spec, FALSE)

Waiting == call.op \in {"create", "update"}

(* The request that the running call has sent. *)
Sent == [op |-> call.op, rv |-> call.rv, spec |-> call.spec]

(* The call returns; on an error the caller is queued again. *)
Return(ok) ==
  /\ call' = Idle
  /\ due' = (due \/ ~ok)

-----------------------------------------------------------------------------
(* One call of CreateOrUpdate. *)

(* Slip for Call: an object that exists is left as it is. *)
CallIfMissing ==
  /\ call.op = "idle"
  /\ due
  /\ due' = FALSE
  /\ call' = IF copy = None THEN [Idle EXCEPT !.op = "create", !.spec = seen] ELSE Idle
  /\ UNCHANGED <<stored, copy, seen, late, spent>>

(* The object is made from what the caller has read; Get decides between    *)
(* Create and the loop of updates.                                          *)
Call ==
  /\ call.op = "idle"
  /\ due
  /\ due' = FALSE
  /\ call' = IF copy = None
               THEN [op |-> "create", rv |-> None, spec |-> seen, attempts |-> 0]
               ELSE [op |-> "update", rv |-> copy.rv, spec |-> seen, attempts |-> 1]
  /\ UNCHANGED <<stored, copy, seen, late, spent>>

Succeed ==
  /\ Waiting
  /\ Accepted(Sent)
  /\ Written(Sent)
  /\ Return(TRUE)
  /\ UNCHANGED <<copy, seen, late, spent>>

(* AlreadyExists, or an update of an object that is gone. *)
Refused ==
  /\ Waiting
  /\ call.op = "create" <=> stored # None
  /\ Return(FALSE)
  /\ UNCHANGED <<stored, copy, seen, late, spent>>

Conflict ==
  /\ call.op = "update"
  /\ stored # None
  /\ stored.rv # call.rv
  /\ call' = [call EXCEPT !.op = "get"]
  /\ UNCHANGED <<stored, copy, seen, due, late, spent>>

(* Slip for GetAgain: one attempt too many. *)
GetAgainOnceMore ==
  /\ call.op = "get"
  /\ IF copy = None \/ call.attempts > MaxAttempts
       THEN Return(FALSE)
       ELSE /\ call' = [call EXCEPT !.op = "update", !.rv = copy.rv, !.attempts = @ + 1]
            /\ UNCHANGED due
  /\ UNCHANGED <<stored, copy, seen, late, spent>>

(* After a conflict the object is read again, after the last one too. *)
GetAgain ==
  /\ call.op = "get"
  /\ IF copy = None \/ call.attempts = MaxAttempts
       THEN Return(FALSE)
       ELSE /\ call' = [call EXCEPT !.op = "update", !.rv = copy.rv, !.attempts = @ + 1]
            /\ UNCHANGED due
  /\ UNCHANGED <<stored, copy, seen, late, spent>>

(* The answer does not come in time: the request may still arrive, or may   *)
(* have been lost.                                                          *)
GiveUp ==
  /\ Waiting
  /\ Spend("faults")
  /\ late' = late \cup {Sent}
  /\ Return(FALSE)
  /\ UNCHANGED <<stored, copy, seen>>

CreateOrUpdate == Call \/ Succeed \/ Refused \/ Conflict \/ GetAgain

(* The manager dies and another one starts, with a fresh copy. *)
Crash ==
  /\ Spend("crashes")
  /\ late' = IF Waiting THEN late \cup {Sent} ELSE late
  /\ call' = Idle
  /\ due' = TRUE
  /\ copy' = stored
  /\ UNCHANGED <<stored, seen>>

(* A request nobody waits for is carried out, or refused or lost. *)
Arrive ==
  /\ \E m \in late :
       /\ late' = late \ {m}
       /\ (Accepted(m) /\ Written(m)) \/ UNCHANGED stored
  /\ UNCHANGED <<copy, seen, due, call, spent>>

-----------------------------------------------------------------------------
(* The parents' contents change and wake the caller. *)
Learn ==
  /\ seen < MaxContent
  /\ seen' = seen + 1
  /\ due' = TRUE
  /\ UNCHANGED <<stored, copy, call, late, spent>>

(* The resync of the caller's informer. *)
Resync ==
  /\ ~due
  /\ due' = TRUE
  /\ UNCHANGED <<stored, copy, seen, call, late, spent>>

(* A watch event reaches the informer; nothing is queued for it. *)
Sync ==
  /\ copy # stored
  /\ copy' = stored
  /\ UNCHANGED <<stored, seen, due, call, late, spent>>

(* The topology operator makes the object its own. *)
TakeOwnership ==
  /\ stored # None
  /\ ~stored.owned
  /\ Store(stored.spec, TRUE)
  /\ UNCHANGED <<copy, seen, due, call, late, spent>>

(* It reports on the object: another version of the same content. *)
Report ==
  /\ stored # None
  /\ Spend("reports")
  /\ ~(Versions \subseteq InUse)
  /\ stored' = [stored EXCEPT !.rv = Fresh]
  /\ UNCHANGED <<copy, seen, due, call, late>>

(* A user deletes the object. *)
Delete ==
  /\ stored # None
  /\ Spend("deletes")
  /\ stored' = None
  /\ UNCHANGED <<copy, seen, due, call, late>>

-----------------------------------------------------------------------------
Next ==
  \/ CreateOrUpdate \/ GiveUp \/ Crash \/ Arrive
  \/ Learn \/ Resync \/ Sync
  \/ TakeOwnership \/ Report \/ Delete

Spec == Init /\ [][Next]_vars

(* The worker, the network, the informers and the topology operator go on;  *)
(* nobody has to fail, to delete or to report.                              *)
FairSpec ==
  /\ Spec
  /\ WF_vars(CreateOrUpdate)
  /\ WF_vars(Arrive)
  /\ WF_vars(Resync)
  /\ WF_vars(Sync)
  /\ WF_vars(TakeOwnership)

-----------------------------------------------------------------------------
(* Properties. *)

(* An object never goes back to an older content: not through a late        *)
(* request of a call that was given up or of a manager that died, not       *)
(* through an update computed while another one was on its way (566-579).   *)
SpecNeverRollsBack ==
  [][ stored # None /\ stored' # None => stored.spec <= stored'.spec ]_vars

(* Whatever was stale, lost, late or deleted on the way, the object ends up *)
(* and stays with the newest content, and the topology operator gets it     *)
(* back each time it was written (555-582).                                 *)
Applied ==
  /\ <>[](stored # None /\ stored.spec = seen)
  /\ []<>(stored # None /\ stored.owned)
=============================================================================

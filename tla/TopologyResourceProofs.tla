----------------------- MODULE TopologyResourceProofs -----------------------
(* Theorems about TopologyResource, for all values of its constants. *)
EXTENDS TopologyResource, TLAPS

(* A version that is given is held by no one. *)
LEMMA FreshVersion ==
  ASSUME ~(Versions \subseteq InUse)
  PROVE  Fresh \in Versions /\ Fresh \notin InUse
<1>1. \E v \in Versions : v \notin InUse
  OBVIOUS
<1> QED
  BY <1>1 DEF Fresh

LEMMA StoreType ==
  ASSUME TypeOK, NEW spec \in Nat, NEW owned \in BOOLEAN, Store(spec, owned)
  PROVE  stored' \in Object \cup {None}
  BY FreshVersion DEF Store, TypeOK, Object

LEMMA SentType ==
  ASSUME TypeOK, Waiting PROVE Sent \in Request
  BY DEF TypeOK, Waiting, Sent, Request, Calls

LEMMA IdleType == Idle \in Calls
  BY BoundsAssumption DEF Idle, Calls

LEMMA SpendType ==
  ASSUME TypeOK, NEW b \in Limited, Spend(b) PROVE spent' \in [Limited -> Nat]
  BY DEF TypeOK, Spend

LEMMA CreateOrUpdateType == TypeOK /\ CreateOrUpdate => TypeOK'
<1> SUFFICES ASSUME TypeOK, CreateOrUpdate PROVE TypeOK'
  OBVIOUS
<1>1. CASE Call
  <2>1. copy # None => copy.rv \in Versions
    BY DEF TypeOK, Object
  <2>2. call' \in Calls
    BY <1>1, <2>1, BoundsAssumption DEF Call, TypeOK, Calls
  <2> QED
    BY <1>1, <2>2 DEF Call, TypeOK
<1>2. CASE Succeed
  <2>1. call.spec \in Nat
    BY DEF TypeOK, Calls
  <2>2. stored' \in Object \cup {None}
    BY <1>2, <2>1, StoreType DEF Succeed, Written, Sent
  <2> QED
    BY <1>2, <2>2, IdleType DEF Succeed, Return, TypeOK
<1>3. CASE Refused
  BY <1>3, IdleType DEF Refused, Return, TypeOK
<1>4. CASE Conflict
  BY <1>4 DEF Conflict, TypeOK, Calls
<1>5. CASE GetAgain
  <2>1. CASE Return(FALSE)
    BY <1>5, <2>1, IdleType DEF GetAgain, Return, TypeOK
  <2>2. CASE ~Return(FALSE)
    <3>1. /\ copy # None /\ call.attempts # MaxAttempts /\ UNCHANGED due
          /\ call' = [call EXCEPT !.op = "update", !.rv = copy.rv, !.attempts = @ + 1]
      BY <1>5, <2>2 DEF GetAgain
    <3>2. copy.rv \in Versions
      BY <3>1 DEF TypeOK, Object
    <3>3. call.attempts + 1 \in 0..MaxAttempts
      BY <3>1, BoundsAssumption DEF TypeOK, Calls
    <3>4. call' \in Calls
      BY <3>1, <3>2, <3>3 DEF TypeOK, Calls
    <3> QED
      BY <1>5, <3>1, <3>4 DEF GetAgain, TypeOK
  <2> QED
    BY <2>1, <2>2
<1> QED
  BY <1>1, <1>2, <1>3, <1>4, <1>5 DEF CreateOrUpdate

LEMMA TroubleType == TypeOK /\ (GiveUp \/ Crash \/ Arrive) => TypeOK'
<1> SUFFICES ASSUME TypeOK PROVE GiveUp \/ Crash \/ Arrive => TypeOK'
  OBVIOUS
<1>1. CASE GiveUp
  BY <1>1, SentType, IdleType, SpendType DEF GiveUp, Return, TypeOK, Limited
<1>2. CASE Crash
  BY <1>2, SentType, IdleType, SpendType DEF Crash, TypeOK, Limited
<1>3. CASE Arrive
  <2>1. PICK m \in late : /\ late' = late \ {m}
                          /\ (Accepted(m) /\ Written(m)) \/ UNCHANGED stored
    BY <1>3 DEF Arrive
  <2>2. m.spec \in Nat
    BY DEF TypeOK, Request
  <2>3. stored' \in Object \cup {None}
    BY <2>1, <2>2, StoreType DEF Written, TypeOK
  <2> QED
    BY <1>3, <2>1, <2>3 DEF Arrive, TypeOK
<1> QED
  BY <1>1, <1>2, <1>3

LEMMA EnvironmentType ==
  TypeOK /\ (Learn \/ Resync \/ Sync \/ TakeOwnership \/ Report \/ Delete) => TypeOK'
<1> SUFFICES ASSUME TypeOK
             PROVE  Learn \/ Resync \/ Sync \/ TakeOwnership \/ Report \/ Delete => TypeOK'
  OBVIOUS
<1>1. CASE Learn
  BY <1>1 DEF Learn, TypeOK
<1>2. CASE Resync \/ Sync
  BY <1>2 DEF Resync, Sync, TypeOK
<1>3. CASE TakeOwnership
  <2>1. stored.spec \in Nat
    BY <1>3 DEF TakeOwnership, TypeOK, Object
  <2> QED
    BY <1>3, <2>1, StoreType DEF TakeOwnership, TypeOK
<1>4. CASE Report
  <2>1. stored' \in Object
    BY <1>4, FreshVersion DEF Report, TypeOK, Object
  <2> QED
    BY <1>4, <2>1, SpendType DEF Report, TypeOK, Limited
<1>5. CASE Delete
  BY <1>5, SpendType DEF Delete, TypeOK, Limited
<1> QED
  BY <1>1, <1>2, <1>3, <1>4, <1>5

(* Every reachable state is well typed; in particular CreateOrUpdate sends  *)
(* at most MaxAttempts updates.                                             *)
THEOREM TypeCorrect == Spec => []TypeOK
<1>1. Init => TypeOK
  BY IdleType DEF Init, TypeOK, Limited
<1>2. TypeOK /\ [Next]_vars => TypeOK'
  <2>1. TypeOK /\ UNCHANGED vars => TypeOK'
    BY DEF TypeOK, vars
  <2> QED
    BY <2>1, CreateOrUpdateType, TroubleType, EnvironmentType DEF Next
<1> QED
  BY <1>1, <1>2, PTL DEF Spec

-----------------------------------------------------------------------------
(* No roll-back.  A request may be overtaken, and carried out when its      *)
(* caller is long gone; what protects the object is that the request names  *)
(* the version of the object it was made for, and that every change of      *)
(* content gives the object a version that no request names.                *)

(* Everything written was seen before. *)
WrittenWasSeen ==
  /\ stored # None => stored.spec <= seen
  /\ \A m \in late : m.spec <= seen

(* The running call writes the newest of what has been written so far. *)
CallIsNewest ==
  call.op # "idle" =>
    /\ call.spec <= seen
    /\ stored # None => stored.spec <= call.spec
    /\ \A m \in late : m.spec <= call.spec

(* A request that would still be accepted is not older than the object. *)
AcceptedIsNewer ==
  \A m \in late : m.op = "update" /\ stored # None /\ stored.rv = m.rv => stored.spec <= m.spec

OrderInv == WrittenWasSeen /\ CallIsNewest /\ AcceptedIsNewer

(* What a stored request does to the object. *)
LEMMA StoreEffect ==
  ASSUME TypeOK, NEW spec \in Nat, NEW owned \in BOOLEAN, Store(spec, owned)
  PROVE  /\ stored' # None
         /\ stored'.spec = spec
         /\ \/ stored' = stored
            \/ \A m \in late : stored'.rv # m.rv
<1>1. CASE UNCHANGED stored /\ stored # None /\ stored.spec = spec
  BY <1>1
<1>2. CASE /\ ~(Versions \subseteq InUse)
           /\ stored' = [rv |-> Fresh, spec |-> spec, owned |-> owned]
  <2>1. Fresh \in Versions /\ Fresh \notin InUse
    BY <1>2, FreshVersion
  <2>2. \A m \in late : Fresh # m.rv
    BY <2>1 DEF InUse
  <2>3. stored' \in Object
    BY <1>2, <2>1 DEF Object
  <2> QED
    BY <1>2, <2>2, <2>3, NoneAssumption
<1> QED
  BY <1>1, <1>2 DEF Store

(* The numbers that are compared. *)
LEMMA SpecTypes ==
  ASSUME TypeOK
  PROVE  /\ seen \in Nat /\ call.spec \in Nat
         /\ stored # None => stored.spec \in Nat
         /\ \A m \in late : m.spec \in Nat
  BY DEF TypeOK, Calls, Object, Request

(* The steps that write nothing. *)
QuietFrame ==
  /\ stored' = stored \/ stored' = None
  /\ seen' = seen
  /\ late' \subseteq late
  /\ \/ call'.op = "idle"
     \/ call.op # "idle" /\ call'.spec = call.spec

LEMMA QuietPreserves == OrderInv /\ QuietFrame => OrderInv'
  BY DEF OrderInv, QuietFrame, WrittenWasSeen, CallIsNewest, AcceptedIsNewer

LEMMA QuietSteps ==
  ASSUME TypeOK,
         \/ Refused \/ Conflict \/ GetAgain \/ Resync \/ Sync \/ Delete \/ UNCHANGED vars
  PROVE  QuietFrame
<1>1. CASE Refused
  BY <1>1 DEF Refused, Return, Idle, QuietFrame
<1>2. CASE Conflict
  BY <1>2 DEF Conflict, QuietFrame, TypeOK, Calls
<1>3. CASE GetAgain
  <2>1. CASE Return(FALSE)
    BY <1>3, <2>1 DEF GetAgain, Return, Idle, QuietFrame
  <2>2. CASE ~Return(FALSE)
    BY <1>3, <2>2 DEF GetAgain, QuietFrame, TypeOK, Calls
  <2> QED
    BY <2>1, <2>2
<1>4. CASE Resync \/ Sync \/ Delete \/ UNCHANGED vars
  BY <1>4 DEF Resync, Sync, Delete, vars, QuietFrame
<1> QED
  BY <1>1, <1>2, <1>3, <1>4

(* An accepted request does not make the object older. *)
LEMMA AcceptedEffect ==
  ASSUME TypeOK, NEW m, m.op \in {"create", "update"}, m.spec \in Nat,
         Accepted(m), Written(m),
         m.op = "update" /\ stored # None /\ stored.rv = m.rv => stored.spec <= m.spec
  PROVE  /\ stored # None => stored.spec <= m.spec
         /\ stored' # None /\ stored'.spec = m.spec
         /\ stored' = stored \/ \A n \in late : stored'.rv # n.rv
<1>1. Store(m.spec, FALSE)
  BY DEF Written
<1>2. stored # None => stored.spec <= m.spec
  BY DEF Accepted
<1> QED
  BY <1>1, <1>2, StoreEffect

LEMMA SucceedOrder == TypeOK /\ OrderInv /\ Succeed => OrderInv'
<1> SUFFICES ASSUME TypeOK, OrderInv, Succeed PROVE OrderInv'
  OBVIOUS
<1>1. /\ Sent.op \in {"create", "update"} /\ Sent.spec = call.spec /\ call.op # "idle"
      /\ UNCHANGED <<seen, late>> /\ call'.op = "idle"
  BY DEF Succeed, Waiting, Sent, Return, Idle
<1>2. /\ stored # None => stored.spec <= call.spec
      /\ call.spec <= seen
  BY <1>1 DEF OrderInv, CallIsNewest
<1>3. /\ stored' # None /\ stored'.spec = call.spec
      /\ stored' = stored \/ \A n \in late : stored'.rv # n.rv
  BY <1>1, <1>2, SpecTypes, AcceptedEffect DEF Succeed
<1> QED
  BY <1>1, <1>2, <1>3 DEF OrderInv, WrittenWasSeen, CallIsNewest, AcceptedIsNewer

LEMMA ArriveOrder == TypeOK /\ OrderInv /\ Arrive => OrderInv'
<1> SUFFICES ASSUME TypeOK, OrderInv, Arrive PROVE OrderInv'
  OBVIOUS
<1>1. PICK m \in late : /\ late' = late \ {m}
                        /\ (Accepted(m) /\ Written(m)) \/ UNCHANGED stored
  BY DEF Arrive
<1>2. UNCHANGED <<seen, call>>
  BY DEF Arrive
<1>3. CASE UNCHANGED stored
  BY <1>1, <1>2, <1>3, QuietPreserves DEF QuietFrame
<1>4. CASE Accepted(m) /\ Written(m)
  <2>1. m.op \in {"create", "update"} /\ m.spec \in Nat
    BY DEF TypeOK, Request
  <2>2. /\ stored' # None /\ stored'.spec = m.spec
        /\ stored' = stored \/ \A n \in late : stored'.rv # n.rv
    BY <1>4, <2>1, AcceptedEffect DEF OrderInv, AcceptedIsNewer
  <2> QED
    BY <1>1, <1>2, <2>2 DEF OrderInv, WrittenWasSeen, CallIsNewest, AcceptedIsNewer
<1> QED
  BY <1>1, <1>3, <1>4

LEMMA CallOrder == TypeOK /\ OrderInv /\ Call => OrderInv'
<1> SUFFICES ASSUME TypeOK, OrderInv, Call PROVE OrderInv'
  OBVIOUS
<1>1. UNCHANGED <<stored, seen, late>> /\ call'.spec = seen
  BY DEF Call
<1> QED
  BY <1>1, SpecTypes DEF OrderInv, WrittenWasSeen, CallIsNewest, AcceptedIsNewer

(* A request that is left alone was the newest when it was. *)
LEMMA AbandonOrder == TypeOK /\ OrderInv /\ (GiveUp \/ Crash) => OrderInv'
<1> SUFFICES ASSUME TypeOK, OrderInv, GiveUp \/ Crash PROVE OrderInv'
  OBVIOUS
<1>1. /\ UNCHANGED <<stored, seen>> /\ call'.op = "idle"
      /\ late' = late \/ (Waiting /\ late' = late \cup {Sent})
  BY DEF GiveUp, Crash, Return, Idle
<1>2. Waiting => /\ Sent.spec = call.spec /\ call.spec <= seen
                 /\ stored # None => stored.spec <= call.spec
  BY DEF Waiting, Sent, OrderInv, CallIsNewest
<1> QED
  BY <1>1, <1>2 DEF OrderInv, WrittenWasSeen, CallIsNewest, AcceptedIsNewer

LEMMA LearnOrder == TypeOK /\ OrderInv /\ Learn => OrderInv'
  BY SpecTypes DEF Learn, OrderInv, WrittenWasSeen, CallIsNewest, AcceptedIsNewer

(* The topology operator changes the version and not the content. *)
LEMMA OperatorOrder == TypeOK /\ OrderInv /\ (TakeOwnership \/ Report) => OrderInv'
<1> SUFFICES ASSUME TypeOK, OrderInv, TakeOwnership \/ Report PROVE OrderInv'
  OBVIOUS
<1>1. UNCHANGED <<seen, late, call>> /\ stored # None
  BY DEF TakeOwnership, Report
<1>2. /\ stored'.spec = stored.spec
      /\ stored' = stored \/ \A n \in late : stored'.rv # n.rv
  <2>1. CASE TakeOwnership
    BY <2>1, SpecTypes, StoreEffect DEF TakeOwnership
  <2>2. CASE Report
    <3>1. Fresh \notin InUse /\ stored' = [stored EXCEPT !.rv = Fresh]
      BY <2>2, FreshVersion DEF Report
    <3>2. \A n \in late : Fresh # n.rv
      BY <3>1 DEF InUse
    <3> QED
      BY <1>1, <3>1, <3>2 DEF TypeOK, Object
  <2> QED
    BY <2>1, <2>2
<1> QED
  BY <1>1, <1>2 DEF OrderInv, WrittenWasSeen, CallIsNewest, AcceptedIsNewer

THEOREM OrderInvariant == Spec => []OrderInv
<1>1. Init => OrderInv
  BY DEF Init, Idle, OrderInv, WrittenWasSeen, CallIsNewest, AcceptedIsNewer
<1>2. TypeOK /\ OrderInv /\ [Next]_vars => OrderInv'
  BY QuietSteps, QuietPreserves, SucceedOrder, ArriveOrder, CallOrder, AbandonOrder,
     LearnOrder, OperatorOrder DEF Next, CreateOrUpdate
<1> QED
  BY <1>1, <1>2, TypeCorrect, PTL DEF Spec

(* Each step that writes the object keeps or renews its content. *)
LEMMA NoStepRollsBack ==
  ASSUME TypeOK, OrderInv, [Next]_vars, stored # None, stored' # None
  PROVE  stored.spec <= stored'.spec
<1>1. stored.spec \in Nat
  BY SpecTypes
<1>2. CASE stored' = stored
  BY <1>1, <1>2
<1>3. CASE Succeed
  <2>1. /\ Sent.op \in {"create", "update"} /\ Sent.spec = call.spec /\ call.op # "idle"
        /\ Accepted(Sent) /\ Written(Sent)
    BY <1>3 DEF Succeed, Waiting, Sent
  <2>2. stored.spec <= call.spec
    BY <2>1 DEF OrderInv, CallIsNewest
  <2> QED
    BY <2>1, <2>2, SpecTypes, AcceptedEffect
<1>4. CASE Arrive
  <2>1. PICK m \in late : (Accepted(m) /\ Written(m)) \/ UNCHANGED stored
    BY <1>4 DEF Arrive
  <2>2. m.op \in {"create", "update"} /\ m.spec \in Nat
    BY DEF TypeOK, Request
  <2>3. CASE Accepted(m) /\ Written(m)
    BY <2>2, <2>3, AcceptedEffect DEF OrderInv, AcceptedIsNewer
  <2> QED
    BY <1>2, <2>1, <2>3
<1>5. CASE TakeOwnership
  <2>1. Store(stored.spec, TRUE)
    BY <1>5 DEF TakeOwnership
  <2>2. stored'.spec = stored.spec
    BY <1>1, <2>1, StoreEffect
  <2> QED
    BY <1>1, <2>2
<1>6. CASE Report
  BY <1>1, <1>6 DEF Report, TypeOK, Object
<1>7. CASE Call \/ GiveUp \/ Crash \/ Learn
  BY <1>2, <1>7 DEF Call, GiveUp, Crash, Learn
<1>8. CASE Refused \/ Conflict \/ GetAgain \/ Resync \/ Sync \/ Delete \/ UNCHANGED vars
  BY <1>2, <1>8, QuietSteps DEF QuietFrame
<1> QED
  BY <1>3, <1>4, <1>5, <1>6, <1>7, <1>8 DEF Next, CreateOrUpdate

(* However many requests are late, versions stale and callers dead, an      *)
(* object never goes back to an older content.                              *)
THEOREM SpecNeverRollsBackHolds == Spec => SpecNeverRollsBack
<1>1. TypeOK /\ OrderInv /\ [Next]_vars
        => [ stored # None /\ stored' # None => stored.spec <= stored'.spec ]_vars
  BY NoStepRollsBack
<1> QED
  BY <1>1, TypeCorrect, OrderInvariant, PTL DEF Spec, SpecNeverRollsBack
=============================================================================

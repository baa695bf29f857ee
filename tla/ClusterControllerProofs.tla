---------------------- MODULE ClusterControllerProofs ----------------------
(* Theorems about ClusterController, for all values of its constants. *)
EXTENDS ClusterController, TLAPS

LEMMA EmptyTypes ==
  /\ NoHash \in Hash
  /\ NewCluster \in Cluster
  /\ NoLocal \in Locals
  /\ NewRemote \in Remote
<1>1. NoHash \in Hash
  BY DEF NoHash, Hash
<1>2. NewCluster \in Cluster
  BY <1>1, UsersAssumption DEF NewCluster, Cluster
<1>3. [pw |-> 0, rv |-> 0] \in Secret
  BY DEF Secret
<1>4. NewRemote \in Remote
  BY DEF NewRemote, Remote
<1> QED
  BY <1>1, <1>2, <1>3, <1>4 DEF NoLocal, Locals

(* The objects and what is kept of them, by their parts. *)
LEMMA ObjectTypes ==
  ASSUME NEW objects \in Objects
  PROVE  /\ objects.cluster \in Cluster
         /\ objects.service \in Service \cup {NoService}
         /\ objects.secrets \in Secrets
         /\ objects.secrets.extra \in Nat
         /\ objects.secrets.users \in [Users -> Secret \cup {NoSecret}]
         /\ objects.secrets.remotes \in [Injecting -> Remote \cup {NoRemote, EmptyRemote}]
<1>1. objects.secrets \in Secrets
  BY DEF Objects
<1> QED
  BY <1>1 DEF Objects, Secrets

LEMMA SpendType ==
  ASSUME spent \in [Troubles -> Nat], NEW b \in Troubles, Spend(b)
  PROVE  spent' \in [Troubles -> Nat]
  BY DEF Spend

LEMMA AnswerType ==
  ASSUME spent \in [Troubles -> Nat], NEW possible, NEW outcome, Answer(possible, outcome)
  PROVE  spent' \in [Troubles -> Nat]
  BY SpendType DEF Answer, Troubles

LEMMA LeaveType ==
  ASSUME local \in Locals, NEW again \in BOOLEAN, Leave(again)
  PROVE  local' \in Locals /\ pc' = "patch"
  BY DEF Leave, Locals

LEMMA GoOnType ==
  ASSUME local \in Locals, NEW outcome, NEW next, GoOn(outcome, next)
  PROVE  local' \in Locals /\ pc' \in {next, "patch"}
  BY LeaveType DEF GoOn

LEMMA NextUserType ==
  ASSUME local \in Locals, NextUser
  PROVE  local' \in Locals /\ pc' \in {"secret", "server"}
  BY DEF NextUser, StepFor, Locals

LEMMA MergePatchType ==
  ASSUME NEW base \in Cluster, NEW mod \in Cluster, NEW obj \in Cluster
  PROVE  MergePatch(base, mod, obj) \in Cluster
  BY DEF MergePatch, Cluster

LEMMA RestartType ==
  ASSUME TypeOK, Restart, spent' \in [Troubles -> Nat]
  PROVE  TypeOK'
  BY EmptyTypes DEF Restart, TypeOK

-----------------------------------------------------------------------------
(* Type correctness. *)

LEMMA BeginType == TypeOK /\ (Load \/ EnsurePersistence \/ FindAddress) => TypeOK'
<1> SUFFICES ASSUME TypeOK PROVE Load \/ EnsurePersistence \/ FindAddress => TypeOK'
  OBVIOUS
<1>1. CASE Load
  <2>1. cache.cluster \in Cluster
    BY ObjectTypes DEF TypeOK
  <2>2. local' \in Locals
    BY <1>1, <2>1, EmptyTypes DEF Load, Locals
  <2> QED
    BY <1>1, <2>2 DEF Load, TypeOK
<1>2. CASE EnsurePersistence
  BY <1>2, AnswerType, GoOnType DEF EnsurePersistence, TypeOK, Made
<1>3. CASE FindAddress
  <2>1. CASE Leave(TRUE)
    BY <1>3, <2>1, LeaveType DEF FindAddress, TypeOK
  <2>2. CASE UNCHANGED local /\ pc' = "rabbitmq"
    BY <1>3, <2>2 DEF FindAddress, TypeOK
  <2>3. CASE /\ cache.service # NoService
             /\ pc' = "rabbitmq"
             /\ local' = [local EXCEPT !.cluster.host = cache.service.host,
                                       !.cluster.annotated = TRUE]
    <3>1. cache.service.host \in Nat
      BY <2>3, ObjectTypes DEF TypeOK, Service
    <3>2. local' \in Locals
      BY <2>3, <3>1 DEF TypeOK, Locals, Cluster
    <3> QED
      BY <1>3, <2>3, <3>2 DEF FindAddress, TypeOK
  <2> QED
    BY <1>3, <2>1, <2>2, <2>3 DEF FindAddress
<1> QED
  BY <1>1, <1>2, <1>3

LEMMA EnsureRabbitmqType == TypeOK /\ EnsureRabbitmq => TypeOK'
<1> SUFFICES ASSUME TypeOK, EnsureRabbitmq PROVE TypeOK'
  OBVIOUS
<1>1. PICK k \in 0..3, ok \in BOOLEAN :
        /\ IF ok THEN UNCHANGED spent ELSE Spend("faults")
        /\ made' = [made EXCEPT !.rabbitmq = IF k > @ THEN k ELSE @]
        /\ IF ok THEN pc' = StepFor(1) /\ local' = [local EXCEPT !.user = 1] ELSE Leave(TRUE)
  BY DEF EnsureRabbitmq
<1>2. spent' \in [Troubles -> Nat]
  BY <1>1, SpendType DEF TypeOK, Troubles
<1>3. made' \in Made
  BY <1>1 DEF TypeOK, Made
<1>4. local' \in Locals /\ pc' \in {"secret", "server", "patch"}
  <2>1. CASE ok
    BY <1>1, <2>1 DEF TypeOK, Locals, StepFor
  <2>2. CASE ~ok
    BY <1>1, <2>2, LeaveType DEF TypeOK
  <2> QED
    BY <2>1, <2>2
<1> QED
  BY <1>2, <1>3, <1>4 DEF EnsureRabbitmq, TypeOK

(* An object in the place of one user keeps the type of the Secrets. *)
LEMMA UserSecretType ==
  ASSUME NEW objects \in Objects, NEW u \in Users, NEW secret \in Secret \cup {NoSecret}
  PROVE  [objects EXCEPT !.secrets.users[u] = secret] \in Objects
<1> DEFINE secrets == [objects.secrets EXCEPT !.users[u] = secret]
<1>1. secrets \in Secrets
  BY ObjectTypes DEF Secrets
<1> QED
  BY <1>1 DEF Objects

LEMMA RemoteType ==
  ASSUME NEW objects \in Objects, NEW u \in Injecting,
         NEW remote \in Remote \cup {NoRemote, EmptyRemote}
  PROVE  [objects EXCEPT !.secrets.remotes[u] = remote] \in Objects
<1> DEFINE secrets == [objects.secrets EXCEPT !.remotes[u] = remote]
<1>1. secrets \in Secrets
  BY ObjectTypes DEF Secrets
<1> QED
  BY <1>1 DEF Objects

(* While a user is looked after, local.user is one. *)
UserInLoop ==
  /\ pc \in {"secret", "user"} => local.user \in Users
  /\ pc = "inject" => local.user \in Injecting

LEMMA WriteSecretType == TypeOK /\ UserInLoop /\ WriteSecret => TypeOK'
<1> SUFFICES ASSUME TypeOK, UserInLoop, WriteSecret PROVE TypeOK'
  OBVIOUS
<1> DEFINE secret == [pw |-> issued + 1, rv |-> issued + 1]
<1>1. PICK outcome \in Outcomes :
        /\ Answer(api.secrets.users[local.user] = cache.secrets.users[local.user], outcome)
        /\ IF outcome = "refused"
             THEN UNCHANGED <<api, issued>>
             ELSE /\ api' = [api EXCEPT !.secrets.users[local.user] = secret]
                  /\ issued' = issued + 1
        /\ IF outcome = "done"
             THEN pc' = "user" /\ local' = [local EXCEPT !.secret = secret]
             ELSE Leave(TRUE)
  BY DEF WriteSecret
<1>2. local.user \in Users /\ secret \in Secret
  BY DEF UserInLoop, WriteSecret, TypeOK, Secret
<1>3. api' \in Objects /\ issued' \in Nat
  BY <1>1, <1>2, UserSecretType DEF TypeOK
<1>4. local' \in Locals /\ pc' \in {"user", "patch"}
  <2>1. CASE outcome = "done"
    BY <1>1, <1>2, <2>1 DEF TypeOK, Locals
  <2>2. CASE outcome # "done"
    BY <1>1, <2>2, LeaveType DEF TypeOK
  <2> QED
    BY <2>1, <2>2
<1>5. spent' \in [Troubles -> Nat]
  BY <1>1, AnswerType DEF TypeOK
<1> QED
  BY <1>3, <1>4, <1>5 DEF WriteSecret, TypeOK

LEMMA UserType ==
  TypeOK /\ UserInLoop /\ (UseSecret \/ RefuseRole \/ WriteUser) => TypeOK'
<1> SUFFICES ASSUME TypeOK, UserInLoop
             PROVE  UseSecret \/ RefuseRole \/ WriteUser => TypeOK'
  OBVIOUS
<1>1. CASE UseSecret
  <2>1. cache.secrets.users[local.user] \in Secret
    BY <1>1, ObjectTypes DEF UserInLoop, UseSecret, TypeOK
  <2>2. local' \in Locals
    BY <1>1, <2>1 DEF UseSecret, TypeOK, Locals
  <2> QED
    BY <1>1, <2>2 DEF UseSecret, TypeOK
<1>2. CASE RefuseRole
  BY <1>2, LeaveType DEF RefuseRole, TypeOK
<1>3. CASE WriteUser
  <2>1. PICK k \in 0..3, ok \in BOOLEAN :
          /\ IF ok THEN UNCHANGED spent ELSE Spend("faults")
          /\ broker' = [broker EXCEPT
               ![local.user].stamp = IF k > 0 THEN local.secret.rv ELSE @,
               ![local.user].topic = IF k = 3 THEN local.cluster.topic ELSE @]
          /\ IF ok THEN IF local.user \in Injecting THEN pc' = "inject" /\ UNCHANGED local
                                                    ELSE NextUser
                   ELSE Leave(TRUE)
    BY <1>3 DEF WriteUser
  <2>2. spent' \in [Troubles -> Nat]
    BY <2>1, SpendType DEF TypeOK, Troubles
  <2>3. local.user \in Users /\ local.secret.rv \in Nat /\ local.cluster.topic \in Nat
    BY <1>3 DEF WriteUser, UserInLoop, TypeOK, Locals, Secret, Cluster
  <2>4. broker' \in [Users -> Resources]
    BY <2>1, <2>3 DEF TypeOK, Resources
  <2>5. local' \in Locals /\ pc' \in {"secret", "server", "inject", "patch"}
    BY <2>1, LeaveType, NextUserType DEF TypeOK
  <2> QED
    BY <1>3, <2>2, <2>4, <2>5 DEF WriteUser, TypeOK
<1> QED
  BY <1>1, <1>2, <1>3

LEMMA InjectType ==
  TypeOK /\ UserInLoop /\ (NoInjection \/ Inject \/ InjectPanics) => TypeOK'
<1> SUFFICES ASSUME TypeOK, UserInLoop
             PROVE  NoInjection \/ Inject \/ InjectPanics => TypeOK'
  OBVIOUS
<1>1. CASE NoInjection
  BY <1>1, LeaveType, NextUserType DEF NoInjection, TypeOK
<1>2. CASE Inject
  <2>1. PICK outcome \in Outcomes :
          /\ Answer(api.secrets.remotes[local.user] = cache.secrets.remotes[local.user],
                    outcome)
          /\ api' = IF outcome = "refused" THEN api
                    ELSE [api EXCEPT !.secrets.remotes[local.user] = Injected]
          /\ IF outcome = "done" THEN NextUser ELSE Leave(TRUE)
    BY <1>2 DEF Inject
  <2>2. local.user \in Injecting /\ Injected \in Remote
    BY <1>2 DEF Inject, UserInLoop, Injected, Remote, TypeOK, Locals, Secret, Cluster
  <2>3. api' \in Objects
    BY <2>1, <2>2, RemoteType DEF TypeOK
  <2>4. local' \in Locals /\ pc' \in {"secret", "server", "patch"}
    BY <2>1, LeaveType, NextUserType DEF TypeOK
  <2>5. spent' \in [Troubles -> Nat]
    BY <2>1, AnswerType DEF TypeOK
  <2> QED
    BY <1>2, <2>3, <2>4, <2>5 DEF Inject, TypeOK
<1>3. CASE InjectPanics
  BY <1>3, RestartType DEF InjectPanics, TypeOK
<1> QED
  BY <1>1, <1>2, <1>3

LEMMA EndType ==
  TypeOK /\ (SyncHttpServer \/ HashForDevice \/ HashPanics \/ PatchCluster) => TypeOK'
<1> SUFFICES ASSUME TypeOK
             PROVE  SyncHttpServer \/ HashForDevice \/ HashPanics \/ PatchCluster => TypeOK'
  OBVIOUS
<1>1. CASE SyncHttpServer
  BY <1>1, AnswerType, GoOnType DEF SyncHttpServer, TypeOK, Made
<1>2. CASE HashForDevice
  <2> DEFINE hash == [topic |-> local.cluster.topic, host |-> local.cluster.host,
                      extra |-> cache.secrets.extra]
  <2>1. hash \in Hash
    BY ObjectTypes DEF Hash, TypeOK, Locals, Cluster
  <2>2. local' = [local EXCEPT !.cluster.hash = hash]
    BY <1>2 DEF HashForDevice
  <2>3. local' \in Locals
    BY <2>1, <2>2 DEF TypeOK, Locals, Cluster
  <2> QED
    BY <1>2, <2>3 DEF HashForDevice, TypeOK
<1>3. CASE HashPanics
  BY <1>3, RestartType DEF HashPanics, TypeOK
<1>4. CASE PatchCluster
  <2>1. MergePatch(local.base, local.cluster, api.cluster) \in Cluster
    BY MergePatchType, ObjectTypes DEF TypeOK, Locals
  <2>2. api' \in Objects
    BY <1>4, <2>1 DEF PatchCluster, TypeOK, Objects
  <2>3. spent' \in [Troubles -> Nat] /\ queued' \in BOOLEAN
    BY <1>4, AnswerType DEF PatchCluster, TypeOK, Locals
  <2> QED
    BY <1>4, <2>2, <2>3, EmptyTypes DEF PatchCluster, TypeOK
<1> QED
  BY <1>1, <1>2, <1>3, <1>4

LEMMA ManagerType == TypeOK /\ ((\E k \in Kinds : Sync(k)) \/ Resync \/ Crash) => TypeOK'
<1> SUFFICES ASSUME TypeOK PROVE (\E k \in Kinds : Sync(k)) \/ Resync \/ Crash => TypeOK'
  OBVIOUS
<1>1. ASSUME NEW k \in Kinds, Sync(k) PROVE TypeOK'
  <2>1. cache' \in Objects
    BY <1>1 DEF Sync, Kinds, TypeOK, Objects
  <2> QED
    BY <1>1, <2>1 DEF Sync, TypeOK, Wakes
<1>2. CASE Resync
  BY <1>2 DEF Resync, TypeOK
<1>3. CASE Crash
  BY <1>3, RestartType, SpendType DEF Crash, TypeOK, Troubles
<1> QED
  BY <1>1, <1>2, <1>3

LEMMA EnvironmentType == TypeOK /\ Environment => TypeOK'
<1> SUFFICES ASSUME TypeOK, Environment PROVE TypeOK'
  OBVIOUS
<1>1. CASE EditCluster
  <2>1. PICK unknown \in 0..NUsers :
          api' = [api EXCEPT !.cluster.topic = @ + 1, !.cluster.unknown = unknown]
    BY <1>1 DEF EditCluster
  <2>2. api'.cluster = [api.cluster EXCEPT !.topic = @ + 1, !.unknown = unknown]
    BY <2>1 DEF TypeOK, Objects
  <2>3. api'.cluster \in Cluster
    <3>1. api.cluster \in Cluster /\ api.cluster.topic + 1 \in Nat
      BY ObjectTypes DEF TypeOK, Cluster
    <3>2. [api.cluster EXCEPT !.topic = @ + 1] \in Cluster
      BY <3>1 DEF Cluster
    <3>3. api'.cluster = [[api.cluster EXCEPT !.topic = @ + 1] EXCEPT !.unknown = unknown]
      BY <2>2, <3>1 DEF Cluster
    <3> QED
      BY <3>2, <3>3 DEF Cluster
  <2>4. api' \in Objects
    BY <2>1, <2>3 DEF TypeOK, Objects
  <2> QED
    BY <1>1, <2>4 DEF EditCluster, TypeOK
<1>2. CASE EditExtra
  <2>1. api'.secrets \in Secrets
    BY <1>2, ObjectTypes DEF EditExtra, TypeOK, Secrets, Objects
  <2>2. api' \in Objects
    BY <1>2, <2>1 DEF EditExtra, TypeOK, Objects
  <2> QED
    BY <1>2, <2>2 DEF EditExtra, TypeOK
<1>3. ASSUME NEW u \in Users, EditSecret(u) PROVE TypeOK'
  <2>1. issued' \in Nat
    BY <1>3 DEF EditSecret, TypeOK
  <2>2. api' \in Objects
    <3>1. CASE api' = [api EXCEPT !.secrets.users[u] = NoSecret]
      BY <3>1, UserSecretType DEF TypeOK
    <3>2. ASSUME NEW pw \in {0, issued + 1},
                 api' = [api EXCEPT !.secrets.users[u] = [pw |-> pw, rv |-> issued + 1]]
          PROVE  api' \in Objects
      <4>1. [pw |-> pw, rv |-> issued + 1] \in Secret
        BY DEF TypeOK, Secret
      <4> QED
        BY <3>2, <4>1, UserSecretType DEF TypeOK
    <3> QED
      BY <1>3, <3>1, <3>2 DEF EditSecret
  <2>3. spent' \in [Troubles -> Nat]
    BY <1>3, SpendType DEF EditSecret, TypeOK, Troubles
  <2> QED
    BY <1>3, <2>1, <2>2, <2>3 DEF EditSecret, TypeOK
<1>4. ASSUME NEW u \in Injecting, EditRemote(u) PROVE TypeOK'
  <2>1. api' \in Objects
    BY <1>4, RemoteType, EmptyTypes DEF EditRemote, TypeOK
  <2>2. spent' \in [Troubles -> Nat]
    BY <1>4, SpendType DEF EditRemote, TypeOK, Troubles
  <2> QED
    BY <1>4, <2>1, <2>2 DEF EditRemote, TypeOK
<1>5. CASE CreateService \/ AssignAddress
  <2>1. PICK service \in Service : api' = [api EXCEPT !.service = service]
    <3>1. CASE CreateService
      BY <3>1 DEF CreateService, Service
    <3>2. CASE AssignAddress
      <4>1. api.service.host + 1 \in Nat
        BY <3>2, ObjectTypes DEF AssignAddress, TypeOK, Service
      <4>2. [host |-> api.service.host + 1, ready |-> TRUE] \in Service
        BY <4>1 DEF Service
      <4> QED
        BY <3>2, <4>2 DEF AssignAddress, TypeOK, Objects
    <3> QED
      BY <1>5, <3>1, <3>2
  <2>2. api' \in Objects
    BY <2>1 DEF TypeOK, Objects
  <2> QED
    BY <1>5, <2>2 DEF CreateService, AssignAddress, TypeOK
<1>6. CASE LoseAddress
  <2>1. api'.service \in Service
    BY <1>6, ObjectTypes DEF LoseAddress, TypeOK, Service, Objects
  <2>2. api' \in Objects
    BY <1>6, <2>1 DEF LoseAddress, TypeOK, Objects
  <2>3. spent' \in [Troubles -> Nat]
    BY <1>6, SpendType DEF LoseAddress, TypeOK, Troubles
  <2> QED
    BY <1>6, <2>2, <2>3 DEF LoseAddress, TypeOK
<1>7. ASSUME NEW u \in Users, ImportCredentials(u) PROVE TypeOK'
  <2>1. api.secrets.users[u].pw \in Nat
    BY <1>7, ObjectTypes DEF ImportCredentials, TypeOK, Secret
  <2>2. broker' \in [Users -> Resources]
    BY <1>7, <2>1 DEF ImportCredentials, TypeOK, Resources
  <2> QED
    BY <1>7, <2>2 DEF ImportCredentials, TypeOK
<1> QED
  BY <1>1, <1>2, <1>3, <1>4, <1>5, <1>6, <1>7 DEF Environment

-----------------------------------------------------------------------------
(* The steps of the loop over the users. *)

LEMMA UserInLoopPreserved == TypeOK /\ UserInLoop /\ [Next]_vars => UserInLoop'
<1> SUFFICES ASSUME TypeOK, UserInLoop, [Next]_vars PROVE UserInLoop'
  OBVIOUS
<1>1. CASE UNCHANGED <<pc, local>>
  BY <1>1 DEF UserInLoop
<1>2. CASE pc' \in {"idle", "volume", "address", "rabbitmq", "server", "hash", "patch"}
  BY <1>2 DEF UserInLoop
<1>3. ASSUME NEW u, local'.user = u, pc' = StepFor(u) PROVE UserInLoop'
  BY <1>3 DEF UserInLoop, StepFor
<1>4. NextUser => UserInLoop'
  BY <1>3 DEF NextUser, TypeOK, Locals
<1>5. CASE EnsureRabbitmq
  <2>1. CASE pc' = StepFor(1) /\ local' = [local EXCEPT !.user = 1]
    BY <1>3, <2>1 DEF TypeOK, Locals
  <2>2. CASE Leave(TRUE)
    BY <1>2, <2>2 DEF Leave
  <2> QED
    BY <1>5, <2>1, <2>2 DEF EnsureRabbitmq
<1>6. CASE WriteSecret \/ UseSecret \/ RefuseRole
  <2>1. local'.user = local.user /\ pc' \in {"user", "patch"} /\ pc \in {"secret", "user"}
    BY <1>6 DEF WriteSecret, UseSecret, RefuseRole, Leave, TypeOK, Locals
  <2> QED
    BY <2>1 DEF UserInLoop
<1>7. CASE WriteUser
  BY <1>4, <1>7 DEF WriteUser, Leave, UserInLoop
<1>8. CASE NoInjection \/ Inject
  BY <1>4, <1>8 DEF NoInjection, Inject, Leave, UserInLoop
<1>9. CASE \/ Load \/ EnsurePersistence \/ FindAddress \/ SyncHttpServer
           \/ HashForDevice \/ HashPanics \/ InjectPanics \/ PatchCluster
  BY <1>2, <1>9 DEF Load, EnsurePersistence, FindAddress, SyncHttpServer, HashForDevice,
                    HashPanics, InjectPanics, PatchCluster, GoOn, Leave, Restart
<1>10. CASE (\E k \in Kinds : Sync(k)) \/ Resync \/ Environment \/ UNCHANGED vars
  BY <1>1, <1>10 DEF Sync, Resync, Environment, EditCluster, EditExtra, EditSecret, EditRemote,
                     ImportCredentials, CreateService, AssignAddress, LoseAddress, vars
<1>11. CASE Crash
  BY <1>2, <1>11 DEF Crash, Restart
<1> QED
  BY <1>5, <1>6, <1>7, <1>8, <1>9, <1>10, <1>11 DEF Next, Reconcile

LEMMA TypeInitially == Init => TypeOK /\ UserInLoop
<1> SUFFICES ASSUME Init PROVE TypeOK /\ UserInLoop
  OBVIOUS
<1>1. PICK annotated \in BOOLEAN, unknown \in 0..NUsers,
           remotes \in [Injecting -> {NoRemote, EmptyRemote, NewRemote}] :
        api = [cluster |-> [NewCluster EXCEPT !.annotated = annotated, !.unknown = unknown],
               service |-> NoService,
               secrets |-> [extra |-> 0, users |-> [u \in Users |-> NoSecret],
                            remotes |-> remotes]]
  BY DEF Init
<1>2. api.cluster \in Cluster
  BY <1>1, EmptyTypes DEF Cluster
<1>3. api.secrets \in Secrets
  BY <1>1, EmptyTypes DEF Secrets
<1>4. api \in Objects
  BY <1>1, <1>2, <1>3 DEF Objects
<1>5. broker \in [Users -> Resources]
  BY DEF Init, Resources
<1> QED
  BY <1>4, <1>5, EmptyTypes DEF Init, TypeOK, UserInLoop, Made

LEMMA TypePreserved == TypeOK /\ UserInLoop /\ [Next]_vars => TypeOK'
<1> SUFFICES ASSUME TypeOK, UserInLoop, [Next]_vars PROVE TypeOK'
  OBVIOUS
<1>1. CASE Reconcile
  BY <1>1, BeginType, EnsureRabbitmqType, WriteSecretType, UserType, InjectType, EndType
  DEF Reconcile
<1>2. CASE UNCHANGED vars
  BY <1>2 DEF vars, TypeOK
<1> QED
  BY <1>1, <1>2, ManagerType, EnvironmentType DEF Next

LEMMA LoopInvariant == Spec => [](TypeOK /\ UserInLoop)
<1>1. TypeOK /\ UserInLoop /\ [Next]_vars => (TypeOK /\ UserInLoop)'
  BY TypePreserved, UserInLoopPreserved
<1> QED
  BY TypeInitially, <1>1, PTL DEF Spec

(* Whatever is stale, fails or panics, the objects, the caches and what a   *)
(* reconciliation holds keep their types.                                   *)
THEOREM TypeCorrect == Spec => []TypeOK
  BY LoopInvariant, PTL

-----------------------------------------------------------------------------
(* The hash for devices. *)

Address(service) == IF service = NoService THEN 0 ELSE service.host

(* The newest version of each part that these objects have. *)
Newest(objects) == [topic |-> objects.cluster.topic, host |-> Address(objects.service),
                    extra |-> objects.secrets.extra]

AtMost(older, newer) ==
  older.topic <= newer.topic /\ older.host <= newer.host /\ older.extra <= newer.extra

(* The caches show no more than there is, and all that the stored hash and  *)
(* annotation, and every older copy of them, were made from.                *)
CachesInOrder ==
  /\ AtMost(Newest(cache), Newest(api))
  /\ AtMost(api.cluster.hash, Newest(cache))
  /\ api.cluster.host <= Address(cache.service)
  /\ cache.cluster.host <= Address(cache.service)

AddressKnown == {"rabbitmq", "secret", "user", "inject", "server", "hash"}

(* What the reconciliation has read is not older than what the stored hash  *)
(* was made from, and has been in the caches.                               *)
ReadInOrder ==
  /\ pc # "idle" =>
       /\ api.cluster.hash.topic <= local.cluster.topic
       /\ local.cluster.topic <= cache.cluster.topic
       /\ local.cluster.host <= Address(cache.service)
  /\ pc \in AddressKnown => api.cluster.hash.host <= local.cluster.host

(* A new hash is stored over an older one. *)
NewHashInOrder ==
  pc # "idle" =>
    \/ local.cluster.hash = local.base.hash
    \/ /\ pc = "patch"
       /\ AtMost(api.cluster.hash, local.cluster.hash)
       /\ AtMost(local.cluster.hash, Newest(cache))

HashInv == CachesInOrder /\ ReadInOrder /\ NewHashInOrder

LEMMA NewestTypes ==
  ASSUME NEW objects \in Objects
  PROVE  /\ Newest(objects) \in Hash
         /\ objects.cluster.hash \in Hash
         /\ Address(objects.service) \in Nat
         /\ objects.cluster.host \in Nat /\ objects.cluster.topic \in Nat
<1>1. Address(objects.service) \in Nat
  BY ObjectTypes DEF Address, Service
<1>2. objects.cluster \in Cluster
  BY ObjectTypes
<1> QED
  BY <1>1, <1>2, ObjectTypes DEF Newest, Hash, Cluster

LEMMA LocalTypes ==
  ASSUME TypeOK
  PROVE  /\ local.cluster.hash \in Hash /\ local.base.hash \in Hash
         /\ local.cluster.topic \in Nat /\ local.cluster.host \in Nat
  BY DEF TypeOK, Locals, Cluster

LEMMA AtMostTransitive ==
  ASSUME NEW a \in Hash, NEW b \in Hash, NEW c \in Hash, AtMost(a, b), AtMost(b, c)
  PROVE  AtMost(a, c)
  BY DEF AtMost, Hash

LEMMA AtMostReflexive == ASSUME NEW a \in Hash PROVE AtMost(a, a)
  BY DEF AtMost, Hash

(* The steps between the first read and the hash that change neither the    *)
(* cluster nor what its hash is made from, in the API server or in memory.  *)
HashFrame ==
  /\ pc \notin {"idle", "patch"}
  /\ pc' # "idle"
  /\ pc' \in AddressKnown => pc \in AddressKnown
  /\ api'.cluster = api.cluster /\ Newest(api') = Newest(api)
  /\ cache' = cache
  /\ local'.cluster = local.cluster /\ local'.base = local.base

LEMMA HashFramePreserves == HashInv /\ HashFrame => HashInv'
  BY DEF HashInv, HashFrame, CachesInOrder, ReadInOrder, NewHashInOrder

LEMMA LeaveFrame ==
  ASSUME TypeOK, NEW again, Leave(again)
  PROVE  pc' = "patch" /\ local'.cluster = local.cluster /\ local'.base = local.base
  BY DEF Leave, TypeOK, Locals

LEMMA NextUserFrame ==
  ASSUME TypeOK, NextUser
  PROVE  /\ pc' \in {"secret", "server"}
         /\ local'.cluster = local.cluster /\ local'.base = local.base
  BY DEF NextUser, StepFor, TypeOK, Locals

LEMMA WritesFrame ==
  ASSUME TypeOK,
         \/ EnsurePersistence \/ EnsureRabbitmq \/ WriteSecret \/ UseSecret \/ RefuseRole
         \/ WriteUser \/ NoInjection \/ Inject \/ SyncHttpServer
  PROVE  HashFrame
<1>1. CASE EnsurePersistence \/ SyncHttpServer
  BY <1>1, LeaveFrame
  DEF EnsurePersistence, SyncHttpServer, GoOn, HashFrame, AddressKnown
<1>2. CASE EnsureRabbitmq
  <2>1. api' = api /\ cache' = cache /\ pc = "rabbitmq"
    BY <1>2 DEF EnsureRabbitmq
  <2>2. /\ pc' \in {"secret", "server", "patch"}
        /\ local'.cluster = local.cluster /\ local'.base = local.base
    <3>1. CASE pc' = StepFor(1) /\ local' = [local EXCEPT !.user = 1]
      BY <3>1 DEF StepFor, TypeOK, Locals
    <3>2. CASE Leave(TRUE)
      BY <3>2, LeaveFrame
    <3> QED
      BY <1>2, <3>1, <3>2 DEF EnsureRabbitmq
  <2> QED
    BY <2>1, <2>2 DEF HashFrame, AddressKnown
<1>3. CASE WriteSecret
  <2>1. /\ pc = "secret" /\ cache' = cache
        /\ api'.cluster = api.cluster /\ api'.service = api.service
        /\ api'.secrets.extra = api.secrets.extra
    BY <1>3, ObjectTypes DEF WriteSecret, TypeOK, Objects, Secrets
  <2>2. pc' \in {"user", "patch"} /\ local'.cluster = local.cluster /\ local'.base = local.base
    BY <1>3, LeaveFrame DEF WriteSecret, TypeOK, Locals
  <2> QED
    BY <2>1, <2>2 DEF HashFrame, AddressKnown, Newest
<1>4. CASE UseSecret \/ RefuseRole
  BY <1>4, LeaveFrame DEF UseSecret, RefuseRole, HashFrame, AddressKnown, TypeOK, Locals
<1>5. CASE WriteUser
  BY <1>5, LeaveFrame, NextUserFrame DEF WriteUser, HashFrame, AddressKnown
<1>6. CASE NoInjection
  BY <1>6, LeaveFrame, NextUserFrame DEF NoInjection, HashFrame, AddressKnown
<1>7. CASE Inject
  <2>1. /\ pc = "inject" /\ cache' = cache
        /\ api'.cluster = api.cluster /\ api'.service = api.service
        /\ api'.secrets.extra = api.secrets.extra
    BY <1>7, ObjectTypes DEF Inject, TypeOK, Objects, Secrets
  <2>2. /\ pc' \in {"secret", "server", "patch"}
        /\ local'.cluster = local.cluster /\ local'.base = local.base
    BY <1>7, LeaveFrame, NextUserFrame DEF Inject
  <2> QED
    BY <2>1, <2>2 DEF HashFrame, AddressKnown, Newest
<1> QED
  BY <1>1, <1>2, <1>3, <1>4, <1>5, <1>6, <1>7

LEMMA LoadHash == TypeOK /\ HashInv /\ Load => HashInv'
<1> SUFFICES ASSUME TypeOK, HashInv, Load PROVE HashInv'
  OBVIOUS
<1>1. /\ api' = api /\ cache' = cache /\ pc' = "volume"
      /\ local'.cluster = cache.cluster /\ local'.base = cache.cluster
  BY DEF Load, NoLocal
<1>2. api.cluster.hash.topic <= cache.cluster.topic
  BY DEF HashInv, CachesInOrder, AtMost, Newest
<1>3. ReadInOrder'
  BY <1>1, <1>2, NewestTypes DEF ReadInOrder, AddressKnown, HashInv, CachesInOrder, TypeOK
<1> QED
  BY <1>1, <1>3 DEF HashInv, CachesInOrder, NewHashInOrder

LEMMA FindAddressHash == TypeOK /\ HashInv /\ FindAddress => HashInv'
<1> SUFFICES ASSUME TypeOK, HashInv, FindAddress PROVE HashInv'
  OBVIOUS
<1>1. api' = api /\ cache' = cache /\ pc = "address"
  BY DEF FindAddress
<1>2. CASE Leave(TRUE)
  BY <1>1, <1>2, LeaveFrame, HashFramePreserves DEF HashFrame, AddressKnown
<1>3. CASE ~Leave(TRUE)
  <2>1. /\ pc' = "rabbitmq" /\ local'.base = local.base
        /\ local'.cluster.hash = local.cluster.hash /\ local'.cluster.topic = local.cluster.topic
        /\ \/ cache.service = NoService /\ local'.cluster.host = local.cluster.host
           \/ cache.service # NoService /\ local'.cluster.host = cache.service.host
    <3>1. CASE cache.service = NoService /\ pc' = "rabbitmq" /\ UNCHANGED local
      BY <3>1
    <3>2. CASE /\ cache.service # NoService /\ pc' = "rabbitmq"
               /\ local' = [local EXCEPT !.cluster.host = cache.service.host,
                                         !.cluster.annotated = TRUE]
      <4>1. /\ local'.base = local.base
            /\ local'.cluster = [local.cluster EXCEPT !.host = cache.service.host,
                                                     !.annotated = TRUE]
        BY <3>2 DEF TypeOK, Locals
      <4>2. local.cluster \in Cluster
        BY DEF TypeOK, Locals
      <4> QED
        BY <3>2, <4>1, <4>2 DEF Cluster
    <3> QED
      BY <1>3, <3>1, <3>2 DEF FindAddress
  <2>2. api.cluster.hash.host <= Address(cache.service)
    BY DEF HashInv, CachesInOrder, AtMost, Newest
  <2>3. /\ local'.cluster.host <= Address(cache.service)
        /\ api.cluster.hash.host <= local'.cluster.host
    <3>1. api.cluster.hash.host \in Nat /\ local.cluster.host \in Nat
      BY LocalTypes, NewestTypes DEF TypeOK, Hash
    <3>2. CASE cache.service = NoService
      BY <1>1, <2>1, <2>2, <3>1, <3>2 DEF Address, HashInv, ReadInOrder
    <3>3. CASE cache.service # NoService
      BY <2>1, <2>2, <3>1, <3>3, NewestTypes DEF Address, TypeOK
    <3> QED
      BY <3>2, <3>3
  <2>4. ReadInOrder'
    BY <1>1, <2>1, <2>3 DEF HashInv, ReadInOrder
  <2>5. NewHashInOrder'
    BY <1>1, <2>1 DEF HashInv, NewHashInOrder
  <2> QED
    BY <1>1, <2>4, <2>5 DEF HashInv, CachesInOrder
<1> QED
  BY <1>2, <1>3

LEMMA HashForDeviceHash == TypeOK /\ HashInv /\ HashForDevice => HashInv'
<1> SUFFICES ASSUME TypeOK, HashInv, HashForDevice PROVE HashInv'
  OBVIOUS
<1>1. /\ api' = api /\ cache' = cache /\ pc = "hash" /\ pc' = "patch"
      /\ local'.cluster.hash = [topic |-> local.cluster.topic, host |-> local.cluster.host,
                                extra |-> cache.secrets.extra]
      /\ local'.cluster.topic = local.cluster.topic /\ local'.cluster.host = local.cluster.host
  BY DEF HashForDevice, TypeOK, Locals, Cluster
<1>2. /\ AtMost(api.cluster.hash, local'.cluster.hash)
      /\ AtMost(local'.cluster.hash, Newest(cache))
  <2>1. /\ api.cluster.hash.topic <= local.cluster.topic
        /\ local.cluster.topic <= cache.cluster.topic
        /\ local.cluster.host <= Address(cache.service)
        /\ api.cluster.hash.host <= local.cluster.host
        /\ api.cluster.hash.extra <= cache.secrets.extra
    BY <1>1 DEF HashInv, ReadInOrder, CachesInOrder, AtMost, Newest, AddressKnown
  <2>2. cache.secrets.extra \in Nat
    BY ObjectTypes DEF TypeOK
  <2> QED
    BY <1>1, <2>1, <2>2 DEF AtMost, Newest
<1> QED
  BY <1>1, <1>2 DEF HashInv, CachesInOrder, ReadInOrder, NewHashInOrder, AddressKnown

LEMMA RestartHash ==
  ASSUME TypeOK, HashInv, Restart PROVE HashInv'
<1>1. api' = api /\ cache' = api /\ pc' = "idle"
  BY DEF Restart
<1>2. AtMost(Newest(api), Newest(api)) /\ AtMost(api.cluster.hash, Newest(api))
  BY AtMostReflexive, AtMostTransitive, NewestTypes DEF HashInv, CachesInOrder, TypeOK
<1>3. api.cluster.host <= Address(api.service)
  <2>1. Address(cache.service) <= Address(api.service)
    BY DEF HashInv, CachesInOrder, AtMost, Newest
  <2> QED
    BY <2>1, NewestTypes DEF HashInv, CachesInOrder, TypeOK
<1> QED
  BY <1>1, <1>2, <1>3 DEF HashInv, CachesInOrder, ReadInOrder, NewHashInOrder, AddressKnown

(* What is stored of the cluster: as it is, or a patch that keeps the order. *)
LEMMA PatchClusterHash == TypeOK /\ HashInv /\ PatchCluster => HashInv'
<1> SUFFICES ASSUME TypeOK, HashInv, PatchCluster PROVE HashInv'
  OBVIOUS
<1>1. /\ pc = "patch" /\ cache' = cache /\ pc' = "idle"
      /\ api'.service = api.service /\ api'.secrets = api.secrets
      /\ \/ api'.cluster = api.cluster
         \/ api'.cluster = MergePatch(local.base, local.cluster, api.cluster)
  BY DEF PatchCluster, TypeOK, Objects
<1>2. /\ api'.cluster.topic = api.cluster.topic
      /\ api'.cluster.host \in {api.cluster.host, local.cluster.host}
      /\ \/ api'.cluster.hash = api.cluster.hash
         \/ /\ local.cluster.hash # local.base.hash
            /\ api'.cluster.hash = local.cluster.hash
  <2>1. api.cluster \in Cluster
    BY ObjectTypes DEF TypeOK
  <2> QED
    BY <1>1, <2>1 DEF MergePatch, Cluster
<1>3. AtMost(api'.cluster.hash, Newest(cache))
  BY <1>1, <1>2 DEF HashInv, CachesInOrder, NewHashInOrder
<1>4. api'.cluster.host <= Address(cache.service)
  BY <1>1, <1>2 DEF HashInv, CachesInOrder, ReadInOrder
<1>5. Newest(api') = Newest(api)
  BY <1>1, <1>2 DEF Newest
<1> QED
  BY <1>1, <1>3, <1>4, <1>5
  DEF HashInv, CachesInOrder, ReadInOrder, NewHashInOrder, AddressKnown

LEMMA SyncHash == ASSUME TypeOK, HashInv, NEW k \in Kinds, Sync(k) PROVE HashInv'
<1>1. api' = api /\ pc' = pc /\ local' = local /\ cache' = [cache EXCEPT ![k] = api[k]]
  BY DEF Sync
<1>2. CASE k = "cluster"
  <2>1. cache'.cluster = api.cluster /\ cache'.service = cache.service /\ cache'.secrets = cache.secrets
    BY <1>1, <1>2 DEF TypeOK, Objects
  <2>2. cache.cluster.topic <= api.cluster.topic
    BY DEF HashInv, CachesInOrder, AtMost, Newest
  <2>3. CachesInOrder'
    BY <1>1, <2>1, <2>2, NewestTypes DEF HashInv, CachesInOrder, AtMost, Newest, TypeOK, Hash
  <2>4. ReadInOrder'
    BY <1>1, <2>1, <2>2, NewestTypes, LocalTypes DEF HashInv, ReadInOrder, TypeOK
  <2>5. NewHashInOrder'
    BY <1>1, <2>1, <2>2, NewestTypes, LocalTypes
    DEF HashInv, NewHashInOrder, AtMost, Newest, TypeOK, Hash
  <2> QED
    BY <2>3, <2>4, <2>5 DEF HashInv
<1>3. CASE k = "service"
  <2>1. cache'.cluster = cache.cluster /\ cache'.service = api.service /\ cache'.secrets = cache.secrets
    BY <1>1, <1>3 DEF TypeOK, Objects
  <2>2. Address(cache.service) <= Address(api.service)
    BY DEF HashInv, CachesInOrder, AtMost, Newest
  <2>3. CachesInOrder'
    BY <1>1, <2>1, <2>2, NewestTypes DEF HashInv, CachesInOrder, AtMost, Newest, TypeOK, Hash
  <2>4. ReadInOrder'
    BY <1>1, <2>1, <2>2, NewestTypes, LocalTypes DEF HashInv, ReadInOrder, TypeOK
  <2>5. NewHashInOrder'
    BY <1>1, <2>1, <2>2, NewestTypes, LocalTypes
    DEF HashInv, NewHashInOrder, AtMost, Newest, TypeOK, Hash
  <2> QED
    BY <2>3, <2>4, <2>5 DEF HashInv
<1>4. CASE k = "secrets"
  <2>1. cache'.cluster = cache.cluster /\ cache'.service = cache.service /\ cache'.secrets = api.secrets
    BY <1>1, <1>4 DEF TypeOK, Objects
  <2>2. cache.secrets.extra <= api.secrets.extra
    BY DEF HashInv, CachesInOrder, AtMost, Newest
  <2>3. /\ api.secrets.extra \in Nat /\ cache.secrets.extra \in Nat
        /\ api.cluster.hash \in Hash
    BY ObjectTypes, NewestTypes DEF TypeOK
  <2>4. CachesInOrder'
    BY <1>1, <2>1, <2>2, <2>3 DEF HashInv, CachesInOrder, AtMost, Newest, Hash
  <2>5. NewHashInOrder'
    BY <1>1, <2>1, <2>2, <2>3, LocalTypes DEF HashInv, NewHashInOrder, AtMost, Newest, Hash
  <2> QED
    BY <1>1, <2>1, <2>4, <2>5 DEF HashInv, ReadInOrder
<1> QED
  BY <1>2, <1>3, <1>4 DEF Kinds

(* The others only add to what the hash is made from. *)
OthersFrame ==
  /\ UNCHANGED <<cache, pc, local>>
  /\ api'.cluster.hash = api.cluster.hash /\ api'.cluster.host = api.cluster.host
  /\ AtMost(Newest(api), Newest(api'))

LEMMA OthersFramePreserves ==
  ASSUME TypeOK, TypeOK', HashInv, OthersFrame PROVE HashInv'
<1>1. AtMost(Newest(cache), Newest(api'))
  BY AtMostTransitive, NewestTypes DEF HashInv, CachesInOrder, OthersFrame, TypeOK
<1> QED
  BY <1>1 DEF HashInv, CachesInOrder, ReadInOrder, NewHashInOrder, OthersFrame

LEMMA EnvironmentFrame ==
  ASSUME TypeOK, Environment PROVE OthersFrame
<1>1. /\ Newest(api) \in Hash /\ api.cluster \in Cluster /\ api.secrets \in Secrets
      /\ Address(api.service) \in Nat
  BY ObjectTypes, NewestTypes DEF TypeOK
<1>2. CASE EditCluster
  <2>1. PICK unknown \in 0..NUsers :
          api' = [api EXCEPT !.cluster.topic = @ + 1, !.cluster.unknown = unknown]
    BY <1>2 DEF EditCluster
  <2>2. api'.cluster = [api.cluster EXCEPT !.topic = @ + 1, !.unknown = unknown]
    BY <2>1 DEF TypeOK, Objects
  <2>3. api'.service = api.service /\ api'.secrets = api.secrets
    BY <2>1 DEF TypeOK, Objects
  <2>4. /\ api'.cluster.topic = api.cluster.topic + 1
        /\ api'.cluster.hash = api.cluster.hash /\ api'.cluster.host = api.cluster.host
    BY <1>1, <2>2 DEF Cluster
  <2>5. AtMost(Newest(api), Newest(api'))
    BY <1>1, <2>3, <2>4 DEF AtMost, Newest, Cluster, Secrets
  <2> QED
    BY <1>2, <2>4, <2>5 DEF EditCluster, OthersFrame
<1>3. CASE EditExtra
  <2>1. /\ api'.cluster = api.cluster /\ api'.service = api.service
        /\ api'.secrets.extra = api.secrets.extra + 1
    BY <1>1, <1>3 DEF EditExtra, TypeOK, Objects, Secrets
  <2>2. AtMost(Newest(api), Newest(api'))
    BY <1>1, <2>1 DEF AtMost, Newest, Cluster, Secrets
  <2> QED
    BY <1>3, <2>1, <2>2 DEF EditExtra, OthersFrame
<1>4. CASE \/ \E u \in Users : EditSecret(u) \/ ImportCredentials(u)
           \/ \E u \in Injecting : EditRemote(u)
  <2>1. /\ api'.cluster = api.cluster /\ api'.service = api.service
        /\ api'.secrets.extra = api.secrets.extra
        /\ UNCHANGED <<cache, pc, local>>
    BY <1>1, <1>4 DEF EditSecret, ImportCredentials, EditRemote, TypeOK, Objects, Secrets
  <2>2. Newest(api') = Newest(api)
    BY <2>1 DEF Newest
  <2> QED
    BY <1>1, <2>1, <2>2, AtMostReflexive DEF OthersFrame
<1>5. CASE CreateService \/ AssignAddress \/ LoseAddress
  <2>1. /\ api'.cluster = api.cluster /\ api'.secrets = api.secrets
        /\ UNCHANGED <<cache, pc, local>>
    BY <1>5 DEF CreateService, AssignAddress, LoseAddress, TypeOK, Objects
  <2>2. Address(api.service) <= Address(api'.service)
    <3>1. CASE CreateService
      <4>1. [host |-> 0, ready |-> FALSE] \in Service
        BY DEF Service
      <4>2. api'.service = [host |-> 0, ready |-> FALSE]
        BY <3>1 DEF CreateService, TypeOK, Objects
      <4>3. Address(api'.service) = 0
        BY <4>1, <4>2, AbsentAssumption DEF Address
      <4>4. Address(api.service) = 0
        BY <3>1 DEF CreateService, Address
      <4> QED
        BY <4>3, <4>4
    <3>2. CASE AssignAddress
      <4>1. api.service \in Service /\ api.service.host \in Nat
        BY <3>2, ObjectTypes DEF AssignAddress, TypeOK, Service
      <4>2. api'.service = [host |-> api.service.host + 1, ready |-> TRUE]
        BY <3>2 DEF AssignAddress, TypeOK, Objects
      <4>3. api'.service \in Service
        BY <4>1, <4>2 DEF Service
      <4>4. Address(api'.service) = api.service.host + 1
        <5>1. api'.service # NoService
          BY <4>3, AbsentAssumption
        <5>2. Address(api'.service) = api'.service.host
          BY <5>1 DEF Address
        <5> QED
          BY <4>2, <5>2
      <4>5. Address(api.service) = api.service.host
        BY <3>2 DEF AssignAddress, Address
      <4> QED
        BY <4>1, <4>4, <4>5
    <3>3. CASE LoseAddress
      <4>1. api.service \in Service /\ api.service.host \in Nat
        BY <3>3, ObjectTypes DEF LoseAddress, TypeOK, Service
      <4>2. api'.service = [api.service EXCEPT !.ready = FALSE]
        BY <3>3 DEF LoseAddress, TypeOK, Objects
      <4>3. api'.service \in Service /\ api'.service.host = api.service.host
        BY <4>1, <4>2 DEF Service
      <4> QED
        BY <4>1, <4>3, AbsentAssumption DEF Address
    <3> QED
      BY <1>5, <3>1, <3>2, <3>3
  <2>3. AtMost(Newest(api), Newest(api'))
    BY <1>1, <2>1, <2>2 DEF AtMost, Newest, Cluster, Secrets
  <2> QED
    BY <2>1, <2>3 DEF OthersFrame
<1> QED
  BY <1>2, <1>3, <1>4, <1>5 DEF Environment

LEMMA HashInvPreserved == TypeOK /\ TypeOK' /\ HashInv /\ [Next]_vars => HashInv'
<1> SUFFICES ASSUME TypeOK, TypeOK', HashInv, [Next]_vars PROVE HashInv'
  OBVIOUS
<1>1. CASE Reconcile
  <2>1. CASE Load \/ FindAddress \/ HashForDevice \/ PatchCluster
    BY <2>1, LoadHash, FindAddressHash, HashForDeviceHash, PatchClusterHash
  <2>2. CASE InjectPanics \/ HashPanics
    BY <2>2, RestartHash DEF InjectPanics, HashPanics
  <2>3. CASE ~(Load \/ FindAddress \/ HashForDevice \/ PatchCluster \/ InjectPanics \/ HashPanics)
    BY <1>1, <2>3, WritesFrame, HashFramePreserves DEF Reconcile
  <2> QED
    BY <2>1, <2>2, <2>3
<1>2. CASE Environment
  BY <1>2, EnvironmentFrame, OthersFramePreserves
<1>3. CASE Resync \/ UNCHANGED vars
  BY <1>3 DEF Resync, vars, HashInv, CachesInOrder, ReadInOrder, NewHashInOrder
<1>4. CASE (\E k \in Kinds : Sync(k)) \/ Crash
  BY <1>4, SyncHash, RestartHash DEF Crash
<1> QED
  BY <1>1, <1>2, <1>3, <1>4 DEF Next

LEMMA InitParts ==
  Init => /\ api.cluster.topic = 1 /\ api.cluster.host = 0 /\ api.cluster.hash = NoHash
          /\ api.service = NoService /\ api.secrets.extra = 0
          /\ cache = api /\ pc = "idle"
<1> SUFFICES ASSUME Init
             PROVE  /\ api.cluster.topic = 1 /\ api.cluster.host = 0 /\ api.cluster.hash = NoHash
                    /\ api.service = NoService /\ api.secrets.extra = 0
                    /\ cache = api /\ pc = "idle"
  OBVIOUS
<1>1. PICK annotated \in BOOLEAN, unknown \in 0..NUsers,
           remotes \in [Injecting -> {NoRemote, EmptyRemote, NewRemote}] :
        api = [cluster |-> [NewCluster EXCEPT !.annotated = annotated, !.unknown = unknown],
               service |-> NoService,
               secrets |-> [extra |-> 0, users |-> [u \in Users |-> NoSecret],
                            remotes |-> remotes]]
  BY DEF Init
<1>2. cache = api /\ pc = "idle"
  BY DEF Init
<1> QED
  BY <1>1, <1>2 DEF NewCluster

LEMMA HashInvInitially == Init => HashInv
<1> SUFFICES ASSUME Init PROVE HashInv
  OBVIOUS
<1>1. /\ api.cluster.topic = 1 /\ api.cluster.host = 0 /\ api.cluster.hash = NoHash
      /\ api.service = NoService /\ api.secrets.extra = 0
      /\ cache = api /\ pc = "idle"
  BY InitParts
<1> QED
  BY <1>1 DEF HashInv, CachesInOrder, ReadInOrder, NewHashInOrder, AtMost, Newest, Address,
              NoHash, AddressKnown

LEMMA HashInvariant == Spec => []HashInv
<1>1. TypeOK /\ TypeOK' /\ HashInv /\ [Next]_vars => HashInv'
  BY HashInvPreserved
<1> QED
  BY TypeCorrect, HashInvInitially, <1>1, PTL DEF Spec

-----------------------------------------------------------------------------
(* The theorems. *)

LEMMA HashesInit == Init => Hashes!Init
<1> SUFFICES ASSUME Init PROVE Hashes!Init
  OBVIOUS
<1>1. /\ api.cluster.topic = 1 /\ api.cluster.hash = NoHash
      /\ api.service = NoService /\ api.secrets.extra = 0
  BY InitParts
<1> QED
  BY <1>1 DEF Hashes!Init, NoHash, Parts

LEMMA NewestMapped ==
  [topic |-> api.cluster.topic, extra |-> api.secrets.extra,
   host |-> IF api.service = NoService THEN 0 ELSE api.service.host] = Newest(api)
  BY DEF Newest, Address

(* A step of the others is an edit, a patch with a new hash stores it, and  *)
(* every other step leaves both alone.                                      *)
LEMMA HashesStep ==
  ASSUME TypeOK, HashInv, [Next]_vars
  PROVE  [Hashes!Edit \/ Hashes!Hash]_(Hashes!vars)
<1>1. ASSUME api'.cluster.hash = api.cluster.hash, Newest(api') = Newest(api)
      PROVE  UNCHANGED Hashes!vars
  BY <1>1, NewestMapped DEF Hashes!vars, Newest, Address
<1>2. CASE Environment
  <2>1. api'.cluster.hash = api.cluster.hash /\ AtMost(Newest(api), Newest(api'))
    BY <1>2, EnvironmentFrame DEF OthersFrame
  <2> QED
    BY <2>1 DEF Hashes!Edit, AtMost, Newest, Address, Parts
<1>3. CASE PatchCluster
  <2>1. api'.service = api.service /\ api'.secrets = api.secrets
    BY <1>3 DEF PatchCluster, TypeOK, Objects
  <2>2. /\ api'.cluster.topic = api.cluster.topic
        /\ \/ api'.cluster.hash = api.cluster.hash
           \/ /\ local.cluster.hash # local.base.hash
              /\ api'.cluster.hash = local.cluster.hash
    <3>1. api.cluster \in Cluster
      BY ObjectTypes DEF TypeOK
    <3>2. \/ api'.cluster = api.cluster
          \/ api'.cluster = MergePatch(local.base, local.cluster, api.cluster)
      BY <1>3 DEF PatchCluster, TypeOK, Objects
    <3> QED
      BY <3>1, <3>2 DEF MergePatch, Cluster
  <2>3. CASE api'.cluster.hash = api.cluster.hash
    BY <1>1, <2>1, <2>2, <2>3 DEF Newest
  <2>4. CASE local.cluster.hash # local.base.hash /\ api'.cluster.hash = local.cluster.hash
    <3>1. /\ AtMost(api.cluster.hash, api'.cluster.hash)
          /\ AtMost(api'.cluster.hash, Newest(api))
      BY <1>3, <2>4, AtMostTransitive, NewestTypes, LocalTypes
      DEF PatchCluster, HashInv, NewHashInOrder, CachesInOrder, TypeOK
    <3>2. /\ api.cluster.hash \in Hash /\ api'.cluster.hash \in Hash /\ Newest(api) \in Hash
      BY <2>4, NewestTypes, LocalTypes DEF TypeOK
    <3>3. Hashes!Hash
      BY <2>1, <2>2, <3>1, <3>2 DEF Hashes!Hash, AtMost, Newest, Address, Parts, Hash
    <3> QED
      BY <3>3
  <2> QED
    BY <2>2, <2>3, <2>4
<1>4. CASE \/ Load \/ FindAddress \/ HashForDevice \/ InjectPanics \/ HashPanics
           \/ (\E k \in Kinds : Sync(k)) \/ Resync \/ Crash \/ UNCHANGED vars
  <2>1. api' = api
    BY <1>4 DEF Load, FindAddress, HashForDevice, InjectPanics, HashPanics, Restart, Sync,
                Resync, Crash, vars
  <2> QED
    BY <1>1, <2>1
<1> QED
  BY <1>1, <1>2, <1>3, <1>4, WritesFrame DEF Next, Reconcile, HashFrame

(* The hash for devices is never ahead of the topic, the address and the    *)
(* extra Secret, and no part of it ever goes back, under every lag of the   *)
(* informers, through every failure, panic and lost answer: what            *)
(* DeviceController takes for granted of a parent.                          *)
THEOREM ParentHashImplemented == Spec => ImplementsParentHash
  BY TypeCorrect, HashInvariant, HashesInit, HashesStep, PTL
  DEF Spec, ImplementsParentHash, Hashes!Spec

(* A password that a user's Secret has is changed by nobody but users: the  *)
(* Update of the operator names the copy without a password that it has     *)
(* seen.                                                                    *)
THEOREM PasswordsKeptHolds == Spec => PasswordsKept
<1> DEFINE Kept == \A u \in Users :
        LET before == api.secrets.users[u]
            after  == api'.secrets.users[u]
        IN  /\ before # NoSecret /\ before.pw # 0
            /\ after = NoSecret \/ after.pw # before.pw
            => spent'["edits"] > spent["edits"]
<1>1. ASSUME TypeOK, UserInLoop, [Next]_vars PROVE Kept
  <2>1. CASE api'.secrets.users = api.secrets.users
    BY <2>1
  <2>2. CASE WriteSecret
    <3>1. /\ api'.secrets.users = api.secrets.users
          \/ /\ api.secrets.users[local.user] = cache.secrets.users[local.user]
             /\ \A u \in Users \ {local.user} : api'.secrets.users[u] = api.secrets.users[u]
      <4>1. PICK outcome \in Outcomes :
              /\ Answer(api.secrets.users[local.user] = cache.secrets.users[local.user], outcome)
              /\ IF outcome = "refused"
                   THEN UNCHANGED <<api, issued>>
                   ELSE api' = [api EXCEPT !.secrets.users[local.user] =
                                  [pw |-> issued + 1, rv |-> issued + 1]]
        BY <2>2 DEF WriteSecret
      <4>2. CASE outcome = "refused"
        BY <4>1, <4>2
      <4>3. CASE outcome # "refused"
        <5>1. api.secrets.users[local.user] = cache.secrets.users[local.user]
          BY <4>1, <4>3 DEF Answer
        <5>2. \A u \in Users \ {local.user} : api'.secrets.users[u] = api.secrets.users[u]
          BY <1>1, <4>1, <4>3, ObjectTypes DEF TypeOK, Objects, Secrets
        <5> QED
          BY <5>1, <5>2
      <4> QED
        BY <4>2, <4>3
    <3>2. api.secrets.users[local.user] = cache.secrets.users[local.user] =>
            api.secrets.users[local.user] = NoSecret \/ api.secrets.users[local.user].pw = 0
      BY <2>2 DEF WriteSecret
    <3> QED
      BY <3>1, <3>2
  <2>3. ASSUME NEW u \in Users, EditSecret(u) PROVE Kept
    <3>1. spent'["edits"] > spent["edits"]
      BY <1>1, <2>3 DEF EditSecret, Spend, TypeOK, Troubles
    <3> QED
      BY <3>1
  <2>4. CASE \/ Inject \/ PatchCluster
             \/ EditCluster \/ EditExtra \/ CreateService \/ AssignAddress \/ LoseAddress
             \/ \E u \in Injecting : EditRemote(u)
    <3>1. api \in Objects /\ api.secrets \in Secrets
      BY <1>1, ObjectTypes DEF TypeOK
    <3>2. CASE Inject
      BY <2>1, <3>1, <3>2 DEF Inject, Objects, Secrets
    <3>3. CASE PatchCluster
      BY <2>1, <3>1, <3>3 DEF PatchCluster, Objects
    <3>4. CASE EditCluster \/ EditExtra
      BY <2>1, <3>1, <3>4 DEF EditCluster, EditExtra, Objects, Secrets
    <3>5. CASE CreateService \/ AssignAddress \/ LoseAddress
      BY <2>1, <3>1, <3>5 DEF CreateService, AssignAddress, LoseAddress, Objects
    <3>6. ASSUME NEW u \in Injecting, EditRemote(u) PROVE Kept
      BY <2>1, <3>1, <3>6 DEF EditRemote, Objects, Secrets
    <3> QED
      BY <2>4, <3>2, <3>3, <3>4, <3>5, <3>6
  <2>5. CASE api' = api
    BY <2>1, <2>5
  <2>6. CASE \/ Load \/ EnsurePersistence \/ FindAddress \/ EnsureRabbitmq \/ UseSecret
             \/ RefuseRole \/ WriteUser \/ NoInjection \/ InjectPanics \/ SyncHttpServer
             \/ HashForDevice \/ HashPanics
    BY <2>5, <2>6 DEF Load, EnsurePersistence, FindAddress, EnsureRabbitmq, UseSecret,
        RefuseRole, WriteUser, NoInjection, InjectPanics, SyncHttpServer, HashForDevice,
        HashPanics, Restart
  <2>7. CASE \/ (\E k \in Kinds : Sync(k)) \/ Resync \/ Crash \/ UNCHANGED vars
             \/ \E u \in Users : ImportCredentials(u)
    BY <2>5, <2>7 DEF Sync, Resync, Crash, Restart, ImportCredentials, vars
  <2> QED
    BY <1>1, <2>2, <2>3, <2>4, <2>6, <2>7 DEF Next, Reconcile, Environment
<1>2. ASSUME TypeOK, UserInLoop, [Next]_vars PROVE [Kept]_vars
  BY <1>1, <1>2
<1> QED
  BY LoopInvariant, <1>2, PTL DEF Spec, PasswordsKept

-----------------------------------------------------------------------------
(* When the operator has nothing left to do for the cluster, everything is  *)
(* as it should be.                                                         *)

(* A reconciliation that has met no error so far has done what is before    *)
(* its present step, ... *)
Working == pc # "idle" /\ ~(pc = "patch" /\ local.again)

AllMade == [volume |-> TRUE, rabbitmq |-> 3, server |-> TRUE]

WorkDone ==
  Working =>
    /\ local.cluster.topic = local.base.topic
    /\ pc # "volume" => made.volume
    /\ pc \notin {"volume", "address", "rabbitmq"} => made.rabbitmq = 3
    /\ pc \in {"hash", "patch"} => made.server
    /\ pc \in {"secret", "user", "inject"} =>
         \A u \in Users : u < local.user => broker[u].topic = local.base.topic
    /\ pc = "inject" => broker[local.user].topic = local.base.topic
    /\ pc \in {"server", "hash", "patch"} =>
         \A u \in Users : broker[u].topic = local.base.topic

(* ... from copies that, unless it is already to be done again, are those   *)
(* that the caches have now.                                                *)
AddressCopied(cluster) ==
  IF cache.service = NoService THEN cluster.host = local.base.host
  ELSE cache.service.ready /\ cluster.host = cache.service.host

CopiesPresent ==
  Working /\ ~queued =>
    /\ local.base = cache.cluster
    /\ pc = "address" => local.cluster.host = local.base.host
    /\ pc = "volume" => local.cluster.host = local.base.host
    /\ pc \notin {"volume", "address"} => AddressCopied(local.cluster)
    /\ pc = "patch" => local.cluster.hash = [topic |-> local.base.topic,
                         host |-> local.cluster.host, extra |-> cache.secrets.extra]

(* What is left when it has ended well. *)
Settled ==
  pc = "idle" /\ ~queued =>
    /\ made = AllMade
    /\ \A u \in Users : broker[u].topic = cache.cluster.topic
    /\ cache.service # NoService => cache.service.ready
    /\ cache.cluster = api.cluster =>
         /\ cache.service # NoService => api.cluster.host = cache.service.host
         /\ api.cluster.hash = [topic |-> cache.cluster.topic, host |-> cache.cluster.host,
                                extra |-> cache.secrets.extra]

SettledInv == WorkDone /\ CopiesPresent /\ Settled

LEMMA PartTypes ==
  ASSUME TypeOK
  PROVE  /\ local \in Locals /\ local.cluster \in Cluster /\ local.base \in Cluster
         /\ made \in Made /\ broker \in [Users -> Resources]
         /\ cache \in Objects /\ api \in Objects
         /\ cache.cluster \in Cluster /\ api.cluster \in Cluster
         /\ local.again \in BOOLEAN /\ queued \in BOOLEAN
         /\ Users \subseteq Nat /\ local.user \in Nat
  BY ObjectTypes, UsersAssumption DEF TypeOK, Locals, Users

-----------------------------------------------------------------------------
(* The steps of a reconciliation. *)

(* After an error nothing is claimed: the key will be queued again.         *)
LEMMA GivenUp ==
  ASSUME TypeOK, Leave(TRUE)
  PROVE  SettledInv'
<1>1. pc' = "patch" /\ local'.again = TRUE
  BY DEF Leave, TypeOK, Locals
<1> QED
  BY <1>1 DEF SettledInv, WorkDone, CopiesPresent, Settled, Working

(* A step that reads and computes nothing keeps to the copies it has.       *)
LEMMA CopiesKept ==
  ASSUME SettledInv, pc \notin {"idle", "patch"}, pc' \notin {"idle", "patch"},
         pc \in {"volume", "address"} <=> pc' \in {"volume", "address"},
         cache' = cache, queued' = queued,
         local'.cluster = local.cluster, local'.base = local.base
  PROVE  CopiesPresent' /\ Settled'
  BY DEF SettledInv, CopiesPresent, Settled, Working, AddressCopied

LEMMA BeginSettled ==
  ASSUME TypeOK, SettledInv, Load \/ EnsurePersistence
  PROVE  SettledInv'
<1>1. CASE Load
  <2>1. /\ pc' = "volume" /\ queued' = FALSE /\ cache' = cache
        /\ local'.cluster = cache.cluster /\ local'.base = cache.cluster
    BY <1>1 DEF Load, NoLocal
  <2> QED
    BY <2>1 DEF SettledInv, WorkDone, CopiesPresent, Settled, Working
<1>2. CASE EnsurePersistence
  <2>1. PICK outcome \in Outcomes :
          /\ made' = IF outcome = "refused" THEN made ELSE [made EXCEPT !.volume = TRUE]
          /\ GoOn(outcome, "address")
    BY <1>2 DEF EnsurePersistence
  <2>2. pc = "volume" /\ cache' = cache /\ queued' = queued /\ broker' = broker
    BY <1>2 DEF EnsurePersistence
  <2>3. CASE outcome = "done"
    <3>1. pc' = "address" /\ local' = local /\ made'.volume = TRUE
      BY <2>1, <2>3, PartTypes DEF GoOn, Made
    <3>2. CopiesPresent' /\ Settled'
      BY <2>2, <3>1, CopiesKept
    <3>3. WorkDone'
      BY <2>2, <3>1 DEF SettledInv, WorkDone, Working
    <3> QED
      BY <3>2, <3>3 DEF SettledInv
  <2>4. CASE outcome # "done"
    BY <2>1, <2>4, GivenUp DEF GoOn
  <2> QED
    BY <2>3, <2>4
<1> QED
  BY <1>1, <1>2

LEMMA FindAddressSettled ==
  ASSUME TypeOK, SettledInv, FindAddress
  PROVE  SettledInv'
<1>1. /\ pc = "address" /\ cache' = cache /\ queued' = queued
      /\ made' = made /\ broker' = broker
  BY DEF FindAddress
<1>2. CASE Leave(TRUE)
  BY <1>2, GivenUp
<1>3. CASE ~Leave(TRUE)
  <2>1. /\ pc' = "rabbitmq" /\ local'.base = local.base
        /\ local'.cluster.topic = local.cluster.topic
        /\ \/ cache.service = NoService /\ local'.cluster.host = local.cluster.host
           \/ /\ cache.service # NoService /\ cache.service.ready
              /\ local'.cluster.host = cache.service.host
    <3>1. CASE cache.service = NoService /\ pc' = "rabbitmq" /\ UNCHANGED local
      BY <3>1
    <3>2. CASE /\ cache.service # NoService /\ cache.service.ready /\ pc' = "rabbitmq"
               /\ local' = [local EXCEPT !.cluster.host = cache.service.host,
                                         !.cluster.annotated = TRUE]
      <4>1. /\ local'.base = local.base
            /\ local'.cluster = [local.cluster EXCEPT !.host = cache.service.host,
                                                     !.annotated = TRUE]
        BY <3>2 DEF TypeOK, Locals
      <4>2. /\ local'.cluster.topic = local.cluster.topic
            /\ local'.cluster.host = cache.service.host
        BY <4>1, PartTypes DEF Cluster
      <4> QED
        BY <3>2, <4>1, <4>2
    <3> QED
      BY <1>3, <3>1, <3>2 DEF FindAddress
  <2>2. WorkDone'
    BY <1>1, <2>1 DEF SettledInv, WorkDone, Working
  <2>3. CopiesPresent' /\ Settled'
    BY <1>1, <2>1 DEF SettledInv, CopiesPresent, Settled, Working, AddressCopied
  <2> QED
    BY <2>2, <2>3 DEF SettledInv
<1> QED
  BY <1>2, <1>3

LEMMA EnsureRabbitmqSettled ==
  ASSUME TypeOK, SettledInv, EnsureRabbitmq
  PROVE  SettledInv'
<1>1. PICK k \in 0..3, ok \in BOOLEAN :
        /\ ok => k = 3
        /\ made' = [made EXCEPT !.rabbitmq = IF k > @ THEN k ELSE @]
        /\ IF ok THEN pc' = StepFor(1) /\ local' = [local EXCEPT !.user = 1] ELSE Leave(TRUE)
  BY DEF EnsureRabbitmq
<1>2. pc = "rabbitmq" /\ cache' = cache /\ queued' = queued /\ broker' = broker
  BY DEF EnsureRabbitmq
<1>3. CASE ok
  <2>1. made'.rabbitmq = 3 /\ made'.volume = made.volume
    BY <1>1, <1>3, PartTypes DEF Made
  <2>2. /\ pc' \in {"secret", "server"} /\ (pc' = "server" => 1 \notin Users)
        /\ local'.user = 1 /\ local'.cluster = local.cluster /\ local'.base = local.base
    BY <1>1, <1>3, PartTypes DEF StepFor, Locals
  <2>3. CopiesPresent' /\ Settled'
    BY <1>2, <2>2, CopiesKept
  <2>4. \A u \in Users : ~(u < 1) /\ 1 \in Users
    BY UsersAssumption DEF Users
  <2>5. WorkDone'
    BY <1>2, <2>1, <2>2, <2>4 DEF SettledInv, WorkDone, Working
  <2> QED
    BY <2>3, <2>5 DEF SettledInv
<1>4. CASE ~ok
  BY <1>1, <1>4, GivenUp
<1> QED
  BY <1>3, <1>4

LEMMA SecretSettled ==
  ASSUME TypeOK, SettledInv, WriteSecret \/ UseSecret \/ RefuseRole
  PROVE  SettledInv'
<1>1. CASE Leave(TRUE)
  BY <1>1, GivenUp
<1>2. CASE ~Leave(TRUE)
  <2>1. /\ pc = "secret" /\ pc' = "user"
        /\ UNCHANGED <<cache, queued, made, broker>>
        /\ local'.user = local.user
        /\ local'.cluster = local.cluster /\ local'.base = local.base
    <3>1. CASE WriteSecret
      BY <1>2, <3>1, PartTypes DEF WriteSecret, Locals
    <3>2. CASE UseSecret
      BY <3>2, PartTypes DEF UseSecret, Locals
    <3>3. ~RefuseRole
      BY <1>2 DEF RefuseRole
    <3> QED
      BY <3>1, <3>2, <3>3
  <2>2. CopiesPresent' /\ Settled'
    BY <2>1, CopiesKept
  <2>3. WorkDone'
    BY <2>1 DEF SettledInv, WorkDone, Working
  <2> QED
    BY <2>2, <2>3 DEF SettledInv
<1> QED
  BY <1>1, <1>2

(* On to the next user, or out of the loop when all of them have theirs.    *)
LEMMA NextUserSettled ==
  ASSUME TypeOK, UserInLoop, SettledInv, NextUser, pc \in {"user", "inject"},
         made' = made, cache' = cache, queued' = queued,
         \A u \in Users : u < local.user => broker'[u].topic = broker[u].topic,
         broker'[local.user].topic = local.base.topic
  PROVE  SettledInv'
<1>1. /\ pc' = StepFor(local.user + 1) /\ local'.user = local.user + 1
      /\ local'.cluster = local.cluster /\ local'.base = local.base
  BY PartTypes DEF NextUser, Locals
<1>2. local.user \in Users
  BY UsersAssumption DEF UserInLoop
<1>3. \A u \in Users : u < local.user => broker[u].topic = local.base.topic
  BY DEF SettledInv, WorkDone, Working
<1>4. \A u \in Users : u < local.user + 1 => broker'[u].topic = local.base.topic
  <2>1. \A u \in Users : u < local.user + 1 => u < local.user \/ u = local.user
    BY PartTypes
  <2> QED
    BY <1>3, <2>1
<1>5. pc' \in {"secret", "server"}
  BY <1>1 DEF StepFor
<1>6. ASSUME pc' = "server" PROVE \A u \in Users : broker'[u].topic = local.base.topic
  <2>1. local.user + 1 \notin Users
    BY <1>1, <1>6 DEF StepFor
  <2>2. \A u \in Users : u < local.user + 1
    BY <1>2, <2>1, UsersAssumption DEF Users
  <2> QED
    BY <1>4, <2>2
<1>7. CopiesPresent' /\ Settled'
  BY <1>1, <1>5, CopiesKept
<1>8. WorkDone'
  BY <1>1, <1>4, <1>5, <1>6 DEF SettledInv, WorkDone, Working
<1> QED
  BY <1>7, <1>8 DEF SettledInv

LEMMA WriteUserSettled ==
  ASSUME TypeOK, UserInLoop, SettledInv, WriteUser
  PROVE  SettledInv'
<1>1. PICK k \in 0..3, ok \in BOOLEAN :
        /\ ok => k = 3
        /\ broker' = [broker EXCEPT
             ![local.user].stamp = IF k > 0 THEN local.secret.rv ELSE @,
             ![local.user].topic = IF k = 3 THEN local.cluster.topic ELSE @]
        /\ IF ok THEN IF local.user \in Injecting THEN pc' = "inject" /\ UNCHANGED local
                                                  ELSE NextUser
                 ELSE Leave(TRUE)
  BY DEF WriteUser
<1>2. pc = "user" /\ UNCHANGED <<cache, queued, made>>
  BY DEF WriteUser
<1>3. CASE ok
  <2>1. local.user \in Users /\ local.cluster.topic = local.base.topic
    BY <1>2 DEF UserInLoop, SettledInv, WorkDone, Working
  <2>2. broker'[local.user].topic = local.base.topic
    BY <1>1, <1>3, <2>1, PartTypes DEF Resources
  <2>3. \A u \in Users : u < local.user => broker'[u].topic = broker[u].topic
    BY <1>1, <1>3, <2>1, PartTypes DEF Resources
  <2>4. CASE pc' = "inject" /\ UNCHANGED local
    <3>1. CopiesPresent' /\ Settled'
      BY <1>2, <2>4, CopiesKept
    <3>2. WorkDone'
      BY <1>2, <2>2, <2>3, <2>4 DEF SettledInv, WorkDone, Working
    <3> QED
      BY <3>1, <3>2 DEF SettledInv
  <2>5. CASE NextUser
    BY <1>2, <2>2, <2>3, <2>5, NextUserSettled
  <2> QED
    BY <1>1, <1>3, <2>4, <2>5
<1>4. CASE ~ok
  BY <1>1, <1>4, GivenUp
<1> QED
  BY <1>3, <1>4

LEMMA InjectSettled ==
  ASSUME TypeOK, UserInLoop, SettledInv, NoInjection \/ Inject
  PROVE  SettledInv'
<1>1. pc = "inject" /\ UNCHANGED <<cache, queued, made, broker>>
  BY DEF NoInjection, Inject
<1>2. Leave(TRUE) \/ NextUser
  BY DEF NoInjection, Inject
<1>3. CASE NextUser
  <2>1. broker[local.user].topic = local.base.topic
    BY <1>1 DEF SettledInv, WorkDone, Working
  <2> QED
    BY <1>1, <1>3, <2>1, NextUserSettled
<1> QED
  BY <1>2, <1>3, GivenUp

LEMMA EndSettled ==
  ASSUME TypeOK, SettledInv, SyncHttpServer \/ HashForDevice
  PROVE  SettledInv'
<1>1. CASE SyncHttpServer
  <2>1. PICK outcome \in Outcomes :
          /\ made' = IF outcome = "refused" THEN made ELSE [made EXCEPT !.server = TRUE]
          /\ GoOn(outcome, "hash")
    BY <1>1 DEF SyncHttpServer
  <2>2. pc = "server" /\ UNCHANGED <<cache, queued, broker>>
    BY <1>1 DEF SyncHttpServer
  <2>3. CASE outcome = "done"
    <3>1. /\ pc' = "hash" /\ local' = local /\ made'.server = TRUE
          /\ made'.volume = made.volume /\ made'.rabbitmq = made.rabbitmq
      BY <2>1, <2>3, PartTypes DEF GoOn, Made
    <3>2. CopiesPresent' /\ Settled'
      BY <2>2, <3>1, CopiesKept
    <3>3. WorkDone'
      BY <2>2, <3>1 DEF SettledInv, WorkDone, Working
    <3> QED
      BY <3>2, <3>3 DEF SettledInv
  <2>4. CASE outcome # "done"
    BY <2>1, <2>4, GivenUp DEF GoOn
  <2> QED
    BY <2>3, <2>4
<1>2. CASE HashForDevice
  <2>1. /\ pc = "hash" /\ pc' = "patch" /\ UNCHANGED <<cache, queued, made, broker>>
        /\ local'.base = local.base
        /\ local'.cluster = [local.cluster EXCEPT !.hash =
             [topic |-> local.cluster.topic, host |-> local.cluster.host,
              extra |-> cache.secrets.extra]]
    BY <1>2, PartTypes DEF HashForDevice, Locals
  <2>2. /\ local'.cluster.topic = local.cluster.topic
        /\ local'.cluster.host = local.cluster.host
        /\ local'.cluster.hash = [topic |-> local.cluster.topic, host |-> local.cluster.host,
                                  extra |-> cache.secrets.extra]
    BY <2>1, PartTypes DEF Cluster
  <2>3. WorkDone'
    BY <2>1, <2>2 DEF SettledInv, WorkDone, Working
  <2>4. CopiesPresent' /\ Settled'
    BY <2>1, <2>2 DEF SettledInv, WorkDone, CopiesPresent, Settled, Working, AddressCopied
  <2> QED
    BY <2>3, <2>4 DEF SettledInv
<1> QED
  BY <1>1, <1>2

(* The patch has nothing to change of a copy that is still the present one. *)
LEMMA PatchClusterSettled ==
  ASSUME TypeOK, SettledInv, PatchCluster
  PROVE  SettledInv'
<1>1. PICK outcome \in Outcomes :
        /\ api' = IF outcome = "refused" THEN api
                  ELSE [api EXCEPT !.cluster = MergePatch(local.base, local.cluster, @)]
        /\ queued' = (queued \/ local.again \/ outcome # "done")
  BY DEF PatchCluster
<1>2. pc = "patch" /\ pc' = "idle" /\ UNCHANGED <<cache, made, broker>>
  BY DEF PatchCluster
<1>3. CASE queued'
  BY <1>2, <1>3 DEF SettledInv, WorkDone, CopiesPresent, Settled, Working
<1>4. CASE ~queued'
  <2>1. ~queued /\ ~local.again /\ outcome = "done" /\ Working
    BY <1>1, <1>2, <1>4 DEF Working
  <2>2. /\ made = AllMade
        /\ \A u \in Users : broker[u].topic = local.base.topic
        /\ local.cluster.topic = local.base.topic
    BY <1>2, <2>1, PartTypes DEF SettledInv, WorkDone, Made, AllMade
  <2>3. /\ local.base = cache.cluster /\ AddressCopied(local.cluster)
        /\ local.cluster.hash = [topic |-> local.base.topic, host |-> local.cluster.host,
                                 extra |-> cache.secrets.extra]
    BY <1>2, <2>1 DEF SettledInv, CopiesPresent
  <2>4. /\ api'.cluster.host = IF local.cluster.host # local.base.host
                                 THEN local.cluster.host ELSE api.cluster.host
        /\ api'.cluster.hash = IF local.cluster.hash # local.base.hash
                                 THEN local.cluster.hash ELSE api.cluster.hash
    <3>1. api'.cluster = MergePatch(local.base, local.cluster, api.cluster)
      BY <1>1, <2>1, PartTypes DEF Objects
    <3> QED
      BY <3>1, PartTypes DEF MergePatch, Cluster
  <2>5. ASSUME cache.cluster = api'.cluster
        PROVE  /\ local.cluster.host = api'.cluster.host /\ local.cluster.host = cache.cluster.host
               /\ local.cluster.hash = api'.cluster.hash
    BY <2>3, <2>4, <2>5
  <2>6. Settled'
    BY <1>2, <2>2, <2>3, <2>5 DEF Settled, AddressCopied
  <2> QED
    BY <1>2, <2>6 DEF SettledInv, WorkDone, CopiesPresent, Working
<1> QED
  BY <1>3, <1>4

-----------------------------------------------------------------------------
(* The others. *)

LEMMA RestartSettled == ASSUME Restart PROVE SettledInv'
  BY DEF Restart, SettledInv, WorkDone, CopiesPresent, Settled, Working

(* The copies that are changed unnoticed are of no use to a reconciliation. *)
LEMMA SyncSettled ==
  ASSUME TypeOK, SettledInv, NEW k \in Kinds, Sync(k)
  PROVE  SettledInv'
<1>1. /\ UNCHANGED <<api, pc, local, made, broker>>
      /\ cache' = [cache EXCEPT ![k] = api[k]]
      /\ queued' = (queued \/ Wakes(k))
  BY DEF Sync
<1>2. WorkDone'
  BY <1>1 DEF SettledInv, WorkDone, Working
<1>3. CASE queued'
  BY <1>2, <1>3 DEF SettledInv, CopiesPresent, Settled
<1>4. CASE ~queued'
  <2>1. ~queued /\ k = "secrets" /\ cache.secrets.extra = api.secrets.extra
    BY <1>1, <1>4 DEF Wakes
  <2>2. /\ cache'.cluster = cache.cluster /\ cache'.service = cache.service
        /\ cache'.secrets.extra = cache.secrets.extra
    BY <1>1, <2>1, PartTypes DEF Objects
  <2>3. CopiesPresent'
    BY <1>1, <1>4, <2>1, <2>2 DEF SettledInv, CopiesPresent, Working, AddressCopied
  <2>4. Settled'
    BY <1>1, <1>4, <2>1, <2>2 DEF SettledInv, Settled
  <2> QED
    BY <1>2, <2>3, <2>4 DEF SettledInv
<1> QED
  BY <1>3, <1>4

(* An edited topic makes the cached cluster an old one; no other user and   *)
(* no operator writes to the cluster or to what the reconciler has made.    *)
LEMMA EnvironmentSettled ==
  ASSUME TypeOK, HashInv, SettledInv, Environment
  PROVE  SettledInv'
<1>1. UNCHANGED <<cache, queued, pc, local, made>>
  BY DEF Environment, EditCluster, EditExtra, EditSecret, EditRemote, ImportCredentials,
         CreateService, AssignAddress, LoseAddress
<1>2. \A u \in Users : broker'[u].topic = broker[u].topic
  <2>1. ASSUME NEW w \in Users, ImportCredentials(w)
        PROVE  \A u \in Users : broker'[u].topic = broker[u].topic
    BY <2>1, PartTypes DEF ImportCredentials, Resources
  <2> QED
    BY <2>1 DEF Environment, EditCluster, EditExtra, EditSecret, EditRemote,
                CreateService, AssignAddress, LoseAddress
<1>3. api'.cluster = api.cluster \/ cache.cluster # api'.cluster
  <2>1. CASE EditCluster
    <3>1. PICK unknown \in 0..NUsers :
            api' = [api EXCEPT !.cluster.topic = @ + 1, !.cluster.unknown = unknown]
      BY <2>1 DEF EditCluster
    <3>2. api'.cluster = [api.cluster EXCEPT !.topic = @ + 1, !.unknown = unknown]
      BY <3>1, PartTypes DEF Objects
    <3>3. api'.cluster.topic = api.cluster.topic + 1
      BY <3>2, PartTypes DEF Cluster
    <3>4. cache.cluster.topic <= api.cluster.topic
      BY DEF HashInv, CachesInOrder, AtMost, Newest
    <3> QED
      BY <3>3, <3>4, NewestTypes, PartTypes
  <2>2. CASE ~EditCluster
    BY <2>2, PartTypes
    DEF Environment, EditExtra, EditSecret, EditRemote, ImportCredentials, CreateService,
        AssignAddress, LoseAddress, Objects
  <2> QED
    BY <2>1, <2>2
<1>4. WorkDone'
  <2>1. pc = "inject" => broker'[local.user].topic = broker[local.user].topic
    <3>1. CASE broker' = broker
      BY <3>1
    <3>2. ASSUME NEW w \in Users, ImportCredentials(w)
          PROVE  broker'[local.user].topic = broker[local.user].topic
      BY <3>2, PartTypes DEF ImportCredentials, Resources
    <3> QED
      BY <3>1, <3>2 DEF Environment, EditCluster, EditExtra, EditSecret, EditRemote,
                        CreateService, AssignAddress, LoseAddress
  <2> QED
    BY <1>1, <1>2, <2>1 DEF SettledInv, WorkDone, Working
<1>5. CopiesPresent'
  BY <1>1 DEF SettledInv, CopiesPresent, Working, AddressCopied
<1>6. Settled'
  BY <1>1, <1>2, <1>3 DEF SettledInv, Settled
<1> QED
  BY <1>4, <1>5, <1>6 DEF SettledInv

-----------------------------------------------------------------------------
(* The theorem. *)

LEMMA SettledInvPreserved ==
  ASSUME TypeOK, UserInLoop, HashInv, SettledInv, [Next]_vars
  PROVE  SettledInv'
<1>1. CASE Reconcile
  BY <1>1, BeginSettled, FindAddressSettled, EnsureRabbitmqSettled, SecretSettled,
     WriteUserSettled, InjectSettled, EndSettled, PatchClusterSettled, RestartSettled
  DEF Reconcile, InjectPanics, HashPanics
<1>2. CASE Crash
  BY <1>2, RestartSettled DEF Crash
<1>3. CASE Resync
  BY <1>3 DEF Resync, SettledInv, WorkDone, CopiesPresent, Settled, Working
<1>4. CASE UNCHANGED vars
  BY <1>4 DEF vars, SettledInv, WorkDone, CopiesPresent, Settled, Working, AddressCopied
<1> QED
  BY <1>1, <1>2, <1>3, <1>4, SyncSettled, EnvironmentSettled DEF Next

LEMMA SettledInvariant == Spec => []SettledInv
<1>1. Init => SettledInv
  BY DEF Init, SettledInv, WorkDone, CopiesPresent, Settled, Working
<1> QED
  BY LoopInvariant, HashInvariant, <1>1, SettledInvPreserved, PTL DEF Spec

(* When the operator has nothing left to do, nothing that it makes once is  *)
(* missing, the devices are told of the present topic, address and extra    *)
(* Secret, and every user may read the present topic, whatever was stale,   *)
(* failed, panicked or was edited on the way: no watch misses a change and  *)
(* no error is forgotten.                                                   *)
THEOREM QuiescentConsistentHolds == Spec => []QuiescentConsistent
<1>1. ASSUME TypeOK, SettledInv PROVE QuiescentConsistent
  <2> SUFFICES ASSUME Quiescent
               PROVE  /\ made = [volume |-> TRUE, rabbitmq |-> 3, server |-> TRUE]
                      /\ api.cluster.hash = [topic |-> api.cluster.topic,
                                             host |-> api.cluster.host,
                                             extra |-> api.secrets.extra]
                      /\ api.service # NoService =>
                           api.service.ready /\ api.cluster.host = api.service.host
                      /\ \A u \in Users : broker[u].topic = api.cluster.topic
    BY DEF QuiescentConsistent
  <2> QED
    BY <1>1 DEF Quiescent, SettledInv, Settled, AllMade
<1> QED
  BY TypeCorrect, SettledInvariant, <1>1, PTL
=============================================================================

---------------------- MODULE DeviceConsistencyProofs ----------------------
(* DeviceController: the stamps of the device claim no newer inputs than    *)
(* the Job has, and when the operator has nothing left to do, the published *)
(* config is made from the present inputs; for all values of the constants, *)
(* as long as no Job is created that exists already.                        *)
EXTENDS PublicationProofs

(* A parent's hash is computed from a version that the copy has had.        *)
HashesNotAhead ==
  \A k \in Parents : /\ api[k].hash <= api[k].spec
                     /\ cache[k].hash <= cache[k].spec
                     /\ local[k].hash <= local[k].spec

LEMMA HashTypes ==
  ASSUME TypeOK, NEW k \in Parents
  PROVE  /\ api[k] \in Parent /\ cache[k] \in Parent /\ local[k] \in Parent
         /\ api[k].spec \in Nat /\ api[k].hash \in Nat
         /\ cache[k].hash \in Nat /\ local[k].hash \in Nat
  BY DEF TypeOK, Objects, Parents, Parent, Locals

(* Where the copies of the parents come from. *)
LEMMA LocalParents ==
  ASSUME TypeOK, Reconcile, NEW k \in Parents
  PROVE  local'[k] \in {local[k], cache[k], NoParent} /\ cache'[k] = cache[k] /\ api'[k] = api[k]
<1>1. CASE CreateSecret \/ PatchSecret \/ JobBusy \/ JobUpToDate \/ JobOutdated \/ DeleteJob
           \/ CreateJob \/ CreateRabbitmqResources
  <2>1. local'[k] = local[k] /\ cache'[k] = cache[k]
    BY <1>1, SecretStepsStampFrame, JobStepsStampFrame DEF StampFrame
  <2>2. api'[k] = api[k]
    BY <1>1 DEF CreateSecret, PatchSecret, JobBusy, JobUpToDate, JobOutdated, DeleteJob,
                CreateJob, CreateRabbitmqResources, TypeOK, Objects, Parents
  <2> QED
    BY <2>1, <2>2
<1>2. CASE Load \/ JobMissing \/ PatchDevice
  <2>1. cache'[k] = cache[k] /\ api'[k] = api[k]
    BY <1>2 DEF Load, JobMissing, PatchDevice, TypeOK, Objects, Parents
  <2>2. local'[k] = local[k] \/ local'[k] = NoParent
    <3>1. CASE JobMissing
      BY <3>1 DEF JobMissing, TypeOK, Locals, Parents
    <3>2. CASE Load
      <4>1. local'.class = NoParent /\ local'.cluster = NoParent
        BY <3>2 DEF Load, NoLocal
      <4> QED
        BY <4>1 DEF Parents
    <3>3. CASE PatchDevice
      BY <3>3 DEF PatchDevice, NoLocal, Parents
    <3> QED
      BY <1>2, <3>1, <3>2, <3>3
  <2> QED
    BY <2>1, <2>2
<1>3. CASE LoadParents
  <2>1. UNCHANGED <<api, cache>>
    BY <1>3 DEF LoadParents
  <2>2. CASE Leave(TRUE)
    BY <2>1, <2>2 DEF Leave, TypeOK, Locals, Parents
  <2>3. CASE local' = [local EXCEPT !.class = cache.class, !.cluster = cache.cluster,
                                    !.device = WithClusterLabel(@)]
    BY <2>1, <2>3 DEF TypeOK, Locals, Parents
  <2> QED
    BY <1>3, <2>2, <2>3 DEF LoadParents
<1> QED
  BY <1>1, <1>2, <1>3 DEF Reconcile

LEMMA HashesNotAheadPreserved ==
  TypeOK /\ HashesNotAhead /\ [Next]_vars => HashesNotAhead'
<1> SUFFICES ASSUME TypeOK, HashesNotAhead, [Next]_vars PROVE HashesNotAhead'
  OBVIOUS
<1>1. CASE Reconcile
  BY <1>1, LocalParents DEF HashesNotAhead, NoParent
<1>2. CASE (\E k \in Kinds : Sync(k)) \/ Crash
  <2>1. /\ api' = api
        /\ \A k \in Parents : cache'[k] = cache[k] \/ cache'[k] = api[k]
        /\ \A k \in Parents : local'[k] = local[k] \/ local'[k] = NoParent
    BY <1>2 DEF Sync, Crash, NoLocal, TypeOK, Objects, Kinds, Parents
  <2> QED
    BY <2>1 DEF HashesNotAhead, NoParent
<1>3. ASSUME NEW p \in Parents, EditParent(p) \/ StampParent(p) PROVE HashesNotAhead'
  <2>1. UNCHANGED <<cache, local>>
    BY <1>3 DEF EditParent, StampParent
  <2>2. \A k \in Parents : api'[k] = api[k] \/ (api'[k].spec = api[k].spec + 1 /\ api'[k].hash = api[k].hash)
          \/ api'[k].hash <= api'[k].spec
    BY <1>3 DEF EditParent, StampParent, TypeOK, Objects, Parents, Parent
  <2> QED
    BY <2>1, <2>2, HashTypes DEF HashesNotAhead
<1>4. CASE Resync \/ UNCHANGED vars
  BY <1>4 DEF Resync, vars, HashesNotAhead
<1>5. CASE EditSecret \/ DeleteSecret \/ BuildConfig \/ StoreHash \/ UploadSecret \/ FailPod
           \/ RemoveJob \/ ImportCredentials
  <2>1. UNCHANGED <<cache, local>> /\ \A k \in Parents : api'[k] = api[k]
    BY <1>5 DEF EditSecret, DeleteSecret, BuildConfig, StoreHash, UploadSecret, FailPod,
                RemoveJob, ImportCredentials, TypeOK, Objects, Parents
  <2> QED
    BY <2>1 DEF HashesNotAhead
<1> QED
  BY <1>1, <1>2, <1>3, <1>4, <1>5 DEF Next, Environment

-----------------------------------------------------------------------------
(* The contents of the secret that anybody remembers. *)

(* A content of the secret that is not newer than its password.             *)
KnownTo(x, secret, last) ==
  /\ x <= last
  /\ secret # NoSecret /\ secret.pw # 0 => x <= secret.pw

Known(x) == KnownTo(x, api.secret, lastContent)

ContentsKnown ==
  /\ api.secret # NoSecret => Known(api.secret.hash)
  /\ cache.secret # NoSecret => Known(cache.secret.pw) /\ Known(cache.secret.hash)
  /\ Known(api.device.secret) /\ Known(cache.device.secret)
  /\ Known(local.secret.hash) /\ Known(local.device.secret) /\ Known(local.base.secret)
  /\ Known(rmq.pw)

LEMMA ContentTypes ==
  ASSUME TypeOK
  PROVE  /\ lastContent \in Nat /\ pod.pw \in Nat /\ rmq.pw \in Nat
         /\ api.secret # NoSecret => api.secret \in Secret /\ api.secret.pw \in Nat /\ api.secret.hash \in Nat
         /\ cache.secret # NoSecret => cache.secret \in Secret /\ cache.secret.pw \in Nat /\ cache.secret.hash \in Nat
         /\ api.device.secret \in Nat /\ cache.device.secret \in Nat
         /\ local.secret.hash \in Nat /\ local.device.secret \in Nat /\ local.base.secret \in Nat
  BY DEF TypeOK, Objects, Secret, Device, Locals, Pod, Broker

(* A password becomes a newer one, or none. *)
LEMMA PasswordMoves ==
  ASSUME TypeOK, [Next]_vars
  PROVE  /\ lastContent' = lastContent \/ lastContent' = lastContent + 1
         /\ \/ api'.secret = NoSecret
            \/ api'.secret.pw = 0
            \/ api'.secret.pw = lastContent + 1 /\ lastContent' = lastContent + 1
            \/ api.secret # NoSecret /\ api'.secret.pw = api.secret.pw
<1>1. CASE Reconcile
  <2>1. CASE CreateJob
    BY <2>1 DEF CreateJob, TypeOK, Objects
  <2> QED
    BY <1>1, <2>1, ReconcilePasswordFrame, CreateSecretIssues, PatchSecretIssues
    DEF Reconcile, PasswordFrame, PasswordIssued
<1>2. CASE Environment
  <2>1. CASE BuildConfig \/ StoreHash \/ UploadSecret \/ FailPod \/ RemoveJob
    BY <2>1 DEF BuildConfig, StoreHash, UploadSecret, FailPod, RemoveJob, TypeOK, Objects
  <2> QED
    BY <1>2, <2>1, EnvironmentPasswordFrame, UserIssues
    DEF Environment, PasswordFrame, PasswordIssued
<1>3. CASE (\E k \in Kinds : Sync(k)) \/ Resync \/ Crash \/ UNCHANGED vars
  BY <1>3, EnvironmentPasswordFrame DEF PasswordFrame
<1> QED
  BY <1>1, <1>2, <1>3 DEF Next

LEMMA KnownStays ==
  ASSUME TypeOK, [Next]_vars, NEW x \in Nat, Known(x)
  PROVE  KnownTo(x, api'.secret, lastContent')
  BY PasswordMoves, ContentTypes DEF Known, KnownTo

LEMMA ZeroIsKnown == TypeOK => Known(0)
  BY ContentTypes DEF Known, KnownTo

(* createSecret holds on to the secret that the API server has now.         *)
SecretReturned ==
  \/ local'.secret = local.secret /\ local'.device = local.device /\ pc' = "patch" /\ local'.again
  \/ /\ api'.secret # NoSecret /\ local'.secret = api'.secret
     /\ local'.device = WithSecretLabel(local.device)
     /\ pc' = "job" /\ local'.again = local.again

LEMMA SecretEnsuredReturns ==
  ASSUME TypeOK, NEW outcome, NEW secret, SecretEnsured(outcome, secret),
         outcome = "done" => api'.secret # NoSecret /\ api'.secret = secret
  PROVE  SecretReturned /\ \A f \in {"base", "class", "cluster"} : local'[f] = local[f]
<1>1. CASE outcome = "done"
  BY <1>1 DEF SecretEnsured, SecretReturned, TypeOK, Locals
<1>2. CASE outcome # "done"
  BY <1>2 DEF SecretEnsured, Leave, SecretReturned, TypeOK, Locals
<1> QED
  BY <1>1, <1>2

(* What createSecret writes: a new password, or the hash of the cached one. *)
LEMMA CreateSecretWrites ==
  ASSUME TypeOK, CreateSecret
  PROVE  /\ SecretReturned /\ \A f \in {"base", "class", "cluster"} : local'[f] = local[f]
         /\ \/ pc' = "patch" /\ UNCHANGED <<api, lastContent>>
            \/ /\ api'.secret = [pw |-> lastContent + 1, hash |-> lastContent + 1]
               /\ lastContent' = lastContent + 1
<1> DEFINE secret == [pw |-> lastContent + 1, hash |-> lastContent + 1]
<1>1. PICK outcome \in Outcomes :
        /\ SecretEnsured(outcome, secret)
        /\ outcome = "done" => api.secret = NoSecret
        /\ IF outcome = "refused"
             THEN UNCHANGED <<api, lastContent>>
             ELSE /\ api' = [api EXCEPT !.secret = secret]
                  /\ lastContent' = lastContent + 1
  BY DEF CreateSecret, Answer
<1>2. secret \in Secret /\ secret # NoSecret
  BY AbsentAssumption DEF TypeOK, Secret
<1>3. outcome # "refused" => api'.secret = secret
  BY <1>1 DEF TypeOK, Objects
<1>4. SecretReturned /\ \A f \in {"base", "class", "cluster"} : local'[f] = local[f]
  BY <1>1, <1>2, <1>3, SecretEnsuredReturns
<1>5. outcome = "refused" => pc' = "patch"
  BY <1>1 DEF SecretEnsured, Leave
<1> QED
  BY <1>1, <1>3, <1>4, <1>5

PatchedSecret ==
  IF cache.secret.pw = 0
    THEN [pw |-> lastContent + 1, hash |-> lastContent + 1]
    ELSE [pw |-> api.secret.pw,
          hash |-> IF cache.secret.hash # cache.secret.pw THEN cache.secret.pw ELSE api.secret.hash]

LEMMA PatchSecretWrites ==
  ASSUME TypeOK, ContentsKnown, PatchSecret
  PROVE  /\ SecretReturned /\ \A f \in {"base", "class", "cluster"} : local'[f] = local[f]
         /\ cache.secret # NoSecret
         /\ \/ pc' = "patch" /\ UNCHANGED <<api, lastContent>>
            \/ /\ api.secret # NoSecret /\ api'.secret # NoSecret
               /\ api'.secret = PatchedSecret
               /\ lastContent' = IF cache.secret.pw = 0 THEN lastContent + 1 ELSE lastContent
<1> DEFINE mod == Completed(cache.secret)
           secret == MergePatch(cache.secret, mod, api.secret)
<1>1. PICK outcome \in Outcomes :
        /\ Answer(api.secret # NoSecret, outcome)
        /\ SecretEnsured(outcome, secret)
        /\ IF outcome = "refused"
             THEN UNCHANGED <<api, lastContent>>
             ELSE /\ api' = [api EXCEPT !.secret = secret]
                  /\ lastContent' = IF cache.secret.pw = 0 THEN mod.pw ELSE lastContent
  BY DEF PatchSecret
<1>2. /\ cache.secret # NoSecret /\ cache.secret \in Secret
      /\ cache.secret.pw <= lastContent /\ cache.secret.hash <= lastContent
  BY ContentTypes DEF PatchSecret, ContentsKnown, Known, KnownTo
<1>3. outcome # "refused" => api.secret # NoSecret /\ api.secret \in Secret
  BY <1>1, ContentTypes DEF Answer, Outcomes
<1>4. mod = IF cache.secret.pw = 0 THEN [pw |-> lastContent + 1, hash |-> lastContent + 1]
            ELSE [pw |-> cache.secret.pw, hash |-> cache.secret.pw]
  BY DEF Completed
<1>5. outcome # "refused" => secret = PatchedSecret
  <2>1. SUFFICES ASSUME api.secret \in Secret PROVE secret = PatchedSecret
    BY <1>3
  <2>2. api.secret = [pw |-> api.secret.pw, hash |-> api.secret.hash]
    BY <2>1 DEF Secret
  <2>3. secret = [f \in {"pw", "hash"} |-> IF mod[f] # cache.secret[f] THEN mod[f] ELSE api.secret[f]]
    BY <2>1 DEF MergePatch, Secret
  <2>4. secret = [pw |-> IF mod.pw # cache.secret.pw THEN mod.pw ELSE api.secret.pw,
                  hash |-> IF mod.hash # cache.secret.hash THEN mod.hash ELSE api.secret.hash]
    BY <2>3
  <2>5. lastContent \in Nat /\ cache.secret.pw \in Nat /\ cache.secret.hash \in Nat
    BY <1>2, ContentTypes
  <2>6. CASE cache.secret.pw = 0
    BY <1>2, <1>4, <2>4, <2>5, <2>6 DEF PatchedSecret
  <2>7. CASE cache.secret.pw # 0
    BY <1>2, <1>4, <2>4, <2>5, <2>7 DEF PatchedSecret
  <2> QED
    BY <2>6, <2>7
<1>6. outcome # "refused" =>
        /\ api'.secret = PatchedSecret
        /\ lastContent' = IF cache.secret.pw = 0 THEN lastContent + 1 ELSE lastContent
  BY <1>1, <1>4, <1>5 DEF TypeOK, Objects
<1>7. outcome # "refused" => PatchedSecret \in Secret /\ PatchedSecret # NoSecret
  BY <1>2, <1>3, ContentTypes, AbsentAssumption DEF PatchedSecret, Secret
<1>8. SecretReturned /\ \A f \in {"base", "class", "cluster"} : local'[f] = local[f]
  BY <1>1, <1>5, <1>6, <1>7, SecretEnsuredReturns
<1>9. outcome = "refused" => pc' = "patch"
  BY <1>1 DEF SecretEnsured, Leave
<1> QED
  BY <1>1, <1>2, <1>3, <1>6, <1>7, <1>8, <1>9 DEF Outcomes

LEMMA SecretStepsContents ==
  ASSUME TypeOK, ContentsKnown, CreateSecret \/ PatchSecret
  PROVE  ContentsKnown'
<1>1. Next
  BY DEF Next, Reconcile
<1>2. /\ cache' = cache /\ rmq' = rmq /\ api'.device = api.device
  BY DEF CreateSecret, PatchSecret, TypeOK, Objects
<1>3. /\ local'.base = local.base /\ local'.device.secret = local.device.secret
      /\ \/ local'.secret = local.secret
         \/ api'.secret # NoSecret /\ local'.secret = api'.secret
  BY CreateSecretWrites, PatchSecretWrites
  DEF SecretReturned, WithSecretLabel, TypeOK, Locals, Device
<1>4. api'.secret # NoSecret => KnownTo(api'.secret.hash, api'.secret, lastContent')
  <2>1. CASE api'.secret = api.secret
    <3>1. api.secret # NoSecret => Known(api.secret.hash) /\ api.secret.hash \in Nat
      BY ContentTypes DEF ContentsKnown
    <3> QED
      BY <1>1, <2>1, <3>1, KnownStays
  <2>2. CASE /\ api'.secret = [pw |-> lastContent + 1, hash |-> lastContent + 1]
             /\ lastContent' = lastContent + 1
    BY <2>2, ContentTypes DEF KnownTo
  <2>3. CASE /\ cache.secret # NoSecret /\ api.secret # NoSecret
             /\ api'.secret.hash \in {cache.secret.pw, api.secret.hash}
    BY <1>1, <2>3, KnownStays, ContentTypes DEF ContentsKnown
  <2> QED
    BY <2>1, <2>2, <2>3, CreateSecretWrites, PatchSecretWrites DEF PatchedSecret
<1>5. \A x \in Nat : Known(x) => KnownTo(x, api'.secret, lastContent')
  BY <1>1, KnownStays
<1> QED
  BY <1>2, <1>3, <1>4, <1>5, ContentTypes DEF ContentsKnown, Known

(* The other steps remember no content that was not known. *)
ContentsFrame ==
  /\ api'.secret # NoSecret =>
       \/ api'.secret.hash = 0
       \/ api.secret # NoSecret /\ api'.secret.hash = api.secret.hash
  /\ api'.device.secret \in {api.device.secret, local.device.secret}
  /\ cache'.secret \in {cache.secret, api.secret}
  /\ cache'.device \in {cache.device, api.device}
  /\ local'.secret.hash \in {0, local.secret.hash}
  /\ local'.device.secret \in {0, cache.device.secret, local.device.secret, local.secret.hash}
  /\ local'.base.secret \in {0, cache.device.secret, local.base.secret}
  /\ \/ rmq'.pw = rmq.pw
     \/ api.secret # NoSecret /\ rmq'.pw = api.secret.pw

LEMMA ContentsFramePreserves ==
  ASSUME TypeOK, PasswordsInOrder, ContentsKnown, ContentsFrame, [Next]_vars
  PROVE  ContentsKnown'
<1>1. \A x \in Nat : Known(x) => KnownTo(x, api'.secret, lastContent')
  BY KnownStays
<1>2. Known(0) /\ (api.secret # NoSecret => Known(api.secret.pw))
  BY ContentTypes DEF Known, KnownTo, PasswordsInOrder
<1>3. /\ api'.secret # NoSecret => KnownTo(api'.secret.hash, api'.secret, lastContent')
      /\ KnownTo(api'.device.secret, api'.secret, lastContent')
      /\ KnownTo(local'.secret.hash, api'.secret, lastContent')
      /\ KnownTo(local'.device.secret, api'.secret, lastContent')
      /\ KnownTo(local'.base.secret, api'.secret, lastContent')
      /\ KnownTo(rmq'.pw, api'.secret, lastContent')
  BY <1>1, <1>2, ContentTypes DEF ContentsKnown, ContentsFrame
<1>4. /\ cache'.secret # NoSecret =>
           /\ KnownTo(cache'.secret.pw, api'.secret, lastContent')
           /\ KnownTo(cache'.secret.hash, api'.secret, lastContent')
      /\ KnownTo(cache'.device.secret, api'.secret, lastContent')
  BY <1>1, <1>2, ContentTypes DEF ContentsKnown, ContentsFrame
<1> QED
  BY <1>3, <1>4 DEF ContentsKnown, Known

LEMMA ReconcileContentsFrame ==
  ASSUME TypeOK, Reconcile, ~CreateSecret, ~PatchSecret
  PROVE  ContentsFrame
<1>1. cache' = cache /\ api'.secret = api.secret /\ rmq'.pw = rmq.pw
  BY DEF Reconcile, Load, LoadParents, JobBusy, JobUpToDate, JobOutdated, JobMissing,
         DeleteJob, CreateJob, CreateRabbitmqResources, PatchDevice, TypeOK, Objects, Broker
<1>2. CASE Load
  BY <1>1, <1>2 DEF Load, NoLocal, ContentsFrame
<1>3. CASE PatchDevice
  <2>1. api'.device.secret \in {api.device.secret, local.device.secret}
    <3>1. \/ api' = api
          \/ api'.device = MergePatch(local.base, local.device, api.device)
      BY <1>3 DEF PatchDevice, TypeOK, Objects
    <3> QED
      BY <3>1 DEF MergePatch, TypeOK, Objects, Device
  <2>2. local'.secret.hash = 0 /\ local'.device.secret = 0 /\ local'.base.secret = 0
    BY <1>3 DEF PatchDevice, NoLocal, NewDevice
  <2> QED
    BY <1>1, <2>1, <2>2 DEF ContentsFrame
<1>4. CASE ~Load /\ ~PatchDevice
  <2>1. api'.device = api.device
    BY <1>4 DEF Reconcile, LoadParents, JobBusy, JobUpToDate, JobOutdated, JobMissing,
                DeleteJob, CreateJob, CreateRabbitmqResources, TypeOK, Objects
  <2>2. \/ local' = local
        \/ \E again : Leave(again)
        \/ local' = [local EXCEPT !.class = cache.class, !.cluster = cache.cluster,
                                  !.device = WithClusterLabel(@)]
        \/ local' = [local EXCEPT !.device =
                       Stamped(@, local.secret, local.class, local.cluster)]
    BY <1>4 DEF Reconcile, LoadParents, JobBusy, JobUpToDate, JobOutdated, JobMissing,
                DeleteJob, CreateJob, CreateRabbitmqResources
  <2>3. /\ local'.secret = local.secret /\ local'.base = local.base
        /\ local'.device.secret \in {local.device.secret, local.secret.hash}
    BY <2>2 DEF Leave, WithClusterLabel, Stamped, TypeOK, Locals, Device
  <2> QED
    BY <1>1, <2>1, <2>3 DEF ContentsFrame
<1> QED
  BY <1>2, <1>3, <1>4

LEMMA OtherContentsFrame ==
  ASSUME TypeOK, [Next]_vars, ~Reconcile
  PROVE  ContentsFrame
<1>1. CASE (\E k \in Kinds : Sync(k)) \/ Crash
  <2>1. /\ api' = api /\ rmq' = rmq
        /\ cache'.secret \in {cache.secret, api.secret}
        /\ cache'.device \in {cache.device, api.device}
    BY <1>1 DEF Sync, Crash, TypeOK, Objects, Kinds
  <2>2. local' = local \/ local' = NoLocal
    BY <1>1 DEF Sync, Crash
  <2> QED
    BY <2>1, <2>2 DEF NoLocal, NewDevice, ContentsFrame
<1>2. CASE EditSecret
  BY <1>2 DEF EditSecret, TypeOK, Objects, ContentsFrame
<1>3. ASSUME NEW k \in Parents, EditParent(k) \/ StampParent(k) PROVE ContentsFrame
  BY <1>3 DEF EditParent, StampParent, TypeOK, Objects, Parents, ContentsFrame
<1>4. CASE DeleteSecret \/ UploadSecret \/ FailPod \/ RemoveJob
  BY <1>4 DEF DeleteSecret, UploadSecret, FailPod, RemoveJob, TypeOK, Objects, ContentsFrame
<1>5. CASE BuildConfig \/ StoreHash \/ Resync \/ UNCHANGED vars
  BY <1>5 DEF BuildConfig, StoreHash, Resync, vars, ContentsFrame
<1>6. CASE ImportCredentials
  <2>1. api.secret # NoSecret /\ rmq'.pw = api.secret.pw
    BY <1>6 DEF ImportCredentials, PasswordReadable, TypeOK, Broker
  <2> QED
    BY <1>6, <2>1 DEF ImportCredentials, ContentsFrame
<1> QED
  BY <1>1, <1>2, <1>3, <1>4, <1>5, <1>6 DEF Next, Environment

LEMMA ContentsKnownPreserved ==
  TypeOK /\ PasswordsInOrder /\ ContentsKnown /\ [Next]_vars => ContentsKnown'
  BY SecretStepsContents, ReconcileContentsFrame, OtherContentsFrame, ContentsFramePreserves

LEMMA ContentsInitially == Init => HashesNotAhead /\ ContentsKnown
  BY DEF Init, HashesNotAhead, ContentsKnown, Known, KnownTo, NoLocal, NewDevice, NoParent,
         Parents

-----------------------------------------------------------------------------
(* The stamps of the device and the Job. *)

Stamps == {"secret", "class", "cluster"}

(* The device is stamped in memory when the cache has no Job. *)
StampedForNewJob ==
  /\ pc \in {"idle", "parents", "secret", "job", "delete"} =>
       \A f \in Stamps : local.device[f] = local.base[f]
  /\ pc = "create" =>
       StampsMatch(local.device, local.secret, local.class, local.cluster)

(* The stamps that are still to be stored are not newer than the Job. *)
NewStampsSound ==
  pc \in {"rabbitmq", "patch"} /\ api.job # NoJob =>
    /\ \A k \in Parents : local.device[k] = local.base[k] \/ local.device[k] <= api.job[k]
    /\ \/ local.device.secret = local.base.secret
       \/ pod.pw = 0
       \/ local.device.secret <= pod.pw

SoundInv == StampedForNewJob /\ NewStampsSound /\ StampsSound

(* The steps that write no stamp, give the Job no inputs and its pod no     *)
(* password.                                                                *)
SoundFrame ==
  /\ api'.device = api.device
  /\ \/ api'.job = NoJob
     \/ /\ api.job # NoJob
        /\ pod'.pw \in {0, pod.pw}
        /\ \A k \in Parents : api'.job[k] = api.job[k]
  /\ \A f \in Stamps : /\ local'.device[f] = local.device[f]
                       /\ local'.base[f] = local.base[f]
  /\ \/ pc' = pc /\ (pc = "create" => local' = local)
     \/ pc \in {"parents", "secret", "job", "delete"} /\ pc' # "create"
     \/ pc = "rabbitmq" /\ pc' = "patch"

LEMMA SoundFramePreserves == SoundInv /\ SoundFrame => SoundInv'
<1> SUFFICES ASSUME SoundInv, SoundFrame PROVE SoundInv'
  OBVIOUS
<1>1. StampedForNewJob'
  BY DEF SoundInv, SoundFrame, StampedForNewJob, StampsMatch
<1>2. NewStampsSound'
  BY DEF SoundInv, SoundFrame, StampedForNewJob, NewStampsSound, Stamps, Parents
<1>3. StampsSound'
  BY DEF SoundInv, SoundFrame, StampsSound
<1> QED
  BY <1>1, <1>2, <1>3 DEF SoundInv

LEMMA LeaveKeepsStamps ==
  ASSUME TypeOK, NEW again, Leave(again)
  PROVE  pc' = "patch" /\ local'.device = local.device /\ local'.base = local.base
  BY DEF Leave, TypeOK, Locals

LEMMA SecretStepsSoundFrame ==
  ASSUME TypeOK, ContentsKnown, CreateSecret \/ PatchSecret
  PROVE  SoundFrame
<1>1. /\ pc = "secret" /\ pod' = pod
      /\ api'.device = api.device /\ api'.job = api.job
  BY DEF CreateSecret, PatchSecret, TypeOK, Objects
<1>2. SecretReturned /\ local'.base = local.base
  BY CreateSecretWrites, PatchSecretWrites
<1>3. \A f \in Stamps : local'.device[f] = local.device[f]
  BY <1>2 DEF SecretReturned, WithSecretLabel, Stamps, TypeOK, Locals, Device
<1> QED
  BY <1>1, <1>2, <1>3 DEF SecretReturned, SoundFrame

LEMMA ReconcileSoundFrame ==
  ASSUME TypeOK,
         \/ LoadParents \/ JobBusy \/ JobUpToDate \/ JobOutdated \/ DeleteJob
         \/ CreateRabbitmqResources
  PROVE  SoundFrame
<1>1. CASE LoadParents
  <2>1. UNCHANGED <<api, pod>> /\ pc = "parents" /\ pc' # "create"
    BY <1>1 DEF LoadParents, Leave
  <2>2. \/ Leave(TRUE)
        \/ local' = [local EXCEPT !.class = cache.class, !.cluster = cache.cluster,
                                  !.device = WithClusterLabel(@)]
    BY <1>1 DEF LoadParents
  <2>3. \A f \in Stamps : /\ local'.device[f] = local.device[f]
                          /\ local'.base[f] = local.base[f]
    BY <2>2, LeaveKeepsStamps DEF WithClusterLabel, Stamps, TypeOK, Locals, Device
  <2> QED
    BY <2>1, <2>3 DEF SoundFrame
<1>2. CASE JobBusy \/ JobUpToDate \/ JobOutdated \/ CreateRabbitmqResources
  <2>1. /\ UNCHANGED <<api, pod>>
        /\ \/ pc = "job" /\ pc' # "create"
           \/ pc = "rabbitmq" /\ pc' = "patch"
    <3>1. CASE JobBusy \/ JobUpToDate \/ JobOutdated
      BY <3>1 DEF JobBusy, JobUpToDate, JobOutdated, Leave
    <3>2. CASE CreateRabbitmqResources
      BY <3>2 DEF CreateRabbitmqResources, Leave
    <3> QED
      BY <1>2, <3>1, <3>2
  <2>2. local' = local \/ \E again \in BOOLEAN : Leave(again)
    BY <1>2 DEF JobBusy, JobUpToDate, JobOutdated, CreateRabbitmqResources
  <2>3. local'.device = local.device /\ local'.base = local.base
    BY <2>2, LeaveKeepsStamps
  <2> QED
    BY <2>1, <2>3 DEF SoundFrame
<1>3. CASE DeleteJob
  <2>1. /\ pc = "delete" /\ pc' = "patch" /\ UNCHANGED pod
        /\ local'.device = local.device /\ local'.base = local.base
    BY <1>3, LeaveKeepsStamps DEF DeleteJob
  <2>2. \/ api' = api
        \/ api.job # NoJob /\ api' = [api EXCEPT !.job.deleting = TRUE]
    BY <1>3 DEF DeleteJob, Answer, Outcomes
  <2>3. CASE api' = api
    BY <2>1, <2>3 DEF SoundFrame
  <2>4. CASE api.job # NoJob /\ api' = [api EXCEPT !.job.deleting = TRUE]
    <3>1. api'.device = api.device /\ api'.job = [api.job EXCEPT !.deleting = TRUE]
      BY <2>4 DEF TypeOK, Objects
    <3>2. \A k \in Parents : api'.job[k] = api.job[k]
      BY <2>4, <3>1 DEF TypeOK, Objects, Job, Parents
    <3> QED
      BY <2>1, <2>4, <3>1, <3>2 DEF SoundFrame
  <2> QED
    BY <2>2, <2>3, <2>4
<1> QED
  BY <1>1, <1>2, <1>3

LEMMA OtherSoundFrame ==
  ASSUME TypeOK, [Next]_vars, ~Reconcile, ~Crash, ~BuildConfig
  PROVE  SoundFrame
<1>1. UNCHANGED <<pc, local>>
  BY DEF Next, Environment, Sync, Resync, EditParent, StampParent, EditSecret, DeleteSecret,
         StoreHash, UploadSecret, FailPod, RemoveJob, ImportCredentials, vars
<1>2. CASE UploadSecret \/ FailPod
  <2>1. api.job \in Job /\ api.job # NoJob /\ pod.step \in {"pending", "built", "hashed"}
    BY <1>2 DEF UploadSecret, FailPod, PodRuns, TypeOK, Objects, Pod
  <2>2. /\ api'.device = api.device
        /\ \A k \in Parents : api'.job[k] = api.job[k]
    <3>1. \/ api' = [api EXCEPT !.job.done = TRUE]
          \/ api' = [api EXCEPT !.job.failed = TRUE]
          \/ api' = api
      BY <1>2 DEF UploadSecret, FailPod
    <3>2. api'.device = api.device
      BY <3>1 DEF TypeOK, Objects
    <3>3. \/ api'.job = [api.job EXCEPT !.done = TRUE]
          \/ api'.job = [api.job EXCEPT !.failed = TRUE]
          \/ api'.job = api.job
      BY <3>1 DEF TypeOK, Objects
    <3> QED
      BY <2>1, <3>2, <3>3 DEF Job, Parents
  <2>3. pod'.pw \in {0, pod.pw}
    BY <1>2 DEF UploadSecret, FailPod, NewPod, TypeOK, Pod
  <2> QED
    BY <1>1, <2>1, <2>2, <2>3 DEF SoundFrame
<1>3. CASE RemoveJob
  BY <1>1, <1>3 DEF RemoveJob, TypeOK, Objects, SoundFrame
<1>4. ASSUME NEW k \in Parents, EditParent(k) \/ StampParent(k) PROVE SoundFrame
  <2>1. api'.device = api.device /\ api'.job = api.job /\ pod' = pod
    BY <1>4 DEF EditParent, StampParent, TypeOK, Objects, Parents
  <2> QED
    BY <1>1, <2>1 DEF SoundFrame
<1>5. CASE EditSecret \/ DeleteSecret \/ StoreHash
  <2>1. api'.device = api.device /\ api'.job = api.job /\ pod'.pw = pod.pw
    BY <1>5 DEF EditSecret, DeleteSecret, StoreHash, TypeOK, Objects, Pod
  <2> QED
    BY <1>1, <2>1 DEF SoundFrame
<1>6. CASE (\E k \in Kinds : Sync(k)) \/ Resync \/ ImportCredentials \/ UNCHANGED vars
  <2>1. UNCHANGED <<api, pod>>
    BY <1>6 DEF Sync, Resync, ImportCredentials, vars
  <2> QED
    BY <1>1, <2>1 DEF SoundFrame
<1> QED
  BY <1>2, <1>3, <1>4, <1>5, <1>6 DEF Next, Environment

(* A reconciliation begins, or its memory is gone. *)
LEMMA BeginSound == SoundInv /\ (Load \/ Crash) => SoundInv'
<1> SUFFICES ASSUME SoundInv, Load \/ Crash PROVE SoundInv'
  OBVIOUS
<1>1. UNCHANGED <<api, pod>> /\ pc' \in {"idle", "parents"}
  BY DEF Load, Crash
<1>2. local'.device = local'.base
  <2>1. CASE Load
    BY <2>1 DEF Load, NoLocal
  <2>2. CASE Crash
    BY <2>2 DEF Crash, NoLocal
  <2> QED
    BY <2>1, <2>2
<1> QED
  BY <1>1, <1>2 DEF SoundInv, StampedForNewJob, NewStampsSound, StampsSound

LEMMA JobMissingSound ==
  ASSUME TypeOK, SoundInv, JobMissing
  PROVE  SoundInv'
<1>1. UNCHANGED <<api, pod>> /\ pc' = "create"
  BY DEF JobMissing
<1>2. StampsMatch(local'.device, local'.secret, local'.class, local'.cluster)
  BY DEF JobMissing, Stamped, StampsMatch, TypeOK, Locals, Device
<1> QED
  BY <1>1, <1>2 DEF SoundInv, StampedForNewJob, NewStampsSound, StampsSound

(* The Job that is created is the one that the stamps are of. *)
LEMMA CreateJobSound ==
  ASSUME TypeOK, StampInv, HashesNotAhead, SoundInv, CreateJob, api.job = NoJob
  PROVE  SoundInv'
<1>1. /\ pc = "create" /\ pc' \in {"rabbitmq", "patch"}
      /\ local'.device = local.device /\ local'.base = local.base
      /\ api'.device = api.device
      /\ api.job = NoJob
      /\ StampsMatch(local.device, local.secret, local.class, local.cluster)
  <2>1. (local' = local /\ pc' = "rabbitmq") \/ Leave(TRUE)
    BY DEF CreateJob
  <2> QED
    BY <2>1, LeaveKeepsStamps
    DEF CreateJob, SoundInv, StampedForNewJob, TypeOK, Objects
<1>2. \/ api' = api
      \/ api'.job = NewJob(local.class, local.cluster) /\ pod'.pw = 0
  BY DEF CreateJob, NewPod, TypeOK, Objects
<1>3. CASE api' = api
  BY <1>1, <1>3 DEF SoundInv, StampedForNewJob, NewStampsSound, StampsSound
<1>4. CASE api'.job = NewJob(local.class, local.cluster) /\ pod'.pw = 0
  <2>1. \A k \in Parents : api'.job[k] = local[k].spec /\ local.device[k] = local[k].hash
    BY <1>1, <1>4 DEF NewJob, StampsMatch, Parents
  <2>2. \A k \in Parents : /\ api.device[k] <= local[k].hash /\ local[k].hash <= local[k].spec
                           /\ api.device[k] \in Nat
    BY <1>1, HashTypes DEF StampInv, ReadIsNewer, HashesNotAhead, TypeOK, Objects, Device, Parents
  <2>3. \A k \in Parents : api.device[k] <= local[k].spec
    BY <2>2, HashTypes DEF Parent
  <2> QED
    BY <1>1, <1>4, <2>1, <2>2, <2>3 DEF SoundInv, StampedForNewJob, NewStampsSound, StampsSound
<1> QED
  BY <1>2, <1>3, <1>4

LEMMA PatchDeviceSound ==
  ASSUME TypeOK, SoundInv, PatchDevice
  PROVE  SoundInv'
<1>1. /\ pc = "patch" /\ pc' = "idle" /\ pod' = pod /\ api'.job = api.job
      /\ local'.device = local'.base
  BY DEF PatchDevice, NoLocal, TypeOK, Objects
<1>2. \A f \in Stamps : \/ api'.device[f] = api.device[f]
                        \/ /\ api'.device[f] = local.device[f]
                           /\ local.device[f] # local.base[f]
  <2>1. \/ api' = api
        \/ api'.device = MergePatch(local.base, local.device, api.device)
    BY DEF PatchDevice, TypeOK, Objects
  <2> QED
    BY <2>1 DEF MergePatch, Stamps, TypeOK, Objects, Device
<1> QED
  BY <1>1, <1>2 DEF SoundInv, StampedForNewJob, NewStampsSound, StampsSound, Stamps, Parents

(* The pod takes the present password, which is the newest that is known. *)
LEMMA BuildConfigSound ==
  ASSUME TypeOK, ContentsKnown, SoundInv, BuildConfig
  PROVE  SoundInv'
<1>1. UNCHANGED <<api, pc, local>> /\ pod'.pw = api.secret.pw
      /\ api.secret # NoSecret /\ api.secret.pw # 0
  BY DEF BuildConfig, PasswordReadable, TypeOK, Pod
<1>2. api.device.secret <= pod'.pw /\ local.device.secret <= pod'.pw
  BY <1>1 DEF ContentsKnown, Known, KnownTo
<1> QED
  BY <1>1, <1>2 DEF SoundInv, StampedForNewJob, NewStampsSound, StampsSound

LEMMA SeeingIsNext == SeeingNext => Next
  BY DEF SeeingNext, Next, Reconcile

LEMMA SeeingCreatesMissingJob ==
  ASSUME SeeingNext, CreateJob, ~Crash
  PROVE  api.job = NoJob
<1>1. pc = "create" /\ pc' # pc
  BY DEF CreateJob, Leave
<1>2. ~((\E k \in Kinds : Sync(k)) \/ Resync \/ Environment)
  BY <1>1 DEF Sync, Resync, Environment, EditParent, StampParent, EditSecret, DeleteSecret,
              BuildConfig, StoreHash, UploadSecret, FailPod, RemoveJob, ImportCredentials
<1>3. ~(Load \/ LoadParents \/ CreateSecret \/ PatchSecret
         \/ JobBusy \/ JobUpToDate \/ JobOutdated \/ JobMissing
         \/ DeleteJob \/ CreateRabbitmqResources \/ PatchDevice)
  BY <1>1 DEF Load, LoadParents, CreateSecret, PatchSecret, JobBusy, JobUpToDate, JobOutdated,
              JobMissing, DeleteJob, CreateRabbitmqResources, PatchDevice
<1> QED
  BY <1>2, <1>3 DEF SeeingNext

LEMMA SoundPreserved ==
  ASSUME TypeOK, StampInv, HashesNotAhead, ContentsKnown, SoundInv, [SeeingNext]_vars
  PROVE  SoundInv'
<1>1. CASE Reconcile /\ (CreateJob => api.job = NoJob)
  BY <1>1, SoundFramePreserves, SecretStepsSoundFrame, ReconcileSoundFrame, BeginSound,
     JobMissingSound, CreateJobSound, PatchDeviceSound DEF Reconcile
<1>2. CASE ~Reconcile
  BY <1>2, SeeingIsNext, SoundFramePreserves, OtherSoundFrame, BeginSound, BuildConfigSound
<1>3. CASE Crash
  BY <1>3, BeginSound
<1>4. CASE UNCHANGED vars
  BY <1>4 DEF vars, SoundInv, StampedForNewJob, NewStampsSound, StampsSound
<1> QED
  BY <1>1, <1>2, <1>3, <1>4, SeeingCreatesMissingJob

LEMMA SoundInitially == Init => SoundInv
  BY DEF Init, SoundInv, StampedForNewJob, NewStampsSound, StampsSound, NoLocal

ConsistencyInv == HashesNotAhead /\ ContentsKnown /\ SoundInv

LEMMA SeeingIsSpec == SeeingSpec => Spec
<1>1. [SeeingNext]_vars => [Next]_vars
  BY SeeingIsNext
<1> QED
  BY <1>1, PTL DEF SeeingSpec, Spec

LEMMA ConsistencyInvariant ==
  SeeingSpec => [](TypeOK /\ StampInv /\ PublicationInv /\ ConsistencyInv)
<1>1. /\ TypeOK /\ StampInv /\ PublicationInv /\ ConsistencyInv
      /\ [SeeingNext]_vars
      => ConsistencyInv'
  BY SeeingIsNext, HashesNotAheadPreserved, ContentsKnownPreserved, SoundPreserved
  DEF ConsistencyInv, PublicationInv
<1>2. Init => ConsistencyInv
  BY ContentsInitially, SoundInitially DEF ConsistencyInv
<1> QED
  BY <1>1, <1>2, SeeingIsSpec, TypeCorrect, StampInvariant, PublicationInvariant, PTL
  DEF SeeingSpec

(* The stamps never claim newer inputs than the present Job was given,      *)
(* whichever informers lag, and whatever is lost, refused or crashes        *)
(* between the creation of the Job and the patch that stores the stamps.    *)
(* Only one thing can make them wrong, and it is what the run stale_job     *)
(* shows: creating a Job that exists is refused, and the device is stamped  *)
(* for it all the same.                                                     *)
THEOREM StampsSoundHolds == SeeingSpec => []StampsSound
<1>1. ConsistencyInv => StampsSound
  BY DEF ConsistencyInv, SoundInv
<1> QED
  BY <1>1, ConsistencyInvariant, PTL

-----------------------------------------------------------------------------
(* What a completed Job has published. *)

DoneJobPublished ==
  /\ pod.step # "pending" => pod.pw # 0
  /\ api.job # NoJob /\ api.job.done =>
       /\ pod.step = "hashed"
       /\ art.secret = pod.pw
       /\ \A k \in Parents : art[k] = api.job[k]

(* The steps that neither make a Job nor let one run. *)
PublishedFrame ==
  /\ UNCHANGED <<pod, art>>
  /\ api'.job # NoJob /\ api'.job.done =>
       /\ api.job # NoJob /\ api.job.done
       /\ \A k \in Parents : api'.job[k] = api.job[k]

LEMMA PublishedFramePreserves == DoneJobPublished /\ PublishedFrame => DoneJobPublished'
  BY DEF DoneJobPublished, PublishedFrame

LEMMA ReconcilePublished ==
  ASSUME TypeOK, DoneJobPublished, Reconcile
  PROVE  DoneJobPublished'
<1>1. CASE CreateJob
  <2>1. art' = art
    BY <1>1 DEF CreateJob
  <2>2. \/ api' = api /\ pod' = pod
        \/ pod' = NewPod /\ api'.job = NewJob(local.class, local.cluster)
    BY <1>1 DEF CreateJob, TypeOK, Objects
  <2>3. CASE api' = api /\ pod' = pod
    BY <2>1, <2>3 DEF DoneJobPublished
  <2>4. CASE pod' = NewPod /\ api'.job = NewJob(local.class, local.cluster)
    BY <2>4 DEF DoneJobPublished, NewPod, NewJob
  <2> QED
    BY <2>2, <2>3, <2>4
<1>2. CASE DeleteJob
  <2>1. UNCHANGED <<pod, art>>
    BY <1>2 DEF DeleteJob
  <2>2. \/ api' = api
        \/ api.job # NoJob /\ api' = [api EXCEPT !.job.deleting = TRUE]
    BY <1>2 DEF DeleteJob, Answer, Outcomes
  <2>3. CASE api' = api
    BY <2>1, <2>3, PublishedFramePreserves DEF PublishedFrame
  <2>4. CASE api.job # NoJob /\ api' = [api EXCEPT !.job.deleting = TRUE]
    <3>1. api.job \in Job /\ api'.job = [api.job EXCEPT !.deleting = TRUE]
      BY <2>4 DEF TypeOK, Objects
    <3>2. api'.job.done = api.job.done /\ \A k \in Parents : api'.job[k] = api.job[k]
      BY <3>1 DEF Job, Parents
    <3> QED
      BY <2>1, <2>4, <3>2, PublishedFramePreserves DEF PublishedFrame
  <2> QED
    BY <2>2, <2>3, <2>4
<1>3. CASE ~CreateJob /\ ~DeleteJob
  <2>1. UNCHANGED <<pod, art>> /\ api'.job = api.job
    BY <1>3 DEF Reconcile, Load, LoadParents, CreateSecret, PatchSecret, JobBusy, JobUpToDate,
                JobOutdated, JobMissing, CreateRabbitmqResources, PatchDevice, TypeOK, Objects
  <2> QED
    BY <2>1, PublishedFramePreserves DEF PublishedFrame
<1> QED
  BY <1>1, <1>2, <1>3

LEMMA PodPublished ==
  ASSUME TypeOK, DoneJobPublished, BuildConfig \/ StoreHash \/ UploadSecret \/ FailPod
  PROVE  DoneJobPublished'
<1>1. api.job \in Job /\ ~api.job.done
  BY DEF BuildConfig, StoreHash, UploadSecret, FailPod, PodRuns, TypeOK, Objects
<1>2. CASE BuildConfig \/ StoreHash
  <2>1. api' = api /\ pod'.pw # 0
    <3>1. CASE BuildConfig
      BY <3>1 DEF BuildConfig, PasswordReadable, TypeOK, Pod
    <3>2. CASE StoreHash
      BY <3>2 DEF StoreHash, PodRuns, DoneJobPublished, TypeOK, Pod
    <3> QED
      BY <1>2, <3>1, <3>2
  <2> QED
    BY <1>1, <2>1 DEF DoneJobPublished
<1>3. CASE UploadSecret
  <2>1. /\ pod' = pod /\ pod.step = "hashed"
        /\ api'.job = [api.job EXCEPT !.done = TRUE]
        /\ art'.secret = pod.pw
        /\ \A k \in Parents : art'[k] = api.job[k]
    BY <1>3 DEF UploadSecret, PodRuns, TypeOK, Objects, Artefacts, Parents
  <2>2. \A k \in Parents : api'.job[k] = api.job[k]
    BY <1>1, <2>1 DEF Job, Parents
  <2> QED
    BY <2>1, <2>2 DEF DoneJobPublished
<1>4. CASE FailPod
  <2>1. \/ pod' = pod
        \/ pod' = [pod EXCEPT !.failures = pod.failures + 1]
        \/ pod' = [NewPod EXCEPT !.failures = pod.failures + 1]
    BY <1>4 DEF FailPod
  <2>2. pod'.step # "pending" => pod'.pw # 0
    BY <2>1 DEF DoneJobPublished, NewPod, TypeOK, Pod
  <2>3. \/ api'.job = api.job
        \/ api'.job = [api.job EXCEPT !.failed = TRUE]
    BY <1>4 DEF FailPod, TypeOK, Objects
  <2>4. ~api'.job.done
    BY <1>1, <2>3 DEF Job
  <2> QED
    BY <2>2, <2>4 DEF DoneJobPublished
<1> QED
  BY <1>2, <1>3, <1>4

LEMMA PublishedPreserved == TypeOK /\ DoneJobPublished /\ [Next]_vars => DoneJobPublished'
<1> SUFFICES ASSUME TypeOK, DoneJobPublished, [Next]_vars PROVE DoneJobPublished'
  OBVIOUS
<1>1. CASE RemoveJob
  BY <1>1 DEF RemoveJob, NewPod, DoneJobPublished, TypeOK, Objects
<1>2. ASSUME NEW k \in Parents, EditParent(k) \/ StampParent(k) PROVE PublishedFrame
  BY <1>2 DEF EditParent, StampParent, TypeOK, Objects, Parents, PublishedFrame
<1>3. CASE EditSecret \/ DeleteSecret
  BY <1>3, PublishedFramePreserves
  DEF EditSecret, DeleteSecret, TypeOK, Objects, PublishedFrame
<1>4. CASE (\E k \in Kinds : Sync(k)) \/ Resync \/ Crash \/ ImportCredentials \/ UNCHANGED vars
  BY <1>4 DEF Sync, Resync, Crash, ImportCredentials, vars, DoneJobPublished
<1> QED
  BY <1>1, <1>2, <1>3, <1>4, PublishedFramePreserves, ReconcilePublished, PodPublished
  DEF Next, Environment

-----------------------------------------------------------------------------
(* The secret and the cached copy of it. *)

(* A password that the cache has seen with its hash keeps that hash.        *)
HashSettled ==
  /\ cache.secret # NoSecret /\ cache.secret.pw # 0 /\ cache.secret.hash = cache.secret.pw
  /\ api.secret # NoSecret /\ api.secret.pw = cache.secret.pw
  => api.secret.hash = cache.secret.hash

(* The secret has changed for good since the cache has seen it. *)
SecretPending ==
  /\ cache.secret # NoSecret /\ cache.secret.pw # 0
  /\ \/ api.secret = NoSecret
     \/ api.secret.pw # cache.secret.pw
     \/ cache.secret.hash # cache.secret.pw /\ api.secret.hash # cache.secret.hash

LEMMA SecretMoves ==
  ASSUME TypeOK, ContentsKnown, [Next]_vars
  PROVE  \/ api'.secret = api.secret
         \/ api'.secret = NoSecret
         \/ api'.secret.pw \in {0, lastContent + 1}
         \/ /\ cache.secret # NoSecret /\ cache.secret.pw # 0
            /\ api.secret # NoSecret /\ api'.secret = PatchedSecret
<1>1. CASE Reconcile
  <2>1. CASE CreateJob
    BY <2>1 DEF CreateJob, TypeOK, Objects
  <2>2. CASE CreateSecret
    BY <2>2, CreateSecretWrites
  <2>3. CASE PatchSecret
    BY <2>3, PatchSecretWrites DEF PatchedSecret
  <2> QED
    BY <1>1, <2>1, <2>2, <2>3, ReconcilePasswordFrame DEF Reconcile, PasswordFrame
<1>2. CASE Environment
  <2>1. CASE BuildConfig \/ StoreHash \/ UploadSecret \/ FailPod \/ RemoveJob
    BY <2>1 DEF BuildConfig, StoreHash, UploadSecret, FailPod, RemoveJob, TypeOK, Objects
  <2>2. CASE EditSecret \/ DeleteSecret
    BY <2>2 DEF EditSecret, DeleteSecret, TypeOK, Objects
  <2> QED
    BY <1>2, <2>1, <2>2, EnvironmentPasswordFrame DEF Environment, PasswordFrame
<1>3. CASE (\E k \in Kinds : Sync(k)) \/ Resync \/ Crash \/ UNCHANGED vars
  BY <1>3, EnvironmentPasswordFrame DEF PasswordFrame
<1> QED
  BY <1>1, <1>2, <1>3 DEF Next

LEMMA PendingStays ==
  ASSUME TypeOK, ContentsKnown, [Next]_vars, SecretPending, cache'.secret = cache.secret
  PROVE  SecretPending'
<1>1. /\ cache.secret # NoSecret /\ cache.secret.pw # 0 /\ cache.secret.pw \in Nat
      /\ cache.secret.pw <= lastContent /\ lastContent \in Nat
  BY ContentTypes DEF SecretPending, ContentsKnown, Known, KnownTo
<1> QED
  BY <1>1, SecretMoves DEF SecretPending, PatchedSecret

LEMMA HashSettledPreserved ==
  ASSUME TypeOK, ContentsKnown, HashSettled, [Next]_vars
  PROVE  HashSettled'
<1>1. CASE cache'.secret = cache.secret
  <2>1. cache.secret # NoSecret => cache.secret.pw \in Nat /\ cache.secret.pw <= lastContent
    BY ContentTypes DEF ContentsKnown, Known, KnownTo
  <2> QED
    BY <1>1, <2>1, SecretMoves, ContentTypes DEF HashSettled, PatchedSecret
<1>2. CASE cache'.secret # cache.secret
  <2>1. api' = api /\ cache'.secret = api.secret
    <3>1. (\E k \in Kinds : Sync(k)) \/ Crash
      BY <1>2 DEF Next, Reconcile, Load, LoadParents, CreateSecret, PatchSecret, JobBusy,
                  JobUpToDate, JobOutdated, JobMissing, DeleteJob, CreateJob,
                  CreateRabbitmqResources, PatchDevice, Resync, Environment, EditParent,
                  StampParent, EditSecret, DeleteSecret, BuildConfig, StoreHash, UploadSecret,
                  FailPod, RemoveJob, ImportCredentials, vars
    <3> QED
      BY <1>2, <3>1 DEF Sync, Crash, TypeOK, Objects, Kinds
  <2> QED
    BY <2>1 DEF HashSettled
<1> QED
  BY <1>1, <1>2

-----------------------------------------------------------------------------
(* What is left when a reconciliation ends well, and nothing is waiting. *)

(* A reconciliation that has met no error so far has done what is before    *)
(* its present step, ...                                                    *)
Working == pc # "idle" /\ ~(pc = "patch" /\ local.again)

(* The cache has a Job that is not being deleted: losing it is an event.    *)
(* Or there is one now.                                                     *)
JobThere ==
  \/ queued
  \/ cache.job # NoJob /\ ~cache.job.deleting
  \/ api.job # NoJob /\ ~api.job.deleting

WorkDone ==
  Working =>
    /\ pc # "parents" => local.device.clusterLabel
    /\ pc \in {"job", "delete", "create", "rabbitmq", "patch"} => local.device.secretLabel
    /\ pc \in {"create", "rabbitmq", "patch"} =>
         StampsMatch(local.device, local.secret, local.class, local.cluster)
    /\ pc \in {"rabbitmq", "patch"} => JobThere
    /\ pc = "patch" => /\ rmq.topic = local.cluster.spec
                       /\ rmq.due \/ local.secret.hash <= rmq.pw

(* ... from copies that, unless the key is queued again, are those that the *)
(* caches have now, or are known to be replaced.                            *)
SecretCopied ==
  \/ local.secret.hash # local.base.secret
  \/ /\ cache.secret = local.secret
     /\ local.secret.pw # 0 /\ local.secret.hash = local.secret.pw
  \/ SecretPending

CopiesPresent ==
  Working /\ ~queued =>
    /\ local.base = cache.device
    /\ pc # "parents" /\ local.base.clusterLabel => local.cluster = cache.cluster
    /\ pc \in {"job", "delete", "create", "rabbitmq", "patch"} /\ local.base.secretLabel
         => SecretCopied

(* What is left when it has ended well: a device whose copy is up to date   *)
(* needs no other change than the events on their way will cause.           *)
Settled ==
  pc = "idle" /\ ~queued =>
    /\ JobThere
    /\ cache.device = api.device =>
         /\ cache.device.secretLabel /\ cache.device.clusterLabel
         /\ cache.device.cluster = cache.cluster.hash
         /\ rmq.topic = cache.cluster.spec
         /\ rmq.due \/ cache.device.secret <= rmq.pw
         /\ \/ SecretPending
            \/ /\ cache.secret # NoSecret /\ cache.secret.pw # 0
               /\ cache.secret.hash = cache.secret.pw
               /\ cache.device.secret = cache.secret.hash

SettledInv == WorkDone /\ CopiesPresent /\ Settled

(* After an error nothing is claimed: the key will be queued again. *)
LEMMA GivenUp ==
  ASSUME TypeOK, Leave(TRUE)
  PROVE  SettledInv'
<1>1. pc' = "patch" /\ local'.again = TRUE
  BY DEF Leave, TypeOK, Locals
<1> QED
  BY <1>1 DEF SettledInv, WorkDone, CopiesPresent, Settled, Working

(* A step after createSecret that reads nothing keeps to the copies it has. *)
LEMMA CopiesKept ==
  ASSUME SettledInv,
         pc \in {"job", "delete", "create", "rabbitmq"},
         pc' \in {"job", "delete", "create", "rabbitmq", "patch"},
         cache' = cache, queued' = queued, api'.secret = api.secret,
         local'.base = local.base, local'.secret = local.secret, local'.cluster = local.cluster
  PROVE  CopiesPresent' /\ Settled'
<1>1. SecretCopied => SecretCopied'
  BY DEF SecretCopied, SecretPending
<1>2. Working
  BY DEF Working
<1> QED
  BY <1>1, <1>2 DEF SettledInv, CopiesPresent, Settled

LEMMA LoadSettled ==
  ASSUME TypeOK, SettledInv, Load
  PROVE  SettledInv'
<1>1. pc' = "parents" /\ local'.base = cache.device /\ cache' = cache
  BY DEF Load, NoLocal
<1> QED
  BY <1>1 DEF SettledInv, WorkDone, CopiesPresent, Settled

LEMMA LoadParentsSettled ==
  ASSUME TypeOK, SettledInv, LoadParents
  PROVE  SettledInv'
<1>1. /\ pc = "parents" /\ cache' = cache /\ queued' = queued
  BY DEF LoadParents
<1>2. CASE Leave(TRUE)
  BY <1>2, GivenUp
<1>3. CASE /\ pc' = "secret"
           /\ local' = [local EXCEPT !.class = cache.class, !.cluster = cache.cluster,
                                     !.device = WithClusterLabel(@)]
  <2>1. /\ local'.base = local.base /\ local'.cluster = cache.cluster
        /\ local'.device.clusterLabel
    BY <1>3 DEF WithClusterLabel, TypeOK, Locals, Device
  <2> QED
    BY <1>1, <1>3, <2>1 DEF SettledInv, WorkDone, CopiesPresent, Settled, Working
<1> QED
  BY <1>2, <1>3 DEF LoadParents

(* The secret returned is the cached one, or one whose event is yet to come,*)
(* or one for which the device will be stamped anew.                        *)
LEMMA SecretIsCopied ==
  ASSUME TypeOK, ContentsKnown, HashSettled, CreateSecret \/ PatchSecret,
         pc' = "job"
  PROVE  SecretCopied'
<1>1. /\ local'.secret = api'.secret /\ local'.base = local.base
      /\ cache' = cache /\ local.base.secret <= lastContent
  BY CreateSecretWrites, PatchSecretWrites
  DEF SecretReturned, CreateSecret, PatchSecret, ContentsKnown, Known, KnownTo
<1>2. CASE api'.secret = [pw |-> lastContent + 1, hash |-> lastContent + 1]
  BY <1>1, <1>2, ContentTypes DEF SecretCopied
<1>3. CASE /\ cache.secret # NoSecret /\ cache.secret.pw # 0
           /\ api.secret # NoSecret /\ api'.secret # NoSecret
           /\ api'.secret = PatchedSecret
  <2>1. CASE api.secret.pw # cache.secret.pw \/ cache.secret.hash # cache.secret.pw
    BY <1>1, <1>3, <2>1 DEF SecretCopied, SecretPending, PatchedSecret
  <2>2. CASE api.secret.pw = cache.secret.pw /\ cache.secret.hash = cache.secret.pw
    <3>1. api.secret.hash = cache.secret.hash
      BY <1>3, <2>2 DEF HashSettled
    <3>2. api'.secret = [pw |-> cache.secret.pw, hash |-> cache.secret.hash]
      BY <1>3, <2>2, <3>1 DEF PatchedSecret
    <3>3. cache.secret = [pw |-> cache.secret.pw, hash |-> cache.secret.hash]
      BY <1>3, ContentTypes DEF Secret
    <3> QED
      BY <1>1, <1>3, <2>2, <3>2, <3>3 DEF SecretCopied
  <2> QED
    BY <2>1, <2>2
<1> QED
  BY <1>2, <1>3, CreateSecretWrites, PatchSecretWrites DEF PatchedSecret

LEMMA SecretStepsSettled ==
  ASSUME TypeOK, ContentsKnown, HashSettled, SettledInv, CreateSecret \/ PatchSecret
  PROVE  SettledInv'
<1>1. /\ pc = "secret" /\ cache' = cache /\ queued' = queued
      /\ SecretReturned
      /\ local'.base = local.base /\ local'.cluster = local.cluster
  BY CreateSecretWrites, PatchSecretWrites DEF CreateSecret, PatchSecret
<1>2. CASE pc' = "patch"
  BY <1>1, <1>2 DEF SecretReturned, SettledInv, WorkDone, CopiesPresent, Settled, Working
<1>3. CASE pc' = "job"
  <2>1. /\ local'.device.secretLabel
        /\ local'.device.clusterLabel = local.device.clusterLabel
    BY <1>1, <1>3 DEF SecretReturned, WithSecretLabel, TypeOK, Locals, Device
  <2>2. SecretCopied'
    BY <1>3, SecretIsCopied
  <2> QED
    BY <1>1, <1>3, <2>1, <2>2 DEF SettledInv, WorkDone, CopiesPresent, Settled, Working
<1> QED
  BY <1>1, <1>2, <1>3 DEF SecretReturned

LEMMA JobDecisionSettled ==
  ASSUME TypeOK, SettledInv, JobBusy \/ JobUpToDate \/ JobOutdated \/ JobMissing
  PROVE  SettledInv'
<1>1. CASE JobBusy
  BY <1>1, GivenUp DEF JobBusy
<1>2. CASE JobUpToDate \/ JobOutdated \/ JobMissing
  <2>1. /\ pc = "job" /\ pc' \in {"rabbitmq", "delete", "create"}
        /\ UNCHANGED <<api, cache, queued>>
    BY <1>2 DEF JobUpToDate, JobOutdated, JobMissing
  <2>2. /\ local'.base = local.base /\ local'.secret = local.secret
        /\ local'.cluster = local.cluster
        /\ local'.device.clusterLabel = local.device.clusterLabel
        /\ local'.device.secretLabel = local.device.secretLabel
    <3>1. CASE JobUpToDate \/ JobOutdated
      BY <3>1 DEF JobUpToDate, JobOutdated
    <3>2. CASE JobMissing
      BY <3>2 DEF JobMissing, Stamped, TypeOK, Locals, Device
    <3> QED
      BY <1>2, <3>1, <3>2
  <2>3. pc' = "create" => StampsMatch(local'.device, local'.secret, local'.class, local'.cluster)
    <3>1. ASSUME JobMissing
          PROVE  StampsMatch(local'.device, local'.secret, local'.class, local'.cluster)
      BY <3>1 DEF JobMissing, Stamped, StampsMatch, TypeOK, Locals, Device
    <3> QED
      BY <1>2, <3>1 DEF JobUpToDate, JobOutdated
  <2>4. pc' = "rabbitmq" =>
          /\ StampsMatch(local'.device, local'.secret, local'.class, local'.cluster)
          /\ JobThere'
    BY <1>2 DEF JobUpToDate, JobOutdated, JobMissing, Busy, JobThere
  <2>5. CopiesPresent' /\ Settled'
    BY <2>1, <2>2, CopiesKept
  <2>6. WorkDone'
    BY <2>1, <2>2, <2>3, <2>4 DEF SettledInv, WorkDone, Working
  <2> QED
    BY <2>5, <2>6 DEF SettledInv
<1> QED
  BY <1>1, <1>2

LEMMA CreateJobSettled ==
  ASSUME TypeOK, SettledInv, CreateJob
  PROVE  SettledInv'
<1>1. CASE Leave(TRUE)
  BY <1>1, GivenUp
<1>2. CASE ~Leave(TRUE)
  <2>1. /\ pc = "create" /\ pc' = "rabbitmq" /\ UNCHANGED <<local, cache, queued>>
        /\ api' = [api EXCEPT !.job = NewJob(local.class, local.cluster)]
    BY <1>2 DEF CreateJob
  <2>2. api'.secret = api.secret /\ api'.job = NewJob(local.class, local.cluster)
    BY <2>1 DEF TypeOK, Objects
  <2>3. api'.job # NoJob /\ ~api'.job.deleting
    BY <2>2, NewJobType, AbsentAssumption DEF NewJob, TypeOK, Locals
  <2>4. CopiesPresent' /\ Settled'
    BY <2>1, <2>2, CopiesKept
  <2>5. WorkDone'
    BY <2>1, <2>3 DEF SettledInv, WorkDone, Working, JobThere
  <2> QED
    BY <2>4, <2>5 DEF SettledInv
<1> QED
  BY <1>1, <1>2

LEMMA CreateRabbitmqResourcesSettled ==
  ASSUME TypeOK, SettledInv, CreateRabbitmqResources
  PROVE  SettledInv'
<1>1. CASE Leave(TRUE)
  BY <1>1, GivenUp
<1>2. CASE ~Leave(TRUE)
  <2>1. /\ pc = "rabbitmq" /\ UNCHANGED <<api, cache, queued>>
        /\ Leave(FALSE)
        /\ rmq' = [rmq EXCEPT !.made = IF 3 > @ THEN 3 ELSE @, !.due = @ \/ 3 > 0,
                              !.topic = local.cluster.spec]
    BY <1>2 DEF CreateRabbitmqResources
  <2>2. /\ pc' = "patch" /\ rmq'.topic = local.cluster.spec /\ rmq'.due
        /\ \A f \in {"base", "device", "secret", "class", "cluster"} : local'[f] = local[f]
    <3>1. rmq \in [made : 0..3, due : BOOLEAN, pw : Nat, topic : Nat]
      BY DEF TypeOK, Broker
    <3>2. rmq'.topic = local.cluster.spec
      BY <2>1, <3>1
    <3>3. rmq'.due = (rmq.due \/ 3 > 0)
      BY <2>1, <3>1, Zenon
    <3>4. 3 > 0
      OBVIOUS
    <3>5. rmq'.due
      BY <3>3, <3>4
    <3> QED
      BY <2>1, <3>2, <3>5 DEF Leave, TypeOK, Locals
  <2>3. CopiesPresent' /\ Settled'
    BY <2>1, <2>2, CopiesKept
  <2>4. WorkDone'
    BY <2>1, <2>2 DEF SettledInv, WorkDone, Working, JobThere
  <2> QED
    BY <2>3, <2>4 DEF SettledInv
<1> QED
  BY <1>1, <1>2

(* The patch changes the device, which is an event still to come, or finds  *)
(* in its up-to-date copy all that the reconciliation has computed.         *)
LEMMA PatchDeviceSettled ==
  ASSUME TypeOK, SettledInv, PatchDevice
  PROVE  SettledInv'
<1>1. /\ pc = "patch" /\ pc' = "idle" /\ cache' = cache /\ rmq' = rmq
      /\ api'.job = api.job /\ api'.secret = api.secret
  BY DEF PatchDevice, TypeOK, Objects
<1>2. SUFFICES ASSUME ~queued' PROVE Settled'
  BY <1>1 DEF SettledInv, WorkDone, CopiesPresent, Working, Settled
<1>3. /\ ~queued /\ Working
      /\ api'.device = MergePatch(local.base, local.device, api.device)
  BY <1>1, <1>2 DEF PatchDevice, Working, TypeOK, Objects
<1>4. JobThere'
  BY <1>1, <1>3 DEF SettledInv, WorkDone, JobThere
<1>5. ASSUME cache.device = api'.device
      PROVE  /\ cache.device.secretLabel /\ cache.device.clusterLabel
             /\ cache.device.cluster = cache.cluster.hash
             /\ rmq.topic = cache.cluster.spec
             /\ rmq.due \/ cache.device.secret <= rmq.pw
             /\ \/ SecretPending
                \/ /\ cache.secret # NoSecret /\ cache.secret.pw # 0
                   /\ cache.secret.hash = cache.secret.pw
                   /\ cache.device.secret = cache.secret.hash
  <2>1. local.base = cache.device
    BY <1>3 DEF SettledInv, CopiesPresent
  <2>2. \A f \in {"secret", "class", "cluster", "secretLabel", "clusterLabel"} :
          local.device[f] = local.base[f]
    BY <1>3, <1>5, <2>1 DEF MergePatch, TypeOK, Objects, Device
  <2>3. local.base.secretLabel /\ local.base.clusterLabel
    BY <1>1, <1>3, <2>2 DEF SettledInv, WorkDone
  <2>4. local.cluster = cache.cluster /\ SecretCopied
    BY <1>1, <1>3, <2>3 DEF SettledInv, CopiesPresent
  <2>5. /\ local.base.secret = local.secret.hash
        /\ local.base.cluster = local.cluster.hash
        /\ rmq.topic = local.cluster.spec
        /\ rmq.due \/ local.secret.hash <= rmq.pw
    BY <1>1, <1>3, <2>2 DEF SettledInv, WorkDone, StampsMatch
  <2>6. \/ SecretPending
        \/ /\ cache.secret = local.secret
           /\ local.secret.pw # 0 /\ local.secret.hash = local.secret.pw
    BY <2>4, <2>5 DEF SecretCopied
  <2>7. cache.secret = local.secret => cache.secret # NoSecret
    BY AbsentAssumption DEF TypeOK, Locals
  <2> QED
    BY <2>1, <2>3, <2>4, <2>5, <2>6, <2>7
<1>6. SecretPending => SecretPending'
  BY <1>1 DEF SecretPending
<1> QED
  BY <1>1, <1>4, <1>5, <1>6 DEF Settled

(* The steps of the manager and of the other writers: they leave running    *)
(* reconciliations and the device alone, remove no Job that nobody deletes, *)
(* and what they change of the copies that matter queues the key again.     *)
SettledFrame ==
  /\ UNCHANGED <<pc, local>>
  /\ rmq'.topic = rmq.topic
  /\ \/ rmq' = rmq
     \/ api.secret # NoSecret /\ api.secret.pw # 0 /\ rmq'.pw = api.secret.pw
  /\ api'.device = api.device
  /\ api.job # NoJob /\ ~api.job.deleting => api'.job # NoJob /\ ~api'.job.deleting
  /\ \/ queued'
     \/ /\ queued' = queued
        /\ cache'.device = cache.device
        /\ cache'.job = cache.job
        /\ cache.device.clusterLabel => cache'.cluster = cache.cluster
        /\ cache.device.secretLabel => cache'.secret = cache.secret

LEMMA SettledFramePreserves ==
  ASSUME TypeOK, ContentsKnown, SettledInv, SettledFrame, [Next]_vars
  PROVE  SettledInv'
<1>1. JobThere => JobThere'
  BY DEF JobThere, SettledFrame
<1>2. \A x \in {local.secret.hash, cache.device.secret} :
        rmq.due \/ x <= rmq.pw => rmq'.due \/ x <= rmq'.pw
  BY DEF SettledFrame, ContentsKnown, Known, KnownTo
<1>3. WorkDone'
  <2>1. UNCHANGED <<pc, local>> /\ rmq'.topic = rmq.topic
    BY DEF SettledFrame
  <2> QED
    BY <1>1, <1>2, <2>1 DEF SettledInv, WorkDone, Working
<1>4. CASE queued'
  BY <1>3, <1>4 DEF SettledInv, CopiesPresent, Settled
<1>5. CASE ~queued'
  <2>1. /\ ~queued /\ cache'.device = cache.device /\ UNCHANGED <<pc, local>>
        /\ cache.device.clusterLabel => cache'.cluster = cache.cluster
        /\ cache.device.secretLabel => cache'.secret = cache.secret
    BY <1>5 DEF SettledFrame
  <2>2. cache.device.secretLabel /\ SecretPending => SecretPending'
    BY <2>1, PendingStays
  <2>3. cache.device.secretLabel /\ SecretCopied => SecretCopied'
    BY <2>1, <2>2 DEF SecretCopied
  <2>4. CopiesPresent'
    BY <2>1, <2>3 DEF SettledInv, CopiesPresent, Working
  <2>5. Settled'
    BY <1>1, <1>2, <2>1, <2>2 DEF SettledInv, Settled, SettledFrame
  <2> QED
    BY <1>3, <2>4, <2>5 DEF SettledInv
<1> QED
  BY <1>4, <1>5

LEMMA SyncSettledFrame ==
  ASSUME TypeOK, NEW kind \in Kinds, Sync(kind)
  PROVE  SettledFrame
<1>1. UNCHANGED <<pc, local, rmq, api>>
  BY DEF Sync
<1>2. queued' \in BOOLEAN /\ queued \in BOOLEAN
  BY ManagerType DEF TypeOK
<1>3. CASE queued'
  BY <1>1, <1>3 DEF SettledFrame
<1>4. CASE ~queued'
  <2>1. ~queued /\ ~Wakes(kind) /\ cache' = [cache EXCEPT ![kind] = api[kind]]
    BY <1>4 DEF Sync
  <2>2. /\ kind \notin {"device", "job"}
        /\ kind = "secret" => ~cache.device.secretLabel
        /\ kind = "cluster" => ~cache.device.clusterLabel
    BY <2>1 DEF Wakes
  <2>3. \A k \in Kinds : k # kind => cache'[k] = cache[k]
    BY <2>1 DEF TypeOK, Objects, Kinds
  <2>4. /\ cache'.device = cache.device /\ cache'.job = cache.job
        /\ cache.device.clusterLabel => cache'.cluster = cache.cluster
        /\ cache.device.secretLabel => cache'.secret = cache.secret
    BY <2>2, <2>3 DEF Kinds
  <2> QED
    BY <1>1, <1>2, <1>4, <2>1, <2>4 DEF SettledFrame
<1> QED
  BY <1>3, <1>4

LEMMA OtherSettledFrame ==
  ASSUME TypeOK, Resync \/ Environment \/ UNCHANGED vars
  PROVE  SettledFrame
<1>1. /\ UNCHANGED <<pc, local, cache>>
      /\ queued' \/ queued' = queued
  BY DEF Resync, Environment, EditParent, StampParent, EditSecret, DeleteSecret, BuildConfig,
         StoreHash, UploadSecret, FailPod, RemoveJob, ImportCredentials, vars
<1>2. /\ rmq'.topic = rmq.topic
      /\ \/ rmq' = rmq
         \/ api.secret # NoSecret /\ api.secret.pw # 0 /\ rmq'.pw = api.secret.pw
  BY DEF Resync, Environment, EditParent, StampParent, EditSecret, DeleteSecret, BuildConfig,
         StoreHash, UploadSecret, FailPod, RemoveJob, ImportCredentials, PasswordReadable,
         vars, TypeOK, Broker
<1>3. api'.device = api.device
  BY DEF Resync, Environment, EditParent, StampParent, EditSecret, DeleteSecret, BuildConfig,
         StoreHash, UploadSecret, FailPod, RemoveJob, ImportCredentials, vars, TypeOK, Objects,
         Parents
<1>4. api.job # NoJob /\ ~api.job.deleting => api'.job # NoJob /\ ~api'.job.deleting
  <2>1. CASE UploadSecret \/ FailPod
    <3>1. api.job \in Job
      BY <2>1 DEF UploadSecret, FailPod, PodRuns, TypeOK, Objects
    <3>2. api'.job \in {api.job, [api.job EXCEPT !.done = TRUE], [api.job EXCEPT !.failed = TRUE]}
      BY <2>1 DEF UploadSecret, FailPod, TypeOK, Objects
    <3>3. api'.job \in Job /\ api'.job.deleting = api.job.deleting
      BY <3>1, <3>2 DEF Job
    <3> QED
      BY <3>3, AbsentAssumption
  <2>2. CASE ~UploadSecret /\ ~FailPod
    BY <2>2 DEF Resync, Environment, EditParent, StampParent, EditSecret, DeleteSecret,
                BuildConfig, StoreHash, RemoveJob, ImportCredentials, vars, TypeOK, Objects,
                Parents
  <2> QED
    BY <2>1, <2>2
<1> QED
  BY <1>1, <1>2, <1>3, <1>4 DEF SettledFrame

LEMMA SettledPreserved ==
  ASSUME TypeOK, ContentsKnown, HashSettled, SettledInv, [Next]_vars
  PROVE  SettledInv'
<1>1. CASE Reconcile
  BY <1>1, LoadSettled, LoadParentsSettled, SecretStepsSettled, JobDecisionSettled,
     CreateJobSettled, CreateRabbitmqResourcesSettled, PatchDeviceSettled, GivenUp
  DEF Reconcile, DeleteJob
<1>2. CASE Crash
  BY <1>2 DEF Crash, SettledInv, WorkDone, CopiesPresent, Settled, Working, JobThere
<1>3. CASE (\E k \in Kinds : Sync(k)) \/ Resync \/ Environment \/ UNCHANGED vars
  BY <1>3, SyncSettledFrame, OtherSettledFrame, SettledFramePreserves
<1> QED
  BY <1>1, <1>2, <1>3 DEF Next

QuiescenceInv == DoneJobPublished /\ HashSettled /\ SettledInv

LEMMA QuiescenceInitially == Init => QuiescenceInv
  BY DEF Init, QuiescenceInv, DoneJobPublished, HashSettled, SettledInv, WorkDone,
         CopiesPresent, Settled, Working, NewPod

(* Nothing waits, nothing runs, and all copies are those of the API server: *)
(* then the stamps are the present hashes, and the Job is not older.        *)
LEMMA QuiescentIsConsistent ==
  ASSUME TypeOK, ContentsKnown, PublicationInv, StampsSound, QuiescenceInv, Quiescent
  PROVE  QuiescentConsistent
<1>1. /\ pc = "idle" /\ ~queued /\ cache = api /\ api.cluster.hash = api.cluster.spec
      /\ api.job # NoJob => api.job.done
  BY DEF Quiescent, Parents
<1>2. /\ api.job # NoJob /\ api.job.done
      /\ api.device.cluster = api.cluster.spec /\ rmq.topic = api.cluster.spec
      /\ rmq.due \/ api.device.secret <= rmq.pw
      /\ api.secret # NoSecret /\ api.secret.pw # 0
      /\ api.device.secret = api.secret.pw
  BY <1>1 DEF QuiescenceInv, SettledInv, Settled, SecretPending, JobThere
<1>3. /\ pod.step = "hashed" /\ pod.pw # 0 /\ art.secret = pod.pw
      /\ art.cluster = api.job.cluster
  BY <1>2 DEF QuiescenceInv, DoneJobPublished, Parents
<1>4. api.device.secret <= pod.pw /\ api.device.cluster <= api.job.cluster
  BY <1>2, <1>3 DEF StampsSound, Parents
<1>5. /\ pod.pw <= art.auth /\ art.auth <= api.secret.pw /\ pod.pw <= api.secret.pw
      /\ art.cluster <= api.cluster.spec
  BY <1>1, <1>2, <1>3 DEF PublicationInv, PasswordsInOrder, VersionsInOrder, Parents
<1>6. /\ api.secret.pw \in Nat /\ pod.pw \in Nat /\ art.auth \in Nat
      /\ art.cluster \in Nat /\ api.cluster.spec \in Nat
  BY <1>2, ContentTypes DEF TypeOK, Objects, Parent, Artefacts
<1>7. art.secret = api.secret.pw /\ art.auth = api.secret.pw /\ art.cluster = api.cluster.spec
  BY <1>2, <1>3, <1>4, <1>5, <1>6
<1>8. rmq.due \/ rmq.pw = api.secret.pw
  <2>1. rmq.pw <= api.secret.pw /\ rmq.pw \in Nat
    BY <1>2, ContentTypes DEF ContentsKnown, Known, KnownTo
  <2> QED
    BY <1>2, <1>6, <2>1
<1> QED
  BY <1>2, <1>7, <1>8 DEF QuiescentConsistent

(* No change of the secret or of the cluster is missed, whenever it comes,  *)
(* whichever informers lag, and after every failed write, lost answer and   *)
(* crash, as long as the stamps are sound: no Job is overlooked.            *)
THEOREM QuiescentConsistentHolds == SeeingSpec => []QuiescentConsistent
<1>1. /\ TypeOK /\ ConsistencyInv /\ QuiescenceInv /\ [SeeingNext]_vars
      => QuiescenceInv'
  BY SeeingIsNext, PublishedPreserved, HashSettledPreserved, SettledPreserved
  DEF ConsistencyInv, QuiescenceInv
<1>2. TypeOK /\ PublicationInv /\ ConsistencyInv /\ QuiescenceInv => QuiescentConsistent
  BY QuiescentIsConsistent DEF ConsistencyInv, SoundInv, QuiescentConsistent
<1> QED
  BY <1>1, <1>2, QuiescenceInitially, ConsistencyInvariant, PTL DEF SeeingSpec
=============================================================================

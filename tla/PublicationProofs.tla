------------------------- MODULE PublicationProofs -------------------------
(* DeviceController implements ConfigPublication, for all values of its     *)
(* constants: under every lag of the informers, through every failure.      *)
EXTENDS DeviceControllerProofs

(* Passwords: what is published, what is stored, what the pod holds and     *)
(* what the secret holds were issued in this order.                         *)
PasswordsInOrder ==
  /\ art.secret <= art.auth
  /\ art.auth <= lastContent
  /\ pod.pw <= lastContent
  /\ api.secret # NoSecret /\ api.secret.pw # 0 =>
       /\ art.auth <= api.secret.pw
       /\ pod.pw <= api.secret.pw
       /\ api.secret.pw <= lastContent
  /\ pod.step # "pending" => art.secret <= pod.pw
  /\ pod.step = "hashed" => pod.pw <= art.auth

(* Class and cluster: published version, Job's version, cached version.     *)
VersionsInOrder ==
  \A k \in Parents :
    /\ cache[k].spec <= api[k].spec
    /\ art[k] <= cache[k].spec
    /\ api.job # NoJob => art[k] <= api.job[k] /\ api.job[k] <= cache[k].spec

(* A Job is made from versions no older than the present Job's.             *)
ReadVersionsInOrder ==
  pc \in {"secret", "job", "delete", "create", "rabbitmq"} =>
    \A k \in Parents :
      /\ art[k] <= local[k].spec
      /\ local[k].spec <= cache[k].spec
      /\ api.job # NoJob => api.job[k] <= local[k].spec

PublicationInv == PasswordsInOrder /\ VersionsInOrder /\ ReadVersionsInOrder

LEMMA PublicationInvInitially == Init => PublicationInv
  BY DEF Init, PublicationInv, PasswordsInOrder, VersionsInOrder, ReadVersionsInOrder,
         Parents, NoParent, NewPod

-----------------------------------------------------------------------------
(* The passwords. *)

(* The steps that issue, store and publish no password. *)
PasswordFrame ==
  /\ UNCHANGED <<art, pod, lastContent>>
  /\ api'.secret = api.secret

LEMMA PasswordFramePreserves == PasswordsInOrder /\ PasswordFrame => PasswordsInOrder'
  BY DEF PasswordsInOrder, PasswordFrame

LEMMA ReconcilePasswordFrame ==
  ASSUME TypeOK,
         \/ Load \/ LoadParents \/ JobBusy \/ JobUpToDate \/ JobOutdated \/ JobMissing
         \/ DeleteJob \/ CreateRabbitmqResources \/ PatchDevice
  PROVE  PasswordFrame
<1>1. CASE Load \/ LoadParents \/ JobBusy \/ JobUpToDate \/ JobOutdated \/ JobMissing
  BY <1>1 DEF Load, LoadParents, JobBusy, JobUpToDate, JobOutdated, JobMissing, PasswordFrame
<1>2. CASE DeleteJob \/ CreateRabbitmqResources \/ PatchDevice
  BY <1>2 DEF DeleteJob, CreateRabbitmqResources, PatchDevice, PasswordFrame, TypeOK, Objects
<1> QED
  BY <1>1, <1>2

LEMMA EnvironmentPasswordFrame ==
  ASSUME TypeOK,
         \/ \E k \in Parents : EditParent(k) \/ StampParent(k)
         \/ \E k \in Kinds : Sync(k)
         \/ ImportCredentials \/ Resync \/ Crash \/ UNCHANGED vars
  PROVE  PasswordFrame
<1>1. ASSUME NEW k \in Parents, EditParent(k) \/ StampParent(k) PROVE PasswordFrame
  BY <1>1 DEF EditParent, StampParent, Parents, PasswordFrame, TypeOK, Objects
<1>2. CASE \/ \E k \in Kinds : Sync(k)
           \/ ImportCredentials \/ Resync \/ Crash \/ UNCHANGED vars
  BY <1>2 DEF Sync, ImportCredentials, Resync, Crash, vars, PasswordFrame
<1> QED
  BY <1>1, <1>2

(* The password of the secret is new, gone or the same as before. *)
PasswordIssued ==
  /\ UNCHANGED <<art, pod>>
  /\ \/ lastContent' = lastContent
     \/ lastContent' = lastContent + 1
  /\ \/ api'.secret = NoSecret
     \/ api'.secret.pw = 0
     \/ api'.secret.pw = lastContent + 1 /\ lastContent' = lastContent + 1
     \/ api.secret # NoSecret /\ api'.secret.pw = api.secret.pw

LEMMA IssuedPreserves == TypeOK /\ PasswordsInOrder /\ PasswordIssued => PasswordsInOrder'
<1> SUFFICES ASSUME TypeOK, PasswordsInOrder, PasswordIssued PROVE PasswordsInOrder'
  OBVIOUS
<1>1. /\ lastContent \in Nat /\ art.secret \in Nat /\ art.auth \in Nat /\ pod.pw \in Nat
      /\ api.secret # NoSecret => api.secret.pw \in Nat
  BY DEF TypeOK, Artefacts, Pod, Objects, Secret
<1> QED
  BY <1>1 DEF PasswordsInOrder, PasswordIssued

LEMMA CreateSecretIssues == TypeOK /\ CreateSecret => PasswordIssued
  BY DEF CreateSecret, Answer, Outcomes, PasswordIssued, TypeOK, Objects

(* The patch replaces a password only if the cached secret had none. *)
LEMMA PatchSecretIssues == TypeOK /\ PatchSecret => PasswordIssued
<1> SUFFICES ASSUME TypeOK, PatchSecret PROVE PasswordIssued
  OBVIOUS
<1> DEFINE mod == Completed(cache.secret)
           secret == MergePatch(cache.secret, mod, api.secret)
<1>1. UNCHANGED <<art, pod>>
  BY DEF PatchSecret
<1>2. \/ UNCHANGED <<api, lastContent>>
      \/ /\ api.secret # NoSecret
         /\ api' = [api EXCEPT !.secret = secret]
         /\ lastContent' = IF cache.secret.pw = 0 THEN mod.pw ELSE lastContent
  BY DEF PatchSecret, Answer, Outcomes
<1>3. mod.pw = IF cache.secret.pw = 0 THEN lastContent + 1 ELSE cache.secret.pw
  BY DEF Completed
<1>4. api.secret # NoSecret =>
        secret.pw = IF mod.pw # cache.secret.pw THEN mod.pw ELSE api.secret.pw
  BY DEF MergePatch, TypeOK, Objects, Secret
<1>5. CASE UNCHANGED <<api, lastContent>>
  BY <1>1, <1>5 DEF PasswordIssued
<1>6. CASE /\ api.secret # NoSecret
           /\ api' = [api EXCEPT !.secret = secret]
           /\ lastContent' = IF cache.secret.pw = 0 THEN mod.pw ELSE lastContent
  <2>1. api'.secret = secret
    BY <1>6 DEF TypeOK, Objects
  <2> QED
    BY <1>1, <1>3, <1>4, <1>6, <2>1 DEF PasswordIssued, TypeOK
<1> QED
  BY <1>2, <1>5, <1>6

LEMMA UserIssues == TypeOK /\ (EditSecret \/ DeleteSecret) => PasswordIssued
<1> SUFFICES ASSUME TypeOK, EditSecret \/ DeleteSecret PROVE PasswordIssued
  OBVIOUS
<1>1. CASE EditSecret
  <2>1. PICK new \in BOOLEAN :
          /\ LET pw == IF new THEN lastContent + 1 ELSE 0
                 hash == IF api.secret = NoSecret THEN 0 ELSE api.secret.hash
             IN  api' = [api EXCEPT !.secret = [pw |-> pw, hash |-> hash]]
          /\ lastContent' = IF new THEN lastContent + 1 ELSE lastContent
    BY <1>1 DEF EditSecret
  <2>2. api'.secret.pw = IF new THEN lastContent + 1 ELSE 0
    BY <2>1 DEF TypeOK, Objects
  <2> QED
    BY <1>1, <2>1, <2>2 DEF EditSecret, PasswordIssued
<1>2. CASE DeleteSecret
  BY <1>2 DEF DeleteSecret, PasswordIssued, TypeOK, Objects
<1> QED
  BY <1>1, <1>2

LEMMA JobPasswords ==
  ASSUME TypeOK, PasswordsInOrder,
         CreateJob \/ RemoveJob \/ BuildConfig \/ StoreHash \/ UploadSecret \/ FailPod
  PROVE  PasswordsInOrder'
<1>1. /\ lastContent \in Nat /\ art.secret \in Nat /\ art.auth \in Nat /\ pod.pw \in Nat
      /\ api.secret # NoSecret => api.secret.pw \in Nat
  BY DEF TypeOK, Artefacts, Pod, Objects, Secret
<1>2. api'.secret = api.secret /\ lastContent' = lastContent
  BY DEF CreateJob, RemoveJob, BuildConfig, StoreHash, UploadSecret, FailPod, TypeOK, Objects
<1>3. CASE CreateJob \/ RemoveJob \/ FailPod
  <2>1. /\ art' = art
        /\ \/ pod' = pod
           \/ pod'.pw = 0 /\ pod'.step = "pending"
           \/ pod'.pw = pod.pw /\ pod'.step = pod.step
    <3>1. CASE CreateJob \/ RemoveJob
      <4>1. UNCHANGED art /\ (pod' = pod \/ pod' = NewPod)
        BY <3>1 DEF CreateJob, RemoveJob
      <4> QED
        BY <4>1 DEF NewPod
    <3>2. CASE FailPod
      <4>1. /\ art' = art
            /\ \/ pod' = pod
               \/ pod' = [pod EXCEPT !.failures = pod.failures + 1]
               \/ pod' = [NewPod EXCEPT !.failures = pod.failures + 1]
        BY <3>2 DEF FailPod
      <4> QED
        BY <4>1 DEF NewPod, TypeOK, Pod
    <3> QED
      BY <1>3, <3>1, <3>2
  <2> QED
    BY <1>1, <1>2, <2>1 DEF PasswordsInOrder
<1>4. CASE BuildConfig
  <2>1. /\ api.secret # NoSecret /\ api.secret.pw # 0 /\ art' = art
        /\ pod'.pw = api.secret.pw /\ pod'.step = "built"
    BY <1>4 DEF BuildConfig, PasswordReadable, TypeOK, Pod
  <2> QED
    BY <1>1, <1>2, <2>1 DEF PasswordsInOrder
<1>5. CASE StoreHash
  <2>1. /\ api.secret # NoSecret /\ api.secret.pw # 0 /\ pod.step = "built"
        /\ pod'.pw = pod.pw /\ pod'.step = "hashed"
        /\ art'.auth = api.secret.pw /\ art'.secret = art.secret
    BY <1>5 DEF StoreHash, PasswordReadable, PodRuns, TypeOK, Pod, Artefacts
  <2> QED
    BY <1>1, <1>2, <2>1 DEF PasswordsInOrder
<1>6. CASE UploadSecret
  <2>1. /\ pod.step = "hashed" /\ pod' = pod
        /\ art'.secret = pod.pw /\ art'.auth = art.auth
    BY <1>6 DEF UploadSecret, PodRuns, TypeOK, Artefacts
  <2> QED
    BY <1>1, <1>2, <2>1 DEF PasswordsInOrder
<1> QED
  BY <1>3, <1>4, <1>5, <1>6

LEMMA PasswordsPreserved == TypeOK /\ PasswordsInOrder /\ [Next]_vars => PasswordsInOrder'
<1> SUFFICES ASSUME TypeOK, PasswordsInOrder, [Next]_vars PROVE PasswordsInOrder'
  OBVIOUS
<1>1. CASE Reconcile
  BY <1>1, ReconcilePasswordFrame, PasswordFramePreserves, CreateSecretIssues,
     PatchSecretIssues, IssuedPreserves, JobPasswords DEF Reconcile
<1>2. CASE Environment
  BY <1>2, EnvironmentPasswordFrame, PasswordFramePreserves, UserIssues,
     IssuedPreserves, JobPasswords DEF Environment
<1>3. CASE (\E k \in Kinds : Sync(k)) \/ Resync \/ Crash \/ UNCHANGED vars
  BY <1>3, EnvironmentPasswordFrame, PasswordFramePreserves
<1> QED
  BY <1>1, <1>2, <1>3 DEF Next

-----------------------------------------------------------------------------
(* The versions of the class and the cluster. *)

VersionInv == VersionsInOrder /\ ReadVersionsInOrder

Reading == pc \in {"secret", "job", "delete", "create", "rabbitmq"}

(* The numbers that the invariant compares. *)
LEMMA VersionTypes ==
  ASSUME TypeOK, NEW k \in Parents
  PROVE  /\ cache[k].spec \in Nat /\ api[k].spec \in Nat /\ art[k] \in Nat
         /\ local[k].spec \in Nat
         /\ api.job # NoJob => api.job[k] \in Nat
  BY DEF TypeOK, Objects, Parents, Parent, Artefacts, Locals, Job

(* The steps that read no version, make no Job and publish nothing. *)
VersionFrame ==
  /\ \A k \in Parents : /\ api'[k].spec = api[k].spec
                        /\ cache'[k] = cache[k]
                        /\ art'[k] = art[k]
                        /\ local'[k] = local[k]
                        /\ api'.job # NoJob => api.job # NoJob /\ api'.job[k] = api.job[k]
  /\ Reading' => Reading

LEMMA VersionFramePreserves == VersionInv /\ VersionFrame => VersionInv'
  BY DEF VersionInv, VersionsInOrder, ReadVersionsInOrder, VersionFrame, Reading

LEMMA SecretStepsVersionFrame ==
  ASSUME TypeOK, CreateSecret \/ PatchSecret PROVE VersionFrame
<1>1. /\ Reading /\ UNCHANGED <<art, cache>>
      /\ \A k \in Kinds : k # "secret" => api'[k] = api[k]
  BY DEF CreateSecret, PatchSecret, TypeOK, Objects, Kinds, Reading
<1>2. \A k \in Parents : local'[k] = local[k]
  BY SecretStepsStampFrame DEF StampFrame
<1> QED
  BY <1>1, <1>2 DEF VersionFrame, Kinds, Parents

LEMMA JobStepsVersionFrame ==
  ASSUME TypeOK,
         \/ JobBusy \/ JobUpToDate \/ JobOutdated \/ JobMissing \/ DeleteJob
         \/ CreateRabbitmqResources \/ PatchDevice
  PROVE  \/ VersionFrame
         \/ ~Reading' /\ UNCHANGED <<art, cache>> /\ \A k \in Kinds : k # "device" => api'[k] = api[k]
<1>1. CASE JobBusy \/ JobUpToDate \/ JobOutdated \/ CreateRabbitmqResources
  <2>1. \A k \in Parents : local'[k] = local[k]
    BY <1>1, JobStepsStampFrame DEF StampFrame
  <2>2. Reading /\ UNCHANGED <<api, cache, art>>
    BY <1>1 DEF JobBusy, JobUpToDate, JobOutdated, CreateRabbitmqResources, Reading
  <2> QED
    BY <2>1, <2>2 DEF VersionFrame
<1>2. CASE JobMissing
  <2>1. \A k \in Parents : local'[k] = local[k]
    BY <1>2 DEF JobMissing, TypeOK, Locals, Parents
  <2>2. Reading /\ UNCHANGED <<api, cache, art>>
    BY <1>2 DEF JobMissing, Reading
  <2> QED
    BY <2>1, <2>2 DEF VersionFrame
<1>3. CASE DeleteJob
  <2>1. \A k \in Parents : local'[k] = local[k] /\ api'[k] = api[k]
    BY <1>3, JobStepsStampFrame DEF StampFrame, DeleteJob, TypeOK, Objects, Parents
  <2>2. Reading /\ UNCHANGED <<cache, art>>
    BY <1>3 DEF DeleteJob, Reading
  <2>3. PICK outcome \in Outcomes :
          /\ Answer(api.job # NoJob, outcome)
          /\ api' = IF outcome = "refused" THEN api ELSE [api EXCEPT !.job.deleting = TRUE]
    BY <1>3 DEF DeleteJob
  <2>4. CASE api' = api
    BY <2>1, <2>2, <2>4 DEF VersionFrame
  <2>5. CASE api.job # NoJob /\ api' = [api EXCEPT !.job.deleting = TRUE]
    <3>1. api.job \in Job
      BY <2>5 DEF TypeOK, Objects
    <3>2. \A k \in Parents : api'.job[k] = api.job[k]
      BY <2>5, <3>1 DEF TypeOK, Objects, Job, Parents
    <3> QED
      BY <2>1, <2>2, <2>5, <3>2 DEF VersionFrame
  <2> QED
    BY <2>3, <2>4, <2>5 DEF Answer, Outcomes
<1>4. CASE PatchDevice
  BY <1>4 DEF PatchDevice, Reading, TypeOK, Objects, Kinds
<1> QED
  BY <1>1, <1>2, <1>3, <1>4

(* Between two reconciliations nothing has been read. *)
LEMMA NotReadingPreserves ==
  ASSUME VersionInv, ~Reading', UNCHANGED <<art, cache>>,
         \A k \in Kinds : k # "device" => api'[k] = api[k]
  PROVE  VersionInv'
<1>1. api'.job = api.job /\ \A k \in Parents : api'[k] = api[k]
  BY DEF Kinds, Parents
<1> QED
  BY <1>1 DEF VersionInv, VersionsInOrder, ReadVersionsInOrder, Reading

LEMMA ReadingVersionInv == TypeOK /\ VersionInv /\ (Load \/ LoadParents) => VersionInv'
<1> SUFFICES ASSUME TypeOK, VersionInv, Load \/ LoadParents PROVE VersionInv'
  OBVIOUS
<1>1. UNCHANGED <<api, art, cache>>
  BY DEF Load, LoadParents
<1>2. CASE ~Reading'
  BY <1>1, <1>2, NotReadingPreserves
<1>3. CASE Reading'
  <2>1. /\ pc' = "secret"
        /\ local' = [local EXCEPT !.class = cache.class, !.cluster = cache.cluster,
                                  !.device = WithClusterLabel(@)]
    BY <1>3 DEF Load, LoadParents, Leave, Reading
  <2>2. \A k \in Parents : local'[k] = cache[k]
    BY <2>1 DEF TypeOK, Locals, Parents
  <2>3. \A k \in Parents : cache[k].spec \in Nat
    BY VersionTypes
  <2> QED
    BY <1>1, <2>2, <2>3 DEF VersionInv, VersionsInOrder, ReadVersionsInOrder
<1> QED
  BY <1>2, <1>3

(* A new Job is made from what the reconciliation has read. *)
LEMMA CreateJobVersionInv == TypeOK /\ VersionInv /\ CreateJob => VersionInv'
<1> SUFFICES ASSUME TypeOK, VersionInv, CreateJob PROVE VersionInv'
  OBVIOUS
<1>1. Reading /\ UNCHANGED <<art, cache>> /\ \A k \in Parents : api'[k] = api[k]
  BY DEF CreateJob, Reading, TypeOK, Objects, Parents
<1>2. \A k \in Parents : local'[k] = local[k]
  BY JobStepsStampFrame DEF StampFrame
<1>3. \/ api' = api
      \/ api' = [api EXCEPT !.job = NewJob(local.class, local.cluster)]
  BY DEF CreateJob
<1>4. CASE api' = api
  BY <1>1, <1>2, <1>4, VersionFramePreserves DEF VersionFrame
<1>5. CASE api' = [api EXCEPT !.job = NewJob(local.class, local.cluster)]
  <2>1. \A k \in Parents : api'.job[k] = local[k].spec
    BY <1>5 DEF NewJob, TypeOK, Objects, Parents
  <2>2. \A k \in Parents : /\ art[k] <= local[k].spec
                           /\ local[k].spec <= cache[k].spec
                           /\ local[k].spec \in Nat
    BY <1>1, VersionTypes DEF VersionInv, ReadVersionsInOrder, Reading
  <2> QED
    BY <1>1, <1>2, <2>1, <2>2 DEF VersionInv, VersionsInOrder, ReadVersionsInOrder
<1> QED
  BY <1>3, <1>4, <1>5

LEMMA ManagerVersionInv ==
  ASSUME TypeOK, VersionInv, (\E kind \in Kinds : Sync(kind)) \/ Crash PROVE VersionInv'
<1>1. UNCHANGED <<api, art>>
  BY DEF Sync, Crash
<1>2. \A k \in Parents : cache'[k] = cache[k] \/ cache'[k] = api[k]
  BY DEF Sync, Crash, TypeOK, Objects, Kinds, Parents
<1>3. Reading' => Reading /\ local' = local
  BY DEF Sync, Crash, Reading
<1> QED
  BY <1>1, <1>2, <1>3, VersionTypes DEF VersionInv, VersionsInOrder, ReadVersionsInOrder, Reading

LEMMA EnvironmentVersionFrame ==
  ASSUME TypeOK,
         \/ EditSecret \/ DeleteSecret \/ BuildConfig \/ StoreHash \/ FailPod \/ RemoveJob
         \/ ImportCredentials \/ Resync \/ UNCHANGED vars
  PROVE  VersionFrame
<1>1. UNCHANGED <<pc, cache, local>> /\ (Reading' => Reading)
  BY DEF EditSecret, DeleteSecret, BuildConfig, StoreHash, FailPod, RemoveJob,
         ImportCredentials, Resync, vars, Reading
<1>2. CASE BuildConfig \/ ImportCredentials \/ Resync \/ UNCHANGED vars
  BY <1>1, <1>2 DEF BuildConfig, ImportCredentials, Resync, vars, VersionFrame
<1>3. CASE StoreHash
  <2>1. api' = api /\ \A k \in Parents : art'[k] = art[k]
    BY <1>3 DEF StoreHash, TypeOK, Artefacts, Parents
  <2> QED
    BY <1>1, <2>1 DEF VersionFrame
<1>4. CASE EditSecret \/ DeleteSecret \/ RemoveJob
  <2>1. /\ art' = art
        /\ \A k \in Parents : api'[k] = api[k]
        /\ api'.job = api.job \/ api'.job = NoJob
    BY <1>4 DEF EditSecret, DeleteSecret, RemoveJob, TypeOK, Objects, Parents
  <2> QED
    BY <1>1, <2>1 DEF VersionFrame
<1>5. CASE FailPod
  <2>1. api.job \in Job
    BY <1>5 DEF FailPod, PodRuns, TypeOK, Objects
  <2>2. art' = art /\ (api' = api \/ api' = [api EXCEPT !.job.failed = TRUE])
    BY <1>5 DEF FailPod
  <2>3. /\ api.job # NoJob
        /\ \A k \in Parents : api'[k] = api[k] /\ api'.job[k] = api.job[k]
    BY <1>5, <2>1, <2>2 DEF FailPod, PodRuns, TypeOK, Objects, Job, Parents
  <2> QED
    BY <1>1, <2>2, <2>3 DEF VersionFrame
<1> QED
  BY <1>2, <1>3, <1>4, <1>5

LEMMA EditVersionInv ==
  ASSUME TypeOK, VersionInv, NEW p \in Parents, EditParent(p) \/ StampParent(p)
  PROVE  VersionInv'
<1>1. UNCHANGED <<pc, cache, local, art>> /\ api'.job = api.job
  BY DEF EditParent, StampParent, TypeOK, Objects, Parents
<1>2. \A k \in Parents : api'[k].spec = api[k].spec \/ api'[k].spec = api[k].spec + 1
  BY DEF EditParent, StampParent, TypeOK, Objects, Parents, Parent
<1> QED
  BY <1>1, <1>2, VersionTypes DEF VersionInv, VersionsInOrder, ReadVersionsInOrder

LEMMA UploadVersionInv == TypeOK /\ VersionInv /\ UploadSecret => VersionInv'
<1> SUFFICES ASSUME TypeOK, VersionInv, UploadSecret PROVE VersionInv'
  OBVIOUS
<1>1. UNCHANGED <<pc, cache, local>> /\ api.job \in Job /\ api.job # NoJob
  BY DEF UploadSecret, PodRuns, TypeOK, Objects
<1>2. \A k \in Parents : /\ api'[k] = api[k]
                         /\ api'.job[k] = api.job[k]
                         /\ art'[k] = api.job[k]
  BY <1>1 DEF UploadSecret, TypeOK, Objects, Job, Artefacts, Parents
<1> QED
  BY <1>1, <1>2, VersionTypes DEF VersionInv, VersionsInOrder, ReadVersionsInOrder

LEMMA VersionsPreserved == TypeOK /\ VersionInv /\ [Next]_vars => VersionInv'
<1> SUFFICES ASSUME TypeOK, VersionInv, [Next]_vars PROVE VersionInv'
  OBVIOUS
<1>1. CASE Reconcile
  BY <1>1, ReadingVersionInv, SecretStepsVersionFrame, JobStepsVersionFrame,
     VersionFramePreserves, NotReadingPreserves, CreateJobVersionInv DEF Reconcile
<1>2. CASE (\E k \in Kinds : Sync(k)) \/ Crash
  BY <1>2, ManagerVersionInv
<1>3. CASE Resync \/ UNCHANGED vars
  BY <1>3, EnvironmentVersionFrame, VersionFramePreserves
<1>4. CASE Environment
  BY <1>4, EnvironmentVersionFrame, VersionFramePreserves, EditVersionInv, UploadVersionInv
  DEF Environment
<1> QED
  BY <1>1, <1>2, <1>3, <1>4 DEF Next

(* What is published was made from passwords and versions issued in this    *)
(* order, and so will be whatever the running Job and the running           *)
(* reconciliation hold.                                                     *)
THEOREM PublicationInvariant == Spec => []PublicationInv
<1>1. TypeOK /\ PublicationInv /\ [Next]_vars => PublicationInv'
  BY PasswordsPreserved, VersionsPreserved DEF PublicationInv, VersionInv
<1> QED
  BY <1>1, TypeCorrect, PublicationInvInitially, PTL DEF Spec

-----------------------------------------------------------------------------
(* The refinement. *)

(* What ConfigPublication sees of a step. *)
Unseen ==
  /\ UNCHANGED <<art, lastContent>>
  /\ \A k \in Parents : api'[k].spec = api[k].spec

LEMMA UnseenStutters == Unseen => UNCHANGED Publication!vars
  BY DEF Unseen, Parents, Publication!vars

LEMMA ReconcileRefines ==
  ASSUME TypeOK, Reconcile
  PROVE  [Publication!Next]_(Publication!vars)
<1>1. CASE CreateSecret \/ PatchSecret
  <2>1. PasswordIssued /\ VersionFrame
    BY <1>1, CreateSecretIssues, PatchSecretIssues, SecretStepsVersionFrame
  <2>2. CASE lastContent' = lastContent
    BY <2>1, <2>2, UnseenStutters DEF Unseen, PasswordIssued, VersionFrame
  <2>3. CASE lastContent' = lastContent + 1
    <3>1. Publication!Change("secret")
      BY <2>1, <2>3 DEF Publication!Change, PasswordIssued, VersionFrame, Parents
    <3> QED
      BY <3>1 DEF Publication!Next, Publication!Inputs
  <2> QED
    BY <2>1, <2>2, <2>3 DEF PasswordIssued
<1>2. CASE ~(CreateSecret \/ PatchSecret)
  <2>1. Unseen
    BY <1>2 DEF Reconcile, Load, LoadParents, JobBusy, JobUpToDate, JobOutdated, JobMissing,
                DeleteJob, CreateJob, CreateRabbitmqResources, PatchDevice, Unseen,
                TypeOK, Objects, Parents
  <2> QED
    BY <2>1, UnseenStutters
<1> QED
  BY <1>1, <1>2

LEMMA EnvironmentRefines ==
  ASSUME TypeOK, PublicationInv, PublicationInv', Environment
  PROVE  [Publication!Next]_(Publication!vars)
<1>1. ASSUME NEW k \in Parents, EditParent(k) PROVE Publication!Next
  <2>1. Publication!Change(k)
    BY <1>1 DEF EditParent, Publication!Change, TypeOK, Objects, Parents, Parent
  <2> QED
    BY <2>1 DEF Publication!Next, Publication!Inputs, Parents
<1>2. ASSUME NEW k \in Parents, StampParent(k) PROVE Unseen
  BY <1>2 DEF StampParent, Unseen, TypeOK, Objects, Parents, Parent
<1>3. CASE EditSecret
  <2>1. /\ art' = art /\ \A k \in Parents : api'[k] = api[k]
        /\ lastContent' = lastContent \/ lastContent' = lastContent + 1
    BY <1>3 DEF EditSecret, TypeOK, Objects, Parents
  <2>2. CASE lastContent' = lastContent
    BY <2>1, <2>2, UnseenStutters DEF Unseen
  <2>3. CASE lastContent' = lastContent + 1
    <3>1. Publication!Change("secret")
      BY <2>1, <2>3 DEF Publication!Change, Parents
    <3> QED
      BY <3>1 DEF Publication!Next, Publication!Inputs
  <2> QED
    BY <2>1, <2>2, <2>3
<1>4. CASE StoreHash
  <2>1. /\ api.secret # NoSecret /\ api.secret.pw # 0 /\ api.secret.pw \in Nat
        /\ UNCHANGED <<api, lastContent>>
        /\ art' = [art EXCEPT !.auth = api.secret.pw]
    BY <1>4 DEF StoreHash, PasswordReadable, TypeOK, Objects, Secret
  <2>2. art.auth <= api.secret.pw /\ api.secret.pw <= lastContent
    BY <2>1 DEF PublicationInv, PasswordsInOrder
  <2>3. Publication!Authorize
    BY <2>1, <2>2 DEF Publication!Authorize, TypeOK, Artefacts
  <2> QED
    BY <2>3 DEF Publication!Next
<1>5. CASE UploadSecret
  <2>1. /\ pod.step = "hashed" /\ api.job # NoJob
        /\ art' = [art EXCEPT !.secret = pod.pw, !.class = api.job.class,
                              !.cluster = api.job.cluster]
        /\ lastContent' = lastContent
        /\ \A k \in Parents : api'[k] = api[k]
    BY <1>5 DEF UploadSecret, PodRuns, TypeOK, Objects, Parents
  <2>2. /\ art.secret <= pod.pw /\ pod.pw <= art.auth
        /\ \A k \in Parents : art[k] <= api.job[k] /\ api.job[k] <= api[k].spec
    BY <2>1, VersionTypes DEF PublicationInv, PasswordsInOrder, VersionsInOrder
  <2>3. /\ pod.pw \in Nat /\ \A k \in Parents : api.job[k] \in Nat
    BY <2>1, VersionTypes DEF TypeOK, Pod
  <2>4. /\ art'.secret \in art.secret..art.auth
        /\ art'.class \in art.class..api.class.spec
        /\ art'.cluster \in art.cluster..api.cluster.spec
        /\ art'.auth = art.auth
    BY <2>1, <2>2, <2>3, VersionTypes DEF TypeOK, Artefacts, Parents
  <2>5. Publication!Publish
    BY <2>1, <2>4 DEF Publication!Publish, Parents
  <2> QED
    BY <2>5 DEF Publication!Next
<1>6. CASE DeleteSecret \/ BuildConfig \/ FailPod \/ RemoveJob \/ ImportCredentials
  <2>1. Unseen
    BY <1>6 DEF DeleteSecret, BuildConfig, FailPod, RemoveJob, ImportCredentials, Unseen,
                TypeOK, Objects, Parents
  <2> QED
    BY <2>1, UnseenStutters
<1> QED
  BY <1>1, <1>2, <1>3, <1>4, <1>5, <1>6, UnseenStutters DEF Environment

(* A step of the operator, of the Job or of their environment is a step of  *)
(* ConfigPublication or stutters.                                           *)
LEMMA StepRefines ==
  ASSUME TypeOK, PublicationInv, PublicationInv', [Next]_vars
  PROVE  [Publication!Next]_(Publication!vars)
<1>1. CASE (\E k \in Kinds : Sync(k)) \/ Resync \/ Crash \/ UNCHANGED vars
  <2>1. Unseen
    BY <1>1 DEF Sync, Resync, Crash, vars, Unseen
  <2> QED
    BY <2>1, UnseenStutters
<1> QED
  BY <1>1, ReconcileRefines, EnvironmentRefines DEF Next

LEMMA InitRefines == Init => Publication!Init
  BY DEF Init, NoParent, Publication!Init, Publication!Nothing

(* The operator keeps the promise of ConfigPublication under every lag of   *)
(* the informers, through every failure, lost answer and crash: a device    *)
(* never downloads a config made from older inputs than the one before.     *)
THEOREM PublicationImplemented == Spec => ImplementsPublication
  BY TypeCorrect, PublicationInvariant, InitRefines, StepRefines, PTL
  DEF Spec, ImplementsPublication, Publication!Spec
=============================================================================

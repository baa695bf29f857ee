----------------------- MODULE DeviceControllerProofs -----------------------
(* Theorems about DeviceController, for all values of its constants. *)
EXTENDS DeviceController, TLAPS

(* An absent object and the records that stand for nothing have their type. *)
LEMMA EmptyTypes ==
  /\ NewDevice \in Device
  /\ NoParent \in Parent
  /\ NewPod \in Pod
  /\ NoLocal \in Locals
<1>1. NewDevice \in Device
  BY DEF NewDevice, Device
<1>2. NoParent \in Parent
  BY DEF NoParent, Parent
<1>3. NewPod \in Pod
  BY DEF NewPod, Pod
<1>4. [pw |-> 0, hash |-> 0] \in Secret
  BY DEF Secret
<1> QED
  BY <1>1, <1>2, <1>3, <1>4 DEF NoLocal, Locals

(* An answer to a write spends at most one fault. *)
LEMMA AnswerType ==
  ASSUME NEW possible, NEW outcome, spent \in [Limited -> Nat], Answer(possible, outcome)
  PROVE  spent' \in [Limited -> Nat]
  BY DEF Answer, Spend, Limited

(* A merge patch of a device with devices is a device. *)
LEMMA MergePatchDevice ==
  ASSUME NEW base \in Device, NEW mod \in Device, NEW obj \in Device
  PROVE  MergePatch(base, mod, obj) \in Device
  BY DEF MergePatch, Device

LEMMA MergePatchSecret ==
  ASSUME NEW base \in Secret, NEW mod \in Secret, NEW obj \in Secret
  PROVE  MergePatch(base, mod, obj) \in Secret
  BY DEF MergePatch, Secret

LEMMA LeaveType ==
  ASSUME NEW again \in BOOLEAN, local \in Locals, Leave(again)
  PROVE  local' \in Locals /\ pc' = "patch"
  BY DEF Leave, Locals

(* What createSecret writes is a secret. *)
LEMMA CompletedType ==
  ASSUME lastContent \in Nat, NEW secret \in Secret
  PROVE  Completed(secret) \in Secret /\ Completed(secret).pw \in Nat
  BY DEF Completed, Secret

LEMMA LabelType ==
  ASSUME NEW device \in Device
  PROVE  WithSecretLabel(device) \in Device /\ WithClusterLabel(device) \in Device
  BY DEF WithSecretLabel, WithClusterLabel, Device

LEMMA SecretEnsuredType ==
  ASSUME NEW outcome, NEW secret, outcome = "done" => secret \in Secret,
         local \in Locals, SecretEnsured(outcome, secret)
  PROVE  local' \in Locals /\ pc' \in {"job", "patch"}
<1>1. CASE outcome = "done"
  <2>1. WithSecretLabel(local.device) \in Device
    BY LabelType DEF Locals
  <2> QED
    BY <1>1, <2>1 DEF SecretEnsured, Locals
<1>2. CASE outcome # "done"
  BY <1>2, LeaveType DEF SecretEnsured
<1> QED
  BY <1>1, <1>2

LEMMA LoadType == TypeOK /\ Load => TypeOK'
<1> SUFFICES ASSUME TypeOK, Load PROVE TypeOK'
  OBVIOUS
<1>1. cache.device \in Device
  BY DEF TypeOK, Objects
<1>2. local' \in Locals
  BY <1>1, EmptyTypes DEF Load, Locals
<1> QED
  BY <1>2 DEF TypeOK, Load

LEMMA LoadParentsType == TypeOK /\ LoadParents => TypeOK'
<1> SUFFICES ASSUME TypeOK, LoadParents PROVE TypeOK'
  OBVIOUS
<1>1. local' \in Locals /\ pc' \in {"patch", "secret"}
  <2>1. CASE Leave(TRUE)
    BY <2>1, LeaveType DEF TypeOK
  <2>2. CASE ~Leave(TRUE)
    <3>1. WithClusterLabel(local.device) \in Device
      BY LabelType DEF Locals, TypeOK
    <3>2. cache.class \in Parent /\ cache.cluster \in Parent
      BY DEF TypeOK, Objects
    <3> QED
      BY <2>2, <3>1, <3>2 DEF LoadParents, TypeOK, Locals
  <2> QED
    BY <2>1, <2>2
<1> QED
  BY <1>1 DEF TypeOK, LoadParents

LEMMA CreateSecretType == TypeOK /\ CreateSecret => TypeOK'
<1> SUFFICES ASSUME TypeOK, CreateSecret PROVE TypeOK'
  OBVIOUS
<1> DEFINE secret == [pw |-> lastContent + 1, hash |-> lastContent + 1]
<1>1. secret \in Secret
  BY DEF TypeOK, Secret
<1>2. PICK outcome \in Outcomes :
        /\ Answer(api.secret = NoSecret, outcome)
        /\ SecretEnsured(outcome, secret)
        /\ IF outcome = "refused"
             THEN UNCHANGED <<api, lastContent>>
             ELSE /\ api' = [api EXCEPT !.secret = secret]
                  /\ lastContent' = lastContent + 1
  BY DEF CreateSecret
<1>3. local' \in Locals /\ pc' \in {"job", "patch"}
  BY <1>1, <1>2, SecretEnsuredType DEF TypeOK
<1>4. api' \in Objects /\ lastContent' \in Nat
  BY <1>1, <1>2 DEF TypeOK, Objects
<1>5. spent' \in [Limited -> Nat]
  BY <1>2, AnswerType DEF TypeOK
<1> QED
  BY <1>3, <1>4, <1>5 DEF TypeOK, CreateSecret

LEMMA PatchSecretType == TypeOK /\ PatchSecret => TypeOK'
<1> SUFFICES ASSUME TypeOK, PatchSecret PROVE TypeOK'
  OBVIOUS
<1> DEFINE mod == Completed(cache.secret)
           secret == MergePatch(cache.secret, mod, api.secret)
<1>1. PICK outcome \in Outcomes :
        /\ Answer(api.secret # NoSecret, outcome)
        /\ SecretEnsured(outcome, secret)
        /\ IF outcome = "refused"
             THEN UNCHANGED <<api, lastContent>>
             ELSE /\ api' = [api EXCEPT !.secret = secret]
                  /\ lastContent' = IF cache.secret.pw = 0 THEN mod.pw ELSE lastContent
  BY DEF PatchSecret
<1>2. cache.secret \in Secret
  BY DEF TypeOK, Objects, PatchSecret
<1>3. mod \in Secret /\ mod.pw \in Nat
  BY <1>2, CompletedType DEF TypeOK
<1>4. outcome # "refused" => secret \in Secret
  <2>1. outcome # "refused" => api.secret \in Secret
    BY <1>1 DEF Answer, Outcomes, TypeOK, Objects
  <2> QED
    BY <1>2, <1>3, <2>1, MergePatchSecret
<1>5. local' \in Locals /\ pc' \in {"job", "patch"}
  BY <1>1, <1>4, SecretEnsuredType DEF TypeOK
<1>6. api' \in Objects /\ lastContent' \in Nat
  BY <1>1, <1>3, <1>4 DEF TypeOK, Objects
<1>7. spent' \in [Limited -> Nat]
  BY <1>1, AnswerType DEF TypeOK
<1> QED
  BY <1>5, <1>6, <1>7 DEF TypeOK, PatchSecret

LEMMA JobDecisionType ==
  TypeOK /\ (JobBusy \/ JobUpToDate \/ JobOutdated \/ JobMissing) => TypeOK'
<1> SUFFICES ASSUME TypeOK PROVE JobBusy \/ JobUpToDate \/ JobOutdated \/ JobMissing => TypeOK'
  OBVIOUS
<1>1. CASE JobBusy
  BY <1>1, LeaveType DEF TypeOK, JobBusy
<1>2. CASE JobUpToDate
  BY <1>2 DEF TypeOK, JobUpToDate
<1>3. CASE JobOutdated
  BY <1>3 DEF TypeOK, JobOutdated
<1>4. CASE JobMissing
  <2>1. Stamped(local.device, local.secret, local.class, local.cluster) \in Device
    BY DEF TypeOK, Locals, Stamped, Device, Secret, Parent
  <2>2. local' \in Locals
    BY <1>4, <2>1 DEF TypeOK, JobMissing, Locals
  <2> QED
    BY <1>4, <2>2 DEF TypeOK, JobMissing
<1> QED
  BY <1>1, <1>2, <1>3, <1>4

LEMMA DeleteJobType == TypeOK /\ DeleteJob => TypeOK'
<1> SUFFICES ASSUME TypeOK, DeleteJob PROVE TypeOK'
  OBVIOUS
<1>1. PICK outcome \in Outcomes :
        /\ Answer(api.job # NoJob, outcome)
        /\ api' = IF outcome = "refused" THEN api ELSE [api EXCEPT !.job.deleting = TRUE]
  BY DEF DeleteJob
<1>2. outcome # "refused" => api.job \in Job
  BY <1>1 DEF Answer, Outcomes, TypeOK, Objects
<1>3. outcome # "refused" => [api.job EXCEPT !.deleting = TRUE] \in Job
  BY <1>2 DEF Job
<1>4. api' \in Objects
  BY <1>1, <1>3 DEF TypeOK, Objects
<1>5. local' \in Locals /\ pc' = "patch"
  BY LeaveType DEF TypeOK, DeleteJob
<1>6. spent' \in [Limited -> Nat]
  BY <1>1, AnswerType DEF TypeOK
<1> QED
  BY <1>4, <1>5, <1>6 DEF TypeOK, DeleteJob

LEMMA NewJobType ==
  ASSUME NEW class \in Parent, NEW cluster \in Parent
  PROVE  NewJob(class, cluster) \in Job
  BY DEF NewJob, Job, Parent

LEMMA CreateJobType == TypeOK /\ CreateJob => TypeOK'
<1> SUFFICES ASSUME TypeOK, CreateJob PROVE TypeOK'
  OBVIOUS
<1>1. PICK outcome \in Outcomes :
        /\ Answer(api.job = NoJob, outcome)
        /\ IF outcome = "refused"
             THEN UNCHANGED <<api, pod>>
             ELSE /\ api' = [api EXCEPT !.job = NewJob(local.class, local.cluster)]
                  /\ pod' = NewPod
        /\ IF outcome = "done" THEN pc' = "rabbitmq" /\ UNCHANGED local ELSE Leave(TRUE)
  BY DEF CreateJob
<1>2. NewJob(local.class, local.cluster) \in Job
  BY NewJobType DEF TypeOK, Locals
<1>3. api' \in Objects
  BY <1>1, <1>2 DEF TypeOK, Objects
<1>4. pod' \in Pod
  BY <1>1, EmptyTypes DEF TypeOK
<1>5. local' \in Locals /\ pc' \in {"rabbitmq", "patch"}
  BY <1>1, LeaveType DEF TypeOK
<1>6. spent' \in [Limited -> Nat]
  BY <1>1, AnswerType DEF TypeOK
<1> QED
  BY <1>3, <1>4, <1>5, <1>6 DEF TypeOK, CreateJob

LEMMA CreateRabbitmqResourcesType == TypeOK /\ CreateRabbitmqResources => TypeOK'
<1> SUFFICES ASSUME TypeOK, CreateRabbitmqResources PROVE TypeOK'
  OBVIOUS
<1>1. PICK k \in 0..3, ok \in BOOLEAN :
        /\ IF ok THEN UNCHANGED spent ELSE Spend("faults")
        /\ rmq' = [rmq EXCEPT !.made = IF k > @ THEN k ELSE @,
                              !.due = @ \/ k > 0,
                              !.topic = IF k = 3 THEN local.cluster.spec ELSE @]
        /\ Leave(~ok)
  BY DEF CreateRabbitmqResources
<1>2. local.cluster.spec \in Nat
  BY DEF TypeOK, Locals, Parent
<1>3. rmq' \in Broker
  BY <1>1, <1>2 DEF TypeOK, Broker
<1>4. local' \in Locals /\ pc' = "patch"
  BY <1>1, LeaveType DEF TypeOK
<1>5. spent' \in [Limited -> Nat]
  BY <1>1 DEF TypeOK, Spend, Limited
<1> QED
  BY <1>3, <1>4, <1>5 DEF TypeOK, CreateRabbitmqResources

LEMMA PatchDeviceType == TypeOK /\ PatchDevice => TypeOK'
<1> SUFFICES ASSUME TypeOK, PatchDevice PROVE TypeOK'
  OBVIOUS
<1>1. PICK outcome \in Outcomes :
        /\ Answer(TRUE, outcome)
        /\ api' = IF outcome = "refused" THEN api
                  ELSE [api EXCEPT !.device = MergePatch(local.base, local.device, @)]
        /\ queued' = (queued \/ local.again \/ outcome # "done")
  BY DEF PatchDevice
<1>2. MergePatch(local.base, local.device, api.device) \in Device
  BY MergePatchDevice DEF TypeOK, Locals, Objects
<1>3. api' \in Objects
  BY <1>1, <1>2 DEF TypeOK, Objects
<1>4. queued' \in BOOLEAN
  BY <1>1 DEF TypeOK
<1>5. spent' \in [Limited -> Nat]
  BY <1>1, AnswerType DEF TypeOK
<1> QED
  BY <1>3, <1>4, <1>5, EmptyTypes DEF TypeOK, PatchDevice

LEMMA ReconcileType == TypeOK /\ Reconcile => TypeOK'
  BY LoadType, LoadParentsType, CreateSecretType, PatchSecretType, JobDecisionType,
     DeleteJobType, CreateJobType, CreateRabbitmqResourcesType, PatchDeviceType
  DEF Reconcile

LEMMA ManagerType ==
  TypeOK /\ ((\E k \in Kinds : Sync(k)) \/ Resync \/ Crash) => TypeOK'
<1> SUFFICES ASSUME TypeOK
             PROVE  (\E k \in Kinds : Sync(k)) \/ Resync \/ Crash => TypeOK'
  OBVIOUS
<1>1. ASSUME NEW k \in Kinds, Sync(k) PROVE TypeOK'
  BY <1>1 DEF TypeOK, Sync, Wakes, Kinds, Objects
<1>2. CASE Resync
  BY <1>2 DEF TypeOK, Resync
<1>3. CASE Crash
  BY <1>3, EmptyTypes DEF TypeOK, Crash, Spend, Limited
<1> QED
  BY <1>1, <1>2, <1>3

LEMMA EnvironmentType == TypeOK /\ Environment => TypeOK'
<1> SUFFICES ASSUME TypeOK PROVE Environment => TypeOK'
  OBVIOUS
<1>1. ASSUME NEW k \in Parents, EditParent(k) PROVE TypeOK'
  BY <1>1 DEF TypeOK, EditParent, Parents, Objects, Parent
<1>2. ASSUME NEW k \in Parents, StampParent(k) PROVE TypeOK'
  BY <1>2 DEF TypeOK, StampParent, Parents, Objects, Parent
<1>3. CASE EditSecret
  <2>1. api' \in Objects /\ lastContent' \in Nat
    BY <1>3 DEF TypeOK, EditSecret, Objects, Secret
  <2> QED
    BY <1>3, <2>1 DEF TypeOK, EditSecret, Spend, Limited
<1>4. CASE DeleteSecret
  BY <1>4 DEF TypeOK, DeleteSecret, Spend, Limited, Objects
<1>5. CASE BuildConfig
  BY <1>5 DEF TypeOK, BuildConfig, PasswordReadable, Objects, Secret, Pod
<1>6. CASE StoreHash
  BY <1>6 DEF TypeOK, StoreHash, PasswordReadable, Objects, Secret, Pod, Artefacts
<1>7. CASE UploadSecret
  <2>1. api.job \in Job
    BY <1>7 DEF UploadSecret, PodRuns, TypeOK, Objects
  <2>2. [api.job EXCEPT !.done = TRUE] \in Job
    BY <2>1 DEF Job
  <2>3. api' \in Objects
    BY <1>7, <2>2 DEF UploadSecret, TypeOK, Objects
  <2>4. art' \in Artefacts
    BY <1>7, <2>1 DEF UploadSecret, TypeOK, Artefacts, Job, Pod
  <2> QED
    BY <1>7, <2>3, <2>4 DEF UploadSecret, TypeOK
<1>8. CASE FailPod
  <2>1. api.job \in Job
    BY <1>8 DEF FailPod, PodRuns, TypeOK, Objects
  <2>2. [api.job EXCEPT !.failed = TRUE] \in Job
    BY <2>1 DEF Job
  <2>3. api' \in Objects
    BY <1>8, <2>2 DEF FailPod, TypeOK, Objects
  <2>4. pod' \in Pod
    BY <1>8 DEF FailPod, TypeOK, Pod, NewPod
  <2> QED
    BY <1>8, <2>3, <2>4 DEF FailPod, TypeOK, Spend, Limited
<1>9. CASE RemoveJob
  BY <1>9, EmptyTypes DEF TypeOK, RemoveJob, Objects
<1>10. CASE ImportCredentials
  BY <1>10 DEF TypeOK, ImportCredentials, PasswordReadable, Objects, Secret, Broker
<1> QED
  BY <1>1, <1>2, <1>3, <1>4, <1>5, <1>6, <1>7, <1>8, <1>9, <1>10 DEF Environment

LEMMA InitType == Init => TypeOK
<1> SUFFICES ASSUME Init PROVE TypeOK
  OBVIOUS
<1>1. api \in Objects
  BY EmptyTypes DEF Init, Objects
<1> QED
  BY <1>1, EmptyTypes DEF Init, TypeOK, Artefacts, Broker, Limited

LEMMA StutterType == TypeOK /\ UNCHANGED vars => TypeOK'
  BY DEF TypeOK, vars

(* Every reachable state is well typed: each write of the reconciler, also *)
(* one computed from stale copies, yields objects of their kinds.          *)
THEOREM TypeCorrect == Spec => []TypeOK
<1>1. TypeOK /\ [Next]_vars => TypeOK'
  BY ReconcileType, ManagerType, EnvironmentType, StutterType DEF Next
<1> QED
  BY InitType, <1>1, PTL DEF Spec

-----------------------------------------------------------------------------
(* A Job is deleted only when it is completed.  What makes this hold under *)
(* every lag: a Job is only created when the cached copy is gone, so a copy *)
(* that says "completed" is never a copy of an earlier Job while a newer    *)
(* one runs.                                                                *)

CachedJobFollows ==
  cache.job # NoJob /\ api.job # NoJob =>
    (cache.job.done => api.job.done)

DeletingJobIsDone ==
  api.job # NoJob /\ api.job.deleting => api.job.done /\ cache.job # NoJob

DeleteSeesDoneJob ==
  pc = "delete" /\ api.job # NoJob => api.job.done /\ cache.job # NoJob

CreateSeesNoOldJob ==
  pc = "create" => IF api.job = NoJob THEN cache.job = NoJob ELSE ~api.job.deleting

JobInv ==
  /\ CachedJobFollows
  /\ DeletingJobIsDone
  /\ DeleteSeesDoneJob
  /\ CreateSeesNoOldJob

(* The steps that leave the Job, its copy and the two critical steps alone. *)
JobFrame ==
  /\ api'.job = api.job
  /\ cache'.job = cache.job
  /\ pc' = pc \/ pc' \notin {"delete", "create"}

LEMMA JobFramePreserves == JobInv /\ JobFrame => JobInv'
  BY DEF JobInv, JobFrame, CachedJobFollows, DeletingJobIsDone, DeleteSeesDoneJob,
         CreateSeesNoOldJob

LEMMA ReconcileJobFrame ==
  ASSUME TypeOK,
         \/ Load \/ LoadParents \/ CreateSecret \/ PatchSecret
         \/ JobBusy \/ JobUpToDate \/ CreateRabbitmqResources \/ PatchDevice
  PROVE  JobFrame
<1>1. CASE Load
  BY <1>1 DEF Load, JobFrame
<1>2. CASE LoadParents
  BY <1>2 DEF LoadParents, Leave, JobFrame
<1>3. CASE CreateSecret
  BY <1>3 DEF CreateSecret, SecretEnsured, Leave, JobFrame, TypeOK, Objects
<1>4. CASE PatchSecret
  BY <1>4 DEF PatchSecret, SecretEnsured, Leave, JobFrame, TypeOK, Objects
<1>5. CASE JobBusy
  BY <1>5 DEF JobBusy, Leave, JobFrame
<1>6. CASE JobUpToDate
  BY <1>6 DEF JobUpToDate, JobFrame
<1>7. CASE CreateRabbitmqResources
  BY <1>7 DEF CreateRabbitmqResources, Leave, JobFrame
<1>8. CASE PatchDevice
  BY <1>8 DEF PatchDevice, JobFrame, TypeOK, Objects
<1> QED
  BY <1>1, <1>2, <1>3, <1>4, <1>5, <1>6, <1>7, <1>8

LEMMA EnvironmentJobFrame ==
  ASSUME TypeOK,
         \/ \E k \in Parents : EditParent(k) \/ StampParent(k)
         \/ EditSecret \/ DeleteSecret \/ BuildConfig \/ StoreHash \/ ImportCredentials
         \/ Resync
  PROVE  JobFrame
<1>1. ASSUME NEW k \in Parents, EditParent(k) \/ StampParent(k) PROVE JobFrame
  BY <1>1 DEF EditParent, StampParent, Parents, JobFrame, TypeOK, Objects
<1>2. CASE EditSecret \/ DeleteSecret
  BY <1>2 DEF EditSecret, DeleteSecret, JobFrame, TypeOK, Objects
<1>3. CASE BuildConfig \/ StoreHash \/ ImportCredentials \/ Resync
  BY <1>3 DEF BuildConfig, StoreHash, ImportCredentials, Resync, JobFrame
<1> QED
  BY <1>1, <1>2, <1>3

LEMMA DecisionJobInv == TypeOK /\ JobInv /\ (JobOutdated \/ JobMissing) => JobInv'
<1> SUFFICES ASSUME TypeOK, JobInv PROVE JobOutdated \/ JobMissing => JobInv'
  OBVIOUS
<1>1. CASE JobOutdated
  <2>1. api.job # NoJob => api.job.done /\ cache.job # NoJob
    BY <1>1 DEF JobOutdated, Busy, JobInv, CachedJobFollows
  <2> QED
    BY <1>1, <2>1 DEF JobOutdated, JobInv, CachedJobFollows, DeletingJobIsDone,
                      DeleteSeesDoneJob, CreateSeesNoOldJob
<1>2. CASE JobMissing
  BY <1>2 DEF JobMissing, JobInv, CachedJobFollows, DeletingJobIsDone,
              DeleteSeesDoneJob, CreateSeesNoOldJob
<1> QED
  BY <1>1, <1>2

LEMMA DeleteJobInv == TypeOK /\ JobInv /\ DeleteJob => JobInv'
<1> SUFFICES ASSUME TypeOK, JobInv, DeleteJob PROVE JobInv'
  OBVIOUS
<1>1. cache'.job = cache.job /\ pc' = "patch"
  BY DEF DeleteJob, Leave
<1>2. CASE api' = api
  BY <1>1, <1>2, JobFramePreserves DEF JobFrame
<1>3. CASE api' = [api EXCEPT !.job.deleting = TRUE] /\ api.job # NoJob
  <2>1. api.job \in Job /\ api.job.done /\ cache.job # NoJob
    BY <1>3 DEF TypeOK, Objects, DeleteJob, JobInv, DeleteSeesDoneJob
  <2>2. api'.job.done /\ api'.job # NoJob
    BY <1>3, <2>1, AbsentAssumption DEF TypeOK, Objects, Job
  <2> QED
    BY <1>1, <2>1, <2>2 DEF JobInv, CachedJobFollows, DeletingJobIsDone,
                            DeleteSeesDoneJob, CreateSeesNoOldJob
<1> QED
  BY <1>2, <1>3 DEF DeleteJob, Answer, Outcomes

LEMMA CreateJobInv == TypeOK /\ JobInv /\ CreateJob => JobInv'
<1> SUFFICES ASSUME TypeOK, JobInv, CreateJob PROVE JobInv'
  OBVIOUS
<1>1. cache'.job = cache.job /\ pc' \in {"rabbitmq", "patch"}
  BY DEF CreateJob, Leave
<1>2. CASE api' = api
  BY <1>1, <1>2, JobFramePreserves DEF JobFrame
<1>3. CASE api' = [api EXCEPT !.job = NewJob(local.class, local.cluster)] /\ api.job = NoJob
  <2>1. cache'.job = NoJob
    BY <1>1, <1>3 DEF CreateJob, JobInv, CreateSeesNoOldJob
  <2>2. ~api'.job.deleting
    BY <1>3 DEF TypeOK, Objects, NewJob
  <2> QED
    BY <1>1, <2>1, <2>2 DEF JobInv, CachedJobFollows, DeletingJobIsDone,
                            DeleteSeesDoneJob, CreateSeesNoOldJob
<1> QED
  BY <1>2, <1>3 DEF CreateJob, Answer, Outcomes

LEMMA SyncJobInv ==
  ASSUME NEW k \in Kinds, TypeOK, JobInv, Sync(k) PROVE JobInv'
<1>1. CASE k # "job"
  <2>1. JobFrame
    BY <1>1 DEF Sync, Kinds, JobFrame, TypeOK, Objects
  <2> QED
    BY <2>1, JobFramePreserves
<1>2. CASE k = "job"
  <2>1. cache'.job = api.job /\ api' = api /\ pc' = pc
    BY <1>2 DEF Sync, TypeOK, Objects
  <2> QED
    BY <2>1 DEF JobInv, CachedJobFollows, DeletingJobIsDone, DeleteSeesDoneJob,
                CreateSeesNoOldJob
<1> QED
  BY <1>1, <1>2

LEMMA CrashJobInv == TypeOK /\ JobInv /\ Crash => JobInv'
  BY DEF Crash, JobInv, CachedJobFollows, DeletingJobIsDone, DeleteSeesDoneJob,
         CreateSeesNoOldJob

LEMMA PodJobInv == TypeOK /\ JobInv /\ (UploadSecret \/ FailPod \/ RemoveJob) => JobInv'
<1> SUFFICES ASSUME TypeOK, JobInv PROVE UploadSecret \/ FailPod \/ RemoveJob => JobInv'
  OBVIOUS
<1>1. CASE UploadSecret
  <2>1. /\ api.job # NoJob /\ api.job \in Job
        /\ api'.job = [api.job EXCEPT !.done = TRUE]
        /\ cache'.job = cache.job /\ pc' = pc
    BY <1>1 DEF UploadSecret, PodRuns, TypeOK, Objects
  <2>2. api'.job.done /\ api'.job.deleting = api.job.deleting /\ api'.job # NoJob
    BY <2>1, AbsentAssumption DEF Job
  <2> QED
    BY <2>1, <2>2 DEF JobInv, CachedJobFollows, DeletingJobIsDone, DeleteSeesDoneJob,
                      CreateSeesNoOldJob
<1>2. CASE FailPod
  <2>1. /\ api.job # NoJob /\ api.job \in Job
        /\ api'.job = api.job \/ api'.job = [api.job EXCEPT !.failed = TRUE]
        /\ cache'.job = cache.job /\ pc' = pc
    BY <1>2 DEF FailPod, PodRuns, TypeOK, Objects
  <2>2. /\ api'.job.done = api.job.done
        /\ api'.job.deleting = api.job.deleting
        /\ api'.job # NoJob
    BY <2>1, AbsentAssumption DEF Job
  <2> QED
    BY <2>1, <2>2 DEF JobInv, CachedJobFollows, DeletingJobIsDone, DeleteSeesDoneJob,
                      CreateSeesNoOldJob
<1>3. CASE RemoveJob
  <2>1. /\ api.job # NoJob /\ api.job.deleting /\ api'.job = NoJob
        /\ cache'.job = cache.job /\ pc' = pc
    BY <1>3 DEF RemoveJob, TypeOK, Objects
  <2> QED
    BY <2>1 DEF JobInv, CachedJobFollows, DeletingJobIsDone, DeleteSeesDoneJob,
                CreateSeesNoOldJob
<1> QED
  BY <1>1, <1>2, <1>3

LEMMA JobInvPreserved == TypeOK /\ JobInv /\ [Next]_vars => JobInv'
<1> SUFFICES ASSUME TypeOK, JobInv, [Next]_vars PROVE JobInv'
  OBVIOUS
<1>1. CASE Reconcile
  BY <1>1, ReconcileJobFrame, JobFramePreserves, DecisionJobInv, DeleteJobInv, CreateJobInv
  DEF Reconcile
<1>2. CASE \E k \in Kinds : Sync(k)
  BY <1>2, SyncJobInv
<1>3. CASE Resync
  BY <1>3, EnvironmentJobFrame, JobFramePreserves
<1>4. CASE Crash
  BY <1>4, CrashJobInv
<1>5. CASE Environment
  BY <1>5, EnvironmentJobFrame, JobFramePreserves, PodJobInv DEF Environment
<1>6. CASE UNCHANGED vars
  BY <1>6, JobFramePreserves DEF JobFrame, vars
<1> QED
  BY <1>1, <1>2, <1>3, <1>4, <1>5, <1>6 DEF Next

LEMMA JobInvInitially == Init => JobInv
  BY DEF Init, JobInv, CachedJobFollows, DeletingJobIsDone, DeleteSeesDoneJob,
         CreateSeesNoOldJob

THEOREM JobInvariant == Spec => []JobInv
  BY TypeCorrect, JobInvInitially, JobInvPreserved, PTL DEF Spec

(* No step marks a Job as being deleted that has not completed.             *)
LEMMA OnlyDoneMarked ==
  ASSUME TypeOK, JobInv, [Next]_vars
  PROVE  \/ api.job = NoJob
         \/ api'.job = NoJob
         \/ api'.job.deleting => api.job.deleting \/ api.job.done
<1> DEFINE Goal == \/ api.job = NoJob
                   \/ api'.job = NoJob
                   \/ api'.job.deleting => api.job.deleting \/ api.job.done
<1> SUFFICES Goal
  OBVIOUS
<1>1. CASE JobFrame
  BY <1>1 DEF JobFrame
<1>2. CASE api' = api
  BY <1>2
<1>3. CASE DeleteJob
  BY <1>3 DEF DeleteJob, JobInv, DeleteSeesDoneJob
<1>4. CASE CreateJob
  BY <1>4 DEF CreateJob, Answer, Outcomes
<1>5. CASE UploadSecret \/ FailPod
  <2>1. api.job = NoJob \/ api.job \in Job
    BY DEF TypeOK, Objects
  <2> QED
    BY <1>5, <2>1 DEF UploadSecret, FailPod, TypeOK, Objects, Job
<1>6. CASE RemoveJob
  BY <1>6 DEF RemoveJob, TypeOK, Objects
<1>7. CASE Reconcile
  <2>1. CASE JobOutdated \/ JobMissing
    BY <1>2, <2>1 DEF JobOutdated, JobMissing
  <2> QED
    BY <1>1, <1>3, <1>4, <1>7, <2>1, ReconcileJobFrame DEF Reconcile
<1>8. CASE Environment
  BY <1>1, <1>5, <1>6, <1>8, EnvironmentJobFrame DEF Environment
<1>9. CASE (\E k \in Kinds : Sync(k)) \/ Resync \/ Crash \/ UNCHANGED vars
  BY <1>2, <1>9 DEF Sync, Resync, Crash, vars
<1> QED
  BY <1>7, <1>8, <1>9 DEF Next

(* Under every lag of the informers, through every failure and crash, the   *)
(* reconciler deletes no Job that has not completed.                        *)
THEOREM OnlyFinishedBuildsDeletedHolds == Spec => OnlyFinishedBuildsDeleted
<1>1. TypeOK /\ JobInv /\ [Next]_vars
        => [ \/ api.job = NoJob
             \/ api'.job = NoJob
             \/ api'.job.deleting => api.job.deleting \/ api.job.done ]_vars
  BY OnlyDoneMarked
<1> QED
  BY <1>1, TypeCorrect, JobInvariant, PTL DEF Spec, OnlyFinishedBuildsDeleted

-----------------------------------------------------------------------------
(* The stamps of the class and the cluster on the device never go back,     *)
(* although the patch is computed from a copy that may be stale: a stamp is *)
(* only written after a hash was read that is at least as new as every hash *)
(* read before, because an informer's copy only moves forward.              *)

HashesInOrder ==
  \A k \in Parents : /\ api.device[k] <= cache[k].hash
                     /\ cache[k].hash <= api[k].hash

(* What the reconciliation has read is newer than the stamps it replaces.   *)
ReadIsNewer ==
  pc \in {"secret", "job", "delete", "create", "rabbitmq"} =>
    \A k \in Parents : /\ api.device[k] <= local[k].hash
                       /\ local[k].hash <= cache[k].hash

(* A stamp it has changed is newer than the one it replaces.                *)
NewStampIsNewer ==
  \A k \in Parents :
    \/ local.device[k] = local.base[k]
    \/ /\ api.device[k] <= local.device[k]
       /\ local.device[k] <= cache[k].hash

StampInv == HashesInOrder /\ ReadIsNewer /\ NewStampIsNewer

(* The steps that leave the stamps, hashes and copies of the parents alone. *)
StampFrame ==
  /\ api'.device = api.device
  /\ \A k \in Parents : api'[k].hash = api[k].hash
  /\ \A k \in Parents : cache'[k] = cache[k]
  /\ pc' = pc \/ pc' = "patch" \/ pc \in {"secret", "job", "delete", "create"}
  /\ \A k \in Parents : local'[k] = local[k]
  /\ \A k \in Parents : local'.device[k] = local.device[k] /\ local'.base[k] = local.base[k]

LEMMA StampFramePreserves == StampInv /\ StampFrame => StampInv'
  BY DEF StampInv, StampFrame, HashesInOrder, ReadIsNewer, NewStampIsNewer

LEMMA SecretStepsStampFrame ==
  ASSUME TypeOK, CreateSecret \/ PatchSecret PROVE StampFrame
<1>1. /\ pc = "secret" /\ UNCHANGED cache
      /\ \E outcome \in Outcomes : \E secret : SecretEnsured(outcome, secret)
      /\ \A k \in Kinds : k # "secret" => api'[k] = api[k]
  BY DEF CreateSecret, PatchSecret, TypeOK, Objects, Kinds
<1>2. \A k \in Parents : /\ local'[k] = local[k]
                         /\ local'.device[k] = local.device[k]
                         /\ local'.base[k] = local.base[k]
  <2>1. PICK outcome \in Outcomes : \E secret : SecretEnsured(outcome, secret)
    BY <1>1
  <2>2. \A k \in Parents : WithSecretLabel(local.device)[k] = local.device[k]
    BY DEF WithSecretLabel, TypeOK, Locals, Device, Parents
  <2>3. CASE outcome = "done"
    BY <2>1, <2>2, <2>3 DEF SecretEnsured, TypeOK, Locals, Parents
  <2>4. CASE outcome # "done"
    BY <2>1, <2>4 DEF SecretEnsured, Leave, TypeOK, Locals, Parents
  <2> QED
    BY <2>3, <2>4
<1> QED
  BY <1>1, <1>2 DEF StampFrame, Kinds, Parents

LEMMA JobStepsStampFrame ==
  ASSUME TypeOK,
         JobBusy \/ JobUpToDate \/ JobOutdated \/ DeleteJob \/ CreateJob \/ CreateRabbitmqResources
  PROVE  StampFrame
<1>1. /\ pc \in {"job", "delete", "create", "rabbitmq"} /\ UNCHANGED cache
      /\ pc' = "patch" \/ pc \in {"job", "create"}
      /\ local' = local \/ \E again \in BOOLEAN : Leave(again)
      /\ \A k \in Kinds : k # "job" => api'[k] = api[k]
  BY DEF JobBusy, JobUpToDate, JobOutdated, DeleteJob, CreateJob, CreateRabbitmqResources,
         Leave, TypeOK, Objects, Kinds
<1>2. \A k \in Parents : /\ local'[k] = local[k]
                         /\ local'.device[k] = local.device[k]
                         /\ local'.base[k] = local.base[k]
  BY <1>1 DEF Leave, TypeOK, Locals, Parents
<1> QED
  BY <1>1, <1>2 DEF StampFrame, Kinds, Parents

LEMMA EnvironmentStampFrame ==
  ASSUME TypeOK,
         \/ \E k \in Parents : EditParent(k)
         \/ EditSecret \/ DeleteSecret \/ BuildConfig \/ StoreHash \/ UploadSecret
         \/ FailPod \/ RemoveJob \/ ImportCredentials \/ Resync \/ UNCHANGED vars
  PROVE  StampFrame
<1>1. ASSUME NEW k \in Parents, EditParent(k) PROVE StampFrame
  BY <1>1 DEF EditParent, Parents, StampFrame, TypeOK, Objects, Parent
<1>2. CASE EditSecret \/ DeleteSecret \/ UploadSecret \/ FailPod \/ RemoveJob
  <2>1. /\ \A k \in Kinds : k \notin {"secret", "job"} => api'[k] = api[k]
        /\ UNCHANGED <<cache, pc, local>>
    BY <1>2 DEF EditSecret, DeleteSecret, UploadSecret, FailPod, RemoveJob, TypeOK,
                Objects, Kinds
  <2> QED
    BY <2>1 DEF StampFrame, Kinds, Parents
<1>3. CASE BuildConfig \/ StoreHash \/ ImportCredentials \/ Resync \/ UNCHANGED vars
  BY <1>3 DEF BuildConfig, StoreHash, ImportCredentials, Resync, vars, StampFrame
<1> QED
  BY <1>1, <1>2, <1>3

LEMMA LoadStampInv == TypeOK /\ StampInv /\ Load => StampInv'
<1> SUFFICES ASSUME TypeOK, StampInv, Load PROVE StampInv'
  OBVIOUS
<1>1. /\ UNCHANGED <<api, cache>> /\ pc' = "parents"
      /\ local'.device = local'.base
  BY DEF Load, NoLocal
<1> QED
  BY <1>1 DEF StampInv, HashesInOrder, ReadIsNewer, NewStampIsNewer

LEMMA LoadParentsStampInv == TypeOK /\ StampInv /\ LoadParents => StampInv'
<1> SUFFICES ASSUME TypeOK, StampInv, LoadParents PROVE StampInv'
  OBVIOUS
<1>1. UNCHANGED <<api, cache>>
  BY DEF LoadParents
<1>2. CASE Leave(TRUE)
  <2>1. local'.device = local.device /\ local'.base = local.base /\ pc' = "patch"
    BY <1>2 DEF Leave, TypeOK, Locals
  <2> QED
    BY <1>1, <2>1 DEF StampInv, HashesInOrder, ReadIsNewer, NewStampIsNewer
<1>3. CASE /\ pc' = "secret"
           /\ local' = [local EXCEPT !.class = cache.class, !.cluster = cache.cluster,
                                     !.device = WithClusterLabel(@)]
  <2>1. \A k \in Parents : /\ local'[k] = cache[k]
                           /\ local'.device[k] = local.device[k]
                           /\ local'.base[k] = local.base[k]
    BY <1>3 DEF WithClusterLabel, TypeOK, Locals, Parents, Device
  <2>2. \A k \in Parents : cache[k].hash \in Nat
    BY DEF TypeOK, Objects, Parents, Parent
  <2> QED
    BY <1>1, <1>3, <2>1, <2>2 DEF StampInv, HashesInOrder, ReadIsNewer, NewStampIsNewer
<1> QED
  BY <1>2, <1>3 DEF LoadParents

LEMMA JobMissingStampInv == TypeOK /\ StampInv /\ JobMissing => StampInv'
<1> SUFFICES ASSUME TypeOK, StampInv, JobMissing PROVE StampInv'
  OBVIOUS
<1>1. UNCHANGED <<api, cache>> /\ pc = "job" /\ pc' = "create"
  BY DEF JobMissing
<1>2. \A k \in Parents : /\ local'[k] = local[k]
                         /\ local'.device[k] = local[k].hash
  BY DEF JobMissing, Stamped, TypeOK, Locals, Parents, Device
<1> QED
  BY <1>1, <1>2 DEF StampInv, HashesInOrder, ReadIsNewer, NewStampIsNewer

(* What the final Patch does to the stamps of the parents. *)
LEMMA PatchDeviceStamps ==
  ASSUME TypeOK, StampInv, PatchDevice
  PROVE  \A k \in Parents : /\ api.device[k] <= api'.device[k]
                            /\ api'.device[k] <= cache[k].hash
<1>1. \/ api' = api
      \/ api'.device = MergePatch(local.base, local.device, api.device)
  BY DEF PatchDevice, TypeOK, Objects
<1>2. \A k \in Parents : api.device[k] \in Nat /\ api.device[k] <= cache[k].hash
  BY DEF TypeOK, Objects, Device, Parents, StampInv, HashesInOrder
<1>3. ASSUME NEW k \in Parents
      PROVE  MergePatch(local.base, local.device, api.device)[k] =
               IF local.device[k] # local.base[k] THEN local.device[k] ELSE api.device[k]
  BY DEF MergePatch, TypeOK, Objects, Device, Parents
<1> QED
  BY <1>1, <1>2, <1>3 DEF StampInv, NewStampIsNewer

LEMMA PatchDeviceStampInv == TypeOK /\ StampInv /\ PatchDevice => StampInv'
<1> SUFFICES ASSUME TypeOK, StampInv, PatchDevice PROVE StampInv'
  OBVIOUS
<1>1. cache' = cache /\ pc' = "idle" /\ local'.device = local'.base
  BY DEF PatchDevice, NoLocal
<1>2. \A k \in Parents : api'[k] = api[k]
  BY DEF PatchDevice, TypeOK, Objects, Parents
<1> QED
  BY <1>1, <1>2, PatchDeviceStamps DEF StampInv, HashesInOrder, ReadIsNewer, NewStampIsNewer

LEMMA SyncStampInv ==
  ASSUME NEW kind \in Kinds, TypeOK, StampInv, Sync(kind) PROVE StampInv'
<1>1. UNCHANGED <<api, pc, local>>
  BY DEF Sync
<1>2. \A k \in Parents : cache'[k] = cache[k] \/ cache'[k] = api[k]
  BY DEF Sync, TypeOK, Objects, Kinds, Parents
<1>3. \A k \in Parents : /\ cache[k].hash \in Nat /\ api[k].hash \in Nat
                         /\ api.device[k] \in Nat
                         /\ local[k].hash \in Nat /\ local.device[k] \in Nat
  BY DEF TypeOK, Objects, Locals, Parents, Parent, Device
<1> QED
  BY <1>1, <1>2, <1>3 DEF StampInv, HashesInOrder, ReadIsNewer, NewStampIsNewer

LEMMA StampParentStampInv ==
  ASSUME NEW kind \in Parents, TypeOK, StampInv, StampParent(kind) PROVE StampInv'
<1>1. UNCHANGED <<cache, pc, local>> /\ api'.device = api.device
  BY DEF StampParent, TypeOK, Objects, Parents
<1>2. \A k \in Parents : cache[k].hash \in Nat /\ api[k].hash \in Nat /\ api[k].spec \in Nat
  BY DEF TypeOK, Objects, Parents, Parent
<1>3. \A k \in Parents : api'[k].hash >= api[k].hash /\ api'[k].hash \in Nat
  BY <1>2 DEF StampParent, TypeOK, Objects, Parents, Parent
<1> QED
  BY <1>1, <1>2, <1>3 DEF StampInv, HashesInOrder, ReadIsNewer, NewStampIsNewer

LEMMA CrashStampInv == TypeOK /\ StampInv /\ Crash => StampInv'
<1> SUFFICES ASSUME TypeOK, StampInv, Crash PROVE StampInv'
  OBVIOUS
<1>1. cache' = api /\ api' = api /\ pc' = "idle" /\ local'.device = local'.base
  BY DEF Crash, NoLocal
<1>2. \A k \in Parents : /\ cache[k].hash \in Nat /\ api[k].hash \in Nat
                         /\ api.device[k] \in Nat
  BY DEF TypeOK, Objects, Parents, Parent, Device
<1> QED
  BY <1>1, <1>2 DEF StampInv, HashesInOrder, ReadIsNewer, NewStampIsNewer

LEMMA StampInvPreserved == TypeOK /\ StampInv /\ [Next]_vars => StampInv'
<1> SUFFICES ASSUME TypeOK, StampInv, [Next]_vars PROVE StampInv'
  OBVIOUS
<1>1. CASE Reconcile
  BY <1>1, SecretStepsStampFrame, JobStepsStampFrame, StampFramePreserves, LoadStampInv,
     LoadParentsStampInv, JobMissingStampInv, PatchDeviceStampInv DEF Reconcile
<1>2. CASE (\E k \in Kinds : Sync(k)) \/ Crash
  BY <1>2, SyncStampInv, CrashStampInv
<1>3. CASE Resync \/ UNCHANGED vars
  BY <1>3, EnvironmentStampFrame, StampFramePreserves
<1>4. CASE Environment
  BY <1>4, EnvironmentStampFrame, StampFramePreserves, StampParentStampInv DEF Environment
<1> QED
  BY <1>1, <1>2, <1>3, <1>4 DEF Next

LEMMA StampInvInitially == Init => StampInv
  BY DEF Init, StampInv, HashesInOrder, ReadIsNewer, NewStampIsNewer, Parents,
         NewDevice, NoParent, NoLocal

THEOREM StampInvariant == Spec => []StampInv
  BY TypeCorrect, StampInvInitially, StampInvPreserved, PTL DEF Spec

LEMMA StampsOnlyGrow ==
  ASSUME TypeOK, StampInv, [Next]_vars
  PROVE  \A k \in Parents : api.device[k] <= api'.device[k]
<1>1. \A k \in Parents : api.device[k] <= api.device[k]
  BY DEF TypeOK, Objects, Device, Parents
<1>2. CASE PatchDevice
  BY <1>2, PatchDeviceStamps
<1>3. CASE api'.device = api.device
  BY <1>1, <1>3
<1>4. CASE Reconcile
  BY <1>2, <1>3, <1>4, SecretStepsStampFrame, JobStepsStampFrame
  DEF Reconcile, StampFrame, Load, LoadParents, JobMissing
<1>5. CASE (\E k \in Kinds : Sync(k)) \/ Crash
  BY <1>3, <1>5 DEF Sync, Crash
<1>6. CASE Resync \/ UNCHANGED vars
  BY <1>3, <1>6, EnvironmentStampFrame DEF StampFrame
<1>7. CASE Environment
  <2>1. ASSUME NEW k \in Parents, StampParent(k) PROVE api'.device = api.device
    BY <2>1 DEF StampParent, TypeOK, Objects, Parents
  <2> QED
    BY <1>3, <1>7, <2>1, EnvironmentStampFrame DEF Environment, StampFrame
<1> QED
  BY <1>4, <1>5, <1>6, <1>7 DEF Next

(* No patch of the device, however stale the copy it was computed from,     *)
(* rolls the stamp of the class or of the cluster back.                     *)
THEOREM StampsNeverRollBackHolds == Spec => StampsNeverRollBack
<1>1. TypeOK /\ StampInv /\ [Next]_vars
        => [ \A k \in Parents : api.device[k] <= api'.device[k] ]_vars
  BY StampsOnlyGrow
<1> QED
  BY <1>1, TypeCorrect, StampInvariant, PTL DEF Spec, StampsNeverRollBack
=============================================================================

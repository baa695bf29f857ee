-------------------------- MODULE DeviceController --------------------------
(***************************************************************************)
(* The DeviceReconciler of the devices operator (device_controller.go) for *)
(* one Device, with everything its reconciliations meet: the API server's  *)
(* objects, the informer caches through which the manager's client reads   *)
(* them, the work queue, the config-builder Job that the reconciler starts *)
(* and what that Job publishes on the artefact volume.                     *)
(*                                                                         *)
(* A content hash is modelled by the number of the content it is computed  *)
(* from (0 = no hash annotation): equal hashes mean equal contents.  Every *)
(* edit produces a content that was never there before.                    *)
(***************************************************************************)
EXTENDS Naturals

CONSTANTS
  NoSecret,      (* The Secret <device>-user-credentials does not exist.   *)
  NoJob,         (* The config-builder Job does not exist.                 *)
  Lagging,       (* The kinds whose informer cache may be stale when read. *)
  MaxVersion,    (* How many versions of the class and the cluster exist.  *)
  MaxContent,    (* How many contents of the secret exist.                 *)
  Budget,        (* How many crashes, faults, ... a behaviour may have.    *)
  BackoffLimit   (* Failures of the Job's pod before the Job has failed.   *)

Kinds   == {"device", "secret", "class", "cluster", "job"}
Parents == {"class", "cluster"}
Limited == {"crashes", "faults", "edits", "podFailures"}

ASSUME LaggingAssumption == Lagging \subseteq Kinds
ASSUME BoundsAssumption ==
  /\ MaxVersion \in [Parents -> Nat]
  /\ MaxContent \in Nat
  /\ Budget \in [Limited -> Nat]
  /\ BackoffLimit \in Nat

VARIABLES
  api,        (* The objects as the API server stores them, by kind.       *)
  cache,      (* The manager's informer caches: older copies of api.       *)
  queued,     (* The device's key waits in the controller's work queue.    *)
  pc,         (* The next step of the reconciliation, "idle" between two.  *)
  local,      (* The objects the running reconciliation holds in memory.   *)
  pod,        (* The progress of the Job's pod.                            *)
  art,        (* What the artefact volume holds for the device.            *)
  rmq,        (* The device's resources in the broker.                     *)
  lastContent,(* The number of the newest secret content.                  *)
  spent       (* What has been used up of Budget.                          *)

vars == <<api, cache, queued, pc, local, pod, art, rmq, lastContent, spent>>

-----------------------------------------------------------------------------
(* The objects. *)

(* The annotations that stamp what the last Job was built from, and the    *)
(* labels through which the watches find the device.                       *)
Device == [secret : Nat, class : Nat, cluster : Nat,
           secretLabel : BOOLEAN, clusterLabel : BOOLEAN]

(* pw = 0: the key "password" is missing. *)
Secret == [pw : Nat, hash : Nat]

(* A DeviceClass or a DeviceCluster: the version of its spec (0 = it does  *)
(* not exist) and the version its hash annotation was computed from.       *)
Parent == [spec : Nat, hash : Nat]

(* class and cluster: the versions of them that the Job's template was made *)
(* from.  done: Status.CompletionTime is set.                              *)
Job == [class : Nat, cluster : Nat, done : BOOLEAN, failed : BOOLEAN, deleting : BOOLEAN]

Objects == [device : Device, secret : Secret \cup {NoSecret},
            class : Parent, cluster : Parent, job : Job \cup {NoJob}]

ASSUME AbsentAssumption == NoSecret \notin Secret /\ NoJob \notin Job

(* What a reconciliation holds: the copy of the device it started from, the *)
(* device as it changed it, what it read, whether to come back.             *)
Locals == [base : Device, device : Device, secret : Secret,
           class : Parent, cluster : Parent, again : BOOLEAN]

(* The containers the pod is past, the password in its config, and how      *)
(* often a container has failed.                                            *)
Pod == [step : {"pending", "built", "hashed"}, pw : Nat, failures : Nat]

(* The versions in config.tgz, and the password whose hash is stored.       *)
Artefacts == [secret : Nat, class : Nat, cluster : Nat, auth : Nat]

(* How many of User, Permission and TopicPermission exist, whether the User *)
(* was written since the topology operator acted on it, the password that   *)
(* it imported last, the topic in the TopicPermission.                      *)
Broker == [made : 0..3, due : BOOLEAN, pw : Nat, topic : Nat]

NewDevice == [secret |-> 0, class |-> 0, cluster |-> 0,
              secretLabel |-> FALSE, clusterLabel |-> FALSE]
NoParent  == [spec |-> 0, hash |-> 0]
NewPod    == [step |-> "pending", pw |-> 0, failures |-> 0]

NoLocal == [base |-> NewDevice, device |-> NewDevice, secret |-> [pw |-> 0, hash |-> 0],
            class |-> NoParent, cluster |-> NoParent, again |-> FALSE]

TypeOK ==
  /\ api \in Objects
  /\ cache \in Objects
  /\ queued \in BOOLEAN
  /\ pc \in {"idle", "parents", "secret", "job", "delete", "create", "rabbitmq", "patch"}
  /\ local \in Locals
  /\ pod \in Pod
  /\ art \in Artefacts
  /\ rmq \in Broker
  /\ lastContent \in Nat
  /\ spent \in [Limited -> Nat]

Init ==
  /\ api = [device |-> NewDevice, secret |-> NoSecret,
            class |-> NoParent, cluster |-> NoParent, job |-> NoJob]
  /\ cache = api
  /\ queued = TRUE
  /\ pc = "idle"
  /\ local = NoLocal
  /\ pod = NewPod
  /\ art = [secret |-> 0, class |-> 0, cluster |-> 0, auth |-> 0]
  /\ rmq = [made |-> 0, due |-> FALSE, pw |-> 0, topic |-> 0]
  /\ lastContent = 0
  /\ spent = [b \in Limited |-> 0]

-----------------------------------------------------------------------------
(* What the steps of a reconciliation are built from. *)

Spend(b) ==
  /\ spent[b] < Budget[b]
  /\ spent' = [spent EXCEPT ![b] = @ + 1]

(* A read of kind k sees the API server's object, unless its informer may lag. *)
InSync(k) == k \in Lagging \/ cache[k] = api[k]

(* A write to the API server, possible in its present state or not, is     *)
(* done; or an error is answered after it was done ("lost") or instead of  *)
(* it ("refused").  An error the state does not explain costs a fault.     *)
Outcomes == {"done", "lost", "refused"}

Answer(possible, outcome) ==
  \/ outcome = "done" /\ possible /\ UNCHANGED spent
  \/ outcome = "refused" /\ ~possible /\ UNCHANGED spent
  \/ outcome \in {"lost", "refused"} /\ possible /\ Spend("faults")

(* Slip for MergePatch: the patch itself, in place of the object patched. *)
PatchOnly(base, mod, obj) == [f \in {g \in DOMAIN obj : mod[g] # base[g]} |-> mod[f]]

(* Slip for MergePatch: a full Update writes all of mod. *)
WholeUpdate(base, mod, obj) == mod

(* A merge patch from base to mod sets the fields in which they differ. *)
MergePatch(base, mod, obj) ==
  [f \in DOMAIN obj |-> IF mod[f] # base[f] THEN mod[f] ELSE obj[f]]

(* Slip for Busy: the missing completion time is not looked at. *)
BusyWhenDeleting(job) == job.deleting

(* createJob: the Job is being deleted, or is not completed yet. *)
Busy(job) == job.deleting \/ ~job.done

(* Slip for Stamped: the cluster is forgotten. *)
StampedSecretAndClass(device, secret, class, cluster) ==
  [device EXCEPT !.secret = secret.hash, !.class = class.hash]

(* createJob: the stamps the device would carry if the Job were made now. *)
Stamped(device, secret, class, cluster) ==
  [device EXCEPT !.secret = secret.hash, !.class = class.hash, !.cluster = cluster.hash]

StampsMatch(device, secret, class, cluster) ==
  /\ device.secret = secret.hash
  /\ device.class = class.hash
  /\ device.cluster = cluster.hash

NewJob(class, cluster) ==
  [class |-> class.spec, cluster |-> cluster.spec,
   done |-> FALSE, failed |-> FALSE, deleting |-> FALSE]

(* The labels through which the watches find the device. *)
WithSecretLabel(device)  == [device EXCEPT !.secretLabel = TRUE]
WithClusterLabel(device) == [device EXCEPT !.clusterLabel = TRUE]

(* Slip for Wakes: the watch on DeviceCluster is missing. *)
WakesOnSecret(k) ==
  \/ k \in {"device", "job"}
  \/ k = "secret" /\ cache.device.secretLabel

(* The watches: does an event of kind k put the device's key in the queue?  *)
(* The Job is owned by the Device.  The Secret is not: for it, and for the  *)
(* cluster, the device is found by its label.  For the class, devices are  *)
(* listed with a field selector for which no index is registered: the List *)
(* fails and no request is made.                                           *)
Wakes(k) ==
  \/ k \in {"device", "job"}
  \/ k = "secret" /\ cache.device.secretLabel
  \/ k = "cluster" /\ cache.device.clusterLabel

(* Control leaves reconcile() for the final Patch of the device. *)
Leave(again) ==
  /\ pc' = "patch"
  /\ local' = [local EXCEPT !.again = again]

-----------------------------------------------------------------------------
(* One reconciliation. *)

Load ==
  /\ pc = "idle"
  /\ queued
  /\ InSync("device")
  /\ queued' = FALSE
  /\ pc' = "parents"
  /\ local' = [NoLocal EXCEPT !.base = cache.device, !.device = cache.device]
  /\ UNCHANGED <<api, cache, pod, art, rmq, lastContent, spent>>

LoadParents ==
  /\ pc = "parents"
  /\ \A k \in Parents : InSync(k)
  /\ \/ /\ \E k \in Parents : cache[k].spec = 0
        /\ Leave(TRUE)
     \/ /\ \A k \in Parents : cache[k].spec # 0
        /\ pc' = "secret"
        /\ local' = [local EXCEPT !.class = cache.class, !.cluster = cache.cluster,
                                  !.device = WithClusterLabel(@)]
  /\ UNCHANGED <<api, cache, queued, pod, art, rmq, lastContent, spent>>

(* createSecret, after its write: secret is what a successful one returned. *)
SecretEnsured(outcome, secret) ==
  IF outcome = "done"
    THEN /\ pc' = "job"
         /\ local' = [local EXCEPT !.secret = secret, !.device = WithSecretLabel(@)]
    ELSE Leave(TRUE)

(* No Secret in the cache: create it with a random password; it may exist. *)
CreateSecret ==
  /\ pc = "secret"
  /\ InSync("secret")
  /\ cache.secret = NoSecret
  /\ lastContent < MaxContent
  /\ \E outcome \in Outcomes :
       LET secret == [pw |-> lastContent + 1, hash |-> lastContent + 1]
       IN  /\ Answer(api.secret = NoSecret, outcome)
           /\ SecretEnsured(outcome, secret)
           /\ IF outcome = "refused"
                THEN UNCHANGED <<api, lastContent>>
                ELSE /\ api' = [api EXCEPT !.secret = secret]
                     /\ lastContent' = lastContent + 1
  /\ UNCHANGED <<cache, queued, pod, art, rmq>>

(* The Secret of the cache, completed and hashed again. *)
Completed(secret) ==
  LET pw == IF secret.pw = 0 THEN lastContent + 1 ELSE secret.pw
  IN  [pw |-> pw, hash |-> pw]

(* Patch the Secret with what differs from the cached one: the answer is    *)
(* the object the API server then has, or NotFound.                         *)
PatchSecret ==
  /\ pc = "secret"
  /\ InSync("secret")
  /\ cache.secret # NoSecret
  /\ cache.secret.pw = 0 => lastContent < MaxContent
  /\ \E outcome \in Outcomes :
       LET mod    == Completed(cache.secret)
           secret == MergePatch(cache.secret, mod, api.secret)
       IN  /\ Answer(api.secret # NoSecret, outcome)
           /\ SecretEnsured(outcome, secret)
           /\ IF outcome = "refused"
                THEN UNCHANGED <<api, lastContent>>
                ELSE /\ api' = [api EXCEPT !.secret = secret]
                     /\ lastContent' = IF cache.secret.pw = 0 THEN mod.pw ELSE lastContent
  /\ UNCHANGED <<cache, queued, pod, art, rmq>>

(* createJob: the Job is looked up in the cache. *)
JobBusy ==
  /\ pc = "job"
  /\ InSync("job")
  /\ cache.job # NoJob
  /\ Busy(cache.job)
  /\ Leave(TRUE)
  /\ UNCHANGED <<api, cache, queued, pod, art, rmq, lastContent, spent>>

JobUpToDate ==
  /\ pc = "job"
  /\ InSync("job")
  /\ cache.job # NoJob
  /\ ~Busy(cache.job)
  /\ StampsMatch(local.device, local.secret, local.class, local.cluster)
  /\ pc' = "rabbitmq"
  /\ UNCHANGED <<api, cache, queued, local, pod, art, rmq, lastContent, spent>>

(* Slip for JobOutdated: the stamps are set when the old Job is deleted. *)
JobOutdatedStamps ==
  /\ pc = "job"
  /\ InSync("job")
  /\ cache.job # NoJob
  /\ ~Busy(cache.job)
  /\ ~StampsMatch(local.device, local.secret, local.class, local.cluster)
  /\ pc' = "delete"
  /\ local' = [local EXCEPT !.device =
                 Stamped(@, local.secret, local.class, local.cluster)]
  /\ UNCHANGED <<api, cache, queued, pod, art, rmq, lastContent, spent>>

JobOutdated ==
  /\ pc = "job"
  /\ InSync("job")
  /\ cache.job # NoJob
  /\ ~Busy(cache.job)
  /\ ~StampsMatch(local.device, local.secret, local.class, local.cluster)
  /\ pc' = "delete"
  /\ UNCHANGED <<api, cache, queued, local, pod, art, rmq, lastContent, spent>>

(* The device is stamped in memory before the Job is created. *)
JobMissing ==
  /\ pc = "job"
  /\ InSync("job")
  /\ cache.job = NoJob
  /\ pc' = "create"
  /\ local' = [local EXCEPT !.device =
                 Stamped(@, local.secret, local.class, local.cluster)]
  /\ UNCHANGED <<api, cache, queued, pod, art, rmq, lastContent, spent>>

(* Foreground deletion without a precondition on the Job's UID.  The device *)
(* is reconciled again whatever the answer (RequeueAfter, or an error).     *)
DeleteJob ==
  /\ pc = "delete"
  /\ \E outcome \in Outcomes :
       /\ Answer(api.job # NoJob, outcome)
       /\ api' = IF outcome = "refused" THEN api ELSE [api EXCEPT !.job.deleting = TRUE]
  /\ Leave(TRUE)
  /\ UNCHANGED <<cache, queued, pod, art, rmq, lastContent>>

(* On an error, AlreadyExists say, the stamps stay on the device in memory *)
(* and RabbitMQ is not looked at.                                          *)
CreateJob ==
  /\ pc = "create"
  /\ \E outcome \in Outcomes :
       /\ Answer(api.job = NoJob, outcome)
       /\ IF outcome = "refused"
            THEN UNCHANGED <<api, pod>>
            ELSE /\ api' = [api EXCEPT !.job = NewJob(local.class, local.cluster)]
                 /\ pod' = NewPod
       /\ IF outcome = "done" THEN pc' = "rabbitmq" /\ UNCHANGED local ELSE Leave(TRUE)
  /\ UNCHANGED <<cache, queued, art, rmq, lastContent>>

(* Slip for CreateRabbitmqResources: a User that exists is left as it is. *)
CreateRabbitmqResourcesOnce ==
  /\ pc = "rabbitmq"
  /\ \E k \in 0..3, ok \in BOOLEAN :
       /\ ok => k = 3
       /\ IF ok THEN UNCHANGED spent ELSE Spend("faults")
       /\ rmq' = [rmq EXCEPT !.made = IF k > @ THEN k ELSE @,
                             !.due = @ \/ (rmq.made = 0 /\ k > 0),
                             !.topic = IF k = 3 THEN local.cluster.spec ELSE @]
       /\ Leave(~ok)
  /\ UNCHANGED <<api, cache, queued, pod, art, lastContent>>

(* The User, the Permission and the TopicPermission are written in this     *)
(* order up to the first error; only the last one has content of the        *)
(* cluster.  Each is written from scratch, without what the topology        *)
(* operator has added to it: the update is an event for that operator.      *)
CreateRabbitmqResources ==
  /\ pc = "rabbitmq"
  /\ \E k \in 0..3, ok \in BOOLEAN :
       /\ ok => k = 3
       /\ IF ok THEN UNCHANGED spent ELSE Spend("faults")
       /\ rmq' = [rmq EXCEPT !.made = IF k > @ THEN k ELSE @,
                             !.due = @ \/ k > 0,
                             !.topic = IF k = 3 THEN local.cluster.spec ELSE @]
       /\ Leave(~ok)
  /\ UNCHANGED <<api, cache, queued, pod, art, lastContent>>

(* The deferred Patch of the device, made after an error too.  The key is  *)
(* put back in the queue on any error and on RequeueAfter.                 *)
PatchDevice ==
  /\ pc = "patch"
  /\ \E outcome \in Outcomes :
       /\ Answer(TRUE, outcome)
       /\ api' = IF outcome = "refused" THEN api
                 ELSE [api EXCEPT !.device = MergePatch(local.base, local.device, @)]
       /\ queued' = (queued \/ local.again \/ outcome # "done")
  /\ pc' = "idle"
  /\ local' = NoLocal
  /\ UNCHANGED <<cache, pod, art, rmq, lastContent>>

Reconcile ==
  \/ Load \/ LoadParents \/ CreateSecret \/ PatchSecret
  \/ JobBusy \/ JobUpToDate \/ JobOutdated \/ JobMissing
  \/ DeleteJob \/ CreateJob \/ CreateRabbitmqResources \/ PatchDevice

-----------------------------------------------------------------------------
(* The manager around the reconciler. *)

(* A watch event reaches the informer of kind k and then its handlers. *)
Sync(k) ==
  /\ cache[k] # api[k]
  /\ cache' = [cache EXCEPT ![k] = api[k]]
  /\ queued' = (queued \/ Wakes(k))
  /\ UNCHANGED <<api, pc, local, pod, art, rmq, lastContent, spent>>

(* The periodic resync of the Device informer. *)
Resync ==
  /\ ~queued
  /\ queued' = TRUE
  /\ UNCHANGED <<api, cache, pc, local, pod, art, rmq, lastContent, spent>>

(* The manager dies and is started again: its memory is lost, the informers *)
(* list every object and the listed Device is put in the queue.             *)
Crash ==
  /\ Spend("crashes")
  /\ cache' = api
  /\ queued' = TRUE
  /\ pc' = "idle"
  /\ local' = NoLocal
  /\ UNCHANGED <<api, pod, art, rmq, lastContent>>

-----------------------------------------------------------------------------
(* The other writers of the objects. *)

(* A user creates or edits the class or the cluster. *)
EditParent(k) ==
  /\ api[k].spec < MaxVersion[k]
  /\ api' = [api EXCEPT ![k].spec = @ + 1]
  /\ UNCHANGED <<cache, queued, pc, local, pod, art, rmq, lastContent, spent>>

(* The parent's own controller computes its hash from a spec it has read:  *)
(* the newest or an older one, never one older than it read before.        *)
StampParent(k) ==
  /\ \E v \in (api[k].hash + 1)..api[k].spec : api' = [api EXCEPT ![k].hash = v]
  /\ UNCHANGED <<cache, queued, pc, local, pod, art, rmq, lastContent, spent>>

(* A user sets, or removes, the password; the Secret may not exist yet. *)
EditSecret ==
  /\ Spend("edits")
  /\ \E new \in BOOLEAN :
       /\ new => lastContent < MaxContent
       /\ LET pw == IF new THEN lastContent + 1 ELSE 0
              hash == IF api.secret = NoSecret THEN 0 ELSE api.secret.hash
          IN  api' = [api EXCEPT !.secret = [pw |-> pw, hash |-> hash]]
       /\ lastContent' = IF new THEN lastContent + 1 ELSE lastContent
  /\ UNCHANGED <<cache, queued, pc, local, pod, art, rmq>>

DeleteSecret ==
  /\ api.secret # NoSecret
  /\ Spend("edits")
  /\ api' = [api EXCEPT !.secret = NoSecret]
  /\ UNCHANGED <<cache, queued, pc, local, pod, art, rmq, lastContent>>

(* Slip for PodRuns: containers that are not init containers run together. *)
PodRunsTogether(step) ==
  /\ api.job # NoJob
  /\ ~api.job.done
  /\ ~api.job.failed

(* The Job's pod: two init containers, then the container that publishes. *)
PodRuns(step) ==
  /\ api.job # NoJob
  /\ ~api.job.done
  /\ ~api.job.failed
  /\ pod.step = step

(* A container takes the password from the Secret when it is started. *)
PasswordReadable == api.secret # NoSecret /\ api.secret.pw # 0

BuildConfig ==
  /\ PodRuns("pending")
  /\ PasswordReadable
  /\ pod' = [pod EXCEPT !.step = "built", !.pw = api.secret.pw]
  /\ UNCHANGED <<api, cache, queued, pc, local, art, rmq, lastContent, spent>>

StoreHash ==
  /\ PodRuns("built")
  /\ PasswordReadable
  /\ pod' = [pod EXCEPT !.step = "hashed"]
  /\ art' = [art EXCEPT !.auth = api.secret.pw]
  /\ UNCHANGED <<api, cache, queued, pc, local, rmq, lastContent, spent>>

UploadSecret ==
  /\ PodRuns("hashed")
  /\ art' = [art EXCEPT !.secret = pod.pw, !.class = api.job.class,
                        !.cluster = api.job.cluster]
  /\ api' = [api EXCEPT !.job.done = TRUE]
  /\ UNCHANGED <<cache, queued, pc, local, pod, rmq, lastContent, spent>>

(* A container fails and is started again in its pod, or in a new pod with *)
(* an empty volume; beyond the back-off limit the Job has failed, which    *)
(* sets a condition and no completion time.                                *)
FailPod ==
  /\ \E step \in {"pending", "built", "hashed"} : PodRuns(step)
  /\ Spend("podFailures")
  /\ IF pod.failures < BackoffLimit
       THEN /\ \/ pod' = [pod EXCEPT !.failures = @ + 1]
               \/ pod' = [NewPod EXCEPT !.failures = pod.failures + 1]
            /\ UNCHANGED api
       ELSE /\ api' = [api EXCEPT !.job.failed = TRUE]
            /\ UNCHANGED pod
  /\ UNCHANGED <<cache, queued, pc, local, art, rmq, lastContent>>

(* The Job controller finishes a foreground deletion. *)
RemoveJob ==
  /\ api.job # NoJob
  /\ api.job.deleting
  /\ api' = [api EXCEPT !.job = NoJob]
  /\ pod' = NewPod
  /\ UNCHANGED <<cache, queued, pc, local, art, rmq, lastContent, spent>>

(* The RabbitMQ topology operator acts on a User that was written, and      *)
(* gives the broker the password that the Secret has now.                   *)
ImportCredentials ==
  /\ rmq.due
  /\ PasswordReadable
  /\ rmq' = [rmq EXCEPT !.due = FALSE, !.pw = api.secret.pw]
  /\ UNCHANGED <<api, cache, queued, pc, local, pod, art, lastContent, spent>>

-----------------------------------------------------------------------------
Environment ==
  \/ \E k \in Parents : EditParent(k) \/ StampParent(k)
  \/ EditSecret \/ DeleteSecret
  \/ BuildConfig \/ StoreHash \/ UploadSecret \/ FailPod \/ RemoveJob
  \/ ImportCredentials

Next ==
  \/ Reconcile
  \/ \E k \in Kinds : Sync(k)
  \/ Resync
  \/ Crash
  \/ Environment

Spec == Init /\ [][Next]_vars

(* Every step but one: the creation of a Job that exists, which createJob   *)
(* tries when the cached copy that it has looked up was out of date.  What  *)
(* then goes wrong is UpToDateJobsAre below.                                *)
SeeingNext ==
  \/ Load \/ LoadParents \/ CreateSecret \/ PatchSecret
  \/ JobBusy \/ JobUpToDate \/ JobOutdated \/ JobMissing
  \/ DeleteJob \/ (CreateJob /\ api.job = NoJob) \/ CreateRabbitmqResources \/ PatchDevice
  \/ \E k \in Kinds : Sync(k)
  \/ Resync
  \/ Crash
  \/ Environment

(* The behaviours in which no Job is overlooked. *)
SeeingSpec == Init /\ [][SeeingNext]_vars

(* What the deployment keeps doing: the reconciler's worker, the informers, *)
(* the resync of the Device informer, the parents' controllers, the Job     *)
(* controller with the kubelet, and the topology operator.  Nothing obliges *)
(* users to edit, processes to crash or containers to fail.                 *)
FairSpec ==
  /\ Spec
  /\ WF_vars(Reconcile)
  /\ \A k \in Kinds : WF_vars(Sync(k))
  /\ WF_vars(Resync)
  /\ \A k \in Parents : WF_vars(StampParent(k))
  /\ WF_vars(BuildConfig \/ StoreHash \/ UploadSecret)
  /\ WF_vars(RemoveJob)
  /\ WF_vars(ImportCredentials)

-----------------------------------------------------------------------------
(* Properties. *)

(* A Job is only deleted when its completion time is set: no build is       *)
(* interrupted, however stale the copies are on which createJob decides     *)
(* and although its Delete carries no precondition (createJob 223-280).     *)
OnlyFinishedBuildsDeleted ==
  [][ \/ api.job = NoJob
      \/ api'.job = NoJob
      \/ api'.job.deleting => api.job.deleting \/ api.job.done ]_vars

(* The stamps of the device never claim newer inputs than the present Job   *)
(* was given: an outdated Job is not taken for an up-to-date one, through   *)
(* failed writes, lost answers and crashes between the creation of the Job  *)
(* and the patch that stores the stamps (createJob 252-284, 436-464).       *)
StampsSound ==
  api.job # NoJob =>
    /\ \A k \in Parents : api.device[k] <= api.job[k]
    /\ pod.pw # 0 => api.device.secret <= pod.pw

(* The final Patch, computed from a copy of the device that may be stale,   *)
(* never rolls the class's or the cluster's stamp back (Reconcile 75-85).   *)
StampsNeverRollBack ==
  [][ \A k \in Parents : api.device[k] <= api'.device[k] ]_vars

(* Nothing is left to do in the operator: no reconciliation runs or waits,  *)
(* no event is on its way, the parents are stamped, the Job is completed.   *)
Quiescent ==
  /\ pc = "idle"
  /\ ~queued
  /\ cache = api
  /\ \A k \in Parents : api[k].spec # 0 /\ api[k].hash = api[k].spec
  /\ api.job # NoJob => api.job.done

(* When the operator has nothing left to do, the published config and the   *)
(* hash that guards it were made from the present password, the config and  *)
(* the TopicPermission from the present topic, and the broker has that      *)
(* password too or the topology operator has still to act on the User.  No  *)
(* change of the secret or of the cluster is missed, whenever it came       *)
(* (reconcile 100-128, CreateOrUpdate 555-582, watches 585-607).            *)
QuiescentConsistent ==
  Quiescent => /\ api.secret # NoSecret
               /\ art.secret = api.secret.pw
               /\ art.auth = api.secret.pw
               /\ rmq.due \/ rmq.pw = api.secret.pw
               /\ art.cluster = api.cluster.spec
               /\ rmq.topic = api.cluster.spec

(* The comment in createJob (247-250) and the watch on DeviceClass (594)    *)
(* say the same of the class: the published config was built by the config  *)
(* image of the present class.                                              *)
QuiescentClassConsistent == Quiescent => art.class = api.class.spec

UpToDate ==
  /\ api.secret # NoSecret
  /\ api.job # NoJob
  /\ ~Busy(api.job)
  /\ art = [secret |-> api.secret.pw, class |-> api.class.spec,
            cluster |-> api.cluster.spec, auth |-> api.secret.pw]
  /\ rmq.made = 3
  /\ rmq.pw = api.secret.pw
  /\ rmq.topic = api.cluster.spec

(* Once the class and the cluster exist and users leave the objects alone,  *)
(* the published config reaches and keeps the present inputs, whatever      *)
(* failed or crashed on the way (Reconcile 60-98).                          *)
Converges == <>[](\A k \in Parents : api[k].spec # 0) => <>[]UpToDate

(* The log line "Config job already exists and is up to date" (createJob    *)
(* 282) is only reached for a Job built from the stamped versions or newer. *)
UpToDateJobsAre ==
  pc = "rabbitmq" /\ api.job # NoJob =>
    \A k \in Parents : local.device[k] <= api.job[k]

-----------------------------------------------------------------------------
(* The detailed model implements the promise of ConfigPublication. *)
Publication == INSTANCE ConfigPublication WITH
  input     <- [secret |-> lastContent, class |-> api.class.spec,
                cluster |-> api.cluster.spec],
  auth      <- art.auth,
  published <- [secret |-> art.secret, class |-> art.class, cluster |-> art.cluster]

(* Every step of the operator, of the Job and of their environment is a     *)
(* step of ConfigPublication or leaves its variables alone.                 *)
ImplementsPublication == Publication!Spec
=============================================================================

# Verification of the pedge devices operator

pedge provisions IoT devices from a Kubernetes cluster. A user declares
`Device`, `DeviceClass` and `DeviceCluster` objects; an operator turns them into
credentials, RabbitMQ permissions, firmware and configuration archives on a
shared volume, and an HTTP server from which a device is flashed. This directory
holds TLA+ models of that system, the TLC configurations that check them, and
TLAPS proofs of some of their properties.

Paths below are relative to the repository; `controller/` stands for
`devices-operator/internal/controller/`.

## 1. Inventory

| Component | State it keeps | Operations | Talks to |
|---|---|---|---|
| **Device controller** (`controller/device_controller.go`) | nothing in memory between two reconciliations; on the Device: three hash annotations ("stamps") and two labels | `Reconcile` = `loadDeviceClass`, `loadDeviceCluster`, `createSecret`, `createJob`, `createRabbitmqResources`, final `Patch` | API server through the manager's cached client; woken by watches on Device, Secret, Job, DeviceClass, DeviceCluster |
| **Config-builder Job** (template in `createJob`; `services/esp32-config-builder`: `build.sh`, `csv_gen.py`) | the pod's progress; `/output` with `nvs.bin` and `flash.sh`; `auth/<device>.hash` and `configurations/<device>/config.tgz` on the volume | `build-config`, `store-hash`, `upload-secret` | Secrets, artefact volume |
| **NVS partition generator** (`services/esp32-config-builder/nvs_partition_gen.py`) | the pages in memory, the output file, the key file | `generate`, `encrypt`, `generate-key`, `decrypt` | called by `build.sh`; its image is read by the NVS library on the device |
| **DeviceCluster controller** (`controller/devicecluster_*.go`) | broker address and content hash as annotations | `ensurePersistence`, `syncRabbitmqCluster` (cluster, vhost, queue, users, injected secrets), `syncHttpServer`, hash | API server; woken by DeviceCluster, Service, Secret |
| **DeviceClass controller** (`controller/deviceclass_controller.go`) | content hash as annotation; the firmware Job | hash, `jobSpecMatches`, delete and create the Job | API server |
| **Helpers** (`controller/helpers.go`) | none | `generateRandomPassword`, `hashByteData`, `jobSpecMatches`, `equalMaps` | |
| **Manager** (`devices-operator/cmd/main.go`) | informer caches, work queues, leader lease | starts the three controllers with one cached client | |
| **Artefact server** (`services/firmware-artefacts/serve.py`) | none; reads the volume | `check_auth`, `serve_configuration`, `serve_firmware` | volume written by the Jobs |
| **Firmware** (`services/esp32-firmware-builder/src`) | WiFi and MQTT connection, time of the last message | `setup`, `loop`, `reconnectMqtt`, `getSensorTopic` | broker |
| **Netboot provider** (`services/netboot-provider`) | architecture by MAC address | DHCP listener, boot handler | |
| **RabbitMQ topology operator** (external) | the broker's users and permissions | imports a User's credentials, applies permissions | watches the resources above |

What is hard in it:

* *Stale reads.* Every `Get` and `List` of the controllers reads an informer
  cache; every write goes to the API server. A reconciliation decides on copies
  of different ages, and its own last write need not be among them.
* *Several writes, no transaction.* A reconciliation writes a Secret, a Job,
  three RabbitMQ resources and the Device; each may fail, or be done and not
  acknowledged, and the process may die between any two.
* *Lost wake-ups.* Nothing is polled: an event that no handler maps to the
  device is only repaired by the resync of the informers (ten hours by default).
* *Content seen twice.* The pod reads the password itself, twice, after the
  reconciler has hashed it, and the settings file by file from a mount that is
  replaced under it.
* *Files written in place.* The hash and the archive are overwritten one after
  the other while the server reads them.
* *Layout arithmetic.* The partition tool cuts values at the ends of pages and
  numbers entries in one way when it encrypts and in another when it decrypts.
* *Tools that fail.* `build.sh` does not look at the outcome of the two programs
  it calls.

What makes each part correct: a running build is never deleted; the stamps never
claim more than the Job was built from; no change of the inputs is missed; the
published configuration only moves forward and stays in step with the stored
credentials and the broker's permissions; after the last change everything ends up
to date. For the DeviceCluster controller: a partial failure is repaired by the
next reconciliation and blocks no unrelated resource. For the artefact server: a
device gets the configuration made for it in the end. For the Job: what a
completed build has published is complete and not older than its inputs. For the
partition tool: what it writes fits, fills the partition, and is read back as it
was given, on the device and by its own `decrypt`. For the firmware: it publishes
again after every loss of the connection or wrap of the clock.

## 2. Modules

| Module | Models |
|---|---|
| `DeviceController` | the Device controller for one Device with its caches, queue, Job, volume and broker |
| `MCDeviceController` | values of its constants for TLC |
| `TopologyResource` | `CreateOrUpdate` on one object of the topology operator, request by request |
| `MCTopologyResource` | values of its constants for TLC |
| `ClusterController` | the DeviceCluster controller for one DeviceCluster with its users, caches, queue, and the other writers of the same objects |
| `MCClusterController` | values of its constants for TLC |
| `ParentHash` | what a parent's controller owes the devices (abstract); `ClusterController` implements it, `DeviceController` relies on it |
| `ConfigPublication` | what is promised about the published configuration (abstract); both `DeviceController` and `ConfigDelivery` implement it |
| `ConfigDelivery` | the Job's containers with `build.sh` and `csv_gen.py`, the outcome of the partition tool, the volume, the artefact server and a device that fetches |
| `NvsFormat` | an NVS partition in flash: entries, encryption, `decrypt`, the device's NVS library |
| `NvsPartition` | `nvs_partition_gen.py`: rows, pages, chunks, keys, the output file |
| `NvsStore` | what the partition tool promises, without pages (abstract) |
| `MCConfigDelivery`, `MCNvsPartition` | values of their constants for TLC |
| `DeviceControllerProofs` | theorems about `DeviceController` |
| `PublicationProofs` | the theorem that `DeviceController` implements `ConfigPublication` |
| `DeviceConsistencyProofs` | the theorems on the stamps and on quiescence of `DeviceController` |
| `TopologyResourceProofs` | theorems about `TopologyResource` |
| `ClusterControllerProofs` | theorems about `ClusterController` |
| `ConfigDeliveryProofs` | theorems about `ConfigDelivery` |
| `NvsPartitionProofs` | theorems about `NvsPartition` |
| `NvsStoreProofs` | the theorem that `NvsPartition` implements `NvsStore` |

### DeviceController

`api` holds the objects as the API server has them, `cache` the informers'
copies. `local` is what the running reconciliation holds in memory and `pc` its
next step. A step is what happens between two accesses to the API server:

| Action | Code |
|---|---|
| `Load` | `Reconcile`: `Get` of the Device, patch base |
| `LoadParents` | `loadDeviceClass`, `loadDeviceCluster` |
| `CreateSecret`, `PatchSecret` | `createSecret` |
| `JobBusy`, `JobUpToDate`, `JobOutdated`, `JobMissing` | the decision at the head of `createJob`, and the stamping before `Create` |
| `DeleteJob`, `CreateJob` | the two writes of `createJob` |
| `CreateRabbitmqResources` | the loop over User, Permission, TopicPermission, stopped by its first error |
| `PatchDevice` | the final `Patch`, made after an error too; requeue |
| `Sync(k)` | a watch event reaches an informer, then the handlers (`SetupWithManager`, `map...ToDevice`) |
| `Resync`, `Crash` | resync of the Device informer; the manager dies and starts again |
| `EditParent`, `EditSecret`, `DeleteSecret` | users |
| `StampParent` | the class's or cluster's controller writes its hash, of the newest or an older spec |
| `BuildConfig`, `StoreHash`, `UploadSecret`, `FailPod`, `RemoveJob` | the Job's pod and the Job controller |
| `ImportCredentials` | the topology operator, as the sources describe it (`devicecluster_rabbitmq.go:191`): it acts on a User that was written, which every reconciliation does from scratch |

Abstractions, all named in the module: a content is a number and its hash the
same number (contents are never repeated; a hash that collides and a content
that comes back are hazards of their own, see the plan); a patch is the fields
in which two objects differ (`MergePatch`); an informer delivers the newest
object and may skip older ones; `CreateOrUpdate` is one write; a `RequeueAfter`
is a requeue. A write that the API server's state allows may still be refused,
or done without an answer (`Answer`).

`rmq.due` says that the User was written since the topology operator acted on it.
It is set by every write of it: `CreateOrUpdate` sends an object without what that
operator has added, so that the update changes it (`TopologyResource`).

`Lagging` says which informers may be stale when they are read; the others are
read only when they are up to date. `SeeingSpec` has the behaviours of `Spec` up
to the first time that a Job is to be created although there is one, which is what
`stale_job` shows: all the steps of `Next` but that one (`SeeingNext`). `Budget`
limits crashes, API faults, edits of the secret and container failures;
`MaxVersion` and `MaxContent` limit the versions. `Crash` refills the caches, as
the informers' first list does.

### TopologyResource

What `DeviceController` takes for one write is modelled here for one User,
Permission or TopicPermission: `Call` is the cached `Get` that decides between
`Create` and the loop of updates; `Succeed`, `Refused` and `Conflict` are the
API server's answers; `GetAgain` is the cached `Get` after a conflict, with the
end of the loop. `GiveUp` and `Crash` leave a request behind that may still
`Arrive`. `stored` is the API server's object, `copy` the informer's. The other
writer is the topology operator (`TakeOwnership`, `Report`): the sources show it
only in the comment that it does not want to lose the ownership of the resource,
so what it writes is one flag. Resource versions are compared for equality only;
a version that nobody holds is used again, which keeps the model finite although
the operators' writes go on for ever.

### ClusterController

`api`, `cache`, `queued`, `pc` and `local` are as in `DeviceController`; `made`
says which of the objects exist that are made once, and `broker` has each user's
User and TopicPermission and what the broker has imported.

| Action | Code |
|---|---|
| `Load` | `Reconcile`: `Get`, patch base |
| `EnsurePersistence` | `ensurePersistence` |
| `FindAddress` | head of `syncRabbitmqCluster`: no Service, one without an address (error), one with |
| `EnsureRabbitmq` | RabbitmqCluster, Vhost, Queue, up to the first error |
| `WriteSecret`, `UseSecret` | a user's Secret is created or completed; or it is complete |
| `RefuseRole`, `WriteUser` | an unknown role (error); User, Permission, TopicPermission, up to the first error |
| `NoInjection`, `Inject`, `InjectPanics` | a secret to inject into: missing (error), as it should be, updated; one without data, whose nil map ends the process |
| `SyncHttpServer` | `syncHttpServer` |
| `HashForDevice`, `HashPanics` | the hash for devices; a cluster without annotations, whose nil map ends the process |
| `PatchCluster` | the final `Patch`, after an error too; requeue |
| `Sync(k)` | a watch event, then `mapServiceToDeviceCluster`, `mapSecretToDeviceCluster` |
| `Resync`, `Crash` | resync of the informer; the manager dies and starts again |
| `EditCluster`, `EditExtra`, `EditSecret`, `EditRemote` | users, and owners of secrets that are injected into |
| `CreateService`, `AssignAddress`, `LoseAddress`, `ImportCredentials` | RabbitMQ's operators and the load balancer, as the code uses them |

A user has at most one secret that is injected into, and the data the operator
sets in it are the password and the topic; the user name and the URL never change.
`annotated` says whether the cluster's map of annotations exists. The resource
version of a user's Secret is the number of its content. As in `DeviceController`
every edit makes a new content. A panic restarts the manager, with the default of
controller-runtime 0.18 (`RecoverPanic` is not set).

`ParentHash` is the contract between the two controllers: a parent's hash is made
from versions that exist and none of its parts ever goes back. `StampParent` of
`DeviceController` allows a controller to write the hash of any version between
the last one and the present one; `ParentHashImplemented` shows that the
controller of the cluster keeps to that.

### ConfigDelivery

`DeviceController` sees the three containers as three steps that take a password
and a content along. `ConfigDelivery` is the other half: what the containers do
to files, and who reads these.

| Action | Code |
|---|---|
| `CreateJob`, `DeleteJob` | `createJob`, with up-to-date caches: a Job for the present Secret; a completed one is deleted when the Secret has changed |
| `BeginBuild` | `build-config` starts, `MQTT_PASSWORD` is taken from the Secret |
| `ListSettings`, `FindSetting`, `ReadSetting`, `EndCsv` | `csv_gen.py`: `os.listdir`; in a turn of the loop `os.path.isfile`, then `open` and `read`; the rows |
| `MissCsv` | after a failure of `csv_gen.py`: the trap of `build.sh` has removed the CSV file, the partition tool finds none |
| `OpenNvs`, `GenerateNvs` | `nvs_partition_gen.py generate`: it empties the file; an image, an empty file, or none |
| `WriteFlash` | the end of `build.sh` |
| `BeginHash`, `StoreHash` | `store-hash`: the shell empties the file, `argon2` fills it |
| `BeginUpload`, `Upload` | `upload-secret`: `tar` empties the archive in place and fills it |
| `RestartContainer`, `LosePod` | `RestartPolicyOnFailure`; a new pod with an empty `/output` |
| `Authenticate`, `SendFile`, `Receive` | `requires_auth` with `check_auth`; `serve_configuration`; the client reads to the end |

A setting is known by its *kind*, by what the tools do to it: they handle a line
of text and several lines; a line with `#` in a quoted value is dropped as a
comment (`comment`) and, if it is the last one, takes the closing quote along
(`torn`), so that the value swallows rows up to the next quote (`Hidden`); keys
over 15 characters and strings over 4000 bytes are reported and the file is
removed; a string of 3969 to 4000 bytes (`full`) ends in an uncaught exception
that leaves an empty file; of other than ASCII characters (`accents`) too few
bytes are counted and the device rejects the value (what it does to the pages
behind it is in `NvsPartition`; no property here relies on the other settings
then); a value that is no text (`binary`) ends `csv_gen.py`, as does a file that
goes between `isfile` and `open`. Then there is no CSV file, because the trap of
`build.sh` runs on `ERR` too, and `nvs.bin` stays as it was: absent, or what an
earlier attempt of the container in the same pod has left.

The Secret of the device and that of its cluster are projected into one mount and
taken for one here; each version has a new password. The mount is never older
than the version for which the Job was made, never goes back, and may change
between any two accesses to its files.

### NvsPartition

`pages` holds the entries written so far, `size` the bytes left for more pages
(the model counts them as the code does, one page held back by `check_size`).

| Action | Code |
|---|---|
| `RefuseArguments` | `check_size`, `set_target_filepath`, `encrypt`: `sys.exit` before a file is made |
| `GenerateKey`, `NoHmacKey`, `UseKey` | `generate_key`, or the key given, or none |
| `Open` | `generate` opens the output file, `NVS.__init__` makes the first page |
| `WriteRow` | `write_namespace`, `write_entry`: a value in one page, in the next one after a `PageFullError` |
| `BeginBlob`, `WriteChunk`, `WriteIndex` | `write_varlen_binary_data` |
| `Refuse`, `NoValue`, `NoSpace`, `NoPage`, `NoChunk`, `NoIndex` | the errors, in the order in which the code meets them; `Abort` is what they leave behind |
| `FillPage`, `Close` | `NVS.__exit__` without an exception |

An entry is a record with the fields the tool packs; the bytes of a value are the
row they come from and their range in it. A row has two lengths: `size`, what the
code counts (`len(data)`: characters, or bytes if the value is given as bytes),
and the bytes it stores, which are more by `wide`, the number of characters of two
bytes in UTF-8 (the first ones of the value). Entries are counted by the first and
filled with the second (`Stored`). Without encryption the slice assignment in
`write_entry_to_buf` writes all the bytes; those past the last entry counted are
overwritten by what comes next, or make `page_buf` longer (`Put`, `length`) and
move the pages behind it (`address`). With encryption only the entries counted are
written. A CRC is not modelled: the entries it covers are compared themselves. An
encrypted entry remembers its key and its tweak, and is garbage under any other
(`Sealed`, `Unsealed`). `Readable` is the NVS library's search, by namespace, key
and type, with the chunks of a blob put together, in the pages that the device
finds at multiples of their size (`InFlash`). `NvsStore` is the abstract
specification: the rows that are promised become readable in their order, each in
one step, and an image is written with all of them or not at all. `Promised` are
the rows of characters of one byte; without encryption those after the first one
that is not so are not promised, because their pages may be displaced. `readable`
is mapped to the promised rows that a device finds. `DecryptedNo` counts the
entries that the loop of `decrypt` has decrypted since the page began, blank ones
and the header passed over; `Tweak`, for `encrypt_data`, goes by the place of the
entry: that the two agree is what `DecryptRecovers` says.

## 3. Runs

Runs of `MCDeviceController`, for one Device. Two versions of one input
are enough for a change to be missed or rolled back, and one crash, one fault
and one failure suffice because a reconciliation keeps no memory: a second one
meets an object state that a first one can already produce. The failure in
`topic_changes` passes the back-off limit of zero, so that the Job fails for good;
that in `secret_changes` does not, so that the container starts again with the
password of another moment. Both runs check `SeeingSpec`, and may stop where a Job is
overlooked, so `CHECK_DEADLOCK` is off. `QuiescentConsistent` includes the broker: it
has the present password, or the topology operator has still to act on the User.

| Run | Informers that may lag | Changes | Shows |
|---|---|---|---|
| `stale_caches` | all | topic | `TypeOK`, `OnlyFinishedBuildsDeleted`, `StampsNeverRollBack`, `ImplementsPublication` |
| `topic_changes` | all | topic, crash, failed Job | `StampsSound`, `QuiescentConsistent` |
| `secret_changes` | all | user edits the secret, failed container | `QuiescentConsistent` |
| `converges` | none | topic, crash, API fault | `StampsSound`, `Converges` |
| `class_change` | none | class | violated: `QuiescentClassConsistent` |
| `stale_job` | the Job's | topic | violated: `UpToDateJobsAre` |

`topology` (`MCTopologyResource`) is one object with one caller: one crash, one
unanswered request, one deletion, one report, two contents; it shows `TypeOK`,
`SpecNeverRollsBack` and `Applied`. One crash and one unanswered request leave
two late requests of different contents; six versions suffice because at most
five are held at a time. The attempts are the code's five.

`cluster` (`MCClusterController`) shows `TypeOK`, `QuiescentConsistent`,
`ImplementsParentHash`, `PasswordsKept` and `Converges` with every informer late.
There is one user, with a secret to inject into: the code treats users alike, one
after the other, and keeps nothing from one for the next; the theorems are about
any number. There is one edit, of the topic (with or without roles that the
operator knows) or of the extra Secret, and one trouble of any sort: a crash, a
failed or unanswered write, an edit of one of the secrets, a lost address. One
suffices for the reason given above: a reconciliation keeps no memory. The
panics, the missing roles and the missing or empty secrets are in the initial
states and cost no trouble. `QuiescentConsistent` says nothing of passwords: the
users' Secrets are not watched, so that only `Converges` holds of them, with the
help of the resync.

`partition` (`MCNvsPartition`) shows `TypeOK`, `PagesFit`,
`ImageFillsPartition`, `DecryptRecovers` and `ImplementsNvsStore`. Pages have
four entries instead of 126 and a byte ends at 2, so that one string fills a
page, a blob takes up to three pages, and the limits of one byte are met; the
limits for sizes (64 and 96 for 1984 and 4000) have the same place relative to a
page as in the code: the first is not above what a page takes, the second is.
The files are all those with up to three values after a namespace, of sizes on
both sides of every boundary of entries and pages, in partitions that they fill
and in partitions too small for them; others have a value that stops the tool, or
stop it after a page was needed. Strings and blobs with characters of two bytes,
before or after another row, have their bytes in the entries counted, in one more,
or past the end of the page. Nothing depends on more than the current page
and the next one, so three values meet every state of a page; the theorems
of section 4 are about any sizes. The tool ends, so `CHECK_DEADLOCK` is off.
`image_overrun`, with the same inputs, violates `ImageHasSize`.

`delivery` (`MCConfigDelivery`) shows `TypeOK`, `CompletedBuildsAreFresh`,
`ImplementsPublication` and `Fetched`: two names, two versions of the Secret with
settings of every kind, one container or pod lost, one request at a time. Two
versions are enough for a mixture of two and for a setting to go between `isfile`
and `open`, and two settings for one to be swallowed by the other.
`CompletedBuildsAreFresh` asks for a partition in the archive only if no setting
was removed since the Job was made; what is in one is fresh in any case.
`empty_config` violates `CompletedBuildsConfigure` with one version and no
failure.

The four violated runs are disagreements between the code and what its comments,
logs or documentation say:

1. *A change of a DeviceClass wakes no device.* `mapDeviceClassToDevice` lists
   by a field without an index, so the cached `List` fails.
2. *A Job that the informer has not shown yet is taken for a newer one.* The
   device is stamped before `Create`, which fails with `AlreadyExists`, and the
   final patch stores the stamps.
3. *A build succeeds without a configuration.* `build.sh` ignores that
   `csv_gen.py` or `nvs_partition_gen.py` failed, and the kinds of settings
   listed under `ConfigDelivery`, or the removal of one while they are read, make
   them fail or damage a value.
4. *An image is larger than its partition.* A string with other than ASCII characters
   is counted in characters and written in bytes, past the end of its page.

Three remarks that no run is spent on. `createJob` requeues while a Job has no
completion time, "Requeue if the job is not completed yet (success or failure)"
(`controller/device_controller.go:232`); Kubernetes gives it to successful Jobs
only, so a Job past its back-off limit (`failed` in `DeviceController`) is waited
for for ever and blocks its device. `devicecluster_controller_test.go` expects
"should successfully reconcile the resource" of a cluster without annotations and
without a Service: with the RabbitMQ kinds installed, that is `HashPanics`. And the
comment "Fetch the latest version of the object" in `CreateOrUpdate`
(`controller/device_controller.go:572`) does not hold, because the `Get` after a
conflict reads the cache too. `TopologyResource` models
it so, and `Applied` holds all the same: the key comes back.

### Fairness

`FairSpec` assumes weak fairness of the reconciler's worker, of each informer,
of the resync, of the parents' controllers, of the pod's containers and the end
of a Job's deletion, and of the topology operator: all of them are loops that
run as long as their process does, and their steps once enabled stay enabled or
are replaced by another step of the same actor. Users, crashes, faults and
failures are not forced. The resync is fair because `main.go` leaves the default
period in place; it is what repairs a change of the class in `Converges`, ten
hours late.

`FairSpec` of `ConfigDelivery` assumes weak fairness of the operator together
with the Job (both are loops of their own that are never disabled by others), of
the server, and of the owner of the device, who asks again with the password that
the Secret has now. Edits, lost containers and lost pods are not forced; requests
with other passwords neither. `FairSpec` of
`ClusterController` assumes weak fairness of the worker, each informer, the resync,
the load balancer together with the operator that makes the Service, and the
import of credentials; `Converges` says that mending what only users can mend
(roles, missing and empty secrets) is enough. `FairSpec` of `TopologyResource`
assumes it of the caller of `CreateOrUpdate`, of late requests, the informer, the
resync and the topology operator.

## 4. Proofs

`DeviceControllerProofs` proves, for all constants that satisfy the module's
three assumptions (the bounds are naturals, `Lagging` names kinds, the values
for absent objects are no objects):

* `TypeCorrect`: `Spec => []TypeOK`, one lemma per action.
* `OnlyFinishedBuildsDeletedHolds`. The property is not inductive: a reconciler
  that holds a stale copy of a completed Job could delete a newer one. `JobInv`
  strengthens it: a cached copy that says "completed" is followed by the stored
  Job (`CachedJobFollows`), which stays true because a Job is only created when
  the cached copy is gone (`CreateSeesNoOldJob`); that needs that a Job being
  deleted still has its copy (`DeletingJobIsDone`), and the step between the
  decision and the `Delete` is covered by `DeleteSeesDoneJob`.
* `StampsNeverRollBackHolds`. `StampInv` orders stamp, cached hash and stored
  hash of each parent (`HashesInOrder`), and what the reconciliation has read
  and written in between (`ReadIsNewer`, `NewStampIsNewer`).

`PublicationProofs` proves `PublicationImplemented`: `DeviceController`
implements `ConfigPublication`. `PublicationInv` is the invariant behind the
refinement mapping: published password, stored password, password in the pod
and password in the Secret were issued in this order (`PasswordsInOrder`; the
pod's own place in it depends on its step), and for each parent the published
version, the Job's, the one the reconciliation holds, the cached and the stored
one (`VersionsInOrder`, `ReadVersionsInOrder`). A new password, a new spec, the
`store-hash` container and the `upload-secret` container are the steps of
`ConfigPublication`; every other step leaves its variables alone.

`DeviceConsistencyProofs` proves `StampsSoundHolds` and `QuiescentConsistentHolds` of
`SeeingSpec`: any informer may lag, that of the Jobs too, and every write may fail or
go unanswered; the one thing left out is what follows the creation of a Job that
exists. After it both properties are false, as `stale_job` shows: the creation is
refused and the device is stamped for the new Job all the same. So the theorems say
that this is the only way in which the stamps can become wrong.
`StampsSound` needs that the numbers people hold of the secret are ordered: whatever
anybody remembers of it, a stamp, a cached hash, is not newer than its present
password (`ContentsKnown`), so that the password a starting pod takes is at least as
new as every stamp; that a parent's hash is not ahead of its spec
(`HashesNotAhead`); that a device is only stamped in memory when there is no Job
(`StampedForNewJob`); and that the stamps still to be stored are not newer than the
Job (`NewStampsSound`). For `QuiescentConsistent`, a reconciliation that has met no
error has done what is before its present step (`WorkDone`), from copies that are
those in the caches unless the key waits in the queue again (`CopiesPresent`), and
leaves, when it ends, nothing that an event on its way will not cause to be done
(`Settled`). The secret is the hard part, because it is written by the reconciler
itself and by users and its watch only finds a device that has its label: what
`createSecret` holds is the cached secret, or one that the cache must yet see
(`SecretPending`), or one for which the device gets a new stamp (`SecretCopied`); a
password that the cache has seen with its hash keeps that hash (`HashSettled`). In
the end the stamps equal the present hashes, the Job is not older than the stamps,
and a completed Job has published what it was made from (`DoneJobPublished`).

`TopologyResourceProofs` proves, for all numbers of contents, attempts, crashes
and late requests, `TypeCorrect` and `SpecNeverRollsBackHolds`. `OrderInv` says
that the running call writes the newest of what was written so far
(`CallIsNewest`), and that a late update which the API server would still accept
is not older than the object (`AcceptedIsNewer`): every change of content gives
the object a version that no request names, so an overtaken request is refused.

`ClusterControllerProofs` proves, for any number of users, bounds and lags,
`TypeCorrect`, `ParentHashImplemented` and `PasswordsKeptHolds`. The assumptions
are the module's: `Injecting` are users, `Lagging` are kinds, the bounds are
naturals, the values for absent objects are no objects. The invariant behind the
refinement is `HashInv`, in the order in which versions travel: what is hashed
is not newer than what the caches show (`CachesInOrder`, `ReadInOrder`), and not
older than the stored hash, although the reconciliation reads the address first,
the extra Secret later, and merges the result into a cluster it has read before both
(`NewHashInOrder`). Without the patch's base a reconciliation that failed early
would store the old hash again. `PasswordsKeptHolds` needs that the Update names
the version of the copy in which a password was missing; `UserInLoop` (the loop is
at a user) goes with the type invariant. `QuiescentConsistentHolds` is proved with
`SettledInv`, of the same three parts as for the device (`WorkDone`, `CopiesPresent`,
`Settled`), and needs no hypothesis on the lags.

`ConfigDeliveryProofs` proves, for any settings, versions and losses,
`TypeCorrect` (with `MountShown`: the pod sees a version that exists) and
`PublicationImplemented`. `PasswordInv` orders the passwords of the archive, of
the stored hash, of the running container and of `/output` (`PasswordsExist`), in
a way that depends on the pod's step (`PodInOrder`): from `BeginBuild` on, the
container's password is not older than the hash; from `WriteFlash` on, `/output`
is not older than the archive; and after `StoreHash` the hash is not older than
`/output`. A lost pod makes the last two empty claims again, by starting over.
`CompletedBuildsAreFreshHolds` follows the settings on their way, whatever the
mount does between two accesses: what the running container has read (`JobFresh`),
the rows of the CSV file (`CsvFresh`), what is in `/output` (`OutputFresh`) and
the archive (`ArchiveFresh`) each hold every setting that was there in all
versions since the Job was made, as one of them has it. That the partition tool
loses no row of a CSV file in which no quote is left open (`NoneHidden`) is a
statement about a function that is recursive over the rows of a file of any
length. It is proved by looking at the first row for which it would be false
(`LeastElement`), which is induction without the library's induction theorems,
whose operator parameters the provers cannot instantiate.

`NvsPartitionProofs` proves, for pages of any number of entries, bytes of any
width and any CSV files, `TypeCorrect`, `PagesAlwaysFit`, `ImageAlwaysFills` and
`DecryptAlwaysRecovers`. The assumptions are the module's: a page has at least two
entries, the limits are naturals, the inputs are inputs. The invariant `IInv`
says of the pages, while rows are written (`Writable`), that they are numbered in
their order, only the last one is active, none is overfull and every entry is
sealed with its own address; that they are where they belong and have their size as
long as the values written have characters of one byte only, or are encrypted
(`ExactInv`); that the pages made, the one kept back and the bytes
left are together the size asked for, and that what is left is a number of whole
pages (`PagesInv`), without which taking a page from what is "not zero" could
leave less than nothing; and that a chunk starts inside its blob and in a page with an
entry free (`BlobInv`). `WithPageProperties`, `PutProperties`,
`EntriesOfProperties` and `ChunkProperties` say what the operators return.

`NvsStoreProofs` proves `ImplementsStore`: the tool implements `NvsStore`, for the
rows that are promised. Its one hypothesis, `WellFormed`, is on the CSV files: a
namespace comes first, each is declared once, and in it a key is there once.
`csv_gen.py` writes no others: two namespaces with names of its own, five
different keys in the first one, the keys of a dictionary in the second. A
namespace declared twice would be found by a device before its second row is
written, and what follows that row never. The difficulty is that what a device
finds is computed by functions that are recursive over pages and chunks.
`StoreInv` gives these functions their value: the spans of a page lead from each
item to the next (`Tiled`), so that the device meets every item (`HeadsOfTiled`)
and the pages are as good as the set of their items (`ItemsOfLog`); each item is
of one row only (`OneOwner`), of a row written before or of the one begun
(`Owned`); the promised rows before `next` have all they need (`AllWritten`), in
pages that the device finds (`LastOnFlash`), and the chunks of a begun blob start
where the one before ends, at a multiple of an entry's size (`BlobBegun`), so that
they join to the value (`AssembledChunks`). Hence `ReadableRows`: of the promised
rows, those before `next` are readable. `WriteRow` and `WriteIndex` are the
abstract `Write`; new pages, chunks and failures leave what is readable alone. The
recursive functions are treated by least counterexamples (`LeastElement`), as for
`NoneHidden`. `StoreInv` was checked with TLC, as an invariant of the inputs of
`partition`, before it was proved.

Only model-checked: both modules' `Converges`, `Applied` and `Fetched` (liveness,
which the prover does not handle). The properties of the runs that expect a violation are
false, and so nothing to prove.

## 5. Not modelled, and the plan

In this order:

1. The composition of `ClusterController` and `DeviceController`, in which contents
   may come back and a Device may have the name of a user of the cluster.
2. `ClassController`: the firmware Job, deleted and created at once, on a volume
   that the cluster provides.
3. `DeviceLifecycle`: deletion and recreation of the Device, garbage collection
   along owner references, what is left behind (Secret, Permission,
   TopicPermission, archive and hash on the volume).
4. `HashByteData`: the concatenation that is hashed, against the equality of
   contents it stands for.
5. `Firmware`: the loop with a wrapping clock, reconnection and the dangling
   topic; `Netboot`: the boot request that overtakes the DHCP packet.
6. Proofs: the invariants of the modules above.

Left out of the modelled parts: of `nvs_partition_gen.py` the directories that
`set_target_filepath` makes, the values of CRCs and keys, rows of type `file`
(their value is read from another file and then treated alike) and the copy of
the script in `services/esp32-firmware-builder/esp-idf-nvs-partition-gen`, which
is the same file, called by hand, keys of other than ASCII characters (a Secret has
none) and characters of three and four bytes; of `serve.py` the firmware route and the health
check, which read only and need no password; of the
DeviceCluster controller its deletion, a host name or port given in the spec (the
address is then fixed), annotations injected into secrets and a user's Secret
without any data (a nil map, as for `InjectPanics`).

Out of scope: generated deep copies, the Helm charts and fleet bundles, the
Rancher extension (a user interface over the same objects) and
`_remove_esp32-sim7600` (marked for removal).

------------------------- MODULE ClusterController -------------------------
(***************************************************************************)
(* The DeviceClusterReconciler (devicecluster_controller.go, _persistence, *)
(* _rabbitmq, _http_server) for one DeviceCluster, write by write, with    *)
(* the informer caches it reads, the work queue, and those who write the   *)
(* same objects: users, the owners of the secrets it injects into, the     *)
(* load balancer and the RabbitMQ topology operator.                       *)
(*                                                                         *)
(* A content is modelled by its number, and every edit makes a new one.    *)
(* CreateOrUpdate is one write; TopologyResource has its requests.         *)
(***************************************************************************)
EXTENDS Naturals

CONSTANTS
  NoService,    (* RabbitMQ's Service does not exist yet.                  *)
  NoSecret,     (* The Secret <user>-user-credentials does not exist.      *)
  NoRemote,     (* A secret to inject into does not exist.                 *)
  EmptyRemote,  (* It exists and has no data.                              *)
  NUsers,       (* The users of the spec are 1..NUsers, in their order.    *)
  Injecting,    (* Those with a secret to inject their credentials into.   *)
  Lagging,      (* The kinds whose informer cache may be stale when read.  *)
  MaxVersions,  (* How many topics and contents of the extra Secret.       *)
  MaxTroubles   (* How many crashes, faults, edits of secrets and outages. *)

Users   == 1..NUsers
Kinds   == {"cluster", "service", "secrets"}
Parts   == {"topic", "host", "extra"}
Troubles == {"crashes", "faults", "edits", "outages"}

ASSUME UsersAssumption == NUsers \in Nat /\ Injecting \subseteq Users
ASSUME LaggingAssumption == Lagging \subseteq Kinds
ASSUME BoundsAssumption == MaxVersions \in Nat /\ MaxTroubles \in Nat

VARIABLES
  api,      (* The objects as the API server stores them, by kind.         *)
  cache,    (* The manager's informer caches: older copies of api.         *)
  queued,   (* The cluster's key waits in the controller's work queue.     *)
  pc,       (* The next step of the reconciliation, "idle" between two.    *)
  local,    (* What the running reconciliation holds in memory.            *)
  made,     (* Which of the objects that are made once exist.              *)
  broker,   (* Each user's resources and what the broker has imported.     *)
  issued,   (* The number of the newest content of a user's Secret.        *)
  spent     (* How many troubles of each sort there have been.             *)

vars == <<api, cache, queued, pc, local, made, broker, issued, spent>>

-----------------------------------------------------------------------------
(* The objects. *)

Hash   == [topic : Nat, host : Nat, extra : Nat]
NoHash == [topic |-> 0, host |-> 0, extra |-> 0]

(* The spec: its topic, and which user has an unknown role (0 = none).  The *)
(* annotations: whether there are any, the broker's host (0 = not set) and  *)
(* the hash for devices.                                                    *)
Cluster == [topic : Nat, unknown : 0..NUsers, annotated : BOOLEAN, host : Nat, hash : Hash]

(* The number of addresses it has had, and whether it has the last of them. *)
Service == [host : Nat, ready : BOOLEAN]

(* pw = 0: the key "password" is missing. *)
Secret == [pw : Nat, rv : Nat]

Remote    == [pw : Nat, topic : Nat]
NewRemote == [pw |-> 0, topic |-> 0]

ASSUME AbsentAssumption ==
  /\ NoService \notin Service /\ NoSecret \notin Secret
  /\ {NoRemote, EmptyRemote} \cap Remote = {} /\ NoRemote # EmptyRemote

(* extra: the content of <cluster>-device-cluster (0 = it does not exist). *)
Secrets == [extra : Nat, users : [Users -> Secret \cup {NoSecret}],
            remotes : [Injecting -> Remote \cup {NoRemote, EmptyRemote}]]

Objects == [cluster : Cluster, service : Service \cup {NoService}, secrets : Secrets]

Locals == [base : Cluster, cluster : Cluster, user : Nat, secret : Secret, again : BOOLEAN]

(* volume: the volume and its claim exist.  rabbitmq: how many of           *)
(* RabbitmqCluster, Vhost and Queue do.  server: Deployment, Service and     *)
(* Ingress all exist.                                                       *)
Made == [volume : BOOLEAN, rabbitmq : 0..3, server : BOOLEAN]

(* stamp: the version of the Secret in the User's annotation (0 = no User). *)
(* topic: that of the TopicPermission.  imported: the stamp and password    *)
(* with which the credentials were last imported.                           *)
Resources == [stamp : Nat, topic : Nat, imported : [stamp : Nat, pw : Nat]]

TypeOK ==
  /\ api \in Objects
  /\ cache \in Objects
  /\ queued \in BOOLEAN
  /\ pc \in {"idle", "volume", "address", "rabbitmq", "secret", "user", "inject",
             "server", "hash", "patch"}
  /\ local \in Locals
  /\ made \in Made
  /\ broker \in [Users -> Resources]
  /\ issued \in Nat
  /\ spent \in [Troubles -> Nat]

NewCluster == [topic |-> 1, unknown |-> 0, annotated |-> FALSE, host |-> 0, hash |-> NoHash]

NoLocal == [base |-> NewCluster, cluster |-> NewCluster, user |-> 0,
            secret |-> [pw |-> 0, rv |-> 0], again |-> FALSE]

(* Whoever creates the cluster may have annotated it. *)
Init ==
  /\ \E annotated \in BOOLEAN, unknown \in 0..NUsers,
        remotes \in [Injecting -> {NoRemote, EmptyRemote, NewRemote}] :
       api = [cluster |-> [NewCluster EXCEPT !.annotated = annotated, !.unknown = unknown],
              service |-> NoService,
              secrets |-> [extra |-> 0, users |-> [u \in Users |-> NoSecret],
                           remotes |-> remotes]]
  /\ cache = api
  /\ queued = TRUE
  /\ pc = "idle"
  /\ local = NoLocal
  /\ made = [volume |-> FALSE, rabbitmq |-> 0, server |-> FALSE]
  /\ broker = [u \in Users |-> [stamp |-> 0, topic |-> 0, imported |-> [stamp |-> 0, pw |-> 0]]]
  /\ issued = 0
  /\ spent = [b \in Troubles |-> 0]

-----------------------------------------------------------------------------
(* What the steps of a reconciliation are built from. *)

Spend(b) ==
  /\ spent["crashes"] + spent["faults"] + spent["edits"] + spent["outages"] < MaxTroubles
  /\ spent' = [spent EXCEPT ![b] = @ + 1]

InSync(k) == k \in Lagging \/ cache[k] = api[k]

(* A write, possible in the present state or not, is done; or an error is  *)
(* answered after it was done ("lost") or instead of it ("refused").       *)
Outcomes == {"done", "lost", "refused"}

Answer(possible, outcome) ==
  \/ outcome = "done" /\ possible /\ UNCHANGED spent
  \/ outcome = "refused" /\ ~possible /\ UNCHANGED spent
  \/ outcome \in {"lost", "refused"} /\ possible /\ Spend("faults")

(* Control leaves reconcile() for the final Patch. *)
Leave(again) ==
  /\ pc' = "patch"
  /\ local' = [local EXCEPT !.again = again]

(* After a write that is the last thing that a step does. *)
GoOn(outcome, next) ==
  IF outcome = "done" THEN pc' = next /\ UNCHANGED local ELSE Leave(TRUE)

(* The loop over the users. *)
StepFor(u) == IF u \in Users THEN "secret" ELSE "server"

NextUser == pc' = StepFor(local.user + 1) /\ local' = [local EXCEPT !.user = @ + 1]

(* The manager dies and is started again: its memory is lost, the informers *)
(* list every object.                                                       *)
Restart ==
  /\ cache' = api
  /\ queued' = TRUE
  /\ pc' = "idle"
  /\ local' = NoLocal
  /\ UNCHANGED <<api, made, broker, issued>>

-----------------------------------------------------------------------------
(* One reconciliation. *)

Load ==
  /\ pc = "idle"
  /\ queued
  /\ InSync("cluster")
  /\ queued' = FALSE
  /\ pc' = "volume"
  /\ local' = [NoLocal EXCEPT !.base = cache.cluster, !.cluster = cache.cluster]
  /\ UNCHANGED <<api, cache, made, broker, issued, spent>>

EnsurePersistence ==
  /\ pc = "volume"
  /\ \E outcome \in Outcomes :
       /\ Answer(TRUE, outcome)
       /\ made' = IF outcome = "refused" THEN made ELSE [made EXCEPT !.volume = TRUE]
       /\ GoOn(outcome, "address")
  /\ UNCHANGED <<api, cache, queued, broker, issued>>

(* syncRabbitmqCluster begins: the address for the devices is taken from   *)
(* the Service.  Without a Service the reconciliation goes on, with one     *)
(* that has no address it does not.                                         *)
FindAddress ==
  /\ pc = "address"
  /\ InSync("service")
  /\ \/ /\ cache.service = NoService
        /\ pc' = "rabbitmq"
        /\ UNCHANGED local
     \/ /\ cache.service # NoService
        /\ ~cache.service.ready
        /\ Leave(TRUE)
     \/ /\ cache.service # NoService
        /\ cache.service.ready
        /\ pc' = "rabbitmq"
        /\ local' = [local EXCEPT !.cluster.host = cache.service.host,
                                  !.cluster.annotated = TRUE]
  /\ UNCHANGED <<api, cache, queued, made, broker, issued, spent>>

(* Slip for EnsureRabbitmq: objects that exist are made once more. *)
EnsureRabbitmqAgain ==
  /\ pc = "rabbitmq"
  /\ \E k \in 0..3 :
       /\ IF k = 3 THEN UNCHANGED spent ELSE Spend("faults")
       /\ made' = [made EXCEPT !.rabbitmq = @ + k]
       /\ IF k = 3 THEN pc' = StepFor(1) /\ local' = [local EXCEPT !.user = 1] ELSE Leave(TRUE)
  /\ UNCHANGED <<api, cache, queued, broker, issued>>

(* RabbitmqCluster, Vhost and Queue, up to the first error.  The last two   *)
(* are only made if they are missing.                                       *)
EnsureRabbitmq ==
  /\ pc = "rabbitmq"
  /\ \E k \in 0..3, ok \in BOOLEAN :
       /\ ok => k = 3
       /\ IF ok THEN UNCHANGED spent ELSE Spend("faults")
       /\ made' = [made EXCEPT !.rabbitmq = IF k > @ THEN k ELSE @]
       /\ IF ok THEN pc' = StepFor(1) /\ local' = [local EXCEPT !.user = 1] ELSE Leave(TRUE)
  /\ UNCHANGED <<api, cache, queued, broker, issued>>

(* Slip for WriteSecret: it is completed by a merge patch. *)
PatchSecret ==
  /\ pc = "secret"
  /\ InSync("secrets")
  /\ LET u      == local.user
         cached == cache.secrets.users[u]
         secret == [pw |-> issued + 1, rv |-> issued + 1]
     IN  /\ cached # NoSecret => cached.pw = 0
         /\ Answer((api.secrets.users[u] = NoSecret) = (cached = NoSecret), "done")
         /\ api' = [api EXCEPT !.secrets.users[u] = secret]
         /\ issued' = issued + 1
         /\ pc' = "user"
         /\ local' = [local EXCEPT !.secret = secret]
  /\ UNCHANGED <<cache, queued, made, broker>>

(* The user's Secret is created, or completed by an Update that the API     *)
(* server refuses if the Secret is no longer the one in the cache.          *)
WriteSecret ==
  /\ pc = "secret"
  /\ InSync("secrets")
  /\ LET u      == local.user
         cached == cache.secrets.users[u]
         secret == [pw |-> issued + 1, rv |-> issued + 1]
     IN  /\ cached # NoSecret => cached.pw = 0
         /\ \E outcome \in Outcomes :
              /\ Answer(api.secrets.users[u] = cached, outcome)
              /\ IF outcome = "refused"
                   THEN UNCHANGED <<api, issued>>
                   ELSE /\ api' = [api EXCEPT !.secrets.users[u] = secret]
                        /\ issued' = issued + 1
              /\ IF outcome = "done"
                   THEN pc' = "user" /\ local' = [local EXCEPT !.secret = secret]
                   ELSE Leave(TRUE)
  /\ UNCHANGED <<cache, queued, made, broker>>

UseSecret ==
  /\ pc = "secret"
  /\ InSync("secrets")
  /\ LET cached == cache.secrets.users[local.user]
     IN  /\ cached # NoSecret
         /\ cached.pw # 0
         /\ local' = [local EXCEPT !.secret = cached]
  /\ pc' = "user"
  /\ UNCHANGED <<api, cache, queued, made, broker, issued, spent>>

RefuseRole ==
  /\ pc = "user"
  /\ local.cluster.unknown = local.user
  /\ Leave(TRUE)
  /\ UNCHANGED <<api, cache, queued, made, broker, issued, spent>>

(* Slip for WriteUser: a User that exists is not annotated again. *)
WriteUserOnce ==
  /\ pc = "user"
  /\ local.cluster.unknown # local.user
  /\ broker' = [broker EXCEPT ![local.user].stamp = IF @ = 0 THEN local.secret.rv ELSE @,
                              ![local.user].topic = local.cluster.topic]
  /\ IF local.user \in Injecting THEN pc' = "inject" /\ UNCHANGED local ELSE NextUser
  /\ UNCHANGED <<api, cache, queued, made, issued, spent>>

(* User, Permission and TopicPermission, up to the first error. *)
WriteUser ==
  /\ pc = "user"
  /\ local.cluster.unknown # local.user
  /\ \E k \in 0..3, ok \in BOOLEAN :
       /\ ok => k = 3
       /\ IF ok THEN UNCHANGED spent ELSE Spend("faults")
       /\ broker' = [broker EXCEPT
            ![local.user].stamp = IF k > 0 THEN local.secret.rv ELSE @,
            ![local.user].topic = IF k = 3 THEN local.cluster.topic ELSE @]
       /\ IF ok THEN IF local.user \in Injecting THEN pc' = "inject" /\ UNCHANGED local
                                                 ELSE NextUser
                ELSE Leave(TRUE)
  /\ UNCHANGED <<api, cache, queued, made, issued>>

(* The secret that the user's credentials go to, with them. *)
Injected == [pw |-> local.secret.pw, topic |-> local.cluster.topic]

NoInjection ==
  /\ pc = "inject"
  /\ InSync("secrets")
  /\ \/ cache.secrets.remotes[local.user] = NoRemote /\ Leave(TRUE)
     \/ cache.secrets.remotes[local.user] = Injected /\ NextUser
  /\ UNCHANGED <<api, cache, queued, made, broker, issued, spent>>

(* An Update that is refused if the secret has changed since it was read. *)
Inject ==
  /\ pc = "inject"
  /\ InSync("secrets")
  /\ LET cached == cache.secrets.remotes[local.user]
     IN  /\ cached \notin {NoRemote, EmptyRemote, Injected}
         /\ \E outcome \in Outcomes :
              /\ Answer(api.secrets.remotes[local.user] = cached, outcome)
              /\ api' = IF outcome = "refused" THEN api
                        ELSE [api EXCEPT !.secrets.remotes[local.user] = Injected]
              /\ IF outcome = "done" THEN NextUser ELSE Leave(TRUE)
  /\ UNCHANGED <<cache, queued, made, broker, issued>>

(* An assignment to the data of a secret that has none ends the process. *)
InjectPanics ==
  /\ pc = "inject"
  /\ InSync("secrets")
  /\ cache.secrets.remotes[local.user] = EmptyRemote
  /\ Restart
  /\ UNCHANGED spent

SyncHttpServer ==
  /\ pc = "server"
  /\ \E outcome \in Outcomes :
       /\ Answer(TRUE, outcome)
       /\ made' = IF outcome = "refused" THEN made ELSE [made EXCEPT !.server = TRUE]
       /\ GoOn(outcome, "hash")
  /\ UNCHANGED <<api, cache, queued, broker, issued>>

HashForDevice ==
  /\ pc = "hash"
  /\ InSync("secrets")
  /\ local.cluster.annotated
  /\ pc' = "patch"
  /\ local' = [local EXCEPT !.cluster.hash = [topic |-> local.cluster.topic,
                 host |-> local.cluster.host, extra |-> cache.secrets.extra]]
  /\ UNCHANGED <<api, cache, queued, made, broker, issued, spent>>

(* Nobody has annotated the cluster, and the Service was not there: the     *)
(* assignment to its annotations ends the process.                          *)
HashPanics ==
  /\ pc = "hash"
  /\ InSync("secrets")
  /\ ~local.cluster.annotated
  /\ Restart
  /\ UNCHANGED spent

(* Slip for MergePatch: an Update without a resource version. *)
WholeUpdate(base, mod, obj) ==
  [obj EXCEPT !.annotated = mod.annotated, !.host = mod.host, !.hash = mod.hash]

(* A merge patch sets what the reconciliation has changed. *)
MergePatch(base, mod, obj) ==
  [obj EXCEPT !.annotated = @ \/ mod.annotated,
              !.host = IF mod.host # base.host THEN mod.host ELSE @,
              !.hash = IF mod.hash # base.hash THEN mod.hash ELSE @]

(* The final Patch, after an error too: the annotations of a reconciliation *)
(* that has failed half-way are stored.                                     *)
PatchCluster ==
  /\ pc = "patch"
  /\ \E outcome \in Outcomes :
       /\ Answer(TRUE, outcome)
       /\ api' = IF outcome = "refused" THEN api
                 ELSE [api EXCEPT !.cluster = MergePatch(local.base, local.cluster, @)]
       /\ queued' = (queued \/ local.again \/ outcome # "done")
  /\ pc' = "idle"
  /\ local' = NoLocal
  /\ UNCHANGED <<cache, made, broker, issued>>

Reconcile ==
  \/ Load \/ EnsurePersistence \/ FindAddress \/ EnsureRabbitmq
  \/ WriteSecret \/ UseSecret \/ RefuseRole \/ WriteUser
  \/ NoInjection \/ Inject \/ InjectPanics
  \/ SyncHttpServer \/ HashForDevice \/ HashPanics \/ PatchCluster

-----------------------------------------------------------------------------
(* The manager around the reconciler. *)

(* Slip for Wakes: only what SetupWithManager declares with For. *)
WakesOnOwn(k) == k = "cluster"

(* The watches: of the Secrets, only the extra one is looked at. *)
Wakes(k) == k = "secrets" => cache.secrets.extra # api.secrets.extra

Sync(k) ==
  /\ cache[k] # api[k]
  /\ cache' = [cache EXCEPT ![k] = api[k]]
  /\ queued' = (queued \/ Wakes(k))
  /\ UNCHANGED <<api, pc, local, made, broker, issued, spent>>

Resync ==
  /\ ~queued
  /\ queued' = TRUE
  /\ UNCHANGED <<api, cache, pc, local, made, broker, issued, spent>>

Crash == Spend("crashes") /\ Restart

-----------------------------------------------------------------------------
(* The other writers of the objects. *)

(* A user edits the spec: another topic, and other roles. *)
EditCluster ==
  /\ api.cluster.topic + api.secrets.extra < MaxVersions
  /\ \E unknown \in 0..NUsers :
       api' = [api EXCEPT !.cluster.topic = @ + 1, !.cluster.unknown = unknown]
  /\ UNCHANGED <<cache, queued, pc, local, made, broker, issued, spent>>

EditExtra ==
  /\ api.cluster.topic + api.secrets.extra < MaxVersions
  /\ api' = [api EXCEPT !.secrets.extra = @ + 1]
  /\ UNCHANGED <<cache, queued, pc, local, made, broker, issued, spent>>

(* A user sets or removes a password, or deletes the Secret. *)
EditSecret(u) ==
  /\ Spend("edits")
  /\ \/ /\ issued' = issued + 1
        /\ \E pw \in {0, issued + 1} :
             api' = [api EXCEPT !.secrets.users[u] = [pw |-> pw, rv |-> issued + 1]]
     \/ /\ api.secrets.users[u] # NoSecret
        /\ api' = [api EXCEPT !.secrets.users[u] = NoSecret]
        /\ UNCHANGED issued
  /\ UNCHANGED <<cache, queued, pc, local, made, broker>>

(* The owner of a secret to inject into creates, fills or deletes it. *)
EditRemote(u) ==
  /\ Spend("edits")
  /\ \E remote \in {NoRemote, EmptyRemote, NewRemote} \ {api.secrets.remotes[u]} :
       api' = [api EXCEPT !.secrets.remotes[u] = remote]
  /\ UNCHANGED <<cache, queued, pc, local, made, broker, issued>>

(* The RabbitMQ cluster operator makes the Service of the RabbitmqCluster. *)
CreateService ==
  /\ made.rabbitmq > 0
  /\ api.service = NoService
  /\ api' = [api EXCEPT !.service = [host |-> 0, ready |-> FALSE]]
  /\ UNCHANGED <<cache, queued, pc, local, made, broker, issued, spent>>

(* The load balancer gives it an address, or takes it away. *)
AssignAddress ==
  /\ api.service # NoService
  /\ ~api.service.ready
  /\ api' = [api EXCEPT !.service = [host |-> @.host + 1, ready |-> TRUE]]
  /\ UNCHANGED <<cache, queued, pc, local, made, broker, issued, spent>>

LoseAddress ==
  /\ api.service # NoService
  /\ api.service.ready
  /\ Spend("outages")
  /\ api' = [api EXCEPT !.service.ready = FALSE]
  /\ UNCHANGED <<cache, queued, pc, local, made, broker, issued>>

(* The topology operator looks at a User when it changes. *)
ImportCredentials(u) ==
  /\ broker[u].stamp # broker[u].imported.stamp
  /\ api.secrets.users[u] # NoSecret
  /\ api.secrets.users[u].pw # 0
  /\ broker' = [broker EXCEPT ![u].imported = [stamp |-> broker[u].stamp,
                                               pw |-> api.secrets.users[u].pw]]
  /\ UNCHANGED <<api, cache, queued, pc, local, made, issued, spent>>

-----------------------------------------------------------------------------
Environment ==
  \/ EditCluster \/ EditExtra
  \/ \E u \in Users : EditSecret(u) \/ ImportCredentials(u)
  \/ \E u \in Injecting : EditRemote(u)
  \/ CreateService \/ AssignAddress \/ LoseAddress

Next ==
  \/ Reconcile
  \/ \E k \in Kinds : Sync(k)
  \/ Resync
  \/ Crash
  \/ Environment

Spec == Init /\ [][Next]_vars

(* What the deployment keeps doing: the worker, the informers, the resync,  *)
(* the load balancer, and the two RabbitMQ operators.  Nothing obliges      *)
(* users and owners to edit, processes to crash or requests to fail.        *)
FairSpec ==
  /\ Spec
  /\ WF_vars(Reconcile)
  /\ \A k \in Kinds : WF_vars(Sync(k))
  /\ WF_vars(Resync)
  /\ WF_vars(CreateService \/ AssignAddress)
  /\ \A u \in Users : WF_vars(ImportCredentials(u))

-----------------------------------------------------------------------------
(* Properties. *)

(* The topic, the address and the extra Secret in the hash for devices are  *)
(* never ahead of those that exist, and never older than they were in it    *)
(* before, though each reconciliation computes it from copies that may be   *)
(* stale, and stores it in a patch from another one (reconcile 93-114).     *)
Hashes == INSTANCE ParentHash WITH
  newest <- [topic |-> api.cluster.topic, extra |-> api.secrets.extra,
             host |-> IF api.service = NoService THEN 0 ELSE api.service.host],
  hashed <- api.cluster.hash

ImplementsParentHash == Hashes!Spec

(* A password that a user's Secret has is only changed by users: however    *)
(* stale the copy that lacked one, the operator does not generate another   *)
(* over it (syncRabbitmqCluster 149-184).                                   *)
PasswordsKept ==
  [][ \A u \in Users :
        LET before == api.secrets.users[u]
            after  == api'.secrets.users[u]
        IN  /\ before # NoSecret /\ before.pw # 0
            /\ after = NoSecret \/ after.pw # before.pw
            => spent'["edits"] > spent["edits"] ]_vars

(* No reconciliation runs or waits, no event is on its way. *)
Quiescent == pc = "idle" /\ ~queued /\ cache = api

(* When the operator has nothing left to do, all that is made once exists,  *)
(* the devices are told of the present topic, address and extra Secret, and *)
(* every user may read the present topic: no change is missed and no error  *)
(* on the way to it forgotten (watches 149-187).                            *)
QuiescentConsistent ==
  Quiescent =>
    /\ made = [volume |-> TRUE, rabbitmq |-> 3, server |-> TRUE]
    /\ api.cluster.hash = [topic |-> api.cluster.topic, host |-> api.cluster.host,
                           extra |-> api.secrets.extra]
    /\ api.service # NoService =>
         api.service.ready /\ api.cluster.host = api.service.host
    /\ \A u \in Users : broker[u].topic = api.cluster.topic

(* Nothing that only a user can mend is in the way. *)
Mended ==
  /\ api.cluster.unknown = 0
  /\ \A u \in Injecting : api.secrets.remotes[u] \notin {NoRemote, EmptyRemote}

(* "Needed to trigger a reconciliation when the password changes" (189):    *)
(* the Secret, the broker and the secret it is injected into agree.         *)
UserServed(u) ==
  /\ api.secrets.users[u] # NoSecret
  /\ api.secrets.users[u].pw # 0
  /\ broker[u].imported.pw = api.secrets.users[u].pw
  /\ broker[u].topic = api.cluster.topic
  /\ u \in Injecting => api.secrets.remotes[u] =
       [pw |-> api.secrets.users[u].pw, topic |-> api.cluster.topic]

Served ==
  /\ api.service # NoService
  /\ api.cluster.hash = [topic |-> api.cluster.topic, host |-> api.service.host,
                         extra |-> api.secrets.extra]
  /\ api.cluster.host = api.service.host
  /\ \A u \in Users : UserServed(u)

(* Once users have mended what only they can, everybody is served for good: *)
(* panics for want of annotations or data, an address that is late or lost, *)
(* failed writes and passwords changed unseen are all got over.             *)
Converges == <>[]Mended => <>[]Served
=============================================================================

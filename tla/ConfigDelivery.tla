--------------------------- MODULE ConfigDelivery ---------------------------
(***************************************************************************)
(* How the settings in a device's Secret reach the device: the containers  *)
(* of the config-builder Job (build.sh with csv_gen.py and                 *)
(* nvs_partition_gen.py, then the password's hash, then the archive on the *)
(* volume), and the artefact server (serve.py) that hands the archive out  *)
(* while the files it reads are being replaced.                            *)
(*                                                                         *)
(* The Secret of the device and that of its cluster are mounted together   *)
(* and taken for one.  Every version of it has a new password.             *)
(***************************************************************************)
EXTENDS Naturals, Sequences

CONSTANTS
  Names,        (* The keys of the settings in the Secret.                 *)
  Choices,      (* The settings that a version of the Secret may have.     *)
  MaxVersion,   (* How many versions of the Secret there are.              *)
  MaxFailures   (* How often a container or a pod of the Job is lost.      *)

(* A setting, by what the tools do to it.  "plain": one line of text, of    *)
(* any length that fits.  "lines": several lines, without a comma.          *)
(* "comment": a middle one of them begins with '#'.  "torn": the last one   *)
(* of them does.  "longkey": a key of more than 15 characters.  "large": a  *)
(* value over the limit for strings.  "full": within the limit, but too     *)
(* long for a page.  "accents": a line of other than ASCII characters, not  *)
(* too long.  "binary": no text at all.                                     *)
Kinds == {"plain", "lines", "comment", "torn", "longkey", "large", "full", "accents", "binary"}

(* Those of which an image is made with the value that the Secret has.      *)
Sound == {"plain", "lines"}

Settings == UNION {[S -> Kinds] : S \in SUBSET Names}

ASSUME ChoicesAssumption == Choices \subseteq Settings
ASSUME BoundsAssumption == MaxVersion \in Nat /\ MaxFailures \in Nat

VARIABLES
  secrets,    (* The versions of the Secret, the present one last.         *)
  job,        (* The Job: the step of its pod, and what it works with.     *)
  output,     (* The pod's /output, with nvs.bin and flash.sh.             *)
  auth,       (* auth/<device>.hash on the volume.                         *)
  archive,    (* configurations/<device>/config.tgz on the volume.         *)
  client,     (* A request to the server, and what the device has got.     *)
  failures    (* How many containers and pods have been lost.              *)

vars == <<secrets, job, output, auth, archive, client, failures>>

(* nvs.bin: an image has the password of version pw and, of the settings,   *)
(* those that have the value of some version of the Secret, with it.        *)
Partition == [state : {"absent", "empty", "image"}, pw : Nat,
              settings : SUBSET (Names \X Nat)]
NoPartition == [state |-> "absent", pw |-> 0, settings |-> {}]

(* A row of the CSV file with a setting, read from this version. *)
CsvRow == [key : Names, kind : Kinds, version : Nat]

(* pw: the password of the container that was here last.                    *)
Output == [nvs : Partition, pw : Nat, flash : BOOLEAN]
NoOutput == [nvs |-> NoPartition, pw |-> 0, flash |-> FALSE]

(* made: the version for which the Job was made.  pw: the password that     *)
(* build-config and then store-hash is started with.  seen: the version     *)
(* that the pod's mount shows.  todo: the files still to be read, found:    *)
(* the one that is there and is opened next.  csv: the CSV file after the   *)
(* rows of the broker.                                                      *)
TypeOK ==
  /\ secrets \in Seq(Settings)
  /\ job \in [step : {"none", "build", "list", "read", "nocsv", "nvs", "write", "flash",
                      "hash", "hashing", "upload", "uploading", "done"},
              made : Nat, pw : Nat, seen : Nat, todo : SUBSET Names, found : SUBSET Names,
              csv : Seq(CsvRow)]
  /\ output \in Output
  /\ auth \in [pw : Nat, whole : BOOLEAN]
  /\ archive \in [content : Output, state : {"absent", "partial", "whole"}]
  /\ client \in [step : {"idle", "allowed", "reading"}, clean : BOOLEAN, got : Output]
  /\ failures \in Nat

NoJob == [step |-> "none", made |-> 0, pw |-> 0, seen |-> 0, todo |-> {}, found |-> {},
          csv |-> <<>>]

Init ==
  /\ secrets = <<>>
  /\ job = NoJob
  /\ output = NoOutput
  /\ auth = [pw |-> 0, whole |-> FALSE]
  /\ archive = [content |-> NoOutput, state |-> "absent"]
  /\ client = [step |-> "idle", clean |-> FALSE, got |-> NoOutput]
  /\ failures = 0

Latest == Len(secrets)

-----------------------------------------------------------------------------
(* The Secret and the Job. *)

(* Somebody edits the Secret. *)
EditSecret ==
  /\ Latest < MaxVersion
  /\ \E s \in Choices : secrets' = Append(secrets, s)
  /\ UNCHANGED <<job, output, auth, archive, client, failures>>

(* createJob: the Job is made for the present Secret.                       *)
CreateJob ==
  /\ job.step = "none"
  /\ Latest > 0
  /\ job' = [NoJob EXCEPT !.step = "build", !.made = Latest, !.seen = Latest]
  /\ output' = NoOutput
  /\ UNCHANGED <<secrets, auth, archive, client, failures>>

(* Slip for DeleteJob: a new password alone does not change the hash. *)
DeleteJobForSettings ==
  /\ job.step = "done"
  /\ job.made < Latest
  /\ secrets[job.made] # secrets[Latest]
  /\ job' = NoJob
  /\ UNCHANGED <<secrets, output, auth, archive, client, failures>>

(* createJob: the hashes have changed; only a completed Job is deleted.     *)
DeleteJob ==
  /\ job.step = "done"
  /\ job.made < Latest
  /\ job' = NoJob
  /\ UNCHANGED <<secrets, output, auth, archive, client, failures>>

-----------------------------------------------------------------------------
(* build-config. *)

(* The container starts: its environment has the present password. *)
BeginBuild ==
  /\ job.step = "build"
  /\ job' = [job EXCEPT !.step = "list", !.pw = Latest]
  /\ UNCHANGED <<secrets, output, auth, archive, client, failures>>

(* csv_gen.py writes the rows of the broker to a new file and lists the     *)
(* files in the mount, which may show an older version of the Secret.       *)
ListSettings ==
  /\ job.step = "list"
  /\ \E v \in job.seen..Latest :
       job' = [job EXCEPT !.step = "read", !.seen = v, !.todo = DOMAIN secrets[v],
                          !.found = {}, !.csv = <<>>]
  /\ UNCHANGED <<secrets, output, auth, archive, client, failures>>

(* One turn of its loop, in the order of os.listdir.  The mount may change  *)
(* at any time.  A file that is not there any more is passed over.          *)
FindSetting ==
  /\ job.step = "read"
  /\ job.found = {}
  /\ \E k \in job.todo, v \in job.seen..Latest :
       job' = [job EXCEPT !.seen = v, !.todo = @ \ {k},
                          !.found = {k} \cap DOMAIN secrets[v]]
  /\ UNCHANGED <<secrets, output, auth, archive, client, failures>>

(* Slip for ReadSetting: a file that is gone is read all the same. *)
ReadSettingGone ==
  /\ job.step = "read"
  /\ \E k \in job.found, v \in job.seen..Latest :
       job' = [job EXCEPT !.seen = v, !.found = {}, !.csv =
                 Append(@, [key |-> k, version |-> v, kind |->
                   IF k \in DOMAIN secrets[v] THEN secrets[v][k] ELSE "gone"])]
  /\ UNCHANGED <<secrets, output, auth, archive, client, failures>>

IsText(k, v) == k \in DOMAIN secrets[v] /\ secrets[v][k] # "binary"

(* The file that was found is opened and read.  If it has gone since, or is *)
(* not text, csv_gen.py ends, and the trap of build.sh removes the CSV file.*)
ReadSetting ==
  /\ job.step = "read"
  /\ \E k \in job.found, v \in job.seen..Latest :
       job' = IF IsText(k, v)
                THEN [job EXCEPT !.seen = v, !.found = {}, !.csv =
                        Append(@, [key |-> k, kind |-> secrets[v][k], version |-> v])]
                ELSE [job EXCEPT !.seen = v, !.found = {}, !.todo = {}, !.csv = <<>>,
                                 !.step = "nocsv"]
  /\ UNCHANGED <<secrets, output, auth, archive, client, failures>>

EndCsv ==
  /\ job.step = "read"
  /\ job.todo = {}
  /\ job.found = {}
  /\ job' = [job EXCEPT !.step = "nvs"]
  /\ UNCHANGED <<secrets, output, auth, archive, client, failures>>

(* build.sh goes on after a failure: nvs_partition_gen.py finds no CSV file *)
(* and leaves nvs.bin as it is, as an earlier attempt has made it, say.     *)
MissCsv ==
  /\ job.step = "nocsv"
  /\ job' = [job EXCEPT !.step = "flash"]
  /\ UNCHANGED <<secrets, output, auth, archive, client, failures>>

(* nvs_partition_gen.py opens both files, which empties nvs.bin.            *)
OpenNvs ==
  /\ job.step = "nvs"
  /\ output' = [output EXCEPT !.nvs = [NoPartition EXCEPT !.state = "empty"]]
  /\ job' = [job EXCEPT !.step = "write"]
  /\ UNCHANGED <<secrets, auth, archive, client, failures>>

(* nvs_partition_gen.py drops every line that begins with '#' before it     *)
(* parses the CSV.  With the last line of a "torn" value its closing quote  *)
(* goes, and the value swallows the rows up to the next quote: hidden says  *)
(* which rows are lost in this way.                                         *)
Quoted == {"lines", "comment", "torn"}

Hidden(csv) ==
  LET In[i \in 1..Len(csv)] ==
        /\ i > 1
        /\ \/ csv[i - 1].kind = "torn" /\ ~In[i - 1]
           \/ In[i - 1] /\ csv[i - 1].kind \notin Quoted
  IN  {i \in DOMAIN csv : In[i]}

(* A row that makes the tool stop: by itself, or because the rest of its    *)
(* lines are no rows, or because what it has swallowed is too long.         *)
Stops(csv, i) ==
  IF i \in Hidden(csv) THEN csv[i].kind \in {"lines", "comment", "large", "full"}
                       ELSE csv[i].kind \in {"longkey", "large", "full"}

(* An InputError removes the file, any other exception leaves it empty.     *)
Removes(csv, i) == i \notin Hidden(csv) /\ csv[i].kind \in {"longkey", "large"}
Empties(csv, i) == i \notin Hidden(csv) /\ csv[i].kind = "full"

(* The values in the image that are those of the Secret.  A comment is cut  *)
(* out; of other than ASCII text, fewer bytes are counted than the checksum *)
(* is of.                                                                   *)
Intact(csv) ==
  {<<csv[i].key, csv[i].version>> : i \in
     {j \in DOMAIN csv \ Hidden(csv) : csv[j].kind \in Sound}}

Stopped(csv, state) ==
  \E i \in DOMAIN csv :
    /\ Stops(csv, i)
    /\ \A j \in 1..i - 1 : ~Stops(csv, j)
    /\ Removes(csv, i) => state = "absent"
    /\ Empties(csv, i) => state = "empty"

(* build.sh goes on here too.                                               *)
GenerateNvs ==
  /\ job.step = "write"
  /\ \/ /\ \A i \in DOMAIN job.csv : ~Stops(job.csv, i)
        /\ output' = [output EXCEPT !.nvs = [state |-> "image", pw |-> job.pw,
                                             settings |-> Intact(job.csv)]]
     \/ \E state \in {"absent", "empty"} :
          /\ Stopped(job.csv, state)
          /\ output' = [output EXCEPT !.nvs = [NoPartition EXCEPT !.state = state]]
  /\ job' = [job EXCEPT !.step = "flash"]
  /\ UNCHANGED <<secrets, auth, archive, client, failures>>

(* flash.sh, the last command of build.sh: its success is the container's.  *)
WriteFlash ==
  /\ job.step = "flash"
  /\ output' = [output EXCEPT !.flash = TRUE, !.pw = job.pw]
  /\ job' = [job EXCEPT !.step = "hash"]
  /\ UNCHANGED <<secrets, auth, archive, client, failures>>

-----------------------------------------------------------------------------
(* store-hash and upload-secret. *)

(* Slip for BeginHash: the containers run side by side. *)
BeginHashLater ==
  /\ job.step = "hash"
  /\ job' = [job EXCEPT !.step = "upload", !.pw = Latest]
  /\ UNCHANGED <<secrets, output, auth, archive, client, failures>>

(* The shell empties the file before argon2 is started. *)
BeginHash ==
  /\ job.step = "hash"
  /\ auth' = [auth EXCEPT !.whole = FALSE]
  /\ job' = [job EXCEPT !.step = "hashing", !.pw = Latest]
  /\ UNCHANGED <<secrets, output, archive, client, failures>>

(* argon2, with a password as old as the container.                         *)
StoreHash ==
  /\ job.step = "hashing"
  /\ auth' = [pw |-> job.pw, whole |-> TRUE]
  /\ job' = [job EXCEPT !.step = "upload"]
  /\ UNCHANGED <<secrets, output, archive, client, failures>>

(* tar empties the archive in place, under the eyes of who is reading it.   *)
BeginUpload ==
  /\ job.step = "upload"
  /\ archive' = [content |-> output, state |-> "partial"]
  /\ client' = [client EXCEPT !.clean = FALSE]
  /\ job' = [job EXCEPT !.step = "uploading"]
  /\ UNCHANGED <<secrets, output, auth, failures>>

Upload ==
  /\ job.step = "uploading"
  /\ archive' = [archive EXCEPT !.state = "whole"]
  /\ job' = [job EXCEPT !.step = "done"]
  /\ UNCHANGED <<secrets, output, auth, client, failures>>

-----------------------------------------------------------------------------
(* Failures. *)

(* The first step of the container that is running. *)
Restarted(step) ==
  CASE step \in {"list", "read", "nocsv", "nvs", "write", "flash"} -> "build"
    [] step = "hashing" -> "hash"
    [] step = "uploading" -> "upload"
    [] OTHER -> step

RestartContainer ==
  /\ Restarted(job.step) # job.step
  /\ failures < MaxFailures
  /\ job' = [job EXCEPT !.step = Restarted(@)]
  /\ failures' = failures + 1
  /\ UNCHANGED <<secrets, output, auth, archive, client>>

(* Slip for LosePod: the new pod goes on where the old one was. *)
LosePodGoesOn ==
  /\ job.step \notin {"none", "done"}
  /\ failures < MaxFailures
  /\ job' = [job EXCEPT !.step = Restarted(@)]
  /\ output' = NoOutput
  /\ failures' = failures + 1
  /\ UNCHANGED <<secrets, auth, archive, client>>

(* Its node is lost; another pod starts again with an empty /output.        *)
LosePod ==
  /\ job.step \notin {"none", "done"}
  /\ failures < MaxFailures
  /\ job' = [job EXCEPT !.step = "build"]
  /\ output' = NoOutput
  /\ failures' = failures + 1
  /\ UNCHANGED <<secrets, auth, archive, client>>

-----------------------------------------------------------------------------
(* The server. *)

(* check_auth: the hash is there, whole, and of this password. *)
CheckAuth(pw) == auth.whole /\ auth.pw = pw

(* A request with this password is let through.  Otherwise it is a 401.     *)
Authenticate(pw) ==
  /\ client.step = "idle"
  /\ CheckAuth(pw)
  /\ client' = [client EXCEPT !.step = "allowed"]
  /\ UNCHANGED <<secrets, job, output, auth, archive, failures>>

(* serve_configuration opens the archive, or answers 404. *)
SendFile ==
  /\ client.step = "allowed"
  /\ client' = IF archive.state = "absent" THEN [client EXCEPT !.step = "idle"]
               ELSE [client EXCEPT !.step = "reading", !.clean = (archive.state = "whole")]
  /\ UNCHANGED <<secrets, job, output, auth, archive, failures>>

(* The client has read to the end.  An archive that was replaced meanwhile  *)
(* cannot be unpacked.                                                      *)
Receive ==
  /\ client.step = "reading"
  /\ client' = [step |-> "idle", clean |-> FALSE,
                got |-> IF client.clean THEN archive.content ELSE client.got]
  /\ UNCHANGED <<secrets, job, output, auth, archive, failures>>

-----------------------------------------------------------------------------
CsvGen == ListSettings \/ FindSetting \/ ReadSetting \/ EndCsv
Build == BeginBuild \/ CsvGen \/ MissCsv \/ OpenNvs \/ GenerateNvs \/ WriteFlash
Publish == BeginHash \/ StoreHash \/ BeginUpload \/ Upload
Server == SendFile \/ Receive

Next ==
  \/ EditSecret \/ CreateJob \/ DeleteJob
  \/ Build \/ Publish
  \/ RestartContainer \/ LosePod
  \/ (\E pw \in 1..Latest : Authenticate(pw))
  \/ Server

Spec == Init /\ [][Next]_vars

(* The operator and the Job go on, the server answers, and the owner of the *)
(* device asks again and again with the password that the Secret has.       *)
FairSpec ==
  /\ Spec
  /\ WF_vars(CreateJob \/ DeleteJob \/ Build \/ Publish)
  /\ WF_vars(Server)
  /\ WF_vars(Authenticate(Latest))

-----------------------------------------------------------------------------
(* Properties. *)

Publication == INSTANCE ConfigPublication WITH
  input     <- [secret |-> Latest, class |-> 0, cluster |-> 0],
  auth      <- auth.pw,
  published <- [secret |-> archive.content.pw, class |-> 0, cluster |-> 0]

(* The archive is never replaced by one with an older password, and never   *)
(* has a password newer than the one that the server accepts, whichever     *)
(* container or pod is lost while the Secret is edited (the order of the    *)
(* containers in createJob, 307-390).                                       *)
ImplementsPublication == Publication!Spec

AllSound(settings) == \A k \in DOMAIN settings : settings[k] \in Sound

(* From version v on, no setting was removed from the Secret. *)
NoneRemoved(v) == \A w \in v..Latest - 1 : DOMAIN secrets[w] \subseteq DOMAIN secrets[w + 1]

(* A completed Job has published an archive that can be unpacked and is not *)
(* older than the Secret it was made for.  If no setting is of a kind that  *)
(* the tools cannot handle, a partition in it is not older either, and has  *)
(* each setting that was there all the time, as some version since then has *)
(* it; and if no setting was removed meanwhile, there is a partition, with  *)
(* the password of the archive (csv_gen.py, build.sh).                      *)
CompletedBuildsAreFresh ==
  job.step = "done" =>
    LET content == archive.content
    IN  /\ archive.state = "whole"
        /\ content.flash
        /\ content.pw >= job.made
        /\ (\A v \in job.made..Latest : AllSound(secrets[v])) =>
             /\ content.nvs.state = "image" =>
                  /\ content.nvs.pw \in job.made..content.pw
                  /\ \A k \in Names :
                       (\A v \in job.made..Latest : k \in DOMAIN secrets[v]) =>
                         \E v \in job.made..Latest : <<k, v>> \in content.nvs.settings
             /\ NoneRemoved(job.made) =>
                  content.nvs.state = "image" /\ content.nvs.pw = content.pw

(* What the device is to get in the end. *)
Configuration(v) ==
  [nvs |-> [state |-> "image", pw |-> v, settings |-> {<<k, v>> : k \in DOMAIN secrets[v]}],
   pw |-> v, flash |-> TRUE]

(* Once the Secret is left alone, the device gets and keeps the archive     *)
(* made of its last version, all of it if no setting is of a bad kind:      *)
(* every password the server accepts on the way, every container lost, and  *)
(* every archive replaced while it is read is got over.                     *)
Fetched ==
  <>[](Latest > 0 =>
         /\ client.got.pw = Latest
         /\ AllSound(secrets[Latest]) => client.got = Configuration(Latest))

(* README.md of the config builder (line 3): "A simple docker image to      *)
(* build an ESP32 NVS partition from secrets": once it has succeeded, each  *)
(* setting that was there all the time is in a partition.                   *)
CompletedBuildsConfigure ==
  job.step = "done" =>
    \A k \in Names :
      (\A v \in job.made..Latest : k \in DOMAIN secrets[v]) =>
        /\ archive.content.nvs.state = "image"
        /\ \E v \in job.made..Latest : <<k, v>> \in archive.content.nvs.settings
=============================================================================

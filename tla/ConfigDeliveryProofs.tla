------------------------ MODULE ConfigDeliveryProofs ------------------------
(* Theorems about ConfigDelivery, for all values of its constants. *)
EXTENDS ConfigDelivery, FiniteSetTheorems, TLAPS

(* A pod's mount shows a version of the Secret that exists. *)
MountShown == job.step # "none" => job.seen \in 1..Latest

LEMMA EmptyTypes ==
  /\ NoPartition \in Partition
  /\ NoOutput \in Output
<1>1. NoPartition \in Partition
  BY DEF NoPartition, Partition
<1> QED
  BY <1>1 DEF NoOutput, Output

(* The steps of the container build-config, after its start. *)
Building == {"list", "read", "nocsv", "nvs", "write", "flash"}

(* Those of the pod, when it has succeeded. *)
Publishing == {"hash", "hashing", "upload", "uploading"}

Steps == {"none", "build", "done"} \cup Building \cup Publishing

Jobs == [step : Steps, made : Nat, pw : Nat, seen : Nat, todo : SUBSET Names,
         found : SUBSET Names, csv : Seq(CsvRow)]

LEMMA JobTypes ==
  ASSUME TypeOK
  PROVE  /\ job \in Jobs
         /\ job' \in Jobs /\ failures' \in Nat
            /\ UNCHANGED <<secrets, output, auth, archive, client>>
              => TypeOK'
         /\ failures \in Nat
  BY DEF TypeOK, Jobs, Steps, Building, Publishing

LEMMA LatestType == ASSUME TypeOK PROVE Latest \in Nat
  BY DEF TypeOK, Latest

(* The versions of the Secret have settings, of some keys and kinds. *)
LEMMA VersionType ==
  ASSUME TypeOK, NEW v \in 1..Latest
  PROVE  /\ DOMAIN secrets[v] \subseteq Names
         /\ \A k \in DOMAIN secrets[v] : secrets[v][k] \in Kinds
<1>1. secrets[v] \in Settings
  BY DEF TypeOK, Latest
<1>2. PICK S \in SUBSET Names : secrets[v] \in [S -> Kinds]
  BY <1>1 DEF Settings
<1> QED
  BY <1>2

LEMMA RestartedType ==
  ASSUME NEW step \in Steps
  PROVE  Restarted(step) \in Steps
  BY DEF Restarted, Steps, Building, Publishing

-----------------------------------------------------------------------------
(* Type correctness. *)

LEMMA SecretAndJobType ==
  ASSUME TypeOK, MountShown, EditSecret \/ CreateJob \/ DeleteJob
  PROVE  TypeOK' /\ MountShown'
<1>1. CASE EditSecret
  <2>1. PICK s \in Choices : secrets' = Append(secrets, s)
    BY <1>1 DEF EditSecret
  <2>2. s \in Settings
    BY ChoicesAssumption
  <2>3. secrets' \in Seq(Settings) /\ Latest' = Latest + 1
    BY <2>1, <2>2 DEF TypeOK, Latest
  <2>4. TypeOK'
    BY <1>1, <2>3 DEF EditSecret, TypeOK
  <2>5. MountShown'
    BY <1>1, <2>3, LatestType DEF EditSecret, MountShown, TypeOK
  <2> QED
    BY <2>4, <2>5
<1>2. CASE CreateJob
  <2>1. Latest' = Latest /\ Latest \in 1..Latest
    BY <1>2, LatestType DEF CreateJob, Latest
  <2>2. job' = [step |-> "build", made |-> Latest, pw |-> 0, seen |-> Latest, todo |-> {},
                found |-> {}, csv |-> <<>>]
    BY <1>2 DEF CreateJob, NoJob
  <2>3. TypeOK'
    <3>1. job' \in Jobs
      BY <2>2, LatestType DEF Jobs, Steps
    <3> QED
      BY <1>2, <3>1, EmptyTypes DEF CreateJob, TypeOK, Jobs, Steps, Building, Publishing
  <2> QED
    BY <2>1, <2>2, <2>3 DEF MountShown
<1>3. CASE DeleteJob
  BY <1>3 DEF DeleteJob, NoJob, TypeOK, MountShown
<1> QED
  BY <1>1, <1>2, <1>3

LEMMA BuildType ==
  ASSUME TypeOK, MountShown, Build
  PROVE  TypeOK' /\ MountShown'
<1>1. Latest' = Latest /\ Latest \in Nat
  BY LatestType
  DEF Build, BeginBuild, CsvGen, ListSettings, FindSetting, ReadSetting, EndCsv, MissCsv,
      OpenNvs, GenerateNvs, WriteFlash, Latest
<1>2. CASE BeginBuild
  BY <1>1, <1>2 DEF BeginBuild, TypeOK, MountShown
<1>3. CASE ListSettings
  <2>1. PICK v \in job.seen..Latest :
          job' = [job EXCEPT !.step = "read", !.seen = v, !.todo = DOMAIN secrets[v],
                             !.found = {}, !.csv = <<>>]
    BY <1>3 DEF ListSettings
  <2>2. v \in 1..Latest
    BY <1>1, <1>3 DEF ListSettings, MountShown
  <2>3. DOMAIN secrets[v] \subseteq Names
    BY <2>2, VersionType
  <2>4. TypeOK'
    <3>1. v \in Nat /\ <<>> \in Seq(CsvRow)
      BY <1>1, <2>2
    <3>2. job' \in Jobs
      BY <2>1, <2>3, <3>1, JobTypes DEF Jobs, Steps, Building
    <3> QED
      BY <1>3, <3>2, JobTypes DEF ListSettings
  <2>5. job'.seen = v
    BY <2>1 DEF TypeOK
  <2> QED
    BY <1>1, <2>2, <2>4, <2>5 DEF MountShown
<1>4. CASE FindSetting
  <2>1. PICK k \in job.todo, v \in job.seen..Latest :
          job' = [job EXCEPT !.seen = v, !.todo = @ \ {k},
                             !.found = {k} \cap DOMAIN secrets[v]]
    BY <1>4 DEF FindSetting
  <2>2. v \in 1..Latest /\ v \in Nat
    BY <1>1, <1>4 DEF FindSetting, MountShown
  <2>3. {k} \cap DOMAIN secrets[v] \in SUBSET Names /\ job \in Jobs
    BY <2>2, VersionType, JobTypes
  <2>4. job' \in Jobs /\ job'.seen = v
    BY <2>1, <2>2, <2>3 DEF Jobs
  <2> QED
    BY <1>1, <1>4, <2>2, <2>4, JobTypes DEF FindSetting, MountShown
<1>5. CASE ReadSetting
  <2>1. PICK k \in job.found, v \in job.seen..Latest :
          job' = IF IsText(k, v)
                   THEN [job EXCEPT !.seen = v, !.found = {}, !.csv =
                           Append(@, [key |-> k, kind |-> secrets[v][k], version |-> v])]
                   ELSE [job EXCEPT !.seen = v, !.found = {}, !.todo = {}, !.csv = <<>>,
                                    !.step = "nocsv"]
    BY <1>5 DEF ReadSetting
  <2>2. v \in 1..Latest
    BY <1>1, <1>5 DEF ReadSetting, MountShown
  <2>3. v \in Nat /\ job \in Jobs
    BY <1>1, <2>2, JobTypes
  <2> DEFINE Read == job' \in Jobs /\ job'.seen = v
  <2>4. ASSUME ~IsText(k, v) PROVE Read
    <3>1. job' = [job EXCEPT !.seen = v, !.found = {}, !.todo = {}, !.csv = <<>>,
                             !.step = "nocsv"]
      BY <2>1, <2>4
    <3>2. <<>> \in Seq(CsvRow)
      OBVIOUS
    <3> QED
      BY <2>3, <3>1, <3>2 DEF Jobs, Steps, Building
  <2>5. ASSUME IsText(k, v) PROVE Read
    <3> DEFINE row == [key |-> k, kind |-> secrets[v][k], version |-> v]
    <3>1. job' = [job EXCEPT !.seen = v, !.found = {}, !.csv = Append(@, row)]
      BY <2>1, <2>5
    <3>2. row \in CsvRow
      BY <2>2, <2>5, VersionType DEF CsvRow, IsText
    <3>3. job.csv \in Seq(CsvRow)
      BY <2>3 DEF Jobs
    <3>4. Append(job.csv, row) \in Seq(CsvRow)
      BY <3>2, <3>3
    <3> HIDE DEF row
    <3> QED
      BY <2>3, <3>1, <3>4 DEF Jobs
  <2>6. Read
    BY <2>4, <2>5
  <2> QED
    BY <1>1, <1>5, <2>2, <2>6, JobTypes DEF ReadSetting, MountShown
<1>6. CASE EndCsv \/ MissCsv
  BY <1>1, <1>6 DEF EndCsv, MissCsv, TypeOK, MountShown
<1>7. CASE OpenNvs
  <2>1. output' \in Output
    <3>1. [NoPartition EXCEPT !.state = "empty"] \in Partition
      BY DEF NoPartition, Partition
    <3> QED
      BY <1>7, <3>1 DEF OpenNvs, TypeOK, Output
  <2> QED
    BY <1>1, <1>7, <2>1 DEF OpenNvs, TypeOK, MountShown
<1>8. CASE GenerateNvs
  <2>1. \A j \in DOMAIN job.csv : job.csv[j] \in CsvRow
    BY DEF TypeOK
  <2>2. Intact(job.csv) \subseteq Names \X Nat
    BY <2>1 DEF Intact, CsvRow
  <2>3. \A state \in {"absent", "empty"} : [NoPartition EXCEPT !.state = state] \in Partition
    BY DEF NoPartition, Partition
  <2>4. [state |-> "image", pw |-> job.pw, settings |-> Intact(job.csv)] \in Partition
    BY <2>2 DEF Partition, TypeOK
  <2>5. output' \in Output
    <3>1. PICK nvs \in Partition : output' = [output EXCEPT !.nvs = nvs]
      BY <1>8, <2>3, <2>4 DEF GenerateNvs
    <3> QED
      BY <3>1 DEF TypeOK, Output
  <2> QED
    BY <1>1, <1>8, <2>5 DEF GenerateNvs, TypeOK, MountShown
<1>9. CASE WriteFlash
  <2>1. output' \in Output
    BY <1>9 DEF WriteFlash, TypeOK, Output
  <2> QED
    BY <1>1, <1>9, <2>1 DEF WriteFlash, TypeOK, MountShown
<1> QED
  BY <1>2, <1>3, <1>4, <1>5, <1>6, <1>7, <1>8, <1>9 DEF Build, CsvGen

LEMMA PublishType ==
  ASSUME TypeOK, MountShown, Publish
  PROVE  TypeOK' /\ MountShown'
<1>1. Latest' = Latest /\ Latest \in Nat
  BY LatestType DEF Publish, BeginHash, StoreHash, BeginUpload, Upload, Latest
<1>2. CASE BeginHash
  BY <1>1, <1>2 DEF BeginHash, TypeOK, MountShown
<1>3. CASE StoreHash
  BY <1>1, <1>3 DEF StoreHash, TypeOK, MountShown
<1>4. CASE BeginUpload
  BY <1>1, <1>4 DEF BeginUpload, TypeOK, MountShown
<1>5. CASE Upload
  BY <1>1, <1>5 DEF Upload, TypeOK, MountShown
<1> QED
  BY <1>2, <1>3, <1>4, <1>5 DEF Publish

LEMMA LossType ==
  ASSUME TypeOK, MountShown, RestartContainer \/ LosePod
  PROVE  TypeOK' /\ MountShown'
<1>1. Latest' = Latest
  BY DEF RestartContainer, LosePod, Latest
<1>2. CASE RestartContainer
  <2>1. job' = [job EXCEPT !.step = Restarted(job.step)]
    BY <1>2 DEF RestartContainer
  <2> QED
    <3>1. job \in Jobs /\ Restarted(job.step) \in Steps
      BY JobTypes, RestartedType DEF Jobs
    <3>2. job' \in Jobs /\ job'.step = Restarted(job.step) /\ job'.seen = job.seen
      BY <2>1, <3>1 DEF Jobs
    <3>3. TypeOK'
      BY <1>2, <3>2, JobTypes DEF RestartContainer
    <3>4. job.step # "none"
      BY <1>2 DEF RestartContainer, Restarted
    <3>5. MountShown'
      BY <1>1, <3>2, <3>4 DEF MountShown
    <3> QED
      BY <3>3, <3>5
<1>3. CASE LosePod
  <2>1. job' \in Jobs /\ job'.step = "build" /\ job'.seen = job.seen /\ job.step # "none"
    BY <1>3, JobTypes DEF LosePod, Jobs, Steps
  <2>2. TypeOK'
    <3>1. job'.step \in {"none", "build", "list", "read", "nocsv", "nvs", "write", "flash",
                         "hash", "hashing", "upload", "uploading", "done"}
      BY <2>1
    <3>2. output' \in Output /\ failures' \in Nat
          /\ UNCHANGED <<secrets, auth, archive, client>>
      BY <1>3, EmptyTypes DEF LosePod, TypeOK
    <3> QED
      BY <2>1, <3>1, <3>2 DEF TypeOK, Jobs
  <2> QED
    BY <1>1, <2>1, <2>2 DEF MountShown
<1> QED
  BY <1>2, <1>3

LEMMA ServerType ==
  ASSUME TypeOK, MountShown, Server \/ \E pw \in 1..Latest : Authenticate(pw)
  PROVE  TypeOK' /\ MountShown'
<1>1. /\ UNCHANGED <<secrets, job, output, auth, archive, failures>>
      /\ client' \in [step : {"idle", "allowed", "reading"}, clean : BOOLEAN, got : Output]
  <2>1. CASE SendFile
    BY <2>1 DEF SendFile, TypeOK
  <2>2. CASE Receive
    BY <2>2 DEF Receive, TypeOK
  <2>3. ASSUME NEW pw, Authenticate(pw)
        PROVE  /\ UNCHANGED <<secrets, job, output, auth, archive, failures>>
               /\ client' \in [step : {"idle", "allowed", "reading"}, clean : BOOLEAN,
                               got : Output]
    BY <2>3 DEF Authenticate, TypeOK
  <2> QED
    BY <2>1, <2>2, <2>3 DEF Server
<1> QED
  BY <1>1 DEF TypeOK, MountShown, Latest

LEMMA TypeInvariant == Spec => [](TypeOK /\ MountShown)
<1>1. Init => TypeOK /\ MountShown
  BY EmptyTypes DEF Init, TypeOK, MountShown, NoJob
<1>2. TypeOK /\ MountShown /\ [Next]_vars => (TypeOK /\ MountShown)'
  <2> SUFFICES ASSUME TypeOK, MountShown, [Next]_vars PROVE (TypeOK /\ MountShown)'
    OBVIOUS
  <2>1. CASE UNCHANGED vars
    BY <2>1 DEF vars, TypeOK, MountShown, Latest
  <2> QED
    BY <2>1, SecretAndJobType, BuildType, PublishType, LossType, ServerType DEF Next
<1> QED
  BY <1>1, <1>2, PTL DEF Spec

(* Whatever the Secret has in it, and whatever is lost, the Job, the files  *)
(* and the client keep their types: csv_gen.py reads no file that is gone.  *)
THEOREM TypeCorrect == Spec => []TypeOK
  BY TypeInvariant, PTL

-----------------------------------------------------------------------------
(* The order of the passwords: that of the archive, of the hash, of the     *)
(* pod's containers and of the Secret.                                      *)

PasswordsExist ==
  /\ job.pw <= Latest
  /\ output.pw <= Latest
  /\ auth.pw <= Latest
  /\ archive.content.pw <= auth.pw

PodInOrder ==
  /\ job.step \in Building => auth.pw <= job.pw
  /\ job.step \in Publishing => archive.content.pw <= output.pw
  /\ job.step = "hashing" => auth.pw <= job.pw /\ output.pw <= job.pw
  /\ job.step \in {"upload", "uploading"} => output.pw <= auth.pw

PasswordInv == PasswordsExist /\ PodInOrder

LEMMA PasswordTypes ==
  ASSUME TypeOK
  PROVE  /\ Latest \in Nat /\ job.pw \in Nat /\ output.pw \in Nat /\ auth.pw \in Nat
         /\ archive.content.pw \in Nat
<1>1. output \in Output /\ archive.content \in Output
  BY DEF TypeOK
<1> QED
  BY <1>1, LatestType DEF TypeOK, Output

(* What a step does to the passwords, and to the step of the pod. *)
LEMMA PasswordInvPreserved ==
  ASSUME TypeOK, TypeOK', PasswordInv, [Next]_vars
  PROVE  PasswordInv'
<1> USE PasswordTypes DEF Building, Publishing
<1>1. CASE EditSecret
  <2>1. Latest' = Latest + 1
    BY <1>1 DEF EditSecret, TypeOK, Latest
  <2> QED
    BY <1>1, <2>1 DEF EditSecret, PasswordInv, PasswordsExist, PodInOrder
<1>2. CASE CreateJob \/ DeleteJob
  <2>1. /\ job'.pw = 0 /\ job'.step \in {"none", "build"}
        /\ output' = output \/ output'.pw = 0
        /\ UNCHANGED <<secrets, auth, archive>>
    <3>1. CASE CreateJob
      BY <3>1 DEF CreateJob, NoJob, NoOutput
    <3>2. CASE DeleteJob
      BY <3>2 DEF DeleteJob, NoJob
    <3> QED
      BY <1>2, <3>1, <3>2
  <2> QED
    BY <2>1 DEF Latest, PasswordInv, PasswordsExist, PodInOrder
<1>3. CASE BeginBuild
  BY <1>3 DEF BeginBuild, TypeOK, Latest, PasswordInv, PasswordsExist, PodInOrder
<1>4. CASE CsvGen
  <2>1. /\ job.step \in {"list", "read"}
        /\ job'.step \in {"read", "nocsv", "nvs"}
        /\ job'.pw = job.pw
        /\ UNCHANGED <<secrets, output, auth, archive>>
    <3>1. CASE ReadSetting
      BY <3>1 DEF ReadSetting, TypeOK
    <3>2. CASE ListSettings \/ FindSetting \/ EndCsv
      BY <3>2 DEF ListSettings, FindSetting, EndCsv, TypeOK
    <3> QED
      BY <1>4, <3>1, <3>2 DEF CsvGen
  <2> QED
    BY <2>1 DEF Latest, PasswordInv, PasswordsExist, PodInOrder
<1>5. CASE MissCsv \/ OpenNvs \/ GenerateNvs \/ WriteFlash
  <2>1. /\ job'.pw = job.pw
        /\ UNCHANGED <<secrets, auth, archive>>
        /\ \/ /\ job.step \in {"nocsv", "nvs", "write"} /\ job'.step \in {"write", "flash"}
              /\ output'.pw = output.pw
           \/ job.step = "flash" /\ job'.step = "hash" /\ output'.pw = job.pw
    <3>1. output \in Output
      BY DEF TypeOK
    <3>2. CASE MissCsv \/ OpenNvs
      BY <3>1, <3>2 DEF MissCsv, OpenNvs, TypeOK, Output
    <3>3. CASE GenerateNvs
      <4>1. output'.pw = output.pw
        BY <3>1, <3>3 DEF GenerateNvs, Output
      <4> QED
        BY <3>3, <4>1 DEF GenerateNvs, TypeOK
    <3>4. CASE WriteFlash
      BY <3>1, <3>4 DEF WriteFlash, TypeOK, Output
    <3> QED
      BY <1>5, <3>2, <3>3, <3>4
  <2> QED
    BY <2>1 DEF Latest, PasswordInv, PasswordsExist, PodInOrder
<1>6. CASE BeginHash
  BY <1>6 DEF BeginHash, TypeOK, Latest, PasswordInv, PasswordsExist, PodInOrder
<1>7. CASE StoreHash
  BY <1>7 DEF StoreHash, TypeOK, Latest, PasswordInv, PasswordsExist, PodInOrder
<1>8. CASE BeginUpload \/ Upload
  <2>1. /\ job'.pw = job.pw
        /\ UNCHANGED <<secrets, output, auth>>
        /\ \/ /\ job.step = "upload" /\ job'.step = "uploading"
              /\ archive'.content = output
           \/ job'.step = "done" /\ archive'.content = archive.content
    BY <1>8 DEF BeginUpload, Upload, TypeOK
  <2> QED
    BY <2>1 DEF Latest, PasswordInv, PasswordsExist, PodInOrder
<1>9. CASE RestartContainer
  BY <1>9 DEF RestartContainer, Restarted, TypeOK, Latest, PasswordInv, PasswordsExist,
              PodInOrder
<1>10. CASE LosePod
  BY <1>10 DEF LosePod, NoOutput, TypeOK, Latest, PasswordInv, PasswordsExist, PodInOrder
<1>11. CASE Server \/ (\E pw \in 1..Latest : Authenticate(pw)) \/ UNCHANGED vars
  <2>1. UNCHANGED <<secrets, job, output, auth, archive>>
    BY <1>11 DEF Server, SendFile, Receive, Authenticate, vars
  <2> QED
    BY <2>1 DEF Latest, PasswordInv, PasswordsExist, PodInOrder
<1> QED
  BY <1>1, <1>2, <1>3, <1>4, <1>5, <1>6, <1>7, <1>8, <1>9, <1>10, <1>11
  DEF Next, Build, Publish

LEMMA PasswordInvariant == Spec => []PasswordInv
<1>1. Init => PasswordInv
  BY DEF Init, NoJob, NoOutput, Latest, PasswordInv, PasswordsExist, PodInOrder, Building,
         Publishing
<1>2. TypeOK /\ TypeOK' /\ PasswordInv /\ [Next]_vars => PasswordInv'
  BY PasswordInvPreserved
<1> QED
  BY TypeCorrect, <1>1, <1>2, PTL DEF Spec

-----------------------------------------------------------------------------
(* The refinement. *)

(* An edit is a change of the secret, argon2 authorizes and tar, when it    *)
(* empties the archive, publishes; the rest leaves all three alone.         *)
LEMMA PublicationStep ==
  ASSUME TypeOK, PasswordInv, [Next]_vars
  PROVE  [Publication!Next]_(Publication!vars)
<1> USE PasswordTypes
<1>1. CASE EditSecret
  <2>1. Latest' = Latest + 1
    BY <1>1 DEF EditSecret, TypeOK, Latest
  <2>2. UNCHANGED <<auth, archive>>
    BY <1>1 DEF EditSecret
  <2>3. Publication!Change("secret")
    BY <2>1, <2>2 DEF Publication!Change
  <2> QED
    BY <2>3 DEF Publication!Next, Publication!Inputs
<1>2. CASE StoreHash
  <2>1. Latest' = Latest /\ auth'.pw = job.pw /\ archive' = archive
    BY <1>2 DEF StoreHash, Latest
  <2>2. job.pw \in auth.pw..Latest
    BY <1>2 DEF StoreHash, PasswordInv, PasswordsExist, PodInOrder
  <2>3. Publication!Authorize
    BY <2>1, <2>2 DEF Publication!Authorize
  <2> QED
    BY <2>3 DEF Publication!Next
<1>3. CASE BeginUpload
  <2>1. Latest' = Latest /\ auth' = auth /\ archive'.content.pw = output.pw
    BY <1>3 DEF BeginUpload, Latest
  <2>2. output.pw \in archive.content.pw..auth.pw
    BY <1>3 DEF BeginUpload, PasswordInv, PodInOrder, Publishing
  <2>3. Publication!Publish
    BY <2>1, <2>2 DEF Publication!Publish
  <2> QED
    BY <2>3 DEF Publication!Next
<1>4. CASE ~(EditSecret \/ StoreHash \/ BeginUpload)
  <2>1. /\ UNCHANGED secrets
        /\ auth'.pw = auth.pw
        /\ archive'.content = archive.content
    BY <1>4 DEF Next, CreateJob, DeleteJob, Build, BeginBuild, CsvGen, ListSettings,
       FindSetting, ReadSetting, EndCsv, MissCsv, OpenNvs, GenerateNvs, WriteFlash, Publish,
       BeginHash, Upload, RestartContainer, LosePod, Authenticate, Server, SendFile, Receive,
       vars, TypeOK
  <2> QED
    BY <2>1 DEF Publication!vars, Latest
<1> QED
  BY <1>1, <1>2, <1>3, <1>4

(* Whichever container or pod is lost while the Secret is edited, the       *)
(* archive is never replaced by one with an older password, and never has   *)
(* a newer one than the server accepts.                                     *)
THEOREM PublicationImplemented == Spec => ImplementsPublication
<1>1. Init => Publication!Init
  BY DEF Init, NoOutput, Latest, Publication!Init, Publication!Nothing
<1> QED
  BY <1>1, TypeCorrect, PasswordInvariant, PublicationStep, PTL
  DEF Spec, ImplementsPublication, Publication!Spec

-----------------------------------------------------------------------------
(* The rows that a value swallows.  What the recursive function in Hidden   *)
(* computes is found by its least row, without a principle of induction.    *)

LEMMA LeastElement ==
  ASSUME NEW S \in SUBSET Nat, S # {}
  PROVE  \E m \in S : \A k \in S : m <= k
<1> DEFINE T == {0..k : k \in S}
<1>1. T \subseteq FiniteSubsetsOf(Nat) /\ T # {}
  <2>1. ASSUME NEW k \in S PROVE 0..k \subseteq Nat /\ IsFiniteSet(0..k)
    BY FS_Interval
  <2> QED
    BY <2>1 DEF FiniteSubsetsOf
<1>2. PICK x \in T : \A y \in T : <<y, x>> \notin StrictSubsetOrdering(Nat)
  <2>1. IsWellFoundedOn(StrictSubsetOrdering(Nat), FiniteSubsetsOf(Nat))
    BY FS_StrictSubsetOrderingWellFounded
  <2> HIDE DEF T
  <2> QED
    BY <1>1, <2>1, WFMin
<1>3. PICK m \in S : x = 0..m
  OBVIOUS
<1>4. ASSUME NEW k \in S, k < m PROVE FALSE
  <2>1. m \in 0..m /\ m \notin 0..k /\ 0..k \subseteq 0..m
    BY <1>4
  <2>2. <<0..k, 0..m>> \in StrictSubsetOrdering(Nat)
    BY <2>1 DEF StrictSubsetOrdering
  <2> QED
    BY <1>2, <1>3, <2>2
<1> QED
  BY <1>4

LEMMA NoneHidden ==
  ASSUME NEW csv \in Seq(CsvRow), \A i \in DOMAIN csv : csv[i].kind \in Sound
  PROVE  Hidden(csv) = {}
<1> DEFINE Defines(f) ==
      f = [i \in 1..Len(csv) |->
             /\ i > 1
             /\ \/ csv[i - 1].kind = "torn" /\ ~f[i - 1]
                \/ f[i - 1] /\ csv[i - 1].kind \notin Quoted]
<1>1. DOMAIN csv = 1..Len(csv) /\ Len(csv) \in Nat
  OBVIOUS
<1>2. ASSUME NEW f, Defines(f), NEW i \in DOMAIN csv, f[i] PROVE FALSE
  <2> DEFINE S == {j \in 1..Len(csv) : f[j]}
  <2>1. PICK m \in S : \A k \in S : m <= k
    <3>1. i \in S /\ S \in SUBSET Nat
      BY <1>1, <1>2
    <3> HIDE DEF S
    <3> QED
      BY <3>1, LeastElement
  <2>2. m \in 1..Len(csv) /\ f[m]
    OBVIOUS
  <2>3. m > 1 /\ (csv[m - 1].kind = "torn" \/ f[m - 1])
    BY <1>2, <2>2
  <2>4. m - 1 \in 1..Len(csv)
    BY <1>1, <2>2, <2>3
  <2> QED
    BY <1>1, <2>1, <2>3, <2>4 DEF Sound
<1>3. Defines([i \in 1..Len(csv) |-> FALSE])
  <2> DEFINE none == [i \in 1..Len(csv) |-> FALSE]
  <2>1. ASSUME NEW i \in 1..Len(csv), i > 1
        PROVE  csv[i - 1].kind # "torn" /\ ~none[i - 1]
    <3>1. i - 1 \in 1..Len(csv)
      BY <1>1, <2>1
    <3> QED
      BY <1>1, <3>1 DEF Sound
  <2> QED
    BY <2>1
<1>4. Defines(CHOOSE f : Defines(f))
  BY <1>3
<1>5. Hidden(csv) = {i \in DOMAIN csv : (CHOOSE f : Defines(f))[i]}
  BY DEF Hidden
<1> QED
  BY <1>2, <1>4, <1>5

(* Of a sound CSV file an image is made, with every row.                    *)
LEMMA SoundCsv ==
  ASSUME NEW csv \in Seq(CsvRow), \A i \in DOMAIN csv : csv[i].kind \in Sound
  PROVE  /\ \A i \in DOMAIN csv : ~Stops(csv, i)
         /\ Intact(csv) = {<<csv[i].key, csv[i].version>> : i \in DOMAIN csv}
<1>1. Hidden(csv) = {}
  BY NoneHidden
<1> QED
  BY <1>1 DEF Stops, Intact, Sound

-----------------------------------------------------------------------------
(* What the settings of the versions made..Len(s) of a Secret oblige a      *)
(* build for version made to, by what it has read and what it has made.     *)

AllGood(made, s) == \A v \in made..Len(s) : AllSound(s[v])

AlwaysThere(k, made, s) == \A v \in made..Len(s) : k \in DOMAIN s[v]

Grows(made, s) == \A w \in made..Len(s) - 1 : DOMAIN s[w] \subseteq DOMAIN s[w + 1]

(* A partition with the password pw and every setting, of whichever attempt *)
(* of the Job it is. *)
Keeps(nvs, pw, made, s) ==
  AllGood(made, s) /\ nvs.state = "image" =>
    /\ nvs.pw \in made..pw
    /\ \A k \in Names : AlwaysThere(k, made, s) =>
         \E v \in made..Len(s) : <<k, v>> \in nvs.settings

(* There is one, of the attempt that has succeeded. *)
Holds(nvs, pw, made, s) ==
  AllGood(made, s) /\ Grows(made, s) => nvs.state = "image" /\ nvs.pw = pw

Reads(csv, todo, made, s) ==
  AllGood(made, s) =>
    /\ \A i \in DOMAIN csv : csv[i].kind \in Sound
    /\ \A k \in Names : AlwaysThere(k, made, s) =>
         \/ k \in todo
         \/ \E i \in DOMAIN csv : csv[i].key = k /\ csv[i].version \in made..Len(s)

(* The Job is not older than the version it was made for, and neither are   *)
(* the password and the files that it works with.                           *)
JobFresh ==
  /\ job.step # "none" => job.made \in 1..Latest /\ job.made <= job.seen
  /\ job.step \in Building => job.made <= job.pw

(* A file that was found is there in the version that the mount showed.     *)
CsvFresh ==
  /\ job.step = "read" =>
       /\ job.found \subseteq DOMAIN secrets[job.seen]
       /\ \A k, n \in job.found : k = n
  /\ job.step \in {"read", "nvs", "write"} =>
       /\ job.step # "read" => job.todo = {} /\ job.found = {}
       /\ Reads(job.csv, job.todo \cup job.found, job.made, secrets)
  /\ job.step = "nocsv" => ~(AllGood(job.made, secrets) /\ Grows(job.made, secrets))

OutputFresh ==
  /\ job.step = "build" => Keeps(output.nvs, Latest, job.made, secrets)
  /\ job.step \in Building => Keeps(output.nvs, job.pw, job.made, secrets)
  /\ job.step = "flash" => Holds(output.nvs, job.pw, job.made, secrets)
  /\ job.step \in Publishing =>
       /\ output.flash
       /\ job.made <= output.pw
       /\ Keeps(output.nvs, output.pw, job.made, secrets)
       /\ Holds(output.nvs, output.pw, job.made, secrets)

ArchiveFresh ==
  /\ job.step = "uploading" => archive.content = output
  /\ job.step = "done" =>
       /\ archive.state = "whole"
       /\ archive.content.flash
       /\ job.made <= archive.content.pw
       /\ Keeps(archive.content.nvs, archive.content.pw, job.made, secrets)
       /\ Holds(archive.content.nvs, archive.content.pw, job.made, secrets)

FreshInv == JobFresh /\ CsvFresh /\ OutputFresh /\ ArchiveFresh

(* An edit of the Secret only weakens what is owed to a version before it.  *)
LEMMA OwedLess ==
  ASSUME NEW s, NEW t, Len(s) \in Nat, Len(t) \in Nat, Len(s) <= Len(t),
         \A v \in 1..Len(s) : t[v] = s[v], NEW made \in 1..Len(s)
  PROVE  /\ \A nvs, pw : Keeps(nvs, pw, made, s) => Keeps(nvs, pw, made, t)
         /\ \A nvs, pw : Holds(nvs, pw, made, s) => Holds(nvs, pw, made, t)
         /\ \A csv, todo : Reads(csv, todo, made, s) => Reads(csv, todo, made, t)
         /\ AllGood(made, t) => AllGood(made, s)
         /\ Grows(made, t) => Grows(made, s)
<1>1. made..Len(s) \subseteq made..Len(t) /\ made..Len(s) \subseteq 1..Len(s)
  OBVIOUS
<1>2. AllGood(made, t) => AllGood(made, s)
  BY <1>1 DEF AllGood
<1>3. \A k : AlwaysThere(k, made, t) => AlwaysThere(k, made, s)
  BY <1>1 DEF AlwaysThere
<1>4. Grows(made, t) => Grows(made, s)
  <2>1. \A w \in made..Len(s) - 1 : /\ w \in made..Len(t) - 1
                                    /\ w \in 1..Len(s) /\ w + 1 \in 1..Len(s)
    OBVIOUS
  <2> QED
    BY <2>1 DEF Grows
<1>5. \A nvs, pw : Keeps(nvs, pw, made, s) => Keeps(nvs, pw, made, t)
  BY <1>1, <1>2, <1>3 DEF Keeps
<1>6. \A nvs, pw : Holds(nvs, pw, made, s) => Holds(nvs, pw, made, t)
  BY <1>2, <1>4 DEF Holds
<1>7. \A csv, todo : Reads(csv, todo, made, s) => Reads(csv, todo, made, t)
  BY <1>1, <1>2, <1>3 DEF Reads
<1> QED
  BY <1>2, <1>4, <1>5, <1>6, <1>7

(* A later password does not make a partition too new. *)
LEMMA KeptLonger ==
  ASSUME NEW nvs \in Partition, NEW made \in Nat, NEW pw \in Nat, NEW newer \in Nat, pw <= newer,
         NEW s, Keeps(nvs, pw, made, s)
  PROVE  Keeps(nvs, newer, made, s)
<1>1. \A p \in made..pw : p \in made..newer
  OBVIOUS
<1> QED
  BY <1>1 DEF Keeps

(* Where no setting is removed, what is there stays there: the first        *)
(* version without it would be one from which it was removed.               *)
LEMMA StaysThere ==
  ASSUME NEW s, Len(s) \in Nat, NEW made \in 1..Len(s), Grows(made, s),
         NEW v \in made..Len(s), NEW w \in v..Len(s), NEW k \in DOMAIN s[v]
  PROVE  k \in DOMAIN s[w]
<1> SUFFICES ASSUME k \notin DOMAIN s[w] PROVE FALSE
  OBVIOUS
<1> DEFINE S == {x \in v..Len(s) : k \notin DOMAIN s[x]}
<1>1. w \in S /\ S \in SUBSET Nat
  OBVIOUS
<1>2. PICK m \in S : \A x \in S : m <= x
  <2> HIDE DEF S
  <2> QED
    BY <1>1, LeastElement
<1>3. m \in v..Len(s) /\ k \notin DOMAIN s[m]
  OBVIOUS
<1>4. m # v
  BY <1>3
<1>5. m - 1 \in v..Len(s) /\ m - 1 \in made..Len(s) - 1 /\ (m - 1) + 1 = m
  BY <1>3, <1>4
<1>6. m - 1 \notin S
  <2> HIDE DEF S
  <2> QED
    BY <1>2, <1>3, <1>5
<1>7. k \in DOMAIN s[m - 1]
  BY <1>5, <1>6
<1>8. DOMAIN s[m - 1] \subseteq DOMAIN s[(m - 1) + 1]
  BY <1>5 DEF Grows
<1> QED
  BY <1>3, <1>5, <1>7, <1>8

LEMMA EditSecretFresh ==
  ASSUME TypeOK, MountShown, FreshInv, EditSecret
  PROVE  FreshInv'
<1>1. PICK s \in Choices : secrets' = Append(secrets, s)
  BY DEF EditSecret
<1>2. /\ Len(secrets) \in Nat /\ Len(secrets') = Len(secrets) + 1
      /\ \A v \in 1..Len(secrets) : secrets'[v] = secrets[v]
  <2>1. s \in Settings /\ secrets \in Seq(Settings)
    BY ChoicesAssumption DEF TypeOK
  <2> QED
    BY <1>1, <2>1
<1>3. /\ UNCHANGED <<job, output, archive>>
      /\ Latest = Len(secrets) /\ Latest' = Len(secrets')
  BY DEF EditSecret, Latest
<1>4. CASE job.step = "none"
  BY <1>3, <1>4
  DEF FreshInv, JobFresh, CsvFresh, OutputFresh, ArchiveFresh, Building, Publishing
<1>5. CASE job.step # "none"
  <2>1. job.made \in 1..Len(secrets) /\ job.seen \in 1..Len(secrets)
    BY <1>3, <1>5 DEF FreshInv, JobFresh, MountShown
  <2>2. /\ \A nvs, pw : Keeps(nvs, pw, job.made, secrets) => Keeps(nvs, pw, job.made, secrets')
        /\ \A nvs, pw : Holds(nvs, pw, job.made, secrets) => Holds(nvs, pw, job.made, secrets')
        /\ \A csv, todo : Reads(csv, todo, job.made, secrets)
                            => Reads(csv, todo, job.made, secrets')
        /\ AllGood(job.made, secrets') => AllGood(job.made, secrets)
        /\ Grows(job.made, secrets') => Grows(job.made, secrets)
    BY <1>2, <2>1, OwedLess
  <2>3. JobFresh'
    BY <1>2, <1>3, <2>1 DEF FreshInv, JobFresh
  <2>4. CsvFresh'
    BY <1>2, <1>3, <2>1, <2>2 DEF FreshInv, CsvFresh
  <2>5. job.step = "build" => Keeps(output.nvs, Latest', job.made, secrets')
    <3>1. output.nvs \in Partition /\ job.made \in Nat
      BY DEF TypeOK, Output
    <3>2. Latest \in Nat /\ Latest' \in Nat /\ Latest <= Latest'
      BY <1>2, <1>3
    <3>3. job.step = "build" => Keeps(output.nvs, Latest', job.made, secrets)
      BY <3>1, <3>2, KeptLonger DEF FreshInv, OutputFresh
    <3> QED
      BY <2>2, <3>3
  <2>6. OutputFresh'
    BY <1>3, <2>2, <2>5 DEF FreshInv, OutputFresh
  <2>7. ArchiveFresh'
    BY <1>3, <2>2 DEF FreshInv, ArchiveFresh
  <2> QED
    BY <2>3, <2>4, <2>6, <2>7 DEF FreshInv
<1> QED
  BY <1>4, <1>5

(* No partition is kept when the pod is new; a restarted build keeps it. *)
LEMMA JobFreshSteps ==
  ASSUME TypeOK, PasswordInv, FreshInv,
         CreateJob \/ DeleteJob \/ BeginBuild \/ RestartContainer \/ LosePod
  PROVE  FreshInv'
<1> USE DEF Building, Publishing
<1>1. Latest' = Latest /\ secrets' = secrets /\ Latest \in Nat
  BY LatestType DEF CreateJob, DeleteJob, BeginBuild, RestartContainer, LosePod, Latest
<1>2. \A pw, made, s : Keeps(NoOutput.nvs, pw, made, s)
  BY DEF NoOutput, NoPartition, Keeps
<1>3. CASE CreateJob
  BY <1>1, <1>2, <1>3
  DEF CreateJob, NoJob, FreshInv, JobFresh, CsvFresh, OutputFresh, ArchiveFresh
<1>4. CASE DeleteJob
  BY <1>4 DEF DeleteJob, NoJob, FreshInv, JobFresh, CsvFresh, OutputFresh, ArchiveFresh
<1>5. CASE BeginBuild
  <2>1. /\ job.step = "build" /\ job'.step = "list" /\ job'.pw = Latest
        /\ job'.made = job.made /\ job'.seen = job.seen
        /\ UNCHANGED <<output, archive>>
    BY <1>5 DEF BeginBuild, TypeOK
  <2> QED
    BY <1>1, <2>1 DEF FreshInv, JobFresh, CsvFresh, OutputFresh, ArchiveFresh
<1>6. CASE RestartContainer
  <2>1. /\ job' = [job EXCEPT !.step = Restarted(job.step)] /\ Restarted(job.step) # job.step
        /\ UNCHANGED <<output, archive>>
    BY <1>6 DEF RestartContainer
  <2>2. /\ job'.step = Restarted(job.step)
        /\ job'.made = job.made /\ job'.seen = job.seen /\ job'.pw = job.pw
    BY <2>1 DEF TypeOK
  <2>3. job.step \in Building => Keeps(output.nvs, Latest, job.made, secrets)
    <3>1. /\ output.nvs \in Partition /\ job.made \in Nat /\ job.pw \in Nat
          /\ job.pw <= Latest
      BY DEF TypeOK, Output, PasswordInv, PasswordsExist
    <3> QED
      BY <1>1, <3>1, KeptLonger DEF FreshInv, OutputFresh
  <2> QED
    BY <1>1, <2>1, <2>2, <2>3
    DEF Restarted, FreshInv, JobFresh, CsvFresh, OutputFresh, ArchiveFresh
<1>7. CASE LosePod
  <2>1. /\ job.step # "none" /\ job'.step = "build"
        /\ job'.made = job.made /\ job'.seen = job.seen /\ output' = NoOutput
    BY <1>7 DEF LosePod, TypeOK
  <2> QED
    BY <1>1, <1>2, <2>1 DEF FreshInv, JobFresh, CsvFresh, OutputFresh, ArchiveFresh
<1> QED
  BY <1>3, <1>4, <1>5, <1>6, <1>7

(* csv_gen.py: the files to be read are those of a version since then.      *)
LEMMA ListSettingsFresh == ASSUME TypeOK, FreshInv, ListSettings PROVE FreshInv'
<1> USE DEF Building, Publishing
<1>1. PICK v \in job.seen..Latest :
        job' = [job EXCEPT !.step = "read", !.seen = v, !.todo = DOMAIN secrets[v],
                           !.found = {}, !.csv = <<>>]
  BY DEF ListSettings
<1>2. /\ job.step = "list" /\ UNCHANGED <<secrets, output, archive>>
      /\ Latest' = Latest /\ Latest = Len(secrets) /\ Latest \in Nat
  BY LatestType DEF ListSettings, Latest
<1>3. /\ job.made \in 1..Latest /\ job.made <= job.seen /\ job.made <= job.pw
      /\ job.seen \in Nat
  BY <1>2 DEF FreshInv, JobFresh, TypeOK
<1>4. v \in job.made..Latest
  BY <1>2, <1>3
<1>5. /\ job'.step = "read" /\ job'.seen = v /\ job'.todo = DOMAIN secrets[v]
      /\ job'.found = {} /\ job'.csv = <<>> /\ job'.made = job.made /\ job'.pw = job.pw
  BY <1>1 DEF TypeOK
<1>6. Reads(job'.csv, job'.todo \cup job'.found, job'.made, secrets')
  BY <1>2, <1>4, <1>5 DEF Reads, AlwaysThere
<1> QED
  BY <1>2, <1>3, <1>4, <1>5, <1>6 DEF FreshInv, JobFresh, CsvFresh, OutputFresh, ArchiveFresh

(* A file that is passed over was not there all the time. *)
LEMMA FindSettingFresh == ASSUME TypeOK, FreshInv, FindSetting PROVE FreshInv'
<1> USE DEF Building, Publishing
<1>1. PICK k \in job.todo, v \in job.seen..Latest :
        job' = [job EXCEPT !.seen = v, !.todo = @ \ {k},
                           !.found = {k} \cap DOMAIN secrets[v]]
  BY DEF FindSetting
<1>2. /\ job.step = "read" /\ job.found = {} /\ UNCHANGED <<secrets, output, archive>>
      /\ Latest' = Latest /\ Latest = Len(secrets) /\ Latest \in Nat
  BY LatestType DEF FindSetting, Latest
<1>3. /\ job.made \in 1..Latest /\ job.made <= job.seen /\ job.made <= job.pw
      /\ job.seen \in Nat /\ Reads(job.csv, job.todo \cup job.found, job.made, secrets)
  BY <1>2 DEF FreshInv, JobFresh, CsvFresh, TypeOK
<1>4. v \in job.made..Len(secrets)
  BY <1>2, <1>3
<1>5. /\ job'.step = "read" /\ job'.seen = v /\ job'.todo = job.todo \ {k}
      /\ job'.found = {k} \cap DOMAIN secrets[v] /\ job'.csv = job.csv
      /\ job'.made = job.made /\ job'.pw = job.pw
  BY <1>1, <1>2 DEF TypeOK
<1>6. k \notin DOMAIN secrets[v] => ~AlwaysThere(k, job.made, secrets)
  BY <1>4 DEF AlwaysThere
<1>7. Reads(job'.csv, job'.todo \cup job'.found, job'.made, secrets')
  BY <1>2, <1>3, <1>5, <1>6 DEF Reads
<1> QED
  BY <1>2, <1>3, <1>4, <1>5, <1>7 DEF FreshInv, JobFresh, CsvFresh, OutputFresh, ArchiveFresh

(* A file is read as a version since then has it.  If it cannot be, it was  *)
(* removed after it was found, or it is binary.                             *)
LEMMA ReadSettingFresh ==
  ASSUME TypeOK, MountShown, FreshInv, ReadSetting
  PROVE  FreshInv'
<1> USE DEF Building, Publishing
<1>1. PICK k \in job.found, v \in job.seen..Latest :
        job' = IF IsText(k, v)
                 THEN [job EXCEPT !.seen = v, !.found = {}, !.csv =
                         Append(@, [key |-> k, kind |-> secrets[v][k], version |-> v])]
                 ELSE [job EXCEPT !.seen = v, !.found = {}, !.todo = {}, !.csv = <<>>,
                                  !.step = "nocsv"]
  BY DEF ReadSetting
<1>2. /\ job.step = "read" /\ UNCHANGED <<secrets, output, archive>>
      /\ Latest' = Latest /\ Latest = Len(secrets) /\ Latest \in Nat
  BY LatestType DEF ReadSetting, Latest
<1>3. /\ job.made \in 1..Latest /\ job.made <= job.seen /\ job.made <= job.pw
      /\ job.seen \in Nat /\ job.found \subseteq DOMAIN secrets[job.seen]
      /\ Reads(job.csv, job.todo \cup job.found, job.made, secrets)
  BY <1>2 DEF FreshInv, JobFresh, CsvFresh, TypeOK
<1>4. v \in job.made..Len(secrets) /\ v \in 1..Latest
  BY <1>2, <1>3
<1>5. job \in Jobs /\ job.csv \in Seq(CsvRow)
  BY JobTypes DEF Jobs
<1>6. CASE ~IsText(k, v)
  <2>1. job' = [job EXCEPT !.seen = v, !.found = {}, !.todo = {}, !.csv = <<>>,
                           !.step = "nocsv"]
    BY <1>1, <1>6
  <2>2. job'.step = "nocsv" /\ job'.seen = v /\ job'.made = job.made /\ job'.pw = job.pw
    BY <1>5, <2>1 DEF Jobs
  <2>3. ASSUME AllGood(job.made, secrets), Grows(job.made, secrets) PROVE FALSE
    <3>1. k \in DOMAIN secrets[v]
      <4>1. k \in DOMAIN secrets[job.seen]
        BY <1>3
      <4>2. job.seen \in job.made..Len(secrets) /\ v \in job.seen..Len(secrets)
        BY <1>2, <1>3
      <4> QED
        BY <1>2, <1>3, <2>3, <4>1, <4>2, StaysThere
    <3>2. secrets[v][k] \in Sound
      BY <1>4, <2>3, <3>1 DEF AllGood, AllSound
    <3> QED
      BY <1>6, <3>1, <3>2 DEF IsText, Sound
  <2> QED
    BY <1>2, <1>3, <1>4, <2>2, <2>3 DEF FreshInv, JobFresh, CsvFresh, OutputFresh, ArchiveFresh
<1>7. CASE IsText(k, v)
  <2> DEFINE row == [key |-> k, kind |-> secrets[v][k], version |-> v]
  <2>1. job' = [job EXCEPT !.seen = v, !.found = {}, !.csv = Append(@, row)]
    BY <1>1, <1>7
  <2>2. row \in CsvRow /\ row.key = k /\ row.kind = secrets[v][k] /\ row.version = v
    BY <1>4, <1>7, VersionType DEF CsvRow, IsText
  <2> HIDE DEF row
  <2>3. /\ job'.step = "read" /\ job'.seen = v /\ job'.made = job.made /\ job'.pw = job.pw
        /\ job'.csv = Append(job.csv, row) /\ job'.todo = job.todo /\ job'.found = {}
    BY <1>2, <1>5, <2>1 DEF Jobs
  <2>4. /\ \A i \in DOMAIN job.csv : i \in DOMAIN job'.csv /\ job'.csv[i] = job.csv[i]
        /\ DOMAIN job'.csv = DOMAIN job.csv \cup {Len(job.csv) + 1}
        /\ job'.csv[Len(job.csv) + 1] = row
    BY <1>5, <2>2, <2>3
  <2>5. job.found = {k}
    BY <1>2 DEF FreshInv, CsvFresh
  <2>6. Reads(job'.csv, job'.todo \cup job'.found, job.made, secrets)
    <3> SUFFICES ASSUME AllGood(job.made, secrets)
                 PROVE  /\ \A i \in DOMAIN job'.csv : job'.csv[i].kind \in Sound
                        /\ \A n \in Names : AlwaysThere(n, job.made, secrets) =>
                             \/ n \in job.todo
                             \/ \E i \in DOMAIN job'.csv :
                                  /\ job'.csv[i].key = n
                                  /\ job'.csv[i].version \in job.made..Len(secrets)
      BY <2>3 DEF Reads
    <3>1. row.kind \in Sound
      BY <1>4, <1>7, <2>2 DEF AllGood, AllSound, IsText
    <3>2. /\ \A i \in DOMAIN job.csv : job.csv[i].kind \in Sound
          /\ \A n \in Names : AlwaysThere(n, job.made, secrets) =>
               \/ n \in job.todo \cup job.found
               \/ \E i \in DOMAIN job.csv : /\ job.csv[i].key = n
                                            /\ job.csv[i].version \in job.made..Len(secrets)
      BY <1>3 DEF Reads
    <3>3. \A i \in DOMAIN job'.csv : job'.csv[i].kind \in Sound
      BY <2>4, <3>1, <3>2
    <3>4. ASSUME NEW n \in Names, AlwaysThere(n, job.made, secrets)
          PROVE  \/ n \in job.todo
                 \/ \E i \in DOMAIN job'.csv :
                      /\ job'.csv[i].key = n
                      /\ job'.csv[i].version \in job.made..Len(secrets)
      <4>1. CASE n = k
        BY <1>4, <2>2, <2>4, <4>1
      <4>2. CASE n # k
        BY <2>4, <2>5, <3>2, <3>4, <4>2
      <4> QED
        BY <4>1, <4>2
    <3> QED
      BY <3>3, <3>4
  <2> QED
    BY <1>2, <1>3, <1>4, <2>3, <2>6 DEF FreshInv, JobFresh, CsvFresh, OutputFresh, ArchiveFresh
<1> QED
  BY <1>6, <1>7

(* Of the files that were read an image is made, if they are all sound.     *)
LEMMA GenerateNvsFresh == ASSUME TypeOK, FreshInv, GenerateNvs PROVE FreshInv'
<1> USE DEF Building, Publishing
<1>1. /\ job.step = "write" /\ UNCHANGED <<secrets, archive>>
      /\ job' = [job EXCEPT !.step = "flash"]
      /\ Latest' = Latest
  BY DEF GenerateNvs, Latest
<1>2. /\ job'.step = "flash" /\ job'.made = job.made /\ job'.seen = job.seen
      /\ job'.pw = job.pw
  BY <1>1 DEF TypeOK
<1>3. /\ Reads(job.csv, {}, job.made, secrets)
      /\ job.made \in Nat /\ job.pw \in Nat /\ job.made <= job.pw
  <2>1. /\ job.todo = {} /\ job.found = {}
        /\ Reads(job.csv, job.todo \cup job.found, job.made, secrets)
    BY <1>1 DEF FreshInv, CsvFresh
  <2>2. job.todo \cup job.found = {}
    BY <2>1
  <2> QED
    BY <1>1, <2>1, <2>2 DEF FreshInv, JobFresh, TypeOK
<1>4. ASSUME AllGood(job.made, secrets)
      PROVE  /\ output'.nvs.state = "image" /\ output'.nvs.pw = job.pw
             /\ \A k \in Names : AlwaysThere(k, job.made, secrets) =>
                  \E v \in job.made..Len(secrets) : <<k, v>> \in output'.nvs.settings
  <2>1. job.csv \in Seq(CsvRow) /\ \A i \in DOMAIN job.csv : job.csv[i].kind \in Sound
    BY <1>3, <1>4 DEF Reads, TypeOK
  <2>2. /\ \A i \in DOMAIN job.csv : ~Stops(job.csv, i)
        /\ Intact(job.csv) = {<<job.csv[i].key, job.csv[i].version>> : i \in DOMAIN job.csv}
    BY <2>1, SoundCsv
  <2>3. output'.nvs = [state |-> "image", pw |-> job.pw, settings |-> Intact(job.csv)]
    BY <2>2 DEF GenerateNvs, Stopped, TypeOK, Output
  <2> QED
    BY <1>3, <1>4, <2>2, <2>3 DEF Reads
<1>5. /\ Keeps(output'.nvs, job.pw, job.made, secrets)
      /\ Holds(output'.nvs, job.pw, job.made, secrets)
  <2>1. job.pw \in job.made..job.pw
    BY <1>3
  <2>2. Keeps(output'.nvs, job.pw, job.made, secrets)
    BY <1>4, <2>1, Zenon DEF Keeps
  <2>3. Holds(output'.nvs, job.pw, job.made, secrets)
    BY <1>4, Zenon DEF Holds
  <2> QED
    BY <2>2, <2>3
<1> QED
  BY <1>1, <1>2, <1>5 DEF FreshInv, JobFresh, CsvFresh, OutputFresh, ArchiveFresh

LEMMA FilesFresh ==
  ASSUME TypeOK, FreshInv,
         \/ EndCsv \/ MissCsv \/ OpenNvs
         \/ WriteFlash \/ BeginHash \/ StoreHash \/ BeginUpload \/ Upload
  PROVE  FreshInv'
<1> USE DEF Building, Publishing
<1>1. secrets' = secrets /\ Latest' = Latest /\ Latest \in Nat
  BY LatestType DEF EndCsv, MissCsv, OpenNvs, WriteFlash, BeginHash, StoreHash, BeginUpload,
                    Upload, Latest
<1>2. job'.made = job.made /\ job'.seen = job.seen
  BY DEF EndCsv, MissCsv, OpenNvs, WriteFlash, BeginHash, StoreHash, BeginUpload, Upload, TypeOK
<1>3. CASE EndCsv \/ OpenNvs
  <2>1. /\ \/ /\ job.step = "read" /\ job.todo = {} /\ job.found = {} /\ job'.step = "nvs"
              /\ output' = output
           \/ /\ job.step = "nvs" /\ job'.step = "write"
              /\ output'.nvs.state = "empty"
        /\ job'.pw = job.pw /\ job'.csv = job.csv /\ job'.todo = job.todo
        /\ job'.found = job.found
    BY <1>3 DEF EndCsv, OpenNvs, NoPartition, TypeOK, Output
  <2> QED
    BY <1>1, <1>2, <2>1 DEF FreshInv, JobFresh, CsvFresh, OutputFresh, ArchiveFresh, Keeps
<1>4. CASE MissCsv
  <2>1. /\ job.step = "nocsv" /\ job'.step = "flash" /\ job'.pw = job.pw /\ output' = output
    BY <1>4 DEF MissCsv, TypeOK
  <2> QED
    BY <1>1, <1>2, <2>1 DEF FreshInv, JobFresh, CsvFresh, OutputFresh, ArchiveFresh, Holds
<1>5. CASE WriteFlash
  <2>1. /\ job.step = "flash" /\ job'.step = "hash" /\ job'.pw = job.pw
        /\ output'.flash = TRUE /\ output'.pw = job.pw /\ output'.nvs = output.nvs
    BY <1>5 DEF WriteFlash, TypeOK, Output
  <2> QED
    BY <1>1, <1>2, <2>1 DEF FreshInv, JobFresh, CsvFresh, OutputFresh, ArchiveFresh
<1>6. CASE BeginHash \/ StoreHash
  <2>1. /\ job.step \in {"hash", "hashing"} /\ job'.step \in {"hashing", "upload"}
        /\ UNCHANGED <<output, archive>>
    BY <1>6 DEF BeginHash, StoreHash, TypeOK
  <2> QED
    BY <1>1, <1>2, <2>1 DEF FreshInv, JobFresh, CsvFresh, OutputFresh, ArchiveFresh
<1>7. CASE BeginUpload
  <2>1. /\ job.step = "upload" /\ job'.step = "uploading"
        /\ output' = output /\ archive'.content = output
    BY <1>7 DEF BeginUpload, TypeOK
  <2> QED
    BY <1>1, <1>2, <2>1 DEF FreshInv, JobFresh, CsvFresh, OutputFresh, ArchiveFresh
<1>8. CASE Upload
  <2>1. /\ job.step = "uploading" /\ job'.step = "done"
        /\ archive'.state = "whole" /\ archive'.content = archive.content
    BY <1>8 DEF Upload, TypeOK
  <2> QED
    BY <1>1, <1>2, <2>1 DEF FreshInv, JobFresh, CsvFresh, OutputFresh, ArchiveFresh
<1> QED
  BY <1>3, <1>4, <1>5, <1>6, <1>7, <1>8

LEMMA FreshInvariant == Spec => []FreshInv
<1>1. Init => FreshInv
  BY DEF Init, NoJob, FreshInv, JobFresh, CsvFresh, OutputFresh, ArchiveFresh, Building,
         Publishing
<1>2. ASSUME TypeOK, MountShown, PasswordInv, FreshInv, [Next]_vars PROVE FreshInv'
  <2>1. CASE Server \/ (\E pw \in 1..Latest : Authenticate(pw)) \/ UNCHANGED vars
    <3>1. UNCHANGED <<secrets, job, output, archive>>
      BY <2>1 DEF Server, SendFile, Receive, Authenticate, vars
    <3> QED
      BY <1>2, <3>1 DEF Latest, FreshInv, JobFresh, CsvFresh, OutputFresh, ArchiveFresh
  <2> QED
    BY <1>2, <2>1, EditSecretFresh, JobFreshSteps, ListSettingsFresh, FindSettingFresh,
       ReadSettingFresh, GenerateNvsFresh, FilesFresh DEF Next, Build, CsvGen, Publish
<1> QED
  BY TypeInvariant, PasswordInvariant, <1>1, <1>2, PTL DEF Spec

(* Whatever the Secret is edited to while csv_gen.py reads it, whichever    *)
(* container or pod is lost: the archive of a completed Job can be          *)
(* unpacked and is not older than the Secret the Job was made for.  If all  *)
(* the settings since then are ones that the tools can handle, a partition  *)
(* in it is not older either and has each of those that were always there,  *)
(* as one of these versions has it; and if none was removed, there is one.  *)
THEOREM CompletedBuildsAreFreshHolds == Spec => []CompletedBuildsAreFresh
<1>1. ASSUME TypeOK, FreshInv PROVE CompletedBuildsAreFresh
  <2>1. ASSUME job.step = "done"
        PROVE  /\ archive.state = "whole" /\ archive.content.flash
               /\ job.made <= archive.content.pw
               /\ Keeps(archive.content.nvs, archive.content.pw, job.made, secrets)
               /\ Holds(archive.content.nvs, archive.content.pw, job.made, secrets)
    BY <1>1, <2>1 DEF FreshInv, ArchiveFresh
  <2> QED
    BY <1>1, <2>1, PasswordTypes, LatestType
    DEF CompletedBuildsAreFresh, NoneRemoved, Keeps, Holds, AllGood, Grows, AlwaysThere,
        Latest, TypeOK
<1> QED
  BY TypeCorrect, FreshInvariant, <1>1, PTL
=============================================================================

------------------------------- MODULE TaskFiles -----------------------------
(***************************************************************************)
(* What becomes of the files of a fine-tuning task: setup downloads and    *)
(* unpacks the dataset and the model, a container trains on them and       *)
(* writes its output, the finalizer packs, encrypts and uploads it, and a  *)
(* routine frees the disk of tasks of an age.  An attempt whose time is up *)
(* is left behind and goes on; a container outlives its attempt and the    *)
(* broker, and all containers of the task write to one directory.  Tasks   *)
(* share no files, so there is one.  Polling, pools and cancellation are   *)
(* module TaskPipeline's.                                                  *)
(***************************************************************************)
EXTENDS BrokerStart, Sequences, FiniteSets

CONSTANTS
  MaxAttempts,   \* bound: attempts at any stage
  MaxTimeouts,   \* bound: attempts that are left behind
  MaxBegun,      \* bound: attempts begun before the broker goes down
  MaxAged,       \* bound: attempts begun before an unfinished task ages
  MaxAtWork,     \* bound: attempts left at work before a finished one does
  MaxRetries,    \* config: Max...RetriesPerTask
  DataTops,      \* names the directory in a zip file may have, in the user's
  ModelTops,     \* dataset and in the provider's model
  Given          \* what a task may come with: a kind of model, and those names

Attempts == 1 .. MaxAttempts
Stages   == {"setup", "execute", "finalize"}
Inputs   == {"data", "model"}
Dirs     == Inputs \cup {"output"} \cup DataTops \cup ModelTops

(* The files in an archive, a first and a last one; and those a container  *)
(* writes, the checkpoint and the model.  A file is told by what wrote it: *)
(* the containers of all attempts write to the same names.                 *)
Archive(f)  == {<< f, 0, 1 >>, << f, 0, 2 >>}
Output(a)   == {<< "output", a, 1 >>, << "output", a, 2 >>}
SameName(i) == {<< "output", a, i >> : a \in Attempts}
Files      == (UNION {Archive(f) : f \in Inputs}) \cup (UNION {Output(a) : a \in Attempts})

From(s)   == CASE s = "setup" -> "Init"      [] s = "execute" -> "SetUp"    [] s = "finalize" -> "Trained"
During(s) == CASE s = "setup" -> "SettingUp" [] s = "execute" -> "Training" [] s = "finalize" -> "Delivering"
To(s)     == CASE s = "setup" -> "SetUp"     [] s = "execute" -> "Trained"  [] s = "finalize" -> "Delivered"

Progress   == {"Failed"} \cup {From(s) : s \in Stages} \cup {During(s) : s \in Stages}
                \cup {To(s) : s \in Stages}
Containers == [state : {"running", "exited", "trained", "removed"}, written : 0 .. 2]

(* That there is no progress, container, row or directory is told from     *)
(* there being one.                                                        *)
ASSUME TaskFilesAssumption ==
  /\ MaxAttempts \in Nat /\ MaxTimeouts \in Nat /\ MaxBegun \in Nat /\ MaxAged \in Nat
  /\ MaxAtWork \in Nat /\ MaxRetries \in Nat
  /\ Given \subseteq [kind : Kinds, data : DataTops, model : ModelTops]
  /\ None \notin Progress /\ None \notin Containers /\ None \notin Attempts
  /\ \A S \in SUBSET Files : None # S

VARIABLES
  progress, retries,
  given,      \* the kind of the task's model, and per input the directory
              \* its zip file has its files in
  att,        \* attempts
  dir,        \* the task's directories: the files in each, None if it is not there
  zip,        \* downloaded zip files that are there
  ctr,        \* per attempt: its container
  plain, enc, \* per attempt: the output, packed and then encrypted
  uploaded, row,
  age,        \* of the task, as the cleanup sees it
  round,      \* of the rounds at this age: one was run, or may have been missed
  sweep,      \* where a cleanup of its files is
  late,       \* history: the stages of the attempts that were left behind
  swept       \* history: a cleanup has begun

files == << dir, zip, plain, enc >>
cleanup == << age, round, sweep, swept >>
vars    == << startVars, progress, retries, given, att, files, ctr, uploaded, row, late, cleanup >>

Idle == [stage |-> None, pc |-> "idle", on |-> None, waited |-> FALSE]

Init ==
  /\ StartInit
  /\ progress = None /\ retries = [s \in Stages |-> 0]
  /\ given \in Given /\ (given.kind = "predefined" => ~ other)
  /\ att = [a \in Attempts |-> Idle]
  /\ dir = [d \in Dirs |-> None] /\ zip = {}
  /\ ctr = [a \in Attempts |-> None]
  /\ plain = [a \in Attempts |-> None] /\ enc = [a \in Attempts |-> None]
  /\ uploaded = {} /\ row = None
  /\ age = "young" /\ round = FALSE
  /\ sweep = "idle" /\ late = << >> /\ swept = FALSE

Over(pc)      == [Idle EXCEPT !.pc = pc]
Running(a)    == att[a].pc \notin {"idle", "done", "torn", "dead"}
Writes(a)     == ctr[a] # None /\ ctr[a].state = "running"
Final         == progress \in {"Failed", "Delivered"}
AtWork        == {a \in Attempts : Running(a) \/ Writes(a)}
At(a, s, pc)  == main # "down" /\ att[a].stage = s /\ att[a].pc = pc
Goto(a, pc)   == att' = [att EXCEPT ![a].pc = pc] /\ UNCHANGED << progress, retries >>
InDir(d)      == IF dir[d] = None THEN {} ELSE dir[d]
DirsSet(d, c) == dir' = [dir EXCEPT ![d] = c]

otherVars == << startVars, given, cleanup, late >>

------------------------------------------------------------------------------
(* Attempts: TaskPipeline has how they begin and end in full.              *)

CreateTask ==
  /\ main = "serving" /\ progress = None /\ progress' = "Init"
  /\ UNCHANGED << startVars, retries, given, att, files, ctr, uploaded, row, late, cleanup >>

(* The loops run as soon as they are started, before the image is ready.   *)
Begin(a, s) ==
  /\ main \in {"image", "settlement", "serving"}
  /\ progress = From(s) /\ (age # "young" => a <= MaxAged)
  /\ att[a] = Idle /\ \A b \in 1 .. a - 1 : att[b] # Idle
  /\ progress' = During(s)
  /\ att' = [att EXCEPT ![a] = [stage |-> s, waited |-> TRUE,
               pc |-> CASE s = "setup" -> "fetch" [] s = "execute" -> "pull" [] s = "finalize" -> "zip",
               on |-> IF s = "setup" THEN "data" ELSE None]]
  /\ UNCHANGED << startVars, retries, given, files, ctr, uploaded, row, late, cleanup >>

(* Execute returns nil: the stage is over, if the task is waited for.      *)
Succeed(a) ==
  /\ att' = [att EXCEPT ![a] = Over("done")]
  /\ progress' = IF att[a].waited /\ progress = During(att[a].stage) THEN To(att[a].stage) ELSE progress
  /\ UNCHANGED retries

(* Mutant: one retry too many.                                             *)
FailureLate(s) ==
  IF retries[s] <= MaxRetries
  THEN progress' = From(s) /\ retries' = [retries EXCEPT ![s] = @ + 1]
  ELSE progress' = "Failed" /\ UNCHANGED retries

Failure(s) ==
  IF retries[s] < MaxRetries
  THEN progress' = From(s) /\ retries' = [retries EXCEPT ![s] = @ + 1]
  ELSE progress' = "Failed" /\ UNCHANGED retries

(* It returns an error; a signature that does not match is not retried.    *)
Fail(a, pc) ==
  /\ att' = [att EXCEPT ![a] = Over(pc)]
  /\ IF att[a].waited /\ progress = During(att[a].stage) THEN Failure(att[a].stage)
     ELSE UNCHANGED << progress, retries >>

Timeout(a) ==
  /\ main # "down" /\ Running(a) /\ att[a].waited
  /\ Len(late) < MaxTimeouts
  /\ att' = [att EXCEPT ![a].waited = FALSE]
  /\ late' = Append(late, att[a].stage)
  /\ IF progress = During(att[a].stage) THEN Failure(att[a].stage) ELSE UNCHANGED << progress, retries >>
  /\ UNCHANGED << startVars, given, files, ctr, uploaded, row, cleanup >>

------------------------------------------------------------------------------
(* Setup: prepareData, for the dataset and then for the model.             *)

Next_(a) == IF att[a].on = "data" THEN att' = [att EXCEPT ![a].pc = "fetch", ![a].on = "model"]
            ELSE att' = [att EXCEPT ![a].pc = "mkdir", ![a].on = None]

setupVars == << plain, enc, ctr, uploaded, row, otherVars >>

(* DownloadFromStorage, which no timeout reaches.                          *)
Download(a) ==
  /\ At(a, "setup", "fetch")
  /\ zip' = zip \cup {att[a].on}
  /\ Goto(a, "open") /\ UNCHANGED << dir, setupVars >>

DownloadFails(a) ==
  /\ At(a, "setup", "fetch")
  /\ zip' = zip \ {att[a].on}
  /\ Fail(a, "done") /\ UNCHANGED << dir, setupVars >>

(* Unzip puts the files where the archive says, over what is there.        *)
Unzip(a) ==
  LET d == given[att[a].on] IN
  /\ UNCHANGED << zip, setupVars >>
  /\ \/ /\ At(a, "setup", "open") /\ att[a].on \in zip
        /\ DirsSet(d, InDir(d) \cup {<< att[a].on, 0, 1 >>}) /\ Goto(a, "unzip")
     \/ /\ At(a, "setup", "unzip")
        /\ DirsSet(d, InDir(d) \cup {<< att[a].on, 0, 2 >>})
        /\ IF d # att[a].on THEN Goto(a, "remove")
           ELSE Next_(a) /\ UNCHANGED << progress, retries >>

(* Any other place than the task's own is moved there.                     *)
RemoveDir(a) ==
  /\ At(a, "setup", "remove")
  /\ DirsSet(att[a].on, None) /\ Goto(a, "rename") /\ UNCHANGED << zip, setupVars >>

RenameDir(a) ==
  LET d == given[att[a].on] IN
  /\ At(a, "setup", "rename") /\ dir[d] # None /\ InDir(att[a].on) = {}
  /\ dir' = [dir EXCEPT ![att[a].on] = dir[d], ![d] = None]
  /\ Next_(a) /\ UNCHANGED << progress, retries, zip, setupVars >>

MkOutput(a) ==
  /\ At(a, "setup", "mkdir")
  /\ DirsSet("output", InDir("output")) /\ Goto(a, "verify") /\ UNCHANGED << zip, setupVars >>

(* Tokens are counted in the files; balance, nonce and signer are asked of *)
(* the contract, which an attempt whose time is up can not.                *)
Verify(a) ==
  /\ At(a, "setup", "verify") /\ att[a].waited
  /\ \A f \in Inputs : dir[f] # None
  /\ Succeed(a) /\ UNCHANGED << files, ctr, uploaded, row, otherVars >>

RejectSignature(a) ==
  /\ At(a, "setup", "verify") /\ att[a].waited
  /\ att' = [att EXCEPT ![a] = Over("done")] /\ progress' = "Failed"
  /\ UNCHANGED << retries, files, ctr, uploaded, row, otherVars >>

SetupFails(a) ==
  /\ \E pc \in {"open", "unzip", "remove", "rename", "mkdir", "verify"} : At(a, "setup", pc)
  /\ Fail(a, "done") /\ UNCHANGED << files, ctr, uploaded, row, otherVars >>

Setup(a) ==
  \/ Download(a) \/ DownloadFails(a) \/ Unzip(a) \/ RemoveDir(a) \/ RenameDir(a)
  \/ MkOutput(a) \/ Verify(a) \/ RejectSignature(a) \/ SetupFails(a)

------------------------------------------------------------------------------
(* The executor: handleContainerLifecycle.                                 *)

Container(s) == [state |-> s, written |-> 0]

executeVars == << files, uploaded, row, given, late, cleanup >>

(* A model or script that is not known fails here too (ExecuteFails).      *)
Pull(a) ==
  /\ At(a, "execute", "pull") /\ att[a].waited
  /\ PullImage(given.kind) /\ Goto(a, "create") /\ UNCHANGED << ctr, executeVars >>

StartContainer(a) ==
  /\ At(a, "execute", "create") /\ att[a].waited
  /\ ctr' = [ctr EXCEPT ![a] = Container("running")]
  /\ Goto(a, "wait") /\ UNCHANGED << startVars, executeVars >>

(* Its exit status is not looked at.                                       *)
WaitForContainer(a) ==
  /\ At(a, "execute", "wait") /\ att[a].waited /\ ctr[a].state = "exited"
  /\ Goto(a, "logs") /\ UNCHANGED << startVars, ctr, executeVars >>

(* A container is removed once its logs are read.                        *)
FetchLogs(a) ==
  /\ At(a, "execute", "logs") /\ att[a].waited
  /\ ctr' = [ctr EXCEPT ![a].state = "trained"]
  /\ Succeed(a) /\ UNCHANGED << startVars, executeVars >>

(* An error removes the container, if docker does it, but not one that     *)
(* comes of the attempt's time being up: stopping and removing use the     *)
(* context that is over.                                                   *)
ExecuteFails(a) ==
  /\ \E pc \in {"pull", "create", "wait", "logs"} : At(a, "execute", pc)
  /\ \/ att[a].waited /\ ctr[a] # None /\ ctr' = [ctr EXCEPT ![a].state = "removed"]
     \/ UNCHANGED ctr
  /\ Fail(a, "done") /\ UNCHANGED << startVars, executeVars >>

Execute(a) ==
  Pull(a) \/ StartContainer(a) \/ WaitForContainer(a) \/ FetchLogs(a) \/ ExecuteFails(a)

(* The container itself, which may stop before it is done.  It saves a     *)
(* checkpoint, of which there is one at a time (save_total_limit), and     *)
(* then the model, in place of what any other has saved.                   *)
Trains(a) ==
  /\ Writes(a) /\ ctr[a].written < 2
  /\ ctr' = [ctr EXCEPT ![a].written = @ + 1]
  /\ LET i == ctr[a].written + 1 IN
       DirsSet("output", (InDir("output") \ SameName(i)) \cup {<< "output", a, i >>})
  /\ UNCHANGED << progress, retries, att, zip, plain, enc, uploaded, row, otherVars >>

Exits(a) ==
  /\ Writes(a)
  /\ ctr' = [ctr EXCEPT ![a].state = "exited"]
  /\ UNCHANGED << progress, retries, att, files, uploaded, row, otherVars >>

------------------------------------------------------------------------------
(* The finalizer: encryptAndUploadModel, then the row and the deliverable. *)

finalizeVars == << dir, zip, ctr, otherVars >>

(* Mutant: the dataset is packed in place of the output.                   *)
ZipDataset(a) ==
  /\ At(a, "finalize", "zip") /\ dir["data"] # None
  /\ plain' = [plain EXCEPT ![a] = dir["data"]]
  /\ Goto(a, "encrypt") /\ UNCHANGED << enc, uploaded, row, finalizeVars >>

Zip(a) ==
  /\ At(a, "finalize", "zip") /\ dir["output"] # None
  /\ plain' = [plain EXCEPT ![a] = dir["output"]]
  /\ Goto(a, "encrypt") /\ UNCHANGED << enc, uploaded, row, finalizeVars >>

(* The archive is created before the directory is looked at; when packing  *)
(* fails its name is lost, with what was packed, at worst all.             *)
ZipFails(a) ==
  /\ At(a, "finalize", "zip")
  /\ plain' = [plain EXCEPT ![a] = InDir("output")]
  /\ Fail(a, "torn") /\ UNCHANGED << enc, uploaded, row, finalizeVars >>

AesEncryptLargeFile(a) ==
  /\ At(a, "finalize", "encrypt") /\ plain[a] # None
  /\ enc' = [enc EXCEPT ![a] = [of |-> plain[a], signed |-> FALSE]]
  /\ Goto(a, "sign") /\ UNCHANGED << plain, uploaded, row, finalizeVars >>

(* The encrypted file is removed only by who came as far as the signature. *)
EncryptFails(a) ==
  /\ \E pc \in {"encrypt", "sign"} : At(a, "finalize", pc)
  /\ plain' = [plain EXCEPT ![a] = None]
  /\ \/ UNCHANGED enc
     \/ att[a].pc = "encrypt" /\ enc' = [enc EXCEPT ![a] = [of |-> {}, signed |-> FALSE]]
  /\ Fail(a, "torn") /\ UNCHANGED << uploaded, row, finalizeVars >>

WriteToFileHead(a) ==
  /\ At(a, "finalize", "sign")
  /\ enc' = [enc EXCEPT ![a].signed = TRUE]
  /\ Goto(a, "upload") /\ UNCHANGED << plain, uploaded, row, finalizeVars >>

(* Mutant: only the encrypted file is removed.                             *)
RemoveEncrypted(a) == enc' = [enc EXCEPT ![a] = None] /\ UNCHANGED plain

RemoveTemporary(a) ==
  /\ plain' = [plain EXCEPT ![a] = None]
  /\ enc' = [enc EXCEPT ![a] = None]

Upload(a) ==
  /\ At(a, "finalize", "upload")
  /\ uploaded' = uploaded \cup {[by |-> a, of |-> enc[a].of, signed |-> enc[a].signed]}
  /\ RemoveTemporary(a)
  /\ \/ Goto(a, "save")
     \/ Fail(a, "done")
  /\ UNCHANGED << row, finalizeVars >>

UploadFails(a) ==
  /\ At(a, "finalize", "upload")
  /\ RemoveTemporary(a)
  /\ Fail(a, "done") /\ UNCHANGED << uploaded, row, finalizeVars >>

SaveRow(a) ==
  /\ At(a, "finalize", "save")
  /\ row' = a
  /\ Goto(a, "deliver") /\ UNCHANGED << plain, enc, uploaded, finalizeVars >>

AddDeliverable(a) ==
  /\ At(a, "finalize", "deliver")
  /\ \/ att[a].waited /\ Succeed(a)
     \/ Fail(a, "done")
  /\ UNCHANGED << plain, enc, uploaded, row, finalizeVars >>

Finalize(a) ==
  \/ Zip(a) \/ ZipFails(a) \/ AesEncryptLargeFile(a) \/ EncryptFails(a) \/ WriteToFileHead(a)
  \/ Upload(a) \/ UploadFails(a) \/ SaveRow(a) \/ AddDeliverable(a)

------------------------------------------------------------------------------
(* Cleanup: at the start of the settlement loop and every twelve hours, of *)
(* every task created between one and two retention times ago, whatever    *)
(* its progress is: of a task that is "due" or, in the second half of that *)
(* time, "last".  The directories are removed, then the zip files.         *)

cleanupVars == << startVars, progress, retries, given, att, ctr, uploaded, row, late, enc, age >>

(* Half of that time is at least twelve hours long: a broker that serves   *)
(* all through it runs a round.                                            *)
Grow ==
  /\ progress # None
  /\ \/ age # "young" /\ round
     \/ age = "young" /\ Final /\ Cardinality(AtWork) <= MaxAtWork
     \/ age = "young" /\ \A a \in Attempts : a > MaxAged => att[a] = Idle
  /\ \/ age = "young" /\ age' = "due"
     \/ age = "due"   /\ age' = "last"
     \/ age = "last"  /\ age' = "old"
  /\ round' = (age # "last" /\ main # "serving")
  /\ UNCHANGED << startVars, progress, retries, given, att, files, ctr, uploaded, row, late, sweep, swept >>

(* Mutant: only the round at the start is run.                             *)
cleanupAtStart ==
  /\ main = "serving" /\ age \in {"due", "last"} /\ sweep = "idle"
  /\ round' = TRUE /\ swept' = TRUE
  /\ IF swept THEN UNCHANGED << dir, sweep >>
     ELSE /\ dir' = [d \in Dirs |-> IF d \in Inputs \cup {"output"} THEN None ELSE dir[d]]
          /\ sweep' = "zips"
  /\ UNCHANGED << cleanupVars, zip, plain >>

runDiskCleanup ==
  /\ main = "serving" /\ age \in {"due", "last"} /\ sweep = "idle"
  /\ round' = TRUE /\ swept' = TRUE
  /\ dir' = [d \in Dirs |-> IF d \in Inputs \cup {"output"} THEN None ELSE dir[d]]
  /\ sweep' = "zips"
  /\ UNCHANGED << cleanupVars, zip, plain >>

removeAllZipFiles ==
  /\ main = "serving" /\ sweep = "zips"
  /\ zip' = {} /\ plain' = [a \in Attempts |-> None]
  /\ sweep' = "idle" /\ UNCHANGED << cleanupVars, dir, round, swept >>

------------------------------------------------------------------------------
(* The process as a whole.                                                 *)

taskVars == << progress, retries, given, att, files, ctr, uploaded, row, late, cleanup >>

(* Mutant: a start leaves the tasks as they are.                           *)
MarkNothing == Advance("mark") /\ UNCHANGED taskVars

MarkInProgressTasksAsFailed ==
  /\ Advance("mark")
  /\ progress' = IF progress = None THEN None ELSE "Failed"
  /\ UNCHANGED << retries, given, att, files, ctr, uploaded, row, late, cleanup >>

Starting ==
  /\ \/ Main \/ initializeServices \/ SyncQuote \/ SyncServices \/ StartLoops
     \/ ImageReady \/ StartSettlement \/ Builder
  /\ UNCHANGED taskVars

Stops ==
  /\ Down \/ ImageFailed
  /\ \A a \in Attempts : a > MaxBegun => att[a] = Idle
  /\ att' = [a \in Attempts |-> IF Running(a) THEN Over("dead") ELSE att[a]]
  /\ sweep' = "idle" /\ round' = (age \in {"due", "last"})
  /\ UNCHANGED << progress, retries, given, files, ctr, uploaded, row, late, age, swept >>

Next ==
  \/ Starting \/ MarkInProgressTasksAsFailed \/ Stops
  \/ CreateTask \/ Grow \/ runDiskCleanup \/ removeAllZipFiles
  \/ \E a \in Attempts :
       \/ \E s \in Stages : Begin(a, s)
       \/ Timeout(a) \/ Setup(a) \/ Execute(a) \/ Finalize(a) \/ Trains(a) \/ Exits(a)

Spec == Init /\ [][Next]_vars

(* Time passes, and the cleanup's ticker ticks: of the rounds in half of   *)
(* its time one is not stopped by an error of the database or the disk.    *)
Fairness == WF_vars(Grow) /\ WF_vars(runDiskCleanup) /\ WF_vars(removeAllZipFiles)
FairSpec == Spec /\ Fairness

------------------------------------------------------------------------------
(* Properties.                                                             *)

TypeOK ==
  /\ StartTypeOK
  /\ progress \in Progress \cup {None}
  /\ retries \in [Stages -> 0 .. MaxRetries]
  /\ given \in Given
  /\ \A a \in Attempts :
       /\ att[a].stage \in Stages \cup {None} /\ att[a].on \in Inputs \cup {None}
       /\ plain[a] = None \/ plain[a] \subseteq Files
       /\ enc[a] = None \/ enc[a] \in [of : SUBSET Files, signed : BOOLEAN]
       /\ ctr[a] = None \/ ctr[a] \in Containers
  /\ \A d \in Dirs : dir[d] = None \/ dir[d] \subseteq Files
  /\ zip \subseteq Inputs /\ row \in Attempts \cup {None} /\ late \in Seq(Stages)
  /\ age \in {"young", "due", "last", "old"} /\ {round, swept} \subseteq BOOLEAN
  /\ sweep \in {"idle", "zips"}

SetupLeft == \E i \in DOMAIN late : late[i] = "setup"

(* Where every start is to build the image anew, no training of a          *)
(* predefined model starts on the image of an earlier start, although the  *)
(* loops are started before the image is ready (main.go:268); a mock or    *)
(* customized model has an image the broker never builds (executor.go:238).*)
(* And a training starts on the whole dataset and the whole model,         *)
(* whatever the directories in the zip files are called and whatever       *)
(* attempts that failed have left: unless a setup was left behind, which   *)
(* goes on writing (client.go:112), or the disk was cleaned.               *)
TrainsOnItsInputs ==
  [][\A a \in Attempts : ctr[a] = None /\ ctr'[a] # None =>
       /\ given.kind = "predefined" /\ BuildImage /\ OverrideImage => image = starts
       /\ ~ SetupLeft /\ ~ swept => \A f \in Inputs : Archive(f) \subseteq InDir(f)]_vars

(* The packed output stays on disk in the clear only while its finalizer   *)
(* is at work, unless the process died or packing or encrypting failed.    *)
PlainIsRemoved ==
  \A a \in Attempts : plain[a] # None => att[a].pc \in {"encrypt", "sign", "upload", "torn", "dead"}

(* A container nobody waits for, which may still write to the directory    *)
(* that all of the task's containers share.                                *)
LeftBehind(a) ==
  /\ ctr[a] # None /\ ctr[a].state \in {"running", "exited"}
  /\ ~ (Running(a) /\ att[a].waited)

Alone == \A a \in Attempts : ~ LeftBehind(a)

(* What is delivered is signed and has the whole output of the training    *)
(* that succeeded, if its container ran to its end: whatever trainings     *)
(* before it failed, whatever files those have left, and whatever the      *)
(* finalizer had to retry or an earlier finalizer, left behind, uploads.   *)
(* Unless a container was left behind, at a timeout or because docker did  *)
(* not remove it: that one writes over the output (executor.go:311).       *)
DeliversWholeOutput ==
  progress = "Delivered" /\ ~ SetupLeft /\ ~ swept /\ Alone =>
    \E u \in uploaded :
      /\ u.by = row /\ u.signed
      /\ \A a \in Attempts : ctr[a] # None /\ ctr[a].state = "trained" /\ ctr[a].written = 2
                               => Output(a) \subseteq u.of

AtRest == Final /\ AtWork = {}

Freed == (\A d \in Inputs \cup {"output"} : dir[d] = None) /\ zip = {} /\ plain = [a \in Attempts |-> None]

(* A broker that keeps serving frees the disk of a task for good, if what  *)
(* was still at work on it, attempts and containers that were left behind  *)
(* included, is over before the last rounds that find the task             *)
(* (settlement.go:326): what it wrote after a round a later one takes.     *)
DiskIsFreed ==
  (age \in {"young", "due"} /\ AtRest /\ [](main = "serving")) ~> []Freed
==============================================================================

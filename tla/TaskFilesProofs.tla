--------------------------- MODULE TaskFilesProofs ---------------------------
(***************************************************************************)
(* Theorems about TaskFiles, for every number of attempts, time limits,    *)
(* retries and starts, and whatever directories archives bring along.      *)
(*                                                                         *)
(* The argument is a chain.  BuiltInv: while the loops serve and no build  *)
(* is under way, the image is the one of this start.  RunInv: at most one  *)
(* attempt is waited for and it holds the progress of the task; a setup    *)
(* that timed out is on record.  WorkInv: progress "Trained" and later     *)
(* means a container that ended well.  InputInv: unless a setup was left   *)
(* behind or the disk was swept, each step of a setup finds its            *)
(* directories as the step before left them, so a training reads whole     *)
(* inputs.  OutputInv: if no container was left behind either, then only   *)
(* that of the attempt waited for writes (WriterHolds), although all use   *)
(* the same names; so what was trained is written, what is packed is what  *)
(* was written, and what was sent is what was packed.                      *)
(***************************************************************************)
EXTENDS TaskFiles, TLAPS

------------------------------------------------------------------------------
(* Names and types.                                                        *)

SetupPc    == {"fetch", "open", "unzip", "remove", "rename", "mkdir", "verify"}
ExecutePc  == {"pull", "create", "wait", "logs"}
FinalizePc == {"zip", "encrypt", "sign", "upload", "save", "deliver"}
EndPc      == {"idle", "done", "torn", "dead"}

AttemptType == [stage : Stages \cup {None}, pc : SetupPc \cup ExecutePc \cup FinalizePc \cup EndPc,
                on : Inputs \cup {None}, waited : BOOLEAN]
Packed      == [of : SUBSET Files, signed : BOOLEAN]
Upload_     == [by : Attempts, of : SUBSET Files, signed : BOOLEAN]

Types ==
  /\ StartTypeOK
  /\ progress \in Progress \cup {None} /\ retries \in [Stages -> 0 .. MaxRetries]
  /\ given \in Given
  /\ att \in [Attempts -> AttemptType] /\ ctr \in [Attempts -> Containers \cup {None}]
  /\ dir \in [Dirs -> (SUBSET Files) \cup {None}] /\ zip \subseteq Inputs
  /\ plain \in [Attempts -> (SUBSET Files) \cup {None}] /\ enc \in [Attempts -> Packed \cup {None}]
  /\ uploaded \subseteq Upload_
  /\ row \in Attempts \cup {None} /\ late \in Seq(Stages) /\ swept \in BOOLEAN

(* Where an attempt is tells its stage, and what it has at hand.           *)
FitsAt(a) ==
  /\ att[a].pc \in SetupPc => att[a].stage = "setup"
  /\ att[a].pc \in SetupPc \ {"mkdir", "verify"} => att[a].on \in Inputs
  /\ att[a].pc \in ExecutePc => att[a].stage = "execute"
  /\ att[a].pc \in {"wait", "logs"} => ctr[a] \in Containers
  /\ att[a].pc \in FinalizePc => att[a].stage = "finalize"
  /\ att[a].pc \in {"sign", "upload"} => enc[a] \in Packed
Fits == \A a \in Attempts : FitsAt(a)

Typed == Types /\ Fits

(* Names as the progress column has them.                                  *)
LEMMA ProgressIs ==
  /\ Progress = {"Failed", "Init", "SettingUp", "SetUp", "Training", "Trained", "Delivering", "Delivered"}
  /\ From("setup") = "Init" /\ During("setup") = "SettingUp" /\ To("setup") = "SetUp"
  /\ From("execute") = "SetUp" /\ During("execute") = "Training" /\ To("execute") = "Trained"
  /\ From("finalize") = "Trained" /\ During("finalize") = "Delivering" /\ To("finalize") = "Delivered"
<1>1. /\ From("setup") = "Init" /\ During("setup") = "SettingUp" /\ To("setup") = "SetUp"
      /\ From("execute") = "SetUp" /\ During("execute") = "Training" /\ To("execute") = "Trained"
      /\ From("finalize") = "Trained" /\ During("finalize") = "Delivering" /\ To("finalize") = "Delivered"
  BY DEF From, During, To
<1>2. /\ {From(s) : s \in Stages} = {"Init", "SetUp", "Trained"}
      /\ {During(s) : s \in Stages} = {"SettingUp", "Training", "Delivering"}
      /\ {To(s) : s \in Stages} = {"SetUp", "Trained", "Delivered"}
  BY <1>1 DEF Stages
<1> QED
  BY <1>1, <1>2 DEF Progress

(* The progress of a stage is a progress.                                  *)
LEMMA StageProgress ==
  ASSUME NEW s \in Stages
  PROVE  From(s) \in Progress /\ During(s) \in Progress /\ To(s) \in Progress /\ "Failed" \in Progress
BY DEF Progress

(* The main routine goes on to the next of its steps.                      *)
LEMMA AdvanceTo ==
  ASSUME NEW s \in {"init", "quote", "mark", "sync", "loops", "image", "settlement"}, Advance(s)
  PROVE  /\ main = s /\ UNCHANGED << builder, image, other, bridge, starts >>
         /\ main' = CASE s = "init" -> "quote" [] s = "quote" -> "mark" [] s = "mark" -> "sync"
                      [] s = "sync" -> "loops" [] s = "loops" -> "image" [] s = "image" -> "settlement"
                      [] s = "settlement" -> "serving"
<1>1. PICK i \in DOMAIN MainSteps : MainSteps[i] = s /\ main' = MainSteps[i + 1]
  BY DEF Advance
<1>2. i \in 1 .. 8
  BY DEF MainSteps
<1> QED
  BY <1>1, <1>2 DEF Advance, MainSteps

------------------------------------------------------------------------------
(* Starts of the broker.                                                   *)

(* Every step as the main routine and the builder see it.                  *)
StartNext ==
  \/ Main \/ initializeServices \/ SyncQuote \/ Advance("mark") \/ SyncServices \/ StartLoops
  \/ ImageReady \/ StartSettlement \/ Builder \/ Down \/ ImageFailed \/ (\E kind \in Kinds : PullImage(kind))
  \/ UNCHANGED startVars

(* When the builder is done the image is the one of this start, if every   *)
(* start is to build it anew; and nothing is served before the builder is. *)
BuiltInv ==
  /\ BuildImage /\ OverrideImage /\ builder = "sent" => image = starts
  /\ main \in {"settlement", "serving"} => builder = "sent"

(* Names of the main routine's steps.                                      *)
LEMMA MainNames ==
  {"down"} \cup {MainSteps[i] : i \in DOMAIN MainSteps}
    = {"down", "init", "quote", "mark", "sync", "loops", "image", "settlement", "serving"}
<1>1. DOMAIN MainSteps = 1 .. 8
  BY DEF MainSteps
<1> QED
  BY <1>1 DEF MainSteps

(* Starting, building and stopping keep the types and BuiltInv.            *)
LEMMA StartKept ==
  ASSUME StartTypeOK, BuiltInv, StartNext
  PROVE  StartTypeOK' /\ BuiltInv'
<1> USE BrokerStartAssumption, MainNames DEF StartTypeOK, BuiltInv, BuilderSteps, Bridges
<1>1. ASSUME NEW s \in {"init", "quote", "mark", "sync", "loops", "image", "settlement"}, Advance(s),
             s = "image" => builder = "sent"
      PROVE  StartTypeOK' /\ BuiltInv'
  BY <1>1, AdvanceTo
<1>2. CASE Main
  BY <1>2 DEF Main
<1>3. CASE Down \/ ImageFailed
  BY <1>3 DEF Down, ImageFailed
<1>4. CASE \E kind \in Kinds : PullImage(kind)
  BY <1>4 DEF PullImage
<1>5. CASE ImageExists
  BY <1>5 DEF ImageExists, Builds
<1>6. CASE CleanBridge \/ copyDirectory
  BY <1>6 DEF CleanBridge, copyDirectory, Builds
<1>7. CASE ImageBuild \/ BuildFails
  BY <1>7 DEF ImageBuild, BuildFails, Builds
<1>8. CASE UNCHANGED startVars
  BY <1>8 DEF startVars
<1> QED
  BY <1>1, <1>2, <1>3, <1>4, <1>5, <1>6, <1>7, <1>8
     DEF StartNext, Builder, initializeServices, SyncQuote, SyncServices, StartLoops, ImageReady,
         StartSettlement

(* Every step is one of these.                                             *)
LEMMA StepIsStart ==
  ASSUME Typed, [Next]_vars
  PROVE  StartNext
<1>1. CASE UNCHANGED vars
  BY <1>1 DEF vars, StartNext
<1>2. CASE Starting \/ MarkInProgressTasksAsFailed \/ Stops
  BY <1>2 DEF Starting, MarkInProgressTasksAsFailed, Stops, StartNext
<1>3. CASE CreateTask \/ Grow \/ runDiskCleanup \/ removeAllZipFiles
  BY <1>3 DEF CreateTask, Grow, runDiskCleanup, removeAllZipFiles, cleanupVars, StartNext
<1>4. ASSUME NEW a \in Attempts, (\E s \in Stages : Begin(a, s)) \/ Timeout(a) \/ Trains(a) \/ Exits(a)
      PROVE  StartNext
  BY <1>4 DEF Begin, Timeout, Trains, Exits, otherVars, cleanup, StartNext
<1>5. ASSUME NEW a \in Attempts, Setup(a)
      PROVE  StartNext
  BY <1>5 DEF Setup, Download, DownloadFails, Unzip, RemoveDir, RenameDir, MkOutput, Verify, RejectSignature,
              SetupFails, setupVars, otherVars, cleanup, StartNext
<1>6. ASSUME NEW a \in Attempts, Execute(a)
      PROVE  StartNext
  <2>1. CASE Pull(a)
    <3>1. given.kind \in Kinds
      BY TaskFilesAssumption DEF Typed, Types
    <3> QED
      BY <2>1, <3>1 DEF Pull, StartNext
  <2>2. CASE StartContainer(a) \/ WaitForContainer(a) \/ FetchLogs(a) \/ ExecuteFails(a)
    BY <2>2 DEF StartContainer, WaitForContainer, FetchLogs, ExecuteFails, StartNext
  <2> QED
    BY <1>6, <2>1, <2>2 DEF Execute
<1>7. ASSUME NEW a \in Attempts, Finalize(a)
      PROVE  StartNext
  BY <1>7 DEF Finalize, Zip, ZipFails, AesEncryptLargeFile, EncryptFails, WriteToFileHead, Upload, UploadFails,
              SaveRow, AddDeliverable, finalizeVars, otherVars, cleanup, StartNext
<1> QED
  BY <1>1, <1>2, <1>3, <1>4, <1>5, <1>6, <1>7 DEF Next

------------------------------------------------------------------------------
(* Types.                                                                  *)

(* The directories an archive brings along are directories.                *)
LEMMA TopIsDir ==
  ASSUME Types, NEW f \in Inputs
  PROVE  given[f] \in Dirs /\ f \in Dirs /\ Archive(f) \subseteq Files
<1>1. given["data"] \in DataTops /\ given["model"] \in ModelTops
  BY TaskFilesAssumption DEF Types
<1>2. Archive(f) \subseteq Files
  BY DEF Files
<1> QED
  BY <1>1, <1>2 DEF Inputs, Dirs

(* What is in a directory are files.                                       *)
LEMMA InDirType ==
  ASSUME Types, NEW d \in Dirs
  PROVE  InDir(d) \subseteq Files
BY DEF Types, InDir

(* A failure keeps the types of progress and retries.                      *)
LEMMA FailureTyped ==
  ASSUME Types, NEW s \in Stages, Failure(s)
  PROVE  progress' \in Progress \cup {None} /\ retries' \in [Stages -> 0 .. MaxRetries]
<1>1. progress' \in Progress \cup {None}
  BY StageProgress DEF Failure
<1>2. \A q \in 0 .. MaxRetries : q < MaxRetries => q + 1 \in 0 .. MaxRetries
  BY TaskFilesAssumption
<1>3. retries \in [Stages -> 0 .. MaxRetries]
  BY DEF Types
<1>4. retries' \in [Stages -> 0 .. MaxRetries]
  BY <1>2, <1>3 DEF Failure
<1> QED
  BY <1>1, <1>4

(* An attempt that fails.                                                  *)
LEMMA FailTyped ==
  ASSUME Typed, NEW a \in Attempts, NEW pc \in EndPc, Fail(a, pc), att[a].stage \in Stages
  PROVE  /\ progress' \in Progress \cup {None} /\ retries' \in [Stages -> 0 .. MaxRetries]
         /\ att' \in [Attempts -> AttemptType] /\ att'[a].pc = pc
         /\ \A b \in Attempts \ {a} : att'[b] = att[b]
<1>1. att' = [att EXCEPT ![a] = Over(pc)]
  BY DEF Fail
<1>2. Over(pc) \in AttemptType /\ Over(pc).pc = pc
  BY DEF Over, Idle, AttemptType
<1>3. progress' \in Progress \cup {None} /\ retries' \in [Stages -> 0 .. MaxRetries]
  BY FailureTyped DEF Fail, Typed, Types
<1> QED
  BY <1>1, <1>2, <1>3 DEF Typed, Types

(* Nothing but one attempt, its container and its files is touched.        *)
OnlyOf(a) ==
  \A b \in Attempts \ {a} : att'[b] = att[b] /\ ctr'[b] = ctr[b] /\ enc'[b] = enc[b]

LocalTypes ==
  /\ progress \in Progress \cup {None} /\ retries \in [Stages -> 0 .. MaxRetries]
  /\ att \in [Attempts -> AttemptType] /\ ctr \in [Attempts -> Containers \cup {None}]
  /\ dir \in [Dirs -> (SUBSET Files) \cup {None}] /\ zip \subseteq Inputs
  /\ plain \in [Attempts -> (SUBSET Files) \cup {None}] /\ enc \in [Attempts -> Packed \cup {None}]
  /\ uploaded \subseteq Upload_ /\ row \in Attempts \cup {None}

(* What is left to show of an attempt's step, beside where the broker is.  *)
LEMMA LocalStep ==
  ASSUME Typed, NEW a \in Attempts, StartTypeOK', LocalTypes', OnlyOf(a), FitsAt(a)',
         UNCHANGED << given, late, swept >>
  PROVE  Typed'
<1>1. Types'
  BY DEF Typed, Types, LocalTypes
<1>2. ASSUME NEW b \in Attempts
      PROVE  FitsAt(b)'
  <2>1. CASE b = a
    BY <2>1
  <2>2. CASE b # a
    BY <2>2 DEF Typed, Fits, FitsAt, OnlyOf
  <2> QED
    BY <2>1, <2>2
<1> QED
  BY <1>1, <1>2 DEF Typed, Fits

(* An attempt that goes to another step.                                   *)
LEMMA GotoTyped ==
  ASSUME Types, NEW a \in Attempts, NEW pc \in SetupPc \cup ExecutePc \cup FinalizePc, Goto(a, pc)
  PROVE  /\ att' \in [Attempts -> AttemptType] /\ \A b \in Attempts \ {a} : att'[b] = att[b]
         /\ att'[a] = [att[a] EXCEPT !.pc = pc]
         /\ att'[a].pc = pc /\ att'[a].stage = att[a].stage /\ att'[a].on = att[a].on
         /\ att'[a].waited = att[a].waited
         /\ progress' \in Progress \cup {None} /\ retries' \in [Stages -> 0 .. MaxRetries]
<1>1. att' = [att EXCEPT ![a] = [att[a] EXCEPT !.pc = pc]] /\ att[a] \in AttemptType
  BY DEF Goto, Types
<1>2. [att[a] EXCEPT !.pc = pc] \in AttemptType
  BY <1>1 DEF AttemptType
<1>3. progress' \in Progress \cup {None} /\ retries' \in [Stages -> 0 .. MaxRetries]
  BY DEF Goto, Types
<1> QED
  BY <1>1, <1>2, <1>3 DEF Types, AttemptType

(* An attempt that is over fits.                                           *)
LEMMA EndFits ==
  ASSUME NEW a, att'[a].pc \in EndPc
  PROVE  FitsAt(a)'
BY DEF FitsAt, SetupPc, ExecutePc, FinalizePc, EndPc

(* A step of setup.                                                        *)
LEMMA SetupTyped ==
  ASSUME Typed, StartTypeOK', NEW a \in Attempts, Setup(a)
  PROVE  Typed'
<1> DEFINE f == att[a].on
           d == given[f]
<1> USE DEF At
<1>0. UNCHANGED << plain, enc, ctr, uploaded, row, given, late, swept >>
  BY DEF Setup, Download, DownloadFails, Unzip, RemoveDir, RenameDir, MkOutput, Verify, RejectSignature,
         SetupFails, setupVars, otherVars, cleanup, files
<1>1. Types /\ FitsAt(a) /\ att \in [Attempts -> AttemptType]
  BY DEF Typed, Types, Fits
<1>2. att[a].stage = "setup"
  BY DEF Setup, Download, DownloadFails, Unzip, RemoveDir, RenameDir, MkOutput, Verify, RejectSignature,
         SetupFails
<1>3. att[a].stage \in Stages
  BY <1>2 DEF Stages
<1>4. att[a].pc \in SetupPc \ {"mkdir", "verify"} =>
        /\ f \in Inputs /\ d \in Dirs /\ f \in Dirs /\ Archive(f) \subseteq Files
        /\ InDir(d) \subseteq Files
  BY <1>1, TopIsDir, InDirType DEF FitsAt
<1>5. "fetch" \in SetupPc \ {"mkdir", "verify"} /\ "open" \in SetupPc \ {"mkdir", "verify"}
      /\ "unzip" \in SetupPc \ {"mkdir", "verify"} /\ "remove" \in SetupPc \ {"mkdir", "verify"}
      /\ "rename" \in SetupPc \ {"mkdir", "verify"}
  BY DEF SetupPc
<1>6. dir' \in [Dirs -> (SUBSET Files) \cup {None}] /\ zip' \subseteq Inputs
  <2>1. CASE Download(a) \/ DownloadFails(a)
    BY <2>1, <1>1, <1>4, <1>5 DEF Download, DownloadFails, Types
  <2>2. CASE Unzip(a)
    <3>1. << f, 0, 1 >> \in Archive(f) /\ << f, 0, 2 >> \in Archive(f)
      BY DEF Archive
    <3>2. f \in Inputs /\ d \in Dirs /\ InDir(d) \subseteq Files /\ Archive(f) \subseteq Files
      BY <2>2, <1>4, <1>5 DEF Unzip
    <3>3. InDir(d) \cup {<< f, 0, 1 >>} \subseteq Files /\ InDir(d) \cup {<< f, 0, 2 >>} \subseteq Files
      BY <3>1, <3>2
    <3>4. \/ dir' = [dir EXCEPT ![d] = InDir(d) \cup {<< f, 0, 1 >>}]
          \/ dir' = [dir EXCEPT ![d] = InDir(d) \cup {<< f, 0, 2 >>}]
      BY <2>2 DEF Unzip, DirsSet
    <3>5. UNCHANGED zip
      BY <2>2 DEF Unzip
    <3> HIDE DEF f, d
    <3> QED
      BY <3>2, <3>3, <3>4, <3>5, <1>1 DEF Types
  <2>3. CASE RemoveDir(a) \/ RenameDir(a)
    <3>2. f \in Dirs /\ d \in Dirs
      BY <2>3, <1>4, <1>5 DEF RemoveDir, RenameDir
    <3>4. dir' = [dir EXCEPT ![f] = None] \/ dir' = [dir EXCEPT ![f] = dir[d], ![d] = None]
      BY <2>3 DEF RemoveDir, RenameDir, DirsSet
    <3>5. UNCHANGED zip
      BY <2>3 DEF RemoveDir, RenameDir
    <3> HIDE DEF f, d
    <3> QED
      BY <3>2, <3>4, <3>5, <1>1 DEF Types
  <2>4. CASE MkOutput(a)
    <3>1. "output" \in Dirs
      BY DEF Dirs
    <3> QED
      BY <2>4, <3>1, <1>1, InDirType DEF MkOutput, DirsSet, Types
  <2>5. CASE Verify(a) \/ RejectSignature(a) \/ SetupFails(a)
    BY <2>5, <1>1 DEF Verify, RejectSignature, SetupFails, files, Types
  <2> QED
    BY <2>1, <2>2, <2>3, <2>4, <2>5 DEF Setup
<1>7. /\ att' \in [Attempts -> AttemptType] /\ \A b \in Attempts \ {a} : att'[b] = att[b]
      /\ FitsAt(a)'
      /\ progress' \in Progress \cup {None} /\ retries' \in [Stages -> 0 .. MaxRetries]
  <2>1. CASE Download(a) \/ RemoveDir(a) \/ MkOutput(a) \/ Unzip(a) \/ RenameDir(a)
    <3>1. \/ Goto(a, "open") \/ Goto(a, "unzip") \/ Goto(a, "remove") \/ Goto(a, "rename") \/ Goto(a, "verify")
          \/ Next_(a) /\ UNCHANGED << progress, retries >>
      BY <2>1 DEF Download, RemoveDir, MkOutput, Unzip, RenameDir
    <3>2. f \in Inputs \/ Goto(a, "verify")
      BY <2>1, <1>4, <1>5 DEF Download, RemoveDir, MkOutput, Unzip, RenameDir
    <3>3. UNCHANGED << progress, retries >>
      BY <3>1 DEF Goto
    <3>4. CASE Next_(a)
      <4>1. PICK x : /\ x \in AttemptType /\ x.stage = "setup" /\ att' = [att EXCEPT ![a] = x]
                     /\ \/ x.pc = "fetch" /\ x.on \in Inputs
                        \/ x.pc = "mkdir"
        <5>1. CASE f = "data"
          <6> WITNESS [att[a] EXCEPT !.pc = "fetch", !.on = "model"]
          <6> QED
            BY <3>4, <5>1, <1>1, <1>2 DEF Next_, AttemptType, SetupPc, Inputs
        <5>2. CASE f # "data"
          <6> WITNESS [att[a] EXCEPT !.pc = "mkdir", !.on = None]
          <6>1. att[a] \in AttemptType
            BY <1>1
          <6>2. [att[a] EXCEPT !.pc = "mkdir", !.on = None] \in AttemptType
            BY <6>1 DEF AttemptType, SetupPc
          <6>3. att' = [att EXCEPT ![a].pc = "mkdir", ![a].on = None]
            BY <3>4, <5>2 DEF Next_
          <6>4. att' = [att EXCEPT ![a] = [att[a] EXCEPT !.pc = "mkdir", !.on = None]]
            BY <6>3, <6>1, <1>1 DEF AttemptType
          <6>5. [att[a] EXCEPT !.pc = "mkdir", !.on = None].stage = "setup"
            BY <6>1, <1>2 DEF AttemptType
          <6>6. [att[a] EXCEPT !.pc = "mkdir", !.on = None].pc = "mkdir"
            BY <6>1 DEF AttemptType
          <6> QED
            BY <6>2, <6>4, <6>5, <6>6
        <5> QED
          BY <5>1, <5>2
      <4> QED
        BY <4>1, <3>3, <1>0, <1>1 DEF FitsAt, SetupPc, ExecutePc, FinalizePc, Types
    <3>5. ASSUME NEW pc \in {"open", "unzip", "remove", "rename", "verify"}, Goto(a, pc),
                 f \in Inputs \/ pc = "verify"
          PROVE  /\ att' \in [Attempts -> AttemptType] /\ \A b \in Attempts \ {a} : att'[b] = att[b]
                 /\ FitsAt(a)'
      <4>1. pc \in SetupPc
        BY DEF SetupPc
      <4>2. /\ att' \in [Attempts -> AttemptType] /\ \A b \in Attempts \ {a} : att'[b] = att[b]
            /\ att'[a].pc = pc /\ att'[a].stage = att[a].stage /\ att'[a].on = f
        BY <3>5, <4>1, <1>1, GotoTyped
      <4> QED
        BY <4>1, <4>2, <3>5, <1>2 DEF FitsAt, SetupPc, ExecutePc, FinalizePc
    <3>6. Goto(a, "verify") \/ \E pc \in {"open", "unzip", "remove", "rename"} : Goto(a, pc) \/ Next_(a)
      BY <3>1
    <3> QED
      BY <3>2, <3>3, <3>4, <3>5, <3>6, <1>1 DEF Types
  <2>4. CASE DownloadFails(a) \/ SetupFails(a)
    <3>1. "done" \in EndPc
      BY DEF EndPc
    <3> QED
      BY <2>4, <3>1, <1>3, FailTyped, EndFits DEF DownloadFails, SetupFails
  <2>5. CASE Verify(a) \/ RejectSignature(a)
    <3>1. att' = [att EXCEPT ![a] = Over("done")] /\ UNCHANGED retries
      BY <2>5 DEF Verify, RejectSignature, Succeed
    <3>2. Over("done") \in AttemptType /\ Over("done").pc = "done"
      BY DEF Over, Idle, AttemptType, EndPc
    <3>3. progress' \in Progress \cup {None}
      BY <2>5, <1>1, <1>3, StageProgress DEF Verify, RejectSignature, Succeed, Types
    <3>4. "done" \in EndPc
      BY DEF EndPc
    <3> QED
      BY <3>1, <3>2, <3>3, <3>4, <1>1, EndFits DEF Types
  <2> QED
    BY <2>1, <2>4, <2>5 DEF Setup
<1> HIDE DEF At
<1>8. LocalTypes' /\ OnlyOf(a)
  BY <1>0, <1>1, <1>6, <1>7 DEF LocalTypes, OnlyOf, Types
<1> QED
  BY <1>0, <1>7, <1>8, LocalStep

(* A step of the executor.                                                 *)
LEMMA ExecuteTyped ==
  ASSUME Typed, StartTypeOK', NEW a \in Attempts, Execute(a)
  PROVE  Typed'
<1>0. UNCHANGED << dir, zip, plain, enc, uploaded, row, given, late, swept >>
  BY DEF Execute, Pull, StartContainer, WaitForContainer, FetchLogs, ExecuteFails, executeVars, cleanup, files
<1>1. Types /\ FitsAt(a) /\ ctr \in [Attempts -> Containers \cup {None}]
  BY DEF Typed, Types, Fits
<1>2. att[a].stage = "execute"
  BY DEF Execute, Pull, StartContainer, WaitForContainer, FetchLogs, ExecuteFails, At
<1>3. att[a].stage \in Stages /\ "done" \in EndPc
  BY <1>2 DEF Stages, EndPc
<1>4. ASSUME NEW pc \in {"create", "wait", "logs"}, Goto(a, pc)
      PROVE  /\ att' \in [Attempts -> AttemptType] /\ \A b \in Attempts \ {a} : att'[b] = att[b]
             /\ progress' \in Progress \cup {None} /\ retries' \in [Stages -> 0 .. MaxRetries]
             /\ (pc \in {"wait", "logs"} => ctr'[a] \in Containers) => FitsAt(a)'
  <2>1. /\ pc \in SetupPc \cup ExecutePc \cup FinalizePc
        /\ pc \notin SetupPc /\ pc \notin FinalizePc /\ pc \notin {"sign", "upload"}
    BY <1>4 DEF SetupPc, ExecutePc, FinalizePc
  <2>2. /\ att' \in [Attempts -> AttemptType] /\ \A b \in Attempts \ {a} : att'[b] = att[b]
        /\ att'[a].pc = pc /\ att'[a].stage = "execute"
        /\ progress' \in Progress \cup {None} /\ retries' \in [Stages -> 0 .. MaxRetries]
    BY <1>1, <1>2, <1>4, <2>1, GotoTyped
  <2> QED BY <2>1, <2>2 DEF FitsAt
<1>5. /\ att' \in [Attempts -> AttemptType] /\ \A b \in Attempts \ {a} : att'[b] = att[b] /\ ctr'[b] = ctr[b]
      /\ ctr' \in [Attempts -> Containers \cup {None}] /\ FitsAt(a)'
      /\ progress' \in Progress \cup {None} /\ retries' \in [Stages -> 0 .. MaxRetries]
  <2>1. CASE Pull(a)
    <3>1. Goto(a, "create") /\ UNCHANGED ctr
      BY <2>1 DEF Pull
    <3> QED
      BY <3>1, <1>1, <1>4
  <2>2. CASE StartContainer(a)
    <3>1. Goto(a, "wait") /\ ctr' = [ctr EXCEPT ![a] = Container("running")]
      BY <2>2 DEF StartContainer
    <3>2. Container("running") \in Containers
      BY DEF Container, Containers
    <3>3. /\ ctr' \in [Attempts -> Containers \cup {None}] /\ ctr'[a] \in Containers
          /\ \A b \in Attempts \ {a} : ctr'[b] = ctr[b]
      BY <3>1, <3>2, <1>1
    <3> QED
      BY <3>1, <3>3, <1>4
  <2>3. CASE WaitForContainer(a)
    <3>1. Goto(a, "logs") /\ UNCHANGED ctr /\ att[a].pc = "wait"
      BY <2>3 DEF WaitForContainer, At
    <3>2. ctr'[a] \in Containers
      BY <3>1, <1>1 DEF FitsAt
    <3> QED
      BY <3>1, <3>2, <1>1, <1>4
  <2>4. CASE FetchLogs(a)
    <3>1. /\ att' = [att EXCEPT ![a] = Over("done")] /\ UNCHANGED retries
          /\ ctr' = [ctr EXCEPT ![a].state = "trained"] /\ att[a].pc = "logs"
          /\ progress' \in {progress, To(att[a].stage)}
      BY <2>4 DEF FetchLogs, Succeed, At
    <3>2. Over("done") \in AttemptType /\ Over("done").pc = "done"
      BY DEF Over, Idle, AttemptType, EndPc
    <3>3. ctr[a] \in Containers
      BY <3>1, <1>1 DEF FitsAt
    <3>4. [ctr[a] EXCEPT !.state = "trained"] \in Containers
      BY <3>3 DEF Containers
    <3>5. progress' \in Progress \cup {None}
      BY <3>1, <1>1, <1>3, StageProgress DEF Types
    <3> QED
      BY <3>1, <3>2, <3>4, <3>5, <1>1, <1>3, EndFits DEF Types
  <2>5. CASE ExecuteFails(a)
    <3>1. /\ Fail(a, "done")
          /\ ctr' = ctr \/ (ctr[a] # None /\ ctr' = [ctr EXCEPT ![a].state = "removed"])
      BY <2>5 DEF ExecuteFails
    <3>2. ctr[a] # None => [ctr[a] EXCEPT !.state = "removed"] \in Containers
      BY <1>1 DEF Containers
    <3>3. ctr' \in [Attempts -> Containers \cup {None}] /\ \A b \in Attempts \ {a} : ctr'[b] = ctr[b]
      BY <3>1, <3>2, <1>1
    <3> QED
      BY <3>1, <3>3, <1>3, FailTyped, EndFits
  <2> QED
    BY <2>1, <2>2, <2>3, <2>4, <2>5 DEF Execute
<1>6. LocalTypes' /\ OnlyOf(a)
  BY <1>0, <1>1, <1>5 DEF LocalTypes, OnlyOf, Types
<1> QED
  BY <1>0, <1>5, <1>6, LocalStep

(* What a container writes is a file of its output.                        *)
LEMMA WritesFile ==
  ASSUME Typed, NEW a \in Attempts, Trains(a)
  PROVE  /\ ctr[a] \in Containers /\ ctr[a].written \in {0, 1}
         /\ << "output", a, ctr[a].written + 1 >> \in Output(a) /\ Output(a) \subseteq Files
<1>1. ctr[a] \in Containers /\ ctr[a].written \in 0 .. 2 /\ ctr[a].written < 2
  BY DEF Trains, Writes, Typed, Types, Containers
<1>2. ctr[a].written + 1 \in {1, 2}
  BY <1>1
<1>3. Output(a) \subseteq Files
  BY DEF Files
<1> QED
  BY <1>1, <1>2, <1>3 DEF Output

(* A step of a container.                                                  *)
LEMMA ContainerTyped ==
  ASSUME Typed, StartTypeOK', NEW a \in Attempts, Trains(a) \/ Exits(a)
  PROVE  Typed'
<1>1. Types /\ FitsAt(a) /\ ctr[a] \in Containers /\ ctr \in [Attempts -> Containers \cup {None}]
  BY DEF Trains, Exits, Writes, Typed, Types, Fits
<1>2. UNCHANGED << progress, retries, att, zip, plain, enc, uploaded, row, given, late, swept >>
  BY DEF Trains, Exits, otherVars, cleanup, files
<1>3. ctr' \in [Attempts -> Containers \cup {None}] /\ ctr'[a] \in Containers
      /\ \A b \in Attempts \ {a} : ctr'[b] = ctr[b]
  <2>1. CASE Trains(a)
    <3>1. ctr[a].written \in 0 .. 2 /\ ctr[a].written < 2 /\ ctr' = [ctr EXCEPT ![a].written = @ + 1]
      BY <2>1, <1>1 DEF Trains, Containers
    <3>2. [ctr[a] EXCEPT !.written = ctr[a].written + 1] \in Containers
      BY <3>1, <1>1 DEF Containers
    <3> QED
      BY <3>1, <3>2, <1>1
  <2>2. CASE Exits(a)
    <3>1. [ctr[a] EXCEPT !.state = "exited"] \in Containers
      BY <1>1 DEF Containers
    <3> QED
      BY <2>2, <3>1, <1>1 DEF Exits
  <2> QED
    BY <2>1, <2>2
<1>4. dir' \in [Dirs -> (SUBSET Files) \cup {None}]
  <2>1. CASE Trains(a)
    <3>2. << "output", a, ctr[a].written + 1 >> \in Files
      BY <2>1, WritesFile
    <3>3. "output" \in Dirs
      BY DEF Dirs
    <3>4. PICK S : /\ S = (InDir("output") \ SameName(ctr[a].written + 1)) \cup {<< "output", a, ctr[a].written + 1 >>}
                   /\ DirsSet("output", S)
      BY <2>1 DEF Trains
    <3>5. S \subseteq Files
      BY <3>2, <3>3, <3>4, <1>1, InDirType
    <3> QED
      BY <3>3, <3>4, <3>5, <1>1 DEF DirsSet, Types
  <2>2. CASE Exits(a)
    BY <2>2, <1>1 DEF Exits, files, Types
  <2> QED
    BY <2>1, <2>2
<1>5. FitsAt(a)'
  BY <1>1, <1>2, <1>3 DEF FitsAt
<1>6. LocalTypes' /\ OnlyOf(a)
  BY <1>1, <1>2, <1>3, <1>4 DEF LocalTypes, OnlyOf, Types
<1> QED
  BY <1>2, <1>5, <1>6, LocalStep

(* A step of the finalizer.                                                *)
LEMMA FinalizeTyped ==
  ASSUME Typed, StartTypeOK', NEW a \in Attempts, Finalize(a)
  PROVE  Typed'
<1>0. UNCHANGED << dir, zip, ctr, given, late, swept >>
  BY DEF Finalize, Zip, ZipFails, AesEncryptLargeFile, EncryptFails, WriteToFileHead, Upload, UploadFails,
         SaveRow, AddDeliverable, finalizeVars, otherVars, cleanup
<1>1. Types /\ FitsAt(a) /\ plain \in [Attempts -> (SUBSET Files) \cup {None}]
      /\ enc \in [Attempts -> Packed \cup {None}]
  BY DEF Typed, Types, Fits
<1>2. att[a].stage = "finalize"
  BY DEF Finalize, Zip, ZipFails, AesEncryptLargeFile, EncryptFails, WriteToFileHead, Upload, UploadFails,
         SaveRow, AddDeliverable, At
<1>3. att[a].stage \in Stages /\ "done" \in EndPc /\ "torn" \in EndPc
  BY <1>2 DEF Stages, EndPc
<1>4. ASSUME NEW pc \in FinalizePc, Goto(a, pc), pc \in {"sign", "upload"} => enc'[a] \in Packed
      PROVE  /\ att' \in [Attempts -> AttemptType] /\ \A b \in Attempts \ {a} : att'[b] = att[b]
             /\ FitsAt(a)'
             /\ progress' \in Progress \cup {None} /\ retries' \in [Stages -> 0 .. MaxRetries]
  BY <1>1, <1>2, <1>4, GotoTyped DEF FitsAt, SetupPc, ExecutePc, FinalizePc
<1>5. ASSUME NEW pc \in {"done", "torn"}, Fail(a, pc)
      PROVE  /\ att' \in [Attempts -> AttemptType] /\ \A b \in Attempts \ {a} : att'[b] = att[b]
             /\ FitsAt(a)'
             /\ progress' \in Progress \cup {None} /\ retries' \in [Stages -> 0 .. MaxRetries]
  BY <1>3, <1>5, FailTyped, EndFits
<1>6. "encrypt" \in FinalizePc /\ "sign" \in FinalizePc /\ "upload" \in FinalizePc /\ "save" \in FinalizePc
      /\ "deliver" \in FinalizePc
  BY DEF FinalizePc
<1> DEFINE AttOK == /\ att' \in [Attempts -> AttemptType] /\ \A b \in Attempts \ {a} : att'[b] = att[b]
                    /\ FitsAt(a)'
                    /\ progress' \in Progress \cup {None} /\ retries' \in [Stages -> 0 .. MaxRetries]
           FileOK == /\ plain' \in [Attempts -> (SUBSET Files) \cup {None}]
                     /\ enc' \in [Attempts -> Packed \cup {None}] /\ \A b \in Attempts \ {a} : enc'[b] = enc[b]
                     /\ uploaded' \subseteq Upload_ /\ row' \in Attempts \cup {None}
<1>7. AttOK /\ FileOK
  <2>1. CASE Zip(a) \/ ZipFails(a)
    <3>1. "output" \in Dirs
      BY DEF Dirs
    <3>2. dir["output"] # None => dir["output"] \subseteq Files
      BY <3>1, <1>1 DEF Types
    <3>3. FileOK
      BY <2>1, <3>1, <3>2, <1>1, InDirType DEF Zip, ZipFails, Types
    <3>4. AttOK
      BY <2>1, <1>4, <1>5, <1>6 DEF Zip, ZipFails
    <3> QED
      BY <3>3, <3>4
  <2>2. CASE AesEncryptLargeFile(a)
    <3>1. [of |-> plain[a], signed |-> FALSE] \in Packed
      BY <2>2, <1>1 DEF AesEncryptLargeFile, Packed
    <3>2. FileOK /\ enc'[a] \in Packed
      BY <2>2, <3>1, <1>1 DEF AesEncryptLargeFile, Types
    <3>3. AttOK
      BY <2>2, <3>2, <1>4, <1>6 DEF AesEncryptLargeFile
    <3> QED
      BY <3>2, <3>3
  <2>3. CASE EncryptFails(a)
    <3>1. [of |-> {}, signed |-> FALSE] \in Packed
      BY DEF Packed
    <3>2. FileOK
      <4>1. /\ enc' = enc \/ enc' = [enc EXCEPT ![a] = [of |-> {}, signed |-> FALSE]]
            /\ plain' = [plain EXCEPT ![a] = None] /\ UNCHANGED << uploaded, row >>
        BY <2>3 DEF EncryptFails
      <4>2. /\ enc \in [Attempts -> Packed \cup {None}] /\ plain \in [Attempts -> (SUBSET Files) \cup {None}]
            /\ uploaded \subseteq Upload_ /\ row \in Attempts \cup {None}
        BY <1>1 DEF Types
      <4>3. enc' \in [Attempts -> Packed \cup {None}] /\ \A b \in Attempts \ {a} : enc'[b] = enc[b]
        BY <3>1, <4>1, <4>2
      <4> QED BY <4>1, <4>2, <4>3
    <3>3. AttOK
      BY <2>3, <1>5 DEF EncryptFails
    <3> QED
      BY <3>2, <3>3
  <2>4. CASE WriteToFileHead(a)
    <3>1. enc[a] \in Packed /\ enc' = [enc EXCEPT ![a].signed = TRUE]
      BY <2>4, <1>1 DEF WriteToFileHead, At, FitsAt
    <3>2. [enc[a] EXCEPT !.signed = TRUE] \in Packed
      BY <3>1 DEF Packed
    <3>3. FileOK /\ enc'[a] \in Packed
      BY <2>4, <3>1, <3>2, <1>1 DEF WriteToFileHead, Types
    <3>4. AttOK
      BY <2>4, <3>3, <1>4, <1>6 DEF WriteToFileHead
    <3> QED
      BY <3>3, <3>4
  <2>5. CASE Upload(a) \/ UploadFails(a)
    <3>1. enc[a] \in Packed
      BY <2>5, <1>1 DEF Upload, UploadFails, At, FitsAt
    <3>2. [by |-> a, of |-> enc[a].of, signed |-> enc[a].signed] \in Upload_
      BY <3>1 DEF Packed, Upload_
    <3>3. FileOK
      BY <2>5, <3>2, <1>1 DEF Upload, UploadFails, RemoveTemporary, Types
    <3>4. AttOK
      BY <2>5, <1>4, <1>5, <1>6 DEF Upload, UploadFails
    <3> QED
      BY <3>3, <3>4
  <2>6. CASE SaveRow(a)
    <3>1. FileOK
      BY <2>6, <1>1 DEF SaveRow, Types
    <3>2. AttOK
      BY <2>6, <1>4, <1>6 DEF SaveRow
    <3> QED
      BY <3>1, <3>2
  <2>7. CASE AddDeliverable(a)
    <3>1. FileOK
      BY <2>7, <1>1 DEF AddDeliverable, Types
    <3>2. Succeed(a) \/ Fail(a, "done")
      BY <2>7 DEF AddDeliverable
    <3>3. CASE Succeed(a)
      <4>1. att' = [att EXCEPT ![a] = Over("done")] /\ UNCHANGED retries
            /\ progress' \in {progress, To(att[a].stage)}
        BY <3>3 DEF Succeed
      <4>2. Over("done") \in AttemptType /\ Over("done").pc = "done"
        BY DEF Over, Idle, AttemptType, EndPc
      <4>3. progress' \in Progress \cup {None}
        BY <4>1, <1>1, <1>3, StageProgress DEF Types
      <4>4. AttOK
        BY <4>1, <4>2, <4>3, <1>1, <1>3, EndFits DEF Types
      <4> QED
        BY <3>1, <4>4
    <3> QED
      BY <3>1, <3>2, <3>3, <1>5
  <2> QED
    BY <2>1, <2>2, <2>3, <2>4, <2>5, <2>6, <2>7 DEF Finalize
<1>8. LocalTypes' /\ OnlyOf(a)
  BY <1>0, <1>1, <1>7 DEF LocalTypes, OnlyOf, Types
<1> QED
  BY <1>0, <1>7, <1>8, LocalStep

(* An attempt begins, or is left behind.                                   *)
LEMMA BeginTyped ==
  ASSUME Typed, StartTypeOK', NEW a \in Attempts, NEW s \in Stages, Begin(a, s)
  PROVE  Typed'
<1>1. Types /\ progress' = During(s)
      /\ UNCHANGED << retries, given, dir, zip, plain, enc, ctr, uploaded, row, late, swept >>
  BY DEF Begin, Typed, files, cleanup
<1> DEFINE x == [stage |-> s, waited |-> TRUE,
                 pc |-> CASE s = "setup" -> "fetch" [] s = "execute" -> "pull" [] s = "finalize" -> "zip",
                 on |-> IF s = "setup" THEN "data" ELSE None]
<1>2. att' = [att EXCEPT ![a] = x]
  BY DEF Begin
<1>3. \/ s = "setup" /\ x.pc = "fetch" /\ x.on = "data"
      \/ s = "execute" /\ x.pc = "pull"
      \/ s = "finalize" /\ x.pc = "zip"
  BY DEF Stages
<1>4. x \in AttemptType
  BY <1>3 DEF AttemptType, SetupPc, ExecutePc, FinalizePc, Inputs
<1>5. att' \in [Attempts -> AttemptType] /\ att'[a] = x /\ \A b \in Attempts \ {a} : att'[b] = att[b]
  BY <1>1, <1>2, <1>4 DEF Types
<1>6. FitsAt(a)'
  <2>1. x.stage = s
    OBVIOUS
  <2> HIDE DEF x
  <2> QED
    BY <1>3, <1>5, <2>1 DEF FitsAt, SetupPc, ExecutePc, FinalizePc, Inputs
<1>7. LocalTypes' /\ OnlyOf(a)
  BY <1>1, <1>5, StageProgress DEF LocalTypes, OnlyOf, Types
<1> QED
  BY <1>1, <1>6, <1>7, LocalStep

(* An attempt at work has a stage.                                         *)
LEMMA RunningStage ==
  ASSUME Typed, NEW a \in Attempts, Running(a)
  PROVE  att[a].stage \in Stages /\ att[a] \in AttemptType
         /\ att[a].pc \in SetupPc \cup ExecutePc \cup FinalizePc
BY DEF Typed, Types, Fits, FitsAt, Running, AttemptType, Stages, EndPc

(* A timeout only ends the waiting for an attempt and the record of it.    *)
LEMMA TimeoutTyped ==
  ASSUME Typed, StartTypeOK', NEW a \in Attempts, Timeout(a)
  PROVE  Typed'
<1>1. Types /\ FitsAt(a) /\ att[a].stage \in Stages /\ att[a] \in AttemptType
  BY RunningStage DEF Timeout, Typed, Fits
<1>2. UNCHANGED << given, dir, zip, plain, enc, ctr, uploaded, row, swept >>
      /\ att' = [att EXCEPT ![a].waited = FALSE] /\ late' = Append(late, att[a].stage)
  BY DEF Timeout, files, cleanup
<1>3. [att[a] EXCEPT !.waited = FALSE] \in AttemptType
  BY <1>1 DEF AttemptType
<1>4. att' \in [Attempts -> AttemptType] /\ att'[a] = [att[a] EXCEPT !.waited = FALSE]
      /\ \A b \in Attempts \ {a} : att'[b] = att[b]
  BY <1>1, <1>2, <1>3 DEF Types
<1>5. late' \in Seq(Stages)
  BY <1>1, <1>2 DEF Types
<1>6. progress' \in Progress \cup {None} /\ retries' \in [Stages -> 0 .. MaxRetries]
  BY <1>1, FailureTyped DEF Timeout, Types
<1>7. FitsAt(a)'
  BY <1>1, <1>2, <1>4 DEF FitsAt, AttemptType
<1>8. Types'
  BY <1>1, <1>2, <1>4, <1>5, <1>6 DEF Types
<1>9. ASSUME NEW b \in Attempts
      PROVE  FitsAt(b)'
  BY <1>2, <1>4, <1>7 DEF FitsAt, Typed, Fits
<1> QED
  BY <1>8, <1>9 DEF Typed, Fits

(* Steps of the broker as a whole.                                         *)
LEMMA WholeTyped ==
  ASSUME Typed, StartTypeOK',
         \/ Starting \/ MarkInProgressTasksAsFailed \/ Stops
         \/ CreateTask \/ Grow \/ runDiskCleanup \/ removeAllZipFiles \/ UNCHANGED vars
  PROVE  Typed'
<1> DEFINE Rest == UNCHANGED << retries, given, enc, ctr, uploaded, row, late >>
<1>1. Types
  BY DEF Typed
<1>2. CASE Starting \/ UNCHANGED vars
  BY <1>2 DEF Starting, taskVars, cleanup, vars, files, Typed, Types, Fits, FitsAt
<1>3. CASE MarkInProgressTasksAsFailed \/ CreateTask
  <2>1. progress' \in Progress \cup {None}
    BY <1>3, <1>1, StageProgress, ProgressIs DEF MarkInProgressTasksAsFailed, CreateTask, Stages
  <2> QED
    BY <1>3, <2>1 DEF MarkInProgressTasksAsFailed, CreateTask, files, cleanup, Typed, Types, Fits, FitsAt
<1>4. CASE Grow \/ runDiskCleanup \/ removeAllZipFiles
  BY <1>4 DEF Grow, runDiskCleanup, removeAllZipFiles, cleanupVars, files, Typed, Types, Fits, FitsAt
<1>5. CASE Stops
  <2>1. UNCHANGED << progress, retries, given, dir, zip, plain, enc, ctr, uploaded, row, late, swept >>
        /\ att' = [a \in Attempts |-> IF Running(a) THEN Over("dead") ELSE att[a]]
    BY <1>5 DEF Stops, files
  <2>2. Over("dead") \in AttemptType /\ Over("dead").pc = "dead" /\ "dead" \in EndPc
    BY DEF Over, Idle, AttemptType, EndPc
  <2>3. att' \in [Attempts -> AttemptType]
    BY <1>1, <2>1, <2>2 DEF Types
  <2>4. ASSUME NEW a \in Attempts
        PROVE  FitsAt(a)'
    <3>1. CASE Running(a)
      BY <2>1, <2>2, <3>1, EndFits
    <3>2. CASE ~ Running(a)
      BY <2>1, <3>2 DEF FitsAt, Typed, Fits
    <3> QED
      BY <3>1, <3>2
  <2> QED
    BY <1>1, <2>1, <2>3, <2>4 DEF Typed, Types, Fits
<1> QED
  BY <1>2, <1>3, <1>4, <1>5

(* Every step keeps the types.                                             *)
LEMMA TypesStep ==
  ASSUME Typed, BuiltInv, [Next]_vars
  PROVE  Typed' /\ BuiltInv'
<1>1. StartTypeOK' /\ BuiltInv'
  BY StepIsStart, StartKept DEF Typed, Types
<1>2. Typed'
  BY <1>1, WholeTyped, BeginTyped, TimeoutTyped, SetupTyped, ExecuteTyped, FinalizeTyped,
    ContainerTyped DEF Next
<1> QED
  BY <1>1, <1>2

(* And they hold at first.                                                 *)
LEMMA TypesInit ==
  ASSUME Init
  PROVE  Typed /\ BuiltInv
<1>1. Idle \in AttemptType /\ Idle.pc = "idle"
  BY DEF Idle, AttemptType, EndPc
<1>2. StartTypeOK /\ BuiltInv
  BY BrokerStartAssumption DEF Init, StartInit, StartTypeOK, BuiltInv, BuilderSteps, Bridges
<1>3. Types
  <2>1. /\ progress = None /\ retries \in [Stages -> 0 .. MaxRetries]
        /\ given \in Given
    BY TaskFilesAssumption DEF Init
  <2>2. att \in [Attempts -> AttemptType]
    BY <1>1 DEF Init
  <2>3. /\ dir \in [Dirs -> (SUBSET Files) \cup {None}] /\ zip \subseteq Inputs
        /\ plain \in [Attempts -> (SUBSET Files) \cup {None}] /\ enc \in [Attempts -> Packed \cup {None}]
        /\ ctr \in [Attempts -> Containers \cup {None}]
    BY DEF Init
  <2>4. uploaded \subseteq Upload_ /\ row \in Attempts \cup {None} /\ late \in Seq(Stages) /\ swept \in BOOLEAN
    <3>1. << >> \in Seq(Stages)
      OBVIOUS
    <3>2. uploaded = {} /\ row = None /\ late = << >> /\ swept = FALSE
      BY DEF Init
    <3> QED
      BY <3>1, <3>2
  <2> QED
    BY <1>2, <2>1, <2>2, <2>3, <2>4 DEF Types
<1>4. ASSUME NEW a \in Attempts
      PROVE  FitsAt(a)
  BY <1>1 DEF Init, FitsAt, SetupPc, ExecutePc, FinalizePc
<1> QED
  BY <1>2, <1>3, <1>4 DEF Typed, Fits

(* What the cleanup goes by.                                               *)
CleanupTyped ==
  age \in {"young", "due", "last", "old"} /\ round \in BOOLEAN /\ sweep \in {"idle", "zips"}

(* Every step keeps its types.                                             *)
LEMMA CleanupStep ==
  ASSUME CleanupTyped, [Next]_vars
  PROVE  CleanupTyped'
<1> USE DEF CleanupTyped
<1>1. CASE Starting \/ MarkInProgressTasksAsFailed \/ CreateTask \/ UNCHANGED vars
  <2>1. UNCHANGED cleanup
    BY <1>1 DEF Starting, taskVars, MarkInProgressTasksAsFailed, CreateTask, vars
  <2> QED
    BY <2>1 DEF cleanup
<1>2. CASE Stops
  <2>1. age' = age /\ sweep' = "idle"
    BY <1>2 DEF Stops
  <2>2. round' = (age \in {"due", "last"})
    BY <1>2, Zenon DEF Stops
  <2>3. round' = TRUE \/ round' = FALSE
    BY <2>2
  <2> QED
    BY <2>1, <2>3
<1>3. CASE Grow
  <2>1. age' \in {"young", "due", "last", "old"} /\ sweep' = sweep
    BY <1>3 DEF Grow
  <2>2. round' \in BOOLEAN
    BY <1>3, Zenon DEF Grow
  <2> QED
    BY <2>1, <2>2
<1>4. CASE runDiskCleanup \/ removeAllZipFiles
  BY <1>4 DEF runDiskCleanup, removeAllZipFiles, cleanupVars
<1>5. ASSUME NEW a \in Attempts, (\E s \in Stages : Begin(a, s)) \/ Timeout(a) \/ Trains(a) \/ Exits(a)
      PROVE  CleanupTyped'
  BY <1>5 DEF Begin, Timeout, Trains, Exits, otherVars, cleanup
<1>6. ASSUME NEW a \in Attempts, Setup(a)
      PROVE  CleanupTyped'
  BY <1>6 DEF Setup, Download, DownloadFails, Unzip, RemoveDir, RenameDir, MkOutput, Verify, RejectSignature,
              SetupFails, setupVars, otherVars, cleanup
<1>7. ASSUME NEW a \in Attempts, Execute(a)
      PROVE  CleanupTyped'
  BY <1>7 DEF Execute, Pull, StartContainer, WaitForContainer, FetchLogs, ExecuteFails, executeVars, cleanup
<1>8. ASSUME NEW a \in Attempts, Finalize(a)
      PROVE  CleanupTyped'
  BY <1>8 DEF Finalize, Zip, ZipFails, AesEncryptLargeFile, EncryptFails, WriteToFileHead, Upload, UploadFails,
              SaveRow, AddDeliverable, finalizeVars, otherVars, cleanup
<1> QED
  BY <1>1, <1>2, <1>3, <1>4, <1>5, <1>6, <1>7, <1>8 DEF Next

(* TaskFiles is well typed.                                                *)
THEOREM TypesKept == Spec => []TypeOK
<1>1. Typed /\ CleanupTyped => TypeOK
  <2>1. Types => StartTypeOK /\ swept \in BOOLEAN
    BY DEF Types
  <2> QED
    BY <2>1 DEF Typed, Types, TypeOK, CleanupTyped, AttemptType, Packed
<1>2. Init => CleanupTyped
  BY DEF Init, CleanupTyped
<1> QED
  BY <1>1, <1>2, CleanupStep, TypesInit, TypesStep, PTL DEF Spec

------------------------------------------------------------------------------
(* What steps do to attempts and to the progress.                          *)

Others(a) == \A b \in Attempts \ {a} : att'[b] = att[b]

(* An attempt goes on, with nothing to say about the task's progress.      *)
Goes(a) ==
  /\ Running(a) /\ Others(a)
  /\ att'[a].stage = att[a].stage /\ att'[a].waited = att[a].waited /\ att'[a].pc \notin EndPc
  /\ progress' = progress

(* An attempt ends, and its stage with it only if it is waited for.        *)
Ends(a) ==
  /\ Running(a) /\ Others(a) /\ att'[a].pc \in EndPc
  /\ \/ progress' = progress
     \/ att[a].waited /\ progress' \in {From(att[a].stage), To(att[a].stage), "Failed"}

(* Attempts that go to another step, or are over.                          *)
LEMMA GotoGoes ==
  ASSUME Types, NEW a \in Attempts, NEW pc \in SetupPc \cup ExecutePc \cup FinalizePc, Goto(a, pc), Running(a)
  PROVE  Goes(a)
<1>1. pc \notin EndPc
  BY DEF SetupPc, ExecutePc, FinalizePc, EndPc
<1> QED
  BY <1>1, GotoTyped DEF Goes, Others, Goto

(* A failure gives the task back or up, if the attempt is waited for.      *)
LEMMA FailEnds ==
  ASSUME Typed, NEW a \in Attempts, NEW pc \in EndPc, Fail(a, pc), Running(a)
  PROVE  Ends(a)
<1>1. att'[a].pc = pc /\ Others(a)
  BY FailTyped, RunningStage DEF Others
<1>2. \/ progress' = progress
      \/ att[a].waited /\ progress' \in {From(att[a].stage), "Failed"}
  BY DEF Fail, Failure
<1> QED
  BY <1>1, <1>2 DEF Ends

(* A success moves the task on, if the attempt is waited for.              *)
LEMMA SucceedEnds ==
  ASSUME Typed, NEW a \in Attempts, Succeed(a), Running(a)
  PROVE  Ends(a)
<1>1. att' = [att EXCEPT ![a] = Over("done")] /\ Over("done").pc = "done" /\ "done" \in EndPc
  BY DEF Succeed, Over, Idle, EndPc
<1>2. att'[a].pc \in EndPc /\ Others(a)
  BY <1>1 DEF Typed, Types, Others
<1>3. \/ progress' = progress
      \/ att[a].waited /\ progress' = To(att[a].stage)
  BY DEF Succeed
<1> QED
  BY <1>2, <1>3 DEF Ends

(* The step an attempt of a stage is at is not one of those that are over. *)
LEMMA AtRuns ==
  ASSUME NEW a \in Attempts, NEW s, NEW pc \in SetupPc \cup ExecutePc \cup FinalizePc, At(a, s, pc)
  PROVE  Running(a) /\ att[a].stage = s /\ att[a].pc = pc /\ main # "down"
BY DEF At, Running, SetupPc, ExecutePc, FinalizePc

(* A step of setup, seen from outside.                                     *)
LEMMA SetupShape ==
  ASSUME Typed, NEW a \in Attempts, Setup(a)
  PROVE  /\ Goes(a) \/ Ends(a)
         /\ att[a].stage = "setup" /\ att[a].pc \in SetupPc
         /\ UNCHANGED << main, plain, enc, ctr, uploaded, row, late, swept, given >>
<1>1. UNCHANGED << main, plain, enc, ctr, uploaded, row, late, swept, given >>
  BY DEF Setup, Download, DownloadFails, Unzip, RemoveDir, RenameDir, MkOutput, Verify, RejectSignature,
         SetupFails, setupVars, otherVars, cleanup, startVars, files
<1>2. att[a].stage = "setup" /\ att[a].pc \in SetupPc
  BY DEF Setup, Download, DownloadFails, Unzip, RemoveDir, RenameDir, MkOutput, Verify, RejectSignature,
         SetupFails, At, SetupPc
<1>3. Running(a)
  BY <1>2 DEF Running, SetupPc
<1>4. Types /\ att[a] \in AttemptType /\ att \in [Attempts -> AttemptType]
  BY DEF Typed, Types
<1>5. CASE \E pc \in {"open", "unzip", "remove", "rename", "verify"} : Goto(a, pc)
  <2>1. PICK pc \in {"open", "unzip", "remove", "rename", "verify"} : Goto(a, pc)
    BY <1>5
  <2>2. pc \in SetupPc \cup ExecutePc \cup FinalizePc
    BY DEF SetupPc
  <2> QED
    BY <2>1, <2>2, <1>1, <1>2, <1>3, <1>4, GotoGoes
<1>6. CASE Next_(a) /\ UNCHANGED progress
  <2>1. PICK pc \in {"fetch", "mkdir"}, on \in Inputs \cup {None} :
            att' = [att EXCEPT ![a] = [att[a] EXCEPT !.pc = pc, !.on = on]]
    <3>1. "model" \in Inputs
      BY DEF Inputs
    <3>2. att' = [att EXCEPT ![a] = [att[a] EXCEPT !.pc = "fetch", !.on = "model"]] \/
          att' = [att EXCEPT ![a] = [att[a] EXCEPT !.pc = "mkdir", !.on = None]]
      BY <1>4, <1>6 DEF Next_, AttemptType
    <3> QED
      BY <3>1, <3>2
  <2>2. att'[a] = [att[a] EXCEPT !.pc = pc, !.on = on] /\ Others(a)
    BY <2>1, <1>4 DEF Others
  <2>3. att'[a].pc = pc /\ att'[a].stage = att[a].stage /\ att'[a].waited = att[a].waited
    BY <2>2, <1>4 DEF AttemptType
  <2>4. pc \notin EndPc
    BY DEF EndPc
  <2> QED
    BY <2>2, <2>3, <2>4, <1>1, <1>2, <1>3, <1>6 DEF Goes
<1>7. CASE Fail(a, "done")
  BY <1>7, <1>1, <1>2, <1>3, FailEnds DEF EndPc
<1>8. CASE Verify(a)
  BY <1>8, <1>1, <1>2, <1>3, SucceedEnds DEF Verify
<1>9. CASE RejectSignature(a)
  <2>1. att' = [att EXCEPT ![a] = Over("done")] /\ att[a].waited /\ progress' = "Failed"
    BY <1>9 DEF RejectSignature
  <2>2. Over("done").pc = "done" /\ "done" \in EndPc
    BY DEF Over, Idle, EndPc
  <2>3. att'[a].pc \in EndPc /\ Others(a)
    BY <2>1, <2>2, <1>4 DEF Others
  <2> QED
    BY <2>1, <2>3, <1>1, <1>2, <1>3 DEF Ends
<1>10. \/ \E pc \in {"open", "unzip", "remove", "rename", "verify"} : Goto(a, pc)
       \/ Next_(a) /\ UNCHANGED progress
       \/ Fail(a, "done") \/ Verify(a) \/ RejectSignature(a)
  BY DEF Setup, Download, DownloadFails, Unzip, RemoveDir, RenameDir, MkOutput, SetupFails
<1> QED
  BY <1>5, <1>6, <1>7, <1>8, <1>9, <1>10

(* A step of the executor.                                                 *)
LEMMA ExecuteShape ==
  ASSUME Typed, NEW a \in Attempts, Execute(a)
  PROVE  /\ Goes(a) \/ Ends(a)
         /\ att[a].stage = "execute" /\ att[a].pc \in ExecutePc
         /\ UNCHANGED << main, plain, enc, dir, uploaded, row, late, swept, given >>
         /\ \A b \in Attempts \ {a} : ctr'[b] = ctr[b]
<1>1. UNCHANGED << main, plain, enc, dir, uploaded, row, late, swept, given >>
  BY DEF Execute, Pull, PullImage, StartContainer, WaitForContainer, FetchLogs, ExecuteFails, executeVars,
         cleanup, files, startVars
<1>2. att[a].stage = "execute" /\ att[a].pc \in ExecutePc
  BY DEF Execute, Pull, StartContainer, WaitForContainer, FetchLogs, ExecuteFails, At, ExecutePc
<1>3. Running(a) /\ Types /\ ctr \in [Attempts -> Containers \cup {None}]
  BY <1>2 DEF Running, ExecutePc, Typed, Types
<1>4. \A b \in Attempts \ {a} : ctr'[b] = ctr[b]
  BY <1>3 DEF Execute, Pull, StartContainer, WaitForContainer, FetchLogs, ExecuteFails
<1>5. ASSUME NEW pc \in {"create", "wait", "logs"}, Goto(a, pc)
      PROVE  Goes(a)
  <2>1. pc \in SetupPc \cup ExecutePc \cup FinalizePc
    BY DEF ExecutePc
  <2> QED
    BY <2>1, <1>3, <1>5, GotoGoes
<1>6. ASSUME Fail(a, "done") \/ Succeed(a)
      PROVE  Ends(a)
  BY <1>3, <1>6, FailEnds, SucceedEnds DEF EndPc
<1>7. \/ Goto(a, "create") \/ Goto(a, "wait") \/ Goto(a, "logs") \/ Fail(a, "done") \/ Succeed(a)
  BY DEF Execute, Pull, StartContainer, WaitForContainer, FetchLogs, ExecuteFails
<1> QED
  BY <1>1, <1>2, <1>4, <1>5, <1>6, <1>7

(* A step of the finalizer.                                                *)
LEMMA FinalizeShape ==
  ASSUME Typed, NEW a \in Attempts, Finalize(a)
  PROVE  /\ Goes(a) \/ Ends(a)
         /\ att[a].stage = "finalize" /\ att[a].pc \in FinalizePc
         /\ UNCHANGED << main, dir, ctr, late, swept, given >>
         /\ \A b \in Attempts \ {a} : plain'[b] = plain[b] /\ enc'[b] = enc[b]
<1>1. UNCHANGED << main, dir, ctr, late, swept, given >>
  BY DEF Finalize, Zip, ZipFails, AesEncryptLargeFile, EncryptFails, WriteToFileHead, Upload, UploadFails,
         SaveRow, AddDeliverable, finalizeVars, otherVars, cleanup, startVars
<1>2. att[a].stage = "finalize" /\ att[a].pc \in FinalizePc
  BY DEF Finalize, Zip, ZipFails, AesEncryptLargeFile, EncryptFails, WriteToFileHead, Upload, UploadFails,
         SaveRow, AddDeliverable, At, FinalizePc
<1>3. Running(a) /\ Types
  BY <1>2 DEF Running, FinalizePc, Typed
<1>4. \A b \in Attempts \ {a} : plain'[b] = plain[b] /\ enc'[b] = enc[b]
  BY <1>3 DEF Types, Finalize, Zip, ZipFails, AesEncryptLargeFile, EncryptFails, WriteToFileHead, Upload,
              UploadFails, RemoveTemporary, SaveRow, AddDeliverable
<1>5. ASSUME NEW pc \in FinalizePc, Goto(a, pc)
      PROVE  Goes(a)
  BY <1>3, <1>5, GotoGoes
<1>6. ASSUME Fail(a, "done") \/ Fail(a, "torn") \/ Succeed(a)
      PROVE  Ends(a)
  BY <1>3, <1>6, FailEnds, SucceedEnds DEF EndPc
<1>7. "encrypt" \in FinalizePc /\ "sign" \in FinalizePc /\ "upload" \in FinalizePc /\ "save" \in FinalizePc
      /\ "deliver" \in FinalizePc
  BY DEF FinalizePc
<1>8. \/ \E pc \in FinalizePc : Goto(a, pc)
      \/ Fail(a, "done") \/ Fail(a, "torn") \/ Succeed(a)
  BY <1>7 DEF Finalize, Zip, ZipFails, AesEncryptLargeFile, EncryptFails, WriteToFileHead, Upload, UploadFails,
              SaveRow, AddDeliverable
<1> QED
  BY <1>1, <1>2, <1>4, <1>5, <1>6, <1>8

(* An attempt that begins.                                                 *)
LEMMA BeginShape ==
  ASSUME Typed, NEW a \in Attempts, NEW s \in Stages, Begin(a, s)
  PROVE  /\ att[a] = Idle /\ ~ Running(a) /\ Others(a)
         /\ att'[a].stage = s /\ att'[a].waited /\ att'[a].pc \in {"fetch", "pull", "zip"}
         /\ s = "setup" => att'[a].pc = "fetch" /\ att'[a].on = "data"
         /\ progress = From(s) /\ progress' = During(s)
         /\ main \in {"image", "settlement", "serving"}
         /\ UNCHANGED << main, dir, plain, enc, ctr, uploaded, row, late, swept, given >>
<1>1. att[a] = Idle /\ ~ Running(a)
  BY DEF Begin, Running, Idle
<1>2. /\ progress = From(s) /\ progress' = During(s)
      /\ main \in {"image", "settlement", "serving"}
      /\ UNCHANGED << main, dir, plain, enc, ctr, uploaded, row, late, swept, given >>
  BY DEF Begin, startVars, files, cleanup
<1>3. Others(a)
  BY DEF Begin, Typed, Types, Others
<1>4. att'[a] = [stage |-> s, waited |-> TRUE,
                 pc |-> CASE s = "setup" -> "fetch" [] s = "execute" -> "pull" [] s = "finalize" -> "zip",
                 on |-> IF s = "setup" THEN "data" ELSE None]
  BY DEF Begin, Typed, Types
<1> QED
  BY <1>1, <1>2, <1>3, <1>4 DEF Stages

(* An attempt that is left behind.                                         *)
LEMMA TimeoutShape ==
  ASSUME Typed, NEW a \in Attempts, Timeout(a)
  PROVE  /\ Running(a) /\ att[a].waited /\ Others(a)
         /\ att'[a].stage = att[a].stage /\ ~ att'[a].waited /\ att'[a].pc = att[a].pc /\ att'[a].on = att[a].on
         /\ progress' = progress \/ progress' \in {From(att[a].stage), "Failed"}
         /\ late' = Append(late, att[a].stage)
         /\ UNCHANGED << main, dir, plain, enc, ctr, uploaded, row, swept, given >>
<1>1. Running(a) /\ att[a].waited /\ att' = [att EXCEPT ![a].waited = FALSE]
      /\ late' = Append(late, att[a].stage)
      /\ UNCHANGED << main, dir, plain, enc, ctr, uploaded, row, swept, given >>
  BY DEF Timeout, startVars, files, cleanup
<1>2. progress' = progress \/ progress' \in {From(att[a].stage), "Failed"}
  BY DEF Timeout, Failure
<1>3. att[a] \in AttemptType /\ att \in [Attempts -> AttemptType]
  BY DEF Typed, Types
<1> QED
  BY <1>1, <1>2, <1>3 DEF AttemptType, Others

------------------------------------------------------------------------------
(* At most one attempt is waited for, and it holds the task's progress.    *)

WaitedFor(a) == Running(a) /\ att[a].waited

(* A setup that is not waited for has been left behind; attempts work only *)
(* while the broker serves, because a start fails what it finds.           *)
RunInv ==
  /\ \A a \in Attempts : WaitedFor(a) => progress = During(att[a].stage)
  /\ \A a, b \in Attempts : WaitedFor(a) /\ WaitedFor(b) => a = b
  /\ \A a \in Attempts : Running(a) /\ att[a].stage = "setup" /\ ~ att[a].waited => SetupLeft
  /\ \A a \in Attempts : Running(a) => main = "serving"
  /\ main \in {"sync", "loops", "image", "settlement"} => progress \in {None, "Failed"}

(* Attempts that go on or end keep it.                                     *)
LEMMA GoesKeeps ==
  ASSUME RunInv, NEW a \in Attempts, Goes(a), UNCHANGED << main, late >>
  PROVE  RunInv'
<1>1. SetupLeft' <=> SetupLeft
  BY DEF SetupLeft
<1>2. ASSUME NEW b \in Attempts
      PROVE  /\ Running(b)' => Running(b)
             /\ att'[b].stage = att[b].stage /\ att'[b].waited = att[b].waited
  BY DEF Goes, Others, Running
<1> QED
  BY <1>1, <1>2 DEF RunInv, WaitedFor, Goes

(* When an attempt ends nobody else becomes the one waited for.            *)
LEMMA EndsKeeps ==
  ASSUME RunInv, NEW a \in Attempts, Ends(a), UNCHANGED << main, late >>
  PROVE  RunInv'
<1>1. SetupLeft' <=> SetupLeft
  BY DEF SetupLeft
<1>2. ASSUME NEW b \in Attempts, Running(b)'
      PROVE  b # a /\ Running(b) /\ att'[b] = att[b]
  BY <1>2 DEF Ends, Others, Running, EndPc
<1>3. ASSUME NEW b \in Attempts, WaitedFor(b)'
      PROVE  progress' = progress
  BY <1>2, <1>3 DEF RunInv, WaitedFor, Ends
<1>4. main' \notin {"sync", "loops", "image", "settlement"}
  BY DEF Ends, RunInv
<1> QED
  BY <1>1, <1>2, <1>3, <1>4 DEF RunInv, WaitedFor

(* So does one that begins: the task is not held, or its progress would be *)
(* another.                                                                *)
LEMMA BeginKeeps ==
  ASSUME Typed, RunInv, NEW a \in Attempts, NEW s \in Stages, Begin(a, s)
  PROVE  RunInv' /\ main = "serving"
<1>1. SetupLeft' <=> SetupLeft
  BY BeginShape DEF SetupLeft
<1>2. \A r \in Stages : progress # During(r)
  BY BeginShape, ProgressIs DEF Stages
<1>3. \A b \in Attempts : ~ WaitedFor(b)
  BY <1>2, RunningStage DEF RunInv, WaitedFor
<1>4. main = "serving" /\ main' = main
  BY BeginShape, ProgressIs, TaskFilesAssumption DEF RunInv, Stages
<1>5. ASSUME NEW b \in Attempts, b # a
      PROVE  ~ WaitedFor(b)' /\ att'[b] = att[b] /\ Running(b)' = Running(b)
  BY <1>3, <1>5, BeginShape DEF Others, WaitedFor, Running
<1>6. progress' = During(att'[a].stage) /\ att'[a].waited
  BY BeginShape
<1> QED
  BY <1>1, <1>4, <1>5, <1>6 DEF RunInv, WaitedFor

(* And one that is left behind.                                            *)
LEMMA TimeoutKeeps ==
  ASSUME Typed, RunInv, NEW a \in Attempts, Timeout(a)
  PROVE  RunInv' /\ (SetupLeft => SetupLeft')
<1>1. late \in Seq(Stages) /\ att[a].stage \in Stages /\ late' = Append(late, att[a].stage)
  BY TimeoutShape, RunningStage DEF Typed, Types
<1>2. /\ Len(late') = Len(late) + 1 /\ late'[Len(late) + 1] = att[a].stage
      /\ \A i \in 1 .. Len(late) : late'[i] = late[i]
      /\ DOMAIN late = 1 .. Len(late) /\ DOMAIN late' = 1 .. Len(late')
      /\ Len(late) \in Nat
  BY <1>1
<1>3. /\ SetupLeft => SetupLeft'
      /\ att[a].stage = "setup" => SetupLeft'
  BY <1>2 DEF SetupLeft
<1>4. ASSUME NEW b \in Attempts
      PROVE  /\ Running(b)' = Running(b) /\ att'[b].stage = att[b].stage
             /\ b # a => att'[b] = att[b]
  BY TimeoutShape DEF Others, Running
<1>5. ASSUME NEW b \in Attempts
      PROVE  ~ WaitedFor(b)'
  BY <1>4, TimeoutShape DEF RunInv, WaitedFor
<1>6. main = "serving" /\ main' = "serving"
  BY TimeoutShape DEF RunInv
<1> QED
  BY <1>3, <1>4, <1>5, <1>6, TimeoutShape DEF RunInv

(* Steps of the broker as a whole: starts, stops, new tasks and cleanups.  *)
LEMMA WholeKeeps ==
  ASSUME Typed, RunInv,
         \/ Starting \/ MarkInProgressTasksAsFailed \/ Stops
         \/ CreateTask \/ Grow \/ runDiskCleanup \/ removeAllZipFiles \/ UNCHANGED vars
  PROVE  RunInv' /\ late' = late
<1>1. late' = late /\ (SetupLeft' <=> SetupLeft)
  BY DEF Starting, taskVars, cleanup, MarkInProgressTasksAsFailed, Stops, CreateTask, Grow, runDiskCleanup,
         removeAllZipFiles, cleanupVars, vars, SetupLeft
<1>2. ASSUME UNCHANGED << progress, att >>,
             \/ main' = main
             \/ main # "serving" /\ main' \notin {"sync", "loops", "image", "settlement"}
             \/ main \in {"sync", "loops", "image", "settlement"}
      PROVE  RunInv'
  BY <1>1, <1>2 DEF RunInv, WaitedFor, Running
<1>3. CASE Starting
  <2>1. UNCHANGED << progress, att >>
    BY <1>3 DEF Starting, taskVars, cleanup
  <2>2. \/ main' = main
        \/ main # "serving" /\ main' \notin {"sync", "loops", "image", "settlement"}
        \/ main \in {"sync", "loops", "image", "settlement"}
    <3>1. CASE Main
      BY <3>1 DEF Main
    <3>2. CASE Builder
      BY <3>2 DEF Builder, ImageExists, CleanBridge, copyDirectory, ImageBuild, BuildFails, Builds
    <3>3. CASE Advance("init") \/ Advance("quote")
      BY <3>3, AdvanceTo
    <3>4. CASE Advance("sync") \/ Advance("loops") \/ Advance("image") \/ Advance("settlement")
      BY <3>4 DEF Advance
    <3> QED
      BY <1>3, <3>1, <3>2, <3>3, <3>4
         DEF Starting, initializeServices, SyncQuote, SyncServices, StartLoops, ImageReady, StartSettlement
  <2> QED
    BY <2>1, <2>2, <1>1, <1>2
<1>4. CASE UNCHANGED vars
  BY <1>2, <1>4 DEF vars, startVars
<1>5. CASE Grow \/ runDiskCleanup \/ removeAllZipFiles
  BY <1>2, <1>5 DEF Grow, runDiskCleanup, removeAllZipFiles, cleanupVars, startVars
<1>6. CASE MarkInProgressTasksAsFailed
  <2>1. main = "mark" /\ progress' \in {None, "Failed"} /\ UNCHANGED att
    BY <1>6 DEF MarkInProgressTasksAsFailed, Advance
  <2>2. \A a \in Attempts : ~ Running(a) /\ ~ Running(a)'
    BY <2>1 DEF RunInv, Running
  <2> QED
    BY <1>1, <2>1, <2>2 DEF RunInv, WaitedFor
<1>7. CASE CreateTask
  <2>1. progress = None /\ main = "serving" /\ main' = main /\ UNCHANGED att
    BY <1>7 DEF CreateTask, startVars
  <2>2. \A a \in Attempts : ~ WaitedFor(a)
    BY <2>1, RunningStage, StageProgress, TaskFilesAssumption DEF RunInv, WaitedFor
  <2> QED
    BY <1>1, <2>1, <2>2 DEF RunInv, WaitedFor, Running
<1>8. CASE Stops
  <2>1. att' = [a \in Attempts |-> IF Running(a) THEN Over("dead") ELSE att[a]] /\ main' = "down"
    BY <1>8 DEF Stops, Down, ImageFailed
  <2>2. Over("dead").pc = "dead"
    BY DEF Over, Idle
  <2>3. \A a \in Attempts : ~ Running(a)'
    BY <2>1, <2>2 DEF Running
  <2> QED
    BY <1>1, <2>1, <2>3 DEF RunInv, WaitedFor
<1> QED
  BY <1>1, <1>3, <1>4, <1>5, <1>6, <1>7, <1>8

(* It holds at first, and every step keeps it.                             *)
LEMMA RunStep ==
  ASSUME Typed, RunInv, [Next]_vars
  PROVE  RunInv' /\ (SetupLeft => SetupLeft')
<1>1. ASSUME NEW a \in Attempts, Setup(a) \/ Execute(a) \/ Finalize(a)
      PROVE  RunInv' /\ late' = late
  BY <1>1, SetupShape, ExecuteShape, FinalizeShape, GoesKeeps, EndsKeeps
<1>2. ASSUME NEW a \in Attempts, Trains(a) \/ Exits(a)
      PROVE  RunInv' /\ late' = late
  <2>1. UNCHANGED << main, progress, att, late >>
    BY <1>2 DEF Trains, Exits, otherVars, cleanup, startVars
  <2> QED
    BY <2>1 DEF RunInv, WaitedFor, Running, SetupLeft
<1>3. ASSUME NEW a \in Attempts, NEW s \in Stages, Begin(a, s)
      PROVE  RunInv' /\ late' = late
  BY <1>3, BeginKeeps, BeginShape
<1>4. late' = late => (SetupLeft => SetupLeft')
  BY DEF SetupLeft
<1> QED
  BY <1>1, <1>2, <1>3, <1>4, TimeoutKeeps, WholeKeeps DEF Next

(* Before the first start no attempt is made.                              *)
LEMMA RunInit ==
  ASSUME Init
  PROVE  RunInv
<1>1. \A a \in Attempts : ~ Running(a)
  BY DEF Init, Idle, Running
<1>2. main = "down"
  BY DEF Init, StartInit
<1> QED
  BY <1>1, <1>2 DEF RunInv, WaitedFor

------------------------------------------------------------------------------
(* The packed output.                                                      *)

(* An attempt of another stage, and one yet to begin, has packed nothing.  *)
LEMMA PlainAtWork ==
  ASSUME PlainIsRemoved, NEW a \in Attempts, plain[a] # None
  PROVE  att[a].pc \notin SetupPc \cup ExecutePc \cup {"idle", "done", "zip", "save", "deliver"}
BY DEF PlainIsRemoved, SetupPc, ExecutePc

(* A step of the finalizer removes what it has packed when it ends, except *)
(* as the property says.                                                   *)
LEMMA PlainFinalize ==
  ASSUME Typed, PlainIsRemoved, NEW a \in Attempts, Finalize(a)
  PROVE  PlainIsRemoved'
<1>1. /\ Others(a) /\ \A b \in Attempts \ {a} : plain'[b] = plain[b]
  BY FinalizeShape DEF Goes, Ends
<1>2. /\ plain \in [Attempts -> (SUBSET Files) \cup {None}] /\ Types
      /\ "encrypt" \in FinalizePc /\ "sign" \in FinalizePc /\ "upload" \in FinalizePc
  BY DEF Typed, Types, FinalizePc
<1>3. plain'[a] # None => att'[a].pc \in {"encrypt", "sign", "upload", "torn", "dead"}
  <2>1. CASE Zip(a)
    <3>1. Goto(a, "encrypt")
      BY <2>1 DEF Zip
    <3> QED
      BY <3>1, <1>2, GotoTyped
  <2>2. CASE ZipFails(a) \/ EncryptFails(a)
    <3>1. Fail(a, "torn") /\ "torn" \in EndPc /\ att[a].stage \in Stages
      BY <2>2, FinalizeShape DEF ZipFails, EncryptFails, EndPc, Stages
    <3> QED
      BY <3>1, FailTyped
  <2>3. CASE AesEncryptLargeFile(a)
    <3>1. Goto(a, "sign")
      BY <2>3 DEF AesEncryptLargeFile
    <3> QED
      BY <3>1, <1>2, GotoTyped
  <2>4. CASE WriteToFileHead(a)
    <3>1. Goto(a, "upload")
      BY <2>4 DEF WriteToFileHead
    <3> QED
      BY <3>1, <1>2, GotoTyped
  <2>5. CASE Upload(a) \/ UploadFails(a)
    BY <2>5, <1>2 DEF Upload, UploadFails, RemoveTemporary
  <2>6. CASE SaveRow(a) \/ AddDeliverable(a)
    <3>1. plain' = plain /\ att[a].pc \in {"save", "deliver"}
      BY <2>6 DEF SaveRow, AddDeliverable, At
    <3> QED
      BY <3>1, PlainAtWork
  <2> QED
    BY <2>1, <2>2, <2>3, <2>4, <2>5, <2>6 DEF Finalize
<1> QED
  BY <1>1, <1>3 DEF PlainIsRemoved, Others

(* Every step.                                                             *)
LEMMA PlainStep ==
  ASSUME Typed, PlainIsRemoved, [Next]_vars
  PROVE  PlainIsRemoved'
<1>1. ASSUME UNCHANGED plain \/ plain' = [b \in Attempts |-> None], NEW a \in Attempts, Others(a),
             \/ att'[a].pc = att[a].pc
             \/ att[a].pc \in SetupPc \cup ExecutePc \cup {"idle"}
      PROVE  PlainIsRemoved'
  BY <1>1, PlainAtWork DEF PlainIsRemoved, Others
<1>2. ASSUME NEW a \in Attempts, Setup(a) \/ Execute(a)
      PROVE  PlainIsRemoved'
  BY <1>1, <1>2, SetupShape, ExecuteShape DEF Goes, Ends
<1>3. ASSUME NEW a \in Attempts, Trains(a) \/ Exits(a)
      PROVE  PlainIsRemoved'
  BY <1>3 DEF Trains, Exits, files, PlainIsRemoved
<1>4. ASSUME NEW a \in Attempts, NEW s \in Stages, Begin(a, s)
      PROVE  PlainIsRemoved'
  BY <1>1, <1>4, BeginShape DEF Idle
<1>5. ASSUME NEW a \in Attempts, Timeout(a)
      PROVE  PlainIsRemoved'
  BY <1>1, <1>5, TimeoutShape
<1>6. CASE Starting \/ MarkInProgressTasksAsFailed \/ CreateTask \/ Grow \/ runDiskCleanup \/ UNCHANGED vars
  BY <1>6 DEF Starting, taskVars, cleanup, MarkInProgressTasksAsFailed, CreateTask, Grow, runDiskCleanup,
              cleanupVars, vars,
              files, PlainIsRemoved
<1>7. CASE removeAllZipFiles
  BY <1>7 DEF removeAllZipFiles, PlainIsRemoved
<1>8. CASE Stops
  <2>1. plain' = plain /\ att' = [a \in Attempts |-> IF Running(a) THEN Over("dead") ELSE att[a]]
    BY <1>8 DEF Stops, files
  <2>2. Over("dead").pc = "dead"
    BY DEF Over, Idle
  <2> QED
    BY <2>1, <2>2 DEF PlainIsRemoved
<1> QED
  BY <1>2, <1>3, <1>4, <1>5, <1>6, <1>7, <1>8, PlainFinalize DEF Next

(* The packed output is left in the clear only by a finalizer that died or *)
(* failed to pack or to encrypt, for any number of attempts, those left    *)
(* behind included.                                                        *)
THEOREM PlainRemoved == Spec => []PlainIsRemoved
<1>1. Init => PlainIsRemoved
  BY DEF Init, PlainIsRemoved
<1> QED
  BY <1>1, TypesInit, TypesStep, PlainStep, PTL DEF Spec

------------------------------------------------------------------------------
(* Containers, finalizers and rows, and how far the task has come.         *)

LateProgress == {"Trained", "Delivering", "Delivered", "Failed"}
Trainable    == {"SetUp", "Training"} \cup LateProgress

Trained(a) == ctr[a] # None /\ ctr[a].state = "trained"

(* Before the task is set up there is no container, and before one has     *)
(* trained there is nothing that delivers or is delivered.                 *)
WorkInv ==
  /\ \A a \in Attempts : ctr[a] # None => progress \in Trainable
  /\ \A a \in Attempts : Trained(a) => progress \in LateProgress
  /\ \A a \in Attempts : Running(a) /\ att[a].stage = "finalize" => progress \in LateProgress
  /\ row \in Attempts => progress \in LateProgress
  /\ progress = "Delivered" => row \in Attempts
  /\ \A a \in Attempts : att[a].pc = "deliver" => row \in Attempts
  /\ \A a \in Attempts : ctr[a] # None => att[a].pc \in ExecutePc \cup {"done", "dead"}

(* What an attempt's step can make of the progress.                        *)
LEMMA ProgressOfAttempt ==
  ASSUME Typed, RunInv, NEW a \in Attempts, Goes(a) \/ Ends(a)
  PROVE  \/ progress' = progress
         \/ /\ Ends(a) /\ att[a].waited
            /\ \/ att[a].stage = "setup" /\ progress = "SettingUp" /\ progress' \in {"Init", "SetUp", "Failed"}
               \/ att[a].stage = "execute" /\ progress = "Training" /\ progress' \in {"SetUp", "Trained", "Failed"}
               \/ att[a].stage = "finalize" /\ progress = "Delivering" /\ progress' \in {"Trained", "Delivered", "Failed"}
<1>1. Running(a) /\ att[a].stage \in Stages
  BY RunningStage DEF Goes, Ends
<1>2. ASSUME progress' # progress
      PROVE  /\ Ends(a) /\ att[a].waited /\ progress = During(att[a].stage)
             /\ progress' \in {From(att[a].stage), To(att[a].stage), "Failed"}
  BY <1>1, <1>2 DEF Goes, Ends, RunInv, WaitedFor
<1> QED
  BY <1>1, <1>2, ProgressIs DEF Stages

(* And what any step can.                                                  *)
LEMMA ProgressStep ==
  ASSUME Typed, RunInv, [Next]_vars
  PROVE  /\ progress \in LateProgress => progress' \in LateProgress
         /\ progress \in Trainable => progress' \in Trainable
         /\ progress' = "Delivered" => progress = "Delivered" \/ \E a \in Attempts : Finalize(a)
         /\ progress' \in {"SetUp", "Training"} =>
              progress \in {"SetUp", "Training"} \/ \E a \in Attempts : Setup(a) /\ progress' # progress
<1> USE DEF LateProgress, Trainable
<1>1. ASSUME NEW a \in Attempts, Setup(a)
      PROVE  progress' = progress \/ (progress = "SettingUp" /\ progress' \in {"Init", "SetUp", "Failed"})
  BY <1>1, SetupShape, ProgressOfAttempt
<1>2. ASSUME NEW a \in Attempts, Execute(a)
      PROVE  progress' = progress \/ (progress = "Training" /\ progress' \in {"SetUp", "Trained", "Failed"})
  BY <1>2, ExecuteShape, ProgressOfAttempt
<1>3. ASSUME NEW a \in Attempts, Finalize(a)
      PROVE  progress' = progress \/ (progress = "Delivering" /\ progress' \in {"Trained", "Delivered", "Failed"})
  BY <1>3, FinalizeShape, ProgressOfAttempt
<1>4. ASSUME NEW a \in Attempts, Trains(a) \/ Exits(a)
      PROVE  progress' = progress
  BY <1>4 DEF Trains, Exits
<1>5. ASSUME NEW a \in Attempts, NEW s \in Stages, Begin(a, s)
      PROVE  \/ progress = "Init" /\ progress' = "SettingUp"
             \/ progress = "SetUp" /\ progress' = "Training"
             \/ progress = "Trained" /\ progress' = "Delivering"
  BY <1>5, BeginShape, ProgressIs DEF Stages
<1>6. ASSUME NEW a \in Attempts, Timeout(a)
      PROVE  \/ progress' = progress
             \/ progress = "SettingUp" /\ progress' \in {"Init", "Failed"}
             \/ progress = "Training" /\ progress' \in {"SetUp", "Failed"}
             \/ progress = "Delivering" /\ progress' \in {"Trained", "Failed"}
  <2>1. progress = During(att[a].stage) /\ att[a].stage \in Stages
    BY <1>6, TimeoutShape, RunningStage DEF RunInv, WaitedFor
  <2>2. progress' = progress \/ progress' \in {From(att[a].stage), "Failed"}
    BY <1>6, TimeoutShape
  <2> QED
    BY <2>1, <2>2, ProgressIs DEF Stages
<1>7. CASE MarkInProgressTasksAsFailed
  BY <1>7, TaskFilesAssumption, ProgressIs DEF MarkInProgressTasksAsFailed
<1>8. CASE CreateTask
  BY <1>8, TaskFilesAssumption, ProgressIs DEF CreateTask
<1>9. CASE Starting \/ Stops \/ Grow \/ runDiskCleanup \/ removeAllZipFiles \/ UNCHANGED vars
  <2>1. progress' = progress
    BY <1>9 DEF Starting, taskVars, cleanup, Stops, Grow, runDiskCleanup, removeAllZipFiles, cleanupVars, vars
  <2> QED
    BY <2>1
<1> QED
  BY <1>1, <1>2, <1>3, <1>4, <1>5, <1>6, <1>7, <1>8, <1>9 DEF Next

(* A container that is new was started by an attempt the task waits for;   *)
(* one that is found to have trained belongs to such an attempt too.       *)
LEMMA ContainerStep ==
  ASSUME Typed, RunInv, [Next]_vars, NEW a \in Attempts
  PROVE  /\ ctr'[a] # None /\ ctr[a] = None => progress = "Training" /\ StartContainer(a)
         /\ Trained(a)' /\ ~ Trained(a) => FetchLogs(a) /\ progress = "Training" /\ progress' = "Trained"
         /\ ctr[a] # None => ctr'[a] # None
         /\ Trained(a)' /\ Trained(a) => ctr'[a].written = ctr[a].written
<1>1. ctr \in [Attempts -> Containers \cup {None}] /\ None \notin Containers
  BY TaskFilesAssumption DEF Typed, Types
<1>2. ASSUME ctr' = ctr
      PROVE  ctr'[a] = ctr[a] /\ (Trained(a)' <=> Trained(a))
  BY <1>2 DEF Trained
<1>3. CASE Starting \/ MarkInProgressTasksAsFailed \/ Stops \/ CreateTask \/ Grow \/ runDiskCleanup
           \/ removeAllZipFiles
           \/ UNCHANGED vars
  <2>1. ctr' = ctr
    BY <1>3 DEF Starting, taskVars, cleanup, MarkInProgressTasksAsFailed, Stops, CreateTask, Grow,
                runDiskCleanup,
                removeAllZipFiles, cleanupVars, vars
  <2> QED
    BY <1>2, <2>1
<1>4. ASSUME NEW b \in Attempts, (\E s \in Stages : Begin(b, s)) \/ Timeout(b) \/ Setup(b) \/ Finalize(b)
      PROVE  ctr' = ctr
  BY <1>4, BeginShape, TimeoutShape, SetupShape, FinalizeShape
<1>5. ASSUME NEW b \in Attempts, b # a, Execute(b) \/ Trains(b) \/ Exits(b)
      PROVE  ctr'[a] = ctr[a] /\ (Trained(a)' <=> Trained(a))
  <2>1. ctr'[a] = ctr[a]
    BY <1>1, <1>5, ExecuteShape DEF Trains, Exits
  <2> QED
    BY <2>1 DEF Trained
<1>6. CASE Trains(a) \/ Exits(a)
  <2>1. ctr[a] \in Containers
    BY <1>1, <1>6 DEF Trains, Exits, Writes
  <2>2. ctr'[a] \in Containers
    BY <1>6, ContainerTyped, <1>1, <2>1 DEF Trains, Exits, Containers
  <2>3. ~ Trained(a)'
    BY <1>1, <1>6, <2>1 DEF Trains, Exits, Writes, Trained, Containers
  <2> QED
    BY <1>1, <2>1, <2>2, <2>3
<1>7. CASE Pull(a) \/ WaitForContainer(a)
  BY <1>2, <1>7 DEF Pull, WaitForContainer
<1>8. CASE StartContainer(a)
  <2>1. progress = "Training"
    BY <1>8, ProgressIs DEF StartContainer, At, RunInv, WaitedFor, Running
  <2>2. ctr'[a] = Container("running") /\ Container("running") \in Containers /\ Container("running").state = "running"
    BY <1>1, <1>8 DEF StartContainer, Container, Containers
  <2> QED
    BY <1>1, <1>8, <2>1, <2>2 DEF Trained
<1>9. CASE FetchLogs(a)
  <2>1. ctr[a] \in Containers
    BY <1>9 DEF FetchLogs, At, Typed, Fits, FitsAt
  <2>2. ctr'[a] = [ctr[a] EXCEPT !.state = "trained"] /\ ctr'[a] \in Containers
    BY <1>1, <1>9, <2>1 DEF FetchLogs, Containers
  <2>3. progress = "Training" /\ att[a].waited /\ att[a].stage = "execute"
    BY <1>9, ProgressIs DEF FetchLogs, At, RunInv, WaitedFor, Running
  <2>4. progress' = "Trained"
    BY <1>9, <2>3, ProgressIs DEF FetchLogs, Succeed
  <2>5. ctr'[a].written = ctr[a].written
    BY <2>1, <2>2 DEF Containers
  <2> QED
    BY <1>1, <1>9, <2>1, <2>2, <2>3, <2>4, <2>5
<1>10. CASE ExecuteFails(a)
  <2>1. \/ ctr' = ctr
        \/ ctr[a] # None /\ ctr' = [ctr EXCEPT ![a].state = "removed"]
    BY <1>10 DEF ExecuteFails
  <2>2. ASSUME ctr[a] # None, ctr' = [ctr EXCEPT ![a].state = "removed"]
        PROVE  ctr'[a] \in Containers /\ ctr'[a].state = "removed"
    BY <1>1, <2>2 DEF Containers
  <2> QED
    BY <1>1, <1>2, <2>1, <2>2 DEF Trained
<1> QED
  BY <1>2, <1>3, <1>4, <1>5, <1>6, <1>7, <1>8, <1>9, <1>10 DEF Next, Execute

(* What can become of one attempt in a step.                               *)
LEMMA AttemptStep ==
  ASSUME Typed, [Next]_vars, NEW a \in Attempts
  PROVE  \/ att'[a] = att[a]
         \/ \E s \in Stages : Begin(a, s)
         \/ Timeout(a) \/ Setup(a) \/ Execute(a) \/ Finalize(a)
         \/ att'[a].pc = "dead"
<1>1. ASSUME NEW b \in Attempts, b # a,
             (\E s \in Stages : Begin(b, s)) \/ Timeout(b) \/ Setup(b) \/ Execute(b) \/ Finalize(b)
      PROVE  att'[a] = att[a]
  BY <1>1, BeginShape, TimeoutShape, SetupShape, ExecuteShape, FinalizeShape DEF Goes, Ends, Others
<1>2. ASSUME NEW b \in Attempts, Trains(b) \/ Exits(b)
      PROVE  att' = att
  BY <1>2 DEF Trains, Exits
<1>3. CASE Starting \/ MarkInProgressTasksAsFailed \/ CreateTask \/ Grow \/ runDiskCleanup \/ removeAllZipFiles
           \/ UNCHANGED vars
  <2>1. att' = att
    BY <1>3 DEF Starting, taskVars, cleanup, MarkInProgressTasksAsFailed, CreateTask, Grow, runDiskCleanup,
                removeAllZipFiles, cleanupVars, vars
  <2> QED
    BY <2>1
<1>4. CASE Stops
  <2>1. Over("dead").pc = "dead"
    BY DEF Over, Idle
  <2> QED
    BY <1>4, <2>1 DEF Stops
<1> QED
  BY <1>1, <1>2, <1>3, <1>4 DEF Next

(* A row is written only by SaveRow, which is what leads to "deliver".     *)
LEMMA RowStep ==
  ASSUME Typed, BuiltInv, [Next]_vars
  PROVE  /\ row' = row \/ \E a \in Attempts : SaveRow(a)
         /\ \A a \in Attempts : att'[a].pc = "deliver" => att[a].pc = "deliver" \/ SaveRow(a)
<1>1. ASSUME NEW a \in Attempts, Finalize(a)
      PROVE  /\ row' = row \/ SaveRow(a)
             /\ att'[a].pc = "deliver" => SaveRow(a)
  <2>1. ASSUME NEW pc \in FinalizePc \ {"deliver"}, Goto(a, pc)
        PROVE  att'[a].pc # "deliver"
    BY <2>1, GotoTyped DEF Typed
  <2>2. ASSUME NEW pc \in {"done", "torn"}, Fail(a, pc)
        PROVE  att'[a].pc # "deliver"
    <3>1. Ends(a)
      BY <2>2, <1>1, FinalizeShape, FailEnds DEF EndPc, Goes, Ends
    <3> QED
      BY <3>1 DEF Ends, EndPc
  <2>3. ASSUME Succeed(a)
        PROVE  att'[a].pc # "deliver"
    <3>1. Ends(a)
      BY <2>3, <1>1, FinalizeShape, SucceedEnds DEF Goes, Ends
    <3> QED
      BY <3>1 DEF Ends, EndPc
  <2>4. "encrypt" \in FinalizePc \ {"deliver"} /\ "sign" \in FinalizePc \ {"deliver"}
        /\ "upload" \in FinalizePc \ {"deliver"} /\ "save" \in FinalizePc \ {"deliver"}
    BY DEF FinalizePc
  <2>5. SaveRow(a) \/ \/ \E pc \in FinalizePc \ {"deliver"} : Goto(a, pc)
                      \/ Fail(a, "done") \/ Fail(a, "torn") \/ Succeed(a)
    BY <1>1, <2>4 DEF Finalize, Zip, ZipFails, AesEncryptLargeFile, EncryptFails, WriteToFileHead, Upload,
                      UploadFails, AddDeliverable
  <2>6. row' = row \/ SaveRow(a)
    BY <1>1 DEF Finalize, Zip, ZipFails, AesEncryptLargeFile, EncryptFails, WriteToFileHead, Upload,
                UploadFails,
                AddDeliverable
  <2> QED
    BY <2>1, <2>2, <2>3, <2>5, <2>6
<1>2. ASSUME NEW a \in Attempts, Setup(a) \/ Execute(a)
      PROVE  row' = row /\ att'[a].pc # "deliver"
  <2>1. att'[a].pc \in EndPc \/ att'[a].stage # "finalize"
    BY <1>2, SetupShape, ExecuteShape DEF Goes, Ends
  <2>2. FitsAt(a)'
    BY TypesStep DEF Typed, Fits
  <2> QED
    BY <1>2, <2>1, <2>2, SetupShape, ExecuteShape DEF FitsAt, FinalizePc, EndPc
<1>3. ASSUME NEW a \in Attempts, (\E s \in Stages : Begin(a, s)) \/ Timeout(a)
      PROVE  row' = row /\ (att'[a].pc = "deliver" => att[a].pc = "deliver")
  BY <1>3, BeginShape, TimeoutShape
<1>4. ASSUME ~ \E a \in Attempts : Finalize(a)
      PROVE  row' = row
  <2>1. CASE Starting \/ MarkInProgressTasksAsFailed \/ Stops \/ CreateTask \/ Grow \/ runDiskCleanup
             \/ removeAllZipFiles \/ UNCHANGED vars
    BY <2>1 DEF Starting, taskVars, cleanup, MarkInProgressTasksAsFailed, Stops, CreateTask, Grow,
                runDiskCleanup,
                removeAllZipFiles, cleanupVars, vars
  <2>2. ASSUME NEW a \in Attempts, Trains(a) \/ Exits(a)
        PROVE  row' = row
    BY <2>2 DEF Trains, Exits
  <2> QED
    BY <1>2, <1>3, <1>4, <2>1, <2>2 DEF Next
<1> QED
  BY <1>1, <1>2, <1>3, <1>4, AttemptStep

(* Where a step of the executor leads.                                     *)
LEMMA ExecuteAt ==
  ASSUME Typed, NEW a \in Attempts, Execute(a)
  PROVE  att'[a].pc \in ExecutePc \cup {"done"}
<1>1. ASSUME NEW pc \in {"create", "wait", "logs"}, Goto(a, pc)
      PROVE  att'[a].pc = pc /\ pc \in ExecutePc
  <2>1. pc \in ExecutePc
    BY DEF ExecutePc
  <2> QED
    BY <1>1, <2>1, GotoTyped DEF Typed
<1>2. ASSUME Fail(a, "done") \/ Succeed(a)
      PROVE  att'[a].pc = "done"
  <2>1. att' = [att EXCEPT ![a] = Over("done")] /\ Over("done").pc = "done"
    BY <1>2 DEF Fail, Succeed, Over, Idle
  <2> QED
    BY <2>1 DEF Typed, Types
<1>3. \/ Goto(a, "create") \/ Goto(a, "wait") \/ Goto(a, "logs") \/ Fail(a, "done") \/ Succeed(a)
  BY DEF Execute, Pull, StartContainer, WaitForContainer, FetchLogs, ExecuteFails
<1> QED
  BY <1>1, <1>2, <1>3

(* Every step keeps WorkInv.                                               *)
LEMMA WorkStep ==
  ASSUME Typed, BuiltInv, RunInv, WorkInv, [Next]_vars
  PROVE  WorkInv'
<1>1. ASSUME NEW a \in Attempts, ctr'[a] # None
      PROVE  progress' \in Trainable
  <2>1. progress \in Trainable
    BY <1>1, ContainerStep DEF WorkInv, Trainable
  <2> QED
    BY <2>1, ProgressStep
<1>2. ASSUME NEW a \in Attempts, Trained(a)'
      PROVE  progress' \in LateProgress
  BY <1>2, ContainerStep, ProgressStep DEF WorkInv, LateProgress
<1>3. ASSUME NEW a \in Attempts, Running(a)', att'[a].stage = "finalize"
      PROVE  progress' \in LateProgress
  <2>1. CASE Running(a) /\ att[a].stage = "finalize"
    BY <2>1, ProgressStep DEF WorkInv
  <2>2. CASE att'[a] = att[a]
    BY <1>3, <2>1, <2>2 DEF Running
  <2>3. ASSUME NEW s \in Stages, Begin(a, s)
        PROVE  progress' \in LateProgress
    <3>1. s = "finalize"
      BY <1>3, <2>3, BeginShape
    <3> QED
      BY <2>3, <3>1, BeginShape, ProgressIs DEF LateProgress
  <2>4. CASE Timeout(a) \/ Setup(a) \/ Execute(a) \/ Finalize(a)
    BY <1>3, <2>1, <2>4, TimeoutShape, SetupShape, ExecuteShape, FinalizeShape DEF Goes, Ends, Running, EndPc
  <2>5. att'[a].pc # "dead"
    BY <1>3 DEF Running
  <2> QED
    BY <2>2, <2>3, <2>4, <2>5, AttemptStep
<1>4. ASSUME NEW a \in Attempts, SaveRow(a)
      PROVE  row' = a /\ progress \in LateProgress
  BY <1>4 DEF SaveRow, At, WorkInv, Running
<1>5. row' \in Attempts => progress' \in LateProgress
  BY <1>4, RowStep, ProgressStep DEF WorkInv
<1>6. row \in Attempts => row' \in Attempts
  BY <1>4, RowStep
<1>7. ASSUME progress' = "Delivered"
      PROVE  row' \in Attempts
  <2>1. CASE progress = "Delivered"
    BY <1>6, <2>1 DEF WorkInv
  <2>2. ASSUME progress # "Delivered", NEW a \in Attempts, Finalize(a)
        PROVE  att[a].pc = "deliver"
    <3>1. att[a].stage = "finalize" /\ (Goes(a) \/ Ends(a))
      BY <2>2, FinalizeShape
    <3>2. progress' # progress /\ progress = "Delivering"
      BY <1>7, <2>2, <3>1, ProgressOfAttempt
    <3>3. ASSUME NEW pc, Fail(a, pc) \/ Goto(a, pc)
          PROVE  FALSE
      BY <3>1, <3>2, <3>3, <1>7, ProgressIs DEF Fail, Failure, Goto
    <3>4. AddDeliverable(a)
      BY <2>2, <3>3 DEF Finalize, Zip, ZipFails, AesEncryptLargeFile, EncryptFails, WriteToFileHead, Upload,
                        UploadFails, SaveRow
    <3> QED
      BY <3>4 DEF AddDeliverable, At
  <2> QED
    BY <1>6, <1>7, <2>1, <2>2, ProgressStep DEF WorkInv
<1>8. ASSUME NEW a \in Attempts, att'[a].pc = "deliver"
      PROVE  row' \in Attempts
  BY <1>4, <1>6, <1>8, RowStep DEF WorkInv
<1>9. ASSUME NEW a \in Attempts, ctr'[a] # None
      PROVE  att'[a].pc \in ExecutePc \cup {"done", "dead"}
  <2>1. ASSUME Execute(a)
        PROVE  att'[a].pc \in ExecutePc \cup {"done"}
    BY <2>1, ExecuteAt
  <2>2. ASSUME ~ Execute(a)
        PROVE  att[a].pc \in ExecutePc \cup {"done", "dead"}
    BY <1>9, <2>2, ContainerStep DEF WorkInv, Execute
  <2>3. ASSUME Setup(a) \/ Finalize(a)
        PROVE  att[a].pc \notin ExecutePc \cup {"done", "dead"}
    BY <2>3, SetupShape, FinalizeShape DEF SetupPc, FinalizePc, ExecutePc
  <2>4. ASSUME NEW s \in Stages, Begin(a, s)
        PROVE  att[a].pc \notin ExecutePc \cup {"done", "dead"}
    BY <2>4, BeginShape DEF Idle, ExecutePc
  <2>5. ASSUME Timeout(a)
        PROVE  att'[a].pc = att[a].pc
    BY <2>5, TimeoutShape
  <2> QED
    BY <2>1, <2>2, <2>3, <2>4, <2>5, AttemptStep
<1> QED
  BY <1>1, <1>2, <1>3, <1>5, <1>7, <1>8, <1>9 DEF WorkInv

(* Before the first start there is no work at all.                         *)
LEMMA WorkInit ==
  ASSUME Init
  PROVE  WorkInv
<1>1. progress = None /\ row = None /\ \A a \in Attempts : ctr[a] = None /\ att[a].pc = "idle"
  BY DEF Init, Idle
<1>2. progress # "Delivered"
  BY <1>1, TaskFilesAssumption, ProgressIs
<1> QED
  BY <1>1, <1>2, TaskFilesAssumption DEF WorkInv, Trained, Running

------------------------------------------------------------------------------
(* The inputs of a training, if no setup was left behind and the disk has  *)
(* not been cleaned.                                                       *)

Undisturbed == ~ SetupLeft /\ ~ swept

Has(f) == Archive(f) \subseteq InDir(f)

(* What setup has achieved where it is.  An archive of the model that      *)
(* unpacks over the dataset takes the dataset with it when it is moved:    *)
(* then there is none, and the attempt cannot pass.                        *)
SetupInv(a) ==
  LET f == att[a].on
      d == given[f] IN
  /\ att[a].pc = "unzip" => << f, 0, 1 >> \in InDir(d)
  /\ att[a].pc \in {"remove", "rename"} => d # f /\ Archive(f) \subseteq InDir(d)
  /\ att[a].pc \notin {"mkdir", "verify"} /\ f = "model" => Has("data")
  /\ att[a].pc \in {"mkdir", "verify"} => Has("model") /\ (dir["data"] # None => Has("data"))

InputInv ==
  Undisturbed =>
    /\ \A a \in Attempts : Running(a) /\ att[a].stage = "setup" => SetupInv(a)
    /\ progress \in {"SetUp", "Training"} => Has("data") /\ Has("model")

(* Once disturbed, always.                                                 *)
LEMMA UndisturbedBefore ==
  ASSUME Typed, RunInv, [Next]_vars, Undisturbed'
  PROVE  Undisturbed
<1>1. swept => swept'
  <2>1. CASE Starting \/ MarkInProgressTasksAsFailed \/ Stops \/ CreateTask \/ Grow \/ runDiskCleanup
             \/ removeAllZipFiles \/ UNCHANGED vars
    BY <2>1 DEF Starting, taskVars, cleanup, MarkInProgressTasksAsFailed, Stops, CreateTask, Grow,
                runDiskCleanup,
                removeAllZipFiles, cleanupVars, vars
  <2>2. ASSUME NEW a \in Attempts, (\E s \in Stages : Begin(a, s)) \/ Timeout(a) \/ Setup(a) \/ Execute(a)
                                     \/ Finalize(a)
        PROVE  swept' = swept
    BY <2>2, BeginShape, TimeoutShape, SetupShape, ExecuteShape, FinalizeShape
  <2>3. ASSUME NEW a \in Attempts, Trains(a) \/ Exits(a)
        PROVE  swept' = swept
    BY <2>3 DEF Trains, Exits, otherVars, cleanup
  <2> QED
    BY <2>1, <2>2, <2>3 DEF Next
<1> QED
  BY <1>1, RunStep DEF Undisturbed

(* Writing to a directory, or removing one.                                *)
LEMMA InDirSet ==
  ASSUME Types, NEW d \in Dirs, NEW S \in SUBSET Files, DirsSet(d, S)
  PROVE  /\ InDir(d)' = S /\ dir'[d] = S
         /\ \A e \in Dirs \ {d} : dir'[e] = dir[e] /\ InDir(e)' = InDir(e)
BY TaskFilesAssumption DEF Types, DirsSet, InDir

(* Removing a directory leaves the others alone.                           *)
LEMMA InDirRemove ==
  ASSUME Types, NEW d \in Dirs, DirsSet(d, None)
  PROVE  /\ dir'[d] = None
         /\ \A e \in Dirs \ {d} : dir'[e] = dir[e] /\ InDir(e)' = InDir(e)
BY DEF Types, DirsSet, InDir

(* Renaming moves what a directory holds and leaves the others alone.      *)
LEMMA InDirMove ==
  ASSUME Types, NEW d \in Dirs, NEW f \in Dirs, d # f, dir' = [dir EXCEPT ![f] = dir[d], ![d] = None]
  PROVE  /\ InDir(f)' = InDir(d) /\ dir'[d] = None
         /\ \A e \in Dirs \ {d, f} : dir'[e] = dir[e] /\ InDir(e)' = InDir(e)
BY DEF Types, InDir

(* Nothing but setup, the containers and the cleanup changes directories,  *)
(* and containers only one of them, in which they touch nothing that came  *)
(* with an archive.                                                        *)
ArchiveFiles == UNION {Archive(f) : f \in Inputs}

DirGrows ==
  \A d \in Dirs : InDir(d) \cap ArchiveFiles \subseteq InDir(d)' /\ (d # "output" => dir'[d] = dir[d])

(* What a container does to the output directory.                          *)
LEMMA TrainsWrites ==
  ASSUME Typed, NEW a \in Attempts, Trains(a)
  PROVE  LET i == ctr[a].written + 1 IN
         /\ InDir("output")' = (InDir("output") \ SameName(i)) \cup {<< "output", a, i >>}
         /\ \A e \in Dirs \ {"output"} : dir'[e] = dir[e] /\ InDir(e)' = InDir(e)
<1>1. PICK i : i = ctr[a].written + 1
  OBVIOUS
<1>2. PICK S : S = (InDir("output") \ SameName(i)) \cup {<< "output", a, i >>}
  OBVIOUS
<1>3. DirsSet("output", S) /\ << "output", a, i >> \in Files
  BY <1>1, <1>2, WritesFile DEF Trains
<1>4. "output" \in Dirs /\ Types
  BY DEF Dirs, Typed
<1>5. S \in SUBSET Files
  BY <1>2, <1>3, <1>4, InDirType
<1>6. InDir("output")' = S /\ \A e \in Dirs \ {"output"} : dir'[e] = dir[e] /\ InDir(e)' = InDir(e)
  BY <1>3, <1>4, <1>5, InDirSet
<1> QED
  BY <1>1, <1>2, <1>6

(* Unless the cleanup ran, only a setup takes anything of an archive from  *)
(* a directory, and only a container anything else.                        *)
LEMMA DirStep ==
  ASSUME Typed, [Next]_vars, ~ swept'
  PROVE  \/ \E a \in Attempts : Setup(a)
         \/ DirGrows /\ (dir' = dir \/ \E a \in Attempts : Trains(a))
<1> DEFINE Grown == DirGrows /\ (dir' = dir \/ \E a \in Attempts : Trains(a))
<1>1. ASSUME dir' = dir
      PROVE  Grown
  BY <1>1 DEF DirGrows, InDir
<1>2. ASSUME \/ Starting \/ MarkInProgressTasksAsFailed \/ Stops \/ CreateTask
             \/ Grow \/ runDiskCleanup \/ removeAllZipFiles \/ UNCHANGED vars
      PROVE  Grown
  <2>1. dir' = dir
    BY <1>2 DEF Starting, taskVars, cleanup, MarkInProgressTasksAsFailed, Stops, CreateTask, Grow,
                runDiskCleanup,
                removeAllZipFiles, cleanupVars, vars, files
  <2> QED
    BY <1>1, <2>1
<1>3. ASSUME NEW a \in Attempts, (\E s \in Stages : Begin(a, s)) \/ Timeout(a) \/ Execute(a) \/ Finalize(a)
      PROVE  Grown
  BY <1>1, <1>3, BeginShape, TimeoutShape, ExecuteShape, FinalizeShape
<1>4. ASSUME NEW a \in Attempts, Exits(a)
      PROVE  Grown
  BY <1>1, <1>4 DEF Exits, files
<1>5. ASSUME NEW a \in Attempts, Trains(a)
      PROVE  Grown
  <2>1. PICK i : i = ctr[a].written + 1
    OBVIOUS
  <2>2. /\ InDir("output")' = (InDir("output") \ SameName(i)) \cup {<< "output", a, i >>}
        /\ \A e \in Dirs \ {"output"} : dir'[e] = dir[e] /\ InDir(e)' = InDir(e)
    BY <1>5, <2>1, TrainsWrites
  <2>3. ASSUME NEW x \in ArchiveFiles
        PROVE  x \notin SameName(i)
    <3>1. PICK f \in Inputs : x = << f, 0, 1 >> \/ x = << f, 0, 2 >>
      BY DEF ArchiveFiles, Archive
    <3> QED
      BY <3>1 DEF Inputs, SameName
  <2>4. InDir("output") \cap ArchiveFiles \subseteq InDir("output")'
    BY <2>2, <2>3
  <2>5. DirGrows
    BY <2>2, <2>4 DEF DirGrows
  <2> QED
    BY <1>5, <2>5
<1> HIDE DEF Grown
<1>6. Grown \/ \E a \in Attempts : Setup(a)
  BY <1>2, <1>3, <1>4, <1>5 DEF Next
<1> QED
  BY <1>6 DEF Grown

(* More in the directories is as good for a setup.                         *)
LEMMA SetupInvGrows ==
  ASSUME Typed, NEW a \in Attempts, DirGrows, SetupInv(a), given' = given,
         att'[a].pc = att[a].pc /\ att'[a].on = att[a].on,
         att[a].pc \in SetupPc
  PROVE  SetupInv(a)'
<1> DEFINE f == att[a].on
           d == given[f]
<1>1. /\ InDir("data") \cap ArchiveFiles \subseteq InDir("data")'
      /\ InDir("model") \cap ArchiveFiles \subseteq InDir("model")'
      /\ dir'["data"] = dir["data"]
      /\ Archive("data") \subseteq ArchiveFiles /\ Archive("model") \subseteq ArchiveFiles
  BY DEF DirGrows, Dirs, Inputs, ArchiveFiles
<1>2. att[a].pc \in {"unzip", "remove", "rename"} =>
        InDir(d) \cap ArchiveFiles \subseteq InDir(d)' /\ Archive(f) \subseteq ArchiveFiles
  <2>1. att[a].pc \in {"unzip", "remove", "rename"} => f \in Inputs
    BY DEF Typed, Fits, FitsAt, SetupPc
  <2>2. f \in Inputs => Archive(f) \subseteq ArchiveFiles
    BY DEF ArchiveFiles
  <2> QED
    BY <2>1, <2>2, TopIsDir DEF DirGrows, Typed
<1>3. Archive(f)' = Archive(f) /\ given'[att'[a].on] = d /\ att'[a].on = f
  BY DEF Archive
<1>4. \A g : Has(g)' <=> Archive(g) \subseteq InDir(g)'
  BY DEF Has, Archive
<1>5. Archive(f) \subseteq InDir(d) /\ att[a].pc \in {"unzip", "remove", "rename"} => Archive(f) \subseteq InDir(d)'
  BY <1>2
<1>6. << f, 0, 1 >> \in Archive(f)
  BY DEF Archive
<1>7. << f, 0, 1 >> \in InDir(d) /\ att[a].pc = "unzip" => << f, 0, 1 >> \in InDir(d)'
  BY <1>2, <1>6
<1> QED
  BY <1>1, <1>3, <1>4, <1>5, <1>7 DEF SetupInv, Has

(* Setup, step by step.                                                    *)
LEMMA SetupMakes ==
  ASSUME Typed, NEW a \in Attempts, Setup(a), SetupInv(a)
  PROVE  /\ Goes(a) => SetupInv(a)'
         /\ progress' = progress \/ progress' # "SetUp" \/ (Has("data")' /\ Has("model")')
<1> USE DEF At
<1>1. Types /\ att[a] \in AttemptType /\ att \in [Attempts -> AttemptType] /\ given' = given
  BY SetupShape DEF Typed, Types
<1>2. /\ "data" \in Dirs /\ "model" \in Dirs /\ "output" \in Dirs
      /\ "data" # "model" /\ "output" # "data" /\ "output" # "model"
  BY DEF Dirs, Inputs
<1> PICK f : f = att[a].on
  OBVIOUS
<1> PICK d : d = given[f]
  OBVIOUS
<1> PICK pc : pc = att[a].pc
  OBVIOUS
<1>3. pc \in {"fetch", "open", "unzip", "remove", "rename"} =>
        /\ f \in {"data", "model"} /\ f \in Dirs /\ d \in Dirs /\ Archive(f) \subseteq Files
        /\ InDir(d) \subseteq Files
  <2>1. pc \in {"fetch", "open", "unzip", "remove", "rename"} => f \in Inputs
    BY DEF Typed, Fits, FitsAt, SetupPc
  <2> QED
    BY <2>1, <1>1, TopIsDir, InDirType DEF Inputs
<1>4. /\ pc = "unzip" => << f, 0, 1 >> \in InDir(d)
      /\ pc \in {"remove", "rename"} => d # f /\ Archive(f) \subseteq InDir(d)
      /\ pc \notin {"mkdir", "verify"} /\ f = "model" => Archive("data") \subseteq InDir("data")
      /\ pc \in {"mkdir", "verify"} =>
           Archive("model") \subseteq InDir("model") /\ (dir["data"] # None => Archive("data") \subseteq InDir("data"))
  BY DEF SetupInv, Has
<1>5. \A g : Archive(g) = {<< g, 0, 1 >>, << g, 0, 2 >>}
  BY DEF Archive
<1>6. \A g : Has(g)' <=> Archive(g) \subseteq InDir(g)'
  BY DEF Has, Archive
<1> DEFINE Sound(p, g, e) ==
      /\ p = "unzip" => << g, 0, 1 >> \in InDir(e)'
      /\ p \in {"remove", "rename"} => e # g /\ Archive(g) \subseteq InDir(e)'
      /\ p \notin {"mkdir", "verify"} /\ g = "model" => Archive("data") \subseteq InDir("data")'
      /\ p \in {"mkdir", "verify"} =>
           Archive("model") \subseteq InDir("model")' /\ (dir'["data"] # None => Archive("data") \subseteq InDir("data")')
<1>7. ASSUME NEW p, NEW g, NEW e, att'[a].pc = p, att'[a].on = g,
             p \in {"unzip", "remove", "rename"} => e = given[g], Sound(p, g, e)
      PROVE  SetupInv(a)'
  <2>1. given'[g] = given[g] /\ Archive(g)' = Archive(g)
    BY <1>1 DEF Archive
  <2> QED
    BY <1>6, <1>7, <2>1 DEF SetupInv
<1>8. ASSUME NEW p \in SetupPc, Goto(a, p)
      PROVE  att'[a].pc = p /\ att'[a].on = f /\ progress' = progress
  BY <1>1, <1>8, GotoTyped DEF Goto
<1>9. ASSUME Next_(a), f \in {"data", "model"}
      PROVE  IF f = "data" THEN att'[a].pc = "fetch" /\ att'[a].on = "model" ELSE att'[a].pc = "mkdir"
  BY <1>1, <1>9 DEF Next_, AttemptType
<1>10. ASSUME ~ Goes(a), progress' = progress \/ progress' # "SetUp"
       PROVE  /\ Goes(a) => SetupInv(a)'
              /\ progress' = progress \/ progress' # "SetUp" \/ (Has("data")' /\ Has("model")')
  BY <1>10
<1>11. ASSUME NEW q \in EndPc, Fail(a, q)
       PROVE  ~ Goes(a) /\ (progress' = progress \/ progress' # "SetUp")
  <2>1. Ends(a)
    BY <1>11, FailEnds, SetupShape DEF Goes, Ends
  <2>2. progress' = progress \/ progress' \in {From("setup"), "Failed"}
    BY <1>11, SetupShape DEF Fail, Failure
  <2> QED
    BY <2>1, <2>2, ProgressIs DEF Goes, Ends
<1>12. CASE DownloadFails(a) \/ SetupFails(a)
  <2>1. "done" \in EndPc
    BY DEF EndPc
  <2> QED
    BY <2>1, <1>10, <1>11, <1>12 DEF DownloadFails, SetupFails
<1>13. CASE RejectSignature(a)
  <2>1. att' = [att EXCEPT ![a] = Over("done")] /\ progress' = "Failed"
    BY <1>13 DEF RejectSignature
  <2>2. Over("done").pc = "done"
    BY DEF Over, Idle
  <2>3. att'[a].pc = "done"
    BY <1>1, <2>1, <2>2
  <2>4. ~ Goes(a)
    BY <2>3 DEF Goes, EndPc
  <2> QED
    BY <2>1, <2>4, <1>10
<1>14. CASE Verify(a)
  <2>1. att' = [att EXCEPT ![a] = Over("done")] /\ dir' = dir /\ dir["data"] # None /\ pc = "verify"
    BY <1>14 DEF Verify, Succeed, files, Inputs
  <2>2. Over("done").pc = "done"
    BY DEF Over, Idle
  <2>3. ~ Goes(a)
    BY <1>1, <2>1, <2>2 DEF Goes, EndPc
  <2>4. Has("data")' /\ Has("model")'
    BY <2>1, <1>4, <1>6 DEF InDir
  <2> QED
    BY <2>3, <2>4
<1> HIDE DEF At
<1>15. CASE Download(a)
  <2>1. pc = "fetch" /\ dir' = dir /\ Goto(a, "open") /\ "open" \in SetupPc
    BY <1>15 DEF Download, At, SetupPc
  <2>2. \A e : InDir(e)' = InDir(e)
    BY <2>1 DEF InDir
  <2>3. Sound("open", f, d)
    BY <2>1, <2>2, <1>4
  <2> HIDE DEF Sound
  <2> QED
    BY <2>1, <2>3, <1>7, <1>8
<1>16. CASE MkOutput(a)
  <2>1. pc = "mkdir" /\ DirsSet("output", InDir("output")) /\ Goto(a, "verify") /\ "verify" \in SetupPc
    BY <1>16 DEF MkOutput, At, SetupPc
  <2>2. /\ InDir("data")' = InDir("data") /\ InDir("model")' = InDir("model") /\ dir'["data"] = dir["data"]
    BY <2>1, <1>1, <1>2, InDirType, InDirSet
  <2>3. Sound("verify", f, d)
    BY <2>1, <2>2, <1>4
  <2> HIDE DEF Sound
  <2> QED
    BY <2>1, <2>3, <1>7, <1>8
<1>17. CASE RemoveDir(a)
  <2>1. pc = "remove" /\ DirsSet(f, None) /\ Goto(a, "rename") /\ "rename" \in SetupPc
    BY <1>17 DEF RemoveDir, At, SetupPc
  <2>2. \A e \in Dirs \ {f} : InDir(e)' = InDir(e)
    BY <2>1, <1>1, <1>3, InDirRemove
  <2>3. Sound("rename", f, d)
    BY <2>1, <2>2, <1>2, <1>3, <1>4
  <2> HIDE DEF Sound
  <2> QED
    BY <2>1, <2>3, <1>7, <1>8
<1>18. CASE RenameDir(a)
  <2>1. pc = "rename" /\ dir' = [dir EXCEPT ![f] = dir[d], ![d] = None] /\ Next_(a) /\ progress' = progress
    BY <1>18 DEF RenameDir, At
  <2>2. d # f /\ f \in Dirs /\ d \in Dirs /\ f \in {"data", "model"}
    BY <2>1, <1>3, <1>4
  <2>3. /\ InDir(f)' = InDir(d) /\ dir'[d] = None
        /\ \A e \in Dirs \ {d, f} : dir'[e] = dir[e] /\ InDir(e)' = InDir(e)
    BY <2>1, <2>2, <1>1, InDirMove
  <2>4. Archive(f) \subseteq InDir(f)'
    BY <2>1, <2>3, <1>4
  <2>5. CASE f = "data"
    <3>1. Sound("fetch", "model", d)
      BY <2>4, <2>5
    <3> HIDE DEF Sound
    <3> QED
      BY <3>1, <2>1, <2>5, <1>7, <1>9
  <2>6. CASE f = "model"
    <3>1. dir'["data"] # None => Archive("data") \subseteq InDir("data")'
      BY <2>1, <2>2, <2>3, <2>6, <1>2, <1>4
    <3>2. \A g : Sound("mkdir", g, d)
      BY <3>1, <2>4, <2>6
    <3>3. att'[a].pc = "mkdir"
      BY <2>1, <2>6, <1>9
    <3> HIDE DEF Sound
    <3> QED
      BY <3>2, <3>3, <2>1, <1>7
  <2> QED
    BY <2>2, <2>5, <2>6
<1>19. CASE Unzip(a)
  <2>1. f \in {"data", "model"} /\ f \in Dirs /\ d \in Dirs /\ Archive(f) \subseteq Files /\ InDir(d) \subseteq Files
        /\ pc \in {"open", "unzip"}
    BY <1>3, <1>19 DEF Unzip, At
  <2>2. PICK k \in {1, 2} :
          /\ DirsSet(d, InDir(d) \cup {<< f, 0, k >>})
          /\ \/ k = 1 /\ pc = "open" /\ Goto(a, "unzip")
             \/ k = 2 /\ pc = "unzip" /\ d # f /\ Goto(a, "remove")
             \/ k = 2 /\ pc = "unzip" /\ d = f /\ Next_(a) /\ progress' = progress
    BY <1>19 DEF Unzip, At
  <2>3. InDir(d) \cup {<< f, 0, k >>} \in SUBSET Files
    BY <2>1, <1>5
  <2>4. /\ InDir(d)' = InDir(d) \cup {<< f, 0, k >>}
        /\ \A e \in Dirs \ {d} : dir'[e] = dir[e] /\ InDir(e)' = InDir(e)
    BY <2>1, <2>2, <2>3, <1>1, InDirSet
  <2>5. f = "model" => Archive("data") \subseteq InDir("data")'
    BY <2>1, <2>4, <1>2, <1>4
  <2>6. k = 2 => Archive(f) \subseteq InDir(d)'
    BY <2>2, <2>4, <1>4, <1>5
  <2>7. "unzip" \in SetupPc /\ "remove" \in SetupPc
    BY DEF SetupPc
  <2>8. CASE k = 1 /\ Goto(a, "unzip")
    <3>1. Sound("unzip", f, d)
      BY <2>4, <2>5, <2>8
    <3> HIDE DEF Sound
    <3> QED
      BY <3>1, <2>7, <2>8, <1>7, <1>8
  <2>9. CASE k = 2 /\ d # f /\ Goto(a, "remove")
    <3>1. Sound("remove", f, d)
      BY <2>5, <2>6, <2>9
    <3> HIDE DEF Sound
    <3> QED
      BY <3>1, <2>7, <2>9, <1>7, <1>8
  <2>10. CASE k = 2 /\ d = f /\ Next_(a) /\ progress' = progress
    <3>1. CASE f = "data"
      <4>1. Sound("fetch", "model", d)
        BY <2>6, <2>10, <3>1
      <4> HIDE DEF Sound
      <4> QED
        BY <4>1, <2>10, <3>1, <1>7, <1>9
    <3>2. CASE f = "model"
      <4>1. \A g : Sound("mkdir", g, d)
        BY <2>5, <2>6, <2>10, <3>2
      <4>2. att'[a].pc = "mkdir"
        BY <2>10, <3>2, <1>9
      <4> HIDE DEF Sound
      <4> QED
        BY <4>1, <4>2, <2>10, <1>7
    <3> QED
      BY <2>1, <3>1, <3>2
  <2> QED
    BY <2>2, <2>8, <2>9, <2>10
<1> QED
  BY <1>12, <1>13, <1>14, <1>15, <1>16, <1>17, <1>18, <1>19 DEF Setup

(* What a task comes with stays as it is.                                  *)
LEMMA GivenStays ==
  ASSUME Typed, [Next]_vars
  PROVE  given' = given
<1>1. CASE Starting \/ MarkInProgressTasksAsFailed \/ Stops \/ CreateTask \/ Grow \/ runDiskCleanup
           \/ removeAllZipFiles \/ UNCHANGED vars
  BY <1>1 DEF Starting, taskVars, cleanup, MarkInProgressTasksAsFailed, Stops, CreateTask, Grow, runDiskCleanup,
              removeAllZipFiles, cleanupVars, vars
<1>2. ASSUME NEW a \in Attempts, (\E s \in Stages : Begin(a, s)) \/ Timeout(a) \/ Setup(a) \/ Execute(a)
                                   \/ Finalize(a)
      PROVE  given' = given
  BY <1>2, BeginShape, TimeoutShape, SetupShape, ExecuteShape, FinalizeShape
<1>3. ASSUME NEW a \in Attempts, Trains(a) \/ Exits(a)
      PROVE  given' = given
  BY <1>3 DEF Trains, Exits, otherVars, cleanup
<1> QED
  BY <1>1, <1>2, <1>3 DEF Next

(* Every step keeps InputInv.                                              *)
LEMMA InputStep ==
  ASSUME Typed, BuiltInv, RunInv, InputInv, [Next]_vars
  PROVE  InputInv'
<1> SUFFICES ASSUME Undisturbed'
             PROVE  /\ \A a \in Attempts : (Running(a) /\ att[a].stage = "setup")' => SetupInv(a)'
                    /\ progress' \in {"SetUp", "Training"} => Has("data")' /\ Has("model")'
  BY DEF InputInv
<1>1. Undisturbed /\ ~ swept' /\ ~ SetupLeft'
  BY UndisturbedBefore DEF Undisturbed
<1>2. ASSUME NEW a \in Attempts, Running(a), att[a].stage = "setup"
      PROVE  WaitedFor(a) /\ progress = "SettingUp" /\ SetupInv(a)
  BY <1>1, <1>2, ProgressIs DEF RunInv, InputInv, WaitedFor, Undisturbed
<1>3. CASE \E a \in Attempts : Setup(a)
  <2>1. PICK a \in Attempts : Setup(a)
    BY <1>3
  <2>3. SetupInv(a) /\ progress = "SettingUp"
    BY <2>1, <1>2, SetupShape DEF Goes, Ends
  <2>4. /\ Goes(a) => SetupInv(a)'
        /\ progress' = progress \/ progress' # "SetUp" \/ (Has("data")' /\ Has("model")')
    BY <2>1, <2>3, SetupMakes
  <2>5. progress' \in {"SetUp", "Training"} => Has("data")' /\ Has("model")'
    BY <2>1, <2>3, <2>4, SetupShape, ProgressOfAttempt
  <2>6. ASSUME NEW b \in Attempts, Running(b)', att'[b].stage = "setup"
        PROVE  SetupInv(b)'
    <3>1. CASE b = a
      BY <2>1, <2>4, <2>6, <3>1, SetupShape DEF Ends, Running, EndPc
    <3>2. CASE b # a
      <4>1. att'[b] = att[b]
        BY <2>1, <3>2, SetupShape DEF Goes, Ends, Others
      <4>2. Running(b) /\ att[b].stage = "setup" /\ Running(a)
        BY <2>1, <2>6, <4>1, SetupShape DEF Goes, Ends, Running
      <4>3. WaitedFor(b) /\ WaitedFor(a)
        BY <2>1, <4>2, <1>2, SetupShape
      <4> QED
        BY <3>2, <4>3 DEF RunInv
    <3> QED
      BY <3>1, <3>2
  <2> QED
    BY <2>5, <2>6
<1>4. CASE ~ \E a \in Attempts : Setup(a)
  <2>1. DirGrows
    BY <1>1, <1>4, DirStep
  <2>2. progress' \in {"SetUp", "Training"} => Has("data")' /\ Has("model")'
    <3>1. /\ Has("data") => Has("data")'
          /\ Has("model") => Has("model")'
      BY <2>1 DEF DirGrows, Has, ArchiveFiles, Archive, Dirs, Inputs
    <3> QED
      BY <1>1, <1>4, <3>1, ProgressStep DEF InputInv
  <2>3. ASSUME NEW a \in Attempts, Running(a)', att'[a].stage = "setup"
        PROVE  SetupInv(a)'
    <3>1. CASE att'[a] = att[a]
      <4>1. Running(a) /\ att[a].stage = "setup"
        BY <2>3, <3>1 DEF Running
      <4>2. SetupInv(a) /\ att[a].pc \in SetupPc
        BY <4>1, <1>2, RunningStage DEF Typed, Fits, FitsAt
      <4>3. given' = given
        BY GivenStays
      <4> QED
        BY <2>1, <3>1, <4>2, <4>3, SetupInvGrows
    <3>2. ASSUME NEW s \in Stages, Begin(a, s)
          PROVE  SetupInv(a)'
      <4>1. att'[a].pc = "fetch" /\ att'[a].on = "data"
        BY <2>3, <3>2, BeginShape
      <4> QED
        BY <4>1 DEF SetupInv
    <3>3. CASE Timeout(a)
      <4>1. SetupLeft'
        BY <2>3, <3>3, TimeoutShape, TimeoutKeeps DEF RunInv
      <4> QED
        BY <4>1, <1>1
    <3>4. CASE Execute(a) \/ Finalize(a)
      BY <2>3, <3>4, ExecuteShape, FinalizeShape DEF Goes, Ends, Running, EndPc
    <3>5. CASE att'[a].pc = "dead"
      BY <2>3, <3>5 DEF Running
    <3> QED
      BY <1>4, <3>1, <3>2, <3>3, <3>4, <3>5, AttemptStep
  <2> QED
    BY <2>2, <2>3
<1> QED
  BY <1>3, <1>4

(* Before the first start there is no task whose inputs could be wrong.    *)
LEMMA InputInit ==
  ASSUME Init
  PROVE  InputInv
<1>1. progress = None /\ \A a \in Attempts : ~ Running(a)
  BY DEF Init, Idle, Running
<1>2. progress \notin {"SetUp", "Training"}
  BY <1>1, TaskFilesAssumption, ProgressIs
<1> QED
  BY <1>1, <1>2 DEF InputInv

(* A training starts on the whole dataset and the whole model and, of a    *)
(* predefined model where every start is to build it anew, on the image of *)
(* this start: for any directories archives bring along, and any number of *)
(* failed attempts.                                                        *)
THEOREM TrainsOnWholeInputs == Spec => TrainsOnItsInputs
<1> DEFINE I == Typed /\ BuiltInv /\ RunInv /\ InputInv
           A == \A a \in Attempts : ctr[a] = None /\ ctr'[a] # None =>
                  /\ given.kind = "predefined" /\ BuildImage /\ OverrideImage => image = starts
                  /\ ~ SetupLeft /\ ~ swept => \A f \in Inputs : Archive(f) \subseteq InDir(f)
<1>1. Init => I
  BY TypesInit, RunInit, InputInit
<1>2. I /\ [Next]_vars => I'
  BY TypesStep, RunStep, InputStep
<1>3. I /\ [Next]_vars => [A]_vars
  <2> SUFFICES ASSUME I, [Next]_vars, NEW a \in Attempts, ctr[a] = None, ctr'[a] # None
               PROVE  /\ given.kind = "predefined" /\ BuildImage /\ OverrideImage => image = starts
                      /\ ~ SetupLeft /\ ~ swept => \A f \in Inputs : Archive(f) \subseteq InDir(f)
    OBVIOUS
  <2>1. StartContainer(a) /\ progress = "Training"
    BY ContainerStep
  <2>2. Running(a)
    BY <2>1 DEF StartContainer, At, Running
  <2>3. BuildImage /\ OverrideImage => image = starts
    BY <2>2 DEF RunInv, BuiltInv
  <2>4. ~ SetupLeft /\ ~ swept => Has("data") /\ Has("model")
    BY <2>1 DEF InputInv, Undisturbed
  <2> QED
    BY <2>3, <2>4 DEF Has, Inputs
<1> HIDE DEF I, A
<1>4. Spec => [][A]_vars
  BY <1>1, <1>2, <1>3, PTL DEF Spec
<1> QED
  BY <1>4, PTL DEF A, TrainsOnItsInputs

------------------------------------------------------------------------------
(* What is delivered.                                                      *)

(* All that the container that has trained wrote, if it came to its end.   *)
Whole(S) == \A a \in Attempts : Trained(a) /\ ctr[a].written = 2 => Output(a) \subseteq S

Sent(a) == \E u \in uploaded : u.by = a /\ u.signed /\ Whole(u.of)

(* The container of the training that is waited for, or has succeeded.     *)
Holds(a) == Trained(a) \/ (WaitedFor(a) /\ ctr[a] # None)

WrittenInv ==
  \A a \in Attempts : Holds(a) => \A k \in 1 .. ctr[a].written : << "output", a, k >> \in InDir("output")

(* What a finalizer has at hand where it is.                               *)
PackedInv(a) ==
  /\ att[a].pc = "encrypt" /\ plain[a] # None => Whole(plain[a])
  /\ att[a].pc \in {"sign", "upload"} => Whole(enc[a].of)
  /\ att[a].pc = "upload" => enc[a].signed
  /\ att[a].pc \in {"save", "deliver"} => Sent(a)

OutputInv ==
  Undisturbed /\ Alone =>
    /\ WrittenInv
    /\ \A a \in Attempts : PackedInv(a)
    /\ row \in Attempts => Sent(row)

(* What a container has written.                                           *)
LEMMA WrittenStep ==
  ASSUME Typed, [Next]_vars, NEW a \in Attempts, ctr'[a] # None
  PROVE  \/ ctr'[a].written = 0
         \/ ctr[a] # None /\ ctr'[a].written = ctr[a].written
         \/ Trains(a) /\ ctr[a] # None /\ ctr'[a].written = ctr[a].written + 1
<1>1. ctr \in [Attempts -> Containers \cup {None}] /\ None \notin Containers
  BY TaskFilesAssumption DEF Typed, Types
<1>2. CASE Starting \/ MarkInProgressTasksAsFailed \/ Stops \/ CreateTask \/ Grow \/ runDiskCleanup
           \/ removeAllZipFiles
           \/ UNCHANGED vars
  <2>1. ctr' = ctr
    BY <1>2 DEF Starting, taskVars, cleanup, MarkInProgressTasksAsFailed, Stops, CreateTask, Grow,
                runDiskCleanup,
                removeAllZipFiles, cleanupVars, vars
  <2> QED
    BY <2>1
<1>3. ASSUME NEW b \in Attempts,
             \/ \E s \in Stages : Begin(b, s)
             \/ Timeout(b) \/ Setup(b) \/ Finalize(b)
             \/ b # a /\ (Execute(b) \/ Trains(b) \/ Exits(b))
      PROVE  ctr'[a] = ctr[a]
  BY <1>1, <1>3, BeginShape, TimeoutShape, SetupShape, FinalizeShape, ExecuteShape DEF Trains, Exits
<1>4. CASE Trains(a)
  <2>1. ctr[a] \in Containers
    BY <1>1, <1>4 DEF Trains, Writes
  <2> QED
    BY <1>1, <1>4, <2>1 DEF Trains, Containers
<1>5. ASSUME NEW s \in {"exited", "trained", "removed"}, ctr' = [ctr EXCEPT ![a].state = s], ctr[a] \in Containers
      PROVE  ctr'[a].written = ctr[a].written
  BY <1>1, <1>5 DEF Containers
<1>6. CASE Exits(a)
  <2>1. ctr[a] \in Containers /\ ctr' = [ctr EXCEPT ![a].state = "exited"]
    BY <1>1, <1>6 DEF Exits, Writes
  <2> QED
    BY <1>1, <1>5, <2>1
<1>7. CASE Pull(a) \/ WaitForContainer(a)
  BY <1>7 DEF Pull, WaitForContainer
<1>8. CASE StartContainer(a)
  BY <1>1, <1>8 DEF StartContainer, Container
<1>9. CASE FetchLogs(a)
  <2>1. ctr[a] \in Containers /\ ctr' = [ctr EXCEPT ![a].state = "trained"]
    BY <1>9 DEF FetchLogs, At, Typed, Fits, FitsAt
  <2> QED
    BY <1>1, <1>5, <2>1
<1>10. CASE ExecuteFails(a)
  <2>1. \/ ctr' = ctr
        \/ ctr[a] # None /\ ctr' = [ctr EXCEPT ![a].state = "removed"]
    BY <1>10 DEF ExecuteFails
  <2> QED
    BY <1>1, <1>5, <2>1
<1> QED
  BY <1>2, <1>3, <1>4, <1>6, <1>7, <1>8, <1>9, <1>10 DEF Next, Execute

(* Only its own attempt and itself change a container.                     *)
LEMMA ContainerStays ==
  ASSUME Typed, [Next]_vars, NEW a \in Attempts, ~ Execute(a), ~ Trains(a), ~ Exits(a)
  PROVE  ctr'[a] = ctr[a]
<1>1. ctr \in [Attempts -> Containers \cup {None}]
  BY DEF Typed, Types
<1>2. CASE Starting \/ MarkInProgressTasksAsFailed \/ Stops \/ CreateTask \/ Grow \/ runDiskCleanup
           \/ removeAllZipFiles
           \/ UNCHANGED vars
  BY <1>2 DEF Starting, taskVars, MarkInProgressTasksAsFailed, Stops, CreateTask, Grow, runDiskCleanup,
              removeAllZipFiles, cleanupVars, vars
<1>3. ASSUME NEW b \in Attempts,
             \/ \E s \in Stages : Begin(b, s)
             \/ Timeout(b) \/ Setup(b) \/ Finalize(b)
             \/ b # a /\ (Execute(b) \/ Trains(b) \/ Exits(b))
      PROVE  ctr'[a] = ctr[a]
  BY <1>1, <1>3, BeginShape, TimeoutShape, SetupShape, FinalizeShape, ExecuteShape DEF Trains, Exits
<1> QED
  BY <1>2, <1>3 DEF Next

(* Nobody begins to wait for an attempt that has a container.              *)
LEMMA WaitedBefore ==
  ASSUME Typed, WorkInv, [Next]_vars, NEW a \in Attempts, ctr[a] # None, WaitedFor(a)'
  PROVE  WaitedFor(a)
<1>1. att[a].pc \in ExecutePc \cup {"done", "dead"}
  BY DEF WorkInv
<1>2. CASE att'[a] = att[a]
  BY <1>2 DEF WaitedFor, Running
<1>3. ASSUME NEW s \in Stages, Begin(a, s)
      PROVE  FALSE
  BY <1>1, <1>3, BeginShape DEF Idle, ExecutePc
<1>4. CASE Timeout(a)
  BY <1>4, TimeoutShape DEF WaitedFor
<1>5. CASE Setup(a) \/ Execute(a) \/ Finalize(a)
  BY <1>5, SetupShape, ExecuteShape, FinalizeShape DEF Goes, Ends, WaitedFor, Running, EndPc
<1>6. att'[a].pc # "dead"
  BY DEF WaitedFor, Running
<1> QED
  BY <1>2, <1>3, <1>4, <1>5, <1>6, AttemptStep

(* A container that was left behind stays so.                              *)
LEMMA AloneBefore ==
  ASSUME Typed, RunInv, WorkInv, [Next]_vars, Alone'
  PROVE  Alone
<1> SUFFICES ASSUME NEW a \in Attempts, LeftBehind(a)
             PROVE  FALSE
  BY DEF Alone
<1>1. ctr[a] \in Containers /\ ctr[a].state \in {"running", "exited"} /\ ~ WaitedFor(a) /\ ctr[a] # None
      /\ ctr \in [Attempts -> Containers \cup {None}] /\ None \notin Containers
  BY TaskFilesAssumption DEF LeftBehind, WaitedFor, Typed, Types
<1>2. ~ WaitedFor(a)'
  BY <1>1, WaitedBefore
<1>3. ctr'[a] # None
  BY <1>1, ContainerStep
<1>4. CASE ctr'[a] = ctr[a]
  BY <1>1, <1>2, <1>4 DEF Alone, LeftBehind, WaitedFor
<1>5. CASE Trains(a) \/ Exits(a)
  <2>1. ctr'[a].state \in {"running", "exited"}
    BY <1>1, <1>5 DEF Trains, Exits, Containers
  <2> QED
    BY <1>2, <1>3, <2>1 DEF Alone, LeftBehind, WaitedFor
<1>6. CASE Execute(a)
  <2>1. ctr' = ctr
    BY <1>1, <1>6, ExecuteShape DEF Execute, Pull, StartContainer, WaitForContainer, FetchLogs, ExecuteFails,
                                     WaitedFor, Goes, Ends
  <2> QED
    BY <1>4, <2>1
<1>7. CASE ~ Execute(a) /\ ~ Trains(a) /\ ~ Exits(a)
  BY <1>4, <1>7, ContainerStays
<1> QED
  BY <1>5, <1>6, <1>7

(* A container alone in writing is that of the attempt waited for.         *)
LEMMA WriterHolds ==
  ASSUME Typed, RunInv, WorkInv, Alone, NEW a \in Attempts, Trains(a)
  PROVE  Holds(a) /\ \A b \in Attempts : Holds(b) => b = a
<1>1. WaitedFor(a) /\ ctr[a] # None
  BY DEF Trains, Writes, Alone, LeftBehind, WaitedFor
<1>2. att[a].pc \in ExecutePc
  BY <1>1 DEF WorkInv, WaitedFor, Running
<1>3. progress = "Training"
  BY <1>1, <1>2, ProgressIs DEF RunInv, Typed, Fits, FitsAt
<1>4. \A b \in Attempts : ~ Trained(b)
  BY <1>3 DEF WorkInv, LateProgress
<1> QED
  BY <1>1, <1>4 DEF Holds, RunInv

(* It is in the output directory: setup could take it away, and it is over *)
(* when there are containers; and another container, and there is none     *)
(* that writes.                                                            *)
LEMMA WrittenKept ==
  ASSUME Typed, RunInv, WorkInv, WrittenInv, [Next]_vars, Undisturbed, Undisturbed', Alone
  PROVE  WrittenInv'
<1> SUFFICES ASSUME NEW a \in Attempts, Holds(a)', NEW k \in 1 .. ctr'[a].written
             PROVE  << "output", a, k >> \in InDir("output")'
  BY DEF WrittenInv
<1>1. (ctr[a] \in Containers \/ ctr[a] = None) /\ ctr'[a] # None
  BY DEF Typed, Types, Holds, Trained
<1>2. ctr[a] # None => Holds(a)
  <2>1. Trained(a)' => Trained(a) \/ (WaitedFor(a) /\ ctr[a] # None)
    <3>1. FetchLogs(a) => WaitedFor(a) /\ ctr[a] # None
      BY TaskFilesAssumption DEF FetchLogs, At, WaitedFor, Running, Typed, Fits, FitsAt
    <3> QED
      BY <3>1, ContainerStep
  <2> QED
    BY <2>1, WaitedBefore DEF Holds
<1>3. CASE \E b \in Attempts : Setup(b)
  <2>1. PICK b \in Attempts : Setup(b)
    BY <1>3
  <2>2. ctr'[a] = ctr[a] /\ Running(b) /\ att[b].stage = "setup"
    BY <2>1, SetupShape DEF Goes, Ends
  <2>3. progress = "SettingUp"
    BY <2>1, <2>2, ProgressIs DEF RunInv, WaitedFor, Undisturbed
  <2> QED
    BY <1>1, <2>2, <2>3 DEF WorkInv, Trainable, LateProgress
<1>4. CASE dir' = dir /\ ~ Trains(a)
  <2>1. InDir("output")' = InDir("output")
    BY <1>4 DEF InDir
  <2>2. CASE ctr'[a].written = 0
    BY <2>2
  <2>3. CASE ctr[a] # None /\ ctr'[a].written = ctr[a].written
    BY <1>2, <2>1, <2>3 DEF WrittenInv
  <2> QED
    BY <1>1, <1>4, <2>2, <2>3, WrittenStep
<1>5. ASSUME NEW b \in Attempts, Trains(b)
      PROVE  << "output", a, k >> \in InDir("output")'
  <2>1. Holds(b) /\ (ctr[a] # None => a = b)
    BY <1>2, <1>5, WriterHolds
  <2>2. CASE ctr'[a].written = 0
    BY <2>2
  <2>3. CASE a = b
    <3>1. PICK i : i = ctr[a].written + 1
      OBVIOUS
    <3>2. InDir("output")' = (InDir("output") \ SameName(i)) \cup {<< "output", a, i >>}
      BY <1>5, <2>3, <3>1, TrainsWrites
    <3>3. ctr[a].written \in {0, 1} /\ ctr'[a].written = i
      BY <1>5, <2>3, <3>1, WritesFile DEF Trains, Typed, Types, Containers
    <3>4. CASE k = i
      BY <3>2, <3>4
    <3>5. CASE k # i
      <4>1. k \in 1 .. ctr[a].written
        BY <3>1, <3>3, <3>5
      <4>2. << "output", a, k >> \in InDir("output")
        BY <2>1, <2>3, <4>1 DEF WrittenInv
      <4>3. << "output", a, k >> \notin SameName(i)
        BY <3>5 DEF SameName
      <4> QED
        BY <3>2, <4>2, <4>3
    <3> QED
      BY <3>4, <3>5
  <2>4. CASE a # b
    <3>1. ctr'[a] = ctr[a]
      BY <1>5, <2>4 DEF Trains, Typed, Types
    <3> QED
      BY <1>1, <2>1, <2>4, <3>1
  <2> QED
    BY <2>3, <2>4
<1> QED
  BY <1>3, <1>4, <1>5, DirStep DEF Undisturbed

(* What is whole stays whole once the training is over, because no other   *)
(* container can be found to have trained.                                 *)
LEMMA WholeStays ==
  ASSUME Typed, RunInv, [Next]_vars, progress \in LateProgress, NEW S, Whole(S)
  PROVE  Whole(S)'
<1>1. ASSUME NEW a \in Attempts, Trained(a)', ctr'[a].written = 2
      PROVE  Output(a) \subseteq S
  <2>1. Trained(a)
    BY <1>1, ContainerStep DEF LateProgress
  <2>2. ctr[a].written = 2
    BY <1>1, <2>1, ContainerStep
  <2> QED
    BY <2>1, <2>2 DEF Whole
<1> QED
  BY <1>1 DEF Whole, Output

(* Likewise what was sent.                                                 *)
LEMMA SentStays ==
  ASSUME Typed, RunInv, [Next]_vars, progress \in LateProgress, NEW a, Sent(a), uploaded \subseteq uploaded'
  PROVE  Sent(a)'
<1>1. PICK u \in uploaded : u.by = a /\ u.signed /\ Whole(u.of)
  BY DEF Sent
<1>2. PICK S : S = u.of
  OBVIOUS
<1>3. Whole(S)'
  BY <1>1, <1>2, WholeStays
<1> QED
  BY <1>1, <1>2, <1>3 DEF Sent

(* The finalizer, step by step.                                            *)
LEMMA FinalizeMakes ==
  ASSUME Typed, WrittenInv, NEW a \in Attempts, Finalize(a), PackedInv(a)
  PROVE  /\ PackedInv(a)' /\ uploaded \subseteq uploaded'
         /\ SaveRow(a) => Sent(a)
<1>1. Types /\ att[a] \in AttemptType /\ plain \in [Attempts -> (SUBSET Files) \cup {None}]
      /\ enc \in [Attempts -> Packed \cup {None}] /\ ctr' = ctr
  BY FinalizeShape DEF Typed, Types
<1>2. \A S : Whole(S)' <=> Whole(S)
  BY <1>1 DEF Whole, Trained, Output
<1>3. uploaded \subseteq uploaded'
  BY DEF Finalize, Zip, ZipFails, AesEncryptLargeFile, EncryptFails, WriteToFileHead, Upload, UploadFails,
         SaveRow, AddDeliverable
<1>4. ASSUME att'[a].pc \in EndPc
      PROVE  PackedInv(a)'
  BY <1>4 DEF PackedInv, EndPc
<1>5. ASSUME NEW pc \in {"done", "torn"}, Fail(a, pc)
      PROVE  PackedInv(a)'
  <2>1. pc \in EndPc /\ att[a].stage \in Stages
    BY FinalizeShape DEF EndPc, Stages
  <2> QED
    BY <1>4, <1>5, <2>1, FailTyped
<1>6. ASSUME NEW pc \in {"encrypt", "sign", "upload", "save", "deliver"}, Goto(a, pc)
      PROVE  att'[a].pc = pc
  <2>1. pc \in FinalizePc
    BY DEF FinalizePc
  <2> QED
    BY <1>1, <1>6, <2>1, GotoTyped
<1>7. SaveRow(a) => Sent(a)
  BY DEF SaveRow, At, PackedInv
<1>8. CASE Zip(a)
  <2>1. att'[a].pc = "encrypt" /\ plain'[a] = dir["output"] /\ dir["output"] # None
    BY <1>1, <1>6, <1>8 DEF Zip
  <2>2. PICK S : S = dir["output"]
    OBVIOUS
  <2>3. Whole(S)
    <3>1. S = InDir("output")
      BY <2>1, <2>2 DEF InDir
    <3>2. ASSUME NEW b \in Attempts, Trained(b), ctr[b].written = 2
          PROVE  Output(b) \subseteq S
      <4>1. 1 \in 1 .. ctr[b].written /\ 2 \in 1 .. ctr[b].written
        BY <3>2
      <4>2. << "output", b, 1 >> \in S /\ << "output", b, 2 >> \in S
        BY <3>1, <3>2, <4>1 DEF WrittenInv, Holds
      <4> QED
        BY <4>2 DEF Output
    <3> QED
      BY <3>2 DEF Whole
  <2>4. Whole(S)' /\ plain'[a] = S
    BY <2>1, <2>2, <2>3, <1>2
  <2> QED
    BY <2>1, <2>4, <1>3, <1>7 DEF PackedInv
<1>9. CASE AesEncryptLargeFile(a)
  <2>1. att'[a].pc = "sign" /\ plain[a] # None /\ att[a].pc = "encrypt" /\ enc'[a] = [of |-> plain[a], signed |-> FALSE]
    BY <1>1, <1>6, <1>9 DEF AesEncryptLargeFile, At
  <2>2. PICK S : S = plain[a]
    OBVIOUS
  <2>3. Whole(S)' /\ enc'[a].of = S
    BY <2>1, <2>2, <1>2 DEF PackedInv
  <2> QED
    BY <2>1, <2>3, <1>3, <1>7 DEF PackedInv
<1>10. CASE WriteToFileHead(a)
  <2>1. att'[a].pc = "upload" /\ att[a].pc = "sign" /\ enc' = [enc EXCEPT ![a].signed = TRUE]
    BY <1>1, <1>6, <1>10 DEF WriteToFileHead, At
  <2>2. enc[a] \in Packed
    BY <2>1 DEF Typed, Fits, FitsAt
  <2>3. enc'[a].signed = TRUE /\ enc'[a].of = enc[a].of
    BY <2>1, <2>2, <1>1 DEF Packed
  <2>4. PICK S : S = enc[a].of
    OBVIOUS
  <2>5. Whole(S)' /\ enc'[a].of = S
    BY <2>1, <2>3, <2>4, <1>2 DEF PackedInv
  <2> QED
    BY <2>1, <2>3, <2>5, <1>3, <1>7 DEF PackedInv
<1>11. CASE Upload(a)
  <2>1. att[a].pc = "upload" /\ uploaded' = uploaded \cup {[by |-> a, of |-> enc[a].of, signed |-> enc[a].signed]}
        /\ (Goto(a, "save") \/ Fail(a, "done"))
    BY <1>11 DEF Upload, At
  <2>2. PICK S : S = enc[a].of
    OBVIOUS
  <2>3. Whole(S)' /\ enc[a].signed
    BY <2>1, <2>2, <1>2 DEF PackedInv
  <2>4. PICK u : u = [by |-> a, of |-> enc[a].of, signed |-> enc[a].signed]
    OBVIOUS
  <2>5. u \in uploaded' /\ u.by = a /\ u.signed /\ u.of = S
    BY <2>1, <2>2, <2>3, <2>4
  <2>6. Sent(a)'
    BY <2>3, <2>5 DEF Sent
  <2>7. CASE Goto(a, "save")
    BY <2>6, <2>7, <1>3, <1>6, <1>7 DEF PackedInv
  <2> QED
    BY <2>1, <2>7, <1>3, <1>5, <1>7
<1>12. CASE SaveRow(a)
  <2>1. att'[a].pc = "deliver" /\ uploaded' = uploaded
    BY <1>6, <1>12 DEF SaveRow
  <2>2. PICK u \in uploaded : u.by = a /\ u.signed /\ Whole(u.of)
    BY <1>7, <1>12 DEF Sent
  <2>3. PICK S : S = u.of
    OBVIOUS
  <2>4. Whole(S)'
    BY <2>2, <2>3, <1>2
  <2>5. Sent(a)'
    BY <2>1, <2>2, <2>3, <2>4 DEF Sent
  <2> QED
    BY <2>1, <2>5, <1>3, <1>7 DEF PackedInv
<1>13. CASE AddDeliverable(a)
  <2>1. Succeed(a) \/ Fail(a, "done")
    BY <1>13 DEF AddDeliverable
  <2>2. ASSUME Succeed(a)
        PROVE  PackedInv(a)'
    <3>1. Ends(a)
      BY <2>2, SucceedEnds, FinalizeShape DEF Goes, Ends
    <3> QED
      BY <3>1, <1>4 DEF Ends
  <2> QED
    BY <2>1, <2>2, <1>3, <1>5, <1>7
<1>14. CASE ZipFails(a) \/ EncryptFails(a) \/ UploadFails(a)
  <2>1. Fail(a, "torn") \/ Fail(a, "done")
    BY <1>14 DEF ZipFails, EncryptFails, UploadFails
  <2> QED
    BY <2>1, <1>3, <1>5, <1>7
<1> QED
  BY <1>8, <1>9, <1>10, <1>11, <1>12, <1>13, <1>14 DEF Finalize

(* Where another attempt is at work its files stay, but for the cleanup.   *)
LEMMA FilesStay ==
  ASSUME Typed, [Next]_vars, NEW a \in Attempts
  PROVE  \/ enc'[a] = enc[a] /\ plain'[a] \in {plain[a], None}
         \/ Finalize(a)
<1>1. CASE Starting \/ MarkInProgressTasksAsFailed \/ Stops \/ CreateTask \/ Grow \/ runDiskCleanup
           \/ UNCHANGED vars
  <2>1. enc' = enc /\ plain' = plain
    BY <1>1 DEF Starting, taskVars, cleanup, MarkInProgressTasksAsFailed, Stops, CreateTask, Grow,
                runDiskCleanup,
                cleanupVars, vars, files
  <2> QED
    BY <2>1
<1>2. CASE removeAllZipFiles
  BY <1>2 DEF removeAllZipFiles, cleanupVars
<1>3. ASSUME NEW b \in Attempts, (\E s \in Stages : Begin(b, s)) \/ Timeout(b) \/ Setup(b) \/ Execute(b)
      PROVE  enc' = enc /\ plain' = plain
  BY <1>3, BeginShape, TimeoutShape, SetupShape, ExecuteShape
<1>4. ASSUME NEW b \in Attempts, Trains(b) \/ Exits(b)
      PROVE  enc' = enc /\ plain' = plain
  BY <1>4 DEF Trains, Exits, files
<1>5. ASSUME NEW b \in Attempts, b # a, Finalize(b)
      PROVE  enc'[a] = enc[a] /\ plain'[a] = plain[a]
  BY <1>5, FinalizeShape
<1> QED
  BY <1>1, <1>2, <1>3, <1>4, <1>5 DEF Next

(* Nothing that was uploaded goes away.                                    *)
LEMMA UploadsStay ==
  ASSUME Typed, [Next]_vars
  PROVE  uploaded \subseteq uploaded'
<1>1. CASE Starting \/ MarkInProgressTasksAsFailed \/ Stops \/ CreateTask \/ Grow \/ runDiskCleanup
           \/ removeAllZipFiles \/ UNCHANGED vars
  BY <1>1 DEF Starting, taskVars, cleanup, MarkInProgressTasksAsFailed, Stops, CreateTask, Grow, runDiskCleanup,
              removeAllZipFiles, cleanupVars, vars
<1>2. ASSUME NEW a \in Attempts, (\E s \in Stages : Begin(a, s)) \/ Timeout(a) \/ Setup(a) \/ Execute(a)
      PROVE  uploaded \subseteq uploaded'
  BY <1>2, BeginShape, TimeoutShape, SetupShape, ExecuteShape
<1>3. ASSUME NEW a \in Attempts, Trains(a) \/ Exits(a)
      PROVE  uploaded \subseteq uploaded'
  BY <1>3 DEF Trains, Exits
<1>4. ASSUME NEW a \in Attempts, Finalize(a)
      PROVE  uploaded \subseteq uploaded'
  BY <1>4 DEF Finalize, Zip, ZipFails, AesEncryptLargeFile, EncryptFails, WriteToFileHead, Upload, UploadFails,
              SaveRow, AddDeliverable
<1> QED
  BY <1>1, <1>2, <1>3, <1>4 DEF Next

(* Every step keeps OutputInv.                                             *)
LEMMA OutputStep ==
  ASSUME Typed, BuiltInv, RunInv, WorkInv, OutputInv, [Next]_vars
  PROVE  OutputInv'
<1> SUFFICES ASSUME Undisturbed', Alone'
             PROVE  /\ WrittenInv'
                    /\ \A a \in Attempts : PackedInv(a)'
                    /\ row' \in Attempts => Sent(row)'
  BY DEF OutputInv
<1>1. Undisturbed /\ Alone /\ WrittenInv /\ \A a \in Attempts : PackedInv(a)
  BY UndisturbedBefore, AloneBefore DEF OutputInv
<1>2. WrittenInv'
  BY <1>1, WrittenKept
<1>3. ASSUME NEW a \in Attempts, att'[a].pc = att[a].pc, att[a].pc \in FinalizePc, ~ Finalize(a)
      PROVE  PackedInv(a)'
  <2>1. progress \in LateProgress
    BY <1>3 DEF WorkInv, Typed, Fits, FitsAt, Running, FinalizePc
  <2>2. enc'[a] = enc[a] /\ plain'[a] \in {plain[a], None}
    BY <1>3, FilesStay
  <2>3. PICK S : S = plain[a]
    OBVIOUS
  <2>4. att[a].pc = "encrypt" /\ plain'[a] # None => Whole(S)' /\ plain'[a] = S
    BY <2>1, <2>2, <2>3, <1>1, WholeStays DEF PackedInv
  <2>5. PICK T : T = enc[a].of
    OBVIOUS
  <2>6. att[a].pc \in {"sign", "upload"} => Whole(T)' /\ enc'[a].of = T
    BY <2>1, <2>2, <2>5, <1>1, WholeStays DEF PackedInv
  <2>7. att[a].pc \in {"save", "deliver"} => Sent(a)'
    BY <2>1, <1>1, SentStays, UploadsStay DEF PackedInv
  <2>8. att[a].pc = "upload" => enc'[a].signed
    BY <2>2, <1>1 DEF PackedInv
  <2> QED
    <3>1. (att[a].pc = "encrypt" /\ plain[a] # None => Whole(plain[a]))'
      BY <1>3, <2>4
    <3>2. (att[a].pc \in {"sign", "upload"} => Whole(enc[a].of))'
      BY <1>3, <2>6
    <3>3. (att[a].pc = "upload" => enc[a].signed)' /\ (att[a].pc \in {"save", "deliver"} => Sent(a))'
      BY <1>3, <2>7, <2>8
    <3> QED
      BY <3>1, <3>2, <3>3 DEF PackedInv
<1>4. ASSUME NEW a \in Attempts, att'[a].pc \notin FinalizePc
      PROVE  PackedInv(a)'
  BY <1>4 DEF PackedInv, FinalizePc
<1>5. ASSUME NEW a \in Attempts
      PROVE  PackedInv(a)'
  <2>1. CASE Finalize(a)
    BY <2>1, <1>1, FinalizeMakes
  <2>2. CASE ~ Finalize(a) /\ att'[a].pc = att[a].pc
    BY <2>2, <1>3, <1>4
  <2>3. ASSUME NEW s \in Stages, Begin(a, s)
        PROVE  PackedInv(a)'
    BY <2>3, BeginShape DEF PackedInv
  <2>4. CASE Timeout(a)
    BY <2>1, <2>2, <2>4, TimeoutShape
  <2>5. CASE Setup(a) \/ Execute(a)
    <3>1. att'[a].pc \in EndPc \/ att'[a].stage # "finalize"
      BY <2>5, SetupShape, ExecuteShape DEF Goes, Ends
    <3>2. FitsAt(a)'
      BY TypesStep DEF Typed, Fits
    <3> QED
      BY <1>4, <3>1, <3>2 DEF FitsAt, FinalizePc, EndPc
  <2>6. CASE att'[a].pc = "dead"
    BY <1>4, <2>6 DEF FinalizePc
  <2> QED
    BY <2>1, <2>2, <2>3, <2>4, <2>5, <2>6, AttemptStep
<1>6. ASSUME NEW a \in Attempts, row' = a
      PROVE  Sent(a)'
  <2>1. CASE row' = row
    <3>1. progress \in LateProgress /\ Sent(a)
      BY <1>1, <1>6, <2>1 DEF WorkInv, OutputInv
    <3> QED
      BY <3>1, SentStays, UploadsStay
  <2>2. ASSUME NEW b \in Attempts, SaveRow(b)
        PROVE  Sent(a)'
    <3>1. b = a
      BY <1>6, <2>2 DEF SaveRow
    <3>2. Sent(a) /\ progress \in LateProgress
      BY <2>2, <3>1, <1>1 DEF PackedInv, SaveRow, At, WorkInv, Running
    <3> QED
      BY <3>2, SentStays, UploadsStay
  <2> QED
    BY <2>1, <2>2, RowStep
<1>7. row' \in Attempts => Sent(row)'
  <2> SUFFICES ASSUME row' \in Attempts PROVE Sent(row)'
    OBVIOUS
  <2>1. PICK a \in Attempts : a = row'
    OBVIOUS
  <2>2. Sent(a)'
    BY <1>6, <2>1
  <2> QED
    BY <2>1, <2>2 DEF Sent
<1> QED
  BY <1>2, <1>5, <1>7

(* Before the first start nothing is written, packed or recorded.          *)
LEMMA OutputInit ==
  ASSUME Init
  PROVE  OutputInv
<1>1. row = None /\ \A a \in Attempts : ctr[a] = None /\ att[a].pc = "idle"
  BY DEF Init, Idle
<1>2. \A a \in Attempts : ~ Holds(a)
  BY <1>1 DEF Holds, Trained
<1> QED
  BY <1>1, <1>2, TaskFilesAssumption DEF OutputInv, WrittenInv, PackedInv

(* What is delivered is signed and whole, for any number of attempts that  *)
(* fail, and of finalizers that are left behind or deliver one after the   *)
(* other, while no container is left behind to write over the output.      *)
THEOREM DeliveredIsWhole == Spec => []DeliversWholeOutput
<1> DEFINE I == Typed /\ BuiltInv /\ RunInv /\ WorkInv /\ OutputInv
<1>1. Init => I
  BY TypesInit, RunInit, WorkInit, OutputInit
<1>2. I /\ [Next]_vars => I'
  BY TypesStep, RunStep, WorkStep, OutputStep
<1>3. I => DeliversWholeOutput
  BY DEF WorkInv, OutputInv, Undisturbed, Sent, Whole, Trained, DeliversWholeOutput
<1> HIDE DEF I
<1> QED
  BY <1>1, <1>2, <1>3, PTL DEF Spec
==============================================================================

-------------------------- MODULE TaskPipelineProofs -------------------------
(***************************************************************************)
(* Theorems about TaskPipeline for every set of tasks, customers, jobs,    *)
(* worker counts, retry limits and queue sizes.  The safety properties are *)
(* proved from one inductive invariant, IInv, whose parts say what a job   *)
(* in a pool knows about its task.                                         *)
(***************************************************************************)
EXTENDS TaskPipeline, FiniteSetTheorems, TLAPS

(* A job that is not free carries a task; only the executor trains, only   *)
(* the setup service verifies a signature.                                 *)
JobsHaveTasks ==
  \A j \in Jobs :
    /\ job[j].pc # "free" => job[j].task \in Tasks
    /\ job[j].pc = "training" => job[j].stage = "executor"
    /\ job[j].pc = "sigfail" => job[j].stage = "setup"

(* The waiting queue of a pool holds queued jobs of its stage, each once.  *)
QueuedJobsWait ==
  \A s \in Stages : \A i \in 1 .. Len(queue[s]) :
    /\ job[queue[s][i]].pc = "queued"
    /\ job[queue[s][i]].stage = s
    /\ \A k \in 1 .. Len(queue[s]) : queue[s][k] = queue[s][i] => k = i

(* A job holds its task in the intermediate state of its stage; only under *)
(* a setup job can the row have been cancelled.                            *)
HolderState ==
  \A j \in Jobs :
    job[j].pc \in Holding =>
      \/ progress[job[j].task] = Intermediate[job[j].stage]
      \/ job[j].stage = "setup" /\ progress[job[j].task] = "Failed"

(* taskMutex: one create request is past its checks, and what it checked   *)
(* still holds.                                                            *)
CreatingChecked ==
  \A t \in creating :
    /\ progress[t] = "None"
    /\ \A o \in creating : o = t
    /\ \A o \in Tasks : UserOf[o] = UserOf[t] => ~Unfinished(o)

(* While HandleNoTask clears the flag the executor's loop is inside it: no *)
(* row is claimed for training.                                            *)
ReleaseIsAlone ==
  releasing =>
    /\ fetched["executor"].task = NoTask
    /\ \A j \in Jobs : job[j].pc \in Holding => job[j].stage # "executor"

IInv ==
  /\ TypeOK
  /\ JobsHaveTasks
  /\ QueuedJobsWait
  /\ HolderState
  /\ CreatingChecked
  /\ ReleaseIsAlone
  /\ ExclusiveClaim
  /\ OneUnfinishedPerUser

------------------------------------------------------------------------------
(* What the two updates of a closure change.                               *)
Pcs == Holding \union {"free", "owing"}

(* Moving a job to another program point leaves its stage, task and count. *)
LEMMA GotoEffect ==
  ASSUME job \in [Jobs -> JobRecord], NEW j \in Jobs, NEW pc \in Pcs, Goto(j, pc)
  PROVE  /\ job' \in [Jobs -> JobRecord]
         /\ job'[j] = [job[j] EXCEPT !.pc = pc]
         /\ job'[j].pc = pc
         /\ \A k \in Jobs : k # j => job'[k] = job[k]
         /\ \A k \in Jobs : /\ job'[k].stage = job[k].stage
                            /\ job'[k].task = job[k].task
                            /\ job'[k].retries = job[k].retries
<1>1. job[j] \in JobRecord
  OBVIOUS
<1>2. [job[j] EXCEPT !.pc = pc] \in JobRecord
  BY <1>1 DEF JobRecord, Pcs
<1>3. job' = [job EXCEPT ![j] = [job[j] EXCEPT !.pc = pc]]
  BY DEF Goto
<1>4. /\ [job[j] EXCEPT !.pc = pc].pc = pc
      /\ [job[j] EXCEPT !.pc = pc].stage = job[j].stage
      /\ [job[j] EXCEPT !.pc = pc].task = job[j].task
      /\ [job[j] EXCEPT !.pc = pc].retries = job[j].retries
  BY <1>1 DEF JobRecord
<1>5. QED
  BY <1>2, <1>3, <1>4

(* A freed job carries nothing; the others are untouched.                  *)
LEMMA FreeUpEffect ==
  ASSUME job \in [Jobs -> JobRecord], NEW j \in Jobs, FreeUp(j)
  PROVE  /\ job' \in [Jobs -> JobRecord]
         /\ job'[j].pc = "free"
         /\ \A k \in Jobs : k # j => job'[k] = job[k]
<1>1. FreeJob \in JobRecord /\ FreeJob.pc = "free"
  BY DEF FreeJob, JobRecord, Stages
<1>2. job' = [job EXCEPT ![j] = FreeJob]
  BY DEF FreeUp
<1>3. QED
  BY <1>1, <1>2

------------------------------------------------------------------------------
(* The eleven steps of a worker do one of two things: move the job forward *)
(* without touching the table, or let go of the task.                      *)
Advance(j) ==
  /\ job[j].pc \in Running
  /\ \E pc \in {"executing", "training", "done", "failing", "sigfail"} :
       /\ Goto(j, pc)
       /\ pc = "training" => job[j].stage = "executor" /\ occupied'
       /\ pc = "sigfail" => job[j].stage = "setup"
  /\ occupied => occupied'
  /\ occupied' \in BOOLEAN /\ left' \in Seq(BOOLEAN)
  /\ abandoned' \subseteq Tasks \X Stages
  /\ UNCHANGED << progress, retries, created, creating, fetched, queue, releasing >>

LetGo(j) ==
  LET t == job[j].task
      s == job[j].stage
  IN  /\ job[j].pc \notin {"free", "queued"}
      /\ FreeUp(j) \/ Goto(j, "owing")
      /\ \/ UNCHANGED progress
         \/ /\ job[j].pc \in Holding
            /\ progress[t] = Intermediate[s]
            /\ \E new \in {Initial[s], Final[s], "Failed"} :
                 progress' = [progress EXCEPT ![t] = new]
      /\ retries' \in [Tasks -> [Stages -> Nat]]
      /\ ~DBMayFail /\ job[j].pc \in Holding => progress'[t] # Intermediate[s]
      /\ UNCHANGED << created, creating, fetched, queue, abandoned, occupied, left, releasing >>

(* What a call that changes the flag leaves: a flag and a queue of the     *)
(* transactions left behind.                                               *)
LEMMA FlagTypes ==
  ASSUME occupied \in BOOLEAN, left \in Seq(BOOLEAN), NEW flag \in BOOLEAN
  PROVE  /\ Mined(flag) => occupied' = flag /\ left' \in Seq(BOOLEAN)
         /\ GivenUp(flag) => occupied' = occupied /\ left' \in Seq(BOOLEAN)
<1>1. << >> \in Seq(BOOLEAN) /\ Append(left, flag) \in Seq(BOOLEAN)
  OBVIOUS
<1>2. QED
  BY <1>1 DEF Mined, GivenUp

(* The deferred release of Executor.Execute never lowers the flag: the row *)
(* of the task it has just trained still reads Training.                   *)
LEMMA DeferredReleaseKeeps ==
  ASSUME IInv, NEW j \in Jobs, DeferredRelease(j)
  PROVE  UNCHANGED << occupied, left >>
<1>1. CASE job[j].pc = "training"
  <2>1. job[j].stage = "executor" /\ job[j].task \in Tasks
    BY <1>1 DEF IInv, JobsHaveTasks
  <2>2. progress[job[j].task] = "Training"
    BY <1>1, <2>1 DEF IInv, HolderState, Holding, Running, Intermediate
  <2>3. ~NothingPending
    BY <2>1, <2>2 DEF NothingPending, PendingTraining
  <2>4. QED
    BY <2>3 DEF DeferredRelease
<1>2. CASE job[j].pc # "training"
  BY <1>2 DEF DeferredRelease
<1>3. QED
  BY <1>1, <1>2

(* A call to raise the flag that is given up on leaves it as it is.        *)
LEMMA OccupyGivenUpKeeps ==
  ASSUME IInv, NEW j \in Jobs, OccupyGivenUp(j)
  PROVE  UNCHANGED occupied /\ left' \in Seq(BOOLEAN)
  BY FlagTypes DEF IInv, TypeOK, OccupyGivenUp

(* Every step a worker takes by itself or with the outside is one of the   *)
(* two.                                                                    *)
LEMMA WorkerSteps ==
  ASSUME IInv, NEW j \in Jobs, WorkerStep(j) \/ External(j)
  PROVE  Advance(j) \/ LetGo(j)
<1> DEFINE t == job[j].task
           s == job[j].stage
<1>0. /\ job[j] \in JobRecord /\ s \in Stages /\ job[j].retries \in Nat
      /\ abandoned \subseteq Tasks \X Stages
      /\ retries \in [Tasks -> [Stages -> Nat]]
      /\ progress \in [Tasks -> Progress]
      /\ occupied \in BOOLEAN /\ left \in Seq(BOOLEAN)
  BY DEF IInv, TypeOK, JobRecord
<1>1. job[j].pc # "free" => t \in Tasks
  BY DEF IInv, JobsHaveTasks
<1>2. Initial[s] # Intermediate[s] /\ Final[s] # Intermediate[s] /\ "Failed" # Intermediate[s]
  BY <1>0 DEF Stages, Initial, Intermediate, Final
<1>3. CASE CheckProgress(j)
  BY <1>0, <1>3 DEF CheckProgress, Advance, Running
<1>4. CASE Timeout(j)
  <2>1. t \in Tasks
    BY <1>1, <1>4 DEF Timeout, Running
  <2>2. abandoned' \subseteq Tasks \X Stages
    BY <1>0, <1>4, <2>1 DEF Timeout
  <2>3. UNCHANGED occupied /\ left' \in Seq(BOOLEAN)
    BY <1>4, OccupyGivenUpKeeps DEF Timeout
  <2>4. QED
    BY <1>0, <1>4, <2>2, <2>3 DEF Timeout, Advance
<1>5. CASE OccupyService(j)
  <2>1. occupied' = TRUE /\ left' \in Seq(BOOLEAN)
    BY <1>0, <1>5, FlagTypes DEF OccupyService
  <2>2. QED
    BY <1>0, <1>5, <2>1 DEF OccupyService, Advance, Running
<1>6. CASE ExecuteSucceeds(j)
  BY <1>0, <1>6, DeferredReleaseKeeps DEF ExecuteSucceeds, Advance, Running
<1>7. CASE ExecuteFails(j)
  <2>1. UNCHANGED occupied /\ left' \in Seq(BOOLEAN)
    BY <1>0, <1>7, DeferredReleaseKeeps, OccupyGivenUpKeeps DEF ExecuteFails
  <2>2. QED
    BY <1>0, <1>7, <2>1 DEF ExecuteFails, Advance, Running
<1>8. CASE SignatureRejected(j)
  BY <1>0, <1>8 DEF SignatureRejected, Advance, Running
<1>9. CASE MarkTaskCompleted(j)
  BY <1>0, <1>1, <1>2, <1>9 DEF MarkTaskCompleted, UpdateTaskProgress, LetGo, Holding
<1>10. CASE GiveBack(j)
  BY <1>0, <1>1, <1>2, <1>10 DEF GiveBack, UpdateTaskProgress, LetGo, Holding
<1>11. CASE CountRetry(j)
  <2>1. job[j].retries + 1 \in Nat
    BY <1>0
  <2>2. [retries EXCEPT ![t][s] = job[j].retries + 1] \in [Tasks -> [Stages -> Nat]]
    BY <1>0, <2>1
  <2>3. retries' \in [Tasks -> [Stages -> Nat]]
    BY <1>0, <1>11, <2>2 DEF CountRetry
  <2>4. job[j].pc \notin Holding
    BY <1>11 DEF CountRetry, Holding, Running
  <2>5. QED
    BY <1>11, <2>3, <2>4 DEF CountRetry, LetGo
<1>12. CASE FailTask(j)
  <2>1. job[j].pc \in Holding /\ t \in Tasks
    BY <1>1, <1>12 DEF FailTask, Holding
  <2>2. progress[t] = Intermediate[s] \/ progress[t] = "Failed"
    BY <2>1 DEF IInv, HolderState
  <2>3. UNCHANGED progress \/ progress' = [progress EXCEPT ![t] = "Failed"]
    BY <1>12 DEF FailTask, MarkTaskFailed
  <2>4. progress'[t] = "Failed"
    BY <1>0, <1>12, <2>1 DEF FailTask, MarkTaskFailed
  <2>5. progress[t] = Intermediate[s] \/ UNCHANGED progress
    BY <2>2, <1>12 DEF FailTask, MarkTaskFailed
  <2>6. QED
    BY <1>0, <1>2, <1>12, <2>1, <2>3, <2>4, <2>5 DEF FailTask, LetGo
<1>13. CASE StatementFails(j)
  BY <1>0, <1>13 DEF StatementFails, LetGo
<1>14. QED
  BY <1>3, <1>4, <1>5, <1>6, <1>7, <1>8, <1>9, <1>10, <1>11, <1>12, <1>13
     DEF WorkerStep, External

------------------------------------------------------------------------------
(* What the steps that are not a worker's do to one another's state.       *)

(* Type correctness, and that jobs carry tasks, is preserved.              *)
LEMMA TypeStep ==
  ASSUME IInv, Next
  PROVE  TypeOK' /\ JobsHaveTasks'
<1> USE DEF IInv
<1>0. /\ TypeOK /\ JobsHaveTasks /\ QueuedJobsWait
      /\ NoTask \notin Tasks
      /\ \A s \in Stages : /\ Initial[s] \in Progress /\ Intermediate[s] \in Progress
                           /\ Final[s] \in Progress
      /\ "Failed" \in Progress /\ "Init" \in Progress
      /\ NoRow \in [task : Tasks \union {NoTask}, retries : Nat]
  BY PipelineAssumption
     DEF Stages, Initial, Intermediate, Final, Progress, ProgressState, NoRow
<1>1. ASSUME NEW j \in Jobs, Advance(j)  PROVE TypeOK' /\ JobsHaveTasks'
  <2>1. PICK pc \in {"executing", "training", "done", "failing", "sigfail"} :
          /\ Goto(j, pc)
          /\ pc = "training" => job[j].stage = "executor"
          /\ pc = "sigfail" => job[j].stage = "setup"
    BY <1>1 DEF Advance
  <2>2. pc \in Pcs
    BY DEF Pcs, Holding, Running
  <2>3. /\ job' \in [Jobs -> JobRecord]
        /\ job'[j].pc = pc
        /\ \A k \in Jobs : k # j => job'[k] = job[k]
        /\ \A k \in Jobs : job'[k].stage = job[k].stage /\ job'[k].task = job[k].task
    BY <2>1, <2>2, <1>0, GotoEffect DEF TypeOK
  <2>4. TypeOK'
    BY <1>0, <1>1, <2>3 DEF TypeOK, Advance
  <2>5. job[j].task \in Tasks
    BY <1>0, <1>1 DEF Advance, Running, JobsHaveTasks
  <2>6. JobsHaveTasks'
    BY <1>0, <2>1, <2>3, <2>5 DEF JobsHaveTasks
  <2>7. QED
    BY <2>4, <2>6
<1>2. ASSUME NEW j \in Jobs, LetGo(j)  PROVE TypeOK' /\ JobsHaveTasks'
  <2>1. "owing" \in Pcs
    BY DEF Pcs
  <2>2. /\ job' \in [Jobs -> JobRecord]
        /\ job'[j].pc \in {"free", "owing"}
        /\ job'[j].pc = "owing" => job'[j].task = job[j].task
        /\ \A k \in Jobs : k # j => job'[k] = job[k]
    BY <1>0, <1>2, <2>1, GotoEffect, FreeUpEffect DEF TypeOK, LetGo
  <2>3. job[j].stage \in Stages /\ job[j].task \in Tasks
    BY <1>0, <1>2 DEF TypeOK, JobRecord, LetGo, JobsHaveTasks
  <2>4. progress' \in [Tasks -> Progress]
    <3>1. CASE UNCHANGED progress
      BY <1>0, <3>1 DEF TypeOK
    <3>2. ASSUME NEW new \in {Initial[job[j].stage], Final[job[j].stage], "Failed"},
                 progress' = [progress EXCEPT ![job[j].task] = new]
          PROVE  progress' \in [Tasks -> Progress]
      BY <1>0, <2>3, <3>2 DEF TypeOK
    <3>3. QED
      BY <1>2, <3>1, <3>2 DEF LetGo
  <2>5. TypeOK'
    BY <1>0, <1>2, <2>2, <2>4 DEF TypeOK, LetGo
  <2>6. JobsHaveTasks'
    BY <1>0, <2>2, <2>3 DEF JobsHaveTasks
  <2>7. QED
    BY <2>5, <2>6
<1>3. ASSUME NEW s \in Stages, ReadNextTask(s)  PROVE TypeOK' /\ JobsHaveTasks'
  <2>1. PICK t \in Tasks : fetched' = [fetched EXCEPT ![s] = [task |-> t, retries |-> retries[t][s]]]
    BY <1>3 DEF ReadNextTask, GetNextTask
  <2>2. retries[t][s] \in Nat
    BY <1>0 DEF TypeOK
  <2>3. QED
    BY <1>0, <1>3, <2>1, <2>2 DEF ReadNextTask, TypeOK, JobsHaveTasks
<1>4. ASSUME NEW s \in Stages, ClaimLost(s)  PROVE TypeOK' /\ JobsHaveTasks'
  BY <1>0, <1>4 DEF ClaimLost, TypeOK, JobsHaveTasks
<1>5. ASSUME NEW s \in Stages, NEW j \in Jobs, ClaimTask(s, j)  PROVE TypeOK' /\ JobsHaveTasks'
  <2> DEFINE new == [pc |-> "queued", stage |-> s, task |-> fetched[s].task,
                     retries |-> fetched[s].retries]
  <2>1. fetched[s].task \in Tasks /\ fetched[s].retries \in Nat
    BY <1>0, <1>5 DEF ClaimTask, TypeOK
  <2>2. new \in JobRecord /\ new.pc = "queued" /\ new.task \in Tasks
    BY <2>1 DEF JobRecord, Holding
  <2>3. job' = [job EXCEPT ![j] = new]
    BY <1>5 DEF ClaimTask
  <2> HIDE DEF new
  <2>4. job' \in [Jobs -> JobRecord] /\ JobsHaveTasks'
    BY <1>0, <2>2, <2>3 DEF TypeOK, JobsHaveTasks
  <2>5. progress' \in [Tasks -> Progress]
    BY <1>0, <1>5 DEF ClaimTask, UpdateTaskProgress, TypeOK
  <2>6. fetched' \in [Stages -> [task : Tasks \union {NoTask}, retries : Nat]]
    BY <1>0, <1>5 DEF ClaimTask, TypeOK
  <2>7. queue' \in [Stages -> Seq(Jobs)]
    BY <1>0, <1>5 DEF ClaimTask, TypeOK
  <2>8. QED
    BY <1>0, <1>5, <2>4, <2>5, <2>6, <2>7 DEF ClaimTask, TypeOK
<1>6. ASSUME NEW s \in Stages, StartJob(s)  PROVE TypeOK' /\ JobsHaveTasks'
  <2> DEFINE j == Head(queue[s])
  <2>1. queue[s] \in Seq(Jobs) /\ queue[s] # << >>
    BY <1>0, <1>6 DEF StartJob, TypeOK
  <2>2. j \in Jobs /\ Tail(queue[s]) \in Seq(Jobs) /\ j = queue[s][1] /\ 1 \in 1 .. Len(queue[s])
    BY <2>1
  <2>3. job[j].pc = "queued" /\ "running" \in Pcs
    BY <1>0, <2>2 DEF QueuedJobsWait, Pcs, Holding, Running
  <2>4. Goto(j, "running")
    BY <1>6 DEF StartJob
  <2> HIDE DEF j
  <2>5. /\ job' \in [Jobs -> JobRecord] /\ job'[j].pc = "running"
        /\ \A k \in Jobs : k # j => job'[k] = job[k]
        /\ \A k \in Jobs : job'[k].task = job[k].task
    BY <1>0, <2>2, <2>3, <2>4, GotoEffect DEF TypeOK
  <2>6. JobsHaveTasks'
    BY <1>0, <2>2, <2>3, <2>5 DEF JobsHaveTasks
  <2>7. QED
    BY <1>0, <1>6, <2>2, <2>5, <2>6 DEF StartJob, TypeOK
<1>7. CASE HandleNoTask \/ ServiceReleased \/ ReleaseFailed \/ LateMined
             \/ \E a \in abandoned : AbandonedEnds(a)
  <2>1. occupied' \in BOOLEAN /\ left' \in Seq(BOOLEAN)
    <3>1. left # << >> => Head(left) \in BOOLEAN /\ Tail(left) \in Seq(BOOLEAN)
      BY <1>0 DEF TypeOK
    <3>2. QED
      BY <1>0, <1>7, <3>1, FlagTypes
         DEF HandleNoTask, ServiceReleased, ReleaseFailed, LateMined, AbandonedEnds, TypeOK
  <2>2. QED
    BY <1>0, <1>7, <2>1
       DEF HandleNoTask, ServiceReleased, ReleaseFailed, LateMined, AbandonedEnds, TypeOK,
           JobsHaveTasks
<1>8. ASSUME NEW t \in Tasks, AddTask(t)  PROVE TypeOK' /\ JobsHaveTasks'
  <2>1. progress' \in [Tasks -> Progress]
    BY <1>0, <1>8 DEF AddTask, TypeOK
  <2>2. created' \in Seq(Tasks)
    <3>1. created \in Seq(Tasks) /\ Append(created, t) \in Seq(Tasks)
      BY <1>0 DEF TypeOK
    <3>2. created' = Append(created, t) \/ created' = created
      BY <1>8 DEF AddTask
    <3>3. QED
      BY <3>1, <3>2
  <2>3. QED
    BY <1>0, <1>8, <2>1, <2>2 DEF AddTask, TypeOK, JobsHaveTasks
<1>9. ASSUME NEW t \in Tasks, UserAcknowledged(t) \/ Settled(t)
      PROVE  TypeOK' /\ JobsHaveTasks'
  BY <1>0, <1>9 DEF UserAcknowledged, Settled, TypeOK, JobsHaveTasks, Progress, ProgressState
<1>10. ASSUME NEW t \in Tasks, CancelTask(t)  PROVE TypeOK' /\ JobsHaveTasks'
  BY <1>0, <1>10 DEF CancelTask, TypeOK, JobsHaveTasks
<1>11. ASSUME NEW t \in Tasks, NEW wait \in BOOLEAN, CreateTask(t, wait)
       PROVE  TypeOK' /\ JobsHaveTasks'
  BY <1>0, <1>11 DEF CreateTask, TypeOK, JobsHaveTasks
<1>12. CASE Restart
  <2>1. FreeJob \in JobRecord /\ FreeJob.pc = "free"
    BY DEF FreeJob, JobRecord, Stages
  <2>2. job' \in [Jobs -> JobRecord] /\ JobsHaveTasks'
    BY <1>12, <2>1 DEF Restart, JobsHaveTasks
  <2>3. abandoned' \subseteq Tasks \X Stages
    <3>1. \A j \in Jobs : job[j].pc = "training" => <<job[j].task, "executor">> \in Tasks \X Stages
      BY <1>0 DEF JobsHaveTasks, Stages
    <3>2. QED
      BY <1>0, <1>12, <3>1 DEF Restart, TypeOK
  <2>4. progress' \in [Tasks -> Progress]
    BY <1>0, <1>12 DEF Restart, MarkInProgressTasksAsFailed, TypeOK
  <2>5. queue' \in [Stages -> Seq(Jobs)]
    BY <1>12 DEF Restart
  <2>6. occupied' \in BOOLEAN /\ left' \in Seq(BOOLEAN)
    BY <1>0, <1>12, FlagTypes DEF Restart, SyncServices, TypeOK
  <2>7. QED
    BY <1>0, <1>12, <2>2, <2>3, <2>4, <2>5, <2>6 DEF Restart, TypeOK
<1>13. QED
  BY <1>1, <1>2, <1>3, <1>4, <1>5, <1>6, <1>7, <1>8, <1>9, <1>10, <1>11, <1>12, WorkerSteps
     DEF Next, Broker, Polling

(* The waiting queues hold queued jobs of their stage, each once: only     *)
(* ClaimTask puts one in, and only StartJob takes the head out.            *)
LEMMA QueueStep ==
  ASSUME IInv, Next
  PROVE  QueuedJobsWait'
<1>0. TypeOK /\ QueuedJobsWait /\ queue \in [Stages -> Seq(Jobs)]
  BY DEF IInv, TypeOK
<1>1. ASSUME UNCHANGED << queue, job >>  PROVE QueuedJobsWait'
  BY <1>0, <1>1 DEF QueuedJobsWait
<1>2. ASSUME NEW j \in Jobs, UNCHANGED queue, job[j].pc # "queued",
             \A k \in Jobs : k # j => job'[k] = job[k]
      PROVE  QueuedJobsWait'
  <2>1. \A s \in Stages : \A i \in 1 .. Len(queue[s]) : queue[s][i] \in Jobs
    BY <1>0
  <2>2. \A s \in Stages : \A i \in 1 .. Len(queue[s]) : job'[queue[s][i]] = job[queue[s][i]]
    BY <1>0, <1>2, <2>1 DEF QueuedJobsWait
  <2>3. QED
    BY <1>0, <1>2, <2>2 DEF QueuedJobsWait
<1>3. ASSUME NEW j \in Jobs, Advance(j)  PROVE QueuedJobsWait'
  <2>1. PICK pc \in {"executing", "training", "done", "failing", "sigfail"} : Goto(j, pc)
    BY <1>3 DEF Advance
  <2>2. \A k \in Jobs : k # j => job'[k] = job[k]
    BY <1>0, <2>1, GotoEffect DEF TypeOK, Pcs, Holding, Running
  <2>3. QED
    BY <1>2, <1>3, <2>2 DEF Advance, Running
<1>4. ASSUME NEW j \in Jobs, LetGo(j)  PROVE QueuedJobsWait'
  <2>1. \A k \in Jobs : k # j => job'[k] = job[k]
    BY <1>0, <1>4, GotoEffect, FreeUpEffect DEF TypeOK, Pcs, LetGo
  <2>2. QED
    BY <1>2, <1>4, <2>1 DEF LetGo
<1>5. ASSUME NEW s \in Stages, NEW j \in Jobs, ClaimTask(s, j)  PROVE QueuedJobsWait'
  <2> DEFINE q == queue[s]
  <2>1. /\ job[j].pc = "free"
        /\ job'[j].pc = "queued" /\ job'[j].stage = s
        /\ \A k \in Jobs : k # j => job'[k] = job[k]
    BY <1>0, <1>5 DEF ClaimTask, TypeOK
  <2>2. queue' = [queue EXCEPT ![s] = Append(q, j)] /\ q \in Seq(Jobs)
    BY <1>0, <1>5 DEF ClaimTask
  <2>3. \A u \in Stages : \A i \in 1 .. Len(queue[u]) :
          queue[u][i] \in Jobs /\ queue[u][i] # j /\ job'[queue[u][i]] = job[queue[u][i]]
    BY <1>0, <2>1 DEF QueuedJobsWait
  <2>4. ASSUME NEW u \in Stages, u # s, NEW i \in 1 .. Len(queue'[u])
        PROVE  /\ job'[queue'[u][i]].pc = "queued"
               /\ job'[queue'[u][i]].stage = u
               /\ \A k \in 1 .. Len(queue'[u]) : queue'[u][k] = queue'[u][i] => k = i
    BY <1>0, <2>2, <2>3, <2>4 DEF QueuedJobsWait
  <2>5. /\ queue'[s] = Append(q, j) /\ Len(queue'[s]) = Len(q) + 1
        /\ \A i \in 1 .. Len(q) : queue'[s][i] = q[i]
        /\ queue'[s][Len(q) + 1] = j
    BY <1>0, <2>2
  <2>6. ASSUME NEW i \in 1 .. Len(queue'[s])
        PROVE  /\ job'[queue'[s][i]].pc = "queued"
               /\ job'[queue'[s][i]].stage = s
               /\ \A k \in 1 .. Len(queue'[s]) : queue'[s][k] = queue'[s][i] => k = i
    <3>1. Len(q) \in Nat
      BY <2>2
    <3> HIDE DEF q
    <3>2. \A k \in 1 .. Len(q) + 1 : k \in 1 .. Len(q) \/ k = Len(q) + 1
      BY <3>1
    <3>3. \A k \in 1 .. Len(q) : /\ q[k] # j /\ job'[q[k]] = job[q[k]]
                                 /\ job[q[k]].pc = "queued" /\ job[q[k]].stage = s
                                 /\ \A m \in 1 .. Len(q) : q[m] = q[k] => m = k
      BY <1>0, <2>3 DEF QueuedJobsWait, q
    <3>4. QED
      BY <2>1, <2>5, <2>6, <3>2, <3>3
  <2>7. QED
    BY <2>4, <2>6 DEF QueuedJobsWait
<1>6. ASSUME NEW s \in Stages, StartJob(s)  PROVE QueuedJobsWait'
  <2> DEFINE q == queue[s]
             j == Head(q)
  <2>1. /\ q \in Seq(Jobs) /\ q # << >> /\ queue' = [queue EXCEPT ![s] = Tail(q)]
        /\ Goto(j, "running")
    BY <1>0, <1>6 DEF StartJob
  <2>2. j \in Jobs /\ j = q[1] /\ 1 \in 1 .. Len(q) /\ job[j].stage = s
    BY <1>0, <2>1 DEF QueuedJobsWait
  <2>3. \A k \in Jobs : k # j => job'[k] = job[k]
    BY <1>0, <2>1, <2>2, GotoEffect DEF TypeOK, Pcs, Holding, Running
  <2>4. /\ Len(Tail(q)) = Len(q) - 1
        /\ \A i \in 1 .. Len(q) - 1 : Tail(q)[i] = q[i + 1] /\ i + 1 \in 1 .. Len(q) /\ i + 1 # 1
    BY <2>1
  <2>5. queue'[s] = Tail(q) /\ \A u \in Stages : u # s => queue'[u] = queue[u]
    BY <1>0, <2>1
  <2> HIDE DEF q, j
  <2>6. ASSUME NEW u \in Stages, u # s, NEW i \in 1 .. Len(queue'[u])
        PROVE  /\ job'[queue'[u][i]].pc = "queued"
               /\ job'[queue'[u][i]].stage = u
               /\ \A k \in 1 .. Len(queue'[u]) : queue'[u][k] = queue'[u][i] => k = i
    <3>1. queue[u][i] \in Jobs /\ queue[u][i] # j
      BY <1>0, <2>2, <2>5, <2>6 DEF QueuedJobsWait
    <3>2. QED
      BY <1>0, <2>3, <2>5, <2>6, <3>1 DEF QueuedJobsWait
  <2>7. ASSUME NEW i \in 1 .. Len(queue'[s])
        PROVE  /\ job'[queue'[s][i]].pc = "queued"
               /\ job'[queue'[s][i]].stage = s
               /\ \A k \in 1 .. Len(queue'[s]) : queue'[s][k] = queue'[s][i] => k = i
    <3>1. \A m \in 1 .. Len(q) : /\ q[m] \in Jobs /\ job[q[m]].pc = "queued" /\ job[q[m]].stage = s
                                 /\ \A n \in 1 .. Len(q) : q[n] = q[m] => n = m
      BY <1>0, <2>1 DEF QueuedJobsWait, q
    <3>2. i \in 1 .. Len(q) - 1 /\ Len(q) \in Nat
      BY <2>1, <2>4, <2>5, <2>7
    <3>3. queue'[s][i] = q[i + 1] /\ q[i + 1] # j /\ q[i + 1] \in Jobs
      BY <2>2, <2>4, <2>5, <3>1, <3>2
    <3>4. job'[q[i + 1]] = job[q[i + 1]]
      BY <2>3, <3>3
    <3>5. ASSUME NEW k \in 1 .. Len(q) - 1, q[k + 1] = q[i + 1]  PROVE k = i
      BY <2>4, <3>1, <3>2, <3>5
    <3>6. QED
      BY <2>4, <2>5, <3>1, <3>2, <3>3, <3>4, <3>5
  <2>8. QED
    BY <2>6, <2>7 DEF QueuedJobsWait
<1>7. CASE Restart
  BY <1>7 DEF Restart, QueuedJobsWait
<1>8. QED
  BY <1>1, <1>3, <1>4, <1>5, <1>6, <1>7, WorkerSteps
     DEF Next, Broker, Polling, ReadNextTask, ClaimLost, HandleNoTask, ServiceReleased,
         ReleaseFailed, LateMined, AbandonedEnds, AddTask, UserAcknowledged, Settled, CancelTask, CreateTask

(* What a job knows about its task, and that no other job holds it, is     *)
(* preserved: the claim needs the row in an initial state, which no holder *)
(* leaves it in.                                                           *)
LEMMA HolderStep ==
  ASSUME IInv, Next
  PROVE  HolderState' /\ ExclusiveClaim'
<1>0. /\ TypeOK /\ JobsHaveTasks /\ QueuedJobsWait /\ HolderState
      /\ ExclusiveClaim /\ CreatingChecked
  BY DEF IInv
<1>a. \A s \in Stages : \A u \in Stages :
        /\ Initial[s] # Intermediate[u] /\ Initial[s] # "Failed" /\ Initial[s] # "None"
        /\ Intermediate[s] \notin {"None", "Failed", "Delivered", "UserAcknowledged"}
        /\ Intermediate[s] = "SettingUp" => s = "setup"
        /\ Intermediate[s] \notin {"Init", "SetUp"}
  BY DEF Stages, Initial, Intermediate
<1>b. \A j \in Jobs : /\ job[j].stage \in Stages
                      /\ job[j].pc \in Holding => job[j].task \in Tasks
  BY <1>0 DEF TypeOK, JobRecord, JobsHaveTasks, Holding, Running
<1>1. ASSUME UNCHANGED job,
             \A j \in Jobs : job[j].pc \in Holding =>
               \/ progress'[job[j].task] = progress[job[j].task]
               \/ job[j].stage = "setup" /\ progress'[job[j].task] = "Failed"
      PROVE  HolderState' /\ ExclusiveClaim'
  BY <1>0, <1>1 DEF HolderState, ExclusiveClaim, Holds
<1>2. ASSUME NEW j \in Jobs, Advance(j)  PROVE HolderState' /\ ExclusiveClaim'
  <2>1. PICK pc \in {"executing", "training", "done", "failing", "sigfail"} : Goto(j, pc)
    BY <1>2 DEF Advance
  <2>2. /\ \A k \in Jobs : k # j => job'[k] = job[k]
        /\ job'[j].stage = job[j].stage /\ job'[j].task = job[j].task
    BY <1>0, <2>1, GotoEffect DEF TypeOK, Pcs, Holding, Running
  <2>3. job[j].pc \in Holding /\ UNCHANGED progress
    BY <1>2 DEF Advance, Holding
  <2>4. HolderState'
    BY <1>0, <2>2, <2>3 DEF HolderState
  <2>5. ExclusiveClaim'
    BY <1>0, <2>2, <2>3 DEF ExclusiveClaim, Holds
  <2>6. QED
    BY <2>4, <2>5
<1>3. ASSUME NEW j \in Jobs, LetGo(j)  PROVE HolderState' /\ ExclusiveClaim'
  <2>1. /\ \A k \in Jobs : k # j => job'[k] = job[k]
        /\ job'[j].pc \in {"free", "owing"}
    BY <1>0, <1>3, GotoEffect, FreeUpEffect DEF TypeOK, Pcs, LetGo
  <2>2. job'[j].pc \notin Holding
    BY <2>1 DEF Holding, Running
  <2>3. ExclusiveClaim'
    BY <1>0, <2>1, <2>2 DEF ExclusiveClaim, Holds
  <2>4. CASE UNCHANGED progress
    BY <1>0, <2>1, <2>2, <2>3, <2>4 DEF HolderState
  <2>5. ASSUME NEW new, job[j].pc \in Holding, progress' = [progress EXCEPT ![job[j].task] = new]
        PROVE  HolderState'
    <3>1. ASSUME NEW k \in Jobs, job'[k].pc \in Holding
          PROVE  /\ job'[k] = job[k]
                 /\ progress'[job[k].task] = progress[job[k].task]
      <4>1. k # j /\ job'[k] = job[k]
        BY <2>1, <2>2, <3>1
      <4>2. job[k].task # job[j].task
        BY <1>0, <1>b, <2>5, <3>1, <4>1 DEF ExclusiveClaim, Holds
      <4>3. QED
        BY <1>0, <1>b, <2>5, <3>1, <4>1, <4>2 DEF TypeOK
    <3>2. QED
      BY <1>0, <3>1 DEF HolderState
  <2>6. QED
    BY <1>3, <2>3, <2>4, <2>5 DEF LetGo
<1>4. ASSUME NEW s \in Stages, NEW j \in Jobs, ClaimTask(s, j)
      PROVE  HolderState' /\ ExclusiveClaim'
  <2> DEFINE t == fetched[s].task
  <2>1. /\ t \in Tasks /\ progress[t] = Initial[s]
        /\ progress' = [progress EXCEPT ![t] = Intermediate[s]]
        /\ job'[j].task = t /\ job'[j].stage = s
        /\ \A k \in Jobs : k # j => job'[k] = job[k]
    BY <1>0, <1>4 DEF ClaimTask, UpdateTaskProgress, TypeOK
  <2>2. \A k \in Jobs : k # j /\ job'[k].pc \in Holding => job[k].task # t
    BY <1>0, <1>a, <1>b, <2>1 DEF HolderState
  <2> HIDE DEF t
  <2>3. HolderState'
    <3>1. progress'[t] = Intermediate[s]
      BY <1>0, <2>1 DEF TypeOK
    <3>2. ASSUME NEW k \in Jobs, k # j, job'[k].pc \in Holding
          PROVE  progress'[job[k].task] = progress[job[k].task]
      BY <1>0, <1>b, <2>1, <2>2, <3>2 DEF TypeOK
    <3>3. QED
      BY <1>0, <2>1, <3>1, <3>2 DEF HolderState
  <2>4. ExclusiveClaim'
    BY <1>0, <2>1, <2>2 DEF ExclusiveClaim, Holds
  <2>5. QED
    BY <2>3, <2>4
<1>5. ASSUME NEW s \in Stages, StartJob(s)  PROVE HolderState' /\ ExclusiveClaim'
  <2> DEFINE j == Head(queue[s])
  <2>1. j \in Jobs /\ job[j].pc = "queued" /\ Goto(j, "running") /\ UNCHANGED progress
    <3>1. queue[s] \in Seq(Jobs) /\ queue[s] # << >>
      BY <1>0, <1>5 DEF StartJob, TypeOK
    <3>2. j \in Jobs /\ j = queue[s][1] /\ 1 \in 1 .. Len(queue[s])
      BY <3>1
    <3>3. QED
      BY <1>0, <1>5, <3>2 DEF QueuedJobsWait, StartJob
  <2> HIDE DEF j
  <2>2. /\ \A k \in Jobs : k # j => job'[k] = job[k]
        /\ job'[j].stage = job[j].stage /\ job'[j].task = job[j].task
    BY <1>0, <2>1, GotoEffect DEF TypeOK, Pcs, Holding, Running
  <2>3. job[j].pc \in Holding
    BY <2>1 DEF Holding
  <2>4. HolderState'
    BY <1>0, <2>1, <2>2, <2>3 DEF HolderState
  <2>5. ExclusiveClaim'
    BY <1>0, <2>2, <2>3 DEF ExclusiveClaim, Holds
  <2>6. QED
    BY <2>4, <2>5
<1>6. ASSUME NEW t \in Tasks, AddTask(t)  PROVE HolderState' /\ ExclusiveClaim'
  <2>1. progress[t] = "None"
    BY <1>0, <1>6 DEF AddTask, CreatingChecked
  <2>2. \A j \in Jobs : job[j].pc \in Holding => job[j].task # t
    BY <1>0, <1>a, <1>b, <2>1 DEF HolderState
  <2>3. QED
    BY <1>0, <1>1, <1>b, <1>6, <2>2 DEF AddTask, TypeOK
<1>7. ASSUME NEW t \in Tasks, UserAcknowledged(t) \/ Settled(t)
      PROVE  HolderState' /\ ExclusiveClaim'
  <2>1. progress[t] \in {"Delivered", "UserAcknowledged"}
    BY <1>7 DEF UserAcknowledged, Settled
  <2>2. \A j \in Jobs : job[j].pc \in Holding => job[j].task # t
    BY <1>0, <1>a, <1>b, <2>1 DEF HolderState
  <2>3. QED
    BY <1>0, <1>1, <1>b, <1>7, <2>2 DEF UserAcknowledged, Settled, TypeOK
<1>8. ASSUME NEW t \in Tasks, CancelTask(t)  PROVE HolderState' /\ ExclusiveClaim'
  <2>1. \A o \in Tasks : \/ progress'[o] = progress[o]
                         \/ progress[o] \in {"Init", "SettingUp", "SetUp"} /\ progress'[o] = "Failed"
    BY <1>0, <1>8 DEF CancelTask, TypeOK
  <2>2. \A j \in Jobs :
          job[j].pc \in Holding /\ progress[job[j].task] \in {"Init", "SettingUp", "SetUp"}
            => job[j].stage = "setup"
    BY <1>0, <1>a, <1>b DEF HolderState
  <2>3. QED
    BY <1>1, <1>b, <1>8, <2>1, <2>2 DEF CancelTask
<1>9. CASE Restart
  <2>1. \A j \in Jobs : job'[j].pc \notin Holding
    BY <1>9 DEF Restart, FreeJob, Holding, Running
  <2>2. QED
    BY <2>1 DEF HolderState, ExclusiveClaim, Holds
<1>10. QED
  BY <1>1, <1>2, <1>3, <1>4, <1>5, <1>6, <1>7, <1>8, <1>9, WorkerSteps
     DEF Next, Broker, Polling, ReadNextTask, ClaimLost, HandleNoTask, ServiceReleased,
         ReleaseFailed, LateMined, AbandonedEnds, CreateTask

------------------------------------------------------------------------------
(* The refinement step: what any step of the pipeline does to the progress *)
(* column is a move of TaskLifecycle, or nothing.                          *)
LEMMA LifecycleStep ==
  ASSUME IInv, Next
  PROVE  Lifecycle!Next \/ UNCHANGED progress
<1>0. /\ TypeOK /\ JobsHaveTasks /\ HolderState /\ CreatingChecked /\ OneUnfinishedPerUser
      /\ progress \in [Tasks -> Progress]
  BY DEF IInv, TypeOK
<1>a. \A s \in Stages : /\ <<Initial[s], Intermediate[s]>> \in Lifecycle!Moves
                        /\ <<Intermediate[s], Initial[s]>> \in Lifecycle!Moves
                        /\ <<Intermediate[s], Final[s]>> \in Lifecycle!Moves
                        /\ <<Intermediate[s], "Failed">> \in Lifecycle!Moves
  BY DEF Stages, Initial, Intermediate, Final, Lifecycle!Moves
<1>b. \A t \in Tasks : Unfinished(t) <=> Lifecycle!Unfinished(t)
  BY DEF Unfinished, Lifecycle!Unfinished, Lifecycle!Terminal
<1>1. ASSUME NEW t \in Tasks, NEW old, NEW new, <<old, new>> \in Lifecycle!Moves,
             progress[t] = old, progress' = [progress EXCEPT ![t] = new]
      PROVE  Lifecycle!Next
  <2>1. Lifecycle!Move(t)
    BY <1>1 DEF Lifecycle!Move
  <2>2. QED
    BY <2>1 DEF Lifecycle!Next
<1>2. ASSUME NEW j \in Jobs, LetGo(j)  PROVE Lifecycle!Next \/ UNCHANGED progress
  <2>1. job[j].task \in Tasks /\ job[j].stage \in Stages
    BY <1>0, <1>2 DEF LetGo, JobsHaveTasks, TypeOK, JobRecord
  <2>2. QED
    BY <1>1, <1>2, <1>a, <2>1 DEF LetGo
<1>3. ASSUME NEW s \in Stages, NEW j \in Jobs, ClaimTask(s, j)  PROVE Lifecycle!Next
  <2>1. fetched[s].task \in Tasks
    BY <1>0, <1>3 DEF ClaimTask, TypeOK
  <2>2. QED
    BY <1>1, <1>3, <1>a, <2>1 DEF ClaimTask, UpdateTaskProgress
<1>4. ASSUME NEW t \in Tasks, AddTask(t)  PROVE Lifecycle!Next \/ UNCHANGED progress
  <2>1. progress[t] = "None" /\ \A o \in Tasks : UserOf[o] = UserOf[t] => ~Unfinished(o)
    BY <1>0, <1>4 DEF AddTask, CreatingChecked
  <2>2. progress' = [progress EXCEPT ![t] = "Init"] => Lifecycle!Create(t)
    BY <1>b, <2>1 DEF Lifecycle!Create
  <2>3. QED
    BY <1>4, <2>2 DEF AddTask, Lifecycle!Next
<1>5. ASSUME NEW t \in Tasks, UserAcknowledged(t) \/ Settled(t)  PROVE Lifecycle!Next
  <2>1. /\ <<"Delivered", "UserAcknowledged">> \in Lifecycle!Moves
        /\ <<"Delivered", "Finished">> \in Lifecycle!Moves
        /\ <<"UserAcknowledged", "Finished">> \in Lifecycle!Moves
    BY DEF Lifecycle!Moves
  <2>2. QED
    BY <1>1, <1>5, <2>1 DEF UserAcknowledged, Settled
<1>6. ASSUME NEW t \in Tasks, CancelTask(t)  PROVE Lifecycle!Next
  <2> DEFINE rows == {o \in Tasks : /\ UserOf[o] = UserOf[t]
                                    /\ progress[o] \in {"Init", "SettingUp", "SetUp"}}
  <2>1. PICK r \in Tasks : r \in rows
    BY <1>6 DEF CancelTask
  <2>2. \A o \in rows : o = r
    BY <1>0, <2>1 DEF OneUnfinishedPerUser, Unfinished
  <2>3. progress' = [o \in Tasks |-> IF o \in rows THEN "Failed" ELSE progress[o]]
    BY <1>6 DEF CancelTask
  <2>4. progress' = [progress EXCEPT ![r] = "Failed"]
    BY <1>0, <2>1, <2>2, <2>3
  <2>5. QED
    BY <2>1, <2>4 DEF Lifecycle!Withdraw, Lifecycle!Next
<1>7. CASE Restart
  BY <1>7, <1>b DEF Restart, MarkInProgressTasksAsFailed, Lifecycle!GiveUp, Lifecycle!Next
<1>8. QED
  BY <1>2, <1>3, <1>4, <1>5, <1>6, <1>7, WorkerSteps
     DEF Next, Broker, Polling, ReadNextTask, ClaimLost, StartJob, HandleNoTask,
         ServiceReleased, ReleaseFailed, LateMined, AbandonedEnds, CreateTask, Advance

(* A task becomes unfinished only by being created.                        *)
LEMMA OnlyCreatedBecomesUnfinished ==
  ASSUME IInv, Next, NEW t \in Tasks, ~Unfinished(t), Unfinished(t)'
  PROVE  t \in creating /\ AddTask(t)
<1>1. progress \in [Tasks -> Progress] /\ creating \subseteq Tasks
  BY DEF IInv, TypeOK
<1>2. progress[t] \in {"None", "Finished", "Failed"} /\ progress'[t] # progress[t]
  BY DEF Unfinished
<1>3. \A o \in Tasks : AddTask(o) => o = t \/ progress'[t] = progress[t]
  BY <1>1 DEF AddTask
<1>4. CASE \E o \in Tasks : AddTask(o)
  BY <1>2, <1>3, <1>4 DEF AddTask
<1>5. CASE Restart
  BY <1>5 DEF Restart, MarkInProgressTasksAsFailed, Unfinished
<1>6. ASSUME NEW j \in Jobs, LetGo(j)  PROVE FALSE
  <2>1. /\ job[j].stage \in Stages
        /\ Intermediate[job[j].stage] \notin {"None", "Finished", "Failed"}
    <3>1. job[j].stage \in Stages
      BY DEF IInv, TypeOK, JobRecord
    <3>2. QED
      BY <3>1 DEF Stages, Intermediate
  <2>2. QED
    BY <1>1, <1>2, <1>6, <2>1 DEF LetGo
<1>7. ASSUME NEW s \in Stages, NEW j \in Jobs, ClaimTask(s, j)  PROVE FALSE
  <2>1. Initial[s] \notin {"None", "Finished", "Failed"}
    BY DEF Stages, Initial
  <2>2. QED
    BY <1>1, <1>2, <1>7, <2>1 DEF ClaimTask, UpdateTaskProgress
<1>8. ASSUME NEW o \in Tasks, UserAcknowledged(o) \/ Settled(o)  PROVE FALSE
  BY <1>1, <1>2, <1>8 DEF UserAcknowledged, Settled
<1>9. ASSUME NEW o \in Tasks, CancelTask(o)  PROVE FALSE
  BY <1>1, <1>2, <1>9 DEF CancelTask
<1>10. CASE UNCHANGED progress
  BY <1>2, <1>10
<1>11. QED
  BY <1>4, <1>5, <1>6, <1>7, <1>8, <1>9, <1>10, WorkerSteps
     DEF Next, Broker, Polling, ReadNextTask, ClaimLost, StartJob, HandleNoTask,
         ServiceReleased, ReleaseFailed, LateMined, AbandonedEnds, CreateTask, Advance

(* The check made under taskMutex still holds at the insert, and with it   *)
(* the promise of one unfinished task per customer.                        *)
LEMMA CreatingStep ==
  ASSUME IInv, Next
  PROVE  CreatingChecked' /\ OneUnfinishedPerUser'
<1>0. /\ TypeOK /\ CreatingChecked /\ OneUnfinishedPerUser
      /\ creating \subseteq Tasks
  BY DEF IInv, TypeOK
<1>1. OneUnfinishedPerUser'
  <2>1. SUFFICES ASSUME NEW t \in Tasks, NEW o \in Tasks, Unfinished(t)', Unfinished(o)',
                        UserOf[t] = UserOf[o]
                 PROVE  t = o
    BY DEF OneUnfinishedPerUser
  <2>2. CASE Unfinished(t) /\ Unfinished(o)
    BY <1>0, <2>1, <2>2 DEF OneUnfinishedPerUser
  <2>3. CASE ~Unfinished(t) /\ ~Unfinished(o)
    <3>1. t \in creating /\ o \in creating
      BY <2>1, <2>3, OnlyCreatedBecomesUnfinished
    <3>2. QED
      BY <1>0, <3>1 DEF CreatingChecked
  <2>4. CASE ~Unfinished(t) /\ Unfinished(o)
    BY <1>0, <2>1, <2>4, OnlyCreatedBecomesUnfinished DEF CreatingChecked
  <2>5. CASE Unfinished(t) /\ ~Unfinished(o)
    BY <1>0, <2>1, <2>5, OnlyCreatedBecomesUnfinished DEF CreatingChecked
  <2>6. QED
    BY <2>2, <2>3, <2>4, <2>5
<1>2. ASSUME NEW t \in Tasks, AddTask(t)  PROVE CreatingChecked'
  BY <1>0, <1>2 DEF AddTask, CreatingChecked
<1>3. ASSUME NEW t \in Tasks, NEW wait \in BOOLEAN, CreateTask(t, wait)  PROVE CreatingChecked'
  BY <1>0, <1>3 DEF CreateTask, CreatingChecked, Unfinished
<1>4. CASE Restart
  BY <1>1, <1>4 DEF Restart, CreatingChecked
<1>5. ASSUME UNCHANGED creating, \A t \in Tasks : ~AddTask(t)  PROVE CreatingChecked'
  <2>1. \A t \in Tasks : Unfinished(t)' => Unfinished(t)
    BY <1>5, OnlyCreatedBecomesUnfinished
  <2>2. ASSUME NEW t \in creating  PROVE progress'[t] = "None"
    <3>1. progress[t] = "None" /\ t \in Tasks /\ progress \in [Tasks -> Progress]
      BY <1>0, <2>2 DEF CreatingChecked, TypeOK
    <3>2. \A m \in Lifecycle!Moves : m[1] # "None"
      BY DEF Lifecycle!Moves
    <3>3. \A o \in Tasks : Lifecycle!Move(o) \/ Lifecycle!Withdraw(o) => progress'[t] = "None"
      BY <3>1, <3>2 DEF Lifecycle!Move, Lifecycle!Withdraw
    <3>4. Lifecycle!GiveUp => progress'[t] = "None"
      BY <3>1 DEF Lifecycle!GiveUp, Lifecycle!Unfinished, Lifecycle!Terminal
    <3>5. \A o \in Tasks : Lifecycle!Create(o) => Unfinished(o)' /\ ~Unfinished(o)
      BY <3>1 DEF Lifecycle!Create, Unfinished
    <3>6. QED
      BY <2>1, <3>1, <3>3, <3>4, <3>5, LifecycleStep DEF Lifecycle!Next
  <2>3. QED
    BY <1>0, <1>5, <2>1, <2>2 DEF CreatingChecked
<1>6. CASE UNCHANGED creating
  BY <1>1, <1>2, <1>5, <1>6
<1>7. QED
  BY <1>1, <1>2, <1>3, <1>4, <1>6, WorkerSteps
     DEF Next, Broker, Polling, ReadNextTask, ClaimLost, ClaimTask, StartJob, HandleNoTask,
         ServiceReleased, ReleaseFailed, LateMined, AbandonedEnds, UserAcknowledged, Settled, CancelTask,
         Advance, LetGo

(* The flag is cleared only by a loop that has just seen nothing on its    *)
(* way to training and claims nothing until the transaction is through.    *)
LEMMA ReleaseStep ==
  ASSUME IInv, Next
  PROVE  ReleaseIsAlone'
<1>0. /\ TypeOK /\ JobsHaveTasks /\ QueuedJobsWait /\ HolderState
      /\ ReleaseIsAlone /\ NoTask \notin Tasks
      /\ "executor" \in Stages
  BY PipelineAssumption DEF IInv, Stages
<1>1. ASSUME UNCHANGED << job, releasing >>, fetched' = fetched \/ ~releasing
      PROVE  ReleaseIsAlone'
  BY <1>0, <1>1 DEF ReleaseIsAlone
<1>2. ASSUME NEW j \in Jobs, Advance(j)  PROVE ReleaseIsAlone'
  <2>1. PICK pc \in {"executing", "training", "done", "failing", "sigfail"} :
          Goto(j, pc) /\ (pc = "training" => occupied')
    BY <1>2 DEF Advance
  <2>2. /\ \A k \in Jobs : k # j => job'[k] = job[k]
        /\ job'[j].stage = job[j].stage /\ job'[j].pc = pc
    BY <1>0, <2>1, GotoEffect DEF TypeOK, Pcs, Holding, Running
  <2>3. job[j].pc \in Holding /\ UNCHANGED << releasing, fetched >>
    BY <1>2 DEF Advance, Holding
  <2>4. ReleaseIsAlone'
    BY <1>0, <2>2, <2>3 DEF ReleaseIsAlone
  <2>5. QED
    BY <2>4
<1>3. ASSUME NEW j \in Jobs, LetGo(j)  PROVE ReleaseIsAlone'
  <2>1. /\ \A k \in Jobs : k # j => job'[k] = job[k]
        /\ job'[j].pc \in {"free", "owing"}
    BY <1>0, <1>3, GotoEffect, FreeUpEffect DEF TypeOK, Pcs, LetGo
  <2>2. job'[j].pc \notin Holding /\ job'[j].pc # "training"
    BY <2>1 DEF Holding, Running
  <2>3. UNCHANGED << releasing, fetched, occupied >>
    BY <1>3 DEF LetGo
  <2>4. QED
    BY <1>0, <2>1, <2>2, <2>3 DEF ReleaseIsAlone
<1>4. ASSUME NEW s \in Stages, ReadNextTask(s) \/ ClaimLost(s)
      PROVE  ReleaseIsAlone'
  <2>1. UNCHANGED << job, occupied, releasing >>
    BY <1>4 DEF ReadNextTask, ClaimLost
  <2>2. fetched' = fetched \/ ~releasing \/ s # "executor"
    BY <1>0, <1>4 DEF ReadNextTask, ClaimLost, PollIdle, ReleaseIsAlone
  <2>3. s # "executor" => fetched'["executor"] = fetched["executor"]
    BY <1>0, <1>4 DEF ReadNextTask, ClaimLost, TypeOK
  <2>4. QED
    BY <1>0, <2>1, <2>2, <2>3 DEF ReleaseIsAlone
<1>5. ASSUME NEW s \in Stages, NEW j \in Jobs, ClaimTask(s, j)
      PROVE  ReleaseIsAlone'
  <2>1. /\ job'[j].pc = "queued" /\ job'[j].stage = s
        /\ \A k \in Jobs : k # j => job'[k] = job[k]
        /\ UNCHANGED << occupied, releasing >>
    BY <1>0, <1>5 DEF ClaimTask, TypeOK
  <2>2. fetched'["executor"] = fetched["executor"] \/ s = "executor"
    BY <1>0, <1>5 DEF ClaimTask, TypeOK
  <2>3. s = "executor" => ~releasing
    BY <1>0, <1>5 DEF ClaimTask, ReleaseIsAlone
  <2>4. QED
    BY <1>0, <2>1, <2>2, <2>3 DEF ReleaseIsAlone
<1>6. ASSUME NEW s \in Stages, StartJob(s)  PROVE ReleaseIsAlone'
  <2> DEFINE j == Head(queue[s])
  <2>1. /\ j \in Jobs /\ job[j].pc = "queued" /\ Goto(j, "running")
        /\ UNCHANGED << occupied, releasing, fetched >>
    <3>1. queue[s] \in Seq(Jobs) /\ queue[s] # << >>
      BY <1>0, <1>6 DEF StartJob, TypeOK
    <3>2. j \in Jobs /\ j = queue[s][1] /\ 1 \in 1 .. Len(queue[s])
      BY <3>1
    <3>3. QED
      BY <1>0, <1>6, <3>2 DEF QueuedJobsWait, StartJob
  <2> HIDE DEF j
  <2>2. /\ \A k \in Jobs : k # j => job'[k] = job[k]
        /\ job'[j].stage = job[j].stage /\ job'[j].pc = "running"
    BY <1>0, <2>1, GotoEffect DEF TypeOK, Pcs, Holding, Running
  <2>3. job[j].pc \in Holding
    BY <2>1 DEF Holding
  <2>4. QED
    BY <1>0, <2>1, <2>2, <2>3 DEF ReleaseIsAlone
<1>7. CASE HandleNoTask
  <2>1. fetched["executor"].task = NoTask
    BY <1>7 DEF HandleNoTask, PollIdle, NoRow
  <2>2. \A t \in Tasks : progress[t] # "Training"
    BY <1>7 DEF HandleNoTask, NothingPending, PendingTraining
  <2>3. \A j \in Jobs : job[j].pc \in Holding => job[j].stage # "executor"
    BY <1>0, <2>2 DEF HolderState, JobsHaveTasks, Intermediate, Holding, Running
  <2>4. QED
    BY <1>0, <1>7, <2>1, <2>3 DEF HandleNoTask, ReleaseIsAlone
<1>8. CASE ServiceReleased \/ ReleaseFailed
  <2>1. \A j \in Jobs : job[j].pc # "training"
    BY <1>0, <1>8
       DEF ServiceReleased, ReleaseFailed, ReleaseIsAlone, JobsHaveTasks, Holding, Running
  <2>2. QED
    BY <1>8, <2>1 DEF ServiceReleased, ReleaseFailed, ReleaseIsAlone
<1>9. CASE Restart
  BY <1>9 DEF Restart, FreeJob, ReleaseIsAlone
<1>10. QED
  BY <1>1, <1>2, <1>3, <1>4, <1>5, <1>6, <1>7, <1>8, <1>9, WorkerSteps
     DEF Next, Broker, Polling, LateMined, AbandonedEnds, AddTask, UserAcknowledged, Settled,
         CancelTask, CreateTask

(* What a step does to the flag while a container trains: the executor     *)
(* raises it before the container starts, a loop that clears it has none   *)
(* training beside it, and what is left is a transaction mined late.       *)
LEMMA TrainingStep ==
  ASSUME IInv, Next
  PROVE  TrainingKeepsFlag
<1>0. /\ TypeOK /\ JobsHaveTasks /\ QueuedJobsWait /\ ReleaseIsAlone
      /\ occupied \in BOOLEAN
  BY DEF IInv, TypeOK
<1>1. ASSUME \A k \in Jobs : job'[k].pc = "training" => job[k].pc = "training",
             occupied => occupied'
      PROVE  TrainingKeepsFlag
  BY <1>1 DEF TrainingKeepsFlag
<1>2. ASSUME NEW j \in Jobs, Advance(j)  PROVE TrainingKeepsFlag
  <2>1. PICK pc \in {"executing", "training", "done", "failing", "sigfail"} :
          Goto(j, pc) /\ (pc = "training" => occupied')
    BY <1>2 DEF Advance
  <2>2. /\ \A k \in Jobs : k # j => job'[k] = job[k]
        /\ job'[j].pc = pc
    BY <1>0, <2>1, GotoEffect DEF TypeOK, Pcs, Holding, Running
  <2>3. occupied => occupied'
    BY <1>2 DEF Advance
  <2>4. QED
    BY <2>1, <2>2, <2>3 DEF TrainingKeepsFlag
<1>3. ASSUME NEW j \in Jobs, LetGo(j)  PROVE TrainingKeepsFlag
  <2>1. /\ \A k \in Jobs : k # j => job'[k] = job[k]
        /\ job'[j].pc \in {"free", "owing"}
    BY <1>0, <1>3, GotoEffect, FreeUpEffect DEF TypeOK, Pcs, LetGo
  <2>2. UNCHANGED occupied
    BY <1>3 DEF LetGo
  <2>3. QED
    BY <1>1, <2>1, <2>2
<1>4. ASSUME NEW s \in Stages, NEW j \in Jobs, ClaimTask(s, j)  PROVE TrainingKeepsFlag
  <2>1. /\ job'[j].pc = "queued" /\ \A k \in Jobs : k # j => job'[k] = job[k]
        /\ UNCHANGED occupied
    BY <1>0, <1>4 DEF ClaimTask, TypeOK
  <2>2. QED
    BY <1>1, <2>1
<1>5. ASSUME NEW s \in Stages, StartJob(s)  PROVE TrainingKeepsFlag
  <2> DEFINE j == Head(queue[s])
  <2>1. j \in Jobs /\ Goto(j, "running") /\ UNCHANGED occupied
    <3>1. queue[s] \in Seq(Jobs) /\ queue[s] # << >>
      BY <1>0, <1>5 DEF StartJob, TypeOK
    <3>2. QED
      BY <1>5, <3>1 DEF StartJob
  <2> HIDE DEF j
  <2>2. \A k \in Jobs : k # j => job'[k] = job[k]
    BY <1>0, <2>1, GotoEffect DEF TypeOK, Pcs, Holding, Running
  <2>3. job'[j].pc = "running"
    BY <1>0, <2>1, GotoEffect DEF TypeOK, Pcs, Holding, Running
  <2>4. QED
    BY <1>1, <2>1, <2>2, <2>3
<1>6. CASE ServiceReleased \/ ReleaseFailed
  <2>1. \A j \in Jobs : job[j].pc # "training"
    BY <1>0, <1>6
       DEF ServiceReleased, ReleaseFailed, ReleaseIsAlone, JobsHaveTasks, Holding, Running
  <2>2. job' = job
    BY <1>6 DEF ServiceReleased, ReleaseFailed
  <2>3. QED
    BY <2>1, <2>2 DEF TrainingKeepsFlag
<1>7. CASE LateMined
  <2>1. job' = job /\ (occupied' = occupied \/ occupied' = Head(left))
    BY <1>7 DEF LateMined
  <2>2. QED
    BY <1>7, <2>1 DEF TrainingKeepsFlag
<1>8. CASE Restart
  BY <1>8 DEF Restart, FreeJob, TrainingKeepsFlag
<1>9. CASE UNCHANGED << job, occupied >>
  BY <1>1, <1>9
<1>10. QED
  BY <1>2, <1>3, <1>4, <1>5, <1>6, <1>7, <1>8, <1>9, WorkerSteps
     DEF Next, Broker, Polling, ReadNextTask, ClaimLost, HandleNoTask, AbandonedEnds, AddTask,
         UserAcknowledged, Settled, CancelTask, CreateTask

------------------------------------------------------------------------------
(* The inductive invariant, and what follows from it.                      *)

(* Nothing has happened yet.                                               *)
LEMMA InitIInv == Init => IInv
<1> SUFFICES ASSUME Init PROVE IInv
  OBVIOUS
<1>0. /\ \A s \in Stages : queue[s] = << >> /\ fetched[s] = NoRow
      /\ \A j \in Jobs : job[j] = FreeJob
      /\ \A t \in Tasks : progress[t] = "None"
      /\ "executor" \in Stages
  BY DEF Init, Stages
<1>1. TypeOK
  <2>1. FreeJob \in JobRecord /\ NoRow \in [task : Tasks \union {NoTask}, retries : Nat]
    BY DEF FreeJob, NoRow, JobRecord, Stages
  <2>2. "None" \in Progress
    BY DEF Progress
  <2>a. << >> \in Seq(Tasks) /\ << >> \in Seq(Jobs)
    OBVIOUS
  <2>b. created \in Seq(Tasks) /\ queue \in [Stages -> Seq(Jobs)]
    BY <2>a DEF Init
  <2>3. /\ creating \subseteq Tasks /\ abandoned \subseteq Tasks \X Stages
        /\ occupied \in BOOLEAN /\ releasing \in BOOLEAN /\ left \in Seq(BOOLEAN)
    <3>1. << >> \in Seq(BOOLEAN)
      OBVIOUS
    <3>2. QED
      BY <3>1 DEF Init
  <2>4. /\ progress \in [Tasks -> Progress]
        /\ retries \in [Tasks -> [Stages -> Nat]]
    BY <2>2 DEF Init
  <2>5. /\ fetched \in [Stages -> [task : Tasks \union {NoTask}, retries : Nat]]
        /\ job \in [Jobs -> JobRecord]
    BY <2>1 DEF Init
  <2>6. QED
    BY <2>b, <2>3, <2>4, <2>5 DEF TypeOK
<1>2. JobsHaveTasks /\ HolderState /\ ExclusiveClaim
  BY <1>0 DEF FreeJob, JobsHaveTasks, HolderState, ExclusiveClaim, Holds, Holding, Running
<1>3. QueuedJobsWait
  BY <1>0 DEF QueuedJobsWait
<1>4. CreatingChecked /\ ReleaseIsAlone /\ OneUnfinishedPerUser
  BY <1>0 DEF Init, CreatingChecked, ReleaseIsAlone, OneUnfinishedPerUser, Unfinished
<1>5. QED
  BY <1>1, <1>2, <1>3, <1>4 DEF IInv

(* A step that changes nothing preserves it.                               *)
LEMMA StutterIInv == IInv /\ UNCHANGED vars => IInv'
<1> SUFFICES ASSUME IInv, UNCHANGED vars PROVE IInv'
  OBVIOUS
<1>1. TypeOK' /\ JobsHaveTasks' /\ QueuedJobsWait' /\ HolderState'
  BY DEF IInv, vars, TypeOK, JobsHaveTasks, QueuedJobsWait, HolderState
<1>2. CreatingChecked' /\ ReleaseIsAlone' /\ OneUnfinishedPerUser'
  BY DEF IInv, vars, CreatingChecked, ReleaseIsAlone, OneUnfinishedPerUser, Unfinished
<1>3. ExclusiveClaim'
  BY DEF IInv, vars, ExclusiveClaim, Holds
<1>4. QED
  BY <1>1, <1>2, <1>3 DEF IInv

(* IInv is an invariant of the pipeline.                                   *)
THEOREM Invariance == Spec => []IInv
<1>1. IInv /\ [Next]_vars => IInv'
  BY TypeStep, QueueStep, HolderStep, CreatingStep, ReleaseStep, StutterIInv DEF IInv
<1>2. QED
  BY InitIInv, <1>1, PTL DEF Spec

(* The state is well typed in every reachable state: the progress column   *)
(* holds a state schema.go declares, the pools hold real jobs.             *)
THEOREM TypeCorrect == Spec => []TypeOK
<1>1. IInv => TypeOK
  BY DEF IInv
<1>2. QED
  BY <1>1, Invariance, PTL

(* No task is ever worked on by two jobs (fetchNextTask's claim).          *)
THEOREM ClaimIsExclusive == Spec => []ExclusiveClaim
<1>1. IInv => ExclusiveClaim
  BY DEF IInv
<1>2. QED
  BY <1>1, Invariance, PTL

(* Training and delivery never run for a cancelled or failed task.         *)
THEOREM FailedTaskIsLeftAlone == Spec => []NoWorkOnFailedTask
<1>1. IInv => NoWorkOnFailedTask
  <2> SUFFICES ASSUME IInv, NEW j \in Jobs, job[j].pc \in Holding, job[j].stage # "setup"
               PROVE  progress[job[j].task] # "Failed"
    BY DEF NoWorkOnFailedTask
  <2>1. progress[job[j].task] = Intermediate[job[j].stage]
    BY DEF IInv, HolderState
  <2>2. job[j].stage \in Stages
    BY DEF IInv, TypeOK, JobRecord
  <2>3. QED
    BY <2>1, <2>2 DEF Stages, Intermediate
<1>2. QED
  BY <1>1, Invariance, PTL

(* A customer never has two unfinished tasks (ctrl.CreateTask).            *)
THEOREM OneTaskPerUser == Spec => []OneUnfinishedPerUser
<1>1. IInv => OneUnfinishedPerUser
  BY DEF IInv
<1>2. QED
  BY <1>1, Invariance, PTL

(* A training begins with the service shown occupied, and while it runs    *)
(* within its limit only a transaction left behind by a call that reported *)
(* failure takes the flag down (Executor.Execute and releaseService).      *)
THEOREM TrainingIsOccupied == Spec => OccupiedWhileTraining
<1>1. IInv /\ [Next]_vars => [TrainingKeepsFlag]_vars
  BY TrainingStep
<1>2. QED
  BY <1>1, Invariance, PTL DEF Spec, OccupiedWhileTraining

(* The pipeline, with its pools, retries, timeouts and restarts,           *)
(* implements the customer's view of a task.                               *)
THEOREM Refinement == Spec => Lifecycle!Spec
<1>1. Init => Lifecycle!Init
  BY DEF Init, Lifecycle!Init
<1>2. IInv /\ [Next]_vars => [Lifecycle!Next]_progress
  BY LifecycleStep DEF vars
<1>3. QED
  BY <1>1, <1>2, Invariance, PTL DEF Spec, Lifecycle!Spec

(* Refinement, under the name the run checks.                              *)
THEOREM PipelineImplementsLifecycle == Spec => ImplementsLifecycle
  BY Refinement DEF ImplementsLifecycle

------------------------------------------------------------------------------
(* The queue limit.  What the check admitted leaves room for one more      *)
(* until that one is inserted.                                             *)
Admitted ==
  /\ QueueBounded
  /\ creating # {} => Cardinality(PendingTraining) <= MaxTaskQueueSize

(* Only a creation makes a task pending.                                   *)
LEMMA PendingStep ==
  ASSUME IInv, Next, NEW t \in Tasks, t \in PendingTraining', t \notin PendingTraining
  PROVE  t \in creating /\ AddTask(t)
<1>0. progress \in [Tasks -> Progress]
  BY DEF IInv, TypeOK
<1>1. CASE Unfinished(t)
  <2>1. \A m \in Lifecycle!Moves :
          m[2] \in {"Init", "SettingUp", "SetUp", "Training"}
            => m[1] \in {"Init", "SettingUp", "SetUp", "Training"}
    BY DEF Lifecycle!Moves
  <2>2. progress'[t] # progress[t]
    BY DEF PendingTraining
  <2>3. \A o \in Tasks : ~Lifecycle!Create(o)
    <3>1. ASSUME NEW o \in Tasks, Lifecycle!Create(o)  PROVE FALSE
      <4>1. o = t
        BY <1>0, <2>2, <3>1 DEF Lifecycle!Create
      <4>2. QED
        BY <1>1, <3>1, <4>1 DEF Lifecycle!Create, Unfinished
    <3>2. QED
      BY <3>1
  <2>4. \A o \in Tasks : ~Lifecycle!Move(o)
    BY <1>0, <2>1, <2>2 DEF Lifecycle!Move, PendingTraining
  <2>5. \A o \in Tasks : ~Lifecycle!Withdraw(o)
    BY <1>0, <2>2 DEF Lifecycle!Withdraw, PendingTraining
  <2>6. ~Lifecycle!GiveUp
    BY <1>0, <2>2 DEF Lifecycle!GiveUp, PendingTraining
  <2>7. QED
    BY <2>2, <2>3, <2>4, <2>5, <2>6, LifecycleStep DEF Lifecycle!Next
<1>2. CASE ~Unfinished(t)
  BY <1>2, OnlyCreatedBecomesUnfinished DEF PendingTraining, Unfinished
<1>3. QED
  BY <1>1, <1>2

(* No step takes the queue over its limit.                                 *)
LEMMA AdmittedStep ==
  ASSUME IsFiniteSet(Tasks), IInv, Admitted, Next
  PROVE  Admitted'
<1>0. /\ IsFiniteSet(PendingTraining) /\ IsFiniteSet(PendingTraining')
      /\ Cardinality(PendingTraining) \in Nat /\ Cardinality(PendingTraining') \in Nat
      /\ MaxTaskQueueSize \in Nat
  <2>1. PendingTraining \in SUBSET Tasks /\ PendingTraining' \in SUBSET Tasks
    BY DEF PendingTraining
  <2>2. QED
    BY <2>1, FS_Subset, FS_CardinalityType, PipelineAssumption
<1>1. CASE PendingTraining' \subseteq PendingTraining
  <2>1. Cardinality(PendingTraining') <= Cardinality(PendingTraining)
    BY <1>0, <1>1, FS_Subset
  <2>2. \A t \in Tasks, wait \in BOOLEAN :
          CreateTask(t, wait) => Cardinality(PendingTraining) <= MaxTaskQueueSize
    BY DEF CreateTask
  <2>3. \/ creating' \subseteq creating
        \/ \E t \in Tasks, wait \in BOOLEAN : CreateTask(t, wait)
    BY WorkerSteps
       DEF Next, Broker, Polling, ReadNextTask, ClaimLost, ClaimTask, StartJob, HandleNoTask,
           ServiceReleased, ReleaseFailed, LateMined, AbandonedEnds, AddTask, UserAcknowledged, Settled,
           CancelTask, Restart, Advance, LetGo
  <2>4. creating' # {} => Cardinality(PendingTraining) <= MaxTaskQueueSize
    BY <2>2, <2>3 DEF Admitted
  <2>5. QED
    BY <1>0, <2>1, <2>4 DEF Admitted, QueueBounded
<1>2. ASSUME NEW t \in Tasks, t \in PendingTraining', t \notin PendingTraining
      PROVE  Admitted'
  <2>1. t \in creating /\ AddTask(t)
    BY <1>2, PendingStep
  <2>2. creating' = {}
    BY <2>1 DEF AddTask, IInv, CreatingChecked
  <2>3. PendingTraining' \in SUBSET (PendingTraining \cup {t})
    <3>1. ASSUME NEW o \in Tasks, o \in PendingTraining', o \notin PendingTraining
          PROVE  o = t
      BY <2>1, <3>1, PendingStep DEF IInv, CreatingChecked
    <3>2. QED
      BY <3>1 DEF PendingTraining
  <2>4. Cardinality(PendingTraining') <= Cardinality(PendingTraining \cup {t})
    BY <1>0, <2>3, FS_AddElement, FS_Subset
  <2>5. Cardinality(PendingTraining \cup {t}) = Cardinality(PendingTraining) + 1
    BY <1>0, <1>2, FS_AddElement
  <2>6. Cardinality(PendingTraining) <= MaxTaskQueueSize
    BY <2>1 DEF Admitted
  <2>7. QED
    BY <1>0, <2>2, <2>4, <2>5, <2>6 DEF Admitted, QueueBounded
<1>3. QED
  BY <1>1, <1>2 DEF PendingTraining

(* At most MaxTaskQueueSize + 1 tasks are on their way to training.        *)
THEOREM QueueIsBounded ==
  ASSUME IsFiniteSet(Tasks)
  PROVE  Spec => []QueueBounded
<1>1. Init => Admitted
  <2>1. Init => PendingTraining = {} /\ creating = {}
    BY DEF Init, PendingTraining
  <2>2. QED
    BY <2>1, FS_EmptySet, PipelineAssumption DEF Admitted, QueueBounded
<1>2. Admitted /\ UNCHANGED vars => Admitted'
  BY DEF vars, Admitted, QueueBounded, PendingTraining
<1>3. IInv /\ Admitted /\ [Next]_vars => Admitted'
  BY <1>2, AdmittedStep
<1>4. Admitted => QueueBounded
  BY DEF Admitted
<1>5. QED
  BY <1>1, <1>3, <1>4, Invariance, PTL DEF Spec

------------------------------------------------------------------------------
(* While the database answers no row is stranded in an intermediate state. *)
LEMMA ClaimedStep ==
  ASSUME ~DBMayFail, IInv, ClaimedTaskHasJob, Next
  PROVE  ClaimedTaskHasJob'
<1>0. /\ TypeOK /\ JobsHaveTasks /\ QueuedJobsWait
      /\ progress \in [Tasks -> Progress]
  BY DEF IInv, TypeOK
<1>a. \A s \in Stages : \A u \in Stages :
        /\ Initial[s] # Intermediate[u] /\ Final[s] # Intermediate[u] /\ "Failed" # Intermediate[u]
        /\ Intermediate[u] \notin {"Init", "UserAcknowledged", "Finished"}
        /\ Intermediate[s] = Intermediate[u] => s = u
  BY DEF Stages, Initial, Intermediate, Final
<1>1. ASSUME UNCHANGED job,
             \A s \in Stages, t \in Tasks :
               progress'[t] = Intermediate[s] => progress[t] = Intermediate[s]
      PROVE  ClaimedTaskHasJob'
  BY <1>1 DEF ClaimedTaskHasJob, Holds
<1>2. ASSUME NEW j \in Jobs, NEW pc \in Holding, Goto(j, pc), job[j].pc \in Holding,
             UNCHANGED progress
      PROVE  ClaimedTaskHasJob'
  <2>1. /\ \A k \in Jobs : k # j => job'[k] = job[k]
        /\ \A k \in Jobs : job'[k].stage = job[k].stage /\ job'[k].task = job[k].task
        /\ job'[j].pc = pc
    BY <1>0, <1>2, GotoEffect DEF TypeOK, Pcs
  <2>2. \A k \in Jobs, t \in Tasks : Holds(k, t) => Holds(k, t)'
    BY <1>2, <2>1 DEF Holds
  <2>3. QED
    BY <1>2, <2>1, <2>2 DEF ClaimedTaskHasJob
<1>3. ASSUME NEW j \in Jobs, Advance(j)  PROVE ClaimedTaskHasJob'
  <2>1. PICK pc \in {"executing", "training", "done", "failing", "sigfail"} : Goto(j, pc)
    BY <1>3 DEF Advance
  <2>2. pc \in Holding /\ job[j].pc \in Holding /\ UNCHANGED progress
    BY <1>3 DEF Advance, Holding, Running
  <2>3. QED
    BY <1>2, <2>1, <2>2
<1>4. ASSUME NEW j \in Jobs, LetGo(j)  PROVE ClaimedTaskHasJob'
  <2>1. \A k \in Jobs : k # j => job'[k] = job[k]
    BY <1>0, <1>4, GotoEffect, FreeUpEffect DEF TypeOK, Pcs, LetGo
  <2>2. \A k \in Jobs, t \in Tasks : k # j /\ Holds(k, t) => Holds(k, t)' /\ job'[k].stage = job[k].stage
    BY <2>1 DEF Holds
  <2>3. job[j].stage \in Stages
    BY <1>0 DEF TypeOK, JobRecord
  <2>4. ASSUME NEW s \in Stages, NEW t \in Tasks, progress'[t] = Intermediate[s]
        PROVE  progress[t] = Intermediate[s]
    <3>1. CASE UNCHANGED progress
      BY <2>4, <3>1
    <3>2. ASSUME NEW new \in {Initial[job[j].stage], Final[job[j].stage], "Failed"},
                 progress' = [progress EXCEPT ![job[j].task] = new]
          PROVE  progress[t] = Intermediate[s]
      BY <1>0, <1>a, <2>3, <2>4, <3>2
    <3>3. QED
      BY <1>4, <3>1, <3>2 DEF LetGo
  <2>5. ASSUME NEW s \in Stages, NEW t \in Tasks, progress'[t] = Intermediate[s]
        PROVE  \E k \in Jobs : Holds(k, t)' /\ job'[k].stage = s
    <3>1. PICK k \in Jobs : Holds(k, t) /\ job[k].stage = s
      BY <2>4, <2>5 DEF ClaimedTaskHasJob
    <3>2. k # j
      BY <1>4, <2>5, <3>1 DEF LetGo, Holds
    <3>3. QED
      BY <2>2, <3>1, <3>2
  <2>6. QED
    BY <2>5 DEF ClaimedTaskHasJob
<1>5. ASSUME NEW s \in Stages, NEW j \in Jobs, ClaimTask(s, j)  PROVE ClaimedTaskHasJob'
  <2> DEFINE r == fetched[s].task
  <2>1. /\ r \in Tasks /\ job[j].pc = "free"
        /\ progress' = [progress EXCEPT ![r] = Intermediate[s]]
        /\ job'[j].pc = "queued" /\ job'[j].task = r /\ job'[j].stage = s
        /\ \A k \in Jobs : k # j => job'[k] = job[k]
    BY <1>0, <1>5 DEF ClaimTask, UpdateTaskProgress, TypeOK
  <2> HIDE DEF r
  <2>2. ASSUME NEW u \in Stages, NEW t \in Tasks, progress'[t] = Intermediate[u]
        PROVE  \E k \in Jobs : Holds(k, t)' /\ job'[k].stage = u
    <3>1. CASE t = r
      <4>1. u = s
        BY <1>0, <1>a, <2>1, <2>2, <3>1
      <4>2. QED
        BY <2>1, <3>1, <4>1 DEF Holds, Holding
    <3>2. CASE t # r
      <4>1. PICK k \in Jobs : Holds(k, t) /\ job[k].stage = u
        BY <1>0, <2>1, <2>2, <3>2 DEF ClaimedTaskHasJob
      <4>2. k # j
        BY <2>1, <4>1 DEF Holds, Holding, Running
      <4>3. QED
        BY <2>1, <4>1, <4>2 DEF Holds
    <3>3. QED
      BY <3>1, <3>2
  <2>3. QED
    BY <2>2 DEF ClaimedTaskHasJob
<1>6. ASSUME NEW s \in Stages, StartJob(s)  PROVE ClaimedTaskHasJob'
  <2> DEFINE j == Head(queue[s])
  <2>1. j \in Jobs /\ job[j].pc = "queued" /\ Goto(j, "running") /\ UNCHANGED progress
    <3>1. queue[s] \in Seq(Jobs) /\ queue[s] # << >>
      BY <1>0, <1>6 DEF StartJob, TypeOK
    <3>2. j \in Jobs /\ j = queue[s][1] /\ 1 \in 1 .. Len(queue[s])
      BY <3>1
    <3>3. QED
      BY <1>0, <1>6, <3>2 DEF QueuedJobsWait, StartJob
  <2> HIDE DEF j
  <2>2. QED
    BY <1>2, <2>1 DEF Holding, Running
<1>7. ASSUME NEW t \in Tasks, AddTask(t) \/ UserAcknowledged(t) \/ Settled(t) \/ CancelTask(t)
      PROVE  ClaimedTaskHasJob'
  <2>1. \A o \in Tasks : \/ progress'[o] = progress[o]
                         \/ progress'[o] \in {"Init", "UserAcknowledged", "Finished", "Failed"}
    BY <1>0, <1>7 DEF AddTask, UserAcknowledged, Settled, CancelTask
  <2>2. UNCHANGED job
    BY <1>7 DEF AddTask, UserAcknowledged, Settled, CancelTask
  <2>3. QED
    BY <1>1, <1>a, <2>1, <2>2
<1>8. CASE Restart
  <2>1. \A s \in Stages, t \in Tasks : progress'[t] # Intermediate[s]
    BY <1>8 DEF Restart, MarkInProgressTasksAsFailed, Unfinished, Stages, Intermediate
  <2>2. QED
    BY <2>1 DEF ClaimedTaskHasJob
<1>9. QED
  BY <1>1, <1>3, <1>4, <1>5, <1>6, <1>7, <1>8, WorkerSteps
     DEF Next, Broker, Polling, ReadNextTask, ClaimLost, HandleNoTask, ServiceReleased,
         ReleaseFailed, LateMined, AbandonedEnds, CreateTask

(* If the database always answers, a task in SettingUp, Training or        *)
(* Delivering has a job working on it.                                     *)
THEOREM ClaimedTaskIsWorkedOn ==
  ASSUME ~DBMayFail
  PROVE  Spec => []ClaimedTaskHasJob
<1>1. Init => ClaimedTaskHasJob
  BY DEF Init, ClaimedTaskHasJob, Stages, Intermediate
<1>2. ClaimedTaskHasJob /\ UNCHANGED vars => ClaimedTaskHasJob'
  BY DEF vars, ClaimedTaskHasJob, Holds
<1>3. IInv /\ ClaimedTaskHasJob /\ [Next]_vars => ClaimedTaskHasJob'
  BY <1>2, ClaimedStep
<1>4. QED
  BY <1>1, <1>3, Invariance, PTL DEF Spec

==============================================================================

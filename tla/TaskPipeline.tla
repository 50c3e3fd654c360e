---------------------------- MODULE TaskPipeline -----------------------------
(***************************************************************************)
(* The fine-tuning broker's task pipeline: the HTTP handlers that create   *)
(* and cancel tasks (ctrl/task.go), the three polling services that take a *)
(* task through setup, training and delivery (services/service.go with     *)
(* setup.go, executor.go and finalizer.go), the retry bookkeeping of       *)
(* db/service.go, the occupied flag the executor keeps on the serving      *)
(* contract, and the restart of the process (cmd/server/main.go).          *)
(*                                                                         *)
(* One atomic step is one database statement or one contract call: the     *)
(* handlers, the polling loops and the workers of the three pools          *)
(* interleave between any two of them.                                     *)
(***************************************************************************)
EXTENDS Integers, Sequences, FiniteSets

CONSTANTS
  Tasks,             \* task ids
  UserOf,            \* the customer each id belongs to
  NoTask,            \* the nil task id
  Jobs,              \* closures submitted to the worker pools; bounds how many are alive
  Workers,           \* per stage: SetupWorkerCount, TrainingWorkerCount, FinalizerWorkerCount
  MaxRetries,        \* per stage: the configured retry limit
  MaxTaskQueueSize,  \* config.MaxTaskQueueSize
  MaxLeft,           \* bounds the transactions left behind at a time
  DBMayFail          \* whether a database statement may return an error

Stages == {"setup", "executor", "finalizer"}

ASSUME PipelineAssumption ==
  /\ NoTask \notin Tasks
  /\ Workers \in [Stages -> Nat \ {0}]
  /\ MaxRetries \in [Stages -> Nat]
  /\ MaxTaskQueueSize \in Nat
  /\ MaxLeft \in Nat
  /\ DBMayFail \in BOOLEAN

(* TaskStates of the three services.                                       *)
Initial      == [setup |-> "Init",      executor |-> "SetUp",    finalizer |-> "Trained"]
Intermediate == [setup |-> "SettingUp", executor |-> "Training", finalizer |-> "Delivering"]
FinalMisnamed == [setup |-> "Setup",    executor |-> "Trained",  finalizer |-> "Delivered"]
Final        == [setup |-> "SetUp",     executor |-> "Trained",  finalizer |-> "Delivered"]

ProgressState ==
  { "Init", "SettingUp", "SetUp", "Training", "Trained", "Delivering",
    "Delivered", "UserAcknowledged", "Finished", "Failed" }
Progress == ProgressState \union {"None"}     \* "None": no such row

VARIABLES
  progress,    \* the progress column
  retries,     \* the SetupRetries, ExecutorRetries and FinalizerRetries columns
  created,     \* rows in created_at order
  creating,    \* create requests past their checks, inside taskMutex
  fetched,     \* per service: the row its polling loop has read and not yet claimed
  queue,       \* per service: the worker pool's waiting queue
  job,         \* the closures in the pools
  abandoned,   \* <<task, stage>>: an execution, or container, that outlived its timeout
  occupied,    \* the Occupied flag of the service on the contract
  left,        \* flag transactions given up on and perhaps still to be mined, in nonce order
  releasing    \* HandleNoTask found nothing pending and is clearing the flag

vars == << progress, retries, created, creating, fetched, queue, job,
           abandoned, occupied, left, releasing >>

(* A job holds its task from the claim until it gives the task back; then  *)
(* it may still owe the retry count.                                       *)
Running == {"running", "executing", "training"}
Holding == Running \union {"queued", "done", "failing", "sigfail"}

JobRecord ==
  [ pc      : Holding \union {"free", "owing"},
    stage   : Stages,
    task    : Tasks \union {NoTask},
    retries : Nat ]

FreeJob == [pc |-> "free", stage |-> "setup", task |-> NoTask, retries |-> 0]
NoRow   == [task |-> NoTask, retries |-> 0]

Init ==
  /\ progress  = [t \in Tasks |-> "None"]
  /\ retries   = [t \in Tasks |-> [s \in Stages |-> 0]]
  /\ created   = << >>
  /\ creating  = {}
  /\ fetched   = [s \in Stages |-> NoRow]
  /\ queue     = [s \in Stages |-> << >>]
  /\ job       = [j \in Jobs |-> FreeJob]
  /\ abandoned = {}
  /\ occupied  = FALSE
  /\ left      = << >>
  /\ releasing = FALSE

------------------------------------------------------------------------------
(* Queries and statements on the task table.                               *)

PendingTrainingUnclaimed == {t \in Tasks : progress[t] \in {"Init", "SettingUp", "SetUp"}}
PendingTraining == {t \in Tasks : progress[t] \in {"Init", "SettingUp", "SetUp", "Training"}}
Unfinished(t)   == progress[t] \notin {"None", "Finished", "Failed"}

(* The oldest row in a state, if there is one.                             *)
GetNextTask(state) ==
  { t \in Tasks : \E i \in DOMAIN created :
      /\ created[i] = t /\ progress[t] = state
      /\ \A k \in 1 .. i - 1 : progress[created[k]] # state }

(* UPDATE ... WHERE id = t AND progress = old: no row is an error.         *)
UpdateTaskProgressBlindly(t, old, new) == progress' = [progress EXCEPT ![t] = new]
UpdateTaskProgress(t, old, new) ==
  /\ progress[t] = old
  /\ progress' = [progress EXCEPT ![t] = new]

(* UpdateTask leaves a Failed row alone.                                   *)
MarkTaskFailed(t) ==
  progress' = IF progress[t] # "Failed"
              THEN [progress EXCEPT ![t] = "Failed"] ELSE progress

------------------------------------------------------------------------------
(* HTTP handlers.                                                          *)

(* CreateTask up to its insert: taskMutex is taken, the customer has no    *)
(* unfinished task and the queue has room.                                 *)
CreateTaskUnlocked(t, wait) ==
  /\ t \notin creating
  /\ progress[t] = "None"
  /\ \A o \in Tasks : UserOf[o] = UserOf[t] => ~Unfinished(o)
  /\ Cardinality(PendingTraining) <= MaxTaskQueueSize
  /\ PendingTraining = {} \/ wait
  /\ creating' = creating \union {t}
  /\ UNCHANGED << progress, retries, created, fetched, queue, job,
                  abandoned, occupied, left, releasing >>
CreateTaskUncounted(t, wait) ==
  /\ creating = {}
  /\ progress[t] = "None"
  /\ \A o \in Tasks : UserOf[o] = UserOf[t] => ~Unfinished(o)
  /\ PendingTraining = {} \/ wait
  /\ creating' = {t}
  /\ UNCHANGED << progress, retries, created, fetched, queue, job,
                  abandoned, occupied, left, releasing >>
CreateTask(t, wait) ==
  /\ creating = {}
  /\ progress[t] = "None"
  /\ \A o \in Tasks : UserOf[o] = UserOf[t] => ~Unfinished(o)
  /\ Cardinality(PendingTraining) <= MaxTaskQueueSize
  /\ PendingTraining = {} \/ wait
  /\ creating' = {t}
  /\ UNCHANGED << progress, retries, created, fetched, queue, job,
                  abandoned, occupied, left, releasing >>

(* The insert, and the release of taskMutex on return.                     *)
AddTask(t) ==
  /\ t \in creating
  /\ \/ /\ progress' = [progress EXCEPT ![t] = "Init"]
        /\ created' = Append(created, t)
     \/ DBMayFail /\ UNCHANGED << progress, created >>
  /\ creating' = creating \ {t}
  /\ UNCHANGED << retries, fetched, queue, job, abandoned, occupied, left, releasing >>

(* A cancel request the customer signed for id t.  The statement selects   *)
(* by user and state; the id does not appear in it.                        *)
CancelTaskTraining(t) ==
  LET rows == {o \in Tasks : /\ UserOf[o] = UserOf[t]
                             /\ progress[o] \in {"Init", "SettingUp", "SetUp", "Training"}}
  IN  /\ rows # {}
      /\ progress' = [o \in Tasks |-> IF o \in rows THEN "Failed" ELSE progress[o]]
      /\ UNCHANGED << retries, created, creating, fetched, queue, job,
                      abandoned, occupied, left, releasing >>
CancelTask(t) ==
  LET rows == {o \in Tasks : /\ UserOf[o] = UserOf[t]
                             /\ progress[o] \in {"Init", "SettingUp", "SetUp"}}
  IN  /\ rows # {}
      /\ progress' = [o \in Tasks |-> IF o \in rows THEN "Failed" ELSE progress[o]]
      /\ UNCHANGED << retries, created, creating, fetched, queue, job,
                      abandoned, occupied, left, releasing >>

------------------------------------------------------------------------------
(* The polling loop of a service.                                          *)

(* The executor's flag may go down: nothing waits in its pool and no task  *)
(* is on its way to training.                                              *)
NothingPending == queue["executor"] = << >> /\ PendingTraining = {}

PollIdle(s) == fetched[s] = NoRow /\ (s = "executor" => ~releasing)

(* GetNextTask: the row is a snapshot, retry count included.               *)
ReadNextTask(s) ==
  /\ PollIdle(s)
  /\ \E t \in GetNextTask(Initial[s]) :
       fetched' = [fetched EXCEPT ![s] = [task |-> t, retries |-> retries[t][s]]]
  /\ UNCHANGED << progress, retries, created, creating, queue, job,
                  abandoned, occupied, left, releasing >>

(* The claim and queueTask.                                                *)
ClaimTaskUnmarked(s, j) ==
  LET t == fetched[s].task IN
  /\ t # NoTask
  /\ job[j].pc = "free"
  /\ progress[t] = Initial[s]
  /\ job' = [job EXCEPT ![j] = [pc |-> "queued", stage |-> s, task |-> t,
                                retries |-> fetched[s].retries]]
  /\ queue' = [queue EXCEPT ![s] = Append(@, j)]
  /\ fetched' = [fetched EXCEPT ![s] = NoRow]
  /\ UNCHANGED << progress, retries, created, creating, abandoned, occupied, left, releasing >>
ClaimTask(s, j) ==
  LET t == fetched[s].task IN
  /\ t # NoTask
  /\ job[j].pc = "free"
  /\ UpdateTaskProgress(t, Initial[s], Intermediate[s])
  /\ job' = [job EXCEPT ![j] = [pc |-> "queued", stage |-> s, task |-> t,
                                retries |-> fetched[s].retries]]
  /\ queue' = [queue EXCEPT ![s] = Append(@, j)]
  /\ fetched' = [fetched EXCEPT ![s] = NoRow]
  /\ UNCHANGED << retries, created, creating, abandoned, occupied, left, releasing >>

(* The row left its state between the read and the claim.                  *)
ClaimLost(s) ==
  /\ fetched[s].task # NoTask
  /\ progress[fetched[s].task] # Initial[s] \/ DBMayFail
  /\ fetched' = [fetched EXCEPT ![s] = NoRow]
  /\ UNCHANGED << progress, retries, created, creating, queue, job,
                  abandoned, occupied, left, releasing >>

(* OccupyService's transaction.  Its receipt shows that every transaction  *)
(* sent before it, with a lower nonce, is settled too.                     *)
Mined(flag) == occupied' = flag /\ left' = << >>

(* The call reports an error: nothing was sent, or the wait for a receipt  *)
(* was given up (WaitForReceipt) and the transaction stays in the pool.    *)
GivenUp(flag) ==
  /\ UNCHANGED occupied
  /\ \/ UNCHANGED left
     \/ Len(left) < MaxLeft /\ left' = Append(left, flag)

(* A transaction nobody waits for is mined after all, reverts, or is lost. *)
LateMined ==
  /\ left # << >>
  /\ occupied' \in {occupied, Head(left)}
  /\ left' = Tail(left)
  /\ UNCHANGED << progress, retries, created, creating, fetched, queue, job,
                  abandoned, releasing >>

(* Executor.HandleNoTask: releaseService passes its checks; the contract   *)
(* still shows the service occupied, so a transaction will be sent.        *)
HandleNoTaskInProgress ==
  /\ PollIdle("executor")
  /\ GetNextTask("SetUp") = {}
  /\ queue["executor"] = << >> /\ \A t \in Tasks : ~Unfinished(t)
  /\ occupied
  /\ releasing' = TRUE
  /\ UNCHANGED << progress, retries, created, creating, fetched, queue, job,
                  abandoned, occupied, left >>
HandleNoTask ==
  /\ PollIdle("executor")
  /\ GetNextTask("SetUp") = {}
  /\ NothingPending
  /\ occupied
  /\ releasing' = TRUE
  /\ UNCHANGED << progress, retries, created, creating, fetched, queue, job,
                  abandoned, occupied, left >>

(* The transaction of releaseService is mined, or the call's error is      *)
(* logged.                                                                 *)
ServiceReleased ==
  /\ releasing
  /\ releasing' = FALSE
  /\ Mined(FALSE)
  /\ UNCHANGED << progress, retries, created, creating, fetched, queue, job, abandoned >>

ReleaseFailed ==
  /\ releasing
  /\ releasing' = FALSE
  /\ GivenUp(FALSE)
  /\ UNCHANGED << progress, retries, created, creating, fetched, queue, job, abandoned >>

------------------------------------------------------------------------------
(* The workers: processTask for one job, statement by statement.           *)

Busy(s) == {j \in Jobs : job[j].stage = s /\ job[j].pc \notin {"free", "queued"}}

(* The configured limit of a stage; setup.go:104 reads the finalizer's.    *)
RetryLimit(s) == MaxRetries[IF s = "setup" THEN "finalizer" ELSE s]

Goto(j, pc) == job' = [job EXCEPT ![j].pc = pc]
FreeUp(j)   == job' = [job EXCEPT ![j] = FreeJob]

(* A worker of the pool takes the oldest job and starts the goroutine that *)
(* executes it.                                                            *)
StartJob(s) ==
  /\ queue[s] # << >>
  /\ Cardinality(Busy(s)) < Workers[s]
  /\ Goto(Head(queue[s]), "running")
  /\ queue' = [queue EXCEPT ![s] = Tail(@)]
  /\ UNCHANGED << progress, retries, created, creating, fetched, abandoned,
                  occupied, left, releasing >>

(* execute: the task must still be in the state it was claimed into.       *)
CheckProgress(j) ==
  /\ job[j].pc = "running"
  /\ \/ progress[job[j].task] = Intermediate[job[j].stage] /\ Goto(j, "executing")
     \/ /\ progress[job[j].task] # Intermediate[job[j].stage] \/ DBMayFail
        /\ Goto(j, "failing")
  /\ UNCHANGED << progress, retries, created, creating, fetched, queue,
                  abandoned, occupied, left, releasing >>

(* Executor.Execute: the service is marked occupied, by a transaction only *)
(* if the contract does not show it so already; then the container starts. *)
OccupyService(j) ==
  /\ job[j].pc = "executing"
  /\ job[j].stage = "executor"
  /\ IF occupied THEN UNCHANGED << occupied, left >> ELSE Mined(TRUE)
  /\ Goto(j, "training")
  /\ UNCHANGED << progress, retries, created, creating, fetched, queue,
                  abandoned, releasing >>

(* The deferred releaseService of Executor.Execute.                        *)
DeferredRelease(j) ==
  \/ UNCHANGED << occupied, left >>
  \/ /\ job[j].pc = "training" /\ NothingPending
     /\ occupied
     /\ Mined(FALSE) \/ GivenUp(FALSE)

(* The executor stops at its first call, with the flag perhaps on its way. *)
OccupyGivenUp(j) ==
  IF job[j].pc = "executing" /\ job[j].stage = "executor" /\ ~occupied
  THEN GivenUp(TRUE) ELSE UNCHANGED << occupied, left >>

(* Execute returns without error.                                          *)
ExecuteSucceeds(j) ==
  /\ job[j].pc = IF job[j].stage = "executor" THEN "training" ELSE "executing"
  /\ DeferredRelease(j)
  /\ Goto(j, "done")
  /\ UNCHANGED << progress, retries, created, creating, fetched, queue,
                  abandoned, releasing >>

(* Execute returns an error; GetTaskTimeout may also fail before it runs.  *)
ExecuteFails(j) ==
  /\ job[j].pc \in {"executing", "training"} \/ (job[j].pc = "running" /\ job[j].stage = "executor")
  /\ IF job[j].pc = "training" THEN DeferredRelease(j) ELSE OccupyGivenUp(j)
  /\ Goto(j, "failing")
  /\ UNCHANGED << progress, retries, created, creating, fetched, queue,
                  abandoned, releasing >>

(* Setup.verifySignature rejects the customer's signature.                 *)
SignatureRejected(j) ==
  /\ job[j].pc = "executing"
  /\ job[j].stage = "setup"
  /\ Goto(j, "sigfail")
  /\ UNCHANGED << progress, retries, created, creating, fetched, queue,
                  abandoned, occupied, left, releasing >>

(* runTaskWithTimeout returns ErrTaskTimeout.  The goroutine is not waited *)
(* for, and a container it has started is stopped and removed with a       *)
(* context that is already cancelled: both outlive the attempt.  Before    *)
(* the container starts, the executor's goroutine only has the occupying   *)
(* transaction in flight, which may still be mined.  The limit itself is   *)
(* read from the chain before the clock starts (GetTaskTimeout): the step  *)
(* assumes that this call answers.                                         *)
TimeoutBeforeCheck(j) ==
  /\ job[j].pc = "running"
  /\ Goto(j, "failing")
  /\ UNCHANGED << progress, retries, created, creating, fetched, queue,
                  abandoned, occupied, left, releasing >>
Timeout(j) ==
  /\ job[j].pc \in Running
  /\ Goto(j, "failing")
  /\ OccupyGivenUp(j)
  /\ IF job[j].stage = "executor" /\ job[j].pc # "training"
     THEN UNCHANGED abandoned
     ELSE abandoned' = abandoned \union {<<job[j].task, job[j].stage>>}
  /\ UNCHANGED << progress, retries, created, creating, fetched, queue, releasing >>

(* What was abandoned comes to its end; its context is cancelled, so its   *)
(* deferred contract call has no effect.                                   *)
AbandonedEnds(a) ==
  /\ a \in abandoned
  /\ abandoned' = abandoned \ {a}
  /\ UNCHANGED << progress, retries, created, creating, fetched, queue, job,
                  occupied, left, releasing >>

(* markTaskCompleted: a row that is no longer ours is left alone.          *)
MarkTaskCompletedUnwritten(j) ==
  /\ job[j].pc = "done"
  /\ FreeUp(j)
  /\ UNCHANGED << progress, retries, created, creating, fetched, queue, abandoned,
                  occupied, left, releasing >>
MarkTaskCompleted(j) ==
  LET t == job[j].task
      s == job[j].stage
  IN  /\ job[j].pc = "done"
      /\ \/ UpdateTaskProgress(t, Intermediate[s], Final[s])
         \/ progress[t] # Intermediate[s] /\ UNCHANGED progress
      /\ FreeUp(j)
      /\ UNCHANGED << retries, created, creating, fetched, queue, abandoned,
                      occupied, left, releasing >>

(* HandleFailure, first statement: the task goes back for another attempt. *)
GiveBack(j) ==
  LET t == job[j].task
      s == job[j].stage
  IN  /\ job[j].pc = "failing"
      /\ job[j].retries < RetryLimit(s)
      /\ \/ UpdateTaskProgress(t, Intermediate[s], Initial[s]) /\ Goto(j, "owing")
         \/ progress[t] # Intermediate[s] /\ UNCHANGED progress /\ FreeUp(j)
      /\ UNCHANGED << retries, created, creating, fetched, queue, abandoned,
                      occupied, left, releasing >>

(* HandleFailure, second statement: the count, computed from the snapshot. *)
CountRetry(j) ==
  LET t == job[j].task
      s == job[j].stage
  IN  /\ job[j].pc = "owing"
      /\ retries' = IF progress[t] # "Failed"
                    THEN [retries EXCEPT ![t][s] = job[j].retries + 1] ELSE retries
      /\ FreeUp(j)
      /\ UNCHANGED << progress, created, creating, fetched, queue, abandoned,
                      occupied, left, releasing >>

(* The retries are used up, or the signature was rejected.                 *)
FailTask(j) ==
  /\ \/ job[j].pc = "failing" /\ job[j].retries >= RetryLimit(job[j].stage)
     \/ job[j].pc = "sigfail"
  /\ MarkTaskFailed(job[j].task)
  /\ FreeUp(j)
  /\ UNCHANGED << retries, created, creating, fetched, queue, abandoned,
                  occupied, left, releasing >>

(* A statement of the four actions above returns an error, which is only   *)
(* logged: the worker goes on to its next job and the row keeps its value. *)
StatementFails(j) ==
  /\ DBMayFail
  /\ job[j].pc \in {"done", "failing", "owing", "sigfail"}
  /\ FreeUp(j)
  /\ UNCHANGED << progress, retries, created, creating, fetched, queue, abandoned,
                  occupied, left, releasing >>

------------------------------------------------------------------------------
(* The settlement loop's two writes to progress (module Delivery has the   *)
(* contract calls they depend on), and the restart of the process.         *)

UserAcknowledged(t) ==
  /\ progress[t] = "Delivered"
  /\ progress' = [progress EXCEPT ![t] = "UserAcknowledged"]
  /\ UNCHANGED << retries, created, creating, fetched, queue, job,
                  abandoned, occupied, left, releasing >>

Settled(t) ==
  /\ progress[t] \in {"Delivered", "UserAcknowledged"}
  /\ progress' = [progress EXCEPT ![t] = "Finished"]
  /\ UNCHANGED << retries, created, creating, fetched, queue, job,
                  abandoned, occupied, left, releasing >>

(* MarkInProgressTasksAsFailed on the surviving rows.                      *)
MarkInProgressTasksAsFailed ==
  progress' = [t \in Tasks |-> IF Unfinished(t) THEN "Failed" ELSE progress[t]]

(* SyncServices publishes the service unoccupied, unless the contract      *)
(* already shows what it would publish; a transaction the process had in   *)
(* flight is then left behind.                                             *)
FlagInFlight(flag) ==
  IF flag THEN \E j \in Jobs : job[j].pc = "executing" /\ job[j].stage = "executor"
          ELSE releasing
SyncServices ==
  \/ Mined(FALSE)
  \/ /\ ~occupied
     /\ \/ UNCHANGED << occupied, left >>
        \/ \E flag \in BOOLEAN : FlagInFlight(flag) /\ GivenUp(flag)

(* The process dies and starts again: goroutines, pools and the mutex are  *)
(* gone, containers are not.                                               *)
Restart ==
  /\ MarkInProgressTasksAsFailed
  /\ creating' = {}
  /\ fetched' = [s \in Stages |-> NoRow]
  /\ queue' = [s \in Stages |-> << >>]
  /\ job' = [j \in Jobs |-> FreeJob]
  /\ abandoned' = {a \in abandoned : a[2] = "executor"}
                    \union {<<job[j].task, "executor">> : j \in {k \in Jobs : job[k].pc = "training"}}
  /\ SyncServices
  /\ releasing' = FALSE
  /\ UNCHANGED << retries, created >>

------------------------------------------------------------------------------
Polling(s) == ReadNextTask(s) \/ ClaimLost(s) \/ \E j \in Jobs : ClaimTask(s, j)

(* What a worker does by itself, and what depends on downloads, the chain, *)
(* the container and the storage network, which may hang.                  *)
WorkerStep(j) ==
  \/ CheckProgress(j) \/ Timeout(j)
  \/ MarkTaskCompleted(j) \/ GiveBack(j) \/ CountRetry(j) \/ FailTask(j)
  \/ StatementFails(j)

External(j) ==
  \/ OccupyService(j) \/ ExecuteSucceeds(j) \/ ExecuteFails(j) \/ SignatureRejected(j)

Broker ==
  \/ \E s \in Stages : Polling(s) \/ StartJob(s)
  \/ HandleNoTask \/ ServiceReleased \/ ReleaseFailed \/ LateMined
  \/ \E j \in Jobs : WorkerStep(j) \/ External(j)
  \/ \E a \in abandoned : AbandonedEnds(a)
  \/ \E t \in Tasks : AddTask(t) \/ UserAcknowledged(t) \/ Settled(t)

Next ==
  \/ Broker
  \/ \E t \in Tasks : CancelTask(t) \/ \E wait \in BOOLEAN : CreateTask(t, wait)
  \/ Restart

Spec == Init /\ [][Next]_vars

------------------------------------------------------------------------------
(* Properties.                                                             *)

TypeOK ==
  /\ progress \in [Tasks -> Progress]
  /\ retries \in [Tasks -> [Stages -> Nat]]
  /\ created \in Seq(Tasks)
  /\ creating \subseteq Tasks
  /\ fetched \in [Stages -> [task : Tasks \union {NoTask}, retries : Nat]]
  /\ queue \in [Stages -> Seq(Jobs)]
  /\ job \in [Jobs -> JobRecord]
  /\ abandoned \subseteq Tasks \X Stages
  /\ occupied \in BOOLEAN
  /\ left \in Seq(BOOLEAN)
  /\ releasing \in BOOLEAN

Holds(j, t) == job[j].pc \in Holding /\ job[j].task = t

(* No task is worked on by two jobs at once, whatever cancels, failures,   *)
(* retries and restarts interleave with the polling loops: a claim is the  *)
(* only way to a task, and it is exclusive (fetchNextTask).                *)
ExclusiveClaim ==
  \A j, k \in Jobs : \A t \in Tasks : Holds(j, t) /\ Holds(k, t) => j = k

(* A task in SettingUp, Training or Delivering always has its job in the   *)
(* pool of that stage: as long as the database answers, no interleaving    *)
(* strands a row in a state only a job can take it out of (service.go,     *)
(* HandleFailure).                                                         *)
ClaimedTaskHasJob ==
  \A s \in Stages : \A t \in Tasks :
    progress[t] = Intermediate[s] => \E j \in Jobs : Holds(j, t) /\ job[j].stage = s

(* Training and delivery are never carried out for a withdrawn or failed   *)
(* task: a cancel that succeeds, at any moment of polling, setup or claim, *)
(* keeps the task away from the executor (CancelTask, fetchNextTask).      *)
NoWorkOnFailedTask ==
  \A j \in Jobs :
    job[j].pc \in Holding /\ job[j].stage # "setup" => progress[job[j].task] # "Failed"

(* A customer never has two unfinished tasks (validateNoUnfinishedTasks    *)
(* under taskMutex), although the check and the insert are two statements  *)
(* and every other actor writes the same column in between.                *)
OneUnfinishedPerUser ==
  \A t, o \in Tasks :
    Unfinished(t) /\ Unfinished(o) /\ UserOf[t] = UserOf[o] => t = o

(* At most MaxTaskQueueSize + 1 tasks are on their way to training: the    *)
(* check admits one more when the queue already holds MaxTaskQueueSize.    *)
QueueBounded == Cardinality(PendingTraining) <= MaxTaskQueueSize + 1

(* A training begins with the service shown occupied on the contract, and  *)
(* as long as it runs within its time limit only a transaction left behind *)
(* by a call that reported failure takes the flag down: no release of this *)
(* process does, although releaseService checks and clears the flag in     *)
(* separate steps (executor.go) while tasks are created and claimed.       *)
TrainingKeepsFlag ==
  \A j \in Jobs : job'[j].pc = "training" =>
    \/ occupied'
    \/ job[j].pc = "training" /\ (~occupied \/ (LateMined /\ ~Head(left)))
OccupiedWhileTraining == [][TrainingKeepsFlag]_vars

(* The pipeline implements the customer's view of a task.                  *)
Lifecycle == INSTANCE TaskLifecycle
ImplementsLifecycle == Lifecycle!Spec

(* The comment at ctrl/task.go:164, "For each customer, we process tasks   *)
(* single-threaded": of a customer's tasks only one training runs.         *)
Trainings(u) ==
  {j \in Jobs : job[j].pc = "training" /\ UserOf[job[j].task] = u}
    \union {a \in abandoned : a[2] = "executor" /\ UserOf[a[1]] = u}
SingleThreadedPerUser ==
  \A t \in Tasks : Cardinality(Trainings(UserOf[t])) <= 1

------------------------------------------------------------------------------
(* Fairness: the tickers keep polling and the workers keep working, with   *)
(* the time limit as a worker's own step; nothing external is fair but the *)
(* releasing transaction, which succeeds if it is sent again and again.    *)
Fairness ==
  /\ \A s \in Stages : WF_vars(Polling(s)) /\ WF_vars(StartJob(s))
  /\ \A j \in Jobs : WF_vars(WorkerStep(j))
  /\ WF_vars(HandleNoTask) /\ SF_vars(ServiceReleased) /\ WF_vars(ServiceReleased \/ ReleaseFailed)

FairSpec == Spec /\ Fairness

(* Every claim comes to an end, if the database answers: a download, a     *)
(* container or an upload that hangs cannot keep a task in SettingUp,      *)
(* Training or Delivering (runTaskWithTimeout).                            *)
Claimed(t)     == progress[t] \in {"SettingUp", "Training", "Delivering"}
EveryClaimEnds == \A t \in Tasks : Claimed(t) ~> ~Claimed(t)

(* A service with nothing pending does not stay occupied.                  *)
IdleServiceReleased == (occupied /\ PendingTraining = {}) ~> (~occupied \/ PendingTraining # {})

==============================================================================

------------------------------- MODULE Delivery ------------------------------
(***************************************************************************)
(* Delivery and settlement of trained models: the finalizer's attempts     *)
(* (finalizer.go), the settlement loop (settlement.go), the transactions   *)
(* they send, and the deliverables the serving contract keeps.  A task     *)
(* enters this module trained.                                             *)
(*                                                                         *)
(* Every attempt encrypts the model with a new key.  The number of the     *)
(* attempt stands for what depends on the key: the root hash of the        *)
(* uploaded file, and the secret that opens it.  The row, the deliverable  *)
(* on the contract and the settlement each carry a copy; 0 is none.        *)
(***************************************************************************)
EXTENDS Integers, Sequences

CONSTANTS
  Created,               \* the tasks in created_at order
  MaxFinalizerRetries,   \* MaxFinalizerRetriesPerTask
  MaxSettlementRetries,  \* MaxSettlementRetriesPerTask
  SettlementBatchSize,
  Faults,                \* what may go wrong: a subset of FaultKinds
  MaxAttempts,           \* bound: attempts to deliver a task
  MaxPending             \* bound: transactions in the mempool

FaultKinds ==
  { "error",     \* a call to the chain or the storage network returns an error
    "database",  \* a statement returns an error
    "receipt",   \* WaitForReceipt gives up on a transaction that is mined later
    "timeout",   \* runTaskWithTimeout gives up on a finalizer
    "refused",   \* the contract refuses a settlement for the state of the account
    "restart" }  \* the process restarts

Tasks == {Created[i] : i \in DOMAIN Created}

ASSUME DeliveryAssumption ==
  /\ Created \in Seq(Tasks)
  /\ \A i, k \in DOMAIN Created : Created[i] = Created[k] => i = k
  /\ MaxAttempts \in Nat \ {0} /\ MaxFinalizerRetries \in Nat /\ MaxSettlementRetries \in Nat
  /\ SettlementBatchSize \in Nat \ {0} /\ MaxPending \in Nat \ {0}
  /\ Faults \subseteq FaultKinds

VARIABLES
  progress,    \* the progress column
  row,         \* the OutputRootHash, EncryptedSecret and SettlementRetries columns
  overdue,     \* the row's DeliverTime lies ackTimeout back
  tries,       \* attempts the finalizer has begun
  step,        \* where the current attempt is
  counted,     \* the FinalizerRetries column
  seen,        \* the count the current attempt has read
  owed,        \* <<task, attempt, count>>: given back, the count still to be written
  lateWrites,  \* <<task, attempt>>: timed out with its UpdateTask still to come
  mempool,     \* transactions of the provider's account, in nonce order
  chain,       \* per task: the deliverable and its payment
  loop,        \* the settlement loop
  published    \* history: tasks whose secret was sent to the chain

counting  == << counted, seen, owed >>
finalizer == << tries, step, lateWrites, counted, seen, owed >>
vars == << progress, row, overdue, tries, step, lateWrites, counted, seen, owed, mempool,
           chain, loop, published >>

Key == 0 .. MaxAttempts
Row == [root : Key, secret : Key, retries : Nat]

(* A transaction; its sender waits for the receipt while it is awaited.    *)
Tx == [kind : {"addDeliverable", "settleFees"}, task : Tasks, root : Key, secret : Key,
       awaited : BOOLEAN]

Deliverable == [root : Key, acknowledged : BOOLEAN, paid : {"no", "reduced", "full"}, secret : Key]

(* What the loop knows of a task is the row it has read.                   *)
Snapshot == [task : Tasks, row : Row]

(* processFinishedTasks: the delivered tasks still to look at, those whose *)
(* acknowledgement is overdue, and the batch being settled, head first.    *)
Loop == [pc : {"idle", "checking", "settling", "confirming", "settled", "failed"},
         lockTimeKnown : BOOLEAN, userAcked : BOOLEAN,
         delivered : Seq(Snapshot), expired : Seq(Snapshot), batch : Seq(Snapshot),
         counter : Nat]

IdleLoop == [pc |-> "idle", lockTimeKnown |-> TRUE, userAcked |-> TRUE,
             delivered |-> << >>, expired |-> << >>, batch |-> << >>, counter |-> 0]

Init ==
  /\ progress   = [t \in Tasks |-> "Trained"]
  /\ row        = [t \in Tasks |-> [root |-> 0, secret |-> 0, retries |-> 0]]
  /\ overdue    = [t \in Tasks |-> FALSE]
  /\ tries      = [t \in Tasks |-> 0]
  /\ step       = [t \in Tasks |-> "idle"]
  /\ lateWrites = {}
  /\ counted    = [t \in Tasks |-> 0]
  /\ seen       = [t \in Tasks |-> 0]
  /\ owed       = {}
  /\ mempool    = << >>
  /\ chain      = [t \in Tasks |-> [root |-> 0, acknowledged |-> FALSE, paid |-> "no", secret |-> 0]]
  /\ loop       = IdleLoop
  /\ published  = {}

Error         == "error" \in Faults
DatabaseError == "database" \in Faults

(* UpdateTask leaves a Failed row alone.                                   *)
Writable(t) == progress[t] # "Failed"

Send(tx) ==
  /\ Len(mempool) < MaxPending
  /\ mempool' = Append(mempool, tx)

(* The sender of task t's transactions of a kind stops waiting.            *)
Forget(kind, t) ==
  mempool' = [i \in DOMAIN mempool |->
                IF mempool[i].kind = kind /\ mempool[i].task = t
                THEN [mempool[i] EXCEPT !.awaited = FALSE] ELSE mempool[i]]

------------------------------------------------------------------------------
(* The finalizer: one attempt at a time on a task (module TaskPipeline).   *)

ClaimTask(t) ==
  /\ progress[t] = "Trained" /\ tries[t] < MaxAttempts
  /\ progress' = [progress EXCEPT ![t] = "Delivering"]
  /\ tries' = [tries EXCEPT ![t] = @ + 1]
  /\ step' = [step EXCEPT ![t] = "uploading"]
  /\ seen' = [seen EXCEPT ![t] = counted[t]]
  /\ UNCHANGED << row, overdue, lateWrites, counted, owed, mempool, chain, loop, published >>

(* encryptAndUploadModel, with a key of its own.                           *)
EncryptAndUploadModel(t) ==
  /\ step[t] = "uploading"
  /\ \/ step' = [step EXCEPT ![t] = "storing"]
     \/ Error /\ step' = [step EXCEPT ![t] = "failing"]
  /\ UNCHANGED << progress, row, overdue, tries, lateWrites, counting, mempool, chain, loop, published >>

(* The row's root hash and secret, and DeliverTime, in one statement.      *)
WriteMetadataOnceWithSecret(t, n) ==
  /\ row' = [row EXCEPT ![t].root = n, ![t].secret = IF @ = 0 THEN n ELSE @]
  /\ overdue' = [overdue EXCEPT ![t] = FALSE]
WriteMetadata(t, n) ==
  IF Writable(t)
  THEN /\ row' = [row EXCEPT ![t].root = n, ![t].secret = n]
       /\ overdue' = [overdue EXCEPT ![t] = FALSE]
  ELSE UNCHANGED << row, overdue >>

StoreMetadata(t) ==
  /\ step[t] = "storing"
  /\ \/ WriteMetadata(t, tries[t]) /\ step' = [step EXCEPT ![t] = "adding"]
     \/ DatabaseError /\ step' = [step EXCEPT ![t] = "failing"] /\ UNCHANGED << row, overdue >>
  /\ UNCHANGED << progress, tries, lateWrites, counting, mempool, chain, loop, published >>

AddDeliverableUnconfirmed(t) ==
  /\ step[t] = "adding"
  /\ Send([kind |-> "addDeliverable", task |-> t, root |-> tries[t], secret |-> 0, awaited |-> FALSE])
  /\ step' = [step EXCEPT ![t] = "confirmed"]
  /\ UNCHANGED << progress, row, overdue, tries, lateWrites, counting, chain, loop, published >>
AddDeliverable(t) ==
  /\ step[t] = "adding"
  /\ \/ /\ Send([kind |-> "addDeliverable", task |-> t, root |-> tries[t], secret |-> 0, awaited |-> TRUE])
        /\ step' = [step EXCEPT ![t] = "confirming"]
     \/ Error /\ step' = [step EXCEPT ![t] = "failing"] /\ UNCHANGED mempool
  /\ UNCHANGED << progress, row, overdue, tries, lateWrites, counting, chain, loop, published >>

NoReceipt(t) ==
  /\ "receipt" \in Faults /\ step[t] = "confirming"
  /\ Forget("addDeliverable", t)
  /\ step' = [step EXCEPT ![t] = "failing"]
  /\ UNCHANGED << progress, row, overdue, tries, lateWrites, counting, chain, loop, published >>

(* runTaskWithTimeout.  Contract calls of the abandoned goroutine fail by  *)
(* its cancelled context; UpdateTask takes no context and still happens.   *)
Timeout(t) ==
  /\ "timeout" \in Faults
  /\ step[t] \in {"uploading", "storing", "adding", "confirming", "confirmed"}
  /\ step' = [step EXCEPT ![t] = "failing"]
  /\ lateWrites' = IF step[t] = "storing" THEN lateWrites \union {<<t, tries[t]>>} ELSE lateWrites
  /\ Forget("addDeliverable", t)
  /\ UNCHANGED << progress, row, overdue, tries, counting, chain, loop, published >>

LateWrite(t, n) ==
  /\ <<t, n>> \in lateWrites
  /\ WriteMetadata(t, n)
  /\ lateWrites' = lateWrites \ {<<t, n>>}
  /\ UNCHANGED << progress, tries, step, counting, mempool, chain, loop, published >>

MarkTaskCompleted(t) ==
  /\ step[t] = "confirmed"
  /\ \/ progress' = [progress EXCEPT ![t] = "Delivered"]
     \/ DatabaseError /\ UNCHANGED progress
  /\ step' = [step EXCEPT ![t] = "idle"]
  /\ UNCHANGED << row, overdue, tries, lateWrites, counting, mempool, chain, loop, published >>

(* HandleFailure's first statement: the task goes back, or is failed.      *)
HandleExecuteFailureOffByOne(t) ==
  /\ step[t] = "failing"
  /\ IF seen[t] <= MaxFinalizerRetries
     THEN /\ progress' = [progress EXCEPT ![t] = "Trained"]
          /\ owed' = owed \union {<<t, tries[t], seen[t] + 1>>}
     ELSE progress' = [progress EXCEPT ![t] = "Failed"] /\ UNCHANGED owed
  /\ step' = [step EXCEPT ![t] = "idle"]
  /\ UNCHANGED << row, overdue, tries, lateWrites, counted, seen, mempool, chain, loop, published >>
HandleExecuteFailure(t) ==
  /\ step[t] = "failing"
  /\ \/ /\ seen[t] < MaxFinalizerRetries
        /\ progress' = [progress EXCEPT ![t] = "Trained"]
        /\ owed' = owed \union {<<t, tries[t], seen[t] + 1>>}
     \/ /\ seen[t] >= MaxFinalizerRetries
        /\ progress' = [progress EXCEPT ![t] = "Failed"]
        /\ UNCHANGED owed
     \/ DatabaseError /\ UNCHANGED << progress, owed >>
  /\ step' = [step EXCEPT ![t] = "idle"]
  /\ UNCHANGED << row, overdue, tries, lateWrites, counted, seen, mempool, chain, loop, published >>

(* Its second statement, the count: the next attempt may have begun.       *)
CountRetry(t, n, count) ==
  /\ <<t, n, count>> \in owed
  /\ owed' = owed \ {<<t, n, count>>}
  /\ \/ Writable(t) /\ counted' = [counted EXCEPT ![t] = count]
     \/ (~Writable(t) \/ DatabaseError) /\ UNCHANGED counted
  /\ UNCHANGED << progress, row, overdue, tries, step, lateWrites, seen, mempool, chain, loop,
                  published >>

------------------------------------------------------------------------------
(* The settlement loop.                                                    *)

(* The rows in a state, oldest first.                                      *)
WithRow(rows, t, state) ==
  IF progress[t] = state THEN Append(rows, [task |-> t, row |-> row[t]]) ELSE rows
Rows(state) ==
  LET rows[i \in 0 .. Len(Created)] ==
        IF i = 0 THEN << >> ELSE WithRow(rows[i - 1], Created[i], state)
  IN  rows[Len(Created)]

First(n, s) == SubSeq(s, 1, IF n < Len(s) THEN n ELSE Len(s))

Current == Head(loop.batch)

(* GetDeliveredTasks and GetLockTime; without the lock time, every         *)
(* acknowledgement counts as overdue.                                      *)
StartRound ==
  /\ loop.pc = "idle"
  /\ \E known \in {TRUE} \union {~Error} :
       loop' = [IdleLoop EXCEPT !.pc = "checking", !.lockTimeKnown = known,
                                !.delivered = Rows("Delivered")]
  /\ UNCHANGED << progress, row, overdue, finalizer, mempool, chain, published >>

CheckDeliverableExpiredAsAcked ==
  LET t    == Head(loop.delivered).task
      rest == [loop EXCEPT !.delivered = Tail(@)]
  IN  /\ loop.pc = "checking" /\ loop.delivered # << >>
      /\ loop' = rest
      /\ progress' = IF (chain[t].acknowledged \/ overdue[t]) /\ Writable(t)
                     THEN [progress EXCEPT ![t] = "UserAcknowledged"] ELSE progress
      /\ UNCHANGED << row, overdue, finalizer, mempool, chain, published >>
CheckDeliverableOnlyAcked ==
  LET t    == Head(loop.delivered).task
      rest == [loop EXCEPT !.delivered = Tail(@)]
  IN  /\ loop.pc = "checking" /\ loop.delivered # << >>
      /\ loop' = rest
      /\ progress' = IF chain[t].acknowledged /\ Writable(t)
                     THEN [progress EXCEPT ![t] = "UserAcknowledged"] ELSE progress
      /\ UNCHANGED << row, overdue, finalizer, mempool, chain, published >>
CheckDeliverable ==
  LET t    == Head(loop.delivered).task
      rest == [loop EXCEPT !.delivered = Tail(@)]
  IN  /\ loop.pc = "checking" /\ loop.delivered # << >>
      /\ \/ /\ chain[t].acknowledged
            /\ loop' = rest
            /\ progress' = IF Writable(t) THEN [progress EXCEPT ![t] = "UserAcknowledged"] ELSE progress
         \/ /\ ~chain[t].acknowledged
            /\ loop' = IF overdue[t] \/ ~loop.lockTimeKnown
                       THEN [rest EXCEPT !.expired = Append(@, Head(loop.delivered))] ELSE rest
            /\ UNCHANGED progress
         \/ (Error \/ DatabaseError) /\ loop' = rest /\ UNCHANGED progress
      /\ UNCHANGED << row, overdue, finalizer, mempool, chain, published >>

(* getPendingSettlementTask.                                               *)
CollectAcknowledged ==
  /\ loop.pc = "checking" /\ loop.delivered = << >>
  /\ loop' = [loop EXCEPT !.pc = "settling", !.userAcked = TRUE,
                          !.batch = First(SettlementBatchSize, Rows("UserAcknowledged"))]
  /\ UNCHANGED << progress, row, overdue, finalizer, mempool, chain, published >>

(* What the batch leaves of its size goes to the expired ones.             *)
CollectExpired ==
  /\ loop.pc = "settling" /\ loop.batch = << >> /\ loop.userAcked
  /\ loop' = [loop EXCEPT !.userAcked = FALSE,
                          !.batch = First(SettlementBatchSize - loop.counter, loop.expired)]
  /\ UNCHANGED << progress, row, overdue, finalizer, mempool, chain, published >>

EndRound ==
  /\ loop.pc = "settling" /\ loop.batch = << >> /\ ~loop.userAcked
  /\ loop' = IdleLoop
  /\ UNCHANGED << progress, row, overdue, finalizer, mempool, chain, published >>

(* doSettlement: the secret goes along only if the customer acknowledged.  *)
DoSettlement ==
  LET secret == IF loop.userAcked THEN Current.row.secret ELSE 0
  IN  /\ loop.pc = "settling" /\ loop.batch # << >>
      /\ \/ /\ Send([kind |-> "settleFees", task |-> Current.task, root |-> Current.row.root,
                     secret |-> secret, awaited |-> TRUE])
            /\ published' = IF secret # 0 THEN published \union {Current.task} ELSE published
            /\ loop' = [loop EXCEPT !.pc = "confirming"]
         \/ Error /\ loop' = [loop EXCEPT !.pc = "failed"] /\ UNCHANGED << mempool, published >>
      /\ UNCHANGED << progress, row, overdue, finalizer, chain >>

NoSettlementReceipt ==
  /\ "receipt" \in Faults /\ loop.pc = "confirming"
  /\ Forget("settleFees", Current.task)
  /\ loop' = [loop EXCEPT !.pc = "failed"]
  /\ UNCHANGED << progress, row, overdue, finalizer, chain, published >>

(* The last statement of doSettlement.                                     *)
MarkFinished ==
  /\ loop.pc = "settled"
  /\ \/ /\ progress' = IF Writable(Current.task)
                       THEN [progress EXCEPT ![Current.task] = "Finished"] ELSE progress
        /\ loop' = [loop EXCEPT !.pc = "settling", !.batch = Tail(@), !.counter = @ + 1]
     \/ DatabaseError /\ loop' = [loop EXCEPT !.pc = "failed"] /\ UNCHANGED progress
  /\ UNCHANGED << row, overdue, finalizer, mempool, chain, published >>

(* trySettle's error path.  HandleSettlementFailure gives the row back     *)
(* from Init to Init, which finds no such row and is an error; the count   *)
(* is not reached.                                                         *)
HandleSettlementFailureFinished ==
  /\ loop.pc = "failed"
  /\ progress' = [progress EXCEPT ![Current.task] = "Finished"]
  /\ loop' = [loop EXCEPT !.pc = "settling", !.batch = Tail(@)]
  /\ UNCHANGED << row, overdue, finalizer, mempool, chain, published >>
HandleSettlementFailure ==
  LET t == Current.task
  IN  /\ loop.pc = "failed"
      /\ \/ /\ Current.row.retries < MaxSettlementRetries
            /\ row' = IF progress[t] = "Init"
                      THEN [row EXCEPT ![t].retries = Current.row.retries + 1] ELSE row
            /\ loop' = [loop EXCEPT !.pc = "settling", !.batch = Tail(@)]
            /\ UNCHANGED progress
         \/ /\ Current.row.retries >= MaxSettlementRetries
            /\ progress' = [progress EXCEPT ![t] = "Failed"]
            /\ loop' = [loop EXCEPT !.pc = "settling", !.batch = Tail(@), !.counter = @ + 1]
            /\ UNCHANGED row
      /\ UNCHANGED << overdue, finalizer, mempool, chain, published >>

------------------------------------------------------------------------------
(* Outside the broker: the customer, the clock, and the contract.          *)

AcknowledgeDeliverable(t) ==
  /\ chain[t].root # 0 /\ ~chain[t].acknowledged
  /\ chain' = [chain EXCEPT ![t].acknowledged = TRUE]
  /\ UNCHANGED << progress, row, overdue, finalizer, mempool, loop, published >>

AckTimeout(t) ==
  /\ progress[t] = "Delivered" /\ ~overdue[t]
  /\ overdue' = [overdue EXCEPT ![t] = TRUE]
  /\ UNCHANGED << progress, row, finalizer, mempool, chain, loop, published >>

(* addDeliverable records the root hash; for an id it already has it       *)
(* either reverts or starts over.                                          *)
DeliverableAdded(tx) ==
  chain' = [chain EXCEPT ![tx.task].root = tx.root, ![tx.task].acknowledged = FALSE]

(* settleFees takes a settlement once, for the recorded root hash, with    *)
(* the secret exactly if the deliverable is acknowledged.                  *)
Settleable(tx) ==
  LET d == chain[tx.task]
  IN  /\ d.paid = "no" /\ d.root = tx.root
      /\ d.acknowledged <=> tx.secret # 0

FeesSettled(tx) ==
  chain' = [chain EXCEPT ![tx.task].paid = IF @ = "no" /\ tx.secret # 0 THEN "full" ELSE "reduced",
                         ![tx.task].secret = tx.secret]

(* Who waits for the receipt is told.                                      *)
Told(tx, ok) ==
  /\ step' = IF tx.awaited /\ tx.kind = "addDeliverable"
             THEN [step EXCEPT ![tx.task] = IF ok THEN "confirmed" ELSE "failing"] ELSE step
  /\ loop' = IF tx.awaited /\ tx.kind = "settleFees"
             THEN [loop EXCEPT !.pc = IF ok THEN "settled" ELSE "failed"] ELSE loop

(* The next transaction of the account is mined.                           *)
MineTransaction ==
  LET tx == Head(mempool)
  IN  /\ mempool # << >>
      /\ mempool' = Tail(mempool)
      /\ \/ tx.kind = "addDeliverable" /\ DeliverableAdded(tx) /\ Told(tx, TRUE)
         \/ /\ tx.kind = "addDeliverable" /\ chain[tx.task].root # 0
            /\ Told(tx, FALSE) /\ UNCHANGED chain
         \/ tx.kind = "settleFees" /\ Settleable(tx) /\ FeesSettled(tx) /\ Told(tx, TRUE)
         \/ /\ tx.kind = "settleFees" /\ (~Settleable(tx) \/ "refused" \in Faults)
            /\ Told(tx, FALSE) /\ UNCHANGED chain
      /\ UNCHANGED << progress, row, overdue, tries, lateWrites, counting, published >>

(* MarkInProgressTasksAsFailed; transactions under way stay under way.     *)
Restart ==
  /\ "restart" \in Faults
  /\ progress' = [t \in Tasks |-> IF progress[t] = "Finished" THEN "Finished" ELSE "Failed"]
  /\ step' = [t \in Tasks |-> "idle"]
  /\ lateWrites' = {} /\ owed' = {}
  /\ mempool' = [i \in DOMAIN mempool |-> [mempool[i] EXCEPT !.awaited = FALSE]]
  /\ loop' = IdleLoop
  /\ UNCHANGED << row, overdue, tries, counted, seen, chain, published >>

------------------------------------------------------------------------------
FinalizerStep(t) ==
  \/ ClaimTask(t) \/ EncryptAndUploadModel(t) \/ StoreMetadata(t) \/ AddDeliverable(t)
  \/ NoReceipt(t) \/ Timeout(t) \/ MarkTaskCompleted(t) \/ HandleExecuteFailure(t)

SettlementStep ==
  \/ StartRound \/ CheckDeliverable \/ CollectAcknowledged \/ CollectExpired \/ EndRound
  \/ DoSettlement \/ NoSettlementReceipt \/ MarkFinished \/ HandleSettlementFailure

Next ==
  \/ \E t \in Tasks : FinalizerStep(t) \/ AcknowledgeDeliverable(t) \/ AckTimeout(t)
  \/ \E a \in lateWrites : LateWrite(a[1], a[2])
  \/ \E o \in owed : CountRetry(o[1], o[2], o[3])
  \/ SettlementStep \/ MineTransaction \/ Restart

Spec == Init /\ [][Next]_vars

------------------------------------------------------------------------------
(* Properties.                                                             *)

Retries == 0 .. MaxFinalizerRetries
RetriesTyped ==
  /\ counted \in [Tasks -> Retries]
  /\ seen \in [Tasks -> Retries]
  /\ owed \subseteq Tasks \X Key \X Retries

TypeOK ==
  /\ progress \in [Tasks -> {"Trained", "Delivering", "Delivered", "UserAcknowledged",
                             "Finished", "Failed"}]
  /\ row \in [Tasks -> Row]
  /\ overdue \in [Tasks -> BOOLEAN]
  /\ tries \in [Tasks -> Key]
  /\ step \in [Tasks -> {"idle", "uploading", "storing", "adding", "confirming", "confirmed",
                         "failing"}]
  /\ lateWrites \subseteq Tasks \X Key
  /\ RetriesTyped
  /\ mempool \in Seq(Tx) /\ Len(mempool) <= MaxPending
  /\ chain \in [Tasks -> Deliverable]
  /\ loop \in Loop
  /\ published \subseteq Tasks

(* A task is Finished only if the contract has taken its settlement: lost  *)
(* receipts, refusals and errors never make the broker believe it was paid *)
(* (doSettlement marks the row after the receipt).                         *)
FinishedIsPaid == \A t \in Tasks : progress[t] = "Finished" => chain[t].paid # "no"

(* The secret of a model leaves the broker only after its customer has     *)
(* acknowledged the deliverable: not when the acknowledgement is overdue,  *)
(* not after a retried delivery (processPendingUserAckTasks).              *)
SecretOnlyAfterAcknowledgement == \A t \in published : chain[t].acknowledged

(* The secret a customer pays the full fee for opens the model it          *)
(* acknowledged, although every retry of the finalizer makes a new key and *)
(* writes row and contract one after the other.                            *)
PaidSecretOpensModel ==
  \A t \in Tasks : chain[t].paid = "full" => chain[t].secret = chain[t].root

(* A task offered to its customer as Delivered is on the contract.         *)
DeliveredIsOnChain ==
  \A t \in Tasks : progress[t] \in {"Delivered", "UserAcknowledged"} => chain[t].root # 0

(* migrate.go:42 comments SettlementRetries "Number of retry attempts",    *)
(* and MaxSettlementRetriesPerTask limits it: a failed settlement counts.  *)
FailedSettlementCounts ==
  [][HandleSettlementFailure /\ Current.row.retries < MaxSettlementRetries
       => row'[Current.task].retries = Current.row.retries + 1]_vars

------------------------------------------------------------------------------
(* Fairness: the loop and the finalizers keep working, transactions get    *)
(* mined, and a call that is repeated for ever is answered some time.      *)
DeliverableRead(t) ==
  /\ CheckDeliverable
  /\ Head(loop.delivered).task = t
  /\ progress'[t] # progress[t] \/ loop'.expired # loop.expired

Fairness ==
  /\ WF_vars(SettlementStep) /\ SF_vars(MineTransaction)
  /\ \A t \in Tasks : WF_vars(FinalizerStep(t)) /\ WF_vars(AckTimeout(t))
  /\ \A t \in Tasks : SF_vars(DeliverableRead(t))
  /\ SF_vars(DoSettlement /\ loop'.pc = "confirming")

FairSpec == Spec /\ Fairness

(* Every delivered task is settled, at the full fee or the reduced one,    *)
(* whatever calls fail in between, as long as receipts are not missed, the *)
(* contract does not refuse, the database answers and the broker runs on.  *)
DeliveredIsSettled == \A t \in Tasks : progress[t] = "Delivered" ~> progress[t] = "Finished"
==============================================================================

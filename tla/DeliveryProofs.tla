---------------------------- MODULE DeliveryProofs ---------------------------
(***************************************************************************)
(* Theorems about Delivery, for every list of tasks, limit and batch size  *)
(* and every set of faults.                                                *)
(*                                                                         *)
(* The argument: a finalizer that has seen the receipt of its deliverable  *)
(* has nothing more in the mempool, so from then on a task is Quiet; being *)
(* Quiet is stable; and all the loop reads, sends and marks is about quiet *)
(* tasks, whose root hash and secret fit and stay.                         *)
(***************************************************************************)
EXTENDS Delivery, DataInduction, TLAPS

IsAdd(tx, t) == tx.kind = "addDeliverable" /\ tx.task = t
Adding(t) == \E i \in DOMAIN mempool : IsAdd(mempool[i], t)

(* The finalizer is done with a task for good: no attempt is under way or  *)
(* to come, and the contract will not hear of another deliverable.         *)
Quiet(t) ==
  /\ progress[t] \notin {"Trained", "Delivering"} /\ step[t] = "idle"
  /\ ~ Adding(t)

(* A confirmed attempt has nothing left in the mempool, because its        *)
(* deliverable was the last one and earlier ones are ahead of it in nonce  *)
(* order: so a task that is Delivered or further is quiet.  Root hash and  *)
(* secret of a row come from one attempt, also after a late write.         *)
FinalizerInv(t) ==
  /\ step[t] # "idle" => progress[t] = "Delivering" /\ tries[t] # 0
  /\ step[t] = "confirmed" => ~ Adding(t) /\ chain[t].root # 0
  /\ progress[t] \in {"Delivered", "UserAcknowledged", "Finished"} => Quiet(t)
  /\ row[t].root = row[t].secret

(* The contract, compared with the row.  Only quiet tasks are paid for, or *)
(* have their secret sent, so no deliverable unsettles them again.         *)
ChainInv(t) ==
  /\ progress[t] \in {"Delivered", "UserAcknowledged"} => chain[t].root # 0
  /\ progress[t] = "UserAcknowledged" => chain[t].acknowledged
  /\ progress[t] = "Finished" => chain[t].paid # "no"
  /\ chain[t].acknowledged => chain[t].root # 0
  /\ chain[t].paid # "no" => Quiet(t)
  /\ chain[t].paid = "full" => chain[t].secret = chain[t].root
  /\ t \in published => Quiet(t) /\ chain[t].acknowledged

TaskInv == \A t \in Tasks : FinalizerInv(t) /\ ChainInv(t)

(* A deliverable whose sender waits is the last of its task.               *)
AddInv ==
  \A i \in DOMAIN mempool : mempool[i].kind = "addDeliverable" =>
    /\ mempool[i].root # 0
    /\ mempool[i].awaited =>
         /\ step[mempool[i].task] = "confirming"
         /\ \A j \in DOMAIN mempool : j > i => ~ IsAdd(mempool[j], mempool[i].task)

(* A settlement is of a quiet task and carries the secret of its root      *)
(* hash; the loop waits for one at most, that of its current task.         *)
SettleInv ==
  \A i \in DOMAIN mempool : mempool[i].kind = "settleFees" =>
    /\ Quiet(mempool[i].task)
    /\ mempool[i].secret # 0 => mempool[i].secret = mempool[i].root
    /\ mempool[i].awaited =>
         /\ loop.pc = "confirming" /\ mempool[i].task = Current.task
         /\ \A j \in DOMAIN mempool : mempool[j].kind = "settleFees" /\ mempool[j].awaited => j = i

(* The rows the loop has read may be stale, but never in these respects;   *)
(* and what it has settled leaves room for the batch it is at.             *)
Known(s) == \A i \in DOMAIN s : Quiet(s[i].task) /\ s[i].row.root = s[i].row.secret
LoopInv ==
  /\ Known(loop.delivered) /\ Known(loop.expired) /\ Known(loop.batch)
  /\ loop.userAcked => \A i \in DOMAIN loop.batch : chain[loop.batch[i].task].acknowledged
  /\ loop.pc \in {"confirming", "settled", "failed"} => loop.batch # << >>
  /\ loop.pc = "settled" => chain[Current.task].paid # "no"
  /\ loop.pc \in {"idle", "checking"} => loop.counter = 0 /\ loop.batch = << >>
  /\ loop.counter + Len(loop.batch) <= SettlementBatchSize

(* The inductive invariant.                                                *)
IInv == TypeOK /\ TaskInv /\ AddInv /\ SettleInv /\ LoopInv

------------------------------------------------------------------------------
(* Sequences.                                                              *)

(* What is used of head, tail and elements.                                *)
LEMMA ElementsOf ==
  ASSUME NEW S, NEW s \in Seq(S)
  PROVE  /\ Len(s) \in Nat /\ DOMAIN s = 1 .. Len(s)
         /\ \A i \in DOMAIN s : s[i] \in S
         /\ s # << >> => Head(s) = s[1] /\ Len(s) > 0 /\ Tail(s) \in Seq(S)
         /\ s # << >> => Len(Tail(s)) = Len(s) - 1 /\ \A i \in DOMAIN Tail(s) : i + 1 \in DOMAIN s /\ Tail(s)[i] = s[i + 1]
OBVIOUS

(* What First returns.                                                     *)
LEMMA FirstTyped ==
  ASSUME NEW S, NEW s \in Seq(S), NEW n \in Nat
  PROVE  /\ First(n, s) \in Seq(S) /\ Len(First(n, s)) <= n
         /\ \A i \in DOMAIN First(n, s) : i \in DOMAIN s /\ First(n, s)[i] = s[i]
BY DEF First

(* Whatever transactions are forgotten, the others stay as they are.       *)
LEMMA Forgotten ==
  ASSUME mempool \in Seq(Tx), NEW P,
         mempool' = [i \in DOMAIN mempool |->
                       IF i \in P THEN [mempool[i] EXCEPT !.awaited = FALSE] ELSE mempool[i]]
  PROVE  /\ mempool' \in Seq(Tx) /\ Len(mempool') = Len(mempool)
         /\ DOMAIN mempool' = DOMAIN mempool
         /\ \A i \in DOMAIN mempool :
              /\ mempool'[i].kind = mempool[i].kind /\ mempool'[i].task = mempool[i].task
              /\ mempool'[i].root = mempool[i].root /\ mempool'[i].secret = mempool[i].secret
              /\ mempool'[i].awaited <=> mempool[i].awaited /\ i \notin P
<1>1. /\ DOMAIN mempool = 1 .. Len(mempool) /\ Len(mempool) \in Nat
      /\ \A i \in DOMAIN mempool : mempool[i] \in Tx
  BY ElementsOf
<1>2. \A i \in DOMAIN mempool : mempool'[i] \in Tx
  BY <1>1 DEF Tx
<1>3. mempool' \in Seq(Tx) /\ Len(mempool') = Len(mempool) /\ DOMAIN mempool' = DOMAIN mempool
  BY <1>1, <1>2
<1> QED BY <1>1, <1>3 DEF Tx

(* Rows returns rows in the state asked for, with what they say.           *)
LEMMA RowsFound ==
  ASSUME TypeOK, NEW state
  PROVE  /\ Rows(state) \in Seq(Snapshot)
         /\ \A i \in DOMAIN Rows(state) :
              /\ progress[Rows(state)[i].task] = state
              /\ Rows(state)[i].row = row[Rows(state)[i].task]
<1> DEFINE W == {s \in Snapshot : progress[s.task] = state /\ s.row = row[s.task]}
           V == Seq(W)
           n == Len(Created)
           none == << >>
           next == [i \in 1 .. n |-> [s \in V |-> WithRow(s, Created[i], state)]]
           IsRows(g) == g = [i \in 0 .. n |->
                               IF i = 0 THEN none ELSE WithRow(g[i - 1], Created[i], state)]
           rows == CHOOSE g : IsRows(g)
<1>1. n \in Nat /\ \A i \in 1 .. n : Created[i] \in Tasks
  BY DeliveryAssumption, ElementsOf DEF DeliveryAssumption
<1>2. none \in V /\ \A i \in 1 .. n : \A s \in V : WithRow(s, Created[i], state) \in V
  <2> SUFFICES ASSUME NEW t \in Tasks, NEW s \in Seq(W) PROVE WithRow(s, t, state) \in Seq(W)
    BY <1>1
  <2>1. progress[t] = state => [task |-> t, row |-> row[t]] \in W
    BY DEF TypeOK, Snapshot
  <2> HIDE DEF W
  <2> QED BY <2>1 DEF WithRow
<1>3. Rows(state) = rows[n]
  BY DEF Rows
<1> HIDE DEF V, n, none, IsRows, rows
<1>4. PICK f \in [0 .. n -> V] : Iterates(f, n, none, next)
  <2>1. next \in [1 .. n -> [V -> V]] /\ none \in V
    BY <1>2
  <2> HIDE DEF next
  <2> QED BY <1>1, <2>1, PrefixRecursion
<1>5. IsRows(f)
  <2>1. ASSUME NEW i \in 1 .. n PROVE f[i] = WithRow(f[i - 1], Created[i], state)
    <3>1. i - 1 \in 0 .. n
      BY <1>1
    <3>2. f[i - 1] \in V
      BY <3>1
    <3>3. next[i][f[i - 1]] = WithRow(f[i - 1], Created[i], state)
      BY <3>2
    <3> QED BY <1>4, <3>3 DEF Iterates
  <2>2. f = [i \in 0 .. n |-> IF i = 0 THEN none ELSE WithRow(f[i - 1], Created[i], state)]
    <3> HIDE DEF next
    <3>1. f[0] = none
      BY <1>4 DEF Iterates
    <3> QED BY <1>1, <2>1, <3>1
  <2> QED BY <2>2 DEF IsRows
<1>6. IsRows(rows)
  BY <1>5 DEF rows
<1>7. rows[n] \in V
  <2>1. rows[0] \in V
    BY <1>1, <1>2, <1>6 DEF IsRows
  <2>2. \A i \in 1 .. n : rows[i - 1] \in V => rows[i] \in V
    BY <1>1, <1>2, <1>6 DEF IsRows
  <2> QED BY <1>1, <2>1, <2>2, PrefixInduction
<1>8. Rows(state) \in Seq(W) /\ \A i \in DOMAIN Rows(state) : Rows(state)[i] \in W
  <2> HIDE DEF W
  <2> QED BY <1>3, <1>7, ElementsOf DEF V
<1>9. Rows(state) \in Seq(Snapshot)
  <2>1. W \subseteq Snapshot
    OBVIOUS
  <2> HIDE DEF W
  <2> QED BY <1>8, <2>1
<1> QED BY <1>8, <1>9

------------------------------------------------------------------------------
(* Types.                                                                  *)

(* What Forget does to the mempool.                                        *)
LEMMA ForgetIs ==
  ASSUME mempool \in Seq(Tx), NEW kind, NEW t, Forget(kind, t)
  PROVE  /\ mempool' \in Seq(Tx) /\ Len(mempool') = Len(mempool)
         /\ DOMAIN mempool' = DOMAIN mempool
         /\ \A i \in DOMAIN mempool :
              /\ mempool'[i].kind = mempool[i].kind /\ mempool'[i].task = mempool[i].task
              /\ mempool'[i].root = mempool[i].root /\ mempool'[i].secret = mempool[i].secret
              /\ mempool'[i].awaited <=> mempool[i].awaited /\ ~ (mempool[i].kind = kind /\ mempool[i].task = t)
<1> DEFINE P == {i \in DOMAIN mempool : mempool[i].kind = kind /\ mempool[i].task = t}
<1>1. mempool' = [i \in DOMAIN mempool |->
                    IF i \in P THEN [mempool[i] EXCEPT !.awaited = FALSE] ELSE mempool[i]]
  BY DEF Forget
<1>2. \A i \in DOMAIN mempool : i \in P <=> (mempool[i].kind = kind /\ mempool[i].task = t)
  OBVIOUS
<1> HIDE DEF P
<1> QED BY <1>1, <1>2, Forgotten

(* The transactions in the mempool are transactions.                       *)
LEMMA TxTyped ==
  ASSUME TypeOK
  PROVE  \A i \in DOMAIN mempool : mempool[i].task \in Tasks /\ mempool[i] \in Tx
<1>1. mempool \in Seq(Tx)
  BY DEF TypeOK
<1>2. \A i \in DOMAIN mempool : mempool[i] \in Tx
  BY <1>1, ElementsOf
<1> QED BY <1>2 DEF Tx

(* A restart forgets everything.                                           *)
LEMMA RestartForgets ==
  ASSUME mempool \in Seq(Tx), Restart
  PROVE  /\ mempool' \in Seq(Tx) /\ Len(mempool') = Len(mempool)
         /\ DOMAIN mempool' = DOMAIN mempool
         /\ \A i \in DOMAIN mempool :
              /\ mempool'[i].kind = mempool[i].kind /\ mempool'[i].task = mempool[i].task
              /\ mempool'[i].root = mempool[i].root /\ mempool'[i].secret = mempool[i].secret
              /\ ~ mempool'[i].awaited
<1> DEFINE P == DOMAIN mempool
<1>1. mempool' = [i \in DOMAIN mempool |->
                    IF i \in P THEN [mempool[i] EXCEPT !.awaited = FALSE] ELSE mempool[i]]
  BY DEF Restart
<1>2. \A i \in DOMAIN mempool : i \in P
  OBVIOUS
<1> HIDE DEF P
<1> QED BY <1>1, <1>2, Forgotten

(* What Send does to it.                                                   *)
LEMMA SendIs ==
  ASSUME mempool \in Seq(Tx), Len(mempool) <= MaxPending, NEW tx \in Tx, Send(tx)
  PROVE  /\ mempool' \in Seq(Tx) /\ Len(mempool') <= MaxPending
         /\ DOMAIN mempool' = 1 .. Len(mempool) + 1 /\ DOMAIN mempool = 1 .. Len(mempool)
         /\ Len(mempool) \in Nat /\ mempool'[Len(mempool) + 1] = tx
         /\ \A i \in DOMAIN mempool : mempool'[i] = mempool[i]
<1>1. /\ mempool' \in Seq(Tx) /\ Len(mempool) \in Nat /\ Len(mempool') = Len(mempool) + 1
      /\ DOMAIN mempool' = 1 .. Len(mempool) + 1 /\ DOMAIN mempool = 1 .. Len(mempool)
      /\ mempool'[Len(mempool) + 1] = tx
      /\ \A i \in DOMAIN mempool : mempool'[i] = mempool[i]
  BY DEF Send
<1>2. MaxPending \in Nat /\ Len(mempool) < MaxPending
  BY DeliveryAssumption DEF DeliveryAssumption, Send
<1> QED BY <1>1, <1>2

(* What WriteMetadata does to the row.                                     *)
LEMMA WriteIs ==
  ASSUME TypeOK, NEW t \in Tasks, NEW n \in Key, WriteMetadata(t, n)
  PROVE  /\ row' \in [Tasks -> Row] /\ overdue' \in [Tasks -> BOOLEAN]
         /\ \A u \in Tasks : row'[u].root = row'[u].secret \/ row'[u] = row[u]
<1>0. row \in [Tasks -> Row] /\ overdue \in [Tasks -> BOOLEAN]
  BY DEF TypeOK
<1>1. CASE /\ row' = [row EXCEPT ![t].root = n, ![t].secret = n]
           /\ overdue' = [overdue EXCEPT ![t] = FALSE]
  <2>1. row' \in [Tasks -> Row]
    BY <1>0, <1>1 DEF Row
  <2>2. row'[t].root = row'[t].secret /\ \A u \in Tasks \ {t} : row'[u] = row[u]
    BY <1>0, <1>1 DEF Row
  <2> QED BY <1>0, <1>1, <2>1, <2>2
<1>2. CASE UNCHANGED << row, overdue >>
  BY <1>0, <1>2
<1> QED BY <1>1, <1>2 DEF WriteMetadata

(* The head of a list the loop holds.                                      *)
LEMMA LoopTyped ==
  ASSUME TypeOK
  PROVE  /\ loop.delivered \in Seq(Snapshot) /\ loop.expired \in Seq(Snapshot)
         /\ loop.batch \in Seq(Snapshot) /\ loop.counter \in Nat
         /\ loop.userAcked \in BOOLEAN /\ loop.lockTimeKnown \in BOOLEAN
         /\ loop.delivered # << >> => Head(loop.delivered) \in Snapshot
         /\ loop.batch # << >> => Current \in Snapshot /\ Current = loop.batch[1]
<1>1. /\ loop.delivered \in Seq(Snapshot) /\ loop.expired \in Seq(Snapshot)
      /\ loop.batch \in Seq(Snapshot) /\ loop.counter \in Nat
      /\ loop.userAcked \in BOOLEAN /\ loop.lockTimeKnown \in BOOLEAN
  BY DEF TypeOK, Loop
<1>2. \A S, s : s \in Seq(S) /\ s # << >> => Head(s) \in S /\ Head(s) = s[1]
  OBVIOUS
<1> QED BY <1>1, <1>2 DEF Current

(* What the steps make of the loop's record.  First a new round.           *)
LEMMA StartRoundIs ==
  ASSUME TypeOK, StartRound
  PROVE  /\ loop' \in Loop /\ loop'.pc = "checking" /\ loop'.batch = << >> /\ loop'.counter = 0
         /\ loop'.userAcked /\ loop'.delivered = Rows("Delivered") /\ loop'.expired = << >>
<1>1. Rows("Delivered") \in Seq(Snapshot)
  BY RowsFound
<1>2. PICK known \in BOOLEAN :
        loop' = [IdleLoop EXCEPT !.pc = "checking", !.lockTimeKnown = known, !.delivered = Rows("Delivered")]
  BY DEF StartRound
<1>3. loop' = [pc |-> "checking", lockTimeKnown |-> known, userAcked |-> TRUE,
               delivered |-> Rows("Delivered"), expired |-> << >>, batch |-> << >>, counter |-> 0]
  BY <1>2 DEF IdleLoop
<1> QED BY <1>1, <1>3 DEF Loop

(* The loop between two rounds.                                            *)
LEMMA IdleLoopIs ==
  IdleLoop \in Loop /\ IdleLoop.pc = "idle" /\ IdleLoop.batch = << >> /\ IdleLoop.counter = 0
    /\ IdleLoop.userAcked /\ IdleLoop.delivered = << >> /\ IdleLoop.expired = << >>
BY DEF IdleLoop, Loop

(* One delivered row is looked at, and may join the expired ones.          *)
LEMMA CheckDeliverableIs ==
  ASSUME TypeOK, CheckDeliverable
  PROVE  /\ loop' \in Loop /\ UNCHANGED << loop.pc, loop.batch, loop.counter, loop.userAcked >>
         /\ loop'.delivered = Tail(loop.delivered) /\ loop.delivered # << >>
         /\ loop'.expired = loop.expired \/ loop'.expired = Append(loop.expired, Head(loop.delivered))
<1> DEFINE d == Tail(loop.delivered)
           e == Append(loop.expired, Head(loop.delivered))
<1>1. loop \in Loop /\ loop.pc = "checking"
  BY DEF TypeOK, CheckDeliverable
<1>2. loop.delivered # << >> /\ d \in Seq(Snapshot) /\ e \in Seq(Snapshot)
  BY LoopTyped DEF CheckDeliverable
<1>3. \/ loop' = [loop EXCEPT !.delivered = d]
      \/ loop' = [[loop EXCEPT !.delivered = d] EXCEPT !.expired = Append(@, Head(loop.delivered))]
  BY DEF CheckDeliverable
<1>4. [loop EXCEPT !.delivered = d].expired = loop.expired
  BY <1>1 DEF Loop
<1>5. \/ loop' = [loop EXCEPT !.delivered = d]
      \/ loop' = [[loop EXCEPT !.delivered = d] EXCEPT !.expired = e]
  BY <1>3, <1>4
<1> HIDE DEF d, e
<1>6. CASE loop' = [loop EXCEPT !.delivered = d]
  <2>1. loop' \in Loop /\ UNCHANGED << loop.pc, loop.batch, loop.counter, loop.userAcked, loop.expired >> /\ loop'.delivered = d
    BY <1>1, <1>2, <1>6, LoopTyped DEF Loop
  <2> QED BY <1>2, <2>1 DEF d
<1>7. CASE loop' = [[loop EXCEPT !.delivered = d] EXCEPT !.expired = e]
  <2>1. loop' \in Loop /\ UNCHANGED << loop.pc, loop.batch, loop.counter, loop.userAcked >>
        /\ loop'.delivered = d /\ loop'.expired = e
    BY <1>1, <1>2, <1>7, LoopTyped DEF Loop
  <2> QED BY <1>2, <2>1 DEF d, e
<1> QED BY <1>5, <1>6, <1>7

(* The first batch: acknowledged tasks.                                    *)
LEMMA CollectAcknowledgedIs ==
  ASSUME TypeOK, CollectAcknowledged
  PROVE  /\ loop' \in Loop /\ loop'.pc = "settling" /\ loop'.userAcked
         /\ loop'.batch = First(SettlementBatchSize, Rows("UserAcknowledged"))
         /\ UNCHANGED << loop.delivered, loop.expired, loop.counter >>
<1> DEFINE b == First(SettlementBatchSize, Rows("UserAcknowledged"))
<1>1. b \in Seq(Snapshot)
  BY RowsFound, FirstTyped, DeliveryAssumption DEF DeliveryAssumption
<1>2. loop \in Loop /\ loop' = [loop EXCEPT !.pc = "settling", !.userAcked = TRUE, !.batch = b]
  BY DEF TypeOK, CollectAcknowledged
<1> HIDE DEF b
<1>3. /\ loop' \in Loop /\ loop'.pc = "settling" /\ loop'.userAcked = TRUE /\ loop'.batch = b
      /\ UNCHANGED << loop.delivered, loop.expired, loop.counter >>
  BY <1>1, <1>2, LoopTyped DEF Loop
<1> QED BY <1>3 DEF b

(* The second batch: what the first left of the size, never less than 0.   *)
LEMMA CollectExpiredIs ==
  ASSUME TypeOK, LoopInv, CollectExpired
  PROVE  /\ loop' \in Loop /\ ~ loop'.userAcked
         /\ SettlementBatchSize - loop.counter \in Nat
         /\ loop'.batch = First(SettlementBatchSize - loop.counter, loop.expired)
         /\ UNCHANGED << loop.pc, loop.delivered, loop.expired, loop.counter >>
<1> DEFINE b == First(SettlementBatchSize - loop.counter, loop.expired)
<1>0. SettlementBatchSize - loop.counter \in Nat
  BY DeliveryAssumption, LoopTyped DEF DeliveryAssumption, LoopInv, CollectExpired
<1>1. b \in Seq(Snapshot)
  BY <1>0, LoopTyped, FirstTyped
<1>2. loop \in Loop /\ loop' = [loop EXCEPT !.userAcked = FALSE, !.batch = b] /\ loop.pc = "settling"
  BY DEF TypeOK, CollectExpired
<1> HIDE DEF b
<1>3. /\ loop' \in Loop /\ loop'.userAcked = FALSE /\ loop'.batch = b
      /\ UNCHANGED << loop.pc, loop.delivered, loop.expired, loop.counter >>
  BY <1>1, <1>2, LoopTyped DEF Loop
<1> QED BY <1>0, <1>3 DEF b

(* The batch goes on, or stays while the call is under way.                *)
LEMMA BatchIs ==
  ASSUME TypeOK, LoopInv,
         DoSettlement \/ NoSettlementReceipt \/ MarkFinished \/ HandleSettlementFailure
  PROVE  /\ loop' \in Loop /\ UNCHANGED << loop.userAcked, loop.delivered, loop.expired >>
         /\ loop.batch # << >>
         /\ \/ /\ UNCHANGED << loop.batch, loop.counter >>
               /\ loop'.pc = "failed" \/ (DoSettlement /\ loop'.pc = "confirming")
            \/ /\ loop'.pc = "settling" /\ loop'.batch = Tail(loop.batch)
               /\ loop'.counter = loop.counter \/ loop'.counter = loop.counter + 1
               /\ loop.pc # "confirming"
<1> DEFINE b == Tail(loop.batch)
           c == loop.counter + 1
<1>0. loop \in Loop /\ loop.batch # << >>
  BY DEF TypeOK, LoopInv, DoSettlement, NoSettlementReceipt, MarkFinished, HandleSettlementFailure
<1>1. b \in Seq(Snapshot) /\ c \in Nat
  BY <1>0, LoopTyped
<1>2. \/ loop' = [loop EXCEPT !.pc = "failed"]
      \/ loop' = [loop EXCEPT !.pc = "confirming"] /\ DoSettlement
      \/ loop' = [loop EXCEPT !.pc = "settling", !.batch = b] /\ loop.pc # "confirming"
      \/ loop' = [loop EXCEPT !.pc = "settling", !.batch = b, !.counter = c] /\ loop.pc # "confirming"
  BY DEF DoSettlement, NoSettlementReceipt, MarkFinished, HandleSettlementFailure
<1> HIDE DEF b, c
<1>3. CASE loop' = [loop EXCEPT !.pc = "failed"]
  BY <1>0, <1>3, LoopTyped DEF Loop
<1>4. CASE loop' = [loop EXCEPT !.pc = "confirming"] /\ DoSettlement
  BY <1>0, <1>4, LoopTyped DEF Loop
<1>5. CASE loop' = [loop EXCEPT !.pc = "settling", !.batch = b] /\ loop.pc # "confirming"
  <2>1. /\ loop' \in Loop /\ loop'.pc = "settling" /\ loop'.batch = b
        /\ UNCHANGED << loop.userAcked, loop.delivered, loop.expired, loop.counter >>
    BY <1>0, <1>1, <1>5, LoopTyped DEF Loop
  <2> QED BY <1>0, <1>5, <2>1 DEF b
<1>6. CASE loop' = [loop EXCEPT !.pc = "settling", !.batch = b, !.counter = c] /\ loop.pc # "confirming"
  <2>1. /\ loop' \in Loop /\ loop'.pc = "settling" /\ loop'.batch = b /\ loop'.counter = c
        /\ UNCHANGED << loop.userAcked, loop.delivered, loop.expired >>
    BY <1>0, <1>1, <1>6, LoopTyped DEF Loop
  <2> QED BY <1>0, <1>6, <2>1 DEF b, c
<1> QED BY <1>2, <1>3, <1>4, <1>5, <1>6

(* The retry count: a snapshot below the limit gives a count within it.    *)
LEMMA RetriesStep == TypeOK /\ [Next]_vars => RetriesTyped'
<1> SUFFICES ASSUME TypeOK, [Next]_vars PROVE RetriesTyped'
  OBVIOUS
<1>0. RetriesTyped /\ MaxFinalizerRetries \in Nat /\ tries \in [Tasks -> Key]
  BY DeliveryAssumption DEF TypeOK, DeliveryAssumption
<1>1. CASE UNCHANGED << counted, seen, owed >>
  BY <1>0, <1>1 DEF RetriesTyped
<1>2. ASSUME NEW t \in Tasks, ClaimTask(t) PROVE RetriesTyped'
  BY <1>0, <1>2 DEF ClaimTask, RetriesTyped
<1>3. ASSUME NEW t \in Tasks, HandleExecuteFailure(t) PROVE RetriesTyped'
  <2>1. /\ UNCHANGED << counted, seen >>
        /\ \/ seen[t] < MaxFinalizerRetries /\ owed' = owed \union {<<t, tries[t], seen[t] + 1>>}
           \/ owed' = owed
    BY <1>3 DEF HandleExecuteFailure
  <2>2. seen[t] \in Retries /\ tries[t] \in Key
    BY <1>0 DEF RetriesTyped
  <2>3. seen[t] < MaxFinalizerRetries => seen[t] + 1 \in Retries
    BY <1>0, <2>2 DEF Retries
  <2> QED BY <1>0, <2>1, <2>2, <2>3 DEF RetriesTyped
<1>4. ASSUME NEW o \in owed, CountRetry(o[1], o[2], o[3]) PROVE RetriesTyped'
  <2>1. o[1] \in Tasks /\ o[3] \in Retries
    BY <1>0 DEF RetriesTyped
  <2> QED BY <1>0, <1>4, <2>1 DEF CountRetry, RetriesTyped
<1>5. CASE Restart
  BY <1>0, <1>5 DEF Restart, RetriesTyped
<1> QED BY <1>1, <1>2, <1>3, <1>4, <1>5 DEF Next, vars, finalizer, counting, FinalizerStep,
           EncryptAndUploadModel, StoreMetadata, AddDeliverable, NoReceipt, Timeout,
           MarkTaskCompleted, AcknowledgeDeliverable, AckTimeout, LateWrite, SettlementStep,
           StartRound, CheckDeliverable, CollectAcknowledged, CollectExpired, EndRound,
           DoSettlement, NoSettlementReceipt, MarkFinished, HandleSettlementFailure,
           MineTransaction

(* The steps of a finalizer keep the types.                                *)
LEMMA FinalizerTyped ==
  ASSUME TypeOK, NEW t \in Tasks, FinalizerInv(t), FinalizerStep(t), RetriesTyped'
  PROVE  TypeOK'
<1> USE DEF TypeOK
<1>0. mempool \in Seq(Tx) /\ Len(mempool) <= MaxPending /\ MaxAttempts \in Nat
  BY DeliveryAssumption DEF DeliveryAssumption
<1>1. CASE ClaimTask(t)
  <2>1. tries[t] + 1 \in Key
    BY <1>0, <1>1 DEF ClaimTask, Key
  <2> QED BY <1>1, <2>1 DEF ClaimTask
<1>2. CASE EncryptAndUploadModel(t)
  BY <1>2 DEF EncryptAndUploadModel
<1>3. CASE StoreMetadata(t)
  <2>1. row' \in [Tasks -> Row] /\ overdue' \in [Tasks -> BOOLEAN]
    BY <1>3, WriteIs DEF StoreMetadata
  <2> QED BY <1>3, <2>1 DEF StoreMetadata
<1>4. CASE AddDeliverable(t)
  <2>1. mempool' \in Seq(Tx) /\ Len(mempool') <= MaxPending
    <3>1. [kind |-> "addDeliverable", task |-> t, root |-> tries[t], secret |-> 0, awaited |-> TRUE] \in Tx
      BY <1>0 DEF Tx, Key
    <3> QED BY <1>0, <1>4, <3>1, SendIs DEF AddDeliverable
  <2> QED BY <1>4, <2>1 DEF AddDeliverable
<1>5. CASE NoReceipt(t)
  <2>1. mempool' \in Seq(Tx) /\ Len(mempool') = Len(mempool)
    BY <1>0, <1>5, ForgetIs DEF NoReceipt
  <2> QED BY <1>0, <1>5, <2>1 DEF NoReceipt
<1>6. CASE Timeout(t)
  <2>1. mempool' \in Seq(Tx) /\ Len(mempool') = Len(mempool)
    BY <1>0, <1>6, ForgetIs DEF Timeout
  <2> QED BY <1>0, <1>6, <2>1 DEF Timeout
<1>7. CASE MarkTaskCompleted(t)
  BY <1>7 DEF MarkTaskCompleted
<1>8. CASE HandleExecuteFailure(t)
  BY <1>8 DEF HandleExecuteFailure
<1> QED BY <1>1, <1>2, <1>3, <1>4, <1>5, <1>6, <1>7, <1>8 DEF FinalizerStep

(* The steps of the settlement loop keep them.                             *)
LEMMA SettlementTyped ==
  ASSUME TypeOK, LoopInv, SettlementStep, RetriesTyped'
  PROVE  TypeOK'
<1> USE DEF TypeOK, finalizer
<1>1. CASE StartRound
  BY <1>1, StartRoundIs DEF StartRound
<1>2. CASE CheckDeliverable
  <2>1. Head(loop.delivered).task \in Tasks
    BY <1>2, LoopTyped DEF CheckDeliverable, Snapshot
  <2>2. progress' = progress \/ progress' = [progress EXCEPT ![Head(loop.delivered).task] = "UserAcknowledged"]
    BY <1>2 DEF CheckDeliverable
  <2>3. loop' \in Loop
    BY <1>2, CheckDeliverableIs
  <2> QED BY <1>2, <2>1, <2>2, <2>3 DEF CheckDeliverable
<1>3. CASE CollectAcknowledged
  BY <1>3, CollectAcknowledgedIs DEF CollectAcknowledged
<1>4. CASE CollectExpired
  BY <1>4, CollectExpiredIs DEF CollectExpired
<1>5. CASE EndRound
  BY <1>5, IdleLoopIs DEF EndRound
<1>6. ASSUME DoSettlement \/ NoSettlementReceipt \/ MarkFinished \/ HandleSettlementFailure
      PROVE  TypeOK'
  <2>0. loop' \in Loop
    BY <1>6, BatchIs
  <2>1. Current.task \in Tasks /\ Current.row \in Row
    BY <1>6, BatchIs, LoopTyped DEF Snapshot
  <2>2. CASE DoSettlement
    <3>1. Current.row.root \in Key /\ Current.row.secret \in Key /\ 0 \in Key
      BY <2>1, DeliveryAssumption DEF Row, Key, DeliveryAssumption
    <3> DEFINE secret == IF loop.userAcked THEN Current.row.secret ELSE 0
               tx == [kind |-> "settleFees", task |-> Current.task, root |-> Current.row.root,
                      secret |-> secret, awaited |-> TRUE]
    <3>2. tx \in Tx
      <4>1. secret \in Key
        BY <3>1
      <4> HIDE DEF secret
      <4> QED BY <2>1, <3>1, <4>1 DEF Tx
    <3>3. Send(tx) \/ UNCHANGED mempool
      BY <2>2 DEF DoSettlement
    <3>4. mempool' \in Seq(Tx) /\ Len(mempool') <= MaxPending
      <4> HIDE DEF tx
      <4> QED BY <3>2, <3>3, SendIs
    <3>5. published' \subseteq Tasks
      BY <2>1, <2>2 DEF DoSettlement
    <3> QED BY <2>0, <2>2, <3>4, <3>5 DEF DoSettlement
  <2>3. CASE NoSettlementReceipt
    <3>1. mempool' \in Seq(Tx) /\ Len(mempool') = Len(mempool)
      BY <2>3, ForgetIs DEF NoSettlementReceipt
    <3> QED BY <2>0, <2>3, <3>1 DEF NoSettlementReceipt
  <2>4. CASE MarkFinished
    <3>1. progress' = progress \/ progress' = [progress EXCEPT ![Current.task] = "Finished"]
      BY <2>4 DEF MarkFinished
    <3> QED BY <2>0, <2>1, <2>4, <3>1 DEF MarkFinished
  <2>5. CASE HandleSettlementFailure
    <3>1. row' \in [Tasks -> Row]
      <4> DEFINE n == Current.row.retries + 1
      <4>1. n \in Nat
        BY <2>1 DEF Row
      <4>2. row' = row \/ row' = [row EXCEPT ![Current.task].retries = n]
        BY <2>5 DEF HandleSettlementFailure
      <4> HIDE DEF n
      <4>3. row \in [Tasks -> Row]
        OBVIOUS
      <4>4. CASE row' = [row EXCEPT ![Current.task].retries = n]
        <5> HIDE DEF TypeOK
        <5> QED BY <2>1, <4>1, <4>3, <4>4 DEF Row
      <4> QED BY <4>2, <4>3, <4>4
    <3>2. progress' = progress \/ progress' = [progress EXCEPT ![Current.task] = "Failed"]
      BY <2>5 DEF HandleSettlementFailure
    <3> QED BY <2>0, <2>1, <2>5, <3>1, <3>2 DEF HandleSettlementFailure
  <2> QED BY <1>6, <2>2, <2>3, <2>4, <2>5
<1> QED BY <1>1, <1>2, <1>3, <1>4, <1>5, <1>6 DEF SettlementStep

(* The transaction that is mined, and those behind it.                     *)
LEMMA MinedIs ==
  ASSUME TypeOK, MineTransaction
  PROVE  /\ 1 \in DOMAIN mempool /\ Head(mempool) = mempool[1] /\ Head(mempool) \in Tx
         /\ mempool' \in Seq(Tx) /\ Len(mempool') = Len(mempool) - 1 /\ Len(mempool) \in Nat
         /\ DOMAIN mempool' = 1 .. Len(mempool) - 1 /\ DOMAIN mempool = 1 .. Len(mempool)
         /\ \A i \in DOMAIN mempool' : i + 1 \in DOMAIN mempool /\ mempool'[i] = mempool[i + 1]
<1>1. mempool \in Seq(Tx) /\ mempool # << >> /\ mempool' = Tail(mempool)
  BY DEF TypeOK, MineTransaction
<1>2. Head(mempool) = mempool[1] /\ Head(mempool) \in Tx /\ 1 \in DOMAIN mempool
  BY <1>1, ElementsOf
<1> QED BY <1>1, <1>2, ElementsOf

(* What the contract's answer does to deliverables and waiting senders.    *)
LEMMA MineIs ==
  ASSUME TypeOK, MineTransaction
  PROVE  /\ chain' \in [Tasks -> Deliverable]
         /\ \A u \in Tasks \ {Head(mempool).task} : chain'[u] = chain[u]
         /\ LET tx == Head(mempool)
                c  == chain[tx.task]
                d  == chain'[tx.task]
            IN  \E ok \in BOOLEAN :
                  /\ Told(tx, ok)
                  /\ \/ tx.kind = "addDeliverable" /\ ok /\ d.root = tx.root /\ ~ d.acknowledged
                        /\ d.paid = c.paid /\ d.secret = c.secret
                     \/ /\ tx.kind = "settleFees" /\ ok /\ Settleable(tx)
                        /\ d.root = c.root /\ d.acknowledged = c.acknowledged /\ d.secret = tx.secret
                        /\ d.paid = IF tx.secret # 0 THEN "full" ELSE "reduced"
                     \/ ~ ok /\ d = c
<1> DEFINE tx == Head(mempool)
<1>1. /\ tx.task \in Tasks /\ tx.root \in Key /\ tx.secret \in Key
      /\ chain \in [Tasks -> Deliverable] /\ tx \in Tx
  BY MinedIs DEF TypeOK, Tx
<1>2. \/ tx.kind = "addDeliverable" /\ DeliverableAdded(tx) /\ Told(tx, TRUE)
      \/ tx.kind = "settleFees" /\ Settleable(tx) /\ FeesSettled(tx) /\ Told(tx, TRUE)
      \/ Told(tx, FALSE) /\ UNCHANGED chain
  BY DEF MineTransaction
<1> HIDE DEF tx
<1>3. CASE tx.kind = "addDeliverable" /\ DeliverableAdded(tx) /\ Told(tx, TRUE)
  <2>1. chain' \in [Tasks -> Deliverable]
    BY <1>1, <1>3 DEF DeliverableAdded, Deliverable
  <2>2. /\ chain'[tx.task].root = tx.root /\ ~ chain'[tx.task].acknowledged
        /\ chain'[tx.task].paid = chain[tx.task].paid /\ chain'[tx.task].secret = chain[tx.task].secret
        /\ \A u \in Tasks \ {tx.task} : chain'[u] = chain[u]
    BY <1>1, <1>3 DEF DeliverableAdded, Deliverable
  <2> QED BY <1>3, <2>1, <2>2 DEF tx
<1>4. CASE tx.kind = "settleFees" /\ Settleable(tx) /\ FeesSettled(tx) /\ Told(tx, TRUE)
  <2> DEFINE p == IF tx.secret # 0 THEN "full" ELSE "reduced"
  <2>0. p \in {"reduced", "full"}
    OBVIOUS
  <2>1. chain' = [chain EXCEPT ![tx.task].paid = p, ![tx.task].secret = tx.secret]
    BY <1>1, <1>4 DEF FeesSettled, Settleable
  <2>2. chain' \in [Tasks -> Deliverable]
    <3> HIDE DEF p
    <3> QED BY <1>1, <2>0, <2>1 DEF Deliverable
  <2>3. /\ chain'[tx.task].root = chain[tx.task].root
        /\ chain'[tx.task].acknowledged = chain[tx.task].acknowledged
        /\ chain'[tx.task].secret = tx.secret /\ chain'[tx.task].paid = p
        /\ \A u \in Tasks \ {tx.task} : chain'[u] = chain[u]
    <3> HIDE DEF p
    <3> QED BY <1>1, <2>1 DEF Deliverable
  <2> QED BY <1>4, <2>2, <2>3 DEF tx
<1>5. CASE Told(tx, FALSE) /\ UNCHANGED chain
  BY <1>1, <1>5 DEF tx
<1> QED BY <1>2, <1>3, <1>4, <1>5

(* Every step keeps the types.                                             *)
LEMMA TypeStep == IInv /\ [Next]_vars => TypeOK'
<1> SUFFICES ASSUME IInv, [Next]_vars PROVE TypeOK'
  OBVIOUS
<1> USE DEF TypeOK
<1>0. /\ TypeOK /\ LoopInv /\ \A t \in Tasks : FinalizerInv(t)
      /\ RetriesTyped'
  BY RetriesStep DEF IInv, TaskInv
<1>1. CASE UNCHANGED vars
  BY <1>0, <1>1 DEF vars
<1>2. ASSUME NEW t \in Tasks, FinalizerStep(t) PROVE TypeOK'
  BY <1>0, <1>2, FinalizerTyped
<1>3. ASSUME NEW t \in Tasks, AcknowledgeDeliverable(t) PROVE TypeOK'
  <2>1. chain' \in [Tasks -> Deliverable]
    BY <1>0, <1>3 DEF AcknowledgeDeliverable, Deliverable
  <2> QED BY <1>0, <1>3, <2>1 DEF AcknowledgeDeliverable, finalizer
<1>4. ASSUME NEW t \in Tasks, AckTimeout(t) PROVE TypeOK'
  BY <1>0, <1>4 DEF AckTimeout, finalizer
<1>5. ASSUME NEW w \in lateWrites, LateWrite(w[1], w[2]) PROVE TypeOK'
  <2>1. w[1] \in Tasks /\ w[2] \in Key
    BY <1>0, <1>5
  <2>2. row' \in [Tasks -> Row] /\ overdue' \in [Tasks -> BOOLEAN]
    BY <1>0, <1>5, <2>1, WriteIs DEF LateWrite
  <2> QED BY <1>0, <1>5, <2>2 DEF LateWrite
<1>9. ASSUME NEW o \in owed, CountRetry(o[1], o[2], o[3]) PROVE TypeOK'
  BY <1>0, <1>9 DEF CountRetry
<1>6. CASE SettlementStep
  BY <1>0, <1>6, SettlementTyped
<1>7. CASE MineTransaction
  <2>1. mempool' \in Seq(Tx) /\ Len(mempool') <= MaxPending
    BY <1>0, <1>7, MinedIs, DeliveryAssumption DEF DeliveryAssumption
  <2>2. chain' \in [Tasks -> Deliverable]
    BY <1>0, <1>7, MineIs
  <2>3. PICK ok \in BOOLEAN : Told(Head(mempool), ok)
    BY <1>0, <1>7, MineIs
  <2>4. Head(mempool).task \in Tasks
    BY <1>0, <1>7, MinedIs DEF Tx
  <2>5. step' \in [Tasks -> {"idle", "uploading", "storing", "adding", "confirming", "confirmed", "failing"}]
    BY <1>0, <2>3, <2>4 DEF Told
  <2>6. loop' \in Loop
    <3>1. loop' = loop \/ \E pc \in {"settled", "failed"} : loop' = [loop EXCEPT !.pc = pc]
      BY <2>3 DEF Told
    <3>2. loop \in Loop
      BY <1>0
    <3> QED BY <3>1, <3>2 DEF Loop
  <2> QED BY <1>0, <1>7, <2>1, <2>2, <2>5, <2>6 DEF MineTransaction
<1>8. CASE Restart
  <2>1. mempool' \in Seq(Tx) /\ Len(mempool') = Len(mempool)
    BY <1>0, <1>8, RestartForgets
  <2> QED BY <1>0, <1>8, <2>1, IdleLoopIs DEF Restart
<1> QED BY <1>1, <1>2, <1>3, <1>4, <1>5, <1>6, <1>7, <1>8, <1>9 DEF Next

------------------------------------------------------------------------------
(* The mempool: k transactions leave at its head, and senders may stop     *)
(* waiting.                                                                *)
Kept(k) ==
  /\ DOMAIN mempool' = 1 .. Len(mempool) - k /\ DOMAIN mempool = 1 .. Len(mempool)
  /\ \A i \in DOMAIN mempool' :
       /\ i + k \in DOMAIN mempool
       /\ mempool'[i].kind = mempool[i + k].kind /\ mempool'[i].task = mempool[i + k].task
       /\ mempool'[i].root = mempool[i + k].root /\ mempool'[i].secret = mempool[i + k].secret
       /\ mempool'[i].awaited => mempool[i + k].awaited

(* Steps that send nothing keep it in this sense.                          *)
LEMMA NothingSent ==
  ASSUME TypeOK
  PROVE  /\ UNCHANGED mempool => Kept(0)
         /\ \A kind, t : Forget(kind, t) => Kept(0)
         /\ Restart => Kept(0)
         /\ MineTransaction => Kept(1)
<1>0. mempool \in Seq(Tx) /\ DOMAIN mempool = 1 .. Len(mempool) /\ Len(mempool) \in Nat
  BY ElementsOf DEF TypeOK
<1>1. ASSUME UNCHANGED mempool PROVE Kept(0)
  BY <1>0, <1>1 DEF Kept
<1>2. ASSUME NEW kind, NEW t, Forget(kind, t) PROVE Kept(0)
  BY <1>0, <1>2, ForgetIs DEF Kept
<1>3. ASSUME Restart PROVE Kept(0)
  BY <1>0, <1>3, RestartForgets DEF Kept
<1>4. ASSUME MineTransaction PROVE Kept(1)
  BY <1>0, <1>4, MinedIs DEF Kept
<1> QED BY <1>1, <1>2, <1>3, <1>4

(* No deliverable appears in it.                                           *)
LEMMA NothingAdded ==
  ASSUME NEW k \in {0, 1}, Kept(k), NEW t, Adding(t)'
  PROVE  Adding(t)
<1>1. PICK i \in DOMAIN mempool' : IsAdd(mempool'[i], t)
  BY DEF Adding
<1>2. i + k \in DOMAIN mempool /\ IsAdd(mempool[i + k], t)
  BY <1>1 DEF Kept, IsAdd
<1> QED BY <1>2 DEF Adding

(* What is said of transactions stays true of those that are kept, if who  *)
(* still waits is still where it waits.                                    *)
LEMMA KeptInv ==
  ASSUME TypeOK, AddInv, SettleInv, NEW k \in {0, 1}, Kept(k),
         \A t \in Tasks : Quiet(t) => Quiet(t)',
         \A i \in DOMAIN mempool' : mempool'[i].kind = "addDeliverable" /\ mempool'[i].awaited =>
            (step[mempool'[i].task] = "confirming" => step'[mempool'[i].task] = "confirming"),
         \A i \in DOMAIN mempool' : mempool'[i].kind = "settleFees" /\ mempool'[i].awaited =>
            loop'.pc = loop.pc /\ loop'.batch = loop.batch
  PROVE  AddInv' /\ SettleInv'
<1>0. \A i \in DOMAIN mempool : mempool[i].task \in Tasks
  BY TxTyped
<1>1. AddInv'
  <2> SUFFICES ASSUME NEW i \in DOMAIN mempool', mempool'[i].kind = "addDeliverable"
               PROVE  /\ mempool'[i].root # 0
                      /\ mempool'[i].awaited =>
                           /\ step'[mempool'[i].task] = "confirming"
                           /\ \A j \in DOMAIN mempool' : j > i => ~ IsAdd(mempool'[j], mempool'[i].task)
    BY DEF AddInv
  <2>1. i + k \in DOMAIN mempool /\ mempool[i + k].kind = "addDeliverable"
    BY DEF Kept
  <2>2. mempool'[i].root # 0
    BY <2>1 DEF Kept, AddInv
  <2>3. ASSUME mempool'[i].awaited PROVE step'[mempool'[i].task] = "confirming"
    BY <2>1, <2>3 DEF Kept, AddInv
  <2>4. ASSUME mempool'[i].awaited, NEW j \in DOMAIN mempool', j > i
        PROVE  ~ IsAdd(mempool'[j], mempool'[i].task)
    <3>1. j + k \in DOMAIN mempool /\ j + k > i + k
      BY <2>4 DEF Kept
    <3>2. ~ IsAdd(mempool[j + k], mempool[i + k].task)
      BY <2>1, <2>4, <3>1 DEF Kept, AddInv
    <3> QED BY <3>2 DEF Kept, IsAdd
  <2> QED BY <2>2, <2>3, <2>4
<1>2. SettleInv'
  <2> SUFFICES ASSUME NEW i \in DOMAIN mempool', mempool'[i].kind = "settleFees"
               PROVE  /\ Quiet(mempool[i].task)'
                      /\ mempool'[i].secret # 0 => mempool'[i].secret = mempool'[i].root
                      /\ mempool'[i].awaited =>
                           /\ loop'.pc = "confirming" /\ mempool'[i].task = Current'.task
                           /\ \A j \in DOMAIN mempool' :
                                mempool'[j].kind = "settleFees" /\ mempool'[j].awaited => j = i
    BY DEF SettleInv
  <2>1. i + k \in DOMAIN mempool /\ mempool[i + k].kind = "settleFees"
    BY DEF Kept
  <2>2. Quiet(mempool[i + k].task) /\ mempool[i + k].task \in Tasks
    BY <1>0, <2>1 DEF SettleInv
  <2>3. Quiet(mempool[i].task)'
    BY <2>2 DEF Kept
  <2>4. mempool'[i].secret # 0 => mempool'[i].secret = mempool'[i].root
    BY <2>1 DEF Kept, SettleInv
  <2>5. ASSUME mempool'[i].awaited
        PROVE  loop'.pc = "confirming" /\ mempool'[i].task = Current'.task
    BY <2>1, <2>5 DEF Kept, SettleInv, Current
  <2>6. ASSUME mempool'[i].awaited, NEW j \in DOMAIN mempool',
               mempool'[j].kind = "settleFees", mempool'[j].awaited
        PROVE  j = i
    <3>1. j + k \in DOMAIN mempool /\ mempool[j + k].kind = "settleFees" /\ mempool[j + k].awaited
      BY <2>6 DEF Kept
    <3>2. j + k = i + k
      BY <2>1, <2>6, <3>1 DEF Kept, SettleInv
    <3> QED BY <3>2 DEF Kept
  <2> QED BY <2>3, <2>4, <2>5, <2>6
<1> QED BY <1>1, <1>2

------------------------------------------------------------------------------
(* A finalizer's step leaves every other task alone.                       *)
LEMMA FinalizerIsLocal ==
  ASSUME TypeOK, NEW t \in Tasks, FinalizerStep(t)
  PROVE  /\ \A u \in Tasks \ {t} : /\ progress'[u] = progress[u] /\ step'[u] = step[u]
                                   /\ tries'[u] = tries[u] /\ row'[u] = row[u]
         /\ UNCHANGED << chain, loop, published >>
<1>1. row \in [Tasks -> Row]
  BY DEF TypeOK
<1>2. \A n : WriteMetadata(t, n) => \A u \in Tasks \ {t} : row'[u] = row[u]
  BY <1>1 DEF WriteMetadata
<1> QED BY <1>2 DEF FinalizerStep, ClaimTask, EncryptAndUploadModel, StoreMetadata, AddDeliverable,
            NoReceipt, Timeout, MarkTaskCompleted, HandleExecuteFailure, TypeOK

(* A deliverable appears in the mempool for a task that is being added.    *)
LEMMA AddedBy ==
  ASSUME IInv, [Next]_vars, NEW t \in Tasks, Adding(t)'
  PROVE  Adding(t) \/ AddDeliverable(t)
<1>0. TypeOK
  BY DEF IInv
<1>1. ASSUME NEW u \in Tasks, AddDeliverable(u) PROVE Adding(t) \/ AddDeliverable(t)
  <2> DEFINE tx == [kind |-> "addDeliverable", task |-> u, root |-> tries[u], secret |-> 0, awaited |-> TRUE]
  <2>1. CASE Send(tx)
    <3>1. tx \in Tx /\ tx.task = u
      BY <1>0, DeliveryAssumption DEF TypeOK, Tx, Key, DeliveryAssumption
    <3>2. PICK i \in DOMAIN mempool' : IsAdd(mempool'[i], t)
      BY DEF Adding
    <3>3. mempool \in Seq(Tx) /\ Len(mempool) <= MaxPending
      BY <1>0 DEF TypeOK
    <3> HIDE DEF tx
    <3>4. (i \in DOMAIN mempool /\ mempool'[i] = mempool[i]) \/ mempool'[i] = tx
      BY <2>1, <3>1, <3>2, <3>3, SendIs
    <3> QED BY <1>1, <3>1, <3>2, <3>4 DEF Adding, IsAdd
  <2>2. CASE UNCHANGED mempool
    BY <1>0, <2>2, NothingSent, NothingAdded
  <2> QED BY <1>1, <2>1, <2>2 DEF AddDeliverable
<1>2. ASSUME NEW u \in Tasks, FinalizerStep(u) PROVE Adding(t) \/ AddDeliverable(t)
  <2>1. CASE UNCHANGED mempool \/ Forget("addDeliverable", u)
    BY <1>0, <2>1, NothingSent, NothingAdded
  <2>2. CASE AddDeliverable(u)
    BY <1>1, <2>2
  <2> QED BY <1>2, <2>1, <2>2 DEF FinalizerStep, ClaimTask, EncryptAndUploadModel, StoreMetadata,
              NoReceipt, Timeout, MarkTaskCompleted, HandleExecuteFailure
<1>3. CASE SettlementStep
  <2>1. CASE UNCHANGED mempool \/ Forget("settleFees", Current.task)
    BY <1>0, <2>1, NothingSent, NothingAdded
  <2>2. ASSUME NEW r, NEW s, Send([kind |-> "settleFees", task |-> Current.task, root |-> r,
                                   secret |-> s, awaited |-> TRUE])
        PROVE  Adding(t)
    <3>1. PICK i \in DOMAIN mempool' : IsAdd(mempool'[i], t)
      BY DEF Adding
    <3>2. mempool \in Seq(Tx)
      BY <1>0 DEF TypeOK
    <3> DEFINE tx == [kind |-> "settleFees", task |-> Current.task, root |-> r, secret |-> s, awaited |-> TRUE]
    <3>3. tx.kind = "settleFees"
      OBVIOUS
    <3>4. mempool' = Append(mempool, tx)
      BY <2>2 DEF Send
    <3> HIDE DEF tx
    <3>5. (i \in DOMAIN mempool /\ mempool'[i] = mempool[i]) \/ mempool'[i] = tx
      BY <3>1, <3>2, <3>4
    <3> QED BY <3>1, <3>3, <3>5 DEF Adding, IsAdd
  <2>3. CASE DoSettlement
    BY <2>1, <2>2, <2>3 DEF DoSettlement
  <2> QED BY <1>3, <2>1, <2>3 DEF SettlementStep, StartRound, CheckDeliverable, CollectAcknowledged,
              CollectExpired, EndRound, NoSettlementReceipt, MarkFinished, HandleSettlementFailure
<1>4. CASE MineTransaction
  BY <1>0, <1>4, NothingSent, NothingAdded
<1>5. CASE Restart
  BY <1>0, <1>5, NothingSent, NothingAdded
<1>6. CASE UNCHANGED mempool
  BY <1>0, <1>6, NothingSent, NothingAdded
<1> QED BY <1>2, <1>3, <1>4, <1>5, <1>6 DEF Next, vars, AcknowledgeDeliverable, AckTimeout, LateWrite, CountRetry

(* Who is done stays done.                                                 *)
LEMMA QuietStep ==
  ASSUME IInv, [Next]_vars, NEW t \in Tasks, Quiet(t)
  PROVE  Quiet(t)'
<1>0. TypeOK /\ LoopInv /\ AddInv /\ SettleInv
  BY DEF IInv
<1>1. ~ Adding(t)'
  BY AddedBy DEF Quiet, AddDeliverable
<1>2. progress'[t] \notin {"Trained", "Delivering"} /\ step'[t] = "idle"
  <2>1. ASSUME NEW u \in Tasks, FinalizerStep(u)
        PROVE  progress'[t] \notin {"Trained", "Delivering"} /\ step'[t] = "idle"
    <3>1. CASE u = t
      BY <2>1, <3>1 DEF Quiet, FinalizerStep, ClaimTask, EncryptAndUploadModel, StoreMetadata,
         AddDeliverable, NoReceipt, Timeout, MarkTaskCompleted, HandleExecuteFailure
    <3>2. CASE u # t
      BY <1>0, <2>1, <3>2, FinalizerIsLocal DEF Quiet
    <3> QED BY <3>1, <3>2
  <2>2. CASE SettlementStep
    <3>1. step'[t] = "idle"
      BY <2>2 DEF Quiet, SettlementStep, StartRound, CheckDeliverable, CollectAcknowledged, CollectExpired,
         EndRound, DoSettlement, NoSettlementReceipt, MarkFinished, HandleSettlementFailure, finalizer
    <3>2. \/ UNCHANGED progress
          \/ \E u, p : p \in {"UserAcknowledged", "Finished", "Failed"} /\ progress' = [progress EXCEPT ![u] = p]
      BY <2>2 DEF SettlementStep, StartRound, CheckDeliverable, CollectAcknowledged, CollectExpired,
         EndRound, DoSettlement, NoSettlementReceipt, MarkFinished, HandleSettlementFailure
    <3> QED BY <1>0, <3>1, <3>2 DEF Quiet, TypeOK
  <2>3. CASE MineTransaction
    <3>1. PICK ok \in BOOLEAN : Told(Head(mempool), ok)
      BY <1>0, <2>3, MineIs
    <3>2. step'[t] = "idle"
      <4>1. CASE Head(mempool).kind = "addDeliverable"
        <5>1. ~ (Head(mempool).task = t)
          BY <1>0, <2>3, <4>1, MinedIs DEF Quiet, Adding, IsAdd
        <5> QED BY <1>0, <3>1, <5>1 DEF Told, Quiet, TypeOK
      <4> QED BY <3>1, <4>1 DEF Told, Quiet
    <3> QED BY <2>3, <3>2 DEF MineTransaction, Quiet
  <2>4. CASE Restart
    BY <2>4 DEF Restart
  <2>5. CASE UNCHANGED << progress, step >>
    BY <2>5 DEF Quiet
  <2> QED BY <2>1, <2>2, <2>3, <2>4, <2>5 DEF Next, vars, AcknowledgeDeliverable, AckTimeout, LateWrite, CountRetry, finalizer
<1> QED BY <1>1, <1>2 DEF Quiet

------------------------------------------------------------------------------
(* The steps of a finalizer keep the invariant.                            *)

(* What is known of a list of the loop's stays known.                      *)
LEMMA KnownStays ==
  ASSUME IInv, [Next]_vars, NEW s \in Seq(Snapshot), Known(s)
  PROVE  Known(s)'
<1>1. \A i \in DOMAIN s : s[i].task \in Tasks
  <2>1. \A i \in DOMAIN s : s[i] \in Snapshot
    BY ElementsOf
  <2> QED BY <2>1 DEF Snapshot
<1> QED BY <1>1, QuietStep DEF Known

(* What is known of the lists of the loop, if loop and contract stay.      *)
LEMMA LoopStays ==
  ASSUME IInv, [Next]_vars, UNCHANGED << loop, chain >>
  PROVE  LoopInv'
<1>0. TypeOK /\ LoopInv
  BY DEF IInv
<1>1. ASSUME NEW s \in Seq(Snapshot), Known(s) PROVE Known(s)'
  BY <1>1, KnownStays
<1>2. Known(loop.delivered)' /\ Known(loop.expired)' /\ Known(loop.batch)'
  BY <1>0, <1>1, LoopTyped DEF LoopInv
<1> QED BY <1>0, <1>2 DEF LoopInv, Current

(* The other tasks keep what is known of them.                             *)
LEMMA OthersStay ==
  ASSUME IInv, NEW t \in Tasks, FinalizerStep(t), NEW u \in Tasks, u # t
  PROVE  FinalizerInv(u)' /\ ChainInv(u)'
<1>0. TypeOK /\ FinalizerInv(u) /\ ChainInv(u) /\ [Next]_vars
  BY DEF IInv, TaskInv, Next
<1>1. /\ progress'[u] = progress[u] /\ step'[u] = step[u] /\ tries'[u] = tries[u] /\ row'[u] = row[u]
      /\ UNCHANGED << chain, loop, published >>
  BY <1>0, FinalizerIsLocal
<1>2. Adding(u)' => Adding(u)
  <2>1. ~ AddDeliverable(u)
    BY <1>0, <1>1 DEF AddDeliverable, TypeOK
  <2> QED BY <1>0, <2>1, AddedBy
<1>3. Quiet(u) => Quiet(u)'
  BY <1>0, QuietStep
<1> QED BY <1>0, <1>1, <1>2, <1>3 DEF FinalizerInv, ChainInv

(* The task the finalizer works on.                                        *)
LEMMA WorkedOn ==
  ASSUME IInv, NEW t \in Tasks, FinalizerStep(t)
  PROVE  FinalizerInv(t)' /\ ChainInv(t)'
<1>0. TypeOK /\ FinalizerInv(t) /\ ChainInv(t) /\ [Next]_vars
  BY DEF IInv, TaskInv, Next
<1>1. UNCHANGED << chain, loop, published >> /\ (Adding(t)' => Adding(t) \/ AddDeliverable(t))
  BY <1>0, FinalizerIsLocal, AddedBy
<1>2. Quiet(t) => Quiet(t)'
  BY <1>0, QuietStep
<1>3. ~ Quiet(t)
  BY DEF Quiet, FinalizerStep, ClaimTask, EncryptAndUploadModel, StoreMetadata, AddDeliverable,
         NoReceipt, Timeout, MarkTaskCompleted, HandleExecuteFailure
<1>4. ChainInv(t)'
  <2>1. progress'[t] \in {"UserAcknowledged", "Finished"} => progress'[t] = progress[t]
    BY <1>0 DEF TypeOK, FinalizerStep, ClaimTask, EncryptAndUploadModel, StoreMetadata, AddDeliverable,
         NoReceipt, Timeout, MarkTaskCompleted, HandleExecuteFailure
  <2>2. progress'[t] = "Delivered" => progress[t] = "Delivered" \/ step[t] = "confirmed"
    BY <1>0 DEF TypeOK, FinalizerStep, ClaimTask, EncryptAndUploadModel, StoreMetadata, AddDeliverable,
         NoReceipt, Timeout, MarkTaskCompleted, HandleExecuteFailure
  <2> QED BY <1>0, <1>1, <1>2, <1>3, <2>1, <2>2 DEF ChainInv, FinalizerInv
<1>5. FinalizerInv(t)'
  <2> USE <1>0, <1>1, <1>3 DEF FinalizerInv, TypeOK
  <2>1. CASE ClaimTask(t)
    <3>1. tries'[t] # 0
      BY <2>1 DEF ClaimTask, Key
    <3> QED BY <2>1, <3>1 DEF ClaimTask
  <2>2. CASE EncryptAndUploadModel(t)
    BY <2>2 DEF EncryptAndUploadModel
  <2>3. CASE StoreMetadata(t)
    <3>1. row'[t].root = row'[t].secret
      BY <2>3, WriteIs DEF StoreMetadata
    <3> QED BY <2>3, <3>1 DEF StoreMetadata
  <2>4. CASE AddDeliverable(t)
    BY <2>4 DEF AddDeliverable
  <2>5. CASE NoReceipt(t)
    BY <2>5 DEF NoReceipt
  <2>6. CASE Timeout(t)
    BY <2>6 DEF Timeout
  <2>7. CASE MarkTaskCompleted(t)
    BY <2>7 DEF MarkTaskCompleted, AddDeliverable, Quiet
  <2>8. CASE HandleExecuteFailure(t)
    BY <2>8 DEF HandleExecuteFailure
  <2> QED BY <2>1, <2>2, <2>3, <2>4, <2>5, <2>6, <2>7, <2>8 DEF FinalizerStep
<1> QED BY <1>4, <1>5

(* Its transactions.                                                       *)
LEMMA FinalizerSends ==
  ASSUME IInv, NEW t \in Tasks, FinalizerStep(t)
  PROVE  AddInv' /\ SettleInv'
<1>0. /\ TypeOK /\ AddInv /\ SettleInv /\ FinalizerInv(t) /\ [Next]_vars
      /\ loop' = loop
  BY FinalizerIsLocal DEF IInv, TaskInv, Next
<1>1. \A u \in Tasks : Quiet(u) => Quiet(u)'
  BY <1>0, QuietStep
<1>2. \A i \in DOMAIN mempool : mempool[i].task \in Tasks
  BY <1>0, TxTyped
<1>3. CASE UNCHANGED mempool /\ step[t] # "confirming"
  <2>1. \A u \in Tasks : step[u] = "confirming" => step'[u] = "confirming"
    BY <1>0, <1>3, FinalizerIsLocal
  <2>2. \A i \in DOMAIN mempool' : step[mempool'[i].task] = "confirming" => step'[mempool'[i].task] = "confirming"
    <3>1. mempool' = mempool
      BY <1>3
    <3> QED BY <1>2, <2>1, <3>1
  <2>3. Kept(0)
    BY <1>0, <1>3, NothingSent
  <2> QED BY <1>0, <1>1, <2>2, <2>3, KeptInv
<1>4. CASE Forget("addDeliverable", t)
  <2>1. \A i \in DOMAIN mempool' : /\ mempool'[i].kind = "addDeliverable" /\ mempool'[i].awaited => mempool'[i].task # t
                                  /\ mempool'[i].task \in Tasks
    BY <1>0, <1>2, <1>4, ForgetIs DEF TypeOK
  <2>2. \A u \in Tasks \ {t} : step[u] = "confirming" => step'[u] = "confirming"
    BY <1>0, FinalizerIsLocal
  <2> QED BY <1>0, <1>1, <1>4, <2>1, <2>2, NothingSent, KeptInv
<1>5. ASSUME AddDeliverable(t), step'[t] = "confirming"
      PROVE  AddInv' /\ SettleInv'
  <2> DEFINE tx == [kind |-> "addDeliverable", task |-> t, root |-> tries[t], secret |-> 0, awaited |-> TRUE]
             n == Len(mempool) + 1
  <2>1. Send(tx) /\ step[t] = "adding"
    BY <1>0, <1>5 DEF AddDeliverable, TypeOK
  <2>2. tx \in Tx /\ tx.task = t /\ tx.kind = "addDeliverable" /\ tx.root # 0
    BY <1>0, <2>1, DeliveryAssumption DEF TypeOK, Tx, Key, DeliveryAssumption, FinalizerInv
  <2>3. mempool \in Seq(Tx) /\ Len(mempool) <= MaxPending
    BY <1>0 DEF TypeOK
  <2> HIDE DEF tx
  <2>4. /\ Len(mempool) \in Nat /\ DOMAIN mempool' = 1 .. n /\ DOMAIN mempool = 1 .. Len(mempool)
        /\ mempool'[n] = tx /\ \A i \in DOMAIN mempool : mempool'[i] = mempool[i]
    BY <2>1, <2>2, <2>3, SendIs
  <2>5. \A i \in DOMAIN mempool' : i = n \/ i \in DOMAIN mempool
    BY <2>4
  <2>6. \A u \in Tasks \ {t} : step'[u] = step[u]
    BY <1>0, FinalizerIsLocal
  <2>7. AddInv'
    <3> SUFFICES ASSUME NEW i \in DOMAIN mempool', mempool'[i].kind = "addDeliverable"
                 PROVE  /\ mempool'[i].root # 0
                        /\ mempool'[i].awaited =>
                             /\ step'[mempool'[i].task] = "confirming"
                             /\ \A j \in DOMAIN mempool' : j > i => ~ IsAdd(mempool'[j], mempool'[i].task)
      BY DEF AddInv
    <3>1. CASE i = n
      BY <1>5, <2>2, <2>4, <3>1
    <3>2. CASE i \in DOMAIN mempool
      <4>1. mempool'[i].awaited => mempool[i].task # t
        BY <1>0, <2>1, <2>4, <3>2 DEF AddInv
      <4> QED BY <1>0, <1>2, <2>2, <2>4, <2>5, <2>6, <3>2, <4>1 DEF AddInv, IsAdd
    <3> QED BY <2>5, <3>1, <3>2
  <2>8. SettleInv'
    <3>1. \A i \in DOMAIN mempool' : mempool'[i].kind = "settleFees" =>
            i \in DOMAIN mempool /\ mempool'[i] = mempool[i] /\ Quiet(mempool[i].task)'
      <4> SUFFICES ASSUME NEW i \in DOMAIN mempool', mempool'[i].kind = "settleFees"
                   PROVE  i \in DOMAIN mempool /\ mempool'[i] = mempool[i] /\ Quiet(mempool[i].task)'
        OBVIOUS
      <4>1. i \in DOMAIN mempool /\ mempool'[i] = mempool[i]
        BY <2>2, <2>4, <2>5
      <4>2. Quiet(mempool[i].task) /\ mempool[i].task \in Tasks
        BY <1>0, <1>2, <4>1 DEF SettleInv
      <4> QED BY <1>1, <4>1, <4>2
    <3> QED BY <1>0, <2>4, <2>5, <3>1 DEF SettleInv, Current
  <2> QED BY <2>7, <2>8
<1>6. CASE AddDeliverable(t)
  BY <1>0, <1>3, <1>5, <1>6 DEF AddDeliverable, TypeOK
<1>7. CASE NoReceipt(t) \/ Timeout(t)
  BY <1>4, <1>7 DEF NoReceipt, Timeout
<1>8. CASE ClaimTask(t) \/ EncryptAndUploadModel(t) \/ StoreMetadata(t) \/ MarkTaskCompleted(t) \/ HandleExecuteFailure(t)
  <2>1. FinalizerInv(t) => step[t] # "confirming" \/ progress[t] = "Delivering"
    BY DEF FinalizerInv
  <2>2. UNCHANGED mempool /\ step[t] # "confirming"
    BY <1>0, <1>8, <2>1 DEF ClaimTask, EncryptAndUploadModel, StoreMetadata, MarkTaskCompleted, HandleExecuteFailure
  <2> QED BY <1>3, <2>2
<1> QED BY <1>6, <1>7, <1>8 DEF FinalizerStep

------------------------------------------------------------------------------
(* The steps of the settlement loop keep the invariant.                    *)

(* The tasks the loop has lists of.                                        *)
LEMMA KnownTasks ==
  ASSUME IInv
  PROVE  /\ loop.delivered # << >> => /\ Head(loop.delivered).task \in Tasks /\ Quiet(Head(loop.delivered).task)
                                     /\ Head(loop.delivered).row.root = Head(loop.delivered).row.secret
         /\ loop.batch # << >> => /\ Current.task \in Tasks /\ Quiet(Current.task)
                                 /\ Current.row.root = Current.row.secret
                                 /\ (loop.userAcked => chain[Current.task].acknowledged)
<1>0. TypeOK /\ LoopInv
  BY DEF IInv
<1>1. \A s \in Seq(Snapshot) : s # << >> /\ Known(s) =>
        Head(s) = s[1] /\ Head(s).task \in Tasks /\ Quiet(Head(s).task) /\ Head(s).row.root = Head(s).row.secret
  <2> SUFFICES ASSUME NEW s \in Seq(Snapshot), s # << >>, Known(s)
               PROVE  Head(s) = s[1] /\ Head(s).task \in Tasks /\ Quiet(Head(s).task) /\ Head(s).row.root = Head(s).row.secret
    OBVIOUS
  <2>1. Head(s) = s[1] /\ 1 \in DOMAIN s /\ s[1] \in Snapshot
    BY ElementsOf
  <2> QED BY <2>1 DEF Known, Snapshot
<1>2. loop.batch # << >> /\ loop.userAcked => chain[loop.batch[1].task].acknowledged
  <2>1. loop.batch # << >> => 1 \in DOMAIN loop.batch
    BY <1>0, LoopTyped, ElementsOf
  <2> QED BY <1>0, <2>1 DEF LoopInv
<1> QED BY <1>0, <1>1, <1>2, LoopTyped DEF LoopInv, Current

(* Where the loop's steps put a task.                                      *)
LEMMA SettlementMoves ==
  ASSUME IInv, SettlementStep, NEW u \in Tasks
  PROVE  /\ step'[u] = step[u] /\ tries'[u] = tries[u] /\ UNCHANGED chain
         /\ row'[u].root = row[u].root /\ row'[u].secret = row[u].secret
         /\ \/ progress'[u] = progress[u]
            \/ /\ Quiet(u)
               /\ \/ progress'[u] = "UserAcknowledged" /\ chain[u].acknowledged
                  \/ progress'[u] = "Finished" /\ chain[u].paid # "no"
                  \/ progress'[u] = "Failed"
         /\ u \in published' => u \in published \/ (Quiet(u) /\ chain[u].acknowledged)
<1>0. TypeOK /\ LoopInv
  BY DEF IInv
<1>1. step'[u] = step[u] /\ tries'[u] = tries[u] /\ UNCHANGED chain
  BY DEF SettlementStep, StartRound, CheckDeliverable, CollectAcknowledged, CollectExpired,
         EndRound, DoSettlement, NoSettlementReceipt, MarkFinished, HandleSettlementFailure, finalizer
<1>2. row'[u].root = row[u].root /\ row'[u].secret = row[u].secret
  <2>1. row \in [Tasks -> Row]
    BY <1>0 DEF TypeOK
  <2>2. \A n, t : row' = [row EXCEPT ![t].retries = n] => row'[u].root = row[u].root /\ row'[u].secret = row[u].secret
    BY <2>1 DEF Row
  <2>3. row' = row \/ \E n, t : row' = [row EXCEPT ![t].retries = n]
    BY DEF SettlementStep, StartRound, CheckDeliverable, CollectAcknowledged, CollectExpired,
         EndRound, DoSettlement, NoSettlementReceipt, MarkFinished, HandleSettlementFailure
  <2> QED BY <2>2, <2>3
<1>3. \/ progress'[u] = progress[u]
      \/ /\ Quiet(u)
         /\ \/ progress'[u] = "UserAcknowledged" /\ chain[u].acknowledged
            \/ progress'[u] = "Finished" /\ chain[u].paid # "no"
            \/ progress'[u] = "Failed"
  <2> USE <1>0, KnownTasks DEF TypeOK
  <2>1. CASE CheckDeliverable
    BY <2>1 DEF CheckDeliverable
  <2>2. CASE MarkFinished
    BY <2>2 DEF MarkFinished, LoopInv
  <2>3. CASE HandleSettlementFailure
    BY <2>3 DEF HandleSettlementFailure, LoopInv
  <2> QED BY <2>1, <2>2, <2>3 DEF SettlementStep, StartRound, CollectAcknowledged, CollectExpired,
         EndRound, DoSettlement, NoSettlementReceipt
<1>4. u \in published' => u \in published \/ (Quiet(u) /\ chain[u].acknowledged)
  <2>1. CASE DoSettlement
    BY <2>1, KnownTasks DEF DoSettlement
  <2> QED BY <2>1 DEF SettlementStep, StartRound, CheckDeliverable, CollectAcknowledged, CollectExpired,
         EndRound, NoSettlementReceipt, MarkFinished, HandleSettlementFailure
<1> QED BY <1>1, <1>2, <1>3, <1>4

(* Whatever the loop's steps do, what is known of the tasks stays true.    *)
LEMMA SettlementKeepsTasks ==
  ASSUME IInv, SettlementStep, NEW u \in Tasks
  PROVE  FinalizerInv(u)' /\ ChainInv(u)'
<1>0. TypeOK /\ FinalizerInv(u) /\ ChainInv(u) /\ [Next]_vars
  BY DEF IInv, TaskInv, Next
<1>1. Quiet(u) => Quiet(u)'
  BY <1>0, QuietStep
<1>2. Adding(u)' => Adding(u)
  <2>1. Adding(u)' => Adding(u) \/ AddDeliverable(u)
    BY <1>0, AddedBy
  <2>2. ~ AddDeliverable(u)
    BY <1>0, SettlementMoves DEF AddDeliverable, TypeOK
  <2> QED BY <2>1, <2>2
<1>3. Quiet(u) => step[u] = "idle"
  BY DEF Quiet
<1> QED BY <1>0, <1>1, <1>2, <1>3, SettlementMoves DEF FinalizerInv, ChainInv

(* The loop's transactions.                                                *)
LEMMA SettlementSends ==
  ASSUME IInv, SettlementStep
  PROVE  AddInv' /\ SettleInv'
<1>0. TypeOK /\ AddInv /\ SettleInv /\ LoopInv /\ [Next]_vars
  BY DEF IInv, Next
<1>1. \A u \in Tasks : Quiet(u) => Quiet(u)'
  BY <1>0, QuietStep
<1>2. \A i \in DOMAIN mempool : mempool[i].task \in Tasks
  BY <1>0, TxTyped
<1>3. \A u \in Tasks : step'[u] = step[u]
  BY SettlementMoves
<1>4. ASSUME UNCHANGED mempool, loop.pc # "confirming"
      PROVE  AddInv' /\ SettleInv'
  <2>1. Kept(0)
    BY <1>0, <1>4, NothingSent
  <2>2. \A i \in DOMAIN mempool' : /\ ~ (mempool'[i].kind = "settleFees" /\ mempool'[i].awaited)
                                  /\ mempool'[i].task \in Tasks
    <3>1. mempool' = mempool
      BY <1>4
    <3> QED BY <1>0, <1>2, <1>4, <3>1 DEF SettleInv
  <2> QED BY <1>0, <1>1, <1>3, <2>1, <2>2, KeptInv
<1>5. ASSUME NoSettlementReceipt
      PROVE  AddInv' /\ SettleInv'
  <2>1. Forget("settleFees", Current.task) /\ mempool \in Seq(Tx)
    BY <1>0, <1>5 DEF NoSettlementReceipt, TypeOK
  <2>2. Kept(0)
    BY <1>0, <2>1, NothingSent
  <2>3. \A i \in DOMAIN mempool' : /\ ~ (mempool'[i].kind = "settleFees" /\ mempool'[i].awaited)
                                  /\ mempool'[i].task \in Tasks
    BY <1>0, <1>2, <2>1, ForgetIs DEF SettleInv
  <2> QED BY <1>0, <1>1, <1>3, <2>2, <2>3, KeptInv
<1>6. ASSUME DoSettlement, ~ UNCHANGED mempool
      PROVE  AddInv' /\ SettleInv'
  <2> DEFINE secret == IF loop.userAcked THEN Current.row.secret ELSE 0
             tx == [kind |-> "settleFees", task |-> Current.task, root |-> Current.row.root,
                    secret |-> secret, awaited |-> TRUE]
             n == Len(mempool) + 1
  <2>1. /\ Send(tx) /\ loop.pc = "settling" /\ loop.batch # << >>
        /\ loop'.pc = "confirming"
    <3>1. Send(tx) /\ loop.pc = "settling" /\ loop.batch # << >>
          /\ loop' = [loop EXCEPT !.pc = "confirming"] /\ loop \in Loop
      BY <1>0, <1>6 DEF DoSettlement, TypeOK
    <3> QED BY <3>1 DEF Loop
  <2>2. Current.task \in Tasks /\ Quiet(Current.task) /\ Current.row.root = Current.row.secret
    BY <2>1, KnownTasks
  <2>3. loop'.batch = loop.batch
    BY <1>0, <1>6, <2>1, BatchIs
  <2>4. tx \in Tx
    <3>1. Current.row \in Row
      BY <1>0, <2>1, LoopTyped DEF Snapshot
    <3>2. Current.row.root \in Key /\ Current.row.secret \in Key /\ 0 \in Key
      BY <3>1, DeliveryAssumption DEF Row, Key, DeliveryAssumption
    <3>3. secret \in Key
      BY <3>2
    <3> HIDE DEF secret
    <3> QED BY <2>2, <3>2, <3>3 DEF Tx
  <2>5. tx.task = Current.task /\ tx.kind = "settleFees" /\ (tx.secret # 0 => tx.secret = tx.root)
    BY <2>2
  <2>6. mempool \in Seq(Tx) /\ Len(mempool) <= MaxPending
    BY <1>0 DEF TypeOK
  <2> HIDE DEF tx
  <2>7. /\ Len(mempool) \in Nat /\ DOMAIN mempool' = 1 .. n /\ DOMAIN mempool = 1 .. Len(mempool)
        /\ mempool'[n] = tx /\ \A i \in DOMAIN mempool : mempool'[i] = mempool[i]
    BY <2>1, <2>4, <2>6, SendIs
  <2>8. \A i \in DOMAIN mempool' : i = n \/ i \in DOMAIN mempool
    BY <2>7
  <2>9. AddInv'
    <3> SUFFICES ASSUME NEW i \in DOMAIN mempool', mempool'[i].kind = "addDeliverable"
                 PROVE  /\ mempool'[i].root # 0
                        /\ mempool'[i].awaited =>
                             /\ step'[mempool'[i].task] = "confirming"
                             /\ \A j \in DOMAIN mempool' : j > i => ~ IsAdd(mempool'[j], mempool'[i].task)
      BY DEF AddInv
    <3>1. i \in DOMAIN mempool /\ mempool'[i] = mempool[i]
      BY <2>5, <2>7, <2>8
    <3>2. \A j \in DOMAIN mempool' : IsAdd(mempool'[j], mempool[i].task) =>
            j \in DOMAIN mempool /\ IsAdd(mempool[j], mempool[i].task)
      BY <2>5, <2>7, <2>8 DEF IsAdd
    <3>3. step'[mempool[i].task] = step[mempool[i].task]
      BY <1>2, <1>3, <3>1
    <3> QED BY <1>0, <3>1, <3>2, <3>3 DEF AddInv
  <2>10. SettleInv'
    <3> SUFFICES ASSUME NEW i \in DOMAIN mempool', mempool'[i].kind = "settleFees"
                 PROVE  /\ Quiet(mempool[i].task)'
                        /\ mempool'[i].secret # 0 => mempool'[i].secret = mempool'[i].root
                        /\ mempool'[i].awaited =>
                             /\ loop'.pc = "confirming" /\ mempool'[i].task = Current'.task
                             /\ \A j \in DOMAIN mempool' :
                                  mempool'[j].kind = "settleFees" /\ mempool'[j].awaited => j = i
      BY DEF SettleInv
    <3>1. \A j \in DOMAIN mempool : ~ (mempool[j].kind = "settleFees" /\ mempool[j].awaited)
      BY <1>0, <2>1 DEF SettleInv
    <3>2. \A j \in DOMAIN mempool' : mempool'[j].kind = "settleFees" /\ mempool'[j].awaited => j = n
      BY <2>7, <2>8, <3>1
    <3>3. CASE i = n
      <4>1. Quiet(mempool[i].task)'
        BY <1>1, <2>2, <2>5, <2>7, <3>3
      <4> QED BY <2>1, <2>3, <2>5, <2>7, <3>2, <3>3, <4>1 DEF Current
    <3>4. CASE i \in DOMAIN mempool
      <4>1. mempool'[i] = mempool[i] /\ ~ mempool[i].awaited
        BY <2>7, <3>1, <3>4
      <4>2. Quiet(mempool[i].task)'
        BY <1>0, <1>1, <1>2, <3>4, <4>1 DEF SettleInv
      <4> QED BY <1>0, <3>4, <4>1, <4>2 DEF SettleInv
    <3> QED BY <2>8, <3>3, <3>4
  <2> QED BY <2>9, <2>10
<1> QED BY <1>0, <1>4, <1>5, <1>6 DEF SettlementStep, StartRound, CheckDeliverable, CollectAcknowledged,
      CollectExpired, EndRound, DoSettlement, MarkFinished, HandleSettlementFailure

(* The lists made from known ones, and those read from the rows.           *)
LEMMA ListsKnown ==
  ASSUME IInv
  PROVE  /\ Known(<< >>)
         /\ \A s \in Seq(Snapshot) : Known(s) /\ s # << >> => Known(Tail(s))
         /\ \A s, d \in Seq(Snapshot) : Known(s) /\ Known(d) /\ d # << >> => Known(Append(s, Head(d)))
         /\ \A s \in Seq(Snapshot), n \in Nat : Known(s) => Known(First(n, s))
         /\ Known(Rows("Delivered")) /\ Known(Rows("UserAcknowledged"))
         /\ \A i \in DOMAIN Rows("UserAcknowledged") : chain[Rows("UserAcknowledged")[i].task].acknowledged
<1>0. TypeOK /\ TaskInv
  BY DEF IInv
<1>1. Known(<< >>)
  BY DEF Known
<1>2. ASSUME NEW s \in Seq(Snapshot), Known(s), s # << >> PROVE Known(Tail(s))
  BY <1>2, ElementsOf DEF Known
<1>3. ASSUME NEW s \in Seq(Snapshot), NEW d \in Seq(Snapshot), Known(s), Known(d), d # << >>
      PROVE  Known(Append(s, Head(d)))
  <2>1. Quiet(Head(d).task) /\ Head(d).row.root = Head(d).row.secret
    BY <1>3, ElementsOf DEF Known
  <2>2. \A x : \A i \in DOMAIN Append(s, x) : (i \in DOMAIN s /\ Append(s, x)[i] = s[i]) \/ Append(s, x)[i] = x
    OBVIOUS
  <2> QED BY <1>3, <2>1, <2>2 DEF Known
<1>4. ASSUME NEW s \in Seq(Snapshot), NEW n \in Nat, Known(s) PROVE Known(First(n, s))
  BY <1>4, FirstTyped DEF Known
<1>5. ASSUME NEW state \in {"Delivered", "UserAcknowledged"} PROVE Known(Rows(state))
  <2> SUFFICES ASSUME NEW i \in DOMAIN Rows(state)
               PROVE  Quiet(Rows(state)[i].task) /\ Rows(state)[i].row.root = Rows(state)[i].row.secret
    BY DEF Known
  <2>1. Rows(state) \in Seq(Snapshot) /\ progress[Rows(state)[i].task] = state
        /\ Rows(state)[i].row = row[Rows(state)[i].task]
    BY <1>0, RowsFound
  <2>2. Rows(state)[i].task \in Tasks
    <3>1. Rows(state)[i] \in Snapshot
      BY <2>1, ElementsOf
    <3> QED BY <3>1 DEF Snapshot
  <2> QED BY <1>0, <2>1, <2>2 DEF TaskInv, FinalizerInv
<1>6. \A i \in DOMAIN Rows("UserAcknowledged") : chain[Rows("UserAcknowledged")[i].task].acknowledged
  <2> SUFFICES ASSUME NEW i \in DOMAIN Rows("UserAcknowledged")
               PROVE  chain[Rows("UserAcknowledged")[i].task].acknowledged
    OBVIOUS
  <2>1. /\ Rows("UserAcknowledged") \in Seq(Snapshot)
        /\ progress[Rows("UserAcknowledged")[i].task] = "UserAcknowledged"
    BY <1>0, RowsFound
  <2>2. Rows("UserAcknowledged")[i].task \in Tasks
    <3>1. Rows("UserAcknowledged")[i] \in Snapshot
      BY <2>1, ElementsOf
    <3> QED BY <3>1 DEF Snapshot
  <2> QED BY <1>0, <2>1, <2>2 DEF TaskInv, ChainInv
<1> QED BY <1>1, <1>2, <1>3, <1>4, <1>5, <1>6

(* The loop's own bookkeeping.                                             *)
LEMMA SettlementKeepsLoop ==
  ASSUME IInv, SettlementStep
  PROVE  LoopInv'
<1>0. TypeOK /\ LoopInv /\ [Next]_vars /\ chain' = chain
  <2>1. chain' = chain
    BY DEF SettlementStep, StartRound, CheckDeliverable, CollectAcknowledged, CollectExpired,
       EndRound, DoSettlement, NoSettlementReceipt, MarkFinished, HandleSettlementFailure
  <2> QED BY <2>1 DEF IInv, Next
<1>1. /\ loop.delivered \in Seq(Snapshot) /\ loop.expired \in Seq(Snapshot) /\ loop.batch \in Seq(Snapshot)
      /\ Known(loop.delivered) /\ Known(loop.expired) /\ Known(loop.batch)
      /\ loop.counter \in Nat /\ SettlementBatchSize \in Nat
      /\ \A state : Rows(state) \in Seq(Snapshot)
      /\ << >> \in Seq(Snapshot) /\ Len(<< >>) = 0
  BY <1>0, LoopTyped, RowsFound, DeliveryAssumption DEF LoopInv, DeliveryAssumption
<1> DEFINE LoopKnows == Known(loop'.delivered) /\ Known(loop'.expired) /\ Known(loop'.batch)
           LoopRest == /\ loop'.userAcked => \A i \in DOMAIN loop'.batch : chain[loop'.batch[i].task].acknowledged
                       /\ loop'.pc \in {"confirming", "settled", "failed"} => loop'.batch # << >>
                       /\ loop'.pc # "settled"
                       /\ loop'.pc \in {"idle", "checking"} => loop'.counter = 0 /\ loop'.batch = << >>
                       /\ loop'.counter + Len(loop'.batch) <= SettlementBatchSize
<1>2. ASSUME loop' \in Loop, LoopKnows, LoopRest PROVE LoopInv'
  <2>1. loop'.delivered \in Seq(Snapshot) /\ loop'.expired \in Seq(Snapshot) /\ loop'.batch \in Seq(Snapshot)
    BY <1>2 DEF Loop
  <2>2. ASSUME NEW s \in Seq(Snapshot), Known(s) PROVE \A i \in DOMAIN s : Quiet(s[i].task)' /\ s[i].row.root = s[i].row.secret
    BY <1>0, <2>2, KnownStays DEF Known
  <2>3. Known(loop.delivered)' /\ Known(loop.expired)' /\ Known(loop.batch)'
    BY <1>2, <2>1, <2>2 DEF Known
  <2> QED BY <1>0, <1>2, <2>3 DEF LoopInv
<1>3. CASE StartRound
  BY <1>0, <1>1, <1>2, <1>3, StartRoundIs, ListsKnown
<1>4. CASE CheckDeliverable
  <2>1. loop.pc = "checking"
    BY <1>4 DEF CheckDeliverable
  <2> QED BY <1>0, <1>1, <1>2, <1>4, <2>1, CheckDeliverableIs, ListsKnown DEF LoopInv
<1>5. CASE CollectAcknowledged
  <2>1. loop.counter = 0
    BY <1>0, <1>5 DEF CollectAcknowledged, LoopInv
  <2>2. \A i \in DOMAIN loop'.batch : chain[loop'.batch[i].task].acknowledged
    <3>1. loop'.batch = First(SettlementBatchSize, Rows("UserAcknowledged"))
      BY <1>0, <1>5, CollectAcknowledgedIs
    <3>2. \A i \in DOMAIN loop'.batch : /\ i \in DOMAIN Rows("UserAcknowledged")
                                       /\ loop'.batch[i] = Rows("UserAcknowledged")[i]
      BY <1>1, <3>1, FirstTyped
    <3> QED BY <3>2, ListsKnown
  <2>3. Known(loop'.batch) /\ loop'.batch \in Seq(Snapshot) /\ Len(loop'.batch) <= SettlementBatchSize
    BY <1>0, <1>1, <1>5, CollectAcknowledgedIs, FirstTyped, ListsKnown
  <2>4. Len(loop'.batch) \in Nat
    BY <2>3
  <2> QED BY <1>0, <1>1, <1>2, <1>5, <2>1, <2>2, <2>3, <2>4, CollectAcknowledgedIs
<1>6. CASE CollectExpired
  <2>1. loop.pc = "settling"
    BY <1>6 DEF CollectExpired
  <2>2. Known(loop'.batch) /\ loop'.batch \in Seq(Snapshot) /\ Len(loop'.batch) <= SettlementBatchSize - loop.counter
    BY <1>0, <1>1, <1>6, CollectExpiredIs, FirstTyped, ListsKnown
  <2>3. Len(loop'.batch) \in Nat
    BY <2>2
  <2> QED BY <1>0, <1>1, <1>2, <1>6, <2>1, <2>2, <2>3, CollectExpiredIs
<1>7. CASE EndRound
  <2>1. loop' = IdleLoop
    BY <1>7 DEF EndRound
  <2> QED BY <1>1, <1>2, <2>1, IdleLoopIs, ListsKnown
<1>8. ASSUME DoSettlement \/ NoSettlementReceipt \/ MarkFinished \/ HandleSettlementFailure
      PROVE  LoopInv'
  <2>1. CASE UNCHANGED << loop.batch, loop.counter >> /\ loop'.pc \in {"failed", "confirming"}
    BY <1>0, <1>1, <1>2, <1>8, <2>1, BatchIs DEF LoopInv
  <2>2. CASE /\ loop'.pc = "settling" /\ loop'.batch = Tail(loop.batch)
             /\ loop'.counter = loop.counter \/ loop'.counter = loop.counter + 1
    <3>1. Known(loop'.batch)
      BY <1>0, <1>1, <1>8, <2>2, BatchIs, ListsKnown
    <3>2. /\ loop.batch # << >> /\ loop'.batch \in Seq(Snapshot) /\ Len(loop.batch) \in Nat
          /\ Len(loop'.batch) = Len(loop.batch) - 1
          /\ \A i \in DOMAIN loop'.batch : i + 1 \in DOMAIN loop.batch /\ loop'.batch[i] = loop.batch[i + 1]
      BY <1>0, <1>1, <1>8, <2>2, BatchIs, ElementsOf
    <3>3. loop'.counter + Len(loop'.batch) <= SettlementBatchSize
      BY <1>0, <1>1, <2>2, <3>2 DEF LoopInv
    <3>4. /\ loop' \in Loop /\ UNCHANGED << loop.userAcked, loop.delivered, loop.expired >>
      BY <1>0, <1>8, BatchIs
    <3>5. loop'.userAcked => \A i \in DOMAIN loop'.batch : chain[loop'.batch[i].task].acknowledged
      BY <1>0, <3>2, <3>4 DEF LoopInv
    <3> QED BY <1>1, <1>2, <2>2, <3>1, <3>3, <3>4, <3>5
  <2> QED BY <1>0, <1>8, <2>1, <2>2, BatchIs
<1> QED BY <1>3, <1>4, <1>5, <1>6, <1>7, <1>8 DEF SettlementStep

------------------------------------------------------------------------------
(* A mined transaction keeps the invariant.                                *)

(* What is known of the transaction that is mined.                         *)
LEMMA MinedKnown ==
  ASSUME IInv, MineTransaction, NEW tx, tx = Head(mempool)
  PROVE  /\ tx.task \in Tasks /\ tx.kind \in {"addDeliverable", "settleFees"}
         /\ tx.kind = "addDeliverable" =>
              /\ tx.root # 0 /\ Adding(tx.task)
              /\ tx.awaited => step[tx.task] = "confirming" /\ ~ Adding(tx.task)'
         /\ tx.kind = "settleFees" =>
              /\ Quiet(tx.task) /\ (tx.secret # 0 => tx.secret = tx.root)
              /\ tx.awaited => /\ loop.pc = "confirming" /\ tx.task = Current.task
                               /\ \A i \in DOMAIN mempool' : ~ (mempool'[i].kind = "settleFees" /\ mempool'[i].awaited)
<1>0. TypeOK /\ AddInv /\ SettleInv
  BY DEF IInv
<1>1. /\ 1 \in DOMAIN mempool /\ tx = mempool[1] /\ tx \in Tx
      /\ \A i \in DOMAIN mempool' : i + 1 \in DOMAIN mempool /\ mempool'[i] = mempool[i + 1] /\ i \in Nat /\ i > 0
  BY <1>0, MinedIs
<1>2. tx.task \in Tasks /\ tx.kind \in {"addDeliverable", "settleFees"}
  BY <1>1 DEF Tx
<1>3. ASSUME tx.kind = "addDeliverable"
      PROVE  /\ tx.root # 0 /\ Adding(tx.task)
             /\ tx.awaited => step[tx.task] = "confirming" /\ ~ Adding(tx.task)'
  <2>1. tx.root # 0 /\ Adding(tx.task)
    BY <1>0, <1>1, <1>3 DEF AddInv, Adding, IsAdd
  <2>2. ASSUME tx.awaited PROVE step[tx.task] = "confirming" /\ ~ Adding(tx.task)'
    <3>1. step[tx.task] = "confirming" /\ \A j \in DOMAIN mempool : j > 1 => ~ IsAdd(mempool[j], tx.task)
      BY <1>0, <1>1, <1>3, <2>2 DEF AddInv
    <3>2. \A i \in DOMAIN mempool' : ~ IsAdd(mempool'[i], tx.task)
      BY <1>1, <3>1
    <3> QED BY <3>1, <3>2 DEF Adding
  <2> QED BY <2>1, <2>2
<1>4. ASSUME tx.kind = "settleFees"
      PROVE  /\ Quiet(tx.task) /\ (tx.secret # 0 => tx.secret = tx.root)
             /\ tx.awaited => /\ loop.pc = "confirming" /\ tx.task = Current.task
                              /\ \A i \in DOMAIN mempool' : ~ (mempool'[i].kind = "settleFees" /\ mempool'[i].awaited)
  <2>1. /\ Quiet(tx.task) /\ (tx.secret # 0 => tx.secret = tx.root)
        /\ tx.awaited => /\ loop.pc = "confirming" /\ tx.task = Current.task
                         /\ \A j \in DOMAIN mempool : mempool[j].kind = "settleFees" /\ mempool[j].awaited => j = 1
    BY <1>0, <1>1, <1>4 DEF SettleInv
  <2> QED BY <1>1, <2>1
<1> QED BY <1>2, <1>3, <1>4

(* What becomes of a task's deliverable and of a finalizer that waits.     *)
LEMMA MineMoves ==
  ASSUME IInv, MineTransaction, NEW u \in Tasks
  PROVE  /\ UNCHANGED << progress, row, tries, published >>
         /\ \/ step'[u] = step[u]
            \/ /\ step[u] = "confirming" /\ ~ Adding(u)'
               /\ step'[u] = "failing" \/ (step'[u] = "confirmed" /\ chain'[u].root # 0)
         /\ \/ chain'[u] = chain[u]
            \/ Adding(u) /\ chain'[u].root # 0 /\ ~ chain'[u].acknowledged /\ chain'[u].paid = chain[u].paid
            \/ /\ Quiet(u) /\ chain'[u].root = chain[u].root /\ chain'[u].acknowledged = chain[u].acknowledged
               /\ chain'[u].paid # "no" /\ (chain'[u].paid = "full" => chain'[u].secret = chain'[u].root)
<1>0. TypeOK
  BY DEF IInv
<1>1. UNCHANGED << progress, row, tries, published >>
  BY DEF MineTransaction
<1>a. PICK tx : tx = Head(mempool)
  OBVIOUS
<1> DEFINE c == chain[tx.task]
           d == chain'[tx.task]
<1>2. \A v \in Tasks \ {tx.task} : chain'[v] = chain[v]
  BY <1>0, <1>a, MineIs
<1>3. PICK ok \in BOOLEAN :
        /\ Told(tx, ok)
        /\ \/ tx.kind = "addDeliverable" /\ ok /\ d.root = tx.root /\ ~ d.acknowledged
              /\ d.paid = c.paid /\ d.secret = c.secret
           \/ /\ tx.kind = "settleFees" /\ ok /\ Settleable(tx)
              /\ d.root = c.root /\ d.acknowledged = c.acknowledged /\ d.secret = tx.secret
              /\ d.paid = IF tx.secret # 0 THEN "full" ELSE "reduced"
           \/ ~ ok /\ d = c
  BY <1>0, <1>a, MineIs
<1>4. /\ tx.task \in Tasks /\ tx.kind \in {"addDeliverable", "settleFees"}
      /\ tx.kind = "addDeliverable" =>
           /\ tx.root # 0 /\ Adding(tx.task)
           /\ tx.awaited => step[tx.task] = "confirming" /\ ~ Adding(tx.task)'
      /\ tx.kind = "settleFees" => Quiet(tx.task) /\ (tx.secret # 0 => tx.secret = tx.root)
  BY <1>a, MinedKnown
<1>5. step \in [Tasks -> {"idle", "uploading", "storing", "adding", "confirming", "confirmed", "failing"}]
  BY <1>0 DEF TypeOK
<1>6. CASE u # tx.task
  BY <1>1, <1>2, <1>3, <1>5, <1>6 DEF Told
<1>7. CASE u = tx.task
  <2>1. \/ chain'[u] = chain[u]
        \/ Adding(u) /\ chain'[u].root # 0 /\ ~ chain'[u].acknowledged /\ chain'[u].paid = chain[u].paid
        \/ /\ Quiet(u) /\ chain'[u].root = chain[u].root /\ chain'[u].acknowledged = chain[u].acknowledged
           /\ chain'[u].paid # "no" /\ (chain'[u].paid = "full" => chain'[u].secret = chain'[u].root)
    BY <1>3, <1>4, <1>7 DEF Settleable
  <2>2. \/ step'[u] = step[u]
        \/ tx.awaited /\ tx.kind = "addDeliverable" /\ step'[u] = IF ok THEN "confirmed" ELSE "failing"
    BY <1>3, <1>5, <1>7 DEF Told
  <2>3. ok /\ tx.kind = "addDeliverable" => chain'[u].root # 0
    BY <1>3, <1>4, <1>7
  <2> QED BY <1>1, <1>4, <1>7, <2>1, <2>2, <2>3
<1> QED BY <1>6, <1>7

(* The tasks.                                                              *)
LEMMA MineKeepsTasks ==
  ASSUME IInv, MineTransaction, NEW u \in Tasks
  PROVE  FinalizerInv(u)' /\ ChainInv(u)'
<1>0. TypeOK /\ FinalizerInv(u) /\ ChainInv(u) /\ [Next]_vars
  BY DEF IInv, TaskInv, Next
<1>1. Quiet(u) => Quiet(u)'
  BY <1>0, QuietStep
<1>2. Adding(u)' => Adding(u)
  BY <1>0, NothingSent, NothingAdded
<1>3. Quiet(u) => ~ Adding(u)
  BY DEF Quiet
<1>4. FinalizerInv(u)'
  BY <1>0, <1>1, <1>2, <1>3, MineMoves DEF FinalizerInv
<1>5. ChainInv(u)'
  BY <1>0, <1>1, <1>2, <1>3, MineMoves DEF ChainInv, FinalizerInv
<1> QED BY <1>4, <1>5

(* The transactions behind it.                                             *)
LEMMA MineSends ==
  ASSUME IInv, MineTransaction
  PROVE  AddInv' /\ SettleInv'
<1>0. TypeOK /\ AddInv /\ SettleInv /\ [Next]_vars
  BY DEF IInv, Next
<1>1. \A u \in Tasks : Quiet(u) => Quiet(u)'
  BY <1>0, QuietStep
<1>2. Kept(1)
  BY <1>0, NothingSent
<1>3. \A i \in DOMAIN mempool' : mempool'[i].task \in Tasks
  <2>1. \A i \in DOMAIN mempool' : i + 1 \in DOMAIN mempool /\ mempool'[i] = mempool[i + 1]
    BY <1>0, MinedIs
  <2> QED BY <1>0, <2>1, TxTyped
<1>4. ASSUME NEW i \in DOMAIN mempool', mempool'[i].kind = "addDeliverable",
             step[mempool'[i].task] = "confirming"
      PROVE  step'[mempool'[i].task] = "confirming"
  <2>1. \/ step'[mempool'[i].task] = step[mempool'[i].task]
        \/ ~ \E j \in DOMAIN mempool' : IsAdd(mempool'[j], mempool'[i].task)
    BY <1>3, MineMoves DEF Adding
  <2> QED BY <1>4, <2>1 DEF IsAdd
<1>5. ASSUME NEW i \in DOMAIN mempool', mempool'[i].kind = "settleFees", mempool'[i].awaited
      PROVE  loop'.pc = loop.pc /\ loop'.batch = loop.batch
  <2> DEFINE tx == Head(mempool)
  <2>1. PICK ok \in BOOLEAN : Told(tx, ok)
    BY <1>0, MineIs
  <2>2. ~ (tx.kind = "settleFees" /\ tx.awaited)
    <3> HIDE DEF tx
    <3>1. tx = Head(mempool)
      BY DEF tx
    <3> QED BY <1>5, <3>1, MinedKnown
  <2> QED BY <2>1, <2>2 DEF Told
<1> QED BY <1>0, <1>1, <1>2, <1>4, <1>5, KeptInv

(* The loop, told or not.                                                  *)
LEMMA MineKeepsLoop ==
  ASSUME IInv, MineTransaction
  PROVE  LoopInv'
<1>0. TypeOK /\ LoopInv /\ [Next]_vars
  BY DEF IInv, Next
<1> DEFINE tx == Head(mempool)
<1>1. PICK ok \in BOOLEAN : /\ Told(tx, ok)
                            /\ tx.kind = "settleFees" /\ ok => chain'[tx.task].paid # "no"
  BY <1>0, MineIs
<1>2. tx.kind = "settleFees" /\ tx.awaited => loop.pc = "confirming" /\ tx.task = Current.task
  <2> HIDE DEF tx
  <2>1. tx = Head(mempool)
    BY DEF tx
  <2> QED BY <2>1, MinedKnown
<1> HIDE DEF tx
<1>3. /\ UNCHANGED << loop.userAcked, loop.delivered, loop.expired, loop.batch, loop.counter >>
      /\ \/ loop'.pc = loop.pc
         \/ /\ loop.pc = "confirming"
            /\ loop'.pc = "failed" \/ (loop'.pc = "settled" /\ chain'[Current.task].paid # "no")
  <2>1. loop \in Loop
    BY <1>0 DEF TypeOK
  <2>2. \A pc \in {"settled", "failed"} : loop' = [loop EXCEPT !.pc = pc] =>
          /\ UNCHANGED << loop.userAcked, loop.delivered, loop.expired, loop.batch, loop.counter >>
          /\ loop'.pc = pc
    BY <2>1 DEF Loop
  <2> QED BY <1>1, <1>2, <2>2 DEF Told
<1>4. ASSUME NEW u \in Tasks, Quiet(u)
      PROVE  /\ chain[u].acknowledged => chain'[u].acknowledged
             /\ chain[u].paid # "no" => chain'[u].paid # "no"
  <2>1. ~ Adding(u)
    BY <1>4 DEF Quiet
  <2> QED BY <2>1, MineMoves
<1>5. /\ loop.delivered \in Seq(Snapshot) /\ loop.expired \in Seq(Snapshot) /\ loop.batch \in Seq(Snapshot)
      /\ Known(loop.delivered) /\ Known(loop.expired) /\ Known(loop.batch)
  BY <1>0, LoopTyped DEF LoopInv
<1>6. Known(loop.delivered)' /\ Known(loop.expired)' /\ Known(loop.batch)'
  <2>1. ASSUME NEW s \in Seq(Snapshot), Known(s) PROVE \A i \in DOMAIN s : Quiet(s[i].task)' /\ s[i].row.root = s[i].row.secret
    BY <1>0, <2>1, KnownStays DEF Known
  <2> QED BY <1>3, <1>5, <2>1 DEF Known
<1>7. loop.userAcked => \A i \in DOMAIN loop.batch : chain'[loop.batch[i].task].acknowledged
  <2> SUFFICES ASSUME loop.userAcked, NEW i \in DOMAIN loop.batch
               PROVE  chain'[loop.batch[i].task].acknowledged
    OBVIOUS
  <2>1. loop.batch[i].task \in Tasks
    <3>1. loop.batch[i] \in Snapshot
      BY <1>5, ElementsOf
    <3> QED BY <3>1 DEF Snapshot
  <2> QED BY <1>0, <1>4, <1>5, <2>1 DEF LoopInv, Known
<1>8. loop.pc = "settled" => chain'[Current.task].paid # "no"
  BY <1>0, <1>4, KnownTasks DEF LoopInv
<1> QED BY <1>0, <1>3, <1>6, <1>7, <1>8 DEF LoopInv, Current

------------------------------------------------------------------------------
(* The customer, the clock, a late write and a restart keep the invariant. *)

(* Steps that leave mempool, finalizers and the loop as they are.          *)
LEMMA OutsideStep ==
  ASSUME IInv, [Next]_vars, UNCHANGED << progress, tries, step, mempool, loop, published >>,
         \A u \in Tasks : row'[u].root = row'[u].secret \/ row'[u] = row[u],
         \A u \in Tasks : \/ chain'[u] = chain[u]
                          \/ /\ chain'[u].acknowledged /\ chain[u].root # 0
                             /\ chain'[u].root = chain[u].root /\ chain'[u].paid = chain[u].paid
                             /\ chain'[u].secret = chain[u].secret
  PROVE  IInv'
<1>0. TypeOK /\ TaskInv /\ AddInv /\ SettleInv /\ LoopInv
  BY DEF IInv
<1>1. TypeOK'
  BY TypeStep
<1>2. \A u \in Tasks : Quiet(u) => Quiet(u)'
  BY <1>0, QuietStep
<1>3. Kept(0)
  BY <1>0, NothingSent
<1>4. \A i \in DOMAIN mempool' : step'[mempool'[i].task] = step[mempool'[i].task]
  OBVIOUS
<1>5. AddInv' /\ SettleInv'
  BY <1>0, <1>2, <1>3, <1>4, KeptInv
<1>6. ASSUME NEW u \in Tasks PROVE FinalizerInv(u)' /\ ChainInv(u)'
  <2>1. Adding(u)' => Adding(u)
    BY <1>3, NothingAdded
  <2> QED BY <1>0, <1>2, <2>1 DEF TaskInv, FinalizerInv, ChainInv
<1>7. LoopInv'
  <2>1. /\ loop.delivered \in Seq(Snapshot) /\ loop.expired \in Seq(Snapshot) /\ loop.batch \in Seq(Snapshot)
        /\ Known(loop.delivered) /\ Known(loop.expired) /\ Known(loop.batch)
    BY <1>0, LoopTyped DEF LoopInv
  <2>2. Known(loop.delivered)' /\ Known(loop.expired)' /\ Known(loop.batch)'
    <3>1. ASSUME NEW s \in Seq(Snapshot), Known(s) PROVE Known(s)'
      BY <3>1, KnownStays
    <3> QED BY <2>1, <3>1
  <2>3. \A i \in DOMAIN loop.batch : loop.batch[i].task \in Tasks
    <3>1. \A i \in DOMAIN loop.batch : loop.batch[i] \in Snapshot
      BY <2>1, ElementsOf
    <3> QED BY <3>1 DEF Snapshot
  <2>4. loop.userAcked => \A i \in DOMAIN loop.batch : chain'[loop.batch[i].task].acknowledged
    BY <1>0, <2>3 DEF LoopInv
  <2>5. loop.pc = "settled" => chain'[Current.task].paid # "no"
    <3>1. loop.pc = "settled" => Current.task \in Tasks
      BY <1>0, KnownTasks DEF LoopInv
    <3> QED BY <1>0, <3>1 DEF LoopInv
  <2> QED BY <1>0, <2>2, <2>4, <2>5 DEF LoopInv, Current
<1> QED BY <1>1, <1>5, <1>6, <1>7 DEF IInv, TaskInv

(* A restart: every task is Failed, or Finished as before.                 *)
LEMMA RestartKeeps ==
  ASSUME IInv, Restart
  PROVE  IInv'
<1>0. TypeOK /\ TaskInv /\ AddInv /\ SettleInv /\ LoopInv /\ [Next]_vars
  BY DEF IInv, Next
<1>1. TypeOK'
  BY <1>0, TypeStep
<1>2. \A u \in Tasks : Quiet(u) => Quiet(u)'
  BY <1>0, QuietStep
<1>3. Kept(0)
  BY <1>0, NothingSent
<1>4. \A i \in DOMAIN mempool' : ~ mempool'[i].awaited
  BY <1>0, RestartForgets DEF TypeOK
<1>5. AddInv' /\ SettleInv'
  BY <1>0, <1>2, <1>3, <1>4, KeptInv
<1>6. ASSUME NEW u \in Tasks PROVE FinalizerInv(u)' /\ ChainInv(u)'
  <2>1. /\ progress'[u] \in {"Finished", "Failed"} /\ (progress'[u] = "Finished" => progress[u] = "Finished")
        /\ step'[u] = "idle" /\ UNCHANGED << row, chain, published >>
    BY DEF Restart
  <2> QED BY <1>0, <1>2, <2>1 DEF TaskInv, FinalizerInv, ChainInv
<1>7. LoopInv'
  <2>1. loop' = IdleLoop
    BY DEF Restart
  <2> QED BY <2>1, IdleLoopIs, DeliveryAssumption DEF LoopInv, Known, DeliveryAssumption
<1> QED BY <1>1, <1>5, <1>6, <1>7 DEF IInv, TaskInv

------------------------------------------------------------------------------
(* The invariant holds at the start.                                       *)
LEMMA InitInv == Init => IInv
<1> SUFFICES ASSUME Init PROVE IInv
  OBVIOUS
<1>1. TypeOK
  <2>1. /\ 0 \in Key /\ MaxPending \in Nat
    BY DeliveryAssumption DEF Key, DeliveryAssumption
  <2>2. [root |-> 0, secret |-> 0, retries |-> 0] \in Row
    BY <2>1 DEF Row
  <2>3. [root |-> 0, acknowledged |-> FALSE, paid |-> "no", secret |-> 0] \in Deliverable
    BY <2>1 DEF Deliverable
  <2>4. << >> \in Seq(Tx) /\ Len(<< >>) = 0
    OBVIOUS
  <2>5. RetriesTyped
    <3>1. 0 \in Retries
      BY DeliveryAssumption DEF Retries, DeliveryAssumption
    <3> QED BY <3>1 DEF Init, RetriesTyped
  <2> QED BY <2>1, <2>2, <2>3, <2>4, <2>5, IdleLoopIs DEF Init, TypeOK
<1>2. TaskInv
  BY DeliveryAssumption DEF Init, TaskInv, FinalizerInv, ChainInv, Adding, DeliveryAssumption
<1>3. AddInv /\ SettleInv
  BY DEF Init, AddInv, SettleInv
<1>4. LoopInv
  BY IdleLoopIs, DeliveryAssumption DEF Init, LoopInv, Known, DeliveryAssumption
<1> QED BY <1>1, <1>2, <1>3, <1>4 DEF IInv

(* Every step keeps it.                                                    *)
LEMMA StepInv == IInv /\ [Next]_vars => IInv'
<1> SUFFICES ASSUME IInv, [Next]_vars PROVE IInv'
  OBVIOUS
<1>0. TypeOK /\ TypeOK'
  BY TypeStep DEF IInv
<1>1. ASSUME NEW t \in Tasks, FinalizerStep(t) PROVE IInv'
  <2>1. TaskInv'
    BY <1>1, WorkedOn, OthersStay DEF TaskInv
  <2>2. LoopInv'
    BY <1>0, <1>1, FinalizerIsLocal, LoopStays
  <2> QED BY <1>0, <1>1, <2>1, <2>2, FinalizerSends DEF IInv
<1>2. ASSUME NEW t \in Tasks, AcknowledgeDeliverable(t) PROVE IInv'
  <2>1. chain \in [Tasks -> Deliverable]
    BY <1>0 DEF TypeOK
  <2>2. /\ chain'[t].acknowledged /\ chain[t].root # 0
        /\ chain'[t].root = chain[t].root /\ chain'[t].paid = chain[t].paid
        /\ chain'[t].secret = chain[t].secret
        /\ \A u \in Tasks \ {t} : chain'[u] = chain[u]
    BY <1>2, <2>1 DEF AcknowledgeDeliverable, Deliverable
  <2>3. UNCHANGED << progress, row, tries, step, mempool, loop, published >>
    BY <1>2 DEF AcknowledgeDeliverable, finalizer
  <2> QED BY <2>2, <2>3, OutsideStep
<1>3. ASSUME NEW t \in Tasks, AckTimeout(t) PROVE IInv'
  <2>1. UNCHANGED << progress, row, tries, step, mempool, chain, loop, published >>
    BY <1>3 DEF AckTimeout, finalizer
  <2> QED BY <2>1, OutsideStep
<1>4. ASSUME NEW w \in lateWrites, LateWrite(w[1], w[2]) PROVE IInv'
  <2>1. w[1] \in Tasks /\ w[2] \in Key
    BY <1>0 DEF TypeOK
  <2>2. \A u \in Tasks : row'[u].root = row'[u].secret \/ row'[u] = row[u]
    BY <1>0, <1>4, <2>1, WriteIs DEF LateWrite
  <2>3. UNCHANGED << progress, tries, step, mempool, chain, loop, published >>
    BY <1>4 DEF LateWrite
  <2> QED BY <2>2, <2>3, OutsideStep
<1>9. ASSUME NEW o \in owed, CountRetry(o[1], o[2], o[3]) PROVE IInv'
  <2>1. UNCHANGED << progress, row, tries, step, mempool, chain, loop, published >>
    BY <1>9 DEF CountRetry
  <2> QED BY <2>1, OutsideStep
<1>5. CASE SettlementStep
  BY <1>0, <1>5, SettlementKeepsTasks, SettlementSends, SettlementKeepsLoop DEF IInv, TaskInv
<1>6. CASE MineTransaction
  BY <1>0, <1>6, MineKeepsTasks, MineSends, MineKeepsLoop DEF IInv, TaskInv
<1>7. CASE Restart
  BY <1>7, RestartKeeps
<1>8. CASE UNCHANGED vars
  <2>1. UNCHANGED << progress, row, tries, step, mempool, chain, loop, published >>
    BY <1>8 DEF vars
  <2> QED BY <2>1, OutsideStep
<1> QED BY <1>1, <1>2, <1>3, <1>4, <1>5, <1>6, <1>7, <1>8, <1>9 DEF Next

------------------------------------------------------------------------------
(* The theorems.                                                           *)

(* Every reachable state satisfies the inductive invariant: what finalizer,*)
(* loop, mempool and contract know of a task fits together.                *)
THEOREM Invariance == Spec => []IInv
BY InitInv, StepInv, PTL DEF Spec

(* The variables keep their types; in particular the retry count of the    *)
(* finalizer never passes its limit, whatever fails, and the batch size    *)
(* never turns negative.                                                   *)
THEOREM TypesKept == Spec => []TypeOK
<1>1. IInv => TypeOK
  BY DEF IInv
<1> QED BY <1>1, Invariance, PTL

(* doSettlement: a task is Finished only after the contract has taken its  *)
(* settlement, whatever receipts, calls and statements fail.               *)
THEOREM FinishedOnlyIfPaid == Spec => []FinishedIsPaid
<1>1. IInv => FinishedIsPaid
  BY DEF IInv, TaskInv, ChainInv, FinishedIsPaid
<1> QED BY <1>1, Invariance, PTL

(* processPendingUserAckTasks, doSettlement: a secret is sent to the chain *)
(* only for a deliverable its customer has acknowledged.                   *)
THEOREM SecretNeedsAcknowledgement == Spec => []SecretOnlyAfterAcknowledgement
<1>1. IInv => SecretOnlyAfterAcknowledgement
  BY DEF IInv, TaskInv, ChainInv, SecretOnlyAfterAcknowledgement, TypeOK
<1> QED BY <1>1, Invariance, PTL

(* The finalizer's retries: the secret of a settlement at the full fee is  *)
(* that of the root hash on the contract.                                  *)
THEOREM PaidSecretFits == Spec => []PaidSecretOpensModel
<1>1. IInv => PaidSecretOpensModel
  BY DEF IInv, TaskInv, ChainInv, PaidSecretOpensModel
<1> QED BY <1>1, Invariance, PTL

(* MarkTaskCompleted: what is offered as Delivered is on the contract.     *)
THEOREM DeliveredWasAdded == Spec => []DeliveredIsOnChain
<1>1. IInv => DeliveredIsOnChain
  BY DEF IInv, TaskInv, ChainInv, DeliveredIsOnChain
<1> QED BY <1>1, Invariance, PTL

(* AddDeliverable: once a settlement may be under way for a task, or its   *)
(* secret is out, no further deliverable reaches the contract: the root    *)
(* hash its customer sees stays the one the customer acknowledged.         *)
THEOREM RootStays ==
  Spec => [][\A t \in Tasks : t \in published \/ chain[t].paid # "no" => chain'[t].root = chain[t].root]_vars
<1> DEFINE Stays(t) == t \in published \/ chain[t].paid # "no" => chain'[t].root = chain[t].root
<1>1. ASSUME IInv, [Next]_vars, NEW t \in Tasks PROVE Stays(t)
  <2>1. ASSUME Quiet(t) PROVE chain'[t].root = chain[t].root
    <3>1. CASE MineTransaction
      BY <1>1, <2>1, <3>1, MineMoves DEF Quiet
    <3>2. ASSUME NEW u \in Tasks, AcknowledgeDeliverable(u) PROVE chain'[t].root = chain[t].root
      <4>1. chain \in [Tasks -> Deliverable]
        BY <1>1 DEF IInv, TypeOK
      <4> QED BY <3>2, <4>1 DEF AcknowledgeDeliverable, Deliverable
    <3>3. CASE UNCHANGED chain
      BY <3>3
    <3> QED BY <1>1, <3>1, <3>2, <3>3 DEF Next, vars, FinalizerStep, ClaimTask, EncryptAndUploadModel,
              StoreMetadata, AddDeliverable, NoReceipt, Timeout, MarkTaskCompleted, HandleExecuteFailure,
              AckTimeout, LateWrite, CountRetry, SettlementStep, StartRound, CheckDeliverable, CollectAcknowledged,
              CollectExpired, EndRound, DoSettlement, NoSettlementReceipt, MarkFinished,
              HandleSettlementFailure, Restart
  <2> QED BY <1>1, <2>1 DEF IInv, TaskInv, ChainInv
<1>2. IInv /\ [Next]_vars => [\A t \in Tasks : Stays(t)]_vars
  BY <1>1
<1> HIDE DEF Stays
<1>3. Spec => [][\A t \in Tasks : Stays(t)]_vars
  BY <1>2, Invariance, PTL DEF Spec
<1> QED BY <1>3 DEF Stays
==============================================================================

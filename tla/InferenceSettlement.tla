------------------------- MODULE InferenceSettlement -------------------------
(***************************************************************************)
(* Fee settlement of the inference broker (ctrl/settlement_tee.go): the    *)
(* request rows the proxy creates and bills, the runs of SettleFeesWithTEE *)
(* that the API server (at its start and on POST /v1/settle) and the event *)
(* process (on its tickers) carry out on the same table, the transactions  *)
(* they send, and the account each user has on the serving contract.       *)
(*                                                                         *)
(* One atomic step is one call to the contract, or one statement.  Writes  *)
(* of skip_until follow the preview in the same step: only listing reads   *)
(* the column, and a listing between the two may as well come before both. *)
(***************************************************************************)
EXTENDS Integers, Sequences, FiniteSets, Functions

CONSTANTS
  Created,      \* the requests, in the order they are made
  UserOf, Fee,  \* of a request
  Deposit,      \* of a user: the balance of its account at first
  Settlers,     \* the processes that settle
  BatchSize,    \* TEESettlementBatchSize
  MaxRounds,    \* maxSettlementRounds
  Faults,       \* what may go wrong: a subset of FaultKinds
  MaxClock,     \* bound: seconds passing while settlements are under way
  MaxPending    \* bound: transactions not mined yet

FaultKinds ==
  { "sign",      \* the TEE does not sign
    "preview",   \* a preview call returns an error
    "send",      \* a transaction is not accepted, or reverts
    "receipt",   \* WaitForReceipt gives up on a transaction that is mined later
    "database",  \* a statement returns an error
    "restart",   \* a process dies
    "withdraw",  \* a user takes funds out of its account
    "signer" }   \* a user's acknowledgement of the TEE signer comes and goes

Requests == {Created[i] : i \in DOMAIN Created}
Users    == {UserOf[r] : r \in Requests}
Error(f) == f \in Faults

ASSUME SettlementAssumption ==
  /\ Created \in Seq(Requests)
  /\ \A i, k \in DOMAIN Created : Created[i] = Created[k] => i = k
  /\ Fee \in [Requests -> Nat \ {0}] /\ Deposit \in [Users -> Nat]
  /\ IsFiniteSet(Settlers) /\ BatchSize \in Nat \ {0} /\ MaxRounds \in Nat \ {0}
  /\ MaxClock \in Nat \ {0} /\ MaxPending \in Nat \ {0}
  /\ Faults \subseteq FaultKinds

VARIABLES
  row,           \* the request rows
  settler,       \* the runs of SettleFeesWithTEE
  mempool,       \* transactions of the provider's account, in nonce order
  account,       \* the accounts on the contract
  clock,         \* the second a settlement takes its nonce from
  charged, paid  \* history: requests in accepted settlements, amounts taken from users

vars   == << row, settler, mempool, account, clock, charged, paid >>
ledger == << account, charged, paid >>

(* A row is pending until the response is accounted for, then billed; it   *)
(* is skipped while its skip_until lies ahead.  The last three are rows    *)
(* that are no more: settled, forgiven (deleted because the signer is not  *)
(* acknowledged) and pruned (pending for an hour).                         *)
RowState == {"none", "pending", "billed", "skipped", "settled", "forgiven", "pruned"}
Exists(r) == row[r] \in {"pending", "billed", "skipped"}

(* The provider of a settlement is always the sender's, so its mismatch is *)
(* not among them; "Signed" is a settlement that was not previewed yet.    *)
Status == {"Signed", "Success", "Partial", "NoSigner", "InvalidNonce", "InvalidSig"}

(* A settlement of one user.  The signature is for all listed requests;    *)
(* the total fee and the hash are those of the settled ones, and there is  *)
(* nothing to execute if there are none.                                   *)
Outcome == [user : Users, listed : SUBSET Requests, settled : SUBSET Requests,
            nonce : Nat, status : Status]

Idle == [pc |-> "idle", round |-> 0, outcomes |-> {}, unsent |-> {}, again |-> FALSE]

Init ==
  /\ row          = [r \in Requests |-> "none"]
  /\ settler      = [p \in Settlers |-> Idle]
  /\ mempool      = << >>
  /\ account      = [u \in Users |-> [balance |-> Deposit[u], nonce |-> 0, acknowledged |-> TRUE]]
  /\ clock        = 1
  /\ charged      = {}
  /\ paid         = [u \in Users |-> 0]

Of(u, S)  == {r \in S : UserOf[r] = u}
Total(S)  == SumFunctionOnSet(Fee, S)
Before(r) == {Created[i] : i \in {k \in DOMAIN Created : \E m \in DOMAIN Created :
                                    k <= m /\ Created[m] = r}}

(* getRequestsWithinBudget: the oldest requests, until one does not fit.   *)
WithinBudget(S, budget) == {r \in S : Total(S \intersect Before(r)) <= budget}

------------------------------------------------------------------------------
(* The proxy.  A request is admitted on an estimate against the balance    *)
(* last synchronized, while others are under way: what it costs in the end *)
(* may be more than the account holds.                                     *)

CreateRequest(r) ==
  /\ row[r] = "none" /\ \A q \in Before(r) \ {r} : row[q] # "none"
  /\ account[UserOf[r]].acknowledged
  /\ row' = [row EXCEPT ![r] = "pending"]
  /\ UNCHANGED << settler, mempool, clock, ledger >>

(* The response is accounted for: fee and output count, in one statement.  *)
UpdateRequest(r) ==
  /\ row[r] = "pending"
  /\ row' = [row EXCEPT ![r] = "billed"]
  /\ UNCHANGED << settler, mempool, clock, ledger >>

------------------------------------------------------------------------------
(* SettleFeesWithTEE, for one process.                                     *)

At(p, pc) == settler[p].pc = pc
Set(p, s) == settler' = [settler EXCEPT ![p] = s]

(* Rows that are pending for an hour are pruned, if the statement works.   *)
PruneRequestBilled(old) ==
  /\ old \subseteq {r \in Requests : row[r] \in {"pending", "billed"}}
  /\ row' = [r \in Requests |-> IF r \in old THEN "pruned" ELSE row[r]]
PruneRequest(old) ==
  /\ old \subseteq {r \in Requests : row[r] = "pending"}
  /\ row' = [r \in Requests |-> IF r \in old THEN "pruned" ELSE row[r]]

StartSettlement(p) ==
  /\ At(p, "idle")
  /\ \E old \in SUBSET Requests : PruneRequest(old)
  /\ Set(p, [Idle EXCEPT !.pc = "listing", !.round = 1])
  /\ UNCHANGED << mempool, clock, ledger >>

(* ListRequest, groupRequestsByUser and createUserSettlement.              *)
ListRequest(p) ==
  LET listed == {r \in Requests : row[r] = "billed"}
      Settlement(u) == [user |-> u, listed |-> Of(u, listed), settled |-> Of(u, listed),
                        nonce |-> clock, status |-> "Signed"]
      users == {UserOf[r] : r \in listed}
  IN  /\ At(p, "listing")
      /\ \/ /\ listed = {} \/ Error("database")
            /\ Set(p, Idle)
         \/ /\ listed # {}
            /\ \E signed \in (IF Error("sign") THEN SUBSET users ELSE {users}) :
                 Set(p, [settler[p] EXCEPT !.pc = "previewing",
                                           !.outcomes = {Settlement(u) : u \in signed}])
      /\ UNCHANGED << row, mempool, clock, ledger >>

(* What the contract says of a settlement.                                 *)
Verdict(o) ==
  LET a == account[o.user]
  IN  CASE ~a.acknowledged -> "NoSigner"
        [] a.acknowledged /\ a.nonce >= o.nonce -> "InvalidNonce"
        [] a.acknowledged /\ a.nonce < o.nonce /\ o.settled # o.listed -> "InvalidSig"
        [] OTHER -> IF a.balance >= Total(o.settled) THEN "Success" ELSE "Partial"

(* An outcome after the preview.  A call that failed reads as a partial    *)
(* settlement of nothing.                                                  *)
Previewed(o, broken) ==
  LET status == IF o.user \in broken THEN "Partial" ELSE Verdict(o)
      budget == IF o.user \in broken THEN 0 ELSE account[o.user].balance
  IN  [o EXCEPT !.status = status,
                !.settled = CASE status = "Success" -> o.listed
                              [] status = "Partial" -> WithinBudget(o.listed, budget)
                              [] OTHER -> {}]

(* createSettlementBatch: the preview of every batch (those of the broken  *)
(* users failed), and the skip_until of what is left of the requests of a  *)
(* partial user, with a statement for each user.  The skip_until of the    *)
(* user itself is only read by the check that decides to start a run.      *)
Preview(p, broken) ==
  LET outcomes == {Previewed(o, broken) : o \in settler[p].outcomes}
      partial  == {o.user : o \in {x \in outcomes : x.status = "Partial"}}
      unsent   == {o.user : o \in {x \in outcomes : x.settled # {}}}
      left     == UNION {o.listed \ o.settled : o \in {x \in outcomes : x.status = "Partial"}}
      Written  == IF Error("database") THEN SUBSET partial ELSE {partial}
  IN  /\ At(p, "previewing")
      /\ \E us \in Written :
           row' = [r \in Requests |-> IF r \in left /\ UserOf[r] \in us /\ row[r] = "billed"
                                      THEN "skipped" ELSE row[r]]
      /\ Set(p, [settler[p] EXCEPT !.pc = IF unsent = {} THEN "processing" ELSE "sending",
                                   !.outcomes = outcomes, !.unsent = unsent,
                                   !.again = unsent # {}])
      /\ UNCHANGED << mempool, clock, ledger >>

(* executeBatches: the next batch goes out.  An error ends the run, with   *)
(* no outcome processed.                                                   *)
SendBatchAgain(p, batch) ==
  /\ At(p, "sending") /\ batch = settler[p].unsent /\ Len(mempool) < MaxPending
  /\ mempool' = Append(mempool, [sender |-> p, awaited |-> TRUE,
                                 items |-> {o \in settler[p].outcomes : o.user \in batch}])
  /\ Set(p, [settler[p] EXCEPT !.pc = "confirming"])
  /\ UNCHANGED << row, clock, ledger >>
SendBatch(p, batch) ==
  /\ At(p, "sending")
  /\ batch \subseteq settler[p].unsent
  /\ \/ Cardinality(batch) = BatchSize
     \/ Cardinality(batch) < BatchSize /\ batch = settler[p].unsent
  /\ Len(mempool) < MaxPending
  /\ mempool' = Append(mempool, [sender |-> p, awaited |-> TRUE,
                                 items |-> {o \in settler[p].outcomes : o.user \in batch}])
  /\ Set(p, [settler[p] EXCEPT !.pc = "confirming", !.unsent = @ \ batch])
  /\ UNCHANGED << row, clock, ledger >>

SendFails(p) ==
  /\ Error("send") /\ At(p, "sending")
  /\ Set(p, Idle)
  /\ UNCHANGED << row, mempool, clock, ledger >>

(* The sender is gone, or does not wait any longer.                        *)
Forgotten(p) ==
  mempool' = [i \in DOMAIN mempool |->
                IF mempool[i].sender = p THEN [mempool[i] EXCEPT !.awaited = FALSE] ELSE mempool[i]]

NoReceipt(p) ==
  /\ Error("receipt") /\ At(p, "confirming")
  /\ Set(p, Idle) /\ Forgotten(p)
  /\ UNCHANGED << row, clock, ledger >>

(* processOutcomes, one user at a time: settled requests are deleted, all  *)
(* requests of a user without signer too, and the others are left alone.   *)
Deleted(o) ==
  CASE o.status \in {"Success", "Partial"} -> o.settled
    [] o.status = "NoSigner" -> Of(o.user, Requests)
    [] OTHER -> {}

ProcessOutcome(p) ==
  /\ At(p, "processing")
  /\ \E o \in settler[p].outcomes :
       /\ \/ row' = [r \in Requests |->
                       IF ~(r \in Deleted(o) /\ Exists(r)) THEN row[r]
                       ELSE IF o.status = "NoSigner" THEN "forgiven" ELSE "settled"]
          \/ Error("database") /\ UNCHANGED row
       /\ Set(p, [settler[p] EXCEPT !.outcomes = @ \ {o}])
  /\ UNCHANGED << mempool, clock, ledger >>

NextRoundOneMore(p) ==
  /\ At(p, "processing") /\ settler[p].outcomes = {}
  /\ Set(p, IF settler[p].again /\ settler[p].round <= MaxRounds
            THEN [Idle EXCEPT !.pc = "listing", !.round = settler[p].round + 1] ELSE Idle)
  /\ UNCHANGED << row, mempool, clock, ledger >>
NextRound(p) ==
  /\ At(p, "processing") /\ settler[p].outcomes = {}
  /\ Set(p, IF settler[p].again /\ settler[p].round < MaxRounds
            THEN [Idle EXCEPT !.pc = "listing", !.round = settler[p].round + 1] ELSE Idle)
  /\ UNCHANGED << row, mempool, clock, ledger >>

Crash(p) ==
  /\ Error("restart") /\ ~At(p, "idle")
  /\ Set(p, Idle) /\ Forgotten(p)
  /\ UNCHANGED << row, clock, ledger >>

------------------------------------------------------------------------------
(* Outside the broker: the contract, its users, and time.                  *)

(* What a user has to pay for a settlement: all of it, or what is there.   *)
Taken(o) ==
  CASE Verdict(o) = "Success" -> Total(o.settled)
    [] Verdict(o) = "Partial" -> account[o.user].balance
    [] OTHER -> 0

(* SettleFeesWithTEE of the contract client: a user with an event other    *)
(* than success has failed, and is left with nothing settled.              *)
FailedUsersKept(tx)  == {}
FailedUsers(tx) == {o.user : o \in {x \in tx.items : Verdict(x) # "Success"}}
Executed(s, failed) ==
  [s EXCEPT !.outcomes = {IF o.user \in failed THEN [o EXCEPT !.status = "Partial", !.settled = {}]
                          ELSE o : o \in @},
            !.pc = IF s.unsent = {} THEN "processing" ELSE "sending"]

MineTransaction ==
  LET tx == Head(mempool)
      Accepted(u) == {o \in tx.items : o.user = u /\ Verdict(o) \in {"Success", "Partial"}}
  IN  /\ mempool # << >>
      /\ mempool' = Tail(mempool)
      /\ account' = [u \in Users |->
                       IF Accepted(u) = {} THEN account[u]
                       ELSE LET o == CHOOSE x \in Accepted(u) : TRUE
                            IN  [account[u] EXCEPT !.balance = @ - Taken(o), !.nonce = o.nonce]]
      /\ paid' = [u \in Users |->
                    IF Accepted(u) = {} THEN paid[u]
                    ELSE paid[u] + Taken(CHOOSE x \in Accepted(u) : TRUE)]
      /\ charged' = charged \union
                      UNION {o.settled : o \in {x \in tx.items : Verdict(x) = "Success"}}
      /\ IF tx.awaited THEN Set(tx.sender, Executed(settler[tx.sender], FailedUsers(tx)))
         ELSE UNCHANGED settler
      /\ UNCHANGED << row, clock >>

(* The receipt of a reverted transaction is an error: the run ends.        *)
RevertTransaction ==
  /\ Error("send") /\ mempool # << >>
  /\ mempool' = Tail(mempool)
  /\ IF Head(mempool).awaited THEN Set(Head(mempool).sender, Idle) ELSE UNCHANGED settler
  /\ UNCHANGED << row, clock, ledger >>

Withdraw(u) ==
  /\ Error("withdraw")
  /\ \E b \in 0 .. account[u].balance - 1 : account' = [account EXCEPT ![u].balance = b]
  /\ UNCHANGED << row, settler, mempool, clock, charged, paid >>

SignerChanges(u) ==
  /\ Error("signer")
  /\ account' = [account EXCEPT ![u].acknowledged = ~@]
  /\ UNCHANGED << row, settler, mempool, clock, charged, paid >>

(* An hour after skip_until was set.                                       *)
SkipExpires(r) ==
  /\ row[r] = "skipped"
  /\ row' = [row EXCEPT ![r] = "billed"]
  /\ UNCHANGED << settler, mempool, clock, ledger >>

(* Nonces are only compared: with no settlement under way, all of them lie *)
(* in the past, and counting starts over.                                  *)
UnderWay == mempool # << >> \/ \E p \in Settlers : settler[p].outcomes # {}
Tick ==
  /\ \/ /\ UnderWay /\ clock < MaxClock
        /\ clock' = clock + 1
        /\ UNCHANGED account
     \/ /\ ~UnderWay /\ \E u \in Users : account[u].nonce > 0
        /\ clock' = 1
        /\ account' = [u \in Users |-> [account[u] EXCEPT !.nonce = 0]]
  /\ UNCHANGED << row, settler, mempool, charged, paid >>

------------------------------------------------------------------------------
(* The users whose previews fail: those of some of the batches.            *)
Broken(p) ==
  LET users == {o.user : o \in settler[p].outcomes}
  IN  {us \in SUBSET users :
         \/ us = {}
         \/ /\ Error("preview")
            /\ Cardinality(us) % BatchSize = 0 \/ Cardinality(users \ us) % BatchSize = 0}

SettlerStep(p) ==
  \/ StartSettlement(p) \/ ListRequest(p)
  \/ \E broken \in Broken(p) : Preview(p, broken)
  \/ \E batch \in SUBSET Users : SendBatch(p, batch)
  \/ SendFails(p) \/ NoReceipt(p) \/ ProcessOutcome(p) \/ NextRound(p)

Next ==
  \/ \E r \in Requests : CreateRequest(r) \/ UpdateRequest(r) \/ SkipExpires(r)
  \/ \E p \in Settlers : SettlerStep(p) \/ Crash(p)
  \/ \E u \in Users : Withdraw(u) \/ SignerChanges(u)
  \/ MineTransaction \/ RevertTransaction \/ Tick

Spec == Init /\ [][Next]_vars

(* The tickers of the event process go on, a process does what it has      *)
(* begun, time passes; and what is done for one user (a preview with a     *)
(* nonce of its own, a batch, a transaction) does not fail forever.        *)
FreshPreview(p, u) ==
  /\ \E o \in settler[p].outcomes : o.user = u /\ o.nonce > account[u].nonce
  /\ Preview(p, {})
MineFor(u) ==
  /\ mempool # << >> /\ u \in {o.user : o \in Head(mempool).items}
  /\ MineTransaction

FairSpec ==
  /\ Spec /\ SF_vars(Tick)
  /\ \A r \in Requests : WF_vars(SkipExpires(r))
  /\ \A p \in Settlers : WF_vars(SettlerStep(p))
  /\ \A u \in Users :
       /\ SF_vars(MineFor(u))
       /\ \A p \in Settlers :
            /\ SF_vars(FreshPreview(p, u))
            /\ SF_vars(\E batch \in SUBSET Users : u \in batch /\ SendBatch(p, batch))

------------------------------------------------------------------------------
(* Properties.                                                             *)

TypeOK ==
  /\ row \in [Requests -> RowState]
  /\ \A p \in Settlers :
       /\ settler[p].pc \in {"idle", "listing", "previewing", "sending", "confirming", "processing"}
       /\ settler[p].round \in 0 .. MaxRounds
       /\ settler[p].outcomes \subseteq Outcome /\ settler[p].unsent \subseteq Users
       /\ settler[p].again \in BOOLEAN
  /\ \A i \in DOMAIN mempool : mempool[i].items \subseteq Outcome
  /\ account \in [Users -> [balance : Nat, nonce : 0 .. MaxClock, acknowledged : BOOLEAN]]
  /\ clock \in 1 .. MaxClock
  /\ charged \subseteq Requests
  /\ paid \in [Users -> Nat]

(* The broker writes off no more than it was paid: the fees of the rows it *)
(* deleted as settled never exceed what the contract took from the user,   *)
(* whatever runs overlap, crash, lose a receipt or find less balance than  *)
(* the preview saw (processOutcomes).                                      *)
WrittenOffIsPaid ==
  \A u \in Users : Total({r \in Of(u, Requests) : row[r] = "settled"}) <= paid[u]

(* With one process settling, the users fitting in one batch, no receipt   *)
(* lost and no balance that shrinks between preview and execution, a user  *)
(* pays for every request in an accepted settlement exactly once, however  *)
(* often previews and transactions fail and are tried again later.         *)
ChargedOnce == \A u \in Users : paid[u] = Total(Of(u, charged))

(* A request of a user that can pay for all it does is charged in the end: *)
(* no failed preview, reverted transaction or nonce of the same second     *)
(* leaves it behind (the rounds of SettleFeesWithTEE, skip_until).         *)
AffordableIsCharged ==
  \A r \in Requests :
    (row[r] = "billed" /\ Deposit[UserOf[r]] >= Total(Of(UserOf[r], Requests))) ~> r \in charged

(* Requests are set aside for an hour because the balance of the user does *)
(* not cover what it owes (the comments of createSettlementBatch on the    *)
(* partial settlements it skips).                                          *)
SkippedIsShort ==
  [][\A r \in Requests : row[r] = "billed" /\ row'[r] = "skipped" =>
       account[UserOf[r]].balance
         < Total({q \in Of(UserOf[r], Requests) : row[q] = "billed"})]_vars

(* "Delete successfully settled requests": when a run is over, no request  *)
(* the contract was paid for is left to be settled once more.              *)
ChargedIsDeleted ==
  [][\A p \in Settlers : ~At(p, "idle") /\ At(p, "idle")' =>
       \A r \in charged : ~Exists(r)]_vars
==============================================================================

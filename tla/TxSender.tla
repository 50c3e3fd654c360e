------------------------------- MODULE TxSender ------------------------------
(***************************************************************************)
(* How both brokers send a transaction and wait for it (Transact and       *)
(* WaitForReceipt of inference/contract/contract.go and of the same file   *)
(* of fine-tuning, common/chain).  A call takes the nonce that is pending  *)
(* when it begins and keeps it however often it sends; nothing keeps two   *)
(* calls of one key from taking the same nonce.  The node and its pool are *)
(* as calls can see them.                                                  *)
(***************************************************************************)
EXTENDS Integers, Sequences, FiniteSets

CONSTANTS
  Calls,        \* calls of Transact, by any process with the provider's key
  Suggested,    \* gas price the node suggests, raised to the configured one
  MaxGasPrice,  \* the configured limit, or None
  Rounds,       \* RetryOption.Rounds of WaitForReceipt
  None

ASSUME TxSenderAssumption ==
  /\ IsFiniteSet(Calls)
  /\ Suggested \in Nat /\ Rounds \in Nat \ {0}
  /\ MaxGasPrice # None => MaxGasPrice \in Nat

VARIABLES
  call,   \* per operation: where it is, its nonce, gas price and polls
  pool,   \* transactions the node has accepted and not mined, by nonce
  mined   \* the account's transactions on the chain, in nonce order

txVars == << call, pool, mined >>

Nonces  == 0 .. Cardinality(Calls) - 1
Tx      == [call : Calls, gas : Nat]
Working == {"begin", "send", "wait"}
Call    == [pc : Working \cup {"idle", "reading", "unneeded", "ok", "failed"},
            nonce : Nonces \cup {None}, gas : Nat, tries : 0 .. Rounds + 2]

NoCall(pc) == [pc |-> pc, nonce |-> None, gas |-> 0, tries |-> 0]

TxInit ==
  /\ call  = [c \in Calls |-> NoCall("idle")]
  /\ pool  = [n \in Nonces |-> None]
  /\ mined = << >>

Used  == Len(mined)                    \* the account's nonce
Goto(c, pc) == call' = [call EXCEPT ![c].pc = pc]
End(c, pc)  == call' = [call EXCEPT ![c] = NoCall(pc)]

(* PendingNonceAt: the first that is neither mined nor in the pool.        *)
PendingNonce ==
  CHOOSE n \in Used .. Cardinality(Calls) : /\ n \in Nonces => pool[n] = None
                                          /\ \A k \in Used .. n - 1 : pool[k] # None

(* Mutant: every attempt to send asks for the pending nonce.               *)
AcceptsFresh(c, tx) ==
  PendingNonce \in Nonces /\ pool' = [pool EXCEPT ![PendingNonce] = tx]

(* The node takes a transaction for a nonce that is not used up, and one   *)
(* that replaces another only for a tenth more gas.                        *)
Accepts(c, tx) ==
  LET n == call[c].nonce IN
  /\ n >= Used
  /\ pool[n] # None => 10 * tx.gas >= 11 * pool[n].gas
  /\ pool' = [pool EXCEPT ![n] = tx]

------------------------------------------------------------------------------
(* CreateTransactOpts: gas price, then nonce.                              *)
CreateTransactOpts(c) ==
  /\ call[c].pc = "begin"
  /\ \/ PendingNonce \in Nonces
        /\ call' = [call EXCEPT ![c] = [@ EXCEPT !.pc = "send", !.gas = Suggested,
                                               !.nonce = PendingNonce]]
     \/ End(c, "failed")
  /\ UNCHANGED << pool, mined >>

Raise(g) == LET raised == (g * 11) \div 10 IN IF raised > MaxGasPrice THEN MaxGasPrice ELSE raised

(* The node answers: accepted, or an error.                                *)
Sent(c) ==
  /\ call[c].pc = "send"
  /\ Accepts(c, [call |-> c, gas |-> call[c].gas])
  /\ Goto(c, "wait")
  /\ UNCHANGED mined

(* A full pool, or an answer that is late: whether the transaction was     *)
(* accepted, the caller does not know.  It is sent again for more gas, but *)
(* only where there is a limit.                                            *)
SendTimesOut(c) ==
  /\ call[c].pc = "send"
  /\ Accepts(c, [call |-> c, gas |-> call[c].gas]) \/ UNCHANGED pool
  /\ IF MaxGasPrice = None THEN End(c, "failed")
     ELSE call' = [call EXCEPT ![c].gas = Raise(@)]
  /\ UNCHANGED mined

(* Any other error is the end: a used nonce, a replacement that pays too   *)
(* little, the deadline of the attempt.  The case for a block header that  *)
(* is not there compares with capital letters an error in small ones.      *)
SendFails(c) ==
  /\ call[c].pc = "send"
  /\ Accepts(c, [call |-> c, gas |-> call[c].gas]) \/ UNCHANGED pool
  /\ End(c, "failed")
  /\ UNCHANGED mined

------------------------------------------------------------------------------
(* WaitForReceipt, for the transaction that was sent last: it has replaced *)
(* those the call had sent before.                                         *)

Receipts(c) == {i \in DOMAIN mined : mined[i].call = c}

ReceiptFound(c) ==
  /\ call[c].pc = "wait"
  /\ \E i \in Receipts(c) : End(c, IF mined[i].success THEN "ok" ELSE "failed")
  /\ UNCHANGED << pool, mined >>

(* Mutants: the polls have no limit; they are not counted.                 *)
NotFoundAgain(c) ==
  /\ call[c].pc = "wait" /\ Receipts(c) = {}
  /\ call' = [call EXCEPT ![c].tries = @ + 1]
  /\ UNCHANGED << pool, mined >>

NotFoundUncounted(c) ==
  /\ call[c].pc = "wait" /\ Receipts(c) = {} /\ UNCHANGED << call, pool, mined >>

NotFound(c) ==
  /\ call[c].pc = "wait" /\ Receipts(c) = {}
  /\ IF call[c].tries > Rounds + 1 THEN End(c, "failed")
     ELSE call' = [call EXCEPT ![c].tries = @ + 1]
  /\ UNCHANGED << pool, mined >>

ReceiptFails(c) == call[c].pc = "wait" /\ End(c, "failed") /\ UNCHANGED << pool, mined >>

Poll(c)     == ReceiptFound(c) \/ NotFound(c)
Answered(c) == Sent(c) \/ SendFails(c)

CallStep(c) ==
  CreateTransactOpts(c) \/ Answered(c) \/ SendTimesOut(c) \/ Poll(c) \/ ReceiptFails(c)

------------------------------------------------------------------------------
(* The chain mines the account's transactions in nonce order.              *)
Mine(success) ==
  /\ Used \in Nonces /\ pool[Used] # None
  /\ mined' = Append(mined, [call |-> pool[Used].call, success |-> success])
  /\ pool' = [pool EXCEPT ![Used] = None]
  /\ UNCHANGED call

(* A node that is short of room forgets a transaction.                     *)
Evict(n) ==
  /\ pool[n] # None /\ pool' = [pool EXCEPT ![n] = None]
  /\ UNCHANGED << call, mined >>

TxTypeOK ==
  /\ call \in [Calls -> Call]
  /\ pool \in [Nonces -> Tx \cup {None}]
  /\ mined \in Seq([call : Calls, success : BOOLEAN])
==============================================================================

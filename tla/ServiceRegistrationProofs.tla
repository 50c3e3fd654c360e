----------------------- MODULE ServiceRegistrationProofs ---------------------
(***************************************************************************)
(* Theorems about ServiceRegistration, and so about TxSender, for every    *)
(* number of starts and calls, every gas price and limit on polls: a call  *)
(* does what it reports, once, and an undisturbed operation leaves the     *)
(* record as it wanted.                                                    *)
(***************************************************************************)
EXTENDS ServiceRegistration, FiniteSetTheorems, TLAPS

(* A transaction of call c has nonce n, on the chain or in the pool.       *)
HasTx(c, n) ==
  \/ n + 1 \in DOMAIN mined /\ mined[n + 1].call = c
  \/ n \in Nonces /\ pool[n] # None /\ pool[n].call = c

(* All the transactions of a call have one nonce; while the call is at     *)
(* work it is the one the call has kept; a call that has not come to       *)
(* sending has none.                                                       *)
OneNonce ==
  \A c \in Calls : \A m, n \in Nat : HasTx(c, m) /\ HasTx(c, n) => m = n
NonceKept ==
  \A c \in Calls : call[c].pc \in {"send", "wait"} =>
    call[c].nonce \in Nonces /\ \A n \in Nat : HasTx(c, n) => n = call[c].nonce
Unsent ==
  \A c \in Calls : call[c].pc \in {"idle", "reading", "begin", "unneeded"} =>
    \A n \in Nat : ~ HasTx(c, n)

(* A transaction of c was mined and did not revert; success is reported    *)
(* for such a call only.                                                   *)
Succeeded(c) == \E i \in DOMAIN mined : mined[i].call = c /\ mined[i].success
SuccessIsMined == \A c \in Calls : call[c].pc = "ok" => Succeeded(c)

TxInv == TypeOK /\ OneNonce /\ NonceKept /\ Unsent /\ SuccessIsMined

------------------------------------------------------------------------------
(* Types.                                                                  *)

(* Where a step may leave a call.                                          *)
LEMMA CallTyped ==
  ASSUME TxTypeOK, NEW c \in Calls,
         NEW pc \in {"idle", "reading", "begin", "send", "wait", "unneeded", "ok", "failed"},
         Goto(c, pc) \/ End(c, pc)
  PROVE  call' \in [Calls -> Call]
<1>1. call \in [Calls -> Call] /\ 0 \in 0 .. Rounds + 2
  BY TxSenderAssumption DEF TxTypeOK, TxSenderAssumption
<1>2. CASE Goto(c, pc)
  BY <1>1, <1>2 DEF Goto, Call, Working
<1>3. CASE End(c, pc)
  <2>1. NoCall(pc) \in Call
    BY <1>1 DEF NoCall, Call, Working
  <2> QED BY <1>1, <1>3, <2>1 DEF End
<1> QED BY <1>2, <1>3

(* What the node accepts is a transaction.                                 *)
LEMMA AcceptTyped ==
  ASSUME TxTypeOK, NEW c \in Calls, Accepts(c, [call |-> c, gas |-> call[c].gas])
  PROVE  pool' \in [Nonces -> Tx \cup {None}]
<1>1. call[c].gas \in Nat
  BY DEF TxTypeOK, Call
<1> QED BY <1>1 DEF Accepts, Tx, TxTypeOK

(* The steps of a call keep the types of call, pool and chain.             *)
LEMMA CallStepTyped ==
  ASSUME NEW c \in Calls, TxTypeOK, CallStep(c)
  PROVE  TxTypeOK'
<1> USE TxSenderAssumption DEF TxSenderAssumption
<1>0. call \in [Calls -> Call] /\ call[c].gas \in Nat /\ call[c].tries \in Nat
  BY DEF TxTypeOK, Call
<1>1. CASE CreateTransactOpts(c)
  <2>1. CASE End(c, "failed")
    BY <1>1, <2>1, CallTyped DEF CreateTransactOpts, TxTypeOK
  <2>2. CASE /\ PendingNonce \in Nonces
             /\ call' = [call EXCEPT ![c] = [@ EXCEPT !.pc = "send", !.gas = Suggested,
                                                   !.nonce = PendingNonce]]
    <3>1. call' \in [Calls -> Call]
      BY <1>0, <2>2 DEF Call, Working
    <3> QED BY <1>1, <3>1 DEF CreateTransactOpts, TxTypeOK
  <2> QED BY <1>1, <2>1, <2>2 DEF CreateTransactOpts
<1>2. CASE Sent(c)
  BY <1>2, CallTyped, AcceptTyped DEF Sent, TxTypeOK
<1>3. CASE SendFails(c)
  BY <1>3, CallTyped, AcceptTyped DEF SendFails, TxTypeOK
<1>4. CASE SendTimesOut(c)
  <2>1. pool' \in [Nonces -> Tx \cup {None}] /\ mined' = mined
    BY <1>4, AcceptTyped DEF SendTimesOut, TxTypeOK
  <2>2. CASE MaxGasPrice = None
    BY <1>4, <2>1, <2>2, CallTyped DEF SendTimesOut, TxTypeOK
  <2>3. CASE MaxGasPrice # None
    <3>1. Raise(call[c].gas) \in Nat
      BY <1>0, <2>3 DEF Raise
    <3>2. call' = [call EXCEPT ![c].gas = Raise(call[c].gas)]
      BY <1>4, <2>3 DEF SendTimesOut
    <3>3. call' \in [Calls -> Call]
      BY <1>0, <3>1, <3>2 DEF Call
    <3> QED BY <2>1, <3>3 DEF TxTypeOK
  <2> QED BY <2>2, <2>3
<1>5. CASE ReceiptFound(c)
  BY <1>5, CallTyped DEF ReceiptFound, TxTypeOK
<1>6. CASE NotFound(c)
  <2>1. CASE call[c].tries > Rounds + 1
    BY <1>6, <2>1, CallTyped DEF NotFound, TxTypeOK
  <2>2. CASE ~ call[c].tries > Rounds + 1
    <3>1. call' = [call EXCEPT ![c].tries = call[c].tries + 1] /\ UNCHANGED << pool, mined >>
      BY <1>6, <2>2 DEF NotFound
    <3>2. call' \in [Calls -> Call]
      BY <1>0, <2>2, <3>1 DEF Call
    <3> QED BY <3>1, <3>2 DEF TxTypeOK
  <2> QED BY <2>1, <2>2
<1>7. CASE ReceiptFails(c)
  BY <1>7, CallTyped DEF ReceiptFails, TxTypeOK
<1> QED BY <1>1, <1>2, <1>3, <1>4, <1>5, <1>6, <1>7 DEF CallStep, Answered, Poll

(* What is mined is a transaction of a call.                               *)
LEMMA MineTyped ==
  ASSUME TxTypeOK, NEW s \in BOOLEAN, Mine(s)
  PROVE  TxTypeOK' /\ pool[Used].call \in Calls
<1>1. Used \in Nonces /\ pool[Used] \in Tx
  BY DEF Mine, TxTypeOK
<1>2. pool[Used].call \in Calls
  BY <1>1 DEF Tx
<1> QED BY <1>2 DEF Mine, TxTypeOK

(* Every step keeps the types.                                             *)
LEMMA TypeStep == TypeOK /\ [Next]_vars => TypeOK'
<1> SUFFICES ASSUME TypeOK, [Next]_vars PROVE TypeOK'
  OBVIOUS
<1> USE RegistrationAssumption DEF TypeOK, RegistrationAssumption
<1>1. CASE UNCHANGED vars
  BY <1>1 DEF vars, txVars, TxTypeOK
<1>2. ASSUME NEW k \in Starts, Start(k) PROVE TypeOK'
  <2>1. k \in Calls /\ Goto(k, "reading") /\ UNCHANGED << pool, mined >>
    BY <1>2 DEF Start, Begin
  <2>2. TxTypeOK'
    BY <2>1, CallTyped DEF TxTypeOK
  <2> QED BY <1>2, <2>1, <2>2 DEF Start, Begin
<1>3. ASSUME NEW k \in Starts, SyncService(k) PROVE TypeOK'
  <2>1. TxTypeOK'
    BY <1>3, CallTyped DEF SyncService, Read, TxTypeOK
  <2> QED BY <1>3, <2>1 DEF SyncService
<1>4. ASSUME NEW o \in FtOps, Training(o) PROVE TypeOK'
  <2>1. o \in Calls /\ Goto(o, "reading") /\ UNCHANGED << pool, mined >>
    BY <1>4 DEF Training, Begin
  <2>2. TxTypeOK'
    BY <2>1, CallTyped DEF TxTypeOK
  <2> QED BY <1>4, <2>1, <2>2 DEF Training, Begin
<1>5. ASSUME NEW o \in FtOps, OccupyService(o) PROVE TypeOK'
  <2>1. TxTypeOK'
    BY <1>5, CallTyped DEF OccupyService, Read, TxTypeOK
  <2> QED BY <1>5, <2>1 DEF OccupyService
<1>6. ASSUME NEW c \in Calls, Transacts(c) PROVE TypeOK'
  BY <1>6, CallStepTyped DEF Transacts
<1>7. ASSUME NEW c \in Calls, Crash(c) PROVE TypeOK'
  <2>1. TxTypeOK'
    BY <1>7, CallTyped DEF Crash, TxTypeOK
  <2> QED BY <1>7, <2>1 DEF Crash
<1>8. CASE MineTx
  <2>1. PICK s \in BOOLEAN : Mine(s) /\ MineTx!(s)
    BY <1>8 DEF MineTx
  <2>2. TxTypeOK' /\ pool[Used].call \in Calls
    BY <2>1, MineTyped
  <2>3. listing' \in Services \cup {None} /\ occupied' \in BOOLEAN
    BY <2>1, <2>2 DEF DeleteService, AddOrUpdateService, Flag
  <2> QED BY <2>1, <2>2, <2>3
<1>9. CASE EvictTx
  <2>1. TxTypeOK'
    BY <1>9 DEF EvictTx, Evict, TxTypeOK
  <2> QED BY <1>9, <2>1 DEF EvictTx
<1> QED BY <1>1, <1>2, <1>3, <1>4, <1>5, <1>6, <1>7, <1>8, <1>9 DEF Next

------------------------------------------------------------------------------
(* Calls, the pool and the chain, as a step may change them.               *)

(* The nonces of finitely many calls are natural numbers.                  *)
LEMMA NoncesAreNat == Nonces \subseteq Nat
<1>1. Cardinality(Calls) \in Nat
  BY FS_CardinalityType, TxSenderAssumption DEF TxSenderAssumption
<1> QED BY <1>1 DEF Nonces

NoNewTx == \A c \in Calls : \A n \in Nat : HasTx(c, n)' => HasTx(c, n)

(* What is done to pool and chain by others than a send adds nothing.      *)
LEMMA NothingSent ==
  ASSUME TypeOK,
         \/ UNCHANGED << pool, mined >>
         \/ \E s \in BOOLEAN : Mine(s)
         \/ \E n \in Nonces : Evict(n)
  PROVE  NoNewTx
<1> USE DEF NoNewTx, HasTx
<1>1. CASE UNCHANGED << pool, mined >>
  BY <1>1
<1>2. ASSUME NEW s \in BOOLEAN, Mine(s) PROVE NoNewTx
  <2>1. /\ mined' = Append(mined, [call |-> pool[Used].call, success |-> s])
        /\ pool' = [pool EXCEPT ![Used] = None]
        /\ Used \in Nonces /\ pool[Used] # None
    BY <1>2 DEF Mine
  <2>2. mined \in Seq([call : Calls, success : BOOLEAN]) /\ pool \in [Nonces -> Tx \cup {None}]
    BY DEF TypeOK, TxTypeOK
  <2>3. pool[Used].call \in Calls
    BY <2>1, <2>2 DEF Tx
  <2>4. /\ DOMAIN mined' = 1 .. Len(mined) + 1
        /\ \A i \in 1 .. Len(mined) : mined'[i] = mined[i]
        /\ mined'[Len(mined) + 1].call = pool[Used].call
    BY <2>1, <2>2, <2>3
  <2> QED BY <2>1, <2>2, <2>4 DEF Used
<1>3. ASSUME NEW n \in Nonces, Evict(n) PROVE NoNewTx
  BY <1>3 DEF Evict, TypeOK, TxTypeOK
<1> QED BY <1>1, <1>2, <1>3

(* A send adds a transaction of its call under the nonce the call keeps.   *)
LEMMA SentUnderNonce ==
  ASSUME TypeOK, NEW c \in Calls, NEW gas \in Nat,
         Accepts(c, [call |-> c, gas |-> gas]), mined' = mined
  PROVE  \A e \in Calls : \A n \in Nat :
           HasTx(e, n)' => HasTx(e, n) \/ (e = c /\ n = call[c].nonce)
BY DEF Accepts, HasTx, TypeOK, TxTypeOK

------------------------------------------------------------------------------
(* TxInv is inductive.                                                     *)

(* Nothing is sent at first.                                               *)
LEMMA TxInvInit == Init => TxInv
<1> SUFFICES ASSUME Init PROVE TxInv
  OBVIOUS
<1>1. TypeOK
  <2>1. call \in [Calls -> Call]
    BY TxSenderAssumption DEF TxSenderAssumption, Init, TxInit, NoCall, Call, Working
  <2> QED BY <2>1 DEF Init, TypeOK, TxInit, TxTypeOK
<1>2. \A c \in Calls : \A n \in Nat : ~ HasTx(c, n)
  BY DEF Init, TxInit, HasTx
<1> QED BY <1>1, <1>2 DEF Init, TxInit, NoCall, TxInv, OneNonce, NonceKept, Unsent, SuccessIsMined

(* A step that sends nothing keeps TxInv if the call it moves, c, comes to *)
(* its nonce and to its success properly.  Early: before the nonce is read *)
(* or where none is needed.                                                *)
Early == {"idle", "reading", "begin", "unneeded"}
Moved(c) ==
  /\ \A e \in Calls \ {c} : call'[e] = call[e]
  /\ call'[c].pc \in {"send", "wait"} =>
       \/ call[c].pc \in {"send", "wait"} /\ call'[c].nonce = call[c].nonce
       \/ call[c].pc = "begin" /\ call'[c].nonce \in Nonces
  /\ call'[c].pc \in Early => call[c].pc \in Early
  /\ call'[c].pc = "ok" => call[c].pc = "ok" \/ Succeeded(c)

LEMMA MovedKeeps ==
  ASSUME TxInv, TypeOK', NEW c \in Calls, Moved(c), NoNewTx,
         \A e \in Calls : Succeeded(e) => Succeeded(e)'
  PROVE  TxInv'
<1> USE DEF TxInv, NoNewTx, Moved
<1>1. OneNonce'
  BY DEF OneNonce
<1>2. NonceKept'
  <2> SUFFICES ASSUME NEW e \in Calls, call'[e].pc \in {"send", "wait"}
               PROVE  call'[e].nonce \in Nonces /\ \A n \in Nat : HasTx(e, n)' => n = call'[e].nonce
    BY DEF NonceKept
  <2>1. CASE e # c
    BY <2>1 DEF NonceKept
  <2>2. CASE e = c
    BY <2>2 DEF NonceKept, Unsent
  <2> QED BY <2>1, <2>2
<1>3. Unsent'
  BY DEF Unsent, Early
<1>4. SuccessIsMined'
  BY DEF SuccessIsMined
<1> QED BY <1>1, <1>2, <1>3, <1>4

(* A send keeps it, whatever the caller makes of the answer.               *)
LEMMA SendKeeps ==
  ASSUME TxInv, TypeOK', NEW c \in Calls, call[c].pc = "send",
         Accepts(c, [call |-> c, gas |-> call[c].gas]), mined' = mined,
         \A e \in Calls \ {c} : call'[e] = call[e],
         \/ call'[c].pc \in {"send", "wait"} /\ call'[c].nonce = call[c].nonce
         \/ call'[c].pc = "failed"
  PROVE  TxInv'
<1> USE DEF TxInv
<1>1. \A e \in Calls : Succeeded(e)' = Succeeded(e)
  BY DEF Succeeded
<1>2. call[c].gas \in Nat
  BY DEF TypeOK, TxTypeOK, Call
<1>3. \A e \in Calls : \A n \in Nat :
        HasTx(e, n)' => HasTx(e, n) \/ (e = c /\ n = call[c].nonce)
  BY <1>2, SentUnderNonce
<1>4. call[c].nonce \in Nonces /\ \A n \in Nat : HasTx(c, n)' => n = call[c].nonce
  BY <1>3 DEF NonceKept
<1>5. OneNonce'
  <2> SUFFICES ASSUME NEW e \in Calls, NEW m \in Nat, NEW n \in Nat, HasTx(e, m)', HasTx(e, n)'
               PROVE  m = n
    BY DEF OneNonce
  <2> QED BY <1>3, <1>4 DEF OneNonce
<1>6. NonceKept'
  <2> SUFFICES ASSUME NEW e \in Calls, call'[e].pc \in {"send", "wait"}
               PROVE  call'[e].nonce \in Nonces /\ \A n \in Nat : HasTx(e, n)' => n = call'[e].nonce
    BY DEF NonceKept
  <2>1. CASE e # c
    BY <1>3, <2>1 DEF NonceKept
  <2>2. CASE e = c
    BY <1>4, <2>2
  <2> QED BY <2>1, <2>2
<1>7. Unsent'
  BY <1>3 DEF Unsent
<1>8. SuccessIsMined'
  BY <1>1 DEF SuccessIsMined
<1> QED BY <1>5, <1>6, <1>7, <1>8

(* What Goto and End leave of a call.                                      *)
LEMMA GoesTo ==
  ASSUME TypeOK, NEW c \in Calls, NEW pc
  PROVE  /\ Goto(c, pc) => call'[c].pc = pc /\ call'[c].nonce = call[c].nonce
         /\ End(c, pc) => call'[c].pc = pc
         /\ Goto(c, pc) \/ End(c, pc) => \A e \in Calls \ {c} : call'[e] = call[e]
BY DEF TypeOK, TxTypeOK, Call, Goto, End, NoCall

(* A call that has sent nothing has not succeeded.                         *)
LEMMA UnsentHasNone ==
  ASSUME TypeOK, Unsent, NEW c \in Calls, call[c].pc \in {"idle", "reading", "begin", "unneeded"}
  PROVE  ~ Succeeded(c)
<1> SUFFICES ASSUME NEW i \in DOMAIN mined, mined[i].call = c PROVE FALSE
  BY DEF Succeeded
<1>1. i \in DOMAIN mined /\ i - 1 \in Nat /\ (i - 1) + 1 = i
  BY DEF TypeOK, TxTypeOK
<1> QED BY <1>1 DEF Unsent, HasTx

(* What has succeeded is on the chain.                                     *)
LEMMA SameChain ==
  UNCHANGED mined => \A e \in Calls : Succeeded(e)' = Succeeded(e)
BY DEF Succeeded

(* The steps of a call of Transact.                                        *)
LEMMA CallStepKeeps ==
  ASSUME TxInv, TypeOK', NEW c \in Calls, CallStep(c)
  PROVE  TxInv'
<1> USE GoesTo DEF Early
<1>0. TypeOK
  BY DEF TxInv
<1>1. ASSUME UNCHANGED << pool, mined >>, Moved(c) PROVE TxInv'
  BY <1>0, <1>1, NothingSent, SameChain, MovedKeeps
<1>2. CASE CreateTransactOpts(c)
  <2>1. CASE End(c, "failed")
    BY <1>0, <1>1, <1>2, <2>1 DEF CreateTransactOpts, Moved
  <2>2. CASE /\ PendingNonce \in Nonces
             /\ call' = [call EXCEPT ![c] = [@ EXCEPT !.pc = "send", !.gas = Suggested,
                                                   !.nonce = PendingNonce]]
    <3>1. /\ call'[c].pc = "send" /\ call'[c].nonce \in Nonces
          /\ \A e \in Calls \ {c} : call'[e] = call[e]
      BY <1>0, <2>2 DEF TypeOK, TxTypeOK, Call
    <3> QED BY <1>1, <1>2, <3>1 DEF CreateTransactOpts, Moved
  <2> QED BY <1>2, <2>1, <2>2 DEF CreateTransactOpts
<1>3. CASE Sent(c)
  BY <1>0, <1>3, SendKeeps DEF Sent
<1>4. CASE SendFails(c)
  <2>1. CASE Accepts(c, [call |-> c, gas |-> call[c].gas])
    BY <1>0, <1>4, <2>1, SendKeeps DEF SendFails
  <2>2. CASE UNCHANGED pool
    BY <1>0, <1>1, <1>4, <2>2 DEF SendFails, Moved
  <2> QED BY <1>4, <2>1, <2>2 DEF SendFails
<1>5. CASE SendTimesOut(c)
  <2>1. /\ \A e \in Calls \ {c} : call'[e] = call[e]
        /\ call'[c].pc = "failed" \/ (call'[c].pc = "send" /\ call'[c].nonce = call[c].nonce)
    <3>1. CASE MaxGasPrice = None
      BY <1>0, <1>5, <3>1 DEF SendTimesOut
    <3>2. CASE MaxGasPrice # None
      BY <1>0, <1>5, <3>2 DEF SendTimesOut, TypeOK, TxTypeOK, Call
    <3> QED BY <3>1, <3>2
  <2>2. CASE Accepts(c, [call |-> c, gas |-> call[c].gas])
    BY <1>5, <2>1, <2>2, SendKeeps DEF SendTimesOut
  <2>3. CASE UNCHANGED pool
    BY <1>1, <1>5, <2>1, <2>3 DEF SendTimesOut, Moved
  <2> QED BY <1>5, <2>2, <2>3 DEF SendTimesOut
<1>6. CASE ReceiptFound(c)
  <2>1. PICK i \in Receipts(c) : End(c, IF mined[i].success THEN "ok" ELSE "failed")
    BY <1>6 DEF ReceiptFound
  <2>2. call'[c].pc = "failed" \/ (call'[c].pc = "ok" /\ Succeeded(c))
    BY <1>0, <2>1 DEF Receipts, Succeeded
  <2> QED BY <1>0, <1>1, <1>6, <2>1, <2>2 DEF ReceiptFound, Moved
<1>7. CASE NotFound(c)
  <2>1. CASE call[c].tries > Rounds + 1
    BY <1>0, <1>1, <1>7, <2>1 DEF NotFound, Moved
  <2>2. CASE ~ call[c].tries > Rounds + 1
    <3>1. call' = [call EXCEPT ![c].tries = call[c].tries + 1]
      BY <1>7, <2>2 DEF NotFound
    <3>2. Moved(c)
      BY <1>0, <1>7, <3>1 DEF NotFound, Moved, TypeOK, TxTypeOK, Call
    <3> QED BY <1>1, <1>7, <3>2 DEF NotFound
  <2> QED BY <2>1, <2>2
<1>8. CASE ReceiptFails(c)
  BY <1>0, <1>1, <1>8 DEF ReceiptFails, Moved
<1> QED BY <1>2, <1>3, <1>4, <1>5, <1>6, <1>7, <1>8 DEF CallStep, Answered, Poll

(* TxInv is kept by every step.                                            *)
LEMMA TxInvStep == TxInv /\ [Next]_vars => TxInv'
<1> SUFFICES ASSUME TxInv, [Next]_vars PROVE TxInv'
  OBVIOUS
<1> USE RegistrationAssumption DEF RegistrationAssumption
<1>0. TypeOK /\ TypeOK'
  BY TypeStep DEF TxInv
<1>1. ASSUME NEW c \in Calls, UNCHANGED << pool, mined >>, Moved(c) PROVE TxInv'
  BY <1>0, <1>1, NothingSent, SameChain, MovedKeeps
<1>2. ASSUME NEW c \in Calls, NEW pc, pc \in {"reading", "begin", "unneeded"} => call[c].pc \in Early,
             Goto(c, pc) \/ End(c, pc), UNCHANGED << pool, mined >>,
             pc \in {"reading", "begin", "unneeded", "failed"}
      PROVE  TxInv'
  <2>1. Moved(c)
    BY <1>0, <1>2, GoesTo DEF Moved, Early
  <2> QED BY <1>1, <1>2, <2>1
<1>3. ASSUME NEW c \in Calls, Begin(c), UNCHANGED << pool, mined >> PROVE TxInv'
  BY <1>2, <1>3 DEF Begin, Early
<1>4. ASSUME NEW c \in Calls, NEW w, Read(c, w), UNCHANGED << pool, mined >> PROVE TxInv'
  BY <1>2, <1>4 DEF Read, Early
<1>5. ASSUME NEW k \in Starts, Start(k) \/ SyncService(k) PROVE TxInv'
  BY <1>3, <1>4, <1>5 DEF Start, SyncService
<1>6. ASSUME NEW o \in FtOps, Training(o) \/ OccupyService(o) PROVE TxInv'
  BY <1>3, <1>4, <1>6 DEF Training, OccupyService
<1>7. ASSUME NEW c \in Calls, Transacts(c) PROVE TxInv'
  BY <1>0, <1>7, CallStepKeeps DEF Transacts
<1>8. ASSUME NEW c \in Calls, Crash(c) PROVE TxInv'
  BY <1>2, <1>8 DEF Crash
<1>9. ASSUME UNCHANGED call, NoNewTx, \A e \in Calls : Succeeded(e) => Succeeded(e)' PROVE TxInv'
  BY <1>0, <1>9 DEF TxInv, NoNewTx, OneNonce, NonceKept, Unsent, SuccessIsMined
<1>10. CASE MineTx
  <2>1. PICK s \in BOOLEAN : Mine(s)
    BY <1>10 DEF MineTx
  <2>2. \A e \in Calls : Succeeded(e) => Succeeded(e)'
    BY <1>0, <2>1, SMTT(20) DEF Mine, Succeeded, TypeOK, TxTypeOK
  <2>3. UNCHANGED call
    BY <2>1 DEF Mine
  <2> QED BY <1>0, <1>9, <2>1, <2>2, <2>3, NothingSent
<1>11. CASE EvictTx
  BY <1>0, <1>9, <1>11, NothingSent, SameChain DEF EvictTx, Evict
<1>12. CASE UNCHANGED vars
  BY <1>0, <1>9, <1>12, NothingSent, SameChain DEF vars, txVars
<1> QED BY <1>5, <1>6, <1>7, <1>8, <1>10, <1>11, <1>12 DEF Next

------------------------------------------------------------------------------
(* The records.                                                            *)

AsWanted(c) ==
  IF c \in Starts THEN listing = IF wants[c] = Unlisted THEN None ELSE wants[c]
  ELSE occupied = Flag(c)

(* Nothing else is under way on the record of an undisturbed operation;    *)
(* so the record is as the operation wants it from when it is found so, or *)
(* its transaction has succeeded.                                          *)
AloneOnRecord ==
  \A c \in undisturbed : \A e \in Same(c) \ {c} : ~ UnderWay(e)
FoundAsWanted ==
  \A c \in undisturbed : call[c].pc = "unneeded" \/ Succeeded(c) => AsWanted(c)

IInv == TxInv /\ AloneOnRecord /\ FoundAsWanted

(* Operations on a record are those of one broker.                         *)
LEMMA SameRecord ==
  ASSUME NEW c \in Calls
  PROVE  /\ c \in Same(c) /\ Same(c) \subseteq Calls
         /\ \A d \in Same(c) : Same(d) = Same(c)
         /\ \A d \in Calls \ Same(c) : Same(d) \cap Same(c) = {}
BY RegistrationAssumption DEF RegistrationAssumption, Same

(* A call of Transact is under way when it takes a step, and touches no    *)
(* other call and no other call's transactions.                            *)
LEMMA CallStepIsLocal ==
  ASSUME TypeOK, NEW c \in Calls, CallStep(c)
  PROVE  /\ call[c].pc \in Working /\ call'[c].pc # "unneeded" /\ mined' = mined
         /\ \A e \in Calls \ {c} : call'[e] = call[e]
         /\ \A n \in Nonces : pool'[n] # pool[n] => pool'[n].call = c
<1> USE GoesTo DEF Working
<1>0. /\ pool \in [Nonces -> Tx \cup {None}] /\ call \in [Calls -> Call]
      /\ \A gas : Accepts(c, [call |-> c, gas |-> gas]) =>
           \A n \in Nonces : pool'[n] # pool[n] => pool'[n].call = c
  BY DEF TypeOK, TxTypeOK, Accepts
<1>1. CASE CreateTransactOpts(c)
  <2>1. CASE End(c, "failed")
    BY <1>1, <2>1 DEF CreateTransactOpts
  <2>2. CASE call' = [call EXCEPT ![c] = [@ EXCEPT !.pc = "send", !.gas = Suggested,
                                                   !.nonce = PendingNonce]]
    <3>1. call'[c].pc = "send" /\ \A e \in Calls \ {c} : call'[e] = call[e]
      BY <1>0, <2>2 DEF Call
    <3> QED BY <1>1, <3>1 DEF CreateTransactOpts
  <2> QED BY <1>1, <2>1, <2>2 DEF CreateTransactOpts
<1>2. CASE Sent(c)
  BY <1>0, <1>2 DEF Sent
<1>3. CASE SendFails(c)
  BY <1>0, <1>3 DEF SendFails
<1>4. CASE SendTimesOut(c)
  <2>1. /\ \A e \in Calls \ {c} : call'[e] = call[e]
        /\ call'[c].pc # "unneeded"
    <3>1. CASE MaxGasPrice = None
      BY <1>4, <3>1 DEF SendTimesOut
    <3>2. CASE MaxGasPrice # None
      BY <1>0, <1>4, <3>2 DEF SendTimesOut, Call
    <3> QED BY <3>1, <3>2
  <2> QED BY <1>0, <1>4, <2>1 DEF SendTimesOut
<1>5. CASE ReceiptFound(c)
  <2>1. PICK i \in Receipts(c) : End(c, IF mined[i].success THEN "ok" ELSE "failed")
    BY <1>5 DEF ReceiptFound
  <2> QED BY <1>5, <2>1 DEF ReceiptFound
<1>6. CASE NotFound(c)
  <2>1. CASE call[c].tries > Rounds + 1
    BY <1>6, <2>1 DEF NotFound
  <2>2. CASE ~ call[c].tries > Rounds + 1
    <3>1. call' = [call EXCEPT ![c].tries = call[c].tries + 1]
      BY <1>6, <2>2 DEF NotFound
    <3>2. call'[c].pc = call[c].pc /\ \A e \in Calls \ {c} : call'[e] = call[e]
      BY <1>0, <3>1 DEF Call
    <3> QED BY <1>6, <3>2 DEF NotFound
  <2> QED BY <2>1, <2>2
<1>7. CASE ReceiptFails(c)
  BY <1>7 DEF ReceiptFails
<1> QED BY <1>1, <1>2, <1>3, <1>4, <1>5, <1>6, <1>7 DEF CallStep, Answered, Poll

(* Whoever is under way after a step was so before, or has just begun.     *)
LEMMA NobodyJoins ==
  ASSUME TypeOK, [Next]_vars, NEW e \in Calls, UnderWay(e)'
  PROVE  UnderWay(e) \/ Begin(e)
<1> USE RegistrationAssumption, GoesTo DEF RegistrationAssumption
<1>0. pool \in [Nonces -> Tx \cup {None}]
  BY DEF TypeOK, TxTypeOK
<1>1. ASSUME NEW c \in Calls, Begin(c), UNCHANGED pool PROVE UnderWay(e) \/ Begin(e)
  BY <1>1 DEF Begin, UnderWay
<1>2. ASSUME NEW c \in Calls, NEW w, Read(c, w), UNCHANGED pool PROVE UnderWay(e)
  BY <1>2 DEF Read, UnderWay
<1>3. ASSUME NEW k \in Starts, Start(k) \/ SyncService(k) PROVE UnderWay(e) \/ Begin(e)
  BY <1>1, <1>2, <1>3 DEF Start, SyncService
<1>4. ASSUME NEW o \in FtOps, Training(o) \/ OccupyService(o) PROVE UnderWay(e) \/ Begin(e)
  BY <1>1, <1>2, <1>4 DEF Training, OccupyService
<1>5. ASSUME NEW c \in Calls, Transacts(c) PROVE UnderWay(e)
  BY <1>5, CallStepIsLocal DEF Transacts, UnderWay
<1>6. ASSUME NEW c \in Calls, Crash(c) PROVE UnderWay(e)
  BY <1>6 DEF Crash, UnderWay
<1>7. CASE MineTx \/ EvictTx
  BY <1>0, <1>7 DEF MineTx, EvictTx, Mine, Evict, UnderWay
<1>8. CASE UNCHANGED vars
  BY <1>8 DEF vars, txVars, UnderWay
<1> QED BY <1>3, <1>4, <1>5, <1>6, <1>7, <1>8 DEF Next

(* An operation that begins on a record disturbs those that began before.  *)
LEMMA AloneStep == IInv /\ [Next]_vars => AloneOnRecord'
<1> SUFFICES ASSUME IInv, [Next]_vars, NEW c \in undisturbed', NEW e \in Same(c) \ {c}, UnderWay(e)'
             PROVE  FALSE
  BY DEF AloneOnRecord, Same
<1>1. TypeOK /\ TypeOK' /\ AloneOnRecord
  BY TypeStep DEF IInv, TxInv
<1>2. c \in Calls /\ e \in Calls
  BY <1>1, SameRecord DEF TypeOK
<1>3. UnderWay(e) \/ Begin(e)
  BY <1>1, <1>2, NobodyJoins
<1>4. UNCHANGED undisturbed \/ \E k \in Calls : Begin(k)
  BY RegistrationAssumption DEF RegistrationAssumption, Next, vars, Start, SyncService, Training,
     OccupyService, Transacts, Crash, MineTx, EvictTx
<1>5. ASSUME NEW k \in Calls, Begin(k) PROVE FALSE
  <2>1. c \in undisturbed \ Same(k) \/ (c = k /\ \A d \in Same(k) \ {k} : ~ UnderWay(d))
    BY <1>5 DEF Begin
  <2>2. ~ UnderWay(e)
    BY <1>1, <2>1 DEF AloneOnRecord
  <2>3. e = k
    BY <1>1, <1>2, <1>3, <1>5, <2>2, GoesTo DEF Begin
  <2> QED BY <1>2, <2>1, <2>3, SameRecord
<1>6. CASE UNCHANGED undisturbed
  BY <1>1, <1>3, <1>5, <1>2, <1>6 DEF AloneOnRecord
<1> QED BY <1>4, <1>5, <1>6

(* On the record of an undisturbed operation only its own transaction can  *)
(* be mined, and that one only once.                                       *)
LEMMA MinedAsWanted ==
  ASSUME IInv, MineTx, NEW c \in undisturbed, call[c].pc = "unneeded" \/ Succeeded(c)'
  PROVE  AsWanted(c)'
<1>0. /\ TypeOK /\ OneNonce /\ Unsent /\ AloneOnRecord /\ FoundAsWanted /\ c \in Calls
      /\ mined \in Seq([call : Calls, success : BOOLEAN]) /\ Used \in Nat
  BY DEF IInv, TxInv, TypeOK, TxTypeOK, Used
<1>1. PICK s \in BOOLEAN : Mine(s) /\ MineTx!(s)
  BY DEF MineTx
<1> DEFINE d == pool[Used].call
<1>2. /\ d \in Calls /\ Used \in Nonces /\ pool[Used] # None
      /\ mined' = Append(mined, [call |-> d, success |-> s])
  BY <1>0, <1>1, MineTyped DEF Mine, TypeOK
<1>3. HasTx(d, Used) /\ UnderWay(d)
  BY <1>2 DEF HasTx, UnderWay
<1>4. Succeeded(c)' => Succeeded(c) \/ (d = c /\ s)
  BY <1>0, <1>2 DEF Succeeded
<1>5. UNCHANGED << wants, undisturbed >>
  BY <1>1
<1>6. CASE d = c
  <2>1. call[c].pc # "unneeded"
    BY <1>0, <1>3, <1>6 DEF Unsent
  <2>2. ~ Succeeded(c)
    <3> SUFFICES ASSUME NEW i \in DOMAIN mined, mined[i].call = c PROVE FALSE
      BY DEF Succeeded
    <3>1. i - 1 \in Nat /\ HasTx(c, i - 1) /\ i \in 1 .. Used
      BY <1>0 DEF HasTx, Used
    <3> QED BY <1>0, <1>3, <1>6, <3>1 DEF OneNonce
  <2>3. s
    BY <1>4, <2>1, <2>2
  <2> QED BY <1>0, <1>1, <1>5, <1>6, <2>3, RegistrationAssumption
          DEF RegistrationAssumption, AsWanted, DeleteService, AddOrUpdateService, Flag
<1>7. CASE d # c
  <2>1. d \notin Same(c)
    BY <1>0, <1>3, <1>7 DEF AloneOnRecord
  <2>2. AsWanted(c)
    BY <1>0, <1>4, <1>7 DEF FoundAsWanted
  <2>3. IF c \in Starts THEN listing' = listing ELSE occupied' = occupied
    BY <1>0, <1>1, <2>1, RegistrationAssumption DEF RegistrationAssumption, Same
  <2> QED BY <1>5, <2>2, <2>3 DEF AsWanted, Flag
<1> QED BY <1>6, <1>7

(* No other step touches the record of an undisturbed operation.           *)
LEMMA FoundStep == IInv /\ [Next]_vars => FoundAsWanted'
<1> SUFFICES ASSUME IInv, [Next]_vars, NEW c \in undisturbed', call'[c].pc = "unneeded" \/ Succeeded(c)'
             PROVE  AsWanted(c)'
  BY DEF FoundAsWanted
<1> USE RegistrationAssumption, GoesTo DEF RegistrationAssumption
<1>0. TypeOK /\ Unsent /\ FoundAsWanted /\ c \in Calls
  BY TypeStep DEF IInv, TxInv, TypeOK
<1>1. ASSUME UNCHANGED << mined, listing, occupied >>, wants'[c] = wants[c], c \in undisturbed,
             call'[c].pc = "unneeded" => call[c].pc = "unneeded"
      PROVE  AsWanted(c)'
  BY <1>0, <1>1, SameChain DEF FoundAsWanted, AsWanted, Flag
<1>2. ASSUME NEW k \in Calls, Begin(k), UNCHANGED << mined, listing, occupied >>,
             c # k => wants'[c] = wants[c]
      PROVE  AsWanted(c)'
  <2>1. CASE c = k
    BY <1>0, <1>2, <2>1, SameChain, UnsentHasNone DEF Begin
  <2>2. CASE c # k
    BY <1>0, <1>1, <1>2, <2>2 DEF Begin
  <2> QED BY <2>1, <2>2
<1>3. ASSUME NEW k \in Starts, Start(k) PROVE AsWanted(c)'
  <2>1. c # k => wants'[c] = wants[c]
    BY <1>0, <1>3 DEF Start, TypeOK
  <2> QED BY <1>2, <1>3, <2>1 DEF Start
<1>4. ASSUME NEW o \in FtOps, Training(o) PROVE AsWanted(c)'
  BY <1>2, <1>4 DEF Training
<1>5. ASSUME NEW k \in Calls, NEW w, Read(k, w), UNCHANGED << mined, wants, listing, occupied, undisturbed >>,
             w => AsWanted(k)
      PROVE  AsWanted(c)'
  <2>1. CASE c # k
    BY <1>0, <1>1, <1>5, <2>1 DEF Read
  <2>2. CASE c = k
    <3>1. ~ Succeeded(c)
      BY <1>0, <1>5, <2>2, UnsentHasNone DEF Read
    <3>2. w
      BY <1>0, <1>5, <2>2, <3>1, SameChain DEF Read
    <3> QED BY <1>5, <2>2, <3>2 DEF AsWanted, Flag
  <2> QED BY <2>1, <2>2
<1>6. ASSUME NEW k \in Starts, SyncService(k) PROVE AsWanted(c)'
  BY <1>0, <1>5, <1>6 DEF SyncService, AsWanted, identicalService, TypeOK
<1>7. ASSUME NEW o \in FtOps, OccupyService(o) PROVE AsWanted(c)'
  BY <1>5, <1>7 DEF OccupyService, AsWanted
<1>8. ASSUME NEW k \in Calls, Transacts(k) PROVE AsWanted(c)'
  BY <1>0, <1>1, <1>8, CallStepIsLocal DEF Transacts
<1>9. ASSUME NEW k \in Calls, Crash(k) PROVE AsWanted(c)'
  BY <1>0, <1>1, <1>9 DEF Crash
<1>10. CASE MineTx
  <2>1. UNCHANGED << call, undisturbed >>
    BY <1>10 DEF MineTx, Mine
  <2> QED BY <1>10, <2>1, MinedAsWanted
<1>11. CASE EvictTx
  BY <1>1, <1>11 DEF EvictTx, Evict
<1>12. CASE UNCHANGED vars
  BY <1>1, <1>12 DEF vars, txVars
<1> QED BY <1>3, <1>4, <1>6, <1>7, <1>8, <1>9, <1>10, <1>11, <1>12 DEF Next

------------------------------------------------------------------------------
(* The theorems.                                                           *)

(* Everything the proofs rest on holds in every reachable state.           *)
THEOREM Invariance == Spec => []IInv
<1>1. Init => IInv
  BY TxInvInit DEF IInv, Init, AloneOnRecord, FoundAsWanted
<1>2. IInv /\ [Next]_vars => IInv'
  BY TxInvStep, AloneStep, FoundStep DEF IInv
<1> QED BY <1>1, <1>2, PTL DEF Spec

(* Every reachable state of calls, pool, chain and records is well typed.  *)
THEOREM TypeCorrect == Spec => []TypeOK
<1>1. IInv => TypeOK
  BY DEF IInv, TxInv
<1> QED BY <1>1, Invariance, PTL

(* However often a call sends and whatever it is answered, its transaction *)
(* is mined once at most, and a call that reports success was mined        *)
(* (contract.go:92).                                                       *)
THEOREM CallsReportWhatIsMined == Spec => []MinedAsReported
<1>1. IInv => MinedAsReported
  <2> SUFFICES ASSUME IInv PROVE MinedAsReported
    OBVIOUS
  <2>0. OneNonce /\ SuccessIsMined /\ mined \in Seq([call : Calls, success : BOOLEAN])
    BY DEF IInv, TxInv, TypeOK, TxTypeOK
  <2>1. ASSUME NEW i \in DOMAIN mined, NEW j \in DOMAIN mined, mined[i].call = mined[j].call
        PROVE  i = j
    <3>1. /\ i - 1 \in Nat /\ (i - 1) + 1 = i
          /\ j - 1 \in Nat /\ (j - 1) + 1 = j
      BY <2>0
    <3>2. mined[i].call \in Calls
      <4>1. \A S : mined \in Seq(S) => mined[i] \in S
        OBVIOUS
      <4>2. mined[i] \in [call : Calls, success : BOOLEAN]
        BY <2>0, <4>1
      <4> QED BY <4>2
    <3>3. HasTx(mined[i].call, i - 1) /\ HasTx(mined[i].call, j - 1)
      BY <2>0, <2>1, <3>1 DEF HasTx
    <3>4. i - 1 = j - 1
      BY <2>0, <3>1, <3>3, <3>2 DEF OneNonce
    <3> QED BY <3>1, <3>4
  <2>2. \A c \in Calls : call[c].pc = "ok" => \E i \in Receipts(c) : mined[i].success
    BY <2>0 DEF SuccessIsMined, Succeeded, Receipts
  <2> QED BY <2>1, <2>2 DEF MinedAsReported
<1> QED BY <1>1, Invariance, PTL

(* An operation that began with nothing under way on its record, and ended *)
(* well, leaves the record as it wanted it, whatever other operations of   *)
(* the same key were doing with nonces and pool.                           *)
THEOREM UndisturbedIsRecorded == Spec => []RecordAsWanted
<1>1. IInv => RecordAsWanted
  BY DEF IInv, TxInv, TypeOK, FoundAsWanted, SuccessIsMined, RecordAsWanted, AsWanted
<1> QED BY <1>1, Invariance, PTL
=============================================================================

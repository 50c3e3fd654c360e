---------------------- MODULE InferenceSettlementProofs ----------------------
(***************************************************************************)
(* Theorems about InferenceSettlement, for every list of requests, all     *)
(* fees and deposits, any number of processes, batch size and set of       *)
(* faults.                                                                 *)
(*                                                                         *)
(* The argument: an outcome a run is about to delete requests for has been *)
(* mined with success, or has nothing left in it.  So at any moment the    *)
(* rows deleted as settled and the outcomes that runs have still to delete *)
(* are covered, together, by what the contract took from the user.         *)
(***************************************************************************)
EXTENDS InferenceSettlement, DataInduction

Pc  == {"idle", "listing", "previewing", "sending", "confirming", "processing"}
Run == [pc : Pc,
        round : 0 .. MaxRounds, outcomes : SUBSET Outcome, unsent : SUBSET Users, again : BOOLEAN]
Tx  == [sender : Settlers, awaited : BOOLEAN, items : SUBSET Outcome]
Typed == TypeOK /\ settler \in [Settlers -> Run] /\ mempool \in Seq(Tx)

(* One outcome per user, of its own requests, with a nonce of the clock's. *)
SoundOutcome(o) == o.listed \subseteq Of(o.user, Requests) /\ o.settled \subseteq o.listed /\ o.nonce \in 1 .. MaxClock
Sound(O) == (\A o \in O : SoundOutcome(o)) /\ (\A o, x \in O : o.user = x.user => o = x)

RunInv(p) ==
  /\ Sound(settler[p].outcomes)
  /\ settler[p].pc \in {"idle", "listing"} => settler[p].outcomes = {}
  /\ settler[p].pc = "processing" => settler[p].unsent = {}

(* A run waits for one transaction at most, that of a batch it has sent.   *)
Awaited(i) ==
  LET s == settler[mempool[i].sender]
  IN  /\ s.pc = "confirming" /\ mempool[i].items \subseteq s.outcomes
      /\ \A o \in mempool[i].items : o.user \notin s.unsent
      /\ \A j \in DOMAIN mempool : mempool[j].awaited /\ mempool[j].sender = mempool[i].sender => j = i
AwaitedInv == \A i \in DOMAIN mempool : Sound(mempool[i].items) /\ (mempool[i].awaited => Awaited(i))

(* The outcomes of a run that the contract has answered, or that have      *)
(* nothing to be answered, and what of a user's rows they are about.       *)
Awaits(p, o) == \E i \in DOMAIN mempool : mempool[i].awaited /\ mempool[i].sender = p /\ o \in mempool[i].items
Answered(p) == {o \in settler[p].outcomes :
                  /\ settler[p].pc \in {"sending", "confirming", "processing"}
                  /\ o.user \notin settler[p].unsent /\ ~ Awaits(p, o)}
Due(p, u) == {r \in Requests : \E o \in Answered(p) : o.user = u /\ r \in o.settled}
Credit(p, u) == Total(Due(p, u))
Credits(u) == [p \in Settlers |-> Credit(p, u)]

Settled(u) == {r \in Of(u, Requests) : row[r] = "settled"}
PaidInv(u) == Total(Settled(u)) + Sum(Credits(u), Settlers) <= paid[u]

(* The inductive invariant.                                                *)
IInv == Typed /\ (\A p \in Settlers : RunInv(p)) /\ AwaitedInv /\ (\A u \in Users : PaidInv(u))

------------------------------------------------------------------------------
(* Totals of fees.                                                         *)

(* There are finitely many requests.                                       *)
LEMMA RequestsFinite == IsFiniteSet(Requests)
<1>1. Created \in Seq(Requests) /\ Len(Created) \in Nat /\ DOMAIN Created = 1 .. Len(Created)
  BY SettlementAssumption DEF SettlementAssumption
<1>2. Created \in Surjection(1 .. Len(Created), Requests)
  BY <1>1 DEF Surjection, Requests
<1> QED BY <1>1, <1>2, FS_Interval, FS_Surjection

(* The total of some requests: a number, 0 for none, more for more.        *)
LEMMA TotalIs ==
  /\ \A S \in SUBSET Requests : Total(S) \in Nat
  /\ Total({}) = 0
  /\ \A S \in SUBSET Requests : \A T \in SUBSET S :
       Total(T) <= Total(S) /\ Total(S) = Total(T) + Total(S \ T)
<1>1. \A r \in Requests : Fee[r] \in Nat
  BY SettlementAssumption DEF SettlementAssumption
<1>2. \A S : Total(S) = Sum(Fee, S)
  BY DEF Total, Sum
<1>3. ASSUME NEW S \in SUBSET Requests
      PROVE  /\ Total(S) \in Nat
             /\ \A T \in SUBSET S : Total(T) <= Total(S) /\ Total(S) = Total(T) + Total(S \ T)
  <2>1. IsFiniteSet(S) /\ \A r \in S : Fee[r] \in Nat
    BY <1>1, RequestsFinite, FS_Subset
  <2>2. Total(S) \in Nat
    BY <1>2, <2>1, SumTyped
  <2>3. ASSUME NEW T \in SUBSET S PROVE Total(T) <= Total(S) /\ Total(S) = Total(T) + Total(S \ T)
    <3>1. Sum(Fee, T) <= Sum(Fee, S) /\ Sum(Fee, S) = Sum(Fee, T) + Sum(Fee, S \ T)
      BY <2>1, SumOfSubset
    <3> QED BY <1>2, <3>1
  <2> QED BY <2>2, <2>3
<1>4. Total({}) = 0
  BY <1>2, SumOfNone
<1> QED BY <1>3, <1>4

(* Requests of two groups cost no more together than apart.                *)
LEMMA TotalOfTwo ==
  ASSUME NEW S \in SUBSET Requests, NEW T \in SUBSET Requests, NEW U \in SUBSET (S \cup T)
  PROVE  Total(U) <= Total(S) + Total(T)
<1>1. Total(U \ S) <= Total(T) /\ Total(U \cap S) <= Total(S)
  <2>1. U \ S \in SUBSET T /\ U \cap S \in SUBSET S
    OBVIOUS
  <2> QED BY <2>1, TotalIs
<1>2. Total(U) = Total(U \cap S) + Total(U \ S)
  <2>1. U \cap S \in SUBSET U /\ U \ (U \cap S) = U \ S /\ U \in SUBSET Requests
    OBVIOUS
  <2> QED BY <2>1, TotalIs
<1>3. Total(U \cap S) \in Nat /\ Total(U \ S) \in Nat /\ Total(S) \in Nat /\ Total(T) \in Nat
  <2>1. U \cap S \in SUBSET Requests /\ U \ S \in SUBSET Requests
    OBVIOUS
  <2> QED BY <2>1, TotalIs
<1> QED BY <1>1, <1>2, <1>3

------------------------------------------------------------------------------
(* What was paid covers what was written off, from step to step.           *)

(* Credits are numbers.                                                    *)
LEMMA CreditIs ==
  ASSUME NEW p, NEW u
  PROVE  Credit(p, u) \in Nat /\ Credit(p, u)' \in Nat /\ Total(Settled(u)) \in Nat /\ Total(Settled(u))' \in Nat
<1>1. Due(p, u) \in SUBSET Requests /\ Due(p, u)' \in SUBSET Requests
  BY DEF Due
<1>2. Settled(u) \in SUBSET Requests /\ Settled(u)' \in SUBSET Requests
  BY DEF Settled, Of
<1>3. PICK S : S = Due(p, u)'
  OBVIOUS
<1>4. PICK T : T = Settled(u)'
  OBVIOUS
<1>5. Credit(p, u)' = Total(S) /\ Total(Settled(u))' = Total(T)
  BY <1>3, <1>4 DEF Credit, Total
<1>6. Credit(p, u) \in Nat /\ Total(Settled(u)) \in Nat
  BY <1>1, <1>2, TotalIs DEF Credit
<1>7. Total(S) \in Nat /\ Total(T) \in Nat
  BY <1>1, <1>2, <1>3, <1>4, TotalIs
<1> QED BY <1>5, <1>6, <1>7

(* The credits add up to a number, before and after a step.                *)
LEMMA CreditsAre ==
  ASSUME NEW u
  PROVE  /\ \A p \in Settlers : Credits(u)[p] = Credit(p, u) /\ Credits(u)'[p] = Credit(p, u)'
         /\ \A p \in Settlers : Credits(u)[p] \in Nat /\ Credits(u)'[p] \in Nat
         /\ Sum(Credits(u), Settlers) \in Nat /\ Sum(Credits(u), Settlers)' \in Nat
<1>1. \A p \in Settlers : Credits(u)[p] = Credit(p, u) /\ Credits(u)'[p] = Credit(p, u)'
  BY DEF Credits
<1>2. \A p \in Settlers : Credits(u)[p] \in Nat /\ Credits(u)'[p] \in Nat
  BY <1>1, CreditIs
<1>3. PICK f : f = Credits(u)
  OBVIOUS
<1>4. PICK g : g = Credits(u)'
  OBVIOUS
<1>5. Sum(f, Settlers) \in Nat /\ Sum(g, Settlers) \in Nat
  <2>1. IsFiniteSet(Settlers) /\ (\A p \in Settlers : f[p] \in Nat) /\ (\A p \in Settlers : g[p] \in Nat)
    BY <1>2, <1>3, <1>4, SettlementAssumption DEF SettlementAssumption
  <2> QED BY <2>1, SumTyped
<1>6. Sum(Credits(u), Settlers)' = Sum(g, Settlers)
  BY <1>4 DEF Sum
<1> QED BY <1>1, <1>2, <1>3, <1>5, <1>6

(* A step that leaves all credits as they are.                             *)
LEMMA PaidStays ==
  ASSUME NEW u, PaidInv(u), paid[u] \in Nat, paid'[u] \in Nat,
         \A q \in Settlers : Credit(q, u)' = Credit(q, u),
         Total(Settled(u))' + paid[u] <= Total(Settled(u)) + paid'[u]
  PROVE  PaidInv(u)'
<1>1. PICK f : f = Credits(u)
  OBVIOUS
<1>2. PICK g : g = Credits(u)'
  OBVIOUS
<1>3. IsFiniteSet(Settlers) /\ (\A q \in Settlers : f[q] = g[q])
  BY <1>1, <1>2, CreditsAre, SettlementAssumption DEF SettlementAssumption
<1>4. Sum(f, Settlers) = Sum(g, Settlers)
  BY <1>3, SumOfSame
<1>5. Sum(Credits(u), Settlers)' = Sum(g, Settlers) /\ Sum(Credits(u), Settlers) = Sum(f, Settlers)
  BY <1>1, <1>2 DEF Sum
<1> QED BY <1>4, <1>5, CreditIs, CreditsAre DEF PaidInv

(* A step that changes the credit of one process.                          *)
LEMMA PaidMoves ==
  ASSUME NEW u, PaidInv(u), paid[u] \in Nat, paid'[u] \in Nat, NEW p \in Settlers,
         \A q \in Settlers \ {p} : Credit(q, u)' = Credit(q, u),
         Total(Settled(u))' + Credit(p, u)' + paid[u] <= Total(Settled(u)) + Credit(p, u) + paid'[u]
  PROVE  PaidInv(u)'
<1>1. PICK f : f = Credits(u)
  OBVIOUS
<1>2. PICK g : g = Credits(u)'
  OBVIOUS
<1>3. PICK S : S = Settlers \ {p}
  OBVIOUS
<1>4. /\ IsFiniteSet(Settlers) /\ IsFiniteSet(S) /\ (\A q \in S : f[q] = g[q])
      /\ (\A q \in Settlers : f[q] \in Nat) /\ (\A q \in Settlers : g[q] \in Nat)
      /\ (\A q \in S : f[q] \in Nat)
  BY <1>1, <1>2, <1>3, CreditsAre, FS_Subset, SettlementAssumption DEF SettlementAssumption
<1>5. Sum(f, S) = Sum(g, S) /\ Sum(f, S) \in Nat
  BY <1>4, SumOfSame, SumTyped
<1>6. Sum(f, Settlers) = f[p] + Sum(f, S) /\ Sum(g, Settlers) = g[p] + Sum(g, S)
  BY <1>3, <1>4, SumOfElement
<1>7. Sum(Credits(u), Settlers)' = Sum(g, Settlers) /\ Sum(Credits(u), Settlers) = Sum(f, Settlers)
  BY <1>1, <1>2 DEF Sum
<1>8. f[p] = Credit(p, u) /\ g[p] = Credit(p, u)'
  BY <1>1, <1>2, CreditsAre
<1> QED BY <1>5, <1>6, <1>7, <1>8, CreditIs DEF PaidInv

------------------------------------------------------------------------------
(* What a step of one process leaves to the others.                        *)

(* A process whose run and transactions stay as they are keeps its credit. *)
LEMMA CreditStays ==
  ASSUME NEW q, settler'[q] = settler[q], \A o : Awaits(q, o)' = Awaits(q, o)
  PROVE  \A u : Credit(q, u)' = Credit(q, u)
<1>1. Answered(q)' = Answered(q)
  BY DEF Answered
<1>2. \A u : Due(q, u)' = Due(q, u)
  BY <1>1 DEF Due
<1> QED BY <1>2 DEF Credit, Total

(* There is no credit before a run sends.                                  *)
LEMMA NoCredit ==
  ASSUME NEW p
  PROVE  /\ settler[p].pc \in {"idle", "listing", "previewing"} => \A u : Credit(p, u) = 0
         /\ settler'[p].pc \in {"idle", "listing", "previewing"} => \A u : Credit(p, u)' = 0
<1>1. settler[p].pc \in {"idle", "listing", "previewing"} => \A u : Due(p, u) = {}
  BY DEF Due, Answered
<1>2. settler'[p].pc \in {"idle", "listing", "previewing"} => \A u : Due(p, u)' = {}
  BY DEF Due, Answered
<1>3. \A u : Due(p, u)' = {} => Credit(p, u)' = Total({})
  BY DEF Credit, Total
<1> QED BY <1>1, <1>2, <1>3, TotalIs DEF Credit

(* A step of p after which no transaction is awaited by it.                *)
Unheard(p) ==
  /\ mempool' \in Seq(Tx) /\ DOMAIN mempool' = DOMAIN mempool
  /\ \A i \in DOMAIN mempool :
       /\ mempool'[i].items = mempool[i].items
       /\ mempool[i].sender # p => mempool'[i] = mempool[i]
       /\ mempool[i].sender = p => mempool'[i].sender = p /\ ~ mempool'[i].awaited

(* Either it waited for none, or does not wait any longer.                 *)
LEMMA UnheardIs ==
  ASSUME Typed, AwaitedInv, NEW p \in Settlers,
         \/ mempool' = mempool /\ settler[p].pc # "confirming"
         \/ Forgotten(p)
  PROVE  Unheard(p)
<1>0. mempool \in Seq(Tx) /\ Len(mempool) \in Nat /\ DOMAIN mempool = 1 .. Len(mempool)
  BY DEF Typed
<1>1. CASE mempool' = mempool /\ settler[p].pc # "confirming"
  <2>1. \A i \in DOMAIN mempool : mempool[i].sender = p => ~ mempool[i].awaited
    BY <1>1 DEF AwaitedInv, Awaited
  <2> QED BY <1>0, <1>1, <2>1 DEF Unheard
<1>2. CASE Forgotten(p)
  <2>1. ASSUME NEW i \in DOMAIN mempool
        PROVE  /\ mempool'[i] = IF mempool[i].sender = p THEN [mempool[i] EXCEPT !.awaited = FALSE] ELSE mempool[i]
               /\ mempool[i] \in Tx
    BY <1>0, <1>2 DEF Forgotten
  <2>2. ASSUME NEW t \in Tx
        PROVE  /\ [t EXCEPT !.awaited = FALSE] \in Tx
               /\ [t EXCEPT !.awaited = FALSE].awaited = FALSE
               /\ [t EXCEPT !.awaited = FALSE].items = t.items
               /\ [t EXCEPT !.awaited = FALSE].sender = t.sender
    BY DEF Tx
  <2>3. ASSUME NEW i \in DOMAIN mempool
        PROVE  /\ mempool'[i] \in Tx /\ mempool'[i].items = mempool[i].items
               /\ mempool[i].sender # p => mempool'[i] = mempool[i]
               /\ mempool[i].sender = p => mempool'[i].sender = p /\ ~ mempool'[i].awaited
    BY <2>1, <2>2
  <2>4. mempool' \in [1 .. Len(mempool) -> Tx]
    BY <1>0, <1>2, <2>3 DEF Forgotten
  <2>5. mempool' \in Seq(Tx)
    BY <1>0, <2>4
  <2> QED BY <1>0, <2>3, <2>4, <2>5 DEF Unheard
<1> QED BY <1>1, <1>2

(* Then the transactions of the others are waited for as before.           *)
LEMMA UnheardKeeps ==
  ASSUME Typed, AwaitedInv, NEW p \in Settlers, Unheard(p),
         \A q \in Settlers \ {p} : settler'[q] = settler[q]
  PROVE  /\ AwaitedInv'
         /\ \A q \in Settlers \ {p} : \A o : Awaits(q, o)' = Awaits(q, o)
         /\ \A o : ~ Awaits(p, o)'
<1>0. \A i \in DOMAIN mempool : mempool[i] \in Tx /\ mempool[i].sender \in Settlers
  <2>1. \A i \in DOMAIN mempool : mempool[i] \in Tx
    BY DEF Typed
  <2> QED BY <2>1 DEF Tx
<1>1. ASSUME NEW i \in DOMAIN mempool', mempool'[i].awaited PROVE Awaited(i)'
  <2>1. i \in DOMAIN mempool /\ mempool[i].sender # p /\ mempool'[i] = mempool[i]
    BY <1>1 DEF Unheard
  <2>2. settler'[mempool'[i].sender] = settler[mempool[i].sender]
    BY <1>0, <2>1
  <2>3. Awaited(i)
    BY <1>1, <2>1 DEF AwaitedInv
  <2>4. \A j \in DOMAIN mempool' :
          mempool'[j].awaited /\ mempool'[j].sender = mempool'[i].sender => j = i
    BY <2>1, <2>3 DEF Awaited, Unheard
  <2> QED BY <2>1, <2>2, <2>3, <2>4 DEF Awaited
<1>2. ASSUME NEW i \in DOMAIN mempool' PROVE Sound(mempool'[i].items)
  BY DEF AwaitedInv, Unheard
<1>3. AwaitedInv'
  BY <1>1, <1>2 DEF AwaitedInv, Sound, SoundOutcome
<1>4. ASSUME NEW q \in Settlers \ {p}, NEW o PROVE Awaits(q, o)' = Awaits(q, o)
  BY DEF Awaits, Unheard
<1>5. \A o : ~ Awaits(p, o)'
  BY DEF Awaits, Unheard
<1> QED BY <1>3, <1>4, <1>5

(* The total of settled rows grows by what is written off only.            *)
LEMMA SettledGrows ==
  ASSUME NEW u, NEW S \in SUBSET Requests,
         \A r \in Requests : row'[r] = "settled" => row[r] = "settled" \/ (UserOf[r] = u => r \in S)
  PROVE  Total(Settled(u))' <= Total(Settled(u)) + Total(S)
<1>1. PICK T : T = Settled(u)'
  OBVIOUS
<1>2. PICK V : V = Settled(u)
  OBVIOUS
<1>3. V \in SUBSET Requests /\ T \in SUBSET (V \cup S)
  BY <1>1, <1>2 DEF Settled, Of
<1>4. Total(T) <= Total(V) + Total(S)
  BY <1>3, TotalOfTwo
<1> QED BY <1>1, <1>2, <1>4 DEF Total

(* Without a row written off, no total of settled rows grows.              *)
LEMMA SettledKept ==
  ASSUME \A r \in Requests : row'[r] = "settled" => row[r] = "settled"
  PROVE  \A u : Total(Settled(u))' <= Total(Settled(u))
<1> SUFFICES ASSUME NEW u PROVE Total(Settled(u))' <= Total(Settled(u))
  OBVIOUS
<1>1. PICK S \in SUBSET Requests : S = {}
  OBVIOUS
<1>2. Total(Settled(u))' <= Total(Settled(u)) + Total(S)
  BY SettledGrows
<1>3. Total(S) = 0
  BY <1>1, TotalIs
<1>4. Total(Settled(u)) \in Nat /\ Total(Settled(u))' \in Nat
  BY CreditIs
<1> QED BY <1>2, <1>3, <1>4

(* The pieces of the type invariant.                                       *)
LEMMA TypedNext ==
  ASSUME row' \in [Requests -> RowState], settler' \in [Settlers -> Run], mempool' \in Seq(Tx),
         account' \in [Users -> [balance : Nat, nonce : 0 .. MaxClock, acknowledged : BOOLEAN]],
         clock' \in 1 .. MaxClock, charged' \subseteq Requests, paid' \in [Users -> Nat]
  PROVE  Typed'
<1>1. ASSUME NEW p \in Settlers
      PROVE  /\ settler'[p].pc \in {"idle", "listing", "previewing", "sending", "confirming", "processing"}
             /\ settler'[p].round \in 0 .. MaxRounds
             /\ settler'[p].outcomes \subseteq Outcome /\ settler'[p].unsent \subseteq Users
             /\ settler'[p].again \in BOOLEAN
  <2>1. settler'[p] \in Run
    OBVIOUS
  <2> QED BY <2>1 DEF Run, Pc
<1>2. ASSUME NEW i \in DOMAIN mempool' PROVE mempool'[i].items \subseteq Outcome
  <2>1. mempool'[i] \in Tx
    OBVIOUS
  <2> QED BY <2>1 DEF Tx
<1> QED BY <1>1, <1>2 DEF Typed, TypeOK

(* A step of p on its own run, on rows and on the transactions it waits    *)
(* for: it has to keep its run sound and its credit covered.               *)
LEMMA StepOf ==
  ASSUME IInv, NEW p \in Settlers, NEW s \in Run, settler' = [settler EXCEPT ![p] = s],
         (mempool' = mempool /\ settler[p].pc # "confirming") \/ Forgotten(p),
         row' \in [Requests -> RowState], UNCHANGED << clock, ledger >>, RunInv(p)',
         \A u \in Users : Total(Settled(u))' + Credit(p, u)' <= Total(Settled(u)) + Credit(p, u)
  PROVE  IInv'
<1>0. Typed /\ TypeOK /\ AwaitedInv /\ UNCHANGED << clock, account, charged, paid >>
  BY DEF IInv, Typed, ledger
<1>1. /\ settler' \in [Settlers -> Run] /\ settler'[p] = s
      /\ \A q \in Settlers \ {p} : settler'[q] = settler[q]
  BY <1>0 DEF Typed
<1>2. Unheard(p)
  BY <1>0, UnheardIs
<1>3. Typed'
  BY <1>0, <1>1, <1>2, TypedNext DEF TypeOK, Unheard
<1>4. ASSUME NEW q \in Settlers PROVE RunInv(q)'
  <2>1. CASE q = p
    BY <2>1
  <2>2. CASE q # p
    BY <1>1, <2>2 DEF IInv, RunInv, Sound, SoundOutcome
  <2> QED BY <2>1, <2>2
<1>5. AwaitedInv'
  BY <1>0, <1>1, <1>2, UnheardKeeps
<1>6. \A q \in Settlers \ {p} : \A u : Credit(q, u)' = Credit(q, u)
  BY <1>0, <1>1, <1>2, UnheardKeeps, CreditStays
<1>7. ASSUME NEW u \in Users PROVE PaidInv(u)'
  <2>1. PaidInv(u) /\ paid'[u] = paid[u] /\ paid[u] \in Nat
    BY <1>0 DEF IInv, TypeOK
  <2>2. Total(Settled(u))' + Credit(p, u)' + paid[u] <= Total(Settled(u)) + Credit(p, u) + paid'[u]
    BY <2>1, CreditIs
  <2> QED BY <1>6, <2>1, <2>2, PaidMoves
<1> QED BY <1>3, <1>4, <1>5, <1>7 DEF IInv

(* A step on rows, accounts or the clock.                                  *)
LEMMA StepOutside ==
  ASSUME IInv, UNCHANGED << settler, mempool, charged, paid >>, row' \in [Requests -> RowState],
         account' \in [Users -> [balance : Nat, nonce : 0 .. MaxClock, acknowledged : BOOLEAN]],
         clock' \in 1 .. MaxClock,
         \A r \in Requests : row'[r] = "settled" => row[r] = "settled"
  PROVE  IInv'
<1>0. Typed /\ TypeOK /\ AwaitedInv
  BY DEF IInv, Typed
<1>1. Typed'
  BY <1>0, TypedNext DEF Typed, TypeOK
<1>2. \A q \in Settlers : RunInv(q)'
  BY DEF IInv, RunInv, Sound, SoundOutcome
<1>3. AwaitedInv'
  BY <1>0 DEF AwaitedInv, Awaited, Sound, SoundOutcome
<1>4. \A q \in Settlers : \A u : Credit(q, u)' = Credit(q, u)
  <2>1. \A q \in Settlers : settler'[q] = settler[q] /\ \A o : Awaits(q, o)' = Awaits(q, o)
    BY DEF Awaits
  <2> QED BY <2>1, CreditStays
<1>5. ASSUME NEW u \in Users PROVE PaidInv(u)'
  <2>1. PaidInv(u) /\ paid'[u] = paid[u] /\ paid[u] \in Nat
    BY <1>0 DEF IInv, TypeOK
  <2>2. Total(Settled(u))' <= Total(Settled(u))
    BY SettledKept
  <2>3. Total(Settled(u))' + paid[u] <= Total(Settled(u)) + paid'[u]
    BY <2>1, <2>2, CreditIs
  <2> QED BY <1>4, <2>1, <2>3, PaidStays
<1> QED BY <1>1, <1>2, <1>3, <1>5 DEF IInv

------------------------------------------------------------------------------
(* The actions.                                                            *)

(* The run of a process that has nothing to settle.                        *)
LEMMA IdleIs ==
  /\ Idle \in Run /\ Idle.pc = "idle" /\ Idle.outcomes = {}
  /\ \A k \in 0 .. MaxRounds :
       LET s == [Idle EXCEPT !.pc = "listing", !.round = k]
       IN  s \in Run /\ s.pc = "listing" /\ s.outcomes = {}
<1>1. Idle \in Run /\ Idle.pc = "idle" /\ Idle.outcomes = {}
  BY SettlementAssumption DEF SettlementAssumption, Idle, Run, Pc
<1>2. ASSUME NEW k \in 0 .. MaxRounds, NEW s, s = [Idle EXCEPT !.pc = "listing", !.round = k]
      PROVE  s \in Run /\ s.pc = "listing" /\ s.outcomes = {}
  BY <1>2 DEF Idle, Run, Pc
<1> QED BY <1>1, <1>2

(* A step of p to a run of that kind.                                      *)
LEMMA StepToIdle ==
  ASSUME IInv, NEW p \in Settlers, NEW s \in Run, Set(p, s),
         s.pc \in {"idle", "listing"}, s.outcomes = {},
         (mempool' = mempool /\ settler[p].pc # "confirming") \/ Forgotten(p),
         row' \in [Requests -> RowState], UNCHANGED << clock, ledger >>,
         \A r \in Requests : row'[r] = "settled" => row[r] = "settled"
  PROVE  IInv'
<1>1. settler'[p] = s
  BY DEF Set, IInv, Typed
<1>2. RunInv(p)'
  BY <1>1 DEF RunInv, Sound
<1>3. ASSUME NEW u \in Users
      PROVE  Total(Settled(u))' + Credit(p, u)' <= Total(Settled(u)) + Credit(p, u)
  <2>1. Credit(p, u)' = 0
    BY <1>1, NoCredit
  <2>2. Total(Settled(u))' <= Total(Settled(u))
    BY SettledKept
  <2> QED BY <2>1, <2>2, CreditIs
<1>4. settler' = [settler EXCEPT ![p] = s]
  BY DEF Set
<1> QED BY <1>2, <1>3, <1>4, StepOf

(* Every step on a row outside of a run.                                   *)
LEMMA RowsKeep ==
  ASSUME IInv, NEW r \in Requests, CreateRequest(r) \/ UpdateRequest(r) \/ SkipExpires(r)
  PROVE  IInv'
<1>0. row \in [Requests -> RowState]
  BY DEF IInv, Typed, TypeOK
<1>1. \E v \in {"pending", "billed"} : row' = [row EXCEPT ![r] = v]
  BY DEF CreateRequest, UpdateRequest, SkipExpires
<1>2. row' \in [Requests -> RowState] /\ \A q \in Requests : row'[q] = "settled" => row[q] = "settled"
  BY <1>0, <1>1 DEF RowState
<1>3. UNCHANGED << settler, mempool, clock, account, charged, paid >>
  BY DEF CreateRequest, UpdateRequest, SkipExpires, ledger
<1> QED BY <1>2, <1>3, StepOutside DEF IInv, Typed, TypeOK

(* A user takes funds out, or its signer comes or goes.                    *)
LEMMA WithdrawKeeps ==
  ASSUME IInv, NEW u \in Users, Withdraw(u) \/ SignerChanges(u)
  PROVE  IInv'
<1> DEFINE A == [balance : Nat, nonce : 0 .. MaxClock, acknowledged : BOOLEAN]
<1>0. row \in [Requests -> RowState] /\ account \in [Users -> A] /\ clock \in 1 .. MaxClock
  BY DEF IInv, Typed, TypeOK
<1>1. account' \in [Users -> A]
  <2>1. CASE Withdraw(u)
    <3>1. PICK b \in 0 .. account[u].balance - 1 : account' = [account EXCEPT ![u].balance = b]
      BY <2>1 DEF Withdraw
    <3>2. b \in Nat /\ account[u] \in A
      BY <1>0
    <3> QED BY <1>0, <3>1, <3>2
  <2>2. CASE SignerChanges(u)
    BY <1>0, <2>2 DEF SignerChanges
  <2> QED BY <2>1, <2>2
<1>2. UNCHANGED << row, settler, mempool, clock, charged, paid >>
  BY DEF Withdraw, SignerChanges
<1> QED BY <1>0, <1>1, <1>2, StepOutside

(* Time passes.                                                            *)
LEMMA TickKeeps ==
  ASSUME IInv, Tick
  PROVE  IInv'
<1> DEFINE A == [balance : Nat, nonce : 0 .. MaxClock, acknowledged : BOOLEAN]
<1>0. /\ row \in [Requests -> RowState] /\ account \in [Users -> A] /\ clock \in 1 .. MaxClock
      /\ MaxClock \in Nat \ {0}
  BY SettlementAssumption DEF IInv, Typed, TypeOK, SettlementAssumption
<1>1. clock' \in 1 .. MaxClock /\ account' \in [Users -> A]
  <2>1. CASE UnderWay
    BY <1>0, <2>1 DEF Tick
  <2>2. CASE ~ UnderWay
    <3>1. clock' = 1 /\ account' = [u \in Users |-> [account[u] EXCEPT !.nonce = 0]]
      BY <2>2 DEF Tick
    <3> QED BY <1>0, <3>1
  <2> QED BY <2>1, <2>2
<1>2. UNCHANGED << row, settler, mempool, charged, paid >>
  BY DEF Tick
<1> QED BY <1>0, <1>1, <1>2, StepOutside

(* A run starts.                                                           *)
LEMMA StartKeeps ==
  ASSUME IInv, NEW p \in Settlers, StartSettlement(p)
  PROVE  IInv'
<1>0. row \in [Requests -> RowState] /\ 1 \in 0 .. MaxRounds
  BY SettlementAssumption DEF IInv, Typed, TypeOK, SettlementAssumption
<1>1. PICK old \in SUBSET Requests : PruneRequest(old)
  BY DEF StartSettlement
<1>2. row' \in [Requests -> RowState] /\ \A r \in Requests : row'[r] = "settled" => row[r] = "settled"
  BY <1>0, <1>1 DEF PruneRequest, RowState
<1>3. PICK s \in Run : Set(p, s) /\ s.pc = "listing" /\ s.outcomes = {}
  BY <1>0, IdleIs DEF StartSettlement
<1>4. mempool' = mempool /\ settler[p].pc # "confirming" /\ UNCHANGED << clock, ledger >>
  BY DEF StartSettlement, At
<1> QED BY <1>2, <1>3, <1>4, StepToIdle

(* A run ends, or its next round begins.                                   *)
LEMMA EndKeeps ==
  ASSUME IInv, NEW p \in Settlers, SendFails(p) \/ NoReceipt(p) \/ Crash(p) \/ NextRound(p)
  PROVE  IInv'
<1>0. row \in [Requests -> RowState] /\ settler[p] \in Run
  BY DEF IInv, Typed, TypeOK
<1>1. PICK s \in Run : Set(p, s) /\ s.pc \in {"idle", "listing"} /\ s.outcomes = {}
  <2>1. CASE SendFails(p) \/ NoReceipt(p) \/ Crash(p)
    BY <2>1, IdleIs DEF SendFails, NoReceipt, Crash
  <2>2. CASE NextRound(p)
    <3>1. settler[p].round < MaxRounds => settler[p].round + 1 \in 0 .. MaxRounds
      BY <1>0, SettlementAssumption DEF Run, SettlementAssumption
    <3> QED BY <2>2, <3>1, IdleIs DEF NextRound
  <2> QED BY <2>1, <2>2
<1>2. (mempool' = mempool /\ settler[p].pc # "confirming") \/ Forgotten(p)
  BY DEF SendFails, NoReceipt, Crash, NextRound, At
<1>3. UNCHANGED << row, clock, ledger >>
  BY DEF SendFails, NoReceipt, Crash, NextRound
<1> QED BY <1>0, <1>1, <1>2, <1>3, StepToIdle

(* Runs with some of their fields changed.                                 *)
Moved(t, c, O) == [t EXCEPT !.pc = c, !.outcomes = O]
Sending(t, c, U) == [t EXCEPT !.pc = c, !.unsent = U]
Begun(t, c, O, U, b) == [t EXCEPT !.pc = c, !.outcomes = O, !.unsent = U, !.again = b]
Left(t, O) == [t EXCEPT !.outcomes = O]

(* The run with other outcomes, at another place.                          *)
LEMMA RunWith ==
  ASSUME NEW t \in Run, NEW c \in Pc, NEW O \in SUBSET Outcome
  PROVE  LET s == Moved(t, c, O)
         IN  s \in Run /\ s.pc = c /\ s.outcomes = O /\ s.unsent = t.unsent
BY DEF Run, Pc, Moved

(* The run with other users left to send for.                              *)
LEMMA RunSends ==
  ASSUME NEW t \in Run, NEW c \in Pc, NEW U \in SUBSET Users
  PROVE  LET s == Sending(t, c, U)
         IN  s \in Run /\ s.pc = c /\ s.outcomes = t.outcomes /\ s.unsent = U
BY DEF Run, Pc, Sending

(* The run after its preview.                                              *)
LEMMA RunPreviewed ==
  ASSUME NEW t \in Run, NEW c \in Pc, NEW O \in SUBSET Outcome, NEW U \in SUBSET Users,
         NEW b \in BOOLEAN
  PROVE  LET s == Begun(t, c, O, U, b)
         IN  s \in Run /\ s.pc = c /\ s.outcomes = O /\ s.unsent = U
BY DEF Run, Pc, Begun

(* The run with other outcomes at the same place.                          *)
LEMMA RunProcesses ==
  ASSUME NEW t \in Run, NEW O \in SUBSET Outcome
  PROVE  LET s == Left(t, O)
         IN  s \in Run /\ s.pc = t.pc /\ s.outcomes = O /\ s.unsent = t.unsent
BY DEF Run, Left

(* What the contract says is a status.                                     *)
LEMMA VerdictIs ==
  ASSUME NEW o
  PROVE  Verdict(o) \in Status
BY DEF Verdict, Status

(* A preview decides what is settled and why, nothing else.                *)
LEMMA PreviewedIs ==
  ASSUME NEW o \in Outcome, SoundOutcome(o), NEW b, NEW x, x = Previewed(o, b)
  PROVE  /\ x \in Outcome /\ SoundOutcome(x)
         /\ x.user = o.user
<1> DEFINE status == IF o.user \in b THEN "Partial" ELSE Verdict(o)
           budget == IF o.user \in b THEN 0 ELSE account[o.user].balance
           settled == CASE status = "Success" -> o.listed
                        [] status = "Partial" -> WithinBudget(o.listed, budget)
                        [] OTHER -> {}
<1>1. status \in Status
  BY VerdictIs DEF Status
<1>2. settled \subseteq o.listed
  BY DEF WithinBudget
<1>3. x = [o EXCEPT !.status = status, !.settled = settled]
  BY DEF Previewed
<1>4. o.listed \in SUBSET Requests
  BY DEF Outcome
<1> HIDE DEF status, settled
<1>5. /\ x \in Outcome /\ x.settled = settled
      /\ x.listed = o.listed /\ x.user = o.user /\ x.nonce = o.nonce
  BY <1>1, <1>2, <1>3, <1>4 DEF Outcome
<1> QED BY <1>2, <1>5 DEF SoundOutcome

(* The requests of a run are read, and grouped by user.                    *)
LEMMA ListKeeps ==
  ASSUME IInv, NEW p \in Settlers, ListRequest(p)
  PROVE  IInv'
<1> DEFINE listed == {r \in Requests : row[r] = "billed"}
           Settlement(u) == [user |-> u, listed |-> Of(u, listed), settled |-> Of(u, listed),
                             nonce |-> clock, status |-> "Signed"]
<1>0. row \in [Requests -> RowState] /\ settler \in [Settlers -> Run] /\ settler[p] \in Run
      /\ clock \in 1 .. MaxClock /\ MaxClock \in Nat
  BY SettlementAssumption DEF IInv, Typed, TypeOK, SettlementAssumption
<1>1. /\ mempool' = mempool /\ settler[p].pc = "listing" /\ UNCHANGED << row, clock, ledger >>
  BY DEF ListRequest, At
<1>2. CASE Set(p, Idle)
  BY <1>0, <1>1, <1>2, IdleIs, StepToIdle
<1>3. CASE \E signed \in SUBSET Users :
             Set(p, [settler[p] EXCEPT !.pc = "previewing", !.outcomes = {Settlement(u) : u \in signed}])
  <2>1. PICK signed \in SUBSET Users :
          Set(p, [settler[p] EXCEPT !.pc = "previewing", !.outcomes = {Settlement(u) : u \in signed}])
    BY <1>3
  <2>2. PICK O : O = {Settlement(u) : u \in signed}
    OBVIOUS
  <2>3. ASSUME NEW u \in Users
        PROVE  Settlement(u) \in Outcome /\ SoundOutcome(Settlement(u)) /\ Settlement(u).user = u
    BY <1>0 DEF Outcome, SoundOutcome, Of, Status
  <2> HIDE DEF Settlement
  <2>4. O \in SUBSET Outcome /\ Sound(O)
    BY <2>2, <2>3 DEF Sound
  <2>5. PICK s : s = Moved(settler[p], "previewing", O)
    OBVIOUS
  <2>6. s \in Run /\ s.pc = "previewing" /\ s.outcomes = O
    <3>1. "previewing" \in Pc
      BY DEF Pc
    <3> QED BY <1>0, <2>4, <2>5, <3>1, RunWith
  <2>7. settler' = [settler EXCEPT ![p] = s] /\ settler'[p] = s
    BY <1>0, <2>1, <2>2, <2>5 DEF Set, Moved
  <2>8. RunInv(p)'
    BY <2>4, <2>6, <2>7 DEF RunInv, Sound, SoundOutcome
  <2>9. ASSUME NEW u \in Users
        PROVE  Total(Settled(u))' + Credit(p, u)' <= Total(Settled(u)) + Credit(p, u)
    <3>1. Credit(p, u)' = 0
      BY <2>6, <2>7, NoCredit
    <3>2. Total(Settled(u))' <= Total(Settled(u))
      BY <1>1, SettledKept
    <3> QED BY <3>1, <3>2, CreditIs
  <2>10. row' \in [Requests -> RowState] /\ (mempool' = mempool /\ settler[p].pc # "confirming")
    BY <1>0, <1>1
  <2> QED BY <1>1, <2>6, <2>7, <2>8, <2>9, <2>10, StepOf
<1>4. {UserOf[r] : r \in listed} \in SUBSET Users
  BY DEF Users
<1> QED BY <1>2, <1>3, <1>4 DEF ListRequest

(* The settlements of a run are previewed: what is not sent settles        *)
(* nothing.                                                                *)
LEMMA PreviewKeeps ==
  ASSUME IInv, NEW p \in Settlers, NEW broken, Preview(p, broken)
  PROVE  IInv'
<1>0. row \in [Requests -> RowState] /\ settler \in [Settlers -> Run] /\ settler[p] \in Run
  BY DEF IInv, Typed, TypeOK
<1>1. Sound(settler[p].outcomes) /\ settler[p].outcomes \in SUBSET Outcome
  BY <1>0 DEF IInv, RunInv, Run
<1>2. mempool' = mempool /\ settler[p].pc = "previewing" /\ UNCHANGED << clock, ledger >>
  BY DEF Preview, At
<1>3. PICK O : O = {Previewed(o, broken) : o \in settler[p].outcomes}
  OBVIOUS
<1>4. O \in SUBSET Outcome /\ Sound(O)
  <2>1. ASSUME NEW x \in O
        PROVE  \E o \in settler[p].outcomes : x = Previewed(o, broken) /\ x \in Outcome
                                              /\ SoundOutcome(x) /\ x.user = o.user
    <3>1. PICK o \in settler[p].outcomes : x = Previewed(o, broken)
      BY <1>3
    <3>2. o \in Outcome /\ SoundOutcome(o)
      BY <1>1 DEF Sound
    <3> QED BY <3>1, <3>2, PreviewedIs
  <2>2. ASSUME NEW x \in O, NEW y \in O, x.user = y.user PROVE x = y
    BY <1>1, <2>1, <2>2 DEF Sound
  <2> QED BY <2>1, <2>2 DEF Sound
<1>5. PICK U : U = {o.user : o \in {x \in O : x.settled # {}}}
  OBVIOUS
<1>6. U \in SUBSET Users
  BY <1>4, <1>5 DEF Outcome
<1>7. PICK c \in Pc : c = IF U = {} THEN "processing" ELSE "sending"
  BY DEF Pc
<1>8. PICK b \in BOOLEAN : b = (U # {})
  OBVIOUS
<1>9. PICK s : s = Begun(settler[p], c, O, U, b)
  OBVIOUS
<1>10. s \in Run /\ s.pc = c /\ s.outcomes = O /\ s.unsent = U
  BY <1>0, <1>4, <1>6, <1>9, RunPreviewed
<1>11. settler' = [settler EXCEPT ![p] = s]
  BY <1>3, <1>5, <1>7, <1>8, <1>9 DEF Preview, Set, Begun
<1>12. settler'[p] = s
  BY <1>0, <1>11
<1>13. RunInv(p)'
  BY <1>4, <1>7, <1>10, <1>12 DEF RunInv, Sound, SoundOutcome
<1>14. row' \in [Requests -> RowState] /\ \A r \in Requests : row'[r] = "settled" => row[r] = "settled"
  <2>1. PICK L : row' = [r \in Requests |-> IF r \in L THEN "skipped" ELSE row[r]]
    <3>1. PICK left, us : row' = [r \in Requests |-> IF r \in left /\ UserOf[r] \in us /\ row[r] = "billed"
                                                     THEN "skipped" ELSE row[r]]
      BY DEF Preview
    <3>2. PICK L : L = {r \in Requests : r \in left /\ UserOf[r] \in us /\ row[r] = "billed"}
      OBVIOUS
    <3> QED BY <3>1, <3>2
  <2> QED BY <1>0, <2>1 DEF RowState
<1>15. ASSUME NEW u \in Users
       PROVE  Total(Settled(u))' + Credit(p, u)' <= Total(Settled(u)) + Credit(p, u)
  <2>1. ASSUME NEW o \in Answered(p)' PROVE o.settled = {}
    BY <1>5, <1>10, <1>12 DEF Answered
  <2>2. Due(p, u)' = {}
    BY <2>1 DEF Due
  <2>3. Credit(p, u)' = 0
    BY <2>2, TotalIs DEF Credit, Total
  <2>4. Total(Settled(u))' <= Total(Settled(u))
    BY <1>14, SettledKept
  <2> QED BY <2>3, <2>4, CreditIs
<1>16. mempool' = mempool /\ settler[p].pc # "confirming"
  BY <1>2
<1> QED BY <1>2, <1>10, <1>11, <1>13, <1>14, <1>15, <1>16, StepOf

(* A batch goes out, and is awaited.                                       *)
LEMMA SendKeeps ==
  ASSUME IInv, NEW p \in Settlers, NEW batch \in SUBSET Users, SendBatch(p, batch)
  PROVE  IInv'
<1>0. /\ settler \in [Settlers -> Run] /\ settler[p] \in Run /\ mempool \in Seq(Tx)
      /\ Len(mempool) \in Nat /\ DOMAIN mempool = 1 .. Len(mempool)
      /\ \A i \in DOMAIN mempool : mempool[i] \in Tx
  BY DEF IInv, Typed, TypeOK
<1>1. settler[p].pc = "sending" /\ UNCHANGED << row, clock, account, charged, paid >>
  BY DEF SendBatch, At, ledger
<1>2. PICK I : I = {o \in settler[p].outcomes : o.user \in batch}
  OBVIOUS
<1>3. I \in SUBSET Outcome /\ Sound(I) /\ Sound(settler[p].outcomes)
  BY <1>0, <1>2 DEF IInv, RunInv, Sound, Run
<1>4. PICK t : t = [sender |-> p, awaited |-> TRUE, items |-> I]
  OBVIOUS
<1>5. t \in Tx /\ t.sender = p /\ t.awaited /\ t.items = I
  BY <1>3, <1>4 DEF Tx
<1>6. mempool' = Append(mempool, t)
  BY <1>2, <1>4 DEF SendBatch
<1>7. /\ mempool' \in Seq(Tx) /\ DOMAIN mempool' = 1 .. Len(mempool) + 1
      /\ mempool'[Len(mempool) + 1] = t
      /\ \A i \in 1 .. Len(mempool) : mempool'[i] = mempool[i]
  BY <1>0, <1>5, <1>6
<1>8. PICK U : U = settler[p].unsent \ batch
  OBVIOUS
<1>9. PICK s : s = Sending(settler[p], "confirming", U)
  OBVIOUS
<1>10. s \in Run /\ s.pc = "confirming" /\ s.outcomes = settler[p].outcomes /\ s.unsent = U
  <2>1. "confirming" \in Pc /\ U \in SUBSET Users
    BY <1>0, <1>8 DEF Pc, Run
  <2> QED BY <1>0, <1>9, <2>1, RunSends
<1>11. /\ settler' \in [Settlers -> Run] /\ settler'[p] = s
       /\ \A q \in Settlers \ {p} : settler'[q] = settler[q]
  <2>1. settler' = [settler EXCEPT ![p] = s]
    BY <1>8, <1>9 DEF SendBatch, Set, Sending
  <2> QED BY <1>0, <1>10, <2>1
<1>12. Typed'
  BY <1>1, <1>7, <1>11, TypedNext DEF IInv, Typed, TypeOK
<1>13. ASSUME NEW q \in Settlers PROVE RunInv(q)'
  <2>1. CASE q = p
    BY <1>3, <1>10, <1>11, <2>1 DEF RunInv, Sound, SoundOutcome
  <2>2. CASE q # p
    BY <1>11, <2>2 DEF IInv, RunInv, Sound, SoundOutcome
  <2> QED BY <2>1, <2>2
<1>14. \A i \in DOMAIN mempool : mempool[i].awaited => mempool[i].sender # p /\ mempool[i].sender \in Settlers
  BY <1>0, <1>1 DEF IInv, AwaitedInv, Awaited, Tx
<1>15. AwaitedInv'
  <2>1. ASSUME NEW i \in 1 .. Len(mempool), mempool'[i].awaited PROVE Awaited(i)'
    <3>1. i \in DOMAIN mempool /\ mempool'[i] = mempool[i]
      BY <1>0, <1>7
    <3>2. Awaited(i) /\ mempool[i].sender # p
      BY <1>14, <2>1, <3>1 DEF IInv, AwaitedInv
    <3>3. settler'[mempool'[i].sender] = settler[mempool[i].sender]
      BY <1>11, <1>14, <2>1, <3>1
    <3>4. \A j \in DOMAIN mempool' :
            mempool'[j].awaited /\ mempool'[j].sender = mempool'[i].sender => j = i
      <4>1. ASSUME NEW j \in DOMAIN mempool', mempool'[j].awaited, mempool'[j].sender = mempool'[i].sender
            PROVE  j = i
        <5>1. j # Len(mempool) + 1
          BY <1>5, <1>7, <3>1, <3>2, <4>1
        <5>2. j \in DOMAIN mempool /\ mempool'[j] = mempool[j]
          BY <1>0, <1>7, <5>1
        <5> QED BY <3>1, <3>2, <4>1, <5>2 DEF Awaited
      <4> QED BY <4>1
    <3> QED BY <3>1, <3>2, <3>3, <3>4 DEF Awaited
  <2>2. ASSUME NEW i, i = Len(mempool) + 1 PROVE Awaited(i)'
    <3>1. \A o \in I : o.user \notin U
      BY <1>2, <1>8
    <3>2. I \subseteq s.outcomes
      BY <1>2, <1>10
    <3>3. \A j \in DOMAIN mempool' : mempool'[j].awaited /\ mempool'[j].sender = p => j = i
      BY <1>0, <1>7, <1>14, <2>2
    <3>4. mempool'[i] = t
      BY <1>7, <2>2
    <3> QED BY <1>5, <1>10, <1>11, <3>1, <3>2, <3>3, <3>4 DEF Awaited
  <2>3. ASSUME NEW i \in DOMAIN mempool' PROVE Sound(mempool'[i].items)
    <3>1. CASE i = Len(mempool) + 1
      BY <1>3, <1>5, <1>7, <3>1
    <3>2. CASE i # Len(mempool) + 1
      BY <1>0, <1>7, <3>2 DEF IInv, AwaitedInv
    <3> QED BY <3>1, <3>2
  <2>4. ASSUME NEW i \in DOMAIN mempool', mempool'[i].awaited PROVE Awaited(i)'
    <3>1. i \in 1 .. Len(mempool) \/ i = Len(mempool) + 1
      BY <1>0, <1>7
    <3> QED BY <2>1, <2>2, <2>4, <3>1
  <2> QED BY <2>3, <2>4 DEF AwaitedInv, Sound, SoundOutcome
<1>16. ASSUME NEW q \in Settlers \ {p} PROVE \A u : Credit(q, u)' = Credit(q, u)
  <2>1. ASSUME NEW o PROVE Awaits(q, o)' = Awaits(q, o)
    <3>1. Awaits(q, o) => Awaits(q, o)'
      BY <1>0, <1>7 DEF Awaits
    <3>2. Awaits(q, o)' => Awaits(q, o)
      <4>1. ASSUME NEW i \in DOMAIN mempool', mempool'[i].awaited, mempool'[i].sender = q, o \in mempool'[i].items
            PROVE  i \in DOMAIN mempool /\ mempool'[i] = mempool[i]
        BY <1>0, <1>5, <1>7, <4>1
      <4> QED BY <4>1 DEF Awaits
    <3>3. Awaits(q, o)' \in BOOLEAN /\ Awaits(q, o) \in BOOLEAN
      BY DEF Awaits
    <3> QED BY <3>1, <3>2, <3>3
  <2>2. settler'[q] = settler[q]
    BY <1>11
  <2> QED BY <2>1, <2>2, CreditStays
<1>17. ASSUME NEW u \in Users PROVE Credit(p, u)' <= Credit(p, u)
  <2>1. ASSUME NEW o, o \in Answered(p)' PROVE o \in Answered(p)
    <3>1. o \in settler[p].outcomes /\ o.user \notin U /\ ~ Awaits(p, o)'
      BY <1>10, <1>11, <2>1 DEF Answered
    <3>2. o \in I => Awaits(p, o)'
      <4>1. Len(mempool) + 1 \in DOMAIN mempool'
        BY <1>0, <1>7
      <4> QED BY <1>5, <1>7, <4>1 DEF Awaits
    <3>3. ~ Awaits(p, o)
      BY <1>14 DEF Awaits
    <3> QED BY <1>1, <1>2, <1>8, <3>1, <3>2, <3>3 DEF Answered
  <2>2. PICK D : D = Due(p, u)'
    OBVIOUS
  <2>3. D \in SUBSET Due(p, u) /\ Due(p, u) \in SUBSET Requests
    BY <2>1, <2>2 DEF Due
  <2> QED BY <2>2, <2>3, TotalIs DEF Credit, Total
<1>18. ASSUME NEW u \in Users PROVE PaidInv(u)'
  <2>1. PaidInv(u) /\ paid'[u] = paid[u] /\ paid[u] \in Nat
    BY <1>1 DEF IInv, Typed, TypeOK
  <2>2. Total(Settled(u))' <= Total(Settled(u))
    BY <1>1, SettledKept
  <2>3. Total(Settled(u))' + Credit(p, u)' + paid[u] <= Total(Settled(u)) + Credit(p, u) + paid'[u]
    BY <1>17, <2>1, <2>2, CreditIs
  <2> QED BY <1>16, <2>1, <2>3, PaidMoves
<1> QED BY <1>12, <1>13, <1>15, <1>18 DEF IInv

(* The rows of an outcome are deleted, or forgiven, or the statement       *)
(* fails: either way the run is through with it.                           *)
LEMMA ProcessKeeps ==
  ASSUME IInv, NEW p \in Settlers, ProcessOutcome(p)
  PROVE  IInv'
<1>0. row \in [Requests -> RowState] /\ settler \in [Settlers -> Run] /\ settler[p] \in Run
  BY DEF IInv, Typed, TypeOK
<1>1. /\ settler[p].pc = "processing" /\ settler[p].unsent = {} /\ Sound(settler[p].outcomes)
      /\ settler[p].outcomes \in SUBSET Outcome
  BY <1>0 DEF IInv, RunInv, ProcessOutcome, At, Run
<1>2. PICK o \in settler[p].outcomes :
        /\ \/ row' = [r \in Requests |->
                       IF ~(r \in Deleted(o) /\ Exists(r)) THEN row[r]
                       ELSE IF o.status = "NoSigner" THEN "forgiven" ELSE "settled"]
           \/ UNCHANGED row
        /\ Set(p, [settler[p] EXCEPT !.outcomes = @ \ {o}])
  BY DEF ProcessOutcome
<1>3. UNCHANGED << mempool, clock, ledger >>
  BY DEF ProcessOutcome
<1>4. o \in Outcome /\ SoundOutcome(o) /\ o.settled \in SUBSET Of(o.user, Requests) /\ o.settled \in SUBSET Requests
  BY <1>1 DEF Sound, SoundOutcome, Of
<1>5. PICK O : O = settler[p].outcomes \ {o}
  OBVIOUS
<1>6. PICK s : s = Left(settler[p], O)
  OBVIOUS
<1>7. s \in Run /\ s.pc = "processing" /\ s.outcomes = O /\ s.unsent = {}
  BY <1>0, <1>1, <1>5, <1>6, RunProcesses
<1>8. settler' = [settler EXCEPT ![p] = s] /\ settler'[p] = s
  BY <1>0, <1>2, <1>5, <1>6 DEF Set, Left
<1>9. RunInv(p)'
  BY <1>1, <1>5, <1>7, <1>8 DEF RunInv, Sound, SoundOutcome
<1>10. /\ row' \in [Requests -> RowState]
       /\ \A r \in Requests : row'[r] = "settled" => row[r] = "settled" \/ r \in o.settled
  BY <1>0, <1>2 DEF RowState, Deleted
<1>11. ASSUME NEW x PROVE ~ Awaits(p, x) /\ ~ Awaits(p, x)'
  <2>1. \A i \in DOMAIN mempool : mempool[i].awaited => mempool[i].sender # p
    BY <1>1 DEF IInv, AwaitedInv, Awaited
  <2> QED BY <1>3, <2>1 DEF Awaits
<1>12. ASSUME NEW u \in Users
       PROVE  Total(Settled(u))' + Credit(p, u)' <= Total(Settled(u)) + Credit(p, u)
  <2>1. PICK D : D = Due(p, u)'
    OBVIOUS
  <2>2. Due(p, u) \in SUBSET Requests /\ Credit(p, u) = Total(Due(p, u)) /\ Credit(p, u)' = Total(D)
    BY <2>1 DEF Due, Credit, Total
  <2>3. ASSUME NEW x, x \in Answered(p)' PROVE x \in Answered(p) /\ x # o
    BY <1>1, <1>5, <1>7, <1>8, <1>11, <2>3 DEF Answered
  <2>4. CASE o.user = u
    <3>1. o.settled \in SUBSET Due(p, u)
      <4>1. o \in Answered(p)
        BY <1>1, <1>11 DEF Answered
      <4> QED BY <1>4, <2>4, <4>1 DEF Due
    <3>2. Total(o.settled) <= Credit(p, u) /\ Total(o.settled) \in Nat
      BY <1>4, <2>2, <3>1, TotalIs
    <3>3. D = {}
      <4>1. ASSUME NEW x, x \in Answered(p)' PROVE x.user # u
        BY <1>1, <2>3, <2>4, <4>1 DEF Answered, Sound
      <4> QED BY <2>1, <4>1 DEF Due
    <3>4. Credit(p, u)' = 0
      BY <2>2, <3>3, TotalIs
    <3>5. Total(Settled(u))' <= Total(Settled(u)) + Total(o.settled)
      BY <1>4, <1>10, SettledGrows
    <3> QED BY <3>2, <3>4, <3>5, CreditIs
  <2>5. CASE o.user # u
    <3>1. D \in SUBSET Due(p, u)
      BY <2>1, <2>3 DEF Due
    <3>2. Credit(p, u)' <= Credit(p, u)
      BY <2>2, <3>1, TotalIs
    <3>3. PICK S \in SUBSET Requests : S = {}
      OBVIOUS
    <3>4. \A r \in Requests : row'[r] = "settled" => row[r] = "settled" \/ (UserOf[r] = u => r \in S)
      BY <1>4, <1>10, <2>5 DEF Of
    <3>5. Total(Settled(u))' <= Total(Settled(u)) + Total(S)
      BY <3>4, SettledGrows
    <3>6. Total(S) = 0
      BY <3>3, TotalIs
    <3> QED BY <3>2, <3>5, <3>6, CreditIs
  <2> QED BY <2>4, <2>5
<1>13. mempool' = mempool /\ settler[p].pc # "confirming" /\ UNCHANGED << clock, ledger >>
  BY <1>1, <1>3
<1> QED BY <1>7, <1>8, <1>9, <1>10, <1>12, <1>13, StepOf

(* What the requests of a user that a transaction settles with success are *)
(* worth, the contract takes.                                              *)
Covered(I, u) == {r \in Requests : \E o \in I : o.user = u /\ Verdict(o) = "Success" /\ r \in o.settled}

(* It takes no more than there is, and all of it on success.               *)
LEMMA TakenIs ==
  ASSUME Typed, NEW o \in Outcome
  PROVE  /\ Taken(o) \in Nat
         /\ Verdict(o) \in {"Success", "Partial"} => Taken(o) <= account[o.user].balance
         /\ Verdict(o) = "Success" => Taken(o) = Total(o.settled)
<1>1. o.user \in Users /\ Total(o.settled) \in Nat
  BY TotalIs DEF Outcome
<1>2. account[o.user].balance \in Nat
  BY <1>1 DEF Typed, TypeOK
<1>3. Verdict(o) = "Success" => account[o.user].balance >= Total(o.settled)
  BY DEF Verdict
<1> QED BY <1>1, <1>2, <1>3 DEF Taken

(* Accounts stay natural, and payments grow by what is covered.            *)
LEMMA MinedIs ==
  ASSUME Typed, AwaitedInv, MineTransaction
  PROVE  /\ account' \in [Users -> [balance : Nat, nonce : 0 .. MaxClock, acknowledged : BOOLEAN]]
         /\ paid' \in [Users -> Nat] /\ charged' \subseteq Requests
         /\ \A u \in Users : paid[u] + Total(Covered(Head(mempool).items, u)) <= paid'[u]
<1> DEFINE I == Head(mempool).items
           A == [balance : Nat, nonce : 0 .. MaxClock, acknowledged : BOOLEAN]
           Accepted(u) == {o \in I : o.user = u /\ Verdict(o) \in {"Success", "Partial"}}
<1>0. account \in [Users -> A] /\ paid \in [Users -> Nat] /\ charged \subseteq Requests
  BY DEF Typed, TypeOK
<1>1. Head(mempool) = mempool[1] /\ 1 \in DOMAIN mempool /\ mempool[1] \in Tx
  <2>1. mempool \in Seq(Tx) /\ mempool # << >>
    BY DEF Typed, MineTransaction
  <2> QED BY <2>1
<1>2. I \in SUBSET Outcome /\ Sound(I)
  BY <1>1 DEF AwaitedInv, Tx
<1>3. /\ account' = [u \in Users |->
                       IF Accepted(u) = {} THEN account[u]
                       ELSE LET o == CHOOSE x \in Accepted(u) : TRUE
                            IN  [account[u] EXCEPT !.balance = @ - Taken(o), !.nonce = o.nonce]]
      /\ paid' = [u \in Users |->
                    IF Accepted(u) = {} THEN paid[u]
                    ELSE paid[u] + Taken(CHOOSE x \in Accepted(u) : TRUE)]
      /\ charged' = charged \union
                      UNION {o.settled : o \in {x \in I : Verdict(x) = "Success"}}
  BY DEF MineTransaction
<1> HIDE DEF I
<1>4. ASSUME NEW u \in Users
      PROVE  /\ account'[u] \in A /\ paid'[u] \in Nat
             /\ paid[u] + Total(Covered(I, u)) <= paid'[u]
  <2>1. CASE Accepted(u) = {}
    <3>1. Covered(I, u) = {}
      BY <2>1 DEF Covered
    <3>2. Total(Covered(I, u)) = 0
      BY <3>1, TotalIs
    <3>3. account'[u] = account[u] /\ paid'[u] = paid[u]
      BY <1>3, <2>1
    <3> QED BY <1>0, <3>2, <3>3
  <2>2. CASE Accepted(u) # {}
    <3>1. PICK o \in Accepted(u) : o = CHOOSE x \in Accepted(u) : TRUE
      BY <2>2
    <3>2. /\ account'[u] = [account[u] EXCEPT !.balance = @ - Taken(o), !.nonce = o.nonce]
          /\ paid'[u] = paid[u] + Taken(o)
      BY <1>3, <2>2, <3>1
    <3>3. /\ o \in Outcome /\ o.user = u /\ Verdict(o) \in {"Success", "Partial"}
          /\ o.nonce \in 1 .. MaxClock /\ o.settled \in SUBSET Requests
      BY <1>2 DEF Sound, SoundOutcome, Outcome
    <3>4. /\ Taken(o) \in Nat /\ Taken(o) <= account[u].balance
          /\ (Verdict(o) = "Success" => Taken(o) = Total(o.settled))
      BY <3>3, TakenIs
    <3>5. account[u] \in A /\ paid[u] \in Nat /\ MaxClock \in Nat
      BY <1>0, SettlementAssumption DEF SettlementAssumption
    <3>6. account'[u] \in A
      <4>1. account[u].balance - Taken(o) \in Nat /\ o.nonce \in 0 .. MaxClock
        BY <3>3, <3>4, <3>5
      <4> QED BY <3>2, <3>5, <4>1
    <3>7. \A x \in I : x.user = u => x = o
      BY <1>2, <3>3 DEF Sound
    <3>8. Total(Covered(I, u)) <= Taken(o) /\ Total(Covered(I, u)) \in Nat
      <4>1. CASE Verdict(o) = "Success"
        <5>1. Covered(I, u) = o.settled
          BY <3>3, <3>7, <4>1 DEF Covered
        <5> QED BY <3>3, <3>4, <4>1, <5>1, TotalIs
      <4>2. CASE Verdict(o) # "Success"
        <5>1. Covered(I, u) = {}
          BY <3>7, <4>2 DEF Covered
        <5> QED BY <3>4, <5>1, TotalIs
      <4> QED BY <4>1, <4>2
    <3> QED BY <3>2, <3>4, <3>5, <3>6, <3>8
  <2> QED BY <2>1, <2>2
<1>5. account' \in [Users -> A] /\ paid' \in [Users -> Nat]
  <2> DEFINE F(u) == IF Accepted(u) = {} THEN account[u]
                     ELSE LET o == CHOOSE x \in Accepted(u) : TRUE
                          IN  [account[u] EXCEPT !.balance = @ - Taken(o), !.nonce = o.nonce]
             G(u) == IF Accepted(u) = {} THEN paid[u]
                     ELSE paid[u] + Taken(CHOOSE x \in Accepted(u) : TRUE)
  <2>1. account' = [u \in Users |-> F(u)] /\ paid' = [u \in Users |-> G(u)]
    BY <1>3
  <2> HIDE DEF F, G
  <2> QED BY <1>4, <2>1
<1>6. charged' \subseteq Requests
  <2>1. \A o \in I : o.settled \subseteq Requests
    BY <1>2 DEF Outcome
  <2> HIDE DEF Accepted
  <2> QED BY <1>0, <1>3, <2>1
<1> QED BY <1>4, <1>5, <1>6 DEF I

(* The first transaction leaves the mempool: nobody waits for it any more, *)
(* and those waiting for another one still do.                             *)
Waiting(q) == Head(mempool).awaited /\ Head(mempool).sender = q

(* What is left of AwaitedInv and of the credits then.                     *)
LEMMA HeadGone ==
  ASSUME Typed, AwaitedInv, mempool # << >>, mempool' = Tail(mempool),
         \A q \in Settlers : ~ Waiting(q) => settler'[q] = settler[q]
  PROVE  /\ mempool' \in Seq(Tx) /\ AwaitedInv'
         /\ \A q \in Settlers : ~ Waiting(q) => \A u : Credit(q, u)' = Credit(q, u)
         /\ \A q \in Settlers : Waiting(q) => \A o : ~ Awaits(q, o)' /\ (Awaits(q, o) => o \in Head(mempool).items)
<1>0. /\ mempool \in Seq(Tx) /\ Len(mempool) \in Nat \ {0} /\ DOMAIN mempool = 1 .. Len(mempool)
      /\ Head(mempool) = mempool[1] /\ 1 \in DOMAIN mempool
      /\ \A i \in DOMAIN mempool : mempool[i] \in Tx
  BY DEF Typed
<1>1. /\ mempool' \in Seq(Tx) /\ DOMAIN mempool' = 1 .. Len(mempool) - 1
      /\ \A i \in DOMAIN mempool' : i + 1 \in DOMAIN mempool /\ i + 1 # 1 /\ mempool'[i] = mempool[i + 1]
  BY <1>0
<1>2. \A i \in DOMAIN mempool : mempool[i].sender \in Settlers
  BY <1>0 DEF Tx
<1>3. ASSUME NEW i \in DOMAIN mempool', mempool'[i].awaited PROVE Awaited(i)' /\ ~ Waiting(mempool'[i].sender)
  <2>1. Awaited(i + 1) /\ mempool'[i] = mempool[i + 1]
    BY <1>1, <1>3 DEF AwaitedInv
  <2>2. ~ Waiting(mempool[i + 1].sender)
    BY <1>0, <1>1, <2>1 DEF Waiting, Awaited
  <2>3. settler'[mempool'[i].sender] = settler[mempool[i + 1].sender]
    BY <1>1, <1>2, <2>1, <2>2
  <2>4. ASSUME NEW j \in DOMAIN mempool', mempool'[j].awaited, mempool'[j].sender = mempool'[i].sender
        PROVE  j = i
    <3>1. j + 1 = i + 1
      BY <1>1, <2>1, <2>4 DEF Awaited
    <3> QED BY <1>0, <1>1, <3>1
  <2> QED BY <2>1, <2>2, <2>3, <2>4 DEF Awaited
<1>4. ASSUME NEW i \in DOMAIN mempool' PROVE Sound(mempool'[i].items)
  BY <1>1 DEF AwaitedInv
<1>5. AwaitedInv'
  BY <1>3, <1>4 DEF AwaitedInv, Sound, SoundOutcome
<1>6. ASSUME NEW q \in Settlers, ~ Waiting(q) PROVE \A u : Credit(q, u)' = Credit(q, u)
  <2>1. ASSUME NEW o PROVE Awaits(q, o)' = Awaits(q, o)
    <3>1. ASSUME Awaits(q, o) PROVE Awaits(q, o)'
      <4>1. PICK i \in DOMAIN mempool : mempool[i].awaited /\ mempool[i].sender = q /\ o \in mempool[i].items
        BY <3>1 DEF Awaits
      <4>2. i # 1
        BY <1>0, <1>6, <4>1 DEF Waiting
      <4>3. PICK k : k = i - 1
        OBVIOUS
      <4>4. k \in DOMAIN mempool' /\ k + 1 = i
        BY <1>0, <1>1, <4>2, <4>3
      <4>5. mempool'[k] = mempool[i]
        BY <1>1, <4>4
      <4> QED BY <4>1, <4>4, <4>5 DEF Awaits
    <3>2. Awaits(q, o)' => Awaits(q, o)
      BY <1>1 DEF Awaits
    <3>3. Awaits(q, o)' \in BOOLEAN /\ Awaits(q, o) \in BOOLEAN
      BY DEF Awaits
    <3> QED BY <3>1, <3>2, <3>3
  <2>2. settler'[q] = settler[q]
    BY <1>6
  <2> QED BY <2>1, <2>2, CreditStays
<1>7. ASSUME NEW q \in Settlers, Waiting(q), NEW o
      PROVE  ~ Awaits(q, o)' /\ (Awaits(q, o) => o \in Head(mempool).items)
  <2>1. ~ Awaits(q, o)'
    BY <1>3, <1>7 DEF Awaits
  <2>2. Awaits(q, o) => o \in Head(mempool).items
    <3>1. Awaited(1)
      BY <1>0, <1>7 DEF AwaitedInv, Waiting
    <3>2. \A j \in DOMAIN mempool : mempool[j].awaited /\ mempool[j].sender = q => j = 1
      BY <1>0, <1>7, <3>1 DEF Awaited, Waiting
    <3> QED BY <1>0, <3>2 DEF Awaits
  <2> QED BY <2>1, <2>2
<1> QED BY <1>1, <1>5, <1>6, <1>7

(* Whatever a failed transaction leaves, it writes nothing off.            *)
LEMMA RevertKeeps ==
  ASSUME IInv, RevertTransaction
  PROVE  IInv'
<1>0. Typed /\ TypeOK /\ AwaitedInv /\ mempool # << >> /\ mempool' = Tail(mempool)
      /\ settler \in [Settlers -> Run] /\ UNCHANGED << row, clock, account, charged, paid >>
  BY DEF IInv, Typed, RevertTransaction, ledger
<1>1. /\ settler' \in [Settlers -> Run]
      /\ \A q \in Settlers : IF Waiting(q) THEN settler'[q] = Idle ELSE settler'[q] = settler[q]
  BY <1>0, IdleIs DEF RevertTransaction, Set, Waiting
<1>2. Typed'
  BY <1>0, <1>1, HeadGone, TypedNext DEF TypeOK
<1>3. ASSUME NEW q \in Settlers PROVE RunInv(q)'
  <2>1. CASE Waiting(q)
    BY <1>1, <2>1, IdleIs DEF RunInv, Sound
  <2>2. CASE ~ Waiting(q)
    BY <1>1, <2>2 DEF IInv, RunInv, Sound, SoundOutcome
  <2> QED BY <2>1, <2>2
<1>4. AwaitedInv' /\ \A q \in Settlers : ~ Waiting(q) => \A u : Credit(q, u)' = Credit(q, u)
  BY <1>0, <1>1, HeadGone
<1>5. ASSUME NEW u \in Users PROVE PaidInv(u)'
  <2>1. PaidInv(u) /\ paid'[u] = paid[u] /\ paid[u] \in Nat
    BY <1>0 DEF IInv, TypeOK
  <2>2. Total(Settled(u))' <= Total(Settled(u))
    BY <1>0, SettledKept
  <2>3. Total(Settled(u))' + paid[u] <= Total(Settled(u)) + paid'[u]
    BY <2>1, <2>2, CreditIs
  <2>4. CASE \A q \in Settlers : ~ Waiting(q)
    BY <1>4, <2>1, <2>3, <2>4, PaidStays
  <2>5. CASE \E q \in Settlers : Waiting(q)
    <3>1. PICK p \in Settlers : Waiting(p)
      BY <2>5
    <3>2. \A q \in Settlers \ {p} : ~ Waiting(q)
      BY <3>1 DEF Waiting
    <3>3. Credit(p, u)' = 0
      <4>1. settler'[p].pc = "idle"
        BY <1>1, <3>1, IdleIs
      <4> QED BY <4>1, NoCredit
    <3>4. Total(Settled(u))' + Credit(p, u)' + paid[u] <= Total(Settled(u)) + Credit(p, u) + paid'[u]
      BY <2>1, <2>3, <3>3, CreditIs
    <3>5. \A q \in Settlers \ {p} : Credit(q, u)' = Credit(q, u)
      BY <1>4, <3>2
    <3> QED BY <2>1, <3>4, <3>5, PaidMoves
  <2> QED BY <2>4, <2>5
<1> QED BY <1>2, <1>3, <1>4, <1>5 DEF IInv

(* What the run that waits makes of the events: the same outcomes, those   *)
(* that failed with nothing settled.                                       *)
Result(o, failed) == IF o.user \in failed THEN [o EXCEPT !.status = "Partial", !.settled = {}] ELSE o
Results(O, failed) == {Result(o, failed) : o \in O}

(* A result is an outcome of the same user and requests.                   *)
LEMMA ResultIs ==
  ASSUME NEW o \in Outcome, SoundOutcome(o), NEW failed
  PROVE  LET x == Result(o, failed)
         IN  /\ x \in Outcome /\ SoundOutcome(x) /\ x.user = o.user
             /\ x.settled = (IF o.user \in failed THEN {} ELSE o.settled) /\ x.listed = o.listed
<1>1. ASSUME NEW x, x = [o EXCEPT !.status = "Partial", !.settled = {}]
      PROVE  x \in Outcome /\ x.user = o.user /\ x.settled = {} /\ x.listed = o.listed /\ x.nonce = o.nonce
  BY <1>1 DEF Outcome, Status
<1> QED BY <1>1 DEF Result, SoundOutcome

(* One result for each outcome, with nothing settled if it failed.         *)
LEMMA ResultsAre ==
  ASSUME NEW O \in SUBSET Outcome, Sound(O), NEW failed
  PROVE  /\ Results(O, failed) \in SUBSET Outcome /\ Sound(Results(O, failed))
         /\ \A x \in Results(O, failed) : \E o \in O :
              /\ x.user = o.user /\ (x = o \/ x.settled = {}) /\ (o.user \in failed => x.settled = {})
              /\ x.listed = o.listed
         /\ \A o \in O : o.user \notin failed => o \in Results(O, failed)
<1>1. ASSUME NEW x \in Results(O, failed)
      PROVE  \E o \in O : /\ x = Result(o, failed) /\ x \in Outcome /\ SoundOutcome(x) /\ x.user = o.user
                          /\ (x = o \/ x.settled = {}) /\ (o.user \in failed => x.settled = {})
                          /\ x.listed = o.listed
  <2>1. PICK o \in O : x = Result(o, failed)
    BY DEF Results
  <2>2. o \in Outcome /\ SoundOutcome(o)
    BY DEF Sound
  <2>3. x = o \/ o.user \in failed
    BY <2>1 DEF Result
  <2> QED BY <2>1, <2>2, <2>3, ResultIs
<1>2. ASSUME NEW x \in Results(O, failed), NEW y \in Results(O, failed), x.user = y.user PROVE x = y
  BY <1>1, <1>2 DEF Sound
<1>3. \A o \in O : o.user \notin failed => o \in Results(O, failed)
  BY DEF Results, Result
<1> QED BY <1>1, <1>2, <1>3 DEF Sound

(* What a settled transaction writes off, the contract took.               *)
LEMMA MineKeeps ==
  ASSUME IInv, MineTransaction
  PROVE  IInv'
<1>0. Typed /\ TypeOK /\ AwaitedInv /\ mempool # << >> /\ mempool' = Tail(mempool)
      /\ settler \in [Settlers -> Run] /\ UNCHANGED << row, clock >>
  BY DEF IInv, Typed, MineTransaction
<1>1. PICK I : I = Head(mempool).items
  OBVIOUS
<1>2. Head(mempool) = mempool[1] /\ 1 \in DOMAIN mempool /\ mempool[1] \in Tx /\ Head(mempool).sender \in Settlers
  <2>1. mempool \in Seq(Tx)
    BY <1>0 DEF Typed
  <2>2. Head(mempool) = mempool[1] /\ 1 \in DOMAIN mempool /\ mempool[1] \in Tx
    BY <1>0, <2>1
  <2> QED BY <2>2 DEF Tx
<1>3. ASSUME NEW p \in Settlers, Waiting(p)
      PROVE  /\ settler[p].pc = "confirming" /\ I \subseteq settler[p].outcomes
             /\ \A o \in I : o.user \notin settler[p].unsent
  BY <1>1, <1>2, <1>3 DEF IInv, AwaitedInv, Awaited, Waiting
<1>4. PICK failed : failed = FailedUsers(Head(mempool))
  OBVIOUS
<1>5. ASSUME NEW p \in Settlers, Waiting(p)
      PROVE  /\ settler'[p] \in Run /\ settler'[p].outcomes = Results(settler[p].outcomes, failed)
             /\ settler'[p].pc \in {"sending", "processing"}
             /\ settler'[p].pc = "processing" => settler'[p].unsent = {}
             /\ settler'[p].unsent = settler[p].unsent /\ RunInv(p)'
  <2>1. settler[p] \in Run /\ settler[p].outcomes \in SUBSET Outcome /\ Sound(settler[p].outcomes)
    BY <1>0 DEF IInv, RunInv, Run
  <2>2. PICK O : O = Results(settler[p].outcomes, failed)
    OBVIOUS
  <2>3. O \in SUBSET Outcome /\ Sound(O)
    BY <2>1, <2>2, ResultsAre
  <2>4. PICK c \in Pc : c = IF settler[p].unsent = {} THEN "processing" ELSE "sending"
    BY DEF Pc
  <2>5. PICK s : s = Moved(settler[p], c, O)
    OBVIOUS
  <2>6. s \in Run /\ s.pc = c /\ s.outcomes = O /\ s.unsent = settler[p].unsent
    BY <2>1, <2>3, <2>5, RunWith
  <2>7. Executed(settler[p], failed) = s
    BY <2>1, <2>2, <2>4, <2>5 DEF Executed, Moved, Results, Result, Run
  <2>8. settler' = [settler EXCEPT ![p] = Executed(settler[p], failed)]
    BY <1>4, <1>5 DEF MineTransaction, Set, Waiting
  <2>9. settler'[p] = s
    BY <1>0, <2>7, <2>8
  <2>10. RunInv(p)'
    BY <2>3, <2>4, <2>6, <2>9 DEF RunInv, Sound, SoundOutcome
  <2> QED BY <2>2, <2>4, <2>6, <2>9, <2>10
<1>6. \A q \in Settlers : ~ Waiting(q) => settler'[q] = settler[q]
  BY <1>0 DEF MineTransaction, Set, Waiting
<1>7. settler' \in [Settlers -> Run]
  <2>1. \A q \in Settlers : settler'[q] \in Run
    BY <1>0, <1>5, <1>6
  <2>2. settler' = [q \in Settlers |-> settler'[q]]
    BY <1>0 DEF MineTransaction, Set
  <2> QED BY <2>1, <2>2
<1>8. Typed'
  BY <1>0, <1>6, <1>7, HeadGone, MinedIs, TypedNext DEF TypeOK
<1>9. ASSUME NEW q \in Settlers PROVE RunInv(q)'
  <2>1. CASE ~ Waiting(q)
    BY <1>6, <2>1 DEF IInv, RunInv, Sound, SoundOutcome
  <2> QED BY <1>5, <2>1
<1>10. AwaitedInv' /\ \A q \in Settlers : ~ Waiting(q) => \A u : Credit(q, u)' = Credit(q, u)
  BY <1>0, <1>6, HeadGone
<1>11. ASSUME NEW u \in Users PROVE PaidInv(u)'
  <2>1. PaidInv(u) /\ paid'[u] \in Nat /\ paid[u] \in Nat /\ paid[u] + Total(Covered(I, u)) <= paid'[u]
    BY <1>0, <1>1, MinedIs DEF IInv, TypeOK
  <2>2. Total(Settled(u))' <= Total(Settled(u))
    BY <1>0, SettledKept
  <2>3. Covered(I, u) \in SUBSET Requests
    BY DEF Covered
  <2>4. Total(Covered(I, u)) \in Nat
    BY <2>3, TotalIs
  <2>5. CASE \A q \in Settlers : ~ Waiting(q)
    <3>1. Total(Settled(u)) \in Nat /\ Total(Settled(u))' \in Nat
      BY CreditIs
    <3>2. Total(Settled(u))' + paid[u] <= Total(Settled(u)) + paid'[u]
      BY <2>1, <2>2, <2>4, <3>1
    <3> QED BY <1>10, <2>1, <2>5, <3>2, PaidStays
  <2>6. CASE \E q \in Settlers : Waiting(q)
    <3>1. PICK p \in Settlers : Waiting(p)
      BY <2>6
    <3>2. \A q \in Settlers \ {p} : ~ Waiting(q)
      BY <3>1 DEF Waiting
    <3>3. PICK D : D = Due(p, u)'
      OBVIOUS
    <3>4. ASSUME NEW x, x \in Answered(p)', x.user = u
          PROVE  x.settled = {} \/ x \in Answered(p) \/ (x \in I /\ Verdict(x) = "Success")
      <4>1. x \in Results(settler[p].outcomes, failed) /\ x.user \notin settler[p].unsent
        BY <1>5, <3>1, <3>4 DEF Answered
      <4>2. settler[p].outcomes \in SUBSET Outcome /\ Sound(settler[p].outcomes)
        BY <1>0 DEF IInv, RunInv, Run
      <4>3. PICK o \in settler[p].outcomes : /\ x.user = o.user /\ (x = o \/ x.settled = {})
                                             /\ (o.user \in failed => x.settled = {})
        BY <4>1, <4>2, ResultsAre
      <4>4. CASE x # o \/ x.user \in failed
        BY <4>3, <4>4
      <4>5. CASE x = o /\ x \in I /\ x.user \notin failed
        <5>1. Verdict(x) = "Success"
          BY <1>1, <1>4, <4>5 DEF FailedUsers
        <5> QED BY <4>5, <5>1
      <4>6. CASE x = o /\ x \notin I
        <5>1. ~ Awaits(p, x)
          BY <1>0, <1>1, <1>6, <3>1, <4>6, HeadGone
        <5> QED BY <1>3, <3>1, <4>1, <4>6, <5>1 DEF Answered
      <4> QED BY <4>4, <4>5, <4>6
    <3>5. D \in SUBSET (Due(p, u) \cup Covered(I, u)) /\ Due(p, u) \in SUBSET Requests
      BY <3>3, <3>4 DEF Due, Covered
    <3>6. Total(D) <= Total(Due(p, u)) + Total(Covered(I, u))
      BY <2>3, <3>5, TotalOfTwo
    <3>7. Credit(p, u)' <= Credit(p, u) + Total(Covered(I, u))
      BY <3>3, <3>6 DEF Credit, Total
    <3>8. Total(Settled(u))' + Credit(p, u)' + paid[u] <= Total(Settled(u)) + Credit(p, u) + paid'[u]
      BY <2>1, <2>2, <2>4, <3>7, CreditIs
    <3>9. \A q \in Settlers \ {p} : Credit(q, u)' = Credit(q, u)
      BY <1>10, <3>2
    <3> QED BY <2>1, <3>8, <3>9, PaidMoves
  <2> QED BY <2>5, <2>6
<1> QED BY <1>8, <1>9, <1>10, <1>11 DEF IInv

(* At first nothing is settled, and nobody has paid.                       *)
LEMMA InitSound ==
  ASSUME Init
  PROVE  IInv
<1>1. Typed
  <2>1. row \in [Requests -> RowState] /\ settler \in [Settlers -> Run] /\ mempool = << >>
    BY IdleIs DEF Init, RowState
  <2>2. /\ account \in [Users -> [balance : Nat, nonce : 0 .. MaxClock, acknowledged : BOOLEAN]]
        /\ clock \in 1 .. MaxClock /\ charged \subseteq Requests /\ paid \in [Users -> Nat]
    BY SettlementAssumption DEF Init, SettlementAssumption
  <2>3. \A p \in Settlers :
          /\ settler[p].pc \in {"idle", "listing", "previewing", "sending", "confirming", "processing"}
          /\ settler[p].round \in 0 .. MaxRounds
          /\ settler[p].outcomes \subseteq Outcome /\ settler[p].unsent \subseteq Users
          /\ settler[p].again \in BOOLEAN
    <3>1. \A p \in Settlers : settler[p] \in Run
      BY <2>1
    <3> QED BY <3>1 DEF Run, Pc
  <2>4. mempool \in Seq(Tx) /\ \A i \in DOMAIN mempool : mempool[i].items \subseteq Outcome
    BY <2>1
  <2> QED BY <2>1, <2>2, <2>3, <2>4 DEF Typed, TypeOK
<1>2. \A p \in Settlers : settler[p].pc = "idle" /\ settler[p].outcomes = {} /\ RunInv(p)
  BY IdleIs DEF Init, RunInv, Sound
<1>3. AwaitedInv
  BY DEF Init, AwaitedInv
<1>4. ASSUME NEW u \in Users PROVE PaidInv(u)
  <2>1. Settled(u) = {}
    BY DEF Init, Settled, Of
  <2>2. PICK f : f = Credits(u)
    OBVIOUS
  <2>3. \A p \in Settlers : f[p] = 0
    BY <1>2, <2>2, NoCredit DEF Credits
  <2>4. Sum(f, Settlers) = 0
    BY <2>3, SumOfZeros, SettlementAssumption DEF SettlementAssumption
  <2> QED BY <2>1, <2>2, <2>4, TotalIs DEF Init, PaidInv
<1> QED BY <1>1, <1>2, <1>3, <1>4 DEF IInv

------------------------------------------------------------------------------
(* The theorems.                                                           *)

(* The inductive invariant holds in every state.                           *)
THEOREM Invariance == Spec => []IInv
<1>1. IInv /\ [Next]_vars => IInv'
  <2> SUFFICES ASSUME IInv, [Next]_vars PROVE IInv'
    OBVIOUS
  <2>1. CASE UNCHANGED vars
    <3>1. UNCHANGED << row, settler, mempool, account, clock, charged, paid >>
      BY <2>1 DEF vars
    <3> QED BY <3>1, StepOutside DEF IInv, Typed, TypeOK
  <2>2. CASE Next
    <3>1. ASSUME NEW p \in Settlers, SettlerStep(p) PROVE IInv'
      BY <3>1, StartKeeps, ListKeeps, PreviewKeeps, SendKeeps, EndKeeps, ProcessKeeps DEF SettlerStep
    <3> QED BY <2>2, <3>1, RowsKeep, EndKeeps, WithdrawKeeps, TickKeeps, MineKeeps, RevertKeeps DEF Next
  <2> QED BY <2>1, <2>2
<1> QED BY <1>1, InitSound, PTL DEF Spec

(* Every variable keeps its type: balances never become negative.          *)
THEOREM TypesKept == Spec => []TypeOK
<1>1. IInv => TypeOK
  BY DEF IInv, Typed
<1> QED BY <1>1, Invariance, PTL

(* No user has more written off than it paid, for any number of processes  *)
(* settling at once, with all the faults there are.                        *)
THEOREM WrittenOffWasPaid == Spec => []WrittenOffIsPaid
<1>1. IInv => WrittenOffIsPaid
  <2> SUFFICES ASSUME IInv, NEW u \in Users
               PROVE  Total({r \in Of(u, Requests) : row[r] = "settled"}) <= paid[u]
    BY DEF WrittenOffIsPaid
  <2>1. PaidInv(u) /\ paid[u] \in Nat
    BY DEF IInv, Typed, TypeOK
  <2>2. Total(Settled(u)) \in Nat /\ Sum(Credits(u), Settlers) \in Nat
    BY CreditIs, CreditsAre
  <2>3. Total(Settled(u)) <= paid[u]
    BY <2>1, <2>2 DEF PaidInv
  <2> QED BY <2>3 DEF Settled
<1> QED BY <1>1, Invariance, PTL

==============================================================================

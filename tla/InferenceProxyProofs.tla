------------------------- MODULE InferenceProxyProofs ------------------------
(***************************************************************************)
(* Theorems about InferenceProxy, for all customers, requests, processes,  *)
(* sessions, prices and faults.                                            *)
(***************************************************************************)
EXTENDS InferenceProxy, DataInduction

------------------------------------------------------------------------------
(* Types: what each step of a handler does to its job.                     *)

Only(r) == job' \in [Requests -> Job] /\ \A q \in Requests \ {r} : job'[q] = job[q]

(* A job that has nothing to remember.                                     *)
LEMMA NoJobIs ==
  NoJob \in Job /\ NoJob.pc = "idle" /\ NoJob.next = "check" /\ NoJob.read = None /\ NoJob.cost = 0
<1>1. PICK s \in Sessions : s = CHOOSE x \in Sessions : TRUE
  BY ProxyAssumption DEF ProxyAssumption
<1>2. 0 \in 0 .. MaxCost
  BY ProxyAssumption DEF ProxyAssumption
<1> QED BY <1>1, <1>2 DEF NoJob, Job, PC

(* A handler that forgets what it has read.                                *)
LEMMA ForgetIs ==
  ASSUME TypeOK, NEW r \in Requests, NEW c \in PC, Forget(r, c)
  PROVE  Only(r) /\ job'[r].pc = c /\ job'[r].next = "check" /\ job'[r].read = None
<1>1. job \in [Requests -> Job]
  BY DEF TypeOK
<1>2. PICK j : j = [NoJob EXCEPT !.pc = c]
  OBVIOUS
<1>3. j \in Job /\ j.pc = c /\ j.next = "check" /\ j.read = None
  BY <1>2, NoJobIs DEF Job
<1>4. job' = [job EXCEPT ![r] = j]
  BY <1>2 DEF Forget
<1> QED BY <1>1, <1>3, <1>4 DEF Only

(* A handler that goes on with what it has read.                           *)
LEMMA GotoIs ==
  ASSUME TypeOK, NEW r \in Requests, NEW c \in PC, Goto(r, c)
  PROVE  /\ Only(r) /\ job'[r].pc = c /\ job'[r].next = job[r].next /\ job'[r].read = job[r].read
<1>1. job \in [Requests -> Job] /\ job' = [job EXCEPT ![r].pc = c]
  BY DEF TypeOK, Goto
<1>2. job[r] \in Job
  BY <1>1
<1> QED BY <1>1, <1>2 DEF Only, Job

(* The session is validated.                                               *)
LEMMA ValidateIs ==
  ASSUME TypeOK, NEW r \in Requests, ValidateSession(r)
  PROVE  /\ Only(r) /\ job[r].pc = "idle" /\ job'[r].pc \in {"signer", "ended"}
         /\ job'[r].next = job[r].next /\ job'[r].read = job[r].read
         /\ \E s \in Sessions :
              /\ Valid(s) => job'[r].session = s
              /\ job'[r].pc = IF Valid(s) THEN "signer" ELSE "ended"
              /\ sessionCache' = IF Valid(s) /\ ~ Cached(s)
                                 THEN [sessionCache EXCEPT ![s] = now + SessionTTL] ELSE sessionCache
<1>1. job \in [Requests -> Job] /\ job[r] \in Job
  BY DEF TypeOK
<1>2. PICK s \in Sessions :
        /\ job' = [job EXCEPT ![r].pc = IF Valid(s) THEN "signer" ELSE "ended",
                              ![r].session = IF Valid(s) THEN s ELSE @]
        /\ sessionCache' = IF Valid(s) /\ ~ Cached(s)
                           THEN [sessionCache EXCEPT ![s] = now + SessionTTL] ELSE sessionCache
  BY DEF ValidateSession
<1>3. /\ Only(r) /\ job'[r].pc = (IF Valid(s) THEN "signer" ELSE "ended")
      /\ (Valid(s) => job'[r].session = s)
      /\ job'[r].next = job[r].next /\ job'[r].read = job[r].read
  BY <1>1, <1>2 DEF Only, Job, PC
<1> QED BY <1>2, <1>3 DEF ValidateSession

(* The contract is asked for the customer's account.                       *)
LEMMA SignerIs ==
  ASSUME TypeOK, NEW r \in Requests, CheckSigner(r)
  PROVE  /\ Only(r) /\ job[r].pc = "signer" /\ job'[r].pc \in {"account", "ended"}
         /\ job'[r].next = "check" /\ job'[r].read = None
<1>1. "account" \in PC /\ "ended" \in PC
  BY DEF PC
<1> QED BY <1>1, ForgetIs DEF CheckSigner

(* The account is read from the user table, or from the contract.          *)
LEMMA GetIs ==
  ASSUME TypeOK, NEW r \in Requests, GetOrCreateAccount(r)
  PROVE  /\ Only(r) /\ job[r].pc = "account" /\ (mu' = mu \/ mu' = [mu EXCEPT ![Server] = r])
         /\ \/ /\ copy[UserOf[r]] # None /\ job'[r].pc = job[r].next
               /\ job'[r].next = job[r].next /\ job'[r].read = copy[UserOf[r]]
            \/ job'[r].pc = "creating" /\ job'[r].next = job[r].next /\ job'[r].read = job[r].read
            \/ job'[r].pc = "ended" /\ job'[r].next = "check" /\ job'[r].read = None
<1>1. job \in [Requests -> Job] /\ job[r] \in Job /\ UserOf[r] \in Users
      /\ copy \in [Users -> Balance \cup {None}] /\ "creating" \in PC /\ "ended" \in PC
  BY ProxyAssumption DEF TypeOK, AccountsTypeOK, ProxyAssumption, PC
<1>2. CASE copy[UserOf[r]] # None /\ job' = [job EXCEPT ![r].pc = job[r].next, ![r].read = copy[UserOf[r]]]
  BY <1>1, <1>2 DEF Only, Job, PC, GetOrCreateAccount, Lock
<1>3. CASE Goto(r, "creating")
  BY <1>1, <1>3, GotoIs DEF GetOrCreateAccount, Lock
<1>4. CASE Forget(r, "ended")
  BY <1>1, <1>4, ForgetIs DEF GetOrCreateAccount, Lock
<1> QED BY <1>2, <1>3, <1>4 DEF GetOrCreateAccount

(* The balance is read from the contract, or the handler ends.             *)
LEMMA ReadIs ==
  ASSUME TypeOK, NEW r \in Requests, ReadContract(r)
  PROVE  /\ Only(r) /\ job[r].pc = "creating" /\ (mu' = mu \/ mu' = [mu EXCEPT ![Server] = None])
         /\ \/ job'[r].pc = "inserting" /\ job'[r].next = job[r].next /\ job'[r].read = balance[UserOf[r]]
            \/ job'[r].pc = "ended" /\ job'[r].next = "check" /\ job'[r].read = None
<1>1. job \in [Requests -> Job] /\ job[r] \in Job /\ UserOf[r] \in Users
      /\ balance \in [Users -> Balance] /\ "ended" \in PC
  BY ProxyAssumption DEF TypeOK, AccountsTypeOK, ProxyAssumption, PC
<1>2. CASE job' = [job EXCEPT ![r].pc = "inserting", ![r].read = balance[UserOf[r]]] /\ UNCHANGED mu
  BY <1>1, <1>2 DEF Only, Job, PC, ReadContract
<1>3. CASE Forget(r, "ended")
  BY <1>1, <1>3, ForgetIs DEF ReadContract, Unlock
<1> QED BY <1>2, <1>3 DEF ReadContract

(* The new row holds what was read, or the handler ends.                   *)
LEMMA InsertIs ==
  ASSUME TypeOK, NEW r \in Requests, InsertAccount(r)
  PROVE  /\ Only(r) /\ job[r].pc = "inserting" /\ mu' = [mu EXCEPT ![Server] = None]
         /\ \/ /\ copy' = [copy EXCEPT ![UserOf[r]] = job[r].read] /\ job'[r].pc = job[r].next
               /\ job'[r].next = job[r].next /\ job'[r].read = job[r].read
            \/ copy' = copy /\ job'[r].pc = "ended" /\ job'[r].next = "check" /\ job'[r].read = None
<1>1. "ended" \in PC /\ job[r].next \in PC
  BY DEF TypeOK, Job, PC
<1> QED BY <1>1, GotoIs, ForgetIs DEF InsertAccount, Unlock

(* The balance is checked, reloaded and checked once more.                 *)
LEMMA CheckIs ==
  ASSUME TypeOK, NEW r \in Requests, Check(r)
  PROVE  /\ Only(r) /\ job[r].pc = "check" /\ job'[r].pc = (IF Adequate(r) THEN "create" ELSE "reload")
         /\ job'[r].next = "check" /\ job'[r].read = None
<1>1. PICK c \in PC : c = IF Adequate(r) THEN "create" ELSE "reload"
  BY DEF PC
<1> QED BY <1>1, ForgetIs DEF Check

(* The contract is looked at again.                                        *)
LEMMA ReloadIs ==
  ASSUME TypeOK, NEW r \in Requests, Reload(r)
  PROVE  /\ Only(r) /\ job[r].pc = "reload"
         /\ \/ job'[r].pc = "update" /\ job'[r].next = job[r].next /\ job'[r].read = balance[UserOf[r]]
            \/ job'[r].pc = "ended" /\ job'[r].next = "check" /\ job'[r].read = None
<1>1. job \in [Requests -> Job] /\ job[r] \in Job /\ UserOf[r] \in Users
      /\ balance \in [Users -> Balance] /\ "ended" \in PC
  BY ProxyAssumption DEF TypeOK, AccountsTypeOK, ProxyAssumption, PC
<1>2. CASE job' = [job EXCEPT ![r].pc = "update", ![r].read = balance[UserOf[r]]]
  BY <1>1, <1>2 DEF Only, Job, PC, Reload
<1>3. CASE Forget(r, "ended")
  BY <1>1, <1>3, ForgetIs DEF Reload
<1> QED BY <1>2, <1>3 DEF Reload

(* The row is overwritten with what was read.                              *)
LEMMA UpdateIs ==
  ASSUME TypeOK, NEW r \in Requests, UpdateUserAccount(r)
  PROVE  /\ Only(r) /\ job[r].pc = "update"
         /\ \/ /\ copy' = [copy EXCEPT ![UserOf[r]] = job[r].read] /\ job'[r].pc = "account"
               /\ job'[r].next = "recheck"
            \/ copy' = copy /\ job'[r].pc = "ended" /\ job'[r].next = "check" /\ job'[r].read = None
<1>1. job \in [Requests -> Job] /\ job[r] \in Job /\ "ended" \in PC
  BY DEF TypeOK, PC
<1>2. CASE job' = [job EXCEPT ![r].pc = "account", ![r].next = "recheck"]
           /\ copy' = [copy EXCEPT ![UserOf[r]] = job[r].read]
  BY <1>1, <1>2 DEF Only, Job, PC, UpdateUserAccount
<1>3. CASE Forget(r, "ended") /\ UNCHANGED copy
  BY <1>1, <1>3, ForgetIs DEF UpdateUserAccount
<1> QED BY <1>2, <1>3 DEF UpdateUserAccount

(* The second check admits or refuses the request.                         *)
LEMMA RecheckIs ==
  ASSUME TypeOK, NEW r \in Requests, Recheck(r)
  PROVE  /\ Only(r) /\ job[r].pc = "recheck" /\ job'[r].pc = (IF Adequate(r) THEN "create" ELSE "refused")
         /\ job'[r].next = "check" /\ job'[r].read = None
<1>1. PICK c \in PC : c = IF Adequate(r) THEN "create" ELSE "refused"
  BY DEF PC
<1> QED BY <1>1, ForgetIs DEF Recheck

(* The row is created, and the request forwarded.                          *)
LEMMA CreateIs ==
  ASSUME TypeOK, NEW r \in Requests, CreateRequest(r)
  PROVE  /\ Only(r) /\ job[r].pc = "create"
         /\ \/ rows' = rows \cup {r} /\ job'[r].pc = "forward"
            \/ rows' = rows /\ job'[r].pc = "ended"
<1>1. "ended" \in PC /\ "forward" \in PC
  BY DEF PC
<1> QED BY <1>1, GotoIs, ForgetIs DEF CreateRequest

(* A forwarded request was admitted and stays so, or ends.                 *)
LEMMA ProcessIs ==
  ASSUME TypeOK, NEW r \in Requests, ProcessHTTPRequest(r)
  PROVE  /\ Only(r) /\ job[r].pc = "forward"
         /\ \/ job'[r].pc = "account" /\ job'[r].next = "responding"
            \/ job'[r].pc = "ended" /\ job'[r].next = "check"
<1>1. job \in [Requests -> Job] /\ job[r] \in Job /\ "ended" \in PC
  BY DEF TypeOK, PC
<1>2. CASE job' = [job EXCEPT ![r].pc = "account", ![r].next = "responding"]
  BY <1>1, <1>2 DEF Only, Job, PC, ProcessHTTPRequest
<1>3. CASE Forget(r, "ended")
  BY <1>1, <1>3, ForgetIs DEF ProcessHTTPRequest
<1> QED BY <1>2, <1>3 DEF ProcessHTTPRequest

(* The response is delivered, billed and signed.                           *)
LEMMA ResponseIs ==
  ASSUME TypeOK, NEW r \in Requests, HandleResponse(r)
  PROVE  /\ Only(r) /\ job[r].pc = "responding"
         /\ \/ delivered' = [delivered EXCEPT ![r] = "part"] /\ job'[r].pc = "ended"
            \/ /\ \E d \in {"lines", "full"} : delivered' = [delivered EXCEPT ![r] = d]
               /\ job'[r].pc \in {"ended", "signing", "billing"}
<1>1. job \in [Requests -> Job] /\ "ended" \in PC /\ "signing" \in PC
  BY DEF TypeOK, PC
<1>2. ASSUME NEW c \in 0 .. MaxCost, job' = [job EXCEPT ![r] = [NoJob EXCEPT !.pc = "billing", !.cost = c]]
      PROVE  Only(r) /\ job'[r].pc = "billing"
  <2>1. PICK j : j = [NoJob EXCEPT !.pc = "billing", !.cost = c]
    OBVIOUS
  <2>2. j \in Job /\ j.pc = "billing"
    BY <2>1, NoJobIs DEF Job, PC
  <2>3. job' = [job EXCEPT ![r] = j]
    BY <1>2, <2>1
  <2> QED BY <1>1, <2>2, <2>3 DEF Only
<1> QED BY <1>1, <1>2, ForgetIs DEF HandleResponse

(* A fee is written for a row that is there, or nothing is.                *)
LEMMA FeesAre ==
  ASSUME TypeOK, NEW r \in Requests, UpdateFees(r)
  PROVE  /\ Only(r) /\ job[r].pc = "billing" /\ job'[r].pc \in {"signing", "ended"}
         /\ \/ /\ r \in rows /\ fee' = [fee EXCEPT ![r] = job[r].cost] /\ billed' = billed \cup {r}
            \/ fee' = fee /\ billed' = billed
<1>1. "ended" \in PC /\ "signing" \in PC
  BY DEF PC
<1> QED BY <1>1, ForgetIs DEF UpdateFees

(* A signature may be stored; the request ends.                            *)
LEMMA SignIs ==
  ASSUME TypeOK, NEW r \in Requests, SignChat(r)
  PROVE  /\ Only(r) /\ job[r].pc = "signing" /\ job'[r].pc = "ended"
         /\ signed' \in {signed, signed \cup {r}}
<1>1. "ended" \in PC
  BY DEF PC
<1> QED BY <1>1, ForgetIs DEF SignChat

------------------------------------------------------------------------------
(* What a synchronization does to the lists and to the copies.             *)

SyncPc == {"idle", "listing", "listed", "creating", "updating", "deleting"}

(* A list grows by what the contract says; copies are taken from the list. *)
Listed(p) ==
  \A i \in DOMAIN sync'[p].list :
    \/ i \in DOMAIN sync[p].list /\ sync'[p].list[i] = sync[p].list[i]
    \/ sync'[p].list[i].balance = balance[sync'[p].list[i].user]
Copied(p) ==
  \A u \in Users :
    \/ copy'[u] \in {copy[u], None}
    \/ \E i \in DOMAIN sync[p].list : sync[p].list[i].user = u /\ copy'[u] = sync[p].list[i].balance

(* A run of p that moves to the record s.                                  *)
LEMMA SyncMoves ==
  ASSUME TypeOK, NEW p \in Processes, NEW s \in Sync, Move(p, s), UNCHANGED << balance, ledger >>,
         copy' \in [Users -> Balance \cup {None}]
  PROVE  /\ AccountsTypeOK' /\ sync'[p] = s /\ \A q \in Processes \ {p} : sync'[q] = sync[q]
BY DEF TypeOK, AccountsTypeOK, Move

(* A run that has not begun.                                               *)
LEMMA NoSyncIs == NoSync \in Sync /\ NoSync.list = << >> /\ NoSync.pc = "idle"
BY DEF NoSync, Sync

(* Runs with some of their fields changed.                                 *)
SyncAt(s, c) == [s EXCEPT !.pc = c]
SyncNext(s, n) == [s EXCEPT !.next = n]
SyncOlds(s, c, U) == [s EXCEPT !.pc = c, !.olds = U]
SyncList(s, l, n, c) == [s EXCEPT !.list = l, !.next = n, !.pc = c]

(* A run at another step.                                                  *)
LEMMA SyncAtIs ==
  ASSUME NEW s \in Sync, NEW c \in SyncPc
  PROVE  SyncAt(s, c) \in Sync /\ SyncAt(s, c).list = s.list
BY DEF Sync, SyncAt, SyncPc

(* A run at another entry.                                                 *)
LEMMA SyncNextIs ==
  ASSUME NEW s \in Sync, NEW n \in Nat
  PROVE  SyncNext(s, n) \in Sync /\ SyncNext(s, n).list = s.list
BY DEF Sync, SyncNext

(* A run that has read the rows there are.                                 *)
LEMMA SyncOldsIs ==
  ASSUME NEW s \in Sync, NEW c \in SyncPc, NEW U \in SUBSET Users
  PROVE  SyncOlds(s, c, U) \in Sync /\ SyncOlds(s, c, U).list = s.list
BY DEF Sync, SyncOlds, SyncPc

(* A run that has read a page.                                             *)
LEMMA SyncListIs ==
  ASSUME NEW s \in Sync, NEW l \in Seq(Entry), NEW n \in Nat, NEW c \in SyncPc
  PROVE  SyncList(s, l, n, c) \in Sync /\ SyncList(s, l, n, c).list = l
BY DEF Sync, SyncList, SyncPc

(* The list of a run.                                                      *)
LEMMA ListIs ==
  ASSUME TypeOK, NEW p \in Processes
  PROVE  /\ sync[p] \in Sync /\ sync[p].list \in Seq(Entry) /\ sync[p].next \in Nat
         /\ sync[p].olds \in SUBSET Users /\ Len(sync[p].list) \in Nat
         /\ DOMAIN sync[p].list = 1 .. Len(sync[p].list)
         /\ \A i \in DOMAIN sync[p].list :
              sync[p].list[i].user \in Users /\ sync[p].list[i].balance \in Balance
<1>1. sync[p] \in Sync
  BY DEF TypeOK, AccountsTypeOK
<1>2. sync[p].list \in Seq(Entry) /\ sync[p].next \in Nat /\ sync[p].olds \in SUBSET Users
  BY <1>1 DEF Sync
<1>3. \A i \in DOMAIN sync[p].list : sync[p].list[i] \in Entry
  BY <1>2
<1> QED BY <1>1, <1>2, <1>3 DEF Entry

(* A page of accounts is read.                                             *)
LEMMA ListPageIs ==
  ASSUME TypeOK, NEW p \in Processes, ListPage(p)
  PROVE  /\ AccountsTypeOK' /\ Listed(p) /\ \A q \in Processes \ {p} : sync'[q] = sync[q]
<1> DEFINE s == sync[p]
           last == IF s.next + PageSize < Len(ledger) THEN s.next + PageSize ELSE Len(ledger)
           page == SubSeq(ledger, s.next + 1, last)
           read == [i \in DOMAIN page |-> [user |-> page[i], balance |-> balance[page[i]]]]
<1>1. /\ s \in Sync /\ s.list \in Seq(Entry) /\ s.next \in Nat /\ PageSize \in Nat
      /\ ledger \in Seq(Users) /\ balance \in [Users -> Balance] /\ Len(ledger) \in Nat
  BY ListIs, AccountsAssumption DEF TypeOK, AccountsTypeOK, AccountsAssumption
<1>2. page \in Seq(Users)
  <2>1. \A a, b \in Nat : a >= 1 /\ b <= Len(ledger) => SubSeq(ledger, a, b) \in Seq(Users)
    BY <1>1
  <2>2. s.next + 1 \in Nat /\ s.next + 1 >= 1 /\ last \in Nat /\ last <= Len(ledger)
    BY <1>1
  <2> HIDE DEF last
  <2> QED BY <2>1, <2>2
<1> HIDE DEF page
<1>3. \A i \in DOMAIN page : page[i] \in Users
  BY <1>2
<1>4. read \in Seq(Entry) /\ \A i \in DOMAIN read : read[i].balance = balance[read[i].user]
  <2>1. \A i \in DOMAIN page : [user |-> page[i], balance |-> balance[page[i]]] \in Entry
    BY <1>1, <1>3 DEF Entry
  <2>2. DOMAIN page = 1 .. Len(page) /\ Len(page) \in Nat
    BY <1>2
  <2>3. read \in [1 .. Len(page) -> Entry]
    BY <2>1, <2>2
  <2>4. read \in Seq(Entry)
    BY <2>2, <2>3
  <2> QED BY <2>4
<1>5. PICK m \in Seq(Entry) : m = read
  BY <1>4
<1>6. PICK l : l = s.list \o m
  OBVIOUS
<1>7. /\ l \in Seq(Entry)
      /\ \A i \in DOMAIN l : (i \in DOMAIN s.list /\ l[i] = s.list[i]) \/ l[i].balance = balance[l[i].user]
  <2>1. l \in Seq(Entry) /\ Len(l) = Len(s.list) + Len(m)
    BY <1>1, <1>6
  <2>2. ASSUME NEW i \in DOMAIN l
        PROVE  (i \in DOMAIN s.list /\ l[i] = s.list[i]) \/ l[i].balance = balance[l[i].user]
    <3>1. CASE i <= Len(s.list)
      BY <1>1, <1>6, <2>1, <3>1
    <3>2. CASE ~ i <= Len(s.list)
      <4>1. i - Len(s.list) \in DOMAIN m /\ l[i] = m[i - Len(s.list)]
        BY <1>1, <1>6, <2>1, <3>2
      <4> QED BY <1>4, <1>5, <4>1
    <3> QED BY <3>1, <3>2
  <2> QED BY <2>1, <2>2
<1>8. PICK n \in Nat : n = IF s.next + PageSize < Len(ledger) THEN s.next + PageSize ELSE 1
  BY <1>1
<1>9. PICK c \in SyncPc : c = IF s.next + PageSize < Len(ledger) THEN "listing" ELSE "listed"
  BY DEF SyncPc
<1>10. PICK t : t = SyncList(s, l, n, c)
  OBVIOUS
<1>11. t \in Sync /\ t.list = l
  <2> HIDE DEF s, read
  <2>1. s \in Sync /\ l \in Seq(Entry)
    BY <1>1, <1>7
  <2>2. SyncList(s, l, n, c) \in Sync /\ SyncList(s, l, n, c).list = l
    BY <2>1, SyncListIs
  <2> QED BY <1>10, <2>2
<1>12. Move(p, t) /\ UNCHANGED << balance, ledger, copy >>
  BY <1>5, <1>6, <1>8, <1>9, <1>10 DEF ListPage, SyncList, page
<1>13. copy' \in [Users -> Balance \cup {None}]
  BY <1>12 DEF TypeOK, AccountsTypeOK
<1>14. AccountsTypeOK' /\ sync'[p] = t /\ \A q \in Processes \ {p} : sync'[q] = sync[q]
  BY <1>11, <1>12, <1>13, SyncMoves
<1> QED BY <1>7, <1>11, <1>14 DEF Listed

(* A run that gives up or is over.                                         *)
LEMMA AbortIs ==
  ASSUME TypeOK, NEW p \in Processes, Abort(p), UNCHANGED << balance, ledger >>,
         copy' \in [Users -> Balance \cup {None}]
  PROVE  /\ AccountsTypeOK' /\ Listed(p) /\ \A q \in Processes \ {p} : sync'[q] = sync[q]
         /\ mu' \in [Processes -> Requests \cup {"sync", None}]
<1>1. PICK s \in Sync : s = NoSync /\ s.list = << >>
  BY NoSyncIs
<1>2. Move(p, s) /\ mu' = [mu EXCEPT ![p] = None]
  BY <1>1 DEF Abort, Unlock
<1>3. AccountsTypeOK' /\ sync'[p] = s /\ \A q \in Processes \ {p} : sync'[q] = sync[q]
  BY <1>2, SyncMoves
<1>4. mu' \in [Processes -> Requests \cup {"sync", None}]
  BY <1>2 DEF TypeOK
<1>5. DOMAIN s.list = {}
  BY <1>1
<1> QED BY <1>3, <1>4, <1>5 DEF Listed

(* The other steps of a synchronization.                                   *)
LEMMA SyncStepIs ==
  ASSUME TypeOK, NEW p \in Processes, SyncStep(p)
  PROVE  /\ AccountsTypeOK' /\ Listed(p) /\ Copied(p) /\ UNCHANGED << balance, ledger >>
         /\ \A q \in Processes \ {p} : sync'[q] = sync[q]
         /\ mu' \in [Processes -> Requests \cup {"sync", None}]
         /\ sync'[p].pc \in SyncPc
<1> DEFINE s == sync[p]
<1>1. /\ s \in Sync /\ s.list \in Seq(Entry) /\ s.next \in Nat /\ DOMAIN s.list = 1 .. Len(s.list)
      /\ Len(s.list) \in Nat
      /\ copy \in [Users -> Balance \cup {None}] /\ mu \in [Processes -> Requests \cup {"sync", None}]
      /\ \A i \in DOMAIN s.list : s.list[i].user \in Users /\ s.list[i].balance \in Balance
      /\ ToUpdate(s) \subseteq DOMAIN s.list /\ ToAdd(s) \subseteq DOMAIN s.list
      /\ sync[p].list = s.list
  <2>1. ToUpdate(s) \subseteq DOMAIN s.list /\ ToAdd(s) \subseteq DOMAIN s.list
    BY DEF ToUpdate, ToAdd
  <2> QED BY <2>1, ListIs DEF TypeOK, AccountsTypeOK
<1>2. AccountsTypeOK' => sync'[p].pc \in SyncPc
  BY DEF AccountsTypeOK, Sync, SyncPc
<1>3. copy' = copy => Copied(p) /\ copy' \in [Users -> Balance \cup {None}]
  BY <1>1 DEF Copied
<1>4. CASE ListPage(p)
  BY <1>1, <1>2, <1>3, <1>4, ListPageIs DEF ListPage
<1>5. CASE ListFails(p)
  <2>1. PICK t \in Sync : t = NoSync /\ t.list = << >>
    BY NoSyncIs
  <2>2. Move(p, t) /\ UNCHANGED << balance, ledger, copy, mu >>
    BY <1>5, <2>1 DEF ListFails
  <2>3. AccountsTypeOK' /\ sync'[p] = t /\ \A q \in Processes \ {p} : sync'[q] = sync[q]
    BY <1>3, <2>2, SyncMoves
  <2>4. Listed(p)
    BY <2>1, <2>3 DEF Listed
  <2> QED BY <1>1, <1>2, <1>3, <2>2, <2>3, <2>4
<1>6. CASE ListOlds(p)
  <2>1. PICK U \in SUBSET Users : U = {u \in Users : copy[u] # None}
    OBVIOUS
  <2>2. "creating" \in SyncPc
    BY DEF SyncPc
  <2>3. PICK t \in Sync : t = SyncOlds(s, "creating", U) /\ t.list = s.list
    <3> HIDE DEF s
    <3> QED BY <1>1, <2>2, SyncOldsIs
  <2>4. Move(p, t) /\ UNCHANGED << balance, ledger, copy >> /\ mu' = [mu EXCEPT ![p] = "sync"]
    BY <1>6, <2>1, <2>3 DEF ListOlds, SyncOlds, Lock
  <2>5. AccountsTypeOK' /\ sync'[p] = t /\ \A q \in Processes \ {p} : sync'[q] = sync[q]
    BY <1>3, <2>4, SyncMoves
  <2>6. Listed(p)
    BY <2>3, <2>5 DEF Listed
  <2> QED BY <1>1, <1>2, <1>3, <2>4, <2>5, <2>6
<1>7. CASE CreateUserAccounts(p)
  <2> DEFINE added(u) == {i \in ToAdd(s) : s.list[i].user = u}
             new(u) == CHOOSE i \in added(u) : TRUE
  <2>1. "updating" \in SyncPc
    BY DEF SyncPc
  <2>2. PICK t \in Sync : t = SyncAt(s, "updating") /\ t.list = s.list
    <3> HIDE DEF s
    <3> QED BY <1>1, <2>1, SyncAtIs
  <2>3. /\ Move(p, t) /\ UNCHANGED << balance, ledger, mu >>
        /\ copy' = [u \in Users |-> IF added(u) = {} THEN copy[u] ELSE s.list[new(u)].balance]
    BY <1>7, <2>2 DEF CreateUserAccounts, SyncAt
  <2>4. \A u \in Users : added(u) # {} => new(u) \in DOMAIN s.list /\ s.list[new(u)].user = u
    BY <1>1
  <2> HIDE DEF new
  <2>5. copy' \in [Users -> Balance \cup {None}] /\ Copied(p)
    <3>1. \A u \in Users : \/ copy'[u] = copy[u]
                           \/ new(u) \in DOMAIN s.list /\ s.list[new(u)].user = u /\ copy'[u] = s.list[new(u)].balance
      BY <2>3, <2>4
    <3>2. \A u \in Users : copy'[u] \in Balance \cup {None}
      BY <1>1, <3>1
    <3> HIDE DEF added
    <3>3. copy' \in [Users -> Balance \cup {None}]
      BY <2>3, <3>2
    <3>4. Copied(p)
      BY <3>1 DEF Copied
    <3> QED BY <3>3, <3>4
  <2>6. AccountsTypeOK' /\ sync'[p] = t /\ \A q \in Processes \ {p} : sync'[q] = sync[q]
    BY <2>3, <2>5, SyncMoves
  <2>7. Listed(p)
    BY <2>2, <2>6 DEF Listed
  <2> QED BY <1>1, <1>2, <2>3, <2>5, <2>6, <2>7
<1>8. CASE CreateFails(p)
  BY <1>2, <1>3, <1>8, AbortIs DEF CreateFails
<1>9. CASE UpdateNext(p)
  <2> DEFINE left == {i \in ToUpdate(s) : i >= s.next}
  <2>1. PICK i : i = CHOOSE k \in left : \A l \in left : k <= l
    OBVIOUS
  <2>2. i \in left
    <3>1. left \in SUBSET Nat /\ left # {}
      <4>1. \A k \in left : k \in Nat
        BY <1>1
      <4>2. left # {}
        BY <1>9 DEF UpdateNext
      <4> QED BY <4>1, <4>2
    <3>2. \E k \in left : \A l \in left : k <= l
      <4> HIDE DEF left
      <4> QED BY <3>1, LeastNat
    <3> HIDE DEF left
    <3> QED BY <2>1, <3>2
  <2>3. i \in DOMAIN s.list /\ i + 1 \in Nat /\ s.list[i].user \in Users /\ s.list[i].balance \in Balance
    BY <1>1, <2>2
  <2>4. PICK t \in Sync : t = SyncNext(s, i + 1) /\ t.list = s.list
    <3> HIDE DEF s
    <3> QED BY <1>1, <2>3, SyncNextIs
  <2>5. /\ Move(p, t) /\ UNCHANGED << balance, ledger, mu >>
        /\ copy' = [copy EXCEPT ![s.list[i].user] = IF @ = None THEN None ELSE s.list[i].balance]
    BY <1>9, <2>1, <2>4, SMTT(20) DEF UpdateNext, SyncNext
  <2>6. copy' \in [Users -> Balance \cup {None}]
    BY <1>1, <2>3, <2>5
  <2>7. Copied(p)
    BY <1>1, <2>3, <2>5 DEF Copied
  <2>8. AccountsTypeOK' /\ sync'[p] = t /\ \A q \in Processes \ {p} : sync'[q] = sync[q]
    BY <2>5, <2>6, SyncMoves
  <2>9. Listed(p)
    BY <2>4, <2>8 DEF Listed
  <2> QED BY <1>1, <1>2, <2>5, <2>7, <2>8, <2>9
<1>10. CASE UpdateFails(p)
  BY <1>2, <1>3, <1>10, AbortIs DEF UpdateFails
<1>11. CASE DeleteUserAccounts(p)
  <2>1. /\ Abort(p) /\ UNCHANGED << balance, ledger >>
        /\ copy' = [u \in Users |-> IF u \in ToRemove(s) /\ copy[u] # None THEN None ELSE copy[u]]
    <3>1. \A u \in Users : u \in {v \in ToRemove(s) : copy[v] # None} <=> u \in ToRemove(s) /\ copy[u] # None
      OBVIOUS
    <3> QED BY <1>11, <3>1 DEF DeleteUserAccounts
  <2>2. \A u \in Users : copy'[u] \in {copy[u], None}
    BY <2>1
  <2>3. copy' \in [Users -> Balance \cup {None}]
    BY <1>1, <2>1, <2>2
  <2>4. Copied(p)
    BY <2>2 DEF Copied
  <2> QED BY <1>2, <2>1, <2>3, <2>4, AbortIs
<1> QED BY <1>4, <1>5, <1>6, <1>7, <1>8, <1>9, <1>10, <1>11 DEF SyncStep

------------------------------------------------------------------------------
(* Types, finite tables and a balance where one is used.                   *)

Holding == {"check", "recheck", "inserting", "update"}
Active == {r \in Requests : job[r].pc # "idle"}
Basic ==
  /\ TypeOK
  /\ IsFiniteSet(rows) /\ IsFiniteSet(Active)
  /\ \A r \in Requests : job[r].pc \in Holding => job[r].read \in Balance

(* The part of the types that handlers do not touch in most steps.         *)
Rest == UNCHANGED << now, sessionCache, fee, delivered, billed, signed >>

(* A step of one handler.                                                  *)
LEMMA HandlerKeeps ==
  ASSUME Basic, NEW r \in Requests, Only(r), rows' \subseteq rows \cup {r},
         job'[r].pc \in Holding => job'[r].read \in Balance
  PROVE  /\ IsFiniteSet(rows') /\ IsFiniteSet(Active') /\ job' \in [Requests -> Job]
         /\ rows' \subseteq Requests
         /\ \A q \in Requests : job'[q].pc \in Holding => job'[q].read \in Balance
<1>1. IsFiniteSet(rows \cup {r}) /\ IsFiniteSet(Active \cup {r})
  BY FS_AddElement DEF Basic
<1>2. Active' \subseteq Active \cup {r}
  BY DEF Only, Active
<1>3. IsFiniteSet(rows') /\ IsFiniteSet(Active')
  BY <1>1, <1>2, FS_Subset
<1> QED BY <1>3 DEF Basic, TypeOK, Only

(* A step of one handler that leaves the rest alone.                       *)
LEMMA HandlerStays ==
  ASSUME Basic, NEW r \in Requests, Only(r), rows' \subseteq rows \cup {r}, Rest,
         job'[r].pc \in Holding => job'[r].read \in Balance,
         UNCHANGED << balance, ledger, sync >>, copy' \in [Users -> Balance \cup {None}],
         mu' \in [Processes -> Requests \cup {"sync", None}]
  PROVE  Basic'
<1>1. /\ IsFiniteSet(rows') /\ IsFiniteSet(Active') /\ job' \in [Requests -> Job]
      /\ rows' \subseteq Requests
      /\ \A q \in Requests : job'[q].pc \in Holding => job'[q].read \in Balance
  BY HandlerKeeps
<1>2. AccountsTypeOK'
  BY DEF Basic, TypeOK, AccountsTypeOK
<1> QED BY <1>1, <1>2 DEF Basic, TypeOK, Rest

(* Every step of a handler.                                                *)
LEMMA HandlerTyped ==
  ASSUME Basic, NEW r \in Requests, ValidateSession(r) \/ RequestStep(r)
  PROVE  Basic'
<1> USE DEF Holding
<1>1. TypeOK
  BY DEF Basic
<1>2. /\ job \in [Requests -> Job] /\ job[r] \in Job /\ UserOf[r] \in Users /\ balance \in [Users -> Balance]
      /\ copy \in [Users -> Balance \cup {None}] /\ mu \in [Processes -> Requests \cup {"sync", None}]
      /\ (job[r].pc \in Holding => job[r].read \in Balance)
      /\ Server \in Processes /\ rows \subseteq Requests /\ fee \in [Requests -> 0 .. MaxCost]
      /\ delivered \in [Requests -> {"no", "part", "lines", "full"}]
      /\ billed \subseteq Requests /\ signed \subseteq Requests
      /\ job[r].cost \in 0 .. MaxCost
  BY ProxyAssumption DEF Basic, TypeOK, AccountsTypeOK, ProxyAssumption, Job
<1>3. AccountsTypeOK /\ (UNCHANGED accountVars => AccountsTypeOK' /\ UNCHANGED mu)
  BY <1>1 DEF TypeOK, AccountsTypeOK, accountVars
<1>4. CASE ValidateSession(r)
  <2>1. /\ Only(r) /\ job'[r].pc \in {"signer", "ended"}
        /\ UNCHANGED << accountVars, now, rows, fee, delivered, billed, signed >>
        /\ sessionCache' \in [Sessions -> 0 .. MaxTime + SessionTTL]
    <3>1. now + SessionTTL \in 0 .. MaxTime + SessionTTL
      BY <1>1, ProxyAssumption DEF TypeOK, ProxyAssumption
    <3>2. Only(r) /\ job'[r].pc \in {"signer", "ended"}
          /\ \E s \in Sessions :
               sessionCache' = IF Valid(s) /\ ~ Cached(s)
                               THEN [sessionCache EXCEPT ![s] = now + SessionTTL] ELSE sessionCache
      BY <1>1, <1>4, ValidateIs
    <3>3. sessionCache \in [Sessions -> 0 .. MaxTime + SessionTTL]
      BY <1>1 DEF TypeOK
    <3>4. sessionCache' \in [Sessions -> 0 .. MaxTime + SessionTTL]
      BY <3>1, <3>2, <3>3
    <3> QED BY <1>4, <3>2, <3>4 DEF ValidateSession
  <2> QED BY <1>1, <1>3, <2>1, HandlerKeeps DEF Basic, TypeOK
<1>5. CASE CheckSigner(r)
  BY <1>1, <1>2, <1>5, SignerIs, HandlerStays DEF CheckSigner, accountVars, sessionVars, Rest
<1>6. CASE GetOrCreateAccount(r)
  <2>1. Only(r) /\ (job'[r].pc \in Holding => job'[r].read \in Balance)
        /\ mu' \in [Processes -> Requests \cup {"sync", None}]
    BY <1>1, <1>2, <1>6, GetIs DEF Job
  <2> QED BY <1>2, <1>6, <2>1, HandlerStays DEF GetOrCreateAccount, sessionVars, Rest
<1>7. CASE ReadContract(r)
  <2>1. Only(r) /\ (job'[r].pc \in Holding => job'[r].read \in Balance)
        /\ mu' \in [Processes -> Requests \cup {"sync", None}]
    BY <1>1, <1>2, <1>7, ReadIs
  <2> QED BY <1>2, <1>7, <2>1, HandlerStays DEF ReadContract, sessionVars, Rest
<1>8. CASE InsertAccount(r)
  <2>1. Only(r) /\ (job'[r].pc \in Holding => job'[r].read \in Balance)
        /\ mu' \in [Processes -> Requests \cup {"sync", None}]
        /\ copy' \in [Users -> Balance \cup {None}]
    BY <1>1, <1>2, <1>8, InsertIs
  <2> QED BY <1>2, <1>8, <2>1, HandlerStays DEF InsertAccount, sessionVars, Rest
<1>9. CASE Check(r)
  <2>1. Only(r) /\ job'[r].pc \notin Holding
    BY <1>1, <1>9, CheckIs
  <2>2. /\ UNCHANGED << balance, ledger, sync, rows, copy, mu >> /\ Rest
    BY <1>9 DEF Check, accountVars, sessionVars, Rest
  <2> QED BY <1>2, <2>1, <2>2, HandlerStays
<1>10. CASE Reload(r)
  <2>1. Only(r) /\ (job'[r].pc \in Holding => job'[r].read \in Balance)
    BY <1>1, <1>2, <1>10, ReloadIs
  <2>2. /\ UNCHANGED << balance, ledger, sync, rows, copy, mu >> /\ Rest
    BY <1>10 DEF Reload, accountVars, sessionVars, Rest
  <2> QED BY <1>2, <2>1, <2>2, HandlerStays
<1>11. CASE UpdateUserAccount(r)
  <2>1. Only(r) /\ (job'[r].pc \in Holding => job'[r].read \in Balance)
        /\ copy' \in [Users -> Balance \cup {None}]
    BY <1>1, <1>2, <1>11, UpdateIs
  <2> QED BY <1>2, <1>11, <2>1, HandlerStays DEF UpdateUserAccount, sessionVars, Rest
<1>12. CASE Recheck(r)
  BY <1>1, <1>2, <1>12, RecheckIs, HandlerStays DEF Recheck, accountVars, sessionVars, Rest
<1>13. CASE CreateRequest(r)
  BY <1>1, <1>2, <1>13, CreateIs, HandlerStays DEF CreateRequest, accountVars, sessionVars, Rest
<1>14. CASE ProcessHTTPRequest(r)
  BY <1>1, <1>2, <1>14, ProcessIs, HandlerStays DEF ProcessHTTPRequest, accountVars, sessionVars, Rest
<1>15. CASE HandleResponse(r)
  <2>1. /\ Only(r) /\ job'[r].pc \notin Holding
        /\ delivered' \in [Requests -> {"no", "part", "lines", "full"}]
    BY <1>1, <1>2, <1>15, ResponseIs
  <2>2. UNCHANGED << accountVars, now, sessionCache, rows, fee, billed, signed >>
    BY <1>15 DEF HandleResponse, sessionVars
  <2> QED BY <1>1, <1>3, <2>1, <2>2, HandlerKeeps DEF Basic, TypeOK
<1>16. CASE UpdateFees(r)
  <2>1. /\ Only(r) /\ job'[r].pc \notin Holding
        /\ fee' \in [Requests -> 0 .. MaxCost] /\ billed' \subseteq Requests
    BY <1>1, <1>2, <1>16, FeesAre
  <2>2. UNCHANGED << accountVars, now, sessionCache, rows, delivered, signed >>
    BY <1>16 DEF UpdateFees, sessionVars
  <2> QED BY <1>1, <1>3, <2>1, <2>2, HandlerKeeps DEF Basic, TypeOK
<1>17. CASE SignChat(r)
  <2>1. /\ Only(r) /\ job'[r].pc \notin Holding /\ signed' \subseteq Requests
    BY <1>1, <1>2, <1>17, SignIs
  <2>2. UNCHANGED << accountVars, now, sessionCache, rows, fee, delivered, billed >>
    BY <1>17 DEF SignChat, sessionVars
  <2> QED BY <1>1, <1>3, <2>1, <2>2, HandlerKeeps DEF Basic, TypeOK
<1> QED
  BY <1>4, <1>5, <1>6, <1>7, <1>8, <1>9, <1>10, <1>11, <1>12, <1>13, <1>14, <1>15, <1>16, <1>17 DEF RequestStep, BrokerStep, ModelStep

(* Steps around the handlers leave their jobs alone.                       *)
LEMMA AroundKeeps ==
  ASSUME Basic, job' = job, rows' \subseteq rows
  PROVE  /\ IsFiniteSet(rows') /\ IsFiniteSet(Active') /\ rows' \subseteq Requests
         /\ \A r \in Requests : job'[r].pc \in Holding => job'[r].read \in Balance
BY FS_Subset DEF Basic, TypeOK, Active

(* What is unpaid is a sum.                                                *)
LEMMA SumIsFold ==
  ASSUME NEW S
  PROVE  MapThenSumSet(LAMBDA r : fee[r], S) = Sum(fee, S)
BY DEF Sum, SumFunctionOnSet, FoldFunctionOnSet, MapThenFoldSet, MapThenSumSet

(* A settlement takes the sum of the fees of the rows it deletes.          *)
LEMMA SettleIs ==
  ASSUME Basic, NEW u \in Users, SettleFees(u)
  PROVE  \E S \in SUBSET rows :
           /\ IsFiniteSet(S) /\ (\A r \in S : UserOf[r] = u /\ fee[r] > 0)
           /\ Sum(fee, S) \in Nat /\ Sum(fee, S) <= balance[u]
           /\ balance' = [balance EXCEPT ![u] = @ - Sum(fee, S)]
           /\ rows' = rows \ S
           /\ UNCHANGED << ledger, copy, mu, sync, now, sessionCache, job, fee, delivered, billed, signed >>
<1>1. PICK S \in SUBSET {r \in rows \cap Of(u) : fee[r] > 0} :
        /\ MapThenSumSet(LAMBDA r : fee[r], S) <= balance[u]
        /\ balance' = [balance EXCEPT ![u] = @ - MapThenSumSet(LAMBDA r : fee[r], S)]
        /\ rows' = rows \ S
        /\ UNCHANGED << ledger, copy, mu, sync, now, sessionCache, job, fee, delivered, billed, signed >>
  BY DEF SettleFees, sessionVars
<1>2. IsFiniteSet(S) /\ S \in SUBSET rows /\ \A r \in S : UserOf[r] = u /\ fee[r] > 0 /\ fee[r] \in Nat
  <2>1. S \in SUBSET rows /\ rows \subseteq Requests /\ fee \in [Requests -> 0 .. MaxCost]
    BY <1>1 DEF Basic, TypeOK
  <2> QED BY <1>1, <2>1, FS_Subset DEF Basic, Of
<1>3. MapThenSumSet(LAMBDA r : fee[r], S) = Sum(fee, S)
  BY SumIsFold
<1>4. Sum(fee, S) \in Nat
  BY <1>2, SumTyped
<1> QED BY <1>1, <1>2, <1>3, <1>4

(* The steps of the contract keep the types: no balance falls below zero.  *)
LEMMA ContractTyped ==
  ASSUME Basic, ContractStep
  PROVE  Basic'
<1>1. /\ TypeOK /\ balance \in [Users -> Balance] /\ ledger \in Seq(Users)
      /\ copy \in [Users -> Balance \cup {None}] /\ sync \in [Processes -> Sync]
      /\ mu \in [Processes -> Requests \cup {"sync", None}] /\ MaxBalance \in Nat /\ 0 \in Balance
  BY AccountsAssumption DEF Basic, TypeOK, AccountsTypeOK, AccountsAssumption, Balance
<1>2. ASSUME balance' \in [Users -> Balance], ledger' \in Seq(Users), rows' \subseteq rows,
             UNCHANGED << copy, mu, sync, now, sessionCache, job, fee, delivered, billed, signed >>
      PROVE  Basic'
  <2>1. AccountsTypeOK'
    BY <1>1, <1>2 DEF AccountsTypeOK
  <2> QED BY <1>1, <1>2, <2>1, AroundKeeps DEF Basic, TypeOK
<1>3. ASSUME NEW u \in Users, SettleFees(u) PROVE Basic'
  <2>1. PICK S \in SUBSET rows :
          /\ Sum(fee, S) \in Nat /\ Sum(fee, S) <= balance[u]
          /\ balance' = [balance EXCEPT ![u] = @ - Sum(fee, S)]
          /\ rows' = rows \ S
          /\ UNCHANGED << ledger, copy, mu, sync, now, sessionCache, job, fee, delivered, billed, signed >>
    BY <1>3, SettleIs
  <2>2. balance[u] - Sum(fee, S) \in Balance
    BY <1>1, <2>1 DEF Balance
  <2> QED BY <1>1, <1>2, <2>1, <2>2
<1>4. ASSUME NEW u \in Users, OpenAccount(u) \/ CloseAccount(u) \/ ChangeBalance(u),
             UNCHANGED << sessionVars, requestVars >>
      PROVE  Basic'
  <2>1. UNCHANGED << copy, mu, sync, now, sessionCache, job, rows, fee, delivered, billed, signed >>
    BY <1>4 DEF OpenAccount, CloseAccount, ChangeBalance, sessionVars, requestVars
  <2>2. balance' \in [Users -> Balance]
    BY <1>1, <1>4 DEF OpenAccount, CloseAccount, ChangeBalance
  <2>3. ledger' \in Seq(Users)
    <3>1. CASE CloseAccount(u)
      <4>1. PICK n : n = Len(ledger)
        OBVIOUS
      <4>2. /\ ledger' = [i \in 1 .. n - 1 |-> IF ledger[i] = u THEN ledger[n] ELSE ledger[i]]
            /\ Opened(u)
        BY <3>1, <4>1 DEF CloseAccount
      <4>3. n \in Nat /\ n > 0 /\ DOMAIN ledger = 1 .. n
        BY <1>1, <4>1, <4>2 DEF Opened
      <4>4. \A i \in 1 .. n : ledger[i] \in Users
        BY <1>1, <4>3
      <4>5. n - 1 \in Nat /\ ledger' \in [1 .. n - 1 -> Users]
        BY <4>2, <4>3, <4>4
      <4> QED BY <4>5
    <3>2. CASE OpenAccount(u) \/ ChangeBalance(u)
      BY <1>1, <3>2 DEF OpenAccount, ChangeBalance
    <3> QED BY <1>4, <3>1, <3>2
  <2> QED BY <1>2, <2>1, <2>2, <2>3
<1> QED BY <1>3, <1>4 DEF ContractStep

(* A synchronization begins or goes on.                                    *)
LEMMA AccountIs ==
  ASSUME TypeOK, AccountStep
  PROVE  /\ AccountsTypeOK' /\ UNCHANGED << balance, ledger, sessionVars, requestVars >>
         /\ mu' \in [Processes -> Requests \cup {"sync", None}]
         /\ \E p \in Processes :
              /\ \A q \in Processes \ {p} : sync'[q] = sync[q]
              /\ Listed(p) /\ Copied(p)
<1>1. Server \in Processes /\ Event \in Processes
  BY ProxyAssumption DEF ProxyAssumption
<1>2. ASSUME NEW p \in Processes, SyncUserAccounts(p)
      PROVE  /\ AccountsTypeOK' /\ UNCHANGED << balance, ledger, mu >>
             /\ \A q \in Processes \ {p} : sync'[q] = sync[q]
             /\ Listed(p) /\ Copied(p)
  <2>1. "listing" \in SyncPc
    BY DEF SyncPc
  <2>2. PICK n \in Sync : n = NoSync /\ n.list = << >>
    BY NoSyncIs
  <2>3. PICK t \in Sync : t = SyncAt(n, "listing") /\ t.list = n.list
    BY <2>1, SyncAtIs
  <2>4. Move(p, t) /\ UNCHANGED << balance, ledger, copy, mu >>
    BY <1>2, <2>2, <2>3 DEF SyncUserAccounts, SyncAt
  <2>5. copy' \in [Users -> Balance \cup {None}]
    BY <2>4 DEF TypeOK, AccountsTypeOK
  <2>6. AccountsTypeOK' /\ sync'[p] = t /\ \A q \in Processes \ {p} : sync'[q] = sync[q]
    BY <2>4, <2>5, SyncMoves
  <2> QED BY <2>2, <2>3, <2>4, <2>6 DEF Listed, Copied
<1>3. mu' = mu => mu' \in [Processes -> Requests \cup {"sync", None}]
  BY DEF TypeOK
<1> QED BY <1>1, <1>2, <1>3, SyncStepIs DEF AccountStep, ProcessSettlement

(* At first nothing is known and nothing is held.                          *)
LEMMA InitTyped == Init => Basic
<1> SUFFICES ASSUME Init PROVE Basic
  OBVIOUS
<1>1. AccountsTypeOK /\ mu \in [Processes -> Requests \cup {"sync", None}]
  BY NoSyncIs, AccountsAssumption DEF Init, AccountsInit, AccountsTypeOK, AccountsAssumption, Balance
<1>2. MaxTime \in Nat /\ SessionTTL \in Nat /\ MaxCost \in Nat
  BY ProxyAssumption DEF ProxyAssumption
<1>3. job \in [Requests -> Job] /\ \A r \in Requests : job[r].pc = "idle"
  BY NoJobIs DEF Init
<1>4. TypeOK
  BY <1>1, <1>2, <1>3 DEF Init, TypeOK
<1>5. Active = {} /\ rows = {}
  BY <1>3 DEF Active, Init
<1> QED BY <1>3, <1>4, <1>5, FS_EmptySet DEF Basic, Holding

(* Every step keeps the types, the tables finite and the balances read.    *)
LEMMA NextTyped ==
  ASSUME Basic, [Next]_vars
  PROVE  Basic'
<1>1. ASSUME NEW r \in Requests, PruneRequest(r) \/ SignatureExpires(r) PROVE Basic'
  <2>1. /\ UNCHANGED << accountVars, now, sessionCache, job, fee, delivered, billed >>
        /\ rows' \subseteq rows /\ signed' \subseteq signed
    BY <1>1 DEF PruneRequest, SignatureExpires, sessionVars
  <2>2. AccountsTypeOK' /\ UNCHANGED mu
    BY <2>1 DEF Basic, TypeOK, AccountsTypeOK, accountVars
  <2> QED BY <2>1, <2>2, AroundKeeps DEF Basic, TypeOK
<1>2. CASE AccountStep
  <2>1. /\ AccountsTypeOK' /\ mu' \in [Processes -> Requests \cup {"sync", None}]
        /\ UNCHANGED << sessionVars, requestVars >>
    BY <1>2, AccountIs DEF Basic
  <2>2. UNCHANGED << now, sessionCache, job, rows, fee, delivered, billed, signed >>
    BY <2>1 DEF sessionVars, requestVars
  <2> QED BY <2>1, <2>2, AroundKeeps DEF Basic, TypeOK
<1>3. CASE Tick
  <2>1. /\ UNCHANGED << accountVars, sessionCache, job, rows, fee, delivered, billed, signed >>
        /\ now' \in 0 .. MaxTime
    BY <1>3, ProxyAssumption DEF Tick, requestVars, Basic, TypeOK, ProxyAssumption
  <2>2. AccountsTypeOK' /\ UNCHANGED mu
    BY <2>1 DEF Basic, TypeOK, AccountsTypeOK, accountVars
  <2> QED BY <2>1, <2>2, AroundKeeps DEF Basic, TypeOK
<1>4. CASE UNCHANGED vars
  <2>1. /\ UNCHANGED << accountVars, now, sessionCache, job, rows, fee, delivered, billed, signed >>
    BY <1>4 DEF vars, sessionVars, requestVars
  <2>2. AccountsTypeOK' /\ UNCHANGED mu
    BY <2>1 DEF Basic, TypeOK, AccountsTypeOK, accountVars
  <2> QED BY <2>1, <2>2, AroundKeeps DEF Basic, TypeOK
<1> QED BY <1>1, <1>2, <1>3, <1>4, HandlerTyped, ContractTyped DEF Next

(* Basic holds for ever.                                                   *)
LEMMA BasicIsInvariant == Spec => []Basic
<1>1. Basic /\ [Next]_vars => Basic'
  BY NextTyped
<1> QED BY InitTyped, <1>1, PTL DEF Spec

(* Whatever happens, every variable keeps its type: a balance never goes   *)
(* below zero, neither on the contract nor in a copy of it.                *)
THEOREM TypesKept == Spec => []TypeOK
<1>1. Basic => TypeOK
  BY DEF Basic
<1> QED BY BasicIsInvariant, <1>1, PTL

------------------------------------------------------------------------------
(* Sessions: what is cached was verified.                                  *)

CacheInv == \A s \in Sessions : sessionCache[s] # 0 => Authentic[s]

(* A session gets into the cache when its signature was verified.          *)
LEMMA CacheKept ==
  ASSUME Basic, CacheInv, [Next]_vars
  PROVE  CacheInv'
<1>1. ASSUME NEW r \in Requests, ValidateSession(r) PROVE CacheInv'
  <2>1. PICK s \in Sessions :
          sessionCache' = IF Valid(s) /\ ~ Cached(s)
                          THEN [sessionCache EXCEPT ![s] = now + SessionTTL] ELSE sessionCache
    BY <1>1 DEF ValidateSession
  <2>2. \A t \in Sessions : sessionCache'[t] = sessionCache[t] \/ (t = s /\ Valid(s) /\ ~ Cached(s))
    BY <2>1 DEF Basic, TypeOK
  <2>3. Valid(s) /\ ~ Cached(s) => Authentic[s]
    BY DEF Valid
  <2> QED BY <2>2, <2>3 DEF CacheInv
<1>2. CASE UNCHANGED sessionCache
  BY <1>2 DEF CacheInv
<1>3. ASSUME NEW r \in Requests, RequestStep(r) \/ PruneRequest(r) \/ SignatureExpires(r)
      PROVE  UNCHANGED sessionCache
  BY <1>3 DEF RequestStep, BrokerStep, ModelStep, CheckSigner, GetOrCreateAccount, ReadContract, InsertAccount, Check, Reload,
     UpdateUserAccount, Recheck, CreateRequest, ProcessHTTPRequest, HandleResponse, UpdateFees, SignChat,
     PruneRequest, SignatureExpires, sessionVars
<1>4. ContractStep \/ AccountStep \/ Tick \/ UNCHANGED vars => UNCHANGED sessionCache
  BY DEF ContractStep, SettleFees, AccountStep, Tick, vars, sessionVars
<1> QED BY <1>1, <1>2, <1>3, <1>4 DEF Next

(* No handler passes the session check with a token that has expired or    *)
(* with a signature that is not the customer's, however long ago the       *)
(* session was cached.                                                     *)
THEOREM SessionsAreGood == Spec => SessionIsGood
<1> DEFINE I == Basic /\ CacheInv
           A == \A r \in Requests : job[r].pc = "idle" /\ job'[r].pc = "signer"
                  => Authentic[job'[r].session] /\ now <= Expiry[TokenOf[job'[r].session]]
<1>1. Init => I
  BY InitTyped DEF Init, CacheInv
<1>2. I /\ [Next]_vars => I'
  BY NextTyped, CacheKept
<1>3. I /\ [Next]_vars => [A]_vars
  <2> SUFFICES ASSUME I, Next, NEW r \in Requests, job[r].pc = "idle", job'[r].pc = "signer"
      PROVE  Authentic[job'[r].session] /\ now <= Expiry[TokenOf[job'[r].session]]
    OBVIOUS
  <2>1. TypeOK
    BY DEF Basic
  <2>2. CASE ValidateSession(r)
    <3>1. PICK s \in Sessions :
            /\ Valid(s) => job'[r].session = s
            /\ job'[r].pc = IF Valid(s) THEN "signer" ELSE "ended"
      BY <2>1, <2>2, ValidateIs
    <3>2. Valid(s) /\ job'[r].session = s
      BY <3>1
    <3>3. Cached(s) => Authentic[s]
      BY DEF Cached, CacheInv
    <3>4. now <= Expiry[TokenOf[s]]
      <4>1. TokenOf[s] \in DOMAIN Expiry /\ \A t \in DOMAIN Expiry : Expiry[t] \in Nat
        BY ProxyAssumption DEF ProxyAssumption
      <4>2. Expiry[TokenOf[s]] \in Nat /\ now \in Nat
        BY <2>1, <4>1, ProxyAssumption DEF TypeOK, ProxyAssumption
      <4> QED BY <3>2, <4>2 DEF Valid, Expired
    <3> QED BY <3>2, <3>3, <3>4 DEF Valid
  <2>3. ASSUME NEW q \in Requests, ValidateSession(q) \/ RequestStep(q)
        PROVE  q = r /\ ValidateSession(r)
    <3>1. Only(q) /\ (RequestStep(q) => job[q].pc # "idle")
      BY <2>1, <2>3, ValidateIs, SignerIs, GetIs, ReadIs, InsertIs, CheckIs, ReloadIs, UpdateIs, RecheckIs,
         CreateIs, ProcessIs, ResponseIs, FeesAre, SignIs DEF RequestStep, BrokerStep, ModelStep
    <3> QED BY <2>3, <3>1 DEF Only
  <2>4. (\E q \in Requests : PruneRequest(q) \/ SignatureExpires(q)) \/ ContractStep \/ AccountStep \/ Tick
        => job' = job
    BY DEF PruneRequest, SignatureExpires, ContractStep, SettleFees, AccountStep, Tick, requestVars
  <2> QED BY <2>2, <2>3, <2>4 DEF Next
<1> HIDE DEF I, A
<1>4. Spec => [][A]_vars
  BY <1>1, <1>2, <1>3, PTL DEF Spec
<1> QED BY <1>4, PTL DEF A, SessionIsGood

------------------------------------------------------------------------------
(* Refinement: a handler delivers, bills and signs in this order.          *)

Late == {"billing", "signing", "refused", "ended"}
EarlyStep(r) ==
  \/ ValidateSession(r) \/ CheckSigner(r) \/ GetOrCreateAccount(r) \/ ReadContract(r)
  \/ InsertAccount(r) \/ Check(r) \/ Reload(r) \/ UpdateUserAccount(r) \/ Recheck(r)
  \/ CreateRequest(r) \/ ProcessHTTPRequest(r)
LateStep(r) == HandleResponse(r) \/ UpdateFees(r) \/ SignChat(r)

BillInv ==
  \A r \in Requests :
    /\ job[r].pc \notin Late => delivered[r] = "no" /\ r \notin billed
    /\ job[r].pc = "billing" => delivered[r] \in {"lines", "full"} /\ r \notin billed
    /\ job[r].pc = "signing" => delivered[r] \in {"lines", "full"}

(* Before the response, nothing is delivered, billed or signed.            *)
LEMMA EarlyIs ==
  ASSUME TypeOK, NEW r \in Requests, EarlyStep(r)
  PROVE  /\ Only(r) /\ job[r].pc \notin Late /\ job'[r].pc \notin {"billing", "signing"}
         /\ UNCHANGED << delivered, billed, signed, fee >>
<1>1. UNCHANGED << delivered, billed, signed, fee >>
  BY DEF EarlyStep, ValidateSession, CheckSigner, GetOrCreateAccount, ReadContract, InsertAccount, Check,
     Reload, UpdateUserAccount, Recheck, CreateRequest, ProcessHTTPRequest
<1>2. job[r].next \in {"check", "recheck", "responding"}
  BY DEF TypeOK, Job
<1>3. CASE ValidateSession(r) \/ CheckSigner(r) \/ GetOrCreateAccount(r) \/ ReadContract(r) \/ InsertAccount(r)
  BY <1>1, <1>2, <1>3, ValidateIs, SignerIs, GetIs, ReadIs, InsertIs DEF Late
<1>4. CASE Check(r) \/ Reload(r) \/ UpdateUserAccount(r) \/ Recheck(r) \/ CreateRequest(r) \/ ProcessHTTPRequest(r)
  BY <1>1, <1>4, CheckIs, ReloadIs, UpdateIs, RecheckIs, CreateIs, ProcessIs DEF Late
<1> QED BY <1>3, <1>4 DEF EarlyStep

(* Each step keeps BillInv, and is one of MeteredProxy or none.            *)
LEMMA MeteredStep ==
  ASSUME TypeOK, BillInv, [Next]_vars
  PROVE  BillInv' /\ [Metered!Next]_Metered!vars
<1>1. /\ delivered \in [Requests -> {"no", "part", "lines", "full"}] /\ billed \subseteq Requests
  BY DEF TypeOK
<1>2. ASSUME UNCHANGED << delivered, billed, signed, job >>
      PROVE  BillInv' /\ [Metered!Next]_Metered!vars
  BY <1>2 DEF BillInv, Metered!vars
<1>3. ASSUME NEW r \in Requests, EarlyStep(r)
      PROVE  BillInv' /\ [Metered!Next]_Metered!vars
  <2>1. /\ Only(r) /\ job[r].pc \notin Late /\ job'[r].pc \notin {"billing", "signing"}
        /\ UNCHANGED << delivered, billed, signed, fee >>
    BY <1>3, EarlyIs
  <2>2. UNCHANGED Metered!vars
    BY <2>1 DEF Metered!vars
  <2> QED BY <2>1, <2>2 DEF BillInv, Only
<1>4. ASSUME NEW r \in Requests, HandleResponse(r)
      PROVE  BillInv' /\ [Metered!Next]_Metered!vars
  <2>1. /\ Only(r) /\ job[r].pc = "responding"
        /\ \/ delivered' = [delivered EXCEPT ![r] = "part"] /\ job'[r].pc = "ended"
           \/ /\ \E d \in {"lines", "full"} : delivered' = [delivered EXCEPT ![r] = d]
              /\ job'[r].pc \in {"ended", "signing", "billing"}
        /\ UNCHANGED << billed, signed >>
    BY <1>4, ResponseIs DEF HandleResponse
  <2>2. delivered[r] = "no" /\ r \notin billed
    BY <2>1 DEF BillInv, Late
  <2>3. Metered!Deliver(r)
    BY <2>1, <2>2 DEF Metered!Deliver
  <2>4. BillInv'
    BY <1>1, <2>1, <2>2 DEF BillInv, Late, Only
  <2> QED BY <2>3, <2>4 DEF Metered!Next
<1>5. ASSUME NEW r \in Requests, UpdateFees(r)
      PROVE  BillInv' /\ [Metered!Next]_Metered!vars
  <2>1. /\ Only(r) /\ job[r].pc = "billing" /\ job'[r].pc \in {"signing", "ended"}
        /\ billed' = billed \cup {r} \/ billed' = billed
        /\ UNCHANGED << delivered, signed >>
    BY <1>5, FeesAre DEF UpdateFees
  <2>2. delivered[r] \in {"lines", "full"} /\ r \notin billed
    BY <2>1 DEF BillInv
  <2>3. Metered!Bill(r) \/ UNCHANGED Metered!vars
    BY <2>1, <2>2 DEF Metered!Bill, Metered!Ended, Metered!vars
  <2>4. BillInv'
    BY <1>1, <2>1, <2>2 DEF BillInv, Late, Only
  <2> QED BY <2>3, <2>4 DEF Metered!Next
<1>6. ASSUME NEW r \in Requests, SignChat(r)
      PROVE  BillInv' /\ [Metered!Next]_Metered!vars
  <2>1. /\ Only(r) /\ job[r].pc = "signing" /\ job'[r].pc = "ended"
        /\ signed' \in {signed, signed \cup {r}}
        /\ UNCHANGED << delivered, billed >>
    BY <1>6, SignIs DEF SignChat
  <2>2. delivered[r] \in {"lines", "full"}
    BY <2>1 DEF BillInv
  <2>3. Metered!Sign(r) \/ UNCHANGED Metered!vars
    BY <2>1, <2>2 DEF Metered!Sign, Metered!Ended, Metered!vars
  <2>4. BillInv'
    BY <1>1, <2>1, <2>2 DEF BillInv, Late, Only
  <2> QED BY <2>3, <2>4 DEF Metered!Next
<1>7. ASSUME NEW r \in Requests, PruneRequest(r) \/ SignatureExpires(r)
      PROVE  BillInv' /\ [Metered!Next]_Metered!vars
  <2>1. UNCHANGED << delivered, billed, job >> /\ (signed' = signed \/ signed' = signed \ {r})
    BY <1>7 DEF PruneRequest, SignatureExpires
  <2>2. Metered!SignatureExpires(r) \/ UNCHANGED Metered!vars
    BY <2>1 DEF Metered!SignatureExpires, Metered!vars
  <2> QED BY <2>1, <2>2 DEF Metered!Next, BillInv
<1>8. ContractStep \/ AccountStep \/ Tick \/ UNCHANGED vars => UNCHANGED << delivered, billed, signed, job >>
  BY DEF ContractStep, SettleFees, AccountStep, Tick, vars, requestVars
<1> QED BY <1>2, <1>3, <1>4, <1>5, <1>6, <1>7, <1>8 DEF Next, RequestStep, BrokerStep, ModelStep, EarlyStep

(* The proxy implements MeteredProxy: nobody pays twice for a response, or *)
(* for one that broke off, and none such is vouched for; a stream's last   *)
(* line without newline is paid for and vouched for and never sent.        *)
THEOREM ProxyIsMetered == Spec => ImplementsMeteredProxy
<1>1. Init => BillInv /\ Metered!Init
  <2> SUFFICES ASSUME Init PROVE BillInv /\ Metered!Init
    OBVIOUS
  <2>1. \A r \in Requests : job[r].pc = "idle"
    BY NoJobIs DEF Init
  <2> QED BY <2>1 DEF Init, BillInv, Late, Metered!Init
<1>2. TypeOK /\ BillInv /\ [Next]_vars => BillInv' /\ [Metered!Next]_Metered!vars
  BY MeteredStep
<1>3. Spec => Metered!Init /\ [][Metered!Next]_Metered!vars
  BY <1>1, <1>2, TypesKept, PTL DEF Spec
<1> QED BY <1>3 DEF ImplementsMeteredProxy, Metered!Spec

------------------------------------------------------------------------------
(* Balances on their way: where a value that is written or compared comes  *)
(* from.                                                                   *)

Entries(u) ==
  UNION {{e.balance : e \in {f \in Range(sync[p].list) : f.user = u}} : p \in Processes}
InHand(u) == {job[r].read : r \in {q \in Of(u) : job[q].pc \in {"update", "inserting"}}}

(* What is pending: the balance, entries of lists, balances in hand.       *)
LEMMA PendingIs ==
  ASSUME NEW u
  PROVE  Pending(u) = {balance[u]} \cup Entries(u) \cup InHand(u)
BY DEF Pending, Entries, InHand

(* The balances that lists hold for a customer.                            *)
LEMMA EntriesAre ==
  ASSUME NEW u, NEW v
  PROVE  v \in Entries(u) <=>
           \E p \in Processes : \E i \in DOMAIN sync[p].list :
              sync[p].list[i].user = u /\ v = sync[p].list[i].balance
BY DEF Entries, Range

(* What is pending is a balance.                                           *)
LEMMA PendingTyped ==
  ASSUME Basic, NEW u \in Users
  PROVE  Pending(u) \subseteq Balance /\ balance[u] \in Pending(u) /\ Balance \subseteq Nat
<1>1. Entries(u) \subseteq Balance
  <2>1. TypeOK
    BY DEF Basic
  <2> QED BY <2>1, EntriesAre, ListIs
<1>2. InHand(u) \subseteq Balance
  BY DEF InHand, Of, Basic, Holding
<1>3. balance[u] \in Balance
  BY DEF Basic, TypeOK, AccountsTypeOK
<1> QED BY <1>1, <1>2, <1>3, PendingIs, AccountsAssumption DEF Balance, AccountsAssumption

(* The second check, or on the way to it.                                  *)
Confirming(r) ==
  \/ job[r].pc = "recheck"
  \/ job[r].pc \in {"account", "creating", "inserting"} /\ job[r].next = "recheck"

(* What a step of a handler does with balances and with its checks.        *)
LEMMA HandlerIs ==
  ASSUME Basic, NEW r \in Requests, ValidateSession(r) \/ RequestStep(r)
  PROVE  /\ Only(r) /\ UNCHANGED << balance, ledger, sync >>
         /\ job'[r].pc \in {"update", "inserting"} => job'[r].read = balance[UserOf[r]]
         /\ \/ copy' = copy
            \/ /\ job[r].pc \in {"update", "inserting"}
               /\ copy' = [copy EXCEPT ![UserOf[r]] = job[r].read]
         /\ job'[r].pc \in {"check", "recheck"} =>
              \/ job[r].pc = "account" /\ copy[UserOf[r]] # None /\ job'[r].read = copy[UserOf[r]]
              \/ job[r].pc = "inserting" /\ job'[r].read = job[r].read
         /\ Confirming(r)' => \/ Confirming(r)
                              \/ /\ job[r].pc = "update" /\ job'[r].pc = "account"
                                 /\ copy' = [copy EXCEPT ![UserOf[r]] = job[r].read]
         /\ Checking(r)' => Checking(r) \/ (job[r].pc = "idle" /\ job'[r].pc = "signer")
<1>1. TypeOK /\ UserOf[r] \in Users /\ job[r].next \in {"check", "recheck", "responding"}
  BY ProxyAssumption DEF Basic, ProxyAssumption, TypeOK, Job
<1> USE DEF Confirming, Checking, Admitted
<1>2. CASE ValidateSession(r)
  BY <1>1, <1>2, ValidateIs DEF ValidateSession, accountVars
<1>3. CASE CheckSigner(r)
  BY <1>1, <1>3, SignerIs DEF CheckSigner, accountVars
<1>4. CASE GetOrCreateAccount(r)
  BY <1>1, <1>4, GetIs DEF GetOrCreateAccount
<1>5. CASE ReadContract(r)
  BY <1>1, <1>5, ReadIs DEF ReadContract
<1>6. CASE InsertAccount(r)
  BY <1>1, <1>6, InsertIs DEF InsertAccount
<1>7. CASE Check(r)
  BY <1>1, <1>7, CheckIs DEF Check, accountVars
<1>8. CASE Reload(r)
  BY <1>1, <1>8, ReloadIs DEF Reload, accountVars
<1>9. CASE UpdateUserAccount(r)
  BY <1>1, <1>9, UpdateIs DEF UpdateUserAccount
<1>10. CASE Recheck(r)
  BY <1>1, <1>10, RecheckIs DEF Recheck, accountVars
<1>11. CASE CreateRequest(r)
  BY <1>1, <1>11, CreateIs DEF CreateRequest, accountVars
<1>12. CASE ProcessHTTPRequest(r)
  BY <1>1, <1>12, ProcessIs DEF ProcessHTTPRequest, accountVars
<1>13. CASE HandleResponse(r)
  BY <1>1, <1>13, ResponseIs DEF HandleResponse, accountVars
<1>14. CASE UpdateFees(r)
  BY <1>1, <1>14, FeesAre DEF UpdateFees, accountVars
<1>15. CASE SignChat(r)
  BY <1>1, <1>15, SignIs DEF SignChat, accountVars
<1> QED
  BY <1>2, <1>3, <1>4, <1>5, <1>6, <1>7, <1>8, <1>9, <1>10, <1>11, <1>12, <1>13, <1>14, <1>15 DEF RequestStep, BrokerStep, ModelStep

(* Who can take a step that is not a handler's.                            *)
LEMMA OthersAre ==
  ASSUME Basic, [Next]_vars
  PROVE  \/ \E r \in Requests : ValidateSession(r) \/ RequestStep(r)
         \/ UNCHANGED << job, sync, copy >>
         \/ /\ UNCHANGED << job, balance, ledger >>
            /\ \E p \in Processes : Copied(p) /\ Listed(p) /\ \A q \in Processes \ {p} : sync'[q] = sync[q]
<1>1. ASSUME NEW r \in Requests, PruneRequest(r) \/ SignatureExpires(r)
      PROVE  UNCHANGED << job, sync, copy >>
  BY <1>1 DEF PruneRequest, SignatureExpires, accountVars
<1>2. ContractStep => UNCHANGED << job, sync, copy >>
  BY DEF ContractStep, SettleFees, OpenAccount, CloseAccount, ChangeBalance, requestVars
<1>3. Tick \/ UNCHANGED vars => UNCHANGED << job, sync, copy >>
  BY DEF Tick, vars, accountVars, requestVars
<1>4. ASSUME AccountStep
      PROVE  /\ UNCHANGED << job, balance, ledger >>
             /\ \E p \in Processes : Copied(p) /\ Listed(p) /\ \A q \in Processes \ {p} : sync'[q] = sync[q]
  BY <1>4, AccountIs DEF requestVars, Basic
<1> QED BY <1>1, <1>2, <1>3, <1>4 DEF Next

(* What is pending after a step was pending before it, or is what the      *)
(* contract says; a copy is replaced by something pending.                 *)
LEMMA FlowIs ==
  ASSUME Basic, [Next]_vars, NEW u \in Users
  PROVE  /\ Pending(u)' \subseteq Pending(u) \cup {balance'[u]}
         /\ copy'[u] \in Pending(u) \cup {copy[u], None}
         /\ \A r \in Of(u) : job'[r].pc \in {"check", "recheck"} =>
              \/ job'[r] = job[r]
              \/ job[r].pc = "account" /\ copy[u] # None /\ job'[r].read = copy[u]
              \/ job[r].pc = "inserting" /\ job'[r].read = job[r].read /\ job[r].read \in Pending(u)
<1>1. /\ Pending(u) = {balance[u]} \cup Entries(u) \cup InHand(u)
      /\ Pending(u)' = {balance'[u]} \cup Entries(u)' \cup InHand(u)'
      /\ copy \in [Users -> Balance \cup {None}]
  <2>1. Pending(u)' = {balance'[u]} \cup Entries(u)' \cup InHand(u)'
    BY DEF Pending, Entries, InHand
  <2> QED BY <2>1, PendingIs DEF Basic, TypeOK, AccountsTypeOK
<1>2. \A q \in Of(u) : q \in Requests /\ UserOf[q] = u
  BY DEF Of
<1>3. ASSUME NEW r \in Requests, ValidateSession(r) \/ RequestStep(r)
      PROVE  /\ Entries(u)' = Entries(u) /\ InHand(u)' \subseteq InHand(u) \cup {balance[u]}
             /\ copy'[u] \in InHand(u) \cup {copy[u]}
             /\ \A q \in Of(u) : job'[q].pc \in {"check", "recheck"} =>
                  \/ job'[q] = job[q]
                  \/ job[q].pc = "account" /\ copy[u] # None /\ job'[q].read = copy[u]
                  \/ job[q].pc = "inserting" /\ job'[q].read = job[q].read /\ job[q].read \in InHand(u)
  <2>1. /\ Only(r) /\ UNCHANGED << balance, ledger, sync >>
        /\ (job'[r].pc \in {"update", "inserting"} => job'[r].read = balance[UserOf[r]])
        /\ \/ copy' = copy
           \/ /\ job[r].pc \in {"update", "inserting"}
              /\ copy' = [copy EXCEPT ![UserOf[r]] = job[r].read]
        /\ (job'[r].pc \in {"check", "recheck"} =>
              \/ job[r].pc = "account" /\ copy[UserOf[r]] # None /\ job'[r].read = copy[UserOf[r]]
              \/ job[r].pc = "inserting" /\ job'[r].read = job[r].read)
    BY <1>3, HandlerIs
  <2>2. Entries(u)' = Entries(u)
    BY <2>1 DEF Entries
  <2>3. InHand(u)' \subseteq InHand(u) \cup {balance[u]}
    BY <1>2, <2>1 DEF InHand, Only
  <2>4. job[r].pc \in {"update", "inserting"} /\ UserOf[r] = u => job[r].read \in InHand(u)
    BY DEF InHand, Of
  <2>5. copy'[u] \in InHand(u) \cup {copy[u]}
    BY <1>1, <2>1, <2>4
  <2>6. ASSUME NEW q \in Of(u), job'[q].pc \in {"check", "recheck"}
        PROVE  \/ job'[q] = job[q]
               \/ job[q].pc = "account" /\ copy[u] # None /\ job'[q].read = copy[u]
               \/ job[q].pc = "inserting" /\ job'[q].read = job[q].read /\ job[q].read \in InHand(u)
    BY <1>2, <2>1, <2>4, <2>6 DEF Only
  <2> QED BY <2>2, <2>3, <2>5, <2>6
<1>4. CASE UNCHANGED << job, sync, copy >>
  <2>1. Entries(u)' = Entries(u) /\ InHand(u)' = InHand(u)
    BY <1>4 DEF Entries, InHand
  <2> QED BY <1>1, <1>2, <1>4, <2>1
<1>5. ASSUME UNCHANGED << job, balance, ledger >>, NEW p \in Processes, Copied(p), Listed(p),
             \A q \in Processes \ {p} : sync'[q] = sync[q]
      PROVE  /\ Entries(u)' \subseteq Entries(u) \cup {balance[u]} /\ InHand(u)' = InHand(u)
             /\ copy'[u] \in Entries(u) \cup {copy[u], None}
             /\ \A q \in Of(u) : job'[q] = job[q]
  <2>1. InHand(u)' = InHand(u)
    BY <1>5 DEF InHand
  <2>2. Entries(u)' \subseteq Entries(u) \cup {balance[u]}
    <3>1. ASSUME NEW v \in Entries(u)' PROVE v \in Entries(u) \cup {balance[u]}
      <4>1. PICK q \in Processes : \E i \in DOMAIN sync'[q].list :
              sync'[q].list[i].user = u /\ v = sync'[q].list[i].balance
        BY <3>1 DEF Entries, Range
      <4>2. CASE q # p
        <5>1. sync'[q] = sync[q]
          BY <1>5, <4>2
        <5> QED BY <4>1, <5>1, EntriesAre
      <4>3. CASE q = p
        <5>1. PICK i \in DOMAIN sync'[p].list : sync'[p].list[i].user = u /\ v = sync'[p].list[i].balance
          BY <4>1, <4>3
        <5>2. CASE i \in DOMAIN sync[p].list /\ sync'[p].list[i] = sync[p].list[i]
          BY <5>1, <5>2, EntriesAre
        <5>3. CASE sync'[p].list[i].balance = balance[sync'[p].list[i].user]
          BY <5>1, <5>3
        <5> QED BY <1>5, <5>2, <5>3 DEF Listed
      <4> QED BY <4>2, <4>3
    <3> QED BY <3>1
  <2>3. copy'[u] \in Entries(u) \cup {copy[u], None}
    BY <1>5, EntriesAre DEF Copied
  <2> QED BY <1>5, <2>1, <2>2, <2>3
<1> QED BY <1>1, <1>3, <1>4, <1>5, OthersAre

(* How a check begins, and how it comes to its second part.                *)
LEMMA ChecksAre ==
  ASSUME Basic, [Next]_vars, NEW r \in Requests
  PROVE  /\ Confirming(r)' => \/ Confirming(r)
                              \/ /\ job[r].pc = "update" /\ job'[r].pc = "account"
                                 /\ copy'[UserOf[r]] = job[r].read
         /\ Checking(r)' => Checking(r) \/ (job'[r].pc = "signer" /\ UNCHANGED balance)
<1>1. job'[r] = job[r] => Confirming(r)' = Confirming(r) /\ Checking(r)' = Checking(r)
  BY DEF Confirming, Checking, Admitted
<1>2. ASSUME NEW q \in Requests, ValidateSession(q) \/ RequestStep(q), q # r
      PROVE  job'[r] = job[r]
  BY <1>2, HandlerIs DEF Only
<1>3. ASSUME ValidateSession(r) \/ RequestStep(r)
      PROVE  /\ Confirming(r)' => \/ Confirming(r)
                                  \/ /\ job[r].pc = "update" /\ job'[r].pc = "account"
                                     /\ copy'[UserOf[r]] = job[r].read
             /\ Checking(r)' => Checking(r) \/ (job'[r].pc = "signer" /\ UNCHANGED balance)
  <2>1. UserOf[r] \in Users /\ DOMAIN copy = Users
    BY ProxyAssumption DEF ProxyAssumption, Basic, TypeOK, AccountsTypeOK
  <2> QED BY <1>3, <2>1, HandlerIs
<1>4. job' = job \/ \E q \in Requests : ValidateSession(q) \/ RequestStep(q)
  BY OthersAre
<1> QED BY <1>1, <1>2, <1>3, <1>4

------------------------------------------------------------------------------
(* Nobody is refused for an old copy alone.                                *)

LowInv ==
  /\ lowest \in [Requests -> Nat]
  /\ \A r \in Requests : Checking(r) =>
       /\ \A v \in Pending(UserOf[r]) : lowest[r] <= v
       /\ Confirming(r) => copy[UserOf[r]] = None \/ lowest[r] <= copy[UserOf[r]]
       /\ job[r].pc = "recheck" => lowest[r] <= job[r].read

(* A set of naturals has a least element, which is Min of it.              *)
LEMMA LeastOf ==
  ASSUME NEW S \in SUBSET Nat, S # {}
  PROVE  Min(S) \in S /\ \A v \in S : Min(S) <= v
<1>1. \E x \in S : \A y \in S : x <= y
  BY LeastNat
<1> QED BY <1>1 DEF Min

(* Lesser is below both.                                                   *)
LEMMA LesserIs ==
  ASSUME NEW a \in Nat, NEW b \in Nat
  PROVE  Lesser(a, b) \in Nat /\ Lesser(a, b) <= a /\ Lesser(a, b) <= b
BY DEF Lesser

(* The lowest balance seen since a check began bounds all it can read.     *)
LEMMA LowKept ==
  ASSUME Basic, Basic', LowInv, [Next]_vars
  PROVE  LowInv'
<1>1. CASE UNCHANGED vars
  <2>1. UNCHANGED << lowest, job, copy, balance, sync >>
    BY <1>1 DEF vars, accountVars, requestVars, historyVars
  <2>2. \A u : Pending(u)' = Pending(u)
    BY <2>1 DEF Pending
  <2>3. \A r \in Requests : Checking(r)' = Checking(r) /\ Confirming(r)' = Confirming(r)
    BY <2>1 DEF Checking, Confirming, Admitted
  <2> QED BY <2>1, <2>2, <2>3 DEF LowInv
<1>2. CASE Next
  <2>1. /\ \A r \in Requests : UserOf[r] \in Users /\ r \in Of(UserOf[r])
        /\ copy \in [Users -> Balance \cup {None}]
        /\ \A u \in Users : balance'[u] \in Nat
    <3>1. \A u \in Users : balance'[u] \in Balance /\ Balance \subseteq Nat
      BY PendingTyped DEF Basic, TypeOK, AccountsTypeOK
    <3> QED BY <3>1, ProxyAssumption DEF ProxyAssumption, Of, Basic, TypeOK, AccountsTypeOK
  <2>2. \A r \in Requests : lowest'[r] = IF ~ Checking(r)' THEN 0
                                         ELSE IF ~ Checking(r) THEN Min(Pending(UserOf[r]))
                                         ELSE Lesser(lowest[r], balance'[UserOf[r]])
    BY <1>2 DEF Next, History
  <2>3. \A r \in Requests : /\ Pending(UserOf[r]) \subseteq Nat /\ balance[UserOf[r]] \in Pending(UserOf[r])
                            /\ Min(Pending(UserOf[r])) \in Nat
                            /\ \A v \in Pending(UserOf[r]) : Min(Pending(UserOf[r])) <= v
    <3> SUFFICES ASSUME NEW r \in Requests
                 PROVE  /\ Pending(UserOf[r]) \subseteq Nat /\ balance[UserOf[r]] \in Pending(UserOf[r])
                        /\ Min(Pending(UserOf[r])) \in Nat
                        /\ \A v \in Pending(UserOf[r]) : Min(Pending(UserOf[r])) <= v
      OBVIOUS
    <3>1. PICK S : S = Pending(UserOf[r])
      OBVIOUS
    <3>2. S \in SUBSET Nat /\ balance[UserOf[r]] \in S
      BY <2>1, <3>1, PendingTyped
    <3>3. Min(S) \in S /\ \A v \in S : Min(S) <= v
      BY <3>2, LeastOf
    <3> QED BY <3>1, <3>2, <3>3
  <2>4. \A r \in Requests : Checking(r) => /\ Lesser(lowest[r], balance'[UserOf[r]]) \in Nat
                                           /\ Lesser(lowest[r], balance'[UserOf[r]]) <= lowest[r]
                                           /\ Lesser(lowest[r], balance'[UserOf[r]]) <= balance'[UserOf[r]]
    BY <2>1, LesserIs DEF LowInv
  <2>5. lowest' \in [Requests -> Nat]
    <3>1. \A r \in Requests : lowest'[r] \in Nat
      BY <2>2, <2>3, <2>4
    <3>2. lowest' = [r \in Requests |-> lowest'[r]]
      BY <1>2 DEF Next, History
    <3> QED BY <3>1, <3>2
  <2>6. ASSUME NEW r \in Requests, Checking(r)'
        PROVE  /\ \A v \in Pending(UserOf[r])' : lowest'[r] <= v
               /\ Confirming(r)' => copy'[UserOf[r]] = None \/ lowest'[r] <= copy'[UserOf[r]]
               /\ job'[r].pc = "recheck" => lowest'[r] <= job'[r].read
    <3> DEFINE u == UserOf[r]
    <3>1. /\ Pending(u)' \subseteq Pending(u) \cup {balance'[u]}
          /\ copy'[u] \in Pending(u) \cup {copy[u], None}
          /\ (job'[r].pc \in {"check", "recheck"} =>
                \/ job'[r] = job[r]
                \/ job[r].pc = "account" /\ copy[u] # None /\ job'[r].read = copy[u]
                \/ job[r].pc = "inserting" /\ job'[r].read = job[r].read /\ job[r].read \in Pending(u))
      BY <2>1, FlowIs
    <3>2. /\ (Confirming(r)' => \/ Confirming(r)
                                \/ /\ job[r].pc = "update" /\ job'[r].pc = "account"
                                   /\ copy'[u] = job[r].read)
          /\ Checking(r) \/ (job'[r].pc = "signer" /\ UNCHANGED balance)
      BY <2>6, ChecksAre
    <3>3. CASE ~ Checking(r)
      <4>1. lowest'[r] = Min(Pending(u)) /\ job'[r].pc = "signer" /\ balance' = balance
        BY <2>2, <2>6, <3>2, <3>3
      <4>2. ~ Confirming(r)'
        BY <4>1 DEF Confirming
      <4> HIDE DEF u
      <4>3. \A v \in Pending(u) : lowest'[r] <= v
        BY <2>3, <4>1 DEF u
      <4>4. balance'[u] \in Pending(u)
        BY <2>3, <4>1 DEF u
      <4> QED BY <3>1, <4>1, <4>2, <4>3, <4>4 DEF u
    <3>4. CASE Checking(r)
      <4>1. /\ lowest'[r] \in Nat /\ lowest[r] \in Nat /\ lowest'[r] <= lowest[r] /\ lowest'[r] <= balance'[u]
            /\ balance'[u] \in Nat
        BY <2>1, <2>2, <2>4, <2>6, <3>4 DEF LowInv
      <4>2. \A v \in Pending(u) : v \in Nat /\ lowest'[r] <= v
        <5>1. \A v \in Pending(u) : v \in Nat /\ lowest[r] <= v
          BY <2>3, <3>4 DEF LowInv
        <5> QED BY <4>1, <5>1
      <4>3. ASSUME Confirming(r) PROVE copy[u] = None \/ lowest'[r] <= copy[u]
        <5>1. copy[u] = None \/ (copy[u] \in Nat /\ lowest[r] <= copy[u])
          BY <2>1, <3>4, <4>3, PendingTyped DEF LowInv
        <5> QED BY <4>1, <5>1
      <4>4. ASSUME Confirming(r)' PROVE copy'[u] = None \/ lowest'[r] <= copy'[u]
        <5>1. CASE Confirming(r)
          BY <3>1, <4>2, <4>3, <5>1
        <5>2. CASE job[r].pc = "update" /\ copy'[u] = job[r].read
          <6>1. job[r].read \in Pending(u)
            BY <2>1, <5>2, PendingIs DEF InHand, Of
          <6> QED BY <4>2, <5>2, <6>1
        <5> QED BY <3>2, <4>4, <5>1, <5>2
      <4>5. ASSUME job'[r].pc = "recheck" PROVE lowest'[r] <= job'[r].read
        <5>1. Confirming(r)'
          BY <4>5 DEF Confirming
        <5>2. Confirming(r)
          BY <3>2, <4>5, <5>1
        <5>3. CASE job'[r] = job[r]
          <6>1. lowest[r] <= job[r].read /\ job[r].read \in Nat
            BY <2>1, <3>4, <4>5, <5>3, PendingTyped DEF LowInv, Basic, Holding
          <6> QED BY <4>1, <5>3, <6>1
        <5> QED BY <3>1, <4>2, <4>3, <4>5, <5>2, <5>3
      <4> QED BY <3>1, <4>1, <4>2, <4>4, <4>5
    <3> QED BY <3>3, <3>4
  <2> QED BY <2>5, <2>6 DEF LowInv
<1> QED BY <1>1, <1>2

(* What a customer owes is a number.                                       *)
LEMMA UnsettledIs ==
  ASSUME Basic, NEW u \in Users
  PROVE  /\ Unsettled(u) = Sum(fee, rows \cap Of(u)) /\ Unsettled(u) \in Nat
         /\ IsFiniteSet(rows \cap Of(u)) /\ \A r \in rows \cap Of(u) : fee[r] \in Nat
<1>1. PICK S : S = rows \cap Of(u)
  OBVIOUS
<1>2. IsFiniteSet(S) /\ \A r \in S : fee[r] \in Nat
  <2>1. S \subseteq rows /\ S \subseteq Requests
    BY <1>1 DEF Basic, TypeOK
  <2> QED BY <2>1, FS_Subset DEF Basic, TypeOK
<1>3. Unsettled(u) = Sum(fee, S)
  BY <1>1, SumIsFold DEF Unsettled
<1>4. Sum(fee, S) \in Nat
  BY <1>2, SumTyped
<1> QED BY <1>1, <1>2, <1>3, <1>4

(* A customer is refused only for more than a balance it had since the     *)
(* request came, or that somebody had read by then and not written yet.    *)
THEOREM RefusedOnlyIfShort == Spec => RefusedIsShort
<1> DEFINE I == Basic /\ LowInv
           A == \A r \in Requests : job[r].pc = "recheck" /\ job'[r].pc = "refused"
                  => Estimate + Unsettled(UserOf[r]) + Reservation > lowest[r]
<1>1. Init => I
  <2> SUFFICES ASSUME Init PROVE LowInv
    BY InitTyped
  <2>1. \A r \in Requests : job[r].pc = "idle"
    BY NoJobIs DEF Init
  <2> QED BY <2>1 DEF Init, LowInv, Checking
<1>2. I /\ [Next]_vars => I'
  BY NextTyped, LowKept
<1>3. I /\ [Next]_vars => [A]_vars
  <2> SUFFICES ASSUME I, Next, NEW r \in Requests, job[r].pc = "recheck", job'[r].pc = "refused"
      PROVE  Estimate + Unsettled(UserOf[r]) + Reservation > lowest[r]
    OBVIOUS
  <2>1. TypeOK /\ UserOf[r] \in Users
    BY ProxyAssumption DEF Basic, ProxyAssumption
  <2>2. ValidateSession(r) \/ RequestStep(r)
    <3>1. job' = job \/ \E q \in Requests : ValidateSession(q) \/ RequestStep(q)
      BY OthersAre
    <3>2. ASSUME NEW q \in Requests, ValidateSession(q) \/ RequestStep(q) PROVE q = r
      BY <3>2, HandlerIs DEF Only
    <3> QED BY <3>1, <3>2
  <2>3. Recheck(r)
    <3>1. CASE ValidateSession(r) \/ CheckSigner(r) \/ GetOrCreateAccount(r) \/ ReadContract(r) \/ InsertAccount(r)
      BY <3>1 DEF ValidateSession, CheckSigner, GetOrCreateAccount, ReadContract, InsertAccount
    <3>2. CASE Check(r) \/ Reload(r) \/ UpdateUserAccount(r) \/ CreateRequest(r) \/ ProcessHTTPRequest(r)
      BY <3>2 DEF Check, Reload, UpdateUserAccount, CreateRequest, ProcessHTTPRequest
    <3>3. CASE HandleResponse(r) \/ UpdateFees(r) \/ SignChat(r)
      BY <3>3 DEF HandleResponse, UpdateFees, SignChat
    <3> QED BY <2>2, <3>1, <3>2, <3>3 DEF RequestStep, BrokerStep, ModelStep
  <2>4. ~ Adequate(r)
    BY <2>1, <2>3, RecheckIs
  <2>5. lowest[r] <= job[r].read /\ lowest[r] \in Nat
    BY DEF LowInv, Checking, Admitted
  <2>6. job[r].read \in Nat /\ Unsettled(UserOf[r]) \in Nat /\ Estimate \in Nat /\ Reservation \in Nat
    BY <2>1, PendingTyped, UnsettledIs, ProxyAssumption DEF Basic, Holding, ProxyAssumption
  <2> QED BY <2>4, <2>5, <2>6 DEF Adequate
<1> HIDE DEF I, A
<1>4. Spec => [][A]_vars
  BY <1>1, <1>2, <1>3, PTL DEF Spec
<1> QED BY <1>4, PTL DEF A, RefusedIsShort

------------------------------------------------------------------------------
(* What a customer may owe: the sum over its rows, as rows and fees change.*)

Owed(f, R, u) == MapThenSumSet(LAMBDA r : f[r], R \cap Of(u))

(* What is owed is a sum of fees.                                          *)
LEMMA OwedIs ==
  ASSUME NEW f, NEW R, NEW u, IsFiniteSet(R), \A r \in R : f[r] \in Nat
  PROVE  /\ Owed(f, R, u) = Sum(f, R \cap Of(u)) /\ Owed(f, R, u) \in Nat
         /\ IsFiniteSet(R \cap Of(u))
<1>1. PICK S : S = R \cap Of(u)
  OBVIOUS
<1>2. IsFiniteSet(S) /\ \A r \in S : f[r] \in Nat
  BY <1>1, FS_Subset
<1>3. Owed(f, R, u) = Sum(f, S)
  BY <1>1 DEF Owed, Sum, SumFunctionOnSet, FoldFunctionOnSet, MapThenFoldSet, MapThenSumSet
<1>4. Sum(f, S) \in Nat
  BY <1>2, SumTyped
<1> QED BY <1>1, <1>2, <1>3, <1>4

(* Rows that go leave no more to pay.                                      *)
LEMMA OwedLess ==
  ASSUME NEW f, NEW R, NEW u, IsFiniteSet(R), \A r \in R : f[r] \in Nat, NEW Q \in SUBSET R
  PROVE  Owed(f, Q, u) <= Owed(f, R, u)
<1>1. PICK S : S = R \cap Of(u)
  OBVIOUS
<1>2. PICK T \in SUBSET S : T = Q \cap Of(u)
  BY <1>1
<1>3. IsFiniteSet(S) /\ (\A r \in S : f[r] \in Nat) /\ IsFiniteSet(Q) /\ \A r \in Q : f[r] \in Nat
  BY <1>1, FS_Subset
<1>4. Sum(f, T) <= Sum(f, S)
  BY <1>3, SumOfSubset
<1> QED BY <1>1, <1>2, <1>3, <1>4, OwedIs

(* Only the fee of r has changed, from nothing to c.                       *)
LEMMA OwedMore ==
  ASSUME NEW f, NEW g, NEW R, NEW u, IsFiniteSet(R), \A r \in R : f[r] \in Nat, NEW r,
         \A q \in R \ {r} : g[q] = f[q], NEW c \in Nat, r \in R => f[r] = 0 /\ g[r] \in 0 .. c
  PROVE  Owed(g, R, u) <= Owed(f, R, u) + c
<1>1. PICK S : S = R \cap Of(u)
  OBVIOUS
<1>2. IsFiniteSet(S) /\ (\A q \in S : f[q] \in Nat) /\ (\A q \in S : g[q] \in Nat) /\ \A q \in R : g[q] \in Nat
  BY <1>1, FS_Subset
<1>3. /\ Owed(f, R, u) = Sum(f, S) /\ Owed(f, R, u) \in Nat
      /\ Owed(g, R, u) = Sum(g, S) /\ Owed(g, R, u) \in Nat
  BY <1>1, <1>2, OwedIs
<1>4. CASE r \notin S
  <2>1. \A q \in S : g[q] = f[q]
    BY <1>1, <1>4
  <2>2. Sum(g, S) = Sum(f, S)
    BY <1>2, <2>1, SumOfSame
  <2> QED BY <1>3, <2>2
<1>5. CASE r \in S
  <2>1. PICK T : T = S \ {r}
    OBVIOUS
  <2>2. IsFiniteSet(T) /\ \A q \in T : g[q] = f[q]
    BY <1>1, <1>2, <2>1, FS_Subset
  <2>3. Sum(g, T) = Sum(f, T)
    BY <2>2, SumOfSame
  <2>4. Sum(f, S) = f[r] + Sum(f, T) /\ Sum(g, S) = g[r] + Sum(g, T)
    BY <1>2, <1>5, <2>1, SumOfElement
  <2>5. Sum(f, T) \in Nat
    BY <1>2, <2>1, <2>2, SumTyped
  <2>6. f[r] = 0 /\ g[r] \in 0 .. c
    BY <1>1, <1>5
  <2> QED BY <1>3, <2>3, <2>4, <2>5, <2>6
<1> QED BY <1>4, <1>5

(* A row without a fee adds nothing.                                       *)
LEMMA OwedNew ==
  ASSUME NEW f, NEW R, NEW u, IsFiniteSet(R), \A q \in R : f[q] \in Nat, NEW r, f[r] = 0
  PROVE  Owed(f, R \cup {r}, u) = Owed(f, R, u)
<1>1. PICK Q : Q = R \cup {r}
  OBVIOUS
<1>2. IsFiniteSet(Q) /\ \A q \in Q : f[q] \in Nat
  BY <1>1, FS_AddElement
<1>3. PICK S, T : S = R \cap Of(u) /\ T = Q \cap Of(u)
  OBVIOUS
<1>4. /\ Owed(f, R, u) = Sum(f, S) /\ Owed(f, R, u) \in Nat
      /\ Owed(f, Q, u) = Sum(f, T) /\ IsFiniteSet(T)
  BY <1>2, <1>3, OwedIs
<1>5. CASE S = T
  BY <1>1, <1>4, <1>5
<1>6. CASE S # T
  <2>1. r \in T /\ S = T \ {r} /\ \A q \in T : f[q] \in Nat
    BY <1>1, <1>2, <1>3, <1>6
  <2>2. Sum(f, T) = f[r] + Sum(f, T \ {r})
    BY <1>4, <2>1, SumOfElement
  <2> QED BY <1>1, <1>4, <2>1, <2>2
<1> QED BY <1>5, <1>6

(* What is unpaid before and after a step.                                 *)
LEMMA UnsettledAre ==
  ASSUME Basic, Basic', NEW u \in Users
  PROVE  /\ Unsettled(u) = Owed(fee, rows, u) /\ Unsettled(u)' = Owed(fee', rows', u)
         /\ IsFiniteSet(rows) /\ \A r \in rows : fee[r] \in Nat
         /\ Unsettled(u) \in Nat /\ Unsettled(u)' \in Nat
<1>1. Unsettled(u) = Owed(fee, rows, u) /\ Unsettled(u)' = Owed(fee', rows', u)
  BY DEF Unsettled, Owed, MapThenSumSet, MapThenFoldSet
<1>2. IsFiniteSet(rows) /\ IsFiniteSet(rows')
  BY DEF Basic
<1>3. (\A r \in rows : fee[r] \in Nat) /\ \A r \in rows' : fee'[r] \in Nat
  BY ProxyAssumption DEF Basic, TypeOK
<1>4. Owed(fee, rows, u) \in Nat /\ Owed(fee', rows', u) \in Nat
  BY <1>2, <1>3, OwedIs
<1> QED BY <1>1, <1>2, <1>3, <1>4

------------------------------------------------------------------------------
(* The requests a customer has under way.                                  *)

AdmittedOf(u) == {r \in Of(u) : Admitted(r)}

(* A fee is written when the request is over.                              *)
FeeInv == \A r \in Requests : fee[r] # 0 => job[r].pc \in {"signing", "ended"}

(* One step does one of three things to what a customer owes: no more is   *)
(* owed or under way; one more request is admitted, that passed the check; *)
(* or one that was under way is billed.                                    *)
Lessens(u) == AdmittedOf(u)' \subseteq AdmittedOf(u) /\ Unsettled(u)' <= Unsettled(u)
Admits(u, r) ==
  /\ r \in Of(u) \ AdmittedOf(u) /\ AdmittedOf(u)' = AdmittedOf(u) \cup {r}
  /\ Unsettled(u)' = Unsettled(u) /\ job[r].pc \in {"check", "recheck"} /\ Adequate(r)
Bills(u, r) ==
  /\ r \in AdmittedOf(u) /\ AdmittedOf(u)' = AdmittedOf(u) \ {r}
  /\ Unsettled(u)' <= Unsettled(u) + MaxCost

(* The steps of a handler that do not touch rows and fees.                 *)
LEMMA AdmissionIs ==
  ASSUME TypeOK, NEW r \in Requests, EarlyStep(r), ~ CreateRequest(r)
  PROVE  /\ UNCHANGED rows
         /\ Admitted(r)' => Admitted(r) \/ (job[r].pc \in {"check", "recheck"} /\ Adequate(r))
<1>1. UNCHANGED rows
  BY DEF EarlyStep, ValidateSession, CheckSigner, GetOrCreateAccount, ReadContract, InsertAccount, Check,
     Reload, UpdateUserAccount, Recheck, ProcessHTTPRequest
<1>2. job[r].next \in {"check", "recheck", "responding"}
  BY DEF TypeOK, Job
<1> USE DEF Admitted
<1>3. CASE ValidateSession(r) \/ CheckSigner(r) \/ GetOrCreateAccount(r) \/ ReadContract(r) \/ InsertAccount(r)
  BY <1>1, <1>2, <1>3, ValidateIs, SignerIs, GetIs, ReadIs, InsertIs
<1>4. CASE Check(r) \/ Reload(r) \/ UpdateUserAccount(r) \/ Recheck(r) \/ ProcessHTTPRequest(r)
  BY <1>1, <1>4, CheckIs, ReloadIs, UpdateIs, RecheckIs, ProcessIs
<1> QED BY <1>3, <1>4 DEF EarlyStep

(* A handler's step adds to what is owed, or admits a request, or neither. *)
LEMMA HandlerOwes ==
  ASSUME Basic, Basic', FeeInv, NEW r \in Requests, ValidateSession(r) \/ RequestStep(r), NEW u \in Users
  PROVE  /\ Lessens(u) \/ (\E q \in Requests : Admits(u, q)) \/ (\E q \in Requests : Bills(u, q))
         /\ FeeInv'
<1>1. /\ TypeOK /\ MaxCost \in Nat
      /\ Unsettled(u) = Owed(fee, rows, u) /\ Unsettled(u)' = Owed(fee', rows', u)
      /\ IsFiniteSet(rows) /\ (\A q \in rows : fee[q] \in Nat)
      /\ Unsettled(u) \in Nat /\ Unsettled(u)' \in Nat
      /\ fee \in [Requests -> 0 .. MaxCost] /\ job[r].cost \in 0 .. MaxCost
      /\ Of(u) \subseteq Requests
  <2>1. TypeOK
    BY DEF Basic
  <2> QED BY <2>1, UnsettledAre, ProxyAssumption DEF ProxyAssumption, TypeOK, Job, Of
<1>2. Only(r) => /\ \A q \in Requests \ {r} : Admitted(q)' = Admitted(q)
                 /\ (Admitted(r)' => Admitted(r)) => AdmittedOf(u)' \subseteq AdmittedOf(u)
  BY <1>1 DEF Only, Admitted, AdmittedOf
<1>3. ASSUME EarlyStep(r), ~ CreateRequest(r)
      PROVE  (Lessens(u) \/ Admits(u, r)) /\ FeeInv'
  <2>1. /\ Only(r) /\ UNCHANGED << rows, fee >> /\ job[r].pc \notin Late
        /\ (Admitted(r)' => Admitted(r) \/ (job[r].pc \in {"check", "recheck"} /\ Adequate(r)))
    BY <1>1, <1>3, EarlyIs, AdmissionIs
  <2>2. Unsettled(u)' = Unsettled(u)
    BY <1>1, <2>1
  <2>3. FeeInv'
    BY <2>1 DEF FeeInv, Late, Only
  <2>4. CASE Admitted(r)' => Admitted(r)
    BY <1>1, <1>2, <2>1, <2>2, <2>3, <2>4 DEF Lessens
  <2>5. CASE Admitted(r)' /\ ~ Admitted(r) /\ r \in Of(u)
    <3>1. r \in Of(u) \ AdmittedOf(u) /\ AdmittedOf(u)' = AdmittedOf(u) \cup {r}
      BY <1>1, <1>2, <2>1, <2>5 DEF AdmittedOf
    <3> QED BY <2>1, <2>2, <2>3, <2>5, <3>1 DEF Admits
  <2>6. CASE r \notin Of(u)
    <3>1. AdmittedOf(u)' \subseteq AdmittedOf(u)
      BY <1>1, <1>2, <2>1, <2>6 DEF AdmittedOf
    <3> QED BY <1>1, <2>2, <2>3, <3>1 DEF Lessens
  <2> QED BY <2>4, <2>5, <2>6
<1>4. ASSUME CreateRequest(r) PROVE Lessens(u) /\ FeeInv'
  <2>1. /\ Only(r) /\ job[r].pc = "create" /\ UNCHANGED fee
        /\ \/ rows' = rows \cup {r} /\ job'[r].pc = "forward"
           \/ rows' = rows /\ job'[r].pc = "ended"
    BY <1>1, <1>4, CreateIs DEF CreateRequest
  <2>2. fee[r] = 0
    BY <1>1, <2>1 DEF FeeInv
  <2>3. Owed(fee, rows \cup {r}, u) = Owed(fee, rows, u)
    BY <1>1, <2>2, OwedNew
  <2>4. Unsettled(u)' = Unsettled(u)
    BY <1>1, <2>1, <2>3
  <2>5. Admitted(r)
    BY <2>1 DEF Admitted
  <2>6. FeeInv'
    BY <2>1, <2>2 DEF FeeInv, Only
  <2> QED BY <1>1, <1>2, <2>1, <2>4, <2>5, <2>6 DEF Lessens
<1>5. ASSUME HandleResponse(r) PROVE Lessens(u) /\ FeeInv'
  <2>1. Only(r) /\ job[r].pc = "responding" /\ UNCHANGED << rows, fee >>
    BY <1>1, <1>5, ResponseIs DEF HandleResponse
  <2>2. Admitted(r)
    BY <2>1 DEF Admitted
  <2>3. FeeInv'
    BY <2>1 DEF FeeInv, Only
  <2> QED BY <1>1, <1>2, <2>1, <2>2, <2>3 DEF Lessens
<1>6. ASSUME UpdateFees(r) PROVE (Lessens(u) \/ Bills(u, r)) /\ FeeInv'
  <2>1. /\ Only(r) /\ job[r].pc = "billing" /\ job'[r].pc \in {"signing", "ended"} /\ UNCHANGED rows
        /\ fee' = [fee EXCEPT ![r] = job[r].cost] \/ fee' = fee
    BY <1>1, <1>6, FeesAre DEF UpdateFees
  <2>2. fee[r] = 0 /\ fee'[r] \in 0 .. MaxCost /\ \A q \in Requests \ {r} : fee'[q] = fee[q]
    BY <1>1, <2>1 DEF FeeInv
  <2>3. FeeInv'
    BY <2>1, <2>2 DEF FeeInv, Only
  <2>4. PICK g : g = fee'
    OBVIOUS
  <2>5. rows \subseteq Requests
    BY <1>1 DEF TypeOK
  <2>6. CASE r \in Of(u)
    <3>1. \A q \in rows \ {r} : g[q] = fee[q]
      BY <2>2, <2>4, <2>5
    <3>2. r \in rows => fee[r] = 0 /\ g[r] \in 0 .. MaxCost
      BY <2>2, <2>4
    <3>3. Owed(g, rows, u) <= Owed(fee, rows, u) + MaxCost
      BY <1>1, <3>1, <3>2, OwedMore
    <3>4. Admitted(r) /\ ~ Admitted(r)'
      BY <2>1 DEF Admitted
    <3>5. r \in AdmittedOf(u) /\ AdmittedOf(u)' = AdmittedOf(u) \ {r}
      BY <1>1, <1>2, <2>1, <2>6, <3>4 DEF AdmittedOf
    <3> QED BY <1>1, <2>1, <2>3, <2>4, <3>3, <3>5 DEF Bills
  <2>7. CASE r \notin Of(u)
    <3>1. PICK S : S = rows \cap Of(u)
      OBVIOUS
    <3>2. IsFiniteSet(S) /\ \A q \in S : g[q] = fee[q]
      BY <1>1, <2>2, <2>4, <2>5, <2>7, <3>1, FS_Subset
    <3>3. Sum(g, S) = Sum(fee, S)
      BY <3>2, SumOfSame
    <3>4. \A q \in rows : g[q] \in Nat
      BY <1>1, <2>2, <2>4, <2>5
    <3>5. Owed(g, rows, u) = Sum(g, S) /\ Owed(fee, rows, u) = Sum(fee, S)
      BY <1>1, <3>1, <3>4, OwedIs
    <3>6. Admitted(r)' => Admitted(r)
      BY <2>1 DEF Admitted
    <3> QED BY <1>1, <1>2, <2>1, <2>3, <2>4, <3>3, <3>5, <3>6 DEF Lessens
  <2> QED BY <2>6, <2>7
<1>7. ASSUME SignChat(r) PROVE Lessens(u) /\ FeeInv'
  <2>1. Only(r) /\ job[r].pc = "signing" /\ job'[r].pc = "ended" /\ UNCHANGED << rows, fee >>
    BY <1>1, <1>7, SignIs DEF SignChat
  <2>2. ~ Admitted(r)'
    BY <2>1 DEF Admitted
  <2>3. FeeInv'
    BY <2>1 DEF FeeInv, Only
  <2> QED BY <1>1, <1>2, <2>1, <2>2, <2>3 DEF Lessens
<1> QED BY <1>3, <1>4, <1>5, <1>6, <1>7 DEF RequestStep, BrokerStep, ModelStep, EarlyStep

(* So does any step.                                                       *)
LEMMA NextOwes ==
  ASSUME Basic, Basic', FeeInv, [Next]_vars, NEW u \in Users
  PROVE  /\ Lessens(u) \/ (\E q \in Requests : Admits(u, q)) \/ (\E q \in Requests : Bills(u, q))
         /\ FeeInv'
<1>1. ASSUME UNCHANGED << job, fee >>, rows' \subseteq rows
      PROVE  Lessens(u) /\ FeeInv'
  <2>1. /\ Unsettled(u) = Owed(fee, rows, u) /\ Unsettled(u)' = Owed(fee', rows', u)
        /\ IsFiniteSet(rows) /\ (\A q \in rows : fee[q] \in Nat)
    BY UnsettledAre
  <2>2. PICK Q \in SUBSET rows : Q = rows'
    BY <1>1
  <2>3. Owed(fee, Q, u) <= Owed(fee, rows, u)
    BY <2>1, OwedLess
  <2>4. AdmittedOf(u)' = AdmittedOf(u) /\ FeeInv'
    BY <1>1 DEF AdmittedOf, Admitted, FeeInv
  <2> QED BY <1>1, <2>1, <2>2, <2>3, <2>4 DEF Lessens
<1>2. ASSUME NEW r \in Requests, PruneRequest(r) \/ SignatureExpires(r)
      PROVE  UNCHANGED << job, fee >> /\ rows' \subseteq rows
  BY <1>2 DEF PruneRequest, SignatureExpires
<1>3. ContractStep \/ AccountStep \/ Tick \/ UNCHANGED vars => UNCHANGED << job, fee >> /\ rows' \subseteq rows
  BY DEF ContractStep, SettleFees, AccountStep, Tick, vars, requestVars
<1> QED BY <1>1, <1>2, <1>3, HandlerOwes DEF Next

------------------------------------------------------------------------------
(* How much a customer may owe.                                            *)

(* Multiplication by the cost of a response is monotone.                   *)
LEMMA TimesIs ==
  ASSUME NEW m \in Nat, NEW a \in Nat, NEW b \in Nat
  PROVE  a * m \in Nat /\ (a + 1) * m = a * m + m /\ (a <= b => a * m <= b * m)
<1>1. a * m \in Nat /\ (a + 1) * m = a * m + m
  OBVIOUS
<1>2. ASSUME a <= b PROVE a * m <= b * m
  <2>1. PICK k \in Nat : b = a + k
    <3>1. b - a \in Nat /\ b = a + (b - a)
      BY <1>2
    <3> QED BY <3>1
  <2>2. (a + k) * m = a * m + k * m /\ k * m \in Nat
    OBVIOUS
  <2> QED BY <1>1, <2>1, <2>2
<1> QED BY <1>1, <1>2

(* Every balance there is or was read, in a copy, in a list or in a        *)
(* handler, is at most the highest the account has had.                    *)
PeakInv ==
  /\ peak \in [Users -> Nat]
  /\ \A u \in Users :
       /\ \A v \in Pending(u) : v <= peak[u]
       /\ copy[u] = None \/ copy[u] <= peak[u]
       /\ \A r \in Of(u) : job[r].pc \in {"check", "recheck"} => job[r].read <= peak[u]

(* Each request under way has room for its fee below the peak, but for     *)
(* those admitted while others were under way.                             *)
CrowdInv ==
  /\ crowd \in [Users -> Nat]
  /\ \A u \in Users :
       /\ Cardinality(AdmittedOf(u)) <= crowd[u]
       /\ crowd[u] > 0 => Unsettled(u) + Cardinality(AdmittedOf(u)) * MaxCost
                            <= peak[u] + (crowd[u] - 1) * MaxCost

(* Greater is above both.                                                  *)
LEMMA GreaterIs ==
  ASSUME NEW a \in Nat, NEW b \in Nat
  PROVE  /\ Greater(a, b) \in Nat /\ Greater(a, b) >= a /\ Greater(a, b) >= b
         /\ Greater(a, b) \in {a, b}
BY DEF Greater

(* The peak never falls, and is at least the balance.                      *)
LEMMA PeakGrows ==
  ASSUME Basic, Basic', peak \in [Users -> Nat], [Next]_vars
  PROVE  /\ peak' \in [Users -> Nat]
         /\ \A u \in Users : peak[u] <= peak'[u] /\ balance'[u] \in Nat /\ (Next => balance'[u] <= peak'[u])
<1>1. \A u \in Users : balance'[u] \in Nat
  <2>1. \A u \in Users : balance'[u] \in Balance /\ Balance \subseteq Nat
    BY PendingTyped DEF Basic, TypeOK, AccountsTypeOK
  <2> QED BY <2>1
<1>2. CASE UNCHANGED vars
  <2>1. peak' = peak /\ balance' = balance
    BY <1>2 DEF vars, historyVars, accountVars
  <2>2. CASE ~ Next
    BY <1>1, <2>1, <2>2
  <2>3. CASE Next
    <3>1. peak' = [u \in Users |-> Greater(peak[u], balance'[u])]
      BY <2>3 DEF Next, History
    <3> QED BY <1>1, <3>1, GreaterIs
  <2> QED BY <2>2, <2>3
<1>3. CASE Next
  <2>1. peak' = [u \in Users |-> Greater(peak[u], balance'[u])]
    BY <1>3 DEF Next, History
  <2>2. \A u \in Users : Greater(peak[u], balance'[u]) \in Nat
                         /\ peak[u] <= Greater(peak[u], balance'[u]) /\ balance'[u] <= Greater(peak[u], balance'[u])
    BY <1>1, GreaterIs
  <2> QED BY <1>1, <2>1, <2>2
<1> QED BY <1>2, <1>3

(* No balance in use exceeds the peak.                                     *)
LEMMA PeakKept ==
  ASSUME Basic, Basic', PeakInv, [Next]_vars
  PROVE  PeakInv'
<1>1. /\ peak \in [Users -> Nat] /\ peak' \in [Users -> Nat]
      /\ \A u \in Users : peak[u] <= peak'[u] /\ balance'[u] \in Nat /\ (Next => balance'[u] <= peak'[u])
  BY PeakGrows DEF PeakInv
<1>2. \A u \in Users : /\ balance[u] \in Nat /\ balance[u] <= peak[u]
                       /\ (~ Next => balance' = balance)
  BY PendingTyped DEF PeakInv, vars, accountVars
<1>3. ASSUME NEW u \in Users
      PROVE  /\ \A v \in Pending(u)' : v <= peak'[u]
             /\ copy'[u] = None \/ copy'[u] <= peak'[u]
             /\ \A r \in Of(u) : job'[r].pc \in {"check", "recheck"} => job'[r].read <= peak'[u]
  <2>1. balance'[u] <= peak'[u]
    BY <1>1, <1>2
  <2>2. /\ Pending(u)' \subseteq Pending(u) \cup {balance'[u]}
        /\ copy'[u] \in Pending(u) \cup {copy[u], None}
        /\ \A r \in Of(u) : job'[r].pc \in {"check", "recheck"} =>
             \/ job'[r] = job[r]
             \/ job[r].pc = "account" /\ copy[u] # None /\ job'[r].read = copy[u]
             \/ job[r].pc = "inserting" /\ job'[r].read = job[r].read /\ job[r].read \in Pending(u)
    BY FlowIs
  <2>3. peak[u] \in Nat /\ peak'[u] \in Nat /\ peak[u] <= peak'[u]
    BY <1>1
  <2>4. \A v \in Pending(u) : v <= peak'[u]
    <3>1. \A v \in Pending(u) : v \in Nat /\ v <= peak[u]
      BY PendingTyped DEF PeakInv
    <3> QED BY <2>3, <3>1
  <2>5. copy[u] = None \/ copy[u] <= peak'[u]
    <3>1. copy[u] = None \/ (copy[u] \in Nat /\ copy[u] <= peak[u])
      BY PendingTyped DEF PeakInv, Basic, TypeOK, AccountsTypeOK
    <3> QED BY <2>3, <3>1
  <2>6. \A r \in Of(u) : job[r].pc \in {"check", "recheck"} => job[r].read <= peak'[u]
    <3>1. \A r \in Of(u) : job[r].pc \in {"check", "recheck"} => job[r].read \in Nat /\ job[r].read <= peak[u]
      BY PendingTyped DEF PeakInv, Basic, Holding, Of
    <3> QED BY <2>3, <3>1
  <2> QED BY <2>1, <2>2, <2>4, <2>5, <2>6
<1> QED BY <1>1, <1>3 DEF PeakInv

(* A request that is admitted has room below the peak, a bill uses it up.  *)
LEMMA CrowdKept ==
  ASSUME Basic, Basic', PeakInv, FeeInv, CrowdInv, [Next]_vars
  PROVE  CrowdInv' /\ FeeInv'
<1>2. FeeInv'
  <2>1. CASE Users = {}
    <3>1. Requests = {}
      BY <2>1, ProxyAssumption DEF ProxyAssumption
    <3> QED BY <3>1 DEF FeeInv
  <2>2. CASE Users # {}
    BY <2>2, NextOwes
  <2> QED BY <2>1, <2>2
<1>3. /\ MaxCost \in Nat /\ crowd \in [Users -> Nat] /\ peak \in [Users -> Nat] /\ peak' \in [Users -> Nat]
      /\ \A u \in Users : peak[u] <= peak'[u]
  BY ProxyAssumption, PeakGrows DEF ProxyAssumption, CrowdInv, PeakInv
<1>4. \A u \in Users : /\ IsFiniteSet(AdmittedOf(u)) /\ IsFiniteSet(AdmittedOf(u)')
                       /\ Cardinality(AdmittedOf(u)) \in Nat /\ Cardinality(AdmittedOf(u)') \in Nat
  <2> SUFFICES ASSUME NEW u \in Users
               PROVE  /\ IsFiniteSet(AdmittedOf(u)) /\ IsFiniteSet(AdmittedOf(u)')
                      /\ Cardinality(AdmittedOf(u)) \in Nat /\ Cardinality(AdmittedOf(u)') \in Nat
    OBVIOUS
  <2>1. AdmittedOf(u) \subseteq Active /\ AdmittedOf(u)' \subseteq Active'
    BY DEF AdmittedOf, Active, Of, Admitted
  <2>2. IsFiniteSet(AdmittedOf(u)) /\ IsFiniteSet(AdmittedOf(u)')
    BY <2>1, FS_Subset DEF Basic
  <2> QED BY <2>2, FS_CardinalityType
<1>5. \A u \in Users : /\ crowd'[u] \in Nat /\ crowd'[u] \in {crowd[u], Cardinality(AdmittedOf(u)')}
                       /\ crowd[u] <= crowd'[u] /\ Cardinality(AdmittedOf(u)') <= crowd'[u]
  <2>1. CASE UNCHANGED vars
    <3>1. crowd' = crowd /\ job' = job
      BY <2>1 DEF vars, historyVars, requestVars
    <3>2. \A u \in Users : AdmittedOf(u)' = AdmittedOf(u)
      BY <3>1 DEF AdmittedOf, Admitted
    <3> QED BY <1>3, <1>4, <3>1, <3>2 DEF CrowdInv
  <2>2. CASE Next
    <3>1. crowd' = [u \in Users |-> Greater(crowd[u], Cardinality(AdmittedOf(u)'))]
      BY <2>2 DEF Next, History, AdmittedOf
    <3>2. \A u \in Users :
            /\ Greater(crowd[u], Cardinality(AdmittedOf(u)')) \in Nat
            /\ Greater(crowd[u], Cardinality(AdmittedOf(u)')) \in {crowd[u], Cardinality(AdmittedOf(u)')}
            /\ crowd[u] <= Greater(crowd[u], Cardinality(AdmittedOf(u)'))
            /\ Cardinality(AdmittedOf(u)') <= Greater(crowd[u], Cardinality(AdmittedOf(u)'))
      <4> SUFFICES ASSUME NEW u \in Users
                   PROVE  /\ Greater(crowd[u], Cardinality(AdmittedOf(u)')) \in Nat
                          /\ Greater(crowd[u], Cardinality(AdmittedOf(u)')) \in {crowd[u], Cardinality(AdmittedOf(u)')}
                          /\ crowd[u] <= Greater(crowd[u], Cardinality(AdmittedOf(u)'))
                          /\ Cardinality(AdmittedOf(u)') <= Greater(crowd[u], Cardinality(AdmittedOf(u)'))
        OBVIOUS
      <4>1. PICK c \in Nat, a \in Nat : c = crowd[u] /\ a = Cardinality(AdmittedOf(u)')
        BY <1>3, <1>4
      <4>2. /\ Greater(c, a) \in Nat /\ Greater(c, a) >= c /\ Greater(c, a) >= a /\ Greater(c, a) \in {c, a}
        BY GreaterIs
      <4> QED BY <4>1, <4>2
    <3> QED BY <3>1, <3>2
  <2> QED BY <2>1, <2>2
<1>6. crowd' \in [Users -> Nat]
  <2>1. CASE UNCHANGED vars
    BY <1>3, <2>1 DEF vars, historyVars
  <2>2. CASE Next
    <3>1. crowd' = [u \in Users |-> crowd'[u]]
      BY <2>2 DEF Next, History
    <3> QED BY <1>5, <3>1
  <2> QED BY <2>1, <2>2
<1>7. ASSUME NEW u \in Users, crowd'[u] > 0
      PROVE  Unsettled(u)' + Cardinality(AdmittedOf(u)') * MaxCost <= peak'[u] + (crowd'[u] - 1) * MaxCost
  <2>1. PICK m \in Nat, a \in Nat, b \in Nat, c \in Nat, d \in Nat, p \in Nat, q \in Nat, x \in Nat, y \in Nat :
          /\ m = MaxCost /\ a = Cardinality(AdmittedOf(u)) /\ b = Cardinality(AdmittedOf(u)')
          /\ c = crowd[u] /\ d = crowd'[u] /\ p = peak[u] /\ q = peak'[u]
          /\ x = Unsettled(u) /\ y = Unsettled(u)'
    BY <1>3, <1>4, <1>5, UnsettledAre
  <2>2. a <= c /\ (c > 0 => x + a * m <= p + (c - 1) * m)
    BY <2>1 DEF CrowdInv
  <2>3. p <= q /\ b <= d /\ c <= d /\ d > 0 /\ d \in {b, c} /\ d - 1 \in Nat
    BY <1>3, <1>5, <1>7, <2>1
  <2>4. b * m \in Nat /\ a * m \in Nat /\ (d - 1) * m \in Nat
    BY <2>3, TimesIs
  <2>5. SUFFICES y + b * m <= q + (d - 1) * m
    BY <2>1
  <2>6. CASE Lessens(u)
    <3>1. b <= a /\ y <= x
      BY <1>4, <2>1, <2>6, FS_Subset DEF Lessens
    <3>2. d = c
      BY <2>2, <2>3, <3>1
    <3>3. b * m <= a * m
      BY <3>1, TimesIs
    <3>4. x + a * m <= p + (d - 1) * m
      BY <2>2, <2>3, <3>2
    <3> QED BY <2>3, <2>4, <3>1, <3>3, <3>4
  <2>7. ASSUME NEW r \in Requests, Admits(u, r) PROVE y + b * m <= q + (d - 1) * m
    <3>1. b = a + 1 /\ y = x
      BY <1>4, <2>1, <2>7, FS_AddElement DEF Admits
    <3>2. x + m <= p
      <4>1. Estimate + x + Reservation <= job[r].read /\ job[r].read <= p
        BY <2>1, <2>7 DEF Admits, Adequate, PeakInv, Of
      <4>2. job[r].read \in Nat
        BY <2>7, PendingTyped DEF Admits, Basic, Holding, Of
      <4>3. Estimate \in Nat /\ Reservation \in Nat /\ m <= Estimate + Reservation
        BY <2>1, ProxyAssumption DEF ProxyAssumption
      <4> QED BY <4>1, <4>2, <4>3
    <3>3. b * m = a * m + m
      BY <3>1, TimesIs
    <3>4. a * m <= (d - 1) * m
      <4>1. a <= d - 1
        BY <2>3, <3>1
      <4> QED BY <2>3, <4>1, TimesIs
    <3> QED BY <2>3, <2>4, <3>1, <3>2, <3>3, <3>4
  <2>8. ASSUME NEW r \in Requests, Bills(u, r) PROVE y + b * m <= q + (d - 1) * m
    <3>1. a = b + 1 /\ y <= x + m
      <4>1. r \in AdmittedOf(u) /\ AdmittedOf(u)' = AdmittedOf(u) \ {r} /\ y <= x + m
        BY <2>1, <2>8 DEF Bills
      <4>2. Cardinality(AdmittedOf(u)') = Cardinality(AdmittedOf(u)) - 1
        BY <1>4, <4>1, FS_RemoveElement
      <4> QED BY <2>1, <4>1, <4>2
    <3>2. d = c
      BY <2>2, <2>3, <3>1
    <3>3. a * m = b * m + m
      BY <3>1, TimesIs
    <3>4. x + a * m <= p + (d - 1) * m
      BY <2>2, <2>3, <3>2
    <3> QED BY <2>3, <2>4, <3>1, <3>3, <3>4
  <2> QED BY <2>6, <2>7, <2>8, NextOwes
<1> QED BY <1>2, <1>5, <1>6, <1>7 DEF CrowdInv

(* At first nobody owes anything.                                          *)
LEMMA ExposureStarts == Init => PeakInv /\ CrowdInv /\ FeeInv
<1> SUFFICES ASSUME Init PROVE PeakInv /\ CrowdInv /\ FeeInv
  OBVIOUS
<1>1. \A r \in Requests : job[r].pc = "idle" /\ fee[r] = 0
  BY NoJobIs DEF Init
<1>2. \A u \in Users : AdmittedOf(u) = {}
  BY <1>1 DEF AdmittedOf, Admitted, Of
<1>3. \A u \in Users : Pending(u) = {0} /\ copy[u] = None
  <2>1. \A u \in Users : InHand(u) = {}
    BY <1>1 DEF InHand, Of
  <2>2. \A p \in Processes : sync[p].list = << >>
    BY NoSyncIs DEF Init, AccountsInit
  <2>3. \A u \in Users : Entries(u) = {}
    BY <2>2, EntriesAre
  <2>4. \A u \in Users : balance[u] = 0 /\ copy[u] = None
    BY DEF Init, AccountsInit
  <2> QED BY <2>1, <2>3, <2>4, PendingIs
<1>4. peak = [u \in Users |-> 0] /\ crowd = [u \in Users |-> 0]
  BY DEF Init
<1>5. PeakInv
  BY <1>1, <1>3, <1>4 DEF PeakInv, Of
<1>6. CrowdInv
  BY <1>2, <1>4, FS_EmptySet DEF CrowdInv
<1> QED BY <1>1, <1>5, <1>6 DEF FeeInv

(* A customer owes no more than the highest balance of its account, and    *)
(* one response for every other request it had under way at the same time. *)
THEOREM ExposureIsBounded == Spec => []ExposureBounded
<1> DEFINE I == Basic /\ PeakInv /\ CrowdInv /\ FeeInv
<1>1. Init => I
  BY InitTyped, ExposureStarts
<1>2. I /\ [Next]_vars => I'
  BY NextTyped, PeakKept, CrowdKept
<1>3. I => ExposureBounded
  <2> SUFFICES ASSUME I, NEW u \in Users, crowd[u] > 0
               PROVE  Unsettled(u) <= peak[u] + (crowd[u] - 1) * MaxCost
    BY DEF ExposureBounded
  <2>1. AdmittedOf(u) \subseteq Active
    BY DEF AdmittedOf, Active, Of, Admitted
  <2>2. Cardinality(AdmittedOf(u)) \in Nat
    BY <2>1, FS_Subset, FS_CardinalityType DEF Basic
  <2>3. PICK m \in Nat, a \in Nat, c \in Nat, p \in Nat, x \in Nat :
          m = MaxCost /\ a = Cardinality(AdmittedOf(u)) /\ c = crowd[u] /\ p = peak[u] /\ x = Unsettled(u)
    <3>1. MaxCost \in Nat /\ crowd[u] \in Nat /\ peak[u] \in Nat
      BY ProxyAssumption DEF ProxyAssumption, CrowdInv, PeakInv
    <3>2. Unsettled(u) \in Nat
      BY UnsettledIs
    <3> QED BY <2>2, <3>1, <3>2
  <2>4. x + a * m <= p + (c - 1) * m /\ c - 1 \in Nat
    BY <2>3 DEF CrowdInv
  <2>5. a * m \in Nat /\ (c - 1) * m \in Nat
    BY <2>4, TimesIs
  <2> QED BY <2>3, <2>4, <2>5
<1> HIDE DEF I
<1> QED BY <1>1, <1>2, <1>3, PTL DEF Spec

------------------------------------------------------------------------------
(* A synchronization that nobody disturbs.                                 *)

(* l holds the first n accounts of the ledger g with their balances b.     *)
ReadOff(l, g, b, n) ==
  Len(l) = n /\ \A i \in 1 .. n : l[i].user = g[i] /\ l[i].balance = b[g[i]]

(* The elements of two lists put together.                                 *)
LEMMA ConcatIs ==
  ASSUME NEW S, NEW l \in Seq(S), NEW j \in Seq(S)
  PROVE  /\ Len(l \o j) = Len(l) + Len(j)
         /\ \A i \in 1 .. Len(l) : (l \o j)[i] = l[i]
         /\ \A i \in 1 .. Len(j) : (l \o j)[Len(l) + i] = j[i]
OBVIOUS

(* A page read after the first n accounts makes the first m.               *)
LEMMA PageReads ==
  ASSUME NEW g \in Seq(Users), NEW b \in [Users -> Balance], NEW l \in Seq(Entry), NEW n \in Nat, NEW m \in Nat,
         n <= m, m <= Len(g), ReadOff(l, g, b, n), NEW page, page = SubSeq(g, n + 1, m),
         NEW k, k = [i \in DOMAIN page |-> [user |-> page[i], balance |-> b[page[i]]]]
  PROVE  ReadOff(l \o k, g, b, m)
<1>1. Len(g) \in Nat /\ Len(page) = m - n /\ page \in Seq(Users) /\ \A i \in 1 .. m - n : page[i] = g[n + i]
  OBVIOUS
<1>2. \A i \in 1 .. m - n : page[i] \in Users
  BY <1>1
<1>3. DOMAIN page = 1 .. m - n /\ m - n \in Nat
  BY <1>1
<1>4. k \in [1 .. m - n -> Entry] /\ \A i \in 1 .. m - n : k[i].user = g[n + i] /\ k[i].balance = b[g[n + i]]
  <2>1. \A i \in 1 .. m - n : [user |-> page[i], balance |-> b[page[i]]] \in Entry
    BY <1>2 DEF Entry
  <2> QED BY <1>1, <1>3, <2>1
<1>5. PICK j \in Seq(Entry) : j = k /\ Len(j) = m - n
  <2>1. PICK x \in Nat : x = m - n
    BY <1>3
  <2>2. PICK j : j = k
    OBVIOUS
  <2>3. j \in [1 .. x -> Entry]
    BY <1>4, <2>1, <2>2
  <2>4. j \in Seq(Entry) /\ Len(j) = x
    BY <2>3
  <2> QED BY <2>1, <2>2, <2>4
<1>6. PICK t : t = l \o j
  OBVIOUS
<1>7. Len(l) = n /\ \A i \in 1 .. n : l[i].user = g[i] /\ l[i].balance = b[g[i]]
  BY DEF ReadOff
<1>8. /\ Len(t) = m /\ \A i \in 1 .. n : t[i] = l[i]
      /\ \A i \in 1 .. m - n : t[n + i] = j[i]
  <2>1. /\ Len(t) = Len(l) + Len(j)
        /\ \A i \in 1 .. Len(l) : t[i] = l[i]
        /\ \A i \in 1 .. Len(j) : t[Len(l) + i] = j[i]
    BY <1>6, ConcatIs
  <2>2. Len(l) = n /\ Len(j) = m - n /\ n + (m - n) = m
    BY <1>5, <1>7
  <2>3. Len(t) = n + (m - n)
    BY <2>1, <2>2
  <2>4. (\A i \in 1 .. n : t[i] = l[i]) /\ \A i \in 1 .. m - n : t[n + i] = j[i]
    BY <2>1, <2>2
  <2> QED BY <2>2, <2>3, <2>4
<1>9. ASSUME NEW i \in 1 .. m PROVE t[i].user = g[i] /\ t[i].balance = b[g[i]]
  <2>1. CASE i <= n
    <3>1. t[i] = l[i]
      BY <1>8, <2>1
    <3> QED BY <1>7, <2>1, <3>1
  <2>2. CASE ~ i <= n
    <3>1. t[i] = j[i - n] /\ i - n \in 1 .. m - n /\ n + (i - n) = i
      <4>1. i - n \in 1 .. m - n /\ n + (i - n) = i
        BY <2>2
      <4> QED BY <1>8, <4>1
    <3>2. \A x \in 1 .. m - n : k[x].user = g[n + x] /\ k[x].balance = b[g[n + x]]
      BY <1>4
    <3>3. j[i - n].user = g[n + (i - n)] /\ j[i - n].balance = b[g[n + (i - n)]]
      BY <1>5, <3>1, <3>2
    <3> QED BY <3>1, <3>3
  <2> QED BY <2>1, <2>2
<1> QED BY <1>5, <1>6, <1>8, <1>9 DEF ReadOff

(* The contract lists no account twice.                                    *)
LedgerInv == \A i \in DOMAIN ledger : \A k \in DOMAIN ledger : ledger[i] = ledger[k] => i = k

(* Opening appends an account, closing moves the last into the gap.        *)
LEMMA LedgerKept ==
  ASSUME Basic, LedgerInv, [Next]_vars
  PROVE  LedgerInv'
<1>1. ledger \in Seq(Users) /\ Len(ledger) \in Nat /\ DOMAIN ledger = 1 .. Len(ledger)
  BY DEF Basic, TypeOK, AccountsTypeOK
<1>2. CASE UNCHANGED ledger
  BY <1>2 DEF LedgerInv
<1>3. ASSUME NEW u \in Users, OpenAccount(u) PROVE LedgerInv'
  <2>1. PICK g : g = Append(ledger, u)
    OBVIOUS
  <2>2. /\ Len(g) = Len(ledger) + 1 /\ g[Len(g)] = u /\ DOMAIN g = 1 .. Len(g)
        /\ \A i \in 1 .. Len(ledger) : g[i] = ledger[i] /\ ledger[i] # u
    BY <1>1, <1>3, <2>1 DEF OpenAccount, Opened
  <2>3. ledger' = g
    BY <1>3, <2>1 DEF OpenAccount
  <2>4. \A i \in 1 .. Len(ledger) : \A k \in 1 .. Len(ledger) : ledger[i] = ledger[k] => i = k
    BY <1>1 DEF LedgerInv
  <2>5. ASSUME NEW i \in DOMAIN g, NEW k \in DOMAIN g, g[i] = g[k] PROVE i = k
    <3>1. /\ i \in 1 .. Len(ledger) \/ i = Len(g)
          /\ k \in 1 .. Len(ledger) \/ k = Len(g)
      BY <1>1, <2>2
    <3> QED BY <2>2, <2>4, <2>5, <3>1
  <2> QED BY <2>3, <2>5 DEF LedgerInv
<1>4. ASSUME NEW u \in Users, CloseAccount(u) PROVE LedgerInv'
  <2>1. PICK n \in Nat : n = Len(ledger)
    BY <1>1
  <2>2. PICK c \in 1 .. n : ledger[c] = u
    BY <1>1, <1>4, <2>1 DEF CloseAccount, Opened
  <2>3. ledger' = [i \in 1 .. n - 1 |-> IF ledger[i] = u THEN ledger[n] ELSE ledger[i]]
    BY <1>4, <2>1 DEF CloseAccount
  <2>4. \A i \in 1 .. n : \A k \in 1 .. n : ledger[i] = ledger[k] => i = k
    BY <1>1, <2>1 DEF LedgerInv
  <2>5. ASSUME NEW i \in 1 .. n - 1, NEW k \in 1 .. n - 1, ledger'[i] = ledger'[k] PROVE i = k
    <3>1. i \in 1 .. n /\ k \in 1 .. n /\ n \in 1 .. n /\ i # n /\ k # n
      BY <2>1
    <3>2. /\ ledger'[i] = (IF ledger[i] = u THEN ledger[n] ELSE ledger[i])
          /\ ledger'[k] = (IF ledger[k] = u THEN ledger[n] ELSE ledger[k])
      BY <2>3
    <3> QED BY <2>2, <2>4, <2>5, <3>1, <3>2
  <2>6. DOMAIN ledger' = 1 .. n - 1
    BY <2>3
  <2> QED BY <2>5, <2>6 DEF LedgerInv
<1>5. ASSUME NEW r \in Requests, ValidateSession(r) \/ RequestStep(r) \/ PruneRequest(r) \/ SignatureExpires(r)
      PROVE  UNCHANGED ledger
  BY <1>5, HandlerIs DEF PruneRequest, SignatureExpires, accountVars
<1>6. AccountStep => UNCHANGED ledger
  BY AccountIs DEF Basic
<1>7. Tick \/ UNCHANGED vars => UNCHANGED ledger
  BY DEF Tick, vars, accountVars
<1>8. ASSUME NEW u \in Users, SettleFees(u) \/ ChangeBalance(u) PROVE UNCHANGED ledger
  BY <1>8 DEF SettleFees, ChangeBalance
<1> QED BY <1>2, <1>3, <1>4, <1>5, <1>6, <1>7, <1>8 DEF Next, ContractStep

(* While nobody disturbs p: what it listed is what the contract says; the  *)
(* rows it found are still there, those of new accounts are right, and     *)
(* those of old ones are as far as the run has come.                       *)
Undisturbed(p) ==
  LET s == sync[p] IN
  /\ s.pc \in {"listing", "listed", "creating", "updating"}
  /\ s.pc = "listing" => s.next <= Len(ledger) /\ ReadOff(s.list, ledger, balance, s.next)
  /\ s.pc \in {"listed", "creating"} => s.next = 1
  /\ s.pc # "listing" => ReadOff(s.list, ledger, balance, Len(ledger))
  /\ s.pc = "creating" => s.olds = {u \in Users : copy[u] # None}
  /\ s.pc = "updating" =>
       /\ \A u \in Users : copy[u] # None <=> u \in s.olds \/ Opened(u)
       /\ \A i \in DOMAIN ledger : ledger[i] \notin s.olds \/ i < s.next
            => copy[ledger[i]] = balance[ledger[i]]

AloneInv ==
  /\ alone \in [Processes -> BOOLEAN]
  /\ \A p \in Processes : alone[p] => Undisturbed(p)

(* What the entries of such a list are for.                                *)
LEMMA ToUpdateIs ==
  ASSUME TypeOK, LedgerInv, NEW p \in Processes, ReadOff(sync[p].list, ledger, balance, Len(ledger))
  PROVE  /\ DOMAIN sync[p].list = DOMAIN ledger /\ DOMAIN ledger = 1 .. Len(ledger)
         /\ ledger \in Seq(Users) /\ Len(ledger) \in Nat /\ \A i \in DOMAIN ledger : ledger[i] \in Users
         /\ \A i \in DOMAIN ledger : /\ sync[p].list[i].user = ledger[i]
                                     /\ sync[p].list[i].balance = balance[ledger[i]]
         /\ ToUpdate(sync[p]) = {i \in DOMAIN ledger : ledger[i] \in sync[p].olds}
<1>1. /\ DOMAIN sync[p].list = 1 .. Len(sync[p].list) /\ ledger \in Seq(Users)
      /\ Len(ledger) \in Nat /\ DOMAIN ledger = 1 .. Len(ledger)
  BY ListIs DEF TypeOK, AccountsTypeOK
<1>2. /\ DOMAIN sync[p].list = DOMAIN ledger
      /\ \A i \in DOMAIN ledger : /\ sync[p].list[i].user = ledger[i]
                                  /\ sync[p].list[i].balance = balance[ledger[i]]
  BY <1>1 DEF ReadOff
<1>3. \A i \in DOMAIN ledger : ledger[i] \in Users
  BY <1>1
<1>4. \A i \in DOMAIN ledger : \A k \in 1 .. i - 1 : sync[p].list[k].user # sync[p].list[i].user
  <2> SUFFICES ASSUME NEW i \in DOMAIN ledger, NEW k \in 1 .. i - 1,
                      sync[p].list[k].user = sync[p].list[i].user
               PROVE  FALSE
    OBVIOUS
  <2>1. k \in DOMAIN ledger /\ k # i
    BY <1>1
  <2> QED BY <1>2, <2>1 DEF LedgerInv
<1>5. ToUpdate(sync[p]) = {i \in DOMAIN ledger : ledger[i] \in sync[p].olds}
  BY <1>2, <1>4 DEF ToUpdate
<1> QED BY <1>1, <1>2, <1>3, <1>5

(* Only a step of its own changes a run.                                   *)
LEMMA SyncActor ==
  ASSUME Basic, Next, NEW p \in Processes, sync'[p] # sync[p]
  PROVE  SyncStep(p) \/ SyncUserAccounts(p)
<1>1. ASSUME NEW r \in Requests, ValidateSession(r) \/ RequestStep(r) \/ PruneRequest(r) \/ SignatureExpires(r)
      PROVE  UNCHANGED sync
  BY <1>1, HandlerIs DEF PruneRequest, SignatureExpires, accountVars
<1>2. ContractStep \/ Tick => UNCHANGED sync
  BY DEF ContractStep, SettleFees, OpenAccount, CloseAccount, ChangeBalance, Tick, accountVars
<1>3. ASSUME NEW q \in Processes, SyncStep(q), q # p PROVE sync'[p] = sync[p]
  BY <1>3, SyncStepIs DEF Basic
<1>4. ASSUME NEW q \in Processes, SyncUserAccounts(q), q # p PROVE sync'[p] = sync[p]
  BY <1>4 DEF SyncUserAccounts, Move, Basic, TypeOK, AccountsTypeOK
<1>5. Server \in Processes /\ Event \in Processes
  BY ProxyAssumption DEF ProxyAssumption
<1> QED BY <1>1, <1>2, <1>3, <1>4, <1>5 DEF Next, AccountStep, ProcessSettlement

(* An undisturbed run keeps what it has achieved.                          *)
LEMMA UndisturbedGoesOn ==
  ASSUME Basic, LedgerInv, NEW p \in Processes, Undisturbed(p), SyncStep(p), sync'[p].pc # "idle"
  PROVE  Undisturbed(p)'
<1>1. /\ TypeOK /\ sync[p] \in Sync /\ sync[p].list \in Seq(Entry) /\ sync[p].next \in Nat
      /\ ledger \in Seq(Users) /\ Len(ledger) \in Nat /\ DOMAIN ledger = 1 .. Len(ledger)
      /\ balance \in [Users -> Balance] /\ PageSize \in Nat
      /\ copy \in [Users -> Balance \cup {None}] /\ sync \in [Processes -> Sync]
      /\ None \notin Balance
  <2>1. TypeOK
    BY DEF Basic
  <2>2. None \notin Balance
    BY AccountsAssumption DEF AccountsAssumption, Balance
  <2> QED BY <2>1, <2>2, ListIs, AccountsAssumption DEF TypeOK, AccountsTypeOK, AccountsAssumption
<1>2. UNCHANGED << balance, ledger >>
  BY <1>1, SyncStepIs
<1>3. \A s : Move(p, s) => sync'[p] = s
  BY <1>1 DEF Move
<1>4. CASE ListPage(p)
  <2>1. PICK n \in Nat, l \in Seq(Entry) : n = sync[p].next /\ l = sync[p].list /\ sync[p].pc = "listing"
    BY <1>1, <1>4 DEF ListPage
  <2>2. PICK m \in Nat : m = IF n + PageSize < Len(ledger) THEN n + PageSize ELSE Len(ledger)
    <3>1. PICK b \in Nat, e \in Nat : b = Len(ledger) /\ e = PageSize
      BY <1>1
    <3>2. n + e \in Nat
      OBVIOUS
    <3> QED BY <3>1, <3>2
  <2>3. PICK page : page = SubSeq(ledger, n + 1, m)
    OBVIOUS
  <2>4. PICK k : k = [i \in DOMAIN page |-> [user |-> page[i], balance |-> balance[page[i]]]]
    OBVIOUS
  <2>5. n <= Len(ledger) /\ ReadOff(l, ledger, balance, n)
    BY <2>1 DEF Undisturbed
  <2>6. n <= m /\ m <= Len(ledger)
    <3>1. PICK b \in Nat, e \in Nat : b = Len(ledger) /\ e = PageSize
      BY <1>1
    <3> QED BY <2>2, <2>5, <3>1
  <2>7. ReadOff(l \o k, ledger, balance, m)
    BY <1>1, <2>3, <2>4, <2>5, <2>6, PageReads
  <2>8. Move(p, [sync[p] EXCEPT
            !.list = l \o k,
            !.next = IF n + PageSize < Len(ledger) THEN n + PageSize ELSE 1,
            !.pc = IF n + PageSize < Len(ledger) THEN "listing" ELSE "listed"])
    BY <1>4, <2>1, <2>2, <2>3, <2>4 DEF ListPage
  <2>9. PICK t : t = l \o k
    OBVIOUS
  <2>10. /\ sync'[p].list = t
         /\ sync'[p].next = (IF n + PageSize < Len(ledger) THEN n + PageSize ELSE 1)
         /\ sync'[p].pc = IF n + PageSize < Len(ledger) THEN "listing" ELSE "listed"
    <3> HIDE DEF Move
    <3>1. PICK c : c = IF n + PageSize < Len(ledger) THEN "listing" ELSE "listed"
      OBVIOUS
    <3>2. PICK x : x = IF n + PageSize < Len(ledger) THEN n + PageSize ELSE 1
      OBVIOUS
    <3>3. sync'[p] = [sync[p] EXCEPT !.list = t, !.next = x, !.pc = c]
      BY <1>3, <2>8, <2>9, <3>1, <3>2
    <3>4. sync'[p].list = t /\ sync'[p].next = x /\ sync'[p].pc = c
      BY <1>1, <3>3 DEF Sync
    <3> QED BY <3>1, <3>2, <3>4
  <2>11. CASE n + PageSize < Len(ledger)
    BY <1>2, <2>2, <2>6, <2>7, <2>9, <2>10, <2>11 DEF Undisturbed
  <2>12. CASE ~ n + PageSize < Len(ledger)
    BY <1>2, <2>2, <2>7, <2>9, <2>10, <2>12 DEF Undisturbed
  <2> QED BY <2>11, <2>12
<1>5. CASE ListOlds(p)
  <2>1. /\ sync[p].pc = "listed" /\ copy' = copy
        /\ sync'[p] = [sync[p] EXCEPT !.pc = "creating", !.olds = {u \in Users : copy[u] # None}]
    BY <1>3, <1>5 DEF ListOlds
  <2>2. /\ sync'[p].pc = "creating" /\ sync'[p].list = sync[p].list /\ sync'[p].next = sync[p].next
        /\ sync'[p].olds = {u \in Users : copy[u] # None}
    BY <1>1, <2>1 DEF Sync
  <2>3. sync[p].next = 1 /\ ReadOff(sync[p].list, ledger, balance, Len(ledger))
    BY <2>1 DEF Undisturbed
  <2> QED BY <1>2, <2>1, <2>2, <2>3 DEF Undisturbed
<1>6. CASE CreateUserAccounts(p)
  <2> DEFINE added(u) == {i \in ToAdd(sync[p]) : sync[p].list[i].user = u}
             new(u) == CHOOSE i \in added(u) : TRUE
  <2>1. /\ sync[p].pc = "creating"
        /\ copy' = [u \in Users |-> IF added(u) = {} THEN copy[u] ELSE sync[p].list[new(u)].balance]
        /\ sync'[p] = [sync[p] EXCEPT !.pc = "updating"]
    BY <1>3, <1>6 DEF CreateUserAccounts
  <2>2. /\ sync[p].next = 1 /\ ReadOff(sync[p].list, ledger, balance, Len(ledger))
        /\ sync[p].olds = {u \in Users : copy[u] # None}
    BY <2>1 DEF Undisturbed
  <2>3. /\ sync'[p].pc = "updating" /\ sync'[p].list = sync[p].list /\ sync'[p].next = 1
        /\ sync'[p].olds = sync[p].olds
    BY <1>1, <2>1, <2>2 DEF Sync
  <2>4. /\ DOMAIN sync[p].list = DOMAIN ledger
        /\ \A i \in DOMAIN ledger : ledger[i] \in Users
        /\ \A i \in DOMAIN ledger : /\ sync[p].list[i].user = ledger[i]
                                    /\ sync[p].list[i].balance = balance[ledger[i]]
        /\ ToUpdate(sync[p]) = {i \in DOMAIN ledger : ledger[i] \in sync[p].olds}
    BY <1>1, <2>2, ToUpdateIs
  <2>5. \A u \in Users : added(u) = {i \in DOMAIN ledger : ledger[i] = u /\ u \notin sync[p].olds}
    BY <2>4 DEF ToAdd
  <2>6. \A u \in Users : added(u) # {} => copy'[u] = balance[u]
    <3> SUFFICES ASSUME NEW u \in Users, added(u) # {} PROVE copy'[u] = balance[u]
      OBVIOUS
    <3>1. new(u) \in added(u)
      OBVIOUS
    <3>2. new(u) \in DOMAIN ledger /\ ledger[new(u)] = u
      BY <2>5, <3>1
    <3> HIDE DEF new
    <3>3. copy'[u] = sync[p].list[new(u)].balance
      BY <2>1
    <3> QED BY <2>4, <3>2, <3>3
  <2>7. \A u \in Users : added(u) = {} => copy'[u] = copy[u]
    <3> HIDE DEF new
    <3> QED BY <2>1
  <2>8. \A u \in Users : added(u) # {} <=> Opened(u) /\ u \notin sync[p].olds
    BY <2>5 DEF Opened
  <2>9. \A u \in Users : balance[u] # None
    BY <1>1
  <2> HIDE DEF added, new
  <2>10. \A u \in Users : copy'[u] # None <=> u \in sync[p].olds \/ Opened(u)
    BY <2>2, <2>6, <2>7, <2>8, <2>9
  <2>11. \A u \in Users : Opened(u)' = Opened(u)
    BY <1>2 DEF Opened
  <2>12. \A i \in DOMAIN ledger : ledger[i] \notin sync[p].olds \/ i < 1 => copy'[ledger[i]] = balance[ledger[i]]
    <3> SUFFICES ASSUME NEW i \in DOMAIN ledger, ledger[i] \notin sync[p].olds
                 PROVE  copy'[ledger[i]] = balance[ledger[i]]
      BY <1>1
    <3>1. Opened(ledger[i]) /\ ledger[i] \in Users
      BY <2>4 DEF Opened
    <3> QED BY <2>6, <2>8, <3>1
  <2> QED BY <1>2, <2>2, <2>3, <2>10, <2>11, <2>12 DEF Undisturbed
<1>7. CASE UpdateNext(p)
  <2> DEFINE left == {i \in ToUpdate(sync[p]) : i >= sync[p].next}
  <2>1. PICK i : i = CHOOSE k \in left : \A l \in left : k <= l
    OBVIOUS
  <2>2. /\ sync[p].pc = "updating"
        /\ copy' = [copy EXCEPT ![sync[p].list[i].user] = IF @ = None THEN None ELSE sync[p].list[i].balance]
        /\ sync'[p] = [sync[p] EXCEPT !.next = i + 1]
    BY <1>3, <1>7, <2>1 DEF UpdateNext
  <2>3. /\ ReadOff(sync[p].list, ledger, balance, Len(ledger))
        /\ \A u \in Users : copy[u] # None <=> u \in sync[p].olds \/ Opened(u)
        /\ \A k \in DOMAIN ledger : ledger[k] \notin sync[p].olds \/ k < sync[p].next
             => copy[ledger[k]] = balance[ledger[k]]
    BY <2>2 DEF Undisturbed
  <2>4. /\ \A k \in DOMAIN ledger : ledger[k] \in Users
        /\ \A k \in DOMAIN ledger : /\ sync[p].list[k].user = ledger[k]
                                    /\ sync[p].list[k].balance = balance[ledger[k]]
        /\ ToUpdate(sync[p]) = {k \in DOMAIN ledger : ledger[k] \in sync[p].olds}
    BY <1>1, <2>3, ToUpdateIs
  <2>5. i \in left /\ \A k \in left : i <= k
    <3>1. left # {}
      BY <1>7 DEF UpdateNext
    <3>2. \A k \in left : k \in Nat
      BY <1>1, <2>4
    <3> HIDE DEF left
    <3>3. left \in SUBSET Nat /\ left # {}
      BY <3>1, <3>2
    <3>4. \E k \in left : \A l \in left : k <= l
      BY <3>3, LeastNat
    <3> QED BY <2>1, <3>4
  <2>6. i \in DOMAIN ledger /\ i \in Nat /\ ledger[i] \in sync[p].olds /\ ledger[i] \in Users
    BY <1>1, <2>4, <2>5
  <2>7. copy' = [copy EXCEPT ![ledger[i]] = balance[ledger[i]]]
    <3>1. copy[ledger[i]] # None
      BY <2>3, <2>6
    <3> HIDE DEF left
    <3> QED BY <2>2, <2>4, <2>6, <3>1
  <2>8. /\ sync'[p].pc = "updating" /\ sync'[p].list = sync[p].list /\ sync'[p].next = i + 1
        /\ sync'[p].olds = sync[p].olds
    <3> HIDE DEF left
    <3> QED BY <1>1, <2>2 DEF Sync
  <2>9. \A u \in Users : copy'[u] # None <=> u \in sync[p].olds \/ Opened(u)
    <3>1. \A u \in Users : balance[u] # None
      BY <1>1
    <3> HIDE DEF left
    <3> QED BY <1>1, <2>3, <2>6, <2>7, <3>1
  <2>10. ASSUME NEW k \in DOMAIN ledger, ledger[k] \notin sync[p].olds \/ k < i + 1
         PROVE  copy'[ledger[k]] = balance[ledger[k]]
    <3>1. CASE k = i
      <4> HIDE DEF left
      <4> QED BY <1>1, <2>6, <2>7, <3>1
    <3>2. CASE k # i
      <4>1. ledger[k] # ledger[i] /\ ledger[k] \in Users
        BY <2>4, <2>6, <3>2 DEF LedgerInv
      <4>2. ledger[k] \notin sync[p].olds \/ k < sync[p].next
        <5>1. ASSUME ledger[k] \in sync[p].olds, k >= sync[p].next PROVE FALSE
          <6>1. k \in left
            BY <2>4, <5>1
          <6>2. i <= k /\ k \in Nat
            BY <1>1, <2>5, <6>1
          <6>3. k < i + 1
            BY <2>10, <5>1
          <6> QED BY <2>6, <3>2, <6>2, <6>3
        <5>2. k \in Nat
          BY <1>1
        <5> QED BY <1>1, <5>1, <5>2
      <4> HIDE DEF left
      <4> QED BY <1>1, <2>3, <2>7, <4>1, <4>2
    <3> QED BY <3>1, <3>2
  <2>11. \A u \in Users : Opened(u)' = Opened(u)
    BY <1>2 DEF Opened
  <2> HIDE DEF left
  <2> QED BY <1>2, <2>3, <2>8, <2>9, <2>10, <2>11 DEF Undisturbed
<1>8. CASE ListFails(p) \/ CreateFails(p) \/ UpdateFails(p) \/ DeleteUserAccounts(p)
  <2>1. Move(p, NoSync)
    BY <1>8 DEF ListFails, CreateFails, UpdateFails, DeleteUserAccounts, Abort
  <2> QED BY <1>3, <2>1, NoSyncIs
<1> QED BY <1>4, <1>5, <1>6, <1>7, <1>8 DEF SyncStep

(* At its end, the user table is what the contract says.                   *)
LEMMA UndisturbedEnds ==
  ASSUME Basic, LedgerInv, NEW p \in Processes, Undisturbed(p), DeleteUserAccounts(p), NEW u \in Users
  PROVE  copy'[u] = IF Opened(u) THEN balance[u] ELSE None
<1>1. TypeOK /\ sync[p].next \in Nat /\ sync \in [Processes -> Sync] /\ sync[p] \in Sync
  <2>1. TypeOK
    BY DEF Basic
  <2> QED BY <2>1, ListIs DEF TypeOK, AccountsTypeOK
<1>2. /\ \A i \in ToUpdate(sync[p]) : i < sync[p].next
      /\ copy' = [v \in Users |-> IF v \in ToRemove(sync[p]) /\ copy[v] # None THEN None ELSE copy[v]]
  <2>1. \A v \in Users : v \in {x \in ToRemove(sync[p]) : copy[x] # None} <=> v \in ToRemove(sync[p]) /\ copy[v] # None
    OBVIOUS
  <2> QED BY <2>1 DEF DeleteUserAccounts
<1>3. /\ ReadOff(sync[p].list, ledger, balance, Len(ledger))
      /\ copy[u] # None <=> u \in sync[p].olds \/ Opened(u)
      /\ \A i \in DOMAIN ledger : ledger[i] \notin sync[p].olds \/ i < sync[p].next
           => copy[ledger[i]] = balance[ledger[i]]
  BY DEF Undisturbed, DeleteUserAccounts
<1>4. /\ DOMAIN sync[p].list = DOMAIN ledger
      /\ \A i \in DOMAIN ledger : sync[p].list[i].user = ledger[i]
      /\ ToUpdate(sync[p]) = {i \in DOMAIN ledger : ledger[i] \in sync[p].olds}
  BY <1>1, <1>3, ToUpdateIs
<1>5. u \in ToRemove(sync[p]) <=> u \in sync[p].olds /\ ~ Opened(u)
  BY <1>4 DEF ToRemove, Opened
<1>6. CASE Opened(u)
  <2>1. PICK i \in DOMAIN ledger : ledger[i] = u
    BY <1>6 DEF Opened
  <2>2. ledger[i] \notin sync[p].olds \/ i < sync[p].next
    BY <1>2, <1>4, <2>1
  <2> QED BY <1>2, <1>3, <1>5, <1>6, <2>1, <2>2
<1>7. CASE ~ Opened(u)
  BY <1>2, <1>3, <1>5, <1>7
<1> QED BY <1>6, <1>7

(* A run is disturbed or goes on as it should.                             *)
LEMMA AloneKept ==
  ASSUME Basic, LedgerInv, AloneInv, [Next]_vars
  PROVE  AloneInv'
<1>1. CASE UNCHANGED vars
  <2>1. UNCHANGED << alone, sync, copy, ledger, balance >>
    BY <1>1 DEF vars, accountVars, historyVars
  <2> QED BY <2>1 DEF AloneInv, Undisturbed, Opened
<1>2. CASE Next
  <2>1. alone' = [p \in Processes |->
          \/ sync[p].pc = "idle" /\ sync'[p].pc = "listing"
          \/ /\ alone[p] /\ sync'[p].pc # "idle"
             /\ UNCHANGED << ledger, balance >> /\ (copy' = copy \/ sync'[p] # sync[p])]
    BY <1>2 DEF Next, History
  <2>2. \A p \in Processes : alone'[p] =
          ( \/ sync[p].pc = "idle" /\ sync'[p].pc = "listing"
            \/ /\ alone[p] /\ sync'[p].pc # "idle"
               /\ UNCHANGED << ledger, balance >> /\ (copy' = copy \/ sync'[p] # sync[p]) )
    BY <2>1
  <2>3. alone' \in [Processes -> BOOLEAN]
    BY <2>1
  <2>4. ASSUME NEW p \in Processes, sync'[p] # sync[p] PROVE SyncStep(p) \/ SyncUserAccounts(p)
    BY <1>2, <2>4, SyncActor
  <2>5. ASSUME NEW p \in Processes, sync[p].pc = "idle", sync'[p].pc = "listing" PROVE Undisturbed(p)'
    <3>1. SyncUserAccounts(p)
      BY <2>4, <2>5 DEF SyncStep, ListPage, ListFails, ListOlds, CreateUserAccounts, CreateFails, UpdateNext,
         UpdateFails, DeleteUserAccounts
    <3>2. sync'[p] = [NoSync EXCEPT !.pc = "listing"] /\ UNCHANGED << balance, ledger >>
      BY <3>1 DEF SyncUserAccounts, Move, Basic, TypeOK, AccountsTypeOK
    <3>3. sync'[p].list = << >> /\ sync'[p].next = 0
      BY <3>2 DEF NoSync
    <3>4. 0 <= Len(ledger)
      BY DEF Basic, TypeOK, AccountsTypeOK
    <3>5. ReadOff(<< >>, ledger, balance, 0)
      BY DEF ReadOff
    <3> QED BY <2>5, <3>2, <3>3, <3>4, <3>5 DEF Undisturbed
  <2>6. ASSUME NEW p \in Processes, alone[p], sync'[p].pc # "idle", UNCHANGED << ledger, balance >>,
               copy' = copy \/ sync'[p] # sync[p]
        PROVE  Undisturbed(p)'
    <3>1. Undisturbed(p)
      BY <2>6 DEF AloneInv
    <3>2. CASE sync'[p] = sync[p]
      BY <2>6, <3>1, <3>2 DEF Undisturbed, Opened
    <3>3. CASE sync'[p] # sync[p]
      <4>1. SyncStep(p)
        BY <2>4, <3>1, <3>3 DEF Undisturbed, SyncUserAccounts
      <4> QED BY <2>6, <3>1, <4>1, UndisturbedGoesOn
    <3> QED BY <3>2, <3>3
  <2> QED BY <2>2, <2>3, <2>5, <2>6 DEF AloneInv
<1> QED BY <1>1, <1>2

(* A synchronization that nobody disturbs and that comes to its last       *)
(* statement leaves the user table as the contract is: every account once, *)
(* and no other.                                                           *)
THEOREM UndisturbedCatchesUp == Spec => SyncCatchesUp
<1> DEFINE I == Basic /\ LedgerInv /\ AloneInv
           A == \A p \in Processes : alone[p] /\ DeleteUserAccounts(p)
                  => \A u \in Users : copy'[u] = IF Opened(u) THEN balance[u] ELSE None
<1>1. Init => I
  BY InitTyped DEF Init, AccountsInit, LedgerInv, AloneInv
<1>2. I /\ [Next]_vars => I'
  BY NextTyped, LedgerKept, AloneKept
<1>3. I /\ [Next]_vars => [A]_vars
  <2> SUFFICES ASSUME I, NEW p \in Processes, alone[p], DeleteUserAccounts(p)
      PROVE  \A u \in Users : copy'[u] = IF Opened(u) THEN balance[u] ELSE None
    OBVIOUS
  <2>1. Undisturbed(p)
    BY DEF AloneInv
  <2> QED BY <2>1, UndisturbedEnds
<1> HIDE DEF I, A
<1>4. Spec => [][A]_vars
  BY <1>1, <1>2, <1>3, PTL DEF Spec
<1> QED BY <1>4, PTL DEF A, SyncCatchesUp
==============================================================================

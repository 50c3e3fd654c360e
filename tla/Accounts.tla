------------------------------- MODULE Accounts ------------------------------
(***************************************************************************)
(* The inference broker's copies of its customers' accounts (ctrl/user.go, *)
(* db/user.go, contract/user.go).  The contract keeps the accounts; the    *)
(* user table keeps a copy of each balance, refreshed in batches by every  *)
(* process of the broker.  A batch is listed page by page before the       *)
(* process takes its mutex, and written with several statements; nothing   *)
(* but the database keeps two processes apart.                             *)
(***************************************************************************)
EXTENDS Integers, Sequences, FiniteSets

CONSTANTS
  Users,       \* customers
  Processes,   \* processes of the broker, each with a mutex of its own
  PageSize,    \* accounts per call of getAccountsByProvider, 50 in the code
  MaxBalance,  \* bound: the balance of an account on the contract
  MaxSyncs,    \* bound: synchronizations under way at a time
  None,
  Faults       \* what may go wrong: a subset of {"chain", "database", "prune"}

ASSUME AccountsAssumption ==
  /\ PageSize \in Nat \ {0} /\ {MaxBalance, MaxSyncs} \subseteq Nat
  /\ None \notin Int /\ None \notin Users

VARIABLES
  balance,  \* contract: Balance - PendingRefund
  ledger,   \* contract: the provider's accounts in the order they are listed
  copy,     \* user table: lock_balance of the row that is not deleted, or None
  mu,       \* per process: who holds Ctrl.mu, or None
  sync      \* per process: its run of SyncUserAccounts

accountVars == << balance, ledger, copy, mu, sync >>

Balance == 0 .. MaxBalance
Entry   == [user : Users, balance : Balance]
Sync    == [pc : {"idle", "listing", "listed", "creating", "updating", "deleting"},
            list : Seq(Entry), olds : SUBSET Users, next : Nat]
NoSync  == [pc |-> "idle", list |-> << >>, olds |-> {}, next |-> 0]

AccountsInit ==
  /\ balance = [u \in Users |-> 0]
  /\ ledger  = << >>
  /\ copy    = [u \in Users |-> None]
  /\ mu      = [p \in Processes |-> None]
  /\ sync    = [p \in Processes |-> NoSync]

Opened(u)     == \E i \in DOMAIN ledger : ledger[i] = u
ChainError    == "chain" \in Faults
DatabaseError == "database" \in Faults

------------------------------------------------------------------------------
(* The contract: customers open, fund, drain and close their accounts.     *)

OpenAccount(u) ==
  /\ ~ Opened(u)
  /\ ledger' = Append(ledger, u)
  /\ \E b \in Balance \ {0} : balance' = [balance EXCEPT ![u] = b]
  /\ UNCHANGED << copy, mu, sync >>

(* Closing moves the last account of the list into the gap.                *)
CloseAccount(u) ==
  /\ Opened(u)
  /\ LET n == Len(ledger) IN
       ledger' = [i \in 1 .. n - 1 |-> IF ledger[i] = u THEN ledger[n] ELSE ledger[i]]
  /\ balance' = [balance EXCEPT ![u] = 0]
  /\ UNCHANGED << copy, mu, sync >>

ChangeBalance(u) ==
  /\ Opened(u)
  /\ \E b \in Balance \ {balance[u]} : balance' = [balance EXCEPT ![u] = b]
  /\ UNCHANGED << ledger, copy, mu, sync >>

------------------------------------------------------------------------------
(* SyncUserAccounts of process p.                                          *)

Move(p, rec)  == sync' = [sync EXCEPT ![p] = rec]
Lock(p, who)  == mu[p] = None /\ mu' = [mu EXCEPT ![p] = who]
Unlock(p)     == mu' = [mu EXCEPT ![p] = None]

SyncUserAccounts(p) ==
  /\ sync[p].pc = "idle"
  /\ Cardinality({q \in Processes : sync[q].pc # "idle"}) < MaxSyncs
  /\ Move(p, [NoSync EXCEPT !.pc = "listing"])
  /\ UNCHANGED << balance, ledger, copy, mu >>

(* Mutant: the first page is taken for the whole list.                     *)
ListFirstPage(p) ==
  LET page == SubSeq(ledger, 1, IF PageSize < Len(ledger) THEN PageSize ELSE Len(ledger)) IN
  /\ sync[p].pc = "listing"
  /\ Move(p, [sync[p] EXCEPT
       !.list = [i \in DOMAIN page |-> [user |-> page[i], balance |-> balance[page[i]]]],
       !.next = 1, !.pc = "listed"])
  /\ UNCHANGED << balance, ledger, copy, mu >>

(* One call: a page from the offset, and the total of the same moment.     *)
ListPage(p) ==
  LET s    == sync[p]
      page == SubSeq(ledger, s.next + 1, IF s.next + PageSize < Len(ledger)
                                         THEN s.next + PageSize ELSE Len(ledger))
  IN
  /\ s.pc = "listing"
  /\ Move(p, [s EXCEPT
       !.list = @ \o [i \in DOMAIN page |-> [user |-> page[i], balance |-> balance[page[i]]]],
       !.next = IF @ + PageSize < Len(ledger) THEN @ + PageSize ELSE 1,
       !.pc   = IF s.next + PageSize < Len(ledger) THEN "listing" ELSE "listed"])
  /\ UNCHANGED << balance, ledger, copy, mu >>

ListFails(p) ==
  /\ ChainError /\ sync[p].pc = "listing"
  /\ Move(p, NoSync)
  /\ UNCHANGED << balance, ledger, copy, mu >>

(* BatchUpdateUserAccount reads the rows there are.                        *)
ListOlds(p) ==
  /\ sync[p].pc = "listed"
  /\ Lock(p, "sync")
  /\ Move(p, [sync[p] EXCEPT !.pc = "creating", !.olds = {u \in Users : copy[u] # None}])
  /\ UNCHANGED << balance, ledger, copy >>

(* The entries of the list that are for a row already there; a customer    *)
(* that is listed twice is taken for a new one the second time.            *)
ToUpdate(s) ==
  {i \in DOMAIN s.list : /\ s.list[i].user \in s.olds
                         /\ \A k \in 1 .. i - 1 : s.list[k].user # s.list[i].user}
ToAdd(s)    == DOMAIN s.list \ ToUpdate(s)
ToRemove(s) == s.olds \ {s.list[i].user : i \in DOMAIN s.list}

(* The unique index lets no customer have two rows: one that is there      *)
(* already, or twice in the statement, fails the whole statement.          *)
Duplicate(s) ==
  \E i \in ToAdd(s) : \/ copy[s.list[i].user] # None
                      \/ \E k \in ToAdd(s) \ {i} : s.list[k].user = s.list[i].user


Abort(p) == Move(p, NoSync) /\ Unlock(p)

CreateUserAccounts(p) ==
  LET s == sync[p]
      added(u) == {i \in ToAdd(s) : s.list[i].user = u}
  IN
  /\ s.pc = "creating" /\ ~ Duplicate(s)
  /\ copy' = [u \in Users |-> IF added(u) = {} THEN copy[u]
                              ELSE s.list[CHOOSE i \in added(u) : TRUE].balance]
  /\ Move(p, [s EXCEPT !.pc = "updating"])
  /\ UNCHANGED << balance, ledger, mu >>

CreateFails(p) ==
  /\ sync[p].pc = "creating" /\ (Duplicate(sync[p]) \/ DatabaseError)
  /\ Abort(p)
  /\ UNCHANGED << balance, ledger, copy >>

(* One statement per row that was there, in the order of the list; a row   *)
(* deleted in the meantime is not brought back.                            *)
UpdateNext(p) ==
  LET s == sync[p]
      left == {i \in ToUpdate(s) : i >= s.next}
      i == CHOOSE i \in left : \A k \in left : i <= k
      u == s.list[i].user
  IN
  /\ s.pc = "updating" /\ left # {}
  /\ copy' = [copy EXCEPT ![u] = IF @ = None THEN None ELSE s.list[i].balance]
  /\ Move(p, [s EXCEPT !.next = i + 1])
  /\ UNCHANGED << balance, ledger, mu >>

UpdateFails(p) ==
  /\ DatabaseError /\ sync[p].pc = "updating"
  /\ Abort(p)
  /\ UNCHANGED << balance, ledger, copy >>

(* The rows of customers that were not listed are deleted, softly.         *)
DeleteUserAccounts(p) ==
  LET s == sync[p]
      gone == {u \in ToRemove(s) : copy[u] # None} IN
  /\ s.pc = "updating" /\ \A i \in ToUpdate(s) : i < s.next
  /\ copy' = [u \in Users |-> IF u \in gone THEN None ELSE copy[u]]
  /\ Abort(p)
  /\ UNCHANGED << balance, ledger >>

SyncStep(p) ==
  \/ ListPage(p) \/ ListFails(p) \/ ListOlds(p) \/ CreateUserAccounts(p) \/ CreateFails(p)
  \/ UpdateNext(p) \/ UpdateFails(p) \/ DeleteUserAccounts(p)

AccountsTypeOK ==
  /\ balance \in [Users -> Balance]
  /\ ledger \in Seq(Users)
  /\ copy \in [Users -> Balance \cup {None}]
  /\ sync \in [Processes -> Sync]
==============================================================================

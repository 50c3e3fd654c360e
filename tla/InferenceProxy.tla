---------------------------- MODULE InferenceProxy ---------------------------
(***************************************************************************)
(* Chat requests of the inference broker: the session check, the balance   *)
(* check on a copy of the customer's account (module Accounts), the row of *)
(* the request, the response of the model, the fee and the signature       *)
(* (proxy/proxy.go, ctrl/proxy.go, ctrl/request.go, ctrl/chatbot.go).      *)
(* A settlement is one step here; module InferenceSettlement has its parts.*)
(***************************************************************************)
EXTENDS Accounts, FiniteSetsExt, Functions

CONSTANTS
  Requests, UserOf,     \* chat requests and whose they are
  Server, Event,        \* the API server and the event process
  Sessions, TokenOf,    \* a session is a token and a signature
  Authentic, Expiry,    \* whether the signature is the customer's; when the token expires
  SessionTTL,           \* how long a validated session is cached
  Estimate,             \* input fee estimated from the length of the messages
  Reservation,          \* OutputPrice * ResponseFeeReservationFactor
  MaxCost,              \* bound: the fee of a response
  MaxTime               \* bound: the clock

ASSUME ProxyAssumption ==
  /\ UserOf \in [Requests -> Users]
  /\ {Server, Event} \subseteq Processes
  /\ Sessions # {} /\ Authentic \in [Sessions -> BOOLEAN]
  /\ TokenOf \in [Sessions -> DOMAIN Expiry] /\ Expiry \in [DOMAIN Expiry -> Nat]
  /\ {SessionTTL, Estimate, Reservation, MaxTime} \subseteq Nat
  /\ MaxCost \in 1 .. Estimate + Reservation

VARIABLES
  now,           \* the clock
  sessionCache,  \* until when a session needs no verification, 0 if it does
  job,           \* per request: where its handler is and what it has read
  rows,          \* request table: the rows there are
  fee,           \* request table: what the row says is owed, 0 until it is known
  delivered, billed, signed,  \* history and signature cache, as in MeteredProxy
  lowest,        \* history: the lowest balance a check of the request may rest on
  peak,          \* history: the highest balance the account has had
  crowd,         \* history: the most requests a customer had admitted at a time
  alone          \* history: nobody else changed an account or a copy since p's sync began

requestVars == << job, rows, fee, delivered, billed, signed >>
sessionVars == << now, sessionCache >>
historyVars == << lowest, peak, crowd, alone >>
vars == << accountVars, sessionVars, requestVars, historyVars >>

PC == {"idle", "signer", "account", "creating", "inserting", "check", "reload",
       "update", "recheck", "create", "forward", "responding", "billing", "signing",
       "refused", "ended"}

(* next: where GetOrCreateAccount returns to; read: a balance read.        *)
Job == [pc : PC, next : {"check", "recheck", "responding"}, session : Sessions,
        read : Balance \cup {None}, cost : 0 .. MaxCost]

(* A local variable that is not used any more has its first value.         *)
NoJob == [pc |-> "idle", next |-> "check", session |-> CHOOSE s \in Sessions : TRUE,
          read |-> None, cost |-> 0]

Init ==
  /\ AccountsInit
  /\ now = 0
  /\ sessionCache = [s \in Sessions |-> 0]
  /\ job = [r \in Requests |-> NoJob]
  /\ rows = {} /\ fee = [r \in Requests |-> 0]
  /\ delivered = [r \in Requests |-> "no"] /\ billed = {} /\ signed = {}
  /\ lowest = [r \in Requests |-> 0]
  /\ peak = [u \in Users |-> 0] /\ crowd = [u \in Users |-> 0]
  /\ alone = [p \in Processes |-> FALSE]

Of(u) == {r \in Requests : UserOf[r] = u}

(* CalculateUnsettledFee: the counts of the rows there are, at today's     *)
(* prices; a request under way counts nothing yet.                         *)
Unsettled(u) == MapThenSumSet(LAMBDA r : fee[r], rows \cap Of(u))

(* Past the balance check, and with a fee that is still to come.           *)
Admitted(r) == \/ job[r].pc \in {"create", "forward", "responding", "billing"}
               \/ job[r].pc \in {"account", "creating", "inserting"} /\ job[r].next = "responding"

(* The balance check is not over.                                          *)
Checking(r) == ~ Admitted(r) /\ job[r].pc \notin {"idle", "signing", "refused", "ended"}

------------------------------------------------------------------------------
(* A handler's steps.                                                      *)

Goto(r, pc) == job' = [job EXCEPT ![r].pc = pc]

Forget(r, pc) == job' = [job EXCEPT ![r] = [NoJob EXCEPT !.pc = pc]]

(* ValidateSession: expiry first, then the cache, then the signature.      *)
Expired(s) == now > Expiry[TokenOf[s]]
Cached(s)  == sessionCache[s] # 0 /\ now <= sessionCache[s]

(* Mutant: the cache is asked before the token's expiry.                   *)
ValidIfCached(s) == Cached(s) \/ (~ Expired(s) /\ Authentic[s])

Valid(s)   == ~ Expired(s) /\ (Cached(s) \/ Authentic[s])

ValidateSession(r) ==
  /\ job[r].pc = "idle"
  /\ \E s \in Sessions :
       /\ job' = [job EXCEPT ![r].pc = IF Valid(s) THEN "signer" ELSE "ended",
                            ![r].session = IF Valid(s) THEN s ELSE @]
       /\ sessionCache' = IF Valid(s) /\ ~ Cached(s)
                          THEN [sessionCache EXCEPT ![s] = now + SessionTTL] ELSE sessionCache
  /\ UNCHANGED << accountVars, now, rows, fee, delivered, billed, signed >>

(* The contract must have an account, and one that acknowledged the TEE    *)
(* signer: customers do that, and revoke it, when they like.               *)
CheckSigner(r) ==
  /\ job[r].pc = "signer"
  /\ \/ Opened(UserOf[r]) /\ Forget(r, "account")
     \/ Forget(r, "ended")
  /\ UNCHANGED << accountVars, sessionVars, rows, fee, delivered, billed, signed >>

(* GetOrCreateAccount: the mutex is held from here to the insert.          *)
GetOrCreateAccount(r) ==
  LET u == UserOf[r] IN
  /\ job[r].pc = "account" /\ mu[Server] = None
  /\ \/ /\ copy[u] # None
        /\ job' = [job EXCEPT ![r].pc = job[r].next, ![r].read = copy[u]]
        /\ UNCHANGED mu
     \/ /\ copy[u] = None
        /\ Lock(Server, r) /\ Goto(r, "creating")
     \/ /\ DatabaseError /\ Forget(r, "ended") /\ UNCHANGED mu
  /\ UNCHANGED << balance, ledger, copy, sync >>
  /\ UNCHANGED << sessionVars, rows, fee, delivered, billed, signed >>

ReadContract(r) ==
  /\ job[r].pc = "creating"
  /\ \/ /\ Opened(UserOf[r])
        /\ job' = [job EXCEPT ![r].pc = "inserting", ![r].read = balance[UserOf[r]]]
        /\ UNCHANGED mu
     \/ (ChainError \/ ~ Opened(UserOf[r])) /\ Forget(r, "ended") /\ Unlock(Server)
  /\ UNCHANGED << balance, ledger, copy, sync >>
  /\ UNCHANGED << sessionVars, rows, fee, delivered, billed, signed >>

InsertAccount(r) ==
  LET u == UserOf[r] IN
  /\ job[r].pc = "inserting"
  /\ Unlock(Server)
  /\ \/ /\ copy[u] = None
        /\ copy' = [copy EXCEPT ![u] = job[r].read]
        /\ Goto(r, job[r].next)
     \/ (copy[u] # None \/ DatabaseError) /\ Forget(r, "ended") /\ UNCHANGED copy
  /\ UNCHANGED << balance, ledger, sync >>
  /\ UNCHANGED << sessionVars, rows, fee, delivered, billed, signed >>

(* Mutant: what the customer owes already is left out of the check.        *)
AdequateAlone(r) == Estimate + Reservation <= job[r].read

(* validateBalanceAdequacy, with the balance last read.                    *)
Adequate(r) == Estimate + Unsettled(UserOf[r]) + Reservation <= job[r].read

Check(r) ==
  /\ job[r].pc = "check"
  /\ Forget(r, IF Adequate(r) THEN "create" ELSE "reload")
  /\ UNCHANGED << accountVars, sessionVars, rows, fee, delivered, billed, signed >>

(* Mutant: the row is taken for the contract's balance.                    *)
ReloadFromRow(r) ==
  /\ job[r].pc = "reload"
  /\ copy[UserOf[r]] # None
  /\ job' = [job EXCEPT ![r].pc = "update", ![r].read = copy[UserOf[r]]]
  /\ UNCHANGED << accountVars, sessionVars, rows, fee, delivered, billed, signed >>

(* SyncUserAccount reads the contract and writes the row, with no mutex.   *)
Reload(r) ==
  /\ job[r].pc = "reload"
  /\ \/ /\ Opened(UserOf[r])
        /\ job' = [job EXCEPT ![r].pc = "update", ![r].read = balance[UserOf[r]]]
     \/ (ChainError \/ ~ Opened(UserOf[r])) /\ Forget(r, "ended")
  /\ UNCHANGED << accountVars, sessionVars, rows, fee, delivered, billed, signed >>

UpdateUserAccount(r) ==
  LET u == UserOf[r] IN
  /\ job[r].pc = "update"
  /\ \/ /\ copy[u] # None
        /\ copy' = [copy EXCEPT ![u] = job[r].read]
        /\ job' = [job EXCEPT ![r].pc = "account", ![r].next = "recheck"]
     \/ (copy[u] = None \/ DatabaseError) /\ Forget(r, "ended") /\ UNCHANGED copy
  /\ UNCHANGED << balance, ledger, mu, sync >>
  /\ UNCHANGED << sessionVars, rows, fee, delivered, billed, signed >>

Recheck(r) ==
  /\ job[r].pc = "recheck"
  /\ Forget(r, IF Adequate(r) THEN "create" ELSE "refused")
  /\ UNCHANGED << accountVars, sessionVars, rows, fee, delivered, billed, signed >>

CreateRequest(r) ==
  /\ job[r].pc = "create"
  /\ \/ rows' = rows \cup {r} /\ Goto(r, "forward")
     \/ DatabaseError /\ Forget(r, "ended") /\ UNCHANGED rows
  /\ UNCHANGED << accountVars, sessionVars, fee, delivered, billed, signed >>

(* The model answers, or it cannot be reached or answers with an error.    *)
ProcessHTTPRequest(r) ==
  /\ job[r].pc = "forward"
  /\ \/ job' = [job EXCEPT ![r].pc = "account", ![r].next = "responding"]
     \/ Forget(r, "ended")
  /\ UNCHANGED << accountVars, sessionVars, rows, fee, delivered, billed, signed >>

(* Mutant: a response that breaks off is billed by what was read of it.    *)
HandleBrokenResponse(r) ==
  /\ job[r].pc = "responding"
  /\ \E d \in {"part", "lines", "full"}, c \in 0 .. MaxCost :
       /\ delivered' = [delivered EXCEPT ![r] = d]
       /\ job' = [job EXCEPT ![r] = [NoJob EXCEPT !.pc = "billing", !.cost = c]]
  /\ UNCHANGED << accountVars, sessionVars, rows, fee, billed, signed >>

(* The body is copied to the customer, to its end or not; a stream goes    *)
(* line by line, and a last line without newline is read, billed and       *)
(* signed over but not written (chatbot.go:161).  A response that          *)
(* is not JSON ends the request unbilled, so does a stream that does not   *)
(* say [DONE], which is signed all the same.  The fee is that of the usage *)
(* the model reports or, without one, of the words of the output.          *)
HandleResponse(r) ==
  /\ job[r].pc = "responding"
  /\ \/ /\ delivered' = [delivered EXCEPT ![r] = "part"]
        /\ Forget(r, "ended")
     \/ /\ \E d \in {"lines", "full"} : delivered' = [delivered EXCEPT ![r] = d]
        /\ \/ Forget(r, "ended")
           \/ Forget(r, "signing")
           \/ \E c \in 0 .. MaxCost :
                job' = [job EXCEPT ![r] = [NoJob EXCEPT !.pc = "billing", !.cost = c]]
  /\ UNCHANGED << accountVars, sessionVars, rows, fee, billed, signed >>

(* The update finds no row if it was pruned.  A stream returns from here,  *)
(* before it would be signed.                                              *)
UpdateFees(r) ==
  /\ job[r].pc = "billing"
  /\ \/ /\ fee' = IF r \in rows THEN [fee EXCEPT ![r] = job[r].cost] ELSE fee
        /\ billed' = IF r \in rows THEN billed \cup {r} ELSE billed
        /\ Forget(r, "signing") \/ Forget(r, "ended")
     \/ /\ DatabaseError \/ r \notin rows  \* GetRequest of updateAccountWithOutput
        /\ Forget(r, "ended")
        /\ UNCHANGED << fee, billed >>
  /\ UNCHANGED << accountVars, sessionVars, rows, delivered, signed >>

(* Nothing is signed if the request says VLLM-Proxy or the first chunk has *)
(* no chat id.                                                             *)
SignChat(r) ==
  /\ job[r].pc = "signing"
  /\ signed' \in {signed, signed \cup {r}}
  /\ Forget(r, "ended")
  /\ UNCHANGED << accountVars, sessionVars, rows, fee, delivered, billed >>

(* Steps that wait for the broker, its database or the contract's node,    *)
(* and those that wait for the model or the customer.                      *)
BrokerStep(r) ==
  \/ CheckSigner(r) \/ GetOrCreateAccount(r) \/ ReadContract(r)
  \/ InsertAccount(r) \/ Check(r) \/ Reload(r) \/ UpdateUserAccount(r) \/ Recheck(r)
  \/ CreateRequest(r) \/ UpdateFees(r) \/ SignChat(r)
ModelStep(r) == ProcessHTTPRequest(r) \/ HandleResponse(r)
RequestStep(r) == BrokerStep(r) \/ ModelStep(r)

------------------------------------------------------------------------------
(* Around the handlers.                                                    *)

SignatureExpires(r) ==
  /\ r \in signed /\ signed' = signed \ {r}
  /\ UNCHANGED << accountVars, sessionVars, job, rows, fee, delivered, billed >>

(* Rows without output are deleted after an hour, whoever they belong to.  *)
PruneRequest(r) ==
  /\ "prune" \in Faults /\ r \in rows /\ fee[r] = 0
  /\ rows' = rows \ {r}
  /\ UNCHANGED << accountVars, sessionVars, job, fee, delivered, billed, signed >>

(* Mutant: a settlement takes all there is, whatever the balance.          *)
SettleAll(u) ==
  LET settled == {r \in rows \cap Of(u) : fee[r] > 0} IN
  /\ settled # {}
  /\ balance' = [balance EXCEPT ![u] = @ - MapThenSumSet(LAMBDA r : fee[r], settled)]
  /\ rows' = rows \ settled
  /\ UNCHANGED << ledger, copy, mu, sync, sessionVars, job, fee, delivered, billed, signed >>

(* A settlement takes what the balance allows and deletes what it took;    *)
(* the copy of the balance stays as it was.                                *)
SettleFees(u) ==
  \E settled \in SUBSET {r \in rows \cap Of(u) : fee[r] > 0} :
    LET total == MapThenSumSet(LAMBDA r : fee[r], settled) IN
    /\ settled # {} /\ total <= balance[u]
    /\ balance' = [balance EXCEPT ![u] = @ - total]
    /\ rows' = rows \ settled
    /\ UNCHANGED << ledger, copy, mu, sync >>
    /\ UNCHANGED << sessionVars, job, fee, delivered, billed, signed >>

(* Customers that owe something, with a copy of their account or a deleted *)
(* one.  The query also wants a low balance or a check long ago; times of  *)
(* checks are left out, so any may be long ago.                            *)
ListUsersWithUnsettledFees == {u \in Users : Unsettled(u) > 0}

(* The copies are refreshed before a settlement, if anybody owes.          *)
ProcessSettlement == SyncUserAccounts(Event) /\ ListUsersWithUnsettledFees # {}

Tick ==
  /\ now < MaxTime /\ now' = now + 1
  /\ UNCHANGED << accountVars, sessionCache, requestVars >>

ContractStep ==
  \/ \E u \in Users : SettleFees(u)
  \/ /\ \E u \in Users : OpenAccount(u) \/ CloseAccount(u) \/ ChangeBalance(u)
     /\ UNCHANGED << sessionVars, requestVars >>

AccountStep ==
  /\ \/ SyncUserAccounts(Server) \/ ProcessSettlement
     \/ \E p \in Processes : SyncStep(p)
  /\ UNCHANGED << sessionVars, requestVars >>

(* What a check that begins now may yet find in the user table: what the   *)
(* contract says, and what others have read from it and not yet written.   *)
Lesser(a, b)  == IF a <= b THEN a ELSE b
Greater(a, b) == IF a >= b THEN a ELSE b
Pending(u) ==
  {balance[u]}
    \cup (UNION {{e.balance : e \in {f \in Range(sync[p].list) : f.user = u}} : p \in Processes})
    \cup {job[r].read : r \in {q \in Of(u) : job[q].pc \in {"update", "inserting"}}}

History ==
  /\ lowest' = [r \in Requests |->
       IF ~ Checking(r)' THEN 0
       ELSE IF ~ Checking(r) THEN Min(Pending(UserOf[r]))
       ELSE Lesser(lowest[r], balance'[UserOf[r]])]
  /\ peak' = [u \in Users |-> Greater(peak[u], balance'[u])]
  /\ crowd' = [u \in Users |-> Greater(crowd[u], Cardinality({r \in Of(u) : Admitted(r)'}))]
  /\ alone' = [p \in Processes |->
       \/ sync[p].pc = "idle" /\ sync'[p].pc = "listing"
       \/ /\ alone[p] /\ sync'[p].pc # "idle"
          /\ UNCHANGED << ledger, balance >> /\ (copy' = copy \/ sync'[p] # sync[p])]

Next ==
  /\ \/ \E r \in Requests : ValidateSession(r) \/ RequestStep(r) \/ PruneRequest(r) \/ SignatureExpires(r)
     \/ ContractStep \/ AccountStep \/ Tick
  /\ History

Spec == Init /\ [][Next]_vars

------------------------------------------------------------------------------
(* Properties.                                                             *)

TypeOK ==
  /\ AccountsTypeOK
  /\ mu \in [Processes -> Requests \cup {"sync", None}]
  /\ now \in 0 .. MaxTime
  /\ sessionCache \in [Sessions -> 0 .. MaxTime + SessionTTL]
  /\ job \in [Requests -> Job]
  /\ rows \subseteq Requests /\ fee \in [Requests -> 0 .. MaxCost]
  /\ delivered \in [Requests -> {"no", "part", "lines", "full"}]
  /\ billed \subseteq Requests /\ signed \subseteq Requests

(* A customer owes no more than its account has ever held, and one         *)
(* response for every other request it had under way at the same time:     *)
(* validateBalanceAdequacy counts what was billed, not what is under way,  *)
(* and may rest on a copy of the balance from before a settlement.         *)
ExposureBounded ==
  \A u \in Users : crowd[u] > 0 => Unsettled(u) <= peak[u] + (crowd[u] - 1) * MaxCost

(* A request is refused for its balance only if it exceeds a balance the   *)
(* account had since the request came, or one that somebody had read by    *)
(* then and not yet written: an old copy alone refuses nobody, since the   *)
(* check is repeated after a look at the contract (request.go:223).        *)
RefusedIsShort ==
  [][\A r \in Requests : job[r].pc = "recheck" /\ job'[r].pc = "refused"
       => Estimate + Unsettled(UserOf[r]) + Reservation > lowest[r]]_vars

(* No request passes ValidateSession with a token that has expired or a    *)
(* signature that is not the customer's, whatever the cache says.          *)
SessionIsGood ==
  [][\A r \in Requests : job[r].pc = "idle" /\ job'[r].pc = "signer"
       => Authentic[job'[r].session] /\ now <= Expiry[TokenOf[job'[r].session]]]_vars

(* A synchronization that nobody disturbs and that comes to its last       *)
(* statement leaves the user table as the contract is: every account once, *)
(* whatever the pages were and whatever rows there were before.            *)
SyncCatchesUp ==
  [][\A p \in Processes : alone[p] /\ DeleteUserAccounts(p)
       => \A u \in Users : copy'[u] = IF Opened(u) THEN balance[u] ELSE None]_vars

(* The proxy implements MeteredProxy: a response that broke off is neither *)
(* billed nor vouched for, and nothing is billed twice.  What the customer *)
(* paid for it was sent, but for a stream's last line if no newline ends   *)
(* it (chatbot.go:161).                                                    *)
Metered == INSTANCE MeteredProxy WITH
  Requests <- Requests, delivered <- delivered, billed <- billed, signed <- signed
ImplementsMeteredProxy == Metered!Spec

------------------------------------------------------------------------------
(* Fairness: the node and the database answer, so handlers and synchro-    *)
(* nizations go on, and a handler that waits for the mutex gets it.  None  *)
(* for ModelStep: the request to the model has no time limit               *)
(* (ctrl/proxy.go:17, 40, 50), nor has the copying of its response.        *)
Fairness ==
  /\ \A r \in Requests : WF_job(BrokerStep(r)) /\ SF_job(GetOrCreateAccount(r))
  /\ \A p \in Processes : WF_sync(SyncStep(p))

FairSpec == Spec /\ Fairness


==============================================================================

-------------------------- MODULE ServiceRegistration ------------------------
(***************************************************************************)
(* The service record that each broker keeps on its contract: the          *)
(* inference broker sets it at every start (SyncService), the fine-tuning  *)
(* broker sets the occupied flag around trainings (OccupyService).  Each   *)
(* reads the record and, if it is not what it wants, sends a transaction   *)
(* of module TxSender.  One provider's key serves both.                    *)
(***************************************************************************)
EXTENDS TxSender, Functions

CONSTANTS
  StartOrder,    \* the starts of the inference broker, an operation each
  FtOps,         \* the fine-tuning broker's: "occupy" and then "release"
  Services       \* what a configuration may say of the service

Starts == Range(StartOrder)

(* A service is listed unless its URL is empty.                            *)
Unlisted == [url |-> "", price |-> 0]

ASSUME RegistrationAssumption ==
  /\ IsInjective(StartOrder) /\ FtOps \subseteq {"occupy", "release"}
  /\ Calls = Starts \cup FtOps /\ Starts \cap FtOps = {}
  /\ Unlisted \notin Services

VARIABLES
  wants,     \* per start: the service of its configuration
  listing,   \* the inference contract's record, or None
  occupied,  \* the occupied flag of the fine-tuning contract's record
  undisturbed \* history: the operation began with nothing under way on its record

vars == << txVars, wants, listing, occupied, undisturbed >>

Init ==
  /\ TxInit
  /\ wants = [k \in Starts |-> Unlisted]
  /\ listing = None
  /\ occupied \in BOOLEAN
  /\ undisturbed = {}

Ended       == {"unneeded", "ok", "failed"}
Same(c)     == IF c \in Starts THEN Starts ELSE FtOps   \* operations on the same record
UnderWay(c) == \/ call[c].pc \in Working \cup {"reading"}
               \/ \E n \in Nonces : pool[n] # None /\ pool[n].call = c

(* An operation begins.  History: it disturbs those that began before.     *)
Begin(c) ==
  /\ call[c].pc = "idle" /\ Goto(c, "reading")
  /\ undisturbed' = (undisturbed \ Same(c))
                      \cup {d \in {c} : \A e \in Same(c) \ {c} : ~ UnderWay(e)}

(* The record is read: it is as it should be, or a call begins, or the     *)
(* node does not answer.                                                   *)
Read(c, asWanted) ==
  /\ call[c].pc = "reading"
  /\ \/ asWanted /\ Goto(c, "unneeded")
     \/ ~ asWanted /\ Goto(c, "begin")
     \/ Goto(c, "failed")

------------------------------------------------------------------------------
(* The inference broker.                                                   *)

(* A start comes after the one before has ended; the configuration may     *)
(* have been edited in between.                                            *)
Start(k) ==
  /\ \E i \in DOMAIN StartOrder :
       /\ StartOrder[i] = k
       /\ i > 1 => call[StartOrder[i - 1]].pc \in Ended
  /\ Begin(k)
  /\ \E s \in Services \cup {Unlisted} : wants' = [wants EXCEPT ![k] = s]
  /\ UNCHANGED << pool, mined, listing, occupied >>

(* Mutant: a change of the price is not noticed.                           *)
sameService(old, new) == old # None /\ old.url = new.url

identicalService(old, new) == old = new

(* What the record already says is left alone; an empty URL takes it away. *)
SyncService(k) ==
  /\ Read(k, \/ identicalService(listing, wants[k])
             \/ listing = None /\ wants[k] = Unlisted)
  /\ UNCHANGED << pool, mined, wants, listing, occupied, undisturbed >>

AddOrUpdateService(k) == wants[k]
DeleteService         == None

------------------------------------------------------------------------------
(* The fine-tuning broker.                                                 *)

Flag(o) == o = "occupy"

Training(o) ==
  /\ o = "release" /\ "occupy" \in FtOps => call["occupy"].pc \in Ended
  /\ Begin(o)
  /\ UNCHANGED << pool, mined, wants, listing, occupied >>

OccupyService(o) ==
  /\ Read(o, occupied = Flag(o))
  /\ UNCHANGED << pool, mined, wants, listing, occupied, undisturbed >>

------------------------------------------------------------------------------
Transacts(c) == CallStep(c) /\ UNCHANGED << wants, listing, occupied, undisturbed >>

(* A process may die in an operation.                                      *)
Crash(c) ==
  /\ call[c].pc \in Working \cup {"reading"} /\ End(c, "failed")
  /\ UNCHANGED << pool, mined, wants, listing, occupied, undisturbed >>

(* The contracts: what is mined and does not revert sets the record.       *)
MineTx ==
  \E success \in BOOLEAN :
    /\ Mine(success)
    /\ LET c == pool[Used].call IN
         /\ listing' = IF ~ success \/ c \notin Starts THEN listing
                       ELSE IF wants[c] = Unlisted THEN DeleteService ELSE AddOrUpdateService(c)
         /\ occupied' = IF ~ success \/ c \notin FtOps THEN occupied ELSE Flag(c)
    /\ UNCHANGED << wants, undisturbed >>

EvictTx ==
  /\ \E n \in Nonces : Evict(n)
  /\ UNCHANGED << wants, listing, occupied, undisturbed >>

Next ==
  \/ \E k \in Starts : Start(k) \/ SyncService(k)
  \/ \E o \in FtOps : Training(o) \/ OccupyService(o)
  \/ \E c \in Calls : Transacts(c) \/ Crash(c)
  \/ MineTx \/ EvictTx

Spec == Init /\ [][Next]_vars

(* Calls go on, no failure being needed for it, and the node is not full   *)
(* for ever.                                                               *)
FairSpec ==
  /\ Spec
  /\ \A c \in Calls : /\ WF_vars((CreateTransactOpts(c) \/ Poll(c)) /\ Transacts(c))
                      /\ SF_vars(Answered(c) /\ Transacts(c))

------------------------------------------------------------------------------
(* Properties.                                                             *)

TypeOK ==
  /\ TxTypeOK
  /\ wants \in [Starts -> Services \cup {Unlisted}]
  /\ listing \in Services \cup {None} /\ occupied \in BOOLEAN
  /\ undisturbed \subseteq Calls

(* However often a call sends its transaction, and whatever its answers    *)
(* were, it is mined once at most, since all it sends has one nonce        *)
(* (contract.go:92); and a call that returns without an error has done     *)
(* what it was for.  One that returns an error may have, now or later.     *)
MinedAsReported ==
  /\ \A i, j \in DOMAIN mined : mined[i].call = mined[j].call => i = j
  /\ \A c \in Calls : call[c].pc = "ok" => \E i \in Receipts(c) : mined[i].success

(* After an operation that ended well and began when nothing else was      *)
(* under way on its record, not even a transaction that an earlier start   *)
(* or attempt had left behind, the record is what the operation wanted.    *)
RecordAsWanted ==
  \A c \in undisturbed : call[c].pc \in {"ok", "unneeded"} =>
    IF c \in Starts THEN listing = IF wants[c] = Unlisted THEN None ELSE wants[c]
    ELSE occupied = Flag(c)

(* Every call ends, with the transaction's receipt or an error: polls are  *)
(* counted, and a call that finds the pool full sends again until it is    *)
(* not (contract.go:98).  A call is made once, so in the end none is left. *)
CallsEnd == <>[](\A c \in Calls : call[c].pc \notin Working)
==============================================================================

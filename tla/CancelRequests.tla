--------------------------- MODULE CancelRequests ----------------------------
(***************************************************************************)
(* The pipeline with its customers' cancel requests made explicit: a       *)
(* request names one task id and carries the customer's signature of that  *)
(* id; it may reach the broker late, or more than once (a client or proxy  *)
(* that repeats the POST).  The broker does not restart here.              *)
(***************************************************************************)
EXTENDS TaskPipeline

VARIABLE requested      \* ids named by the cancel requests signed so far

RequestVars == << vars, requested >>

SignCancel(t) ==
  /\ progress[t] # "None"
  /\ requested' = requested \union {t}
  /\ UNCHANGED vars

RequestNext ==
  \/ Broker /\ UNCHANGED requested
  \/ \E t \in Tasks, wait \in BOOLEAN : CreateTask(t, wait) /\ UNCHANGED requested
  \/ \E t \in Tasks : SignCancel(t)
  \/ \E t \in requested : CancelTask(t) /\ UNCHANGED requested

RequestSpec == Init /\ requested = {} /\ [][RequestNext]_RequestVars

(* handler/task.go:41-44: the cancel endpoint "Cancels a task before it    *)
(* starts running. Requires task ID, user address, and a valid signature": *)
(* a task that waits for a stage is cancelled only by a request for it.    *)
CancelNamesItsTask ==
  [][\A t \in Tasks :
       progress[t] \in {"Init", "SetUp"} /\ progress'[t] = "Failed" => t \in requested]_RequestVars
==============================================================================

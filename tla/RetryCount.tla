----------------------------- MODULE RetryCount ------------------------------
(***************************************************************************)
(* The pipeline with a history of how often each stage really gave a task  *)
(* back for another attempt, beside the retry columns that are meant to    *)
(* count it (HandleFailure in db/service.go).                              *)
(***************************************************************************)
EXTENDS TaskPipeline

CONSTANT MaxGivenBack      \* bound on the history

VARIABLE givenBack

HistoryVars == << vars, givenBack >>

HistoryInit == Init /\ givenBack = [t \in Tasks |-> [s \in Stages |-> 0]]

(* A stage gives t back when the task returns to the state it polls.       *)
Returned(t, s) == progress[t] = Intermediate[s] /\ progress'[t] = Initial[s]

HistoryNext ==
  /\ Next
  /\ givenBack' = [t \in Tasks |-> [s \in Stages |->
                     givenBack[t][s] + (IF Returned(t, s) THEN 1 ELSE 0)]]
  /\ \A t \in Tasks : \A s \in Stages : givenBack'[t][s] <= MaxGivenBack

HistorySpec == HistoryInit /\ [][HistoryNext]_HistoryVars

OwesCount(t, s) == \E j \in Jobs : job[j].pc = "owing" /\ job[j].task = t /\ job[j].stage = s

(* migrate.go:39-41 comments the columns "Number of retry attempts": once  *)
(* every worker has written what it owes, the column of a task that is     *)
(* still alive is the number of times the stage gave it back.              *)
RetryColumnCounts ==
  \A t \in Tasks : \A s \in Stages :
    progress[t] # "Failed" /\ ~OwesCount(t, s) => retries[t][s] = givenBack[t][s]
==============================================================================

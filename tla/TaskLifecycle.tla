---------------------------- MODULE TaskLifecycle ----------------------------
(***************************************************************************)
(* What the fine-tuning broker promises about a task, as a customer sees   *)
(* it: the progress column of the task table and the moves it may make.    *)
(* Nothing here knows of workers, retries, timeouts or transactions; the   *)
(* modules that do (TaskPipeline) are shown to implement this one.         *)
(***************************************************************************)

CONSTANTS
  Tasks,    \* task ids (uuid)
  UserOf    \* the customer a task id belongs to

VARIABLE progress

(* Pairs of states a single task may go through.  A stage claims a task    *)
(* (Init -> SettingUp), completes it (SettingUp -> SetUp), gives it back   *)
(* for another attempt (SettingUp -> Init) or fails it for good.           *)
Moves ==
  { <<"Init", "SettingUp">>, <<"SettingUp", "SetUp">>,
    <<"SettingUp", "Init">>, <<"SettingUp", "Failed">>,
    <<"SetUp", "Training">>, <<"Training", "Trained">>,
    <<"Training", "SetUp">>, <<"Training", "Failed">>,
    <<"Trained", "Delivering">>, <<"Delivering", "Delivered">>,
    <<"Delivering", "Trained">>, <<"Delivering", "Failed">>,
    <<"Delivered", "UserAcknowledged">>, <<"Delivered", "Finished">>,
    <<"UserAcknowledged", "Finished">> }

Terminal   == {"Finished", "Failed"}
Unfinished(t) == progress[t] \notin Terminal \union {"None"}

Init == progress = [t \in Tasks |-> "None"]

(* A customer has at most one unfinished task.                             *)
Create(t) ==
  /\ progress[t] = "None"
  /\ \A o \in Tasks : UserOf[o] = UserOf[t] => ~Unfinished(o)
  /\ progress' = [progress EXCEPT ![t] = "Init"]

Move(t) ==
  \E m \in Moves :
    /\ progress[t] = m[1]
    /\ progress' = [progress EXCEPT ![t] = m[2]]

(* A customer withdraws before training starts.                            *)
Withdraw(t) ==
  /\ progress[t] \in {"Init", "SettingUp", "SetUp"}
  /\ progress' = [progress EXCEPT ![t] = "Failed"]

(* The broker restarts and gives up everything it had not finished.        *)
GiveUp ==
  progress' = [t \in Tasks |-> IF Unfinished(t) THEN "Failed" ELSE progress[t]]

Next == GiveUp \/ \E t \in Tasks : Create(t) \/ Move(t) \/ Withdraw(t)

Spec == Init /\ [][Next]_progress
==============================================================================

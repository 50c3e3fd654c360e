---------------------------- MODULE MCTaskPipeline ---------------------------
(* Instances of TaskPipeline for TLC.                                      *)
EXTENDS TaskPipeline, TLC

CONSTANTS t1, t2, t3, Worker, Retried

(* t1 and t2 are one customer's, t3 is another's.                          *)
MCUserOf  == [t \in Tasks |-> IF t \in {t1, t2} THEN "alice" ELSE "bob"]
MCWorkers == [s \in Stages |-> Worker]
MCRetries == [s \in Stages |-> IF s \in Retried THEN 1 ELSE 0]

Symmetry == Permutations(Jobs)

(* The tasks are alike too where each is another customer's.               *)
TaskSymmetry == Permutations(Jobs) \union Permutations(Tasks)
==============================================================================

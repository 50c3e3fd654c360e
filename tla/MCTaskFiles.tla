------------------------------ MODULE MCTaskFiles ----------------------------
(* An instance of TaskFiles for TLC: archives whose directory has the name *)
(* it should, that of the output, and that of the dataset, and each kind   *)
(* of model.                                                               *)
EXTENDS TaskFiles

Case(k, d, m) == [kind |-> k, data |-> d, model |-> m]

MCGiven ==
  {Case("predefined", "output", "model"), Case("mock", "data", "model"),
   Case("customized", "data", "model"), Case("customized", "output", "data")}

(* What docker has of images the task does not train on makes no           *)
(* difference; that of a customized model is not there yet.                *)
MCInit ==
  /\ Init
  /\ given.kind # "predefined" => image = None
  /\ given.kind = "customized" => ~ other

MCSpec == MCInit /\ [][Next]_vars /\ Fairness
==============================================================================

----------------------------- MODULE MCDelivery ------------------------------
(* Instances of Delivery for TLC.                                          *)
EXTENDS Delivery
CONSTANTS t1, t2
OneTask  == <<t1>>
TwoTasks == <<t1, t2>>
==============================================================================

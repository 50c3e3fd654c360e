--------------------------- MODULE MCCancelRequests --------------------------
EXTENDS CancelRequests, TLC
CONSTANTS t1, t2
MCUserOf  == [t \in Tasks |-> "alice"]
MCWorkers == [s \in Stages |-> 1]
MCRetries == [s \in Stages |-> 0]
==============================================================================

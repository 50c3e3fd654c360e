----------------------------- MODULE MCRetryCount ----------------------------
EXTENDS RetryCount, TLC
CONSTANTS t1
MCUserOf  == [t \in Tasks |-> "alice"]
MCWorkers == [s \in Stages |-> 1]
MCRetries == [s \in Stages |-> 2]
==============================================================================

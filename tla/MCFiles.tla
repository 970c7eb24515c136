------------------------------ MODULE MCFiles -------------------------------
EXTENDS Files

MCProcOf == [t \in Tasks |-> IF t = "t3" THEN "q" ELSE "p"]
In(fd) == [fd |-> fd, ev |-> "in"]
MCWatches == {{In(0), In(1)}, {[fd |-> 2, ev |-> "out"]}}
=============================================================================

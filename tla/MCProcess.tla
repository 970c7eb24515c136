----------------------------- MODULE MCProcess -----------------------------
(* Instances of Process.  Three ids allow a process with two threads and a   *)
(* child that both wait for, two children, or a child and a grandchild.      *)
EXTENDS Process
=============================================================================

------------------------------ MODULE MCFutex -------------------------------
(***************************************************************************)
(* Two bounds on Futex, one of which Init chooses: three threads that give *)
(* no timeouts and keep their clear_child_tid, or two threads, without t2, *)
(* that leave the words alone.  Only word 1 is stored to, and no signal is *)
(* sent to t2.                                                             *)
(***************************************************************************)
EXTENDS Futex
CONSTANTS t1, t2, t3
VARIABLE bound

MCInit ==
    /\ Init
    /\ bound \in {"untimed", "two"}
    /\ clear_child_tid[t2] = NoAddr
    /\ bound = "untimed" => clear_child_tid[t1] = 2 /\ clear_child_tid[t3] = NoAddr
    /\ \A a \in Addr : word[a] # 0 => bound = "untimed" /\ a = 1

MCNext ==
    /\ UNCHANGED bound
    /\ \E t \in Threads :
          /\ bound = "two" => t # t2
          /\ Step(t)
    /\ ~signal'[t2]
    /\ \A a \in Addr : word'[a] # 0 => bound = "untimed" /\ a = 1
    /\ bound = "untimed" => UNCHANGED clear_child_tid /\ \A t \in Threads : st'[t] # "timed"

MCSpec == MCInit /\ [][MCNext]_<<vars, bound>> /\ Fairness
=============================================================================

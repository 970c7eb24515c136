------------------------------ MODULE ProcTree ------------------------------
(***************************************************************************)
(* What the process table promises to a user of fork, exit and wait4: a    *)
(* process is live, then exited, then reaped; only the process that has it *)
(* as a child reaps it, and only once.  Process implements this.           *)
(***************************************************************************)
CONSTANT Pid

NoPid == 0

VARIABLES phase,   \* phase[p] \in {"free", "live", "exited", "reaped"}
          mother   \* mother[p]: the process whose child p is, or NoPid

vars == <<phase, mother>>

Init ==
    /\ phase = [p \in Pid |-> "free"]
    /\ mother = [p \in Pid |-> NoPid]

\* a process without a parent, started by the kernel
Boot(p) ==
    /\ phase[p] = "free"
    /\ phase' = [phase EXCEPT ![p] = "live"]
    /\ UNCHANGED mother

Fork(p, c) ==
    /\ phase[p] = "live" /\ phase[c] = "free"
    /\ phase' = [phase EXCEPT ![c] = "live"]
    /\ mother' = [mother EXCEPT ![c] = p]

\* the children of p lose their parent
Orphaned(p) == [c \in Pid |-> IF mother[c] = p THEN NoPid ELSE mother[c]]

\* p gets its exit code; its children may be let go now or later
Exit(p) ==
    /\ phase[p] = "live"
    /\ phase' = [phase EXCEPT ![p] = "exited"]
    /\ mother' \in {mother, Orphaned(p)}

LetGo(p) ==
    /\ phase[p] \in {"exited", "reaped"}
    /\ mother' = Orphaned(p)
    /\ UNCHANGED phase

Reap(p, c) ==
    /\ mother[c] = p /\ phase[c] = "exited"
    /\ phase' = [phase EXCEPT ![c] = "reaped"]
    /\ mother' = [mother EXCEPT ![c] = NoPid]

\* the kernel collects a process it booted
Collect(p) ==
    /\ phase[p] = "exited" /\ mother[p] = NoPid
    /\ phase' = [phase EXCEPT ![p] = "reaped"]
    /\ UNCHANGED mother

\* setsid
Detach(c) ==
    /\ mother' = [mother EXCEPT ![c] = NoPid]
    /\ UNCHANGED phase

Next ==
    \E p \in Pid :
        \/ Boot(p) \/ Exit(p) \/ LetGo(p) \/ Collect(p) \/ Detach(p)
        \/ \E c \in Pid : Fork(p, c) \/ Reap(p, c)

Spec == Init /\ [][Next]_vars
=============================================================================

----------------------------- MODULE MCSockets ------------------------------
(***************************************************************************)
(* Sockets and System V queues, the two ways for processes to pass         *)
(* messages by name.  They share no state: a behaviour uses the one that   *)
(* Init chooses.                                                           *)
(***************************************************************************)
EXTENDS Sockets, Ipc

VARIABLE part

SomeAsks == {-2, -1, 0, 1, 2}

BothInit ==
    /\ part \in {"sockets", "queues"}
    /\ Init /\ IpcInit

BothNext ==
    \/ part = "sockets" /\ Next /\ UNCHANGED <<ipcVars, part>>
    \/ part = "queues" /\ IpcNext /\ UNCHANGED <<vars, part>>

BothSpec == BothInit /\ [][BothNext]_<<vars, ipcVars, part>>
=============================================================================

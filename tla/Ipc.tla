-------------------------------- MODULE Ipc ---------------------------------
(***************************************************************************)
(* System V message queues and semaphores (kernel/src/syscall/shm.rs); its *)
(* shared memory is in Memory.  No call awaits, so each is one step.  The  *)
(* tables are functions from the keys in use; a message is its type and    *)
(* its length, which is what the queue looks at.                           *)
(***************************************************************************)
EXTENDS Integers, Sequences, FiniteSets, FiniteSetsExt, SequencesExt

CONSTANTS IpcKeys,                 \* the keys programs use, numbers above 0
          MaxIpcKey,               \* bound on the keys
          PRIVATE_BASE,            \* 1000: private queues are numbered after it
          max_bytes, max_messages, \* 16384 and 40
          MsgTypes, MsgSizes,      \* what is sent
          MsgAsks,                 \* the msgtyp of msgrcv: 0, a type or minus one
          SemCounts, SemValues,    \* sizes of semaphore sets and what is stored
          MaxIpc                   \* bound on the calls that change something

VARIABLES queues,   \* key -> [messages, current_bytes]
          sems,     \* key -> the values
          journal,  \* ghost: key -> [sent, gone], the messages that entered and left
          ipcs      \* the calls so far that changed something

ipcVars == <<queues, sems, journal, ipcs>>

Without(f, k) == [j \in DOMAIN f \ {k} |-> f[j]]
With(f, k, v) == [j \in DOMAIN f \cup {k} |-> IF j = k THEN v ELSE f[j]]

NewQueue == [messages |-> << >>, current_bytes |-> 0]

IpcInit ==
    /\ queues = << >> /\ sems = << >> /\ journal = << >> /\ ipcs = 0

IpcCall == ipcs < MaxIpc /\ ipcs' = ipcs + 1

-----------------------------------------------------------------------------
(* MessageQueue                                                            *)

can_send(q, size) ==
    Len(q.messages) < max_messages /\ q.current_bytes + size <= max_bytes

send_message(q, mtype, size) ==
    IF can_send(q, size)
    THEN [messages |-> Append(q.messages, [mtype |-> mtype, size |-> size]),
          current_bytes |-> q.current_bytes + size]
    ELSE q

\* a bug: the newest of the messages with the smallest type
position_last(ms, ask, except) ==
    LET among == {i \in 1 .. Len(ms) : ms[i].mtype <= -ask}
        low == {i \in among : \A j \in among : ms[i].mtype <= ms[j].mtype}
    IN  IF ask >= 0
        THEN SelectInSeq(ms, LAMBDA m : ask = 0 \/ (m.mtype # ask) = except)
        ELSE IF low = {} THEN 0 ELSE Max(low)

\* Where receive_message finds its message, or 0: the first one, the first of
\* the type or of another type, or the first of the smallest type up to -ask.
position(ms, ask, except) ==
    LET among == {i \in 1 .. Len(ms) : ms[i].mtype <= -ask}
        low == {i \in among : \A j \in among : ms[i].mtype <= ms[j].mtype}
    IN  IF ask >= 0
        THEN SelectInSeq(ms, LAMBDA m : ask = 0 \/ (m.mtype # ask) = except)
        ELSE IF low = {} THEN 0 ELSE Min(low)

receive_message(q, i) ==
    [messages |-> RemoveAt(q.messages, i),
     current_bytes |-> q.current_bytes - q.messages[i].size]

-----------------------------------------------------------------------------
(* The calls                                                               *)

\* the key of a private object: one above all others
PrivateKey(table, base) ==
    IF DOMAIN table = {} THEN base + 1 ELSE Max(DOMAIN table) + 1

\* IPC_CREAT: a key in use is answered as it is, and without the flag a key
\* that is not in use answers ENOENT; neither changes anything.
sys_msgget(key) ==
    LET k == IF key = 0 THEN PrivateKey(queues, PRIVATE_BASE) ELSE key
    IN  /\ k \notin DOMAIN queues /\ k <= MaxIpcKey
        /\ queues' = With(queues, k, NewQueue)
        /\ journal' = With(journal, k, [sent |-> << >>, gone |-> << >>])
        /\ UNCHANGED sems

\* IPC_RMID; every other command answers 0
sys_msgctl(k) ==
    /\ k \in DOMAIN queues
    /\ queues' = Without(queues, k) /\ journal' = Without(journal, k)
    /\ UNCHANGED sems

\* When there is no room the call answers EAGAIN, or 0 without IPC_NOWAIT, and
\* the message is gone either way.
sys_msgsnd(k, mtype, size) ==
    /\ k \in DOMAIN queues
    /\ can_send(queues[k], size)
    /\ queues' = [queues EXCEPT ![k] = send_message(@, mtype, size)]
    /\ journal' = [journal EXCEPT ![k].sent = Append(@, [mtype |-> mtype, size |-> size])]
    /\ UNCHANGED sems

\* The message is taken off before the buffer is looked at: a bad pointer
\* (EFAULT) and a buffer that is too small (E2BIG) take it off as well.
sys_msgrcv(k, ask, except) ==
    /\ k \in DOMAIN queues
    /\ LET i == position(queues[k].messages, ask, except)
       IN  /\ i # 0
           /\ queues' = [queues EXCEPT ![k] = receive_message(@, i)]
           /\ journal' = [journal EXCEPT ![k].gone = Append(@, queues[k].messages[i])]
    /\ UNCHANGED sems

sys_semget(key, nsems) ==
    LET k == IF key = 0 THEN PrivateKey(sems, 0) ELSE key
    IN  /\ k \notin DOMAIN sems /\ k <= MaxIpcKey
        /\ sems' = With(sems, k, [i \in 1 .. nsems |-> 0])
        /\ UNCHANGED <<queues, journal>>

\* SETVAL and IPC_RMID; GETVAL, the other commands and semop change nothing
sys_semctl(k, n, v) ==
    /\ k \in DOMAIN sems
    /\ \/ n < Len(sems[k]) /\ sems' = [sems EXCEPT ![k][n + 1] = v]
       \/ n = 0 /\ v = 0 /\ sems' = Without(sems, k)
    /\ UNCHANGED <<queues, journal>>

IpcNext ==
    /\ IpcCall
    /\ \/ \E key \in IpcKeys \cup {0} :
            sys_msgget(key) \/ \E n \in SemCounts : sys_semget(key, n)
       \/ \E k \in 1 .. MaxIpcKey :
            \/ sys_msgctl(k)
            \/ \E mtype \in MsgTypes, size \in MsgSizes : sys_msgsnd(k, mtype, size)
            \/ \E ask \in MsgAsks, except \in BOOLEAN : sys_msgrcv(k, ask, except)
            \/ \E n \in 0 .. 1, v \in SemValues : sys_semctl(k, n, v)

-----------------------------------------------------------------------------
(* Properties                                                              *)

OfType(ms, mtype) == SelectSeq(ms, LAMBDA m : m.mtype = mtype)

\* Whatever mixture of types, "any other type" and "smallest type up to" the
\* receivers ask for, the messages of one type leave a queue in the order in
\* which they entered it, none is lost inside it, and current_bytes counts
\* those that are left.
TypesInOrder ==
    \A k \in DOMAIN queues :
        /\ \A mtype \in MsgTypes :
              OfType(journal[k].sent, mtype)
                  = OfType(journal[k].gone, mtype) \o OfType(queues[k].messages, mtype)
        /\ queues[k].current_bytes
              = FoldSeq(LAMBDA m, n : m.size + n, 0, queues[k].messages)

=============================================================================

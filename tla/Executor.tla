------------------------------ MODULE Executor ------------------------------
(***************************************************************************)
(* The cooperative executor of crates/executor: one FIFO queue of task     *)
(* items shared by the harts, a map from task id to task, and one "current *)
(* task" slot per hart.  A task item (future and task) is moved out of the *)
(* queue while its future is polled and moved back to the end when the     *)
(* poll returns Pending.  Wakers do nothing: every pending task is polled  *)
(* again in turn.                                                          *)
(***************************************************************************)
EXTENDS Integers, Sequences, FiniteSets

CONSTANTS Harts,      \* harts that execute run()
          MaxTask     \* bound on the task ids that are handed out

ASSUME MaxTaskAssumption == MaxTask \in Nat \ {0}

Task == 1 .. MaxTask
NoItem == 0

ASSUME HartsAssumption == Harts # {}

VARIABLES
    task_id,   \* the counter behind task_id_alloc
    made,      \* ids of task objects that exist but were not spawned yet
    task_queue,     \* TASK_QUEUE
    item,      \* item[h]: the item hart h moved out of the queue
    cores,     \* cores[h]: what current_task() answers on hart h
    task_map,  \* the keys of TASK_MAP
    finished      \* ids whose future returned Ready, or that were dropped unspawned

execVars == <<task_id, made, task_queue, item, cores, task_map, finished>>

Queued == {task_queue[i] : i \in 1 .. Len(task_queue)}
Polled == {item[h] : h \in Harts} \ {NoItem}

\* tasks::init: the executor is initialised, then initproc is spawned.
ExecInit ==
    /\ task_id = 1
    /\ made = {}
    /\ task_queue = <<1>>
    /\ item = [h \in Harts |-> NoItem]
    /\ cores = [h \in Harts |-> NoItem]
    /\ task_map = {1}
    /\ finished = {}

-----------------------------------------------------------------------------
(* The body of run(): pop an item, make its task current, poll it.         *)

PopFront(h) ==
    /\ item[h] = NoItem
    /\ task_queue # <<>>
    /\ task_queue' = Tail(task_queue)
    /\ item' = [item EXCEPT ![h] = Head(task_queue)]
    /\ cores' = [cores EXCEPT ![h] = Head(task_queue)]
    /\ UNCHANGED <<task_id, made, task_map, finished>>

\* A mutant: a pending task goes back to the front of the queue.
PollPendingToFront(h) ==
    /\ item[h] # NoItem
    /\ task_queue' = <<item[h]>> \o task_queue
    /\ item' = [item EXCEPT ![h] = NoItem]
    /\ UNCHANGED <<task_id, made, cores, task_map, finished>>

\* A mutant: a pending task is left to its waker, which does nothing.
PollPendingDropped(h) ==
    /\ item[h] # NoItem
    /\ item' = [item EXCEPT ![h] = NoItem]
    /\ UNCHANGED <<task_id, made, task_queue, cores, task_map, finished>>

\* The poll returned Pending.
PollPending(h) ==
    /\ item[h] # NoItem
    /\ task_queue' = Append(task_queue, item[h])
    /\ item' = [item EXCEPT ![h] = NoItem]
    /\ UNCHANGED <<task_id, made, cores, task_map, finished>>

\* The poll returned Ready: the item is dropped.
PollReady(h) ==
    /\ item[h] # NoItem
    /\ finished' = finished \cup {item[h]}
    /\ item' = [item EXCEPT ![h] = NoItem]
    /\ UNCHANGED <<task_id, made, task_queue, cores, task_map>>

-----------------------------------------------------------------------------
(* What the code of a task may do to the executor while it is polled.      *)

\* UserTask::new and thread_clone allocate the id; the task is spawned later.
TaskIdAlloc(h) ==
    /\ item[h] # NoItem
    /\ task_id < MaxTask
    /\ task_id' = task_id + 1
    /\ made' = made \cup {task_id + 1}
    /\ UNCHANGED <<task_queue, item, cores, task_map, finished>>

\* A mutant: the spawned task object is kept and can be spawned again.
SpawnKept(h, t) ==
    /\ item[h] # NoItem
    /\ t \in made
    /\ task_map' = task_map \cup {t}
    /\ task_queue' = Append(task_queue, t)
    /\ UNCHANGED <<task_id, made, item, cores, finished>>

Spawn(h, t) ==
    /\ item[h] # NoItem
    /\ t \in made
    /\ made' = made \ {t}
    /\ task_map' = task_map \cup {t}
    /\ task_queue' = Append(task_queue, t)
    /\ UNCHANGED <<task_id, item, cores, finished>>

\* command(): the exec of a fresh task failed and the task is dropped.
DropUnspawned(h, t) ==
    /\ item[h] # NoItem
    /\ t \in made
    /\ made' = made \ {t}
    /\ finished' = finished \cup {t}
    /\ UNCHANGED <<task_id, task_queue, item, cores, task_map>>

SpawnBlank(h) ==
    /\ item[h] # NoItem
    /\ task_id < MaxTask
    /\ task_id' = task_id + 1
    /\ task_map' = task_map \cup {task_id + 1}
    /\ task_queue' = Append(task_queue, task_id + 1)
    /\ UNCHANGED <<made, item, cores, finished>>

\* release_task, called when a parent (or initproc) has seen the exit code.
ReleaseTask(h, t) ==
    /\ item[h] # NoItem
    /\ t \in task_map
    /\ task_map' = task_map \ {t}
    /\ UNCHANGED <<task_id, made, task_queue, item, cores, finished>>

ExecNext ==
    \E h \in Harts :
        \/ PopFront(h)
        \/ PollPending(h)
        \/ PollReady(h)
        \/ TaskIdAlloc(h)
        \/ SpawnBlank(h)
        \/ \E t \in Task : Spawn(h, t) \/ DropUnspawned(h, t) \/ ReleaseTask(h, t)

\* run() never stops popping, and a poll returns: user code is left by system
\* calls and interrupts, and entry_point yields after 50 of them.
ExecFairness ==
    \A h \in Harts : WF_execVars(PopFront(h)) /\ WF_execVars(PollPending(h) \/ PollReady(h))

ExecSafety == ExecInit /\ [][ExecNext]_execVars

ExecSpec == ExecSafety /\ ExecFairness

-----------------------------------------------------------------------------
(* Properties                                                              *)

\* Type correctness of the queue, the item each hart polls and the task map.
ExecTypeOK ==
    /\ task_id \in Task
    /\ made \in SUBSET Task
    /\ task_queue \in Seq(Task)
    /\ item \in [Harts -> Task \cup {NoItem}]
    /\ cores \in [Harts -> Task \cup {NoItem}]
    /\ task_map \in SUBSET Task
    /\ finished \in SUBSET Task

\* A future is in one place only: no task is queued twice (run_ready_task and
\* thread::spawn both push), none is queued while a hart polls it, and no two
\* harts poll the same one.
Exclusive ==
    /\ \A i, j \in 1 .. Len(task_queue) : task_queue[i] = task_queue[j] => i = j
    /\ \A h \in Harts : item[h] # NoItem => item[h] \notin Queued
    /\ \A g, h \in Harts : item[g] # NoItem /\ item[g] = item[h] => g = h

\* Every id handed out by task_id_alloc belongs to a task that is not spawned
\* yet, queued, being polled or over: no task disappears from the kernel
\* between pop_front and push_back, and none comes back after it ended.
TasksConserved ==
    /\ 1 .. task_id = made \cup Queued \cup Polled \cup finished
    /\ made \cap (Queued \cup Polled \cup finished) = {}
    /\ finished \cap (Queued \cup Polled) = {}

\* While a hart polls a task, current_task() on that hart answers that task
\* (current_user_task() in system calls and fault handlers relies on it).
CurrentTask == \A h \in Harts : item[h] # NoItem => cores[h] = item[h]

\* tasks t and u are queued and t is polled before u
Ahead(q, t, u) == \E i, j \in 1 .. Len(q) : i < j /\ q[i] = t /\ q[j] = u

\* No step lets a task overtake one that waits in TASK_QUEUE: whoever was
\* queued stays ahead of the tasks behind it and of every newcomer.
NoOvertaking ==
    [][\A t, u \in Task :
          /\ t \in Queued /\ t \in Queued' /\ u \in Queued' /\ u # t
          /\ (u \in Queued => Ahead(task_queue, t, u))
          => Ahead(task_queue', t, u)]_execVars

\* The FIFO queue implements the scheduler contract, fairness included.
Pool == INSTANCE TaskPool WITH
            ready <- Queued, polling <- Polled, ended <- finished
PoolSpec == Pool!Spec
=============================================================================

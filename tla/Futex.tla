------------------------------- MODULE Futex --------------------------------
(***************************************************************************)
(* Futexes of one process: sys_futex (kernel/src/syscall/task.rs), the     *)
(* WaitFutex future, futex_wake and futex_requeue (tasks/async_ops.rs),    *)
(* and the wake-up of clear_child_tid when a thread exits (tasks/task.rs). *)
(*                                                                         *)
(* The futex table belongs to the process; a step is what one thread does  *)
(* between two of its await points.  Threads that are suspended in a wait  *)
(* are polled again and again (module Executor) and notice at a poll that  *)
(* they were taken off the table, that a signal is pending, or that their  *)
(* deadline has passed.                                                    *)
(***************************************************************************)
EXTENDS Naturals, Sequences, FiniteSets, FiniteSetsExt

CONSTANTS Threads,    \* the threads of the process
          Addr,       \* the futex words: a set of numbers, BTreeMap order
          Values,     \* what programs store in them; 0 is one of them
          Blocking,   \* the threads that block the signal they are sent
          Timed,      \* {FALSE}, or BOOLEAN if programs give timeouts
          TidAddr,    \* the addresses threads give to set_tid_address
          Wakes,      \* how many threads programs ask FUTEX_REQUEUE to wake
          Moves,      \* and to move
          MaxQueue    \* bound on the length of a wait queue

NoAddr == 0
NoAnswer == [asked |-> 0, count |-> 0]

ASSUME FutexAssumption ==
    /\ Addr \subseteq Nat \ {NoAddr} /\ TidAddr \subseteq Addr
    /\ 0 \in Values
    /\ Blocking \subseteq Threads
    /\ Timed \subseteq BOOLEAN
    /\ Wakes \subseteq Nat /\ Moves \subseteq Nat
    /\ IsFiniteSet(Threads)
    /\ MaxQueue \in Nat

VARIABLES
    word,             \* the user memory at the addresses
    keys,             \* the keys of FutexTable
    futex_table,      \* the queues; <<>> for an address that is no key
    clear_child_tid,  \* tcb.clear_child_tid
    signal,           \* tcb.signal.has_signal()
    st,               \* "user", "wait" (in WaitFutex), "timed" (in select) or "dead"
    on,               \* the address t waits on, as requeued since, or NoAddr
    expired,          \* the threads that had a wait time out
    answer,           \* what the last step, if it woke threads, was asked and did
    panicked          \* Vec::drain was given a range beyond the queue

vars == <<word, keys, futex_table, clear_child_tid, signal, st, on, expired, answer, panicked>>

Init ==
    /\ word \in [Addr -> Values]
    /\ keys = {}
    /\ futex_table = [a \in Addr |-> <<>>]
    /\ clear_child_tid \in [Threads -> TidAddr \cup {NoAddr}]
    /\ signal = [t \in Threads |-> FALSE]
    /\ st = [t \in Threads |-> "user"]
    /\ on = [t \in Threads |-> NoAddr]
    /\ expired = {}
    /\ answer = NoAnswer
    /\ panicked = FALSE

-----------------------------------------------------------------------------
(* Helpers                                                                 *)

Contains(q, t) == \E i \in 1 .. Len(q) : q[i] = t

\* in_futex
in_futex(t) == \E a \in Addr : Contains(futex_table[a], t)

Waiting(t) == st[t] \in {"wait", "timed"}

\* t runs user code: entry_point has handled the signals it does not block
Running(t) == ~panicked /\ st[t] = "user" /\ (signal[t] => t \in Blocking)

Drop(q, n) == SubSeq(q, n + 1, Len(q))

\* the keys of the table once address a has a queue
KeysWith(a) == keys \cup {a}

\* Vec::retain: q without t
retain(q, t) ==
    LET kept[n \in 0 .. Len(q)] ==
            IF n = 0 THEN <<>>
            ELSE IF q[n] = t THEN kept[n - 1]
            ELSE Append(kept[n - 1], q[n])
    IN  kept[Len(q)]

\* The pending signal branch of WaitFutex: t is removed from the first queue,
\* by address, that holds it.
Interrupted(tab, t) ==
    LET a == Min({b \in Addr : Contains(tab[b], t)})
    IN  [tab EXCEPT ![a] = retain(@, t)]

\* A mutant: one thread more is drained than asked for.
futex_wake_more(tab, a, n) ==
    [tab EXCEPT ![a] = Drop(@, Min({n + 1, Len(@)}))]

futex_wake(tab, a, n) == [tab EXCEPT ![a] = Drop(@, Min({n, Len(@)}))]

-----------------------------------------------------------------------------
(* FUTEX_WAIT                                                              *)

\* The value still is v: enter the queue.  The first poll is part of the call,
\* so a pending signal (a blocked one, here) ends the wait at once.
sys_futex_wait(t, a, v, timed) ==
    LET tab == [futex_table EXCEPT ![a] = Append(@, t)]
    IN  /\ Running(t) /\ word[a] = v
        /\ Len(futex_table[a]) < MaxQueue
        /\ keys' = KeysWith(a)
        /\ IF signal[t]
           THEN futex_table' = Interrupted(tab, t) /\ UNCHANGED <<st, on>>
           ELSE /\ futex_table' = tab
                /\ st' = [st EXCEPT ![t] = IF timed THEN "timed" ELSE "wait"]
                /\ on' = [on EXCEPT ![t] = a]
        /\ answer' = NoAnswer
        /\ UNCHANGED <<word, clear_child_tid, signal, expired, panicked>>

\* A mutant: a blocked signal hides that the thread was woken.
WaitFutex_woken_masked(t) ==
    /\ ~panicked /\ Waiting(t) /\ ~in_futex(t) /\ ~signal[t]
    /\ st' = [st EXCEPT ![t] = "user"]
    /\ on' = [on EXCEPT ![t] = NoAddr]
    /\ answer' = NoAnswer
    /\ UNCHANGED <<word, keys, futex_table, clear_child_tid, signal, expired, panicked>>

\* WaitFutex is polled and the thread is in no queue any more: Ok(0).
WaitFutex_woken(t) ==
    /\ ~panicked /\ Waiting(t) /\ ~in_futex(t)
    /\ st' = [st EXCEPT ![t] = "user"]
    /\ on' = [on EXCEPT ![t] = NoAddr]
    /\ answer' = NoAnswer
    /\ UNCHANGED <<word, keys, futex_table, clear_child_tid, signal, expired, panicked>>

\* EINTR, for any pending signal, blocked or not
WaitFutex_interrupted(t) ==
    /\ ~panicked /\ Waiting(t) /\ in_futex(t) /\ signal[t]
    /\ futex_table' = Interrupted(futex_table, t)
    /\ st' = [st EXCEPT ![t] = "user"]
    /\ on' = [on EXCEPT ![t] = NoAddr]
    /\ answer' = NoAnswer
    /\ UNCHANGED <<word, keys, clear_child_tid, signal, expired, panicked>>

\* The deadline has passed: ETIMEDOUT, and the queues are left as they are.
WaitUntilsec(t) ==
    /\ ~panicked /\ st[t] = "timed" /\ in_futex(t) /\ ~signal[t]
    /\ st' = [st EXCEPT ![t] = "user"]
    /\ on' = [on EXCEPT ![t] = NoAddr]
    /\ expired' = expired \cup {t}
    /\ answer' = NoAnswer
    /\ UNCHANGED <<word, keys, futex_table, clear_child_tid, signal, panicked>>

-----------------------------------------------------------------------------
(* FUTEX_WAKE, FUTEX_REQUEUE and the exit of a thread                      *)

sys_futex_wake(t, a, n) ==
    /\ Running(t)
    /\ futex_table' = futex_wake(futex_table, a, n)
    /\ answer' = [asked |-> n, count |-> Min({n, Len(futex_table[a])})]
    /\ UNCHANGED <<word, keys, clear_child_tid, signal, st, on, expired, panicked>>

\* A mutant: the threads to requeue are only copied.
futex_requeue_copied(tab, a, n, b, m) ==
    [tab EXCEPT ![a] = Drop(tab[a], n), ![b] = @ \o SubSeq(tab[a], n + 1, n + m)]

\* n threads leave queue a, the next m go to the end of queue b
futex_requeue(tab, a, n, b, m) ==
    LET rest == [tab EXCEPT ![a] = Drop(tab[a], n + m)]
    IN  [rest EXCEPT ![b] = @ \o SubSeq(tab[a], n + 1, n + m)]

\* Vec::drain panics on a range that does not fit; nothing is done to an
\* address that is no key.
sys_futex_requeue(t, a, n, b, m) ==
    LET q == futex_table[a]
        fits == n + m <= Len(q)
    IN  /\ Running(t) /\ a \in keys
        /\ fits /\ a # b => Len(futex_table[b]) + m <= MaxQueue
        /\ panicked' = ~fits
        /\ IF fits
           THEN /\ futex_table' = futex_requeue(futex_table, a, n, b, m)
                /\ keys' = KeysWith(b)
                /\ on' = [u \in Threads |->
                            IF Waiting(u) /\ Contains(SubSeq(q, n + 1, n + m), u)
                            THEN b ELSE on[u]]
                /\ answer' = [asked |-> n, count |-> n]
           ELSE UNCHANGED <<futex_table, keys, on, answer>>
        /\ UNCHANGED <<word, clear_child_tid, signal, st, expired>>

\* thread_exit, as far as futexes are concerned
thread_exit(t) ==
    LET a == clear_child_tid[t]
    IN  /\ Running(t)
        /\ IF a # NoAddr
           THEN /\ word' = [word EXCEPT ![a] = 0]
                /\ futex_table' = futex_wake(futex_table, a, 1)
                /\ answer' = [asked |-> 1, count |-> Min({1, Len(futex_table[a])})]
           ELSE UNCHANGED <<word, futex_table>> /\ answer' = NoAnswer
        /\ st' = [st EXCEPT ![t] = "dead"]
        /\ UNCHANGED <<keys, clear_child_tid, signal, on, expired, panicked>>

sys_set_tid_address(t, a) ==
    /\ Running(t)
    /\ clear_child_tid' = [clear_child_tid EXCEPT ![t] = a]
    /\ answer' = NoAnswer
    /\ UNCHANGED <<word, keys, futex_table, signal, st, on, expired, panicked>>

-----------------------------------------------------------------------------
(* What programs and the signal code do                                    *)

\* user code stores a value
Store(t, a, v) ==
    /\ Running(t) /\ word[a] # v
    /\ word' = [word EXCEPT ![a] = v]
    /\ answer' = NoAnswer
    /\ UNCHANGED <<keys, futex_table, clear_child_tid, signal, st, on, expired, panicked>>

\* tkill or tgkill by thread t
sys_tkill(t, u) ==
    /\ Running(t) /\ st[u] # "dead" /\ ~signal[u]
    /\ signal' = [signal EXCEPT ![u] = TRUE]
    /\ answer' = NoAnswer
    /\ UNCHANGED <<word, keys, futex_table, clear_child_tid, st, on, expired, panicked>>

\* check_signal, before user code runs
check_signal(t) ==
    /\ ~panicked /\ st[t] = "user" /\ signal[t] /\ t \notin Blocking
    /\ signal' = [signal EXCEPT ![t] = FALSE]
    /\ answer' = NoAnswer
    /\ UNCHANGED <<word, keys, futex_table, clear_child_tid, st, on, expired, panicked>>

\* what happens when a waiting thread is polled before its deadline
Poll(t) == WaitFutex_woken(t) \/ WaitFutex_interrupted(t)

\* what thread t does next
Step(t) ==
    \/ Poll(t) \/ WaitUntilsec(t) \/ check_signal(t) \/ thread_exit(t)
    \/ \E u \in Threads : sys_tkill(t, u)
    \/ \E a \in TidAddr : sys_set_tid_address(t, a)
    \/ \E a \in Addr :
         \/ \E v \in Values :
              Store(t, a, v) \/ \E timed \in Timed : sys_futex_wait(t, a, v, timed)
         \/ \E n \in 1 .. Cardinality(Threads) : sys_futex_wake(t, a, n)
         \/ \E n \in Wakes, b \in Addr, m \in Moves : sys_futex_requeue(t, a, n, b, m)

Next == \E t \in Threads : Step(t)

Safety == Init /\ [][Next]_vars

\* A waiting thread is polled again and again (TaskPool).
Fairness == \A t \in Threads : WF_vars(Poll(t))

Spec == Safety /\ Fairness

-----------------------------------------------------------------------------
(* Properties                                                              *)

\* The places of t in the futex table.
Places(t) == {p \in Addr \X (1 .. MaxQueue) :
                 p[2] <= Len(futex_table[p[1]]) /\ futex_table[p[1]][p[2]] = t}

\* A thread none of whose waits timed out is in the table at most once, only
\* while it waits, and in the queue of the address it waits on: WaitFutex looks
\* for the thread in every queue, so a second entry would hold it back.
TableExact ==
    \A t \in Threads \ expired :
        /\ Cardinality(Places(t)) <= 1
        /\ \A p \in Places(t) : Waiting(t) /\ p[1] = on[t]

\* Until a wait times out, futex_wake, futex_requeue and the two ways out of
\* WaitFutex do to the sleepers what WaitSets says, and wake as many threads as
\* they were asked to and as they answer.
Sleepers == [a \in Addr |-> {t \in Threads : Waiting(t) /\ on[t] = a /\ in_futex(t)}]
Sets == INSTANCE WaitSets WITH asleep <- Sleepers
WaitSetsSpec ==
    /\ Sets!Init
    /\ [][expired' = {} => UNCHANGED Sets!vars \/ Sets!Next]_vars

\* A thread taken off the table, or sent a signal, leaves its wait.
WokenReturns ==
    \A t \in Threads : (Waiting(t) /\ (~in_futex(t) \/ signal[t])) ~> (~Waiting(t) \/ panicked)

\* "The effect of this operation is to wake a single thread that is performing a
\* futex wait on the memory location" (sys_set_tid_address): when a thread with
\* clear_child_tid exits, one of the threads that wait there leaves the table.
ExitWakesOne ==
    [][\A t \in Threads :
          LET a == clear_child_tid[t]
          IN  st[t] # "dead" /\ st'[t] = "dead" /\ a # NoAddr /\ Sleepers[a] # {}
              => Sleepers'[a] # Sleepers[a]]_vars
=============================================================================

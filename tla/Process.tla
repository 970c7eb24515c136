------------------------------ MODULE Process ------------------------------
(***************************************************************************)
(* Life cycle of processes and threads: clone, exit, exit_group, fatal     *)
(* signals, wait4 and setsid, from kernel/src/tasks/task.rs,               *)
(* kernel/src/syscall/task.rs, tasks/async_ops.rs (WaitPid) and the loop   *)
(* of user/entry.rs.                                                       *)
(*                                                                         *)
(* One step of the model is what one task does between two of its await    *)
(* points: tasks are polled one at a time (module Executor).  System calls *)
(* are issued in two places.  entry_point runs user code when there is no  *)
(* signal left to handle and the thread has not exited.  The loop of       *)
(* handle_signal (user/signal.rs) runs a handler, and looks at the exit    *)
(* code of the process only: a thread that calls exit in a handler leaves  *)
(* its thread list and runs on.  A handler starts before user code runs or *)
(* while the system call of the main flow is pending; entry_point's "or"   *)
(* polls that call first and drops the handler when the call ends.         *)
(*                                                                         *)
(* wait4 stands for the calls that wait.  Signals are not blocked (masks   *)
(* are in module Signals).                                                 *)
(*                                                                         *)
(* A process control block is named by the id of the process.  Its child   *)
(* list is a set: cow_fork allocates the id and pushes the child in one    *)
(* step, so the list is always sorted by id and "first" is "smallest".     *)
(***************************************************************************)
EXTENDS Integers, FiniteSets

CONSTANTS MaxTask,    \* bound on the task ids
          MaxSent,    \* bound on the signals sent and not yet handled
          Codes,      \* exit codes programs use
          KillSigs,   \* signals sent whose default action ends the process
          CatchSigs,  \* signals sent that programs catch with a handler
          CloneSigs   \* exit signals given to clone (flags & 0xff)

SIGCHLD == 17
CoreSigs == {3, 4, 5, 6, 8, 10, 11}

ASSUME ProcessAssumption ==
    /\ MaxTask \in Nat \ {0} /\ MaxSent \in Nat
    /\ Codes \subseteq Nat
    /\ KillSigs \subseteq 1 .. 64 /\ CatchSigs \subseteq 1 .. 64
    /\ SIGCHLD \notin KillSigs \cup CatchSigs /\ KillSigs \cap CatchSigs = {}
    /\ CloneSigs \subseteq {0, SIGCHLD}

Tid == 1 .. MaxTask
NoTask == 0
Any == -1       \* wait4(-1): any child
NoCode == -1    \* exit_code: None
NoSig == 0      \* exit_signal: None
Idle == [op |-> "user", arg |-> NoTask]
NoHandler == [sig |-> NoSig, call |-> Idle]

VARIABLES
    last_id,          \* task_id_alloc
    process_id,       \* [Tid -> process id], NoTask for an id not handed out
    parent,           \* UserTask.parent (a Weak), NoTask for Weak::new()
    children,         \* pcb.children
    threads,          \* pcb.threads
    exit_code,        \* pcb.exit_code
    exit_signal,      \* pcb.exit_signal; core_dumped is set with it
    cleaned,          \* pcb: memory and file table were cleared
    thread_exit_code, \* tcb.thread_exit_code is Some
    clone_sig,        \* tcb.exit_signal
    pending,          \* tcb.signal
    sched,            \* "none", "new" (not spawned yet), "queued", "done", or how else
                      \* the task went: "broken" by rt_sigreturn, "dropped" unspawned
    call,             \* the system call a queued task is suspended in, in its handler
                      \* when it is in one
    handler,          \* the handler it is in: for which signal, and the call that the
                      \* main flow is suspended in meanwhile
    task_map,         \* TASK_MAP
    command,          \* the process initproc's command() waits for
    reaped            \* ids a wait4 or command() has collected

pcbVars == <<children, threads, exit_code, exit_signal, cleaned>>
tcbVars == <<thread_exit_code, clone_sig>>
idVars == <<last_id, process_id, parent>>
vars == <<idVars, pcbVars, tcbVars, pending, sched, call, handler, task_map,
          command, reaped>>

Init ==
    /\ last_id = 0
    /\ process_id = [t \in Tid |-> NoTask]
    /\ parent = [t \in Tid |-> NoTask]
    /\ children = [p \in Tid |-> {}]
    /\ threads = [p \in Tid |-> {}]
    /\ exit_code = [p \in Tid |-> NoCode]
    /\ exit_signal = [p \in Tid |-> NoSig]
    /\ cleaned = [p \in Tid |-> FALSE]
    /\ thread_exit_code = [t \in Tid |-> FALSE]
    /\ clone_sig = [t \in Tid |-> 0]
    /\ pending = [t \in Tid |-> {}]
    /\ sched = [t \in Tid |-> "none"]
    /\ call = [t \in Tid |-> Idle]
    /\ handler = [t \in Tid |-> NoHandler]
    /\ task_map = {}
    /\ command = NoTask
    /\ reaped = {}

-----------------------------------------------------------------------------
(* Helpers                                                                 *)

\* Somebody holds an Arc of the task: the executor or the cloner's future.
\* (A finished main thread may also be held by its parent's child list; that
\* changes nothing a task can observe through the weak references below.)
Upgradable(t) == sched[t] \in {"new", "queued"}

\* the Arc is alive, child lists and command() included
HasArc(t) == Upgradable(t) \/ t = command \/ \E p \in Tid : t \in children[p]

\* check_thread_exit
Exited(t) == exit_code[process_id[t]] # NoCode \/ thread_exit_code[t]

\* the children WaitPid accepts for its argument
Exits(t, pid) ==
    {c \in children[process_id[t]] : (pid = Any \/ c = pid) /\ exit_code[c] # NoCode}

\* c, a call of t, is a wait4 that finds no exited child
Waits(t, c) == c.op = "wait4" /\ Exits(t, c.arg) = {}

InHandler(t) == handler[t].sig # NoSig

\* t is polled and its innermost flow goes on: a handler runs only as long as
\* the call it has interrupted, polled first, is pending
Polled(t) ==
    sched[t] = "queued" /\ (handler[t].call = Idle \/ Waits(t, handler[t].call))

\* t is about to run user code: nothing to handle, not exited; in a handler,
\* the process has no exit code
Running(t) ==
    /\ Polled(t) /\ call[t] = Idle
    /\ IF InHandler(t) THEN exit_code[process_id[t]] = NoCode
                       ELSE pending[t] = {} /\ ~Exited(t)

IsFirst(c, S) == c \in S /\ \A d \in S : c <= d

\* the status word wait4 writes
WaitStatus(c) ==
    IF exit_signal[c] # NoSig
    THEN exit_signal[c] + (IF exit_signal[c] \in CoreSigs THEN 128 ELSE 0)
    ELSE exit_code[c] * 256

-----------------------------------------------------------------------------
(* Leaving: thread_exit, exit and exit_with_signal                         *)

Remaining(t) == {u \in threads[process_id[t]] \ {t} : Upgradable(u)}

\* A mutant: the main thread cleans up whatever the other threads do.
CleansUpAlone(t) == t = process_id[t]

\* should_cleanup_process
CleansUp(t) == t = process_id[t] /\ Remaining(t) = {}

\* the signal of an exit goes to the task that forked, if it still exists
NotifySig(t) == IF clone_sig[t] # 0 THEN clone_sig[t] ELSE SIGCHLD

Notified(t, pend) ==
    IF CleansUp(t) /\ parent[t] # NoTask /\ Upgradable(parent[t])
    THEN [pend EXCEPT ![parent[t]] = @ \cup {NotifySig(t)}]
    ELSE pend

\* The part thread_exit and exit share: t leaves its thread list and, as the
\* last and main thread, clears the process.
Leave(t) ==
    /\ threads' = [threads EXCEPT ![process_id[t]] = Remaining(t)]
    /\ IF CleansUp(t)
       THEN /\ children' = [children EXCEPT ![t] = {}]
            /\ cleaned' = [cleaned EXCEPT ![t] = TRUE]
       ELSE UNCHANGED <<children, cleaned>>

\* The exit code that stands when t has set the code of its process: a handler
\* breaks at once, and check_signal goes on with the signals that came
\* meanwhile, of which a fatal one ends in exit_with_signal once more.
Fatal(S) == S \cap KillSigs
EndCode(t, code) == IF Fatal(pending[t]) = {} THEN code ELSE 0
EndSignal(t, S) ==
    IF Fatal(S) = {}
    THEN UNCHANGED exit_signal
    ELSE \E s \in Fatal(S) :
           /\ \A r \in Fatal(S) : r <= s
           /\ exit_signal' = [exit_signal EXCEPT ![process_id[t]] = s]

\* sys_exit: thread_exit.  entry_point breaks in the same poll; the loop of a
\* handler goes on unless the process has got its exit code.
sys_exit(t, code) ==
    /\ Running(t)
    /\ Leave(t)
    /\ thread_exit_code' = [thread_exit_code EXCEPT ![t] = TRUE]
    /\ IF CleansUp(t)
       THEN /\ exit_code' = [exit_code EXCEPT ![t] = EndCode(t, code)]
            /\ EndSignal(t, pending[t])
       ELSE UNCHANGED <<exit_code, exit_signal>>
    /\ IF InHandler(t) /\ ~CleansUp(t)
       THEN UNCHANGED <<pending, sched, handler>>
       ELSE /\ pending' = [Notified(t, pending) EXCEPT ![t] = {}]
            /\ sched' = [sched EXCEPT ![t] = "done"]
            /\ handler' = [handler EXCEPT ![t] = NoHandler]
    /\ UNCHANGED <<idVars, clone_sig, call, task_map, command, reaped>>

\* A mutant: only the last thread of the process records the exit code.
sys_exit_group_last(t, code) ==
    /\ Running(t)
    /\ Leave(t)
    /\ exit_code' = IF CleansUp(t) THEN [exit_code EXCEPT ![t] = code] ELSE exit_code
    /\ EndSignal(t, pending[t])
    /\ pending' = [Notified(t, pending) EXCEPT ![t] = {}]
    /\ sched' = [sched EXCEPT ![t] = "done"]
    /\ handler' = [handler EXCEPT ![t] = NoHandler]
    /\ UNCHANGED <<idVars, tcbVars, call, task_map, command, reaped>>

\* sys_exit_group: exit, and the handler and entry_point break in the same poll.
sys_exit_group(t, code) ==
    /\ Running(t)
    /\ Leave(t)
    /\ exit_code' = [exit_code EXCEPT ![process_id[t]] = EndCode(t, code)]
    /\ EndSignal(t, pending[t])
    /\ pending' = [Notified(t, pending) EXCEPT ![t] = {}]
    /\ sched' = [sched EXCEPT ![t] = "done"]
    /\ handler' = [handler EXCEPT ![t] = NoHandler]
    /\ UNCHANGED <<idVars, tcbVars, call, task_map, command, reaped>>

-----------------------------------------------------------------------------
(* Signals: check_signal, handle_signal and the checks of entry_point      *)

\* A mutant: only thread_exit_code is looked at.
CheckThreadExitOwn(t) == thread_exit_code[t]

\* The exit check entry_point makes after a system call and after signals.
CheckThreadExit(t) == Exited(t)

\* t is suspended in a wait4 that finds no exited child
Blocked(t) == Waits(t, call[t])

\* the signals S of t are looked at lowest first and h is caught before one
\* of them ends the process; with an exit code set a handler breaks at once
Catches(t, S, h) ==
    /\ exit_code[process_id[t]] = NoCode
    /\ h \in S \cap CatchSigs
    /\ \A s \in S \cap (KillSigs \cup CatchSigs) : h <= s

\* check_signal with the signals S left, the main flow being suspended in
\* outer or in no call: a handler starts; or a fatal signal ends the process,
\* the status naming the highest of them; or all were ignored.  The exit check
\* of entry_point follows.
HandleSignals(t, S, outer) ==
    \/ \E h \in CatchSigs :
         /\ Catches(t, S, h)
         /\ handler' = [handler EXCEPT ![t] = [sig |-> h, call |-> outer]]
         /\ call' = [call EXCEPT ![t] = Idle]
         /\ pending' = [pending EXCEPT ![t] = {s \in S : s >= h}]
         /\ UNCHANGED <<pcbVars, sched>>
    \/ /\ ~\E h \in CatchSigs : Catches(t, S, h)
       /\ handler' = [handler EXCEPT ![t] = NoHandler]
       /\ IF Fatal(S) # {}
          THEN /\ Leave(t)
               /\ exit_code' = [exit_code EXCEPT ![process_id[t]] = 0]
               /\ EndSignal(t, S)
               /\ pending' = [Notified(t, pending) EXCEPT ![t] = {}]
               /\ sched' = [sched EXCEPT ![t] = "done"]
               /\ call' = [call EXCEPT ![t] = Idle]
          ELSE /\ pending' = [pending EXCEPT ![t] = {}]
               /\ IF CheckThreadExit(t)
                  THEN /\ sched' = [sched EXCEPT ![t] = "done"]
                       /\ call' = [call EXCEPT ![t] = Idle]
                  ELSE /\ call' = [call EXCEPT ![t] = outer]
                       /\ UNCHANGED sched
               /\ UNCHANGED pcbVars

signalSame == <<idVars, tcbVars, task_map, command, reaped>>

\* The signal and exit checks, made before user code runs and, by the second
\* future of entry_point's "or", whenever the system call is still pending.
CheckSignals(t) ==
    /\ sched[t] = "queued" /\ ~InHandler(t)
    /\ call[t] = Idle \/ Blocked(t)
    /\ pending[t] # {} \/ CheckThreadExit(t)
    /\ HandleSignals(t, pending[t], call[t])
    /\ UNCHANGED signalSame

\* A handler ends, and check_signal goes on with the other signals.
HandlerEnds(t) ==
    /\ Polled(t) /\ InHandler(t) /\ call[t] = Idle
    /\ HandleSignals(t, pending[t] \ {handler[t].sig}, handler[t].call)
    /\ UNCHANGED signalSame

\* ... because its loop finds the exit code of the process,
handler_break(t) == HandlerEnds(t) /\ exit_code[process_id[t]] # NoCode

\* ... or because the program calls rt_sigreturn,
handler_return(t) == Running(t) /\ HandlerEnds(t)

\* rt_sigreturn outside a handler: handle_syscall answers Break all the same,
\* and entry_point ends the task without thread_exit and without exit.
sys_rt_sigreturn(t) ==
    /\ Running(t) /\ ~InHandler(t)
    /\ sched' = [sched EXCEPT ![t] = "broken"]
    /\ UNCHANGED <<idVars, pcbVars, tcbVars, pending, call, handler, task_map,
                   command, reaped>>

-----------------------------------------------------------------------------
(* clone                                                                   *)

\* thread_clone; sys_clone then yields before it spawns the new task
sys_clone_thread(t, sig) ==
    LET p == process_id[t]
        n == last_id + 1
    IN  /\ Running(t) /\ last_id < MaxTask
        /\ last_id' = n
        /\ process_id' = [process_id EXCEPT ![n] = p]
        /\ parent' = [parent EXCEPT ![n] = parent[t]]
        /\ threads' = [threads EXCEPT ![p] = {u \in @ : Upgradable(u)} \cup {n}]
        /\ clone_sig' = [clone_sig EXCEPT ![n] = sig]
        /\ sched' = [sched EXCEPT ![n] = "new"]
        /\ call' = [call EXCEPT ![t] = [op |-> "clone", arg |-> n]]
        /\ UNCHANGED <<children, exit_code, exit_signal, cleaned, thread_exit_code,
                       pending, handler, task_map, command, reaped>>

\* A mutant: a child forked by a thread other than the main one is not listed.
sys_clone_fork_main(t, sig) ==
    LET p == process_id[t]
        n == last_id + 1
    IN  /\ Running(t) /\ last_id < MaxTask
        /\ last_id' = n
        /\ process_id' = [process_id EXCEPT ![n] = n]
        /\ parent' = [parent EXCEPT ![n] = t]
        /\ children' = IF t = p THEN [children EXCEPT ![p] = @ \cup {n}] ELSE children
        /\ threads' = [threads EXCEPT ![n] = {n}]
        /\ clone_sig' = [clone_sig EXCEPT ![n] = sig]
        /\ sched' = [sched EXCEPT ![n] = "new"]
        /\ call' = [call EXCEPT ![t] = [op |-> "clone", arg |-> n]]
        /\ UNCHANGED <<exit_code, exit_signal, cleaned, thread_exit_code,
                       pending, handler, task_map, command, reaped>>

\* cow_fork
sys_clone_fork(t, sig) ==
    LET p == process_id[t]
        n == last_id + 1
    IN  /\ Running(t) /\ last_id < MaxTask
        /\ last_id' = n
        /\ process_id' = [process_id EXCEPT ![n] = n]
        /\ parent' = [parent EXCEPT ![n] = t]
        /\ children' = [children EXCEPT ![p] = @ \cup {n}]
        /\ threads' = [threads EXCEPT ![n] = {n}]
        /\ clone_sig' = [clone_sig EXCEPT ![n] = sig]
        /\ sched' = [sched EXCEPT ![n] = "new"]
        /\ call' = [call EXCEPT ![t] = [op |-> "clone", arg |-> n]]
        /\ UNCHANGED <<exit_code, exit_signal, cleaned, thread_exit_code,
                       pending, handler, task_map, command, reaped>>

\* The system call of t's innermost flow is over: a handler goes on; entry_point
\* makes its exit check.
AfterCall(t) == IF ~InHandler(t) /\ CheckThreadExit(t) THEN "done" ELSE sched[t]

\* thread::spawn after the yield
clone_spawn(t) ==
    LET n == call[t].arg
    IN  /\ Polled(t) /\ call[t].op = "clone"
        /\ sched' = [sched EXCEPT ![n] = "queued", ![t] = AfterCall(t)]
        /\ task_map' = task_map \cup {n}
        /\ call' = [call EXCEPT ![t] = Idle]
        /\ UNCHANGED <<idVars, pcbVars, tcbVars, pending, handler, command, reaped>>

-----------------------------------------------------------------------------
(* wait4                                                                   *)

\* wait4 answers child c: drop it from the child list and from TASK_MAP.
Reap(t, c) ==
    /\ children' = [children EXCEPT ![process_id[t]] = @ \ {c}]
    /\ task_map' = task_map \ {c}
    /\ reaped' = reaped \cup {c}

\* wait4 answers ECHILD, which changes nothing
NoChild(t, pid) ==
    \/ children[process_id[t]] = {}
    \/ pid # Any /\ pid \notin children[process_id[t]]

waitSame == <<idVars, tcbVars, threads, exit_code, exit_signal, cleaned, pending,
              command>>

\* options 0, 2, 3 and 10: the first poll of WaitPid is part of the call
sys_wait4(t, pid) ==
    /\ Running(t) /\ ~NoChild(t, pid)
    /\ \/ /\ \E c \in Tid : IsFirst(c, Exits(t, pid)) /\ Reap(t, c)
          /\ UNCHANGED call
       \/ /\ Exits(t, pid) = {}
          /\ call' = [call EXCEPT ![t] = [op |-> "wait4", arg |-> pid]]
          /\ UNCHANGED <<children, task_map, reaped>>
    /\ UNCHANGED <<waitSame, sched, handler>>

\* A mutant: the WNOHANG branch reaps without looking at the exit code.
sys_wait4_nohang_unchecked(t, pid) ==
    /\ Running(t) /\ ~NoChild(t, pid)
    /\ \E c \in Tid :
         /\ IsFirst(c, {d \in children[process_id[t]] : pid = Any \/ d = pid})
         /\ Reap(t, c)
    /\ UNCHANGED <<waitSame, sched, call, handler>>

\* options 1, WNOHANG: only the first matching child is looked at; the answer 0
\* changes nothing
sys_wait4_nohang(t, pid) ==
    /\ Running(t) /\ ~NoChild(t, pid)
    /\ \E c \in Tid :
         /\ IsFirst(c, {d \in children[process_id[t]] : pid = Any \/ d = pid})
         /\ exit_code[c] # NoCode
         /\ Reap(t, c)
    /\ UNCHANGED <<waitSame, sched, call, handler>>

\* A mutant: WaitPid forgets that -1 means any child.
wait4_ready_exact(t) ==
    /\ Polled(t) /\ call[t].op = "wait4"
    /\ \E c \in Tid : IsFirst(c, Exits(t, call[t].arg)) /\ c = call[t].arg
                      /\ Reap(t, c)
    /\ call' = [call EXCEPT ![t] = Idle]
    /\ sched' = [sched EXCEPT ![t] = AfterCall(t)]
    /\ UNCHANGED <<waitSame, handler>>

\* WaitPid is polled again and finds an exited child.
wait4_ready(t) ==
    /\ Polled(t) /\ call[t].op = "wait4"
    /\ \E c \in Tid : IsFirst(c, Exits(t, call[t].arg)) /\ Reap(t, c)
    /\ call' = [call EXCEPT ![t] = Idle]
    /\ sched' = [sched EXCEPT ![t] = AfterCall(t)]
    /\ UNCHANGED <<waitSame, handler>>

\* The same for the wait4 of the main flow while t is in a handler: the handler
\* is dropped wherever it is suspended, in clone with the task it has made; its
\* signal stays pending.
outer_ready(t) ==
    LET c == handler[t].call
    IN  /\ sched[t] = "queued" /\ c.op = "wait4"
        /\ \E d \in Tid : IsFirst(d, Exits(t, c.arg)) /\ Reap(t, d)
        /\ call' = [call EXCEPT ![t] = Idle]
        /\ handler' = [handler EXCEPT ![t] = NoHandler]
        /\ sched' = [u \in Tid |->
                        IF u = t THEN IF CheckThreadExit(t) THEN "done" ELSE "queued"
                        ELSE IF call[t] = [op |-> "clone", arg |-> u] THEN "dropped"
                        ELSE sched[u]]
        /\ UNCHANGED waitSame

-----------------------------------------------------------------------------
(* kill, setsid and initproc                                               *)

\* tid2task finds tasks of TASK_MAP that are still alive
sys_kill(t, u, s) ==
    /\ Running(t)
    /\ u \in task_map /\ Upgradable(u)
    /\ Cardinality({x \in Tid \X (KillSigs \cup CatchSigs) : x[2] \in pending[x[1]]}) < MaxSent
    /\ pending' = [pending EXCEPT ![u] = @ \cup {s}]
    /\ UNCHANGED <<idVars, pcbVars, tcbVars, sched, call, handler, task_map, command,
                   reaped>>

sys_setsid(t) ==
    /\ Running(t)
    /\ parent[t] # NoTask /\ HasArc(parent[t])
    /\ children' = [children EXCEPT ![process_id[parent[t]]] = @ \ {t}]
    /\ parent' = [parent EXCEPT ![t] = NoTask]
    /\ UNCHANGED <<last_id, process_id, threads, exit_code, exit_signal, cleaned,
                   tcbVars, pending, sched, call, handler, task_map, command, reaped>>

\* initproc's command(): a process without a parent
command_start ==
    LET n == last_id + 1
    IN  /\ command = NoTask /\ last_id < MaxTask
        /\ last_id' = n
        /\ process_id' = [process_id EXCEPT ![n] = n]
        /\ threads' = [threads EXCEPT ![n] = {n}]
        /\ sched' = [sched EXCEPT ![n] = "queued"]
        /\ task_map' = task_map \cup {n}
        /\ command' = n
        /\ UNCHANGED <<parent, children, exit_code, exit_signal, cleaned, tcbVars,
                       pending, call, handler, reaped>>

\* ... and its polling loop: release_task once the exit code is there
command_done ==
    /\ command # NoTask /\ exit_code[command] # NoCode
    /\ task_map' = task_map \ {command}
    /\ reaped' = reaped \cup {command}
    /\ command' = NoTask
    /\ UNCHANGED <<idVars, pcbVars, tcbVars, pending, sched, call, handler>>

-----------------------------------------------------------------------------
\* what the kernel does when it polls t again, whatever the program does
Resume(t) ==
    \/ CheckSignals(t) \/ handler_break(t)
    \/ clone_spawn(t) \/ wait4_ready(t) \/ outer_ready(t)

Next ==
    \/ command_start
    \/ command_done
    \/ \E t \in Tid :
         \/ Resume(t)
         \/ \E code \in Codes : sys_exit(t, code) \/ sys_exit_group(t, code)
         \/ \E sig \in CloneSigs : sys_clone_thread(t, sig) \/ sys_clone_fork(t, sig)
         \/ \E pid \in Tid \cup {Any} :
              sys_wait4(t, pid) \/ sys_wait4_nohang(t, pid)
         \/ \E u \in Tid, s \in KillSigs \cup CatchSigs : sys_kill(t, u, s)
         \/ sys_setsid(t)
         \/ handler_return(t) \/ sys_rt_sigreturn(t)

Safety == Init /\ [][Next]_vars

\* TaskPool: every queued task is polled again and again, so a task that the
\* kernel can move on its own does move.  Nothing is assumed of programs.
Fairness == WF_vars(command_done) /\ \A t \in Tid : WF_vars(Resume(t))

Spec == Safety /\ Fairness

-----------------------------------------------------------------------------
(* Properties                                                              *)

Wait4Calls == [op : {"wait4"}, arg : Tid \cup {Any}]
Calls == {Idle} \cup [op : {"clone"}, arg : Tid] \cup Wait4Calls
Handlers == [sig : CatchSigs \cup {NoSig}, call : {Idle} \cup Wait4Calls]
Signals == KillSigs \cup CatchSigs \cup {SIGCHLD}
Scheds == {"none", "new", "queued", "done", "broken", "dropped"}

\* Type correctness of the process table.
TypeOK ==
    /\ last_id \in 0 .. MaxTask
    /\ process_id \in [Tid -> Tid \cup {NoTask}]
    /\ parent \in [Tid -> Tid \cup {NoTask}]
    /\ children \in [Tid -> SUBSET Tid]
    /\ threads \in [Tid -> SUBSET Tid]
    /\ exit_code \in [Tid -> Codes \cup {NoCode, 0}]
    /\ exit_signal \in [Tid -> KillSigs \cup {NoSig}]
    /\ cleaned \in [Tid -> BOOLEAN]
    /\ thread_exit_code \in [Tid -> BOOLEAN]
    /\ clone_sig \in [Tid -> CloneSigs \cup {0}]
    /\ pending \in [Tid -> SUBSET Signals]
    /\ sched \in [Tid -> Scheds]
    /\ call \in [Tid -> Calls]
    /\ handler \in [Tid -> Handlers]
    /\ task_map \in SUBSET Tid
    /\ command \in Tid \cup {NoTask}
    /\ reaped \in SUBSET Tid

\* A process and its main thread have the same id.
IsProcess(p) == process_id[p] = p

\* UserTask::release asserts that the task it releases has exited: nothing is
\* collected by wait4 or by initproc before its exit code is set.
ReleaseAssert == \A c \in reaped : exit_code[c] # NoCode

\* Child lists and parent links agree, so a process is in one list at most, and
\* a collected process is in none: wait4, whoever calls it and however many
\* threads wait at once, answers a child at most once.
ChildLists ==
    \A p \in Tid : \A c \in children[p] :
        /\ IsProcess(c) /\ c \notin reaped
        /\ parent[c] # NoTask /\ process_id[parent[c]] = p

\* No zombie is lost: as long as its parent process has not been torn down, a
\* child that did not call setsid is in the child list or was collected.
NoZombieLost ==
    \A c \in Tid :
        IsProcess(c) /\ parent[c] # NoTask /\ ~cleaned[process_id[parent[c]]]
        => c \in children[process_id[parent[c]]] \cup reaped

\* The memory and the files of a process are cleared (thread_exit and exit,
\* should_cleanup_process) only under threads that are gone for good or that
\* called exit in a handler they are still in: the handler's loop runs on, but
\* pcb.threads no longer counts its thread.
CleanedQuiet ==
    \A p \in Tid : cleaned[p] =>
        \A t \in Tid : process_id[t] = p /\ Upgradable(t)
                          => thread_exit_code[t] /\ InHandler(t)

\* What the user-space macros make of a status word (sys/wait.h).
WIFEXITED(s) == s % 128 = 0
WEXITSTATUS(s) == (s \div 256) % 256
WTERMSIG(s) == s % 128
WCOREDUMP(s) == (s \div 128) % 2 = 1

\* The status word s tells how child c ended: by which signal and with a core
\* dump or not, or with which exit code (low byte).
Decodes(c, s) ==
    IF exit_signal[c] # NoSig
    THEN WTERMSIG(s) = exit_signal[c] /\ (WCOREDUMP(s) <=> exit_signal[c] \in CoreSigs)
    ELSE WIFEXITED(s) /\ WEXITSTATUS(s) = exit_code[c] % 256

\* A process without threads and without an exit code, which no wait4 will ever
\* answer, is the doing of its main thread, and in three ways only: it called
\* sys_exit before the others were gone, it called rt_sigreturn outside a
\* handler, or it was never spawned, because the handler that forked it was
\* dropped in clone.
StrandedOnlyByMain ==
    \A p \in Tid :
        /\ IsProcess(p) /\ exit_code[p] = NoCode
        /\ \A t \in Tid : process_id[t] = p => ~Upgradable(t)
        => thread_exit_code[p] \/ sched[p] \in {"broken", "dropped"}

\* The process table is a correct process tree.
Phase(p) ==
    IF ~IsProcess(p) THEN "free"
    ELSE IF p \in reaped THEN "reaped"
    ELSE IF exit_code[p] # NoCode THEN "exited" ELSE "live"
Mother(c) ==
    IF IsProcess(c) /\ parent[c] # NoTask /\ c \in children[process_id[parent[c]]]
    THEN process_id[parent[c]] ELSE NoTask
Tree == INSTANCE ProcTree WITH
            Pid <- Tid,
            phase <- [p \in Tid |-> Phase(p)],
            mother <- [c \in Tid |-> Mother(c)]
TreeSpec == Tree!Spec

\* The invariants above, strengthened until every step preserves them.
\* Ids beyond the counter are untouched, process ids are ids of main threads:
Ids ==
    /\ \A t \in Tid : t > last_id =>
         /\ process_id[t] = NoTask /\ sched[t] = "none" /\ parent[t] = NoTask
         /\ children[t] = {} /\ threads[t] = {} /\ exit_code[t] = NoCode
         /\ ~cleaned[t] /\ ~thread_exit_code[t] /\ t \notin reaped
    /\ \A t \in Tid : t <= last_id => process_id[t] # NoTask
    /\ \A t \in Tid : process_id[t] # NoTask => IsProcess(process_id[t])
    /\ \A t \in Tid : parent[t] # NoTask => parent[t] <= last_id
\* every task that can still run is in the thread list of its process or called
\* exit in the handler it is in, and thread lists hold threads of their process:
ThreadLists ==
    /\ \A t \in Tid : Upgradable(t) =>
         t \in threads[process_id[t]] \/ thread_exit_code[t]
    /\ \A t \in Tid : Upgradable(t) /\ thread_exit_code[t] => InHandler(t)
    /\ \A p \in Tid : \A t \in threads[p] : process_id[t] = p
\* a task is suspended in clone exactly with its own unspawned task:
CloneCalls ==
    /\ \A t \in Tid : call[t].op = "clone" => sched[call[t].arg] = "new"
    /\ \A t, u \in Tid :
         call[t].op = "clone" /\ call[u].op = "clone" /\ call[t].arg = call[u].arg
         => t = u
\* exit codes belong to processes; what was torn down or collected has one;
\* a main thread that is done left one, unless it called sys_exit early:
ExitCodes ==
    /\ \A p \in Tid : exit_code[p] # NoCode => IsProcess(p)
    /\ \A p \in Tid : cleaned[p] => exit_code[p] # NoCode
    /\ \A p \in Tid : IsProcess(p) /\ exit_code[p] = NoCode /\ sched[p] = "done"
                        => thread_exit_code[p]
\* command() waits for a process without a parent that nobody else collects:
CommandTask ==
    command # NoTask =>
        IsProcess(command) /\ parent[command] = NoTask /\ command \notin reaped

\* The inductive invariant of the process table.
IInv ==
    /\ TypeOK /\ Ids /\ ThreadLists /\ CloneCalls /\ ExitCodes /\ CommandTask
    /\ ReleaseAssert /\ ChildLists /\ NoZombieLost /\ CleanedQuiet

\* exit_group and fatal signals end every thread of the process, also the ones
\* that are blocked in wait4, in clone or not even spawned yet; but not a thread
\* that a handler has suspended in a call that waits, for as long as it waits.
ExitEndsThreads ==
    \A t \in Tid :
        (Upgradable(t) /\ exit_code[process_id[t]] # NoCode)
        ~> (~Upgradable(t) \/ (InHandler(t) /\ Blocked(t)))

\* A blocked wait4 returns once a child it waits for has exited, unless another
\* thread of the caller collects that child first; also in a handler, and also
\* while the handler that interrupted it runs.
ChildIsThere(t) ==
    \E c \in {call[t], handler[t].call} : c.op = "wait4" /\ ~Waits(t, c)
WaitReturns ==
    \A t \in Tid : ChildIsThere(t) ~> ~ChildIsThere(t)

\* "return LinuxError::ECHILD if there has no child process" (syscall/task.rs):
\* a wait4 without a child to wait for ends.
WaitWithoutChildEnds ==
    \A t \in Tid :
        (call[t].op = "wait4" /\ NoChild(t, call[t].arg)) ~> call[t].op # "wait4"
=============================================================================

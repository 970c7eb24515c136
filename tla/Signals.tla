------------------------------- MODULE Signals ------------------------------
(***************************************************************************)
(* The signals of one thread: tkill, tgkill and kill                       *)
(* (kernel/src/syscall/task.rs), sigprocmask, sigaction, sigsuspend and    *)
(* sigtimedwait (syscall/signal.rs), SignalList (tasks/signal.rs),         *)
(* check_signal, check_timer and entry_point (user/entry.rs) and           *)
(* handle_signal (user/signal.rs).                                         *)
(*                                                                         *)
(* The kernel delivers signals in two places: between two system calls     *)
(* (entry_point's loop), and while a system call is suspended, where       *)
(* future::or polls the call first and then a second future that delivers. *)
(* A user handler runs inside handle_signal, as part of that future; when  *)
(* the call completes, or drops the future and the handler with it.        *)
(* Nothing is delivered while a handler runs.                              *)
(*                                                                         *)
(* Other threads run only while this one is suspended, so signals arrive   *)
(* in user code (the thread's own), in a suspended call, or while a        *)
(* handler runs, but not in the midst of check_signal.                     *)
(***************************************************************************)
EXTENDS Naturals, Sequences, FiniteSets, FiniteSetsExt

CONSTANTS Sig,         \* the signal numbers in use
          Sent,        \* the ones that programs send
          Installs,    \* the signals and SigActions programs give to sigaction
          Masks,       \* the masks they give to sigprocmask
          MaxWaiting,  \* bound on the instances of a real-time signal that wait
          MaxDepth     \* bound on the handlers user code is in

SIGKILL == 9
SIGALRM == 14
SIGSEGV == 11

\* is_real_time
RealTime == 34 .. 64

User == {10, 12}
\* the signals that end the process by default (SIGCANCEL is 33)
Fatal == (1 .. 8) \cup (10 .. 15) \cup {24, 25, 26, 27, 33}
\* delivered to no handler: SIGTIMER and SIGCHLD
Undelivered == {32, 17}
\* ignored if the handler has no restorer: SIGCHLD, SIGURG, SIGWINCH, SIGIO
Optional == {17, 23, 28, 29}

\* A SigAction: SIG_DFL, SIG_IGN, a handler that is not in an executable area,
\* or a handler; the mask while it runs; its restorer is in an executable area
\* ("ok"), is none or is anything else ("bad").
ActionType == [handler : {"dfl", "ign", "invalid", "user"}, mask : SUBSET Sig,
               restorer : {"ok", "none", "bad"}]
Default == [handler |-> "dfl", mask |-> {}, restorer |-> "none"]

ASSUME SignalsAssumption ==
    /\ Sig \subseteq 1 .. 64 /\ Sent \subseteq Sig
    /\ Installs \subseteq Sig \X ActionType
    /\ Masks \subseteq SUBSET Sig
    /\ MaxWaiting \in Nat /\ MaxDepth \in Nat

VARIABLES
    pc,            \* where the thread is: "top" of entry_point's loop, "user" code, a
                   \* suspended call ("io", or "sigwait" for sigsuspend and
                   \* sigtimedwait), "check" (the second future) or "done"
    live,          \* the handlers inside handle_signal: at most one
    ctx,           \* the handlers user code is in
    signal,        \* tcb.signal
    signal_queue,  \* tcb.signal_queue
    sigmask,       \* tcb.sigmask
    sigaction,     \* pcb.sigaction
    exited,        \* "process": it has an exit code; "thread": this thread has; "no"
    armed,         \* pcb.timer[0] is set
    wanted,        \* the mask the program set outside of handlers
    owed,          \* instances of a real-time signal sent and not yet handled
    dropped,       \* a handler was dropped by future::or
    skipped        \* handle_signal gave up after it changed the mask

sigVars == <<pc, live, ctx, signal, signal_queue, sigmask, sigaction, exited, armed,
          wanted, owed, dropped, skipped>>

SigInit ==
    /\ pc = "top" /\ live = <<>> /\ ctx = <<>>
    /\ signal = {} /\ signal_queue = [s \in Sig |-> 0]
    /\ sigmask = {} /\ wanted = {}
    /\ sigaction = [s \in Sig |-> Default]
    /\ exited = "no" /\ armed = FALSE
    /\ owed = [s \in Sig |-> 0]
    /\ dropped = FALSE /\ skipped = FALSE

-----------------------------------------------------------------------------
(* Sending                                                                 *)

Receptive ==
    IF live = <<>> THEN pc \in {"user", "io", "sigwait"}
    ELSE live[1].blocked \/ exited # "process"

Owe(s) == IF s \in RealTime THEN [owed EXCEPT ![s] = @ + 1] ELSE owed

\* tkill and tgkill: a real-time signal that is pending already is counted
sys_tkill(s) ==
    /\ Receptive /\ signal_queue[s] < MaxWaiting
    /\ signal' = signal \cup {s}
    /\ signal_queue' = IF s \in signal \cap RealTime THEN [signal_queue EXCEPT ![s] = @ + 1]
                       ELSE signal_queue
    /\ owed' = Owe(s)
    /\ UNCHANGED <<pc, live, ctx, sigmask, sigaction, exited, armed, wanted, dropped, skipped>>

\* kill merges it with the pending one
sys_kill(s) ==
    /\ Receptive
    /\ signal' = signal \cup {s}
    /\ owed' = IF s \in signal THEN owed ELSE Owe(s)
    /\ UNCHANGED <<pc, live, ctx, signal_queue, sigmask, sigaction, exited, armed, wanted, dropped, skipped>>

\* another thread of the process ends it
ProcessExit ==
    /\ Receptive /\ exited # "process"
    /\ exited' = "process"
    /\ UNCHANGED <<pc, live, ctx, signal, signal_queue, sigmask, sigaction, armed, wanted, owed, dropped, skipped>>

-----------------------------------------------------------------------------
(* handle_signal and check_signal                                          *)

\* the lowest pending signal that is not blocked
try_get_signal == Min(signal \ sigmask)

Pending == signal \ sigmask # {}

\* What becomes of signal s with action a, given a usable stack or not:
\* "skip" it, "exit", "leak" (return after the mask was changed), "jump" (return
\* after the registers were changed too), or "run" the handler.
Outcome(s, a, stack) ==
    CASE s = SIGKILL \/ a.handler = "invalid" -> "exit"
      [] a.handler = "dfl" -> IF s \in Fatal THEN "exit" ELSE "skip"
      [] a.handler = "ign" \/ s \in Undelivered -> "skip"
      [] ~stack -> "leak"
      [] a.restorer = "none" /\ s \notin User -> IF s \in Optional THEN "jump" ELSE "exit"
      [] a.restorer = "bad" /\ s \notin User -> IF s \in Fatal THEN "exit" ELSE "jump"
      [] OTHER -> "run"

\* A mutant: the instances that wait are forgotten.
RemoveAll(s) ==
    /\ signal' = signal \ {s}
    /\ UNCHANGED signal_queue
    /\ owed' = IF s \in RealTime THEN [owed EXCEPT ![s] = @ - 1] ELSE owed

\* after handle_signal: drop the signal, or the instance that was handled
Remove(s) ==
    /\ IF s \in RealTime /\ signal_queue[s] > 0
       THEN UNCHANGED signal /\ signal_queue' = [signal_queue EXCEPT ![s] = @ - 1]
       ELSE signal' = signal \ {s} /\ UNCHANGED signal_queue
    /\ owed' = IF s \in RealTime THEN [owed EXCEPT ![s] = @ - 1] ELSE owed

Checking == live = <<>> /\ pc \in {"top", "check"}

\* a handler user code is in, and where RA was left pointing to
Activation(s, ra) == [sig |-> s, restorer |-> ra]

\* a signal that starts no handler
check_signal_return(stack) ==
    LET s == try_get_signal
        out == Outcome(s, sigaction[s], stack)
    IN  /\ Checking /\ Pending /\ out # "run"
        /\ out = "jump" => Len(ctx) < MaxDepth
        /\ exited' = IF out = "exit" THEN "process" ELSE exited
        /\ sigmask' = IF out \in {"leak", "jump"} THEN sigaction[s].mask ELSE sigmask
        /\ ctx' = IF out = "jump" THEN Append(ctx, Activation(s, "none")) ELSE ctx
        /\ skipped' = (skipped \/ out \in {"leak", "jump"})
        /\ Remove(s)
        /\ UNCHANGED <<pc, live, sigaction, armed, wanted, dropped>>

\* a user handler is started
check_signal_handler ==
    LET s == try_get_signal
    IN  /\ Checking /\ Pending /\ Outcome(s, sigaction[s], TRUE) = "run"
        /\ Len(ctx) < MaxDepth
        /\ live' = <<[sig |-> s, mask |-> sigmask, ctx |-> ctx, blocked |-> FALSE]>>
        /\ sigmask' = sigaction[s].mask
        /\ ctx' = Append(ctx, Activation(s, sigaction[s].restorer))
        /\ UNCHANGED <<pc, signal, signal_queue, sigaction, exited, armed, wanted, owed, dropped, skipped>>


-----------------------------------------------------------------------------
(* entry_point's loop                                                      *)

CheckThreadExit == exited # "no"

\* nothing to deliver: end the thread, or run user code
LoopTop ==
    /\ Checking /\ pc = "top" /\ ~Pending
    /\ pc' = IF CheckThreadExit THEN "done" ELSE "user"
    /\ UNCHANGED <<live, ctx, signal, signal_queue, sigmask, sigaction, exited, armed, wanted, owed, dropped, skipped>>

\* A mutant: the second future does not deliver.
OrSecond_deaf ==
    /\ pc = "io" /\ live = <<>> /\ CheckThreadExit
    /\ pc' = "done"
    /\ UNCHANGED <<live, ctx, signal, signal_queue, sigmask, sigaction, exited, armed, wanted, owed, dropped, skipped>>

\* the call was polled and is not ready: the second future of or is polled
OrSecond ==
    /\ pc = "io" /\ live = <<>>
    /\ pc' = "check"
    /\ UNCHANGED <<live, ctx, signal, signal_queue, sigmask, sigaction, exited, armed, wanted, owed, dropped, skipped>>

\* it has delivered everything: Break, or yield
OrYield ==
    /\ Checking /\ pc = "check" /\ ~Pending
    /\ pc' = IF CheckThreadExit THEN "done" ELSE "io"
    /\ UNCHANGED <<live, ctx, signal, signal_queue, sigmask, sigaction, exited, armed, wanted, owed, dropped, skipped>>

AfterSyscall == IF CheckThreadExit THEN "done" ELSE "top"

\* the suspended call completes, and with it goes the handler that was running
OrFirst ==
    /\ pc = "io" \/ (pc = "check" /\ live # <<>> /\ live[1].blocked)
    /\ pc' = AfterSyscall
    /\ live' = <<>>
    /\ dropped' = (dropped \/ live # <<>>)
    /\ UNCHANGED <<ctx, signal, signal_queue, sigmask, sigaction, exited, armed, wanted, owed, skipped>>

\* WaitSignal and sigsuspend: any pending signal ends the wait, blocked or not;
\* until there is one the second future finds nothing but an exit code
WaitSignal ==
    /\ pc = "sigwait"
    /\ signal # {} \/ CheckThreadExit
    /\ pc' = AfterSyscall
    /\ UNCHANGED <<live, ctx, signal, signal_queue, sigmask, sigaction, exited, armed, wanted, owed, dropped, skipped>>

check_timer ==
    /\ armed /\ live = <<>> /\ pc \in {"user", "io", "sigwait"}
    /\ SIGALRM \in Sig
    /\ armed' = FALSE
    /\ signal' = signal \cup {SIGALRM}
    /\ UNCHANGED <<pc, live, ctx, signal_queue, sigmask, sigaction, exited, wanted, owed, dropped, skipped>>

-----------------------------------------------------------------------------
(* User code, in the main flow or in a handler                             *)

\* handle_signal's loop looks at the process's exit code alone
InHandler == live # <<>> /\ ~live[1].blocked /\ exited # "process"
InMain == live = <<>> /\ pc = "user"

\* a trap that is served at once, as one with no effect on signals is
Trap ==
    /\ InMain
    /\ pc' = AfterSyscall
    /\ UNCHANGED <<live, ctx, signal, signal_queue, sigmask, sigaction, exited, armed, wanted, owed, dropped, skipped>>

\* A system call that is served at once is modelled by its effect; in the main flow
\* Trap follows it.
sys_sigprocmask(m) ==
    /\ InMain \/ InHandler
    /\ sigmask' = m
    /\ wanted' = IF live = <<>> THEN m ELSE wanted
    /\ UNCHANGED <<pc, live, ctx, signal, signal_queue, sigaction, exited, armed, owed, dropped, skipped>>

\* by this thread or another one of the process
sys_sigaction(s, a) ==
    /\ Receptive
    /\ sigaction' = [sigaction EXCEPT ![s] = a]
    /\ UNCHANGED <<pc, live, ctx, signal, signal_queue, sigmask, exited, armed, wanted, owed, dropped, skipped>>

sys_exit ==
    /\ InMain \/ InHandler
    /\ exited = "no"
    /\ exited' = "thread"
    /\ pc' = IF live = <<>> THEN "done" ELSE pc
    /\ UNCHANGED <<live, ctx, signal, signal_queue, sigmask, sigaction, armed, wanted, owed, dropped, skipped>>

sys_setitimer ==
    /\ InMain \/ InHandler
    /\ armed' \in BOOLEAN
    /\ UNCHANGED <<pc, live, ctx, signal, signal_queue, sigmask, sigaction, exited, wanted, owed, dropped, skipped>>

\* a call that is suspended
Block ==
    /\ IF live = <<>>
       THEN InMain /\ pc' \in {"io", "sigwait"} /\ UNCHANGED live
       ELSE InHandler /\ live' = <<[live[1] EXCEPT !.blocked = TRUE]>> /\ UNCHANGED pc
    /\ UNCHANGED <<ctx, signal, signal_queue, sigmask, sigaction, exited, armed, wanted, owed, dropped, skipped>>

\* the call a handler made completes
Unblock ==
    /\ live # <<>> /\ live[1].blocked
    /\ live' = <<[live[1] EXCEPT !.blocked = FALSE]>>
    /\ UNCHANGED <<pc, ctx, signal, signal_queue, sigmask, sigaction, exited, armed, wanted, owed, dropped, skipped>>

Returning(ra) == ctx # <<>> /\ ctx[Len(ctx)].restorer = ra

\* A mutant: the registers are not restored.
Restored_mask == sigmask' = live[1].mask /\ UNCHANGED ctx

\* A mutant: the mask is not restored.
Restored_ctx == ctx' = live[1].ctx /\ UNCHANGED sigmask

Restored == sigmask' = live[1].mask /\ ctx' = live[1].ctx

\* after handle_signal's loop
HandlerEnd ==
    /\ Restored
    /\ Remove(live[1].sig)
    /\ live' = <<>>
    /\ UNCHANGED <<pc, sigaction, exited, armed, wanted, dropped, skipped>>

\* A mutant: the loop does not look at the exit code.
HandlerExit_blind ==
    /\ InHandler /\ exited = "process"
    /\ HandlerEnd

\* the process has ended
HandlerExit ==
    /\ live # <<>> /\ ~live[1].blocked /\ exited = "process"
    /\ HandlerEnd

SigreturnHandler ==
    /\ InHandler /\ Returning("ok")
    /\ HandlerEnd

\* rt_sigreturn in the main flow: handle_syscall returns Break
SigreturnMain ==
    /\ InMain /\ Returning("ok")
    /\ pc' = "done"
    /\ UNCHANGED <<live, ctx, signal, signal_queue, sigmask, sigaction, exited, armed, wanted, owed, dropped, skipped>>

\* a handler with no restorer returns to the code it interrupted
ReturnDirect ==
    /\ InMain \/ InHandler
    /\ Returning("none")
    /\ ctx' = SubSeq(ctx, 1, Len(ctx) - 1)
    /\ UNCHANGED <<pc, live, signal, signal_queue, sigmask, sigaction, exited, armed, wanted, owed, dropped, skipped>>

\* one with a bad restorer faults, and faults again when it is resumed
ReturnFault ==
    /\ InMain \/ InHandler
    /\ Returning("bad") /\ SIGSEGV \in Sig
    /\ signal' = signal \cup {SIGSEGV}
    /\ UNCHANGED <<pc, live, ctx, signal_queue, sigmask, sigaction, exited, armed, wanted, owed, dropped, skipped>>

-----------------------------------------------------------------------------
Kernel ==
    \/ \E stack \in BOOLEAN : check_signal_return(stack)
    \/ check_signal_handler
    \/ LoopTop \/ OrSecond \/ OrYield \/ WaitSignal
    \/ Trap
    \/ HandlerExit

Environment ==
    \/ \E s \in Sent : sys_tkill(s) \/ sys_kill(s)
    \/ ProcessExit \/ OrFirst \/ check_timer
    \/ \E m \in Masks : sys_sigprocmask(m)
    \/ \E i \in Installs : sys_sigaction(i[1], i[2])
    \/ sys_exit \/ sys_setitimer
    \/ Block \/ Unblock
    \/ SigreturnHandler \/ SigreturnMain \/ ReturnDirect \/ ReturnFault

SigNext == Kernel \/ Environment

SigSafety == SigInit /\ [][SigNext]_sigVars

\* The executor polls every queued task again (TaskPool), and a thread in user
\* code traps at the latest at the next timer interrupt.
SigSpec == SigSafety /\ WF_sigVars(Kernel)


-----------------------------------------------------------------------------
(* Properties                                                              *)

\* No instance of a real-time signal is lost or invented: those that tkill, tgkill
\* and kill accepted and that no completed handle_signal answered are the one in
\* tcb.signal and the ones signal_queue counts, even when handlers are dropped; and
\* none waits in signal_queue without one in tcb.signal that will bring it forward.
RealTimeConserved ==
    \A s \in Sig \cap RealTime :
        /\ owed[s] = signal_queue[s] + (IF s \in signal THEN 1 ELSE 0)
        /\ signal_queue[s] > 0 => s \in signal

\* Outside of handlers the thread has the mask its program set, unless
\* future::or dropped a handler or handle_signal returned after it set sigmask.
MaskLeaksOnlyByDrop ==
    ~dropped /\ ~skipped =>
        IF live = <<>> THEN sigmask = wanted ELSE live[1].mask = wanted

\* User code is in no more than one handler, and in none in the main flow, under
\* the same exceptions: handlers do not nest.
HandlersDoNotNest ==
    ~dropped /\ ~skipped => Len(ctx) <= Len(live)

\* A signal that is not blocked while no handler runs is taken by handle_signal,
\* also if the thread is suspended in a system call.
Delivered ==
    \A s \in Sig :
        (s \in signal \ sigmask /\ live = <<>>) ~>
            (s \notin signal \/ s \in sigmask \/ live # <<>> \/ pc = "done" \/ Len(ctx) = MaxDepth)

\* A thread whose process has ended ends too, unless it is suspended in a call that
\* a handler made (handle_signal's loop awaits it without looking).
ExitNoticed ==
    exited = "process" ~>
        (pc = "done" \/ (live # <<>> /\ live[1].blocked) \/ Len(ctx) = MaxDepth)

\* "restore sigmask to the mask before doing the signal." (user/signal.rs): once a
\* handler has gone, the thread has the mask it had. Violated: future::or drops the
\* handler and what follows its loop.
MaskRestored == live = <<>> /\ ~skipped => sigmask = wanted
=============================================================================

---------------------------- MODULE ProcessProof ----------------------------
(***************************************************************************)
(* Proofs about Process for any number of tasks and any set of exit codes: *)
(* the invariants of the process table, and that every step is a step of   *)
(* the abstract process tree ProcTree.                                     *)
(***************************************************************************)
EXTENDS ProcessSteps

\* The two encodings of the status word, as arithmetic.
LEMMA SignalBits ==
    \A g \in 1 .. 64 : /\ g % 128 = g /\ (g \div 128) % 2 = 0
                       /\ (g + 128) % 128 = g /\ ((g + 128) \div 128) % 2 = 1
OBVIOUS

\* An exit code shifted left by eight leaves the signal bits clear and shifts back.
LEMMA CodeBits ==
    \A n \in Nat : (n * 256) % 128 = 0 /\ (n * 256) \div 256 = n
OBVIOUS

USE Bounds DEF Tid, NoTask, Any, NoCode, NoSig, SIGCHLD, IsProcess

\* The status word sys_wait4 writes decodes to how the child ended, whatever
\* the exit code and the signal: the bit fields do not run into each other.
THEOREM StatusWordTheorem ==
    ASSUME TypeOK, NEW c \in Tid, exit_code[c] # NoCode
    PROVE  Decodes(c, WaitStatus(c))
<1>1. CASE exit_signal[c] # NoSig
  <2>1. exit_signal[c] \in 1 .. 64
    <3>1. exit_signal \in [Tid -> KillSigs \cup {NoSig}]
      BY Zenon DEF TypeOK
    <3>2. exit_signal[c] \in KillSigs
      BY Zenon, <1>1, <3>1
    <3> QED BY Zenon, <3>2, ProcessAssumption
  <2> DEFINE g == exit_signal[c]
  <2>2. /\ g % 128 = g /\ (g \div 128) % 2 = 0
        /\ (g + 128) % 128 = g /\ ((g + 128) \div 128) % 2 = 1
    BY <2>1, SignalBits, Zenon
  <2>3. CASE g \in CoreSigs
    BY <1>1, <2>1, <2>2, <2>3 DEF WaitStatus, Decodes, WTERMSIG, WCOREDUMP
  <2>4. CASE g \notin CoreSigs
    BY <1>1, <2>1, <2>2, <2>4 DEF WaitStatus, Decodes, WTERMSIG, WCOREDUMP
  <2> QED BY <2>3, <2>4
<1>2. CASE exit_signal[c] = NoSig
  <2>1. exit_code[c] \in Nat
    <3>1. exit_code[c] \in Codes \/ exit_code[c] = 0
      BY DEF TypeOK
    <3>2. CASE exit_code[c] \in Codes
      BY <3>2, Zenon
    <3>3. CASE exit_code[c] = 0
      BY <3>3
    <3> QED BY <3>1, <3>2, <3>3
  <2>2. LET n == exit_code[c] IN (n * 256) % 128 = 0 /\ (n * 256) \div 256 = n
    BY <2>1, CodeBits, Zenon
  <2>3. WaitStatus(c) = exit_code[c] * 256
    BY <1>2, Zenon DEF WaitStatus
  <2> QED BY <1>2, <2>2, <2>3 DEF Decodes, WIFEXITED, WEXITSTATUS
<1> QED BY <1>1, <1>2

\* Collecting child c, in any of the branches of wait4 and while t waits in its
\* main flow or in a handler; t may end, and a task it has not spawned may be
\* dropped with the handler.
LEMMA ReapInv ==
    ASSUME IInv, NEW t \in Tid, NEW c \in Tid, sched[t] = "queued",
           c \in children[process_id[t]], exit_code[c] # NoCode, Reap(t, c),
           sched' \in [Tid -> Scheds],
           \A u \in Tid : \/ sched'[u] = sched[u]
                          \/ u = t /\ sched'[u] = "done" /\ Exited(t)
                          \/ /\ sched'[u] = "dropped" /\ call' # call
                             /\ call[t].op = "clone" /\ call[t].arg = u,
           call' = call \/ call' = [call EXCEPT ![t] = Idle],
           \/ handler' = handler
           \/ /\ handler' = [handler EXCEPT ![t] = NoHandler]
              /\ sched'[t] = "queued" => ~thread_exit_code[t],
           UNCHANGED waitSame
    PROVE  IInv'
<1>t. TypeOK
  BY Zenon DEF IInv
<1>h. /\ Ids /\ ThreadLists /\ ChildLists /\ CloneCalls /\ ExitCodes
      /\ CommandTask /\ ReleaseAssert /\ NoZombieLost /\ CleanedQuiet
  BY Zenon DEF IInv
<1>1. PICK p \in Tid : p = process_id[t] /\ process_id[p] = p
  BY QueuedFacts DEF Upgradable
<1>2. /\ children' = [children EXCEPT ![p] = @ \ {c}]
      /\ task_map' = task_map \ {c}
      /\ reaped' = reaped \cup {c}
      /\ UNCHANGED <<last_id, process_id, parent, threads, exit_code, exit_signal, cleaned,
                     thread_exit_code, clone_sig, pending, command>>
  BY <1>1 DEF Reap, waitSame, idVars, tcbVars
<1>3. ASSUME NEW u \in Tid, sched[u] # "new", u # t PROVE sched'[u] = sched[u]
  <2>1. ~(call[t].op = "clone" /\ call[t].arg = u)
    BY Zenon, <1>3, <1>h DEF CloneCalls
  <2> QED BY Zenon, <1>3, <2>1
<1>4. \A u \in Tid : Upgradable(u)' => Upgradable(u) /\ (u = t => sched'[u] = "queued")
  BY DEF Upgradable
<1>5. \A q \in Tid : children'[q] = IF q = p THEN children[q] \ {c} ELSE children[q]
  BY ZenonT(30), <1>2, <1>t DEF TypeOK
<1>6. /\ process_id[c] = c /\ c \notin reaped /\ parent[c] # NoTask
      /\ process_id[parent[c]] = p
  <2>1. c \in children[p]
    BY Zenon, <1>1
  <2> QED BY Zenon, <2>1, <1>h DEF ChildLists, IsProcess
<1>c. c # command /\ ~(c > last_id)
  <2>1. c # NoTask
    OBVIOUS
  <2> QED BY Zenon, <1>6, <2>1, <1>h DEF CommandTask, Ids
<1>a. /\ call \in [Tid -> Calls] /\ handler \in [Tid -> Handlers]
      /\ children \in [Tid -> SUBSET Tid] /\ task_map \in SUBSET Tid /\ reaped \in SUBSET Tid
  BY Zenon, <1>t DEF TypeOK
<1>7. TypeOK'
  <2>1. handler' \in [Tid -> Handlers]
    <3>1. NoHandler \in Handlers
      BY DEF NoHandler, Handlers
    <3> QED BY <1>a, <3>1
  <2>2. call' \in [Tid -> Calls]
    <3>1. Idle \in Calls
      BY DEF Calls
    <3> QED BY <1>a, <3>1
  <2>3. children' \in [Tid -> SUBSET Tid] /\ task_map' \in SUBSET Tid /\ reaped' \in SUBSET Tid
    BY <1>a, <1>2
  <2> QED BY Zenon, <1>2, <2>1, <2>2, <2>3, <1>t DEF TypeOK
<1>8. Ids'
  <2>1. ASSUME NEW u \in Tid, u > last_id
        PROVE  sched'[u] = "none" /\ children'[u] = {} /\ u \notin reaped'
    <3>1. sched[u] = "none" /\ children[u] = {} /\ u \notin reaped
      BY Zenon, <2>1, <1>h DEF Ids
    <3>2. sched'[u] = "none"
      <4>1. sched[u] # "new" /\ u # t
        BY <3>1
      <4> QED BY Zenon, <1>3, <3>1, <4>1
    <3>3. children'[u] = {}
      BY <1>5, <3>1
    <3>4. u \notin reaped'
      BY <1>2, <1>c, <2>1, <3>1
    <3> QED BY Zenon, <3>2, <3>3, <3>4
  <2> QED BY Zenon, <1>2, <2>1, <1>h DEF Ids
<1>9. ThreadLists' /\ CleanedQuiet'
  <2>1. ASSUME NEW u \in Tid, Upgradable(u)', thread_exit_code[u], InHandler(u)
        PROVE  InHandler(u)'
    <3>1. CASE handler' = handler
      BY Zenon, <2>1, <3>1 DEF InHandler
    <3>2. CASE handler' = [handler EXCEPT ![t] = NoHandler]
               /\ (sched'[t] = "queued" => ~thread_exit_code[t])
      <4>1. u # t
        BY Zenon, <1>4, <2>1, <3>2
      <4>2. handler'[u] = handler[u]
        BY <1>a, <3>2, <4>1
      <4> QED BY Zenon, <2>1, <4>2 DEF InHandler
    <3> QED BY Zenon, <3>1, <3>2
  <2> QED BY Zenon, <1>2, <1>4, <2>1, <1>h DEF ThreadLists, CleanedQuiet
<1>10. CloneCalls'
  <2>1. \A u \in Tid : call'[u] = call[u] \/ call'[u] = Idle
    BY <1>a
  <2>2. Idle.op # "clone"
    BY DEF Idle
  <2>3. call' # call => call'[t] = Idle
    BY <1>a
  <2>4. ASSUME NEW u \in Tid, call'[u].op = "clone" PROVE sched'[call'[u].arg] = "new"
    <3>1. call'[u] = call[u] /\ call[u].op = "clone" /\ (call' # call => u # t)
      BY Zenon, <2>1, <2>2, <2>3, <2>4
    <3>2. call[u].arg \in Tid /\ sched[call[u].arg] = "new"
      BY Zenon, <3>1, <1>t, <1>h, CloneArg DEF CloneCalls
    <3>3. call' # call => ~(call[t].op = "clone" /\ call[t].arg = call[u].arg)
      BY Zenon, <3>1, <1>h DEF CloneCalls
    <3>4. call[u].arg # t
      BY <3>2
    <3>5. sched'[call[u].arg] = sched[call[u].arg]
      BY Zenon, <3>2, <3>3, <3>4
    <3> QED BY Zenon, <3>1, <3>2, <3>5
  <2>5. \A u, v \in Tid : call'[u].op = "clone" /\ call'[v].op = "clone"
                            /\ call'[u].arg = call'[v].arg => u = v
    <3>1. \A u \in Tid : call'[u].op = "clone" => call'[u] = call[u] /\ call[u].op = "clone"
      BY Zenon, <2>1, <2>2
    <3> QED BY <3>1, <1>h DEF CloneCalls
  <2> QED BY Zenon, <2>4, <2>5 DEF CloneCalls
<1>11. ExitCodes'
  <2>1. ASSUME NEW q \in Tid, process_id[q] = q, exit_code[q] = NoCode, sched'[q] = "done"
        PROVE  thread_exit_code[q]
    <3>1. CASE sched'[q] = sched[q]
      BY Zenon, <2>1, <3>1, <1>h DEF ExitCodes, IsProcess
    <3>2. CASE q = t /\ Exited(t)
      BY Zenon, <2>1, <3>2 DEF Exited
    <3>3. sched'[q] # "dropped"
      BY <2>1
    <3> QED BY Zenon, <3>1, <3>2, <3>3
  <2> QED BY Zenon, <1>2, <2>1, <1>h DEF ExitCodes, IsProcess
<1>12. CommandTask' /\ ReleaseAssert'
  <2>1. \A x \in reaped' : x \in reaped \/ x = c
    BY <1>2
  <2>2. command \notin reaped => command \notin reaped'
    BY Zenon, <1>c, <2>1
  <2> QED BY Zenon, <1>2, <2>1, <2>2, <1>h DEF CommandTask, ReleaseAssert, IsProcess
<1>13. ChildLists'
  <2> SUFFICES ASSUME NEW q \in Tid, NEW d \in children'[q]
               PROVE  /\ process_id[d] = d /\ d \notin reaped'
                      /\ parent[d] # NoTask /\ process_id[parent[d]] = q
    BY <1>2 DEF ChildLists
  <2>1. d \in children[q] /\ (q = p => d # c)
    <3>1. children'[q] = IF q = p THEN children[q] \ {c} ELSE children[q]
      BY Zenon, <1>5
    <3> QED BY <3>1
  <2>2. process_id[d] = d /\ d \notin reaped /\ parent[d] # NoTask /\ process_id[parent[d]] = q
    BY Zenon, <2>1, <1>h DEF ChildLists, IsProcess
  <2>3. d # c
    BY Zenon, <1>6, <2>1, <2>2
  <2>4. d \notin reaped'
    BY <1>2, <2>2, <2>3
  <2> QED BY Zenon, <2>2, <2>4
<1>14. NoZombieLost'
  <2> SUFFICES ASSUME NEW d \in Tid, process_id[d] = d, parent[d] # NoTask,
                      ~cleaned[process_id[parent[d]]]
               PROVE  d \in children'[process_id[parent[d]]] \cup reaped'
    BY Zenon, <1>2 DEF NoZombieLost, IsProcess
  <2>1. d \in children[process_id[parent[d]]] \cup reaped
    BY Zenon, <1>h DEF NoZombieLost, IsProcess
  <2>2. process_id[parent[d]] \in Tid
    <3>1. parent[d] \in Tid \cup {NoTask} /\ process_id \in [Tid -> Tid \cup {NoTask}]
      BY Zenon, <1>t DEF TypeOK
    <3>2. parent[d] \in Tid
      BY <3>1
    <3>3. process_id[parent[d]] # NoTask
      BY Zenon, <3>2, <1>h DEF Ids
    <3> QED BY <3>1, <3>2, <3>3
  <2> QED BY <1>2, <1>5, <2>1, <2>2
<1> QED BY <1>7, <1>8, <1>9, <1>10, <1>11, <1>12, <1>13, <1>14 DEF IInv

\* A wait4 that starts keeps the invariant.
LEMMA WaitInv ==
    ASSUME IInv, NEW t \in Tid, NEW pid \in Tid \cup {Any},
           sys_wait4(t, pid) \/ sys_wait4_nohang(t, pid)
    PROVE  IInv'
<1>0. Running(t)
  BY Zenon DEF sys_wait4, sys_wait4_nohang
<1>1. /\ sched[t] = "queued" /\ call[t] = Idle /\ call[t].op # "clone"
      /\ UNCHANGED waitSame /\ sched' = sched /\ handler' = handler
  BY Zenon, <1>0, RunningFacts DEF sys_wait4, sys_wait4_nohang
<1>2. /\ call \in [Tid -> Calls] /\ pending \in [Tid -> SUBSET Signals]
      /\ handler \in [Tid -> Handlers] /\ sched \in [Tid -> Scheds]
  BY Zenon DEF IInv, TypeOK
<1>3. ASSUME NEW c \in Tid, c \in children[process_id[t]], exit_code[c] # NoCode, Reap(t, c),
             call' = call
      PROVE  IInv'
  <2>1. sched' \in [Tid -> Scheds] /\ \A u \in Tid : sched'[u] = sched[u]
    BY Zenon, <1>1, <1>2
  <2> QED BY Zenon, <1>1, <1>3, <2>1, ReapInv
<1>4. ASSUME UNCHANGED <<children, task_map, reaped>>,
             call' = [call EXCEPT ![t] = [op |-> "wait4", arg |-> pid]]
      PROVE  IInv'
  <2>1. [op |-> "wait4", arg |-> pid] \in Calls
    BY DEF Calls, Wait4Calls
  <2>2. /\ call' \in [Tid -> Calls] /\ call'[t].op # "clone"
        /\ \A u \in Tid : u # t => call'[u] = call[u]
    BY <1>2, <1>4, <2>1
  <2>3. pending' \in [Tid -> SUBSET Signals] /\ handler' \in [Tid -> Handlers]
        /\ \A u \in Tid : u # t => handler'[u] = handler[u]
    BY Zenon, <1>1, <1>2 DEF waitSame
  <2>4. UNCHANGED <<idVars, pcbVars, tcbVars, task_map, command, reaped>>
    BY <1>1, <1>4 DEF waitSame, pcbVars
  <2>5. thread_exit_code[t] => handler'[t].sig # NoSig
    BY Zenon, <1>1 DEF IInv, ThreadLists, InHandler, Upgradable
  <2> QED BY Zenon, <1>1, <2>2, <2>3, <2>4, <2>5, FinishInv
<1>5. CASE sys_wait4(t, pid)
  <2>1. CASE call' = call /\ \E c \in Tid : IsFirst(c, Exits(t, pid)) /\ Reap(t, c)
    <3>1. PICK c \in Tid : IsFirst(c, Exits(t, pid)) /\ Reap(t, c)
      BY Zenon, <2>1
    <3>2. c \in children[process_id[t]] /\ exit_code[c] # NoCode
      BY Zenon, <3>1 DEF IsFirst, Exits
    <3> QED BY Zenon, <1>3, <2>1, <3>1, <3>2
  <2>2. CASE /\ call' = [call EXCEPT ![t] = [op |-> "wait4", arg |-> pid]]
             /\ UNCHANGED <<children, task_map, reaped>>
    BY Zenon, <1>4, <2>2
  <2> QED BY Zenon, <1>5, <2>1, <2>2 DEF sys_wait4
<1>6. CASE sys_wait4_nohang(t, pid)
  <2>1. PICK c \in Tid :
         /\ IsFirst(c, {d \in children[process_id[t]] : pid = Any \/ d = pid})
         /\ exit_code[c] # NoCode /\ Reap(t, c)
    BY Zenon, <1>6 DEF sys_wait4_nohang
  <2>2. call' = call
    BY Zenon, <1>6 DEF sys_wait4_nohang
  <2>3. c \in children[process_id[t]]
    BY Zenon, <2>1 DEF IsFirst
  <2> QED BY Zenon, <1>3, <2>1, <2>2, <2>3
<1> QED BY Zenon, <1>5, <1>6

\* A poll of WaitPid that finds a child keeps it.
LEMMA WaitReadyInv ==
    ASSUME IInv, NEW t \in Tid, wait4_ready(t)
    PROVE  IInv'
<1>1. PICK c \in Tid : IsFirst(c, Exits(t, call[t].arg)) /\ Reap(t, c)
  BY Zenon DEF wait4_ready
<1>2. c \in children[process_id[t]] /\ exit_code[c] # NoCode
  BY Zenon, <1>1 DEF IsFirst, Exits
<1>3. /\ sched[t] = "queued" /\ UNCHANGED waitSame /\ handler' = handler
      /\ call' = [call EXCEPT ![t] = Idle]
      /\ sched' = [sched EXCEPT ![t] = AfterCall(t)]
  BY Zenon DEF wait4_ready, Polled
<1>4. sched \in [Tid -> Scheds] /\ "done" \in Scheds
  <2>1. "done" \in Scheds
    BY DEF Scheds
  <2> QED BY Zenon, <2>1 DEF IInv, TypeOK
<1>5. AfterCall(t) = sched[t] \/ (AfterCall(t) = "done" /\ Exited(t))
  BY Zenon DEF AfterCall, CheckThreadExit
<1>6. sched' \in [Tid -> Scheds]
  BY <1>3, <1>4, <1>5
<1>7. \A u \in Tid : sched'[u] = sched[u] \/ (u = t /\ sched'[u] = "done" /\ Exited(t))
  BY Zenon, <1>3, <1>4, <1>5
<1> QED BY ZenonT(30), <1>1, <1>2, <1>3, <1>6, <1>7, ReapInv

\* So does one that finds it for the wait4 a handler has interrupted.
LEMMA OuterReadyInv ==
    ASSUME IInv, NEW t \in Tid, outer_ready(t)
    PROVE  IInv'
<1>1. PICK c \in Tid : IsFirst(c, Exits(t, handler[t].call.arg)) /\ Reap(t, c)
  BY Zenon DEF outer_ready
<1>2. c \in children[process_id[t]] /\ exit_code[c] # NoCode
  BY Zenon, <1>1 DEF IsFirst, Exits
<1>3. /\ sched[t] = "queued" /\ UNCHANGED waitSame
      /\ handler' = [handler EXCEPT ![t] = NoHandler]
      /\ call' = [call EXCEPT ![t] = Idle]
      /\ sched' = [u \in Tid |->
                      IF u = t THEN IF CheckThreadExit(t) THEN "done" ELSE "queued"
                      ELSE IF call[t] = [op |-> "clone", arg |-> u] THEN "dropped"
                      ELSE sched[u]]
  BY Zenon DEF outer_ready
<1>4. sched \in [Tid -> Scheds] /\ call \in [Tid -> Calls]
  BY Zenon DEF IInv, TypeOK
<1>5. sched' \in [Tid -> Scheds]
  <2>1. {"done", "queued", "dropped"} \subseteq Scheds
    BY DEF Scheds
  <2> QED BY <1>3, <1>4, <2>1
<1>6. sched'[t] = IF Exited(t) THEN "done" ELSE "queued"
  BY <1>3 DEF CheckThreadExit
<1>7. sched'[t] = "queued" => ~thread_exit_code[t]
  <2>1. sched'[t] = "queued" => ~Exited(t)
    BY <1>6
  <2> QED BY Zenon, <2>1 DEF Exited
<1>8. ASSUME NEW u \in Tid
      PROVE  \/ sched'[u] = sched[u]
             \/ u = t /\ sched'[u] = "done" /\ Exited(t)
             \/ /\ sched'[u] = "dropped" /\ call' # call
                /\ call[t].op = "clone" /\ call[t].arg = u
  <2>1. CASE u = t
    BY <1>3, <1>6, <2>1
  <2>2. CASE u # t /\ call[t] = [op |-> "clone", arg |-> u]
    <3>1. sched'[u] = "dropped"
      BY <1>3, <2>2
    <3>2. call[t].op = "clone" /\ call[t].arg = u
      BY <2>2
    <3>3. call'[t] = Idle /\ Idle.op # "clone"
      BY <1>3, <1>4 DEF Idle
    <3> QED BY Zenon, <3>1, <3>2, <3>3
  <2>3. CASE u # t /\ call[t] # [op |-> "clone", arg |-> u]
    BY <1>3, <2>3
  <2> QED BY Zenon, <2>1, <2>2, <2>3
<1> QED BY ZenonT(30), <1>1, <1>2, <1>3, <1>5, <1>7, <1>8, ReapInv

\* kill keeps it.
LEMMA KillInv ==
    ASSUME IInv, NEW t \in Tid, NEW u \in Tid, NEW s \in KillSigs \cup CatchSigs,
           sys_kill(t, u, s)
    PROVE  IInv'
<1>0. Running(t)
  BY Zenon DEF sys_kill
<1>1. /\ sched[t] = "queued" /\ call[t].op # "clone" /\ sched' = sched /\ call' = call
      /\ pending' = [pending EXCEPT ![u] = @ \cup {s}] /\ handler' = handler
      /\ UNCHANGED <<idVars, pcbVars, tcbVars, task_map, command, reaped>>
  BY Zenon, <1>0, RunningFacts DEF sys_kill
<1>2. /\ call \in [Tid -> Calls] /\ pending \in [Tid -> SUBSET Signals]
      /\ handler \in [Tid -> Handlers]
  BY Zenon DEF IInv, TypeOK
<1>3. pending' \in [Tid -> SUBSET Signals]
  <2>1. s \in Signals
    BY Zenon DEF Signals
  <2> QED BY <1>1, <1>2, <2>1
<1>4. thread_exit_code[t] => handler'[t].sig # NoSig
  BY Zenon, <1>1 DEF IInv, ThreadLists, InHandler, Upgradable
<1> QED BY Zenon, <1>1, <1>2, <1>3, <1>4, FinishInv

\* setsid keeps it.
LEMMA SetsidInv ==
    ASSUME IInv, NEW t \in Tid, sys_setsid(t)
    PROVE  IInv'
<1>t. TypeOK
  BY Zenon DEF IInv
<1>h. /\ Ids /\ ThreadLists /\ ChildLists /\ CloneCalls /\ ExitCodes
      /\ CommandTask /\ ReleaseAssert /\ NoZombieLost /\ CleanedQuiet
  BY Zenon DEF IInv
<1>1. PICK p : p = process_id[parent[t]]
  OBVIOUS
<1>2. /\ parent[t] # NoTask
      /\ children' = [children EXCEPT ![p] = @ \ {t}]
      /\ parent' = [parent EXCEPT ![t] = NoTask]
      /\ UNCHANGED <<last_id, process_id, threads, exit_code, exit_signal, cleaned,
                     thread_exit_code, clone_sig, pending, sched, call, handler,
                     task_map, command, reaped>>
  BY <1>1 DEF sys_setsid, tcbVars
<1>3. p \in Tid
  <2>1. process_id \in [Tid -> Tid \cup {NoTask}] /\ parent \in [Tid -> Tid \cup {NoTask}]
    BY Zenon, <1>t DEF TypeOK
  <2>2. parent[t] \in Tid
    BY <1>2, <2>1
  <2>3. process_id[parent[t]] # NoTask
    BY Zenon, <1>2, <2>2, <1>h DEF Ids
  <2> QED BY <1>1, <2>1, <2>2, <2>3
<1>4. /\ \A q \in Tid : children'[q] = IF q = p THEN children[q] \ {t} ELSE children[q]
      /\ \A u \in Tid : parent'[u] = IF u = t THEN NoTask ELSE parent[u]
  BY ZenonT(30), <1>2, <1>3, <1>t DEF TypeOK
<1>5. \A u \in Tid : Upgradable(u)' <=> Upgradable(u)
  BY <1>2 DEF Upgradable
<1>6. TypeOK'
  <2>1. children' \in [Tid -> SUBSET Tid] /\ parent' \in [Tid -> Tid \cup {NoTask}]
    <3>1. children \in [Tid -> SUBSET Tid] /\ parent \in [Tid -> Tid \cup {NoTask}]
      BY Zenon, <1>t DEF TypeOK
    <3> QED BY <1>2, <1>3, <3>1
  <2> QED BY Zenon, <1>2, <2>1, <1>t DEF TypeOK
<1>7. Ids'
  <2>1. ASSUME NEW u \in Tid, u > last_id PROVE parent'[u] = NoTask /\ children'[u] = {}
    <3>1. parent[u] = NoTask /\ children[u] = {}
      BY Zenon, <2>1, <1>h DEF Ids
    <3> QED BY <1>4, <3>1
  <2>2. ASSUME NEW u \in Tid, parent'[u] # NoTask PROVE parent'[u] <= last_id
    <3>1. parent'[u] = parent[u]
      BY Zenon, <1>4, <2>2
    <3> QED BY Zenon, <2>2, <3>1, <1>h DEF Ids
  <2> QED BY <1>2, <2>1, <2>2, <1>h DEF Ids
<1>8. ThreadLists' /\ CleanedQuiet' /\ CloneCalls' /\ ExitCodes' /\ ReleaseAssert'
  BY Zenon, <1>2, <1>5, <1>h
     DEF ThreadLists, CleanedQuiet, CloneCalls, ExitCodes, ReleaseAssert, InHandler
<1>9. CommandTask'
  <2>1. command \in Tid \cup {NoTask}
    BY Zenon, <1>t DEF TypeOK
  <2> QED BY <1>2, <1>4, <2>1, <1>h DEF CommandTask
<1>10. ChildLists'
  <2> SUFFICES ASSUME NEW q \in Tid, NEW d \in children'[q]
               PROVE  /\ process_id[d] = d /\ d \notin reaped
                      /\ parent'[d] # NoTask /\ process_id[parent'[d]] = q
    BY <1>2 DEF ChildLists
  <2>1. d \in children[q] /\ (q = p => d # t)
    BY ZenonT(30), <1>4
  <2>2. /\ d \in Tid /\ process_id[d] = d /\ d \notin reaped
        /\ parent[d] # NoTask /\ process_id[parent[d]] = q
    BY <2>1, <1>t, <1>h DEF ChildLists, TypeOK
  <2>3. d # t
    BY <1>1, <2>1, <2>2
  <2> QED BY <1>4, <2>2, <2>3
<1>11. NoZombieLost'
  <2> SUFFICES ASSUME NEW d \in Tid, process_id[d] = d, parent'[d] # NoTask,
                      ~cleaned[process_id[parent'[d]]]
               PROVE  d \in children'[process_id[parent'[d]]] \cup reaped
    BY <1>2 DEF NoZombieLost
  <2>1. d # t /\ parent'[d] = parent[d]
    BY <1>4
  <2>2. d \in children[process_id[parent[d]]] \cup reaped
    BY Zenon, <2>1, <1>h DEF NoZombieLost, IsProcess
  <2>3. process_id[parent[d]] \in Tid
    <3>1. parent[d] \in Tid \cup {NoTask} /\ process_id \in [Tid -> Tid \cup {NoTask}]
      BY Zenon, <1>t DEF TypeOK
    <3>2. parent[d] \in Tid
      BY <2>1, <3>1
    <3>3. process_id[parent[d]] # NoTask
      BY Zenon, <2>1, <3>2, <1>h DEF Ids
    <3> QED BY <3>1, <3>2, <3>3
  <2> QED BY ZenonT(30), <1>4, <2>1, <2>2, <2>3
<1> QED BY <1>6, <1>7, <1>8, <1>9, <1>10, <1>11 DEF IInv

\* The end of a command keeps it.
LEMMA CommandDoneInv ==
    ASSUME IInv, command_done
    PROVE  IInv'
<1>t. TypeOK
  BY Zenon DEF IInv
<1>h. /\ Ids /\ ThreadLists /\ ChildLists /\ CloneCalls /\ ExitCodes
      /\ CommandTask /\ ReleaseAssert /\ NoZombieLost /\ CleanedQuiet
  BY Zenon DEF IInv
<1>1. /\ command # NoTask /\ exit_code[command] # NoCode
      /\ task_map' = task_map \ {command}
      /\ reaped' = reaped \cup {command} /\ command' = NoTask
      /\ UNCHANGED <<last_id, process_id, parent, children, threads, exit_code, exit_signal,
                     cleaned, thread_exit_code, clone_sig, pending, sched, call,
                     handler>>
  BY DEF command_done, idVars, pcbVars, tcbVars
<1>2. /\ command \in Tid /\ process_id[command] = command /\ parent[command] = NoTask
      /\ command <= last_id
  <2>1. command \in Tid \cup {NoTask} /\ last_id \in 0 .. MaxTask
    BY Zenon, <1>t DEF TypeOK
  <2>2. command \in Tid /\ process_id[command] = command /\ parent[command] = NoTask
    BY <1>1, <2>1, <1>h DEF CommandTask
  <2>3. ~(command > last_id)
    <3>1. command # NoTask
      BY <1>1
    <3> QED BY Zenon, <2>2, <3>1, <1>h DEF Ids
  <2> QED BY <2>1, <2>2, <2>3
<1>3. \A u \in Tid : Upgradable(u)' <=> Upgradable(u)
  BY <1>1 DEF Upgradable
<1>4. TypeOK'
  <2>1. task_map' \in SUBSET Tid /\ reaped' \in SUBSET Tid /\ command' \in Tid \cup {NoTask}
    BY <1>1, <1>2, <1>t DEF TypeOK
  <2> QED BY Zenon, <1>1, <2>1, <1>t DEF TypeOK
<1>5. Ids'
  <2>1. ASSUME NEW u \in Tid, u > last_id PROVE u \notin reaped'
    <3>1. u \notin reaped
      BY Zenon, <2>1, <1>h DEF Ids
    <3>2. u # command
      BY <1>2, <2>1, <1>t DEF TypeOK
    <3> QED BY <1>1, <3>1, <3>2
  <2> QED BY Zenon, <1>1, <2>1, <1>h DEF Ids
<1>6. ThreadLists' /\ CleanedQuiet' /\ CloneCalls' /\ ExitCodes'
  BY Zenon, <1>1, <1>3, <1>h DEF ThreadLists, CleanedQuiet, CloneCalls, ExitCodes, InHandler
<1>7. CommandTask' /\ ReleaseAssert' /\ ChildLists' /\ NoZombieLost'
  <2>1. CommandTask' /\ ReleaseAssert'
    BY <1>1, <1>2, <1>h DEF CommandTask, ReleaseAssert
  <2>2. ASSUME NEW p \in Tid, NEW d \in children[p] PROVE d # command
    BY Zenon, <1>2, <2>2, <1>h DEF ChildLists
  <2>3. ChildLists'
    BY <1>1, <2>2, <1>h DEF ChildLists
  <2>4. NoZombieLost'
    BY <1>1, <1>h DEF NoZombieLost
  <2> QED BY Zenon, <2>1, <2>3, <2>4
<1> QED BY <1>4, <1>5, <1>6, <1>7 DEF IInv

\* Every step keeps the invariant.
LEMMA NextInv == IInv /\ [Next]_vars => IInv'
<1> SUFFICES ASSUME IInv, [Next]_vars PROVE IInv'
  BY SMTT(30)
<1>1. CASE UNCHANGED vars
  <2>1. UNCHANGED vars
    BY <1>1
  <2>2. TypeOK'
    BY <2>1 DEF vars, idVars, pcbVars, tcbVars, IInv, TypeOK
  <2>3. Ids' /\ CommandTask' /\ ExitCodes'
    BY <2>1 DEF vars, idVars, pcbVars, tcbVars, IInv, Ids, CommandTask, ExitCodes
  <2>4. ThreadLists' /\ CloneCalls'
    BY <2>1 DEF vars, idVars, pcbVars, tcbVars, IInv, ThreadLists, CloneCalls, Upgradable, InHandler
  <2>5. ReleaseAssert' /\ ChildLists'
    BY <2>1 DEF vars, idVars, pcbVars, tcbVars, IInv, ReleaseAssert, ChildLists
  <2>6. NoZombieLost' /\ CleanedQuiet'
    BY <2>1 DEF vars, idVars, pcbVars, tcbVars, IInv, NoZombieLost, CleanedQuiet, Upgradable,
                  InHandler
  <2> QED BY <2>2, <2>3, <2>4, <2>5, <2>6 DEF IInv
<1>2. CASE command_start \/ command_done
  BY <1>2, CommandStartInv, CommandDoneInv
<1>3. ASSUME NEW t \in Tid, Resume(t) PROVE IInv'
  BY Zenon, <1>3, CheckSignalsInv, CloneSpawnInv, WaitReadyInv, OuterReadyInv
     DEF Resume, handler_break
<1>4. ASSUME NEW t \in Tid, NEW code \in Codes, sys_exit(t, code) \/ sys_exit_group(t, code)
      PROVE  IInv'
  BY <1>4, SysExitInv, SysExitGroupInv
<1>5. ASSUME NEW t \in Tid, NEW sig \in CloneSigs,
             sys_clone_thread(t, sig) \/ sys_clone_fork(t, sig)
      PROVE  IInv'
  BY <1>5, CloneThreadInv, CloneForkInv
<1>6. ASSUME NEW t \in Tid, NEW pid \in Tid \cup {Any},
             sys_wait4(t, pid) \/ sys_wait4_nohang(t, pid)
      PROVE  IInv'
  BY <1>6, WaitInv
<1>7. ASSUME NEW t \in Tid, NEW u \in Tid, NEW s \in KillSigs \cup CatchSigs,
             sys_kill(t, u, s)
      PROVE  IInv'
  BY <1>7, KillInv
<1>8. ASSUME NEW t \in Tid, sys_setsid(t) PROVE IInv'
  BY <1>8, SetsidInv
<1>9. ASSUME NEW t \in Tid, handler_return(t) \/ sys_rt_sigreturn(t) PROVE IInv'
  BY Zenon, <1>9, CheckSignalsInv, SigreturnInv DEF handler_return
<1> QED BY Zenon, <1>1, <1>2, <1>3, <1>4, <1>5, <1>6, <1>7, <1>8, <1>9 DEF Next

\* The process table keeps its inductive invariant: types, thread and child
\* lists, parent links and exit codes stay consistent under every interleaving
\* of clone, exit, exit_group, wait4 and setsid, of fatal and caught signals, and
\* of the same calls made in handlers.
THEOREM ProcessInvariant == Safety => []IInv
<1>1. Init => IInv
  BY InitInv
<1>2. IInv /\ [Next]_vars => IInv'
  BY NextInv
<1> QED BY <1>1, <1>2, PTL DEF Safety

\* The assertion of UserTask::release never fails: whatever wait4 or command()
\* collects has its exit code.
THEOREM ReleaseAssertTheorem == Safety => []ReleaseAssert
<1>1. IInv => ReleaseAssert
  BY DEF IInv
<1> QED BY <1>1, ProcessInvariant, PTL

\* No child is answered by two wait4 calls, and a process is in at most one
\* child list.
THEOREM ChildListsTheorem == Safety => []ChildLists
<1>1. IInv => ChildLists
  BY DEF IInv
<1> QED BY <1>1, ProcessInvariant, PTL

\* A parent that was not torn down can still wait for each of its children.
THEOREM NoZombieLostTheorem == Safety => []NoZombieLost
<1>1. IInv => NoZombieLost
  BY DEF IInv
<1> QED BY <1>1, ProcessInvariant, PTL

\* thread_exit and exit clear memory and files only when no thread of the
\* process can run any more, except those that called exit in a signal handler
\* and are still in it.
THEOREM CleanedQuietTheorem == Safety => []CleanedQuiet
<1>1. IInv => CleanedQuiet
  BY DEF IInv
<1> QED BY <1>1, ProcessInvariant, PTL

\* Every id that was handed out belongs to a task the executor or a clone knows.
Started == \A t \in Tid : t <= last_id => sched[t] # "none"

\* Every step keeps Started.
LEMMA StartedNext == IInv /\ Started /\ [Next]_vars => Started'
<1> SUFFICES ASSUME IInv, Started, [Next]_vars PROVE Started'
  OBVIOUS
<1>0. sched \in [Tid -> Scheds] /\ last_id \in 0 .. MaxTask
  BY Zenon DEF IInv, TypeOK
<1>a. ASSUME last_id' = last_id,
             \A t \in Tid : sched'[t] \in {sched[t], "queued", "done", "broken", "dropped"}
      PROVE  Started'
  BY <1>a DEF Started
<1>b. ASSUME NEW s \in {"new", "queued"}, last_id < MaxTask, last_id' = last_id + 1,
             sched' = [sched EXCEPT ![last_id + 1] = s]
      PROVE  Started'
  BY <1>0, <1>b DEF Started
<1>c. ASSUME last_id' = last_id, NEW t \in Tid, NEW s \in {sched[t], "done", "broken"},
             sched' = sched \/ sched' = [sched EXCEPT ![t] = s]
      PROVE  Started'
  <2>1. \A u \in Tid : sched'[u] \in {sched[u], "queued", "done", "broken", "dropped"}
    BY <1>0, <1>c
  <2> QED BY Zenon, <1>a, <1>c, <2>1
<1>1. CASE UNCHANGED vars
  <2>1. last_id' = last_id /\ sched' = sched
    BY <1>1 DEF vars, idVars
  <2> QED BY <1>a, <2>1
<1>2. CASE command_start
  BY <1>2, <1>b DEF command_start
<1>3. CASE command_done
  <2>1. last_id' = last_id /\ sched' = sched
    BY <1>3 DEF command_done, idVars
  <2> QED BY <1>a, <2>1
<1>4. ASSUME NEW t \in Tid, CheckSignals(t) \/ HandlerEnds(t) PROVE Started'
  <2>1. last_id' = last_id
    BY <1>4 DEF CheckSignals, HandlerEnds, signalSame, idVars
  <2>2. sched' = sched \/ sched' = [sched EXCEPT ![t] = "done"]
    BY Zenon, <1>4 DEF CheckSignals, HandlerEnds, HandleSignals
  <2> QED BY Zenon, <1>c, <2>1, <2>2
<1>5. ASSUME NEW t \in Tid, clone_spawn(t) PROVE Started'
  <2>1. last_id' = last_id
        /\ sched' = [sched EXCEPT ![call[t].arg] = "queued", ![t] = AfterCall(t)]
    BY <1>5 DEF clone_spawn, idVars
  <2>2. AfterCall(t) \in {sched[t], "done"}
    BY DEF AfterCall
  <2>3. \A u \in Tid : sched'[u] \in {sched[u], "queued", "done"}
    BY <1>0, <2>1, <2>2
  <2> QED BY <1>a, <2>1, <2>3
<1>6. ASSUME NEW t \in Tid, wait4_ready(t) PROVE Started'
  <2>1. last_id' = last_id /\ sched' = [sched EXCEPT ![t] = AfterCall(t)]
    BY <1>6 DEF wait4_ready, waitSame, idVars
  <2>2. AfterCall(t) \in {sched[t], "done", "broken"}
    BY DEF AfterCall
  <2> QED BY Zenon, <1>c, <2>1, <2>2
<1>7. ASSUME NEW t \in Tid, outer_ready(t) PROVE Started'
  <2>1. last_id' = last_id
    BY <1>7 DEF outer_ready, waitSame, idVars
  <2>2. \A u \in Tid : sched'[u] \in {sched[u], "queued", "done", "dropped"}
    BY <1>7 DEF outer_ready
  <2> QED BY <1>a, <2>1, <2>2
<1>8. ASSUME NEW t \in Tid, NEW code \in Codes, sys_exit(t, code) \/ sys_exit_group(t, code)
      PROVE  Started'
  <2>1. last_id' = last_id
    BY <1>8 DEF sys_exit, sys_exit_group, idVars
  <2>2. sched' = sched \/ sched' = [sched EXCEPT ![t] = "done"]
    BY Zenon, <1>8 DEF sys_exit, sys_exit_group
  <2> QED BY Zenon, <1>c, <2>1, <2>2
<1>9. ASSUME NEW t \in Tid, NEW sig \in CloneSigs,
             sys_clone_thread(t, sig) \/ sys_clone_fork(t, sig)
      PROVE  Started'
  BY <1>9, <1>b DEF sys_clone_thread, sys_clone_fork
<1>10. ASSUME NEW t \in Tid, NEW pid \in Tid \cup {Any},
              sys_wait4(t, pid) \/ sys_wait4_nohang(t, pid)
       PROVE  Started'
  <2>1. last_id' = last_id /\ sched' = sched
    BY <1>10 DEF sys_wait4, sys_wait4_nohang, waitSame, idVars
  <2> QED BY <1>a, <2>1
<1>11. ASSUME NEW t \in Tid, NEW u \in Tid, NEW s \in KillSigs \cup CatchSigs,
              sys_kill(t, u, s)
       PROVE  Started'
  <2>1. last_id' = last_id /\ sched' = sched
    BY <1>11 DEF sys_kill, idVars
  <2> QED BY <1>a, <2>1
<1>12. ASSUME NEW t \in Tid, sys_setsid(t) PROVE Started'
  <2>1. last_id' = last_id /\ sched' = sched
    BY <1>12 DEF sys_setsid
  <2> QED BY <1>a, <2>1
<1>13. ASSUME NEW t \in Tid, sys_rt_sigreturn(t) PROVE Started'
  <2>1. last_id' = last_id /\ sched' = [sched EXCEPT ![t] = "broken"]
    BY <1>13 DEF sys_rt_sigreturn, idVars
  <2> QED BY Zenon, <1>c, <2>1
<1> QED BY Zenon, <1>1, <1>2, <1>3, <1>4, <1>5, <1>6, <1>7, <1>8, <1>9, <1>10, <1>11, <1>12,
           <1>13 DEF Next, Resume, handler_break, handler_return

\* A process is left without threads and without an exit code in three ways
\* only: its main thread calls sys_exit while other threads are alive, or calls
\* rt_sigreturn outside a handler, or is dropped before it was spawned.
THEOREM StrandedTheorem == Safety => []StrandedOnlyByMain
<1>1. Init => Started
  BY DEF Init, Started
<1>2. IInv /\ Started => StrandedOnlyByMain
  <2> SUFFICES ASSUME IInv, Started, NEW p \in Tid, process_id[p] = p, exit_code[p] = NoCode,
                      \A t \in Tid : process_id[t] = p => ~Upgradable(t)
               PROVE  thread_exit_code[p] \/ sched[p] \in {"broken", "dropped"}
    BY DEF StrandedOnlyByMain
  <2>1. ~Upgradable(p) /\ sched[p] \in Scheds
    BY Zenon DEF IInv, TypeOK
  <2>2. ~(p > last_id) /\ last_id \in 0 .. MaxTask
    <3>1. p # NoTask
      OBVIOUS
    <3> QED BY Zenon, <3>1 DEF IInv, TypeOK, Ids
  <2>3. p <= last_id
    BY <2>2
  <2>4. sched[p] \in {"done", "broken", "dropped"}
    BY <2>1, <2>3 DEF Started, Upgradable, Scheds
  <2>5. sched[p] = "done" => thread_exit_code[p]
    BY Zenon DEF IInv, ExitCodes, IsProcess
  <2> QED BY <2>4, <2>5
<1> QED BY <1>1, <1>2, ProcessInvariant, StartedNext, PTL DEF Safety

-----------------------------------------------------------------------------
(* Refinement of ProcTree                                                  *)

\* A step that leaves the tree's variables alone is a stutter.
LEMMA TreeStutter ==
    ASSUME UNCHANGED <<process_id, parent, children, exit_code, reaped>>
    PROVE  UNCHANGED Tree!vars
  BY DEF Tree!vars, Phase, Mother

\* Who the mother of a child is, in terms of the child lists.
LEMMA MotherFacts ==
    ASSUME IInv, NEW c \in Tid
    PROVE  /\ \A p \in Tid : Mother(c) = p <=> c \in children[p]
           /\ Mother(c) \in Tid \cup {NoTask}
           /\ (\A p \in Tid : c \notin children[p]) => Mother(c) = NoTask
<1>1. ASSUME NEW p \in Tid, c \in children[p] PROVE Mother(c) = p
  BY <1>1 DEF IInv, ChildLists, Mother
<1>2. ASSUME NEW p \in Tid, Mother(c) = p PROVE c \in children[p]
  BY <1>2 DEF Mother
<1>3. Mother(c) = NoTask \/ (Mother(c) \in Tid /\ c \in children[Mother(c)])
  <2>1. CASE IsProcess(c) /\ parent[c] # NoTask /\ c \in children[process_id[parent[c]]]
    <3>1. process_id[parent[c]] \in Tid
      BY <2>1 DEF IInv, Ids, TypeOK
    <3> QED BY <2>1, <3>1 DEF Mother
  <2>2. CASE ~(IsProcess(c) /\ parent[c] # NoTask /\ c \in children[process_id[parent[c]]])
    BY <2>2 DEF Mother
  <2> QED BY <2>1, <2>2
<1> QED BY <1>1, <1>2, <1>3

\* After a step too, the mother of a process is the one that lists it.
LEMMA MotherInNext ==
    ASSUME IInv', NEW c \in Tid
    PROVE  /\ \A p \in Tid : Mother(c)' = p <=> c \in children'[p]
           /\ Mother(c)' \in Tid \cup {NoTask}
           /\ (\A p \in Tid : c \notin children'[p]) => Mother(c)' = NoTask
<1>1. ASSUME NEW p \in Tid, c \in children'[p] PROVE Mother(c)' = p
  BY <1>1 DEF IInv, ChildLists, Mother
<1>2. ASSUME NEW p \in Tid, Mother(c)' = p PROVE c \in children'[p]
  BY <1>2 DEF Mother
<1>3. Mother(c)' = NoTask \/ (Mother(c)' \in Tid /\ c \in children'[Mother(c)'])
  <2>1. CASE (IsProcess(c) /\ parent[c] # NoTask /\ c \in children[process_id[parent[c]]])'
    <3>1. process_id'[parent'[c]] \in Tid
      <4>1. process_id' \in [Tid -> Tid \cup {NoTask}] /\ parent' \in [Tid -> Tid \cup {NoTask}]
        BY ZenonT(60) DEF IInv, TypeOK
      <4>2. parent'[c] # NoTask
        BY Zenon, <2>1
      <4>3. parent'[c] \in Tid
        BY <4>1, <4>2
      <4>4. process_id'[parent'[c]] # NoTask
        BY Zenon, <4>2, <4>3 DEF IInv, Ids
      <4> QED BY <4>1, <4>3, <4>4
    <3> QED BY <2>1, <3>1 DEF Mother
  <2>2. CASE ~(IsProcess(c) /\ parent[c] # NoTask /\ c \in children[process_id[parent[c]]])'
    BY <2>2 DEF Mother
  <2> QED BY <2>1, <2>2
<1> QED BY <1>1, <1>2, <1>3

\* The exit of the last step of a process, seen from the tree.
LEMMA LeaveRefines ==
    ASSUME IInv, IInv', NEW t \in Tid, sched[t] = "queued", Leave(t),
           UNCHANGED <<process_id, parent, reaped>>,
           NEW code, code # NoCode,
           exit_code' = [exit_code EXCEPT ![process_id[t]] = code]
    PROVE  Tree!Next \/ UNCHANGED Tree!vars
<1>1. PICK p \in Tid : p = process_id[t] /\ process_id[p] = p
  BY SMTT(30), QueuedFacts DEF Upgradable
<1>2. exit_code \in [Tid -> Codes \cup {NoCode, 0}] /\ children \in [Tid -> SUBSET Tid]
  BY DEF IInv, TypeOK
<1>3. \A q \in Tid : Phase(q)' = IF q = p /\ exit_code[p] = NoCode THEN "exited" ELSE Phase(q)
  <2>1. \A q \in Tid : q # p => exit_code'[q] = exit_code[q]
    BY <1>1, <1>2
  <2>2. exit_code'[p] # NoCode
    BY <1>1, <1>2
  <2>3. exit_code[p] = NoCode => p \notin reaped
    BY DEF IInv, ReleaseAssert
  <2> QED BY <1>1, <2>1, <2>2, <2>3 DEF Phase
<1>4. \/ \A c \in Tid : Mother(c)' = Mother(c)
      \/ \A c \in Tid : Mother(c)' = IF Mother(c) = p THEN NoTask ELSE Mother(c)
  <2>1. CASE CleansUp(t)
    <3>1. t = p /\ children' = [children EXCEPT ![p] = {}]
      BY <1>1, <2>1 DEF Leave, CleansUp
    <3>2. \A q \in Tid : children'[q] = IF q = p THEN {} ELSE children[q]
      BY <1>2, <3>1
    <3>3. ASSUME NEW c \in Tid, c \in children[p] PROVE Mother(c)' = NoTask
      <4>1. process_id[c] = c /\ parent[c] # NoTask /\ process_id[parent[c]] = p
        BY Zenon, <3>3 DEF IInv, ChildLists, IsProcess
      <4>2. c \notin children'[p]
        BY <3>2
      <4> QED BY <4>1, <4>2 DEF Mother
    <3>4. ASSUME NEW c \in Tid, c \notin children[p] PROVE Mother(c)' = Mother(c)
      <4>1. parent[c] # NoTask => process_id[parent[c]] \in Tid
        <5> SUFFICES ASSUME parent[c] # NoTask PROVE process_id[parent[c]] \in Tid
          OBVIOUS
        <5>1. parent[c] \in Tid \cup {NoTask} /\ parent[c] <= last_id
          BY Zenon DEF IInv, Ids, TypeOK
        <5>2. parent[c] \in Tid
          BY Zenon, <5>1
        <5>3. process_id[parent[c]] \in Tid \cup {NoTask} /\ process_id[parent[c]] # NoTask
          BY Zenon, <5>1, <5>2 DEF IInv, Ids, TypeOK
        <5> QED BY Zenon, <5>3
      <4>2. parent[c] # NoTask =>
              (c \in children'[process_id[parent[c]]] <=> c \in children[process_id[parent[c]]])
        BY <3>2, <3>4, <4>1
      <4> QED BY SMTT(30), <4>2 DEF Mother
    <3>5. \A c \in Tid : Mother(c) = p <=> c \in children[p]
      BY MotherFacts
    <3>6. \A c \in Tid : Mother(c)' = IF Mother(c) = p THEN NoTask ELSE Mother(c)
      BY <3>3, <3>4, <3>5
    <3> QED BY <3>6
  <2>2. CASE ~CleansUp(t)
    <3>1. children' = children
      BY <2>2 DEF Leave
    <3>2. \A c \in Tid : Mother(c)' = Mother(c)
      BY <3>1 DEF Mother
    <3> QED BY <3>2
  <2> QED BY <2>1, <2>2
<1> DEFINE ph == [q \in Tid |-> Phase(q)]
           mo == [c \in Tid |-> Mother(c)]
           orphaned == [c \in Tid |-> IF mo[c] = p THEN NoTask ELSE mo[c]]
<1>5. mo' = mo \/ mo' = orphaned
  BY <1>4
<1>6. CASE exit_code[p] = NoCode
  <2>1. ph[p] = "live"
    <3>1. p \notin reaped
      BY <1>6 DEF IInv, ReleaseAssert
    <3> QED BY <1>1, <1>6, <3>1 DEF Phase
  <2>2. ph' = [ph EXCEPT ![p] = "exited"]
    BY ZenonT(30), <1>3, <1>6
  <2>3. Tree!Exit(p)
    BY <1>5, <2>1, <2>2 DEF Tree!Exit, Tree!Orphaned, Tree!NoPid
  <2> QED BY <2>3 DEF Tree!Next
<1>7. CASE exit_code[p] # NoCode
  <2>1. ph' = ph
    BY <1>3, <1>7
  <2>2. ph[p] \in {"exited", "reaped"}
    BY <1>1, <1>7 DEF Phase
  <2>3. CASE mo' = mo
    BY <2>1, <2>3 DEF Tree!vars
  <2>4. CASE mo' = orphaned
    <3>1. Tree!LetGo(p)
      BY <2>1, <2>2, <2>4 DEF Tree!LetGo, Tree!Orphaned, Tree!NoPid
    <3> QED BY <3>1 DEF Tree!Next
  <2> QED BY <1>5, <2>3, <2>4
<1> QED BY <1>6, <1>7

\* A new thread leaves the tree of processes alone.
LEMMA CloneThreadRefines ==
    ASSUME IInv, NEW t \in Tid, NEW sig \in CloneSigs, sys_clone_thread(t, sig)
    PROVE  UNCHANGED Tree!vars
<1>1. PICK n : n = last_id + 1
  OBVIOUS
<1>2. last_id < MaxTask /\ sched[t] = "queued"
  BY Zenon, RunningFacts DEF sys_clone_thread
<1>3. /\ n \in Tid /\ process_id[n] = NoTask /\ \A u \in Tid : process_id[u] # n /\ parent[u] # n
  BY ZenonT(30), <1>1, <1>2, FreshFacts
<1>4. process_id[t] # n /\ process_id \in [Tid -> Tid \cup {NoTask}] /\ parent \in [Tid -> Tid \cup {NoTask}]
  BY <1>3 DEF IInv, TypeOK
<1>5. /\ \A u \in Tid : process_id'[u] = IF u = n THEN process_id[t] ELSE process_id[u]
      /\ \A u \in Tid : parent'[u] = IF u = n THEN parent[t] ELSE parent[u]
      /\ UNCHANGED <<children, exit_code, reaped>>
  BY <1>1, <1>3, <1>4 DEF sys_clone_thread
<1>6. \A q \in Tid : IsProcess(q)' <=> IsProcess(q)
  BY <1>3, <1>4, <1>5
<1>7. \A q \in Tid : Phase(q)' = Phase(q)
  BY Zenon, <1>5, <1>6 DEF Phase
<1>8. ASSUME NEW c \in Tid PROVE Mother(c)' = Mother(c)
  <2>1. CASE ~IsProcess(c)
    BY <1>6, <2>1 DEF Mother
  <2>2. CASE IsProcess(c)
    <3>1. c # n /\ parent'[c] = parent[c] /\ process_id'[c] = c
      BY <1>3, <1>5, <2>2
    <3>2. parent[c] # NoTask => process_id'[parent[c]] = process_id[parent[c]]
      BY <1>3, <1>4, <1>5
    <3> QED BY Zenon, <1>5, <2>2, <3>1, <3>2 DEF Mother
  <2> QED BY <2>1, <2>2
<1> QED BY <1>7, <1>8 DEF Tree!vars

\* A fork is a birth in the tree.
LEMMA CloneForkRefines ==
    ASSUME IInv, IInv', NEW t \in Tid, NEW sig \in CloneSigs, sys_clone_fork(t, sig)
    PROVE  Tree!Next
<1>1. PICK n : n = last_id + 1
  OBVIOUS
<1>2. last_id < MaxTask /\ sched[t] = "queued" /\ exit_code[process_id[t]] = NoCode
  BY Zenon, RunningFacts DEF sys_clone_fork
<1>3. /\ n \in Tid /\ process_id[n] = NoTask /\ exit_code[n] = NoCode /\ n \notin reaped
      /\ \A u \in Tid : process_id[u] # n /\ parent[u] # n
      /\ \A q \in Tid : n \notin children[q]
  BY ZenonT(30), <1>1, <1>2, FreshFacts
<1>4. PICK p \in Tid : p = process_id[t] /\ process_id[p] = p
  BY <1>2, QueuedFacts DEF Upgradable
<1>5. /\ process_id \in [Tid -> Tid \cup {NoTask}] /\ parent \in [Tid -> Tid \cup {NoTask}]
      /\ children \in [Tid -> SUBSET Tid] /\ children' \in [Tid -> SUBSET Tid]
  BY Zenon DEF IInv, TypeOK
<1>6. /\ \A u \in Tid : process_id'[u] = IF u = n THEN n ELSE process_id[u]
      /\ UNCHANGED <<exit_code, reaped>>
  BY <1>1, <1>3, <1>5 DEF sys_clone_fork
<1>7. children' = [children EXCEPT ![p] = @ \cup {n}]
  BY <1>1, <1>4 DEF sys_clone_fork
<1>8. \A q \in Tid : children'[q] = IF q = p THEN children[q] \cup {n} ELSE children[q]
  BY ZenonT(30), <1>5, <1>7
<1>9. \A q \in Tid : Phase(q)' = IF q = n THEN "live" ELSE Phase(q)
  BY <1>3, <1>6 DEF Phase
<1>10. \A c \in Tid : c # n => Mother(c)' = Mother(c)
  <2> SUFFICES ASSUME NEW c \in Tid, c # n PROVE Mother(c)' = Mother(c)
    OBVIOUS
  <2>1. \A q \in Tid : c \in children'[q] <=> c \in children[q]
    BY ZenonT(30), <1>8
  <2>2. \A q \in Tid : Mother(c)' = q <=> c \in children'[q]
    BY MotherInNext
  <2>3. \A q \in Tid : Mother(c) = q <=> c \in children[q]
    BY MotherFacts
  <2>4. Mother(c) \in Tid \cup {NoTask} /\ Mother(c)' \in Tid \cup {NoTask}
    BY MotherFacts, MotherInNext
  <2> QED BY <2>1, <2>2, <2>3, <2>4
<1>11. Mother(n)' = p
  BY ZenonT(30), <1>3, <1>8, MotherInNext
<1> DEFINE ph == [q \in Tid |-> Phase(q)]
           mo == [c \in Tid |-> Mother(c)]
<1>12. ph' = [ph EXCEPT ![n] = "live"] /\ mo' = [mo EXCEPT ![n] = p]
  BY ZenonT(30), <1>3, <1>9, <1>10, <1>11
<1>13. ph[p] = "live" /\ ph[n] = "free"
  <2>1. exit_code[p] = NoCode /\ p \notin reaped
    BY <1>2, <1>4 DEF IInv, ReleaseAssert
  <2> QED BY <1>3, <1>4, <2>1 DEF Phase
<1>14. Tree!Fork(p, n)
  BY <1>12, <1>13 DEF Tree!Fork
<1> QED BY <1>3, <1>14 DEF Tree!Next

\* A reaping wait4 is a reaping in the tree.
LEMMA ReapRefines ==
    ASSUME IInv, IInv', NEW t \in Tid, NEW c \in Tid, sched[t] = "queued",
           c \in children[process_id[t]], exit_code[c] # NoCode, Reap(t, c),
           UNCHANGED waitSame
    PROVE  Tree!Next
<1>1. PICK p \in Tid : p = process_id[t]
  BY Zenon, QueuedFacts DEF Upgradable
<1>2. /\ children' = [children EXCEPT ![p] = @ \ {c}] /\ reaped' = reaped \cup {c}
      /\ UNCHANGED <<process_id, parent, exit_code>>
  BY SMTT(30), <1>1 DEF Reap, waitSame, idVars
<1>3. children \in [Tid -> SUBSET Tid]
  BY Zenon DEF IInv, TypeOK
<1>4. \A q \in Tid : children'[q] = IF q = p THEN children[q] \ {c} ELSE children[q]
  BY ZenonT(30), <1>2, <1>3
<1>5. process_id[c] = c /\ c \notin reaped /\ \A q \in Tid : c \in children[q] => q = p
  <2>1. ChildLists
    BY Zenon DEF IInv
  <2>2. process_id[c] = c /\ c \notin reaped /\ process_id[parent[c]] = p
    BY Zenon, <1>1, <2>1 DEF ChildLists, IsProcess
  <2>3. ASSUME NEW q \in Tid, c \in children[q] PROVE q = p
    <3>1. process_id[parent[c]] = q
      BY Zenon, <2>1, <2>3 DEF ChildLists
    <3> QED BY Zenon, <2>2, <3>1
  <2> QED BY Zenon, <2>2, <2>3
<1>6. \A q \in Tid : Phase(q)' = IF q = c THEN "reaped" ELSE Phase(q)
  BY <1>2, <1>5 DEF Phase
<1>7. \A d \in Tid : d # c => Mother(d)' = Mother(d)
  <2> SUFFICES ASSUME NEW d \in Tid, d # c PROVE Mother(d)' = Mother(d)
    OBVIOUS
  <2>1. \A q \in Tid : d \in children'[q] <=> d \in children[q]
    BY ZenonT(30), <1>4
  <2>2. \A q \in Tid : Mother(d)' = q <=> d \in children'[q]
    BY MotherInNext
  <2>3. \A q \in Tid : Mother(d) = q <=> d \in children[q]
    BY MotherFacts
  <2>4. Mother(d) \in Tid \cup {NoTask} /\ Mother(d)' \in Tid \cup {NoTask}
    BY MotherFacts, MotherInNext
  <2> QED BY <2>1, <2>2, <2>3, <2>4
<1>8. Mother(c)' = NoTask
  <2>1. \A q \in Tid : c \notin children'[q]
    BY ZenonT(30), <1>4, <1>5
  <2> QED BY <2>1, MotherInNext
<1> DEFINE ph == [q \in Tid |-> Phase(q)]
           mo == [d \in Tid |-> Mother(d)]
<1>9. ph' = [ph EXCEPT ![c] = "reaped"] /\ mo' = [mo EXCEPT ![c] = NoTask]
  BY ZenonT(30), <1>6, <1>7, <1>8
<1>10. mo[c] = p /\ ph[c] = "exited"
  BY <1>1, <1>5, MotherFacts DEF Phase
<1>11. Tree!Reap(p, c)
  BY <1>9, <1>10 DEF Tree!Reap, Tree!NoPid
<1> QED BY <1>11 DEF Tree!Next

\* setsid is a step of the tree.
LEMMA SetsidRefines ==
    ASSUME IInv, IInv', NEW t \in Tid, sys_setsid(t)
    PROVE  Tree!Next
<1>1. PICK p : p = process_id[parent[t]]
  OBVIOUS
<1>2. /\ parent[t] # NoTask /\ children' = [children EXCEPT ![p] = @ \ {t}]
      /\ UNCHANGED <<process_id, exit_code, reaped>>
  BY SMTT(30), <1>1 DEF sys_setsid
<1>3. p \in Tid /\ children \in [Tid -> SUBSET Tid]
  <2>1. children \in [Tid -> SUBSET Tid] /\ process_id \in [Tid -> Tid \cup {NoTask}]
        /\ parent \in [Tid -> Tid \cup {NoTask}]
    BY Zenon DEF IInv, TypeOK
  <2>2. parent[t] \in Tid
    BY <1>2, <2>1
  <2>3. process_id[parent[t]] # NoTask
    BY Zenon, <1>2, <2>2 DEF IInv, Ids
  <2> QED BY <1>1, <2>1, <2>2, <2>3
<1>4. \A q \in Tid : children'[q] = IF q = p THEN children[q] \ {t} ELSE children[q]
  BY ZenonT(30), <1>2, <1>3
<1>5. \A q \in Tid : t \in children[q] => q = p
  BY <1>1 DEF IInv, ChildLists
<1>6. \A q \in Tid : Phase(q)' = Phase(q)
  BY <1>2 DEF Phase
<1>7. \A d \in Tid : d # t => Mother(d)' = Mother(d)
  <2> SUFFICES ASSUME NEW d \in Tid, d # t PROVE Mother(d)' = Mother(d)
    OBVIOUS
  <2>1. \A q \in Tid : d \in children'[q] <=> d \in children[q]
    BY ZenonT(30), <1>4
  <2>2. \A q \in Tid : Mother(d)' = q <=> d \in children'[q]
    BY MotherInNext
  <2>3. \A q \in Tid : Mother(d) = q <=> d \in children[q]
    BY MotherFacts
  <2>4. Mother(d) \in Tid \cup {NoTask} /\ Mother(d)' \in Tid \cup {NoTask}
    BY MotherFacts, MotherInNext
  <2> QED BY <2>1, <2>2, <2>3, <2>4
<1>8. Mother(t)' = NoTask
  <2>1. \A q \in Tid : t \notin children'[q]
    BY ZenonT(30), <1>4, <1>5
  <2> QED BY <2>1, MotherInNext
<1> DEFINE ph == [q \in Tid |-> Phase(q)]
           mo == [d \in Tid |-> Mother(d)]
<1>9. ph' = ph /\ mo' = [mo EXCEPT ![t] = NoTask]
  BY ZenonT(30), <1>6, <1>7, <1>8
<1>10. Tree!Detach(t)
  BY <1>9 DEF Tree!Detach, Tree!NoPid
<1> QED BY <1>10 DEF Tree!Next

\* The start and the end of a command are steps of the tree.
LEMMA CommandRefines ==
    ASSUME IInv, IInv', command_start \/ command_done
    PROVE  Tree!Next
<1> DEFINE ph == [q \in Tid |-> Phase(q)]
           mo == [d \in Tid |-> Mother(d)]
<1>0. process_id \in [Tid -> Tid \cup {NoTask}] /\ children \in [Tid -> SUBSET Tid]
  BY Zenon DEF IInv, TypeOK
<1>a. ASSUME children' = children, NEW c \in Tid PROVE Mother(c)' = Mother(c)
  <2>1. \A q \in Tid : Mother(c)' = q <=> c \in children'[q]
    BY MotherInNext
  <2>2. \A q \in Tid : Mother(c) = q <=> c \in children[q]
    BY MotherFacts
  <2>3. Mother(c) \in Tid \cup {NoTask} /\ Mother(c)' \in Tid \cup {NoTask}
    BY MotherFacts, MotherInNext
  <2> QED BY <1>a, <2>1, <2>2, <2>3
<1>1. CASE command_start
  <2>1. PICK n : n = last_id + 1
    OBVIOUS
  <2>2. /\ last_id < MaxTask /\ process_id' = [process_id EXCEPT ![n] = n]
        /\ UNCHANGED <<children, exit_code, reaped>>
    BY SMTT(30), <1>1, <2>1 DEF command_start
  <2>3. n \in Tid /\ process_id[n] = NoTask /\ exit_code[n] = NoCode /\ n \notin reaped
    BY ZenonT(30), <2>1, <2>2, FreshFacts
  <2>4. \A u \in Tid : process_id'[u] = IF u = n THEN n ELSE process_id[u]
    BY <1>0, <2>2, <2>3
  <2>5. \A q \in Tid : Phase(q)' = IF q = n THEN "live" ELSE Phase(q)
    BY <2>2, <2>3, <2>4 DEF Phase
  <2>6. ph' = [ph EXCEPT ![n] = "live"] /\ mo' = mo
    BY ZenonT(30), <1>a, <2>2, <2>3, <2>5
  <2>7. ph[n] = "free"
    BY <2>3 DEF Phase
  <2>8. Tree!Boot(n)
    BY <2>6, <2>7 DEF Tree!Boot
  <2> QED BY <2>3, <2>8 DEF Tree!Next
<1>2. CASE command_done
  <2>1. /\ command # NoTask /\ exit_code[command] # NoCode /\ reaped' = reaped \cup {command}
        /\ UNCHANGED <<children, exit_code, process_id>>
    BY <1>2 DEF command_done, idVars, pcbVars
  <2>2. /\ command \in Tid /\ process_id[command] = command
        /\ parent[command] = NoTask /\ command \notin reaped
    BY Zenon, <2>1 DEF IInv, TypeOK, CommandTask
  <2>3. \A q \in Tid : Phase(q)' = IF q = command THEN "reaped" ELSE Phase(q)
    BY <2>1, <2>2 DEF Phase
  <2>4. ph' = [ph EXCEPT ![command] = "reaped"] /\ mo' = mo
    BY ZenonT(30), <1>a, <2>1, <2>2, <2>3
  <2>5. ph[command] = "exited" /\ mo[command] = NoTask
    BY <2>1, <2>2 DEF Phase, Mother
  <2>6. Tree!Collect(command)
    BY <2>4, <2>5 DEF Tree!Collect, Tree!NoPid
  <2> QED BY <2>2, <2>6 DEF Tree!Next
<1> QED BY <1>1, <1>2

\* The exit of a process is a death in the tree.
LEMMA ExitRefines ==
    ASSUME IInv, IInv', NEW t \in Tid, NEW code \in Codes,
           sys_exit(t, code) \/ sys_exit_group(t, code)
    PROVE  Tree!Next \/ UNCHANGED Tree!vars
<1>0. Running(t)
  BY Zenon DEF sys_exit, sys_exit_group
<1>1. /\ sched[t] = "queued" /\ Leave(t) /\ UNCHANGED <<process_id, parent, reaped>>
  BY ZenonT(30), <1>0, RunningFacts DEF sys_exit, sys_exit_group, idVars
<1>2. PICK c \in Codes \cup {0} : c = EndCode(t, code)
  BY Zenon, EndTypes
<1>3. c # NoCode
  OBVIOUS
<1>4. CASE exit_code' = [exit_code EXCEPT ![process_id[t]] = c]
  BY ZenonT(30), <1>1, <1>3, <1>4, LeaveRefines
<1>5. CASE sys_exit(t, code) /\ ~CleansUp(t)
  <2>1. UNCHANGED <<process_id, parent, children, exit_code, reaped>>
    BY Zenon, <1>1, <1>5 DEF sys_exit, Leave
  <2> QED BY <2>1, TreeStutter
<1> QED BY Zenon, <1>2, <1>4, <1>5 DEF sys_exit, sys_exit_group, CleansUp

\* So is a fatal signal; a handler that starts or ends leaves the tree alone.
LEMMA CheckSignalsRefines ==
    ASSUME IInv, IInv', NEW t \in Tid, CheckSignals(t) \/ HandlerEnds(t)
    PROVE  Tree!Next \/ UNCHANGED Tree!vars
<1>1. sched[t] = "queued" /\ UNCHANGED <<process_id, parent, reaped>>
  BY DEF CheckSignals, HandlerEnds, Polled, signalSame, idVars
<1>2. \/ Leave(t) /\ exit_code' = [exit_code EXCEPT ![process_id[t]] = 0]
      \/ UNCHANGED pcbVars
  BY Zenon DEF CheckSignals, HandlerEnds, HandleSignals
<1>3. CASE Leave(t) /\ exit_code' = [exit_code EXCEPT ![process_id[t]] = 0]
  <2>1. 0 # NoCode
    OBVIOUS
  <2> QED BY ZenonT(30), <1>1, <1>3, <2>1, LeaveRefines
<1>4. CASE UNCHANGED pcbVars
  <2>1. UNCHANGED <<process_id, parent, children, exit_code, reaped>>
    BY <1>1, <1>4 DEF pcbVars
  <2> QED BY <2>1, TreeStutter
<1> QED BY Zenon, <1>2, <1>3, <1>4

\* wait4 is a step of the tree or leaves it alone.
LEMMA WaitRefines ==
    ASSUME IInv, IInv', NEW t \in Tid, NEW pid \in Tid \cup {Any},
           \/ sys_wait4(t, pid) \/ sys_wait4_nohang(t, pid)
           \/ wait4_ready(t) \/ outer_ready(t)
    PROVE  Tree!Next \/ UNCHANGED Tree!vars
<1>0. Running(t) => sched[t] = "queued"
  BY Zenon, RunningFacts
<1>1. sched[t] = "queued" /\ UNCHANGED waitSame
  BY Zenon, <1>0 DEF sys_wait4, sys_wait4_nohang, wait4_ready, outer_ready, Polled
<1>2. ASSUME NEW c \in Tid, c \in children[process_id[t]], exit_code[c] # NoCode, Reap(t, c)
      PROVE  Tree!Next
  BY Zenon, <1>1, <1>2, ReapRefines
<1>3. ASSUME UNCHANGED <<children, reaped>> PROVE UNCHANGED Tree!vars
  <2>1. UNCHANGED <<process_id, parent, children, exit_code, reaped>>
    BY <1>1, <1>3 DEF waitSame, idVars
  <2> QED BY <2>1, TreeStutter
<1>4. ASSUME NEW arg, NEW c \in Tid, IsFirst(c, Exits(t, arg)), Reap(t, c) PROVE Tree!Next
  <2>1. c \in children[process_id[t]] /\ exit_code[c] # NoCode
    BY Zenon, <1>4 DEF IsFirst, Exits
  <2> QED BY Zenon, <1>2, <1>4, <2>1
<1>5. CASE sys_wait4(t, pid)
  <2>1. \/ \E c \in Tid : IsFirst(c, Exits(t, pid)) /\ Reap(t, c)
        \/ UNCHANGED <<children, reaped>>
    BY Zenon, <1>5 DEF sys_wait4
  <2> QED BY Zenon, <2>1, <1>3, <1>4
<1>6. CASE sys_wait4_nohang(t, pid)
  <2>1. PICK c \in Tid :
          /\ IsFirst(c, {d \in children[process_id[t]] : pid = Any \/ d = pid})
          /\ exit_code[c] # NoCode /\ Reap(t, c)
    BY Zenon, <1>6 DEF sys_wait4_nohang
  <2>2. c \in children[process_id[t]]
    BY Zenon, <2>1 DEF IsFirst
  <2> QED BY Zenon, <1>2, <2>1, <2>2
<1>7. CASE wait4_ready(t)
  <2>1. \E c \in Tid : IsFirst(c, Exits(t, call[t].arg)) /\ Reap(t, c)
    BY Zenon, <1>7 DEF wait4_ready
  <2> QED BY Zenon, <1>4, <2>1
<1>8. CASE outer_ready(t)
  <2>1. \E c \in Tid : IsFirst(c, Exits(t, handler[t].call.arg)) /\ Reap(t, c)
    BY Zenon, <1>8 DEF outer_ready
  <2> QED BY Zenon, <1>4, <2>1
<1> QED BY Zenon, <1>5, <1>6, <1>7, <1>8

\* Every step is a step of the tree or a stutter.
LEMMA TreeStep == IInv /\ IInv' /\ [Next]_vars => [Tree!Next]_Tree!vars
<1> SUFFICES ASSUME IInv, IInv', [Next]_vars PROVE Tree!Next \/ UNCHANGED Tree!vars
  BY DEF Tree!vars
<1>1. CASE UNCHANGED vars
  BY <1>1, TreeStutter DEF vars, idVars, pcbVars
<1>2. CASE command_start \/ command_done
  BY <1>2, CommandRefines
<1>3. ASSUME NEW t \in Tid, CheckSignals(t) \/ HandlerEnds(t)
      PROVE  Tree!Next \/ UNCHANGED Tree!vars
  BY <1>3, CheckSignalsRefines
<1>4. ASSUME NEW t \in Tid, clone_spawn(t) PROVE UNCHANGED Tree!vars
  BY <1>4, TreeStutter DEF clone_spawn, idVars, pcbVars
<1>5. ASSUME NEW t \in Tid, wait4_ready(t) \/ outer_ready(t)
      PROVE  Tree!Next \/ UNCHANGED Tree!vars
  <2>1. Any \in Tid \cup {Any}
    OBVIOUS
  <2> QED BY Zenon, <1>5, <2>1, WaitRefines
<1>6. ASSUME NEW t \in Tid, NEW code \in Codes, sys_exit(t, code) \/ sys_exit_group(t, code)
      PROVE  Tree!Next \/ UNCHANGED Tree!vars
  BY <1>6, ExitRefines
<1>7. ASSUME NEW t \in Tid, NEW sig \in CloneSigs,
             sys_clone_thread(t, sig) \/ sys_clone_fork(t, sig)
      PROVE  Tree!Next \/ UNCHANGED Tree!vars
  BY <1>7, CloneThreadRefines, CloneForkRefines
<1>8. ASSUME NEW t \in Tid, NEW pid \in Tid \cup {Any},
             sys_wait4(t, pid) \/ sys_wait4_nohang(t, pid)
      PROVE  Tree!Next \/ UNCHANGED Tree!vars
  BY <1>8, WaitRefines
<1>9. ASSUME NEW t \in Tid, NEW u \in Tid, NEW s \in KillSigs \cup CatchSigs,
             sys_kill(t, u, s)
      PROVE  UNCHANGED Tree!vars
  BY <1>9, TreeStutter DEF sys_kill, idVars, pcbVars
<1>10. ASSUME NEW t \in Tid, sys_setsid(t) PROVE Tree!Next
  BY <1>10, SetsidRefines
<1>11. ASSUME NEW t \in Tid, sys_rt_sigreturn(t) PROVE UNCHANGED Tree!vars
  BY <1>11, TreeStutter DEF sys_rt_sigreturn, idVars, pcbVars
<1> QED BY Zenon, <1>1, <1>2, <1>3, <1>4, <1>5, <1>6, <1>7, <1>8, <1>9, <1>10, <1>11
        DEF Next, Resume, handler_break, handler_return

\* The process table implements the process tree: a process is live, exited and
\* reaped in this order, and only its parent reaps it, once.
THEOREM TreeRefinement == Safety => TreeSpec
<1>1. Init => Tree!Init
  <2> SUFFICES ASSUME Init PROVE Tree!Init
    OBVIOUS
  <2>1. \A p \in Tid : Phase(p) = "free" /\ Mother(p) = NoTask
    BY DEF Init, Phase, Mother
  <2> QED BY <2>1 DEF Tree!Init, Tree!NoPid
<1>2. IInv /\ IInv' /\ [Next]_vars => [Tree!Next]_Tree!vars
  BY TreeStep
<1> QED BY <1>1, <1>2, ProcessInvariant, PTL DEF Safety, TreeSpec, Tree!Spec
=============================================================================

---------------------------- MODULE ProcessSteps ----------------------------
(***************************************************************************)
(* The inductive invariant of Process holds initially and is preserved by  *)
(* the steps with which tasks come and go: exits, signals and clone.       *)
(* ProcessProof adds the other steps and the theorems.                     *)
(***************************************************************************)
EXTENDS Process, TLAPS

\* What most steps need of the constants.
LEMMA Bounds == MaxTask \in Nat \ {0} /\ Codes \subseteq Nat
  BY ProcessAssumption

USE Bounds DEF Tid, NoTask, Any, NoCode, NoSig, SIGCHLD, IsProcess

\* What a queued task may rely on.
LEMMA QueuedFacts ==
    ASSUME IInv, NEW t \in Tid, Upgradable(t)
    PROVE  t <= last_id /\ process_id[t] \in Tid /\ IsProcess(process_id[t])
<1>1. t <= last_id
  BY DEF IInv, Ids, Upgradable, TypeOK
<1>2. process_id[t] \in Tid
  BY <1>1 DEF IInv, Ids, TypeOK
<1>3. IsProcess(process_id[t])
  BY <1>2 DEF IInv, Ids
<1> QED BY <1>1, <1>2, <1>3

\* A task that runs user code, in a handler or not, is of a process without an
\* exit code, which is not torn down.
LEMMA RunningFacts ==
    ASSUME IInv, NEW t \in Tid, Running(t)
    PROVE  /\ sched[t] = "queued" /\ call[t] = Idle /\ call[t].op # "clone"
           /\ exit_code[process_id[t]] = NoCode /\ ~cleaned[process_id[t]]
<1>1. sched[t] = "queued" /\ call[t] = Idle
  BY Zenon DEF Running, Polled
<1>2. exit_code[process_id[t]] = NoCode
  BY Zenon DEF Running, Exited
<1>3. process_id[t] \in Tid
  BY <1>1, QueuedFacts DEF Upgradable
<1>4. ~cleaned[process_id[t]]
  BY Zenon, <1>2, <1>3 DEF IInv, ExitCodes
<1>5. Idle.op # "clone"
  BY DEF Idle
<1> QED BY <1>1, <1>2, <1>4, <1>5

\* The invariant holds at boot.
LEMMA InitInv == Init => IInv
<1> SUFFICES ASSUME Init PROVE IInv
  OBVIOUS
<1>1. TypeOK
  <2>1. Idle \in Calls /\ NoHandler \in Handlers /\ "none" \in Scheds
    BY DEF Calls, NoHandler, Handlers, Scheds
  <2> QED BY <2>1 DEF Init, TypeOK
<1>2. Ids /\ ThreadLists /\ ExitCodes /\ CommandTask
  BY DEF Init, Ids, ThreadLists, ExitCodes, CommandTask, Upgradable
<1>3. CloneCalls
  BY DEF Init, CloneCalls, Idle
<1>4. ReleaseAssert /\ ChildLists /\ NoZombieLost /\ CleanedQuiet
  BY DEF Init, ReleaseAssert, ChildLists, NoZombieLost, CleanedQuiet
<1> QED BY <1>1, <1>2, <1>3, <1>4 DEF IInv

\* A task suspended in clone names the task it has made.
LEMMA CloneArg ==
    ASSUME TypeOK, NEW u \in Tid, call[u].op = "clone"
    PROVE  call[u].arg \in Tid
<1>1. call[u] \in Calls
  BY Zenon DEF TypeOK
<1>2. Idle.op # "clone" /\ \A c \in Wait4Calls : c.op # "clone"
  BY DEF Idle, Wait4Calls
<1>3. call[u] \in [op : {"clone"}, arg : Tid]
  BY Zenon, <1>1, <1>2 DEF Calls
<1> QED BY <1>3

\* The task that leaves is removed from its thread list; when it is the last
\* one, and the main one, nothing of the process can run any more but threads
\* that left it in a handler.
LEMMA LeaveInv ==
    ASSUME IInv, NEW t \in Tid, sched[t] = "queued", call[t].op # "clone",
           Leave(t),
           NEW code \in Codes \cup {0},
           \/ exit_code' = [exit_code EXCEPT ![process_id[t]] = code]
           \/ exit_code' = exit_code /\ ~CleansUp(t)
              /\ (thread_exit_code'[t] = TRUE \/ exit_code[process_id[t]] # NoCode),
           \/ thread_exit_code' = thread_exit_code
           \/ thread_exit_code' = [thread_exit_code EXCEPT ![t] = TRUE],
           \/ /\ sched' = [sched EXCEPT ![t] = "done"]
              /\ handler' = [handler EXCEPT ![t] = NoHandler]
           \/ /\ sched' = sched /\ handler' = handler
              /\ InHandler(t) /\ ~CleansUp(t) /\ thread_exit_code'[t] = TRUE,
           call' = [call EXCEPT ![t] = Idle],
           exit_signal' \in [Tid -> KillSigs \cup {NoSig}],
           pending' \in [Tid -> SUBSET Signals],
           UNCHANGED <<idVars, clone_sig, task_map, command, reaped>>
    PROVE  IInv'
<1> DEFINE p == process_id[t]
<1>t. TypeOK
  BY Zenon DEF IInv
<1>h. /\ Ids /\ ThreadLists /\ ChildLists /\ CloneCalls /\ ExitCodes
      /\ CommandTask /\ ReleaseAssert /\ NoZombieLost /\ CleanedQuiet
  BY Zenon DEF IInv
<1>0. Upgradable(t) /\ t <= last_id /\ p \in Tid /\ process_id[p] = p
  BY QueuedFacts DEF Upgradable
<1>1. /\ threads' = [threads EXCEPT ![p] = Remaining(t)]
      /\ Remaining(t) = {u \in threads[p] \ {t} : Upgradable(u)}
      /\ CleansUp(t) => /\ t = p /\ Remaining(t) = {}
                        /\ children' = [children EXCEPT ![t] = {}]
                        /\ cleaned' = [cleaned EXCEPT ![t] = TRUE]
      /\ ~CleansUp(t) => children' = children /\ cleaned' = cleaned
  BY DEF Leave, Remaining, CleansUp
<1> HIDE DEF p
<1>2. UNCHANGED <<last_id, process_id, parent, clone_sig, task_map, command, reaped>>
  BY DEF idVars
<1>3. TypeOK'
  <2>2. Remaining(t) \in SUBSET Tid
    BY <1>0, <1>1, <1>t DEF TypeOK
  <2>3. children' \in [Tid -> SUBSET Tid] /\ cleaned' \in [Tid -> BOOLEAN]
    BY ZenonT(30), <1>1, <1>t DEF TypeOK
  <2>4. exit_code' \in [Tid -> Codes \cup {NoCode, 0}]
    <3>1. exit_code \in [Tid -> Codes \cup {NoCode, 0}] /\ code \in Codes \cup {NoCode, 0}
      BY <1>t DEF TypeOK
    <3>2. CASE exit_code' = [exit_code EXCEPT ![process_id[t]] = code]
      BY ZenonT(30), <3>1, <3>2
    <3>3. CASE exit_code' = exit_code
      BY <3>1, <3>3
    <3> QED BY <3>2, <3>3
  <2>5. thread_exit_code' \in [Tid -> BOOLEAN]
    BY ZenonT(30), <1>t DEF TypeOK
  <2>6. Idle \in Calls /\ call' \in [Tid -> Calls]
    BY <1>t DEF TypeOK, Calls
  <2>7. threads' \in [Tid -> SUBSET Tid]
    BY ZenonT(30), <1>1, <2>2, <1>t DEF TypeOK
  <2>8. sched' \in [Tid -> Scheds] /\ handler' \in [Tid -> Handlers]
    <3>1. "done" \in Scheds /\ NoHandler \in Handlers
      BY DEF Scheds, NoHandler, Handlers
    <3>2. sched \in [Tid -> Scheds] /\ handler \in [Tid -> Handlers]
      BY Zenon, <1>t DEF TypeOK
    <3>3. sched' = sched \/ sched' = [sched EXCEPT ![t] = "done"]
      BY Zenon
    <3>4. handler' = handler \/ handler' = [handler EXCEPT ![t] = NoHandler]
      BY Zenon
    <3>5. sched' \in [Tid -> Scheds]
      BY <3>1, <3>2, <3>3
    <3>6. handler' \in [Tid -> Handlers]
      BY <3>1, <3>2, <3>4
    <3> QED BY Zenon, <3>5, <3>6
  <2> QED BY Zenon, <1>2, <2>3, <2>4, <2>5, <2>6, <2>7, <2>8, <1>t DEF TypeOK
<1>4. \A u \in Tid : u # t => sched'[u] = sched[u] /\ handler'[u] = handler[u]
                              /\ thread_exit_code'[u] = thread_exit_code[u]
  BY <1>t DEF TypeOK
<1>s. \/ sched'[t] = "done"
      \/ /\ sched'[t] = "queued" /\ handler'[t] = handler[t] /\ InHandler(t)
         /\ ~CleansUp(t) /\ thread_exit_code'[t] = TRUE
  <2>1. sched \in [Tid -> Scheds]
    BY Zenon, <1>t DEF TypeOK
  <2> QED BY <2>1
<1>5. \A u \in Tid : Upgradable(u)' => Upgradable(u)
  BY Zenon, <1>0, <1>4 DEF Upgradable
<1>6. Ids'
  <2>1. ASSUME NEW u \in Tid, u > last_id
        PROVE  /\ sched'[u] = "none" /\ children'[u] = {} /\ threads'[u] = {}
               /\ exit_code'[u] = NoCode /\ ~cleaned'[u] /\ ~thread_exit_code'[u]
    <3>1. u # t /\ u # p
      <4>1. process_id[u] = NoTask
        BY <2>1, <1>h DEF Ids
      <4>2. process_id[p] # NoTask /\ process_id[t] # NoTask
        BY <1>0 DEF p
      <4> QED BY <4>1, <4>2
    <3>2. /\ sched[u] = "none" /\ children[u] = {} /\ threads[u] = {}
          /\ exit_code[u] = NoCode /\ ~cleaned[u] /\ ~thread_exit_code[u]
      BY <2>1, <1>h DEF Ids
    <3>3. sched'[u] = sched[u] /\ exit_code'[u] = exit_code[u]
          /\ thread_exit_code'[u] = thread_exit_code[u]
      BY <1>4, <3>1, <1>t DEF TypeOK, p
    <3>4. threads'[u] = threads[u] /\ children'[u] = children[u] /\ cleaned'[u] = cleaned[u]
      BY <1>1, <3>1, <1>t DEF TypeOK
    <3> QED BY <3>2, <3>3, <3>4
  <2> QED BY <1>2, <2>1, <1>h DEF Ids
<1>7. ThreadLists'
  <2>0. \A q \in Tid : threads'[q] = IF q = p THEN Remaining(t) ELSE threads[q]
    BY Zenon, <1>1, <1>t DEF TypeOK
  <2>1. ASSUME NEW u \in Tid, Upgradable(u)'
        PROVE  /\ u \in threads'[process_id[u]] \/ thread_exit_code'[u]
               /\ thread_exit_code'[u] => InHandler(u)'
    <3>1. CASE u = t
      <4>1. sched'[t] # "done"
        BY <2>1, <3>1 DEF Upgradable
      <4> QED BY Zenon, <1>s, <3>1, <4>1 DEF InHandler
    <3>2. CASE u # t
      <4>1. Upgradable(u) /\ thread_exit_code'[u] = thread_exit_code[u]
            /\ handler'[u] = handler[u]
        BY Zenon, <1>4, <1>5, <2>1, <3>2
      <4>2. process_id[u] \in Tid
        BY Zenon, <4>1, QueuedFacts
      <4>3. u \in threads[process_id[u]] => u \in threads'[process_id[u]]
        BY <1>1, <2>0, <3>2, <4>1, <4>2
      <4> QED BY Zenon, <4>1, <4>3, <1>h DEF ThreadLists, InHandler
    <3> QED BY Zenon, <3>1, <3>2
  <2>2. ASSUME NEW q \in Tid, NEW u \in threads'[q] PROVE process_id[u] = q
    <3>1. u \in threads[q]
      BY <1>1, <2>0, <2>2
    <3> QED BY Zenon, <3>1, <1>h DEF ThreadLists
  <2> QED BY Zenon, <1>2, <2>1, <2>2 DEF ThreadLists
<1>8. \A u \in Tid : call'[u].op = "clone" => u # t /\ call[u].op = "clone" /\ call'[u] = call[u]
  BY <1>t DEF TypeOK, Idle
<1>9. CloneCalls'
  <2>1. ASSUME NEW u \in Tid, call'[u].op = "clone" PROVE sched'[call'[u].arg] = "new"
    <3>1. call[u].op = "clone" /\ call'[u] = call[u]
      BY Zenon, <1>8, <2>1
    <3>2. call[u].arg \in Tid /\ sched[call[u].arg] = "new"
      BY Zenon, <3>1, <1>t, <1>h, CloneArg DEF CloneCalls
    <3>3. call[u].arg # t
      BY <3>2
    <3> QED BY Zenon, <1>4, <3>1, <3>2, <3>3
  <2>2. \A u, v \in Tid : call'[u].op = "clone" /\ call'[v].op = "clone"
                            /\ call'[u].arg = call'[v].arg => u = v
    BY <1>8, <1>h DEF CloneCalls
  <2> QED BY Zenon, <2>1, <2>2 DEF CloneCalls
<1>10. ExitCodes'
  <2>1. \A q \in Tid : q # p => exit_code'[q] = exit_code[q]
    BY <1>t DEF TypeOK, p
  <2>2. exit_code[p] # NoCode \/ CleansUp(t) => exit_code'[p] # NoCode
    BY <1>0, <1>t DEF TypeOK, p
  <2>3. \A q \in Tid : exit_code'[q] # NoCode => process_id'[q] = q
    BY <1>0, <1>2, <2>1, <1>h DEF ExitCodes
  <2>4. \A q \in Tid : cleaned'[q] => exit_code'[q] # NoCode
    BY SMTT(30), <1>0, <1>1, <2>1, <2>2, <1>t, <1>h DEF ExitCodes, TypeOK
  <2>5. ASSUME NEW q \in Tid, process_id'[q] = q, exit_code'[q] = NoCode, sched'[q] = "done"
        PROVE  thread_exit_code'[q] = TRUE
    <3>1. CASE q = t
      <4>1. exit_code'[p] # code
        BY <1>2, <2>5, <3>1 DEF p
      <4>2. exit_code' # [exit_code EXCEPT ![process_id[t]] = code]
        BY <1>0, <4>1, <1>t DEF TypeOK, p
      <4>3. exit_code' = exit_code /\ exit_code[p] = NoCode
        BY <1>2, <2>5, <3>1, <4>2 DEF p
      <4> QED BY <3>1, <4>2, <4>3 DEF p
    <3>2. CASE q # t
      <4>1. exit_code[q] = NoCode /\ sched[q] = "done" /\ process_id[q] = q
        BY <1>2, <1>4, <2>1, <2>2, <2>5, <3>2
      <4>2. thread_exit_code[q] = TRUE
        BY <4>1, <1>t, <1>h DEF ExitCodes, TypeOK
      <4> QED BY Zenon, <1>4, <3>2, <4>2
    <3> QED BY ZenonT(30), <3>1, <3>2
  <2> QED BY ZenonT(30), <2>3, <2>4, <2>5, <1>h DEF ExitCodes
<1>11. CommandTask'
  BY <1>2, <1>h DEF CommandTask
<1>12. ReleaseAssert'
  BY <1>0, <1>2, <1>t, <1>h DEF ReleaseAssert, TypeOK, p
<1>13. \A q \in Tid : children'[q] \in SUBSET children[q]
  BY <1>1, <1>t DEF TypeOK
<1>14. ChildLists'
  BY ZenonT(30), <1>2, <1>13, <1>h DEF ChildLists
<1>15. NoZombieLost'
  <2> SUFFICES ASSUME NEW c \in Tid, IsProcess(c)', parent[c] # NoTask,
                      ~cleaned'[process_id[parent[c]]]
               PROVE  c \in children'[process_id[parent[c]]] \cup reaped
    BY <1>2, <1>h DEF NoZombieLost
  <2>1. parent[c] \in Tid /\ process_id[parent[c]] \in Tid
    BY <1>t, <1>h DEF TypeOK, Ids
  <2>2. ~cleaned[process_id[parent[c]]]
    BY ZenonT(60), <1>1, <2>1, <1>t DEF TypeOK
  <2>3. c \in children[process_id[parent[c]]] \cup reaped
    BY <1>2, <2>2, <1>h DEF NoZombieLost
  <2>4. children'[process_id[parent[c]]] = children[process_id[parent[c]]]
    BY <1>1, <2>1, <1>t DEF TypeOK
  <2> QED BY <2>3, <2>4
<1>16. CleanedQuiet'
  <2> SUFFICES ASSUME NEW q \in Tid, cleaned'[q], NEW u \in Tid, process_id[u] = q,
                      Upgradable(u)'
               PROVE  thread_exit_code'[u] /\ InHandler(u)'
    BY Zenon, <1>2 DEF CleanedQuiet
  <2>1. Upgradable(u)
    BY Zenon, <1>5
  <2>2. CASE u = t
    <3>1. sched'[t] # "done"
      BY <2>2 DEF Upgradable
    <3> QED BY Zenon, <1>s, <2>2, <3>1 DEF InHandler
  <2>3. CASE u # t
    <3>1. thread_exit_code'[u] = thread_exit_code[u] /\ handler'[u] = handler[u]
      BY Zenon, <1>4, <2>3
    <3>2. CASE cleaned[q]
      BY Zenon, <2>1, <3>1, <3>2, <1>h DEF CleanedQuiet, InHandler
    <3>3. CASE ~cleaned[q]
      <4>1. CleansUp(t) /\ q = p /\ Remaining(t) = {}
        BY ZenonT(30), <1>1, <3>3, <1>t DEF TypeOK
      <4>2. u \notin threads[q]
        BY Zenon, <1>1, <2>1, <2>3, <4>1
      <4> QED BY Zenon, <2>1, <3>1, <4>2, <1>h DEF ThreadLists, InHandler
    <3> QED BY Zenon, <3>2, <3>3
  <2> QED BY Zenon, <2>2, <2>3
<1> QED BY <1>3, <1>6, <1>7, <1>9, <1>10, <1>11, <1>12, <1>14, <1>15, <1>16 DEF IInv

\* The exit signal to the parent of a task keeps the type of the pending signals.
LEMMA NotifiedType ==
    ASSUME IInv, NEW t \in Tid
    PROVE  /\ Notified(t, pending) \in [Tid -> SUBSET Signals]
           /\ [Notified(t, pending) EXCEPT ![t] = {}] \in [Tid -> SUBSET Signals]
<1>1. NotifySig(t) \in Signals
  <2>1. clone_sig[t] \in CloneSigs \cup {0}
    BY Zenon DEF IInv, TypeOK
  <2>2. NotifySig(t) = SIGCHLD
    BY <2>1, ProcessAssumption DEF NotifySig
  <2> QED BY Zenon, <2>2 DEF Signals
<1>2. pending \in [Tid -> SUBSET Signals]
  BY DEF IInv, TypeOK
<1>3. CASE CleansUp(t) /\ parent[t] # NoTask /\ Upgradable(parent[t])
  <2>1. parent[t] \in Tid
    BY <1>3 DEF IInv, TypeOK
  <2>2. Notified(t, pending) = [pending EXCEPT ![parent[t]] = pending[parent[t]] \cup {NotifySig(t)}]
    BY <1>2, <1>3, <2>1 DEF Notified
  <2> QED BY <1>1, <1>2, <2>1, <2>2
<1>4. CASE ~(CleansUp(t) /\ parent[t] # NoTask /\ Upgradable(parent[t]))
  BY <1>2, <1>4 DEF Notified
<1> QED BY <1>3, <1>4

\* Exit code and exit signal keep their types.
LEMMA EndTypes ==
    ASSUME IInv, NEW t \in Tid, NEW S
    PROVE  /\ \A code \in Codes \cup {0} : EndCode(t, code) \in Codes \cup {0}
           /\ EndSignal(t, S) => exit_signal' \in [Tid -> KillSigs \cup {NoSig}]
<1>1. exit_signal \in [Tid -> KillSigs \cup {NoSig}]
  BY Zenon DEF IInv, TypeOK
<1>2. \A code \in Codes \cup {0} : EndCode(t, code) \in Codes \cup {0}
  BY DEF EndCode
<1>3. ASSUME EndSignal(t, S) PROVE exit_signal' \in [Tid -> KillSigs \cup {NoSig}]
  <2>1. CASE exit_signal' = exit_signal
    BY Zenon, <1>1, <2>1
  <2>2. CASE \E s \in Fatal(S) : exit_signal' = [exit_signal EXCEPT ![process_id[t]] = s]
    <3>1. PICK s \in KillSigs : exit_signal' = [exit_signal EXCEPT ![process_id[t]] = s]
      BY Zenon, <2>2 DEF Fatal
    <3> QED BY ZenonT(30), <1>1, <3>1
  <2> QED BY Zenon, <1>3, <2>1, <2>2 DEF EndSignal
<1> QED BY <1>2, <1>3

\* sys_exit keeps the invariant.
LEMMA SysExitInv ==
    ASSUME IInv, NEW t \in Tid, NEW code \in Codes, sys_exit(t, code)
    PROVE  IInv'
<1>0. Running(t)
  BY Zenon DEF sys_exit
<1>1. /\ sched[t] = "queued" /\ call[t] = Idle /\ call[t].op # "clone"
  BY Zenon, <1>0, RunningFacts
<1>2. /\ Leave(t)
      /\ thread_exit_code' = [thread_exit_code EXCEPT ![t] = TRUE]
      /\ UNCHANGED <<idVars, clone_sig, task_map, command, reaped>>
      /\ call' = call
  BY Zenon DEF sys_exit
<1>3. call' = [call EXCEPT ![t] = Idle] /\ thread_exit_code'[t] = TRUE
  <2>1. call \in [Tid -> Calls] /\ thread_exit_code \in [Tid -> BOOLEAN]
    BY Zenon DEF IInv, TypeOK
  <2> QED BY <1>1, <1>2, <2>1
<1>4. exit_signal' \in [Tid -> KillSigs \cup {NoSig}]
  <2>1. exit_signal \in [Tid -> KillSigs \cup {NoSig}]
    BY Zenon DEF IInv, TypeOK
  <2>2. exit_signal' = exit_signal \/ EndSignal(t, pending[t])
    BY Zenon DEF sys_exit
  <2> QED BY Zenon, <2>1, <2>2, EndTypes
<1>5. pending' \in [Tid -> SUBSET Signals]
  <2>1. pending \in [Tid -> SUBSET Signals]
    BY Zenon DEF IInv, TypeOK
  <2>2. pending' = pending \/ pending' = [Notified(t, pending) EXCEPT ![t] = {}]
    BY Zenon DEF sys_exit
  <2> QED BY Zenon, <2>1, <2>2, NotifiedType
<1>6. PICK c \in Codes \cup {0} : c = EndCode(t, code)
  BY Zenon, EndTypes
<1>7. \/ exit_code' = [exit_code EXCEPT ![process_id[t]] = c]
      \/ exit_code' = exit_code /\ ~CleansUp(t)
  BY Zenon, <1>6 DEF sys_exit, CleansUp
<1>8. \/ /\ sched' = [sched EXCEPT ![t] = "done"]
         /\ handler' = [handler EXCEPT ![t] = NoHandler]
      \/ sched' = sched /\ handler' = handler /\ InHandler(t) /\ ~CleansUp(t)
  BY Zenon DEF sys_exit
<1> QED BY ZenonT(30), <1>1, <1>2, <1>3, <1>4, <1>5, <1>7, <1>8, LeaveInv

\* sys_exit_group keeps it.
LEMMA SysExitGroupInv ==
    ASSUME IInv, NEW t \in Tid, NEW code \in Codes, sys_exit_group(t, code)
    PROVE  IInv'
<1>0. Running(t)
  BY Zenon DEF sys_exit_group
<1>1. /\ sched[t] = "queued" /\ call[t] = Idle /\ call[t].op # "clone"
  BY Zenon, <1>0, RunningFacts
<1>2. /\ Leave(t)
      /\ sched' = [sched EXCEPT ![t] = "done"]
      /\ handler' = [handler EXCEPT ![t] = NoHandler]
      /\ UNCHANGED <<idVars, clone_sig, task_map, command, reaped>>
      /\ call' = call /\ thread_exit_code' = thread_exit_code
  BY DEF sys_exit_group, tcbVars
<1>3. call' = [call EXCEPT ![t] = Idle]
  <2>1. call \in [Tid -> Calls]
    BY Zenon DEF IInv, TypeOK
  <2> QED BY <1>1, <1>2, <2>1
<1>4. exit_signal' \in [Tid -> KillSigs \cup {NoSig}]
  BY Zenon, EndTypes DEF sys_exit_group
<1>5. pending' \in [Tid -> SUBSET Signals]
  BY Zenon, NotifiedType DEF sys_exit_group
<1>6. PICK c \in Codes \cup {0} : c = EndCode(t, code)
  BY Zenon, EndTypes
<1>7. exit_code' = [exit_code EXCEPT ![process_id[t]] = c]
  BY Zenon, <1>6 DEF sys_exit_group
<1> QED BY ZenonT(30), <1>1, <1>2, <1>3, <1>4, <1>5, <1>7, LeaveInv

\* A step that at most ends the calling task, after its exit check or by
\* rt_sigreturn, and changes the call, the handler and the signals of it, leaves
\* the table intact; a task that called exit goes on in a handler only.
LEMMA FinishInv ==
    ASSUME IInv, NEW t \in Tid, sched[t] = "queued", call[t].op # "clone",
           \/ sched' = sched
           \/ sched' = [sched EXCEPT ![t] = "done"] /\ Exited(t)
           \/ sched' = [sched EXCEPT ![t] = "broken"],
           call' \in [Tid -> Calls], call'[t].op # "clone",
           \A u \in Tid : u # t => call'[u] = call[u],
           handler' \in [Tid -> Handlers],
           \A u \in Tid : u # t => handler'[u] = handler[u],
           sched' = sched /\ thread_exit_code[t] => handler'[t].sig # NoSig,
           pending' \in [Tid -> SUBSET Signals],
           UNCHANGED <<idVars, pcbVars, tcbVars, task_map, command, reaped>>
    PROVE  IInv'
<1>t. TypeOK
  BY Zenon DEF IInv
<1>h. /\ Ids /\ ThreadLists /\ ChildLists /\ CloneCalls /\ ExitCodes
      /\ CommandTask /\ ReleaseAssert /\ NoZombieLost /\ CleanedQuiet
  BY Zenon DEF IInv
<1>0. /\ t <= last_id /\ process_id[t] \in Tid /\ IsProcess(process_id[t])
  BY QueuedFacts DEF Upgradable
<1>1. UNCHANGED <<last_id, process_id, parent, children, threads, exit_code, exit_signal,
                  cleaned, thread_exit_code, clone_sig, task_map, command, reaped>>
  BY DEF idVars, pcbVars, tcbVars
<1>s. sched \in [Tid -> Scheds]
  BY Zenon, <1>t DEF TypeOK
<1>2. \A u \in Tid : u # t => sched'[u] = sched[u]
  BY <1>s
<1>3. \/ sched' = sched
      \/ sched'[t] = "done" /\ Exited(t)
      \/ sched'[t] = "broken"
  BY Zenon, <1>s
<1>4. \A u \in Tid : Upgradable(u)' => Upgradable(u) /\ (u = t => sched' = sched)
  <2> SUFFICES ASSUME NEW u \in Tid, Upgradable(u)'
               PROVE  Upgradable(u) /\ (u = t => sched' = sched)
    OBVIOUS
  <2>1. sched'[u] # "done" /\ sched'[u] # "broken"
    BY DEF Upgradable
  <2>2. CASE u = t
    BY Zenon, <1>3, <2>1, <2>2 DEF Upgradable
  <2>3. CASE u # t
    BY Zenon, <1>2, <2>3 DEF Upgradable
  <2> QED BY Zenon, <2>2, <2>3
<1>5. TypeOK'
  <2>1. "done" \in Scheds /\ "broken" \in Scheds
    BY DEF Scheds
  <2>2. sched' \in [Tid -> Scheds]
    BY Zenon, <1>s, <2>1
  <2> QED BY Zenon, <1>1, <2>2, <1>t DEF TypeOK
<1>6. Ids'
  <2>1. ASSUME NEW u \in Tid, u > last_id PROVE sched'[u] = "none"
    <3>1. sched[u] = "none"
      BY Zenon, <2>1, <1>h DEF Ids
    <3>2. u # t
      BY <3>1
    <3> QED BY Zenon, <1>2, <3>1, <3>2
  <2> QED BY Zenon, <1>1, <2>1, <1>h DEF Ids
<1>7. \A u \in Tid : Upgradable(u)' /\ thread_exit_code[u] => InHandler(u)'
  BY Zenon, <1>4, <1>h DEF ThreadLists, InHandler
<1>8. ThreadLists' /\ CleanedQuiet'
  BY Zenon, <1>1, <1>4, <1>7, <1>h DEF ThreadLists, CleanedQuiet
<1>9. CloneCalls'
  <2>1. \A u \in Tid : call[u].op = "clone" => call[u].arg \in Tid
    BY Zenon, <1>t, CloneArg
  <2>2. \A u \in Tid : call'[u].op = "clone" => u # t /\ call'[u] = call[u]
    OBVIOUS
  <2>3. ASSUME NEW u \in Tid, call'[u].op = "clone" PROVE sched'[call'[u].arg] = "new"
    <3>1. sched[call[u].arg] = "new" /\ call[u].arg \in Tid /\ call'[u].arg = call[u].arg
      BY <2>1, <2>2, <2>3, <1>h DEF CloneCalls
    <3> QED BY <1>2, <3>1
  <2>4. ASSUME NEW u \in Tid, NEW v \in Tid, call'[u].op = "clone", call'[v].op = "clone",
               call'[u].arg = call'[v].arg
        PROVE  u = v
    BY <2>2, <2>4, <1>h DEF CloneCalls
  <2> QED BY Zenon, <2>3, <2>4 DEF CloneCalls
<1>10. ExitCodes'
  <2>1. ASSUME NEW q \in Tid, process_id[q] = q, exit_code[q] = NoCode, sched'[q] = "done"
        PROVE  thread_exit_code[q]
    <3>1. CASE q = t
      BY <1>3, <2>1, <3>1 DEF Exited
    <3>2. CASE q # t
      BY Zenon, <1>2, <2>1, <3>2, <1>h DEF ExitCodes, IsProcess
    <3> QED BY Zenon, <3>1, <3>2
  <2> QED BY Zenon, <1>1, <2>1, <1>h DEF ExitCodes, IsProcess
<1>11. CommandTask' /\ ReleaseAssert' /\ ChildLists' /\ NoZombieLost'
  BY <1>1, <1>h DEF CommandTask, ReleaseAssert, ChildLists, NoZombieLost
<1> QED BY <1>5, <1>6, <1>8, <1>9, <1>10, <1>11 DEF IInv

\* check_signal, with the handlers it starts and the exit that a fatal signal
\* brings, keeps it.
LEMMA HandleSignalsInv ==
    ASSUME IInv, NEW t \in Tid, sched[t] = "queued", call[t].op # "clone",
           NEW S \in SUBSET Signals, NEW outer \in {Idle} \cup Wait4Calls,
           HandleSignals(t, S, outer), UNCHANGED signalSame
    PROVE  IInv'
<1>0. /\ call \in [Tid -> Calls] /\ handler \in [Tid -> Handlers]
      /\ pending \in [Tid -> SUBSET Signals] /\ thread_exit_code \in [Tid -> BOOLEAN]
  BY Zenon DEF IInv, TypeOK
<1>1. /\ UNCHANGED <<idVars, tcbVars, task_map, command, reaped>>
      /\ UNCHANGED <<clone_sig, thread_exit_code>>
  BY DEF signalSame, tcbVars
<1>2. Idle \in Calls /\ Idle.op # "clone" /\ NoHandler \in Handlers
  BY DEF Calls, Idle, NoHandler, Handlers
<1>3. outer \in Calls /\ outer.op # "clone"
  BY DEF Calls, Idle, Wait4Calls
<1>4. ASSUME NEW h \in CatchSigs,
             handler' = [handler EXCEPT ![t] = [sig |-> h, call |-> outer]],
             call' = [call EXCEPT ![t] = Idle],
             pending' = [pending EXCEPT ![t] = {s \in S : s >= h}],
             UNCHANGED <<pcbVars, sched>>
      PROVE  IInv'
  <2>1. [sig |-> h, call |-> outer] \in Handlers /\ h # NoSig
    BY ProcessAssumption DEF Handlers
  <2>2. /\ handler' \in [Tid -> Handlers] /\ handler'[t].sig # NoSig
        /\ \A u \in Tid : u # t => handler'[u] = handler[u]
    <3>1. handler'[t] = [sig |-> h, call |-> outer]
      BY Zenon, <1>0, <1>4
    <3> QED BY <1>0, <1>4, <2>1, <3>1
  <2>3. /\ call' \in [Tid -> Calls] /\ call'[t].op # "clone"
        /\ \A u \in Tid : u # t => call'[u] = call[u]
    BY <1>0, <1>2, <1>4
  <2>4. pending' \in [Tid -> SUBSET Signals]
    BY ZenonT(30), <1>0, <1>4
  <2>5. sched' = sched /\ UNCHANGED pcbVars
    BY Zenon, <1>4
  <2> QED BY Zenon, <1>1, <2>2, <2>3, <2>4, <2>5, FinishInv
<1>5. ASSUME handler' = [handler EXCEPT ![t] = NoHandler], Leave(t),
             exit_code' = [exit_code EXCEPT ![process_id[t]] = 0], EndSignal(t, S),
             pending' = [Notified(t, pending) EXCEPT ![t] = {}],
             sched' = [sched EXCEPT ![t] = "done"], call' = [call EXCEPT ![t] = Idle]
      PROVE  IInv'
  <2>1. exit_signal' \in [Tid -> KillSigs \cup {NoSig}]
    BY Zenon, <1>5, EndTypes
  <2>2. pending' \in [Tid -> SUBSET Signals]
    BY Zenon, <1>5, NotifiedType
  <2>3. 0 \in Codes \cup {0}
    OBVIOUS
  <2> QED BY ZenonT(30), <1>1, <1>5, <2>1, <2>2, <2>3, LeaveInv
<1>6. ASSUME handler' = [handler EXCEPT ![t] = NoHandler],
             pending' = [pending EXCEPT ![t] = {}], UNCHANGED pcbVars,
             \/ Exited(t) /\ sched' = [sched EXCEPT ![t] = "done"]
                /\ call' = [call EXCEPT ![t] = Idle]
             \/ ~Exited(t) /\ sched' = sched /\ call' = [call EXCEPT ![t] = outer]
      PROVE  IInv'
  <2>1. /\ call' \in [Tid -> Calls] /\ call'[t].op # "clone"
        /\ \A u \in Tid : u # t => call'[u] = call[u]
    BY <1>0, <1>2, <1>3, <1>6
  <2>2. /\ handler' \in [Tid -> Handlers]
        /\ \A u \in Tid : u # t => handler'[u] = handler[u]
    BY Zenon, <1>0, <1>2, <1>6
  <2>3. pending' \in [Tid -> SUBSET Signals]
    BY ZenonT(30), <1>0, <1>6
  <2>4. ~Exited(t) => ~thread_exit_code[t]
    BY Zenon DEF Exited
  <2>5. sched[t] # "done"
    OBVIOUS
  <2>6. sched \in [Tid -> Scheds]
    BY Zenon DEF IInv, TypeOK
  <2>7. sched' = sched => ~Exited(t)
    BY <1>6, <2>5, <2>6
  <2>8. \/ sched' = sched
        \/ sched' = [sched EXCEPT ![t] = "done"] /\ Exited(t)
    BY Zenon, <1>6
  <2>9. sched' = sched /\ thread_exit_code[t] => handler'[t].sig # NoSig
    BY Zenon, <2>4, <2>7
  <2> QED BY ZenonT(30), <1>1, <1>6, <2>1, <2>2, <2>3, <2>8, <2>9, FinishInv
<1> QED BY ZenonT(30), <1>4, <1>5, <1>6 DEF HandleSignals, CheckThreadExit

\* So do the signal check of entry_point and the end of a handler,
LEMMA CheckSignalsInv ==
    ASSUME IInv, NEW t \in Tid, CheckSignals(t) \/ HandlerEnds(t)
    PROVE  IInv'
<1>0. /\ call \in [Tid -> Calls] /\ handler \in [Tid -> Handlers]
      /\ pending \in [Tid -> SUBSET Signals]
  BY Zenon DEF IInv, TypeOK
<1>1. Idle.op # "clone"
  BY DEF Idle
<1>2. CASE CheckSignals(t)
  <2>1. /\ sched[t] = "queued" /\ HandleSignals(t, pending[t], call[t]) /\ UNCHANGED signalSame
        /\ call[t] = Idle \/ call[t].op = "wait4"
    BY Zenon, <1>2 DEF CheckSignals, Blocked, Waits
  <2>2. call[t].op # "clone"
    BY <1>1, <2>1
  <2>3. call[t] \in {Idle} \cup Wait4Calls
    <3>1. call[t] \in Calls
      BY Zenon, <1>0
    <3> QED BY <2>1, <3>1 DEF Calls
  <2>4. pending[t] \in SUBSET Signals
    BY Zenon, <1>0
  <2> QED BY Zenon, <2>1, <2>2, <2>3, <2>4, HandleSignalsInv
<1>3. CASE HandlerEnds(t)
  <2>1. /\ sched[t] = "queued" /\ call[t] = Idle /\ UNCHANGED signalSame
        /\ HandleSignals(t, pending[t] \ {handler[t].sig}, handler[t].call)
    BY Zenon, <1>3 DEF HandlerEnds, Polled
  <2>2. call[t].op # "clone"
    BY Zenon, <1>1, <2>1
  <2>3. handler[t].call \in {Idle} \cup Wait4Calls
    <3>1. handler[t] \in Handlers
      BY Zenon, <1>0
    <3> QED BY <3>1 DEF Handlers
  <2>4. pending[t] \ {handler[t].sig} \in SUBSET Signals
    BY Zenon, <1>0
  <2> QED BY Zenon, <2>1, <2>2, <2>3, <2>4, HandleSignalsInv
<1> QED BY <1>2, <1>3

\* and rt_sigreturn outside a handler.
LEMMA SigreturnInv ==
    ASSUME IInv, NEW t \in Tid, sys_rt_sigreturn(t)
    PROVE  IInv'
<1>1. Running(t) /\ sched' = [sched EXCEPT ![t] = "broken"]
      /\ UNCHANGED <<idVars, pcbVars, tcbVars, pending, call, handler, task_map, command, reaped>>
  BY Zenon DEF sys_rt_sigreturn
<1>2. sched[t] = "queued" /\ call[t].op # "clone"
  BY Zenon, <1>1, RunningFacts
<1>3. /\ call \in [Tid -> Calls] /\ handler \in [Tid -> Handlers]
      /\ pending \in [Tid -> SUBSET Signals] /\ sched \in [Tid -> Scheds]
  BY Zenon DEF IInv, TypeOK
<1>4. sched' # sched
  <2>1. sched'[t] = "broken"
    BY Zenon, <1>1, <1>3
  <2> QED BY <1>2, <2>1
<1>5. UNCHANGED <<idVars, pcbVars, tcbVars, task_map, command, reaped>>
      /\ call' = call /\ handler' = handler /\ pending' = pending
  BY Zenon, <1>1
<1> QED BY Zenon, <1>1, <1>2, <1>3, <1>4, <1>5, FinishInv

\* Facts about the id a clone or command() hands out.
LEMMA FreshFacts ==
    ASSUME NEW n, n = last_id + 1, IInv, last_id < MaxTask
    PROVE  /\ n \in Tid /\ process_id[n] = NoTask /\ sched[n] = "none"
           /\ parent[n] = NoTask /\ children[n] = {} /\ threads[n] = {}
           /\ exit_code[n] = NoCode /\ cleaned[n] = FALSE
           /\ thread_exit_code[n] = FALSE /\ n \notin reaped
           /\ \A p \in Tid : n \notin children[p] /\ n \notin threads[p]
           /\ \A t \in Tid : process_id[t] # n /\ parent[t] # n
           /\ \A t \in Tid : call[t].op = "clone" => call[t].arg # n
           /\ n # command
<1>1. n \in Tid /\ n > last_id
  BY DEF IInv, TypeOK
<1>2. /\ process_id[n] = NoTask /\ sched[n] = "none" /\ parent[n] = NoTask
      /\ children[n] = {} /\ threads[n] = {} /\ exit_code[n] = NoCode
      /\ cleaned[n] = FALSE /\ thread_exit_code[n] = FALSE /\ n \notin reaped
  BY <1>1 DEF IInv, Ids, TypeOK
<1>3. \A p \in Tid : n \notin children[p] /\ n \notin threads[p]
  BY <1>1, <1>2 DEF IInv, ChildLists, ThreadLists
<1>4. \A t \in Tid : process_id[t] # n /\ parent[t] # n
  <2> SUFFICES ASSUME NEW t \in Tid PROVE process_id[t] # n /\ parent[t] # n
    OBVIOUS
  <2>1. n # NoTask /\ ~(n <= last_id)
    BY <1>1 DEF IInv, TypeOK
  <2>2. process_id[t] = n => process_id[n] = n
    BY Zenon, <2>1 DEF IInv, Ids
  <2>3. parent[t] = n => n <= last_id
    BY Zenon, <2>1 DEF IInv, Ids
  <2> QED BY Zenon, <1>2, <2>1, <2>2, <2>3
<1>5. \A t \in Tid : call[t].op = "clone" => call[t].arg # n
  BY <1>2 DEF IInv, CloneCalls
<1>6. n # command
  BY <1>1, <1>2 DEF IInv, CommandTask
<1> QED BY <1>1, <1>2, <1>3, <1>4, <1>5, <1>6

\* clone with CLONE_THREAD keeps it.
LEMMA CloneThreadInv ==
    ASSUME IInv, NEW t \in Tid, NEW sig \in CloneSigs, sys_clone_thread(t, sig)
    PROVE  IInv'
<1> DEFINE p == process_id[t]
<1>0. PICK n : n = last_id + 1
  OBVIOUS
<1>f. last_id < MaxTask
  BY DEF sys_clone_thread
<1>g. /\ n \in Tid /\ process_id[n] = NoTask /\ sched[n] = "none"
      /\ parent[n] = NoTask /\ children[n] = {} /\ threads[n] = {}
      /\ exit_code[n] = NoCode /\ cleaned[n] = FALSE
      /\ thread_exit_code[n] = FALSE /\ n \notin reaped
      /\ \A q \in Tid : n \notin children[q] /\ n \notin threads[q]
      /\ \A u \in Tid : process_id[u] # n /\ parent[u] # n
      /\ \A u \in Tid : call[u].op = "clone" => call[u].arg # n
      /\ n # command
  BY ZenonT(30), <1>0, <1>f, FreshFacts
<1>t. TypeOK
  BY Zenon DEF IInv
<1>h. /\ Ids /\ ThreadLists /\ ChildLists /\ CloneCalls /\ ExitCodes
      /\ CommandTask /\ ReleaseAssert /\ NoZombieLost /\ CleanedQuiet
  BY Zenon DEF IInv
<1>1. /\ sched[t] = "queued" /\ call[t] = Idle /\ Upgradable(t) /\ last_id < MaxTask
      /\ last_id' = n
      /\ process_id' = [process_id EXCEPT ![n] = p]
      /\ parent' = [parent EXCEPT ![n] = parent[t]]
      /\ threads' = [threads EXCEPT ![p] = {u \in threads[p] : Upgradable(u)} \cup {n}]
      /\ clone_sig' = [clone_sig EXCEPT ![n] = sig]
      /\ sched' = [sched EXCEPT ![n] = "new"]
      /\ call' = [call EXCEPT ![t] = [op |-> "clone", arg |-> n]]
      /\ UNCHANGED <<children, exit_code, exit_signal, cleaned, thread_exit_code,
                     pending, handler, task_map, command, reaped>>
  <2>1. threads' = [threads EXCEPT ![p] = {u \in threads[p] : Upgradable(u)} \cup {n}]
    BY <1>0, <1>t DEF sys_clone_thread, TypeOK
  <2>2. Running(t)
    BY Zenon DEF sys_clone_thread
  <2>3. sched[t] = "queued" /\ call[t] = Idle
    BY Zenon, <2>2, RunningFacts
  <2> QED BY <1>0, <2>1, <2>3 DEF sys_clone_thread, Upgradable
<1>2. /\ t <= last_id /\ p \in Tid /\ process_id[p] = p /\ ~cleaned[p]
  <2>1. Running(t)
    BY Zenon DEF sys_clone_thread
  <2> QED BY Zenon, <1>1, <2>1, QueuedFacts, RunningFacts DEF IsProcess
<1>3. last_id \in Nat
  BY <1>t DEF TypeOK
<1> HIDE DEF p
<1>4. n # p /\ n # t
  <2>1. p # NoTask
    BY <1>2
  <2>2. ~(n <= last_id)
    BY <1>0, <1>3
  <2> QED BY Zenon, <1>2, <1>g, <2>1, <2>2
<1>5. TypeOK'
  <2>1. [op |-> "clone", arg |-> n] \in Calls
    BY <1>3, <1>g DEF Calls
  <2>2. last_id' \in 0 .. MaxTask
    BY <1>1, <1>3, <1>g
  <2>3. threads' \in [Tid -> SUBSET Tid]
    BY <1>1, <1>2, <1>3, <1>g, <1>t DEF TypeOK
  <2>4. process_id' \in [Tid -> Tid \cup {NoTask}] /\ parent' \in [Tid -> Tid \cup {NoTask}]
    BY ZenonT(30), <1>1, <1>2, <1>t DEF TypeOK
  <2>5. call' \in [Tid -> Calls] /\ sched' \in [Tid -> Scheds]
    BY ZenonT(30), <1>1, <2>1, <1>t DEF TypeOK, Scheds
  <2>6. clone_sig' \in [Tid -> CloneSigs \cup {0}]
    BY ZenonT(30), <1>1, <1>t DEF TypeOK
  <2> QED BY ZenonT(60), <1>1, <2>2, <2>3, <2>4, <2>5, <2>6, <1>t DEF TypeOK
<1>6. /\ \A u \in Tid : process_id'[u] = IF u = n THEN p ELSE process_id[u]
      /\ \A u \in Tid : parent'[u] = IF u = n THEN parent[t] ELSE parent[u]
      /\ \A u \in Tid : sched'[u] = IF u = n THEN "new" ELSE sched[u]
      /\ \A q \in Tid : q # p => threads'[q] = threads[q]
      /\ threads'[p] = {u \in threads[p] : Upgradable(u)} \cup {n}
  BY <1>1, <1>2, <1>3, <1>g, <1>t DEF TypeOK
<1>7. \A u \in Tid : Upgradable(u)' <=> u = n \/ Upgradable(u)
  BY <1>6 DEF Upgradable
<1>8. n = last_id + 1 /\ last_id' = n
  BY Zenon, <1>0, <1>1
<1>9. Ids'
  <2>1. ASSUME NEW u \in Tid, u > last_id'
        PROVE  /\ process_id'[u] = NoTask /\ sched'[u] = "none" /\ parent'[u] = NoTask
               /\ children'[u] = {} /\ threads'[u] = {} /\ exit_code'[u] = NoCode
               /\ ~cleaned'[u] /\ ~thread_exit_code'[u] /\ u \notin reaped'
    <3>1. u # n /\ u # p /\ u > last_id
      <4>1. u # n /\ u > last_id
        BY <1>3, <1>8, <2>1
      <4>2. process_id[u] = NoTask
        BY Zenon, <4>1, <1>h DEF Ids
      <4>3. p # NoTask
        BY <1>2
      <4> QED BY Zenon, <1>2, <4>1, <4>2, <4>3
    <3> QED BY SMTT(30), <1>1, <1>6, <3>1, <1>h DEF Ids
  <2>2. ASSUME NEW u \in Tid, u <= last_id' PROVE process_id'[u] # NoTask
    <3>1. u = n \/ u <= last_id
      BY <1>3, <1>8, <2>2
    <3>2. u <= last_id => process_id[u] # NoTask
      BY Zenon, <1>h DEF Ids
    <3>3. process_id'[u] = IF u = n THEN p ELSE process_id[u]
      BY Zenon, <1>6
    <3>4. p # NoTask
      BY <1>2
    <3> QED BY Zenon, <3>1, <3>2, <3>3, <3>4
  <2>3. ASSUME NEW u \in Tid, process_id'[u] # NoTask
        PROVE  process_id'[process_id'[u]] = process_id'[u]
    <3>1. CASE u = n
      BY <1>2, <1>4, <1>6, <1>g, <3>1
    <3>2. CASE u # n
      <4> DEFINE q == process_id[u]
      <4>1. process_id'[u] = q /\ q \in Tid /\ process_id[q] = q /\ q # n
        <5>1. process_id'[u] = q /\ q # NoTask
          BY Zenon, <1>6, <2>3, <3>2
        <5>2. q \in Tid \cup {NoTask}
          BY ZenonT(60), <1>t DEF TypeOK
        <5>3. process_id[q] = q
          BY Zenon, <5>1, <1>h DEF Ids, IsProcess
        <5> QED BY Zenon, <1>g, <5>1, <5>2, <5>3
      <4> HIDE DEF q
      <4> QED BY <1>6, <4>1
    <3> QED BY <3>1, <3>2
  <2>4. ASSUME NEW u \in Tid, parent'[u] # NoTask PROVE parent'[u] <= last_id'
    <3>1. PICK v \in Tid : parent'[u] = parent[v]
      BY Zenon, <1>6
    <3>2. parent[v] \in Tid \cup {NoTask} /\ parent[v] # NoTask
      BY Zenon, <2>4, <3>1, <1>t DEF TypeOK
    <3>3. parent[v] <= last_id
      BY Zenon, <3>2, <1>h DEF Ids
    <3> QED BY <1>3, <1>8, <3>1, <3>2, <3>3
  <2> QED BY Zenon, <2>1, <2>2, <2>3, <2>4, <1>h DEF Ids
<1>10. ThreadLists'
  <2>e. thread_exit_code' = thread_exit_code /\ handler' = handler
    BY Zenon, <1>1
  <2>1. ASSUME NEW u \in Tid, Upgradable(u)', ~thread_exit_code[u]
        PROVE  u \in threads'[process_id'[u]]
    <3>1. CASE u = n
      BY <1>4, <1>6, <1>g, <3>1
    <3>2. CASE u # n
      <4>1. Upgradable(u) /\ process_id'[u] = process_id[u] /\ u \in threads[process_id[u]]
        BY <1>6, <1>7, <2>1, <3>2, <1>h DEF ThreadLists
      <4>2. process_id[u] \in Tid
        BY <4>1, QueuedFacts
      <4>3. CASE process_id[u] = p
        BY <1>6, <4>1, <4>3
      <4>4. CASE process_id[u] # p
        BY <1>6, <4>1, <4>2, <4>4
      <4> QED BY <4>3, <4>4
    <3> QED BY <3>1, <3>2
  <2>2. ASSUME NEW q \in Tid, NEW u \in threads'[q] PROVE process_id'[u] = q
    <3>1. CASE u = n
      BY <1>2, <1>6, <1>g, <3>1
    <3>2. CASE u # n
      <4>1. u \in threads[q] /\ u \in Tid
        <5>1. u \in threads[q]
          BY Zenon, <1>2, <1>6, <2>2, <3>2
        <5>2. threads[q] \in SUBSET Tid
          BY Zenon, <1>t DEF TypeOK
        <5> QED BY Zenon, <5>1, <5>2
      <4> QED BY <1>6, <3>2, <4>1, <1>h DEF ThreadLists
    <3> QED BY <3>1, <3>2
  <2>3. ASSUME NEW u \in Tid, Upgradable(u)', thread_exit_code[u] PROVE InHandler(u)
    <3>1. u # n
      BY Zenon, <1>g, <2>3
    <3>2. Upgradable(u)
      BY Zenon, <1>7, <2>3, <3>1
    <3> QED BY Zenon, <2>3, <3>2, <1>h DEF ThreadLists
  <2> QED BY Zenon, <2>1, <2>2, <2>3, <2>e DEF ThreadLists, InHandler
<1>11. CloneCalls'
  <2>1. \A u \in Tid : call'[u] = IF u = t THEN [op |-> "clone", arg |-> n] ELSE call[u]
    BY <1>1, <1>t DEF TypeOK
  <2>2. \A u \in Tid : call[u].op = "clone" => call[u].arg \in Tid
    BY Zenon, <1>t, CloneArg
  <2>3. call'[t].op = "clone" /\ call'[t].arg = n
    BY <2>1
  <2>4. \A u \in Tid : u # t => call'[u] = call[u]
    BY Zenon, <2>1
  <2>5. ASSUME NEW u \in Tid, call'[u].op = "clone" PROVE sched'[call'[u].arg] = "new"
    <3>1. CASE u = t
      BY Zenon, <1>6, <1>g, <2>3, <3>1
    <3>2. CASE u # t
      <4>1. call'[u] = call[u] /\ call[u].op = "clone" /\ call[u].arg \in Tid
        BY Zenon, <2>2, <2>4, <2>5, <3>2
      <4>2. sched[call[u].arg] = "new"
        BY Zenon, <4>1, <1>h DEF CloneCalls
      <4> QED BY ZenonT(60), <1>6, <4>1, <4>2
    <3> QED BY <3>1, <3>2
  <2>6. ASSUME NEW u \in Tid, NEW v \in Tid, call'[u].op = "clone", call'[v].op = "clone",
               call'[u].arg = call'[v].arg
        PROVE  u = v
    <3>1. CASE u # t /\ v # t
      BY Zenon, <2>4, <2>6, <3>1, <1>h DEF CloneCalls
    <3>2. CASE u = t \/ v = t
      BY ZenonT(60), <1>g, <2>3, <2>4, <2>6, <3>2
    <3> QED BY <3>1, <3>2
  <2> QED BY Zenon, <2>5, <2>6, <1>h DEF CloneCalls
<1>12. ExitCodes'
  <2>1. exit_code' = exit_code /\ cleaned' = cleaned /\ thread_exit_code' = thread_exit_code
    BY Zenon, <1>1
  <2>2. ASSUME NEW q \in Tid PROVE process_id'[q] = q <=> process_id[q] = q
    <3>1. CASE q = n
      <4>1. process_id'[n] = p /\ process_id[n] # n
        BY Zenon, <1>6, <1>g
      <4> QED BY Zenon, <1>4, <3>1, <4>1
    <3>2. CASE q # n
      BY Zenon, <1>6, <3>2
    <3> QED BY Zenon, <3>1, <3>2
  <2>3. ASSUME NEW q \in Tid, sched'[q] = "done" PROVE sched[q] = "done"
    <3>1. q # n
      BY <1>6, <1>g, <2>3
    <3> QED BY Zenon, <1>6, <2>3, <3>1
  <2> QED BY Zenon, <2>1, <2>2, <2>3, <1>h DEF ExitCodes, IsProcess
<1>13. CommandTask' /\ ReleaseAssert'
  <2>1. command' = command /\ reaped' = reaped /\ exit_code' = exit_code
    BY Zenon, <1>1
  <2>2. command \in Tid \cup {NoTask}
    BY Zenon, <1>t DEF TypeOK
  <2>3. CommandTask'
    BY Zenon, <1>6, <1>g, <2>1, <2>2, <1>h DEF CommandTask, IsProcess
  <2> QED BY Zenon, <2>1, <2>3, <1>h DEF ReleaseAssert
<1>14. ChildLists'
  <2> SUFFICES ASSUME NEW q \in Tid, NEW c \in children[q]
               PROVE  /\ process_id'[c] = c /\ c \notin reaped
                      /\ parent'[c] # NoTask /\ process_id'[parent'[c]] = q
    BY <1>1, <1>h DEF ChildLists
  <2>1. /\ c \in Tid /\ c # n /\ process_id[c] = c /\ c \notin reaped
        /\ parent[c] # NoTask /\ process_id[parent[c]] = q
    BY <1>3, <1>g, <1>t, <1>h DEF ChildLists, TypeOK
  <2>2. parent[c] \in Tid
    <3>1. parent[c] \in Tid \cup {NoTask}
      BY Zenon, <2>1, <1>t DEF TypeOK
    <3> QED BY Zenon, <2>1, <3>1
  <2>3. parent[c] # n
    BY Zenon, <1>g, <2>1
  <2> QED BY Zenon, <1>6, <2>1, <2>2, <2>3
<1>15. NoZombieLost'
  <2> SUFFICES ASSUME NEW c \in Tid, process_id'[c] = c, parent'[c] # NoTask,
                      ~cleaned[process_id'[parent'[c]]]
               PROVE  c \in children[process_id'[parent'[c]]] \cup reaped
    BY <1>1, <1>h DEF NoZombieLost
  <2>1. c # n /\ process_id[c] = c /\ parent'[c] = parent[c] /\ parent[c] \in Tid
    <3>1. c # n /\ process_id[c] = c /\ parent'[c] = parent[c]
      BY Zenon, <1>4, <1>6
    <3>2. parent[c] \in Tid \cup {NoTask}
      BY Zenon, <1>t DEF TypeOK
    <3> QED BY <3>1, <3>2
  <2>2. process_id'[parent[c]] = process_id[parent[c]]
    BY <1>3, <1>g, <1>6, <2>1
  <2> QED BY <2>1, <2>2, <1>h DEF NoZombieLost
<1>16. CleanedQuiet'
  <2> SUFFICES ASSUME NEW q \in Tid, cleaned[q], NEW u \in Tid, process_id'[u] = q,
                      Upgradable(u)'
               PROVE  thread_exit_code[u] /\ InHandler(u)
    BY Zenon, <1>1 DEF CleanedQuiet, InHandler
  <2>1. u # n /\ process_id[u] = q
    BY Zenon, <1>2, <1>6
  <2>2. Upgradable(u)
    BY Zenon, <1>7, <2>1
  <2> QED BY Zenon, <2>1, <2>2, <1>h DEF CleanedQuiet
<1> QED BY <1>5, <1>9, <1>10, <1>11, <1>12, <1>13, <1>14, <1>15, <1>16 DEF IInv

\* What cow_fork (m is the forking task) and command() (no parent) share: a
\* new process n of one thread.
LEMMA NewProcessInv ==
    ASSUME IInv, NEW n, n = last_id + 1, NEW m \in Tid \cup {NoTask},
           NEW s \in {"new", "queued"}, NEW sig \in CloneSigs \cup {0},
           \/ m \in Tid /\ s = "new" /\ sys_clone_fork(m, sig)
           \/ m = NoTask /\ s = "queued" /\ command_start
    PROVE  IInv'
<1>r. m # NoTask => m \in Tid /\ Running(m)
  BY DEF sys_clone_fork
<1>a. last_id < MaxTask /\ (m # NoTask => sched[m] = "queued" /\ ~cleaned[process_id[m]])
  <2>1. last_id < MaxTask
    BY SMTT(30) DEF sys_clone_fork, command_start
  <2> QED BY Zenon, <1>r, <2>1, RunningFacts
<1>1. /\ n \in Tid /\ process_id[n] = NoTask /\ sched[n] = "none"
      /\ parent[n] = NoTask /\ children[n] = {} /\ threads[n] = {}
      /\ exit_code[n] = NoCode /\ cleaned[n] = FALSE
      /\ thread_exit_code[n] = FALSE /\ n \notin reaped
      /\ \A q \in Tid : n \notin children[q] /\ n \notin threads[q]
      /\ \A u \in Tid : process_id[u] # n /\ parent[u] # n
      /\ \A u \in Tid : call[u].op = "clone" => call[u].arg # n
      /\ n # command
  BY ZenonT(30), <1>a, FreshFacts
<1>2. m # NoTask => /\ m \in Tid /\ m <= last_id /\ process_id[m] \in Tid
                    /\ process_id[process_id[m]] = process_id[m]
                    /\ ~cleaned[process_id[m]] /\ m # n
  <2> SUFFICES ASSUME m # NoTask
               PROVE  /\ m \in Tid /\ m <= last_id /\ process_id[m] \in Tid
                      /\ process_id[process_id[m]] = process_id[m]
                      /\ ~cleaned[process_id[m]] /\ m # n
    OBVIOUS
  <2>1. m \in Tid /\ Upgradable(m) /\ ~cleaned[process_id[m]]
    BY <1>a, <1>r DEF Upgradable
  <2>2. m <= last_id /\ process_id[m] \in Tid /\ process_id[process_id[m]] = process_id[m]
    BY Zenon, <2>1, QueuedFacts DEF IsProcess
  <2>3. m # n
    <3>1. process_id[m] # NoTask
      BY <2>2
    <3> QED BY Zenon, <1>1, <3>1
  <2> QED BY <2>1, <2>2, <2>3
<1>t. TypeOK
  BY DEF IInv
<1>b. /\ last_id' = n
      /\ process_id' = [process_id EXCEPT ![n] = n]
      /\ threads' = [threads EXCEPT ![n] = {n}]
      /\ sched' = [sched EXCEPT ![n] = s]
      /\ UNCHANGED <<exit_code, exit_signal, cleaned, thread_exit_code, pending, handler,
                     reaped>>
  BY DEF sys_clone_fork, command_start, tcbVars
<1>c. parent' = [parent EXCEPT ![n] = m]
  <2>1. CASE m \in Tid /\ s = "new" /\ sys_clone_fork(m, sig)
    BY <2>1 DEF sys_clone_fork
  <2>2. CASE m = NoTask /\ s = "queued" /\ command_start
    BY <1>1, <1>t, <2>2 DEF command_start, TypeOK
  <2> QED BY <2>1, <2>2
<1>d. /\ children' \in [Tid -> SUBSET Tid]
      /\ \A q \in Tid : children'[q] = IF m # NoTask /\ q = process_id[m]
                                       THEN children[q] \cup {n} ELSE children[q]
  <2>0. children \in [Tid -> SUBSET Tid]
    BY <1>t DEF TypeOK
  <2>1. CASE m \in Tid /\ s = "new" /\ sys_clone_fork(m, sig)
    <3>1. children' = [children EXCEPT ![process_id[m]] = @ \cup {n}]
      BY <2>1 DEF sys_clone_fork
    <3>2. m # NoTask
      BY <2>1
    <3> QED BY ZenonT(30), <1>1, <1>2, <2>0, <3>1, <3>2
  <2>2. CASE m = NoTask /\ s = "queued" /\ command_start
    <3>1. children' = children
      BY <2>2 DEF command_start
    <3> QED BY <2>0, <2>2, <3>1
  <2> QED BY ZenonT(30), <2>1, <2>2
<1>e. clone_sig' \in [Tid -> CloneSigs \cup {0}] /\ task_map' \in SUBSET Tid
  <2>0. clone_sig \in [Tid -> CloneSigs \cup {0}] /\ task_map \in SUBSET Tid
    BY <1>t DEF TypeOK
  <2>1. CASE m \in Tid /\ s = "new" /\ sys_clone_fork(m, sig)
    <3>1. clone_sig' = [clone_sig EXCEPT ![n] = sig] /\ task_map' = task_map
      BY <2>1 DEF sys_clone_fork
    <3> QED BY ZenonT(30), <2>0, <3>1
  <2>2. CASE m = NoTask /\ s = "queued" /\ command_start
    BY ZenonT(30), <1>1, <2>0, <2>2 DEF command_start, tcbVars
  <2> QED BY <2>1, <2>2
<1>f. call' \in [Tid -> Calls] /\ CloneCalls'
  <2>1. /\ \A u \in Tid : call[u].op = "clone" => call[u].arg \in Tid
        /\ call \in [Tid -> Calls] /\ sched \in [Tid -> Scheds]
        /\ CloneCalls
    BY ZenonT(30), <1>t, CloneArg DEF IInv, TypeOK
  <2>2. \A u \in Tid : sched'[u] = IF u = n THEN s ELSE sched[u]
    BY ZenonT(30), <1>b, <2>1
  <2>3. CASE m \in Tid /\ s = "new" /\ sys_clone_fork(m, sig)
    <3>1. call' = [call EXCEPT ![m] = [op |-> "clone", arg |-> n]]
      BY <2>3 DEF sys_clone_fork
    <3>2. [op |-> "clone", arg |-> n] \in Calls
      BY <1>1 DEF Calls
    <3>3. \A u \in Tid : call'[u] = IF u = m THEN [op |-> "clone", arg |-> n] ELSE call[u]
      BY <2>1, <2>3, <3>1
    <3>4. call' \in [Tid -> Calls]
      BY ZenonT(30), <2>1, <3>1, <3>2
    <3>5. ASSUME NEW u \in Tid, call'[u].op = "clone"
          PROVE  call'[u].arg = (IF u = m THEN n ELSE call[u].arg) /\ sched'[call'[u].arg] = "new"
      <4>1. CASE u = m
        BY <1>1, <2>2, <2>3, <3>3, <4>1
      <4>2. CASE u # m
        <5>1. call'[u] = call[u] /\ call[u].arg \in Tid /\ call[u].arg # n
          BY <1>1, <2>1, <3>3, <3>5, <4>2
        <5>2. sched[call[u].arg] = "new"
          BY <2>1, <3>5, <5>1 DEF CloneCalls
        <5> QED BY <2>2, <4>2, <5>1, <5>2
      <4> QED BY <4>1, <4>2
    <3>6. ASSUME NEW u \in Tid, NEW v \in Tid, call'[u].op = "clone", call'[v].op = "clone",
                 call'[u].arg = call'[v].arg
          PROVE  u = v
      <4>1. CASE u # m /\ v # m
        BY <2>1, <3>3, <3>6, <4>1 DEF CloneCalls
      <4>2. CASE u = m \/ v = m
        <5>1. \A w \in Tid : w # m /\ call'[w].op = "clone" => call'[w].arg # n
          BY <1>1, <3>3
        <5>2. call'[m].arg = n
          BY <2>3, <3>3
        <5> QED BY <3>6, <4>2, <5>1, <5>2
      <4> QED BY <4>1, <4>2
    <3> QED BY Zenon, <3>4, <3>5, <3>6 DEF CloneCalls
  <2>4. CASE m = NoTask /\ s = "queued" /\ command_start
    <3>1. call' = call
      BY <2>4 DEF command_start
    <3> QED BY Zenon, <1>1, <2>1, <2>2, <3>1 DEF CloneCalls
  <2> QED BY <2>3, <2>4
<1>g. command' = command \/ (command' = n /\ m = NoTask)
  BY Zenon DEF sys_clone_fork, command_start
<1>h. /\ Ids /\ ThreadLists /\ ExitCodes /\ CommandTask /\ ReleaseAssert
      /\ ChildLists /\ NoZombieLost /\ CleanedQuiet
  BY DEF IInv
<1>u. /\ exit_code' = exit_code /\ cleaned' = cleaned /\ reaped' = reaped
      /\ thread_exit_code' = thread_exit_code /\ handler' = handler /\ last_id' = n
  BY <1>b
<1>n. n \in Tid
  BY <1>1
<1>3. last_id \in Nat
  BY <1>t DEF TypeOK
<1>4. /\ \A u \in Tid : process_id'[u] = IF u = n THEN n ELSE process_id[u]
      /\ \A u \in Tid : parent'[u] = IF u = n THEN m ELSE parent[u]
      /\ \A u \in Tid : sched'[u] = IF u = n THEN s ELSE sched[u]
      /\ \A q \in Tid : threads'[q] = IF q = n THEN {n} ELSE threads[q]
  BY Zenon, <1>1, <1>b, <1>c, <1>t DEF TypeOK
<1>5. \A u \in Tid : Upgradable(u)' <=> u = n \/ Upgradable(u)
  BY <1>4 DEF Upgradable
<1>6. TypeOK'
  <2>2. last_id' \in 0 .. MaxTask
    <3>1. last_id' = n
      BY Zenon, <1>u
    <3>2. n \in 0 .. MaxTask
      BY <1>n
    <3> QED BY Zenon, <3>1, <3>2
  <2>3. threads' \in [Tid -> SUBSET Tid] /\ children' \in [Tid -> SUBSET Tid]
    <3>1. threads \in [Tid -> SUBSET Tid] /\ {n} \in SUBSET Tid
      BY <1>1, <1>t DEF TypeOK
    <3>2. threads' = [threads EXCEPT ![n] = {n}]
      BY <1>b
    <3>3. threads' \in [Tid -> SUBSET Tid]
      BY <3>1, <3>2
    <3> QED BY <1>d, <3>3
  <2>4. process_id' \in [Tid -> Tid \cup {NoTask}] /\ parent' \in [Tid -> Tid \cup {NoTask}]
    BY <1>1, <1>b, <1>c, <1>t DEF TypeOK
  <2>6. sched' \in [Tid -> Scheds]
    <3>1. s \in Scheds
      BY DEF Scheds
    <3> QED BY ZenonT(30), <3>1, <1>b, <1>t DEF TypeOK
  <2>7. command' \in Tid \cup {NoTask}
    <3>1. command \in Tid \cup {NoTask}
      BY <1>t DEF TypeOK
    <3> QED BY ZenonT(30), <1>1, <1>g, <3>1
  <2> QED BY ZenonT(30), <1>b, <1>t, <1>e, <1>f, <2>2, <2>3, <2>4, <2>6, <2>7 DEF TypeOK
<1>7. Ids'
  <2>1. ASSUME NEW u \in Tid, u > last_id'
        PROVE  /\ process_id'[u] = NoTask /\ sched'[u] = "none" /\ parent'[u] = NoTask
               /\ children'[u] = {} /\ threads'[u] = {} /\ exit_code'[u] = NoCode
               /\ ~cleaned'[u] /\ ~thread_exit_code'[u] /\ u \notin reaped'
    <3>1. u # n /\ u > last_id
      BY <1>3, <1>u, <2>1
    <3>2. m # NoTask => u # process_id[m]
      <4>1. process_id[u] = NoTask
        BY Zenon, <1>h, <3>1 DEF Ids
      <4>2. m # NoTask => process_id[m] # NoTask
        BY <1>2
      <4> QED BY Zenon, <1>2, <4>1, <4>2
    <3>3. children'[u] = {}
      BY Zenon, <1>d, <1>h, <3>1, <3>2 DEF Ids
    <3> QED BY Zenon, <1>4, <1>h, <1>u, <3>1, <3>3 DEF Ids
  <2>2. ASSUME NEW u \in Tid, u <= last_id' PROVE process_id'[u] # NoTask
    <3>1. u = n \/ u <= last_id
      BY <1>3, <1>u, <2>2
    <3>2. n # NoTask
      BY <1>1
    <3>3. u <= last_id => process_id[u] # NoTask
      BY Zenon, <1>h DEF Ids
    <3>4. process_id'[u] = IF u = n THEN n ELSE process_id[u]
      BY Zenon, <1>4
    <3> QED BY Zenon, <3>1, <3>2, <3>3, <3>4
  <2>3. ASSUME NEW u \in Tid, process_id'[u] # NoTask
        PROVE  process_id'[process_id'[u]] = process_id'[u]
    <3>1. CASE u = n
      BY <1>n, <1>4, <3>1
    <3>2. CASE u # n
      <4> DEFINE q == process_id[u]
      <4>1. process_id'[u] = q /\ q \in Tid /\ process_id[q] = q /\ q # n
        <5>1. process_id'[u] = q /\ q # NoTask
          BY Zenon, <1>4, <2>3, <3>2
        <5>2. q \in Tid \cup {NoTask}
          BY ZenonT(60), <1>t DEF TypeOK
        <5>3. process_id[q] = q
          BY Zenon, <1>h, <5>1 DEF Ids, IsProcess
        <5> QED BY Zenon, <1>1, <5>1, <5>2, <5>3
      <4> HIDE DEF q
      <4> QED BY SMTT(30), <1>4, <4>1
    <3> QED BY SMTT(30), <3>1, <3>2
  <2>4. ASSUME NEW u \in Tid, parent'[u] # NoTask PROVE parent'[u] <= last_id'
    <3>1. CASE u = n
      <4>1. parent'[u] = m /\ m # NoTask
        BY <1>4, <2>4, <3>1
      <4>2. m <= last_id /\ m \in Tid
        BY <1>2, <4>1
      <4> QED BY <1>3, <1>u, <4>1, <4>2
    <3>2. CASE u # n
      <4>1. parent'[u] = parent[u]
        BY <1>4, <3>2
      <4>2. parent[u] \in Tid /\ parent[u] <= last_id
        BY <1>h, <1>t, <2>4, <4>1 DEF Ids, TypeOK
      <4> QED BY <1>3, <1>u, <4>1, <4>2
    <3> QED BY <3>1, <3>2
  <2> QED BY SMTT(30), <2>1, <2>2, <2>3, <2>4 DEF Ids
<1>8. ThreadLists'
  <2>1. ASSUME NEW u \in Tid, Upgradable(u)', ~thread_exit_code[u]
        PROVE  u \in threads'[process_id'[u]]
    <3>1. CASE u = n
      BY <1>n, <1>4, <3>1
    <3>2. CASE u # n
      <4>1. Upgradable(u) /\ process_id'[u] = process_id[u] /\ u \in threads[process_id[u]]
        BY <1>4, <1>5, <1>h, <2>1, <3>2 DEF ThreadLists
      <4>2. process_id[u] \in Tid /\ process_id[u] # n
        BY <1>1, <4>1, QueuedFacts
      <4> QED BY <1>4, <4>1, <4>2
    <3> QED BY SMTT(30), <3>1, <3>2
  <2>2. ASSUME NEW q \in Tid, NEW u \in threads'[q] PROVE process_id'[u] = q
    <3>1. CASE q = n
      BY <1>n, <1>4, <3>1
    <3>2. CASE q # n
      <4>1. u \in threads[q] /\ u \in Tid /\ u # n
        BY Zenon, <1>1, <1>4, <1>t, <3>2 DEF TypeOK
      <4> QED BY SMTT(30), <1>4, <1>h, <4>1 DEF ThreadLists
    <3> QED BY <3>1, <3>2
  <2>3. ASSUME NEW u \in Tid, Upgradable(u)', thread_exit_code[u] PROVE InHandler(u)
    <3>1. u # n
      BY Zenon, <1>1, <2>3
    <3>2. Upgradable(u)
      BY Zenon, <1>5, <2>3, <3>1
    <3> QED BY Zenon, <2>3, <3>2, <1>h DEF ThreadLists
  <2> QED BY Zenon, <2>1, <2>2, <2>3, <1>u DEF ThreadLists, InHandler
<1>10. ExitCodes'
  <2>1. \A p \in Tid : exit_code'[p] # NoCode => process_id'[p] = p
    BY Zenon, <1>1, <1>4, <1>h, <1>u DEF ExitCodes
  <2>2. \A p \in Tid : cleaned'[p] => exit_code'[p] # NoCode
    BY <1>h, <1>u DEF ExitCodes
  <2>3. ASSUME NEW p \in Tid, process_id'[p] = p, exit_code'[p] = NoCode, sched'[p] = "done"
        PROVE  thread_exit_code'[p]
    <3>1. p # n
      BY <1>4, <2>3
    <3> QED BY SMTT(30), <1>4, <1>h, <1>u, <2>3, <3>1 DEF ExitCodes
  <2> QED BY SMTT(30), <2>1, <2>2, <2>3 DEF ExitCodes
<1>11. CommandTask' /\ ReleaseAssert'
  <2>1. ReleaseAssert'
    BY SMTT(30), <1>h, <1>u DEF ReleaseAssert
  <2>2. ASSUME command' = NoTask PROVE CommandTask'
    BY <2>2 DEF CommandTask
  <2>3. ASSUME command' = n /\ m = NoTask PROVE CommandTask'
    <3>1. process_id'[n] = n /\ parent'[n] = NoTask /\ n \notin reaped'
      BY Zenon, <1>1, <1>n, <1>4, <1>u, <2>3
    <3> QED BY Zenon, <2>3, <3>1 DEF CommandTask, IsProcess
  <2>4. ASSUME command' = command /\ command # NoTask PROVE CommandTask'
    <3>1. command \in Tid /\ process_id[command] = command /\ parent[command] = NoTask
          /\ command \notin reaped
      BY <1>h, <1>t, <2>4 DEF CommandTask, IsProcess, TypeOK
    <3>2. command # n
      BY Zenon, <1>1, <3>1
    <3>3. process_id'[command] = command /\ parent'[command] = NoTask
      BY <1>4, <3>1, <3>2
    <3> QED BY Zenon, <1>u, <2>4, <3>1, <3>3 DEF CommandTask, IsProcess
  <2>5. CommandTask'
    BY Zenon, <1>g, <2>2, <2>3, <2>4
  <2> QED BY <2>1, <2>5
<1>12. ChildLists'
  <2> SUFFICES ASSUME NEW q \in Tid, NEW c \in children'[q]
               PROVE  /\ process_id'[c] = c /\ c \notin reaped
                      /\ parent'[c] # NoTask /\ process_id'[parent'[c]] = q
    BY <1>u DEF ChildLists
  <2>1. CASE c = n
    <3>1. m # NoTask /\ q = process_id[m]
      BY ZenonT(30), <1>1, <1>d, <2>1
    <3>2. process_id'[c] = c /\ c \notin reaped /\ parent'[c] = m
      BY ZenonT(60), <1>1, <1>4, <2>1
    <3>3. process_id'[m] = process_id[m]
      BY Zenon, <1>2, <1>4, <3>1
    <3> QED BY <3>1, <3>2, <3>3
  <2>2. CASE c # n
    <3>0. children'[q] = children[q] \/ children'[q] = children[q] \cup {n}
      BY ZenonT(30), <1>d
    <3>1. c \in children[q]
      BY <2>2, <3>0
    <3>2. /\ c \in Tid /\ process_id[c] = c /\ c \notin reaped
          /\ parent[c] # NoTask /\ process_id[parent[c]] = q /\ parent[c] \in Tid
      BY <1>h, <1>t, <3>1 DEF ChildLists, TypeOK
    <3>3. parent[c] # n
      BY Zenon, <1>1, <3>2
    <3>4. /\ process_id'[c] = process_id[c] /\ parent'[c] = parent[c]
          /\ process_id'[parent[c]] = process_id[parent[c]]
      BY Zenon, <1>4, <2>2, <3>2, <3>3
    <3> QED BY Zenon, <3>2, <3>4
  <2> QED BY Zenon, <2>1, <2>2
<1>13. NoZombieLost'
  <2> SUFFICES ASSUME NEW c \in Tid, process_id'[c] = c, parent'[c] # NoTask,
                      ~cleaned[process_id'[parent'[c]]]
               PROVE  c \in children'[process_id'[parent'[c]]] \cup reaped
    BY <1>u DEF NoZombieLost
  <2>1. CASE c = n
    <3>1. parent'[c] = m /\ m # NoTask
      <4>1. parent'[n] = m
        BY <1>n, <1>4
      <4> QED BY <2>1, <4>1
    <3>2. process_id'[parent'[c]] = process_id[m] /\ process_id[m] \in Tid
      <4>1. m \in Tid /\ m # n /\ process_id[m] \in Tid
        BY <1>2, <3>1
      <4>2. process_id'[m] = process_id[m]
        BY <1>4, <4>1
      <4> QED BY <3>1, <4>1, <4>2
    <3>3. children'[process_id[m]] = children[process_id[m]] \cup {n}
      BY ZenonT(30), <1>d, <3>1, <3>2
    <3> QED BY SMTT(30), <2>1, <3>2, <3>3
  <2>2. CASE c # n
    <3>1. process_id[c] = c /\ parent'[c] = parent[c] /\ parent[c] \in Tid /\ parent[c] # n
      <4>1. process_id'[c] = process_id[c] /\ parent'[c] = parent[c]
        BY <1>4, <2>2
      <4>2. parent[c] \in Tid \cup {NoTask} /\ parent[c] # n
        BY SMTT(30), <1>1, <1>t DEF TypeOK
      <4> QED BY <4>1, <4>2
    <3>2. process_id'[parent[c]] = process_id[parent[c]]
      BY ZenonT(60), <1>4, <3>1
    <3>3. process_id[parent[c]] \in Tid
      <4>1. process_id \in [Tid -> Tid \cup {NoTask}]
        BY Zenon, <1>t DEF TypeOK
      <4>2. parent[c] # NoTask
        BY <3>1
      <4>3. process_id[parent[c]] # NoTask
        BY Zenon, <4>2, <3>1, <1>h DEF Ids
      <4> QED BY <4>1, <4>3, <3>1
    <3>4. c \in children[process_id[parent[c]]] \cup reaped
      BY <1>h, <3>1, <3>2 DEF NoZombieLost
    <3> DEFINE q == process_id[parent[c]]
    <3>5. children'[q] = children[q] \/ children'[q] = children[q] \cup {n}
      BY ZenonT(30), <1>d, <3>3
    <3> HIDE DEF q
    <3>6. q = process_id'[parent'[c]] /\ c \in children[q] \cup reaped
      BY Zenon, <3>1, <3>2, <3>4 DEF q
    <3> QED BY <3>5, <3>6
  <2> QED BY ZenonT(60), <2>1, <2>2
<1>14. CleanedQuiet'
  <2> SUFFICES ASSUME NEW q \in Tid, cleaned[q], NEW u \in Tid, process_id'[u] = q,
                      Upgradable(u)'
               PROVE  thread_exit_code[u] /\ InHandler(u)
    BY Zenon, <1>u DEF CleanedQuiet, InHandler
  <2>1. u # n
    <3>1. ~cleaned[n] /\ process_id'[n] = n
      BY Zenon, <1>1, <1>4
    <3> QED BY Zenon, <3>1
  <2>2. process_id[u] = q
    BY Zenon, <1>4, <2>1
  <2>3. Upgradable(u)
    BY Zenon, <1>5, <2>1
  <2> QED BY Zenon, <1>h, <2>2, <2>3 DEF CleanedQuiet
<1> QED BY <1>f, <1>6, <1>7, <1>8, <1>10, <1>11, <1>12, <1>13, <1>14 DEF IInv

\* clone without CLONE_THREAD keeps it.
LEMMA CloneForkInv ==
    ASSUME IInv, NEW t \in Tid, NEW sig \in CloneSigs, sys_clone_fork(t, sig)
    PROVE  IInv'
<1>1. t \in Tid \cup {NoTask} /\ sig \in CloneSigs \cup {0} /\ "new" \in {"new", "queued"}
  OBVIOUS
<1>2. PICK n : n = last_id + 1
  OBVIOUS
<1> QED BY <1>1, <1>2, NewProcessInv

\* A command that the kernel starts keeps it.
LEMMA CommandStartInv ==
    ASSUME IInv, command_start
    PROVE  IInv'
<1>1. PICK n : n = last_id + 1
  OBVIOUS
<1> QED BY <1>1, NewProcessInv

\* The spawn that ends a clone keeps it.
LEMMA CloneSpawnInv ==
    ASSUME IInv, NEW t \in Tid, clone_spawn(t)
    PROVE  IInv'
<1>1. PICK n : n = call[t].arg
  OBVIOUS
<1>2. /\ sched[t] = "queued" /\ call[t].op = "clone"
      /\ sched' = [sched EXCEPT ![n] = "queued",
                                ![t] = AfterCall(t)]
      /\ task_map' = task_map \cup {n}
      /\ call' = [call EXCEPT ![t] = Idle]
      /\ UNCHANGED <<last_id, process_id, parent, children, threads, exit_code, exit_signal,
                     cleaned, thread_exit_code, clone_sig, pending, handler, command,
                     reaped>>
  BY <1>1 DEF clone_spawn, Polled, idVars, pcbVars, tcbVars
<1>3. n \in Tid /\ sched[n] = "new" /\ n # t
  BY <1>1, <1>2, CloneArg DEF IInv, CloneCalls
<1>t. TypeOK
  BY Zenon DEF IInv
<1>h. /\ Ids /\ ThreadLists /\ ChildLists /\ CloneCalls /\ ExitCodes
      /\ CommandTask /\ ReleaseAssert /\ NoZombieLost /\ CleanedQuiet
  BY Zenon DEF IInv
<1>4. /\ \A u \in Tid : u # n /\ u # t => sched'[u] = sched[u]
      /\ sched'[n] = "queued"
      /\ sched'[t] = "queued" \/ (sched'[t] = "done" /\ Exited(t))
  <2>1. sched \in [Tid -> Scheds]
    BY Zenon, <1>t DEF TypeOK
  <2>2. AfterCall(t) = "queued" \/ (AfterCall(t) = "done" /\ Exited(t))
    BY Zenon, <1>2 DEF AfterCall, CheckThreadExit
  <2>3. /\ sched'[t] = AfterCall(t) /\ sched'[n] = "queued"
        /\ \A u \in Tid : u # n /\ u # t => sched'[u] = sched[u]
    BY <1>2, <1>3, <2>1
  <2> QED BY Zenon, <2>2, <2>3
<1>5. \A u \in Tid : Upgradable(u)' => Upgradable(u)
  BY SMTT(30), <1>2, <1>3, <1>4 DEF Upgradable
<1>6. TypeOK'
  <2>1. sched' \in [Tid -> Scheds]
    <3>1. sched \in [Tid -> Scheds] /\ "queued" \in Scheds /\ "done" \in Scheds
      <4>1. "queued" \in Scheds /\ "done" \in Scheds
        BY DEF Scheds
      <4> QED BY Zenon, <4>1, <1>t DEF TypeOK
    <3>2. AfterCall(t) \in Scheds
      BY Zenon, <3>1 DEF AfterCall
    <3> QED BY <1>2, <3>1, <3>2
  <2>2. call' \in [Tid -> Calls]
    BY ZenonT(60), <1>2, <1>t DEF TypeOK, Calls
  <2>3. task_map' \in SUBSET Tid
    BY Zenon, <1>2, <1>3, <1>t DEF TypeOK
  <2> QED BY ZenonT(30), <1>2, <2>1, <2>2, <2>3, <1>t DEF TypeOK
<1>7. Ids'
  <2>1. ASSUME NEW u \in Tid, u > last_id PROVE sched'[u] = "none"
    <3>1. u # n /\ u # t /\ sched[u] = "none"
      BY ZenonT(30), <1>2, <1>3, <2>1, <1>h DEF Ids
    <3> QED BY <1>4, <3>1
  <2> QED BY ZenonT(30), <1>2, <2>1, <1>h DEF Ids
<1>8. ThreadLists' /\ CleanedQuiet'
  <2>1. ThreadLists'
    BY Zenon, <1>2, <1>5, <1>h DEF ThreadLists, InHandler
  <2>2. CleanedQuiet'
    BY Zenon, <1>2, <1>5, <1>h DEF CleanedQuiet, InHandler
  <2> QED BY SMTT(30), <2>1, <2>2
<1>9. CloneCalls'
  <2>1. \A u \in Tid : call'[u] = IF u = t THEN Idle ELSE call[u]
    BY <1>2, <1>t DEF TypeOK
  <2>2. Idle.op # "clone"
    BY DEF Idle
  <2>3. ASSUME NEW u \in Tid, call'[u].op = "clone" PROVE sched'[call'[u].arg] = "new"
    <3>1. u # t /\ call'[u] = call[u] /\ call[u].op = "clone"
      BY <2>1, <2>2, <2>3
    <3>2. call[u].arg \in Tid /\ sched[call[u].arg] = "new" /\ call[u].arg # n
      <4>1. call[u].arg \in Tid /\ sched[call[u].arg] = "new"
        BY Zenon, <1>t, <1>h, <3>1, CloneArg DEF CloneCalls
      <4>2. call[u].arg # n
        BY Zenon, <1>1, <1>2, <1>h, <3>1 DEF CloneCalls
      <4> QED BY Zenon, <4>1, <4>2
    <3> QED BY ZenonT(30), <1>2, <1>4, <3>1, <3>2
  <2>4. \A u, v \in Tid : call'[u].op = "clone" /\ call'[v].op = "clone"
                            /\ call'[u].arg = call'[v].arg => u = v
    BY <2>1, <2>2, <1>h DEF CloneCalls
  <2> QED BY SMTT(30), <2>3, <2>4, <1>h DEF CloneCalls
<1>10. ExitCodes'
  <2>1. ASSUME NEW p \in Tid, process_id[p] = p, exit_code[p] = NoCode, sched'[p] = "done"
        PROVE  thread_exit_code[p]
    <3>1. CASE p = t
      BY <1>4, <2>1, <3>1 DEF Exited
    <3>2. CASE p # t
      BY SMTT(30), <1>4, <2>1, <3>2, <1>h DEF ExitCodes
    <3> QED BY <3>1, <3>2
  <2> QED BY ZenonT(30), <1>2, <2>1, <1>h DEF ExitCodes
<1>11. CommandTask' /\ ReleaseAssert' /\ ChildLists' /\ NoZombieLost'
  BY <1>2, <1>h DEF CommandTask, ReleaseAssert, ChildLists, NoZombieLost
<1> QED BY <1>6, <1>7, <1>8, <1>9, <1>10, <1>11 DEF IInv
=============================================================================

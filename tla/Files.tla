------------------------------- MODULE Files --------------------------------
(***************************************************************************)
(* Descriptors, pipes, socket pairs, the terminal, and the calls that wait *)
(* for them: the rest of kernel/src/syscall/fd.rs, filesystem/fs/pipe.rs,  *)
(* user/socket_pair.rs, devfs/tty.rs, EpollFile, and the futures           *)
(* WaitBlockingRead and WaitBlockingWrite of filesystem/fs/lib.rs.         *)
(*                                                                         *)
(* A call runs to its first await in one step.  A call that waits is kept  *)
(* in call[t], with the file it holds; each later poll of its future is    *)
(* one more step.  The bytes in a pipe are abstracted to their number.  A  *)
(* panic of the kernel is the state halted.                                *)
(***************************************************************************)
EXTENDS FdTable

CONSTANTS Tasks, Procs,
          ProcOf,               \* the process of each task
          Mains,                \* the tasks that are the main thread
          Forked,               \* the process that a fork creates, if any
          FileIds, Chans,       \* open files and channels that can exist at a time
          FILE_MAX,             \* the length of a new table
          Limits,               \* values given to prlimit64
          DupTargets,           \* descriptors given to dup3
          ReadSizes, WriteSizes,
          SMALL,                \* 16: a write of at most so many bytes always fits
          PIPE_BUFFER_SIZE,
          PAIR_SIZE,            \* 0x50000 of a socket pair
          Watches,              \* sets of [fd, ev] that are waited for
          MaxQueue,             \* a bound on the bytes in a channel
          MaxChars,             \* characters typed
          MaxCalls              \* calls in a behaviour

ASSUME FilesAssumption ==
    /\ ProcOf \in [Tasks -> Procs] /\ Forked \subseteq Procs
    /\ IsFiniteSet(FileIds) /\ FileIds \subseteq Nat \ {0} /\ {1, 2, 3} \subseteq FileIds
    /\ FILE_MAX \in Nat /\ FILE_MAX >= 3
    /\ Limits \subseteq Nat /\ DupTargets \subseteq Nat

VARIABLES table, limit,     \* fd_table and rlimits[7] of each process
          files,            \* the open files: what they refer to and their flags
          queue,            \* bytes in each channel
          interest,         \* the map of each EpollFile: a set of [fd, ev]
          call,             \* the call each task waits in
          ended,            \* tasks that have exited
          exiting,          \* processes whose exit_code is set
          typed, ttybuf,    \* characters at the console, and in Tty::buffer
          halted,
          told,             \* ghost: descriptors the program believes are open
          excused,          \* ghost: the ones it is wrong about, for a known reason
          calls

vars == <<table, limit, files, queue, interest, call, ended, exiting, typed, ttybuf, halted,
          told, excused, calls>>

NoFile == [kind |-> "none", chan |-> 0, nb |-> FALSE, wr |-> FALSE]
Idle == [op |-> "idle"]

\* File::new_dev: flags is O_RDWR
new_dev(kind, chan) == [kind |-> kind, chan |-> chan, nb |-> FALSE, wr |-> TRUE]
Tty == new_dev("tty", 0)

Holds(c) == IF "f" \in DOMAIN c THEN {c.f} ELSE {}
LiveFiles(tabs, cs) ==
    UNION {{tabs[p][i] : i \in DOMAIN tabs[p]} : p \in Procs} \cup UNION {Holds(cs[t]) : t \in Tasks}

Running(t) == ~halted /\ t \notin ended /\ call[t] = Idle
File(t, fd) == get_fd(table[ProcOf[t]], limit[ProcOf[t]], fd)
Safe(t, fd) == InBounds(table[ProcOf[t]], limit[ProcOf[t]], fd)

\* The tables, the waiting calls and the files after a step; what the last
\* reference to is gone is dropped.
Settle(tabs, cs, fs, qs, ints) ==
    LET live == LiveFiles(tabs, cs)
        used == {fs[f].chan : f \in live \ {None}}
    IN  /\ table' = tabs /\ call' = cs
        /\ files' = [f \in FileIds |-> IF f \in live THEN fs[f] ELSE NoFile]
        /\ queue' = [c \in Chans |-> IF c \in used THEN qs[c] ELSE 0]
        /\ interest' = [c \in Chans |-> IF c \in used THEN ints[c] ELSE {}]

Halt == halted' = TRUE /\ UNCHANGED <<table, limit, files, queue, interest, call, ended,
                                      exiting, typed, ttybuf, told, excused>>

Quiet == UNCHANGED <<limit, ended, exiting, typed, ttybuf, halted>>
Belief == UNCHANGED <<told, excused>>

FreshFile(fs) == {f \in FileIds : fs[f] = NoFile}
FreshChan == {c \in Chans : \A f \in FileIds : files[f].chan # c}

(***************************************************************************)
(* What reading, writing and polling a node does.  "block" is EWOULDBLOCK. *)
(***************************************************************************)
\* Weak::strong_count of the sender
SenderAlive(chan) == \E f \in FileIds : files[f].kind = "tx" /\ files[f].chan = chan

Least(a, b) == IF a <= b THEN a ELSE b

\* a bug: the end of the file is not told from an empty pipe
readat_no_eof(f, n) ==
    LET q == queue[files[f].chan]
    IN  CASE n = 0 -> [r |-> "ok", n |-> 0]
          [] OTHER -> IF q > 0 THEN [r |-> "ok", n |-> Least(q, n)] ELSE [r |-> "block", n |-> 0]

readat_rx(f, n) ==
    LET q == queue[files[f].chan]
    IN  CASE n = 0 -> [r |-> "ok", n |-> 0]
          [] n > 0 /\ q > 0 -> [r |-> "ok", n |-> Least(q, n)]
          [] OTHER -> IF SenderAlive(files[f].chan) THEN [r |-> "block", n |-> 0]
                      ELSE [r |-> "ok", n |-> 0]

readat_pair(f, n) ==
    LET m == Least(queue[files[f].chan], n)
    IN  [r |-> IF m = 0 THEN "block" ELSE "ok", n |-> m]

\* Tty takes what is in its buffer, or one character from the console
readat_tty(n) ==
    CASE ttybuf > 0 -> [r |-> "ok", n |-> Least(ttybuf, n)]
      [] ttybuf = 0 /\ typed > 0 -> [r |-> "ok", n |-> 1]
      [] OTHER -> [r |-> "block", n |-> 0]

readat(f, n) ==
    CASE files[f].kind = "rx"   -> readat_rx(f, n)
      [] files[f].kind = "pair" -> readat_pair(f, n)
      [] files[f].kind = "tty"  -> readat_tty(n)
      [] OTHER -> [r |-> "err", n |-> 0]

\* a bug: a write that just fits does not fit
writeat_strict(f, n) ==
    LET q == queue[files[f].chan]
    IN  CASE files[f].kind = "tx" -> IF n <= SMALL \/ q + n < PIPE_BUFFER_SIZE THEN "ok" ELSE "block"
          [] files[f].kind = "pair" -> IF q > PAIR_SIZE THEN "block" ELSE "ok"
          [] files[f].kind = "tty" -> "ok"
          [] OTHER -> "err"

writeat(f, n) ==
    LET q == queue[files[f].chan]
    IN  CASE files[f].kind = "tx" -> IF n <= SMALL \/ q + n <= PIPE_BUFFER_SIZE THEN "ok" ELSE "block"
          [] files[f].kind = "pair" -> IF q > PAIR_SIZE THEN "block" ELSE "ok"
          [] files[f].kind = "tty" -> "ok"
          [] OTHER -> "err"

When(ev, cond) == IF cond THEN {ev} ELSE {}

\* a bug: no data is reported once the sender is gone
poll_rx_sender_only(f, evs) ==
    LET q == queue[files[f].chan]  alive == SenderAlive(files[f].chan)
    IN  When("in", "in" \in evs /\ q > 0 /\ alive)
        \cup When("err", q = 0 /\ ~alive /\ evs \cap {"in", "err"} # {})

\* the end of the file is POLLERR, never POLLIN
poll_rx(f, evs) ==
    LET q == queue[files[f].chan]  alive == SenderAlive(files[f].chan)
    IN  When("in", "in" \in evs /\ q > 0)
        \cup When("err", q = 0 /\ ~alive /\ evs \cap {"in", "err"} # {})

poll(f, evs) ==
    LET q == queue[files[f].chan]
    IN  CASE files[f].kind = "rx"   -> poll_rx(f, evs)
          [] files[f].kind = "tx"   -> When("out", "out" \in evs /\ q <= PIPE_BUFFER_SIZE)
          [] files[f].kind = "pair" -> When("out", "out" \in evs /\ q <= PAIR_SIZE)
                                       \cup When("in", "in" \in evs /\ q > 0)
          [] files[f].kind = "tty"  -> When("in", "in" \in evs /\ (ttybuf > 0 \/ typed > 0))
                                       \cup When("out", "out" \in evs)
          [] OTHER -> {}
\* the nodes whose poll is the default of INodeInterface, which fails with EPERM
CannotPoll(f) == files[f].kind = "epoll"


(***************************************************************************)
(* Calls that may wait for a channel.  A call on a descriptor that is not  *)
(* open fails and changes nothing: it is a stuttering step.                *)
(***************************************************************************)
Finished(t) == [call EXCEPT ![t] = Idle]
Moved(ch, d) == [c \in Chans |-> queue[c] + (IF c = ch THEN d ELSE 0)]

\* n characters leave the terminal, those of its buffer first
TtyTakes(n) == /\ ttybuf' = ttybuf - Least(n, ttybuf)
               /\ typed' = typed - (n - Least(n, ttybuf))

\* one poll of WaitBlockingRead
WaitBlockingRead(t, c) ==
    LET a == readat(c.f, c.n)
    IN  /\ IF a.r = "block"
           THEN call' = [call EXCEPT ![t] = c] /\ UNCHANGED <<table, files, queue, interest>>
           ELSE Settle(table, Finished(t), files, Moved(files[c.f].chan, -a.n), interest)
        /\ IF files[c.f].kind = "tty" THEN TtyTakes(a.n) ELSE UNCHANGED <<typed, ttybuf>>
        /\ UNCHANGED <<limit, ended, exiting, halted>> /\ Belief

\* one poll of WaitBlockingWrite
WaitBlockingWrite(t, c) ==
    LET a == writeat(c.f, c.n)
    IN  /\ IF a = "block"
           THEN call' = [call EXCEPT ![t] = c] /\ UNCHANGED <<table, files, queue, interest>>
           ELSE Settle(table, Finished(t), files,
                       IF a = "ok" THEN Moved(files[c.f].chan, c.n) ELSE queue, interest)
        /\ Quiet /\ Belief

\* async_read: with O_NONBLOCK the file is read once
sys_read(t, fd, n) ==
    LET f == File(t, fd)
    IN  /\ f # None
        /\ CASE files[f].kind = "tty" /\ n = 0 -> Halt     \* the assertion in Tty::readat
             [] ~(files[f].kind = "tty" /\ n = 0) ->
                  /\ files[f].nb => readat(f, n).r # "block"
                  /\ WaitBlockingRead(t, [op |-> "read", f |-> f, n |-> n])

\* async_write: O_NONBLOCK and the access mode do not matter
sys_write(t, fd, n) ==
    LET f == File(t, fd)
    IN  /\ f # None /\ n > 0
        /\ files[f].kind \in {"tx", "pair"} => queue[files[f].chan] + n <= MaxQueue
                                               \/ writeat(f, n) = "block"
        /\ WaitBlockingWrite(t, [op |-> "write", f |-> f, n |-> n])

\* Two buffers of one byte, read without waiting: when the second finds
\* nothing the call fails, and what the first took is gone.
sys_readv(t, fd) ==
    LET f == File(t, fd)
        n == IF files[f].kind = "tty" THEN Least(2, ttybuf + typed)
             ELSE Least(2, queue[files[f].chan])
    IN  /\ f # None /\ files[f].kind \in {"rx", "pair", "tty"}
        /\ Settle(table, call, files, Moved(files[f].chan, -n), interest)
        /\ IF files[f].kind = "tty" THEN TtyTakes(n) ELSE UNCHANGED <<typed, ttybuf>>
        /\ UNCHANGED <<limit, ended, exiting, halted>> /\ Belief

\* Two buffers of one byte, written without waiting, if the flags allow it.
sys_writev(t, fd) ==
    LET f == File(t, fd)
        q == queue[files[f].chan]
        n == IF files[f].kind = "tx" THEN 2 ELSE Cardinality({i \in {0, 1} : q + i <= PAIR_SIZE})
    IN  /\ f # None /\ files[f].wr /\ files[f].kind \in {"tx", "pair"}
        /\ q + n <= MaxQueue
        /\ Settle(table, call, files, Moved(files[f].chan, n), interest)
        /\ Quiet /\ Belief

(***************************************************************************)
(* Descriptors.  A call that answers a descriptor adds it to told.         *)
(***************************************************************************)
Answers(p, fds) == told' = [told EXCEPT ![p] = @ \cup fds]

sys_close(t, fd) ==
    LET p == ProcOf[t]
    IN  /\ Settle([table EXCEPT ![p] = clear_fd(@, fd)], call, files, queue, interest)
        /\ told' = [told EXCEPT ![p] = @ \ {fd}]
        /\ excused' = [excused EXCEPT ![p] = @ \ {fd}]
        /\ Quiet

\* a destination at or above the limit is answered without being set
sys_dup3(t, src, dst) ==
    LET p == ProcOf[t]
    IN  /\ File(t, src) # None
        /\ Settle([table EXCEPT ![p] = set_fd(@, limit[p], dst, File(t, src))], call, files, queue, interest)
        /\ Answers(p, {dst})
        /\ excused' = [excused EXCEPT ![p] = IF dst >= limit[p] THEN @ \cup {dst} ELSE @ \ {dst}]
        /\ Quiet

\* alloc_fd comes before the source is looked at; fcntl(F_DUPFD) is the same
sys_dup(t, src) ==
    LET p == ProcOf[t]  a == alloc_fd(table[p], limit[p])
    IN  /\ a.fd # NoFd
        /\ LET f == get_fd(a.tab, limit[p], src)
           IN  /\ Settle([table EXCEPT ![p] = IF f = None THEN a.tab ELSE set_fd(a.tab, limit[p], a.fd, f)],
                         call, files, queue, interest)
               /\ IF f = None THEN UNCHANGED told ELSE Answers(p, {a.fd})
        /\ UNCHANGED excused /\ Quiet

\* F_SETFL replaces all the flags, the access mode included
sys_fcntl(t, fd, nb, wr) ==
    LET f == File(t, fd)
    IN  /\ f # None
        /\ files' = [files EXCEPT ![f].nb = nb, ![f].wr = wr]
        /\ UNCHANGED <<table, queue, interest, call>> /\ Quiet /\ Belief

\* One new file on a free descriptor.
Opened(p, file, ints) ==
    LET a == alloc_fd(table[p], limit[p])
    IN  \E f \in {Min(FreshFile(files))} :
          /\ a.fd # NoFd
          /\ Settle([table EXCEPT ![p] = set_fd(a.tab, limit[p], a.fd, f)], call,
                    [files EXCEPT ![f] = file], queue, ints)
          /\ Answers(p, {a.fd}) /\ UNCHANGED excused

\* Two new files, one after the other: when only one descriptor is free the
\* call fails, and the first file stays in the table.
OpenedBoth(p, first, second) ==
    LET a == alloc_fd(table[p], limit[p])
        f == Min(FreshFile(files))
        g == Min(FreshFile(files) \ {f})
        tab1 == set_fd(a.tab, limit[p], a.fd, f)
        b == alloc_fd(tab1, limit[p])
    IN  /\ a.fd # NoFd
        /\ Settle([table EXCEPT ![p] = IF b.fd = NoFd THEN tab1 ELSE set_fd(b.tab, limit[p], b.fd, g)],
                  call, [files EXCEPT ![f] = first, ![g] = second], queue, interest)
        /\ IF b.fd = NoFd
           THEN excused' = [excused EXCEPT ![p] = @ \cup {a.fd}] /\ UNCHANGED told
           ELSE Answers(p, {a.fd, b.fd}) /\ UNCHANGED excused

sys_pipe2(t) == /\ FreshChan # {} /\ Cardinality(FreshFile(files)) > 1
                /\ LET c == Min(FreshChan) IN OpenedBoth(ProcOf[t], new_dev("rx", c), new_dev("tx", c))
                /\ Quiet

\* both descriptors are the same queue
sys_socket_pair(t) ==
    /\ FreshChan # {} /\ Cardinality(FreshFile(files)) > 1
    /\ LET c == Min(FreshChan) IN OpenedBoth(ProcOf[t], new_dev("pair", c), new_dev("pair", c))
    /\ Quiet

sys_prlimit64(t, lim) ==
    /\ limit' = [limit EXCEPT ![ProcOf[t]] = lim]
    /\ UNCHANGED <<table, files, queue, interest, call, ended, exiting, typed, ttybuf, halted>>
    /\ Belief


(***************************************************************************)
(* ppoll, poll, pselect, select and epoll.  Whether the time of a wait     *)
(* with a timeout is up is a free choice at each look at the clock.        *)
(***************************************************************************)
\* polling a terminal for input moves a character into its buffer
TtyPolled(fs) ==
    IF "tty" \in {files[f].kind : f \in fs} /\ ttybuf = 0 /\ typed > 0
    THEN ttybuf' = 1 /\ typed' = typed - 1
    ELSE UNCHANGED <<typed, ttybuf>>

\* One round of a wait c: polled are the files that are polled for input,
\* found whether one of the events is there.
Round(t, c, polled, found) ==
    /\ \/ ~found /\ call' = [call EXCEPT ![t] = c] /\ UNCHANGED <<table, files, queue, interest>>
       \/ (found \/ c.timed) /\ Settle(table, Finished(t), files, queue, interest)
    /\ TtyPolled(polled)
    /\ UNCHANGED <<limit, ended, exiting, halted>> /\ Belief

\* a file that cannot be polled makes the unwrap panic
PpollRound(t, c) ==
    LET open == {w \in c.w : File(t, w.fd) # None}
    IN  IF \E w \in open : CannotPoll(File(t, w.fd)) THEN Halt
        ELSE Round(t, c, {File(t, w.fd) : w \in {x \in open : x.ev = "in"}},
                   \E w \in open : poll(File(t, w.fd), {w.ev}) # {})

\* pselect looks in the table itself, whatever the limit, and for the very event
PselectRound(t, c) ==
    LET tab == table[ProcOf[t]]
        open == {w \in c.w : w.fd < Len(tab) /\ tab[w.fd + 1] # None}
    IN  Round(t, c, {tab[w.fd + 1] : w \in {x \in open : x.ev = "in"}},
              \E w \in open : w.ev \in poll(tab[w.fd + 1], {w.ev}))

\* epoll_wait finds the descriptors of its map in the table of the waiting task
EpollRound(t, c) ==
    LET open == {w \in interest[files[c.f].chan] : File(t, w.fd) # None}
        ready == {w \in open : poll(File(t, w.fd), {w.ev}) # {}}
    IN  IF Cardinality(ready) > c.max THEN Halt      \* the index into the user's buffer
        ELSE Round(t, c, {File(t, w.fd) : w \in {x \in open : x.ev = "in"}}, ready # {})

sys_ppoll(t, w, timed) == PpollRound(t, [op |-> "ppoll", w |-> w, timed |-> timed])
\* only a positive timeout ends a poll
sys_poll(t, w, timeout) == PpollRound(t, [op |-> "ppoll", w |-> w, timed |-> timeout > 0])

\* a wait that yields before its first round
Yields(t, c) == /\ call' = [call EXCEPT ![t] = c]
                /\ UNCHANGED <<table, files, queue, interest>> /\ Quiet /\ Belief

sys_pselect(t, w, timed) == Yields(t, [op |-> "pselect", w |-> w, timed |-> timed])

sys_epoll_wait(t, epfd, max, timed) ==
    LET f == File(t, epfd)
    IN  /\ f # None /\ files[f].kind = "epoll"
        /\ Yields(t, [op |-> "epoll", f |-> f, max |-> max, timed |-> timed])

sys_epoll_create1(t) ==
    /\ FreshChan # {} /\ FreshFile(files) # {}
    /\ Opened(ProcOf[t], new_dev("epoll", Min(FreshChan)), interest)
    /\ Quiet

\* the map is keyed by the number of the descriptor
ctl(set, op, fd, ev) ==
    LET others == {w \in set : w.fd # fd}
    IN  CASE op = "add" -> others \cup {[fd |-> fd, ev |-> ev]}
          [] op = "del" -> others
          [] op = "mod" -> IF others = set THEN set ELSE others \cup {[fd |-> fd, ev |-> ev]}

sys_epoll_ctl(t, epfd, op, fd, ev) ==
    LET f == File(t, epfd)
    IN  /\ f # None /\ files[f].kind = "epoll" /\ File(t, fd) # None
        /\ interest' = [interest EXCEPT ![files[f].chan] = ctl(@, op, fd, ev)]
        /\ UNCHANGED <<table, files, queue, call>> /\ Quiet /\ Belief

(***************************************************************************)
(* Processes.                                                              *)
(***************************************************************************)
TasksOf(p) == {t \in Tasks : ProcOf[t] = p}
\* cow_fork: the table is cloned, the limit is not
cow_fork(t) ==
    LET p == ProcOf[t]
    IN  \E q \in Forked \ {p} :
          /\ TasksOf(q) \subseteq ended /\ table[q] = <<>>
          /\ table' = [table EXCEPT ![q] = table[p]]
          /\ limit' = [limit EXCEPT ![q] = FILE_MAX]
          /\ told' = [told EXCEPT ![q] = told[p]]
          /\ excused' = [excused EXCEPT ![q] = excused[p]]
          /\ ended' = ended \ TasksOf(q) /\ exiting' = exiting \ {q}
          /\ UNCHANGED <<files, queue, interest, call, typed, ttybuf, halted>>

\* the table of p and what the process believes of it are gone
Cleared(p, cs) ==
    /\ Settle([table EXCEPT ![p] = <<>>], cs, files, queue, interest)
    /\ told' = [told EXCEPT ![p] = {}] /\ excused' = [excused EXCEPT ![p] = {}]

\* the main thread leaves as the last one
CleansUp(t) == t \in Mains /\ TasksOf(ProcOf[t]) \subseteq ended \cup {t}

\* A task leaves; the descriptors are closed when the main thread is the last.
Leaves(t) ==
    /\ ended' = ended \cup {t}
    /\ IF CleansUp(t)
       THEN Cleared(ProcOf[t], call)
       ELSE UNCHANGED <<table, call, files, queue, interest>> /\ Belief
    /\ UNCHANGED <<limit, typed, ttybuf, halted>>

\* UserTask::thread_exit (sys_exit): the other threads go on
thread_exit(t) ==
    /\ Leaves(t)
    /\ exiting' = IF CleansUp(t) THEN exiting \cup {ProcOf[t]} ELSE exiting

\* UserTask::exit (sys_exit_group) sets the exit code of the process
exit(t) == Leaves(t) /\ exiting' = exiting \cup {ProcOf[t]}

\* another thread of an exiting process stops; the call it waits in is dropped
Stops(t) ==
    /\ ~halted /\ t \notin ended /\ ProcOf[t] \in exiting
    /\ ended' = ended \cup {t}
    /\ Settle(table, Finished(t), files, queue, interest)
    /\ UNCHANGED <<limit, exiting, typed, ttybuf, halted, calls>> /\ Belief

\* the process control block of a process without tasks is dropped
Released(p) ==
    /\ ~halted /\ TasksOf(p) \subseteq ended /\ table[p] # <<>>
    /\ Cleared(p, call)
    /\ UNCHANGED <<limit, ended, exiting, typed, ttybuf, halted, calls>>

-----------------------------------------------------------------------------
FdRange == 0 .. FILE_MAX

\* A program that has closed descriptors 1 and 2 of FileTable::new and opened a
\* pipe on them.
Init ==
    /\ table = [p \in Procs |-> IF p \in Forked THEN <<>>
                                ELSE [i \in 1 .. FILE_MAX |-> IF i <= 3 THEN i ELSE None]]
    /\ limit = [p \in Procs |-> FILE_MAX]
    /\ files = [f \in FileIds |-> CASE f = 1 -> Tty
                                    [] f = 2 -> new_dev("rx", 1)
                                    [] f = 3 -> new_dev("tx", 1)
                                    [] OTHER -> NoFile]
    /\ queue = [c \in Chans |-> 0] /\ interest = [c \in Chans |-> {}]
    /\ call = [t \in Tasks |-> Idle]
    /\ ended = {t \in Tasks : ProcOf[t] \in Forked} /\ exiting = {}
    /\ typed = 0 /\ ttybuf = 0 /\ halted = FALSE
    /\ told = [p \in Procs |-> IF p \in Forked THEN {} ELSE {0, 1, 2}]
    /\ excused = [p \in Procs |-> {}] /\ calls = 0

\* The descriptors a call names are looked up in the table.
OnDescriptor(t, fd) ==
    \/ \E n \in ReadSizes : sys_read(t, fd, n)
    \/ \E n \in WriteSizes : sys_write(t, fd, n)
    \/ sys_readv(t, fd) \/ sys_writev(t, fd)
    \/ \E dst \in DupTargets : Safe(t, dst) /\ sys_dup3(t, fd, dst)
    \/ sys_dup(t, fd)
    \/ sys_fcntl(t, fd, TRUE, FALSE)        \* O_NONBLOCK alone
    \/ sys_epoll_wait(t, fd, 1, FALSE)
    \/ \E op \in {"add", "del", "mod"}, w \in UNION Watches :
         Safe(t, w.fd) /\ sys_epoll_ctl(t, fd, op, w.fd, w.ev)

\* The index of get_fd or set_fd is out of bounds.
OutOfBounds(t, fd) == ~Safe(t, fd) /\ Halt

\* Calls that look a descriptor up and do nothing with the file: owners and locks
\* are answered with success and not kept, and nothing is buffered.
sys_fstat(t, fd) == OutOfBounds(t, fd)

sys_fchown(t, fd) == OutOfBounds(t, fd)

sys_fsync(t, fd) == OutOfBounds(t, fd)

sys_fdatasync(t, fd) == OutOfBounds(t, fd)

sys_flock(t, fd) == OutOfBounds(t, fd)

\* sync looks up every descriptor from 0 to 255
sys_sync(t) == \E fd \in FdRange : OutOfBounds(t, fd)

Calls(t) ==
    \/ \E fd \in FdRange : Safe(t, fd) /\ OnDescriptor(t, fd)
    \/ \E fd \in FdRange : \/ OutOfBounds(t, fd)
                          \/ sys_fstat(t, fd) \/ sys_fchown(t, fd) \/ sys_fsync(t, fd)
                          \/ sys_fdatasync(t, fd) \/ sys_flock(t, fd)
    \/ sys_sync(t)
    \/ \E fd \in FdRange : sys_close(t, fd)
    \/ sys_pipe2(t) \/ sys_socket_pair(t) \/ sys_epoll_create1(t)
    \/ \E w \in Watches : (\A x \in w : Safe(t, x.fd)) /\
         (\/ \E timed \in BOOLEAN : sys_ppoll(t, w, timed) \/ sys_pselect(t, w, timed)
          \/ \E timeout \in {0, 1} : sys_poll(t, w, timeout))
    \/ \E lim \in Limits : sys_prlimit64(t, lim)
    \/ cow_fork(t) \/ thread_exit(t) \/ exit(t)

\* a call without effect is not counted: it is a stuttering step
Same == UNCHANGED <<table, limit, files, queue, interest, call, ended, exiting, typed, ttybuf,
                    halted, told, excused>>

SysCall(t) == /\ calls < MaxCalls
              /\ Running(t) /\ ProcOf[t] \notin exiting
              /\ Calls(t)
              /\ calls' = IF Same THEN calls ELSE calls + 1

\* The executor polls the task again.
Retry(t) ==
    LET c == call[t]
    IN  /\ ~halted /\ UNCHANGED calls
        /\ CASE c.op = "read"    -> WaitBlockingRead(t, c)
             [] c.op = "write"   -> WaitBlockingWrite(t, c)
             [] c.op = "ppoll"   -> IF \A w \in c.w : Safe(t, w.fd) THEN PpollRound(t, c) ELSE Halt
             [] c.op = "pselect" -> PselectRound(t, c)
             [] c.op = "epoll"   -> IF \A w \in interest[files[c.f].chan] : Safe(t, w.fd)
                                    THEN EpollRound(t, c) ELSE Halt
             [] OTHER -> FALSE

\* A character arrives at the console.
Key == /\ ~halted /\ calls < MaxCalls /\ typed < MaxChars
       /\ typed' = typed + 1 /\ calls' = calls + 1
       /\ UNCHANGED <<table, limit, files, queue, interest, call, ended, exiting, ttybuf, halted>>
       /\ Belief

Next == \/ \E t \in Tasks : SysCall(t) \/ Retry(t) \/ Stops(t)
        \/ \E p \in Procs : Released(p)
        \/ Key

\* The executor polls every task in its queue, again and again.
Spec == Init /\ [][Next]_vars /\ \A t \in Tasks : WF_vars(Retry(t))

-----------------------------------------------------------------------------
\* A blocked read of a pipe ends once nothing can write to the pipe any more:
\* no descriptor of any process and no blocked call holds the sending end.
EofReachesReader ==
    \A t \in Tasks : ~<>[](/\ ~halted /\ call[t].op = "read"
                           /\ files[call[t].f].kind = "rx"
                           /\ ~SenderAlive(files[call[t].f].chan))

\* A blocked write of at most PIPE_BUFFER_SIZE bytes does not stay blocked on a
\* pipe that is empty; a longer one is never written.
WriterProgress ==
    \A t \in Tasks : ~<>[](/\ ~halted /\ call[t].op = "write"
                           /\ files[call[t].f].kind = "tx" /\ call[t].n <= PIPE_BUFFER_SIZE
                           /\ queue[files[call[t].f].chan] = 0)

\* what a task waits to read from: pselect never sees an end of file
Readable(t) ==
    LET c == call[t]
        can(w, f) == w.ev = "in" /\ f # None /\ ~CannotPoll(f) /\ readat(f, 1).r = "ok"
    IN  CASE c.op = "ppoll" -> \E w \in c.w : Safe(t, w.fd) /\ can(w, File(t, w.fd))
          [] c.op = "epoll" -> \E w \in interest[files[c.f].chan] : Safe(t, w.fd) /\ can(w, File(t, w.fd))
          [] c.op = "pselect" ->
               \E w \in c.w : LET f == table[ProcOf[t]][w.fd + 1]
                              IN  w.fd < FILE_MAX /\ can(w, f) /\ readat(f, 1).n > 0
          [] OTHER -> FALSE

\* A task does not wait forever in ppoll, pselect or epoll_wait while one of the
\* files it waits to read from can be read without blocking (for pselect, can
\* be read for data).
WaitNotices == \A t \in Tasks : ~<>[](~halted /\ Readable(t))

\* A process believes those descriptors open that are open, but for the one
\* that pipe2 or socketpair leaves behind when it fails at the limit and the
\* one dup3 answers without setting it above the limit.
DescriptorsKnown ==
    \A p \in Procs : LET open == Occupied(table[p])
                     IN  (told[p] \ open) \cup (open \ told[p]) \subseteq excused[p]
=============================================================================

------------------------------ MODULE Sockets -------------------------------
(***************************************************************************)
(* TCP sockets between the threads of one process, over the loopback       *)
(* address: kernel/src/syscall/socket.rs, Socket (kernel/src/socket.rs)    *)
(* with its Drop, and the network stack (module Loopback).  A call runs to *)
(* its first await in one step; one that waits is kept in call[t] with the *)
(* socket it holds.                                                        *)
(*                                                                         *)
(* halted is the socket whose call made the kernel panic, or spin on a     *)
(* lock that the call itself holds; 0 while the kernel runs.               *)
(***************************************************************************)
EXTENDS Loopback, FdTable, SequencesExt

CONSTANTS Tasks, SockIds, NFds,     \* NFds: the limit on descriptors
          BindPorts,                \* ports given to bind and connect
          ReadSizes, WriteSizes,    \* lengths of buffers
          MaxCalls

VARIABLES net,
          socks,        \* Socket objects: inner, buf (its length), O_NONBLOCK
          table, call, exited, halted,
          arrived, taken, cut,  \* ghost: bytes that came to each connection, that
                                \* programs got, and that were dropped
          ends,                 \* ghost: an empty segment was taken from the connection
          home,                 \* ghost: the server at the far end when the connection
                                \* was accepted; 0 before, and when an end turned away
          calls

vars == <<net, socks, table, call, exited, halted, arrived, taken, cut, ends, home, calls>>
ghosts == <<arrived, taken, cut, ends, home>>

NoSock == [inner |-> <<"none", 0>>, buf |-> 0, nb |-> FALSE]
Idle == [op |-> "idle", k |-> 0]

Server(s) == <<"srv", s>>
Connection(c) == <<"conn", c>>
IsServer(k) == socks[k].inner[1] = "srv"
InnerId(k) == socks[k].inner[2]

Running(t) == halted = 0 /\ ~exited /\ call[t] = Idle
Sock(fd) == get_fd(table, NFds, fd)
FreshSock == {k \in SockIds : socks[k] = NoSock}
FreshSrv == {s \in SrvIds : net.srv[s] = Blank /\ \A k \in SockIds : socks[k].inner # Server(s)}

\* The connection the calls of SocketInterface work on: of a server its first,
\* if it is a client.  NotClient is Unsupported, NoIndex a panic.
NotClient == -1
NoIndex == 0
ConnOf(n, inner) ==
    CASE inner[1] = "conn" -> inner[2]
      [] inner[1] = "srv"  -> IF n.srv[inner[2]].client THEN ClientConn(n, inner[2]) ELSE NotClient
      [] OTHER -> NotClient

\* a client locks its own clients for the call: it must not be its own far end
SelfLock(n, inner) == inner[1] = "srv" /\ FarServer(n, ConnOf(n, inner)) = inner[2]

Halt(k) == halted' = k /\ UNCHANGED <<net, socks, table, call, exited>> /\ UNCHANGED ghosts

(***************************************************************************)
(* Socket::drop: closes what is still open when the socket and the tables  *)
(* of the stack hold the only references.  r is the state so far: the net, *)
(* the sockets, and the socket that made the kernel panic.                 *)
(***************************************************************************)
strong_count(n, ss, inner) ==
    Cardinality({k \in SockIds : ss[k].inner = inner})
    + IF inner[1] = "srv" THEN Cardinality({p \in Ports : n.map[p] = inner[2]}) ELSE 1

drop(r, k) ==
    LET inner == r.socks[k].inner
        c == ConnOf(r.net, inner)
        count == strong_count(r.net, r.socks, inner)
        closes == c > 0 /\ ~r.net.conn[c].closed /\ count \in {1, 2}
    IN  CASE r.fault # 0 -> r
          [] r.fault = 0 /\ (c = NoIndex \/ (closes /\ (ClosePanics(r.net, c) \/ SelfLock(r.net, inner))))
                      -> [r EXCEPT !.fault = k]
          [] OTHER    -> [r EXCEPT !.socks[k] = NoSock,
                                   !.net = IF closes THEN close(r.net, c) ELSE @]

\* The state after a step; sockets that nothing refers to any more are dropped.
Settle(n, ss, tab, cs, dropped) ==
    LET live == {tab[i] : i \in DOMAIN tab} \cup {cs[t].k : t \in Tasks}
        dead == {k \in SockIds : ss[k] # NoSock /\ k \notin live}
        r == FoldLeft(drop, [net |-> n, socks |-> ss, fault |-> 0], SetToSeq(dead))
        lost(c) == MapThenSumSet(LAMBDA k : ss[k].buf, {k \in dead : ConnOf(n, ss[k].inner) = c})
    IN  /\ net' = r.net /\ socks' = r.socks /\ halted' = r.fault
        /\ table' = tab /\ call' = cs
        /\ cut' = [c \in ConnIds |-> dropped[c] + lost(c)]

Finished(t) == [call EXCEPT ![t] = Idle]
Waits(t, c) == call' = [call EXCEPT ![t] = c] /\ UNCHANGED <<socks, table, halted>> /\ UNCHANGED ghosts
StillGhosts == UNCHANGED <<arrived, taken, ends, home>>

(***************************************************************************)
(* Calls.                                                                  *)
(***************************************************************************)
sys_socket(t) ==
    LET a == alloc_fd(table, NFds)  k == Min(FreshSock)
    IN  /\ FreshSock # {} /\ FreshSrv # {} /\ a.fd # NoFd
        /\ Settle(net, [socks EXCEPT ![k] = [NoSock EXCEPT !.inner = Server(Min(FreshSrv))]],
                  set_fd(a.tab, NFds, a.fd, k), call, cut)
        /\ StillGhosts

\* a port in use is not refused: the descriptor becomes one more socket of the
\* server at the port.  A connection cannot be bound.
sys_bind(t, fd, port) ==
    LET k == Sock(fd)  j == Min(FreshSock)
    IN  /\ k # None /\ (IsServer(k) \/ net.map[port] # 0)
        /\ IF net.map[port] # 0
           THEN /\ FreshSock # {}
                /\ Settle(net, [socks EXCEPT ![j] = [NoSock EXCEPT !.inner = Server(net.map[port])]],
                          set_fd(table, NFds, fd, j), call, cut)
           ELSE Settle(bind(net, InnerId(k), port), socks, table, call, cut)
        /\ StillGhosts

sys_listen(t, fd) ==
    LET k == Sock(fd)
    IN  /\ k # None /\ IsServer(k) /\ FreePorts(net) # {}
        /\ Settle(listen(net, InnerId(k)), socks, table, call, cut)
        /\ StillGhosts

\* both ends of the connection d that server s accepts, if the end that asked for
\* it did not turn away since
Accepted(s, d) ==
    LET n == accept(net, s)
    IN  [c \in ConnIds |-> IF FarEnd(n, c) # 0 /\ d \in {c, FarEnd(n, c)}
                           THEN FarServer(n, c) ELSE home[c]]

\* x turns away from the connections whose ports are its own, swapped
Parted(x) ==
    [c \in ConnIds |-> IF \/ c = x
                          \/ /\ net.conn[c].lport = net.conn[x].rport
                             /\ net.conn[c].rport = net.conn[x].lport
                       THEN 0 ELSE home[c]]

\* One turn of the loops of accept and accept4: the descriptor was chosen when
\* the call began.
AcceptTurn(t, c) ==
    IF IsServer(c.k) /\ net.srv[InnerId(c.k)].waiting # <<>>
    THEN LET s == InnerId(c.k)  j == Min(FreshSock)  d == Head(net.srv[s].waiting)
         IN  /\ FreshSock # {}
             /\ Settle(accept(net, s),
                       [socks EXCEPT ![j] = [inner |-> Connection(d),
                                             buf |-> 0, nb |-> c.nb]],
                       set_fd(table, NFds, c.fd, j), Finished(t), cut)
             /\ home' = Accepted(s, d)
             /\ UNCHANGED <<arrived, taken, ends>>
    ELSE Waits(t, c) /\ UNCHANGED net

sys_accept(t, fd) ==
    LET a == alloc_fd(table, NFds)
    IN  /\ Sock(fd) # None /\ a.fd # NoFd
        /\ AcceptTurn(t, [op |-> "accept", k |-> Sock(fd), fd |-> a.fd, nb |-> FALSE])

\* with O_NONBLOCK on the socket the call fails rather than wait
sys_accept4(t, fd, nb) ==
    LET a == alloc_fd(table, NFds)  k == Sock(fd)
    IN  /\ k # None /\ a.fd # NoFd
        /\ socks[k].nb => IsServer(k) /\ net.srv[InnerId(k)].waiting # <<>>
        /\ AcceptTurn(t, [op |-> "accept4", k |-> k, fd |-> a.fd, nb |-> nb])

\* accept, and only accept, ends with EINTR when a signal is pending
Interrupted(t) ==
    /\ halted = 0 /\ call[t].op = "accept" /\ UNCHANGED <<exited, calls>>
    /\ Settle(net, socks, table, Finished(t), cut) /\ StillGhosts

\* only Blocking makes connect try again
ConnectTurn(t, c) ==
    LET s == InnerId(c.k)
    IN  IF Connecting(net, s).map[c.port] = 0
        THEN net' = Connecting(net, s) /\ Waits(t, c)
        ELSE /\ Cardinality(UnusedConns(net)) > 1
             /\ Settle(connect(net, s, c.port), socks, table, Finished(t), cut) /\ StillGhosts

\* the same for an accepted connection
ReconnectTurn(t, c) ==
    LET x == InnerId(c.k)  n == reconnect(net, x, c.port, c.lo)
    IN  /\ IF net.map[c.port] = 0
           THEN net' = n /\ call' = [call EXCEPT ![t] = c] /\ UNCHANGED <<socks, table, halted, cut>>
           ELSE UnusedConns(net) # {} /\ Settle(n, socks, table, Finished(t), cut)
        /\ home' = Parted(x)
        /\ UNCHANGED <<arrived, taken, ends>>

Turn(t, c) == IF IsServer(c.k) THEN ConnectTurn(t, c) ELSE ReconnectTurn(t, c)

\* lo: the program gives 127.0.0.1, which only a server replaces
sys_connect(t, fd, port, lo) ==
    LET k == Sock(fd)
    IN  /\ k # None /\ (IsServer(k) /\ net.srv[InnerId(k)].port = 0 => FreePorts(net) # {})
        /\ Turn(t, [op |-> "connect", k |-> k, port |-> port, lo |-> lo /\ ~IsServer(k)])

(***************************************************************************)
(* Data.  Socket::readat keeps what did not fit in buf; recvfrom takes the *)
(* next segment past buf and drops what does not fit.                      *)
(***************************************************************************)
Least(a, b) == IF a <= b THEN a ELSE b
Data(k) == LET x == ConnOf(net, socks[k].inner) IN IF x > 0 THEN net.conn[x].data ELSE <<>>

\* programs get m bytes of a segment of connection x
Delivered(x, m, segment) ==
    /\ taken' = [taken EXCEPT ![x] = @ + m]
    /\ ends' = [ends EXCEPT ![x] = @ \/ segment = 0]
    /\ UNCHANGED <<arrived, home>>

Popped(x) == [net EXCEPT !.conn[x].data = Tail(@)]

\* a bug: what does not fit is forgotten
readat_forgets(t, c) ==
    LET x == ConnOf(net, socks[c.k].inner)
    IN  IF Data(c.k) = <<>> THEN Waits(t, c) /\ UNCHANGED net
        ELSE LET m == Least(Head(Data(c.k)), c.n)
             IN  /\ Settle(Popped(x), socks, table, Finished(t), cut)
                 /\ Delivered(x, m, Head(Data(c.k)))

readat(t, c) ==
    LET x == ConnOf(net, socks[c.k].inner)
        buf == socks[c.k].buf
        segment == Head(Data(c.k))
        whole == IF buf > 0 THEN buf ELSE segment
        m == Least(whole, c.n)
    IN  CASE buf = 0 /\ x = NoIndex -> Halt(c.k)
          [] buf = 0 /\ x # NoIndex /\ Data(c.k) = <<>> -> Waits(t, c) /\ UNCHANGED net
          [] OTHER -> /\ Settle(IF buf > 0 THEN net ELSE Popped(x),
                                [socks EXCEPT ![c.k].buf = whole - m], table, Finished(t), cut)
                      /\ Delivered(x, m, whole)

RecvTurn(t, c) ==
    LET x == ConnOf(net, socks[c.k].inner)
        segment == Head(Data(c.k))
        m == Least(segment, c.n)
    IN  CASE x = NoIndex -> Halt(c.k)
          [] x # NoIndex /\ Data(c.k) = <<>> -> Waits(t, c) /\ UNCHANGED net
          [] OTHER -> /\ Settle(Popped(x), socks, table, Finished(t), [cut EXCEPT ![x] = @ + segment - m])
                      /\ Delivered(x, m, segment)

\* With O_NONBLOCK a call that would wait fails.
MayWait(k) == socks[k].nb => Data(k) # <<>> \/ socks[k].buf > 0

sys_read(t, fd, n) == /\ Sock(fd) # None /\ MayWait(Sock(fd))
                      /\ readat(t, [op |-> "read", k |-> Sock(fd), n |-> n])

sys_recvfrom(t, fd, n) == /\ Sock(fd) # None /\ (socks[Sock(fd)].nb => Data(Sock(fd)) # <<>>)
                          /\ RecvTurn(t, [op |-> "recvfrom", k |-> Sock(fd), n |-> n])

Sends(k, x, n) ==
    LET to == Reached(net, x)
    IN  IF SelfLock(net, socks[k].inner) THEN Halt(k)
        ELSE /\ Settle(send_data(net, x, n), socks, table, call, cut)
             /\ arrived' = [c \in ConnIds |-> arrived[c] + IF c \in to THEN n ELSE 0]
             /\ UNCHANGED <<taken, ends, home>>

\* Socket::writeat: a socket that is not connected answers EPERM
sys_write(t, fd, n) ==
    LET k == Sock(fd)  x == ConnOf(net, socks[k].inner)
    IN  /\ k # None /\ x # NotClient
        /\ IF x = NoIndex THEN Halt(k) ELSE Sends(k, x, n)

\* sendto expects the stack to take the data
sys_sendto(t, fd, n) ==
    LET k == Sock(fd)  x == ConnOf(net, socks[k].inner)
    IN  k # None /\ IF x \in {NotClient, NoIndex} THEN Halt(k) ELSE Sends(k, x, n)

sys_shutdown(t, fd) ==
    LET k == Sock(fd)  x == ConnOf(net, socks[k].inner)
    IN  /\ k # None /\ x # NotClient
        /\ IF x = NoIndex \/ SelfLock(net, socks[k].inner) \/ ClosePanics(net, x) THEN Halt(k)
           ELSE Settle(close(net, x), socks, table, call, cut) /\ StillGhosts

\* expects the socket to have a far end
sys_getpeername(t, fd) ==
    LET k == Sock(fd) IN k # None /\ ConnOf(net, socks[k].inner) \in {NotClient, NoIndex} /\ Halt(k)

\* Socket::poll asks the stack whether there is data
poll(t, fd) ==
    LET k == Sock(fd) IN k # None /\ ConnOf(net, socks[k].inner) = NoIndex /\ Halt(k)

sys_close(t, fd) == Settle(net, socks, clear_fd(table, fd), call, cut) /\ StillGhosts

\* the process ends: its calls and its descriptors are dropped
exit == /\ halted = 0 /\ ~exited /\ exited' = TRUE /\ UNCHANGED calls
        /\ Settle(net, socks, <<>>, [t \in Tasks |-> Idle], cut) /\ StillGhosts

-----------------------------------------------------------------------------
\* A program with a listening socket and a socket that is not connected yet, or
\* that has also connected it and accepted the connection.
Listening == bind(NoNet, 1, Min(BindPorts))
Established == accept(connect(Listening, 2, Min(BindPorts)), 1)

Init ==
    /\ \E up \in BOOLEAN :
         /\ net = IF up THEN Established ELSE Listening
         /\ socks = [k \in SockIds |->
                       [NoSock EXCEPT !.inner = CASE k <= 2 -> Server(k)
                                                  [] k = 3 /\ up -> Connection(Established.srv[1].clients[1])
                                                  [] OTHER -> @]]
         /\ table = [i \in 1 .. NFds |-> IF i <= 2 \/ (i = 3 /\ up) THEN i ELSE None]
    /\ call = [t \in Tasks |-> Idle] /\ exited = FALSE /\ halted = 0
    /\ arrived = [c \in ConnIds |-> 0] /\ taken = arrived /\ cut = arrived
    /\ home = [c \in ConnIds |-> IF net.conn[c] = NoConn THEN 0 ELSE FarServer(net, c)]
    /\ ends = [c \in ConnIds |-> FALSE] /\ calls = 0

Calls(t) ==
    \/ sys_socket(t)
    \/ \E fd \in 0 .. NFds - 1 :
         \/ \E port \in BindPorts : \/ sys_bind(t, fd, port)
                                    \/ \E lo \in BOOLEAN : sys_connect(t, fd, port, lo)
         \/ sys_listen(t, fd) \/ sys_accept(t, fd)
         \/ \E nb \in BOOLEAN : sys_accept4(t, fd, nb)
         \/ \E n \in ReadSizes : sys_read(t, fd, n) \/ sys_recvfrom(t, fd, n)
         \/ \E n \in WriteSizes : sys_write(t, fd, n) \/ sys_sendto(t, fd, n)
         \/ sys_shutdown(t, fd) \/ sys_getpeername(t, fd) \/ poll(t, fd) \/ sys_close(t, fd)

Same == UNCHANGED <<net, socks, table, call, halted>> /\ UNCHANGED ghosts

SysCall(t) == /\ calls < MaxCalls /\ Running(t) /\ Calls(t) /\ UNCHANGED exited
              /\ calls' = IF Same THEN calls ELSE calls + 1

Retry(t) ==
    LET c == call[t]
    IN  /\ halted = 0 /\ UNCHANGED <<exited, calls>>
        /\ CASE c.op \in {"accept", "accept4"} -> AcceptTurn(t, c)
             [] c.op = "connect"  -> Turn(t, c)
             [] c.op = "read"     -> readat(t, c)
             [] c.op = "recvfrom" -> RecvTurn(t, c)
             [] OTHER -> FALSE

Next == \/ \E t \in Tasks : SysCall(t) \/ Retry(t) \/ Interrupted(t)
        \/ exit

Spec == Init /\ [][Next]_vars

-----------------------------------------------------------------------------
SumSeq(s) == FoldLeft(LAMBDA a, b : a + b, 0, s)

\* Every byte that came to a connection was handed to a program, waits in the
\* connection or in the buffer of one of its sockets, or was dropped by a
\* recvfrom whose buffer was too small or with the socket.
StreamConserved ==
    halted = 0 =>
    \A c \in ConnIds :
        arrived[c] = SumSeq(net.conn[c].data) + taken[c] + cut[c]
                     + MapThenSumSet(LAMBDA k : socks[k].buf,
                                     {k \in SockIds : ConnOf(net, socks[k].inner) = c})

\* A read of a closed connection finds nothing, and so waits forever, only when
\* the end of the stream was read before.
StuckOnlyAfterEnd ==
    \A c \in ConnIds : net.conn[c].closed /\ net.conn[c].data = <<>> => ends[c]

\* A socket whose connection was accepted at the far end, where the same server
\* still has the port; neither end has called connect since, and it is not
\* connected to itself.
Paired(k) ==
    LET x == ConnOf(net, socks[k].inner)
    IN  x > 0 /\ ~SelfLock(net, socks[k].inner) /\ home[x] # 0 /\ FarServer(net, x) = home[x]

\* No call on a socket, nor its drop, makes the kernel panic or lock itself up
\* once the connection of the socket is established on both ends, however
\* often and from whichever end it is closed, as long as neither end turns to
\* another port: a connect on an accepted socket overwrites its far address, and
\* the close of the end it leaves behind unwraps a connection that is not found.
HaltOnlyUnpaired == halted # 0 => ~Paired(halted)

\* An open descriptor comes to mean another socket only when an accept that
\* waited takes the descriptor it chose before, or by bind to a port in use.
ReplacedOnlyByLateAccept ==
    [][\A fd \in 0 .. Least(Len(table), Len(table')) - 1 :
         LET old == table[fd + 1]  new == table'[fd + 1]
         IN  old # None /\ new # None /\ new # old =>
               \/ \E t \in Tasks : call[t].op \in {"accept", "accept4"} /\ call[t].fd = fd /\ call'[t] = Idle
               \/ socks'[new].inner \in {Server(net.map[p]) : p \in BindPorts}]_vars
=============================================================================

------------------------------ MODULE Loopback ------------------------------
(***************************************************************************)
(* TCP over the loopback address as the kernel's network stack does it     *)
(* (vendor/lose-net-stack/src/connection): pure operators on its state     *)
(*                                                                         *)
(*   srv   a TcpServer: its port (0 when it is not bound), is_client, the  *)
(*         connections in clients and in wait_queue                        *)
(*   conn  a TcpConnection: its ports, whether it is closed (is_closed),   *)
(*         the lengths of the segments in datas (0 for the empty one that  *)
(*         tells the end), and lo: whether the far address is 127.0.0.1    *)
(*   map   tcp_map: the server at each port, 0 when there is none          *)
(*                                                                         *)
(* An address is a port: it belongs to the one address of the machine,     *)
(* except that lo says it is kept as 127.0.0.1, which leads to the same    *)
(* server and differs in comparisons.                                      *)
(***************************************************************************)
EXTENDS Integers, Sequences, FiniteSets, FiniteSetsExt

CONSTANTS Ports, Ephemeral,     \* all ports; the ones alloc_tcp_port hands out
          SrvIds, ConnIds

Blank == [port |-> 0, client |-> FALSE, clients |-> <<>>, waiting |-> <<>>]
NoConn == [lport |-> 0, rport |-> 0, closed |-> FALSE, data |-> <<>>, lo |-> FALSE]

NoNet == [srv |-> [s \in SrvIds |-> Blank], conn |-> [c \in ConnIds |-> NoConn],
          map |-> [p \in Ports |-> 0]]

UnusedConns(net) == {c \in ConnIds : net.conn[c] = NoConn}
FreePorts(net) == {p \in Ephemeral : net.map[p] = 0}

\* the old port of the server is given up
bind(net, s, port) ==
    LET p == IF port = 0 THEN Min(FreePorts(net)) ELSE port
        old == net.srv[s].port
    IN  [net EXCEPT !.srv[s].port = p,
                    !.map = [q \in Ports |-> CASE q = p   -> s
                                               [] q # p /\ q = old -> 0
                                               [] OTHER   -> @[q]]]

listen(net, s) == IF net.srv[s].port = 0 THEN bind(net, s, 0) ELSE net

\* connect has marked the server as a client and bound it when it finds that
\* nobody is at the port: Blocking
Connecting(net, s) == [listen(net, s) EXCEPT !.srv[s].client = TRUE]

connect(net, s, port) ==
    LET n == Connecting(net, s)
        c == Min(UnusedConns(n))
        d == Min(UnusedConns(n) \ {c})
        me == n.srv[s].port
    IN  [n EXCEPT !.conn[c] = [NoConn EXCEPT !.lport = me, !.rport = port],
                  !.conn[d] = [NoConn EXCEPT !.lport = port, !.rport = me],
                  !.srv = [r \in SrvIds |->
                             [@[r] EXCEPT !.clients = IF r = s THEN Append(@, c) ELSE @,
                                          !.waiting = IF r = n.map[port] THEN Append(@, d) ELSE @]]]

\* connect of a connection: it turns to another port, whatever its old far end
\* is about, and is queued there.  With nobody at the port it only turns away.
reconnect(net, c, port, lo) ==
    LET d == Min(UnusedConns(net))
        turned == [net EXCEPT !.conn[c].rport = port, !.conn[c].lo = lo, !.conn[c].closed = FALSE]
    IN  IF net.map[port] = 0 THEN turned
        ELSE [turned EXCEPT !.conn[d] = [NoConn EXCEPT !.lport = port, !.rport = net.conn[c].lport],
                            !.srv[net.map[port]].waiting = Append(@, d)]

accept(net, s) ==
    LET c == Head(net.srv[s].waiting)
    IN  [net EXCEPT !.srv[s].waiting = Tail(@), !.srv[s].clients = Append(@, c)]

\* the first of a sequence of connections whose other end is at port, by the
\* address of the machine or by 127.0.0.1, or 0
FirstFrom(net, seq, port, lo) ==
    LET at == {i \in DOMAIN seq : net.conn[seq[i]].rport = port /\ net.conn[seq[i]].lo = lo}
    IN  IF at = {} THEN 0 ELSE seq[Min(at)]

\* The server at the far port of c, and there the connection that accept has
\* returned for c.  Data finds it by the address of c, close by the port of c at
\* the address c is connected to.
FarServer(net, c) ==
    IF net.conn[c].rport \in Ports THEN net.map[net.conn[c].rport] ELSE 0
get_client(net, c, lo) ==
    IF FarServer(net, c) = 0 THEN 0
    ELSE FirstFrom(net, net.srv[FarServer(net, c)].clients, net.conn[c].lport, lo)
InQueue(net, c) ==
    IF FarServer(net, c) = 0 THEN 0
    ELSE FirstFrom(net, net.srv[FarServer(net, c)].waiting, net.conn[c].lport, FALSE)
FarEnd(net, c) == get_client(net, c, net.conn[c].lo)

\* data goes to the accepted connection and to the one that waits, if any
Reached(net, c) == {get_client(net, c, FALSE), InQueue(net, c)} \ {0}

send_data(net, c, n) ==
    LET to == Reached(net, c)
    IN  [net EXCEPT !.conn = [d \in ConnIds |->
                                IF n > 0 /\ d \in to THEN [@[d] EXCEPT !.data = Append(@, n)] ELSE @[d]]]

\* Both ends are closed and get an empty segment; with nobody at the far port
\* nothing happens.  ClosePanics: the accepted end is unwrapped.
ClosePanics(net, c) == FarServer(net, c) # 0 /\ FarEnd(net, c) = 0

Ended(conn) == [conn EXCEPT !.closed = TRUE, !.data = Append(@, 0)]

\* a bug: the end that closes does not learn of it
close_far_only(net, c) ==
    [net EXCEPT !.conn = [d \in ConnIds |->
        CASE d = FarEnd(net, c) -> Ended(@[d])
          [] d = c /\ d # FarEnd(net, c) /\ FarEnd(net, c) # 0 -> [@[d] EXCEPT !.closed = TRUE]
          [] OTHER -> @[d]]]

\* a bug: the accepted end is forgotten
close_forgets(net, c) ==
    LET x == FarEnd(net, c)  t == FarServer(net, c)
    IN  IF x = 0 THEN net
        ELSE [net EXCEPT !.conn[x] = Ended(@), !.conn[c] = Ended(@),
                         !.srv[t].clients = SelectSeq(@, LAMBDA d : d # x)]

close(net, c) ==
    [net EXCEPT !.conn = [d \in ConnIds |->
        CASE FarEnd(net, c) = 0        -> @[d]
          [] FarEnd(net, c) = c /\ d = c -> Ended(Ended(@[d]))
          [] FarEnd(net, c) \notin {0, c} /\ d \in {c, FarEnd(net, c)} -> Ended(@[d])
          [] OTHER -> @[d]]]

\* The connection behind a server that is a client (clients[0]), 0 when the
\* index would be out of bounds.
ClientConn(net, s) == IF net.srv[s].clients = <<>> THEN 0 ELSE Head(net.srv[s].clients)
=============================================================================

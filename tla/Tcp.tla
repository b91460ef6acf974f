-------------------------------- MODULE Tcp --------------------------------
(* The TCP client of the kernel (net/tcp.c) under the socket layer (net/socket.c)
   and the socket system calls.  Frames are taken from the NIC by the polling
   thread of net.c and, while it waits for a SYN-ACK, by every thread inside
   tcp_connect; tcp_input takes no lock.  The peer and the network are external:
   what the peer has sent may arrive late, out of order, several times or never. *)
EXTENDS Naturals, Sequences, FiniteSets

CONSTANTS
  App,        \* the threads that open connections
  Workloads,  \* the instances to check, see TcpInit
  None,       \* NULL, or "no such thing"
  Pad         \* the content of the padding of a short Ethernet frame

ASSUME TcpConstants ==
  /\ None \notin Nat
  /\ \A w \in Workloads : w.conns \in Nat /\ w.socks \in Nat /\ w.rxbuf \in Nat

VARIABLES
  workload,     \* the instance this behaviour belongs to
  in_use,       \* the slots of s_conns that are taken
  conn,         \* the other fields of s_conns
  s_next_port,
  s_used,       \* reserved slots of s_socks
  s_socks,      \* the connection of every socket
  pc,           \* where an application thread is
  sock, cur,    \* its socket, and the connection it works on
  polls,        \* iterations left of the loop in tcp_connect
  rx,           \* where a poller is: "idle", "frame" (read), "match" (in tcp_input)
  rxc, rxseg,   \* its connection and the header fields it has read
  buf,          \* the two frame buffers: s_rx_frame of net.c, s_poll_buf of tcp.c
  peer,         \* by our port: what the peer has received and sent
  got,          \* the bytes a thread has received on its connection
  tainted,      \* connections whose input was disturbed, see StreamPrefix
  leaked        \* connections a second connect() on the socket has left behind

kernelVars == <<in_use, conn, s_next_port, s_used, s_socks>>
appVars == <<pc, sock, cur, polls>>
rxVars == <<rx, rxc, rxseg, buf>>
tcpVars == <<workload, kernelVars, appVars, rxVars, peer, got, tainted, leaked>>

Conns == 1..workload.conns
Socks == 1..workload.socks
Ports == 1..workload.connects
RxCap == workload.rxbuf - 1
NetThread == "net_thread_fn"
Poller == App \cup {NetThread}
BufOf(t) == IF t = NetThread THEN "s_rx_frame" ELSE "s_poll_buf"

Closed == [state |-> "CLOSED", src_port |-> 0, rcv_nxt |-> 0, rxbuf |-> <<>>]
Silent == [syn |-> FALSE, ack |-> 0, req |-> FALSE, synack |-> FALSE, sent |-> 0,
           fin |-> FALSE, rst |-> FALSE]

TcpInit ==
  /\ workload \in Workloads
  /\ in_use = {}
  /\ conn = [c \in Conns |-> Closed]
  /\ s_next_port = 1
  /\ s_used = {} /\ s_socks = [i \in Socks |-> None]
  /\ pc = [a \in App |-> IF a \in workload.apps THEN "user" ELSE "gone"]
  /\ sock = [a \in App |-> None] /\ cur = [a \in App |-> None]
  /\ polls = [a \in App |-> 0]
  /\ rx = [t \in Poller |-> "idle"]
  /\ rxc = [t \in Poller |-> None] /\ rxseg = [t \in Poller |-> None]
  /\ buf = [b \in {"s_rx_frame", "s_poll_buf"} |-> None]
  /\ peer = [p \in Ports |-> Silent]
  /\ got = [a \in App |-> <<>>]
  /\ tainted = {} /\ leaked = {}

-----------------------------------------------------------------------------
(* The wire *)

(* The peer's stream on the connection with our port p. *)
Byte(p, i) == <<p, i>>
Padding == IF "pad" \in workload.may THEN <<Pad>> ELSE <<>>
Segment(p, flags, seq, data) == [port |-> p, flags |-> flags, seq |-> seq, data |-> data]

(* Every segment the peer has sent and may send again.  A frame without data is
   shorter than 60 bytes, and ipv4_recv takes the padding for payload. *)
Segments(p) ==
  LET q == peer[p] IN
       (IF q.synack THEN {Segment(p, {"SYN", "ACK"}, 0, <<>>)} ELSE {})
  \cup {Segment(p, {"ACK"}, i, <<Byte(p, i)>>) : i \in 1..q.sent}
  \cup {Segment(p, {"ACK"}, i, Padding) : i \in IF q.req THEN 1..q.sent + 1 ELSE {}}
  \cup (IF q.fin THEN {Segment(p, {"FIN", "ACK"}, q.sent + 1, Padding)} ELSE {})
  \cup (IF q.rst THEN {Segment(p, {"RST"}, q.sent + 1, Padding)} ELSE {})

(* The other host.  It answers a SYN, sends its bytes once the handshake is
   acknowledged and within the window tcp_send_seg advertises, which is always
   TCP_RXBUF - 1, and closes or resets when it likes. *)
Peer(p) ==
  LET q == peer[p] IN
  /\ q.syn /\ ~q.rst
  /\ \/ ~q.synack /\ peer' = [peer EXCEPT ![p].synack = TRUE]
     \/ /\ q.ack > 0 /\ ~q.fin /\ q.sent < workload.bytes /\ q.sent + 1 < q.ack + RxCap
        /\ peer' = [peer EXCEPT ![p].sent = @ + 1]
     \/ "fin" \in workload.may /\ q.ack > 0 /\ ~q.fin /\ peer' = [peer EXCEPT ![p].fin = TRUE]
     \/ "rst" \in workload.may /\ peer' = [peer EXCEPT ![p].rst = TRUE]
  /\ UNCHANGED <<workload, kernelVars, appVars, rxVars, got, tainted, leaked>>

(* tcp_send_seg: what reaches the peer.  ipv4_send drops the segment when the
   next hop's MAC is not cached, and the network may lose it as well. *)
Deliver(p, what) ==
  \/ UNCHANGED peer
  \/ peer' = [peer EXCEPT ![p] = CASE what = "SYN" -> [@ EXCEPT !.syn = TRUE]
                                   [] what = "data" -> [@ EXCEPT !.req = TRUE]]

(* The acknowledgement number only grows, so the last one sent says it all. *)
Acked(p, n) == [peer EXCEPT ![p].ack = IF n > @ THEN n ELSE @]

-----------------------------------------------------------------------------
(* Input *)

Lowest(S) == CHOOSE i \in S : \A j \in S : i <= j

(* nic->recv fills the caller's frame buffer.  s_poll_buf belongs to whoever is in
   tcp_connect: a second poller overwrites it under the first. *)
Receive(t, seg) ==
  /\ rx' = [rx EXCEPT ![t] = "frame"]
  /\ buf' = [buf EXCEPT ![BufOf(t)] = seg]
  /\ tainted' = tainted \cup
       {rxc[u] : u \in {v \in Poller : BufOf(v) = BufOf(t) /\ rx[v] = "match"}}
  /\ UNCHANGED <<rxc, rxseg>>

Matches_AnyPort(p) == in_use
Matches(p) == {c \in in_use : conn[c].src_port = p}

(* The poller is done with its frame.  Nobody reads what is left in the buffer,
   so the model forgets it. *)
Released(t) ==
  IF \E u \in Poller \ {t} : BufOf(u) = BufOf(t) /\ rx[u] # "idle" THEN buf
  ELSE [buf EXCEPT ![BufOf(t)] = None]

(* Two pollers in tcp_input for one connection, or one that is there while the
   slot is handed out again. *)
Disturbed(c) == {x \in {c} : \E u \in Poller : rx[u] = "match" /\ rxc[u] = x}

(* tcp_input up to "Find matching connection": reads the header, and goes through
   s_conns without a lock. *)
InputMatch(t) ==
  /\ rx[t] = "frame"
  /\ LET seg == buf[BufOf(t)]
         found == Matches(seg.port)
     IN  IF found = {}
           THEN /\ rx' = [rx EXCEPT ![t] = "idle"]
                /\ buf' = Released(t)
                /\ UNCHANGED <<rxc, rxseg, tainted>>
           ELSE /\ rx' = [rx EXCEPT ![t] = "match"]
                /\ rxc' = [rxc EXCEPT ![t] = Lowest(found)]
                /\ rxseg' = [rxseg EXCEPT ![t] = seg]
                /\ tainted' = tainted \cup Disturbed(Lowest(found))
                /\ UNCHANGED buf
  /\ UNCHANGED <<workload, kernelVars, appVars, peer, got, leaked>>

(* rxbuf_push: the bytes that fit; the rest is dropped. *)
Pushed(q, data) == q \o SubSeq(data, 1, IF Len(q) + Len(data) > RxCap THEN RxCap - Len(q) ELSE Len(data))

InOrder_Any(c, seg) == TRUE
InOrder(c, seg) == seg.seq = conn[c].rcv_nxt

(* A segment in state ESTABLISHED: data at rcv_nxt goes to the ring, and rcv_nxt
   counts all of it; a FIN closes the connection whatever its sequence number. *)
Established(c, seg, data) ==
  LET k == conn[c]
      take == Len(data) > 0 /\ InOrder(c, seg)
      k1 == IF take THEN [k EXCEPT !.rxbuf = Pushed(@, data), !.rcv_nxt = @ + Len(data)] ELSE k
      k2 == IF "FIN" \in seg.flags THEN [k1 EXCEPT !.rcv_nxt = @ + 1, !.state = "CLOSED"] ELSE k1
  IN  IF "RST" \in seg.flags
        THEN /\ conn' = [conn EXCEPT ![c].state = "CLOSED"]
             /\ UNCHANGED <<peer, tainted>>
        ELSE /\ conn' = [conn EXCEPT ![c] = k2]
             /\ peer' = IF k2.rcv_nxt = k.rcv_nxt THEN peer ELSE Acked(k.src_port, k2.rcv_nxt)
             /\ tainted' = tainted \cup
                  {x \in {c} : take /\ (data = <<Pad>> \/ Len(k.rxbuf) + Len(data) > RxCap)}

(* The rest of tcp_input.  The payload is read from the frame buffer only now. *)
InputState(t) ==
  /\ rx[t] = "match"
  /\ LET c == rxc[t]
         seg == rxseg[t]
     IN  \/ /\ conn[c].state = "SYN_SENT"
            /\ IF {"SYN", "ACK"} \subseteq seg.flags
                 THEN /\ conn' = [conn EXCEPT ![c].rcv_nxt = seg.seq + 1, ![c].state = "ESTABLISHED"]
                      /\ peer' = Acked(conn[c].src_port, seg.seq + 1)
                 ELSE /\ conn' = IF "RST" \in seg.flags
                                   THEN [conn EXCEPT ![c].state = "CLOSED"] ELSE conn
                      /\ UNCHANGED peer
            /\ UNCHANGED tainted
         \/ /\ conn[c].state = "ESTABLISHED"
            /\ Established(c, seg, buf[BufOf(t)].data)
         \/ conn[c].state = "CLOSED" /\ UNCHANGED <<conn, peer, tainted>>
  /\ rx' = [rx EXCEPT ![t] = "idle"]
  /\ rxc' = [rxc EXCEPT ![t] = None]
  /\ rxseg' = [rxseg EXCEPT ![t] = None]
  /\ buf' = Released(t)
  /\ UNCHANGED <<workload, in_use, s_next_port, s_used, s_socks, appVars, got, leaked>>

(* net_poll *)
NetPoll(seg) ==
  /\ rx[NetThread] = "idle"
  /\ Receive(NetThread, seg)
  /\ UNCHANGED <<workload, kernelVars, appVars, peer, got, leaked>>

-----------------------------------------------------------------------------
(* System calls.  A call that fails without a change (no free slot, no
   connection) is a stuttering step. *)

Goto(a, l) == pc' = [pc EXCEPT ![a] = l]

FreeSocks == Socks \ s_used

(* sys_socket, sock_alloc *)
Socket(a) ==
  /\ pc[a] = "user" /\ FreeSocks # {} /\ s_next_port \in Ports
  /\ LET i == Lowest(FreeSocks) IN
       /\ s_used' = s_used \cup {i}
       /\ s_socks' = [s_socks EXCEPT ![i] = None]
       /\ sock' = [sock EXCEPT ![a] = i]
  /\ Goto(a, "sock")
  /\ UNCHANGED <<workload, in_use, conn, s_next_port, cur, polls, rxVars, peer, got, tainted, leaked>>

FreeConns_All == Conns
FreeConns == Conns \ in_use

(* sys_connect, sock_connect, tcp_connect: alloc_conn marks the slot; its other
   fields are those of its last user. *)
Connect(a) ==
  /\ pc[a] \in {"sock"} \cup ({"open"} \cap workload.may) /\ FreeConns # {}
  /\ s_next_port + Cardinality({b \in App : pc[b] = "alloc"}) \in Ports
  /\ LET c == Lowest(FreeConns) IN
       /\ in_use' = in_use \cup {c}
       /\ cur' = [cur EXCEPT ![a] = c]
       /\ tainted' = (tainted \ {c}) \cup Disturbed(c)
  /\ Goto(a, "alloc")
  /\ UNCHANGED <<workload, conn, s_next_port, s_used, s_socks, sock, polls, rxVars, peer, got, leaked>>

(* The fields of the new connection, alloc_port, and the only SYN. *)
ConnectInit(a) ==
  /\ pc[a] = "alloc"
  /\ conn' = [conn EXCEPT ![cur[a]] =
                [Closed EXCEPT !.state = "SYN_SENT", !.src_port = s_next_port]]
  /\ s_next_port' = s_next_port + 1
  /\ Deliver(s_next_port, "SYN")
  /\ polls' = [polls EXCEPT ![a] = workload.polls]
  /\ tainted' = tainted \cup Disturbed(cur[a])
  /\ Goto(a, "syn")
  /\ UNCHANGED <<workload, in_use, s_used, s_socks, sock, cur, rxVars, got, leaked>>

PollsLeft_Same(a) == polls[a]
PollsLeft(a) == polls[a] - 1

Waiting(a) == pc[a] = "syn" /\ rx[a] = "idle" /\ conn[cur[a]].state = "SYN_SENT" /\ polls[a] > 0

(* One iteration of the wait for the SYN-ACK: poll_once finds a frame, or none. *)
Poll(a) ==
  /\ Waiting(a)
  /\ polls' = [polls EXCEPT ![a] = PollsLeft(a)]
  /\ \/ \E p \in Ports : \E seg \in Segments(p) : Receive(a, seg)
     \/ UNCHANGED <<rxVars, tainted>>
  /\ UNCHANGED <<workload, kernelVars, pc, sock, cur, peer, got, leaked>>

(* A slot that goes back: nobody reads the ring and rcv_nxt of a free slot. *)
Freed(c, state) == [conn EXCEPT ![c] = [Closed EXCEPT !.state = state, !.src_port = conn[c].src_port]]

(* The end of tcp_connect and of sock_connect. *)
ConnectDone(a) ==
  /\ pc[a] = "syn" /\ rx[a] = "idle" /\ ~Waiting(a)
  /\ LET c == cur[a]
         old == s_socks[sock[a]]
     IN  IF conn[c].state = "ESTABLISHED"
           THEN /\ s_socks' = [s_socks EXCEPT ![sock[a]] = c]
                /\ leaked' = leaked \cup ({old} \ {None})
                /\ got' = [got EXCEPT ![a] = <<>>]
                /\ Goto(a, "open")
                /\ UNCHANGED <<in_use, conn, cur>>
           ELSE /\ in_use' = in_use \ {c}
                /\ conn' = Freed(c, conn[c].state)
                /\ cur' = [cur EXCEPT ![a] = old]
                /\ Goto(a, IF old = None THEN "sock" ELSE "open")
                /\ UNCHANGED <<s_socks, leaked, got>>
  /\ polls' = [polls EXCEPT ![a] = 0]
  /\ UNCHANGED <<workload, s_next_port, s_used, sock, rxVars, peer, tainted>>

(* sys_send, sock_send, tcp_send: one segment, never sent again. *)
Send(a) ==
  /\ "send" \in workload.may /\ pc[a] = "open" /\ conn[cur[a]].state = "ESTABLISHED"
  /\ Deliver(conn[cur[a]].src_port, "data")
  /\ UNCHANGED <<workload, kernelVars, appVars, rxVars, got, tainted, leaked>>

RecvCall(a) ==
  /\ pc[a] = "open"
  /\ Goto(a, "recv")
  /\ UNCHANGED <<workload, kernelVars, sock, cur, polls, rxVars, peer, got, tainted, leaked>>

(* sys_recv around sock_recv: tcp_recv pops what there is, up to the caller's n
   bytes; when it returns 0 the state is looked at once more. *)
Recv(a, n) ==
  /\ pc[a] = "recv"
  /\ LET c == cur[a]
         q == conn[c].rxbuf
     IN  IF conn[c].state = "ESTABLISHED" /\ q # <<>>
           THEN /\ n <= Len(q)
                /\ got' = [got EXCEPT ![a] = @ \o SubSeq(q, 1, n)]
                /\ conn' = [conn EXCEPT ![c].rxbuf = SubSeq(q, n + 1, Len(q))]
                /\ Goto(a, "open")
           ELSE Goto(a, "test") /\ UNCHANGED <<got, conn>>
  /\ UNCHANGED <<workload, in_use, s_next_port, s_used, s_socks, sock, cur, polls, rxVars, peer,
                 tainted, leaked>>

AtEof_Never(a) == FALSE
AtEof(a) == conn[cur[a]].state # "ESTABLISHED"

RecvTest(a) ==
  /\ pc[a] = "test"
  /\ Goto(a, IF AtEof(a) THEN "ended" ELSE "recv")
  /\ UNCHANGED <<workload, kernelVars, sock, cur, polls, rxVars, peer, got, tainted, leaked>>

(* sys_close, sock_close: the socket slot first, then tcp_close. *)
Close(a) ==
  /\ pc[a] \in {"sock", "open", "ended"}
  /\ s_used' = s_used \ {sock[a]}
  /\ s_socks' = [s_socks EXCEPT ![sock[a]] = None]
  /\ sock' = [sock EXCEPT ![a] = None]
  /\ Goto(a, IF cur[a] = None THEN "user" ELSE "close")
  /\ UNCHANGED <<workload, in_use, conn, s_next_port, cur, polls, rxVars, peer, got, tainted, leaked>>

TcpClose(a) ==
  /\ pc[a] = "close"
  /\ in_use' = in_use \ {cur[a]}
  /\ conn' = Freed(cur[a], "CLOSED")
  /\ cur' = [cur EXCEPT ![a] = None]
  /\ got' = [got EXCEPT ![a] = <<>>]
  /\ Goto(a, "user")
  /\ UNCHANGED <<workload, s_next_port, s_used, s_socks, sock, polls, rxVars, peer, tainted, leaked>>

-----------------------------------------------------------------------------

(* The steps a thread takes by itself once it is inside a call. *)
Running(a) ==
  \/ ConnectInit(a) \/ Poll(a) \/ ConnectDone(a)
  \/ (\E n \in 1..RxCap : Recv(a, n)) \/ RecvTest(a) \/ TcpClose(a)

Input(t) == InputMatch(t) \/ InputState(t)

TcpNext ==
  \/ \E p \in Ports : Peer(p) \/ \E seg \in Segments(p) : NetPoll(seg)
  \/ \E t \in Poller : Input(t)
  \/ \E a \in App : \/ Running(a) \/ Socket(a) \/ Connect(a) \/ Send(a)
                   \/ RecvCall(a) \/ Close(a)

(* The peer repeats a FIN until it is acknowledged. *)
TakesFin(p) ==
  /\ p \in Ports
  /\ peer[p].fin /\ peer[p].ack <= peer[p].sent + 1
  /\ \E seg \in Segments(p) : "FIN" \in seg.flags /\ NetPoll(seg)

(* The scheduler runs every runnable thread, net_thread_fn polls for ever, and the
   network does not lose every copy of a FIN. *)
TcpFairness ==
  /\ \A a \in App : WF_tcpVars(Running(a))
  /\ \A t \in Poller : WF_tcpVars(Input(t))
  /\ \A p \in 1..2 : SF_tcpVars(TakesFin(p))

(* What a program reads is a prefix of what its peer wrote, in order and without a
   gap or a repetition, however segments are lost, reordered and duplicated:
   tcp_input takes only the segment at rcv_nxt.  It is said of connections on which
   no two pollers were in tcp_input at once or while the slot was handed out
   (tcp_input takes no lock), the shared s_poll_buf was not overwritten, no byte was
   dropped by a full ring after it had been acknowledged, and no padding of a short
   frame was taken for data. *)
StreamPrefix ==
  \A a \in App :
    pc[a] \in {"open", "recv", "test", "ended"} /\ cur[a] # None /\ cur[a] \notin tainted =>
      got[a] = [i \in 1..Len(got[a]) |-> Byte(conn[cur[a]].src_port, i)]

Owned ==
  /\ \A a, b \in App : cur[a] # None /\ cur[a] = cur[b] => a = b
  /\ \A a \in App : cur[a] # None => cur[a] \in in_use \ leaked
  /\ \A i \in Socks : s_socks[i] # None => i \in s_used /\ s_socks[i] \in in_use
  /\ \A i, j \in Socks : s_socks[i] # None /\ s_socks[i] = s_socks[j] => i = j
  /\ \A c \in in_use : c \in leaked \/ (\E a \in App : c = cur[a]) \/ (\E i \in Socks : c = s_socks[i])

(* A connection belongs to one thread, from alloc_conn to tcp_close or to the failed
   connect: two sockets never share one, none is used after it was freed, none is
   left behind but by a second connect on the same socket, and the port tells the
   connections in use apart, so the first match of tcp_input is the only one. *)
ConnOwned ==
  /\ Owned
  /\ \A c, d \in in_use : conn[c].src_port = conn[d].src_port /\ conn[c].src_port > 0 => c = d

(* The inductive invariant behind it: what a thread has at each point of the system
   calls.  A socket keeps its old connection while a second connect is under way, and
   ports are never handed out twice. *)
Unsocketed == {"user", "gone", "close"}
Unconnected == {"user", "gone", "sock"}
Connecting == {"alloc", "syn"}
Connected == {"open", "recv", "test", "ended"}

PortInv ==
  /\ s_next_port \in Nat \ {0}
  /\ DOMAIN conn = Conns
  /\ \A c \in Conns : /\ DOMAIN conn[c] = {"state", "src_port", "rcv_nxt", "rxbuf"}
                      /\ conn[c].src_port \in 0..s_next_port - 1
  /\ \A c, d \in Conns : conn[c].src_port = conn[d].src_port /\ conn[c].src_port > 0 => c = d

Holds(a) ==
  /\ pc[a] \in Unsocketed \cup Unconnected \cup Connecting \cup Connected
  /\ sock[a] = None <=> pc[a] \in Unsocketed
  /\ cur[a] = None <=> pc[a] \in Unconnected
  /\ pc[a] = "sock" => s_socks[sock[a]] = None
  /\ pc[a] \in Connected => s_socks[sock[a]] = cur[a]
  /\ pc[a] \in Connecting => s_socks[sock[a]] # cur[a]

HoldInv ==
  /\ in_use \subseteq Conns /\ leaked \subseteq in_use /\ s_used \subseteq Socks
  /\ DOMAIN pc = App /\ s_socks \in [Socks -> Conns \cup {None}]
  /\ sock \in [App -> s_used \cup {None}] /\ cur \in [App -> Conns \cup {None}]
  /\ \A a \in App : Holds(a)
  /\ \A a, b \in App : sock[a] # None /\ sock[a] = sock[b] => a = b
  /\ \A i \in Socks : s_socks[i] \notin leaked /\ (s_socks[i] # None => \E a \in App : sock[a] = i)
  /\ \A a \in App, i \in Socks : cur[a] # None /\ s_socks[i] = cur[a] => sock[a] = i
  /\ Owned

OwnInv == workload \in Workloads /\ PortInv /\ HoldInv

(* The inductive invariant behind StreamPrefix.  What has been read and what waits in
   the ring are the peer's stream from its beginning up to rcv_nxt. *)
Octets(p, k, m) == [i \in 1..m |-> Byte(p, k + i)]

Stream(g, r) ==
  /\ Len(g) \in Nat /\ Len(r.rxbuf) \in Nat
  /\ g = Octets(r.src_port, 0, Len(g))
  /\ r.rxbuf = Octets(r.src_port, Len(g), Len(r.rxbuf))
  /\ r.state = "ESTABLISHED" => r.rcv_nxt = Len(g) + Len(r.rxbuf) + 1

(* What a segment of the peer's can carry. *)
Proper(seg) ==
  /\ seg.data \in {<<>>, <<Pad>>, <<Byte(seg.port, seg.seq)>>}
  /\ {"SYN", "ACK"} \subseteq seg.flags => seg.seq = 0

(* A poller whose connection is untouched has its frame still in the buffer, and the
   frame is for that connection. *)
PollInv ==
  /\ DOMAIN rx = Poller /\ DOMAIN rxc = Poller /\ DOMAIN rxseg = Poller
  /\ DOMAIN buf = {"s_rx_frame", "s_poll_buf"}
  /\ \A t \in Poller : rx[t] # "idle" => Proper(buf[BufOf(t)])
  /\ \A t \in Poller : rx[t] = "match" =>
       /\ rxc[t] \in Conns /\ Proper(rxseg[t])
       /\ rxc[t] \notin tainted => /\ buf[BufOf(t)] = rxseg[t]
                                   /\ rxseg[t].port = conn[rxc[t]].src_port

(* A socket's connection holds what its thread has still to read, also while the
   thread is in a second connect; a connection being made has received nothing. *)
SockStream(a) ==
  sock[a] # None /\ s_socks[sock[a]] # None /\ s_socks[sock[a]] \notin tainted =>
    Stream(got[a], conn[s_socks[sock[a]]]) /\ conn[s_socks[sock[a]]].state # "SYN_SENT"

SynStream(a) ==
  pc[a] = "syn" /\ cur[a] \notin tainted =>
    /\ Stream(<<>>, conn[cur[a]])
    /\ conn[cur[a]].state = "SYN_SENT" => conn[cur[a]].rxbuf = <<>>

ReadInv == DOMAIN got = App /\ \A a \in App : SockStream(a) /\ SynStream(a)

StreamInv == OwnInv /\ PollInv /\ ReadInv

TcpSpec == TcpInit /\ [][TcpNext]_tcpVars

Reading(a) == pc[a] \in {"recv", "test"}

(* No thread waits for ever: tcp_connect gives up after its bounded number of polls,
   and a read whose peer has closed the connection returns, since sys_recv, which
   waits without a timeout, sees the state tcp_input leaves. *)
CallsReturn ==
  \A a \in App :
    /\ []<>(pc[a] # "syn")
    /\ []<>~(Reading(a) /\ cur[a] \notin tainted /\ peer[conn[cur[a]].src_port].fin)
=============================================================================

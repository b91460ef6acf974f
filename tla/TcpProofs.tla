----------------------------- MODULE TcpProofs ------------------------------
(***************************************************************************)
(* Proofs about TCP, for any number of connections, sockets, threads and   *)
(* bytes: who holds which connection, and what a program reads from it.    *)
(***************************************************************************)
EXTENDS Tcp, TLAPS, WellFoundedInduction, SequenceTheorems

-----------------------------------------------------------------------------
(* Who holds which connection *)

LEMMA LowestIn ==
  ASSUME NEW S, S \subseteq Nat, S # {}
  PROVE  Lowest(S) \in S
<1>1. IsWellFoundedOn(OpToRel(<, Nat), Nat)
  BY NatLessThanWellFounded, Zenon
<1>2. PICK m \in S : \A k \in S : ~(<<k, m>> \in OpToRel(<, Nat))
  BY <1>1, WFMin, Zenon
<1>3. ASSUME NEW k \in S PROVE ~(k < m)
  BY <1>2, Zenon DEF OpToRel
<1>4. \A k \in S : m <= k
  BY <1>3, SMTT(40)
<1>. QED BY <1>4, Zenon DEF Lowest

LEMMA SlotNumbers ==
  ASSUME workload \in Workloads
  PROVE  Conns \subseteq Nat /\ Socks \subseteq Nat /\ None \notin Conns /\ None \notin Socks
BY TcpConstants, SMTT(40) DEF Conns, Socks

(* What every step but ConnectInit leaves of a connection: its fields and its port. *)
SamePorts == /\ DOMAIN conn' = DOMAIN conn
             /\ \A c \in DOMAIN conn : /\ DOMAIN conn'[c] = DOMAIN conn[c]
                                       /\ conn'[c].src_port = conn[c].src_port

LEMMA PortsStay ==
  ASSUME PortInv, SamePorts, UNCHANGED <<workload, s_next_port>>
  PROVE  PortInv'
<1>1. Conns' = Conns
  BY Zenon DEF Conns
<1>. QED BY <1>1, ZenonT(60) DEF PortInv, SamePorts

LEMMA SameConn ==
  ASSUME conn' = conn
  PROVE  SamePorts
BY Zenon DEF SamePorts

LEMMA SameAt ==
  ASSUME PortInv, NEW c, NEW k, conn' = [conn EXCEPT ![c] = k],
         c \in Conns => DOMAIN k = DOMAIN conn[c] /\ k.src_port = conn[c].src_port
  PROVE  SamePorts
<1>1. \A d \in DOMAIN conn : conn'[d] = conn[d] \/ (d = c /\ conn'[d] = k)
  BY Zenon
<1>2. DOMAIN conn' = DOMAIN conn
  BY Zenon
<1>. QED BY <1>1, <1>2, Zenon DEF SamePorts, PortInv

LEMMA FreedSame ==
  ASSUME PortInv, NEW c, NEW s, conn' = Freed(c, s)
  PROVE  SamePorts
<1>. DEFINE k == [Closed EXCEPT !.state = s, !.src_port = conn[c].src_port]
<1>1. DOMAIN k = {"state", "src_port", "rcv_nxt", "rxbuf"} /\ k.src_port = conn[c].src_port
  BY SMTT(40) DEF Closed
<1>2. conn' = [conn EXCEPT ![c] = k]
  BY Zenon DEF Freed
<1>. HIDE DEF k
<1>3. c \in Conns => DOMAIN conn[c] = {"state", "src_port", "rcv_nxt", "rxbuf"}
  BY Zenon DEF PortInv
<1>. QED BY <1>1, <1>2, <1>3, SameAt, Zenon

LEMMA InputSame ==
  ASSUME PortInv, NEW t \in Poller, InputState(t)
  PROVE  SamePorts
<1>. DEFINE c == rxc[t]
            k == conn[c]
            n == rxseg[t].seq + 1
            data == buf[BufOf(t)].data
            k1 == IF Len(data) > 0 /\ InOrder(c, rxseg[t])
                    THEN [k EXCEPT !.rxbuf = Pushed(@, data), !.rcv_nxt = @ + Len(data)] ELSE k
            k2 == IF "FIN" \in rxseg[t].flags THEN [k1 EXCEPT !.rcv_nxt = @ + 1, !.state = "CLOSED"] ELSE k1
            Kept(r) == DOMAIN r = DOMAIN k /\ r.src_port = k.src_port
<1>1. /\ Kept([k EXCEPT !.rcv_nxt = n, !.state = "ESTABLISHED"])
      /\ Kept([k EXCEPT !.state = "CLOSED"])
  BY SMTT(40)
<1>2. Kept(k1)
  <2>1. \A x, y : Kept([k EXCEPT !.rxbuf = x, !.rcv_nxt = y])
    BY SMTT(40)
  <2>2. Kept([k EXCEPT !.rxbuf = Pushed(@, data), !.rcv_nxt = @ + Len(data)])
    BY <2>1, Zenon
  <2>. QED BY <2>2, Zenon
<1>3. Kept(k2)
  <2>. HIDE DEF k1
  <2>1. \A y : Kept([k1 EXCEPT !.rcv_nxt = y, !.state = "CLOSED"])
    BY <1>2, SMTT(40)
  <2>2. Kept([k1 EXCEPT !.rcv_nxt = @ + 1, !.state = "CLOSED"])
    BY <2>1, Zenon
  <2>. QED BY <1>2, <2>2, Zenon
<1>4. \/ conn' = conn
      \/ conn' = [conn EXCEPT ![c].rcv_nxt = n, ![c].state = "ESTABLISHED"]
      \/ conn' = [conn EXCEPT ![c].state = "CLOSED"]
      \/ conn' = [conn EXCEPT ![c] = k2]
  <2>1. CASE conn[c].state = "SYN_SENT"
    BY <2>1, Zenon DEF InputState
  <2>2. CASE Established(c, rxseg[t], data)
    BY <2>2, Zenon DEF Established
  <2>. QED BY <2>1, <2>2, Zenon DEF InputState
<1>5. CASE conn' = [conn EXCEPT ![c].rcv_nxt = n, ![c].state = "ESTABLISHED"]
  <2>. HIDE DEF c, n
  <2>1. DOMAIN conn' = DOMAIN conn
    BY <1>5, SMTT(40)
  <2>2. \A d \in DOMAIN conn : d # c => conn'[d] = conn[d]
    BY <1>5, SMTT(40)
  <2>3. c \in DOMAIN conn => conn'[c] = [conn[c] EXCEPT !.rcv_nxt = n, !.state = "ESTABLISHED"]
    BY <1>5, Zenon
  <2>. QED BY <1>1, <2>1, <2>2, <2>3, Zenon DEF SamePorts
<1>6. CASE conn' = [conn EXCEPT ![c].state = "CLOSED"]
  BY <1>1, <1>6, SameAt, Zenon
<1>. HIDE DEF k2
<1>. QED BY <1>3, <1>4, <1>5, <1>6, SameConn, SameAt, Zenon

LEMMA RecvSame ==
  ASSUME PortInv, NEW a \in App, NEW n, Recv(a, n)
  PROVE  SamePorts
<1>. DEFINE c == cur[a]
            x == SubSeq(conn[c].rxbuf, n + 1, Len(conn[c].rxbuf))
<1>1. conn' = conn \/ conn' = [conn EXCEPT ![c] = [conn[c] EXCEPT !.rxbuf = x]]
  BY Zenon DEF Recv
<1>. HIDE DEF x
<1>2. DOMAIN [conn[c] EXCEPT !.rxbuf = x] = DOMAIN conn[c] /\ [conn[c] EXCEPT !.rxbuf = x].src_port = conn[c].src_port
  BY SMTT(40)
<1>. QED BY <1>1, <1>2, SameConn, SameAt, Zenon

(* alloc_port counts up, so the new port is nobody's. *)
LEMMA NewPort ==
  ASSUME PortInv, NEW a \in App, ConnectInit(a)
  PROVE  PortInv'
<1>. DEFINE k == [Closed EXCEPT !.state = "SYN_SENT", !.src_port = s_next_port]
<1>1. DOMAIN k = {"state", "src_port", "rcv_nxt", "rxbuf"} /\ k.src_port = s_next_port
  BY SMTT(40) DEF Closed
<1>2. /\ conn' = [conn EXCEPT ![cur[a]] = k] /\ s_next_port' = s_next_port + 1 /\ workload' = workload
  BY Zenon DEF ConnectInit
<1>. HIDE DEF k
<1>3. DOMAIN conn' = Conns /\ Conns' = Conns
  BY <1>2, Zenon DEF PortInv, Conns
<1>4. \A d \in Conns : conn'[d] = conn[d] \/ (d = cur[a] /\ conn'[d] = k)
  BY <1>2, Zenon DEF PortInv
<1>5. /\ s_next_port \in Nat \ {0}
      /\ \A d \in Conns : conn[d].src_port \in 0..s_next_port - 1
  BY Zenon DEF PortInv
<1>6. /\ s_next_port' \in Nat \ {0}
      /\ \A p \in 0..s_next_port - 1 : p \in 0..s_next_port' - 1 /\ p # s_next_port
      /\ s_next_port \in 0..s_next_port' - 1
  BY <1>2, <1>5, SMTT(40)
<1>7. \A d \in Conns : /\ DOMAIN conn'[d] = {"state", "src_port", "rcv_nxt", "rxbuf"}
                       /\ conn'[d].src_port \in 0..s_next_port' - 1
  BY <1>1, <1>4, <1>5, <1>6, Zenon DEF PortInv
<1>8. ASSUME NEW d \in Conns, NEW e \in Conns, conn'[d].src_port = conn'[e].src_port, conn'[d].src_port > 0
      PROVE  d = e
  <2>1. CASE conn'[d] = conn[d] /\ conn'[e] = conn[e]
    BY <1>8, <2>1, Zenon DEF PortInv
  <2>. QED BY <1>1, <1>4, <1>5, <1>6, <1>8, <2>1, Zenon
<1>. QED BY <1>3, <1>6, <1>7, <1>8, Zenon DEF PortInv

LEMMA PortStep ==
  ASSUME PortInv, [TcpNext]_tcpVars
  PROVE  PortInv'
<1>. USE DEF kernelVars
<1>1. CASE \E p \in Ports : Peer(p) \/ \E seg \in Segments(p) : NetPoll(seg)
  <2>1. conn' = conn /\ s_next_port' = s_next_port /\ workload' = workload
    BY <1>1, Zenon DEF Peer, NetPoll
  <2>. QED BY <2>1, SameConn, PortsStay, Zenon
<1>2. ASSUME NEW t \in Poller, Input(t) PROVE PortInv'
  <2>1. CASE InputMatch(t)
    BY <2>1, SameConn, PortsStay, Zenon DEF InputMatch
  <2>2. CASE InputState(t)
    BY <2>2, InputSame, PortsStay, Zenon DEF InputState
  <2>. QED BY <1>2, <2>1, <2>2, Zenon DEF Input
<1>3. ASSUME NEW a \in App PROVE Running(a) => PortInv'
  <2>1. CASE ConnectInit(a)
    BY <2>1, NewPort, Zenon
  <2>2. CASE Poll(a)
    BY <2>2, SameConn, PortsStay, Zenon DEF Poll
  <2>3. CASE ConnectDone(a)
    <3>1. conn' = conn \/ conn' = Freed(cur[a], conn[cur[a]].state)
      BY <2>3, Zenon DEF ConnectDone
    <3>2. SamePorts
      BY <3>1, SameConn, FreedSame, Zenon
    <3>. QED BY <2>3, <3>2, PortsStay, Zenon DEF ConnectDone
  <2>4. ASSUME NEW n \in 1..RxCap, Recv(a, n) PROVE PortInv'
    BY <2>4, RecvSame, PortsStay, Zenon DEF Recv
  <2>5. CASE RecvTest(a)
    BY <2>5, SameConn, PortsStay, Zenon DEF RecvTest
  <2>6. CASE TcpClose(a)
    BY <2>6, FreedSame, PortsStay, Zenon DEF TcpClose
  <2>. QED BY <2>1, <2>2, <2>3, <2>4, <2>5, <2>6, Zenon DEF Running
<1>4. ASSUME NEW a \in App, Socket(a) \/ Connect(a) \/ Send(a) \/ RecvCall(a) \/ Close(a) PROVE PortInv'
  <2>1. conn' = conn /\ s_next_port' = s_next_port /\ workload' = workload
    BY <1>4, Zenon DEF Socket, Connect, Send, RecvCall, Close
  <2>. QED BY <2>1, SameConn, PortsStay, Zenon
<1>5. CASE UNCHANGED tcpVars
  BY <1>5, SameConn, PortsStay, Zenon DEF tcpVars
<1>. QED BY <1>1, <1>2, <1>3, <1>4, <1>5, Zenon DEF TcpNext

LEMMA HoldTypes ==
  ASSUME HoldInv
  PROVE  /\ in_use \subseteq Conns /\ leaked \subseteq in_use /\ s_used \subseteq Socks
         /\ DOMAIN pc = App /\ s_socks \in [Socks -> Conns \cup {None}]
         /\ sock \in [App -> s_used \cup {None}] /\ cur \in [App -> Conns \cup {None}]
BY Zenon DEF HoldInv

LEMMA HoldSocks ==
  ASSUME HoldInv
  PROVE  /\ \A a, b \in App : sock[a] # None /\ sock[a] = sock[b] => a = b
         /\ \A i \in Socks : s_socks[i] \notin leaked /\ (s_socks[i] # None => \E a \in App : sock[a] = i)
         /\ \A a \in App, i \in Socks : cur[a] # None /\ s_socks[i] = cur[a] => sock[a] = i
BY Zenon DEF HoldInv

LEMMA HoldOwned ==
  ASSUME HoldInv
  PROVE  /\ \A a, b \in App : cur[a] # None /\ cur[a] = cur[b] => a = b
         /\ \A a \in App : cur[a] # None => cur[a] \in in_use \ leaked
         /\ \A i \in Socks : s_socks[i] # None => i \in s_used /\ s_socks[i] \in in_use
         /\ \A i, j \in Socks : s_socks[i] # None /\ s_socks[i] = s_socks[j] => i = j
         /\ \A c \in in_use : c \in leaked \/ (\E a \in App : c = cur[a]) \/ (\E i \in Socks : c = s_socks[i])
BY Zenon DEF HoldInv, Owned

LEMMA HoldAt ==
  ASSUME HoldInv, NEW a \in App
  PROVE  Holds(a)
BY Zenon DEF HoldInv

(* Steps inside the calls on a connection, and those of the pollers and the peer. *)
LEMMA HoldStay ==
  ASSUME HoldInv, UNCHANGED <<workload, in_use, s_used, s_socks, sock, cur, leaked>>,
         DOMAIN pc' = App,
         \A a \in App : \/ pc'[a] = pc[a]
                        \/ pc[a] \in Connecting /\ pc'[a] \in Connecting
                        \/ pc[a] \in Connected /\ pc'[a] \in Connected
  PROVE  HoldInv'
<1>1. Conns' = Conns /\ Socks' = Socks
  BY Zenon DEF Conns, Socks
<1>2. ASSUME NEW a \in App PROVE Holds(a)'
  <2>1. Holds(a)
    BY Zenon DEF HoldInv
  <2>2. CASE pc'[a] = pc[a]
    BY <2>1, <2>2, Zenon DEF Holds
  <2>3. CASE pc[a] \in Connecting /\ pc'[a] \in Connecting
    BY <2>1, <2>3, Zenon DEF Holds, Connecting, Connected, Unsocketed, Unconnected
  <2>4. CASE pc[a] \in Connected /\ pc'[a] \in Connected
    BY <2>1, <2>4, Zenon DEF Holds, Connecting, Connected, Unsocketed, Unconnected
  <2>. QED BY <2>2, <2>3, <2>4, Zenon
<1>3. Owned'
  BY <1>1, ZenonT(60) DEF HoldInv, Owned
<1>. QED BY <1>1, <1>2, <1>3, Zenon DEF HoldInv

(* pc[a] moves, the others stay. *)
LEMMA Goes ==
  ASSUME HoldInv, NEW a \in App, NEW l, Goto(a, l)
  PROVE  DOMAIN pc' = App /\ pc'[a] = l /\ \A b \in App : b # a => pc'[b] = pc[b]
BY Zenon DEF HoldInv, Goto

LEMMA HoldSocket ==
  ASSUME workload \in Workloads, HoldInv, NEW a \in App, Socket(a)
  PROVE  HoldInv'
<1>. DEFINE i == Lowest(FreeSocks)
<1>1. Conns' = Conns /\ Socks' = Socks
  BY Zenon DEF Conns, Socks, Socket
<1>2. i \in Socks /\ i \notin s_used /\ i # None
  BY SlotNumbers, LowestIn, Zenon DEF FreeSocks, Socket
<1>3. /\ s_used' = s_used \cup {i} /\ s_socks' = [s_socks EXCEPT ![i] = None] /\ sock' = [sock EXCEPT ![a] = i]
      /\ Goto(a, "sock") /\ in_use' = in_use /\ cur' = cur /\ leaked' = leaked /\ pc[a] = "user"
  BY Zenon DEF Socket
<1>. HIDE DEF i
<1>4. /\ DOMAIN pc' = App /\ pc'[a] = "sock" /\ \A b \in App : b # a => pc'[b] = pc[b]
  BY <1>3, Goes, Zenon
<1>5. s_socks[i] = None
  BY <1>2, HoldOwned, Zenon
<1>6. s_socks' = s_socks /\ in_use' = in_use /\ cur' = cur /\ leaked' = leaked
  BY <1>2, <1>3, <1>5, HoldTypes, SMTT(40)
<1>7. sock' \in [App -> s_used' \cup {None}] /\ sock'[a] = i /\ \A b \in App : b # a => sock'[b] = sock[b]
  BY <1>3, HoldTypes, Zenon
<1>8. sock[a] = None /\ cur[a] = None /\ \A b \in App : sock[b] # i
  <2>1. Holds(a)
    BY HoldAt, Zenon
  <2>2. sock[a] = None /\ cur[a] = None
    BY <1>3, <2>1, Zenon DEF Holds, Unsocketed, Unconnected
  <2>3. ASSUME NEW b \in App PROVE sock[b] # i
    BY <1>2, HoldTypes, Zenon
  <2>. QED BY <2>2, <2>3, Zenon
<1>9. ASSUME NEW b \in App PROVE Holds(b)'
  <2>1. Holds(b)
    BY HoldAt, Zenon
  <2>2. CASE b = a
    BY <1>2, <1>3, <1>4, <1>5, <1>6, <1>7, <1>8, <2>2, Zenon
       DEF Holds, Connecting, Connected, Unsocketed, Unconnected
  <2>. QED BY <1>3, <1>4, <1>6, <1>7, <2>1, <2>2, Zenon DEF Holds
<1>10. ASSUME NEW b \in App, NEW c \in App, sock'[b] # None, sock'[b] = sock'[c] PROVE b = c
  <2>1. CASE b # a /\ c # a
    BY <1>7, <1>10, <2>1, HoldSocks, Zenon
  <2>. QED BY <1>7, <1>8, <1>10, <2>1, Zenon
<1>11. ASSUME NEW j \in Socks, s_socks[j] # None PROVE \E b \in App : sock'[b] = j
  <2>1. PICK b \in App : sock[b] = j
    BY <1>11, HoldSocks, Zenon
  <2>2. b # a
    BY <1>8, <2>1, SlotNumbers, Zenon
  <2>. QED BY <1>7, <2>1, <2>2, Zenon
<1>12. \A b \in App, j \in Socks : cur[b] # None /\ s_socks[j] = cur[b] => sock'[b] = j
  BY <1>7, <1>8, HoldSocks, Zenon
<1>13. Owned'
  <2>1. \A j \in Socks : s_socks[j] # None => j \in s_used' /\ s_socks[j] \in in_use
    BY <1>3, HoldOwned, Zenon
  <2>. QED BY <1>1, <1>6, <2>1, HoldOwned, Zenon DEF Owned
<1>14. s_used' \subseteq Socks
  BY <1>2, <1>3, HoldTypes, Zenon
<1>15. \A j \in Socks : s_socks[j] \notin leaked
  BY HoldSocks, Zenon
<1>16. /\ in_use \subseteq Conns /\ leaked \subseteq in_use /\ s_socks \in [Socks -> Conns \cup {None}]
       /\ cur \in [App -> Conns \cup {None}]
  BY HoldTypes, Zenon
<1>. QED BY <1>1, <1>4, <1>6, <1>7, <1>9, <1>10, <1>11, <1>12, <1>13, <1>14, <1>15, <1>16, Zenon DEF HoldInv

LEMMA HoldConnect ==
  ASSUME workload \in Workloads, HoldInv, NEW a \in App, Connect(a)
  PROVE  HoldInv'
<1>. DEFINE c == Lowest(FreeConns)
<1>1. Conns' = Conns /\ Socks' = Socks
  BY Zenon DEF Conns, Socks, Connect
<1>2. c \in Conns /\ c \notin in_use /\ c # None
  BY SlotNumbers, LowestIn, ZenonT(60) DEF FreeConns, Connect
<1>3. /\ in_use' = in_use \cup {c} /\ cur' = [cur EXCEPT ![a] = c] /\ Goto(a, "alloc")
      /\ s_used' = s_used /\ s_socks' = s_socks /\ sock' = sock /\ leaked' = leaked
      /\ pc[a] \in {"sock", "open"}
  BY Zenon DEF Connect
<1>. HIDE DEF c
<1>4. /\ DOMAIN pc' = App /\ pc'[a] = "alloc" /\ \A b \in App : b # a => pc'[b] = pc[b]
  BY <1>3, Goes, Zenon
<1>5. cur' \in [App -> Conns \cup {None}] /\ cur'[a] = c /\ \A b \in App : b # a => cur'[b] = cur[b]
  BY <1>2, <1>3, HoldTypes, Zenon
<1>6. /\ c \notin leaked /\ (\A b \in App : cur[b] # c) /\ \A i \in Socks : s_socks[i] # c
  <2>1. c \notin leaked
    BY <1>2, HoldTypes, Zenon
  <2>2. ASSUME NEW b \in App PROVE cur[b] # c
    BY <1>2, HoldOwned, Zenon
  <2>3. ASSUME NEW i \in Socks PROVE s_socks[i] # c
    BY <1>2, HoldOwned, Zenon
  <2>. QED BY <2>1, <2>2, <2>3, Zenon
<1>7. /\ sock[a] # None /\ sock[a] \in Socks /\ s_socks[sock[a]] = cur[a]
  <2>1. Holds(a)
    BY HoldAt, Zenon
  <2>2. sock[a] # None /\ s_socks[sock[a]] = cur[a]
    BY <1>3, <2>1, Zenon DEF Holds, Connected, Unsocketed, Unconnected
  <2>. QED BY <2>2, HoldTypes, Zenon
<1>8. ASSUME NEW b \in App PROVE Holds(b)'
  <2>1. Holds(b)
    BY HoldAt, Zenon
  <2>2. CASE b = a
    BY <1>2, <1>3, <1>4, <1>5, <1>6, <1>7, <2>2, Zenon
       DEF Holds, Connecting, Connected, Unsocketed, Unconnected
  <2>. QED BY <1>3, <1>4, <1>5, <2>1, <2>2, Zenon DEF Holds
<1>9. \A b \in App, j \in Socks : cur'[b] # None /\ s_socks[j] = cur'[b] => sock[b] = j
  BY <1>5, <1>6, HoldSocks, Zenon
<1>10. Owned'
  <2>1. \A x, y \in App : cur'[x] # None /\ cur'[x] = cur'[y] => x = y
    BY <1>5, <1>6, HoldOwned, ZenonT(60)
  <2>2. \A x \in App : cur'[x] # None => cur'[x] \in in_use' \ leaked
    BY <1>3, <1>5, <1>6, HoldOwned, Zenon
  <2>3. ASSUME NEW d \in in_use'
        PROVE  d \in leaked \/ (\E x \in App : d = cur'[x]) \/ (\E i \in Socks : d = s_socks[i])
    <3>1. CASE d = c
      BY <1>5, <3>1, Zenon
    <3>2. CASE d \in in_use
      <4>1. CASE d = cur[a]
        BY <1>7, <4>1, Zenon
      <4>2. CASE \E x \in App : d = cur[x]
        BY <1>5, <4>1, <4>2, Zenon
      <4>. QED BY <3>2, <4>2, HoldOwned, Zenon
    <3>. QED BY <1>3, <3>1, <3>2, Zenon
  <2>. QED BY <1>1, <1>3, <2>1, <2>2, <2>3, HoldOwned, Zenon DEF Owned
<1>11. in_use' \subseteq Conns /\ leaked \subseteq in_use'
  BY <1>2, <1>3, HoldTypes, Zenon
<1>12. /\ s_used \subseteq Socks /\ s_socks \in [Socks -> Conns \cup {None}] /\ sock \in [App -> s_used \cup {None}]
  BY HoldTypes, Zenon
<1>13. /\ \A b, d \in App : sock[b] # None /\ sock[b] = sock[d] => b = d
       /\ \A i \in Socks : s_socks[i] \notin leaked /\ (s_socks[i] # None => \E b \in App : sock[b] = i)
  BY HoldSocks, Zenon
<1>14. s_used' = s_used /\ s_socks' = s_socks /\ sock' = sock /\ leaked' = leaked
  BY <1>3, Zenon
<1>. QED BY ONLY <1>1, <1>4, <1>5, <1>8, <1>9, <1>10, <1>11, <1>12, <1>13, <1>14, ZenonT(60) DEF HoldInv

(* The connection of a thread inside tcp_connect is in no socket yet. *)
LEMMA HoldSyn ==
  ASSUME workload \in Workloads, HoldInv, NEW a \in App, pc[a] \in Connecting
  PROVE  /\ cur[a] # None /\ sock[a] # None /\ sock[a] \in s_used /\ sock[a] \in Socks
         /\ s_socks[sock[a]] # cur[a] /\ cur[a] \in in_use /\ cur[a] \notin leaked
         /\ \A i \in Socks : s_socks[i] # cur[a]
<1>1. cur[a] # None /\ sock[a] # None /\ s_socks[sock[a]] # cur[a]
  BY HoldAt, Zenon DEF Holds, Connecting, Unsocketed, Unconnected
<1>2. sock[a] \in s_used /\ sock[a] \in Socks
  BY <1>1, HoldTypes, Zenon
<1>3. cur[a] \in in_use /\ cur[a] \notin leaked
  BY <1>1, HoldOwned, Zenon
<1>4. ASSUME NEW i \in Socks PROVE s_socks[i] # cur[a]
  BY <1>1, HoldSocks, Zenon
<1>. QED BY <1>1, <1>2, <1>3, <1>4, Zenon

(* The connect succeeded: the socket gets the connection, and leaves its old one. *)
LEMMA HoldOpened ==
  ASSUME workload \in Workloads, HoldInv, NEW a \in App, pc[a] = "syn", Goto(a, "open"),
         s_socks' = [s_socks EXCEPT ![sock[a]] = cur[a]],
         leaked' = leaked \cup ({s_socks[sock[a]]} \ {None}),
         UNCHANGED <<workload, in_use, s_used, sock, cur>>
  PROVE  HoldInv'
<1>. DEFINE i == sock[a]
            old == s_socks[i]
<1>1. Conns' = Conns /\ Socks' = Socks
  BY Zenon DEF Conns, Socks
<1>2. /\ cur[a] # None /\ i # None /\ i \in s_used /\ i \in Socks /\ old # cur[a]
      /\ cur[a] \in in_use /\ cur[a] \notin leaked /\ \A j \in Socks : s_socks[j] # cur[a]
  BY HoldSyn, Zenon DEF Connecting
<1>3. /\ DOMAIN pc' = App /\ pc'[a] = "open" /\ \A b \in App : b # a => pc'[b] = pc[b]
  BY Goes, Zenon
<1>4. s_socks' \in [Socks -> Conns \cup {None}] /\ s_socks'[i] = cur[a] /\ \A j \in Socks : j # i => s_socks'[j] = s_socks[j]
  BY <1>2, HoldTypes, Zenon
<1>5. in_use' = in_use /\ s_used' = s_used /\ sock' = sock /\ cur' = cur
  BY Zenon
<1>6. leaked' \subseteq in_use /\ cur[a] \notin leaked' /\ \A c : c \in leaked' => c \in leaked \/ (c = old /\ c # None)
  <2>1. old # None => old \in in_use
    BY <1>2, HoldOwned, Zenon
  <2>2. leaked \subseteq in_use
    BY HoldTypes, Zenon
  <2>. QED BY <1>2, <2>1, <2>2, Zenon
<1>7. leaked \subseteq leaked' /\ (old # None => old \in leaked')
  BY Zenon
<1>. HIDE DEF old, i
<1>8. ASSUME NEW b \in App PROVE Holds(b)'
  <2>1. Holds(b)
    BY HoldAt, Zenon
  <2>2. CASE b = a
    BY <1>2, <1>3, <1>4, <1>5, <2>2, Zenon DEF Holds, Connecting, Connected, Unsocketed, Unconnected, i
  <2>3. CASE b # a
    <3>1. sock[b] # None => sock[b] # i /\ sock[b] \in Socks
      BY <1>2, <2>3, HoldSocks, HoldTypes, Zenon DEF i
    <3>2. sock[b] # None => s_socks'[sock[b]] = s_socks[sock[b]]
      BY <1>4, <3>1, Zenon
    <3>. QED BY <1>3, <1>5, <2>1, <2>3, <3>2, Zenon DEF Holds, Connecting, Connected, Unsocketed, Unconnected
  <2>. QED BY <2>2, <2>3, Zenon
<1>9. ASSUME NEW j \in Socks
      PROVE  s_socks'[j] \notin leaked' /\ (s_socks'[j] # None => \E b \in App : sock[b] = j)
  <2>1. CASE j = i
    BY <1>4, <1>6, <2>1, Zenon DEF i
  <2>2. CASE j # i
    <3>1. s_socks'[j] = s_socks[j] /\ s_socks[j] \notin leaked
      BY <1>4, <2>2, HoldSocks, Zenon
    <3>2. s_socks[j] = old => s_socks[j] = None
      BY <1>2, <2>2, HoldOwned, Zenon DEF old
    <3>. QED BY <1>6, <3>1, <3>2, HoldSocks, Zenon
  <2>. QED BY <2>1, <2>2, Zenon
<1>10. ASSUME NEW b \in App, NEW j \in Socks, cur[b] # None, s_socks'[j] = cur[b] PROVE sock[b] = j
  <2>1. CASE j = i
    <3>1. b = a
      BY <1>2, <1>4, <1>10, <2>1, HoldOwned, Zenon
    <3>. QED BY <2>1, <3>1, Zenon DEF i
  <2>2. CASE j # i
    <3>1. s_socks[j] = cur[b]
      BY <1>4, <1>10, <2>2, Zenon
    <3>. QED BY <1>10, <3>1, HoldSocks, Zenon
  <2>. QED BY <2>1, <2>2, Zenon
<1>11. Owned'
  <2>1. ASSUME NEW b \in App, cur[b] # None PROVE cur[b] \in in_use \ leaked'
    <3>1. cur[b] \in in_use /\ cur[b] \notin leaked
      BY <2>1, HoldOwned, Zenon
    <3>2. cur[b] # old
      <4>1. CASE b = a
        BY <1>2, <4>1, Zenon
      <4>2. CASE b # a
        <5>1. sock[b] # i
          BY <1>2, <4>2, HoldSocks, Zenon DEF i
        <5>. QED BY <1>2, <2>1, <5>1, HoldSocks, Zenon DEF old
      <4>. QED BY <4>1, <4>2, Zenon
    <3>. QED BY <1>6, <3>1, <3>2, Zenon
  <2>2. \A j \in Socks : s_socks'[j] # None => j \in s_used /\ s_socks'[j] \in in_use
    BY <1>2, <1>4, HoldOwned, Zenon
  <2>3. \A j, k \in Socks : s_socks'[j] # None /\ s_socks'[j] = s_socks'[k] => j = k
    BY <1>2, <1>4, HoldOwned, Zenon
  <2>4. ASSUME NEW c \in in_use
        PROVE  c \in leaked' \/ (\E b \in App : c = cur[b]) \/ (\E j \in Socks : c = s_socks'[j])
    <3>1. CASE c \in leaked \/ \E b \in App : c = cur[b]
      BY <1>7, <3>1, Zenon
    <3>2. ASSUME NEW j \in Socks, c = s_socks[j]
          PROVE  c \in leaked' \/ \E k \in Socks : c = s_socks'[k]
      <4>1. c # None
        BY HoldTypes, SlotNumbers, Zenon
      <4>2. CASE j = i
        BY <1>7, <3>2, <4>1, <4>2, Zenon DEF old
      <4>. QED BY <1>4, <3>2, <4>2, Zenon
    <3>. QED BY <3>1, <3>2, HoldOwned, Zenon
  <2>5. \A b, c \in App : cur[b] # None /\ cur[b] = cur[c] => b = c
    BY HoldOwned, Zenon
  <2>. QED BY ONLY <1>1, <1>5, <2>1, <2>2, <2>3, <2>4, <2>5, Zenon DEF Owned
<1>12. \A b, c \in App : sock[b] # None /\ sock[b] = sock[c] => b = c
  BY HoldSocks, Zenon
<1>13. /\ in_use \subseteq Conns /\ s_used \subseteq Socks
       /\ sock \in [App -> s_used \cup {None}] /\ cur \in [App -> Conns \cup {None}]
  BY HoldTypes, Zenon
<1>. QED BY ONLY <1>1, <1>3, <1>4, <1>5, <1>6, <1>8, <1>9, <1>10, <1>11, <1>12, <1>13, ZenonT(60) DEF HoldInv

(* The connect failed: the slot is free again, and the thread is back at the
   connection its socket had before. *)
LEMMA HoldFailed ==
  ASSUME workload \in Workloads, HoldInv, NEW a \in App, pc[a] = "syn",
         Goto(a, IF s_socks[sock[a]] = None THEN "sock" ELSE "open"),
         in_use' = in_use \ {cur[a]}, cur' = [cur EXCEPT ![a] = s_socks[sock[a]]],
         UNCHANGED <<workload, s_used, s_socks, sock, leaked>>
  PROVE  HoldInv'
<1>. DEFINE i == sock[a]
            old == s_socks[i]
            l == IF old = None THEN "sock" ELSE "open"
<1>1. Conns' = Conns /\ Socks' = Socks
  BY Zenon DEF Conns, Socks
<1>2. /\ cur[a] # None /\ i # None /\ i \in s_used /\ i \in Socks /\ old # cur[a]
      /\ cur[a] \in in_use /\ cur[a] \notin leaked /\ \A j \in Socks : s_socks[j] # cur[a]
  BY HoldSyn, Zenon DEF Connecting
<1>3. /\ DOMAIN pc' = App /\ pc'[a] = l /\ \A b \in App : b # a => pc'[b] = pc[b]
  BY Goes, Zenon
<1>4. cur' \in [App -> Conns \cup {None}] /\ cur'[a] = old /\ \A b \in App : b # a => cur'[b] = cur[b]
  BY <1>2, HoldTypes, Zenon
<1>5. leaked' = leaked /\ s_used' = s_used /\ sock' = sock /\ s_socks' = s_socks
  BY Zenon
<1>6. /\ in_use' \subseteq Conns /\ leaked \subseteq in_use' /\ in_use' \subseteq in_use /\ cur[a] \notin in_use'
      /\ \A c \in in_use : c # cur[a] => c \in in_use'
  BY <1>2, HoldTypes, Zenon
<1>7. s_socks[sock[a]] = old
  OBVIOUS
<1>. HIDE DEF old, i
<1>8. ASSUME NEW b \in App PROVE Holds(b)'
  <2>1. Holds(b)
    BY HoldAt, Zenon
  <2>2. CASE b = a /\ old = None
    BY <1>2, <1>3, <1>4, <1>5, <1>7, <2>2, Zenon DEF Holds, Connecting, Connected, Unsocketed, Unconnected, i
  <2>3. CASE b = a /\ old # None
    BY <1>2, <1>3, <1>4, <1>5, <1>7, <2>3, Zenon DEF Holds, Connecting, Connected, Unsocketed, Unconnected, i
  <2>4. CASE b # a
    BY <1>3, <1>4, <1>5, <2>1, <2>4, Zenon DEF Holds
  <2>. QED BY <2>2, <2>3, <2>4, Zenon
<1>9. \A j \in Socks : s_socks[j] \notin leaked /\ (s_socks[j] # None => \E b \in App : sock[b] = j)
  BY HoldSocks, Zenon
<1>10. ASSUME NEW b \in App, NEW j \in Socks, cur'[b] # None, s_socks[j] = cur'[b] PROVE sock[b] = j
  <2>1. CASE b = a
    <3>1. s_socks[j] = s_socks[i] /\ s_socks[j] # None
      BY <1>4, <1>10, <2>1, Zenon DEF old
    <3>2. j = i
      BY <1>2, <3>1, HoldOwned, Zenon
    <3>. QED BY <2>1, <3>2, Zenon DEF i
  <2>2. CASE b # a
    <3>1. s_socks[j] = cur[b] /\ cur[b] # None
      BY <1>4, <1>10, <2>2, Zenon
    <3>. QED BY <3>1, HoldSocks, Zenon
  <2>. QED BY <2>1, <2>2, Zenon
<1>11. Owned'
  <2>1. old # None => old \in in_use' /\ old \notin leaked
    <3>1. old # None => old \in in_use
      BY <1>2, HoldOwned, Zenon DEF old
    <3>2. old \notin leaked
      BY <1>2, HoldSocks, Zenon DEF old
    <3>. QED BY <1>2, <1>6, <3>1, <3>2, Zenon
  <2>2. ASSUME NEW b \in App, b # a, cur[b] # None PROVE cur[b] \in in_use' /\ cur[b] \notin leaked /\ cur[b] # old
    <3>1. cur[b] \in in_use /\ cur[b] \notin leaked /\ cur[b] # cur[a]
      BY <1>2, <2>2, HoldOwned, Zenon
    <3>2. sock[b] # i
      BY <1>2, <2>2, HoldSocks, Zenon DEF i
    <3>3. cur[b] # old
      BY <1>2, <2>2, <3>2, HoldSocks, Zenon DEF old
    <3>. QED BY <1>6, <3>1, <3>3, Zenon
  <2>3. \A b \in App : cur'[b] # None => cur'[b] \in in_use' \ leaked
    BY <1>4, <2>1, <2>2, Zenon
  <2>4. ASSUME NEW b \in App, NEW c \in App, cur'[b] # None, cur'[b] = cur'[c] PROVE b = c
    <3>1. CASE b # a /\ c # a
      BY <1>4, <2>4, <3>1, HoldOwned, Zenon
    <3>. QED BY <1>4, <2>2, <2>4, <3>1, Zenon
  <2>5. ASSUME NEW j \in Socks, s_socks[j] # None PROVE j \in s_used /\ s_socks[j] \in in_use'
    BY <1>2, <1>6, <2>5, HoldOwned, Zenon
  <2>6. \A j, k \in Socks : s_socks[j] # None /\ s_socks[j] = s_socks[k] => j = k
    BY HoldOwned, Zenon
  <2>7. ASSUME NEW c \in in_use'
        PROVE  c \in leaked \/ (\E b \in App : c = cur'[b]) \/ (\E j \in Socks : c = s_socks[j])
    <3>1. ASSUME NEW b \in App, c = cur[b] PROVE c = cur'[b]
      <4>1. b # a
        BY <1>6, <3>1, Zenon
      <4>. QED BY <1>4, <3>1, <4>1, Zenon
    <3>2. c \in in_use
      BY <1>6, Zenon
    <3>. QED BY <3>1, <3>2, HoldOwned, Zenon
  <2>. QED BY ONLY <1>1, <1>5, <2>3, <2>4, <2>5, <2>6, <2>7, Zenon DEF Owned
<1>12. \A b, c \in App : sock[b] # None /\ sock[b] = sock[c] => b = c
  BY HoldSocks, Zenon
<1>13. /\ s_used \subseteq Socks /\ s_socks \in [Socks -> Conns \cup {None}] /\ sock \in [App -> s_used \cup {None}]
  BY HoldTypes, Zenon
<1>. QED BY ONLY <1>1, <1>3, <1>4, <1>5, <1>6, <1>8, <1>9, <1>10, <1>11, <1>12, <1>13, ZenonT(60) DEF HoldInv

LEMMA HoldClose ==
  ASSUME workload \in Workloads, HoldInv, NEW a \in App, Close(a)
  PROVE  HoldInv'
<1>. DEFINE i == sock[a]
<1>1. Conns' = Conns /\ Socks' = Socks
  BY Zenon DEF Conns, Socks, Close
<1>2. /\ s_used' = s_used \ {i} /\ s_socks' = [s_socks EXCEPT ![i] = None] /\ sock' = [sock EXCEPT ![a] = None]
      /\ Goto(a, IF cur[a] = None THEN "user" ELSE "close")
      /\ pc[a] \in {"sock", "open", "ended"}
  BY Zenon DEF Close
<1>3. in_use' = in_use /\ cur' = cur /\ leaked' = leaked
  BY Zenon DEF Close
<1>4. /\ DOMAIN pc' = App /\ pc'[a] = (IF cur[a] = None THEN "user" ELSE "close")
      /\ \A b \in App : b # a => pc'[b] = pc[b]
  BY <1>2, Goes, Zenon
<1>5. i # None /\ s_socks[i] = cur[a]
  BY <1>2, HoldAt, Zenon DEF Holds, Connected, Unsocketed, Unconnected
<1>6. i \in Socks /\ i \in s_used
  BY <1>5, HoldTypes, Zenon
<1>7. sock'[a] = None /\ \A b \in App : b # a => sock'[b] = sock[b]
  BY <1>2, HoldTypes, Zenon
<1>8. /\ s_socks' \in [Socks -> Conns \cup {None}] /\ s_socks'[i] = None
      /\ \A j \in Socks : j # i => s_socks'[j] = s_socks[j]
  BY <1>2, <1>6, HoldTypes, Zenon
<1>9. \A b \in App : b # a /\ sock[b] # None => sock[b] # i /\ sock[b] \in s_used /\ sock[b] \in Socks
  BY <1>5, HoldSocks, HoldTypes, Zenon
<1>10. s_used' \subseteq Socks /\ \A j \in s_used : j # i => j \in s_used'
  BY <1>2, HoldTypes, Zenon
<1>11. sock' \in [App -> s_used' \cup {None}]
  <2>1. DOMAIN sock' = App
    BY <1>2, HoldTypes, Zenon
  <2>2. \A b \in App : sock'[b] \in s_used' \cup {None}
    BY <1>7, <1>9, <1>10, Zenon
  <2>3. sock' = [b \in App |-> sock'[b]]
    BY <1>2, HoldTypes, Zenon
  <2>. QED BY <2>2, <2>3, Zenon
<1>. HIDE DEF i
<1>12. ASSUME NEW b \in App PROVE Holds(b)'
  <2>1. Holds(b)
    BY HoldAt, Zenon
  <2>2. CASE b = a /\ cur[a] = None
    BY <1>3, <1>4, <1>7, <2>2, Zenon DEF Holds, Connecting, Connected, Unsocketed, Unconnected
  <2>3. CASE b = a /\ cur[a] # None
    BY <1>3, <1>4, <1>7, <2>3, Zenon DEF Holds, Connecting, Connected, Unsocketed, Unconnected
  <2>4. CASE b # a
    <3>1. sock[b] # None => s_socks'[sock[b]] = s_socks[sock[b]]
      BY <1>8, <1>9, <2>4, Zenon
    <3>. QED BY <1>3, <1>4, <1>7, <2>1, <2>4, <3>1, Zenon DEF Holds, Connecting, Connected, Unsocketed, Unconnected
  <2>. QED BY <2>2, <2>3, <2>4, Zenon
<1>13. ASSUME NEW j \in Socks
       PROVE  s_socks'[j] \notin leaked /\ (s_socks'[j] # None => \E b \in App : sock'[b] = j)
  <2>1. CASE j = i
    <3>1. None \notin leaked
      BY HoldTypes, SlotNumbers, Zenon
    <3>. QED BY <1>8, <2>1, <3>1, Zenon
  <2>2. CASE j # i
    <3>1. s_socks'[j] = s_socks[j]
      BY <1>8, <2>2, Zenon
    <3>2. ASSUME s_socks[j] # None PROVE \E b \in App : sock'[b] = j
      <4>1. PICK b \in App : sock[b] = j
        BY <3>2, HoldSocks, Zenon
      <4>. QED BY <1>7, <2>2, <4>1, Zenon DEF i
    <3>. QED BY <3>1, <3>2, HoldSocks, Zenon
  <2>. QED BY <2>1, <2>2, Zenon
<1>14. ASSUME NEW b \in App, NEW j \in Socks, cur[b] # None, s_socks'[j] = cur[b] PROVE sock'[b] = j
  <2>1. j # i /\ s_socks[j] = cur[b]
    BY <1>8, <1>14, Zenon
  <2>2. sock[b] = j
    BY <1>14, <2>1, HoldSocks, Zenon
  <2>. QED BY <1>7, <2>1, <2>2, Zenon DEF i
<1>15. Owned'
  <2>1. ASSUME NEW j \in Socks, s_socks'[j] # None PROVE j \in s_used' /\ s_socks'[j] \in in_use
    <3>1. j # i /\ s_socks'[j] = s_socks[j]
      BY <1>8, <2>1, Zenon
    <3>. QED BY <1>10, <2>1, <3>1, HoldOwned, Zenon
  <2>2. ASSUME NEW j \in Socks, NEW k \in Socks, s_socks'[j] # None, s_socks'[j] = s_socks'[k] PROVE j = k
    <3>1. s_socks'[j] = s_socks[j] /\ s_socks'[k] = s_socks[k]
      BY <1>8, <2>2, Zenon
    <3>. QED BY <2>2, <3>1, HoldOwned, Zenon
  <2>3. ASSUME NEW c \in in_use
        PROVE  c \in leaked \/ (\E b \in App : c = cur[b]) \/ (\E j \in Socks : c = s_socks'[j])
    <3>1. ASSUME NEW j \in Socks, c = s_socks[j] PROVE c = cur[a] \/ c = s_socks'[j]
      BY <1>5, <1>8, <3>1, Zenon
    <3>. QED BY <3>1, HoldOwned, Zenon
  <2>4. /\ \A b, c \in App : cur[b] # None /\ cur[b] = cur[c] => b = c
        /\ \A b \in App : cur[b] # None => cur[b] \in in_use \ leaked
    BY HoldOwned, Zenon
  <2>. QED BY ONLY <1>1, <1>3, <2>1, <2>2, <2>3, <2>4, Zenon DEF Owned
<1>16. ASSUME NEW b \in App, NEW c \in App, sock'[b] # None, sock'[b] = sock'[c] PROVE b = c
  <2>1. b # a /\ c # a
    BY <1>7, <1>16, Zenon
  <2>2. sock[b] # None /\ sock[b] = sock[c]
    BY <1>7, <1>16, <2>1, Zenon
  <2>. QED BY <2>2, HoldSocks, Zenon
<1>17. in_use \subseteq Conns /\ leaked \subseteq in_use /\ cur \in [App -> Conns \cup {None}]
  BY HoldTypes, Zenon
<1>. QED BY ONLY <1>1, <1>3, <1>4, <1>8, <1>10, <1>11, <1>12, <1>13, <1>14, <1>15, <1>16, <1>17, ZenonT(60) DEF HoldInv

LEMMA HoldTcpClose ==
  ASSUME workload \in Workloads, HoldInv, NEW a \in App, TcpClose(a)
  PROVE  HoldInv'
<1>1. Conns' = Conns /\ Socks' = Socks
  BY Zenon DEF Conns, Socks, TcpClose
<1>2. /\ in_use' = in_use \ {cur[a]} /\ cur' = [cur EXCEPT ![a] = None] /\ Goto(a, "user") /\ pc[a] = "close"
  BY Zenon DEF TcpClose
<1>3. s_used' = s_used /\ s_socks' = s_socks /\ sock' = sock /\ leaked' = leaked
  BY Zenon DEF TcpClose
<1>4. /\ DOMAIN pc' = App /\ pc'[a] = "user" /\ \A b \in App : b # a => pc'[b] = pc[b]
  BY <1>2, Goes, Zenon
<1>5. sock[a] = None /\ cur[a] # None
  BY <1>2, HoldAt, Zenon DEF Holds, Unsocketed, Unconnected
<1>6. /\ cur' \in [App -> Conns \cup {None}] /\ cur'[a] = None /\ \A b \in App : b # a => cur'[b] = cur[b]
  BY <1>2, HoldTypes, Zenon
<1>7. cur[a] \in in_use /\ cur[a] \notin leaked
  BY <1>5, HoldOwned, Zenon
<1>8. /\ in_use' \subseteq Conns /\ leaked \subseteq in_use' /\ in_use' \subseteq in_use /\ cur[a] \notin in_use'
      /\ \A c \in in_use : c # cur[a] => c \in in_use'
  BY <1>2, <1>7, HoldTypes, Zenon
<1>9. ASSUME NEW i \in Socks PROVE s_socks[i] # cur[a]
  BY <1>5, HoldSocks, SlotNumbers, Zenon
<1>10. ASSUME NEW b \in App PROVE Holds(b)'
  <2>1. Holds(b)
    BY HoldAt, Zenon
  <2>2. CASE b = a
    BY <1>3, <1>4, <1>5, <1>6, <2>2, Zenon DEF Holds, Connecting, Connected, Unsocketed, Unconnected
  <2>3. CASE b # a
    BY <1>3, <1>4, <1>6, <2>1, <2>3, Zenon DEF Holds
  <2>. QED BY <2>2, <2>3, Zenon
<1>11. /\ \A b, c \in App : sock[b] # None /\ sock[b] = sock[c] => b = c
       /\ \A i \in Socks : s_socks[i] \notin leaked /\ (s_socks[i] # None => \E b \in App : sock[b] = i)
  BY HoldSocks, Zenon
<1>12. ASSUME NEW b \in App, NEW i \in Socks, cur'[b] # None, s_socks[i] = cur'[b] PROVE sock[b] = i
  <2>1. cur[b] # None /\ s_socks[i] = cur[b]
    BY <1>6, <1>12, Zenon
  <2>. QED BY <2>1, HoldSocks, Zenon
<1>13. Owned'
  <2>1. ASSUME NEW b \in App, cur'[b] # None PROVE b # a /\ cur'[b] = cur[b] /\ cur[b] \in in_use' \ leaked
    <3>1. b # a /\ cur'[b] = cur[b] /\ cur[b] # None
      BY <1>6, <2>1, Zenon
    <3>2. cur[b] \in in_use /\ cur[b] \notin leaked /\ cur[b] # cur[a]
      BY <3>1, HoldOwned, Zenon
    <3>. QED BY <1>8, <3>1, <3>2, Zenon
  <2>2. ASSUME NEW b \in App, NEW c \in App, cur'[b] # None, cur'[b] = cur'[c] PROVE b = c
    <3>1. cur[b] # None /\ cur[b] = cur[c]
      BY <2>1, <2>2, Zenon
    <3>. QED BY <3>1, HoldOwned, Zenon
  <2>3. ASSUME NEW i \in Socks, s_socks[i] # None PROVE i \in s_used /\ s_socks[i] \in in_use'
    BY <1>8, <1>9, <2>3, HoldOwned, Zenon
  <2>4. \A i, j \in Socks : s_socks[i] # None /\ s_socks[i] = s_socks[j] => i = j
    BY HoldOwned, Zenon
  <2>5. ASSUME NEW c \in in_use'
        PROVE  c \in leaked \/ (\E b \in App : c = cur'[b]) \/ (\E i \in Socks : c = s_socks[i])
    <3>1. ASSUME NEW b \in App, c = cur[b] PROVE c = cur'[b]
      <4>1. b # a
        BY <1>8, <3>1, Zenon
      <4>. QED BY <1>6, <3>1, <4>1, Zenon
    <3>2. c \in in_use
      BY <1>8, Zenon
    <3>. QED BY <3>1, <3>2, HoldOwned, Zenon
  <2>. QED BY ONLY <1>1, <1>3, <2>1, <2>2, <2>3, <2>4, <2>5, Zenon DEF Owned
<1>14. /\ s_used \subseteq Socks /\ s_socks \in [Socks -> Conns \cup {None}] /\ sock \in [App -> s_used \cup {None}]
  BY HoldTypes, Zenon
<1>. QED BY ONLY <1>1, <1>3, <1>4, <1>6, <1>8, <1>10, <1>11, <1>12, <1>13, <1>14, ZenonT(60) DEF HoldInv

LEMMA HoldRunning ==
  ASSUME workload \in Workloads, HoldInv, NEW a \in App, Running(a)
  PROVE  HoldInv'
<1>. USE DEF kernelVars, appVars
<1>1. CASE ConnectInit(a)
  <2>1. /\ DOMAIN pc' = App /\ pc'[a] = "syn" /\ \A b \in App : b # a => pc'[b] = pc[b]
    BY <1>1, Goes, Zenon DEF ConnectInit
  <2>2. pc[a] = "alloc"
    BY <1>1, Zenon DEF ConnectInit
  <2>3. \A b \in App : pc'[b] = pc[b] \/ (pc[b] \in Connecting /\ pc'[b] \in Connecting)
    BY <2>1, <2>2, Zenon DEF Connecting
  <2>. QED BY <1>1, <2>1, <2>3, HoldStay, Zenon DEF ConnectInit
<1>2. CASE Poll(a)
  BY <1>2, HoldStay, HoldTypes, Zenon DEF Poll
<1>3. CASE ConnectDone(a)
  <2>1. CASE conn[cur[a]].state = "ESTABLISHED"
    BY <1>3, <2>1, HoldOpened, Zenon DEF ConnectDone
  <2>2. CASE conn[cur[a]].state # "ESTABLISHED"
    BY <1>3, <2>2, HoldFailed, Zenon DEF ConnectDone
  <2>. QED BY <2>1, <2>2, Zenon
<1>4. ASSUME NEW n \in 1..RxCap, Recv(a, n) PROVE HoldInv'
  <2>1. pc[a] = "recv" /\ (Goto(a, "open") \/ Goto(a, "test"))
    BY <1>4, Zenon DEF Recv
  <2>2. /\ DOMAIN pc' = App /\ (pc'[a] = "open" \/ pc'[a] = "test") /\ \A b \in App : b # a => pc'[b] = pc[b]
    BY <2>1, Goes, Zenon
  <2>3. \A b \in App : pc'[b] = pc[b] \/ (pc[b] \in Connected /\ pc'[b] \in Connected)
    BY <2>1, <2>2, Zenon DEF Connected
  <2>. QED BY <1>4, <2>2, <2>3, HoldStay, Zenon DEF Recv
<1>5. CASE RecvTest(a)
  <2>1. pc[a] = "test" /\ (Goto(a, "ended") \/ Goto(a, "recv"))
    BY <1>5, Zenon DEF RecvTest
  <2>2. /\ DOMAIN pc' = App /\ (pc'[a] = "ended" \/ pc'[a] = "recv") /\ \A b \in App : b # a => pc'[b] = pc[b]
    BY <2>1, Goes, Zenon
  <2>3. \A b \in App : pc'[b] = pc[b] \/ (pc[b] \in Connected /\ pc'[b] \in Connected)
    BY <2>1, <2>2, Zenon DEF Connected
  <2>. QED BY <1>5, <2>2, <2>3, HoldStay, Zenon DEF RecvTest
<1>6. CASE TcpClose(a)
  BY <1>6, HoldTcpClose, Zenon
<1>. QED BY <1>1, <1>2, <1>3, <1>4, <1>5, <1>6, Zenon DEF Running

LEMMA HoldStep ==
  ASSUME workload \in Workloads, HoldInv, [TcpNext]_tcpVars
  PROVE  HoldInv'
<1>. USE DEF kernelVars, appVars
<1>1. CASE \E p \in Ports : Peer(p) \/ \E seg \in Segments(p) : NetPoll(seg)
  <2>1. UNCHANGED <<workload, in_use, s_used, s_socks, sock, cur, leaked>> /\ pc' = pc
    BY <1>1, Zenon DEF Peer, NetPoll
  <2>. QED BY <2>1, HoldStay, HoldTypes, Zenon
<1>2. ASSUME NEW t \in Poller, Input(t) PROVE HoldInv'
  <2>1. UNCHANGED <<workload, in_use, s_used, s_socks, sock, cur, leaked>> /\ pc' = pc
    BY <1>2, Zenon DEF Input, InputMatch, InputState
  <2>. QED BY <2>1, HoldStay, HoldTypes, Zenon
<1>3. ASSUME NEW a \in App, Running(a) PROVE HoldInv'
  BY <1>3, HoldRunning, Zenon
<1>4. ASSUME NEW a \in App, Socket(a) PROVE HoldInv'
  BY <1>4, HoldSocket, Zenon
<1>5. ASSUME NEW a \in App, Connect(a) PROVE HoldInv'
  BY <1>5, HoldConnect, Zenon
<1>6. ASSUME NEW a \in App, Send(a) PROVE HoldInv'
  BY <1>6, HoldStay, HoldTypes, Zenon DEF Send
<1>7. ASSUME NEW a \in App, RecvCall(a) PROVE HoldInv'
  <2>1. pc[a] = "open" /\ Goto(a, "recv")
    BY <1>7, Zenon DEF RecvCall
  <2>2. DOMAIN pc' = App /\ pc'[a] = "recv" /\ \A b \in App : b # a => pc'[b] = pc[b]
    BY <2>1, Goes, Zenon
  <2>3. \A b \in App : pc'[b] = pc[b] \/ (pc[b] \in Connected /\ pc'[b] \in Connected)
    BY <2>1, <2>2, Zenon DEF Connected
  <2>. QED BY <1>7, <2>2, <2>3, HoldStay, Zenon DEF RecvCall
<1>8. ASSUME NEW a \in App, Close(a) PROVE HoldInv'
  BY <1>8, HoldClose, Zenon
<1>9. CASE UNCHANGED tcpVars
  <2>1. UNCHANGED <<workload, in_use, s_used, s_socks, sock, cur, leaked>> /\ pc' = pc
    BY <1>9, Zenon DEF tcpVars
  <2>. QED BY <2>1, HoldStay, HoldTypes, Zenon
<1>. QED BY <1>1, <1>2, <1>3, <1>4, <1>5, <1>6, <1>7, <1>8, <1>9, Zenon DEF TcpNext

LEMMA OwnInit ==
  ASSUME TcpInit
  PROVE  OwnInv
<1>1. PortInv
  <2>1. \A c \in Conns : conn[c] = Closed
    BY Zenon DEF TcpInit
  <2>2. DOMAIN Closed = {"state", "src_port", "rcv_nxt", "rxbuf"} /\ Closed.src_port = 0
    BY SMTT(40) DEF Closed
  <2>3. s_next_port = 1 /\ DOMAIN conn = Conns
    BY Zenon DEF TcpInit
  <2>. QED BY ONLY <2>1, <2>2, <2>3, SMTT(40) DEF PortInv
<1>2. HoldInv
  <2>1. ASSUME NEW a \in App PROVE Holds(a)
    BY Zenon DEF TcpInit, Holds, Connecting, Connected, Unsocketed, Unconnected
  <2>. QED BY <2>1, Zenon DEF TcpInit, HoldInv, Owned
<1>. QED BY <1>1, <1>2, Zenon DEF TcpInit, OwnInv

(* Every step of the TCP client, the pollers and the peer keeps the ports apart and
   leaves every connection in use with the thread, the socket or the second connect
   that is to blame for it. *)
THEOREM OwnInvariant == TcpSpec => []OwnInv
<1>1. ASSUME OwnInv, [TcpNext]_tcpVars PROVE OwnInv'
  <2>1. workload' = workload
    BY <1>1, ZenonT(60) DEF TcpNext, tcpVars, Peer, NetPoll, Input, InputMatch, InputState, Running, ConnectInit,
       Poll, ConnectDone, Recv, RecvTest, TcpClose, Socket, Connect, Send, RecvCall, Close
  <2>2. PortInv'
    BY <1>1, PortStep, Zenon DEF OwnInv
  <2>3. HoldInv'
    BY <1>1, HoldStep, Zenon DEF OwnInv
  <2>. QED BY <1>1, <2>1, <2>2, <2>3, Zenon DEF OwnInv
<1>. QED BY <1>1, OwnInit, PTL DEF TcpSpec

(* ConnOwned: from alloc_conn to tcp_close or the failed tcp_connect a connection
   belongs to one thread, it is lost only by a second connect on its socket, and the
   ports alloc_port hands out tell the connections apart. *)
THEOREM ConnOwnedHolds == TcpSpec => []ConnOwned
<1>1. OwnInv => ConnOwned
  BY Zenon DEF OwnInv, PortInv, HoldInv, ConnOwned
<1>. QED BY <1>1, OwnInvariant, PTL

-----------------------------------------------------------------------------
(* What a program reads *)

LEMMA OctetsSeq ==
  ASSUME NEW p, NEW k \in Nat, NEW m \in Nat
  PROVE  Octets(p, k, m) \in Seq({Byte(p, i) : i \in Nat}) /\ Len(Octets(p, k, m)) = m
BY SMTT(40) DEF Octets

(* A byte behind the ring's last. *)
LEMMA OctetsPush ==
  ASSUME NEW p, NEW k \in Nat, NEW m \in Nat, NEW d, d = <<Byte(p, k + m + 1)>>
  PROVE  Octets(p, k, m) \o SubSeq(d, 1, Len(d)) = Octets(p, k, m + 1)
<1>. DEFINE S == {Byte(p, i) : i \in Nat}
            q == Octets(p, k, m)
<1>1. q \in Seq(S) /\ Len(q) = m
  BY OctetsSeq, Zenon
<1>2. d \in Seq(S) /\ Len(d) = 1 /\ SubSeq(d, 1, Len(d)) = d
  <2>1. PICK x \in S : d = <<x>>
    <3>1. k + m + 1 \in Nat
      BY SMTT(40)
    <3>. QED BY <3>1, Zenon
  <2>. HIDE DEF S
  <2>2. <<x>> \in Seq(S) /\ Len(<<x>>) = 1
    BY SMTT(40)
  <2>3. d \in Seq(S) /\ Len(d) = 1
    BY <2>1, <2>2, Zenon
  <2>. QED BY <2>3, SubSeqFull, Zenon
<1>3. /\ q \o d \in Seq(S) /\ Len(q \o d) = m + 1
      /\ \A i \in 1..m + 1 : (q \o d)[i] = IF i <= m THEN q[i] ELSE d[i - m]
  <2>. HIDE DEF q, S
  <2>. QED BY <1>1, <1>2, ConcatProperties, SMTT(40)
<1>4. \A i \in 1..m + 1 : (q \o d)[i] = Byte(p, k + i)
  <2>1. ASSUME NEW i \in 1..m PROVE q[i] = Byte(p, k + i)
    BY Zenon DEF Octets
  <2>2. d[1] = Byte(p, k + m + 1)
    BY SMTT(40)
  <2>3. ASSUME NEW i \in 1..m + 1 PROVE (i <= m /\ i \in 1..m) \/ (~(i <= m) /\ i - m = 1 /\ k + i = k + m + 1)
    BY SMTT(40)
  <2>. HIDE DEF q
  <2>. QED BY <1>3, <2>1, <2>2, <2>3, Zenon
<1>5. Octets(p, k, m + 1) \in Seq(S) /\ Len(Octets(p, k, m + 1)) = m + 1
  <2>1. m + 1 \in Nat
    BY SMTT(40)
  <2>. QED BY <2>1, OctetsSeq, Zenon
<1>6. \A i \in 1..m + 1 : Octets(p, k, m + 1)[i] = Byte(p, k + i)
  BY Zenon DEF Octets
<1>. HIDE DEF q, S
<1>7. q \o d = Octets(p, k, m + 1)
  BY <1>3, <1>4, <1>5, <1>6, SeqEqual, Zenon
<1>. QED BY <1>2, <1>7, Zenon DEF q

(* The first n bytes of the ring behind what was read, and the rest. *)
LEMMA OctetsRead ==
  ASSUME NEW p, NEW k \in Nat, NEW m \in Nat, NEW n \in 1..m
  PROVE  /\ Octets(p, 0, k) \o SubSeq(Octets(p, k, m), 1, n) = Octets(p, 0, k + n)
         /\ SubSeq(Octets(p, k, m), n + 1, m) = Octets(p, k + n, m - n)
<1>. DEFINE S == {Byte(p, i) : i \in Nat}
            g == Octets(p, 0, k)
            q == Octets(p, k, m)
            h == SubSeq(q, 1, n)
            r == SubSeq(q, n + 1, m)
<1>1. /\ n \in Nat /\ k + n \in Nat /\ m - n \in Nat /\ 0 \in Nat /\ 1 \in 1..m + 1 /\ n \in 1 - 1..m
      /\ n + 1 \in 1..m + 1 /\ m \in n + 1 - 1..m /\ n - 1 + 1 = n /\ m - (n + 1) + 1 = m - n
  BY SMTT(40)
<1>2. g \in Seq(S) /\ Len(g) = k /\ q \in Seq(S) /\ Len(q) = m
  BY <1>1, OctetsSeq, Zenon
<1>3. /\ Octets(p, 0, k + n) \in Seq(S) /\ Len(Octets(p, 0, k + n)) = k + n
      /\ Octets(p, k + n, m - n) \in Seq(S) /\ Len(Octets(p, k + n, m - n)) = m - n
  BY <1>1, OctetsSeq, ZenonT(60)
<1>4. \A i \in 1..k : g[i] = Byte(p, i)
  <2>1. \A i \in 1..k : 0 + i = i
    BY SMTT(40)
  <2>. QED BY <2>1, Zenon DEF Octets
<1>5. \A i \in 1..m : q[i] = Byte(p, k + i)
  BY Zenon DEF Octets
<1>. HIDE DEF S, g, q
<1>6. h \in Seq(S) /\ Len(h) = n /\ \A i \in 1..n : h[i] = q[i]
  BY <1>1, <1>2, SubSeqProperties, SMTT(40)
<1>7. r \in Seq(S) /\ Len(r) = m - n /\ \A i \in 1..m - n : r[i] = q[n + i]
  BY <1>1, <1>2, SubSeqProperties, SMTT(40)
<1>. HIDE DEF h, r
<1>8. g \o h = Octets(p, 0, k + n)
  <2>1. /\ g \o h \in Seq(S) /\ Len(g \o h) = k + n
        /\ \A i \in 1..k + n : (g \o h)[i] = IF i <= k THEN g[i] ELSE h[i - k]
    <3>1. /\ g \o h \in Seq(S) /\ Len(g \o h) = Len(g) + Len(h)
          /\ \A i \in 1..Len(g) + Len(h) : (g \o h)[i] = IF i <= Len(g) THEN g[i] ELSE h[i - Len(g)]
      BY <1>2, <1>6, ConcatProperties, Zenon
    <3>2. Len(g) = k /\ Len(h) = n
      BY <1>2, <1>6, Zenon
    <3>. QED BY ONLY <3>1, <3>2, Zenon
  <2>2. ASSUME NEW i \in 1..k + n PROVE (g \o h)[i] = Byte(p, i)
    <3>1. CASE i <= k
      <4>1. i \in 1..k
        BY <3>1, SMTT(40)
      <4>. QED BY <1>4, <2>1, <3>1, <4>1, Zenon
    <3>2. CASE ~(i <= k)
      <4>1. i - k \in 1..n /\ i - k \in 1..m /\ k + (i - k) = i
        BY <3>2, SMTT(40)
      <4>. QED BY <1>5, <1>6, <2>1, <3>2, <4>1, Zenon
    <3>. QED BY <3>1, <3>2, Zenon
  <2>3. \A i \in 1..k + n : Octets(p, 0, k + n)[i] = Byte(p, i)
    <3>1. \A i \in 1..k + n : 0 + i = i
      BY SMTT(40)
    <3>. QED BY <3>1, Zenon DEF Octets
  <2>. QED BY <1>3, <2>1, <2>2, <2>3, SeqEqual, Zenon
<1>9. r = Octets(p, k + n, m - n)
  <2>1. ASSUME NEW i \in 1..m - n PROVE r[i] = Byte(p, k + n + i)
    <3>1. n + i \in 1..m /\ k + (n + i) = k + n + i
      BY SMTT(40)
    <3>. QED BY <1>5, <1>7, <3>1, Zenon
  <2>2. \A i \in 1..m - n : Octets(p, k + n, m - n)[i] = Byte(p, k + n + i)
    BY Zenon DEF Octets
  <2>. QED BY <1>3, <1>7, <2>1, <2>2, SeqEqual, Zenon
<1>. QED BY <1>8, <1>9, Zenon DEF g, q, h, r

(* The ring takes the byte at rcv_nxt. *)
LEMMA StreamPush ==
  ASSUME NEW g, NEW r, NEW s, Stream(g, r), r.state = "ESTABLISHED",
         NEW d, d = <<Byte(r.src_port, r.rcv_nxt)>>,
         s.rxbuf = r.rxbuf \o SubSeq(d, 1, Len(d)), s.src_port = r.src_port,
         s.state = "ESTABLISHED" => s.rcv_nxt = r.rcv_nxt + Len(d)
  PROVE  Stream(g, s)
<1>. DEFINE p == r.src_port
            k == Len(g)
            m == Len(r.rxbuf)
<1>1. /\ k \in Nat /\ m \in Nat /\ g = Octets(p, 0, k) /\ r.rxbuf = Octets(p, k, m)
      /\ r.rcv_nxt = k + m + 1
  BY Zenon DEF Stream
<1>. HIDE DEF p, k, m
<1>2. s.rxbuf = Octets(p, k, m + 1)
  <2>1. d = <<Byte(p, k + m + 1)>>
    BY <1>1, Zenon DEF p
  <2>2. Octets(p, k, m) \o SubSeq(d, 1, Len(d)) = Octets(p, k, m + 1)
    BY <1>1, <2>1, OctetsPush, Zenon
  <2>3. s.rxbuf = Octets(p, k, m) \o SubSeq(d, 1, Len(d))
    BY <1>1, Zenon
  <2>. QED BY ONLY <2>2, <2>3, Zenon
<1>3. m + 1 \in Nat /\ Len(d) = 1 /\ k + m + 1 + 1 = k + (m + 1) + 1
  BY <1>1, SMTT(40)
<1>4. Len(s.rxbuf) = m + 1
  <2>1. Len(Octets(p, k, m + 1)) = m + 1
    BY <1>1, <1>3, OctetsSeq, Zenon
  <2>. QED BY ONLY <1>2, <2>1, Zenon
<1>5. s.state = "ESTABLISHED" => s.rcv_nxt = k + (m + 1) + 1
  BY <1>1, <1>3, Zenon
<1>. QED BY <1>1, <1>2, <1>3, <1>4, <1>5, Zenon DEF Stream, p, k

(* Nothing taken. *)
LEMMA StreamSame ==
  ASSUME NEW g, NEW r, NEW s, Stream(g, r), s.rxbuf = r.rxbuf, s.src_port = r.src_port,
         s.state = "ESTABLISHED" => s.rcv_nxt = Len(g) + Len(r.rxbuf) + 1
  PROVE  Stream(g, s)
BY Zenon DEF Stream

(* tcp_recv moves the first n bytes of the ring to the caller. *)
LEMMA StreamRead ==
  ASSUME NEW g, NEW r, NEW s, NEW n, Stream(g, r), n \in 1..Len(r.rxbuf),
         s.rxbuf = SubSeq(r.rxbuf, n + 1, Len(r.rxbuf)), s.src_port = r.src_port,
         s.state = r.state, s.rcv_nxt = r.rcv_nxt
  PROVE  Stream(g \o SubSeq(r.rxbuf, 1, n), s)
<1>. DEFINE p == r.src_port
            k == Len(g)
            m == Len(r.rxbuf)
            h == g \o SubSeq(r.rxbuf, 1, n)
<1>1. /\ k \in Nat /\ m \in Nat /\ g = Octets(p, 0, k) /\ r.rxbuf = Octets(p, k, m)
      /\ r.state = "ESTABLISHED" => r.rcv_nxt = k + m + 1
  BY Zenon DEF Stream
<1>2. n \in 1..m /\ s.rxbuf = SubSeq(r.rxbuf, n + 1, m)
  OBVIOUS
<1>. HIDE DEF p, k, m
<1>3. h = Octets(p, 0, k + n) /\ s.rxbuf = Octets(p, k + n, m - n)
  <2>1. /\ Octets(p, 0, k) \o SubSeq(Octets(p, k, m), 1, n) = Octets(p, 0, k + n)
        /\ SubSeq(Octets(p, k, m), n + 1, m) = Octets(p, k + n, m - n)
    BY <1>1, <1>2, OctetsRead, Zenon
  <2>2. h = Octets(p, 0, k) \o SubSeq(Octets(p, k, m), 1, n)
    BY <1>1, Zenon
  <2>3. s.rxbuf = SubSeq(Octets(p, k, m), n + 1, m)
    BY <1>1, <1>2, Zenon
  <2>. HIDE DEF h
  <2>. QED BY ONLY <2>1, <2>2, <2>3, Zenon
<1>4. k + n \in Nat /\ m - n \in Nat /\ 0 \in Nat /\ k + m + 1 = (k + n) + (m - n) + 1
  BY <1>1, <1>2, SMTT(40)
<1>. HIDE DEF h
<1>5. Len(h) = k + n /\ Len(s.rxbuf) = m - n
  <2>1. Len(Octets(p, 0, k + n)) = k + n
    BY ONLY <1>4, OctetsSeq, Zenon
  <2>2. Len(Octets(p, k + n, m - n)) = m - n
    BY ONLY <1>4, OctetsSeq, Zenon
  <2>. QED BY ONLY <1>3, <2>1, <2>2, Zenon
<1>6. s.state = "ESTABLISHED" => s.rcv_nxt = Len(h) + Len(s.rxbuf) + 1
  BY <1>1, <1>4, <1>5, Zenon
<1>7. Stream(h, s)
  BY <1>3, <1>4, <1>5, <1>6, Zenon DEF Stream, p
<1>. QED BY <1>7, Zenon DEF h

LEMMA StreamNew ==
  ASSUME NEW r, r.rxbuf = <<>>, r.state # "ESTABLISHED"
  PROVE  Stream(<<>>, r)
<1>1. Len(<<>>) = 0 /\ 0 \in Nat
  BY SMTT(40)
<1>2. <<>> = Octets(r.src_port, 0, 0)
  BY SMTT(40) DEF Octets
<1>. QED BY <1>1, <1>2, Zenon DEF Stream

(* tcp_input keeps the stream of an undisturbed connection, if it is one or is about
   to become one. *)
LEMMA InputStream ==
  ASSUME PortInv, PollInv, NEW t \in Poller, InputState(t), rxc[t] \notin tainted',
         NEW g, Stream(g, conn[rxc[t]]),
         conn[rxc[t]].state = "SYN_SENT" => g = <<>> /\ conn[rxc[t]].rxbuf = <<>>
  PROVE  /\ Stream(g, conn'[rxc[t]])
         /\ conn'[rxc[t]].state = "SYN_SENT" => conn[rxc[t]].state = "SYN_SENT" /\ conn'[rxc[t]].rxbuf = <<>>
<1>. DEFINE c == rxc[t]
            seg == rxseg[t]
            k == conn[c]
            j == conn'[c]
<1>1. /\ rx[t] = "match" /\ c \in Conns /\ c \in DOMAIN conn
      /\ DOMAIN k = {"state", "src_port", "rcv_nxt", "rxbuf"}
  BY Zenon DEF InputState, PollInv, PortInv
<1>2. c \notin tainted
  BY Zenon DEF InputState, Established
<1>3. Proper(seg) /\ buf[BufOf(t)].data = seg.data /\ seg.port = k.src_port
  BY <1>1, <1>2, Zenon DEF PollInv
<1>4. Len(<<>>) = 0
  BY SMTT(40)
<1>5. CASE conn' = conn
  BY <1>5, Zenon
<1>6. CASE conn' = [conn EXCEPT ![c].state = "CLOSED"]
  <2>1. j = [k EXCEPT !.state = "CLOSED"]
    BY <1>1, <1>6, Zenon
  <2>. HIDE DEF k, j
  <2>2. j.rxbuf = k.rxbuf /\ j.src_port = k.src_port /\ j.state = "CLOSED"
    BY <1>1, <2>1, SMTT(40)
  <2>3. Stream(g, j)
    BY <2>2, StreamSame, Zenon DEF k, j
  <2>. QED BY <2>2, <2>3, Zenon DEF j
<1>7. CASE k.state = "SYN_SENT" /\ {"SYN", "ACK"} \subseteq seg.flags
  <2>1. conn' = [conn EXCEPT ![c].rcv_nxt = seg.seq + 1, ![c].state = "ESTABLISHED"]
    BY <1>7, Zenon DEF InputState
  <2>2. j = [k EXCEPT !.rcv_nxt = seg.seq + 1, !.state = "ESTABLISHED"]
    BY <1>1, <2>1, Zenon
  <2>3. seg.seq = 0
    BY <1>3, <1>7, Zenon DEF Proper
  <2>4. g = <<>> /\ k.rxbuf = <<>>
    BY <1>7, Zenon
  <2>5. /\ j.rxbuf = k.rxbuf /\ j.src_port = k.src_port /\ j.state = "ESTABLISHED" /\ j.rcv_nxt = 0 + 1
    <3>. HIDE DEF k, j, seg
    <3>. QED BY <1>1, <2>2, <2>3, SMTT(40)
  <2>6. 0 + 1 = 0 + 0 + 1
    OBVIOUS
  <2>7. Stream(g, j)
    BY <1>4, <2>4, <2>5, <2>6, StreamSame, Zenon
  <2>. QED BY <2>5, <2>7, Zenon
<1>8. CASE k.state = "ESTABLISHED" /\ ~("RST" \in seg.flags)
  <2>. DEFINE data == buf[BufOf(t)].data
              take == Len(data) > 0 /\ InOrder(c, seg)
              k1 == IF take THEN [k EXCEPT !.rxbuf = Pushed(@, data), !.rcv_nxt = @ + Len(data)] ELSE k
              k2 == IF "FIN" \in seg.flags THEN [k1 EXCEPT !.rcv_nxt = @ + 1, !.state = "CLOSED"] ELSE k1
  <2>1. Established(c, seg, data)
    BY <1>8, Zenon DEF InputState
  <2>2. /\ conn' = [conn EXCEPT ![c] = k2]
        /\ tainted' = tainted \cup {x \in {c} : take /\ (data = <<Pad>> \/ Len(k.rxbuf) + Len(data) > RxCap)}
    BY <1>8, <2>1, Zenon DEF Established
  <2>3. j = k2
    BY <1>1, <2>2, Zenon
  <2>4. take => data # <<Pad>> /\ ~(Len(k.rxbuf) + Len(data) > RxCap)
    BY <2>2, Zenon
  <2>5. /\ k1.src_port = k.src_port /\ k1.state = "ESTABLISHED" /\ Stream(g, k1)
        /\ DOMAIN k1 = {"state", "src_port", "rcv_nxt", "rxbuf"}
    <3>1. CASE ~take
      BY <1>1, <1>8, <3>1, Zenon
    <3>2. CASE take
      <4>1. seg.seq = k.rcv_nxt
        BY <3>2, Zenon DEF InOrder
      <4>2. data # <<>>
        BY <1>4, <3>2, SMTT(40)
      <4>3. data = <<Byte(k.src_port, k.rcv_nxt)>>
        BY <1>3, <2>4, <3>2, <4>1, <4>2, Zenon DEF Proper
      <4>4. Pushed(k.rxbuf, data) = k.rxbuf \o SubSeq(data, 1, Len(data))
        BY <2>4, <3>2, Zenon DEF Pushed
      <4>5. k1 = [k EXCEPT !.rxbuf = k.rxbuf \o SubSeq(data, 1, Len(data)), !.rcv_nxt = k.rcv_nxt + Len(data)]
        BY <3>2, <4>4, Zenon
      <4>6. /\ k1.src_port = k.src_port /\ k1.state = k.state /\ k1.rcv_nxt = k.rcv_nxt + Len(data)
            /\ k1.rxbuf = k.rxbuf \o SubSeq(data, 1, Len(data))
            /\ DOMAIN k1 = {"state", "src_port", "rcv_nxt", "rxbuf"}
        <5>. HIDE DEF k, data, k1
        <5>. QED BY <1>1, <4>5, SMTT(40)
      <4>7. Stream(g, k1)
        <5>. HIDE DEF data, k1
        <5>. QED BY <1>8, <4>3, <4>6, StreamPush, Zenon
      <4>. QED BY <1>8, <4>6, <4>7, Zenon
    <3>. QED BY <3>1, <3>2, Zenon
  <2>. HIDE DEF k1, take
  <2>6. CASE ~("FIN" \in seg.flags)
    BY <2>3, <2>5, <2>6, Zenon
  <2>7. CASE "FIN" \in seg.flags
    <3>1. j = [k1 EXCEPT !.rcv_nxt = k1.rcv_nxt + 1, !.state = "CLOSED"]
      BY <2>3, <2>7, Zenon
    <3>2. j.rxbuf = k1.rxbuf /\ j.src_port = k1.src_port /\ j.state = "CLOSED"
      <4>. HIDE DEF j
      <4>. QED BY <2>5, <3>1, SMTT(40)
    <3>3. Stream(g, j)
      <4>. HIDE DEF j
      <4>. QED BY <2>5, <3>2, StreamSame, Zenon
    <3>. QED BY <3>2, <3>3, Zenon
  <2>. QED BY <2>6, <2>7, Zenon
<1>9. \/ conn' = conn \/ conn' = [conn EXCEPT ![c].state = "CLOSED"]
      \/ k.state = "SYN_SENT" /\ {"SYN", "ACK"} \subseteq seg.flags
      \/ k.state = "ESTABLISHED" /\ ~("RST" \in seg.flags)
  BY Zenon DEF InputState, Established
<1>. QED BY <1>5, <1>6, <1>7, <1>8, <1>9, Zenon

LEMMA TaintGrows ==
  ASSUME NEW t \in Poller, InputState(t) \/ InputMatch(t)
  PROVE  tainted \subseteq tainted'
BY Zenon DEF InputState, InputMatch, Established

LEMMA SegmentsProper ==
  ASSUME NEW p, NEW seg \in Segments(p)
  PROVE  Proper(seg)
<1>1. Padding \in {<<>>, <<Pad>>}
  BY Zenon DEF Padding
<1>2. /\ "ACK" # "SYN" /\ "SYN" \notin {"ACK"} /\ "SYN" \notin {"FIN", "ACK"} /\ "SYN" \notin {"RST"}
  BY Zenon
<1>3. CASE seg = Segment(p, {"SYN", "ACK"}, 0, <<>>)
  <2>1. seg.data = <<>> /\ seg.seq = 0
    BY <1>3, SMTT(40) DEF Segment
  <2>. QED BY <2>1, Zenon DEF Proper
<1>4. ASSUME NEW i, NEW f, f \in {{"ACK"}, {"FIN", "ACK"}, {"RST"}},
             NEW d, seg = Segment(p, f, i, d), d \in {Padding, <<Byte(p, i)>>}
      PROVE  Proper(seg)
  <2>1. seg.data = d /\ seg.port = p /\ seg.seq = i /\ seg.flags = f
    BY <1>4, SMTT(40) DEF Segment
  <2>2. ~({"SYN", "ACK"} \subseteq f)
    BY <1>2, <1>4, Zenon
  <2>. QED BY <1>1, <1>4, <2>1, <2>2, Zenon DEF Proper
<1>. QED BY <1>3, <1>4, Zenon DEF Segments

(* Steps that read no frame: they may change a connection a poller has matched only
   by tainting it. *)
LEMMA PollStay ==
  ASSUME PollInv, UNCHANGED <<workload, rx, rxc, rxseg, buf>>,
         \A t \in Poller : rx[t] = "match" /\ rxc[t] \notin tainted' =>
           rxc[t] \notin tainted /\ conn'[rxc[t]].src_port = conn[rxc[t]].src_port
  PROVE  PollInv'
<1>1. Conns' = Conns
  BY Zenon DEF Conns
<1>. QED BY <1>1, Zenon DEF PollInv

LEMMA PollSame ==
  ASSUME PortInv, PollInv, SamePorts, UNCHANGED <<workload, rx, rxc, rxseg, buf>>, tainted \subseteq tainted'
  PROVE  PollInv'
<1>1. ASSUME NEW t \in Poller, rx[t] = "match", rxc[t] \notin tainted'
      PROVE  rxc[t] \notin tainted /\ conn'[rxc[t]].src_port = conn[rxc[t]].src_port
  <2>1. rxc[t] \in DOMAIN conn
    BY <1>1, Zenon DEF PollInv, PortInv
  <2>. QED BY <1>1, <2>1, Zenon DEF SamePorts
<1>. QED BY <1>1, PollStay, Zenon

LEMMA PollReceive ==
  ASSUME PollInv, NEW t \in Poller, NEW seg, Proper(seg), Receive(t, seg), UNCHANGED <<workload, conn>>
  PROVE  PollInv'
<1>1. Conns' = Conns
  BY Zenon DEF Conns
<1>2. /\ rx' = [rx EXCEPT ![t] = "frame"] /\ buf' = [buf EXCEPT ![BufOf(t)] = seg]
      /\ rxc' = rxc /\ rxseg' = rxseg
  BY Zenon DEF Receive
<1>3. \A u \in Poller : rx[u] = "match" /\ BufOf(u) = BufOf(t) => rxc[u] \in tainted'
  BY Zenon DEF Receive
<1>4. tainted \subseteq tainted'
  BY Zenon DEF Receive
<1>5. /\ DOMAIN rx' = Poller /\ DOMAIN buf' = {"s_rx_frame", "s_poll_buf"} /\ rx'[t] = "frame"
      /\ \A u \in Poller : u # t => rx'[u] = rx[u]
  BY <1>2, Zenon DEF PollInv
<1>6. \A u \in Poller : BufOf(u) \in {"s_rx_frame", "s_poll_buf"}
  BY Zenon DEF BufOf
<1>7. ASSUME NEW u \in Poller PROVE buf'[BufOf(u)] = IF BufOf(u) = BufOf(t) THEN seg ELSE buf[BufOf(u)]
  BY <1>2, <1>6, Zenon DEF PollInv
<1>8. ASSUME NEW u \in Poller, rx'[u] # "idle" PROVE Proper(buf'[BufOf(u)])
  <2>1. CASE BufOf(u) = BufOf(t)
    BY <1>7, <2>1, Zenon
  <2>2. CASE BufOf(u) # BufOf(t)
    <3>1. u # t /\ rx[u] # "idle" /\ buf'[BufOf(u)] = buf[BufOf(u)]
      BY <1>5, <1>7, <1>8, <2>2, Zenon
    <3>. QED BY <3>1, Zenon DEF PollInv
  <2>. QED BY <2>1, <2>2, Zenon
<1>9. ASSUME NEW u \in Poller, rx'[u] = "match"
      PROVE  /\ rxc[u] \in Conns /\ Proper(rxseg[u])
             /\ rxc[u] \notin tainted' => buf'[BufOf(u)] = rxseg[u] /\ rxseg[u].port = conn[rxc[u]].src_port
  <2>1. rx[u] = "match"
    BY <1>5, <1>9, Zenon
  <2>2. rxc[u] \notin tainted' => rxc[u] \notin tainted /\ buf'[BufOf(u)] = buf[BufOf(u)]
    BY <1>3, <1>4, <1>7, <2>1, Zenon
  <2>. QED BY <2>1, <2>2, Zenon DEF PollInv
<1>10. DOMAIN rxc = Poller /\ DOMAIN rxseg = Poller /\ conn' = conn
  BY Zenon DEF PollInv
<1>. QED BY ONLY <1>1, <1>2, <1>5, <1>8, <1>9, <1>10, Zenon DEF PollInv

(* The buffer of the pollers that are not done. *)
LEMMA ReleasedKeeps ==
  ASSUME PollInv, NEW t \in Poller, buf' = Released(t)
  PROVE  /\ DOMAIN buf' = {"s_rx_frame", "s_poll_buf"}
         /\ \A u \in Poller : u # t /\ rx[u] # "idle" => buf'[BufOf(u)] = buf[BufOf(u)]
<1>1. \A u \in Poller : BufOf(u) \in {"s_rx_frame", "s_poll_buf"}
  BY Zenon DEF BufOf
<1>2. CASE \E u \in Poller \ {t} : BufOf(u) = BufOf(t) /\ rx[u] # "idle"
  BY <1>2, Zenon DEF Released, PollInv
<1>3. CASE ~\E u \in Poller \ {t} : BufOf(u) = BufOf(t) /\ rx[u] # "idle"
  <2>1. buf' = [buf EXCEPT ![BufOf(t)] = None]
    BY <1>3, Zenon DEF Released
  <2>2. DOMAIN buf' = {"s_rx_frame", "s_poll_buf"}
    BY <2>1, Zenon DEF PollInv
  <2>3. ASSUME NEW u \in Poller, u # t, rx[u] # "idle" PROVE buf'[BufOf(u)] = buf[BufOf(u)]
    <3>1. BufOf(u) # BufOf(t)
      BY <1>3, <2>3, Zenon
    <3>. QED BY <1>1, <2>1, <3>1, Zenon DEF PollInv
  <2>. QED BY <2>2, <2>3, Zenon
<1>. QED BY <1>2, <1>3, Zenon

(* A poller is done: the others go on as they were. *)
LEMMA PollDone ==
  ASSUME PortInv, PollInv, NEW t \in Poller, rx' = [rx EXCEPT ![t] = "idle"], buf' = Released(t),
         DOMAIN rxc' = Poller, DOMAIN rxseg' = Poller,
         \A u \in Poller : u # t => rxc'[u] = rxc[u] /\ rxseg'[u] = rxseg[u],
         workload' = workload, SamePorts, tainted \subseteq tainted'
  PROVE  PollInv'
<1>1. Conns' = Conns
  BY Zenon DEF Conns
<1>2. DOMAIN rx' = Poller /\ rx'[t] = "idle" /\ \A u \in Poller : u # t => rx'[u] = rx[u]
  BY Zenon DEF PollInv
<1>3. /\ DOMAIN buf' = {"s_rx_frame", "s_poll_buf"}
      /\ \A u \in Poller : u # t /\ rx[u] # "idle" => buf'[BufOf(u)] = buf[BufOf(u)]
  BY ReleasedKeeps, Zenon
<1>4. ASSUME NEW u \in Poller, rx'[u] # "idle"
      PROVE  u # t /\ rx'[u] = rx[u] /\ rxc'[u] = rxc[u] /\ rxseg'[u] = rxseg[u] /\ buf'[BufOf(u)] = buf[BufOf(u)]
  BY <1>2, <1>3, <1>4, Zenon
<1>5. ASSUME NEW u \in Poller, rx'[u] # "idle" PROVE Proper(buf'[BufOf(u)])
  <2>1. rx[u] # "idle" /\ buf'[BufOf(u)] = buf[BufOf(u)]
    BY <1>4, <1>5, Zenon
  <2>. QED BY <2>1, Zenon DEF PollInv
<1>6. ASSUME NEW u \in Poller, rx'[u] = "match"
      PROVE  /\ rxc'[u] \in Conns /\ Proper(rxseg'[u])
             /\ rxc'[u] \notin tainted' => buf'[BufOf(u)] = rxseg'[u] /\ rxseg'[u].port = conn'[rxc'[u]].src_port
  <2>1. rx'[u] # "idle"
    BY <1>6, Zenon
  <2>2. rx[u] = "match" /\ rxc'[u] = rxc[u] /\ rxseg'[u] = rxseg[u] /\ buf'[BufOf(u)] = buf[BufOf(u)]
    BY <1>4, <1>6, <2>1, Zenon
  <2>3. /\ rxc[u] \in Conns /\ Proper(rxseg[u])
        /\ rxc[u] \notin tainted => buf[BufOf(u)] = rxseg[u] /\ rxseg[u].port = conn[rxc[u]].src_port
    BY <2>2, Zenon DEF PollInv
  <2>4. conn'[rxc[u]].src_port = conn[rxc[u]].src_port
    BY <2>3, Zenon DEF SamePorts, PortInv
  <2>. QED BY <2>2, <2>3, <2>4, Zenon
<1>. QED BY ONLY <1>1, <1>2, <1>3, <1>5, <1>6, DOMAIN rxc' = Poller, DOMAIN rxseg' = Poller, Zenon DEF PollInv

LEMMA PollMatch ==
  ASSUME workload \in Workloads, PortInv, PollInv, in_use \subseteq Conns, NEW t \in Poller, InputMatch(t)
  PROVE  PollInv'
<1>. DEFINE seg == buf[BufOf(t)]
            found == Matches(seg.port)
            c == Lowest(found)
<1>0. rx[t] = "frame" /\ workload' = workload /\ conn' = conn
  BY Zenon DEF InputMatch, kernelVars
<1>1. CASE found = {}
  <2>1. /\ rx' = [rx EXCEPT ![t] = "idle"] /\ buf' = Released(t) /\ rxc' = rxc /\ rxseg' = rxseg /\ tainted' = tainted
    BY <1>1, Zenon DEF InputMatch
  <2>2. DOMAIN rxc' = Poller /\ DOMAIN rxseg' = Poller
    BY <2>1, Zenon DEF PollInv
  <2>3. SamePorts
    BY <1>0, SameConn, Zenon
  <2>. QED BY <1>0, <2>1, <2>2, <2>3, PollDone, Zenon
<1>2. CASE found # {}
  <2>1. /\ rx' = [rx EXCEPT ![t] = "match"] /\ rxc' = [rxc EXCEPT ![t] = c]
        /\ rxseg' = [rxseg EXCEPT ![t] = seg] /\ buf' = buf
    BY <1>2, Zenon DEF InputMatch
  <2>2. tainted \subseteq tainted'
    BY TaintGrows, Zenon
  <2>3. c \in in_use /\ conn[c].src_port = seg.port
    <3>1. found \subseteq Nat
      BY SlotNumbers, Zenon DEF Matches
    <3>2. c \in found
      BY <1>2, <3>1, LowestIn, Zenon
    <3>. QED BY <3>2, Zenon DEF Matches
  <2>4. c \in Conns
    BY <2>3, Zenon
  <2>. HIDE DEF c
  <2>5. Proper(seg)
    BY <1>0, Zenon DEF PollInv
  <2>6. /\ DOMAIN rx' = Poller /\ DOMAIN rxc' = Poller /\ DOMAIN rxseg' = Poller
        /\ DOMAIN buf' = {"s_rx_frame", "s_poll_buf"}
        /\ rxc'[t] = c /\ rxseg'[t] = seg
    BY <2>1, Zenon DEF PollInv
  <2>7. \A u \in Poller : u # t => rx'[u] = rx[u] /\ rxc'[u] = rxc[u] /\ rxseg'[u] = rxseg[u]
    BY <2>1, Zenon DEF PollInv
  <2>8. Conns' = Conns
    BY <1>0, Zenon DEF Conns
  <2>9. \A u \in Poller : rx'[u] # "idle" => Proper(buf[BufOf(u)])
    BY <2>5, <2>7, Zenon DEF PollInv
  <2>10. ASSUME NEW u \in Poller, rx'[u] = "match"
         PROVE  /\ rxc'[u] \in Conns /\ Proper(rxseg'[u])
                /\ rxc'[u] \notin tainted' => buf[BufOf(u)] = rxseg'[u] /\ rxseg'[u].port = conn[rxc'[u]].src_port
    <3>1. CASE u = t
      BY <2>3, <2>4, <2>5, <2>6, <3>1, Zenon
    <3>2. CASE u # t
      <4>1. rx[u] = "match" /\ rxc'[u] = rxc[u] /\ rxseg'[u] = rxseg[u]
        BY <2>7, <2>10, <3>2, Zenon
      <4>2. /\ rxc[u] \in Conns /\ Proper(rxseg[u])
            /\ rxc[u] \notin tainted => buf[BufOf(u)] = rxseg[u] /\ rxseg[u].port = conn[rxc[u]].src_port
        BY <4>1, Zenon DEF PollInv
      <4>. QED BY <2>2, <4>1, <4>2, Zenon
    <3>. QED BY <3>1, <3>2, Zenon
  <2>. QED BY ONLY <1>0, <2>1, <2>6, <2>8, <2>9, <2>10, Zenon DEF PollInv
<1>. QED BY <1>1, <1>2, Zenon

LEMMA PollState ==
  ASSUME PortInv, PollInv, NEW t \in Poller, InputState(t)
  PROVE  PollInv'
<1>1. /\ rx' = [rx EXCEPT ![t] = "idle"] /\ rxc' = [rxc EXCEPT ![t] = None]
      /\ rxseg' = [rxseg EXCEPT ![t] = None] /\ buf' = Released(t) /\ workload' = workload
  BY Zenon DEF InputState
<1>2. DOMAIN rxc' = Poller /\ DOMAIN rxseg' = Poller
  BY <1>1, Zenon DEF PollInv
<1>3. \A u \in Poller : u # t => rxc'[u] = rxc[u] /\ rxseg'[u] = rxseg[u]
  BY <1>1, Zenon DEF PollInv
<1>. QED BY <1>1, <1>2, <1>3, InputSame, TaintGrows, PollDone, Zenon

(* A thread that begins a connect takes a slot, or fills it in, under the pollers
   that have matched it: it is tainted. *)
LEMMA PollConnect ==
  ASSUME PortInv, PollInv, NEW a \in App, Connect(a) \/ ConnectInit(a)
  PROVE  PollInv'
<1>1. UNCHANGED <<workload, rx, rxc, rxseg, buf>>
  BY Zenon DEF Connect, ConnectInit, rxVars
<1>2. ASSUME NEW t \in Poller, rx[t] = "match", rxc[t] \notin tainted'
      PROVE  rxc[t] \notin tainted /\ conn'[rxc[t]].src_port = conn[rxc[t]].src_port
  <2>1. CASE Connect(a)
    <3>1. tainted' = (tainted \ {Lowest(FreeConns)}) \cup Disturbed(Lowest(FreeConns)) /\ conn' = conn
      BY <2>1, Zenon DEF Connect
    <3>2. rxc[t] # Lowest(FreeConns)
      BY <1>2, <3>1, Zenon DEF Disturbed
    <3>. QED BY <1>2, <3>1, <3>2, Zenon
  <2>2. CASE ConnectInit(a)
    <3>. DEFINE k == [Closed EXCEPT !.state = "SYN_SENT", !.src_port = s_next_port]
    <3>1. tainted' = tainted \cup Disturbed(cur[a]) /\ conn' = [conn EXCEPT ![cur[a]] = k]
      BY <2>2, Zenon DEF ConnectInit
    <3>. HIDE DEF k
    <3>2. rxc[t] # cur[a] /\ rxc[t] \notin tainted
      BY <1>2, <3>1, Zenon DEF Disturbed
    <3>3. rxc[t] \in DOMAIN conn
      BY <1>2, Zenon DEF PollInv, PortInv
    <3>. QED BY <3>1, <3>2, <3>3, Zenon
  <2>. QED BY <2>1, <2>2, Zenon
<1>. QED BY <1>1, <1>2, PollStay, Zenon

LEMMA PollStep ==
  ASSUME workload \in Workloads, PortInv, PollInv, in_use \subseteq Conns, [TcpNext]_tcpVars
  PROVE  PollInv'
<1>. USE DEF kernelVars, rxVars
<1>1. ASSUME NEW p \in Ports, Peer(p) PROVE PollInv'
  BY <1>1, SameConn, PollSame, Zenon DEF Peer
<1>2. ASSUME NEW p \in Ports, NEW seg \in Segments(p), NetPoll(seg) PROVE PollInv'
  <2>1. Receive(NetThread, seg) /\ UNCHANGED <<workload, conn>>
    BY <1>2, Zenon DEF NetPoll
  <2>2. NetThread \in Poller
    BY Zenon DEF Poller
  <2>. QED BY <2>1, <2>2, SegmentsProper, PollReceive, Zenon
<1>3. ASSUME NEW t \in Poller, Input(t) PROVE PollInv'
  BY <1>3, PollMatch, PollState, Zenon DEF Input
<1>4. ASSUME NEW a \in App, Poll(a) PROVE PollInv'
  <2>1. ASSUME NEW p \in Ports, NEW seg \in Segments(p), Receive(a, seg) PROVE PollInv'
    <3>1. a \in Poller
      BY Zenon DEF Poller
    <3>. QED BY <1>4, <2>1, <3>1, SegmentsProper, PollReceive, Zenon DEF Poll
  <2>2. CASE UNCHANGED <<rxVars, tainted>>
    BY <1>4, <2>2, SameConn, PollSame, Zenon DEF Poll
  <2>. QED BY <1>4, <2>1, <2>2, Zenon DEF Poll
<1>5. ASSUME NEW a \in App, Connect(a) \/ ConnectInit(a) PROVE PollInv'
  BY <1>5, PollConnect, Zenon
<1>6. ASSUME NEW a \in App, ConnectDone(a) PROVE PollInv'
  <2>1. conn' = conn \/ conn' = Freed(cur[a], conn[cur[a]].state)
    BY <1>6, Zenon DEF ConnectDone
  <2>2. SamePorts
    BY <2>1, SameConn, FreedSame, Zenon
  <2>. QED BY <1>6, <2>2, PollSame, Zenon DEF ConnectDone
<1>7. ASSUME NEW a \in App, NEW n \in 1..RxCap, Recv(a, n) PROVE PollInv'
  BY <1>7, RecvSame, PollSame, Zenon DEF Recv
<1>8. ASSUME NEW a \in App, TcpClose(a) PROVE PollInv'
  BY <1>8, FreedSame, PollSame, Zenon DEF TcpClose
<1>9. ASSUME NEW a \in App, RecvTest(a) \/ Socket(a) \/ Send(a) \/ RecvCall(a) \/ Close(a) PROVE PollInv'
  <2>1. conn' = conn /\ UNCHANGED <<workload, rx, rxc, rxseg, buf>> /\ tainted' = tainted
    BY <1>9, Zenon DEF RecvTest, Socket, Send, RecvCall, Close
  <2>. QED BY <2>1, SameConn, PollSame, Zenon
<1>10. CASE UNCHANGED tcpVars
  BY <1>10, SameConn, PollSame, Zenon DEF tcpVars
<1>. QED BY <1>1, <1>2, <1>3, <1>4, <1>5, <1>6, <1>7, <1>8, <1>9, <1>10, Zenon DEF TcpNext, Running

(* What a thread reads, when a step leaves its connection alone. *)
LEMMA SockKept ==
  ASSUME NEW a, SockStream(a), sock'[a] = sock[a],
         sock[a] # None => s_socks'[sock[a]] = s_socks[sock[a]], got'[a] = got[a],
         sock[a] # None /\ s_socks[sock[a]] # None /\ s_socks[sock[a]] \notin tainted' =>
           /\ s_socks[sock[a]] \notin tainted
           /\ conn'[s_socks[sock[a]]] = conn[s_socks[sock[a]]]
  PROVE  SockStream(a)'
BY Zenon DEF SockStream

LEMMA SynKept ==
  ASSUME NEW a, SynStream(a), pc'[a] = "syn" =>
           /\ pc[a] = "syn" /\ cur'[a] = cur[a]
           /\ cur[a] \notin tainted' => cur[a] \notin tainted /\ conn'[cur[a]] = conn[cur[a]]
  PROVE  SynStream(a)'
BY Zenon DEF SynStream

(* The two for all threads at once, when the connections are left alone. *)
LEMMA ReadStay ==
  ASSUME ReadInv, UNCHANGED <<conn, sock, s_socks, cur, got>>, tainted \subseteq tainted',
         \A a \in App : pc'[a] = "syn" => pc[a] = "syn"
  PROVE  ReadInv'
<1>1. ASSUME NEW a \in App PROVE SockStream(a)'
  BY SockKept, Zenon DEF ReadInv
<1>2. ASSUME NEW a \in App PROVE SynStream(a)'
  BY SynKept, Zenon DEF ReadInv
<1>. QED BY <1>1, <1>2, Zenon DEF ReadInv

(* Whose connection is whose: the socket's of one thread is not the socket's of
   another, nor one that is being made. *)
LEMMA ReadApart ==
  ASSUME workload \in Workloads, HoldInv
  PROVE  /\ \A a \in App : sock[a] # None => sock[a] \in Socks
         /\ \A a, b \in App : sock[a] # None /\ sock[b] # None /\ a # b /\ s_socks[sock[a]] # None
                                => s_socks[sock[a]] # s_socks[sock[b]]
         /\ \A a, b \in App : sock[a] # None /\ pc[b] \in Connecting /\ s_socks[sock[a]] # None
                                => s_socks[sock[a]] # cur[b]
         /\ \A a, b \in App : pc[a] \in Connecting /\ a # b => cur[a] # cur[b]
<1>1. ASSUME NEW a \in App, sock[a] # None PROVE sock[a] \in Socks
  BY <1>1, HoldTypes, Zenon
<1>2. ASSUME NEW a \in App, NEW b \in App, sock[a] # None, sock[b] # None, a # b, s_socks[sock[a]] # None,
             s_socks[sock[a]] = s_socks[sock[b]]
      PROVE  FALSE
  <2>1. sock[a] = sock[b]
    BY <1>1, <1>2, HoldOwned, Zenon
  <2>. QED BY <1>2, <2>1, HoldSocks, Zenon
<1>3. ASSUME NEW a \in App, NEW b \in App, sock[a] # None, pc[b] \in Connecting, s_socks[sock[a]] # None
      PROVE  s_socks[sock[a]] # cur[b]
  BY <1>1, <1>3, HoldSyn, Zenon
<1>4. ASSUME NEW a \in App, NEW b \in App, pc[a] \in Connecting, a # b PROVE cur[a] # cur[b]
  BY <1>4, HoldSyn, HoldOwned, Zenon
<1>. QED BY <1>1, <1>2, <1>3, <1>4, Zenon

LEMMA ReadInput ==
  ASSUME workload \in Workloads, PortInv, HoldInv, PollInv, ReadInv, NEW t \in Poller, InputState(t)
  PROVE  ReadInv'
<1>. DEFINE c == rxc[t]
<1>1. UNCHANGED <<s_socks, sock, cur, pc, got>>
  BY Zenon DEF InputState, appVars
<1>2. tainted \subseteq tainted'
  BY TaintGrows, Zenon
<1>3. ASSUME NEW d \in Conns, d # c PROVE conn'[d] = conn[d]
  <2>0. d \in DOMAIN conn
    BY Zenon DEF PortInv
  <2>1. \/ conn' = conn \/ conn' = [conn EXCEPT ![c].state = "CLOSED"]
        \/ \E k : conn' = [conn EXCEPT ![c] = k]
        \/ conn' = [conn EXCEPT ![c].rcv_nxt = rxseg[t].seq + 1, ![c].state = "ESTABLISHED"]
    BY Zenon DEF InputState, Established
  <2>2. CASE conn' = [conn EXCEPT ![c].rcv_nxt = rxseg[t].seq + 1, ![c].state = "ESTABLISHED"]
    BY <1>3, <2>0, <2>2, Zenon
  <2>3. CASE conn' = [conn EXCEPT ![c].state = "CLOSED"]
    BY <1>3, <2>0, <2>3, Zenon
  <2>4. ASSUME NEW k, conn' = [conn EXCEPT ![c] = k] PROVE conn'[d] = conn[d]
    BY <1>3, <2>0, <2>4, Zenon
  <2>. QED BY <2>1, <2>2, <2>3, <2>4, Zenon
<1>4. ASSUME NEW a \in App PROVE SockStream(a)'
  <2>. DEFINE d == s_socks[sock[a]]
  <2>1. CASE sock[a] # None /\ d # None /\ d \notin tainted'
    <3>1. d \notin tainted
      BY <1>2, <2>1, Zenon
    <3>2. Stream(got[a], conn[d]) /\ conn[d].state # "SYN_SENT"
      BY <2>1, <3>1, Zenon DEF ReadInv, SockStream
    <3>0. d \in Conns
      BY <2>1, ReadApart, HoldOwned, HoldTypes, Zenon
    <3>3. Stream(got[a], conn'[d]) /\ conn'[d].state # "SYN_SENT"
      <4>1. CASE d = c
        BY <2>1, <3>2, <4>1, InputStream, Zenon
      <4>2. CASE d # c
        BY <1>3, <3>0, <3>2, <4>2, Zenon
      <4>. QED BY <4>1, <4>2, Zenon
    <3>. QED BY <1>1, <3>3, Zenon DEF SockStream
  <2>2. CASE ~(sock[a] # None /\ d # None /\ d \notin tainted')
    BY <1>1, <2>2, Zenon DEF SockStream
  <2>. QED BY <2>1, <2>2, Zenon
<1>5. ASSUME NEW a \in App PROVE SynStream(a)'
  <2>. DEFINE d == cur[a]
  <2>1. CASE pc[a] = "syn" /\ d \notin tainted'
    <3>1. d \notin tainted
      BY <1>2, <2>1, Zenon
    <3>2. Stream(<<>>, conn[d]) /\ (conn[d].state = "SYN_SENT" => conn[d].rxbuf = <<>>)
      BY <2>1, <3>1, Zenon DEF ReadInv, SynStream
    <3>0. d \in Conns
      BY <2>1, HoldSyn, HoldTypes, Zenon DEF Connecting
    <3>3. Stream(<<>>, conn'[d]) /\ (conn'[d].state = "SYN_SENT" => conn'[d].rxbuf = <<>>)
      <4>1. CASE d = c
        BY <2>1, <3>2, <4>1, InputStream, Zenon
      <4>2. CASE d # c
        BY <1>3, <3>0, <3>2, <4>2, Zenon
      <4>. QED BY <4>1, <4>2, Zenon
    <3>. QED BY <1>1, <3>3, Zenon DEF SynStream
  <2>2. CASE ~(pc[a] = "syn" /\ d \notin tainted')
    BY <1>1, <2>2, Zenon DEF SynStream
  <2>. QED BY <2>1, <2>2, Zenon
<1>6. DOMAIN got' = App
  BY <1>1, Zenon DEF ReadInv
<1>. QED BY <1>4, <1>5, <1>6, Zenon DEF ReadInv

LEMMA ReadSocket ==
  ASSUME workload \in Workloads, HoldInv, ReadInv, NEW a \in App, Socket(a)
  PROVE  ReadInv'
<1>. DEFINE i == Lowest(FreeSocks)
<1>1. i \in Socks /\ i \notin s_used
  BY SlotNumbers, LowestIn, Zenon DEF FreeSocks, Socket
<1>2. /\ s_socks' = [s_socks EXCEPT ![i] = None] /\ sock' = [sock EXCEPT ![a] = i] /\ Goto(a, "sock")
      /\ conn' = conn /\ cur' = cur /\ got' = got /\ tainted' = tainted
  BY Zenon DEF Socket
<1>. HIDE DEF i
<1>3. s_socks'[i] = None /\ \A j \in Socks : j # i => s_socks'[j] = s_socks[j]
  BY <1>1, <1>2, HoldTypes, Zenon
<1>4. sock'[a] = i /\ \A b \in App : b # a => sock'[b] = sock[b]
  BY <1>2, HoldTypes, Zenon
<1>5. pc'[a] = "sock" /\ \A b \in App : b # a => pc'[b] = pc[b]
  BY <1>2, Goes, Zenon
<1>6. ASSUME NEW b \in App PROVE SockStream(b)'
  <2>1. CASE b = a
    BY <1>3, <1>4, <2>1, Zenon DEF SockStream
  <2>2. CASE b # a
    <3>1. sock[b] # None => sock[b] \in Socks /\ sock[b] # i
      BY <1>1, HoldTypes, Zenon
    <3>2. sock[b] # None => s_socks'[sock[b]] = s_socks[sock[b]]
      BY <1>3, <3>1, Zenon
    <3>. QED BY <1>2, <1>4, <2>2, <3>2, SockKept, Zenon DEF ReadInv
  <2>. QED BY <2>1, <2>2, Zenon
<1>7. ASSUME NEW b \in App PROVE SynStream(b)'
  BY <1>2, <1>5, SynKept, Zenon DEF ReadInv
<1>. QED BY <1>2, <1>6, <1>7, Zenon DEF ReadInv

LEMMA ReadConnect ==
  ASSUME workload \in Workloads, HoldInv, ReadInv, NEW a \in App, Connect(a)
  PROVE  ReadInv'
<1>. DEFINE c == Lowest(FreeConns)
<1>1. c \notin in_use
  BY SlotNumbers, LowestIn, ZenonT(60) DEF FreeConns, Connect
<1>2. /\ cur' = [cur EXCEPT ![a] = c] /\ Goto(a, "alloc") /\ conn' = conn /\ got' = got
      /\ sock' = sock /\ s_socks' = s_socks /\ tainted' = (tainted \ {c}) \cup Disturbed(c)
  BY Zenon DEF Connect
<1>. HIDE DEF c
<1>3. \A d \in in_use : d \notin tainted' => d \notin tainted
  BY <1>1, <1>2, Zenon
<1>4. pc'[a] = "alloc" /\ \A b \in App : b # a => pc'[b] = pc[b] /\ cur'[b] = cur[b]
  BY <1>2, Goes, HoldTypes, Zenon
<1>5. ASSUME NEW b \in App PROVE SockStream(b)'
  <2>1. sock[b] # None /\ s_socks[sock[b]] # None => s_socks[sock[b]] \in in_use
    BY ReadApart, HoldOwned, Zenon
  <2>. QED BY <1>2, <1>3, <2>1, SockKept, Zenon DEF ReadInv
<1>6. ASSUME NEW b \in App PROVE SynStream(b)'
  <2>1. pc[b] = "syn" => cur[b] \in in_use
    BY HoldSyn, Zenon DEF Connecting
  <2>. QED BY <1>2, <1>3, <1>4, <2>1, SynKept, Zenon DEF ReadInv
<1>. QED BY <1>2, <1>5, <1>6, Zenon DEF ReadInv

(* A step of thread a that changes its own connection, if any, and its own socket's
   entry only: the other threads keep their streams. *)
LEMMA ReadOthers ==
  ASSUME workload \in Workloads, HoldInv, ReadInv, NEW a \in App, NEW b \in App, b # a, cur[a] # None,
         sock'[b] = sock[b], pc'[b] = pc[b], cur'[b] = cur[b], got'[b] = got[b], tainted \subseteq tainted',
         \A j \in Socks : j # sock[a] => s_socks'[j] = s_socks[j],
         \A d \in Conns : d # cur[a] => conn'[d] = conn[d]
  PROVE  SockStream(b)' /\ SynStream(b)'
<1>1. SockStream(b)'
  <2>1. ASSUME sock[b] # None PROVE sock[b] \in Socks /\ s_socks'[sock[b]] = s_socks[sock[b]]
    <3>1. sock[b] \in Socks
      BY <2>1, ReadApart, Zenon
    <3>2. sock[b] # sock[a]
      BY <2>1, HoldSocks, Zenon
    <3>. QED BY <3>1, <3>2, Zenon
  <2>2. ASSUME sock[b] # None, s_socks[sock[b]] # None PROVE conn'[s_socks[sock[b]]] = conn[s_socks[sock[b]]]
    <3>1. s_socks[sock[b]] # cur[a]
      BY <2>1, <2>2, HoldSocks, Zenon
    <3>2. s_socks[sock[b]] \in Conns
      BY <2>1, <2>2, HoldOwned, HoldTypes, Zenon
    <3>. QED BY <3>1, <3>2, Zenon
  <2>3. SockStream(b)
    BY Zenon DEF ReadInv
  <2>. QED BY <2>1, <2>2, <2>3, SockKept, Zenon
<1>2. SynStream(b)'
  <2>1. ASSUME pc[b] = "syn" PROVE conn'[cur[b]] = conn[cur[b]]
    <3>1. cur[b] # None /\ cur[b] \in in_use
      BY <2>1, HoldSyn, Zenon DEF Connecting
    <3>2. cur[b] # cur[a]
      BY <3>1, HoldOwned, Zenon
    <3>3. cur[b] \in Conns
      BY <3>1, HoldTypes, Zenon
    <3>. QED BY <3>2, <3>3, Zenon
  <2>2. SynStream(b)
    BY Zenon DEF ReadInv
  <2>. QED BY <2>1, <2>2, SynKept, Zenon
<1>. QED BY <1>1, <1>2, Zenon

(* The stream of a thread whose second connect has not succeeded yet. *)
LEMMA ReadOld ==
  ASSUME workload \in Workloads, HoldInv, ReadInv, NEW a \in App, pc[a] \in Connecting,
         UNCHANGED <<sock, s_socks>>, got'[a] = got[a], tainted \subseteq tainted',
         \A d \in Conns : d # cur[a] => conn'[d] = conn[d]
  PROVE  SockStream(a)'
<1>1. /\ sock[a] \in Socks /\ s_socks[sock[a]] # cur[a]
  BY HoldSyn, Zenon
<1>2. s_socks[sock[a]] # None => s_socks[sock[a]] \in Conns
  BY <1>1, HoldTypes, Zenon
<1>3. s_socks[sock[a]] # None => conn'[s_socks[sock[a]]] = conn[s_socks[sock[a]]]
  BY <1>1, <1>2, Zenon
<1>4. SockStream(a)
  BY Zenon DEF ReadInv
<1>. QED BY <1>3, <1>4, SockKept, Zenon

LEMMA ReadConnectInit ==
  ASSUME workload \in Workloads, PortInv, HoldInv, ReadInv, NEW a \in App, ConnectInit(a)
  PROVE  ReadInv'
<1>. DEFINE k == [Closed EXCEPT !.state = "SYN_SENT", !.src_port = s_next_port]
            c == cur[a]
<1>1. /\ pc[a] = "alloc" /\ conn' = [conn EXCEPT ![c] = k] /\ tainted' = tainted \cup Disturbed(c)
      /\ Goto(a, "syn") /\ sock' = sock /\ s_socks' = s_socks /\ cur' = cur /\ got' = got
  BY Zenon DEF ConnectInit
<1>2. k.state = "SYN_SENT" /\ k.rxbuf = <<>>
  BY SMTT(40) DEF Closed
<1>. HIDE DEF k
<1>3. pc[a] \in Connecting
  BY <1>1, Zenon DEF Connecting
<1>4. c # None /\ c \in Conns
  BY <1>3, HoldSyn, HoldTypes, Zenon
<1>5. conn'[c] = k /\ \A d \in Conns : d # c => conn'[d] = conn[d]
  BY <1>1, <1>4, Zenon DEF PortInv
<1>6. pc'[a] = "syn" /\ \A b \in App : b # a => pc'[b] = pc[b]
  BY <1>1, Goes, Zenon
<1>7. tainted \subseteq tainted'
  BY <1>1, Zenon
<1>8. SockStream(a)'
  BY <1>1, <1>3, <1>5, <1>7, ReadOld, Zenon
<1>9. SynStream(a)'
  <2>1. Stream(<<>>, k)
    <3>1. k.state # "ESTABLISHED"
      BY <1>2, Zenon
    <3>. QED BY <1>2, <3>1, StreamNew, Zenon
  <2>2. Stream(<<>>, conn'[cur'[a]]) /\ conn'[cur'[a]].rxbuf = <<>>
    BY <1>1, <1>2, <1>5, <2>1, Zenon
  <2>. QED BY <2>2, Zenon DEF SynStream
<1>10. ASSUME NEW b \in App, b # a PROVE SockStream(b)' /\ SynStream(b)'
  BY <1>1, <1>4, <1>5, <1>6, <1>7, <1>10, ReadOthers, Zenon
<1>11. DOMAIN got' = App
  BY <1>1, Zenon DEF ReadInv
<1>. QED BY ONLY <1>8, <1>9, <1>10, <1>11, Zenon DEF ReadInv

(* The new connection replaces the socket's old one; nothing has been read from it. *)
LEMMA ReadOpened ==
  ASSUME workload \in Workloads, HoldInv, ReadInv, NEW a \in App, pc[a] = "syn", Goto(a, "open"),
         conn[cur[a]].state = "ESTABLISHED", s_socks' = [s_socks EXCEPT ![sock[a]] = cur[a]],
         got' = [got EXCEPT ![a] = <<>>], UNCHANGED <<conn, sock, cur, tainted>>
  PROVE  ReadInv'
<1>1. pc[a] \in Connecting
  BY Zenon DEF Connecting
<1>2. cur[a] # None /\ sock[a] \in Socks
  BY <1>1, HoldSyn, Zenon
<1>3. s_socks'[sock[a]] = cur[a] /\ \A j \in Socks : j # sock[a] => s_socks'[j] = s_socks[j]
  BY <1>2, HoldTypes, Zenon
<1>4. DOMAIN got' = App /\ got'[a] = <<>> /\ \A b \in App : b # a => got'[b] = got[b]
  BY Zenon DEF ReadInv
<1>5. pc'[a] = "open" /\ \A b \in App : b # a => pc'[b] = pc[b]
  BY Goes, Zenon
<1>6. cur[a] \notin tainted => Stream(<<>>, conn[cur[a]])
  BY Zenon DEF ReadInv, SynStream
<1>7. SockStream(a)'
  <2>1. conn[cur[a]].state # "SYN_SENT"
    BY Zenon
  <2>2. /\ s_socks'[sock'[a]] = cur[a] /\ got'[a] = <<>> /\ tainted' = tainted
        /\ conn' = conn
    BY <1>3, <1>4, Zenon
  <2>3. cur[a] \notin tainted' => Stream(got'[a], conn'[cur[a]]) /\ conn'[cur[a]].state # "SYN_SENT"
    BY ONLY <1>6, <2>1, <2>2, Zenon
  <2>. QED BY ONLY <2>2, <2>3, Zenon DEF SockStream
<1>8. SynStream(a)'
  BY <1>5, Zenon DEF SynStream
<1>9. ASSUME NEW b \in App, b # a PROVE SockStream(b)' /\ SynStream(b)'
  BY <1>2, <1>3, <1>4, <1>5, <1>9, ReadOthers, Zenon
<1>. QED BY ONLY <1>4, <1>7, <1>8, <1>9, Zenon DEF ReadInv

LEMMA ReadFailed ==
  ASSUME workload \in Workloads, PortInv, HoldInv, ReadInv, NEW a \in App, pc[a] = "syn",
         NEW l \in {"sock", "open"}, Goto(a, l), NEW s, conn' = Freed(cur[a], s),
         NEW o, cur' = [cur EXCEPT ![a] = o], UNCHANGED <<s_socks, sock, got, tainted>>
  PROVE  ReadInv'
<1>. DEFINE k == [Closed EXCEPT !.state = s, !.src_port = conn[cur[a]].src_port]
<1>1. pc[a] \in Connecting
  BY Zenon DEF Connecting
<1>2. cur[a] # None
  BY <1>1, HoldSyn, Zenon
<1>3. conn' = [conn EXCEPT ![cur[a]] = k]
  BY Zenon DEF Freed
<1>. HIDE DEF k
<1>4. \A d \in Conns : d # cur[a] => conn'[d] = conn[d]
  BY <1>3, Zenon DEF PortInv
<1>5. pc'[a] = l /\ \A b \in App : b # a => pc'[b] = pc[b]
  BY Goes, Zenon
<1>6. \A b \in App : b # a => cur'[b] = cur[b]
  BY HoldTypes, Zenon
<1>7. SockStream(a)'
  BY <1>1, <1>4, ReadOld, Zenon
<1>8. SynStream(a)'
  <2>1. pc'[a] # "syn"
    BY <1>5, Zenon
  <2>. QED BY <2>1, Zenon DEF SynStream
<1>9. ASSUME NEW b \in App, b # a PROVE SockStream(b)' /\ SynStream(b)'
  BY <1>2, <1>4, <1>5, <1>6, <1>9, ReadOthers, Zenon
<1>10. DOMAIN got' = App
  BY Zenon DEF ReadInv
<1>. QED BY ONLY <1>7, <1>8, <1>9, <1>10, Zenon DEF ReadInv

(* tcp_recv with something in the ring. *)
LEMMA ReadTaken ==
  ASSUME workload \in Workloads, PortInv, HoldInv, ReadInv, NEW a \in App, pc[a] = "recv", Goto(a, "open"),
         NEW n \in 1..RxCap, n <= Len(conn[cur[a]].rxbuf),
         got' = [got EXCEPT ![a] = @ \o SubSeq(conn[cur[a]].rxbuf, 1, n)],
         conn' = [conn EXCEPT ![cur[a]].rxbuf = SubSeq(conn[cur[a]].rxbuf, n + 1, Len(conn[cur[a]].rxbuf))],
         UNCHANGED <<s_socks, sock, cur, tainted>>
  PROVE  ReadInv'
<1>. DEFINE c == cur[a]
            r == conn[c]
            q == r.rxbuf
            s == conn'[c]
<1>1. c # None /\ sock[a] # None /\ s_socks[sock[a]] = c
  BY HoldAt, Zenon DEF Holds, Connected, Unsocketed, Unconnected
<1>2. c \in Conns /\ c \in DOMAIN conn /\ DOMAIN r = {"state", "src_port", "rcv_nxt", "rxbuf"}
  BY <1>1, HoldTypes, Zenon DEF PortInv
<1>3. \A d \in Conns : d # c => conn'[d] = conn[d]
  BY Zenon DEF PortInv
<1>4. s = [r EXCEPT !.rxbuf = SubSeq(q, n + 1, Len(q))]
  BY <1>2, Zenon
<1>5. /\ DOMAIN got' = App /\ got'[a] = got[a] \o SubSeq(q, 1, n)
      /\ \A b \in App : b # a => got'[b] = got[b]
  BY Zenon DEF ReadInv
<1>6. pc'[a] = "open" /\ \A b \in App : b # a => pc'[b] = pc[b]
  BY Goes, Zenon
<1>7. /\ s.rxbuf = SubSeq(q, n + 1, Len(q)) /\ s.src_port = r.src_port
      /\ s.state = r.state /\ s.rcv_nxt = r.rcv_nxt
  <2>. HIDE DEF s, r, q
  <2>. QED BY <1>2, <1>4, SMTT(40)
<1>8. ASSUME c \notin tainted PROVE Stream(got'[a], s) /\ s.state # "SYN_SENT"
  <2>1. Stream(got[a], r) /\ r.state # "SYN_SENT"
    BY <1>1, <1>8, Zenon DEF ReadInv, SockStream
  <2>2. n \in 1..Len(q)
    <3>1. Len(q) \in Nat
      BY <2>1, Zenon DEF Stream
    <3>2. n \in Int /\ 1 <= n
      <4>1. RxCap \in Int
        BY TcpConstants, SMTT(40) DEF RxCap
      <4>. QED BY <4>1, SMTT(40)
    <3>. HIDE DEF q
    <3>. QED BY <3>1, <3>2, SMTT(40) DEF q
  <2>3. Stream(got[a] \o SubSeq(q, 1, n), s)
    BY <1>7, <2>1, <2>2, StreamRead, Zenon
  <2>. QED BY <1>5, <1>7, <2>1, <2>3, Zenon
<1>9. SockStream(a)'
  BY <1>1, <1>8, Zenon DEF SockStream
<1>10. SynStream(a)'
  BY <1>6, Zenon DEF SynStream
<1>11. ASSUME NEW b \in App, b # a PROVE SockStream(b)' /\ SynStream(b)'
  BY <1>1, <1>3, <1>5, <1>6, <1>11, ReadOthers, Zenon
<1>. QED BY ONLY <1>5, <1>9, <1>10, <1>11, Zenon DEF ReadInv

LEMMA ReadRecv ==
  ASSUME workload \in Workloads, PortInv, HoldInv, ReadInv, NEW a \in App, NEW n \in 1..RxCap, Recv(a, n)
  PROVE  ReadInv'
<1>1. CASE conn[cur[a]].state = "ESTABLISHED" /\ conn[cur[a]].rxbuf # <<>>
  BY <1>1, ReadTaken, Zenon DEF Recv
<1>2. CASE ~(conn[cur[a]].state = "ESTABLISHED" /\ conn[cur[a]].rxbuf # <<>>)
  <2>1. /\ Goto(a, "test") /\ UNCHANGED <<conn, sock, s_socks, cur, got, tainted>>
    BY <1>2, Zenon DEF Recv
  <2>2. pc'[a] = "test" /\ \A b \in App : b # a => pc'[b] = pc[b]
    BY <2>1, Goes, Zenon
  <2>3. \A b \in App : pc'[b] = "syn" => pc[b] = "syn"
    BY <2>2, Zenon
  <2>. QED BY <2>1, <2>3, ReadStay, Zenon
<1>. QED BY <1>1, <1>2, Zenon

LEMMA ReadClose ==
  ASSUME workload \in Workloads, HoldInv, ReadInv, NEW a \in App, Close(a)
  PROVE  ReadInv'
<1>1. /\ s_socks' = [s_socks EXCEPT ![sock[a]] = None] /\ sock' = [sock EXCEPT ![a] = None]
      /\ UNCHANGED <<conn, cur, got, tainted>>
  BY Zenon DEF Close
<1>2. sock'[a] = None /\ \A b \in App : b # a => sock'[b] = sock[b]
  BY <1>1, HoldTypes, Zenon
<1>3. \A j \in Socks : j # sock[a] => s_socks'[j] = s_socks[j]
  BY <1>1, HoldTypes, Zenon
<1>4. PICK l \in {"user", "close"} : Goto(a, l)
  BY Zenon DEF Close
<1>5. \A b \in App : pc'[b] = "syn" => pc[b] = "syn"
  <2>1. pc'[a] = l /\ \A b \in App : b # a => pc'[b] = pc[b]
    BY <1>4, Goes, Zenon
  <2>2. l # "syn"
    BY <1>4, Zenon
  <2>. QED BY <2>1, <2>2, Zenon
<1>6. ASSUME NEW b \in App PROVE SockStream(b)'
  <2>1. CASE b = a
    BY <1>2, <2>1, Zenon DEF SockStream
  <2>2. CASE b # a
    <3>1. ASSUME sock[b] # None PROVE s_socks'[sock[b]] = s_socks[sock[b]]
      <4>1. sock[b] \in Socks
        BY <3>1, ReadApart, Zenon
      <4>2. sock[b] # sock[a]
        BY <2>2, <3>1, HoldSocks, Zenon
      <4>. QED BY <1>3, <4>1, <4>2, Zenon
    <3>2. SockStream(b)
      BY Zenon DEF ReadInv
    <3>. QED BY <1>1, <1>2, <2>2, <3>1, <3>2, SockKept, Zenon
  <2>. QED BY <2>1, <2>2, Zenon
<1>7. ASSUME NEW b \in App PROVE SynStream(b)'
  <2>1. SynStream(b)
    BY Zenon DEF ReadInv
  <2>. QED BY <1>1, <1>5, <2>1, SynKept, Zenon
<1>8. DOMAIN got' = App
  BY <1>1, Zenon DEF ReadInv
<1>. QED BY ONLY <1>6, <1>7, <1>8, Zenon DEF ReadInv

LEMMA ReadTcpClose ==
  ASSUME workload \in Workloads, PortInv, HoldInv, ReadInv, NEW a \in App, TcpClose(a)
  PROVE  ReadInv'
<1>. DEFINE k == [Closed EXCEPT !.state = "CLOSED", !.src_port = conn[cur[a]].src_port]
<1>1. /\ pc[a] = "close" /\ conn' = [conn EXCEPT ![cur[a]] = k] /\ cur' = [cur EXCEPT ![a] = None]
      /\ got' = [got EXCEPT ![a] = <<>>] /\ Goto(a, "user") /\ UNCHANGED <<s_socks, sock, tainted>>
  BY Zenon DEF TcpClose, Freed
<1>. HIDE DEF k
<1>2. cur[a] # None /\ sock[a] = None
  BY <1>1, HoldAt, Zenon DEF Holds, Unsocketed, Unconnected
<1>3. \A d \in Conns : d # cur[a] => conn'[d] = conn[d]
  BY <1>1, Zenon DEF PortInv
<1>4. DOMAIN got' = App /\ \A b \in App : b # a => got'[b] = got[b] /\ cur'[b] = cur[b]
  BY <1>1, HoldTypes, Zenon DEF ReadInv
<1>5. pc'[a] = "user" /\ \A b \in App : b # a => pc'[b] = pc[b]
  BY <1>1, Goes, Zenon
<1>6. SockStream(a)'
  BY <1>1, <1>2, Zenon DEF SockStream
<1>7. SynStream(a)'
  BY <1>5, Zenon DEF SynStream
<1>8. ASSUME NEW b \in App, b # a PROVE SockStream(b)' /\ SynStream(b)'
  BY <1>1, <1>2, <1>3, <1>4, <1>5, <1>8, ReadOthers, Zenon
<1>. QED BY ONLY <1>4, <1>6, <1>7, <1>8, Zenon DEF ReadInv

LEMMA ReadStep ==
  ASSUME workload \in Workloads, PortInv, HoldInv, PollInv, ReadInv, [TcpNext]_tcpVars
  PROVE  ReadInv'
<1>. USE DEF kernelVars, appVars
<1>1. ASSUME NEW p \in Ports, Peer(p) \/ \E seg \in Segments(p) : NetPoll(seg) PROVE ReadInv'
  <2>1. UNCHANGED <<conn, sock, s_socks, cur, got>> /\ pc' = pc /\ tainted \subseteq tainted'
    BY <1>1, Zenon DEF Peer, NetPoll, Receive
  <2>. QED BY <2>1, ReadStay, Zenon
<1>2. ASSUME NEW t \in Poller, Input(t) PROVE ReadInv'
  <2>1. CASE InputMatch(t)
    <3>1. UNCHANGED <<conn, sock, s_socks, cur, got>> /\ pc' = pc
      BY <2>1, Zenon DEF InputMatch
    <3>. QED BY <2>1, <3>1, TaintGrows, ReadStay, Zenon
  <2>2. CASE InputState(t)
    BY <2>2, ReadInput, Zenon
  <2>. QED BY <1>2, <2>1, <2>2, Zenon DEF Input
<1>3. ASSUME NEW a \in App, ConnectInit(a) PROVE ReadInv'
  BY <1>3, ReadConnectInit, Zenon
<1>4. ASSUME NEW a \in App, Poll(a) PROVE ReadInv'
  <2>1. UNCHANGED <<conn, sock, s_socks, cur, got>> /\ pc' = pc /\ tainted \subseteq tainted'
    BY <1>4, Zenon DEF Poll, Receive
  <2>. QED BY <2>1, ReadStay, Zenon
<1>5. ASSUME NEW a \in App, ConnectDone(a) PROVE ReadInv'
  <2>1. CASE conn[cur[a]].state = "ESTABLISHED"
    BY <1>5, <2>1, ReadOpened, Zenon DEF ConnectDone
  <2>2. CASE conn[cur[a]].state # "ESTABLISHED"
    <3>1. PICK l \in {"sock", "open"} : Goto(a, l)
      BY <1>5, <2>2, Zenon DEF ConnectDone
    <3>. QED BY <1>5, <2>2, <3>1, ReadFailed, Zenon DEF ConnectDone
  <2>. QED BY <2>1, <2>2, Zenon
<1>6. ASSUME NEW a \in App, NEW n \in 1..RxCap, Recv(a, n) PROVE ReadInv'
  BY <1>6, ReadRecv, Zenon
<1>7. ASSUME NEW a \in App, RecvTest(a) \/ RecvCall(a) \/ Send(a) PROVE ReadInv'
  <2>1. UNCHANGED <<conn, sock, s_socks, cur, got, tainted>>
    BY <1>7, Zenon DEF RecvTest, RecvCall, Send
  <2>2. pc' = pc \/ \E l \in {"ended", "recv"} : Goto(a, l)
    BY <1>7, Zenon DEF RecvTest, RecvCall, Send
  <2>3. \A b \in App : pc'[b] = "syn" => pc[b] = "syn"
    <3>1. ASSUME NEW l \in {"ended", "recv"}, Goto(a, l) PROVE \A b \in App : pc'[b] = "syn" => pc[b] = "syn"
      <4>1. pc'[a] = l /\ \A b \in App : b # a => pc'[b] = pc[b]
        BY <3>1, Goes, Zenon
      <4>2. l # "syn"
        BY Zenon
      <4>. QED BY <4>1, <4>2, Zenon
    <3>. QED BY <2>2, <3>1, Zenon
  <2>. QED BY <2>1, <2>3, ReadStay, Zenon
<1>8. ASSUME NEW a \in App, TcpClose(a) PROVE ReadInv'
  BY <1>8, ReadTcpClose, Zenon
<1>9. ASSUME NEW a \in App, Socket(a) PROVE ReadInv'
  BY <1>9, ReadSocket, Zenon
<1>10. ASSUME NEW a \in App, Connect(a) PROVE ReadInv'
  BY <1>10, ReadConnect, Zenon
<1>11. ASSUME NEW a \in App, Close(a) PROVE ReadInv'
  BY <1>11, ReadClose, Zenon
<1>12. CASE UNCHANGED tcpVars
  BY <1>12, ReadStay, Zenon DEF tcpVars
<1>. QED BY <1>1, <1>2, <1>3, <1>4, <1>5, <1>6, <1>7, <1>8, <1>9, <1>10, <1>11, <1>12, Zenon
     DEF TcpNext, Running

LEMMA StreamInit ==
  ASSUME TcpInit
  PROVE  PollInv /\ ReadInv
<1>1. PollInv
  <2>1. \A t \in Poller : rx[t] = "idle"
    BY Zenon DEF TcpInit
  <2>2. "idle" # "match"
    OBVIOUS
  <2>. QED BY <2>1, <2>2, Zenon DEF TcpInit, PollInv
<1>2. ASSUME NEW a \in App PROVE SockStream(a) /\ SynStream(a)
  <2>1. sock[a] = None /\ pc[a] # "syn"
    BY Zenon DEF TcpInit
  <2>. QED BY <2>1, Zenon DEF SockStream, SynStream
<1>. QED BY <1>1, <1>2, Zenon DEF TcpInit, ReadInv

(* Every step keeps, of each connection whose input was not disturbed, the bytes read
   and the bytes in the ring equal to the peer's stream up to rcv_nxt. *)
THEOREM StreamInvariant == TcpSpec => []StreamInv
<1>1. ASSUME OwnInv, PollInv, ReadInv, [TcpNext]_tcpVars PROVE PollInv' /\ ReadInv'
  <2>1. workload \in Workloads /\ PortInv /\ HoldInv
    BY <1>1, Zenon DEF OwnInv
  <2>2. PollInv'
    BY <1>1, <2>1, HoldTypes, PollStep, Zenon
  <2>3. ReadInv'
    BY <1>1, <2>1, ReadStep, Zenon
  <2>. QED BY <2>2, <2>3, Zenon
<1>2. TcpInit => PollInv /\ ReadInv
  BY StreamInit, Zenon
<1>3. OwnInv /\ PollInv /\ ReadInv <=> StreamInv
  BY Zenon DEF StreamInv
<1>. QED BY <1>1, <1>2, <1>3, OwnInvariant, PTL DEF TcpSpec

(* StreamPrefix: what the program has read with recv is the beginning of what the peer
   sent, whatever the network loses, repeats and reorders, on a connection whose input
   nothing disturbed. *)
THEOREM StreamPrefixHolds == TcpSpec => []StreamPrefix
<1>1. ASSUME StreamInv PROVE StreamPrefix
  <2>. SUFFICES ASSUME NEW a \in App, pc[a] \in Connected, cur[a] # None, cur[a] \notin tainted
                PROVE  got[a] = [i \in 1..Len(got[a]) |-> Byte(conn[cur[a]].src_port, i)]
    BY Zenon DEF StreamPrefix, Connected
  <2>1. HoldInv /\ ReadInv
    BY <1>1, Zenon DEF StreamInv, OwnInv
  <2>2. Holds(a)
    BY <2>1, HoldAt, Zenon
  <2>3. sock[a] # None /\ s_socks[sock[a]] = cur[a]
    BY <2>2, Zenon DEF Holds, Connected, Unsocketed
  <2>4. Stream(got[a], conn[cur[a]])
    BY <2>1, <2>3, Zenon DEF ReadInv, SockStream
  <2>. DEFINE p == conn[cur[a]].src_port
              g == got[a]
  <2>5. Len(g) \in Nat /\ g = Octets(p, 0, Len(g))
    BY <2>4, Zenon DEF Stream
  <2>. HIDE DEF p, g
  <2>6. Octets(p, 0, Len(g)) = [i \in 1..Len(g) |-> Byte(p, i)]
    <3>1. \A i \in 1..Len(g) : 0 + i = i
      BY <2>5, SMTT(40)
    <3>. QED BY <3>1, Zenon DEF Octets
  <2>. QED BY <2>5, <2>6, Zenon DEF p, g
<1>. QED BY <1>1, StreamInvariant, PTL

=============================================================================

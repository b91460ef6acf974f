-------------------------------- MODULE Udp --------------------------------
(* Address configuration and name resolution: DHCP (net/dhcp.c) at boot and DNS
   (net/dns.c) afterwards, over the UDP bind table (net/udp.c), the ARP cache
   (net/arp.c) and the routing of net/ipv4.c.  Servers and network are external:
   datagrams are lost, reordered, duplicated and late.  A frame is handled in one
   step by whoever polls the NIC: net_thread_fn, poll_until or dns_resolve. *)
EXTENDS Naturals, FiniteSets

CONSTANTS
  Server,     \* DHCP servers on the link
  Lease,      \* what each of them hands out: [ip, subnet, gateway, dns]
  Local,      \* the hosts on our subnet
  Caller,     \* processes that call dns_resolve
  Name,       \* host names
  MaxBinds,   \* MAX_BINDS
  ArpSize,    \* ARP_TABLE_SIZE
  MaxCalls    \* bound on the number of calls, for TLC

Offered == [ip : Nat, subnet : Nat, gateway : Nat, dns : Nat]

ASSUME UdpConstants == Lease \in [Server -> Offered] /\ Server \subseteq Nat /\ MaxBinds \in Nat

VARIABLES
  wire,        \* datagrams on their way to us
  leased,      \* the servers that have acknowledged our request
  boot,        \* where dhcp_discover is
  s_binds,     \* the callback of each bind
  dhcp,        \* s_offered_ip, s_server_ip, s_subnet, s_gateway, s_dns, s_got_offer, s_got_ack
  requested,   \* the server the REQUEST names
  cfg,         \* the configuration in ipv4.c
  arp,         \* s_table: the address in every entry, 0 when it is not valid
  s_got_reply, s_resolved,  \* s_resolved: the name whose address s_resolved_ip is
  dpc, asked, attempt,      \* a caller's position, its argument, its loop counter
  result,      \* what dns_resolve returned: a name's address, or 0 for failure
  calls,       \* calls made
  clouded      \* callers whose call met another or a late reply, see ResolvesAsked

udpVars == <<wire, leased, boot, s_binds, dhcp, requested, cfg, arp, s_got_reply, s_resolved,
             dpc, asked, attempt, result, calls, clouded>>
dnsVars == <<s_got_reply, s_resolved, dpc, asked, attempt, result, calls, clouded>>
dhcpVars == <<leased, boot, dhcp, requested, cfg>>

Bind == 0..MaxBinds - 1
Entry == 0..ArpSize - 1
NoConfig == [ip |-> 0, subnet |-> 0, gateway |-> 0, dns |-> 0]

NoDhcp == [ip |-> 0, server |-> 0, subnet |-> 0, gateway |-> 0, dns |-> 0,
           got_offer |-> FALSE, got_ack |-> FALSE]

UdpInit ==
  /\ wire = {} /\ leased = {}
  /\ boot = "start"
  /\ s_binds = [i \in Bind |-> "none"]
  /\ dhcp = NoDhcp
  /\ requested = 0
  /\ cfg = NoConfig
  /\ arp = [i \in Entry |-> 0]
  /\ s_got_reply = FALSE /\ s_resolved = 0
  /\ dpc = [x \in Caller |-> "user"] /\ asked = [x \in Caller |-> 0]
  /\ attempt = [x \in Caller |-> 0] /\ result = [x \in Caller |-> 0]
  /\ calls = 0 /\ clouded = {}

First(S) == CHOOSE i \in S : \A j \in S : i <= j

(* udp_bind: the first free entry; when there is none the call has no effect. *)
Bound(binds, fn) ==
  LET free == {i \in Bind : binds[i] = "none"} IN
  IF free = {} THEN binds ELSE [binds EXCEPT ![First(free)] = fn]

(* udp_unbind: every entry of the port. *)
Unbound(binds, fns) == [i \in Bind |-> IF binds[i] \in fns THEN "none" ELSE binds[i]]
Listening(fn) == \E i \in Bind : s_binds[i] = fn

(* arp_insert: the entry of the address, else a free one, else entry 0. *)
Cached(ip) ==
  LET same == {i \in Entry : arp[i] = ip}
      free == {i \in Entry : arp[i] = 0}
      e == IF same # {} THEN First(same) ELSE IF free # {} THEN First(free) ELSE 0
  IN  [arp EXCEPT ![e] = ip]

-----------------------------------------------------------------------------
(* Input: eth_recv, ipv4_recv, arp_recv, udp_recv and the three callbacks *)

AckTypes_Any == {"OFFER", "ACK"}
AckTypes == {"ACK"}

(* parse_options.  A field that is not in the message counts as 0; the server
   identifier is stored whatever the type of the message. *)
Parsed(m) ==
  LET l == Lease[m.from]
      opt(v, old) == IF m.full THEN v ELSE old
      seen == [dhcp EXCEPT !.server = m.from]
  IN  IF m.type = "OFFER" /\ Listening("dhcp_recv_offer")
        THEN [ip |-> l.ip, server |-> m.from, subnet |-> opt(l.subnet, 0), gateway |-> opt(l.gateway, 0),
              dns |-> opt(l.dns, 0), got_offer |-> TRUE, got_ack |-> dhcp.got_ack]
      ELSE IF m.type \in AckTypes /\ Listening("dhcp_recv_ack")
        THEN [ip |-> l.ip, server |-> m.from, subnet |-> opt(l.subnet, dhcp.subnet),
              gateway |-> opt(l.gateway, dhcp.gateway), dns |-> opt(l.dns, dhcp.dns),
              got_offer |-> dhcp.got_offer, got_ack |-> TRUE]
      ELSE IF Listening("dhcp_recv_offer") \/ Listening("dhcp_recv_ack") THEN seen ELSE dhcp

(* Somebody polls: during dhcp_discover only its own poll_until, until it has what
   it waits for. *)
Polling ==
  \/ boot = "offer" /\ ~dhcp.got_offer
  \/ boot = "ack" /\ ~dhcp.got_ack
  \/ boot = "done"

(* ipv4_recv has cached the sender's address; udp_recv gives the datagram to every
   bind of its port. *)
DhcpInput(m) ==
  /\ m.type \in {"OFFER", "ACK"}
  /\ dhcp' = Parsed(m)
  /\ UNCHANGED <<s_got_reply, s_resolved>>

DnsInput(m) ==
  /\ m.type = "REPLY"
  /\ IF Listening("dns_recv_cb") THEN s_got_reply' = TRUE /\ s_resolved' = m.name
     ELSE UNCHANGED <<s_got_reply, s_resolved>>
  /\ UNCHANGED dhcp

ArpInput(m) == m.type = "ARP" /\ UNCHANGED <<dhcp, s_got_reply, s_resolved>>

(* One frame arrives; the network may keep a copy of it. *)
Frame(m) ==
  /\ Polling
  /\ m \in wire
  /\ wire' \in {wire, wire \ {m}}
  /\ arp' = Cached(m.from)
  /\ DhcpInput(m) \/ DnsInput(m) \/ ArpInput(m)
  /\ UNCHANGED <<leased, boot, s_binds, requested, cfg, dpc, asked, attempt, result, calls, clouded>>

-----------------------------------------------------------------------------
(* dhcp_discover *)

Discover ==
  /\ boot = "start"
  /\ boot' = "offer"
  /\ s_binds' = Bound(s_binds, "dhcp_recv_offer")
  /\ cfg' = NoConfig
  /\ UNCHANGED <<wire, leased, dhcp, requested, arp, dnsVars>>

Request ==
  /\ boot = "offer" /\ dhcp.got_offer
  /\ boot' = "ack"
  /\ s_binds' = Bound(Unbound(s_binds, {"dhcp_recv_offer"}), "dhcp_recv_ack")
  /\ requested' = dhcp.server
  /\ cfg' = NoConfig
  /\ UNCHANGED <<wire, leased, dhcp, arp, dnsVars>>

(* dhcp_discover returns.  Its variables are not read again, and with nothing bound
   to the port a DHCP datagram only teaches its sender's address, as ARP does. *)
DhcpOver ==
  /\ boot' = "done"
  /\ s_binds' = Unbound(s_binds, {"dhcp_recv_offer", "dhcp_recv_ack"})
  /\ dhcp' = NoDhcp
  /\ wire' = {[type |-> "ARP", from |-> m.from] : m \in wire}
  /\ UNCHANGED <<leased, requested, arp, dnsVars>>

Configure ==
  /\ boot = "ack" /\ dhcp.got_ack
  /\ DhcpOver
  /\ cfg' = [ip |-> dhcp.ip, subnet |-> dhcp.subnet, gateway |-> dhcp.gateway, dns |-> dhcp.dns]

(* poll_until runs out of iterations: no address. *)
GiveUp ==
  /\ Polling /\ boot # "done"
  /\ DhcpOver
  /\ UNCHANGED cfg

(* A server answers the DISCOVER, or acknowledges the REQUEST that names it; it may
   leave out the options. *)
Serve(s) ==
  /\ \E full \in BOOLEAN :
       \/ /\ boot \in {"offer", "ack"}
          /\ wire' = wire \cup {[type |-> "OFFER", from |-> s, full |-> full]}
          /\ UNCHANGED leased
       \/ /\ boot = "ack" /\ requested = s
          /\ wire' = wire \cup {[type |-> "ACK", from |-> s, full |-> full]}
          /\ leased' = leased \cup {s}
  /\ UNCHANGED <<boot, s_binds, dhcp, requested, cfg, arp, dnsVars>>

-----------------------------------------------------------------------------
(* dns_resolve *)

Active(x) == dpc[x] = "resolve"

Reset_Not(got) == got
Reset(got) == FALSE

(* The globals are reset, and the callback is bound to the one port all calls use.
   Every query carries the same id. *)
Resolve(x, n) ==
  /\ boot = "done" /\ cfg.dns # 0 /\ ~Active(x) /\ calls < MaxCalls
  /\ calls' = calls + 1
  /\ dpc' = [dpc EXCEPT ![x] = "resolve"]
  /\ asked' = [asked EXCEPT ![x] = n]
  /\ attempt' = [attempt EXCEPT ![x] = 0]
  /\ result' = [result EXCEPT ![x] = 0]
  /\ s_got_reply' = Reset(s_got_reply)
  /\ s_binds' = Bound(s_binds, "dns_recv_cb")
  /\ LET others == {y \in Caller : Active(y)}
         late == \E m \in wire : m.type = "REPLY" /\ m.name # n
     IN  clouded' = (clouded \ {x}) \cup others \cup (IF others # {} \/ late THEN {x} ELSE {})
  /\ UNCHANGED <<wire, dhcpVars, arp, s_resolved>>

(* ipv4_send: the gateway, unless the destination is on our subnet. *)
NextHop(ip) == IF cfg.gateway # 0 /\ cfg.subnet # 0 /\ ip \notin Local THEN cfg.gateway ELSE ip

(* arp_lookup: on a miss the packet is dropped and the address is asked for. *)
Known(ip) == \E i \in Entry : arp[i] = ip

(* ipv4_send, and what comes back in the end: the reply to the query, or the answer
   to the ARP request that went out in its place. *)
Evoked(x) ==
  LET hop == NextHop(cfg.dns)
  IN  IF Known(hop) THEN [type |-> "REPLY", from |-> cfg.dns, name |-> asked[x]]
      ELSE [type |-> "ARP", from |-> hop]

(* One attempt; either way it may be lost.  The wait for the reply ends when the next
   step is taken. *)
Attempt(x) ==
  /\ Active(x) /\ ~s_got_reply /\ attempt[x] < 3
  /\ attempt' = [attempt EXCEPT ![x] = @ + 1]
  /\ wire' \in {wire, wire \cup {Evoked(x)}}
  /\ UNCHANGED <<dhcpVars, s_binds, arp, s_got_reply, s_resolved, dpc, asked, result, calls, clouded>>

Resolved(x) ==
  /\ Active(x) /\ (s_got_reply \/ attempt[x] = 3)
  /\ dpc' = [dpc EXCEPT ![x] = "user"]
  /\ s_binds' = Unbound(s_binds, {"dns_recv_cb"})
  /\ result' = [result EXCEPT ![x] = IF s_got_reply THEN s_resolved ELSE 0]
  /\ attempt' = [attempt EXCEPT ![x] = 0]
  /\ UNCHANGED <<wire, dhcpVars, arp, s_got_reply, s_resolved, asked, calls, clouded>>

UdpNext ==
  \/ Discover \/ Request \/ Configure \/ GiveUp
  \/ \E s \in Server : Serve(s)
  \/ \E m \in wire : Frame(m)
  \/ \E x \in Caller : Attempt(x) \/ Resolved(x) \/ \E n \in Name : Resolve(x, n)

-----------------------------------------------------------------------------

(* The configuration dhcp_discover sets is one server's: its address is one that a
   server has acknowledged to us, and mask, gateway and name server are that
   server's or absent, though other servers' offers are lost, late or repeated
   between the two halves of the handshake. *)
LeaseConsistent ==
  cfg.ip # 0 =>
    \E s \in leased :
      /\ cfg.ip = Lease[s].ip
      /\ cfg.subnet \in {0, Lease[s].subnet}
      /\ cfg.gateway \in {0, Lease[s].gateway}
      /\ cfg.dns \in {0, Lease[s].dns}

(* dns_resolve returns the address of the name it was asked for, or fails.  It is
   said of calls that overlap no other call and begin when no reply to an earlier
   query is still on its way: the id, the port and the result are shared by all. *)
ResolvesAsked ==
  \A x \in Caller : ~Active(x) /\ x \notin clouded => result[x] \in {0, asked[x]}

(* The inductive invariant behind LeaseConsistent.  No ACK comes before the REQUEST,
   and then only from the server it names; the options the driver holds from then on
   are that server's, whichever server sent the last message. *)
Options(s) ==
  dhcp.subnet \in {0, Lease[s].subnet} /\ dhcp.gateway \in {0, Lease[s].gateway} /\ dhcp.dns \in {0, Lease[s].dns}

DhcpVars == [ip : Nat, server : Nat, subnet : Nat, gateway : Nat, dns : Nat,
             got_offer : BOOLEAN, got_ack : BOOLEAN]

DhcpInv ==
  /\ boot \in {"start", "offer", "ack", "done"}
  /\ s_binds \in [Bind -> {"none", "dhcp_recv_offer", "dhcp_recv_ack", "dns_recv_cb"}]
  /\ dhcp \in DhcpVars
  /\ \A m \in wire : m.type = "OFFER" => m.from \in Server
  /\ \A m \in wire : m.type = "ACK" => boot = "ack" /\ m.from = requested /\ requested \in leased
  /\ boot \in {"start", "offer"} => ~Listening("dhcp_recv_ack")
  /\ boot \in {"start", "ack"} => ~Listening("dhcp_recv_offer")
  /\ boot # "done" => cfg = NoConfig
  /\ boot \in {"start", "offer"} => ~dhcp.got_ack
  /\ boot = "start" => ~dhcp.got_offer
  /\ boot = "offer" /\ dhcp.got_offer => dhcp.server \in Server /\ Options(dhcp.server)
  /\ boot = "ack" => requested \in Server /\ Options(requested)
  /\ boot = "ack" /\ dhcp.got_ack => requested \in leased /\ dhcp.ip = Lease[requested].ip
  /\ LeaseConsistent

(* ... and behind ResolvesAsked: a call that meets nothing else is the only one, and
   every reply there is, on the wire or in the shared result, is to its query. *)
DnsInv ==
  /\ dpc \in [Caller -> {"user", "resolve"}]
  /\ DOMAIN asked = Caller /\ DOMAIN result = Caller
  /\ \A x \in Caller : Active(x) /\ x \notin clouded =>
       /\ \A y \in Caller : Active(y) => y = x
       /\ \A m \in wire : m.type = "REPLY" => m.name = asked[x]
       /\ s_got_reply => s_resolved = asked[x]
  /\ ResolvesAsked

UdpInv == DhcpInv /\ DnsInv

UdpSpec == UdpInit /\ [][UdpNext]_udpVars
=============================================================================

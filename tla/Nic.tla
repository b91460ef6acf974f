-------------------------------- MODULE Nic --------------------------------
(* The e1000 driver (drivers/e1000.c): the receive ring, which the pollers share
   under s_rx_lock, and the transmit path, which eth_send and e1000_nic_send run
   without a lock through one frame buffer and one DMA buffer.  The card is
   external: it fills descriptors from RDH up to RDT and sends those from TDH up
   to TDT, reading the DMA buffer when it gets there. *)
EXTENDS Naturals, Sequences, FiniteSets

CONSTANTS
  RingSize,   \* RX_RING_SIZE and TX_RING_SIZE
  Sender,     \* threads that send
  MaxStored,  \* bound on what the card stores, for TLC
  MaxSends    \* bound on the calls of eth_send, for TLC

VARIABLES
  rx_ring,    \* status and content of the receive descriptors
  rdh, rdt, s_rx_tail,
  stored,     \* the fragments the card has taken a descriptor for: EOP or not
  written,    \* how many of them it has written back
  received,   \* the fragments nic->recv has returned
  dropped     \* how many it has thrown away

VARIABLES
  tx_done,    \* the transmit descriptors with DD set
  tdh, tdt, s_tx_tail,
  s_frame, s_tx_buf,  \* the frame in each of the shared buffers, 0 for none
  npc, slot, mine,    \* a sender's position, descriptor and frame
  frames,     \* frames handed to eth_send
  sent,       \* what the card has put on the wire
  good,       \* frames whose send returned true and met no other
  crossed     \* senders whose call met another's or a transmission that is late

rxRing == <<rx_ring, rdh, rdt, s_rx_tail, stored, written, received, dropped>>
txRing == <<tx_done, tdh, tdt, s_tx_tail, s_frame, s_tx_buf, npc, slot, mine, frames, sent, good, crossed>>
nicVars == <<rxRing, txRing>>

Desc == 0..RingSize - 1
Succ(i) == (i + 1) % RingSize

(* e1000_init *)
NicInit ==
  /\ rx_ring = [i \in Desc |-> [dd |-> FALSE, eop |-> FALSE, frag |-> 0]]
  /\ rdh = 0 /\ rdt = RingSize - 1 /\ s_rx_tail = 0
  /\ stored = <<>> /\ written = 0 /\ received = <<>> /\ dropped = 0
  /\ tx_done = {}
  /\ tdh = 0 /\ tdt = 0 /\ s_tx_tail = 0
  /\ s_frame = 0 /\ s_tx_buf = 0
  /\ npc = [t \in Sender |-> "out"]
  /\ slot = [t \in Sender |-> 0] /\ mine = [t \in Sender |-> 0]
  /\ frames = 0 /\ sent = <<>> /\ good = {} /\ crossed = {}

-----------------------------------------------------------------------------
(* Reception *)

(* The card takes a descriptor it owns; a frame longer than a buffer has fragments
   without EOP. *)
CardTakes ==
  /\ rdh # rdt /\ Len(stored) < MaxStored
  /\ \E eop \in BOOLEAN : stored' = Append(stored, eop)
  /\ rdh' = Succ(rdh)
  /\ UNCHANGED <<rx_ring, rdt, s_rx_tail, written, received, dropped, txRing>>

(* Later it writes the descriptor back. *)
CardWrites ==
  /\ written < Len(stored)
  /\ written' = written + 1
  /\ rx_ring' = [rx_ring EXCEPT ![written % RingSize] =
                   [dd |-> TRUE, eop |-> stored[written + 1], frag |-> written + 1]]
  /\ UNCHANGED <<rdh, rdt, s_rx_tail, stored, received, dropped, txRing>>

Recycled_Dirty(d) == d
Recycled(d) == [d EXCEPT !.dd = FALSE, !.eop = FALSE]

(* e1000_nic_recv, under s_rx_lock with interrupts off.  A call that finds nothing
   changes nothing. *)
NicRecv ==
  LET d == rx_ring[s_rx_tail] IN
  /\ s_rx_tail # rdh /\ d.dd
  /\ IF d.eop THEN received' = Append(received, d.frag) /\ UNCHANGED dropped
     ELSE dropped' = dropped + 1 /\ UNCHANGED received
  /\ rx_ring' = [rx_ring EXCEPT ![s_rx_tail] = Recycled(d)]
  /\ s_rx_tail' = Succ(s_rx_tail)
  /\ rdt' = s_rx_tail
  /\ UNCHANGED <<rdh, stored, written, txRing>>

-----------------------------------------------------------------------------
(* Transmission *)

At(t, l, m) == npc[t] = l /\ npc' = [npc EXCEPT ![t] = m]

(* eth_send (with ipv4_send and udp_send before it) builds the frame in a static
   buffer. *)
EthSend(t) ==
  /\ At(t, "out", "framed")
  /\ frames < MaxSends
  /\ frames' = frames + 1
  /\ mine' = [mine EXCEPT ![t] = frames + 1]
  /\ s_frame' = frames + 1
  /\ LET others == {u \in Sender : npc[u] # "out"}
     IN  crossed' = (crossed \ {t}) \cup others \cup
                    (IF others # {} \/ tdh # tdt THEN {t} ELSE {})
  /\ UNCHANGED <<rxRing, tx_done, tdh, tdt, s_tx_tail, s_tx_buf, slot, sent, good>>

(* e1000_nic_send: the frame goes to the DMA buffer, ... *)
NicCopy(t) ==
  /\ At(t, "framed", "copied")
  /\ s_tx_buf' = s_frame
  /\ UNCHANGED <<rxRing, tx_done, tdh, tdt, s_tx_tail, s_frame, slot, mine, frames, sent, good, crossed>>

StatusCleared_Not(i) == tx_done
StatusCleared(i) == tx_done \ {i}

(* ... its descriptor is written, ... *)
NicDescribe(t) ==
  /\ At(t, "copied", "described")
  /\ slot' = [slot EXCEPT ![t] = s_tx_tail]
  /\ tx_done' = StatusCleared(s_tx_tail)
  /\ UNCHANGED <<rxRing, tdh, tdt, s_tx_tail, s_frame, s_tx_buf, mine, frames, sent, good, crossed>>

(* ... the card is told, ... *)
NicKick(t) ==
  /\ At(t, "described", "wait")
  /\ s_tx_tail' = Succ(slot[t])
  /\ tdt' = Succ(slot[t])
  /\ UNCHANGED <<rxRing, tx_done, tdh, s_frame, s_tx_buf, slot, mine, frames, sent, good, crossed>>

(* ... and the status is polled; 100000 iterations may not be enough. *)
NicDone(t) ==
  /\ At(t, "wait", "out")
  /\ \/ /\ slot[t] \in tx_done
        /\ good' = IF t \in crossed THEN good ELSE good \cup {mine[t]}
     \/ slot[t] \notin tx_done /\ UNCHANGED good
  /\ slot' = [slot EXCEPT ![t] = 0]
  /\ UNCHANGED <<rxRing, tx_done, tdh, tdt, s_tx_tail, s_frame, s_tx_buf, mine, frames, sent, crossed>>

CardSends ==
  /\ tdh # tdt
  /\ sent' = Append(sent, s_tx_buf)
  /\ tx_done' = tx_done \cup {tdh}
  /\ tdh' = Succ(tdh)
  /\ UNCHANGED <<rxRing, tdt, s_tx_tail, s_frame, s_tx_buf, npc, slot, mine, frames, good, crossed>>

NicRx == CardTakes \/ CardWrites \/ NicRecv

NicTx ==
  \/ CardSends
  \/ \E t \in Sender : EthSend(t) \/ NicCopy(t) \/ NicDescribe(t) \/ NicKick(t) \/ NicDone(t)

-----------------------------------------------------------------------------

(* Frames come out of the receive ring in the order the card stored them, none twice,
   none skipped but fragments, over every wrap of the ring and with the ring full;
   and a send that returned true has put its own frame on the wire exactly once.  The
   latter is said of sends that met no other one in the unlocked path and began when
   no transmission that had timed out was still pending. *)
FramesIntact ==
  /\ received = SelectSeq([i \in 1..Len(received) + dropped |-> i], LAMBDA i : stored[i])
  /\ \A f \in good : Cardinality({i \in 1..Len(sent) : sent[i] = f}) = 1
=============================================================================

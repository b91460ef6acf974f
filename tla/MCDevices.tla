------------------------------ MODULE MCDevices ------------------------------
(* Instances for TLC of the network stack, the device drivers and the start of the APs.  They share no
   state here; a behaviour belongs to one of them, `part`. *)
EXTENDS Tcp, Udp, Nic, Nvme, Ahci, Smp

CONSTANTS a, b, x, y

VARIABLE part

Load(apps, conns, bytes, rxbuf, connects, polls_, may) ==
  [apps |-> apps, conns |-> conns, socks |-> Cardinality(apps), rxbuf |-> rxbuf, bytes |-> bytes,
   connects |-> connects, polls |-> polls_, may |-> may]

(* Two threads and one slot; one thread that comes back to a used slot, after a reset
   or with the socket still open; and one long stream. *)
MCWorkloads ==
  {Load({a, b}, 1, 1, 2, 2, 1, {}),
   Load({a}, 2, 1, 2, 2, 1, {"rst"}),
   Load({a}, 2, 1, 2, 2, 1, {"open"}),
   Load({a}, 1, 3, 3, 1, 2, {"fin", "send", "pad"})}

MCLease == [s \in {1, 2} |-> [ip |-> 10 * s, subnet |-> s, gateway |-> s, dns |-> 5 + s]]

MCMadt == <<0, 1, 9, 2, 3>>

devVars == <<tcpVars, udpVars, nicVars, diskVars, nvmeVars, ahciVars, smpVars, part>>

DevInit ==
  /\ part \in {"tcp", "udp", "rx", "tx", "nvme", "ahci", "smp"}
  /\ TcpInit /\ UdpInit /\ NicInit /\ DiskInit /\ NvmeInit /\ AhciInit /\ SmpInit
  /\ part # "tcp" => workload = CHOOSE w \in Workloads : TRUE
  /\ part \notin {"nvme", "ahci"} => disk = CHOOSE d \in [Lba -> Val] : TRUE

DevNext ==
  /\ UNCHANGED part
  /\ \/ /\ part = "tcp" /\ TcpNext
        /\ UNCHANGED <<udpVars, nicVars, diskVars, nvmeVars, ahciVars, smpVars>>
     \/ /\ part = "udp" /\ UdpNext
        /\ UNCHANGED <<tcpVars, nicVars, diskVars, nvmeVars, ahciVars, smpVars>>
     \/ /\ \/ part = "rx" /\ NicRx
           \/ part = "tx" /\ NicTx
        /\ UNCHANGED <<tcpVars, udpVars, diskVars, nvmeVars, ahciVars, smpVars>>
     \/ /\ part = "nvme" /\ NvmeNext
        /\ UNCHANGED <<tcpVars, udpVars, nicVars, ahciVars, smpVars>>
     \/ /\ part = "ahci" /\ AhciNext
        /\ UNCHANGED <<tcpVars, udpVars, nicVars, nvmeVars, smpVars>>
     \/ /\ part = "smp" /\ SmpNext
        /\ UNCHANGED <<tcpVars, udpVars, nicVars, diskVars, nvmeVars, ahciVars>>

DevSpec == DevInit /\ [][DevNext]_devVars /\ TcpFairness
=============================================================================

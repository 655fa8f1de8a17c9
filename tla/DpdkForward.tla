---------------------------- MODULE DpdkForward -----------------------------
(***************************************************************************)
(* mydpdk/mydpdk.c: set up the ports, then for ever send a test packet on  *)
(* port 0 and take the packets received on port 1.  All packet buffers     *)
(* come from one pool: an mbuf is in the pool, posted to a receive queue,  *)
(* held by port 0's transmit queue, or in the program's hands.  Only their *)
(* numbers matter here.  send_burst_test_packets has no caller.            *)
(*                                                                         *)
(* External, from how the program uses it: rte_eth_dev_start fills the     *)
(* receive queue; rte_eth_tx_burst keeps a packet until it has been sent;  *)
(* rte_eth_rx_burst replaces every packet it hands out, and hands out none *)
(* it cannot replace.                                                      *)
(***************************************************************************)
EXTENDS Naturals

CONSTANTS
  NUM_MBUFS, RX_RING_SIZE, TX_RING_SIZE, BURST_SIZE,   \* as in the code
  MaxPorts    \* bound on the ports found

VARIABLES
  pc,         \* the program's next step
  nb_ports, portid,
  pool,       \* mbufs in the pool
  hand,       \* mbufs the program holds
  txq,        \* packets held by port 0's transmit queue
  rx,         \* packets waiting in port 1's receive queue
  starved     \* history: an allocation failed

vars == <<pc, nb_ports, portid, pool, hand, txq, rx, starved>>

nic == <<txq, rx>>

Init ==
  /\ pc = "setup" /\ nb_ports \in 0 .. MaxPorts /\ portid = 0
  /\ pool = NUM_MBUFS /\ hand = 0 /\ txq = 0 /\ rx = 0
  /\ starved = FALSE

-----------------------------------------------------------------------------
(* main, l.261-307: any step may fail, and the program ends. *)

TooFewPorts ==
  /\ pc = "setup" /\ nb_ports < 2
  /\ pc' = "exit"
  /\ UNCHANGED <<nb_ports, portid, pool, hand, nic, starved>>

SetupPort ==
  /\ pc = "setup" /\ nb_ports >= 2 /\ portid < nb_ports
  /\ \/ /\ pool >= RX_RING_SIZE
        /\ pool' = pool - RX_RING_SIZE
        /\ portid' = portid + 1
        /\ UNCHANGED pc
     \/ pc' = "exit" /\ UNCHANGED <<pool, portid>>
  /\ UNCHANGED <<nb_ports, hand, nic, starved>>

SetupDone ==
  /\ pc = "setup" /\ nb_ports >= 2 /\ portid = nb_ports
  /\ pc' = "send"
  /\ UNCHANGED <<nb_ports, portid, pool, hand, nic, starved>>

-----------------------------------------------------------------------------
(* send_one_test_packet *)

SendAlloc ==
  /\ pc = "send"
  /\ \/ pool > 0 /\ pool' = pool - 1 /\ hand' = 1 /\ pc' = "build" /\ UNCHANGED starved
     \/ pool = 0 /\ pc' = "receive" /\ starved' = TRUE /\ UNCHANGED <<pool, hand>>
  /\ UNCHANGED <<nb_ports, portid, nic>>

(* Mutant: a packet that could not be built is not freed. *)
SendBuild_Leak ==
  /\ pc = "build"
  /\ \/ pc' = "transmit" /\ UNCHANGED <<pool, hand>>
     \/ pc' = "receive" /\ hand' = 0 /\ UNCHANGED pool
  /\ UNCHANGED <<nb_ports, portid, nic, starved>>

(* build_test_ipv4_udp_packet or a MAC address for the log may fail. *)
SendBuild ==
  /\ pc = "build"
  /\ \/ pc' = "transmit" /\ UNCHANGED <<pool, hand>>
     \/ pc' = "receive" /\ hand' = 0 /\ pool' = pool + 1
  /\ UNCHANGED <<nb_ports, portid, nic, starved>>

(* Mutant: a packet that the card has taken is freed as well. *)
SendTransmit_FreesTaken ==
  /\ pc = "transmit"
  /\ \/ txq < TX_RING_SIZE /\ txq' = txq + 1
     \/ UNCHANGED txq
  /\ hand' = 0 /\ pool' = pool + 1
  /\ pc' = "receive"
  /\ UNCHANGED <<nb_ports, portid, rx, starved>>

SendTransmit ==
  /\ pc = "transmit"
  /\ \/ txq < TX_RING_SIZE /\ txq' = txq + 1 /\ hand' = 0 /\ UNCHANGED pool
     \/ hand' = 0 /\ pool' = pool + 1 /\ UNCHANGED txq
  /\ pc' = "receive"
  /\ UNCHANGED <<nb_ports, portid, rx, starved>>

-----------------------------------------------------------------------------
(* The rest of the loop, l.322-329.  The first packet, l.310, is sent      *)
(* before the loop: receiving nothing after it is one of the choices.      *)

ReceiveBurst(n) ==
  /\ pc = "receive"
  /\ n <= rx /\ n <= pool
  /\ rx' = rx - n /\ pool' = pool - n /\ hand' = n
  /\ pc' = IF n = 0 THEN "send" ELSE "free"
  /\ UNCHANGED <<nb_ports, portid, txq, starved>>

(* Mutant: the first packet of the burst is not freed. *)
ReceiveFree_Leak ==
  /\ pc = "free"
  /\ hand' = hand - 1
  /\ pool' = IF hand = 1 THEN pool ELSE pool + 1
  /\ pc' = IF hand = 1 THEN "send" ELSE "free"
  /\ UNCHANGED <<nb_ports, portid, nic, starved>>

ReceiveFree ==
  /\ pc = "free"
  /\ hand' = hand - 1 /\ pool' = pool + 1
  /\ pc' = IF hand = 1 THEN "send" ELSE "free"
  /\ UNCHANGED <<nb_ports, portid, nic, starved>>

(* Port 0 has sent a packet, which may reach port 1, whose queue it may    *)
(* find full; packets of other hosts come in as well.                      *)
Sent ==
  /\ txq > 0 /\ txq' = txq - 1 /\ pool' = pool + 1
  /\ UNCHANGED <<pc, nb_ports, portid, hand, rx, starved>>

Arrive ==
  /\ pc \notin {"setup", "exit"} /\ rx < RX_RING_SIZE
  /\ rx' = rx + 1
  /\ UNCHANGED <<pc, nb_ports, portid, pool, hand, txq, starved>>

Next ==
  \/ TooFewPorts \/ SetupPort \/ SetupDone
  \/ SendAlloc \/ SendBuild \/ SendTransmit
  \/ (\E n \in 0 .. BURST_SIZE : ReceiveBurst(n)) \/ ReceiveFree
  \/ Sent \/ Arrive

Spec == Init /\ [][Next]_vars

-----------------------------------------------------------------------------
(* Properties. *)

(* Every packet buffer is in one place: in the pool, in the program's      *)
(* hands, in the transmit queue or posted by a port that has been set up.  *)
(* No path forgets one, frees one twice or frees one the card still owns.  *)
BuffersAddUp == pool + hand + txq + portid * RX_RING_SIZE = NUM_MBUFS

(* No error path leaks a packet buffer: a pool that has one more than the  *)
(* receive queues of all ports and one transmit queue can hold never runs  *)
(* dry, however long the program runs.  With the code's sizes that means   *)
(* at most 6 ports.                                                        *)
NeverStarves ==
  NUM_MBUFS > nb_ports * RX_RING_SIZE + TX_RING_SIZE => ~starved

=============================================================================

--------------------------- MODULE MCLoraUdpBridge ---------------------------
(***************************************************************************)
(* Instances of LoraUdpBridge; the nodes are interchangeable.              *)
(***************************************************************************)
EXTENDS LoraUdpBridge, TLC

CONSTANTS n22, n24, n26

(* Each node connects, then sends data.                                    *)
TrafficOf(S) ==
  {[src |-> n, seq |-> 1, connect |-> TRUE] : n \in S} \cup
  {[src |-> n, seq |-> 2, connect |-> FALSE] : n \in S}

MCTraffic == TrafficOf(Src)

(* The table: three receptions, a datagram beside the answers, an expiry.  *)
MCTable ==
  {[traffic |-> Traffic, noise |-> {}, size |-> {"fits"}, stop |-> FALSE,
    heard |-> 3, published |-> 1, expired |-> 1]}

(* Two clients and their answers, one of them expiring, with noise and a   *)
(* signal; and one client with three receptions, damaged ones among them.  *)
MCService ==
  {[traffic |-> Traffic, noise |-> Noise, size |-> Size, stop |-> TRUE,
    heard |-> 2, published |-> 0, expired |-> 1],
   [traffic |-> TrafficOf({n22}), noise |-> Noise, size |-> {"fits"}, stop |-> FALSE,
    heard |-> 3, published |-> 0, expired |-> 0]}

(* One client, two receptions, no damage: nothing but the two threads.     *)
MCWakeup ==
  {[traffic |-> Traffic, noise |-> {}, size |-> {"fits"}, stop |-> FALSE,
    heard |-> 2, published |-> 1, expired |-> 0]}

SrcSymmetry == Permutations(Src)
==============================================================================

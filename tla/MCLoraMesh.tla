----------------------------- MODULE MCLoraMesh ------------------------------
(***************************************************************************)
(* Instances of LoraMesh: the deployed topology (config.h): endpoints n22  *)
(* and n24 behind relay n23, and a second relay n25 that also reaches the  *)
(* endpoints directly.                                                     *)
(***************************************************************************)
EXTENDS LoraMesh

CONSTANTS n22, n23, n24, n25

(* ROUTING_TABLE of each node; a destination without a row is its own hop. *)
MCNodeNextHop ==
  [n \in Node |-> [d \in Endpoint \cup {Gateway} |->
     IF d = Gateway /\ n # n23 THEN n23 ELSE d]]

(* GW_ROUTING_TABLE: both endpoints are reached through relay n23.         *)
MCGwNextHop == [d \in Endpoint |-> n23]
==============================================================================

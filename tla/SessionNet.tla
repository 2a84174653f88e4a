------------------------------ MODULE SessionNet ------------------------------
(***************************************************************************)
(* What an MQTT-SN session runs over and under: the datagrams between one  *)
(* client and the Paho gateway (Wi-Fi, or the LoRa mesh and its bridge),   *)
(* and the faults of the environment.                                      *)
(*                                                                         *)
(* A scenario is fixed at the start: the client, the kinds of fault that   *)
(* may happen, how many of them, how many messages the client publishes,   *)
(* and the commands others publish to it.  Without faults datagrams stay   *)
(* in order; seen remembers which kinds of fault have happened.            *)
(***************************************************************************)
EXTENDS Integers, Sequences, FiniteSets

CONSTANTS
  Data1, Data2,  \* TOPIC_DATA_1, TOPIC_DATA_2: the client publishes these
  Cmd1, Cmd2,    \* TOPIC_CMD_1 (QoS 1), TOPIC_CMD_2 (QoS 2): it subscribes
  Scenarios,     \* the scenarios to consider
  None

Sender  == {Data1, Data2}
Command == {Cmd1, Cmd2}
Topic   == Sender \cup Command

Faults == {"lost",         \* a datagram is lost
           "repeated",     \* a datagram arrives twice
           "delayed",      \* a datagram is overtaken by the others
           "late",         \* a timer of the client fires before the answer
           "reboot",       \* the client restarts
           "restart",      \* the gateway restarts
           "dropped",      \* the broker closes a connection
           "unreachable",  \* the gateway cannot connect to the broker
           "refused",      \* the broker refuses a CONNECT
          "preempted"}    \* a thread of the gateway is held up

ASSUME SessionAssumption ==
  /\ Cardinality(Topic) = 4
  /\ None \notin Topic
  /\ \A s \in Scenarios :
       /\ s.kind \in {"arduino", "pico"}
       /\ s.faults \subseteq Faults
       /\ s.count \in Nat /\ s.messages \in Nat /\ s.commands \in [Command -> Nat]

VARIABLES
  scenario,  \* the scenario being run
  up,        \* datagrams from the client to the gateway
  down,      \* datagrams from the gateway to the client
  left,      \* how many more faults may happen
  seen       \* the kinds of fault that have happened

netVars == <<scenario, up, down, left, seen>>
calm    == <<scenario, left, seen>>

NetInit ==
  /\ scenario \in Scenarios
  /\ up = <<>> /\ down = <<>>
  /\ left = scenario.count
  /\ seen = {}

(* The client sends datagram p.                                            *)
SendUp(p) == up' = Append(up, p)

(* A fault of kind k happens.                                              *)
Fault(k) ==
  /\ k \in scenario.faults
  /\ left > 0
  /\ left' = left - 1
  /\ seen' = seen \cup {k}
  /\ UNCHANGED scenario

(* Only the datagram at the head of a queue suffers a fault: it is the     *)
(* next to arrive.                                                         *)
Suffers(queue, others) ==
  \/ Fault("lost") /\ queue' = Tail(queue) /\ UNCHANGED others
  \/ Fault("repeated") /\ queue' = Append(queue, Head(queue)) /\ UNCHANGED others
  \/ /\ Len(queue) > 1
     /\ Fault("delayed")
     /\ queue' = Append(Tail(queue), Head(queue))
     /\ UNCHANGED others

(* The faults of the network itself.                                       *)
NetFault ==
  \/ up # <<>> /\ Suffers(up, down)
  \/ down # <<>> /\ Suffers(down, up)
==============================================================================

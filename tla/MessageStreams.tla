---------------------------- MODULE MessageStreams -----------------------------
(***************************************************************************)
(* What the dashboard listens to: streams of numbered messages, one for    *)
(* each node and topic, on their way through mesh, gateway and broker.     *)
(* The Arduino counts the messages of each topic (g_pub_count_qos0, _qos1),*)
(* the Pico those of both its topics together (msg_counter).               *)
(*                                                                         *)
(* The way may lose, repeat and reorder messages, and a node that restarts *)
(* counts from 1 again.  A budget, fixed at the start, bounds messages,    *)
(* faults, requests to the dashboard and broken connections.               *)
(***************************************************************************)
EXTENDS Integers, Sequences, FiniteSets

CONSTANTS
  Stream,     \* pairs of topic and node
  Counter,    \* the nodes' message counters
  CounterOf,  \* the counter that numbers a stream
  Budgets,    \* the budgets to consider
  None

ASSUME StreamsAssumption ==
  /\ CounterOf \in [Stream -> Counter]
  /\ Budgets \subseteq [messages : Nat, faults : Nat, requests : Nat, breaks : Nat]

VARIABLES
  number,  \* [Counter -> number of the last message]
  air,     \* messages on their way to the dashboard, in order
  budget,  \* what is left of the budget
  seen     \* the kinds of fault that have happened

streamVars == <<number, air, budget, seen>>

StreamsInit ==
  /\ number = [c \in Counter |-> 0]
  /\ air = <<>>
  /\ budget \in Budgets
  /\ seen = {}

Spend(what) ==
  /\ budget[what] > 0
  /\ budget' = [budget EXCEPT ![what] = @ - 1]

(* A node publishes the next message of stream s.                          *)
Publish(s) ==
  /\ Spend("messages")
  /\ LET c == CounterOf[s] IN
       /\ number' = [number EXCEPT ![c] = @ + 1]
       /\ air' = Append(air, [stream |-> s, n |-> number[c] + 1])
  /\ UNCHANGED seen

Fault(kind) == Spend("faults") /\ seen' = seen \cup {kind}

Lose ==
  /\ air # <<>> /\ Fault("lost")
  /\ air' = Tail(air)
  /\ UNCHANGED number

Repeat ==
  /\ air # <<>> /\ Fault("repeated")
  /\ air' = <<Head(air)>> \o air
  /\ UNCHANGED number

(* The message at the head arrives after all the others.                   *)
Delay ==
  /\ Len(air) > 1 /\ Fault("delayed")
  /\ air' = Append(Tail(air), Head(air))
  /\ UNCHANGED number

Reboot(c) ==
  /\ number[c] > 0 /\ Fault("rebooted")
  /\ number' = [number EXCEPT ![c] = 0]
  /\ UNCHANGED air

StreamStep ==
  \/ \E s \in Stream : Publish(s)
  \/ Lose \/ Repeat \/ Delay
  \/ \E c \in Counter : Reboot(c)
==============================================================================

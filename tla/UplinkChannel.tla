---------------------------- MODULE UplinkChannel ----------------------------
(***************************************************************************)
(* What the mesh and the gateway's duplicate filter promise to Paho: an    *)
(* unreliable channel that may lose and reorder messages, never invents    *)
(* one, and repeats one only beyond a window of Window later deliveries or *)
(* after its sender connected again.                                       *)
(***************************************************************************)
EXTENDS Integers, Sequences

CONSTANTS Window

VARIABLES sent, toPaho

Key(m) == [src |-> m.src, seq |-> m.seq]

(* A message with this key is among the last Window deliveries and its     *)
(* sender has not connected since.                                         *)
Recent(log, m) ==
  \E i \in DOMAIN log :
    /\ Key(log[i]) = Key(m)
    /\ Len(log) + 1 - i <= Window
    /\ \A c \in i + 1 .. Len(log) : ~(log[c].kind = "connect" /\ log[c].src = m.src)

Init == sent = {} /\ toPaho = <<>>

Originate(m) ==
  /\ m \notin sent
  /\ sent' = sent \cup {m}
  /\ UNCHANGED toPaho

Deliver(m) ==
  /\ m \in sent
  /\ m.kind = "connect" \/ ~Recent(toPaho, m)
  /\ toPaho' = Append(toPaho, m)
  /\ UNCHANGED sent

Next ==
  \/ \E m \in sent' : Originate(m)
  \/ \E m \in sent : Deliver(m)

Spec == Init /\ [][Next]_<<sent, toPaho>>
==============================================================================

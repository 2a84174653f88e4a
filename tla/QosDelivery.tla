---------------------------- MODULE QosDelivery ----------------------------
(***************************************************************************)
(* What a publisher's QoS engine promises for each message it is given:    *)
(* the receiver gets nothing else; QoS 0 at most once, otherwise not more  *)
(* often than the message may be transmitted; and a message that is kept   *)
(* for retransmission is only forgotten after the receiver has had it, or  *)
(* has refused it, or after the engine has given up.                       *)
(***************************************************************************)
EXTENDS Integers

CONSTANTS Msg, Qos, Attempts   \* Attempts: transmissions allowed per message

VARIABLES published, pending, delivered, refused, gaveUp

vars == <<published, pending, delivered, refused, gaveUp>>

Limit(m) == IF Qos[m] = 0 THEN 1 ELSE Attempts

Init ==
  /\ published = {} /\ pending = {} /\ refused = {} /\ gaveUp = {}
  /\ delivered = [m \in Msg |-> 0]

Publish(m) ==
  /\ m \notin published
  /\ published' = published \cup {m}
  /\ UNCHANGED <<pending, delivered, refused, gaveUp>>

(* Kept for retransmission, once.                                          *)
Keep(m) ==
  /\ m \in published \ (pending \cup gaveUp) /\ Qos[m] > 0
  /\ pending' = pending \cup {m}
  /\ UNCHANGED <<published, delivered, refused, gaveUp>>

Deliver(m) ==
  /\ m \in published /\ delivered[m] < Limit(m)
  /\ delivered' = [delivered EXCEPT ![m] = @ + 1]
  /\ UNCHANGED <<published, pending, refused, gaveUp>>

Refuse(m) ==
  /\ m \in published
  /\ refused' = refused \cup {m}
  /\ UNCHANGED <<published, pending, delivered, gaveUp>>

Acknowledged(m) ==
  /\ m \in pending
  /\ delivered[m] > 0 \/ m \in refused
  /\ pending' = pending \ {m}
  /\ UNCHANGED <<published, delivered, refused, gaveUp>>

GiveUp(m) ==
  /\ m \in pending
  /\ pending' = pending \ {m}
  /\ gaveUp' = gaveUp \cup {m}
  /\ UNCHANGED <<published, delivered, refused>>

Next ==
  \E m \in Msg : \/ Publish(m) \/ Keep(m) \/ Deliver(m) \/ Refuse(m)
                 \/ Acknowledged(m) \/ GiveUp(m)

Spec == Init /\ [][Next]_vars
============================================================================

--------------------------- MODULE MCQosPublisher ---------------------------
(* Instances of QosPublisher.                                              *)
EXTENDS QosPublisher

CONSTANTS m0, m1, m2, n2

(* m1 is a QoS 1 message, m2 and n2 are QoS 2.                              *)
MCQos == [m \in Msg |-> IF m \in {m2, n2} THEN 2 ELSE IF m = m1 THEN 1 ELSE 0]
=============================================================================

---------------------------- MODULE QosPublisher ----------------------------
(***************************************************************************)
(* The Pico's QoS engine (mqtt-sn-pico-client/mqtt/mqtt-sn-udp.c): the     *)
(* table of pending messages, which the MQTT task fills, scans and         *)
(* retransmits from, while lwIP's receive callback, which may interrupt    *)
(* the task anywhere, changes it when an acknowledgement arrives.          *)
(*                                                                         *)
(* A step of the task ends where an acknowledgement in between makes a     *)
(* difference.  The work on one slot is one step: only the task fills      *)
(* slots, so a callback within that work amounts to one before or after.   *)
(*                                                                         *)
(* Time: the table is checked every 5 s and a message is due after 2 s.    *)
(* What was in the table at the last check is therefore due at this one    *)
(* unless its timer was restarted; what came later may be due.             *)
(*                                                                         *)
(* The gateway with the broker, and the network, are external.  A datagram *)
(* is lost or arrives in order.  Dropping acknowledgements on purpose      *)
(* (drop_acks, tests only) is such a loss.                                 *)
(***************************************************************************)
EXTENDS Integers, Sequences

CONSTANTS
  Msg,         \* the application's messages, each published at most once
  Qos,         \* [Msg -> 0 .. 2]
  NumSlots,    \* MAX_PENDING_QOS_MSGS
  MaxRetries,  \* QOS_MAX_RETRIES
  MaxId,       \* 0xFFFF
  FirstId,     \* values of s_next_msg_id after the registrations
  MayRefuse,   \* whether the gateway may not know the topic of a message
  NetCap,      \* bound: datagrams under way in each direction
  None

Slot == 1 .. NumSlots
Id   == 1 .. MaxId - 1     \* of a message with QoS 1 or 2

ASSUME QosAssumption ==
  /\ Qos \in [Msg -> 0 .. 2]
  /\ NumSlots \in Nat \ {0} /\ MaxRetries \in Nat \ {0} /\ NetCap \in Nat \ {0}
  /\ MaxId \in Nat \ {0, 1} /\ FirstId \subseteq 0 .. MaxId
  /\ MayRefuse \in BOOLEAN

Kept == {m \in Msg : Qos[m] > 0}

Entry    == [msg : Kept, id : Id, step : {0, 1}, retries : 0 .. MaxRetries]
Copy     == [msg : Kept, id : Id, step : {0, 1}]
Upward   == [type : {"PUBLISH"}, id : {0}, msg : Msg \ Kept]
              \cup [type : {"PUBLISH"}, id : Id, msg : Kept]
              \cup [type : {"PUBREL"}, id : Id]
Downward == [type : {"PUBACK", "PUBREC", "PUBCOMP"}, id : Id]

ASSUME NoneAssumption == None \notin Entry

VARIABLES
  nextId,      \* s_next_msg_id
  slots,       \* g_pending_msgs: [Slot -> Entry or None]
  recent,      \* slots in use with a timestamp later than the last check
  pc, cur, due, retryList,  \* the task: where it is, its locals
  toGw, toPico,                \* datagrams under way
  stored,      \* the broker's QoS 2 messages waiting for PUBREL
  published, delivered, refused, gaveUp,  \* history
  lost         \* datagrams lost, as far as MaxRetries + 1

tableVars == <<slots, recent>>
taskVars  == <<nextId, pc, cur, due, retryList>>
gwVars    == <<stored, delivered, refused>>
vars == <<tableVars, taskVars, toGw, toPico, gwVars, published, gaveUp, lost>>

Init ==
  /\ nextId \in FirstId
  /\ slots = [s \in Slot |-> None] /\ recent = {}
  /\ pc = "idle" /\ cur = None /\ due = {} /\ retryList = <<>>
  /\ toGw = <<>> /\ toPico = <<>>
  /\ stored = {} /\ delivered = [m \in Msg |-> 0] /\ refused = {}
  /\ published = {} /\ gaveUp = {}
  /\ lost = 0

Used == {s \in Slot : slots[s] # None}

(***************************************************************************)
(* The network.                                                            *)
(***************************************************************************)

Lose == lost' = IF lost <= MaxRetries THEN lost + 1 ELSE lost

ToGw(rest, d) ==
  \/ Len(rest) < NetCap /\ toGw' = Append(rest, d) /\ UNCHANGED lost
  \/ toGw' = rest /\ Lose

ToPico(d) ==
  \/ Len(toPico) < NetCap /\ toPico' = Append(toPico, d) /\ UNCHANGED lost
  \/ UNCHANGED toPico /\ Lose

(***************************************************************************)
(* The task.                                                               *)
(***************************************************************************)

(* get_next_msg_id: 0 is not an id, and 0xFFFF is skipped too.             *)
NextIdStuck == nextId     \* variant: after 0xFFFF the ids no longer wrap
NextId      == IF nextId \in {0, MaxId} THEN 1 ELSE nextId

(* mqtt_sn_publish_topic_id_auto up to udp_sendto.  When that fails, or no *)
(* buffer is left for the packet, the message is not tracked.              *)
Publish(m) ==
  /\ pc = "idle"
  /\ m \notin published
  /\ published' = published \cup {m}
  /\ nextId' = IF m \in Kept THEN NextId + 1 ELSE nextId
  /\ LET id == IF m \in Kept THEN NextId ELSE 0 IN
       \/ /\ ToGw(toGw, [type |-> "PUBLISH", id |-> id, msg |-> m])
          /\ IF m \in Kept THEN /\ pc' = "store"
                             /\ cur' = [msg |-> m, id |-> id]
                        ELSE UNCHANGED <<pc, cur>>
       \/ UNCHANGED <<toGw, lost, pc, cur>>
  /\ UNCHANGED <<tableVars, due, retryList, toPico, gwVars, gaveUp>>

(* The rest of it, with interrupts disabled: the first free slot, if any.  *)
Store ==
  /\ pc = "store"
  /\ pc' = "idle" /\ cur' = None
  /\ \/ Used = Slot /\ UNCHANGED tableVars
     \/ \E s \in Slot \ Used :
          /\ \A t \in Slot \ Used : s <= t
          /\ slots' = [slots EXCEPT ![s] =
                         [msg |-> cur.msg, id |-> cur.id, step |-> 0, retries |-> 0]]
          /\ recent' = recent \cup {s}
  /\ UNCHANGED <<nextId, due, retryList, toGw, toPico, gwVars, published, gaveUp, lost>>

(* check_qos_timeouts: which slots are due is a matter of `now'.           *)
StartCheck ==
  /\ pc = "idle"
  /\ \E late \in SUBSET (Used \cap recent) : due' = (Used \ recent) \cup late
  /\ pc' = IF due' = {} THEN "idle" ELSE "scan"
  /\ recent' = {}
  /\ UNCHANGED <<slots, nextId, cur, retryList, toGw, toPico, gwVars, published, gaveUp, lost>>

(* Phase 1, one slot that is still in use and due.                         *)
ExpireEarly(s) ==     \* variant: one retry less
  /\ slots[s].retries + 1 >= MaxRetries
  /\ slots' = [slots EXCEPT ![s] = None]
  /\ gaveUp' = gaveUp \cup {slots[s].msg}
  /\ UNCHANGED retryList

Expire(s) ==
  /\ slots[s].retries >= MaxRetries
  /\ slots' = [slots EXCEPT ![s] = None]
  /\ gaveUp' = gaveUp \cup {slots[s].msg}
  /\ UNCHANGED retryList

Copied(s) == [msg |-> slots[s].msg, id |-> slots[s].id, step |-> slots[s].step]

RetryUncounted(s) ==  \* variant: retry_count is not updated
  /\ slots[s].retries < MaxRetries
  /\ retryList' = Append(retryList, Copied(s))
  /\ UNCHANGED <<slots, gaveUp>>

Retry(s) ==
  /\ slots[s].retries < MaxRetries
  /\ retryList' = Append(retryList, Copied(s))
  /\ slots' = [slots EXCEPT ![s].retries = @ + 1]
  /\ UNCHANGED gaveUp

Scan ==
  /\ pc = "scan"
  /\ \E s \in due :
       /\ \A t \in due : s <= t
       /\ due' = due \ {s}
       /\ Expire(s) \/ Retry(s)
  /\ UNCHANGED <<recent, nextId, pc, cur, toGw, toPico, gwVars, published, lost>>

ScanDone ==
  /\ pc = "scan" /\ due = {}
  /\ pc' = IF retryList = <<>> THEN "idle" ELSE "resend"
  /\ UNCHANGED <<tableVars, nextId, cur, due, retryList, toGw, toPico, gwVars, published,
                 gaveUp, lost>>

(* Phase 2, one entry of the snapshot: PUBLISH, or PUBREL when PUBREC had  *)
(* been received before the snapshot.                                      *)
Resend ==
  /\ pc = "resend"
  /\ retryList' = Tail(retryList)
  /\ pc' = IF Len(retryList) = 1 THEN "idle" ELSE "resend"
  /\ LET e == Head(retryList) IN
       ToGw(toGw, IF Qos[e.msg] = 2 /\ e.step = 1
                  THEN [type |-> "PUBREL", id |-> e.id]
                  ELSE [type |-> "PUBLISH", id |-> e.id, msg |-> e.msg])
  /\ UNCHANGED <<tableVars, nextId, cur, due, toPico, gwVars, published, gaveUp>>

TaskStep == Store \/ StartCheck \/ Scan \/ ScanDone \/ Resend

(***************************************************************************)
(* udp_recv_callback.                                                      *)
(***************************************************************************)

With(id) == {s \in Used : slots[s].id = id}

Free(S) ==
  /\ slots' = [s \in Slot |-> IF s \in S THEN None ELSE slots[s]]
  /\ recent' = recent \ S /\ due' = due \ S

(* remove_pending_qos_msg.                                                 *)
RemoveAny(id) == Free(Used)     \* variant: the id is not compared
Remove(id)    == Free(With(id))

(* handle_puback_received, handle_pubcomp_received: no look at the code    *)
(* that a PUBACK carries.                                                  *)
ReceiveFinal ==
  /\ toPico # <<>> /\ Head(toPico).type \in {"PUBACK", "PUBCOMP"}
  /\ Remove(Head(toPico).id)
  /\ toPico' = Tail(toPico)
  /\ UNCHANGED <<nextId, pc, cur, retryList, toGw, gwVars, published, gaveUp, lost>>

(* handle_pubrec_received: PUBREL in any case, then the first slot with    *)
(* this id.                                                                *)
ReceivePubrec ==
  /\ toPico # <<>> /\ Head(toPico).type = "PUBREC"
  /\ LET id == Head(toPico).id IN
       /\ ToGw(toGw, [type |-> "PUBREL", id |-> id])
       /\ \/ With(id) = {} /\ UNCHANGED <<slots, recent, due>>
          \/ \E s \in With(id) :
               /\ \A t \in With(id) : s <= t
               /\ slots' = [slots EXCEPT ![s].step = 1]
               /\ recent' = recent \cup {s}
               /\ due' = due \ {s}
  /\ toPico' = Tail(toPico)
  /\ UNCHANGED <<nextId, pc, cur, retryList, gwVars, published, gaveUp>>

Callback == ReceiveFinal \/ ReceivePubrec

(***************************************************************************)
(* The gateway and the broker.                                             *)
(***************************************************************************)

GwReceive(type) == toGw # <<>> /\ Head(toGw).type = type /\ toGw' = Tail(toGw)

Deliver(m) == delivered' = [delivered EXCEPT ![m] = @ + 1]

(* QoS 0 and 1: to the subscribers at once.                                *)
GwPublish ==
  /\ GwReceive("PUBLISH")
  /\ LET d == Head(toGw) IN
       /\ Qos[d.msg] < 2
       /\ Deliver(d.msg)
       /\ IF Qos[d.msg] = 1 THEN ToPico([type |-> "PUBACK", id |-> d.id])
                            ELSE UNCHANGED <<toPico, lost>>
  /\ UNCHANGED <<stored, refused>>

(* QoS 2: kept until PUBREL; a copy that comes before it is only answered. *)
GwPublish2 ==
  /\ GwReceive("PUBLISH")
  /\ LET d == Head(toGw) IN
       /\ Qos[d.msg] = 2
       /\ stored' = IF \E x \in stored : x.id = d.id THEN stored
                    ELSE stored \cup {[id |-> d.id, msg |-> d.msg]}
       /\ ToPico([type |-> "PUBREC", id |-> d.id])
  /\ UNCHANGED <<delivered, refused>>

GwPubrel ==
  /\ GwReceive("PUBREL")
  /\ LET id == Head(toGw).id IN
       /\ \/ \E x \in stored : x.id = id /\ Deliver(x.msg) /\ stored' = stored \ {x}
          \/ /\ \A x \in stored : x.id # id
             /\ UNCHANGED <<stored, delivered>>
       /\ ToPico([type |-> "PUBCOMP", id |-> id])
  /\ UNCHANGED refused

(* A PUBLISH for a topic id that the gateway does not know is refused.     *)
GwRefuse ==
  /\ MayRefuse
  /\ GwReceive("PUBLISH")
  /\ LET d == Head(toGw) IN
       /\ d.msg \in Kept
       /\ refused' = refused \cup {d.msg}
       /\ ToPico([type |-> "PUBACK", id |-> d.id])
  /\ UNCHANGED <<stored, delivered>>

GatewayStep ==
  /\ GwPublish \/ GwPublish2 \/ GwPubrel \/ GwRefuse
  /\ UNCHANGED <<tableVars, taskVars, published, gaveUp>>

Next == (\E m \in Msg : Publish(m)) \/ TaskStep \/ Callback \/ GatewayStep

Spec == Init /\ [][Next]_vars

(* The task runs and checks its table, and what is under way arrives.      *)
(* Nothing makes the application publish.                                  *)
Fairness == WF_vars(TaskStep) /\ WF_vars(Callback) /\ WF_vars(GatewayStep)

FairSpec == Spec /\ Fairness

------------------------------------------------------------------------------
(***************************************************************************)
(* Properties.                                                             *)
(***************************************************************************)

Pending == {slots[s].msg : s \in Used}

(* Type correctness: in particular ids stay within 1 .. 0xFFFF - 1 however *)
(* often they wrap, and retry_count never exceeds QOS_MAX_RETRIES.         *)
TypeOK ==
  /\ nextId \in 0 .. MaxId
  /\ slots \in [Slot -> Entry \cup {None}] /\ recent \in SUBSET Slot
  /\ pc \in {"idle", "store", "scan", "resend"}
  /\ cur \in [msg : Kept, id : Id] \cup {None}
  /\ due \in SUBSET Slot /\ retryList \in Seq(Copy)
  /\ toGw \in Seq(Upward) /\ toPico \in Seq(Downward)
  /\ stored \in SUBSET [id : Id, msg : Kept]
  /\ published \in SUBSET Msg /\ gaveUp \in SUBSET Msg /\ refused \in SUBSET Msg
  /\ delivered \in [Msg -> Nat] /\ lost \in 0 .. MaxRetries + 1

(* What the QoS engine promises: see QosDelivery.  In particular a tracked *)
(* message is never forgotten because of another message's acknowledgement *)
(* or of one that came at a bad moment.                                    *)
Delivery == INSTANCE QosDelivery WITH Attempts <- MaxRetries + 1, pending <- Pending
ImplementsDelivery == Delivery!Spec

(* Every slot is freed in the end (config.h:50 QOS_MAX_RETRIES), whatever  *)
(* the network does: the table does not fill up for good.                  *)
SlotsAreFreed == \A s \in Slot : []<>(slots[s] = None)

(* A tracked message survives as many losses as there are retries, be they *)
(* of the message itself or of any part of the QoS 2 handshake.            *)
SurvivesLosses ==
  \A m \in Msg : m \in Pending ~> delivered[m] > 0 \/ m \in refused \/ lost > MaxRetries

(***************************************************************************)
(* What the documentation says and the code does not do.                   *)
(***************************************************************************)

(* mqtt-sn-udp.h:47 "QoS 2: Exactly once (assured delivery)": not twice.   *)
ExactlyOnce == \A m \in Msg : Qos[m] = 2 => delivered[m] <= 1
==============================================================================

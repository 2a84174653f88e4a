---------------------------- MODULE ArduinoClient -----------------------------
(***************************************************************************)
(* The Arduino application (mqtt-sn-arduino-client.ino) on its MQTT-SN     *)
(* layer (mqtt-sn-udp.cpp): connecting, registering four topics one at a   *)
(* time, publishing in phases, one pending QoS 1 message, and one slot for *)
(* each kind of acknowledgement it owes.                                   *)
(*                                                                         *)
(* A datagram that register_topic or subscribe_topic_name receives while   *)
(* it waits is one received right after it.  A timer fires when nothing    *)
(* else can happen (Quiet), or as the fault "late".  last_attempt_ms is    *)
(* always 0 where mqtt_sn_process_topic_registrations reads it: the loop   *)
(* calls it only when no answer is awaited.  Messages are numbered for the *)
(* properties: count goes on after a reboot.                               *)
(***************************************************************************)
EXTENDS SessionNet

CONSTANTS
  Reps,        \* QoS 0 messages per round (3)
  MaxRetries,  \* QOS_MAX_RETRIES
  MaxMid       \* message ids wrap after this one (0xFFFE)

ASSUME ArduinoAssumption == Reps \in Nat /\ MaxRetries \in Nat /\ MaxMid \in Nat \ {0}

VARIABLES
  st,       \* g_state
  flag,     \* g_ping_ack_received
  table,    \* custom_topics: [Topic -> id, mid], or None when wiped
  nextMid,  \* s_next_msg_id
  pend,     \* g_pending_msgs: the message awaiting PUBACK, or None
  owed,     \* mids of the PUBACK, PUBREC and PUBCOMP to send, 0 if none
  phase,    \* seq_phase: QoS 0 messages sent in this round, up to Reps + 1
  count,    \* messages published since the start
  handled,  \* history: commands shown
  acked     \* history: messages acknowledged as accepted

ardVars == <<st, flag, table, nextMid, pend, owed, phase, count, handled, acked>>

Order == <<Data1, Data2, Cmd1, Cmd2>>  \* add_all_topics

Unregistered == [t \in Topic |-> [id |-> 0, mid |-> 0]]

NothingOwed == [puback |-> 0, pubrec |-> 0, pubcomp |-> 0]

ArdPowerOn ==
  /\ st' = "INIT" /\ flag' = FALSE /\ table' = Unregistered
  /\ nextMid' = 1 /\ pend' = None /\ owed' = NothingOwed
  /\ phase' = 0

ArdInit ==
  /\ st = "INIT" /\ flag = FALSE /\ table = Unregistered
  /\ nextMid = 1 /\ pend = None /\ owed = NothingOwed
  /\ phase = 0 /\ count = 0
  /\ handled = {} /\ acked = {}

(* get_next_msg_id.                                                        *)
Following(mid) == IF mid = MaxMid THEN 1 ELSE mid + 1

(* mqtt_sn_get_topic_id.                                                   *)
TopicId(t) == IF table = None THEN 0 ELSE table[t].id

AllRegistered == \A t \in Topic : TopicId(t) > 0

(* add_all_topics: after a wipe every entry is new.                        *)
Refilled(tab) == IF tab = None THEN Unregistered ELSE tab

(* waiting_for_ack.                                                        *)
Waiting == table # None /\ \E t \in Topic : table[t].id = 0 /\ table[t].mid # 0

(* mqtt_sn_process_topic_registrations: the first topic without an id is   *)
(* requested, under its pending message id if it has one.                  *)
FirstMissing(tab) ==
  {i \in DOMAIN Order : /\ tab[Order[i]].id = 0
                        /\ \A j \in 1 .. i - 1 : tab[Order[j]].id # 0}

Process(tab) ==
  IF tab = None \/ FirstMissing(tab) = {}
  THEN table' = tab /\ UNCHANGED <<nextMid, up>>
  ELSE LET t   == Order[CHOOSE i \in FirstMissing(tab) : TRUE]
           new == tab[t].mid = 0
           mid == IF new THEN nextMid ELSE tab[t].mid
       IN  /\ table' = [tab EXCEPT ![t].mid = mid]
           /\ nextMid' = IF new THEN Following(nextMid) ELSE nextMid
           /\ up' = Append(up, [type |-> IF t \in Sender THEN "REGISTER" ELSE "SUBSCRIBE",
                                topic |-> t, mid |-> mid])

(* mqtt_sn_invalidate_all_topics: pending_msg_id stays.                    *)
Invalidated(tab) ==
  IF tab = None THEN None ELSE [t \in Topic |-> [id |-> 0, mid |-> tab[t].mid]]

(***************************************************************************)
(* loop(): one action per state and branch.                                *)
(***************************************************************************)
ArdConnect ==
  /\ st = "INIT"
  /\ st' = "CONNECTING" /\ flag' = FALSE
  /\ SendUp([type |-> "CONNECT"])
  /\ UNCHANGED <<down, calm, table, nextMid, pend, owed, phase, count, handled, acked>>

(* STATE_CONNECTING looks at the flag, which a refusal sets as well.       *)
ArdConnacked ==
  /\ st = "CONNECTING" /\ flag
  /\ Process(Refilled(table))
  /\ st' = "REGISTERING"
  /\ UNCHANGED <<down, calm, flag, pend, owed, phase, count, handled, acked>>

ArdConnectTimeout ==
  /\ st = "CONNECTING" /\ ~flag
  /\ st' = "INIT"
  /\ UNCHANGED <<up, down, flag, table, nextMid, pend, owed, phase, count, handled, acked>>

(* Acknowledgements go first, in an order of their own in each state.      *)
FirstOwed(order) ==
  {i \in DOMAIN order : /\ owed[order[i]] # 0
                        /\ \A j \in 1 .. i - 1 : owed[order[j]] = 0}

AckType(k) == CASE k = "puback" -> "PUBACK" [] k = "pubrec" -> "PUBREC"
                [] k = "pubcomp" -> "PUBCOMP"

ArdAcknowledge ==
  /\ st \in {"REGISTERING", "READY"}
  /\ LET order == IF st = "REGISTERING" THEN <<"puback", "pubrec", "pubcomp">>
                  ELSE <<"pubrec", "pubcomp", "puback">>
     IN  \E i \in FirstOwed(order) :
           /\ SendUp([type |-> AckType(order[i]), mid |-> owed[order[i]]])
           /\ owed' = [owed EXCEPT ![order[i]] = 0]
  /\ UNCHANGED <<down, calm, st, flag, table, nextMid, pend, phase, count, handled, acked>>

MayRequest == table # None /\ ~Waiting /\ ~AllRegistered

ArdRegister ==
  /\ st = "REGISTERING" /\ owed = NothingOwed
  /\ MayRequest
  /\ Process(table)
  /\ UNCHANGED <<down, calm, st, flag, pend, owed, phase, count, handled, acked>>

ArdReady ==
  /\ st = "REGISTERING" /\ owed = NothingOwed
  /\ AllRegistered
  /\ st' = "READY"
  /\ UNCHANGED <<netVars, flag, table, nextMid, pend, owed, phase, count, handled, acked>>

ArdRegisterTimeoutStays ==     \* variant: it does not connect again
  /\ st = "REGISTERING" /\ owed = NothingOwed /\ ~AllRegistered
  /\ table' = Invalidated(table)
  /\ UNCHANGED <<up, down, st, flag, nextMid, pend, owed, phase, count, handled, acked>>

ArdRegisterTimeout ==
  /\ st = "REGISTERING" /\ owed = NothingOwed /\ ~AllRegistered
  /\ st' = "INIT"
  /\ table' = Invalidated(table)
  /\ UNCHANGED <<up, down, flag, nextMid, pend, owed, phase, count, handled, acked>>

(* The phases of STATE_READY: Reps messages of QoS 0 on TOPIC_DATA_2, then *)
(* one of QoS 1 on TOPIC_DATA_1, then a pause.  The topic id is 0 if the   *)
(* table has lost the topic.                                               *)
MayPublish == st = "READY" /\ owed = NothingOwed /\ count < scenario.messages

ArdPublishQos0 ==
  /\ MayPublish /\ phase < Reps
  /\ phase' = phase + 1 /\ count' = count + 1
  /\ SendUp([type |-> "PUBLISH", tid |-> TopicId(Data2), qos |-> 0, mid |-> 0,
           msg |-> [topic |-> Data2, n |-> count + 1]])
  /\ UNCHANGED <<down, calm, st, flag, table, nextMid, pend, owed, handled, acked>>

(* mqtt_sn_publish_topic_id_auto: the message is kept if the slot is free. *)
ArdPublishQos1 ==
  /\ MayPublish /\ phase = Reps
  /\ phase' = phase + 1 /\ count' = count + 1
  /\ nextMid' = Following(nextMid)
  /\ LET p == [type |-> "PUBLISH", tid |-> TopicId(Data1), qos |-> 1, mid |-> nextMid,
               msg |-> [topic |-> Data1, n |-> count + 1]]
     IN  /\ SendUp(p)
         /\ pend' = IF pend = None THEN [packet |-> p, retries |-> 0] ELSE pend
  /\ UNCHANGED <<down, calm, st, flag, table, owed, handled, acked>>

ArdNextRound ==
  /\ st = "READY" /\ owed = NothingOwed
  /\ phase = Reps + 1
  /\ phase' = 0
  /\ UNCHANGED <<netVars, st, flag, table, nextMid, pend, owed, count, handled, acked>>

ArdRetryOnceMore ==            \* variant: one retry too many
  /\ st = "READY" /\ owed = NothingOwed /\ pend # None
  /\ IF pend.retries > MaxRetries
     THEN pend' = None /\ UNCHANGED up
     ELSE pend' = [pend EXCEPT !.retries = @ + 1] /\ SendUp(pend.packet)
  /\ UNCHANGED <<down, st, flag, table, nextMid, owed, phase, count, handled, acked>>

(* check_qos_timeouts.                                                     *)
ArdRetry ==
  /\ st = "READY" /\ owed = NothingOwed /\ pend # None
  /\ IF pend.retries >= MaxRetries
     THEN pend' = None /\ UNCHANGED up
     ELSE pend' = [pend EXCEPT !.retries = @ + 1] /\ SendUp(pend.packet)
  /\ UNCHANGED <<down, st, flag, table, nextMid, owed, phase, count, handled, acked>>

(***************************************************************************)
(* udp_recv_callback_arduino: one action per handler.                      *)
(***************************************************************************)
Receiving(type) ==
  /\ down # <<>> /\ Head(down).type = type
  /\ down' = Tail(down)
  /\ UNCHANGED <<up, calm, st, nextMid, phase, count>>

Arriving == Head(down)

(* handle_connack: an accepted CONNECT wipes the table, in every state.    *)
ArdReceiveConnack ==
  /\ Receiving("CONNACK")
  /\ flag' = TRUE
  /\ table' = IF Arriving.ok THEN None ELSE table
  /\ UNCHANGED <<pend, owed, handled, acked>>

MatchesAnyOfRole(role) ==      \* variant: the message id is not compared
  IF table = None THEN {}
  ELSE {t \in role : table[t].id = 0 /\ table[t].mid # 0}

(* handle_regack and handle_suback look for the message id among topics of *)
(* their role.                                                             *)
Matches(role) ==
  IF table = None THEN {}
  ELSE {t \in role : table[t].id = 0 /\ table[t].mid = Arriving.mid}

ArdReceiveId(type, role) ==
  /\ Receiving(type)
  /\ table' = IF Matches(role) = {} THEN table
              ELSE [table EXCEPT ![CHOOSE t \in Matches(role) : TRUE] =
                      [id |-> Arriving.tid, mid |-> 0]]
  /\ UNCHANGED <<flag, pend, owed, handled, acked>>

(* handle_puback: the return code is not read.                             *)
ArdReceivePuback ==
  /\ Receiving("PUBACK")
  /\ pend' = IF pend # None /\ pend.packet.mid = Arriving.mid THEN None ELSE pend
  /\ acked' = IF pend # None /\ pend.packet.mid = Arriving.mid /\ Arriving.ok
              THEN acked \cup {pend.packet.msg} ELSE acked
  /\ UNCHANGED <<flag, table, owed, handled>>

ArdReceiveKnownCommand ==      \* variant: shown only under a known id
  /\ Receiving("PUBLISH")
  /\ handled' = IF \E t \in Command : TopicId(t) = Arriving.tid
                THEN handled \cup {Arriving.cmd} ELSE handled
  /\ owed' = IF Arriving.qos = 1 THEN [owed EXCEPT !.puback = Arriving.mid]
             ELSE [owed EXCEPT !.pubrec = Arriving.mid, !.pubcomp = 0]
  /\ UNCHANGED <<flag, table, pend, acked>>

ArdReceiveCommandOneSlot ==    \* variant: one slot for all kinds
  /\ Receiving("PUBLISH")
  /\ handled' = handled \cup {Arriving.cmd}
  /\ owed' = IF Arriving.qos = 1 THEN [NothingOwed EXCEPT !.puback = Arriving.mid]
             ELSE [NothingOwed EXCEPT !.pubrec = Arriving.mid]
  /\ UNCHANGED <<flag, table, pend, acked>>

(* handle_publish: the acknowledgement replaces one of its kind still owed. *)
ArdReceiveCommand ==
  /\ Receiving("PUBLISH")
  /\ handled' = handled \cup {Arriving.cmd}
  /\ owed' = IF Arriving.qos = 1 THEN [owed EXCEPT !.puback = Arriving.mid]
             ELSE [owed EXCEPT !.pubrec = Arriving.mid, !.pubcomp = 0]
  /\ UNCHANGED <<flag, table, pend, acked>>

(* handle_pubrel.                                                          *)
ArdReceivePubrel ==
  /\ Receiving("PUBREL")
  /\ owed' = [owed EXCEPT !.pubcomp = Arriving.mid]
  /\ UNCHANGED <<flag, table, pend, handled, acked>>

(* A DISCONNECT is not handled.                                            *)
ArdReceiveOther ==
  /\ Receiving("DISCONNECT")
  /\ UNCHANGED <<flag, table, pend, owed, handled, acked>>

ArdReceive ==
  \/ ArdReceiveConnack \/ ArdReceivePuback \/ ArdReceiveCommand
  \/ ArdReceivePubrel \/ ArdReceiveOther
  \/ ArdReceiveId("REGACK", Sender) \/ ArdReceiveId("SUBACK", Command)

(* setup() after a power cycle.                                            *)
ArdReboot ==
  /\ Fault("reboot")
  /\ ArdPowerOn
  /\ UNCHANGED <<up, down, count, handled, acked>>

ArdLoop ==
  \/ ArdConnect \/ ArdConnacked \/ ArdAcknowledge
  \/ ArdRegister \/ ArdReady \/ ArdNextRound

(* These take place when a timer has run out: see ClientSession.           *)
ArdTimeout == ArdConnectTimeout \/ ArdRegisterTimeout \/ ArdRetry

ArdPublish == ArdPublishQos0 \/ ArdPublishQos1
==============================================================================

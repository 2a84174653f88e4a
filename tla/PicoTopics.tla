------------------------------ MODULE PicoTopics ------------------------------
(***************************************************************************)
(* Topic registration and the application task of the Pico client          *)
(* (mqtt-sn-udp.c, mqtt-client.c, pico-client-IoT.c): one CONNECT, fixed   *)
(* waits that do not look at the answer, both REGISTERs together, then     *)
(* both SUBSCRIBEs, then publishing.  An id that arrives goes to the first *)
(* topic of its role that was requested less than 2 s ago (fresh) and has  *)
(* none yet: message ids are not compared.                                 *)
(*                                                                         *)
(* The receive callback interrupts the task anywhere; what it sends is     *)
(* sent at once.  The tracking of QoS 1 and 2 messages is QosPublisher's:  *)
(* here the Pico publishes with QoS 0.                                     *)
(***************************************************************************)
EXTENDS SessionNet

VARIABLES
  task,       \* where vMQTTTask is: "boot", "wait", "register", "run"
  topics,     \* custom_topics: sequence of topic, id and fresh
  picoMid,    \* s_next_msg_id
  picoCount,  \* messages published since the start
  picoGot     \* history: commands executed

picoVars == <<task, topics, picoMid, picoCount, picoGot>>

PicoInit ==
  /\ task = "boot" /\ topics = <<>> /\ picoMid = 1
  /\ picoCount = 0 /\ picoGot = {}

Named(t) == {i \in DOMAIN topics : topics[i].topic = t}

(* mqtt_sn_get_topic_id.                                                   *)
PicoTopicId(t) ==
  IF Named(t) = {} THEN 0 ELSE topics[CHOOSE i \in Named(t) : TRUE].id

Entry(t) == [topic |-> t, id |-> 0, fresh |-> FALSE]

(* mqtt_sn_process_topic_registrations on table tab: every topic without   *)
(* an id is requested, under a new message id, if the last attempt is long *)
(* enough ago.                                                             *)
Due(tab) == {i \in DOMAIN tab : tab[i].id = 0 /\ ~tab[i].fresh}

Request(e, mid) ==
  [type |-> IF e.topic \in Sender THEN "REGISTER" ELSE "SUBSCRIBE",
   topic |-> e.topic, mid |-> mid]

ProcessAll(tab) ==
  LET n == Cardinality(Due(tab)) IN
    /\ \E at \in [1 .. n -> Due(tab)] :  \* the due entries in their order
         /\ \A j, k \in 1 .. n : j < k => at[j] < at[k]
         /\ up' = up \o [k \in 1 .. n |-> Request(tab[at[k]], picoMid + k - 1)]
    /\ picoMid' = picoMid + n
    /\ topics' = [i \in DOMAIN tab |-> IF tab[i].id = 0
                                       THEN [tab[i] EXCEPT !.fresh = TRUE] ELSE tab[i]]

(***************************************************************************)
(* vMQTTTask.                                                              *)
(***************************************************************************)
PicoConnect ==
  /\ task = "boot"
  /\ task' = "wait"
  /\ SendUp([type |-> "CONNECT"])
  /\ UNCHANGED <<down, calm, topics, picoMid, picoCount, picoGot>>

(* After a fixed wait, whether or not a CONNACK has come.                  *)
PicoRegister ==
  /\ task = "wait"
  /\ task' = "register"
  /\ ProcessAll(topics \o <<Entry(Data1), Entry(Data2)>>)
  /\ UNCHANGED <<down, picoCount, picoGot>>

(* Subscribing asks again for a topic whose last attempt is 5 s old.       *)
Subscribe ==
  /\ task' = "run"
  /\ ProcessAll(topics \o <<Entry(Cmd1), Entry(Cmd2)>>)
  /\ UNCHANGED <<down, picoCount, picoGot>>

PicoRegistered ==
  /\ task = "register"
  /\ \A t \in Sender : PicoTopicId(t) > 0
  /\ Subscribe
  /\ UNCHANGED calm

(* The wait of 5 s ends without both ids.                                  *)
PicoRegisterTimeout ==
  /\ task = "register"
  /\ \E t \in Sender : PicoTopicId(t) = 0
  /\ \A i \in DOMAIN topics : ~topics[i].fresh
  /\ Subscribe

(* MQTT_EVENT_PUBLISH: only with a topic id.                               *)
PicoPublish(t) ==
  /\ task = "run"
  /\ picoCount < scenario.messages
  /\ PicoTopicId(t) > 0
  /\ picoCount' = picoCount + 1
  /\ SendUp([type |-> "PUBLISH", tid |-> PicoTopicId(t), qos |-> 0, mid |-> 0,
             msg |-> [topic |-> t, n |-> picoCount + 1]])
  /\ UNCHANGED <<down, calm, task, topics, picoMid, picoGot>>

(* 2 s after an attempt its answer is no longer matched.                   *)
PicoAge ==
  /\ \E i \in DOMAIN topics : topics[i].fresh
  /\ topics' = [i \in DOMAIN topics |-> [topics[i] EXCEPT !.fresh = FALSE]]
  /\ UNCHANGED <<up, down, task, picoMid, picoCount, picoGot>>

(***************************************************************************)
(* udp_recv_callback.                                                      *)
(***************************************************************************)
PicoReceiving(type) ==
  /\ down # <<>> /\ Head(down).type = type
  /\ down' = Tail(down)
  /\ UNCHANGED <<calm, task, picoMid, picoCount>>

(* handle_connack.                                                         *)
PicoReceiveConnack ==
  /\ PicoReceiving("CONNACK")
  /\ topics' = IF Head(down).ok THEN <<>> ELSE topics
  /\ UNCHANGED <<up, picoGot>>

LastFresh(role) ==             \* variant: the last topic instead of the first
  {i \in DOMAIN topics :
     /\ topics[i].topic \in role /\ topics[i].id = 0 /\ topics[i].fresh
     /\ \A j \in i + 1 .. Len(topics) :
          topics[j].topic \in role => topics[j].id # 0 \/ ~topics[j].fresh}

(* handle_regack and handle_suback.                                        *)
FirstFresh(role) ==
  {i \in DOMAIN topics :
     /\ topics[i].topic \in role /\ topics[i].id = 0 /\ topics[i].fresh
     /\ \A j \in 1 .. i - 1 :
          topics[j].topic \in role => topics[j].id # 0 \/ ~topics[j].fresh}

PicoReceiveId(type, role) ==
  /\ PicoReceiving(type)
  /\ topics' = [i \in DOMAIN topics |->
       IF i \in FirstFresh(role)
       THEN [topics[i] EXCEPT !.id = Head(down).tid, !.fresh = FALSE] ELSE topics[i]]
  /\ UNCHANGED <<up, picoGot>>

(* handle_publish_received executes the command and acknowledges it.       *)
PicoReceiveCommand ==
  /\ PicoReceiving("PUBLISH")
  /\ picoGot' = picoGot \cup {Head(down).cmd}
  /\ SendUp([type |-> IF Head(down).qos = 1 THEN "PUBACK" ELSE "PUBREC",
             mid |-> Head(down).mid])
  /\ UNCHANGED topics

PicoReceivePubrel ==
  /\ PicoReceiving("PUBREL")
  /\ SendUp([type |-> "PUBCOMP", mid |-> Head(down).mid])
  /\ UNCHANGED <<topics, picoGot>>

(* A DISCONNECT has no handler.                                            *)
PicoReceiveOther ==
  /\ PicoReceiving("DISCONNECT")
  /\ UNCHANGED <<up, topics, picoGot>>

PicoReceive ==
  \/ PicoReceiveConnack \/ PicoReceiveCommand \/ PicoReceivePubrel
  \/ PicoReceiveOther
  \/ PicoReceiveId("REGACK", Sender) \/ PicoReceiveId("SUBACK", Command)

PicoReboot ==
  /\ Fault("reboot")
  /\ task' = "boot" /\ topics' = <<>> /\ picoMid' = 1
  /\ UNCHANGED <<up, down, picoCount, picoGot>>

PicoTaskInHaste ==             \* variant: no wait for the CONNACK
  PicoConnect \/ (PicoRegister /\ UNCHANGED calm) \/ PicoRegistered

PicoTask == PicoConnect \/ PicoRegistered

(* These take place when a timer has run out: see ClientSession.           *)
PicoTimeout == PicoRegister \/ PicoRegisterTimeout \/ PicoAge
==============================================================================

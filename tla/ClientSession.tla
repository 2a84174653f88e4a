---------------------------- MODULE ClientSession -----------------------------
(***************************************************************************)
(* A whole MQTT-SN session: an Arduino or a Pico client, a faulty network, *)
(* the threads of the Paho gateway, and the broker.                        *)
(***************************************************************************)
EXTENDS PahoGateway, ArduinoClient, PicoTopics

vars == <<netVars, gatewayVars, ardVars, picoVars>>

Init == NetInit /\ GatewayInit /\ ArdInit /\ PicoInit

(* Nothing is under way: whoever still waits for an answer waits in vain.  *)
Quiet == /\ up = <<>> /\ down = <<>> /\ GatewayIdle
         /\ ~(st = "REGISTERING" /\ MayRequest)

(* A timer of the client (2 s to 20 s) runs out: all answers have arrived  *)
(* or been lost by then, unless one is late.                               *)
InTime == Quiet /\ UNCHANGED calm
Early  == ~Quiet /\ Fault("late")

Arduino == scenario.kind = "arduino"
Pico    == scenario.kind = "pico"

(* One thread or loop each.                                                *)
ArduinoLoop    == Arduino /\ ArdLoop /\ UNCHANGED <<gatewayVars, picoVars>>
ArduinoReceive == Arduino /\ ArdReceive /\ UNCHANGED <<gatewayVars, picoVars>>
ArduinoTimer(when) ==
  Arduino /\ ArdTimeout /\ when /\ UNCHANGED <<gatewayVars, picoVars>>
ArduinoPublish == Arduino /\ ArdPublish /\ UNCHANGED <<gatewayVars, picoVars>>
ArduinoReboot  == Arduino /\ ArdReboot /\ UNCHANGED <<gatewayVars, picoVars>>

PicoLoop       == Pico /\ PicoTask /\ UNCHANGED <<gatewayVars, ardVars>>
PicoCallback   == Pico /\ PicoReceive /\ UNCHANGED <<gatewayVars, ardVars>>
PicoTimer(when) ==
  Pico /\ PicoTimeout /\ when /\ UNCHANGED <<gatewayVars, ardVars>>
PicoButton     == /\ Pico /\ \E t \in Sender : PicoPublish(t)
                  /\ UNCHANGED <<gatewayVars, ardVars>>
PicoPowerCycle == Pico /\ PicoReboot /\ UNCHANGED <<gatewayVars, ardVars>>

GatewayStep(A) == A /\ UNCHANGED <<ardVars, picoVars>>

Client ==
  \/ ArduinoLoop \/ ArduinoReceive \/ ArduinoTimer(InTime) \/ ArduinoPublish
  \/ PicoLoop \/ PicoCallback \/ PicoTimer(InTime) \/ PicoButton

Gateway ==
  \/ GatewayStep(ClientRecvTask)
  \/ GatewayStep(PacketHandleTask)
  \/ GatewayStep(BrokerSendTask) \/ GatewayStep(ConnectSended)
  \/ GatewayStep(BrokerRecvTask) \/ GatewayStep(BrokerRecvClose)

Environment ==
  \/ ArduinoTimer(Early) \/ ArduinoReboot
  \/ PicoTimer(Early) \/ PicoPowerCycle
  \/ \E t \in Command : GatewayStep(CommandArrives(t))
  \/ GatewayStep(BrokerDrops)
  \/ GatewayStep(GatewayRestart)
  \/ NetFault /\ UNCHANGED <<gatewayVars, ardVars, picoVars>>

Next == Client \/ Gateway \/ Environment

Spec == Init /\ [][Next]_vars

(* The clients' loops run and their timers run out, the datagrams in the   *)
(* air arrive, and the gateway's threads are scheduled.  Nothing is owed   *)
(* by faults, by those who send commands, or by the publishing.            *)
Fairness ==
  /\ WF_vars(ArduinoLoop) /\ WF_vars(ArduinoReceive) /\ WF_vars(ArduinoTimer(InTime))
  /\ WF_vars(PicoLoop) /\ WF_vars(PicoCallback) /\ WF_vars(PicoTimer(InTime))
  /\ WF_vars(GatewayStep(ClientRecvTask))
  /\ WF_vars(GatewayStep(PacketHandleTask))
  /\ WF_vars(GatewayStep(BrokerSendTask)) /\ WF_vars(GatewayStep(ConnectSended))
  /\ WF_vars(GatewayStep(BrokerRecvTask)) /\ WF_vars(GatewayStep(BrokerRecvClose))

FairSpec == Spec /\ Fairness

------------------------------------------------------------------------------
(***************************************************************************)
(* Properties.                                                             *)
(***************************************************************************)
U16 == {n \in Nat : n < 65536}

TypeOK ==
  /\ scenario \in Scenarios
  /\ left \in 0 .. scenario.count /\ seen \subseteq Faults
  /\ client # None =>
       /\ client.status \in {"Disconnected", "Connecting", "Active"}
       /\ client.ids \in [Topic -> U16]
       /\ client.lastId \in U16
  /\ sending \in BOOLEAN /\ closing \in BOOLEAN
  /\ link \in {"none", "open", "closed"}
  /\ broker.subs \subseteq Command
  /\ link # "open" => broker = NoSession
  /\ st \in {"INIT", "CONNECTING", "REGISTERING", "READY"}
  /\ table # None => table \in [Topic -> [id : U16, mid : 0 .. MaxMid]]
  /\ nextMid \in 1 .. MaxMid
  /\ phase \in 0 .. Reps + 1
  /\ pend # None => pend.retries \in 0 .. MaxRetries
  /\ task \in {"boot", "wait", "register", "run"}

(* The id that the client has stored for topic t, 0 if none.               *)
StoredId(t) == IF Arduino THEN TopicId(t) ELSE PicoTopicId(t)

(* No id that the client has stored is another topic's at the gateway.  It *)
(* is what "Topic ID, or 0 if not found/registered" promises of            *)
(* mqtt_sn_get_topic_id.                                                   *)
TopicIdIsTheTopics ==
  client # None =>
    \A t, u \in Topic : StoredId(t) # 0 /\ client.ids[u] = StoredId(t) => t = u

OnlySeen(faults) == seen \subseteq faults
NeverSeen(faults) == seen \cap faults = {}

(* The faults under which the client must get its topics right.  Answers   *)
(* to the Pico carry no weight beyond their time, so it needs a network    *)
(* without faults.  A restarted gateway numbers topics from 1 again, and a *)
(* restarted Arduino its requests: an answer to a request of before, if it *)
(* comes out of order, has the number of another topic's request.          *)
OutOfOrder == {"repeated", "delayed", "late"}

IdsAreSafe ==
  IF Arduino
  THEN NeverSeen({"restart"}) /\ (NeverSeen({"reboot"}) \/ NeverSeen(OutOfOrder))
  ELSE NeverSeen({"lost"} \cup OutOfOrder)

(* The client never uses another topic's id, whatever is lost, repeated or *)
(* answered late: the Arduino matches message ids (handle_regack), a       *)
(* CONNACK wipes its table (handle_connack), and the gateway does not use  *)
(* an id again when a CONNECT erases the topics (Topics::eraseNormal).     *)
IdNamesItsTopic == IdsAreSafe => TopicIdIsTheTopics

(* Nor does a message sent under an id, however late, reach the broker     *)
(* under another topic: a session's ids die with it.                       *)
PublishedUnderItsTopic ==
  IdsAreSafe => \A p \in published : p.topic = p.msg.topic

(* The faults under which the gateway has the session that the client saw  *)
(* last.  A datagram repeated to the end of its queue and lost at the head *)
(* is as good as delayed.                                                  *)
SessionIsOwn ==
  /\ OnlySeen({"lost", "repeated", "unreachable", "refused"})
  /\ ~({"lost", "repeated"} \subseteq seen)

(* A READY Arduino is registered: the gateway has the ids it publishes     *)
(* under and the broker its subscriptions, though nothing in STATE_READY   *)
(* ever asks.                                                              *)
ReadyMeansRegistered ==
  Arduino /\ st = "READY" /\ SessionIsOwn =>
    /\ client # None /\ client.status = "Active"
    /\ \A t \in Topic : StoredId(t) # 0 /\ StoredId(t) = client.ids[t]
    /\ broker.subs = Command

(* A QoS 1 message that the Arduino sees acknowledged as accepted is at    *)
(* the broker: ids restart with the client, but an old PUBACK is then      *)
(* overtaken only by a delay.                                              *)
AckedMeansPublished ==
  {"reboot", "delayed"} \subseteq seen \/ \A m \in acked : \E p \in published : p.msg = m

(* A command that the broker counts as received has been shown or          *)
(* executed: neither client nor gateway acknowledges one for another.      *)
CommandAckedMeansHandled ==
  NeverSeen({"repeated", "delayed", "late", "reboot"}) =>
    received \subseteq handled \cup picoGot

(* Whatever happens, and though the gateway tells it of no failure, the    *)
(* Arduino gets to STATE_READY when the faults are over: each of its       *)
(* timeouts leads back to CONNECT.                                         *)
ReachesReady == Arduino => []<>(st = "READY")

(* Without faults, one command of each kind is acknowledged to the end,    *)
(* also when it arrives between the SUBACKs.  (A second one of a kind may  *)
(* take the only slot for its acknowledgement.)                            *)
CommandsSettle ==
  [](broker.inflight # {} => <>(broker.inflight = {} \/ seen # {}))

(* Without faults the Pico's fixed waits suffice: it ends with four ids.   *)
PicoConnects ==
  Pico => <>(seen # {} \/ (task = "run" /\ \A t \in Topic : PicoTopicId(t) # 0))
==============================================================================

----------------------------- MODULE PahoGateway ------------------------------
(***************************************************************************)
(* The Paho MQTT-SN gateway in transparent mode, for one client that asks  *)
(* for clean sessions and never sleeps: ClientRecvTask, PacketHandleTask,  *)
(* BrokerSendTask and BrokerRecvTask, the event queues between them, and   *)
(* the client's status, topics and maps of awaited answers, which all four *)
(* threads share.  ClientSendTask only copies its queue to the network, so *)
(* that queue and the network are one (down).                              *)
(*                                                                         *)
(* External: Mosquitto and its TCP connection.  The broker handles what is *)
(* sent to it at once; its answers wait in fromBroker.                     *)
(***************************************************************************)
EXTENDS SessionNet

CONSTANT MaxInflight  \* MAX_INFLIGHTMESSAGES

(* The values of a Client object: its status, its topic ids, the last id    *)
(* given, and the maps of awaited answers.                                 *)
ClientObject ==
  [status : {"Disconnected", "Connecting", "Active"}, ids : [Topic -> Nat], lastId : Nat,
   waitedPub : SUBSET [mid : Nat, tid : Nat], waitedSub : SUBSET [mid : Nat, tid : Nat]]

ASSUME PahoAssumption == MaxInflight \in Nat /\ None \notin ClientObject

EOF == [type |-> "EOF"]

VARIABLES
  client,      \* the Client object at the sender's address, or None
  packetQ,     \* PacketEventQue: events for PacketHandleTask
  brokerQ,     \* BrokerSendQue: events for BrokerSendTask
  sending,     \* BrokerSendTask is between packet->send and connectSended
  closing,     \* BrokerRecvTask has read 0 bytes and is about to close
  link,        \* the TCP connection: "none", "open", or "closed" by the broker
  fromBroker,  \* what the broker has sent over it
  broker,      \* the broker's session of this client
  commands,    \* [Command -> commands that others may still publish]
  published,   \* history: what the broker has taken, with its topic
  received     \* history: commands the broker was told have arrived

brokerVars == <<link, fromBroker, broker, commands, published, received>>
pahoVars   == <<client, packetQ, brokerQ, sending, closing>>
gatewayVars == <<pahoVars, brokerVars>>

(***************************************************************************)
(* The Client object.                                                      *)
(***************************************************************************)
NoIds == [t \in Topic |-> 0]

NewClient == [status |-> "Disconnected", ids |-> NoIds, lastId |-> 0,
              waitedPub |-> {}, waitedSub |-> {}]

NoSession == [session |-> FALSE, subs |-> {}, inflight |-> {}, lastMid |-> 0]

GatewayInit ==
  /\ client = None
  /\ packetQ = <<>> /\ brokerQ = <<>>
  /\ sending = FALSE /\ closing = FALSE
  /\ link = "none" /\ fromBroker = <<>>
  /\ broker = NoSession
  /\ commands = scenario.commands
  /\ published = {} /\ received = {}

(* Topics::getNextTopicId: 16 bits, without 0xffff; ids are not reused     *)
(* when eraseNormal clears the list.                                       *)
NextTopicId(id) == IF id + 1 = 65535 THEN 1 ELSE id + 1

(* Topics::add.                                                            *)
AddTopic(c, t) ==
  IF c.ids[t] # 0 THEN c
  ELSE [c EXCEPT !.lastId = NextTopicId(@), !.ids[t] = NextTopicId(c.lastId)]

(* Topics::getTopicById: the topic called tid, or None.                    *)
TopicOf(c, tid) ==
  IF \E t \in Topic : c.ids[t] = tid /\ tid # 0
  THEN CHOOSE t \in Topic : c.ids[t] = tid
  ELSE None

(* TopicIdMap::add: nothing is added to a full map.                        *)
Await(map, mid, tid) ==
  IF Cardinality(map) > 2 * MaxInflight \/ tid = 0 THEN map
  ELSE {e \in map : e.mid # mid} \cup {[mid |-> mid, tid |-> tid]}

(* TopicIdMap::getElement and erase.                                       *)
Awaited(map, mid) == {e \in map : e.mid = mid}

(***************************************************************************)
(* ClientRecvTask.                                                         *)
(***************************************************************************)

(* A datagram from an unknown address is discarded unless it is a CONNECT, *)
(* which creates the Client; a disconnected client is told so.             *)
ClientRecvTask ==
  /\ up # <<>>
  /\ up' = Tail(up)
  /\ LET p == Head(up) IN
     \/ /\ client = None /\ p.type # "CONNECT"
        /\ UNCHANGED <<client, packetQ, down>>
     \/ /\ client # None /\ p.type # "CONNECT"
        /\ client.status = "Disconnected"
        /\ down' = Append(down, [type |-> "DISCONNECT"])
        /\ UNCHANGED <<client, packetQ>>
     \/ /\ p.type # "CONNECT" => client # None /\ client.status # "Disconnected"
        /\ client' = IF client = None THEN NewClient ELSE client
        /\ packetQ' = Append(packetQ, [from |-> "client", packet |-> p])
        /\ UNCHANGED down
  /\ UNCHANGED <<calm, brokerQ, sending, closing, brokerVars>>

(***************************************************************************)
(* PacketHandleTask: one action per packet handler.                        *)
(***************************************************************************)

(* The next event is a packet of this type from the client or the broker.  *)
Handling(from, type) ==
  /\ packetQ # <<>>
  /\ Head(packetQ).from = from /\ Head(packetQ).packet.type = type
  /\ packetQ' = Tail(packetQ)
  /\ UNCHANGED <<up, calm, sending, closing, brokerVars>>

Packet == Head(packetQ).packet

Answer(c, toClient, toBroker) ==
  /\ client' = c
  /\ down' = down \o toClient
  /\ brokerQ' = brokerQ \o toBroker

HandleConnectFromOne ==        \* variant: ids are used again
  /\ Handling("client", "CONNECT")
  /\ Answer(NewClient, <<>>, <<[type |-> "CONNECT"]>>)

(* MQTTSNConnectionHandler::handleConnect with the clean session flag.     *)
HandleConnect ==
  /\ Handling("client", "CONNECT")
  /\ Answer([NewClient EXCEPT !.lastId = client.lastId],
            <<>>, <<[type |-> "CONNECT"]>>)

(* MQTTSNPublishHandler::handleRegister: only an active client is answered. *)
HandleRegister ==
  /\ Handling("client", "REGISTER")
  /\ IF client.status = "Active"
     THEN LET c == AddTopic(client, Packet.topic) IN
            Answer(c, <<[type |-> "REGACK", tid |-> c.ids[Packet.topic],
                         mid |-> Packet.mid]>>, <<>>)
     ELSE Answer(client, <<>>, <<>>)

(* MQTTSNSubscribeHandler::handleSubscribe, which does not ask the status. *)
HandleSubscribe ==
  /\ Handling("client", "SUBSCRIBE")
  /\ LET c == AddTopic(client, Packet.topic) IN
       Answer([c EXCEPT !.waitedSub = Await(@, Packet.mid, c.ids[Packet.topic])],
              <<>>, <<[type |-> "SUBSCRIBE", topic |-> Packet.topic,
                       mid |-> Packet.mid]>>)

HandlePublishAcceptsAny ==     \* variant: a refusal says accepted
  /\ Handling("client", "PUBLISH")
  /\ LET p == Packet
         t == TopicOf(client, p.tid)
     IN  IF t = None /\ p.qos > 0
         THEN Answer(client, <<[type |-> "PUBACK", mid |-> p.mid, ok |-> TRUE]>>, <<>>)
         ELSE Answer(IF p.qos = 0 THEN client
                     ELSE [client EXCEPT !.waitedPub = Await(@, p.mid, p.tid)],
                     <<>>, <<[type |-> "PUBLISH", topic |-> t, qos |-> p.qos,
                              mid |-> p.mid, msg |-> p.msg]>>)

(* MQTTSNPublishHandler::handlePublish.  An unknown topic id is refused if *)
(* the message can be acknowledged, else it is forwarded without a topic.  *)
HandlePublish ==
  /\ Handling("client", "PUBLISH")
  /\ LET p == Packet
         t == TopicOf(client, p.tid)
     IN  IF t = None /\ p.qos > 0
         THEN Answer(client, <<[type |-> "PUBACK", mid |-> p.mid, ok |-> FALSE]>>, <<>>)
         ELSE Answer(IF p.qos = 0 THEN client
                     ELSE [client EXCEPT !.waitedPub = Await(@, p.mid, p.tid)],
                     <<>>, <<[type |-> "PUBLISH", topic |-> t, qos |-> p.qos,
                              mid |-> p.mid, msg |-> p.msg]>>)

(* MQTTSNPublishHandler::handlePuback and handleAck: acknowledgements of   *)
(* commands.                                                               *)
HandleAck(type) ==
  /\ Handling("client", type)
  /\ Answer(client, <<>>, IF client.status = "Active" THEN <<Packet>> ELSE <<>>)

(* MQTTGWConnectionHandler::handleConnack, connackSended.                  *)
HandleConnack ==
  /\ Handling("broker", "CONNACK")
  /\ Answer([client EXCEPT !.status =
               IF Packet.ok THEN "Active" ELSE "Disconnected"],
            <<Packet>>, <<>>)

(* MQTTGWSubscribeHandler::handleSuback.                                   *)
HandleSuback ==
  /\ Handling("broker", "SUBACK")
  /\ LET es == Awaited(client.waitedSub, Packet.mid) IN
       Answer([client EXCEPT !.waitedSub = @ \ es],
              IF es = {} THEN <<>>
              ELSE <<[type |-> "SUBACK", tid |-> (CHOOSE e \in es : TRUE).tid,
                      mid |-> Packet.mid]>>, <<>>)

(* MQTTGWPublishHandler::handlePuback.                                     *)
HandlePuback ==
  /\ Handling("broker", "PUBACK")
  /\ LET es == Awaited(client.waitedPub, Packet.mid) IN
       Answer([client EXCEPT !.waitedPub = @ \ es],
              IF es = {} THEN <<>>
              ELSE <<[type |-> "PUBACK", mid |-> Packet.mid, ok |-> TRUE]>>, <<>>)

(* MQTTGWPublishHandler::handlePublish: a command for a client that is not *)
(* active is dropped; one under an unknown topic is acknowledged (the      *)
(* session is clean) and discarded.                                        *)
HandleCommand ==
  /\ Handling("broker", "PUBLISH")
  /\ LET p == Packet IN
       IF client.status # "Active" THEN Answer(client, <<>>, <<>>)
       ELSE IF client.ids[p.topic] = 0
       THEN Answer(client, <<>>,
                   <<[type |-> IF p.qos = 1 THEN "PUBACK" ELSE "PUBREC",
                      mid |-> p.mid]>>)
       ELSE Answer(client, <<[type |-> "PUBLISH", tid |-> client.ids[p.topic],
                              qos |-> p.qos, mid |-> p.mid, cmd |-> p.cmd]>>, <<>>)

(* MQTTGWPublishHandler::handleAck.                                        *)
HandlePubrel ==
  /\ Handling("broker", "PUBREL")
  /\ Answer(client, IF client.status = "Active" THEN <<Packet>> ELSE <<>>, <<>>)

(* transparentPacketHandler on the DISCONNECT that BrokerSendTask posts    *)
(* when a packet cannot be sent.                                           *)
HandleDisconnect ==
  /\ Handling("broker", "DISCONNECT")
  /\ Answer([client EXCEPT !.status = "Disconnected"], <<>>, <<>>)

PacketHandleTask ==
  \/ HandleConnect \/ HandleRegister \/ HandleSubscribe \/ HandlePublish
  \/ \E type \in {"PUBACK", "PUBREC", "PUBCOMP"} : HandleAck(type)
  \/ HandleConnack \/ HandleSuback \/ HandlePuback
  \/ HandleCommand \/ HandlePubrel \/ HandleDisconnect

(***************************************************************************)
(* External: the broker takes packet p over an open connection.  It closes *)
(* a connection that does not begin with CONNECT, or when a PUBLISH names  *)
(* no topic.                                                               *)
(***************************************************************************)
Broken(p) == p.type = "PUBLISH" /\ p.topic = None

CloseByBroker ==
  /\ link' = "closed"
  /\ broker' = NoSession
  /\ fromBroker' = Append(fromBroker, EOF)
  /\ UNCHANGED <<commands, published, received>>

(* A new connection begins with CONNECT, which the broker may refuse.      *)
TakeConnect(ok) ==
  /\ link' = IF ok THEN "open" ELSE "closed"
  /\ broker' = [NoSession EXCEPT !.session = ok]
  /\ fromBroker' = <<[type |-> "CONNACK", ok |-> ok]>> \o (IF ok THEN <<>> ELSE <<EOF>>)
  /\ UNCHANGED <<commands, published, received>>

(* The broker's answer to any other packet, and its session after it.      *)
Reply(p) ==
  CASE p.type = "SUBSCRIBE" -> <<[type |-> "SUBACK", mid |-> p.mid]>>
    [] p.type = "PUBLISH"   -> IF p.qos = 0 THEN <<>>
                               ELSE <<[type |-> "PUBACK", mid |-> p.mid]>>
    [] p.type = "PUBREC"    -> <<[type |-> "PUBREL", mid |-> p.mid]>>
    [] OTHER                -> <<>>

Settles(e, p) ==
  /\ e.mid = p.mid
  /\ \/ p.type = "PUBACK" /\ e.cmd.topic = Cmd1
     \/ p.type = "PUBCOMP" /\ e.cmd.topic = Cmd2

Arrived(e, p) == e.mid = p.mid /\ p.type \in {"PUBACK", "PUBREC"}

TakePacket(p) ==
  /\ UNCHANGED <<link, commands>>
  /\ fromBroker' = fromBroker \o Reply(p)
  /\ broker' = [broker EXCEPT
       !.subs = IF p.type = "SUBSCRIBE" THEN @ \cup {p.topic} ELSE @,
       !.inflight = {e \in @ : ~Settles(e, p)}]
  /\ published' = IF p.type # "PUBLISH" THEN published
                  ELSE published \cup {[msg |-> p.msg, topic |-> p.topic]}
  /\ received' = received \cup {e.cmd : e \in {f \in broker.inflight : Arrived(f, p)}}

(***************************************************************************)
(* BrokerSendTask.                                                         *)
(***************************************************************************)

(* A CONNECT goes over a new connection, and the old one is closed.  Then  *)
(* Client::connectSended sets the status, unless the thread is preempted   *)
(* before it and CONNACK is handled first.                                 *)
Connecting == [client EXCEPT !.status = "Connecting"]

SendConnect ==
  /\ Head(brokerQ).type = "CONNECT"
  /\ \/ TakeConnect(TRUE) /\ UNCHANGED <<calm, sending>> /\ client' = Connecting
     \/ /\ TakeConnect(FALSE) /\ Fault("refused")
        /\ client' = Connecting /\ UNCHANGED sending
     \/ /\ TakeConnect(TRUE) /\ Fault("preempted")
        /\ sending' = TRUE /\ UNCHANGED client
  /\ UNCHANGED packetQ

(* Any other packet goes over the open connection.  Without one a new one  *)
(* is opened, which the broker closes because it does not begin with       *)
(* CONNECT.                                                                *)
SendPacket ==
  /\ Head(brokerQ).type # "CONNECT"
  /\ \/ /\ link = "open"
        /\ IF Broken(Head(brokerQ)) THEN CloseByBroker ELSE TakePacket(Head(brokerQ))
        /\ UNCHANGED packetQ
     \/ /\ link = "none"
        /\ CloseByBroker
        /\ UNCHANGED packetQ
     \/ /\ link = "closed"  \* the first packet may still leave
        /\ UNCHANGED <<packetQ, brokerVars>>
     \/ /\ link = "closed"  \* send fails
        /\ link' = "none" /\ fromBroker' = <<>>
        /\ packetQ' = Append(packetQ,
                        [from |-> "broker", packet |-> [type |-> "DISCONNECT"]])
        /\ UNCHANGED <<broker, commands, published, received>>
  /\ UNCHANGED <<calm, sending, client>>

(* Without a connection to the broker the event is dropped.                *)
SendFails ==
  /\ Head(brokerQ).type = "CONNECT" \/ link = "none"
  /\ Fault("unreachable")
  /\ link' = "none" /\ fromBroker' = <<>> /\ broker' = NoSession
  /\ UNCHANGED <<packetQ, sending, client, commands, published, received>>

BrokerSendTask ==
  /\ brokerQ # <<>> /\ ~sending
  /\ SendConnect \/ SendPacket \/ SendFails
  /\ brokerQ' = Tail(brokerQ)
  /\ UNCHANGED <<up, down, closing>>

(* The preempted thread goes on.                                           *)
ConnectSended ==
  /\ sending
  /\ sending' = FALSE
  /\ client' = Connecting
  /\ UNCHANGED <<netVars, packetQ, brokerQ, closing, brokerVars>>

(***************************************************************************)
(* BrokerRecvTask.                                                         *)
(***************************************************************************)
ReadPacket ==
  /\ fromBroker # <<>> /\ ~closing
  /\ Head(fromBroker) # EOF
  /\ fromBroker' = Tail(fromBroker)
  /\ packetQ' = Append(packetQ, [from |-> "broker", packet |-> Head(fromBroker)])
  /\ UNCHANGED <<netVars, client, brokerQ, sending, closing,
                 link, broker, commands, published, received>>

(* getNetwork()->close() closes the socket there is by now: after a        *)
(* preemption it may be one that BrokerSendTask has just opened.           *)
CloseAndDisconnect ==
  /\ link' = "none" /\ fromBroker' = <<>> /\ broker' = NoSession
  /\ client' = [client EXCEPT !.status = "Disconnected"]
  /\ UNCHANGED <<up, down, packetQ, brokerQ, sending, commands, published, received>>

ReadEof ==
  /\ fromBroker # <<>> /\ ~closing
  /\ Head(fromBroker) = EOF
  /\ \/ CloseAndDisconnect /\ UNCHANGED <<calm, closing>>
     \/ /\ Fault("preempted")
        /\ closing' = TRUE /\ fromBroker' = <<>>
        /\ UNCHANGED <<up, down, client, packetQ, brokerQ, sending,
                       link, broker, commands, published, received>>

BrokerRecvClose ==
  /\ closing
  /\ closing' = FALSE
  /\ CloseAndDisconnect
  /\ UNCHANGED calm

BrokerRecvTask == ReadPacket \/ ReadEof

(***************************************************************************)
(* The broker and the environment of the gateway.                          *)
(***************************************************************************)

(* Somebody publishes a command that the client has subscribed to.         *)
CommandArrives(t) ==
  /\ commands[t] > 0
  /\ t \in broker.subs
  /\ commands' = [commands EXCEPT ![t] = @ - 1]
  /\ LET cmd == [topic |-> t, n |-> commands[t]]
         mid == broker.lastMid + 1
     IN  /\ fromBroker' = Append(fromBroker,
              [type |-> "PUBLISH", topic |-> t, qos |-> IF t = Cmd1 THEN 1 ELSE 2,
               mid |-> mid, cmd |-> cmd])
         /\ broker' = [broker EXCEPT !.lastMid = mid,
                         !.inflight = @ \cup {[mid |-> mid, cmd |-> cmd]}]
  /\ UNCHANGED <<netVars, pahoVars, link, published, received>>

BrokerDrops ==
  /\ link = "open"
  /\ Fault("dropped")
  /\ CloseByBroker
  /\ UNCHANGED <<up, down, pahoVars>>

(* The gateway process restarts: it forgets the client and its queues.     *)
GatewayRestart ==
  /\ Fault("restart")
  /\ client' = None
  /\ packetQ' = <<>> /\ brokerQ' = <<>>
  /\ sending' = FALSE /\ closing' = FALSE
  /\ link' = "none" /\ fromBroker' = <<>> /\ broker' = NoSession
  /\ UNCHANGED <<up, down, commands, published, received>>

GatewayIdle ==
  packetQ = <<>> /\ brokerQ = <<>> /\ fromBroker = <<>> /\ ~sending /\ ~closing
==============================================================================

------------------------- MODULE ClientSession_proofs -------------------------
(***************************************************************************)
(* Proofs about MQTT-SN sessions, for any faults and any number of         *)
(* messages and commands.                                                  *)
(***************************************************************************)
EXTENDS ClientSession, SequenceTheorems, FiniteSetTheorems, TLAPS

(***************************************************************************)
(* Types of the datagrams and packets.                                     *)
(***************************************************************************)
Ids == {i \in Nat : i < 65535}

Message == [topic : Topic, n : Nat]

Connect  == [type : {"CONNECT"}]
Register == [type : {"REGISTER"}, topic : Sender, mid : Nat]
Subscription == [type : {"SUBSCRIBE"}, topic : Command, mid : Nat]
Publication  == [type : {"PUBLISH"}, tid : Ids, qos : Nat, mid : Nat, msg : Message]
Ack == [type : {"PUBACK", "PUBREC", "PUBCOMP"}, mid : Nat]

(* From the client to the gateway.                                         *)
UpPacket == Connect \cup Register \cup Subscription \cup Publication \cup Ack

Disconnect == [type : {"DISCONNECT"}]
Connack == [type : {"CONNACK"}, ok : BOOLEAN]
IdGiven == [type : {"REGACK", "SUBACK"}, tid : Ids, mid : Nat]
Puback  == [type : {"PUBACK"}, mid : Nat, ok : BOOLEAN]
CommandSent == [type : {"PUBLISH"}, tid : Ids, qos : Nat, mid : Nat, cmd : Message]
Pubrel  == [type : {"PUBREL"}, mid : Nat]

(* From the gateway to the client.                                         *)
DownPacket == Disconnect \cup Connack \cup IdGiven \cup Puback \cup CommandSent \cup Pubrel

Forwarded == [type : {"PUBLISH"}, topic : Topic \cup {None}, qos : Nat, mid : Nat, msg : Message]

(* From the gateway to the broker, and back.                               *)
ToBroker == Connect \cup Subscription \cup Ack \cup Forwarded

BrokerAck == [type : {"SUBACK", "PUBACK", "PUBREL"}, mid : Nat]
CommandTaken == [type : {"PUBLISH"}, topic : Command, qos : Nat, mid : Nat, cmd : Message]

BrokerPacket == Connack \cup BrokerAck \cup CommandTaken

FromBroker == BrokerPacket \cup [type : {"EOF"}]

(* PacketEventQue.                                                         *)
GatewayEvent ==
  [from : {"client"}, packet : UpPacket]
  \cup [from : {"broker"}, packet : BrokerPacket \cup Disconnect]

AwaitedId == [mid : Nat, tid : Ids]

ClientType ==
  [status : {"Disconnected", "Connecting", "Active"}, ids : [Topic -> Ids], lastId : Ids,
   waitedPub : SUBSET AwaitedId, waitedSub : SUBSET AwaitedId]

BrokerType ==
  [session : BOOLEAN, subs : SUBSET Command,
   inflight : SUBSET [mid : Nat, cmd : Message], lastMid : Nat]

PendingType == [packet : Publication, retries : 0 .. MaxRetries]

TableType == [Topic -> [id : Ids, mid : 0 .. MaxMid]]

CalmOK == scenario \in Scenarios /\ left \in 0 .. scenario.count /\ seen \subseteq Faults

(* Whoever works for the client finds it.                                  *)
GatewayOK ==
  /\ packetQ \in Seq(GatewayEvent) /\ brokerQ \in Seq(ToBroker)
  /\ fromBroker \in Seq(FromBroker)
  /\ sending \in BOOLEAN /\ closing \in BOOLEAN /\ link \in {"none", "open", "closed"}
  /\ broker \in BrokerType /\ (link # "open" => broker = NoSession)
  /\ commands \in [Command -> Nat]
  /\ client # None => client \in ClientType
  /\ \/ packetQ # <<>> \/ brokerQ # <<>> \/ fromBroker # <<>>
     \/ sending \/ closing \/ link # "none"
     => client \in ClientType

ArdOK ==
  /\ st \in {"INIT", "CONNECTING", "REGISTERING", "READY"}
  /\ table # None => table \in TableType
  /\ nextMid \in 1 .. MaxMid
  /\ pend # None => pend \in PendingType
  /\ owed \in [puback : Nat, pubrec : Nat, pubcomp : Nat]
  /\ phase \in 0 .. Reps + 1
  /\ count \in Nat

NetOK == up \in Seq(UpPacket) /\ down \in Seq(DownPacket)

PicoEntry == [topic : Topic, id : Ids, fresh : BOOLEAN]

PicoOK ==
  /\ task \in {"boot", "wait", "register", "run"}
  /\ topics \in Seq(PicoEntry)
  /\ picoMid \in Nat /\ picoCount \in Nat

TypeInv == CalmOK /\ NetOK /\ GatewayOK /\ ArdOK /\ PicoOK

(* The topics of each role.                                                *)
LEMMA Roles == Topic = Sender \cup Command /\ Data1 \in Sender /\ Data2 \in Sender
               /\ Cmd1 \in Command /\ Cmd2 \in Command
BY DEF Topic, Sender, Command

(* What a packet of a type holds.                                          *)
LEMMA UpKinds ==
  ASSUME NEW p \in UpPacket
  PROVE  /\ p.type = "REGISTER" => p \in Register
         /\ p.type = "SUBSCRIBE" => p \in Subscription
         /\ p.type = "PUBLISH" => p \in Publication
         /\ p.type \in {"PUBACK", "PUBREC", "PUBCOMP"} => p \in Ack
BY DEF UpPacket, Connect, Register, Subscription, Publication, Ack

LEMMA DownKinds ==
  ASSUME NEW p \in DownPacket
  PROVE  /\ p.type = "CONNACK" => p \in Connack
         /\ p.type \in {"REGACK", "SUBACK"} => p \in IdGiven
         /\ p.type = "PUBACK" => p \in Puback
         /\ p.type = "PUBLISH" => p \in CommandSent
         /\ p.type = "PUBREL" => p \in Pubrel
BY DEF DownPacket, Disconnect, Connack, IdGiven, Puback, CommandSent, Pubrel

LEMMA BrokerKinds ==
  ASSUME NEW p \in BrokerPacket \cup Disconnect
  PROVE  /\ p.type = "CONNACK" => p \in Connack
         /\ p.type \in {"SUBACK", "PUBACK", "PUBREL"} => p \in BrokerAck
         /\ p.type = "PUBLISH" => p \in CommandTaken
BY DEF BrokerPacket, Disconnect, Connack, BrokerAck, CommandTaken

LEMMA ToBrokerKinds ==
  ASSUME NEW p \in ToBroker
  PROVE  /\ p.type = "SUBSCRIBE" => p \in Subscription
         /\ p.type = "PUBLISH" => p \in Forwarded
         /\ p.type \notin {"CONNECT", "SUBSCRIBE", "PUBLISH"} => p \in Ack
BY DEF ToBroker, Connect, Subscription, Ack, Forwarded

(***************************************************************************)
(* The operators on the client's maps.                                     *)
(***************************************************************************)
LEMMA NewClientType == NewClient \in ClientType
<1>1. NoIds \in [Topic -> Ids] /\ 0 \in Ids
  BY DEF NoIds, Ids
<1>2. {} \in SUBSET AwaitedId
  OBVIOUS
<1> QED BY <1>1, <1>2 DEF NewClient, ClientType

LEMMA NextIdType ==
  ASSUME NEW l \in Ids
  PROVE  NextTopicId(l) \in Ids /\ NextTopicId(l) # 0
BY DEF NextTopicId, Ids

LEMMA AddTopicType ==
  ASSUME NEW c \in ClientType, NEW t \in Topic
  PROVE  /\ AddTopic(c, t) \in ClientType
         /\ AddTopic(c, t).ids[t] \in Ids \ {0}
         /\ AddTopic(c, t).waitedPub = c.waitedPub
         /\ AddTopic(c, t).waitedSub = c.waitedSub
         /\ AddTopic(c, t).status = c.status
         /\ c.ids[t] = 0 =>
              /\ AddTopic(c, t).lastId = NextTopicId(c.lastId)
              /\ \A u \in Topic : AddTopic(c, t).ids[u] = IF u = t THEN NextTopicId(c.lastId)
                                                       ELSE c.ids[u]
<1>0. c.lastId \in Ids /\ c.ids \in [Topic -> Ids]
  BY DEF ClientType
<1>1. NextTopicId(c.lastId) \in Ids \ {0}
  BY <1>0, NextIdType
<1>2. CASE c.ids[t] # 0
  BY <1>0, <1>2 DEF AddTopic
<1>3. CASE c.ids[t] = 0
  <2> DEFINE n == NextTopicId(c.lastId)
             ids == [c.ids EXCEPT ![t] = n]
  <2>1. AddTopic(c, t) = [c EXCEPT !.lastId = n, !.ids = ids]
    BY <1>3, Zenon DEF AddTopic
  <2>2. ids \in [Topic -> Ids] /\ ids[t] = n /\ n \in Ids \ {0}
    BY <1>0, <1>1
  <2> HIDE DEF ids, n
  <2>3. /\ AddTopic(c, t) \in ClientType
        /\ AddTopic(c, t).ids = ids /\ AddTopic(c, t).lastId = n
        /\ AddTopic(c, t).waitedPub = c.waitedPub
        /\ AddTopic(c, t).waitedSub = c.waitedSub
        /\ AddTopic(c, t).status = c.status
    BY <2>1, <2>2 DEF ClientType
  <2>4. n = NextTopicId(c.lastId) /\ \A u \in Topic : ids[u] = IF u = t THEN n ELSE c.ids[u]
    BY <1>0 DEF ids, n
  <2> QED BY <2>2, <2>3, <2>4
<1> QED BY <1>2, <1>3

LEMMA AwaitType ==
  ASSUME NEW map \in SUBSET AwaitedId, NEW mid \in Nat, NEW tid \in Ids
  PROVE  Await(map, mid, tid) \in SUBSET AwaitedId
BY DEF Await, AwaitedId

(* What a sequence keeps of its elements' type.                            *)
LEMMA Taken ==
  ASSUME NEW S, NEW q \in Seq(S), q # <<>>
  PROVE  Head(q) \in S /\ Tail(q) \in Seq(S)
OBVIOUS

LEMMA Added ==
  ASSUME NEW S, NEW q \in Seq(S), NEW e \in S
  PROVE  Append(q, e) \in Seq(S) /\ Append(q, e) # <<>>
BY AppendProperties

LEMMA Joined ==
  ASSUME NEW S, NEW q \in Seq(S), NEW r \in Seq(S)
  PROVE  q \o r \in Seq(S)
BY ConcatProperties

LEMMA Few ==
  ASSUME NEW S
  PROVE  <<>> \in Seq(S) /\ \A e \in S : <<e>> \in Seq(S)
OBVIOUS

(***************************************************************************)
(* The faults.                                                             *)
(***************************************************************************)
LEMMA FaultType ==
  ASSUME CalmOK, NEW k, Fault(k)
  PROVE  CalmOK' /\ k \in Faults /\ UNCHANGED scenario
<1>1. scenario.faults \subseteq Faults /\ scenario.count \in Nat
  BY SessionAssumption DEF CalmOK
<1>2. left' \in 0 .. scenario.count
  BY <1>1 DEF CalmOK, Fault
<1> QED BY <1>1, <1>2 DEF CalmOK, Fault

LEMMA CalmKept ==
  ASSUME CalmOK, UNCHANGED calm
  PROVE  CalmOK'
BY DEF CalmOK, calm

LEMMA NetFaultType ==
  ASSUME TypeInv, NetFault
  PROVE  CalmOK' /\ NetOK'
<1> USE DEF TypeInv
<1>1. CASE up # <<>> /\ Suffers(up, down)
  <2>1. up \in Seq(UpPacket) /\ Head(up) \in UpPacket /\ Tail(up) \in Seq(UpPacket)
    BY <1>1, Taken DEF NetOK
  <2>2. Append(up, Head(up)) \in Seq(UpPacket) /\ Append(Tail(up), Head(up)) \in Seq(UpPacket)
    BY <2>1, Added
  <2> QED BY <1>1, <2>1, <2>2, FaultType DEF Suffers, NetOK
<1>2. CASE down # <<>> /\ Suffers(down, up)
  <2>1. down \in Seq(DownPacket) /\ Head(down) \in DownPacket /\ Tail(down) \in Seq(DownPacket)
    BY <1>2, Taken DEF NetOK
  <2>2. /\ Append(down, Head(down)) \in Seq(DownPacket)
        /\ Append(Tail(down), Head(down)) \in Seq(DownPacket)
    BY <2>1, Added
  <2> QED BY <1>2, <2>1, <2>2, FaultType DEF Suffers, NetOK
<1> QED BY <1>1, <1>2 DEF NetFault


(***************************************************************************)
(* The Arduino keeps the types.                                            *)
(***************************************************************************)
LEMMA FollowingType ==
  ASSUME NEW mid \in 1 .. MaxMid
  PROVE  Following(mid) \in 1 .. MaxMid
BY ArduinoAssumption DEF Following

LEMMA UnregisteredType == Unregistered \in TableType
BY ArduinoAssumption DEF Unregistered, TableType, Ids

(* A topic without an id is asked for in the way of its role.              *)
LEMMA ProcessAsks ==
  ASSUME NEW tab \in TableType, tab # None, Process(tab), FirstMissing(tab) # {}
  PROVE  \E t \in Topic :
           /\ tab[t].id = 0
           /\ LET new == tab[t].mid = 0
                  mid == IF new THEN nextMid ELSE tab[t].mid
              IN  /\ table' = [tab EXCEPT ![t].mid = mid]
                  /\ nextMid' = IF new THEN Following(nextMid) ELSE nextMid
                  /\ up' = Append(up, [type |-> IF t \in Sender THEN "REGISTER" ELSE "SUBSCRIBE",
                                       topic |-> t, mid |-> mid])
<1> DEFINE i == CHOOSE i \in FirstMissing(tab) : TRUE
           t == Order[i]
<1>1. i \in FirstMissing(tab)
  OBVIOUS
<1>2. t \in Topic /\ tab[t].id = 0
  <2>1. i \in DOMAIN Order /\ tab[Order[i]].id = 0
    BY <1>1 DEF FirstMissing
  <2>2. \A j \in DOMAIN Order : Order[j] \in Topic
    BY DEF Order, Topic, Sender, Command
  <2> QED BY <2>1, <2>2
<1> QED BY <1>2 DEF Process

LEMMA ProcessType ==
  ASSUME TypeInv, NEW tab, tab # None => tab \in TableType, Process(tab)
  PROVE  /\ up' \in Seq(UpPacket) /\ nextMid' \in 1 .. MaxMid
         /\ table' # None => table' \in TableType
<1>0. up \in Seq(UpPacket) /\ nextMid \in 1 .. MaxMid /\ MaxMid \in Nat
  BY ArduinoAssumption DEF TypeInv, NetOK, ArdOK
<1>1. CASE tab = None \/ FirstMissing(tab) = {}
  BY <1>0, <1>1 DEF Process
<1>2. CASE tab # None /\ FirstMissing(tab) # {}
  <2>1. PICK t \in Topic :
           /\ tab[t].id = 0
           /\ LET new == tab[t].mid = 0
                  mid == IF new THEN nextMid ELSE tab[t].mid
              IN  /\ table' = [tab EXCEPT ![t].mid = mid]
                  /\ nextMid' = IF new THEN Following(nextMid) ELSE nextMid
                  /\ up' = Append(up, [type |-> IF t \in Sender THEN "REGISTER" ELSE "SUBSCRIBE",
                                       topic |-> t, mid |-> mid])
    BY <1>2, ProcessAsks
  <2> DEFINE mid == IF tab[t].mid = 0 THEN nextMid ELSE tab[t].mid
             p == [type |-> IF t \in Sender THEN "REGISTER" ELSE "SUBSCRIBE",
                   topic |-> t, mid |-> mid]
  <2>2. tab \in TableType /\ tab[t] \in [id : Ids, mid : 0 .. MaxMid]
    BY <1>2 DEF TableType
  <2>3. mid \in 1 .. MaxMid
    BY <1>0, <2>2
  <2>4. p \in UpPacket
    BY <2>3, Roles DEF UpPacket, Register, Subscription
  <2>5. up' = Append(up, p) /\ nextMid' \in {nextMid, Following(nextMid)}
    BY <2>1
  <2>6. table' = [tab EXCEPT ![t].mid = mid]
    BY <2>1
  <2> DEFINE e == [id |-> tab[t].id, mid |-> mid]
  <2>7. [tab[t] EXCEPT !.mid = mid] = e /\ e \in [id : Ids, mid : 0 .. MaxMid]
    BY <1>0, <2>2, <2>3
  <2> HIDE DEF mid, p, e
  <2>8. table' = [tab EXCEPT ![t] = e]
    BY <2>6, <2>7
  <2>9. table' \in TableType
    BY <2>2, <2>7, <2>8 DEF TableType
  <2> QED BY <1>0, <2>4, <2>5, <2>9, Added, FollowingType
<1> QED BY <1>1, <1>2

(* What each part of the system leaves alone.                              *)
LEMMA GatewayKept ==
  ASSUME GatewayOK, UNCHANGED gatewayVars
  PROVE  GatewayOK'
BY DEF GatewayOK, gatewayVars, pahoVars, brokerVars, NoSession

LEMMA PicoKept ==
  ASSUME PicoOK, UNCHANGED picoVars
  PROVE  PicoOK'
BY DEF PicoOK, picoVars

LEMMA ArdKept ==
  ASSUME ArdOK, UNCHANGED ardVars
  PROVE  ArdOK'
BY DEF ArdOK, ardVars

LEMMA SendUpType ==
  ASSUME NetOK, NEW p \in UpPacket, SendUp(p), UNCHANGED down
  PROVE  NetOK'
BY Added DEF NetOK, SendUp

LEMMA TopicIdType ==
  ASSUME TypeInv, NEW t \in Topic
  PROVE  TopicId(t) \in Ids
BY DEF TypeInv, ArdOK, TopicId, TableType, Ids

LEMMA ArdLoopType ==
  ASSUME TypeInv, ArdLoop
  PROVE  CalmOK' /\ NetOK' /\ ArdOK'
<1>0. CalmOK /\ NetOK /\ ArdOK
  BY DEF TypeInv
<1>1. CASE ArdConnect
  <2>1. [type |-> "CONNECT"] \in UpPacket
    BY DEF UpPacket, Connect
  <2> QED BY <1>0, <1>1, <2>1, CalmKept, SendUpType DEF ArdConnect, ArdOK
<1>2. CASE ArdConnacked
  <2>1. Refilled(table) # None => Refilled(table) \in TableType
    BY <1>0, UnregisteredType DEF ArdOK, Refilled
  <2>2. Process(Refilled(table))
    BY <1>2 DEF ArdConnacked
  <2>3. /\ up' \in Seq(UpPacket) /\ nextMid' \in 1 .. MaxMid
        /\ table' # None => table' \in TableType
    BY <2>1, <2>2, ProcessType
  <2> QED BY <1>0, <1>2, <2>3, CalmKept DEF ArdConnacked, ArdOK, NetOK
<1>3. CASE ArdAcknowledge
  <2>1. PICK k \in {"puback", "pubrec", "pubcomp"} :
          /\ SendUp([type |-> AckType(k), mid |-> owed[k]])
          /\ owed' = [owed EXCEPT ![k] = 0]
    <3> DEFINE order == IF st = "REGISTERING" THEN <<"puback", "pubrec", "pubcomp">>
                        ELSE <<"pubrec", "pubcomp", "puback">>
    <3>1. PICK i \in FirstOwed(order) :
            /\ SendUp([type |-> AckType(order[i]), mid |-> owed[order[i]]])
            /\ owed' = [owed EXCEPT ![order[i]] = 0]
      BY <1>3, Zenon DEF ArdAcknowledge
    <3>2. i \in DOMAIN order
      BY DEF FirstOwed
    <3>3. order[i] \in {"puback", "pubrec", "pubcomp"}
      BY <3>2
    <3> HIDE DEF order
    <3> QED BY <3>1, <3>3
  <2>2. owed[k] \in Nat /\ AckType(k) \in {"PUBACK", "PUBREC", "PUBCOMP"}
    BY <1>0 DEF ArdOK, AckType
  <2>3. [type |-> AckType(k), mid |-> owed[k]] \in UpPacket
    BY <2>2 DEF UpPacket, Ack
  <2>4. owed' \in [puback : Nat, pubrec : Nat, pubcomp : Nat]
    BY <1>0, <2>1 DEF ArdOK
  <2> QED BY <1>0, <1>3, <2>1, <2>3, <2>4, CalmKept, SendUpType DEF ArdAcknowledge, ArdOK
<1>4. CASE ArdRegister
  <2>1. /\ up' \in Seq(UpPacket) /\ nextMid' \in 1 .. MaxMid
        /\ table' # None => table' \in TableType
    BY <1>0, <1>4, ProcessType DEF ArdRegister, ArdOK
  <2> QED BY <1>0, <1>4, <2>1, CalmKept DEF ArdRegister, ArdOK, NetOK
<1>5. CASE ArdReady
  BY <1>0, <1>5, CalmKept DEF ArdReady, ArdOK, NetOK, netVars, calm
<1>6. CASE ArdNextRound
  BY <1>0, <1>6, CalmKept, ArduinoAssumption DEF ArdNextRound, ArdOK, NetOK, netVars, calm
<1> QED BY <1>1, <1>2, <1>3, <1>4, <1>5, <1>6 DEF ArdLoop

LEMMA ArdTimeoutType ==
  ASSUME TypeInv, ArdTimeout
  PROVE  NetOK' /\ ArdOK'
<1>0. NetOK /\ ArdOK /\ MaxRetries \in Nat
  BY ArduinoAssumption DEF TypeInv
<1>1. CASE ArdConnectTimeout
  BY <1>0, <1>1 DEF ArdConnectTimeout, NetOK, ArdOK
<1>2. CASE ArdRegisterTimeout
  <2>1. table' # None => table' \in TableType
    BY <1>0, <1>2 DEF ArdRegisterTimeout, ArdOK, Invalidated, TableType, Ids
  <2> QED BY <1>0, <1>2, <2>1 DEF ArdRegisterTimeout, NetOK, ArdOK
<1>3. CASE ArdRetry
  <2>1. pend \in PendingType /\ pend.packet \in UpPacket
    BY <1>0, <1>3 DEF ArdRetry, ArdOK, PendingType, UpPacket
  <2>2. CASE pend.retries >= MaxRetries
    BY <1>0, <1>3, <2>2 DEF ArdRetry, NetOK, ArdOK
  <2>3. CASE ~(pend.retries >= MaxRetries)
    <3>1. pend' = [pend EXCEPT !.retries = @ + 1] /\ SendUp(pend.packet)
      BY <1>3, <2>3 DEF ArdRetry
    <3>2. pend' \in PendingType
      BY <1>0, <2>1, <2>3, <3>1 DEF PendingType
    <3> QED BY <1>0, <1>3, <2>1, <3>1, <3>2, SendUpType DEF ArdRetry, ArdOK
  <2> QED BY <2>2, <2>3
<1> QED BY <1>1, <1>2, <1>3 DEF ArdTimeout

LEMMA ArdPublishType ==
  ASSUME TypeInv, ArdPublish
  PROVE  CalmOK' /\ NetOK' /\ ArdOK'
<1>0. CalmOK /\ NetOK /\ ArdOK /\ Reps \in Nat
  BY ArduinoAssumption DEF TypeInv
<1>1. TopicId(Data1) \in Ids /\ TopicId(Data2) \in Ids /\ {Data1, Data2} \subseteq Topic
  BY TopicIdType, Roles
<1>2. CASE ArdPublishQos0
  <2> DEFINE p == [type |-> "PUBLISH", tid |-> TopicId(Data2), qos |-> 0, mid |-> 0,
                   msg |-> [topic |-> Data2, n |-> count + 1]]
  <2>1. p \in Publication
    BY <1>0, <1>1 DEF ArdOK, Publication, Message
  <2>2. p \in UpPacket /\ SendUp(p) /\ UNCHANGED down
    BY <1>2, <2>1 DEF ArdPublishQos0, UpPacket
  <2>3. NetOK'
    BY <1>0, <2>2, SendUpType
  <2> QED BY <1>0, <1>2, <2>3, CalmKept DEF ArdPublishQos0, ArdOK
<1>3. CASE ArdPublishQos1
  <2> DEFINE p == [type |-> "PUBLISH", tid |-> TopicId(Data1), qos |-> 1, mid |-> nextMid,
                   msg |-> [topic |-> Data1, n |-> count + 1]]
  <2>1. p \in Publication
    BY <1>0, <1>1 DEF ArdOK, Publication, Message
  <2>2. p \in UpPacket /\ SendUp(p) /\ UNCHANGED down
    BY <1>3, <2>1 DEF ArdPublishQos1, UpPacket
  <2>3. NetOK'
    BY <1>0, <2>2, SendUpType
  <2>4. pend' = IF pend = None THEN [packet |-> p, retries |-> 0] ELSE pend
    BY <1>3 DEF ArdPublishQos1
  <2> HIDE DEF p
  <2>5. pend' # None => pend' \in PendingType
    BY <1>0, <2>1, <2>4, ArduinoAssumption DEF ArdOK, PendingType
  <2> QED BY <1>0, <1>3, <2>3, <2>5, CalmKept, FollowingType DEF ArdPublishQos1, ArdOK
<1> QED BY <1>2, <1>3 DEF ArdPublish

LEMMA ArdReceiveType ==
  ASSUME TypeInv, ArdReceive
  PROVE  CalmOK' /\ NetOK' /\ ArdOK'
<1>0. CalmOK /\ NetOK /\ ArdOK /\ down # <<>>
  BY DEF TypeInv, ArdReceive, ArdReceiveConnack, ArdReceivePuback, ArdReceiveCommand,
         ArdReceivePubrel, ArdReceiveOther, ArdReceiveId, Receiving
<1>1. Arriving \in DownPacket /\ Tail(down) \in Seq(DownPacket)
  BY <1>0, Taken DEF NetOK, Arriving
<1>2. ASSUME NEW type, Receiving(type)
      PROVE  /\ CalmOK' /\ NetOK' /\ Arriving.type = type
             /\ UNCHANGED <<st, nextMid, phase, count>>
  BY <1>0, <1>1, <1>2, CalmKept DEF Receiving, NetOK, Arriving
<1>3. CASE ArdReceiveConnack
  BY <1>0, <1>2, <1>3 DEF ArdReceiveConnack, ArdOK
<1>4. CASE ArdReceivePuback
  BY <1>0, <1>2, <1>4 DEF ArdReceivePuback, ArdOK
<1>5. CASE ArdReceiveCommand
  <2>1. Arriving \in CommandSent
    BY <1>1, <1>2, <1>5, DownKinds DEF ArdReceiveCommand
  <2>2. Arriving.mid \in Nat
    BY <2>1 DEF CommandSent
  <2>3. owed' \in [puback : Nat, pubrec : Nat, pubcomp : Nat]
    BY <1>0, <1>5, <2>2 DEF ArdReceiveCommand, ArdOK
  <2> QED BY <1>0, <1>2, <1>5, <2>3 DEF ArdReceiveCommand, ArdOK
<1>6. CASE ArdReceivePubrel
  <2>1. Arriving.mid \in Nat
    BY <1>1, <1>2, <1>6, DownKinds DEF ArdReceivePubrel, Pubrel
  <2>2. owed' \in [puback : Nat, pubrec : Nat, pubcomp : Nat]
    BY <1>0, <1>6, <2>1 DEF ArdReceivePubrel, ArdOK
  <2> QED BY <1>0, <1>2, <1>6, <2>2 DEF ArdReceivePubrel, ArdOK
<1>7. CASE ArdReceiveOther
  BY <1>0, <1>2, <1>7 DEF ArdReceiveOther, ArdOK
<1>8. ASSUME NEW type \in {"REGACK", "SUBACK"}, NEW role \in SUBSET Topic,
             ArdReceiveId(type, role)
      PROVE  CalmOK' /\ NetOK' /\ ArdOK'
  <2>1. Arriving.tid \in Ids
    BY <1>1, <1>2, <1>8, DownKinds DEF ArdReceiveId, IdGiven
  <2>2. table' # None => table' \in TableType
    <3>1. CASE Matches(role) = {}
      BY <1>0, <1>8, <3>1 DEF ArdReceiveId, ArdOK
    <3>2. CASE Matches(role) # {}
      <4>1. PICK t \in Matches(role) : table' = [table EXCEPT ![t] = [id |-> Arriving.tid, mid |-> 0]]
        BY <1>8, <3>2 DEF ArdReceiveId
      <4>2. t \in Topic /\ table \in TableType
        BY <1>0, <3>2 DEF Matches, ArdOK
      <4>3. [id |-> Arriving.tid, mid |-> 0] \in [id : Ids, mid : 0 .. MaxMid]
        BY <2>1, ArduinoAssumption
      <4> QED BY <4>1, <4>2, <4>3 DEF TableType
    <3> QED BY <3>1, <3>2
  <2> QED BY <1>0, <1>2, <1>8, <2>2 DEF ArdReceiveId, ArdOK
<1> QED BY <1>3, <1>4, <1>5, <1>6, <1>7, <1>8, Roles DEF ArdReceive

LEMMA ArdRebootType ==
  ASSUME TypeInv, ArdReboot
  PROVE  CalmOK' /\ NetOK' /\ ArdOK'
<1>0. CalmOK /\ NetOK /\ ArdOK
  BY DEF TypeInv
<1>1. CalmOK' /\ NetOK'
  BY <1>0, FaultType DEF ArdReboot, NetOK
<1>2. NothingOwed \in [puback : Nat, pubrec : Nat, pubcomp : Nat]
  BY DEF NothingOwed
<1> QED BY <1>0, <1>1, <1>2, UnregisteredType, ArduinoAssumption
        DEF ArdReboot, ArdPowerOn, ArdOK

(***************************************************************************)
(* The Pico keeps the types.                                               *)
(***************************************************************************)
LEMMA PicoTopicIdType ==
  ASSUME PicoOK, NEW t
  PROVE  PicoTopicId(t) \in Ids
<1>1. CASE Named(t) = {}
  BY <1>1 DEF PicoTopicId, Ids
<1>2. CASE Named(t) # {}
  <2>1. PICK i \in Named(t) : PicoTopicId(t) = topics[i].id
    BY <1>2 DEF PicoTopicId
  <2>2. i \in 1 .. Len(topics)
    BY DEF Named, PicoOK
  <2>3. topics[i] \in PicoEntry
    BY <2>2, ElementOfSeq DEF PicoOK
  <2> QED BY <2>1, <2>3 DEF PicoEntry
<1> QED BY <1>1, <1>2

LEMMA EntryType ==
  ASSUME NEW t \in Topic
  PROVE  Entry(t) \in PicoEntry
BY DEF Entry, PicoEntry, Ids

LEMMA RequestType ==
  ASSUME NEW e \in PicoEntry, NEW mid \in Nat
  PROVE  Request(e, mid) \in UpPacket
<1>1. e.topic \in Sender \/ e.topic \in Command
  BY Roles DEF PicoEntry
<1>2. CASE e.topic \in Sender
  BY <1>2 DEF Request, UpPacket, Register
<1>3. CASE e.topic \notin Sender
  BY <1>1, <1>3 DEF Request, UpPacket, Subscription
<1> QED BY <1>2, <1>3

LEMMA ProcessAllType ==
  ASSUME TypeInv, NEW tab \in Seq(PicoEntry), ProcessAll(tab)
  PROVE  /\ up' \in Seq(UpPacket)
         /\ topics' \in Seq(PicoEntry)
         /\ picoMid' \in Nat
<1> DEFINE due == Due(tab)
           n == Cardinality(due)
<1>1. n \in Nat
  <2>1. due \subseteq 1 .. Len(tab) /\ Len(tab) \in Nat
    BY DEF Due
  <2>2. IsFiniteSet(1 .. Len(tab))
    BY <2>1, FS_Interval
  <2> HIDE DEF due
  <2>3. IsFiniteSet(due)
    BY <2>1, <2>2, FS_Subset
  <2> QED BY <2>3, FS_CardinalityType
<1>2. picoMid \in Nat /\ up \in Seq(UpPacket)
  BY DEF TypeInv, PicoOK, NetOK
<1>3. PICK at \in [1 .. n -> due] :
        up' = up \o [k \in 1 .. n |-> Request(tab[at[k]], picoMid + k - 1)]
  BY DEF ProcessAll
<1>4. ASSUME NEW k \in 1 .. n
      PROVE  Request(tab[at[k]], picoMid + k - 1) \in UpPacket
  <2>1. at[k] \in 1 .. Len(tab)
    BY DEF Due
  <2>2. tab[at[k]] \in PicoEntry /\ picoMid + k - 1 \in Nat
    BY <1>1, <1>2, <2>1, ElementOfSeq
  <2> QED BY <2>2, RequestType
<1>5. picoMid' \in Nat
  BY <1>1, <1>2 DEF ProcessAll
<1> HIDE DEF n, due
<1>6. [k \in 1 .. n |-> Request(tab[at[k]], picoMid + k - 1)] \in Seq(UpPacket)
  BY <1>1, <1>4, IsASeq
<1>7. up' \in Seq(UpPacket)
  BY <1>2, <1>3, <1>6, Joined
<1>8. topics' \in Seq(PicoEntry)
  <2> DEFINE e(i) == IF tab[i].id = 0 THEN [tab[i] EXCEPT !.fresh = TRUE] ELSE tab[i]
  <2>1. topics' = [i \in 1 .. Len(tab) |-> e(i)] /\ Len(tab) \in Nat
    BY DEF ProcessAll
  <2>2. ASSUME NEW i \in 1 .. Len(tab) PROVE e(i) \in PicoEntry
    <3>1. tab[i] \in PicoEntry
      BY ElementOfSeq
    <3> QED BY <3>1 DEF PicoEntry
  <2> HIDE DEF e
  <2> QED BY <2>1, <2>2, IsASeq
<1> QED BY <1>5, <1>7, <1>8

LEMMA SubscribeType ==
  ASSUME TypeInv, NEW s, NEW t, s \in Topic, t \in Topic,
         ProcessAll(topics \o <<Entry(s), Entry(t)>>)
  PROVE  /\ up' \in Seq(UpPacket)
         /\ topics' \in Seq(PicoEntry)
         /\ picoMid' \in Nat
<1>1. <<Entry(s), Entry(t)>> \in Seq(PicoEntry)
  BY EntryType
<1>2. topics \o <<Entry(s), Entry(t)>> \in Seq(PicoEntry)
  BY <1>1, Joined DEF TypeInv, PicoOK
<1> QED BY <1>2, ProcessAllType

LEMMA PicoTaskType ==
  ASSUME TypeInv, PicoTask
  PROVE  CalmOK' /\ NetOK' /\ PicoOK'
<1>0. CalmOK /\ NetOK /\ PicoOK
  BY DEF TypeInv
<1>1. CASE PicoConnect
  <2>1. [type |-> "CONNECT"] \in UpPacket
    BY DEF UpPacket, Connect
  <2> QED BY <1>0, <1>1, <2>1, CalmKept, SendUpType DEF PicoConnect, PicoOK
<1>2. CASE PicoRegistered
  <2>1. up' \in Seq(UpPacket) /\ topics' \in Seq(PicoEntry) /\ picoMid' \in Nat
    BY <1>2, SubscribeType, Roles DEF PicoRegistered, Subscribe
  <2> QED BY <1>0, <1>2, <2>1, CalmKept DEF PicoRegistered, Subscribe, PicoOK, NetOK
<1> QED BY <1>1, <1>2 DEF PicoTask

LEMMA PicoTimeoutType ==
  ASSUME TypeInv, PicoTimeout
  PROVE  NetOK' /\ PicoOK'
<1>0. NetOK /\ PicoOK
  BY DEF TypeInv
<1>1. CASE PicoRegister
  <2>1. up' \in Seq(UpPacket) /\ topics' \in Seq(PicoEntry) /\ picoMid' \in Nat
    BY <1>1, SubscribeType, Roles DEF PicoRegister
  <2> QED BY <1>0, <1>1, <2>1 DEF PicoRegister, PicoOK, NetOK
<1>2. CASE PicoRegisterTimeout
  <2>1. up' \in Seq(UpPacket) /\ topics' \in Seq(PicoEntry) /\ picoMid' \in Nat
    BY <1>2, SubscribeType, Roles DEF PicoRegisterTimeout, Subscribe
  <2> QED BY <1>0, <1>2, <2>1 DEF PicoRegisterTimeout, Subscribe, PicoOK, NetOK
<1>3. CASE PicoAge
  <2> DEFINE e(i) == [topics[i] EXCEPT !.fresh = FALSE]
  <2>1. topics' = [i \in 1 .. Len(topics) |-> e(i)] /\ Len(topics) \in Nat
    BY <1>0, <1>3 DEF PicoAge, PicoOK
  <2>2. ASSUME NEW i \in 1 .. Len(topics) PROVE e(i) \in PicoEntry
    <3>1. topics[i] \in PicoEntry
      BY <1>0, ElementOfSeq DEF PicoOK
    <3> QED BY <3>1 DEF PicoEntry
  <2> HIDE DEF e
  <2>3. topics' \in Seq(PicoEntry)
    BY <2>1, <2>2, IsASeq
  <2> QED BY <1>0, <1>3, <2>3 DEF PicoAge, PicoOK, NetOK
<1> QED BY <1>1, <1>2, <1>3 DEF PicoTimeout

LEMMA PicoPublishType ==
  ASSUME TypeInv, NEW t \in Sender, PicoPublish(t)
  PROVE  CalmOK' /\ NetOK' /\ PicoOK'
<1>0. CalmOK /\ NetOK /\ PicoOK
  BY DEF TypeInv
<1> DEFINE p == [type |-> "PUBLISH", tid |-> PicoTopicId(t), qos |-> 0, mid |-> 0,
                 msg |-> [topic |-> t, n |-> picoCount + 1]]
<1>1. p \in Publication
  BY <1>0, PicoTopicIdType, Roles DEF PicoOK, Publication, Message
<1>2. p \in UpPacket /\ SendUp(p) /\ UNCHANGED down
  BY <1>1 DEF PicoPublish, UpPacket
<1>3. NetOK'
  BY <1>0, <1>2, SendUpType
<1> QED BY <1>0, <1>3, CalmKept DEF PicoPublish, PicoOK

LEMMA PicoReceiveType ==
  ASSUME TypeInv, PicoReceive
  PROVE  CalmOK' /\ NetOK' /\ PicoOK'
<1>0. CalmOK /\ NetOK /\ PicoOK /\ down # <<>>
  BY DEF TypeInv, PicoReceive, PicoReceiveConnack, PicoReceiveCommand,
         PicoReceivePubrel, PicoReceiveOther, PicoReceiveId, PicoReceiving
<1>1. Head(down) \in DownPacket /\ Tail(down) \in Seq(DownPacket)
  BY <1>0, Taken DEF NetOK
<1>2. ASSUME NEW type, PicoReceiving(type)
      PROVE  /\ CalmOK' /\ down' \in Seq(DownPacket) /\ Head(down).type = type
             /\ UNCHANGED <<task, picoMid, picoCount>>
  BY <1>0, <1>1, <1>2, CalmKept DEF PicoReceiving
<1>3. ASSUME NEW p \in UpPacket, SendUp(p)
      PROVE  up' \in Seq(UpPacket)
  BY <1>0, <1>3, Added DEF NetOK, SendUp
<1>4. CASE PicoReceiveConnack
  BY <1>0, <1>2, <1>4, Few DEF PicoReceiveConnack, PicoOK, NetOK
<1>5. CASE PicoReceiveCommand
  <2>1. Head(down).mid \in Nat
    BY <1>1, <1>2, <1>5, DownKinds DEF PicoReceiveCommand, CommandSent
  <2>2. [type |-> IF Head(down).qos = 1 THEN "PUBACK" ELSE "PUBREC",
         mid |-> Head(down).mid] \in UpPacket
    BY <2>1 DEF UpPacket, Ack
  <2> QED BY <1>0, <1>2, <1>3, <1>5, <2>2 DEF PicoReceiveCommand, PicoOK, NetOK
<1>6. CASE PicoReceivePubrel
  <2>1. Head(down).mid \in Nat
    BY <1>1, <1>2, <1>6, DownKinds DEF PicoReceivePubrel, Pubrel
  <2>2. [type |-> "PUBCOMP", mid |-> Head(down).mid] \in UpPacket
    BY <2>1 DEF UpPacket, Ack
  <2> QED BY <1>0, <1>2, <1>3, <1>6, <2>2 DEF PicoReceivePubrel, PicoOK, NetOK
<1>7. CASE PicoReceiveOther
  BY <1>0, <1>2, <1>7 DEF PicoReceiveOther, PicoOK, NetOK
<1>8. ASSUME NEW type \in {"REGACK", "SUBACK"}, NEW role, PicoReceiveId(type, role)
      PROVE  CalmOK' /\ NetOK' /\ PicoOK'
  <2>1. Head(down).tid \in Ids
    BY <1>1, <1>2, <1>8, DownKinds DEF PicoReceiveId, IdGiven
  <2> DEFINE e(i) == IF i \in FirstFresh(role)
                     THEN [topics[i] EXCEPT !.id = Head(down).tid, !.fresh = FALSE]
                     ELSE topics[i]
  <2>5. DOMAIN topics = 1 .. Len(topics) /\ Len(topics) \in Nat
    BY <1>0 DEF PicoOK
  <2>6. topics' = [i \in DOMAIN topics |-> e(i)]
    BY <1>8, Zenon DEF PicoReceiveId
  <2>2. topics' = [i \in 1 .. Len(topics) |-> e(i)] /\ Len(topics) \in Nat
    BY <2>5, <2>6
  <2>3. ASSUME NEW i \in 1 .. Len(topics) PROVE e(i) \in PicoEntry
    <3>1. topics[i] \in PicoEntry
      BY <1>0, ElementOfSeq DEF PicoOK
    <3> QED BY <2>1, <3>1 DEF PicoEntry
  <2> HIDE DEF e
  <2>4. topics' \in Seq(PicoEntry)
    BY <2>2, <2>3, IsASeq
  <2> QED BY <1>0, <1>2, <1>8, <2>4 DEF PicoReceiveId, PicoOK, NetOK
<1> QED BY <1>4, <1>5, <1>6, <1>7, <1>8 DEF PicoReceive

LEMMA PicoRebootType ==
  ASSUME TypeInv, PicoReboot
  PROVE  CalmOK' /\ NetOK' /\ PicoOK'
BY FaultType, Few DEF TypeInv, PicoReboot, NetOK, PicoOK

(***************************************************************************)
(* The gateway keeps the types.                                            *)
(***************************************************************************)
LEMMA HandlingType ==
  ASSUME TypeInv, NEW from, NEW type, Handling(from, type)
  PROVE  /\ client \in ClientType
         /\ Packet.type = type
         /\ from = "client" => Packet \in UpPacket
         /\ from = "broker" => Packet \in BrokerPacket \cup Disconnect
         /\ packetQ' \in Seq(GatewayEvent)
         /\ UNCHANGED <<up, calm, sending, closing, brokerVars>>
<1>1. packetQ \in Seq(GatewayEvent) /\ packetQ # <<>>
  BY DEF TypeInv, GatewayOK, Handling
<1>2. Head(packetQ) \in GatewayEvent /\ Tail(packetQ) \in Seq(GatewayEvent)
  BY <1>1, Taken
<1>3. client \in ClientType
  BY <1>1 DEF TypeInv, GatewayOK
<1>4. Head(packetQ).from = from
  BY DEF Handling
<1>5. /\ from = "client" => Packet \in UpPacket
      /\ from = "broker" => Packet \in BrokerPacket \cup Disconnect
  BY <1>2, <1>4 DEF GatewayEvent, Packet
<1> QED BY <1>2, <1>3, <1>5 DEF Handling, Packet

LEMMA AnswerType ==
  ASSUME TypeInv, NEW from, NEW type, Handling(from, type),
         NEW c \in ClientType, NEW d \in Seq(DownPacket), NEW b \in Seq(ToBroker),
         Answer(c, d, b)
  PROVE  CalmOK' /\ NetOK' /\ GatewayOK'
<1>1. CalmOK /\ NetOK /\ GatewayOK
  BY DEF TypeInv
<1>2. /\ packetQ' \in Seq(GatewayEvent)
      /\ UNCHANGED <<up, calm, sending, closing, brokerVars>>
  BY HandlingType
<1>3. down' \in Seq(DownPacket)
  BY <1>1, Joined DEF NetOK, Answer
<1>4. brokerQ' \in Seq(ToBroker)
  BY <1>1, Joined DEF GatewayOK, Answer
<1>5. client' = c
  BY DEF Answer
<1>6. NetOK'
  BY <1>1, <1>2, <1>3 DEF NetOK
<1>7. GatewayOK'
  BY <1>1, <1>2, <1>4, <1>5 DEF GatewayOK, brokerVars, NoSession
<1> QED BY <1>1, <1>2, <1>6, <1>7, CalmKept

LEMMA FromClientType ==
  ASSUME TypeInv,
         \/ HandleConnect \/ HandleRegister \/ HandleSubscribe \/ HandlePublish
         \/ \E type \in {"PUBACK", "PUBREC", "PUBCOMP"} : HandleAck(type)
  PROVE  CalmOK' /\ NetOK' /\ GatewayOK'
<1>1. CASE HandleConnect
  <2>1. client \in ClientType /\ Handling("client", "CONNECT")
    BY <1>1, HandlingType DEF HandleConnect
  <2>2. [NewClient EXCEPT !.lastId = client.lastId] \in ClientType
    BY <2>1, NewClientType DEF ClientType
  <2>3. [type |-> "CONNECT"] \in ToBroker
    BY DEF ToBroker, Connect
  <2>4. <<>> \in Seq(DownPacket) /\ <<[type |-> "CONNECT"]>> \in Seq(ToBroker)
    BY <2>3, Few
  <2> QED BY <1>1, <2>1, <2>2, <2>4, AnswerType DEF HandleConnect
<1>2. CASE HandleRegister
  <2>1. Handling("client", "REGISTER")
    BY <1>2 DEF HandleRegister
  <2>2. client \in ClientType /\ Packet \in Register
    BY <2>1, HandlingType, UpKinds
  <2>3. Packet.topic \in Topic /\ Packet.mid \in Nat
    BY <2>2, Roles DEF Register
  <2> DEFINE c == AddTopic(client, Packet.topic)
             p == [type |-> "REGACK", tid |-> c.ids[Packet.topic], mid |-> Packet.mid]
  <2>4. c \in ClientType /\ p \in DownPacket
    BY <2>2, <2>3, AddTopicType DEF DownPacket, IdGiven
  <2>5. <<p>> \in Seq(DownPacket) /\ <<>> \in Seq(DownPacket) /\ <<>> \in Seq(ToBroker)
    BY <2>4, Few
  <2>6. Answer(c, <<p>>, <<>>) \/ Answer(client, <<>>, <<>>)
    BY <1>2 DEF HandleRegister
  <2> HIDE DEF c, p
  <2> QED BY <2>1, <2>2, <2>4, <2>5, <2>6, AnswerType
<1>3. CASE HandleSubscribe
  <2>1. Handling("client", "SUBSCRIBE")
    BY <1>3 DEF HandleSubscribe
  <2>2. client \in ClientType /\ Packet \in Subscription
    BY <2>1, HandlingType, UpKinds
  <2>3. Packet.topic \in Topic /\ Packet.topic \in Command /\ Packet.mid \in Nat
    BY <2>2, Roles DEF Subscription
  <2> DEFINE c == AddTopic(client, Packet.topic)
             d == [c EXCEPT !.waitedSub = Await(@, Packet.mid, c.ids[Packet.topic])]
             p == [type |-> "SUBSCRIBE", topic |-> Packet.topic, mid |-> Packet.mid]
  <2>4. c \in ClientType /\ c.ids[Packet.topic] \in Ids
    BY <2>2, <2>3, AddTopicType
  <2>5. Await(c.waitedSub, Packet.mid, c.ids[Packet.topic]) \in SUBSET AwaitedId
    BY <2>3, <2>4, AwaitType DEF ClientType
  <2>6. d \in ClientType
    BY <2>4, <2>5 DEF ClientType
  <2>7. p \in ToBroker
    BY <2>3 DEF ToBroker, Subscription
  <2>8. <<>> \in Seq(DownPacket) /\ <<p>> \in Seq(ToBroker)
    BY <2>7, Few
  <2>9. Answer(d, <<>>, <<p>>)
    BY <1>3 DEF HandleSubscribe
  <2> HIDE DEF d, p
  <2> QED BY <2>1, <2>6, <2>8, <2>9, AnswerType
<1>4. CASE HandlePublish
  <2>1. Handling("client", "PUBLISH")
    BY <1>4 DEF HandlePublish
  <2>2. client \in ClientType /\ Packet \in Publication
    BY <2>1, HandlingType, UpKinds
  <2>3. /\ Packet.mid \in Nat /\ Packet.tid \in Ids /\ Packet.qos \in Nat
        /\ Packet.msg \in Message
    BY <2>2 DEF Publication
  <2> DEFINE t == TopicOf(client, Packet.tid)
             d == [client EXCEPT !.waitedPub = Await(@, Packet.mid, Packet.tid)]
             p == [type |-> "PUBLISH", topic |-> t, qos |-> Packet.qos,
                   mid |-> Packet.mid, msg |-> Packet.msg]
             r == [type |-> "PUBACK", mid |-> Packet.mid, ok |-> FALSE]
  <2>4. t \in Topic \cup {None}
    BY DEF TopicOf
  <2>5. Await(client.waitedPub, Packet.mid, Packet.tid) \in SUBSET AwaitedId
    BY <2>2, <2>3, AwaitType DEF ClientType
  <2>6. d \in ClientType
    BY <2>2, <2>5 DEF ClientType
  <2>7. p \in ToBroker /\ r \in DownPacket
    BY <2>3, <2>4 DEF ToBroker, Forwarded, DownPacket, Puback
  <2>8. /\ <<>> \in Seq(DownPacket) /\ <<p>> \in Seq(ToBroker)
        /\ <<r>> \in Seq(DownPacket) /\ <<>> \in Seq(ToBroker)
    BY <2>7, Few
  <2>9. \/ Answer(client, <<r>>, <<>>)
        \/ Answer(client, <<>>, <<p>>)
        \/ Answer(d, <<>>, <<p>>)
    BY <1>4 DEF HandlePublish
  <2> HIDE DEF d, p, r
  <2> QED BY <2>1, <2>2, <2>6, <2>8, <2>9, AnswerType
<1>5. ASSUME NEW type \in {"PUBACK", "PUBREC", "PUBCOMP"}, HandleAck(type)
      PROVE  CalmOK' /\ NetOK' /\ GatewayOK'
  <2>1. Handling("client", type)
    BY <1>5 DEF HandleAck
  <2>2. client \in ClientType /\ Packet \in Ack
    BY <2>1, HandlingType, UpKinds
  <2>3. Packet \in ToBroker
    BY <2>2 DEF ToBroker
  <2>4. <<>> \in Seq(DownPacket) /\ <<Packet>> \in Seq(ToBroker) /\ <<>> \in Seq(ToBroker)
    BY <2>3, Few
  <2>5. Answer(client, <<>>, <<Packet>>) \/ Answer(client, <<>>, <<>>)
    BY <1>5 DEF HandleAck
  <2> QED BY <2>1, <2>2, <2>4, <2>5, AnswerType
<1> QED BY <1>1, <1>2, <1>3, <1>4, <1>5

LEMMA FromBrokerType ==
  ASSUME TypeInv,
         \/ HandleConnack \/ HandleSuback \/ HandlePuback
         \/ HandleCommand \/ HandlePubrel \/ HandleDisconnect
  PROVE  CalmOK' /\ NetOK' /\ GatewayOK'
<1>0. <<>> \in Seq(DownPacket) /\ <<>> \in Seq(ToBroker)
  BY Few
<1>1. CASE HandleConnack
  <2>1. Handling("broker", "CONNACK")
    BY <1>1 DEF HandleConnack
  <2>2. client \in ClientType /\ Packet \in Connack
    BY <2>1, HandlingType, BrokerKinds
  <2> DEFINE d == [client EXCEPT !.status = IF Packet.ok THEN "Active" ELSE "Disconnected"]
  <2>3. d \in ClientType
    BY <2>2 DEF ClientType
  <2>4. <<Packet>> \in Seq(DownPacket)
    BY <2>2, Few DEF DownPacket
  <2>5. Answer(d, <<Packet>>, <<>>)
    BY <1>1 DEF HandleConnack
  <2> HIDE DEF d
  <2> QED BY <1>0, <2>1, <2>3, <2>4, <2>5, AnswerType
<1>2. CASE HandleSuback
  <2>1. Handling("broker", "SUBACK")
    BY <1>2 DEF HandleSuback
  <2>2. client \in ClientType /\ Packet.mid \in Nat
    BY <2>1, HandlingType, BrokerKinds DEF BrokerAck
  <2> DEFINE es == Awaited(client.waitedSub, Packet.mid)
             d == [client EXCEPT !.waitedSub = @ \ es]
             p == [type |-> "SUBACK", tid |-> (CHOOSE e \in es : TRUE).tid, mid |-> Packet.mid]
  <2>3. client.waitedSub \in SUBSET AwaitedId /\ es \subseteq client.waitedSub
    BY <2>2 DEF ClientType, Awaited
  <2>4. d \in ClientType
    <3>1. client.waitedSub \ es \in SUBSET AwaitedId
      BY <2>3
    <3> HIDE DEF es
    <3> QED BY <2>2, <3>1 DEF ClientType
  <2>5. es # {} => <<p>> \in Seq(DownPacket)
    <3>1. es # {} => (CHOOSE e \in es : TRUE) \in AwaitedId
      BY <2>3
    <3> HIDE DEF es
    <3>2. es # {} => p \in DownPacket
      BY <2>2, <3>1 DEF AwaitedId, DownPacket, IdGiven
    <3> QED BY <3>2, Few
  <2>6. Answer(d, IF es = {} THEN <<>> ELSE <<p>>, <<>>)
    BY <1>2 DEF HandleSuback
  <2>7. (IF es = {} THEN <<>> ELSE <<p>>) \in Seq(DownPacket)
    BY <1>0, <2>5
  <2> HIDE DEF d, p, es
  <2> QED BY <1>0, <2>1, <2>4, <2>6, <2>7, AnswerType
<1>3. CASE HandlePuback
  <2>1. Handling("broker", "PUBACK")
    BY <1>3 DEF HandlePuback
  <2>2. client \in ClientType /\ Packet.mid \in Nat
    BY <2>1, HandlingType, BrokerKinds DEF BrokerAck
  <2> DEFINE es == Awaited(client.waitedPub, Packet.mid)
             d == [client EXCEPT !.waitedPub = @ \ es]
             p == [type |-> "PUBACK", mid |-> Packet.mid, ok |-> TRUE]
  <2>3. client.waitedPub \ es \in SUBSET AwaitedId
    BY <2>2 DEF ClientType
  <2>4. d \in ClientType
    <3> HIDE DEF es
    <3> QED BY <2>2, <2>3 DEF ClientType
  <2>5. p \in DownPacket
    BY <2>2 DEF DownPacket, Puback
  <2>6. Answer(d, IF es = {} THEN <<>> ELSE <<p>>, <<>>)
    BY <1>3 DEF HandlePuback
  <2>7. (IF es = {} THEN <<>> ELSE <<p>>) \in Seq(DownPacket)
    BY <1>0, <2>5, Few
  <2> HIDE DEF d, p, es
  <2> QED BY <1>0, <2>1, <2>4, <2>6, <2>7, AnswerType
<1>4. CASE HandleCommand
  <2>1. Handling("broker", "PUBLISH")
    BY <1>4 DEF HandleCommand
  <2>2. client \in ClientType /\ Packet \in CommandTaken
    BY <2>1, HandlingType, BrokerKinds
  <2>3. /\ Packet.topic \in Topic /\ Packet.qos \in Nat /\ Packet.mid \in Nat
        /\ Packet.cmd \in Message
    BY <2>2, Roles DEF CommandTaken
  <2> DEFINE a == [type |-> IF Packet.qos = 1 THEN "PUBACK" ELSE "PUBREC", mid |-> Packet.mid]
             p == [type |-> "PUBLISH", tid |-> client.ids[Packet.topic],
                   qos |-> Packet.qos, mid |-> Packet.mid, cmd |-> Packet.cmd]
  <2>4. a \in ToBroker
    BY <2>3 DEF ToBroker, Ack
  <2>5. client.ids[Packet.topic] \in Ids
    BY <2>2, <2>3 DEF ClientType
  <2>6. p \in DownPacket
    BY <2>3, <2>5 DEF DownPacket, CommandSent
  <2>7. <<a>> \in Seq(ToBroker) /\ <<p>> \in Seq(DownPacket)
    BY <2>4, <2>6, Few
  <2>8. \/ Answer(client, <<>>, <<>>)
        \/ Answer(client, <<>>, <<a>>)
        \/ Answer(client, <<p>>, <<>>)
    BY <1>4 DEF HandleCommand
  <2> HIDE DEF a, p
  <2> QED BY <1>0, <2>1, <2>2, <2>7, <2>8, AnswerType
<1>5. CASE HandlePubrel
  <2>1. Handling("broker", "PUBREL")
    BY <1>5 DEF HandlePubrel
  <2>2. client \in ClientType /\ Packet \in BrokerAck /\ Packet.type = "PUBREL"
    BY <2>1, HandlingType, BrokerKinds
  <2>3. Packet \in DownPacket
    BY <2>2 DEF BrokerAck, DownPacket, Pubrel
  <2>4. <<Packet>> \in Seq(DownPacket)
    BY <2>3, Few
  <2>5. Answer(client, <<Packet>>, <<>>) \/ Answer(client, <<>>, <<>>)
    BY <1>5 DEF HandlePubrel
  <2> QED BY <1>0, <2>1, <2>2, <2>4, <2>5, AnswerType
<1>6. CASE HandleDisconnect
  <2>1. Handling("broker", "DISCONNECT") /\ client \in ClientType
    BY <1>6, HandlingType DEF HandleDisconnect
  <2> DEFINE d == [client EXCEPT !.status = "Disconnected"]
  <2>2. d \in ClientType
    BY <2>1 DEF ClientType
  <2>3. Answer(d, <<>>, <<>>)
    BY <1>6 DEF HandleDisconnect
  <2> HIDE DEF d
  <2> QED BY <1>0, <2>1, <2>2, <2>3, AnswerType
<1> QED BY <1>1, <1>2, <1>3, <1>4, <1>5, <1>6

LEMMA ClientRecvType ==
  ASSUME TypeInv, ClientRecvTask
  PROVE  CalmOK' /\ NetOK' /\ GatewayOK'
<1>0. CalmOK /\ NetOK /\ GatewayOK /\ up \in Seq(UpPacket) /\ up # <<>>
  BY DEF TypeInv, NetOK, ClientRecvTask
<1>1. Head(up) \in UpPacket /\ up' \in Seq(UpPacket)
  BY <1>0, Taken DEF ClientRecvTask
<1>2. UNCHANGED <<calm, brokerQ, sending, closing, brokerVars>> /\ CalmOK'
  BY <1>0, CalmKept DEF ClientRecvTask
<1>3. ASSUME UNCHANGED <<client, packetQ>>
      PROVE  GatewayOK'
  BY <1>0, <1>2, <1>3 DEF GatewayOK, brokerVars, NoSession
<1>4. CASE UNCHANGED <<client, packetQ, down>>
  BY <1>0, <1>1, <1>2, <1>3, <1>4 DEF NetOK
<1>5. CASE down' = Append(down, [type |-> "DISCONNECT"]) /\ UNCHANGED <<client, packetQ>>
  <2>1. [type |-> "DISCONNECT"] \in DownPacket
    BY DEF DownPacket, Disconnect
  <2>2. down' \in Seq(DownPacket)
    BY <1>0, <1>5, <2>1, Added DEF NetOK
  <2> QED BY <1>1, <1>2, <1>3, <1>5, <2>2 DEF NetOK
<1>6. CASE /\ client' = IF client = None THEN NewClient ELSE client
           /\ packetQ' = Append(packetQ, [from |-> "client", packet |-> Head(up)])
           /\ UNCHANGED down
  <2>1. [from |-> "client", packet |-> Head(up)] \in GatewayEvent
    BY <1>1 DEF GatewayEvent
  <2>2. packetQ' \in Seq(GatewayEvent)
    BY <1>0, <1>6, <2>1, Added DEF GatewayOK
  <2>3. client' \in ClientType
    BY <1>0, <1>6, NewClientType DEF GatewayOK
  <2>4. GatewayOK'
    BY <1>0, <1>2, <2>2, <2>3 DEF GatewayOK, brokerVars, NoSession
  <2> QED BY <1>0, <1>1, <1>2, <1>6, <2>4 DEF NetOK
<1> QED BY <1>4, <1>5, <1>6 DEF ClientRecvTask

LEMMA NoSessionType == NoSession \in BrokerType
BY DEF NoSession, BrokerType

LEMMA StatusType ==
  ASSUME NEW c \in ClientType, NEW s \in {"Disconnected", "Connecting", "Active"}
  PROVE  [c EXCEPT !.status = s] \in ClientType
BY DEF ClientType

(* What an answer of the broker adds to its queue.                         *)
LEMMA FromBrokerTypes ==
  /\ EOF \in FromBroker
  /\ \A ok \in BOOLEAN : [type |-> "CONNACK", ok |-> ok] \in FromBroker
BY DEF EOF, FromBroker, BrokerPacket, Connack

LEMMA ReplyType ==
  ASSUME NEW p \in ToBroker, p.type # "CONNECT"
  PROVE  Reply(p) \in Seq(FromBroker)
<1>1. p.mid \in Nat
  BY ToBrokerKinds DEF Subscription, Forwarded, Ack
<1>2. \A t \in {"SUBACK", "PUBACK", "PUBREL"} : [type |-> t, mid |-> p.mid] \in FromBroker
  BY <1>1 DEF FromBroker, BrokerPacket, BrokerAck
<1>3. /\ <<>> \in Seq(FromBroker)
      /\ \A t \in {"SUBACK", "PUBACK", "PUBREL"} : <<[type |-> t, mid |-> p.mid]>> \in Seq(FromBroker)
  BY <1>2, Few
<1>4. Reply(p) = <<>> \/ \E t \in {"SUBACK", "PUBACK", "PUBREL"} : Reply(p) = <<[type |-> t, mid |-> p.mid]>>
  BY DEF Reply
<1> QED BY <1>3, <1>4

(* What the broker does keeps the types of its side.                       *)
BrokerSide ==
  /\ link \in {"none", "open", "closed"}
  /\ fromBroker \in Seq(FromBroker)
  /\ broker \in BrokerType /\ (link # "open" => broker = NoSession)
  /\ commands \in [Command -> Nat]

LEMMA CloseByBrokerType ==
  ASSUME BrokerSide, CloseByBroker
  PROVE  BrokerSide'
<1>1. fromBroker' \in Seq(FromBroker)
  BY Added, FromBrokerTypes DEF BrokerSide, CloseByBroker
<1> QED BY <1>1, NoSessionType DEF BrokerSide, CloseByBroker, NoSession

LEMMA TakeConnectType ==
  ASSUME BrokerSide, NEW ok \in BOOLEAN, TakeConnect(ok)
  PROVE  BrokerSide'
<1> DEFINE a == <<[type |-> "CONNACK", ok |-> ok]>>
           b == IF ok THEN <<>> ELSE <<EOF>>
<1>1. a \in Seq(FromBroker) /\ b \in Seq(FromBroker)
  BY FromBrokerTypes, Few
<1>2. fromBroker' = a \o b
  BY DEF TakeConnect
<1> HIDE DEF a, b
<1>3. fromBroker' \in Seq(FromBroker)
  BY <1>1, <1>2, Joined
<1>4. broker' \in BrokerType /\ (~ok => broker' = NoSession)
  BY NoSessionType DEF TakeConnect, BrokerType, NoSession
<1> QED BY <1>3, <1>4 DEF BrokerSide, TakeConnect, NoSession

LEMMA TakePacketType ==
  ASSUME BrokerSide, link = "open", NEW p \in ToBroker, p.type # "CONNECT", TakePacket(p)
  PROVE  BrokerSide'
<1>1. fromBroker' \in Seq(FromBroker)
  BY ReplyType, Joined DEF TakePacket, BrokerSide
<1> DEFINE subs == IF p.type = "SUBSCRIBE" THEN broker.subs \cup {p.topic} ELSE broker.subs
           flight == {e \in broker.inflight : ~Settles(e, p)}
<1>2. broker' = [broker EXCEPT !.subs = subs, !.inflight = flight]
  BY DEF TakePacket
<1>3. p.type = "SUBSCRIBE" => p.topic \in Command
  BY ToBrokerKinds DEF Subscription
<1>4. subs \in SUBSET Command /\ flight \in SUBSET [mid : Nat, cmd : Message]
  BY <1>3 DEF BrokerSide, BrokerType
<1> HIDE DEF subs, flight
<1>5. broker' \in BrokerType
  BY <1>2, <1>4 DEF BrokerSide, BrokerType
<1> QED BY <1>1, <1>5 DEF TakePacket, BrokerSide

LEMMA SideIsGateways == GatewayOK => BrokerSide
BY DEF GatewayOK, BrokerSide

LEMMA BrokerSendType ==
  ASSUME TypeInv, BrokerSendTask
  PROVE  CalmOK' /\ NetOK' /\ GatewayOK'
<1>0. /\ CalmOK /\ NetOK /\ GatewayOK /\ BrokerSide
      /\ brokerQ \in Seq(ToBroker) /\ brokerQ # <<>> /\ client \in ClientType
  BY SideIsGateways DEF TypeInv, GatewayOK, BrokerSendTask
<1>1. Head(brokerQ) \in ToBroker /\ brokerQ' \in Seq(ToBroker)
  BY <1>0, Taken DEF BrokerSendTask
<1>2. UNCHANGED <<up, down, closing>> /\ NetOK'
  BY <1>0 DEF BrokerSendTask, NetOK
<1>3. SUFFICES /\ CalmOK' /\ BrokerSide' /\ sending' \in BOOLEAN
               /\ packetQ' \in Seq(GatewayEvent) /\ client' \in ClientType
  BY <1>0, <1>1, <1>2 DEF GatewayOK, BrokerSide
<1>4. Connecting \in ClientType
  BY <1>0, StatusType DEF Connecting
<1>5. packetQ \in Seq(GatewayEvent) /\ sending \in BOOLEAN
  BY <1>0 DEF GatewayOK
<1>6. CASE SendConnect
  <2>1. BrokerSide'
    BY <1>0, <1>6, TakeConnectType DEF SendConnect
  <2>2. CalmOK'
    BY <1>0, <1>6, CalmKept, FaultType DEF SendConnect
  <2> QED BY <1>0, <1>4, <1>5, <1>6, <2>1, <2>2 DEF SendConnect
<1>7. CASE SendPacket
  <2>0. CalmOK' /\ sending' = sending /\ client' = client
    BY <1>0, <1>7, CalmKept DEF SendPacket
  <2>1. CASE /\ link = "open" /\ UNCHANGED packetQ
             /\ IF Broken(Head(brokerQ)) THEN CloseByBroker ELSE TakePacket(Head(brokerQ))
    <3>1. BrokerSide'
      BY <1>0, <1>1, <1>7, <2>1, CloseByBrokerType, TakePacketType DEF SendPacket
    <3> QED BY <1>0, <1>5, <2>0, <2>1, <3>1
  <2>2. CASE CloseByBroker /\ UNCHANGED packetQ
    BY <1>0, <1>5, <2>0, <2>2, CloseByBrokerType
  <2>3. CASE UNCHANGED <<packetQ, brokerVars>>
    <3>1. BrokerSide'
      BY <1>0, <2>3 DEF BrokerSide, brokerVars, NoSession
    <3> QED BY <1>0, <1>5, <2>0, <2>3, <3>1
  <2>4. CASE /\ link = "closed" /\ link' = "none" /\ fromBroker' = <<>>
             /\ packetQ' = Append(packetQ,
                             [from |-> "broker", packet |-> [type |-> "DISCONNECT"]])
             /\ UNCHANGED <<broker, commands, published, received>>
    <3>1. [from |-> "broker", packet |-> [type |-> "DISCONNECT"]] \in GatewayEvent
      BY DEF GatewayEvent, Disconnect
    <3>2. packetQ' \in Seq(GatewayEvent)
      BY <1>5, <2>4, <3>1, Added
    <3>3. BrokerSide'
      BY <1>0, <2>4, Few DEF BrokerSide, NoSession
    <3> QED BY <1>0, <1>5, <2>0, <3>2, <3>3
  <2> QED BY <1>7, <2>1, <2>2, <2>3, <2>4 DEF SendPacket
<1>8. CASE SendFails
  <2>1. BrokerSide'
    BY <1>0, <1>8, NoSessionType, Few DEF SendFails, BrokerSide, NoSession
  <2> QED BY <1>0, <1>5, <1>8, <2>1, FaultType DEF SendFails
<1> QED BY <1>6, <1>7, <1>8 DEF BrokerSendTask

LEMMA ConnectSendedType ==
  ASSUME TypeInv, ConnectSended
  PROVE  CalmOK' /\ NetOK' /\ GatewayOK'
<1>1. CalmOK' /\ NetOK'
  BY DEF TypeInv, ConnectSended, netVars, CalmOK, NetOK
<1>2. GatewayOK /\ client \in ClientType
  BY DEF TypeInv, GatewayOK, ConnectSended
<1>3. client' \in ClientType
  BY <1>2, StatusType DEF ConnectSended, Connecting
<1> QED BY <1>1, <1>2, <1>3 DEF ConnectSended, GatewayOK, brokerVars, NoSession

LEMMA CloseType ==
  ASSUME TypeInv, client \in ClientType, CloseAndDisconnect, closing' \in BOOLEAN
  PROVE  NetOK' /\ GatewayOK'
<1>1. client' \in ClientType
  BY StatusType DEF CloseAndDisconnect
<1>2. NetOK'
  BY DEF TypeInv, NetOK, CloseAndDisconnect
<1> QED BY <1>1, <1>2, NoSessionType, Few DEF TypeInv, GatewayOK, CloseAndDisconnect, NoSession

LEMMA BrokerRecvType ==
  ASSUME TypeInv, BrokerRecvTask
  PROVE  CalmOK' /\ NetOK' /\ GatewayOK'
<1>0. /\ CalmOK /\ NetOK /\ GatewayOK
      /\ fromBroker \in Seq(FromBroker) /\ fromBroker # <<>> /\ client \in ClientType
  BY DEF TypeInv, GatewayOK, BrokerRecvTask, ReadPacket, ReadEof
<1>1. Head(fromBroker) \in FromBroker /\ Tail(fromBroker) \in Seq(FromBroker)
  BY <1>0, Taken
<1>2. CASE ReadPacket
  <2>1. Head(fromBroker) \in BrokerPacket
    <3>1. Head(fromBroker) # EOF
      BY <1>2 DEF ReadPacket
    <3>2. \A e \in [type : {"EOF"}] : e = EOF
      BY DEF EOF
    <3> QED BY <1>1, <3>1, <3>2 DEF FromBroker
  <2>2. [from |-> "broker", packet |-> Head(fromBroker)] \in GatewayEvent
    BY <2>1 DEF GatewayEvent
  <2>3. packetQ' \in Seq(GatewayEvent)
    BY <1>0, <1>2, <2>2, Added DEF ReadPacket, GatewayOK
  <2>4. CalmOK' /\ NetOK'
    BY <1>0, <1>2 DEF ReadPacket, netVars, CalmOK, NetOK
  <2>5. GatewayOK'
    BY <1>0, <1>1, <1>2, <2>3 DEF ReadPacket, GatewayOK, NoSession
  <2> QED BY <2>4, <2>5
<1>3. CASE ReadEof
  <2>1. CASE CloseAndDisconnect /\ UNCHANGED <<calm, closing>>
    BY <1>0, <2>1, CloseType, CalmKept DEF GatewayOK
  <2>2. CASE /\ Fault("preempted") /\ closing' = TRUE /\ fromBroker' = <<>>
             /\ UNCHANGED <<up, down, client, packetQ, brokerQ, sending,
                            link, broker, commands, published, received>>
    <3>1. CalmOK' /\ NetOK'
      BY <1>0, <2>2, FaultType DEF NetOK
    <3> QED BY <1>0, <2>2, <3>1, Few DEF GatewayOK, NoSession
  <2> QED BY <1>3, <2>1, <2>2 DEF ReadEof
<1> QED BY <1>2, <1>3 DEF BrokerRecvTask

LEMMA BrokerRecvCloseType ==
  ASSUME TypeInv, BrokerRecvClose
  PROVE  CalmOK' /\ NetOK' /\ GatewayOK'
BY CloseType, CalmKept DEF TypeInv, GatewayOK, BrokerRecvClose

LEMMA CommandArrivesType ==
  ASSUME TypeInv, NEW t \in Command, CommandArrives(t)
  PROVE  CalmOK' /\ NetOK' /\ GatewayOK'
<1>0. CalmOK /\ NetOK /\ GatewayOK /\ commands[t] \in Nat /\ commands[t] > 0
  BY DEF TypeInv, GatewayOK, CommandArrives
<1> DEFINE cmd == [topic |-> t, n |-> commands[t]]
           mid == broker.lastMid + 1
           p == [type |-> "PUBLISH", topic |-> t, qos |-> IF t = Cmd1 THEN 1 ELSE 2,
                 mid |-> mid, cmd |-> cmd]
<1>1. link = "open"
  BY <1>0 DEF CommandArrives, GatewayOK, NoSession
<1>2. client \in ClientType
  BY <1>0, <1>1 DEF GatewayOK
<1>3. cmd \in Message /\ mid \in Nat
  BY <1>0, Roles DEF GatewayOK, BrokerType, Message
<1>4. p \in FromBroker
  BY <1>3 DEF FromBroker, BrokerPacket, CommandTaken
<1>5. fromBroker' \in Seq(FromBroker)
  <2>1. fromBroker' = Append(fromBroker, p)
    BY DEF CommandArrives
  <2> HIDE DEF p
  <2> QED BY <1>0, <1>4, <2>1, Added DEF GatewayOK
<1>6. broker' \in BrokerType
  <2>1. broker' = [broker EXCEPT !.lastMid = mid,
                    !.inflight = broker.inflight \cup {[mid |-> mid, cmd |-> cmd]}]
    BY DEF CommandArrives
  <2>2. [mid |-> mid, cmd |-> cmd] \in [mid : Nat, cmd : Message]
    BY <1>3
  <2>3. broker.inflight \cup {[mid |-> mid, cmd |-> cmd]} \in SUBSET [mid : Nat, cmd : Message]
    BY <1>0, <2>2 DEF GatewayOK, BrokerType
  <2> HIDE DEF mid, cmd
  <2> QED BY <1>0, <1>3, <2>1, <2>3 DEF GatewayOK, BrokerType
<1>7. commands' \in [Command -> Nat]
  BY <1>0 DEF CommandArrives, GatewayOK
<1>8. CalmOK' /\ NetOK'
  BY <1>0 DEF CommandArrives, netVars, CalmOK, NetOK
<1>9. UNCHANGED <<client, packetQ, brokerQ, sending, closing, link>>
  BY DEF CommandArrives, pahoVars
<1> QED BY <1>0, <1>1, <1>2, <1>5, <1>6, <1>7, <1>8, <1>9 DEF GatewayOK

LEMMA BrokerDropsType ==
  ASSUME TypeInv, BrokerDrops
  PROVE  CalmOK' /\ NetOK' /\ GatewayOK'
<1>0. CalmOK /\ NetOK /\ GatewayOK /\ BrokerSide /\ client \in ClientType
  BY SideIsGateways DEF TypeInv, GatewayOK, BrokerDrops
<1>1. CalmOK' /\ NetOK' /\ BrokerSide'
  BY <1>0, FaultType, CloseByBrokerType DEF BrokerDrops, NetOK
<1> QED BY <1>0, <1>1 DEF BrokerDrops, pahoVars, GatewayOK, BrokerSide

LEMMA GatewayRestartType ==
  ASSUME TypeInv, GatewayRestart
  PROVE  CalmOK' /\ NetOK' /\ GatewayOK'
BY FaultType, NoSessionType, Few DEF TypeInv, GatewayRestart, NetOK, GatewayOK, NoSession

(***************************************************************************)
(* Everything a session stores has its type, whatever the client, the      *)
(* faults and their number.                                                *)
(***************************************************************************)
LEMMA TypeInvInit == Init => TypeInv
<1> SUFFICES ASSUME Init PROVE TypeInv
  OBVIOUS
<1>1. scenario \in Scenarios
  BY DEF Init, NetInit
<1>2. CalmOK /\ NetOK
  BY <1>1, SessionAssumption, Few DEF Init, NetInit, CalmOK, NetOK
<1>3. GatewayOK
  BY <1>1, SessionAssumption, Few, NoSessionType DEF Init, GatewayInit, GatewayOK
<1>4. ArdOK
  BY UnregisteredType, ArduinoAssumption DEF Init, ArdInit, ArdOK, NothingOwed
<1>5. PicoOK
  BY Few DEF Init, PicoInit, PicoOK
<1> QED BY <1>2, <1>3, <1>4, <1>5 DEF TypeInv

LEMMA TypeInvStep == TypeInv /\ [Next]_vars => TypeInv'
<1> SUFFICES ASSUME TypeInv, [Next]_vars PROVE TypeInv'
  OBVIOUS
<1>0. CalmOK /\ NetOK /\ GatewayOK /\ ArdOK /\ PicoOK
  BY DEF TypeInv
<1>1. CASE Client
  <2>1. CASE ArduinoLoop
    BY <1>0, <2>1, ArdLoopType, GatewayKept, PicoKept DEF ArduinoLoop, TypeInv
  <2>2. CASE ArduinoReceive
    BY <1>0, <2>2, ArdReceiveType, GatewayKept, PicoKept DEF ArduinoReceive, TypeInv
  <2>3. CASE ArduinoTimer(InTime)
    BY <1>0, <2>3, ArdTimeoutType, GatewayKept, PicoKept, CalmKept
    DEF ArduinoTimer, InTime, TypeInv
  <2>4. CASE ArduinoPublish
    BY <1>0, <2>4, ArdPublishType, GatewayKept, PicoKept DEF ArduinoPublish, TypeInv
  <2>5. CASE PicoLoop
    BY <1>0, <2>5, PicoTaskType, GatewayKept, ArdKept DEF PicoLoop, TypeInv
  <2>6. CASE PicoCallback
    BY <1>0, <2>6, PicoReceiveType, GatewayKept, ArdKept DEF PicoCallback, TypeInv
  <2>7. CASE PicoTimer(InTime)
    BY <1>0, <2>7, PicoTimeoutType, GatewayKept, ArdKept, CalmKept
    DEF PicoTimer, InTime, TypeInv
  <2>8. CASE PicoButton
    BY <1>0, <2>8, PicoPublishType, GatewayKept, ArdKept DEF PicoButton, TypeInv
  <2> QED BY <1>1, <2>1, <2>2, <2>3, <2>4, <2>5, <2>6, <2>7, <2>8 DEF Client
<1>2. CASE Gateway
  <2>1. CASE ClientRecvTask /\ UNCHANGED <<ardVars, picoVars>>
    BY <1>0, <2>1, ClientRecvType, ArdKept, PicoKept DEF TypeInv
  <2>2. CASE PacketHandleTask /\ UNCHANGED <<ardVars, picoVars>>
    <3>1. CalmOK' /\ NetOK' /\ GatewayOK'
      BY <2>2, FromClientType, FromBrokerType DEF PacketHandleTask
    <3> QED BY <1>0, <2>2, <3>1, ArdKept, PicoKept DEF TypeInv
  <2>3. CASE BrokerSendTask /\ UNCHANGED <<ardVars, picoVars>>
    BY <1>0, <2>3, BrokerSendType, ArdKept, PicoKept DEF TypeInv
  <2>4. CASE ConnectSended /\ UNCHANGED <<ardVars, picoVars>>
    BY <1>0, <2>4, ConnectSendedType, ArdKept, PicoKept DEF TypeInv
  <2>5. CASE BrokerRecvTask /\ UNCHANGED <<ardVars, picoVars>>
    BY <1>0, <2>5, BrokerRecvType, ArdKept, PicoKept DEF TypeInv
  <2>6. CASE BrokerRecvClose /\ UNCHANGED <<ardVars, picoVars>>
    BY <1>0, <2>6, BrokerRecvCloseType, ArdKept, PicoKept DEF TypeInv
  <2> QED BY <1>2, <2>1, <2>2, <2>3, <2>4, <2>5, <2>6 DEF Gateway, GatewayStep
<1>3. CASE Environment
  <2>1. CASE ArduinoTimer(Early)
    BY <1>0, <2>1, ArdTimeoutType, GatewayKept, PicoKept, FaultType
    DEF ArduinoTimer, Early, TypeInv
  <2>2. CASE ArduinoReboot
    BY <1>0, <2>2, ArdRebootType, GatewayKept, PicoKept DEF ArduinoReboot, TypeInv
  <2>3. CASE PicoTimer(Early)
    BY <1>0, <2>3, PicoTimeoutType, GatewayKept, ArdKept, FaultType
    DEF PicoTimer, Early, TypeInv
  <2>4. CASE PicoPowerCycle
    BY <1>0, <2>4, PicoRebootType, GatewayKept, ArdKept DEF PicoPowerCycle, TypeInv
  <2>5. ASSUME NEW t \in Command, CommandArrives(t), UNCHANGED <<ardVars, picoVars>>
        PROVE  TypeInv'
    BY <1>0, <2>5, CommandArrivesType, ArdKept, PicoKept DEF TypeInv
  <2>6. CASE BrokerDrops /\ UNCHANGED <<ardVars, picoVars>>
    BY <1>0, <2>6, BrokerDropsType, ArdKept, PicoKept DEF TypeInv
  <2>7. CASE GatewayRestart /\ UNCHANGED <<ardVars, picoVars>>
    BY <1>0, <2>7, GatewayRestartType, ArdKept, PicoKept DEF TypeInv
  <2>8. CASE NetFault /\ UNCHANGED <<gatewayVars, ardVars, picoVars>>
    BY <1>0, <2>8, NetFaultType, GatewayKept, ArdKept, PicoKept DEF TypeInv
  <2> QED BY <1>3, <2>1, <2>2, <2>3, <2>4, <2>5, <2>6, <2>7, <2>8
          DEF Environment, GatewayStep
<1>4. CASE UNCHANGED vars
  <2>1. CalmOK' /\ NetOK'
    BY <1>0, <1>4 DEF vars, netVars, CalmOK, NetOK
  <2> QED BY <1>0, <1>4, <2>1, GatewayKept, ArdKept, PicoKept DEF vars, TypeInv
<1> QED BY <1>1, <1>2, <1>3, <1>4 DEF Next

(* Each piece of the state of the clients, the network, the gateway and    *)
(* the broker keeps its type under all faults, for either client.          *)
THEOREM TypeInvHolds == Spec => []TypeInv
BY TypeInvInit, TypeInvStep, PTL DEF Spec

(* Whatever the client, the faults and their number, what the clients, the *)
(* gateway and the broker store keeps its type and its 16 bits.            *)
THEOREM TypesHold == Spec => []TypeOK
<1>1. TypeInv => TypeOK
  <2> SUFFICES ASSUME TypeInv PROVE TypeOK
    OBVIOUS
  <2>1. Ids \subseteq U16
    BY DEF Ids, U16
  <2>2. client # None =>
          /\ client.status \in {"Disconnected", "Connecting", "Active"}
          /\ client.ids \in [Topic -> U16] /\ client.lastId \in U16
    BY <2>1 DEF TypeInv, GatewayOK, ClientType
  <2>3. table # None => table \in [Topic -> [id : U16, mid : 0 .. MaxMid]]
    BY <2>1 DEF TypeInv, ArdOK, TableType
  <2>4. pend # None => pend.retries \in 0 .. MaxRetries
    BY DEF TypeInv, ArdOK, PendingType
  <2>5. broker.subs \subseteq Command /\ (link # "open" => broker = NoSession)
    BY DEF TypeInv, GatewayOK, BrokerType
  <2>6. /\ scenario \in Scenarios
        /\ left \in 0 .. scenario.count /\ seen \subseteq Faults
        /\ sending \in BOOLEAN /\ closing \in BOOLEAN
        /\ link \in {"none", "open", "closed"}
        /\ st \in {"INIT", "CONNECTING", "REGISTERING", "READY"}
        /\ nextMid \in 1 .. MaxMid
        /\ phase \in 0 .. Reps + 1
        /\ task \in {"boot", "wait", "register", "run"}
    BY DEF TypeInv, CalmOK, GatewayOK, ArdOK, PicoOK
  <2> QED BY <2>2, <2>3, <2>4, <2>5, <2>6 DEF TypeOK
<1> QED BY <1>1, TypeInvHolds, PTL

(***************************************************************************)
(* Whose an id is.  A world remembers for which topic each message id was  *)
(* used in a request (own) and to which topic the gateway gave each topic  *)
(* id (names); mids and ids are the last of them.  It only grows, so what  *)
(* holds of a packet in one world holds in all later ones.                 *)
(***************************************************************************)
World == [own : [Nat -> Topic], names : [Nat -> Topic], mids : Nat, ids : Nat]

AskedFor(w, mid, t) == mid \in 1 .. w.mids /\ w.own[mid] = t

Names(w, id, t) == id \in 1 .. w.ids /\ w.names[id] = t

Answers(w, mid, id) == \E t \in Topic : AskedFor(w, mid, t) /\ Names(w, id, t)

Grows(w, v) ==
  /\ \A mid, t : AskedFor(w, mid, t) => AskedFor(v, mid, t)
  /\ \A id, t : Names(w, id, t) => Names(v, id, t)

(* Packets, clients and tables that are right about the world.             *)
Ups(w) ==
  {p \in UpPacket : /\ p.type \in {"REGISTER", "SUBSCRIBE"} => AskedFor(w, p.mid, p.topic)
                    /\ p.type = "PUBLISH" => p.tid = 0 \/ Names(w, p.tid, p.msg.topic)}

Downs(w) ==
  {p \in DownPacket : p.type \in {"REGACK", "SUBACK"} => Answers(w, p.mid, p.tid)}

Events(w) == {e \in GatewayEvent : e.from = "client" => e.packet \in Ups(w)}

Forwards == {p \in ToBroker : p.type = "PUBLISH" => p.topic \in {None, p.msg.topic}}

Clients(w) ==
  {c \in ClientType : /\ \A t \in Topic : c.ids[t] # 0 => Names(w, c.ids[t], t)
                      /\ \A e \in c.waitedSub : Answers(w, e.mid, e.tid)}

Tables(w) ==
  {tab \in TableType : \A t \in Topic :
     /\ tab[t].id # 0 => Names(w, tab[t].id, t)
     /\ tab[t].mid # 0 => AskedFor(w, tab[t].mid, t)}

Last == IF client = None THEN 0 ELSE client.lastId

NetIds(w) == up \in Seq(Ups(w)) /\ down \in Seq(Downs(w))

GatewayIds(w) ==
  /\ w.ids = Last
  /\ packetQ \in Seq(Events(w)) /\ brokerQ \in Seq(Forwards)
  /\ client # None => client \in Clients(w)
  /\ \A p \in published : p.topic = p.msg.topic

ArdIds(w) ==
  /\ w.mids = nextMid - 1
  /\ table # None => table \in Tables(w)
  /\ pend # None => pend.packet \in Ups(w)

IdInv(w) == NetIds(w) /\ GatewayIds(w) /\ ArdIds(w)

(* Neither of the two numbers has gone round.                              *)
NoWrap == nextMid < MaxMid /\ (client # None => client.lastId < 65534)

LEMMA ClientIsThere ==
  ASSUME NEW c \in ClientType
  PROVE  c # None
<1>1. Ids \subseteq Nat
  BY DEF Ids
<1>2. AwaitedId \subseteq [mid : Nat, tid : Nat]
  BY <1>1 DEF AwaitedId
<1>3. c \in ClientObject
  BY <1>1, <1>2 DEF ClientObject, ClientType
<1> QED BY <1>3, PahoAssumption

LEMMA GrowsSets ==
  ASSUME NEW w, NEW v, Grows(w, v)
  PROVE  /\ Ups(w) \subseteq Ups(v) /\ Downs(w) \subseteq Downs(v)
         /\ Events(w) \subseteq Events(v)
         /\ Clients(w) \subseteq Clients(v) /\ Tables(w) \subseteq Tables(v)
<1>1. Ups(w) \subseteq Ups(v)
  BY DEF Grows, Ups
<1>2. Downs(w) \subseteq Downs(v)
  BY DEF Grows, Downs, Answers
<1>3. Events(w) \subseteq Events(v)
  BY <1>1 DEF Events
<1>4. Clients(w) \subseteq Clients(v)
  BY DEF Grows, Clients, Answers
<1>5. Tables(w) \subseteq Tables(v)
  BY DEF Grows, Tables
<1> QED BY <1>1, <1>2, <1>3, <1>4, <1>5

LEMMA GrowsSeqs ==
  ASSUME NEW w, NEW v, Grows(w, v)
  PROVE  /\ Seq(Ups(w)) \subseteq Seq(Ups(v)) /\ Seq(Downs(w)) \subseteq Seq(Downs(v))
         /\ Seq(Events(w)) \subseteq Seq(Events(v))
BY GrowsSets, SeqMonotonic

(* A message id used for the first time.                                   *)
LEMMA NewRequest ==
  ASSUME NEW w \in World, NEW t \in Topic
  PROVE  \E v \in World : /\ Grows(w, v) /\ v.ids = w.ids /\ v.mids = w.mids + 1
                          /\ AskedFor(v, w.mids + 1, t)
<1> DEFINE o == [w.own EXCEPT ![w.mids + 1] = t]
           v == [own |-> o, names |-> w.names, mids |-> w.mids + 1, ids |-> w.ids]
<1>1. w.mids \in Nat /\ w.ids \in Nat /\ w.own \in [Nat -> Topic] /\ w.names \in [Nat -> Topic]
  BY DEF World
<1>2. o \in [Nat -> Topic] /\ o[w.mids + 1] = t /\ \A m \in 1 .. w.mids : o[m] = w.own[m]
  BY <1>1
<1>3. v \in World
  BY <1>1, <1>2 DEF World
<1> HIDE DEF o
<1>4. Grows(w, v) /\ AskedFor(v, w.mids + 1, t)
  BY <1>1, <1>2 DEF Grows, AskedFor, Names
<1> QED BY <1>3, <1>4

(* A topic id given for the first time.                                    *)
LEMMA NewId ==
  ASSUME NEW w \in World, NEW t \in Topic
  PROVE  \E v \in World : /\ Grows(w, v) /\ v.mids = w.mids /\ v.ids = w.ids + 1
                          /\ Names(v, w.ids + 1, t)
<1> DEFINE o == [w.names EXCEPT ![w.ids + 1] = t]
           v == [own |-> w.own, names |-> o, mids |-> w.mids, ids |-> w.ids + 1]
<1>1. w.mids \in Nat /\ w.ids \in Nat /\ w.own \in [Nat -> Topic] /\ w.names \in [Nat -> Topic]
  BY DEF World
<1>2. o \in [Nat -> Topic] /\ o[w.ids + 1] = t /\ \A m \in 1 .. w.ids : o[m] = w.names[m]
  BY <1>1
<1>3. v \in World
  BY <1>1, <1>2 DEF World
<1> HIDE DEF o
<1>4. Grows(w, v) /\ Names(v, w.ids + 1, t)
  BY <1>1, <1>2 DEF Grows, AskedFor, Names
<1> QED BY <1>3, <1>4

LEMMA GrowsItself == \A w : Grows(w, w)
BY DEF Grows

(* What a step leaves alone stays right.                                   *)
LEMMA NetIdsGrow ==
  ASSUME NEW w, NEW v, Grows(w, v), NetIds(w)
  PROVE  NetIds(v)
BY GrowsSeqs DEF NetIds

LEMMA GatewayIdsKept ==
  ASSUME NEW w, NEW v, Grows(w, v), v.ids = w.ids, GatewayIds(w), UNCHANGED gatewayVars
  PROVE  GatewayIds(v)'
BY GrowsSeqs, GrowsSets DEF GatewayIds, Last, gatewayVars, pahoVars, brokerVars

LEMMA ArdIdsKept ==
  ASSUME NEW w, NEW v, Grows(w, v), v.mids = w.mids, ArdIds(w), UNCHANGED ardVars
  PROVE  ArdIds(v)'
BY GrowsSets DEF ArdIds, ardVars

(***************************************************************************)
(* The Arduino's steps.                                                    *)
(***************************************************************************)
LEMMA SendUpIds ==
  ASSUME NEW w, NetIds(w), NEW p \in Ups(w), SendUp(p), UNCHANGED down
  PROVE  NetIds(w)'
BY Added DEF NetIds, SendUp

LEMMA ConnectIsRight == \A w : [type |-> "CONNECT"] \in Ups(w)
BY DEF Ups, UpPacket, Connect

LEMMA UnregisteredIsRight == \A w : Unregistered \in Tables(w)
BY UnregisteredType DEF Tables, Unregistered

LEMMA TopicIdIsRight ==
  ASSUME NEW w, ArdIds(w), NEW t \in Topic
  PROVE  TopicId(t) = 0 \/ Names(w, TopicId(t), t)
BY DEF ArdIds, TopicId, Tables

(* Registration: a request under a new message id makes the world grow.    *)
LEMMA ProcessIds ==
  ASSUME TypeInv, NoWrap, NEW w \in World, NetIds(w), ArdIds(w),
         NEW tab, tab # None => tab \in Tables(w), Process(tab), UNCHANGED <<down, pend>>
  PROVE  \E v \in World : Grows(w, v) /\ v.ids = w.ids /\ NetIds(v)' /\ ArdIds(v)'
<1>0. /\ up \in Seq(Ups(w)) /\ w.mids = nextMid - 1
      /\ nextMid \in 1 .. MaxMid /\ MaxMid \in Nat
  BY ArduinoAssumption DEF TypeInv, ArdOK, NetIds, ArdIds
<1>1. CASE tab = None \/ FirstMissing(tab) = {}
  <2>1. NetIds(w)'
    BY <1>1 DEF Process, NetIds
  <2>2. ArdIds(w)'
    BY <1>1 DEF Process, ArdIds
  <2> QED BY <2>1, <2>2, GrowsItself
<1>2. CASE tab # None /\ FirstMissing(tab) # {}
  <2>0. tab \in TableType /\ tab \in Tables(w)
    BY <1>2 DEF Tables
  <2>1. PICK t \in Topic :
           /\ tab[t].id = 0
           /\ LET new == tab[t].mid = 0
                  mid == IF new THEN nextMid ELSE tab[t].mid
              IN  /\ table' = [tab EXCEPT ![t].mid = mid]
                  /\ nextMid' = IF new THEN Following(nextMid) ELSE nextMid
                  /\ up' = Append(up, [type |-> IF t \in Sender THEN "REGISTER" ELSE "SUBSCRIBE",
                                       topic |-> t, mid |-> mid])
    BY <1>2, <2>0, ProcessAsks
  <2> DEFINE mid == IF tab[t].mid = 0 THEN nextMid ELSE tab[t].mid
             p == [type |-> IF t \in Sender THEN "REGISTER" ELSE "SUBSCRIBE",
                   topic |-> t, mid |-> mid]
  <2>2. tab[t] \in [id : Ids, mid : 0 .. MaxMid]
    BY <2>0 DEF TableType
  <2>3. mid \in 1 .. MaxMid
    BY <1>0, <2>2
  <2>4. PICK v \in World : /\ Grows(w, v) /\ v.ids = w.ids
                           /\ v.mids = nextMid' - 1 /\ AskedFor(v, mid, t)
    <3>1. CASE tab[t].mid = 0
      <4>1. nextMid' = nextMid + 1
        BY <1>0, <2>1, <3>1 DEF Following, NoWrap
      <4>2. PICK v \in World : /\ Grows(w, v) /\ v.ids = w.ids /\ v.mids = w.mids + 1
                               /\ AskedFor(v, w.mids + 1, t)
        BY NewRequest
      <4>3. w.mids + 1 = mid /\ w.mids + 1 = nextMid' - 1
        BY <1>0, <3>1, <4>1
      <4> QED BY <4>2, <4>3
    <3>2. CASE tab[t].mid # 0
      <4>1. nextMid' = nextMid /\ mid = tab[t].mid
        BY <2>1, <3>2
      <4>2. AskedFor(w, mid, t)
        BY <2>0, <3>2, <4>1 DEF Tables
      <4> QED BY <1>0, <4>1, <4>2, GrowsItself
    <3> QED BY <3>1, <3>2
  <2>5. p \in UpPacket
    BY <2>3, Roles DEF UpPacket, Register, Subscription
  <2>6. up' = Append(up, p) /\ table' = [tab EXCEPT ![t].mid = mid]
    BY <2>1
  <2> HIDE DEF mid
  <2>7. p \in Ups(v)
    BY <2>4, <2>5 DEF Ups
  <2> HIDE DEF p
  <2>8. NetIds(v)'
    <3>1. NetIds(v)
      BY <2>4, NetIdsGrow
    <3> QED BY <2>6, <2>7, <3>1, Added DEF NetIds
  <2>9. table' \in Tables(v)
    <3>1. tab \in Tables(v)
      BY <2>0, <2>4, GrowsSets
    <3>2. table' \in TableType
      <4>1. [tab[t] EXCEPT !.mid = mid] \in [id : Ids, mid : 0 .. MaxMid]
        BY <1>0, <2>2, <2>3
      <4>2. table' = [tab EXCEPT ![t] = [tab[t] EXCEPT !.mid = mid]]
        BY <2>6
      <4> QED BY <2>0, <4>1, <4>2 DEF TableType
    <3>3. ASSUME NEW u \in Topic
          PROVE  /\ table'[u].id # 0 => Names(v, table'[u].id, u)
                 /\ table'[u].mid # 0 => AskedFor(v, table'[u].mid, u)
      <4>1. CASE u = t
        <5>1. table'[u].id = tab[u].id /\ table'[u].mid = mid
          BY <2>0, <2>2, <2>6, <4>1 DEF TableType
        <5> QED BY <2>4, <3>1, <4>1, <5>1 DEF Tables
      <4>2. CASE u # t
        <5>1. table'[u] = tab[u]
          BY <2>0, <2>6, <4>2 DEF TableType
        <5> QED BY <3>1, <5>1 DEF Tables
      <4> QED BY <4>1, <4>2
    <3> QED BY <3>2, <3>3 DEF Tables
  <2>10. ArdIds(v)'
    BY <2>4, <2>9, GrowsSets DEF ArdIds
  <2> QED BY <2>4, <2>8, <2>10
<1> QED BY <1>1, <1>2

LEMMA ArdLoopIds ==
  ASSUME TypeInv, NoWrap, NEW w \in World, NetIds(w), ArdIds(w), ArdLoop
  PROVE  \E v \in World : Grows(w, v) /\ v.ids = w.ids /\ NetIds(v)' /\ ArdIds(v)'
<1>0. ArdOK
  BY DEF TypeInv
<1>1. CASE ArdConnect
  <2>1. NetIds(w)'
    BY <1>1, SendUpIds, ConnectIsRight DEF ArdConnect
  <2>2. ArdIds(w)'
    BY <1>1 DEF ArdConnect, ArdIds
  <2> QED BY <2>1, <2>2, GrowsItself
<1>2. CASE ArdConnacked
  <2>1. Refilled(table) # None => Refilled(table) \in Tables(w)
    BY UnregisteredIsRight DEF ArdIds, Refilled
  <2> QED BY <1>2, <2>1, ProcessIds DEF ArdConnacked
<1>3. CASE ArdAcknowledge
  <2>1. PICK p \in Ups(w) : SendUp(p)
    <3> DEFINE order == IF st = "REGISTERING" THEN <<"puback", "pubrec", "pubcomp">>
                        ELSE <<"pubrec", "pubcomp", "puback">>
    <3>1. PICK i \in FirstOwed(order) :
            SendUp([type |-> AckType(order[i]), mid |-> owed[order[i]]])
      BY <1>3, Zenon DEF ArdAcknowledge
    <3>2. i \in DOMAIN order
      BY DEF FirstOwed
    <3>3. order[i] \in {"puback", "pubrec", "pubcomp"}
      BY <3>2
    <3> HIDE DEF order
    <3>4. owed[order[i]] \in Nat /\ AckType(order[i]) \in {"PUBACK", "PUBREC", "PUBCOMP"}
      BY <1>0, <3>3 DEF ArdOK, AckType
    <3>5. [type |-> AckType(order[i]), mid |-> owed[order[i]]] \in Ups(w)
      BY <3>4 DEF Ups, UpPacket, Ack
    <3> QED BY <3>1, <3>5
  <2>2. NetIds(w)'
    BY <1>3, <2>1, SendUpIds DEF ArdAcknowledge
  <2>3. ArdIds(w)'
    BY <1>3 DEF ArdAcknowledge, ArdIds
  <2> QED BY <2>2, <2>3, GrowsItself
<1>4. CASE ArdRegister
  BY <1>4, ProcessIds DEF ArdRegister, ArdIds
<1>5. CASE ArdReady
  <2>1. NetIds(w)' /\ ArdIds(w)'
    BY <1>5 DEF ArdReady, NetIds, ArdIds, netVars
  <2> QED BY <2>1, GrowsItself
<1>6. CASE ArdNextRound
  <2>1. NetIds(w)' /\ ArdIds(w)'
    BY <1>6 DEF ArdNextRound, NetIds, ArdIds, netVars
  <2> QED BY <2>1, GrowsItself
<1> QED BY <1>1, <1>2, <1>3, <1>4, <1>5, <1>6 DEF ArdLoop

LEMMA ArdTimeoutIds ==
  ASSUME TypeInv, NEW w, NetIds(w), ArdIds(w), ArdTimeout
  PROVE  NetIds(w)' /\ ArdIds(w)'
<1>1. CASE ArdConnectTimeout
  BY <1>1 DEF ArdConnectTimeout, NetIds, ArdIds
<1>2. CASE ArdRegisterTimeout
  <2>1. CASE table = None
    BY <1>2, <2>1 DEF ArdRegisterTimeout, NetIds, ArdIds, Invalidated
  <2>2. CASE table # None
    <3>1. table \in TableType /\ table \in Tables(w)
      BY <2>2 DEF ArdIds, Tables
    <3>2. table' = [t \in Topic |-> [id |-> 0, mid |-> table[t].mid]]
      BY <1>2, <2>2 DEF ArdRegisterTimeout, Invalidated
    <3>3. table' \in TableType
      BY <3>1, <3>2 DEF TableType, Ids
    <3>4. table' \in Tables(w)
      BY <3>1, <3>2, <3>3 DEF Tables
    <3> QED BY <1>2, <3>4 DEF ArdRegisterTimeout, NetIds, ArdIds
  <2> QED BY <2>1, <2>2
<1>3. CASE ArdRetry
  <2>0. pend \in PendingType /\ pend.packet \in Ups(w)
    BY <1>3 DEF TypeInv, ArdOK, ArdIds, ArdRetry
  <2>1. CASE pend.retries >= MaxRetries
    BY <1>3, <2>1 DEF ArdRetry, NetIds, ArdIds
  <2>2. CASE ~(pend.retries >= MaxRetries)
    <3>1. pend' = [pend EXCEPT !.retries = @ + 1] /\ SendUp(pend.packet) /\ UNCHANGED down
      BY <1>3, <2>2 DEF ArdRetry
    <3>2. pend'.packet = pend.packet
      BY <2>0, <3>1 DEF PendingType
    <3>3. NetIds(w)'
      BY <2>0, <3>1, SendUpIds
    <3> QED BY <1>3, <2>0, <3>2, <3>3 DEF ArdRetry, ArdIds
  <2> QED BY <2>1, <2>2
<1> QED BY <1>1, <1>2, <1>3 DEF ArdTimeout

LEMMA ArdPublishIds ==
  ASSUME TypeInv, NoWrap, NEW w \in World, NetIds(w), ArdIds(w), ArdPublish
  PROVE  \E v \in World : Grows(w, v) /\ v.ids = w.ids /\ NetIds(v)' /\ ArdIds(v)'
<1>0. ArdOK /\ {Data1, Data2} \subseteq Topic /\ TopicId(Data1) \in Ids /\ TopicId(Data2) \in Ids
  BY TopicIdType, Roles DEF TypeInv
<1>1. CASE ArdPublishQos0
  <2> DEFINE p == [type |-> "PUBLISH", tid |-> TopicId(Data2), qos |-> 0, mid |-> 0,
                   msg |-> [topic |-> Data2, n |-> count + 1]]
  <2>1. p \in UpPacket
    BY <1>0 DEF ArdOK, UpPacket, Publication, Message
  <2>2. p \in Ups(w)
    BY <1>0, <2>1, TopicIdIsRight DEF Ups
  <2>3. SendUp(p) /\ UNCHANGED down
    BY <1>1 DEF ArdPublishQos0
  <2> HIDE DEF p
  <2>4. NetIds(w)'
    BY <2>2, <2>3, SendUpIds
  <2>5. ArdIds(w)'
    BY <1>1 DEF ArdPublishQos0, ArdIds
  <2> QED BY <2>4, <2>5, GrowsItself
<1>2. CASE ArdPublishQos1
  <2> DEFINE p == [type |-> "PUBLISH", tid |-> TopicId(Data1), qos |-> 1, mid |-> nextMid,
                   msg |-> [topic |-> Data1, n |-> count + 1]]
  <2>1. p \in UpPacket
    BY <1>0 DEF ArdOK, UpPacket, Publication, Message
  <2>2. PICK v \in World : Grows(w, v) /\ v.ids = w.ids /\ v.mids = w.mids + 1
    BY <1>0, NewRequest
  <2>3. p \in Ups(w)
    BY <1>0, <2>1, TopicIdIsRight DEF Ups
  <2>4. p \in Ups(v)
    BY <2>2, <2>3, GrowsSets
  <2>5. SendUp(p) /\ UNCHANGED down
    BY <1>2 DEF ArdPublishQos1
  <2>6. pend' = IF pend = None THEN [packet |-> p, retries |-> 0] ELSE pend
    BY <1>2 DEF ArdPublishQos1
  <2> HIDE DEF p
  <2>7. NetIds(v)'
    BY <2>2, <2>4, <2>5, SendUpIds, NetIdsGrow
  <2>8. pend' # None => pend'.packet \in Ups(v)
    BY <2>2, <2>4, <2>6, GrowsSets DEF ArdIds
  <2>9. v.mids = nextMid' - 1
    <3>1. nextMid' = nextMid + 1 /\ nextMid \in Int
      BY <1>0, <1>2, ArduinoAssumption DEF ArdPublishQos1, Following, NoWrap, ArdOK
    <3> QED BY <2>2, <3>1 DEF ArdIds
  <2>10. ArdIds(v)'
    BY <1>2, <2>2, <2>8, <2>9, GrowsSets DEF ArdPublishQos1, ArdIds
  <2> QED BY <2>2, <2>7, <2>10
<1> QED BY <1>1, <1>2 DEF ArdPublish

(* Only an answer to the topic's own request gives it an id.               *)
LEMMA ArdReceiveIds ==
  ASSUME TypeInv, NEW w \in World, NetIds(w), ArdIds(w), ArdReceive
  PROVE  NetIds(w)' /\ ArdIds(w)'
<1>0. down # <<>>
  BY DEF ArdReceive, ArdReceiveConnack, ArdReceivePuback, ArdReceiveCommand,
         ArdReceivePubrel, ArdReceiveOther, ArdReceiveId, Receiving
<1>1. Arriving \in Downs(w) /\ Tail(down) \in Seq(Downs(w))
  BY <1>0, Taken DEF NetIds, Arriving
<1>2. ASSUME NEW type, Receiving(type)
      PROVE  NetIds(w)' /\ Arriving.type = type /\ nextMid' = nextMid
  BY <1>1, <1>2 DEF Receiving, NetIds, Arriving
<1>3. CASE ArdReceiveConnack
  BY <1>2, <1>3 DEF ArdReceiveConnack, ArdIds
<1>4. CASE ArdReceivePuback
  BY <1>2, <1>4 DEF ArdReceivePuback, ArdIds
<1>5. CASE ArdReceiveCommand
  BY <1>2, <1>5 DEF ArdReceiveCommand, ArdIds
<1>6. CASE ArdReceivePubrel
  BY <1>2, <1>6 DEF ArdReceivePubrel, ArdIds
<1>7. CASE ArdReceiveOther
  BY <1>2, <1>7 DEF ArdReceiveOther, ArdIds
<1>8. ASSUME NEW type \in {"REGACK", "SUBACK"}, NEW role \in SUBSET Topic,
             ArdReceiveId(type, role)
      PROVE  NetIds(w)' /\ ArdIds(w)'
  <2>1. /\ NetIds(w)' /\ nextMid' = nextMid /\ pend' = pend
        /\ Arriving \in IdGiven /\ Answers(w, Arriving.mid, Arriving.tid)
    <3>1. Receiving(type)
      BY <1>8 DEF ArdReceiveId
    <3>2. NetIds(w)' /\ Arriving.type = type /\ nextMid' = nextMid
      BY <1>2, <3>1
    <3>3. Arriving \in DownPacket /\ Answers(w, Arriving.mid, Arriving.tid)
      BY <1>1, <3>2 DEF Downs
    <3> QED BY <1>8, <3>2, <3>3, DownKinds DEF ArdReceiveId
  <2>2. CASE Matches(role) = {}
    BY <1>8, <2>1, <2>2 DEF ArdReceiveId, ArdIds
  <2>3. CASE Matches(role) # {}
    <3>1. PICK t \in Matches(role) : table' = [table EXCEPT ![t] = [id |-> Arriving.tid, mid |-> 0]]
      BY <1>8, <2>3 DEF ArdReceiveId
    <3>2. t \in Topic /\ table \in Tables(w) /\ table[t].mid = Arriving.mid
      BY <2>3 DEF Matches, ArdIds
    <3>3. Arriving.mid # 0 /\ Arriving.mid \in Nat /\ Arriving.tid \in Ids
      BY <2>1 DEF Answers, AskedFor, IdGiven
    <3>4. AskedFor(w, Arriving.mid, t)
      BY <3>2, <3>3 DEF Tables
    <3>5. Names(w, Arriving.tid, t)
      BY <2>1, <3>4 DEF Answers, AskedFor
    <3>6. table' \in TableType
      BY <3>1, <3>2, <3>3, ArduinoAssumption DEF Tables, TableType
    <3>7. \A u \in Topic : IF u = t THEN table'[u] = [id |-> Arriving.tid, mid |-> 0]
                                    ELSE table'[u] = table[u]
      BY <3>1, <3>2 DEF Tables, TableType
    <3>8. table' \in Tables(w)
      <4> SUFFICES ASSUME NEW u \in Topic
                   PROVE  /\ table'[u].id # 0 => Names(w, table'[u].id, u)
                          /\ table'[u].mid # 0 => AskedFor(w, table'[u].mid, u)
        BY <3>6 DEF Tables
      <4>1. CASE u = t
        BY <3>5, <3>7, <4>1
      <4>2. CASE u # t
        BY <3>2, <3>7, <4>2 DEF Tables
      <4> QED BY <4>1, <4>2
    <3> QED BY <2>1, <3>8 DEF ArdIds
  <2> QED BY <2>2, <2>3
<1> QED BY <1>3, <1>4, <1>5, <1>6, <1>7, <1>8, Roles DEF ArdReceive

(***************************************************************************)
(* The gateway's steps.                                                    *)
(***************************************************************************)
LEMMA HandlingIds ==
  ASSUME TypeInv, NEW w \in World, GatewayIds(w), NEW from, NEW type, Handling(from, type)
  PROVE  /\ client \in Clients(w) /\ w.ids = client.lastId
         /\ from = "client" => Packet \in Ups(w)
         /\ packetQ' \in Seq(Events(w))
         /\ UNCHANGED <<up, published>>
<1>1. client \in ClientType /\ client # None /\ UNCHANGED <<up, published>>
  BY HandlingType, ClientIsThere DEF brokerVars
<1>2. packetQ \in Seq(Events(w)) /\ packetQ # <<>>
  BY DEF GatewayIds, Handling
<1>3. Head(packetQ) \in Events(w) /\ Tail(packetQ) \in Seq(Events(w))
  BY <1>2, Taken
<1>4. from = "client" => Packet \in Ups(w)
  BY <1>3 DEF Events, Packet, Handling
<1> QED BY <1>1, <1>3, <1>4 DEF GatewayIds, Last, Handling

LEMMA AnswerIds ==
  ASSUME TypeInv, NEW w \in World, NEW v \in World, Grows(w, v), NetIds(w), GatewayIds(w),
         NEW from, NEW type, Handling(from, type),
         NEW c \in Clients(v), c.lastId = v.ids,
         NEW d \in Seq(Downs(v)), NEW b \in Seq(Forwards), Answer(c, d, b)
  PROVE  NetIds(v)' /\ GatewayIds(v)'
<1>1. packetQ' \in Seq(Events(v)) /\ UNCHANGED <<up, published>>
  BY HandlingIds, GrowsSeqs
<1>2. NetIds(v)
  BY NetIdsGrow
<1>3. down' \in Seq(Downs(v))
  BY <1>2, Joined DEF NetIds, Answer
<1>4. brokerQ' \in Seq(Forwards)
  BY Joined DEF GatewayIds, Answer
<1>5. client' = c /\ c # None
  BY ClientIsThere DEF Answer, Clients
<1>6. NetIds(v)'
  BY <1>1, <1>2, <1>3 DEF NetIds
<1> QED BY <1>1, <1>4, <1>5, <1>6 DEF GatewayIds, Last

(* A topic that is registered has an id of its own.                        *)
LEMMA AddTopicIds ==
  ASSUME NEW w \in World, NEW c \in Clients(w), c.lastId = w.ids, w.ids < 65534,
         NEW t \in Topic
  PROVE  \E v \in World :
           /\ Grows(w, v) /\ v.mids = w.mids
           /\ AddTopic(c, t) \in Clients(v) /\ AddTopic(c, t).lastId = v.ids
           /\ AddTopic(c, t).ids[t] # 0 /\ Names(v, AddTopic(c, t).ids[t], t)
<1>0. c \in ClientType /\ c.lastId \in Ids /\ c.ids \in [Topic -> Ids]
  BY DEF Clients, ClientType
<1>1. CASE c.ids[t] # 0
  <2>1. AddTopic(c, t) = c
    BY <1>1 DEF AddTopic
  <2> QED BY <1>1, <2>1, GrowsItself DEF Clients
<1>2. CASE c.ids[t] = 0
  <2> DEFINE n == c.lastId + 1
             d == AddTopic(c, t)
  <2>1. NextTopicId(c.lastId) = n
    BY <1>0 DEF NextTopicId, Ids
  <2>2. d.lastId = NextTopicId(c.lastId) /\ d.waitedSub = c.waitedSub
    BY <1>0, <1>2, AddTopicType
  <2>3. \A u \in Topic : d.ids[u] = IF u = t THEN NextTopicId(c.lastId) ELSE c.ids[u]
    BY <1>0, <1>2, AddTopicType
  <2>4. d \in ClientType /\ d.ids[t] # 0
    BY <1>0, AddTopicType
  <2>5. n \in Nat /\ n = w.ids + 1
    BY <1>0 DEF Ids
  <2>6. PICK v \in World : /\ Grows(w, v) /\ v.mids = w.mids /\ v.ids = w.ids + 1
                           /\ Names(v, w.ids + 1, t)
    BY NewId
  <2> HIDE DEF n, d
  <2>7. c \in Clients(v)
    BY <2>6, GrowsSets
  <2>8. \A u \in Topic : d.ids[u] # 0 => Names(v, d.ids[u], u)
    BY <2>1, <2>5, <2>6, <2>3, <2>7 DEF Clients
  <2>9. d \in Clients(v)
    BY <2>2, <2>4, <2>7, <2>8 DEF Clients
  <2>10. Names(v, d.ids[t], t)
    BY <2>4, <2>8
  <2> QED BY <2>1, <2>2, <2>4, <2>5, <2>6, <2>9, <2>10 DEF d
<1> QED BY <1>1, <1>2

LEMMA FromClientIds ==
  ASSUME TypeInv, NoWrap, NEW w \in World, NetIds(w), GatewayIds(w),
         \/ HandleConnect \/ HandleRegister \/ HandleSubscribe \/ HandlePublish
         \/ \E type \in {"PUBACK", "PUBREC", "PUBCOMP"} : HandleAck(type)
  PROVE  \E v \in World : Grows(w, v) /\ v.mids = w.mids /\ NetIds(v)' /\ GatewayIds(v)'
<1>0. <<>> \in Seq(Forwards) /\ \A v : <<>> \in Seq(Downs(v))
  BY Few
<1>1. ASSUME NEW type, Handling("client", type)
      PROVE  /\ client \in ClientType /\ client \in Clients(w) /\ client # None
             /\ w.ids = client.lastId /\ w.ids < 65534
             /\ Packet.type = type /\ Packet \in UpPacket /\ Packet \in Ups(w)
  BY <1>1, HandlingType, HandlingIds, ClientIsThere DEF NoWrap
<1>2. CASE HandleConnect
  <2>1. Handling("client", "CONNECT") /\ client \in ClientType /\ w.ids = client.lastId
    BY <1>1, <1>2 DEF HandleConnect
  <2> DEFINE c == [NewClient EXCEPT !.lastId = client.lastId]
  <2>2. c \in ClientType /\ c.lastId = w.ids
    BY <2>1, NewClientType DEF ClientType
  <2>3. c.ids = NoIds /\ c.waitedSub = {}
    BY DEF NewClient
  <2>4. Answer(c, <<>>, <<[type |-> "CONNECT"]>>)
    BY <1>2 DEF HandleConnect
  <2> HIDE DEF c
  <2>5. c \in Clients(w)
    BY <2>2, <2>3 DEF Clients, NoIds
  <2>6. <<[type |-> "CONNECT"]>> \in Seq(Forwards)
    BY Few DEF Forwards, ToBroker, Connect
  <2> QED BY <1>0, <2>1, <2>2, <2>4, <2>5, <2>6, AnswerIds, GrowsItself
<1>3. CASE HandleRegister
  <2>1. Handling("client", "REGISTER")
    BY <1>3 DEF HandleRegister
  <2>2. /\ client \in Clients(w) /\ w.ids = client.lastId /\ w.ids < 65534
        /\ Packet.type = "REGISTER" /\ Packet \in Register /\ Packet \in Ups(w)
    BY <1>1, <2>1, UpKinds
  <2>3. Packet.topic \in Topic /\ Packet.mid \in Nat /\ AskedFor(w, Packet.mid, Packet.topic)
    BY <2>2, Roles DEF Register, Ups
  <2> DEFINE c == AddTopic(client, Packet.topic)
             p == [type |-> "REGACK", tid |-> c.ids[Packet.topic], mid |-> Packet.mid]
  <2>4. CASE Answer(c, <<p>>, <<>>)
    <3>1. PICK v \in World :
             /\ Grows(w, v) /\ v.mids = w.mids
             /\ c \in Clients(v) /\ c.lastId = v.ids
             /\ c.ids[Packet.topic] # 0 /\ Names(v, c.ids[Packet.topic], Packet.topic)
      BY <2>2, <2>3, AddTopicIds
    <3>2. p \in DownPacket
      BY <2>3, <3>1 DEF DownPacket, IdGiven, Clients, ClientType
    <3>3. Answers(v, Packet.mid, c.ids[Packet.topic])
      BY <2>3, <3>1 DEF Answers, Grows
    <3>4. p \in Downs(v)
      BY <3>2, <3>3 DEF Downs
    <3>5. <<p>> \in Seq(Downs(v))
      BY <3>4, Few
    <3> HIDE DEF c, p
    <3> QED BY <1>0, <2>1, <2>4, <3>1, <3>5, AnswerIds
  <2>5. CASE Answer(client, <<>>, <<>>)
    <3> HIDE DEF c, p
    <3>0. client \in Clients(w) /\ client.lastId = w.ids
      BY <2>2
    <3>1. NetIds(w)' /\ GatewayIds(w)'
      BY <1>0, <2>1, <2>5, <3>0, AnswerIds, GrowsItself
    <3> QED BY <3>1, GrowsItself
  <2> QED BY <1>3, <2>4, <2>5 DEF HandleRegister
<1>4. CASE HandleSubscribe
  <2>1. Handling("client", "SUBSCRIBE")
    BY <1>4 DEF HandleSubscribe
  <2>2. /\ client \in Clients(w) /\ w.ids = client.lastId /\ w.ids < 65534
        /\ Packet.type = "SUBSCRIBE" /\ Packet \in Subscription /\ Packet \in Ups(w)
    BY <1>1, <2>1, UpKinds
  <2>3. /\ Packet.topic \in Topic /\ Packet.topic \in Command /\ Packet.mid \in Nat
        /\ AskedFor(w, Packet.mid, Packet.topic)
    BY <2>2, Roles DEF Subscription, Ups
  <2> DEFINE c == AddTopic(client, Packet.topic)
             id == c.ids[Packet.topic]
             d == [c EXCEPT !.waitedSub = Await(@, Packet.mid, id)]
             p == [type |-> "SUBSCRIBE", topic |-> Packet.topic, mid |-> Packet.mid]
  <2>4. PICK v \in World :
           /\ Grows(w, v) /\ v.mids = w.mids
           /\ c \in Clients(v) /\ c.lastId = v.ids
           /\ id # 0 /\ Names(v, id, Packet.topic)
    BY <2>2, <2>3, AddTopicIds
  <2>5. Answers(v, Packet.mid, id)
    BY <2>3, <2>4 DEF Answers, Grows
  <2>6. c \in ClientType /\ id \in Ids
    BY <2>3, <2>4 DEF Clients, ClientType
  <2>7. Answer(d, <<>>, <<p>>)
    BY <1>4 DEF HandleSubscribe
  <2>8. <<p>> \in Seq(Forwards)
    BY <2>3, Few DEF Forwards, ToBroker, Subscription
  <2> HIDE DEF c, id
  <2>9. Await(c.waitedSub, Packet.mid, id) \in SUBSET AwaitedId
    BY <2>3, <2>6, AwaitType DEF ClientType
  <2>10. \A e \in Await(c.waitedSub, Packet.mid, id) : Answers(v, e.mid, e.tid)
    BY <2>4, <2>5 DEF Await, Clients
  <2>11. /\ d.waitedSub = Await(c.waitedSub, Packet.mid, id)
         /\ d.ids = c.ids /\ d.lastId = c.lastId /\ d \in ClientType
    BY <2>6, <2>9 DEF ClientType
  <2> HIDE DEF d, p
  <2>12. d \in Clients(v) /\ d.lastId = v.ids
    BY <2>4, <2>10, <2>11 DEF Clients
  <2> QED BY <1>0, <2>1, <2>4, <2>7, <2>8, <2>12, AnswerIds
<1>5. CASE HandlePublish
  <2>1. Handling("client", "PUBLISH")
    BY <1>5 DEF HandlePublish
  <2>2. /\ client \in Clients(w) /\ w.ids = client.lastId /\ client \in ClientType
        /\ Packet.type = "PUBLISH" /\ Packet \in Publication /\ Packet \in Ups(w)
    BY <1>1, <2>1, UpKinds
  <2>3. /\ Packet.mid \in Nat /\ Packet.tid \in Ids /\ Packet.qos \in Nat
        /\ Packet.msg \in Message
        /\ Packet.tid = 0 \/ Names(w, Packet.tid, Packet.msg.topic)
    BY <2>2 DEF Publication, Ups
  <2> DEFINE t == TopicOf(client, Packet.tid)
             d == [client EXCEPT !.waitedPub = Await(@, Packet.mid, Packet.tid)]
             p == [type |-> "PUBLISH", topic |-> t, qos |-> Packet.qos,
                   mid |-> Packet.mid, msg |-> Packet.msg]
             r == [type |-> "PUBACK", mid |-> Packet.mid, ok |-> FALSE]
  <2>4. t = None \/ (t \in Topic /\ client.ids[t] = Packet.tid /\ Packet.tid # 0)
    BY DEF TopicOf
  <2>5. t \in {None, Packet.msg.topic}
    <3>1. CASE t \in Topic /\ client.ids[t] = Packet.tid /\ Packet.tid # 0
      <4>1. Names(w, Packet.tid, t)
        BY <2>2, <3>1 DEF Clients
      <4>2. Names(w, Packet.tid, Packet.msg.topic)
        BY <2>3, <3>1
      <4> QED BY <4>1, <4>2 DEF Names
    <3> QED BY <2>4, <3>1
  <2>6. t \in Topic \cup {None}
    BY <2>4
  <2>7. /\ \/ Answer(client, <<r>>, <<>>)
           \/ Answer(client, <<>>, <<p>>)
           \/ Answer(d, <<>>, <<p>>)
    BY <1>5 DEF HandlePublish
  <2> HIDE DEF t
  <2>8. p \in Forwards
    BY <2>3, <2>5, <2>6 DEF Forwards, ToBroker, Forwarded
  <2>9. r \in Downs(w)
    BY <2>3 DEF Downs, DownPacket, Puback
  <2>10. d \in Clients(w) /\ d.lastId = client.lastId
    <3>1. Await(client.waitedPub, Packet.mid, Packet.tid) \in SUBSET AwaitedId
      BY <2>2, <2>3, AwaitType DEF ClientType
    <3>2. /\ d \in ClientType /\ d.ids = client.ids /\ d.lastId = client.lastId
          /\ d.waitedSub = client.waitedSub
      BY <2>2, <3>1 DEF ClientType
    <3> QED BY <2>2, <3>2 DEF Clients
  <2> HIDE DEF d, p, r
  <2>11. <<p>> \in Seq(Forwards) /\ <<r>> \in Seq(Downs(w))
    BY <2>8, <2>9, Few
  <2> QED BY <1>0, <2>1, <2>2, <2>7, <2>10, <2>11, AnswerIds, GrowsItself
<1>6. ASSUME NEW type \in {"PUBACK", "PUBREC", "PUBCOMP"}, HandleAck(type)
      PROVE  NetIds(w)' /\ GatewayIds(w)'
  <2>1. Handling("client", type)
    BY <1>6 DEF HandleAck
  <2>2. /\ client \in Clients(w) /\ w.ids = client.lastId
        /\ Packet.type = type /\ Packet \in Ack
    BY <1>1, <2>1, UpKinds
  <2>3. Packet \in Forwards
    BY <2>2 DEF Forwards, ToBroker
  <2>4. <<Packet>> \in Seq(Forwards)
    BY <2>3, Few
  <2>5. Answer(client, <<>>, <<Packet>>) \/ Answer(client, <<>>, <<>>)
    BY <1>6 DEF HandleAck
  <2> QED BY <1>0, <2>1, <2>2, <2>4, <2>5, AnswerIds, GrowsItself
<1> QED BY <1>2, <1>3, <1>4, <1>5, <1>6, GrowsItself

LEMMA FromBrokerIds ==
  ASSUME TypeInv, NEW w \in World, NetIds(w), GatewayIds(w),
         \/ HandleConnack \/ HandleSuback \/ HandlePuback
         \/ HandleCommand \/ HandlePubrel \/ HandleDisconnect
  PROVE  NetIds(w)' /\ GatewayIds(w)'
<1>0. <<>> \in Seq(Forwards) /\ <<>> \in Seq(Downs(w)) /\ Grows(w, w)
  BY Few, GrowsItself
<1>1. ASSUME NEW type, Handling("broker", type)
      PROVE  /\ client \in ClientType /\ client \in Clients(w) /\ w.ids = client.lastId
             /\ Packet.type = type /\ Packet \in BrokerPacket \cup Disconnect
  BY <1>1, HandlingType, HandlingIds
(* A change of the status or of what is awaited for messages.              *)
<1>2. ASSUME NEW c \in ClientType, client \in Clients(w), w.ids = client.lastId,
             c.ids = client.ids, c.lastId = client.lastId,
             c.waitedSub \subseteq client.waitedSub
      PROVE  c \in Clients(w) /\ c.lastId = w.ids
  BY <1>2 DEF Clients
<1>3. CASE HandleConnack
  <2>1. Handling("broker", "CONNACK")
    BY <1>3 DEF HandleConnack
  <2>2. client \in ClientType /\ Packet \in Connack /\ Packet.type = "CONNACK"
    BY <1>1, <2>1, BrokerKinds
  <2> DEFINE d == [client EXCEPT !.status = IF Packet.ok THEN "Active" ELSE "Disconnected"]
  <2>3. /\ d \in ClientType /\ d.ids = client.ids /\ d.lastId = client.lastId
        /\ d.waitedSub = client.waitedSub
    BY <2>2 DEF ClientType
  <2>4. <<Packet>> \in Seq(Downs(w))
    BY <2>2, Few DEF Downs, DownPacket
  <2>5. Answer(d, <<Packet>>, <<>>)
    BY <1>3 DEF HandleConnack
  <2> HIDE DEF d
  <2>6. d \in Clients(w) /\ d.lastId = w.ids
    BY <1>1, <1>2, <2>1, <2>3
  <2> QED BY <1>0, <2>1, <2>4, <2>5, <2>6, AnswerIds
<1>4. CASE HandleSuback
  <2>1. Handling("broker", "SUBACK")
    BY <1>4 DEF HandleSuback
  <2>2. client \in ClientType /\ client \in Clients(w) /\ Packet.mid \in Nat
    BY <1>1, <2>1, BrokerKinds DEF BrokerAck
  <2> DEFINE es == Awaited(client.waitedSub, Packet.mid)
             d == [client EXCEPT !.waitedSub = @ \ es]
             e == CHOOSE e \in es : TRUE
             p == [type |-> "SUBACK", tid |-> e.tid, mid |-> Packet.mid]
  <2>3. client.waitedSub \in SUBSET AwaitedId /\ es \subseteq client.waitedSub
    BY <2>2 DEF ClientType, Awaited
  <2>4. /\ d \in ClientType /\ d.ids = client.ids /\ d.lastId = client.lastId
        /\ d.waitedSub \subseteq client.waitedSub
    <3>1. client.waitedSub \ es \in SUBSET AwaitedId
      BY <2>3
    <3> HIDE DEF es
    <3> QED BY <2>2, <3>1 DEF ClientType
  <2>5. ASSUME es # {} PROVE <<p>> \in Seq(Downs(w))
    <3>1. e \in es
      BY <2>5
    <3>2. e.mid = Packet.mid
      BY <3>1 DEF Awaited
    <3>3. e \in AwaitedId /\ Answers(w, e.mid, e.tid)
      BY <2>2, <2>3, <3>1 DEF Clients
    <3> HIDE DEF es, e
    <3>4. p \in DownPacket
      BY <2>2, <3>3 DEF AwaitedId, DownPacket, IdGiven
    <3>5. p \in Downs(w)
      BY <3>2, <3>3, <3>4 DEF Downs
    <3> QED BY <3>5, Few
  <2>6. Answer(d, IF es = {} THEN <<>> ELSE <<p>>, <<>>)
    BY <1>4 DEF HandleSuback
  <2>7. (IF es = {} THEN <<>> ELSE <<p>>) \in Seq(Downs(w))
    BY <1>0, <2>5
  <2> HIDE DEF d, p, es
  <2>8. d \in Clients(w) /\ d.lastId = w.ids
    BY <1>1, <1>2, <2>1, <2>4
  <2> QED BY <1>0, <2>1, <2>6, <2>7, <2>8, AnswerIds
<1>5. CASE HandlePuback
  <2>1. Handling("broker", "PUBACK")
    BY <1>5 DEF HandlePuback
  <2>2. client \in ClientType /\ Packet.mid \in Nat
    BY <1>1, <2>1, BrokerKinds DEF BrokerAck
  <2> DEFINE es == Awaited(client.waitedPub, Packet.mid)
             d == [client EXCEPT !.waitedPub = @ \ es]
             p == [type |-> "PUBACK", mid |-> Packet.mid, ok |-> TRUE]
  <2>3. client.waitedPub \ es \in SUBSET AwaitedId
    BY <2>2 DEF ClientType
  <2>4. /\ d \in ClientType /\ d.ids = client.ids /\ d.lastId = client.lastId
        /\ d.waitedSub = client.waitedSub
    <3> HIDE DEF es
    <3> QED BY <2>2, <2>3 DEF ClientType
  <2>5. p \in Downs(w)
    BY <2>2 DEF Downs, DownPacket, Puback
  <2>6. Answer(d, IF es = {} THEN <<>> ELSE <<p>>, <<>>)
    BY <1>5 DEF HandlePuback
  <2>7. (IF es = {} THEN <<>> ELSE <<p>>) \in Seq(Downs(w))
    BY <1>0, <2>5, Few
  <2> HIDE DEF d, p, es
  <2>8. d \in Clients(w) /\ d.lastId = w.ids
    BY <1>1, <1>2, <2>1, <2>4
  <2> QED BY <1>0, <2>1, <2>6, <2>7, <2>8, AnswerIds
<1>6. CASE HandleCommand
  <2>1. Handling("broker", "PUBLISH")
    BY <1>6 DEF HandleCommand
  <2>2. /\ client \in ClientType /\ client \in Clients(w) /\ w.ids = client.lastId
        /\ Packet \in CommandTaken
    BY <1>1, <2>1, BrokerKinds
  <2>3. /\ Packet.topic \in Topic /\ Packet.qos \in Nat /\ Packet.mid \in Nat
        /\ Packet.cmd \in Message
    BY <2>2, Roles DEF CommandTaken
  <2> DEFINE a == [type |-> IF Packet.qos = 1 THEN "PUBACK" ELSE "PUBREC", mid |-> Packet.mid]
             p == [type |-> "PUBLISH", tid |-> client.ids[Packet.topic],
                   qos |-> Packet.qos, mid |-> Packet.mid, cmd |-> Packet.cmd]
  <2>4. a \in Forwards
    BY <2>3 DEF Forwards, ToBroker, Ack
  <2>5. client.ids[Packet.topic] \in Ids
    BY <2>2, <2>3 DEF ClientType
  <2>6. p \in Downs(w)
    BY <2>3, <2>5 DEF Downs, DownPacket, CommandSent
  <2>7. <<a>> \in Seq(Forwards) /\ <<p>> \in Seq(Downs(w))
    BY <2>4, <2>6, Few
  <2>8. \/ Answer(client, <<>>, <<>>)
        \/ Answer(client, <<>>, <<a>>)
        \/ Answer(client, <<p>>, <<>>)
    BY <1>6 DEF HandleCommand
  <2> HIDE DEF a, p
  <2> QED BY <1>0, <2>1, <2>2, <2>7, <2>8, AnswerIds
<1>7. CASE HandlePubrel
  <2>1. Handling("broker", "PUBREL")
    BY <1>7 DEF HandlePubrel
  <2>2. /\ client \in Clients(w) /\ w.ids = client.lastId
        /\ Packet \in BrokerAck /\ Packet.type = "PUBREL"
    BY <1>1, <2>1, BrokerKinds
  <2>3. Packet \in Downs(w)
    BY <2>2 DEF BrokerAck, Downs, DownPacket, Pubrel
  <2>4. <<Packet>> \in Seq(Downs(w))
    BY <2>3, Few
  <2>5. Answer(client, <<Packet>>, <<>>) \/ Answer(client, <<>>, <<>>)
    BY <1>7 DEF HandlePubrel
  <2> QED BY <1>0, <2>1, <2>2, <2>4, <2>5, AnswerIds
<1>8. CASE HandleDisconnect
  <2>1. Handling("broker", "DISCONNECT") /\ client \in ClientType
    BY <1>1, <1>8 DEF HandleDisconnect
  <2> DEFINE d == [client EXCEPT !.status = "Disconnected"]
  <2>2. /\ d \in ClientType /\ d.ids = client.ids /\ d.lastId = client.lastId
        /\ d.waitedSub = client.waitedSub
    BY <2>1 DEF ClientType
  <2>3. Answer(d, <<>>, <<>>)
    BY <1>8 DEF HandleDisconnect
  <2> HIDE DEF d
  <2>4. d \in Clients(w) /\ d.lastId = w.ids
    BY <1>1, <1>2, <2>1, <2>2
  <2> QED BY <1>0, <2>1, <2>3, <2>4, AnswerIds
<1> QED BY <1>3, <1>4, <1>5, <1>6, <1>7, <1>8

LEMMA ClientRecvIds ==
  ASSUME TypeInv, NEW w \in World, NetIds(w), GatewayIds(w), ClientRecvTask
  PROVE  NetIds(w)' /\ GatewayIds(w)'
<1>1. up \in Seq(Ups(w)) /\ up # <<>> /\ Head(up) \in Ups(w) /\ up' \in Seq(Ups(w))
  BY Taken DEF NetIds, ClientRecvTask
<1>2. brokerQ' = brokerQ /\ published' = published
  BY DEF ClientRecvTask, brokerVars
<1>3. CASE UNCHANGED <<client, packetQ, down>>
  BY <1>1, <1>2, <1>3 DEF NetIds, GatewayIds, Last
<1>4. CASE down' = Append(down, [type |-> "DISCONNECT"]) /\ UNCHANGED <<client, packetQ>>
  <2>1. [type |-> "DISCONNECT"] \in Downs(w)
    BY DEF Downs, DownPacket, Disconnect
  <2>2. down' \in Seq(Downs(w))
    BY <1>4, <2>1, Added DEF NetIds
  <2> QED BY <1>1, <1>2, <1>4, <2>2 DEF NetIds, GatewayIds, Last
<1>5. CASE /\ client' = IF client = None THEN NewClient ELSE client
           /\ packetQ' = Append(packetQ, [from |-> "client", packet |-> Head(up)])
           /\ UNCHANGED down
  <2>1. [from |-> "client", packet |-> Head(up)] \in Events(w)
    BY <1>1 DEF Events, GatewayEvent, Ups
  <2>2. packetQ' \in Seq(Events(w))
    BY <1>5, <2>1, Added DEF GatewayIds
  <2>3. NewClient \in Clients(w) /\ NewClient # None /\ NewClient.lastId = 0
    BY NewClientType, ClientIsThere DEF Clients, NewClient, NoIds
  <2>4. client' # None /\ client' \in Clients(w) /\ w.ids = client'.lastId
    BY <1>5, <2>3 DEF GatewayIds, Last
  <2> QED BY <1>1, <1>2, <1>5, <2>2, <2>4 DEF NetIds, GatewayIds, Last
<1> QED BY <1>3, <1>4, <1>5 DEF ClientRecvTask

(* A change of the status is none of the ids.                              *)
LEMMA StatusIds ==
  ASSUME TypeInv, NEW w, GatewayIds(w), client \in ClientType,
         NEW s \in {"Disconnected", "Connecting", "Active"},
         client' = [client EXCEPT !.status = s]
  PROVE  w.ids = Last' /\ client' \in Clients(w)
<1>1. client # None /\ client \in Clients(w) /\ w.ids = client.lastId
  BY ClientIsThere DEF GatewayIds, Last
<1>2. client' \in ClientType /\ client' # None
  BY StatusType, ClientIsThere
<1>3. /\ client'.ids = client.ids /\ client'.lastId = client.lastId
      /\ client'.waitedSub = client.waitedSub
  BY DEF ClientType
<1> QED BY <1>1, <1>2, <1>3 DEF Clients, Last

(* What the broker takes is under its own topic.                           *)
LEMMA PublishedIds ==
  ASSUME NEW w, GatewayIds(w), NEW p \in Forwards, ~Broken(p), TakePacket(p)
  PROVE  \A q \in published' : q.topic = q.msg.topic
<1>1. CASE p.type # "PUBLISH"
  BY <1>1 DEF TakePacket, GatewayIds
<1>2. CASE p.type = "PUBLISH"
  <2>1. p.topic = p.msg.topic
    BY <1>2 DEF Broken, Forwards
  <2>2. published' = published \cup {[msg |-> p.msg, topic |-> p.topic]}
    BY <1>2 DEF TakePacket
  <2> QED BY <2>1, <2>2 DEF GatewayIds
<1> QED BY <1>1, <1>2

LEMMA BrokerSendIds ==
  ASSUME TypeInv, NEW w \in World, NetIds(w), GatewayIds(w), BrokerSendTask
  PROVE  NetIds(w)' /\ GatewayIds(w)'
<1>1. /\ brokerQ \in Seq(Forwards) /\ Head(brokerQ) \in Forwards
      /\ brokerQ' \in Seq(Forwards) /\ NetIds(w)'
  BY Taken DEF GatewayIds, NetIds, BrokerSendTask
<1>2. client \in ClientType
  BY DEF TypeInv, GatewayOK, BrokerSendTask
<1>3. SUFFICES /\ w.ids = Last' /\ packetQ' \in Seq(Events(w))
               /\ client' # None => client' \in Clients(w)
               /\ \A p \in published' : p.topic = p.msg.topic
  BY <1>1 DEF GatewayIds
<1>4. ASSUME client' = client
      PROVE  w.ids = Last' /\ (client' # None => client' \in Clients(w))
  BY <1>4 DEF GatewayIds, Last
<1>5. packetQ \in Seq(Events(w)) /\ \A p \in published : p.topic = p.msg.topic
  BY DEF GatewayIds
<1>6. CASE SendConnect
  <2>1. packetQ' = packetQ /\ published' = published
    BY <1>6 DEF SendConnect, TakeConnect
  <2>2. client' = client \/ client' = [client EXCEPT !.status = "Connecting"]
    BY <1>6 DEF SendConnect, Connecting
  <2> QED BY <1>2, <1>4, <1>5, <2>1, <2>2, StatusIds
<1>7. CASE SendPacket
  <2>1. client' = client
    BY <1>7 DEF SendPacket
  <2>2. packetQ' \in Seq(Events(w))
    <3>1. [from |-> "broker", packet |-> [type |-> "DISCONNECT"]] \in Events(w)
      BY DEF Events, GatewayEvent, Disconnect
    <3>2. Append(packetQ, [from |-> "broker", packet |-> [type |-> "DISCONNECT"]]) \in Seq(Events(w))
      BY <1>5, <3>1, Added
    <3>3. \/ packetQ' = packetQ
          \/ packetQ' = Append(packetQ, [from |-> "broker", packet |-> [type |-> "DISCONNECT"]])
      BY <1>7 DEF SendPacket
    <3> QED BY <1>5, <3>2, <3>3
  <2>3. \/ published' = published
        \/ ~Broken(Head(brokerQ)) /\ TakePacket(Head(brokerQ))
    BY <1>7 DEF SendPacket, CloseByBroker, brokerVars
  <2>4. \A p \in published' : p.topic = p.msg.topic
    BY <1>1, <1>5, <2>3, PublishedIds
  <2> QED BY <1>4, <2>1, <2>2, <2>4
<1>8. CASE SendFails
  BY <1>4, <1>5, <1>8 DEF SendFails
<1> QED BY <1>6, <1>7, <1>8 DEF BrokerSendTask

LEMMA CloseIds ==
  ASSUME TypeInv, NEW w \in World, NetIds(w), GatewayIds(w), client \in ClientType,
         CloseAndDisconnect
  PROVE  NetIds(w)' /\ GatewayIds(w)'
<1>1. w.ids = Last' /\ client' \in Clients(w)
  BY StatusIds DEF CloseAndDisconnect
<1> QED BY <1>1 DEF CloseAndDisconnect, NetIds, GatewayIds

LEMMA BrokerRecvIds ==
  ASSUME TypeInv, NEW w \in World, NetIds(w), GatewayIds(w), BrokerRecvTask
  PROVE  NetIds(w)' /\ GatewayIds(w)'
<1>0. fromBroker \in Seq(FromBroker) /\ fromBroker # <<>> /\ client \in ClientType
  BY DEF TypeInv, GatewayOK, BrokerRecvTask, ReadPacket, ReadEof
<1>1. CASE ReadPacket
  <2>1. Head(fromBroker) \in BrokerPacket
    <3>1. Head(fromBroker) # EOF /\ Head(fromBroker) \in FromBroker
      BY <1>0, <1>1, Taken DEF ReadPacket
    <3>2. \A e \in [type : {"EOF"}] : e = EOF
      BY DEF EOF
    <3> QED BY <3>1, <3>2 DEF FromBroker
  <2>2. [from |-> "broker", packet |-> Head(fromBroker)] \in Events(w)
    BY <2>1 DEF Events, GatewayEvent
  <2>3. packetQ' \in Seq(Events(w))
    BY <1>1, <2>2, Added DEF ReadPacket, GatewayIds
  <2> QED BY <1>1, <2>3 DEF ReadPacket, netVars, NetIds, GatewayIds, Last
<1>2. CASE ReadEof
  <2>1. CASE CloseAndDisconnect
    BY <1>0, <2>1, CloseIds
  <2>2. CASE UNCHANGED <<up, down, client, packetQ, brokerQ, published>>
    BY <2>2 DEF NetIds, GatewayIds, Last
  <2> QED BY <1>2, <2>1, <2>2 DEF ReadEof
<1> QED BY <1>1, <1>2 DEF BrokerRecvTask

(* The rest of the gateway and of the broker.                              *)
LEMMA OtherGatewayIds ==
  ASSUME TypeInv, NEW w \in World, NetIds(w), GatewayIds(w),
         \/ ConnectSended \/ BrokerRecvClose \/ BrokerDrops
         \/ \E t \in Command : CommandArrives(t)
  PROVE  NetIds(w)' /\ GatewayIds(w)'
<1>1. CASE ConnectSended
  <2>1. client \in ClientType
    BY <1>1 DEF TypeInv, GatewayOK, ConnectSended
  <2>2. w.ids = Last' /\ client' \in Clients(w)
    BY <1>1, <2>1, StatusIds DEF ConnectSended, Connecting
  <2> QED BY <1>1, <2>2 DEF ConnectSended, netVars, brokerVars, NetIds, GatewayIds
<1>2. CASE BrokerRecvClose
  <2>1. client \in ClientType
    BY <1>2 DEF TypeInv, GatewayOK, BrokerRecvClose
  <2> QED BY <1>2, <2>1, CloseIds DEF BrokerRecvClose
<1>3. CASE BrokerDrops
  BY <1>3 DEF BrokerDrops, CloseByBroker, pahoVars, NetIds, GatewayIds, Last
<1>4. ASSUME NEW t \in Command, CommandArrives(t)
      PROVE  NetIds(w)' /\ GatewayIds(w)'
  BY <1>4 DEF CommandArrives, netVars, pahoVars, NetIds, GatewayIds, Last
<1> QED BY <1>1, <1>2, <1>3, <1>4

LEMMA NetFaultIds ==
  ASSUME NEW w, NetIds(w), NetFault
  PROVE  NetIds(w)'
<1>1. CASE up # <<>> /\ Suffers(up, down)
  <2>1. up \in Seq(Ups(w)) /\ Head(up) \in Ups(w) /\ Tail(up) \in Seq(Ups(w))
    BY <1>1, Taken DEF NetIds
  <2>2. Append(up, Head(up)) \in Seq(Ups(w)) /\ Append(Tail(up), Head(up)) \in Seq(Ups(w))
    BY <2>1, Added
  <2> QED BY <1>1, <2>1, <2>2 DEF Suffers, NetIds
<1>2. CASE down # <<>> /\ Suffers(down, up)
  <2>1. down \in Seq(Downs(w)) /\ Head(down) \in Downs(w) /\ Tail(down) \in Seq(Downs(w))
    BY <1>2, Taken DEF NetIds
  <2>2. /\ Append(down, Head(down)) \in Seq(Downs(w))
        /\ Append(Tail(down), Head(down)) \in Seq(Downs(w))
    BY <2>1, Added
  <2> QED BY <1>2, <2>1, <2>2 DEF Suffers, NetIds
<1> QED BY <1>1, <1>2 DEF NetFault

(***************************************************************************)
(* The theorem.                                                            *)
(***************************************************************************)
Settled == Arduino /\ NeverSeen({"restart", "reboot"})

WorldInv == Settled => \E w \in World : IdInv(w)

(* No step forgets a fault.                                                *)
LEMMA FaultsAreKept ==
  ASSUME [Next]_vars
  PROVE  UNCHANGED scenario /\ seen \subseteq seen'
<1>1. CASE ArduinoLoop \/ ArduinoReceive \/ ArduinoPublish
  <2>1. CASE ArduinoLoop
    BY <2>1 DEF ArduinoLoop, ArdLoop, ArdConnect, ArdConnacked, ArdAcknowledge, ArdRegister,
                ArdReady, ArdNextRound, netVars, calm
  <2>2. CASE ArduinoReceive
    BY <2>2 DEF ArduinoReceive, ArdReceive, ArdReceiveConnack, ArdReceivePuback,
                ArdReceiveCommand, ArdReceivePubrel, ArdReceiveOther, ArdReceiveId, Receiving,
                calm
  <2>3. CASE ArduinoPublish
    BY <2>3 DEF ArduinoPublish, ArdPublish, ArdPublishQos0, ArdPublishQos1, calm
  <2> QED BY <1>1, <2>1, <2>2, <2>3
<1>2. CASE PicoLoop \/ PicoCallback \/ PicoButton
  <2>1. CASE PicoLoop
    BY <2>1 DEF PicoLoop, PicoTask, PicoConnect, PicoRegistered, calm
  <2>2. CASE PicoCallback
    BY <2>2 DEF PicoCallback, PicoReceive, PicoReceiveConnack, PicoReceiveCommand,
                PicoReceivePubrel, PicoReceiveOther, PicoReceiveId, PicoReceiving, calm
  <2>3. CASE PicoButton
    BY <2>3 DEF PicoButton, PicoPublish, calm
  <2> QED BY <1>2, <2>1, <2>2, <2>3
<1>3. CASE ArduinoTimer(InTime) \/ PicoTimer(InTime) \/ ArduinoTimer(Early) \/ PicoTimer(Early)
  BY <1>3 DEF ArduinoTimer, PicoTimer, InTime, Early, calm, Fault
<1>4. CASE ArduinoReboot \/ PicoPowerCycle
  BY <1>4 DEF ArduinoReboot, ArdReboot, PicoPowerCycle, PicoReboot, calm, Fault
<1>5. CASE ClientRecvTask \/ ConnectSended \/ BrokerRecvClose
           \/ \E t \in Command : CommandArrives(t)
  BY <1>5 DEF ClientRecvTask, ConnectSended, BrokerRecvClose, CommandArrives, netVars, calm
<1>6. CASE PacketHandleTask
  BY <1>6 DEF PacketHandleTask, HandleConnect, HandleRegister, HandleSubscribe, HandlePublish,
              HandleAck, HandleConnack, HandleSuback, HandlePuback, HandleCommand,
              HandlePubrel, HandleDisconnect, Handling, calm
<1>7. CASE BrokerSendTask
  BY <1>7 DEF BrokerSendTask, SendConnect, SendPacket, SendFails, calm, Fault
<1>8. CASE BrokerRecvTask
  BY <1>8 DEF BrokerRecvTask, ReadPacket, ReadEof, netVars, calm, Fault
<1>9. CASE BrokerDrops \/ GatewayRestart \/ NetFault
  BY <1>9 DEF BrokerDrops, GatewayRestart, NetFault, Suffers, calm, Fault
<1>10. CASE UNCHANGED vars
  BY <1>10 DEF vars, netVars, calm
<1> QED BY <1>1, <1>2, <1>3, <1>4, <1>5, <1>6, <1>7, <1>8, <1>9, <1>10
        DEF Next, Client, Gateway, Environment, GatewayStep

LEMMA SettledBefore ==
  ASSUME [Next]_vars, Settled'
  PROVE  Settled /\ ~Fault("restart") /\ ~Fault("reboot")
<1>1. UNCHANGED scenario /\ seen \subseteq seen'
  BY FaultsAreKept
<1>2. Settled
  BY <1>1 DEF Settled, Arduino, NeverSeen
<1> QED BY <1>2 DEF Settled, NeverSeen, Fault

LEMMA WorldInit == Init => WorldInv
<1> SUFFICES ASSUME Init PROVE \E w \in World : IdInv(w)
  BY DEF WorldInv
<1>1. Data1 \in Topic
  BY Roles
<1> DEFINE f == [n \in Nat |-> Data1]
           w == [own |-> f, names |-> f, mids |-> 0, ids |-> 0]
<1>2. w \in World
  BY <1>1 DEF World
<1> HIDE DEF f
<1>3. NetIds(w)
  BY Few DEF NetIds, Init, NetInit
<1>4. GatewayIds(w)
  BY Few DEF GatewayIds, Last, Init, GatewayInit
<1>5. ArdIds(w)
  BY UnregisteredIsRight DEF ArdIds, Init, ArdInit
<1> HIDE DEF w
<1> QED BY <1>2, <1>3, <1>4, <1>5 DEF IdInv

LEMMA WorldStep == TypeInv /\ NoWrap /\ WorldInv /\ [Next]_vars => WorldInv'
<1> SUFFICES ASSUME TypeInv, NoWrap, WorldInv, [Next]_vars, Settled'
             PROVE  \E v \in World : IdInv(v)'
  BY DEF WorldInv
<1>1. Settled /\ Arduino /\ ~Fault("restart") /\ ~Fault("reboot") /\ ~Pico
  BY SettledBefore DEF Settled, Arduino, Pico
<1>2. PICK w \in World : IdInv(w)
  BY <1>1 DEF WorldInv
<1>3. NetIds(w) /\ GatewayIds(w) /\ ArdIds(w) /\ Grows(w, w)
  BY <1>2, GrowsItself DEF IdInv
<1>4. ASSUME NEW v \in World, Grows(w, v), v.ids = w.ids, NetIds(v)', ArdIds(v)',
             UNCHANGED gatewayVars
      PROVE  \E u \in World : IdInv(u)'
  BY <1>3, <1>4, GatewayIdsKept DEF IdInv
<1>5. ASSUME NEW v \in World, Grows(w, v), v.mids = w.mids, NetIds(v)', GatewayIds(v)',
             UNCHANGED <<ardVars, picoVars>>
      PROVE  \E u \in World : IdInv(u)'
  BY <1>3, <1>5, ArdIdsKept DEF IdInv
<1>6. CASE Client
  <2>1. CASE ArduinoLoop
    BY <1>3, <1>4, <2>1, ArdLoopIds DEF ArduinoLoop
  <2>2. CASE ArduinoReceive
    BY <1>3, <1>4, <2>2, ArdReceiveIds DEF ArduinoReceive
  <2>3. CASE ArduinoTimer(InTime)
    BY <1>3, <1>4, <2>3, ArdTimeoutIds DEF ArduinoTimer
  <2>4. CASE ArduinoPublish
    BY <1>3, <1>4, <2>4, ArdPublishIds DEF ArduinoPublish
  <2>5. ~PicoLoop /\ ~PicoCallback /\ ~PicoTimer(InTime) /\ ~PicoButton
    BY <1>1 DEF PicoLoop, PicoCallback, PicoTimer, PicoButton
  <2> QED BY <1>6, <2>1, <2>2, <2>3, <2>4, <2>5 DEF Client
<1>7. CASE Gateway
  <2>1. CASE ClientRecvTask /\ UNCHANGED <<ardVars, picoVars>>
    BY <1>3, <1>5, <2>1, ClientRecvIds
  <2>2. CASE PacketHandleTask /\ UNCHANGED <<ardVars, picoVars>>
    <3>1. \E v \in World : Grows(w, v) /\ v.mids = w.mids /\ NetIds(v)' /\ GatewayIds(v)'
      BY <1>3, <2>2, FromClientIds, FromBrokerIds DEF PacketHandleTask
    <3> QED BY <1>5, <2>2, <3>1
  <2>3. CASE BrokerSendTask /\ UNCHANGED <<ardVars, picoVars>>
    BY <1>3, <1>5, <2>3, BrokerSendIds
  <2>4. CASE ConnectSended /\ UNCHANGED <<ardVars, picoVars>>
    BY <1>3, <1>5, <2>4, OtherGatewayIds
  <2>5. CASE BrokerRecvTask /\ UNCHANGED <<ardVars, picoVars>>
    BY <1>3, <1>5, <2>5, BrokerRecvIds
  <2>6. CASE BrokerRecvClose /\ UNCHANGED <<ardVars, picoVars>>
    BY <1>3, <1>5, <2>6, OtherGatewayIds
  <2> QED BY <1>7, <2>1, <2>2, <2>3, <2>4, <2>5, <2>6 DEF Gateway, GatewayStep
<1>8. CASE Environment
  <2>1. CASE ArduinoTimer(Early)
    BY <1>3, <1>4, <2>1, ArdTimeoutIds DEF ArduinoTimer
  <2>2. ~ArduinoReboot /\ ~PicoTimer(Early) /\ ~PicoPowerCycle /\ ~GatewayRestart
    BY <1>1 DEF ArduinoReboot, ArdReboot, PicoTimer, PicoPowerCycle, GatewayRestart
  <2>3. ASSUME NEW t \in Command, CommandArrives(t), UNCHANGED <<ardVars, picoVars>>
        PROVE  \E v \in World : IdInv(v)'
    BY <1>3, <1>5, <2>3, OtherGatewayIds
  <2>4. CASE BrokerDrops /\ UNCHANGED <<ardVars, picoVars>>
    BY <1>3, <1>5, <2>4, OtherGatewayIds
  <2>5. CASE NetFault /\ UNCHANGED <<gatewayVars, ardVars, picoVars>>
    <3>1. NetIds(w)' /\ ArdIds(w)'
      BY <1>3, <2>5, NetFaultIds, ArdIdsKept
    <3> QED BY <1>3, <1>4, <2>5, <3>1
  <2> QED BY <1>8, <2>1, <2>2, <2>3, <2>4, <2>5 DEF Environment, GatewayStep
<1>9. CASE UNCHANGED vars
  <2>1. NetIds(w)' /\ ArdIds(w)'
    BY <1>3, <1>9, ArdIdsKept DEF vars, netVars, NetIds
  <2> QED BY <1>3, <1>4, <1>9, <2>1 DEF vars
<1> QED BY <1>6, <1>7, <1>8, <1>9 DEF Next

LEMMA WorldMeansIds ==
  ASSUME TypeInv, WorldInv
  PROVE  Settled => IdNamesItsTopic /\ PublishedUnderItsTopic
<1> SUFFICES ASSUME Settled PROVE TopicIdIsTheTopics /\ \A p \in published : p.topic = p.msg.topic
  BY DEF IdNamesItsTopic, PublishedUnderItsTopic
<1>1. PICK w \in World : IdInv(w)
  BY DEF WorldInv
<1>2. \A p \in published : p.topic = p.msg.topic
  BY <1>1 DEF IdInv, GatewayIds
<1>3. ASSUME client # None, NEW t \in Topic, NEW u \in Topic,
             StoredId(t) # 0, client.ids[u] = StoredId(t)
      PROVE  t = u
  <2>1. StoredId(t) = TopicId(t)
    BY DEF StoredId, Settled
  <2>2. Names(w, TopicId(t), t)
    BY <1>1, <1>3, <2>1, TopicIdIsRight DEF IdInv
  <2>3. Names(w, client.ids[u], u)
    BY <1>1, <1>3 DEF IdInv, GatewayIds, Clients
  <2> QED BY <1>3, <2>1, <2>2, <2>3 DEF Names
<1> QED BY <1>2, <1>3 DEF TopicIdIsTheTopics

(* As long as neither the message ids of the Arduino nor the topic ids of  *)
(* the gateway go round, and neither restarts, no fault of the network, no *)
(* timer and no failure of the broker makes the Arduino take another       *)
(* topic's id for its own (handle_regack, Topics::add, eraseNormal).       *)
THEOREM IdsAreRight ==
  Spec /\ []NoWrap =>
    [](Arduino /\ NeverSeen({"restart", "reboot"}) => IdNamesItsTopic)
<1>1. TypeInv /\ WorldInv => (Arduino /\ NeverSeen({"restart", "reboot"}) => IdNamesItsTopic)
  BY WorldMeansIds DEF Settled
<1> QED BY <1>1, TypeInvHolds, WorldInit, WorldStep, PTL DEF Spec

(* And under the same conditions what the Arduino publishes as a reading   *)
(* of one topic reaches the broker under no other one (mqttsn_publish,     *)
(* handlePublish).                                                         *)
THEOREM PublishedIsRight ==
  Spec /\ []NoWrap =>
    [](Arduino /\ NeverSeen({"restart", "reboot"}) => PublishedUnderItsTopic)
<1>1. TypeInv /\ WorldInv
        => (Arduino /\ NeverSeen({"restart", "reboot"}) => PublishedUnderItsTopic)
  BY WorldMeansIds DEF Settled
<1> QED BY <1>1, TypeInvHolds, WorldInit, WorldStep, PTL DEF Spec

(***************************************************************************)
(* Whose an acknowledgement is.  A ledger remembers which message each     *)
(* message id was used for (msg; mids is the last id), and which messages  *)
(* the broker has taken (taken).  It only grows.                           *)
(***************************************************************************)
Ledger == [msg : [Nat -> Message], mids : Nat, taken : SUBSET Message]

Carries(l, mid, m) == mid \in 1 .. l.mids /\ l.msg[mid] = m

MayAcknowledge(l, mid) == \E m \in l.taken : Carries(l, mid, m)

Continues(l, k) ==
  /\ \A mid, m : Carries(l, mid, m) => Carries(k, mid, m)
  /\ l.taken \subseteq k.taken

(* Packets that are right about the ledger.                                *)
Messages(l, S) == {p \in S : p.type = "PUBLISH" /\ p.qos # 0 => Carries(l, p.mid, p.msg)}

Backed(l, S) == {p \in S : p.type = "PUBACK" => MayAcknowledge(l, p.mid)}

Accepts(l) == {p \in DownPacket : p.type = "PUBACK" /\ p.ok => MayAcknowledge(l, p.mid)}

EventAcks(l) ==
  {e \in GatewayEvent : /\ e.from = "client" => e.packet \in Messages(l, UpPacket)
                        /\ e.from = "broker" => e.packet \in Backed(l, BrokerPacket \cup Disconnect)}

NetAcks(l) == up \in Seq(Messages(l, UpPacket)) /\ down \in Seq(Accepts(l))

GatewayAcks(l) ==
  /\ packetQ \in Seq(EventAcks(l))
  /\ brokerQ \in Seq(Messages(l, ToBroker))
  /\ fromBroker \in Seq(Backed(l, FromBroker))
  /\ \A m \in l.taken : \E p \in published : p.msg = m

ArdAcks(l) ==
  /\ l.mids = nextMid - 1
  /\ pend # None => pend.packet.qos # 0 /\ pend.packet \in Messages(l, UpPacket)
  /\ acked \subseteq l.taken

AckInv(l) == NetAcks(l) /\ GatewayAcks(l) /\ ArdAcks(l)

(* The message ids have not gone round.                                    *)
NoMidAgain == nextMid < MaxMid

LEMMA ContinuesItself == \A l : Continues(l, l)
BY DEF Continues

LEMMA ContinuesSets ==
  ASSUME NEW l, NEW k, Continues(l, k)
  PROVE  /\ \A S : Messages(l, S) \subseteq Messages(k, S) /\ Backed(l, S) \subseteq Backed(k, S)
         /\ Accepts(l) \subseteq Accepts(k) /\ EventAcks(l) \subseteq EventAcks(k)
<1>1. \A mid : MayAcknowledge(l, mid) => MayAcknowledge(k, mid)
  BY DEF Continues, MayAcknowledge
<1>2. \A S : Messages(l, S) \subseteq Messages(k, S)
  BY DEF Continues, Messages
<1>3. \A S : Backed(l, S) \subseteq Backed(k, S)
  BY <1>1 DEF Backed
<1>4. Accepts(l) \subseteq Accepts(k)
  BY <1>1 DEF Accepts
<1>5. EventAcks(l) \subseteq EventAcks(k)
  BY <1>2, <1>3 DEF EventAcks
<1> QED BY <1>2, <1>3, <1>4, <1>5

LEMMA ContinuesSeqs ==
  ASSUME NEW l, NEW k, Continues(l, k)
  PROVE  /\ Seq(Messages(l, UpPacket)) \subseteq Seq(Messages(k, UpPacket))
         /\ Seq(Messages(l, ToBroker)) \subseteq Seq(Messages(k, ToBroker))
         /\ Seq(Backed(l, FromBroker)) \subseteq Seq(Backed(k, FromBroker))
         /\ Seq(Accepts(l)) \subseteq Seq(Accepts(k))
         /\ Seq(EventAcks(l)) \subseteq Seq(EventAcks(k))
BY ContinuesSets, SeqMonotonic

(* A message id used for the first time.                                   *)
LEMMA NewMid ==
  ASSUME NEW l \in Ledger, NEW m \in Message
  PROVE  \E k \in Ledger : /\ Continues(l, k) /\ k.taken = l.taken
                           /\ k.mids = l.mids + 1 /\ Carries(k, l.mids + 1, m)
<1> DEFINE o == [l.msg EXCEPT ![l.mids + 1] = m]
           k == [msg |-> o, mids |-> l.mids + 1, taken |-> l.taken]
<1>1. l.mids \in Nat /\ l.msg \in [Nat -> Message] /\ l.taken \in SUBSET Message
  BY DEF Ledger
<1>2. o \in [Nat -> Message] /\ o[l.mids + 1] = m /\ \A i \in 1 .. l.mids : o[i] = l.msg[i]
  BY <1>1
<1>3. k \in Ledger
  BY <1>1, <1>2 DEF Ledger
<1> HIDE DEF o
<1>4. Continues(l, k) /\ Carries(k, l.mids + 1, m)
  BY <1>1, <1>2 DEF Continues, Carries
<1> QED BY <1>3, <1>4

(* The broker takes a message.                                             *)
LEMMA NewTaken ==
  ASSUME NEW l \in Ledger, NEW m \in Message
  PROVE  \E k \in Ledger : /\ Continues(l, k) /\ k.taken = l.taken \cup {m} /\ k.mids = l.mids
                           /\ \A mid : Carries(l, mid, m) => MayAcknowledge(k, mid)
<1> DEFINE k == [msg |-> l.msg, mids |-> l.mids, taken |-> l.taken \cup {m}]
<1>1. k \in Ledger
  BY DEF Ledger
<1>2. k.msg = l.msg /\ k.mids = l.mids /\ k.taken = l.taken \cup {m}
  OBVIOUS
<1> HIDE DEF k
<1>3. Continues(l, k) /\ \A mid : Carries(l, mid, m) => MayAcknowledge(k, mid)
  BY <1>2 DEF Continues, Carries, MayAcknowledge
<1> QED BY <1>1, <1>2, <1>3

(* What a step leaves alone stays right.                                   *)
LEMMA NetAcksGrow ==
  ASSUME NEW l, NEW k, Continues(l, k), NetAcks(l)
  PROVE  NetAcks(k)
BY ContinuesSeqs DEF NetAcks

LEMMA GatewayAcksKept ==
  ASSUME NEW l, NEW k, Continues(l, k), k.taken = l.taken, GatewayAcks(l),
         UNCHANGED gatewayVars
  PROVE  GatewayAcks(k)'
BY ContinuesSeqs DEF GatewayAcks, gatewayVars, pahoVars, brokerVars

LEMMA ArdAcksKept ==
  ASSUME NEW l, NEW k, Continues(l, k), k.mids = l.mids, ArdAcks(l), UNCHANGED ardVars
  PROVE  ArdAcks(k)'
<1>1. UNCHANGED <<nextMid, pend, acked>>
  BY DEF ardVars
<1>2. acked \subseteq k.taken
  BY DEF ArdAcks, Continues
<1>3. pend # None => pend.packet.qos # 0 /\ pend.packet \in Messages(k, UpPacket)
  BY ContinuesSets DEF ArdAcks
<1> QED BY <1>1, <1>2, <1>3 DEF ArdAcks

(***************************************************************************)
(* The Arduino's steps.                                                    *)
(***************************************************************************)
LEMMA SendUpAcks ==
  ASSUME NEW l, NetAcks(l), NEW p \in Messages(l, UpPacket), SendUp(p), UNCHANGED down
  PROVE  NetAcks(l)'
BY Added DEF NetAcks, SendUp

(* Registration: what is sent is no message.                               *)
LEMMA ProcessAcks ==
  ASSUME TypeInv, NoMidAgain, NEW l \in Ledger, NetAcks(l), ArdAcks(l),
         NEW tab, tab # None => tab \in TableType, Process(tab), UNCHANGED <<down, pend, acked>>
  PROVE  \E k \in Ledger : Continues(l, k) /\ k.taken = l.taken /\ NetAcks(k)' /\ ArdAcks(k)'
<1>0. l.mids = nextMid - 1 /\ nextMid \in 1 .. MaxMid /\ MaxMid \in Nat
  BY ArduinoAssumption DEF TypeInv, ArdOK, ArdAcks
<1>1. CASE tab = None \/ FirstMissing(tab) = {}
  <2>1. NetAcks(l)' /\ ArdAcks(l)'
    BY <1>1 DEF Process, NetAcks, ArdAcks
  <2> QED BY <2>1, ContinuesItself
<1>2. CASE tab # None /\ FirstMissing(tab) # {}
  <2>1. PICK t \in Topic :
           /\ tab[t].id = 0
           /\ LET new == tab[t].mid = 0
                  mid == IF new THEN nextMid ELSE tab[t].mid
              IN  /\ table' = [tab EXCEPT ![t].mid = mid]
                  /\ nextMid' = IF new THEN Following(nextMid) ELSE nextMid
                  /\ up' = Append(up, [type |-> IF t \in Sender THEN "REGISTER" ELSE "SUBSCRIBE",
                                       topic |-> t, mid |-> mid])
    BY <1>2, ProcessAsks
  <2> DEFINE mid == IF tab[t].mid = 0 THEN nextMid ELSE tab[t].mid
             p == [type |-> IF t \in Sender THEN "REGISTER" ELSE "SUBSCRIBE",
                   topic |-> t, mid |-> mid]
  <2>2. mid \in Nat
    BY <1>0, <1>2 DEF TableType
  <2>3. SendUp(p) /\ (nextMid' = nextMid \/ nextMid' = nextMid + 1)
    BY <1>0, <2>1 DEF SendUp, Following, NoMidAgain
  <2> HIDE DEF mid
  <2>4. p \in UpPacket /\ p.type # "PUBLISH"
    BY <2>2, Roles DEF UpPacket, Register, Subscription
  <2> HIDE DEF p
  <2>5. NetAcks(l)'
    BY <2>3, <2>4, SendUpAcks DEF Messages
  <2>6. CASE nextMid' = nextMid
    <3>1. ArdAcks(l)'
      BY <2>6 DEF ArdAcks
    <3> QED BY <2>5, <3>1, ContinuesItself
  <2>7. CASE nextMid' = nextMid + 1
    <3>1. [topic |-> Data1, n |-> 0] \in Message
      BY Roles DEF Message
    <3>2. PICK k \in Ledger : Continues(l, k) /\ k.taken = l.taken /\ k.mids = l.mids + 1
      BY <3>1, NewMid
    <3>3. NetAcks(k)'
      BY <2>5, <3>2, ContinuesSeqs DEF NetAcks
    <3>4. ArdAcks(k)'
      <4>1. k.mids = nextMid' - 1
        BY <1>0, <2>7, <3>2
      <4> QED BY <3>2, <4>1, ContinuesSets DEF ArdAcks
    <3> QED BY <3>2, <3>3, <3>4
  <2> QED BY <2>3, <2>6, <2>7
<1> QED BY <1>1, <1>2

LEMMA ArdLoopAcks ==
  ASSUME TypeInv, NoMidAgain, NEW l \in Ledger, NetAcks(l), ArdAcks(l), ArdLoop
  PROVE  \E k \in Ledger : Continues(l, k) /\ k.taken = l.taken /\ NetAcks(k)' /\ ArdAcks(k)'
<1>0. ArdOK
  BY DEF TypeInv
<1>1. CASE ArdConnect
  <2>1. [type |-> "CONNECT"] \in Messages(l, UpPacket)
    BY DEF Messages, UpPacket, Connect
  <2>2. NetAcks(l)' /\ ArdAcks(l)'
    BY <1>1, <2>1, SendUpAcks DEF ArdConnect, ArdAcks
  <2> QED BY <2>2, ContinuesItself
<1>2. CASE ArdConnacked
  <2>1. Refilled(table) # None => Refilled(table) \in TableType
    BY <1>0, UnregisteredType DEF ArdOK, Refilled
  <2> QED BY <1>2, <2>1, ProcessAcks DEF ArdConnacked
<1>3. CASE ArdAcknowledge
  <2>1. PICK p \in Messages(l, UpPacket) : SendUp(p)
    <3> DEFINE order == IF st = "REGISTERING" THEN <<"puback", "pubrec", "pubcomp">>
                        ELSE <<"pubrec", "pubcomp", "puback">>
    <3>1. PICK i \in FirstOwed(order) :
            SendUp([type |-> AckType(order[i]), mid |-> owed[order[i]]])
      BY <1>3, Zenon DEF ArdAcknowledge
    <3>2. i \in DOMAIN order
      BY DEF FirstOwed
    <3>3. order[i] \in {"puback", "pubrec", "pubcomp"}
      BY <3>2
    <3> HIDE DEF order
    <3>4. owed[order[i]] \in Nat /\ AckType(order[i]) \in {"PUBACK", "PUBREC", "PUBCOMP"}
      BY <1>0, <3>3 DEF ArdOK, AckType
    <3>5. [type |-> AckType(order[i]), mid |-> owed[order[i]]] \in Messages(l, UpPacket)
      BY <3>4 DEF Messages, UpPacket, Ack
    <3> QED BY <3>1, <3>5
  <2>2. NetAcks(l)' /\ ArdAcks(l)'
    BY <1>3, <2>1, SendUpAcks DEF ArdAcknowledge, ArdAcks
  <2> QED BY <2>2, ContinuesItself
<1>4. CASE ArdRegister
  BY <1>0, <1>4, ProcessAcks DEF ArdRegister, ArdOK
<1>5. CASE ArdReady \/ ArdNextRound
  <2>1. NetAcks(l)' /\ ArdAcks(l)'
    BY <1>5 DEF ArdReady, ArdNextRound, NetAcks, ArdAcks, netVars
  <2> QED BY <2>1, ContinuesItself
<1> QED BY <1>1, <1>2, <1>3, <1>4, <1>5 DEF ArdLoop

LEMMA ArdTimeoutAcks ==
  ASSUME TypeInv, NEW l, NetAcks(l), ArdAcks(l), ArdTimeout
  PROVE  NetAcks(l)' /\ ArdAcks(l)'
<1>1. CASE ArdConnectTimeout \/ ArdRegisterTimeout
  BY <1>1 DEF ArdConnectTimeout, ArdRegisterTimeout, NetAcks, ArdAcks
<1>2. CASE ArdRetry
  <2>0. pend \in PendingType /\ pend.packet \in Messages(l, UpPacket) /\ pend.packet.qos # 0
    BY <1>2 DEF TypeInv, ArdOK, ArdAcks, ArdRetry
  <2>1. CASE pend.retries >= MaxRetries
    BY <1>2, <2>1 DEF ArdRetry, NetAcks, ArdAcks
  <2>2. CASE ~(pend.retries >= MaxRetries)
    <3>1. pend' = [pend EXCEPT !.retries = @ + 1] /\ SendUp(pend.packet) /\ UNCHANGED down
      BY <1>2, <2>2 DEF ArdRetry
    <3>2. pend'.packet = pend.packet
      BY <2>0, <3>1 DEF PendingType
    <3>3. NetAcks(l)'
      BY <2>0, <3>1, SendUpAcks
    <3> QED BY <1>2, <2>0, <3>2, <3>3 DEF ArdRetry, ArdAcks
  <2> QED BY <2>1, <2>2
<1> QED BY <1>1, <1>2 DEF ArdTimeout

(* A message that can be acknowledged goes under a new message id.         *)
LEMMA ArdPublishAcks ==
  ASSUME TypeInv, NoMidAgain, NEW l \in Ledger, NetAcks(l), ArdAcks(l), ArdPublish
  PROVE  \E k \in Ledger : Continues(l, k) /\ k.taken = l.taken /\ NetAcks(k)' /\ ArdAcks(k)'
<1>0. ArdOK /\ {Data1, Data2} \subseteq Topic /\ TopicId(Data1) \in Ids /\ TopicId(Data2) \in Ids
  BY TopicIdType, Roles DEF TypeInv
<1>1. CASE ArdPublishQos0
  <2> DEFINE p == [type |-> "PUBLISH", tid |-> TopicId(Data2), qos |-> 0, mid |-> 0,
                   msg |-> [topic |-> Data2, n |-> count + 1]]
  <2>1. p \in Messages(l, UpPacket)
    BY <1>0 DEF ArdOK, UpPacket, Publication, Message, Messages
  <2>2. SendUp(p) /\ UNCHANGED down
    BY <1>1 DEF ArdPublishQos0
  <2> HIDE DEF p
  <2>3. NetAcks(l)' /\ ArdAcks(l)'
    BY <1>1, <2>1, <2>2, SendUpAcks DEF ArdPublishQos0, ArdAcks
  <2> QED BY <2>3, ContinuesItself
<1>2. CASE ArdPublishQos1
  <2> DEFINE m == [topic |-> Data1, n |-> count + 1]
             p == [type |-> "PUBLISH", tid |-> TopicId(Data1), qos |-> 1, mid |-> nextMid,
                   msg |-> m]
  <2>1. m \in Message
    BY <1>0 DEF ArdOK, Message
  <2>2. SendUp(p) /\ UNCHANGED <<down, acked>>
    BY <1>2 DEF ArdPublishQos1
  <2>3. pend' = IF pend = None THEN [packet |-> p, retries |-> 0] ELSE pend
    BY <1>2 DEF ArdPublishQos1
  <2>4. l.mids = nextMid - 1 /\ nextMid' = nextMid + 1 /\ nextMid \in Nat
    BY <1>0, <1>2, ArduinoAssumption DEF ArdPublishQos1, Following, NoMidAgain, ArdOK, ArdAcks
  <2> HIDE DEF m
  <2>5. PICK k \in Ledger : /\ Continues(l, k) /\ k.taken = l.taken
                            /\ k.mids = l.mids + 1 /\ Carries(k, l.mids + 1, m)
    BY <2>1, NewMid
  <2>6. p \in UpPacket /\ p.qos # 0 /\ Carries(k, p.mid, p.msg)
    <3>1. p \in Publication
      BY <1>0, <2>1, <2>4 DEF Publication
    <3>2. l.mids + 1 = nextMid
      BY <2>4
    <3> QED BY <2>5, <3>1, <3>2 DEF UpPacket
  <2> HIDE DEF p
  <2>7. p \in Messages(k, UpPacket)
    BY <2>6 DEF Messages
  <2>8. NetAcks(k)'
    BY <2>2, <2>5, <2>7, SendUpAcks, NetAcksGrow
  <2>9. pend' # None => pend'.packet.qos # 0 /\ pend'.packet \in Messages(k, UpPacket)
    BY <2>3, <2>5, <2>6, <2>7, ContinuesSets DEF ArdAcks
  <2>10. k.mids = nextMid' - 1
    BY <2>4, <2>5
  <2>11. ArdAcks(k)'
    BY <2>2, <2>5, <2>9, <2>10 DEF ArdAcks
  <2> QED BY <2>5, <2>8, <2>11
<1> QED BY <1>1, <1>2 DEF ArdPublish

(* An acknowledgement that says accepted is one of a message that the      *)
(* broker has.                                                             *)
LEMMA ArdReceiveAcks ==
  ASSUME TypeInv, NEW l \in Ledger, NetAcks(l), ArdAcks(l), ArdReceive
  PROVE  NetAcks(l)' /\ ArdAcks(l)'
<1>0. down # <<>> /\ nextMid' = nextMid /\ up' = up /\ down' = Tail(down)
  BY DEF ArdReceive, ArdReceiveConnack, ArdReceivePuback, ArdReceiveCommand,
         ArdReceivePubrel, ArdReceiveOther, ArdReceiveId, Receiving
<1>1. Arriving \in Accepts(l) /\ NetAcks(l)'
  BY <1>0, Taken DEF NetAcks, Arriving
<1>2. CASE ArdReceivePuback
  <2>1. Arriving.type = "PUBACK"
    BY <1>2 DEF ArdReceivePuback, Receiving, Arriving
  <2>2. Arriving.ok => MayAcknowledge(l, Arriving.mid)
    BY <1>1, <2>1 DEF Accepts
  <2>3. pend' # None => pend' = pend
    BY <1>2 DEF ArdReceivePuback
  <2>4. CASE pend # None /\ pend.packet.mid = Arriving.mid /\ Arriving.ok
    <3>1. pend.packet \in Messages(l, UpPacket) /\ pend.packet.qos # 0
          /\ pend.packet.type = "PUBLISH"
      BY <2>4 DEF ArdAcks, TypeInv, ArdOK, PendingType, Publication
    <3>2. Carries(l, Arriving.mid, pend.packet.msg)
      BY <2>4, <3>1 DEF Messages
    <3>3. pend.packet.msg \in l.taken
      BY <2>2, <2>4, <3>2 DEF MayAcknowledge, Carries
    <3>4. acked' = acked \cup {pend.packet.msg}
      BY <1>2, <2>4 DEF ArdReceivePuback
    <3> QED BY <1>0, <1>1, <2>3, <3>3, <3>4 DEF ArdAcks
  <2>5. CASE acked' = acked
    BY <1>0, <1>1, <2>3, <2>5 DEF ArdAcks
  <2> QED BY <1>2, <2>4, <2>5 DEF ArdReceivePuback
<1>3. CASE UNCHANGED <<pend, acked>>
  BY <1>0, <1>1, <1>3 DEF ArdAcks
<1> QED BY <1>2, <1>3 DEF ArdReceive, ArdReceiveConnack, ArdReceiveCommand,
                          ArdReceivePubrel, ArdReceiveOther, ArdReceiveId

(***************************************************************************)
(* The gateway's steps.                                                    *)
(***************************************************************************)
LEMMA HandlingAcks ==
  ASSUME TypeInv, NEW l, GatewayAcks(l), NEW from, NEW type, Handling(from, type)
  PROVE  /\ from = "client" => Packet \in Messages(l, UpPacket)
         /\ from = "broker" => Packet \in Backed(l, BrokerPacket \cup Disconnect)
         /\ packetQ' \in Seq(EventAcks(l))
<1>1. packetQ \in Seq(EventAcks(l)) /\ packetQ # <<>>
  BY DEF GatewayAcks, Handling
<1>2. Head(packetQ) \in EventAcks(l) /\ Tail(packetQ) \in Seq(EventAcks(l))
  BY <1>1, Taken
<1> QED BY <1>2 DEF EventAcks, Packet, Handling

LEMMA AnswerAcks ==
  ASSUME TypeInv, NEW l, NetAcks(l), GatewayAcks(l),
         NEW from, NEW type, Handling(from, type), NEW c,
         NEW d \in Seq(Accepts(l)), NEW b \in Seq(Messages(l, ToBroker)), Answer(c, d, b)
  PROVE  NetAcks(l)' /\ GatewayAcks(l)'
<1>1. packetQ' \in Seq(EventAcks(l))
  BY HandlingAcks
<1>2. UNCHANGED <<up, fromBroker, published>>
  BY DEF Handling, brokerVars
<1>3. down' \in Seq(Accepts(l))
  BY Joined DEF NetAcks, Answer
<1>4. brokerQ' \in Seq(Messages(l, ToBroker))
  BY Joined DEF GatewayAcks, Answer
<1> QED BY <1>1, <1>2, <1>3, <1>4 DEF NetAcks, GatewayAcks

(* What goes to either side unless it is a message or an acknowledgement.  *)
LEMMA OtherPackets ==
  ASSUME NEW l
  PROVE  /\ <<>> \in Seq(Accepts(l)) /\ <<>> \in Seq(Messages(l, ToBroker))
         /\ \A p \in DownPacket : p.type # "PUBACK" => <<p>> \in Seq(Accepts(l))
         /\ \A p \in ToBroker : p.type # "PUBLISH" => <<p>> \in Seq(Messages(l, ToBroker))
BY Few DEF Accepts, Messages

LEMMA FromClientAcks ==
  ASSUME TypeInv, NEW l, NetAcks(l), GatewayAcks(l),
         \/ HandleConnect \/ HandleRegister \/ HandleSubscribe \/ HandlePublish
         \/ \E type \in {"PUBACK", "PUBREC", "PUBCOMP"} : HandleAck(type)
  PROVE  NetAcks(l)' /\ GatewayAcks(l)'
<1>0. <<>> \in Seq(Accepts(l)) /\ <<>> \in Seq(Messages(l, ToBroker))
  BY OtherPackets
<1>1. ASSUME NEW type, Handling("client", type)
      PROVE  /\ client \in ClientType /\ Packet.type = type
             /\ Packet \in UpPacket /\ Packet \in Messages(l, UpPacket)
  BY <1>1, HandlingType, HandlingAcks
<1>2. CASE HandleConnect
  <2> DEFINE p == [type |-> "CONNECT"]
  <2>1. p \in ToBroker /\ p.type # "PUBLISH"
    BY DEF ToBroker, Connect
  <2>2. <<p>> \in Seq(Messages(l, ToBroker))
    BY <2>1, OtherPackets
  <2> QED BY <1>0, <1>2, <2>2, AnswerAcks DEF HandleConnect
<1>3. CASE HandleRegister
  <2>1. Handling("client", "REGISTER")
    BY <1>3 DEF HandleRegister
  <2>2. client \in ClientType /\ Packet \in Register
    BY <1>1, <2>1, UpKinds
  <2>3. Packet.topic \in Topic /\ Packet.mid \in Nat
    BY <2>2, Roles DEF Register
  <2> DEFINE c == AddTopic(client, Packet.topic)
             p == [type |-> "REGACK", tid |-> c.ids[Packet.topic], mid |-> Packet.mid]
  <2>4. c.ids[Packet.topic] \in Ids
    BY <2>2, <2>3, AddTopicType DEF ClientType
  <2>5. p \in DownPacket /\ p.type # "PUBACK"
    BY <2>3, <2>4 DEF DownPacket, IdGiven
  <2>6. <<p>> \in Seq(Accepts(l))
    BY <2>5, OtherPackets
  <2>7. Answer(c, <<p>>, <<>>) \/ Answer(client, <<>>, <<>>)
    BY <1>3 DEF HandleRegister
  <2> HIDE DEF c, p
  <2> QED BY <1>0, <2>1, <2>6, <2>7, AnswerAcks
<1>4. CASE HandleSubscribe
  <2>1. Handling("client", "SUBSCRIBE")
    BY <1>4 DEF HandleSubscribe
  <2>2. Packet \in Subscription
    BY <1>1, <2>1, UpKinds
  <2> DEFINE p == [type |-> "SUBSCRIBE", topic |-> Packet.topic, mid |-> Packet.mid]
  <2>3. p \in ToBroker /\ p.type # "PUBLISH"
    BY <2>2 DEF ToBroker, Subscription
  <2>4. <<p>> \in Seq(Messages(l, ToBroker))
    BY <2>3, OtherPackets
  <2>5. \E c : Answer(c, <<>>, <<p>>)
    BY <1>4 DEF HandleSubscribe
  <2> HIDE DEF p
  <2> QED BY <1>0, <2>1, <2>4, <2>5, AnswerAcks
<1>5. CASE HandlePublish
  <2>1. Handling("client", "PUBLISH")
    BY <1>5 DEF HandlePublish
  <2>2. Packet \in Publication /\ (Packet.qos # 0 => Carries(l, Packet.mid, Packet.msg))
    BY <1>1, <2>1, UpKinds DEF Messages
  <2>3. /\ Packet.mid \in Nat /\ Packet.tid \in Ids /\ Packet.qos \in Nat
        /\ Packet.msg \in Message
    BY <2>2 DEF Publication
  <2> DEFINE t == TopicOf(client, Packet.tid)
             p == [type |-> "PUBLISH", topic |-> t, qos |-> Packet.qos,
                   mid |-> Packet.mid, msg |-> Packet.msg]
             r == [type |-> "PUBACK", mid |-> Packet.mid, ok |-> FALSE]
  <2>4. t \in Topic \cup {None}
    BY DEF TopicOf
  <2>5. \E c : Answer(c, <<r>>, <<>>) \/ Answer(c, <<>>, <<p>>)
    BY <1>5 DEF HandlePublish
  <2> HIDE DEF t
  <2>6. p \in Messages(l, ToBroker)
    BY <2>2, <2>3, <2>4 DEF Messages, ToBroker, Forwarded
  <2>7. r \in Accepts(l)
    BY <2>3 DEF Accepts, DownPacket, Puback
  <2> HIDE DEF p, r
  <2>8. <<p>> \in Seq(Messages(l, ToBroker)) /\ <<r>> \in Seq(Accepts(l))
    BY <2>6, <2>7, Few
  <2> QED BY <1>0, <2>1, <2>5, <2>8, AnswerAcks
<1>6. ASSUME NEW type \in {"PUBACK", "PUBREC", "PUBCOMP"}, HandleAck(type)
      PROVE  NetAcks(l)' /\ GatewayAcks(l)'
  <2>1. Handling("client", type)
    BY <1>6 DEF HandleAck
  <2>2. Packet \in Ack /\ Packet.type # "PUBLISH"
    BY <1>1, <2>1, UpKinds
  <2>3. <<Packet>> \in Seq(Messages(l, ToBroker))
    BY <2>2, OtherPackets DEF ToBroker
  <2>4. Answer(client, <<>>, <<Packet>>) \/ Answer(client, <<>>, <<>>)
    BY <1>6 DEF HandleAck
  <2> QED BY <1>0, <2>1, <2>3, <2>4, AnswerAcks
<1> QED BY <1>2, <1>3, <1>4, <1>5, <1>6

(* The broker acknowledges a message to the gateway before the gateway     *)
(* does to the client.                                                     *)
LEMMA FromBrokerAcks ==
  ASSUME TypeInv, NEW l, NetAcks(l), GatewayAcks(l),
         \/ HandleConnack \/ HandleSuback \/ HandlePuback
         \/ HandleCommand \/ HandlePubrel \/ HandleDisconnect
  PROVE  NetAcks(l)' /\ GatewayAcks(l)'
<1>0. <<>> \in Seq(Messages(l, ToBroker)) /\ <<>> \in Seq(Accepts(l))
  BY OtherPackets
<1>1. ASSUME NEW type, Handling("broker", type)
      PROVE  /\ client \in ClientType /\ Packet.type = type
             /\ Packet \in BrokerPacket \cup Disconnect
             /\ Packet \in Backed(l, BrokerPacket \cup Disconnect)
  BY <1>1, HandlingType, HandlingAcks
<1>2. CASE HandleConnack
  <2>1. Handling("broker", "CONNACK")
    BY <1>2 DEF HandleConnack
  <2>2. Packet \in Connack
    BY <1>1, <2>1, BrokerKinds
  <2>3. <<Packet>> \in Seq(Accepts(l))
    BY <2>2, OtherPackets DEF DownPacket, Connack
  <2>4. \E c : Answer(c, <<Packet>>, <<>>)
    BY <1>2 DEF HandleConnack
  <2> QED BY <1>0, <2>1, <2>3, <2>4, AnswerAcks
<1>3. CASE HandleSuback
  <2>1. Handling("broker", "SUBACK")
    BY <1>3 DEF HandleSuback
  <2>2. client \in ClientType /\ Packet.mid \in Nat
    BY <1>1, <2>1, BrokerKinds DEF BrokerAck
  <2> DEFINE es == Awaited(client.waitedSub, Packet.mid)
             e == CHOOSE e \in es : TRUE
             p == [type |-> "SUBACK", tid |-> e.tid, mid |-> Packet.mid]
  <2>3. ASSUME es # {} PROVE <<p>> \in Seq(Accepts(l))
    <3>1. e \in AwaitedId
      BY <2>2, <2>3 DEF Awaited, ClientType
    <3> HIDE DEF e
    <3>2. p \in DownPacket /\ p.type # "PUBACK"
      BY <2>2, <3>1 DEF AwaitedId, DownPacket, IdGiven
    <3> QED BY <3>2, OtherPackets
  <2>4. \E c : Answer(c, IF es = {} THEN <<>> ELSE <<p>>, <<>>)
    BY <1>3 DEF HandleSuback
  <2> HIDE DEF es, p
  <2>5. (IF es = {} THEN <<>> ELSE <<p>>) \in Seq(Accepts(l))
    BY <1>0, <2>3
  <2> QED BY <1>0, <2>1, <2>4, <2>5, AnswerAcks
<1>4. CASE HandlePuback
  <2>1. Handling("broker", "PUBACK")
    BY <1>4 DEF HandlePuback
  <2>2. Packet.mid \in Nat /\ MayAcknowledge(l, Packet.mid)
    BY <1>1, <2>1, BrokerKinds DEF BrokerAck, Backed
  <2> DEFINE es == Awaited(client.waitedPub, Packet.mid)
             p == [type |-> "PUBACK", mid |-> Packet.mid, ok |-> TRUE]
  <2>3. p \in Accepts(l)
    BY <2>2 DEF Accepts, DownPacket, Puback
  <2>4. \E c : Answer(c, IF es = {} THEN <<>> ELSE <<p>>, <<>>)
    BY <1>4 DEF HandlePuback
  <2> HIDE DEF es, p
  <2>5. (IF es = {} THEN <<>> ELSE <<p>>) \in Seq(Accepts(l))
    BY <1>0, <2>3, Few
  <2> QED BY <1>0, <2>1, <2>4, <2>5, AnswerAcks
<1>5. CASE HandleCommand
  <2>1. Handling("broker", "PUBLISH")
    BY <1>5 DEF HandleCommand
  <2>2. client \in ClientType /\ Packet \in CommandTaken
    BY <1>1, <2>1, BrokerKinds
  <2>3. /\ Packet.topic \in Topic /\ Packet.qos \in Nat /\ Packet.mid \in Nat
        /\ Packet.cmd \in Message /\ client.ids[Packet.topic] \in Ids
    BY <2>2, Roles DEF CommandTaken, ClientType
  <2> DEFINE a == [type |-> IF Packet.qos = 1 THEN "PUBACK" ELSE "PUBREC", mid |-> Packet.mid]
             p == [type |-> "PUBLISH", tid |-> client.ids[Packet.topic],
                   qos |-> Packet.qos, mid |-> Packet.mid, cmd |-> Packet.cmd]
  <2>4. a \in ToBroker /\ a.type # "PUBLISH"
    BY <2>3 DEF ToBroker, Ack
  <2>5. p \in DownPacket /\ p.type # "PUBACK"
    BY <2>3 DEF DownPacket, CommandSent
  <2>6. <<a>> \in Seq(Messages(l, ToBroker)) /\ <<p>> \in Seq(Accepts(l))
    BY <2>4, <2>5, OtherPackets
  <2>7. \/ Answer(client, <<>>, <<>>)
        \/ Answer(client, <<>>, <<a>>)
        \/ Answer(client, <<p>>, <<>>)
    BY <1>5 DEF HandleCommand
  <2> HIDE DEF a, p
  <2> QED BY <1>0, <2>1, <2>6, <2>7, AnswerAcks
<1>6. CASE HandlePubrel
  <2>1. Handling("broker", "PUBREL")
    BY <1>6 DEF HandlePubrel
  <2>2. Packet \in BrokerAck /\ Packet.type = "PUBREL"
    BY <1>1, <2>1, BrokerKinds
  <2>3. Packet \in DownPacket
    BY <2>2 DEF BrokerAck, DownPacket, Pubrel
  <2>4. <<Packet>> \in Seq(Accepts(l))
    BY <2>2, <2>3, OtherPackets
  <2>5. Answer(client, <<Packet>>, <<>>) \/ Answer(client, <<>>, <<>>)
    BY <1>6 DEF HandlePubrel
  <2> QED BY <1>0, <2>1, <2>4, <2>5, AnswerAcks
<1>7. CASE HandleDisconnect
  <2>1. Handling("broker", "DISCONNECT") /\ \E c : Answer(c, <<>>, <<>>)
    BY <1>7 DEF HandleDisconnect
  <2> QED BY <1>0, <2>1, AnswerAcks
<1> QED BY <1>2, <1>3, <1>4, <1>5, <1>6, <1>7

LEMMA ClientRecvAcks ==
  ASSUME TypeInv, NEW l, NetAcks(l), GatewayAcks(l), ClientRecvTask
  PROVE  NetAcks(l)' /\ GatewayAcks(l)'
<1>1. /\ up # <<>> /\ Head(up) \in Messages(l, UpPacket)
      /\ up' \in Seq(Messages(l, UpPacket))
  BY Taken DEF NetAcks, ClientRecvTask
<1>2. UNCHANGED <<brokerQ, fromBroker, published>>
  BY DEF ClientRecvTask, brokerVars
<1>3. down' = down \/ down' = Append(down, [type |-> "DISCONNECT"])
  BY DEF ClientRecvTask
<1>4. [type |-> "DISCONNECT"] \in Accepts(l)
  BY DEF Accepts, DownPacket, Disconnect
<1>5. NetAcks(l)'
  BY <1>1, <1>3, <1>4, Added DEF NetAcks
<1> DEFINE e == [from |-> "client", packet |-> Head(up)]
<1>6. e \in EventAcks(l)
  BY <1>1 DEF EventAcks, GatewayEvent, Messages
<1>7. packetQ' = packetQ \/ packetQ' = Append(packetQ, e)
  BY DEF ClientRecvTask
<1> HIDE DEF e
<1>8. packetQ' \in Seq(EventAcks(l))
  BY <1>6, <1>7, Added DEF GatewayAcks
<1> QED BY <1>2, <1>5, <1>8 DEF GatewayAcks

(* The broker takes a packet: what it acknowledges it has taken.           *)
LEMMA TakeAcks ==
  ASSUME NEW l \in Ledger, NEW p \in Messages(l, ToBroker), TakePacket(p), p.type # "CONNECT",
         fromBroker \in Seq(Backed(l, FromBroker)),
         \A m \in l.taken : \E q \in published : q.msg = m
  PROVE  \E k \in Ledger :
           /\ Continues(l, k) /\ k.mids = l.mids
           /\ fromBroker' \in Seq(Backed(k, FromBroker))
           /\ \A m \in k.taken : \E q \in published' : q.msg = m
<1>0. p \in ToBroker
  BY DEF Messages
<1>1. CASE p.type = "PUBLISH"
  <2>1. p \in Forwarded /\ p.msg \in Message /\ p.mid \in Nat
    BY <1>0, <1>1, ToBrokerKinds DEF Forwarded
  <2>2. PICK k \in Ledger :
           /\ Continues(l, k) /\ k.taken = l.taken \cup {p.msg} /\ k.mids = l.mids
           /\ \A mid : Carries(l, mid, p.msg) => MayAcknowledge(k, mid)
    BY <2>1, NewTaken
  <2>3. fromBroker \in Seq(Backed(k, FromBroker))
    BY <2>2, ContinuesSeqs
  <2> DEFINE a == [type |-> "PUBACK", mid |-> p.mid]
  <2>4. Reply(p) = IF p.qos = 0 THEN <<>> ELSE <<a>>
    BY <1>1 DEF Reply
  <2>5. p.qos # 0 => a \in Backed(k, FromBroker)
    <3>1. a \in FromBroker
      BY <2>1 DEF FromBroker, BrokerPacket, BrokerAck
    <3>2. p.qos # 0 => Carries(l, p.mid, p.msg)
      BY <1>1 DEF Messages
    <3> QED BY <2>2, <3>1, <3>2 DEF Backed
  <2> HIDE DEF a
  <2>6. Reply(p) \in Seq(Backed(k, FromBroker))
    BY <2>4, <2>5, Few
  <2>7. fromBroker' \in Seq(Backed(k, FromBroker))
    BY <2>3, <2>6, Joined DEF TakePacket
  <2>8. published' = published \cup {[msg |-> p.msg, topic |-> p.topic]}
    BY <1>1 DEF TakePacket
  <2>9. ASSUME NEW m \in k.taken PROVE \E q \in published' : q.msg = m
    <3>1. CASE m = p.msg
      <4>1. [msg |-> p.msg, topic |-> p.topic] \in published'
        BY <2>8
      <4> QED BY <3>1, <4>1
    <3>2. CASE m \in l.taken
      BY <2>8, <3>2
    <3> QED BY <2>2, <2>9, <3>1, <3>2
  <2> QED BY <2>2, <2>7, <2>9
<1>2. CASE p.type # "PUBLISH"
  <2>1. published' = published
    BY <1>2 DEF TakePacket
  <2>2. Reply(p) \in Seq(Backed(l, FromBroker))
    <3>1. CASE p.type \in {"SUBSCRIBE", "PUBREC"}
      <4> DEFINE a == [type |-> IF p.type = "SUBSCRIBE" THEN "SUBACK" ELSE "PUBREL",
                       mid |-> p.mid]
      <4>1. p.mid \in Nat
        BY <1>0, <3>1, ToBrokerKinds DEF Subscription, Ack
      <4>2. a \in Backed(l, FromBroker)
        BY <4>1 DEF Backed, FromBroker, BrokerPacket, BrokerAck
      <4>3. Reply(p) = <<a>>
        BY <3>1 DEF Reply
      <4> HIDE DEF a
      <4> QED BY <4>2, <4>3, Few
    <3>2. CASE p.type \notin {"SUBSCRIBE", "PUBREC"}
      <4>1. Reply(p) = <<>>
        BY <1>2, <3>2 DEF Reply
      <4> QED BY <4>1, Few
    <3> QED BY <3>1, <3>2
  <2>3. fromBroker' \in Seq(Backed(l, FromBroker))
    BY <2>2, Joined DEF TakePacket
  <2> QED BY <2>1, <2>3, ContinuesItself
<1> QED BY <1>1, <1>2

(* The broker answers a CONNECT, or closes the connection.                 *)
LEMMA OtherAnswers ==
  ASSUME NEW l
  PROVE  /\ <<>> \in Seq(Backed(l, FromBroker))
         /\ EOF \in Backed(l, FromBroker)
         /\ \A ok \in BOOLEAN : TakeConnect(ok) => fromBroker' \in Seq(Backed(l, FromBroker))
<1>1. EOF \in Backed(l, FromBroker)
  BY FromBrokerTypes DEF Backed, EOF
<1>2. \A ok \in BOOLEAN : [type |-> "CONNACK", ok |-> ok] \in Backed(l, FromBroker)
  BY FromBrokerTypes DEF Backed
<1>3. ASSUME NEW ok \in BOOLEAN, TakeConnect(ok)
      PROVE  fromBroker' \in Seq(Backed(l, FromBroker))
  <2> DEFINE a == [type |-> "CONNACK", ok |-> ok]
  <2>1. fromBroker' = <<a>> \o (IF ok THEN <<>> ELSE <<EOF>>)
    BY <1>3 DEF TakeConnect
  <2>2. a \in Backed(l, FromBroker)
    BY <1>2
  <2> HIDE DEF a
  <2>3. <<a>> \in Seq(Backed(l, FromBroker))
        /\ (IF ok THEN <<>> ELSE <<EOF>>) \in Seq(Backed(l, FromBroker))
    BY <1>1, <2>2, Few
  <2> QED BY <2>1, <2>3, Joined
<1> QED BY <1>1, <1>3, Few

LEMMA BrokerSendAcks ==
  ASSUME TypeInv, NEW l \in Ledger, NetAcks(l), GatewayAcks(l), BrokerSendTask
  PROVE  \E k \in Ledger : Continues(l, k) /\ k.mids = l.mids /\ NetAcks(k)' /\ GatewayAcks(k)'
<1>1. /\ Head(brokerQ) \in Messages(l, ToBroker) /\ brokerQ' \in Seq(Messages(l, ToBroker))
      /\ NetAcks(l)'
  BY Taken DEF GatewayAcks, NetAcks, BrokerSendTask
<1>2. packetQ' \in Seq(EventAcks(l))
  <2> DEFINE e == [from |-> "broker", packet |-> [type |-> "DISCONNECT"]]
  <2>1. e \in EventAcks(l)
    BY DEF EventAcks, GatewayEvent, Disconnect, Backed
  <2>2. packetQ' = packetQ \/ packetQ' = Append(packetQ, e)
    BY DEF BrokerSendTask, SendConnect, SendPacket, SendFails
  <2> HIDE DEF e
  <2> QED BY <2>1, <2>2, Added DEF GatewayAcks
<1>3. ASSUME NEW k \in Ledger, Continues(l, k), k.mids = l.mids,
             fromBroker' \in Seq(Backed(k, FromBroker)),
             \A m \in k.taken : \E q \in published' : q.msg = m
      PROVE  NetAcks(k)' /\ GatewayAcks(k)'
  <2>1. brokerQ' \in Seq(Messages(k, ToBroker)) /\ packetQ' \in Seq(EventAcks(k))
    BY <1>1, <1>2, <1>3, ContinuesSeqs
  <2>2. NetAcks(k)'
    BY <1>1, <1>3, ContinuesSeqs DEF NetAcks
  <2> QED BY <1>3, <2>1, <2>2 DEF GatewayAcks
<1>4. CASE fromBroker' \in Seq(Backed(l, FromBroker)) /\ published' = published
  BY <1>3, <1>4, ContinuesItself DEF GatewayAcks
<1>5. CASE SendConnect
  <2>1. published' = published /\ \E ok \in BOOLEAN : TakeConnect(ok)
    BY <1>5 DEF SendConnect, TakeConnect
  <2> QED BY <1>4, <2>1, OtherAnswers
<1>6. CASE SendPacket
  <2>1. CASE TakePacket(Head(brokerQ))
    <3>1. Head(brokerQ).type # "CONNECT"
      BY <1>6 DEF SendPacket
    <3>2. fromBroker \in Seq(Backed(l, FromBroker)) /\ \A m \in l.taken : \E q \in published : q.msg = m
      BY DEF GatewayAcks
    <3>3. PICK k \in Ledger :
             /\ Continues(l, k) /\ k.mids = l.mids
             /\ fromBroker' \in Seq(Backed(k, FromBroker))
             /\ \A m \in k.taken : \E q \in published' : q.msg = m
      BY <1>1, <2>1, <3>1, <3>2, TakeAcks
    <3> QED BY <1>3, <3>3
  <2>2. CASE CloseByBroker
    BY <1>4, <2>2, OtherAnswers, Added DEF CloseByBroker, GatewayAcks
  <2>3. CASE UNCHANGED brokerVars
    BY <1>4, <2>3 DEF brokerVars, GatewayAcks
  <2>4. CASE fromBroker' = <<>> /\ published' = published
    BY <1>4, <2>4, OtherAnswers
  <2> QED BY <1>6, <2>1, <2>2, <2>3, <2>4 DEF SendPacket
<1>7. CASE SendFails
  BY <1>4, <1>7, OtherAnswers DEF SendFails
<1> QED BY <1>5, <1>6, <1>7 DEF BrokerSendTask

LEMMA BrokerRecvAcks ==
  ASSUME TypeInv, NEW l, NetAcks(l), GatewayAcks(l),
         BrokerRecvTask \/ BrokerRecvClose
  PROVE  NetAcks(l)' /\ GatewayAcks(l)'
<1>1. CASE ReadPacket
  <2>1. /\ Head(fromBroker) \in Backed(l, FromBroker) /\ Head(fromBroker) # EOF
        /\ fromBroker' \in Seq(Backed(l, FromBroker))
    BY <1>1, Taken DEF ReadPacket, GatewayAcks
  <2>2. Head(fromBroker) \in BrokerPacket
    <3>1. \A e \in [type : {"EOF"}] : e = EOF
      BY DEF EOF
    <3> QED BY <2>1, <3>1 DEF FromBroker, Backed
  <2> DEFINE e == [from |-> "broker", packet |-> Head(fromBroker)]
  <2>3. e \in EventAcks(l)
    BY <2>1, <2>2 DEF EventAcks, GatewayEvent, Backed
  <2>4. packetQ' = Append(packetQ, e) /\ UNCHANGED <<up, down, brokerQ, published>>
    BY <1>1 DEF ReadPacket, netVars
  <2> HIDE DEF e
  <2>5. packetQ' \in Seq(EventAcks(l))
    BY <2>3, <2>4, Added DEF GatewayAcks
  <2> QED BY <2>1, <2>4, <2>5 DEF NetAcks, GatewayAcks
<1>2. CASE fromBroker' = <<>> /\ UNCHANGED <<up, down, packetQ, brokerQ, published>>
  BY <1>2, OtherAnswers DEF NetAcks, GatewayAcks
<1>3. CASE ReadEof \/ BrokerRecvClose
  BY <1>2, <1>3 DEF ReadEof, BrokerRecvClose, CloseAndDisconnect
<1> QED BY <1>1, <1>3 DEF BrokerRecvTask

(* The rest of the gateway, and the broker.                                *)
LEMMA OtherGatewayAcks ==
  ASSUME TypeInv, NEW l, NetAcks(l), GatewayAcks(l),
         \/ ConnectSended \/ BrokerDrops \/ GatewayRestart
         \/ \E t \in Command : CommandArrives(t)
  PROVE  NetAcks(l)' /\ GatewayAcks(l)'
<1>1. CASE ConnectSended
  BY <1>1 DEF ConnectSended, netVars, brokerVars, NetAcks, GatewayAcks
<1>2. CASE BrokerDrops
  BY <1>2, OtherAnswers, Added DEF BrokerDrops, CloseByBroker, pahoVars, NetAcks, GatewayAcks
<1>3. CASE GatewayRestart
  BY <1>3, Few DEF GatewayRestart, NetAcks, GatewayAcks
<1>4. ASSUME NEW t \in Command, CommandArrives(t)
      PROVE  NetAcks(l)' /\ GatewayAcks(l)'
  <2> DEFINE cmd == [topic |-> t, n |-> commands[t]]
             p == [type |-> "PUBLISH", topic |-> t, qos |-> IF t = Cmd1 THEN 1 ELSE 2,
                   mid |-> broker.lastMid + 1, cmd |-> cmd]
  <2>1. cmd \in Message /\ broker.lastMid \in Nat
    BY Roles DEF Message, TypeInv, GatewayOK, BrokerType
  <2>2. fromBroker' = Append(fromBroker, p) /\ UNCHANGED <<up, down, packetQ, brokerQ, published>>
    BY <1>4 DEF CommandArrives, netVars, pahoVars
  <2> HIDE DEF cmd
  <2>3. p \in Backed(l, FromBroker)
    BY <2>1 DEF Backed, FromBroker, BrokerPacket, CommandTaken
  <2> HIDE DEF p
  <2>4. fromBroker' \in Seq(Backed(l, FromBroker))
    BY <2>2, <2>3, Added DEF GatewayAcks
  <2> QED BY <2>2, <2>4 DEF NetAcks, GatewayAcks
<1> QED BY <1>1, <1>2, <1>3, <1>4

LEMMA NetFaultAcks ==
  ASSUME NEW l, NetAcks(l), NetFault
  PROVE  NetAcks(l)'
<1>1. CASE up # <<>> /\ Suffers(up, down)
  <2> DEFINE S == Messages(l, UpPacket)
  <2>1. up \in Seq(S) /\ Head(up) \in S /\ Tail(up) \in Seq(S)
    BY <1>1, Taken DEF NetAcks
  <2> HIDE DEF S
  <2>2. Append(up, Head(up)) \in Seq(S) /\ Append(Tail(up), Head(up)) \in Seq(S)
    BY <2>1, Added
  <2>3. up' \in Seq(S) /\ down' = down
    BY <1>1, <2>1, <2>2 DEF Suffers
  <2> QED BY <2>3 DEF NetAcks, S
<1>2. CASE down # <<>> /\ Suffers(down, up)
  <2>1. down \in Seq(Accepts(l)) /\ Head(down) \in Accepts(l) /\ Tail(down) \in Seq(Accepts(l))
    BY <1>2, Taken DEF NetAcks
  <2>2. /\ Append(down, Head(down)) \in Seq(Accepts(l))
        /\ Append(Tail(down), Head(down)) \in Seq(Accepts(l))
    BY <2>1, Added
  <2> QED BY <1>2, <2>1, <2>2 DEF Suffers, NetAcks
<1> QED BY <1>1, <1>2 DEF NetFault

(***************************************************************************)
(* The theorem.  A Pico sees no message acknowledged here.                 *)
(***************************************************************************)
LedgerInv ==
  /\ Arduino /\ NeverSeen({"reboot"}) => \E l \in Ledger : AckInv(l)
  /\ ~Arduino => acked = {}

LEMMA LedgerInit == Init => LedgerInv
<1> SUFFICES ASSUME Init PROVE \E l \in Ledger : AckInv(l)
  BY DEF LedgerInv, Init, ArdInit
<1>1. [topic |-> Data1, n |-> 0] \in Message
  BY Roles DEF Message
<1> DEFINE f == [n \in Nat |-> [topic |-> Data1, n |-> 0]]
           l == [msg |-> f, mids |-> 0, taken |-> {}]
<1>2. f \in [Nat -> Message]
  BY <1>1
<1> HIDE DEF f
<1>3. l \in Ledger
  BY <1>2 DEF Ledger
<1>4. l.mids = 0 /\ l.taken = {}
  OBVIOUS
<1> HIDE DEF l
<1>5. NetAcks(l)
  BY Few DEF NetAcks, Init, NetInit
<1>6. GatewayAcks(l)
  BY <1>4, Few DEF GatewayAcks, Init, GatewayInit
<1>7. ArdAcks(l)
  BY <1>4 DEF ArdAcks, Init, ArdInit
<1> QED BY <1>3, <1>5, <1>6, <1>7 DEF AckInv

LEMMA LedgerStep == TypeInv /\ NoMidAgain /\ LedgerInv /\ [Next]_vars => LedgerInv'
<1> SUFFICES ASSUME TypeInv, NoMidAgain, LedgerInv, [Next]_vars
             PROVE  LedgerInv'
  OBVIOUS
<1>0. UNCHANGED scenario /\ seen \subseteq seen'
  BY FaultsAreKept
<1>1. ASSUME ~Arduino' PROVE acked' = {}
  <2>1. ~Arduino /\ acked = {}
    BY <1>0, <1>1 DEF Arduino, LedgerInv
  <2>2. acked' = acked
    BY <2>1 DEF Next, Client, Gateway, Environment, GatewayStep, ArduinoLoop, ArduinoReceive,
                ArduinoTimer, ArduinoPublish, ArduinoReboot, PicoLoop, PicoCallback, PicoTimer,
                PicoButton, PicoPowerCycle, vars, ardVars
  <2> QED BY <2>1, <2>2
<1>2. SUFFICES ASSUME Arduino', NeverSeen({"reboot"})'
               PROVE  \E k \in Ledger : AckInv(k)'
  BY <1>1 DEF LedgerInv
<1>3. Arduino /\ ~Pico /\ NeverSeen({"reboot"}) /\ ~Fault("reboot")
  BY <1>0, <1>2 DEF Arduino, Pico, NeverSeen, Fault
<1>4. PICK l \in Ledger : AckInv(l)
  BY <1>3 DEF LedgerInv
<1>5. NetAcks(l) /\ GatewayAcks(l) /\ ArdAcks(l) /\ Continues(l, l)
  BY <1>4, ContinuesItself DEF AckInv
<1>6. ASSUME NEW k \in Ledger, Continues(l, k), k.taken = l.taken, NetAcks(k)', ArdAcks(k)',
             UNCHANGED gatewayVars
      PROVE  \E j \in Ledger : AckInv(j)'
  BY <1>5, <1>6, GatewayAcksKept DEF AckInv
<1>7. ASSUME NEW k \in Ledger, Continues(l, k), k.mids = l.mids, NetAcks(k)', GatewayAcks(k)',
             UNCHANGED <<ardVars, picoVars>>
      PROVE  \E j \in Ledger : AckInv(j)'
  BY <1>5, <1>7, ArdAcksKept DEF AckInv
<1>8. CASE Client
  <2>1. CASE ArduinoLoop
    BY <1>5, <1>6, <2>1, ArdLoopAcks DEF ArduinoLoop
  <2>2. CASE ArduinoReceive
    BY <1>5, <1>6, <2>2, ArdReceiveAcks DEF ArduinoReceive
  <2>3. CASE ArduinoTimer(InTime)
    BY <1>5, <1>6, <2>3, ArdTimeoutAcks DEF ArduinoTimer
  <2>4. CASE ArduinoPublish
    BY <1>5, <1>6, <2>4, ArdPublishAcks DEF ArduinoPublish
  <2>5. ~PicoLoop /\ ~PicoCallback /\ ~PicoTimer(InTime) /\ ~PicoButton
    BY <1>3 DEF PicoLoop, PicoCallback, PicoTimer, PicoButton
  <2> QED BY <1>8, <2>1, <2>2, <2>3, <2>4, <2>5 DEF Client
<1>9. CASE Gateway
  <2>1. CASE ClientRecvTask /\ UNCHANGED <<ardVars, picoVars>>
    BY <1>5, <1>7, <2>1, ClientRecvAcks
  <2>2. CASE PacketHandleTask /\ UNCHANGED <<ardVars, picoVars>>
    <3>1. NetAcks(l)' /\ GatewayAcks(l)'
      BY <1>5, <2>2, FromClientAcks, FromBrokerAcks DEF PacketHandleTask
    <3> QED BY <1>5, <1>7, <2>2, <3>1
  <2>3. CASE BrokerSendTask /\ UNCHANGED <<ardVars, picoVars>>
    BY <1>5, <1>7, <2>3, BrokerSendAcks
  <2>4. CASE ConnectSended /\ UNCHANGED <<ardVars, picoVars>>
    BY <1>5, <1>7, <2>4, OtherGatewayAcks
  <2>5. CASE (BrokerRecvTask \/ BrokerRecvClose) /\ UNCHANGED <<ardVars, picoVars>>
    BY <1>5, <1>7, <2>5, BrokerRecvAcks
  <2> QED BY <1>9, <2>1, <2>2, <2>3, <2>4, <2>5 DEF Gateway, GatewayStep
<1>10. CASE Environment
  <2>1. CASE ArduinoTimer(Early)
    BY <1>5, <1>6, <2>1, ArdTimeoutAcks DEF ArduinoTimer
  <2>2. ~ArduinoReboot /\ ~PicoTimer(Early) /\ ~PicoPowerCycle
    BY <1>3 DEF ArduinoReboot, ArdReboot, PicoTimer, PicoPowerCycle
  <2>3. ASSUME NEW t \in Command, CommandArrives(t), UNCHANGED <<ardVars, picoVars>>
        PROVE  \E k \in Ledger : AckInv(k)'
    BY <1>5, <1>7, <2>3, OtherGatewayAcks
  <2>4. CASE (BrokerDrops \/ GatewayRestart) /\ UNCHANGED <<ardVars, picoVars>>
    BY <1>5, <1>7, <2>4, OtherGatewayAcks
  <2>5. CASE NetFault /\ UNCHANGED <<gatewayVars, ardVars, picoVars>>
    <3>1. NetAcks(l)' /\ ArdAcks(l)'
      BY <1>5, <2>5, NetFaultAcks, ArdAcksKept
    <3> QED BY <1>5, <1>6, <2>5, <3>1
  <2> QED BY <1>10, <2>1, <2>2, <2>3, <2>4, <2>5 DEF Environment, GatewayStep
<1>11. CASE UNCHANGED vars
  <2>1. NetAcks(l)' /\ ArdAcks(l)'
    BY <1>5, <1>11, ArdAcksKept DEF vars, netVars, NetAcks
  <2> QED BY <1>5, <1>6, <1>11, <2>1 DEF vars
<1> QED BY <1>8, <1>9, <1>10, <1>11 DEF Next

(* As long as the client does not restart and its message ids do not go    *)
(* round, a message that the Arduino sees accepted is at the broker,       *)
(* whatever the network, the gateway and the broker do, a restart of the   *)
(* gateway included (handle_puback compares nothing but the id).           *)
THEOREM AckedIsPublished ==
  Spec /\ []NoMidAgain => [](NeverSeen({"reboot"}) => AckedMeansPublished)
<1>1. LedgerInv => (NeverSeen({"reboot"}) => AckedMeansPublished)
  <2> SUFFICES ASSUME LedgerInv, NeverSeen({"reboot"}), NEW m \in acked
               PROVE  \E p \in published : p.msg = m
    BY DEF AckedMeansPublished
  <2>1. Arduino
    BY DEF LedgerInv
  <2>2. PICK l \in Ledger : AckInv(l)
    BY <2>1 DEF LedgerInv
  <2>3. m \in l.taken
    BY <2>2 DEF AckInv, ArdAcks
  <2> QED BY <2>2, <2>3 DEF AckInv, GatewayAcks
<1> QED BY <1>1, TypeInvHolds, LedgerInit, LedgerStep, PTL DEF Spec
==============================================================================

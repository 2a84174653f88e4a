---------------------------- MODULE LoraMesh_proofs ----------------------------
(***************************************************************************)
(* Proofs about LoraMesh for every set of nodes, topology, mode, ring size *)
(* and TTL: type correctness, the windows of the duplicate caches, what    *)
(* the gateway drops, and that the mesh implements UplinkChannel.          *)
(***************************************************************************)
EXTENDS LoraMesh, DedupRing_proofs

(* The byte s_seq_num stays in its range when it is incremented.           *)
LEMMA SeqStep ==
  ASSUME NEW s \in Seqs PROVE (s + 1) % SeqMod \in Seqs
BY MeshAssumption, SMTT(20) DEF Seqs

(* A message's key is a key of the rings.                                  *)
LEMMA KeyType ==
  ASSUME NEW m \in Message PROVE Key(m) \in Keys
BY DEF Message, Key, Keys

(* The kept history of a cache is a sequence of messages.                  *)
LEMMA RememberType ==
  ASSUME NEW log \in Seq(Message), NEW m \in Message
  PROVE  Remember(log, m) \in Seq(Message)
<1>1. CASE Len(log) <= NodeRingSize
  BY <1>1 DEF Remember
<1>2. CASE ~(Len(log) <= NodeRingSize)
  <2>1. log # <<>>
    BY <1>2, MeshAssumption
  <2>2. Tail(log) \in Seq(Message)
    BY <2>1
  <2> QED BY <1>2, <2>2 DEF Remember
<1> QED BY <1>1, <1>2

(* HeaderTo yields a station or the broadcast address.                     *)
LEMMA HeaderToType ==
  ASSUME NEW n \in Node, NEW d \in Endpoint \cup {Gateway}
  PROVE  HeaderTo(n, d) \in Station \cup {Broadcast}
<1>1. NodeNextHop[n][d] \in Station
  BY MeshAssumption
<1> QED BY <1>1 DEF HeaderTo

(* What is in a buffer is a frame.                                         *)
LEMMA FrameFields ==
  ASSUME NEW f \in Frame
  PROVE  /\ f.msg \in Message /\ f.ttl \in 0 .. TTLDefault
         /\ f.to \in Station \cup {Broadcast}
         /\ f.msg.dst \in Endpoint \cup {Gateway} /\ f.msg.src \in Station
         /\ f.msg.seq \in Seqs /\ f.msg.kind \in Kind
         /\ f.msg.id \in Nat /\ f.msg.boot \in Nat
BY DEF Frame, Message

(* The initial state is well typed.                                        *)
LEMMA TypeInit == Init => TypeOK
<1> SUFFICES ASSUME Init PROVE TypeOK
  OBVIOUS
<1>1. ring \in [Node -> RingType(NodeRingSize, Keys)]
  BY EmptyRingType, MeshAssumption DEF Init
<1>2. gwRing \in RingType(GwRingSize, Keys)
  BY EmptyRingType, MeshAssumption DEF Init
<1>3. 0 \in Seqs
  BY MeshAssumption DEF Seqs
<1> QED BY <1>1, <1>2, <1>3 DEF Init, TypeOK

(* A transmission fills buffers with the frame.                            *)
LEMMA TransmitType ==
  ASSUME TypeOK, NEW n \in Node, Transmit(n) PROVE TypeOK'
<1>1. tx[n] \in Frame
  BY DEF TypeOK, Transmit
<1>2. rx' \in [Station -> Frame \cup {None}]
  BY <1>1 DEF TypeOK, Transmit, OnAir
<1>3. tx' \in [Node -> Frame \cup {None}]
  BY DEF TypeOK, Transmit
<1> QED BY <1>2, <1>3 DEF TypeOK, Transmit, nodeVars, gwVars

(* An endpoint that originates a message makes a well-formed frame.        *)
LEMMA SendType ==
  ASSUME TypeOK, NEW n \in Endpoint, NEW k \in {"connect", "data"}, Send(n, k)
  PROVE  TypeOK'
<1> DEFINE s == (seq[n] + 1) % SeqMod
           m == [src |-> n, dst |-> Gateway, seq |-> s, kind |-> k,
                 id |-> origin[n] + 1, boot |-> boots[n]]
           f == [msg |-> m, ttl |-> TTLDefault, to |-> HeaderTo(n, Gateway)]
<1>0. n \in Node /\ n \in Station
  BY DEF Node, Station
<1>1. s \in Seqs
  BY <1>0, SeqStep DEF TypeOK
<1>2. m \in Message
  BY <1>0, <1>1 DEF TypeOK, Message, Kind
<1>3. f \in Frame
  BY <1>0, <1>2, HeaderToType, MeshAssumption DEF Frame
<1>4. RingAdd(NodeRingSize, ring[n], Key(m)) \in RingType(NodeRingSize, Keys)
  BY <1>0, <1>2, KeyType, RingAddType, MeshAssumption DEF TypeOK
<1>5. /\ seq' = [seq EXCEPT ![n] = s]
      /\ ring' = [ring EXCEPT ![n] = RingAdd(NodeRingSize, ring[n], Key(m))]
      /\ added' = [added EXCEPT ![n] = Remember(added[n], m)]
      /\ tx' = [tx EXCEPT ![n] = f]
      /\ sent' = sent \cup {m}
      /\ origin' = [origin EXCEPT ![n] = origin[n] + 1]
      /\ session' = IF k = "connect" THEN [session EXCEPT ![n] = "connecting"]
                                     ELSE session
      /\ UNCHANGED <<rx, boots, client, gwRing, staged, toPaho>>
  BY DEF Send, gwVars
<1> HIDE DEF m, f, s
<1>6. /\ seq' \in [Node -> Seqs] /\ ring' \in [Node -> RingType(NodeRingSize, Keys)]
  BY <1>1, <1>4, <1>5 DEF TypeOK
<1>7. tx' \in [Node -> Frame \cup {None}] /\ sent' \in SUBSET Message
  BY <1>2, <1>3, <1>5 DEF TypeOK
<1>8. added' \in [Node -> Seq(Message)]
  BY <1>0, <1>2, <1>5, RememberType DEF TypeOK
<1>9. origin' \in [Station -> Nat]
  BY <1>0, <1>5 DEF TypeOK
<1>10. session' \in [Endpoint -> {"down", "connecting", "up"}]
  BY <1>5 DEF TypeOK
<1> QED BY <1>5, <1>6, <1>7, <1>8, <1>9, <1>10 DEF TypeOK

(* An endpoint that takes a frame remembers a well-formed key.             *)
LEMMA EndpointReceiveType ==
  ASSUME TypeOK, NEW n \in Endpoint, EndpointReceive(n) PROVE TypeOK'
<1> DEFINE m == rx[n].msg
<1>0. n \in Node /\ n \in Station
  BY DEF Node, Station
<1>1. m \in Message
  BY <1>0, FrameFields DEF TypeOK, EndpointReceive
<1>2. rx' \in [Station -> Frame \cup {None}]
  BY DEF TypeOK, EndpointReceive
<1>3. UNCHANGED <<tx, client, gwRing, staged, toPaho, origin, sent>>
  BY DEF EndpointReceive, gwVars
<1>4. CASE UNCHANGED nodeVars
  BY <1>2, <1>3, <1>4 DEF TypeOK, nodeVars
<1>5. CASE /\ ring' = [ring EXCEPT ![n] = RingAdd(NodeRingSize, ring[n], Key(m))]
           /\ added' = [added EXCEPT ![n] = Remember(added[n], m)]
           /\ session' = [session EXCEPT ![n] =
                IF m.kind = "connack" /\ session[n] = "connecting" THEN "up" ELSE session[n]]
           /\ UNCHANGED <<seq, boots>>
  <2>1. RingAdd(NodeRingSize, ring[n], Key(m)) \in RingType(NodeRingSize, Keys)
    BY <1>0, <1>1, KeyType, RingAddType, MeshAssumption DEF TypeOK
  <2> HIDE DEF m
  <2>2. ring' \in [Node -> RingType(NodeRingSize, Keys)]
    BY <1>5, <2>1 DEF TypeOK
  <2>3. added' \in [Node -> Seq(Message)]
    BY <1>0, <1>1, <1>5, RememberType DEF TypeOK
  <2>4. session' \in [Endpoint -> {"down", "connecting", "up"}]
    BY <1>5 DEF TypeOK
  <2> QED BY <1>2, <1>3, <1>5, <2>2, <2>3, <2>4 DEF TypeOK
<1> QED BY <1>4, <1>5 DEF EndpointReceive

(* A relay forwards a well-formed frame: its TTL does not pass zero.       *)
LEMMA RelayReceiveType ==
  ASSUME TypeOK, NEW n \in Relay, RelayReceive(n) PROVE TypeOK'
<1>0. n \in Node /\ n \in Station
  BY DEF Node, Station
<1>1. rx[n] \in Frame
  BY <1>0 DEF TypeOK, RelayReceive
<1>2. rx[n].msg \in Message
  BY <1>1, FrameFields
<1>3. rx' \in [Station -> Frame \cup {None}]
  BY DEF TypeOK, RelayReceive
<1>4. UNCHANGED <<seq, session, boots, client, gwRing, staged, toPaho, origin, sent>>
  BY DEF RelayReceive, gwVars
<1>5. CASE Forwards(n, rx[n])
  <2>1. rx[n].ttl - 1 \in 0 .. TTLDefault
    BY <1>1, <1>5, FrameFields, MeshAssumption DEF Forwards
  <2>2. HeaderTo(n, rx[n].msg.dst) \in Station \cup {Broadcast}
    BY <1>0, <1>1, FrameFields, HeaderToType
  <2>3. Forwarded(n, rx[n]) \in Frame
    BY <1>2, <2>1, <2>2 DEF Forwarded, Frame
  <2>4. RelayRing(n, rx[n].msg) \in RingType(NodeRingSize, Keys)
    BY <1>0, <1>2, KeyType, RingAddType, RingClearType, MeshAssumption DEF RelayRing, TypeOK
  <2>5. tx' \in [Node -> Frame \cup {None}]
    <3>1. tx' = [tx EXCEPT ![n] = Forwarded(n, rx[n])]
      BY <1>5 DEF RelayReceive
    <3> QED BY <1>0, <2>3, <3>1 DEF TypeOK
  <2>6. ring' \in [Node -> RingType(NodeRingSize, Keys)]
    BY <1>5, <2>4 DEF RelayReceive, TypeOK
  <2>7. added' = [added EXCEPT ![n] = Remember(added[n], rx[n].msg)]
    BY <1>5 DEF RelayReceive
  <2>8. Remember(added[n], rx[n].msg) \in Seq(Message)
    BY <1>0, <1>2, RememberType DEF TypeOK
  <2>9. added' \in [Node -> Seq(Message)]
    BY <2>7, <2>8 DEF TypeOK
  <2> QED BY <1>3, <1>4, <2>5, <2>6, <2>9 DEF TypeOK
<1>6. CASE ~Forwards(n, rx[n])
  BY <1>3, <1>4, <1>6 DEF RelayReceive, TypeOK
<1> QED BY <1>5, <1>6

(* A reboot starts from well-formed values.                                *)
LEMMA RebootType ==
  ASSUME TypeOK, NEW n \in Node, Reboot(n) PROVE TypeOK'
<1>1. EmptyRing(NodeRingSize) \in RingType(NodeRingSize, Keys)
  BY EmptyRingType, MeshAssumption
<1>2. 0 \in Seqs
  BY MeshAssumption DEF Seqs
<1>3. ring' \in [Node -> RingType(NodeRingSize, Keys)] /\ seq' \in [Node -> Seqs]
  BY <1>1, <1>2 DEF TypeOK, Reboot
<1>4. added' \in [Node -> Seq(Message)] /\ boots' \in [Node -> Nat]
  BY DEF TypeOK, Reboot
<1>5. session' \in [Endpoint -> {"down", "connecting", "up"}]
  BY DEF TypeOK, Reboot
<1>6. rx' \in [Station -> Frame \cup {None}] /\ tx' \in [Node -> Frame \cup {None}]
  BY DEF TypeOK, Reboot
<1> QED BY <1>3, <1>4, <1>5, <1>6 DEF TypeOK, Reboot, gwVars

(* The cache that the gateway's duplicate check consults is well formed.   *)
LEMMA GwRingForType ==
  ASSUME TypeOK, NEW m PROVE GwRingFor(m) \in RingType(GwRingSize, Keys)
BY RingClearType, MeshAssumption DEF GwRingFor, TypeOK

(* The two outcomes of on_rx_done, spelt out.                              *)
Handed(m) ==
  /\ ~RingSeen(GwRingSize, GwRingFor(m), Key(m))
  /\ gwRing' = RingAdd(GwRingSize, GwRingFor(m), Key(m))
  /\ client' = [client EXCEPT ![m.src] =
       [active |-> TRUE, dnSeq |-> IF m.kind = "connect" THEN 0 ELSE client[m.src].dnSeq]]
  /\ toPaho' = Append(toPaho, m)
  /\ UNCHANGED staged

LEMMA GatewayReceiveCases ==
  ASSUME GatewayReceive PROVE Handed(rx[Gateway].msg) \/ UNCHANGED gwVars
BY DEF GatewayReceive, Handed

(* The gateway's caches and tables stay well formed.                       *)
LEMMA GatewayReceiveType ==
  ASSUME TypeOK, GatewayReceive PROVE TypeOK'
<1> DEFINE m == rx[Gateway].msg
<1>1. m \in Message
  BY FrameFields DEF TypeOK, GatewayReceive, Station
<1>2. rx' \in [Station -> Frame \cup {None}]
  BY DEF TypeOK, GatewayReceive
<1>3. UNCHANGED <<tx, seq, ring, session, boots, added, origin, sent>>
  BY DEF GatewayReceive, nodeVars
<1>4. CASE UNCHANGED gwVars
  BY <1>2, <1>3, <1>4 DEF TypeOK, gwVars
<1>5. CASE Handed(m)
  <2> HIDE DEF m
  <2>1. gwRing' \in RingType(GwRingSize, Keys)
    BY <1>1, <1>5, KeyType, GwRingForType, RingAddType, MeshAssumption DEF Handed
  <2>2. 0 \in Seqs
    BY MeshAssumption DEF Seqs
  <2>3. client' \in [Endpoint -> [active : BOOLEAN, dnSeq : Seqs]]
    BY <1>5, <2>2 DEF Handed, TypeOK
  <2>4. toPaho' \in Seq(Message)
    BY <1>1, <1>5 DEF Handed, TypeOK
  <2> QED BY <1>2, <1>3, <1>5, <2>1, <2>3, <2>4 DEF TypeOK, Handed
<1> QED BY <1>4, <1>5, GatewayReceiveCases

(* Downlinks are numbered within the byte and queued well formed.          *)
LEMMA StageType ==
  ASSUME TypeOK, NEW n \in Endpoint, NEW k \in DownKind, Stage(n, k) PROVE TypeOK'
<1> DEFINE m == [src |-> Gateway, dst |-> n, seq |-> client[n].dnSeq, kind |-> k,
                 id |-> origin[Gateway] + 1, boot |-> 0]
<1>1. client[n].dnSeq \in Seqs /\ client[n].active \in BOOLEAN
  BY DEF TypeOK
<1>2. Gateway \in Station /\ k \in Kind
  BY MeshAssumption DEF Station, Kind
<1>3. m \in Downlink
  <2>1. origin[Gateway] + 1 \in Nat /\ n \in Endpoint \cup {Gateway}
    BY <1>2 DEF TypeOK
  <2>2. m \in Message
    BY <1>1, <1>2, <2>1 DEF Message
  <2> QED BY <2>2 DEF Downlink
<1>4. (client[n].dnSeq + 1) % SeqMod \in Seqs
  BY <1>1, SeqStep
<1>5. staged' = Append(staged, m) /\ origin' = [origin EXCEPT ![Gateway] = origin[Gateway] + 1]
  BY DEF Stage
<1>6. client' = [client EXCEPT ![n].dnSeq = (client[n].dnSeq + 1) % SeqMod]
  BY DEF Stage
<1> HIDE DEF m
<1>7. staged' \in Seq(Downlink)
  BY <1>3, <1>5 DEF TypeOK
<1>8. client' \in [Endpoint -> [active : BOOLEAN, dnSeq : Seqs]]
  BY <1>4, <1>6 DEF TypeOK
<1>9. origin' \in [Station -> Nat]
  BY <1>2, <1>5 DEF TypeOK
<1> QED BY <1>7, <1>8, <1>9 DEF TypeOK, Stage, nodeVars

(* The downlink frame that lora_send builds is well formed.                *)
LEMMA GatewayTransmitType ==
  ASSUME TypeOK, GatewayTransmit PROVE TypeOK'
<1> DEFINE m == Head(staged)
           f == [msg |-> m, ttl |-> TTLDefault, to |-> GwNextHop[m.dst]]
<1>1. m \in Downlink /\ Tail(staged) \in Seq(Downlink)
  BY DEF TypeOK, GatewayTransmit
<1>2. PICK heard \in SUBSET Node :
        rx' = [x \in Station |-> IF x \in heard THEN f
                                 ELSE IF x = Gateway THEN None ELSE rx[x]]
  BY DEF GatewayTransmit
<1>3. GwNextHop[m.dst] \in Station
  BY <1>1, MeshAssumption DEF Downlink
<1>4. f \in Frame
  BY <1>1, <1>3, MeshAssumption DEF Frame, Downlink
<1> HIDE DEF f
<1>5. rx' \in [Station -> Frame \cup {None}]
  BY <1>2, <1>4 DEF TypeOK
<1> QED BY <1>1, <1>5 DEF TypeOK, GatewayTransmit, nodeVars

(* A zeroed client entry is well formed.                                   *)
LEMMA ExpireType ==
  ASSUME TypeOK, NEW n \in Endpoint, Expire(n) PROVE TypeOK'
<1>1. 0 \in Seqs
  BY MeshAssumption DEF Seqs
<1>2. client' \in [Endpoint -> [active : BOOLEAN, dnSeq : Seqs]]
  BY <1>1 DEF TypeOK, Expire
<1> QED BY <1>2 DEF TypeOK, Expire, nodeVars

(* Every step of the mesh preserves type correctness.                      *)
LEMMA TypeStep == TypeOK /\ [Next]_vars => TypeOK'
<1> SUFFICES ASSUME TypeOK, [Next]_vars PROVE TypeOK'
  OBVIOUS
<1>1. ASSUME NEW n \in Node, Transmit(n) PROVE TypeOK'
  BY <1>1, TransmitType
<1>2. ASSUME NEW n \in Node, Reboot(n) PROVE TypeOK'
  BY <1>2, RebootType
<1>3. ASSUME NEW n \in Endpoint, NEW k \in {"connect", "data"}, Send(n, k) PROVE TypeOK'
  BY <1>3, SendType
<1>4. ASSUME NEW n \in Endpoint, EndpointReceive(n) PROVE TypeOK'
  BY <1>4, EndpointReceiveType
<1>5. ASSUME NEW n \in Endpoint, Expire(n) PROVE TypeOK'
  BY <1>5, ExpireType
<1>6. ASSUME NEW n \in Relay, RelayReceive(n) PROVE TypeOK'
  BY <1>6, RelayReceiveType
<1>7. ASSUME NEW n \in Endpoint, NEW k \in DownKind, Stage(n, k) PROVE TypeOK'
  BY <1>7, StageType
<1>8. CASE GatewayReceive
  BY <1>8, GatewayReceiveType
<1>9. CASE GatewayTransmit
  BY <1>9, GatewayTransmitType
<1>10. CASE UNCHANGED vars
  BY <1>10 DEF TypeOK, vars, nodeVars, gwVars
<1> QED
  BY <1>1, <1>2, <1>3, <1>4, <1>5, <1>6, <1>7, <1>8, <1>9, <1>10 DEF Next

(* The mesh is type correct: buffers hold frames with a TTL within         *)
(* 0 .. TTLDefault, numbers stay within their byte, cursors within their   *)
(* ring, for every topology and every size.                                *)
THEOREM TypeCorrect == Spec => []TypeOK
BY TypeInit, TypeStep, PTL DEF Spec

------------------------------------------------------------------------------
(***************************************************************************)
(* The gateway's window.  The cache and the order of hand-over agree: the  *)
(* k-th most recent hand-over, k <= GwRingSize, is in the slot written k   *)
(* adds ago unless a later CONNECT of its sender cleared it.               *)
(***************************************************************************)
Forgotten(log, i) ==
  \E c \in i + 1 .. Len(log) : log[c].kind = "connect" /\ log[c].src = log[i].src

GwTracks ==
  \A i \in 1 .. Len(toPaho) :
    Len(toPaho) + 1 - i <= GwRingSize =>
      \/ gwRing.slot[RingBack(GwRingSize, gwRing, Len(toPaho) + 1 - i)] = Key(toPaho[i])
      \/ Forgotten(toPaho, i)

(* Only on_rx_done touches the gateway's cache and the hand-over.          *)
LEMMA GatewayOnly ==
  ASSUME [Next]_vars PROVE GatewayReceive \/ UNCHANGED <<gwRing, toPaho>>
<1> USE DEF gwVars
<1>1. ASSUME NEW n \in Node, Transmit(n) \/ Reboot(n)
      PROVE  UNCHANGED <<gwRing, toPaho>>
  BY <1>1 DEF Transmit, Reboot
<1>2. ASSUME NEW n \in Endpoint, NEW k \in {"connect", "data"}, Send(n, k)
      PROVE  UNCHANGED <<gwRing, toPaho>>
  BY <1>2 DEF Send
<1>3. ASSUME NEW n \in Endpoint, EndpointReceive(n) \/ Expire(n)
      PROVE  UNCHANGED <<gwRing, toPaho>>
  BY <1>3 DEF EndpointReceive, Expire
<1>4. ASSUME NEW n \in Relay, RelayReceive(n)
      PROVE  UNCHANGED <<gwRing, toPaho>>
  BY <1>4 DEF RelayReceive
<1>5. ASSUME NEW n \in Endpoint, NEW k \in DownKind, Stage(n, k)
      PROVE  UNCHANGED <<gwRing, toPaho>>
  BY <1>5 DEF Stage
<1>6. CASE GatewayTransmit
  BY <1>6 DEF GatewayTransmit
<1>7. CASE UNCHANGED vars
  BY <1>7 DEF vars
<1> QED BY <1>1, <1>2, <1>3, <1>4, <1>5, <1>6, <1>7 DEF Next

(* What Append does to the log, in the form the proofs below use.          *)
LEMMA LogAppend ==
  ASSUME NEW log \in Seq(Message), NEW m \in Message
  PROVE  /\ Len(Append(log, m)) = Len(log) + 1
         /\ Append(log, m)[Len(log) + 1] = m
         /\ \A i \in 1 .. Len(log) : Append(log, m)[i] = log[i]
OBVIOUS

(* An entry once cleared by a CONNECT stays so as the log grows.           *)
LEMMA ForgottenStays ==
  ASSUME NEW log \in Seq(Message), NEW m \in Message,
         NEW i \in 1 .. Len(log), Forgotten(log, i)
  PROVE  Forgotten(Append(log, m), i)
<1>1. PICK c \in i + 1 .. Len(log) : log[c].kind = "connect" /\ log[c].src = log[i].src
  BY DEF Forgotten
<1>2. c \in i + 1 .. Len(Append(log, m)) /\ c \in 1 .. Len(log)
  BY LogAppend
<1>3. Append(log, m)[c] = log[c] /\ Append(log, m)[i] = log[i]
  BY <1>2, LogAppend
<1> QED BY <1>1, <1>2, <1>3 DEF Forgotten

(* A CONNECT that is appended clears every earlier entry of its sender.    *)
LEMMA ConnectForgets ==
  ASSUME NEW log \in Seq(Message), NEW m \in Message, NEW i \in 1 .. Len(log),
         m.kind = "connect", m.src = log[i].src
  PROVE  Forgotten(Append(log, m), i)
<1>1. Len(log) + 1 \in i + 1 .. Len(Append(log, m))
  BY LogAppend
<1>2. /\ Append(log, m)[Len(log) + 1] = m
      /\ Append(log, m)[i] = log[i]
  BY LogAppend
<1> QED BY <1>1, <1>2 DEF Forgotten

(* An uplink that passes the duplicate check keeps the agreement.          *)
LEMMA GwTracksStep ==
  ASSUME TypeOK, GwTracks, NEW m \in Message, Handed(m) PROVE GwTracks'
<1> DEFINE L == Len(toPaho)
           old == GwRingFor(m)
<1>1. /\ toPaho \in Seq(Message) /\ L \in Nat
      /\ gwRing \in RingType(GwRingSize, Keys)
      /\ old \in RingType(GwRingSize, Keys)
      /\ Key(m) \in Keys /\ GwRingSize \in Nat \ {0}
  BY GwRingForType, KeyType, MeshAssumption DEF TypeOK
<1>2. toPaho' = Append(toPaho, m) /\ gwRing' = RingAdd(GwRingSize, old, Key(m))
  BY DEF Handed
<1>3. /\ Len(toPaho') = L + 1 /\ toPaho'[L + 1] = m
      /\ \A i \in 1 .. L : toPaho'[i] = toPaho[i]
  BY <1>1, <1>2, LogAppend
<1>4. /\ gwRing'.slot[RingBack(GwRingSize, gwRing', 1)] = Key(m)
      /\ \A j \in 1 .. GwRingSize - 1 :
           gwRing'.slot[RingBack(GwRingSize, gwRing', j + 1)]
             = old.slot[RingBack(GwRingSize, old, j)]
  BY <1>1, <1>2, RingAddShifts
<1> SUFFICES ASSUME NEW i \in 1 .. L + 1, L + 2 - i <= GwRingSize
             PROVE  \/ gwRing'.slot[RingBack(GwRingSize, gwRing', L + 2 - i)] = Key(toPaho'[i])
                    \/ Forgotten(toPaho', i)
  BY <1>3 DEF GwTracks
<1>5. CASE i = L + 1
  BY <1>1, <1>3, <1>4, <1>5
<1>6. CASE i # L + 1
  <2> DEFINE k == L + 1 - i
  <2>1. i \in 1 .. L /\ k \in 1 .. GwRingSize - 1 /\ k <= GwRingSize /\ L + 2 - i = k + 1
    BY <1>1, <1>6
  <2>2. gwRing'.slot[RingBack(GwRingSize, gwRing', L + 2 - i)]
          = old.slot[RingBack(GwRingSize, old, k)]
    BY <1>4, <2>1
  <2>3. \/ gwRing.slot[RingBack(GwRingSize, gwRing, k)] = Key(toPaho[i])
        \/ Forgotten(toPaho, i)
    BY <2>1 DEF GwTracks
  <2>4. CASE Forgotten(toPaho, i)
    BY <1>1, <1>2, <2>1, <2>4, ForgottenStays
  <2>5. CASE m.kind = "connect" /\ m.src = toPaho[i].src
    BY <1>1, <1>2, <2>1, <2>5, ConnectForgets
  <2>6. CASE /\ gwRing.slot[RingBack(GwRingSize, gwRing, k)] = Key(toPaho[i])
             /\ ~(m.kind = "connect" /\ m.src = toPaho[i].src)
    <3> DEFINE p == RingBack(GwRingSize, gwRing, k)
    <3>1. p \in 0 .. GwRingSize - 1
      BY <1>1, <2>1, RingBackInside
    <3>2. old.slot[RingBack(GwRingSize, old, k)] = Key(toPaho[i])
      <4>1. CASE m.kind # "connect"
        BY <4>1, <2>6 DEF GwRingFor
      <4>2. CASE m.kind = "connect"
        <5>1. old = RingClear(GwRingSize, gwRing, m.src)
          BY <4>2 DEF GwRingFor
        <5>2. RingBack(GwRingSize, old, k) = p
          BY <1>1, <2>1, <5>1, RingClearBack
        <5>3. gwRing.slot[p].src # m.src
          BY <2>6, <4>2 DEF Key
        <5>4. old.slot[p] = gwRing.slot[p]
          BY <1>1, <3>1, <5>1, <5>3, RingClearKeeps
        <5> QED BY <2>6, <5>2, <5>4
      <4> QED BY <4>1, <4>2
    <3>3. toPaho'[i] = toPaho[i]
      BY <1>3, <2>1
    <3> QED BY <2>2, <3>2, <3>3
  <2> QED BY <2>3, <2>4, <2>5, <2>6
<1> QED BY <1>5, <1>6

(* An uplink that passes the duplicate check, and is no CONNECT, is not    *)
(* among the last GwRingSize hand-overs unless its sender connected since. *)
LEMMA NotRecent ==
  ASSUME TypeOK, GwTracks, NEW m \in Message, m.kind # "connect",
         ~RingSeen(GwRingSize, GwRingFor(m), Key(m)),
         NEW i \in 1 .. Len(toPaho), Key(toPaho[i]) = Key(m),
         Len(toPaho) + 1 - i <= GwRingSize
  PROVE  Forgotten(toPaho, i)
<1> DEFINE k == Len(toPaho) + 1 - i
<1>1. /\ Len(toPaho) \in Nat /\ GwRingSize \in Nat \ {0}
      /\ gwRing \in RingType(GwRingSize, Keys)
  BY MeshAssumption DEF TypeOK
<1>2. k \in 1 .. GwRingSize
  BY <1>1
<1>3. RingBack(GwRingSize, gwRing, k) \in 0 .. GwRingSize - 1
  BY <1>1, <1>2, RingBackInside
<1>4. gwRing.slot[RingBack(GwRingSize, gwRing, k)] # Key(m)
  BY <1>3 DEF GwRingFor, RingSeen
<1> QED BY <1>4 DEF GwTracks

(* The window is preserved by a hand-over.                                 *)
LEMMA WindowStep ==
  ASSUME TypeOK, GwTracks, GatewayWindow, NEW m \in Message, Handed(m)
  PROVE  GatewayWindow'
<1> DEFINE L == Len(toPaho)
<1>1. toPaho \in Seq(Message) /\ L \in Nat /\ toPaho' = Append(toPaho, m)
  BY DEF TypeOK, Handed
<1>2. /\ Len(toPaho') = L + 1 /\ toPaho'[L + 1] = m /\ DOMAIN toPaho' = 1 .. L + 1
      /\ \A i \in 1 .. L : toPaho'[i] = toPaho[i]
  BY <1>1, LogAppend
<1> SUFFICES ASSUME NEW i \in 1 .. L + 1, NEW j \in 1 .. L + 1, i < j,
                    Key(toPaho'[i]) = Key(toPaho'[j]), ~(j - i > GwRingSize)
             PROVE  ConnectAfter(toPaho', i, j)
  BY <1>2 DEF GatewayWindow
<1>3. CASE j \in 1 .. L
  <2>1. i \in 1 .. L /\ toPaho'[i] = toPaho[i] /\ toPaho'[j] = toPaho[j]
    BY <1>1, <1>2, <1>3
  <2>2. ConnectAfter(toPaho, i, j)
    BY <1>1, <1>3, <2>1 DEF GatewayWindow
  <2>3. \A c \in i + 1 .. j : toPaho'[c] = toPaho[c]
    BY <1>2, <1>3, <2>1
  <2> QED BY <2>1, <2>2, <2>3 DEF ConnectAfter
<1>4. CASE j = L + 1
  <2>1. i \in 1 .. L /\ toPaho'[j] = m /\ Key(toPaho[i]) = Key(m) /\ L + 1 - i <= GwRingSize
    BY <1>1, <1>2, <1>4, MeshAssumption
  <2>2. CASE m.kind = "connect"
    <3>1. j \in i + 1 .. j
      BY <1>1
    <3> QED BY <2>1, <2>2, <3>1 DEF ConnectAfter
  <2>3. CASE m.kind # "connect"
    <3>1. Forgotten(toPaho, i)
      BY <2>1, <2>3, NotRecent DEF Handed
    <3>2. PICK c \in i + 1 .. L : toPaho[c].kind = "connect" /\ toPaho[c].src = toPaho[i].src
      BY <3>1 DEF Forgotten
    <3>3. c \in i + 1 .. j /\ toPaho'[c] = toPaho[c]
      BY <1>1, <1>2, <1>4, <2>1, <3>2
    <3>4. toPaho[i].src = m.src
      BY <2>1 DEF Key
    <3> QED BY <2>1, <3>2, <3>3, <3>4 DEF ConnectAfter
  <2> QED BY <2>2, <2>3
<1> QED BY <1>1, <1>3, <1>4

GwInv == TypeOK /\ GwTracks /\ GatewayWindow

(* GwInv is inductive.                                                     *)
LEMMA GwInvInit == Init => GwInv
BY TypeInit DEF Init, GwInv, GwTracks, GatewayWindow

LEMMA GwInvStep == GwInv /\ [Next]_vars => GwInv'
<1> SUFFICES ASSUME TypeOK, GwTracks, GatewayWindow, [Next]_vars PROVE GwInv'
  BY DEF GwInv
<1>1. TypeOK'
  BY TypeStep
<1>2. CASE UNCHANGED <<gwRing, toPaho>>
  BY <1>1, <1>2 DEF GwInv, GwTracks, GatewayWindow, ConnectAfter, Forgotten
<1>3. ASSUME GatewayReceive, Handed(rx[Gateway].msg) PROVE GwInv'
  <2>1. rx[Gateway].msg \in Message
    BY <1>3, FrameFields DEF TypeOK, GatewayReceive, Station
  <2> QED BY <1>1, <1>3, <2>1, GwTracksStep, WindowStep DEF GwInv
<1>4. CASE GatewayReceive /\ UNCHANGED gwVars
  BY <1>2, <1>4 DEF gwVars
<1> QED BY <1>2, <1>3, <1>4, GatewayOnly, GatewayReceiveCases

(* For every topology, mode and cache size: the gateway hands the same     *)
(* (SRC_ID, SEQ_NUM) to Paho again only beyond GwRingSize other uplinks or *)
(* after a CONNECT of its sender.                                          *)
THEOREM GatewayWindowHolds == Spec => []GatewayWindow
<1>1. GwInv => GatewayWindow
  BY DEF GwInv
<1> QED BY <1>1, GwInvInit, GwInvStep, PTL DEF Spec

------------------------------------------------------------------------------
(***************************************************************************)
(* The windows of the nodes.  A node's cache and what it recorded agree:   *)
(* the k-th most recent record, k <= NodeRingSize, is in the slot written  *)
(* k adds ago, unless it is a downlink that a later forward cleared.       *)
(***************************************************************************)
Cleared(n, m, k) == n \in Relay /\ m.src = Gateway /\ k > 1

TracksAt(n) ==
  \A i \in 1 .. Len(added[n]) :
    Len(added[n]) + 1 - i <= NodeRingSize =>
      \/ ring[n].slot[RingBack(NodeRingSize, ring[n], Len(added[n]) + 1 - i)]
           = Key(added[n][i])
      \/ Cleared(n, added[n][i], Len(added[n]) + 1 - i)

NodeTracks == \A n \in Node : TracksAt(n)

(* Two equal keys within the window: the later one is a downlink that the  *)
(* relay forgot, or the endpoint's own message, which no check guards.     *)
WindowAt(n) ==
  \A i, j \in 1 .. Len(added[n]) :
    i < j /\ Key(added[n][i]) = Key(added[n][j]) /\ j - i <= NodeRingSize =>
      \/ Cleared(n, added[n][j], j - i)
      \/ n \in Endpoint /\ added[n][j].dst # n

NodeWindows == \A n \in Node : WindowAt(n)

NodeInv == TypeOK /\ NodeTracks /\ NodeWindows

(* The cache that dedup_add extends: a relay has cleared the gateway's     *)
(* entries before.  A key that is already in the cache is entered again    *)
(* only for an endpoint's own message.                                     *)
NoteRing(n) ==
  IF n \in Relay THEN RingClear(NodeRingSize, ring[n], Gateway) ELSE ring[n]

Notes(n, m) ==
  /\ (n \in Endpoint /\ m.dst # n) \/ ~RingSeen(NodeRingSize, ring[n], Key(m))
  /\ ring' = [ring EXCEPT ![n] = RingAdd(NodeRingSize, NoteRing(n), Key(m))]
  /\ added' = [added EXCEPT ![n] = Remember(added[n], m)]

Forgets(n) ==
  /\ ring' = [ring EXCEPT ![n] = EmptyRing(NodeRingSize)]
  /\ added' = [added EXCEPT ![n] = <<>>]

(* A step that touches the caches of the nodes notes one message at one    *)
(* node or empties the cache of one.                                       *)
LEMMA NodeOnly ==
  ASSUME TypeOK, [Next]_vars
  PROVE  \/ UNCHANGED <<ring, added>>
         \/ \E n \in Node : Forgets(n)
         \/ \E n \in Node, m \in Message : Notes(n, m)
<1> USE DEF nodeVars
<1>1. ASSUME NEW n \in Node, Transmit(n) PROVE UNCHANGED <<ring, added>>
  BY <1>1 DEF Transmit
<1>2. ASSUME NEW n \in Node, Reboot(n) PROVE Forgets(n)
  BY <1>2 DEF Reboot, Forgets
<1>3. ASSUME NEW n \in Endpoint, NEW k \in {"connect", "data"}, Send(n, k)
      PROVE  \E m \in Message : Notes(n, m)
  <2> DEFINE m == [src |-> n, dst |-> Gateway, seq |-> (seq[n] + 1) % SeqMod,
                   kind |-> k, id |-> origin[n] + 1, boot |-> boots[n]]
  <2>1. n \in Node /\ n \in Station /\ n \notin Relay /\ n # Gateway
    BY MeshAssumption DEF Node, Station
  <2>2. (seq[n] + 1) % SeqMod \in Seqs
    BY <2>1, SeqStep DEF TypeOK
  <2>3. m \in Message
    BY <2>1, <2>2 DEF TypeOK, Message, Kind
  <2>4. /\ ring' = [ring EXCEPT ![n] = RingAdd(NodeRingSize, ring[n], Key(m))]
        /\ added' = [added EXCEPT ![n] = Remember(added[n], m)]
    BY <1>3 DEF Send
  <2>5. m.dst # n
    BY <2>1
  <2> HIDE DEF m
  <2> QED BY <2>1, <2>3, <2>4, <2>5 DEF Notes, NoteRing
<1>4. ASSUME NEW n \in Endpoint, EndpointReceive(n)
      PROVE  UNCHANGED <<ring, added>> \/ \E m \in Message : Notes(n, m)
  <2> DEFINE m == rx[n].msg
  <2>1. n \in Node /\ n \in Station /\ n \notin Relay
    BY MeshAssumption DEF Node, Station
  <2>2. m \in Message
    BY <1>4, <2>1, FrameFields DEF TypeOK, EndpointReceive
  <2>3. \/ UNCHANGED <<ring, added>>
        \/ /\ ~RingSeen(NodeRingSize, ring[n], Key(m))
           /\ ring' = [ring EXCEPT ![n] = RingAdd(NodeRingSize, ring[n], Key(m))]
           /\ added' = [added EXCEPT ![n] = Remember(added[n], m)]
    BY <1>4 DEF EndpointReceive
  <2> HIDE DEF m
  <2> QED BY <2>1, <2>2, <2>3 DEF Notes, NoteRing
<1>5. ASSUME NEW n \in Relay, RelayReceive(n)
      PROVE  UNCHANGED <<ring, added>> \/ \E m \in Message : Notes(n, m)
  <2>1. n \in Node /\ n \in Station
    BY DEF Node, Station
  <2>2. rx[n].msg \in Message
    BY <1>5, <2>1, FrameFields DEF TypeOK, RelayReceive
  <2>3. \/ UNCHANGED <<ring, added>>
        \/ /\ ~RingSeen(NodeRingSize, ring[n], Key(rx[n].msg))
           /\ ring' = [ring EXCEPT ![n] = RelayRing(n, rx[n].msg)]
           /\ added' = [added EXCEPT ![n] = Remember(added[n], rx[n].msg)]
    BY <1>5 DEF RelayReceive, Forwards
  <2> QED BY <2>2, <2>3 DEF Notes, NoteRing, RelayRing
<1>6. ASSUME NEW n \in Endpoint, Expire(n) PROVE UNCHANGED <<ring, added>>
  BY <1>6 DEF Expire
<1>7. ASSUME NEW n \in Endpoint, NEW k \in DownKind, Stage(n, k)
      PROVE  UNCHANGED <<ring, added>>
  BY <1>7 DEF Stage
<1>8. CASE GatewayReceive
  BY <1>8 DEF GatewayReceive
<1>9. CASE GatewayTransmit
  BY <1>9 DEF GatewayTransmit
<1>10. CASE UNCHANGED vars
  BY <1>10 DEF vars
<1>11. \A n \in Endpoint \cup Relay : n \in Node
  BY DEF Node
<1> QED
  BY <1>1, <1>2, <1>3, <1>4, <1>5, <1>6, <1>7, <1>8, <1>9, <1>10, <1>11 DEF Next

(* The kept history moves every message one place back and ends with the   *)
(* new one; when it is full the oldest falls out.                          *)
LEMMA RememberShifts ==
  ASSUME NEW log \in Seq(Message), NEW m \in Message
  PROVE  \E d \in {0, 1} :
           /\ d <= Len(log)
           /\ Len(Remember(log, m)) = Len(log) + 1 - d
           /\ Remember(log, m)[Len(log) + 1 - d] = m
           /\ \A i \in 1 .. Len(log) - d : Remember(log, m)[i] = log[i + d]
<1>1. CASE Len(log) <= NodeRingSize
  BY <1>1, LogAppend DEF Remember
<1>2. CASE ~(Len(log) <= NodeRingSize)
  <2>1. log # <<>> /\ Len(log) \in Nat /\ Len(log) > 0
    BY <1>2, MeshAssumption
  <2>2. /\ Tail(log) \in Seq(Message) /\ Len(Tail(log)) = Len(log) - 1
        /\ \A i \in 1 .. Len(log) - 1 : Tail(log)[i] = log[i + 1]
    BY <2>1
  <2>3. Remember(log, m) = Append(Tail(log), m)
    BY <1>2 DEF Remember
  <2>4. /\ Len(Remember(log, m)) = Len(log)
        /\ Remember(log, m)[Len(log)] = m
        /\ \A i \in 1 .. Len(log) - 1 : Remember(log, m)[i] = log[i + 1]
    BY <2>1, <2>2, <2>3, LogAppend
  <2> WITNESS 1 \in {0, 1}
  <2> QED BY <2>1, <2>4
<1> QED BY <1>1, <1>2

(* What the clearing leaves: an entry that was in the cache is still in    *)
(* its slot unless it is a downlink at a relay.                            *)
LEMMA NoteRingKeeps ==
  ASSUME TypeOK, NEW n \in Node, NEW k \in 1 .. NodeRingSize, NEW m \in Message,
         ring[n].slot[RingBack(NodeRingSize, ring[n], k)] = Key(m)
  PROVE  \/ NoteRing(n).slot[RingBack(NodeRingSize, NoteRing(n), k)] = Key(m)
         \/ n \in Relay /\ m.src = Gateway
<1> DEFINE p == RingBack(NodeRingSize, ring[n], k)
<1>1. /\ ring[n] \in RingType(NodeRingSize, Keys) /\ NodeRingSize \in Nat \ {0}
  BY MeshAssumption DEF TypeOK
<1>2. p \in 0 .. NodeRingSize - 1
  BY <1>1, RingBackInside
<1>3. CASE n \notin Relay
  BY <1>3 DEF NoteRing
<1>4. CASE n \in Relay /\ m.src # Gateway
  <2>1. NoteRing(n) = RingClear(NodeRingSize, ring[n], Gateway)
    BY <1>4 DEF NoteRing
  <2>2. RingBack(NodeRingSize, NoteRing(n), k) = p
    BY <1>1, <2>1, RingClearBack
  <2>3. ring[n].slot[p].src # Gateway
    BY <1>4 DEF Key
  <2>4. NoteRing(n).slot[p] = ring[n].slot[p]
    BY <1>1, <1>2, <2>1, <2>3, RingClearKeeps
  <2> QED BY <2>2, <2>4
<1> QED BY <1>3, <1>4

(* Noting a message keeps the agreement of cache and record.               *)
LEMMA NotesTracks ==
  ASSUME TypeOK, NodeTracks, NEW n \in Node, NEW m \in Message, Notes(n, m)
  PROVE  TracksAt(n)'
<1> DEFINE L   == Len(added[n])
           old == NoteRing(n)
<1>1. /\ added[n] \in Seq(Message) /\ L \in Nat
      /\ ring[n] \in RingType(NodeRingSize, Keys)
      /\ Key(m) \in Keys /\ NodeRingSize \in Nat \ {0}
  BY KeyType, MeshAssumption DEF TypeOK
<1>2. old \in RingType(NodeRingSize, Keys)
  BY <1>1, RingClearType DEF NoteRing
<1>3. /\ ring'[n] = RingAdd(NodeRingSize, old, Key(m))
      /\ added'[n] = Remember(added[n], m)
  BY DEF Notes, TypeOK
<1>4. PICK d \in {0, 1} :
        /\ d <= L
        /\ Len(added'[n]) = L + 1 - d
        /\ added'[n][L + 1 - d] = m
        /\ \A i \in 1 .. L - d : added'[n][i] = added[n][i + d]
  BY <1>1, <1>3, RememberShifts
<1>5. /\ ring'[n].slot[RingBack(NodeRingSize, ring'[n], 1)] = Key(m)
      /\ \A j \in 1 .. NodeRingSize - 1 :
           ring'[n].slot[RingBack(NodeRingSize, ring'[n], j + 1)]
             = old.slot[RingBack(NodeRingSize, old, j)]
  BY <1>1, <1>2, <1>3, RingAddShifts
<1> HIDE DEF old
<1> SUFFICES ASSUME NEW i \in 1 .. L + 1 - d, L + 2 - d - i <= NodeRingSize
             PROVE  \/ ring'[n].slot[RingBack(NodeRingSize, ring'[n], L + 2 - d - i)]
                         = Key(added'[n][i])
                    \/ Cleared(n, added'[n][i], L + 2 - d - i)
  <2> HIDE DEF L
  <2>1. Len(added'[n]) = L + 1 - d /\ L \in Int
    BY <1>1, <1>4
  <2>2. \A i \in 1 .. L + 1 - d : Len(added'[n]) + 1 - i = L + 2 - d - i
    BY <2>1
  <2> QED BY <2>1, <2>2 DEF TracksAt, Cleared
<1>6. CASE i = L + 1 - d
  <2>1. L + 2 - d - i = 1
    BY <1>1, <1>4, <1>6
  <2> QED BY <1>4, <1>5, <1>6, <2>1
<1>7. CASE i # L + 1 - d
  <2> DEFINE k == L + 1 - d - i
  <2>0. added'[n][i] = added[n][i + d] \/ i \notin 1 .. L - d
    BY <1>4
  <2> HIDE DEF L
  <2>1. /\ i \in 1 .. L - d /\ k \in 1 .. NodeRingSize - 1 /\ L + 2 - d - i = k + 1
        /\ i + d \in 1 .. L /\ L + 1 - (i + d) = k /\ k \in 1 .. NodeRingSize
        /\ added'[n][i] = added[n][i + d] /\ k + 1 > 1
    <3>1. i \in 1 .. L - d /\ L + 1 - d - i \in 1 .. NodeRingSize - 1
      BY <1>1, <1>7
    <3>2. L + 2 - d - i = k + 1 /\ i + d \in 1 .. L /\ L + 1 - (i + d) = k
      BY <1>1, <3>1
    <3>3. k \in 1 .. NodeRingSize /\ k + 1 > 1
      BY <1>1, <3>1
    <3> QED BY <2>0, <3>1, <3>2, <3>3
  <2> USE DEF L
  <2>2. added[n][i + d] \in Message
    BY <1>1, <2>1
  <2>3. \/ ring[n].slot[RingBack(NodeRingSize, ring[n], k)] = Key(added[n][i + d])
        \/ Cleared(n, added[n][i + d], k)
    BY <2>1 DEF NodeTracks, TracksAt
  <2>4. \/ old.slot[RingBack(NodeRingSize, old, k)] = Key(added[n][i + d])
        \/ n \in Relay /\ added[n][i + d].src = Gateway
    BY <2>1, <2>2, <2>3, NoteRingKeeps DEF Cleared, old
  <2>5. ring'[n].slot[RingBack(NodeRingSize, ring'[n], k + 1)]
          = old.slot[RingBack(NodeRingSize, old, k)]
    BY <1>5, <2>1
  <2> QED BY <2>1, <2>4, <2>5 DEF Cleared
<1> QED BY <1>6, <1>7

(* A message that the check lets pass is not among the last NodeRingSize   *)
(* records, except as a downlink that the relay cleared.                   *)
LEMMA NotInRing ==
  ASSUME TypeOK, NodeTracks, NEW n \in Node, NEW m \in Message,
         ~RingSeen(NodeRingSize, ring[n], Key(m)),
         NEW i \in 1 .. Len(added[n]), Key(added[n][i]) = Key(m),
         Len(added[n]) + 1 - i <= NodeRingSize
  PROVE  Cleared(n, m, Len(added[n]) + 1 - i)
<1> DEFINE k == Len(added[n]) + 1 - i
<1>1. /\ Len(added[n]) \in Nat /\ NodeRingSize \in Nat \ {0}
      /\ ring[n] \in RingType(NodeRingSize, Keys)
  BY MeshAssumption DEF TypeOK
<1>2. k \in 1 .. NodeRingSize
  BY <1>1
<1>3. RingBack(NodeRingSize, ring[n], k) \in 0 .. NodeRingSize - 1
  BY <1>1, <1>2, RingBackInside
<1>4. ring[n].slot[RingBack(NodeRingSize, ring[n], k)] # Key(m)
  BY <1>3 DEF RingSeen
<1>5. Cleared(n, added[n][i], k)
  BY <1>4 DEF NodeTracks, TracksAt
<1> QED BY <1>5 DEF Cleared, Key

(* Noting a message keeps the window.                                      *)
LEMMA NotesWindow ==
  ASSUME TypeOK, NodeTracks, NodeWindows, NEW n \in Node, NEW m \in Message,
         Notes(n, m)
  PROVE  WindowAt(n)'
<1> DEFINE L == Len(added[n])
<1>1. added[n] \in Seq(Message) /\ L \in Nat /\ NodeRingSize \in Nat \ {0}
  BY MeshAssumption DEF TypeOK
<1>2. added'[n] = Remember(added[n], m)
  BY DEF Notes, TypeOK
<1>3. PICK d \in {0, 1} :
        /\ d <= L
        /\ Len(added'[n]) = L + 1 - d
        /\ added'[n][L + 1 - d] = m
        /\ \A i \in 1 .. L - d : added'[n][i] = added[n][i + d]
  BY <1>1, <1>2, RememberShifts
<1> SUFFICES ASSUME NEW i \in 1 .. L + 1 - d, NEW j \in 1 .. L + 1 - d, i < j,
                    Key(added'[n][i]) = Key(added'[n][j]), j - i <= NodeRingSize
             PROVE  \/ Cleared(n, added'[n][j], j - i)
                    \/ n \in Endpoint /\ added'[n][j].dst # n
  BY <1>3 DEF WindowAt, Cleared
<1>4. i \in 1 .. L - d /\ i + d \in 1 .. L /\ added'[n][i] = added[n][i + d]
  <2>1. added'[n][i] = added[n][i + d] \/ i \notin 1 .. L - d
    BY <1>3
  <2> HIDE DEF L
  <2> QED BY <1>1, <2>1
<1>5. CASE j = L + 1 - d
  <2>1. added'[n][j] = m /\ L + 1 - (i + d) = j - i
    <3>1. L + 1 - (i + d) = j - i
      BY <1>1, <1>5
    <3> QED BY <1>3, <1>5, <3>1
  <2>2. CASE ~RingSeen(NodeRingSize, ring[n], Key(m))
    BY <1>4, <2>1, <2>2, NotInRing
  <2> QED BY <2>1, <2>2 DEF Notes
<1>6. CASE j # L + 1 - d
  <2>0. added'[n][j] = added[n][j + d] \/ j \notin 1 .. L - d
    BY <1>3
  <2> HIDE DEF L
  <2>1. /\ j \in 1 .. L - d /\ j + d \in 1 .. L /\ added'[n][j] = added[n][j + d]
        /\ i + d < j + d /\ (j + d) - (i + d) = j - i
    BY <1>1, <1>6, <2>0
  <2> USE DEF L
  <2> QED BY <1>4, <2>1 DEF NodeWindows, WindowAt
<1> QED BY <1>5, <1>6

(* NodeInv is inductive.                                                   *)
LEMMA NodeInvInit == Init => NodeInv
BY TypeInit DEF Init, NodeInv, NodeTracks, TracksAt, NodeWindows, WindowAt

LEMMA NodeInvStep == NodeInv /\ [Next]_vars => NodeInv'
<1> SUFFICES ASSUME TypeOK, NodeTracks, NodeWindows, [Next]_vars
             PROVE  \A x \in Node : TracksAt(x)' /\ WindowAt(x)'
  BY TypeStep DEF NodeInv, NodeTracks, NodeWindows
<1>1. ASSUME NEW x \in Node, ring'[x] = ring[x], added'[x] = added[x]
      PROVE  TracksAt(x)' /\ WindowAt(x)'
  BY <1>1 DEF NodeTracks, TracksAt, NodeWindows, WindowAt, Cleared
<1>2. CASE UNCHANGED <<ring, added>>
  BY <1>1, <1>2
<1>3. ASSUME NEW n \in Node, Forgets(n)
      PROVE  \A x \in Node : TracksAt(x)' /\ WindowAt(x)'
  <2>1. Len(added'[n]) = 0
    BY <1>3 DEF Forgets, TypeOK
  <2>2. TracksAt(n)' /\ WindowAt(n)'
    BY <2>1 DEF TracksAt, WindowAt
  <2>3. \A x \in Node \ {n} : ring'[x] = ring[x] /\ added'[x] = added[x]
    BY <1>3 DEF Forgets, TypeOK
  <2> QED BY <1>1, <2>2, <2>3
<1>4. ASSUME NEW n \in Node, NEW m \in Message, Notes(n, m)
      PROVE  \A x \in Node : TracksAt(x)' /\ WindowAt(x)'
  <2>1. \A x \in Node \ {n} : ring'[x] = ring[x] /\ added'[x] = added[x]
    BY <1>4 DEF Notes, TypeOK
  <2> QED BY <1>1, <1>4, <2>1, NotesTracks, NotesWindow
<1> QED BY <1>2, <1>3, <1>4, NodeOnly

(* For every topology and cache size: a relay forwards the same            *)
(* (SRC_ID, SEQ_NUM) again only beyond NodeRingSize other forwards, except *)
(* a downlink that a forward in between made it forget.                    *)
THEOREM RelayWindowHolds == Spec => []RelayWindow
<1>1. NodeInv => RelayWindow
  <2> SUFFICES ASSUME NodeInv, NEW n \in Relay,
                      NEW i \in DOMAIN added[n], NEW j \in DOMAIN added[n], i < j,
                      Key(added[n][i]) = Key(added[n][j]), ~(j - i > NodeRingSize)
               PROVE  added[n][j].src = Gateway /\ j - i > 1
    BY DEF RelayWindow
  <2>1. n \in Node /\ n \notin Endpoint
    BY MeshAssumption DEF Node
  <2>2. DOMAIN added[n] = 1 .. Len(added[n]) /\ Len(added[n]) \in Nat
    BY <2>1 DEF NodeInv, TypeOK
  <2>3. j - i <= NodeRingSize
    BY <2>2, MeshAssumption
  <2> QED BY <2>1, <2>2, <2>3 DEF NodeInv, NodeWindows, WindowAt, Cleared
<1> QED BY <1>1, NodeInvInit, NodeInvStep, PTL DEF Spec

(* For every topology and cache size: the same downlink reaches an         *)
(* endpoint's MQTT-SN layer again only beyond NodeRingSize other           *)
(* receptions and transmissions of that node.                              *)
THEOREM EndpointWindowHolds == Spec => []EndpointWindow
<1>1. NodeInv => EndpointWindow
  <2> SUFFICES ASSUME NodeInv, NEW n \in Endpoint,
                      NEW i \in DOMAIN added[n], NEW j \in DOMAIN added[n], i < j,
                      added[n][j].dst = n,
                      Key(added[n][i]) = Key(added[n][j]), ~(j - i > NodeRingSize)
               PROVE  FALSE
    BY DEF EndpointWindow
  <2>1. n \in Node /\ n \notin Relay
    BY MeshAssumption DEF Node
  <2>2. DOMAIN added[n] = 1 .. Len(added[n]) /\ Len(added[n]) \in Nat
    BY <2>1 DEF NodeInv, TypeOK
  <2>3. j - i <= NodeRingSize
    BY <2>2, MeshAssumption
  <2> QED BY <2>1, <2>2, <2>3 DEF NodeInv, NodeWindows, WindowAt, Cleared
<1> QED BY <1>1, NodeInvInit, NodeInvStep, PTL DEF Spec

------------------------------------------------------------------------------
(***************************************************************************)
(* The mesh implements UplinkChannel.  Every uplink in a buffer was        *)
(* originated by its source, and an origin numbers its messages apart.     *)
(***************************************************************************)
UplinksSent ==
  /\ \A s \in Station : rx[s] # None /\ rx[s].msg.dst = Gateway => rx[s].msg \in sent
  /\ \A n \in Node : tx[n] # None /\ tx[n].msg.dst = Gateway => tx[n].msg \in sent
  /\ rx[Gateway] # None => rx[Gateway].msg.dst = Gateway

FreshIds == \A m \in sent : m.src \in Node /\ m.id <= origin[m.src]

SentInv == TypeOK /\ UplinksSent /\ FreshIds

LEMMA SentInvInit == Init => SentInv
<1>1. ASSUME Init PROVE UplinksSent /\ FreshIds
  BY <1>1, MeshAssumption DEF Init, UplinksSent, FreshIds, Station, Node
<1> QED BY <1>1, TypeInit DEF SentInv

(* A frame on the air carries its sender's message unchanged.              *)
LEMMA TransmitSent ==
  ASSUME SentInv, NEW n \in Node, Transmit(n) PROVE UplinksSent' /\ FreshIds'
<1>1. PICK heard \in SUBSET Station : OnAir(n, tx[n], heard)
  BY DEF Transmit
<1>2. /\ \A h \in heard : h = Gateway => tx[n].msg.dst = Gateway
      /\ rx' = [x \in Station |-> IF x \in heard THEN tx[n] ELSE rx[x]]
  BY <1>1 DEF OnAir, Accepts
<1>3. tx[n] # None /\ tx' = [tx EXCEPT ![n] = None] /\ sent' = sent /\ origin' = origin
  BY DEF Transmit
<1>4. tx \in [Node -> Frame \cup {None}] /\ Gateway \in Station
  BY DEF SentInv, TypeOK, Station
<1> QED BY <1>2, <1>3, <1>4 DEF SentInv, UplinksSent, FreshIds

(* A new message has a number its origin has not used.                     *)
LEMMA SendSent ==
  ASSUME SentInv, NEW n \in Endpoint, NEW k \in {"connect", "data"}, Send(n, k)
  PROVE  /\ UplinksSent' /\ FreshIds'
         /\ \E m \in sent' : m \notin sent /\ sent' = sent \cup {m}
<1> DEFINE m == [src |-> n, dst |-> Gateway, seq |-> (seq[n] + 1) % SeqMod, kind |-> k,
                 id |-> origin[n] + 1, boot |-> boots[n]]
<1>1. /\ sent' = sent \cup {m} /\ UNCHANGED rx
      /\ tx' = [tx EXCEPT ![n] =
                  [msg |-> m, ttl |-> TTLDefault, to |-> HeaderTo(n, Gateway)]]
      /\ origin' = [origin EXCEPT ![n] = origin[n] + 1]
  BY DEF Send
<1>2. /\ n \in Node /\ n \in Station /\ origin[n] \in Nat
      /\ origin \in [Station -> Nat] /\ tx \in [Node -> Frame \cup {None}]
  BY DEF SentInv, TypeOK, Node, Station
<1>3. m.src = n /\ m.id = origin[n] + 1
  OBVIOUS
<1> HIDE DEF m
<1>4. m \notin sent
  BY <1>2, <1>3 DEF SentInv, FreshIds
<1>5. FreshIds'
  <2> SUFFICES ASSUME NEW x \in sent' PROVE x.src \in Node /\ x.id <= origin'[x.src]
    BY DEF FreshIds
  <2>1. CASE x = m
    BY <1>1, <1>2, <1>3, <2>1
  <2>2. CASE x \in sent
    <3>1. x.src \in Node /\ x.id <= origin[x.src] /\ x.src \in Station /\ x.id \in Nat
      BY <2>2 DEF SentInv, FreshIds, Station, TypeOK, Message
    <3>2. origin[x.src] \in Nat /\ origin'[x.src] \in Nat /\ origin[x.src] <= origin'[x.src]
      BY <1>1, <1>2, <3>1
    <3> QED BY <3>1, <3>2
  <2> QED BY <1>1, <2>1, <2>2
<1>6. UplinksSent'
  BY <1>1, <1>2 DEF SentInv, UplinksSent
<1> QED BY <1>1, <1>4, <1>5, <1>6

(* A relay's copy carries the message it received.                         *)
LEMMA RelaySent ==
  ASSUME SentInv, NEW n \in Relay, RelayReceive(n) PROVE UplinksSent' /\ FreshIds'
<1>1. /\ n \in Node /\ n \in Station /\ rx[n] # None
      /\ rx' = [rx EXCEPT ![n] = None] /\ sent' = sent /\ origin' = origin
      /\ tx' = tx \/ tx' = [tx EXCEPT ![n] = Forwarded(n, rx[n])]
  BY DEF RelayReceive, Node, Station
<1>2. /\ tx \in [Node -> Frame \cup {None}] /\ rx \in [Station -> Frame \cup {None}]
      /\ Gateway \in Station
  BY DEF SentInv, TypeOK, Station
<1>3. Forwarded(n, rx[n]).msg = rx[n].msg
  BY DEF Forwarded
<1>4. \A x \in Station : rx'[x] # None => rx'[x] = rx[x]
  BY <1>1, <1>2
<1>5. \A x \in Node : tx'[x] # None => tx'[x] = tx[x] \/ (x = n /\ tx'[x] = Forwarded(n, rx[n]))
  BY <1>1, <1>2
<1>6. \A x \in Node : tx'[x] # None /\ tx'[x].msg.dst = Gateway => tx'[x].msg \in sent
  BY <1>1, <1>3, <1>5 DEF SentInv, UplinksSent
<1> QED BY <1>1, <1>2, <1>4, <1>6 DEF SentInv, UplinksSent, FreshIds

(* Emptying buffers, or filling them with downlinks, adds no uplink.       *)
LEMMA DrainSent ==
  ASSUME SentInv, NEW n \in Station, rx' = [rx EXCEPT ![n] = None],
         tx' = tx \/ \E x \in Node : tx' = [tx EXCEPT ![x] = None],
         UNCHANGED <<sent, origin>>
  PROVE  UplinksSent' /\ FreshIds'
<1>1. /\ tx \in [Node -> Frame \cup {None}] /\ rx \in [Station -> Frame \cup {None}]
      /\ Gateway \in Station
  BY DEF SentInv, TypeOK, Station
<1>2. \A x \in Station : rx'[x] # None => rx'[x] = rx[x]
  BY <1>1
<1>3. \A x \in Node : tx'[x] # None => tx'[x] = tx[x]
  BY <1>1
<1> QED BY <1>1, <1>2, <1>3 DEF SentInv, UplinksSent, FreshIds

LEMMA GatewayTransmitSent ==
  ASSUME SentInv, GatewayTransmit PROVE UplinksSent' /\ FreshIds'
<1> DEFINE m == Head(staged)
           f == [msg |-> m, ttl |-> TTLDefault, to |-> GwNextHop[m.dst]]
<1>1. PICK heard \in SUBSET Node :
        rx' = [x \in Station |-> IF x \in heard THEN f
                                 ELSE IF x = Gateway THEN None ELSE rx[x]]
  BY DEF GatewayTransmit
<1>2. m \in Downlink
  BY DEF GatewayTransmit, SentInv, TypeOK
<1>3. f.msg.dst # Gateway
  BY <1>2, MeshAssumption DEF Downlink, Node
<1> HIDE DEF f
<1>4. \A x \in Station : rx'[x] # None => rx'[x] = rx[x] \/ rx'[x] = f
  BY <1>1
<1>5. Gateway \in Station /\ rx'[Gateway] = None
  BY <1>1, MeshAssumption DEF Station
<1>6. UNCHANGED <<tx, sent, origin>>
  BY DEF GatewayTransmit
<1> QED BY <1>3, <1>4, <1>5, <1>6 DEF SentInv, UplinksSent, FreshIds

(* SentInv is inductive, and every step but Send and GatewayReceive leaves *)
(* the two variables of UplinkChannel alone.                               *)
LEMMA SentInvStep == SentInv /\ [Next]_vars => SentInv'
<1> SUFFICES ASSUME SentInv, TypeOK, [Next]_vars PROVE UplinksSent' /\ FreshIds'
  BY TypeStep DEF SentInv
<1>1. ASSUME NEW n \in Node, Transmit(n) PROVE UplinksSent' /\ FreshIds'
  BY <1>1, TransmitSent
<1>2. ASSUME NEW n \in Node, Reboot(n) PROVE UplinksSent' /\ FreshIds'
  <2>1. /\ n \in Station /\ rx' = [rx EXCEPT ![n] = None] /\ sent' = sent
        /\ tx' = [tx EXCEPT ![n] = None] 
    BY <1>2 DEF Reboot, Station
  <2>2. origin' = origin
    BY <1>2 DEF Reboot
  <2> QED BY <2>1, <2>2, DrainSent
<1>3. ASSUME NEW n \in Endpoint, NEW k \in {"connect", "data"}, Send(n, k)
      PROVE UplinksSent' /\ FreshIds'
  BY <1>3, SendSent
<1>4. ASSUME NEW n \in Endpoint, EndpointReceive(n) PROVE UplinksSent' /\ FreshIds'
  <2>1. /\ n \in Station /\ rx' = [rx EXCEPT ![n] = None] /\ tx' = tx
        /\ UNCHANGED <<sent, origin>>
    BY <1>4 DEF EndpointReceive, Station, Node
  <2> QED BY <2>1, DrainSent
<1>5. ASSUME NEW n \in Endpoint, Expire(n) PROVE UplinksSent' /\ FreshIds'
  BY <1>5 DEF Expire, SentInv, UplinksSent, FreshIds
<1>6. ASSUME NEW n \in Relay, RelayReceive(n) PROVE UplinksSent' /\ FreshIds'
  BY <1>6, RelaySent
<1>7. ASSUME NEW n \in Endpoint, NEW k \in DownKind, Stage(n, k)
      PROVE UplinksSent' /\ FreshIds'
  <2>1. UNCHANGED <<rx, tx, sent>> /\ origin' = [origin EXCEPT ![Gateway] = origin[Gateway] + 1]
    BY <1>7 DEF Stage
  <2>2. \A x \in Node : origin'[x] = origin[x]
    BY <2>1, MeshAssumption DEF TypeOK, Station
  <2> QED BY <2>1, <2>2 DEF SentInv, UplinksSent, FreshIds
<1>8. CASE GatewayReceive
  <2>1. /\ Gateway \in Station /\ rx' = [rx EXCEPT ![Gateway] = None] /\ tx' = tx
        /\ UNCHANGED <<sent, origin>>
    BY <1>8 DEF GatewayReceive, Station
  <2> QED BY <2>1, DrainSent
<1>9. CASE GatewayTransmit
  BY <1>9, GatewayTransmitSent
<1>10. CASE UNCHANGED vars
  BY <1>10 DEF vars, SentInv, UplinksSent, FreshIds
<1> QED
  BY <1>1, <1>2, <1>3, <1>4, <1>5, <1>6, <1>7, <1>8, <1>9, <1>10 DEF Next

(* A hand-over is a Deliver step of the channel.                           *)
LEMMA DeliverStep ==
  ASSUME SentInv, GwInv, GatewayReceive, Handed(rx[Gateway].msg)
  PROVE  Uplink!Deliver(rx[Gateway].msg) /\ rx[Gateway].msg \in sent
<1> DEFINE m == rx[Gateway].msg
<1>1. m \in sent /\ m \in Message
  BY FrameFields DEF SentInv, UplinksSent, GatewayReceive, Station, TypeOK
<1>2. toPaho' = Append(toPaho, m) /\ sent' = sent
  BY DEF Handed, GatewayReceive
<1>3. ~RingSeen(GwRingSize, GwRingFor(m), Key(m))
  BY DEF Handed
<1> HIDE DEF m
<1>4. ASSUME m.kind # "connect" PROVE ~Uplink!Recent(toPaho, m)
  <2> SUFFICES ASSUME NEW i \in DOMAIN toPaho, Uplink!Key(toPaho[i]) = Uplink!Key(m),
                      Len(toPaho) + 1 - i <= GwRingSize,
                      \A c \in i + 1 .. Len(toPaho) :
                        ~(toPaho[c].kind = "connect" /\ toPaho[c].src = m.src)
               PROVE  FALSE
    BY DEF Uplink!Recent
  <2>1. i \in 1 .. Len(toPaho)
    BY DEF SentInv, TypeOK
  <2>2. Key(toPaho[i]) = Key(m) /\ toPaho[i].src = m.src
    BY DEF Uplink!Key, Key
  <2>3. Forgotten(toPaho, i)
    BY <1>1, <1>3, <1>4, <2>1, <2>2, NotRecent DEF GwInv
  <2> QED BY <2>2, <2>3 DEF Forgotten
<1> QED BY <1>1, <1>2, <1>4 DEF Uplink!Deliver, m

(* Every step of the mesh is a step of the channel or leaves it unchanged. *)
LEMMA UplinkStep ==
  ASSUME SentInv, GwInv, [Next]_vars
  PROVE  [Uplink!Next]_<<sent, toPaho>>
<1> USE DEF gwVars
<1>1. ASSUME NEW n \in Endpoint, NEW k \in {"connect", "data"}, Send(n, k)
      PROVE  Uplink!Next
  <2>1. PICK m \in sent' : m \notin sent /\ sent' = sent \cup {m}
    BY <1>1, SendSent
  <2>2. UNCHANGED toPaho
    BY <1>1 DEF Send
  <2> QED BY <2>1, <2>2 DEF Uplink!Next, Uplink!Originate
<1>2. CASE GatewayReceive
  <2>1. CASE Handed(rx[Gateway].msg)
    BY <1>2, <2>1, DeliverStep DEF Uplink!Next
  <2>2. CASE UNCHANGED gwVars
    BY <1>2, <2>2 DEF GatewayReceive
  <2> QED BY <1>2, <2>1, <2>2, GatewayReceiveCases
<1>3. ASSUME NEW n \in Node, Transmit(n) \/ Reboot(n) PROVE UNCHANGED <<sent, toPaho>>
  BY <1>3 DEF Transmit, Reboot
<1>4. ASSUME NEW n \in Endpoint, EndpointReceive(n) \/ Expire(n)
      PROVE  UNCHANGED <<sent, toPaho>>
  BY <1>4 DEF EndpointReceive, Expire
<1>5. ASSUME NEW n \in Relay, RelayReceive(n) PROVE UNCHANGED <<sent, toPaho>>
  BY <1>5 DEF RelayReceive
<1>6. ASSUME NEW n \in Endpoint, NEW k \in DownKind, Stage(n, k)
      PROVE  UNCHANGED <<sent, toPaho>>
  BY <1>6 DEF Stage
<1>7. CASE GatewayTransmit
  BY <1>7 DEF GatewayTransmit
<1>8. CASE UNCHANGED vars
  BY <1>8 DEF vars
<1> QED BY <1>1, <1>2, <1>3, <1>4, <1>5, <1>6, <1>7, <1>8 DEF Next

(* For every topology and mode, the mesh with the gateway's filter         *)
(* implements the unreliable channel with bounded repetition: nothing      *)
(* reaches Paho that no endpoint originated, and nothing is repeated       *)
(* within the window.                                                      *)
THEOREM MeshImplementsUplink == Spec => ImplementsUplink
<1>1. Init => Uplink!Init
  BY DEF Init, Uplink!Init
<1> QED
  BY <1>1, GwInvInit, GwInvStep, SentInvInit, SentInvStep, UplinkStep, PTL
     DEF Spec, ImplementsUplink, Uplink!Spec
------------------------------------------------------------------------------
(***************************************************************************)
(* What the gateway drops.  A node restarts its numbers only when none of  *)
(* its messages is left in the mesh, so an uplink that reaches the gateway *)
(* is of its sender's present boot; what the cache holds of that sender    *)
(* was handed over after its last CONNECT.  Within a boot a number names   *)
(* one message until the byte wraps: the argument needs MaxUp < SeqMod.    *)
(***************************************************************************)
Carried(m) ==
  \/ \E s \in Station : rx[s] # None /\ rx[s].msg = m
  \/ \E n \in Node : tx[n] # None /\ tx[n].msg = m

CurrentBoots ==
  \A m \in Message : Carried(m) /\ m.dst = Gateway => m.boot = boots[m.src]

NumbersOf(m) ==
  /\ m.boot <= boots[m.src]
  /\ m.boot = boots[m.src] => origin[m.src] - m.id = seq[m.src] - m.seq

Numbered ==
  /\ \A n \in Node : seq[n] <= origin[n]
  /\ \A m \in sent : NumbersOf(m)
  /\ \A a, b \in sent : a.src = b.src /\ a.id = b.id => a = b

BootOrder ==
  /\ \A i \in 1 .. Len(toPaho) : toPaho[i] \in sent
  /\ \A i, j \in 1 .. Len(toPaho) :
       i < j /\ toPaho[i].src = toPaho[j].src => toPaho[i].boot <= toPaho[j].boot

RingKnown ==
  \A p \in 0 .. GwRingSize - 1 : gwRing.slot[p] # NoKey =>
    \E i \in 1 .. Len(toPaho) :
      Key(toPaho[i]) = gwRing.slot[p] /\ ~Forgotten(toPaho, i)

BootInv == SentInv /\ CurrentBoots /\ Numbered /\ BootOrder /\ RingKnown

(* An uplink in a buffer was originated by its source, a node.             *)
LEMMA CarriedSent ==
  ASSUME SentInv, NEW m, Carried(m), m.dst = Gateway
  PROVE  m \in sent /\ m.src \in Node
BY DEF Carried, SentInv, UplinksSent, FreshIds

(* No step brings an uplink into the buffers except its sending, and a     *)
(* node that reboots has none left in them.                                *)
LEMMA CarriedStep ==
  ASSUME SentInv, [Next]_vars, NEW m \in Message, Carried(m)', m.dst = Gateway
  PROVE  \/ Carried(m) /\ boots'[m.src] = boots[m.src]
         \/ m.boot = boots[m.src] /\ boots' = boots
<1> DEFINE Goal == \/ Carried(m) /\ boots'[m.src] = boots[m.src]
                   \/ m.boot = boots[m.src] /\ boots' = boots
<1> USE DEF nodeVars, gwVars
<1>0. /\ rx \in [Station -> Frame \cup {None}] /\ tx \in [Node -> Frame \cup {None}]
      /\ Gateway \in Station /\ \A n \in Endpoint \cup Relay : n \in Node
      /\ \A n \in Node : n \in Station
  BY DEF SentInv, TypeOK, Station, Node
<1>1. ASSUME NEW n \in Node, Transmit(n) PROVE Goal
  <2>1. PICK heard \in SUBSET Station : OnAir(n, tx[n], heard)
    BY <1>1 DEF Transmit
  <2>2. \A x \in Station : rx'[x] = tx[n] \/ rx'[x] = rx[x]
    BY <2>1 DEF OnAir
  <2>3. /\ tx[n] # None /\ boots' = boots
        /\ \A x \in Node : tx'[x] = None \/ tx'[x] = tx[x]
    BY <1>0, <1>1 DEF Transmit
  <2> QED BY <2>2, <2>3 DEF Carried
<1>2. ASSUME NEW n \in Node, Reboot(n) PROVE Goal
  <2>1. /\ \A x \in Station : rx'[x] = None \/ rx'[x] = rx[x]
        /\ \A x \in Node : tx'[x] = None \/ tx'[x] = tx[x]
    BY <1>0, <1>2 DEF Reboot
  <2>2. Carried(m)
    BY <2>1 DEF Carried
  <2>3. m.src # n
    BY <1>2, <2>2 DEF Reboot, Settled, Held, Carried
  <2>4. boots'[m.src] = boots[m.src]
    BY <1>2, <2>2, <2>3, CarriedSent DEF Reboot, SentInv, TypeOK
  <2> QED BY <2>2, <2>4
<1>3. ASSUME NEW n \in Endpoint, NEW k \in {"connect", "data"}, Send(n, k) PROVE Goal
  <2> DEFINE w == [src |-> n, dst |-> Gateway, seq |-> (seq[n] + 1) % SeqMod,
                   kind |-> k, id |-> origin[n] + 1, boot |-> boots[n]]
             f == [msg |-> w, ttl |-> TTLDefault, to |-> HeaderTo(n, Gateway)]
  <2>1. rx' = rx /\ boots' = boots /\ tx' = [tx EXCEPT ![n] = f]
    BY <1>3 DEF Send
  <2>2. f.msg = w /\ w.boot = boots[w.src]
    OBVIOUS
  <2> HIDE DEF f, w
  <2>3. \A x \in Node : tx'[x] = f \/ tx'[x] = tx[x]
    BY <1>0, <2>1
  <2> QED BY <2>1, <2>2, <2>3 DEF Carried
<1>4. ASSUME NEW n \in Endpoint, EndpointReceive(n) PROVE Goal
  <2>1. /\ \A x \in Station : rx'[x] = None \/ rx'[x] = rx[x]
        /\ tx' = tx /\ boots' = boots
    BY <1>0, <1>4 DEF EndpointReceive
  <2> QED BY <2>1 DEF Carried
<1>5. ASSUME NEW n \in Relay, RelayReceive(n) PROVE Goal
  <2>1. /\ n \in Station /\ rx[n] # None /\ boots' = boots
        /\ rx' = [rx EXCEPT ![n] = None]
        /\ tx' = tx \/ tx' = [tx EXCEPT ![n] = Forwarded(n, rx[n])]
    BY <1>0, <1>5 DEF RelayReceive
  <2>2. Forwarded(n, rx[n]).msg = rx[n].msg
    BY DEF Forwarded
  <2>3. \A x \in Station : rx'[x] = None \/ rx'[x] = rx[x]
    BY <1>0, <2>1
  <2>4. \A x \in Node : tx'[x] = tx[x] \/ tx'[x] = Forwarded(n, rx[n])
    BY <1>0, <2>1
  <2> QED BY <2>1, <2>2, <2>3, <2>4 DEF Carried
<1>6. ASSUME NEW n \in Endpoint, Expire(n) PROVE Goal
  BY <1>6 DEF Expire, Carried
<1>7. ASSUME NEW n \in Endpoint, NEW k \in DownKind, Stage(n, k) PROVE Goal
  BY <1>7 DEF Stage, Carried
<1>8. CASE GatewayReceive
  <2>1. /\ \A x \in Station : rx'[x] = None \/ rx'[x] = rx[x]
        /\ tx' = tx /\ boots' = boots
    BY <1>0, <1>8 DEF GatewayReceive
  <2> QED BY <2>1 DEF Carried
<1>9. CASE GatewayTransmit
  <2> DEFINE f == [msg |-> Head(staged), ttl |-> TTLDefault,
                   to |-> GwNextHop[Head(staged).dst]]
  <2>1. PICK heard \in SUBSET Node :
          rx' = [x \in Station |-> IF x \in heard THEN f
                                   ELSE IF x = Gateway THEN None ELSE rx[x]]
    BY <1>9 DEF GatewayTransmit
  <2>2. Head(staged) \in Downlink
    BY <1>9 DEF GatewayTransmit, SentInv, TypeOK
  <2>3. f.msg.dst # Gateway
    BY <2>2, MeshAssumption DEF Downlink, Node
  <2>4. tx' = tx /\ boots' = boots
    BY <1>9 DEF GatewayTransmit
  <2> HIDE DEF f
  <2>5. \A x \in Station : rx'[x] = f \/ rx'[x] = None \/ rx'[x] = rx[x]
    BY <2>1
  <2> QED BY <2>3, <2>4, <2>5 DEF Carried
<1>10. CASE UNCHANGED vars
  BY <1>10 DEF vars, Carried
<1> QED
  BY <1>1, <1>2, <1>3, <1>4, <1>5, <1>6, <1>7, <1>8, <1>9, <1>10 DEF Next

(* An uplink in a buffer is of its sender's present boot.                  *)
LEMMA CurrentBootsStep ==
  ASSUME SentInv, CurrentBoots, [Next]_vars PROVE CurrentBoots'
BY CarriedStep DEF CurrentBoots

(* Only sending and rebooting touch the numbers and the boots of a node.   *)
LEMMA NumberOnly ==
  ASSUME TypeOK, [Next]_vars
  PROVE  \/ \E n \in Endpoint, k \in {"connect", "data"} : Send(n, k)
         \/ \E n \in Node : Reboot(n)
         \/ UNCHANGED <<seq, boots, sent>> /\ \A n \in Node : origin'[n] = origin[n]
<1> USE DEF nodeVars, gwVars
<1>1. ASSUME NEW n \in Node, Transmit(n) PROVE UNCHANGED <<seq, boots, sent, origin>>
  BY <1>1 DEF Transmit
<1>2. ASSUME NEW n \in Endpoint, EndpointReceive(n) \/ Expire(n)
      PROVE  UNCHANGED <<seq, boots, sent, origin>>
  BY <1>2 DEF EndpointReceive, Expire
<1>3. ASSUME NEW n \in Relay, RelayReceive(n) PROVE UNCHANGED <<seq, boots, sent, origin>>
  BY <1>3 DEF RelayReceive
<1>4. ASSUME NEW n \in Endpoint, NEW k \in DownKind, Stage(n, k)
      PROVE  UNCHANGED <<seq, boots, sent>> /\ \A x \in Node : origin'[x] = origin[x]
  <2>1. /\ UNCHANGED <<seq, boots, sent>>
        /\ origin' = [origin EXCEPT ![Gateway] = origin[Gateway] + 1]
    BY <1>4 DEF Stage
  <2> QED BY <2>1, MeshAssumption DEF TypeOK, Station
<1>5. CASE GatewayReceive
  BY <1>5 DEF GatewayReceive
<1>6. CASE GatewayTransmit
  BY <1>6 DEF GatewayTransmit
<1>7. CASE UNCHANGED vars
  BY <1>7 DEF vars
<1> QED BY <1>1, <1>2, <1>3, <1>4, <1>5, <1>6, <1>7 DEF Next

(* While the byte does not wrap, a new message has the next number of its  *)
(* boot, as it has the next of its origin.                                 *)
LEMMA SendNumbered ==
  ASSUME SentInv, Numbered, MaxUp < SeqMod,
         NEW n \in Endpoint, NEW k \in {"connect", "data"}, Send(n, k)
  PROVE  Numbered'
<1> DEFINE w == [src |-> n, dst |-> Gateway, seq |-> (seq[n] + 1) % SeqMod,
                 kind |-> k, id |-> origin[n] + 1, boot |-> boots[n]]
<1>1. /\ seq' = [seq EXCEPT ![n] = (seq[n] + 1) % SeqMod] /\ boots' = boots
      /\ origin' = [origin EXCEPT ![n] = origin[n] + 1] /\ sent' = sent \cup {w}
      /\ origin[n] < MaxUp
  BY DEF Send, nodeVars
<1>2. /\ n \in Node /\ n \in Station /\ origin[n] \in Nat /\ seq[n] \in Nat
      /\ boots[n] \in Nat /\ SeqMod \in Nat /\ MaxUp \in Nat /\ seq[n] <= origin[n]
      /\ seq \in [Node -> Seqs] /\ origin \in [Station -> Nat] /\ Node \subseteq Station
      /\ \A x \in Node : seq[x] \in Nat
  BY MeshAssumption DEF SentInv, TypeOK, Node, Station, Seqs, Numbered
<1>3. (seq[n] + 1) % SeqMod = seq[n] + 1
  <2>1. seq[n] + 1 \in 0 .. SeqMod - 1
    BY <1>1, <1>2
  <2> QED BY <1>2, <2>1
<1>4. w.src = n /\ w.id = origin[n] + 1 /\ w.seq = seq[n] + 1 /\ w.boot = boots[n]
  BY <1>3
<1> HIDE DEF w
<1>5. PICK v : v = w
  OBVIOUS
<1>6. seq'[n] = seq[n] + 1 /\ origin'[n] = origin[n] + 1
  BY <1>1, <1>2, <1>3
<1>7. \A x \in Node : x # n => seq'[x] = seq[x] /\ origin'[x] = origin[x]
  BY <1>1, <1>2
<1>8. \A x \in Node : seq'[x] <= origin'[x]
  BY <1>2, <1>6, <1>7 DEF Numbered
<1>9. NumbersOf(v)'
  BY <1>1, <1>2, <1>4, <1>6, <1>5 DEF NumbersOf
<1>10. ASSUME NEW m \in sent PROVE NumbersOf(m)' /\ ~(m.src = n /\ m.id = v.id)
  <2>1. /\ m.src \in Node /\ m.id <= origin[m.src] /\ m.id \in Nat /\ m.seq \in Nat
        /\ NumbersOf(m)
    BY MeshAssumption DEF SentInv, FreshIds, TypeOK, Message, Seqs, Numbered
  <2>2. CASE m.src = n
    BY <1>1, <1>2, <1>4, <1>6, <1>5, <2>1, <2>2 DEF NumbersOf
  <2>3. CASE m.src # n
    BY <1>1, <1>7, <2>1, <2>3 DEF NumbersOf
  <2> QED BY <2>2, <2>3
<1>11. \A a, b \in sent' : a.src = b.src /\ a.id = b.id => a = b
  BY <1>1, <1>4, <1>10, <1>5 DEF Numbered
<1> QED BY <1>1, <1>8, <1>9, <1>10, <1>11, <1>5 DEF Numbered

(* After a reboot no message of the new boot has been sent yet.            *)
LEMMA RebootNumbered ==
  ASSUME SentInv, Numbered, NEW n \in Node, Reboot(n) PROVE Numbered'
<1>1. /\ seq' = [seq EXCEPT ![n] = 0] /\ boots' = [boots EXCEPT ![n] = boots[n] + 1]
      /\ origin' = origin /\ sent' = sent
  BY DEF Reboot
<1>2. /\ seq \in [Node -> Seqs] /\ boots \in [Node -> Nat] /\ Node \subseteq Station
      /\ origin \in [Station -> Nat]
  BY DEF SentInv, TypeOK, Station
<1>3. \A x \in Node : seq'[x] <= origin'[x]
  BY <1>1, <1>2 DEF Numbered
<1>4. ASSUME NEW m \in sent PROVE NumbersOf(m)'
  <2>1. m.src \in Node /\ m.boot \in Nat /\ NumbersOf(m)
    BY DEF SentInv, FreshIds, TypeOK, Message, Numbered
  <2>2. CASE m.src = n
    <3>1. boots'[n] = boots[n] + 1 /\ boots[n] \in Nat /\ m.boot <= boots[n]
      BY <1>1, <1>2, <2>1, <2>2 DEF NumbersOf
    <3> QED BY <2>1, <2>2, <3>1 DEF NumbersOf
  <2>3. CASE m.src # n
    BY <1>1, <1>2, <2>1, <2>3 DEF NumbersOf
  <2> QED BY <2>2, <2>3
<1> QED BY <1>1, <1>3, <1>4 DEF Numbered

LEMMA NumberedStep ==
  ASSUME SentInv, Numbered, MaxUp < SeqMod, [Next]_vars PROVE Numbered'
<1>1. ASSUME UNCHANGED <<seq, boots, sent>>, \A n \in Node : origin'[n] = origin[n]
      PROVE  Numbered'
  <2>1. \A m \in sent : m.src \in Node
    BY DEF SentInv, FreshIds
  <2> QED BY <1>1, <2>1 DEF Numbered, NumbersOf
<1> QED BY <1>1, NumberOnly, SendNumbered, RebootNumbered DEF SentInv

(* Sent messages are never forgotten.                                      *)
LEMMA SentGrows == ASSUME TypeOK, [Next]_vars PROVE sent \subseteq sent'
BY NumberOnly DEF Send, Reboot

(* A hand-over keeps the boots of each sender in order.                    *)
LEMMA HandedOrder ==
  ASSUME BootInv, GatewayReceive, Handed(rx[Gateway].msg) PROVE BootOrder'
<1> DEFINE m == rx[Gateway].msg
           L == Len(toPaho)
<1>1. m \in Message /\ Carried(m) /\ m.dst = Gateway
  BY FrameFields DEF BootInv, SentInv, UplinksSent, GatewayReceive, Station, TypeOK, Carried
<1>2. m \in sent /\ m.src \in Node /\ m.boot = boots[m.src]
  BY <1>1, CarriedSent DEF BootInv, CurrentBoots
<1>3. toPaho' = Append(toPaho, m) /\ toPaho \in Seq(Message) /\ L \in Nat /\ sent' = sent
  BY DEF Handed, BootInv, SentInv, TypeOK, GatewayReceive
<1> HIDE DEF m
<1>4. /\ Len(toPaho') = L + 1 /\ toPaho'[L + 1] = m
      /\ \A i \in 1 .. L : toPaho'[i] = toPaho[i] /\ toPaho[i] \in sent
  BY <1>1, <1>3, LogAppend DEF BootInv, BootOrder
<1>5. \A i \in 1 .. L : toPaho[i].boot <= boots[toPaho[i].src]
  BY <1>4 DEF BootInv, Numbered, NumbersOf
<1>6. \A i \in 1 .. L + 1 : i = L + 1 \/ i \in 1 .. L
  BY <1>3
<1>7. \A i \in 1 .. Len(toPaho') : toPaho'[i] \in sent'
  BY <1>2, <1>3, <1>4, <1>6
<1>8. ASSUME NEW i \in 1 .. L + 1, NEW j \in 1 .. L + 1, i < j,
             toPaho'[i].src = toPaho'[j].src
      PROVE  toPaho'[i].boot <= toPaho'[j].boot
  <2>1. i \in 1 .. L
    BY <1>3, <1>8
  <2>2. CASE j = L + 1
    BY <1>2, <1>4, <1>5, <1>8, <2>1, <2>2
  <2>3. CASE j \in 1 .. L
    BY <1>4, <1>8, <2>1, <2>3 DEF BootInv, BootOrder
  <2> QED BY <1>6, <2>2, <2>3
<1> QED BY <1>4, <1>7, <1>8 DEF BootOrder

(* A valid entry of the cache is a hand-over since its sender's CONNECT.   *)
LEMMA HandedKnown ==
  ASSUME TypeOK, RingKnown, NEW m \in Message, Handed(m) PROVE RingKnown'
<1> DEFINE L   == Len(toPaho)
           old == GwRingFor(m)
<1>1. /\ toPaho \in Seq(Message) /\ L \in Nat /\ old \in RingType(GwRingSize, Keys)
      /\ gwRing \in RingType(GwRingSize, Keys) /\ toPaho' = Append(toPaho, m)
      /\ GwRingSize \in Nat \ {0} /\ gwRing' = RingAdd(GwRingSize, old, Key(m))
  BY GwRingForType, MeshAssumption DEF TypeOK, Handed
<1>2. /\ Len(toPaho') = L + 1 /\ toPaho'[L + 1] = m
      /\ \A i \in 1 .. L : toPaho'[i] = toPaho[i]
  BY <1>1, LogAppend
<1>3. ASSUME NEW p \in 0 .. GwRingSize - 1, old.slot[p] # NoKey
      PROVE  /\ old.slot[p] = gwRing.slot[p]
             /\ ~(m.kind = "connect" /\ gwRing.slot[p].src = m.src)
  BY <1>1, <1>3 DEF GwRingFor, RingClear, RingType
<1>4. /\ gwRing'.slot = [old.slot EXCEPT ![old.head] = Key(m)]
      /\ old.slot \in [0 .. GwRingSize - 1 -> Keys \cup {NoKey}]
  BY <1>1 DEF RingAdd, RingType
<1> HIDE DEF old
<1> SUFFICES ASSUME NEW p \in 0 .. GwRingSize - 1, gwRing'.slot[p] # NoKey
             PROVE  \E i \in 1 .. L + 1 :
                      Key(toPaho'[i]) = gwRing'.slot[p] /\ ~Forgotten(toPaho', i)
  BY <1>2 DEF RingKnown
<1>5. CASE p = old.head
  <2>1. ~Forgotten(toPaho', L + 1)
    BY <1>1, <1>2 DEF Forgotten
  <2>2. L + 1 \in 1 .. L + 1 /\ Key(toPaho'[L + 1]) = gwRing'.slot[p]
    BY <1>1, <1>2, <1>4, <1>5
  <2> QED BY <2>1, <2>2
<1>6. CASE p # old.head
  <2>1. /\ gwRing'.slot[p] = gwRing.slot[p] /\ gwRing.slot[p] # NoKey
        /\ ~(m.kind = "connect" /\ gwRing.slot[p].src = m.src)
    BY <1>3, <1>4, <1>6
  <2>2. PICK i \in 1 .. L : Key(toPaho[i]) = gwRing.slot[p] /\ ~Forgotten(toPaho, i)
    BY <2>1 DEF RingKnown
  <2>3. toPaho[i].src = gwRing.slot[p].src /\ toPaho'[i] = toPaho[i] /\ i \in 1 .. L + 1
    BY <1>1, <1>2, <2>2 DEF Key
  <2>4. ASSUME NEW c \in i + 1 .. L + 1, toPaho'[c].kind = "connect",
               toPaho'[c].src = toPaho'[i].src
        PROVE  FALSE
    <3>1. CASE c = L + 1
      BY <1>2, <2>1, <2>3, <2>4, <3>1
    <3>2. CASE c # L + 1
      <4>1. c \in 1 .. L /\ c \in i + 1 .. L
        BY <1>1, <3>2
      <4> QED BY <1>2, <2>2, <2>3, <2>4, <4>1 DEF Forgotten
    <3> QED BY <3>1, <3>2
  <2>5. ~Forgotten(toPaho', i)
    BY <1>2, <2>4 DEF Forgotten
  <2> QED BY <2>1, <2>2, <2>3, <2>5
<1> QED BY <1>5, <1>6

(* BootInv is inductive while the byte does not wrap.                      *)
LEMMA BootInvInit == Init => BootInv
<1> SUFFICES ASSUME Init PROVE BootInv
  OBVIOUS
<1>1. CurrentBoots
  BY DEF Init, CurrentBoots, Carried
<1>2. Numbered
  BY DEF Init, Numbered, Station
<1>3. BootOrder
  BY DEF Init, BootOrder
<1>4. RingKnown
  BY DEF Init, RingKnown, EmptyRing
<1> QED BY <1>1, <1>2, <1>3, <1>4, SentInvInit DEF BootInv

LEMMA BootInvStep ==
  ASSUME MaxUp < SeqMod PROVE BootInv /\ [Next]_vars => BootInv'
<1> SUFFICES ASSUME BootInv, [Next]_vars PROVE BootInv'
  OBVIOUS
<1>1. SentInv' /\ CurrentBoots' /\ Numbered'
  BY SentInvStep, CurrentBootsStep, NumberedStep DEF BootInv
<1>2. TypeOK /\ sent \subseteq sent'
  BY SentGrows DEF BootInv, SentInv
<1>3. CASE UNCHANGED <<gwRing, toPaho>>
  <2>1. BootOrder'
    BY <1>2, <1>3 DEF BootInv, BootOrder
  <2>2. RingKnown'
    BY <1>3 DEF BootInv, RingKnown, Forgotten
  <2> QED BY <1>1, <2>1, <2>2 DEF BootInv
<1>4. CASE GatewayReceive /\ Handed(rx[Gateway].msg)
  <2>1. rx[Gateway].msg \in Message
    BY <1>2, <1>4, FrameFields DEF TypeOK, GatewayReceive, Station
  <2> QED BY <1>1, <1>2, <1>4, <2>1, HandedOrder, HandedKnown DEF BootInv
<1>5. CASE GatewayReceive /\ UNCHANGED gwVars
  BY <1>3, <1>5 DEF gwVars
<1> QED BY <1>3, <1>4, <1>5, GatewayOnly, GatewayReceiveCases

(* A message of the present boot whose key the cache holds, and whose      *)
(* sender's CONNECT of that boot was handed over, is in the hand-over.     *)
LEMMA SeenIsCopy ==
  ASSUME BootInv, NEW m \in Message, Carried(m), m.dst = Gateway,
         RingSeen(GwRingSize, GwRingFor(m), Key(m)), BootKnown(m)
  PROVE  \E i \in DOMAIN toPaho : toPaho[i] = m
<1>1. /\ toPaho \in Seq(Message) /\ Len(toPaho) \in Nat
      /\ DOMAIN toPaho = 1 .. Len(toPaho) /\ Key(m) # NoKey
  BY DEF BootInv, SentInv, TypeOK, Message, Key, NoKey, Seqs
<1>2. PICK p \in 0 .. GwRingSize - 1 : gwRing.slot[p] = Key(m)
  BY <1>1 DEF RingSeen, GwRingFor, RingClear
<1>3. PICK i \in 1 .. Len(toPaho) : Key(toPaho[i]) = Key(m) /\ ~Forgotten(toPaho, i)
  BY <1>1, <1>2 DEF BootInv, RingKnown
<1>4. PICK c \in 1 .. Len(toPaho) :
        toPaho[c].kind = "connect" /\ toPaho[c].src = m.src /\ toPaho[c].boot = m.boot
  BY <1>1 DEF BootKnown
<1>5. toPaho[i].src = m.src /\ toPaho[i].seq = m.seq
  BY <1>3 DEF Key
<1>6. c <= i
  BY <1>3, <1>4, <1>5 DEF Forgotten
<1>7. /\ m \in sent /\ m.src \in Node /\ m.boot = boots[m.src]
      /\ toPaho[i] \in sent
  BY <1>3, CarriedSent DEF BootInv, CurrentBoots, BootOrder
<1>8. toPaho[c].boot <= toPaho[i].boot /\ toPaho[i].boot <= boots[m.src]
  <2>1. c = i \/ c < i
    BY <1>6
  <2>2. NumbersOf(toPaho[i])
    BY <1>7 DEF BootInv, Numbered
  <2>3. toPaho[i].boot <= boots[m.src]
    BY <1>5, <2>2 DEF NumbersOf
  <2>4. toPaho[c].boot \in Nat
    <3>1. toPaho[c] \in Message
      BY <1>1
    <3> QED BY <3>1 DEF Message
  <2>5. toPaho[c].boot <= toPaho[i].boot
    <3>1. CASE c = i
      BY <2>4, <3>1
    <3>2. CASE c < i
      BY <1>4, <1>5, <3>2 DEF BootInv, BootOrder
    <3> QED BY <2>1, <3>1, <3>2
  <2> QED BY <2>3, <2>5
<1>9. toPaho[i].boot = boots[m.src]
  <2>1. toPaho[i].boot \in Nat /\ boots[m.src] \in Nat
    BY <1>1, <1>3, <1>7 DEF BootInv, SentInv, TypeOK, Message
  <2> QED BY <1>4, <1>7, <1>8, <2>1
<1>10. toPaho[i].id = m.id
  <2>1. /\ toPaho[i].id \in Nat /\ m.id \in Nat /\ m.seq \in Nat
        /\ seq[m.src] \in Nat /\ origin[m.src] \in Nat
    BY <1>1, <1>3, <1>7 DEF BootInv, SentInv, TypeOK, Message, Seqs, Station
  <2>2. /\ origin[m.src] - m.id = seq[m.src] - m.seq
        /\ origin[m.src] - toPaho[i].id = seq[m.src] - m.seq
    BY <1>5, <1>7, <1>9 DEF BootInv, Numbered, NumbersOf
  <2> QED BY <2>1, <2>2
<1> QED BY <1>1, <1>5, <1>7, <1>10 DEF BootInv, Numbered

(* For every topology and cache size, as long as no endpoint originates as *)
(* many messages as a sequence number can tell apart: what the gateway's   *)
(* duplicate check drops has been handed to Paho before, except data of a  *)
(* node whose CONNECT of its present boot the gateway has not got.         *)
THEOREM GatewayDropsOnlyCopiesHolds ==
  ASSUME MaxUp < SeqMod PROVE Spec => []GatewayDropsOnlyCopies
<1>1. BootInv => GatewayDropsOnlyCopies
  <2> SUFFICES ASSUME BootInv, rx[Gateway] # None,
                      RingSeen(GwRingSize, GwRingFor(rx[Gateway].msg), Key(rx[Gateway].msg))
               PROVE  \/ \E i \in DOMAIN toPaho : toPaho[i] = rx[Gateway].msg
                      \/ rx[Gateway].msg.kind # "connect" /\ ~BootKnown(rx[Gateway].msg)
    BY DEF GatewayDropsOnlyCopies
  <2> DEFINE m == rx[Gateway].msg
  <2>1. m \in Message /\ Carried(m) /\ m.dst = Gateway
    BY FrameFields DEF BootInv, SentInv, UplinksSent, Station, TypeOK, Carried
  <2>2. m.kind # "connect"
    <3> SUFFICES ASSUME m.kind = "connect" PROVE FALSE
      OBVIOUS
    <3>1. Key(m) # NoKey /\ Key(m).src = m.src
      BY <2>1 DEF Message, Key, NoKey, Seqs
    <3>2. RingSeen(GwRingSize, RingClear(GwRingSize, gwRing, m.src), Key(m))
      BY DEF GwRingFor
    <3> HIDE DEF m
    <3> QED BY <3>1, <3>2 DEF RingSeen, RingClear
  <2> HIDE DEF m
  <2>3. RingSeen(GwRingSize, GwRingFor(m), Key(m))
    BY DEF m
  <2>4. BootKnown(m) => \E i \in DOMAIN toPaho : toPaho[i] = m
    BY <2>1, <2>3, SeenIsCopy
  <2> QED BY <2>2, <2>4 DEF m
<1> QED BY <1>1, BootInvInit, BootInvStep, PTL DEF Spec
==============================================================================

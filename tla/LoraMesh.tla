------------------------------- MODULE LoraMesh -------------------------------
(***************************************************************************)
(* The LoRa mesh under MQTT-SN: endpoints that originate uplink frames,    *)
(* relay-only nodes that forward for everyone, and the mesh side of the    *)
(* gateway, which hands uplinks to the Paho MQTT-SN gateway and wraps its  *)
(* answers as downlinks.                                                   *)
(*                                                                         *)
(* A station has room for one received frame (the radio driver's buffer)   *)
(* and is single threaded: a relay that is delaying before a transmission  *)
(* (random delay, listen-before-talk) handles nothing else meanwhile, so a *)
(* reception and the transmission it causes are two steps.  A transmission *)
(* reaches an arbitrary set of the stations able to hear it.               *)
(*                                                                         *)
(* Ghost data: a message carries id (unique per origin) and boot, and      *)
(* sent, toPaho and added record history; no guard of the code reads them. *)
(***************************************************************************)
EXTENDS Integers, Sequences, FiniteSets, DedupRing

CONSTANTS
  Endpoint,      \* nodes with MY_NODE_ROLE = NODE_ROLE_ENDPOINT
  Relay,         \* nodes with MY_NODE_ROLE = NODE_ROLE_RELAY (relay only)
  Gateway,       \* MESH_ADDR_GATEWAY
  Broadcast,     \* RH_BROADCAST_ADDRESS
  Routing,       \* MESH_MODE = MESH_MODE_ROUTING, else MESH_MODE_FLOODING
  NodeNextHop,   \* [Endpoint \cup Relay -> [Endpoint \cup {Gateway} -> station]]
  GwNextHop,     \* [Endpoint -> station]
  OutOfRange,    \* nodes whose direct frames the gateway ignores
  TTLDefault,    \* MESH_TTL_DEFAULT
  SeqMod,        \* 256: sequence numbers are uint8_t
  NodeRingSize,  \* MESH_DEDUP_CACHE_SIZE of the node firmware
  GwRingSize,    \* GW_DEDUP_SIZE
  DownKind,      \* kinds of downlink Paho may answer with
  MaxUp,         \* bound: uplinks originated per endpoint
  MaxDown,       \* bound: downlinks staged by the gateway
  MaxBoot,       \* bound: reboots per node
  None

Node    == Endpoint \cup Relay
Station == Node \cup {Gateway}

ASSUME MeshAssumption ==
  /\ Endpoint \cap Relay = {}
  /\ Gateway \notin Node
  /\ Broadcast \notin Station
  /\ Routing \in BOOLEAN
  /\ NodeNextHop \in [Node -> [Endpoint \cup {Gateway} -> Station]]
  /\ GwNextHop \in [Endpoint -> Station]
  /\ OutOfRange \subseteq Node
  /\ TTLDefault \in Nat
  /\ SeqMod \in Nat \ {0}
  /\ NodeRingSize \in Nat \ {0}
  /\ GwRingSize \in Nat \ {0}
  /\ DownKind \subseteq {"connack", "data", "long"}
  /\ MaxUp \in Nat /\ MaxDown \in Nat /\ MaxBoot \in Nat

Kind == {"connect", "connack", "data", "long"}
Seqs == 0 .. SeqMod - 1
Keys == [src : Station, seq : Seqs]

Message == [src : Station, dst : Endpoint \cup {Gateway}, seq : Seqs,
            kind : Kind, id : Nat, boot : Nat]
Downlink == {m \in Message : m.src = Gateway /\ m.dst \in Endpoint}
(* A frame: the mesh message, its TTL, and the RadioHead TO header.        *)
Frame == [msg : Message, ttl : 0 .. TTLDefault, to : Station \cup {Broadcast}]

ASSUME NoneAssumption == None \notin Frame

Key(m) == [src |-> m.src, seq |-> m.seq]

VARIABLES
  rx,       \* [Station -> frame in the radio's receive buffer, or None]
  tx,       \* [Node -> frame about to be transmitted, or None]
  seq,      \* [Node -> s_seq_num]
  ring,     \* [Node -> s_dedup]
  session,  \* [Endpoint -> "down", "connecting", "up"]: the application
  client,   \* [Endpoint -> active, dn_seq]: the gateway's client table
  gwRing,   \* gw_dedup
  staged,   \* downlinks read from Paho, waiting for the radio
  origin,   \* ghost [Station -> number of messages originated]
  boots,    \* ghost [Node -> number of reboots]
  sent,     \* ghost: uplink messages originated
  toPaho,   \* ghost: uplink messages handed to Paho, in order
  added     \* ghost [Node -> messages last entered in s_dedup since boot]

nodeVars == <<seq, ring, session, boots, added>>
gwVars   == <<client, gwRing, staged, toPaho>>
vars     == <<rx, tx, nodeVars, gwVars, origin, sent>>

Init ==
  /\ rx = [s \in Station |-> None]
  /\ tx = [n \in Node |-> None]
  /\ seq = [n \in Node |-> 0]
  /\ ring = [n \in Node |-> EmptyRing(NodeRingSize)]
  /\ session = [n \in Endpoint |-> "down"]
  /\ client = [n \in Endpoint |-> [active |-> FALSE, dnSeq |-> 0]]
  /\ gwRing = EmptyRing(GwRingSize)
  /\ staged = <<>>
  /\ origin = [s \in Station |-> 0]
  /\ boots = [n \in Node |-> 0]
  /\ sent = {}
  /\ toPaho = <<>>
  /\ added = [n \in Node |-> <<>>]

(***************************************************************************)
(* The radio.                                                              *)
(***************************************************************************)

(* Which stations take a frame further than their receive buffer.  Every   *)
(* relay does.  An endpoint discards what is not for it, and in routing    *)
(* mode its radio (setPromiscuous false) what is not addressed to it.  The *)
(* gateway discards what is not for it, and what comes straight from a     *)
(* node that the range simulation puts out of reach.  A discard changes    *)
(* nothing, so the model lets such a station not hear the frame at all.    *)
Accepts(s, f) ==
  /\ s \in Endpoint =>
       f.msg.dst = s /\ (Routing => f.to \in {s, Broadcast})
  /\ s = Gateway =>
       f.msg.dst = Gateway /\ ~(f.msg.src \in OutOfRange /\ f.ttl = TTLDefault)

(* radio_tx sets the TO header in routing mode and broadcasts otherwise.   *)
HeaderTo(n, dst) == IF Routing THEN NodeNextHop[n][dst] ELSE Broadcast

(* f leaves station s and is received by the stations of heard.  A frame   *)
(* that overwrites an unread one is a case of the unread one being lost.   *)
OnAir(s, f, heard) ==
  /\ \A h \in heard : h # s /\ rx[h] = None /\ Accepts(h, f)
  /\ rx' = [x \in Station |-> IF x \in heard THEN f ELSE rx[x]]

(* The end of radio_tx: the frame that a node prepared goes on the air.    *)
Transmit(n) ==
  /\ tx[n] # None
  /\ \E heard \in SUBSET Station : OnAir(n, tx[n], heard)
  /\ tx' = [tx EXCEPT ![n] = None]
  /\ UNCHANGED <<nodeVars, gwVars, origin, sent>>

(* The history of a cache: as many messages as it holds, and one more.     *)
Remember(log, m) ==
  IF Len(log) <= NodeRingSize THEN Append(log, m) ELSE Append(Tail(log), m)

(***************************************************************************)
(* Endpoints.                                                              *)
(***************************************************************************)

(* The copies of n's messages that some station holds.  CONNECT_TIMEOUT_MS *)
(* and the boot time are longer than a relay holds a frame, so a node that *)
(* connects again or has just booted has none left in the mesh.            *)
Held == {rx[s] : s \in Station} \cup {tx[n] : n \in Node}
Settled(n) == \A f \in Held \ {None} : f.msg.src # n

(* mqttsn_transport_send: number the message, remember it as one's own and *)
(* prepare the frame.  The application connects before it sends data.      *)
Send(n, kind) ==
  /\ tx[n] = None
  /\ origin[n] < MaxUp
  /\ IF kind = "connect" THEN Settled(n) ELSE session[n] = "up"
  /\ LET s == (seq[n] + 1) % SeqMod
         m == [src |-> n, dst |-> Gateway, seq |-> s, kind |-> kind,
               id |-> origin[n] + 1, boot |-> boots[n]]
     IN  /\ seq' = [seq EXCEPT ![n] = s]
         /\ ring' = [ring EXCEPT ![n] = RingAdd(NodeRingSize, @, Key(m))]
         /\ added' = [added EXCEPT ![n] = Remember(@, m)]
         /\ tx' = [tx EXCEPT ![n] =
                     [msg |-> m, ttl |-> TTLDefault, to |-> HeaderTo(n, Gateway)]]
         /\ sent' = sent \cup {m}
  /\ origin' = [origin EXCEPT ![n] = @ + 1]
  /\ session' = IF kind = "connect" THEN [session EXCEPT ![n] = "connecting"]
                                    ELSE session
  /\ UNCHANGED <<rx, boots, gwVars>>

(* mqttsn_transport_recv on a node without the relay code: a message for   *)
(* this node that fits the caller's buffer is remembered and handed up; a  *)
(* long one is dropped and not remembered.                                 *)
EndpointReceive(n) ==
  /\ rx[n] # None /\ tx[n] = None
  /\ rx' = [rx EXCEPT ![n] = None]
  /\ LET m == rx[n].msg IN
       IF RingSeen(NodeRingSize, ring[n], Key(m)) \/ m.kind = "long"
       THEN UNCHANGED nodeVars
       ELSE /\ ring' = [ring EXCEPT ![n] = RingAdd(NodeRingSize, @, Key(m))]
            /\ added' = [added EXCEPT ![n] = Remember(@, m)]
            /\ session' = [session EXCEPT ![n] =
                             IF m.kind = "connack" /\ @ = "connecting" THEN "up" ELSE @]
            /\ UNCHANGED <<seq, boots>>
  /\ UNCHANGED <<tx, gwVars, origin, sent>>

(***************************************************************************)
(* Relays.                                                                 *)
(***************************************************************************)

(* The checks before forwarding: not seen before, and hops left.           *)
ForwardsAnyTTL(n, f) ==        \* variant: the TTL is not checked
  ~RingSeen(NodeRingSize, ring[n], Key(f.msg))

Forwards(n, f) == ~RingSeen(NodeRingSize, ring[n], Key(f.msg)) /\ f.ttl # 0

(* The cache after forwarding: the entries of the gateway are cleared "so  *)
(* repeated CONNACKs aren't dropped", then the frame is remembered.        *)
RelayRingClearAll(n, m) ==     \* variant: every entry is cleared
  RingAdd(NodeRingSize, EmptyRing(NodeRingSize), Key(m))

RelayRing(n, m) ==
  RingAdd(NodeRingSize, RingClear(NodeRingSize, ring[n], Gateway), Key(m))

(* The forwarded frame: same message, one hop less, next TO header.        *)
ForwardedKeepsAHop(n, f) ==    \* variant: if (ttl > 1) ttl--
  [msg |-> f.msg, ttl |-> IF f.ttl > 1 THEN f.ttl - 1 ELSE f.ttl,
   to |-> HeaderTo(n, f.msg.dst)]

Forwarded(n, f) ==
  [msg |-> f.msg, ttl |-> f.ttl - 1, to |-> HeaderTo(n, f.msg.dst)]

(* mqttsn_transport_recv with the relay code: whoever a frame is unicast   *)
(* to, a relay that has not seen it forwards it.                           *)
RelayReceive(n) ==
  /\ rx[n] # None /\ tx[n] = None
  /\ rx' = [rx EXCEPT ![n] = None]
  /\ IF Forwards(n, rx[n])
     THEN /\ ring' = [ring EXCEPT ![n] = RelayRing(n, rx[n].msg)]
          /\ added' = [added EXCEPT ![n] = Remember(@, rx[n].msg)]
          /\ tx' = [tx EXCEPT ![n] = Forwarded(n, rx[n])]
     ELSE UNCHANGED <<tx, ring, added>>
  /\ UNCHANGED <<seq, session, boots, gwVars, origin, sent>>

(* A power cycle: mqttsn_transport_init starts the numbering over with an  *)
(* empty cache, and the application starts in STATE_INIT.  Downlinks for   *)
(* the node may still be under way.                                        *)
Reboot(n) ==
  /\ boots[n] < MaxBoot
  /\ Settled(n)
  /\ boots' = [boots EXCEPT ![n] = @ + 1]
  /\ seq' = [seq EXCEPT ![n] = 0]
  /\ ring' = [ring EXCEPT ![n] = EmptyRing(NodeRingSize)]
  /\ added' = [added EXCEPT ![n] = <<>>]
  /\ session' = [e \in Endpoint |-> IF e = n THEN "down" ELSE session[e]]
  /\ rx' = [rx EXCEPT ![n] = None]
  /\ tx' = [tx EXCEPT ![n] = None]
  /\ UNCHANGED <<gwVars, origin, sent>>

(***************************************************************************)
(* The gateway.                                                            *)
(***************************************************************************)

(* A CONNECT clears its sender's entries before the dedup check.           *)
GwRingForAny(m) ==             \* variant: every message clears
  RingClear(GwRingSize, gwRing, m.src)

GwRingForNone(m) ==            \* variant: a CONNECT clears nothing
  gwRing

GwRingFor(m) ==
  IF m.kind = "connect" THEN RingClear(GwRingSize, gwRing, m.src) ELSE gwRing

(* on_rx_done; get_or_create_client restarts the downlink numbering for a  *)
(* CONNECT and creates missing entries.                                    *)
GatewayReceive ==
  /\ rx[Gateway] # None
  /\ rx' = [rx EXCEPT ![Gateway] = None]
  /\ LET m == rx[Gateway].msg IN
       IF RingSeen(GwRingSize, GwRingFor(m), Key(m))
       THEN UNCHANGED gwVars
       ELSE /\ gwRing' = RingAdd(GwRingSize, GwRingFor(m), Key(m))
            /\ client' = [client EXCEPT ![m.src] =
                 [active |-> TRUE,
                  dnSeq |-> IF m.kind = "connect" THEN 0 ELSE @.dnSeq]]
            /\ toPaho' = Append(toPaho, m)
            /\ UNCHANGED staged
  /\ UNCHANGED <<tx, nodeVars, origin, sent>>

(* Paho sends a CONNACK only to a client whose CONNECT it was handed.      *)
PahoMaySend(n, kind) ==
  kind = "connack" =>
    \E i \in DOMAIN toPaho : toPaho[i].src = n /\ toPaho[i].kind = "connect"

(* downstream_thread reads an answer of Paho from a client's socket and    *)
(* numbers it with that client's dn_seq.                                   *)
Stage(n, kind) ==
  /\ client[n].active
  /\ PahoMaySend(n, kind)
  /\ origin[Gateway] < MaxDown
  /\ LET m == [src |-> Gateway, dst |-> n, seq |-> client[n].dnSeq, kind |-> kind,
               id |-> origin[Gateway] + 1, boot |-> 0]
     IN  staged' = Append(staged, m)
  /\ client' = [client EXCEPT ![n].dnSeq = (@ + 1) % SeqMod]
  /\ origin' = [origin EXCEPT ![Gateway] = @ + 1]
  /\ UNCHANGED <<rx, tx, nodeVars, gwRing, toPaho, sent>>

(* lora_send: the frame goes to the next hop; an uplink that the radio has *)
(* received and main has not read yet is lost with the cleared IRQ status. *)
GatewayTransmit ==
  /\ staged # <<>>
  /\ LET m == Head(staged)
         f == [msg |-> m, ttl |-> TTLDefault, to |-> GwNextHop[m.dst]]
     IN  \E heard \in SUBSET Node :
           /\ \A h \in heard : rx[h] = None /\ Accepts(h, f)
           /\ rx' = [x \in Station |-> IF x \in heard THEN f
                                       ELSE IF x = Gateway THEN None ELSE rx[x]]
  /\ staged' = Tail(staged)
  /\ UNCHANGED <<tx, nodeVars, client, gwRing, toPaho, origin, sent>>

(* expire_clients: an idle client's entry is zeroed.                       *)
Expire(n) ==
  /\ client[n].active
  /\ client' = [client EXCEPT ![n] = [active |-> FALSE, dnSeq |-> 0]]
  /\ UNCHANGED <<rx, tx, nodeVars, gwRing, staged, toPaho, origin, sent>>

Next ==
  \/ \E n \in Node : Transmit(n) \/ Reboot(n)
  \/ \E n \in Endpoint, k \in {"connect", "data"} : Send(n, k)
  \/ \E n \in Endpoint : EndpointReceive(n) \/ Expire(n)
  \/ \E n \in Relay : RelayReceive(n)
  \/ \E n \in Endpoint, k \in DownKind : Stage(n, k)
  \/ GatewayReceive
  \/ GatewayTransmit

Spec == Init /\ [][Next]_vars

(* Every station's loop keeps running; the application, Paho, reboots and  *)
(* expiry are the environment and owe nothing.                             *)
Fairness ==
  /\ \A n \in Node : WF_vars(Transmit(n))
  /\ \A n \in Endpoint : WF_vars(EndpointReceive(n))
  /\ \A n \in Relay : WF_vars(RelayReceive(n))
  /\ WF_vars(GatewayReceive)
  /\ WF_vars(GatewayTransmit)

FairSpec == Spec /\ Fairness

------------------------------------------------------------------------------
(***************************************************************************)
(* Properties.                                                             *)
(***************************************************************************)

(* Type correctness of the mesh: in particular a TTL stays within          *)
(* 0 .. TTLDefault and a sequence number within its byte.                  *)
TypeOK ==
  /\ rx \in [Station -> Frame \cup {None}]
  /\ tx \in [Node -> Frame \cup {None}]
  /\ seq \in [Node -> Seqs]
  /\ ring \in [Node -> RingType(NodeRingSize, Keys)]
  /\ session \in [Endpoint -> {"down", "connecting", "up"}]
  /\ client \in [Endpoint -> [active : BOOLEAN, dnSeq : Seqs]]
  /\ gwRing \in RingType(GwRingSize, Keys)
  /\ staged \in Seq(Downlink)
  /\ origin \in [Station -> Nat]
  /\ boots \in [Node -> Nat]
  /\ sent \in SUBSET Message
  /\ toPaho \in Seq(Message)
  /\ added \in [Node -> Seq(Message)]

(* A CONNECT of the sender of log[j], handed over after log[i].            *)
ConnectAfter(log, i, j) ==
  \E c \in i + 1 .. j : log[c].kind = "connect" /\ log[c].src = log[j].src

(* The gateway's cache (gw_dedup): the same (SRC_ID, SEQ_NUM) is handed to *)
(* Paho a second time only after at least GW_DEDUP_SIZE other uplinks, or  *)
(* when its sender's CONNECT cleared the cache in between, whatever the    *)
(* relays duplicate, delay and reorder.                                    *)
GatewayWindow ==
  \A i, j \in DOMAIN toPaho :
    i < j /\ Key(toPaho[i]) = Key(toPaho[j]) =>
      j - i > GwRingSize \/ ConnectAfter(toPaho, i, j)

(* A relay's cache (s_dedup): a relay forwards the same (SRC_ID, SEQ_NUM)  *)
(* again only when MESH_DEDUP_CACHE_SIZE other forwards or more lie in     *)
(* between, except a downlink, which a single one makes it forget.         *)
RelayWindow ==
  \A n \in Relay : \A i, j \in DOMAIN added[n] :
    i < j /\ Key(added[n][i]) = Key(added[n][j]) =>
      j - i > NodeRingSize \/ (added[n][j].src = Gateway /\ j - i > 1)

(* An endpoint's cache: the same downlink (SRC_ID, SEQ_NUM) reaches its    *)
(* MQTT-SN layer again only when MESH_DEDUP_CACHE_SIZE other receptions    *)
(* and transmissions of that node, or more, lie in between.                *)
EndpointWindow ==
  \A n \in Endpoint : \A i, j \in DOMAIN added[n] :
    i < j /\ added[n][j].dst = n /\ Key(added[n][i]) = Key(added[n][j]) =>
      j - i > NodeRingSize

(* The gateway's duplicate check discards only real copies, although       *)
(* sequence numbers restart when a node reboots: an uplink it drops has    *)
(* been handed to Paho before.  The exception is data of a node that took  *)
(* an old CONNACK for the answer to the CONNECT of its present boot, which *)
(* the gateway has not got.                                                *)
BootKnown(m) ==
  \E i \in DOMAIN toPaho :
    toPaho[i].kind = "connect" /\ toPaho[i].src = m.src /\ toPaho[i].boot = m.boot

GatewayDropsOnlyCopies ==
  LET m == rx[Gateway].msg IN
    rx[Gateway] # None /\ RingSeen(GwRingSize, GwRingFor(m), Key(m)) =>
      \/ \E i \in DOMAIN toPaho : toPaho[i] = m
      \/ m.kind # "connect" /\ ~BootKnown(m)

(* Nothing circulates for ever: TTL ends every flood even when the caches  *)
(* are too small to recognise the frames in flight.                        *)
NothingInFlight == Held = {None} /\ staged = <<>>
FloodDies == <>[]NothingInFlight

(* What the uplink path promises: see UplinkChannel.                       *)
Uplink == INSTANCE UplinkChannel WITH Window <- GwRingSize
ImplementsUplink == Uplink!Spec

(***************************************************************************)
(* What the documentation says and the code does not do.                   *)
(***************************************************************************)

(* mesh_protocol.h:16 "Per-source counter. Relays use (SRC_ID, SEQ_NUM)    *)
(* for dedup": what a relay discards as a duplicate it has forwarded.      *)
RelayDropsOnlyCopies ==
  \A n \in Relay :
    rx[n] # None /\ RingSeen(NodeRingSize, ring[n], Key(rx[n].msg)) =>
      \E i \in DOMAIN added[n] : added[n][i] = rx[n].msg

(* mqttsn_transport_lora.cpp:492 "so repeated CONNACKs aren't dropped":    *)
(* a CONNACK an endpoint discards as a duplicate it has received before.   *)
RepeatedConnackNotDropped ==
  \A n \in Endpoint :
    /\ rx[n] # None
    /\ rx[n].msg.kind = "connack" /\ rx[n].msg.dst = n
    /\ RingSeen(NodeRingSize, ring[n], Key(rx[n].msg))
    => \E i \in DOMAIN added[n] : added[n][i] = rx[n].msg
==============================================================================

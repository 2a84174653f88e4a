-------------------------- MODULE ClientReady_proofs ---------------------------
(***************************************************************************)
(* Proof that a READY Arduino is registered.  What it rests on is the      *)
(* order of the packets: an answer of an old session does not overtake     *)
(* the CONNACK that wipes the client's table, and a request for the new    *)
(* session does not overtake its CONNECT.                                  *)
(***************************************************************************)
EXTENDS ClientCommands_proofs

(***************************************************************************)
(* Every B has an A before it.                                             *)
(***************************************************************************)
Led(k, A, B) == \A j \in DOMAIN k : k[j] \in B => \E i \in 1 .. j - 1 : k[i] \in A

(* On a way of three queues, front first.                                  *)
Leads(f, m, b, A, B) ==
  /\ Led(f, A, B)
  /\ Has(f, A) \/ Led(m, A, B)
  /\ Has(f, A) \/ Has(m, A) \/ Led(b, A, B)

LEMMA LedEmpty == \A A, B : Led(<<>>, A, B) /\ ~Has(<<>>, A)
BY DEF Led, Has

LEMMA LedTail ==
  ASSUME NEW T, NEW k \in Seq(T), k # <<>>, NEW A, NEW B
  PROVE  /\ Led(k, A, B) <=> Head(k) \notin B /\ (Head(k) \in A \/ Led(Tail(k), A, B))
         /\ Has(k, A) <=> Head(k) \in A \/ Has(Tail(k), A)
         /\ Tail(k) \in Seq(T) /\ Head(k) \in T
<1> DEFINE n == Len(k) - 1
           l == Tail(k)
<1>1. /\ n \in Nat /\ Len(k) = n + 1 /\ DOMAIN k = 1 .. n + 1 /\ Head(k) = k[1]
      /\ l \in Seq(T) /\ DOMAIN l = 1 .. n /\ \A i \in 1 .. n : l[i] = k[i + 1]
  OBVIOUS
<1>2. Has(k, A) <=> Head(k) \in A \/ Has(l, A)
  BY TailKinds
<1> HIDE DEF n, l
<1>3. ASSUME Led(k, A, B) PROVE Head(k) \notin B
  <2>1. 1 \in DOMAIN k /\ 1 .. 1 - 1 = {}
    BY <1>1
  <2> QED BY <1>1, <1>3, <2>1 DEF Led
<1>4. ASSUME Led(k, A, B), Head(k) \notin A PROVE Led(l, A, B)
  <2> SUFFICES ASSUME NEW j \in 1 .. n, l[j] \in B PROVE \E i \in 1 .. j - 1 : l[i] \in A
    BY <1>1 DEF Led
  <2>1. j + 1 \in DOMAIN k /\ k[j + 1] \in B
    BY <1>1
  <2>2. PICK i \in 1 .. j + 1 - 1 : k[i] \in A
    BY <1>4, <2>1 DEF Led
  <2>3. i # 1
    BY <1>1, <1>4, <2>2
  <2>4. i - 1 \in 1 .. j - 1 /\ i - 1 \in 1 .. n /\ (i - 1) + 1 = i
    BY <1>1, <2>2, <2>3
  <2>5. l[i - 1] = k[i]
    BY <1>1, <2>4
  <2> QED BY <2>2, <2>4, <2>5
<1>5. ASSUME Head(k) \notin B, Head(k) \in A \/ Led(l, A, B) PROVE Led(k, A, B)
  <2> SUFFICES ASSUME NEW j \in 1 .. n + 1, k[j] \in B PROVE \E i \in 1 .. j - 1 : k[i] \in A
    BY <1>1 DEF Led
  <2>1. j # 1
    BY <1>1, <1>5
  <2>2. j - 1 \in 1 .. n /\ (j - 1) + 1 = j /\ 1 \in 1 .. j - 1
    BY <1>1, <2>1
  <2>3. CASE Head(k) \in A
    BY <1>1, <2>2, <2>3
  <2>4. CASE Led(l, A, B)
    <3>1. l[j - 1] = k[j]
      BY <1>1, <2>2
    <3>2. j - 1 \in DOMAIN l /\ l[j - 1] \in B
      BY <1>1, <2>2, <3>1
    <3>3. PICK i \in 1 .. j - 1 - 1 : l[i] \in A
      BY <2>4, <3>2 DEF Led
    <3>4. i \in 1 .. n /\ i + 1 \in 1 .. j - 1
      BY <1>1, <2>2, <3>3
    <3>5. k[i + 1] = l[i]
      BY <1>1, <3>4
    <3> QED BY <3>3, <3>4, <3>5
  <2> QED BY <1>5, <2>3, <2>4
<1> QED BY <1>1, <1>2, <1>3, <1>4, <1>5 DEF l

LEMMA LedAdded ==
  ASSUME NEW T, NEW k \in Seq(T), NEW x \in T, NEW A, NEW B
  PROVE  /\ Led(Append(k, x), A, B) <=> Led(k, A, B) /\ (Has(k, A) \/ x \notin B)
         /\ Has(Append(k, x), A) <=> Has(k, A) \/ x \in A
         /\ Append(k, x) \in Seq(T)
<1> DEFINE n == Len(k)
           l == Append(k, x)
<1>1. /\ n \in Nat /\ DOMAIN k = 1 .. n /\ l \in Seq(T) /\ DOMAIN l = 1 .. n + 1
      /\ l[n + 1] = x /\ \A i \in 1 .. n : l[i] = k[i]
  OBVIOUS
<1>2. Has(l, A) <=> Has(k, A) \/ x \in A
  BY AddedKind
<1> HIDE DEF n, l
<1>3. ASSUME Led(l, A, B) PROVE Led(k, A, B)
  <2> SUFFICES ASSUME NEW j \in 1 .. n, k[j] \in B PROVE \E i \in 1 .. j - 1 : k[i] \in A
    BY <1>1 DEF Led
  <2>1. j \in DOMAIN l /\ l[j] \in B
    BY <1>1
  <2>2. PICK i \in 1 .. j - 1 : l[i] \in A
    BY <1>3, <2>1 DEF Led
  <2>3. i \in 1 .. n
    BY <1>1, <2>2
  <2> QED BY <1>1, <2>2, <2>3
<1>4. ASSUME Led(l, A, B), x \in B PROVE Has(k, A)
  <2>1. n + 1 \in DOMAIN l /\ l[n + 1] \in B
    BY <1>1, <1>4
  <2> DEFINE j == n + 1
  <2>a. \E i \in 1 .. j - 1 : l[i] \in A
    <3>1. j \in DOMAIN l /\ l[j] \in B
      BY <2>1
    <3> HIDE DEF j
    <3> QED BY <1>4, <3>1 DEF Led
  <2>2. PICK i \in 1 .. j - 1 : l[i] \in A
    BY <2>a
  <2>3. i \in 1 .. n
    BY <1>1, <2>2
  <2> QED BY <1>1, <2>2, <2>3 DEF Has
<1>5. ASSUME Led(k, A, B), Has(k, A) \/ x \notin B PROVE Led(l, A, B)
  <2> SUFFICES ASSUME NEW j \in 1 .. n + 1, l[j] \in B PROVE \E i \in 1 .. j - 1 : l[i] \in A
    BY <1>1 DEF Led
  <2>1. CASE j = n + 1
    <3>1. Has(k, A)
      BY <1>1, <1>5, <2>1
    <3>2. PICK i \in 1 .. n : k[i] \in A
      BY <1>1, <3>1 DEF Has
    <3>3. i \in 1 .. j - 1 /\ l[i] = k[i]
      BY <1>1, <2>1
    <3> QED BY <3>2, <3>3
  <2>2. CASE j # n + 1
    <3>1. j \in 1 .. n
      BY <1>1, <2>2
    <3>2. j \in DOMAIN k /\ k[j] \in B
      BY <1>1, <3>1
    <3>3. PICK i \in 1 .. j - 1 : k[i] \in A
      BY <1>5, <3>2 DEF Led
    <3>4. i \in 1 .. n
      BY <1>1, <3>1, <3>3
    <3> QED BY <1>1, <3>3, <3>4
  <2> QED BY <2>1, <2>2
<1> QED BY <1>1, <1>2, <1>3, <1>4, <1>5 DEF l

(***************************************************************************)
(* What a step does to such a way: every B still has an A before it, and   *)
(* an A is still under way, or still none is.                              *)
(***************************************************************************)
Level(f, m, b, f2, m2, b2, A, B) ==
  /\ Leads(f, m, b, A, B) => Leads(f2, m2, b2, A, B)
  /\ Anywhere(f2, m2, b2, A) <=> Anywhere(f, m, b, A)

LEMMA LevelItself == \A f, m, b, A, B : Level(f, m, b, f, m, b, A, B)
BY DEF Level

(* One that is no A goes away, from any place.                             *)
LEMMA LevelAway ==
  ASSUME NEW T, NEW f \in Seq(T), NEW m \in Seq(T), NEW b \in Seq(T), NEW A, NEW B
  PROVE  /\ f # <<>> /\ Head(f) \notin A => Level(f, m, b, Tail(f), m, b, A, B)
         /\ m # <<>> /\ Head(m) \notin A => Level(f, m, b, f, Tail(m), b, A, B)
         /\ b # <<>> /\ Head(b) \notin A => Level(f, m, b, f, m, Tail(b), A, B)
<1>1. ASSUME f # <<>>, Head(f) \notin A PROVE Level(f, m, b, Tail(f), m, b, A, B)
  BY <1>1, LedTail DEF Level, Leads, Anywhere
<1>2. ASSUME m # <<>>, Head(m) \notin A PROVE Level(f, m, b, f, Tail(m), b, A, B)
  BY <1>2, LedTail DEF Level, Leads, Anywhere
<1>3. ASSUME b # <<>>, Head(b) \notin A PROVE Level(f, m, b, f, m, Tail(b), A, B)
  BY <1>3, LedTail DEF Level, Leads, Anywhere
<1> QED BY <1>1, <1>2, <1>3

(* One moves on, as it is or as another that is of no account.             *)
LEMMA LevelOn ==
  ASSUME NEW T, NEW f \in Seq(T), NEW m \in Seq(T), NEW b \in Seq(T), NEW x \in T, NEW A, NEW B
  PROVE  /\ b # <<>> /\ (x = Head(b) \/ (x \notin A /\ x \notin B /\ Head(b) \notin A))
              => Level(f, m, b, f, Append(m, x), Tail(b), A, B)
         /\ m # <<>> /\ (x = Head(m) \/ (x \notin A /\ x \notin B /\ Head(m) \notin A))
              => Level(f, m, b, Append(f, x), Tail(m), b, A, B)
<1>1. ASSUME b # <<>>, x = Head(b) \/ (x \notin A /\ x \notin B /\ Head(b) \notin A)
      PROVE  Level(f, m, b, f, Append(m, x), Tail(b), A, B)
  <2>1. /\ Led(Append(m, x), A, B) <=> Led(m, A, B) /\ (Has(m, A) \/ x \notin B)
        /\ Has(Append(m, x), A) <=> Has(m, A) \/ x \in A
    BY LedAdded
  <2>2. /\ Led(b, A, B) <=> Head(b) \notin B /\ (Head(b) \in A \/ Led(Tail(b), A, B))
        /\ Has(b, A) <=> Head(b) \in A \/ Has(Tail(b), A)
    BY <1>1, LedTail
  <2> QED BY <1>1, <2>1, <2>2 DEF Level, Leads, Anywhere
<1>2. ASSUME m # <<>>, x = Head(m) \/ (x \notin A /\ x \notin B /\ Head(m) \notin A)
      PROVE  Level(f, m, b, Append(f, x), Tail(m), b, A, B)
  <2>1. /\ Led(Append(f, x), A, B) <=> Led(f, A, B) /\ (Has(f, A) \/ x \notin B)
        /\ Has(Append(f, x), A) <=> Has(f, A) \/ x \in A
    BY LedAdded
  <2>2. /\ Led(m, A, B) <=> Head(m) \notin B /\ (Head(m) \in A \/ Led(Tail(m), A, B))
        /\ Has(m, A) <=> Head(m) \in A \/ Has(Tail(m), A)
    BY <1>2, LedTail
  <2> QED BY <1>2, <2>1, <2>2 DEF Level, Leads, Anywhere
<1> QED BY <1>1, <1>2

(* One of no account comes in, anywhere, or one that has an A before it.   *)
LEMMA LevelIn ==
  ASSUME NEW T, NEW f \in Seq(T), NEW m \in Seq(T), NEW b \in Seq(T), NEW x \in T, NEW A, NEW B,
         x \notin A
  PROVE  /\ x \notin B => /\ Level(f, m, b, Append(f, x), m, b, A, B)
                          /\ Level(f, m, b, f, Append(m, x), b, A, B)
         /\ (x \in B => Anywhere(f, m, b, A))
              => Level(f, m, b, f, m, Append(b, x), A, B)
<1>1. ASSUME x \notin B
      PROVE  Level(f, m, b, Append(f, x), m, b, A, B) /\ Level(f, m, b, f, Append(m, x), b, A, B)
  BY <1>1, LedAdded DEF Level, Leads, Anywhere
<1>2. ASSUME x \in B => Anywhere(f, m, b, A)
      PROVE  Level(f, m, b, f, m, Append(b, x), A, B)
  BY <1>2, LedAdded DEF Level, Leads, Anywhere
<1> QED BY <1>1, <1>2

(***************************************************************************)
(* Every B has an A after it.                                              *)
(***************************************************************************)
Trailed(k, A, B) == \A j \in DOMAIN k : k[j] \in B => \E i \in DOMAIN k : i > j /\ k[i] \in A

LEMMA TrailedTail ==
  ASSUME NEW T, NEW k \in Seq(T), k # <<>>, NEW A, NEW B, Trailed(k, A, B)
  PROVE  Trailed(Tail(k), A, B) /\ (Head(k) \in B => Has(Tail(k), A))
<1> DEFINE n == Len(k) - 1
           l == Tail(k)
<1>1. /\ n \in Nat /\ Len(k) = n + 1 /\ DOMAIN k = 1 .. n + 1 /\ Head(k) = k[1]
      /\ DOMAIN l = 1 .. n /\ \A i \in 1 .. n : l[i] = k[i + 1]
  OBVIOUS
<1> HIDE DEF n, l
<1>2. ASSUME NEW j \in DOMAIN k, k[j] \in B PROVE \E i \in DOMAIN l : i > j - 1 /\ l[i] \in A
  <2>1. PICK i \in DOMAIN k : i > j /\ k[i] \in A
    BY <1>2 DEF Trailed
  <2>2. i - 1 \in 1 .. n /\ i - 1 > j - 1 /\ (i - 1) + 1 = i
    BY <1>1, <2>1
  <2>3. l[i - 1] = k[i]
    BY <1>1, <2>2
  <2> QED BY <1>1, <2>1, <2>2, <2>3
<1>3. Trailed(l, A, B)
  <2> SUFFICES ASSUME NEW j \in 1 .. n, l[j] \in B
               PROVE  \E i \in DOMAIN l : i > j /\ l[i] \in A
    BY <1>1 DEF Trailed
  <2>1. j + 1 \in DOMAIN k /\ k[j + 1] \in B /\ (j + 1) - 1 = j
    BY <1>1
  <2>2. \E i \in DOMAIN l : i > (j + 1) - 1 /\ l[i] \in A
    BY <1>2, <2>1
  <2> QED BY <2>1, <2>2
<1>4. Head(k) \in B => Has(l, A)
  <2>1. 1 \in DOMAIN k
    BY <1>1
  <2> QED BY <1>1, <1>2, <2>1 DEF Has
<1> QED BY <1>3, <1>4 DEF l

LEMMA TrailedAdded ==
  ASSUME NEW T, NEW k \in Seq(T), NEW x \in T, NEW A, NEW B, x \notin B
  PROVE  Trailed(k, A, B) \/ x \in A => Trailed(Append(k, x), A, B)
<1> DEFINE n == Len(k)
           l == Append(k, x)
<1>1. /\ n \in Nat /\ DOMAIN k = 1 .. n /\ DOMAIN l = 1 .. n + 1
      /\ l[n + 1] = x /\ \A i \in 1 .. n : l[i] = k[i]
  OBVIOUS
<1> HIDE DEF n, l
<1> SUFFICES ASSUME Trailed(k, A, B) \/ x \in A, NEW j \in 1 .. n + 1, l[j] \in B
             PROVE  \E i \in DOMAIN l : i > j /\ l[i] \in A
  BY <1>1 DEF Trailed, l
<1>2. j \in 1 .. n /\ l[j] = k[j] /\ n + 1 > j /\ n + 1 \in DOMAIN l
  BY <1>1
<1>3. CASE x \in A
  BY <1>1, <1>2, <1>3
<1>4. CASE Trailed(k, A, B)
  <2>1. PICK i \in DOMAIN k : i > j /\ k[i] \in A
    BY <1>1, <1>2, <1>4 DEF Trailed
  <2>2. i \in DOMAIN l /\ l[i] = k[i]
    BY <1>1
  <2> QED BY <2>1, <2>2
<1> QED BY <1>3, <1>4

(***************************************************************************)
(* A session of the broker is the client's own, as the client sees it,     *)
(* from when it has read the CONNACK until it sends another CONNECT.       *)
(***************************************************************************)
Filled == table # None

Fresh == link = "open" /\ ~Asking({"CONNECT"}) /\ ~Telling({"ACCEPTED"})

AskLeads  == Leads(AskedOut, AskedIn, AskedUp, {"CONNECT"}, {"SUBSCRIBE"})
TellLeads == Leads(ToldDown, ToldIn, ToldOut, {"ACCEPTED"}, {"SUBACK"})

AskLevel  == Level(AskedOut, AskedIn, AskedUp, AskedOut', AskedIn', AskedUp',
                   {"CONNECT"}, {"SUBSCRIBE"})
TellLevel == Level(ToldDown, ToldIn, ToldOut, ToldDown', ToldIn', ToldOut',
                   {"ACCEPTED"}, {"SUBACK"})

(* What the client has asked, but for what is at the gateway's end.        *)
Requested == Held(up) \cup EventsOf("client", packetQ)

(* What PacketHandleTask does with its packet for one end or the other: it *)
(* forwards every CONNECT and every CONNACK.                               *)
Forwards1(from, b) ==
  LET begins == from = "client" /\ Kind(Packet) = "CONNECT"
  IN  \/ b = <<>> /\ ~begins
      \/ \E x \in ToBroker : /\ b = <<x>>
                             /\ \/ from = "client" /\ Kind(x) = Kind(Packet)
                                \/ ~begins /\ Kind(x) \notin {"CONNECT", "SUBSCRIBE", "PUBLISH"}

Answers1(from, d) ==
  LET begins == from = "broker" /\ Kind(Packet) = "ACCEPTED"
  IN  \/ d = <<>> /\ ~begins
      \/ \E x \in DownPacket : /\ d = <<x>>
                               /\ \/ from = "broker" /\ Kind(x) = Kind(Packet)
                                  \/ ~begins /\ Kind(x) \notin {"ACCEPTED", "SUBACK"}

LEMMA HandlingHeld ==
  ASSUME TypeInv, NEW from \in {"client", "broker"}, NEW type, Handling(from, type),
         NEW c, NEW d \in Seq(DownPacket), NEW b \in Seq(ToBroker), Answer(c, d, b)
  PROVE  /\ Held(down') \subseteq Held(down) \cup Held(d)
         /\ Held(brokerQ') \subseteq Held(brokerQ) \cup Held(b)
         /\ Requested' \subseteq Requested /\ FromSet' \subseteq FromSet
         /\ from = "client" => Packet \in Requested
         /\ from = "broker" => Packet \in FromSet
         /\ UNCHANGED <<link, broker, sending, closing>> /\ client' = c
<1>1. /\ packetQ # <<>> /\ packetQ' = Tail(packetQ) /\ up' = up /\ fromBroker' = fromBroker
      /\ brokerQ' = brokerQ \o b /\ down' = down \o d
      /\ Head(packetQ).from = from /\ Packet = Head(packetQ).packet
      /\ UNCHANGED <<link, broker, sending, closing>> /\ client' = c
  BY DEF Handling, Answer, Packet, brokerVars
<1>2. Held(down') \subseteq Held(down) \cup Held(d)
  BY <1>1, Queues, HeldMoves
<1>3. Held(brokerQ') \subseteq Held(brokerQ) \cup Held(b)
  BY <1>1, Queues, HeldMoves
<1>4. \A who : /\ EventsOf(who, packetQ') \subseteq EventsOf(who, packetQ)
               /\ from = who => Packet \in EventsOf(who, packetQ)
  BY <1>1, Queues, EventsMove
<1>5. Requested' \subseteq Requested /\ (from = "client" => Packet \in Requested)
  BY <1>1, <1>4 DEF Requested
<1>6. FromSet' \subseteq FromSet /\ (from = "broker" => Packet \in FromSet)
  BY <1>1, <1>4 DEF FromSet
<1> QED BY <1>1, <1>2, <1>3, <1>5, <1>6

LEMMA HandlingLevels ==
  ASSUME TypeInv, NEW from \in {"client", "broker"}, NEW type, Handling(from, type),
         NEW c, NEW d \in Seq(DownPacket), NEW b \in Seq(ToBroker), Answer(c, d, b),
         Forwards1(from, b), Answers1(from, d)
  PROVE  /\ AskLevel /\ TellLevel
         /\ ToldIn # <<>> /\ ToldIn' = Tail(ToldIn) /\ ToldOut' = ToldOut
         /\ Head(ToldIn) = IF from = "broker" THEN Kind(Packet) ELSE "-"
         /\ Has(AskedOut, {"CONNECT"}) => Has(AskedOut, {"CONNECT"})'
         /\ from = "client" /\ Kind(Packet) = "CONNECT" => Has(AskedOut, {"CONNECT"})'
<1>1. /\ packetQ # <<>> /\ packetQ' = Tail(packetQ) /\ up' = up /\ fromBroker' = fromBroker
      /\ brokerQ' = brokerQ \o b /\ down' = down \o d
      /\ Head(packetQ).from = from /\ Packet = Head(packetQ).packet
  BY DEF Handling, Answer, Packet, brokerVars
<1>2. /\ AskedIn # <<>> /\ AskedIn' = Tail(AskedIn) /\ AskedUp' = AskedUp
      /\ Head(AskedIn) = IF from = "client" THEN Kind(Packet) ELSE "-"
  BY <1>1, Queues, EventKindsMove DEF AskedIn, AskedUp
<1>3. /\ ToldIn # <<>> /\ ToldIn' = Tail(ToldIn) /\ ToldOut' = ToldOut
      /\ Head(ToldIn) = IF from = "broker" THEN Kind(Packet) ELSE "-"
  BY <1>1, Queues, EventKindsMove DEF ToldIn, ToldOut
<1>4. AskLevel /\ (Has(AskedOut, {"CONNECT"}) => Has(AskedOut, {"CONNECT"})')
      /\ (from = "client" /\ Kind(Packet) = "CONNECT" => Has(AskedOut, {"CONNECT"})')
  <2>1. CASE b = <<>> /\ ~(from = "client" /\ Kind(Packet) = "CONNECT")
    <3>1. AskedOut' = AskedOut
      BY <1>1, <2>1, Queues, ConcatEmptySeq DEF AskedOut
    <3>2. Head(AskedIn) \notin {"CONNECT"}
      BY <1>2, <2>1
    <3> QED BY <1>2, <2>1, <3>1, <3>2, Ways, LevelAway DEF AskLevel
  <2>2. ASSUME NEW x \in ToBroker, b = <<x>>,
               \/ from = "client" /\ Kind(x) = Kind(Packet)
               \/ /\ ~(from = "client" /\ Kind(Packet) = "CONNECT")
                  /\ Kind(x) \notin {"CONNECT", "SUBSCRIBE", "PUBLISH"}
        PROVE  AskLevel /\ (Has(AskedOut, {"CONNECT"}) => Has(AskedOut, {"CONNECT"})')
               /\ (from = "client" /\ Kind(Packet) = "CONNECT" => Has(AskedOut, {"CONNECT"})')
    <3>1. brokerQ' = Append(brokerQ, x) /\ x \in AnyPacket
      BY <1>1, <2>2, Queues, AppendIsConcat DEF AnyPacket
    <3>2. AskedOut' = Append(AskedOut, Kind(x)) /\ Kind(x) \in KindSet
      BY <3>1, Queues, KindsMove, KindType DEF AskedOut
    <3>3. \/ Kind(x) = Head(AskedIn)
          \/ Kind(x) \notin {"CONNECT"} /\ Kind(x) \notin {"SUBSCRIBE"} /\ Head(AskedIn) \notin {"CONNECT"}
      BY <1>2, <2>2
    <3>4. Level(AskedOut, AskedIn, AskedUp, Append(AskedOut, Kind(x)), Tail(AskedIn), AskedUp,
                {"CONNECT"}, {"SUBSCRIBE"})
      BY <1>2, <3>2, <3>3, Ways, LevelOn
    <3>5. Has(Append(AskedOut, Kind(x)), {"CONNECT"}) <=> Has(AskedOut, {"CONNECT"}) \/ Kind(x) \in {"CONNECT"}
      BY <3>2, Ways, AddedKind
    <3> QED BY <1>2, <2>2, <3>2, <3>4, <3>5 DEF AskLevel
  <2> QED BY <2>1, <2>2 DEF Forwards1
<1>5. TellLevel
  <2>1. CASE d = <<>> /\ ~(from = "broker" /\ Kind(Packet) = "ACCEPTED")
    <3>1. ToldDown' = ToldDown
      BY <1>1, <2>1, Queues, ConcatEmptySeq DEF ToldDown
    <3>2. Head(ToldIn) \notin {"ACCEPTED"}
      BY <1>3, <2>1
    <3> QED BY <1>3, <3>1, <3>2, Ways, LevelAway DEF TellLevel
  <2>2. ASSUME NEW x \in DownPacket, d = <<x>>,
               \/ from = "broker" /\ Kind(x) = Kind(Packet)
               \/ /\ ~(from = "broker" /\ Kind(Packet) = "ACCEPTED")
                  /\ Kind(x) \notin {"ACCEPTED", "SUBACK"}
        PROVE  TellLevel
    <3>1. down' = Append(down, x) /\ x \in AnyPacket
      BY <1>1, <2>2, Queues, AppendIsConcat DEF AnyPacket
    <3>2. ToldDown' = Append(ToldDown, Kind(x)) /\ Kind(x) \in KindSet
      BY <3>1, Queues, KindsMove, KindType DEF ToldDown
    <3>3. \/ Kind(x) = Head(ToldIn)
          \/ Kind(x) \notin {"ACCEPTED"} /\ Kind(x) \notin {"SUBACK"} /\ Head(ToldIn) \notin {"ACCEPTED"}
      BY <1>3, <2>2
    <3>4. Level(ToldDown, ToldIn, ToldOut, Append(ToldDown, Kind(x)), Tail(ToldIn), ToldOut,
                {"ACCEPTED"}, {"SUBACK"})
      BY <1>3, <3>2, <3>3, Ways, LevelOn
    <3> QED BY <1>3, <3>2, <3>4 DEF TellLevel
  <2> QED BY <2>1, <2>2 DEF Answers1
<1> QED BY <1>3, <1>4, <1>5

(***************************************************************************)
(* The invariant.                                                          *)
(***************************************************************************)
Bad == {"REFUSED", "DISCONNECT", "EOF"}

(* Over an open connection comes no bad news, and what there is of an      *)
(* earlier one comes before the CONNACK; then the client is active.        *)
LinkInv ==
  /\ ~sending /\ ~closing
  /\ link = "open" =>
       /\ ~Has(ToldOut, Bad)
       /\ Has(ToldOut, {"ACCEPTED"}) \/ Trailed(ToldIn, {"ACCEPTED"}, Bad)
       /\ \/ Has(AskedOut, {"CONNECT"}) \/ Has(ToldIn, {"ACCEPTED"}) \/ Has(ToldOut, {"ACCEPTED"})
          \/ client.status = "Active"

(* While the client has a table and the session is not its own, a SUBACK   *)
(* comes after a CONNACK, and a SUBSCRIBE after a CONNECT.                 *)
StaleInv ==
  Filled /\ ~Fresh => TellLeads /\ (link # "open" \/ Telling({"ACCEPTED"}) \/ AskLeads)

IdsOf(c)    == {c.ids[t] : t \in Topic} \ {0}
WaitedOf(c) == {e.tid : e \in c.waitedSub}

KnownIds  == IF client = None THEN {} ELSE IdsOf(client)
WaitedIds == IF client = None THEN {} ELSE WaitedOf(client)
GivenIds  == {p.tid : p \in {x \in Held(down) : x.type \in Given}}
TableIds  == {table[t].id : t \in Topic} \ {0}

(* The ids that the client has, or is about to get, the gateway has.       *)
GivenInv ==
  /\ WaitedIds \subseteq KnownIds
  /\ Filled /\ Fresh => TableIds \cup GivenIds \subseteq KnownIds

(* A message id that only topic t may have used.                           *)
OwnMid(mid, t) ==
  mid \in 1 .. nextMid - 1 /\ (Filled => \A u \in Topic : table[u].mid = mid => u = t)

SubackMids == {p.mid : p \in {x \in ToldSet : x.type = "SUBACK"}}

(* What a SUBACK answers, the broker has subscribed to.                    *)
SubscribedInv ==
  /\ \A p \in Held(brokerQ) : p.type = "SUBSCRIBE" => OwnMid(p.mid, p.topic)
  /\ SubackMids \subseteq 1 .. nextMid - 1
  /\ Filled /\ Fresh =>
       \A t \in Topic : table[t].mid \in SubackMids => t \in broker.subs

PubIds == {p.tid : p \in {x \in Requested : x.type = "PUBLISH"}}

(* A command's topic with an id is subscribed to, and whatever a READY     *)
(* client publishes has a topic.                                           *)
ReadyInv ==
  /\ Filled => \A t \in Command : table[t].id # 0 => Fresh /\ t \in broker.subs
  /\ st = "READY" => Filled /\ AllRegistered
  /\ Asking({"PUBLISH"}) \/ pend # None => st = "READY"
  /\ PubIds \subseteq KnownIds
  /\ pend # None => pend.packet.tid \in KnownIds
  /\ \A p \in Held(brokerQ) : p.type = "PUBLISH" => p.topic # None

Registers == LinkInv /\ StaleInv /\ GivenInv /\ SubscribedInv /\ ReadyInv

RegisterInv == Arduino /\ SessionIsOwn => Registers

(***************************************************************************)
(* What keeps them.                                                        *)
(***************************************************************************)
LEMMA ReadyIsFresh ==
  ASSUME ReadyInv, st = "READY"
  PROVE  Filled /\ Fresh /\ (\A t \in Topic : table[t].id > 0) /\ Command \subseteq broker.subs
<1>1. Filled /\ \A t \in Topic : table[t].id > 0
  BY DEF ReadyInv, AllRegistered, TopicId, Filled
<1>2. \A t \in Command : table[t].id # 0
  BY <1>1, Roles
<1> QED BY <1>1, <1>2, Roles DEF ReadyInv

LEMMA HandledLink ==
  ASSUME TypeInv, LinkInv, ToldIn # <<>>, ToldIn' = Tail(ToldIn), ToldOut' = ToldOut,
         Has(AskedOut, {"CONNECT"}) => Has(AskedOut, {"CONNECT"})',
         UNCHANGED <<link, sending, closing>>,
         \/ Has(AskedOut, {"CONNECT"})' \/ Head(ToldIn) \in Bad \/ client'.status = "Active"
         \/ client'.status = client.status /\ Head(ToldIn) # "ACCEPTED"
  PROVE  LinkInv'
<1>1. Has(ToldIn, {"ACCEPTED"}) <=> Head(ToldIn) = "ACCEPTED" \/ Has(Tail(ToldIn), {"ACCEPTED"})
  BY Ways, TailKinds
<1>2. Trailed(ToldIn, {"ACCEPTED"}, Bad) =>
        /\ Trailed(Tail(ToldIn), {"ACCEPTED"}, Bad)
        /\ Head(ToldIn) \in Bad => Has(Tail(ToldIn), {"ACCEPTED"})
  BY Ways, TrailedTail
<1> QED BY <1>1, <1>2 DEF LinkInv

LEMMA StaleKept ==
  ASSUME StaleInv, AskLevel, TellLevel, UNCHANGED link, Filled' => Filled
  PROVE  StaleInv' /\ (Fresh' <=> Fresh)
<1>1. /\ Asking({"CONNECT"})' <=> Asking({"CONNECT"})
      /\ Telling({"ACCEPTED"})' <=> Telling({"ACCEPTED"})
      /\ (AskLeads => AskLeads') /\ (TellLeads => TellLeads')
  BY DEF AskLevel, TellLevel, Level, Asking, Telling, AskLeads, TellLeads
<1>2. Fresh' <=> Fresh
  BY <1>1 DEF Fresh
<1> QED BY <1>1, <1>2 DEF StaleInv

LEMMA GivenKept ==
  ASSUME GivenInv, WaitedIds' \subseteq KnownIds',
         Filled' /\ Fresh' =>
           /\ Filled /\ Fresh /\ KnownIds \subseteq KnownIds'
           /\ TableIds' \subseteq TableIds \cup GivenIds
           /\ GivenIds' \subseteq GivenIds \cup KnownIds'
  PROVE  GivenInv'
BY DEF GivenInv

LEMMA SubscribedKept ==
  ASSUME SubscribedInv, UNCHANGED <<nextMid, table>>,
         \A p \in Held(brokerQ)' : p.type = "SUBSCRIBE" => p \in Held(brokerQ) \/ OwnMid(p.mid, p.topic),
         SubackMids' \subseteq SubackMids,
         Filled /\ Fresh' => Fresh /\ broker.subs \subseteq broker'.subs
  PROVE  SubscribedInv'
<1>1. Filled' = Filled /\ \A mid, t : OwnMid(mid, t)' <=> OwnMid(mid, t)
  BY DEF Filled, OwnMid
<1>2. \A p \in Held(brokerQ)' : p.type = "SUBSCRIBE" => OwnMid(p.mid, p.topic)'
  BY <1>1 DEF SubscribedInv
<1>3. SubackMids' \subseteq 1 .. nextMid' - 1
  BY DEF SubscribedInv
<1>4. Filled' /\ Fresh' => \A t \in Topic : table'[t].mid \in SubackMids' => t \in broker'.subs
  BY <1>1 DEF SubscribedInv
<1> QED BY <1>2, <1>3, <1>4 DEF SubscribedInv

LEMMA ReadyKept ==
  ASSUME ReadyInv, UNCHANGED <<table, st, pend>>,
         Asking({"PUBLISH"})' => Asking({"PUBLISH"}),
         PubIds' \subseteq PubIds,
         KnownIds \subseteq KnownIds' \/ (PubIds = {} /\ pend = None),
         Filled /\ Fresh => Fresh' /\ broker.subs \subseteq broker'.subs,
         \A p \in Held(brokerQ)' : p.type = "PUBLISH" => p \in Held(brokerQ) \/ p.topic # None
  PROVE  ReadyInv'
<1>1. Filled' = Filled /\ AllRegistered' = AllRegistered
  BY DEF Filled, AllRegistered, TopicId
<1>2. Filled' => \A t \in Command : table'[t].id # 0 => Fresh' /\ t \in broker'.subs
  BY <1>1 DEF ReadyInv
<1>3. st' = "READY" => Filled' /\ AllRegistered'
  BY <1>1 DEF ReadyInv
<1>4. Asking({"PUBLISH"})' \/ pend' # None => st' = "READY"
  BY DEF ReadyInv
<1>5. PubIds' \subseteq KnownIds' /\ (pend' # None => pend'.packet.tid \in KnownIds')
  BY DEF ReadyInv
<1>6. \A p \in Held(brokerQ)' : p.type = "PUBLISH" => p.topic # None
  BY DEF ReadyInv
<1> QED BY <1>2, <1>3, <1>4, <1>5, <1>6 DEF ReadyInv

(* Publications under way are from a READY client.                         *)
LEMMA PublicationsAreAsked ==
  ASSUME TypeInv
  PROVE  /\ PubIds # {} => Asking({"PUBLISH"})
         /\ \A p \in Requested : p \in UpPacket
<1>1. \A p \in Requested : p \in AskedSet
  BY DEF Requested, AskedSet
<1>2. \A p \in Requested : p \in UpPacket
  <2>1. Held(up) \subseteq UpPacket
    BY Queues, HeldMoves
  <2>2. Held(packetQ) \subseteq GatewayEvent
    BY Queues, HeldMoves
  <2>3. EventsOf("client", packetQ) \subseteq UpPacket
    BY <2>2 DEF EventsOf, GatewayEvent
  <2> QED BY <2>1, <2>3 DEF Requested
<1>3. \A p \in UpPacket : p.type = "PUBLISH" => Kind(p) = "PUBLISH"
  BY DEF Kind
<1>4. Asking({"PUBLISH"}) <=> \E p \in AskedSet : Kind(p) \in {"PUBLISH"}
  BY Ways
<1> QED BY <1>1, <1>2, <1>3, <1>4 DEF PubIds

(***************************************************************************)
(* PacketHandleTask.                                                       *)
(***************************************************************************)
(* A handler leaves the client c after it, and sends d and b.              *)
Right(from, c, d, b) ==
  LET begins == from = "client" /\ Kind(Packet) = "CONNECT"
  IN  /\ c \in ClientType /\ Forwards1(from, b) /\ Answers1(from, d)
      /\ \/ begins
         \/ from = "broker" /\ Kind(Packet) \in Bad
         \/ c.status = "Active"
         \/ c.status = client.status /\ ~(from = "broker" /\ Kind(Packet) = "ACCEPTED")
      /\ WaitedOf(c) \subseteq IdsOf(c)
      /\ begins \/ IdsOf(client) \subseteq IdsOf(c)
      /\ \A x \in Held(d) : /\ x.type \in Given => x.tid \in IdsOf(c)
                            /\ x.type = "SUBACK" => x.mid \in SubackMids
      /\ \A x \in Held(b) : /\ x.type = "SUBSCRIBE" => OwnMid(x.mid, x.topic)
                            /\ x.type = "PUBLISH" => x.topic # None

(* While a CONNECT is under way nothing is published.                      *)
LEMMA NothingPublished ==
  ASSUME TypeInv, ReadyInv, ~Fresh
  PROVE  PubIds = {} /\ pend = None /\ st # "READY"
<1>1. st # "READY"
  BY ReadyIsFresh
<1>2. ~Asking({"PUBLISH"}) /\ pend = None
  BY <1>1 DEF ReadyInv
<1> QED BY <1>1, <1>2, PublicationsAreAsked

(* The same after a step.                                                  *)
LEMMA AskedLater ==
  ASSUME TypeInv'
  PROVE  \A A : "-" \notin A => (Asking(A)' <=> \E p \in AskedSet' : Kind(p) \in A)
<1>1. /\ up' \in Seq(AnyPacket) /\ brokerQ' \in Seq(AnyPacket) /\ packetQ' \in Seq(GatewayEvent)
  <2>1. up' \in Seq(UpPacket) /\ brokerQ' \in Seq(ToBroker) /\ packetQ' \in Seq(GatewayEvent)
    BY DEF TypeInv, NetOK, GatewayOK
  <2>2. \A S \in SUBSET AnyPacket : Seq(S) \subseteq Seq(AnyPacket)
    OBVIOUS
  <2>3. UpPacket \in SUBSET AnyPacket /\ ToBroker \in SUBSET AnyPacket
    BY DEF AnyPacket
  <2> QED BY <2>1, <2>2, <2>3
<1> SUFFICES ASSUME NEW A, "-" \notin A
             PROVE  Asking(A)' <=> \E p \in AskedSet' : Kind(p) \in A
  OBVIOUS
<1>2. /\ Has(Kinds(brokerQ'), A) <=> \E p \in Held(brokerQ') : Kind(p) \in A
      /\ Has(KindsFrom("client", packetQ'), A) <=> \E p \in EventsOf("client", packetQ') : Kind(p) \in A
      /\ Has(Kinds(up'), A) <=> \E p \in Held(up') : Kind(p) \in A
  BY <1>1, HasHeld, HasEvents
<1> QED BY <1>2 DEF Asking, Anywhere, AskedOut, AskedIn, AskedUp, AskedSet

LEMMA HandlingRegisters ==
  ASSUME TypeInv, TypeInv', Registers, Aside,
         NEW from \in {"client", "broker"}, NEW type, Handling(from, type),
         NEW c, NEW d \in Seq(DownPacket), NEW b \in Seq(ToBroker), Answer(c, d, b),
         Right(from, c, d, b)
  PROVE  Registers'
<1>0. /\ Forwards1(from, b) /\ Answers1(from, d) /\ c \in ClientType /\ client \in ClientType
      /\ client # None /\ c # None
  BY HandlingType, ClientIsThere DEF Right
<1>1. /\ Held(down') \subseteq Held(down) \cup Held(d)
      /\ Held(brokerQ') \subseteq Held(brokerQ) \cup Held(b)
      /\ Requested' \subseteq Requested /\ FromSet' \subseteq FromSet
      /\ from = "client" => Packet \in Requested
      /\ UNCHANGED <<link, broker, sending, closing>> /\ client' = c
  BY HandlingHeld
<1>2. /\ AskLevel /\ TellLevel
      /\ ToldIn # <<>> /\ ToldIn' = Tail(ToldIn) /\ ToldOut' = ToldOut
      /\ Head(ToldIn) = IF from = "broker" THEN Kind(Packet) ELSE "-"
      /\ Has(AskedOut, {"CONNECT"}) => Has(AskedOut, {"CONNECT"})'
      /\ from = "client" /\ Kind(Packet) = "CONNECT" => Has(AskedOut, {"CONNECT"})'
  BY <1>0, HandlingLevels
<1>3. UNCHANGED <<table, st, pend, nextMid>>
  BY DEF Aside, ardVars
<1>4. KnownIds = IdsOf(client) /\ KnownIds' = IdsOf(c) /\ WaitedIds' = WaitedOf(c)
  BY <1>0, <1>1 DEF KnownIds, WaitedIds
<1>5. LinkInv'
  <2>1. \/ Has(AskedOut, {"CONNECT"})' \/ Head(ToldIn) \in Bad \/ client'.status = "Active"
        \/ client'.status = client.status /\ Head(ToldIn) # "ACCEPTED"
    BY <1>1, <1>2 DEF Right
  <2> QED BY <1>1, <1>2, <2>1, HandledLink DEF Registers
<1>6. StaleInv' /\ (Fresh' <=> Fresh) /\ Filled' = Filled
  <2>1. Filled' = Filled
    BY <1>3 DEF Filled
  <2> QED BY <1>1, <1>2, <2>1, StaleKept DEF Registers
<1>7. \/ KnownIds \subseteq KnownIds'
      \/ /\ ~Fresh /\ PubIds = {} /\ pend = None
  <2>1. CASE from = "client" /\ Kind(Packet) = "CONNECT"
    <3>1. Packet \in AskedSet
      BY <1>1, <2>1 DEF AskedSet, Requested
    <3>2. Asking({"CONNECT"})
      BY <2>1, <3>1, Ways
    <3>3. ~Fresh
      BY <3>2 DEF Fresh
    <3> QED BY <3>3, NothingPublished DEF Registers
  <2>2. CASE ~(from = "client" /\ Kind(Packet) = "CONNECT")
    BY <1>4, <2>2 DEF Right
  <2> QED BY <2>1, <2>2
<1>8. GivenInv'
  <2>1. WaitedIds' \subseteq KnownIds'
    BY <1>4 DEF Right
  <2>2. TableIds' = TableIds
    BY <1>3 DEF TableIds
  <2>3. GivenIds' \subseteq GivenIds \cup KnownIds'
    <3>1. ASSUME NEW x \in Held(down'), x.type \in Given
          PROVE  x.tid \in GivenIds \cup KnownIds'
      BY <1>1, <1>4, <3>1 DEF Right, GivenIds
    <3>2. GivenIds' = {p.tid : p \in {x \in Held(down') : x.type \in Given}}
      BY DEF GivenIds
    <3> QED BY <3>1, <3>2
  <2> QED BY <1>6, <1>7, <2>1, <2>2, <2>3, GivenKept DEF Registers
<1>9. SubscribedInv'
  <2>1. \A p \in Held(brokerQ)' : p.type = "SUBSCRIBE" => p \in Held(brokerQ) \/ OwnMid(p.mid, p.topic)
    BY <1>1 DEF Right
  <2>2. SubackMids' \subseteq SubackMids
    <3>1. ASSUME NEW x \in ToldSet', x.type = "SUBACK" PROVE x.mid \in SubackMids
      <4>1. x \in ToldSet \/ x \in Held(d)
        BY <1>1 DEF ToldSet
      <4> QED BY <3>1, <4>1 DEF Right, SubackMids
    <3>2. SubackMids' = {p.mid : p \in {x \in ToldSet' : x.type = "SUBACK"}}
      BY DEF SubackMids
    <3> QED BY <3>1, <3>2
  <2>3. Filled /\ Fresh' => Fresh /\ broker.subs \subseteq broker'.subs
    BY <1>1, <1>6
  <2>4. SubscribedInv /\ UNCHANGED <<nextMid, table>>
    BY <1>3 DEF Registers
  <2> QED BY <2>1, <2>2, <2>3, <2>4, SubscribedKept
<1>10. ReadyInv'
  <2>1. PubIds' \subseteq PubIds
    BY <1>1 DEF PubIds
  <2>2. \A p \in Held(brokerQ)' : p.type = "PUBLISH" => p \in Held(brokerQ) \/ p.topic # None
    BY <1>1 DEF Right
  <2>3. Asking({"PUBLISH"})' => Asking({"PUBLISH"})
    <3>1. ASSUME NEW p \in AskedSet', Kind(p) = "PUBLISH" PROVE Asking({"PUBLISH"})
      <4>1. p \in AskedSet \/ p \in Held(b)
        BY <1>1 DEF AskedSet, Requested
      <4>2. CASE p \in AskedSet
        BY <3>1, <4>2, Ways
      <4>3. CASE p \in Held(b)
        <5>1. b = <<p>> /\ b # <<>>
          BY <1>0, <4>3, HeldFew DEF Forwards1
        <5>2. PICK x \in ToBroker : b = <<x>> /\ \/ from = "client" /\ Kind(x) = Kind(Packet)
                                                 \/ Kind(x) \notin {"CONNECT", "SUBSCRIBE", "PUBLISH"}
          BY <1>0, <5>1 DEF Forwards1
        <5>3. x = p
          BY <5>1, <5>2
        <5>4. from = "client" /\ Kind(Packet) = "PUBLISH"
          BY <3>1, <5>2, <5>3
        <5>5. Packet \in AskedSet
          BY <1>1, <5>4 DEF AskedSet, Requested
        <5> QED BY <5>4, <5>5, Ways
      <4> QED BY <4>1, <4>2, <4>3
    <3>2. Asking({"PUBLISH"})' => \E p \in AskedSet' : Kind(p) \in {"PUBLISH"}
      BY AskedLater
    <3> QED BY <3>1, <3>2
  <2> QED BY <1>1, <1>3, <1>6, <1>7, <2>1, <2>2, <2>3, ReadyKept DEF Registers
<1> QED BY <1>5, <1>6, <1>8, <1>9, <1>10 DEF Registers

(* The three shapes of an answer.                                          *)
Safely == TypeInv /\ TypeInv' /\ Registers /\ Aside

(* The client's object, as it was but for more topics.                     *)
Richer(c) ==
  /\ c \in ClientType /\ c.status = client.status
  /\ IdsOf(client) \subseteq IdsOf(c) /\ WaitedOf(c) \subseteq IdsOf(c)

Begins(from) ==
  \/ from = "client" /\ Kind(Packet) = "CONNECT"
  \/ from = "broker" /\ Kind(Packet) = "ACCEPTED"

LEMMA Shapes ==
  /\ <<>> \in Seq(DownPacket) /\ <<>> \in Seq(ToBroker) /\ Held(<<>>) = {}
  /\ \A x : Held(<<x>>) = {x}
  /\ \A x \in DownPacket : <<x>> \in Seq(DownPacket)
  /\ \A x \in ToBroker : <<x>> \in Seq(ToBroker)
BY Few, HeldFew

LEMMA Silent ==
  ASSUME Safely, NEW from \in {"client", "broker"}, NEW type, Handling(from, type),
         NEW c, Answer(c, <<>>, <<>>), Richer(c), ~Begins(from)
  PROVE  Registers'
<1> DEFINE d == <<>>
           b == <<>>
<1>1. d \in Seq(DownPacket) /\ b \in Seq(ToBroker) /\ Held(d) = {} /\ Held(b) = {}
  BY Shapes
<1>2. Forwards1(from, b) /\ Answers1(from, d)
  BY DEF Forwards1, Answers1, Begins
<1>3. Answer(c, d, b)
  OBVIOUS
<1> HIDE DEF d, b
<1>4. Right(from, c, d, b)
  BY <1>1, <1>2 DEF Right, Richer, Begins
<1> QED BY <1>1, <1>3, <1>4, HandlingRegisters DEF Safely

LEMMA Forwarding ==
  ASSUME Safely, NEW from \in {"client", "broker"}, NEW type, Handling(from, type),
         NEW c, NEW x \in ToBroker, Answer(c, <<>>, <<x>>), Richer(c), ~Begins(from),
         \/ from = "client" /\ Kind(x) = Kind(Packet)
         \/ Kind(x) \notin {"CONNECT", "SUBSCRIBE", "PUBLISH"},
         x.type = "SUBSCRIBE" => OwnMid(x.mid, x.topic),
         x.type = "PUBLISH" => x.topic # None
  PROVE  Registers'
<1> DEFINE d == <<>>
           b == <<x>>
<1>1. d \in Seq(DownPacket) /\ b \in Seq(ToBroker) /\ Held(d) = {} /\ Held(b) = {x}
  BY Shapes
<1>2. Forwards1(from, b) /\ Answers1(from, d)
  BY DEF Forwards1, Answers1, Begins
<1>3. Answer(c, d, b)
  OBVIOUS
<1> HIDE DEF d, b
<1>4. Right(from, c, d, b)
  BY <1>1, <1>2 DEF Right, Richer, Begins
<1> QED BY <1>1, <1>3, <1>4, HandlingRegisters DEF Safely

LEMMA Answering ==
  ASSUME Safely, NEW from \in {"client", "broker"}, NEW type, Handling(from, type),
         NEW c, NEW x \in DownPacket, Answer(c, <<x>>, <<>>), Richer(c), ~Begins(from),
         \/ from = "broker" /\ Kind(x) = Kind(Packet)
         \/ Kind(x) \notin {"ACCEPTED", "SUBACK"},
         x.type \in Given => x.tid \in IdsOf(c),
         x.type = "SUBACK" => x.mid \in SubackMids
  PROVE  Registers'
<1> DEFINE d == <<x>>
           b == <<>>
<1>1. d \in Seq(DownPacket) /\ b \in Seq(ToBroker) /\ Held(d) = {x} /\ Held(b) = {}
  BY Shapes
<1>2. Forwards1(from, b) /\ Answers1(from, d)
  BY DEF Forwards1, Answers1, Begins
<1>3. Answer(c, d, b)
  OBVIOUS
<1> HIDE DEF d, b
<1>4. Right(from, c, d, b)
  BY <1>1, <1>2 DEF Right, Richer, Begins
<1> QED BY <1>1, <1>3, <1>4, HandlingRegisters DEF Safely

(* What a handler may do to the object.                                    *)
LEMMA ClientRicher ==
  ASSUME Safely, client \in ClientType
  PROVE  /\ Richer(client)
         /\ \A S \in SUBSET AwaitedId : Richer([client EXCEPT !.waitedPub = S])
         /\ \A S \in SUBSET client.waitedSub : Richer([client EXCEPT !.waitedSub = S])
         /\ \A t \in Topic : Richer(AddTopic(client, t)) /\ AddTopic(client, t).ids[t] \in IdsOf(AddTopic(client, t))
<1>1. WaitedOf(client) \subseteq IdsOf(client)
  BY ClientIsThere DEF Safely, Registers, GivenInv, WaitedIds, KnownIds
<1>2. Richer(client)
  BY <1>1 DEF Richer
<1>3. ASSUME NEW S \in SUBSET AwaitedId PROVE Richer([client EXCEPT !.waitedPub = S])
  <2> DEFINE c == [client EXCEPT !.waitedPub = S]
  <2>1. c \in ClientType /\ c.status = client.status /\ c.ids = client.ids /\ c.waitedSub = client.waitedSub
    BY DEF ClientType
  <2> HIDE DEF c
  <2>2. Richer(c)
    BY <1>1, <2>1 DEF Richer, IdsOf, WaitedOf
  <2> QED BY <2>2 DEF c
<1>4. ASSUME NEW S \in SUBSET client.waitedSub PROVE Richer([client EXCEPT !.waitedSub = S])
  <2> DEFINE c == [client EXCEPT !.waitedSub = S]
  <2>1. c \in ClientType /\ c.status = client.status /\ c.ids = client.ids /\ c.waitedSub = S
    BY DEF ClientType
  <2> HIDE DEF c
  <2>2. WaitedOf(c) \subseteq WaitedOf(client) /\ IdsOf(c) = IdsOf(client)
    BY <2>1 DEF IdsOf, WaitedOf
  <2>3. Richer(c)
    BY <1>1, <2>1, <2>2 DEF Richer
  <2> QED BY <2>3 DEF c
<1>5. ASSUME NEW t \in Topic
      PROVE  Richer(AddTopic(client, t)) /\ AddTopic(client, t).ids[t] \in IdsOf(AddTopic(client, t))
  <2> DEFINE c == AddTopic(client, t)
  <2>1. /\ c \in ClientType /\ c.ids[t] # 0 /\ c.status = client.status
        /\ c.waitedSub = client.waitedSub
    BY AddTopicType
  <2>2. \A u \in Topic : client.ids[u] # 0 => c.ids[u] = client.ids[u]
    <3>1. CASE client.ids[t] # 0
      BY <3>1 DEF AddTopic
    <3>2. CASE client.ids[t] = 0
      BY <3>2, AddTopicType
    <3> QED BY <3>1, <3>2
  <2> HIDE DEF c
  <2>3. IdsOf(client) \subseteq IdsOf(c) /\ c.ids[t] \in IdsOf(c) /\ WaitedOf(c) = WaitedOf(client)
    BY <2>1, <2>2 DEF IdsOf, WaitedOf
  <2>4. Richer(c) /\ c.ids[t] \in IdsOf(c)
    BY <1>1, <2>1, <2>3 DEF Richer
  <2> QED BY <2>4 DEF c
<1> QED BY <1>2, <1>3, <1>4, <1>5

(* A request's message id is its topic's alone.                            *)
LEMMA OwnRequests ==
  ASSUME TypeInv, NEW w \in World, IdInv(w),
         NEW p \in Requested, p.type \in Requests
  PROVE  OwnMid(p.mid, p.topic)
<1>1. w.mids = nextMid - 1 /\ (table # None => table \in Tables(w))
  BY DEF IdInv, ArdIds
<1>2. p \in Ups(w)
  <2>1. up \in Seq(Ups(w)) /\ packetQ \in Seq(Events(w))
    BY DEF IdInv, NetIds, GatewayIds
  <2>2. Held(up) \subseteq Ups(w) /\ Held(packetQ) \subseteq Events(w)
    BY <2>1, HeldMoves
  <2>3. EventsOf("client", packetQ) \subseteq Ups(w)
    BY <2>2 DEF EventsOf, Events
  <2> QED BY <2>2, <2>3 DEF Requested
<1>3. AskedFor(w, p.mid, p.topic)
  BY <1>2 DEF Ups, Requests
<1>4. p.mid \in 1 .. nextMid - 1
  BY <1>1, <1>3 DEF AskedFor
<1>5. ASSUME table # None, NEW u \in Topic, table[u].mid = p.mid PROVE u = p.topic
  <2>1. AskedFor(w, p.mid, u)
    BY <1>1, <1>4, <1>5 DEF Tables
  <2> QED BY <1>3, <2>1 DEF AskedFor
<1> QED BY <1>4, <1>5 DEF OwnMid, Filled

LEMMA HandleConnectRegisters ==
  ASSUME Safely, HandleConnect
  PROVE  Registers'
<1> DEFINE c == [NewClient EXCEPT !.lastId = client.lastId]
           x == [type |-> "CONNECT"]
           d == <<>>
           b == <<x>>
<1>1. TypeInv /\ Handling("client", "CONNECT")
  BY DEF Safely, HandleConnect
<1>2. client \in ClientType /\ Packet.type = "CONNECT" /\ Kind(Packet) = "CONNECT"
  BY <1>1, HandlingType DEF Kind
<1>3. x \in ToBroker /\ Kind(x) = "CONNECT" /\ x.type = "CONNECT"
  BY DEF ToBroker, Connect, Kind
<1>4. c \in ClientType /\ c.waitedSub = {}
  BY <1>2, NewClientType DEF ClientType, NewClient
<1>5. Answer(c, d, b)
  BY DEF HandleConnect
<1> HIDE DEF x
<1>6. d \in Seq(DownPacket) /\ b \in Seq(ToBroker) /\ Held(d) = {} /\ Held(b) = {x}
  BY <1>3, Shapes
<1>7. Forwards1("client", b) /\ Answers1("client", d)
  BY <1>2, <1>3 DEF Forwards1, Answers1
<1> HIDE DEF c, d, b
<1>8. WaitedOf(c) = {}
  BY <1>4 DEF WaitedOf
<1>9. Right("client", c, d, b)
  BY <1>2, <1>3, <1>4, <1>6, <1>7, <1>8 DEF Right
<1> QED BY <1>1, <1>5, <1>6, <1>9, HandlingRegisters DEF Safely

LEMMA HandleRegisterRegisters ==
  ASSUME Safely, HandleRegister
  PROVE  Registers'
<1>1. TypeInv /\ Handling("client", "REGISTER")
  BY DEF Safely, HandleRegister
<1>2. client \in ClientType /\ Packet \in Register /\ Kind(Packet) = "REGISTER"
  BY <1>1, HandlingType, UpKinds DEF Kind
<1>3. Packet.topic \in Topic /\ Packet.mid \in Nat
  BY <1>2, Roles DEF Register
<1> DEFINE c == AddTopic(client, Packet.topic)
           x == [type |-> "REGACK", tid |-> c.ids[Packet.topic], mid |-> Packet.mid]
<1>4. /\ x \in DownPacket /\ Kind(x) = "REGACK" /\ x.type = "REGACK" /\ x.tid \in IdsOf(c)
      /\ Richer(c) /\ Richer(client)
  BY <1>2, <1>3, AddTopicType, ClientRicher DEF DownPacket, IdGiven, Kind
<1>5. Answer(c, <<x>>, <<>>) \/ Answer(client, <<>>, <<>>)
  BY DEF HandleRegister
<1> HIDE DEF c, x
<1>6. ~Begins("client")
  BY <1>2 DEF Begins
<1>7. CASE Answer(c, <<x>>, <<>>)
  BY <1>1, <1>4, <1>6, <1>7, Answering
<1>8. CASE Answer(client, <<>>, <<>>)
  BY <1>1, <1>4, <1>6, <1>8, Silent
<1> QED BY <1>5, <1>7, <1>8

LEMMA HandleSubscribeRegisters ==
  ASSUME Safely, NEW w \in World, IdInv(w), HandleSubscribe
  PROVE  Registers'
<1>1. TypeInv /\ Handling("client", "SUBSCRIBE")
  BY DEF Safely, HandleSubscribe
<1>2. client \in ClientType /\ Packet \in Subscription /\ Kind(Packet) = "SUBSCRIBE"
  BY <1>1, HandlingType, UpKinds DEF Kind
<1>3. Packet.topic \in Command /\ Packet.topic \in Topic /\ Packet.mid \in Nat /\ Packet.type \in Requests
  BY <1>2, Roles DEF Subscription, Requests
<1> DEFINE c == AddTopic(client, Packet.topic)
           tid == c.ids[Packet.topic]
           e == [c EXCEPT !.waitedSub = Await(@, Packet.mid, tid)]
           x == [type |-> "SUBSCRIBE", topic |-> Packet.topic, mid |-> Packet.mid]
<1>4. /\ x \in ToBroker /\ Kind(x) = "SUBSCRIBE" /\ x.type = "SUBSCRIBE"
      /\ x.topic = Packet.topic /\ x.mid = Packet.mid
  BY <1>3 DEF ToBroker, Subscription, Kind
<1>5. c \in ClientType /\ tid \in Ids /\ tid \in IdsOf(c) /\ Richer(c)
  BY <1>2, <1>3, AddTopicType, ClientRicher
<1>6. Answer(e, <<>>, <<x>>)
  BY DEF HandleSubscribe
<1> HIDE DEF c, tid, x
<1>7. Richer(e)
  <2> DEFINE M == Await(c.waitedSub, Packet.mid, tid)
  <2>1. M \in SUBSET AwaitedId
    BY <1>3, <1>5, AwaitType DEF ClientType
  <2>2. \A a \in M : a \in c.waitedSub \/ a.tid = tid
    BY DEF Await
  <2> HIDE DEF M
  <2>3. e = [c EXCEPT !.waitedSub = M]
    BY DEF M
  <2>4. e \in ClientType /\ e.ids = c.ids /\ e.status = c.status /\ e.waitedSub = M
    BY <1>5, <2>1, <2>3 DEF ClientType
  <2> HIDE DEF e
  <2>5. IdsOf(e) = IdsOf(c)
    BY <2>4 DEF IdsOf
  <2>6. WaitedOf(e) \subseteq WaitedOf(c) \cup {tid}
    BY <2>2, <2>4 DEF WaitedOf
  <2> QED BY <1>5, <2>4, <2>5, <2>6 DEF Richer
<1> HIDE DEF e
<1>8. ~Begins("client")
  BY <1>2 DEF Begins
<1>9. OwnMid(x.mid, x.topic)
  <2>1. Packet \in Requested
    BY <1>1, Queues, EventsMove DEF Requested, Handling, Packet
  <2> QED BY <1>1, <1>3, <1>4, <2>1, OwnRequests
<1> QED BY <1>1, <1>2, <1>4, <1>6, <1>7, <1>8, <1>9, Forwarding

LEMMA HandlePublishRegisters ==
  ASSUME Safely, HandlePublish
  PROVE  Registers'
<1>1. TypeInv /\ Handling("client", "PUBLISH")
  BY DEF Safely, HandlePublish
<1>2. client \in ClientType /\ Packet \in Publication /\ Kind(Packet) = "PUBLISH"
  BY <1>1, HandlingType, UpKinds DEF Kind
<1>3. /\ Packet.mid \in Nat /\ Packet.tid \in Ids /\ Packet.qos \in Nat /\ Packet.msg \in Message
      /\ Packet.type = "PUBLISH"
  BY <1>2 DEF Publication
<1> DEFINE t == TopicOf(client, Packet.tid)
           S == Await(client.waitedPub, Packet.mid, Packet.tid)
           e == [client EXCEPT !.waitedPub = S]
           x == [type |-> "PUBLISH", topic |-> t, qos |-> Packet.qos,
                 mid |-> Packet.mid, msg |-> Packet.msg]
           r == [type |-> "PUBACK", mid |-> Packet.mid, ok |-> FALSE]
<1>4. t \in Topic
  <2>1. Packet \in Requested
    BY <1>1, Queues, EventsMove DEF Requested, Handling, Packet
  <2>2. Packet.tid \in KnownIds
    BY <1>3, <2>1 DEF Safely, Registers, ReadyInv, PubIds
  <2>3. \E u \in Topic : client.ids[u] = Packet.tid /\ Packet.tid # 0
    BY <1>2, <2>2, ClientIsThere DEF KnownIds, IdsOf
  <2> QED BY <2>3 DEF TopicOf
<1>5. t # None
  BY <1>4, SessionAssumption
<1>6. /\ x \in ToBroker /\ Kind(x) = "PUBLISH" /\ x.type = "PUBLISH" /\ x.topic # None
  BY <1>3, <1>4, <1>5 DEF ToBroker, Forwarded, Kind
<1>7. Richer(e) /\ Richer(client)
  <2>1. S \in SUBSET AwaitedId
    BY <1>2, <1>3, AwaitType DEF ClientType
  <2> HIDE DEF S
  <2> QED BY <1>2, <2>1, ClientRicher
<1>8. Answer(client, <<>>, <<x>>) \/ Answer(e, <<>>, <<x>>)
  BY <1>5 DEF HandlePublish
<1> HIDE DEF t, e, x
<1>9. ~Begins("client")
  BY <1>2 DEF Begins
<1>10. ASSUME NEW c, Answer(c, <<>>, <<x>>), Richer(c) PROVE Registers'
  BY <1>1, <1>2, <1>6, <1>9, <1>10, Forwarding
<1> QED BY <1>7, <1>8, <1>10

LEMMA HandleAckRegisters ==
  ASSUME Safely, NEW type \in {"PUBACK", "PUBREC", "PUBCOMP"}, HandleAck(type)
  PROVE  Registers'
<1>1. TypeInv /\ Handling("client", type)
  BY DEF Safely, HandleAck
<1>2. /\ client \in ClientType /\ Packet \in ToBroker /\ Packet.type \in {"PUBACK", "PUBREC", "PUBCOMP"}
  BY <1>1, HandlingType, UpKinds DEF ToBroker
<1>3. Answer(client, <<>>, <<Packet>>) \/ Answer(client, <<>>, <<>>)
  BY DEF HandleAck
<1>4. Richer(client)
  BY <1>2, ClientRicher
<1>5. ~Begins("client")
  BY <1>2 DEF Begins, Kind
<1>6. CASE Answer(client, <<>>, <<Packet>>)
  BY <1>1, <1>2, <1>4, <1>5, <1>6, Forwarding
<1>7. CASE Answer(client, <<>>, <<>>)
  BY <1>1, <1>4, <1>5, <1>7, Silent
<1> QED BY <1>3, <1>6, <1>7

LEMMA HandleConnackRegisters ==
  ASSUME Safely, HandleConnack
  PROVE  Registers'
<1>1. TypeInv /\ Handling("broker", "CONNACK")
  BY DEF Safely, HandleConnack
<1>2. /\ client \in ClientType /\ Packet \in Connack /\ Packet \in DownPacket
      /\ Packet.type = "CONNACK" /\ Packet.ok \in BOOLEAN
  BY <1>1, HandlingType, BrokerKinds DEF DownPacket, Connack
<1>3. Kind(Packet) = IF Packet.ok THEN "ACCEPTED" ELSE "REFUSED"
  BY <1>2 DEF Kind
<1> DEFINE s == IF Packet.ok THEN "Active" ELSE "Disconnected"
           c == [client EXCEPT !.status = s]
           d == <<Packet>>
           b == <<>>
<1>4. /\ c \in ClientType /\ c.status = s /\ c.ids = client.ids /\ c.waitedSub = client.waitedSub
  BY <1>2 DEF ClientType
<1>5. Answer(c, d, b)
  BY DEF HandleConnack
<1>6. d \in Seq(DownPacket) /\ b \in Seq(ToBroker) /\ Held(d) = {Packet} /\ Held(b) = {}
  BY <1>2, Shapes
<1>7. Forwards1("broker", b) /\ Answers1("broker", d)
  BY <1>2 DEF Forwards1, Answers1
<1>8. \/ "broker" = "broker" /\ Kind(Packet) \in Bad
      \/ c.status = "Active"
  BY <1>2, <1>3, <1>4 DEF Bad
<1> HIDE DEF c, d, b, s
<1>9. WaitedOf(c) \subseteq IdsOf(c) /\ IdsOf(client) \subseteq IdsOf(c)
  <2>1. Richer(client)
    BY <1>2, ClientRicher
  <2> QED BY <1>4, <2>1 DEF Richer, WaitedOf, IdsOf
<1>10. Right("broker", c, d, b)
  BY <1>2, <1>4, <1>6, <1>7, <1>8, <1>9 DEF Right, Given
<1> QED BY <1>1, <1>5, <1>6, <1>10, HandlingRegisters DEF Safely

LEMMA HandleSubackRegisters ==
  ASSUME Safely, HandleSuback
  PROVE  Registers'
<1>1. TypeInv /\ Handling("broker", "SUBACK")
  BY DEF Safely, HandleSuback
<1>2. client \in ClientType /\ Packet.mid \in Nat /\ Packet.type = "SUBACK" /\ Kind(Packet) = "SUBACK"
  BY <1>1, HandlingType, BrokerKinds DEF BrokerAck, Kind
<1> DEFINE es == Awaited(client.waitedSub, Packet.mid)
           tid == (CHOOSE e \in es : TRUE).tid
           x == [type |-> "SUBACK", tid |-> tid, mid |-> Packet.mid]
           S == client.waitedSub \ es
           c == [client EXCEPT !.waitedSub = S]
<1>3. client.waitedSub \in SUBSET AwaitedId /\ es \subseteq client.waitedSub
  BY <1>2 DEF ClientType, Awaited
<1>4. Answer(c, IF es = {} THEN <<>> ELSE <<x>>, <<>>)
  BY DEF HandleSuback
<1>5. Richer(c) /\ IdsOf(c) = IdsOf(client)
  <2>1. S \subseteq client.waitedSub
    OBVIOUS
  <2> HIDE DEF S
  <2>2. c.ids = client.ids
    BY <1>2 DEF ClientType
  <2> QED BY <1>2, <2>1, <2>2, ClientRicher DEF IdsOf
<1>6. es # {} => tid \in WaitedOf(client) /\ tid \in Ids
  <2>1. es # {} => (CHOOSE e \in es : TRUE) \in client.waitedSub
    BY <1>3
  <2> QED BY <1>3, <2>1 DEF WaitedOf, AwaitedId
<1>7. es # {} => tid \in IdsOf(c)
  <2>1. Richer(client)
    BY <1>2, ClientRicher
  <2> QED BY <1>5, <1>6, <2>1 DEF Richer
<1>8. x.type = "SUBACK" /\ Kind(x) = "SUBACK" /\ x.mid = Packet.mid /\ x.tid = tid
  BY DEF Kind
<1>9. es # {} => x \in DownPacket
  BY <1>2, <1>6 DEF DownPacket, IdGiven
<1>10. x.mid \in SubackMids
  <2>1. Packet \in FromSet
    BY <1>1, Queues, EventsMove DEF FromSet, Handling, Packet
  <2> QED BY <1>2, <1>8, <2>1 DEF SubackMids, ToldSet
<1> HIDE DEF es, tid, x, S, c
<1>11. ~Begins("broker")
  BY <1>2 DEF Begins
<1>12. CASE es = {}
  BY <1>1, <1>4, <1>5, <1>11, <1>12, Silent
<1>13. CASE es # {}
  BY <1>1, <1>2, <1>4, <1>5, <1>7, <1>8, <1>9, <1>10, <1>11, <1>13, Answering
<1> QED BY <1>12, <1>13

LEMMA HandlePubackRegisters ==
  ASSUME Safely, HandlePuback
  PROVE  Registers'
<1>1. TypeInv /\ Handling("broker", "PUBACK")
  BY DEF Safely, HandlePuback
<1>2. client \in ClientType /\ Packet.mid \in Nat /\ Kind(Packet) = "PUBACK"
  BY <1>1, HandlingType, BrokerKinds DEF BrokerAck, Kind
<1> DEFINE es == Awaited(client.waitedPub, Packet.mid)
           x == [type |-> "PUBACK", mid |-> Packet.mid, ok |-> TRUE]
           S == client.waitedPub \ es
           c == [client EXCEPT !.waitedPub = S]
<1>3. x \in DownPacket /\ Kind(x) = "PUBACK" /\ x.type = "PUBACK"
  BY <1>2 DEF DownPacket, Puback, Kind
<1>4. x.type \notin Given /\ Kind(x) \notin {"ACCEPTED", "SUBACK"}
  BY <1>3 DEF Given
<1>5. Answer(c, IF es = {} THEN <<>> ELSE <<x>>, <<>>)
  BY DEF HandlePuback
<1>6. Richer(c)
  <2>1. S \in SUBSET AwaitedId
    BY <1>2 DEF ClientType
  <2> HIDE DEF S
  <2> QED BY <1>2, <2>1, ClientRicher
<1> HIDE DEF es, x, S, c
<1>7. ~Begins("broker")
  BY <1>2 DEF Begins
<1>8. CASE es = {}
  BY <1>1, <1>5, <1>6, <1>7, <1>8, Silent
<1>9. CASE es # {}
  BY <1>1, <1>3, <1>4, <1>5, <1>6, <1>7, <1>9, Answering
<1> QED BY <1>8, <1>9

LEMMA HandleCommandRegisters ==
  ASSUME Safely, HandleCommand
  PROVE  Registers'
<1>1. TypeInv /\ Handling("broker", "PUBLISH")
  BY DEF Safely, HandleCommand
<1>2. client \in ClientType /\ Packet \in CommandTaken /\ Kind(Packet) = "PUBLISH"
  BY <1>1, HandlingType, BrokerKinds DEF Kind
<1>3. /\ Packet.topic \in Topic /\ Packet.qos \in Nat /\ Packet.mid \in Nat
      /\ Packet.cmd \in Message
  BY <1>2, Roles DEF CommandTaken
<1> DEFINE a == [type |-> IF Packet.qos = 1 THEN "PUBACK" ELSE "PUBREC", mid |-> Packet.mid]
           x == [type |-> "PUBLISH", tid |-> client.ids[Packet.topic],
                 qos |-> Packet.qos, mid |-> Packet.mid, cmd |-> Packet.cmd]
<1>4. a \in ToBroker /\ Kind(a) \in {"PUBACK", "PUBREC"} /\ a.type \in {"PUBACK", "PUBREC"}
  BY <1>3 DEF ToBroker, Ack, Kind
<1>5. client.ids[Packet.topic] \in Ids
  BY <1>2, <1>3 DEF ClientType
<1>6. x \in DownPacket /\ Kind(x) = "PUBLISH" /\ x.type = "PUBLISH"
  BY <1>3, <1>5 DEF DownPacket, CommandSent, Kind
<1>7. Answer(client, <<>>, <<>>) \/ Answer(client, <<>>, <<a>>) \/ Answer(client, <<x>>, <<>>)
  BY DEF HandleCommand
<1> HIDE DEF a, x
<1>8. ~Begins("broker") /\ Richer(client) /\ x.type \notin Given
  BY <1>2, <1>6, ClientRicher DEF Begins, Given
<1>9. CASE Answer(client, <<>>, <<>>)
  BY <1>1, <1>8, <1>9, Silent
<1>10. CASE Answer(client, <<>>, <<a>>)
  BY <1>1, <1>4, <1>8, <1>10, Forwarding
<1>11. CASE Answer(client, <<x>>, <<>>)
  BY <1>1, <1>6, <1>8, <1>11, Answering
<1> QED BY <1>7, <1>9, <1>10, <1>11

LEMMA HandlePubrelRegisters ==
  ASSUME Safely, HandlePubrel
  PROVE  Registers'
<1>1. TypeInv /\ Handling("broker", "PUBREL")
  BY DEF Safely, HandlePubrel
<1>2. client \in ClientType /\ Packet \in DownPacket /\ Packet.type = "PUBREL" /\ Kind(Packet) = "PUBREL"
  BY <1>1, HandlingType, BrokerKinds DEF BrokerAck, DownPacket, Pubrel, Kind
<1>3. ~Begins("broker") /\ Richer(client) /\ Packet.type \notin Given
  BY <1>2, ClientRicher DEF Begins, Given
<1>4. Answer(client, <<Packet>>, <<>>) \/ Answer(client, <<>>, <<>>)
  BY DEF HandlePubrel
<1>5. CASE Answer(client, <<Packet>>, <<>>)
  BY <1>1, <1>2, <1>3, <1>5, Answering
<1>6. CASE Answer(client, <<>>, <<>>)
  BY <1>1, <1>3, <1>6, Silent
<1> QED BY <1>4, <1>5, <1>6

LEMMA HandleDisconnectRegisters ==
  ASSUME Safely, HandleDisconnect
  PROVE  Registers'
<1>1. TypeInv /\ Handling("broker", "DISCONNECT")
  BY DEF Safely, HandleDisconnect
<1>2. client \in ClientType /\ Packet.type = "DISCONNECT" /\ Kind(Packet) = "DISCONNECT"
  BY <1>1, HandlingType DEF Kind
<1> DEFINE c == [client EXCEPT !.status = "Disconnected"]
           d == <<>>
           b == <<>>
<1>4. /\ c \in ClientType /\ c.ids = client.ids /\ c.waitedSub = client.waitedSub
  BY <1>2 DEF ClientType
<1>5. Answer(c, d, b)
  BY DEF HandleDisconnect
<1>6. d \in Seq(DownPacket) /\ b \in Seq(ToBroker) /\ Held(d) = {} /\ Held(b) = {}
  BY Shapes
<1>7. Forwards1("broker", b) /\ Answers1("broker", d) /\ Kind(Packet) \in Bad
  BY <1>2 DEF Forwards1, Answers1, Bad
<1> HIDE DEF c, d, b
<1>9. WaitedOf(c) \subseteq IdsOf(c) /\ IdsOf(client) \subseteq IdsOf(c)
  <2>1. Richer(client)
    BY <1>2, ClientRicher
  <2> QED BY <1>4, <2>1 DEF Richer, WaitedOf, IdsOf
<1>10. Right("broker", c, d, b)
  BY <1>2, <1>4, <1>6, <1>7, <1>9 DEF Right
<1> QED BY <1>1, <1>5, <1>6, <1>10, HandlingRegisters DEF Safely

LEMMA PacketHandleRegisters ==
  ASSUME Safely, NEW w \in World, IdInv(w), PacketHandleTask
  PROVE  Registers'
BY HandleConnectRegisters, HandleRegisterRegisters, HandleSubscribeRegisters,
   HandlePublishRegisters, HandleAckRegisters, HandleConnackRegisters, HandleSubackRegisters,
   HandlePubackRegisters, HandleCommandRegisters, HandlePubrelRegisters,
   HandleDisconnectRegisters DEF PacketHandleTask

(***************************************************************************)
(* Other steps of three kinds: those that change little, those while the   *)
(* session is not the client's own, and those while nothing is registered. *)
(***************************************************************************)
LEMMA SteadyRegisters ==
  ASSUME Registers, LinkInv', StaleInv', Fresh' <=> Fresh, UNCHANGED <<table, st, pend, nextMid>>,
         WaitedIds' \subseteq KnownIds', KnownIds \subseteq KnownIds',
         GivenIds' \subseteq GivenIds, PubIds' \subseteq PubIds,
         Asking({"PUBLISH"})' => Asking({"PUBLISH"}),
         Held(brokerQ)' \subseteq Held(brokerQ),
         broker.subs \subseteq broker'.subs,
         SubackMids' \subseteq SubackMids \/ SubscribedInv'
  PROVE  Registers'
<1>1. Filled' = Filled /\ TableIds' = TableIds
  BY DEF Filled, TableIds
<1>2. GivenInv'
  BY <1>1, GivenKept DEF Registers
<1>3. SubscribedInv'
  BY <1>1, SubscribedKept DEF Registers
<1>4. ReadyInv'
  BY <1>1, ReadyKept DEF Registers
<1> QED BY <1>2, <1>3, <1>4 DEF Registers

LEMMA LittleRegisters ==
  ASSUME Registers, LinkInv', AskLevel, TellLevel, UNCHANGED <<link, table, st, pend, nextMid>>,
         WaitedIds' \subseteq KnownIds', KnownIds \subseteq KnownIds',
         GivenIds' \subseteq GivenIds, PubIds' \subseteq PubIds,
         Asking({"PUBLISH"})' => Asking({"PUBLISH"}),
         Held(brokerQ)' \subseteq Held(brokerQ),
         broker.subs \subseteq broker'.subs,
         SubackMids' \subseteq SubackMids
  PROVE  Registers'
<1>1. Filled' = Filled
  BY DEF Filled
<1>2. StaleInv' /\ (Fresh' <=> Fresh)
  BY <1>1, StaleKept DEF Registers
<1> QED BY <1>2, SteadyRegisters

LEMMA StaleRegisters ==
  ASSUME TypeInv, Registers, LinkInv', ~Fresh, ~Fresh', UNCHANGED <<table, st, pend, nextMid>>,
         TellLeads => TellLeads',
         link' # "open" \/ Telling({"ACCEPTED"})',
         WaitedIds' \subseteq KnownIds',
         PubIds' \subseteq PubIds,
         Asking({"PUBLISH"})' => Asking({"PUBLISH"}),
         Held(brokerQ)' \subseteq Held(brokerQ),
         SubackMids' \subseteq SubackMids
  PROVE  Registers'
<1>1. Filled' = Filled /\ AllRegistered' = AllRegistered
  BY DEF Filled, AllRegistered, TopicId
<1>2. StaleInv'
  BY <1>1 DEF StaleInv, Registers
<1>3. GivenInv'
  BY DEF GivenInv
<1>4. SubscribedInv'
  <2>1. \A mid, t : OwnMid(mid, t)' <=> OwnMid(mid, t)
    BY <1>1 DEF OwnMid
  <2> QED BY <2>1 DEF SubscribedInv, Registers
<1>5. PubIds = {} /\ pend = None /\ st # "READY"
  BY NothingPublished DEF Registers
<1>6. ReadyInv'
  BY <1>1, <1>5 DEF ReadyInv, Registers
<1> QED BY <1>2, <1>3, <1>4, <1>6 DEF Registers

LEMMA ToldLater ==
  ASSUME TypeInv'
  PROVE  \A A : "-" \notin A => (Telling(A)' <=> \E p \in ToldSet' : Kind(p) \in A)
<1>1. /\ down' \in Seq(AnyPacket) /\ fromBroker' \in Seq(AnyPacket) /\ packetQ' \in Seq(GatewayEvent)
  <2>1. down' \in Seq(DownPacket) /\ fromBroker' \in Seq(FromBroker) /\ packetQ' \in Seq(GatewayEvent)
    BY DEF TypeInv, NetOK, GatewayOK
  <2>2. \A S \in SUBSET AnyPacket : Seq(S) \subseteq Seq(AnyPacket)
    OBVIOUS
  <2>3. DownPacket \in SUBSET AnyPacket /\ FromBroker \in SUBSET AnyPacket
    BY DEF AnyPacket
  <2> QED BY <2>1, <2>2, <2>3
<1> SUFFICES ASSUME NEW A, "-" \notin A
             PROVE  Telling(A)' <=> \E p \in ToldSet' : Kind(p) \in A
  OBVIOUS
<1>2. /\ Has(Kinds(down'), A) <=> \E p \in Held(down') : Kind(p) \in A
      /\ Has(KindsFrom("broker", packetQ'), A) <=> \E p \in EventsOf("broker", packetQ') : Kind(p) \in A
      /\ Has(Kinds(fromBroker'), A) <=> \E p \in Held(fromBroker') : Kind(p) \in A
  BY <1>1, HasHeld, HasEvents
<1> QED BY <1>2 DEF Telling, Anywhere, ToldDown, ToldIn, ToldOut, ToldSet, FromSet

LEMMA LedByNone ==
  ASSUME NEW f, NEW m, NEW b, NEW A, NEW B, ~Anywhere(f, m, b, B)
  PROVE  Leads(f, m, b, A, B)
BY DEF Leads, Led, Anywhere, Has

LEMMA EmptyRegisters ==
  ASSUME TypeInv', LinkInv', WaitedIds' \subseteq KnownIds',
         ~Asking({"SUBSCRIBE", "PUBLISH"})', ~Telling(Given)',
         pend' = None, st' # "READY", table' = None \/ \A t \in Topic : table'[t].id = 0
  PROVE  Registers'
<1>1. /\ \A p \in AskedSet' : p.type \notin {"SUBSCRIBE", "PUBLISH"}
      /\ \A p \in ToldSet' : p.type \notin Given
  <2>1. \A p \in AskedSet' : Kind(p) \notin {"SUBSCRIBE", "PUBLISH"}
    BY AskedLater
  <2>2. "-" \notin Given
    BY DEF Given
  <2>3. \A p \in ToldSet' : Kind(p) \notin Given
    BY <2>2, ToldLater
  <2> QED BY <2>1, <2>3 DEF Kind, Given
<1>2. ~Asking({"SUBSCRIBE"})' /\ ~Asking({"PUBLISH"})' /\ ~Telling({"SUBACK"})'
  <2>1. \A p \in AskedSet' : Kind(p) \notin {"SUBSCRIBE"} /\ Kind(p) \notin {"PUBLISH"}
    BY <1>1 DEF Kind
  <2>2. \A p \in ToldSet' : Kind(p) \notin {"SUBACK"}
    BY <1>1 DEF Kind, Given
  <2> QED BY <2>1, <2>2, AskedLater, ToldLater
<1>3. TellLeads' /\ AskLeads'
  BY <1>2, LedByNone DEF TellLeads, AskLeads, Asking, Telling
<1>4. StaleInv'
  BY <1>3 DEF StaleInv
<1>5. GivenIds' = {} /\ SubackMids' = {} /\ PubIds' = {}
  BY <1>1 DEF GivenIds, SubackMids, PubIds, ToldSet, AskedSet, Requested, Given
<1>6. Filled' => TableIds' = {}
  BY DEF Filled, TableIds
<1>7. GivenInv'
  BY <1>5, <1>6 DEF GivenInv
<1>8. SubscribedInv'
  <2>1. \A p \in Held(brokerQ)' : p.type # "SUBSCRIBE"
    BY <1>1 DEF AskedSet
  <2> QED BY <1>5, <2>1 DEF SubscribedInv
<1>9. ReadyInv'
  <2>1. \A p \in Held(brokerQ)' : p.type # "PUBLISH"
    BY <1>1 DEF AskedSet
  <2>2. Filled' => \A t \in Command : table'[t].id = 0
    BY Roles DEF Filled
  <2>3. PubIds' \subseteq KnownIds'
    BY <1>5
  <2>4. ~(Asking({"PUBLISH"})' \/ pend' # None)
    BY <1>2
  <2> QED BY <2>1, <2>2, <2>3, <2>4 DEF ReadyInv
<1> QED BY <1>4, <1>7, <1>8, <1>9 DEF Registers

(* What goes away takes nothing along.                                     *)
LEMMA AskStayed ==
  ASSUME TypeInv, TypeInv', Requested' \subseteq Requested, Held(brokerQ)' \subseteq Held(brokerQ)
  PROVE  PubIds' \subseteq PubIds /\ (Asking({"PUBLISH"})' => Asking({"PUBLISH"}))
<1>1. PubIds' \subseteq PubIds
  BY DEF PubIds
<1>2. AskedSet' \subseteq AskedSet
  BY DEF AskedSet, Requested
<1>3. /\ Asking({"PUBLISH"})' => \E p \in AskedSet' : Kind(p) \in {"PUBLISH"}
      /\ (\E p \in AskedSet : Kind(p) \in {"PUBLISH"}) => Asking({"PUBLISH"})
  BY AskedLater, Ways
<1> QED BY <1>1, <1>2, <1>3

LEMMA TellStayed ==
  ASSUME \A p \in Held(down)' : p \in Held(down) \/ p.type \notin Given,
         \A p \in ToldSet' : p \in ToldSet \/ p.type # "SUBACK"
  PROVE  GivenIds' \subseteq GivenIds /\ SubackMids' \subseteq SubackMids
<1>1. GivenIds' = {p.tid : p \in {x \in Held(down)' : x.type \in Given}}
  BY DEF GivenIds
<1>2. SubackMids' = {p.mid : p \in {x \in ToldSet' : x.type = "SUBACK"}}
  BY DEF SubackMids
<1> QED BY <1>1, <1>2 DEF GivenIds, SubackMids

LEMMA IdsStay ==
  ASSUME GivenInv,
         \/ client' = client
         \/ /\ client \in ClientType /\ client' \in ClientType
            /\ client'.ids = client.ids /\ client'.waitedSub = client.waitedSub
  PROVE  KnownIds' = KnownIds /\ WaitedIds' \subseteq KnownIds'
<1>1. KnownIds' = KnownIds /\ WaitedIds' = WaitedIds
  BY ClientIsThere DEF KnownIds, WaitedIds, IdsOf, WaitedOf
<1> QED BY <1>1 DEF GivenInv

LEMMA LinkKept ==
  ASSUME TypeInv, LinkInv, UNCHANGED <<link, sending, closing>>,
         link = "open" =>
           /\ client'.status = client.status
           /\ Has(ToldOut, Bad)' => Has(ToldOut, Bad)
           /\ Has(ToldOut, {"ACCEPTED"}) => Has(ToldOut, {"ACCEPTED"})'
           /\ Has(AskedOut, {"CONNECT"}) => Has(AskedOut, {"CONNECT"})'
           /\ ToldIn' = ToldIn \/ ToldIn' = Append(ToldIn, "-")
  PROVE  LinkInv'
<1> SUFFICES ASSUME link = "open" PROVE LinkInv'
  BY DEF LinkInv
<1>1. /\ Has(ToldIn, {"ACCEPTED"}) => Has(ToldIn', {"ACCEPTED"})
      /\ Trailed(ToldIn, {"ACCEPTED"}, Bad) => Trailed(ToldIn', {"ACCEPTED"}, Bad)
  <2> DEFINE x == "-"
  <2>1. x \in KindSet /\ x \notin Bad /\ ToldIn \in Seq(KindSet)
        /\ (ToldIn' = ToldIn \/ ToldIn' = Append(ToldIn, x))
    BY Ways DEF KindSet, Bad
  <2> HIDE DEF x
  <2>2. Has(ToldIn, {"ACCEPTED"}) => Has(Append(ToldIn, x), {"ACCEPTED"})
    BY <2>1, AddedKind
  <2>3. Trailed(ToldIn, {"ACCEPTED"}, Bad) => Trailed(Append(ToldIn, x), {"ACCEPTED"}, Bad)
    BY <2>1, TrailedAdded
  <2> QED BY <2>1, <2>2, <2>3
<1> QED BY <1>1 DEF LinkInv

LEMMA LedWithout == \A k, A, B : ~Has(k, B) => Led(k, A, B)
BY DEF Led, Has

(* A queue that gets shorter, and one that gets longer.                    *)
LEMMA ClientRecvRegisters ==
  ASSUME Safely, ClientRecvTask
  PROVE  Registers'
<1>0. /\ up # <<>> /\ up' = Tail(up) /\ Head(up) \in UpPacket /\ Head(up) \in AnyPacket
      /\ UNCHANGED <<brokerQ, fromBroker, link, sending, closing, broker>>
      /\ UNCHANGED <<table, st, pend, nextMid>> /\ TypeInv /\ TypeInv' /\ Registers
  BY Queues DEF Safely, ClientRecvTask, AnyPacket, brokerVars, Aside, ardVars
<1>1. /\ AskedUp # <<>> /\ AskedUp' = Tail(AskedUp) /\ Head(AskedUp) = Kind(Head(up))
      /\ AskedOut' = AskedOut /\ ToldOut' = ToldOut
      /\ Held(up') \subseteq Held(up) /\ Head(up) \in Held(up) /\ Kind(Head(up)) \in KindSet
  BY <1>0, Queues, KindsMove, HeldMoves, KindType DEF AskedUp, AskedOut, ToldOut
<1>2. client' = client \/ (client = None /\ client' = NewClient)
  BY DEF ClientRecvTask
<1>3. KnownIds \subseteq KnownIds' /\ WaitedIds' \subseteq KnownIds'
  <2>1. CASE client' = client
    BY <1>0, <2>1, IdsStay DEF Registers
  <2>2. CASE client = None /\ client' = NewClient
    <3>1. NewClient.waitedSub = {}
      BY DEF NewClient
    <3>2. KnownIds = {} /\ WaitedIds' = {}
      BY <2>2, <3>1, NewClientType, ClientIsThere DEF KnownIds, WaitedIds, WaitedOf
    <3> QED BY <3>2
  <2> QED BY <1>2, <2>1, <2>2
<1>4. link = "open" => client' = client
  <2>1. link = "open" => client \in ClientType
    BY <1>0 DEF TypeInv, GatewayOK
  <2> QED BY <1>2, <2>1, ClientIsThere
<1>5. CASE UNCHANGED packetQ /\ Head(up).type # "CONNECT"
           /\ (down' = down \/ down' = Append(down, [type |-> "DISCONNECT"]))
  <2> DEFINE p == [type |-> "DISCONNECT"]
  <2>1. p \in AnyPacket /\ Kind(p) = "DISCONNECT" /\ p.type = "DISCONNECT" /\ "DISCONNECT" \in KindSet
    BY DEF AnyPacket, DownPacket, Disconnect, Kind, KindSet
  <2>2. down' = down \/ down' = Append(down, p)
    BY <1>5
  <2> HIDE DEF p
  <2>3. /\ AskedIn' = AskedIn /\ ToldIn' = ToldIn
        /\ ToldDown' = ToldDown \/ ToldDown' = Append(ToldDown, "DISCONNECT")
    <3>1. Kinds(Append(down, p)) = Append(Kinds(down), Kind(p))
      BY <1>0, <2>1, Queues, KindsMove
    <3> QED BY <1>5, <2>1, <2>2, <3>1 DEF AskedIn, ToldIn, ToldDown
  <2>4. AskLevel
    <3>1. Head(AskedUp) \notin {"CONNECT"}
      BY <1>0, <1>1, <1>5 DEF Kind
    <3> QED BY <1>0, <1>1, <2>3, <3>1, Ways, LevelAway DEF AskLevel
  <2>5. TellLevel
    <3>1. Level(ToldDown, ToldIn, ToldOut, Append(ToldDown, "DISCONNECT"), ToldIn, ToldOut,
                {"ACCEPTED"}, {"SUBACK"})
      BY <1>0, <2>1, Ways, LevelIn
    <3> QED BY <1>1, <2>3, <3>1, LevelItself DEF TellLevel
  <2>6. Held(down)' \subseteq Held(down) \cup {p}
    BY <1>0, <2>2, Queues, HeldMoves
  <2>7. /\ Requested' \subseteq Requested /\ Held(brokerQ)' = Held(brokerQ) /\ FromSet' = FromSet
    BY <1>0, <1>1, <1>5 DEF Requested, FromSet
  <2>8. /\ \A x \in Held(down)' : x \in Held(down) \/ x.type \notin Given
        /\ \A x \in ToldSet' : x \in ToldSet \/ x.type # "SUBACK"
    BY <2>1, <2>6, <2>7 DEF ToldSet, Given
  <2>9. /\ PubIds' \subseteq PubIds /\ (Asking({"PUBLISH"})' => Asking({"PUBLISH"}))
        /\ GivenIds' \subseteq GivenIds /\ SubackMids' \subseteq SubackMids
    BY <1>0, <2>7, <2>8, AskStayed, TellStayed
  <2>10. LinkInv'
    BY <1>0, <1>1, <1>4, <2>3, LinkKept DEF Registers
  <2> QED BY <1>0, <1>3, <2>4, <2>5, <2>7, <2>9, <2>10, LittleRegisters
<1>6. CASE packetQ' = Append(packetQ, [from |-> "client", packet |-> Head(up)]) /\ UNCHANGED down
  <2> DEFINE e == [from |-> "client", packet |-> Head(up)]
  <2>1. e \in GatewayEvent /\ e.from = "client" /\ e.packet = Head(up)
    BY <1>0 DEF GatewayEvent
  <2>2. packetQ' = Append(packetQ, e)
    BY <1>6
  <2> HIDE DEF e
  <2>3. /\ AskedIn' = Append(AskedIn, Head(AskedUp)) /\ ToldIn' = Append(ToldIn, "-")
        /\ ToldDown' = ToldDown
    <3>1. /\ KindsFrom("client", Append(packetQ, e)) = Append(AskedIn, Kind(Head(up)))
          /\ KindsFrom("broker", Append(packetQ, e)) = Append(ToldIn, "-")
      BY <1>0, <2>1, QueueKinds
    <3> QED BY <1>1, <1>6, <2>2, <3>1 DEF AskedIn, ToldIn, ToldDown
  <2>4. Head(AskedUp) \in KindSet /\ "-" \in KindSet
    BY <1>1 DEF KindSet
  <2>5. AskLevel
    BY <1>0, <1>1, <2>3, <2>4, Ways, LevelOn DEF AskLevel
  <2>6. TellLevel
    BY <1>0, <1>1, <2>3, <2>4, Ways, LevelIn DEF TellLevel
  <2>7. /\ EventsOf("client", packetQ') \subseteq EventsOf("client", packetQ) \cup {Head(up)}
        /\ EventsOf("broker", packetQ') \subseteq EventsOf("broker", packetQ)
    BY <1>0, <2>1, <2>2, Queues, EventsMove
  <2>8. /\ Requested' \subseteq Requested /\ Held(brokerQ)' = Held(brokerQ)
        /\ ToldSet' \subseteq ToldSet /\ Held(down)' = Held(down)
    BY <1>0, <1>1, <1>6, <2>7 DEF Requested, ToldSet, FromSet
  <2>9. /\ PubIds' \subseteq PubIds /\ (Asking({"PUBLISH"})' => Asking({"PUBLISH"}))
        /\ GivenIds' \subseteq GivenIds /\ SubackMids' \subseteq SubackMids
    BY <1>0, <2>8, AskStayed, TellStayed
  <2>10. LinkInv'
    BY <1>0, <1>1, <1>4, <2>3, LinkKept DEF Registers
  <2> QED BY <1>0, <1>3, <2>5, <2>6, <2>8, <2>9, <2>10, LittleRegisters
<1> QED BY <1>5, <1>6 DEF ClientRecvTask

(* What the broker's end of the way to the client becomes.                 *)
LEMMA ConnectTaken ==
  ASSUME TypeInv, NEW ok \in BOOLEAN, TakeConnect(ok)
  PROVE  /\ ok => Has(ToldOut, {"ACCEPTED"})' /\ ~Has(ToldOut, Bad)'
         /\ ~Has(ToldOut, {"SUBACK"})'
         /\ \A p \in Held(fromBroker)' : p.type # "SUBACK"
<1> DEFINE x == [type |-> "CONNACK", ok |-> ok]
           k == IF ok THEN "ACCEPTED" ELSE "REFUSED"
           y == <<x>>
           r == y \o (IF ok THEN <<>> ELSE <<EOF>>)
<1>1. /\ x \in AnyPacket /\ EOF \in AnyPacket /\ Kind(x) = k /\ Kind(EOF) = "EOF"
      /\ x.type = "CONNACK" /\ EOF.type = "EOF"
  BY DEF FromBroker, BrokerPacket, Connack, EOF, Kind, AnyPacket
<1>2. fromBroker' = r
  BY DEF TakeConnect
<1> HIDE DEF x
<1>3. y \in Seq(AnyPacket) /\ Held(y) = {x} /\ Kinds(y) = <<k>>
  BY <1>1, Few, HeldFew DEF Kinds, Through
<1> HIDE DEF y
<1>4. /\ k \in KindSet /\ "EOF" \in KindSet /\ (ok => k = "ACCEPTED") /\ k # "SUBACK"
      /\ <<k>> \in Seq(KindSet) /\ \A A : Has(<<k>>, A) <=> k \in A
  <2>1. k \in KindSet /\ "EOF" \in KindSet
    BY DEF KindSet
  <2> QED BY <2>1, OneKind
<1>5. r = y \/ (~ok /\ r = Append(y, EOF))
  BY <1>1, <1>3, ConcatEmptySeq, AppendIsConcat
<1>6. /\ Held(Append(y, EOF)) \subseteq {x, EOF}
      /\ Kinds(Append(y, EOF)) = Append(<<k>>, "EOF")
  <2>1. Held(Append(y, EOF)) \subseteq Held(y) \cup {EOF}
    BY <1>3, HeldMoves
  <2>2. Kinds(Append(y, EOF)) = Append(Kinds(y), Kind(EOF))
    BY <1>1, <1>3, KindsMove
  <2> QED BY <1>1, <1>3, <2>1, <2>2
<1> HIDE DEF r, k
<1>7. \A A : Has(Append(<<k>>, "EOF"), A) <=> k \in A \/ "EOF" \in A
  BY <1>4, AddedKind
<1>8. \/ ToldOut' = <<k>>
      \/ ~ok /\ ToldOut' = Append(<<k>>, "EOF")
  BY <1>2, <1>3, <1>5, <1>6 DEF ToldOut
<1>9. Held(fromBroker)' \subseteq {x, EOF}
  BY <1>2, <1>3, <1>5, <1>6
<1>10. ok => Has(ToldOut', {"ACCEPTED"}) /\ ~Has(ToldOut', Bad)
  BY <1>4, <1>8 DEF Bad
<1>11. ~Has(ToldOut', {"SUBACK"})
  BY <1>4, <1>7, <1>8
<1> QED BY <1>1, <1>9, <1>10, <1>11

(* An event leaves the queue to the broker.                                *)
LEMMA AskedSent ==
  ASSUME TypeInv, brokerQ # <<>>, brokerQ' = Tail(brokerQ), UNCHANGED <<up, packetQ>>
  PROVE  /\ AskedOut # <<>> /\ Head(AskedOut) = Kind(Head(brokerQ))
         /\ AskedOut' = Tail(AskedOut) /\ AskedIn' = AskedIn /\ AskedUp' = AskedUp
         /\ Requested' = Requested /\ Held(brokerQ)' \subseteq Held(brokerQ)
         /\ Head(brokerQ) \in Held(brokerQ) /\ Head(brokerQ) \in ToBroker
         /\ EventsOf("broker", packetQ)' = EventsOf("broker", packetQ)
         /\ Kind(Head(brokerQ)) = Head(brokerQ).type
<1>1. /\ AskedOut # <<>> /\ Head(AskedOut) = Kind(Head(brokerQ))
      /\ Kinds(Tail(brokerQ)) = Tail(AskedOut) /\ Held(Tail(brokerQ)) \subseteq Held(brokerQ)
      /\ Head(brokerQ) \in Held(brokerQ) /\ Head(brokerQ) \in ToBroker
  BY QueueKinds
<1>2. Kind(Head(brokerQ)) = Head(brokerQ).type
  BY <1>1 DEF ToBroker, Connect, Subscription, Ack, Forwarded, Kind
<1> QED BY <1>1, <1>2 DEF AskedOut, AskedIn, AskedUp, Requested

(* What may not have happened.                                             *)
LEMMA OwnExcludes ==
  ASSUME SessionIsOwn', NEW k, Fault(k)
  PROVE  k \in {"lost", "repeated", "unreachable", "refused"}
<1>1. k \in seen'
  BY DEF Fault
<1>2. seen' \subseteq {"lost", "repeated", "unreachable", "refused"}
  BY DEF SessionIsOwn, OnlySeen
<1> QED BY <1>1, <1>2

LEMMA SendConnectRegisters ==
  ASSUME Safely, BrokerSendTask, SendConnect, SessionIsOwn'
  PROVE  Registers'
<1>0. TypeInv /\ TypeInv' /\ Registers /\ UNCHANGED <<table, st, pend, nextMid>>
  BY DEF Safely, Aside, ardVars
<1>1. /\ brokerQ # <<>> /\ Head(brokerQ).type = "CONNECT" /\ brokerQ' = Tail(brokerQ)
      /\ UNCHANGED <<up, down, packetQ, closing>>
  BY DEF BrokerSendTask, SendConnect
<1>2. UNCHANGED sending /\ client' = Connecting
  <2>1. ~Fault("preempted")
    BY OwnExcludes
  <2> QED BY <2>1 DEF SendConnect
<1>3. PICK ok \in BOOLEAN : TakeConnect(ok)
  BY DEF SendConnect
<1>4. /\ ok => Has(ToldOut, {"ACCEPTED"})' /\ ~Has(ToldOut, Bad)'
      /\ ~Has(ToldOut, {"SUBACK"})'
      /\ \A p \in Held(fromBroker)' : p.type # "SUBACK"
      /\ link' = IF ok THEN "open" ELSE "closed"
  BY <1>0, <1>3, ConnectTaken DEF TakeConnect
<1>5. /\ AskedOut # <<>> /\ Head(AskedOut) = "CONNECT"
      /\ Requested' \subseteq Requested /\ Held(brokerQ)' \subseteq Held(brokerQ)
      /\ EventsOf("broker", packetQ)' = EventsOf("broker", packetQ)
  BY <1>0, <1>1, AskedSent
<1>6. ToldDown' = ToldDown /\ ToldIn' = ToldIn /\ Held(down)' = Held(down)
  BY <1>1 DEF ToldDown, ToldIn
<1>7. ~Fresh
  <2>1. Has(AskedOut, {"CONNECT"})
    BY <1>0, <1>5, Ways, TailKinds
  <2> QED BY <2>1 DEF Fresh, Asking, Anywhere
<1>8. link' # "open" \/ Telling({"ACCEPTED"})'
  BY <1>4 DEF Telling, Anywhere
<1>9. ~Fresh'
  BY <1>8 DEF Fresh
<1>10. LinkInv'
  BY <1>0, <1>1, <1>2, <1>4 DEF LinkInv, Registers
<1>11. TellLeads => TellLeads'
  <2>1. Led(ToldOut', {"ACCEPTED"}, {"SUBACK"})
    BY <1>4, LedWithout
  <2> QED BY <1>6, <2>1 DEF TellLeads, Leads
<1>12. WaitedIds' \subseteq KnownIds'
  <2>1. client \in ClientType
    BY <1>0, <1>1 DEF TypeInv, GatewayOK
  <2>2. client' \in ClientType /\ client'.ids = client.ids /\ client'.waitedSub = client.waitedSub
    BY <1>2, <2>1 DEF Connecting, ClientType
  <2> QED BY <1>0, <2>1, <2>2, IdsStay DEF Registers
<1>13. PubIds' \subseteq PubIds /\ (Asking({"PUBLISH"})' => Asking({"PUBLISH"}))
  BY <1>0, <1>5, AskStayed
<1>14. SubackMids' \subseteq SubackMids
  <2>1. \A p \in ToldSet' : p \in ToldSet \/ p.type # "SUBACK"
    BY <1>4, <1>5, <1>6 DEF ToldSet, FromSet
  <2> QED BY <1>6, <2>1, TellStayed
<1> QED BY <1>0, <1>5, <1>7, <1>8, <1>9, <1>10, <1>11, <1>12, <1>13, <1>14, StaleRegisters

(* Without an open connection.                                             *)
LEMMA OfflineRegisters ==
  ASSUME Safely, ~Fresh, link' # "open", UNCHANGED <<sending, closing, up, down>>,
         \/ client' = client
         \/ /\ client \in ClientType /\ client' \in ClientType
            /\ client'.ids = client.ids /\ client'.waitedSub = client.waitedSub,
         brokerQ' = brokerQ \/ (brokerQ # <<>> /\ brokerQ' = Tail(brokerQ)),
         \/ /\ packetQ' = packetQ
            /\ fromBroker' \in {fromBroker, <<>>, Append(fromBroker, EOF)}
         \/ /\ packetQ' = Append(packetQ, [from |-> "broker", packet |-> [type |-> "DISCONNECT"]])
            /\ fromBroker' = <<>>
  PROVE  Registers'
<1>0. TypeInv /\ TypeInv' /\ Registers /\ UNCHANGED <<table, st, pend, nextMid>>
  BY DEF Safely, Aside, ardVars
<1> DEFINE p == [type |-> "DISCONNECT"]
           e == [from |-> "broker", packet |-> p]
<1>1. /\ p \in Disconnect /\ Kind(p) = "DISCONNECT" /\ p.type = "DISCONNECT"
      /\ e \in GatewayEvent /\ e.from = "broker" /\ e.packet = p /\ "DISCONNECT" \in KindSet
      /\ packetQ' = packetQ \/ packetQ' = Append(packetQ, e)
  BY DEF Disconnect, Kind, GatewayEvent, KindSet
<1>2. EOF \in AnyPacket /\ Kind(EOF) = "EOF" /\ EOF.type = "EOF" /\ "EOF" \in KindSet
  BY DEF AnyPacket, FromBroker, EOF, Kind, KindSet
<1> HIDE DEF e, p
<1>3. /\ ToldIn' = ToldIn \/ ToldIn' = Append(ToldIn, "DISCONNECT")
      /\ EventsOf("broker", packetQ)' \subseteq EventsOf("broker", packetQ) \cup {p}
      /\ EventsOf("client", packetQ)' \subseteq EventsOf("client", packetQ)
  <2>1. /\ KindsFrom("broker", Append(packetQ, e)) = Append(ToldIn, "DISCONNECT")
        /\ EventsOf("client", Append(packetQ, e)) \subseteq EventsOf("client", packetQ)
        /\ EventsOf("broker", Append(packetQ, e)) \subseteq EventsOf("broker", packetQ) \cup {p}
    BY <1>0, <1>1, QueueKinds
  <2> QED BY <1>1, <2>1 DEF ToldIn
<1>4. /\ ToldOut' \in {ToldOut, <<>>, Append(ToldOut, "EOF")}
      /\ Held(fromBroker)' \subseteq Held(fromBroker) \cup {EOF}
  <2>1. /\ Kinds(Append(fromBroker, EOF)) = Append(ToldOut, "EOF") /\ Kinds(<<>>) = <<>>
        /\ Held(Append(fromBroker, EOF)) \subseteq Held(fromBroker) \cup {EOF} /\ Held(<<>>) = {}
    BY <1>0, <1>2, QueueKinds, HeldFew
  <2>2. fromBroker' \in {fromBroker, <<>>, Append(fromBroker, EOF)}
    OBVIOUS
  <2> QED BY <2>1, <2>2 DEF ToldOut
<1>5. ToldDown' = ToldDown /\ Held(down)' = Held(down)
  BY DEF ToldDown
<1>6. Held(brokerQ)' \subseteq Held(brokerQ) /\ Requested' \subseteq Requested
  <2>1. Held(brokerQ)' \subseteq Held(brokerQ)
    BY <1>0, QueueKinds
  <2> QED BY <1>3, <2>1 DEF Requested
<1>7. TellLeads => TellLeads'
  <2> DEFINE A == {"ACCEPTED"}
             B == {"SUBACK"}
  <2>0. "DISCONNECT" \notin B /\ "EOF" \notin B
    OBVIOUS
  <2> HIDE DEF A, B
  <2>a. ToldIn \in Seq(KindSet) /\ ToldOut \in Seq(KindSet)
    BY <1>0, Ways
  <2>b. /\ Led(Append(ToldIn, "DISCONNECT"), A, B) <=> Led(ToldIn, A, B)
        /\ Has(ToldIn, A) => Has(Append(ToldIn, "DISCONNECT"), A)
    BY <1>1, <2>0, <2>a, LedAdded
  <2>c. Led(Append(ToldOut, "EOF"), A, B) <=> Led(ToldOut, A, B)
    BY <1>2, <2>0, <2>a, LedAdded
  <2>1. Led(ToldIn, A, B) => Led(ToldIn', A, B)
    BY <1>3, <2>b
  <2>2. Has(ToldIn, A) => Has(ToldIn', A)
    BY <1>3, <2>b
  <2>3. Led(ToldOut, A, B) => Led(ToldOut', A, B)
    BY <1>4, <2>c, LedEmpty
  <2> QED BY <1>5, <2>1, <2>2, <2>3 DEF TellLeads, Leads, A, B
<1>8. LinkInv' /\ ~Fresh'
  BY <1>0 DEF LinkInv, Registers, Fresh
<1>9. WaitedIds' \subseteq KnownIds'
  BY <1>0, IdsStay DEF Registers
<1>10. PubIds' \subseteq PubIds /\ (Asking({"PUBLISH"})' => Asking({"PUBLISH"}))
  BY <1>0, <1>6, AskStayed
<1>11. SubackMids' \subseteq SubackMids
  <2>1. \A x \in ToldSet' : x \in ToldSet \/ x.type # "SUBACK"
    BY <1>1, <1>2, <1>3, <1>4, <1>5 DEF ToldSet, FromSet
  <2> QED BY <1>5, <2>1, TellStayed
<1> QED BY <1>0, <1>6, <1>7, <1>8, <1>9, <1>10, <1>11, StaleRegisters

(* The broker's answers.                                                   *)
LEMMA ReplyKinds ==
  ASSUME NEW p \in ToBroker
  PROVE  \/ Reply(p) = <<>> /\ p.type # "SUBSCRIBE"
         \/ \E x \in FromBroker : /\ Reply(p) = <<x>> /\ Kind(x) = x.type
                                  /\ \/ p.type = "SUBSCRIBE" /\ x.type = "SUBACK" /\ x.mid = p.mid
                                     \/ p.type # "SUBSCRIBE" /\ x.type \in {"PUBACK", "PUBREL"}
<1>1. CASE p.type = "SUBSCRIBE"
  <2> DEFINE x == [type |-> "SUBACK", mid |-> p.mid]
  <2>1. p \in Subscription /\ Reply(p) = <<x>>
    BY <1>1, ToBrokerKinds DEF Reply
  <2>2. x \in FromBroker /\ Kind(x) = x.type /\ x.type = "SUBACK" /\ x.mid = p.mid
    BY <2>1 DEF Subscription, FromBroker, BrokerPacket, BrokerAck, Kind
  <2> HIDE DEF x
  <2> QED BY <1>1, <2>1, <2>2
<1>2. CASE p.type = "PUBLISH"
  <2> DEFINE x == [type |-> "PUBACK", mid |-> p.mid]
  <2>1. p \in Forwarded /\ (Reply(p) = <<x>> \/ Reply(p) = <<>>)
    BY <1>2, ToBrokerKinds DEF Reply
  <2>2. x \in FromBroker /\ Kind(x) = x.type /\ x.type = "PUBACK"
    BY <2>1 DEF Forwarded, FromBroker, BrokerPacket, BrokerAck, Kind
  <2> HIDE DEF x
  <2> QED BY <1>2, <2>1, <2>2
<1>3. CASE p.type = "PUBREC"
  <2> DEFINE x == [type |-> "PUBREL", mid |-> p.mid]
  <2>1. p \in Ack /\ Reply(p) = <<x>>
    BY <1>3, ToBrokerKinds DEF Reply
  <2>2. x \in FromBroker /\ Kind(x) = x.type /\ x.type = "PUBREL"
    BY <2>1 DEF Ack, FromBroker, BrokerPacket, BrokerAck, Kind
  <2> HIDE DEF x
  <2> QED BY <1>3, <2>1, <2>2
<1>4. CASE p.type \notin {"SUBSCRIBE", "PUBLISH", "PUBREC"}
  BY <1>4 DEF Reply
<1> QED BY <1>1, <1>2, <1>3, <1>4

LEMMA TakePacketRegisters ==
  ASSUME Safely, BrokerSendTask, Head(brokerQ).type # "CONNECT", link = "open",
         TakePacket(Head(brokerQ)), UNCHANGED <<packetQ, sending, client>>
  PROVE  Registers'
<1>0. TypeInv /\ TypeInv' /\ Registers /\ UNCHANGED <<table, st, pend, nextMid>>
  BY DEF Safely, Aside, ardVars
<1> DEFINE p == Head(brokerQ)
<1>1. /\ brokerQ # <<>> /\ brokerQ' = Tail(brokerQ) /\ UNCHANGED <<up, down, closing, link>>
      /\ fromBroker' = fromBroker \o Reply(p)
  BY DEF BrokerSendTask, TakePacket
<1>2. /\ AskedOut # <<>> /\ Head(AskedOut) = p.type
      /\ AskedOut' = Tail(AskedOut) /\ AskedIn' = AskedIn /\ AskedUp' = AskedUp
      /\ Requested' = Requested /\ Held(brokerQ)' \subseteq Held(brokerQ)
      /\ p \in Held(brokerQ) /\ p \in ToBroker
      /\ EventsOf("broker", packetQ)' = EventsOf("broker", packetQ)
  BY <1>0, <1>1, AskedSent
<1>3. /\ broker.subs \subseteq broker'.subs
      /\ p.type = "SUBSCRIBE" => p.topic \in broker'.subs
  <2>1. broker \in BrokerType
    BY <1>0 DEF TypeInv, GatewayOK
  <2> QED BY <2>1 DEF TakePacket, BrokerType
<1> HIDE DEF p
<1>4. p.type # "CONNECT"
  BY DEF p
<1>5. AskLevel
  <2>1. Head(AskedOut) \notin {"CONNECT"}
    BY <1>2, <1>4
  <2> QED BY <1>0, <1>2, <2>1, Ways, LevelAway DEF AskLevel
<1>6. ToldDown' = ToldDown /\ ToldIn' = ToldIn /\ Held(down)' = Held(down)
  BY <1>1 DEF ToldDown, ToldIn
<1>7. Has(AskedOut, {"CONNECT"}) => Has(AskedOut, {"CONNECT"})'
  BY <1>0, <1>2, <1>4, Ways, TailKinds
<1>8. KnownIds' = KnownIds /\ WaitedIds' \subseteq KnownIds'
  BY <1>0, IdsStay DEF Registers
<1>9. PubIds' \subseteq PubIds /\ (Asking({"PUBLISH"})' => Asking({"PUBLISH"}))
  BY <1>0, <1>2, AskStayed
<1>10. CASE Reply(p) = <<>> /\ p.type # "SUBSCRIBE"
  <2>1. fromBroker' = fromBroker
    BY <1>0, <1>1, <1>10, Queues, ConcatEmptySeq
  <2>2. ToldOut' = ToldOut /\ ToldSet' = ToldSet
    BY <1>2, <1>6, <2>1 DEF ToldOut, ToldSet, FromSet
  <2>3. TellLevel
    BY <1>6, <2>2, LevelItself DEF TellLevel
  <2>4. GivenIds' \subseteq GivenIds /\ SubackMids' \subseteq SubackMids
    BY <1>6, <2>2, TellStayed
  <2>5. LinkInv'
    BY <1>0, <1>1, <1>6, <1>7, <2>2, LinkKept DEF Registers
  <2> QED BY <1>0, <1>1, <1>2, <1>3, <1>5, <1>8, <1>9, <2>3, <2>4, <2>5, LittleRegisters
<1>11. ASSUME NEW x \in FromBroker, Reply(p) = <<x>>, Kind(x) = x.type,
              \/ p.type = "SUBSCRIBE" /\ x.type = "SUBACK" /\ x.mid = p.mid
              \/ p.type # "SUBSCRIBE" /\ x.type \in {"PUBACK", "PUBREL"}
       PROVE  Registers'
  <2>1. fromBroker' = Append(fromBroker, x) /\ x \in AnyPacket
    BY <1>0, <1>1, <1>11, Queues, AppendIsConcat DEF AnyPacket
  <2>2. /\ ToldOut' = Append(ToldOut, x.type) /\ x.type \in KindSet
        /\ Held(fromBroker)' \subseteq Held(fromBroker) \cup {x}
    BY <1>0, <1>11, <2>1, QueueKinds DEF ToldOut
  <2>3. \A A : Has(ToldOut', A) <=> Has(ToldOut, A) \/ x.type \in A
    BY <1>0, <2>2, Ways, AddedKind
  <2>4. LinkInv'
    <3>1. x.type \notin Bad
      BY <1>11 DEF Bad
    <3> QED BY <1>0, <1>1, <1>6, <1>7, <2>3, <3>1, LinkKept DEF Registers
  <2>5. x.type # "ACCEPTED"
    BY <1>11
  <2>6. ToldSet' \subseteq ToldSet \cup {x}
    BY <1>2, <1>6, <2>2 DEF ToldSet, FromSet
  <2>7. GivenIds' \subseteq GivenIds
    BY <1>6 DEF GivenIds
  <2>8. CASE p.type # "SUBSCRIBE"
    <3>1. x.type \notin {"ACCEPTED"} /\ x.type \notin {"SUBACK"}
      BY <1>11, <2>8
    <3>2. Level(ToldDown, ToldIn, ToldOut, ToldDown, ToldIn, Append(ToldOut, x.type), {"ACCEPTED"}, {"SUBACK"})
      BY <1>0, <2>2, <3>1, Ways, LevelIn
    <3>3. TellLevel
      BY <1>6, <2>2, <3>2 DEF TellLevel
    <3>4. SubackMids' \subseteq SubackMids
      BY <1>6, <2>6, <3>1, TellStayed
    <3> QED BY <1>0, <1>1, <1>2, <1>3, <1>5, <1>8, <1>9, <2>4, <2>7, <3>3, <3>4, LittleRegisters
  <2>9. CASE p.type = "SUBSCRIBE"
    <3>1. OwnMid(p.mid, p.topic) /\ x.mid = p.mid /\ x.type = "SUBACK"
      BY <1>0, <1>2, <1>11, <2>9 DEF Registers, SubscribedInv
    <3>2. Asking({"CONNECT"})' <=> Asking({"CONNECT"})
      BY <1>5 DEF AskLevel, Level, Asking
    <3>3. Telling({"ACCEPTED"})' <=> Telling({"ACCEPTED"})
      BY <1>6, <2>3, <2>5 DEF Telling, Anywhere
    <3>4. Filled' = Filled /\ (Fresh' <=> Fresh)
      BY <1>0, <1>1, <3>2, <3>3 DEF Filled, Fresh
    <3>5. StaleInv'
      <4> SUFFICES ASSUME Filled, ~Fresh PROVE StaleInv'
        BY <3>4 DEF StaleInv
      <4>1. ~AskLeads
        <5>1. Head(AskedOut) \in {"SUBSCRIBE"} /\ AskedOut \in Seq(KindSet)
          BY <1>0, <1>2, <2>9, Ways
        <5>2. ~Led(AskedOut, {"CONNECT"}, {"SUBSCRIBE"})
          BY <1>2, <5>1, LedTail
        <5> QED BY <5>2 DEF AskLeads, Leads
      <4>2. TellLeads /\ Telling({"ACCEPTED"})
        BY <1>0, <4>1 DEF Registers, StaleInv
      <4>3. TellLeads'
        <5>1. Anywhere(ToldDown, ToldIn, ToldOut, {"ACCEPTED"}) /\ x.type \notin {"ACCEPTED"}
          BY <2>5, <4>2 DEF Telling
        <5>2. Level(ToldDown, ToldIn, ToldOut, ToldDown, ToldIn, Append(ToldOut, x.type), {"ACCEPTED"}, {"SUBACK"})
          BY <1>0, <2>2, <5>1, Ways, LevelIn
        <5> QED BY <1>6, <2>2, <4>2, <5>2 DEF Level, TellLeads
      <4> QED BY <3>3, <4>2, <4>3 DEF StaleInv
    <3>6. SubackMids' \subseteq SubackMids \cup {p.mid}
      <4>1. SubackMids' = {q.mid : q \in {r \in ToldSet' : r.type = "SUBACK"}}
        BY DEF SubackMids
      <4> QED BY <2>6, <3>1, <4>1 DEF SubackMids
    <3>7. SubscribedInv'
      <4>1. \A m, t : OwnMid(m, t)' <=> OwnMid(m, t)
        BY <1>0, <3>4 DEF OwnMid
      <4>2. SubscribedInv /\ p.topic \in broker'.subs
        BY <1>0, <1>3, <2>9 DEF Registers
      <4>3. SubackMids' \subseteq 1 .. nextMid' - 1
        BY <1>0, <3>1, <3>6, <4>2 DEF SubscribedInv, OwnMid
      <4>4. Filled' /\ Fresh' => \A t \in Topic : table'[t].mid \in SubackMids' => t \in broker'.subs
        BY <1>0, <1>3, <3>1, <3>4, <3>6, <4>2 DEF SubscribedInv, OwnMid
      <4>5. \A q \in Held(brokerQ)' : q.type = "SUBSCRIBE" => OwnMid(q.mid, q.topic)'
        BY <1>2, <4>1, <4>2 DEF SubscribedInv
      <4> QED BY <4>3, <4>4, <4>5 DEF SubscribedInv
    <3> QED BY <1>0, <1>2, <1>3, <1>8, <1>9, <2>4, <2>7, <3>4, <3>5, <3>7, SteadyRegisters
  <2> QED BY <2>8, <2>9
<1> QED BY <1>2, <1>10, <1>11, ReplyKinds

LEMMA SendPacketRegisters ==
  ASSUME Safely, BrokerSendTask, SendPacket
  PROVE  Registers'
<1>1. /\ brokerQ # <<>> /\ brokerQ' = Tail(brokerQ) /\ Head(brokerQ).type # "CONNECT"
      /\ UNCHANGED <<up, down, closing, sending, client>>
  BY DEF BrokerSendTask, SendPacket
<1>2. ~Broken(Head(brokerQ))
  <2>1. Head(brokerQ) \in Held(brokerQ)
    BY <1>1, AskedSent, QueueKinds DEF Safely
  <2> QED BY <2>1 DEF Safely, Registers, ReadyInv, Broken
<1>3. CASE link = "open" /\ TakePacket(Head(brokerQ)) /\ UNCHANGED packetQ
  BY <1>1, <1>3, TakePacketRegisters
<1>4. CASE link # "open" /\ link' # "open"
           /\ \/ packetQ' = packetQ /\ fromBroker' \in {fromBroker, <<>>, Append(fromBroker, EOF)}
              \/ /\ packetQ' = Append(packetQ, [from |-> "broker", packet |-> [type |-> "DISCONNECT"]])
                 /\ fromBroker' = <<>>
  <2>1. ~Fresh
    BY <1>4 DEF Fresh
  <2> QED BY <1>1, <1>4, <2>1, OfflineRegisters
<1>5. \/ link = "open" /\ TakePacket(Head(brokerQ)) /\ UNCHANGED packetQ
      \/ link = "none" /\ CloseByBroker /\ UNCHANGED packetQ
      \/ link = "closed" /\ UNCHANGED <<packetQ, brokerVars>>
      \/ /\ link = "closed" /\ link' = "none" /\ fromBroker' = <<>>
         /\ packetQ' = Append(packetQ, [from |-> "broker", packet |-> [type |-> "DISCONNECT"]])
  BY <1>2 DEF SendPacket
<1>6. \/ link = "open" /\ TakePacket(Head(brokerQ)) /\ UNCHANGED packetQ
      \/ /\ link # "open" /\ link' # "open"
         /\ \/ packetQ' = packetQ /\ fromBroker' \in {fromBroker, <<>>, Append(fromBroker, EOF)}
            \/ /\ packetQ' = Append(packetQ, [from |-> "broker", packet |-> [type |-> "DISCONNECT"]])
               /\ fromBroker' = <<>>
  BY <1>5 DEF CloseByBroker, brokerVars
<1> QED BY <1>3, <1>4, <1>6

LEMMA SendFailsRegisters ==
  ASSUME Safely, BrokerSendTask, SendFails
  PROVE  Registers'
<1>1. /\ brokerQ # <<>> /\ brokerQ' = Tail(brokerQ) /\ link' = "none" /\ fromBroker' = <<>>
      /\ UNCHANGED <<up, down, closing, sending, client, packetQ>>
      /\ Head(brokerQ).type = "CONNECT" \/ link = "none"
  BY DEF BrokerSendTask, SendFails
<1>2. ~Fresh
  <2>1. CASE Head(brokerQ).type = "CONNECT"
    <3>1. AskedOut # <<>> /\ Head(AskedOut) = "CONNECT" /\ AskedOut \in Seq(KindSet)
      BY <1>1, <2>1, AskedSent, Ways DEF Safely
    <3>2. Has(AskedOut, {"CONNECT"})
      BY <3>1, TailKinds
    <3> QED BY <3>2 DEF Fresh, Asking, Anywhere
  <2> QED BY <1>1, <2>1 DEF Fresh
<1> QED BY <1>1, <1>2, OfflineRegisters

LEMMA ReadPacketRegisters ==
  ASSUME Safely, ReadPacket
  PROVE  Registers'
<1>0. TypeInv /\ TypeInv' /\ Registers /\ UNCHANGED <<table, st, pend, nextMid>>
  BY DEF Safely, Aside, ardVars
<1> DEFINE p == Head(fromBroker)
           e == [from |-> "broker", packet |-> p]
           k == Kind(p)
<1>1. /\ fromBroker # <<>> /\ p \in FromBroker /\ p # EOF /\ p \in Held(fromBroker)
      /\ ToldOut # <<>> /\ Head(ToldOut) = k /\ p \in AnyPacket
  BY <1>0, QueueKinds DEF ReadPacket, AnyPacket
<1>2. e \in GatewayEvent /\ e.from = "broker" /\ e.packet = p
  <2>1. p \in BrokerPacket
    BY <1>1 DEF FromBroker, EOF
  <2> QED BY <2>1 DEF GatewayEvent
<1>3. /\ packetQ' = Append(packetQ, e) /\ fromBroker' = Tail(fromBroker) /\ k \in KindSet
      /\ UNCHANGED <<up, down, brokerQ, client, link, sending, closing, broker>>
      /\ "-" \in KindSet
  <2>1. UNCHANGED <<up, down, brokerQ, client, link, sending, closing, broker>>
    BY DEF ReadPacket, netVars
  <2> QED BY <1>1, <2>1, KindType DEF ReadPacket, KindSet
<1> HIDE DEF e, p, k
<1>4. /\ AskedOut' = AskedOut /\ AskedIn' = Append(AskedIn, "-") /\ AskedUp' = AskedUp
      /\ ToldDown' = ToldDown /\ ToldIn' = Append(ToldIn, k) /\ ToldOut' = Tail(ToldOut)
  <2>1. /\ KindsFrom("client", Append(packetQ, e)) = Append(AskedIn, "-")
        /\ KindsFrom("broker", Append(packetQ, e)) = Append(ToldIn, k)
    BY <1>0, <1>2, QueueKinds DEF k
  <2>2. Kinds(Tail(fromBroker)) = Tail(ToldOut)
    BY <1>0, <1>1, QueueKinds
  <2> QED BY <1>3, <2>1, <2>2 DEF AskedOut, AskedIn, AskedUp, ToldDown, ToldIn, ToldOut
<1>5. AskLevel
  BY <1>0, <1>3, <1>4, Ways, LevelIn DEF AskLevel
<1>6. TellLevel
  BY <1>0, <1>1, <1>3, <1>4, Ways, LevelOn DEF TellLevel
<1>7. /\ EventsOf("client", packetQ') \subseteq EventsOf("client", packetQ)
      /\ EventsOf("broker", packetQ') \subseteq EventsOf("broker", packetQ) \cup {p}
      /\ Held(fromBroker') \subseteq Held(fromBroker)
  BY <1>0, <1>1, <1>2, <1>3, QueueKinds
<1>8. /\ Requested' \subseteq Requested /\ Held(brokerQ)' = Held(brokerQ)
      /\ ToldSet' \subseteq ToldSet /\ Held(down)' = Held(down)
  BY <1>1, <1>3, <1>7 DEF Requested, ToldSet, FromSet
<1>9. /\ PubIds' \subseteq PubIds /\ (Asking({"PUBLISH"})' => Asking({"PUBLISH"}))
      /\ GivenIds' \subseteq GivenIds /\ SubackMids' \subseteq SubackMids
  BY <1>0, <1>8, AskStayed, TellStayed
<1>10. KnownIds' = KnownIds /\ WaitedIds' \subseteq KnownIds'
  BY <1>0, <1>3, IdsStay DEF Registers
<1>11. LinkInv'
  <2> SUFFICES ASSUME link = "open" PROVE LinkInv'
    BY <1>0, <1>3 DEF LinkInv, Registers
  <2> DEFINE A == {"ACCEPTED"}
  <2>1. /\ ~Has(ToldOut, Bad) /\ (Has(ToldOut, A) \/ Trailed(ToldIn, A, Bad))
        /\ \/ Has(AskedOut, {"CONNECT"}) \/ Has(ToldIn, A) \/ Has(ToldOut, A)
           \/ client.status = "Active"
    BY <1>0 DEF LinkInv, Registers
  <2>2. \A B : Has(ToldOut, B) <=> k \in B \/ Has(ToldOut', B)
    BY <1>0, <1>1, <1>4, Ways, TailKinds
  <2>3. k \notin Bad /\ ~Has(ToldOut', Bad)
    BY <2>1, <2>2
  <2>4. \A B : Has(ToldIn', B) <=> Has(ToldIn, B) \/ k \in B
    BY <1>0, <1>3, <1>4, Ways, AddedKind
  <2>5. Has(ToldOut', A) \/ Trailed(ToldIn', A, Bad)
    <3>1. Trailed(ToldIn, A, Bad) \/ k \in A => Trailed(ToldIn', A, Bad)
      BY <1>0, <1>3, <1>4, <2>3, Ways, TrailedAdded
    <3> QED BY <2>1, <2>2, <3>1
  <2>6. \/ Has(AskedOut, {"CONNECT"}) \/ Has(ToldIn', A) \/ Has(ToldOut', A)
        \/ client.status = "Active"
    BY <2>1, <2>2, <2>4
  <2> QED BY <1>0, <1>3, <1>4, <2>3, <2>5, <2>6 DEF LinkInv, Registers
<1> QED BY <1>0, <1>3, <1>5, <1>6, <1>8, <1>9, <1>10, <1>11, LittleRegisters

LEMMA ReadEofRegisters ==
  ASSUME Safely, ReadEof, SessionIsOwn'
  PROVE  Registers'
<1>1. /\ link' = "none" /\ fromBroker' = <<>> /\ client' = [client EXCEPT !.status = "Disconnected"]
      /\ UNCHANGED <<up, down, packetQ, brokerQ, sending, closing>>
  <2>1. ~Fault("preempted")
    BY OwnExcludes
  <2> QED BY <2>1 DEF ReadEof, CloseAndDisconnect
<1>2. fromBroker # <<>> /\ Head(fromBroker) = EOF
  BY DEF ReadEof
<1>3. ~Fresh
  <2>1. ToldOut # <<>> /\ Head(ToldOut) = "EOF" /\ ToldOut \in Seq(KindSet)
    BY <1>2, QueueKinds, Ways DEF Safely, Kind, EOF
  <2>2. Has(ToldOut, Bad)
    BY <2>1, TailKinds DEF Bad
  <2> QED BY <2>2 DEF Safely, Registers, LinkInv, Fresh
<1>4. /\ client \in ClientType /\ client' \in ClientType
      /\ client'.ids = client.ids /\ client'.waitedSub = client.waitedSub
  <2>1. client \in ClientType
    BY <1>2 DEF Safely, TypeInv, GatewayOK
  <2> QED BY <1>1, <2>1 DEF ClientType
<1> QED BY <1>1, <1>3, <1>4, OfflineRegisters

LEMMA CommandArrivesRegisters ==
  ASSUME Safely, NEW t \in Command, CommandArrives(t)
  PROVE  Registers'
<1>0. TypeInv /\ TypeInv' /\ Registers /\ UNCHANGED <<table, st, pend, nextMid>>
  BY DEF Safely, Aside, ardVars
<1>1. /\ UNCHANGED <<up, down, client, packetQ, brokerQ, sending, closing, link>>
  BY DEF CommandArrives, netVars, pahoVars
<1>2. broker'.subs = broker.subs
  <2>1. broker \in BrokerType
    BY <1>0 DEF TypeInv, GatewayOK
  <2> QED BY <2>1 DEF CommandArrives, BrokerType
<1> DEFINE x == [type |-> "PUBLISH", topic |-> t, qos |-> IF t = Cmd1 THEN 1 ELSE 2,
                 mid |-> broker.lastMid + 1, cmd |-> [topic |-> t, n |-> commands[t]]]
<1>3. fromBroker' = Append(fromBroker, x)
  BY DEF CommandArrives
<1>4. x \in AnyPacket /\ Kind(x) = "PUBLISH" /\ x.type = "PUBLISH"
  <2>1. broker.lastMid + 1 \in Nat /\ commands[t] \in Nat
    BY <1>0 DEF TypeInv, GatewayOK, BrokerType
  <2>2. [topic |-> t, n |-> commands[t]] \in Message
    BY <2>1, Roles DEF Message
  <2>3. x \in CommandTaken
    BY <2>1, <2>2 DEF CommandTaken
  <2> QED BY <2>3 DEF AnyPacket, FromBroker, BrokerPacket, Kind
<1> HIDE DEF x
<1>5. /\ ToldOut' = Append(ToldOut, "PUBLISH") /\ "PUBLISH" \in KindSet
      /\ Held(fromBroker)' \subseteq Held(fromBroker) \cup {x}
  BY <1>0, <1>3, <1>4, QueueKinds DEF ToldOut
<1>6. /\ AskedOut' = AskedOut /\ AskedIn' = AskedIn /\ AskedUp' = AskedUp
      /\ ToldDown' = ToldDown /\ ToldIn' = ToldIn /\ Held(down)' = Held(down)
      /\ Requested' = Requested /\ Held(brokerQ)' = Held(brokerQ)
  BY <1>1 DEF AskedOut, AskedIn, AskedUp, ToldDown, ToldIn, Requested
<1>7. AskLevel
  BY <1>6, LevelItself DEF AskLevel
<1>8. TellLevel
  BY <1>0, <1>5, <1>6, Ways, LevelIn DEF TellLevel
<1>9. /\ PubIds' \subseteq PubIds /\ (Asking({"PUBLISH"})' => Asking({"PUBLISH"}))
  BY <1>0, <1>6, AskStayed
<1>10. GivenIds' \subseteq GivenIds /\ SubackMids' \subseteq SubackMids
  <2>1. \A y \in ToldSet' : y \in ToldSet \/ y.type # "SUBACK"
    BY <1>1, <1>4, <1>5, <1>6 DEF ToldSet, FromSet
  <2> QED BY <1>6, <2>1, TellStayed
<1>11. KnownIds' = KnownIds /\ WaitedIds' \subseteq KnownIds'
  BY <1>0, <1>1, IdsStay DEF Registers
<1>12. LinkInv'
  <2>1. \A A : Has(ToldOut', A) <=> Has(ToldOut, A) \/ "PUBLISH" \in A
    BY <1>0, <1>5, Ways, AddedKind
  <2>2. "PUBLISH" \notin Bad
    BY DEF Bad
  <2> QED BY <1>0, <1>1, <1>6, <2>1, <2>2, LinkKept DEF Registers
<1> QED BY <1>0, <1>1, <1>2, <1>6, <1>7, <1>8, <1>9, <1>10, <1>11, <1>12, LittleRegisters

(* Every step of the gateway, the broker and those who send commands.      *)
LEMMA GatewayRegisters ==
  ASSUME Safely, NEW w \in World, IdInv(w), SessionIsOwn',
         \/ ClientRecvTask \/ PacketHandleTask \/ BrokerSendTask \/ ConnectSended
         \/ BrokerRecvTask \/ BrokerRecvClose
         \/ (\E t \in Command : CommandArrives(t))
         \/ BrokerDrops \/ GatewayRestart
  PROVE  Registers'
<1>1. ~sending /\ ~closing
  BY DEF Safely, Registers, LinkInv
<1>2. ~Fault("dropped") /\ ~Fault("restart")
  BY OwnExcludes
<1>3. ~ConnectSended /\ ~BrokerRecvClose /\ ~BrokerDrops /\ ~GatewayRestart
  BY <1>1, <1>2 DEF ConnectSended, BrokerRecvClose, BrokerDrops, GatewayRestart
<1>4. CASE BrokerSendTask
  <2>1. SendConnect \/ SendPacket \/ SendFails
    BY <1>4 DEF BrokerSendTask
  <2> QED BY <1>4, <2>1, SendConnectRegisters, SendPacketRegisters, SendFailsRegisters
<1>5. CASE BrokerRecvTask
  BY <1>5, ReadPacketRegisters, ReadEofRegisters DEF BrokerRecvTask
<1> QED BY <1>3, <1>4, <1>5, ClientRecvRegisters, PacketHandleRegisters, CommandArrivesRegisters

(***************************************************************************)
(* The Arduino's steps.                                                    *)
(***************************************************************************)
Calmly == TypeInv /\ TypeInv' /\ Registers /\ Onward

LEMMA ClientStepKeeps ==
  ASSUME Calmly
  PROVE  /\ UNCHANGED <<client, link, broker, packetQ, brokerQ, fromBroker, sending, closing>>
         /\ AskedOut' = AskedOut /\ AskedIn' = AskedIn /\ ToldIn' = ToldIn /\ ToldOut' = ToldOut
         /\ KnownIds' = KnownIds /\ WaitedIds' \subseteq KnownIds'
         /\ Held(brokerQ)' = Held(brokerQ) /\ FromSet' = FromSet
         /\ LinkInv'
<1>1. UNCHANGED <<client, link, broker, packetQ, brokerQ, fromBroker, sending, closing>>
  BY DEF Calmly, Onward, gatewayVars, pahoVars, brokerVars
<1>2. AskedOut' = AskedOut /\ AskedIn' = AskedIn /\ ToldIn' = ToldIn /\ ToldOut' = ToldOut
  BY <1>1 DEF AskedOut, AskedIn, ToldIn, ToldOut
<1>3. KnownIds' = KnownIds /\ WaitedIds' \subseteq KnownIds'
  BY <1>1, IdsStay DEF Calmly, Registers
<1>4. LinkInv'
  BY <1>1, <1>2, LinkKept DEF Calmly, Registers
<1> QED BY <1>1, <1>2, <1>3, <1>4 DEF FromSet

LEMMA EmptyStays ==
  ASSUME Calmly, ~Asking({"SUBSCRIBE", "PUBLISH"}), ~Telling(Given), down' = down,
         up' = up \/ \E p \in UpPacket : up' = Append(up, p) /\ Kind(p) \in {"CONNECT", "REGISTER"},
         pend' = None, st' # "READY", table' = None \/ \A t \in Topic : table'[t].id = 0
  PROVE  Registers'
<1>1. /\ UNCHANGED <<packetQ, brokerQ, fromBroker>> /\ TypeInv /\ TypeInv'
      /\ AskedOut' = AskedOut /\ AskedIn' = AskedIn
      /\ LinkInv' /\ WaitedIds' \subseteq KnownIds'
  BY ClientStepKeeps DEF Calmly
<1>2. ~Telling(Given)'
  <2>1. ToldDown' = ToldDown /\ ToldIn' = ToldIn /\ ToldOut' = ToldOut
    BY <1>1, ToldIsKept
  <2> QED BY <2>1 DEF Telling, Given
<1>3. ~Asking({"SUBSCRIBE", "PUBLISH"})'
  <2>1. CASE up' = up
    BY <1>1, <2>1 DEF Asking, AskedUp
  <2>2. ASSUME NEW p \in UpPacket, up' = Append(up, p), Kind(p) \in {"CONNECT", "REGISTER"}
        PROVE  ~Asking({"SUBSCRIBE", "PUBLISH"})'
    <3>1. \A A : Asking(A)' <=> Asking(A) \/ Kind(p) \in A
      BY <1>1, <2>2, SendingOne
    <3>2. Kind(p) \notin {"SUBSCRIBE", "PUBLISH"}
      BY <2>2
    <3> QED BY <3>1, <3>2
  <2> QED BY <2>1, <2>2
<1> QED BY <1>1, <1>2, <1>3, EmptyRegisters

LEMMA OwnIsPunctual ==
  ASSUME SessionIsOwn', Onward
  PROVE  SessionIsOwn /\ Punctual /\ Punctual'
BY DEF SessionIsOwn, OnlySeen, Onward, Punctual, NeverSeen

(* Until it registers.                                                     *)
LEMMA BeginningRegisters ==
  ASSUME Calmly, Sound, Arduino, SessionIsOwn', ArdConnect \/ ArdConnectTimeout \/ ArdConnacked
  PROVE  Registers'
<1>0. TypeInv /\ Registers /\ Onward /\ Punctual
  BY OwnIsPunctual DEF Calmly
<1>1. /\ st \in {"INIT", "CONNECTING"} /\ st' # "READY" /\ pend' = pend /\ down' = down
  BY DEF ArdConnect, ArdConnectTimeout, ArdConnacked
<1>2. /\ ~Asking(Requests) /\ ~Telling(Given)
      /\ table = None \/ \A t \in Topic : table[t].id = 0
  BY <1>0, <1>1 DEF Sound, PhaseInv, Before
<1>3. ~Asking({"PUBLISH"}) /\ pend = None
  BY <1>0, <1>1 DEF Registers, ReadyInv
<1>4. ~Asking({"SUBSCRIBE", "PUBLISH"})
  BY <1>2, <1>3 DEF Asking, Anywhere, Has, Requests
<1>5. /\ up' = up \/ \E p \in UpPacket : up' = Append(up, p) /\ Kind(p) \in {"CONNECT", "REGISTER"}
      /\ table' = None \/ \A t \in Topic : table'[t].id = 0
  <2>1. CASE ArdConnect
    <3> DEFINE p == [type |-> "CONNECT"]
    <3>1. p \in UpPacket /\ Kind(p) = "CONNECT" /\ up' = Append(up, p) /\ table' = table
      BY <2>1 DEF ArdConnect, UpPacket, Connect, Kind, SendUp
    <3> HIDE DEF p
    <3> QED BY <1>2, <3>1
  <2>2. CASE ArdConnectTimeout
    BY <1>2, <2>2 DEF ArdConnectTimeout
  <2>3. CASE ArdConnacked
    <3> DEFINE tab == Refilled(table)
    <3>1. tab \in TableType /\ \A t \in Topic : tab[t].id = 0
      <4>1. \A t \in Topic : Unregistered[t].id = 0
        BY DEF Unregistered
      <4>2. CASE table = None
        BY <4>1, <4>2, UnregisteredType DEF Refilled
      <4>3. CASE table # None
        BY <1>0, <1>2, <4>3 DEF Refilled, TypeInv, ArdOK
      <4> QED BY <4>2, <4>3
    <3>2. Process(tab)
      BY <2>3 DEF ArdConnacked
    <3> HIDE DEF tab
    <3>3. up' = up \/ \E p \in UpPacket : up' = Append(up, p) /\ Kind(p) = "REGISTER"
      BY <1>0, <3>1, <3>2, ProcessBegins
    <3>4. table' = None \/ \A t \in Topic : table'[t].id = 0
      <4>1. CASE tab = None \/ FirstMissing(tab) = {}
        BY <3>1, <3>2, <4>1 DEF Process
      <4>2. CASE tab # None /\ FirstMissing(tab) # {}
        <5>1. PICK t \in Topic : \E mid : table' = [tab EXCEPT ![t].mid = mid]
          BY <3>1, <3>2, <4>2, ProcessAsks
        <5> QED BY <3>1, <5>1 DEF TableType
      <4> QED BY <4>1, <4>2
    <3> QED BY <3>3, <3>4
  <2> QED BY <2>1, <2>2, <2>3
<1> QED BY <1>1, <1>2, <1>3, <1>4, <1>5, EmptyStays

(* When it gives up registering, nothing is under way.                     *)
LEMMA GivingUpRegisters ==
  ASSUME Calmly, SessionIsOwn', ArdRegisterTimeout, InTime \/ Early
  PROVE  Registers'
<1>1. Quiet
  BY OwnExcludes DEF InTime, Early
<1>2. \A A : ~Asking(A) /\ ~Telling(A)
  BY <1>1, NothingUnderWay
<1>3. /\ UNCHANGED <<up, down>> /\ st = "REGISTERING" /\ st' = "INIT" /\ pend' = pend
      /\ table' = Invalidated(table)
  BY DEF ArdRegisterTimeout
<1>4. pend = None
  BY <1>3 DEF Calmly, Registers, ReadyInv
<1>5. table' = None \/ \A t \in Topic : table'[t].id = 0
  BY <1>3 DEF Invalidated
<1> QED BY <1>2, <1>3, <1>4, <1>5, EmptyStays

(* It sends a packet, or none.                                             *)
LEMMA ClientSends ==
  ASSUME Calmly, down' = down, NEW p \in UpPacket, up' = up \/ up' = Append(up, p)
  PROVE  /\ TellLevel /\ GivenIds' = GivenIds /\ SubackMids' = SubackMids
         /\ \A A : Asking(A)' => Asking(A) \/ Kind(p) \in A
         /\ \A q \in PubIds' : q \in PubIds \/ (p.type = "PUBLISH" /\ q = p.tid)
         /\ Kind(p) # "CONNECT" /\ (Kind(p) = "SUBSCRIBE" => Asking({"CONNECT"})) => AskLevel
         /\ Kind(p) # "CONNECT" => (Fresh' <=> Fresh)
<1>1. /\ UNCHANGED <<packetQ, brokerQ, fromBroker, link>> /\ TypeInv /\ TypeInv'
      /\ AskedOut' = AskedOut /\ AskedIn' = AskedIn /\ FromSet' = FromSet
  BY ClientStepKeeps DEF Calmly
<1>2. ToldDown' = ToldDown /\ ToldIn' = ToldIn /\ ToldOut' = ToldOut
  BY <1>1, ToldIsKept
<1>3. TellLevel /\ (Telling({"ACCEPTED"})' <=> Telling({"ACCEPTED"}))
  BY <1>2, LevelItself DEF TellLevel, Telling
<1>4. GivenIds' = GivenIds /\ SubackMids' = SubackMids
  BY <1>1 DEF GivenIds, SubackMids, ToldSet
<1>5. \A A : (Asking(A)' => Asking(A) \/ Kind(p) \in A) /\ (Asking(A) => Asking(A)')
  <2>1. CASE up' = up
    BY <1>1, <2>1 DEF Asking, AskedUp
  <2>2. CASE up' = Append(up, p)
    BY <1>1, <2>2, SendingOne
  <2> QED BY <2>1, <2>2
<1>6. \A q \in PubIds' : q \in PubIds \/ (p.type = "PUBLISH" /\ q = p.tid)
  <2>1. Held(up') \subseteq Held(up) \cup {p}
    BY <1>1, Queues, HeldMoves
  <2>2. Requested' \subseteq Requested \cup {p}
    BY <1>1, <2>1 DEF Requested
  <2>3. PubIds' = {x.tid : x \in {y \in Requested' : y.type = "PUBLISH"}}
    BY DEF PubIds
  <2> QED BY <2>2, <2>3 DEF PubIds
<1>7. ASSUME Kind(p) # "CONNECT", Kind(p) = "SUBSCRIBE" => Asking({"CONNECT"}) PROVE AskLevel
  <2>1. CASE up' = up
    BY <1>1, <2>1, LevelItself DEF AskLevel, AskedUp
  <2>2. CASE up' = Append(up, p)
    <3>1. p \in AnyPacket /\ Kind(p) \in KindSet
      BY KindType DEF AnyPacket
    <3>2. AskedUp' = Append(AskedUp, Kind(p))
      BY <1>1, <2>2, <3>1, Queues, KindsMove DEF AskedUp
    <3>3. /\ Kind(p) \notin {"CONNECT"}
          /\ Kind(p) \in {"SUBSCRIBE"} => Anywhere(AskedOut, AskedIn, AskedUp, {"CONNECT"})
      BY <1>7 DEF Asking
    <3>4. Level(AskedOut, AskedIn, AskedUp, AskedOut, AskedIn, Append(AskedUp, Kind(p)), {"CONNECT"}, {"SUBSCRIBE"})
      BY <1>1, <3>1, <3>3, Ways, LevelIn
    <3> QED BY <1>1, <3>2, <3>4 DEF AskLevel
  <2> QED BY <2>1, <2>2
<1>8. Kind(p) # "CONNECT" => (Fresh' <=> Fresh)
  BY <1>1, <1>3, <1>5 DEF Fresh
<1> QED BY <1>3, <1>4, <1>5, <1>6, <1>7, <1>8

(* An acknowledgement.                                                     *)
LEMMA AcknowledgingRegisters ==
  ASSUME Calmly, ArdAcknowledge
  PROVE  Registers'
<1>1. PICK p \in UpPacket : up' = Append(up, p) /\ p.type \in {"PUBACK", "PUBREC", "PUBCOMP"}
  <2>1. PICK k, m : up' = Append(up, [type |-> AckType(k), mid |-> m]) /\ k \in {"puback", "pubrec", "pubcomp"}
                    /\ m = owed[k]
    <3> DEFINE order == IF st = "REGISTERING" THEN <<"puback", "pubrec", "pubcomp">>
                        ELSE <<"pubrec", "pubcomp", "puback">>
    <3>1. PICK i \in FirstOwed(order) :
            SendUp([type |-> AckType(order[i]), mid |-> owed[order[i]]])
      BY Zenon DEF ArdAcknowledge
    <3>2. i \in DOMAIN order
      BY DEF FirstOwed
    <3>3. order[i] \in {"puback", "pubrec", "pubcomp"}
      BY <3>2
    <3> HIDE DEF order
    <3> QED BY <3>1, <3>3 DEF SendUp
  <2> DEFINE p == [type |-> AckType(k), mid |-> m]
  <2>2. owed \in [puback : Nat, pubrec : Nat, pubcomp : Nat]
    BY DEF Calmly, TypeInv, ArdOK
  <2>3. p.type \in {"PUBACK", "PUBREC", "PUBCOMP"} /\ p.mid \in Nat
    BY <2>1, <2>2 DEF AckType
  <2>4. p \in UpPacket
    BY <2>3 DEF UpPacket, Ack
  <2> HIDE DEF p
  <2>5. up' = Append(up, p)
    BY <2>1 DEF p
  <2> QED BY <2>3, <2>4, <2>5
<1>2. UNCHANGED <<down, st, table, nextMid, pend>>
  BY DEF ArdAcknowledge
<1>3. Kind(p) \in {"PUBACK", "PUBREC", "PUBCOMP"}
  BY <1>1 DEF Kind
<1>4. /\ TellLevel /\ GivenIds' = GivenIds /\ SubackMids' = SubackMids
      /\ AskLevel /\ (Asking({"PUBLISH"})' => Asking({"PUBLISH"}))
      /\ PubIds' \subseteq PubIds
  <2>1. /\ TellLevel /\ GivenIds' = GivenIds /\ SubackMids' = SubackMids
        /\ \A A : Asking(A)' => Asking(A) \/ Kind(p) \in A
        /\ \A q \in PubIds' : q \in PubIds \/ (p.type = "PUBLISH" /\ q = p.tid)
        /\ Kind(p) # "CONNECT" /\ (Kind(p) = "SUBSCRIBE" => Asking({"CONNECT"})) => AskLevel
    BY <1>1, <1>2, ClientSends
  <2> QED BY <1>1, <1>3, <2>1
<1>5. /\ UNCHANGED <<link, broker>> /\ KnownIds' = KnownIds /\ WaitedIds' \subseteq KnownIds'
      /\ Held(brokerQ)' = Held(brokerQ) /\ LinkInv' /\ Registers
  BY ClientStepKeeps DEF Calmly
<1> QED BY <1>2, <1>4, <1>5, LittleRegisters

(* A request for a topic.                                                  *)
LEMMA RequestingRegisters ==
  ASSUME Calmly, NoWrap, ArdRegister
  PROVE  Registers'
<1>0. TypeInv /\ Registers /\ table # None /\ table \in TableType /\ Filled
  BY DEF ArdRegister, MayRequest, Calmly, TypeInv, ArdOK, Filled
<1>1. UNCHANGED <<down, st, pend>> /\ st = "REGISTERING" /\ Process(table)
  BY DEF ArdRegister
<1>2. PICK p \in UpPacket, t \in Topic, m \in 1 .. MaxMid :
        /\ Kind(p) \in Requests
        /\ up' = up \/ up' = Append(up, p)
        /\ table' = [table EXCEPT ![t].mid = m]
        /\ \/ m = table[t].mid /\ nextMid' = nextMid
           \/ m = nextMid /\ nextMid' = nextMid + 1
  <2>1. FirstMissing(table) # {}
    <3>1. PICK i \in 1 .. 4 : table[Order[i]].id = 0 /\ \A j \in 1 .. i - 1 : table[Order[j]].id # 0
      <4>1. \E t \in Topic : table[t].id = 0
        <5>1. PICK t \in Topic : ~(TopicId(t) > 0)
          BY DEF ArdRegister, MayRequest, AllRegistered
        <5>2. table[t].id \in Nat
          BY <1>0 DEF TableType, Ids
        <5> QED BY <1>0, <5>1, <5>2 DEF TopicId
      <4>2. \/ table[Data1].id = 0 \/ table[Data2].id = 0
            \/ table[Cmd1].id = 0 \/ table[Cmd2].id = 0
        BY <4>1 DEF Topic, Sender, Command
      <4>3. Order[1] = Data1 /\ Order[2] = Data2 /\ Order[3] = Cmd1 /\ Order[4] = Cmd2
        BY DEF Order
      <4>4. CASE table[Data1].id = 0
        BY <4>3, <4>4
      <4>5. CASE table[Data1].id # 0 /\ table[Data2].id = 0
        BY <4>3, <4>5
      <4>6. CASE table[Data1].id # 0 /\ table[Data2].id # 0 /\ table[Cmd1].id = 0
        BY <4>3, <4>6
      <4>7. CASE table[Data1].id # 0 /\ table[Data2].id # 0 /\ table[Cmd1].id # 0 /\ table[Cmd2].id = 0
        BY <4>3, <4>7
      <4> QED BY <4>2, <4>4, <4>5, <4>6, <4>7
    <3>2. DOMAIN Order = 1 .. 4
      BY DEF Order
    <3> QED BY <3>1, <3>2 DEF FirstMissing
  <2>2. PICK t \in Topic :
           /\ table[t].id = 0
           /\ LET new == table[t].mid = 0
                  mid == IF new THEN nextMid ELSE table[t].mid
              IN  /\ table' = [table EXCEPT ![t].mid = mid]
                  /\ nextMid' = IF new THEN Following(nextMid) ELSE nextMid
                  /\ up' = Append(up, [type |-> IF t \in Sender THEN "REGISTER" ELSE "SUBSCRIBE",
                                       topic |-> t, mid |-> mid])
    BY <1>0, <1>1, <2>1, ProcessAsks
  <2> DEFINE m == IF table[t].mid = 0 THEN nextMid ELSE table[t].mid
             p == [type |-> IF t \in Sender THEN "REGISTER" ELSE "SUBSCRIBE", topic |-> t, mid |-> m]
  <2>3. /\ m \in 1 .. MaxMid /\ m \in Nat /\ Following(nextMid) = nextMid + 1
        /\ \/ m = table[t].mid /\ nextMid' = nextMid
           \/ m = nextMid /\ nextMid' = nextMid + 1
    <3>1. table[t].mid \in 0 .. MaxMid /\ nextMid \in 1 .. MaxMid /\ MaxMid \in Nat /\ nextMid < MaxMid
      BY <1>0, ArduinoAssumption DEF TypeInv, ArdOK, TableType, NoWrap
    <3>2. Following(nextMid) = nextMid + 1
      BY <3>1 DEF Following
    <3> QED BY <2>2, <3>1, <3>2
  <2>4. table' = [table EXCEPT ![t].mid = m] /\ up' = Append(up, p)
    BY <2>2
  <2> HIDE DEF m
  <2>5. p \in UpPacket /\ Kind(p) \in Requests
    BY <2>3, RequestKind DEF Requests
  <2> HIDE DEF p
  <2> QED BY <2>3, <2>4, <2>5
<1>3. /\ nextMid \in Nat /\ nextMid \in 1 .. MaxMid /\ MaxMid \in Nat
      /\ table'[t].mid = m /\ \A u \in Topic : /\ table'[u].id = table[u].id
                                               /\ u # t => table'[u].mid = table[u].mid
  BY <1>0, <1>2, ArduinoAssumption DEF TypeInv, ArdOK, TableType
<1>4. /\ UNCHANGED <<link, broker>> /\ KnownIds' = KnownIds /\ WaitedIds' \subseteq KnownIds'
      /\ Held(brokerQ)' = Held(brokerQ) /\ LinkInv'
  BY ClientStepKeeps
<1>5. /\ TellLevel /\ GivenIds' = GivenIds /\ SubackMids' = SubackMids
      /\ ~(Asking({"PUBLISH"})' /\ ~Asking({"PUBLISH"}))
      /\ PubIds' \subseteq PubIds
      /\ Asking({"CONNECT"}) => AskLevel
      /\ Fresh' <=> Fresh
  <2>1. /\ TellLevel /\ GivenIds' = GivenIds /\ SubackMids' = SubackMids
        /\ \A A : Asking(A)' => Asking(A) \/ Kind(p) \in A
        /\ \A q \in PubIds' : q \in PubIds \/ (p.type = "PUBLISH" /\ q = p.tid)
        /\ Kind(p) # "CONNECT" /\ (Kind(p) = "SUBSCRIBE" => Asking({"CONNECT"})) => AskLevel
        /\ Kind(p) # "CONNECT" => (Fresh' <=> Fresh)
    BY <1>1, <1>2, ClientSends
  <2>2. Kind(p) \in {"REGISTER", "SUBSCRIBE"} /\ p.type # "PUBLISH"
    BY <1>2 DEF Requests, Kind
  <2>3. Kind(p) # "CONNECT" /\ Kind(p) \notin {"PUBLISH"}
    BY <2>2
  <2> QED BY <2>1, <2>2, <2>3
<1>6. ~Asking({"PUBLISH"}) /\ pend = None
  BY <1>0, <1>1 DEF Registers, ReadyInv
<1>7. StaleInv'
  <2> SUFFICES ASSUME ~Fresh PROVE StaleInv'
    BY <1>5 DEF StaleInv
  <2>1. TellLeads /\ (link # "open" \/ Telling({"ACCEPTED"}) \/ AskLeads)
    BY <1>0 DEF Registers, StaleInv
  <2>2. TellLeads' /\ (Telling({"ACCEPTED"})' <=> Telling({"ACCEPTED"}))
    BY <1>5, <2>1 DEF TellLevel, TellLeads, Telling, Level
  <2>3. link = "open" /\ ~Telling({"ACCEPTED"}) => AskLeads'
    BY <1>5, <2>1 DEF Fresh, AskLevel, AskLeads, Level
  <2> QED BY <1>4, <2>2, <2>3 DEF StaleInv
<1>8. GivenInv'
  <2>1. TableIds' = TableIds
    BY <1>3 DEF TableIds
  <2> QED BY <1>0, <1>4, <1>5, <2>1, GivenKept DEF Registers
<1>9. SubscribedInv'
  <2>1. ASSUME NEW n, NEW u, OwnMid(n, u) PROVE OwnMid(n, u)'
    <3>1. n \in 1 .. nextMid' - 1 /\ n # nextMid
      BY <1>2, <1>3, <2>1 DEF OwnMid
    <3>2. ASSUME NEW v \in Topic, table'[v].mid = n PROVE v = u
      <4>1. table[v].mid = n
        BY <1>2, <1>3, <3>1, <3>2
      <4> QED BY <1>0, <2>1, <4>1 DEF OwnMid
    <3> QED BY <3>1, <3>2 DEF OwnMid
  <2>2. SubscribedInv
    BY <1>0 DEF Registers
  <2>3. \A x \in Held(brokerQ)' : x.type = "SUBSCRIBE" => OwnMid(x.mid, x.topic)'
    BY <1>4, <2>1, <2>2 DEF SubscribedInv
  <2>4. SubackMids' \subseteq 1 .. nextMid' - 1
    BY <1>2, <1>3, <1>5, <2>2 DEF SubscribedInv
  <2>5. Filled' /\ Fresh' => \A u \in Topic : table'[u].mid \in SubackMids' => u \in broker'.subs
    <3> SUFFICES ASSUME Fresh, NEW u \in Topic, table'[u].mid \in SubackMids PROVE u \in broker.subs
      BY <1>4, <1>5
    <3>1. table'[u].mid # nextMid
      BY <1>3, <2>2 DEF SubscribedInv
    <3>2. table[u].mid = table'[u].mid
      BY <1>2, <1>3, <3>1
    <3> QED BY <1>0, <2>2, <3>2 DEF SubscribedInv
  <2> QED BY <2>3, <2>4, <2>5 DEF SubscribedInv
<1>10. ReadyInv'
  <2>1. ReadyInv
    BY <1>0 DEF Registers
  <2>2. Filled' => \A u \in Command : table'[u].id # 0 => Fresh' /\ u \in broker'.subs
    BY <1>0, <1>3, <1>4, <1>5, <2>1, Roles DEF ReadyInv
  <2>3. st' # "READY" /\ ~Asking({"PUBLISH"})' /\ pend' = None
    BY <1>1, <1>5, <1>6
  <2>4. PubIds' \subseteq KnownIds' /\ \A x \in Held(brokerQ)' : x.type = "PUBLISH" => x.topic # None
    BY <1>4, <1>5, <2>1 DEF ReadyInv
  <2> QED BY <2>2, <2>3, <2>4 DEF ReadyInv
<1> QED BY <1>4, <1>7, <1>8, <1>9, <1>10 DEF Registers

(* A client with all its topics is ready: it may publish.                  *)
LEMMA ReadyRegisters ==
  ASSUME Calmly, NEW p \in UpPacket, Filled, AllRegistered, st' = "READY", UNCHANGED <<down, table>>,
         nextMid' \in {nextMid, nextMid + 1},
         up' = up \/ (up' = Append(up, p) /\ p.type = "PUBLISH" /\ p.tid \in KnownIds),
         pend' # None => pend'.packet.tid \in KnownIds
  PROVE  Registers'
<1>0. TypeInv /\ Registers /\ nextMid \in Nat
  BY ArduinoAssumption DEF Calmly, TypeInv, ArdOK
<1>1. Fresh
  <2>1. table[Cmd1].id # 0 /\ Cmd1 \in Command
    BY Roles DEF AllRegistered, TopicId, Filled
  <2> QED BY <1>0, <2>1 DEF Registers, ReadyInv
<1>2. PICK q \in UpPacket : /\ up' = up \/ up' = Append(up, q)
                            /\ q.type = "PUBLISH"
                            /\ up' # up => q.tid \in KnownIds
                            /\ up' = up \/ q = p
  <2>1. CASE up' = up
    <3> DEFINE q == [type |-> "PUBLISH", tid |-> 0, qos |-> 0, mid |-> 0,
                     msg |-> [topic |-> Data1, n |-> 0]]
    <3>1. q \in UpPacket /\ q.type = "PUBLISH"
      BY Roles DEF UpPacket, Publication, Message, Ids
    <3> HIDE DEF q
    <3> QED BY <2>1, <3>1
  <2>2. CASE up' # up
    BY <2>2
  <2> QED BY <2>1, <2>2
<1>3. /\ UNCHANGED <<link, broker>> /\ KnownIds' = KnownIds /\ WaitedIds' \subseteq KnownIds'
      /\ Held(brokerQ)' = Held(brokerQ) /\ LinkInv'
  BY ClientStepKeeps
<1>4. GivenIds' = GivenIds /\ SubackMids' = SubackMids /\ Fresh'
  <2>1. /\ GivenIds' = GivenIds /\ SubackMids' = SubackMids
        /\ Kind(q) # "CONNECT" => (Fresh' <=> Fresh)
    BY <1>2, ClientSends
  <2>2. Kind(q) # "CONNECT"
    BY <1>2 DEF Kind
  <2> QED BY <1>1, <2>1, <2>2
<1>5. PubIds' \subseteq KnownIds
  <2>1. PubIds \subseteq KnownIds
    BY <1>0 DEF Registers, ReadyInv
  <2>2. CASE up' = up
    <3>1. PubIds' = PubIds
      BY <2>2, ClientStepKeeps DEF PubIds, Requested
    <3> QED BY <2>1, <3>1
  <2>3. CASE up' # up
    <3>1. \A x \in PubIds' : x \in PubIds \/ (q.type = "PUBLISH" /\ x = q.tid)
      BY <1>2, ClientSends
    <3> QED BY <1>2, <2>1, <2>3, <3>1
  <2> QED BY <2>2, <2>3
<1>6. StaleInv'
  BY <1>4 DEF StaleInv
<1>7. GivenInv'
  <2>1. TableIds' = TableIds
    BY DEF TableIds
  <2> QED BY <1>0, <1>1, <1>3, <1>4, <2>1, GivenKept DEF Registers
<1>8. SubscribedInv'
  <2>1. SubscribedInv
    BY <1>0 DEF Registers
  <2>2. ASSUME NEW n, NEW u, OwnMid(n, u) PROVE OwnMid(n, u)'
    BY <1>0, <2>2 DEF OwnMid
  <2>3. \A x \in Held(brokerQ)' : x.type = "SUBSCRIBE" => OwnMid(x.mid, x.topic)'
    BY <1>3, <2>1, <2>2 DEF SubscribedInv
  <2>4. SubackMids' \subseteq 1 .. nextMid' - 1
    BY <1>0, <1>4, <2>1 DEF SubscribedInv
  <2>5. Filled' /\ Fresh' => \A u \in Topic : table'[u].mid \in SubackMids' => u \in broker'.subs
    BY <1>1, <1>3, <1>4, <2>1 DEF SubscribedInv
  <2> QED BY <2>3, <2>4, <2>5 DEF SubscribedInv
<1>9. ReadyInv'
  <2>1. ReadyInv
    BY <1>0 DEF Registers
  <2>2. Filled' /\ AllRegistered'
    BY DEF Filled, AllRegistered, TopicId
  <2>3. \A u \in Command : table'[u].id # 0 => Fresh' /\ u \in broker'.subs
    BY <1>3, <1>4, <2>1 DEF ReadyInv
  <2>4. PubIds' \subseteq KnownIds' /\ (pend' # None => pend'.packet.tid \in KnownIds')
    BY <1>3, <1>5
  <2>5. \A x \in Held(brokerQ)' : x.type = "PUBLISH" => x.topic # None
    BY <1>3, <2>1 DEF ReadyInv
  <2> QED BY <2>2, <2>3, <2>4, <2>5 DEF ReadyInv
<1> QED BY <1>3, <1>6, <1>7, <1>8, <1>9 DEF Registers

LEMMA PublishingRegisters ==
  ASSUME Calmly, NoWrap, ArdReady \/ ArdNextRound \/ ArdPublish \/ ArdRetry
  PROVE  Registers'
<1>0. /\ TypeInv /\ Registers /\ TypeInv' /\ nextMid \in Nat /\ nextMid' \in {nextMid, nextMid + 1}
      /\ st' = "READY" /\ UNCHANGED <<down, table>>
  <2>1. TypeInv /\ Registers /\ TypeInv' /\ nextMid \in Nat /\ Following(nextMid) = nextMid + 1
    BY ArduinoAssumption DEF Calmly, TypeInv, ArdOK, NoWrap, Following
  <2>2. nextMid' = nextMid \/ nextMid' = Following(nextMid)
    BY DEF ArdReady, ArdNextRound, ArdPublish, ArdPublishQos0, ArdPublishQos1, ArdRetry
  <2>3. st' = "READY" /\ UNCHANGED <<down, table>>
    BY DEF ArdReady, ArdNextRound, ArdPublish, ArdPublishQos0, ArdPublishQos1, MayPublish, ArdRetry, netVars
  <2> QED BY <2>1, <2>2, <2>3
<1>1. Filled /\ AllRegistered /\ (st # "READY" => pend = None)
  <2>1. CASE ArdReady
    <3>1. AllRegistered /\ table # None
      BY <2>1, Roles DEF ArdReady, AllRegistered, TopicId
    <3> QED BY <1>0, <3>1 DEF Filled, Registers, ReadyInv
  <2>2. CASE ~ArdReady
    <3>1. st = "READY"
      BY <2>2 DEF ArdNextRound, ArdPublish, ArdPublishQos0, ArdPublishQos1, MayPublish, ArdRetry
    <3> QED BY <1>0, <3>1 DEF Registers, ReadyInv
  <2> QED BY <2>1, <2>2
<1>2. \A t \in Topic : TopicId(t) \in KnownIds
  <2>1. table[Cmd1].id # 0 /\ Cmd1 \in Command
    BY <1>1, Roles DEF AllRegistered, TopicId, Filled
  <2>2. Fresh
    BY <1>0, <1>1, <2>1 DEF Registers, ReadyInv
  <2>3. TableIds \subseteq KnownIds
    BY <1>0, <1>1, <2>2 DEF Registers, GivenInv
  <2> QED BY <1>1, <2>3 DEF AllRegistered, TopicId, Filled, TableIds
<1>3. pend # None => pend.packet.tid \in KnownIds /\ pend.packet \in UpPacket /\ pend.packet.type = "PUBLISH"
  BY <1>0 DEF Registers, ReadyInv, TypeInv, ArdOK, PendingType, UpPacket, Publication
<1>4. PICK p \in UpPacket :
        /\ up' = up \/ (up' = Append(up, p) /\ p.type = "PUBLISH" /\ p.tid \in KnownIds)
        /\ pend' # None => pend'.packet.tid \in KnownIds
  <2>0. [type |-> "CONNECT"] \in UpPacket
    BY DEF UpPacket, Connect
  <2>1. CASE ArdReady \/ ArdNextRound
    BY <1>3, <2>0, <2>1 DEF ArdReady, ArdNextRound, netVars
  <2>2. CASE ArdPublish
    <3>1. PICK p : /\ up' = Append(up, p) /\ p.type = "PUBLISH" /\ p.tid \in KnownIds
                   /\ pend' = pend \/ (pend' = [packet |-> p, retries |-> 0])
      <4>1. CASE ArdPublishQos0
        <5> DEFINE p == [type |-> "PUBLISH", tid |-> TopicId(Data2), qos |-> 0, mid |-> 0,
                         msg |-> [topic |-> Data2, n |-> count + 1]]
        <5>1. up' = Append(up, p) /\ pend' = pend
          BY <4>1 DEF ArdPublishQos0, SendUp
        <5>2. p.type = "PUBLISH" /\ p.tid \in KnownIds
          BY <1>2, Roles
        <5> HIDE DEF p
        <5> QED BY <5>1, <5>2
      <4>2. CASE ArdPublishQos1
        <5> DEFINE p == [type |-> "PUBLISH", tid |-> TopicId(Data1), qos |-> 1, mid |-> nextMid,
                         msg |-> [topic |-> Data1, n |-> count + 1]]
        <5>1. up' = Append(up, p) /\ (pend' = pend \/ pend' = [packet |-> p, retries |-> 0])
          BY <4>2 DEF ArdPublishQos1, SendUp
        <5>2. p.type = "PUBLISH" /\ p.tid \in KnownIds
          BY <1>2, Roles
        <5> HIDE DEF p
        <5> QED BY <5>1, <5>2
      <4> QED BY <2>2, <4>1, <4>2 DEF ArdPublish
    <3>2. p \in UpPacket
      <4>1. up' \in Seq(UpPacket) /\ up \in Seq(UpPacket)
        BY <1>0 DEF TypeInv, NetOK
      <4> QED BY <3>1, <4>1
    <3> QED BY <1>3, <3>1, <3>2
  <2>3. CASE ArdRetry
    <3>1. /\ pend # None
          /\ \/ pend' = None /\ up' = up
             \/ pend' = [pend EXCEPT !.retries = @ + 1] /\ up' = Append(up, pend.packet)
      BY <2>3 DEF ArdRetry, SendUp
    <3>2. pend \in PendingType
      BY <1>0, <3>1 DEF TypeInv, ArdOK
    <3>3. pend' = None \/ pend'.packet = pend.packet
      BY <3>1, <3>2 DEF PendingType
    <3> QED BY <1>3, <3>1, <3>3
  <2> QED BY <2>1, <2>2, <2>3
<1> QED BY <1>0, <1>1, <1>4, ReadyRegisters

(* The client publishes topics that it does not subscribe to.              *)
LEMMA RolesDiffer == Sender \cap Command = {}
<1>1. \A a, b, c : Cardinality({a, b, c}) \in Nat /\ Cardinality({a, b, c}) <= 3
  <2> SUFFICES ASSUME NEW a, NEW b, NEW c
               PROVE  Cardinality({a, b, c}) \in Nat /\ Cardinality({a, b, c}) <= 3
    OBVIOUS
  <2>1. IsFiniteSet({}) /\ Cardinality({}) = 0
    BY FS_EmptySet
  <2>2. ASSUME NEW S, NEW x, NEW T, T = S \cup {x}, NEW n \in Nat, IsFiniteSet(S), Cardinality(S) <= n
        PROVE  IsFiniteSet(T) /\ Cardinality(T) <= n + 1
    <3>1. Cardinality(S) \in Nat
      BY <2>2, FS_CardinalityType
    <3>2. /\ IsFiniteSet(S \cup {x})
          /\ Cardinality(S \cup {x}) = Cardinality(S) \/ Cardinality(S \cup {x}) = Cardinality(S) + 1
      BY <2>2, FS_AddElement
    <3> QED BY <2>2, <3>1, <3>2
  <2> DEFINE O == {}
             A == O \cup {a}
             B == A \cup {b}
             C == B \cup {c}
             n1 == 1
             n2 == 2
  <2>0. O = {} /\ A = O \cup {a} /\ B = A \cup {b} /\ C = B \cup {c}
        /\ n1 = 0 + 1 /\ n2 = n1 + 1 /\ 3 = n2 + 1 /\ n1 \in Nat /\ n2 \in Nat
    OBVIOUS
  <2> HIDE DEF O, A, B, C, n1, n2
  <2>3. IsFiniteSet(A) /\ Cardinality(A) <= n1
    <3>1. IsFiniteSet(O) /\ Cardinality(O) <= 0
      BY <2>0, <2>1
    <3>2. IsFiniteSet(A) /\ Cardinality(A) <= 0 + 1
      BY <2>0, <2>2, <3>1
    <3> QED BY <2>0, <3>2
  <2>4. IsFiniteSet(B) /\ Cardinality(B) <= n2
    <3>1. IsFiniteSet(B) /\ Cardinality(B) <= n1 + 1
      BY <2>0, <2>2, <2>3
    <3> QED BY <2>0, <3>1
  <2>5. IsFiniteSet(C) /\ Cardinality(C) <= 3
    <3>1. IsFiniteSet(C) /\ Cardinality(C) <= n2 + 1
      BY <2>0, <2>2, <2>4
    <3> QED BY <2>0, <3>1
  <2>6. C = {a, b, c}
    BY <2>0
  <2>7. Cardinality(C) \in Nat
    BY <2>5, FS_CardinalityType
  <2> QED BY <2>5, <2>6, <2>7
<1>2. ASSUME Sender \cap Command # {} PROVE FALSE
  <2>1. Topic = {Data1, Data2, Cmd1} \/ Topic = {Data1, Data2, Cmd2}
    BY <1>2 DEF Topic, Sender, Command
  <2>2. Cardinality(Topic) <= 3
    BY <1>1, <2>1
  <2> QED BY <2>2, SessionAssumption
<1> QED BY <1>2

(* A datagram is taken.                                                    *)
LEMMA ReceivingKeeps ==
  ASSUME Calmly, ArdReceive
  PROVE  /\ down # <<>> /\ down' = Tail(down) /\ UNCHANGED <<up, st, nextMid>>
         /\ Head(down) \in Held(down) /\ Head(down) \in ToldSet /\ Head(down) \in DownPacket
         /\ ToldDown # <<>> /\ Head(ToldDown) = Kind(Head(down)) /\ ToldDown' = Tail(ToldDown)
         /\ AskLevel /\ (Kind(Head(down)) # "ACCEPTED" => TellLevel)
         /\ PubIds' = PubIds /\ (Asking({"PUBLISH"})' <=> Asking({"PUBLISH"}))
         /\ GivenIds' \subseteq GivenIds /\ SubackMids' \subseteq SubackMids
<1>0. /\ UNCHANGED <<packetQ, brokerQ, fromBroker>> /\ TypeInv /\ TypeInv'
      /\ AskedOut' = AskedOut /\ AskedIn' = AskedIn /\ ToldIn' = ToldIn /\ ToldOut' = ToldOut
      /\ FromSet' = FromSet
  BY ClientStepKeeps DEF Calmly
<1>1. down # <<>> /\ down' = Tail(down) /\ UNCHANGED <<up, st, nextMid>>
  BY DEF ArdReceive, ArdReceiveConnack, ArdReceivePuback, ArdReceiveCommand, ArdReceivePubrel,
         ArdReceiveOther, ArdReceiveId, Receiving
<1>2. ToldDown # <<>> /\ Head(ToldDown) = Kind(Head(down)) /\ ToldDown' = Tail(ToldDown)
  BY <1>0, <1>1, Queues, KindsMove DEF ToldDown
<1>3. AskedUp' = AskedUp /\ Requested' = Requested
  BY <1>0, <1>1 DEF AskedUp, Requested
<1>4. AskLevel /\ PubIds' = PubIds /\ (Asking({"PUBLISH"})' <=> Asking({"PUBLISH"}))
  BY <1>0, <1>3, LevelItself DEF AskLevel, PubIds, Asking
<1>5. ASSUME Kind(Head(down)) # "ACCEPTED" PROVE TellLevel
  <2>1. Head(ToldDown) \notin {"ACCEPTED"}
    BY <1>2, <1>5
  <2>2. Level(ToldDown, ToldIn, ToldOut, Tail(ToldDown), ToldIn, ToldOut, {"ACCEPTED"}, {"SUBACK"})
    BY <1>0, <1>2, <2>1, Ways, LevelAway
  <2> QED BY <1>0, <1>2, <2>2 DEF TellLevel
<1>6. /\ Held(down)' \subseteq Held(down)
      /\ Head(down) \in Held(down) /\ Head(down) \in DownPacket
  BY <1>0, <1>1, Queues, HeldMoves
<1>7. Head(down) \in ToldSet /\ ToldSet' \subseteq ToldSet
  BY <1>0, <1>6 DEF ToldSet
<1>8. GivenIds' \subseteq GivenIds /\ SubackMids' \subseteq SubackMids
  BY <1>6, <1>7, TellStayed
<1> QED BY <1>1, <1>2, <1>4, <1>5, <1>6, <1>7, <1>8

(* One that leaves the table alone.                                        *)
LEMMA OtherReceived ==
  ASSUME Calmly, ArdReceive, Kind(Head(down)) # "ACCEPTED", table' = table, pend' \in {pend, None}
  PROVE  Registers'
<1>1. /\ UNCHANGED <<st, nextMid>> /\ AskLevel /\ TellLevel
      /\ PubIds' = PubIds /\ (Asking({"PUBLISH"})' <=> Asking({"PUBLISH"}))
      /\ GivenIds' \subseteq GivenIds /\ SubackMids' \subseteq SubackMids
  BY ReceivingKeeps
<1>2. /\ UNCHANGED <<link, broker>> /\ KnownIds' = KnownIds /\ WaitedIds' \subseteq KnownIds'
      /\ Held(brokerQ)' = Held(brokerQ) /\ LinkInv' /\ Registers
  BY ClientStepKeeps DEF Calmly
<1>3. Filled' = Filled /\ TableIds' = TableIds /\ AllRegistered' = AllRegistered
  BY DEF Filled, TableIds, AllRegistered, TopicId
<1>4. StaleInv' /\ (Fresh' <=> Fresh)
  BY <1>1, <1>2, <1>3, StaleKept DEF Registers
<1>5. GivenInv'
  BY <1>1, <1>2, <1>3, <1>4, GivenKept DEF Registers
<1>6. SubscribedInv'
  BY <1>1, <1>2, <1>4, SubscribedKept DEF Registers
<1>7. ReadyInv'
  <2>1. ReadyInv
    BY <1>2 DEF Registers
  <2>2. Filled' => \A t \in Command : table'[t].id # 0 => Fresh' /\ t \in broker'.subs
    BY <1>2, <1>3, <1>4, <2>1 DEF ReadyInv
  <2>3. st' = "READY" => Filled' /\ AllRegistered'
    BY <1>1, <1>3, <2>1 DEF ReadyInv
  <2>4. Asking({"PUBLISH"})' \/ pend' # None => st' = "READY"
    BY <1>1, <2>1 DEF ReadyInv
  <2>5. PubIds' \subseteq KnownIds' /\ (pend' # None => pend'.packet.tid \in KnownIds')
    BY <1>1, <1>2, <2>1 DEF ReadyInv
  <2>6. \A p \in Held(brokerQ)' : p.type = "PUBLISH" => p.topic # None
    BY <1>2, <2>1 DEF ReadyInv
  <2> QED BY <2>2, <2>3, <2>4, <2>5, <2>6 DEF ReadyInv
<1> QED BY <1>2, <1>4, <1>5, <1>6, <1>7 DEF Registers

(* An accepted CONNECT wipes the table: nothing was published before.      *)
LEMMA AcceptedReceived ==
  ASSUME Calmly, ArdReceive, Kind(Head(down)) = "ACCEPTED", table' = None, pend' = pend
  PROVE  Registers'
<1>1. /\ UNCHANGED <<st, nextMid>>
      /\ PubIds' = PubIds /\ (Asking({"PUBLISH"})' <=> Asking({"PUBLISH"}))
      /\ SubackMids' \subseteq SubackMids /\ Head(down) \in ToldSet
  BY ReceivingKeeps
<1>2. /\ Held(brokerQ)' = Held(brokerQ) /\ LinkInv' /\ WaitedIds' \subseteq KnownIds'
      /\ Registers /\ TypeInv
  BY ClientStepKeeps DEF Calmly
<1>3. ~Filled'
  BY DEF Filled
<1>4. ~Fresh
  <2>1. Telling({"ACCEPTED"})
    BY <1>1, <1>2, Ways
  <2> QED BY <2>1 DEF Fresh
<1>5. PubIds = {} /\ pend = None /\ st # "READY"
  BY <1>2, <1>4, NothingPublished DEF Registers
<1>6. StaleInv' /\ GivenInv'
  BY <1>2, <1>3 DEF StaleInv, GivenInv
<1>7. SubscribedInv'
  <2>1. SubscribedInv
    BY <1>2 DEF Registers
  <2>2. \A n, u : OwnMid(n, u) => OwnMid(n, u)'
    BY <1>1, <1>3 DEF OwnMid
  <2>3. \A x \in Held(brokerQ)' : x.type = "SUBSCRIBE" => OwnMid(x.mid, x.topic)'
    BY <1>2, <2>1, <2>2 DEF SubscribedInv
  <2>4. SubackMids' \subseteq 1 .. nextMid' - 1
    BY <1>1, <2>1 DEF SubscribedInv
  <2> QED BY <1>3, <2>3, <2>4 DEF SubscribedInv
<1>8. ReadyInv'
  <2>1. ReadyInv
    BY <1>2 DEF Registers
  <2>2. ~(Asking({"PUBLISH"})' \/ pend' # None) /\ PubIds' \subseteq KnownIds'
    BY <1>1, <1>5, <2>1 DEF ReadyInv
  <2>3. \A p \in Held(brokerQ)' : p.type = "PUBLISH" => p.topic # None
    BY <1>2, <2>1 DEF ReadyInv
  <2> QED BY <1>1, <1>3, <1>5, <2>2, <2>3 DEF ReadyInv
<1> QED BY <1>2, <1>6, <1>7, <1>8 DEF Registers

(* An id is stored with the topic that it was asked for.                   *)
LEMMA IdReceived ==
  ASSUME Calmly, ArdReceive, NEW type, NEW role, ArdReceiveId(type, role),
         (type = "REGACK" /\ role = Sender) \/ (type = "SUBACK" /\ role = Command)
  PROVE  Registers'
<1>0. /\ UNCHANGED <<st, nextMid, pend>> /\ Head(down) \in DownPacket /\ Head(down).type = type
      /\ type \in Given /\ Kind(Head(down)) = type /\ role \subseteq Topic
      /\ Registers /\ TypeInv
  <2>1. UNCHANGED <<st, nextMid>> /\ Head(down) \in DownPacket
    BY ReceivingKeeps
  <2>2. Head(down).type = type /\ pend' = pend
    BY DEF ArdReceiveId, Receiving
  <2> QED BY <2>1, <2>2 DEF Kind, Given, Topic, Calmly
<1>1. CASE Matches(role) = {}
  <2>1. table' = table /\ Kind(Head(down)) # "ACCEPTED"
    BY <1>0, <1>1 DEF ArdReceiveId
  <2> QED BY <1>0, <2>1, OtherReceived
<1>2. CASE Matches(role) # {}
  <2> DEFINE tid == Head(down).tid
             entry == [id |-> tid, mid |-> 0]
  <2>1. PICK t \in role : /\ Filled /\ table[t].id = 0 /\ table[t].mid = Head(down).mid
                          /\ table' = [table EXCEPT ![t] = entry]
    <3>1. PICK t \in Matches(role) : table' = [table EXCEPT ![t] = entry]
      BY <1>2 DEF ArdReceiveId, Arriving
    <3> QED BY <3>1 DEF Matches, Filled, Arriving
  <2>2. t \in Topic /\ table \in TableType /\ nextMid \in Nat
    BY <1>0, <2>1 DEF TypeInv, ArdOK, Filled
  <2>3. /\ table'[t].id = tid /\ table'[t].mid = 0
        /\ \A u \in Topic : u # t => table'[u] = table[u]
    BY <2>1, <2>2 DEF TableType
  <2> HIDE DEF entry
  <2>4. /\ AskLevel /\ TellLevel /\ PubIds' = PubIds
        /\ (Asking({"PUBLISH"})' <=> Asking({"PUBLISH"}))
        /\ GivenIds' \subseteq GivenIds /\ SubackMids' \subseteq SubackMids
        /\ Head(down) \in Held(down) /\ Head(down) \in ToldSet
        /\ ToldDown # <<>> /\ Head(ToldDown) = type
    BY <1>0, ReceivingKeeps DEF Given
  <2>5. /\ UNCHANGED <<link, broker>> /\ KnownIds' = KnownIds /\ WaitedIds' \subseteq KnownIds'
        /\ Held(brokerQ)' = Held(brokerQ) /\ LinkInv'
    BY ClientStepKeeps
  <2>6. tid \in GivenIds
    BY <1>0, <2>4 DEF GivenIds
  <2> HIDE DEF tid
  <2>7. st # "READY" /\ ~Asking({"PUBLISH"}) /\ pend = None
    <3>1. ~(st = "READY")
      <4>1. ~AllRegistered
        BY <2>1, <2>2 DEF AllRegistered, TopicId
      <4> QED BY <1>0, <4>1 DEF Registers, ReadyInv
    <3> QED BY <1>0, <3>1 DEF Registers, ReadyInv
  <2>8. StaleInv' /\ (Fresh' <=> Fresh)
    BY <1>0, <2>1, <2>4, <2>5, StaleKept DEF Registers
  <2>9. type = "SUBACK" => Fresh /\ t \in broker.subs
    <3> SUFFICES ASSUME type = "SUBACK" PROVE Fresh /\ t \in broker.subs
      OBVIOUS
    <3>1. Head(ToldDown) \in {"SUBACK"}
      BY <2>4
    <3>2. ~Led(ToldDown, {"ACCEPTED"}, {"SUBACK"})
      BY <1>0, <2>4, <3>1, Ways, LedTail
    <3>3. Fresh
      BY <1>0, <2>1, <3>2 DEF Registers, StaleInv, TellLeads, Leads
    <3>4. table[t].mid \in SubackMids
      BY <1>0, <2>1, <2>4 DEF SubackMids
    <3> QED BY <1>0, <2>1, <2>2, <3>3, <3>4 DEF Registers, SubscribedInv
  <2>10. GivenInv'
    <3>1. TableIds' \subseteq TableIds \cup GivenIds
      BY <2>3, <2>6 DEF TableIds
    <3> QED BY <1>0, <2>1, <2>4, <2>5, <2>8, <3>1, GivenKept DEF Registers
  <2>11. SubscribedInv'
    <3>1. SubscribedInv
      BY <1>0 DEF Registers
    <3>2. ASSUME NEW n, NEW u, OwnMid(n, u) PROVE OwnMid(n, u)'
      <4>1. n \in 1 .. nextMid' - 1 /\ n # 0
        BY <1>0, <2>2, <3>2 DEF OwnMid
      <4>2. \A v \in Topic : table'[v].mid = n => v = u
        BY <2>1, <2>3, <3>2, <4>1 DEF OwnMid
      <4> QED BY <4>1, <4>2 DEF OwnMid
    <3>3. \A x \in Held(brokerQ)' : x.type = "SUBSCRIBE" => OwnMid(x.mid, x.topic)'
      BY <2>5, <3>1, <3>2 DEF SubscribedInv
    <3>4. SubackMids' \subseteq 1 .. nextMid' - 1
      BY <1>0, <2>4, <3>1 DEF SubscribedInv
    <3>5. Filled' /\ Fresh' => \A u \in Topic : table'[u].mid \in SubackMids' => u \in broker'.subs
      <4> SUFFICES ASSUME Fresh, NEW u \in Topic, table'[u].mid \in SubackMids PROVE u \in broker.subs
        BY <2>4, <2>5, <2>8
      <4>1. table'[u].mid # 0
        BY <2>2, <3>1 DEF SubscribedInv
      <4>2. table'[u] = table[u]
        BY <2>3, <4>1
      <4> QED BY <2>1, <3>1, <4>2 DEF SubscribedInv
    <3> QED BY <3>3, <3>4, <3>5 DEF SubscribedInv
  <2>12. ReadyInv'
    <3>1. ReadyInv
      BY <1>0 DEF Registers
    <3>2. \A u \in Command : table'[u].id # 0 => Fresh' /\ u \in broker'.subs
      <4> SUFFICES ASSUME NEW u \in Command, table'[u].id # 0 PROVE Fresh /\ u \in broker.subs
        BY <2>5, <2>8
      <4>1. CASE u = t
        <5>1. type = "SUBACK"
          BY <2>1, <4>1, RolesDiffer
        <5> QED BY <2>9, <4>1, <5>1
      <4>2. CASE u # t
        BY <2>1, <2>3, <3>1, <4>2, Roles DEF ReadyInv
      <4> QED BY <4>1, <4>2
    <3>3. st' # "READY" /\ ~Asking({"PUBLISH"})' /\ pend' = None
      BY <1>0, <2>4, <2>7
    <3>4. PubIds' \subseteq KnownIds' /\ \A x \in Held(brokerQ)' : x.type = "PUBLISH" => x.topic # None
      BY <2>4, <2>5, <3>1 DEF ReadyInv
    <3> QED BY <3>2, <3>3, <3>4 DEF ReadyInv
  <2> QED BY <2>5, <2>8, <2>10, <2>11, <2>12 DEF Registers
<1> QED BY <1>1, <1>2

LEMMA ReceivingRegisters ==
  ASSUME Calmly, ArdReceive
  PROVE  Registers'
<1>1. CASE ArdReceiveConnack
  <2>1. Head(down).type = "CONNACK" /\ pend' = pend /\ table' = IF Head(down).ok THEN None ELSE table
    BY <1>1 DEF ArdReceiveConnack, Receiving, Arriving
  <2>2. CASE Head(down).ok
    <3>1. Kind(Head(down)) = "ACCEPTED" /\ table' = None
      BY <2>1, <2>2 DEF Kind
    <3> QED BY <2>1, <3>1, AcceptedReceived
  <2>3. CASE ~Head(down).ok
    <3>1. Kind(Head(down)) # "ACCEPTED" /\ table' = table
      BY <2>1, <2>3 DEF Kind
    <3> QED BY <2>1, <3>1, OtherReceived
  <2> QED BY <2>2, <2>3
<1>2. CASE ArdReceivePuback \/ ArdReceiveCommand \/ ArdReceivePubrel \/ ArdReceiveOther
  <2>1. /\ Head(down).type \in {"PUBACK", "PUBLISH", "PUBREL", "DISCONNECT"}
        /\ table' = table /\ pend' \in {pend, None}
    BY <1>2 DEF ArdReceivePuback, ArdReceiveCommand, ArdReceivePubrel, ArdReceiveOther, Receiving
  <2>2. Kind(Head(down)) # "ACCEPTED"
    BY <2>1 DEF Kind
  <2> QED BY <2>1, <2>2, OtherReceived
<1>3. CASE ArdReceiveId("REGACK", Sender)
  BY <1>3, IdReceived
<1>4. CASE ArdReceiveId("SUBACK", Command)
  BY <1>4, IdReceived
<1> QED BY <1>1, <1>2, <1>3, <1>4 DEF ArdReceive

(***************************************************************************)
(* The network's faults.                                                   *)
(***************************************************************************)
(* The first of a queue comes once more, at its end.                       *)
LEMMA LevelAgain ==
  ASSUME NEW T, NEW f \in Seq(T), NEW m \in Seq(T), NEW b \in Seq(T), NEW A, NEW B
  PROVE  /\ f # <<>> => Level(f, m, b, Append(f, Head(f)), m, b, A, B)
         /\ b # <<>> => Level(f, m, b, f, m, Append(b, Head(b)), A, B)
<1>1. ASSUME NEW k \in Seq(T), k # <<>>
      PROVE  /\ Led(k, A, B) => Led(Append(k, Head(k)), A, B)
             /\ Has(Append(k, Head(k)), A) <=> Has(k, A)
  <2>1. /\ Led(k, A, B) => Head(k) \notin B
        /\ Head(k) \in A => Has(k, A)
        /\ Head(k) \in T
    BY <1>1, LedTail
  <2>2. /\ Led(Append(k, Head(k)), A, B) <=> Led(k, A, B) /\ (Has(k, A) \/ Head(k) \notin B)
        /\ Has(Append(k, Head(k)), A) <=> Has(k, A) \/ Head(k) \in A
    BY <1>1, <2>1, LedAdded
  <2> QED BY <2>1, <2>2
<1>2. ASSUME f # <<>> PROVE Level(f, m, b, Append(f, Head(f)), m, b, A, B)
  BY <1>1, <1>2 DEF Level, Leads, Anywhere
<1>3. ASSUME b # <<>> PROVE Level(f, m, b, f, m, Append(b, Head(b)), A, B)
  BY <1>1, <1>3 DEF Level, Leads, Anywhere
<1> QED BY <1>2, <1>3

Strikes == Safely /\ NetFault /\ UNCHANGED gatewayVars

LEMMA FaultKeeps ==
  ASSUME Strikes
  PROVE  /\ UNCHANGED <<link, broker, table, st, pend, nextMid, packetQ, brokerQ, fromBroker>>
         /\ TypeInv /\ TypeInv' /\ Registers /\ LinkInv'
         /\ KnownIds' = KnownIds /\ WaitedIds' \subseteq KnownIds'
         /\ AskedOut' = AskedOut /\ AskedIn' = AskedIn /\ ToldIn' = ToldIn /\ ToldOut' = ToldOut
<1>1. /\ UNCHANGED <<client, link, broker, packetQ, brokerQ, fromBroker, sending, closing>>
      /\ UNCHANGED <<table, st, pend, nextMid>>
      /\ TypeInv /\ TypeInv' /\ Registers
  BY DEF Strikes, Safely, Aside, ardVars, gatewayVars, pahoVars, brokerVars
<1>2. AskedOut' = AskedOut /\ AskedIn' = AskedIn /\ ToldIn' = ToldIn /\ ToldOut' = ToldOut
  BY <1>1 DEF AskedOut, AskedIn, ToldIn, ToldOut
<1>3. KnownIds' = KnownIds /\ WaitedIds' \subseteq KnownIds'
  BY <1>1, IdsStay DEF Registers
<1>4. LinkInv'
  BY <1>1, <1>2, LinkKept DEF Registers
<1> QED BY <1>1, <1>2, <1>3, <1>4

(* Neither a CONNECT nor its acceptance is lost.                           *)
LEMMA SlightFaultRegisters ==
  ASSUME Strikes, AskLevel, TellLevel,
         Held(up)' \subseteq Held(up), Held(down)' \subseteq Held(down)
  PROVE  Registers'
<1>1. /\ UNCHANGED <<link, broker, table, st, pend, nextMid, packetQ, brokerQ, fromBroker>>
      /\ TypeInv /\ TypeInv' /\ Registers /\ LinkInv'
      /\ KnownIds' = KnownIds /\ WaitedIds' \subseteq KnownIds'
  BY FaultKeeps
<1>2. Requested' \subseteq Requested /\ Held(brokerQ)' = Held(brokerQ) /\ ToldSet' \subseteq ToldSet
  BY <1>1 DEF Requested, ToldSet, FromSet
<1>3. PubIds' \subseteq PubIds /\ (Asking({"PUBLISH"})' => Asking({"PUBLISH"}))
  BY <1>1, <1>2, AskStayed
<1>4. GivenIds' \subseteq GivenIds /\ SubackMids' \subseteq SubackMids
  BY <1>2, TellStayed
<1> QED BY <1>1, <1>2, <1>3, <1>4, LittleRegisters

(* One of them is: the client has nothing registered.                      *)
LEMMA GraveFaultRegisters ==
  ASSUME Strikes, Sound, Arduino, Orderly, Asking({"CONNECT"}) \/ Telling({"ACCEPTED"})
  PROVE  Registers'
<1>1. /\ UNCHANGED <<link, broker, table, st, pend, nextMid, packetQ, brokerQ, fromBroker>>
      /\ TypeInv /\ TypeInv' /\ Registers /\ LinkInv'
      /\ KnownIds' = KnownIds /\ WaitedIds' \subseteq KnownIds'
  BY FaultKeeps
<1>2. Asking({"CONNECT"}) \/ Telling(Connacks)
  BY DEF Telling, Anywhere, Has, Connacks
<1>3. Punctual /\ ~Pico /\ Awaiting
  BY <1>2 DEF Sound, CommandInv, ConnectInv, Orderly, Punctual, NeverSeen, Arduino, Pico
<1>4. Before /\ st = "CONNECTING"
  BY <1>3 DEF Awaiting, Before
<1>5. /\ ~Asking(Requests) /\ ~Telling(Given)
      /\ table = None \/ \A t \in Topic : table[t].id = 0
  BY <1>3, <1>4 DEF Sound, PhaseInv
<1>6. ~Asking({"PUBLISH"}) /\ pend = None
  BY <1>1, <1>4 DEF Registers, ReadyInv
<1>7. ~Asking({"SUBSCRIBE", "PUBLISH"})
  BY <1>5, <1>6 DEF Asking, Anywhere, Has, Requests
<1>8. ~Asking({"SUBSCRIBE", "PUBLISH"})' /\ ~Telling(Given)'
  <2>1. NetFault /\ UNCHANGED gatewayVars
    BY DEF Strikes
  <2>2. Asking({"SUBSCRIBE", "PUBLISH"})' => Asking({"SUBSCRIBE", "PUBLISH"})
    BY <1>1, <2>1, FaultAddsNothing
  <2>3. Telling({"REGACK", "SUBACK"})' => Telling({"REGACK", "SUBACK"})
    BY <1>1, <2>1, FaultAddsNothing
  <2>4. Given = {"REGACK", "SUBACK"} /\ Given' = {"REGACK", "SUBACK"}
    BY DEF Given
  <2> QED BY <1>5, <1>7, <2>2, <2>3, <2>4 DEF Telling
<1> QED BY <1>1, <1>4, <1>5, <1>6, <1>8, EmptyRegisters

LEMMA NetFaultRegisters ==
  ASSUME Strikes, Sound, Arduino, SessionIsOwn'
  PROVE  Registers'
<1>0. /\ TypeInv /\ UNCHANGED <<packetQ, brokerQ, fromBroker>> /\ seen \subseteq seen'
      /\ AskedOut' = AskedOut /\ AskedIn' = AskedIn /\ ToldIn' = ToldIn /\ ToldOut' = ToldOut
  BY FaultKeeps DEF Strikes, Safely, Aside
<1>1. Fault("lost") => Orderly
  <2>1. Fault("lost") => "lost" \in seen'
    BY DEF Fault
  <2>2. Fault("lost") => "repeated" \notin seen'
    BY <2>1 DEF SessionIsOwn
  <2> QED BY <1>0, <2>2 DEF SessionIsOwn, OnlySeen, Orderly, NeverSeen
<1>2. ~Fault("delayed")
  BY OwnExcludes
<1>3. (up # <<>> /\ down' = down) \/ (down # <<>> /\ up' = up)
  BY DEF Strikes, NetFault, Suffers
<1>4. CASE up # <<>> /\ down' = down
  <2>1. /\ AskedUp # <<>> /\ ToldDown' = ToldDown
        /\ up' = Tail(up) => AskedUp' = Tail(AskedUp)
        /\ up' = Append(up, Head(up)) => AskedUp' = Append(AskedUp, Head(AskedUp))
    <3>1. Head(up) \in AnyPacket /\ up \in Seq(AnyPacket) /\ up # <<>>
      BY <1>0, <1>4, Queues
    <3>2. /\ Kinds(up) # <<>> /\ Kinds(Tail(up)) = Tail(Kinds(up))
          /\ Head(Kinds(up)) = Kind(Head(up))
          /\ Kinds(Append(up, Head(up))) = Append(Kinds(up), Kind(Head(up)))
      BY <3>1, KindsMove
    <3>3. ToldDown' = ToldDown
      BY <1>4 DEF ToldDown
    <3> QED BY <3>2, <3>3 DEF AskedUp
  <2>2. TellLevel
    BY <1>0, <2>1, LevelItself DEF TellLevel
  <2>6. (Fault("lost") /\ up' = Tail(up)) \/ up' = Append(up, Head(up))
    BY <1>2, <1>4 DEF Strikes, NetFault, Suffers
  <2>3. Held(up)' \subseteq Held(up) /\ Held(down)' = Held(down)
    <3>1. Head(up) \in Held(up) /\ Held(Tail(up)) \subseteq Held(up)
          /\ Held(Append(up, Head(up))) \subseteq Held(up) \cup {Head(up)}
      BY <1>0, <1>4, Queues, HeldMoves
    <3> QED BY <1>4, <2>6, <3>1
  <2>4. CASE Fault("lost") /\ up' = Tail(up)
    <3>1. CASE Head(AskedUp) = "CONNECT"
      <4>1. Head(AskedUp) \in {"CONNECT"}
        BY <3>1
      <4>2. Has(AskedUp, {"CONNECT"})
        BY <1>0, <2>1, <4>1, Ways, TailKinds
      <4>3. Asking({"CONNECT"})
        BY <4>2 DEF Asking, Anywhere
      <4> QED BY <1>1, <2>4, <4>3, GraveFaultRegisters
    <3>2. CASE Head(AskedUp) # "CONNECT"
      <4>1. Head(AskedUp) \notin {"CONNECT"}
        BY <3>2
      <4>2. Level(AskedOut, AskedIn, AskedUp, AskedOut, AskedIn, Tail(AskedUp), {"CONNECT"}, {"SUBSCRIBE"})
        BY <1>0, <2>1, <4>1, Ways, LevelAway
      <4>3. AskLevel
        BY <1>0, <2>1, <2>4, <4>2 DEF AskLevel
      <4> QED BY <2>2, <2>3, <4>3, SlightFaultRegisters
    <3> QED BY <3>1, <3>2
  <2>5. CASE up' = Append(up, Head(up))
    <3>1. Level(AskedOut, AskedIn, AskedUp, AskedOut, AskedIn, Append(AskedUp, Head(AskedUp)),
                {"CONNECT"}, {"SUBSCRIBE"})
      BY <1>0, <2>1, Ways, LevelAgain
    <3>2. AskLevel
      BY <1>0, <2>1, <2>5, <3>1 DEF AskLevel
    <3> QED BY <2>2, <2>3, <3>2, SlightFaultRegisters
  <2> QED BY <2>4, <2>5, <2>6
<1>5. CASE down # <<>> /\ up' = up
  <2>1. /\ ToldDown # <<>> /\ AskedUp' = AskedUp
        /\ down' = Tail(down) => ToldDown' = Tail(ToldDown)
        /\ down' = Append(down, Head(down)) => ToldDown' = Append(ToldDown, Head(ToldDown))
    <3>1. Head(down) \in AnyPacket /\ down \in Seq(AnyPacket) /\ down # <<>>
      BY <1>0, <1>5, Queues
    <3>2. /\ Kinds(down) # <<>> /\ Kinds(Tail(down)) = Tail(Kinds(down))
          /\ Head(Kinds(down)) = Kind(Head(down))
          /\ Kinds(Append(down, Head(down))) = Append(Kinds(down), Kind(Head(down)))
      BY <3>1, KindsMove
    <3>3. AskedUp' = AskedUp
      BY <1>5 DEF AskedUp
    <3> QED BY <3>2, <3>3 DEF ToldDown
  <2>2. AskLevel
    BY <1>0, <2>1, LevelItself DEF AskLevel
  <2>6. (Fault("lost") /\ down' = Tail(down)) \/ down' = Append(down, Head(down))
    BY <1>2, <1>5 DEF Strikes, NetFault, Suffers
  <2>3. Held(down)' \subseteq Held(down) /\ Held(up)' = Held(up)
    <3>1. Head(down) \in Held(down) /\ Held(Tail(down)) \subseteq Held(down)
          /\ Held(Append(down, Head(down))) \subseteq Held(down) \cup {Head(down)}
      BY <1>0, <1>5, Queues, HeldMoves
    <3> QED BY <1>5, <2>6, <3>1
  <2>4. CASE Fault("lost") /\ down' = Tail(down)
    <3>1. CASE Head(ToldDown) = "ACCEPTED"
      <4>1. Head(ToldDown) \in {"ACCEPTED"}
        BY <3>1
      <4>2. Has(ToldDown, {"ACCEPTED"})
        BY <1>0, <2>1, <4>1, Ways, TailKinds
      <4>3. Telling({"ACCEPTED"})
        BY <4>2 DEF Telling, Anywhere
      <4> QED BY <1>1, <2>4, <4>3, GraveFaultRegisters
    <3>2. CASE Head(ToldDown) # "ACCEPTED"
      <4>1. Head(ToldDown) \notin {"ACCEPTED"}
        BY <3>2
      <4>2. Level(ToldDown, ToldIn, ToldOut, Tail(ToldDown), ToldIn, ToldOut, {"ACCEPTED"}, {"SUBACK"})
        BY <1>0, <2>1, <4>1, Ways, LevelAway
      <4>3. TellLevel
        BY <1>0, <2>1, <2>4, <4>2 DEF TellLevel
      <4> QED BY <2>2, <2>3, <4>3, SlightFaultRegisters
    <3> QED BY <3>1, <3>2
  <2>5. CASE down' = Append(down, Head(down))
    <3>1. Level(ToldDown, ToldIn, ToldOut, Append(ToldDown, Head(ToldDown)), ToldIn, ToldOut,
                {"ACCEPTED"}, {"SUBACK"})
      BY <1>0, <2>1, Ways, LevelAgain
    <3>2. TellLevel
      BY <1>0, <2>1, <2>5, <3>1 DEF TellLevel
    <3> QED BY <2>2, <2>3, <3>2, SlightFaultRegisters
  <2> QED BY <2>4, <2>5, <2>6
<1> QED BY <1>3, <1>4, <1>5

(***************************************************************************)
(* The theorem.                                                            *)
(***************************************************************************)
LEMMA RegisterInit == Init => RegisterInv
<1> SUFFICES ASSUME Init PROVE Registers
  BY DEF RegisterInv
<1>1. /\ up = <<>> /\ down = <<>> /\ packetQ = <<>> /\ brokerQ = <<>> /\ fromBroker = <<>>
      /\ client = None /\ link = "none" /\ ~sending /\ ~closing
      /\ st = "INIT" /\ pend = None /\ \A t \in Topic : table[t].id = 0
  BY DEF Init, NetInit, GatewayInit, ArdInit, Unregistered
<1>2. \A A : ~Asking(A) /\ ~Telling(A)
  <2>1. Kinds(<<>>) = <<>> /\ \A who : KindsFrom(who, <<>>) = <<>>
    BY DEF Kinds, KindsFrom, Through
  <2>2. /\ AskedOut = <<>> /\ AskedIn = <<>> /\ AskedUp = <<>>
        /\ ToldDown = <<>> /\ ToldIn = <<>> /\ ToldOut = <<>>
    BY <1>1, <2>1 DEF AskedOut, AskedIn, AskedUp, ToldDown, ToldIn, ToldOut
  <2> QED BY <2>2, EmptyKinds DEF Asking, Telling, Anywhere
<1>3. Held(down) = {} /\ Held(brokerQ) = {} /\ Requested = {} /\ ToldSet = {}
  BY <1>1, HeldFew DEF Requested, ToldSet, FromSet, EventsOf
<1>4. GivenIds = {} /\ SubackMids = {} /\ PubIds = {} /\ WaitedIds = {} /\ TableIds = {}
  BY <1>1, <1>3 DEF GivenIds, SubackMids, PubIds, WaitedIds, TableIds
<1>5. LinkInv
  BY <1>1 DEF LinkInv
<1>6. StaleInv
  BY <1>1, <1>2, LedByNone DEF StaleInv, TellLeads, Telling
<1>7. GivenInv /\ SubscribedInv
  BY <1>3, <1>4 DEF GivenInv, SubscribedInv
<1>8. ReadyInv
  BY <1>1, <1>2, <1>3, <1>4, Roles DEF ReadyInv
<1> QED BY <1>5, <1>6, <1>7, <1>8 DEF Registers

LEMMA StutterRegisters ==
  ASSUME Registers, UNCHANGED vars
  PROVE  Registers'
<1>1. /\ UNCHANGED <<up, down, packetQ, brokerQ, fromBroker, client, link, broker, sending, closing>>
      /\ UNCHANGED <<table, st, pend, nextMid>>
  BY DEF vars, netVars, gatewayVars, pahoVars, brokerVars, ardVars
<1>2. /\ AskedOut' = AskedOut /\ AskedIn' = AskedIn /\ AskedUp' = AskedUp
      /\ ToldDown' = ToldDown /\ ToldIn' = ToldIn /\ ToldOut' = ToldOut
      /\ Held(brokerQ)' = Held(brokerQ) /\ Requested' = Requested /\ ToldSet' = ToldSet
      /\ Held(down)' = Held(down)
  BY <1>1 DEF AskedOut, AskedIn, AskedUp, ToldDown, ToldIn, ToldOut, Requested, ToldSet, FromSet
<1>3. AskLevel /\ TellLevel
  BY <1>2, LevelItself DEF AskLevel, TellLevel
<1>4. /\ PubIds' = PubIds /\ (Asking({"PUBLISH"})' <=> Asking({"PUBLISH"}))
      /\ GivenIds' = GivenIds /\ SubackMids' = SubackMids
  BY <1>2 DEF PubIds, GivenIds, SubackMids, Asking
<1>5. KnownIds' = KnownIds /\ WaitedIds' \subseteq KnownIds'
  BY <1>1, IdsStay DEF Registers
<1>6. LinkInv'
  BY <1>1, <1>2 DEF LinkInv, Registers
<1> QED BY <1>1, <1>2, <1>3, <1>4, <1>5, <1>6, LittleRegisters

LEMMA RegisterStep ==
  TypeInv /\ NoWrap /\ PhaseInv /\ CommandInv /\ WorldInv /\ RegisterInv /\ [Next]_vars
    => RegisterInv'
<1> SUFFICES ASSUME TypeInv, NoWrap, PhaseInv, CommandInv, WorldInv, RegisterInv, [Next]_vars,
                    Arduino', SessionIsOwn'
             PROVE  Registers'
  BY DEF RegisterInv
<1>0. UNCHANGED scenario /\ seen \subseteq seen' /\ TypeInv' /\ Sound
  BY FaultsAreKept, TypeInvStep DEF Sound
<1>1. Arduino /\ ~Pico /\ SessionIsOwn /\ Registers
  <2>1. Arduino /\ ~Pico /\ SessionIsOwn
    BY <1>0 DEF Arduino, Pico, SessionIsOwn, OnlySeen
  <2> QED BY <2>1 DEF RegisterInv
<1>2. ~Fault("reboot") /\ ~Fault("late")
  BY OwnExcludes
<1>3. PICK w \in World : IdInv(w)
  <2>1. Settled
    BY <1>1 DEF Settled, SessionIsOwn, OnlySeen, NeverSeen
  <2> QED BY <2>1 DEF WorldInv
<1>4. UNCHANGED gatewayVars => Calmly
  BY <1>0, <1>1 DEF Calmly, Onward
<1>5. UNCHANGED <<ardVars, picoVars>> => Safely
  BY <1>0, <1>1 DEF Safely, Aside
<1>6. CASE Client
  <2>1. CASE ArduinoLoop
    BY <1>0, <1>1, <1>4, <2>1, BeginningRegisters, AcknowledgingRegisters, RequestingRegisters,
       PublishingRegisters DEF ArduinoLoop, ArdLoop
  <2>2. CASE ArduinoReceive
    BY <1>4, <2>2, ReceivingRegisters DEF ArduinoReceive
  <2>3. CASE ArduinoTimer(InTime)
    BY <1>0, <1>1, <1>4, <2>3, BeginningRegisters, GivingUpRegisters, PublishingRegisters
       DEF ArduinoTimer, ArdTimeout
  <2>4. CASE ArduinoPublish
    BY <1>4, <2>4, PublishingRegisters DEF ArduinoPublish
  <2>5. ~PicoLoop /\ ~PicoCallback /\ ~PicoTimer(InTime) /\ ~PicoButton
    BY <1>1 DEF PicoLoop, PicoCallback, PicoTimer, PicoButton
  <2> QED BY <1>6, <2>1, <2>2, <2>3, <2>4, <2>5 DEF Client
<1>7. CASE Gateway
  BY <1>3, <1>5, <1>7, GatewayRegisters DEF Gateway, GatewayStep
<1>8. CASE Environment
  <2>1. ~ArduinoTimer(Early) /\ ~ArduinoReboot /\ ~PicoTimer(Early) /\ ~PicoPowerCycle
    BY <1>1, <1>2 DEF ArduinoTimer, Early, ArduinoReboot, ArdReboot, PicoTimer, PicoPowerCycle
  <2>2. CASE (\E t \in Command : CommandArrives(t)) /\ UNCHANGED <<ardVars, picoVars>>
    BY <1>3, <1>5, <2>2, GatewayRegisters
  <2>3. CASE (BrokerDrops \/ GatewayRestart) /\ UNCHANGED <<ardVars, picoVars>>
    BY <1>3, <1>5, <2>3, GatewayRegisters
  <2>4. CASE NetFault /\ UNCHANGED <<gatewayVars, ardVars, picoVars>>
    BY <1>0, <1>1, <1>5, <2>4, NetFaultRegisters DEF Strikes
  <2> QED BY <1>8, <2>1, <2>2, <2>3, <2>4 DEF Environment, GatewayStep
<1>9. CASE UNCHANGED vars
  BY <1>1, <1>9, StutterRegisters
<1> QED BY <1>6, <1>7, <1>8, <1>9 DEF Next

(* As long as no ids go round and the session is the client's own, a READY *)
(* Arduino has the ids that the gateway knows and its commands' topics are *)
(* subscribed to, whether packets are lost or come twice, however often    *)
(* the broker cannot be reached or refuses (handle_suback, handle_connack, *)
(* BrokerSendTask).                                                        *)
THEOREM ReadyIsRegistered == Spec /\ []NoWrap => []ReadyMeansRegistered
<1>1. TypeInv /\ WorldInv /\ RegisterInv => ReadyMeansRegistered
  <2> SUFFICES ASSUME TypeInv, WorldInv, RegisterInv, Arduino, st = "READY", SessionIsOwn
               PROVE  /\ client # None /\ client.status = "Active"
                      /\ \A t \in Topic : StoredId(t) # 0 /\ StoredId(t) = client.ids[t]
                      /\ broker.subs = Command
    BY DEF ReadyMeansRegistered
  <2>1. Registers
    BY DEF RegisterInv
  <2>2. /\ Filled /\ Fresh /\ (\A t \in Topic : table[t].id > 0) /\ Command \subseteq broker.subs
    BY <2>1, ReadyIsFresh DEF Registers
  <2>3. link = "open" /\ ~Has(AskedOut, {"CONNECT"}) /\ ~Has(ToldIn, {"ACCEPTED"})
        /\ ~Has(ToldOut, {"ACCEPTED"})
    BY <2>2 DEF Fresh, Asking, Telling, Anywhere
  <2>4. client.status = "Active" /\ client \in ClientType /\ client # None
    BY <2>1, <2>3, ClientIsThere DEF Registers, LinkInv, TypeInv, GatewayOK
  <2>5. broker.subs = Command
    BY <2>2 DEF TypeInv, GatewayOK, BrokerType
  <2>6. TopicIdIsTheTopics
    <3>1. Settled /\ IdsAreSafe
      BY DEF Settled, IdsAreSafe, SessionIsOwn, OnlySeen, NeverSeen
    <3> QED BY <3>1, WorldMeansIds DEF IdNamesItsTopic
  <2>7. ASSUME NEW t \in Topic PROVE StoredId(t) # 0 /\ StoredId(t) = client.ids[t]
    <3>1. StoredId(t) = table[t].id
      BY <2>2 DEF StoredId, TopicId, Filled
    <3>2. StoredId(t) # 0
      BY <2>2, <3>1
    <3>3. StoredId(t) \in KnownIds
      BY <2>1, <2>2, <3>1, <3>2 DEF Registers, GivenInv, TableIds
    <3>4. PICK u \in Topic : client.ids[u] = StoredId(t)
      BY <2>4, <3>3 DEF KnownIds, IdsOf
    <3>5. t = u
      BY <2>4, <2>6, <3>2, <3>4 DEF TopicIdIsTheTopics
    <3> QED BY <3>2, <3>4, <3>5
  <2> QED BY <2>4, <2>5, <2>7
<1> QED BY <1>1, TypeInvHolds, CommandInit, CommandStep, WorldInit, WorldStep, RegisterInit,
        RegisterStep, PTL DEF Spec
==============================================================================

---------------------- MODULE ClientCommands_proofs -----------------------
(***************************************************************************)
(* Commands and their acknowledgements: what the broker counts as received *)
(* the client has shown or executed.  The proof is about the order of what *)
(* is under way: a session begins with a CONNECT that is sent when nothing *)
(* else is, and the queues between the client and the broker keep their    *)
(* order, so what is left of one session reaches its end before the next   *)
(* one has a subscription.                                                 *)
(***************************************************************************)
EXTENDS ClientSession_proofs

(***************************************************************************)
(* Sequences of kinds.                                                     *)
(***************************************************************************)
Has(k, A) == \E i \in DOMAIN k : k[i] \in A

(* No B comes after an A.                                                  *)
NoneAfter(k, A, B) == \A i, j \in DOMAIN k : i < j /\ k[i] \in A => k[j] \notin B

LEMMA EmptyKinds ==
  \A A, B : ~Has(<<>>, A) /\ NoneAfter(<<>>, A, B)
BY DEF Has, NoneAfter

LEMMA TailKinds ==
  ASSUME NEW T, NEW k \in Seq(T), k # <<>>
  PROVE  /\ Tail(k) \in Seq(T) /\ Head(k) \in T
         /\ \A A : Has(k, A) <=> Head(k) \in A \/ Has(Tail(k), A)
         /\ \A A, B : NoneAfter(k, A, B) =>
              NoneAfter(Tail(k), A, B) /\ (Head(k) \in A => ~Has(Tail(k), B))
<1>0. /\ Tail(k) \in Seq(T) /\ Head(k) \in T /\ Head(k) = k[1]
      /\ Len(k) \in Nat /\ Len(k) >= 1 /\ DOMAIN k = 1 .. Len(k)
      /\ DOMAIN Tail(k) = 1 .. Len(k) - 1
      /\ \A i \in 1 .. Len(k) - 1 : Tail(k)[i] = k[i + 1]
  OBVIOUS
<1>1. ASSUME NEW A PROVE Has(k, A) <=> Head(k) \in A \/ Has(Tail(k), A)
  <2>1. ASSUME NEW i \in DOMAIN k, k[i] \in A PROVE Head(k) \in A \/ Has(Tail(k), A)
    <3>1. CASE i = 1
      BY <1>0, <2>1, <3>1
    <3>2. CASE i # 1
      <4>1. i - 1 \in DOMAIN Tail(k) /\ Tail(k)[i - 1] = k[i]
        BY <1>0, <3>2
      <4> QED BY <2>1, <4>1 DEF Has
    <3> QED BY <3>1, <3>2
  <2>2. ASSUME NEW i \in DOMAIN Tail(k), Tail(k)[i] \in A PROVE Has(k, A)
    <3>1. i + 1 \in DOMAIN k /\ k[i + 1] = Tail(k)[i]
      BY <1>0
    <3> QED BY <2>2, <3>1 DEF Has
  <2>3. Head(k) \in A => Has(k, A)
    <3>1. 1 \in DOMAIN k
      BY <1>0
    <3> QED BY <1>0, <3>1 DEF Has
  <2> QED BY <2>1, <2>2, <2>3 DEF Has
<1>2. ASSUME NEW A, NEW B, NoneAfter(k, A, B)
      PROVE  NoneAfter(Tail(k), A, B) /\ (Head(k) \in A => ~Has(Tail(k), B))
  <2>1. ASSUME NEW i \in DOMAIN Tail(k), NEW j \in DOMAIN Tail(k), i < j, Tail(k)[i] \in A
        PROVE  Tail(k)[j] \notin B
    <3>1. /\ i + 1 \in DOMAIN k /\ k[i + 1] = Tail(k)[i]
          /\ j + 1 \in DOMAIN k /\ k[j + 1] = Tail(k)[j] /\ i + 1 < j + 1
      BY <1>0, <2>1
    <3> QED BY <1>2, <2>1, <3>1 DEF NoneAfter
  <2>2. ASSUME NEW j \in DOMAIN Tail(k), Head(k) \in A PROVE Tail(k)[j] \notin B
    <3>1. 1 \in DOMAIN k /\ j + 1 \in DOMAIN k /\ k[j + 1] = Tail(k)[j] /\ 1 < j + 1
      BY <1>0
    <3> QED BY <1>0, <1>2, <2>2, <3>1 DEF NoneAfter
  <2> QED BY <2>1, <2>2 DEF Has, NoneAfter
<1> QED BY <1>0, <1>1, <1>2

LEMMA JoinedKinds ==
  ASSUME NEW T, NEW k \in Seq(T), NEW l \in Seq(T)
  PROVE  /\ k \o l \in Seq(T)
         /\ \A A : Has(k \o l, A) <=> Has(k, A) \/ Has(l, A)
         /\ \A A, B : /\ NoneAfter(k, A, B) /\ NoneAfter(l, A, B)
                      /\ ~(Has(k, A) /\ Has(l, B))
                      => NoneAfter(k \o l, A, B)
<1> DEFINE n == Len(k)
           q == k \o l
<1>0. /\ q \in Seq(T) /\ n \in Nat /\ Len(l) \in Nat /\ Len(q) = n + Len(l)
      /\ DOMAIN k = 1 .. n /\ DOMAIN l = 1 .. Len(l) /\ DOMAIN q = 1 .. Len(q)
      /\ \A i \in 1 .. n : q[i] = k[i]
      /\ \A i \in n + 1 .. Len(q) : q[i] = l[i - n]
  BY ConcatProperties
<1> HIDE DEF q, n
<1>1. ASSUME NEW i \in DOMAIN q
      PROVE  \/ i \in DOMAIN k /\ q[i] = k[i]
             \/ i \notin DOMAIN k /\ i - n \in DOMAIN l /\ q[i] = l[i - n] /\ i > n
  BY <1>0
<1>2. ASSUME NEW i \in DOMAIN k PROVE i \in DOMAIN q /\ q[i] = k[i]
  BY <1>0
<1>3. ASSUME NEW i \in DOMAIN l PROVE i + n \in DOMAIN q /\ q[i + n] = l[i]
  BY <1>0
<1>4. ASSUME NEW A PROVE Has(q, A) <=> Has(k, A) \/ Has(l, A)
  BY <1>1, <1>2, <1>3 DEF Has
<1>5. ASSUME NEW A, NEW B, NoneAfter(k, A, B), NoneAfter(l, A, B), ~(Has(k, A) /\ Has(l, B))
      PROVE  NoneAfter(q, A, B)
  <2> SUFFICES ASSUME NEW i \in DOMAIN q, NEW j \in DOMAIN q, i < j, q[i] \in A, q[j] \in B
               PROVE  FALSE
    BY DEF NoneAfter
  <2>1. i \in Nat /\ j \in Nat
    BY <1>0
  <2>2. CASE i \in DOMAIN k /\ j \in DOMAIN k
    BY <1>1, <1>5, <2>2 DEF NoneAfter
  <2>3. CASE i \in DOMAIN k /\ j \notin DOMAIN k
    BY <1>1, <1>5, <2>3 DEF Has
  <2>4. CASE i \notin DOMAIN k
    <3>1. i > n /\ j > n /\ j \notin DOMAIN k
      BY <1>0, <1>1, <2>1, <2>4
    <3>2. i - n \in DOMAIN l /\ q[i] = l[i - n] /\ j - n \in DOMAIN l /\ q[j] = l[j - n]
      BY <1>1, <2>4, <3>1
    <3>3. i - n < j - n
      BY <1>0, <2>1
    <3> QED BY <1>5, <3>2, <3>3 DEF NoneAfter
  <2> QED BY <2>2, <2>3, <2>4
<1> QED BY <1>0, <1>4, <1>5 DEF q

LEMMA OneKind ==
  ASSUME NEW T, NEW x \in T
  PROVE  <<x>> \in Seq(T) /\ \A A, B : (Has(<<x>>, A) <=> x \in A) /\ NoneAfter(<<x>>, A, B)
<1>1. <<x>> \in Seq(T) /\ DOMAIN <<x>> = {1} /\ <<x>>[1] = x
  OBVIOUS
<1> QED BY <1>1 DEF Has, NoneAfter

LEMMA AddedKind ==
  ASSUME NEW T, NEW k \in Seq(T), NEW x \in T
  PROVE  /\ Append(k, x) \in Seq(T)
         /\ \A A : Has(Append(k, x), A) <=> Has(k, A) \/ x \in A
         /\ \A A, B : NoneAfter(k, A, B) /\ ~(Has(k, A) /\ x \in B) => NoneAfter(Append(k, x), A, B)
<1>1. Append(k, x) = k \o <<x>>
  BY AppendIsConcat
<1> DEFINE l == <<x>>
<1>2. l \in Seq(T) /\ \A A, B : (Has(l, A) <=> x \in A) /\ NoneAfter(l, A, B)
  BY OneKind
<1>3. k \o l = Append(k, x)
  BY <1>1
<1> HIDE DEF l
<1>4. /\ k \o l \in Seq(T)
      /\ \A A : Has(k \o l, A) <=> Has(k, A) \/ Has(l, A)
      /\ \A A, B : NoneAfter(k, A, B) /\ NoneAfter(l, A, B) /\ ~(Has(k, A) /\ Has(l, B))
                   => NoneAfter(k \o l, A, B)
  BY <1>2, JoinedKinds
<1> QED BY <1>2, <1>3, <1>4

(***************************************************************************)
(* A way of three queues: f is where it ends, b where it begins.           *)
(***************************************************************************)
Anywhere(f, m, b, A) == Has(f, A) \/ Has(m, A) \/ Has(b, A)

(* No B is behind an A.                                                    *)
NoneBehind(f, m, b, A, B) ==
  /\ NoneAfter(f, A, B) /\ NoneAfter(m, A, B) /\ NoneAfter(b, A, B)
  /\ Has(f, A) => ~Has(m, B) /\ ~Has(b, B)
  /\ Has(m, A) => ~Has(b, B)

(* What is allowed to happen on the way.                                   *)
LEMMA Entering ==
  ASSUME NEW T, NEW f \in Seq(T), NEW m \in Seq(T), NEW b \in Seq(T), NEW l \in Seq(T),
         NEW A, NEW B, NoneBehind(f, m, b, A, B), NoneAfter(l, A, B),
         Has(l, B) => ~Anywhere(f, m, b, A)
  PROVE  NoneBehind(f, m, b \o l, A, B)
BY JoinedKinds DEF NoneBehind, Anywhere

LEMMA MovingOn ==
  ASSUME NEW T, NEW f \in Seq(T), NEW m \in Seq(T), NEW b \in Seq(T), NEW x \in T,
         NEW A, NEW B, NoneBehind(f, m, b, A, B)
  PROVE  /\ b # <<>> /\ (x \in A => Head(b) \in A) /\ (x \in B => Head(b) \in B)
              => NoneBehind(f, Append(m, x), Tail(b), A, B)
         /\ m # <<>> /\ (x \in A => Head(m) \in A) /\ (x \in B => Head(m) \in B)
              => NoneBehind(Append(f, x), Tail(m), b, A, B)
<1>1. ASSUME b # <<>>, x \in A => Head(b) \in A, x \in B => Head(b) \in B
      PROVE  NoneBehind(f, Append(m, x), Tail(b), A, B)
  BY <1>1, TailKinds, AddedKind DEF NoneBehind
<1>2. ASSUME m # <<>>, x \in A => Head(m) \in A, x \in B => Head(m) \in B
      PROVE  NoneBehind(Append(f, x), Tail(m), b, A, B)
  BY <1>2, TailKinds, AddedKind DEF NoneBehind
<1> QED BY <1>1, <1>2

LEMMA Leaving ==
  ASSUME NEW T, NEW f \in Seq(T), NEW m \in Seq(T), NEW b \in Seq(T),
         NEW A, NEW B, NoneBehind(f, m, b, A, B)
  PROVE  /\ f # <<>> => NoneBehind(Tail(f), m, b, A, B)
         /\ m # <<>> => NoneBehind(f, Tail(m), b, A, B)
         /\ b # <<>> => NoneBehind(f, m, Tail(b), A, B)
         /\ NoneBehind(<<>>, m, b, A, B) /\ NoneBehind(f, <<>>, b, A, B)
         /\ NoneBehind(f, m, <<>>, A, B)
BY TailKinds, EmptyKinds DEF NoneBehind

(* Others do not matter.                                                   *)
LEMMA PassingBy ==
  ASSUME NEW T, NEW f \in Seq(T), NEW m \in Seq(T), NEW b \in Seq(T), NEW x \in T,
         NEW A, NEW B, NoneBehind(f, m, b, A, B), x \notin A, x \notin B
  PROVE  NoneBehind(Append(f, x), m, b, A, B) /\ NoneBehind(f, Append(m, x), b, A, B)
         /\ NoneBehind(f, m, Append(b, x), A, B)
BY AddedKind DEF NoneBehind

(***************************************************************************)
(* The kinds of what is under way.  A request or an acknowledgement of the *)
(* client goes through up, packetQ and brokerQ; an answer or a command     *)
(* goes through fromBroker, packetQ and down.                              *)
(***************************************************************************)
Through(f, q) == [i \in DOMAIN q |-> f[q[i]]]

KindSet == {"CONNECT", "REGISTER", "SUBSCRIBE", "PUBLISH", "PUBACK", "PUBREC", "PUBCOMP",
            "DISCONNECT", "ACCEPTED", "REFUSED", "REGACK", "SUBACK", "PUBREL", "EOF", "-"}

LEMMA ConcatAt ==
  ASSUME NEW T, NEW k \in Seq(T), NEW l \in Seq(T)
  PROVE  /\ k \o l \in Seq(T) /\ Len(k \o l) = Len(k) + Len(l)
         /\ \A i \in 1 .. Len(k) + Len(l) : (k \o l)[i] = IF i <= Len(k) THEN k[i] ELSE l[i - Len(k)]
BY ConcatProperties

LEMMA ThroughMoves ==
  ASSUME NEW S, NEW q \in Seq(S), NEW f, \A p \in S : f[p] \in KindSet
  PROVE  /\ Through(f, q) \in Seq(KindSet)
         /\ Through(f, q) = <<>> <=> q = <<>>
         /\ q # <<>> => /\ Through(f, Tail(q)) = Tail(Through(f, q)) /\ Head(Through(f, q)) = f[Head(q)]
                        /\ Head(q) \in S
         /\ \A p \in S : Through(f, Append(q, p)) = Append(Through(f, q), f[p])
         /\ \A r \in Seq(S) : Through(f, q \o r) = Through(f, q) \o Through(f, r)
<1>1. /\ Len(q) \in Nat /\ DOMAIN q = 1 .. Len(q) /\ \A i \in DOMAIN q : q[i] \in S
  OBVIOUS
<1>2. ASSUME NEW r \in Seq(S)
      PROVE  /\ Through(f, r) \in Seq(KindSet) /\ Len(Through(f, r)) = Len(r)
             /\ \A i \in 1 .. Len(r) : Through(f, r)[i] = f[r[i]]
  <2>1. \A i \in 1 .. Len(r) : f[r[i]] \in KindSet
    OBVIOUS
  <2> QED BY <2>1 DEF Through
<1>3. Through(f, q) = <<>> <=> q = <<>>
  <2>1. Through(f, q) \in Seq(KindSet) /\ Len(Through(f, q)) = Len(q)
    BY <1>1, <1>2
  <2> QED BY <2>1, EmptySeq
<1>4. ASSUME q # <<>>
      PROVE  Through(f, Tail(q)) = Tail(Through(f, q)) /\ Head(Through(f, q)) = f[Head(q)]
  <2> DEFINE c == Tail(q)
             k == Through(f, q)
             n == Len(q) - 1
  <2>1. /\ c \in Seq(S) /\ Len(c) = n /\ n \in Nat /\ Len(q) = n + 1
        /\ \A i \in 1 .. n : c[i] = q[i + 1]
        /\ Head(q) = q[1]
    BY <1>1, <1>4
  <2>2. k \in Seq(KindSet) /\ k # <<>> /\ Len(k) = Len(q) /\ \A i \in 1 .. Len(q) : k[i] = f[q[i]]
    BY <1>1, <1>2, <1>3, <1>4
  <2> HIDE DEF c, k, n
  <2>3. /\ Tail(k) \in Seq(KindSet) /\ Len(Tail(k)) = n
        /\ \A i \in 1 .. n : Tail(k)[i] = k[i + 1]
        /\ Head(k) = k[1]
    <3>1. k \in Seq(KindSet) /\ k # <<>> /\ Len(k) = n + 1 /\ n \in Nat
      BY <2>1, <2>2
    <3> QED BY <3>1
  <2>4. /\ Through(f, c) \in Seq(KindSet) /\ Len(Through(f, c)) = n
        /\ \A i \in 1 .. n : Through(f, c)[i] = f[c[i]]
    BY <1>2, <2>1
  <2>5. ASSUME NEW i \in 1 .. n
        PROVE  Through(f, c)[i] = Tail(k)[i]
    <3>1. i + 1 \in 1 .. Len(q)
      BY <2>1
    <3>2. Through(f, c)[i] = f[q[i + 1]]
      BY <2>1, <2>4
    <3>3. Tail(k)[i] = f[q[i + 1]]
      BY <2>2, <2>3, <3>1
    <3> QED BY <3>2, <3>3
  <2>6. Through(f, c) = Tail(k)
    BY <2>3, <2>4, <2>5, SeqEqual
  <2>7. k[1] = f[q[1]]
    BY <2>1, <2>2
  <2> QED BY <2>1, <2>3, <2>6, <2>7 DEF c, k
<1>5. ASSUME NEW r \in Seq(S)
      PROVE  Through(f, q \o r) = Through(f, q) \o Through(f, r)
  <2> DEFINE c == q \o r
             k == Through(f, q)
             l == Through(f, r)
  <2>1. /\ c \in Seq(S) /\ Len(c) = Len(q) + Len(r)
        /\ \A i \in 1 .. Len(q) + Len(r) : c[i] = IF i <= Len(q) THEN q[i] ELSE r[i - Len(q)]
    BY <1>1, ConcatAt
  <2>2. /\ k \in Seq(KindSet) /\ l \in Seq(KindSet) /\ Len(k) = Len(q) /\ Len(l) = Len(r)
        /\ \A i \in 1 .. Len(q) : k[i] = f[q[i]]
        /\ \A i \in 1 .. Len(r) : l[i] = f[r[i]]
    BY <1>1, <1>2
  <2> HIDE DEF c, k, l
  <2>3. /\ k \o l \in Seq(KindSet) /\ Len(k \o l) = Len(q) + Len(r)
        /\ \A i \in 1 .. Len(q) + Len(r) : (k \o l)[i] = IF i <= Len(q) THEN k[i] ELSE l[i - Len(q)]
    <3>1. k \in Seq(KindSet) /\ l \in Seq(KindSet)
      BY <2>2
    <3>2. /\ k \o l \in Seq(KindSet) /\ Len(k \o l) = Len(k) + Len(l)
          /\ \A i \in 1 .. Len(k) + Len(l) : (k \o l)[i] = IF i <= Len(k) THEN k[i] ELSE l[i - Len(k)]
      BY <3>1, ConcatAt
    <3> QED BY <2>2, <3>2
  <2>4. /\ Through(f, c) \in Seq(KindSet) /\ Len(Through(f, c)) = Len(q) + Len(r)
        /\ \A i \in 1 .. Len(q) + Len(r) : Through(f, c)[i] = f[c[i]]
    BY <1>2, <2>1
  <2>5. ASSUME NEW i \in 1 .. Len(q) + Len(r)
        PROVE  Through(f, c)[i] = (k \o l)[i]
    <3>1. CASE i <= Len(q)
      <4>1. k[i] = f[q[i]]
        BY <1>1, <2>2, <3>1
      <4> QED BY <2>1, <2>3, <2>4, <3>1, <4>1
    <3>2. CASE ~(i <= Len(q))
      <4>1. i - Len(q) \in 1 .. Len(r)
        BY <1>1, <3>2
      <4>2. l[i - Len(q)] = f[r[i - Len(q)]]
        BY <2>2, <4>1
      <4> QED BY <2>1, <2>3, <2>4, <3>2, <4>2
    <3> QED BY <3>1, <3>2
  <2>6. Through(f, c) = k \o l
    BY <2>3, <2>4, <2>5, SeqEqual
  <2> QED BY <2>6 DEF c, k, l
<1>6. ASSUME NEW p \in S
      PROVE  Through(f, Append(q, p)) = Append(Through(f, q), f[p])
  <2>1. <<p>> \in Seq(S) /\ Append(q, p) = q \o <<p>>
    BY <1>1, AppendIsConcat
  <2>2. Through(f, <<p>>) = <<f[p]>>
    BY DEF Through
  <2>3. Append(Through(f, q), f[p]) = Through(f, q) \o <<f[p]>>
    BY <1>1, <1>2, AppendIsConcat
  <2> QED BY <1>5, <2>1, <2>2, <2>3
<1> QED BY <1>1, <1>2, <1>3, <1>4, <1>5, <1>6

Kind(p) == IF p.type = "CONNACK" THEN IF p.ok THEN "ACCEPTED" ELSE "REFUSED" ELSE p.type

AnyPacket == UpPacket \cup DownPacket \cup ToBroker \cup FromBroker

Kinds(q) == Through([p \in AnyPacket |-> Kind(p)], q)

(* The other side's events do not count.                                   *)
KindsFrom(who, q) ==
  Through([e \in GatewayEvent |-> IF e.from = who THEN Kind(e.packet) ELSE "-"], q)

LEMMA KindType ==
  /\ \A p \in AnyPacket : Kind(p) \in KindSet
  /\ \A e \in GatewayEvent : e.packet \in AnyPacket /\ Kind(e.packet) \in KindSet
<1>1. ASSUME NEW p \in AnyPacket PROVE Kind(p) \in KindSet
  <2>1. CASE p \in UpPacket
    BY <2>1 DEF UpPacket, Connect, Register, Subscription, Publication, Ack, Kind, KindSet
  <2>2. CASE p \in DownPacket
    BY <2>2 DEF DownPacket, Disconnect, Connack, IdGiven, Puback, CommandSent, Pubrel, Kind, KindSet
  <2>3. CASE p \in ToBroker
    BY <2>3 DEF ToBroker, Connect, Subscription, Ack, Forwarded, Kind, KindSet
  <2>4. CASE p \in FromBroker
    BY <2>4 DEF FromBroker, BrokerPacket, Connack, BrokerAck, CommandTaken, Kind, KindSet
  <2> QED BY <1>1, <2>1, <2>2, <2>3, <2>4 DEF AnyPacket
<1>2. ASSUME NEW e \in GatewayEvent PROVE e.packet \in AnyPacket
  BY DEF GatewayEvent, AnyPacket, FromBroker, DownPacket
<1> QED BY <1>1, <1>2

LEMMA KindsMove ==
  ASSUME NEW q \in Seq(AnyPacket)
  PROVE  /\ Kinds(q) \in Seq(KindSet)
         /\ Kinds(q) = <<>> <=> q = <<>>
         /\ q # <<>> => Kinds(Tail(q)) = Tail(Kinds(q)) /\ Head(Kinds(q)) = Kind(Head(q))
         /\ \A p \in AnyPacket : Kinds(Append(q, p)) = Append(Kinds(q), Kind(p))
         /\ \A r \in Seq(AnyPacket) : Kinds(q \o r) = Kinds(q) \o Kinds(r)
<1> DEFINE f == [p \in AnyPacket |-> Kind(p)]
<1>1. (\A p \in AnyPacket : f[p] \in KindSet) /\ \A p \in AnyPacket : f[p] = Kind(p)
  BY KindType
<1>3. \A r : Kinds(r) = Through(f, r)
  BY DEF Kinds
<1>4. q # <<>> => Head(q) \in AnyPacket
  OBVIOUS
<1> HIDE DEF f
<1>5. /\ Through(f, q) \in Seq(KindSet)
      /\ Through(f, q) = <<>> <=> q = <<>>
      /\ q # <<>> => Through(f, Tail(q)) = Tail(Through(f, q)) /\ Head(Through(f, q)) = f[Head(q)]
      /\ \A p \in AnyPacket : Through(f, Append(q, p)) = Append(Through(f, q), f[p])
      /\ \A r \in Seq(AnyPacket) : Through(f, q \o r) = Through(f, q) \o Through(f, r)
  BY <1>1, ThroughMoves
<1> QED BY <1>1, <1>3, <1>4, <1>5

LEMMA EventKindsMove ==
  ASSUME NEW who, NEW q \in Seq(GatewayEvent)
  PROVE  /\ KindsFrom(who, q) \in Seq(KindSet)
         /\ KindsFrom(who, q) = <<>> <=> q = <<>>
         /\ q # <<>> => /\ KindsFrom(who, Tail(q)) = Tail(KindsFrom(who, q))
                        /\ Head(KindsFrom(who, q)) =
                             IF Head(q).from = who THEN Kind(Head(q).packet) ELSE "-"
         /\ \A e \in GatewayEvent : KindsFrom(who, Append(q, e)) =
              Append(KindsFrom(who, q), IF e.from = who THEN Kind(e.packet) ELSE "-")
<1> DEFINE f == [e \in GatewayEvent |-> IF e.from = who THEN Kind(e.packet) ELSE "-"]
<1>1. /\ \A e \in GatewayEvent : f[e] \in KindSet
      /\ \A e \in GatewayEvent : f[e] = IF e.from = who THEN Kind(e.packet) ELSE "-"
  BY KindType DEF KindSet
<1>3. \A r : KindsFrom(who, r) = Through(f, r)
  BY DEF KindsFrom
<1>4. q # <<>> => Head(q) \in GatewayEvent
  OBVIOUS
<1> HIDE DEF f
<1>5. /\ Through(f, q) \in Seq(KindSet)
      /\ Through(f, q) = <<>> <=> q = <<>>
      /\ q # <<>> => Through(f, Tail(q)) = Tail(Through(f, q)) /\ Head(Through(f, q)) = f[Head(q)]
      /\ \A e \in GatewayEvent : Through(f, Append(q, e)) = Append(Through(f, q), f[e])
  BY <1>1, ThroughMoves
<1> QED BY <1>1, <1>3, <1>4, <1>5

(***************************************************************************)
(* The two ways, front first.                                              *)
(***************************************************************************)
AskedOut == Kinds(brokerQ)
AskedIn  == KindsFrom("client", packetQ)
AskedUp  == Kinds(up)

ToldDown == Kinds(down)
ToldIn   == KindsFrom("broker", packetQ)
ToldOut  == Kinds(fromBroker)

Asking(A)  == Anywhere(AskedOut, AskedIn, AskedUp, A)
Telling(A) == Anywhere(ToldDown, ToldIn, ToldOut, A)

AskedInOrder(A, B) == NoneBehind(AskedOut, AskedIn, AskedUp, A, B)
ToldInOrder(A, B)  == NoneBehind(ToldDown, ToldIn, ToldOut, A, B)

(* Nothing but what is in new has entered a way, and the rest kept its     *)
(* order.                                                                  *)
Keeps(f, m, b, f2, m2, b2, new) ==
  \A A, B : A \cap new = {} /\ B \cap new = {} =>
    /\ NoneBehind(f, m, b, A, B) => NoneBehind(f2, m2, b2, A, B)
    /\ Anywhere(f2, m2, b2, A) => Anywhere(f, m, b, A)

AskKeeps(new)  == Keeps(AskedOut, AskedIn, AskedUp, AskedOut', AskedIn', AskedUp', new)
TellKeeps(new) == Keeps(ToldDown, ToldIn, ToldOut, ToldDown', ToldIn', ToldOut', new)

LEMMA KeepsNothing == \A f, m, b, new : Keeps(f, m, b, f, m, b, new)
BY DEF Keeps

LEMMA KeepsMore ==
  ASSUME NEW f, NEW m, NEW b, NEW f2, NEW m2, NEW b2, NEW new, NEW more, new \subseteq more,
         Keeps(f, m, b, f2, m2, b2, new)
  PROVE  Keeps(f, m, b, f2, m2, b2, more)
<1>1. \A A : A \cap more = {} => A \cap new = {}
  OBVIOUS
<1> QED BY <1>1 DEF Keeps

LEMMA KeepsTwice ==
  ASSUME NEW f, NEW m, NEW b, NEW f2, NEW m2, NEW b2, NEW f3, NEW m3, NEW b3, NEW new,
         Keeps(f, m, b, f2, m2, b2, new), Keeps(f2, m2, b2, f3, m3, b3, new)
  PROVE  Keeps(f, m, b, f3, m3, b3, new)
BY DEF Keeps

LEMMA KeepsAway ==
  ASSUME NEW f \in Seq(KindSet), NEW m \in Seq(KindSet), NEW b \in Seq(KindSet), NEW new
  PROVE  /\ f # <<>> => Keeps(f, m, b, Tail(f), m, b, new)
         /\ m # <<>> => Keeps(f, m, b, f, Tail(m), b, new)
         /\ b # <<>> => Keeps(f, m, b, f, m, Tail(b), new)
         /\ Keeps(f, m, b, <<>>, m, b, new) /\ Keeps(f, m, b, f, <<>>, b, new)
         /\ Keeps(f, m, b, f, m, <<>>, new)
<1>1. ASSUME f # <<>> PROVE Keeps(f, m, b, Tail(f), m, b, new)
  BY <1>1, Leaving, TailKinds DEF Keeps, Anywhere
<1>2. ASSUME m # <<>> PROVE Keeps(f, m, b, f, Tail(m), b, new)
  BY <1>2, Leaving, TailKinds DEF Keeps, Anywhere
<1>3. ASSUME b # <<>> PROVE Keeps(f, m, b, f, m, Tail(b), new)
  BY <1>3, Leaving, TailKinds DEF Keeps, Anywhere
<1>4. Keeps(f, m, b, <<>>, m, b, new)
  BY Leaving, EmptyKinds DEF Keeps, Anywhere
<1>5. Keeps(f, m, b, f, <<>>, b, new)
  BY Leaving, EmptyKinds DEF Keeps, Anywhere
<1>6. Keeps(f, m, b, f, m, <<>>, new)
  BY Leaving, EmptyKinds DEF Keeps, Anywhere
<1> QED BY <1>1, <1>2, <1>3, <1>4, <1>5, <1>6

LEMMA KeepsNew ==
  ASSUME NEW f \in Seq(KindSet), NEW m \in Seq(KindSet), NEW b \in Seq(KindSet), NEW new,
         NEW x \in KindSet, x \in new
  PROVE  /\ Keeps(f, m, b, Append(f, x), m, b, new)
         /\ Keeps(f, m, b, f, Append(m, x), b, new)
         /\ Keeps(f, m, b, f, m, Append(b, x), new)
<1>1. \A A : A \cap new = {} => x \notin A
  OBVIOUS
<1>2. Keeps(f, m, b, Append(f, x), m, b, new)
  BY <1>1, PassingBy, AddedKind DEF Keeps, Anywhere
<1>3. Keeps(f, m, b, f, Append(m, x), b, new)
  BY <1>1, PassingBy, AddedKind DEF Keeps, Anywhere
<1>4. Keeps(f, m, b, f, m, Append(b, x), new)
  BY <1>1, PassingBy, AddedKind DEF Keeps, Anywhere
<1> QED BY <1>2, <1>3, <1>4

LEMMA KeepsOn ==
  ASSUME NEW f \in Seq(KindSet), NEW m \in Seq(KindSet), NEW b \in Seq(KindSet), NEW new,
         NEW x \in KindSet
  PROVE  /\ b # <<>> /\ (x = Head(b) \/ x \in new) => Keeps(f, m, b, f, Append(m, x), Tail(b), new)
         /\ m # <<>> /\ (x = Head(m) \/ x \in new) => Keeps(f, m, b, Append(f, x), Tail(m), b, new)
<1>1. \A A : A \cap new = {} /\ x \in new => x \notin A
  OBVIOUS
<1>2. ASSUME b # <<>>, x = Head(b) \/ x \in new
      PROVE  Keeps(f, m, b, f, Append(m, x), Tail(b), new)
  <2> SUFFICES ASSUME NEW A, NEW B, A \cap new = {}, B \cap new = {}
               PROVE  /\ NoneBehind(f, m, b, A, B) => NoneBehind(f, Append(m, x), Tail(b), A, B)
                      /\ Anywhere(f, Append(m, x), Tail(b), A) => Anywhere(f, m, b, A)
    BY DEF Keeps
  <2>1. (x \in A => Head(b) \in A) /\ (x \in B => Head(b) \in B)
    BY <1>1, <1>2
  <2>2. (Has(b, A) <=> Head(b) \in A \/ Has(Tail(b), A)) /\ (Has(Append(m, x), A) <=> Has(m, A) \/ x \in A)
    BY <1>2, TailKinds, AddedKind
  <2>3. NoneBehind(f, m, b, A, B) => NoneBehind(f, Append(m, x), Tail(b), A, B)
    BY <1>2, <2>1, MovingOn
  <2> QED BY <2>1, <2>2, <2>3 DEF Anywhere
<1>3. ASSUME m # <<>>, x = Head(m) \/ x \in new
      PROVE  Keeps(f, m, b, Append(f, x), Tail(m), b, new)
  <2> SUFFICES ASSUME NEW A, NEW B, A \cap new = {}, B \cap new = {}
               PROVE  /\ NoneBehind(f, m, b, A, B) => NoneBehind(Append(f, x), Tail(m), b, A, B)
                      /\ Anywhere(Append(f, x), Tail(m), b, A) => Anywhere(f, m, b, A)
    BY DEF Keeps
  <2>1. (x \in A => Head(m) \in A) /\ (x \in B => Head(m) \in B)
    BY <1>1, <1>3
  <2>2. (Has(m, A) <=> Head(m) \in A \/ Has(Tail(m), A)) /\ (Has(Append(f, x), A) <=> Has(f, A) \/ x \in A)
    BY <1>3, TailKinds, AddedKind
  <2>3. NoneBehind(f, m, b, A, B) => NoneBehind(Append(f, x), Tail(m), b, A, B)
    BY <1>3, <2>1, MovingOn
  <2> QED BY <2>1, <2>2, <2>3 DEF Anywhere
<1> QED BY <1>2, <1>3

(***************************************************************************)
(* What is in the queues.                                                  *)
(***************************************************************************)
Held(q) == {q[i] : i \in DOMAIN q}

EventsOf(who, q) == {e.packet : e \in {x \in Held(q) : x.from = who}}

LEMMA HeldMoves ==
  ASSUME NEW S, NEW q \in Seq(S)
  PROVE  /\ Held(q) \subseteq S
         /\ q # <<>> => Head(q) \in Held(q) /\ Held(Tail(q)) \subseteq Held(q)
         /\ \A p : Held(Append(q, p)) \subseteq Held(q) \cup {p}
         /\ \A r \in Seq(S) : Held(q \o r) \subseteq Held(q) \cup Held(r)
<1>1. Len(q) \in Nat /\ DOMAIN q = 1 .. Len(q) /\ \A i \in 1 .. Len(q) : q[i] \in S
  OBVIOUS
<1>2. Held(q) \subseteq S
  BY <1>1 DEF Held
<1>3. ASSUME q # <<>> PROVE Head(q) \in Held(q) /\ Held(Tail(q)) \subseteq Held(q)
  <2>1. /\ 1 \in 1 .. Len(q) /\ Head(q) = q[1] /\ DOMAIN Tail(q) = 1 .. Len(q) - 1
        /\ \A i \in 1 .. Len(q) - 1 : Tail(q)[i] = q[i + 1] /\ i + 1 \in 1 .. Len(q)
    BY <1>1, <1>3
  <2> QED BY <1>1, <2>1 DEF Held
<1>4. ASSUME NEW p PROVE Held(Append(q, p)) \subseteq Held(q) \cup {p}
  <2>1. /\ DOMAIN Append(q, p) = 1 .. Len(q) + 1
        /\ \A i \in 1 .. Len(q) + 1 : Append(q, p)[i] = IF i <= Len(q) THEN q[i] ELSE p
    BY <1>1
  <2> QED BY <1>1, <2>1 DEF Held
<1>5. ASSUME NEW r \in Seq(S) PROVE Held(q \o r) \subseteq Held(q) \cup Held(r)
  <2> DEFINE c == q \o r
  <2>1. /\ c \in Seq(S) /\ Len(c) = Len(q) + Len(r)
        /\ \A i \in 1 .. Len(q) + Len(r) : c[i] = IF i <= Len(q) THEN q[i] ELSE r[i - Len(q)]
    BY <1>1, ConcatAt
  <2>2. DOMAIN c = 1 .. Len(q) + Len(r) /\ DOMAIN r = 1 .. Len(r) /\ Len(r) \in Nat
    BY <2>1
  <2> HIDE DEF c
  <2>3. ASSUME NEW i \in DOMAIN c PROVE c[i] \in Held(q) \cup Held(r)
    <3>1. CASE i <= Len(q)
      BY <1>1, <2>1, <2>2, <3>1 DEF Held
    <3>2. CASE ~(i <= Len(q))
      <4>1. i - Len(q) \in DOMAIN r /\ c[i] = r[i - Len(q)]
        BY <1>1, <2>1, <2>2, <3>2
      <4> QED BY <4>1 DEF Held
    <3> QED BY <3>1, <3>2
  <2>4. Held(c) \subseteq Held(q) \cup Held(r)
    BY <2>3 DEF Held
  <2> QED BY <2>4 DEF c
<1> QED BY <1>2, <1>3, <1>4, <1>5

LEMMA HeldFew == Held(<<>>) = {} /\ \A p : Held(<<p>>) = {p}
BY DEF Held

LEMMA EventsMove ==
  ASSUME NEW q \in Seq(GatewayEvent), NEW who
  PROVE  /\ EventsOf(who, <<>>) = {}
         /\ q # <<>> => /\ EventsOf(who, Tail(q)) \subseteq EventsOf(who, q)
                        /\ Head(q).from = who => Head(q).packet \in EventsOf(who, q)
         /\ \A e \in GatewayEvent : EventsOf(who, Append(q, e)) \subseteq
              EventsOf(who, q) \cup (IF e.from = who THEN {e.packet} ELSE {})
<1>1. EventsOf(who, <<>>) = {}
  BY HeldFew DEF EventsOf
<1>2. ASSUME q # <<>>
      PROVE  /\ EventsOf(who, Tail(q)) \subseteq EventsOf(who, q)
             /\ Head(q).from = who => Head(q).packet \in EventsOf(who, q)
  BY <1>2, HeldMoves DEF EventsOf
<1>3. ASSUME NEW e \in GatewayEvent
      PROVE  EventsOf(who, Append(q, e)) \subseteq
               EventsOf(who, q) \cup (IF e.from = who THEN {e.packet} ELSE {})
  BY HeldMoves DEF EventsOf
<1> QED BY <1>1, <1>2, <1>3

AskedSet == Held(up) \cup EventsOf("client", packetQ) \cup Held(brokerQ)

(* Not yet at the gateway's end of the way, and all that is told.          *)
FromSet == EventsOf("broker", packetQ) \cup Held(fromBroker)
ToldSet == Held(down) \cup FromSet

LEMMA HasHeld ==
  ASSUME NEW q \in Seq(AnyPacket), NEW A
  PROVE  Has(Kinds(q), A) <=> \E p \in Held(q) : Kind(p) \in A
<1>1. /\ DOMAIN Kinds(q) = DOMAIN q
      /\ \A i \in DOMAIN q : Kinds(q)[i] = Kind(q[i])
  <2>1. \A i \in DOMAIN q : q[i] \in AnyPacket
    OBVIOUS
  <2> QED BY <2>1 DEF Kinds, Through
<1> HIDE DEF Kinds
<1> QED BY <1>1 DEF Has, Held

LEMMA HasEvents ==
  ASSUME NEW q \in Seq(GatewayEvent), NEW who, NEW A, "-" \notin A
  PROVE  Has(KindsFrom(who, q), A) <=> \E p \in EventsOf(who, q) : Kind(p) \in A
<1>1. /\ DOMAIN KindsFrom(who, q) = DOMAIN q
      /\ \A i \in DOMAIN q : KindsFrom(who, q)[i] = IF q[i].from = who THEN Kind(q[i].packet) ELSE "-"
  <2>1. \A i \in DOMAIN q : q[i] \in GatewayEvent
    OBVIOUS
  <2> DEFINE f == [e \in GatewayEvent |-> IF e.from = who THEN Kind(e.packet) ELSE "-"]
  <2>2. KindsFrom(who, q) = [i \in DOMAIN q |-> f[q[i]]]
    BY DEF KindsFrom, Through
  <2>3. \A i \in DOMAIN q : f[q[i]] = IF q[i].from = who THEN Kind(q[i].packet) ELSE "-"
    BY <2>1
  <2> HIDE DEF f
  <2> QED BY <2>2, <2>3
<1>2. ASSUME NEW i \in DOMAIN q, KindsFrom(who, q)[i] \in A
      PROVE  \E p \in EventsOf(who, q) : Kind(p) \in A
  <2>1. q[i] \in Held(q) /\ q[i].from = who /\ Kind(q[i].packet) \in A
    BY <1>1, <1>2 DEF Held
  <2>2. q[i].packet \in EventsOf(who, q)
    BY <2>1 DEF EventsOf
  <2> QED BY <2>1, <2>2
<1>3. ASSUME NEW p \in EventsOf(who, q), Kind(p) \in A
      PROVE  Has(KindsFrom(who, q), A)
  <2>1. PICK e \in Held(q) : e.from = who /\ p = e.packet
    BY <1>3 DEF EventsOf
  <2>2. PICK i \in DOMAIN q : e = q[i]
    BY <2>1 DEF Held
  <2> QED BY <1>1, <1>3, <2>1, <2>2 DEF Has
<1>4. Has(KindsFrom(who, q), A) => \E p \in EventsOf(who, q) : Kind(p) \in A
  BY <1>1, <1>2 DEF Has
<1>5. (\E p \in EventsOf(who, q) : Kind(p) \in A) => Has(KindsFrom(who, q), A)
  BY <1>3
<1> QED BY <1>4, <1>5

LEMMA Queues ==
  ASSUME TypeInv
  PROVE  /\ up \in Seq(UpPacket) /\ down \in Seq(DownPacket) /\ packetQ \in Seq(GatewayEvent)
         /\ brokerQ \in Seq(ToBroker) /\ fromBroker \in Seq(FromBroker)
         /\ up \in Seq(AnyPacket) /\ down \in Seq(AnyPacket)
         /\ brokerQ \in Seq(AnyPacket) /\ fromBroker \in Seq(AnyPacket)
<1>1. /\ up \in Seq(UpPacket) /\ down \in Seq(DownPacket) /\ packetQ \in Seq(GatewayEvent)
      /\ brokerQ \in Seq(ToBroker) /\ fromBroker \in Seq(FromBroker)
  BY DEF TypeInv, NetOK, GatewayOK
<1>2. \A S \in SUBSET AnyPacket : Seq(S) \subseteq Seq(AnyPacket)
  OBVIOUS
<1>3. /\ UpPacket \in SUBSET AnyPacket /\ DownPacket \in SUBSET AnyPacket
      /\ ToBroker \in SUBSET AnyPacket /\ FromBroker \in SUBSET AnyPacket
  BY DEF AnyPacket
<1> QED BY <1>1, <1>2, <1>3

LEMMA Ways ==
  ASSUME TypeInv
  PROVE  /\ AskedOut \in Seq(KindSet) /\ AskedIn \in Seq(KindSet) /\ AskedUp \in Seq(KindSet)
         /\ ToldDown \in Seq(KindSet) /\ ToldIn \in Seq(KindSet) /\ ToldOut \in Seq(KindSet)
         /\ \A A : "-" \notin A =>
              /\ Asking(A) <=> \E p \in AskedSet : Kind(p) \in A
              /\ Telling(A) <=> \E p \in ToldSet : Kind(p) \in A
         /\ AskedSet \subseteq UpPacket \cup ToBroker
         /\ FromSet \subseteq FromBroker \cup Disconnect
         /\ ToldSet \subseteq DownPacket \cup FromBroker
<1>1. /\ AskedOut \in Seq(KindSet) /\ AskedIn \in Seq(KindSet) /\ AskedUp \in Seq(KindSet)
      /\ ToldDown \in Seq(KindSet) /\ ToldIn \in Seq(KindSet) /\ ToldOut \in Seq(KindSet)
  BY Queues, KindsMove, EventKindsMove DEF AskedOut, AskedIn, AskedUp, ToldDown, ToldIn, ToldOut
<1>2. ASSUME NEW A, "-" \notin A
      PROVE  /\ Asking(A) <=> \E p \in AskedSet : Kind(p) \in A
             /\ Telling(A) <=> \E p \in ToldSet : Kind(p) \in A
  <2>1. /\ Has(AskedOut, A) <=> \E p \in Held(brokerQ) : Kind(p) \in A
        /\ Has(AskedIn, A) <=> \E p \in EventsOf("client", packetQ) : Kind(p) \in A
        /\ Has(AskedUp, A) <=> \E p \in Held(up) : Kind(p) \in A
    BY <1>2, Queues, HasHeld, HasEvents DEF AskedOut, AskedIn, AskedUp
  <2>2. /\ Has(ToldDown, A) <=> \E p \in Held(down) : Kind(p) \in A
        /\ Has(ToldIn, A) <=> \E p \in EventsOf("broker", packetQ) : Kind(p) \in A
        /\ Has(ToldOut, A) <=> \E p \in Held(fromBroker) : Kind(p) \in A
    BY <1>2, Queues, HasHeld, HasEvents DEF ToldDown, ToldIn, ToldOut
  <2>3. Asking(A) <=> \E p \in AskedSet : Kind(p) \in A
    BY <2>1 DEF Asking, Anywhere, AskedSet
  <2>4. Telling(A) <=> \E p \in ToldSet : Kind(p) \in A
    BY <2>2 DEF Telling, Anywhere, ToldSet, FromSet
  <2> QED BY <2>3, <2>4
<1>3. /\ Held(up) \subseteq UpPacket /\ Held(brokerQ) \subseteq ToBroker /\ Held(down) \subseteq DownPacket
      /\ Held(fromBroker) \subseteq FromBroker /\ Held(packetQ) \subseteq GatewayEvent
  BY Queues, HeldMoves
<1>4. EventsOf("client", packetQ) \subseteq UpPacket
  BY <1>3 DEF EventsOf, GatewayEvent
<1>5. EventsOf("broker", packetQ) \subseteq FromBroker \cup Disconnect
  BY <1>3 DEF EventsOf, GatewayEvent, FromBroker
<1>6. Disconnect \subseteq DownPacket
  BY DEF DownPacket
<1>7. AskedSet \subseteq UpPacket \cup ToBroker
  BY <1>3, <1>4 DEF AskedSet
<1>8. FromSet \subseteq FromBroker \cup Disconnect
  BY <1>3, <1>5 DEF FromSet
<1>9. ToldSet \subseteq DownPacket \cup FromBroker
  BY <1>3, <1>6, <1>8 DEF ToldSet
<1> QED BY <1>1, <1>2, <1>7, <1>8, <1>9

(***************************************************************************)
(* What each step of the gateway does to the two ways.                     *)
(***************************************************************************)
LEMMA HandlingAsks ==
  ASSUME TypeInv, NEW from \in {"client", "broker"}, NEW type, Handling(from, type),
         NEW c, NEW d, NEW b \in Seq(ToBroker), Answer(c, d, b), NEW new, "-" \in new,
         \/ b = <<>>
         \/ \E x \in ToBroker : b = <<x>> /\ (Kind(x) \in new \/ (from = "client" /\ Kind(x) = Kind(Packet)))
  PROVE  /\ AskKeeps(new)
         /\ AskedSet' \subseteq AskedSet \cup Held(b)
         /\ Held(brokerQ') \subseteq Held(brokerQ) \cup Held(b)
         /\ from = "client" => Packet \in AskedSet
<1>1. /\ packetQ # <<>> /\ packetQ' = Tail(packetQ) /\ up' = up /\ brokerQ' = brokerQ \o b
      /\ Head(packetQ).from = from /\ Packet = Head(packetQ).packet
  BY DEF Handling, Answer, Packet
<1>2. /\ AskedIn # <<>> /\ AskedIn' = Tail(AskedIn) /\ AskedUp' = AskedUp
      /\ Head(AskedIn) = IF from = "client" THEN Kind(Packet) ELSE "-"
  BY <1>1, Queues, EventKindsMove DEF AskedIn, AskedUp
<1>3. AskKeeps(new)
  <2>1. CASE b = <<>>
    <3>1. AskedOut' = AskedOut
      BY <1>1, <2>1, Queues, ConcatEmptySeq DEF AskedOut
    <3> QED BY <1>2, <3>1, Ways, KeepsAway DEF AskKeeps
  <2>2. ASSUME NEW x \in ToBroker, b = <<x>>,
               Kind(x) \in new \/ (from = "client" /\ Kind(x) = Kind(Packet))
        PROVE  AskKeeps(new)
    <3>1. brokerQ' = Append(brokerQ, x) /\ x \in AnyPacket
      BY <1>1, <2>2, Queues, AppendIsConcat DEF AnyPacket
    <3>2. AskedOut' = Append(AskedOut, Kind(x)) /\ Kind(x) \in KindSet
      BY <3>1, Queues, KindsMove, KindType DEF AskedOut
    <3>3. Kind(x) = Head(AskedIn) \/ Kind(x) \in new
      BY <1>2, <2>2
    <3>4. Keeps(AskedOut, AskedIn, AskedUp, Append(AskedOut, Kind(x)), Tail(AskedIn), AskedUp, new)
      BY <1>2, <3>2, <3>3, Ways, KeepsOn
    <3> QED BY <1>2, <3>2, <3>4 DEF AskKeeps
  <2> QED BY <2>1, <2>2
<1>4. Held(brokerQ') \subseteq Held(brokerQ) \cup Held(b)
  BY <1>1, Queues, HeldMoves
<1>5. EventsOf("client", packetQ') \subseteq EventsOf("client", packetQ)
  BY <1>1, Queues, EventsMove
<1>6. AskedSet' \subseteq AskedSet \cup Held(b)
  BY <1>1, <1>4, <1>5 DEF AskedSet
<1>7. from = "client" => Packet \in AskedSet
  BY <1>1, Queues, EventsMove DEF AskedSet
<1> QED BY <1>3, <1>4, <1>6, <1>7

LEMMA HandlingTells ==
  ASSUME TypeInv, NEW from \in {"client", "broker"}, NEW type, Handling(from, type),
         NEW c, NEW b, NEW d \in Seq(DownPacket), Answer(c, d, b), NEW new, "-" \in new,
         \/ d = <<>>
         \/ \E x \in DownPacket : d = <<x>> /\ (Kind(x) \in new \/ (from = "broker" /\ Kind(x) = Kind(Packet)))
  PROVE  /\ TellKeeps(new)
         /\ ToldSet' \subseteq ToldSet \cup Held(d)
         /\ FromSet' \subseteq FromSet
         /\ from = "broker" => Packet \in FromSet /\ Has(ToldIn, {Kind(Packet)}) /\ Head(ToldIn) = Kind(Packet)
         /\ ToldIn # <<>> /\ ToldIn' = Tail(ToldIn) /\ ToldOut' = ToldOut
<1>1. /\ packetQ # <<>> /\ packetQ' = Tail(packetQ) /\ fromBroker' = fromBroker /\ down' = down \o d
      /\ Head(packetQ).from = from /\ Packet = Head(packetQ).packet
  BY DEF Handling, Answer, Packet, brokerVars
<1>2. /\ ToldIn # <<>> /\ ToldIn' = Tail(ToldIn) /\ ToldOut' = ToldOut
      /\ Head(ToldIn) = IF from = "broker" THEN Kind(Packet) ELSE "-"
  BY <1>1, Queues, EventKindsMove DEF ToldIn, ToldOut
<1>3. TellKeeps(new)
  <2>1. CASE d = <<>>
    <3>1. ToldDown' = ToldDown
      BY <1>1, <2>1, Queues, ConcatEmptySeq DEF ToldDown
    <3> QED BY <1>2, <3>1, Ways, KeepsAway DEF TellKeeps
  <2>2. ASSUME NEW x \in DownPacket, d = <<x>>,
               Kind(x) \in new \/ (from = "broker" /\ Kind(x) = Kind(Packet))
        PROVE  TellKeeps(new)
    <3>1. down' = Append(down, x) /\ x \in AnyPacket
      BY <1>1, <2>2, Queues, AppendIsConcat DEF AnyPacket
    <3>2. ToldDown' = Append(ToldDown, Kind(x)) /\ Kind(x) \in KindSet
      BY <3>1, Queues, KindsMove, KindType DEF ToldDown
    <3>3. Kind(x) = Head(ToldIn) \/ Kind(x) \in new
      BY <1>2, <2>2
    <3>4. Keeps(ToldDown, ToldIn, ToldOut, Append(ToldDown, Kind(x)), Tail(ToldIn), ToldOut, new)
      BY <1>2, <3>2, <3>3, Ways, KeepsOn
    <3> QED BY <1>2, <3>2, <3>4 DEF TellKeeps
  <2> QED BY <2>1, <2>2
<1>4. Held(down') \subseteq Held(down) \cup Held(d)
  BY <1>1, Queues, HeldMoves
<1>5. EventsOf("broker", packetQ') \subseteq EventsOf("broker", packetQ)
  BY <1>1, Queues, EventsMove
<1>6. FromSet' \subseteq FromSet
  BY <1>1, <1>5 DEF FromSet
<1>7. ToldSet' \subseteq ToldSet \cup Held(d)
  BY <1>4, <1>6 DEF ToldSet
<1>8. from = "broker" => Packet \in FromSet
  BY <1>1, Queues, EventsMove DEF FromSet
<1>9. from = "broker" => Has(ToldIn, {Kind(Packet)})
  BY <1>2, Ways, TailKinds
<1> QED BY <1>2, <1>3, <1>6, <1>7, <1>8, <1>9

CmdAcks == {"PUBACK", "PUBREC"}

(* The commands told, the mids of the acknowledgements under way, the      *)
(* topics of the commands that are not yet at the gateway's end, and those *)
(* of the requests that are.                                               *)
ToldCmds == {[mid |-> p.mid, cmd |-> p.cmd] : p \in {x \in ToldSet : x.type = "PUBLISH"}}
AckMids  == {p.mid : p \in {x \in AskedSet : x.type \in CmdAcks}}
Coming   == {p.topic : p \in {x \in FromSet : x.type = "PUBLISH"}}
Subscribing == {p.topic : p \in {x \in Held(brokerQ) : x.type = "SUBSCRIBE"}}

Passes(na, nt) ==
  /\ AskKeeps(na) /\ TellKeeps(nt)
  /\ ToldCmds' \subseteq ToldCmds /\ AckMids' \subseteq AckMids
  /\ Coming' \subseteq Coming /\ Subscribing' \subseteq Subscribing

LEMMA NoNewData ==
  ASSUME \A x \in AskedSet' : x \in AskedSet \/ (x.type \in CmdAcks => x.mid \in AckMids),
         \A x \in ToldSet' :
           x \in ToldSet \/ (x.type = "PUBLISH" => [mid |-> x.mid, cmd |-> x.cmd] \in ToldCmds),
         \A x \in FromSet' : x \in FromSet \/ x.type # "PUBLISH",
         \A x \in Held(brokerQ') : x \in Held(brokerQ) \/ x.type # "SUBSCRIBE"
  PROVE  /\ ToldCmds' \subseteq ToldCmds /\ AckMids' \subseteq AckMids
         /\ Coming' \subseteq Coming /\ Subscribing' \subseteq Subscribing
<1>1. ToldCmds' \subseteq ToldCmds
  BY DEF ToldCmds
<1>2. AckMids' \subseteq AckMids
  BY DEF AckMids
<1>3. Coming' \subseteq Coming
  BY DEF Coming
<1>4. Subscribing' \subseteq Subscribing
  BY DEF Subscribing
<1> QED BY <1>1, <1>2, <1>3, <1>4

LEMMA HandlingPasses ==
  ASSUME TypeInv, NEW from \in {"client", "broker"}, NEW type, Handling(from, type),
         NEW c, NEW d \in Seq(DownPacket), NEW b \in Seq(ToBroker), Answer(c, d, b),
         NEW na, NEW nt, "-" \in na, "-" \in nt,
         b # <<>> => \E x \in ToBroker : /\ b = <<x>> /\ from = "client" /\ Kind(x) = Kind(Packet)
                                         /\ x.type # "SUBSCRIBE"
                                         /\ x.type \in CmdAcks => x = Packet,
         d # <<>> => \E x \in DownPacket :
            /\ d = <<x>>
            /\ \/ Kind(x) \in nt /\ x.type # "PUBLISH"
               \/ /\ from = "broker" /\ Kind(x) = Kind(Packet)
                  /\ x.type = "PUBLISH" => /\ Packet.type = "PUBLISH"
                                           /\ x.mid = Packet.mid /\ x.cmd = Packet.cmd
  PROVE  Passes(na, nt)
<1>1. /\ AskKeeps(na) /\ AskedSet' \subseteq AskedSet \cup Held(b)
      /\ Held(brokerQ') \subseteq Held(brokerQ) \cup Held(b)
      /\ from = "client" => Packet \in AskedSet
  BY HandlingAsks
<1>0. \/ d = <<>>
      \/ \E x \in DownPacket : d = <<x>> /\ (Kind(x) \in nt \/ (from = "broker" /\ Kind(x) = Kind(Packet)))
  OBVIOUS
<1>2. /\ TellKeeps(nt) /\ ToldSet' \subseteq ToldSet \cup Held(d) /\ FromSet' \subseteq FromSet
      /\ from = "broker" => Packet \in FromSet
  BY <1>0, HandlingTells
<1>3. \A x \in Held(b) : /\ x.type \in CmdAcks => x.mid \in AckMids
                         /\ x.type # "SUBSCRIBE"
  BY <1>1, HeldFew DEF AckMids
<1>4. \A x \in Held(d) : x.type = "PUBLISH" => [mid |-> x.mid, cmd |-> x.cmd] \in ToldCmds
  <2>1. SUFFICES ASSUME NEW x \in DownPacket, d = <<x>>, x.type = "PUBLISH"
                 PROVE  [mid |-> x.mid, cmd |-> x.cmd] \in ToldCmds
    BY HeldFew
  <2>2. from = "broker" /\ Packet.type = "PUBLISH" /\ x.mid = Packet.mid /\ x.cmd = Packet.cmd
    BY <2>1
  <2>3. Packet \in ToldSet
    BY <1>2, <2>2 DEF ToldSet
  <2> QED BY <2>2, <2>3 DEF ToldCmds
<1>5. /\ ToldCmds' \subseteq ToldCmds /\ AckMids' \subseteq AckMids
      /\ Coming' \subseteq Coming /\ Subscribing' \subseteq Subscribing
  BY <1>1, <1>2, <1>3, <1>4, NoNewData
<1> QED BY <1>1, <1>2, <1>5 DEF Passes

LEMMA NothingPasses ==
  ASSUME TypeInv, NEW from \in {"client", "broker"}, NEW type, Handling(from, type),
         NEW c, Answer(c, <<>>, <<>>), NEW na, NEW nt, "-" \in na, "-" \in nt
  PROVE  Passes(na, nt)
<1>1. <<>> \in Seq(DownPacket) /\ <<>> \in Seq(ToBroker)
  BY Few
<1> QED BY <1>1, HandlingPasses

LEMMA RequestPasses ==
  ASSUME TypeInv, NEW type, Handling("client", type), NEW c, NEW x \in ToBroker,
         Answer(c, <<>>, <<x>>), NEW na, NEW nt, "-" \in na, "-" \in nt,
         Kind(x) = Kind(Packet), x.type # "SUBSCRIBE", x.type \in CmdAcks => x = Packet
  PROVE  Passes(na, nt)
<1> DEFINE b == <<x>>
           d == <<>>
<1>1. d \in Seq(DownPacket) /\ b \in Seq(ToBroker) /\ d = <<>> /\ b = <<x>>
  BY Few
<1> HIDE DEF b, d
<1>2. Answer(c, d, b)
  BY <1>1
<1> QED BY <1>1, <1>2, HandlingPasses

LEMMA AnswerPasses ==
  ASSUME TypeInv, NEW from \in {"client", "broker"}, NEW type, Handling(from, type),
         NEW c, NEW x \in DownPacket,
         Answer(c, <<x>>, <<>>), NEW na, NEW nt, "-" \in na, "-" \in nt,
         \/ Kind(x) \in nt /\ x.type # "PUBLISH"
         \/ /\ from = "broker" /\ Kind(x) = Kind(Packet)
            /\ x.type = "PUBLISH" => /\ Packet.type = "PUBLISH"
                                     /\ x.mid = Packet.mid /\ x.cmd = Packet.cmd
  PROVE  Passes(na, nt)
<1> DEFINE d == <<x>>
           b == <<>>
<1>1. d \in Seq(DownPacket) /\ b \in Seq(ToBroker) /\ d = <<x>> /\ b = <<>>
  BY Few
<1> HIDE DEF b, d
<1>2. Answer(c, d, b)
  BY <1>1
<1> QED BY <1>1, <1>2, HandlingPasses

LEMMA FromClientPasses ==
  ASSUME TypeInv
  PROVE  /\ HandleConnect => Passes({"-"}, {"-"})
         /\ HandleRegister => Passes({"-"}, {"-", "REGACK"}) /\ Asking({"REGISTER"})
         /\ HandlePublish => Passes({"-"}, {"-", "PUBACK"})
         /\ \A type \in {"PUBACK", "PUBREC", "PUBCOMP"} : HandleAck(type) => Passes({"-"}, {"-"})
<1>1. ASSUME HandleConnect PROVE Passes({"-"}, {"-"})
  <2>1. Handling("client", "CONNECT") /\ Packet.type = "CONNECT" /\ Kind(Packet) = "CONNECT"
    BY <1>1, HandlingType DEF HandleConnect, Kind
  <2> DEFINE p == [type |-> "CONNECT"]
  <2>2. p \in ToBroker /\ Kind(p) = "CONNECT" /\ p.type = "CONNECT"
    BY DEF ToBroker, Connect, Kind
  <2>3. p.type # "SUBSCRIBE" /\ p.type \notin CmdAcks
    BY <2>2 DEF CmdAcks
  <2>4. Answer([NewClient EXCEPT !.lastId = client.lastId], <<>>, <<p>>)
    BY <1>1 DEF HandleConnect
  <2> HIDE DEF p
  <2> QED BY <2>1, <2>2, <2>3, <2>4, RequestPasses
<1>2. ASSUME HandleRegister PROVE Passes({"-"}, {"-", "REGACK"}) /\ Asking({"REGISTER"})
  <2>1. Handling("client", "REGISTER")
    BY <1>2 DEF HandleRegister
  <2>2. client \in ClientType /\ Packet \in Register /\ Kind(Packet) = "REGISTER"
    BY <2>1, HandlingType, UpKinds DEF Kind
  <2>3. Packet.topic \in Topic /\ Packet.mid \in Nat
    BY <2>2, Roles DEF Register
  <2> DEFINE c == AddTopic(client, Packet.topic)
             p == [type |-> "REGACK", tid |-> c.ids[Packet.topic], mid |-> Packet.mid]
  <2>4. p \in DownPacket /\ Kind(p) = "REGACK" /\ p.type = "REGACK"
    BY <2>2, <2>3, AddTopicType DEF DownPacket, IdGiven, Kind
  <2>6. Answer(c, <<p>>, <<>>) \/ Answer(client, <<>>, <<>>)
    BY <1>2 DEF HandleRegister
  <2> HIDE DEF c, p
  <2>7. ASSUME Answer(c, <<p>>, <<>>) PROVE Passes({"-"}, {"-", "REGACK"})
    BY <2>1, <2>4, <2>7, AnswerPasses
  <2>8. ASSUME Answer(client, <<>>, <<>>) PROVE Passes({"-"}, {"-", "REGACK"})
    BY <2>1, <2>8, NothingPasses
  <2>9. Packet \in AskedSet
    BY <2>1, Queues, EventsMove DEF AskedSet, Handling, Packet
  <2>10. Asking({"REGISTER"})
    BY <2>2, <2>9, Ways
  <2> QED BY <2>6, <2>7, <2>8, <2>10
<1>3. ASSUME HandlePublish PROVE Passes({"-"}, {"-", "PUBACK"})
  <2>1. Handling("client", "PUBLISH")
    BY <1>3 DEF HandlePublish
  <2>2. client \in ClientType /\ Packet \in Publication /\ Kind(Packet) = "PUBLISH"
    BY <2>1, HandlingType, UpKinds DEF Kind
  <2>3. Packet.mid \in Nat /\ Packet.tid \in Ids /\ Packet.qos \in Nat /\ Packet.msg \in Message
    BY <2>2 DEF Publication
  <2> DEFINE t == TopicOf(client, Packet.tid)
             d == [client EXCEPT !.waitedPub = Await(@, Packet.mid, Packet.tid)]
             p == [type |-> "PUBLISH", topic |-> t, qos |-> Packet.qos,
                   mid |-> Packet.mid, msg |-> Packet.msg]
             r == [type |-> "PUBACK", mid |-> Packet.mid, ok |-> FALSE]
  <2>4. t \in Topic \cup {None}
    BY DEF TopicOf
  <2>5. /\ p \in ToBroker /\ Kind(p) = "PUBLISH" /\ p.type = "PUBLISH"
        /\ r \in DownPacket /\ Kind(r) = "PUBACK" /\ r.type = "PUBACK"
    BY <2>3, <2>4 DEF ToBroker, Forwarded, DownPacket, Puback, Kind
  <2>6. p.type # "SUBSCRIBE" /\ p.type \notin CmdAcks
    BY <2>5 DEF CmdAcks
  <2>7. Answer(client, <<r>>, <<>>) \/ Answer(client, <<>>, <<p>>) \/ Answer(d, <<>>, <<p>>)
    BY <1>3 DEF HandlePublish
  <2> HIDE DEF d, p, r
  <2>8. CASE Answer(client, <<r>>, <<>>)
    BY <2>1, <2>5, <2>8, AnswerPasses
  <2>9. ASSUME NEW e, Answer(e, <<>>, <<p>>) PROVE Passes({"-"}, {"-", "PUBACK"})
    <3>1. Kind(p) = Kind(Packet) /\ p \in ToBroker
      BY <2>2, <2>5
    <3> QED BY <2>1, <2>6, <2>9, <3>1, RequestPasses
  <2> QED BY <2>7, <2>8, <2>9
<1>4. ASSUME NEW type \in {"PUBACK", "PUBREC", "PUBCOMP"}, HandleAck(type)
      PROVE  Passes({"-"}, {"-"})
  <2>1. Handling("client", type)
    BY <1>4 DEF HandleAck
  <2>2. Packet \in Ack /\ Packet \in ToBroker /\ Packet.type \in {"PUBACK", "PUBREC", "PUBCOMP"}
    BY <2>1, HandlingType, UpKinds DEF ToBroker
  <2>4. Answer(client, <<>>, <<Packet>>) \/ Answer(client, <<>>, <<>>)
    BY <1>4 DEF HandleAck
  <2>5. CASE Answer(client, <<>>, <<Packet>>)
    BY <2>1, <2>2, <2>5, RequestPasses
  <2>6. CASE Answer(client, <<>>, <<>>)
    BY <2>1, <2>6, NothingPasses
  <2> QED BY <2>4, <2>5, <2>6
<1> QED BY <1>1, <1>2, <1>3, <1>4

LEMMA SubscribePasses ==
  ASSUME TypeInv, HandleSubscribe
  PROVE  /\ AskKeeps({"-"}) /\ TellKeeps({"-"})
         /\ ToldCmds' \subseteq ToldCmds /\ AckMids' \subseteq AckMids
         /\ Coming' \subseteq Coming /\ Subscribing' \subseteq Subscribing \cup {Packet.topic}
         /\ Packet.topic \in Command
<1>1. Handling("client", "SUBSCRIBE")
  BY DEF HandleSubscribe
<1>2. client \in ClientType /\ Packet \in Subscription /\ Kind(Packet) = "SUBSCRIBE"
  BY <1>1, HandlingType, UpKinds DEF Kind
<1>3. Packet.topic \in Command /\ Packet.mid \in Nat
  BY <1>2 DEF Subscription
<1> DEFINE c == AddTopic(client, Packet.topic)
           d == [c EXCEPT !.waitedSub = Await(@, Packet.mid, c.ids[Packet.topic])]
           p == [type |-> "SUBSCRIBE", topic |-> Packet.topic, mid |-> Packet.mid]
<1>4. p \in ToBroker /\ Kind(p) = "SUBSCRIBE" /\ p.type = "SUBSCRIBE" /\ p.topic = Packet.topic
  BY <1>3 DEF ToBroker, Subscription, Kind
<1>5. <<>> \in Seq(DownPacket) /\ <<p>> \in Seq(ToBroker)
  BY <1>4, Few
<1>6. Answer(d, <<>>, <<p>>)
  BY DEF HandleSubscribe
<1> HIDE DEF c, d, p
<1>7. \E x \in ToBroker : <<p>> = <<x>> /\ Kind(x) = Kind(Packet)
  BY <1>2, <1>4
<1>8. /\ AskKeeps({"-"}) /\ AskedSet' \subseteq AskedSet \cup {p}
      /\ Held(brokerQ') \subseteq Held(brokerQ) \cup {p}
  BY <1>1, <1>5, <1>6, <1>7, HandlingAsks, HeldFew
<1>9. TellKeeps({"-"}) /\ ToldSet' \subseteq ToldSet /\ FromSet' \subseteq FromSet
  BY <1>1, <1>5, <1>6, HandlingTells, HeldFew
<1>10. ToldCmds' \subseteq ToldCmds /\ Coming' \subseteq Coming
  BY <1>9 DEF ToldCmds, Coming
<1>11. AckMids' \subseteq AckMids
  BY <1>4, <1>8 DEF AckMids, CmdAcks
<1>12. Subscribing' \subseteq Subscribing \cup {Packet.topic}
  BY <1>4, <1>8 DEF Subscribing
<1> QED BY <1>3, <1>8, <1>9, <1>10, <1>11, <1>12

LEMMA FromBrokerPasses ==
  ASSUME TypeInv,
         HandleConnack \/ HandleSuback \/ HandlePuback \/ HandlePubrel \/ HandleDisconnect
  PROVE  Passes({"-"}, {"-"})
<1>1. CASE HandleConnack
  <2>1. Handling("broker", "CONNACK")
    BY <1>1 DEF HandleConnack
  <2>2. Packet \in Connack /\ Packet.type = "CONNACK" /\ Packet \in DownPacket
    BY <2>1, HandlingType, BrokerKinds DEF DownPacket
  <2>3. PICK c : Answer(c, <<Packet>>, <<>>)
    BY <1>1 DEF HandleConnack
  <2> QED BY <2>1, <2>2, <2>3, AnswerPasses
<1>2. CASE HandleSuback
  <2>1. Handling("broker", "SUBACK")
    BY <1>2 DEF HandleSuback
  <2>2. client \in ClientType /\ Packet.mid \in Nat /\ Kind(Packet) = "SUBACK"
    BY <2>1, HandlingType, BrokerKinds DEF BrokerAck, Kind
  <2> DEFINE es == Awaited(client.waitedSub, Packet.mid)
             p == [type |-> "SUBACK", tid |-> (CHOOSE e \in es : TRUE).tid, mid |-> Packet.mid]
  <2>3. client.waitedSub \in SUBSET AwaitedId /\ es \subseteq client.waitedSub
    BY <2>2 DEF ClientType, Awaited
  <2>4. PICK d : Answer(d, IF es = {} THEN <<>> ELSE <<p>>, <<>>)
    BY <1>2 DEF HandleSuback
  <2>5. es # {} => (CHOOSE e \in es : TRUE) \in AwaitedId
    BY <2>3
  <2>6. Kind(p) = "SUBACK" /\ p.type = "SUBACK"
    BY DEF Kind
  <2> HIDE DEF es
  <2>7. es # {} => p \in DownPacket
    BY <2>2, <2>5 DEF AwaitedId, DownPacket, IdGiven
  <2> HIDE DEF p
  <2>8. CASE es = {}
    BY <2>1, <2>4, <2>8, NothingPasses
  <2>9. CASE es # {}
    BY <2>1, <2>2, <2>4, <2>6, <2>7, <2>9, AnswerPasses
  <2> QED BY <2>8, <2>9
<1>3. CASE HandlePuback
  <2>1. Handling("broker", "PUBACK")
    BY <1>3 DEF HandlePuback
  <2>2. Packet.mid \in Nat /\ Kind(Packet) = "PUBACK"
    BY <2>1, HandlingType, BrokerKinds DEF BrokerAck, Kind
  <2> DEFINE es == Awaited(client.waitedPub, Packet.mid)
             p == [type |-> "PUBACK", mid |-> Packet.mid, ok |-> TRUE]
  <2>3. p \in DownPacket /\ Kind(p) = "PUBACK" /\ p.type = "PUBACK"
    BY <2>2 DEF DownPacket, Puback, Kind
  <2>4. PICK d : Answer(d, IF es = {} THEN <<>> ELSE <<p>>, <<>>)
    BY <1>3 DEF HandlePuback
  <2> HIDE DEF es, p
  <2>5. CASE es = {}
    BY <2>1, <2>4, <2>5, NothingPasses
  <2>6. CASE es # {}
    BY <2>1, <2>2, <2>3, <2>4, <2>6, AnswerPasses
  <2> QED BY <2>5, <2>6
<1>4. CASE HandlePubrel
  <2>1. Handling("broker", "PUBREL")
    BY <1>4 DEF HandlePubrel
  <2>2. Packet \in DownPacket /\ Packet.type = "PUBREL"
    BY <2>1, HandlingType, BrokerKinds DEF BrokerAck, DownPacket, Pubrel
  <2>3. Answer(client, <<Packet>>, <<>>) \/ Answer(client, <<>>, <<>>)
    BY <1>4 DEF HandlePubrel
  <2>4. CASE Answer(client, <<Packet>>, <<>>)
    BY <2>1, <2>2, <2>4, AnswerPasses
  <2>5. CASE Answer(client, <<>>, <<>>)
    BY <2>1, <2>5, NothingPasses
  <2> QED BY <2>3, <2>4, <2>5
<1>5. CASE HandleDisconnect
  <2>1. Handling("broker", "DISCONNECT")
    BY <1>5 DEF HandleDisconnect
  <2>2. PICK d : Answer(d, <<>>, <<>>)
    BY <1>5 DEF HandleDisconnect
  <2> QED BY <2>1, <2>2, NothingPasses
<1> QED BY <1>1, <1>2, <1>3, <1>4, <1>5

LEMMA CommandPasses ==
  ASSUME TypeInv, HandleCommand
  PROVE  /\ AskKeeps({"-", "PUBACK", "PUBREC"}) /\ TellKeeps({"-"})
         /\ Telling({"PUBLISH"})
         /\ \/ Passes({"-"}, {"-"})
            \/ client.status = "Active" /\ \E t \in Coming : client.ids[t] = 0
<1>1. Handling("broker", "PUBLISH")
  BY DEF HandleCommand
<1>2. client \in ClientType /\ Packet \in CommandTaken /\ Kind(Packet) = "PUBLISH"
  BY <1>1, HandlingType, BrokerKinds DEF Kind
<1>3. /\ Packet.topic \in Topic /\ Packet.qos \in Nat /\ Packet.mid \in Nat
      /\ Packet.cmd \in Message /\ Packet.type = "PUBLISH"
  BY <1>2, Roles DEF CommandTaken
<1> DEFINE a == [type |-> IF Packet.qos = 1 THEN "PUBACK" ELSE "PUBREC", mid |-> Packet.mid]
           p == [type |-> "PUBLISH", tid |-> client.ids[Packet.topic],
                 qos |-> Packet.qos, mid |-> Packet.mid, cmd |-> Packet.cmd]
<1>4. a \in ToBroker /\ Kind(a) \in {"PUBACK", "PUBREC"}
  BY <1>3 DEF ToBroker, Ack, Kind
<1>5. client.ids[Packet.topic] \in Ids
  BY <1>2, <1>3 DEF ClientType
<1>6. /\ p \in DownPacket /\ Kind(p) = "PUBLISH" /\ p.mid = Packet.mid /\ p.cmd = Packet.cmd
  BY <1>3, <1>5 DEF DownPacket, CommandSent, Kind
<1>7. <<a>> \in Seq(ToBroker) /\ <<>> \in Seq(DownPacket) /\ <<>> \in Seq(ToBroker)
  BY <1>4, Few
<1>8. \/ Answer(client, <<>>, <<>>)
      \/ client.status = "Active" /\ client.ids[Packet.topic] = 0 /\ Answer(client, <<>>, <<a>>)
      \/ Answer(client, <<p>>, <<>>)
  BY DEF HandleCommand
<1> HIDE DEF a, p
<1>9. Packet \in FromSet
  BY <1>1, Queues, EventsMove DEF FromSet, Handling, Packet
<1>10. Telling({"PUBLISH"})
  BY <1>2, <1>9, Ways DEF ToldSet
<1>11. Packet.topic \in Coming
  BY <1>3, <1>9 DEF Coming
<1>12. ASSUME Answer(client, <<>>, <<>>) PROVE Passes({"-"}, {"-"})
  BY <1>1, <1>12, NothingPasses
<1>13. ASSUME Answer(client, <<p>>, <<>>) PROVE Passes({"-"}, {"-"})
  BY <1>1, <1>2, <1>3, <1>6, <1>13, AnswerPasses
<1>14. ASSUME Answer(client, <<>>, <<a>>)
       PROVE  AskKeeps({"-", "PUBACK", "PUBREC"}) /\ TellKeeps({"-"})
  <2>1. \E x \in ToBroker : <<a>> = <<x>> /\ Kind(x) \in {"-", "PUBACK", "PUBREC"}
    BY <1>4
  <2>2. AskKeeps({"-", "PUBACK", "PUBREC"})
    BY <1>1, <1>7, <1>14, <2>1, HandlingAsks
  <2>3. TellKeeps({"-"})
    BY <1>1, <1>7, <1>14, HandlingTells
  <2> QED BY <2>2, <2>3
<1>15. Passes({"-"}, {"-"}) => AskKeeps({"-", "PUBACK", "PUBREC"}) /\ TellKeeps({"-"})
  <2>1. {"-"} \subseteq {"-", "PUBACK", "PUBREC"}
    OBVIOUS
  <2>2. AskKeeps({"-"}) => AskKeeps({"-", "PUBACK", "PUBREC"})
    BY <2>1, KeepsMore DEF AskKeeps
  <2> QED BY <2>2 DEF Passes
<1> QED BY <1>8, <1>10, <1>11, <1>12, <1>13, <1>14, <1>15

LEMMA ClientRecvPasses ==
  ASSUME TypeInv, ClientRecvTask
  PROVE  Passes({"-"}, {"-", "DISCONNECT"})
<1>0. /\ up # <<>> /\ up' = Tail(up) /\ Head(up) \in UpPacket /\ Head(up) \in AnyPacket
      /\ UNCHANGED <<brokerQ, fromBroker>>
  BY Queues DEF ClientRecvTask, AnyPacket, brokerVars
<1>1. /\ AskedUp # <<>> /\ AskedUp' = Tail(AskedUp) /\ Head(AskedUp) = Kind(Head(up))
      /\ AskedOut' = AskedOut /\ ToldOut' = ToldOut
      /\ Held(up') \subseteq Held(up) /\ Head(up) \in Held(up)
  BY <1>0, Queues, KindsMove, HeldMoves DEF AskedUp, AskedOut, ToldOut
<1>2. CASE UNCHANGED <<client, packetQ, down>>
  <2>1. AskedIn' = AskedIn /\ ToldIn' = ToldIn /\ ToldDown' = ToldDown
    BY <1>2 DEF AskedIn, ToldIn, ToldDown
  <2>2. AskKeeps({"-"}) /\ TellKeeps({"-", "DISCONNECT"})
    BY <1>1, <2>1, Ways, KeepsAway, KeepsNothing DEF AskKeeps, TellKeeps
  <2>3. /\ AskedSet' \subseteq AskedSet /\ ToldSet' \subseteq ToldSet
        /\ FromSet' \subseteq FromSet /\ Held(brokerQ') \subseteq Held(brokerQ)
    BY <1>0, <1>1, <1>2 DEF AskedSet, ToldSet, FromSet
  <2>4. /\ ToldCmds' \subseteq ToldCmds /\ AckMids' \subseteq AckMids
        /\ Coming' \subseteq Coming /\ Subscribing' \subseteq Subscribing
    BY <2>3, NoNewData
  <2> QED BY <2>2, <2>4 DEF Passes
<1>3. CASE down' = Append(down, [type |-> "DISCONNECT"]) /\ UNCHANGED <<client, packetQ>>
  <2> DEFINE p == [type |-> "DISCONNECT"]
  <2>1. p \in AnyPacket /\ Kind(p) = "DISCONNECT" /\ p.type = "DISCONNECT" /\ "DISCONNECT" \in KindSet
    BY DEF AnyPacket, DownPacket, Disconnect, Kind, KindSet
  <2>2. down' = Append(down, p)
    BY <1>3
  <2> HIDE DEF p
  <2>3. AskedIn' = AskedIn /\ ToldIn' = ToldIn /\ ToldDown' = Append(ToldDown, "DISCONNECT")
    <3>1. Kinds(Append(down, p)) = Append(Kinds(down), Kind(p))
      BY <2>1, Queues, KindsMove
    <3> QED BY <1>3, <2>1, <2>2, <3>1 DEF AskedIn, ToldIn, ToldDown
  <2>4. AskKeeps({"-"})
    BY <1>1, <2>3, Ways, KeepsAway DEF AskKeeps
  <2>5. TellKeeps({"-", "DISCONNECT"})
    BY <1>1, <2>1, <2>3, Ways, KeepsNew DEF TellKeeps
  <2>6. Held(down') \subseteq Held(down) \cup {p}
    BY <2>2, Queues, HeldMoves
  <2>7. /\ AskedSet' \subseteq AskedSet /\ ToldSet' \subseteq ToldSet \cup {p}
        /\ FromSet' \subseteq FromSet /\ Held(brokerQ') \subseteq Held(brokerQ)
    BY <1>0, <1>1, <1>3, <2>6 DEF AskedSet, ToldSet, FromSet
  <2>8. /\ ToldCmds' \subseteq ToldCmds /\ AckMids' \subseteq AckMids
        /\ Coming' \subseteq Coming /\ Subscribing' \subseteq Subscribing
    BY <2>1, <2>7, NoNewData
  <2> QED BY <2>4, <2>5, <2>8 DEF Passes
<1>4. CASE packetQ' = Append(packetQ, [from |-> "client", packet |-> Head(up)]) /\ UNCHANGED down
  <2> DEFINE e == [from |-> "client", packet |-> Head(up)]
  <2>1. e \in GatewayEvent /\ e.from = "client" /\ e.packet = Head(up)
    BY <1>0 DEF GatewayEvent
  <2>2. packetQ' = Append(packetQ, e)
    BY <1>4
  <2> HIDE DEF e
  <2>3. /\ AskedIn' = Append(AskedIn, Head(AskedUp)) /\ ToldIn' = Append(ToldIn, "-")
        /\ ToldDown' = ToldDown
    <3>1. /\ KindsFrom("client", Append(packetQ, e)) = Append(KindsFrom("client", packetQ), Kind(Head(up)))
          /\ KindsFrom("broker", Append(packetQ, e)) = Append(KindsFrom("broker", packetQ), "-")
      <4>1. packetQ \in Seq(GatewayEvent)
        BY Queues
      <4>2. \A who : KindsFrom(who, Append(packetQ, e)) =
                       Append(KindsFrom(who, packetQ), IF e.from = who THEN Kind(e.packet) ELSE "-")
        BY <2>1, <4>1, EventKindsMove
      <4> QED BY <2>1, <4>2
    <3> QED BY <1>1, <1>4, <2>2, <3>1 DEF AskedIn, ToldIn, ToldDown
  <2>4. Head(AskedUp) \in KindSet /\ "-" \in KindSet
    BY <1>0, <1>1, KindType DEF KindSet
  <2>5. AskKeeps({"-"})
    BY <1>1, <2>3, <2>4, Ways, KeepsOn DEF AskKeeps
  <2>6. TellKeeps({"-", "DISCONNECT"})
    BY <1>1, <2>3, <2>4, Ways, KeepsNew DEF TellKeeps
  <2>7. /\ EventsOf("client", packetQ') \subseteq EventsOf("client", packetQ) \cup {Head(up)}
        /\ EventsOf("broker", packetQ') \subseteq EventsOf("broker", packetQ)
    BY <2>1, <2>2, Queues, EventsMove
  <2>8. /\ AskedSet' \subseteq AskedSet /\ ToldSet' \subseteq ToldSet
        /\ FromSet' \subseteq FromSet /\ Held(brokerQ') \subseteq Held(brokerQ)
    BY <1>0, <1>1, <1>4, <2>7 DEF AskedSet, ToldSet, FromSet
  <2>9. /\ ToldCmds' \subseteq ToldCmds /\ AckMids' \subseteq AckMids
        /\ Coming' \subseteq Coming /\ Subscribing' \subseteq Subscribing
    BY <2>8, NoNewData
  <2> QED BY <2>5, <2>6, <2>9 DEF Passes
<1> QED BY <1>2, <1>3, <1>4 DEF ClientRecvTask

LEMMA QueueKinds ==
  ASSUME TypeInv
  PROVE  /\ brokerQ # <<>> => /\ AskedOut # <<>> /\ Head(AskedOut) = Kind(Head(brokerQ))
                              /\ Kinds(Tail(brokerQ)) = Tail(AskedOut)
                              /\ Held(Tail(brokerQ)) \subseteq Held(brokerQ)
                              /\ Head(brokerQ) \in AskedSet /\ Head(brokerQ) \in ToBroker
                              /\ Head(brokerQ) \in Held(brokerQ)
         /\ fromBroker # <<>> => /\ ToldOut # <<>> /\ Head(ToldOut) = Kind(Head(fromBroker))
                                 /\ Kinds(Tail(fromBroker)) = Tail(ToldOut)
                                 /\ Held(Tail(fromBroker)) \subseteq Held(fromBroker)
                                 /\ Head(fromBroker) \in Held(fromBroker)
                                 /\ Head(fromBroker) \in FromBroker
         /\ \A x \in AnyPacket : /\ Kinds(Append(fromBroker, x)) = Append(ToldOut, Kind(x))
                                 /\ Held(Append(fromBroker, x)) \subseteq Held(fromBroker) \cup {x}
                                 /\ Kind(x) \in KindSet
         /\ \A e \in GatewayEvent :
              /\ KindsFrom("client", Append(packetQ, e)) =
                   Append(AskedIn, IF e.from = "client" THEN Kind(e.packet) ELSE "-")
              /\ KindsFrom("broker", Append(packetQ, e)) =
                   Append(ToldIn, IF e.from = "broker" THEN Kind(e.packet) ELSE "-")
              /\ EventsOf("client", Append(packetQ, e)) \subseteq
                   EventsOf("client", packetQ) \cup (IF e.from = "client" THEN {e.packet} ELSE {})
              /\ EventsOf("broker", Append(packetQ, e)) \subseteq
                   EventsOf("broker", packetQ) \cup (IF e.from = "broker" THEN {e.packet} ELSE {})
         /\ Kinds(<<>>) = <<>> /\ KindsFrom("client", <<>>) = <<>> /\ KindsFrom("broker", <<>>) = <<>>
<1>1. ASSUME brokerQ # <<>>
      PROVE  /\ AskedOut # <<>> /\ Head(AskedOut) = Kind(Head(brokerQ))
             /\ Kinds(Tail(brokerQ)) = Tail(AskedOut)
             /\ Held(Tail(brokerQ)) \subseteq Held(brokerQ)
             /\ Head(brokerQ) \in AskedSet /\ Head(brokerQ) \in ToBroker /\ Head(brokerQ) \in Held(brokerQ)
  <2>1. brokerQ \in Seq(ToBroker) /\ brokerQ \in Seq(AnyPacket)
    BY Queues
  <2>2. AskedOut # <<>> /\ Head(AskedOut) = Kind(Head(brokerQ)) /\ Kinds(Tail(brokerQ)) = Tail(AskedOut)
    BY <1>1, <2>1, KindsMove DEF AskedOut
  <2>3. Held(Tail(brokerQ)) \subseteq Held(brokerQ) /\ Head(brokerQ) \in Held(brokerQ)
    BY <1>1, <2>1, HeldMoves
  <2>4. Head(brokerQ) \in ToBroker
    BY <1>1, <2>1
  <2> QED BY <2>2, <2>3, <2>4 DEF AskedSet
<1>2. ASSUME fromBroker # <<>>
      PROVE  /\ ToldOut # <<>> /\ Head(ToldOut) = Kind(Head(fromBroker))
             /\ Kinds(Tail(fromBroker)) = Tail(ToldOut)
             /\ Held(Tail(fromBroker)) \subseteq Held(fromBroker)
             /\ Head(fromBroker) \in Held(fromBroker) /\ Head(fromBroker) \in FromBroker
  <2>1. fromBroker \in Seq(FromBroker) /\ fromBroker \in Seq(AnyPacket)
    BY Queues
  <2>2. ToldOut # <<>> /\ Head(ToldOut) = Kind(Head(fromBroker)) /\ Kinds(Tail(fromBroker)) = Tail(ToldOut)
    BY <1>2, <2>1, KindsMove DEF ToldOut
  <2>3. Held(Tail(fromBroker)) \subseteq Held(fromBroker) /\ Head(fromBroker) \in Held(fromBroker)
    BY <1>2, <2>1, HeldMoves
  <2>4. Head(fromBroker) \in FromBroker
    BY <1>2, <2>1
  <2> QED BY <2>2, <2>3, <2>4
<1>3. ASSUME NEW x \in AnyPacket
      PROVE  /\ Kinds(Append(fromBroker, x)) = Append(ToldOut, Kind(x))
             /\ Held(Append(fromBroker, x)) \subseteq Held(fromBroker) \cup {x}
             /\ Kind(x) \in KindSet
  <2>1. fromBroker \in Seq(AnyPacket)
    BY Queues
  <2>2. Kinds(Append(fromBroker, x)) = Append(ToldOut, Kind(x))
    BY <2>1, KindsMove DEF ToldOut
  <2>3. Held(Append(fromBroker, x)) \subseteq Held(fromBroker) \cup {x}
    BY <2>1, HeldMoves
  <2> QED BY <2>2, <2>3, KindType
<1>4. ASSUME NEW e \in GatewayEvent
      PROVE  /\ KindsFrom("client", Append(packetQ, e)) =
                   Append(AskedIn, IF e.from = "client" THEN Kind(e.packet) ELSE "-")
             /\ KindsFrom("broker", Append(packetQ, e)) =
                   Append(ToldIn, IF e.from = "broker" THEN Kind(e.packet) ELSE "-")
             /\ EventsOf("client", Append(packetQ, e)) \subseteq
                   EventsOf("client", packetQ) \cup (IF e.from = "client" THEN {e.packet} ELSE {})
             /\ EventsOf("broker", Append(packetQ, e)) \subseteq
                   EventsOf("broker", packetQ) \cup (IF e.from = "broker" THEN {e.packet} ELSE {})
  <2>1. packetQ \in Seq(GatewayEvent)
    BY Queues
  <2>2. \A who : KindsFrom(who, Append(packetQ, e)) =
                   Append(KindsFrom(who, packetQ), IF e.from = who THEN Kind(e.packet) ELSE "-")
    BY <2>1, EventKindsMove
  <2>3. \A who : EventsOf(who, Append(packetQ, e)) \subseteq
                   EventsOf(who, packetQ) \cup (IF e.from = who THEN {e.packet} ELSE {})
    BY <2>1, EventsMove
  <2> QED BY <2>2, <2>3 DEF AskedIn, ToldIn
<1>5. Kinds(<<>>) = <<>>
  BY DEF Kinds, Through
<1>6. \A who : KindsFrom(who, <<>>) = <<>>
  BY DEF KindsFrom, Through
<1> QED BY <1>1, <1>2, <1>3, <1>4, <1>5, <1>6

(* The queue to the broker gets shorter.                                   *)
LEMMA AskedIsSent ==
  ASSUME TypeInv, brokerQ # <<>>, brokerQ' = Tail(brokerQ), UNCHANGED <<up, packetQ>>
  PROVE  /\ AskKeeps({"-"}) /\ AckMids' \subseteq AckMids /\ Subscribing' \subseteq Subscribing
         /\ AskedOut' = Tail(AskedOut) /\ AskedIn' = AskedIn /\ AskedUp' = AskedUp
<1>1. AskedOut' = Tail(AskedOut) /\ AskedIn' = AskedIn /\ AskedUp' = AskedUp
  BY QueueKinds DEF AskedOut, AskedIn, AskedUp
<1>2. AskKeeps({"-"})
  BY <1>1, QueueKinds, Ways, KeepsAway DEF AskKeeps
<1>3. Held(brokerQ') \subseteq Held(brokerQ) /\ AskedSet' \subseteq AskedSet
  BY QueueKinds DEF AskedSet
<1> QED BY <1>1, <1>2, <1>3 DEF AckMids, Subscribing

(* The broker's queue is emptied or gets something that is no command.     *)
LEMMA BrokerTells ==
  ASSUME TypeInv, UNCHANGED <<down, packetQ>>, NEW new,
         \/ fromBroker' = fromBroker
         \/ fromBroker' = <<>>
         \/ \E x \in FromBroker :
              fromBroker' = Append(fromBroker, x) /\ Kind(x) \in new /\ x.type # "PUBLISH"
  PROVE  TellKeeps(new) /\ ToldCmds' \subseteq ToldCmds /\ Coming' \subseteq Coming
<1>1. ToldDown' = ToldDown /\ ToldIn' = ToldIn
  BY DEF ToldDown, ToldIn
<1>2. CASE fromBroker' = fromBroker
  <2>1. ToldOut' = ToldOut
    BY <1>2 DEF ToldOut
  <2>2. ToldSet' = ToldSet /\ FromSet' = FromSet
    BY <1>2 DEF ToldSet, FromSet
  <2> QED BY <1>1, <2>1, <2>2, KeepsNothing DEF TellKeeps, ToldCmds, Coming
<1>3. CASE fromBroker' = <<>>
  <2>1. ToldOut' = <<>>
    BY <1>3, QueueKinds DEF ToldOut
  <2>2. TellKeeps(new)
    BY <1>1, <2>1, Ways, KeepsAway DEF TellKeeps
  <2>3. ToldSet' \subseteq ToldSet /\ FromSet' \subseteq FromSet
    BY <1>3, HeldFew DEF ToldSet, FromSet
  <2> QED BY <2>2, <2>3 DEF ToldCmds, Coming
<1>4. ASSUME NEW x \in FromBroker,
             fromBroker' = Append(fromBroker, x), Kind(x) \in new, x.type # "PUBLISH"
      PROVE  TellKeeps(new) /\ ToldCmds' \subseteq ToldCmds /\ Coming' \subseteq Coming
  <2>1. x \in AnyPacket
    BY DEF AnyPacket
  <2>2. /\ ToldOut' = Append(ToldOut, Kind(x)) /\ Kind(x) \in KindSet
        /\ Held(fromBroker') \subseteq Held(fromBroker) \cup {x}
    BY <1>4, <2>1, QueueKinds DEF ToldOut
  <2>3. TellKeeps(new)
    BY <1>1, <1>4, <2>2, Ways, KeepsNew DEF TellKeeps
  <2>4. ToldSet' \subseteq ToldSet \cup {x} /\ FromSet' \subseteq FromSet \cup {x}
    BY <2>2 DEF ToldSet, FromSet
  <2> QED BY <1>4, <2>3, <2>4 DEF ToldCmds, Coming
<1> QED BY <1>2, <1>3, <1>4

LEMMA SendPacketPasses ==
  ASSUME TypeInv, brokerQ # <<>>, SendPacket, brokerQ' = Tail(brokerQ), UNCHANGED <<up, down>>,
         NEW nt, {"-", "EOF", "PUBACK", "PUBREL", "DISCONNECT"} \subseteq nt,
         "SUBACK" \in nt \/ Head(brokerQ).type # "SUBSCRIBE"
  PROVE  Passes({"-"}, nt)
<1>0. /\ Head(brokerQ) \in ToBroker /\ AskedOut # <<>>
      /\ fromBroker \in Seq(FromBroker)
  BY QueueKinds, Queues
<1>1. CASE UNCHANGED packetQ /\ (fromBroker' = Append(fromBroker, EOF) \/ fromBroker' = fromBroker)
  <2>1. AskKeeps({"-"}) /\ AckMids' \subseteq AckMids /\ Subscribing' \subseteq Subscribing
    BY <1>1, AskedIsSent
  <2>2. EOF \in FromBroker /\ Kind(EOF) \in nt /\ EOF.type # "PUBLISH"
    BY DEF EOF, FromBroker, Kind
  <2> DEFINE x == EOF
  <2>3. x \in FromBroker /\ Kind(x) \in nt /\ x.type # "PUBLISH"
        /\ (fromBroker' = fromBroker \/ fromBroker' = Append(fromBroker, x))
    BY <1>1, <2>2
  <2> HIDE DEF x
  <2>4. TellKeeps(nt) /\ ToldCmds' \subseteq ToldCmds /\ Coming' \subseteq Coming
    BY <1>1, <2>3, BrokerTells
  <2> QED BY <2>1, <2>4 DEF Passes
<1>2. CASE UNCHANGED packetQ /\ TakePacket(Head(brokerQ))
  <2>1. AskKeeps({"-"}) /\ AckMids' \subseteq AckMids /\ Subscribing' \subseteq Subscribing
    BY <1>2, AskedIsSent
  <2>2. fromBroker' = fromBroker \o Reply(Head(brokerQ))
    BY <1>2 DEF TakePacket
  <2>3. \/ Reply(Head(brokerQ)) = <<>>
        \/ \E x \in FromBroker : /\ Reply(Head(brokerQ)) = <<x>>
                                 /\ Kind(x) \in nt /\ x.type # "PUBLISH"
    <3> DEFINE p == Head(brokerQ)
    <3> HIDE DEF p
    <3>1. p \in ToBroker /\ ("SUBACK" \in nt \/ p.type # "SUBSCRIBE")
      BY <1>0 DEF p
    <3>2. CASE p.type = "SUBSCRIBE"
      <4> DEFINE x == [type |-> "SUBACK", mid |-> p.mid]
      <4>1. p \in Subscription /\ Reply(p) = <<x>>
        BY <3>1, <3>2, ToBrokerKinds DEF Reply
      <4>2. x \in FromBroker /\ Kind(x) \in nt /\ x.type # "PUBLISH"
        BY <3>1, <3>2, <4>1 DEF Subscription, FromBroker, BrokerPacket, BrokerAck, Kind
      <4> HIDE DEF x
      <4> QED BY <4>1, <4>2 DEF p
    <3>3. CASE p.type = "PUBLISH"
      <4> DEFINE x == [type |-> "PUBACK", mid |-> p.mid]
      <4>1. p \in Forwarded /\ (Reply(p) = <<x>> \/ Reply(p) = <<>>)
        BY <3>1, <3>3, ToBrokerKinds DEF Reply
      <4>2. x \in FromBroker /\ Kind(x) \in nt /\ x.type # "PUBLISH"
        BY <3>1, <4>1 DEF Forwarded, FromBroker, BrokerPacket, BrokerAck, Kind
      <4> HIDE DEF x
      <4> QED BY <4>1, <4>2 DEF p
    <3>4. CASE p.type = "PUBREC"
      <4> DEFINE x == [type |-> "PUBREL", mid |-> p.mid]
      <4>1. p \in Ack /\ Reply(p) = <<x>>
        BY <3>1, <3>4, ToBrokerKinds DEF Reply
      <4>2. x \in FromBroker /\ Kind(x) \in nt /\ x.type # "PUBLISH"
        BY <3>1, <4>1 DEF Ack, FromBroker, BrokerPacket, BrokerAck, Kind
      <4> HIDE DEF x
      <4> QED BY <4>1, <4>2 DEF p
    <3>5. CASE p.type \notin {"SUBSCRIBE", "PUBLISH", "PUBREC"}
      BY <3>5 DEF Reply, p
    <3> QED BY <3>2, <3>3, <3>4, <3>5
  <2>4. \/ fromBroker' = fromBroker
        \/ \E x \in FromBroker :
             fromBroker' = Append(fromBroker, x) /\ Kind(x) \in nt /\ x.type # "PUBLISH"
    BY <1>0, <2>2, <2>3, ConcatEmptySeq, AppendIsConcat
  <2>5. TellKeeps(nt) /\ ToldCmds' \subseteq ToldCmds /\ Coming' \subseteq Coming
    BY <1>2, <2>4, BrokerTells
  <2> QED BY <2>1, <2>5 DEF Passes
<1>3. CASE /\ fromBroker' = <<>>
           /\ packetQ' = Append(packetQ, [from |-> "broker", packet |-> [type |-> "DISCONNECT"]])
  <2> DEFINE p == [type |-> "DISCONNECT"]
             e == [from |-> "broker", packet |-> p]
  <2>1. /\ p \in Disconnect /\ Kind(p) = "DISCONNECT" /\ p.type = "DISCONNECT"
        /\ e \in GatewayEvent /\ e.from = "broker" /\ e.packet = p
    BY DEF Disconnect, Kind, GatewayEvent
  <2>2. packetQ' = Append(packetQ, e) /\ "-" \in KindSet /\ "DISCONNECT" \in KindSet
    BY <1>3 DEF KindSet
  <2> HIDE DEF e, p
  <2>3. /\ AskedOut' = Tail(AskedOut) /\ AskedIn' = Append(AskedIn, "-") /\ AskedUp' = AskedUp
        /\ ToldDown' = ToldDown /\ ToldIn' = Append(ToldIn, "DISCONNECT") /\ ToldOut' = <<>>
    <3>1. /\ KindsFrom("client", Append(packetQ, e)) = Append(AskedIn, "-")
          /\ KindsFrom("broker", Append(packetQ, e)) = Append(ToldIn, "DISCONNECT")
      BY <2>1, QueueKinds
    <3>2. Kinds(Tail(brokerQ)) = Tail(AskedOut) /\ Kinds(<<>>) = <<>>
      BY QueueKinds
    <3> QED BY <1>3, <2>2, <3>1, <3>2 DEF AskedOut, AskedIn, AskedUp, ToldDown, ToldIn, ToldOut
  <2>4. AskKeeps({"-"})
    <3>1. Tail(AskedOut) \in Seq(KindSet)
      BY <1>0, Ways, TailKinds
    <3>2. Keeps(AskedOut, AskedIn, AskedUp, Tail(AskedOut), AskedIn, AskedUp, {"-"})
      BY <1>0, Ways, KeepsAway
    <3>3. Keeps(Tail(AskedOut), AskedIn, AskedUp, Tail(AskedOut), Append(AskedIn, "-"), AskedUp, {"-"})
      BY <2>2, <3>1, Ways, KeepsNew
    <3> QED BY <2>3, <3>2, <3>3, KeepsTwice DEF AskKeeps
  <2>5. TellKeeps(nt)
    <3>1. Append(ToldIn, "DISCONNECT") \in Seq(KindSet)
      BY <2>2, Ways, AddedKind
    <3>2. Keeps(ToldDown, ToldIn, ToldOut, ToldDown, Append(ToldIn, "DISCONNECT"), ToldOut, nt)
      BY <2>2, Ways, KeepsNew
    <3>3. Keeps(ToldDown, Append(ToldIn, "DISCONNECT"), ToldOut,
                ToldDown, Append(ToldIn, "DISCONNECT"), <<>>, nt)
      BY <3>1, Ways, KeepsAway
    <3> QED BY <2>3, <3>2, <3>3, KeepsTwice DEF TellKeeps
  <2>6. /\ EventsOf("client", packetQ') \subseteq EventsOf("client", packetQ)
        /\ EventsOf("broker", packetQ') \subseteq EventsOf("broker", packetQ) \cup {p}
    BY <2>1, <2>2, QueueKinds
  <2>7. /\ Held(brokerQ') \subseteq Held(brokerQ) /\ Held(fromBroker') = {}
    BY <1>3, QueueKinds, HeldFew
  <2>8. /\ AskedSet' \subseteq AskedSet /\ ToldSet' \subseteq ToldSet \cup {p}
        /\ FromSet' \subseteq FromSet \cup {p} /\ Held(brokerQ') \subseteq Held(brokerQ)
    BY <2>6, <2>7 DEF AskedSet, ToldSet, FromSet
  <2>9. /\ ToldCmds' \subseteq ToldCmds /\ AckMids' \subseteq AckMids
        /\ Coming' \subseteq Coming /\ Subscribing' \subseteq Subscribing
    BY <2>1, <2>8, NoNewData
  <2> QED BY <2>4, <2>5, <2>9 DEF Passes
<1> QED BY <1>1, <1>2, <1>3 DEF SendPacket, CloseByBroker, brokerVars

LEMMA ReadPacketPasses ==
  ASSUME TypeInv, ReadPacket
  PROVE  Passes({"-"}, {"-"})
<1> DEFINE p == Head(fromBroker)
           e == [from |-> "broker", packet |-> p]
<1>1. /\ fromBroker # <<>> /\ p \in FromBroker /\ p # EOF /\ p \in Held(fromBroker)
      /\ ToldOut # <<>> /\ Head(ToldOut) = Kind(p) /\ p \in AnyPacket
  BY QueueKinds DEF ReadPacket, AnyPacket
<1>2. e \in GatewayEvent /\ e.from = "broker" /\ e.packet = p
  <2>1. p \in BrokerPacket
    BY <1>1 DEF FromBroker, EOF
  <2> QED BY <2>1 DEF GatewayEvent
<1>3. /\ packetQ' = Append(packetQ, e) /\ fromBroker' = Tail(fromBroker) /\ Kind(p) \in KindSet
      /\ UNCHANGED <<up, down, brokerQ>> /\ "-" \in KindSet
  BY <1>1, KindType DEF ReadPacket, netVars, KindSet
<1> HIDE DEF e, p
<1>4. /\ AskedOut' = AskedOut /\ AskedIn' = Append(AskedIn, "-") /\ AskedUp' = AskedUp
      /\ ToldDown' = ToldDown /\ ToldIn' = Append(ToldIn, Kind(p)) /\ ToldOut' = Tail(ToldOut)
  <2>1. /\ KindsFrom("client", Append(packetQ, e)) = Append(AskedIn, "-")
        /\ KindsFrom("broker", Append(packetQ, e)) = Append(ToldIn, Kind(p))
    BY <1>2, QueueKinds
  <2>2. Kinds(Tail(fromBroker)) = Tail(ToldOut)
    BY <1>1, QueueKinds
  <2> QED BY <1>3, <2>1, <2>2 DEF AskedOut, AskedIn, AskedUp, ToldDown, ToldIn, ToldOut
<1>5. AskKeeps({"-"})
  BY <1>3, <1>4, Ways, KeepsNew DEF AskKeeps
<1>6. TellKeeps({"-"})
  BY <1>1, <1>3, <1>4, Ways, KeepsOn DEF TellKeeps
<1>7. /\ EventsOf("client", packetQ') \subseteq EventsOf("client", packetQ)
      /\ EventsOf("broker", packetQ') \subseteq EventsOf("broker", packetQ) \cup {p}
      /\ Held(fromBroker') \subseteq Held(fromBroker)
  BY <1>1, <1>2, <1>3, QueueKinds
<1>8. /\ AskedSet' \subseteq AskedSet /\ ToldSet' \subseteq ToldSet
      /\ FromSet' \subseteq FromSet /\ Held(brokerQ') \subseteq Held(brokerQ)
  BY <1>1, <1>3, <1>7 DEF AskedSet, ToldSet, FromSet
<1>9. /\ ToldCmds' \subseteq ToldCmds /\ AckMids' \subseteq AckMids
      /\ Coming' \subseteq Coming /\ Subscribing' \subseteq Subscribing
  BY <1>8, NoNewData
<1> QED BY <1>5, <1>6, <1>9 DEF Passes

(* Steps that leave the requests alone, or take what is in the queues.     *)
LEMMA AskedIsKept ==
  ASSUME UNCHANGED <<up, packetQ, brokerQ>>, NEW new
  PROVE  /\ AskKeeps(new) /\ AckMids' = AckMids /\ Subscribing' = Subscribing
         /\ AskedOut' = AskedOut /\ AskedIn' = AskedIn /\ AskedUp' = AskedUp
<1>1. AskedOut' = AskedOut /\ AskedIn' = AskedIn /\ AskedUp' = AskedUp /\ AskedSet' = AskedSet
  BY DEF AskedOut, AskedIn, AskedUp, AskedSet
<1> QED BY <1>1, KeepsNothing DEF AskKeeps, AckMids, Subscribing

LEMMA RestartPasses ==
  ASSUME TypeInv, GatewayRestart
  PROVE  Passes({"-"}, {"-"})
<1>1. packetQ' = <<>> /\ brokerQ' = <<>> /\ fromBroker' = <<>> /\ UNCHANGED <<up, down>>
  BY DEF GatewayRestart
<1>2. /\ AskedOut' = <<>> /\ AskedIn' = <<>> /\ AskedUp' = AskedUp
      /\ ToldDown' = ToldDown /\ ToldIn' = <<>> /\ ToldOut' = <<>>
  BY <1>1, QueueKinds DEF AskedOut, AskedIn, AskedUp, ToldDown, ToldIn, ToldOut
<1>3. <<>> \in Seq(KindSet)
  OBVIOUS
<1>4. AskKeeps({"-"})
  <2>1. Keeps(AskedOut, AskedIn, AskedUp, <<>>, AskedIn, AskedUp, {"-"})
    BY Ways, KeepsAway
  <2>2. Keeps(<<>>, AskedIn, AskedUp, <<>>, <<>>, AskedUp, {"-"})
    BY <1>3, Ways, KeepsAway
  <2> QED BY <1>2, <2>1, <2>2, KeepsTwice DEF AskKeeps
<1>5. TellKeeps({"-"})
  <2>1. Keeps(ToldDown, ToldIn, ToldOut, ToldDown, <<>>, ToldOut, {"-"})
    BY Ways, KeepsAway
  <2>2. Keeps(ToldDown, <<>>, ToldOut, ToldDown, <<>>, <<>>, {"-"})
    BY <1>3, Ways, KeepsAway
  <2> QED BY <1>2, <2>1, <2>2, KeepsTwice DEF TellKeeps
<1>6. \A who : EventsOf(who, <<>>) = {}
  BY HeldFew DEF EventsOf
<1>7. /\ AskedSet' \subseteq AskedSet /\ ToldSet' \subseteq ToldSet
      /\ FromSet' \subseteq FromSet /\ Held(brokerQ') \subseteq Held(brokerQ)
  BY <1>1, <1>6, HeldFew DEF AskedSet, ToldSet, FromSet
<1>8. /\ ToldCmds' \subseteq ToldCmds /\ AckMids' \subseteq AckMids
      /\ Coming' \subseteq Coming /\ Subscribing' \subseteq Subscribing
  BY <1>7, NoNewData
<1> QED BY <1>4, <1>5, <1>8 DEF Passes

(***************************************************************************)
(* Behind the first of its kind, and where there is none.                  *)
(***************************************************************************)
LEMMA BehindTheFirst ==
  ASSUME NEW T, NEW f \in Seq(T), NEW m \in Seq(T), NEW b \in Seq(T), NEW A, NEW B,
         NoneBehind(f, m, b, A, B)
  PROVE  /\ f # <<>> /\ Head(f) \in A => ~Anywhere(Tail(f), m, b, B)
         /\ m # <<>> /\ Head(m) \in A => ~Has(Tail(m), B) /\ ~Has(b, B)
BY TailKinds DEF NoneBehind, Anywhere

LEMMA NoneWithout ==
  \A f, m, b, A, B :
    ~Anywhere(f, m, b, A) \/ ~Anywhere(f, m, b, B) => NoneBehind(f, m, b, A, B)
BY DEF Anywhere, NoneBehind, NoneAfter, Has

(***************************************************************************)
(* What each step of the client does to the two ways.                      *)
(***************************************************************************)
LEMMA Sending ==
  ASSUME TypeInv, NEW l \in Seq(UpPacket), up' = up \o l, UNCHANGED <<packetQ, brokerQ>>
  PROVE  /\ AskedOut' = AskedOut /\ AskedIn' = AskedIn /\ AskedUp' = AskedUp \o Kinds(l)
         /\ Kinds(l) \in Seq(KindSet)
         /\ AskedSet' \subseteq AskedSet \cup Held(l) /\ Subscribing' = Subscribing
         /\ \A A : Has(AskedUp', A) <=> Has(AskedUp, A) \/ Has(Kinds(l), A)
<1>1. up \in Seq(AnyPacket) /\ l \in Seq(AnyPacket)
  <2>1. \A S \in SUBSET AnyPacket : Seq(S) \subseteq Seq(AnyPacket)
    OBVIOUS
  <2>2. UpPacket \in SUBSET AnyPacket
    BY DEF AnyPacket
  <2> QED BY <2>1, <2>2, Queues
<1>2. AskedOut' = AskedOut /\ AskedIn' = AskedIn /\ AskedUp' = AskedUp \o Kinds(l)
  BY <1>1, KindsMove DEF AskedOut, AskedIn, AskedUp
<1>3. Kinds(l) \in Seq(KindSet)
  BY <1>1, KindsMove
<1>4. Held(up') \subseteq Held(up) \cup Held(l)
  BY <1>1, HeldMoves
<1>5. AskedSet' \subseteq AskedSet \cup Held(l)
  BY <1>4 DEF AskedSet
<1>6. \A A : Has(AskedUp \o Kinds(l), A) <=> Has(AskedUp, A) \/ Has(Kinds(l), A)
  BY <1>3, Ways, JoinedKinds
<1> QED BY <1>2, <1>3, <1>5, <1>6 DEF Subscribing

LEMMA SendingOne ==
  ASSUME TypeInv, NEW p \in UpPacket, up' = Append(up, p), UNCHANGED <<packetQ, brokerQ>>
  PROVE  /\ AskKeeps({Kind(p)}) /\ Subscribing' = Subscribing
         /\ \A A : Asking(A)' <=> Asking(A) \/ Kind(p) \in A
         /\ \A A, B : AskedInOrder(A, B) /\ (Kind(p) \in B => ~Asking(A)) => AskedInOrder(A, B)'
         /\ AckMids' \subseteq AckMids \cup {m \in {p.mid} : p.type \in CmdAcks}
<1>1. <<p>> \in Seq(UpPacket) /\ up' = up \o <<p>> /\ p \in AnyPacket
  BY Queues, Few, AppendIsConcat DEF AnyPacket
<1>2. Kinds(<<p>>) = <<Kind(p)>> /\ Held(<<p>>) = {p} /\ Kind(p) \in KindSet
  BY <1>1, HeldFew, KindType DEF Kinds, Through
<1> DEFINE l == <<p>>
           x == Kind(p)
<1>3. /\ AskedOut' = AskedOut /\ AskedIn' = AskedIn /\ AskedUp' = AskedUp \o Kinds(l)
      /\ Kinds(l) \in Seq(KindSet)
      /\ AskedSet' \subseteq AskedSet \cup Held(l) /\ Subscribing' = Subscribing
      /\ \A A : Has(AskedUp', A) <=> Has(AskedUp, A) \/ Has(Kinds(l), A)
  <2>1. l \in Seq(UpPacket) /\ up' = up \o l
    BY <1>1
  <2> HIDE DEF l
  <2> QED BY <2>1, Sending
<1>4. AskedUp' = AskedUp \o <<x>> /\ AskedUp' = Append(AskedUp, x)
  BY <1>2, <1>3, Ways, AppendIsConcat
<1>5. \A A : Asking(A)' <=> Asking(A) \/ x \in A
  <2>1. \A A : Has(<<x>>, A) <=> x \in A
    BY <1>2, OneKind
  <2> QED BY <1>2, <1>3, <2>1 DEF Asking, Anywhere
<1> HIDE DEF x
<1>6. AskKeeps({x})
  <2>1. x \in KindSet /\ x \in {x}
    BY <1>2 DEF x
  <2>2. Keeps(AskedOut, AskedIn, AskedUp, AskedOut, AskedIn, Append(AskedUp, x), {x})
    BY <2>1, Ways, KeepsNew
  <2> QED BY <1>3, <1>4, <2>2 DEF AskKeeps
<1>7. ASSUME NEW A, NEW B, AskedInOrder(A, B), x \in B => ~Asking(A)
      PROVE  AskedInOrder(A, B)'
  <2>1. <<x>> \in Seq(KindSet) /\ NoneAfter(<<x>>, A, B) /\ (Has(<<x>>, B) <=> x \in B)
    BY <1>2, OneKind DEF x
  <2>2. NoneBehind(AskedOut, AskedIn, AskedUp \o <<x>>, A, B)
    BY <1>7, <2>1, Ways, Entering DEF AskedInOrder, Asking
  <2> QED BY <1>3, <1>4, <2>2 DEF AskedInOrder
<1>8. AckMids' \subseteq AckMids \cup {m \in {p.mid} : p.type \in CmdAcks}
  BY <1>2, <1>3 DEF AckMids
<1> QED BY <1>3, <1>5, <1>6, <1>7, <1>8 DEF x

LEMMA Taking ==
  ASSUME TypeInv, down # <<>>, down' = Tail(down), UNCHANGED <<packetQ, fromBroker>>, NEW new
  PROVE  /\ TellKeeps(new) /\ ToldCmds' \subseteq ToldCmds /\ Coming' = Coming
         /\ Head(down) \in ToldSet /\ Head(down) \in DownPacket
         /\ \A A : Kind(Head(down)) \in A => Telling(A)
         /\ \A A, B : ToldInOrder(A, B) /\ Kind(Head(down)) \in A => ~Telling(B)'
<1>1. down \in Seq(AnyPacket) /\ down \in Seq(DownPacket)
  BY Queues
<1>2. /\ ToldDown # <<>> /\ ToldDown' = Tail(ToldDown) /\ Head(ToldDown) = Kind(Head(down))
      /\ ToldIn' = ToldIn /\ ToldOut' = ToldOut
  BY <1>1, KindsMove DEF ToldDown, ToldIn, ToldOut
<1>3. TellKeeps(new)
  BY <1>2, Ways, KeepsAway DEF TellKeeps
<1>4. Held(down') \subseteq Held(down) /\ Head(down) \in Held(down) /\ Head(down) \in DownPacket
  BY <1>1, HeldMoves
<1>5. ToldSet' \subseteq ToldSet /\ FromSet' = FromSet /\ Head(down) \in ToldSet
  BY <1>4 DEF ToldSet, FromSet
<1>6. ToldCmds' \subseteq ToldCmds /\ Coming' = Coming
  BY <1>5 DEF ToldCmds, Coming
<1>7. \A A : Kind(Head(down)) \in A => Telling(A)
  BY <1>2, Ways, TailKinds DEF Telling, Anywhere
<1>8. \A A, B : ToldInOrder(A, B) /\ Kind(Head(down)) \in A => ~Telling(B)'
  <2>1. SUFFICES ASSUME NEW A, NEW B, NoneBehind(ToldDown, ToldIn, ToldOut, A, B), Head(ToldDown) \in A
                 PROVE  ~Anywhere(Tail(ToldDown), ToldIn, ToldOut, B)
    BY <1>2 DEF ToldInOrder, Telling
  <2> QED BY <1>2, <2>1, Ways, BehindTheFirst
<1> QED BY <1>3, <1>4, <1>5, <1>6, <1>7, <1>8

LEMMA ToldIsKept ==
  ASSUME UNCHANGED <<down, packetQ, fromBroker>>, NEW new
  PROVE  /\ TellKeeps(new) /\ ToldCmds' = ToldCmds /\ Coming' = Coming
         /\ ToldDown' = ToldDown /\ ToldIn' = ToldIn /\ ToldOut' = ToldOut
<1>1. /\ ToldDown' = ToldDown /\ ToldIn' = ToldIn /\ ToldOut' = ToldOut
      /\ ToldSet' = ToldSet /\ FromSet' = FromSet
  BY DEF ToldDown, ToldIn, ToldOut, ToldSet, FromSet
<1> QED BY <1>1, KeepsNothing DEF TellKeeps, ToldCmds, Coming

(* Nothing is under way.                                                   *)
LEMMA NothingUnderWay ==
  ASSUME Quiet
  PROVE  /\ AskedOut = <<>> /\ AskedIn = <<>> /\ AskedUp = <<>>
         /\ ToldDown = <<>> /\ ToldIn = <<>> /\ ToldOut = <<>>
         /\ \A A : ~Asking(A) /\ ~Telling(A)
<1>1. up = <<>> /\ down = <<>> /\ packetQ = <<>> /\ brokerQ = <<>> /\ fromBroker = <<>>
  BY DEF Quiet, GatewayIdle
<1>2. Kinds(<<>>) = <<>> /\ \A who : KindsFrom(who, <<>>) = <<>>
  BY DEF Kinds, KindsFrom, Through
<1>3. /\ AskedOut = <<>> /\ AskedIn = <<>> /\ AskedUp = <<>>
      /\ ToldDown = <<>> /\ ToldIn = <<>> /\ ToldOut = <<>>
  BY <1>1, <1>2 DEF AskedOut, AskedIn, AskedUp, ToldDown, ToldIn, ToldOut
<1> QED BY <1>3, EmptyKinds DEF Asking, Telling, Anywhere

(***************************************************************************)
(* The faults of the network.                                              *)
(***************************************************************************)
LEMMA LostPasses ==
  ASSUME TypeInv, NetFault, NeverSeen({"repeated", "delayed"})', UNCHANGED gatewayVars
  PROVE  Passes({"-"}, {"-"})
<1>1. \/ up # <<>> /\ up' = Tail(up) /\ down' = down
      \/ down # <<>> /\ down' = Tail(down) /\ up' = up
  BY DEF NetFault, Suffers, Fault, NeverSeen
<1>2. UNCHANGED <<packetQ, brokerQ, fromBroker>>
  BY DEF gatewayVars, pahoVars, brokerVars
<1>3. ASSUME up # <<>>, up' = Tail(up), down' = down PROVE Passes({"-"}, {"-"})
  <2>1. AskedOut' = AskedOut /\ AskedIn' = AskedIn /\ AskedUp' = Tail(AskedUp) /\ AskedUp # <<>>
    BY <1>2, <1>3, Queues, KindsMove DEF AskedOut, AskedIn, AskedUp
  <2>2. AskKeeps({"-"})
    BY <2>1, Ways, KeepsAway DEF AskKeeps
  <2>3. Held(up') \subseteq Held(up)
    BY <1>3, Queues, HeldMoves
  <2>4. AskedSet' \subseteq AskedSet /\ Held(brokerQ') = Held(brokerQ)
    BY <1>2, <2>3 DEF AskedSet
  <2>5. AckMids' \subseteq AckMids /\ Subscribing' = Subscribing
    BY <2>4 DEF AckMids, Subscribing
  <2>6. TellKeeps({"-"}) /\ ToldCmds' = ToldCmds /\ Coming' = Coming
    BY <1>2, <1>3, ToldIsKept
  <2> QED BY <2>2, <2>5, <2>6 DEF Passes
<1>4. ASSUME down # <<>>, down' = Tail(down), up' = up PROVE Passes({"-"}, {"-"})
  <2>1. TellKeeps({"-"}) /\ ToldCmds' \subseteq ToldCmds /\ Coming' = Coming
    BY <1>2, <1>4, Taking
  <2>2. AskKeeps({"-"}) /\ AckMids' = AckMids /\ Subscribing' = Subscribing
    BY <1>2, <1>4, AskedIsKept
  <2> QED BY <2>1, <2>2 DEF Passes
<1> QED BY <1>1, <1>3, <1>4

(* A repeated or a delayed one is one that was there.                      *)
LEMMA FaultAddsNothing ==
  ASSUME TypeInv, NetFault, UNCHANGED gatewayVars, NEW A
  PROVE  (Asking(A)' => Asking(A)) /\ (Telling(A)' => Telling(A))
<1>1. ASSUME NEW q \in Seq(AnyPacket), q # <<>>,
             NEW r \in {Tail(q), Append(q, Head(q)), Append(Tail(q), Head(q))}
      PROVE  Has(Kinds(r), A) => Has(Kinds(q), A)
  <2>1. /\ Head(q) \in Held(q) /\ Held(Tail(q)) \subseteq Held(q) /\ Tail(q) \in Seq(AnyPacket)
        /\ Held(Append(q, Head(q))) \subseteq Held(q) \cup {Head(q)}
    BY <1>1, HeldMoves
  <2>2. Held(Append(Tail(q), Head(q))) \subseteq Held(Tail(q)) \cup {Head(q)}
    BY <2>1, HeldMoves
  <2>3. Held(r) \subseteq Held(q)
    BY <1>1, <2>1, <2>2
  <2>4. r \in Seq(AnyPacket)
    <3>1. Head(q) \in AnyPacket
      BY <1>1
    <3> QED BY <1>1, <2>1, <3>1
  <2> QED BY <2>3, <2>4, HasHeld
<1>2. (Has(AskedUp', A) => Has(AskedUp, A)) /\ (Has(ToldDown', A) => Has(ToldDown, A))
  <2>1. up \in Seq(AnyPacket) /\ down \in Seq(AnyPacket)
    BY Queues
  <2>2. \/ /\ up # <<>> /\ up' \in {Tail(up), Append(up, Head(up)), Append(Tail(up), Head(up))}
           /\ down' = down
        \/ /\ down # <<>> /\ down' \in {Tail(down), Append(down, Head(down)), Append(Tail(down), Head(down))}
           /\ up' = up
    BY DEF NetFault, Suffers
  <2> QED BY <1>1, <2>1, <2>2 DEF AskedUp, ToldDown
<1>3. AskedOut' = AskedOut /\ AskedIn' = AskedIn /\ ToldIn' = ToldIn /\ ToldOut' = ToldOut
  BY DEF gatewayVars, pahoVars, brokerVars, AskedOut, AskedIn, ToldIn, ToldOut
<1> QED BY <1>2, <1>3 DEF Asking, Telling, Anywhere

(***************************************************************************)
(* The invariants.  Before: the client has not begun to register its       *)
(* topics; Awaiting: its CONNECT is not answered; Past: it is, or the      *)
(* Pico waits no longer.                                                   *)
(***************************************************************************)
Before   == \/ Arduino /\ st \in {"INIT", "CONNECTING"}
            \/ Pico /\ task \in {"boot", "wait"}
Awaiting == \/ Arduino /\ st = "CONNECTING" /\ ~flag
            \/ Pico /\ task = "wait"
Past     == \/ Arduino /\ (st \in {"REGISTERING", "READY"} \/ (st = "CONNECTING" /\ flag))
            \/ Pico /\ task \in {"register", "run"}

Connacks == {"ACCEPTED", "REFUSED"}
Requests == {"REGISTER", "SUBSCRIBE"}
Given    == {"REGACK", "SUBACK"}

Punctual == NeverSeen({"delayed", "late", "reboot"})
Orderly  == NeverSeen({"repeated", "delayed", "late", "reboot"})

(* Before it registers, nothing of an earlier registration is under way.   *)
PhaseInv ==
  Punctual =>
    /\ Pico => owed = NothingOwed
    /\ Before => ~Asking(Requests) /\ ~Telling(Given)
    /\ Before /\ Arduino => table = None \/ \A t \in Topic : table[t].id = 0
    /\ Before /\ Pico => ~Asking(CmdAcks) /\ ~Telling({"PUBLISH"}) /\ broker.subs = {}

(* One CONNECT or its answer is under way, while the client waits for it;  *)
(* until then nothing is subscribed, and no command comes after it.        *)
ConnectInv ==
  /\ AskedInOrder({"CONNECT"}, {"CONNECT"})
  /\ ToldInOrder(Connacks, Connacks)
  /\ Asking({"CONNECT"}) => ~Telling(Connacks)
  /\ Asking({"CONNECT"}) \/ Telling(Connacks) => Awaiting
  /\ ToldInOrder(Connacks, {"PUBLISH"})
  /\ Telling(Connacks) => broker.subs = {}

(* In a session without a subscription, the commands of the one before are *)
(* gone when the client registers, and their acknowledgements are not      *)
(* behind a SUBSCRIBE.                                                     *)
SubscribeInv ==
  broker.subs = {} /\ link = "open" =>
    /\ Past => ~Telling({"PUBLISH"})
    /\ AskedInOrder({"SUBSCRIBE"}, CmdAcks)
    /\ Asking({"SUBSCRIBE"}) => owed.puback = 0 /\ owed.pubrec = 0
    /\ Pico => ~Asking(CmdAcks) /\ ~Telling({"PUBLISH"})

(* The gateway knows the topic of every command that it will look at, so   *)
(* it acknowledges none itself.                                            *)
KnownInv ==
  client # None =>
    /\ client.status = "Active" => \A t \in Coming \cup broker.subs : client.ids[t] # 0
    /\ \A t \in Subscribing : client.ids[t] # 0

OwedMids == {owed.puback, owed.pubrec} \ {0}

Settling == AckMids \cup OwedMids

Got == handled \cup picoGot

(* The number of a command in flight is not an older command's: who        *)
(* acknowledges it has seen the command.                                   *)
AgreeInv ==
  /\ \A c \in ToldCmds, e \in broker.inflight : e.mid = c.mid => e.cmd = c.cmd
  /\ \A k \in Settling, e \in broker.inflight : e.mid = k => e.cmd \in Got
  /\ broker.subs # {} => \A c \in ToldCmds : c.mid <= broker.lastMid
  /\ broker.subs # {} => \A k \in Settling : k <= broker.lastMid
  /\ \A e \in broker.inflight : e.mid <= broker.lastMid
  /\ received \subseteq Got

CommandInv == Orderly => ConnectInv /\ SubscribeInv /\ KnownInv /\ AgreeInv

(***************************************************************************)
(* What keeps them.                                                        *)
(***************************************************************************)
AskAdds(new)  == \A A : A \cap new = {} /\ Anywhere(AskedOut', AskedIn', AskedUp', A) => Asking(A)
TellAdds(new) == \A A : A \cap new = {} /\ Anywhere(ToldDown', ToldIn', ToldOut', A) => Telling(A)

LEMMA KeepsAdds ==
  \A new : (AskKeeps(new) => AskAdds(new)) /\ (TellKeeps(new) => TellAdds(new))
<1>1. ASSUME NEW new, AskKeeps(new) PROVE AskAdds(new)
  BY <1>1 DEF AskKeeps, AskAdds, Keeps, Asking
<1>2. ASSUME NEW new, TellKeeps(new) PROVE TellAdds(new)
  BY <1>2 DEF TellKeeps, TellAdds, Keeps, Telling
<1> QED BY <1>1, <1>2

LEMMA PhaseKept ==
  ASSUME PhaseInv, UNCHANGED scenario, NEW new, NEW more,
         Punctual' => Punctual,
         Punctual => /\ AskAdds(new) /\ TellAdds(more)
                     /\ Pico => owed' = owed
                     /\ Before' => Before
                     /\ Before' /\ Arduino => table' = table \/ table' = None,
         Punctual /\ Before' => new \cap Requests = {} /\ more \cap Given = {},
         Punctual /\ Before' /\ Pico => /\ new \cap CmdAcks = {} /\ "PUBLISH" \notin more
                                        /\ broker'.subs \subseteq broker.subs
  PROVE  PhaseInv'
<1> SUFFICES ASSUME Punctual'
             PROVE  /\ Pico => owed' = NothingOwed
                    /\ Before' => /\ ~Anywhere(AskedOut', AskedIn', AskedUp', Requests)
                                  /\ ~Anywhere(ToldDown', ToldIn', ToldOut', Given)
                    /\ Before' /\ Arduino => table' = None \/ \A t \in Topic : table'[t].id = 0
                    /\ Before' /\ Pico => /\ ~Anywhere(AskedOut', AskedIn', AskedUp', CmdAcks)
                                          /\ ~Anywhere(ToldDown', ToldIn', ToldOut', {"PUBLISH"})
                                          /\ broker'.subs = {}
  BY DEF PhaseInv, Asking, Telling, Arduino, Pico, NothingOwed
<1>1. Punctual
  OBVIOUS
<1>2. Pico => owed' = NothingOwed
  BY <1>1 DEF PhaseInv
<1>3. ASSUME Before'
      PROVE  /\ ~Anywhere(AskedOut', AskedIn', AskedUp', Requests)
             /\ ~Anywhere(ToldDown', ToldIn', ToldOut', Given)
  <2>1. ~Asking(Requests) /\ ~Telling(Given) /\ Requests \cap new = {} /\ Given \cap more = {}
    BY <1>1, <1>3 DEF PhaseInv
  <2> QED BY <1>1, <2>1 DEF AskAdds, TellAdds
<1>4. ASSUME Before', Arduino PROVE table' = None \/ \A t \in Topic : table'[t].id = 0
  BY <1>1, <1>4 DEF PhaseInv
<1>5. ASSUME Before', Pico
      PROVE  /\ ~Anywhere(AskedOut', AskedIn', AskedUp', CmdAcks)
             /\ ~Anywhere(ToldDown', ToldIn', ToldOut', {"PUBLISH"})
             /\ broker'.subs = {}
  <2>1. /\ ~Asking(CmdAcks) /\ ~Telling({"PUBLISH"}) /\ broker.subs = {}
        /\ CmdAcks \cap new = {} /\ {"PUBLISH"} \cap more = {}
    BY <1>1, <1>5 DEF PhaseInv
  <2> QED BY <1>1, <1>5, <2>1 DEF AskAdds, TellAdds
<1> QED BY <1>2, <1>3, <1>4, <1>5

LEMMA ConnectKept ==
  ASSUME ConnectInv, NEW new, NEW more, AskKeeps(new), TellKeeps(more),
         "CONNECT" \notin new, more \cap (Connacks \cup {"PUBLISH"}) = {},
         Awaiting => Awaiting' \/ (~Asking({"CONNECT"}) /\ ~Telling(Connacks)),
         broker'.subs \subseteq broker.subs \/ ~Telling(Connacks)
  PROVE  ConnectInv'
<1>1. /\ {"CONNECT"} \cap new = {} /\ Connacks \cap more = {} /\ {"PUBLISH"} \cap more = {}
  OBVIOUS
<1>2. /\ NoneBehind(AskedOut', AskedIn', AskedUp', {"CONNECT"}, {"CONNECT"})
      /\ Anywhere(AskedOut', AskedIn', AskedUp', {"CONNECT"}) => Asking({"CONNECT"})
  BY <1>1 DEF ConnectInv, AskedInOrder, AskKeeps, Keeps, Asking
<1>3. /\ NoneBehind(ToldDown', ToldIn', ToldOut', Connacks, Connacks)
      /\ NoneBehind(ToldDown', ToldIn', ToldOut', Connacks, {"PUBLISH"})
      /\ Anywhere(ToldDown', ToldIn', ToldOut', Connacks) => Telling(Connacks)
  BY <1>1 DEF ConnectInv, ToldInOrder, TellKeeps, Keeps, Telling
<1>4. /\ Asking({"CONNECT"})' => Asking({"CONNECT"})
      /\ Telling(Connacks)' => Telling(Connacks)
      /\ AskedInOrder({"CONNECT"}, {"CONNECT"})'
      /\ ToldInOrder(Connacks, Connacks)' /\ ToldInOrder(Connacks, {"PUBLISH"})'
  BY <1>2, <1>3 DEF Asking, Telling, AskedInOrder, ToldInOrder, Connacks
<1>5. Telling(Connacks)' => broker'.subs = {}
  BY <1>4 DEF ConnectInv
<1>6. /\ Asking({"CONNECT"})' => ~Telling(Connacks)'
      /\ Asking({"CONNECT"})' \/ Telling(Connacks)' => Awaiting'
  BY <1>4 DEF ConnectInv
<1> QED BY <1>4, <1>5, <1>6 DEF ConnectInv, Asking, Telling, AskedInOrder, ToldInOrder, Connacks

LEMMA SubscribeKept ==
  ASSUME SubscribeInv, UNCHANGED scenario, NEW new, NEW more, AskKeeps(new), TellKeeps(more),
         broker'.subs = {} /\ link' = "open" =>
           /\ broker.subs = {} /\ link = "open"
           /\ new \cap (CmdAcks \cup {"SUBSCRIBE"}) = {} /\ "PUBLISH" \notin more
           /\ Past' => Past \/ ~Anywhere(ToldDown', ToldIn', ToldOut', {"PUBLISH"})
           /\ owed'.puback \in {owed.puback, 0} /\ owed'.pubrec \in {owed.pubrec, 0}
  PROVE  SubscribeInv'
<1> SUFFICES ASSUME broker'.subs = {}, link' = "open"
             PROVE  /\ Past' => ~Anywhere(ToldDown', ToldIn', ToldOut', {"PUBLISH"})
                    /\ NoneBehind(AskedOut', AskedIn', AskedUp', {"SUBSCRIBE"}, CmdAcks)
                    /\ Anywhere(AskedOut', AskedIn', AskedUp', {"SUBSCRIBE"}) =>
                         owed'.puback = 0 /\ owed'.pubrec = 0
                    /\ Pico => /\ ~Anywhere(AskedOut', AskedIn', AskedUp', CmdAcks)
                               /\ ~Anywhere(ToldDown', ToldIn', ToldOut', {"PUBLISH"})
  BY DEF SubscribeInv, Asking, Telling, AskedInOrder, Pico, CmdAcks
<1>1. /\ broker.subs = {} /\ link = "open"
      /\ CmdAcks \cap new = {} /\ {"SUBSCRIBE"} \cap new = {} /\ {"PUBLISH"} \cap more = {}
      /\ Past' => Past \/ ~Anywhere(ToldDown', ToldIn', ToldOut', {"PUBLISH"})
      /\ owed'.puback \in {owed.puback, 0} /\ owed'.pubrec \in {owed.pubrec, 0}
  OBVIOUS
<1>2. /\ Past => ~Telling({"PUBLISH"})
      /\ AskedInOrder({"SUBSCRIBE"}, CmdAcks)
      /\ Asking({"SUBSCRIBE"}) => owed.puback = 0 /\ owed.pubrec = 0
      /\ Pico => ~Asking(CmdAcks) /\ ~Telling({"PUBLISH"})
  BY <1>1 DEF SubscribeInv
<1>3. /\ NoneBehind(AskedOut', AskedIn', AskedUp', {"SUBSCRIBE"}, CmdAcks)
      /\ Anywhere(AskedOut', AskedIn', AskedUp', {"SUBSCRIBE"}) => Asking({"SUBSCRIBE"})
      /\ Anywhere(AskedOut', AskedIn', AskedUp', CmdAcks) => Asking(CmdAcks)
  BY <1>1, <1>2 DEF AskedInOrder, AskKeeps, Keeps, Asking
<1>4. Anywhere(ToldDown', ToldIn', ToldOut', {"PUBLISH"}) => Telling({"PUBLISH"})
  BY <1>1 DEF TellKeeps, Keeps, Telling
<1> QED BY <1>1, <1>2, <1>3, <1>4

(* The Client object is the same one and its topics only get more.         *)
ClientKeeps ==
  client' # None =>
    /\ client # None
    /\ client'.status = "Active" => client.status = "Active"
    /\ \A t \in Topic : client.ids[t] # 0 => client'.ids[t] # 0

LEMMA KnownKept ==
  ASSUME TypeInv, KnownInv, ClientKeeps,
         Coming' \subseteq Coming, Subscribing' \subseteq Subscribing,
         broker'.subs \subseteq broker.subs
  PROVE  KnownInv'
<1>1. Coming \subseteq Topic /\ Subscribing \subseteq Topic /\ broker.subs \subseteq Topic
  <2>1. FromSet \subseteq FromBroker \cup Disconnect /\ Held(brokerQ) \subseteq ToBroker
    BY Ways, Queues, HeldMoves
  <2>2. \A p \in FromSet : p.type = "PUBLISH" => p.topic \in Topic
    BY <2>1, Roles DEF FromBroker, Disconnect, BrokerPacket, Connack, BrokerAck, CommandTaken
  <2>3. \A p \in Held(brokerQ) : p.type = "SUBSCRIBE" => p.topic \in Topic
    BY <2>1, Roles, ToBrokerKinds DEF Subscription
  <2>4. broker.subs \subseteq Topic
    BY Roles DEF TypeInv, GatewayOK, BrokerType
  <2> QED BY <2>2, <2>3, <2>4 DEF Coming, Subscribing
<1> QED BY <1>1 DEF KnownInv, ClientKeeps

LEMMA AgreeKept ==
  ASSUME AgreeInv,
         ToldCmds' \subseteq ToldCmds, Settling' \subseteq Settling, Got \subseteq Got',
         broker'.inflight \subseteq broker.inflight, received' \subseteq received \cup Got,
         \/ broker'.subs = broker.subs /\ broker'.lastMid = broker.lastMid
         \/ broker'.subs = {} /\ broker'.inflight = {}
  PROVE  AgreeInv'
<1>1. /\ \A c \in ToldCmds', e \in broker'.inflight : e.mid = c.mid => e.cmd = c.cmd
      /\ \A k \in Settling', e \in broker'.inflight : e.mid = k => e.cmd \in Got'
  BY DEF AgreeInv
<1>2. /\ broker'.subs # {} => \A c \in ToldCmds' : c.mid <= broker'.lastMid
      /\ broker'.subs # {} => \A k \in Settling' : k <= broker'.lastMid
      /\ \A e \in broker'.inflight : e.mid <= broker'.lastMid
  BY DEF AgreeInv
<1>3. received' \subseteq Got'
  BY DEF AgreeInv
<1> QED BY <1>1, <1>2, <1>3 DEF AgreeInv

(***************************************************************************)
(* The gateway's steps.                                                    *)
(***************************************************************************)
SessionKeeps ==
  /\ broker'.inflight \subseteq broker.inflight
  /\ \/ link' = link /\ broker'.subs = broker.subs /\ broker'.lastMid = broker.lastMid
     \/ link' # "open" /\ broker'.subs = {} /\ broker'.inflight = {}

Sound == TypeInv /\ PhaseInv /\ CommandInv

Aside == UNCHANGED <<scenario, ardVars, picoVars>> /\ seen \subseteq seen'

AnswerKinds == {"-", "EOF", "REGACK", "SUBACK", "PUBACK", "PUBREL", "DISCONNECT"}

LEMMA Phases ==
  ASSUME TypeInv
  PROVE  /\ Orderly => Punctual
         /\ Before \/ Past
         /\ Awaiting => Before /\ ~Past
         /\ Arduino <=> ~Pico
<1>1. Orderly => Punctual
  BY DEF Orderly, Punctual, NeverSeen
<1>2. Arduino <=> ~Pico
  BY SessionAssumption DEF TypeInv, CalmOK, Arduino, Pico
<1>3. Awaiting => Before /\ ~Past
  BY <1>2 DEF Before, Past, Awaiting
<1>4. Before \/ Past
  BY <1>2 DEF TypeInv, ArdOK, PicoOK, Before, Past
<1> QED BY <1>1, <1>2, <1>3, <1>4

LEMMA AsideKeeps ==
  ASSUME Aside
  PROVE  /\ (Punctual' => Punctual) /\ (Orderly' => Orderly)
         /\ (Before' <=> Before) /\ (Awaiting' <=> Awaiting) /\ (Past' <=> Past)
         /\ Arduino' = Arduino /\ Pico' = Pico
         /\ owed' = owed /\ table' = table /\ Got' = Got /\ OwedMids' = OwedMids
BY DEF Aside, ardVars, picoVars, Punctual, Orderly, NeverSeen, Before, Awaiting, Past,
       Arduino, Pico, Got, OwedMids

LEMMA GatewayKeeps ==
  ASSUME Sound, Aside, NEW nt \in SUBSET AnswerKinds, AskKeeps({"-"}), TellKeeps(nt),
         ToldCmds' \subseteq ToldCmds, AckMids' \subseteq AckMids,
         SessionKeeps,
         nt \cap Given = {} \/ (Punctual => ~Before),
         Orderly => received' \subseteq received \cup Got,
         Orderly => KnownInv'
  PROVE  PhaseInv' /\ CommandInv'
<1>1. /\ (Punctual' => Punctual) /\ (Orderly' => Orderly)
      /\ (Before' <=> Before) /\ (Awaiting' <=> Awaiting) /\ (Past' <=> Past)
      /\ owed' = owed /\ table' = table /\ Got' = Got /\ OwedMids' = OwedMids
      /\ UNCHANGED scenario
  BY AsideKeeps DEF Aside
<1>2. /\ nt \cap (Connacks \cup {"PUBLISH"}) = {} /\ "PUBLISH" \notin nt /\ "CONNECT" \notin {"-"}
      /\ {"-"} \cap Requests = {} /\ {"-"} \cap CmdAcks = {}
      /\ {"-"} \cap (CmdAcks \cup {"SUBSCRIBE"}) = {}
  BY DEF AnswerKinds, Connacks, Requests, CmdAcks
<1>3. broker'.subs \subseteq broker.subs
  BY DEF SessionKeeps
<1>4. AskAdds({"-"}) /\ TellAdds(nt)
  BY KeepsAdds
<1>5. PhaseInv'
  BY <1>1, <1>2, <1>3, <1>4, PhaseKept DEF Sound
<1>6. ASSUME Orderly'
      PROVE  ConnectInv' /\ SubscribeInv' /\ KnownInv' /\ AgreeInv'
  <2>1. ConnectInv /\ SubscribeInv /\ KnownInv /\ AgreeInv
    BY <1>1, <1>6 DEF Sound, CommandInv
  <2>2. ConnectInv'
    BY <1>1, <1>2, <1>3, <2>1, ConnectKept
  <2>3. SubscribeInv'
    <3>1. broker'.subs = {} /\ link' = "open" =>
            /\ broker.subs = {} /\ link = "open"
            /\ {"-"} \cap (CmdAcks \cup {"SUBSCRIBE"}) = {} /\ "PUBLISH" \notin nt
            /\ Past' => Past \/ ~Anywhere(ToldDown', ToldIn', ToldOut', {"PUBLISH"})
            /\ owed'.puback \in {owed.puback, 0} /\ owed'.pubrec \in {owed.pubrec, 0}
      BY <1>1, <1>2 DEF SessionKeeps
    <3> QED BY <1>1, <2>1, <3>1, SubscribeKept
  <2>4. AgreeInv'
    <3>1. Settling' \subseteq Settling /\ Got \subseteq Got'
      BY <1>1 DEF Settling
    <3>2. /\ broker'.inflight \subseteq broker.inflight /\ received' \subseteq received \cup Got
          /\ \/ broker'.subs = broker.subs /\ broker'.lastMid = broker.lastMid
             \/ broker'.subs = {} /\ broker'.inflight = {}
      BY <1>1, <1>6 DEF SessionKeeps
    <3> QED BY <2>1, <3>1, <3>2, AgreeKept
  <2> QED BY <1>1, <1>6, <2>2, <2>3, <2>4
<1> QED BY <1>5, <1>6 DEF CommandInv

LEMMA GatewayPasses ==
  ASSUME Sound, Aside, NEW nt \in SUBSET AnswerKinds, Passes({"-"}, nt), SessionKeeps, ClientKeeps,
         nt \cap Given = {} \/ (Punctual => ~Before),
         Orderly => received' \subseteq received \cup Got
  PROVE  PhaseInv' /\ CommandInv'
<1>1. ASSUME Orderly PROVE KnownInv'
  <2>1. KnownInv /\ TypeInv /\ broker'.subs \subseteq broker.subs
    BY <1>1 DEF Sound, CommandInv, SessionKeeps
  <2> QED BY <2>1, KnownKept DEF Passes
<1> QED BY <1>1, GatewayKeeps DEF Passes

LEMMA BrokerVarsKeep ==
  ASSUME UNCHANGED brokerVars
  PROVE  SessionKeeps /\ received' = received
BY DEF brokerVars, SessionKeeps

(* The Client object, but for its maps and a status that is not Active.    *)
LEMMA ClientStaysItself ==
  ASSUME client \in ClientType,
         \/ client' = client
         \/ client'.ids = client.ids /\ client'.status \in {client.status, "Disconnected", "Connecting"}
  PROVE  ClientKeeps
BY ClientIsThere DEF ClientKeeps

LEMMA ClientRecvKeeps ==
  ASSUME Sound, Aside, ClientRecvTask
  PROVE  PhaseInv' /\ CommandInv'
<1>1. TypeInv /\ Passes({"-"}, {"-", "DISCONNECT"})
  BY ClientRecvPasses DEF Sound
<1>2. SessionKeeps /\ received' = received /\ UNCHANGED <<brokerQ, broker>>
  BY BrokerVarsKeep DEF ClientRecvTask, brokerVars
<1>3. {"-", "DISCONNECT"} \in SUBSET AnswerKinds /\ {"-", "DISCONNECT"} \cap Given = {}
  BY DEF AnswerKinds, Given
<1>4. ASSUME Orderly PROVE KnownInv'
  <2>1. CASE client' = client
    <3>1. ClientKeeps
      BY <2>1 DEF ClientKeeps
    <3> QED BY <1>1, <1>2, <1>4, <3>1, KnownKept DEF Sound, CommandInv, Passes
  <2>2. CASE client = None /\ client' = NewClient
    <3>1. client \notin ClientType
      BY <2>2, ClientIsThere
    <3>2. brokerQ = <<>>
      BY <1>1, <3>1 DEF TypeInv, GatewayOK
    <3>3. Subscribing' = {} /\ NewClient.status = "Disconnected"
      BY <1>2, <3>2, HeldFew DEF Subscribing, NewClient
    <3> QED BY <2>2, <3>3 DEF KnownInv
  <2> QED BY <2>1, <2>2 DEF ClientRecvTask
<1> QED BY <1>1, <1>2, <1>3, <1>4, GatewayKeeps DEF Passes

LEMMA HandlingKeeps ==
  ASSUME TypeInv, NEW from, NEW type, Handling(from, type)
  PROVE  /\ SessionKeeps /\ received' = received /\ UNCHANGED broker
         /\ client \in ClientType /\ client # None
<1>1. UNCHANGED brokerVars /\ client \in ClientType
  BY HandlingType
<1> QED BY <1>1, BrokerVarsKeep, ClientIsThere DEF brokerVars

(* A CONNECT wipes the topics: no SUBSCRIBE of the session before is left. *)
LEMMA HandleConnectKeeps ==
  ASSUME Sound, Aside, HandleConnect
  PROVE  PhaseInv' /\ CommandInv'
<1>1. Handling("client", "CONNECT") /\ TypeInv
  BY DEF HandleConnect, Sound
<1>2. Passes({"-"}, {"-"}) /\ SessionKeeps /\ received' = received
  BY <1>1, FromClientPasses, HandlingKeeps
<1>3. {"-"} \in SUBSET AnswerKinds /\ {"-"} \cap Given = {}
  BY DEF AnswerKinds, Given
<1>4. ASSUME Orderly PROVE KnownInv'
  <2>1. Packet \in AskedSet /\ Kind(Packet) = "CONNECT"
    <3>1. Packet.type = "CONNECT"
      BY <1>1, HandlingType
    <3> QED BY <1>1, <3>1, Queues, EventsMove DEF AskedSet, Handling, Packet, Kind
  <2>2. Asking({"CONNECT"})
    BY <1>1, <2>1, Ways
  <2>3. ~Asking(Requests)
    BY <1>4, <2>2, Phases DEF Sound, PhaseInv, CommandInv, ConnectInv
  <2>4. Subscribing = {}
    <3>1. ASSUME NEW p \in Held(brokerQ), p.type = "SUBSCRIBE" PROVE FALSE
      <4>1. p \in AskedSet /\ Kind(p) \in Requests
        BY <3>1 DEF AskedSet, Kind, Requests
      <4> QED BY <1>1, <2>3, <4>1, Ways DEF Requests
    <3> QED BY <3>1 DEF Subscribing
  <2>5. Subscribing' = {}
    BY <1>2, <2>4 DEF Passes
  <2>6. client' = [NewClient EXCEPT !.lastId = client.lastId]
    BY DEF HandleConnect, Answer
  <2>7. client'.status = "Disconnected"
    BY <2>6 DEF NewClient
  <2> QED BY <2>5, <2>7 DEF KnownInv
<1> QED BY <1>1, <1>2, <1>3, <1>4, GatewayKeeps DEF Passes

LEMMA AddTopicKeeps ==
  ASSUME NEW c \in ClientType, NEW t \in Topic
  PROVE  /\ AddTopic(c, t).ids[t] # 0 /\ AddTopic(c, t).status = c.status
         /\ \A u \in Topic : c.ids[u] # 0 => AddTopic(c, t).ids[u] # 0
<1>1. AddTopic(c, t).ids[t] # 0 /\ AddTopic(c, t).status = c.status
  BY AddTopicType
<1>2. CASE c.ids[t] # 0
  BY <1>1, <1>2 DEF AddTopic
<1>3. CASE c.ids[t] = 0
  <2>1. \A u \in Topic : AddTopic(c, t).ids[u] = IF u = t THEN NextTopicId(c.lastId) ELSE c.ids[u]
    BY <1>3, AddTopicType
  <2> QED BY <1>1, <2>1
<1> QED BY <1>2, <1>3

(* Topics are registered only by a client that has begun to.               *)
LEMMA HandleRegisterKeeps ==
  ASSUME Sound, Aside, HandleRegister
  PROVE  PhaseInv' /\ CommandInv'
<1>1. Handling("client", "REGISTER") /\ TypeInv
  BY DEF HandleRegister, Sound
<1>2. /\ Passes({"-"}, {"-", "REGACK"}) /\ Asking({"REGISTER"})
      /\ SessionKeeps /\ received' = received /\ client \in ClientType /\ client # None
  BY <1>1, FromClientPasses, HandlingKeeps
<1>3. {"-", "REGACK"} \in SUBSET AnswerKinds
  BY DEF AnswerKinds
<1>4. Punctual => ~Before
  <2>1. Asking(Requests)
    BY <1>2 DEF Asking, Anywhere, Has, Requests
  <2> QED BY <2>1 DEF Sound, PhaseInv
<1>5. Packet.topic \in Topic
  BY <1>1, HandlingType, UpKinds, Roles DEF Register
<1>6. ClientKeeps
  <2>1. client' = AddTopic(client, Packet.topic) \/ client' = client
    BY DEF HandleRegister, Answer
  <2> QED BY <1>2, <1>5, <2>1, AddTopicKeeps DEF ClientKeeps
<1> QED BY <1>2, <1>3, <1>4, <1>6, GatewayPasses

LEMMA HandleSubscribeKeeps ==
  ASSUME Sound, Aside, HandleSubscribe
  PROVE  PhaseInv' /\ CommandInv'
<1>1. Handling("client", "SUBSCRIBE") /\ TypeInv
  BY DEF HandleSubscribe, Sound
<1>2. /\ AskKeeps({"-"}) /\ TellKeeps({"-"})
      /\ ToldCmds' \subseteq ToldCmds /\ AckMids' \subseteq AckMids
      /\ Coming' \subseteq Coming /\ Subscribing' \subseteq Subscribing \cup {Packet.topic}
      /\ Packet.topic \in Topic
  BY <1>1, SubscribePasses, Roles
<1>3. /\ SessionKeeps /\ received' = received /\ UNCHANGED broker
      /\ client \in ClientType /\ client # None
  BY <1>1, HandlingKeeps
<1>4. {"-"} \in SUBSET AnswerKinds /\ {"-"} \cap Given = {}
  BY DEF AnswerKinds, Given
<1> DEFINE c == AddTopic(client, Packet.topic)
           d == [c EXCEPT !.waitedSub = Await(@, Packet.mid, c.ids[Packet.topic])]
<1>5. client' = d
  BY DEF HandleSubscribe, Answer
<1>6. d.ids = c.ids /\ d.status = c.status
  <2>1. c \in ClientType
    BY <1>2, <1>3, AddTopicType
  <2> HIDE DEF c
  <2> QED BY <2>1 DEF ClientType
<1>7. /\ client'.ids[Packet.topic] # 0 /\ client'.status = client.status
      /\ \A u \in Topic : client.ids[u] # 0 => client'.ids[u] # 0
  BY <1>2, <1>3, <1>5, <1>6, AddTopicKeeps
<1> HIDE DEF c, d
<1>8. ASSUME Orderly PROVE KnownInv'
  <2>1. KnownInv
    BY <1>8 DEF Sound, CommandInv
  <2>2. Subscribing \subseteq Topic /\ Coming \subseteq Topic /\ broker.subs \subseteq Topic
    <3>1. FromSet \subseteq FromBroker \cup Disconnect /\ Held(brokerQ) \subseteq ToBroker
      BY <1>1, Ways, Queues, HeldMoves
    <3>2. \A p \in FromSet : p.type = "PUBLISH" => p.topic \in Topic
      BY <3>1, Roles DEF FromBroker, Disconnect, BrokerPacket, Connack, BrokerAck, CommandTaken
    <3>3. \A p \in Held(brokerQ) : p.type = "SUBSCRIBE" => p.topic \in Topic
      BY <3>1, Roles, ToBrokerKinds DEF Subscription
    <3>4. broker.subs \subseteq Topic
      BY <1>1, Roles DEF TypeInv, GatewayOK, BrokerType
    <3> QED BY <3>2, <3>3, <3>4 DEF Coming, Subscribing
  <2> QED BY <1>2, <1>3, <1>7, <2>1, <2>2 DEF KnownInv
<1> QED BY <1>2, <1>3, <1>4, <1>8, GatewayKeeps

LEMMA HandleOthersKeep ==
  ASSUME Sound, Aside,
         \/ HandlePublish \/ \E type \in {"PUBACK", "PUBREC", "PUBCOMP"} : HandleAck(type)
         \/ HandleSuback \/ HandlePuback \/ HandlePubrel \/ HandleDisconnect
  PROVE  PhaseInv' /\ CommandInv'
<1>1. TypeInv
  BY DEF Sound
<1>2. PICK nt \in SUBSET AnswerKinds : Passes({"-"}, nt) /\ nt \cap Given = {}
  <2>1. {"-"} \in SUBSET AnswerKinds /\ {"-"} \cap Given = {}
    BY DEF AnswerKinds, Given
  <2>2. {"-", "PUBACK"} \in SUBSET AnswerKinds /\ {"-", "PUBACK"} \cap Given = {}
    BY DEF AnswerKinds, Given
  <2> QED BY <1>1, <2>1, <2>2, FromClientPasses, FromBrokerPasses
<1>3. PICK from, type : Handling(from, type)
  BY DEF HandlePublish, HandleAck, HandleSuback, HandlePuback, HandlePubrel, HandleDisconnect
<1>4. SessionKeeps /\ received' = received /\ client \in ClientType
  BY <1>1, <1>3, HandlingKeeps
<1>5. ClientKeeps
  <2>1. client' = client \/ \E S : client' = [client EXCEPT !.waitedPub = S]
        \/ (\E M : client' = [client EXCEPT !.waitedSub = M])
        \/ client' = [client EXCEPT !.status = "Disconnected"]
    BY DEF HandlePublish, HandleAck, HandleSuback, HandlePuback, HandlePubrel, HandleDisconnect, Answer
  <2>2. \/ client' = client
        \/ client'.ids = client.ids /\ client'.status \in {client.status, "Disconnected", "Connecting"}
    BY <1>4, <2>1 DEF ClientType
  <2> QED BY <1>4, <2>2, ClientStaysItself
<1> QED BY <1>2, <1>4, <1>5, GatewayPasses

(* The client becomes active: no command is left behind the CONNACK, and   *)
(* nothing is subscribed yet.                                              *)
LEMMA HandleConnackKeeps ==
  ASSUME Sound, Aside, HandleConnack
  PROVE  PhaseInv' /\ CommandInv'
<1>1. Handling("broker", "CONNACK") /\ TypeInv
  BY DEF HandleConnack, Sound
<1>2. /\ Passes({"-"}, {"-"}) /\ SessionKeeps /\ received' = received /\ UNCHANGED broker
      /\ client \in ClientType
  BY <1>1, FromBrokerPasses, HandlingKeeps
<1>3. {"-"} \in SUBSET AnswerKinds /\ {"-"} \cap Given = {}
  BY DEF AnswerKinds, Given
<1>4. ASSUME Orderly PROVE KnownInv'
  <2>1. Packet \in Connack /\ Kind(Packet) \in Connacks
    BY <1>1, HandlingType, BrokerKinds DEF Kind, Connacks, Connack
  <2>2. /\ packetQ # <<>> /\ packetQ \in Seq(GatewayEvent) /\ Head(packetQ).from = "broker"
        /\ Packet = Head(packetQ).packet /\ packetQ' = Tail(packetQ) /\ fromBroker' = fromBroker
    BY <1>1, Queues DEF Handling, Packet, brokerVars
  <2>3. /\ ToldIn # <<>> /\ Head(ToldIn) = Kind(Packet) /\ ToldIn' = Tail(ToldIn) /\ ToldOut' = ToldOut
    BY <2>2, EventKindsMove DEF ToldIn, ToldOut
  <2>4. /\ ToldInOrder(Connacks, {"PUBLISH"}) /\ (Telling(Connacks) => broker.subs = {}) /\ KnownInv
    BY <1>4 DEF Sound, CommandInv, ConnectInv
  <2>5. ~Has(ToldIn', {"PUBLISH"}) /\ ~Has(ToldOut', {"PUBLISH"})
    BY <1>1, <2>1, <2>3, <2>4, Ways, BehindTheFirst DEF ToldInOrder
  <2>6. Telling(Connacks)
    BY <1>1, <2>1, <2>3, Ways, TailKinds DEF Telling, Anywhere
  <2>7. broker'.subs = {}
    BY <1>2, <2>4, <2>6
  <2>8. Coming' = {}
    <3>1. packetQ' \in Seq(GatewayEvent) /\ fromBroker' \in Seq(AnyPacket)
      BY <1>1, <2>2, Queues, Taken
    <3>2. ASSUME NEW p \in EventsOf("broker", packetQ'), p.type = "PUBLISH" PROVE FALSE
      BY <2>5, <3>1, <3>2, HasEvents DEF ToldIn, Kind
    <3>3. ASSUME NEW p \in Held(fromBroker'), p.type = "PUBLISH" PROVE FALSE
      BY <2>5, <3>1, <3>3, HasHeld DEF ToldOut, Kind
    <3> QED BY <3>2, <3>3 DEF Coming, FromSet
  <2>9. client'.ids = client.ids
    BY <1>2 DEF HandleConnack, Answer, ClientType
  <2>10. \A t \in Subscribing' : client'.ids[t] # 0
    BY <1>2, <2>4, <2>9, ClientIsThere DEF KnownInv, Passes
  <2> QED BY <2>7, <2>8, <2>10 DEF KnownInv
<1> QED BY <1>2, <1>3, <1>4, GatewayKeeps DEF Passes

(* The gateway acknowledges no command itself, if nothing is out of order. *)
LEMMA HandleCommandKeeps ==
  ASSUME Sound, Aside, HandleCommand
  PROVE  PhaseInv' /\ CommandInv'
<1>1. Handling("broker", "PUBLISH") /\ TypeInv
  BY DEF HandleCommand, Sound
<1>2. /\ SessionKeeps /\ received' = received /\ UNCHANGED broker
      /\ client \in ClientType /\ client # None
  BY <1>1, HandlingKeeps
<1>3. client' = client
  BY DEF HandleCommand, Answer
<1>4. ClientKeeps
  BY <1>3 DEF ClientKeeps
<1>5. {"-"} \in SUBSET AnswerKinds /\ {"-"} \cap Given = {}
  BY DEF AnswerKinds, Given
<1>6. /\ Telling({"PUBLISH"})
      /\ \/ Passes({"-"}, {"-"})
         \/ client.status = "Active" /\ \E t \in Coming : client.ids[t] = 0
      /\ AskKeeps({"-", "PUBACK", "PUBREC"}) /\ TellKeeps({"-"})
  BY <1>1, CommandPasses
<1>7. CASE Passes({"-"}, {"-"})
  BY <1>2, <1>4, <1>5, <1>7, GatewayPasses
<1>8. CASE client.status = "Active" /\ \E t \in Coming : client.ids[t] = 0
  <2>1. ~Orderly
    BY <1>2, <1>6, <1>8 DEF Sound, CommandInv, KnownInv
  <2>2. /\ (Punctual' => Punctual) /\ (Orderly' => Orderly) /\ (Before' <=> Before)
        /\ owed' = owed /\ table' = table /\ UNCHANGED scenario
    BY AsideKeeps DEF Aside
  <2>3. Punctual /\ Before /\ Pico => FALSE
    BY <1>6 DEF Sound, PhaseInv
  <2>4. AskAdds({"-", "PUBACK", "PUBREC"}) /\ TellAdds({"-"})
    BY <1>6, KeepsAdds
  <2>5. {"-", "PUBACK", "PUBREC"} \cap Requests = {} /\ {"-"} \cap Given = {}
    BY DEF Requests, Given
  <2>6. PhaseInv'
    BY <2>2, <2>3, <2>4, <2>5, PhaseKept DEF Sound
  <2> QED BY <2>1, <2>2, <2>6 DEF CommandInv
<1> QED BY <1>6, <1>7, <1>8

(* A new connection: nothing of the session before is left on either way.  *)
LEMMA SendConnectKeeps ==
  ASSUME Sound, Aside, BrokerSendTask, SendConnect
  PROVE  PhaseInv' /\ CommandInv'
<1>1. /\ TypeInv /\ brokerQ # <<>> /\ Head(brokerQ).type = "CONNECT" /\ brokerQ' = Tail(brokerQ)
      /\ UNCHANGED <<up, down, packetQ, commands, published, received>>
  BY DEF Sound, BrokerSendTask, SendConnect, TakeConnect
<1>2. /\ AskKeeps({"-"}) /\ AckMids' \subseteq AckMids /\ Subscribing' \subseteq Subscribing
      /\ AskedOut' = Tail(AskedOut) /\ AskedIn' = AskedIn /\ AskedUp' = AskedUp
      /\ AskedOut # <<>> /\ Head(AskedOut) = "CONNECT"
  BY <1>1, AskedIsSent, QueueKinds DEF Kind
<1>3. PICK ok \in BOOLEAN : TakeConnect(ok)
  BY DEF SendConnect
<1>4. client' = client \/ client' = Connecting
  BY DEF SendConnect
<1>5. broker'.subs = {} /\ broker'.inflight = {} /\ broker'.lastMid = 0
  BY <1>3 DEF TakeConnect, NoSession
<1> DEFINE x == [type |-> "CONNACK", ok |-> ok]
<1>6. /\ x \in FromBroker /\ EOF \in FromBroker /\ x.type = "CONNACK" /\ EOF.type = "EOF"
      /\ Kind(x) \in Connacks /\ Kind(EOF) = "EOF"
  BY DEF FromBroker, BrokerPacket, Connack, EOF, Kind, Connacks
<1> HIDE DEF x
<1>7. /\ <<x>> \in Seq(AnyPacket) /\ EOF \in AnyPacket /\ Kind(x) \in KindSet /\ "EOF" \in KindSet
      /\ fromBroker' = <<x>> \/ fromBroker' = Append(<<x>>, EOF)
  <2>1. fromBroker' = <<x>> \o (IF ok THEN <<>> ELSE <<EOF>>)
    BY <1>3 DEF TakeConnect, x
  <2>2. <<x>> \in Seq(AnyPacket) /\ EOF \in AnyPacket /\ Kind(x) \in KindSet
    BY <1>6, KindType, Few DEF AnyPacket
  <2>3. <<x>> \o <<>> = <<x>>
    BY <2>2, ConcatEmptySeq
  <2>4. <<x>> \o <<EOF>> = Append(<<x>>, EOF)
    BY <2>2, AppendIsConcat
  <2> QED BY <2>1, <2>2, <2>3, <2>4 DEF KindSet
<1>8. /\ Held(fromBroker') \subseteq {x, EOF}
      /\ ToldOut' = <<Kind(x)>> \/ ToldOut' = Append(<<Kind(x)>>, "EOF")
  <2>1. Held(<<x>>) = {x} /\ Kinds(<<x>>) = <<Kind(x)>>
    BY <1>6, HeldFew DEF Kinds, Through, AnyPacket
  <2>2. Held(Append(<<x>>, EOF)) \subseteq {x, EOF} /\ Kinds(Append(<<x>>, EOF)) = Append(<<Kind(x)>>, "EOF")
    <3> DEFINE z == <<x>>
    <3>1. z \in Seq(AnyPacket) /\ Held(z) = {x} /\ Kinds(z) = <<Kind(x)>>
      BY <1>7, <2>1
    <3> HIDE DEF z
    <3>2. Held(Append(z, EOF)) \subseteq Held(z) \cup {EOF}
      BY <3>1, HeldMoves
    <3>3. Kinds(Append(z, EOF)) = Append(Kinds(z), Kind(EOF))
      BY <1>7, <3>1, KindsMove
    <3>4. Held(Append(z, EOF)) \subseteq {x, EOF} /\ Kinds(Append(z, EOF)) = Append(<<Kind(x)>>, "EOF")
      BY <1>6, <3>1, <3>2, <3>3
    <3> QED BY <3>4 DEF z
  <2> QED BY <1>7, <2>1, <2>2 DEF ToldOut
<1>9. /\ ~Has(ToldOut', Given) /\ ~Has(ToldOut', {"PUBLISH"})
      /\ NoneAfter(ToldOut', Connacks, Connacks) /\ NoneAfter(ToldOut', Connacks, {"PUBLISH"})
      /\ \A A : Has(ToldOut', A) => Kind(x) \in A \/ "EOF" \in A
  <2> DEFINE y == Kind(x)
  <2>1. y \notin Given /\ "EOF" \notin Given /\ y # "PUBLISH" /\ "EOF" \notin Connacks
    BY <1>6 DEF Given, Connacks
  <2>2. y \in KindSet /\ "EOF" \in KindSet /\ (ToldOut' = <<y>> \/ ToldOut' = Append(<<y>>, "EOF"))
    BY <1>7, <1>8
  <2> HIDE DEF y
  <2>3. <<y>> \in Seq(KindSet) /\ \A A, B : (Has(<<y>>, A) <=> y \in A) /\ NoneAfter(<<y>>, A, B)
    BY <2>2, OneKind
  <2>4. /\ \A A : Has(Append(<<y>>, "EOF"), A) <=> Has(<<y>>, A) \/ "EOF" \in A
        /\ \A A, B : NoneAfter(<<y>>, A, B) /\ ~(Has(<<y>>, A) /\ "EOF" \in B)
                       => NoneAfter(Append(<<y>>, "EOF"), A, B)
    BY <2>2, <2>3, AddedKind
  <2>5. \A A : Has(ToldOut', A) => y \in A \/ "EOF" \in A
    BY <2>2, <2>3, <2>4
  <2>6. \A A, B : "EOF" \notin B => NoneAfter(ToldOut', A, B)
    BY <2>2, <2>3, <2>4
  <2> QED BY <2>1, <2>5, <2>6 DEF y
<1>10. ToldDown' = ToldDown /\ ToldIn' = ToldIn
  BY <1>1 DEF ToldDown, ToldIn
<1>11. ToldCmds' \subseteq ToldCmds /\ Coming' \subseteq Coming
  <2>1. ToldSet' \subseteq ToldSet \cup {x, EOF} /\ FromSet' \subseteq FromSet \cup {x, EOF}
    BY <1>1, <1>8 DEF ToldSet, FromSet
  <2> QED BY <1>6, <2>1 DEF ToldCmds, Coming
<1>12. TellAdds(Connacks \cup {"EOF"})
  <2>1. SUFFICES ASSUME NEW A, A \cap (Connacks \cup {"EOF"}) = {}, Has(ToldOut', A) PROVE FALSE
    BY <1>10 DEF TellAdds, Telling, Anywhere
  <2>2. Kind(x) \notin A /\ "EOF" \notin A
    BY <1>6, <2>1
  <2> QED BY <1>9, <2>1, <2>2
<1>13. /\ (Punctual' => Punctual) /\ (Orderly' => Orderly)
       /\ (Before' <=> Before) /\ (Awaiting' <=> Awaiting) /\ (Past' <=> Past)
       /\ owed' = owed /\ table' = table /\ Got' = Got /\ OwedMids' = OwedMids
       /\ UNCHANGED scenario /\ (Pico' <=> Pico)
  BY AsideKeeps DEF Aside
<1>14. PhaseInv'
  <2>1. AskAdds({"-"})
    BY <1>2, KeepsAdds
  <2>2. /\ {"-"} \cap Requests = {} /\ (Connacks \cup {"EOF"}) \cap Given = {}
        /\ {"-"} \cap CmdAcks = {} /\ "PUBLISH" \notin Connacks \cup {"EOF"}
    BY DEF Requests, Given, CmdAcks, Connacks
  <2>3. broker'.subs \subseteq broker.subs
    BY <1>5
  <2> QED BY <1>12, <1>13, <2>1, <2>2, <2>3, PhaseKept DEF Sound
<1>15. ASSUME Orderly
       PROVE  ConnectInv' /\ SubscribeInv' /\ KnownInv' /\ AgreeInv'
  <2>1. /\ AskedInOrder({"CONNECT"}, {"CONNECT"})
        /\ Asking({"CONNECT"}) => ~Telling(Connacks)
        /\ Asking({"CONNECT"}) => Awaiting
        /\ KnownInv /\ AgreeInv
    BY <1>15 DEF Sound, CommandInv, ConnectInv
  <2>2. Asking({"CONNECT"})
    BY <1>1, <1>2, Ways, TailKinds DEF Asking, Anywhere
  <2>3. Awaiting /\ Before /\ ~Past /\ ~Telling(Connacks)
    BY <1>1, <2>1, <2>2, Phases
  <2>4. /\ ~Anywhere(AskedOut', AskedIn', AskedUp', {"CONNECT"})
        /\ NoneBehind(AskedOut', AskedIn', AskedUp', {"CONNECT"}, {"CONNECT"})
    <3>1. ~Anywhere(Tail(AskedOut), AskedIn, AskedUp, {"CONNECT"})
      BY <1>1, <1>2, <2>1, Ways, BehindTheFirst DEF AskedInOrder
    <3> QED BY <1>2, <3>1, NoneWithout
  <2>5. /\ NoneBehind(ToldDown', ToldIn', ToldOut', Connacks, Connacks)
        /\ NoneBehind(ToldDown', ToldIn', ToldOut', Connacks, {"PUBLISH"})
    <3>1. ~Has(ToldDown', Connacks) /\ ~Has(ToldIn', Connacks)
      BY <1>10, <2>3 DEF Telling, Anywhere
    <3> QED BY <1>9, <3>1 DEF NoneBehind, NoneAfter, Has
  <2>6. ConnectInv'
    BY <1>5, <1>13, <2>3, <2>4, <2>5
       DEF ConnectInv, Asking, Telling, AskedInOrder, ToldInOrder, Connacks
  <2>7. /\ ~Asking(Requests) /\ (Pico => ~Asking(CmdAcks) /\ ~Telling({"PUBLISH"}))
    BY <1>1, <1>15, <2>3, Phases DEF Sound, PhaseInv
  <2>8. /\ ~Anywhere(AskedOut', AskedIn', AskedUp', {"SUBSCRIBE"})
        /\ Pico => /\ ~Anywhere(AskedOut', AskedIn', AskedUp', CmdAcks)
                   /\ ~Anywhere(ToldDown', ToldIn', ToldOut', {"PUBLISH"})
    <3>1. ~Asking({"SUBSCRIBE"})
      BY <2>7 DEF Asking, Anywhere, Has, Requests
    <3>2. {"SUBSCRIBE"} \cap {"-"} = {} /\ CmdAcks \cap {"-"} = {}
      BY DEF CmdAcks
    <3>3. /\ ~Anywhere(AskedOut', AskedIn', AskedUp', {"SUBSCRIBE"})
          /\ Pico => ~Anywhere(AskedOut', AskedIn', AskedUp', CmdAcks)
      BY <1>2, <2>7, <3>1, <3>2, KeepsAdds DEF AskAdds
    <3>4. Pico => ~Anywhere(ToldDown', ToldIn', ToldOut', {"PUBLISH"})
      BY <1>9, <1>10, <2>7 DEF Telling, Anywhere
    <3> QED BY <3>3, <3>4
  <2>9. SubscribeInv'
    <3>1. NoneBehind(AskedOut', AskedIn', AskedUp', {"SUBSCRIBE"}, CmdAcks)
      BY <2>8, NoneWithout
    <3> QED BY <1>13, <2>3, <2>8, <3>1 DEF SubscribeInv, Asking, Telling, AskedInOrder, CmdAcks
  <2>10. KnownInv'
    <3>1. client \in ClientType
      BY <1>1 DEF TypeInv, GatewayOK
    <3>2. ClientKeeps
      BY <1>4, <3>1, ClientStaysItself DEF Connecting, ClientType
    <3> QED BY <1>1, <1>2, <1>5, <1>11, <2>1, <3>2, KnownKept
  <2>11. AgreeInv'
    <3>1. Settling' \subseteq Settling /\ Got \subseteq Got'
      BY <1>2, <1>13 DEF Settling
    <3> QED BY <1>1, <1>5, <1>11, <2>1, <3>1, AgreeKept
  <2> QED BY <2>6, <2>9, <2>10, <2>11
<1> QED BY <1>13, <1>14, <1>15 DEF CommandInv

LEMMA BrokerIsTyped ==
  ASSUME TypeInv
  PROVE  /\ broker \in BrokerType /\ (link # "open" => broker = NoSession)
         /\ NoSession.subs = {} /\ NoSession.inflight = {}
         /\ client # None => client \in ClientType
BY DEF TypeInv, GatewayOK, NoSession

(* What the broker gets as an acknowledgement stands for a command seen.   *)
LEMMA TakingPacket ==
  ASSUME Sound, brokerQ # <<>>, TakePacket(Head(brokerQ))
  PROVE  /\ Orderly => received' \subseteq received \cup Got
         /\ Head(brokerQ).type # "SUBSCRIBE" => SessionKeeps
         /\ Head(brokerQ).type = "SUBSCRIBE" =>
              /\ broker'.subs = broker.subs \cup {Head(brokerQ).topic}
              /\ broker'.inflight \subseteq broker.inflight /\ broker'.lastMid = broker.lastMid
<1> DEFINE p == Head(brokerQ)
<1>1. TypeInv /\ p \in AskedSet
  BY QueueKinds DEF Sound
<1>2. broker \in BrokerType
  BY <1>1, BrokerIsTyped
<1> HIDE DEF p
<1>3. TakePacket(p)
  BY DEF p
<1>4. ASSUME Orderly PROVE received' \subseteq received \cup Got
  <2>1. \A e \in broker.inflight : Arrived(e, p) => e.cmd \in Got
    <3>1. SUFFICES ASSUME NEW e \in broker.inflight, e.mid = p.mid, p.type \in CmdAcks
                   PROVE  e.cmd \in Got
      BY DEF Arrived, CmdAcks
    <3>2. p.mid \in Settling
      BY <1>1, <3>1 DEF AckMids, Settling
    <3> QED BY <1>4, <3>1, <3>2 DEF Sound, CommandInv, AgreeInv
  <2> QED BY <1>3, <2>1 DEF TakePacket
<1>5. /\ broker'.subs = IF p.type = "SUBSCRIBE" THEN broker.subs \cup {p.topic} ELSE broker.subs
      /\ broker'.inflight = {e \in broker.inflight : ~Settles(e, p)}
      /\ broker'.lastMid = broker.lastMid /\ link' = link
  BY <1>2, <1>3 DEF TakePacket, BrokerType
<1>6. p.type # "SUBSCRIBE" => SessionKeeps
  BY <1>5 DEF SessionKeeps
<1> QED BY <1>4, <1>5, <1>6 DEF p

(* The first subscription of a session.                                    *)
LEMMA SubscribeTaken ==
  ASSUME Sound, Aside, brokerQ # <<>>, Head(brokerQ).type = "SUBSCRIBE", link = "open",
         SendPacket, TakePacket(Head(brokerQ)), brokerQ' = Tail(brokerQ),
         UNCHANGED <<up, down, packetQ, client>>
  PROVE  PhaseInv' /\ CommandInv'
<1> DEFINE nt == {"-", "EOF", "SUBACK", "PUBACK", "PUBREL", "DISCONNECT"}
<1>1. /\ nt \in SUBSET AnswerKinds /\ nt \cap (Connacks \cup {"PUBLISH"}) = {}
      /\ {"-", "EOF", "PUBACK", "PUBREL", "DISCONNECT"} \subseteq nt /\ "SUBACK" \in nt
  BY DEF AnswerKinds, Connacks
<1> HIDE DEF nt
<1>2. TypeInv /\ Passes({"-"}, nt)
  BY <1>1, SendPacketPasses DEF Sound
<1>3. /\ Orderly => received' \subseteq received \cup Got
      /\ broker'.subs = broker.subs \cup {Head(brokerQ).topic}
      /\ broker'.inflight \subseteq broker.inflight /\ broker'.lastMid = broker.lastMid
  BY TakingPacket
<1>4. /\ (Punctual' => Punctual) /\ (Orderly' => Orderly)
      /\ (Before' <=> Before) /\ (Awaiting' <=> Awaiting) /\ (Past' <=> Past)
      /\ owed' = owed /\ table' = table /\ Got' = Got /\ OwedMids' = OwedMids
      /\ UNCHANGED scenario
  BY AsideKeeps DEF Aside
<1>5. /\ AskedOut # <<>> /\ Head(AskedOut) = "SUBSCRIBE" /\ Head(brokerQ).topic \in Subscribing
      /\ AskedOut' = Tail(AskedOut) /\ AskedIn' = AskedIn /\ AskedUp' = AskedUp
  <2>1. Kind(Head(brokerQ)) = "SUBSCRIBE"
    BY DEF Kind
  <2>2. Head(brokerQ).topic \in Subscribing
    BY <1>2, QueueKinds DEF Subscribing
  <2> QED BY <1>2, <2>1, <2>2, QueueKinds, AskedIsSent
<1>6. Asking({"SUBSCRIBE"}) /\ Asking(Requests)
  <2>1. \A A : "SUBSCRIBE" \in A => Has(AskedOut, A)
    BY <1>2, <1>5, Ways, TailKinds
  <2> QED BY <2>1 DEF Asking, Anywhere, Requests
<1>7. Punctual => ~Before
  BY <1>6 DEF Sound, PhaseInv
<1>8. PhaseInv'
  <2>1. AskAdds({"-"}) /\ TellAdds(nt)
    BY <1>2, KeepsAdds DEF Passes
  <2> QED BY <1>4, <1>7, <2>1, PhaseKept DEF Sound
<1>9. ASSUME Orderly
      PROVE  ConnectInv' /\ SubscribeInv' /\ KnownInv' /\ AgreeInv'
  <2>1. ConnectInv /\ SubscribeInv /\ KnownInv /\ AgreeInv /\ Past /\ ~Awaiting
    BY <1>2, <1>7, <1>9, Phases DEF Sound, CommandInv
  <2>2. ConnectInv'
    <3>1. ~Telling(Connacks) /\ "CONNECT" \notin {"-"}
      BY <2>1 DEF ConnectInv
    <3> QED BY <1>1, <1>2, <1>4, <2>1, <3>1, ConnectKept DEF Passes
  <2>3. SubscribeInv'
    BY <1>3 DEF SubscribeInv
  <2>4. KnownInv'
    BY <1>2, <1>3, <1>5, <2>1 DEF KnownInv, Passes
  <2>5. ASSUME broker.subs = {} PROVE ToldCmds = {} /\ AckMids' = {} /\ OwedMids = {}
    <3>1. /\ ~Telling({"PUBLISH"}) /\ AskedInOrder({"SUBSCRIBE"}, CmdAcks)
          /\ owed.puback = 0 /\ owed.pubrec = 0
      BY <1>6, <2>1, <2>5 DEF SubscribeInv
    <3>2. ToldCmds = {}
      <4>1. ASSUME NEW p \in ToldSet, p.type = "PUBLISH" PROVE FALSE
        BY <1>2, <3>1, <4>1, Ways DEF Kind
      <4> QED BY <4>1 DEF ToldCmds
    <3>3. ~Has(AskedOut', CmdAcks) /\ ~Has(AskedIn, CmdAcks) /\ ~Has(AskedUp, CmdAcks)
      BY <1>2, <1>5, <3>1, Ways, BehindTheFirst DEF AskedInOrder, Anywhere
    <3>4. AckMids' = {}
      <4>1. ASSUME NEW p, p.type \in CmdAcks PROVE Kind(p) \in CmdAcks
        BY <4>1 DEF CmdAcks, Kind
      <4>2. brokerQ' \in Seq(AnyPacket) /\ up \in Seq(AnyPacket) /\ packetQ \in Seq(GatewayEvent)
        BY <1>2, Queues
      <4>3. \A p \in Held(brokerQ') : p.type \notin CmdAcks
        BY <3>3, <4>1, <4>2, HasHeld DEF AskedOut
      <4>4. \A p \in Held(up) : p.type \notin CmdAcks
        BY <3>3, <4>1, <4>2, HasHeld DEF AskedUp
      <4>5. \A p \in EventsOf("client", packetQ) : p.type \notin CmdAcks
        <5>1. "-" \notin CmdAcks
          BY DEF CmdAcks
        <5> QED BY <3>3, <4>1, <4>2, <5>1, HasEvents DEF AskedIn
      <4> QED BY <4>3, <4>4, <4>5 DEF AckMids, AskedSet
    <3>5. OwedMids = {}
      BY <3>1 DEF OwedMids
    <3> QED BY <3>2, <3>4, <3>5
  <2>6. ToldCmds' \subseteq ToldCmds /\ Settling' \subseteq Settling /\ Settling' = AckMids' \cup OwedMids
    BY <1>2, <1>4 DEF Passes, Settling
  <2>7. /\ \A c \in ToldCmds', e \in broker'.inflight : e.mid = c.mid => e.cmd = c.cmd
        /\ \A k \in Settling', e \in broker'.inflight : e.mid = k => e.cmd \in Got'
        /\ \A e \in broker'.inflight : e.mid <= broker'.lastMid
        /\ received' \subseteq Got'
    BY <1>3, <1>4, <1>9, <2>1, <2>6 DEF AgreeInv
  <2>8. /\ \A c \in ToldCmds' : c.mid <= broker'.lastMid
        /\ \A k \in Settling' : k <= broker'.lastMid
    <3>1. CASE broker.subs = {}
      BY <2>5, <2>6, <3>1
    <3>2. CASE broker.subs # {}
      BY <1>3, <2>1, <2>6, <3>2 DEF AgreeInv
    <3> QED BY <3>1, <3>2
  <2>9. AgreeInv'
    BY <2>7, <2>8 DEF AgreeInv
  <2> QED BY <2>2, <2>3, <2>4, <2>9
<1> QED BY <1>4, <1>8, <1>9 DEF CommandInv

LEMMA SendPacketKeeps ==
  ASSUME Sound, Aside, BrokerSendTask, SendPacket
  PROVE  PhaseInv' /\ CommandInv'
<1>1. /\ TypeInv /\ brokerQ # <<>> /\ brokerQ' = Tail(brokerQ)
      /\ UNCHANGED <<up, down, client>>
  BY DEF Sound, BrokerSendTask, SendPacket
<1>2. ClientKeeps
  BY <1>1 DEF ClientKeeps
<1>3. \/ CloseByBroker
      \/ link = "open" /\ TakePacket(Head(brokerQ)) /\ UNCHANGED packetQ
      \/ UNCHANGED brokerVars
      \/ link = "closed" /\ link' = "none" /\ UNCHANGED <<broker, received>>
  BY DEF SendPacket
<1>4. CASE link = "open" /\ TakePacket(Head(brokerQ)) /\ UNCHANGED packetQ
           /\ Head(brokerQ).type = "SUBSCRIBE"
  BY <1>1, <1>4, SubscribeTaken
<1>5. ASSUME SessionKeeps, Orderly => received' \subseteq received \cup Got
      PROVE  PhaseInv' /\ CommandInv'
  <2>1. CASE Head(brokerQ).type = "SUBSCRIBE"
    <3> DEFINE nt == {"-", "EOF", "SUBACK", "PUBACK", "PUBREL", "DISCONNECT"}
    <3>1. /\ nt \in SUBSET AnswerKinds
          /\ {"-", "EOF", "PUBACK", "PUBREL", "DISCONNECT"} \subseteq nt /\ "SUBACK" \in nt
      BY DEF AnswerKinds
    <3> HIDE DEF nt
    <3>2. Passes({"-"}, nt)
      BY <1>1, <3>1, SendPacketPasses
    <3>3. Asking(Requests)
      <4>1. Kind(Head(brokerQ)) \in Requests
        BY <2>1 DEF Kind, Requests
      <4> QED BY <1>1, <4>1, QueueKinds, Ways, TailKinds DEF Asking, Anywhere
    <3>4. Punctual => ~Before
      BY <3>3 DEF Sound, PhaseInv
    <3> QED BY <1>2, <1>5, <3>1, <3>2, <3>4, GatewayPasses
  <2>2. CASE Head(brokerQ).type # "SUBSCRIBE"
    <3> DEFINE nt == {"-", "EOF", "PUBACK", "PUBREL", "DISCONNECT"}
    <3>1. /\ nt \in SUBSET AnswerKinds /\ nt \cap Given = {}
          /\ {"-", "EOF", "PUBACK", "PUBREL", "DISCONNECT"} \subseteq nt
      BY DEF AnswerKinds, Given
    <3> HIDE DEF nt
    <3>2. Passes({"-"}, nt)
      BY <1>1, <2>2, <3>1, SendPacketPasses
    <3> QED BY <1>2, <1>5, <3>1, <3>2, GatewayPasses
  <2> QED BY <2>1, <2>2
<1>6. CASE link = "open" /\ TakePacket(Head(brokerQ)) /\ Head(brokerQ).type # "SUBSCRIBE"
  BY <1>1, <1>5, <1>6, TakingPacket
<1>7. CASE CloseByBroker
  BY <1>5, <1>7 DEF CloseByBroker, SessionKeeps, NoSession
<1>8. CASE UNCHANGED brokerVars
  BY <1>5, <1>8, BrokerVarsKeep
<1>9. CASE link = "closed" /\ link' = "none" /\ UNCHANGED <<broker, received>>
  BY <1>1, <1>5, <1>9, BrokerIsTyped DEF SessionKeeps
<1> QED BY <1>3, <1>4, <1>6, <1>7, <1>8, <1>9

LEMMA NothingNew ==
  /\ {"-"} \in SUBSET AnswerKinds /\ {"-"} \cap Given = {}
  /\ {"-", "EOF"} \in SUBSET AnswerKinds /\ {"-", "EOF"} \cap Given = {}
BY DEF AnswerKinds, Given

LEMMA SendFailsKeeps ==
  ASSUME Sound, Aside, BrokerSendTask, SendFails
  PROVE  PhaseInv' /\ CommandInv'
<1>1. /\ TypeInv /\ brokerQ # <<>> /\ brokerQ' = Tail(brokerQ)
      /\ UNCHANGED <<up, down, packetQ, client, received>>
      /\ fromBroker' = <<>> /\ link' = "none" /\ broker' = NoSession
  BY DEF Sound, BrokerSendTask, SendFails
<1>2. Passes({"-"}, {"-"})
  BY <1>1, AskedIsSent, BrokerTells DEF Passes
<1>3. SessionKeeps /\ ClientKeeps
  BY <1>1 DEF SessionKeeps, NoSession, ClientKeeps
<1> QED BY <1>1, <1>2, <1>3, NothingNew, GatewayPasses

LEMMA SessionEnds ==
  ASSUME TypeInv, UNCHANGED <<up, down, packetQ, brokerQ>>,
         \/ fromBroker' = fromBroker \/ fromBroker' = <<>> \/ fromBroker' = Append(fromBroker, EOF)
  PROVE  Passes({"-"}, {"-", "EOF"})
<1>1. AskKeeps({"-"}) /\ AckMids' \subseteq AckMids /\ Subscribing' \subseteq Subscribing
  BY AskedIsKept
<1>2. EOF \in FromBroker /\ Kind(EOF) = "EOF" /\ EOF.type # "PUBLISH"
  BY DEF EOF, FromBroker, Kind
<1> DEFINE x == EOF
<1>3. /\ x \in FromBroker /\ Kind(x) \in {"-", "EOF"} /\ x.type # "PUBLISH"
      /\ \/ fromBroker' = fromBroker \/ fromBroker' = <<>> \/ fromBroker' = Append(fromBroker, x)
  BY <1>2
<1> HIDE DEF x
<1>4. TellKeeps({"-", "EOF"}) /\ ToldCmds' \subseteq ToldCmds /\ Coming' \subseteq Coming
  BY <1>3, BrokerTells
<1> QED BY <1>1, <1>4 DEF Passes

LEMMA OtherGatewayKeeps ==
  ASSUME Sound, Aside,
         ConnectSended \/ BrokerRecvTask \/ BrokerRecvClose \/ BrokerDrops
  PROVE  PhaseInv' /\ CommandInv'
<1>0. TypeInv
  BY DEF Sound
<1>1. CASE ConnectSended
  <2>1. UNCHANGED <<up, down, packetQ, brokerQ, brokerVars, fromBroker>> /\ client' = Connecting
    BY <1>1 DEF ConnectSended, netVars, brokerVars
  <2>2. client \in ClientType
    BY <1>0, <1>1 DEF TypeInv, GatewayOK, ConnectSended
  <2>3. ClientKeeps
    BY <2>1, <2>2, ClientStaysItself DEF Connecting, ClientType
  <2> QED BY <1>0, <2>1, <2>3, SessionEnds, BrokerVarsKeep, NothingNew, GatewayPasses
<1>2. CASE ReadPacket
  <2>1. SessionKeeps /\ ClientKeeps /\ received' = received
    BY <1>2 DEF ReadPacket, SessionKeeps, ClientKeeps
  <2> QED BY <1>0, <1>2, <2>1, ReadPacketPasses, NothingNew, GatewayPasses
<1>3. ASSUME UNCHANGED <<up, down, packetQ, brokerQ, received>>, fromBroker' = <<>>, client \in ClientType,
             \/ UNCHANGED <<client, link, broker>>
             \/ link' = "none" /\ broker' = NoSession /\ client' = [client EXCEPT !.status = "Disconnected"]
      PROVE  PhaseInv' /\ CommandInv'
  <2>1. Passes({"-"}, {"-", "EOF"})
    BY <1>0, <1>3, SessionEnds
  <2>2. SessionKeeps
    BY <1>3 DEF SessionKeeps, NoSession
  <2>3. ClientKeeps
    BY <1>3, ClientStaysItself DEF ClientType
  <2> QED BY <1>3, <2>1, <2>2, <2>3, NothingNew, GatewayPasses
<1>4. CASE ReadEof
  <2>1. client \in ClientType
    BY <1>0, <1>4 DEF TypeInv, GatewayOK, ReadEof
  <2> QED BY <1>3, <1>4, <2>1 DEF ReadEof, CloseAndDisconnect
<1>5. CASE BrokerRecvClose
  <2>1. client \in ClientType
    BY <1>0, <1>5 DEF TypeInv, GatewayOK, BrokerRecvClose
  <2> QED BY <1>3, <1>5, <2>1 DEF BrokerRecvClose, CloseAndDisconnect
<1>6. CASE BrokerDrops
  <2>1. /\ UNCHANGED <<up, down, packetQ, brokerQ, received, client>>
        /\ fromBroker' = Append(fromBroker, EOF) /\ link' = "closed" /\ broker' = NoSession
    BY <1>6 DEF BrokerDrops, CloseByBroker, pahoVars
  <2>2. Passes({"-"}, {"-", "EOF"})
    BY <1>0, <2>1, SessionEnds
  <2>3. SessionKeeps /\ ClientKeeps
    BY <2>1 DEF SessionKeeps, NoSession, ClientKeeps
  <2> QED BY <2>1, <2>2, <2>3, NothingNew, GatewayPasses
<1> QED BY <1>1, <1>2, <1>4, <1>5, <1>6 DEF BrokerRecvTask

LEMMA GatewayRestartKeeps ==
  ASSUME Sound, Aside, GatewayRestart
  PROVE  PhaseInv' /\ CommandInv'
<1>1. Passes({"-"}, {"-"})
  BY RestartPasses DEF Sound
<1>2. SessionKeeps /\ ClientKeeps /\ received' = received
  BY DEF GatewayRestart, SessionKeeps, NoSession, ClientKeeps
<1> QED BY <1>1, <1>2, NothingNew, GatewayPasses

(* A command for a subscription gets the next number of the session.       *)
LEMMA CommandArrivesKeeps ==
  ASSUME Sound, Aside, NEW t \in Command, CommandArrives(t)
  PROVE  PhaseInv' /\ CommandInv'
<1> DEFINE cmd == [topic |-> t, n |-> commands[t]]
           mid == broker.lastMid + 1
           p == [type |-> "PUBLISH", topic |-> t, qos |-> IF t = Cmd1 THEN 1 ELSE 2,
                 mid |-> mid, cmd |-> cmd]
           e == [mid |-> mid, cmd |-> cmd]
<1>1. /\ TypeInv /\ broker \in BrokerType
      /\ commands[t] \in Nat /\ t \in broker.subs /\ mid \in Nat /\ cmd \in Message
  <2>1. TypeInv /\ broker \in BrokerType /\ commands[t] \in Nat
    BY BrokerIsTyped DEF Sound, TypeInv, GatewayOK
  <2> QED BY <2>1, Roles DEF CommandArrives, BrokerType, Message
<1>2. /\ UNCHANGED <<up, down, packetQ, brokerQ, client, link, received>>
      /\ fromBroker' = Append(fromBroker, p)
      /\ broker' = [broker EXCEPT !.lastMid = mid, !.inflight = broker.inflight \cup {e}]
  BY DEF CommandArrives, netVars, pahoVars
<1>3. /\ p \in FromBroker /\ p \in AnyPacket /\ p.type = "PUBLISH" /\ Kind(p) = "PUBLISH"
      /\ p.topic = t /\ p.mid = mid /\ p.cmd = cmd
  BY <1>1 DEF FromBroker, AnyPacket, BrokerPacket, CommandTaken, Kind
<1> HIDE DEF p
<1>4. broker'.subs = broker.subs /\ broker'.lastMid = mid /\ broker'.inflight = broker.inflight \cup {e}
  <2> HIDE DEF mid, e
  <2> QED BY <1>1, <1>2 DEF BrokerType
<1>5. /\ ToldDown' = ToldDown /\ ToldIn' = ToldIn /\ ToldOut' = Append(ToldOut, "PUBLISH")
      /\ Held(fromBroker') \subseteq Held(fromBroker) \cup {p} /\ "PUBLISH" \in KindSet
  BY <1>1, <1>2, <1>3, QueueKinds DEF ToldDown, ToldIn, ToldOut
<1>6. TellKeeps({"PUBLISH"})
  BY <1>1, <1>5, Ways, KeepsNew DEF TellKeeps
<1>7. ToldCmds' \subseteq ToldCmds \cup {e} /\ Coming' \subseteq Coming \cup {t}
  <2>1. ToldSet' \subseteq ToldSet \cup {p} /\ FromSet' \subseteq FromSet \cup {p}
    BY <1>2, <1>5 DEF ToldSet, FromSet
  <2> QED BY <1>3, <2>1 DEF ToldCmds, Coming
<1>8. AskKeeps({"-"}) /\ AckMids' = AckMids /\ Subscribing' = Subscribing
  BY <1>2, AskedIsKept
<1>9. /\ (Punctual' => Punctual) /\ (Orderly' => Orderly)
      /\ (Before' <=> Before) /\ (Awaiting' <=> Awaiting) /\ (Past' <=> Past)
      /\ owed' = owed /\ table' = table /\ Got' = Got /\ OwedMids' = OwedMids
      /\ UNCHANGED scenario
  BY AsideKeeps DEF Aside
<1>10. PhaseInv'
  <2>1. AskAdds({"-"}) /\ TellAdds({"PUBLISH"})
    BY <1>6, <1>8, KeepsAdds
  <2>2. {"-"} \cap Requests = {} /\ {"PUBLISH"} \cap Given = {}
    BY DEF Requests, Given
  <2>3. Punctual /\ Before /\ Pico => FALSE
    BY <1>1 DEF Sound, PhaseInv
  <2> QED BY <1>9, <2>1, <2>2, <2>3, PhaseKept DEF Sound
<1>11. ASSUME Orderly
       PROVE  ConnectInv' /\ SubscribeInv' /\ KnownInv' /\ AgreeInv'
  <2>1. ConnectInv /\ KnownInv /\ AgreeInv
    BY <1>11 DEF Sound, CommandInv
  <2>2. ~Telling(Connacks) /\ broker'.subs # {}
    BY <1>1, <1>4, <2>1 DEF ConnectInv
  <2>3. ConnectInv'
    <3>1. /\ NoneBehind(AskedOut', AskedIn', AskedUp', {"CONNECT"}, {"CONNECT"})
          /\ Anywhere(AskedOut', AskedIn', AskedUp', {"CONNECT"}) => Asking({"CONNECT"})
      BY <2>1, <1>8 DEF ConnectInv, AskedInOrder, AskKeeps, Keeps, Asking
    <3>2. ~Anywhere(ToldDown', ToldIn', ToldOut', Connacks)
      <4>1. Connacks \cap {"PUBLISH"} = {}
        BY DEF Connacks
      <4> QED BY <1>6, <2>2, <4>1, KeepsAdds DEF TellAdds
    <3>3. /\ NoneBehind(ToldDown', ToldIn', ToldOut', Connacks, Connacks)
          /\ NoneBehind(ToldDown', ToldIn', ToldOut', Connacks, {"PUBLISH"})
      BY <3>2, NoneWithout
    <3> QED BY <1>9, <2>1, <3>1, <3>2, <3>3
         DEF ConnectInv, Asking, Telling, AskedInOrder, ToldInOrder, Connacks
  <2>4. SubscribeInv'
    BY <2>2 DEF SubscribeInv
  <2>5. KnownInv'
    BY <1>1, <1>2, <1>4, <1>7, <1>8, <2>1 DEF KnownInv
  <2>6. AgreeInv'
    <3>1. /\ \A c \in ToldCmds : c.mid <= broker.lastMid
          /\ \A k \in Settling : k <= broker.lastMid
          /\ \A f \in broker.inflight : f.mid <= broker.lastMid
      BY <1>1, <2>1 DEF AgreeInv
    <3>2. Settling' = Settling
      BY <1>8, <1>9 DEF Settling
    <3>3. /\ \A c \in ToldCmds : c.mid \in Nat
          /\ \A k \in Settling : k \in Nat
          /\ \A f \in broker.inflight : f.mid \in Nat
      <4>1. ToldSet \subseteq DownPacket \cup FromBroker /\ AskedSet \subseteq UpPacket \cup ToBroker
        BY <1>1, Ways
      <4>2. \A c \in ToldCmds : c.mid \in Nat
        BY <4>1, DownKinds, BrokerKinds DEF ToldCmds, FromBroker, CommandSent, CommandTaken
      <4>3. \A k \in AckMids : k \in Nat
        BY <4>1, UpKinds, ToBrokerKinds DEF AckMids, CmdAcks, Ack
      <4>4. \A k \in OwedMids : k \in Nat
        BY <1>1 DEF OwedMids, TypeInv, ArdOK
      <4>5. \A f \in broker.inflight : f.mid \in Nat
        BY <1>1 DEF BrokerType
      <4> QED BY <4>2, <4>3, <4>4, <4>5 DEF Settling
    <3>4. broker.lastMid \in Nat /\ e.mid = mid /\ e.cmd = cmd
      BY <1>1 DEF BrokerType
    <3>5. \A n \in Nat : n <= broker.lastMid => n < mid
      BY <3>4
    <3>6. \A n \in Nat : n < mid => n # mid /\ n <= mid
      BY <1>1
    <3> HIDE DEF e, mid, cmd
    <3>7. \A c \in ToldCmds', f \in broker'.inflight : f.mid = c.mid => f.cmd = c.cmd
      <4> SUFFICES ASSUME NEW c \in ToldCmds \cup {e}, NEW f \in broker.inflight \cup {e}, f.mid = c.mid
                   PROVE  f.cmd = c.cmd
        BY <1>4, <1>7
      <4>1. c \in ToldCmds => c.mid # mid
        BY <3>1, <3>3, <3>5, <3>6
      <4>2. f \in broker.inflight => f.mid # mid
        BY <3>1, <3>3, <3>5, <3>6
      <4>3. (c = e /\ f = e) \/ (c \in ToldCmds /\ f \in broker.inflight)
        BY <3>4, <4>1, <4>2
      <4> QED BY <2>1, <4>3 DEF AgreeInv
    <3>8. \A k \in Settling', f \in broker'.inflight : f.mid = k => f.cmd \in Got'
      <4> SUFFICES ASSUME NEW k \in Settling, NEW f \in broker.inflight \cup {e}, f.mid = k
                   PROVE  f.cmd \in Got
        BY <1>4, <1>9, <3>2
      <4>1. k # mid
        BY <3>1, <3>3, <3>5, <3>6
      <4> QED BY <2>1, <3>4, <4>1 DEF AgreeInv
    <3>9. /\ \A c \in ToldCmds' : c.mid <= mid
          /\ \A k \in Settling' : k <= mid
          /\ \A f \in broker'.inflight : f.mid <= mid
      BY <1>1, <1>4, <1>7, <3>1, <3>2, <3>3, <3>4, <3>5, <3>6
    <3>10. received' \subseteq Got'
      BY <1>2, <1>9, <2>1 DEF AgreeInv
    <3> QED BY <1>4, <3>7, <3>8, <3>9, <3>10 DEF AgreeInv
  <2> QED BY <2>3, <2>4, <2>5, <2>6
<1> QED BY <1>9, <1>10, <1>11 DEF CommandInv

(***************************************************************************)
(* The client's steps, which matter while none is late.                    *)
(***************************************************************************)
Onward == UNCHANGED <<scenario, gatewayVars>> /\ seen \subseteq seen'

LEMMA OnwardKeeps ==
  ASSUME Onward
  PROVE  /\ (Punctual' => Punctual) /\ (Orderly' => Orderly)
         /\ (Arduino' <=> Arduino) /\ (Pico' <=> Pico)
         /\ UNCHANGED <<scenario, client, link, broker, received, packetQ, brokerQ, fromBroker>>
         /\ Coming' = Coming /\ Subscribing' = Subscribing
         /\ (TypeInv => (Orderly' => Punctual'))
<1>1. UNCHANGED <<scenario, client, link, broker, received, packetQ, brokerQ, fromBroker>>
  BY DEF Onward, gatewayVars, pahoVars, brokerVars
<1>2. Coming' = Coming /\ Subscribing' = Subscribing
  BY <1>1 DEF Coming, Subscribing, FromSet
<1>3. (Punctual' => Punctual) /\ (Orderly' => Orderly) /\ (Orderly' => Punctual')
  BY DEF Onward, Punctual, Orderly, NeverSeen
<1>4. (Arduino' <=> Arduino) /\ (Pico' <=> Pico)
  BY <1>1 DEF Arduino, Pico
<1> QED BY <1>1, <1>2, <1>3, <1>4

LEMMA LateIsExcused ==
  ASSUME Onward, ~Punctual'
  PROVE  PhaseInv' /\ CommandInv'
<1>1. ~Orderly'
  BY DEF Punctual, Orderly, NeverSeen
<1> QED BY <1>1 DEF PhaseInv, CommandInv

LEMMA KnownStays ==
  ASSUME Onward, KnownInv
  PROVE  KnownInv'
BY OnwardKeeps DEF KnownInv

(* What most steps of the client keep.                                     *)
LEMMA ClientMoves ==
  ASSUME Sound, Onward, NEW new, AskKeeps(new), TellKeeps({}), "CONNECT" \notin new,
         Punctual => /\ Pico => owed' = owed
                     /\ Before' => Before
                     /\ Before' /\ Arduino => table' = table \/ table' = None
                     /\ Before' => new \cap Requests = {}
                     /\ Before' /\ Pico => new \cap CmdAcks = {},
         Orderly /\ Awaiting => Awaiting' \/ (~Asking({"CONNECT"}) /\ ~Telling(Connacks)),
         Orderly => SubscribeInv' /\ AgreeInv'
  PROVE  PhaseInv' /\ CommandInv'
<1>1. /\ (Punctual' => Punctual) /\ (Orderly' => Orderly) /\ UNCHANGED <<scenario, broker>>
      /\ AskAdds(new) /\ TellAdds({})
  BY OnwardKeeps, KeepsAdds
<1>2. PhaseInv'
  <2>1. Punctual /\ Before' => new \cap Requests = {} /\ {} \cap Given = {}
    OBVIOUS
  <2>2. Punctual /\ Before' /\ Pico => /\ new \cap CmdAcks = {} /\ "PUBLISH" \notin {}
                                       /\ broker'.subs \subseteq broker.subs
    BY <1>1
  <2> QED BY <1>1, <2>1, <2>2, PhaseKept DEF Sound
<1>3. ASSUME Orderly
      PROVE  ConnectInv' /\ SubscribeInv' /\ KnownInv' /\ AgreeInv'
  <2>1. ConnectInv /\ KnownInv
    BY <1>3 DEF Sound, CommandInv
  <2>2. ConnectInv'
    <3>1. {} \cap (Connacks \cup {"PUBLISH"}) = {} /\ broker'.subs \subseteq broker.subs
      BY <1>1
    <3> QED BY <1>3, <2>1, <3>1, ConnectKept
  <2> QED BY <1>3, <2>1, <2>2, KnownStays
<1> QED BY <1>1, <1>2, <1>3 DEF CommandInv

(* Nothing is acknowledged, shown or subscribed.                           *)
LEMMA OtherMoves ==
  ASSUME Sound, Onward, NEW new, AskKeeps(new), TellKeeps({}),
         new \cap (CmdAcks \cup {"CONNECT", "SUBSCRIBE"}) = {},
         Punctual => /\ Pico => owed' = owed
                     /\ Before' => Before
                     /\ Before' /\ Arduino => table' = table \/ table' = None
                     /\ Before' => new \cap Requests = {},
         Orderly /\ Awaiting => Awaiting' \/ (~Asking({"CONNECT"}) /\ ~Telling(Connacks)),
         Orderly /\ Past' => Past \/ ~Anywhere(ToldDown', ToldIn', ToldOut', {"PUBLISH"}),
         owed'.puback = owed.puback, owed'.pubrec = owed.pubrec,
         ToldCmds' \subseteq ToldCmds, AckMids' \subseteq AckMids, Got' = Got
  PROVE  PhaseInv' /\ CommandInv'
<1>1. UNCHANGED <<scenario, broker, link, received>>
  BY OnwardKeeps
<1>2. ASSUME Orderly PROVE SubscribeInv' /\ AgreeInv'
  <2>1. SubscribeInv /\ AgreeInv
    BY <1>2 DEF Sound, CommandInv
  <2>2. SubscribeInv'
    <3>1. broker'.subs = {} /\ link' = "open" =>
            /\ broker.subs = {} /\ link = "open"
            /\ new \cap (CmdAcks \cup {"SUBSCRIBE"}) = {} /\ "PUBLISH" \notin {}
            /\ Past' => Past \/ ~Anywhere(ToldDown', ToldIn', ToldOut', {"PUBLISH"})
            /\ owed'.puback \in {owed.puback, 0} /\ owed'.pubrec \in {owed.pubrec, 0}
      BY <1>1, <1>2
    <3> QED BY <1>1, <2>1, <3>1, SubscribeKept
  <2>3. AgreeInv'
    <3>1. Settling' \subseteq Settling
      BY DEF Settling, OwedMids
    <3>2. /\ broker'.inflight \subseteq broker.inflight /\ received' \subseteq received \cup Got
          /\ broker'.subs = broker.subs /\ broker'.lastMid = broker.lastMid
      BY <1>1
    <3> QED BY <2>1, <3>1, <3>2, AgreeKept
  <2> QED BY <2>2, <2>3
<1>3. "CONNECT" \notin new /\ new \cap CmdAcks = {}
  OBVIOUS
<1> QED BY <1>2, <1>3, ClientMoves

(* One more datagram, or none.                                             *)
LEMMA SendsOne ==
  ASSUME TypeInv, Onward, UNCHANGED down, NEW kind, kind \notin CmdAcks,
         up' = up \/ \E p \in UpPacket : up' = Append(up, p) /\ Kind(p) = kind
  PROVE  /\ AskKeeps({kind}) /\ TellKeeps({}) /\ ToldCmds' \subseteq ToldCmds
         /\ AckMids' \subseteq AckMids
<1>1. UNCHANGED <<packetQ, brokerQ, fromBroker>>
  BY OnwardKeeps
<1>2. TellKeeps({}) /\ ToldCmds' \subseteq ToldCmds
  BY <1>1, ToldIsKept
<1>3. CASE up' = up
  BY <1>1, <1>2, <1>3, AskedIsKept
<1>4. ASSUME NEW p \in UpPacket, up' = Append(up, p), Kind(p) = kind
      PROVE  AskKeeps({kind}) /\ AckMids' \subseteq AckMids
  <2>1. p.type \notin CmdAcks
    BY <1>4 DEF Kind, CmdAcks
  <2>2. AskKeeps({Kind(p)}) /\ AckMids' \subseteq AckMids \cup {m \in {p.mid} : p.type \in CmdAcks}
    BY <1>1, <1>4, SendingOne
  <2> QED BY <1>4, <2>1, <2>2
<1> QED BY <1>2, <1>3, <1>4

LEMMA CommandShown ==
  ASSUME AgreeInv, UNCHANGED <<broker, received>>, NEW c \in ToldCmds, ToldCmds' \subseteq ToldCmds,
         Settling' \subseteq Settling \cup {c.mid}, Got' = Got \cup {c.cmd}
  PROVE  AgreeInv'
<1>1. \A k \in Settling', e \in broker'.inflight : e.mid = k => e.cmd \in Got'
  <2> SUFFICES ASSUME NEW k \in Settling \cup {c.mid}, NEW e \in broker.inflight, e.mid = k
               PROVE  e.cmd \in Got \cup {c.cmd}
    OBVIOUS
  <2> QED BY DEF AgreeInv
<1>2. broker'.subs # {} => \A k \in Settling' : k <= broker'.lastMid
  BY DEF AgreeInv
<1>3. received' \subseteq Got'
  BY DEF AgreeInv
<1>4. /\ \A d \in ToldCmds', e \in broker'.inflight : e.mid = d.mid => e.cmd = d.cmd
      /\ broker'.subs # {} => \A d \in ToldCmds' : d.mid <= broker'.lastMid
      /\ \A e \in broker'.inflight : e.mid <= broker'.lastMid
  BY DEF AgreeInv
<1> QED BY <1>1, <1>2, <1>3, <1>4 DEF AgreeInv

(* A CONNECT: there is none under way, nor an answer to one.               *)
LEMMA ConnectsKeep ==
  ASSUME Sound, Onward, UNCHANGED <<down, owed, table>>, Got' = Got,
         SendUp([type |-> "CONNECT"]), Before, ~Awaiting, Awaiting', ~Past'
  PROVE  PhaseInv' /\ CommandInv'
<1> DEFINE p == [type |-> "CONNECT"]
<1>1. /\ (Punctual' => Punctual) /\ (Orderly' => Orderly)
      /\ UNCHANGED <<scenario, broker, link, received, packetQ, brokerQ, fromBroker>>
  BY OnwardKeeps
<1>2. p \in UpPacket /\ Kind(p) = "CONNECT" /\ up' = Append(up, p)
  BY DEF UpPacket, Connect, Kind, SendUp
<1> HIDE DEF p
<1>3. TypeInv /\ "CONNECT" \notin CmdAcks
  BY DEF Sound, CmdAcks
<1>4. /\ AskKeeps({"CONNECT"}) /\ TellKeeps({}) /\ ToldCmds' \subseteq ToldCmds
      /\ AckMids' \subseteq AckMids
  BY <1>2, <1>3, SendsOne
<1>5. /\ \A A : Asking(A)' <=> Asking(A) \/ "CONNECT" \in A
      /\ \A A, B : AskedInOrder(A, B) /\ ("CONNECT" \in B => ~Asking(A)) => AskedInOrder(A, B)'
  BY <1>1, <1>2, <1>3, SendingOne
<1>6. ToldDown' = ToldDown /\ ToldIn' = ToldIn /\ ToldOut' = ToldOut
  BY <1>1, ToldIsKept
<1>7. PhaseInv'
  <2>1. AskAdds({"CONNECT"}) /\ TellAdds({})
    BY <1>4, KeepsAdds
  <2>2. /\ {"CONNECT"} \cap Requests = {} /\ {"CONNECT"} \cap CmdAcks = {} /\ {} \cap Given = {}
        /\ "PUBLISH" \notin {} /\ broker'.subs \subseteq broker.subs
    BY <1>1, <1>3 DEF Requests
  <2> QED BY <1>1, <2>1, <2>2, PhaseKept DEF Sound
<1>8. ASSUME Orderly
      PROVE  ConnectInv' /\ SubscribeInv' /\ KnownInv' /\ AgreeInv'
  <2>1. ConnectInv /\ SubscribeInv /\ KnownInv /\ AgreeInv
    BY <1>8 DEF Sound, CommandInv
  <2>2. ~Asking({"CONNECT"}) /\ ~Telling(Connacks)
    BY <2>1 DEF ConnectInv
  <2>3. ConnectInv'
    <3>1. AskedInOrder({"CONNECT"}, {"CONNECT"})'
      BY <1>5, <2>1, <2>2 DEF ConnectInv
    <3> QED BY <1>6, <2>1, <2>2, <3>1 DEF ConnectInv, Telling, ToldInOrder, Connacks
  <2>4. SubscribeInv'
    <3>1. broker'.subs = {} /\ link' = "open" =>
            /\ broker.subs = {} /\ link = "open"
            /\ {"CONNECT"} \cap (CmdAcks \cup {"SUBSCRIBE"}) = {} /\ "PUBLISH" \notin {}
            /\ Past' => Past \/ ~Anywhere(ToldDown', ToldIn', ToldOut', {"PUBLISH"})
            /\ owed'.puback \in {owed.puback, 0} /\ owed'.pubrec \in {owed.pubrec, 0}
      BY <1>1, <1>3
    <3> QED BY <1>1, <1>4, <2>1, <3>1, SubscribeKept
  <2>5. AgreeInv'
    <3>1. Settling' \subseteq Settling
      BY <1>4 DEF Settling, OwedMids
    <3>2. /\ broker'.inflight \subseteq broker.inflight /\ received' \subseteq received \cup Got
          /\ broker'.subs = broker.subs /\ broker'.lastMid = broker.lastMid
      BY <1>1
    <3> QED BY <1>4, <2>1, <3>1, <3>2, AgreeKept
  <2> QED BY <2>1, <2>3, <2>4, <2>5, KnownStays
<1> QED BY <1>1, <1>7, <1>8 DEF CommandInv

(***************************************************************************)
(* The Arduino's steps.                                                    *)
(***************************************************************************)
LEMMA ArduinoStands ==
  ASSUME Sound, Arduino, Onward
  PROVE  /\ TypeInv /\ ~Pico /\ Arduino' /\ ~Pico' /\ (Orderly => Punctual)
         /\ (Orderly => ConnectInv /\ SubscribeInv /\ KnownInv /\ AgreeInv)
BY OnwardKeeps, Phases DEF Sound, CommandInv

LEMMA RequestKind ==
  ASSUME NEW t \in Topic, NEW mid \in Nat
  PROVE  LET p == [type |-> IF t \in Sender THEN "REGISTER" ELSE "SUBSCRIBE",
                   topic |-> t, mid |-> mid]
         IN  p \in UpPacket /\ Kind(p) = (IF t \in Sender THEN "REGISTER" ELSE "SUBSCRIBE")
<1>1. CASE t \in Sender
  BY <1>1 DEF UpPacket, Register, Kind
<1>2. CASE t \notin Sender
  BY <1>2, Roles DEF UpPacket, Subscription, Kind
<1> QED BY <1>1, <1>2

LEMMA ProcessSends ==
  ASSUME TypeInv, NEW tab, tab # None => tab \in TableType, Process(tab)
  PROVE  up' = up \/ \E p \in UpPacket : up' = Append(up, p) /\ Kind(p) \in Requests
<1>1. CASE tab = None \/ FirstMissing(tab) = {}
  BY <1>1 DEF Process
<1>2. CASE tab # None /\ FirstMissing(tab) # {}
  <2>1. PICK t \in Topic :
          LET new == tab[t].mid = 0
              mid == IF new THEN nextMid ELSE tab[t].mid
          IN  up' = Append(up, [type |-> IF t \in Sender THEN "REGISTER" ELSE "SUBSCRIBE",
                                topic |-> t, mid |-> mid])
    BY <1>2, ProcessAsks
  <2> DEFINE m == IF tab[t].mid = 0 THEN nextMid ELSE tab[t].mid
             p == [type |-> IF t \in Sender THEN "REGISTER" ELSE "SUBSCRIBE", topic |-> t, mid |-> m]
  <2>2. m \in Nat
    BY <1>2, ArduinoAssumption DEF TypeInv, ArdOK, TableType
  <2>3. up' = Append(up, p)
    BY <2>1
  <2> HIDE DEF m
  <2>4. p \in UpPacket /\ Kind(p) \in Requests
    BY <2>2, RequestKind DEF Requests
  <2> QED BY <2>3, <2>4
<1> QED BY <1>1, <1>2

(* The first topic of an empty table is one to publish under.              *)
LEMMA ProcessBegins ==
  ASSUME TypeInv, NEW tab \in TableType, \A t \in Topic : tab[t].id = 0, Process(tab)
  PROVE  up' = up \/ \E p \in UpPacket : up' = Append(up, p) /\ Kind(p) = "REGISTER"
<1>0. CASE tab = None
  BY <1>0 DEF Process
<1> SUFFICES ASSUME tab # None PROVE \E p \in UpPacket : up' = Append(up, p) /\ Kind(p) = "REGISTER"
  BY <1>0
<1>1. \A t \in {Data1, Data2, Cmd1, Cmd2} : t \in Topic
  BY DEF Topic, Sender, Command
<1>2. DOMAIN Order = 1 .. 4 /\ Order[1] = Data1 /\ \A i \in 1 .. 4 : tab[Order[i]].id = 0
  BY <1>1 DEF Order
<1>3. FirstMissing(tab) = {1}
  BY <1>2 DEF FirstMissing
<1>4. (CHOOSE i \in FirstMissing(tab) : TRUE) = 1
  BY <1>3
<1> DEFINE m == IF tab[Data1].mid = 0 THEN nextMid ELSE tab[Data1].mid
           p == [type |-> IF Data1 \in Sender THEN "REGISTER" ELSE "SUBSCRIBE",
                 topic |-> Data1, mid |-> m]
<1>5. up' = Append(up, p)
  BY <1>2, <1>3, <1>4 DEF Process
<1>6. m \in Nat
  BY <1>1, ArduinoAssumption DEF TypeInv, ArdOK, TableType
<1> HIDE DEF m
<1>7. p \in UpPacket /\ Kind(p) = "REGISTER"
  BY <1>1, <1>6, RequestKind, Roles
<1> QED BY <1>5, <1>7

LEMMA ArdConnectKeeps ==
  ASSUME Sound, Onward, Arduino, UNCHANGED picoVars, ArdConnect
  PROVE  PhaseInv' /\ CommandInv'
<1>1. TypeInv /\ ~Pico /\ Arduino' /\ ~Pico'
  BY ArduinoStands
<1>2. /\ UNCHANGED <<down, owed, table, handled, picoGot>> /\ SendUp([type |-> "CONNECT"])
      /\ st = "INIT" /\ st' = "CONNECTING" /\ flag' = FALSE
  BY DEF ArdConnect, picoVars
<1>3. Before /\ ~Awaiting /\ Awaiting' /\ ~Past' /\ Got' = Got
  BY <1>1, <1>2 DEF Before, Past, Awaiting, Got
<1> QED BY <1>2, <1>3, ConnectsKeep

LEMMA ArdConnackedKeeps ==
  ASSUME Sound, Onward, Arduino, UNCHANGED picoVars, ArdConnacked
  PROVE  PhaseInv' /\ CommandInv'
<1>1. TypeInv /\ ~Pico /\ Arduino' /\ ~Pico' /\ (Orderly => Punctual)
  BY ArduinoStands
<1>2. /\ UNCHANGED <<down, owed>> /\ Process(Refilled(table)) /\ st = "CONNECTING" /\ flag
      /\ st' = "REGISTERING" /\ UNCHANGED <<handled, picoGot>>
  BY DEF ArdConnacked, picoVars
<1>3. Before /\ ~Before' /\ Past /\ ~Awaiting /\ Got' = Got
  BY <1>1, <1>2 DEF Before, Past, Awaiting, Got
<1>4. CASE Punctual'
  <2>1. table = None \/ \A t \in Topic : table[t].id = 0
    BY <1>3, <1>4, OnwardKeeps DEF Sound, PhaseInv
  <2> DEFINE tab == Refilled(table)
  <2>2. tab \in TableType /\ \A t \in Topic : tab[t].id = 0
    <3>1. \A t \in Topic : Unregistered[t].id = 0
      BY DEF Unregistered
    <3>2. CASE table = None
      BY <3>1, <3>2, UnregisteredType DEF Refilled
    <3>3. CASE table # None
      BY <1>1, <2>1, <3>3 DEF Refilled, TypeInv, ArdOK
    <3> QED BY <3>2, <3>3
  <2> HIDE DEF tab
  <2>3. up' = up \/ \E p \in UpPacket : up' = Append(up, p) /\ Kind(p) = "REGISTER"
    BY <1>1, <1>2, <2>2, ProcessBegins DEF tab
  <2>4. "REGISTER" \notin CmdAcks /\ {"REGISTER"} \cap (CmdAcks \cup {"CONNECT", "SUBSCRIBE"}) = {}
    BY DEF CmdAcks
  <2>5. /\ AskKeeps({"REGISTER"}) /\ TellKeeps({}) /\ ToldCmds' \subseteq ToldCmds
        /\ AckMids' \subseteq AckMids
    BY <1>1, <1>2, <2>3, <2>4, SendsOne
  <2> QED BY <1>1, <1>2, <1>3, <2>4, <2>5, OtherMoves
<1> QED BY <1>4, LateIsExcused

(* A request, a message, or nothing at all, from an Arduino that registers *)
(* its topics or is ready.                                                 *)
LEMMA ArdQuestionKeeps ==
  ASSUME Sound, Onward, Arduino, UNCHANGED picoVars, UNCHANGED <<down, owed, handled>>,
         st \in {"REGISTERING", "READY"}, st' \in {"REGISTERING", "READY"},
         \/ up' = up
         \/ \E p \in UpPacket :
              /\ up' = Append(up, p)
              /\ Kind(p) \in {"REGISTER", "PUBLISH"} \/ (Kind(p) = "SUBSCRIBE" /\ owed = NothingOwed)
  PROVE  PhaseInv' /\ CommandInv'
<1>1. /\ TypeInv /\ ~Pico /\ Arduino' /\ ~Pico' /\ (Orderly => Punctual)
      /\ (Orderly => ConnectInv /\ SubscribeInv /\ KnownInv /\ AgreeInv)
  BY ArduinoStands
<1>2. UNCHANGED <<handled, picoGot>>
  BY DEF picoVars
<1>3. ~Before /\ ~Before' /\ Past /\ ~Awaiting /\ Got' = Got
  BY <1>1, <1>2 DEF Before, Past, Awaiting, Got
<1>4. PICK kind \in {"REGISTER", "PUBLISH", "SUBSCRIBE"} :
        /\ up' = up \/ \E p \in UpPacket : up' = Append(up, p) /\ Kind(p) = kind
        /\ kind = "SUBSCRIBE" => owed = NothingOwed
  <2>1. CASE up' = up
    <3>1. "PUBLISH" # "SUBSCRIBE"
      OBVIOUS
    <3> QED BY <2>1, <3>1
  <2>2. CASE \E p \in UpPacket :
               /\ up' = Append(up, p)
               /\ Kind(p) \in {"REGISTER", "PUBLISH"} \/ (Kind(p) = "SUBSCRIBE" /\ owed = NothingOwed)
    <3>1. PICK p \in UpPacket :
               /\ up' = Append(up, p)
               /\ Kind(p) \in {"REGISTER", "PUBLISH"} \/ (Kind(p) = "SUBSCRIBE" /\ owed = NothingOwed)
      BY <2>2
    <3> DEFINE k == Kind(p)
    <3>2. /\ k \in {"REGISTER", "PUBLISH", "SUBSCRIBE"} /\ (k = "SUBSCRIBE" => owed = NothingOwed)
          /\ \E x \in UpPacket : up' = Append(up, x) /\ Kind(x) = k
      BY <3>1
    <3> HIDE DEF k
    <3> QED BY <3>2
  <2> QED BY <2>1, <2>2
<1>5. /\ AskKeeps({kind}) /\ TellKeeps({}) /\ ToldCmds' \subseteq ToldCmds
      /\ AckMids' \subseteq AckMids
  <2>1. kind \notin CmdAcks
    BY DEF CmdAcks
  <2> QED BY <1>1, <1>4, <2>1, SendsOne
<1>6. CASE kind # "SUBSCRIBE"
  <2>1. {kind} \cap (CmdAcks \cup {"CONNECT", "SUBSCRIBE"}) = {}
    BY <1>6 DEF CmdAcks
  <2> QED BY <1>1, <1>3, <1>5, <2>1, OtherMoves
<1>7. CASE kind = "SUBSCRIBE"
  <2>1. ASSUME Orderly PROVE SubscribeInv' /\ AgreeInv'
    <3>1. UNCHANGED <<scenario, broker, link, received, packetQ, brokerQ, fromBroker>>
      BY OnwardKeeps
    <3>2. SubscribeInv /\ AgreeInv
      BY <1>1, <2>1
    <3>3. AgreeInv'
      <4>1. Settling' \subseteq Settling
        BY <1>5 DEF Settling, OwedMids
      <4>2. /\ broker'.inflight \subseteq broker.inflight /\ received' \subseteq received \cup Got
            /\ broker'.subs = broker.subs /\ broker'.lastMid = broker.lastMid
        BY <3>1
      <4> QED BY <1>3, <1>5, <3>2, <4>1, <4>2, AgreeKept
    <3>4. SubscribeInv'
      <4>1. CASE up' = up
        <5>1. AskKeeps({}) /\ {} \cap (CmdAcks \cup {"SUBSCRIBE"}) = {} /\ "PUBLISH" \notin {}
          BY <3>1, <4>1, AskedIsKept
        <5> QED BY <1>3, <1>5, <3>1, <3>2, <5>1, SubscribeKept
      <4>2. ASSUME NEW p \in UpPacket, up' = Append(up, p), Kind(p) = "SUBSCRIBE"
            PROVE  SubscribeInv'
        <5>1. "SUBSCRIBE" \notin CmdAcks
          BY DEF CmdAcks
        <5>2. \A A, B : AskedInOrder(A, B) /\ (Kind(p) \in B => ~Asking(A)) => AskedInOrder(A, B)'
          BY <1>1, <3>1, <4>2, SendingOne
        <5>3. AskedInOrder({"SUBSCRIBE"}, CmdAcks) => AskedInOrder({"SUBSCRIBE"}, CmdAcks)'
          BY <4>2, <5>1, <5>2
        <5>4. owed'.puback = 0 /\ owed'.pubrec = 0
          BY <1>4, <1>7 DEF NothingOwed
        <5>5. ToldDown' = ToldDown /\ ToldIn' = ToldIn /\ ToldOut' = ToldOut
          BY <3>1, ToldIsKept
        <5> QED BY <1>1, <1>3, <3>1, <3>2, <5>3, <5>4, <5>5
             DEF SubscribeInv, Telling, AskedInOrder, CmdAcks
      <4> QED BY <1>4, <1>7, <4>1, <4>2
    <3> QED BY <3>3, <3>4
  <2>2. "CONNECT" \notin {kind}
    BY <1>7
  <2> QED BY <1>1, <1>3, <1>5, <2>1, <2>2, ClientMoves
<1> QED BY <1>6, <1>7

LEMMA ArdLoopKeeps ==
  ASSUME Sound, Onward, Arduino, UNCHANGED picoVars,
         ArdRegister \/ ArdReady \/ ArdNextRound \/ ArdPublish
  PROVE  PhaseInv' /\ CommandInv'
<1>1. TypeInv
  BY DEF Sound
<1>2. CASE ArdRegister
  <2>1. /\ UNCHANGED <<down, owed, handled, st>> /\ st = "REGISTERING" /\ owed = NothingOwed
        /\ table # None /\ Process(table)
    BY <1>2 DEF ArdRegister, MayRequest
  <2>2. up' = up \/ \E p \in UpPacket : up' = Append(up, p) /\ Kind(p) \in Requests
    BY <1>1, <2>1, ProcessSends DEF TypeInv, ArdOK
  <2>3. \/ up' = up
        \/ \E p \in UpPacket :
             /\ up' = Append(up, p)
             /\ Kind(p) \in {"REGISTER", "PUBLISH"} \/ (Kind(p) = "SUBSCRIBE" /\ owed = NothingOwed)
    BY <2>1, <2>2 DEF Requests
  <2> QED BY <2>1, <2>3, ArdQuestionKeeps
<1>3. CASE ArdReady
  <2>1. UNCHANGED <<up, down, owed, handled>> /\ st = "REGISTERING" /\ st' = "READY"
    BY <1>3 DEF ArdReady, netVars
  <2> QED BY <2>1, ArdQuestionKeeps
<1>4. CASE ArdNextRound
  <2>1. UNCHANGED <<up, down, owed, handled>> /\ st = "READY" /\ st' = "READY"
    BY <1>4 DEF ArdNextRound, netVars
  <2> QED BY <2>1, ArdQuestionKeeps
<1>5. CASE ArdPublish
  <2>1. /\ UNCHANGED <<down, owed, handled>> /\ st = "READY" /\ st' = "READY"
        /\ \E q, m, t, tid :
             up' = Append(up, [type |-> "PUBLISH", tid |-> tid, qos |-> q, mid |-> m,
                               msg |-> [topic |-> t, n |-> count + 1]])
    BY <1>5 DEF ArdPublish, ArdPublishQos0, ArdPublishQos1, MayPublish, SendUp
  <2>2. PICK q, m, t, tid :
          up' = Append(up, [type |-> "PUBLISH", tid |-> tid, qos |-> q, mid |-> m,
                            msg |-> [topic |-> t, n |-> count + 1]])
    BY <2>1
  <2> DEFINE p == [type |-> "PUBLISH", tid |-> tid, qos |-> q, mid |-> m,
                   msg |-> [topic |-> t, n |-> count + 1]]
  <2>3. up' \in Seq(UpPacket) /\ up \in Seq(UpPacket)
    BY <1>1, <1>5, ArdPublishType DEF TypeInv, NetOK
  <2>4. up' = Append(up, p) /\ Kind(p) = "PUBLISH"
    BY <2>2 DEF Kind
  <2> HIDE DEF p
  <2>5. p \in UpPacket
    BY <2>3, <2>4
  <2> QED BY <2>1, <2>4, <2>5, ArdQuestionKeeps
<1> QED BY <1>2, <1>3, <1>4, <1>5

LEMMA LateIsSeen ==
  ASSUME Early
  PROVE  ~Punctual'
BY DEF Early, Fault, Punctual, NeverSeen

(* Whoever times out has nothing under way.                                *)
LEMMA ArdTimeoutKeeps ==
  ASSUME Sound, Onward, Arduino, UNCHANGED picoVars, ArdTimeout, InTime \/ Early
  PROVE  PhaseInv' /\ CommandInv'
<1>1. /\ TypeInv /\ ~Pico /\ Arduino' /\ ~Pico' /\ (Orderly => Punctual)
  BY ArduinoStands
<1> SUFFICES ASSUME Quiet PROVE PhaseInv' /\ CommandInv'
  BY LateIsSeen, LateIsExcused DEF InTime
<1>2. \A A : ~Asking(A) /\ ~Telling(A)
  BY NothingUnderWay
<1>3. UNCHANGED <<down, owed, handled, picoGot>> /\ Got' = Got
  BY DEF ArdTimeout, ArdConnectTimeout, ArdRegisterTimeout, ArdRetry, picoVars, Got
<1>4. UNCHANGED <<packetQ, brokerQ, fromBroker>>
  BY OnwardKeeps
<1>5. CASE ArdRetry
  <2>1. st = "READY" /\ st' = "READY"
    BY <1>5 DEF ArdRetry
  <2>2. up' = up \/ (up' = Append(up, pend.packet) /\ pend # None)
    BY <1>5 DEF ArdRetry, SendUp
  <2>3. pend # None => pend.packet \in UpPacket /\ Kind(pend.packet) = "PUBLISH"
    BY <1>1 DEF TypeInv, ArdOK, PendingType, UpPacket, Publication, Kind
  <2> QED BY <1>3, <2>1, <2>2, <2>3, ArdQuestionKeeps
<1>6. CASE ArdConnectTimeout
  <2>1. UNCHANGED <<up, table>> /\ st = "CONNECTING" /\ ~flag /\ st' = "INIT"
    BY <1>6 DEF ArdConnectTimeout
  <2>2. Before /\ Before' /\ ~Past'
    BY <1>1, <2>1 DEF Before, Past
  <2>3. /\ AskKeeps({}) /\ TellKeeps({}) /\ ToldCmds' \subseteq ToldCmds /\ AckMids' \subseteq AckMids
        /\ {} \cap (CmdAcks \cup {"CONNECT", "SUBSCRIBE"}) = {} /\ {} \cap Requests = {}
    BY <1>3, <1>4, <2>1, AskedIsKept, ToldIsKept
  <2> QED BY <1>1, <1>2, <1>3, <2>1, <2>2, <2>3, OtherMoves
<1>7. CASE ArdRegisterTimeout
  <2>1. up' = up /\ st = "REGISTERING" /\ st' = "INIT" /\ table' = Invalidated(table)
    BY <1>7 DEF ArdRegisterTimeout
  <2>2. ~Before /\ ~Awaiting /\ ~Awaiting' /\ ~Past' /\ Past
    BY <1>1, <2>1 DEF Before, Past, Awaiting
  <2>3. /\ AskKeeps({}) /\ TellKeeps({}) /\ ToldCmds' \subseteq ToldCmds /\ AckMids' \subseteq AckMids
        /\ AskedOut' = AskedOut /\ AskedIn' = AskedIn /\ AskedUp' = AskedUp
        /\ ToldDown' = ToldDown /\ ToldIn' = ToldIn /\ ToldOut' = ToldOut
    BY <1>3, <1>4, <2>1, AskedIsKept, ToldIsKept
  <2>4. PhaseInv'
    <3>1. table' = None \/ \A t \in Topic : table'[t].id = 0
      BY <2>1 DEF Invalidated
    <3>2. ~Asking(Requests) /\ ~Telling(Given)
      BY <1>2
    <3> QED BY <1>1, <2>3, <3>1, <3>2 DEF PhaseInv, Asking, Telling, Requests, Given
  <2>5. ASSUME Orderly PROVE ConnectInv' /\ SubscribeInv' /\ KnownInv' /\ AgreeInv'
    <3>1. ConnectInv /\ SubscribeInv /\ KnownInv /\ AgreeInv
      BY <1>1, <2>5 DEF Sound, CommandInv
    <3>2. UNCHANGED <<scenario, broker, link, received>>
      BY OnwardKeeps
    <3>3. ConnectInv'
      <4>1. "CONNECT" \notin {} /\ {} \cap (Connacks \cup {"PUBLISH"}) = {}
        OBVIOUS
      <4> QED BY <2>2, <2>3, <3>1, <3>2, <4>1, ConnectKept
    <3>4. SubscribeInv'
      <4>1. {} \cap (CmdAcks \cup {"SUBSCRIBE"}) = {} /\ "PUBLISH" \notin {}
        OBVIOUS
      <4> QED BY <1>3, <2>2, <2>3, <3>1, <3>2, <4>1, SubscribeKept
    <3>5. AgreeInv'
      <4>1. Settling' \subseteq Settling
        BY <1>3, <2>3 DEF Settling, OwedMids
      <4>2. /\ broker'.inflight \subseteq broker.inflight /\ received' \subseteq received \cup Got
            /\ broker'.subs = broker.subs /\ broker'.lastMid = broker.lastMid
        BY <3>2
      <4> QED BY <1>3, <2>3, <3>1, <4>1, <4>2, AgreeKept
    <3> QED BY <3>1, <3>3, <3>4, <3>5, KnownStays
  <2> QED BY <2>4, <2>5, OnwardKeeps DEF CommandInv
<1> QED BY <1>5, <1>6, <1>7 DEF ArdTimeout

(* An acknowledgement that was owed.                                       *)
LEMMA ArdAcknowledgeKeeps ==
  ASSUME Sound, Onward, Arduino, UNCHANGED picoVars, ArdAcknowledge
  PROVE  PhaseInv' /\ CommandInv'
<1>1. /\ TypeInv /\ ~Pico /\ Arduino' /\ ~Pico' /\ (Orderly => Punctual)
      /\ (Orderly => ConnectInv /\ SubscribeInv /\ KnownInv /\ AgreeInv)
  BY ArduinoStands
<1>2. /\ UNCHANGED <<down, table, handled, st, picoGot>> /\ st \in {"REGISTERING", "READY"}
  BY DEF ArdAcknowledge, picoVars
<1>3. PICK k \in {"puback", "pubrec", "pubcomp"} :
        /\ SendUp([type |-> AckType(k), mid |-> owed[k]])
        /\ owed' = [owed EXCEPT ![k] = 0] /\ owed[k] # 0
  <2> DEFINE order == IF st = "REGISTERING" THEN <<"puback", "pubrec", "pubcomp">>
                      ELSE <<"pubrec", "pubcomp", "puback">>
  <2>1. PICK i \in FirstOwed(order) :
          /\ SendUp([type |-> AckType(order[i]), mid |-> owed[order[i]]])
          /\ owed' = [owed EXCEPT ![order[i]] = 0]
    BY Zenon DEF ArdAcknowledge
  <2>2. i \in DOMAIN order /\ owed[order[i]] # 0
    BY DEF FirstOwed
  <2>3. order[i] \in {"puback", "pubrec", "pubcomp"}
    BY <2>2
  <2> HIDE DEF order
  <2> QED BY <2>1, <2>2, <2>3
<1> DEFINE p == [type |-> AckType(k), mid |-> owed[k]]
<1>4. owed \in [puback : Nat, pubrec : Nat, pubcomp : Nat]
  BY <1>1 DEF TypeInv, ArdOK
<1>5. AckType(k) \in {"PUBACK", "PUBREC", "PUBCOMP"} /\ (AckType(k) \in CmdAcks <=> k # "pubcomp")
  BY DEF AckType, CmdAcks
<1>6. p \in UpPacket /\ Kind(p) = AckType(k) /\ p.type = AckType(k) /\ p.mid = owed[k]
      /\ up' = Append(up, p)
  BY <1>3, <1>4, <1>5 DEF UpPacket, Ack, Kind, SendUp
<1> HIDE DEF p
<1>7. /\ owed'.puback \in {owed.puback, 0} /\ owed'.pubrec \in {owed.pubrec, 0}
      /\ k # "pubcomp" => owed[k] \in OwedMids
  BY <1>3, <1>4 DEF OwedMids
<1>8. UNCHANGED <<scenario, broker, link, received, packetQ, brokerQ, fromBroker>>
  BY OnwardKeeps
<1>9. /\ AskKeeps({AckType(k)}) /\ AckMids' \subseteq AckMids \cup {m \in {owed[k]} : AckType(k) \in CmdAcks}
      /\ \A A : Asking(A)' <=> Asking(A) \/ AckType(k) \in A
      /\ \A A, B : AskedInOrder(A, B) /\ (AckType(k) \in B => ~Asking(A)) => AskedInOrder(A, B)'
  <2>1. /\ AskKeeps({Kind(p)}) /\ AckMids' \subseteq AckMids \cup {m \in {p.mid} : p.type \in CmdAcks}
        /\ \A A : Asking(A)' <=> Asking(A) \/ Kind(p) \in A
        /\ \A A, B : AskedInOrder(A, B) /\ (Kind(p) \in B => ~Asking(A)) => AskedInOrder(A, B)'
    BY <1>1, <1>6, <1>8, SendingOne
  <2> QED BY <1>6, <2>1
<1>10. /\ TellKeeps({}) /\ ToldCmds' \subseteq ToldCmds
       /\ ToldDown' = ToldDown /\ ToldIn' = ToldIn /\ ToldOut' = ToldOut
  BY <1>2, <1>8, ToldIsKept
<1>11. ~Before /\ ~Before' /\ Past /\ ~Awaiting /\ Got' = Got
  BY <1>1, <1>2 DEF Before, Past, Awaiting, Got
<1>12. ASSUME Orderly PROVE SubscribeInv' /\ AgreeInv'
  <2>1. SubscribeInv /\ AgreeInv
    BY <1>1, <1>12
  <2>2. SubscribeInv'
    <3>1. SUFFICES ASSUME broker.subs = {}, link = "open"
                   PROVE  /\ AskedInOrder({"SUBSCRIBE"}, CmdAcks)'
                          /\ Asking({"SUBSCRIBE"})' => owed'.puback = 0 /\ owed'.pubrec = 0
                          /\ ~Telling({"PUBLISH"})'
      BY <1>1, <1>8 DEF SubscribeInv, AskedInOrder, CmdAcks
    <3>2. /\ AskedInOrder({"SUBSCRIBE"}, CmdAcks) /\ ~Telling({"PUBLISH"})
          /\ Asking({"SUBSCRIBE"}) => owed.puback = 0 /\ owed.pubrec = 0
      BY <1>11, <2>1, <3>1 DEF SubscribeInv
    <3>3. AckType(k) \in CmdAcks => ~Asking({"SUBSCRIBE"})
      BY <1>3, <1>5, <3>2
    <3>4. "SUBSCRIBE" # AckType(k)
      BY <1>5
    <3>5. Asking({"SUBSCRIBE"})' => owed'.puback = 0 /\ owed'.pubrec = 0
      BY <1>7, <1>9, <3>2, <3>4
    <3> QED BY <1>9, <1>10, <3>2, <3>3, <3>5 DEF Telling
  <2>3. AgreeInv'
    <3>1. Settling' \subseteq Settling
      <4>1. OwedMids' \subseteq OwedMids
        BY <1>7 DEF OwedMids
      <4> QED BY <1>5, <1>7, <1>9, <4>1 DEF Settling
    <3>2. /\ broker'.inflight \subseteq broker.inflight /\ received' \subseteq received \cup Got
          /\ broker'.subs = broker.subs /\ broker'.lastMid = broker.lastMid
      BY <1>8
    <3> QED BY <1>10, <1>11, <2>1, <3>1, <3>2, AgreeKept
  <2> QED BY <2>2, <2>3
<1>13. "CONNECT" \notin {AckType(k)}
  BY <1>5
<1> QED BY <1>1, <1>9, <1>10, <1>11, <1>12, <1>13, ClientMoves

(***************************************************************************)
(* What arrives at the client.                                             *)
(***************************************************************************)
LEMMA ClientTakes ==
  ASSUME TypeInv, Onward, down # <<>>, down' = Tail(down)
  PROVE  /\ TellKeeps({}) /\ ToldCmds' \subseteq ToldCmds
         /\ Head(down) \in ToldSet /\ Head(down) \in DownPacket
         /\ \A A : Kind(Head(down)) \in A => Telling(A)
         /\ \A A, B : ToldInOrder(A, B) /\ Kind(Head(down)) \in A => ~Telling(B)'
         /\ UNCHANGED <<packetQ, brokerQ, fromBroker>>
         /\ up' = up => AskKeeps({}) /\ AckMids' = AckMids
         /\ {} \cap (CmdAcks \cup {"CONNECT", "SUBSCRIBE"}) = {} /\ {} \cap Requests = {}
<1>1. UNCHANGED <<packetQ, brokerQ, fromBroker>>
  BY OnwardKeeps
<1>2. up' = up => AskKeeps({}) /\ AckMids' = AckMids
  BY <1>1, AskedIsKept
<1> QED BY <1>1, <1>2, Taking

LEMMA CommandTold ==
  ASSUME TypeInv, down # <<>>, Head(down).type = "PUBLISH", Head(down) \in ToldSet
  PROVE  [mid |-> Head(down).mid, cmd |-> Head(down).cmd] \in ToldCmds /\ Kind(Head(down)) = "PUBLISH"
BY DEF ToldCmds, Kind

LEMMA ArdReceiveConnackKeeps ==
  ASSUME Sound, Onward, Arduino, UNCHANGED picoVars, ArdReceiveConnack
  PROVE  PhaseInv' /\ CommandInv'
<1>1. /\ TypeInv /\ ~Pico /\ Arduino' /\ ~Pico' /\ (Orderly => Punctual)
      /\ (Orderly => ConnectInv /\ SubscribeInv /\ KnownInv /\ AgreeInv)
  BY ArduinoStands
<1>2. /\ down # <<>> /\ Head(down).type = "CONNACK" /\ down' = Tail(down)
      /\ UNCHANGED <<up, owed, handled, st, picoGot>> /\ flag' = TRUE
      /\ table' = None \/ table' = table
  BY DEF ArdReceiveConnack, Receiving, Arriving, picoVars
<1>3. /\ TellKeeps({}) /\ ToldCmds' \subseteq ToldCmds /\ AskKeeps({}) /\ AckMids' = AckMids
      /\ \A A : Kind(Head(down)) \in A => Telling(A)
      /\ \A A, B : ToldInOrder(A, B) /\ Kind(Head(down)) \in A => ~Telling(B)'
      /\ {} \cap (CmdAcks \cup {"CONNECT", "SUBSCRIBE"}) = {} /\ {} \cap Requests = {}
  BY <1>1, <1>2, ClientTakes
<1>4. Kind(Head(down)) \in Connacks
  BY <1>2 DEF Kind, Connacks
<1>5. (Before' <=> Before) /\ Got' = Got /\ ~Awaiting'
  BY <1>1, <1>2 DEF Before, Awaiting, Got
<1>6. UNCHANGED <<scenario, broker, link, received>> /\ (Orderly' => Orderly) /\ (Punctual' => Punctual)
  BY OnwardKeeps
<1>7. PhaseInv'
  <2>1. AskAdds({}) /\ TellAdds({})
    BY <1>3, KeepsAdds
  <2>2. {} \cap Requests = {} /\ {} \cap Given = {}
    OBVIOUS
  <2> QED BY <1>1, <1>2, <1>5, <1>6, <2>1, <2>2, PhaseKept DEF Sound
<1>8. ASSUME Orderly PROVE ConnectInv' /\ SubscribeInv' /\ KnownInv' /\ AgreeInv'
  <2>1. ConnectInv /\ SubscribeInv /\ KnownInv /\ AgreeInv
    BY <1>1, <1>8
  <2>2. ~Asking({"CONNECT"})
    BY <1>3, <1>4, <2>1 DEF ConnectInv
  <2>3. ~Telling(Connacks)' /\ ~Telling({"PUBLISH"})'
    BY <1>3, <1>4, <2>1 DEF ConnectInv
  <2>4. ConnectInv'
    <3>1. ~Anywhere(AskedOut', AskedIn', AskedUp', {"CONNECT"})
      <4>1. {"CONNECT"} \cap {} = {}
        OBVIOUS
      <4> QED BY <1>3, <2>2, <4>1, KeepsAdds DEF AskAdds
    <3>2. ~Anywhere(ToldDown', ToldIn', ToldOut', Connacks)
      BY <2>3 DEF Telling, Connacks
    <3>3. /\ NoneBehind(AskedOut', AskedIn', AskedUp', {"CONNECT"}, {"CONNECT"})
          /\ NoneBehind(ToldDown', ToldIn', ToldOut', Connacks, Connacks)
          /\ NoneBehind(ToldDown', ToldIn', ToldOut', Connacks, {"PUBLISH"})
      BY <3>1, <3>2, NoneWithout
    <3> QED BY <3>1, <3>2, <3>3
         DEF ConnectInv, Asking, Telling, AskedInOrder, ToldInOrder, Connacks
  <2>5. SubscribeInv'
    <3>1. ~Anywhere(ToldDown', ToldIn', ToldOut', {"PUBLISH"})
      BY <2>3 DEF Telling
    <3>2. {} \cap (CmdAcks \cup {"SUBSCRIBE"}) = {} /\ "PUBLISH" \notin {}
      OBVIOUS
    <3> QED BY <1>2, <1>3, <1>6, <2>1, <3>1, <3>2, SubscribeKept
  <2>6. AgreeInv'
    <3>1. Settling' \subseteq Settling
      BY <1>2, <1>3 DEF Settling, OwedMids
    <3>2. /\ broker'.inflight \subseteq broker.inflight /\ received' \subseteq received \cup Got
          /\ broker'.subs = broker.subs /\ broker'.lastMid = broker.lastMid
      BY <1>6
    <3> QED BY <1>3, <1>5, <2>1, <3>1, <3>2, AgreeKept
  <2> QED BY <2>1, <2>4, <2>5, <2>6, KnownStays
<1> QED BY <1>6, <1>7, <1>8 DEF CommandInv

LEMMA ArdReceiveCommandKeeps ==
  ASSUME Sound, Onward, Arduino, UNCHANGED picoVars, ArdReceiveCommand
  PROVE  PhaseInv' /\ CommandInv'
<1>1. /\ TypeInv /\ ~Pico /\ Arduino' /\ ~Pico' /\ (Orderly => Punctual)
      /\ (Orderly => ConnectInv /\ SubscribeInv /\ KnownInv /\ AgreeInv)
  BY ArduinoStands
<1>2. /\ down # <<>> /\ Head(down).type = "PUBLISH" /\ down' = Tail(down)
      /\ UNCHANGED <<up, flag, table, st, picoGot>>
      /\ handled' = handled \cup {Head(down).cmd}
      /\ \/ owed' = [owed EXCEPT !.puback = Head(down).mid]
         \/ owed' = [owed EXCEPT !.pubrec = Head(down).mid, !.pubcomp = 0]
  BY DEF ArdReceiveCommand, Receiving, Arriving, picoVars
<1>3. /\ TellKeeps({}) /\ ToldCmds' \subseteq ToldCmds /\ AskKeeps({}) /\ AckMids' = AckMids
      /\ \A A : Kind(Head(down)) \in A => Telling(A)
      /\ Head(down) \in ToldSet /\ "CONNECT" \notin {}
      /\ {} \cap (CmdAcks \cup {"CONNECT", "SUBSCRIBE"}) = {} /\ {} \cap Requests = {}
  BY <1>1, <1>2, ClientTakes
<1> DEFINE c == [mid |-> Head(down).mid, cmd |-> Head(down).cmd]
<1>4. c \in ToldCmds /\ Telling({"PUBLISH"}) /\ c.mid = Head(down).mid /\ c.cmd = Head(down).cmd
  BY <1>1, <1>2, <1>3, CommandTold
<1> HIDE DEF c
<1>5. (Before' <=> Before) /\ (Past' <=> Past) /\ (Awaiting' <=> Awaiting) /\ Got' = Got \cup {c.cmd}
  BY <1>1, <1>2, <1>4 DEF Before, Past, Awaiting, Got
<1>6. UNCHANGED <<scenario, broker, link, received>>
  BY OnwardKeeps
<1>7. ASSUME Orderly PROVE SubscribeInv' /\ AgreeInv'
  <2>1. SubscribeInv /\ AgreeInv
    BY <1>1, <1>7
  <2>2. SubscribeInv'
    <3>1. SUFFICES ASSUME broker.subs = {}, link = "open"
                   PROVE  /\ ~Past' /\ AskedInOrder({"SUBSCRIBE"}, CmdAcks)'
                          /\ ~Asking({"SUBSCRIBE"})'
      BY <1>1, <1>6 DEF SubscribeInv, AskedInOrder, CmdAcks
    <3>2. ~Past /\ Before
      BY <1>1, <1>4, <2>1, <3>1, Phases DEF SubscribeInv
    <3>3. ~Asking(Requests)
      BY <1>1, <1>7, <3>2 DEF Sound, PhaseInv
    <3>4. Requests \cap {} = {}
      OBVIOUS
    <3>5. ~Anywhere(AskedOut', AskedIn', AskedUp', Requests)
      BY <1>3, <3>3, <3>4, KeepsAdds DEF AskAdds
    <3>6. ~Anywhere(AskedOut', AskedIn', AskedUp', {"SUBSCRIBE"})
      BY <3>5 DEF Anywhere, Has, Requests
    <3>7. NoneBehind(AskedOut', AskedIn', AskedUp', {"SUBSCRIBE"}, CmdAcks)
      BY <3>6, NoneWithout
    <3> QED BY <1>5, <3>2, <3>6, <3>7 DEF Asking, AskedInOrder, CmdAcks
  <2>3. AgreeInv'
    <3>1. OwedMids' \subseteq OwedMids \cup {c.mid}
      <4>1. owed \in [puback : Nat, pubrec : Nat, pubcomp : Nat]
        BY <1>1 DEF TypeInv, ArdOK
      <4> QED BY <1>2, <1>4, <4>1 DEF OwedMids
    <3>2. Settling' \subseteq Settling \cup {c.mid}
      BY <1>3, <3>1 DEF Settling
    <3> QED BY <1>3, <1>4, <1>5, <1>6, <2>1, <3>2, CommandShown
  <2> QED BY <2>2, <2>3
<1> QED BY <1>1, <1>2, <1>3, <1>5, <1>7, ClientMoves

LEMMA ArdReceiveKeeps ==
  ASSUME Sound, Onward, Arduino, UNCHANGED picoVars, ArdReceive
  PROVE  PhaseInv' /\ CommandInv'
<1>1. /\ TypeInv /\ ~Pico /\ Arduino' /\ ~Pico' /\ (Orderly => Punctual)
  BY ArduinoStands
<1>2. CASE ArdReceiveConnack
  BY <1>2, ArdReceiveConnackKeeps
<1>3. CASE ArdReceiveCommand
  BY <1>3, ArdReceiveCommandKeeps
<1>4. ASSUME ArdReceivePuback \/ ArdReceivePubrel \/ ArdReceiveOther
             \/ ArdReceiveId("REGACK", Sender) \/ ArdReceiveId("SUBACK", Command)
      PROVE  PhaseInv' /\ CommandInv'
  <2>1. /\ down # <<>> /\ down' = Tail(down) /\ UNCHANGED <<up, st, flag, handled, picoGot>>
        /\ \/ table' = table
           \/ Head(down).type \in Given
    BY <1>4 DEF ArdReceivePuback, ArdReceivePubrel, ArdReceiveOther, ArdReceiveId, Receiving,
                Arriving, picoVars, Given
  <2>2. owed'.puback = owed.puback /\ owed'.pubrec = owed.pubrec
    <3>1. owed' = owed \/ owed' = [owed EXCEPT !.pubcomp = Head(down).mid]
      BY <1>4 DEF ArdReceivePuback, ArdReceivePubrel, ArdReceiveOther, ArdReceiveId, Arriving
    <3>2. owed \in [puback : Nat, pubrec : Nat, pubcomp : Nat]
      BY <1>1 DEF TypeInv, ArdOK
    <3> QED BY <3>1, <3>2
  <2>3. /\ TellKeeps({}) /\ ToldCmds' \subseteq ToldCmds /\ AskKeeps({}) /\ AckMids' = AckMids
        /\ \A A : Kind(Head(down)) \in A => Telling(A)
        /\ {} \cap (CmdAcks \cup {"CONNECT", "SUBSCRIBE"}) = {} /\ {} \cap Requests = {}
    BY <1>1, <2>1, ClientTakes
  <2>4. (Before' <=> Before) /\ (Past' <=> Past) /\ (Awaiting' <=> Awaiting) /\ Got' = Got
    BY <1>1, <2>1 DEF Before, Past, Awaiting, Got
  <2>5. Punctual /\ Before => table' = table
    <3>1. Head(down).type \in Given => Telling(Given)
      BY <2>3 DEF Kind, Given
    <3> QED BY <2>1, <3>1 DEF Sound, PhaseInv
  <2> QED BY <1>1, <2>2, <2>3, <2>4, <2>5, OtherMoves
<1> QED BY <1>2, <1>3, <1>4 DEF ArdReceive

(***************************************************************************)
(* The Pico's steps.                                                       *)
(***************************************************************************)
LEMMA PicoStands ==
  ASSUME Sound, Pico, Onward, UNCHANGED ardVars
  PROVE  /\ TypeInv /\ ~Arduino /\ Pico' /\ ~Arduino' /\ (Orderly => Punctual)
         /\ (Orderly => ConnectInv /\ SubscribeInv /\ KnownInv /\ AgreeInv)
         /\ UNCHANGED <<owed, table, handled>> /\ OwedMids' = OwedMids
BY OnwardKeeps, Phases DEF Sound, CommandInv, ardVars, OwedMids

LEMMA PicoConnectKeeps ==
  ASSUME Sound, Onward, Pico, UNCHANGED ardVars, PicoConnect
  PROVE  PhaseInv' /\ CommandInv'
<1>1. TypeInv /\ ~Arduino /\ Pico' /\ ~Arduino' /\ UNCHANGED <<owed, table, handled>>
  BY PicoStands
<1>2. /\ UNCHANGED <<down, picoGot>> /\ SendUp([type |-> "CONNECT"])
      /\ task = "boot" /\ task' = "wait"
  BY DEF PicoConnect
<1>3. Before /\ ~Awaiting /\ Awaiting' /\ ~Past' /\ Got' = Got
  BY <1>1, <1>2 DEF Before, Past, Awaiting, Got
<1> QED BY <1>1, <1>2, <1>3, ConnectsKeep

(* The requests for all topics of a role at once.                          *)
LEMMA ProcessAllSends ==
  ASSUME TypeInv, NEW tab \in Seq(PicoEntry), ProcessAll(tab)
  PROVE  \E l \in Seq(UpPacket) : up' = up \o l /\ \A p \in Held(l) : p.type \in Requests
<1> DEFINE due == Due(tab)
           n == Cardinality(due)
<1>1. n \in Nat
  <2>1. due \subseteq 1 .. Len(tab) /\ Len(tab) \in Nat
    BY DEF Due
  <2>2. IsFiniteSet(1 .. Len(tab))
    BY <2>1, FS_Interval
  <2> HIDE DEF due
  <2>3. IsFiniteSet(due)
    BY <2>1, <2>2, FS_Subset
  <2> QED BY <2>3, FS_CardinalityType
<1>2. picoMid \in Nat
  BY DEF TypeInv, PicoOK
<1>3. PICK at \in [1 .. n -> due] :
        up' = up \o [k \in 1 .. n |-> Request(tab[at[k]], picoMid + k - 1)]
  BY DEF ProcessAll
<1> DEFINE l == [k \in 1 .. n |-> Request(tab[at[k]], picoMid + k - 1)]
<1>4. ASSUME NEW k \in 1 .. n
      PROVE  /\ Request(tab[at[k]], picoMid + k - 1) \in UpPacket
             /\ Request(tab[at[k]], picoMid + k - 1).type \in Requests
  <2>1. at[k] \in 1 .. Len(tab)
    BY DEF Due
  <2>2. tab[at[k]] \in PicoEntry /\ picoMid + k - 1 \in Nat
    BY <1>1, <1>2, <2>1, ElementOfSeq
  <2>3. Request(tab[at[k]], picoMid + k - 1) \in UpPacket
    BY <2>2, RequestType
  <2> QED BY <2>3 DEF Request, Requests
<1> HIDE DEF n, due
<1>5. l \in Seq(UpPacket)
  BY <1>1, <1>4, IsASeq
<1>6. \A p \in Held(l) : p.type \in Requests
  BY <1>4 DEF Held
<1> QED BY <1>3, <1>5, <1>6

LEMMA PicoRequestsKeep ==
  ASSUME Sound, Onward, Pico, UNCHANGED ardVars, UNCHANGED <<down, picoGot>>,
         task = "register" \/ (task = "wait" /\ Quiet), task' \in {"register", "run"},
         NEW tab \in Seq(PicoEntry), ProcessAll(tab)
  PROVE  PhaseInv' /\ CommandInv'
<1>1. /\ TypeInv /\ ~Arduino /\ Pico' /\ ~Arduino' /\ (Orderly => Punctual)
      /\ (Orderly => ConnectInv /\ SubscribeInv /\ KnownInv /\ AgreeInv)
      /\ UNCHANGED <<owed, table, handled>> /\ OwedMids' = OwedMids
  BY PicoStands
<1>2. PICK l \in Seq(UpPacket) : up' = up \o l /\ \A p \in Held(l) : p.type \in Requests
  BY <1>1, ProcessAllSends
<1>3. UNCHANGED <<scenario, broker, link, received, packetQ, brokerQ, fromBroker>>
      /\ (Orderly' => Orderly) /\ (Punctual' => Punctual)
  BY OnwardKeeps
<1>4. /\ AskedOut' = AskedOut /\ AskedIn' = AskedIn /\ AskedSet' \subseteq AskedSet \cup Held(l)
      /\ \A A : Has(AskedUp', A) <=> Has(AskedUp, A) \/ Has(Kinds(l), A)
  BY <1>1, <1>2, <1>3, Sending
<1>5. /\ TellKeeps({}) /\ ToldCmds' = ToldCmds
      /\ ToldDown' = ToldDown /\ ToldIn' = ToldIn /\ ToldOut' = ToldOut
  BY <1>3, ToldIsKept
<1>6. \A A : A \cap Requests = {} => ~Has(Kinds(l), A)
  <2>1. l \in Seq(AnyPacket)
    <3>1. UpPacket \subseteq AnyPacket
      BY DEF AnyPacket
    <3>2. \A U \in SUBSET AnyPacket : Seq(U) \subseteq Seq(AnyPacket)
      OBVIOUS
    <3> QED BY <3>1, <3>2
  <2>2. \A p \in Held(l) : Kind(p) \in Requests
    BY <1>2 DEF Kind, Requests
  <2> QED BY <2>1, <2>2, HasHeld
<1>7. AckMids' \subseteq AckMids
  <2>1. \A p \in Held(l) : p.type \notin CmdAcks
    BY <1>2 DEF CmdAcks, Requests
  <2> QED BY <1>4, <2>1 DEF AckMids
<1>8. ~Before' /\ Past' /\ Got' = Got
  BY <1>1 DEF Before, Past, Got
<1>9. PhaseInv'
  BY <1>1, <1>3, <1>8 DEF PhaseInv, Sound
<1>10. ASSUME Orderly PROVE ConnectInv' /\ SubscribeInv' /\ KnownInv' /\ AgreeInv'
  <2>1. ConnectInv /\ SubscribeInv /\ KnownInv /\ AgreeInv /\ owed = NothingOwed
    BY <1>1, <1>10 DEF Sound, PhaseInv
  <2>2. ~Asking({"CONNECT"}) /\ ~Telling(Connacks)
    <3>1. CASE task = "register"
      BY <1>1, <2>1, <3>1 DEF ConnectInv, Awaiting
    <3>2. CASE task = "wait" /\ Quiet
      BY <3>2, NothingUnderWay
    <3> QED BY <3>1, <3>2
  <2>3. ConnectInv'
    <3>1. {"CONNECT"} \cap Requests = {}
      BY DEF Requests
    <3>2. ~Anywhere(AskedOut', AskedIn', AskedUp', {"CONNECT"})
      BY <1>4, <1>6, <2>2, <3>1 DEF Asking, Anywhere
    <3>3. ~Anywhere(ToldDown', ToldIn', ToldOut', Connacks)
      BY <1>5, <2>2 DEF Telling
    <3>4. /\ NoneBehind(AskedOut', AskedIn', AskedUp', {"CONNECT"}, {"CONNECT"})
          /\ NoneBehind(ToldDown', ToldIn', ToldOut', Connacks, Connacks)
          /\ NoneBehind(ToldDown', ToldIn', ToldOut', Connacks, {"PUBLISH"})
      BY <3>2, <3>3, NoneWithout
    <3> QED BY <3>2, <3>3, <3>4
         DEF ConnectInv, Asking, Telling, AskedInOrder, ToldInOrder, Connacks
  <2>4. SubscribeInv'
    <3>1. SUFFICES ASSUME broker.subs = {}, link = "open"
                   PROVE  /\ ~Telling({"PUBLISH"})' /\ AskedInOrder({"SUBSCRIBE"}, CmdAcks)'
                          /\ owed'.puback = 0 /\ owed'.pubrec = 0
                          /\ ~Anywhere(AskedOut', AskedIn', AskedUp', CmdAcks)
      BY <1>3 DEF SubscribeInv, AskedInOrder, Asking, CmdAcks
    <3>2. ~Asking(CmdAcks) /\ ~Telling({"PUBLISH"})
      BY <2>1, <3>1 DEF SubscribeInv
    <3>3. CmdAcks \cap Requests = {}
      BY DEF CmdAcks, Requests
    <3>4. ~Anywhere(AskedOut', AskedIn', AskedUp', CmdAcks)
      BY <1>4, <1>6, <3>2, <3>3 DEF Asking, Anywhere
    <3>5. NoneBehind(AskedOut', AskedIn', AskedUp', {"SUBSCRIBE"}, CmdAcks)
      BY <3>4, NoneWithout
    <3>6. ~Telling({"PUBLISH"})'
      BY <1>5, <3>2 DEF Telling
    <3>7. owed'.puback = 0 /\ owed'.pubrec = 0
      BY <1>1, <2>1 DEF NothingOwed
    <3> QED BY <3>4, <3>5, <3>6, <3>7 DEF AskedInOrder, CmdAcks
  <2>5. AgreeInv'
    <3>1. Settling' \subseteq Settling
      BY <1>1, <1>7 DEF Settling
    <3>2. /\ broker'.inflight \subseteq broker.inflight /\ received' \subseteq received \cup Got
          /\ broker'.subs = broker.subs /\ broker'.lastMid = broker.lastMid
      BY <1>3
    <3> QED BY <1>5, <1>8, <2>1, <3>1, <3>2, AgreeKept
  <2> QED BY <2>1, <2>3, <2>4, <2>5, KnownStays
<1> QED BY <1>3, <1>9, <1>10 DEF CommandInv

LEMMA PicoTablesAre ==
  ASSUME TypeInv
  PROVE  /\ topics \o <<Entry(Data1), Entry(Data2)>> \in Seq(PicoEntry)
         /\ topics \o <<Entry(Cmd1), Entry(Cmd2)>> \in Seq(PicoEntry)
<1>1. /\ <<Entry(Data1), Entry(Data2)>> \in Seq(PicoEntry)
      /\ <<Entry(Cmd1), Entry(Cmd2)>> \in Seq(PicoEntry)
  BY EntryType, Roles
<1> QED BY <1>1, Joined DEF TypeInv, PicoOK

LEMMA PicoLoopKeeps ==
  ASSUME Sound, Onward, Pico, UNCHANGED ardVars, PicoTask \/ \E t \in Sender : PicoPublish(t)
  PROVE  PhaseInv' /\ CommandInv'
<1>1. /\ TypeInv /\ ~Arduino /\ Pico' /\ ~Arduino' /\ (Orderly => Punctual)
      /\ UNCHANGED <<owed, table, handled>> /\ OwedMids' = OwedMids
  BY PicoStands
<1>2. CASE PicoConnect
  BY <1>2, PicoConnectKeeps
<1>3. CASE PicoRegistered
  <2>1. /\ UNCHANGED <<down, picoGot>> /\ task = "register" /\ task' = "run"
        /\ ProcessAll(topics \o <<Entry(Cmd1), Entry(Cmd2)>>)
    BY <1>3 DEF PicoRegistered, Subscribe
  <2> DEFINE tab == topics \o <<Entry(Cmd1), Entry(Cmd2)>>
  <2>2. tab \in Seq(PicoEntry) /\ ProcessAll(tab)
    BY <1>1, <2>1, PicoTablesAre
  <2> HIDE DEF tab
  <2> QED BY <2>1, <2>2, PicoRequestsKeep
<1>4. ASSUME NEW t \in Sender, PicoPublish(t) PROVE PhaseInv' /\ CommandInv'
  <2> DEFINE p == [type |-> "PUBLISH", tid |-> PicoTopicId(t), qos |-> 0, mid |-> 0,
                   msg |-> [topic |-> t, n |-> picoCount + 1]]
  <2>1. /\ UNCHANGED <<down, picoGot, task>> /\ task = "run" /\ up' = Append(up, p)
    BY <1>4 DEF PicoPublish, SendUp
  <2>2. up' \in Seq(UpPacket) /\ up \in Seq(UpPacket)
    BY <1>1, <1>4, PicoPublishType DEF TypeInv, NetOK
  <2>3. Kind(p) = "PUBLISH"
    BY DEF Kind
  <2> HIDE DEF p
  <2>4. p \in UpPacket
    BY <2>1, <2>2
  <2>5. "PUBLISH" \notin CmdAcks /\ {"PUBLISH"} \cap (CmdAcks \cup {"CONNECT", "SUBSCRIBE"}) = {}
    BY DEF CmdAcks
  <2>6. /\ AskKeeps({"PUBLISH"}) /\ TellKeeps({}) /\ ToldCmds' \subseteq ToldCmds
        /\ AckMids' \subseteq AckMids
    BY <1>1, <2>1, <2>3, <2>4, <2>5, SendsOne
  <2>7. ~Before /\ ~Before' /\ Past /\ ~Awaiting /\ Got' = Got
    BY <1>1, <2>1 DEF Before, Past, Awaiting, Got
  <2> QED BY <1>1, <2>5, <2>6, <2>7, OtherMoves
<1> QED BY <1>2, <1>3, <1>4 DEF PicoTask

LEMMA PicoTimeoutKeeps ==
  ASSUME Sound, Onward, Pico, UNCHANGED ardVars, PicoTimeout, InTime \/ Early
  PROVE  PhaseInv' /\ CommandInv'
<1> SUFFICES ASSUME Quiet PROVE PhaseInv' /\ CommandInv'
  BY LateIsSeen, LateIsExcused DEF InTime
<1>1. /\ TypeInv /\ ~Arduino /\ Pico' /\ ~Arduino' /\ (Orderly => Punctual)
      /\ UNCHANGED <<owed, table, handled>> /\ OwedMids' = OwedMids
  BY PicoStands
<1>2. CASE PicoRegister
  <2>1. /\ UNCHANGED <<down, picoGot>> /\ task = "wait" /\ task' = "register"
        /\ ProcessAll(topics \o <<Entry(Data1), Entry(Data2)>>)
    BY <1>2 DEF PicoRegister
  <2> DEFINE tab == topics \o <<Entry(Data1), Entry(Data2)>>
  <2>2. tab \in Seq(PicoEntry) /\ ProcessAll(tab)
    BY <1>1, <2>1, PicoTablesAre
  <2> HIDE DEF tab
  <2> QED BY <2>1, <2>2, PicoRequestsKeep
<1>3. CASE PicoRegisterTimeout
  <2>1. /\ UNCHANGED <<down, picoGot>> /\ task = "register" /\ task' = "run"
        /\ ProcessAll(topics \o <<Entry(Cmd1), Entry(Cmd2)>>)
    BY <1>3 DEF PicoRegisterTimeout, Subscribe
  <2> DEFINE tab == topics \o <<Entry(Cmd1), Entry(Cmd2)>>
  <2>2. tab \in Seq(PicoEntry) /\ ProcessAll(tab)
    BY <1>1, <2>1, PicoTablesAre
  <2> HIDE DEF tab
  <2> QED BY <2>1, <2>2, PicoRequestsKeep
<1>4. CASE PicoAge
  <2>1. UNCHANGED <<up, down, task, picoGot>>
    BY <1>4 DEF PicoAge
  <2>2. UNCHANGED <<packetQ, brokerQ, fromBroker>>
    BY OnwardKeeps
  <2>3. /\ AskKeeps({}) /\ TellKeeps({}) /\ ToldCmds' \subseteq ToldCmds /\ AckMids' \subseteq AckMids
        /\ {} \cap (CmdAcks \cup {"CONNECT", "SUBSCRIBE"}) = {} /\ {} \cap Requests = {}
    BY <2>1, <2>2, AskedIsKept, ToldIsKept
  <2>4. (Before' <=> Before) /\ (Past' <=> Past) /\ (Awaiting' <=> Awaiting) /\ Got' = Got
    BY <1>1, <2>1 DEF Before, Past, Awaiting, Got
  <2> QED BY <1>1, <2>3, <2>4, OtherMoves
<1> QED BY <1>2, <1>3, <1>4 DEF PicoTimeout

(* A command is executed and acknowledged at once.                         *)
LEMMA PicoReceiveCommandKeeps ==
  ASSUME Sound, Onward, Pico, UNCHANGED ardVars, PicoReceiveCommand
  PROVE  PhaseInv' /\ CommandInv'
<1>1. /\ TypeInv /\ ~Arduino /\ Pico' /\ ~Arduino' /\ (Orderly => Punctual)
      /\ (Orderly => ConnectInv /\ SubscribeInv /\ KnownInv /\ AgreeInv)
      /\ UNCHANGED <<owed, table, handled>> /\ OwedMids' = OwedMids
  BY PicoStands
<1> DEFINE p == [type |-> IF Head(down).qos = 1 THEN "PUBACK" ELSE "PUBREC", mid |-> Head(down).mid]
<1>2. /\ down # <<>> /\ Head(down).type = "PUBLISH" /\ down' = Tail(down) /\ task' = task
      /\ picoGot' = picoGot \cup {Head(down).cmd} /\ up' = Append(up, p)
  BY DEF PicoReceiveCommand, PicoReceiving, SendUp
<1>3. /\ TellKeeps({}) /\ ToldCmds' \subseteq ToldCmds
      /\ Head(down) \in ToldSet /\ Head(down) \in DownPacket
      /\ UNCHANGED <<packetQ, brokerQ, fromBroker>>
      /\ \A A : Kind(Head(down)) \in A => Telling(A)
  BY <1>1, <1>2, ClientTakes
<1> DEFINE c == [mid |-> Head(down).mid, cmd |-> Head(down).cmd]
<1>4. c \in ToldCmds /\ Telling({"PUBLISH"}) /\ c.mid = Head(down).mid /\ c.cmd = Head(down).cmd
  BY <1>1, <1>2, <1>3, CommandTold
<1>5. p \in UpPacket /\ Kind(p) \in CmdAcks /\ p.mid = c.mid
  <2>1. Head(down).mid \in Nat
    BY <1>2, <1>3, DownKinds DEF CommandSent
  <2> QED BY <2>1 DEF UpPacket, Ack, Kind, CmdAcks
<1> HIDE DEF c, p
<1>6. AskKeeps({Kind(p)}) /\ AckMids' \subseteq AckMids \cup {c.mid}
  <2>1. AskKeeps({Kind(p)}) /\ AckMids' \subseteq AckMids \cup {m \in {p.mid} : p.type \in CmdAcks}
    BY <1>1, <1>2, <1>3, <1>5, SendingOne
  <2> QED BY <1>5, <2>1
<1>7. (Before' <=> Before) /\ (Past' <=> Past) /\ (Awaiting' <=> Awaiting) /\ Got' = Got \cup {c.cmd}
  BY <1>1, <1>2, <1>4 DEF Before, Past, Awaiting, Got
<1>8. UNCHANGED <<scenario, broker, link, received>>
  BY OnwardKeeps
<1>9. Punctual => ~Before
  BY <1>4 DEF Sound, PhaseInv
<1>10. ASSUME Orderly PROVE SubscribeInv' /\ AgreeInv'
  <2>1. SubscribeInv /\ AgreeInv
    BY <1>1, <1>10
  <2>2. SubscribeInv'
    BY <1>4, <1>8, <2>1 DEF SubscribeInv
  <2>3. Settling' \subseteq Settling \cup {c.mid}
    BY <1>1, <1>6 DEF Settling
  <2> QED BY <1>3, <1>4, <1>7, <1>8, <2>1, <2>2, <2>3, CommandShown
<1>11. "CONNECT" \notin {Kind(p)}
  BY <1>5 DEF CmdAcks
<1> QED BY <1>1, <1>3, <1>6, <1>7, <1>9, <1>10, <1>11, ClientMoves

LEMMA PicoReceiveKeeps ==
  ASSUME Sound, Onward, Pico, UNCHANGED ardVars, PicoReceive
  PROVE  PhaseInv' /\ CommandInv'
<1>1. /\ TypeInv /\ ~Arduino /\ Pico' /\ ~Arduino' /\ (Orderly => Punctual)
      /\ UNCHANGED <<owed, table, handled>> /\ OwedMids' = OwedMids
  BY PicoStands
<1>2. CASE PicoReceiveCommand
  BY <1>2, PicoReceiveCommandKeeps
<1>3. ASSUME down # <<>>, down' = Tail(down), UNCHANGED <<task, picoGot>>, NEW new,
             AskKeeps(new), AckMids' \subseteq AckMids,
             new \cap (CmdAcks \cup {"CONNECT", "SUBSCRIBE", "REGISTER"}) = {}
      PROVE  PhaseInv' /\ CommandInv'
  <2>1. TellKeeps({}) /\ ToldCmds' \subseteq ToldCmds
    BY <1>1, <1>3, ClientTakes
  <2>2. (Before' <=> Before) /\ (Past' <=> Past) /\ (Awaiting' <=> Awaiting) /\ Got' = Got
    BY <1>1, <1>3 DEF Before, Past, Awaiting, Got
  <2>3. new \cap (CmdAcks \cup {"CONNECT", "SUBSCRIBE"}) = {} /\ new \cap Requests = {}
    BY <1>3 DEF Requests
  <2> QED BY <1>1, <1>3, <2>1, <2>2, <2>3, OtherMoves
<1>4. CASE PicoReceivePubrel
  <2> DEFINE p == [type |-> "PUBCOMP", mid |-> Head(down).mid]
  <2>1. /\ down # <<>> /\ Head(down).type = "PUBREL" /\ down' = Tail(down)
        /\ UNCHANGED <<task, picoGot>> /\ up' = Append(up, p)
    BY <1>4 DEF PicoReceivePubrel, PicoReceiving, SendUp
  <2>2. Head(down) \in DownPacket /\ UNCHANGED <<packetQ, brokerQ, fromBroker>>
    BY <1>1, <2>1, ClientTakes
  <2>3. p \in UpPacket /\ Kind(p) = "PUBCOMP" /\ p.type \notin CmdAcks
    <3>1. Head(down).mid \in Nat
      BY <2>1, <2>2, DownKinds DEF Pubrel
    <3> QED BY <3>1 DEF UpPacket, Ack, Kind, CmdAcks
  <2> HIDE DEF p
  <2>4. AskKeeps({"PUBCOMP"}) /\ AckMids' \subseteq AckMids
    <3>1. AskKeeps({Kind(p)}) /\ AckMids' \subseteq AckMids \cup {m \in {p.mid} : p.type \in CmdAcks}
      BY <1>1, <2>1, <2>2, <2>3, SendingOne
    <3> QED BY <2>3, <3>1
  <2>5. {"PUBCOMP"} \cap (CmdAcks \cup {"CONNECT", "SUBSCRIBE", "REGISTER"}) = {}
    BY DEF CmdAcks
  <2> QED BY <1>3, <2>1, <2>4, <2>5
<1>5. CASE PicoReceiveConnack \/ PicoReceiveOther
           \/ PicoReceiveId("REGACK", Sender) \/ PicoReceiveId("SUBACK", Command)
  <2>1. down # <<>> /\ down' = Tail(down) /\ UNCHANGED <<up, task, picoGot>>
    BY <1>5 DEF PicoReceiveConnack, PicoReceiveOther, PicoReceiveId, PicoReceiving
  <2>2. /\ AskKeeps({}) /\ AckMids' \subseteq AckMids
        /\ {} \cap (CmdAcks \cup {"CONNECT", "SUBSCRIBE", "REGISTER"}) = {}
    BY <1>1, <2>1, ClientTakes
  <2> QED BY <1>3, <2>1, <2>2
<1> QED BY <1>2, <1>4, <1>5 DEF PicoReceive

(***************************************************************************)
(* The network, and whoever starts again.                                  *)
(***************************************************************************)
LEMMA NetFaultKeeps ==
  ASSUME Sound, Aside, NetFault, UNCHANGED gatewayVars
  PROVE  PhaseInv' /\ CommandInv'
<1>1. TypeInv /\ UNCHANGED <<client, link, broker, received>>
  BY DEF Sound, gatewayVars, pahoVars, brokerVars
<1>2. SessionKeeps /\ ClientKeeps
  BY <1>1 DEF SessionKeeps, ClientKeeps
<1>3. CASE NeverSeen({"repeated", "delayed"})'
  <2>1. Passes({"-"}, {"-"})
    BY <1>1, <1>3, LostPasses
  <2> QED BY <1>1, <1>2, <2>1, NothingNew, GatewayPasses
<1>4. CASE ~NeverSeen({"repeated", "delayed"})'
  <2>1. ~Orderly'
    BY <1>4 DEF Orderly, NeverSeen
  <2>2. AskAdds({}) /\ TellAdds({})
    <3>1. ASSUME NEW A
          PROVE  /\ Anywhere(AskedOut', AskedIn', AskedUp', A) => Asking(A)
                 /\ Anywhere(ToldDown', ToldIn', ToldOut', A) => Telling(A)
      BY <1>1, FaultAddsNothing DEF Asking, Telling
    <3> QED BY <3>1 DEF AskAdds, TellAdds
  <2>3. /\ (Punctual' => Punctual) /\ (Before' <=> Before) /\ owed' = owed /\ table' = table
        /\ UNCHANGED scenario
    BY AsideKeeps DEF Aside
  <2>4. {} \cap Requests = {} /\ {} \cap Given = {} /\ {} \cap CmdAcks = {} /\ "PUBLISH" \notin {}
        /\ broker'.subs \subseteq broker.subs
    BY <1>1
  <2>5. PhaseInv'
    BY <2>2, <2>3, <2>4, PhaseKept DEF Sound
  <2> QED BY <2>1, <2>5 DEF CommandInv
<1> QED BY <1>3, <1>4

LEMMA RebootKeeps ==
  ASSUME Onward, Fault("reboot")
  PROVE  PhaseInv' /\ CommandInv'
<1>1. ~Punctual'
  BY DEF Fault, Punctual, NeverSeen
<1> QED BY <1>1, LateIsExcused

LEMMA StutterKeeps ==
  ASSUME Sound, UNCHANGED vars
  PROVE  PhaseInv' /\ CommandInv'
<1>1. /\ UNCHANGED <<up, down, packetQ, brokerQ, fromBroker>>
      /\ UNCHANGED <<scenario, gatewayVars, ardVars, picoVars, seen>>
  BY DEF vars, netVars, gatewayVars, pahoVars, brokerVars, calm
<1>2. Onward /\ UNCHANGED <<owed, table, st, flag, task, handled, picoGot>>
  BY <1>1 DEF Onward, ardVars, picoVars
<1>3. AskKeeps({}) /\ TellKeeps({}) /\ AckMids' = AckMids /\ ToldCmds' = ToldCmds
  BY <1>1, AskedIsKept, ToldIsKept
<1>4. /\ (Before' <=> Before) /\ (Awaiting' <=> Awaiting) /\ (Past' <=> Past) /\ Got' = Got
  BY <1>2 DEF Onward, Before, Awaiting, Past, Got, Arduino, Pico
<1> QED BY <1>2, <1>3, <1>4, OtherMoves

(***************************************************************************)
(* The theorem.                                                            *)
(***************************************************************************)
LEMMA CommandInit == Init => PhaseInv /\ CommandInv
<1> SUFFICES ASSUME Init PROVE PhaseInv /\ CommandInv
  OBVIOUS
<1>1. up = <<>> /\ down = <<>> /\ packetQ = <<>> /\ brokerQ = <<>> /\ fromBroker = <<>>
  BY DEF Init, NetInit, GatewayInit
<1>2. /\ client = None /\ broker.subs = {} /\ broker.inflight = {} /\ received = {}
      /\ owed = NothingOwed /\ \A t \in Topic : table[t].id = 0
      /\ owed.puback = 0 /\ owed.pubrec = 0 /\ link = "none"
  BY DEF Init, GatewayInit, ArdInit, NoSession, NothingOwed, Unregistered
<1>3. \A A : ~Asking(A) /\ ~Telling(A)
  <2>1. Kinds(<<>>) = <<>> /\ \A who : KindsFrom(who, <<>>) = <<>>
    BY DEF Kinds, KindsFrom, Through
  <2>2. /\ AskedOut = <<>> /\ AskedIn = <<>> /\ AskedUp = <<>>
        /\ ToldDown = <<>> /\ ToldIn = <<>> /\ ToldOut = <<>>
    BY <1>1, <2>1 DEF AskedOut, AskedIn, AskedUp, ToldDown, ToldIn, ToldOut
  <2> QED BY <2>2, EmptyKinds DEF Asking, Telling, Anywhere
<1>4. \A A, B : AskedInOrder(A, B) /\ ToldInOrder(A, B)
  BY <1>3, NoneWithout DEF Asking, Telling, AskedInOrder, ToldInOrder
<1>5. AskedSet = {} /\ ToldSet = {} /\ FromSet = {} /\ Held(brokerQ) = {}
  BY <1>1, HeldFew DEF AskedSet, ToldSet, FromSet, EventsOf
<1>6. ToldCmds = {} /\ AckMids = {} /\ OwedMids = {}
  BY <1>2, <1>5 DEF ToldCmds, AckMids, OwedMids
<1>7. PhaseInv
  BY <1>2, <1>3 DEF PhaseInv
<1>8. ConnectInv /\ SubscribeInv
  BY <1>2, <1>3, <1>4 DEF ConnectInv, SubscribeInv
<1>9. KnownInv /\ AgreeInv
  BY <1>2, <1>6 DEF KnownInv, AgreeInv, Settling
<1> QED BY <1>7, <1>8, <1>9 DEF CommandInv

LEMMA CommandStep == TypeInv /\ PhaseInv /\ CommandInv /\ [Next]_vars => PhaseInv' /\ CommandInv'
<1> SUFFICES ASSUME TypeInv, PhaseInv, CommandInv, [Next]_vars
             PROVE  PhaseInv' /\ CommandInv'
  OBVIOUS
<1>0. Sound /\ UNCHANGED scenario /\ seen \subseteq seen'
  BY FaultsAreKept DEF Sound
<1>1. UNCHANGED gatewayVars => Onward
  BY <1>0 DEF Onward
<1>2. UNCHANGED <<ardVars, picoVars>> => Aside
  BY <1>0 DEF Aside
<1>3. CASE Client
  <2>1. CASE ArduinoLoop
    <3>1. Onward /\ Arduino /\ UNCHANGED picoVars /\ ArdLoop
      BY <1>1, <2>1 DEF ArduinoLoop
    <3> QED BY <1>0, <3>1, ArdConnectKeeps, ArdConnackedKeeps, ArdAcknowledgeKeeps, ArdLoopKeeps
         DEF ArdLoop
  <2>2. CASE ArduinoReceive
    BY <1>0, <1>1, <2>2, ArdReceiveKeeps DEF ArduinoReceive
  <2>3. CASE ArduinoTimer(InTime)
    BY <1>0, <1>1, <2>3, ArdTimeoutKeeps DEF ArduinoTimer
  <2>4. CASE ArduinoPublish
    BY <1>0, <1>1, <2>4, ArdLoopKeeps DEF ArduinoPublish
  <2>5. CASE PicoLoop
    BY <1>0, <1>1, <2>5, PicoLoopKeeps DEF PicoLoop
  <2>6. CASE PicoCallback
    BY <1>0, <1>1, <2>6, PicoReceiveKeeps DEF PicoCallback
  <2>7. CASE PicoTimer(InTime)
    BY <1>0, <1>1, <2>7, PicoTimeoutKeeps DEF PicoTimer
  <2>8. CASE PicoButton
    BY <1>0, <1>1, <2>8, PicoLoopKeeps DEF PicoButton
  <2> QED BY <1>3, <2>1, <2>2, <2>3, <2>4, <2>5, <2>6, <2>7, <2>8 DEF Client
<1>4. CASE Gateway
  <2>1. CASE ClientRecvTask /\ UNCHANGED <<ardVars, picoVars>>
    BY <1>0, <1>2, <2>1, ClientRecvKeeps
  <2>2. CASE PacketHandleTask /\ UNCHANGED <<ardVars, picoVars>>
    BY <1>0, <1>2, <2>2, HandleConnectKeeps, HandleRegisterKeeps, HandleSubscribeKeeps,
       HandleOthersKeep, HandleConnackKeeps, HandleCommandKeeps DEF PacketHandleTask
  <2>3. CASE BrokerSendTask /\ UNCHANGED <<ardVars, picoVars>>
    BY <1>0, <1>2, <2>3, SendConnectKeeps, SendPacketKeeps, SendFailsKeeps DEF BrokerSendTask
  <2>4. CASE (ConnectSended \/ BrokerRecvTask \/ BrokerRecvClose) /\ UNCHANGED <<ardVars, picoVars>>
    BY <1>0, <1>2, <2>4, OtherGatewayKeeps
  <2> QED BY <1>4, <2>1, <2>2, <2>3, <2>4 DEF Gateway, GatewayStep
<1>5. CASE Environment
  <2>1. CASE ArduinoTimer(Early)
    BY <1>0, <1>1, <2>1, ArdTimeoutKeeps DEF ArduinoTimer
  <2>2. CASE PicoTimer(Early)
    BY <1>0, <1>1, <2>2, PicoTimeoutKeeps DEF PicoTimer
  <2>3. CASE ArduinoReboot \/ PicoPowerCycle
    BY <1>1, <2>3, RebootKeeps DEF ArduinoReboot, ArdReboot, PicoPowerCycle, PicoReboot
  <2>4. ASSUME NEW t \in Command, CommandArrives(t), UNCHANGED <<ardVars, picoVars>>
        PROVE  PhaseInv' /\ CommandInv'
    BY <1>0, <1>2, <2>4, CommandArrivesKeeps
  <2>5. CASE BrokerDrops /\ UNCHANGED <<ardVars, picoVars>>
    BY <1>0, <1>2, <2>5, OtherGatewayKeeps
  <2>6. CASE GatewayRestart /\ UNCHANGED <<ardVars, picoVars>>
    BY <1>0, <1>2, <2>6, GatewayRestartKeeps
  <2>7. CASE NetFault /\ UNCHANGED <<gatewayVars, ardVars, picoVars>>
    BY <1>0, <1>2, <2>7, NetFaultKeeps
  <2> QED BY <1>5, <2>1, <2>2, <2>3, <2>4, <2>5, <2>6, <2>7 DEF Environment, GatewayStep
<1>6. CASE UNCHANGED vars
  BY <1>0, <1>6, StutterKeeps
<1> QED BY <1>3, <1>4, <1>5, <1>6 DEF Next

(* Whatever is lost, however often the gateway restarts or the broker      *)
(* hangs up: as long as the client does not restart and no datagram is     *)
(* repeated or comes late, the broker counts no command as received that   *)
(* the client has not shown or executed (handle_publish, send_puback,      *)
(* send_pubrec, handlePuback).                                             *)
THEOREM CommandsAreHandled == Spec => []CommandAckedMeansHandled
<1>1. TypeInv /\ CommandInv => CommandAckedMeansHandled
  <2> SUFFICES ASSUME CommandInv, Orderly PROVE received \subseteq handled \cup picoGot
    BY DEF CommandAckedMeansHandled, Orderly
  <2> QED BY DEF CommandInv, AgreeInv, Got
<1> QED BY <1>1, TypeInvHolds, CommandInit, CommandStep, PTL DEF Spec
====

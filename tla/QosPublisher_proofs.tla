------------------------- MODULE QosPublisher_proofs -------------------------
(***************************************************************************)
(* Proofs about the Pico's QoS engine.                                     *)
(***************************************************************************)
EXTENDS QosPublisher, SequenceTheorems, FiniteSetTheorems, TLAPS

(* TypeOK with what the code points say about the task's locals.           *)
TypeInv ==
  /\ TypeOK
  /\ pc = "store" => cur \in [msg : Kept, id : Id]
  /\ pc = "resend" => retryList # <<>>
  /\ due \subseteq Used

(* get_next_msg_id returns a valid id and leaves a valid counter.          *)
LEMMA NextIdType == nextId \in 0 .. MaxId => NextId \in Id /\ NextId + 1 \in 0 .. MaxId
BY QosAssumption DEF NextId, Id

(* Only a sequence of one element has an empty tail.                       *)
LEMMA TailNonEmpty ==
  ASSUME NEW S, NEW q \in Seq(S), q # <<>>, Len(q) # 1
  PROVE  Tail(q) # <<>>
<1>1. Len(q) \in Nat /\ Len(q) # 0
  OBVIOUS
<1>2. Len(Tail(q)) = Len(q) - 1
  BY <1>1
<1>3. Len(Tail(q)) # 0
  BY <1>1, <1>2
<1>4. Tail(q) \in Seq(S)
  BY <1>1
<1> QED BY <1>3, <1>4, EmptySeq

(* The network keeps datagrams as they are, or loses them.                 *)
LEMMA ToGwType ==
  ASSUME NEW rest \in Seq(Upward), NEW d \in Upward, lost \in 0 .. MaxRetries + 1,
         ToGw(rest, d)
  PROVE  toGw' \in Seq(Upward) /\ lost' \in 0 .. MaxRetries + 1
BY QosAssumption DEF ToGw, Lose

(* The same for datagrams to the Pico.                                     *)
LEMMA ToPicoType ==
  ASSUME NEW d \in Downward, toPico \in Seq(Downward), lost \in 0 .. MaxRetries + 1,
         ToPico(d)
  PROVE  toPico' \in Seq(Downward) /\ lost' \in 0 .. MaxRetries + 1
BY QosAssumption DEF ToPico, Lose

(* Initially nothing is tracked or under way.                              *)
LEMMA QosTypeInit == Init => TypeInv
BY QosAssumption DEF Init, TypeInv, TypeOK, Used

(* A new message: its id, and where the task goes.                         *)
LEMMA PublishType == ASSUME TypeInv, NEW m \in Msg, Publish(m) PROVE TypeInv'
<1>1. /\ nextId \in 0 .. MaxId /\ NextId \in Id /\ nextId' \in 0 .. MaxId
  BY NextIdType DEF Publish, TypeInv, TypeOK
<1>2. published' \in SUBSET Msg
  BY DEF Publish, TypeInv, TypeOK
<1>3. /\ toGw' \in Seq(Upward) /\ lost' \in 0 .. MaxRetries + 1
      /\ \/ pc' = "store" /\ m \in Kept /\ cur' = [msg |-> m, id |-> NextId]
         \/ pc' = pc /\ cur' = cur
  <2> DEFINE id == IF m \in Kept THEN NextId ELSE 0
             d  == [type |-> "PUBLISH", id |-> id, msg |-> m]
  <2>1. d \in Upward
    BY <1>1 DEF Upward
  <2>2. CASE /\ ToGw(toGw, d)
             /\ IF m \in Kept THEN pc' = "store" /\ cur' = [msg |-> m, id |-> id]
                              ELSE UNCHANGED <<pc, cur>>
    BY <2>1, <2>2, ToGwType DEF TypeInv, TypeOK
  <2>3. CASE UNCHANGED <<toGw, lost, pc, cur>>
    BY <2>3 DEF TypeInv, TypeOK
  <2> QED BY <2>2, <2>3 DEF Publish
<1>4. UNCHANGED <<slots, recent, due, retryList, toPico, stored, delivered, refused, gaveUp>>
      /\ pc = "idle"
  BY DEF Publish, tableVars, gwVars
<1>5. Used' = Used
  BY <1>4 DEF Used
<1>6. cur' \in [msg : Kept, id : Id] \cup {None} /\ (pc' = "store" => cur' \in [msg : Kept, id : Id])
      /\ pc' \in {"idle", "store"}
  BY <1>1, <1>3, <1>4 DEF TypeInv, TypeOK
<1> QED BY <1>1, <1>2, <1>3, <1>4, <1>5, <1>6 DEF TypeInv, TypeOK

(* A message takes a slot, or is not tracked.                              *)
LEMMA StoreType == ASSUME TypeInv, Store PROVE TypeInv'
<1>1. /\ pc' = "idle" /\ cur' = None /\ cur \in [msg : Kept, id : Id]
      /\ UNCHANGED <<nextId, due, retryList, toGw, toPico, stored, delivered, refused,
                     published, gaveUp, lost>>
  BY DEF Store, TypeInv, gwVars
<1>2. /\ slots' \in [Slot -> Entry \cup {None}] /\ recent' \in SUBSET Slot
      /\ Used \subseteq Used'
  <2>1. CASE UNCHANGED tableVars
    BY <2>1 DEF tableVars, TypeInv, TypeOK, Used
  <2>2. CASE \E s \in Slot \ Used :
               /\ slots' = [slots EXCEPT ![s] =
                    [msg |-> cur.msg, id |-> cur.id, step |-> 0, retries |-> 0]]
               /\ recent' = recent \cup {s}
    <3>1. PICK s \in Slot \ Used :
               /\ slots' = [slots EXCEPT ![s] =
                    [msg |-> cur.msg, id |-> cur.id, step |-> 0, retries |-> 0]]
               /\ recent' = recent \cup {s}
      BY <2>2
    <3> DEFINE e == [msg |-> cur.msg, id |-> cur.id, step |-> 0, retries |-> 0]
    <3>2. e \in Entry
      BY <1>1, QosAssumption DEF Entry
    <3>3. \A t \in Used : t # s /\ slots'[t] = slots[t]
      BY <3>1 DEF TypeInv, TypeOK, Used
    <3> HIDE DEF e
    <3> QED BY <3>1, <3>2, <3>3 DEF TypeInv, TypeOK, Used, e
  <2> QED BY <2>1, <2>2 DEF Store
<1> QED BY <1>1, <1>2 DEF TypeInv, TypeOK

(* An entry that is copied is still an entry of the snapshot.              *)
LEMMA CopiedType ==
  ASSUME TypeInv, NEW s \in Used
  PROVE  slots[s] \in Entry /\ slots[s].msg \in Kept /\ Copied(s) \in Copy
BY DEF TypeInv, TypeOK, Used, Copied, Entry, Copy

(* Phase 1: a slot expires, or is copied and counted.                      *)
LEMMA ScanType == ASSUME TypeInv, Scan PROVE TypeInv'
<1>1. PICK s \in due : due' = due \ {s} /\ (Expire(s) \/ Retry(s))
  BY DEF Scan
<1>2. s \in Used /\ s \in Slot /\ slots[s] \in Entry /\ slots[s].msg \in Kept
      /\ Copied(s) \in Copy
  BY <1>1, CopiedType DEF TypeInv, Used
<1>3. /\ pc = "scan"
      /\ UNCHANGED <<recent, nextId, pc, cur, toGw, toPico, stored, delivered, refused,
                     published, lost>>
  BY DEF Scan, gwVars
<1>4. /\ slots' \in [Slot -> Entry \cup {None}] /\ due' \subseteq Used'
      /\ gaveUp' \in SUBSET Msg /\ retryList' \in Seq(Copy)
  <2>1. CASE Expire(s)
    <3>1. slots' \in [Slot -> Entry \cup {None}]
      BY <1>2, <2>1 DEF Expire, TypeInv, TypeOK
    <3>2. \A t \in Slot \ {s} : slots'[t] = slots[t]
      BY <1>2, <2>1 DEF Expire, TypeInv, TypeOK
    <3>3. due' \subseteq Used'
      BY <1>1, <3>2 DEF TypeInv, Used
    <3>4. gaveUp' \in SUBSET Msg /\ retryList' \in Seq(Copy)
      BY <1>2, <2>1 DEF Expire, TypeInv, TypeOK, Kept
    <3> QED BY <3>1, <3>3, <3>4
  <2>2. CASE Retry(s)
    <3> DEFINE e == [slots[s] EXCEPT !.retries = @ + 1]
    <3>1. e \in Entry /\ slots' = [slots EXCEPT ![s] = e]
      <4>1. slots[s].retries + 1 \in 0 .. MaxRetries
        BY <1>2, <2>2, QosAssumption DEF Retry, Entry
      <4> QED BY <1>2, <2>2, <4>1 DEF Retry, Entry
    <3>2. e # None
      <4>1. slots[s] # None /\ e \in Entry
        BY <1>2, <3>1 DEF Used
      <4> QED BY <4>1, NoneAssumption
    <3>3. \A t \in Slot \ {s} : slots'[t] = slots[t]
      BY <1>2, <3>1 DEF TypeInv, TypeOK
    <3> HIDE DEF e
    <3>4. slots' \in [Slot -> Entry \cup {None}] /\ slots'[s] = e
      BY <1>2, <3>1 DEF TypeInv, TypeOK
    <3>5. due' \subseteq Used'
      BY <1>1, <1>2, <3>2, <3>3, <3>4 DEF TypeInv, Used
    <3> QED BY <1>2, <2>2, <3>4, <3>5 DEF Retry, TypeInv, TypeOK
  <2> QED BY <1>1, <2>1, <2>2
<1> QED BY <1>1, <1>3, <1>4 DEF TypeInv, TypeOK

(* The other steps of check_qos_timeouts.                                  *)
LEMMA CheckType ==
  ASSUME TypeInv, StartCheck \/ ScanDone \/ Resend PROVE TypeInv'
<1>1. CASE StartCheck
  <2>1. /\ due' \subseteq Used /\ recent' = {} /\ pc' \in {"idle", "scan"}
        /\ UNCHANGED <<slots, nextId, cur, retryList, toGw, toPico, stored, delivered,
                       refused, published, gaveUp, lost>>
    BY <1>1 DEF StartCheck, gwVars
  <2> QED BY <2>1 DEF TypeInv, TypeOK, Used
<1>2. CASE ScanDone
  <2>1. /\ pc' \in {"idle", "resend"} /\ (pc' = "resend" => retryList # <<>>)
        /\ UNCHANGED <<slots, recent, due, nextId, cur, retryList, toGw, toPico, stored,
                       delivered, refused, published, gaveUp, lost>>
    BY <1>2 DEF ScanDone, gwVars, tableVars
  <2> QED BY <2>1 DEF TypeInv, TypeOK, Used
<1>3. CASE Resend
  <2>1. /\ pc = "resend" /\ retryList # <<>> /\ retryList \in Seq(Copy)
        /\ retryList' = Tail(retryList)
        /\ pc' = IF Len(retryList) = 1 THEN "idle" ELSE "resend"
        /\ UNCHANGED <<slots, recent, due, nextId, cur, toPico, stored,
                       delivered, refused, published, gaveUp>>
    BY <1>3 DEF Resend, gwVars, tableVars, TypeInv, TypeOK
  <2>2. Head(retryList) \in Copy /\ retryList' \in Seq(Copy)
        /\ (pc' = "resend" => retryList' # <<>>)
    <3>1. Head(retryList) \in Copy /\ Tail(retryList) \in Seq(Copy)
      BY <2>1
    <3>2. Len(retryList) # 1 => Tail(retryList) # <<>>
      BY <2>1, TailNonEmpty
    <3> QED BY <2>1, <3>1, <3>2
  <2>3. toGw' \in Seq(Upward) /\ lost' \in 0 .. MaxRetries + 1
    <3> DEFINE e == Head(retryList)
               d == IF Qos[e.msg] = 2 /\ e.step = 1 THEN [type |-> "PUBREL", id |-> e.id]
                    ELSE [type |-> "PUBLISH", id |-> e.id, msg |-> e.msg]
    <3>1. d \in Upward
      BY <2>2 DEF Copy, Upward
    <3>2. ToGw(toGw, d)
      BY <1>3 DEF Resend
    <3> HIDE DEF d
    <3> QED BY <3>1, <3>2, ToGwType DEF TypeInv, TypeOK
  <2> QED BY <2>1, <2>2, <2>3 DEF TypeInv, TypeOK, Used
<1> QED BY <1>1, <1>2, <1>3

(* The receive callback frees slots or advances one.                       *)
LEMMA CallbackType == ASSUME TypeInv, Callback PROVE TypeInv'
<1>1. toPico # <<>> /\ toPico \in Seq(Downward) /\ Head(toPico) \in Downward
      /\ toPico' = Tail(toPico) /\ toPico' \in Seq(Downward)
  <2>1. toPico # <<>> /\ toPico \in Seq(Downward) /\ toPico' = Tail(toPico)
    BY DEF Callback, ReceiveFinal, ReceivePubrec, TypeInv, TypeOK
  <2> QED BY <2>1
<1>2. CASE ReceiveFinal
  <2>1. PICK S \in SUBSET Used :
          /\ slots' = [s \in Slot |-> IF s \in S THEN None ELSE slots[s]]
          /\ recent' = recent \ S /\ due' = due \ S
    BY <1>2 DEF ReceiveFinal, Remove, Free, With
  <2>2. UNCHANGED <<nextId, pc, cur, retryList, toGw, stored, delivered, refused, published,
                    gaveUp, lost>>
    BY <1>2 DEF ReceiveFinal, gwVars
  <2>3. due' \subseteq Used'
    BY <2>1 DEF TypeInv, Used
  <2> QED BY <1>1, <2>1, <2>2, <2>3 DEF TypeInv, TypeOK
<1>3. CASE ReceivePubrec
  <2> DEFINE id == Head(toPico).id
  <2>1. /\ toGw' \in Seq(Upward) /\ lost' \in 0 .. MaxRetries + 1
    <3>1. [type |-> "PUBREL", id |-> id] \in Upward
      BY <1>1 DEF Downward, Upward
    <3> QED BY <1>3, <3>1, ToGwType DEF ReceivePubrec, TypeInv, TypeOK
  <2>2. UNCHANGED <<nextId, pc, cur, retryList, stored, delivered, refused, published, gaveUp>>
    BY <1>3 DEF ReceivePubrec, gwVars
  <2>3. /\ slots' \in [Slot -> Entry \cup {None}] /\ recent' \in SUBSET Slot
        /\ due' \in SUBSET Slot /\ due' \subseteq Used'
    <3>1. CASE UNCHANGED <<slots, recent, due>>
      BY <3>1 DEF TypeInv, TypeOK, Used
    <3>2. CASE \E s \in With(id) : /\ slots' = [slots EXCEPT ![s].step = 1]
                                   /\ recent' = recent \cup {s} /\ due' = due \ {s}
      <4>1. PICK s \in With(id) : /\ slots' = [slots EXCEPT ![s].step = 1]
                                  /\ recent' = recent \cup {s} /\ due' = due \ {s}
        BY <3>2
      <4>2. s \in Used /\ s \in Slot /\ slots[s] \in Entry
        BY CopiedType DEF With, Used
      <4> DEFINE e == [slots[s] EXCEPT !.step = 1]
      <4>3. e \in Entry /\ slots' = [slots EXCEPT ![s] = e]
        BY <4>1, <4>2 DEF Entry
      <4> HIDE DEF e
      <4>4. slots' \in [Slot -> Entry \cup {None}]
        BY <4>2, <4>3 DEF TypeInv, TypeOK
      <4>5. \A t \in Slot \ {s} : slots'[t] = slots[t]
        BY <4>2, <4>3 DEF TypeInv, TypeOK
      <4>6. due' \subseteq Used'
        BY <4>1, <4>5 DEF TypeInv, Used
      <4> QED BY <4>1, <4>2, <4>4, <4>6 DEF TypeInv, TypeOK
    <3> QED BY <1>3, <3>1, <3>2 DEF ReceivePubrec
  <2> QED BY <1>1, <2>1, <2>2, <2>3 DEF TypeInv, TypeOK
<1> QED BY <1>2, <1>3 DEF Callback

(* The gateway takes a datagram, answers it, and may deliver.              *)
LEMMA GatewayType == ASSUME TypeInv, GatewayStep PROVE TypeInv'
<1>1. /\ UNCHANGED <<slots, recent, nextId, pc, cur, due, retryList, published, gaveUp>>
      /\ toGw \in Seq(Upward) /\ stored \in SUBSET [id : Id, msg : Kept]
      /\ delivered \in [Msg -> Nat] /\ refused \in SUBSET Msg
      /\ toPico \in Seq(Downward) /\ lost \in 0 .. MaxRetries + 1
  BY DEF GatewayStep, tableVars, taskVars, TypeInv, TypeOK
<1>2. ASSUME NEW m \in Msg, Deliver(m) PROVE delivered' \in [Msg -> Nat]
  BY <1>1, <1>2 DEF Deliver
<1>3. ASSUME toGw # <<>> PROVE Head(toGw) \in Upward /\ Tail(toGw) \in Seq(Upward)
  BY <1>1, <1>3
<1>4. ASSUME NEW id \in Id, NEW ty \in {"PUBACK", "PUBREC", "PUBCOMP"},
             ToPico([type |-> ty, id |-> id])
      PROVE  toPico' \in Seq(Downward) /\ lost' \in 0 .. MaxRetries + 1
  <2>1. [type |-> ty, id |-> id] \in Downward
    BY DEF Downward
  <2> QED BY <1>1, <1>4, <2>1, ToPicoType
<1> DEFINE d == Head(toGw)
<1>5. /\ toGw' \in Seq(Upward) /\ toPico' \in Seq(Downward)
      /\ lost' \in 0 .. MaxRetries + 1
      /\ stored' \in SUBSET [id : Id, msg : Kept] /\ refused' \in SUBSET Msg
      /\ delivered' \in [Msg -> Nat]
  <2>1. CASE GwPublish
    <3>1. /\ d \in Upward /\ d.type = "PUBLISH" /\ toGw' \in Seq(Upward)
          /\ Deliver(d.msg) /\ UNCHANGED <<stored, refused>>
          /\ IF Qos[d.msg] = 1 THEN ToPico([type |-> "PUBACK", id |-> d.id])
                               ELSE UNCHANGED <<toPico, lost>>
      BY <1>3, <2>1 DEF GwPublish, GwReceive
    <3>2. d.msg \in Msg /\ (Qos[d.msg] = 1 => d.id \in Id)
      BY <3>1 DEF Upward, Kept
    <3>3. toPico' \in Seq(Downward) /\ lost' \in 0 .. MaxRetries + 1
      BY <1>1, <1>4, <3>1, <3>2
    <3> QED BY <1>1, <1>2, <3>1, <3>2, <3>3
  <2>2. CASE GwPublish2
    <3>1. /\ d \in Upward /\ d.type = "PUBLISH" /\ toGw' \in Seq(Upward) /\ Qos[d.msg] = 2
          /\ stored' \in {stored, stored \cup {[id |-> d.id, msg |-> d.msg]}}
          /\ ToPico([type |-> "PUBREC", id |-> d.id])
          /\ UNCHANGED <<delivered, refused>>
      BY <1>3, <2>2 DEF GwPublish2, GwReceive
    <3>2. d.msg \in Kept /\ d.id \in Id
      BY <3>1 DEF Upward, Kept
    <3>3. toPico' \in Seq(Downward) /\ lost' \in 0 .. MaxRetries + 1
      BY <1>4, <3>1, <3>2
    <3>4. stored' \in SUBSET [id : Id, msg : Kept]
      BY <1>1, <3>1, <3>2
    <3> QED BY <1>1, <3>1, <3>3, <3>4
  <2>3. CASE GwPubrel
    <3>1. /\ d \in Upward /\ d.type = "PUBREL" /\ toGw' \in Seq(Upward)
          /\ ToPico([type |-> "PUBCOMP", id |-> d.id]) /\ UNCHANGED refused
          /\ \/ \E x \in stored : Deliver(x.msg) /\ stored' = stored \ {x}
             \/ UNCHANGED <<stored, delivered>>
      BY <1>3, <2>3 DEF GwPubrel, GwReceive
    <3>2. d.id \in Id
      BY <3>1 DEF Upward
    <3>3. toPico' \in Seq(Downward) /\ lost' \in 0 .. MaxRetries + 1
      BY <1>4, <3>1, <3>2
    <3>4. stored' \in SUBSET [id : Id, msg : Kept] /\ delivered' \in [Msg -> Nat]
      <4>1. CASE UNCHANGED <<stored, delivered>>
        BY <1>1, <4>1
      <4>2. CASE \E x \in stored : Deliver(x.msg) /\ stored' = stored \ {x}
        <5>1. PICK x \in stored : Deliver(x.msg) /\ stored' = stored \ {x}
          BY <4>2
        <5>2. x.msg \in Msg
          BY <1>1 DEF Kept
        <5>3. delivered' \in [Msg -> Nat]
          BY <1>2, <5>1, <5>2
        <5> QED BY <1>1, <5>1, <5>3
      <4> QED BY <3>1, <4>1, <4>2
    <3> QED BY <1>1, <3>1, <3>3, <3>4
  <2>4. CASE GwRefuse
    <3>1. /\ d \in Upward /\ d.type = "PUBLISH" /\ toGw' \in Seq(Upward) /\ d.msg \in Kept
          /\ refused' = refused \cup {d.msg}
          /\ ToPico([type |-> "PUBACK", id |-> d.id])
          /\ UNCHANGED <<stored, delivered>>
      BY <1>3, <2>4 DEF GwRefuse, GwReceive
    <3>2. d.msg \in Msg /\ d.id \in Id
      BY <3>1 DEF Upward, Kept
    <3> QED BY <1>1, <1>4, <3>1, <3>2
  <2> QED BY <2>1, <2>2, <2>3, <2>4 DEF GatewayStep
<1> QED BY <1>1, <1>5 DEF TypeInv, TypeOK, Used

(* Every step keeps the types.                                             *)
LEMMA QosTypeStep == ASSUME TypeInv, [Next]_vars PROVE TypeInv'
<1>1. CASE UNCHANGED vars
  BY <1>1 DEF vars, tableVars, taskVars, gwVars, TypeInv, TypeOK, Used
<1> QED
  BY <1>1, PublishType, StoreType, ScanType, CheckType, CallbackType, GatewayType
     DEF Next, TaskStep

(* Message ids stay valid through any number of wrap-arounds, and          *)
(* retry_count within its limit, for any table and any set of messages.    *)
THEOREM QosTypeCorrect == Spec => []TypeOK
<1>1. TypeInv => TypeOK
  BY DEF TypeInv
<1> QED BY <1>1, QosTypeInit, QosTypeStep, PTL DEF Spec
------------------------------------------------------------------------------
(***************************************************************************)
(* The engine implements QosDelivery as long as no id is given while       *)
(* somebody still holds it.  Then every tracked message owns its id,       *)
(* whoever holds an id holds it for its owner, and an acknowledgement      *)
(* under way says what has happened to the owner.  The transmissions of a  *)
(* message, past, under way and listed, are counted against its retries.   *)
(***************************************************************************)
IdsOf(q) == {q[i].id : i \in 1 .. Len(q)}

HeldIds ==
  Id \cap ({slots[s].id : s \in Used} \cup (IF pc = "store" THEN {cur.id} ELSE {})
             \cup IdsOf(retryList) \cup IdsOf(toGw) \cup IdsOf(toPico)
             \cup {x.id : x \in stored})

(* The id that get_next_msg_id returns is nobody's any more.               *)
GivesFreeId == \A m \in Kept : Publish(m) => NextId \notin HeldIds

(* 0: not published yet, or its id has gone to another message.            *)
Owners == [Kept -> 0 .. MaxId - 1]

(* The broker has the message, or had it; and more than has it.            *)
Taken(m) == delivered[m] > 0 \/ \E x \in stored : x.msg = m
Done(m)  == delivered[m] > 0 \/ m \in refused

IdsOwned(own) ==
  /\ own \in Owners
  /\ \A m \in Kept : own[m] # 0 => m \in published
  /\ \A m, n \in Kept : own[m] # 0 /\ own[m] = own[n] => m = n

TableOwned(own) ==
  /\ \A s \in Used :
       /\ slots[s].id = own[slots[s].msg] /\ slots[s].msg \notin gaveUp
       /\ slots[s].step = 1 => Taken(slots[s].msg)
  /\ \A s, t \in Used : slots[s].msg = slots[t].msg => s = t
  /\ pc = "store" => /\ cur.id = own[cur.msg] /\ cur.msg \notin gaveUp
                     /\ \A s \in Used : slots[s].msg # cur.msg
  /\ gaveUp \subseteq published

ListOwned(own) ==
  \A i \in 1 .. Len(retryList) :
    /\ retryList[i].id = own[retryList[i].msg]
    /\ retryList[i].step = 1 => Taken(retryList[i].msg)

UpOwned(own, d) ==
  IF d.type = "PUBLISH"
  THEN d.msg \in published /\ (d.msg \in Kept => d.id = own[d.msg])
  ELSE \E m \in Kept : d.id = own[m] /\ Taken(m)

DownOwned(own, d) ==
  \E m \in Kept : d.id = own[m] /\ IF d.type = "PUBREC" THEN Taken(m) ELSE Done(m)

UpsOwned(own)   == \A i \in 1 .. Len(toGw) : UpOwned(own, toGw[i])
DownsOwned(own) == \A i \in 1 .. Len(toPico) : DownOwned(own, toPico[i])

StoredOwned(own) == \A x \in stored : x.id = own[x.msg]

HoldersOwn(own) ==
  /\ TableOwned(own) /\ ListOwned(own) /\ UpsOwned(own) /\ DownsOwned(own)
  /\ StoredOwned(own)

OwnInv(own) == IdsOwned(own) /\ HoldersOwn(own)

(* Transmissions of m: done and delivered, waiting for PUBREL, under way,  *)
(* and still to come from the snapshot.                                    *)
Flights(q, m) == {i \in 1 .. Len(q) : q[i].type = "PUBLISH" /\ q[i].msg = m}
Listed(q, m)  == {i \in 1 .. Len(q) : q[i].msg = m}
Waiting(m)    == IF \E x \in stored : x.msg = m THEN 1 ELSE 0

Weight(m) == delivered[m] + Waiting(m) + Cardinality(Flights(toGw, m))
               + Cardinality(Listed(retryList, m))

CountedAt(m) ==
  /\ m \notin published => Weight(m) = 0
  /\ Weight(m) <= (IF m \in Kept THEN MaxRetries + 1 ELSE 1)
  /\ pc = "store" /\ cur.msg = m => Weight(m) <= 1
  /\ \A s \in Used : slots[s].msg = m => Weight(m) <= slots[s].retries + 1

Counted == \A m \in Msg : CountedAt(m)

DeliveryInv == Counted /\ \E own \in Owners : OwnInv(own)

(* Marks on the positions of a sequence whose head is taken.               *)
Shifted(n, A, B) ==
  /\ n \in Nat /\ A \in SUBSET (1 .. n + 1) /\ B \in SUBSET (1 .. n)
  /\ \A i \in 1 .. n : i \in B <=> i + 1 \in A

LEMMA MarksShift ==
  ASSUME NEW n, NEW A, NEW B, Shifted(n, A, B)
  PROVE  Cardinality(A) = Cardinality(B) + (IF 1 \in A THEN 1 ELSE 0)
<1>0. /\ n \in Nat /\ A \in SUBSET (1 .. n + 1) /\ B \in SUBSET (1 .. n)
      /\ \A i \in 1 .. n : i \in B <=> i + 1 \in A
  BY DEF Shifted
<1>1. IsFiniteSet(1 .. n + 1) /\ IsFiniteSet(1 .. n)
  BY <1>0, FS_Interval
<1>2. IsFiniteSet(A) /\ IsFiniteSet(B)
  BY <1>0, <1>1, FS_Subset
<1>3. Cardinality(A) \in Nat /\ Cardinality(B) \in Nat
  BY <1>2, FS_CardinalityType
<1> DEFINE f == [i \in B |-> i + 1]
<1>4. f \in Bijection(B, A \ {1})
  <2>1. \A i \in B : f[i] \in A \ {1}
    BY <1>0
  <2>2. \A i, j \in B : f[i] = f[j] => i = j
    BY <1>0
  <2>3. \A a \in A \ {1} : \E i \in B : f[i] = a
    <3> TAKE a \in A \ {1}
    <3>1. a - 1 \in 1 .. n /\ a - 1 + 1 = a
      BY <1>0
    <3>2. a - 1 \in B
      BY <1>0, <3>1
    <3> WITNESS a - 1 \in B
    <3> QED BY <3>1, <3>2
  <2> QED BY <2>1, <2>2, <2>3 DEF Bijection, Injection, IsInjective, Surjection
<1>5. ExistsBijection(B, A \ {1})
  BY <1>4 DEF ExistsBijection
<1>6. Cardinality(A \ {1}) = Cardinality(B)
  BY <1>2, <1>5, FS_Bijection
<1>7. Cardinality(A \ {1}) = IF 1 \in A THEN Cardinality(A) - 1 ELSE Cardinality(A)
  BY <1>2, FS_RemoveElement
<1> QED BY <1>2, <1>3, <1>6, <1>7

(* The same when an element is appended.                                   *)
LEMMA MarksGrow ==
  ASSUME NEW n \in Nat, NEW A \in SUBSET (1 .. n), NEW B \in SUBSET (1 .. n + 1),
         \A i \in 1 .. n : i \in A <=> i \in B
  PROVE  Cardinality(B) = Cardinality(A) + (IF n + 1 \in B THEN 1 ELSE 0)
<1>0. IsFiniteSet(1 .. n)
  BY FS_Interval
<1>1. IsFiniteSet(A) /\ n + 1 \notin A
  <2>1. n + 1 \notin 1 .. n
    OBVIOUS
  <2> QED BY <1>0, <2>1, FS_Subset
<1>2. Cardinality(A) \in Nat
  BY <1>1, FS_CardinalityType
<1>3. B = IF n + 1 \in B THEN A \cup {n + 1} ELSE A
  <2>1. \A i \in 1 .. n + 1 : i \in 1 .. n \/ i = n + 1
    OBVIOUS
  <2>2. \A i \in B : i \in A \/ i = n + 1
    BY <2>1
  <2>3. A \subseteq B
    OBVIOUS
  <2>4. n + 1 \notin B => B \subseteq A
    BY <2>2
  <2>5. n + 1 \in B => B = A \cup {n + 1}
    BY <2>2, <2>3
  <2> QED BY <2>3, <2>4, <2>5
<1>4. Cardinality(A \cup {n + 1}) = Cardinality(A) + 1
  BY <1>1, FS_AddElement
<1> QED BY <1>2, <1>3, <1>4

Is(d, m) == IF d.type = "PUBLISH" /\ d.msg = m THEN 1 ELSE 0

(* Transmissions under way are counted in numbers.                         *)
LEMMA FlightsType ==
  ASSUME NEW q \in Seq(Upward), NEW m
  PROVE  Cardinality(Flights(q, m)) \in Nat
<1>1. Len(q) \in Nat /\ Flights(q, m) \in SUBSET (1 .. Len(q))
  BY DEF Flights
<1>2. IsFiniteSet(1 .. Len(q))
  BY <1>1, FS_Interval
<1>3. IsFiniteSet(Flights(q, m))
  BY <1>1, <1>2, FS_Subset
<1> QED BY <1>3, FS_CardinalityType

(* A datagram taken from the network is no longer under way.               *)
LEMMA FlightsTail ==
  ASSUME NEW q \in Seq(Upward), q # <<>>, NEW m
  PROVE  Cardinality(Flights(q, m)) = Cardinality(Flights(Tail(q), m)) + Is(Head(q), m)
<1> DEFINE n == Len(Tail(q))
<1>1. /\ n \in Nat /\ Len(q) = n + 1 /\ Head(q) = q[1] /\ Tail(q) \in Seq(Upward)
      /\ \A i \in 1 .. n : Tail(q)[i] = q[i + 1]
  BY HeadTailProperties
<1>2. Flights(q, m) \in SUBSET (1 .. n + 1) /\ Flights(Tail(q), m) \in SUBSET (1 .. n)
  BY <1>1 DEF Flights
<1>3. \A i \in 1 .. n : i \in Flights(Tail(q), m) <=> i + 1 \in Flights(q, m)
  BY <1>1 DEF Flights
<1>4. 1 \in Flights(q, m) <=> q[1].type = "PUBLISH" /\ q[1].msg = m
  BY <1>1 DEF Flights
<1>5. Cardinality(Flights(q, m)) = Cardinality(Flights(Tail(q), m)) + (IF 1 \in Flights(q, m) THEN 1 ELSE 0)
  <2> DEFINE A == Flights(q, m)
             B == Flights(Tail(q), m)
  <2>1. Shifted(n, A, B)
    BY <1>1, <1>2, <1>3 DEF Shifted
  <2> HIDE DEF n, A, B
  <2>2. Cardinality(A) = Cardinality(B) + (IF 1 \in A THEN 1 ELSE 0)
    BY <2>1, MarksShift
  <2> QED BY <2>2 DEF A, B
<1> QED BY <1>1, <1>4, <1>5 DEF Is

(* A datagram that is sent is one more.                                    *)
LEMMA FlightsAppend ==
  ASSUME NEW q \in Seq(Upward), NEW d \in Upward, NEW m
  PROVE  Cardinality(Flights(Append(q, d), m)) = Cardinality(Flights(q, m)) + Is(d, m)
<1> DEFINE n == Len(q)
<1>1. /\ n \in Nat /\ Len(Append(q, d)) = n + 1 /\ Append(q, d)[n + 1] = d
      /\ \A i \in 1 .. n : Append(q, d)[i] = q[i]
  BY AppendProperties
<1>2. Flights(q, m) \in SUBSET (1 .. n) /\ Flights(Append(q, d), m) \in SUBSET (1 .. n + 1)
  BY <1>1 DEF Flights
<1>3. \A i \in 1 .. n : i \in Flights(q, m) <=> i \in Flights(Append(q, d), m)
  BY <1>1 DEF Flights
<1>4. n + 1 \in Flights(Append(q, d), m) <=> d.type = "PUBLISH" /\ d.msg = m
  BY <1>1 DEF Flights
<1> QED BY <1>1, <1>2, <1>3, <1>4, MarksGrow DEF Is

(* What is sent may get lost.                                              *)
LEMMA FlightsSent ==
  ASSUME NEW rest \in Seq(Upward), NEW d \in Upward, ToGw(rest, d), NEW m
  PROVE  Cardinality(Flights(toGw', m)) <= Cardinality(Flights(rest, m)) + Is(d, m)
<1>1. Cardinality(Flights(rest, m)) \in Nat /\ Is(d, m) \in {0, 1}
  BY FlightsType DEF Is
<1>2. CASE toGw' = rest
  BY <1>1, <1>2
<1>3. CASE toGw' = Append(rest, d)
  BY <1>1, <1>3, FlightsAppend
<1> QED BY <1>2, <1>3 DEF ToGw

(* So are the copies of a snapshot.                                        *)
LEMMA ListedType ==
  ASSUME NEW q \in Seq(Copy), NEW m
  PROVE  Cardinality(Listed(q, m)) \in Nat
<1>1. Len(q) \in Nat /\ Listed(q, m) \in SUBSET (1 .. Len(q))
  BY DEF Listed
<1>2. IsFiniteSet(1 .. Len(q))
  BY <1>1, FS_Interval
<1>3. IsFiniteSet(Listed(q, m))
  BY <1>1, <1>2, FS_Subset
<1> QED BY <1>3, FS_CardinalityType

(* A copy that is sent is no longer to come.                               *)
LEMMA ListedTail ==
  ASSUME NEW q \in Seq(Copy), q # <<>>, NEW m
  PROVE  Cardinality(Listed(q, m))
           = Cardinality(Listed(Tail(q), m)) + (IF Head(q).msg = m THEN 1 ELSE 0)
<1> DEFINE n == Len(Tail(q))
<1>1. /\ n \in Nat /\ Len(q) = n + 1 /\ Head(q) = q[1] /\ Tail(q) \in Seq(Copy)
      /\ \A i \in 1 .. n : Tail(q)[i] = q[i + 1]
  BY HeadTailProperties
<1>2. Listed(q, m) \in SUBSET (1 .. n + 1) /\ Listed(Tail(q), m) \in SUBSET (1 .. n)
  BY <1>1 DEF Listed
<1>3. \A i \in 1 .. n : i \in Listed(Tail(q), m) <=> i + 1 \in Listed(q, m)
  BY <1>1 DEF Listed
<1>4. 1 \in Listed(q, m) <=> q[1].msg = m
  BY <1>1 DEF Listed
<1>5. Cardinality(Listed(q, m)) = Cardinality(Listed(Tail(q), m)) + (IF 1 \in Listed(q, m) THEN 1 ELSE 0)
  <2> DEFINE A == Listed(q, m)
             B == Listed(Tail(q), m)
  <2>1. Shifted(n, A, B)
    BY <1>1, <1>2, <1>3 DEF Shifted
  <2> HIDE DEF n, A, B
  <2>2. Cardinality(A) = Cardinality(B) + (IF 1 \in A THEN 1 ELSE 0)
    BY <2>1, MarksShift
  <2> QED BY <2>2 DEF A, B
<1> QED BY <1>1, <1>4, <1>5

(* A copy that is made is one more.                                        *)
LEMMA ListedAppend ==
  ASSUME NEW q \in Seq(Copy), NEW c \in Copy, NEW m
  PROVE  Cardinality(Listed(Append(q, c), m))
           = Cardinality(Listed(q, m)) + (IF c.msg = m THEN 1 ELSE 0)
<1> DEFINE n == Len(q)
<1>1. /\ n \in Nat /\ Len(Append(q, c)) = n + 1 /\ Append(q, c)[n + 1] = c
      /\ \A i \in 1 .. n : Append(q, c)[i] = q[i]
  BY AppendProperties
<1>2. Listed(q, m) \in SUBSET (1 .. n) /\ Listed(Append(q, c), m) \in SUBSET (1 .. n + 1)
  BY <1>1 DEF Listed
<1>3. \A i \in 1 .. n : i \in Listed(q, m) <=> i \in Listed(Append(q, c), m)
  BY <1>1 DEF Listed
<1>4. n + 1 \in Listed(Append(q, c), m) <=> c.msg = m
  BY <1>1 DEF Listed
<1> QED BY <1>1, <1>2, <1>3, <1>4, MarksGrow

(* Weights are numbers.                                                    *)
LEMMA WeightType ==
  ASSUME TypeInv, NEW m \in Msg
  PROVE  /\ delivered[m] \in Nat /\ Waiting(m) \in {0, 1}
         /\ Cardinality(Flights(toGw, m)) \in Nat /\ Cardinality(Listed(retryList, m)) \in Nat
         /\ Weight(m) \in Nat
<1>1. /\ delivered[m] \in Nat /\ Waiting(m) \in {0, 1}
      /\ toGw \in Seq(Upward) /\ retryList \in Seq(Copy)
  BY DEF TypeInv, TypeOK, Waiting
<1>2. Cardinality(Flights(toGw, m)) \in Nat /\ Cardinality(Listed(retryList, m)) \in Nat
  BY <1>1, FlightsType, ListedType
<1> QED BY <1>1, <1>2 DEF Weight

------------------------------------------------------------------------------
(* A message that is published takes its id over from whoever had it.      *)
LEMMA NewIdIsOwned ==
  ASSUME NEW own \in Owners, IdsOwned(own), NEW m \in Kept, NEW id \in Id,
         published' = published \cup {m}
  PROVE  \E new \in Owners :
           /\ IdsOwned(new)' /\ new[m] = id
           /\ \A n \in Kept \ {m} : own[n] # id => new[n] = own[n]
<1> DEFINE new == [n \in Kept |-> IF n = m THEN id ELSE IF own[n] = id THEN 0 ELSE own[n]]
<1>1. id \in 0 .. MaxId - 1 /\ 0 \in 0 .. MaxId - 1 /\ id # 0
  BY QosAssumption DEF Id
<1>2. new \in Owners
  BY <1>1 DEF Owners
<1>3. /\ new[m] = id
      /\ \A n \in Kept \ {m} : new[n] = IF own[n] = id THEN 0 ELSE own[n]
  OBVIOUS
<1> HIDE DEF new
<1>4. \A n \in Kept : new[n] # 0 => n \in published'
  BY <1>3 DEF IdsOwned
<1>5. \A n, x \in Kept : new[n] # 0 /\ new[n] = new[x] => n = x
  BY <1>1, <1>3 DEF IdsOwned
<1>6. IdsOwned(new)'
  BY <1>2, <1>4, <1>5 DEF IdsOwned
<1> QED BY <1>2, <1>3, <1>6


------------------------------------------------------------------------------
(* Ids that are held.                                                      *)
LEMMA HeldBy ==
  ASSUME TypeInv
  PROVE  /\ \A s \in Used : slots[s].msg \in Kept /\ slots[s].id \in HeldIds
         /\ pc = "store" => cur.msg \in Kept /\ cur.id \in HeldIds
         /\ \A i \in 1 .. Len(retryList) :
              retryList[i].msg \in Kept /\ retryList[i].id \in HeldIds
         /\ \A i \in 1 .. Len(toGw) :
              toGw[i] \in Upward /\ (toGw[i].id \in Id => toGw[i].id \in HeldIds)
         /\ \A i \in 1 .. Len(toPico) : toPico[i].id \in HeldIds
         /\ \A x \in stored : x.msg \in Kept /\ x.id \in HeldIds
<1>1. \A s \in Used : slots[s].msg \in Kept /\ slots[s].id \in Id
  BY DEF TypeInv, TypeOK, Used, Entry
<1>2. pc = "store" => cur.msg \in Kept /\ cur.id \in Id
  BY DEF TypeInv
<1>3. \A i \in 1 .. Len(retryList) : retryList[i].msg \in Kept /\ retryList[i].id \in Id
  <2>1. \A i \in 1 .. Len(retryList) : retryList[i] \in Copy
    BY ElementOfSeq DEF TypeInv, TypeOK
  <2> QED BY <2>1 DEF Copy
<1>4. \A i \in 1 .. Len(toGw) : toGw[i] \in Upward
  BY ElementOfSeq DEF TypeInv, TypeOK
<1>5. \A i \in 1 .. Len(toPico) : toPico[i].id \in Id
  <2>1. \A i \in 1 .. Len(toPico) : toPico[i] \in Downward
    BY ElementOfSeq DEF TypeInv, TypeOK
  <2> QED BY <2>1 DEF Downward
<1>6. \A x \in stored : x.msg \in Kept /\ x.id \in Id
  BY DEF TypeInv, TypeOK
<1> QED BY <1>1, <1>2, <1>3, <1>4, <1>5, <1>6 DEF HeldIds, IdsOf

(* Who holds an id of a message goes on holding it when another message    *)
(* gets an id that nobody holds.                                           *)
LEMMA HoldersStay ==
  ASSUME TypeInv, NEW own, HoldersOwn(own), NEW new,
         \A n \in Kept : own[n] \in HeldIds => new[n] = own[n]
  PROVE  HoldersOwn(new)
<1>1. TableOwned(new)
  BY HeldBy DEF HoldersOwn, TableOwned
<1>2. ListOwned(new)
  BY HeldBy DEF HoldersOwn, ListOwned
<1>3. UpsOwned(new)
  <2> SUFFICES ASSUME NEW i \in 1 .. Len(toGw) PROVE UpOwned(new, toGw[i])
    BY DEF UpsOwned
  <2>1. UpOwned(own, toGw[i]) /\ toGw[i] \in Upward
        /\ (toGw[i].id \in Id => toGw[i].id \in HeldIds)
    BY HeldBy DEF HoldersOwn, UpsOwned
  <2>2. CASE toGw[i].type = "PUBLISH"
    <3>1. toGw[i].msg \in Kept => toGw[i].id \in Id
      BY <2>1, <2>2 DEF Upward
    <3> QED BY <2>1, <2>2, <3>1 DEF UpOwned
  <2>3. CASE toGw[i].type # "PUBLISH"
    <3>1. toGw[i].id \in Id
      BY <2>1, <2>3 DEF Upward
    <3> QED BY <2>1, <2>3, <3>1 DEF UpOwned
  <2> QED BY <2>2, <2>3
<1>4. DownsOwned(new)
  BY HeldBy DEF HoldersOwn, DownsOwned, DownOwned
<1>5. StoredOwned(new)
  BY HeldBy DEF HoldersOwn, StoredOwned
<1> QED BY <1>1, <1>2, <1>3, <1>4, <1>5 DEF HoldersOwn

(* The broker forgets nothing that an acknowledgement may say of it.       *)
Progress ==
  /\ published \subseteq published'
  /\ \A m \in Kept : (Taken(m) => Taken(m)') /\ (Done(m) => Done(m)')

(* Only the gateway changes what the broker has.                           *)
LEMMA ProgressWithoutGateway ==
  ASSUME UNCHANGED gwVars, published \subseteq published' PROVE Progress
BY DEF gwVars, Progress, Taken, Done

(* The ids when nothing is published.                                      *)
LEMMA IdsKept ==
  ASSUME NEW own, IdsOwned(own), UNCHANGED published PROVE IdsOwned(own)'
BY DEF IdsOwned

(* The table when the gateway may move on: marks change, not messages.     *)
LEMMA TableKept ==
  ASSUME TypeInv, NEW own, TableOwned(own), Progress, gaveUp' = gaveUp,
         pc' = "store" => pc = "store" /\ cur' = cur,
         \A s \in Used' :
           /\ s \in Used /\ slots'[s].msg = slots[s].msg /\ slots'[s].id = slots[s].id
           /\ slots'[s].step = 1 => slots[s].step = 1 \/ Taken(slots[s].msg)
  PROVE  TableOwned(own)'
<1>1. \A s \in Used : slots[s].msg \in Kept
  BY DEF TypeInv, TypeOK, Used, Entry
<1>2. \A s \in Used' :
        /\ slots'[s].id = own[slots'[s].msg] /\ slots'[s].msg \notin gaveUp'
        /\ slots'[s].step = 1 => Taken(slots[s].msg)
  BY DEF TableOwned
<1>3. \A s \in Used' : slots'[s].step = 1 => (\E m : m = slots'[s].msg /\ Taken(m)')
  BY <1>1, <1>2 DEF Progress
<1>4. \A s \in Used' : slots'[s].step = 1 => Taken(slots[s].msg)'
  BY <1>3 DEF Taken
<1>5. \A s, t \in Used' : slots'[s].msg = slots'[t].msg => s = t
  BY DEF TableOwned
<1>6. pc' = "store" => /\ cur'.id = own[cur'.msg] /\ cur'.msg \notin gaveUp'
                       /\ \A s \in Used' : slots'[s].msg # cur'.msg
  BY DEF TableOwned
<1>7. gaveUp' \subseteq published'
  BY DEF TableOwned, Progress
<1> QED BY <1>2, <1>4, <1>5, <1>6, <1>7 DEF TableOwned

(* The snapshot when it only shrinks.                                      *)
LEMMA ListKept ==
  ASSUME TypeInv, NEW own, ListOwned(own), Progress,
         \A i \in 1 .. Len(retryList') : \E j \in 1 .. Len(retryList) :
           retryList'[i] = retryList[j]
  PROVE  ListOwned(own)'
<1>1. \A j \in 1 .. Len(retryList) : retryList[j].msg \in Kept
  <2>1. \A j \in 1 .. Len(retryList) : retryList[j] \in Copy
    BY ElementOfSeq DEF TypeInv, TypeOK
  <2> QED BY <2>1 DEF Copy
<1>2. ASSUME NEW i \in 1 .. Len(retryList')
      PROVE  /\ retryList'[i].id = own[retryList'[i].msg]
             /\ retryList'[i].step = 1 => \E m : m = retryList'[i].msg /\ Taken(m)'
  BY <1>1, <1>2 DEF ListOwned, Progress
<1>3. ASSUME NEW i \in 1 .. Len(retryList'), retryList'[i].step = 1
      PROVE  Taken(retryList[i].msg)'
  BY <1>2, <1>3 DEF Taken
<1> QED BY <1>2, <1>3 DEF ListOwned

(* The broker's messages when there are no new ones.                       *)
LEMMA StoredKept ==
  ASSUME NEW own, StoredOwned(own), stored' \subseteq stored PROVE StoredOwned(own)'
BY DEF StoredOwned

(* A datagram that is under way.                                           *)
LEMMA UpStays ==
  ASSUME NEW own, NEW d, UpOwned(own, d), Progress PROVE UpOwned(own, d)'
BY DEF UpOwned, Progress

(* The same for an acknowledgement.                                        *)
LEMMA DownStays ==
  ASSUME NEW own, NEW d, DownOwned(own, d), Progress PROVE DownOwned(own, d)'
BY DEF DownOwned, Progress

(* Datagrams to the gateway when none is sent.                             *)
LEMMA UpsKept ==
  ASSUME TypeInv, NEW own, UpsOwned(own), Progress,
         toGw' = toGw \/ (toGw # <<>> /\ toGw' = Tail(toGw))
  PROVE  UpsOwned(own)'
<1>1. toGw \in Seq(Upward)
  BY DEF TypeInv, TypeOK
<1>2. \A i \in 1 .. Len(toGw') : \E j \in 1 .. Len(toGw) : toGw'[i] = toGw[j]
  <2>1. CASE toGw' = toGw
    BY <2>1
  <2>2. CASE toGw # <<>> /\ toGw' = Tail(toGw)
    <3>1. /\ Len(toGw') = Len(toGw) - 1 /\ Len(toGw) \in Nat
          /\ \A i \in 1 .. Len(toGw') : toGw'[i] = toGw[i + 1]
      BY <1>1, <2>2, HeadTailProperties
    <3>2. \A i \in 1 .. Len(toGw') : i + 1 \in 1 .. Len(toGw)
      BY <3>1
    <3> QED BY <3>1, <3>2
  <2> QED BY <2>1, <2>2
<1>3. ASSUME NEW i \in 1 .. Len(toGw') PROVE UpOwned(own, toGw[i])'
  <2>1. PICK d : d = toGw'[i] /\ UpOwned(own, d)
    BY <1>2, <1>3 DEF UpsOwned
  <2>2. UpOwned(own, d)'
    BY <2>1, UpStays
  <2> QED BY <2>1, <2>2 DEF UpOwned, Taken
<1> QED BY <1>3 DEF UpsOwned

(* And when one is sent, or lost, after the gateway may have taken one.    *)
LEMMA UpsSent ==
  ASSUME TypeInv, NEW own, UpsOwned(own), Progress,
         NEW rest, rest = toGw \/ (toGw # <<>> /\ rest = Tail(toGw)),
         NEW d \in Upward, ToGw(rest, d), UpOwned(own, d)'
  PROVE  UpsOwned(own)'
<1>1. toGw \in Seq(Upward) /\ rest \in Seq(Upward)
  <2>1. toGw \in Seq(Upward)
    BY DEF TypeInv, TypeOK
  <2> QED BY <2>1, HeadTailProperties
<1>2. \A i \in 1 .. Len(rest) : \E j \in 1 .. Len(toGw) : rest[i] = toGw[j]
  <2>1. CASE rest = toGw
    BY <2>1
  <2>2. CASE toGw # <<>> /\ rest = Tail(toGw)
    <3>1. /\ Len(rest) = Len(toGw) - 1 /\ Len(toGw) \in Nat
          /\ \A i \in 1 .. Len(rest) : rest[i] = toGw[i + 1]
      BY <1>1, <2>2, HeadTailProperties
    <3>2. \A i \in 1 .. Len(rest) : i + 1 \in 1 .. Len(toGw)
      BY <3>1
    <3> QED BY <3>1, <3>2
  <2> QED BY <2>1, <2>2
<1>3. CASE toGw' = rest
  <2>1. toGw' = toGw \/ (toGw # <<>> /\ toGw' = Tail(toGw))
    BY <1>3
  <2> QED BY <2>1, UpsKept
<1>4. CASE toGw' = Append(rest, d)
  <2>1. /\ Len(toGw') = Len(rest) + 1 /\ Len(rest) \in Nat /\ toGw'[Len(rest) + 1] = d
        /\ \A i \in 1 .. Len(rest) : toGw'[i] = rest[i]
    BY <1>1, <1>4, AppendProperties
  <2>2. ASSUME NEW i \in 1 .. Len(toGw') PROVE UpOwned(own, toGw[i])'
    <3>1. i \in 1 .. Len(rest) \/ i = Len(rest) + 1
      BY <2>1
    <3>2. PICK e : e = toGw'[i] /\ (e = d \/ UpOwned(own, e))
      BY <1>2, <2>1, <3>1 DEF UpsOwned
    <3>3. UpOwned(own, e)'
      BY <3>2, UpStays
    <3> QED BY <3>2, <3>3 DEF UpOwned, Taken
  <2> QED BY <2>2 DEF UpsOwned
<1> QED BY <1>3, <1>4 DEF ToGw

(* Acknowledgements when none is sent.                                     *)
LEMMA DownsKept ==
  ASSUME TypeInv, NEW own, DownsOwned(own), Progress,
         toPico' = toPico \/ (toPico # <<>> /\ toPico' = Tail(toPico))
  PROVE  DownsOwned(own)'
<1>1. toPico \in Seq(Downward)
  BY DEF TypeInv, TypeOK
<1>2. \A i \in 1 .. Len(toPico') : \E j \in 1 .. Len(toPico) : toPico'[i] = toPico[j]
  <2>1. CASE toPico' = toPico
    BY <2>1
  <2>2. CASE toPico # <<>> /\ toPico' = Tail(toPico)
    <3>1. /\ Len(toPico') = Len(toPico) - 1 /\ Len(toPico) \in Nat
          /\ \A i \in 1 .. Len(toPico') : toPico'[i] = toPico[i + 1]
      BY <1>1, <2>2, HeadTailProperties
    <3>2. \A i \in 1 .. Len(toPico') : i + 1 \in 1 .. Len(toPico)
      BY <3>1
    <3> QED BY <3>1, <3>2
  <2> QED BY <2>1, <2>2
<1>3. ASSUME NEW i \in 1 .. Len(toPico') PROVE DownOwned(own, toPico[i])'
  <2>1. PICK d : d = toPico'[i] /\ DownOwned(own, d)
    BY <1>2, <1>3 DEF DownsOwned
  <2>2. DownOwned(own, d)'
    BY <2>1, DownStays
  <2> QED BY <2>1, <2>2 DEF DownOwned, Taken, Done
<1> QED BY <1>3 DEF DownsOwned

(* And when one is sent, or lost.                                          *)
LEMMA DownsSent ==
  ASSUME TypeInv, NEW own, DownsOwned(own), Progress,
         NEW d \in Downward, ToPico(d), DownOwned(own, d)'
  PROVE  DownsOwned(own)'
<1>1. toPico \in Seq(Downward)
  BY DEF TypeInv, TypeOK
<1>2. CASE toPico' = toPico
  BY <1>2, DownsKept
<1>3. CASE toPico' = Append(toPico, d)
  <2>1. /\ Len(toPico') = Len(toPico) + 1 /\ Len(toPico) \in Nat /\ toPico'[Len(toPico) + 1] = d
        /\ \A i \in 1 .. Len(toPico) : toPico'[i] = toPico[i]
    BY <1>1, <1>3, AppendProperties
  <2>2. ASSUME NEW i \in 1 .. Len(toPico') PROVE DownOwned(own, toPico[i])'
    <3>1. i \in 1 .. Len(toPico) \/ i = Len(toPico) + 1
      BY <2>1
    <3>2. PICK e : e = toPico'[i] /\ (e = d \/ DownOwned(own, e))
      BY <2>1, <3>1 DEF DownsOwned
    <3>3. DownOwned(own, e)'
      BY <3>2, DownStays
    <3> QED BY <3>2, <3>3 DEF DownOwned, Taken, Done
  <2> QED BY <2>2 DEF DownsOwned
<1> QED BY <1>2, <1>3 DEF ToPico

------------------------------------------------------------------------------
(* Weights after a step are numbers, and stay in their bounds when they    *)
(* do not grow.                                                            *)
LEMMA WeightTypeNext ==
  ASSUME TypeInv', NEW m \in Msg
  PROVE  /\ delivered'[m] \in Nat /\ Waiting(m)' \in {0, 1}
         /\ Cardinality(Flights(toGw', m)) \in Nat
         /\ Cardinality(Listed(retryList', m)) \in Nat
         /\ Weight(m)' = delivered'[m] + Waiting(m)' + Cardinality(Flights(toGw', m))
                           + Cardinality(Listed(retryList', m))
         /\ Weight(m)' \in Nat
<1>1. /\ delivered'[m] \in Nat /\ Waiting(m)' \in {0, 1}
      /\ toGw' \in Seq(Upward) /\ retryList' \in Seq(Copy)
  BY DEF TypeInv, TypeOK, Waiting
<1>2. Cardinality(Flights(toGw', m)) \in Nat /\ Cardinality(Listed(retryList', m)) \in Nat
  BY <1>1, FlightsType, ListedType
<1>3. Weight(m)' = delivered'[m] + Waiting(m)' + Cardinality(Flights(toGw', m))
                     + Cardinality(Listed(retryList', m))
  BY DEF Weight
<1> QED BY <1>1, <1>2, <1>3

(* A message's count holds when its transmissions do not increase.         *)
LEMMA CountedKept ==
  ASSUME TypeInv, NEW m \in Msg, CountedAt(m), Weight(m)' \in Nat, Weight(m)' <= Weight(m),
         published \subseteq published',
         pc' = "store" /\ cur'.msg = m => pc = "store" /\ cur.msg = m,
         \A s \in Used' : slots'[s].msg = m =>
           s \in Used /\ slots[s].msg = m /\ slots'[s].retries = slots[s].retries
  PROVE  CountedAt(m)'
<1>1. Weight(m) \in Nat /\ MaxRetries \in Nat
  BY WeightType, QosAssumption
<1>2. \A s \in Used : slots[s].retries \in Nat
  BY QosAssumption DEF TypeInv, TypeOK, Used, Entry
<1>3. m \notin published' => Weight(m)' = 0
  BY <1>1 DEF CountedAt
<1>4. Weight(m)' <= (IF m \in Kept THEN MaxRetries + 1 ELSE 1)
  BY <1>1 DEF CountedAt
<1>5. pc' = "store" /\ cur'.msg = m => Weight(m)' <= 1
  BY <1>1 DEF CountedAt
<1>6. \A s \in Used' : slots'[s].msg = m => Weight(m)' <= slots'[s].retries + 1
  BY <1>1, <1>2 DEF CountedAt
<1>7. Kept' = Kept
  BY DEF Kept
<1> QED BY <1>3, <1>4, <1>5, <1>6, <1>7 DEF CountedAt

(* A step that neither delivers nor copies.                                *)
LEMMA WeightKept ==
  ASSUME TypeInv, TypeInv', NEW m \in Msg, UNCHANGED gwVars,
         Cardinality(Flights(toGw', m)) + Cardinality(Listed(retryList', m))
           <= Cardinality(Flights(toGw, m)) + Cardinality(Listed(retryList, m))
  PROVE  Weight(m)' <= Weight(m) /\ Weight(m)' \in Nat
<1>1. delivered' = delivered /\ Waiting(m)' = Waiting(m)
  BY DEF gwVars, Waiting
<1> QED BY <1>1, WeightType, WeightTypeNext DEF Weight

(* Whoever is tracked has been published.                                  *)
LEMMA TrackedArePublished ==
  ASSUME TypeInv, NEW own, IdsOwned(own), TableOwned(own)
  PROVE  /\ \A s \in Used : slots[s].msg \in Kept /\ slots[s].msg \in published
         /\ pc = "store" => cur.msg \in Kept /\ cur.msg \in published
<1>1. 0 \notin Id
  BY DEF Id
<1>2. \A s \in Used : slots[s].msg \in Kept /\ slots[s].id \in Id
  BY DEF TypeInv, TypeOK, Used, Entry
<1>3. pc = "store" => cur.msg \in Kept /\ cur.id \in Id
  BY DEF TypeInv
<1> QED BY <1>1, <1>2, <1>3 DEF TableOwned, IdsOwned

(* What the gateway receives is held for its owner.                        *)
LEMMA HeadUp ==
  ASSUME TypeInv, NEW own, UpsOwned(own), toGw # <<>>
  PROVE  Head(toGw) \in Upward /\ UpOwned(own, Head(toGw))
<1>1. toGw \in Seq(Upward)
  BY DEF TypeInv, TypeOK
<1>2. 1 \in 1 .. Len(toGw) /\ Head(toGw) = toGw[1]
  BY <1>1
<1>3. UpOwned(own, toGw[1])
  BY <1>2 DEF UpsOwned
<1> QED BY <1>1, <1>2, <1>3, HeadTailProperties

(* What the Pico receives is true of its owner.                            *)
LEMMA HeadDown ==
  ASSUME TypeInv, NEW own, DownsOwned(own), toPico # <<>>
  PROVE  Head(toPico) \in Downward /\ DownOwned(own, Head(toPico))
<1>1. toPico \in Seq(Downward)
  BY DEF TypeInv, TypeOK
<1>2. 1 \in 1 .. Len(toPico) /\ Head(toPico) = toPico[1]
  BY <1>1
<1>3. DownOwned(own, toPico[1])
  BY <1>2 DEF DownsOwned
<1> QED BY <1>1, <1>2, <1>3, HeadTailProperties

Implements == [Delivery!Next]_<<published, Pending, delivered, refused, gaveUp>>

(* mqtt_sn_publish_topic_id: the message gets an id.                       *)
LEMMA PublishDelivers ==
  ASSUME TypeInv, TypeInv', Counted, NEW own \in Owners, OwnInv(own),
         NEW m \in Msg, Publish(m), GivesFreeId
  PROVE  Implements /\ Counted' /\ \E new \in Owners : OwnInv(new)'
<1>1. /\ pc = "idle" /\ m \notin published /\ published' = published \cup {m}
      /\ nextId' = IF m \in Kept THEN NextId + 1 ELSE nextId
      /\ UNCHANGED <<slots, recent, due, retryList, toPico, gwVars, gaveUp>>
      /\ nextId \in 0 .. MaxId /\ NextId \in Id
  BY NextIdType DEF Publish, tableVars, TypeInv, TypeOK
<1>2. PICK id \in 0 .. MaxId - 1 : id = IF m \in Kept THEN NextId ELSE 0
  <2>1. 0 \in 0 .. MaxId - 1 /\ Id \subseteq 0 .. MaxId - 1
    BY QosAssumption DEF Id
  <2> QED BY <1>1, <2>1
<1>3. PICK d \in Upward : d = [type |-> "PUBLISH", id |-> id, msg |-> m]
  <2>1. m \in Kept => id \in Id
    BY <1>1, <1>2
  <2>2. m \notin Kept => id = 0
    BY <1>2
  <2> QED BY <2>1, <2>2 DEF Upward
<1>4. \/ /\ ToGw(toGw, d)
         /\ IF m \in Kept THEN pc' = "store" /\ cur' = [msg |-> m, id |-> id]
                          ELSE UNCHANGED <<pc, cur>>
      \/ UNCHANGED <<toGw, lost, pc, cur>>
  BY <1>2, <1>3 DEF Publish
<1>5. PICK new \in Owners :
        /\ IdsOwned(new)' /\ (m \in Kept => new[m] = id)
        /\ \A n \in Kept : own[n] \in HeldIds => new[n] = own[n]
  <2>1. CASE m \in Kept
    <3>1. id \in Id /\ id \notin HeldIds
      BY <1>1, <1>2, <2>1 DEF GivesFreeId
    <3>2. PICK new \in Owners :
            /\ IdsOwned(new)' /\ new[m] = id
            /\ \A n \in Kept \ {m} : own[n] # id => new[n] = own[n]
      BY <1>1, <2>1, <3>1, NewIdIsOwned DEF OwnInv
    <3>3. own[m] \notin HeldIds
      BY <1>1, <2>1 DEF OwnInv, IdsOwned, HeldIds, Id
    <3> QED BY <3>1, <3>2, <3>3
  <2>2. CASE m \notin Kept
    <3>1. IdsOwned(own)'
      BY <1>1, <2>2 DEF OwnInv, IdsOwned
    <3> QED BY <2>2, <3>1
  <2> QED BY <2>1, <2>2
<1>6. IdsOwned(own) /\ HoldersOwn(own) /\ TableOwned(own)
  BY DEF OwnInv, HoldersOwn
<1>7. /\ TableOwned(new) /\ ListOwned(new) /\ UpsOwned(new) /\ DownsOwned(new)
      /\ StoredOwned(new)
  BY <1>5, <1>6, HoldersStay DEF HoldersOwn
<1>8. Progress
  BY <1>1, ProgressWithoutGateway
<1>9. UpsOwned(new)'
  <2>1. UpOwned(new, d)'
    BY <1>1, <1>3, <1>5 DEF UpOwned
  <2> QED BY <1>3, <1>4, <1>7, <1>8, <2>1, UpsSent, UpsKept
<1>10. ListOwned(new)' /\ DownsOwned(new)' /\ StoredOwned(new)'
  <2>1. stored' \subseteq stored
    BY <1>1 DEF gwVars
  <2>2. ListOwned(new)'
    BY <1>1, <1>7, <1>8, ListKept
  <2> QED BY <1>1, <1>7, <1>8, <2>1, <2>2, DownsKept, StoredKept
<1>11. Used' = Used /\ Pending' = Pending
  BY <1>1 DEF Used, Pending
<1>12. /\ \A s \in Used : slots[s].msg # m
       /\ m \notin gaveUp
  BY <1>1, <1>6, TrackedArePublished DEF TableOwned
<1>13. TableOwned(new)'
  <2>1. CASE pc' = "store" /\ cur' = [msg |-> m, id |-> id] /\ m \in Kept
    <3>1. \A n : Taken(n)' <=> Taken(n)
      BY <1>1 DEF gwVars, Taken
    <3>2. /\ \A s \in Used' :
               /\ slots'[s].id = new[slots'[s].msg] /\ slots'[s].msg \notin gaveUp'
               /\ slots'[s].step = 1 => Taken(slots[s].msg)
          /\ \A s, t \in Used' : slots'[s].msg = slots'[t].msg => s = t
          /\ gaveUp' \subseteq published'
      BY <1>1, <1>7, <1>11 DEF TableOwned
    <3>3. \A s \in Used' : slots'[s].step = 1 => Taken(slots[s].msg)'
      BY <1>1, <3>2 DEF gwVars, Taken
    <3>4. /\ cur'.id = new[cur'.msg] /\ cur'.msg \notin gaveUp'
          /\ \A s \in Used' : slots'[s].msg # cur'.msg
      BY <1>1, <1>5, <1>11, <1>12, <2>1
    <3> QED BY <3>2, <3>3, <3>4 DEF TableOwned
  <2>2. CASE pc' = pc
    <3>1. /\ gaveUp' = gaveUp /\ pc' # "store"
          /\ \A s \in Used' : s \in Used /\ slots'[s] = slots[s]
      BY <1>1, <1>11, <2>2
    <3> QED BY <1>7, <1>8, <3>1, TableKept
  <2> QED BY <1>4, <2>1, <2>2
<1>14. Counted'
  <2> SUFFICES ASSUME NEW n \in Msg PROVE CountedAt(n)'
    BY DEF Counted
  <2>0. CountedAt(n) /\ toGw \in Seq(Upward)
    BY DEF Counted, TypeInv, TypeOK
  <2>1. Cardinality(Flights(toGw', n)) <= Cardinality(Flights(toGw, n)) + Is(d, n)
    <3>1. CASE ToGw(toGw, d)
      BY <1>3, <2>0, <3>1, FlightsSent
    <3>2. CASE toGw' = toGw
      BY <2>0, <3>2, FlightsType DEF Is
    <3> QED BY <1>4, <3>1, <3>2
  <2>2. /\ delivered' = delivered /\ Waiting(n)' = Waiting(n) /\ retryList' = retryList
    BY <1>1 DEF gwVars, Waiting
  <2>3. CASE n # m
    <3>1. Is(d, n) = 0
      BY <1>3, <2>3 DEF Is
    <3>2. Weight(n)' <= Weight(n) /\ Weight(n)' \in Nat
      BY <1>1, <2>1, <2>2, <3>1, WeightType, WeightTypeNext DEF Weight
    <3>3. pc' = "store" /\ cur'.msg = n => pc = "store" /\ cur.msg = n
      BY <1>1, <1>4, <2>3
    <3> QED BY <1>1, <1>11, <2>0, <3>2, <3>3, CountedKept
  <2>4. CASE n = m
    <3>1. Weight(m) = 0 /\ Is(d, m) = 1
      BY <1>1, <1>3, <2>0, <2>4 DEF CountedAt, Is
    <3>2. Weight(m)' <= 1 /\ Weight(m)' \in Nat
      BY <2>1, <2>2, <2>4, <3>1, WeightType, WeightTypeNext DEF Weight
    <3>3. m \in published' /\ \A s \in Used' : slots'[s].msg # m
      BY <1>1, <1>11, <1>12
    <3> QED BY <2>4, <3>2, <3>3, QosAssumption DEF CountedAt
  <2> QED BY <2>3, <2>4
<1>15. Implements
  <2>1. Delivery!Publish(m)
    BY <1>1, <1>11 DEF Delivery!Publish, gwVars
  <2> QED BY <2>1 DEF Implements, Delivery!Next
<1> QED BY <1>5, <1>9, <1>10, <1>13, <1>14, <1>15 DEF OwnInv, HoldersOwn

(* A step that changes neither ids nor what the broker has nor the table's *)
(* messages: only their marks.                                             *)
LEMMA QuietDelivers ==
  ASSUME TypeInv, TypeInv', Counted, NEW own \in Owners, OwnInv(own),
         UNCHANGED <<published, gaveUp, gwVars>>,
         pc' = "store" => pc = "store" /\ cur' = cur,
         Used' = Used,
         \A s \in Used :
           /\ slots'[s].msg = slots[s].msg /\ slots'[s].id = slots[s].id
           /\ slots'[s].retries = slots[s].retries
           /\ slots'[s].step = 1 => slots[s].step = 1 \/ Taken(slots[s].msg),
         \A m \in Msg : Cardinality(Flights(toGw', m)) + Cardinality(Listed(retryList', m))
                          <= Cardinality(Flights(toGw, m)) + Cardinality(Listed(retryList, m)),
         ListOwned(own)', UpsOwned(own)', DownsOwned(own)'
  PROVE  Implements /\ Counted' /\ OwnInv(own)'
<1>1. Progress
  BY ProgressWithoutGateway
<1>2. IdsOwned(own)' /\ StoredOwned(own)'
  <2>1. stored' \subseteq stored
    BY DEF gwVars
  <2> QED BY <2>1, IdsKept, StoredKept DEF OwnInv, HoldersOwn
<1>3. TableOwned(own)'
  BY <1>1, TableKept DEF OwnInv, HoldersOwn
<1>4. Counted'
  <2> SUFFICES ASSUME NEW m \in Msg PROVE CountedAt(m)'
    BY DEF Counted
  <2>1. Weight(m)' <= Weight(m) /\ Weight(m)' \in Nat
    BY WeightKept
  <2>2. CountedAt(m) /\ published \subseteq published'
    BY DEF Counted
  <2> QED BY <2>1, <2>2, CountedKept
<1>5. Pending' = Pending
  BY DEF Pending
<1>6. Implements
  BY <1>5 DEF Implements, gwVars
<1> QED BY <1>2, <1>3, <1>4, <1>6 DEF OwnInv, HoldersOwn

(* The message takes a slot, if there is one.                              *)
LEMMA StoreDelivers ==
  ASSUME TypeInv, TypeInv', Counted, NEW own \in Owners, OwnInv(own), Store
  PROVE  Implements /\ Counted' /\ OwnInv(own)'
<1>1. /\ pc = "store" /\ pc' = "idle"
      /\ UNCHANGED <<nextId, due, retryList, toGw, toPico, gwVars, published, gaveUp>>
      /\ cur \in [msg : Kept, id : Id]
  BY DEF Store, TypeInv
<1>2. Progress
  BY <1>1, ProgressWithoutGateway
<1>3. /\ IdsOwned(own) /\ TableOwned(own) /\ ListOwned(own) /\ UpsOwned(own)
      /\ DownsOwned(own) /\ StoredOwned(own)
  BY DEF OwnInv, HoldersOwn
<1>4. ListOwned(own)' /\ UpsOwned(own)' /\ DownsOwned(own)'
  <2>1. ListOwned(own)'
    BY <1>1, <1>2, <1>3, ListKept
  <2> QED BY <1>1, <1>2, <1>3, <2>1, UpsKept, DownsKept
<1>5. \A m \in Msg : /\ Cardinality(Flights(toGw', m)) + Cardinality(Listed(retryList', m))
                          <= Cardinality(Flights(toGw, m)) + Cardinality(Listed(retryList, m))
                     /\ Weight(m)' <= Weight(m) /\ Weight(m)' \in Nat
  <2> TAKE m \in Msg
  <2>1. Cardinality(Flights(toGw', m)) + Cardinality(Listed(retryList', m))
          <= Cardinality(Flights(toGw, m)) + Cardinality(Listed(retryList, m))
    BY <1>1, WeightType
  <2> QED BY <1>1, <2>1, WeightKept
<1>6. CASE UNCHANGED tableVars
  <2>1. /\ Used' = Used
        /\ \A s \in Used : slots'[s] = slots[s]
    BY <1>6 DEF tableVars, Used
  <2>2. pc' = "store" => pc = "store" /\ cur' = cur
    BY <1>1
  <2> QED BY <1>1, <1>4, <1>5, <2>1, <2>2, QuietDelivers
<1>7. CASE \E s \in Slot \ Used :
             slots' = [slots EXCEPT ![s] =
                         [msg |-> cur.msg, id |-> cur.id, step |-> 0, retries |-> 0]]
  <2>1. PICK s \in Slot \ Used :
             slots' = [slots EXCEPT ![s] =
                         [msg |-> cur.msg, id |-> cur.id, step |-> 0, retries |-> 0]]
    BY <1>7
  <2>2. PICK e \in Entry :
          e = [msg |-> cur.msg, id |-> cur.id, step |-> 0, retries |-> 0]
    <3>1. cur.msg \in Kept /\ cur.id \in Id /\ 0 \in 0 .. MaxRetries
      BY <1>1, QosAssumption
    <3>2. [msg |-> cur.msg, id |-> cur.id, step |-> 0, retries |-> 0] \in Entry
      BY <3>1 DEF Entry
    <3> QED BY <3>2
  <2>3. /\ slots'[s] = e /\ e # None
        /\ \A t \in Slot \ {s} : slots'[t] = slots[t]
    BY <2>1, <2>2, NoneAssumption DEF TypeInv, TypeOK
  <2>4. /\ Used' = Used \cup {s}
        /\ \A t \in Used : t # s /\ slots'[t] = slots[t]
    BY <2>1, <2>3 DEF Used
  <2>5. cur.msg \in Kept /\ cur.msg \in published /\ cur.msg \notin gaveUp
        /\ \A t \in Used : slots[t].msg # cur.msg
    BY <1>1, <1>3, TrackedArePublished DEF TableOwned
  <2>6. TableOwned(own)'
    <3>1. \A t \in Used' : slots'[t].step = 1 => Taken(slots[t].msg)'
      <4>1. \A t \in Used : slots[t].step = 1 => Taken(slots[t].msg)
        BY <1>3 DEF TableOwned
      <4> QED BY <1>1, <2>2, <2>3, <2>4, <4>1 DEF Taken, gwVars
    <3>2. \A t \in Used' : slots'[t].id = own[slots'[t].msg] /\ slots'[t].msg \notin gaveUp'
      BY <1>1, <1>3, <2>2, <2>3, <2>4, <2>5 DEF TableOwned
    <3>3. \A t, u \in Used' : slots'[t].msg = slots'[u].msg => t = u
      BY <1>3, <2>2, <2>3, <2>4, <2>5 DEF TableOwned
    <3>4. pc' # "store" /\ gaveUp' \subseteq published'
      BY <1>1, <1>3 DEF TableOwned
    <3> QED BY <3>1, <3>2, <3>3, <3>4 DEF TableOwned
  <2>7. Counted'
    <3> SUFFICES ASSUME NEW m \in Msg PROVE CountedAt(m)'
      BY DEF Counted
    <3>1. CountedAt(m) /\ Weight(m)' <= Weight(m) /\ Weight(m)' \in Nat /\ Weight(m) \in Nat
      BY <1>5, WeightType DEF Counted
    <3>2. CASE m # cur.msg
      <4>1. \A t \in Used' : slots'[t].msg = m =>
              t \in Used /\ slots[t].msg = m /\ slots'[t].retries = slots[t].retries
        BY <2>2, <2>3, <2>4, <3>2
      <4> QED BY <1>1, <3>1, <4>1, CountedKept
    <3>3. CASE m = cur.msg
      <4>1. Weight(m) <= 1 /\ m \in published'
        BY <1>1, <2>5, <3>1, <3>3 DEF CountedAt
      <4>2. \A t \in Used' : slots'[t].msg = m => slots'[t].retries = 0
        BY <2>2, <2>3, <2>4, <2>5, <3>3
      <4> QED BY <1>1, <3>1, <4>1, <4>2, QosAssumption DEF CountedAt
    <3> QED BY <3>2, <3>3
  <2>8. Delivery!Keep(cur.msg)
    <3>1. Pending' = Pending \cup {cur.msg}
      BY <2>2, <2>3, <2>4 DEF Pending
    <3>2. cur.msg \notin Pending /\ Qos[cur.msg] > 0
      BY <2>5 DEF Pending, Kept
    <3> QED BY <1>1, <2>5, <3>1, <3>2 DEF Delivery!Keep, gwVars
  <2>9. Implements
    BY <2>5, <2>8 DEF Implements, Delivery!Next, Kept
  <2>10. IdsOwned(own)' /\ StoredOwned(own)'
    <3>1. stored' \subseteq stored
      BY <1>1 DEF gwVars
    <3> QED BY <1>1, <1>3, <3>1, IdsKept, StoredKept
  <2> QED BY <1>4, <2>6, <2>7, <2>9, <2>10 DEF OwnInv, HoldersOwn
<1> QED BY <1>6, <1>7 DEF Store

(* check_qos_timeouts begins, or has seen all slots.                       *)
LEMMA CheckDelivers ==
  ASSUME TypeInv, TypeInv', Counted, NEW own \in Owners, OwnInv(own),
         StartCheck \/ ScanDone
  PROVE  Implements /\ Counted' /\ OwnInv(own)'
<1>1. /\ UNCHANGED <<slots, nextId, cur, retryList, toGw, toPico, gwVars, published, gaveUp>>
      /\ pc' # "store"
  BY DEF StartCheck, ScanDone, tableVars
<1>2. Progress
  BY <1>1, ProgressWithoutGateway
<1>3. ListOwned(own)' /\ UpsOwned(own)' /\ DownsOwned(own)'
  <2>1. ListOwned(own) /\ UpsOwned(own) /\ DownsOwned(own)
    BY DEF OwnInv, HoldersOwn
  <2>2. ListOwned(own)'
    BY <1>1, <1>2, <2>1, ListKept
  <2> QED BY <1>1, <1>2, <2>1, <2>2, UpsKept, DownsKept
<1>4. \A m \in Msg : Cardinality(Flights(toGw', m)) + Cardinality(Listed(retryList', m))
                       <= Cardinality(Flights(toGw, m)) + Cardinality(Listed(retryList, m))
  BY <1>1, WeightType
<1>5. Used' = Used
  BY <1>1 DEF Used
<1> QED BY <1>1, <1>3, <1>4, <1>5, QuietDelivers

(* Phase 1: the message is given up, or copied once more.                  *)
LEMMA ScanDelivers ==
  ASSUME TypeInv, TypeInv', Counted, NEW own \in Owners, OwnInv(own), Scan
  PROVE  Implements /\ Counted' /\ OwnInv(own)'
<1>1. PICK s \in due : Expire(s) \/ Retry(s)
  BY DEF Scan
<1>2. /\ pc = "scan" /\ pc' = "scan"
      /\ UNCHANGED <<nextId, cur, toGw, toPico, gwVars, published>>
  BY DEF Scan
<1>3. s \in Used /\ s \in Slot /\ slots[s] \in Entry /\ slots[s].msg \in Kept
      /\ Copied(s) \in Copy
  BY <1>1, CopiedType DEF TypeInv, Used
<1>4. Progress
  BY <1>2, ProgressWithoutGateway
<1>5. /\ IdsOwned(own) /\ TableOwned(own) /\ ListOwned(own) /\ UpsOwned(own)
      /\ DownsOwned(own) /\ StoredOwned(own)
  BY DEF OwnInv, HoldersOwn
<1>6. IdsOwned(own)' /\ UpsOwned(own)' /\ DownsOwned(own)' /\ StoredOwned(own)'
  <2>1. stored' \subseteq stored
    BY <1>2 DEF gwVars
  <2>2. IdsOwned(own)' /\ StoredOwned(own)'
    BY <1>2, <1>5, <2>1, IdsKept, StoredKept
  <2> QED BY <1>2, <1>4, <1>5, <2>2, UpsKept, DownsKept
<1>7. PICK x \in Kept : x = slots[s].msg
  BY <1>3
<1>8. x \in Msg /\ x \in published
  BY <1>3, <1>5, <1>7, TrackedArePublished DEF Kept
<1>9. CASE Expire(s)
  <2>1. /\ slots' = [slots EXCEPT ![s] = None] /\ gaveUp' = gaveUp \cup {x}
        /\ retryList' = retryList
    BY <1>7, <1>9 DEF Expire
  <2>2. Used' = Used \ {s} /\ \A t \in Used' : t \in Used /\ slots'[t] = slots[t]
    BY <1>3, <2>1 DEF TypeInv, TypeOK, Used
  <2>3. \A t \in Used' : slots[t].msg # x
    BY <1>3, <1>5, <1>7, <2>2 DEF TableOwned
  <2>4. TableOwned(own)'
    <3>1. \A t \in Used' : slots'[t].step = 1 => Taken(slots[t].msg)'
      BY <1>2, <1>5, <2>2 DEF TableOwned, Taken, gwVars
    <3>2. \A t \in Used' : slots'[t].id = own[slots'[t].msg] /\ slots'[t].msg \notin gaveUp'
      BY <1>5, <2>1, <2>2, <2>3 DEF TableOwned
    <3>3. \A t, u \in Used' : slots'[t].msg = slots'[u].msg => t = u
      BY <1>5, <2>2 DEF TableOwned
    <3>4. pc' # "store" /\ gaveUp' \subseteq published'
      BY <1>2, <1>5, <1>8, <2>1 DEF TableOwned
    <3> QED BY <3>1, <3>2, <3>3, <3>4 DEF TableOwned
  <2>5. ListOwned(own)'
    BY <1>4, <1>5, <2>1, ListKept
  <2>6. Counted'
    <3> SUFFICES ASSUME NEW m \in Msg PROVE CountedAt(m)'
      BY DEF Counted
    <3>1. Weight(m)' <= Weight(m) /\ Weight(m)' \in Nat
      <4>1. Cardinality(Flights(toGw', m)) + Cardinality(Listed(retryList', m))
              <= Cardinality(Flights(toGw, m)) + Cardinality(Listed(retryList, m))
        BY <1>2, <2>1, WeightType
      <4> QED BY <1>2, <4>1, WeightKept
    <3>2. CountedAt(m)
      BY DEF Counted
    <3> QED BY <1>2, <2>2, <3>1, <3>2, CountedKept
  <2>7. Delivery!GiveUp(x)
    <3>1. Pending' = Pending \ {x}
      BY <1>3, <1>7, <2>2, <2>3 DEF Pending
    <3>2. x \in Pending
      BY <1>3, <1>7 DEF Pending
    <3> QED BY <1>2, <2>1, <3>1, <3>2 DEF Delivery!GiveUp, gwVars
  <2>8. Implements
    BY <1>8, <2>7 DEF Implements, Delivery!Next
  <2> QED BY <1>6, <2>4, <2>5, <2>6, <2>8 DEF OwnInv, HoldersOwn
<1>10. CASE Retry(s)
  <2>1. PICK c \in Copy : c = Copied(s)
    BY <1>3
  <2>2. PICK e \in Entry : e = [slots[s] EXCEPT !.retries = @ + 1]
    <3>1. slots[s].retries + 1 \in 0 .. MaxRetries
      BY <1>3, <1>10, QosAssumption DEF Retry, Entry
    <3> QED BY <1>3, <3>1 DEF Entry
  <2>3. /\ retryList' = Append(retryList, c) /\ slots' = [slots EXCEPT ![s] = e]
        /\ gaveUp' = gaveUp /\ e # None
    BY <1>10, <2>1, <2>2, NoneAssumption DEF Retry
  <2>4. /\ slots'[s] = e /\ \A t \in Slot \ {s} : slots'[t] = slots[t]
        /\ e.msg = slots[s].msg /\ e.id = slots[s].id /\ e.step = slots[s].step
        /\ e.retries = slots[s].retries + 1
    BY <1>3, <2>2, <2>3 DEF TypeInv, TypeOK, Entry
  <2>5. Used' = Used
    BY <1>3, <2>3, <2>4 DEF Used
  <2>6. TableOwned(own)'
    <3>1. \A t \in Used' :
            /\ t \in Used /\ slots'[t].msg = slots[t].msg /\ slots'[t].id = slots[t].id
            /\ slots'[t].step = 1 => slots[t].step = 1 \/ Taken(slots[t].msg)
      BY <2>4, <2>5 DEF Used
    <3> QED BY <1>2, <1>4, <1>5, <2>3, <3>1, TableKept
  <2>7. ListOwned(own)'
    <3>1. retryList \in Seq(Copy)
      BY DEF TypeInv, TypeOK
    <3>2. /\ Len(retryList') = Len(retryList) + 1 /\ Len(retryList) \in Nat
          /\ retryList'[Len(retryList) + 1] = c
          /\ \A i \in 1 .. Len(retryList) : retryList'[i] = retryList[i]
      BY <2>3, <3>1, AppendProperties
    <3>3. c.id = own[c.msg] /\ (c.step = 1 => Taken(c.msg))
      BY <1>3, <1>5, <2>1 DEF Copied, TableOwned
    <3>4. ASSUME NEW i \in 1 .. Len(retryList')
          PROVE  /\ retryList'[i].id = own[retryList'[i].msg]
                 /\ retryList'[i].step = 1 => Taken(retryList'[i].msg)
      <4>1. i \in 1 .. Len(retryList) \/ i = Len(retryList) + 1
        BY <3>2
      <4> QED BY <1>5, <3>2, <3>3, <4>1 DEF ListOwned
    <3>5. ASSUME NEW i \in 1 .. Len(retryList'), retryList'[i].step = 1
          PROVE  Taken(retryList[i].msg)'
      BY <1>2, <3>4, <3>5 DEF Taken, gwVars
    <3> QED BY <3>4, <3>5 DEF ListOwned
  <2>8. Counted'
    <3> SUFFICES ASSUME NEW m \in Msg PROVE CountedAt(m)'
      BY DEF Counted
    <3>0. CountedAt(m) /\ retryList \in Seq(Copy)
      BY DEF Counted, TypeInv, TypeOK
    <3>1. Cardinality(Listed(retryList', m))
            = Cardinality(Listed(retryList, m)) + (IF c.msg = m THEN 1 ELSE 0)
      BY <2>3, <3>0, ListedAppend
    <3>2. delivered' = delivered /\ Waiting(m)' = Waiting(m) /\ toGw' = toGw
      BY <1>2 DEF gwVars, Waiting
    <3>3. c.msg = x
      BY <1>7, <2>1 DEF Copied
    <3>4. Weight(m)' = Weight(m) + (IF m = x THEN 1 ELSE 0)
          /\ Weight(m)' \in Nat /\ Weight(m) \in Nat
      BY <3>1, <3>2, <3>3, WeightType, WeightTypeNext DEF Weight
    <3>5. CASE m # x
      <4>1. \A t \in Used' : slots'[t].msg = m =>
              t \in Used /\ slots[t].msg = m /\ slots'[t].retries = slots[t].retries
        BY <1>7, <2>4, <2>5, <3>5 DEF Used
      <4> QED BY <1>2, <3>0, <3>4, <3>5, <4>1, CountedKept
    <3>6. CASE m = x
      <4>1. Weight(m) <= slots[s].retries + 1 /\ slots[s].retries < MaxRetries
            /\ slots[s].retries \in Nat
        BY <1>3, <1>7, <1>10, <3>0, <3>6, QosAssumption DEF CountedAt, Retry, Entry
      <4>2. \A t \in Used' : slots'[t].msg = m => t = s
        BY <1>3, <1>5, <1>7, <2>4, <2>5, <3>6 DEF TableOwned, Used
      <4>3. /\ m \in published' /\ m \in Kept /\ pc' # "store"
            /\ slots'[s].retries = slots[s].retries + 1
        BY <1>2, <1>8, <2>4, <3>6
      <4>4. Weight(m)' <= slots[s].retries + 2 /\ Weight(m)' <= MaxRetries + 1
        BY <3>4, <3>6, <4>1, QosAssumption
      <4>5. \A t \in Used' : slots'[t].msg = m => Weight(m)' <= slots'[t].retries + 1
        BY <3>4, <4>1, <4>2, <4>3, <4>4
      <4> QED BY <4>3, <4>4, <4>5 DEF CountedAt, Kept
    <3> QED BY <3>5, <3>6
  <2>9. Implements
    <3>1. \A t \in Used : slots'[t].msg = slots[t].msg
      BY <2>4 DEF Used
    <3>2. Pending' = Pending
      BY <2>5, <3>1 DEF Pending
    <3> QED BY <1>2, <2>3, <3>2 DEF Implements, gwVars
  <2> QED BY <1>6, <2>6, <2>7, <2>8, <2>9 DEF OwnInv, HoldersOwn
<1> QED BY <1>1, <1>9, <1>10


(* Phase 2: a copy of the snapshot is sent.                                *)
LEMMA ResendDelivers ==
  ASSUME TypeInv, TypeInv', Counted, NEW own \in Owners, OwnInv(own), Resend
  PROVE  Implements /\ Counted' /\ OwnInv(own)'
<1>1. /\ pc = "resend" /\ pc' # "store" /\ retryList' = Tail(retryList)
      /\ UNCHANGED <<slots, recent, nextId, cur, due, toPico, gwVars, published, gaveUp>>
      /\ retryList \in Seq(Copy) /\ retryList # <<>>
  BY DEF Resend, tableVars, TypeInv, TypeOK
<1>2. PICK c \in Copy : c = Head(retryList) /\ c = retryList[1] /\ 1 \in 1 .. Len(retryList)
  <2>1. Len(retryList) \in Nat /\ Len(retryList) # 0 /\ Head(retryList) = retryList[1]
    BY <1>1
  <2>2. 1 \in 1 .. Len(retryList)
    BY <2>1
  <2>3. Head(retryList) \in Copy
    BY <1>1
  <2> QED BY <2>1, <2>2, <2>3
<1>3. PICK d \in Upward :
        d = IF Qos[c.msg] = 2 /\ c.step = 1
            THEN [type |-> "PUBREL", id |-> c.id]
            ELSE [type |-> "PUBLISH", id |-> c.id, msg |-> c.msg]
  <2>1. c.msg \in Kept /\ c.id \in Id
    BY DEF Copy
  <2>2. [type |-> "PUBREL", id |-> c.id] \in Upward
    BY <2>1 DEF Upward
  <2>3. [type |-> "PUBLISH", id |-> c.id, msg |-> c.msg] \in Upward
    BY <2>1 DEF Upward
  <2> QED BY <2>2, <2>3
<1>4. ToGw(toGw, d)
  BY <1>2, <1>3 DEF Resend
<1>5. /\ IdsOwned(own) /\ ListOwned(own) /\ UpsOwned(own) /\ DownsOwned(own)
  BY DEF OwnInv, HoldersOwn
<1>6. c.msg \in Kept /\ c.id \in Id /\ c.id = own[c.msg] /\ (c.step = 1 => Taken(c.msg))
  BY <1>2, <1>5 DEF ListOwned, Copy
<1>7. Progress
  BY <1>1, ProgressWithoutGateway
<1>8. UpOwned(own, d)'
  <2>1. c.msg \in published
    <3>1. 0 \notin Id
      BY DEF Id
    <3> QED BY <1>5, <1>6, <3>1 DEF IdsOwned
  <2>2. UpOwned(own, d)
    <3>1. CASE Qos[c.msg] = 2 /\ c.step = 1
      <4>1. d.type = "PUBREL" /\ d.id = c.id
        BY <1>3, <3>1
      <4> QED BY <1>6, <3>1, <4>1 DEF UpOwned
    <3>2. CASE ~ (Qos[c.msg] = 2 /\ c.step = 1)
      <4>1. d.type = "PUBLISH" /\ d.id = c.id /\ d.msg = c.msg
        BY <1>3, <3>2
      <4> QED BY <1>6, <2>1, <4>1 DEF UpOwned
    <3> QED BY <3>1, <3>2
  <2> QED BY <1>7, <2>2, UpStays
<1>9. UpsOwned(own)'
  BY <1>4, <1>5, <1>7, <1>8, UpsSent
<1>10. ListOwned(own)' /\ DownsOwned(own)'
  <2>1. /\ Len(retryList') = Len(retryList) - 1 /\ Len(retryList) \in Nat
        /\ \A i \in 1 .. Len(retryList') : retryList'[i] = retryList[i + 1]
    BY <1>1, HeadTailProperties
  <2>2. \A i \in 1 .. Len(retryList') : i + 1 \in 1 .. Len(retryList)
    BY <2>1
  <2>3. \A i \in 1 .. Len(retryList') : \E j \in 1 .. Len(retryList) :
          retryList'[i] = retryList[j]
    BY <2>1, <2>2
  <2>4. ListOwned(own)'
    BY <1>5, <1>7, <2>3, ListKept
  <2> QED BY <1>1, <1>5, <1>7, <2>4, DownsKept
<1>11. ASSUME NEW m \in Msg
       PROVE  Cardinality(Flights(toGw', m)) + Cardinality(Listed(retryList', m))
                <= Cardinality(Flights(toGw, m)) + Cardinality(Listed(retryList, m))
  <2>1. Cardinality(Flights(toGw', m)) <= Cardinality(Flights(toGw, m)) + Is(d, m)
    BY <1>4, FlightsSent DEF TypeInv, TypeOK
  <2>2. Cardinality(Listed(retryList, m))
          = Cardinality(Listed(retryList', m)) + (IF c.msg = m THEN 1 ELSE 0)
    BY <1>1, <1>2, ListedTail
  <2>3. Is(d, m) = 1 => c.msg = m
    BY <1>3 DEF Is
  <2>4. Is(d, m) \in {0, 1}
    BY DEF Is
  <2> QED BY <2>1, <2>2, <2>3, <2>4, WeightType, WeightTypeNext
<1>12. Used' = Used
  BY <1>1 DEF Used
<1> QED BY <1>1, <1>9, <1>10, <1>11, <1>12, QuietDelivers

(* PUBACK or PUBCOMP: the message is done.                                 *)
LEMMA ReceiveFinalDelivers ==
  ASSUME TypeInv, TypeInv', Counted, NEW own \in Owners, OwnInv(own), ReceiveFinal
  PROVE  Implements /\ Counted' /\ OwnInv(own)'
<1>1. /\ toPico # <<>> /\ Head(toPico).type \in {"PUBACK", "PUBCOMP"}
      /\ toPico' = Tail(toPico)
      /\ slots' = [s \in Slot |-> IF s \in With(Head(toPico).id) THEN None ELSE slots[s]]
      /\ UNCHANGED <<nextId, pc, cur, retryList, toGw, gwVars, published, gaveUp>>
  BY DEF ReceiveFinal, Remove, Free
<1>2. /\ IdsOwned(own) /\ TableOwned(own) /\ ListOwned(own) /\ UpsOwned(own)
      /\ DownsOwned(own) /\ StoredOwned(own)
  BY DEF OwnInv, HoldersOwn
<1>3. PICK id \in Id : id = Head(toPico).id
  BY <1>1, <1>2, HeadDown DEF Downward
<1>4. PICK x \in Kept : own[x] = id /\ Done(x)
  BY <1>1, <1>2, <1>3, HeadDown DEF DownOwned
<1>5. \A s \in Used : slots[s].id = id <=> slots[s].msg = x
  <2>1. id # 0
    BY DEF Id
  <2>2. \A s \in Used : slots[s].msg \in Kept /\ slots[s].id = own[slots[s].msg]
    BY <1>2, CopiedType DEF TableOwned
  <2> QED BY <1>2, <1>4, <2>1, <2>2 DEF IdsOwned
<1>6. /\ Used' = {s \in Used : slots[s].msg # x}
      /\ \A s \in Used' : slots'[s] = slots[s]
  BY <1>1, <1>3, <1>5 DEF Used, With
<1>7. Progress
  BY <1>1, ProgressWithoutGateway
<1>8. TableOwned(own)'
  <2>1. \A s \in Used' :
           /\ s \in Used /\ slots'[s].msg = slots[s].msg /\ slots'[s].id = slots[s].id
           /\ slots'[s].step = 1 => slots[s].step = 1 \/ Taken(slots[s].msg)
    BY <1>6
  <2> QED BY <1>1, <1>2, <1>7, <2>1, TableKept
<1>9. ListOwned(own)' /\ UpsOwned(own)' /\ DownsOwned(own)'
  <2>1. ListOwned(own)'
    BY <1>1, <1>2, <1>7, ListKept
  <2>2. UpsOwned(own)'
    BY <1>1, <1>2, <1>7, UpsKept
  <2> QED BY <1>1, <1>2, <1>7, <2>1, <2>2, DownsKept
<1>10. IdsOwned(own)' /\ StoredOwned(own)'
  <2>1. stored' \subseteq stored
    BY <1>1 DEF gwVars
  <2> QED BY <1>1, <1>2, <2>1, IdsKept, StoredKept
<1>11. Counted'
  <2> SUFFICES ASSUME NEW m \in Msg PROVE CountedAt(m)'
    BY DEF Counted
  <2>1. Weight(m)' <= Weight(m) /\ Weight(m)' \in Nat
    <3>1. Cardinality(Flights(toGw', m)) + Cardinality(Listed(retryList', m))
            <= Cardinality(Flights(toGw, m)) + Cardinality(Listed(retryList, m))
      BY <1>1, WeightType
    <3> QED BY <1>1, <3>1, WeightKept
  <2>2. CountedAt(m)
    BY DEF Counted
  <2> QED BY <1>1, <1>6, <2>1, <2>2, CountedKept
<1>12. Implements
  <2>1. Pending' = Pending \ {x}
    BY <1>6 DEF Pending
  <2>2. CASE x \notin Pending
    BY <1>1, <2>1, <2>2 DEF Implements, gwVars
  <2>3. CASE x \in Pending
    <3>1. Delivery!Acknowledged(x)
      BY <1>1, <1>4, <2>1, <2>3 DEF Delivery!Acknowledged, gwVars, Done
    <3> QED BY <3>1 DEF Implements, Delivery!Next, Kept
  <2> QED BY <2>2, <2>3
<1> QED BY <1>8, <1>9, <1>10, <1>11, <1>12 DEF OwnInv, HoldersOwn

(* PUBREC: the broker has the message.                                     *)
LEMMA ReceivePubrecDelivers ==
  ASSUME TypeInv, TypeInv', Counted, NEW own \in Owners, OwnInv(own), ReceivePubrec
  PROVE  Implements /\ Counted' /\ OwnInv(own)'
<1>1. /\ toPico # <<>> /\ Head(toPico).type = "PUBREC" /\ toPico' = Tail(toPico)
      /\ UNCHANGED <<nextId, pc, cur, retryList, gwVars, published, gaveUp>>
  BY DEF ReceivePubrec
<1>2. /\ IdsOwned(own) /\ TableOwned(own) /\ ListOwned(own) /\ UpsOwned(own)
      /\ DownsOwned(own)
  BY DEF OwnInv, HoldersOwn
<1>3. PICK id \in Id : id = Head(toPico).id
  BY <1>1, <1>2, HeadDown DEF Downward
<1>4. PICK x \in Kept : own[x] = id /\ Taken(x)
  BY <1>1, <1>2, <1>3, HeadDown DEF DownOwned
<1>5. PICK d \in Upward : d = [type |-> "PUBREL", id |-> id]
  BY DEF Upward
<1>6. /\ ToGw(toGw, d)
      /\ \/ slots' = slots
         \/ \E s \in With(id) : slots' = [slots EXCEPT ![s].step = 1]
  BY <1>3, <1>5 DEF ReceivePubrec
<1>7. Progress
  BY <1>1, ProgressWithoutGateway
<1>8. /\ Used' = Used
      /\ \A s \in Used :
           /\ slots'[s].msg = slots[s].msg /\ slots'[s].id = slots[s].id
           /\ slots'[s].retries = slots[s].retries
           /\ slots'[s].step = 1 => slots[s].step = 1 \/ Taken(slots[s].msg)
  <2>1. CASE slots' = slots
    BY <2>1 DEF Used
  <2>2. CASE \E s \in With(id) : slots' = [slots EXCEPT ![s].step = 1]
    <3>1. PICK s \in With(id) : slots' = [slots EXCEPT ![s].step = 1]
      BY <2>2
    <3>2. s \in Used /\ s \in Slot /\ slots[s] \in Entry /\ slots[s].msg \in Kept
          /\ slots[s].id = id
      BY CopiedType DEF With, Used
    <3>3. PICK e \in Entry : e = [slots[s] EXCEPT !.step = 1]
      BY <3>2 DEF Entry
    <3>4. /\ slots' = [slots EXCEPT ![s] = e] /\ e # None
          /\ e.msg = slots[s].msg /\ e.id = slots[s].id /\ e.retries = slots[s].retries
      BY <3>1, <3>2, <3>3, NoneAssumption DEF Entry
    <3>5. slots'[s] = e /\ \A t \in Slot \ {s} : slots'[t] = slots[t]
      BY <3>2, <3>4 DEF TypeInv, TypeOK
    <3>6. slots[s].msg = x
      <4>1. own[slots[s].msg] = own[x] /\ id # 0
        BY <1>2, <1>4, <3>2 DEF TableOwned, Id
      <4> QED BY <1>2, <1>4, <3>2, <4>1 DEF IdsOwned
    <3>7. Used' = Used
      BY <3>2, <3>4, <3>5 DEF Used
    <3> QED BY <1>4, <3>4, <3>5, <3>6, <3>7 DEF Used
  <2> QED BY <1>6, <2>1, <2>2
<1>9. UpOwned(own, d)'
  <2>1. UpOwned(own, d)
    BY <1>4, <1>5 DEF UpOwned
  <2> QED BY <1>7, <2>1, UpStays
<1>10. UpsOwned(own)'
  BY <1>2, <1>6, <1>7, <1>9, UpsSent
<1>11. ListOwned(own)' /\ DownsOwned(own)'
  <2>1. ListOwned(own)'
    BY <1>1, <1>2, <1>7, ListKept
  <2> QED BY <1>1, <1>2, <1>7, <2>1, DownsKept
<1>12. \A m \in Msg : Cardinality(Flights(toGw', m)) + Cardinality(Listed(retryList', m))
                        <= Cardinality(Flights(toGw, m)) + Cardinality(Listed(retryList, m))
  <2> TAKE m \in Msg
  <2>1. Cardinality(Flights(toGw', m)) <= Cardinality(Flights(toGw, m)) + Is(d, m)
    BY <1>6, FlightsSent DEF TypeInv, TypeOK
  <2>2. Is(d, m) = 0 /\ retryList' = retryList
    BY <1>1, <1>5 DEF Is
  <2> QED BY <2>1, <2>2, WeightType, WeightTypeNext
<1> QED BY <1>1, <1>8, <1>10, <1>11, <1>12, QuietDelivers

------------------------------------------------------------------------------
(* The gateway takes a datagram and may answer it: nothing happens to the  *)
(* Pico's table.                                                           *)
LEMMA GatewayKeeps ==
  ASSUME TypeInv, TypeInv', Counted, NEW own \in Owners, OwnInv(own), Progress,
         UNCHANGED <<tableVars, taskVars, published, gaveUp>>,
         toGw # <<>>, toGw' = Tail(toGw),
         NEW a \in Downward,
         (ToPico(a) /\ DownOwned(own, a)') \/ UNCHANGED toPico,
         StoredOwned(own)', \A m \in Msg : Weight(m)' <= Weight(m)
  PROVE  Pending' = Pending /\ Counted' /\ OwnInv(own)'
<1>1. UNCHANGED <<slots, nextId, pc, cur, retryList>>
  BY DEF tableVars, taskVars
<1>2. /\ IdsOwned(own) /\ TableOwned(own) /\ ListOwned(own) /\ UpsOwned(own)
      /\ DownsOwned(own)
  BY DEF OwnInv, HoldersOwn
<1>3. Used' = Used
  BY <1>1 DEF Used
<1>4. TableOwned(own)'
  <2>1. \A s \in Used' :
           /\ s \in Used /\ slots'[s].msg = slots[s].msg /\ slots'[s].id = slots[s].id
           /\ slots'[s].step = 1 => slots[s].step = 1 \/ Taken(slots[s].msg)
    BY <1>1, <1>3
  <2> QED BY <1>1, <1>2, <2>1, TableKept
<1>5. IdsOwned(own)' /\ ListOwned(own)'
  <2>1. ListOwned(own)'
    BY <1>1, <1>2, ListKept
  <2> QED BY <1>1, <1>2, <2>1, IdsKept
<1>6. UpsOwned(own)' /\ DownsOwned(own)'
  <2>1. UpsOwned(own)'
    BY <1>2, UpsKept
  <2>2. CASE ToPico(a) /\ DownOwned(own, a)'
    BY <1>2, <2>1, <2>2, DownsSent
  <2>3. CASE UNCHANGED toPico
    BY <1>2, <2>1, <2>3, DownsKept
  <2> QED BY <2>2, <2>3
<1>7. Counted'
  <2> SUFFICES ASSUME NEW m \in Msg PROVE CountedAt(m)'
    BY DEF Counted
  <2>1. CountedAt(m) /\ Weight(m)' <= Weight(m) /\ Weight(m)' \in Nat
    BY WeightTypeNext DEF Counted
  <2> QED BY <1>1, <1>3, <2>1, CountedKept
<1>8. Pending' = Pending
  BY <1>1, <1>3 DEF Pending
<1> QED BY <1>4, <1>5, <1>6, <1>7, <1>8 DEF OwnInv, HoldersOwn

(* The datagram that the gateway takes no longer counts as under way.      *)
LEMMA FlightTaken ==
  ASSUME TypeInv, toGw # <<>>, toGw' = Tail(toGw), NEW m
  PROVE  Cardinality(Flights(toGw, m)) = Cardinality(Flights(toGw', m)) + Is(Head(toGw), m)
<1>1. toGw \in Seq(Upward)
  BY DEF TypeInv, TypeOK
<1> QED BY <1>1, FlightsTail

(* What may still be delivered is below the limit.                         *)
LEMMA BelowLimit ==
  ASSUME TypeInv, Counted, NEW m \in Msg, delivered[m] + 1 <= Weight(m)
  PROVE  delivered[m] < Delivery!Limit(m) /\ m \in published
<1>1. delivered[m] \in Nat /\ Weight(m) \in Nat /\ CountedAt(m)
  BY WeightType DEF Counted
<1>2. m \in Kept <=> Qos[m] # 0
  BY QosAssumption DEF Kept
<1>3. Weight(m) <= Delivery!Limit(m)
  BY <1>1, <1>2 DEF CountedAt, Delivery!Limit
<1>4. Delivery!Limit(m) \in Nat
  BY QosAssumption DEF Delivery!Limit
<1> QED BY <1>1, <1>3, <1>4 DEF CountedAt

(* QoS 0 and 1: delivered.                                                 *)
LEMMA GwPublishDelivers ==
  ASSUME TypeInv, TypeInv', Counted, NEW own \in Owners, OwnInv(own), GwPublish,
         UNCHANGED <<tableVars, taskVars, published, gaveUp>>
  PROVE  Implements /\ Counted' /\ OwnInv(own)'
<1>1. PICK d \in Upward : d = Head(toGw) /\ UpOwned(own, d)
  BY HeadUp DEF GwPublish, GwReceive, OwnInv, HoldersOwn
<1>2. /\ toGw # <<>> /\ toGw' = Tail(toGw) /\ d.type = "PUBLISH" /\ Qos[d.msg] < 2
      /\ delivered' = [delivered EXCEPT ![d.msg] = @ + 1]
      /\ IF Qos[d.msg] = 1 THEN ToPico([type |-> "PUBACK", id |-> d.id])
                           ELSE UNCHANGED <<toPico, lost>>
      /\ UNCHANGED <<stored, refused>>
  BY <1>1 DEF GwPublish, GwReceive, Deliver
<1>3. PICK x \in Msg : x = d.msg
  BY <1>1, <1>2 DEF Upward, Kept
<1>4. /\ delivered \in [Msg -> Nat] /\ delivered'[x] = delivered[x] + 1
      /\ \A m \in Msg \ {x} : delivered'[m] = delivered[m]
  BY <1>2, <1>3 DEF TypeInv, TypeOK
<1>5. Progress
  <2>1. \A m \in Kept : delivered[m] > 0 => delivered'[m] > 0
    BY <1>4 DEF Kept
  <2> QED BY <1>2, <2>1 DEF Progress, Taken, Done
<1>6. \A m \in Msg : Waiting(m)' = Waiting(m) /\ retryList' = retryList
  BY <1>2 DEF Waiting, taskVars
<1>7. \A m \in Msg : Weight(m)' <= Weight(m)
  <2> TAKE m \in Msg
  <2>1. Cardinality(Flights(toGw, m)) = Cardinality(Flights(toGw', m)) + Is(d, m)
    BY <1>1, <1>2, FlightTaken
  <2>2. Is(d, m) = IF m = x THEN 1 ELSE 0
    BY <1>2, <1>3 DEF Is
  <2> QED BY <1>4, <1>6, <2>1, <2>2, WeightType, WeightTypeNext DEF Weight
<1>8. Delivery!Deliver(x) \/ Pending' # Pending
  <2>1. Cardinality(Flights(toGw, x)) = Cardinality(Flights(toGw', x)) + 1
    BY <1>1, <1>2, <1>3, FlightTaken DEF Is
  <2>2. delivered[x] + 1 <= Weight(x)
    BY <2>1, WeightType, WeightTypeNext DEF Weight
  <2>3. delivered[x] < Delivery!Limit(x) /\ x \in published
    BY <2>2, BelowLimit
  <2> QED BY <1>2, <1>3, <2>3 DEF Delivery!Deliver
<1>9. PICK a \in Downward : (ToPico(a) /\ DownOwned(own, a)') \/ UNCHANGED toPico
  <2>1. CASE Qos[x] = 1
    <3>1. x \in Kept /\ d.id \in Id
      BY <1>2, <1>3, <2>1 DEF Upward, Kept
    <3>2. PICK a \in Downward : a = [type |-> "PUBACK", id |-> d.id]
      BY <3>1 DEF Downward
    <3>3. d.id = own[x]
      BY <1>1, <1>2, <1>3, <3>1 DEF UpOwned
    <3>4. Done(x)'
      BY <1>4 DEF Done
    <3>5. DownOwned(own, a)'
      BY <3>1, <3>2, <3>3, <3>4 DEF DownOwned
    <3> QED BY <1>2, <1>3, <2>1, <3>2, <3>5
  <2>2. CASE Qos[x] # 1
    <3>1. [type |-> "PUBACK", id |-> 1] \in Downward
      BY QosAssumption DEF Downward, Id
    <3> QED BY <1>2, <1>3, <2>2, <3>1
  <2> QED BY <2>1, <2>2
<1>10. StoredOwned(own)'
  BY <1>2, StoredKept DEF OwnInv, HoldersOwn
<1>11. Pending' = Pending /\ Counted' /\ OwnInv(own)'
  BY <1>2, <1>5, <1>7, <1>9, <1>10, GatewayKeeps
<1> QED BY <1>8, <1>11 DEF Implements, Delivery!Next

(* QoS 2: the broker has the message now.                                  *)
LEMMA GwPublish2Delivers ==
  ASSUME TypeInv, TypeInv', Counted, NEW own \in Owners, OwnInv(own), GwPublish2,
         UNCHANGED <<tableVars, taskVars, published, gaveUp>>
  PROVE  Implements /\ Counted' /\ OwnInv(own)'
<1>1. PICK d \in Upward : d = Head(toGw) /\ UpOwned(own, d)
  BY HeadUp DEF GwPublish2, GwReceive, OwnInv, HoldersOwn
<1>2. /\ toGw # <<>> /\ toGw' = Tail(toGw) /\ d.type = "PUBLISH" /\ Qos[d.msg] = 2
      /\ stored' = IF \E x \in stored : x.id = d.id THEN stored
                   ELSE stored \cup {[id |-> d.id, msg |-> d.msg]}
      /\ ToPico([type |-> "PUBREC", id |-> d.id])
      /\ UNCHANGED <<delivered, refused>>
  BY <1>1 DEF GwPublish2, GwReceive
<1>3. PICK x \in Kept : x = d.msg /\ d.id \in Id /\ d.id = own[x] /\ x \in Msg
  <2>1. d.msg \in Kept /\ d.id \in Id /\ d.msg \in Msg
    BY <1>2 DEF Upward, Kept
  <2> QED BY <1>1, <1>2, <2>1 DEF UpOwned
<1>4. IdsOwned(own) /\ StoredOwned(own)
  BY DEF OwnInv, HoldersOwn
<1>5. Progress
  BY <1>2 DEF Progress, Taken, Done
<1>6. StoredOwned(own)' /\ \E y \in stored' : y.msg = x
  <2>1. CASE \E y \in stored : y.id = d.id
    <3>1. PICK y \in stored : y.id = d.id
      BY <2>1
    <3>2. y.msg \in Kept /\ own[y.msg] = own[x] /\ own[x] # 0
      BY <1>3, <1>4, <3>1 DEF StoredOwned, TypeInv, TypeOK, Id
    <3>3. y.msg = x
      BY <1>4, <3>2 DEF IdsOwned
    <3> QED BY <1>2, <1>4, <2>1, <3>1, <3>3 DEF StoredOwned
  <2>2. CASE ~ \E y \in stored : y.id = d.id
    <3>1. PICK y : y = [id |-> d.id, msg |-> d.msg]
      OBVIOUS
    <3>2. stored' = stored \cup {y} /\ y.id = own[y.msg] /\ y.msg = x
      BY <1>2, <1>3, <2>2, <3>1
    <3> QED BY <1>4, <3>2 DEF StoredOwned
  <2> QED BY <2>1, <2>2
<1>7. \A m \in Msg : Weight(m)' <= Weight(m)
  <2> TAKE m \in Msg
  <2>1. Cardinality(Flights(toGw, m)) = Cardinality(Flights(toGw', m)) + Is(d, m)
    BY <1>1, <1>2, FlightTaken
  <2>2. Is(d, m) = IF m = x THEN 1 ELSE 0
    BY <1>2, <1>3 DEF Is
  <2>3. m # x => Waiting(m)' = Waiting(m)
    <3>1. \A y \in stored' : y \in stored \/ y.msg = x
      BY <1>2, <1>3
    <3>2. stored \subseteq stored'
      BY <1>2
    <3> QED BY <3>1, <3>2 DEF Waiting
  <2>4. delivered' = delivered /\ retryList' = retryList
    BY <1>2 DEF taskVars
  <2> QED BY <2>1, <2>2, <2>3, <2>4, WeightType, WeightTypeNext DEF Weight
<1>8. PICK a \in Downward : ToPico(a) /\ DownOwned(own, a)'
  <2>1. PICK a \in Downward : a = [type |-> "PUBREC", id |-> d.id]
    BY <1>3 DEF Downward
  <2>2. Taken(x)'
    BY <1>6 DEF Taken
  <2>3. DownOwned(own, a)'
    BY <1>3, <2>1, <2>2 DEF DownOwned
  <2> QED BY <1>2, <2>1, <2>3
<1>9. Pending' = Pending /\ Counted' /\ OwnInv(own)'
  BY <1>2, <1>5, <1>6, <1>7, <1>8, GatewayKeeps
<1> QED BY <1>2, <1>9 DEF Implements

(* PUBREL: delivered, unless it was before.                                *)
LEMMA GwPubrelDelivers ==
  ASSUME TypeInv, TypeInv', Counted, NEW own \in Owners, OwnInv(own), GwPubrel,
         UNCHANGED <<tableVars, taskVars, published, gaveUp>>
  PROVE  Implements /\ Counted' /\ OwnInv(own)'
<1>1. PICK d \in Upward : d = Head(toGw) /\ UpOwned(own, d)
  BY HeadUp DEF GwPubrel, GwReceive, OwnInv, HoldersOwn
<1>2. /\ toGw # <<>> /\ toGw' = Tail(toGw) /\ d.type = "PUBREL"
      /\ ToPico([type |-> "PUBCOMP", id |-> d.id]) /\ UNCHANGED refused
      /\ \/ \E y \in stored : y.id = d.id /\ Deliver(y.msg) /\ stored' = stored \ {y}
         \/ (\A y \in stored : y.id # d.id) /\ UNCHANGED <<stored, delivered>>
  BY <1>1 DEF GwPubrel, GwReceive
<1>3. IdsOwned(own) /\ StoredOwned(own)
  BY DEF OwnInv, HoldersOwn
<1>4. PICK x \in Kept : d.id = own[x] /\ Taken(x) /\ d.id \in Id /\ x \in Msg
  <2>1. d.id \in Id
    BY <1>2 DEF Upward
  <2> QED BY <1>1, <1>2, <2>1 DEF UpOwned, Kept
<1>5. \A y \in stored : y.id = d.id <=> y.msg = x
  <2>1. \A y \in stored : y.msg \in Kept /\ y.id = own[y.msg] /\ d.id # 0
    BY <1>3, <1>4 DEF StoredOwned, TypeInv, TypeOK, Id
  <2> QED BY <1>3, <1>4, <2>1 DEF IdsOwned
<1>6. /\ delivered \in [Msg -> Nat] /\ stored \subseteq [id : Id, msg : Kept]
      /\ retryList' = retryList
  BY DEF TypeInv, TypeOK, taskVars
<1>7. \A m \in Msg : Cardinality(Flights(toGw', m)) = Cardinality(Flights(toGw, m))
  <2> TAKE m \in Msg
  <2>1. Cardinality(Flights(toGw, m)) = Cardinality(Flights(toGw', m)) + Is(d, m)
    BY <1>1, <1>2, FlightTaken
  <2>2. Is(d, m) = 0
    BY <1>2 DEF Is
  <2> QED BY <2>1, <2>2, WeightTypeNext
<1>8. StoredOwned(own)'
  BY <1>2, <1>3, StoredKept
<1>9. ASSUME Progress, Done(x)', \A m \in Msg : Weight(m)' <= Weight(m)
      PROVE  Pending' = Pending /\ Counted' /\ OwnInv(own)'
  <2>1. PICK a \in Downward : a = [type |-> "PUBCOMP", id |-> d.id]
    BY <1>4 DEF Downward
  <2>2. DownOwned(own, a)'
    BY <1>4, <1>9, <2>1 DEF DownOwned
  <2> QED BY <1>2, <1>8, <1>9, <2>1, <2>2, GatewayKeeps
<1>10. CASE \E y \in stored : y.id = d.id /\ Deliver(y.msg) /\ stored' = stored \ {y}
  <2>1. PICK y \in stored : y.msg = x /\ Deliver(x) /\ stored' = stored \ {y}
    BY <1>5, <1>10
  <2>2. /\ delivered'[x] = delivered[x] + 1
        /\ \A m \in Msg \ {x} : delivered'[m] = delivered[m]
    BY <1>4, <1>6, <2>1 DEF Deliver
  <2>3. \A z \in stored : z.msg = x => z = y
    <3>1. \A z \in stored : z.msg = x => z.id = y.id
      BY <1>3, <2>1 DEF StoredOwned
    <3> QED BY <1>6, <2>1, <3>1
  <2>4. Waiting(x) = 1 /\ Waiting(x)' = 0
    BY <2>1, <2>3 DEF Waiting
  <2>5. \A m \in Msg \ {x} : Waiting(m)' = Waiting(m)
    BY <2>1 DEF Waiting
  <2>6. \A m \in Msg : Weight(m)' <= Weight(m)
    <3> TAKE m \in Msg
    <3>1. delivered'[m] + Waiting(m)' = delivered[m] + Waiting(m)
      BY <1>4, <1>6, <2>2, <2>4, <2>5
    <3> QED BY <1>6, <1>7, <3>1, WeightType, WeightTypeNext DEF Weight
  <2>7. Progress /\ Done(x)'
    <3>1. \A m \in Kept : m \in Msg
      BY DEF Kept
    <3>2. delivered'[x] > 0 /\ \A m \in Kept : delivered[m] > 0 => delivered'[m] > 0
      BY <1>4, <1>6, <2>2, <3>1
    <3>3. \A m \in Kept : Taken(m) => Taken(m)'
      BY <2>1, <3>2 DEF Taken
    <3> QED BY <1>2, <3>2, <3>3 DEF Progress, Done
  <2>8. Pending' = Pending /\ Counted' /\ OwnInv(own)'
    BY <1>9, <2>6, <2>7
  <2>9. Delivery!Deliver(x)
    <3>1. delivered[x] + 1 <= Weight(x)
      BY <1>4, <2>4, WeightType DEF Weight
    <3>2. delivered[x] < Delivery!Limit(x) /\ x \in published
      BY <1>4, <3>1, BelowLimit
    <3> QED BY <1>2, <2>1, <2>8, <3>2 DEF Delivery!Deliver, Deliver
  <2> QED BY <1>4, <2>8, <2>9 DEF Implements, Delivery!Next
<1>11. CASE (\A y \in stored : y.id # d.id) /\ UNCHANGED <<stored, delivered>>
  <2>1. Progress
    BY <1>2, <1>11 DEF Progress, Taken, Done
  <2>2. Done(x)'
    BY <1>4, <1>5, <1>11 DEF Taken, Done
  <2>3. \A m \in Msg : Weight(m)' <= Weight(m)
    <3> TAKE m \in Msg
    <3>1. Waiting(m)' = Waiting(m)
      BY <1>11 DEF Waiting
    <3> QED BY <1>6, <1>7, <1>11, <3>1, WeightType, WeightTypeNext DEF Weight
  <2>4. Pending' = Pending /\ Counted' /\ OwnInv(own)'
    BY <1>9, <2>1, <2>2, <2>3
  <2> QED BY <1>2, <1>11, <2>4 DEF Implements
<1> QED BY <1>2, <1>10, <1>11

(* Refused, and answered as if it had been accepted.                       *)
LEMMA GwRefuseDelivers ==
  ASSUME TypeInv, TypeInv', Counted, NEW own \in Owners, OwnInv(own), GwRefuse,
         UNCHANGED <<tableVars, taskVars, published, gaveUp>>
  PROVE  Implements /\ Counted' /\ OwnInv(own)'
<1>1. PICK d \in Upward : d = Head(toGw) /\ UpOwned(own, d)
  BY HeadUp DEF GwRefuse, GwReceive, OwnInv, HoldersOwn
<1>2. /\ toGw # <<>> /\ toGw' = Tail(toGw) /\ d.type = "PUBLISH" /\ d.msg \in Kept
      /\ refused' = refused \cup {d.msg}
      /\ ToPico([type |-> "PUBACK", id |-> d.id])
      /\ UNCHANGED <<stored, delivered>>
  BY <1>1 DEF GwRefuse, GwReceive
<1>3. PICK x \in Kept : /\ x = d.msg /\ d.id \in Id /\ d.id = own[x]
                        /\ x \in Msg /\ x \in published
  <2>1. d.id \in Id /\ d.msg \in Msg
    BY <1>2 DEF Upward, Kept
  <2> QED BY <1>1, <1>2, <2>1 DEF UpOwned
<1>4. Progress /\ Done(x)'
  BY <1>2, <1>3 DEF Progress, Taken, Done
<1>5. \A m \in Msg : Weight(m)' <= Weight(m)
  <2> TAKE m \in Msg
  <2>1. Cardinality(Flights(toGw, m)) = Cardinality(Flights(toGw', m)) + Is(d, m)
    BY <1>1, <1>2, FlightTaken
  <2>2. Is(d, m) \in {0, 1} /\ Waiting(m)' = Waiting(m) /\ retryList' = retryList
    BY <1>2 DEF Is, Waiting, taskVars
  <2> QED BY <1>2, <2>1, <2>2, WeightType, WeightTypeNext DEF Weight
<1>6. PICK a \in Downward : ToPico(a) /\ DownOwned(own, a)'
  <2>1. PICK a \in Downward : a = [type |-> "PUBACK", id |-> d.id]
    BY <1>3 DEF Downward
  <2>2. DownOwned(own, a)'
    BY <1>3, <1>4, <2>1 DEF DownOwned
  <2> QED BY <1>2, <2>1, <2>2
<1>7. StoredOwned(own)'
  BY <1>2, StoredKept DEF OwnInv, HoldersOwn
<1>8. Pending' = Pending /\ Counted' /\ OwnInv(own)'
  BY <1>2, <1>4, <1>5, <1>6, <1>7, GatewayKeeps
<1>9. Delivery!Refuse(x)
  BY <1>2, <1>3, <1>8 DEF Delivery!Refuse
<1> QED BY <1>3, <1>8, <1>9 DEF Implements, Delivery!Next

------------------------------------------------------------------------------
(* Nothing is published, nobody holds an id.                               *)
LEMMA DeliveryInit == Init => DeliveryInv /\ Delivery!Init
<1> SUFFICES ASSUME Init PROVE DeliveryInv /\ Delivery!Init
  OBVIOUS
<1>1. /\ Used = {} /\ Pending = {}
  BY DEF Init, Used, Pending
<1>2. Delivery!Init
  BY <1>1 DEF Init, Delivery!Init
<1>3. Counted
  <2> SUFFICES ASSUME NEW m \in Msg PROVE CountedAt(m)
    BY DEF Counted
  <2>1. Flights(toGw, m) = {} /\ Listed(retryList, m) = {}
    BY DEF Init, Flights, Listed
  <2>2. /\ Cardinality(Flights(toGw, m)) = 0 /\ Cardinality(Listed(retryList, m)) = 0
    BY <2>1, FS_EmptySet
  <2>3. delivered[m] = 0 /\ Waiting(m) = 0
    BY DEF Init, Waiting
  <2>4. Weight(m) = 0
    BY <2>2, <2>3 DEF Weight
  <2> QED BY <1>1, <2>4, QosAssumption DEF CountedAt, Init
<1>4. PICK own \in Owners : \A m \in Kept : own[m] = 0
  <2>1. 0 \in 0 .. MaxId - 1
    BY QosAssumption
  <2>2. [m \in Kept |-> 0] \in Owners
    BY <2>1 DEF Owners
  <2> QED BY <2>2
<1>5. OwnInv(own)
  <2>1. IdsOwned(own)
    BY <1>4 DEF IdsOwned, Init
  <2>2. HoldersOwn(own)
    BY <1>1 DEF Init, HoldersOwn, TableOwned, ListOwned, UpsOwned, DownsOwned, StoredOwned
  <2> QED BY <2>1, <2>2 DEF OwnInv
<1> QED BY <1>2, <1>3, <1>5 DEF DeliveryInv

(* Every step of the engine, the network and the gateway is one of         *)
(* QosDelivery, or none.                                                   *)
LEMMA DeliveryStep ==
  ASSUME TypeInv, TypeInv', DeliveryInv, [Next]_vars, [GivesFreeId]_vars
  PROVE  DeliveryInv' /\ Implements
<1>1. PICK own \in Owners : OwnInv(own)
  BY DEF DeliveryInv
<1>2. Counted
  BY DEF DeliveryInv
<1>3. ASSUME \E new \in Owners : OwnInv(new)', Counted' PROVE DeliveryInv'
  <2>1. Owners' = Owners
    BY DEF Owners, Kept
  <2> QED BY <1>3, <2>1 DEF DeliveryInv
<1>4. ASSUME NEW m \in Msg, Publish(m) PROVE DeliveryInv' /\ Implements
  <2>1. GivesFreeId
    <3>1. published' # published
      BY <1>4 DEF Publish
    <3> QED BY <3>1 DEF vars
  <2>2. Implements /\ Counted' /\ \E new \in Owners : OwnInv(new)'
    BY <1>1, <1>2, <1>4, <2>1, PublishDelivers
  <2> QED BY <1>3, <2>2
<1>5. ASSUME Implements /\ Counted' /\ OwnInv(own)' PROVE DeliveryInv' /\ Implements
  BY <1>3, <1>5
<1>6. CASE TaskStep
  <2>1. Implements /\ Counted' /\ OwnInv(own)'
    BY <1>1, <1>2, <1>6, StoreDelivers, CheckDelivers, ScanDelivers, ResendDelivers
       DEF TaskStep
  <2> QED BY <1>5, <2>1
<1>7. CASE Callback
  <2>1. Implements /\ Counted' /\ OwnInv(own)'
    BY <1>1, <1>2, <1>7, ReceiveFinalDelivers, ReceivePubrecDelivers DEF Callback
  <2> QED BY <1>5, <2>1
<1>8. CASE GatewayStep
  <2>1. Implements /\ Counted' /\ OwnInv(own)'
    BY <1>1, <1>2, <1>8, GwPublishDelivers, GwPublish2Delivers, GwPubrelDelivers,
       GwRefuseDelivers DEF GatewayStep
  <2> QED BY <1>5, <2>1
<1>9. CASE UNCHANGED vars
  <2>1. /\ UNCHANGED <<slots, recent, nextId, pc, cur, due, retryList, toGw, toPico, stored,
                       delivered, refused, published, gaveUp, gwVars>>
    BY <1>9 DEF vars, tableVars, taskVars, gwVars
  <2>2. /\ Used' = Used
        /\ \A s \in Used :
           /\ slots'[s].msg = slots[s].msg /\ slots'[s].id = slots[s].id
           /\ slots'[s].retries = slots[s].retries
           /\ slots'[s].step = 1 => slots[s].step = 1 \/ Taken(slots[s].msg)
    BY <2>1 DEF Used
  <2>3. \A m \in Msg : Cardinality(Flights(toGw', m)) + Cardinality(Listed(retryList', m))
                         <= Cardinality(Flights(toGw, m)) + Cardinality(Listed(retryList, m))
    BY <2>1, WeightType
  <2>4. ListOwned(own)' /\ UpsOwned(own)' /\ DownsOwned(own)'
    <3>1. Progress
      BY <2>1, ProgressWithoutGateway
    <3>2. ListOwned(own) /\ UpsOwned(own) /\ DownsOwned(own)
      BY <1>1 DEF OwnInv, HoldersOwn
    <3>3. ListOwned(own)'
      BY <2>1, <3>1, <3>2, ListKept
    <3> QED BY <2>1, <3>1, <3>2, <3>3, UpsKept, DownsKept
  <2>5. Implements /\ Counted' /\ OwnInv(own)'
    BY <1>1, <1>2, <2>1, <2>2, <2>3, <2>4, QuietDelivers
  <2> QED BY <1>5, <2>5
<1> QED BY <1>4, <1>6, <1>7, <1>8, <1>9 DEF Next

(* The engine keeps the promise of QosDelivery, for any table, any number  *)
(* of retries and any losses, as long as get_next_msg_id returns no id     *)
(* that is still in use: a tracked message is only forgotten after it was  *)
(* delivered or refused, or given up, and is delivered at most as often    *)
(* as it may be transmitted.                                               *)
THEOREM QosImplementsDelivery == Spec /\ [][GivesFreeId]_vars => ImplementsDelivery
<1>1. /\ TypeInv /\ DeliveryInv /\ [Next]_vars /\ [GivesFreeId]_vars
      => TypeInv' /\ DeliveryInv' /\ Implements
  BY QosTypeStep, DeliveryStep
<1>2. Implements <=> [Delivery!Next]_Delivery!vars
  BY DEF Implements, Delivery!vars
<1> QED
  BY <1>1, <1>2, QosTypeInit, DeliveryInit, PTL DEF Spec, ImplementsDelivery, Delivery!Spec

------------------------------------------------------------------------------
(***************************************************************************)
(* With fewer tracked messages than ids the hypothesis is met: an id grows *)
(* older by one with every id given after it, also over the wrap-around,   *)
(* and comes round again only after all the others.                        *)
(***************************************************************************)
Few == IsFiniteSet(Kept) /\ Cardinality(Kept) < MaxId

(* How many ids ago id was given, 1 for the last one.                      *)
AgeAt(next, id) == IF id < next THEN next - id ELSE next - id + MaxId - 1
Age(id) == AgeAt(NextId, id)

Aged == \A id \in HeldIds : Age(id) <= Cardinality(published \cap Kept)

(* The ids in a queue that is read.                                        *)
LEMMA IdsOfTail ==
  ASSUME NEW S, NEW q \in Seq(S), q # <<>> PROVE IdsOf(Tail(q)) \subseteq IdsOf(q)
<1>1. /\ Len(Tail(q)) = Len(q) - 1 /\ Len(q) \in Nat
      /\ \A i \in 1 .. Len(Tail(q)) : Tail(q)[i] = q[i + 1]
  BY HeadTailProperties
<1>2. \A i \in 1 .. Len(Tail(q)) : i + 1 \in 1 .. Len(q)
  BY <1>1
<1> QED BY <1>1, <1>2 DEF IdsOf

(* The id of what is read.                                                 *)
LEMMA IdsOfHead ==
  ASSUME NEW S, NEW q \in Seq(S), q # <<>> PROVE Head(q).id \in IdsOf(q)
<1>1. 1 \in 1 .. Len(q) /\ Head(q) = q[1]
  OBVIOUS
<1> QED BY <1>1 DEF IdsOf

(* The ids in a queue that is written.                                     *)
LEMMA IdsOfAppend ==
  ASSUME NEW S, NEW q \in Seq(S), NEW d \in S
  PROVE  IdsOf(Append(q, d)) \subseteq IdsOf(q) \cup {d.id}
<1> DEFINE r == Append(q, d)
<1>1. /\ Len(r) = Len(q) + 1 /\ Len(q) \in Nat /\ r[Len(q) + 1] = d
      /\ \A i \in 1 .. Len(q) : r[i] = q[i]
  BY AppendProperties
<1> HIDE DEF r
<1>2. \A i \in 1 .. Len(r) : i \in 1 .. Len(q) \/ i = Len(q) + 1
  BY <1>1
<1>3. \A i \in 1 .. Len(r) : r[i].id \in IdsOf(q) \cup {d.id}
  BY <1>1, <1>2 DEF IdsOf
<1> QED BY <1>3 DEF IdsOf, r

(* The ids under way to the gateway after a datagram is sent, or lost.     *)
LEMMA IdsSentUp ==
  ASSUME NEW rest \in Seq(Upward), NEW d \in Upward, ToGw(rest, d)
  PROVE  IdsOf(toGw') \subseteq IdsOf(rest) \cup {d.id}
BY IdsOfAppend DEF ToGw

(* The same to the Pico.                                                   *)
LEMMA IdsSentDown ==
  ASSUME toPico \in Seq(Downward), NEW d \in Downward, ToPico(d)
  PROVE  IdsOf(toPico') \subseteq IdsOf(toPico) \cup {d.id}
BY IdsOfAppend DEF ToPico

TableIds  == {slots[s].id : s \in Used}
CurIds    == IF pc = "store" THEN {cur.id} ELSE {}
StoredIds == {x.id : x \in stored}

(* Only a message that is published brings an id that was not held.        *)
LEMMA PublishHolds ==
  ASSUME TypeInv, NEW m \in Msg, Publish(m)
  PROVE  HeldIds' \subseteq HeldIds \cup (IF m \in Kept THEN {NextId} ELSE {})
<1>1. /\ UNCHANGED <<slots, retryList, toPico, stored>> /\ NextId \in Id /\ 0 \notin Id
      /\ pc = "idle"
  BY NextIdType DEF Publish, tableVars, gwVars, TypeInv, TypeOK, Id
<1>2. PICK id : id = IF m \in Kept THEN NextId ELSE 0
  OBVIOUS
<1>3. PICK d \in Upward : d = [type |-> "PUBLISH", id |-> id, msg |-> m]
  <2>1. m \in Kept => id \in Id
    BY <1>1, <1>2
  <2>2. m \notin Kept => id = 0
    BY <1>2
  <2> QED BY <2>1, <2>2 DEF Upward
<1>4. \/ /\ ToGw(toGw, d)
         /\ IF m \in Kept THEN pc' = "store" /\ cur' = [msg |-> m, id |-> id]
                          ELSE UNCHANGED <<pc, cur>>
      \/ UNCHANGED <<toGw, lost, pc, cur>>
  BY <1>2, <1>3 DEF Publish
<1>5. IdsOf(toGw') \subseteq IdsOf(toGw) \cup {id}
  <2>1. CASE ToGw(toGw, d)
    BY <1>3, <2>1, IdsSentUp DEF TypeInv, TypeOK
  <2>2. CASE UNCHANGED toGw
    BY <2>2
  <2> QED BY <1>4, <2>1, <2>2
<1>6. CurIds' \subseteq {id}
  BY <1>1, <1>4 DEF CurIds
<1>7. TableIds' = TableIds /\ StoredIds' = StoredIds
  BY <1>1 DEF TableIds, StoredIds, Used
<1>8. HeldIds = Id \cap (TableIds \cup CurIds \cup IdsOf(retryList) \cup IdsOf(toGw)
                           \cup IdsOf(toPico) \cup StoredIds)
  BY DEF HeldIds, TableIds, CurIds, StoredIds
<1>9. HeldIds' = Id \cap (TableIds' \cup CurIds' \cup IdsOf(retryList') \cup IdsOf(toGw')
                            \cup IdsOf(toPico') \cup StoredIds')
  BY DEF HeldIds, TableIds, CurIds, StoredIds
<1>10. HeldIds' \subseteq HeldIds \cup (Id \cap {id})
  BY <1>1, <1>5, <1>6, <1>7, <1>8, <1>9
<1> QED BY <1>1, <1>2, <1>10

AllIds == TableIds \cup CurIds \cup IdsOf(retryList) \cup IdsOf(toGw) \cup IdsOf(toPico)
            \cup StoredIds

(* No step of the task brings an id that was not held.                     *)
LEMMA TaskHolds == ASSUME TypeInv, TaskStep PROVE AllIds' \subseteq AllIds
<1>1. CASE Store
  <2>1. /\ pc = "store" /\ pc' # "store" /\ UNCHANGED <<retryList, toGw, toPico, stored>>
    BY <1>1 DEF Store, gwVars
  <2>2. TableIds' \subseteq TableIds \cup {cur.id}
    <3>1. CASE UNCHANGED tableVars
      BY <3>1 DEF tableVars, TableIds, Used
    <3>2. CASE \E s \in Slot : slots' = [slots EXCEPT ![s] =
                 [msg |-> cur.msg, id |-> cur.id, step |-> 0, retries |-> 0]]
      <4>0. PICK e : e = [msg |-> cur.msg, id |-> cur.id, step |-> 0, retries |-> 0]
        OBVIOUS
      <4>1. PICK s \in Slot : slots' = [slots EXCEPT ![s] = e] /\ e.id = cur.id
        <5>1. PICK s \in Slot : slots' = [slots EXCEPT ![s] = e]
          BY <3>2, <4>0
        <5> QED BY <4>0, <5>1
      <4>2. \A t \in Slot : slots'[t] = IF t = s THEN e ELSE slots[t]
        BY <4>1 DEF TypeInv, TypeOK
      <4> QED BY <4>1, <4>2 DEF TableIds, Used
    <3> QED BY <1>1, <3>1, <3>2 DEF Store
  <2>3. CurIds = {cur.id} /\ CurIds' = {} /\ StoredIds' = StoredIds
    BY <2>1 DEF CurIds, StoredIds
  <2> QED BY <2>1, <2>2, <2>3 DEF AllIds
<1>2. CASE StartCheck \/ ScanDone
  <2>1. /\ pc' # "store" /\ UNCHANGED <<slots, retryList, toGw, toPico, stored>>
    BY <1>2 DEF StartCheck, ScanDone, gwVars, tableVars
  <2>2. TableIds' = TableIds /\ CurIds' = {} /\ StoredIds' = StoredIds
    BY <2>1 DEF TableIds, Used, CurIds, StoredIds
  <2> QED BY <2>1, <2>2 DEF AllIds
<1>3. CASE Scan
  <2>1. PICK s \in due : Expire(s) \/ Retry(s)
    BY <1>3 DEF Scan
  <2>2. /\ pc' # "store" /\ UNCHANGED <<toGw, toPico, stored>> /\ retryList \in Seq(Copy)
        /\ s \in Used /\ slots[s] \in Entry /\ Copied(s) \in Copy
    BY <1>3, CopiedType DEF Scan, gwVars, TypeInv, TypeOK
  <2>3. \A t \in Used' : t \in Used /\ slots'[t].id = slots[t].id
    <3>1. CASE Expire(s)
      BY <2>2, <3>1 DEF Expire, TypeInv, TypeOK, Used
    <3>2. CASE Retry(s)
      <4>1. PICK e : e = [slots[s] EXCEPT !.retries = @ + 1]
        OBVIOUS
      <4>2. slots' = [slots EXCEPT ![s] = e] /\ e.id = slots[s].id
        BY <2>2, <3>2, <4>1 DEF Retry, Entry
      <4>3. \A t \in Slot : slots'[t] = IF t = s THEN e ELSE slots[t]
        BY <4>2 DEF TypeInv, TypeOK
      <4> QED BY <2>2, <4>2, <4>3 DEF Used
    <3> QED BY <2>1, <3>1, <3>2
  <2>4. IdsOf(retryList') \subseteq IdsOf(retryList) \cup {slots[s].id}
    <3>1. CASE Expire(s)
      BY <3>1 DEF Expire
    <3>2. CASE Retry(s)
      <4>1. Copied(s).id = slots[s].id
        BY DEF Copied
      <4> QED BY <2>2, <3>2, <4>1, IdsOfAppend DEF Retry
    <3> QED BY <2>1, <3>1, <3>2
  <2>5. TableIds' \subseteq TableIds /\ slots[s].id \in TableIds
    BY <2>2, <2>3 DEF TableIds
  <2>6. CurIds' = {} /\ StoredIds' = StoredIds
    BY <2>2 DEF CurIds, StoredIds
  <2> QED BY <2>2, <2>4, <2>5, <2>6 DEF AllIds
<1>4. CASE Resend
  <2>1. /\ pc' # "store" /\ UNCHANGED <<slots, toPico, stored>>
        /\ retryList \in Seq(Copy) /\ retryList # <<>> /\ retryList' = Tail(retryList)
        /\ toGw \in Seq(Upward)
    BY <1>4 DEF Resend, gwVars, tableVars, TypeInv, TypeOK
  <2>2. Head(retryList) \in Copy /\ Head(retryList).id \in IdsOf(retryList)
        /\ IdsOf(retryList') \subseteq IdsOf(retryList)
    BY <2>1, IdsOfHead, IdsOfTail
  <2>3. PICK d \in Upward : d.id = Head(retryList).id /\ ToGw(toGw, d)
    <3>1. PICK c \in Copy : c = Head(retryList)
      BY <2>2
    <3>2. PICK d : d = IF Qos[c.msg] = 2 /\ c.step = 1
                       THEN [type |-> "PUBREL", id |-> c.id]
                       ELSE [type |-> "PUBLISH", id |-> c.id, msg |-> c.msg]
      OBVIOUS
    <3>3. d \in Upward
      BY <3>2 DEF Upward, Copy
    <3>4. d.id = c.id
      BY <3>2
    <3>5. ToGw(toGw, d)
      BY <1>4, <3>1, <3>2 DEF Resend
    <3> QED BY <3>1, <3>3, <3>4, <3>5
  <2>4. IdsOf(toGw') \subseteq IdsOf(toGw) \cup {Head(retryList).id}
    BY <2>1, <2>3, IdsSentUp
  <2>5. TableIds' = TableIds /\ CurIds' = {} /\ StoredIds' = StoredIds
    BY <2>1 DEF TableIds, Used, CurIds, StoredIds
  <2> QED BY <2>1, <2>2, <2>4, <2>5 DEF AllIds
<1> QED BY <1>1, <1>2, <1>3, <1>4 DEF TaskStep

(* Nor does the receive callback.                                          *)
LEMMA CallbackHolds == ASSUME TypeInv, Callback PROVE AllIds' \subseteq AllIds
<1>1. /\ toPico # <<>> /\ toPico \in Seq(Downward) /\ toPico' = Tail(toPico)
      /\ toGw \in Seq(Upward) /\ UNCHANGED <<pc, cur, retryList, stored>>
  BY DEF Callback, ReceiveFinal, ReceivePubrec, gwVars, TypeInv, TypeOK
<1>2. Head(toPico) \in Downward /\ Head(toPico).id \in IdsOf(toPico)
      /\ IdsOf(toPico') \subseteq IdsOf(toPico)
  BY <1>1, IdsOfHead, IdsOfTail
<1>3. CurIds' = CurIds /\ StoredIds' = StoredIds
  BY <1>1 DEF CurIds, StoredIds
<1>4. CASE ReceiveFinal
  <2>1. /\ slots' = [s \in Slot |-> IF s \in With(Head(toPico).id) THEN None ELSE slots[s]]
        /\ toGw' = toGw
    BY <1>4 DEF ReceiveFinal, Remove, Free
  <2>2. TableIds' \subseteq TableIds
    BY <2>1 DEF TableIds, Used
  <2> QED BY <1>1, <1>2, <1>3, <2>1, <2>2 DEF AllIds
<1>5. CASE ReceivePubrec
  <2>1. PICK d \in Upward : d.id = Head(toPico).id /\ ToGw(toGw, d)
    <3>1. PICK id \in Id : id = Head(toPico).id
      BY <1>2 DEF Downward
    <3>2. PICK d : d = [type |-> "PUBREL", id |-> id]
      OBVIOUS
    <3>3. ToGw(toGw, d)
      BY <1>5, <3>1, <3>2 DEF ReceivePubrec
    <3>4. d \in Upward
      BY <3>2 DEF Upward
    <3> QED BY <3>1, <3>2, <3>3, <3>4
  <2>2. IdsOf(toGw') \subseteq IdsOf(toGw) \cup {Head(toPico).id}
    BY <1>1, <2>1, IdsSentUp
  <2>3. TableIds' \subseteq TableIds
    <3>1. CASE slots' = slots
      BY <3>1 DEF TableIds, Used
    <3>2. CASE \E s \in Used : slots' = [slots EXCEPT ![s].step = 1]
      <4>1. PICK s \in Used : slots' = [slots EXCEPT ![s].step = 1]
        BY <3>2
      <4>2. slots[s] \in Entry
        BY CopiedType
      <4>3. PICK e : e = [slots[s] EXCEPT !.step = 1]
        OBVIOUS
      <4>4. slots' = [slots EXCEPT ![s] = e] /\ e.id = slots[s].id
        BY <4>1, <4>2, <4>3 DEF Entry
      <4>5. \A t \in Slot : slots'[t] = IF t = s THEN e ELSE slots[t]
        BY <4>4 DEF TypeInv, TypeOK
      <4> QED BY <4>4, <4>5 DEF TableIds, Used
    <3> QED BY <1>5, <3>1, <3>2 DEF ReceivePubrec, With
  <2> QED BY <1>1, <1>2, <1>3, <2>2, <2>3 DEF AllIds
<1> QED BY <1>4, <1>5 DEF Callback

(* Nor does the gateway.                                                   *)
LEMMA GatewayHolds == ASSUME TypeInv, GatewayStep PROVE AllIds' \subseteq AllIds
<1>1. /\ toGw # <<>> /\ toGw \in Seq(Upward) /\ toGw' = Tail(toGw)
      /\ toPico \in Seq(Downward) /\ UNCHANGED <<slots, pc, cur, retryList>>
  BY DEF GatewayStep, GwPublish, GwPublish2, GwPubrel, GwRefuse, GwReceive, tableVars,
         taskVars, TypeInv, TypeOK
<1>2. PICK d \in Upward : d = Head(toGw)
  BY <1>1
<1>3. d.id \in IdsOf(toGw) /\ IdsOf(toGw') \subseteq IdsOf(toGw)
  BY <1>1, <1>2, IdsOfHead, IdsOfTail
<1>4. CurIds' = CurIds /\ TableIds' = TableIds
  BY <1>1 DEF CurIds, TableIds, Used
<1>5. ASSUME NEW ty \in {"PUBACK", "PUBREC", "PUBCOMP"}, d.id \in Id,
             ToPico([type |-> ty, id |-> d.id])
      PROVE  IdsOf(toPico') \subseteq IdsOf(toPico) \cup {d.id}
  <2>1. PICK a : a = [type |-> ty, id |-> d.id]
    OBVIOUS
  <2>2. a \in Downward
    BY <1>5, <2>1 DEF Downward
  <2>3. ToPico(a) /\ a.id = d.id
    BY <1>5, <2>1
  <2>4. IdsOf(toPico') \subseteq IdsOf(toPico) \cup {a.id}
    BY <1>1, <2>2, <2>3, IdsSentDown
  <2> QED BY <2>3, <2>4
<1>6. IdsOf(toPico') \subseteq IdsOf(toPico) \cup {d.id}
  <2>1. CASE GwPublish
    <3>1. /\ d.type = "PUBLISH"
          /\ IF Qos[d.msg] = 1 THEN ToPico([type |-> "PUBACK", id |-> d.id])
                               ELSE UNCHANGED <<toPico, lost>>
      BY <1>2, <2>1 DEF GwPublish, GwReceive
    <3>2. Qos[d.msg] = 1 => d.id \in Id
      BY <3>1 DEF Upward, Kept
    <3> QED BY <1>5, <3>1, <3>2
  <2>2. CASE GwPublish2
    <3>1. d.type = "PUBLISH" /\ Qos[d.msg] = 2 /\ ToPico([type |-> "PUBREC", id |-> d.id])
      BY <1>2, <2>2 DEF GwPublish2, GwReceive
    <3>2. d.id \in Id
      BY <3>1 DEF Upward, Kept
    <3> QED BY <1>5, <3>1, <3>2
  <2>3. CASE GwPubrel
    <3>1. d.type = "PUBREL" /\ ToPico([type |-> "PUBCOMP", id |-> d.id])
      BY <1>2, <2>3 DEF GwPubrel, GwReceive
    <3>2. d.id \in Id
      BY <3>1 DEF Upward
    <3> QED BY <1>5, <3>1, <3>2
  <2>4. CASE GwRefuse
    <3>1. /\ d.type = "PUBLISH" /\ d.msg \in Kept
          /\ ToPico([type |-> "PUBACK", id |-> d.id])
      BY <1>2, <2>4 DEF GwRefuse, GwReceive
    <3>2. d.id \in Id
      BY <3>1 DEF Upward
    <3> QED BY <1>5, <3>1, <3>2
  <2> QED BY <2>1, <2>2, <2>3, <2>4 DEF GatewayStep
<1>7. StoredIds' \subseteq StoredIds \cup {d.id}
  <2>1. stored' \subseteq stored \/ stored' = stored \cup {[id |-> d.id, msg |-> d.msg]}
    BY <1>2 DEF GatewayStep, GwPublish, GwPublish2, GwPubrel, GwRefuse
  <2>2. \A x \in stored' : x \in stored \/ x.id = d.id
    BY <2>1
  <2> QED BY <2>2 DEF StoredIds
<1> QED BY <1>1, <1>3, <1>4, <1>6, <1>7 DEF AllIds

(* Initially no id is held.                                                *)
LEMMA AgedInit == Init => Aged
<1> SUFFICES ASSUME Init PROVE HeldIds = {}
  BY DEF Aged
<1> QED BY DEF Init, HeldIds, Used, IdsOf

(* Held ids age by one with every id given: the next is always free.       *)
LEMMA AgedStep ==
  ASSUME Few, TypeInv, Aged, [Next]_vars PROVE Aged' /\ GivesFreeId
<1> DEFINE k == Cardinality(published \cap Kept)
<1>1. /\ IsFiniteSet(published \cap Kept) /\ k \in Nat /\ k <= Cardinality(Kept)
      /\ Cardinality(Kept) \in Nat /\ Cardinality(Kept) < MaxId
      /\ k = Cardinality(Kept) => published \cap Kept = Kept
  <2>1. IsFiniteSet(Kept) /\ Cardinality(Kept) < MaxId /\ published \cap Kept \in SUBSET Kept
    BY DEF Few
  <2>2. /\ IsFiniteSet(published \cap Kept) /\ k <= Cardinality(Kept)
        /\ k = Cardinality(Kept) => published \cap Kept = Kept
    BY <2>1, FS_Subset
  <2> QED BY <2>1, <2>2, FS_CardinalityType
<1>2. /\ NextId \in 1 .. MaxId - 1 /\ MaxId \in Nat
      /\ \A id \in HeldIds : id \in 1 .. MaxId - 1 /\ Age(id) <= k
  BY NextIdType, QosAssumption DEF TypeInv, TypeOK, Id, HeldIds, Aged
<1> HIDE DEF k
<1>3. ASSUME NEW m \in Kept, m \notin published PROVE NextId \notin HeldIds /\ k < MaxId - 1
  <2>1. k < MaxId - 1
    BY <1>1, <1>2, <1>3
  <2>2. Age(NextId) = MaxId - 1
    BY <1>2 DEF Age, AgeAt
  <2>3. ~ (MaxId - 1 <= k)
    BY <1>1, <1>2, <2>1
  <2> QED BY <1>2, <2>1, <2>2, <2>3
<1>4. GivesFreeId
  BY <1>3 DEF GivesFreeId, Publish
<1>5. ASSUME HeldIds' \subseteq HeldIds, NextId' = NextId,
             published' \cap Kept = published \cap Kept
      PROVE  Aged'
  BY <1>5 DEF Aged, Age
<1>6. ASSUME NEW m \in Msg, Publish(m) PROVE Aged'
  <2>1. /\ m \notin published /\ published' = published \cup {m}
        /\ nextId' = IF m \in Kept THEN NextId + 1 ELSE nextId
        /\ HeldIds' \subseteq HeldIds \cup (IF m \in Kept THEN {NextId} ELSE {})
    BY <1>6, PublishHolds DEF Publish
  <2>2. CASE m \notin Kept
    BY <1>5, <2>1, <2>2 DEF NextId
  <2>3. CASE m \in Kept
    <3>1. /\ NextId' = IF NextId = MaxId - 1 THEN 1 ELSE NextId + 1
          /\ NextId \notin HeldIds /\ k < MaxId - 1
      BY <1>2, <1>3, <2>1, <2>3 DEF NextId
    <3>2. Cardinality(published' \cap Kept) = k + 1
      <4>1. published' \cap Kept = (published \cap Kept) \cup {m} /\ m \notin published \cap Kept
        BY <2>1, <2>3
      <4> QED BY <1>1, <4>1, FS_AddElement DEF k
    <3>3. \A id \in HeldIds' : AgeAt(NextId', id) <= k + 1
      <4> SUFFICES ASSUME NEW id \in HeldIds' PROVE AgeAt(NextId', id) <= k + 1
        OBVIOUS
      <4>1. CASE id = NextId
        <5>1. AgeAt(NextId', NextId) = 1
          BY <1>2, <3>1 DEF AgeAt
        <5> QED BY <1>1, <4>1, <5>1
      <4>2. CASE id # NextId
        <5>1. id \in 1 .. MaxId - 1 /\ AgeAt(NextId, id) <= k
          BY <1>2, <2>1, <2>3, <4>2 DEF Age
        <5>2. AgeAt(NextId', id) = AgeAt(NextId, id) + 1 /\ AgeAt(NextId, id) \in Int
          BY <1>2, <3>1, <4>2, <5>1 DEF AgeAt
        <5> QED BY <1>1, <5>1, <5>2
      <4> QED BY <4>1, <4>2
    <3> QED BY <3>2, <3>3 DEF Aged, Age
  <2> QED BY <2>2, <2>3
<1>7. ASSUME TaskStep \/ Callback \/ GatewayStep \/ UNCHANGED vars PROVE Aged'
  <2>1. UNCHANGED <<nextId, published>>
    BY <1>7 DEF TaskStep, Store, StartCheck, Scan, ScanDone, Resend, Callback,
       ReceiveFinal, ReceivePubrec, GatewayStep, taskVars, vars
  <2>2. AllIds' \subseteq AllIds
    <3>1. CASE UNCHANGED vars
      BY <3>1 DEF vars, tableVars, taskVars, gwVars, AllIds, TableIds, CurIds, StoredIds,
                  Used, IdsOf
    <3> QED BY <1>7, <3>1, TaskHolds, CallbackHolds, GatewayHolds
  <2>3. HeldIds' \subseteq HeldIds
    <3>1. HeldIds = Id \cap AllIds
      BY DEF HeldIds, AllIds, TableIds, CurIds, StoredIds
    <3>2. HeldIds' = Id \cap AllIds'
      BY DEF HeldIds, AllIds, TableIds, CurIds, StoredIds
    <3> QED BY <2>2, <3>1, <3>2
  <2>4. NextId' = NextId
    BY <2>1 DEF NextId
  <2> QED BY <1>5, <2>1, <2>3, <2>4
<1> QED BY <1>4, <1>6, <1>7 DEF Next

(* With fewer tracked messages than ids the promise is kept without any    *)
(* condition, wherever the ids wrap around.                                *)
THEOREM FewImplementDelivery == ASSUME Few PROVE Spec => ImplementsDelivery
<1>1. Few
  OBVIOUS
<1>2. TypeInv /\ Aged /\ [Next]_vars => TypeInv' /\ Aged' /\ [GivesFreeId]_vars
  BY <1>1, QosTypeStep, AgedStep
<1>3. Spec => [][GivesFreeId]_vars
  BY <1>2, QosTypeInit, AgedInit, PTL DEF Spec
<1> QED BY <1>3, QosImplementsDelivery, PTL
==============================================================================

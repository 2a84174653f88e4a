------------------------- MODULE LoraUdpBridge_proofs -------------------------
(***************************************************************************)
(* Proofs about the bridge, for every number of nodes, slots and frames.   *)
(***************************************************************************)
EXTENDS LoraUdpBridge, DedupRing_proofs, FiniteSetTheorems, WellFoundedInduction

(* The kernel's lowest free descriptor, or the first free slot, exists.    *)
LEMMA LowestIn ==
  ASSUME NEW S \in SUBSET Nat, S # {}
  PROVE  Lowest(S) \in S /\ \A y \in S : Lowest(S) <= y
<1> DEFINE T == {0 .. x : x \in S}
<1>1. T \subseteq FiniteSubsetsOf(Nat) /\ T # {}
  <2>1. ASSUME NEW x \in S
        PROVE  IsFiniteSet(0 .. x) /\ 0 .. x \subseteq Nat
    <3>1. x \in Int /\ 0 \in Int
      OBVIOUS
    <3> QED BY <3>1, FS_Interval
  <2> QED BY <2>1 DEF FiniteSubsetsOf
<1>2. PICK t \in T : \A u \in T : ~(<<u, t>> \in StrictSubsetOrdering(Nat))
  <2> HIDE DEF T
  <2> QED BY <1>1, WFMin, FS_StrictSubsetOrderingWellFounded
<1>3. PICK x \in S : t = 0 .. x
  OBVIOUS
<1>4. ASSUME NEW y \in S, ~(x <= y) PROVE FALSE
  <2>1. 0 .. y \in T /\ 0 .. y \subseteq 0 .. x /\ x \in 0 .. x /\ x \notin 0 .. y
    BY <1>4
  <2>2. <<0 .. y, 0 .. x>> \in StrictSubsetOrdering(Nat)
    BY <2>1 DEF StrictSubsetOrdering
  <2> QED BY <1>2, <1>3, <2>1, <2>2
<1> QED BY <1>4 DEF Lowest

(* As long as a slot has no socket there is a free descriptor.             *)
LEMMA FreeDescriptor ==
  ASSUME clients \in [Slot -> Client \cup {None}],
         NEW s0 \in Slot, clients[s0] = None \/ clients[s0].sock = None
  PROVE  /\ Lowest(Fd \ UsedBy(clients)) \in Fd \ UsedBy(clients)
         /\ \A fd \in Fd \ UsedBy(clients) : Lowest(Fd \ UsedBy(clients)) <= fd
<1> DEFINE free == Fd \ UsedBy(clients)
           T    == Slot \ {s0}
<1>1. ASSUME Fd \subseteq UsedBy(clients) PROVE FALSE
  <2> DEFINE f == [fd \in Fd |-> CHOOSE s \in T : clients[s] # None /\ clients[s].sock = fd]
  <2>1. ASSUME NEW fd \in Fd PROVE \E s \in T : clients[s] # None /\ clients[s].sock = fd
    <3>1. fd # None
      BY NoneAssumption DEF Fd, Slot
    <3> QED BY <1>1, <3>1 DEF UsedBy
  <2>2. \A fd \in Fd : f[fd] \in T /\ clients[f[fd]].sock = fd
    BY <2>1
  <2>3. IsFiniteSet(Slot) /\ IsFiniteSet(Fd) /\ Cardinality(Fd) = Cardinality(Slot)
    BY FS_Interval, BridgeAssumption DEF Slot, Fd
  <2>4. IsFiniteSet(T) /\ Cardinality(T) < Cardinality(Fd)
    <3>1. IsFiniteSet(T) /\ Cardinality(T) = Cardinality(Slot) - 1
      BY <2>3, FS_RemoveElement
    <3>2. Cardinality(Slot) \in Nat
      BY <2>3, FS_CardinalityType
    <3> QED BY <2>3, <3>1, <3>2
  <2>5. f \in [Fd -> T]
    BY <2>2
  <2>6. PICK x, y \in Fd : x # y /\ f[x] = f[y]
    <3> HIDE DEF f, T
    <3> QED BY <2>3, <2>4, <2>5, FS_PigeonHole
  <2> QED BY <2>2, <2>6
<1>2. free \in SUBSET Nat /\ free # {}
  BY <1>1 DEF Fd
<1> HIDE DEF free
<1>3. Lowest(free) \in free /\ \A fd \in free : Lowest(free) <= fd
  BY <1>2, LowestIn
<1> QED BY <1>3 DEF free

(* A thread enters and leaves the code of a lock with the lock.            *)
LEMMA LocksStep == ASSUME LocksHeld, [Next]_vars PROVE LocksHeld'
<1> USE NoneAssumption DEF LocksHeld
<1>1. CASE MainStep
  <2>1. CASE MainPoll
    BY <2>1 DEF MainPoll, MainGoto, NotMain, downVars
  <2>2. CASE MainExpire
    BY <2>2 DEF MainExpire, MainGoto, downVars
  <2>3. CASE MainLock
    BY <2>3 DEF MainLock, MainGoto, NotMain, downVars
  <2>4. CASE MainFlag
    BY <2>4 DEF MainFlag, MainGoto, NotMain, downVars
  <2>5. CASE MainStatus
    BY <2>5 DEF MainStatus, MainGoto, NotMain, downVars
  <2>6. CASE MainClear
    BY <2>6 DEF MainClear, MainGoto, NotMain, downVars
  <2>7. CASE MainReceive
    BY <2>7 DEF MainReceive, MainGoto, NotMain, downVars
  <2>8. CASE MainForward
    BY <2>8 DEF MainForward, NotMain, downVars
  <2>9. CASE MainBind
    BY <2>9 DEF MainBind, MainGoto, NotMain, downVars
  <2>10. CASE MainSend
    BY <2>10 DEF MainSend, MainGoto, NotMain, downVars
  <2>11. CASE MainRearm
    BY <2>11 DEF MainRearm, MainGoto, NotMain, downVars
  <2>12. CASE MainJoin
    BY <2>12 DEF MainJoin, MainGoto, NotMain, downVars
  <2> QED
    BY <1>1, <2>1, <2>2, <2>3, <2>4, <2>5, <2>6, <2>7, <2>8, <2>9, <2>10, <2>11,
       <2>12 DEF MainStep
<1>2. CASE DownStep
  <2>1. CASE DownCollect
    BY <2>1 DEF DownCollect, DownGoto, NotDown, mainVars
  <2>2. CASE DownSelect
    BY <2>2 DEF DownSelect, DownGoto, NotDown, mainVars
  <2>3. CASE DownDrainLock
    BY <2>3 DEF DownDrainLock, DownGoto, NotDown, mainVars
  <2>4. CASE DownDrain
    BY <2>4 DEF DownDrain, NotDown, mainVars
  <2>5. CASE DownDrainUnlock
    BY <2>5 DEF DownDrainUnlock, DownGoto, NotDown, mainVars
  <2>6. CASE DownLock
    BY <2>6 DEF DownLock, DownGoto, NotDown, mainVars
  <2>7. CASE DownFlag
    BY <2>7 DEF DownFlag, DownGoto, NotDown, mainVars
  <2>8. CASE DownStart
    BY <2>8 DEF DownStart, DownGoto, NotDown, mainVars
  <2>9. CASE DownWait
    BY <2>9 DEF DownWait, DownGoto, NotDown, mainVars
  <2>10. CASE DownStatus
    BY <2>10 DEF DownStatus, DownGoto, NotDown, mainVars
  <2>11. CASE DownClear
    BY <2>11 DEF DownClear, DownGoto, NotDown, mainVars
  <2>12. CASE DownSent
    BY <2>12 DEF DownSent, DownGoto, NotDown, mainVars
  <2>13. CASE DownListen
    BY <2>13 DEF DownListen, DownGoto, NotDown, mainVars
  <2>14. CASE DownUnlock
    BY <2>14 DEF DownUnlock, DownGoto, NotDown, mainVars
  <2> QED
    BY <1>2, <2>1, <2>2, <2>3, <2>4, <2>5, <2>6, <2>7, <2>8, <2>9, <2>10, <2>11,
       <2>12, <2>13, <2>14 DEF DownStep
<1>3. CASE Isr \/ TxDone \/ HearUplink \/ HearNoise \/ Stop
  BY <1>3 DEF Isr, TxDone, HearUplink, HearNoise, Hear, Stop, mainVars, downVars
<1>4. CASE \E s \in Slot : PahoPublishes(s) \/ PahoAnswers(s)
  BY <1>4 DEF PahoPublishes, PahoAnswers, PahoSends, mainVars, downVars
<1>5. CASE UNCHANGED vars
  BY <1>5 DEF vars, mainVars, downVars
<1> QED
  BY <1>1, <1>2, <1>3, <1>4, <1>5 DEF Next

LEMMA LocksInit == Init => LocksHeld
BY NoneAssumption DEF Init, LocksHeld

(* The locks: whichever thread works on the radio or on the client table   *)
(* holds the lock that main.c:13-17 names for it.                          *)
THEOREM LocksAreHeld == Spec => []LocksHeld
BY LocksInit, LocksStep, PTL DEF Spec

------------------------------------------------------------------------------
(***************************************************************************)
(* Types.                                                                  *)
(***************************************************************************)

(* TypeOK is inductive with what the code points know.  Main forwards a    *)
(* packet it has decoded, through the entry of its node; of all entries    *)
(* only this one has no socket, and only until bind.  The downstream       *)
(* thread has something to send.                                           *)
MainKnows ==
  /\ mainPc \in {"forward", "bind", "send"} => mainUp \in Traffic
  /\ mainPc \in {"bind", "send"} =>
       mainSlot \in Active /\ clients[mainSlot].node = mainUp.src
  /\ \A s \in Active : clients[s].sock = None <=> (mainPc = "bind" /\ s = mainSlot)

TypeInv ==
  /\ TypeOK /\ MainKnows
  /\ downPc \in {"lock", "flag", "start", "wait", "status", "clear", "sent", "listen",
                 "unlock"} => staged # <<>>

(* Both fields of a ring key come from the frame.                          *)
LEMMA TrafficKey ==
  ASSUME NEW f \in Traffic
  PROVE  /\ [src |-> f.src, seq |-> f.seq] \in [src : Src, seq : Nat]
         /\ f.src \in Src
BY BridgeAssumption

(* The session of a datagram is a number.                                  *)
LEMMA SessionsType ==
  ASSUME toPaho \in Seq(Handed), NEW s PROVE Sessions(s) \in Nat
<1>1. IsFiniteSet(DOMAIN toPaho)
  <2>1. DOMAIN toPaho = 1 .. Len(toPaho) /\ Len(toPaho) \in Int /\ 1 \in Int
    OBVIOUS
  <2> QED BY <2>1, FS_Interval
<1> DEFINE K == {k \in DOMAIN toPaho : toPaho[k].port = s /\ toPaho[k].up.connect}
<1>2. IsFiniteSet(K)
  BY <1>1, FS_Subset
<1> QED BY <1>2, FS_CardinalityType DEF Sessions

(* The initial state has its types.                                        *)
LEMMA BridgeTypeInit == Init => TypeInv
<1> SUFFICES ASSUME Init PROVE TypeInv
  OBVIOUS
<1>1. RadioType /\ LockType
  BY DEF Init, RadioType, LockType
<1>2. MainType
  BY EmptyRingType, BridgeAssumption DEF Init, MainType, MainPc
<1>3. DownType
  BY BridgeAssumption DEF Init, DownType, DownPc
<1>4. TableType
  BY DEF Init, TableType
<1>5. PahoType
  BY DEF Init, PahoType
<1>6. MainKnows
  BY DEF Init, MainKnows, Active
<1> QED BY <1>1, <1>2, <1>3, <1>4, <1>5, <1>6 DEF Init, TypeInv, TypeOK

(* MainKnows is about main's locals and, of the table, who has a socket.   *)
LEMMA KnowsCarries ==
  ASSUME MainKnows, UNCHANGED <<mainPc, mainUp, mainSlot>>, Active' = Active,
         \A s \in Active : /\ clients'[s].node = clients[s].node
                          /\ clients'[s].sock = clients[s].sock
  PROVE  MainKnows'
BY DEF MainKnows

LEMMA KnowsIdle ==
  ASSUME MainKnows, UNCHANGED clients, mainPc \notin {"forward", "bind"},
         mainPc' \notin {"forward", "bind", "send"}
  PROVE  MainKnows'
<1>1. Active' = Active
  BY DEF Active
<1> QED BY <1>1 DEF MainKnows

(* The interrupt thread, the radio, Paho and the signal.                   *)
LEMMA OutsideType ==
  ASSUME TypeInv, Isr \/ TxDone \/ HearUplink \/ HearNoise \/ Stop
  PROVE  TypeInv'
<1> USE DEF TypeInv, TypeOK
<1>1. RadioType'
  <2>1. CASE HearUplink
    <3>1. count.limit.traffic \subseteq Traffic
      BY BridgeAssumption DEF PahoType, Limit
    <3> QED BY <2>1, <3>1 DEF HearUplink, Hear, Raise, RadioType, IrqBit
  <2>2. CASE Isr \/ TxDone \/ HearNoise \/ Stop
    BY <2>2 DEF Isr, TxDone, HearNoise, Hear, Stop, Raise, RadioType, IrqBit, radioVars
  <2> QED BY <2>1, <2>2
<1>2. UNCHANGED <<mainPc, mainIrq, mainUp, mainSlot, gwRing, downVars, tableVars, radioLock,
                  clientsLock, toPaho, owed>>
  BY DEF Isr, TxDone, HearUplink, HearNoise, Hear, Stop, mainVars, pahoVars
<1>3. count' \in [heard : Nat, published : Nat, expired : Nat, limit : Limits]
  <2>1. CASE UNCHANGED count
    BY <2>1 DEF PahoType
  <2>2. CASE count' = [count EXCEPT !.heard = @ + 1]
    BY <2>2 DEF PahoType
  <2> QED BY <2>1, <2>2 DEF Isr, TxDone, HearUplink, HearNoise, Hear, Stop
<1>4. LockType' /\ MainType' /\ DownType' /\ TableType' /\ PahoType'
  BY <1>2, <1>3 DEF LockType, MainType, DownType, TableType, PahoType, downVars,
                    tableVars
<1>5. MainKnows'
  BY <1>2, KnowsCarries DEF tableVars, Active
<1> QED BY <1>1, <1>2, <1>4, <1>5 DEF downVars

(* A datagram from Paho enters the socket of the client with its port.     *)
LEMMA PahoSendsType ==
  ASSUME TypeInv, NEW s \in Slot, PahoSends(s)
  PROVE  TableType'
<1>1. CASE s \notin Active \/ clients[s].sock = None
  BY <1>1 DEF PahoSends, TypeInv, TypeOK, TableType
<1>2. CASE s \in Active /\ clients[s].sock # None
  <2>1. PICK size \in count.limit.size :
          queue' = [queue EXCEPT ![clients[s].sock] =
                      Append(@, [port |-> s, session |-> Sessions(s), size |-> size])]
    BY <1>2 DEF PahoSends
  <2>2. [port |-> s, session |-> Sessions(s), size |-> size] \in Datagram
    <3>1. size \in Size
      BY BridgeAssumption DEF TypeInv, TypeOK, PahoType, Limit
    <3> QED BY <3>1, SessionsType DEF Datagram, TypeInv, TypeOK, PahoType
  <2>3. clients[s].sock \in Fd
    BY <1>2 DEF Active, TypeInv, TypeOK, TableType, Client
  <2>4. queue' \in [Fd -> Seq(Datagram)]
    BY <2>1, <2>2, <2>3 DEF TypeInv, TypeOK, TableType
  <2> QED BY <2>4 DEF PahoSends, TypeInv, TypeOK, TableType
<1> QED BY <1>1, <1>2

(* What Paho does changes the sockets and what it owes.                    *)
LEMMA PahoStepType ==
  ASSUME TypeInv, NEW s \in Slot, PahoPublishes(s) \/ PahoAnswers(s)
  PROVE  TypeInv'
<1> USE DEF TypeInv, TypeOK
<1>1. TableType'
  BY PahoSendsType DEF PahoPublishes, PahoAnswers
<1>2. UNCHANGED <<mode, irq, edge, frame, unread, irqFlag, running, mainVars, gwRing,
                  downVars, radioLock, clientsLock, toPaho, clients>>
  BY DEF PahoPublishes, PahoAnswers, PahoSends, radioVars
<1>3. count' \in [heard : Nat, published : Nat, expired : Nat, limit : Limits]
  BY DEF PahoPublishes, PahoAnswers, PahoType
<1>4. owed' \in [Slot -> BOOLEAN]
  BY DEF PahoPublishes, PahoAnswers, PahoType
<1>5. RadioType' /\ LockType' /\ MainType' /\ DownType' /\ PahoType'
  BY <1>2, <1>3, <1>4
     DEF RadioType, LockType, MainType, DownType, PahoType, downVars, mainVars
<1>6. MainKnows'
  BY <1>2, KnowsCarries DEF mainVars, Active
<1> QED BY <1>1, <1>2, <1>5, <1>6 DEF downVars, mainVars

(* Expiry removes entries and empties their sockets.                       *)
LEMMA MainExpireType == ASSUME TypeInv, MainExpire PROVE TypeInv'
<1> USE DEF TypeInv, TypeOK
<1>1. PICK idle \in SUBSET Active :
        /\ count' = [count EXCEPT !.expired = @ + Cardinality(idle)]
        /\ clients' = [s \in Slot |-> IF s \in idle THEN None ELSE clients[s]]
        /\ queue' = [fd \in Fd |->
             IF \E s \in idle : clients[s].sock = fd THEN <<>> ELSE queue[fd]]
  BY DEF MainExpire
<1>2. Cardinality(idle) \in Nat
  <2>1. IsFiniteSet(Slot)
    BY FS_Interval, BridgeAssumption DEF Slot
  <2>2. idle \in SUBSET Slot
    BY DEF Active
  <2> QED BY <2>1, <2>2, FS_Subset, FS_CardinalityType
<1>3. count' \in [heard : Nat, published : Nat, expired : Nat, limit : Limits]
  BY <1>1, <1>2 DEF PahoType
<1>4. TableType'
  BY <1>1 DEF TableType
<1>5. mainPc = "heartbeat" /\ mainPc' = "poll"
  BY DEF MainExpire, MainGoto
<1>6. UNCHANGED <<mode, irq, edge, frame, unread, irqFlag, running, mainIrq, mainUp,
                  mainSlot, gwRing, downPc, downIrq, rfds, i, staged, radioLock,
                  clientsLock, toPaho, owed>>
  BY DEF MainExpire, MainKeeps, radioVars, downVars, pahoVars
<1>7. MainKnows'
  BY <1>1, <1>5 DEF MainKnows, Active
<1> QED
  BY <1>3, <1>4, <1>5, <1>6, <1>7
     DEF RadioType, LockType, MainType, MainPc, DownType, PahoType

(* on_rx_done remembers the key of a packet that it forwards.              *)
LEMMA MainReceiveType == ASSUME TypeInv, MainReceive PROVE TypeInv'
<1> USE DEF TypeInv, TypeOK
<1>1. UNCHANGED <<mode, irq, edge, frame, irqFlag, running, mainIrq, mainSlot, downPc,
                  downIrq, rfds, i, staged, clients, queue, radioLock, clientsLock,
                  toPaho, owed, count>>
  BY DEF MainReceive, NotMain, downVars, tableVars, pahoVars
<1>2. MainType' /\ (mainPc' = "forward" => mainUp' \in Traffic)
  <2>1. CASE mainPc' = "rearm" /\ UNCHANGED <<mainUp, gwRing>>
    BY <1>1, <2>1 DEF MainType, MainPc
  <2>2. CASE ~(mainPc' = "rearm" /\ UNCHANGED <<mainUp, gwRing>>)
    <3> DEFINE k    == [src |-> frame.src, seq |-> frame.seq]
               ring == IF frame.connect THEN RingClear(GwRingSize, gwRing, frame.src)
                                        ELSE gwRing
    <3>1. /\ frame # Garbage /\ mainPc' = "forward" /\ mainUp' = frame
          /\ gwRing' = RingAdd(GwRingSize, ring, k)
      BY <2>2 DEF MainReceive, MainGoto
    <3>2. frame \in Traffic /\ k \in [src : Src, seq : Nat]
      BY <3>1, TrafficKey DEF RadioType
    <3>3. ring \in RingType(GwRingSize, [src : Src, seq : Nat])
      BY RingClearType, BridgeAssumption DEF MainType
    <3>4. gwRing' \in RingType(GwRingSize, [src : Src, seq : Nat])
      BY <3>1, <3>2, <3>3, RingAddType, BridgeAssumption
    <3> QED BY <1>1, <3>1, <3>2, <3>4 DEF MainType, MainPc
  <2> QED BY <2>1, <2>2
<1>3. unread' = FALSE
  BY DEF MainReceive
<1>4. MainKnows'
  <2>1. mainPc = "receive" /\ mainPc' \in {"rearm", "forward"} /\ Active' = Active
    BY <1>1 DEF MainReceive, MainGoto, Active
  <2> QED BY <1>1, <1>2, <2>1 DEF MainKnows
<1> QED BY <1>1, <1>2, <1>3, <1>4 DEF RadioType, LockType, DownType, TableType, PahoType

(* An entry that get_or_create_client has begun to write.                  *)
Entry == [node |-> mainUp.src, sock |-> None, dnSeq |-> 0]

LEMMA EntryType ==
  ASSUME mainUp \in Traffic
  PROVE  Entry \in Client /\ Entry # None /\ Entry.node = mainUp.src /\ Entry.sock = None
<1>1. Entry \in Client
  BY TrafficKey, BridgeAssumption DEF Entry, Client
<1> QED BY <1>1, NoneAssumption DEF Entry

(* The outcomes of get_or_create_client: the entry of a known node is used *)
(* as it is, an entry is written and its socket follows, or none is left.  *)
Used(s) ==
  /\ s \in Active /\ clients[s].node = mainUp.src /\ ~mainUp.connect
  /\ mainPc' = "send" /\ mainSlot' = s /\ UNCHANGED <<mainUp, clients, queue>>

Written(s) ==
  /\ s \in Slot /\ mainPc' = "bind" /\ mainSlot' = s /\ UNCHANGED mainUp
  /\ clients' = [clients EXCEPT ![s] = Entry]
  /\ \/ /\ s \in Active /\ clients[s].node = mainUp.src /\ clients[s].sock \in Fd
        /\ mainUp.connect
        /\ queue' = [queue EXCEPT ![clients[s].sock] = <<>>]
     \/ /\ s \notin Active /\ KnownAs(mainUp.src) = {}
        /\ \A t \in Slot : t < s => t \in Active
        /\ UNCHANGED queue

LEMMA ForwardCases ==
  ASSUME TypeInv, MainForward
  PROVE  /\ mainPc = "forward" /\ mainUp \in Traffic
         /\ \/ \E s \in Slot : Used(s) \/ Written(s)
            \/ mainPc' = "rearm" /\ UNCHANGED <<clients, queue, mainSlot>>
<1>1. mainPc = "forward" /\ mainUp \in Traffic
  BY DEF MainForward, TypeInv, MainKnows
<1>2. ASSUME NEW s \in KnownAs(mainUp.src)
      PROVE  s \in Slot /\ s \in Active /\ clients[s].node = mainUp.src
             /\ clients[s].sock \in Fd
  <2>1. s \in Slot /\ s \in Active /\ clients[s].node = mainUp.src
    BY DEF KnownAs, Active
  <2>2. clients[s].sock # None /\ clients[s] \in Client
    BY <1>1, <2>1 DEF TypeInv, MainKnows, TypeOK, TableType, Active
  <2> QED BY <2>1, <2>2 DEF Client
<1>3. CASE \E s \in KnownAs(mainUp.src) :
             /\ IF mainUp.connect THEN mainPc' = "bind" /\ Close(s)
                                  ELSE mainPc' = "send" /\ UNCHANGED tableVars
             /\ mainSlot' = s /\ UNCHANGED mainUp
  BY <1>1, <1>2, <1>3 DEF Used, Written, Close, Entry, tableVars
<1>4. CASE /\ KnownAs(mainUp.src) = {} /\ Active # Slot
           /\ mainPc' = "bind" /\ Create(Lowest(Slot \ Active))
           /\ mainSlot' = Lowest(Slot \ Active) /\ UNCHANGED mainUp
  <2> DEFINE free == Slot \ Active
  <2>1. free \in SUBSET Nat /\ free # {}
    BY <1>4 DEF Slot, Active
  <2> HIDE DEF free
  <2>2. Lowest(free) \in free /\ \A t \in free : Lowest(free) <= t
    BY <2>1, LowestIn
  <2>3. \A t \in Slot : t < Lowest(free) => t \in Active
    <3>1. free \subseteq Slot /\ \A t \in Slot : t \in Active \/ t \in free
      BY DEF free
    <3> DEFINE l == Lowest(free)
    <3>2. l \in Slot /\ \A t \in free : l <= t
      BY <2>2, <3>1
    <3> HIDE DEF l
    <3>3. \A t \in Slot : t < l => t \in Active
      BY <3>1, <3>2 DEF Slot
    <3> QED BY <3>3 DEF l
  <2> DEFINE s == Lowest(free)
  <2>4. clients' = [clients EXCEPT ![s] = Entry] /\ UNCHANGED queue
    BY <1>4 DEF Create, Entry, free
  <2>5. mainPc' = "bind" /\ mainSlot' = s /\ UNCHANGED mainUp /\ KnownAs(mainUp.src) = {}
    BY <1>4 DEF free
  <2>6. s \in Slot /\ s \notin Active
    BY <2>2 DEF free
  <2> HIDE DEF s
  <2>7. Written(s)
    BY <2>3, <2>4, <2>5, <2>6 DEF Written, s
  <2> QED BY <1>1, <2>6, <2>7
<1>5. CASE mainPc' = "rearm" /\ UNCHANGED <<tableVars, mainSlot>>
  BY <1>1, <1>5 DEF tableVars
<1> QED BY <1>3, <1>4, <1>5 DEF MainForward

(* The table after an entry has been written.                              *)
LEMMA WrittenTable ==
  ASSUME TypeInv, mainUp \in Traffic, NEW s \in Slot, Written(s)
  PROVE  /\ clients' \in [Slot -> Client \cup {None}]
         /\ clients'[s] = Entry /\ \A t \in Slot \ {s} : clients'[t] = clients[t]
         /\ Active' = Active \cup {s}
         /\ queue' \in [Fd -> Seq(Datagram)]
         /\ \A fd \in Fd : queue'[fd] \in {queue[fd], <<>>}
<1>1. clients \in [Slot -> Client \cup {None}] /\ queue \in [Fd -> Seq(Datagram)]
  BY DEF TypeInv, TypeOK, TableType
<1>2. clients' = [clients EXCEPT ![s] = Entry]
  BY DEF Written
<1>3. /\ clients' \in [Slot -> Client \cup {None}]
      /\ clients'[s] = Entry /\ \A t \in Slot \ {s} : clients'[t] = clients[t]
  BY <1>1, <1>2, EntryType
<1>4. Active' = Active \cup {s}
  BY <1>3, EntryType DEF Active
<1>5. queue' = queue \/ \E fd \in Fd : queue' = [queue EXCEPT ![fd] = <<>>]
  BY DEF Written
<1>6. <<>> \in Seq(Datagram)
  OBVIOUS
<1> QED BY <1>1, <1>3, <1>4, <1>5, <1>6

(* The lookup, the close of a socket or the creation of an entry.          *)
LEMMA MainForwardType == ASSUME TypeInv, MainForward PROVE TypeInv'
<1> USE DEF TypeInv, TypeOK
<1>1. UNCHANGED <<mode, irq, edge, frame, unread, irqFlag, running, mainIrq, gwRing,
                  downPc, downIrq, rfds, i, staged, radioLock, toPaho, owed, count>>
  BY DEF MainForward, radioVars, NotMain, downVars, pahoVars
<1>2. mainUp \in Traffic /\ mainPc = "forward"
  BY ForwardCases
<1>3. RadioType' /\ DownType' /\ PahoType'
  BY <1>1 DEF RadioType, DownType, PahoType
<1>4. LockType' /\ mainUp' \in Traffic \cup {None}
  BY <1>1, <1>2 DEF MainForward, LockType
<1>5. CASE \E s \in Slot : Used(s)
  <2>1. PICK s \in Slot : Used(s)
    BY <1>5
  <2>2. TableType' /\ MainType' /\ Active' = Active
    BY <1>1, <1>4, <2>1 DEF Used, TableType, MainType, MainPc, Active
  <2>3. MainKnows'
    BY <1>2, <2>1, <2>2 DEF Used, MainKnows
  <2> QED BY <1>1, <1>3, <1>4, <2>2, <2>3
<1>6. CASE \E s \in Slot : Written(s)
  <2>1. PICK s \in Slot : Written(s)
    BY <1>6
  <2>2. TableType'
    BY <1>2, <2>1, WrittenTable DEF TableType
  <2>3. MainType'
    BY <1>1, <1>4, <2>1 DEF Written, MainType, MainPc
  <2>4. MainKnows'
    <3>1. /\ clients'[s] = Entry /\ \A t \in Slot \ {s} : clients'[t] = clients[t]
          /\ Active' = Active \cup {s} /\ Active \subseteq Slot
      BY <1>2, <2>1, WrittenTable DEF Active
    <3>2. /\ mainPc' = "bind" /\ mainSlot' = s /\ mainUp' = mainUp
          /\ \A t \in Active : clients[t].sock # None
      BY <1>2, <2>1 DEF Written, MainKnows
    <3> QED BY <1>2, <3>1, <3>2, EntryType DEF MainKnows
  <2> QED BY <1>1, <1>3, <1>4, <2>2, <2>3, <2>4
<1>7. CASE mainPc' = "rearm" /\ UNCHANGED <<clients, queue, mainSlot>>
  <2>1. mainSlot' \in Slot \cup {None}
    BY <1>7 DEF MainType
  <2>2. TableType' /\ MainType' /\ Active' = Active
    BY <1>1, <1>4, <1>7, <2>1 DEF TableType, MainType, MainPc, Active
  <2>3. MainKnows'
    BY <1>2, <1>7, <2>2 DEF MainKnows
  <2> QED BY <1>1, <1>3, <1>4, <2>2, <2>3
<1> QED BY <1>5, <1>6, <1>7, ForwardCases

(* bind gives the entry a descriptor that no other client has.             *)
LEMMA BindTable ==
  ASSUME TypeInv, MainBind
  PROVE  /\ mainPc = "bind" /\ mainPc' = "send"
         /\ mainSlot \in Active /\ mainSlot \in Slot /\ clients[mainSlot].sock = None
         /\ clients' \in [Slot -> Client \cup {None}]
         /\ \A t \in Slot \ {mainSlot} : clients'[t] = clients[t]
         /\ clients'[mainSlot].node = clients[mainSlot].node
         /\ clients'[mainSlot].sock = Lowest(Fd \ UsedBy(clients))
         /\ clients'[mainSlot].sock \in Fd \ UsedBy(clients)
         /\ \A fd \in Fd \ UsedBy(clients) : clients'[mainSlot].sock <= fd
         /\ Active' = Active
<1> DEFINE fd == Lowest(Fd \ UsedBy(clients))
           c  == [clients[mainSlot] EXCEPT !.sock = fd]
<1>1. mainPc = "bind" /\ mainPc' = "send"
  BY DEF MainBind, MainGoto
<1>2. mainSlot \in Active /\ mainSlot \in Slot /\ clients[mainSlot].sock = None
  BY <1>1 DEF TypeInv, MainKnows, Active
<1>3. clients \in [Slot -> Client \cup {None}] /\ clients[mainSlot] \in Client
  BY <1>2 DEF TypeInv, TypeOK, TableType, Active
<1>4. fd \in Fd \ UsedBy(clients) /\ \A g \in Fd \ UsedBy(clients) : fd <= g
  BY <1>2, <1>3, FreeDescriptor
<1>5. clients' = [clients EXCEPT ![mainSlot] = c]
  BY DEF MainBind
<1> HIDE DEF fd
<1>6. c \in Client /\ c.node = clients[mainSlot].node /\ c.sock = fd
  BY <1>3, <1>4 DEF Client
<1> HIDE DEF c
<1>7. /\ clients' \in [Slot -> Client \cup {None}] /\ clients'[mainSlot] = c
      /\ \A t \in Slot \ {mainSlot} : clients'[t] = clients[t]
  BY <1>2, <1>3, <1>5, <1>6
<1>8. Active' = Active
  BY <1>2, <1>6, <1>7, NoneAssumption DEF Active
<1> QED BY <1>1, <1>2, <1>4, <1>6, <1>7, <1>8 DEF fd

LEMMA MainBindType == ASSUME TypeInv, MainBind PROVE TypeInv'
<1> USE DEF TypeInv, TypeOK
<1>1. UNCHANGED <<mode, irq, edge, frame, unread, irqFlag, running, mainIrq, mainUp,
                  mainSlot, gwRing, downPc, downIrq, rfds, i, staged, queue, radioLock,
                  clientsLock, toPaho, owed, count>>
  BY DEF MainBind, MainKeeps, radioVars, NotMain, downVars, pahoVars
<1>2. RadioType' /\ LockType' /\ DownType' /\ PahoType'
  BY <1>1 DEF RadioType, LockType, DownType, PahoType
<1>3. TableType' /\ MainType'
  BY <1>1, BindTable DEF TableType, MainType, MainPc
<1>4. MainKnows'
  <2>1. None \notin Fd
    BY NoneAssumption DEF Fd, Slot
  <2>2. Active \subseteq Slot
    BY DEF Active
  <2> QED BY <1>1, <2>1, <2>2, BindTable DEF MainKnows
<1> QED BY <1>1, <1>2, <1>3, <1>4

(* An uplink handed to Paho keeps the types of Paho's history.             *)
LEMMA MainSendType == ASSUME TypeInv, MainSend PROVE TypeInv'
<1> USE DEF TypeInv, TypeOK
<1>1. UNCHANGED <<mode, irq, edge, frame, unread, irqFlag, running, mainIrq, gwRing,
                  downPc, downIrq, rfds, i, staged, clients, queue, radioLock, count>>
  BY DEF MainSend, radioVars, NotMain, downVars, tableVars
<1>2. /\ mainPc = "send" /\ mainPc' = "rearm"
      /\ mainUp' = None /\ mainSlot' = None /\ clientsLock' = None
  BY DEF MainSend, MainGoto
<1>3. mainSlot \in Slot /\ mainUp \in Traffic
  BY <1>2 DEF MainKnows, Active
<1>4. [port |-> mainSlot, up |-> mainUp] \in Handed /\ mainUp.connect \in BOOLEAN
  BY <1>3, BridgeAssumption DEF Handed
<1>5. toPaho' \in Seq(Handed) /\ owed' \in [Slot -> BOOLEAN]
  BY <1>3, <1>4 DEF MainSend, PahoType
<1>6. RadioType' /\ LockType' /\ MainType' /\ DownType' /\ TableType' /\ PahoType'
  BY <1>1, <1>2, <1>5
     DEF RadioType, LockType, MainType, MainPc, DownType, TableType, PahoType
<1>7. MainKnows'
  BY <1>1, <1>2, KnowsIdle
<1> QED BY <1>1, <1>6, <1>7

(* The other steps of main touch its own state, the locks and the radio.   *)
LEMMA MainStepType == ASSUME TypeInv, MainStep PROVE TypeInv'
<1> DEFINE Rest == <<downPc, downIrq, rfds, i, staged, toPaho, owed, count>>
<1>1. CASE MainPoll \/ MainLock \/ MainFlag \/ MainStatus \/ MainClear \/ MainRearm
  <2>1. UNCHANGED Rest /\ UNCHANGED <<frame, running, mainUp, mainSlot, gwRing, clients,
                                     queue>>
    BY <1>1 DEF MainPoll, MainLock, MainFlag, MainStatus, MainClear, MainRearm, NotMain,
                MainKeeps, downVars, tableVars, pahoVars, radioVars
  <2>2. RadioType' /\ LockType'
    <3>1. UNCHANGED <<edge, unread>> /\ mode' \in {mode, "rx"} /\ irq' \subseteq irq
      BY <1>1 DEF MainPoll, MainLock, MainFlag, MainStatus, MainClear, MainRearm, radioVars
    <3>2. /\ irqFlag' \in {irqFlag, FALSE} /\ clientsLock' = clientsLock
          /\ radioLock' \in {radioLock, "main", None}
      BY <1>1 DEF MainPoll, MainLock, MainFlag, MainStatus, MainClear, MainRearm
    <3> QED BY <2>1, <3>1, <3>2 DEF TypeInv, TypeOK, RadioType, LockType
  <2>3. /\ mainPc' \in MainPc \ {"forward", "bind", "send"}
        /\ mainPc \notin {"forward", "bind"} /\ mainIrq' \in SUBSET IrqBit
    BY <1>1
       DEF MainPoll, MainLock, MainFlag, MainStatus, MainClear, MainRearm, MainGoto,
           MainPc, MainKeeps, TypeInv, TypeOK, MainType, RadioType
  <2>4. MainKnows'
    BY <2>1, <2>3, KnowsIdle DEF TypeInv
  <2> QED
    BY <2>1, <2>2, <2>3, <2>4
       DEF TypeInv, TypeOK, MainType, DownType, TableType, PahoType
<1>2. CASE MainJoin
  <2>1. UNCHANGED Rest
        /\ UNCHANGED <<irq, edge, frame, unread, irqFlag, running, mainIrq, mainUp,
                       mainSlot, gwRing, clients, radioLock, clientsLock>>
    BY <1>2 DEF MainJoin, MainKeeps, NotMain, downVars, pahoVars
  <2>2. /\ mainPc = "join" /\ mainPc' = "done" /\ mode' = "standby"
        /\ queue' = [fd \in Fd |-> <<>>]
    BY <1>2 DEF MainJoin, MainGoto
  <2>3. MainKnows'
    BY <2>1, <2>2, KnowsIdle DEF TypeInv
  <2> QED
    BY <2>1, <2>2, <2>3
       DEF TypeInv, TypeOK, RadioType, LockType, MainType, MainPc, DownType, TableType,
           PahoType
<1> QED
  BY <1>1, <1>2, MainExpireType, MainReceiveType, MainForwardType, MainBindType,
     MainSendType DEF MainStep

(* recvfrom changes only the dn_seq of the client whose socket it reads.    *)
LEMMA DrainReads ==
  ASSUME TypeInv, DownDrain, ~(UNCHANGED <<tableVars, staged>>)
  PROVE  /\ i \in Slot /\ i \in Active /\ clients[i].sock \in Fd /\ clients[i].sock \in rfds
         /\ clients[i].node \in Src /\ clients[i].dnSeq \in 0 .. SeqMod - 1
         /\ queue[clients[i].sock] # <<>>
         /\ queue' = [queue EXCEPT ![clients[i].sock] = Tail(@)]
         /\ clients' \in [Slot -> Client \cup {None}]
         /\ Active' = Active
         /\ \A s \in Active : /\ clients'[s].node = clients[s].node
                             /\ clients'[s].sock = clients[s].sock
<1> USE DEF TypeInv, TypeOK
<1>1. /\ IsSet(i) /\ queue[clients[i].sock] # <<>>
      /\ queue' = [queue EXCEPT ![clients[i].sock] = Tail(@)]
      /\ clients' = [clients EXCEPT ![i].dnSeq = NextDn(@)]
  BY DEF DownDrain
<1>2. i \in Slot /\ i \in Active /\ clients[i] \in Client /\ clients[i].sock \in rfds
  BY <1>1 DEF IsSet, Active, TableType
<1>3. clients[i].sock \in Fd /\ clients[i].node \in Src
      /\ clients[i].dnSeq \in 0 .. SeqMod - 1
  BY <1>2 DEF Client, DownType
<1> DEFINE c == [clients[i] EXCEPT !.dnSeq = NextDn(clients[i].dnSeq)]
<1>4. NextDn(clients[i].dnSeq) \in 0 .. SeqMod - 1
  BY <1>3, BridgeAssumption, SMTT(20) DEF NextDn
<1>5. c \in Client /\ c.node = clients[i].node /\ c.sock = clients[i].sock
  BY <1>2, <1>4 DEF Client
<1>6. clients' = [clients EXCEPT ![i] = c]
  BY <1>1
<1> HIDE DEF c
<1>7. /\ clients' \in [Slot -> Client \cup {None}] /\ clients'[i] = c
      /\ \A t \in Slot \ {i} : clients'[t] = clients[t]
  BY <1>2, <1>5, <1>6 DEF TableType
<1>8. Active' = Active
  BY <1>2, <1>5, <1>7, NoneAssumption DEF Active
<1>9. \A s \in Active : /\ clients'[s].node = clients[s].node
                       /\ clients'[s].sock = clients[s].sock
  BY <1>5, <1>7 DEF Active
<1> QED BY <1>1, <1>2, <1>3, <1>7, <1>8, <1>9

(* A datagram that is read is staged with the client's node and number.    *)
LEMMA DownDrainType == ASSUME TypeInv, DownDrain PROVE TypeInv'
<1> USE DEF TypeInv, TypeOK
<1>1. UNCHANGED <<mode, irq, edge, frame, unread, irqFlag, running, mainPc, mainIrq, mainUp,
                  mainSlot, gwRing, downPc, downIrq, rfds, radioLock, clientsLock, toPaho,
                  owed, count>>
  BY DEF DownDrain, radioVars, NotDown, mainVars, pahoVars
<1>2. downPc = "drain" /\ i \in Slot /\ i' = i + 1 /\ i' \in 1 .. MaxClients + 1
  BY BridgeAssumption DEF DownDrain, DownType, Slot
<1>3. RadioType' /\ LockType' /\ MainType' /\ PahoType'
  BY <1>1 DEF RadioType, LockType, MainType, PahoType
<1>4. CASE UNCHANGED <<tableVars, staged>>
  <2>1. MainKnows'
    BY <1>1, <1>4, KnowsCarries DEF tableVars, Active
  <2> QED BY <1>1, <1>2, <1>3, <1>4, <2>1 DEF tableVars, DownType, TableType
<1>5. CASE ~(UNCHANGED <<tableVars, staged>>)
  <2> DEFINE fd == clients[i].sock
             d  == [dg |-> Head(queue[fd]), node |-> clients[i].node,
                    seq |-> clients[i].dnSeq]
  <2>1. staged' = Append(staged, d)
    BY <1>5 DEF DownDrain
  <2>2. queue[fd] \in Seq(Datagram) /\ queue[fd] # <<>>
    BY <1>5, DrainReads DEF TableType
  <2>3. queue' \in [Fd -> Seq(Datagram)] /\ Head(queue[fd]) \in Datagram
    <3>1. fd \in Fd /\ queue' = [queue EXCEPT ![fd] = Tail(queue[fd])]
      BY <1>5, DrainReads
    <3> HIDE DEF fd
    <3>2. Head(queue[fd]) \in Datagram /\ Tail(queue[fd]) \in Seq(Datagram)
      BY <2>2
    <3> QED BY <3>1, <3>2 DEF TableType
  <2>4. d \in Staged
    BY <1>5, <2>3, DrainReads DEF Staged
  <2>5. staged' \in Seq(Staged)
    BY <2>1, <2>4 DEF DownType
  <2>6. TableType' /\ DownType'
    BY <1>1, <1>2, <1>5, <2>3, <2>5, DrainReads DEF TableType, DownType
  <2>7. MainKnows'
    BY <1>1, <1>5, DrainReads, KnowsCarries
  <2> QED BY <1>1, <1>2, <1>3, <2>6, <2>7
<1> QED BY <1>4, <1>5

(* The last steps of a downlink: while it sends, something is staged.      *)
LEMMA DownUnlockType == ASSUME TypeInv, DownUnlock PROVE TypeInv'
<1> USE DEF TypeInv, TypeOK
<1>1. UNCHANGED <<mode, irq, edge, frame, unread, running, mainPc, mainIrq, mainUp,
                  mainSlot, gwRing, downIrq, rfds, i, clients, queue, clientsLock,
                  toPaho, owed, count>>
  BY DEF DownUnlock, radioVars, NotDown, mainVars, tableVars, pahoVars
<1>2. irqFlag' = FALSE /\ radioLock' = None /\ staged' = Tail(staged)
  BY DEF DownUnlock
<1>3. downPc = "unlock" /\ staged \in Seq(Staged) /\ staged # <<>>
  BY DEF DownUnlock, DownGoto, DownType
<1>4. staged' \in Seq(Staged) /\ (Len(staged) # 1 => staged' # <<>>)
  <2>1. staged' \in Seq(Staged) /\ Len(staged') = Len(staged) - 1
    BY <1>2, <1>3
  <2>2. Len(staged) # 1 => Len(staged') # 0
    BY <1>3, <2>1
  <2> QED BY <2>1, <2>2
<1>5. downPc' = IF Len(staged) = 1 THEN "collect" ELSE "lock"
  BY DEF DownUnlock, DownGoto
<1>6. MainKnows'
  BY <1>1, KnowsCarries DEF Active
<1>7. RadioType' /\ LockType' /\ MainType' /\ TableType' /\ PahoType'
  BY <1>1, <1>2 DEF RadioType, LockType, MainType, TableType, PahoType
<1>8. DownType'
  BY <1>1, <1>4, <1>5 DEF DownType, DownPc
<1> QED BY <1>4, <1>5, <1>6, <1>7, <1>8

(* The downstream thread: its locals, the radio, the locks.                *)
LEMMA DownStepType == ASSUME TypeInv, DownStep PROVE TypeInv'
<1> DEFINE Rest == <<mainPc, mainIrq, mainUp, mainSlot, gwRing, running, clients, queue,
                     toPaho, owed, count>>
<1>0. ASSUME UNCHANGED Rest PROVE MainKnows'
  BY <1>0, KnowsCarries DEF TypeInv, Active
<1>1. CASE DownCollect \/ DownSelect \/ DownDrainLock \/ DownDrainUnlock
  <2>1. UNCHANGED Rest
        /\ UNCHANGED <<mode, irq, edge, frame, unread, irqFlag, radioLock, downIrq, staged>>
    BY <1>1 DEF DownCollect, DownSelect, DownDrainLock, DownDrainUnlock, NotDown,
                mainVars, tableVars, pahoVars, radioVars
  <2>2. LockType'
    BY <1>1, <2>1 DEF DownCollect, DownSelect, DownDrainLock, DownDrainUnlock, TypeInv,
                      TypeOK, LockType
  <2>3. /\ downPc' \in DownPc
        /\ \/ downPc' \in {"collect", "select", "drainLock", "drain", "exit"}
           \/ downPc' = "lock" /\ staged # <<>>
    <3>1. CASE DownCollect
      BY <3>1 DEF DownCollect, DownGoto, DownPc
    <3>2. CASE DownSelect
      BY <3>2 DEF DownSelect, DownGoto, DownPc
    <3>3. CASE DownDrainLock
      BY <3>3 DEF DownDrainLock, DownGoto, DownPc
    <3>4. CASE DownDrainUnlock
      BY <3>4 DEF DownDrainUnlock, DownGoto, DownPc
    <3> QED BY <1>1, <3>1, <3>2, <3>3, <3>4
  <2>4. UsedBy(clients) \subseteq Fd
    BY DEF UsedBy, TypeInv, TypeOK, TableType, Client
  <2>6. MainKnows'
    BY <1>0, <2>1
  <2>5. rfds' \in SUBSET Fd /\ i' \in 1 .. MaxClients + 1
    BY <1>1, <2>4, BridgeAssumption
       DEF DownCollect, DownSelect, DownDrainLock, DownDrainUnlock, Ready, TypeInv,
           TypeOK, DownType
  <2> QED
    BY <2>1, <2>2, <2>3, <2>5, <2>6
       DEF TypeInv, TypeOK, RadioType, MainType, DownType, TableType, PahoType
<1>2. CASE \/ DownLock \/ DownFlag \/ DownStart \/ DownWait \/ DownStatus \/ DownClear
           \/ DownSent \/ DownListen
  <2>1. UNCHANGED Rest /\ UNCHANGED <<edge, frame, unread, clientsLock, rfds, i, staged>>
    BY <1>2 DEF DownLock, DownFlag, DownStart, DownWait, DownStatus, DownClear, DownSent,
                DownListen, NotDown, mainVars, tableVars, pahoVars, radioVars
  <2>2. RadioType' /\ LockType'
    <3>1. /\ running' = running /\ mode' \in {mode, "rx", "tx"} /\ irq' \subseteq irq
      BY <1>2 DEF DownLock, DownFlag, DownStart, DownWait, DownStatus, DownClear, DownSent,
                  DownListen, radioVars, NotDown
    <3>2. irqFlag' \in {irqFlag, FALSE} /\ radioLock' \in {radioLock, "down"}
      BY <1>2 DEF DownLock, DownFlag, DownStart, DownWait, DownStatus, DownClear, DownSent,
                  DownListen
    <3> QED BY <2>1, <3>1, <3>2 DEF TypeInv, TypeOK, RadioType, LockType
  <2>3. downPc' \in DownPc /\ downIrq' \in SUBSET IrqBit /\ staged # <<>>
    BY <1>2
       DEF DownLock, DownFlag, DownStart, DownWait, DownStatus, DownClear, DownSent,
           DownListen, DownGoto, DownPc, TypeInv, TypeOK, DownType, RadioType
  <2> QED
    BY <1>0, <2>1, <2>2, <2>3
       DEF TypeInv, TypeOK, MainType, DownType, TableType, PahoType
<1> QED BY <1>1, <1>2, DownDrainType, DownUnlockType DEF DownStep

(* Every step of the bridge keeps the type invariant.                      *)
LEMMA BridgeTypeStep == ASSUME TypeInv, [Next]_vars PROVE TypeInv'
<1>1. CASE UNCHANGED vars
  BY <1>1
     DEF vars, radioVars, mainVars, downVars, tableVars, pahoVars, TypeInv, TypeOK,
         RadioType, LockType, MainType, DownType, TableType, PahoType, MainKnows, Active
<1> QED
  BY <1>1, MainStepType, DownStepType, OutsideType, PahoStepType DEF Next

(* Type correctness of the bridge for every number of nodes, slots and     *)
(* frames: a free slot always has a free descriptor, dn_seq stays a byte.  *)
THEOREM BridgeTypeCorrect == Spec => []TypeOK
<1>1. TypeInv => TypeOK
  BY DEF TypeInv
<1> QED
  BY <1>1, BridgeTypeInit, BridgeTypeStep, PTL DEF Spec

------------------------------------------------------------------------------
(***************************************************************************)
(* The client table and the sockets.                                       *)
(***************************************************************************)

(* What the header comment claims, with what makes it inductive: as long   *)
(* as main has not handed a CONNECT over, the reopened socket holds only   *)
(* what Paho sent in the session that this CONNECT ends.                   *)
SessionsCut ==
  \A s \in Active : \A k \in DOMAIN Waiting(s) :
    LET d == Waiting(s)[k] IN
      /\ d.port = s /\ d.session + 1 >= Sessions(s)
      /\ mainPc = "send" /\ s = mainSlot /\ mainUp.connect => d.session >= Sessions(s)

TableInv == SocketsMatchTable /\ SessionsCut

(* Append, for an element of which nothing is known.                       *)
LEMMA AppendAny ==
  ASSUME NEW S, NEW q \in Seq(S), NEW x
  PROVE  /\ DOMAIN Append(q, x) = 1 .. Len(q) + 1
         /\ \A m \in 1 .. Len(q) : Append(q, x)[m] = q[m]
         /\ Append(q, x)[Len(q) + 1] = x
<1>1. q \in Seq(S \cup {x}) /\ x \in S \cup {x}
  OBVIOUS
<1> QED BY <1>1

(* Only the hand-over of a CONNECT begins a session, and only of its port. *)
LEMMA SessionsSent ==
  ASSUME TypeInv, MainSend, NEW t
  PROVE  Sessions(t)' = IF t = mainSlot /\ mainUp.connect THEN Sessions(t) + 1
                                                          ELSE Sessions(t)
<1> DEFINE up == [port |-> mainSlot, up |-> mainUp]
           K  == {k \in DOMAIN toPaho : toPaho[k].port = t /\ toPaho[k].up.connect}
           n  == Len(toPaho) + 1
<1>1. toPaho \in Seq(Handed) /\ up \in Handed /\ toPaho' = Append(toPaho, up)
  <2>1. mainSlot \in Slot /\ mainUp \in Traffic
    BY DEF MainSend, MainGoto, TypeInv, MainKnows, Active
  <2> QED BY <2>1 DEF MainSend, TypeInv, TypeOK, PahoType, Handed
<1>2. up.port = mainSlot /\ up.up = mainUp
  OBVIOUS
<1> HIDE DEF up
<1>3. /\ DOMAIN toPaho = 1 .. Len(toPaho) /\ Len(toPaho) \in Nat
      /\ DOMAIN toPaho' = 1 .. n /\ toPaho'[n] = up
      /\ \A k \in 1 .. Len(toPaho) : toPaho'[k] = toPaho[k]
  BY <1>1
<1>4. {k \in DOMAIN toPaho' : toPaho'[k].port = t /\ toPaho'[k].up.connect}
        = IF t = mainSlot /\ mainUp.connect THEN K \cup {n} ELSE K
  <2>1. DOMAIN toPaho' = DOMAIN toPaho \cup {n}
    BY <1>3
  <2>2. \A k \in DOMAIN toPaho : toPaho'[k] = toPaho[k]
    BY <1>3
  <2> HIDE DEF n
  <2> QED BY <1>2, <1>3, <2>1, <2>2
<1>5. IsFiniteSet(K) /\ n \notin K
  <2>1. 1 \in Int /\ Len(toPaho) \in Int /\ K \subseteq 1 .. Len(toPaho)
    BY <1>3
  <2>2. n \notin 1 .. Len(toPaho)
    BY <1>3
  <2> HIDE DEF K, n
  <2> QED BY <2>1, <2>2, FS_Interval, FS_Subset
<1> HIDE DEF K, n
<1>6. Cardinality(K \cup {n}) = Cardinality(K) + 1
  BY <1>5, FS_AddElement
<1>7. Sessions(t) = Cardinality(K)
  BY DEF Sessions, K
<1> QED BY <1>4, <1>6, <1>7 DEF Sessions

(* A step that adds nothing to what waits, and hands no CONNECT over.      *)
LEMMA CutCarries ==
  ASSUME SessionsCut, UNCHANGED toPaho,
         mainPc' = "send" => UNCHANGED <<mainPc, mainSlot, mainUp>> \/ ~mainUp'.connect
                             \/ Waiting(mainSlot)' = <<>>,
         \A s \in Active' :
           \/ Waiting(s)' = <<>>
           \/ s \in Active /\ \A k \in DOMAIN Waiting(s)' :
                \E j \in DOMAIN Waiting(s) : Waiting(s)'[k] = Waiting(s)[j]
  PROVE  SessionsCut'
<1> SUFFICES ASSUME NEW s \in Active', NEW k \in DOMAIN Waiting(s)'
             PROVE  LET d == Waiting(s)'[k] IN
                      /\ d.port = s /\ d.session + 1 >= Sessions(s)'
                      /\ mainPc' = "send" /\ s = mainSlot' /\ mainUp'.connect
                           => d.session >= Sessions(s)'
  BY DEF SessionsCut
<1>1. Sessions(s)' = Sessions(s)
  BY DEF Sessions
<1>2. Waiting(s)' # <<>>
  OBVIOUS
<1>3. s \in Active /\ \E j \in DOMAIN Waiting(s) : Waiting(s)'[k] = Waiting(s)[j]
  BY <1>2
<1>4. mainPc' = "send" /\ s = mainSlot' /\ mainUp'.connect
        => mainPc = "send" /\ s = mainSlot /\ mainUp.connect
  BY <1>2
<1> QED BY <1>1, <1>3, <1>4 DEF SessionsCut

(* A step that leaves the table, the sockets and Paho's history alone.     *)
LEMMA TableStutter ==
  ASSUME TableInv, UNCHANGED <<clients, queue, toPaho>>,
         mainPc' = "send" => UNCHANGED <<mainPc, mainSlot, mainUp>> \/ ~mainUp'.connect
  PROVE  TableInv'
<1>1. Active' = Active /\ UsedBy(clients)' = UsedBy(clients)
  BY DEF Active, UsedBy
<1>2. SocketsMatchTable'
  BY <1>1 DEF TableInv, SocketsMatchTable
<1>3. \A s : Waiting(s)' = Waiting(s)
  BY DEF Waiting
<1>4. SessionsCut'
  BY <1>1, <1>3, CutCarries DEF TableInv
<1> QED BY <1>2, <1>4 DEF TableInv

(* The socket of an entry, when it has one.                                *)
LEMMA SockType ==
  ASSUME TypeInv, NEW s \in Active
  PROVE  s \in Slot /\ clients[s].sock \in Fd \cup {None} /\ None \notin Fd
BY NoneAssumption DEF Active, TypeInv, TypeOK, TableType, Client, Fd, Slot

(* Expiry: what remains is part of what was there.                         *)
LEMMA ExpireTable == ASSUME TypeInv, TableInv, MainExpire PROVE TableInv'
<1>1. PICK idle \in SUBSET Active :
        /\ clients' = [s \in Slot |-> IF s \in idle THEN None ELSE clients[s]]
        /\ queue' = [fd \in Fd |->
             IF \E s \in idle : clients[s].sock = fd THEN <<>> ELSE queue[fd]]
  BY DEF MainExpire
<1>2. toPaho' = toPaho /\ mainPc' = "poll"
  BY DEF MainExpire, MainGoto, pahoVars
<1>3. Active' = Active \ idle /\ \A s \in Active' : clients'[s] = clients[s]
  BY <1>1 DEF Active
<1>4. ASSUME NEW s \in Active' PROVE s \in Active /\ Waiting(s)' = Waiting(s)
  <2>1. s \in Active /\ s \notin idle /\ clients'[s] = clients[s]
    BY <1>3
  <2>2. ~ \E t \in idle : clients[t].sock = clients[s].sock
    BY <2>1 DEF TableInv, SocketsMatchTable
  <2> QED BY <1>1, <2>1, <2>2, SockType DEF Waiting
<1>5. SessionsCut'
  BY <1>2, <1>4, CutCarries DEF TableInv
<1>6. SocketsMatchTable'
  <2>1. \A s, t \in Active' :
          s # t => clients'[s].node # clients'[t].node /\ clients'[s].sock # clients'[t].sock
    BY <1>3 DEF TableInv, SocketsMatchTable
  <2>2. ASSUME NEW fd \in Fd, fd \notin UsedBy(clients') PROVE queue'[fd] = <<>>
    <3>1. CASE \E s \in idle : clients[s].sock = fd
      BY <1>1, <3>1
    <3>2. CASE ~ \E s \in idle : clients[s].sock = fd
      <4>1. fd \notin UsedBy(clients)
        BY <1>3, <2>2, <3>2 DEF UsedBy, Active
      <4> QED BY <1>1, <3>2, <4>1 DEF TableInv, SocketsMatchTable
    <3> QED BY <3>1, <3>2
  <2> QED BY <2>1, <2>2 DEF SocketsMatchTable
<1> QED BY <1>5, <1>6 DEF TableInv

(* A written entry has no socket yet; a closed one leaves nothing behind.  *)
LEMMA WrittenKeepsTable ==
  ASSUME TypeInv, TableInv, mainPc = "forward", mainUp \in Traffic, UNCHANGED toPaho,
         NEW s \in Slot, Written(s)
  PROVE  TableInv'
<1>1. /\ clients'[s] = Entry /\ \A t \in Slot \ {s} : clients'[t] = clients[t]
      /\ Active' = Active \cup {s} /\ Active \subseteq Slot
      /\ \A fd \in Fd : queue'[fd] \in {queue[fd], <<>>}
  BY WrittenTable DEF Active
<1>2. \A t \in Active : clients[t].sock \in Fd
  BY SockType DEF TypeInv, MainKnows
<1>3. None \notin Fd
  BY NoneAssumption DEF Fd, Slot
<1>4. \A t \in Active : t # s => clients[t].node # mainUp.src
  BY DEF Written, KnownAs, TableInv, SocketsMatchTable
<1>5. SocketsMatchTable'
  <2>1. ASSUME NEW t \in Active', NEW u \in Active', t # u
        PROVE  clients'[t].node # clients'[u].node /\ clients'[t].sock # clients'[u].sock
    <3>1. CASE t = s
      BY <1>1, <1>2, <1>3, <1>4, <2>1, <3>1, EntryType
    <3>2. CASE u = s
      BY <1>1, <1>2, <1>3, <1>4, <2>1, <3>2, EntryType
    <3>3. CASE t # s /\ u # s
      BY <1>1, <2>1, <3>3 DEF TableInv, SocketsMatchTable
    <3> QED BY <3>1, <3>2, <3>3
  <2>2. ASSUME NEW fd \in Fd, fd \notin UsedBy(clients') PROVE queue'[fd] = <<>>
    <3>1. CASE s \in Active /\ fd = clients[s].sock
      BY <3>1 DEF Written, TypeInv, TypeOK, TableType
    <3>2. CASE ~(s \in Active /\ fd = clients[s].sock)
      <4>1. fd \notin UsedBy(clients)
        <5> SUFFICES ASSUME NEW t \in Active, clients[t].sock = fd PROVE FALSE
          BY <1>3 DEF UsedBy, Active
        <5>1. t # s /\ t \in Active' /\ clients'[t].sock = fd
          BY <1>1, <3>2
        <5> QED BY <1>3, <2>2, <5>1 DEF UsedBy, Active
      <4> QED BY <1>1, <4>1 DEF TableInv, SocketsMatchTable
    <3> QED BY <3>1, <3>2
  <2> QED BY <2>1, <2>2 DEF SocketsMatchTable
<1>6. ASSUME NEW t \in Active'
      PROVE  Waiting(t)' = <<>> \/ (t \in Active /\ Waiting(t)' = Waiting(t))
  <2>1. CASE t = s
    BY <1>1, <2>1, EntryType DEF Waiting
  <2>2. CASE t # s
    <3>1. t \in Active /\ clients'[t] = clients[t] /\ clients[t].sock \in Fd
      BY <1>1, <1>2, <2>2
    <3> QED BY <1>1, <1>3, <3>1 DEF Waiting
  <2> QED BY <2>1, <2>2
<1>7. SessionsCut'
  <2>1. mainPc' = "bind"
    BY DEF Written
  <2> QED BY <1>6, <2>1, CutCarries DEF TableInv
<1> QED BY <1>5, <1>7 DEF TableInv

LEMMA ForwardTable == ASSUME TypeInv, TableInv, MainForward PROVE TableInv'
<1>1. toPaho' = toPaho /\ mainPc = "forward" /\ mainUp \in Traffic
  BY ForwardCases DEF MainForward, pahoVars
<1>2. CASE \E s \in Slot : Used(s)
  BY <1>1, <1>2, TableStutter DEF Used
<1>3. CASE \E s \in Slot : Written(s)
  BY <1>1, <1>3, WrittenKeepsTable
<1>4. CASE mainPc' = "rearm" /\ UNCHANGED <<clients, queue, mainSlot>>
  BY <1>1, <1>4, TableStutter
<1> QED BY <1>2, <1>3, <1>4, ForwardCases

(* The descriptor that bind takes is no other client's: nothing waits.     *)
LEMMA BindKeepsTable == ASSUME TypeInv, TableInv, MainBind PROVE TableInv'
<1> DEFINE fd == clients'[mainSlot].sock
<1>1. /\ queue' = queue /\ toPaho' = toPaho /\ mainSlot' = mainSlot
      /\ Active' = Active /\ Active \subseteq Slot /\ mainSlot \in Active
      /\ \A t \in Active \ {mainSlot} : clients'[t] = clients[t]
      /\ clients'[mainSlot].node = clients[mainSlot].node
      /\ fd \in Fd \ UsedBy(clients) /\ clients[mainSlot].sock = None
  BY BindTable DEF MainBind, MainKeeps, pahoVars, Active
<1>2. None \notin Fd
  BY NoneAssumption DEF Fd, Slot
<1>3. \A t \in Active \ {mainSlot} : clients[t].sock \in UsedBy(clients)
  <2>1. \A t \in Active \ {mainSlot} : clients[t].sock # None
    BY DEF TypeInv, MainKnows
  <2> QED BY <2>1 DEF UsedBy, Active
<1>4. queue[fd] = <<>>
  BY <1>1 DEF TableInv, SocketsMatchTable
<1> HIDE DEF fd
<1>5. SocketsMatchTable'
  <2>1. ASSUME NEW t \in Active', NEW u \in Active', t # u
        PROVE  clients'[t].node # clients'[u].node /\ clients'[t].sock # clients'[u].sock
    BY <1>1, <1>3, <2>1 DEF fd, TableInv, SocketsMatchTable
  <2>2. ASSUME NEW g \in Fd, g \notin UsedBy(clients') PROVE queue'[g] = <<>>
    <3>1. g \notin UsedBy(clients)
      <4> SUFFICES ASSUME NEW t \in Active, clients[t].sock = g PROVE FALSE
        BY <1>2 DEF UsedBy, Active
      <4>1. t # mainSlot /\ t \in Active' /\ clients'[t].sock = g
        BY <1>1, <1>2
      <4> QED BY <1>2, <2>2, <4>1 DEF UsedBy, Active
    <3> QED BY <1>1, <3>1 DEF TableInv, SocketsMatchTable
  <2> QED BY <2>1, <2>2 DEF SocketsMatchTable
<1>6. ASSUME NEW t \in Active'
      PROVE  t \in Active /\ (Waiting(t)' = <<>> \/ Waiting(t)' = Waiting(t))
  BY <1>1, <1>4 DEF Waiting, fd
<1>7. Waiting(mainSlot)' = <<>>
  BY <1>1, <1>2, <1>4 DEF Waiting, fd
<1>8. SessionsCut'
  BY <1>1, <1>6, <1>7, CutCarries DEF TableInv
<1> QED BY <1>5, <1>8 DEF TableInv

(* The hand-over of a CONNECT: what waits now is one session old.          *)
LEMMA SendTable == ASSUME TypeInv, TableInv, MainSend PROVE TableInv'
<1>1. clients' = clients /\ queue' = queue /\ mainPc = "send" /\ mainPc' = "rearm"
  BY DEF MainSend, MainGoto, tableVars
<1>2. Active' = Active /\ UsedBy(clients)' = UsedBy(clients)
  BY <1>1 DEF Active, UsedBy
<1>3. SocketsMatchTable'
  BY <1>1, <1>2 DEF TableInv, SocketsMatchTable
<1>4. SessionsCut'
  <2> SUFFICES ASSUME NEW s \in Active, NEW k \in DOMAIN Waiting(s)
               PROVE  Waiting(s)[k].port = s /\ Waiting(s)[k].session + 1 >= Sessions(s)'
    BY <1>1, <1>2 DEF SessionsCut, Waiting
  <2> DEFINE d == Waiting(s)[k]
  <2>1. /\ d.port = s /\ d.session + 1 >= Sessions(s)
        /\ s = mainSlot /\ mainUp.connect => d.session >= Sessions(s)
    BY <1>1 DEF TableInv, SessionsCut
  <2>2. d.session \in Nat /\ Sessions(s) \in Nat
    <3>1. clients[s].sock \in Fd
      BY SockType DEF Waiting
    <3>2. d \in Datagram
      BY <3>1 DEF Waiting, TypeInv, TypeOK, TableType
    <3> QED BY <3>2, SessionsType DEF Datagram, TypeInv, TypeOK, PahoType
  <2> HIDE DEF d
  <2>3. d.session + 1 >= Sessions(s)'
    BY <2>1, <2>2, SessionsSent
  <2> QED BY <2>1, <2>3 DEF d
<1> QED BY <1>3, <1>4 DEF TableInv

(* Reading a datagram: the others of its socket stay.                      *)
LEMMA DrainTable == ASSUME TypeInv, TableInv, DownDrain PROVE TableInv'
<1>1. UNCHANGED <<toPaho, mainPc, mainSlot, mainUp>>
  BY DEF DownDrain, NotDown, mainVars, pahoVars
<1>2. CASE UNCHANGED <<tableVars, staged>>
  BY <1>1, <1>2, TableStutter DEF tableVars
<1>3. CASE ~(UNCHANGED <<tableVars, staged>>)
  <2> DEFINE fd == clients[i].sock
  <2>1. /\ i \in Active /\ fd \in Fd /\ queue[fd] # <<>>
        /\ queue' = [queue EXCEPT ![fd] = Tail(@)]
        /\ Active' = Active
        /\ \A s \in Active : /\ clients'[s].node = clients[s].node
                            /\ clients'[s].sock = clients[s].sock
    BY <1>3, DrainReads
  <2>2. UsedBy(clients') = UsedBy(clients) /\ fd \in UsedBy(clients)
    BY <2>1, SockType DEF UsedBy, Active
  <2>3. \A g \in Fd : queue'[g] = IF g = fd THEN Tail(queue[g]) ELSE queue[g]
    BY <2>1 DEF TypeInv, TypeOK, TableType
  <2>4. SocketsMatchTable'
    BY <2>1, <2>2, <2>3 DEF TableInv, SocketsMatchTable
  <2>5. ASSUME NEW s \in Active, NEW k \in DOMAIN Waiting(s)'
        PROVE  \E j \in DOMAIN Waiting(s) : Waiting(s)'[k] = Waiting(s)[j]
    <3>1. clients'[s].sock = clients[s].sock /\ clients[s].sock \in Fd
      BY <2>1, SockType DEF Waiting
    <3>2. CASE clients[s].sock # fd
      BY <2>3, <3>1, <3>2 DEF Waiting
    <3>3. CASE clients[s].sock = fd
      <4> DEFINE q == queue[fd]
      <4>1. Waiting(s) = q /\ Waiting(s)' = Tail(q) /\ q \in Seq(Datagram) /\ q # <<>>
        BY <2>1, <2>3, <3>1, <3>3, SockType DEF Waiting, TypeInv, TypeOK, TableType
      <4> HIDE DEF q
      <4>2. k + 1 \in DOMAIN q /\ Tail(q)[k] = q[k + 1]
        BY <4>1
      <4> QED BY <4>1, <4>2
    <3> QED BY <3>2, <3>3
  <2>6. SessionsCut'
    BY <1>1, <2>1, <2>5, CutCarries DEF TableInv
  <2> QED BY <2>4, <2>6 DEF TableInv
<1> QED BY <1>2, <1>3

(* A datagram from Paho carries the port and the session of the socket's   *)
(* client.                                                                 *)
LEMMA PahoSendsTable ==
  ASSUME TypeInv, TableInv, NEW s \in Slot, PahoSends(s)
  PROVE  TableInv'
<1>1. clients' = clients /\ toPaho' = toPaho /\ UNCHANGED <<mainPc, mainSlot, mainUp>>
  BY DEF PahoSends, mainVars
<1>2. CASE UNCHANGED queue
  BY <1>1, <1>2, TableStutter
<1>3. CASE /\ s \in Active /\ clients[s].sock # None
           /\ \E size \in count.limit.size :
                queue' = [queue EXCEPT ![clients[s].sock] =
                  Append(@, [port |-> s, session |-> Sessions(s), size |-> size])]
  <2>1. PICK size \in count.limit.size :
             queue' = [queue EXCEPT ![clients[s].sock] =
               Append(@, [port |-> s, session |-> Sessions(s), size |-> size])]
    BY <1>3
  <2> DEFINE dg == [port |-> s, session |-> Sessions(s), size |-> size]
             fd == clients[s].sock
  <2>2. s \in Active /\ fd \in Fd /\ fd \in UsedBy(clients)
    BY <1>3, SockType DEF Active, UsedBy
  <2>3. \A g \in Fd : queue'[g] = IF g = fd THEN Append(queue[g], dg) ELSE queue[g]
    BY <2>1, <2>2 DEF TypeInv, TypeOK, TableType
  <2>4. Active' = Active /\ UsedBy(clients') = UsedBy(clients)
    BY <1>1 DEF Active
  <2>5. SocketsMatchTable'
    BY <1>1, <2>2, <2>3, <2>4 DEF TableInv, SocketsMatchTable
  <2>6. Sessions(s) \in Nat /\ dg.port = s /\ dg.session = Sessions(s)
    BY SessionsType DEF TypeInv, TypeOK, PahoType
  <2> HIDE DEF dg
  <2>7. ASSUME NEW u \in Active, NEW k \in DOMAIN Waiting(u)'
        PROVE  \/ u = s /\ Waiting(u)'[k] = dg
               \/ k \in DOMAIN Waiting(u) /\ Waiting(u)'[k] = Waiting(u)[k]
    <3>1. clients[u].sock \in Fd /\ Waiting(u) = queue[clients[u].sock]
          /\ Waiting(u)' = queue'[clients[u].sock]
      BY <1>1, SockType DEF Waiting
    <3>2. CASE clients[u].sock # fd
      BY <2>3, <3>1, <3>2
    <3>3. CASE clients[u].sock = fd
      <4> DEFINE q == queue[fd]
      <4>1. u = s
        BY <2>2, <3>3 DEF TableInv, SocketsMatchTable
      <4>2. Waiting(u) = q /\ Waiting(u)' = Append(q, dg) /\ q \in Seq(Datagram)
        BY <2>2, <2>3, <3>1, <3>3 DEF TypeInv, TypeOK, TableType
      <4> HIDE DEF q
      <4>3. /\ DOMAIN q = 1 .. Len(q) /\ Len(q) \in Nat
            /\ DOMAIN Append(q, dg) = 1 .. Len(q) + 1
            /\ \A m \in 1 .. Len(q) : Append(q, dg)[m] = q[m]
            /\ Append(q, dg)[Len(q) + 1] = dg
        BY <4>2, AppendAny
      <4> QED BY <4>1, <4>2, <4>3
    <3> QED BY <3>2, <3>3
  <2>8. SessionsCut'
    <3> SUFFICES ASSUME NEW u \in Active, NEW k \in DOMAIN Waiting(u)'
                 PROVE  LET d == Waiting(u)'[k] IN
                          /\ d.port = u /\ d.session + 1 >= Sessions(u)
                          /\ mainPc = "send" /\ u = mainSlot /\ mainUp.connect
                               => d.session >= Sessions(u)
      BY <1>1, <2>4 DEF SessionsCut, Sessions
    <3>1. CASE u = s /\ Waiting(u)'[k] = dg
      BY <2>6, <3>1
    <3>2. CASE k \in DOMAIN Waiting(u) /\ Waiting(u)'[k] = Waiting(u)[k]
      BY <3>2 DEF TableInv, SessionsCut
    <3> QED BY <2>7, <3>1, <3>2
  <2> QED BY <2>5, <2>8 DEF TableInv
<1> QED BY <1>2, <1>3 DEF PahoSends

(* The end of the bridge empties every socket.                             *)
LEMMA JoinTable == ASSUME TypeInv, TableInv, MainJoin PROVE TableInv'
<1>1. /\ clients' = clients /\ toPaho' = toPaho /\ mainPc' = "done"
      /\ queue' = [fd \in Fd |-> <<>>]
  BY DEF MainJoin, MainGoto, pahoVars
<1>2. Active' = Active /\ UsedBy(clients') = UsedBy(clients)
  BY <1>1 DEF Active
<1>3. SocketsMatchTable'
  BY <1>1, <1>2 DEF TableInv, SocketsMatchTable
<1>4. \A s \in Active' : Waiting(s)' = <<>>
  BY <1>1, <1>2, SockType DEF Waiting
<1>5. SessionsCut'
  BY <1>1, <1>4, CutCarries DEF TableInv
<1> QED BY <1>3, <1>5 DEF TableInv

(* At the start no slot is in use and no socket is bound.                  *)
LEMMA TableInit == Init => TableInv
<1> SUFFICES ASSUME Init PROVE TableInv
  OBVIOUS
<1>1. Active = {}
  BY DEF Init, Active
<1> QED BY <1>1 DEF Init, TableInv, SocketsMatchTable, SessionsCut

(* The actions of Next that do not touch the table, and those that do.     *)
LEMMA TableStep == ASSUME TypeInv, TableInv, [Next]_vars PROVE TableInv'
<1>1. CASE UNCHANGED vars
  BY <1>1, TableStutter DEF vars, mainVars, tableVars, pahoVars
<1>2. CASE MainPoll \/ MainLock \/ MainFlag \/ MainStatus \/ MainClear \/ MainReceive
           \/ MainRearm
  BY <1>2, TableStutter
     DEF MainPoll, MainLock, MainFlag, MainStatus, MainClear, MainReceive, MainRearm,
         MainGoto, tableVars, pahoVars
<1>3. CASE DownCollect \/ DownSelect \/ DownDrainLock \/ DownDrainUnlock \/ DownLock
           \/ DownFlag \/ DownStart \/ DownWait \/ DownStatus \/ DownClear \/ DownSent
           \/ DownListen \/ DownUnlock
  BY <1>3, TableStutter
     DEF DownCollect, DownSelect, DownDrainLock, DownDrainUnlock, DownLock, DownFlag,
         DownStart, DownWait, DownStatus, DownClear, DownSent, DownListen, DownUnlock,
         NotDown, mainVars, tableVars, pahoVars
<1>4. CASE Isr \/ TxDone \/ HearUplink \/ HearNoise \/ Stop
  BY <1>4, TableStutter
     DEF Isr, TxDone, HearUplink, HearNoise, Hear, Stop, mainVars, tableVars, pahoVars
<1>5. CASE \E s \in Slot : PahoPublishes(s) \/ PahoAnswers(s)
  BY <1>5, PahoSendsTable DEF PahoPublishes, PahoAnswers
<1> QED
  BY <1>1, <1>2, <1>3, <1>4, <1>5, ExpireTable, ForwardTable, BindKeepsTable, SendTable,
     JoinTable, DrainTable DEF Next, MainStep, DownStep

(* Every node has one slot and every slot a socket of its own, through all *)
(* creations, reopens and expiries.                                        *)
THEOREM SocketsAgree == Spec => []SocketsMatchTable
<1>1. TypeInv /\ TableInv => SocketsMatchTable
  BY DEF TableInv
<1> QED
  BY <1>1, BridgeTypeInit, BridgeTypeStep, TableInit, TableStep, PTL DEF Spec

(* What waits in a client's socket was sent to its port, before at most    *)
(* one CONNECT from there: Paho may still send to the reopened socket what *)
(* belongs to the session that ends, but nothing older.                    *)
THEOREM OldSessionsCut == Spec => []OldSessionsAreCut
<1>1. TypeInv /\ TableInv => OldSessionsAreCut
  BY DEF TableInv, SessionsCut, OldSessionsAreCut
<1> QED
  BY <1>1, BridgeTypeInit, BridgeTypeStep, TableInit, TableStep, PTL DEF Spec
------------------------------------------------------------------------------
(***************************************************************************)
(* The ports.  Until a client is expired, a slot once used stays with its  *)
(* node, so every uplink in Paho's history came from the port that still   *)
(* belongs to its sender.                                                  *)
(***************************************************************************)
PortsKept ==
  count.expired = 0 =>
    \A k \in 1 .. Len(toPaho) :
      /\ toPaho[k].port \in Active
      /\ clients[toPaho[k].port].node = toPaho[k].up.src

(* The slots of the table keep their nodes.                                *)
NodesKept ==
  \A s \in Active : s \in Active' /\ clients'[s].node = clients[s].node

LEMMA PortsCarry ==
  ASSUME PortsKept, toPaho' = toPaho,
         count'.expired = 0 => count.expired = 0 /\ NodesKept
  PROVE  PortsKept'
BY DEF PortsKept, NodesKept

(* expire_clients that expires nobody leaves the table as it was.          *)
LEMMA ExpireNobody ==
  ASSUME TypeInv, MainExpire, count'.expired = 0
  PROVE  /\ count.expired = 0 /\ clients' = clients
         /\ \A fd \in Fd : queue'[fd] = queue[fd]
<1>1. PICK idle \in SUBSET Active :
        /\ count' = [count EXCEPT !.expired = count.expired + Cardinality(idle)]
        /\ clients' = [s \in Slot |-> IF s \in idle THEN None ELSE clients[s]]
        /\ queue' = [fd \in Fd |->
             IF \E s \in idle : clients[s].sock = fd THEN <<>> ELSE queue[fd]]
  BY DEF MainExpire
<1>2. Cardinality(idle) \in Nat /\ (Cardinality(idle) = 0 => idle = {})
  <2>1. IsFiniteSet(Slot)
    BY FS_Interval, BridgeAssumption DEF Slot
  <2>2. idle \in SUBSET Slot
    BY DEF Active
  <2>3. IsFiniteSet(idle)
    BY <2>1, <2>2, FS_Subset
  <2> QED BY <2>3, FS_CardinalityType, FS_EmptySet
<1>3. count.expired \in Nat /\ count'.expired = count.expired + Cardinality(idle)
  BY <1>1 DEF TypeInv, TypeOK, PahoType
<1>4. count.expired = 0 /\ idle = {}
  BY <1>2, <1>3
<1> QED BY <1>1, <1>4 DEF TypeInv, TypeOK, TableType

LEMMA ExpirePorts == ASSUME TypeInv, PortsKept, MainExpire PROVE PortsKept'
<1>1. count'.expired = 0 => count.expired = 0 /\ NodesKept
  BY ExpireNobody DEF NodesKept, Active
<1>2. toPaho' = toPaho
  BY DEF MainExpire, pahoVars
<1> QED BY <1>1, <1>2, PortsCarry

(* An uplink goes out of the port of its sender.                           *)
LEMMA SendPorts == ASSUME TypeInv, PortsKept, MainSend PROVE PortsKept'
<1> DEFINE up == [port |-> mainSlot, up |-> mainUp]
<1>1. /\ mainSlot \in Slot /\ mainSlot \in Active /\ mainUp \in Traffic
      /\ clients[mainSlot].node = mainUp.src
  BY DEF MainSend, MainGoto, TypeInv, MainKnows, Active
<1>2. /\ toPaho \in Seq(Handed) /\ up \in Handed /\ toPaho' = Append(toPaho, up)
      /\ Len(toPaho) \in Nat
  BY <1>1 DEF MainSend, TypeInv, TypeOK, PahoType, Handed
<1>3. up.port = mainSlot /\ up.up = mainUp
  OBVIOUS
<1> HIDE DEF up
<1>4. /\ Len(toPaho') = Len(toPaho) + 1 /\ toPaho'[Len(toPaho) + 1] = up
      /\ \A k \in 1 .. Len(toPaho) : toPaho'[k] = toPaho[k]
  BY <1>2
<1>5. UNCHANGED <<clients, count>> /\ Active' = Active
  BY DEF MainSend, tableVars, NotMain, Active
<1> SUFFICES ASSUME count.expired = 0, NEW k \in 1 .. Len(toPaho) + 1
             PROVE  /\ toPaho'[k].port \in Active
                    /\ clients[toPaho'[k].port].node = toPaho'[k].up.src
  BY <1>4, <1>5 DEF PortsKept
<1>6. CASE k = Len(toPaho) + 1
  BY <1>1, <1>3, <1>4, <1>6
<1>7. CASE k \in 1 .. Len(toPaho)
  BY <1>4, <1>7 DEF PortsKept
<1> QED BY <1>2, <1>6, <1>7

(* A CONNECT reopens the entry of its own node.                            *)
LEMMA ForwardPorts == ASSUME TypeInv, PortsKept, MainForward PROVE PortsKept'
<1>1. count' = count /\ toPaho' = toPaho /\ mainUp \in Traffic
  BY ForwardCases DEF MainForward, NotMain, pahoVars
<1>2. CASE \E s \in Slot : Used(s)
  BY <1>1, <1>2, PortsCarry DEF Used, NodesKept, Active
<1>3. CASE \E s \in Slot : Written(s)
  <2>1. PICK s \in Slot : Written(s)
    BY <1>3
  <2>2. /\ clients'[s] = Entry /\ \A t \in Slot \ {s} : clients'[t] = clients[t]
        /\ Active' = Active \cup {s} /\ Active \subseteq Slot
    BY <1>1, <2>1, WrittenTable DEF Active
  <2>3. s \in Active => clients[s].node = mainUp.src
    BY <2>1 DEF Written
  <2>4. NodesKept
    BY <1>1, <2>2, <2>3, EntryType DEF NodesKept
  <2> QED BY <1>1, <2>4, PortsCarry
<1>4. CASE mainPc' = "rearm" /\ UNCHANGED <<clients, queue, mainSlot>>
  BY <1>1, <1>4, PortsCarry DEF NodesKept, Active
<1> QED BY <1>2, <1>3, <1>4, ForwardCases

(* bind changes only the client's socket.                                  *)
LEMMA BindPorts == ASSUME TypeInv, PortsKept, MainBind PROVE PortsKept'
<1>1. count' = count /\ toPaho' = toPaho
  BY DEF MainBind, NotMain, pahoVars
<1>2. Active \subseteq Slot
  BY DEF Active
<1>3. NodesKept
  BY <1>2, BindTable DEF NodesKept
<1> QED BY <1>1, <1>3, PortsCarry

(* recvfrom changes only the client's dn_seq.                              *)
LEMMA DrainPorts == ASSUME TypeInv, PortsKept, DownDrain PROVE PortsKept'
<1>1. count' = count /\ toPaho' = toPaho
  BY DEF DownDrain, NotDown, pahoVars
<1>2. CASE UNCHANGED <<tableVars, staged>>
  BY <1>1, <1>2, PortsCarry DEF tableVars, NodesKept, Active
<1>3. CASE ~(UNCHANGED <<tableVars, staged>>)
  <2>1. NodesKept
    BY <1>3, DrainReads DEF NodesKept
  <2> QED BY <1>1, <2>1, PortsCarry
<1> QED BY <1>2, <1>3

LEMMA PortsInit == Init => PortsKept
BY DEF Init, PortsKept

LEMMA PortsStep == ASSUME TypeInv, PortsKept, [Next]_vars PROVE PortsKept'
<1>1. ASSUME UNCHANGED <<clients, toPaho>>, count'.expired = count.expired PROVE PortsKept'
  BY <1>1, PortsCarry DEF NodesKept, Active
<1>2. CASE UNCHANGED vars
  BY <1>1, <1>2 DEF vars, tableVars, pahoVars
<1>3. CASE MainPoll \/ MainLock \/ MainFlag \/ MainStatus \/ MainClear \/ MainReceive
           \/ MainRearm \/ MainJoin
  BY <1>1, <1>3
     DEF MainPoll, MainLock, MainFlag, MainStatus, MainClear, MainReceive, MainRearm,
         MainJoin, NotMain, tableVars, pahoVars
<1>4. CASE DownCollect \/ DownSelect \/ DownDrainLock \/ DownDrainUnlock \/ DownLock
           \/ DownFlag \/ DownStart \/ DownWait \/ DownStatus \/ DownClear \/ DownSent
           \/ DownListen \/ DownUnlock
  BY <1>1, <1>4
     DEF DownCollect, DownSelect, DownDrainLock, DownDrainUnlock, DownLock, DownFlag,
         DownStart, DownWait, DownStatus, DownClear, DownSent, DownListen, DownUnlock,
         NotDown, tableVars, pahoVars
<1>5. CASE Isr \/ TxDone \/ HearUplink \/ HearNoise \/ Stop
  <2>1. UNCHANGED <<clients, toPaho>> /\ (count' = count
                                          \/ count' = [count EXCEPT !.heard = @ + 1])
    BY <1>5 DEF Isr, TxDone, HearUplink, HearNoise, Hear, Stop, tableVars, pahoVars
  <2>2. count'.expired = count.expired
    BY <2>1 DEF TypeInv, TypeOK, PahoType
  <2> QED BY <1>1, <2>1, <2>2
<1>6. CASE \E s \in Slot : PahoPublishes(s) \/ PahoAnswers(s)
  <2>1. UNCHANGED <<clients, toPaho>> /\ (count' = count
                                          \/ count' = [count EXCEPT !.published = @ + 1])
    BY <1>6 DEF PahoPublishes, PahoAnswers, PahoSends
  <2>2. count'.expired = count.expired
    BY <2>1 DEF TypeInv, TypeOK, PahoType
  <2> QED BY <1>1, <2>1, <2>2
<1> QED
  BY <1>2, <1>3, <1>4, <1>5, <1>6, ExpirePorts, ForwardPorts, BindPorts, SendPorts,
     DrainPorts DEF Next, MainStep, DownStep

(* Until a client is expired: an uplink reaches Paho from the port from    *)
(* which its node connected, through all reopens and a full table.         *)
THEOREM PublishesAsItselfHolds == Spec => []PublishesAsItself
<1>1. TypeInv /\ PortsKept => PublishesAsItself
  <2> SUFFICES ASSUME TypeInv, PortsKept, count.expired = 0,
                      NEW k \in DOMAIN toPaho, NEW j \in LastConnect(k, toPaho[k].port)
               PROVE  toPaho[j].up.src = toPaho[k].up.src
    BY DEF PublishesAsItself
  <2>1. DOMAIN toPaho = 1 .. Len(toPaho) /\ Len(toPaho) \in Nat
    BY DEF TypeInv, TypeOK, PahoType
  <2>2. j \in 1 .. Len(toPaho) /\ toPaho[j].port = toPaho[k].port
    BY <2>1 DEF LastConnect
  <2> QED BY <2>1, <2>2 DEF PortsKept
<1> QED
  BY <1>1, BridgeTypeInit, BridgeTypeStep, PortsInit, PortsStep, PTL DEF Spec
------------------------------------------------------------------------------
(***************************************************************************)
(* The drain loop.  Until a client is expired, the slots are taken in      *)
(* order and the socket of a slot has the number of the slot: bind gives   *)
(* the descriptor back that Close has freed.  So a descriptor that select  *)
(* has reported stays with its client, and it is empty only between the    *)
(* reopening of its socket and Paho's answer.                              *)
(***************************************************************************)
Numbered ==
  /\ \A s \in Active, t \in Slot : t < s => t \in Active
  /\ \A s \in Active : clients[s].sock \in {s, None}

AnswerComes(s) ==
  \/ queue[s] # <<>> \/ owed[s]
  \/ mainPc \in {"bind", "send"} /\ mainSlot = s /\ mainUp.connect

ToRead(s) == s \in rfds /\ (downPc = "drainLock" \/ (downPc = "drain" /\ i <= s))

Awaited ==
  /\ rfds \subseteq Active
  /\ mainPc = "bind" /\ mainSlot \in rfds => mainUp.connect
  /\ \A s \in Active : ToRead(s) => AnswerComes(s)

NumberInv == count.expired = 0 => Numbered
AwaitInv  == count.expired = 0 => Awaited

(* Only expire_clients counts an expired client.                           *)
LEMMA ExpiredBefore ==
  ASSUME TypeInv, [Next]_vars, count'.expired = 0
  PROVE  count.expired = 0
<1>1. CASE MainExpire
  BY <1>1, ExpireNobody
<1>2. CASE ~MainExpire
  <2>1. \/ count' = count
        \/ count' = [count EXCEPT !.heard = @ + 1]
        \/ count' = [count EXCEPT !.published = @ + 1]
    BY <1>2
       DEF Next, MainStep, MainPoll, MainLock, MainFlag, MainStatus, MainClear,
           MainReceive, MainForward, MainBind, MainSend, MainRearm, MainJoin, DownStep,
           DownCollect, DownSelect, DownDrainLock, DownDrain, DownDrainUnlock, DownLock,
           DownFlag, DownStart, DownWait, DownStatus, DownClear, DownSent, DownListen,
           DownUnlock, Isr, TxDone, HearUplink, HearNoise, Hear, Stop, PahoPublishes,
           PahoAnswers, NotMain, vars
  <2> QED BY <2>1 DEF TypeInv, TypeOK, PahoType
<1> QED BY <1>1, <1>2

(* Which clients there are, and their sockets.                             *)
SocketsKept == Active' = Active /\ \A s \in Active : clients'[s].sock = clients[s].sock

LEMMA NumbersCarry == ASSUME Numbered, SocketsKept PROVE Numbered'
BY DEF Numbered, SocketsKept

(* A new client takes the first free slot.                                 *)
LEMMA ForwardNumbers == ASSUME TypeInv, Numbered, MainForward PROVE Numbered'
<1>1. CASE \/ \E s \in Slot : Used(s)
           \/ mainPc' = "rearm" /\ UNCHANGED <<clients, queue, mainSlot>>
  BY <1>1, NumbersCarry DEF Used, SocketsKept, Active
<1>2. CASE \E s \in Slot : Written(s)
  <2>1. PICK s \in Slot : Written(s)
    BY <1>2
  <2>2. /\ clients'[s] = Entry /\ \A t \in Slot \ {s} : clients'[t] = clients[t]
        /\ Active' = Active \cup {s} /\ Active \subseteq Slot /\ Entry.sock = None
    BY <2>1, WrittenTable, ForwardCases, EntryType DEF Active
  <2>3. \A t \in Slot : t < s => t \in Active
    BY <2>1 DEF Written, Numbered
  <2> QED BY <2>2, <2>3 DEF Numbered
<1> QED BY <1>1, <1>2, ForwardCases

(* The lowest free descriptor has the number of main's slot.               *)
LEMMA BindNumbers == ASSUME TypeInv, Numbered, MainBind PROVE Numbered'
<1> DEFINE fd == clients'[mainSlot].sock
<1>1. /\ mainSlot \in Active /\ mainSlot \in Slot /\ mainPc = "bind"
      /\ clients[mainSlot].sock = None
      /\ \A t \in Slot \ {mainSlot} : clients'[t] = clients[t]
      /\ fd \in Fd \ UsedBy(clients) /\ \A g \in Fd \ UsedBy(clients) : fd <= g
      /\ Active' = Active /\ Active \subseteq Slot
  BY BindTable DEF Active
<1> HIDE DEF fd
<1>2. \A t \in Active \ {mainSlot} : clients[t].sock = t
  BY <1>1 DEF Numbered, TypeInv, MainKnows
<1>3. UsedBy(clients) = Active \ {mainSlot}
  <2>1. \A t \in Slot : t # None
    BY NoneAssumption
  <2>2. UsedBy(clients) = {clients[t].sock : t \in Active} \ {None}
    BY DEF UsedBy, Active
  <2> QED BY <1>1, <1>2, <2>1, <2>2
<1>4. fd = mainSlot
  <2>1. fd \in Slot /\ fd <= mainSlot
    BY <1>1, <1>3 DEF Fd, Slot
  <2>2. fd < mainSlot => fd \in Active
    BY <1>1, <2>1 DEF Numbered
  <2>3. fd \in Nat /\ mainSlot \in Nat
    BY <1>1, <2>1 DEF Slot
  <2> QED BY <1>1, <1>3, <2>1, <2>2, <2>3
<1> QED BY <1>1, <1>2, <1>4 DEF Numbered, fd

(* Between two expiries the table only grows, in order.                    *)
LEMMA NumberStep == ASSUME TypeInv, NumberInv, [Next]_vars PROVE NumberInv'
<1> SUFFICES ASSUME count'.expired = 0, Numbered PROVE Numbered'
  BY ExpiredBefore DEF NumberInv
<1>1. CASE UNCHANGED clients
  BY <1>1, NumbersCarry DEF SocketsKept, Active
<1>2. CASE MainExpire
  BY <1>1, <1>2, ExpireNobody
<1>3. CASE DownDrain
  BY <1>1, <1>3, DrainReads, NumbersCarry DEF SocketsKept, tableVars
<1>4. MainExpire \/ MainForward \/ MainBind \/ DownDrain \/ UNCHANGED clients
  BY DEF Next, MainStep, MainPoll, MainLock, MainFlag, MainStatus, MainClear,
         MainReceive, MainSend, MainRearm, MainJoin, DownStep,
         DownCollect, DownSelect, DownDrainLock, DownDrainUnlock, DownLock,
         DownFlag, DownStart, DownWait, DownStatus, DownClear, DownSent, DownListen,
         DownUnlock, Isr, TxDone, HearUplink, HearNoise, Hear, Stop, PahoPublishes,
         PahoAnswers, PahoSends, tableVars, vars
<1> QED BY <1>1, <1>2, <1>3, <1>4, ForwardNumbers, BindNumbers

(* A step that leaves the downstream thread where it is, and takes nothing *)
(* from a socket that it is to read.                                       *)
LEMMA AwaitedCarries ==
  ASSUME Awaited, Active \subseteq Active', rfds' = rfds,
         mainPc' = "bind" /\ mainSlot' \in rfds => mainUp'.connect,
         \A s \in Active : ToRead(s)' => ToRead(s),
         \A s \in Active : ToRead(s) /\ AnswerComes(s) => AnswerComes(s)'
  PROVE  Awaited'
<1>1. \A s \in Active' : ToRead(s)' => s \in Active
  BY DEF Awaited, ToRead
<1> QED BY <1>1 DEF Awaited

(* The closed socket is the one of a CONNECT; a new slot is not awaited.   *)
LEMMA ForwardAwaited == ASSUME TypeInv, Numbered, Awaited, MainForward PROVE Awaited'
<1>1. /\ mainPc = "forward" /\ mainUp \in Traffic
      /\ UNCHANGED <<rfds, downPc, i, owed>>
  BY ForwardCases DEF MainForward, NotMain, downVars, pahoVars
<1>2. \A s \in Active : ToRead(s)' => ToRead(s)
  BY <1>1 DEF ToRead
<1>3. CASE \/ \E s \in Slot : Used(s)
           \/ mainPc' = "rearm" /\ UNCHANGED <<clients, queue, mainSlot>>
  BY <1>1, <1>2, <1>3, AwaitedCarries DEF Used, Active, AnswerComes
<1>4. CASE \E s \in Slot : Written(s)
  <2>1. PICK s \in Slot : Written(s)
    BY <1>4
  <2>2. /\ Active' = Active \cup {s}
        /\ mainPc' = "bind" /\ mainSlot' = s /\ mainUp' = mainUp
    BY <1>1, <2>1, WrittenTable DEF Written
  <2>3. s \in rfds => mainUp.connect
    BY <2>1 DEF Written, Awaited
  <2>4. ASSUME NEW t \in Active, AnswerComes(t) PROVE AnswerComes(t)'
    <3>1. CASE t = s /\ mainUp.connect
      BY <2>2, <3>1 DEF AnswerComes
    <3>2. CASE ~(t = s /\ mainUp.connect)
      <4>1. queue'[t] = queue[t]
        BY <2>1, <3>2, SockType DEF Written, Numbered, TypeInv, TypeOK, TableType, Active,
                                   Fd, Slot
      <4> QED BY <1>1, <2>4, <4>1 DEF AnswerComes
    <3> QED BY <3>1, <3>2
  <2> QED BY <1>1, <1>2, <2>2, <2>3, <2>4, AwaitedCarries
<1> QED BY <1>3, <1>4, ForwardCases

(* The reopened socket waits for Paho: before the CONNECT, then after it.  *)
LEMMA ReopenAwaited == ASSUME TypeInv, Awaited, MainBind \/ MainSend PROVE Awaited'
<1>1. UNCHANGED <<rfds, downPc, i, queue>> /\ mainPc' # "bind"
  BY DEF MainBind, MainSend, MainGoto, NotMain, downVars, tableVars
<1>2. Active' = Active
  BY BindTable DEF MainSend, tableVars, Active
<1>3. \A s \in Active : ToRead(s)' => ToRead(s)
  BY <1>1 DEF ToRead
<1>4. ASSUME NEW s \in Active, AnswerComes(s) PROVE AnswerComes(s)'
  <2>1. CASE MainBind
    BY <1>1, <1>4, <2>1 DEF MainBind, MainGoto, MainKeeps, pahoVars, AnswerComes
  <2>2. CASE MainSend
    <3>1. mainPc = "send" /\ owed' = [owed EXCEPT ![mainSlot] = @ \/ mainUp.connect]
      BY <2>2 DEF MainSend, MainGoto
    <3>2. s \in Slot /\ owed \in [Slot -> BOOLEAN]
      BY DEF Active, TypeInv, TypeOK, PahoType
    <3>3. owed[s] => owed'[s]
      BY <3>1, <3>2
    <3>4. s = mainSlot /\ mainUp.connect => owed'[s]
      BY <3>1, <3>2
    <3> QED BY <1>1, <1>4, <3>1, <3>3, <3>4 DEF AnswerComes
  <2> QED BY <2>1, <2>2
<1> QED BY <1>1, <1>2, <1>3, <1>4, AwaitedCarries

(* What Paho sends arrives; its answer to a CONNECT is one datagram.       *)
LEMMA PahoAwaited ==
  ASSUME TypeInv, Numbered, Awaited, NEW s \in Slot, PahoPublishes(s) \/ PahoAnswers(s)
  PROVE  Awaited'
<1>1. /\ UNCHANGED <<rfds, downPc, i, clients, mainPc, mainSlot, mainUp>> /\ PahoSends(s)
      /\ Active' = Active
  BY DEF PahoPublishes, PahoAnswers, PahoSends, mainVars, downVars, Active
<1>2. \A t \in Active : ToRead(t)' => ToRead(t)
  BY <1>1 DEF ToRead
<1>3. queue \in [Fd -> Seq(Datagram)] /\ owed \in [Slot -> BOOLEAN] /\ Fd = Slot
  BY DEF TypeInv, TypeOK, TableType, PahoType, Fd, Slot
<1>4. CASE s \in Active /\ clients[s].sock # None
  <2>1. clients[s].sock = s
    BY <1>4 DEF Numbered
  <2>2. PICK size \in count.limit.size :
          queue' = [queue EXCEPT ![s] =
                      Append(queue[s], [port |-> s, session |-> Sessions(s), size |-> size])]
    BY <1>1, <1>4, <2>1 DEF PahoSends
  <2> DEFINE dg == [port |-> s, session |-> Sessions(s), size |-> size]
  <2>3. queue'[s] = Append(queue[s], dg) /\ \A t \in Slot \ {s} : queue'[t] = queue[t]
    BY <1>3, <2>2
  <2> HIDE DEF dg
  <2>4. queue'[s] # <<>>
    <3>1. Len(queue[s]) \in Nat /\ DOMAIN queue'[s] = 1 .. Len(queue[s]) + 1
      BY <1>3, <2>3, AppendAny
    <3> QED BY <3>1
  <2>5. \A t \in Slot \ {s} : owed'[t] = owed[t]
    BY <1>3 DEF PahoPublishes, PahoAnswers
  <2>6. \A t \in Active : AnswerComes(t) => AnswerComes(t)'
    BY <1>1, <2>3, <2>4, <2>5 DEF AnswerComes, Active
  <2> QED BY <1>1, <1>2, <2>6, AwaitedCarries DEF Awaited
<1>5. CASE ~(s \in Active /\ clients[s].sock # None)
  <2>1. queue' = queue /\ \A t \in Slot \ {s} : owed'[t] = owed[t]
    BY <1>1, <1>3, <1>5 DEF PahoSends, PahoPublishes, PahoAnswers
  <2>2. s \in Active => mainPc = "bind" /\ mainSlot = s
    BY <1>5 DEF TypeInv, MainKnows
  <2>3. \A t \in Active : ToRead(t) /\ AnswerComes(t) => AnswerComes(t)'
    BY <1>1, <2>1, <2>2 DEF AnswerComes, Awaited, ToRead, Active
  <2> QED BY <1>1, <1>2, <2>3, AwaitedCarries DEF Awaited
<1> QED BY <1>4, <1>5

(* What the downstream thread waits for are sockets of the table, and      *)
(* select reports those that have something to read.                       *)
LEMMA SelectAwaited ==
  ASSUME TypeInv, LocksHeld, Numbered, Awaited, DownCollect \/ DownSelect
  PROVE  Awaited'
<1>1. UNCHANGED <<clients, queue, owed, mainPc, mainSlot, mainUp>> /\ Active' = Active
  BY DEF DownCollect, DownSelect, NotDown, mainVars, tableVars, pahoVars, Active
<1>2. CASE DownCollect
  <2>1. rfds' = UsedBy(clients) /\ UsedBy(clients) \subseteq Active
    BY <1>2 DEF DownCollect, UsedBy, Numbered, Active
  <2>2. downPc' \notin {"drainLock", "drain"}
    BY <1>2 DEF DownCollect, DownGoto
  <2>3. mainPc # "bind"
    BY <1>2, NoneAssumption DEF DownCollect, LocksHeld
  <2> QED BY <1>1, <2>1, <2>2, <2>3 DEF Awaited, ToRead
<1>3. CASE DownSelect
  <2>1. \/ rfds' = Ready /\ downPc' = "drainLock"
        \/ rfds' = rfds /\ downPc' = "collect"
    BY <1>3 DEF DownSelect, DownGoto
  <2>2. Ready \subseteq rfds /\ \A s \in Ready : queue[s] # <<>>
    BY DEF Ready
  <2> QED BY <1>1, <2>1, <2>2 DEF Awaited, ToRead, AnswerComes
<1> QED BY <1>2, <1>3

(* The loop reads a slot's own socket, and goes on to the next slot.       *)
LEMMA DrainAwaited ==
  ASSUME TypeInv, Numbered, Awaited, DownDrainLock \/ DownDrain
  PROVE  Awaited'
<1>1. /\ UNCHANGED <<rfds, owed, mainPc, mainSlot, mainUp>>
      /\ \A s \in Active : s \in Nat \ {0}
  BY DEF DownDrainLock, DownDrain, NotDown, mainVars, pahoVars, Active, Slot
<1>2. CASE DownDrainLock
  <2>1. downPc = "drainLock" /\ UNCHANGED <<clients, queue>> /\ Active' = Active
    BY <1>2 DEF DownDrainLock, DownGoto, tableVars, Active
  <2>2. \A s \in Active : ToRead(s)' => ToRead(s)
    BY <1>1, <2>1 DEF ToRead
  <2> QED BY <1>1, <2>1, <2>2, AwaitedCarries DEF AnswerComes, Awaited
<1>3. CASE DownDrain
  <2>1. downPc = "drain" /\ downPc' = "drain" /\ i' = i + 1 /\ i \in Nat
    BY <1>3 DEF DownDrain, TypeInv, TypeOK, DownType
  <2>2. Active' = Active /\ \A s \in Slot : s # i => queue'[s] = queue[s]
    <3>1. CASE UNCHANGED <<tableVars, staged>>
      BY <3>1 DEF tableVars, Active
    <3>2. CASE ~(UNCHANGED <<tableVars, staged>>)
      <4>1. /\ i \in Active /\ clients[i].sock \in Fd /\ Active' = Active
            /\ queue' = [queue EXCEPT ![clients[i].sock] = Tail(@)]
        BY <1>3, <3>2, DrainReads
      <4>2. clients[i].sock = i
        BY <4>1, NoneAssumption DEF Numbered, Fd, Slot
      <4> QED BY <4>1, <4>2 DEF TypeInv, TypeOK, TableType, Fd, Slot
    <3> QED BY <3>1, <3>2
  <2>3. \A s \in Active : ToRead(s)' => ToRead(s) /\ s # i
    BY <1>1, <2>1 DEF ToRead
  <2>4. ASSUME NEW s \in Active, ToRead(s)' PROVE AnswerComes(s)'
    <3>1. AnswerComes(s) /\ queue'[s] = queue[s]
      BY <2>2, <2>3, <2>4 DEF Awaited, Active
    <3> QED BY <1>1, <3>1 DEF AnswerComes
  <2> QED BY <1>1, <2>2, <2>4 DEF Awaited
<1> QED BY <1>2, <1>3

(* The other steps: main is not at the table, the downstream thread does   *)
(* not read.                                                               *)
LEMMA AwaitStep ==
  ASSUME TypeInv, LocksHeld, NumberInv, AwaitInv, [Next]_vars
  PROVE  AwaitInv'
<1> SUFFICES ASSUME count'.expired = 0, Numbered, Awaited PROVE Awaited'
  BY ExpiredBefore DEF NumberInv, AwaitInv
<1>1. ASSUME UNCHANGED <<rfds, clients, owed>>,
             \A fd \in Fd : queue'[fd] = queue[fd],
             \/ UNCHANGED <<mainPc, mainSlot, mainUp>>
             \/ {mainPc, mainPc'} \cap {"bind", "send"} = {},
             UNCHANGED <<downPc, i>> \/ downPc' \notin {"drainLock", "drain"}
      PROVE  Awaited'
  <2>1. Active' = Active /\ \A s \in Active : s \in Fd
    BY <1>1 DEF Active, Fd, Slot
  <2>2. \A s \in Active : ToRead(s)' => ToRead(s)
    BY <1>1 DEF ToRead
  <2>3. \A s \in Active : AnswerComes(s) => AnswerComes(s)'
    BY <1>1, <2>1 DEF AnswerComes
  <2>4. mainPc' = "bind" /\ mainSlot' \in rfds => mainUp'.connect
    BY <1>1 DEF Awaited
  <2> QED BY <1>1, <2>1, <2>2, <2>3, <2>4, AwaitedCarries
<1>2. CASE MainExpire
  <2>1. UNCHANGED <<rfds, owed, downPc, i>> /\ mainPc = "heartbeat" /\ mainPc' = "poll"
    BY <1>2 DEF MainExpire, MainGoto, downVars, pahoVars
  <2> QED BY <1>1, <1>2, <2>1, ExpireNobody
<1>3. CASE MainPoll \/ MainLock \/ MainFlag \/ MainStatus \/ MainClear \/ MainReceive
           \/ MainRearm
  <2>1. UNCHANGED <<rfds, clients, owed, queue, downPc, i>>
    BY <1>3 DEF MainPoll, MainLock, MainFlag, MainStatus, MainClear, MainReceive,
                MainRearm, NotMain, downVars, tableVars, pahoVars
  <2>2. mainPc \notin {"bind", "send"} /\ mainPc' \notin {"bind", "send"}
    BY <1>3 DEF MainPoll, MainLock, MainFlag, MainStatus, MainClear, MainReceive,
                MainRearm, MainGoto
  <2> QED BY <1>1, <2>1, <2>2
<1>4. CASE MainJoin
  <2>1. /\ UNCHANGED <<rfds, clients, downPc>> /\ downPc = "exit" /\ mainPc' = "done"
        /\ Active' = Active
    BY <1>4 DEF MainJoin, MainGoto, NotMain, downVars, Active
  <2> QED BY <2>1 DEF Awaited, ToRead
<1>5. CASE DownDrainUnlock \/ DownLock \/ DownFlag \/ DownStart \/ DownWait \/ DownStatus
           \/ DownClear \/ DownSent \/ DownListen \/ DownUnlock
  <2>1. UNCHANGED <<rfds, clients, owed, queue, mainPc, mainSlot, mainUp>>
    BY <1>5 DEF DownDrainUnlock, DownLock, DownFlag, DownStart, DownWait, DownStatus,
                DownClear, DownSent, DownListen, DownUnlock, NotDown, mainVars,
                tableVars, pahoVars
  <2>2. downPc' \notin {"drainLock", "drain"}
    BY <1>5 DEF DownDrainUnlock, DownLock, DownFlag, DownStart, DownWait, DownStatus,
                DownClear, DownSent, DownListen, DownUnlock, DownGoto
  <2> QED BY <1>1, <2>1, <2>2
<1>6. CASE Isr \/ TxDone \/ HearUplink \/ HearNoise \/ Stop \/ UNCHANGED vars
  BY <1>1, <1>6 DEF Isr, TxDone, HearUplink, HearNoise, Hear, Stop, vars, mainVars,
                    downVars, tableVars, pahoVars
<1>7. CASE \E s \in Slot : PahoPublishes(s) \/ PahoAnswers(s)
  BY <1>7, PahoAwaited
<1> QED
  BY <1>2, <1>3, <1>4, <1>5, <1>6, <1>7, ForwardAwaited, ReopenAwaited, SelectAwaited,
     DrainAwaited DEF Next, MainStep, DownStep

(* At the start there is no client to wait for.                            *)
LEMMA AwaitInit == Init => NumberInv /\ AwaitInv
<1> SUFFICES ASSUME Init PROVE Numbered /\ Awaited
  BY DEF NumberInv, AwaitInv
<1>1. Active = {}
  BY DEF Init, Active
<1> QED BY <1>1 DEF Init, Numbered, Awaited

(* Until a client is expired, recvfrom blocks under clients_lock only for  *)
(* the time that Paho needs to answer a CONNECT.                           *)
THEOREM BlocksForAnswer == Spec => []BlocksForAnswerOnly
<1>1. TypeInv /\ LocksHeld /\ NumberInv /\ AwaitInv => BlocksForAnswerOnly
  <2> SUFFICES ASSUME TypeInv, LocksHeld, Numbered, Awaited, ReadBlocks PROVE owed[i]
    BY DEF BlocksForAnswerOnly, NumberInv, AwaitInv
  <2>1. downPc = "drain" /\ i \in Active /\ clients[i].sock \in rfds
        /\ queue[clients[i].sock] = <<>> /\ i \in Nat
    BY DEF ReadBlocks, IsSet, TypeInv, TypeOK, DownType
  <2>2. clients[i].sock = i
    <3>1. clients[i].sock \in Slot
      BY <2>1 DEF Awaited, Active
    <3> QED BY <2>1, <3>1, NoneAssumption DEF Numbered
  <2>3. mainPc \notin {"bind", "send"}
    BY <2>1 DEF LocksHeld
  <2>4. ToRead(i)
    BY <2>1, <2>2 DEF ToRead
  <2> QED BY <2>1, <2>2, <2>3, <2>4 DEF Awaited, AnswerComes
<1> QED
  BY <1>1, BridgeTypeInit, BridgeTypeStep, LocksInit, LocksStep, AwaitInit, NumberStep,
     AwaitStep, PTL DEF Spec
==============================================================================

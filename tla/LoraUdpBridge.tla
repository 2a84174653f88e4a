----------------------------- MODULE LoraUdpBridge -----------------------------
(***************************************************************************)
(* The gateway's LoRa-UDP bridge (Waveshare1121-Gateway/main.c): the main  *)
(* thread, the downstream thread and the interrupt thread around the       *)
(* LR1121 radio, irq_flag, the client table and its UDP sockets, and the   *)
(* two locks.                                                              *)
(*                                                                         *)
(* Steps are cut at every access to state that another thread, the radio   *)
(* or Paho can change.  clients_lock keeps the downstream thread from the  *)
(* client table, but not Paho from the sockets: in between the close of a  *)
(* socket, the bind of the next and sendto, Paho may send.                 *)
(*                                                                         *)
(* Not here: the pacing of downlinks (a delay before the radio is locked)  *)
(* and statistics.  unread, toPaho and a datagram's port and session are   *)
(* history that no guard of the code reads.                                *)
(***************************************************************************)
EXTENDS Integers, Sequences, FiniteSets, DedupRing

CONSTANTS
  Src,         \* nodes heard by the gateway
  Traffic,     \* the frames they send
  MaxClients,  \* MAX_CLIENTS
  SeqMod,      \* 256: dn_seq is a uint8_t
  GwRingSize,  \* GW_DEDUP_SIZE
  Limits,      \* bounds: what may happen, one of these per behaviour
  Garbage,     \* what the radio holds instead of a frame it could not check
  None

Noise == {"crc", "header"}  \* interrupts of receptions that failed
Size  == {"fits", "big"}    \* of Paho's datagrams: big ones exceed a LoRa frame

(* The frames, failed receptions and sizes that occur, whether a signal    *)
(* comes, how often the radio hears something, Paho sends beside its       *)
(* answers to CONNECTs, and a client expires.                              *)
Limit == [traffic : SUBSET Traffic, noise : SUBSET Noise, size : SUBSET Size,
          stop : BOOLEAN, heard : Nat, published : Nat, expired : Nat]

Slot == 1 .. MaxClients
Fd   == 1 .. MaxClients     \* the lowest free descriptor is always one of these

ASSUME BridgeAssumption ==
  /\ Traffic \subseteq [src : Src, seq : Nat, connect : BOOLEAN]
  /\ MaxClients \in Nat \ {0} /\ SeqMod \in Nat \ {0} /\ GwRingSize \in Nat \ {0}
  /\ Limits \subseteq Limit

Client   == [node : Src, sock : Fd \cup {None}, dnSeq : 0 .. SeqMod - 1]
Handed   == [port : Slot, up : Traffic]
Datagram == [port : Slot, session : Nat, size : Size]
Staged   == [dg : Datagram, node : Src, seq : 0 .. SeqMod - 1]
IrqBit   == {"rx", "tx", "crc", "header"}

ASSUME NoneAssumption ==
  /\ None \notin Client /\ None \notin Traffic /\ None \notin {"main", "down"}
  /\ None \notin Slot
  /\ Garbage \notin Traffic

VARIABLES
  mode,      \* the radio: "rx", "tx" or "standby"
  irq,       \* the radio's interrupt status; its line is high iff irq # {}
  edge,      \* a rising edge of the line that the interrupt thread has not seen
  frame,     \* the radio's receive buffer
  unread,    \* history: it holds an intact frame that main has not looked at
  irqFlag,   \* irq_flag
  radioLock, clientsLock,  \* None or the thread holding the lock
  running,
  mainPc, mainIrq, mainUp, mainSlot,  \* main: where it is, irq_regs, the decoded
                                      \* packet, the client found for it
  downPc, downIrq, rfds, i, staged,  \* downstream_thread: same, its locals
  clients,   \* [Slot -> Client or None]; sock is None while no socket is bound
  queue,     \* [Fd -> datagrams waiting in that socket]
  gwRing,    \* gw_dedup
  toPaho,    \* history: uplinks handed to Paho, with their port
  owed,      \* [Slot -> Paho has a CONNECT from this port to answer]
  count      \* [heard, published, expired]: events that happened; their limit

radioVars == <<mode, irq, edge, frame, unread>>
mainVars  == <<mainPc, mainIrq, mainUp, mainSlot>>
downVars  == <<downPc, downIrq, rfds, i, staged>>
tableVars == <<clients, queue>>
pahoVars  == <<toPaho, owed>>
vars == <<radioVars, irqFlag, radioLock, clientsLock, running, mainVars, downVars,
          tableVars, gwRing, pahoVars, count>>

Init ==
  /\ mode = "rx" /\ irq = {} /\ edge = FALSE /\ frame = Garbage /\ unread = FALSE
  /\ irqFlag = FALSE
  /\ radioLock = None /\ clientsLock = None
  /\ running = TRUE
  /\ mainPc = "poll" /\ mainIrq = {} /\ mainUp = None /\ mainSlot = None
  /\ downPc = "collect" /\ downIrq = {} /\ rfds = {} /\ i = 1 /\ staged = <<>>
  /\ clients = [s \in Slot |-> None]
  /\ queue = [fd \in Fd |-> <<>>]
  /\ gwRing = EmptyRing(GwRingSize)
  /\ toPaho = <<>> /\ owed = [s \in Slot |-> FALSE]
  /\ \E l \in Limits : count = [heard |-> 0, published |-> 0, expired |-> 0, limit |-> l]

Active == {s \in Slot : clients[s] # None}
Lowest(S) == CHOOSE x \in S : \A y \in S : x <= y

(***************************************************************************)
(* The radio and the interrupt thread.                                     *)
(***************************************************************************)

(* The radio raises interrupt bits; only a line that was low rises.        *)
Raise(bits) ==
  /\ irq' = irq \cup bits
  /\ edge' = (edge \/ irq = {})

(* A frame arrives while the radio listens, over the one not yet read.     *)
Hear(bits, f, waits) ==
  /\ mode = "rx"
  /\ count.heard < count.limit.heard
  /\ count' = [count EXCEPT !.heard = @ + 1]
  /\ frame' = f /\ unread' = waits
  /\ Raise(bits)
  /\ UNCHANGED <<mode, irqFlag, radioLock, clientsLock, running, mainVars, downVars,
                 tableVars, gwRing, pahoVars>>

HearUplink == \E u \in count.limit.traffic : Hear({"rx"}, u, TRUE)

HearNoise ==
  \/ "crc" \in count.limit.noise /\ Hear({"rx", "crc"}, Garbage, FALSE)
  \/ "header" \in count.limit.noise /\ Hear({"header"}, frame, unread)

TxDone ==
  /\ mode = "tx"
  /\ mode' = "standby"
  /\ Raise({"tx"})
  /\ UNCHANGED <<frame, unread, irqFlag, radioLock, clientsLock, running, mainVars, downVars,
                 tableVars, gwRing, pahoVars, count>>

(* wiringPi's thread calls isr for a rising edge of the line.              *)
Isr ==
  /\ edge
  /\ edge' = FALSE
  /\ irqFlag' = TRUE
  /\ UNCHANGED <<mode, irq, frame, unread, radioLock, clientsLock, running, mainVars, downVars,
                 tableVars, gwRing, pahoVars, count>>

(***************************************************************************)
(* The main thread.                                                        *)
(***************************************************************************)

MainGoto(from, to) == mainPc = from /\ mainPc' = to

NotMain == <<downVars, count, running>>
MainKeeps == <<mainIrq, mainUp, mainSlot>>

(* The loop: an interrupt to serve, else sleep and now and then a heartbeat. *)
MainPoll ==
  /\ \/ running /\ irqFlag /\ MainGoto("poll", "lock")
     \/ running /\ ~irqFlag /\ MainGoto("poll", "heartbeat")
     \/ ~running /\ MainGoto("poll", "join")
  /\ UNCHANGED <<radioVars, irqFlag, radioLock, clientsLock, MainKeeps,
                 tableVars, gwRing, pahoVars, NotMain>>

(* expire_clients: the sockets of idle clients are closed.                 *)
MainExpire ==
  /\ MainGoto("heartbeat", "poll")
  /\ clientsLock = None
  /\ \E idle \in SUBSET Active :
       /\ count.expired + Cardinality(idle) <= count.limit.expired
       /\ count' = [count EXCEPT !.expired = @ + Cardinality(idle)]
       /\ clients' = [s \in Slot |-> IF s \in idle THEN None ELSE clients[s]]
       /\ queue' = [fd \in Fd |->
                      IF \E s \in idle : clients[s].sock = fd THEN <<>> ELSE queue[fd]]
  /\ UNCHANGED <<radioVars, irqFlag, radioLock, clientsLock, running, MainKeeps,
                 downVars, gwRing, pahoVars>>

MainLock ==
  /\ MainGoto("lock", "flag")
  /\ radioLock = None
  /\ radioLock' = "main"
  /\ UNCHANGED <<radioVars, irqFlag, clientsLock, MainKeeps, tableVars, gwRing,
                 pahoVars, NotMain>>

(* irq_process clears the flag before it looks at the status.              *)
MainFlag ==
  /\ MainGoto("flag", "status")
  /\ irqFlag' = FALSE
  /\ UNCHANGED <<radioVars, radioLock, clientsLock, MainKeeps, tableVars, gwRing,
                 pahoVars, NotMain>>

(* lr11xx_system_get_and_clear_irq_status is a read and a clear of the     *)
(* bits that were read.                                                    *)
MainStatus ==
  /\ MainGoto("status", "clear")
  /\ mainIrq' = irq
  /\ UNCHANGED <<radioVars, irqFlag, radioLock, clientsLock, mainUp, mainSlot, tableVars,
                 gwRing, pahoVars, NotMain>>

MainClear ==
  /\ IF "rx" \in mainIrq /\ "crc" \notin mainIrq THEN MainGoto("clear", "receive")
                                                 ELSE MainGoto("clear", "rearm")
  /\ irq' = irq \ mainIrq
  /\ UNCHANGED <<mode, edge, frame, unread, irqFlag, radioLock, clientsLock, MainKeeps,
                 tableVars, gwRing, pahoVars, NotMain>>

(* on_rx_done up to the duplicate check.                                   *)
MainReceive ==
  /\ IF frame = Garbage
     THEN MainGoto("receive", "rearm") /\ UNCHANGED <<mainUp, gwRing>>
     ELSE LET k    == [src |-> frame.src, seq |-> frame.seq]
              ring == IF frame.connect THEN RingClear(GwRingSize, gwRing, frame.src)
                                       ELSE gwRing
          IN  IF RingSeen(GwRingSize, ring, k)
              THEN MainGoto("receive", "rearm") /\ UNCHANGED <<mainUp, gwRing>>
              ELSE /\ MainGoto("receive", "forward")
                   /\ mainUp' = frame
                   /\ gwRing' = RingAdd(GwRingSize, ring, k)
  /\ unread' = FALSE
  /\ UNCHANGED <<mode, irq, edge, frame, irqFlag, radioLock, clientsLock, mainIrq, mainSlot,
                 tableVars, pahoVars, NotMain>>

UsedBy(cl) == {cl[s].sock : s \in {x \in Slot : cl[x] # None}} \ {None}

(* A known node's CONNECT: its socket is closed, with what waits in it.    *)
CloseKeeps(s) ==      \* variant: what waits in the socket is kept
  /\ clients' = [clients EXCEPT ![s] = [node |-> mainUp.src, sock |-> None, dnSeq |-> 0]]
  /\ UNCHANGED queue

Close(s) ==
  /\ clients' = [clients EXCEPT ![s] = [node |-> mainUp.src, sock |-> None, dnSeq |-> 0]]
  /\ queue' = [queue EXCEPT ![clients[s].sock] = <<>>]

(* A new node takes the first free slot, and with it that slot's port.     *)
Create(s) ==
  /\ clients' = [clients EXCEPT ![s] = [node |-> mainUp.src, sock |-> None, dnSeq |-> 0]]
  /\ UNCHANGED queue

KnownNever(n) == {}     \* variant: the table is not searched first
KnownAnyone(n) == Active  \* variant: node_id is not compared

KnownAs(n) == {s \in Active : clients[s].node = n}

(* get_or_create_client up to the new socket, under clients_lock.          *)
MainForward ==
  /\ mainPc = "forward" /\ clientsLock = None
  /\ \/ \E s \in KnownAs(mainUp.src) :
          /\ IF mainUp.connect
             THEN mainPc' = "bind" /\ Close(s)
             ELSE mainPc' = "send" /\ UNCHANGED tableVars
          /\ mainSlot' = s /\ clientsLock' = "main" /\ UNCHANGED mainUp
     \/ /\ KnownAs(mainUp.src) = {} /\ Active # Slot
        /\ mainPc' = "bind"
        /\ Create(Lowest(Slot \ Active))
        /\ mainSlot' = Lowest(Slot \ Active) /\ clientsLock' = "main" /\ UNCHANGED mainUp
     \/ /\ KnownAs(mainUp.src) = {} /\ Active = Slot     \* table full
        /\ mainPc' = "rearm"
        /\ mainUp' = None
        /\ UNCHANGED <<tableVars, mainSlot, clientsLock>>
  /\ UNCHANGED <<radioVars, irqFlag, radioLock, mainIrq, gwRing, pahoVars, NotMain>>

(* socket and bind: from now on Paho reaches the port again.               *)
MainBind ==
  /\ MainGoto("bind", "send")
  /\ clients' = [clients EXCEPT ![mainSlot].sock = Lowest(Fd \ UsedBy(clients))]
  /\ UNCHANGED <<radioVars, irqFlag, radioLock, clientsLock, MainKeeps, queue, gwRing,
                 pahoVars, NotMain>>

(* sendto Paho, and the end of the critical section.                       *)
MainSend ==
  /\ MainGoto("send", "rearm")
  /\ toPaho' = Append(toPaho, [port |-> mainSlot, up |-> mainUp])
  /\ owed' = [owed EXCEPT ![mainSlot] = @ \/ mainUp.connect]
  /\ mainUp' = None /\ mainSlot' = None /\ clientsLock' = None
  /\ UNCHANGED <<radioVars, irqFlag, radioLock, mainIrq, tableVars, gwRing, NotMain>>


MainRearm ==
  /\ MainGoto("rearm", "poll")
  /\ mode' = "rx"
  /\ radioLock' = None
  /\ UNCHANGED <<irq, edge, frame, unread, irqFlag, clientsLock, MainKeeps, tableVars,
                 gwRing, pahoVars, NotMain>>

(* pthread_join, then the sockets are closed.                              *)
MainJoin ==
  /\ MainGoto("join", "done")
  /\ downPc = "exit"
  /\ mode' = "standby"
  /\ queue' = [fd \in Fd |-> <<>>]
  /\ UNCHANGED <<irq, edge, frame, unread, irqFlag, radioLock, clientsLock, MainKeeps,
                 clients, gwRing, pahoVars, NotMain>>

MainStep ==
  \/ MainPoll \/ MainExpire \/ MainLock \/ MainFlag \/ MainStatus \/ MainClear
  \/ MainReceive \/ MainForward \/ MainBind \/ MainSend \/ MainRearm \/ MainJoin

(***************************************************************************)
(* The downstream thread.                                                  *)
(***************************************************************************)

DownGoto(from, to) == downPc = from /\ downPc' = to

NotDown == <<running, mainVars, gwRing, pahoVars>>

(* The head of the loop: the sockets to wait for, read under clients_lock. *)
DownCollectAlways ==  \* variant: the loop does not look at running
  /\ clientsLock = None
  /\ IF Active # {} THEN DownGoto("collect", "select") ELSE DownGoto("collect", "collect")
  /\ rfds' = UsedBy(clients)
  /\ UNCHANGED <<radioVars, irqFlag, radioLock, clientsLock, downIrq, i, staged,
                 tableVars, count, NotDown>>

DownCollect ==
  /\ clientsLock = None
  /\ \/ ~running /\ DownGoto("collect", "exit")
     \/ running /\ Active # {} /\ DownGoto("collect", "select")
     \/ running /\ Active = {} /\ DownGoto("collect", "collect")
  /\ rfds' = UsedBy(clients)
  /\ UNCHANGED <<radioVars, irqFlag, radioLock, clientsLock, downIrq, i, staged,
                 tableVars, count, NotDown>>

Ready == {fd \in rfds \cap UsedBy(clients) : queue[fd] # <<>>}

(* select: some socket is readable, or the timeout, or EBADF because a     *)
(* socket of the set has been closed.                                      *)
DownSelect ==
  /\ \/ Ready # {} /\ rfds' = Ready /\ DownGoto("select", "drainLock")
     \/ /\ Ready = {} \/ ~(rfds \subseteq UsedBy(clients))
        /\ DownGoto("select", "collect")
        /\ UNCHANGED rfds
  /\ UNCHANGED <<radioVars, irqFlag, radioLock, clientsLock, downIrq, i, staged,
                 tableVars, count, NotDown>>

DownDrainLock ==
  /\ DownGoto("drainLock", "drain")
  /\ clientsLock = None
  /\ clientsLock' = "down"
  /\ i' = 1
  /\ UNCHANGED <<radioVars, irqFlag, radioLock, downIrq, rfds, staged, tableVars,
                 count, NotDown>>

NextDnWide(q) == q + 1     \* variant: dn_seq is wider than a byte
NextDn(q)     == (q + 1) % SeqMod

(* The loop over the slots: recvfrom on the sockets that select reported.  *)
(* It blocks when such a socket has nothing to read.                       *)
IsSetAny(s) == s \in Active     \* variant: FD_ISSET is not asked
IsSet(s)    == s \in Active /\ clients[s].sock \in rfds

DownDrain ==
  /\ downPc = "drain" /\ i <= MaxClients
  /\ i' = i + 1
  /\ \/ ~IsSet(i) /\ UNCHANGED <<tableVars, staged>>
     \/ /\ IsSet(i)
        /\ LET fd == clients[i].sock IN
             /\ queue[fd] # <<>>
             /\ queue' = [queue EXCEPT ![fd] = Tail(@)]
             /\ staged' = Append(staged, [dg |-> Head(queue[fd]), node |-> clients[i].node,
                                          seq |-> clients[i].dnSeq])
        /\ clients' = [clients EXCEPT ![i].dnSeq = NextDn(@)]
  /\ UNCHANGED <<downPc, radioVars, irqFlag, radioLock, clientsLock, downIrq, rfds,
                 count, NotDown>>

DownDrainUnlock ==
  /\ i > MaxClients
  /\ IF staged = <<>> THEN DownGoto("drain", "collect") ELSE DownGoto("drain", "lock")
  /\ clientsLock' = None
  /\ UNCHANGED <<radioVars, irqFlag, radioLock, downIrq, rfds, i, staged, tableVars,
                 count, NotDown>>

(* After the pacing delay: the radio, and whatever interrupt it signalled  *)
(* is forgotten.                                                           *)
DownLock ==
  /\ DownGoto("lock", "flag")
  /\ radioLock = None
  /\ radioLock' = "down"
  /\ UNCHANGED <<radioVars, irqFlag, clientsLock, downIrq, rfds, i, staged, tableVars,
                 count, NotDown>>

DownFlag ==
  /\ DownGoto("flag", "start")
  /\ irqFlag' = FALSE
  /\ UNCHANGED <<radioVars, radioLock, clientsLock, downIrq, rfds, i, staged, tableVars,
                 count, NotDown>>

(* lora_send up to set_tx; a datagram that does not fit is given up.       *)
DownStart ==
  /\ \/ /\ DownGoto("start", "unlock")
        /\ Head(staged).dg.size = "big"
        /\ UNCHANGED <<mode>>
     \/ /\ DownGoto("start", "wait")
        /\ Head(staged).dg.size = "fits"
        /\ mode' = "tx"
  /\ UNCHANGED <<irq, edge, frame, unread, irqFlag, radioLock, clientsLock, downIrq, rfds,
                 i, staged, tableVars, count, NotDown>>

(* It polls irq_flag for at most 600 ms, longer than any frame is on air.  *)
DownWait ==
  /\ DownGoto("wait", "status")
  /\ irqFlag \/ mode # "tx"
  /\ UNCHANGED <<radioVars, irqFlag, radioLock, clientsLock, downIrq, rfds, i, staged,
                 tableVars, count, NotDown>>

DownStatus ==
  /\ DownGoto("status", "clear")
  /\ downIrq' = irq
  /\ UNCHANGED <<radioVars, irqFlag, radioLock, clientsLock, rfds, i, staged, tableVars,
                 count, NotDown>>

DownClear ==
  /\ DownGoto("clear", "sent")
  /\ irq' = irq \ downIrq
  /\ UNCHANGED <<mode, edge, frame, unread, irqFlag, radioLock, clientsLock, downIrq, rfds,
                 i, staged, tableVars, count, NotDown>>

DownSent ==
  /\ DownGoto("sent", "listen")
  /\ irqFlag' = FALSE
  /\ UNCHANGED <<radioVars, radioLock, clientsLock, downIrq, rfds, i, staged, tableVars,
                 count, NotDown>>

(* set_rx, which ends a transmission still on air.                         *)
DownListen ==
  /\ DownGoto("listen", "unlock")
  /\ mode' = "rx"
  /\ UNCHANGED <<irq, edge, frame, unread, irqFlag, radioLock, clientsLock, downIrq, rfds,
                 i, staged, tableVars, count, NotDown>>

(* After lora_send the flag is cleared once more; on to the next one.      *)
DownUnlockKeepsLock ==  \* variant: no unlock between two downlinks
  /\ IF Len(staged) = 1 THEN DownGoto("unlock", "collect") /\ radioLock' = None
                        ELSE DownGoto("unlock", "lock") /\ UNCHANGED radioLock
  /\ irqFlag' = FALSE
  /\ staged' = Tail(staged)
  /\ UNCHANGED <<radioVars, clientsLock, downIrq, rfds, i, tableVars, count,
                 NotDown>>

DownUnlock ==
  /\ IF Len(staged) = 1 THEN DownGoto("unlock", "collect") ELSE DownGoto("unlock", "lock")
  /\ irqFlag' = FALSE
  /\ staged' = Tail(staged)
  /\ radioLock' = None
  /\ UNCHANGED <<radioVars, clientsLock, downIrq, rfds, i, tableVars, count,
                 NotDown>>

DownStep ==
  \/ DownCollect \/ DownSelect \/ DownDrainLock \/ DownDrain \/ DownDrainUnlock
  \/ DownLock \/ DownFlag \/ DownStart \/ DownWait \/ DownStatus \/ DownClear
  \/ DownSent \/ DownListen \/ DownUnlock

(***************************************************************************)
(* Paho and the signal.                                                    *)
(***************************************************************************)

Sessions(s) == Cardinality({k \in DOMAIN toPaho : toPaho[k].port = s /\ toPaho[k].up.connect})

(* Paho sends a datagram to the port of slot s; it is dropped when no      *)
(* socket is bound to the port.                                            *)
PahoSends(s) ==
  /\ IF s \notin Active \/ clients[s].sock = None THEN UNCHANGED queue
     ELSE \E size \in count.limit.size :
            queue' = [queue EXCEPT ![clients[s].sock] =
              Append(@, [port |-> s, session |-> Sessions(s), size |-> size])]
  /\ UNCHANGED <<radioVars, irqFlag, radioLock, clientsLock, running, mainVars, downVars,
                 clients, gwRing, toPaho>>

PahoPublishes(s) ==
  /\ \E k \in DOMAIN toPaho : toPaho[k].port = s
  /\ count.published < count.limit.published
  /\ count' = [count EXCEPT !.published = @ + 1]
  /\ PahoSends(s)
  /\ UNCHANGED owed

PahoAnswers(s) ==
  /\ owed[s]
  /\ owed' = [owed EXCEPT ![s] = FALSE]
  /\ PahoSends(s)
  /\ UNCHANGED count

Stop ==
  /\ count.limit.stop /\ running
  /\ running' = FALSE
  /\ UNCHANGED <<radioVars, irqFlag, radioLock, clientsLock, mainVars, downVars,
                 tableVars, gwRing, pahoVars, count>>

Next ==
  \/ MainStep \/ DownStep \/ Isr \/ TxDone \/ HearUplink \/ HearNoise \/ Stop
  \/ \E s \in Slot : PahoPublishes(s) \/ PahoAnswers(s)

Spec == Init /\ [][Next]_vars

(* The three threads are scheduled and a transmission ends.                *)
Fairness ==
  /\ WF_vars(MainStep) /\ WF_vars(DownStep) /\ WF_vars(Isr) /\ WF_vars(TxDone)

FairSpec == Spec /\ Fairness

(* Moreover Paho answers every CONNECT.                                    *)
AnsweredSpec == FairSpec /\ \A s \in Slot : WF_vars(PahoAnswers(s))

------------------------------------------------------------------------------
(***************************************************************************)
(* Properties.                                                             *)
(***************************************************************************)

MainPc == {"poll", "heartbeat", "lock", "flag", "status", "clear", "receive", "forward",
           "bind", "send", "rearm", "join", "done"}
DownPc == {"collect", "select", "drainLock", "drain", "lock", "flag", "start", "wait",
           "status", "clear", "sent", "listen", "unlock", "exit"}

RadioType ==
  /\ mode \in {"rx", "tx", "standby"} /\ irq \in SUBSET IrqBit /\ edge \in BOOLEAN
  /\ frame \in Traffic \cup {Garbage} /\ unread \in BOOLEAN
  /\ irqFlag \in BOOLEAN /\ running \in BOOLEAN

LockType == radioLock \in {None, "main", "down"} /\ clientsLock \in {None, "main", "down"}

MainType ==
  /\ mainPc \in MainPc /\ mainIrq \in SUBSET IrqBit /\ mainUp \in Traffic \cup {None}
  /\ mainSlot \in Slot \cup {None}
  /\ gwRing \in RingType(GwRingSize, [src : Src, seq : Nat])

DownType ==
  /\ downPc \in DownPc /\ downIrq \in SUBSET IrqBit /\ rfds \in SUBSET Fd
  /\ i \in 1 .. MaxClients + 1 /\ staged \in Seq(Staged)

TableType ==
  /\ clients \in [Slot -> Client \cup {None}]
  /\ queue \in [Fd -> Seq(Datagram)]

PahoType ==
  /\ toPaho \in Seq(Handed) /\ owed \in [Slot -> BOOLEAN]
  /\ count \in [heard : Nat, published : Nat, expired : Nat, limit : Limits]

(* Type correctness of the bridge: in particular dn_seq stays in its byte, *)
(* and there is a descriptor for every client.                             *)
TypeOK == RadioType /\ LockType /\ MainType /\ DownType /\ TableType /\ PahoType

(* main.c:13-17: each thread works on the radio only with radio_lock, and  *)
(* lora_send runs with radio_lock and without clients_lock (main.c:315).   *)
LocksHeld ==
  /\ radioLock = "main" <=>
       mainPc \in {"flag", "status", "clear", "receive", "forward", "bind", "send", "rearm"}
  /\ radioLock = "down" <=>
       downPc \in {"flag", "start", "wait", "status", "clear", "sent", "listen", "unlock"}
  /\ clientsLock = "main" <=> mainPc \in {"bind", "send"}
  /\ clientsLock = "down" <=> downPc = "drain"

(* The client table and the sockets agree through every creation, reopen   *)
(* and expiry: a node has one entry, an entry its own socket, and only the *)
(* sockets of the table hold datagrams (no socket is leaked or shared).    *)
SocketsMatchTable ==
  /\ \A s, t \in Active :
       s # t => clients[s].node # clients[t].node /\ clients[s].sock # clients[t].sock
  /\ \A fd \in Fd \ UsedBy(clients) : queue[fd] = <<>>

Waiting(s) == IF clients[s].sock = None THEN <<>> ELSE queue[clients[s].sock]

(* main.c:211 "Force Paho to see a fresh connection by closing/reopening   *)
(* socket": what waits in a client's socket was sent to its own port, and  *)
(* at most one CONNECT has left that port since.  Not none: what Paho      *)
(* sends after the bind and before sendto is of the session that ends.     *)
OldSessionsAreCut ==
  \A s \in Active : \A k \in DOMAIN Waiting(s) :
    LET d == Waiting(s)[k] IN d.port = s /\ d.session + 1 >= Sessions(s)

(* The drain loop stands in recvfrom, which blocks, with clients_lock: the *)
(* socket that select reported has been closed since, and another has its  *)
(* descriptor (main.c:621-626).                                            *)
ReadBlocks == downPc = "drain" /\ i <= MaxClients /\ IsSet(i) /\ queue[clients[i].sock] = <<>>

(* As long as no client has expired, what recvfrom waits for is Paho's     *)
(* answer to the CONNECT that reopened the socket.                         *)
BlocksForAnswerOnly == ReadBlocks /\ count.expired = 0 => owed[i]

(* README.md:29 "Client Table: Maps node IDs to per-client UDP sockets":   *)
(* Paho knows its clients by their port, so what a node sends reaches Paho *)
(* from the port from which that node connected.  Only expiry breaks this: *)
(* it frees a port for which Paho still has a session.                     *)
LastConnect(k, s) ==
  {j \in 1 .. k - 1 : /\ toPaho[j].port = s /\ toPaho[j].up.connect
                      /\ \A m \in j + 1 .. k - 1 : ~(toPaho[m].port = s /\ toPaho[m].up.connect)}

PublishesAsItself ==
  count.expired = 0 =>
    \A k \in DOMAIN toPaho : ~toPaho[k].up.connect =>
      \A j \in LastConnect(k, toPaho[k].port) : toPaho[j].up.src = toPaho[k].up.src

(* How a frame can be overlooked: it waits while the downstream thread has *)
(* the radio; that thread gives the radio back with an interrupt pending;  *)
(* an interrupt comes between the read and the clear of the status of      *)
(* another (main.c:557); or it came after a damaged one and the status     *)
(* says crc for both.                                                      *)
Disturbed ==
  \/ radioLock = "down" /\ (unread \/ (downPc = "unlock" /\ irq # {}))
  \/ mainPc = "clear" /\ mainIrq # {} /\ irq # mainIrq
  \/ mainPc = "clear" /\ "crc" \in mainIrq /\ unread


(* README.md:27 "downstream thread forwards Paho gateway responses back to *)
(* LoRa nodes": what has been read from the sockets is sent or given up;   *)
(* neither the locks nor the wait for irq_flag stop the thread.  It takes  *)
(* that no client expires, or that recvfrom does not block for ever.       *)
Unblocked == [](count.expired = 0) \/ []<>~ReadBlocks

StagedIsSent == Unblocked => (staged # <<>> ~> staged = <<>>)

(* After SIGINT or SIGTERM both threads end and main joins, likewise.      *)
ShutsDown == Unblocked => (~running ~> mainPc = "done")

(***************************************************************************)
(* What the documentation says and the code does not do.                   *)
(***************************************************************************)

(* README.md:27 "main thread polls LR1121 interrupt for uplink frames": a  *)
(* frame that the radio has signalled is looked at: its status bit does    *)
(* not stay set for ever.                                                  *)
UplinkRead == "rx" \in irq ~> "rx" \notin irq
==============================================================================

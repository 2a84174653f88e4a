--------------------------- MODULE Dashboard_proofs ---------------------------
(***************************************************************************)
(* Proofs about the dashboard, for any number of pages, streams, messages, *)
(* requests and faults.                                                    *)
(***************************************************************************)
EXTENDS Dashboard, SequenceTheorems, FiniteSetTheorems, TLAPS

Message == [stream : Stream, n : Nat]

RunType == [active : BOOLEAN, pkts : Nat, dupes : Nat, gaps : Nat,
            last : [Stream -> Nat]]

(* What is needed of a request: those that name a mode name a real one.    *)
RequestOK(r) ==
  /\ r.kind \in {"mode", "start", "stop", "stopMode", "reset"}
  /\ r.kind \in {"mode", "start", "stopMode"} => r.mode \in Mode

SummaryType == [active : BOOLEAN, pkts : Nat, dupes : Nat, gaps : Nat]

PageState == [currentMode : Mode, activeRun : Mode \cup {None}, timer : BOOLEAN,
              runs : [Mode -> SummaryType]]

UpdateEvent == [type : {"run_update"}, runs : [Mode -> SummaryType],
                activeRun : Mode \cup {None}, currentMode : Mode, total : Nat]

ModeEvent == [type : {"mode_change", "run_started", "run_stopped"}, mode : Mode]

Event == ModeEvent \cup UpdateEvent

(* TypeOK with the types of the queues.                                    *)
TypeInv ==
  /\ TypeOK
  /\ air \in Seq(Message)
  /\ runs \in [Mode -> RunType]
  /\ total \in Nat
  /\ heard \in [Mode -> Seq(Message)]
  /\ \A r \in requests : RequestOK(r)
  /\ events \in [Browser -> Seq(Event)]
  /\ page \in [Browser -> PageState]

ServerType ==
  /\ currentMode \in Mode /\ activeRun \in Mode \cup {None}
  /\ runs \in [Mode -> RunType]
  /\ \A m \in Mode : runs[m].dupes \in 0 .. runs[m].pkts /\ runs[m].pkts = Len(heard[m])
  /\ total \in Nat
  /\ heard \in [Mode -> Seq(Message)]

PageType ==
  /\ page \in [Browser -> PageState]
  /\ \A b \in Browser : page[b].activeRun # None => page[b].timer

(* TypeInv by who owns what.                                               *)
LEMMA TypeInvParts ==
  TypeInv <=> /\ ServerType /\ PageType
              /\ number \in [Counter -> Nat] /\ air \in Seq(Message)
              /\ connected \subseteq Browser /\ events \in [Browser -> Seq(Event)]
              /\ \A r \in requests : RequestOK(r)
<1>1. ASSUME runs \in [Mode -> RunType], NEW m \in Mode
      PROVE  runs[m].active \in BOOLEAN /\ runs[m].gaps \in Nat
  BY <1>1 DEF RunType
<1> QED BY <1>1 DEF TypeInv, TypeOK, ServerType, PageType

(* trackSeq keeps a run's counters natural numbers, its active flag and    *)
(* its number of messages, and adds at most one duplicate.                 *)
LEMMA TrackedType ==
  ASSUME NEW r \in RunType, NEW m \in Message
  PROVE  /\ Tracked(r, m) \in RunType
         /\ Tracked(r, m).active = r.active
         /\ Tracked(r, m).pkts = r.pkts
         /\ Tracked(r, m).dupes \in {r.dupes, r.dupes + 1}
<1>1. r.last \in [Stream -> Nat] /\ m.stream \in Stream /\ m.n \in Nat
  BY DEF RunType, Message
<1> DEFINE last == r.last[m.stream]
<1>2. last \in Nat
  BY <1>1
<1>3. CASE last # 0 /\ m.n <= last
  <2>1. Tracked(r, m) = [r EXCEPT !.dupes = @ + 1]
    BY <1>3 DEF Tracked
  <2> QED BY <2>1 DEF RunType
<1>4. CASE ~(last # 0 /\ m.n <= last)
  <2> DEFINE g == IF last = 0 THEN r.gaps ELSE r.gaps + (m.n - last - 1)
  <2>1. r.gaps \in Nat /\ g \in Nat
    BY <1>1, <1>2, <1>4 DEF RunType
  <2>2. Tracked(r, m) = [r EXCEPT !.last = [r.last EXCEPT ![m.stream] = m.n], !.gaps = g]
    BY <1>4, Zenon DEF Tracked
  <2>3. [r.last EXCEPT ![m.stream] = m.n] \in [Stream -> Nat]
    BY <1>1
  <2> HIDE DEF g
  <2> QED BY <2>1, <2>2, <2>3 DEF RunType
<1> QED BY <1>3, <1>4

(* A counted message keeps the server's types: one more message heard, one *)
(* more counted, and at most one more duplicate.                           *)
LEMMA MessageType ==
  ASSUME ServerType, air \in Seq(Message), HandleMessage
  PROVE  ServerType' /\ air' \in Seq(Message)
<1> DEFINE m == Head(air)
<1>1. air' \in Seq(Message) /\ m \in Message
  BY DEF HandleMessage
<1>2. /\ Count(activeRun, m)
      /\ UNCHANGED <<currentMode, activeRun>>
  BY DEF HandleMessage
<1>3. total' \in Nat
  BY <1>2 DEF Count, ServerType
<1>4. CASE activeRun = None
  BY <1>1, <1>2, <1>3, <1>4 DEF Count, ServerType
<1>5. CASE activeRun # None
  <2> DEFINE r == Counted(runs[activeRun], m)
  <2>1. activeRun \in Mode /\ runs[activeRun] \in RunType
    BY <1>5 DEF ServerType
  <2>2. /\ Tracked(runs[activeRun], m) \in RunType
        /\ Tracked(runs[activeRun], m).pkts = runs[activeRun].pkts
        /\ Tracked(runs[activeRun], m).dupes
             \in {runs[activeRun].dupes, runs[activeRun].dupes + 1}
    BY <1>1, <2>1, TrackedType
  <2>3. /\ r \in RunType
        /\ r.pkts = runs[activeRun].pkts + 1
        /\ r.dupes \in {runs[activeRun].dupes, runs[activeRun].dupes + 1}
    BY <2>2 DEF RunType, Counted
  <2>4. runs' = [runs EXCEPT ![activeRun] = r]
        /\ heard' = [heard EXCEPT ![activeRun] = Append(@, m)]
    BY <1>2, <1>5, Zenon DEF Count
  <2>5. Len(Append(heard[activeRun], m)) = Len(heard[activeRun]) + 1
        /\ Append(heard[activeRun], m) \in Seq(Message)
    BY <1>1, <2>1 DEF ServerType
  <2>6. r.dupes \in 0 .. r.pkts /\ r.pkts = Len(Append(heard[activeRun], m))
    BY <2>1, <2>3, <2>5 DEF ServerType, RunType
  <2> HIDE DEF r
  <2>7. \A x \in Mode : runs'[x].dupes \in 0 .. runs'[x].pkts
                        /\ runs'[x].pkts = Len(heard'[x])
    BY <2>1, <2>4, <2>6 DEF ServerType
  <2>8. runs' \in [Mode -> RunType] /\ heard' \in [Mode -> Seq(Message)]
    BY <2>3, <2>4, <2>5 DEF ServerType
  <2> QED BY <1>1, <1>2, <1>3, <2>1, <2>7, <2>8 DEF ServerType
<1> QED BY <1>1, <1>4, <1>5

(* A fresh run.                                                            *)
LEMMA FreshRunType ==
  /\ FreshRun \in RunType /\ FreshRun.active = FALSE
  /\ FreshRun.pkts = 0 /\ FreshRun.dupes = 0 /\ FreshRun.gaps = 0
BY DEF FreshRun, RunType

(* What RunsWithout does to a run: it changes the active flag, of m only.  *)
LEMMA RunsWithoutType ==
  ASSUME runs \in [Mode -> RunType], NEW m \in Mode
  PROVE  /\ RunsWithout(m) \in [Mode -> RunType]
         /\ \A x \in Mode : /\ RunsWithout(m)[x].pkts = runs[x].pkts
                            /\ RunsWithout(m)[x].dupes = runs[x].dupes
                            /\ RunsWithout(m)[x].gaps = runs[x].gaps
                            /\ RunsWithout(m)[x].active = (x # m /\ runs[x].active)
<1>1. /\ [runs[m] EXCEPT !.active = FALSE] \in RunType
      /\ [runs[m] EXCEPT !.active = FALSE].pkts = runs[m].pkts
      /\ [runs[m] EXCEPT !.active = FALSE].dupes = runs[m].dupes
      /\ [runs[m] EXCEPT !.active = FALSE].gaps = runs[m].gaps
      /\ [runs[m] EXCEPT !.active = FALSE].active = FALSE
  BY DEF RunType
<1>2. RunsWithout(m) = [runs EXCEPT ![m] = [runs[m] EXCEPT !.active = FALSE]]
  BY DEF RunsWithout
<1>3. \A x \in Mode : runs[x].active \in BOOLEAN
  BY DEF RunType
<1> DEFINE r == [runs[m] EXCEPT !.active = FALSE]
<1> HIDE DEF r
<1> QED BY <1>1, <1>2, <1>3 DEF r

(* What a start leaves of the runs: mode m fresh and active, every other   *)
(* one as it was but stopped if it was the active one.                     *)
LEMMA StartedRuns ==
  ASSUME runs \in [Mode -> RunType], activeRun \in Mode \cup {None},
         NEW m \in Mode, HandleStart(m)
  PROVE  /\ runs' \in [Mode -> RunType]
         /\ runs'[m] = [FreshRun EXCEPT !.active = TRUE]
         /\ \A x \in Mode \ {m} :
              /\ runs'[x].pkts = runs[x].pkts
              /\ runs'[x].dupes = runs[x].dupes
              /\ runs'[x].gaps = runs[x].gaps
              /\ runs'[x].active = (x # activeRun /\ runs[x].active)
<1> DEFINE stopped == IF activeRun = None THEN runs ELSE RunsWithout(activeRun)
<1>1. runs' = [stopped EXCEPT ![m] = [FreshRun EXCEPT !.active = TRUE]]
  BY DEF HandleStart
<1>2. [FreshRun EXCEPT !.active = TRUE] \in RunType
  BY DEF FreshRun, RunType
<1>3. /\ stopped \in [Mode -> RunType]
      /\ \A x \in Mode : /\ stopped[x].pkts = runs[x].pkts
                         /\ stopped[x].dupes = runs[x].dupes
                         /\ stopped[x].gaps = runs[x].gaps
                         /\ stopped[x].active = (x # activeRun /\ runs[x].active)
  <2>1. CASE activeRun = None
    <3>1. \A x \in Mode : x # activeRun /\ runs[x].active \in BOOLEAN
      BY <2>1, ModeAssumption DEF RunType
    <3> QED BY <2>1, <3>1
  <2>2. CASE activeRun # None
    BY <2>2, RunsWithoutType
  <2> QED BY <2>1, <2>2
<1> HIDE DEF stopped
<1> QED BY <1>1, <1>2, <1>3

(* Stopping a run leaves its counts.                                       *)
LEMMA StopType ==
  ASSUME ServerType, NEW m \in Mode, StopRun(m)
  PROVE  ServerType'
<1>1. /\ runs' = RunsWithout(m) /\ activeRun' \in {activeRun, None}
      /\ UNCHANGED <<currentMode, total, heard>>
  BY DEF StopRun, ActiveWithout
<1> QED BY <1>1, RunsWithoutType DEF ServerType

(* A start clears the counts and the history of its run alone.             *)
LEMMA StartType ==
  ASSUME ServerType, NEW m \in Mode, HandleStart(m)
  PROVE  ServerType'
<1>1. /\ activeRun' = m /\ currentMode' = m /\ total' = total
      /\ heard' = [heard EXCEPT ![m] = <<>>]
  BY DEF HandleStart
<1>2. heard' \in [Mode -> Seq(Message)]
  BY <1>1 DEF ServerType
<1>3. runs'[m].pkts = 0 /\ runs'[m].dupes = 0 /\ heard'[m] = <<>>
  BY <1>1, StartedRuns DEF ServerType, FreshRun
<1>4. \A x \in Mode \ {m} : heard'[x] = heard[x]
  BY <1>1 DEF ServerType
<1>5. \A x \in Mode : runs'[x].dupes \in 0 .. runs'[x].pkts
                      /\ runs'[x].pkts = Len(heard'[x])
  <2> SUFFICES ASSUME NEW x \in Mode
               PROVE  runs'[x].dupes \in 0 .. runs'[x].pkts
                      /\ runs'[x].pkts = Len(heard'[x])
    OBVIOUS
  <2>1. CASE x = m
    BY <1>3, <2>1
  <2>2. CASE x # m
    <3>1. runs'[x].pkts = runs[x].pkts /\ runs'[x].dupes = runs[x].dupes
      BY <2>2, StartedRuns DEF ServerType
    <3>2. heard'[x] = heard[x]
      BY <1>4, <2>2
    <3> QED BY <3>1, <3>2 DEF ServerType
  <2> QED BY <2>1, <2>2
<1> QED BY <1>1, <1>2, <1>5, StartedRuns DEF ServerType

(* Every request of the REST API keeps the types.                          *)
LEMMA HandleType ==
  ASSUME ServerType, NEW r, RequestOK(r), Handle(r)
  PROVE  ServerType'
<1>1. CASE r.kind = "mode" /\ HandleMode(r.mode)
  BY <1>1 DEF RequestOK, HandleMode, ServerType
<1>2. CASE r.kind = "start" /\ HandleStart(r.mode)
  BY <1>2, StartType DEF RequestOK
<1>3. CASE r.kind = "stop" /\ HandleStop
  <2>1. CASE activeRun = None
    BY <1>3, <2>1 DEF HandleStop, ServerType
  <2>2. CASE activeRun # None
    BY <1>3, <2>2, StopType DEF HandleStop, ServerType
  <2> QED BY <2>1, <2>2
<1>4. CASE r.kind = "stopMode" /\ StopRun(r.mode)
  BY <1>4, StopType DEF RequestOK
<1>5. CASE r.kind = "reset" /\ HandleReset
  <2>1. /\ runs' = [m \in Mode |-> FreshRun] /\ activeRun' = None /\ total' = 0
        /\ heard' = [m \in Mode |-> <<>>] /\ currentMode' = currentMode
    BY <1>5 DEF HandleReset
  <2>2. /\ runs' \in [Mode -> RunType]
        /\ \A m \in Mode : runs'[m].pkts = 0 /\ runs'[m].dupes = 0
    BY <2>1, FreshRunType
  <2>3. heard' \in [Mode -> Seq(Message)] /\ \A m \in Mode : heard'[m] = <<>>
    BY <2>1
  <2>4. \A m \in Mode : runs'[m].dupes \in 0 .. runs'[m].pkts
                        /\ runs'[m].pkts = Len(heard'[m])
    BY <2>2, <2>3
  <2> QED BY <2>1, <2>2, <2>3, <2>4 DEF ServerType
<1> QED BY <1>1, <1>2, <1>3, <1>4, <1>5 DEF Handle

(* Streams count upwards.                                                  *)
LEMMA StreamType ==
  ASSUME number \in [Counter -> Nat], air \in Seq(Message), StreamStep
  PROVE  number' \in [Counter -> Nat] /\ air' \in Seq(Message)
<1>1. ASSUME NEW s \in Stream, Publish(s)
      PROVE  number' \in [Counter -> Nat] /\ air' \in Seq(Message)
  <2>1. CounterOf[s] \in Counter
    BY StreamsAssumption
  <2>2. [stream |-> s, n |-> number[CounterOf[s]] + 1] \in Message
    BY <2>1 DEF Message
  <2> QED BY <1>1, <2>1, <2>2 DEF Publish
<1>2. CASE Lose
  BY <1>2 DEF Lose
<1>3. CASE Repeat
  <2>1. Head(air) \in Message /\ <<Head(air)>> \in Seq(Message)
    BY <1>3 DEF Repeat
  <2>2. <<Head(air)>> \o air \in Seq(Message)
    BY <2>1, ConcatProperties
  <2> QED BY <1>3, <2>2 DEF Repeat
<1>4. CASE Delay
  <2>1. Head(air) \in Message /\ Tail(air) \in Seq(Message)
    BY <1>4, EmptySeq DEF Delay
  <2> QED BY <1>4, <2>1 DEF Delay
<1>5. ASSUME NEW c \in Counter, Reboot(c)
      PROVE  number' \in [Counter -> Nat] /\ air' \in Seq(Message)
  BY <1>5 DEF Reboot
<1> QED BY <1>1, <1>2, <1>3, <1>4, <1>5 DEF StreamStep

(* A button press only adds a request, with a mode where one is needed.    *)
LEMMA PressType ==
  ASSUME PageType, NEW b \in Browser, \A r \in requests : RequestOK(r), Press(b)
  PROVE  PageType' /\ \A r \in requests' : RequestOK(r)
<1>0. ASSUME NEW k, NEW m, Request(k, m), RequestOK([kind |-> k, mode |-> m, n |-> budget.requests])
      PROVE  \A r \in requests' : RequestOK(r)
  BY <1>0 DEF Request
<1>p. page[b] \in PageState
  BY DEF PageType
<1>1. ASSUME NEW m \in Mode, SetMode(b, m)
      PROVE  PageType' /\ \A r \in requests' : RequestOK(r)
  <2>1. RequestOK([kind |-> "mode", mode |-> m, n |-> budget.requests])
    BY DEF RequestOK
  <2>2. PageType'
    BY <1>1, <1>p DEF SetMode, PageType, PageState
  <2> QED BY <1>0, <1>1, <2>1, <2>2 DEF SetMode
<1>2. ASSUME NEW m \in Mode, StartRun(b, m)
      PROVE  PageType' /\ \A r \in requests' : RequestOK(r)
  <2>1. RequestOK([kind |-> "start", mode |-> m, n |-> budget.requests])
    BY DEF RequestOK
  <2>2. PageType'
    BY <1>2, <1>p DEF StartRun, PageType, PageState
  <2> QED BY <1>0, <1>2, <2>1, <2>2 DEF StartRun
<1>3. CASE StopButton(b)
  <2>1. RequestOK([kind |-> "stop", mode |-> None, n |-> budget.requests])
    BY DEF RequestOK
  <2>2. PageType'
    BY <1>3, <1>p DEF StopButton, PageType, PageState
  <2> QED BY <1>0, <1>3, <2>1, <2>2 DEF StopButton
<1>4. CASE ResetAll
  <2>1. RequestOK([kind |-> "reset", mode |-> None, n |-> budget.requests])
    BY DEF RequestOK
  <2> QED BY <1>0, <1>4, <2>1 DEF ResetAll, PageType
<1> QED BY <1>1, <1>2, <1>3, <1>4 DEF Press

(* What a page finds at the head of its queue.                             *)
LEMMA HeadEvent ==
  ASSUME events \in [Browser -> Seq(Event)], NEW b \in Browser, NEW type, Receiving(b, type)
  PROVE  /\ Head(events[b]).type = type
         /\ type = "run_update" => Head(events[b]) \in UpdateEvent
         /\ type # "run_update" => Head(events[b]) \in ModeEvent
<1>1. Head(events[b]) \in Event /\ Head(events[b]).type = type
  BY DEF Receiving
<1> QED BY <1>1 DEF Event, ModeEvent, UpdateEvent

(* A page that takes a run for active has started its timer.               *)
LEMMA EventType ==
  ASSUME PageType, events \in [Browser -> Seq(Event)], NEW b \in Browser,
         OnModeChange(b) \/ OnRunStarted(b) \/ OnRunStopped(b) \/ OnRunUpdate(b)
  PROVE  PageType'
<1>p. page[b] \in PageState
  BY DEF PageType
<1>1. CASE OnModeChange(b)
  <2>1. Head(events[b]).mode \in Mode
    BY <1>1, HeadEvent DEF OnModeChange, ModeEvent
  <2> QED BY <1>1, <1>p, <2>1 DEF OnModeChange, PageType, PageState
<1>2. CASE OnRunStarted(b)
  <2>1. Head(events[b]).mode \in Mode
    BY <1>2, HeadEvent DEF OnRunStarted, ModeEvent
  <2> QED BY <1>2, <1>p, <2>1 DEF OnRunStarted, PageType, PageState
<1>3. CASE OnRunStopped(b)
  BY <1>3, <1>p DEF OnRunStopped, PageType, PageState
<1>4. CASE OnRunUpdate(b)
  <2> DEFINE u == Head(events[b])
             restore == u.activeRun \notin {None, page[b].activeRun} /\ ~page[b].timer
             run == IF restore THEN u.activeRun ELSE page[b].activeRun
             timer == page[b].timer \/ restore
             p == [page[b] EXCEPT !.runs = u.runs, !.currentMode = u.currentMode,
                                  !.activeRun = run, !.timer = timer]
  <2>1. page' = [page EXCEPT ![b] = p]
    BY <1>4, Zenon DEF OnRunUpdate, PageType
  <2>2. u \in UpdateEvent
    BY <1>4, HeadEvent DEF OnRunUpdate
  <2>3. run # None => timer
    BY DEF PageType
  <2>4. run \in Mode \cup {None} /\ timer \in BOOLEAN
    BY <1>p, <2>2 DEF UpdateEvent, PageState
  <2> HIDE DEF run, timer
  <2>5. p \in PageState /\ p.activeRun = run /\ p.timer = timer
    BY <1>p, <2>2, <2>4 DEF UpdateEvent, PageState
  <2> HIDE DEF p
  <2> QED BY <2>1, <2>3, <2>5 DEF PageType
<1> QED BY <1>1, <1>2, <1>3, <1>4

(***************************************************************************)
(* What the server emits.                                                  *)
(***************************************************************************)

(* The counts that every page should show.                                 *)
SummariesOf(rs) == [m \in Mode |-> Summary(rs[m])]

Summaries == SummariesOf(runs)

(* A handler that changes anything a page shows ends with broadcastUpdate. *)
EmitsUpdate ==
  \E es \in Seq(Event) :
    /\ Emit(es)
    /\ es # <<>>
    /\ es[Len(es)] \in UpdateEvent
    /\ es[Len(es)].runs = Summaries'
    /\ es[Len(es)].currentMode = currentMode'

(* broadcastUpdate carries the summaries and the label it is given.        *)
LEMMA UpdateEvents ==
  ASSUME NEW rs \in [Mode -> RunType], NEW run \in Mode \cup {None},
         NEW mode \in Mode, NEW all \in Nat
  PROVE  /\ RunUpdate(rs, run, mode, all) \in UpdateEvent
         /\ RunUpdate(rs, run, mode, all) \in Event
         /\ RunUpdate(rs, run, mode, all).runs = SummariesOf(rs)
         /\ RunUpdate(rs, run, mode, all).currentMode = mode
<1>1. ASSUME NEW m \in Mode PROVE Summary(rs[m]) \in SummaryType
  <2>1. rs[m] \in RunType
    OBVIOUS
  <2> QED BY <2>1 DEF Summary, SummaryType, RunType
<1> DEFINE s == [m \in Mode |-> Summary(rs[m])]
<1>2. s \in [Mode -> SummaryType]
  BY <1>1
<1>3. RunUpdate(rs, run, mode, all) =
        [type |-> "run_update", runs |-> s, activeRun |-> run, currentMode |-> mode, total |-> all]
  BY DEF RunUpdate
<1> HIDE DEF s
<1>4. RunUpdate(rs, run, mode, all) \in UpdateEvent
  BY <1>2, <1>3 DEF UpdateEvent
<1>5. /\ RunUpdate(rs, run, mode, all).runs = s
      /\ RunUpdate(rs, run, mode, all).currentMode = mode
  BY <1>3
<1> QED BY <1>4, <1>5 DEF Event, s, SummariesOf

(* The events of _stopRun, and their last one.                             *)
LEMMA StopEventsType ==
  ASSUME ServerType, NEW m \in Mode
  PROVE  /\ StopEvents(m) \in Seq(Event)
         /\ StopEvents(m) # <<>>
         /\ Len(StopEvents(m)) = 2
         /\ StopEvents(m)[2] = RunUpdate(RunsWithout(m), ActiveWithout(m), currentMode, total)
<1>1. RunStopped(m) \in Event
  BY DEF RunStopped, Event, ModeEvent
<1> DEFINE u == RunUpdate(RunsWithout(m), ActiveWithout(m), currentMode, total)
<1>2. u \in Event
  BY UpdateEvents, RunsWithoutType DEF ServerType, ActiveWithout
<1>3. StopEvents(m) = <<RunStopped(m), u>>
  BY DEF StopEvents
<1> HIDE DEF u
<1> QED BY <1>1, <1>2, <1>3 DEF u

(* Stopping ends with an update.                                           *)
LEMMA StopEmits ==
  ASSUME ServerType, NEW m \in Mode, StopRun(m)
  PROVE  EmitsUpdate
<1> DEFINE u == RunUpdate(RunsWithout(m), ActiveWithout(m), currentMode, total)
<1>1. /\ runs' = RunsWithout(m) /\ activeRun' = ActiveWithout(m) /\ currentMode' = currentMode
      /\ Emit(StopEvents(m))
  BY DEF StopRun
<1>2. u \in UpdateEvent /\ u.runs = Summaries' /\ u.currentMode = currentMode'
  <2>1. RunsWithout(m) \in [Mode -> RunType] /\ ActiveWithout(m) \in Mode \cup {None}
        /\ currentMode \in Mode /\ total \in Nat
    BY RunsWithoutType DEF ServerType, ActiveWithout
  <2>2. Summaries' = SummariesOf(RunsWithout(m))
    BY <1>1 DEF Summaries, SummariesOf, Summary
  <2> QED BY <1>1, <2>1, <2>2, UpdateEvents
<1>3. StopEvents(m) \in Seq(Event) /\ StopEvents(m) # <<>> /\ StopEvents(m)[Len(StopEvents(m))] = u
  BY StopEventsType
<1> HIDE DEF u
<1> QED BY <1>1, <1>2, <1>3 DEF EmitsUpdate

(* An update after whatever a stop has emitted.                            *)
LEMMA StoppedThen ==
  ASSUME ServerType, NEW es \in Seq(Event), es # <<>>
  PROVE  LET all == (IF activeRun = None THEN <<>> ELSE StopEvents(activeRun)) \o es
         IN  /\ all \in Seq(Event) /\ all # <<>>
             /\ all[Len(all)] = es[Len(es)]
<1> DEFINE first == IF activeRun = None THEN <<>> ELSE StopEvents(activeRun)
<1>1. first \in Seq(Event)
  BY StopEventsType, EmptySeq DEF ServerType
<1> HIDE DEF first
<1>2. Len(es) \in Nat \ {0} /\ Len(first) \in Nat
  BY <1>1, EmptySeq
<1>3. first \o es \in Seq(Event) /\ Len(first \o es) = Len(first) + Len(es)
  BY <1>1
<1>4. (first \o es)[Len(first) + Len(es)] = es[Len(es)]
  BY <1>1, <1>2, ConcatProperties
<1>5. first \o es # <<>>
  BY <1>2, <1>3
<1> QED BY <1>3, <1>4, <1>5 DEF first

(* Starting a run ends with an update.                                     *)
LEMMA StartEmits ==
  ASSUME ServerType, NEW m \in Mode, HandleStart(m)
  PROVE  EmitsUpdate
<1> DEFINE u  == RunUpdate(runs', m, m, total)
           es == <<ModeChange(m), RunStarted(m), u>>
           all == (IF activeRun = None THEN <<>> ELSE StopEvents(activeRun)) \o es
<1>1. runs' \in [Mode -> RunType] /\ activeRun' = m /\ currentMode' = m
  BY StartedRuns DEF ServerType, HandleStart
<1>2. Emit(all)
  BY DEF HandleStart
<1>3. /\ u \in UpdateEvent /\ u \in Event
      /\ u.runs = Summaries' /\ u.currentMode = currentMode'
  <2>1. m \in Mode \cup {None} /\ total \in Nat
    BY DEF ServerType
  <2>2. Summaries' = SummariesOf(runs')
    BY DEF Summaries, SummariesOf, Summary
  <2> HIDE DEF SummariesOf
  <2> QED BY <1>1, <2>1, <2>2, UpdateEvents
<1>4. ModeChange(m) \in Event /\ RunStarted(m) \in Event
  BY DEF ModeChange, RunStarted, Event, ModeEvent
<1> HIDE DEF u
<1>5. es \in Seq(Event) /\ es # <<>> /\ es[Len(es)] = u
  BY <1>3, <1>4
<1> HIDE DEF es
<1>6. all \in Seq(Event) /\ all # <<>> /\ all[Len(all)] = es[Len(es)]
  BY <1>5, StoppedThen
<1> HIDE DEF all
<1> QED BY <1>2, <1>3, <1>5, <1>6 DEF EmitsUpdate

(* So does a reset.                                                        *)
LEMMA ResetEmits ==
  ASSUME ServerType, HandleReset
  PROVE  EmitsUpdate
<1> DEFINE fresh == [m \in Mode |-> FreshRun]
           u  == RunUpdate(fresh, None, currentMode, 0)
           es == <<u>>
           all == (IF activeRun = None THEN <<>> ELSE StopEvents(activeRun)) \o es
<1>1. runs' = fresh /\ currentMode' = currentMode /\ fresh \in [Mode -> RunType]
  BY FreshRunType DEF HandleReset
<1>2. Emit(all)
  BY DEF HandleReset
<1>3. /\ u \in UpdateEvent /\ u \in Event
      /\ u.runs = Summaries' /\ u.currentMode = currentMode'
  <2>1. None \in Mode \cup {None} /\ 0 \in Nat /\ currentMode \in Mode
    BY DEF ServerType
  <2>2. Summaries' = SummariesOf(fresh)
    BY <1>1 DEF Summaries, SummariesOf, Summary
  <2> HIDE DEF SummariesOf, fresh
  <2> QED BY <1>1, <2>1, <2>2, UpdateEvents
<1> HIDE DEF u
<1>5. es \in Seq(Event) /\ es # <<>> /\ es[Len(es)] = u
  BY <1>3
<1> HIDE DEF es
<1>6. all \in Seq(Event) /\ all # <<>> /\ all[Len(all)] = es[Len(es)]
  BY <1>5, StoppedThen
<1> HIDE DEF all
<1> QED BY <1>2, <1>3, <1>5, <1>6 DEF EmitsUpdate

(* A message that counts is announced; one that does not changes nothing   *)
(* that a page shows.                                                      *)
LEMMA MessageEmits ==
  ASSUME ServerType, air \in Seq(Message), HandleMessage
  PROVE  /\ currentMode' = currentMode
         /\ EmitsUpdate \/ UNCHANGED <<runs, events>>
<1>1. /\ Count(activeRun, Head(air))
      /\ UNCHANGED <<currentMode, activeRun>>
      /\ total' = total + 1
  BY DEF HandleMessage, Count
<1>2. ServerType'
  BY MessageType
<1>3. CASE activeRun = None
  BY <1>1, <1>3 DEF Count
<1>4. CASE activeRun # None
  <2> DEFINE u == RunUpdate(runs', activeRun, currentMode, total + 1)
  <2>1. Emit(<<u>>)
    BY <1>1, <1>4 DEF Count
  <2>2. Summaries' = SummariesOf(runs')
    BY DEF Summaries, SummariesOf, Summary
  <2>3. /\ runs' \in [Mode -> RunType] /\ activeRun \in Mode \cup {None}
        /\ currentMode \in Mode /\ total + 1 \in Nat
    BY <1>2 DEF ServerType
  <2> HIDE DEF SummariesOf
  <2>4. /\ u \in UpdateEvent /\ u \in Event
        /\ u.runs = Summaries' /\ u.currentMode = currentMode'
    BY <1>1, <2>2, <2>3, UpdateEvents
  <2> HIDE DEF u
  <2>5. <<u>> \in Seq(Event) /\ <<u>> # <<>> /\ <<u>>[Len(<<u>>)] = u
    BY <2>4
  <2>6. EmitsUpdate
    BY <2>1, <2>4, <2>5 DEF EmitsUpdate
  <2> QED BY <1>1, <2>6
<1> QED BY <1>3, <1>4

(* Every request announces what it changes, or changes nothing.            *)
LEMMA HandleEmits ==
  ASSUME ServerType, NEW r, RequestOK(r), Handle(r)
  PROVE  \/ EmitsUpdate
         \/ /\ r.kind = "mode" /\ r.mode \in Mode
            /\ Emit(<<ModeChange(r.mode)>>)
            /\ currentMode' = r.mode /\ runs' = runs
         \/ r.kind \notin {"mode", "start"} /\ UNCHANGED <<currentMode, runs, events>>
<1>1. CASE r.kind = "mode" /\ HandleMode(r.mode)
  BY <1>1 DEF RequestOK, HandleMode
<1>2. CASE r.kind = "start" /\ HandleStart(r.mode)
  BY <1>2, StartEmits DEF RequestOK
<1>3. CASE r.kind = "stop" /\ HandleStop
  <2>1. CASE activeRun = None
    BY <1>3, <2>1 DEF HandleStop
  <2>2. CASE activeRun # None
    BY <1>3, <2>2, StopEmits DEF HandleStop, ServerType
  <2> QED BY <2>1, <2>2
<1>4. CASE r.kind = "stopMode" /\ StopRun(r.mode)
  BY <1>4, StopEmits DEF RequestOK
<1>5. CASE r.kind = "reset" /\ HandleReset
  BY <1>5, ResetEmits
<1> QED BY <1>1, <1>2, <1>3, <1>4, <1>5 DEF Handle

(* What is emitted is appended to the queue of each connected page.        *)
LEMMA EmitType ==
  ASSUME events \in [Browser -> Seq(Event)], NEW es \in Seq(Event), Emit(es)
  PROVE  events' \in [Browser -> Seq(Event)]
<1>1. \A b \in Browser : events[b] \o es \in Seq(Event)
  BY ConcatProperties
<1>2. <<>> \in Seq(Event)
  BY EmptySeq
<1> QED BY <1>1, <1>2 DEF Emit

(* ModeChange as an event.                                                 *)
LEMMA ModeChangeType ==
  ASSUME NEW m \in Mode
  PROVE  /\ ModeChange(m) \in ModeEvent /\ ModeChange(m) \in Event
         /\ ModeChange(m).type = "mode_change" /\ ModeChange(m).mode = m
BY DEF ModeChange, ModeEvent, Event

(* What a page is told when its socket opens.                              *)
LEMMA WelcomeType ==
  ASSUME ServerType
  PROVE  /\ Welcome \in Seq(Event) /\ Welcome # <<>> /\ Len(Welcome) = 2
         /\ Welcome[2] \in UpdateEvent
         /\ Welcome[2].runs = Summaries /\ Welcome[2].currentMode = currentMode
<1> DEFINE u == RunUpdate(runs, activeRun, currentMode, total)
<1>1. u \in UpdateEvent /\ u \in Event /\ u.runs = Summaries /\ u.currentMode = currentMode
  BY UpdateEvents DEF ServerType, Summaries
<1>2. ModeChange(currentMode) \in Event
  BY ModeChangeType DEF ServerType
<1>3. Welcome = <<ModeChange(currentMode), u>>
  BY DEF Welcome
<1> HIDE DEF u
<1> QED BY <1>1, <1>2, <1>3

(* A page that has just been loaded.                                       *)
LEMMA FreshPageType == FreshPage \in PageState /\ FreshPage.activeRun = None
<1>1. Summary(FreshRun) \in SummaryType
  BY FreshRunType DEF Summary, SummaryType, RunType
<1> DEFINE s == [m \in Mode |-> Summary(FreshRun)]
<1>2. s \in [Mode -> SummaryType] /\ "flooding" \in Mode
  BY <1>1 DEF Mode
<1>3. FreshPage = [currentMode |-> "flooding", activeRun |-> None, timer |-> FALSE, runs |-> s]
  BY DEF FreshPage
<1> HIDE DEF s
<1> QED BY <1>2, <1>3 DEF PageState

(* Initially nothing has happened.                                         *)
LEMMA DashboardTypeInit == Init => TypeInv
<1> SUFFICES ASSUME Init PROVE TypeInv
  OBVIOUS
<1>1. /\ Len(<<>>) = 0 /\ <<>> \in Seq(Message) /\ <<>> \in Seq(Event)
  BY EmptySeq
<1>2. ServerType
  BY <1>1, FreshRunType DEF Init, ServerInit, ServerType, Mode
<1>3. number \in [Counter -> Nat] /\ air \in Seq(Message) /\ requests = {}
  BY <1>1 DEF Init, StreamsInit
<1>4. connected \subseteq Browser /\ events \in [Browser -> Seq(Event)]
  BY <1>1 DEF Init, ServerInit
<1>5. PageType
  BY FreshPageType DEF Init, PageType
<1> QED BY <1>2, <1>3, <1>4, <1>5, TypeInvParts

(* Every step keeps TypeInv.                                               *)
LEMMA DashboardTypeStep == TypeInv /\ [Next]_vars => TypeInv'
<1> SUFFICES ASSUME TypeInv, [Next]_vars PROVE TypeInv'
  OBVIOUS
<1> USE DEF streamVars, serverVars
<1>0. /\ ServerType /\ PageType
      /\ number \in [Counter -> Nat] /\ air \in Seq(Message)
      /\ connected \subseteq Browser /\ events \in [Browser -> Seq(Event)]
      /\ \A r \in requests : RequestOK(r)
  BY TypeInvParts
<1> DEFINE Server == UNCHANGED <<currentMode, activeRun, runs, total, heard>>
           Streams == UNCHANGED <<number, air>>
<1>s. Server => ServerType'
  BY <1>0 DEF ServerType
<1>p. UNCHANGED page => PageType'
  BY <1>0 DEF PageType
<1>goal. ASSUME ServerType', PageType',
                (number \in [Counter -> Nat])', (air \in Seq(Message))',
                (connected \subseteq Browser)', (events \in [Browser -> Seq(Event)])',
                (\A r \in requests : RequestOK(r))'
         PROVE  TypeInv'
  BY <1>goal, TypeInvParts, PTL
<1>1. CASE StreamStep /\ UNCHANGED <<serverVars, requests, page>>
  BY <1>0, <1>1, <1>s, <1>p, <1>goal, StreamType
<1>2. CASE HandleMessage /\ UNCHANGED <<requests, page>>
  <2>1. ServerType' /\ air' \in Seq(Message)
    BY <1>0, <1>2, MessageType
  <2>2. number' = number /\ connected' = connected
    BY <1>2 DEF HandleMessage
  <2>3. events' \in [Browser -> Seq(Event)]
    BY <1>0, <1>2, MessageEmits, EmitType DEF EmitsUpdate
  <2> QED BY <1>0, <1>2, <1>p, <1>goal, <2>1, <2>2, <2>3
<1>3. CASE Serve
  <2>1. PICK r \in requests :
           Handle(r) /\ requests' = requests \ {r} /\ UNCHANGED <<streamVars, connected, page>>
    BY <1>3 DEF Serve
  <2>2. RequestOK(r)
    BY <1>0
  <2>3. ServerType'
    BY <1>0, <2>1, <2>2, HandleType
  <2>4. events' \in [Browser -> Seq(Event)]
    <3>1. ASSUME NEW m \in Mode PROVE <<ModeChange(m)>> \in Seq(Event)
      BY ModeChangeType
    <3> QED BY <1>0, <2>1, <2>2, <3>1, HandleEmits, EmitType DEF EmitsUpdate
  <2> QED BY <1>0, <2>1, <2>3, <2>4, <1>p, <1>goal
<1>4. CASE Script
  <2>1. PICK m \in Mode : Request("stopMode", m) /\ UNCHANGED page
    BY <1>4 DEF Script
  <2>2. \A r \in requests' : RequestOK(r)
    <3>1. RequestOK([kind |-> "stopMode", mode |-> m, n |-> budget.requests])
      BY DEF RequestOK
    <3> QED BY <1>0, <2>1, <3>1 DEF Request
  <2>3. Server /\ Streams /\ UNCHANGED <<connected, events>>
    BY <2>1 DEF Request
  <2> QED BY <1>0, <1>s, <1>p, <1>goal, <2>1, <2>2, <2>3
<1>5. ASSUME NEW b \in Browser, PageStep(b) PROVE TypeInv'
  <2>1. CASE Press(b)
    <3>1. PageType' /\ \A r \in requests' : RequestOK(r)
      BY <1>0, <2>1, PressType
    <3>2. Server /\ Streams /\ UNCHANGED <<connected, events>>
      BY <2>1 DEF Press, SetMode, StartRun, StopButton, ResetAll, Request
    <3> QED BY <1>0, <1>s, <1>goal, <3>1, <3>2
  <2>2. CASE OnModeChange(b) \/ OnRunStarted(b) \/ OnRunStopped(b) \/ OnRunUpdate(b)
    <3>1. PICK type : Receiving(b, type)
      BY <2>2 DEF OnModeChange, OnRunStarted, OnRunStopped, OnRunUpdate
    <3>2. PageType'
      BY <1>0, <2>2, EventType
    <3>3. Server /\ Streams /\ UNCHANGED <<connected, requests>>
      BY <3>1 DEF Receiving
    <3>4. events' \in [Browser -> Seq(Event)]
      BY <1>0, <3>1 DEF Receiving
    <3> QED BY <1>0, <1>s, <1>goal, <3>2, <3>3, <3>4
  <2>3. CASE SocketCloses(b) /\ UNCHANGED <<requests, page>>
    <3>1. events' \in [Browser -> Seq(Event)] /\ connected' \subseteq Browser
      BY <1>0, <2>3, EmptySeq DEF SocketCloses
    <3> QED BY <1>0, <2>3, <3>1, <1>s, <1>p, <1>goal DEF SocketCloses
  <2>4. CASE Reconnect(b) \/ Reload(b)
    <3>1. SocketOpens(b) /\ requests' = requests
      BY <2>4 DEF Reconnect, Reload
    <3>2. events' \in [Browser -> Seq(Event)] /\ connected' \subseteq Browser
      BY <1>0, <3>1, WelcomeType DEF SocketOpens
    <3>3. PageType'
      <4>1. CASE page' = page
        BY <4>1, <1>p
      <4>2. CASE page' = [page EXCEPT ![b] = FreshPage]
        <5>1. FreshPage \in PageState /\ FreshPage.activeRun = None
          BY FreshPageType
        <5> QED BY <1>0, <4>2, <5>1 DEF PageType
      <4> QED BY <2>4, <4>1, <4>2 DEF Reconnect, Reload
    <3> QED BY <1>0, <3>1, <3>2, <3>3, <1>s, <1>goal DEF SocketOpens
  <2> QED BY <1>5, <2>1, <2>2, <2>3, <2>4 DEF PageStep
<1>6. CASE UNCHANGED vars
  BY <1>0, <1>6, <1>s, <1>p, <1>goal DEF vars
<1> QED BY <1>1, <1>2, <1>3, <1>4, <1>5, <1>6 DEF Next

(* TypeInv always holds.                                                   *)
LEMMA TypeInvariant == Spec => []TypeInv
BY DashboardTypeInit, DashboardTypeStep, PTL DEF Spec

(* TypeOK: every counter keeps its type, a run has counted as many         *)
(* messages as it heard and not more duplicates than messages, and a page  *)
(* with an active run has its timer.                                       *)
THEOREM DashboardTypeCorrect == Spec => []TypeOK
<1>1. TypeInv => TypeOK
  BY DEF TypeInv
<1> QED BY <1>1, TypeInvariant, PTL

(***************************************************************************)
(* Runs.                                                                   *)
(***************************************************************************)

(* _stopRun clears activeRun with the flag of the active run, and no more. *)
LEMMA StopKeepsOneRun ==
  ASSUME ServerType, OneRun, NEW m \in Mode, StopRun(m)
  PROVE  OneRun'
<1>1. runs' = RunsWithout(m) /\ activeRun' = ActiveWithout(m)
  BY DEF StopRun
<1>2. \A x \in Mode : runs'[x].active = (x # m /\ runs[x].active)
  BY <1>1, RunsWithoutType DEF ServerType
<1>3. CASE activeRun = m
  BY <1>1, <1>2, <1>3, ModeAssumption DEF OneRun, ActiveWithout
<1>4. CASE activeRun # m
  BY <1>1, <1>2, <1>4 DEF OneRun, ActiveWithout
<1> QED BY <1>3, <1>4

(* Every step keeps the active flags and activeRun in agreement.           *)
LEMMA OneRunStep == TypeInv /\ OneRun /\ [Next]_vars => OneRun'
<1> SUFFICES ASSUME TypeInv, OneRun, [Next]_vars PROVE OneRun'
  OBVIOUS
<1> USE DEF streamVars, serverVars
<1>0. /\ ServerType /\ air \in Seq(Message)
      /\ \A r \in requests : RequestOK(r)
  BY TypeInvParts
<1>u. UNCHANGED <<runs, activeRun>> => OneRun'
  BY DEF OneRun
<1>1. CASE StreamStep /\ UNCHANGED <<serverVars, requests, page>>
  BY <1>1, <1>u
<1>2. CASE HandleMessage /\ UNCHANGED <<requests, page>>
  <2>1. Count(activeRun, Head(air)) /\ activeRun' = activeRun /\ Head(air) \in Message
    BY <1>0, <1>2 DEF HandleMessage
  <2>2. CASE activeRun = None
    BY <2>1, <2>2, <1>u DEF Count
  <2>3. CASE activeRun # None
    <3> DEFINE t == Tracked(runs[activeRun], Head(air))
               r == Counted(runs[activeRun], Head(air))
    <3>1. activeRun \in Mode /\ runs[activeRun] \in RunType
      BY <1>0, <2>3 DEF ServerType
    <3>2. t \in RunType /\ t.active = runs[activeRun].active
      BY <2>1, <3>1, TrackedType
    <3>3. r.active = runs[activeRun].active
      BY <3>2 DEF Counted, RunType
    <3>4. runs' = [runs EXCEPT ![activeRun] = r]
      BY <2>1, <2>3 DEF Count
    <3> HIDE DEF r
    <3>5. \A x \in Mode : runs'[x].active = runs[x].active
      BY <1>0, <3>1, <3>3, <3>4 DEF ServerType
    <3> QED BY <2>1, <3>5 DEF OneRun
  <2> QED BY <2>2, <2>3
<1>3. CASE Serve
  <2>1. PICK r \in requests : Handle(r)
    BY <1>3 DEF Serve
  <2>2. RequestOK(r)
    BY <1>0
  <2>3. CASE r.kind = "mode" /\ HandleMode(r.mode)
    BY <2>3, <1>u DEF HandleMode
  <2>4. CASE r.kind = "start" /\ HandleStart(r.mode)
    <3>1. r.mode \in Mode /\ activeRun' = r.mode
      BY <2>2, <2>4 DEF RequestOK, HandleStart
    <3>2. /\ runs'[r.mode].active = TRUE
          /\ \A x \in Mode \ {r.mode} : runs'[x].active = (x # activeRun /\ runs[x].active)
      <4>1. [FreshRun EXCEPT !.active = TRUE].active = TRUE
        BY DEF FreshRun
      <4> QED BY <1>0, <2>4, <3>1, <4>1, StartedRuns DEF ServerType
    <3> QED BY <3>1, <3>2 DEF OneRun
  <2>5. CASE r.kind = "stop" /\ HandleStop
    <3>1. CASE activeRun = None
      BY <2>5, <3>1, <1>u DEF HandleStop
    <3>2. CASE activeRun # None
      BY <1>0, <2>5, <3>2, StopKeepsOneRun DEF HandleStop, ServerType
    <3> QED BY <3>1, <3>2
  <2>6. CASE r.kind = "stopMode" /\ StopRun(r.mode)
    BY <1>0, <2>2, <2>6, StopKeepsOneRun DEF RequestOK
  <2>7. CASE r.kind = "reset" /\ HandleReset
    BY <2>7, FreshRunType, ModeAssumption DEF HandleReset, OneRun
  <2> QED BY <2>1, <2>3, <2>4, <2>5, <2>6, <2>7 DEF Handle
<1>4. CASE Script
  BY <1>4, <1>u DEF Script, Request
<1>5. ASSUME NEW b \in Browser, PageStep(b) PROVE OneRun'
  <2>1. UNCHANGED <<runs, activeRun>>
    BY <1>5 DEF PageStep, Press, SetMode, StartRun, StopButton, ResetAll, Request,
       OnModeChange, OnRunStarted, OnRunStopped, OnRunUpdate, Receiving,
       Reconnect, Reload, SocketOpens, SocketCloses
  <2> QED BY <2>1, <1>u
<1>6. CASE UNCHANGED vars
  BY <1>6, <1>u DEF vars
<1> QED BY <1>1, <1>2, <1>3, <1>4, <1>5, <1>6 DEF Next

(* OneRun: whatever is pressed on however many pages, at most one run is   *)
(* active, and it is the one that counts.                                  *)
THEOREM OneRunHolds == Spec => []OneRun
<1>1. Init => OneRun
  BY FreshRunType, ModeAssumption DEF Init, ServerInit, OneRun
<1> QED BY <1>1, OneRunStep, TypeInvariant, PTL DEF Spec

(* What no step may do to the counts of run m.                             *)
KeepsCounts(m) ==
  /\ runs'[m].pkts = runs[m].pkts
  /\ runs'[m].gaps = runs[m].gaps
  /\ runs'[m].dupes = runs[m].dupes

(* The counts of a run that is not active stay, unless it begins anew.     *)
LEMMA CountsStep ==
  ASSUME TypeInv, Next, NEW m \in Mode
  PROVE  KeepsCounts(m) \/ activeRun = m \/ heard'[m] = <<>>
<1> USE DEF streamVars, serverVars
<1>0. /\ ServerType /\ air \in Seq(Message)
      /\ \A r \in requests : RequestOK(r)
  BY TypeInvParts
<1>u. runs' = runs => KeepsCounts(m)
  BY DEF KeepsCounts
<1>s. ASSUME NEW x \in Mode, StopRun(x) PROVE KeepsCounts(m)
  <2>1. runs' = RunsWithout(x)
    BY <1>s DEF StopRun
  <2> QED BY <1>0, <2>1, RunsWithoutType DEF ServerType, KeepsCounts
<1>1. CASE HandleMessage
  <2>1. Count(activeRun, Head(air))
    BY <1>1 DEF HandleMessage
  <2>2. CASE activeRun = None
    BY <2>1, <2>2, <1>u DEF Count
  <2>3. CASE activeRun # None /\ activeRun # m
    <3>1. runs'[m] = runs[m]
      BY <1>0, <2>1, <2>3 DEF Count, ServerType
    <3> QED BY <3>1 DEF KeepsCounts
  <2> QED BY <2>2, <2>3
<1>2. CASE Serve
  <2>1. PICK r \in requests : Handle(r)
    BY <1>2 DEF Serve
  <2>2. RequestOK(r)
    BY <1>0
  <2>3. CASE r.kind = "mode" /\ HandleMode(r.mode)
    BY <2>3, <1>u DEF HandleMode
  <2>4. CASE r.kind = "start" /\ HandleStart(r.mode)
    <3>1. r.mode \in Mode /\ heard' = [heard EXCEPT ![r.mode] = <<>>]
      BY <2>2, <2>4 DEF RequestOK, HandleStart
    <3>2. m = r.mode => heard'[m] = <<>>
      BY <1>0, <3>1 DEF ServerType
    <3>3. m # r.mode => KeepsCounts(m)
      BY <1>0, <2>4, <3>1, StartedRuns DEF ServerType, KeepsCounts
    <3> QED BY <3>2, <3>3
  <2>5. CASE r.kind = "stop" /\ HandleStop
    BY <1>0, <2>5, <1>u, <1>s DEF HandleStop, ServerType
  <2>6. CASE r.kind = "stopMode" /\ StopRun(r.mode)
    BY <2>2, <2>6, <1>s DEF RequestOK
  <2>7. CASE r.kind = "reset" /\ HandleReset
    BY <2>7 DEF HandleReset
  <2> QED BY <2>1, <2>3, <2>4, <2>5, <2>6, <2>7 DEF Handle
<1>3. CASE Script
  BY <1>3, <1>u DEF Script, Request
<1>4. ASSUME NEW b \in Browser, PageStep(b) PROVE KeepsCounts(m)
  <2>1. UNCHANGED runs
    BY <1>4 DEF PageStep, Press, SetMode, StartRun, StopButton, ResetAll, Request,
       OnModeChange, OnRunStarted, OnRunStopped, OnRunUpdate, Receiving,
       Reconnect, Reload, SocketOpens, SocketCloses
  <2> QED BY <2>1, <1>u
<1>5. CASE UNCHANGED serverVars
  BY <1>5, <1>u
<1> QED BY <1>1, <1>2, <1>3, <1>4, <1>5 DEF Next

(* FinishedRunsKeep: no message, request or event, in whatever order they  *)
(* arrive, changes the counts of a run that is not active, other than by   *)
(* starting it anew.                                                       *)
THEOREM FinishedRunsAreKept == Spec => FinishedRunsKeep
<1> DEFINE A == \A m \in Mode :
                  <<runs'[m].pkts, runs'[m].gaps, runs'[m].dupes>>
                    # <<runs[m].pkts, runs[m].gaps, runs[m].dupes>>
                  => activeRun = m \/ heard'[m] = <<>>
<1>1. TypeInv /\ Next => A
  BY CountsStep DEF KeepsCounts
<1>2. TypeInv /\ [Next]_vars => [A]_vars
  BY <1>1
<1> HIDE DEF A
<1>3. Spec => [][A]_vars
  BY <1>2, TypeInvariant, PTL DEF Spec
<1> QED BY <1>3 DEF A, FinishedRunsKeep

(***************************************************************************)
(* Pages.                                                                  *)
(***************************************************************************)

(* The events that tell a page the label, and the label they tell.         *)
TellsMode(e) == e.type \in {"mode_change", "run_update"}

ModeTold(e) == IF e.type = "mode_change" THEN e.mode ELSE e.currentMode

(* The last event in queue q that tells the label tells m, and the last    *)
(* that tells the counts tells s.                                          *)
LastMode(q, m) ==
  \A i \in 1 .. Len(q) :
    TellsMode(q[i]) /\ (\A j \in 1 .. Len(q) : j > i => ~TellsMode(q[j]))
      => ModeTold(q[i]) = m

LastRuns(q, s) ==
  \A i \in 1 .. Len(q) :
    /\ q[i].type = "run_update"
    /\ \A j \in 1 .. Len(q) : j > i => q[j].type # "run_update"
    => q[i].runs = s

SomeMode(q) == \E i \in 1 .. Len(q) : TellsMode(q[i])
SomeRuns(q) == \E i \in 1 .. Len(q) : q[i].type = "run_update"

(* An update at the end of a queue is the last word.                       *)
LEMMA UpdateLast ==
  ASSUME NEW q \in Seq(Event), NEW es \in Seq(Event), es # <<>>,
         es[Len(es)] \in UpdateEvent
  PROVE  /\ LastMode(q \o es, es[Len(es)].currentMode) /\ SomeMode(q \o es)
         /\ LastRuns(q \o es, es[Len(es)].runs) /\ SomeRuns(q \o es)
<1> DEFINE all == q \o es
           u == es[Len(es)]
<1>1. Len(es) \in Nat \ {0} /\ Len(q) \in Nat
  BY EmptySeq
<1>2. Len(all) = Len(q) + Len(es) /\ all[Len(all)] = u
  BY <1>1, ConcatProperties
<1>3. u.type = "run_update"
  BY DEF UpdateEvent
<1>4. Len(all) \in 1 .. Len(all)
  BY <1>1, <1>2
<1> HIDE DEF all, u
<1>5. SomeMode(all) /\ SomeRuns(all)
  BY <1>2, <1>3, <1>4 DEF SomeMode, SomeRuns, TellsMode
<1>6. LastMode(all, u.currentMode) /\ LastRuns(all, u.runs)
  <2> SUFFICES ASSUME NEW i \in 1 .. Len(all)
               PROVE  /\ TellsMode(all[i])
                           /\ (\A j \in 1 .. Len(all) : j > i => ~TellsMode(all[j]))
                         => ModeTold(all[i]) = u.currentMode
                      /\ all[i].type = "run_update"
                           /\ (\A j \in 1 .. Len(all) : j > i => all[j].type # "run_update")
                         => all[i].runs = u.runs
    BY DEF LastMode, LastRuns
  <2>1. CASE i = Len(all)
    BY <1>2, <1>3, <2>1 DEF ModeTold
  <2>2. CASE i # Len(all)
    <3>1. Len(all) > i
      BY <1>1, <1>2, <2>2
    <3> QED BY <1>2, <1>3, <1>4, <3>1 DEF TellsMode
  <2> QED BY <2>1, <2>2
<1> QED BY <1>5, <1>6 DEF all, u

(* A mode_change at the end is the last word on the label, and says        *)
(* nothing of the counts.                                                  *)
LEMMA ModeChangeLast ==
  ASSUME NEW q \in Seq(Event), NEW m \in Mode, NEW s
  PROVE  LET all == q \o <<ModeChange(m)>>
         IN  /\ LastMode(all, m) /\ SomeMode(all)
             /\ LastRuns(q, s) => LastRuns(all, s)
             /\ SomeRuns(q) => SomeRuns(all)
<1> DEFINE e == ModeChange(m)
           all == q \o <<e>>
<1>1. e \in Event /\ e.type = "mode_change" /\ e.mode = m
  BY ModeChangeType
<1> HIDE DEF e
<1>2. /\ Len(q) \in Nat /\ Len(all) = Len(q) + 1
      /\ all[Len(all)] = e
      /\ \A i \in 1 .. Len(q) : all[i] = q[i]
  BY <1>1
<1> HIDE DEF all
<1>3. LastMode(all, m)
  <2> SUFFICES ASSUME NEW i \in 1 .. Len(all), TellsMode(all[i]),
                      \A j \in 1 .. Len(all) : j > i => ~TellsMode(all[j])
               PROVE  ModeTold(all[i]) = m
    BY DEF LastMode
  <2>1. i = Len(all)
    <3>1. Len(all) \in 1 .. Len(all) /\ TellsMode(all[Len(all)])
      BY <1>1, <1>2 DEF TellsMode
    <3> QED BY <1>2, <3>1
  <2> QED BY <1>1, <1>2, <2>1 DEF ModeTold
<1>4. SomeMode(all)
  <2>1. Len(all) \in 1 .. Len(all)
    BY <1>2
  <2> QED BY <1>1, <1>2, <2>1 DEF SomeMode, TellsMode
<1>5. ASSUME LastRuns(q, s) PROVE LastRuns(all, s)
  <2> SUFFICES ASSUME NEW i \in 1 .. Len(all), all[i].type = "run_update",
                      \A j \in 1 .. Len(all) : j > i => all[j].type # "run_update"
               PROVE  all[i].runs = s
    BY DEF LastRuns
  <2>1. i \in 1 .. Len(q)
    <3>1. i # Len(all)
      BY <1>1, <1>2
    <3> QED BY <1>2, <3>1
  <2>2. q[i].type = "run_update" /\ \A j \in 1 .. Len(q) : j > i => q[j].type # "run_update"
    <3>1. \A j \in 1 .. Len(q) : j \in 1 .. Len(all)
      BY <1>2
    <3> QED BY <1>2, <2>1, <3>1
  <2> QED BY <1>2, <1>5, <2>1, <2>2 DEF LastRuns
<1>6. SomeRuns(q) => SomeRuns(all)
  <2>1. \A i \in 1 .. Len(q) : i \in 1 .. Len(all)
    BY <1>2
  <2> QED BY <1>2, <2>1 DEF SomeRuns
<1> QED BY <1>3, <1>4, <1>5, <1>6 DEF all, e

(* Taking the head of a queue leaves its last words, and leaves some word  *)
(* unless the head was the last.                                           *)
LEMMA TailLast ==
  ASSUME NEW q \in Seq(Event), q # <<>>, NEW m, NEW s, LastMode(q, m), LastRuns(q, s)
  PROVE  /\ LastMode(Tail(q), m) /\ LastRuns(Tail(q), s)
         /\ SomeMode(q) /\ ~SomeMode(Tail(q)) => TellsMode(Head(q)) /\ ModeTold(Head(q)) = m
         /\ SomeRuns(q) /\ ~SomeRuns(Tail(q)) =>
              Head(q).type = "run_update" /\ Head(q).runs = s
<1> DEFINE t == Tail(q)
<1>1. /\ Len(q) \in Nat \ {0} /\ Len(t) = Len(q) - 1
      /\ Head(q) = q[1] /\ \A i \in 1 .. Len(t) : t[i] = q[i + 1]
  BY EmptySeq, HeadTailProperties
<1> HIDE DEF t
<1>2. /\ \A i \in 1 .. Len(t) : i + 1 \in 1 .. Len(q)
      /\ \A i \in 1 .. Len(q) : i = 1 \/ i - 1 \in 1 .. Len(t)
  BY <1>1
<1>3. \A i \in 1 .. Len(q) : i # 1 => q[i] = t[i - 1]
  BY <1>1, <1>2
<1>4. LastMode(t, m)
  <2> SUFFICES ASSUME NEW i \in 1 .. Len(t), TellsMode(t[i]),
                      \A j \in 1 .. Len(t) : j > i => ~TellsMode(t[j])
               PROVE  ModeTold(t[i]) = m
    BY DEF LastMode
  <2>1. ASSUME NEW j \in 1 .. Len(q), j > i + 1 PROVE ~TellsMode(q[j])
    <3>1. j # 1 /\ j - 1 \in 1 .. Len(t) /\ j - 1 > i
      BY <1>2, <2>1
    <3> QED BY <1>3, <3>1
  <2> QED BY <1>1, <1>2, <2>1 DEF LastMode
<1>5. LastRuns(t, s)
  <2> SUFFICES ASSUME NEW i \in 1 .. Len(t), t[i].type = "run_update",
                      \A j \in 1 .. Len(t) : j > i => t[j].type # "run_update"
               PROVE  t[i].runs = s
    BY DEF LastRuns
  <2>1. ASSUME NEW j \in 1 .. Len(q), j > i + 1 PROVE q[j].type # "run_update"
    <3>1. j # 1 /\ j - 1 \in 1 .. Len(t) /\ j - 1 > i
      BY <1>2, <2>1
    <3> QED BY <1>3, <3>1
  <2> QED BY <1>1, <1>2, <2>1 DEF LastRuns
<1>6. ASSUME SomeMode(q), ~SomeMode(t) PROVE TellsMode(Head(q)) /\ ModeTold(Head(q)) = m
  <2>1. \A i \in 1 .. Len(q) : i # 1 => ~TellsMode(q[i])
    BY <1>2, <1>3, <1>6 DEF SomeMode
  <2>2. 1 \in 1 .. Len(q) /\ TellsMode(q[1])
    BY <1>1, <1>6, <2>1 DEF SomeMode
  <2> QED BY <1>1, <2>1, <2>2 DEF LastMode
<1>7. ASSUME SomeRuns(q), ~SomeRuns(t)
      PROVE  Head(q).type = "run_update" /\ Head(q).runs = s
  <2>1. \A i \in 1 .. Len(q) : i # 1 => q[i].type # "run_update"
    BY <1>2, <1>3, <1>7 DEF SomeRuns
  <2>2. 1 \in 1 .. Len(q) /\ q[1].type = "run_update"
    BY <1>1, <1>7, <2>1 DEF SomeRuns
  <2> QED BY <1>1, <2>1, <2>2 DEF LastRuns
<1> QED BY <1>4, <1>5, <1>6, <1>7 DEF t

(* What a page knows or will be told: the strengthening of PagesAgree.     *)
WillAgree(b) ==
  /\ LastMode(events[b], currentMode)
  /\ LastRuns(events[b], Summaries)
  /\ \/ SomeMode(events[b])
     \/ page[b].currentMode = currentMode
     \/ \E r \in requests : r.kind \in {"mode", "start"}
  /\ SomeRuns(events[b]) \/ page[b].runs = Summaries

PagesInv == \A b \in connected : WillAgree(b)

(* When nothing is under way, what a page will know it knows.              *)
LEMMA QuietPagesAgree == TypeInv /\ PagesInv => PagesAgree
<1> SUFFICES ASSUME TypeInv, PagesInv, Quiet, NEW b \in connected
             PROVE  page[b].currentMode = currentMode /\ page[b].runs = Summaries
  BY DEF PagesAgree, Summaries, SummariesOf
<1>1. events[b] = <<>> /\ requests = {}
  BY DEF Quiet
<1>2. ~SomeMode(events[b]) /\ ~SomeRuns(events[b])
  BY <1>1 DEF SomeMode, SomeRuns
<1> QED BY <1>1, <1>2 DEF PagesInv, WillAgree

(* After broadcastUpdate every page will know everything.                  *)
LEMMA UpdateAgrees ==
  ASSUME TypeInv, EmitsUpdate, connected' = connected
  PROVE  PagesInv'
<1>0. connected \subseteq Browser /\ events \in [Browser -> Seq(Event)]
  BY TypeInvParts
<1>1. PICK es \in Seq(Event) :
        /\ Emit(es) /\ es # <<>> /\ es[Len(es)] \in UpdateEvent
        /\ es[Len(es)].runs = Summaries' /\ es[Len(es)].currentMode = currentMode'
  BY DEF EmitsUpdate
<1>2. ASSUME NEW b \in connected
      PROVE  /\ LastMode(events'[b], currentMode') /\ SomeMode(events'[b])
             /\ LastRuns(events'[b], Summaries') /\ SomeRuns(events'[b])
  <2>1. events'[b] = events[b] \o es /\ events[b] \in Seq(Event)
    BY <1>0, <1>1 DEF Emit
  <2> QED BY <1>1, <2>1, UpdateLast
<1> QED BY <1>2 DEF PagesInv, WillAgree

(* A page that has just been connected will know everything.               *)
LEMMA WelcomeAgrees ==
  ASSUME ServerType
  PROVE  /\ LastMode(Welcome, currentMode) /\ SomeMode(Welcome)
         /\ LastRuns(Welcome, Summaries) /\ SomeRuns(Welcome)
<1>1. <<>> \in Seq(Event) /\ <<>> \o Welcome = Welcome
  BY WelcomeType, EmptySeq, ConcatEmptySeq
<1>2. Welcome[Len(Welcome)] \in UpdateEvent
  BY WelcomeType
<1> QED BY <1>1, <1>2, WelcomeType, UpdateLast

(* A request with a label will, when served, tell it to all pages, so a    *)
(* page may show a label before the server has it.                         *)
LEMMA ServeAgrees ==
  ASSUME TypeInv, PagesInv, Serve
  PROVE  PagesInv'
<1>0. /\ ServerType /\ connected \subseteq Browser /\ events \in [Browser -> Seq(Event)]
      /\ \A r \in requests : RequestOK(r)
  BY TypeInvParts
<1>1. PICK r \in requests :
         Handle(r) /\ requests' = requests \ {r} /\ UNCHANGED <<streamVars, connected, page>>
  BY DEF Serve
<1>2. RequestOK(r)
  BY <1>0
<1>3. CASE EmitsUpdate
  BY <1>1, <1>3, UpdateAgrees
<1>4. CASE /\ r.kind = "mode" /\ r.mode \in Mode
           /\ Emit(<<ModeChange(r.mode)>>)
           /\ currentMode' = r.mode /\ runs' = runs
  <2> SUFFICES ASSUME NEW b \in connected PROVE WillAgree(b)'
    BY <1>1 DEF PagesInv
  <2>1. events'[b] = events[b] \o <<ModeChange(r.mode)>> /\ events[b] \in Seq(Event)
    BY <1>0, <1>4 DEF Emit
  <2>2. Summaries' = Summaries /\ page' = page
    BY <1>1, <1>4 DEF Summaries, SummariesOf, Summary
  <2>3. LastRuns(events[b], Summaries) /\ (SomeRuns(events[b]) \/ page[b].runs = Summaries)
    BY DEF PagesInv, WillAgree
  <2>4. /\ LastMode(events'[b], currentMode') /\ SomeMode(events'[b])
        /\ LastRuns(events'[b], Summaries)
        /\ SomeRuns(events[b]) => SomeRuns(events'[b])
    BY <1>4, <2>1, <2>3, ModeChangeLast
  <2> QED BY <2>2, <2>3, <2>4 DEF WillAgree
<1>5. CASE r.kind \notin {"mode", "start"} /\ UNCHANGED <<currentMode, runs, events>>
  <2>1. \A x \in requests : x.kind \in {"mode", "start"} => x \in requests'
    BY <1>1, <1>5
  <2>2. Summaries' = Summaries
    BY <1>5 DEF Summaries, SummariesOf, Summary
  <2> QED BY <1>1, <1>5, <2>1, <2>2 DEF PagesInv, WillAgree
<1> QED BY <1>0, <1>1, <1>2, <1>3, <1>4, <1>5, HandleEmits

(* An event that a page handles leaves it with the last word or with more  *)
(* to come.                                                                *)
LEMMA EventAgrees ==
  ASSUME TypeInv, PagesInv, NEW b \in Browser,
         OnModeChange(b) \/ OnRunStarted(b) \/ OnRunStopped(b) \/ OnRunUpdate(b)
  PROVE  PagesInv'
<1>0. /\ connected \subseteq Browser /\ events \in [Browser -> Seq(Event)]
      /\ page \in [Browser -> PageState]
  BY TypeInvParts DEF PageType
<1> DEFINE e == Head(events[b])
<1>1. PICK type : Receiving(b, type)
  BY DEF OnModeChange, OnRunStarted, OnRunStopped, OnRunUpdate
<1>2. /\ b \in connected /\ events[b] # <<>> /\ events[b] \in Seq(Event)
      /\ events' = [events EXCEPT ![b] = Tail(@)]
      /\ UNCHANGED <<currentMode, runs, connected, requests>>
  BY <1>0, <1>1 DEF Receiving
<1>3. Summaries' = Summaries
  BY <1>2 DEF Summaries, SummariesOf, Summary
<1>4. ASSUME NEW c \in connected, c # b PROVE WillAgree(c)'
  <2>1. events'[c] = events[c] /\ page'[c] = page[c]
    BY <1>0, <1>2, <1>4 DEF OnModeChange, OnRunStarted, OnRunStopped, OnRunUpdate
  <2> QED BY <1>2, <1>3, <2>1 DEF PagesInv, WillAgree
<1>5. WillAgree(b)'
  <2>1. events'[b] = Tail(events[b]) /\ page[b] \in PageState
    BY <1>0, <1>2
  <2>2. LastMode(events[b], currentMode) /\ LastRuns(events[b], Summaries)
    BY <1>2 DEF PagesInv, WillAgree
  <2>3. /\ LastMode(events'[b], currentMode) /\ LastRuns(events'[b], Summaries)
        /\ SomeMode(events[b]) /\ ~SomeMode(events'[b]) => TellsMode(e) /\ ModeTold(e) = currentMode
        /\ SomeRuns(events[b]) /\ ~SomeRuns(events'[b]) => e.type = "run_update" /\ e.runs = Summaries
    BY <1>2, <2>1, <2>2, TailLast
  <2>4. /\ TellsMode(e) => page'[b].currentMode = ModeTold(e)
        /\ ~TellsMode(e) => page'[b].currentMode = page[b].currentMode
        /\ e.type = "run_update" => page'[b].runs = e.runs
        /\ e.type # "run_update" => page'[b].runs = page[b].runs
    <3>1. CASE OnModeChange(b)
      BY <1>0, <2>1, <3>1 DEF OnModeChange, Receiving, TellsMode, ModeTold, PageState
    <3>2. CASE OnRunStarted(b)
      BY <1>0, <2>1, <3>2 DEF OnRunStarted, Receiving, TellsMode, ModeTold, PageState
    <3>3. CASE OnRunStopped(b)
      BY <1>0, <2>1, <3>3 DEF OnRunStopped, Receiving, TellsMode, ModeTold, PageState
    <3>4. CASE OnRunUpdate(b)
      <4>1. e.type = "run_update"
        BY <3>4 DEF OnRunUpdate, Receiving
      <4>2. page'[b].runs = e.runs /\ page'[b].currentMode = e.currentMode
        BY <1>0, <2>1, <3>4 DEF OnRunUpdate, PageState
      <4> QED BY <4>1, <4>2 DEF TellsMode, ModeTold
    <3> QED BY <3>1, <3>2, <3>3, <3>4
  <2>5. /\ TellsMode(e) => SomeMode(events[b])
        /\ e.type = "run_update" => SomeRuns(events[b])
    <3>1. 1 \in 1 .. Len(events[b]) /\ e = events[b][1]
      BY <1>2, EmptySeq
    <3> QED BY <3>1 DEF SomeMode, SomeRuns
  <2>6. /\ \/ SomeMode(events[b]) \/ page[b].currentMode = currentMode
           \/ \E r \in requests : r.kind \in {"mode", "start"}
        /\ SomeRuns(events[b]) \/ page[b].runs = Summaries
    BY <1>2 DEF PagesInv, WillAgree
  <2>7. \/ SomeMode(events'[b]) \/ page'[b].currentMode = currentMode
        \/ \E r \in requests : r.kind \in {"mode", "start"}
    BY <2>3, <2>4, <2>5, <2>6
  <2>8. SomeRuns(events'[b]) \/ page'[b].runs = Summaries
    BY <2>3, <2>4, <2>5, <2>6
  <2> QED BY <1>2, <1>3, <2>3, <2>7, <2>8 DEF WillAgree
<1> QED BY <1>2, <1>4, <1>5 DEF PagesInv

(* Every step keeps PagesInv.                                              *)
LEMMA PagesStep == TypeInv /\ PagesInv /\ [Next]_vars => PagesInv'
<1> SUFFICES ASSUME TypeInv, PagesInv, [Next]_vars PROVE PagesInv'
  OBVIOUS
<1> USE DEF streamVars, serverVars
<1>0. /\ ServerType /\ PageType /\ air \in Seq(Message)
      /\ connected \subseteq Browser /\ events \in [Browser -> Seq(Event)]
      /\ \A r \in requests : RequestOK(r)
  BY TypeInvParts
<1>s. runs' = runs => Summaries' = Summaries
  BY DEF Summaries, SummariesOf, Summary
<1>u. UNCHANGED <<currentMode, runs, events, connected, page, requests>> => PagesInv'
  BY <1>s DEF PagesInv, WillAgree
<1>1. CASE StreamStep /\ UNCHANGED <<serverVars, requests, page>>
  BY <1>1, <1>u
<1>2. CASE HandleMessage /\ UNCHANGED <<requests, page>>
  <2>1. connected' = connected
    BY <1>2 DEF HandleMessage
  <2>2. CASE EmitsUpdate
    BY <2>1, <2>2, UpdateAgrees
  <2>3. CASE UNCHANGED <<runs, events, currentMode>>
    BY <1>2, <2>1, <2>3, <1>u
  <2> QED BY <1>0, <1>2, <2>2, <2>3, MessageEmits
<1>3. CASE Serve
  BY <1>3, ServeAgrees
<1>r. ASSUME UNCHANGED <<currentMode, runs, events, connected>>, requests \subseteq requests',
             NEW b \in connected,
             page'[b].runs = page[b].runs,
             \/ page'[b].currentMode = page[b].currentMode
             \/ \E r \in requests' : r.kind \in {"mode", "start"}
      PROVE  WillAgree(b)'
  BY <1>s, <1>r DEF PagesInv, WillAgree
<1>4. CASE Script
  <2>1. /\ UNCHANGED <<currentMode, runs, events, connected, page>>
        /\ requests \subseteq requests'
    BY <1>4 DEF Script, Request
  <2> QED BY <2>1, <1>r DEF PagesInv
<1>5. ASSUME NEW b \in Browser, PageStep(b) PROVE PagesInv'
  <2>1. CASE Press(b)
    <3>1. /\ UNCHANGED <<currentMode, runs, events, connected>>
          /\ requests \subseteq requests'
      BY <2>1 DEF Press, SetMode, StartRun, StopButton, ResetAll, Request
    <3>2. page[b] \in PageState /\ page \in [Browser -> PageState]
      BY <1>0 DEF PageType
    <3>3. \A c \in connected : page'[c].runs = page[c].runs
      <4>1. ASSUME NEW m \in Mode, SetMode(b, m) PROVE \A c \in connected : page'[c].runs = page[c].runs
        BY <1>0, <3>2, <4>1 DEF SetMode, PageState
      <4>2. ASSUME NEW m \in Mode, StartRun(b, m) PROVE \A c \in connected : page'[c].runs = page[c].runs
        BY <1>0, <3>2, <4>2 DEF StartRun, PageState
      <4>3. CASE StopButton(b)
        BY <1>0, <3>2, <4>3 DEF StopButton, PageState
      <4>4. CASE ResetAll
        BY <4>4 DEF ResetAll
      <4> QED BY <2>1, <4>1, <4>2, <4>3, <4>4 DEF Press
    <3>4. ASSUME NEW c \in connected
          PROVE  \/ page'[c].currentMode = page[c].currentMode
                 \/ \E r \in requests' : r.kind \in {"mode", "start"}
      <4>1. ASSUME NEW m \in Mode, SetMode(b, m)
            PROVE  \E r \in requests' : r.kind \in {"mode", "start"}
        <5>1. [kind |-> "mode", mode |-> m, n |-> budget.requests] \in requests'
          BY <4>1 DEF SetMode, Request
        <5> QED BY <5>1
      <4>2. ASSUME NEW m \in Mode, StartRun(b, m)
            PROVE  \E r \in requests' : r.kind \in {"mode", "start"}
        <5>1. [kind |-> "start", mode |-> m, n |-> budget.requests] \in requests'
          BY <4>2 DEF StartRun, Request
        <5> QED BY <5>1
      <4>3. CASE StopButton(b)
        BY <1>0, <3>2, <4>3 DEF StopButton, PageState
      <4>4. CASE ResetAll
        BY <4>4 DEF ResetAll
      <4> QED BY <2>1, <4>1, <4>2, <4>3, <4>4 DEF Press
    <3> QED BY <1>r, <3>1, <3>3, <3>4 DEF PagesInv
  <2>2. CASE OnModeChange(b) \/ OnRunStarted(b) \/ OnRunStopped(b) \/ OnRunUpdate(b)
    BY <2>2, EventAgrees
  <2>3. CASE SocketCloses(b) /\ UNCHANGED <<requests, page>>
    <3>1. /\ UNCHANGED <<currentMode, runs, page, requests>>
          /\ connected' = connected \ {b}
          /\ \A c \in connected' : events'[c] = events[c] /\ c \in connected
      BY <1>0, <2>3 DEF SocketCloses
    <3> QED BY <3>1, <1>s DEF PagesInv, WillAgree
  <2>4. CASE Reconnect(b) \/ Reload(b)
    <3>1. SocketOpens(b) /\ requests' = requests
      BY <2>4 DEF Reconnect, Reload
    <3>2. /\ UNCHANGED <<currentMode, runs>>
          /\ connected' = connected \cup {b}
          /\ events' = [events EXCEPT ![b] = Welcome]
      BY <3>1 DEF SocketOpens
    <3>3. WillAgree(b)'
      <4>1. events'[b] = Welcome
        BY <1>0, <3>2
      <4> QED BY <1>0, <1>s, <3>2, <4>1, WelcomeAgrees DEF WillAgree
    <3>4. ASSUME NEW c \in connected', c # b PROVE WillAgree(c)'
      <4>1. c \in connected /\ events'[c] = events[c] /\ page'[c] = page[c]
        BY <1>0, <2>4, <3>2, <3>4 DEF Reconnect, Reload, PageType
      <4> QED BY <1>s, <3>1, <3>2, <4>1 DEF PagesInv, WillAgree
    <3> QED BY <3>3, <3>4 DEF PagesInv
  <2> QED BY <1>5, <2>1, <2>2, <2>3, <2>4 DEF PageStep
<1>6. CASE UNCHANGED vars
  BY <1>6, <1>u DEF vars
<1> QED BY <1>1, <1>2, <1>3, <1>4, <1>5, <1>6 DEF Next

(* PagesAgree: when no request or event is under way, every connected page *)
(* shows the server's label and counts, for any number of pages, whatever  *)
(* was pressed, in whatever order requests were served, and however often  *)
(* sockets broke.                                                          *)
THEOREM PagesDoAgree == Spec => []PagesAgree
<1>1. Init => PagesInv
  <2> SUFFICES ASSUME Init, NEW b \in connected PROVE WillAgree(b)
    BY DEF PagesInv
  <2>1. events[b] = <<>> /\ page[b] = FreshPage /\ currentMode = "flooding"
        /\ runs = [m \in Mode |-> FreshRun]
    BY DEF Init, ServerInit
  <2>2. FreshPage.currentMode = "flooding" /\ FreshPage.runs = Summaries
    BY <2>1 DEF FreshPage, Summaries, SummariesOf
  <2>3. Len(<<>>) = 0
    BY EmptySeq
  <2> QED BY <2>1, <2>2, <2>3 DEF WillAgree, LastMode, LastRuns
<1> QED BY <1>1, PagesStep, TypeInvariant, QuietPagesAgree, PTL DEF Spec

(***************************************************************************)
(* Which run a page believes in.                                           *)
(***************************************************************************)
RunState == [run : Mode \cup {None}, timer : BOOLEAN]

RunOf(p) == [run |-> p.activeRun, timer |-> p.timer]

(* What a page with run and timer s makes of event e.                      *)
After(s, e) ==
  IF e.type = "run_started" THEN [run |-> e.mode, timer |-> TRUE]
  ELSE IF e.type = "run_stopped"
  THEN [run |-> IF s.run = e.mode THEN None ELSE s.run, timer |-> s.timer]
  ELSE IF e.type = "run_update" /\ e.activeRun \notin {None, s.run} /\ ~s.timer
  THEN [run |-> e.activeRun, timer |-> TRUE]
  ELSE s

(* The events of queue q take a page from s to t, by way of f.             *)
Path(f, s, q, t) ==
  /\ f \in [0 .. Len(q) -> RunState]
  /\ f[0] = s /\ f[Len(q)] = t
  /\ \A i \in 1 .. Len(q) : f[i] = After(f[i - 1], q[i])

Leads(s, q, t) == \E f : Path(f, s, q, t)

(* Every event leaves a run and a timer.                                   *)
LEMMA AfterType ==
  ASSUME NEW s \in RunState, NEW e \in Event
  PROVE  After(s, e) \in RunState
<1>1. s.run \in Mode \cup {None} /\ s.timer \in BOOLEAN
  BY DEF RunState
<1>2. CASE e \in ModeEvent
  BY <1>1, <1>2 DEF After, RunState, ModeEvent
<1>3. CASE e \in UpdateEvent
  BY <1>1, <1>3 DEF After, RunState, UpdateEvent
<1> QED BY <1>2, <1>3 DEF Event

(* No event, and one.                                                      *)
LEMMA LeadsEmpty ==
  ASSUME NEW s \in RunState
  PROVE  Leads(s, <<>>, s)
<1> DEFINE f == [i \in {0} |-> s]
<1>1. Len(<<>>) = 0 /\ 0 .. 0 = {0} /\ 1 .. 0 = {}
  BY EmptySeq
<1>2. Path(f, s, <<>>, s)
  BY <1>1 DEF Path
<1> QED BY <1>2 DEF Leads

LEMMA LeadsAppend ==
  ASSUME NEW s \in RunState, NEW t \in RunState, NEW q \in Seq(Event), NEW e \in Event,
         Leads(s, q, t)
  PROVE  /\ After(t, e) \in RunState
         /\ Leads(s, Append(q, e), After(t, e))
<1>1. PICK f : Path(f, s, q, t)
  BY DEF Leads
<1> DEFINE a == After(t, e)
           all == Append(q, e)
           g == [i \in 0 .. Len(all) |-> IF i = Len(all) THEN a ELSE f[i]]
<1>2. a \in RunState
  BY AfterType
<1>3. /\ Len(q) \in Nat /\ Len(all) = Len(q) + 1
      /\ all[Len(q) + 1] = e
      /\ \A i \in 1 .. Len(q) : all[i] = q[i]
  OBVIOUS
<1>4. a = After(f[Len(q)], e)
  BY <1>1 DEF Path
<1> HIDE DEF a, all
<1>5. /\ g \in [0 .. Len(all) -> RunState]
      /\ g[Len(all)] = a
      /\ \A i \in 0 .. Len(q) : g[i] = f[i]
  BY <1>1, <1>2, <1>3 DEF Path
<1>6. ASSUME NEW i \in 1 .. Len(all) PROVE g[i] = After(g[i - 1], all[i])
  <2>1. CASE i = Len(all)
    <3>1. i - 1 = Len(q) /\ Len(q) \in 0 .. Len(q)
      BY <1>3, <2>1
    <3> QED BY <1>3, <1>4, <1>5, <2>1, <3>1
  <2>2. CASE i # Len(all)
    <3>1. i \in 1 .. Len(q) /\ i \in 0 .. Len(q) /\ i - 1 \in 0 .. Len(q)
      BY <1>3, <2>2
    <3> QED BY <1>1, <1>3, <1>5, <3>1 DEF Path
  <2> QED BY <2>1, <2>2
<1>7. g[0] = s
  BY <1>1, <1>3, <1>5 DEF Path
<1> HIDE DEF g
<1>8. Path(g, s, all, a)
  BY <1>5, <1>6, <1>7 DEF Path
<1> QED BY <1>2, <1>8 DEF Leads, a, all

(* One queue after another.                                                *)
LEMMA LeadsConcat ==
  ASSUME NEW s \in RunState, NEW t \in RunState, NEW u \in RunState,
         NEW q \in Seq(Event), NEW es \in Seq(Event),
         Leads(s, q, t), Leads(t, es, u)
  PROVE  Leads(s, q \o es, u)
<1>1. PICK f : Path(f, s, q, t)
  BY DEF Leads
<1>2. PICK h : Path(h, t, es, u)
  BY DEF Leads
<1> DEFINE all == q \o es
           n == Len(q)
           g == [i \in 0 .. Len(all) |-> IF i <= n THEN f[i] ELSE h[i - n]]
<1>3. /\ n \in Nat /\ Len(es) \in Nat /\ Len(all) = n + Len(es)
      /\ \A i \in 1 .. Len(all) : all[i] = IF i <= n THEN q[i] ELSE es[i - n]
  BY ConcatProperties
<1>4. /\ f \in [0 .. n -> RunState] /\ f[0] = s /\ f[n] = t
      /\ \A i \in 1 .. n : f[i] = After(f[i - 1], q[i])
  BY <1>1 DEF Path
<1>5. /\ h \in [0 .. Len(es) -> RunState] /\ h[0] = t /\ h[Len(es)] = u
      /\ \A i \in 1 .. Len(es) : h[i] = After(h[i - 1], es[i])
  BY <1>2 DEF Path
<1> HIDE DEF all, n
<1>6. /\ g \in [0 .. Len(all) -> RunState]
      /\ \A i \in 0 .. n : g[i] = f[i]
      /\ \A i \in 0 .. Len(es) : g[n + i] = h[i]
  <2>1. ASSUME NEW i \in 0 .. Len(all), ~(i <= n) PROVE i - n \in 0 .. Len(es)
    BY <1>3, <2>1
  <2>2. ASSUME NEW i \in 0 .. Len(es)
        PROVE  n + i \in 0 .. Len(all) /\ (n + i <= n => i = 0) /\ (n + i) - n = i
    BY <1>3, <2>2
  <2>3. \A i \in 0 .. Len(all) : i <= n => i \in 0 .. n
    BY <1>3
  <2>4. \A i \in 0 .. n : i \in 0 .. Len(all) /\ i <= n
    BY <1>3
  <2>5. n + 0 = n
    BY <1>3
  <2>6. g \in [0 .. Len(all) -> RunState]
    BY <1>4, <1>5, <2>1, <2>3
  <2>7. \A i \in 0 .. n : g[i] = f[i]
    BY <2>4
  <2>8. ASSUME NEW i \in 0 .. Len(es) PROVE g[n + i] = h[i]
    BY <1>4, <1>5, <2>2, <2>5
  <2> QED BY <2>6, <2>7, <2>8
<1> HIDE DEF g
<1>7. ASSUME NEW i \in 1 .. Len(all) PROVE g[i] = After(g[i - 1], all[i])
  <2>1. CASE i <= n
    <3>1. i \in 1 .. n /\ i \in 0 .. n /\ i - 1 \in 0 .. n
      BY <1>3, <2>1
    <3> QED BY <1>3, <1>4, <1>6, <2>1, <3>1
  <2>2. CASE ~(i <= n)
    <3> DEFINE j == i - n
    <3>1. /\ j \in 1 .. Len(es) /\ j \in 0 .. Len(es) /\ j - 1 \in 0 .. Len(es)
          /\ i = n + j /\ i - 1 = n + (j - 1)
      BY <1>3, <2>2
    <3>2. all[i] = es[j]
      BY <1>3, <2>2
    <3> HIDE DEF j
    <3>3. g[i] = h[j] /\ g[i - 1] = h[j - 1]
      BY <1>6, <3>1
    <3> QED BY <1>5, <3>1, <3>2, <3>3
  <2> QED BY <2>1, <2>2
<1>8. g[0] = s /\ g[Len(all)] = u
  BY <1>3, <1>4, <1>5, <1>6
<1>9. Path(g, s, all, u)
  BY <1>6, <1>7, <1>8 DEF Path
<1> QED BY <1>9 DEF Leads, all

(* A page takes the first event of its queue.                              *)
LEMMA LeadsTail ==
  ASSUME NEW s \in RunState, NEW t \in RunState, NEW q \in Seq(Event), q # <<>>,
         Leads(s, q, t)
  PROVE  Leads(After(s, Head(q)), Tail(q), t)
<1>1. PICK f : Path(f, s, q, t)
  BY DEF Leads
<1> DEFINE r == Tail(q)
           g == [i \in 0 .. Len(r) |-> f[i + 1]]
<1>2. /\ Len(q) \in Nat \ {0} /\ Len(r) = Len(q) - 1 /\ Head(q) = q[1]
      /\ \A i \in 1 .. Len(r) : r[i] = q[i + 1]
  BY EmptySeq, HeadTailProperties
<1>3. /\ f \in [0 .. Len(q) -> RunState] /\ f[0] = s /\ f[Len(q)] = t
      /\ \A i \in 1 .. Len(q) : f[i] = After(f[i - 1], q[i])
  BY <1>1 DEF Path
<1> HIDE DEF r
<1>4. \A i \in 0 .. Len(r) : i + 1 \in 1 .. Len(q) /\ i + 1 \in 0 .. Len(q)
  BY <1>2
<1>5. g \in [0 .. Len(r) -> RunState] /\ \A i \in 0 .. Len(r) : g[i] = f[i + 1]
  BY <1>3, <1>4
<1> HIDE DEF g
<1>6. g[0] = After(s, Head(q))
  <2>1. 0 \in 0 .. Len(r) /\ 1 \in 1 .. Len(q) /\ 0 + 1 = 1 /\ 1 - 1 = 0
    BY <1>2
  <2> QED BY <1>2, <1>3, <1>5, <2>1
<1>7. g[Len(r)] = t
  <2>1. Len(r) \in 0 .. Len(r) /\ Len(r) + 1 = Len(q)
    BY <1>2
  <2> QED BY <1>3, <1>5, <2>1
<1>8. ASSUME NEW i \in 1 .. Len(r) PROVE g[i] = After(g[i - 1], r[i])
  <2>1. /\ i \in 0 .. Len(r) /\ i - 1 \in 0 .. Len(r) /\ i + 1 \in 1 .. Len(q)
        /\ (i - 1) + 1 = i /\ (i + 1) - 1 = i
    BY <1>2
  <2>2. f[i + 1] = After(f[i], q[i + 1])
    BY <1>3, <2>1
  <2>3. g[i] = f[i + 1] /\ g[i - 1] = f[i] /\ r[i] = q[i + 1]
    BY <1>2, <1>5, <2>1
  <2> QED BY <2>2, <2>3
<1>9. Path(g, After(s, Head(q)), r, t)
  BY <1>5, <1>6, <1>7, <1>8 DEF Path
<1> QED BY <1>9 DEF Leads, r

(* A button that sets the run changes what comes of the queue only until   *)
(* the next run_started in it; setting it to None is at worst not undone.  *)
LEMMA LeadsSet ==
  ASSUME NEW s \in RunState, NEW t \in RunState, NEW q \in Seq(Event),
         Leads(s, q, t), NEW m \in Mode \cup {None}
  PROVE  \E u \in RunState : /\ Leads([run |-> m, timer |-> TRUE], q, u)
                             /\ m = None => u.run \in {None, t.run}
<1>1. PICK f : Path(f, s, q, t)
  BY DEF Leads
<1> DEFINE set  == [run |-> m, timer |-> TRUE]
           none == [run |-> None, timer |-> TRUE]
           Started(i) == \E k \in 1 .. i : q[k].type = "run_started"
           Stopped(i) == \E k \in 1 .. i : q[k].type = "run_stopped" /\ q[k].mode = m
           g == [i \in 0 .. Len(q) |-> IF Started(i) THEN f[i]
                                      ELSE IF Stopped(i) THEN none ELSE set]
<1>2. /\ f \in [0 .. Len(q) -> RunState] /\ f[0] = s /\ f[Len(q)] = t
      /\ \A i \in 1 .. Len(q) : f[i] = After(f[i - 1], q[i])
      /\ Len(q) \in Nat
  BY <1>1 DEF Path
<1>3. set \in RunState /\ none \in RunState
  BY DEF RunState
<1>4. \A i \in 1 .. Len(q) :
        q[i] \in Event /\ (q[i].type = "run_stopped" => q[i].mode \in Mode)
  BY DEF Event, ModeEvent, UpdateEvent
<1>5. ASSUME NEW i \in 1 .. Len(q)
      PROVE  /\ Started(i) <=> Started(i - 1) \/ q[i].type = "run_started"
             /\ Stopped(i) <=> Stopped(i - 1) \/ (q[i].type = "run_stopped" /\ q[i].mode = m)
  <2>1. \A k \in 1 .. i : k = i \/ k \in 1 .. i - 1
    BY <1>2
  <2>2. \A k \in 1 .. i - 1 : k \in 1 .. i
    BY <1>2
  <2>3. i \in 1 .. i
    BY <1>2
  <2> QED BY <2>1, <2>2, <2>3
<1>6. ~Started(0) /\ ~Stopped(0)
  BY <1>2
<1> HIDE DEF Started, Stopped
<1>7. /\ g \in [0 .. Len(q) -> RunState]
      /\ \A i \in 0 .. Len(q) : g[i] = IF Started(i) THEN f[i]
                                      ELSE IF Stopped(i) THEN none ELSE set
  BY <1>2, <1>3
<1> HIDE DEF g
<1>8. g[0] = set
  BY <1>2, <1>6, <1>7
<1>9. ASSUME NEW i \in 1 .. Len(q) PROVE g[i] = After(g[i - 1], q[i])
  <2>1. i \in 0 .. Len(q) /\ i - 1 \in 0 .. Len(q)
    BY <1>2
  <2>2. f[i] = After(f[i - 1], q[i])
    BY <1>2
  <2>3. CASE Started(i - 1)
    BY <1>5, <1>7, <2>1, <2>2, <2>3
  <2>4. CASE q[i].type = "run_started"
    <3>1. Started(i)
      BY <1>5, <2>4
    <3>2. g[i] = f[i]
      BY <1>7, <2>1, <3>1
    <3> QED BY <2>2, <2>4, <3>2 DEF After
  <2>5. CASE ~Started(i - 1) /\ q[i].type # "run_started"
    <3>1. /\ g[i - 1] = IF Stopped(i - 1) THEN none ELSE set
          /\ g[i] = IF Stopped(i) THEN none ELSE set
      BY <1>5, <1>7, <2>1, <2>5
    <3>2. After(none, q[i]) = none
      BY <1>4, <2>5, ModeAssumption DEF After
    <3>3. After(set, q[i]) = IF q[i].type = "run_stopped" /\ q[i].mode = m THEN none ELSE set
      BY <2>5 DEF After
    <3> QED BY <1>5, <3>1, <3>2, <3>3
  <2> QED BY <2>3, <2>4, <2>5
<1>10. Len(q) \in 0 .. Len(q)
  BY <1>2
<1>11. g[Len(q)] \in RunState /\ Path(g, set, q, g[Len(q)])
  BY <1>7, <1>8, <1>9, <1>10 DEF Path
<1>12. m = None => g[Len(q)].run \in {None, t.run}
  BY <1>2, <1>7, <1>10
<1> QED BY <1>11, <1>12 DEF Leads

(* What the server's events do to a page's run.                            *)
LEMMA AfterEvents ==
  ASSUME NEW s \in RunState, NEW m \in Mode, NEW rs, NEW run, NEW mode, NEW all
  PROVE  /\ After(s, ModeChange(m)) = s
         /\ After(s, RunStarted(m)) = [run |-> m, timer |-> TRUE]
         /\ After(s, RunStopped(m)) =
              [run |-> IF s.run = m THEN None ELSE s.run, timer |-> s.timer]
         /\ After(s, RunUpdate(rs, run, mode, all)) =
              IF run \notin {None, s.run} /\ ~s.timer THEN [run |-> run, timer |-> TRUE] ELSE s
<1>1. After(s, ModeChange(m)) = s
  BY DEF After, ModeChange
<1>2. After(s, RunStarted(m)) = [run |-> m, timer |-> TRUE]
  BY DEF After, RunStarted
<1>3. After(s, RunStopped(m)) = [run |-> IF s.run = m THEN None ELSE s.run, timer |-> s.timer]
  BY DEF After, RunStopped
<1>4. After(s, RunUpdate(rs, run, mode, all)) =
        IF run \notin {None, s.run} /\ ~s.timer THEN [run |-> run, timer |-> TRUE] ELSE s
  <2> DEFINE e == RunUpdate(rs, run, mode, all)
  <2>1. e.type = "run_update" /\ e.activeRun = run
    BY DEF RunUpdate
  <2> HIDE DEF e
  <2> QED BY <2>1 DEF After, e
<1> QED BY <1>1, <1>2, <1>3, <1>4

(* One event, two and three.                                               *)
LEMMA AppendedEvents ==
  ASSUME NEW c \in Event, NEW d \in Event, NEW e \in Event
  PROVE  /\ Append(<<>>, c) = <<c>>
         /\ Append(<<c>>, d) = <<c, d>>
         /\ Append(<<c, d>>, e) = <<c, d, e>>
<1>0. /\ <<>> \in Seq(Event) /\ <<c>> \in Seq(Event) /\ <<c, d>> \in Seq(Event)
      /\ <<c, d, e>> \in Seq(Event)
      /\ Len(<<>>) = 0 /\ Len(<<c>>) = 1 /\ Len(<<c, d>>) = 2 /\ Len(<<c, d, e>>) = 3
  BY EmptySeq
<1>1. Append(<<>>, c) = <<c>>
  <2>1. Append(<<>>, c) \in Seq(Event) /\ Len(Append(<<>>, c)) = 1 /\ Append(<<>>, c)[1] = c
    BY <1>0, AppendProperties
  <2>2. <<c>>[1] = c
    OBVIOUS
  <2>3. \A i \in 1 .. 1 : i = 1
    OBVIOUS
  <2> QED BY <1>0, <2>1, <2>2, <2>3, SeqEqual
<1>2. Append(<<c>>, d) = <<c, d>>
  <2>1. /\ Append(<<c>>, d) \in Seq(Event) /\ Len(Append(<<c>>, d)) = 2
        /\ Append(<<c>>, d)[1] = c /\ Append(<<c>>, d)[2] = d
    BY <1>0
  <2>2. <<c, d>>[1] = c /\ <<c, d>>[2] = d
    OBVIOUS
  <2>3. \A i \in 1 .. 2 : i = 1 \/ i = 2
    OBVIOUS
  <2> QED BY <1>0, <2>1, <2>2, <2>3, SeqEqual
<1>3. Append(<<c, d>>, e) = <<c, d, e>>
  <2>1. /\ Append(<<c, d>>, e) \in Seq(Event) /\ Len(Append(<<c, d>>, e)) = 3
        /\ Append(<<c, d>>, e)[1] = c /\ Append(<<c, d>>, e)[2] = d
        /\ Append(<<c, d>>, e)[3] = e
    BY <1>0
  <2>2. <<c, d, e>>[1] = c /\ <<c, d, e>>[2] = d /\ <<c, d, e>>[3] = e
    OBVIOUS
  <2>3. \A i \in 1 .. 3 : i = 1 \/ i = 2 \/ i = 3
    OBVIOUS
  <2>4. \A i \in 1 .. 3 : Append(<<c, d>>, e)[i] = <<c, d, e>>[i]
    BY <2>1, <2>2, <2>3
  <2> QED BY <1>0, <2>1, <2>4, SeqEqual
<1> QED BY <1>1, <1>2, <1>3

LEMMA LeadsThree ==
  ASSUME NEW s \in RunState, NEW c \in Event, NEW d \in Event, NEW e \in Event
  PROVE  /\ After(s, c) \in RunState
         /\ Leads(s, <<c>>, After(s, c))
         /\ After(After(s, c), d) \in RunState
         /\ Leads(s, <<c, d>>, After(After(s, c), d))
         /\ After(After(After(s, c), d), e) \in RunState
         /\ Leads(s, <<c, d, e>>, After(After(After(s, c), d), e))
<1>0. <<>> \in Seq(Event) /\ <<c>> \in Seq(Event) /\ <<c, d>> \in Seq(Event)
  BY EmptySeq
<1>1. After(s, c) \in RunState /\ Leads(s, Append(<<>>, c), After(s, c))
  BY <1>0, LeadsEmpty, LeadsAppend
<1>2. Leads(s, <<c>>, After(s, c))
  BY <1>1, AppendedEvents
<1>3. After(After(s, c), d) \in RunState /\ Leads(s, Append(<<c>>, d), After(After(s, c), d))
  BY <1>0, <1>1, <1>2, LeadsAppend
<1>4. Leads(s, <<c, d>>, After(After(s, c), d))
  BY <1>3, AppendedEvents
<1>5. /\ After(After(After(s, c), d), e) \in RunState
      /\ Leads(s, Append(<<c, d>>, e), After(After(After(s, c), d), e))
  BY <1>0, <1>3, <1>4, LeadsAppend
<1>6. Leads(s, <<c, d, e>>, After(After(After(s, c), d), e))
  BY <1>5, AppendedEvents
<1> QED BY <1>1, <1>2, <1>3, <1>4, <1>5, <1>6

Asked(kind) == \E r \in requests : r.kind = kind

(* A page that comes to state t knows the active run, or will be told when *)
(* a start is served, or has stopped a run that is about to be stopped.    *)
Knows(t) ==
  \/ t.run = activeRun
  \/ Asked("start")
  \/ t.run = None /\ Asked("stop")

WillKnow(b) == \E t \in RunState : Leads(RunOf(page[b]), events[b], t) /\ Knows(t)

RunInv == Never({"reconnected"}) => \A b \in connected : WillKnow(b)

(* The run and the timer of a page.                                        *)
LEMMA RunOfType ==
  ASSUME PageType, NEW b \in Browser
  PROVE  RunOf(page[b]) \in RunState
BY DEF PageType, PageState, RunOf, RunState

(* When nothing is under way, what a page will know it knows.              *)
LEMMA QuietPagesKnow == TypeInv /\ RunInv => PagesKnowTheRun
<1> SUFFICES ASSUME TypeInv, RunInv, Quiet, Never({"reconnected"}), NEW b \in connected
             PROVE  page[b].activeRun = activeRun
  BY DEF PagesKnowTheRun
<1>1. events[b] = <<>> /\ requests = {}
  BY DEF Quiet
<1>2. PICK t \in RunState : Leads(RunOf(page[b]), <<>>, t) /\ Knows(t)
  BY <1>1 DEF RunInv, WillKnow
<1>3. t = RunOf(page[b])
  <2>1. Len(<<>>) = 0
    BY EmptySeq
  <2> QED BY <1>2, <2>1 DEF Leads, Path
<1>4. t.run = activeRun
  BY <1>1, <1>2 DEF Knows, Asked
<1> QED BY <1>3, <1>4 DEF RunOf

(* What is emitted reaches every page after what it was to be told before. *)
LEMMA EmitKnows ==
  ASSUME TypeInv, RunInv, NEW es \in Seq(Event), Emit(es),
         UNCHANGED <<connected, page, seen>>,
         \A t \in RunState : Knows(t) => \E u \in RunState : Leads(t, es, u) /\ Knows(u)'
  PROVE  RunInv'
<1> SUFFICES ASSUME Never({"reconnected"}), NEW b \in connected PROVE WillKnow(b)'
  BY DEF RunInv, Never
<1>0. PageType /\ connected \subseteq Browser /\ events \in [Browser -> Seq(Event)]
  BY TypeInvParts
<1>1. PICK t \in RunState : Leads(RunOf(page[b]), events[b], t) /\ Knows(t)
  BY DEF RunInv, WillKnow
<1>2. PICK u \in RunState : Leads(t, es, u) /\ Knows(u)'
  BY <1>1
<1>3. events'[b] = events[b] \o es /\ page' = page
  BY <1>0 DEF Emit
<1>4. Leads(RunOf(page'[b]), events'[b], u)
  BY <1>0, <1>1, <1>2, <1>3, RunOfType, LeadsConcat
<1> QED BY <1>2, <1>4 DEF WillKnow

(* _stopRun on run m: a page that knows the active run knows the one that  *)
(* is active then, and one that knows of none learns of none but that.     *)
LEMMA StopLeads ==
  ASSUME ServerType, NEW m \in Mode, NEW t \in RunState
  PROVE  \E u \in RunState :
           /\ Leads(t, StopEvents(m), u)
           /\ t.run = activeRun => u.run = ActiveWithout(m)
           /\ t.run = None => u.run \in {None, ActiveWithout(m)}
<1> DEFINE d == RunStopped(m)
           e == RunUpdate(RunsWithout(m), ActiveWithout(m), currentMode, total)
           v == After(t, d)
           u == After(v, e)
<1>1. d \in Event
  BY DEF RunStopped, Event, ModeEvent
<1>2. e \in Event
  BY UpdateEvents, RunsWithoutType DEF ServerType, ActiveWithout
<1>3. StopEvents(m) = <<d, e>>
  BY DEF StopEvents
<1>4. v = [run |-> IF t.run = m THEN None ELSE t.run, timer |-> t.timer]
  BY AfterEvents
<1>5. v \in RunState
  BY <1>1, AfterType
<1>6. u = IF ActiveWithout(m) \notin {None, v.run} /\ ~v.timer
          THEN [run |-> ActiveWithout(m), timer |-> TRUE] ELSE v
  BY <1>5, AfterEvents
<1> HIDE DEF d, e
<1>7. u \in RunState /\ Leads(t, StopEvents(m), u)
  BY <1>1, <1>2, <1>3, LeadsThree
<1>8. t.run = activeRun => u.run = ActiveWithout(m)
  BY <1>4, <1>6 DEF ActiveWithout
<1>9. t.run = None => u.run \in {None, ActiveWithout(m)}
  BY <1>4, <1>6, ModeAssumption
<1> HIDE DEF u
<1> QED BY <1>7, <1>8, <1>9

(* Request r, and no other, is taken from those under way.                 *)
Served(r) == requests' = requests \ {r}

(* GET /run/stop and /run/stop/:mode.                                      *)
LEMMA StopKnows ==
  ASSUME TypeInv, RunInv, UNCHANGED <<connected, page, seen>>,
         NEW m \in Mode, StopRun(m), NEW r \in requests, Served(r),
         \/ r.kind = "stopMode"
         \/ r.kind = "stop" /\ m = activeRun
  PROVE  RunInv'
<1>0. ServerType
  BY TypeInvParts
<1>1. activeRun' = ActiveWithout(m) /\ Emit(StopEvents(m)) /\ StopEvents(m) \in Seq(Event)
  BY <1>0, StopEventsType DEF StopRun
<1>2. Asked("start") => Asked("start")'
  BY DEF Asked, Served
<1>3. r.kind = "stopMode" /\ Asked("stop") => Asked("stop")'
  BY DEF Asked, Served
<1>4. ASSUME NEW t \in RunState, Knows(t)
      PROVE  \E u \in RunState : Leads(t, StopEvents(m), u) /\ Knows(u)'
  <2>1. PICK u \in RunState :
          /\ Leads(t, StopEvents(m), u)
          /\ t.run = activeRun => u.run = ActiveWithout(m)
          /\ t.run = None => u.run \in {None, ActiveWithout(m)}
    BY <1>0, StopLeads
  <2>2. u.run = activeRun' \/ Asked("start")' \/ (u.run = None /\ Asked("stop")')
    <3>1. CASE r.kind = "stopMode"
      BY <1>1, <1>2, <1>3, <1>4, <2>1, <3>1 DEF Knows
    <3>2. CASE m = activeRun
      <4>1. ActiveWithout(m) = None
        BY <3>2 DEF ActiveWithout
      <4> QED BY <1>1, <1>2, <1>4, <2>1, <4>1 DEF Knows
    <3> QED BY <3>1, <3>2
  <2> QED BY <2>1, <2>2 DEF Knows
<1> QED BY <1>1, <1>4, EmitKnows

(* What comes before the events of a start or a reset.                     *)
LEMMA FirstLeads ==
  ASSUME ServerType, NEW t \in RunState, NEW es \in Seq(Event)
  PROVE  LET all == (IF activeRun = None THEN <<>> ELSE StopEvents(activeRun)) \o es
         IN  /\ all \in Seq(Event)
             /\ \E v \in RunState :
                  /\ t.run \in {activeRun, None} => v.run = None
                  /\ \A u \in RunState : Leads(v, es, u) => Leads(t, all, u)
<1> DEFINE first == IF activeRun = None THEN <<>> ELSE StopEvents(activeRun)
<1>1. first \in Seq(Event)
  BY StopEventsType, EmptySeq DEF ServerType
<1>2. \E v \in RunState : Leads(t, first, v) /\ (t.run \in {activeRun, None} => v.run = None)
  <2>1. CASE activeRun = None
    BY <2>1, LeadsEmpty
  <2>2. CASE activeRun # None
    <3>1. activeRun \in Mode /\ ActiveWithout(activeRun) = None
      BY <2>2 DEF ServerType, ActiveWithout
    <3> QED BY <2>2, <3>1, StopLeads
  <2> QED BY <2>1, <2>2
<1> HIDE DEF first
<1>3. first \o es \in Seq(Event)
  BY <1>1
<1> QED BY <1>1, <1>2, <1>3, LeadsConcat DEF first

(* GET /run/start/:mode tells every page, whatever it believed.            *)
LEMMA StartKnows ==
  ASSUME TypeInv, RunInv, UNCHANGED <<connected, page, seen>>,
         NEW m \in Mode, HandleStart(m)
  PROVE  RunInv'
<1>0. ServerType
  BY TypeInvParts
<1> DEFINE e == RunUpdate(runs', m, m, total)
           es == <<ModeChange(m), RunStarted(m), e>>
           all == (IF activeRun = None THEN <<>> ELSE StopEvents(activeRun)) \o es
<1>1. activeRun' = m /\ Emit(all)
  BY DEF HandleStart
<1>2. e \in Event
  <2>1. runs' \in [Mode -> RunType] /\ m \in Mode \cup {None} /\ total \in Nat
    BY <1>0, StartedRuns DEF ServerType
  <2> QED BY <2>1, UpdateEvents
<1>3. ModeChange(m) \in Event /\ RunStarted(m) \in Event
  BY DEF ModeChange, RunStarted, Event, ModeEvent
<1>4. ASSUME NEW v \in RunState
      PROVE  \E u \in RunState : Leads(v, es, u) /\ u.run = m
  <2> DEFINE w == [run |-> m, timer |-> TRUE]
  <2>1. After(v, ModeChange(m)) = v /\ After(v, RunStarted(m)) = w
    BY AfterEvents
  <2>2. w \in RunState /\ w.run = m /\ w.timer
    BY DEF RunState
  <2>3. After(w, e) = w
    BY <2>2, AfterEvents
  <2>4. Leads(v, es, w)
    <3> HIDE DEF e, w
    <3> QED BY <1>2, <1>3, <2>1, <2>3, LeadsThree
  <2> QED BY <2>2, <2>4
<1>5. es \in Seq(Event)
  BY <1>2, <1>3
<1> HIDE DEF es
<1>6. all \in Seq(Event)
  <2>1. \E v \in RunState : TRUE
    <3>1. RunOf(FreshPage) \in RunState
      BY FreshPageType DEF PageState, RunOf, RunState
    <3> QED BY <3>1
  <2> QED BY <1>0, <1>5, <2>1, FirstLeads
<1>7. ASSUME NEW t \in RunState
      PROVE  \E u \in RunState : Leads(t, all, u) /\ Knows(u)'
  <2>1. PICK v \in RunState : \A u \in RunState : Leads(v, es, u) => Leads(t, all, u)
    BY <1>0, <1>5, FirstLeads
  <2>2. PICK u \in RunState : Leads(v, es, u) /\ u.run = m
    BY <1>4
  <2>3. Knows(u)'
    BY <1>1, <2>2 DEF Knows
  <2> QED BY <2>1, <2>2, <2>3
<1> HIDE DEF all
<1> QED BY <1>1, <1>6, <1>7, EmitKnows

(* GET /reset ends the active run.                                         *)
LEMMA ResetKnows ==
  ASSUME TypeInv, RunInv, UNCHANGED <<connected, page, seen>>,
         HandleReset, NEW r \in requests, Served(r), r.kind = "reset"
  PROVE  RunInv'
<1>0. ServerType
  BY TypeInvParts
<1> DEFINE fresh == [m \in Mode |-> FreshRun]
           e == RunUpdate(fresh, None, currentMode, 0)
           es == <<e>>
           all == (IF activeRun = None THEN <<>> ELSE StopEvents(activeRun)) \o es
<1>1. activeRun' = None /\ Emit(all)
  BY DEF HandleReset
<1>2. e \in Event
  <2>1. fresh \in [Mode -> RunType] /\ None \in Mode \cup {None} /\ 0 \in Nat
        /\ currentMode \in Mode
    BY <1>0, FreshRunType DEF ServerType
  <2> HIDE DEF fresh
  <2> QED BY <2>1, UpdateEvents
<1>3. Asked("start") => Asked("start")'
  BY DEF Asked, Served
<1>4. ASSUME NEW v \in RunState PROVE Leads(v, es, v)
  <2>1. "flooding" \in Mode
    BY DEF Mode
  <2>2. After(v, e) = v
    BY <2>1, AfterEvents
  <2> HIDE DEF e
  <2> QED BY <1>2, <2>2, LeadsThree
<1>5. es \in Seq(Event)
  BY <1>2
<1> HIDE DEF es
<1>6. all \in Seq(Event)
  <2>1. \E v \in RunState : TRUE
    <3>1. RunOf(FreshPage) \in RunState
      BY FreshPageType DEF PageState, RunOf, RunState
    <3> QED BY <3>1
  <2> QED BY <1>0, <1>5, <2>1, FirstLeads
<1>7. ASSUME NEW t \in RunState, Knows(t)
      PROVE  \E u \in RunState : Leads(t, all, u) /\ Knows(u)'
  <2>1. PICK v \in RunState :
          /\ t.run \in {activeRun, None} => v.run = None
          /\ \A u \in RunState : Leads(v, es, u) => Leads(t, all, u)
    BY <1>0, <1>5, FirstLeads
  <2>2. Knows(v)'
    BY <1>1, <1>3, <1>7, <2>1 DEF Knows
  <2> QED BY <1>4, <2>1, <2>2
<1> HIDE DEF all
<1> QED BY <1>1, <1>6, <1>7, EmitKnows

(* Every request tells the pages what it does to the active run.           *)
LEMMA ServeKnows ==
  ASSUME TypeInv, RunInv, Serve
  PROVE  RunInv'
<1>0. /\ ServerType /\ \A r \in requests : RequestOK(r)
      /\ connected \subseteq Browser /\ events \in [Browser -> Seq(Event)]
  BY TypeInvParts
<1>1. PICK r \in requests :
         Handle(r) /\ requests' = requests \ {r} /\ UNCHANGED <<streamVars, connected, page>>
  BY DEF Serve
<1>2. RequestOK(r) /\ UNCHANGED <<connected, page, seen>> /\ Served(r)
  BY <1>0, <1>1 DEF streamVars, Served
<1>3. CASE r.kind = "mode" /\ HandleMode(r.mode)
  <2> DEFINE e == ModeChange(r.mode)
  <2>1. r.mode \in Mode /\ activeRun' = activeRun /\ Emit(<<e>>)
    BY <1>2, <1>3 DEF RequestOK, HandleMode
  <2>2. e \in Event
    BY <2>1, ModeChangeType
  <2>3. /\ Asked("start") => Asked("start")'
        /\ Asked("stop") => Asked("stop")'
    BY <1>2, <1>3 DEF Asked, Served
  <2>4. ASSUME NEW t \in RunState, Knows(t)
        PROVE  \E u \in RunState : Leads(t, <<e>>, u) /\ Knows(u)'
    <3>1. After(t, e) = t
      BY <2>1, AfterEvents
    <3> HIDE DEF e
    <3>2. Leads(t, <<e>>, t)
      BY <2>2, <3>1, LeadsThree
    <3>3. Knows(t)'
      BY <2>1, <2>3, <2>4 DEF Knows
    <3> QED BY <3>2, <3>3
  <2> HIDE DEF e
  <2>5. <<e>> \in Seq(Event)
    BY <2>2
  <2> QED BY <1>2, <2>1, <2>4, <2>5, EmitKnows
<1>4. CASE r.kind = "start" /\ HandleStart(r.mode)
  BY <1>2, <1>4, StartKnows DEF RequestOK
<1>5. CASE r.kind = "stop" /\ HandleStop
  <2>1. CASE activeRun = None
    <3>1. UNCHANGED <<activeRun, events>>
      BY <1>5, <2>1 DEF HandleStop
    <3>2. Asked("start") => Asked("start")'
      BY <1>2, <1>5 DEF Asked, Served
    <3>3. ASSUME NEW t \in RunState, Knows(t) PROVE Knows(t)'
      BY <2>1, <3>1, <3>2, <3>3 DEF Knows
    <3> QED BY <1>2, <3>1, <3>3 DEF RunInv, Never, WillKnow
  <2>2. CASE activeRun # None
    <3>1. activeRun \in Mode /\ StopRun(activeRun)
      BY <1>0, <1>5, <2>2 DEF HandleStop, ServerType
    <3> QED BY <1>2, <1>5, <3>1, StopKnows
  <2> QED BY <2>1, <2>2
<1>6. CASE r.kind = "stopMode" /\ StopRun(r.mode)
  BY <1>2, <1>6, StopKnows DEF RequestOK
<1>7. CASE r.kind = "reset" /\ HandleReset
  BY <1>2, <1>7, ResetKnows
<1> QED BY <1>1, <1>3, <1>4, <1>5, <1>6, <1>7 DEF Handle

(* A message that counts announces the run that is active anyway.          *)
LEMMA MessageKnows ==
  ASSUME TypeInv, RunInv, HandleMessage, UNCHANGED <<requests, page>>
  PROVE  RunInv'
<1>0. ServerType /\ air \in Seq(Message)
  BY TypeInvParts
<1>1. /\ Count(activeRun, Head(air))
      /\ UNCHANGED <<activeRun, connected, seen>> /\ total' = total + 1
  BY DEF HandleMessage, Count
<1>2. \A t \in RunState : Knows(t) => Knows(t)'
  BY <1>1 DEF Knows, Asked
<1>3. CASE activeRun = None
  <2>1. events' = events
    BY <1>1, <1>3 DEF Count
  <2> QED BY <1>1, <1>2, <2>1 DEF RunInv, Never, WillKnow
<1>4. CASE activeRun # None
  <2> DEFINE e == RunUpdate(runs', activeRun, currentMode, total + 1)
  <2>1. Emit(<<e>>)
    BY <1>1, <1>4 DEF Count
  <2>2. e \in Event
    <3>1. ServerType'
      BY <1>0, MessageType
    <3>2. /\ runs' \in [Mode -> RunType] /\ activeRun \in Mode \cup {None}
          /\ currentMode \in Mode /\ total + 1 \in Nat
      BY <1>0, <3>1 DEF ServerType
    <3> QED BY <3>2, UpdateEvents
  <2>3. ASSUME NEW t \in RunState, Knows(t)
        PROVE  \E u \in RunState : Leads(t, <<e>>, u) /\ Knows(u)'
    <3>1. "flooding" \in Mode
      BY DEF Mode
    <3>2. After(t, e) = t \/ After(t, e).run = activeRun
      BY <3>1, AfterEvents
    <3> HIDE DEF e
    <3>3. PICK u \in RunState : u = After(t, e) /\ Leads(t, <<e>>, u)
      BY <2>2, LeadsThree
    <3>4. Knows(u)'
      BY <1>1, <1>2, <2>3, <3>2, <3>3 DEF Knows
    <3> QED BY <3>3, <3>4
  <2> HIDE DEF e
  <2>4. <<e>> \in Seq(Event)
    BY <2>2
  <2> QED BY <1>1, <2>1, <2>3, <2>4, EmitKnows
<1> QED BY <1>3, <1>4

(* A button changes a page's run only together with a request that will    *)
(* be answered.                                                            *)
LEMMA PressKnows ==
  ASSUME TypeInv, RunInv, NEW b \in Browser, Press(b)
  PROVE  RunInv'
<1>0. PageType /\ connected \subseteq Browser /\ events \in [Browser -> Seq(Event)]
  BY TypeInvParts
<1>1. /\ UNCHANGED <<activeRun, events, connected, seen>>
      /\ requests \subseteq requests'
  BY DEF Press, SetMode, StartRun, StopButton, ResetAll, Request, serverVars
<1>2. SUFFICES ASSUME Never({"reconnected"}), NEW c \in connected PROVE WillKnow(c)'
  BY <1>1 DEF RunInv, Never
<1>3. \A t \in RunState : Knows(t) => Knows(t)'
  BY <1>1 DEF Knows, Asked
<1>4. PICK t \in RunState : Leads(RunOf(page[c]), events[c], t) /\ Knows(t)
  BY <1>2 DEF RunInv, WillKnow
<1>5. RunOf(page[c]) \in RunState /\ events[c] \in Seq(Event) /\ c \in Browser
  BY <1>0, <1>2, RunOfType
<1>6. ASSUME RunOf(page'[c]) = RunOf(page[c]) PROVE WillKnow(c)'
  BY <1>1, <1>3, <1>4, <1>6 DEF WillKnow
<1>7. page \in [Browser -> PageState] /\ page[c] \in PageState
  BY <1>0 DEF PageType
<1>8. ASSUME NEW m \in Mode, SetMode(b, m) PROVE WillKnow(c)'
  <2>1. RunOf(page'[c]) = RunOf(page[c])
    BY <1>5, <1>7, <1>8 DEF SetMode, RunOf, PageState
  <2> QED BY <1>6, <2>1
<1>9. ASSUME NEW m \in Mode, StartRun(b, m) PROVE WillKnow(c)'
  <2>1. Asked("start")'
    <3>1. [kind |-> "start", mode |-> m, n |-> budget.requests] \in requests'
      BY <1>9 DEF StartRun, Request
    <3> QED BY <3>1 DEF Asked
  <2>2. CASE c # b
    <3>1. page'[c] = page[c]
      BY <1>5, <1>7, <1>9, <2>2 DEF StartRun
    <3> QED BY <1>6, <3>1
  <2>3. CASE c = b
    <3>1. RunOf(page'[c]) = [run |-> m, timer |-> TRUE]
      BY <1>5, <1>7, <1>9, <2>3 DEF StartRun, RunOf, PageState
    <3>2. PICK u \in RunState : Leads([run |-> m, timer |-> TRUE], events[c], u)
      BY <1>4, <1>5, LeadsSet
    <3> QED BY <1>1, <2>1, <3>1, <3>2 DEF WillKnow, Knows
  <2> QED BY <2>2, <2>3
<1>10. CASE StopButton(b)
  <2>1. Asked("stop")'
    <3>1. [kind |-> "stop", mode |-> None, n |-> budget.requests] \in requests'
      BY <1>10 DEF StopButton, Request
    <3> QED BY <3>1 DEF Asked
  <2>2. CASE c # b
    <3>1. page'[c] = page[c]
      BY <1>5, <1>7, <1>10, <2>2 DEF StopButton
    <3> QED BY <1>6, <3>1
  <2>3. CASE c = b
    <3>1. page[c].timer
      BY <1>0, <1>5, <1>7, <1>10, <2>3 DEF StopButton, PageType, PageState
    <3>2. page'[c].activeRun = None /\ page'[c].timer = page[c].timer
      BY <1>5, <1>7, <1>10, <2>3 DEF StopButton, PageState
    <3>3. RunOf(page'[c]) = [run |-> None, timer |-> TRUE]
      BY <1>7, <3>1, <3>2 DEF RunOf, PageState
    <3>4. PICK u \in RunState : /\ Leads([run |-> None, timer |-> TRUE], events[c], u)
                               /\ u.run \in {None, t.run}
      BY <1>4, <1>5, LeadsSet
    <3>5. Knows(u)'
      BY <1>1, <1>3, <1>4, <2>1, <3>4 DEF Knows
    <3> QED BY <1>1, <3>3, <3>4, <3>5 DEF WillKnow
  <2> QED BY <2>2, <2>3
<1>11. CASE ResetAll
  BY <1>6, <1>11 DEF ResetAll
<1> QED BY <1>2, <1>8, <1>9, <1>10, <1>11 DEF Press

(* Each handler of an event is After.                                      *)
LEMMA EventKnows ==
  ASSUME TypeInv, RunInv, NEW b \in Browser,
         OnModeChange(b) \/ OnRunStarted(b) \/ OnRunStopped(b) \/ OnRunUpdate(b)
  PROVE  RunInv'
<1>0. PageType /\ connected \subseteq Browser /\ events \in [Browser -> Seq(Event)]
  BY TypeInvParts
<1> DEFINE e == Head(events[b])
<1>1. PICK type : Receiving(b, type)
  BY DEF OnModeChange, OnRunStarted, OnRunStopped, OnRunUpdate
<1>2. /\ b \in connected /\ events[b] # <<>> /\ events[b] \in Seq(Event)
      /\ events' = [events EXCEPT ![b] = Tail(@)]
      /\ UNCHANGED <<activeRun, seen, connected, requests>>
  BY <1>0, <1>1 DEF Receiving, streamVars
<1>3. \A t \in RunState : Knows(t) => Knows(t)'
  BY <1>2 DEF Knows, Asked
<1>4. page \in [Browser -> PageState] /\ page[b] \in PageState
  BY <1>0 DEF PageType
<1>5. SUFFICES ASSUME Never({"reconnected"}), NEW c \in connected PROVE WillKnow(c)'
  BY <1>2 DEF RunInv, Never
<1>6. PICK t \in RunState : Leads(RunOf(page[c]), events[c], t) /\ Knows(t)
  BY <1>5 DEF RunInv, WillKnow
<1>7. CASE c # b
  <2>1. events'[c] = events[c] /\ page'[c] = page[c]
    BY <1>0, <1>2, <1>4, <1>5, <1>7 DEF OnModeChange, OnRunStarted, OnRunStopped, OnRunUpdate
  <2> QED BY <1>3, <1>6, <2>1 DEF WillKnow
<1>8. CASE c = b
  <2>1. RunOf(page'[b]) = After(RunOf(page[b]), e)
    <3>0. e.type \in {"mode_change", "run_started", "run_stopped"} \/ e.type = "run_update"
      BY <1>2, HeadEvent DEF Event, ModeEvent, UpdateEvent
    <3>1. CASE OnModeChange(b)
      BY <1>4, <3>1 DEF OnModeChange, Receiving, RunOf, After, PageState
    <3>2. CASE OnRunStarted(b)
      BY <1>4, <3>2 DEF OnRunStarted, Receiving, RunOf, After, PageState
    <3>3. CASE OnRunStopped(b)
      BY <1>4, <3>3 DEF OnRunStopped, Receiving, RunOf, After, PageState
    <3>4. CASE OnRunUpdate(b)
      <4> DEFINE restore == e.activeRun \notin {None, page[b].activeRun} /\ ~page[b].timer
      <4>1. e.type = "run_update"
        BY <3>4 DEF OnRunUpdate, Receiving
      <4>2. /\ page'[b].activeRun = IF restore THEN e.activeRun ELSE page[b].activeRun
            /\ page'[b].timer = (page[b].timer \/ restore)
        BY <1>4, <3>4, Zenon DEF OnRunUpdate, PageState
      <4>3. page[b].timer \in BOOLEAN
        BY <1>4 DEF PageState
      <4> QED BY <4>1, <4>2, <4>3 DEF RunOf, After
    <3> QED BY <3>1, <3>2, <3>3, <3>4
  <2>2. events'[b] = Tail(events[b]) /\ RunOf(page[b]) \in RunState
    BY <1>0, <1>2, RunOfType
  <2>3. Leads(RunOf(page'[b]), events'[b], t)
    BY <1>2, <1>6, <1>8, <2>1, <2>2, LeadsTail
  <2> QED BY <1>3, <1>6, <1>8, <2>3 DEF WillKnow
<1> QED BY <1>5, <1>7, <1>8

(* Every step keeps RunInv: a page that opens its socket again by itself   *)
(* is out of its scope, and one that is loaded again takes the active run  *)
(* from the update that welcomes it.                                       *)
LEMMA RunInvStep == TypeInv /\ RunInv /\ [Next]_vars => RunInv'
<1> SUFFICES ASSUME TypeInv, RunInv, [Next]_vars PROVE RunInv'
  OBVIOUS
<1> USE DEF streamVars, serverVars
<1>0. /\ ServerType /\ PageType
      /\ connected \subseteq Browser /\ events \in [Browser -> Seq(Event)]
  BY TypeInvParts
<1>u. ASSUME UNCHANGED <<activeRun, events, page>>, requests \subseteq requests',
             connected' \subseteq connected, seen \subseteq seen'
      PROVE  RunInv'
  <2>1. \A t \in RunState : Knows(t) => Knows(t)'
    BY <1>u DEF Knows, Asked
  <2> QED BY <1>u, <2>1 DEF RunInv, Never, WillKnow
<1>1. CASE StreamStep /\ UNCHANGED <<serverVars, requests, page>>
  <2>1. seen \subseteq seen'
    BY <1>1 DEF StreamStep, Publish, Lose, Repeat, Delay, Reboot, Fault, Spend
  <2> QED BY <1>1, <1>u, <2>1
<1>2. CASE HandleMessage /\ UNCHANGED <<requests, page>>
  BY <1>2, MessageKnows
<1>3. CASE Serve
  BY <1>3, ServeKnows
<1>4. CASE Script
  <2>1. /\ UNCHANGED <<activeRun, events, page, connected, seen>>
        /\ requests \subseteq requests'
    BY <1>4 DEF Script, Request
  <2> QED BY <1>u, <2>1
<1>5. ASSUME NEW b \in Browser, PageStep(b) PROVE RunInv'
  <2>1. CASE Press(b)
    BY <2>1, PressKnows
  <2>2. CASE OnModeChange(b) \/ OnRunStarted(b) \/ OnRunStopped(b) \/ OnRunUpdate(b)
    BY <2>2, EventKnows
  <2>3. CASE SocketCloses(b) /\ UNCHANGED <<requests, page>>
    <3> SUFFICES ASSUME Never({"reconnected"})', NEW c \in connected' PROVE WillKnow(c)'
      BY DEF RunInv
    <3>1. c \in connected /\ events'[c] = events[c] /\ UNCHANGED <<activeRun, seen>>
      BY <1>0, <2>3 DEF SocketCloses
    <3>2. \A t \in RunState : Knows(t) => Knows(t)'
      BY <2>3, <3>1 DEF Knows, Asked
    <3> QED BY <2>3, <3>1, <3>2 DEF RunInv, Never, WillKnow
  <2>4. CASE Reconnect(b)
    BY <2>4 DEF Reconnect, RunInv, Never
  <2>5. CASE Reload(b)
    <3>1. /\ UNCHANGED <<activeRun, seen, requests>>
          /\ connected' = connected \cup {b}
          /\ events' = [events EXCEPT ![b] = Welcome]
          /\ page' = [page EXCEPT ![b] = FreshPage]
      BY <2>5 DEF Reload, SocketOpens
    <3> SUFFICES ASSUME Never({"reconnected"})', NEW c \in connected' PROVE WillKnow(c)'
      BY DEF RunInv
    <3>2. \A t \in RunState : Knows(t) => Knows(t)'
      BY <3>1 DEF Knows, Asked
    <3>3. CASE c # b
      <4>1. c \in connected /\ events'[c] = events[c] /\ page'[c] = page[c]
        BY <1>0, <3>1, <3>3 DEF PageType
      <4> QED BY <3>1, <3>2, <4>1 DEF RunInv, Never, WillKnow
    <3>4. CASE c = b
      <4> DEFINE s == [run |-> None, timer |-> FALSE]
                 d == ModeChange(currentMode)
                 e == RunUpdate(runs, activeRun, currentMode, total)
      <4>1. events'[b] = <<d, e>> /\ RunOf(page'[b]) = s
        BY <1>0, <3>1 DEF Welcome, PageType, RunOf, FreshPage
      <4>2. currentMode \in Mode /\ activeRun \in Mode \cup {None} /\ s \in RunState
        BY <1>0 DEF ServerType, RunState
      <4>3. d \in Event /\ e \in Event
        BY <1>0, <4>2, ModeChangeType, UpdateEvents DEF ServerType
      <4>4. After(s, d) = s /\ After(s, e).run = activeRun
        BY <4>2, AfterEvents
      <4> HIDE DEF s, d, e
      <4>5. After(s, e) \in RunState /\ Leads(s, <<d, e>>, After(s, e))
        BY <4>2, <4>3, <4>4, LeadsThree
      <4>6. PICK u \in RunState : Leads(s, <<d, e>>, u) /\ u.run = activeRun
        BY <4>4, <4>5
      <4>7. Knows(u)'
        BY <3>1, <4>6 DEF Knows
      <4> QED BY <3>4, <4>1, <4>6, <4>7 DEF WillKnow
    <3> QED BY <3>3, <3>4
  <2> QED BY <1>5, <2>1, <2>2, <2>3, <2>4, <2>5 DEF PageStep
<1>6. CASE UNCHANGED vars
  BY <1>6, <1>u DEF vars
<1> QED BY <1>1, <1>2, <1>3, <1>4, <1>5, <1>6 DEF Next

(* PagesKnowTheRun: when no request or event is under way, every connected *)
(* page knows which run is active, for any number of pages, whatever was   *)
(* pressed and in whatever order it was served, as long as no socket       *)
(* opened again without its page being loaded again.                       *)
THEOREM PagesDoKnowTheRun == Spec => []PagesKnowTheRun
<1>1. Init => RunInv
  <2> SUFFICES ASSUME Init, NEW b \in connected PROVE WillKnow(b)
    BY DEF RunInv
  <2>1. events[b] = <<>> /\ page[b] = FreshPage /\ activeRun = None /\ b \in Browser
    BY DEF Init, ServerInit
  <2>2. RunOf(FreshPage) = [run |-> None, timer |-> FALSE]
    BY DEF RunOf, FreshPage
  <2>3. RunOf(FreshPage) \in RunState /\ RunOf(FreshPage).run = activeRun
    BY <2>1, <2>2 DEF RunState
  <2> QED BY <2>1, <2>3, LeadsEmpty DEF WillKnow, Knows
<1> QED BY <1>1, RunInvStep, TypeInvariant, QuietPagesKnow, PTL DEF Spec

(***************************************************************************)
(* What a run counts.                                                      *)
(***************************************************************************)

(* last has the greatest number of each stream in h, or 0 for one that is  *)
(* not in h; one that is has a first place there.                          *)
LastHeard(h, last) ==
  \A s \in Stream :
    /\ Of(h, s) = {} => last[s] = 0
    /\ Of(h, s) # {} => /\ FirstOf(h, s) # {}
                        /\ \E j \in Of(h, s) : h[j].n = last[s]
                        /\ \A j \in Of(h, s) : h[j].n <= last[s]

(* Nodes count from 1.                                                     *)
Positive(q) == \A i \in DOMAIN q : q[i].n > 0

(* The numbers message x skips in its stream.                              *)
Skipped(last, x) ==
  {[counter |-> CounterOf[x.stream], n |-> k] : k \in last[x.stream] + 1 .. x.n - 1}

(* The places of each stream when one more message is heard.               *)
LEMMA OfAppend ==
  ASSUME NEW h \in Seq(Message), NEW x \in Message
  PROVE  /\ Len(h) \in Nat /\ DOMAIN h = 1 .. Len(h)
         /\ DOMAIN Append(h, x) = 1 .. Len(h) + 1
         /\ Append(h, x)[Len(h) + 1] = x
         /\ \A i \in DOMAIN h : Append(h, x)[i] = h[i] /\ h[i] \in Message
         /\ \A s \in Stream : /\ Of(h, s) \subseteq DOMAIN h
                              /\ x.stream # s => Of(Append(h, x), s) = Of(h, s)
         /\ Of(Append(h, x), x.stream) = Of(h, x.stream) \cup {Len(h) + 1}
<1>1. /\ Len(h) \in Nat /\ DOMAIN h = 1 .. Len(h)
      /\ DOMAIN Append(h, x) = 1 .. Len(h) + 1
      /\ Append(h, x)[Len(h) + 1] = x
      /\ \A i \in DOMAIN h : Append(h, x)[i] = h[i] /\ h[i] \in Message
  BY LenProperties, AppendProperties, ElementOfSeq
<1> DEFINE g == Append(h, x)
<1> HIDE DEF g
<1>2. \A s \in Stream : Of(h, s) \subseteq DOMAIN h
  BY DEF Of
<1>3. \A i : i \in 1 .. Len(h) + 1 <=> i \in 1 .. Len(h) \/ i = Len(h) + 1
  BY <1>1
<1>4. Of(g, x.stream) = Of(h, x.stream) \cup {Len(h) + 1}
  BY <1>1, <1>3 DEF Of, g
<1>5. ASSUME NEW s \in Stream, x.stream # s PROVE Of(g, s) = Of(h, s)
  BY <1>1, <1>3, <1>5 DEF Of, g
<1> QED BY <1>1, <1>2, <1>4, <1>5 DEF g

(* The first of a stream stays the first.                                  *)
LEMMA FirstAppend ==
  ASSUME NEW h \in Seq(Message), NEW x \in Message, NEW s \in Stream
  PROVE  /\ FirstOf(h, s) \subseteq Of(h, s)
         /\ x.stream # s \/ Of(h, s) # {} => FirstOf(Append(h, x), s) = FirstOf(h, s)
         /\ x.stream = s /\ Of(h, s) = {} => FirstOf(Append(h, x), s) = {Len(h) + 1}
<1> DEFINE g == Append(h, x)
<1>1. Len(h) \in Nat /\ \A i \in Of(h, s) : i \in Nat /\ i < Len(h) + 1
  BY OfAppend
<1>2. x.stream # s => Of(g, s) = Of(h, s)
  BY OfAppend
<1>3. x.stream = s => Of(g, s) = Of(h, s) \cup {Len(h) + 1}
  BY OfAppend
<1> HIDE DEF g
<1>4. CASE x.stream # s
  BY <1>2, <1>4 DEF FirstOf, g
<1>5. CASE x.stream = s
  <2>1. Of(h, s) = {} => FirstOf(g, s) = {Len(h) + 1}
    BY <1>1, <1>3, <1>5 DEF FirstOf
  <2>2. ASSUME Of(h, s) # {} PROVE FirstOf(g, s) = FirstOf(h, s)
    <3>1. \A i \in Of(h, s) : i <= Len(h) + 1 /\ ~(Len(h) + 1 <= i)
      BY <1>1
    <3> QED BY <1>3, <1>5, <2>2, <3>1 DEF FirstOf
  <2> QED BY <1>5, <2>1, <2>2 DEF FirstOf, g
<1> QED BY <1>4, <1>5

(* Between and Lost by their members.                                      *)
LEMMA BetweenMember ==
  ASSUME NEW h, NEW s, NEW k
  PROVE  k \in Between(h, s) <=>
           \E i \in FirstOf(h, s), j \in Of(h, s) : k \in h[i].n + 1 .. h[j].n - 1
BY DEF Between

LEMMA LostMember ==
  ASSUME NEW h, NEW y
  PROVE  y \in Lost(h) <=>
           \E s \in Stream : \E k \in Between(h, s) \ Arrived(h, CounterOf[s]) :
             y = [counter |-> CounterOf[s], n |-> k]
BY DEF Lost

(* One more number has arrived.                                            *)
LEMMA ArrivedAppend ==
  ASSUME NEW h \in Seq(Message), NEW x \in Message, NEW c
  PROVE  /\ CounterOf[x.stream] # c => Arrived(Append(h, x), c) = Arrived(h, c)
         /\ CounterOf[x.stream] = c =>
              Arrived(Append(h, x), c) = Arrived(h, c) \cup {x.n}
         /\ \A s \in Stream : \A i \in Of(h, s) : h[i].n \in Arrived(h, CounterOf[s])
<1> DEFINE g == Append(h, x)
<1>1. /\ DOMAIN h = 1 .. Len(h) /\ DOMAIN g = 1 .. Len(h) + 1 /\ Len(h) \in Nat
      /\ g[Len(h) + 1] = x /\ \A i \in DOMAIN h : g[i] = h[i]
  BY OfAppend
<1> HIDE DEF g
<1>2. \A i : i \in 1 .. Len(h) + 1 <=> i \in 1 .. Len(h) \/ i = Len(h) + 1
  BY <1>1
<1>3. CounterOf[x.stream] # c => Arrived(g, c) = Arrived(h, c)
  BY <1>1, <1>2 DEF Arrived
<1>4. CounterOf[x.stream] = c => Arrived(g, c) = Arrived(h, c) \cup {x.n}
  BY <1>1, <1>2 DEF Arrived
<1>5. \A s \in Stream : \A i \in Of(h, s) : h[i].n \in Arrived(h, CounterOf[s])
  BY DEF Of, Arrived
<1> QED BY <1>3, <1>4, <1>5 DEF g


(* What lies between the first and any other of a stream, when one more    *)
(* message is heard: nothing more, unless its number is the greatest.      *)
LEMMA BetweenAppend ==
  ASSUME NEW h \in Seq(Message), NEW x \in Message, NEW last \in [Stream -> Nat],
         LastHeard(h, last), NEW s \in Stream
  PROVE  /\ x.stream # s \/ Of(h, s) = {} \/ x.n <= last[s]
              => Between(Append(h, x), s) = Between(h, s)
         /\ x.stream = s /\ Of(h, s) # {} /\ x.n > last[s]
              => /\ Between(Append(h, x), s)
                      \subseteq Between(h, s) \cup (last[s] .. x.n - 1)
                 /\ Between(h, s) \subseteq Between(Append(h, x), s)
                 /\ last[s] + 1 .. x.n - 1 \subseteq Between(Append(h, x), s)
         /\ \A k \in Between(h, s) : k \in Nat /\ k < last[s] /\ Of(h, s) # {}
<1> DEFINE g == Append(h, x)
           N == Len(h) + 1
<1>1. /\ \A i \in Of(h, s) : h[i] \in Message /\ g[i] = h[i] /\ h[i].n \in Nat
      /\ FirstOf(h, s) \subseteq Of(h, s)
      /\ g[N] = x /\ x.n \in Nat /\ last[s] \in Nat
  <2>1. Of(h, s) \subseteq DOMAIN h /\ FirstOf(h, s) \subseteq Of(h, s)
    BY OfAppend, FirstAppend
  <2>2. \A i \in Of(h, s) : h[i] \in Message /\ g[i] = h[i]
    BY <2>1, OfAppend
  <2>3. \A m \in Message : m.n \in Nat
    BY DEF Message
  <2>4. g[N] = x /\ last[s] \in Nat
    BY OfAppend
  <2> HIDE DEF g, N
  <2> QED BY <2>1, <2>2, <2>3, <2>4
<1>2. /\ x.stream # s => Of(g, s) = Of(h, s)
      /\ x.stream = s => Of(g, s) = Of(h, s) \cup {N}
  <2>1. s \in Stream => (x.stream # s => Of(g, s) = Of(h, s))
    BY OfAppend
  <2>2. Of(g, x.stream) = Of(h, x.stream) \cup {N}
    BY OfAppend
  <2> HIDE DEF g, N
  <2> QED BY <2>1, <2>2
<1>3. /\ x.stream # s \/ Of(h, s) # {} => FirstOf(g, s) = FirstOf(h, s)
      /\ x.stream = s /\ Of(h, s) = {} => FirstOf(g, s) = {N}
  BY FirstAppend
<1>4. /\ Of(h, s) # {} => \E j \in Of(h, s) : h[j].n = last[s]
      /\ \A j \in Of(h, s) : h[j].n <= last[s]
  BY DEF LastHeard
<1> HIDE DEF g, N
<1>5. \A k \in Between(h, s) : k \in Nat /\ k < last[s] /\ Of(h, s) # {}
  <2> SUFFICES ASSUME NEW k \in Between(h, s)
               PROVE  k \in Nat /\ k < last[s] /\ Of(h, s) # {}
    OBVIOUS
  <2>1. PICK i \in FirstOf(h, s), j \in Of(h, s) : k \in h[i].n + 1 .. h[j].n - 1
    BY BetweenMember
  <2>2. h[i].n \in Nat /\ h[j].n \in Nat /\ h[j].n <= last[s]
    BY <1>1, <1>4
  <2> QED BY <1>1, <2>1, <2>2
<1>6. CASE x.stream # s
  <2>1. Of(g, s) = Of(h, s) /\ FirstOf(g, s) = FirstOf(h, s)
    BY <1>2, <1>3, <1>6
  <2>2. \A k : k \in Between(g, s) <=> k \in Between(h, s)
    BY <1>1, <2>1, BetweenMember
  <2> QED BY <1>5, <1>6, <2>2 DEF g
<1>7. CASE x.stream = s /\ Of(h, s) = {}
  <2>1. Of(g, s) = {N} /\ FirstOf(g, s) = {N}
    BY <1>2, <1>3, <1>7
  <2>2. \A k : k \notin Between(g, s)
    <3> SUFFICES ASSUME NEW k \in Between(g, s) PROVE FALSE
      OBVIOUS
    <3>1. k \in x.n + 1 .. x.n - 1
      BY <1>1, <2>1, BetweenMember
    <3> QED BY <1>1, <3>1
  <2>3. \A k : k \notin Between(h, s)
    BY <1>5, <1>7
  <2>4. Between(g, s) = Between(h, s)
    BY <2>2, <2>3
  <2> QED BY <1>5, <1>7, <2>4 DEF g
<1>8. CASE x.stream = s /\ Of(h, s) # {}
  <2>1. Of(g, s) = Of(h, s) \cup {N} /\ FirstOf(g, s) = FirstOf(h, s)
    BY <1>2, <1>3, <1>8
  <2>2. Between(h, s) \subseteq Between(g, s)
    <3> SUFFICES ASSUME NEW k \in Between(h, s) PROVE k \in Between(g, s)
      OBVIOUS
    <3>1. PICK i \in FirstOf(h, s), j \in Of(h, s) : k \in h[i].n + 1 .. h[j].n - 1
      BY BetweenMember
    <3>2. i \in FirstOf(g, s) /\ j \in Of(g, s) /\ g[i] = h[i] /\ g[j] = h[j]
      BY <1>1, <2>1
    <3> QED BY <3>1, <3>2, BetweenMember
  <2>3. PICK top \in Of(h, s) : h[top].n = last[s]
    BY <1>4, <1>8
  <2>4. ASSUME NEW k \in Between(g, s)
        PROVE  k \in Between(h, s) \/ k \in last[s] .. x.n - 1
    <3>1. PICK i \in FirstOf(g, s), j \in Of(g, s) : k \in g[i].n + 1 .. g[j].n - 1
      BY BetweenMember
    <3>2. i \in FirstOf(h, s) /\ i \in Of(h, s) /\ g[i] = h[i] /\ h[i].n \in Nat
      BY <1>1, <2>1, <3>1
    <3>3. CASE j = N
      <4>1. k \in h[i].n + 1 .. x.n - 1
        BY <1>1, <3>1, <3>2, <3>3
      <4>2. k \in h[i].n + 1 .. h[top].n - 1 \/ k \in last[s] .. x.n - 1
        BY <1>1, <2>3, <3>2, <4>1
      <4> QED BY <2>3, <3>2, <4>2, BetweenMember
    <3>4. CASE j \in Of(h, s)
      <4>1. k \in h[i].n + 1 .. h[j].n - 1
        BY <1>1, <3>1, <3>2, <3>4
      <4> QED BY <3>2, <3>4, <4>1, BetweenMember
    <3> QED BY <2>1, <3>1, <3>3, <3>4
  <2>5. CASE x.n <= last[s]
    <3>1. \A k \in Between(g, s) : k \in Between(h, s)
      <4> SUFFICES ASSUME NEW k \in Between(g, s), k \in last[s] .. x.n - 1 PROVE FALSE
        BY <2>4
      <4> QED BY <1>1, <2>5
    <3>2. Between(g, s) = Between(h, s)
      BY <2>2, <3>1
    <3> QED BY <1>1, <1>5, <2>5, <3>2 DEF g
  <2>6. CASE x.n > last[s]
    <3>1. Between(g, s) \subseteq Between(h, s) \cup (last[s] .. x.n - 1)
      BY <2>4
    <3>2. ASSUME NEW k \in last[s] + 1 .. x.n - 1 PROVE k \in Between(g, s)
      <4>1. PICK i \in FirstOf(h, s) : TRUE
        BY <1>8 DEF LastHeard
      <4>2. i \in FirstOf(g, s) /\ N \in Of(g, s) /\ i \in Of(h, s) /\ g[i] = h[i]
        BY <1>1, <2>1, <4>1
      <4>3. h[i].n \in Nat /\ h[i].n <= last[s]
        BY <1>1, <1>4, <4>2
      <4>4. k \in g[i].n + 1 .. g[N].n - 1
        BY <1>1, <4>2, <4>3
      <4> QED BY <4>2, <4>4, BetweenMember
    <3> QED BY <1>1, <1>5, <1>8, <2>2, <2>6, <3>1, <3>2 DEF g
  <2> QED BY <1>1, <2>5, <2>6
<1> QED BY <1>6, <1>7, <1>8


(* If every counter numbers one stream, the streams that share x's counter *)
(* were not heard.                                                         *)
LEMMA OwnAppend ==
  ASSUME NEW h \in Seq(Message), NEW x \in Message, OwnNumbers(Append(h, x))
  PROVE  /\ OwnNumbers(h)
         /\ \A t \in Stream : CounterOf[t] = CounterOf[x.stream] /\ t # x.stream
                                => Of(h, t) = {} /\ Between(h, t) = {}
         /\ \A k \in Arrived(h, CounterOf[x.stream]) :
              \E i \in Of(h, x.stream) : k = h[i].n
<1> DEFINE g == Append(h, x)
           N == Len(h) + 1
<1>1. /\ DOMAIN h \subseteq DOMAIN g /\ N \in DOMAIN g /\ g[N] = x
      /\ \A i \in DOMAIN h : g[i] = h[i]
  BY OfAppend
<1>2. \A i, j \in DOMAIN g :
        CounterOf[g[i].stream] = CounterOf[g[j].stream] => g[i].stream = g[j].stream
  BY DEF OwnNumbers
<1> HIDE DEF g, N
<1>3. \A i \in DOMAIN h : CounterOf[h[i].stream] = CounterOf[x.stream]
                            => h[i].stream = x.stream
  BY <1>1, <1>2
<1>4. OwnNumbers(h)
  BY <1>1, <1>2 DEF OwnNumbers
<1>5. ASSUME NEW t \in Stream, CounterOf[t] = CounterOf[x.stream], t # x.stream
      PROVE  Of(h, t) = {} /\ Between(h, t) = {}
  <2>1. Of(h, t) = {}
    BY <1>3, <1>5 DEF Of
  <2>2. \A k : k \notin Between(h, t)
    BY <2>1, BetweenMember
  <2> QED BY <2>1, <2>2
<1>6. \A k \in Arrived(h, CounterOf[x.stream]) : \E i \in Of(h, x.stream) : k = h[i].n
  BY <1>3 DEF Arrived, Of
<1> QED BY <1>4, <1>5, <1>6

(* What one more message adds to the losses: at most the numbers it skips, *)
(* and exactly those if every counter numbers one stream.                  *)
LEMMA LostAppend ==
  ASSUME NEW h \in Seq(Message), NEW x \in Message, NEW last \in [Stream -> Nat],
         LastHeard(h, last)
  PROVE  /\ Of(h, x.stream) = {} \/ x.n <= last[x.stream]
              => Lost(Append(h, x)) \subseteq Lost(h)
         /\ Of(h, x.stream) # {} /\ x.n > last[x.stream]
              => Lost(Append(h, x)) \subseteq Lost(h) \cup Skipped(last, x)
<1> DEFINE g == Append(h, x)
           s == x.stream
           c == CounterOf[s]
<1>1. s \in Stream /\ x.n \in Nat /\ last[s] \in Nat
  BY DEF Message
<1>2. /\ \A d : Arrived(h, d) \subseteq Arrived(g, d)
      /\ \A i \in Of(h, s) : h[i].n \in Arrived(g, c)
  <2>1. ASSUME NEW d PROVE Arrived(h, d) \subseteq Arrived(g, d)
    <3>1. CounterOf[s] # d => Arrived(g, d) = Arrived(h, d)
      BY ArrivedAppend
    <3>2. CounterOf[s] = d => Arrived(g, d) = Arrived(h, d) \cup {x.n}
      BY ArrivedAppend
    <3> HIDE DEF g, s, c
    <3> QED BY <3>1, <3>2
  <2>2. \A i \in Of(h, s) : h[i].n \in Arrived(h, c)
    BY <1>1, ArrivedAppend
  <2> HIDE DEF g, s, c
  <2> QED BY <2>1, <2>2
<1>3. \A t \in Stream \ {s} : Between(g, t) = Between(h, t)
  BY BetweenAppend
<1>4. CASE Of(h, s) = {} \/ x.n <= last[s]
  <2>1. \A t \in Stream : Between(g, t) = Between(h, t)
    <3>1. Between(g, s) = Between(h, s)
      BY <1>1, <1>4, BetweenAppend
    <3> QED BY <1>3, <3>1
  <2> HIDE DEF g, s, c
  <2>2. \A y \in Lost(g) : y \in Lost(h)
    BY <1>2, <2>1, LostMember
  <2>3. ~(Of(h, s) # {} /\ x.n > last[s])
    BY <1>1, <1>4
  <2> QED BY <2>2, <2>3 DEF g, s
<1>5. CASE Of(h, s) # {} /\ x.n > last[s]
  <2>1. Between(g, s) \subseteq Between(h, s) \cup (last[s] .. x.n - 1)
    BY <1>1, <1>5, BetweenAppend
  <2>2. last[s] \in Arrived(g, c)
    BY <1>1, <1>2, <1>5 DEF LastHeard
  <2>3. Skipped(last, x) = {[counter |-> c, n |-> k] : k \in last[s] + 1 .. x.n - 1}
    BY DEF Skipped
  <2> HIDE DEF g, s, c
  <2>4. ASSUME NEW y \in Lost(g) PROVE y \in Lost(h) \cup Skipped(last, x)
    <3>1. PICK t \in Stream : \E k \in Between(g, t) \ Arrived(g, CounterOf[t]) :
                                y = [counter |-> CounterOf[t], n |-> k]
      BY LostMember
    <3>2. PICK k \in Between(g, t) \ Arrived(g, CounterOf[t]) :
                 y = [counter |-> CounterOf[t], n |-> k]
      BY <3>1
    <3>3. k \notin Arrived(h, CounterOf[t])
      BY <1>2, <3>2
    <3>4. CASE k \in Between(h, t)
      BY <3>2, <3>3, <3>4, LostMember
    <3>5. CASE k \notin Between(h, t)
      <4>1. t = s /\ k \in last[s] .. x.n - 1
        BY <1>3, <2>1, <3>2, <3>5
      <4>2. CounterOf[t] = c /\ k # last[s]
        BY <2>2, <3>2, <4>1 DEF c
      <4>3. k \in last[s] + 1 .. x.n - 1
        BY <1>1, <4>1, <4>2
      <4> QED BY <2>3, <3>2, <4>2, <4>3
    <3> QED BY <3>4, <3>5
  <2>5. ~(Of(h, s) = {} \/ x.n <= last[s])
    BY <1>1, <1>5
  <2> QED BY <2>4, <2>5 DEF g, s
<1> QED BY <1>1, <1>4, <1>5

LEMMA LostAppendOwn ==
  ASSUME NEW h \in Seq(Message), NEW x \in Message, NEW last \in [Stream -> Nat],
         LastHeard(h, last), OwnNumbers(Append(h, x))
  PROVE  /\ Of(h, x.stream) = {} \/ x.n = last[x.stream]
              => Lost(Append(h, x)) = Lost(h)
         /\ Of(h, x.stream) # {} /\ x.n > last[x.stream]
              => /\ Lost(Append(h, x)) = Lost(h) \cup Skipped(last, x)
                 /\ Lost(h) \cap Skipped(last, x) = {}
<1> DEFINE g == Append(h, x)
           s == x.stream
           c == CounterOf[s]
<1>1. s \in Stream /\ x.n \in Nat /\ last[s] \in Nat
  BY DEF Message
<1>2. /\ \A d : d # c => Arrived(g, d) = Arrived(h, d)
      /\ Arrived(g, c) = Arrived(h, c) \cup {x.n}
  BY ArrivedAppend
<1>3. \A t \in Stream \ {s} : CounterOf[t] = c => Between(h, t) = {}
  BY OwnAppend
<1>4. /\ \A k \in Arrived(h, c) : k \in Nat /\ k <= last[s] /\ Of(h, s) # {}
      /\ Of(h, s) # {} => last[s] \in Arrived(h, c)
      /\ \A k \in Between(h, s) : k \in Nat /\ k < last[s] /\ Of(h, s) # {}
  <2>1. \A i \in Of(h, s) : h[i].n <= last[s] /\ h[i].n \in Nat
    BY <1>1, OfAppend DEF LastHeard, Message
  <2>2. Of(h, s) # {} => last[s] \in Arrived(h, c)
    BY <1>1, ArrivedAppend DEF LastHeard
  <2>3. \A k \in Between(h, s) : k \in Nat /\ k < last[s] /\ Of(h, s) # {}
    BY <1>1, BetweenAppend
  <2>4. \A k \in Arrived(h, c) : \E i \in Of(h, s) : k = h[i].n
    BY OwnAppend
  <2> HIDE DEF s, c
  <2> QED BY <2>1, <2>2, <2>3, <2>4
<1>5. \A t \in Stream : /\ Between(h, t) \subseteq Between(g, t)
                        /\ t # s \/ ~(Of(h, s) # {} /\ x.n > last[s])
                             => Between(g, t) = Between(h, t)
  BY <1>1, BetweenAppend
<1>6. CASE Of(h, s) = {} \/ x.n = last[s]
  <2>1. \A t \in Stream : Between(g, t) = Between(h, t)
    BY <1>1, <1>5, <1>6
  <2>2. ASSUME NEW t \in Stream, NEW k \in Between(h, t) \ Arrived(h, CounterOf[t])
        PROVE  k \notin Arrived(g, CounterOf[t])
    <3>1. CASE CounterOf[t] # c
      BY <1>2, <2>2, <3>1
    <3>2. CASE CounterOf[t] = c
      <4>1. t = s /\ Of(h, s) # {}
        BY <1>3, <1>4, <2>2, <3>2
      <4>2. Arrived(g, c) = Arrived(h, c)
        BY <1>2, <1>4, <1>6, <4>1
      <4> QED BY <2>2, <3>2, <4>2
    <3> QED BY <3>1, <3>2
  <2> HIDE DEF g, s, c
  <2>3. \A y \in Lost(h) : y \in Lost(g)
    BY <2>1, <2>2, LostMember
  <2>4. Lost(g) \subseteq Lost(h)
    BY <1>1, <1>6, LostAppend DEF g, s
  <2>5. Lost(g) = Lost(h)
    BY <2>3, <2>4
  <2>6. ~(Of(h, s) # {} /\ x.n > last[s])
    BY <1>1, <1>6
  <2> QED BY <2>5, <2>6 DEF g, s
<1>7. CASE Of(h, s) # {} /\ x.n > last[s]
  <2>1. Skipped(last, x) = {[counter |-> c, n |-> k] : k \in last[s] + 1 .. x.n - 1}
    BY DEF Skipped
  <2>2. last[s] + 1 .. x.n - 1 \subseteq Between(g, s)
    BY <1>1, <1>7, BetweenAppend
  <2>3. Lost(g) \subseteq Lost(h) \cup Skipped(last, x)
    BY <1>7, LostAppend
  <2>4. ASSUME NEW k \in last[s] + 1 .. x.n - 1
        PROVE  k \notin Arrived(g, c) /\ k \notin Between(h, s)
    BY <1>1, <1>2, <1>4
  <2>5. \A k \in Between(h, s) : k # x.n
    BY <1>1, <1>4, <1>7
  <2> HIDE DEF g, s
  <2>6. Skipped(last, x) \subseteq Lost(g)
    BY <1>1, <2>1, <2>2, <2>4, LostMember
  <2>7. ASSUME NEW y \in Lost(h) PROVE y \in Lost(g) /\ y \notin Skipped(last, x)
    <3>1. PICK t \in Stream : \E k \in Between(h, t) \ Arrived(h, CounterOf[t]) :
                                y = [counter |-> CounterOf[t], n |-> k]
      BY LostMember
    <3>2. PICK k \in Between(h, t) \ Arrived(h, CounterOf[t]) :
                 y = [counter |-> CounterOf[t], n |-> k]
      BY <3>1
    <3>3. k \in Between(g, t)
      BY <1>5, <3>2
    <3>4. CASE CounterOf[t] # c
      <4>1. y \in Lost(g)
        BY <1>2, <3>2, <3>3, <3>4, LostMember
      <4>2. y.counter # c
        BY <3>2, <3>4
      <4>3. \A z \in Skipped(last, x) : z.counter = c
        BY <2>1
      <4> QED BY <4>1, <4>2, <4>3
    <3>5. CASE CounterOf[t] = c
      <4>1. t = s
        BY <1>3, <3>2, <3>5
      <4>2. k # x.n /\ k \notin last[s] + 1 .. x.n - 1
        BY <2>4, <2>5, <3>2, <4>1
      <4>3. y \in Lost(g)
        BY <1>2, <3>2, <3>3, <3>5, <4>2, LostMember
      <4>4. y.n = k
        BY <3>2
      <4>5. \A z \in Skipped(last, x) : z.n \in last[s] + 1 .. x.n - 1
        BY <2>1
      <4> QED BY <4>2, <4>3, <4>4, <4>5
    <3> QED BY <3>4, <3>5
  <2>8. Lost(g) = Lost(h) \cup Skipped(last, x) /\ Lost(h) \cap Skipped(last, x) = {}
    BY <2>3, <2>6, <2>7
  <2>9. ~(Of(h, s) = {} \/ x.n = last[s])
    BY <1>1, <1>7
  <2> QED BY <2>8, <2>9 DEF g, s
<1> QED BY <1>1, <1>6, <1>7


(* A message that skips numbers skips as many as trackSeq adds.            *)
LEMMA SkippedSize ==
  ASSUME NEW x \in Message, NEW last \in [Stream -> Nat], x.n > last[x.stream]
  PROVE  /\ IsFiniteSet(Skipped(last, x))
         /\ Cardinality(Skipped(last, x)) = x.n - last[x.stream] - 1
<1> DEFINE a == last[x.stream] + 1
           b == x.n - 1
           f == [k \in a .. b |-> [counter |-> CounterOf[x.stream], n |-> k]]
<1>1. a \in Int /\ b \in Int /\ b - a + 1 = x.n - last[x.stream] - 1 /\ a <= b + 1
  BY DEF Message
<1>2. IsFiniteSet(a .. b) /\ Cardinality(a .. b) = IF a > b THEN 0 ELSE b - a + 1
  BY <1>1, FS_Interval
<1>3. Cardinality(a .. b) = x.n - last[x.stream] - 1
  BY <1>1, <1>2
<1>4. Skipped(last, x) = {[counter |-> CounterOf[x.stream], n |-> k] : k \in a .. b}
  BY DEF Skipped
<1> HIDE DEF a, b
<1>5. f \in Bijection(a .. b, Skipped(last, x))
  <2>1. f \in [a .. b -> Skipped(last, x)]
    BY <1>4
  <2>2. \A k, l \in a .. b : f[k] = f[l] => k = l
    OBVIOUS
  <2>3. \A y \in Skipped(last, x) : \E k \in a .. b : f[k] = y
    BY <1>4
  <2> HIDE DEF f
  <2> QED BY <2>1, <2>2, <2>3 DEF Bijection, Injection, IsInjective, Surjection
<1>6. ExistsBijection(a .. b, Skipped(last, x))
  BY <1>5 DEF ExistsBijection
<1> QED BY <1>2, <1>3, <1>6, FS_Bijection

(* One more message is one more repeat, or not.                            *)
LEMMA RepeatsAppend ==
  ASSUME NEW h \in Seq(Message), NEW x \in Message
  PROVE  /\ IsFiniteSet(Repeats(h))
         /\ Cardinality(Repeats(Append(h, x))) =
              Cardinality(Repeats(h)) + IF \E j \in DOMAIN h : h[j] = x THEN 1 ELSE 0
<1> DEFINE g == Append(h, x)
           N == Len(h) + 1
<1>1. /\ Len(h) \in Nat /\ DOMAIN h = 1 .. Len(h) /\ DOMAIN g = 1 .. N /\ g[N] = x
      /\ N - 1 = Len(h) /\ \A i \in DOMAIN h : g[i] = h[i]
  BY OfAppend
<1>2. IsFiniteSet(Repeats(h))
  <2>1. IsFiniteSet(1 .. Len(h))
    BY <1>1, FS_Interval
  <2>2. Repeats(h) \in SUBSET (1 .. Len(h))
    BY <1>1 DEF Repeats
  <2> QED BY <2>1, <2>2, FS_Subset
<1>3. N \notin Repeats(h)
  BY <1>1 DEF Repeats
<1> HIDE DEF g
<1>4. \A i \in DOMAIN h : i \in Repeats(g) <=> i \in Repeats(h)
  <2>1. \A i \in DOMAIN h : i \in DOMAIN g /\ \A j \in 1 .. i - 1 : j \in DOMAIN h
    BY <1>1
  <2> QED BY <1>1, <2>1 DEF Repeats
<1>5. N \in Repeats(g) <=> \E j \in DOMAIN h : h[j] = x
  BY <1>1 DEF Repeats
<1>6. \A i \in Repeats(g) : i \in DOMAIN h \/ i = N
  BY <1>1 DEF Repeats
<1>7. Repeats(h) \subseteq DOMAIN h
  BY DEF Repeats
<1> HIDE DEF N
<1>8. CASE \E j \in DOMAIN h : h[j] = x
  <2>1. Repeats(g) = Repeats(h) \cup {N}
    BY <1>4, <1>5, <1>6, <1>7, <1>8
  <2>2. Cardinality(Repeats(g)) = Cardinality(Repeats(h)) + 1
    BY <1>2, <1>3, <2>1, FS_AddElement
  <2> QED BY <1>2, <1>8, <2>2 DEF g
<1>9. CASE ~\E j \in DOMAIN h : h[j] = x
  <2>1. Repeats(g) = Repeats(h)
    BY <1>4, <1>5, <1>6, <1>7, <1>9
  <2>2. Cardinality(Repeats(h)) \in Nat
    BY <1>2, FS_CardinalityType
  <2> QED BY <1>2, <1>9, <2>1, <2>2 DEF g
<1> QED BY <1>8, <1>9

(* trackSeq keeps the greatest number of each stream.                      *)
LEMMA LastHeardAppend ==
  ASSUME NEW h \in Seq(Message), NEW x \in Message, NEW last \in [Stream -> Nat],
         LastHeard(h, last), Positive(h), x.n > 0
  PROVE  /\ Positive(Append(h, x))
         /\ last[x.stream] = 0 <=> Of(h, x.stream) = {}
         /\ last[x.stream] # 0 /\ x.n <= last[x.stream] => LastHeard(Append(h, x), last)
         /\ last[x.stream] = 0 \/ x.n > last[x.stream]
              => LastHeard(Append(h, x), [last EXCEPT ![x.stream] = x.n])
<1> DEFINE g == Append(h, x)
           N == Len(h) + 1
           s == x.stream
<1>1. /\ Len(h) \in Nat /\ DOMAIN h = 1 .. Len(h) /\ DOMAIN g = 1 .. N /\ g[N] = x
      /\ \A i \in DOMAIN h : g[i] = h[i] /\ h[i] \in Message
      /\ s \in Stream /\ x.n \in Nat /\ last[s] \in Nat
  BY OfAppend DEF Message
<1>2. \A i \in DOMAIN g : i \in DOMAIN h \/ i = N
  BY <1>1
<1>3. \A t \in Stream : /\ Of(h, t) \subseteq DOMAIN h
                        /\ t # s => Of(g, t) = Of(h, t) /\ FirstOf(g, t) = FirstOf(h, t)
  BY OfAppend, FirstAppend
<1>4. /\ Of(g, s) = Of(h, s) \cup {N}
      /\ Of(h, s) # {} => FirstOf(g, s) = FirstOf(h, s)
      /\ Of(h, s) = {} => FirstOf(g, s) = {N}
  BY <1>1, OfAppend, FirstAppend
<1> HIDE DEF g, N, s
<1>5. Positive(g)
  BY <1>1, <1>2 DEF Positive
<1>6. last[s] = 0 <=> Of(h, s) = {}
  <2>1. \A i \in Of(h, s) : h[i].n > 0 /\ h[i].n \in Nat
    BY <1>1, <1>3 DEF Positive, Message
  <2> QED BY <1>1, <2>1 DEF LastHeard
<1>7. FirstOf(g, s) # {}
  BY <1>1, <1>4 DEF LastHeard
<1>8. \A i \in Of(h, s) : h[i].n \in Nat /\ h[i].n <= last[s] /\ g[i] = h[i]
  BY <1>1, <1>3 DEF LastHeard, Message
<1>9. ASSUME NEW t \in Stream \ {s}
      PROVE  /\ Of(g, t) = {} => last[t] = 0
             /\ Of(g, t) # {} => /\ FirstOf(g, t) # {}
                                 /\ \E j \in Of(g, t) : g[j].n = last[t]
                                 /\ \A j \in Of(g, t) : g[j].n <= last[t]
  <2>1. Of(g, t) = Of(h, t) /\ FirstOf(g, t) = FirstOf(h, t) /\ \A j \in Of(h, t) : g[j] = h[j]
    BY <1>1, <1>3
  <2> QED BY <2>1 DEF LastHeard
<1>10. ASSUME last[s] # 0, x.n <= last[s] PROVE LastHeard(g, last)
  <2>1. \E j \in Of(g, s) : g[j].n = last[s]
    BY <1>1, <1>4, <1>6, <1>8, <1>10 DEF LastHeard
  <2>2. \A j \in Of(g, s) : g[j].n <= last[s]
    BY <1>1, <1>4, <1>8, <1>10
  <2> QED BY <1>4, <1>7, <1>9, <2>1, <2>2 DEF LastHeard
<1>11. ASSUME last[s] = 0 \/ x.n > last[s] PROVE LastHeard(g, [last EXCEPT ![s] = x.n])
  <2> DEFINE new == [last EXCEPT ![s] = x.n]
  <2>1. new[s] = x.n /\ \A t \in Stream \ {s} : new[t] = last[t]
    BY <1>1
  <2>2. \A j \in Of(g, s) : g[j].n <= x.n
    BY <1>1, <1>4, <1>6, <1>8, <1>11
  <2>3. \E j \in Of(g, s) : g[j].n = x.n
    BY <1>1, <1>4
  <2> HIDE DEF new
  <2> QED BY <1>4, <1>7, <1>9, <2>1, <2>2, <2>3 DEF LastHeard, new
<1> QED BY <1>5, <1>6, <1>10, <1>11 DEF g, s


(* What always holds of the counts r of a run that has heard h: they miss  *)
(* no loss.                                                                *)
NothingMissed(h, r) ==
  /\ LastHeard(h, r.last)
  /\ Positive(h)
  /\ IsFiniteSet(Lost(h))
  /\ Cardinality(Lost(h)) <= r.gaps

(* They are exact.                                                         *)
Exact(h, r) ==
  /\ OwnNumbers(h) => r.gaps = Cardinality(Lost(h))
  /\ r.dupes = Cardinality(Repeats(h))

(* Message y is not after message z, if one counter numbers both.          *)
NotAfter(y, z) == CounterOf[y.stream] = CounterOf[z.stream] => y.n <= z.n

(* The three cases of trackSeq.                                            *)
LEMMA CountedCases ==
  ASSUME NEW r \in RunType, NEW x \in Message
  PROVE  LET last == r.last[x.stream]
             c == Counted(r, x)
         IN  /\ r.last \in [Stream -> Nat] /\ last \in Nat /\ x.n \in Nat /\ x.stream \in Stream
             /\ r.gaps \in Nat /\ r.dupes \in Nat
             /\ last # 0 /\ x.n <= last
                  => c.last = r.last /\ c.gaps = r.gaps /\ c.dupes = r.dupes + 1
             /\ ~(last # 0 /\ x.n <= last)
                  => /\ c.last = [r.last EXCEPT ![x.stream] = x.n]
                     /\ c.gaps = IF last = 0 THEN r.gaps ELSE r.gaps + (x.n - last - 1)
                     /\ c.dupes = r.dupes
<1> DEFINE last == r.last[x.stream]
           c == Counted(r, x)
<1>1. /\ r.last \in [Stream -> Nat] /\ x.stream \in Stream /\ x.n \in Nat /\ last \in Nat
      /\ r.gaps \in Nat /\ r.dupes \in Nat
  BY DEF RunType, Message
<1>2. ASSUME last # 0, x.n <= last
      PROVE  c.last = r.last /\ c.gaps = r.gaps /\ c.dupes = r.dupes + 1
  <2>1. Tracked(r, x) = [r EXCEPT !.dupes = @ + 1]
    BY <1>2, Zenon DEF Tracked
  <2> QED BY <2>1 DEF Counted, RunType
<1>3. ASSUME ~(last # 0 /\ x.n <= last)
      PROVE  /\ c.last = [r.last EXCEPT ![x.stream] = x.n]
             /\ c.gaps = IF last = 0 THEN r.gaps ELSE r.gaps + (x.n - last - 1)
             /\ c.dupes = r.dupes
  <2> DEFINE g == IF last = 0 THEN r.gaps ELSE r.gaps + (x.n - last - 1)
             l == [r.last EXCEPT ![x.stream] = x.n]
  <2>1. Tracked(r, x) = [r EXCEPT !.last = l, !.gaps = g]
    BY <1>3, Zenon DEF Tracked
  <2> HIDE DEF g, l
  <2>2. c.last = l /\ c.gaps = g /\ c.dupes = r.dupes
    BY <2>1 DEF Counted, RunType
  <2> QED BY <2>2 DEF g, l
<1> QED BY <1>1, <1>2, <1>3

(* One more message: no loss is missed.                                    *)
LEMMA NothingMissedAppend ==
  ASSUME NEW r \in RunType, NEW h \in Seq(Message), NEW x \in Message, x.n > 0,
         NothingMissed(h, r)
  PROVE  NothingMissed(Append(h, x), Counted(r, x))
<1> DEFINE g == Append(h, x)
           last == r.last
           s == x.stream
           c == Counted(r, x)
<1>1. /\ last \in [Stream -> Nat] /\ last[s] \in Nat /\ x.n \in Nat /\ s \in Stream
      /\ r.gaps \in Nat
  BY CountedCases
<1>2. /\ LastHeard(h, last) /\ Positive(h)
      /\ IsFiniteSet(Lost(h)) /\ Cardinality(Lost(h)) <= r.gaps
  BY DEF NothingMissed
<1>3. /\ Positive(g)
      /\ last[s] = 0 <=> Of(h, s) = {}
      /\ last[s] # 0 /\ x.n <= last[s] => LastHeard(g, last)
      /\ last[s] = 0 \/ x.n > last[s] => LastHeard(g, [last EXCEPT ![s] = x.n])
  BY <1>1, <1>2, LastHeardAppend
<1>4. Cardinality(Lost(h)) \in Nat
  BY <1>2, FS_CardinalityType
<1>5. CASE Of(h, s) = {} \/ x.n <= last[s]
  <2>1. IsFiniteSet(Lost(g)) /\ Cardinality(Lost(g)) <= Cardinality(Lost(h))
    BY <1>1, <1>2, <1>5, LostAppend, FS_Subset
  <2>2. Cardinality(Lost(g)) \in Nat
    BY <2>1, FS_CardinalityType
  <2>3. c.gaps = r.gaps /\ LastHeard(g, c.last)
    BY <1>1, <1>3, <1>5, CountedCases
  <2> HIDE DEF g, c
  <2> QED BY <1>1, <1>2, <1>3, <1>4, <2>1, <2>2, <2>3 DEF NothingMissed, g, c
<1>6. CASE Of(h, s) # {} /\ x.n > last[s]
  <2> DEFINE new == Skipped(last, x)
  <2>1. IsFiniteSet(new) /\ Cardinality(new) = x.n - last[s] - 1
    BY <1>1, <1>6, SkippedSize
  <2>2. Lost(g) \subseteq Lost(h) \cup new
    BY <1>1, <1>2, <1>6, LostAppend
  <2> HIDE DEF new
  <2>3. /\ IsFiniteSet(Lost(h) \cup new) /\ Cardinality(Lost(h) \cap new) \in Nat
        /\ Cardinality(Lost(h) \cup new)
             = Cardinality(Lost(h)) + Cardinality(new) - Cardinality(Lost(h) \cap new)
    <3>1. IsFiniteSet(Lost(h) \cap new)
      <4>1. Lost(h) \cap new \in SUBSET new
        OBVIOUS
      <4> QED BY <2>1, <4>1, FS_Subset
    <3> QED BY <1>2, <2>1, <3>1, FS_Union, FS_CardinalityType
  <2>4. IsFiniteSet(Lost(g)) /\ Cardinality(Lost(g)) <= Cardinality(Lost(h) \cup new)
    BY <2>2, <2>3, FS_Subset
  <2>5. Cardinality(Lost(g)) \in Nat
    BY <2>4, FS_CardinalityType
  <2>6. c.gaps = r.gaps + (x.n - last[s] - 1) /\ LastHeard(g, c.last)
    BY <1>1, <1>3, <1>6, CountedCases
  <2> HIDE DEF g, c
  <2>7. Cardinality(Lost(g)) <= c.gaps
    BY <1>1, <1>2, <1>4, <2>1, <2>3, <2>4, <2>5, <2>6
  <2> QED BY <1>3, <2>4, <2>6, <2>7 DEF NothingMissed, g, c
<1> QED BY <1>1, <1>5, <1>6

(* One more message that comes in order: the counts stay exact.            *)
LEMMA ExactAppend ==
  ASSUME NEW r \in RunType, NEW h \in Seq(Message), NEW x \in Message, x.n > 0,
         NothingMissed(h, r), Exact(h, r), \A i \in DOMAIN h : NotAfter(h[i], x)
  PROVE  Exact(Append(h, x), Counted(r, x))
<1> DEFINE g == Append(h, x)
           last == r.last
           s == x.stream
           c == Counted(r, x)
           heardBefore == \E j \in DOMAIN h : h[j] = x
<1>1. /\ last \in [Stream -> Nat] /\ last[s] \in Nat /\ x.n \in Nat /\ s \in Stream
      /\ r.gaps \in Nat /\ r.dupes \in Nat
  BY CountedCases
<1>2. LastHeard(h, last) /\ Positive(h) /\ IsFiniteSet(Lost(h))
  BY DEF NothingMissed
<1>3. last[s] = 0 <=> Of(h, s) = {}
  BY <1>1, <1>2, LastHeardAppend
<1>4. \A i \in Of(h, s) : i \in DOMAIN h /\ h[i] \in Message /\ h[i].stream = s
  BY <1>1, OfAppend DEF Of
<1>5. last[s] # 0 => last[s] <= x.n
  <2>1. \A i \in Of(h, s) : h[i].n <= x.n
    BY <1>4 DEF NotAfter
  <2> QED BY <1>1, <1>2, <1>3, <2>1 DEF LastHeard
<1>6. heardBefore <=> last[s] # 0 /\ x.n <= last[s]
  <2>1. ASSUME heardBefore PROVE last[s] # 0 /\ x.n <= last[s]
    <3>1. PICK j \in DOMAIN h : h[j] = x
      BY <2>1
    <3>2. j \in Of(h, s)
      BY <3>1 DEF Of
    <3> QED BY <1>1, <1>2, <1>3, <3>1, <3>2 DEF LastHeard
  <2>2. ASSUME last[s] # 0, x.n <= last[s] PROVE heardBefore
    <3>1. PICK j \in Of(h, s) : h[j].n = last[s]
      BY <1>1, <1>2, <1>3, <2>2 DEF LastHeard
    <3>2. h[j].n = x.n /\ h[j].stream = x.stream /\ h[j] \in Message /\ j \in DOMAIN h
      BY <1>1, <1>4, <1>5, <2>2, <3>1
    <3>3. h[j] = x
      BY <3>2 DEF Message
    <3> QED BY <3>2, <3>3
  <2> QED BY <2>1, <2>2
<1>c. /\ last[s] # 0 /\ x.n <= last[s] => c.gaps = r.gaps /\ c.dupes = r.dupes + 1
      /\ ~(last[s] # 0 /\ x.n <= last[s])
           => /\ c.gaps = IF last[s] = 0 THEN r.gaps ELSE r.gaps + (x.n - last[s] - 1)
              /\ c.dupes = r.dupes
  BY CountedCases
<1> HIDE DEF c, heardBefore
<1>7. c.dupes = Cardinality(Repeats(g))
  <2>1. c.dupes = r.dupes + IF heardBefore THEN 1 ELSE 0
    BY <1>1, <1>6, <1>c
  <2>2. Cardinality(Repeats(g)) = Cardinality(Repeats(h)) + IF heardBefore THEN 1 ELSE 0
    BY RepeatsAppend DEF heardBefore
  <2> QED BY <2>1, <2>2 DEF Exact
<1>8. ASSUME OwnNumbers(g) PROVE c.gaps = Cardinality(Lost(g))
  <2>1. r.gaps = Cardinality(Lost(h))
    BY <1>8, OwnAppend DEF Exact
  <2>2. CASE Of(h, s) = {} \/ x.n <= last[s]
    <3>1. c.gaps = r.gaps
      BY <1>1, <1>3, <1>c, <2>2
    <3>2. Of(h, s) = {} \/ x.n = last[s]
      BY <1>1, <1>3, <1>5, <2>2
    <3>3. Lost(g) = Lost(h)
      BY <1>1, <1>2, <1>8, <3>2, LostAppendOwn
    <3> QED BY <2>1, <3>1, <3>3
  <2>3. CASE Of(h, s) # {} /\ x.n > last[s]
    <3> DEFINE new == Skipped(last, x)
    <3>1. IsFiniteSet(new) /\ Cardinality(new) = x.n - last[s] - 1
      BY <1>1, <2>3, SkippedSize
    <3>2. Lost(g) = Lost(h) \cup new /\ Lost(h) \cap new = {}
      BY <1>1, <1>2, <1>8, <2>3, LostAppendOwn
    <3> HIDE DEF new
    <3>3. Cardinality(Lost(g)) = Cardinality(Lost(h)) + Cardinality(new) - 0
      BY <1>2, <3>1, <3>2, FS_Union, FS_EmptySet
    <3>4. c.gaps = r.gaps + (x.n - last[s] - 1)
      BY <1>1, <1>3, <1>c, <2>3
    <3> QED BY <1>1, <2>1, <3>1, <3>3, <3>4
  <2> QED BY <1>1, <2>2, <2>3
<1> QED BY <1>7, <1>8 DEF Exact, c


(* A run that has heard nothing has missed nothing.                        *)
LEMMA NothingHeard ==
  ASSUME NEW r, r.gaps = 0, r.dupes = 0, r.last = [s \in Stream |-> 0]
  PROVE  NothingMissed(<<>>, r) /\ Exact(<<>>, r)
<1>1. \A s \in Stream : Of(<<>>, s) = {}
  BY DEF Of
<1>2. LastHeard(<<>>, r.last) /\ Positive(<<>>)
  BY <1>1 DEF LastHeard, Positive
<1>3. Lost(<<>>) = {}
  <2>1. \A s \in Stream : \A k : k \notin Between(<<>>, s)
    BY <1>1, BetweenMember
  <2>2. \A y : y \notin Lost(<<>>)
    BY <2>1, LostMember
  <2> QED BY <2>2
<1>4. Repeats(<<>>) = {}
  BY DEF Repeats
<1> QED BY <1>2, <1>3, <1>4, FS_EmptySet DEF NothingMissed, Exact

(* What a request does to the counts of a run: nothing, or all is cleared. *)
SameCounts(r, q) == q.gaps = r.gaps /\ q.dupes = r.dupes /\ q.last = r.last

NoCounts(r) == r.gaps = 0 /\ r.dupes = 0 /\ r.last = [s \in Stream |-> 0]

LEMMA WithoutCounts ==
  ASSUME runs \in [Mode -> RunType], NEW m \in Mode, NEW x \in Mode
  PROVE  SameCounts(runs[x], RunsWithout(m)[x])
<1>1. RunsWithout(m) = [runs EXCEPT ![m] = [runs[m] EXCEPT !.active = FALSE]]
  BY DEF RunsWithout
<1>2. SameCounts(runs[m], [runs[m] EXCEPT !.active = FALSE])
  BY DEF RunType, SameCounts
<1> DEFINE q == [runs[m] EXCEPT !.active = FALSE]
<1> HIDE DEF q
<1>3. CASE x = m
  BY <1>1, <1>2, <1>3 DEF q
<1>4. CASE x # m
  <2>1. RunsWithout(m)[x] = runs[x]
    BY <1>1, <1>4
  <2> QED BY <2>1 DEF SameCounts
<1> QED BY <1>3, <1>4

LEMMA HandleCounts ==
  ASSUME ServerType, NEW q, RequestOK(q), Handle(q), NEW x \in Mode
  PROVE  \/ heard'[x] = heard[x] /\ SameCounts(runs[x], runs'[x])
         \/ heard'[x] = <<>> /\ NoCounts(runs'[x])
<1>0. /\ runs \in [Mode -> RunType] /\ heard \in [Mode -> Seq(Message)]
      /\ activeRun \in Mode \cup {None}
  BY DEF ServerType
<1>s. ASSUME UNCHANGED <<runs, heard>>
      PROVE  heard'[x] = heard[x] /\ SameCounts(runs[x], runs'[x])
  BY <1>s DEF SameCounts
<1>r. ASSUME NEW m \in Mode, StopRun(m)
      PROVE  heard'[x] = heard[x] /\ SameCounts(runs[x], runs'[x])
  <2>1. runs' = RunsWithout(m) /\ heard' = heard
    BY <1>r DEF StopRun
  <2> QED BY <1>0, <2>1, WithoutCounts
<1>1. CASE q.kind = "mode" /\ HandleMode(q.mode)
  BY <1>1, <1>s DEF HandleMode
<1>2. CASE q.kind = "start" /\ HandleStart(q.mode)
  <2> DEFINE m == q.mode
             stopped == IF activeRun = None THEN runs ELSE RunsWithout(activeRun)
             fresh == [FreshRun EXCEPT !.active = TRUE]
  <2>1. /\ runs' = [stopped EXCEPT ![m] = fresh]
        /\ heard' = [heard EXCEPT ![m] = <<>>] /\ m \in Mode
    BY <1>2 DEF HandleStart, RequestOK
  <2>2. NoCounts(fresh)
    BY DEF FreshRun, NoCounts
  <2>3. SameCounts(runs[x], stopped[x]) /\ stopped \in [Mode -> RunType]
    <3>1. CASE activeRun = None
      BY <1>0, <3>1 DEF SameCounts
    <3>2. CASE activeRun # None
      BY <1>0, <3>2, WithoutCounts, RunsWithoutType
    <3> QED BY <3>1, <3>2
  <2> HIDE DEF m, stopped, fresh
  <2>4. CASE x = m
    BY <1>0, <2>1, <2>2, <2>3, <2>4
  <2>5. CASE x # m
    <3>1. runs'[x] = stopped[x] /\ heard'[x] = heard[x]
      BY <1>0, <2>1, <2>3, <2>5
    <3> QED BY <2>3, <3>1
  <2> QED BY <2>4, <2>5
<1>3. CASE q.kind = "stop" /\ HandleStop
  <2>1. CASE activeRun = None
    BY <1>3, <1>s, <2>1 DEF HandleStop
  <2>2. CASE activeRun # None
    BY <1>0, <1>3, <1>r, <2>2 DEF HandleStop
  <2> QED BY <2>1, <2>2
<1>4. CASE q.kind = "stopMode" /\ StopRun(q.mode)
  BY <1>4, <1>r DEF RequestOK
<1>5. CASE q.kind = "reset" /\ HandleReset
  <2>1. runs'[x] = FreshRun /\ heard'[x] = <<>>
    BY <1>5 DEF HandleReset
  <2> QED BY <2>1 DEF FreshRun, NoCounts
<1> QED BY <1>1, <1>2, <1>3, <1>4, <1>5 DEF Handle

(* The node has sent message y.                                            *)
Sent(y) == y.n <= number[CounterOf[y.stream]]

CountInv ==
  /\ Positive(air)
  /\ \A m \in Mode : NothingMissed(heard[m], runs[m])

(* Without delays and restarts: all messages heard and under way were      *)
(* sent; those under way are in order, and after those that were heard;    *)
(* and the counts are exact.                                               *)
OrderInv ==
  Never({"delayed", "rebooted"}) =>
    /\ \A i \in DOMAIN air : Sent(air[i])
    /\ \A i, j \in DOMAIN air : i < j => NotAfter(air[i], air[j])
    /\ \A m \in Mode : \A i \in DOMAIN heard[m] :
         /\ Sent(heard[m][i])
         /\ \A j \in DOMAIN air : NotAfter(heard[m][i], air[j])
    /\ \A m \in Mode : Exact(heard[m], runs[m])

LEMMA CountInvImplies == CountInv /\ OrderInv => GapsAreLosses /\ LossIsNeverUnderstated
<1> SUFFICES ASSUME CountInv, OrderInv PROVE GapsAreLosses /\ LossIsNeverUnderstated
  OBVIOUS
<1>1. GapsAreLosses
  BY DEF OrderInv, Exact, GapsAreLosses
<1>2. ASSUME NEW m \in Mode PROVE runs[m].gaps >= Cardinality(Lost(heard[m]))
  <2>1. IsFiniteSet(Lost(heard[m])) /\ Cardinality(Lost(heard[m])) <= runs[m].gaps
    BY DEF CountInv, NothingMissed
  <2> QED BY <2>1
<1> QED BY <1>1, <1>2 DEF LossIsNeverUnderstated


(* Messages that are lost or repeated, or arrive, leave those under way in *)
(* order: every one of air' was in air, at a place f that keeps the order. *)
LEMMA ThinnedAir ==
  ASSUME air \in Seq(Message), air' \in Seq(Message), number' = number,
         NEW f \in [DOMAIN air' -> DOMAIN air],
         \A i \in DOMAIN air' : air'[i] = air[f[i]],
         \A i, j \in DOMAIN air' : i < j => f[i] <= f[j]
  PROVE  /\ Positive(air) => Positive(air')
         /\ (\A i \in DOMAIN air : Sent(air[i])) => \A i \in DOMAIN air' : Sent(air[i])'
         /\ (\A i, j \in DOMAIN air : i < j => NotAfter(air[i], air[j]))
              => \A i, j \in DOMAIN air' : i < j => NotAfter(air'[i], air'[j])
         /\ \A y : (\A j \in DOMAIN air : NotAfter(y, air[j]))
                     => \A j \in DOMAIN air' : NotAfter(y, air'[j])
<1>1. \A i \in DOMAIN air : i \in Nat /\ air[i].n \in Nat
  <2>1. \A i \in DOMAIN air : i \in Nat /\ air[i] \in Message
    BY LenProperties, ElementOfSeq
  <2> QED BY <2>1 DEF Message
<1>2. \A i \in DOMAIN air : NotAfter(air[i], air[i])
  BY <1>1 DEF NotAfter
<1>3. Positive(air) => Positive(air')
  BY DEF Positive
<1>4. (\A i \in DOMAIN air : Sent(air[i])) => \A i \in DOMAIN air' : Sent(air[i])'
  BY DEF Sent
<1>5. ASSUME \A i, j \in DOMAIN air : i < j => NotAfter(air[i], air[j]),
             NEW i \in DOMAIN air', NEW j \in DOMAIN air', i < j
      PROVE  NotAfter(air'[i], air'[j])
  <2>1. f[i] \in DOMAIN air /\ f[j] \in DOMAIN air /\ f[i] <= f[j]
    BY <1>5
  <2>2. f[i] < f[j] \/ f[i] = f[j]
    BY <1>1, <2>1
  <2>3. NotAfter(air[f[i]], air[f[j]])
    BY <1>2, <1>5, <2>1, <2>2
  <2> QED BY <2>3
<1>6. \A y : (\A j \in DOMAIN air : NotAfter(y, air[j]))
               => \A j \in DOMAIN air' : NotAfter(y, air'[j])
  OBVIOUS
<1> QED BY <1>3, <1>4, <1>5, <1>6

LEMMA TailAir ==
  ASSUME air \in Seq(Message), air # <<>>, air' = Tail(air), number' = number
  PROVE  /\ air' \in Seq(Message) /\ Head(air) \in Message
         /\ 1 \in DOMAIN air /\ air[1] = Head(air)
         /\ \A i \in DOMAIN air' : i + 1 \in DOMAIN air /\ 1 < i + 1 /\ air'[i] = air[i + 1]
         /\ \E f \in [DOMAIN air' -> DOMAIN air] :
              /\ \A i \in DOMAIN air' : air'[i] = air[f[i]]
              /\ \A i, j \in DOMAIN air' : i < j => f[i] <= f[j]
<1>1. /\ Len(air) \in Nat /\ Len(air) > 0 /\ DOMAIN air = 1 .. Len(air)
      /\ air' \in Seq(Message) /\ Len(air') = Len(air) - 1
      /\ \A i \in 1 .. Len(air) - 1 : air'[i] = air[i + 1]
      /\ Head(air) = air[1] /\ Head(air) \in Message
  BY HeadTailProperties, LenProperties, EmptySeq
<1>2. DOMAIN air' = 1 .. Len(air) - 1
  BY <1>1, LenProperties
<1>3. 1 \in DOMAIN air /\ \A i \in DOMAIN air' : i + 1 \in DOMAIN air /\ 1 < i + 1
  BY <1>1, <1>2
<1> DEFINE f == [i \in DOMAIN air' |-> i + 1]
<1>4. f \in [DOMAIN air' -> DOMAIN air]
  BY <1>3
<1>5. \A i \in DOMAIN air' : air'[i] = air[f[i]]
  BY <1>1, <1>2
<1>6. \A i, j \in DOMAIN air' : i < j => f[i] <= f[j]
  BY <1>2
<1> QED BY <1>1, <1>2, <1>3, <1>4, <1>5, <1>6

LEMMA RepeatAir ==
  ASSUME air \in Seq(Message), Repeat
  PROVE  \E f \in [DOMAIN air' -> DOMAIN air] :
           /\ \A i \in DOMAIN air' : air'[i] = air[f[i]]
           /\ \A i, j \in DOMAIN air' : i < j => f[i] <= f[j]
<1>1. /\ Len(air) \in Nat /\ Len(air) > 0 /\ DOMAIN air = 1 .. Len(air)
      /\ Head(air) = air[1] /\ Head(air) \in Message
  BY HeadTailProperties, LenProperties, EmptySeq DEF Repeat
<1>2. <<Head(air)>> \in Seq(Message) /\ Len(<<Head(air)>>) = 1 /\ <<Head(air)>>[1] = air[1]
  BY <1>1
<1>3. air' = <<Head(air)>> \o air
  BY DEF Repeat
<1>4. /\ DOMAIN air' = 1 .. Len(air) + 1 /\ air'[1] = air[1]
      /\ \A i \in 2 .. Len(air) + 1 : air'[i] = air[i - 1]
  BY <1>1, <1>2, <1>3, ConcatProperties, LenProperties
<1> DEFINE f == [i \in DOMAIN air' |-> IF i = 1 THEN 1 ELSE i - 1]
<1>5. f \in [DOMAIN air' -> DOMAIN air]
  BY <1>1, <1>4
<1>6. \A i \in DOMAIN air' : air'[i] = air[f[i]]
  BY <1>1, <1>4
<1>7. \A i, j \in DOMAIN air' : i < j => f[i] <= f[j]
  BY <1>1, <1>4
<1> QED BY <1>5, <1>6, <1>7


(* Every step of the streams keeps what was heard, and the order of what   *)
(* is under way unless a message is delayed or a node restarts.            *)
LEMMA StreamCounts ==
  ASSUME number \in [Counter -> Nat], air \in Seq(Message), StreamStep,
         heard \in [Mode -> Seq(Message)], UNCHANGED <<heard, runs>>, CountInv, OrderInv
  PROVE  CountInv' /\ OrderInv'
<1>0. air' \in Seq(Message)
  BY StreamType
<1>1. \A m \in Mode : /\ NothingMissed(heard[m], runs[m]) /\ NothingMissed(heard'[m], runs'[m])
                      /\ heard'[m] = heard[m] /\ runs'[m] = runs[m]
  BY DEF CountInv
<1>2. Positive(air)
  BY DEF CountInv
<1>3. \A i \in DOMAIN air : air[i] \in Message /\ air[i].n \in Nat
  <2>1. \A i \in DOMAIN air : air[i] \in Message
    BY ElementOfSeq, LenProperties
  <2> QED BY <2>1 DEF Message
<1>4. \A m \in Mode : \A i \in DOMAIN heard[m] : heard[m][i] \in Message
                                                 /\ heard[m][i].n \in Nat
  <2>1. \A m \in Mode : \A i \in DOMAIN heard[m] : heard[m][i] \in Message
    BY ElementOfSeq, LenProperties
  <2> QED BY <2>1 DEF Message
<1>t. ASSUME number' = number, seen \subseteq seen',
             NEW f \in [DOMAIN air' -> DOMAIN air],
             \A i \in DOMAIN air' : air'[i] = air[f[i]],
             \A i, j \in DOMAIN air' : i < j => f[i] <= f[j]
      PROVE  CountInv' /\ OrderInv'
  <2>1. CountInv'
    BY <1>0, <1>1, <1>2, <1>t, ThinnedAir DEF CountInv
  <2>2. SUFFICES ASSUME Never({"delayed", "rebooted"})' PROVE OrderInv'
    BY <2>1 DEF OrderInv
  <2>3. /\ \A i \in DOMAIN air : Sent(air[i])
        /\ \A i, j \in DOMAIN air : i < j => NotAfter(air[i], air[j])
        /\ \A m \in Mode : \A i \in DOMAIN heard[m] :
             /\ Sent(heard[m][i])
             /\ \A j \in DOMAIN air : NotAfter(heard[m][i], air[j])
        /\ \A m \in Mode : Exact(heard[m], runs[m])
    BY <1>t, <2>2 DEF OrderInv, Never
  <2>4. /\ \A i \in DOMAIN air' : Sent(air[i])'
        /\ \A i, j \in DOMAIN air' : i < j => NotAfter(air'[i], air'[j])
    BY <1>0, <1>t, <2>3, ThinnedAir
  <2>5. ASSUME NEW m \in Mode, NEW i \in DOMAIN heard[m]
        PROVE  Sent(heard[m][i])' /\ \A j \in DOMAIN air' : NotAfter(heard[m][i], air'[j])
    <3>1. Sent(heard[m][i])'
      BY <1>t, <2>3 DEF Sent
    <3>2. \A j \in DOMAIN air : NotAfter(heard[m][i], air[j])
      BY <2>3
    <3>3. \A j \in DOMAIN air' : NotAfter(heard[m][i], air'[j])
      BY <1>t, <3>2
    <3> QED BY <3>1, <3>3
  <2> QED BY <1>1, <2>3, <2>4, <2>5 DEF OrderInv, NotAfter, Sent
<1>p. ASSUME NEW s \in Stream, Publish(s) PROVE CountInv' /\ OrderInv'
  <2> DEFINE c == CounterOf[s]
             x == [stream |-> s, n |-> number[c] + 1]
             N == Len(air) + 1
  <2>1. c \in Counter /\ number[c] \in Nat
    BY StreamsAssumption
  <2>2. /\ x \in Message /\ x.n = number[c] + 1 /\ CounterOf[x.stream] = c
        /\ air' = Append(air, x) /\ number' = [number EXCEPT ![c] = @ + 1] /\ seen' = seen
    BY <1>p, <2>1 DEF Publish, Message
  <2> HIDE DEF x
  <2>3. /\ \A i \in DOMAIN air' : i \in DOMAIN air \/ i = N
        /\ \A i \in DOMAIN air : air'[i] = air[i] /\ i \in Nat /\ i < N
        /\ air'[N] = x /\ N \in Nat
    <3>1. /\ Len(air) \in Nat /\ DOMAIN air = 1 .. Len(air)
          /\ DOMAIN Append(air, x) = 1 .. Len(air) + 1
          /\ Append(air, x)[Len(air) + 1] = x
          /\ \A i \in DOMAIN air : Append(air, x)[i] = air[i]
      BY <2>2, OfAppend
    <3> QED BY <2>2, <3>1
  <2> HIDE DEF N
  <2>4. Positive(air')
    BY <1>2, <2>1, <2>2, <2>3 DEF Positive
  <2>5. CountInv'
    BY <1>1, <2>4 DEF CountInv
  <2>6. SUFFICES ASSUME Never({"delayed", "rebooted"})' PROVE OrderInv'
    BY <2>5 DEF OrderInv
  <2>7. /\ \A i \in DOMAIN air : Sent(air[i])
        /\ \A i, j \in DOMAIN air : i < j => NotAfter(air[i], air[j])
        /\ \A m \in Mode : \A i \in DOMAIN heard[m] :
             /\ Sent(heard[m][i])
             /\ \A j \in DOMAIN air : NotAfter(heard[m][i], air[j])
        /\ \A m \in Mode : Exact(heard[m], runs[m])
    BY <2>2, <2>6 DEF OrderInv, Never
  <2>8. ASSUME NEW y \in Message, Sent(y) PROVE Sent(y)' /\ NotAfter(y, x)
    <3>1. y.n \in Nat /\ CounterOf[y.stream] \in Counter
          /\ y.n <= number[CounterOf[y.stream]]
      BY <2>8, StreamsAssumption DEF Message, Sent
    <3> QED BY <2>1, <2>2, <3>1 DEF Sent, NotAfter
  <2>9. x.n <= number'[CounterOf[x.stream]]
    <3>1. number'[c] = number[c] + 1
      BY <2>1, <2>2
    <3> QED BY <2>1, <2>2, <3>1
  <2>10. ASSUME NEW i \in DOMAIN air' PROVE Sent(air[i])'
    <3>1. CASE i \in DOMAIN air
      <4>1. air[i] \in Message /\ Sent(air[i]) /\ air'[i] = air[i]
        BY <1>3, <2>3, <2>7, <3>1
      <4> QED BY <2>8, <4>1 DEF Sent
    <3>2. CASE i = N
      <4>1. air'[i] = x
        BY <2>3, <3>2
      <4> QED BY <2>9, <4>1 DEF Sent
    <3> QED BY <2>3, <3>1, <3>2
  <2>11. ASSUME NEW i \in DOMAIN air', NEW j \in DOMAIN air', i < j
         PROVE  NotAfter(air'[i], air'[j])
    <3>1. i \in DOMAIN air
      <4>1. j \in Nat /\ j <= N
        BY <2>3
      <4>2. i # N
        BY <2>3, <2>11, <4>1
      <4> QED BY <2>3, <4>2
    <3>2. CASE j \in DOMAIN air
      BY <2>3, <2>7, <2>11, <3>1, <3>2
    <3>3. CASE j = N
      BY <1>3, <2>3, <2>7, <2>8, <3>1, <3>3
    <3> QED BY <2>3, <3>2, <3>3
  <2>12. ASSUME NEW m \in Mode, NEW i \in DOMAIN heard[m]
         PROVE  Sent(heard[m][i])' /\ \A j \in DOMAIN air' : NotAfter(heard[m][i], air'[j])
    <3>1. heard[m][i] \in Message /\ Sent(heard[m][i]) /\ heard'[m] = heard[m]
      BY <1>1, <1>4, <2>7
    <3>2. Sent(heard[m][i])' /\ NotAfter(heard[m][i], x)
      BY <2>8, <3>1 DEF Sent
    <3>3. \A j \in DOMAIN air' : NotAfter(heard[m][i], air'[j])
      BY <2>3, <2>7, <3>2
    <3> QED BY <3>2, <3>3
  <2> QED BY <1>1, <2>7, <2>10, <2>11, <2>12 DEF OrderInv, NotAfter, Sent
<1>5. CASE Lose
  <2>1. air # <<>> /\ air' = Tail(air) /\ number' = number /\ seen \subseteq seen'
    BY <1>5 DEF Lose, Fault
  <2> QED BY <1>t, <2>1, TailAir
<1>6. CASE Repeat
  <2>1. number' = number /\ seen \subseteq seen'
    BY <1>6 DEF Repeat, Fault
  <2> QED BY <1>6, <1>t, <2>1, RepeatAir
<1>7. CASE Delay
  <2>1. "delayed" \in seen' /\ air # <<>> /\ air' = Append(Tail(air), Head(air))
    BY <1>7, EmptySeq DEF Delay, Fault
  <2>2. /\ Tail(air) \in Seq(Message) /\ Head(air) \in Message /\ 1 \in DOMAIN air
        /\ air[1] = Head(air)
        /\ \A i \in DOMAIN Tail(air) : i + 1 \in DOMAIN air /\ Tail(air)[i] = air[i + 1]
    BY <2>1, HeadTailProperties, LenProperties, EmptySeq
  <2>3. /\ \A i \in DOMAIN air' : i \in DOMAIN Tail(air) \/ i = Len(Tail(air)) + 1
        /\ \A i \in DOMAIN Tail(air) : air'[i] = Tail(air)[i]
        /\ air'[Len(Tail(air)) + 1] = Head(air)
    <3> DEFINE q == Tail(air)
               x == Head(air)
    <3>1. /\ Len(q) \in Nat /\ DOMAIN q = 1 .. Len(q)
          /\ DOMAIN Append(q, x) = 1 .. Len(q) + 1
          /\ Append(q, x)[Len(q) + 1] = x
          /\ \A i \in DOMAIN q : Append(q, x)[i] = q[i]
      BY <2>2, OfAppend
    <3> HIDE DEF q, x
    <3>2. \A i \in 1 .. Len(q) + 1 : i \in 1 .. Len(q) \/ i = Len(q) + 1
      BY <3>1
    <3>3. air' = Append(q, x)
      BY <2>1 DEF q, x
    <3> QED BY <3>1, <3>2, <3>3 DEF q, x
  <2>4. Positive(air')
    BY <1>2, <2>2, <2>3 DEF Positive
  <2> QED BY <1>1, <2>1, <2>4 DEF CountInv, OrderInv, Never
<1>8. ASSUME NEW c \in Counter, Reboot(c) PROVE CountInv' /\ OrderInv'
  BY <1>1, <1>2, <1>8 DEF Reboot, Fault, CountInv, OrderInv, Never
<1> QED BY <1>p, <1>5, <1>6, <1>7, <1>8 DEF StreamStep


(* A message that arrives is counted in the active run, after all that the *)
(* run has heard and before all that are still under way.                  *)
LEMMA MessageCounts ==
  ASSUME ServerType, number \in [Counter -> Nat], air \in Seq(Message), HandleMessage,
         CountInv, OrderInv
  PROVE  CountInv' /\ OrderInv'
<1> DEFINE x == Head(air)
<1>0. /\ runs \in [Mode -> RunType] /\ heard \in [Mode -> Seq(Message)]
      /\ activeRun \in Mode \cup {None}
  BY DEF ServerType
<1>1. /\ air # <<>> /\ air' = Tail(air) /\ number' = number /\ seen' = seen
      /\ Count(activeRun, x)
  BY DEF HandleMessage
<1>2. /\ air' \in Seq(Message) /\ x \in Message /\ 1 \in DOMAIN air /\ air[1] = x
      /\ \A i \in DOMAIN air' : i + 1 \in DOMAIN air /\ 1 < i + 1 /\ air'[i] = air[i + 1]
  BY <1>1, TailAir
<1>3. PICK f \in [DOMAIN air' -> DOMAIN air] :
        /\ \A i \in DOMAIN air' : air'[i] = air[f[i]]
        /\ \A i, j \in DOMAIN air' : i < j => f[i] <= f[j]
  BY <1>1, TailAir
<1>4. Positive(air') /\ x.n > 0
  BY <1>2 DEF CountInv, Positive
<1>5. \A m \in Mode : NothingMissed(heard[m], runs[m])
  BY DEF CountInv
<1> HIDE DEF x
<1>6. ASSUME NEW m \in Mode
      PROVE  \/ runs'[m] = runs[m] /\ heard'[m] = heard[m]
             \/ runs'[m] = Counted(runs[m], x) /\ heard'[m] = Append(heard[m], x)
  <2>1. CASE activeRun = None
    BY <1>1, <2>1 DEF Count
  <2>2. CASE activeRun # None
    <3>1. /\ runs' = [runs EXCEPT ![activeRun] = Counted(@, x)]
          /\ heard' = [heard EXCEPT ![activeRun] = Append(@, x)]
      BY <1>1, <2>2, Zenon DEF Count
    <3> QED BY <1>0, <3>1
  <2> QED BY <2>1, <2>2
<1>7. CountInv'
  <2>1. ASSUME NEW m \in Mode PROVE NothingMissed(heard'[m], runs'[m])
    <3>1. CASE runs'[m] = runs[m] /\ heard'[m] = heard[m]
      BY <1>5, <3>1
    <3>2. CASE runs'[m] = Counted(runs[m], x) /\ heard'[m] = Append(heard[m], x)
      BY <1>0, <1>2, <1>4, <1>5, <3>2, NothingMissedAppend
    <3> QED BY <1>6, <3>1, <3>2
  <2> QED BY <1>4, <2>1 DEF CountInv
<1>8. SUFFICES ASSUME Never({"delayed", "rebooted"})' PROVE OrderInv'
  BY <1>7 DEF OrderInv
<1>9. /\ \A i \in DOMAIN air : Sent(air[i])
      /\ \A i, j \in DOMAIN air : i < j => NotAfter(air[i], air[j])
      /\ \A m \in Mode : \A i \in DOMAIN heard[m] :
           /\ Sent(heard[m][i])
           /\ \A j \in DOMAIN air : NotAfter(heard[m][i], air[j])
      /\ \A m \in Mode : Exact(heard[m], runs[m])
  BY <1>1, <1>8 DEF OrderInv, Never
<1>10. /\ \A i \in DOMAIN air' : Sent(air[i])'
       /\ \A i, j \in DOMAIN air' : i < j => NotAfter(air'[i], air'[j])
  BY <1>1, <1>2, <1>3, <1>9, ThinnedAir
<1>11. x.n <= number'[CounterOf[x.stream]] /\ \A j \in DOMAIN air' : NotAfter(x, air'[j])
  BY <1>1, <1>2, <1>9 DEF Sent
<1>12. ASSUME NEW m \in Mode, NEW i \in DOMAIN heard'[m]
       PROVE  Sent(heard[m][i])' /\ \A j \in DOMAIN air' : NotAfter(heard'[m][i], air'[j])
  <2>1. ASSUME NEW k \in DOMAIN heard[m], heard'[m][i] = heard[m][k]
        PROVE  Sent(heard[m][i])' /\ \A j \in DOMAIN air' : NotAfter(heard'[m][i], air'[j])
    <3>1. Sent(heard[m][k]) /\ \A j \in DOMAIN air : NotAfter(heard[m][k], air[j])
      BY <1>9
    <3>2. \A j \in DOMAIN air' : NotAfter(heard[m][k], air'[j])
      BY <1>3, <3>1
    <3> QED BY <1>1, <2>1, <3>1, <3>2 DEF Sent
  <2>2. CASE runs'[m] = runs[m] /\ heard'[m] = heard[m]
    BY <2>1, <2>2
  <2>3. CASE runs'[m] = Counted(runs[m], x) /\ heard'[m] = Append(heard[m], x)
    <3> DEFINE h == heard[m]
               N == Len(h) + 1
    <3>1. /\ DOMAIN h = 1 .. Len(h) /\ Len(h) \in Nat /\ DOMAIN heard'[m] = 1 .. N
          /\ heard'[m][N] = x /\ \A k \in DOMAIN h : heard'[m][k] = h[k]
      BY <1>0, <1>2, <2>3, OfAppend
    <3>2. CASE i = N
      <4>1. heard'[m][i] = x
        BY <3>1, <3>2
      <4> QED BY <1>11, <4>1 DEF Sent
    <3>3. CASE i # N
      <4>1. i \in DOMAIN h
        BY <3>1, <3>3
      <4> QED BY <2>1, <3>1, <4>1
    <3> QED BY <3>2, <3>3
  <2> QED BY <1>6, <2>2, <2>3
<1>13. ASSUME NEW m \in Mode PROVE Exact(heard'[m], runs'[m])
  <2>1. CASE runs'[m] = runs[m] /\ heard'[m] = heard[m]
    BY <1>9, <2>1
  <2>2. CASE runs'[m] = Counted(runs[m], x) /\ heard'[m] = Append(heard[m], x)
    <3>1. \A i \in DOMAIN heard[m] : NotAfter(heard[m][i], x)
      BY <1>2, <1>9
    <3> QED BY <1>0, <1>2, <1>4, <1>5, <1>9, <2>2, <3>1, ExactAppend
  <2> QED BY <1>6, <2>1, <2>2
<1> QED BY <1>10, <1>12, <1>13 DEF OrderInv, NotAfter, Sent

(* A request keeps or clears what a run has heard, with its counts.        *)
LEMMA ServeCounts ==
  ASSUME ServerType, NEW q, RequestOK(q), Handle(q), UNCHANGED streamVars,
         CountInv, OrderInv
  PROVE  CountInv' /\ OrderInv'
<1>1. UNCHANGED <<number, air, seen>>
  BY DEF streamVars
<1>2. ASSUME NEW m \in Mode
      PROVE  \/ heard'[m] = heard[m] /\ SameCounts(runs[m], runs'[m])
             \/ heard'[m] = <<>> /\ NothingMissed(heard'[m], runs'[m])
                /\ Exact(heard'[m], runs'[m])
  BY <1>2, HandleCounts, NothingHeard DEF NoCounts
<1>3. ASSUME NEW m \in Mode
      PROVE  NothingMissed(heard'[m], runs'[m])
  <2>1. NothingMissed(heard[m], runs[m])
    BY DEF CountInv
  <2> QED BY <1>2, <2>1 DEF NothingMissed, SameCounts
<1>4. CountInv'
  BY <1>1, <1>3 DEF CountInv
<1>5. SUFFICES ASSUME Never({"delayed", "rebooted"})' PROVE OrderInv'
  BY <1>4 DEF OrderInv
<1>6. /\ \A i \in DOMAIN air : Sent(air[i])
      /\ \A i, j \in DOMAIN air : i < j => NotAfter(air[i], air[j])
      /\ \A m \in Mode : \A i \in DOMAIN heard[m] :
           /\ Sent(heard[m][i])
           /\ \A j \in DOMAIN air : NotAfter(heard[m][i], air[j])
      /\ \A m \in Mode : Exact(heard[m], runs[m])
  BY <1>1, <1>5 DEF OrderInv, Never
<1>7. ASSUME NEW m \in Mode
      PROVE  /\ Exact(heard'[m], runs'[m])
             /\ \A i \in DOMAIN heard'[m] : i \in DOMAIN heard[m] /\ heard'[m][i] = heard[m][i]
  <2>1. CASE heard'[m] = heard[m] /\ SameCounts(runs[m], runs'[m])
    <3>1. Exact(heard[m], runs[m])
      BY <1>6
    <3> QED BY <2>1, <3>1 DEF Exact, SameCounts
  <2>2. CASE heard'[m] = <<>> /\ Exact(heard'[m], runs'[m])
    BY <2>2
  <2> QED BY <1>2, <2>1, <2>2
<1> QED BY <1>1, <1>6, <1>7 DEF OrderInv, NotAfter, Sent

LEMMA CountsInit == Init => CountInv /\ OrderInv
<1> SUFFICES ASSUME Init PROVE CountInv /\ OrderInv
  OBVIOUS
<1>1. /\ air = <<>>
      /\ \A m \in Mode : heard[m] = <<>> /\ runs[m] = FreshRun
  BY DEF Init, StreamsInit, ServerInit
<1>2. \A m \in Mode : NothingMissed(heard[m], runs[m]) /\ Exact(heard[m], runs[m])
  <2>1. NothingMissed(<<>>, FreshRun) /\ Exact(<<>>, FreshRun)
    BY NothingHeard DEF FreshRun
  <2> QED BY <1>1, <2>1
<1>3. DOMAIN air = {} /\ \A m \in Mode : DOMAIN heard[m] = {}
  BY <1>1
<1> QED BY <1>2, <1>3 DEF CountInv, OrderInv, Positive

LEMMA CountsInvStep ==
  TypeInv /\ CountInv /\ OrderInv /\ [Next]_vars => CountInv' /\ OrderInv'
<1> SUFFICES ASSUME TypeInv, CountInv, OrderInv, [Next]_vars PROVE CountInv' /\ OrderInv'
  OBVIOUS
<1>0. /\ ServerType /\ number \in [Counter -> Nat] /\ air \in Seq(Message)
      /\ heard \in [Mode -> Seq(Message)] /\ \A r \in requests : RequestOK(r)
  BY TypeInvParts DEF ServerType
<1>u. ASSUME UNCHANGED <<number, air, runs, heard>>, seen \subseteq seen'
      PROVE  CountInv' /\ OrderInv'
  <2>1. CountInv'
    BY <1>u DEF CountInv
  <2>2. OrderInv'
    BY <1>u DEF OrderInv, Never, Sent, NotAfter
  <2> QED BY <2>1, <2>2
<1>1. CASE StreamStep /\ UNCHANGED <<serverVars, requests, page>>
  BY <1>0, <1>1, StreamCounts DEF serverVars
<1>2. CASE HandleMessage /\ UNCHANGED <<requests, page>>
  BY <1>0, <1>2, MessageCounts
<1>3. CASE Serve
  <2>1. PICK r \in requests : Handle(r) /\ UNCHANGED streamVars
    BY <1>3 DEF Serve
  <2> QED BY <1>0, <2>1, ServeCounts
<1>4. CASE Script
  BY <1>4, <1>u DEF Script, Request, serverVars, Spend
<1>5. ASSUME NEW b \in Browser, PageStep(b) PROVE CountInv' /\ OrderInv'
  <2>1. UNCHANGED <<number, air, runs, heard>> /\ seen \subseteq seen'
    BY <1>5 DEF PageStep, Press, SetMode, StartRun, StopButton, ResetAll, Request, Spend,
       OnModeChange, OnRunStarted, OnRunStopped, OnRunUpdate, Receiving,
       Reconnect, Reload, SocketOpens, SocketCloses, streamVars, serverVars
  <2> QED BY <1>u, <2>1
<1>6. CASE UNCHANGED vars
  BY <1>6, <1>u DEF vars, streamVars, serverVars
<1> QED BY <1>1, <1>2, <1>3, <1>4, <1>5, <1>6 DEF Next

LEMMA CountsInvariant == Spec => [](CountInv /\ OrderInv)
BY CountsInit, CountsInvStep, TypeInvariant, PTL DEF Spec

(* GapsAreLosses: as long as messages arrive in order and no node          *)
(* restarts, a run counts exactly its copies and, where every counter has  *)
(* its own topic, exactly the messages lost, for any number of streams and *)
(* messages, however many are lost or repeated, and whenever runs are      *)
(* started, stopped and reset.                                             *)
THEOREM GapsAreTheLosses == Spec => []GapsAreLosses
BY CountsInvariant, CountInvImplies, PTL

(* LossIsNeverUnderstated: in whatever order messages arrive, no run       *)
(* counts fewer losses than there are.                                     *)
THEOREM NoLossIsUnderstated == Spec => []LossIsNeverUnderstated
BY CountsInvariant, CountInvImplies, PTL
==============================================================================

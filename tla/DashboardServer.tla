--------------------------- MODULE DashboardServer ----------------------------
(***************************************************************************)
(* The dashboard's backend (server.js): a comparison of two runs, one with *)
(* flooding and one with routing.  One thread: each handler is one action, *)
(* and what it emits to the browsers is queued in order for each socket.   *)
(* Not modelled: timestamps, events, the counts of single nodes, and what  *)
(* it publishes under sensors/cmd, which comes back and is not counted.    *)
(***************************************************************************)
EXTENDS MessageStreams

CONSTANT Browser

Mode == {"flooding", "routing"}

ASSUME ModeAssumption == None \notin Mode

VARIABLES
  currentMode,  \* the label the operator has chosen
  activeRun,    \* the run that is counting, or None
  runs,         \* [Mode -> run]
  total,        \* allTime.total
  connected,    \* browsers with an open socket
  events,       \* [Browser -> what has been emitted to it]
  heard         \* history: the messages that arrived during each run

serverVars == <<currentMode, activeRun, runs, total, connected, events, heard>>

FreshRun == [active |-> FALSE, pkts |-> 0, dupes |-> 0, gaps |-> 0,
             last |-> [s \in Stream |-> 0]]

ServerInit ==
  /\ currentMode = "flooding" /\ activeRun = None
  /\ runs = [m \in Mode |-> FreshRun]
  /\ total = 0
  /\ connected = Browser
  /\ events = [b \in Browser |-> <<>>]
  /\ heard = [m \in Mode |-> <<>>]

(* buildSummary: the rest is computed from these.                          *)
Summary(r) == [active |-> r.active, pkts |-> r.pkts, dupes |-> r.dupes, gaps |-> r.gaps]

ModeChange(m) == [type |-> "mode_change", mode |-> m]
RunStarted(m) == [type |-> "run_started", mode |-> m]
RunStopped(m) == [type |-> "run_stopped", mode |-> m]

(* broadcastUpdate.                                                        *)
RunUpdate(rs, run, mode, all) ==
  [type |-> "run_update", runs |-> [m \in Mode |-> Summary(rs[m])],
   activeRun |-> run, currentMode |-> mode, total |-> all]

Emit(es) ==
  events' = [b \in Browser |-> IF b \in connected THEN events[b] \o es ELSE <<>>]

(***************************************************************************)
(* Messages.                                                               *)
(***************************************************************************)

TrackedFromStart(r, m) ==      \* variant: what a run has not seen begin is a gap
  LET last == r.last[m.stream] IN
    IF m.n <= last THEN [r EXCEPT !.dupes = @ + 1]
    ELSE [r EXCEPT !.last[m.stream] = m.n, !.gaps = @ + (m.n - last - 1)]

TrackedLatest(r, m) ==         \* variant: a late message sets the number back
  LET last == r.last[m.stream] IN
    IF last # 0 /\ m.n <= last
    THEN [r EXCEPT !.dupes = @ + 1, !.last[m.stream] = m.n,
                   !.gaps = IF @ > 0 THEN @ - 1 ELSE 0]
    ELSE [r EXCEPT !.last[m.stream] = m.n,
                   !.gaps = IF last = 0 THEN @ ELSE @ + (m.n - last - 1)]

(* trackSeq on run r.                                                      *)
Tracked(r, m) ==
  LET last == r.last[m.stream] IN
    IF last # 0 /\ m.n <= last THEN [r EXCEPT !.dupes = @ + 1]
    ELSE [r EXCEPT !.last[m.stream] = m.n,
                   !.gaps = IF last = 0 THEN @ ELSE @ + (m.n - last - 1)]

Counted(r, m) == [Tracked(r, m) EXCEPT !.pkts = @ + 1]

(* Message m counts in run `run`, if there is one.                         *)
Count(run, m) ==
  /\ total' = total + 1
  /\ IF run = None THEN UNCHANGED <<runs, events, heard>>
     ELSE /\ runs' = [runs EXCEPT ![run] = Counted(@, m)]
          /\ Emit(<<RunUpdate(runs', activeRun, currentMode, total + 1)>>)
          /\ heard' = [heard EXCEPT ![run] = Append(@, m)]

HandleMessageByLabel ==        \* variant: the label chooses the run
  /\ air # <<>> /\ air' = Tail(air)
  /\ Count(IF activeRun = None THEN None ELSE currentMode, Head(air))
  /\ UNCHANGED <<number, budget, seen, currentMode, activeRun, connected>>

(* mqttClient.on("message").                                               *)
HandleMessage ==
  /\ air # <<>> /\ air' = Tail(air)
  /\ Count(activeRun, Head(air))
  /\ UNCHANGED <<number, budget, seen, currentMode, activeRun, connected>>

(***************************************************************************)
(* Requests.                                                               *)
(***************************************************************************)

(* _stopRun on run m: the runs, the active run, and what is emitted.       *)
RunsWithout(m) == [runs EXCEPT ![m].active = FALSE]

ActiveWithout(m) == IF activeRun = m THEN None ELSE activeRun

StopEvents(m) ==
  <<RunStopped(m), RunUpdate(RunsWithout(m), ActiveWithout(m), currentMode, total)>>

StopRun(m) ==
  /\ runs' = RunsWithout(m)
  /\ activeRun' = ActiveWithout(m)
  /\ Emit(StopEvents(m))
  /\ UNCHANGED <<currentMode, total, heard>>

(* GET /mode/:mode.                                                        *)
HandleMode(m) ==
  /\ currentMode' = m
  /\ Emit(<<ModeChange(m)>>)
  /\ UNCHANGED <<activeRun, runs, total, heard>>

HandleStartAgain(m) ==         \* variant: the counts of the run before stay
  LET stopped == IF activeRun = None THEN runs ELSE RunsWithout(activeRun)
      rs == [stopped EXCEPT ![m].active = TRUE]
  IN  /\ runs' = rs /\ activeRun' = m /\ currentMode' = m
      /\ Emit((IF activeRun = None THEN <<>> ELSE StopEvents(activeRun))
              \o <<ModeChange(m), RunStarted(m), RunUpdate(rs, m, m, total)>>)
      /\ heard' = [heard EXCEPT ![m] = <<>>]
      /\ UNCHANGED total

HandleStartOnly(m) ==          \* variant: the active run is left as it is
  LET rs == [runs EXCEPT ![m] = [FreshRun EXCEPT !.active = TRUE]] IN
    /\ runs' = rs /\ activeRun' = m /\ currentMode' = m
    /\ Emit(<<ModeChange(m), RunStarted(m), RunUpdate(rs, m, m, total)>>)
    /\ heard' = [heard EXCEPT ![m] = <<>>]
    /\ UNCHANGED total

(* GET /run/start/:mode: the active run is stopped first.                  *)
HandleStart(m) ==
  LET stopped == IF activeRun = None THEN runs ELSE RunsWithout(activeRun)
      rs == [stopped EXCEPT ![m] = [FreshRun EXCEPT !.active = TRUE]]
  IN  /\ runs' = rs /\ activeRun' = m /\ currentMode' = m
      /\ Emit((IF activeRun = None THEN <<>> ELSE StopEvents(activeRun))
              \o <<ModeChange(m), RunStarted(m), RunUpdate(rs, m, m, total)>>)
      /\ heard' = [heard EXCEPT ![m] = <<>>]
      /\ UNCHANGED total

(* GET /run/stop.                                                          *)
HandleStop ==
  IF activeRun = None THEN UNCHANGED <<currentMode, activeRun, runs, total, events, heard>>
  ELSE StopRun(activeRun)

(* GET /reset.                                                             *)
HandleReset ==
  LET fresh == [m \in Mode |-> FreshRun] IN
    /\ runs' = fresh /\ activeRun' = None /\ total' = 0
    /\ Emit((IF activeRun = None THEN <<>> ELSE StopEvents(activeRun))
            \o <<RunUpdate(fresh, None, currentMode, 0)>>)
    /\ heard' = [m \in Mode |-> <<>>]
    /\ UNCHANGED currentMode

(* GET /run/stop/:mode is for scripts: the browsers do not send it.        *)
Handle(request) ==
  \/ request.kind = "mode" /\ HandleMode(request.mode)
  \/ request.kind = "start" /\ HandleStart(request.mode)
  \/ request.kind = "stop" /\ HandleStop
  \/ request.kind = "stopMode" /\ StopRun(request.mode)
  \/ request.kind = "reset" /\ HandleReset

WelcomeLabel == <<ModeChange(currentMode)>>  \* variant: the label alone

(* io.on("connection").                                                    *)
Welcome ==
  <<ModeChange(currentMode), RunUpdate(runs, activeRun, currentMode, total)>>

SocketOpens(b) ==
  /\ b \notin connected
  /\ connected' = connected \cup {b}
  /\ events' = [events EXCEPT ![b] = Welcome]
  /\ UNCHANGED <<number, air, budget, currentMode, activeRun, runs, total, heard>>

SocketCloses(b) ==
  /\ b \in connected
  /\ Spend("breaks")
  /\ connected' = connected \ {b}
  /\ events' = [events EXCEPT ![b] = <<>>]
  /\ UNCHANGED <<number, air, seen, currentMode, activeRun, runs, total, heard>>
==============================================================================

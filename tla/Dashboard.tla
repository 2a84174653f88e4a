------------------------------ MODULE Dashboard -------------------------------
(***************************************************************************)
(* The dashboard: its server and the pages that show it (runs.js,          *)
(* handlers.js).  A page changes its own state at once when a button is    *)
(* pressed and sends a request without waiting for the answer; requests of *)
(* one page may overtake each other.  What the server emits arrives at a   *)
(* page in order, unless its socket breaks: then it is gone.               *)
(***************************************************************************)
EXTENDS DashboardServer

VARIABLES
  requests,  \* HTTP requests on their way to the server
  page       \* [Browser -> what the page shows, and its variables]

vars == <<streamVars, serverVars, requests, page>>

FreshPage ==
  [currentMode |-> "flooding", activeRun |-> None,
   timer |-> FALSE,  \* runTimerIv, which clearInterval does not reset
   runs |-> [m \in Mode |-> Summary(FreshRun)]]

Init ==
  /\ StreamsInit /\ ServerInit
  /\ requests = {}
  /\ page = [b \in Browser |-> FreshPage]

(***************************************************************************)
(* Buttons.                                                                *)
(***************************************************************************)
Request(kind, mode) ==
  /\ Spend("requests")
  /\ requests' = requests \cup {[kind |-> kind, mode |-> mode, n |-> budget.requests]}
  /\ UNCHANGED <<number, air, seen, serverVars>>

SetMode(b, m) ==
  /\ Request("mode", m)
  /\ page' = [page EXCEPT ![b].currentMode = m]

StartRun(b, m) ==
  /\ Request("start", m)
  /\ page' = [page EXCEPT ![b].currentMode = m, ![b].activeRun = m, ![b].timer = TRUE]

(* The button is there while the page believes in a run.                   *)
StopButton(b) ==
  /\ page[b].activeRun # None
  /\ Request("stop", None)
  /\ page' = [page EXCEPT ![b].activeRun = None]

ResetAll == Request("reset", None) /\ UNCHANGED page

Press(b) ==
  /\ b \in connected
  /\ \/ \E m \in Mode : SetMode(b, m) \/ StartRun(b, m)
     \/ StopButton(b)
     \/ ResetAll

(* A script stops a run by name.                                           *)
Script == \E m \in Mode : Request("stopMode", m) /\ UNCHANGED page

Serve ==
  \E r \in requests :
    /\ Handle(r)
    /\ requests' = requests \ {r}
    /\ UNCHANGED <<streamVars, connected, page>>

(***************************************************************************)
(* Events: one action per handler.                                         *)
(***************************************************************************)
Receiving(b, type) ==
  /\ b \in connected
  /\ events[b] # <<>> /\ Head(events[b]).type = type
  /\ events' = [events EXCEPT ![b] = Tail(@)]
  /\ UNCHANGED <<streamVars, currentMode, activeRun, runs, total, connected, heard, requests>>

OnModeChange(b) ==
  /\ Receiving(b, "mode_change")
  /\ page' = [page EXCEPT ![b].currentMode = Head(events[b]).mode]

OnRunStarted(b) ==
  /\ Receiving(b, "run_started")
  /\ page' = [page EXCEPT ![b].activeRun = Head(events[b]).mode, ![b].timer = TRUE]

OnRunStoppedAny(b) ==          \* variant: it takes any run for its own
  /\ Receiving(b, "run_stopped")
  /\ page' = [page EXCEPT ![b].activeRun = None]

OnRunStopped(b) ==
  /\ Receiving(b, "run_stopped")
  /\ page' = [page EXCEPT ![b].activeRun =
                IF @ = Head(events[b]).mode THEN None ELSE @]

(* A page that has never had a timer takes the active run from an update:  *)
(* "Restore timer after page reload mid-run".                              *)
OnRunUpdate(b) ==
  /\ Receiving(b, "run_update")
  /\ LET u == Head(events[b])
         restore == u.activeRun \notin {None, page[b].activeRun} /\ ~page[b].timer
     IN  page' = [page EXCEPT
           ![b].runs = u.runs,
           ![b].currentMode = u.currentMode,
           ![b].activeRun = IF restore THEN u.activeRun ELSE @,
           ![b].timer = @ \/ restore]

(* The socket opens again by itself, or the page is loaded again.          *)
Reconnect(b) ==
  /\ SocketOpens(b)
  /\ seen' = seen \cup {"reconnected"}
  /\ UNCHANGED <<requests, page>>

Reload(b) ==
  /\ SocketOpens(b)
  /\ page' = [page EXCEPT ![b] = FreshPage]
  /\ UNCHANGED <<seen, requests>>

PageStep(b) ==
  \/ Press(b)
  \/ OnModeChange(b) \/ OnRunStarted(b) \/ OnRunStopped(b) \/ OnRunUpdate(b)
  \/ SocketCloses(b) /\ UNCHANGED <<requests, page>>
  \/ Reconnect(b) \/ Reload(b)

Next ==
  \/ StreamStep /\ UNCHANGED <<serverVars, requests, page>>
  \/ HandleMessage /\ UNCHANGED <<requests, page>>
  \/ Serve
  \/ Script
  \/ \E b \in Browser : PageStep(b)

Spec == Init /\ [][Next]_vars

------------------------------------------------------------------------------
(***************************************************************************)
(* Properties.                                                             *)
(***************************************************************************)
TypeOK ==
  /\ number \in [Counter -> Nat]
  /\ currentMode \in Mode /\ activeRun \in Mode \cup {None}
  /\ \A m \in Mode :
       /\ runs[m].active \in BOOLEAN
       /\ runs[m].dupes \in 0 .. runs[m].pkts
       /\ runs[m].pkts = Len(heard[m])
       /\ runs[m].gaps \in Nat
  /\ connected \subseteq Browser
  /\ \A b \in Browser : page[b].activeRun # None => page[b].timer

Never(kinds) == seen \cap kinds = {}

(* What a run has heard is a sequence of messages h.  The places of stream *)
(* s in it, and the first of them.                                         *)
Of(h, s) == {i \in DOMAIN h : h[i].stream = s}

FirstOf(h, s) == {i \in Of(h, s) : \A j \in Of(h, s) : i <= j}

(* The numbers of counter c in h, in whatever stream they came.            *)
Arrived(h, c) == {h[i].n : i \in {j \in DOMAIN h : CounterOf[h[j].stream] = c}}

(* The numbers between the first that h has of stream s and any other.     *)
Between(h, s) ==
  UNION {UNION {h[i].n + 1 .. h[j].n - 1 : j \in Of(h, s)} : i \in FirstOf(h, s)}

(* The messages lost: a number between two of a stream that did not come.  *)
Lost(h) ==
  UNION {{[counter |-> CounterOf[s], n |-> k] : k \in Between(h, s) \ Arrived(h, CounterOf[s])} :
         s \in Stream}

(* The places of messages that had come before.                            *)
Repeats(h) == {i \in DOMAIN h : \E j \in 1 .. i - 1 : h[j] = h[i]}

(* No two streams of h are numbered by one counter.                        *)
OwnNumbers(h) ==
  \A i, j \in DOMAIN h :
    CounterOf[h[i].stream] = CounterOf[h[j].stream] => h[i].stream = h[j].stream

(* "seq gaps -> lost packets", "seq dupes -> duplicate forwards": if       *)
(* messages arrive in order and no node restarts, a run counts exactly the *)
(* copies, and, where no counter is shared by two topics, exactly the      *)
(* messages lost between the first and the last of a stream.               *)
GapsAreLosses ==
  Never({"delayed", "rebooted"}) =>
    \A m \in Mode :
      /\ OwnNumbers(heard[m]) => runs[m].gaps = Cardinality(Lost(heard[m]))
      /\ runs[m].dupes = Cardinality(Repeats(heard[m]))

(* In whatever order messages arrive, a run never counts fewer losses than *)
(* there are: a message that comes late is a duplicate, and stays lost.    *)
(* (A node that restarts uses its numbers again, and they name nothing.)   *)
LossIsNeverUnderstated ==
  Never({"rebooted"}) =>
    \A m \in Mode : runs[m].gaps >= Cardinality(Lost(heard[m]))

(* At most one run is active, and it is the one that counts.               *)
OneRun == \A m \in Mode : runs[m].active <=> activeRun = m

(* What a run has counted changes only while it is the active one, or when *)
(* it begins anew: what arrives after the end of a run, or after the       *)
(* operator has changed the label, leaves its counts alone.  (A late       *)
(* message counts in the run that is then active, whichever it was for.)   *)
FinishedRunsKeep ==
  [][\A m \in Mode :
       <<runs'[m].pkts, runs'[m].gaps, runs'[m].dupes>>
         # <<runs[m].pkts, runs[m].gaps, runs[m].dupes>>
       => activeRun = m \/ heard'[m] = <<>>]_vars

Quiet == requests = {} /\ \A b \in connected : events[b] = <<>>

(* When nothing is under way every page shows the server's label and       *)
(* counts, whatever was pressed where and in which order it was served,    *)
(* and also after a broken connection.                                     *)
PagesAgree ==
  Quiet => \A b \in connected :
    /\ page[b].currentMode = currentMode
    /\ page[b].runs = [m \in Mode |-> Summary(runs[m])]

(* It also knows which run is active, and so whether to offer the stop     *)
(* button, unless its socket was broken and it was not loaded again: the   *)
(* events that started or stopped the run are not repeated, and its timer, *)
(* once set, keeps it from looking at the update.                          *)
PagesKnowTheRun ==
  Quiet /\ Never({"reconnected"}) => \A b \in connected : page[b].activeRun = activeRun
==============================================================================

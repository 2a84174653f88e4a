----------------------------- MODULE MCDashboard ------------------------------
(* Small instances of Dashboard. *)
EXTENDS Dashboard, TLC

CONSTANTS b1, b2, a, p1, p2

(* One topic of an Arduino, and both of a Pico. *)
MCCounterOf == (a :> "a") @@ (p1 :> "p") @@ (p2 :> "p")

MCSymmetry == Permutations({b1, b2})

Budget(messages, faults, req, breaks) ==
  [messages |-> messages, faults |-> faults, requests |-> req, breaks |-> breaks]

(* Streams with faults; requests of both pages in any order; and both with *)
(* a broken connection.                                                    *)
MCBudgets ==
  {Budget(3, 2, 1, 0), Budget(0, 0, 3, 0), Budget(1, 0, 2, 1)}
==============================================================================

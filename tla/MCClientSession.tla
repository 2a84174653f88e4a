--------------------------- MODULE MCClientSession ----------------------------
(* Small instances of ClientSession. *)
EXTENDS ClientSession

Scenario(who, faults, msgs, cmd1, cmd2) ==
  [kind |-> who, faults |-> Faults, count |-> faults, messages |-> msgs,
   commands |-> [t \in Command |-> IF t = Cmd1 THEN cmd1 ELSE cmd2]]

(* Registration and publishing under two faults of any kind; publishing    *)
(* and commands of both kinds under one.                                   *)
MCScenarios ==
  {Scenario("arduino", 2, 2, 0, 0), Scenario("arduino", 1, 2, 1, 0),
   Scenario("arduino", 1, 0, 1, 1),
   Scenario("pico", 2, 0, 0, 0), Scenario("pico", 1, 1, 1, 0),
   Scenario("pico", 1, 0, 1, 1)}

(* One REGISTER or REGACK of a Pico may get lost.                          *)
MCLossyPico ==
  {[kind |-> "pico", faults |-> {"lost"}, count |-> 1, messages |-> 1,
    commands |-> [t \in Command |-> 0]]}
==============================================================================

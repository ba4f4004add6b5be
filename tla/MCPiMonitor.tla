----------------------------- MODULE MCPiMonitor -----------------------------
(* PiMonitor for TLC: long runs for the detector and the ring, short ones    *)
(* for the LED and for the publishers.                                       *)
EXTENDS PiMonitor
Scenarios ==
  { [blocks |-> 10, faults |-> 2, kinds |-> {"audio", "threshold"}],
    [blocks |-> 4, faults |-> 3, kinds |-> {"led"}],
    [blocks |-> 5, faults |-> 2, kinds |-> {"link", "lag"}],
    [blocks |-> 3, faults |-> 2, kinds |-> {"link", "health"}],
    [blocks |-> 3, faults |-> 1, kinds |-> {"link", "health", "cap"}] }
=============================================================================

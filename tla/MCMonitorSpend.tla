--------------------------- MODULE MCMonitorSpend ---------------------------
EXTENDS MonitorSpend, TLC

(* Requests are interchangeable, and so are targets.                       *)
Slots == Permutations(Requests) \cup Permutations(Targets)
=============================================================================

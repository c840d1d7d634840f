--------------------------- MODULE MCMonitorPanel ---------------------------
(* An instance of MonitorPanel: slots of either kind are interchangeable.  *)
EXTENDS MonitorPanel, TLC

Slots == Permutations(Requests) \cup Permutations(Loads) \cup Permutations(Targets)
=============================================================================

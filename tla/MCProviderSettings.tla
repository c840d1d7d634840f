------------------------- MODULE MCProviderSettings -------------------------
(* A small instance of ProviderSettings for TLC.                           *)
EXTENDS ProviderSettings, TLC

Slots == Permutations(Saves) \cup Permutations(Loads) \cup Permutations(Keys)
             \cup Permutations(Instances)
=============================================================================

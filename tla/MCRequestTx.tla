---------------------------- MODULE MCRequestTx -----------------------------
EXTENDS RequestTx, TLC

Slots == Permutations(Deliveries) \cup Permutations(Messages)
=============================================================================

---------------------------- MODULE MCEligibility ----------------------------
EXTENDS Eligibility, TLC

Slots == Permutations(Checks)
=============================================================================

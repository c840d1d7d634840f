-------------------------- MODULE MCTenantLifecycle --------------------------
(* TenantLifecycle on small instances; interchangeable slots are symmetric. *)
EXTENDS TenantLifecycle, TLC

Slots == Permutations(Requests) \cup Permutations(Callbacks)
=============================================================================

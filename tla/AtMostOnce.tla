----------------------------- MODULE AtMostOnce -----------------------------
(* What the request pipeline promises of a signed request, whatever the    *)
(* number of its deliveries: its writes are committed at most once.        *)
EXTENDS Naturals

CONSTANT Messages    \* signed requests

VARIABLE effects     \* how often the writes of each have been committed

Init == effects = [m \in Messages |-> 0]

Commit(m) ==
    /\ effects[m] = 0
    /\ effects' = [effects EXCEPT ![m] = 1]

Next == \E m \in Messages : Commit(m)

Spec == Init /\ [][Next]_effects
=============================================================================

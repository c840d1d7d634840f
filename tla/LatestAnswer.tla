---------------------------- MODULE LatestAnswer ----------------------------
(* What a data hook of the card promises: whatever fetches overlap, it     *)
(* stands only by the outcome of the last one it made, and by that of no   *)
(* other until the next.                                                   *)
EXTENDS Naturals

CONSTANTS Keys,       \* what a fetch may be for
          Nothing     \* no fetch yet, no outcome yet

VARIABLES asked,      \* the last fetch: its number and what it is for
          answered    \* the fetch whose outcome the hook stands by

vars == <<asked, answered>>

Init == asked = Nothing /\ answered = Nothing

Ask(k) ==
    /\ asked' = [no |-> IF asked = Nothing THEN 1 ELSE asked.no + 1, key |-> k]
    /\ answered' = Nothing

Settle ==
    /\ answered = Nothing
    /\ asked # Nothing
    /\ answered' = asked
    /\ UNCHANGED asked

Next == Settle \/ \E k \in Keys : Ask(k)

Spec == Init /\ [][Next]_vars
=============================================================================

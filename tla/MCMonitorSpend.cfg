SPECIFICATION Spec
CONSTANTS
    Requests = {r1, r2}
    Targets = {t1, t2, t3}
    Nobody = Nobody
    Unset = Unset
    Caps = {1}
    MaxDay = 1
    MaxSpend = 2
SYMMETRY Slots
INVARIANTS
    OverrunIsBounded
    OrderlyWithinBudget
    OrderlyPaidOnce
    UnsetBudgetNeverSpends
    EveryRowPaid
PROPERTY CountedStaysCounted

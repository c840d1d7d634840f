SPECIFICATION Spec
CONSTANTS
    Messages = {m1, m2}
    Deliveries = {d1, d2}
    Bodies = {b1, b2}
    Nobody = Nobody
    Window = 2
    Keep = 4
    Skew = 1
    Life = 1
    MaxClock = 8
SYMMETRY Slots
INVARIANT RefusalIsBacked
PROPERTY TakesEffectAtMostOnce

SPECIFICATION Spec
CONSTANTS
    Instances = {i1, i2}
    Saves = {s1, s2}
    Loads = {q1}
    Keys = {k1}
    NoKey = NoKey
    Same = Same
    Nobody = Nobody
    TTL = 2
    MaxClock = 3
SYMMETRY Slots
INVARIANTS
    CachedWasCurrent
    SavedKeyIsServed
    SaveOfOtherFieldsKeepsKey

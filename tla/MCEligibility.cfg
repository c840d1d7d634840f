SPECIFICATION Spec
CONSTANTS
    Checks = {c1, c2}
    Properties = {target_account, other_property}
    DefaultProperty = target_account
    NotCached = NotCached
    Ttl = 2
    MaxTime = 3
    MaxEdits = 1
SYMMETRY Slots
INVARIANTS
    EligibleRecently
    NamedRecently

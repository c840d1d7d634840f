SPECIFICATION Spec
CONSTANTS
    Providers <- MCProviders
    m1 = m1
    m2 = m2
    e1 = e1
    e2 = e2
    k1 = k1
    k2 = k2
    Names = {m1, m2}
    Endpoints = {e1, e2}
    Unsafe = {e2}
    Keys = {k1, k2}
    Genuine = {k1}
    None = None
    Saves = {w1, w2}
    Tests = {t1, t2}
    Catalog <- MCCatalog
    Served <- MCServed
    Elsewhere <- MCElsewhere
    MaxClicks = 4
SYMMETRY Slots
CHECK_DEADLOCK FALSE
INVARIANTS
    TypeOK
    SavedAsShown
    ReadersAgree
    RowsAreServable
    ConnectedIsEarned
PROPERTY LlmKeyOnPurpose

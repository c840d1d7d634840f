SPECIFICATION PanelSpec
CONSTANTS
    Requests = {r1, r2}
    Targets = {t1}
    Nobody = Nobody
    Unset = Unset
    Caps = {2}
    MaxDay = 0
    MaxSpend = 2
    Loads = {l1, l2}
    MaxClicks = 2
CHECK_DEADLOCK FALSE
SYMMETRY Slots
INVARIANTS
    EveryCreditConfirmed
    CalmPagePaysOnce
    CreatedIsTrue
    ListIsCurrent

SPECIFICATION FairSpec
CONSTANTS
    Companies = {c1, c2}
    Persons = {p1, p2}
    e1 = e1
    e2 = e2
    Rows = {e1, e2}
    Bodies <- MCBodies
    Nothing = Nothing
    MaxAsks = 3
INVARIANTS
    ShownIsCurrent
    DrillInIsVisible
PROPERTIES
    OpenStaysOnItsSnapshot
    HooksAreLatest
    SwapIsAnswered
CHECK_DEADLOCK FALSE

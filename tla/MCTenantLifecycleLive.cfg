CONSTANTS
    Requests = {r1}
    Hooks = {h1}
    Callbacks = {c1}
    Nobody = Nobody
    MaxInstalls = 2
    MaxSerial = 3
SPECIFICATION FairSpec
PROPERTY UninstallTakesEffect
CHECK_DEADLOCK FALSE

CONSTANTS
    Requests = {r1, r2}
    Hooks = {h1}
    Callbacks = {c1, c2}
    Nobody = Nobody
    MaxInstalls = 2
    MaxSerial = 3
SPECIFICATION Spec
SYMMETRY Slots
PROPERTY RefreshNeverResurrects NoTokenRegression OrderlyTenantStaysActive
CHECK_DEADLOCK FALSE

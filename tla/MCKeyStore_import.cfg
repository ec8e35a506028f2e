\* One request while an import holds the write lock, no fault.
SPECIFICATION Spec
CONSTANTS
    r1 = r1
    r2 = r2
    k1 = k1
    k2 = k2
    Requests = {r1}
    Ids = {k1}
    NoKey = NoKey
    MaxFaults = 0
PROPERTY RefusedIsInvalid

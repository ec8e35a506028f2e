\* Two requests at a time on every table of at most two rows, one fault.
SPECIFICATION Spec
CONSTANTS
    r1 = r1
    r2 = r2
    k1 = k1
    k2 = k2
    Requests = {r1, r2}
    Ids = {k1, k2}
    NoKey = NoKey
    MaxFaults = 1
SYMMETRY Symmetry
INVARIANTS TypeOK EveryKeyIsKnown HashedAtUse SchemaReady UnhurtIsServed
PROPERTIES PlaintextOnlyShrinks RefusedIsHurt KeepsRegistry

\* Two keys, a minute of four ticks, time enough for three sweeps to matter.
SPECIFICATION Spec
CONSTANTS
    k1 = k1
    k2 = k2
    Keys = {k1, k2}
    Limit <- MixedLimits
    Minute = 4
    MaxInt = 1000
    MaxTime = 10
INVARIANTS TypeOK WindowBound
PROPERTIES SteadyIsServed CleanupIsInvisible

\* One key whose limit is the largest int there is (three bits and a sign).
SPECIFICATION Spec
CONSTANTS
    k1 = k1
    k2 = k2
    Keys = {k1}
    Limit <- LargestLimit
    Minute = 4
    MaxInt = 7
    MaxTime = 10
PROPERTY SteadyIsServed

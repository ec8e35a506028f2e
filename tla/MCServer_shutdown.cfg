\* Two requests for one path, each failing as often as it may, and a signal.
SPECIFICATION Spec
CONSTANTS
    r1 = r1
    r2 = r2
    p1 = p1
    Requests = {r1, r2}
    Paths = {p1}
    NoPath = NoPath
    Life <- OneTick
    AttemptTimeout = 2
    MaxRetries = 2
    BaseWait = 1
    Budget = 4
    ShutdownBudget = 7
    WriteTimeout = 4
    MaxRuns = 1
CHECK_DEADLOCK FALSE
INVARIANTS TypeOK EndsInTime
PROPERTIES FreshIsKept NoneIsCut CronIsWaitedFor ShutdownRunsOut SignalEnds

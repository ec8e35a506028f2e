\* Two triggers at once around a publication.
SPECIFICATION Spec
CONSTANTS
    u1 = u1
    u2 = u2
    v1 = v1
    v2 = v2
    Updaters = {u1, u2}
    Archives = {v1, v2}
    Entries = {"types"}
    Kinds = {"server"}
    Reissue = FALSE
    MaxFaults = 0
    None = None
    Torn = Torn
    Zero = Zero
    Sample = Sample
INVARIANT RecordedWasServed

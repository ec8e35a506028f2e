\* Two runs at once, server's or re-imports, with one I/O error or kill.
SPECIFICATION HFairSpec
CONSTANTS
    u1 = u1
    u2 = u2
    v1 = v1
    Updaters = {u1, u2}
    Archives = {v1}
    Entries = {"types"}
    Kinds = {"server", "reimport"}
    Reissue = FALSE
    MaxFaults = 1
    None = None
    Torn = Torn
    Zero = Zero
    Sample = Sample
INVARIANT LockMatchesTx
PROPERTIES RunsEnd RunsRunOut RowCountsOwnItems

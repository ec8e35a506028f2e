\* One run at a time, as cron alone starts them, with I/O errors and kills.
SPECIFICATION FairSpec
CONSTANTS
    u1 = u1
    u2 = u2
    v1 = v1
    v2 = v2
    Updaters = {u1}
    Archives = {v1, v2}
    Entries = {"categories", "groups", "types"}
    Kinds = {"server", "cli"}
    Reissue = FALSE
    MaxFaults = 2
    None = None
    Torn = Torn
    Zero = Zero
    Sample = Sample
INVARIANTS TypeOK CatalogIntact RecordedWasServed CheckedWasServed
PROPERTIES SkipOnlyIfServing PublishedIsServed KeepsPromise NoRegression

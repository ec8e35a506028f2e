\* Two triggers at once, one archive: what a run reads while another writes.
SPECIFICATION Spec
CONSTANTS
    u1 = u1
    u2 = u2
    v1 = v1
    v2 = v2
    Updaters = {u1, u2}
    Archives = {v1}
    Entries = {"groups", "types"}
    Kinds = {"server"}
    Reissue = FALSE
    MaxFaults = 0
    None = None
    Torn = Torn
    Zero = Zero
    Sample = Sample
INVARIANT CatalogIntact

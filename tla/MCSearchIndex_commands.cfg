\* Two commands of any kind at a time, imports in between, one kill.
SPECIFICATION Spec
CONSTANTS
    c1 = c1
    c2 = c2
    frigate = frigate
    mineral = mineral
    Commands = {c1, c2}
    Nobody = Nobody
    Words <- TheWords
    Sample <- TheSample
    Catalogs <- TheCatalogs
    MaxKills = 1
SYMMETRY Symmetry
INVARIANTS
    TypeOK UntouchedIsExact SimpleFindsNamesAndIds RebuiltIfDense MigrateSucceeds

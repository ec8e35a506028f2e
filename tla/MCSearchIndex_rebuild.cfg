\* One command at a time, no kill.
SPECIFICATION Spec
CONSTANTS
    c1 = c1
    c2 = c2
    frigate = frigate
    mineral = mineral
    Commands = {c1}
    Nobody = Nobody
    Words <- TheWords
    Sample <- TheSample
    Catalogs <- TheCatalogs
    MaxKills = 0
INVARIANT RebuiltIsExact

\* Two requests, one key, imports of one archive over the sample data.
SPECIFICATION Spec
CONSTANTS
    r1 = r1
    r2 = r2
    sample = sample
    v1 = v1
    k1 = k1
    items = items
    revoke = revoke
    search = search
    item = item
    bad = bad
    changelog = changelog
    ready = ready
    gitems = gitems
    gsearch = gsearch
    Requests = {r1, r2}
    Archives = {v1}
    Sample = sample
    Keys = {k1}
    NoKey = NoKey
    Admin = Admin
    Urls = {items, revoke, search, item, bad, changelog, ready, gitems, gsearch}
    Parsed <- TheUrls
    Size <- TheSize
    AuthEnabled = TRUE
    Ttl = 1
    HandlerMax = 1
    Cuts = {0}
    Absent = Absent
    None = None
CONSTRAINT OneMenu
SYMMETRY Symmetry
INVARIANT TypeOK
PROPERTIES Fresh Exact Admitted

-------------------------------- MODULE Api --------------------------------
(***************************************************************************)
(* A request on its way through the server (cmd/server/main.go): Auth,     *)
(* RateLimit, CacheResponse with its MemoryCache, and the handler, whose   *)
(* queries are one step each.  Around it, as their promises only: imports  *)
(* (SdeCatalog) and the API key manager (KeyRegistry).                     *)
(*                                                                         *)
(* Only differences of times matter, so there is no clock: an entry has    *)
(* the ticks left until it expires, an archive the ticks since it was      *)
(* replaced.                                                               *)
(***************************************************************************)
EXTENDS Endpoints, FiniteSets

CONSTANTS Requests, Archives, Sample,
          Keys, NoKey, Admin,  \* Authorization: a key, nothing, the admin's
          Urls,                \* the URLs asked for
          Parsed,              \* what each says
          Size,                \* what a URL is about -> archive -> its rows
          AuthEnabled,         \* AUTH_ENABLED
          Ttl,                 \* CACHE_TTL, in ticks
          HandlerMax,          \* bound: ticks from a handler's first query to Set
          Cuts,                \* bound: after how many rows a read may break off
          None                 \* no cache entry

Catalogs == Archives \cup {Sample}

VARIABLES
    served, history, ever,                              \* SdeCatalog
    issued, revoked, expired, asked, about, answer,     \* KeyRegistry
    cache,      \* per URL: an entry or None
    pc,         \* per request: where it is
    url,        \*   what it asks for
    good,       \*   history: the key was valid when it came
    copy,       \*   what MemoryCache.Get has read
    query,      \*   the number of the handler's next query
    body,       \*   what the handler has made so far, then the answer
    age,        \*   ticks since the handler began
    since       \* history: per archive, ticks since it was last served

catalog  == <<served, history, ever>>
registry == <<issued, revoked, expired, asked, about, answer>>
request  == <<pc, url, good, copy, query, body, age>>
vars     == <<catalog, registry, request, cache, since>>

\* The router: each URL's handler.
Router == [u \in Urls |-> Route(Parsed[u])]
Handle(r) == Router[url[r]]

Catalog  == INSTANCE SdeCatalog
Registry == INSTANCE KeyRegistry WITH Ids <- Keys

\* A URL the handlers know, about something each archive has rows of, is all
\* that a request can bring.  Only REST paths can lack what they are about: in
\* GraphQL the schema demands it, and an empty search is about no rows; its
\* search has no offset.
\* An admin names a key; an id that no key has is NoKey.
ASSUME ApiAssumption ==
    /\ Ttl \in Nat \ {0} /\ HandlerMax \in Nat
    /\ Cuts \subseteq Nat /\ IsFiniteSet(Archives) /\ Absent \notin Int
    /\ {NoKey, Admin} \cap Keys = {} /\ NoKey # Admin /\ Urls # {}
    /\ \A u \in Urls :
          /\ Parsed[u].path \in Paths
          /\ Parsed[u].limit \in Given /\ Parsed[u].offset \in Given
          /\ Parsed[u].of = Absent => Router[u].cached
          /\ Parsed[u].path = "search" => Parsed[u].offset = Absent
          /\ Parsed[u].of # Absent /\ Router[u].queries # <<>> =>
                \A a \in Catalogs : Size[Parsed[u].of][a] \in Nat
          /\ Router[u].gate = "admin" => Parsed[u].of \in Keys \cup {NoKey}

\* The longest an archive can still be seen after it was replaced.
Horizon == Ttl + HandlerMax

\* read and clean are history: the archives the queries met, and whether
\* every query gave all its rows.
Body(status, offset, count, total, read, clean) ==
    [status |-> status, offset |-> offset, count |-> count, total |-> total,
     read |-> read, clean |-> clean]
Bodies == [status : {200, 400, 401, 404, 408, 429, 500, 503},
           offset : Nat, count : Nat, total : Nat,
           read : SUBSET Catalogs, clean : BOOLEAN]
Blank == Body(200, 0, 0, 0, {}, TRUE)
Error(status, read) == Body(status, 0, 0, 0, read, TRUE)

Entry == [left : -1 .. Ttl, body : Bodies]

TypeOK ==
    /\ served \in Catalogs /\ history \subseteq ever /\ ever \subseteq Archives
    /\ issued \in SUBSET Keys /\ revoked \in SUBSET Keys /\ expired \in SUBSET Keys
    /\ cache \in [Urls -> Entry \cup {None}]
    /\ pc \in [Requests -> {"idle", "auth", "gate", "route", "judge", "query",
                            "told", "done"}]
    /\ url \in [Requests -> Urls]
    /\ good \in [Requests -> BOOLEAN]
    /\ copy \in [Requests -> Entry \cup {None}]
    /\ query \in [Requests -> Nat \ {0}]
    /\ body \in [Requests -> Bodies]
    /\ age \in [Requests -> 0 .. HandlerMax]
    /\ since \in [Catalogs -> 0 .. Horizon + 1]

\* A request that nobody has made.
Nowhere == CHOOSE u \in Urls : TRUE

Init ==
    /\ Catalog!Init
    /\ issued = Keys /\ revoked = {} /\ expired = {} /\ Registry!Init
    /\ cache = [u \in Urls |-> None]
    /\ pc = [r \in Requests |-> "idle"]
    /\ url = [r \in Requests |-> Nowhere]
    /\ good = [r \in Requests |-> FALSE]
    /\ copy = [r \in Requests |-> None]
    /\ query = [r \in Requests |-> 1]
    /\ body = [r \in Requests |-> Blank]
    /\ age = [r \in Requests |-> 0]
    /\ since = [a \in Catalogs |-> IF a = Sample THEN 0 ELSE Horizon + 1]

-----------------------------------------------------------------------------
\* Operators called Wrong... are not the code's: each is the operator after it
\* with a mistake the code could have had, and a property that catches it.
Goto(r, l) == pc' = [pc EXCEPT ![r] = l]

Fields(r, u, g) ==
    /\ url' = [url EXCEPT ![r] = u]
    /\ good' = [good EXCEPT ![r] = g]
    /\ copy' = [copy EXCEPT ![r] = None]
    /\ query' = [query EXCEPT ![r] = 1]
    /\ body' = [body EXCEPT ![r] = Blank]
    /\ age' = [age EXCEPT ![r] = 0]

\* The answer is out, and nothing of the request is kept.
End(r) == Goto(r, "done") /\ Fields(r, Nowhere, FALSE)

\* A request comes in.
Comes(r, u, k, l) ==
    /\ pc[r] \in {"idle", "done"}
    /\ Goto(r, l)
    /\ Fields(r, u, k \in Keys /\ Registry!Valid(k))
    /\ UNCHANGED <<catalog, cache, since>>

\* Auth lets public paths through; with AUTH_ENABLED off there is no Auth.
Public(u) == \/ Router[u].gate = "none"
             \/ Router[u].gate = "key" /\ ~AuthEnabled
Enter(r, u, k) == Public(u) /\ Comes(r, u, k, "route") /\ UNCHANGED registry

\* ValidateAPIKey; AdminAuth, and then RevokeAPIKey on the key of the path.
\* Whoever shows nothing, or not what the path takes, is answered 401 at once.
Present(r, u, k) ==
    /\ ~Public(u) /\ Comes(r, u, k, "auth")
    /\ \/ /\ Router[u].gate = "key" /\ k \in Keys
          /\ Registry!Ask(r, "validate", k)
       \/ /\ Router[u].gate = "admin" /\ k = Admin
          /\ Registry!Ask(r, "revokeKey", Parsed[u].of)

Kept(r) == UNCHANGED <<catalog, since>>
Same(r) == Kept(r) /\ UNCHANGED <<url, good>>

\* The manager answers, or cannot.
Auth(r) ==
    /\ pc[r] = "auth" /\ Goto(r, "gate")
    /\ Registry!Check(r) \/ Registry!Revoke(r) \/ Registry!Unavailable(r)
    /\ Same(r) /\ UNCHANGED <<cache, copy, query, body, age>>

\* Refused by Auth, or by RateLimit; or on to the route.
Into(r) == Goto(r, "route") /\ UNCHANGED <<url, good, copy, query, body, age>>
WrongPass(r) ==
    /\ pc[r] = "gate" /\ Handle(r).gate = "key" /\ Registry!Take(r)
    /\ \/ End(r)
       \/ answer[r] # "refused" /\ Into(r)
    /\ Kept(r) /\ UNCHANGED <<cache>>
Pass(r) ==
    /\ pc[r] = "gate" /\ Handle(r).gate = "key" /\ Registry!Take(r)
    /\ \/ End(r)
       \/ answer[r] = "ok" /\ Into(r)
    /\ Kept(r) /\ UNCHANGED <<cache>>

\* RevokeKey tells the admin.
Told(r) ==
    /\ pc[r] = "gate" /\ Handle(r).gate = "admin" /\ Registry!Take(r)
    /\ End(r)
    /\ Kept(r) /\ UNCHANGED <<cache>>

-----------------------------------------------------------------------------
\* CacheResponse and MemoryCache.Get: an entry is read, then judged by the
\* clock, then deleted, whatever the cache holds by then.
Lookup(r) ==
    /\ pc[r] = "route"
    /\ IF Handle(r).cached
       THEN Goto(r, "judge") /\ copy' = [copy EXCEPT ![r] = cache[url[r]]]
       ELSE Goto(r, "query") /\ UNCHANGED copy
    /\ Same(r) /\ UNCHANGED <<registry, cache, query, body, age>>

Miss(r) == /\ Goto(r, "query") /\ copy' = [copy EXCEPT ![r] = None]
           /\ UNCHANGED <<url, good, query, body, age>>
WrongJudge(r) ==
    /\ pc[r] = "judge"
    /\ \/ copy[r] = None /\ Miss(r) /\ UNCHANGED cache
       \/ /\ copy[r] # None
          /\ End(r) /\ UNCHANGED cache
    /\ Kept(r) /\ UNCHANGED <<registry>>
Judge(r) ==
    /\ pc[r] = "judge"
    /\ \/ copy[r] = None /\ Miss(r) /\ UNCHANGED cache
       \/ /\ copy[r] # None /\ copy[r].left < 0
          /\ Miss(r) /\ cache' = [cache EXCEPT ![url[r]] = None]
       \/ /\ copy[r] # None /\ copy[r].left >= 0
          /\ End(r) /\ UNCHANGED cache
    /\ Kept(r) /\ UNCHANGED <<registry>>

\* Set, after the answer was written; it fails for an entry that is too large.
Put(r) == cache' = [cache EXCEPT ![url[r]] = [left |-> Ttl, body |-> body[r]]]
Store(r) ==
    /\ pc[r] = "told" /\ End(r)
    /\ \/ body[r].status = 200 /\ Put(r)
       \/ UNCHANGED cache
    /\ Kept(r) /\ UNCHANGED <<registry>>

-----------------------------------------------------------------------------
\* The handler.  Its next query is q, if it has one left.
AtQuery(r, q) == /\ pc[r] = "query" /\ Parsed[url[r]].of # Absent
                 /\ query[r] \in 1 .. Len(Handle(r).queries)
                 /\ Handle(r).queries[query[r]] = q
Left(r) == Len(Handle(r).queries) - query[r] + 1

\* Then b is what it has, and n queries are done with (all, for an answer).
Has(r, b, n) ==
    /\ body' = [body EXCEPT ![r] = b]
    /\ query' = [query EXCEPT ![r] = @ + n]
    /\ Same(r) /\ UNCHANGED <<registry, pc, cache, copy, age>>
Rows(r) == Size[Parsed[url[r]].of][served]
Read(r) == body[r].read \cup {served}
Fail(r, status) == Has(r, Error(status, Read(r)), Left(r))

\* No q, an id that is no positive number, from or to missing.
BadRequest(r) ==
    /\ pc[r] = "query" /\ query[r] = 1 /\ Parsed[url[r]].of = Absent
    /\ Has(r, Error(400, {}), Left(r) + 1)

\* SELECT COUNT(*).  Any query may fail.
Count(r) ==
    /\ AtQuery(r, "count")
    /\ \/ Has(r, Body(200, 0, 0, Rows(r), Read(r), TRUE), 1)
       \/ Fail(r, 500)

\* n of the page's rows.  Nobody looks at rows.Err: a read that breaks off
\* gives fewer rows, and no error.
Part(r) == Slice(Rows(r), Handle(r).page)
Shown(r, n) ==
    /\ n <= Part(r).count
    /\ Has(r, Body(200, Part(r).from, n, body[r].total, Read(r),
                   body[r].clean /\ n = Part(r).count), 1)
SomeRows(r) == \E n \in Cuts \cup {Part(r).count} : Shown(r, n)

Page(r) == AtQuery(r, "page") /\ (SomeRows(r) \/ Fail(r, 500))

\* One row by its id.
Row(r) ==
    /\ AtQuery(r, "row")
    /\ \/ Rows(r) # 0 /\ Has(r, Body(200, 0, 1, 0, Read(r), TRUE), 1)
       \/ Rows(r) = 0 /\ Fail(r, 404)
       \/ Fail(r, 500)

\* The search runs in the request's context, and for 5 s at most.  When the
\* client closes the connection the read breaks off; only for the deadline
\* does the handler look.
Match(r) ==
    /\ AtQuery(r, "match")
    /\ SomeRows(r) \/ Fail(r, 408) \/ Fail(r, 500)

\* Without the total, the number of rows on the page has to do.
Matches(r) ==
    /\ AtQuery(r, "matches")
    /\ \E total \in {Rows(r), body[r].count} :
          Has(r, Body(200, body[r].offset, body[r].count, total, Read(r),
                      body[r].clean /\ total = Rows(r)), 1)

\* GetChangelog counts the items only if it has found no version, or could
\* not look.
Versions(r) ==
    /\ AtQuery(r, "versions")
    /\ \/ /\ history # {}
          /\ Has(r, Body(200, 0, 0, Least(Cardinality(history), 10), {}, TRUE), 2)
       \/ history = {} /\ Has(r, Blank, 1)
       \/ Has(r, Body(200, 0, 0, 0, {}, FALSE), 1)
Current(r) ==
    /\ AtQuery(r, "current")
    /\ \/ Has(r, Body(200, 0, 0, Rows(r), Read(r), body[r].clean), 1)
       \/ Has(r, Body(200, 0, 0, 0, Read(r), FALSE), 1)

\* Ready goes on after a check that failed.  No version yet is no failure.
Ping(r) ==
    /\ AtQuery(r, "ping")
    /\ \/ Has(r, Body(200, 0, 0, 0, Read(r), TRUE), 1)
       \/ Has(r, Error(503, Read(r)), 1)
Items(r) ==
    /\ AtQuery(r, "items")
    /\ \/ Has(r, Body(body[r].status, 0, 0, Rows(r), Read(r), TRUE), 1)
       \/ Has(r, Error(503, Read(r)), 1)
Latest(r) ==
    /\ AtQuery(r, "latest")
    /\ \/ Has(r, Body(body[r].status, 0, 0, body[r].total, Read(r), TRUE), 1)
       \/ Has(r, Body(503, 0, 0, body[r].total, Read(r), TRUE), 1)

\* The answer goes out.
Respond(r) ==
    /\ pc[r] = "query" /\ query[r] > Len(Handle(r).queries)
    /\ Parsed[url[r]].of = Absent => query[r] # 1
    /\ IF Handle(r).cached THEN /\ Goto(r, "told")
                                /\ UNCHANGED <<url, good, copy, query, body, age>>
                           ELSE End(r)
    /\ Kept(r) /\ UNCHANGED <<registry, cache>>

-----------------------------------------------------------------------------
\* Around a request.
Others == UNCHANGED <<registry, request, cache>>
Import(a) == /\ Catalog!Install(a) /\ Others
             /\ since' = [since EXCEPT ![a] = 0]
Record(a) == Catalog!Record(a) /\ Others /\ UNCHANGED since

Expire(k) == /\ Registry!Expire(k)
             /\ UNCHANGED <<catalog, request, cache, since>>

\* BigCache drops an entry: for its size, or its window has passed.
Evict(u) == /\ cache[u] # None /\ cache' = [cache EXCEPT ![u] = None]
            /\ UNCHANGED <<catalog, registry, request, since>>

\* The process starts again, with an empty cache.
Restart ==
    /\ Registry!Die
    /\ pc' = [r \in Requests |-> "idle"]
    /\ cache' = [u \in Urls |-> None]
    /\ url' = [r \in Requests |-> Nowhere]
    /\ good' = [r \in Requests |-> FALSE] /\ copy' = [r \in Requests |-> None]
    /\ query' = [r \in Requests |-> 1] /\ body' = [r \in Requests |-> Blank]
    /\ age' = [r \in Requests |-> 0]
    /\ UNCHANGED <<catalog, since>>

Older(e) == IF e = None THEN None
            ELSE [left |-> IF e.left < 0 THEN e.left ELSE e.left - 1,
                  body |-> e.body]
Busy(r) == pc[r] \in {"query", "told"}
Tick ==
    /\ \A r \in Requests : Busy(r) => age[r] < HandlerMax
    /\ age' = [r \in Requests |-> IF Busy(r) THEN age[r] + 1 ELSE age[r]]
    /\ cache' = [u \in Urls |-> Older(cache[u])]
    /\ copy' = [r \in Requests |-> Older(copy[r])]
    /\ since' = [a \in Catalogs |->
                    IF a = served THEN 0 ELSE Least(since[a] + 1, Horizon + 1)]
    /\ UNCHANGED <<catalog, registry, pc, url, good, query, body>>

Step(r) ==
    \/ Auth(r) \/ Pass(r) \/ Told(r)
    \/ Lookup(r) \/ Judge(r) \/ Store(r)
    \/ BadRequest(r) \/ Count(r) \/ Page(r) \/ Row(r) \/ Match(r) \/ Matches(r)
    \/ Versions(r) \/ Current(r) \/ Ping(r) \/ Items(r) \/ Latest(r)
    \/ Respond(r)

Next ==
    \/ \E r \in Requests :
          \/ \E u \in Urls, k \in Keys \cup {NoKey, Admin} :
                Enter(r, u, k) \/ Present(r, u, k)
          \/ Step(r)
    \/ \E a \in Archives : Import(a) \/ Record(a)
    \/ \E k \in Keys : Expire(k)
    \/ \E u \in Urls : Evict(u)
    \/ Restart \/ Tick

Spec == Init /\ [][Next]_vars

-----------------------------------------------------------------------------
\* The handler, or the cache, gives its answer.
Handled(r) == pc[r] = "query" /\ pc'[r] \in {"told", "done"}
Hit(r) == pc[r] = "judge" /\ pc'[r] = "done"
Answer(r) == IF pc[r] = "judge" THEN copy[r].body ELSE body[r]
Data(r) == (Handled(r) \/ Hit(r)) /\ Answer(r).status = 200

\* No answer shows an archive that was replaced longer ago than a cached one
\* may live: CACHE_TTL and the time of one handler, however imports, evictions
\* and requests for the same URL fall.  What is no success is not cached, and
\* so younger than a handler (middleware/cache.go).
IsYoung(r) == /\ Handled(r) => \A a \in body[r].read : since[a] <= HandlerMax
              /\ Hit(r) => /\ copy[r].body.status = 200
                           /\ \A a \in copy[r].body.read : since[a] <= Horizon
Fresh == [][\A r \in Requests : IsYoung(r)]_vars

\* What openapi.yaml and the GraphQL schema let a caller say of a list: where it
\* begins, 0 unless it is told, and how many rows it has, 50 unless it is told.
\* For a limit out of range any page within the maximum will do.
RestLists    == {"/api/v1/items", "/api/v1/search", "/api/v1/categories",
                 "/api/v1/groups", "/api/v1/categories/{id}/groups"}
GraphQLLists == {"items", "search", "categories", "groups"}
Max(u) == CASE u.path \in {"/api/v1/categories", "categories"} -> 200
            [] u.path \in {"/api/v1/groups", "/api/v1/categories/{id}/groups",
                           "groups"} -> 500
            [] OTHER -> 100
Skipped(u) == IF Or(u.offset, 0) < 0 THEN 0 ELSE Or(u.offset, 0)
Lengths(u) == LET want == Or(u.limit, 50) IN
              IF want \in 1 .. Max(u) THEN {want} ELSE 0 .. Max(u)
RowsAsked(u, k, n) == Skipped(u) + 1 .. Least(Skipped(u) + k, n)

\* resolveSearch hands a negative limit on to SQLite (resolvers.go), for which it
\* is none: such a query is left out, and what it shows is a theorem of its own.
Unlimited(u) == u.path = "search" /\ Or(u.limit, 50) < 0

\* A list answer made without a fault and out of one archive has the rows its
\* URL asks for, those and no others, and over REST the archive's total; so has
\* every repetition of it.  Only an import between two queries, or a read that
\* broke off, can make it anything else.
RowsShown(b) == b.offset + 1 .. b.offset + b.count
IsExact(r) == \A a \in Catalogs :
    LET u == Parsed[url[r]]
        b == Answer(r)
        n == Size[u.of][a]
    IN  /\ Data(r) /\ u.path \in RestLists \cup GraphQLLists /\ ~Unlimited(u)
        /\ b.clean /\ b.read = {a}
        => /\ \E k \in Lengths(u) : RowsShown(b) = RowsAsked(u, k, n)
           /\ u.path \in RestLists => b.total = n
Exact == [][\A r \in Requests : IsExact(r)]_vars

\* Data behind Auth goes only to a request whose key was valid when it came:
\* what a key may not read, the cache does not tell it either.
IsAdmitted(r) == Data(r) /\ AuthEnabled /\ Handle(r).gate = "key" => good[r]
Admitted == [][\A r \in Requests : IsAdmitted(r)]_vars
=============================================================================

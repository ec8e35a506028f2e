----------------------------- MODULE ApiProofs -----------------------------
(***************************************************************************)
(* What holds of Api for any requests, keys, URLs, archives and times.     *)
(* How old an answer can be follows from what each request and each entry  *)
(* of the cache has left of its time (Seen); what a list shows follows     *)
(* from what the handler knows at each of its queries (Made); that a       *)
(* request was admitted follows from its key having been valid at one      *)
(* moment, of which only Gate keeps track.                                 *)
(***************************************************************************)
EXTENDS Api, FiniteSetTheorems, TLAPS

\* What an answer has met was served at most n ticks ago.
Seen(b, s, n) == \A a \in b.read : s[a] <= n

\* What a finished answer of a list shows: the rows of its handler's page.
PageRows(page, n) ==
    LET begin == IF page.offset < 0 THEN 0 ELSE page.offset IN
    {i \in 1 .. n : begin < i /\ (page.limit < 0 \/ i <= begin + page.limit)}
Final(u, b) == \A a \in Catalogs :
    b.status = 200 /\ Router[u].page # NoPage /\ b.clean /\ b.read = {a} =>
        /\ Parsed[u].of # Absent
        /\ RowsShown(b) = PageRows(Router[u].page, Size[Parsed[u].of][a])
        /\ Router[u].cached => b.total = Size[Parsed[u].of][a]

\* What a handler has made before its query q.
Made(u, q, b) ==
    /\ q = 1 => b = Blank
    /\ Parsed[u].of = Absent /\ q # 1 => b.status # 200
    /\ q > Len(Router[u].queries) => Final(u, b)
    /\ q = 2 =>
          /\ Router[u].queries = <<"count", "page">> =>
                \E a \in Catalogs : b.read = {a} /\ b.total = Size[Parsed[u].of][a]
          /\ Router[u].queries = <<"match", "matches">> =>
                \E a \in Catalogs :
                   /\ b.read = {a}
                   /\ b.clean =>
                         RowsShown(b) = PageRows(Router[u].page, Size[Parsed[u].of][a])

EntryOK(u, e, s) ==
    /\ e.body.status = 200 /\ Final(u, e.body)
    /\ e.left >= 0 => Seen(e.body, s, Horizon - e.left)

\* A key that is still valid at the check was valid when the request came.
Gate(r) == AuthEnabled /\ Handle(r).gate = "key" =>
    /\ pc[r] = "auth" => asked[r] = "validate" /\ (Registry!Valid(about[r]) => good[r])
    /\ pc[r] = "gate" /\ answer[r] = "ok" => good[r]
    /\ pc[r] \in {"route", "judge", "query", "told"} => good[r]

Begun(r) == pc[r] \in {"auth", "gate", "route", "judge"} =>
                body[r] = Blank /\ query[r] = 1 /\ age[r] = 0

Request(r) ==
    /\ Begun(r) /\ Gate(r)
    /\ Busy(r) => Seen(body[r], since, age[r])
    /\ copy[r] # None => EntryOK(url[r], copy[r], since)
    /\ pc[r] = "query" => Made(url[r], query[r], body[r])
    /\ pc[r] = "told" => Final(url[r], body[r])

CacheOK == \A u \in Urls : cache[u] # None => EntryOK(u, cache[u], since)

\* The parts of TypeOK, and what KeyRegistry's variables hold here.
CatalogTyped ==
    /\ served \in Catalogs /\ history \subseteq ever /\ ever \subseteq Archives
    /\ since \in [Catalogs -> 0 .. Horizon + 1] /\ since[served] = 0
RegistryTyped ==
    /\ issued \in SUBSET Keys /\ revoked \in SUBSET Keys /\ expired \in SUBSET Keys
    /\ DOMAIN asked = Requests /\ asked = [r \in Requests |-> asked[r]]
    /\ DOMAIN about = Requests /\ about = [r \in Requests |-> about[r]]
    /\ DOMAIN answer = Requests /\ answer = [r \in Requests |-> answer[r]]
RequestTyped ==
    /\ pc \in [Requests -> {"idle", "auth", "gate", "route", "judge", "query",
                            "told", "done"}]
    /\ url \in [Requests -> Urls]
    /\ good \in [Requests -> BOOLEAN]
    /\ copy \in [Requests -> Entry \cup {None}]
    /\ query \in [Requests -> Nat \ {0}]
    /\ body \in [Requests -> Bodies]
    /\ age \in [Requests -> 0 .. HandlerMax]
CacheTyped == cache \in [Urls -> Entry \cup {None}]

Inv == /\ CatalogTyped /\ RegistryTyped /\ RequestTyped /\ CacheTyped
       /\ CacheOK /\ \A r \in Requests : Request(r)

LEMMA InvTypeOK == Inv => TypeOK
BY DEF Inv, TypeOK, CatalogTyped, RegistryTyped, RequestTyped, CacheTyped

-----------------------------------------------------------------------------
\* The handlers.
LEMMA Pagination ==
  ASSUME NEW limit \in Given, NEW offset \in Given, NEW max \in Nat,
         NEW default \in Nat, 1 <= default, default <= max
  PROVE  /\ ParsePagination(limit, offset, default, max) =
               [limit |-> ParsePagination(limit, offset, default, max).limit,
                offset |-> ParsePagination(limit, offset, default, max).offset]
         /\ ParsePagination(limit, offset, default, max).limit \in 1 .. max
         /\ ParsePagination(limit, offset, default, max).offset \in Nat
BY ApiAssumption DEF ParsePagination, Given

LEMMA GraphQLPagination ==
  ASSUME NEW limit \in Given, NEW offset \in Given, NEW max \in Nat
  PROVE  /\ PaginationArgs(limit, offset, 50, max).limit \in Int
         /\ PaginationArgs(limit, offset, 50, max).offset \in Int
         /\ ItemsArgs(limit, offset).limit \in Int
         /\ ItemsArgs(limit, offset).offset \in Int
         /\ SearchArgs(limit).limit \in Int
         /\ SearchArgs(limit).offset \in Int
<1>1. Or(limit, 50) \in Int /\ Or(offset, 0) \in Int
  BY DEF Or, Given
<1>2. \A m \in Int : Least(Or(limit, 50), m) \in Int
  BY <1>1 DEF Least
<1>3. /\ PaginationArgs(limit, offset, 50, max).limit \in Int
      /\ PaginationArgs(limit, offset, 50, max).offset \in Int
  BY <1>1, <1>2 DEF PaginationArgs
<1>4. PaginationArgs(limit, offset, 50, 100) =
        [limit |-> PaginationArgs(limit, offset, 50, 100).limit,
         offset |-> PaginationArgs(limit, offset, 50, 100).offset]
      /\ PaginationArgs(limit, offset, 50, 100).limit \in Int
  BY <1>1, <1>2 DEF PaginationArgs
<1>5. ItemsArgs(limit, offset).limit \in Int /\ ItemsArgs(limit, offset).offset \in Int
  BY <1>1, <1>4 DEF ItemsArgs
<1>6. SearchArgs(limit).limit \in Int /\ SearchArgs(limit).offset \in Int
  BY <1>2 DEF SearchArgs
<1> QED BY <1>3, <1>5, <1>6

\* A page's piece of n rows is what LIMIT and OFFSET ask for.
LEMMA SliceIsAsked ==
  ASSUME NEW n \in Nat, NEW page, page.limit \in Int, page.offset \in Int
  PROVE  /\ Slice(n, page).from \in Nat /\ Slice(n, page).count \in Nat
         /\ Slice(n, page).from + 1 .. Slice(n, page).from + Slice(n, page).count
               = PageRows(page, n)
BY DEF Slice, Least, PageRows

Listed(u, h) ==
    /\ h.cached
    /\ h.page.limit \in 1 .. Max(u) /\ h.page.offset \in Nat
Shape(u, h) ==
    /\ h.page.limit \in Int /\ h.page.offset \in Int
    /\ \/ h.queries = <<"count", "page">> /\ Listed(u, h)
       \/ h.queries = <<"match", "matches">> /\ Listed(u, h)
       \/ h.queries = <<"page">> /\ ~h.cached
       \/ /\ h.page = NoPage
          /\ h.queries \in {<<>>, <<"row">>, <<"versions", "current">>,
                            <<"ping", "items", "latest">>}

LEMMA PagedShape ==
  ASSUME NEW u, u.limit \in Given, u.offset \in Given, Max(u) \in Nat, 50 <= Max(u)
  PROVE  Shape(u, Paged(u, Max(u)))
<1> DEFINE p == ParsePagination(u.limit, u.offset, 50, Max(u))
           h == Paged(u, Max(u))
<1>1. p.limit \in 1 .. Max(u) /\ p.offset \in Nat
  BY Pagination
<1>2. h.page = p /\ h.cached /\ h.queries = <<"count", "page">>
  BY DEF Paged, Handler
<1>3. p.limit \in Int /\ p.offset \in Int
  BY <1>1
<1> HIDE DEF p, h
<1>4. Shape(u, h)
  BY <1>1, <1>2, <1>3 DEF Shape, Listed
<1> QED BY <1>4 DEF h

LEMMA RouteShape ==
  ASSUME NEW u, u.path \in Paths, u.limit \in Given, u.offset \in Given
  PROVE  Shape(u, Route(u))
<1>1. Max(u) \in Nat
  BY DEF Max
<1>2. NoPage.limit \in Int /\ NoPage.offset \in Int
  BY DEF NoPage
<1>3. CASE u.path = "/api/v1/items"
  <2>1. Route(u) = Paged(u, 100) /\ Max(u) = 100
    BY <1>3 DEF Route, List, Max
  <2> QED BY <2>1, PagedShape
<1>4. CASE u.path = "/api/v1/categories"
  <2>1. Route(u) = Paged(u, 200) /\ Max(u) = 200
    BY <1>4 DEF Route, ListCategories, Max
  <2> QED BY <2>1, PagedShape
<1>5. CASE u.path \in {"/api/v1/groups", "/api/v1/categories/{id}/groups"}
  <2>1. Max(u) = 500
    BY <1>5 DEF Max
  <2>2. CASE u.path = "/api/v1/groups"
    BY <2>1, <2>2, PagedShape DEF Route, ListGroups
  <2>3. CASE u.path = "/api/v1/categories/{id}/groups"
    <3>1. Route(u) = ListGroups(u)
      BY <2>3 DEF Route, ListCategoryGroups
    <3> QED BY <2>1, <3>1, PagedShape DEF ListGroups
  <2> QED BY <1>5, <2>2, <2>3
<1>6. CASE u.path = "/api/v1/search"
  <2>1. Route(u) = Search(u) /\ Max(u) = 100
    BY <1>6 DEF Route, Max
  <2> QED BY <2>1, Pagination DEF Shape, Listed, Search, Handler
<1>7. CASE u.path \in {"/health", "/version", "/api/admin/keys/{id}", "/api/v1/diff"}
  <2>1. Route(u) \in {Health(u), Version(u), RevokeKey(u), GetDiff(u)}
    BY <1>7 DEF Route
  <2> QED BY <1>2, <2>1 DEF Shape, Health, Version, RevokeKey, GetDiff, Handler
<1>8. CASE u.path = "/ready"
  <2>1. Route(u) = Ready(u)
    BY <1>8 DEF Route
  <2> QED BY <1>2, <2>1 DEF Shape, Ready, Handler
<1>9. CASE u.path = "/api/v1/changelog"
  <2>1. Route(u) = GetChangelog(u)
    BY <1>9 DEF Route
  <2> QED BY <1>2, <2>1 DEF Shape, GetChangelog, Handler
<1>10. CASE u.path \in {"/api/v1/items/{id}", "/api/v1/categories/{id}",
                        "/api/v1/groups/{id}"}
  <2>1. Route(u) = Get(u)
    BY <1>10 DEF Route, GetCategory, GetGroup, Get
  <2> QED BY <1>2, <2>1 DEF Shape, Get, Handler
<1>11. CASE u.path \in {"items", "search", "categories", "groups"}
  <2>1. u.path = "items" => Route(u) = GraphQL(ItemsArgs(u.limit, u.offset))
    BY DEF Route, ResolveItems
  <2>2. u.path = "search" => Route(u) = GraphQL(SearchArgs(u.limit))
    BY DEF Route, ResolveSearch
  <2>3. u.path = "categories" =>
          Route(u) = GraphQL(PaginationArgs(u.limit, u.offset, 50, 200))
    BY DEF Route, ResolveCategories
  <2>4. u.path = "groups" =>
          Route(u) = GraphQL(PaginationArgs(u.limit, u.offset, 50, 500))
    BY DEF Route, ResolveGroups
  <2>5. \A page : page.limit \in Int /\ page.offset \in Int => Shape(u, GraphQL(page))
    BY DEF Shape, GraphQL, Handler
  <2> QED BY <1>11, <2>1, <2>2, <2>3, <2>4, <2>5, GraphQLPagination
<1>12. CASE u.path \in {"item", "category", "group"}
  <2>1. Route(u) = ResolveItem(u)
    BY <1>12 DEF Route, ResolveCategory, ResolveGroup
  <2> QED BY <1>2, <2>1 DEF Shape, ResolveItem, Handler
<1> QED BY <1>3, <1>4, <1>5, <1>6, <1>7, <1>8, <1>9, <1>10, <1>11, <1>12 DEF Paths

LEMMA RouterShape == \A u \in Urls : Shape(Parsed[u], Router[u])
BY RouteShape, ApiAssumption DEF Router
-----------------------------------------------------------------------------
\* What a handler has made, in the cases where little is to be shown.
LEMMA FailedMade ==
  ASSUME NEW u, NEW q \in Nat, q > 1, q > Len(Router[u].queries),
         NEW b, b.status # 200
  PROVE  Made(u, q, b)
<1> DEFINE queries == Router[u].queries
           len == Len(queries)
<1>1. Len(<<"count", "page">>) = 2 /\ Len(<<"match", "matches">>) = 2
  OBVIOUS
<1>2. len # 2 \/ q # 2
  <2>1. q > len
    OBVIOUS
  <2> HIDE DEF len
  <2>2. SUFFICES ASSUME len = 2, q = 2 PROVE FALSE
    OBVIOUS
  <2>3. 2 > 2
    BY <2>1, <2>2, Zenon
  <2> QED BY <2>3
<1>3. q = 2 => queries # <<"count", "page">> /\ queries # <<"match", "matches">>
  BY <1>1, <1>2, Zenon
<1> QED BY <1>3 DEF Made, Final

LEMMA NoListMade ==
  ASSUME NEW u \in Urls, Router[u].page = NoPage, Parsed[u].of # Absent,
         NEW q \in Nat, q > 1, NEW b
  PROVE  Made(u, q, b)
<1>1. Router[u].page.limit = -1
  BY DEF NoPage
<1>2. ~Listed(Parsed[u], Router[u])
  BY <1>1 DEF Listed
<1>3. Router[u].queries \in {<<"page">>, <<>>, <<"row">>, <<"versions", "current">>,
                             <<"ping", "items", "latest">>}
  BY <1>2, RouterShape DEF Shape
<1>4. /\ Len(<<"page">>) = 1 /\ Len(<<>>) = 0 /\ Len(<<"row">>) = 1
      /\ Len(<<"ping", "items", "latest">>) = 3
      /\ Len(<<"count", "page">>) = 2 /\ Len(<<"match", "matches">>) = 2
      /\ <<"versions", "current">>[1] = "versions"
      /\ <<"count", "page">>[1] = "count" /\ <<"match", "matches">>[1] = "match"
  OBVIOUS
<1>5. Router[u].queries # <<"count", "page">> /\ Router[u].queries # <<"match", "matches">>
  BY <1>3, <1>4
<1> QED BY <1>5 DEF Made, Final

\* What was seen stays young when archives are only served again.
LEMMA SeenStays ==
  ASSUME NEW b \in Bodies, NEW s \in [Catalogs -> Int], NEW t \in [Catalogs -> Int],
         \A a \in Catalogs : t[a] <= s[a], NEW n \in Int, Seen(b, s, n)
  PROVE  Seen(b, t, n)
BY DEF Seen, Bodies

LEMMA EntryStays ==
  ASSUME NEW u, NEW e \in Entry, NEW s \in [Catalogs -> Int],
         NEW t \in [Catalogs -> Int],
         \A a \in Catalogs : t[a] <= s[a], EntryOK(u, e, s)
  PROVE  EntryOK(u, e, t)
<1>1. e.body \in Bodies /\ Horizon - e.left \in Int
  BY ApiAssumption DEF Entry, Horizon
<1> QED BY <1>1, SeenStays DEF EntryOK

\* A step leaves a request alone; or all but one.
Untouched(q) ==
    /\ pc'[q] = pc[q] /\ url'[q] = url[q] /\ good'[q] = good[q]
    /\ copy'[q] = copy[q] /\ query'[q] = query[q] /\ body'[q] = body[q]
    /\ age'[q] = age[q]
    /\ asked'[q] = asked[q] /\ about'[q] = about[q] /\ answer'[q] = answer[q]
Alone(r) == \A q \in Requests \ {r} : Untouched(q)

\* Keys are only ever taken back, archives only served again.
Onward == /\ issued' = issued /\ revoked \subseteq revoked' /\ expired \subseteq expired'
          /\ \A a \in Catalogs : since'[a] <= since[a]

LEMMA SinceTyped == CatalogTyped => since \in [Catalogs -> Int]
BY ApiAssumption DEF CatalogTyped, Horizon

LEMMA OthersKeep ==
  ASSUME Inv, CatalogTyped', Onward, NEW q \in Requests, Untouched(q)
  PROVE  Request(q)'
<1>1. since \in [Catalogs -> Int] /\ since' \in [Catalogs -> Int]
  BY SinceTyped DEF Inv, CatalogTyped, Horizon
<1>2. /\ pc'[q] = pc[q] /\ url'[q] = url[q] /\ good'[q] = good[q]
      /\ copy'[q] = copy[q] /\ query'[q] = query[q] /\ body'[q] = body[q]
      /\ age'[q] = age[q]
      /\ asked'[q] = asked[q] /\ about'[q] = about[q] /\ answer'[q] = answer[q]
  BY DEF Untouched
<1>3. body[q] \in Bodies /\ age[q] \in Int /\ copy[q] \in Entry \cup {None}
  BY ApiAssumption DEF Inv, RequestTyped
<1>4. Request(q)
  BY DEF Inv
<1>5. Registry!Valid(about[q])' => Registry!Valid(about[q])
  BY <1>2 DEF Registry!Valid, Onward
<1>6. Begun(q)'
  BY <1>2, <1>4 DEF Begun, Request
<1>7. Gate(q)'
  BY <1>2, <1>4, <1>5 DEF Gate, Request, Handle, Registry!Valid
<1>8. (Busy(q) => Seen(body[q], since, age[q]))'
  BY <1>1, <1>2, <1>3, <1>4, SeenStays DEF Request, Busy, Onward
<1>9. (copy[q] # None => EntryOK(url[q], copy[q], since))'
  BY <1>1, <1>2, <1>3, <1>4, EntryStays DEF Request, Onward
<1>10. (pc[q] = "query" => Made(url[q], query[q], body[q]))'
       /\ (pc[q] = "told" => Final(url[q], body[q]))'
  BY <1>2, <1>4 DEF Request
<1> QED BY <1>6, <1>7, <1>8, <1>9, <1>10 DEF Request

LEMMA CacheKeeps ==
  ASSUME Inv, CatalogTyped', Onward,
         \A u \in Urls : cache'[u] \in {None, cache[u]}
  PROVE  CacheOK'
<1>1. since \in [Catalogs -> Int] /\ since' \in [Catalogs -> Int]
  BY SinceTyped DEF Inv, CatalogTyped, Horizon
<1>2. \A u \in Urls : cache[u] \in Entry \cup {None}
  BY DEF Inv, CacheTyped
<1> QED BY <1>1, <1>2, EntryStays DEF Inv, CacheOK, Onward

LEMMA KeptKeeps ==
  ASSUME Inv, NEW r, Kept(r)
  PROVE  /\ CatalogTyped'
         /\ issued' = issued /\ revoked \subseteq revoked' /\ expired \subseteq expired'
               => Onward
<1>1. since' = since /\ since \in [Catalogs -> Int]
  BY SinceTyped DEF Inv, Kept, CatalogTyped
<1>2. CatalogTyped'
  BY <1>1 DEF Inv, Kept, CatalogTyped, catalog
<1> QED BY <1>1, <1>2 DEF Onward

\* A step of one request, put together.
LEMMA LocalKeeps ==
  ASSUME Inv, NEW r, Kept(r), Alone(r),
         issued' = issued, revoked \subseteq revoked', expired \subseteq expired',
         RegistryTyped', RequestTyped', CacheTyped', CacheOK', Request(r)'
  PROVE  Inv'
<1>1. CatalogTyped' /\ Onward
  BY KeptKeeps
<1>2. \A q \in Requests : Request(q)'
  BY <1>1, OthersKeep DEF Alone
<1> QED BY <1>1, <1>2 DEF Inv

LEMMA BlankTyped == Blank \in Bodies
BY DEF Blank, Body, Bodies

LEMMA ErrorTyped ==
  ASSUME NEW status \in {400, 404, 408, 500, 503}, NEW read \in SUBSET Catalogs
  PROVE  Error(status, read) \in Bodies
BY DEF Error, Body, Bodies

LEMMA NowhereTyped == Nowhere \in Urls
BY ApiAssumption DEF Nowhere

\* New values in every field of one request.
LEMMA FieldsTyped ==
  ASSUME Inv, NEW r \in Requests, NEW u \in Urls, NEW g \in BOOLEAN, Fields(r, u, g)
  PROVE  /\ url' \in [Requests -> Urls] /\ good' \in [Requests -> BOOLEAN]
         /\ copy' \in [Requests -> Entry \cup {None}]
         /\ query' \in [Requests -> Nat \ {0}]
         /\ body' \in [Requests -> Bodies]
         /\ age' \in [Requests -> 0 .. HandlerMax]
<1>1. url' \in [Requests -> Urls]
  BY DEF Inv, RequestTyped, Fields
<1>2. good' \in [Requests -> BOOLEAN]
  BY DEF Inv, RequestTyped, Fields
<1>3. copy' \in [Requests -> Entry \cup {None}]
  BY DEF Inv, RequestTyped, Fields
<1>4. query' \in [Requests -> Nat \ {0}]
  BY DEF Inv, RequestTyped, Fields
<1>5. body' \in [Requests -> Bodies]
  BY BlankTyped DEF Inv, RequestTyped, Fields
<1>6. age' \in [Requests -> 0 .. HandlerMax]
  BY ApiAssumption DEF Inv, RequestTyped, Fields
<1> QED BY <1>1, <1>2, <1>3, <1>4, <1>5, <1>6

\* The end of a request, whatever becomes of the cache and of its question.
LEMMA EndKeeps ==
  ASSUME Inv, NEW r \in Requests, End(r), Kept(r),
         issued' = issued, revoked' = revoked, expired' = expired,
         RegistryTyped',
         \A q \in Requests \ {r} :
            asked'[q] = asked[q] /\ about'[q] = about[q] /\ answer'[q] = answer[q],
         CacheTyped', CacheOK'
  PROVE  Inv'
<1>1. pc' = [pc EXCEPT ![r] = "done"] /\ Fields(r, Nowhere, FALSE)
  BY DEF End, Goto
<1>2. /\ url' \in [Requests -> Urls] /\ good' \in [Requests -> BOOLEAN]
      /\ copy' \in [Requests -> Entry \cup {None}]
      /\ query' \in [Requests -> Nat \ {0}]
      /\ body' \in [Requests -> Bodies]
      /\ age' \in [Requests -> 0 .. HandlerMax]
  BY <1>1, FieldsTyped, NowhereTyped
<1>3. RequestTyped'
  BY <1>1, <1>2 DEF Inv, RequestTyped
<1>4. Alone(r)
  BY <1>1 DEF Alone, Untouched, Fields, Inv, RequestTyped
<1>5. pc'[r] = "done" /\ copy'[r] = None
  BY <1>1 DEF Fields, Inv, RequestTyped
<1>6. Request(r)'
  BY <1>5 DEF Request, Begun, Gate, Busy
<1> QED BY <1>3, <1>4, <1>6, LocalKeeps

\* A query of the handler that ends with b and n queries done.
LEMMA HasKeeps ==
  ASSUME Inv, NEW r \in Requests, pc[r] = "query", NEW b \in Bodies,
         NEW n \in Nat, Has(r, b, n), b.read \subseteq Read(r),
         Made(url[r], query[r] + n, b)
  PROVE  Inv'
<1>1. /\ body' = [body EXCEPT ![r] = b] /\ query' = [query EXCEPT ![r] = @ + n]
      /\ UNCHANGED <<pc, url, good, copy, age, cache>>
      /\ UNCHANGED <<issued, revoked, expired, asked, about, answer>>
      /\ Kept(r)
  BY DEF Has, Same, registry
<1>2. body' \in [Requests -> Bodies] /\ body'[r] = b
  BY <1>1 DEF Inv, RequestTyped
<1>3. query' \in [Requests -> Nat \ {0}] /\ query'[r] = query[r] + n
  BY <1>1 DEF Inv, RequestTyped
<1>4. RequestTyped'
  BY <1>1, <1>2, <1>3 DEF Inv, RequestTyped
<1>5. Alone(r)
  BY <1>1 DEF Alone, Untouched, Inv, RequestTyped
<1>6. since' = since
  BY <1>1 DEF Kept
<1>7. Seen(b, since, age[r])
  <2>1. Seen(body[r], since, age[r])
    BY DEF Inv, Request, Busy
  <2>2. since[served] <= age[r]
    BY ApiAssumption DEF Inv, CatalogTyped, RequestTyped
  <2> QED BY <2>1, <2>2 DEF Seen, Read
<1>8. Request(r)
  BY DEF Inv
<1>9. Gate(r)'
  BY <1>1, <1>8 DEF Request, Gate, Handle, Registry!Valid
<1>10. Request(r)'
  BY <1>1, <1>2, <1>3, <1>6, <1>7, <1>8, <1>9 DEF Request, Begun, Busy
<1>11. RegistryTyped' /\ CacheTyped'
  BY <1>1 DEF Inv, RegistryTyped, CacheTyped
<1>12. CacheOK'
  BY <1>1, <1>6 DEF Inv, CacheOK
<1> QED BY <1>1, <1>4, <1>5, <1>10, <1>11, <1>12, LocalKeeps
-----------------------------------------------------------------------------
\* The handler at a query.
LEMMA QueriesLen ==
  ASSUME NEW u \in Urls
  PROVE  Len(Router[u].queries) \in Nat
BY RouterShape DEF Shape

LEMMA QueryFacts ==
  ASSUME Inv, NEW r \in Requests, NEW q, AtQuery(r, q)
  PROVE  /\ url[r] \in Urls /\ body[r] \in Bodies /\ served \in Catalogs
         /\ pc[r] = "query" /\ Parsed[url[r]].of # Absent
         /\ Len(Handle(r).queries) \in Nat /\ Len(Handle(r).queries) >= 1
         /\ query[r] \in Nat /\ query[r] >= 1
         /\ Left(r) \in Nat /\ query[r] + Left(r) > 1
         /\ query[r] + Left(r) > Len(Router[url[r]].queries)
         /\ Rows(r) \in Nat /\ Read(r) \in SUBSET Catalogs
         /\ Made(url[r], query[r], body[r])
<1>1. /\ url[r] \in Urls /\ body[r] \in Bodies /\ served \in Catalogs
      /\ pc[r] = "query" /\ Parsed[url[r]].of # Absent
      /\ query[r] \in 1 .. Len(Handle(r).queries)
  BY DEF Inv, RequestTyped, CatalogTyped, AtQuery
<1>2. Len(Handle(r).queries) \in Nat
  BY <1>1, QueriesLen DEF Handle
<1>3. /\ query[r] \in Nat /\ query[r] >= 1 /\ Len(Handle(r).queries) >= 1
      /\ Left(r) \in Nat /\ query[r] + Left(r) > 1
      /\ query[r] + Left(r) > Len(Handle(r).queries)
  BY <1>1, <1>2 DEF Left
<1>4. Router[url[r]].queries # <<>>
  BY <1>3 DEF Handle
<1>5. Rows(r) \in Nat
  BY <1>1, <1>4, ApiAssumption DEF Rows
<1>6. body[r].read \in SUBSET Catalogs
  BY <1>1 DEF Bodies
<1>7. Made(url[r], query[r], body[r])
  BY <1>1 DEF Inv, Request
<1> QED BY <1>1, <1>2, <1>3, <1>5, <1>6, <1>7 DEF Read, Handle

LEMMA FailKeeps ==
  ASSUME Inv, NEW r \in Requests, NEW q, AtQuery(r, q),
         NEW status \in {404, 408, 500}, Fail(r, status)
  PROVE  Inv'
<1> DEFINE b == Error(status, Read(r))
<1>1. b \in Bodies /\ b.read = Read(r) /\ b.status # 200
  BY QueryFacts, ErrorTyped DEF Error, Body
<1>2. Has(r, b, Left(r)) /\ pc[r] = "query"
  BY QueryFacts DEF Fail
<1> HIDE DEF b
<1>3. Made(url[r], query[r] + Left(r), b)
  BY <1>1, QueryFacts, FailedMade
<1> QED BY <1>1, <1>2, <1>3, QueryFacts, HasKeeps

\* Which handler asks which query.
LEMMA WhichQuery ==
  ASSUME Inv, NEW r \in Requests, NEW q, AtQuery(r, q)
  PROVE  /\ q = "count" => Handle(r).queries = <<"count", "page">> /\ query[r] = 1
         /\ q = "page" => \/ /\ Handle(r).queries = <<"count", "page">> /\ query[r] = 2
                             /\ Listed(Parsed[url[r]], Handle(r))
                          \/ /\ Handle(r).queries = <<"page">> /\ query[r] = 1
                             /\ ~Handle(r).cached
         /\ q = "match" => /\ Handle(r).queries = <<"match", "matches">>
                           /\ query[r] = 1 /\ Listed(Parsed[url[r]], Handle(r))
         /\ q = "matches" => /\ Handle(r).queries = <<"match", "matches">>
                             /\ query[r] = 2 /\ Listed(Parsed[url[r]], Handle(r))
         /\ q \notin {"count", "page", "match", "matches"} => Handle(r).page = NoPage
<1>1. Shape(Parsed[url[r]], Handle(r))
  BY QueryFacts, RouterShape DEF Handle
<1>2. query[r] \in 1 .. Len(Handle(r).queries) /\ Handle(r).queries[query[r]] = q
  BY DEF AtQuery
<1>3. CASE Handle(r).queries = <<"count", "page">> /\ Listed(Parsed[url[r]], Handle(r))
  <2>1. /\ Len(Handle(r).queries) = 2
        /\ Handle(r).queries[1] = "count" /\ Handle(r).queries[2] = "page"
    BY <1>3
  <2>2. query[r] = 1 \/ query[r] = 2
    BY <1>2, <2>1
  <2>3. (query[r] = 1 /\ q = "count") \/ (query[r] = 2 /\ q = "page")
    BY <1>2, <2>1, <2>2
  <2> QED BY <1>3, <2>3
<1>4. CASE Handle(r).queries = <<"match", "matches">> /\ Listed(Parsed[url[r]], Handle(r))
  <2>1. /\ Len(Handle(r).queries) = 2
        /\ Handle(r).queries[1] = "match" /\ Handle(r).queries[2] = "matches"
    BY <1>4
  <2>2. query[r] = 1 \/ query[r] = 2
    BY <1>2, <2>1
  <2>3. (query[r] = 1 /\ q = "match") \/ (query[r] = 2 /\ q = "matches")
    BY <1>2, <2>1, <2>2
  <2> QED BY <1>4, <2>3
<1>5. CASE Handle(r).queries = <<"page">> /\ ~Handle(r).cached
  <2>1. query[r] = 1 /\ q = "page"
    BY <1>2, <1>5
  <2> QED BY <1>5, <2>1
<1>6. CASE /\ Handle(r).page = NoPage
           /\ Handle(r).queries \in {<<>>, <<"row">>, <<"versions", "current">>,
                             <<"ping", "items", "latest">>}
  <2>1. q \in {"row", "versions", "current", "ping", "items", "latest"}
    BY <1>2, <1>6
  <2> QED BY <1>6, <2>1
<1> QED BY <1>1, <1>3, <1>4, <1>5, <1>6 DEF Shape

\* A query of a handler that lists nothing.
LEMMA NoListKeeps ==
  ASSUME Inv, NEW r \in Requests, NEW q, AtQuery(r, q),
         q \notin {"count", "page", "match", "matches"},
         NEW b \in Bodies, b.read \subseteq Read(r), NEW n \in {1, 2}, Has(r, b, n)
  PROVE  Inv'
<1>1. Handle(r).page = NoPage
  BY WhichQuery
<1>2. Made(url[r], query[r] + n, b)
  BY <1>1, QueryFacts, NoListMade DEF Handle
<1> QED BY <1>2, QueryFacts, HasKeeps

LEMMA CountKeeps ==
  ASSUME Inv, NEW r \in Requests, Count(r)
  PROVE  Inv'
<1>1. AtQuery(r, "count")
  BY DEF Count
<1>2. CASE Has(r, Body(200, 0, 0, Rows(r), Read(r), TRUE), 1)
  <2> DEFINE b == Body(200, 0, 0, Rows(r), Read(r), TRUE)
             u == url[r]
  <2>1. Handle(r).queries = <<"count", "page">> /\ query[r] = 1
    BY <1>1, WhichQuery
  <2>2. body[r] = Blank
    BY <1>1, <2>1, QueryFacts DEF Made
  <2>3. b.total = Size[Parsed[u].of][served] /\ b.read = {served}
    BY <2>2 DEF Body, Rows, Read, Blank
  <2>4. b \in Bodies
    BY <1>1, QueryFacts DEF Body, Bodies
  <2>5. b.read = Read(r) /\ Has(r, b, 1)
    BY <1>2 DEF Body
  <2> HIDE DEF b
  <2>6. Made(u, 2, b)
    BY <1>1, <2>1, <2>3, QueryFacts DEF Made, Handle
  <2>7. Made(url[r], query[r] + 1, b)
    BY <2>1, <2>6
  <2> QED BY <1>1, <2>4, <2>5, <2>7, QueryFacts, HasKeeps
<1>3. CASE Fail(r, 500)
  BY <1>1, <1>3, FailKeeps
<1> QED BY <1>2, <1>3 DEF Count

\* What a page shows.
LEMMA ShownFacts ==
  ASSUME Inv, NEW r \in Requests, NEW q, AtQuery(r, q), NEW n, Shown(r, n),
         n \in Cuts \cup {Part(r).count}
  PROVE  \E b \in Bodies :
            /\ Has(r, b, 1) /\ b.status = 200 /\ b.read = Read(r)
            /\ b.total = body[r].total
            /\ b.clean => body[r].clean /\ RowsShown(b) = PageRows(Handle(r).page, Rows(r))
<1> DEFINE b == Body(200, Part(r).from, n, body[r].total, Read(r),
                     body[r].clean /\ n = Part(r).count)
<1>1. Handle(r).page.limit \in Int /\ Handle(r).page.offset \in Int
  BY QueryFacts, RouterShape DEF Shape, Handle
<1>2. /\ Part(r).from \in Nat /\ Part(r).count \in Nat
      /\ Part(r).from + 1 .. Part(r).from + Part(r).count
            = PageRows(Handle(r).page, Rows(r))
  BY <1>1, QueryFacts, SliceIsAsked DEF Part
<1>3. n \in Nat /\ n <= Part(r).count
  BY <1>2, ApiAssumption DEF Shown
<1>4. (body[r].clean /\ n = Part(r).count) \in BOOLEAN
  OBVIOUS
<1>5. b \in Bodies
  <2>1. body[r].total \in Nat
    BY QueryFacts DEF Bodies
  <2> QED BY <1>2, <1>3, <1>4, <2>1, QueryFacts DEF Bodies, Body
<1>6. Has(r, b, 1)
  BY DEF Shown
<1>7. /\ b.status = 200 /\ b.offset = Part(r).from /\ b.count = n /\ b.read = Read(r)
      /\ b.total = body[r].total
  BY DEF Body
<1>8. b.clean = (body[r].clean /\ n = Part(r).count)
  BY DEF Body
<1> HIDE DEF b
<1>9. b.clean => body[r].clean /\ RowsShown(b) = PageRows(Handle(r).page, Rows(r))
  BY <1>2, <1>7, <1>8 DEF RowsShown
<1> QED BY <1>5, <1>6, <1>7, <1>9

LEMMA PageKeeps ==
  ASSUME Inv, NEW r \in Requests, Page(r)
  PROVE  Inv'
<1>1. AtQuery(r, "page")
  BY DEF Page
<1>2. CASE SomeRows(r)
  <2>1. PICK n \in Cuts \cup {Part(r).count} : Shown(r, n)
    BY <1>2 DEF SomeRows
  <2>2. PICK b \in Bodies :
            /\ Has(r, b, 1) /\ b.status = 200 /\ b.read = Read(r)
            /\ b.total = body[r].total
            /\ b.clean => body[r].clean /\ RowsShown(b) = PageRows(Handle(r).page, Rows(r))
    BY <1>1, <2>1, ShownFacts
  <2>3. served \in b.read
    BY <2>2 DEF Read
  <2>4. CASE /\ Handle(r).queries = <<"count", "page">> /\ query[r] = 2
             /\ Listed(Parsed[url[r]], Handle(r))
    <3>2. PICK a \in Catalogs :
            body[r].read = {a} /\ body[r].total = Size[Parsed[url[r]].of][a]
      BY <1>1, <2>4, QueryFacts DEF Made, Handle
    <3>3. \A c \in Catalogs : b.read = {c} => c = a /\ c = served
      BY <2>2, <2>3, <3>2 DEF Read
    <3>4. Final(url[r], b)
      BY <1>1, <2>2, <3>2, <3>3 DEF Final, Handle, Rows, AtQuery
    <3>5. Made(url[r], query[r] + 1, b)
      BY <1>1, <2>4, <3>4, QueryFacts DEF Made, Handle
    <3> QED BY <1>1, <2>2, <3>5, QueryFacts, HasKeeps
  <2>5. CASE Handle(r).queries = <<"page">> /\ query[r] = 1 /\ ~Handle(r).cached
    <3>1. body[r] = Blank
      BY <1>1, <2>5, QueryFacts DEF Made
    <3>2. b.read = {served}
      BY <2>2, <3>1 DEF Read, Blank, Body
    <3>3. Final(url[r], b)
      BY <1>1, <2>2, <2>5, <3>2 DEF Final, Handle, Rows, AtQuery
    <3>4. Made(url[r], query[r] + 1, b)
      BY <1>1, <2>5, <3>3, QueryFacts DEF Made, Handle
    <3> QED BY <1>1, <2>2, <3>4, QueryFacts, HasKeeps
  <2> QED BY <1>1, <2>4, <2>5, WhichQuery
<1>3. CASE Fail(r, 500)
  BY <1>1, <1>3, FailKeeps
<1> QED BY <1>2, <1>3 DEF Page
LEMMA MatchKeeps ==
  ASSUME Inv, NEW r \in Requests, Match(r)
  PROVE  Inv'
<1>1. AtQuery(r, "match")
  BY DEF Match
<1>2. CASE SomeRows(r)
  <2>1. PICK n \in Cuts \cup {Part(r).count} : Shown(r, n)
    BY <1>2 DEF SomeRows
  <2>2. PICK b \in Bodies :
            /\ Has(r, b, 1) /\ b.status = 200 /\ b.read = Read(r)
            /\ b.total = body[r].total
            /\ b.clean => body[r].clean /\ RowsShown(b) = PageRows(Handle(r).page, Rows(r))
    BY <1>1, <2>1, ShownFacts
  <2>3. /\ Handle(r).queries = <<"match", "matches">> /\ query[r] = 1
        /\ Listed(Parsed[url[r]], Handle(r))
    BY <1>1, WhichQuery
  <2>5. body[r] = Blank
    BY <1>1, <2>3, QueryFacts DEF Made
  <2>6. b.read = {served}
    BY <2>2, <2>5 DEF Read, Blank, Body
  <2>7. Len(Handle(r).queries) = 2 /\ Handle(r).queries # <<"count", "page">>
    <3>1. <<"count", "page">>[1] = "count" /\ Handle(r).queries[1] = "match"
      BY <2>3
    <3> QED BY <2>3, <3>1
  <2>8. Made(url[r], 2, b)
    BY <1>1, <2>2, <2>6, <2>7, QueryFacts DEF Made, Handle, Rows
  <2>9. Made(url[r], query[r] + 1, b)
    BY <2>3, <2>8
  <2> QED BY <1>1, <2>2, <2>9, QueryFacts, HasKeeps
<1>3. CASE Fail(r, 408) \/ Fail(r, 500)
  BY <1>1, <1>3, FailKeeps
<1> QED BY <1>2, <1>3 DEF Match

LEMMA MatchesKeeps ==
  ASSUME Inv, NEW r \in Requests, Matches(r)
  PROVE  Inv'
<1>1. AtQuery(r, "matches")
  BY DEF Matches
<1>2. PICK total \in {Rows(r), body[r].count} :
          Has(r, Body(200, body[r].offset, body[r].count, total, Read(r),
                      body[r].clean /\ total = Rows(r)), 1)
  BY DEF Matches
<1> DEFINE b == Body(200, body[r].offset, body[r].count, total, Read(r),
                     body[r].clean /\ total = Rows(r))
<1>3. /\ Handle(r).queries = <<"match", "matches">> /\ query[r] = 2
      /\ Listed(Parsed[url[r]], Handle(r))
  BY <1>1, WhichQuery
<1>4. PICK a \in Catalogs :
         /\ body[r].read = {a}
         /\ body[r].clean =>
               RowsShown(body[r]) = PageRows(Handle(r).page, Size[Parsed[url[r]].of][a])
  BY <1>1, <1>3, QueryFacts DEF Made, Handle
<1>5. (body[r].clean /\ total = Rows(r)) \in BOOLEAN
  OBVIOUS
<1>6. body[r].offset \in Nat /\ body[r].count \in Nat /\ total \in Nat
  BY <1>1, QueryFacts DEF Bodies
<1>7. b \in Bodies
  BY <1>1, <1>5, <1>6, QueryFacts DEF Body, Bodies
<1>8. /\ b.read = Read(r) /\ b.offset = body[r].offset /\ b.count = body[r].count
      /\ b.total = total /\ Has(r, b, 1)
  BY <1>2 DEF Body
<1>9. b.clean = (body[r].clean /\ total = Rows(r))
  BY DEF Body
<1> HIDE DEF b
<1>10. RowsShown(b) = RowsShown(body[r])
  BY <1>8 DEF RowsShown
<1>11. \A c \in Catalogs : b.read = {c} => c = a /\ c = served
  BY <1>4, <1>8 DEF Read
<1>12. Final(url[r], b)
  BY <1>1, <1>4, <1>8, <1>9, <1>10, <1>11 DEF Final, Handle, Rows, AtQuery
<1>13. Made(url[r], query[r] + 1, b)
  BY <1>1, <1>3, <1>12, QueryFacts DEF Made, Handle
<1> QED BY <1>1, <1>7, <1>8, <1>13, QueryFacts, HasKeeps
LEMMA RowKeeps ==
  ASSUME Inv, NEW r \in Requests, Row(r)
  PROVE  Inv'
<1>1. AtQuery(r, "row")
  BY DEF Row
<1>2. CASE Has(r, Body(200, 0, 1, 0, Read(r), TRUE), 1)
  <2> DEFINE b == Body(200, 0, 1, 0, Read(r), TRUE)
  <2>1. b \in Bodies /\ b.read = Read(r)
    BY <1>1, QueryFacts DEF Body, Bodies
  <2>2. Has(r, b, 1)
    BY <1>2
  <2> HIDE DEF b
  <2> QED BY <1>1, <2>1, <2>2, QueryFacts, NoListKeeps
<1>3. CASE Fail(r, 404) \/ Fail(r, 500)
  BY <1>1, <1>3, FailKeeps
<1> QED BY <1>2, <1>3 DEF Row

LEMMA VersionsKeep ==
  ASSUME Inv, NEW r \in Requests, Versions(r)
  PROVE  Inv'
<1>1. AtQuery(r, "versions")
  BY DEF Versions
<1>2. Least(Cardinality(history), 10) \in Nat
  <2>1. history \subseteq Archives /\ IsFiniteSet(Archives)
    BY ApiAssumption DEF Inv, CatalogTyped
  <2>2. Cardinality(history) \in Nat
    BY <2>1, FS_Subset, FS_CardinalityType
  <2> QED BY <2>2 DEF Least
<1>3. CASE Has(r, Body(200, 0, 0, Least(Cardinality(history), 10), {}, TRUE), 2)
  <2> DEFINE b == Body(200, 0, 0, Least(Cardinality(history), 10), {}, TRUE)
  <2>1. b \in Bodies /\ b.read = {}
    BY <1>2 DEF Body, Bodies
  <2>2. Has(r, b, 2)
    BY <1>3
  <2> HIDE DEF b
  <2> QED BY <1>1, <2>1, <2>2, QueryFacts, NoListKeeps
<1>4. CASE Has(r, Blank, 1)
  BY <1>1, <1>4, BlankTyped, NoListKeeps DEF Blank, Body
<1>5. CASE Has(r, Body(200, 0, 0, 0, {}, FALSE), 1)
  <2> DEFINE b == Body(200, 0, 0, 0, {}, FALSE)
  <2>1. b \in Bodies /\ b.read = {}
    BY DEF Body, Bodies
  <2>2. Has(r, b, 1)
    BY <1>5
  <2> HIDE DEF b
  <2> QED BY <1>1, <2>1, <2>2, QueryFacts, NoListKeeps
<1> QED BY <1>3, <1>4, <1>5 DEF Versions

LEMMA CurrentKeeps ==
  ASSUME Inv, NEW r \in Requests, Current(r)
  PROVE  Inv'
<1>1. AtQuery(r, "current")
  BY DEF Current
<1>2. body[r].clean \in BOOLEAN
  BY <1>1, QueryFacts DEF Bodies
<1>3. CASE Has(r, Body(200, 0, 0, Rows(r), Read(r), body[r].clean), 1)
  <2> DEFINE b == Body(200, 0, 0, Rows(r), Read(r), body[r].clean)
  <2>1. b \in Bodies /\ b.read = Read(r)
    BY <1>1, <1>2, QueryFacts DEF Body, Bodies
  <2>2. Has(r, b, 1)
    BY <1>3
  <2> HIDE DEF b
  <2> QED BY <1>1, <2>1, <2>2, NoListKeeps
<1>4. CASE Has(r, Body(200, 0, 0, 0, Read(r), FALSE), 1)
  <2> DEFINE b == Body(200, 0, 0, 0, Read(r), FALSE)
  <2>1. b \in Bodies /\ b.read = Read(r)
    BY <1>1, QueryFacts DEF Body, Bodies
  <2>2. Has(r, b, 1)
    BY <1>4
  <2> HIDE DEF b
  <2> QED BY <1>1, <2>1, <2>2, QueryFacts, NoListKeeps
<1> QED BY <1>3, <1>4 DEF Current

\* Ready's status is 200 until a check fails: the page is empty.
LEMMA ReadyKeeps ==
  ASSUME Inv, NEW r \in Requests, Ping(r) \/ Items(r) \/ Latest(r)
  PROVE  Inv'
<1>1. PICK q \in {"ping", "items", "latest"} : AtQuery(r, q)
  BY DEF Ping, Items, Latest
<1>2. body[r] \in Bodies
  BY <1>1, QueryFacts
<1>3. \A status \in {200, 503}, total \in Nat :
         Has(r, Body(status, 0, 0, total, Read(r), TRUE), 1) => Inv'
  <2>1. SUFFICES ASSUME NEW status \in {200, 503}, NEW total \in Nat,
                        Has(r, Body(status, 0, 0, total, Read(r), TRUE), 1)
                 PROVE  Inv'
    OBVIOUS
  <2> DEFINE b == Body(status, 0, 0, total, Read(r), TRUE)
  <2>2. b \in Bodies /\ b.read = Read(r)
    BY <1>1, QueryFacts DEF Body, Bodies
  <2> HIDE DEF b
  <2>3. Has(r, b, 1)
    BY <2>1 DEF b
  <2> QED BY <1>1, <2>2, <2>3, NoListKeeps
<1>4. Has(r, Error(503, Read(r)), 1) => Inv'
  BY <1>3 DEF Error, Body
<1>5. \A total \in Nat : Has(r, Body(body[r].status, 0, 0, total, Read(r), TRUE), 1) => Inv'
  <2>1. SUFFICES ASSUME NEW total \in Nat,
                        Has(r, Body(body[r].status, 0, 0, total, Read(r), TRUE), 1)
                 PROVE  Inv'
    OBVIOUS
  <2> DEFINE b == Body(body[r].status, 0, 0, total, Read(r), TRUE)
  <2>2. b \in Bodies /\ b.read = Read(r)
    BY <1>1, <1>2, QueryFacts DEF Body, Bodies
  <2> HIDE DEF b
  <2>3. Has(r, b, 1)
    BY <2>1 DEF b
  <2> QED BY <1>1, <2>2, <2>3, NoListKeeps
<1>6. body[r].total \in Nat
  BY <1>2 DEF Bodies
<1>7. CASE Ping(r)
  BY <1>3, <1>4, <1>7 DEF Ping, Body
<1>8. CASE Items(r)
  BY <1>1, <1>4, <1>5, <1>8, QueryFacts DEF Items
<1>9. CASE Latest(r)
  BY <1>3, <1>5, <1>6, <1>9 DEF Latest, Body
<1> QED BY <1>7, <1>8, <1>9

LEMMA BadRequestKeeps ==
  ASSUME Inv, NEW r \in Requests, BadRequest(r)
  PROVE  Inv'
<1> DEFINE b == Error(400, {})
<1>1. /\ pc[r] = "query" /\ query[r] = 1 /\ Has(r, b, Left(r) + 1)
  BY DEF BadRequest
<1>2. b \in Bodies /\ b.read = {} /\ b.status # 200
  BY ErrorTyped DEF Error, Body
<1>3. Len(Router[url[r]].queries) \in Nat
  BY QueriesLen DEF Inv, RequestTyped
<1>4. query[r] = 1
  BY <1>1
<1>5. /\ Left(r) + 1 \in Nat /\ query[r] + (Left(r) + 1) \in Nat
      /\ query[r] + (Left(r) + 1) > 1
      /\ query[r] + (Left(r) + 1) > Len(Router[url[r]].queries)
  BY <1>3, <1>4 DEF Left, Handle
<1> HIDE DEF b
<1>6. Made(url[r], query[r] + (Left(r) + 1), b)
  BY <1>2, <1>5, FailedMade
<1> QED BY <1>1, <1>2, <1>5, <1>6, HasKeeps

-----------------------------------------------------------------------------
\* The way to the handler and from it.
LEMMA RespondKeeps ==
  ASSUME Inv, NEW r \in Requests, Respond(r)
  PROVE  Inv'
<1>1. /\ pc[r] = "query" /\ query[r] > Len(Handle(r).queries)
      /\ Kept(r) /\ UNCHANGED <<issued, revoked, expired, asked, about, answer, cache>>
  BY DEF Respond, registry
<1>2. since' = since
  BY <1>1 DEF Kept
<1>3. RegistryTyped' /\ CacheTyped' /\ CacheOK'
  BY <1>1, <1>2 DEF Inv, RegistryTyped, CacheTyped, CacheOK
<1>4. CASE End(r)
  BY <1>1, <1>3, <1>4, EndKeeps
<1>5. CASE Goto(r, "told") /\ UNCHANGED <<url, good, copy, query, body, age>>
  <2>1. pc' = [pc EXCEPT ![r] = "told"]
    BY <1>5 DEF Goto
  <2>2. RequestTyped' /\ Alone(r) /\ pc'[r] = "told"
    BY <1>1, <1>5, <2>1 DEF Inv, RequestTyped, Alone, Untouched
  <2>3. Request(r)
    BY DEF Inv
  <2>4. Final(url[r], body[r])
    BY <1>1, <2>3 DEF Request, Made, Handle
  <2>5. Gate(r)'
    BY <1>1, <1>5, <2>2, <2>3 DEF Request, Gate, Handle
  <2>6. Request(r)'
    BY <1>1, <1>2, <1>5, <2>2, <2>3, <2>4, <2>5 DEF Request, Begun, Busy
  <2> QED BY <1>1, <1>3, <2>2, <2>6, LocalKeeps
<1> QED BY <1>4, <1>5 DEF Respond

LEMMA StoreKeeps ==
  ASSUME Inv, NEW r \in Requests, Store(r)
  PROVE  Inv'
<1>1. /\ pc[r] = "told" /\ End(r) /\ Kept(r)
      /\ UNCHANGED <<issued, revoked, expired, asked, about, answer>>
  BY DEF Store, registry
<1>2. since' = since
  BY <1>1 DEF Kept
<1>3. RegistryTyped'
  BY <1>1 DEF Inv, RegistryTyped
<1>4. CacheTyped' /\ CacheOK'
  <2>1. CASE UNCHANGED cache
    BY <1>2, <2>1 DEF Inv, CacheTyped, CacheOK
  <2>2. CASE body[r].status = 200 /\ Put(r)
    <3> DEFINE e == [left |-> Ttl, body |-> body[r]]
    <3>1. cache' = [cache EXCEPT ![url[r]] = e]
      BY <2>2 DEF Put
    <3>2. body[r] \in Bodies /\ url[r] \in Urls /\ age[r] \in 0 .. HandlerMax
      BY DEF Inv, RequestTyped
    <3>3. e \in Entry /\ e.body = body[r] /\ e.left = Ttl
      BY <3>2, ApiAssumption DEF Entry
    <3>4. Seen(body[r], since, age[r]) /\ Final(url[r], body[r])
      BY <1>1 DEF Inv, Request, Busy
    <3>5. Seen(body[r], since, Horizon - Ttl)
      <4>1. since \in [Catalogs -> Int]
        BY SinceTyped DEF Inv
      <4> QED BY <3>2, <3>4, <4>1, ApiAssumption DEF Seen, Horizon, Bodies
    <3> HIDE DEF e
    <3>6. EntryOK(url[r], e, since)
      BY <2>2, <3>3, <3>4, <3>5 DEF EntryOK
    <3>7. CacheTyped'
      BY <3>1, <3>2, <3>3 DEF Inv, CacheTyped
    <3>8. \A u \in Urls : cache'[u] = IF u = url[r] THEN e ELSE cache[u]
      BY <3>1, <3>2 DEF Inv, CacheTyped
    <3>9. CacheOK'
      BY <1>2, <3>6, <3>8 DEF Inv, CacheOK
    <3> QED BY <3>7, <3>9
  <2> QED BY <2>1, <2>2 DEF Store
<1> QED BY <1>1, <1>3, <1>4, EndKeeps

\* A handler that has not begun has made nothing.
LEMMA BeginsMade ==
  ASSUME NEW u \in Urls
  PROVE  Made(u, 1, Blank)
<1>1. \A a \in Catalogs : Blank.read # {a}
  BY DEF Blank, Body
<1> QED BY <1>1 DEF Made, Final

LEMMA LookupKeeps ==
  ASSUME Inv, NEW r \in Requests, Lookup(r)
  PROVE  Inv'
<1>1. /\ pc[r] = "route" /\ Kept(r) /\ UNCHANGED <<url, good, cache, query, body, age>>
      /\ UNCHANGED <<issued, revoked, expired, asked, about, answer>>
  BY DEF Lookup, Same, registry
<1>2. since' = since
  BY <1>1 DEF Kept
<1>3. RegistryTyped' /\ CacheTyped' /\ CacheOK'
  BY <1>1, <1>2 DEF Inv, RegistryTyped, CacheTyped, CacheOK
<1>4. Request(r)
  BY DEF Inv
<1>5. body[r] = Blank /\ query[r] = 1 /\ age[r] = 0
  BY <1>1, <1>4 DEF Request, Begun
<1>6. CASE Goto(r, "judge") /\ copy' = [copy EXCEPT ![r] = cache[url[r]]]
  <2>1. pc' = [pc EXCEPT ![r] = "judge"] /\ url[r] \in Urls
        /\ cache[url[r]] \in Entry \cup {None}
    BY <1>6 DEF Goto, Inv, RequestTyped, CacheTyped
  <2>2. RequestTyped' /\ Alone(r) /\ pc'[r] = "judge" /\ copy'[r] = cache[url[r]]
    BY <1>1, <1>6, <2>1 DEF Inv, RequestTyped, Alone, Untouched
  <2>3. Gate(r)'
    BY <1>1, <1>4, <2>2 DEF Request, Gate, Handle
  <2>4. cache[url[r]] # None => EntryOK(url[r], cache[url[r]], since)
    BY <2>1 DEF Inv, CacheOK
  <2>5. Request(r)'
    BY <1>1, <1>2, <1>5, <2>2, <2>3, <2>4 DEF Request, Begun, Busy
  <2> QED BY <1>1, <1>3, <2>2, <2>5, LocalKeeps
<1>7. CASE Goto(r, "query") /\ UNCHANGED copy
  <2>1. pc' = [pc EXCEPT ![r] = "query"]
    BY <1>7 DEF Goto
  <2>2. RequestTyped' /\ Alone(r) /\ pc'[r] = "query"
    BY <1>1, <1>7, <2>1 DEF Inv, RequestTyped, Alone, Untouched
  <2>3. Gate(r)'
    BY <1>1, <1>4, <2>2 DEF Request, Gate, Handle
  <2>4. Made(url[r], query[r], body[r]) /\ Seen(body[r], since, age[r])
    BY <1>5, BeginsMade DEF Seen, Blank, Body, Inv, RequestTyped
  <2>5. Request(r)'
    BY <1>1, <1>2, <1>4, <1>7, <2>2, <2>3, <2>4 DEF Request, Begun, Busy
  <2> QED BY <1>1, <1>3, <2>2, <2>5, LocalKeeps
<1> QED BY <1>6, <1>7 DEF Lookup
LEMMA JudgeKeeps ==
  ASSUME Inv, NEW r \in Requests, Judge(r)
  PROVE  Inv'
<1>1. /\ pc[r] = "judge" /\ Kept(r)
      /\ UNCHANGED <<issued, revoked, expired, asked, about, answer>>
  BY DEF Judge, registry
<1>2. since' = since
  BY <1>1 DEF Kept
<1>3. RegistryTyped'
  BY <1>1 DEF Inv, RegistryTyped
<1>4. url[r] \in Urls
  BY DEF Inv, RequestTyped
<1>5. CacheTyped' /\ CacheOK'
  <2>1. CASE UNCHANGED cache
    BY <1>2, <2>1 DEF Inv, CacheTyped, CacheOK
  <2>2. CASE cache' = [cache EXCEPT ![url[r]] = None]
    BY <1>2, <1>4, <2>2 DEF Inv, CacheTyped, CacheOK
  <2> QED BY <2>1, <2>2 DEF Judge
<1>6. CASE End(r)
  BY <1>1, <1>3, <1>5, <1>6, EndKeeps
<1>7. CASE Miss(r)
  <2>1. /\ pc' = [pc EXCEPT ![r] = "query"] /\ copy' = [copy EXCEPT ![r] = None]
        /\ UNCHANGED <<url, good, query, body, age>>
    BY <1>7 DEF Miss, Goto
  <2>2. copy' \in [Requests -> Entry \cup {None}]
    BY <2>1 DEF Inv, RequestTyped
  <2>3. RequestTyped' /\ Alone(r) /\ pc'[r] = "query" /\ copy'[r] = None
    BY <1>1, <2>1, <2>2 DEF Inv, RequestTyped, Alone, Untouched
  <2>4. Request(r)
    BY DEF Inv
  <2>5. Gate(r)'
    BY <1>1, <2>1, <2>3, <2>4 DEF Request, Gate, Handle
  <2>6. body[r] = Blank /\ query[r] = 1
    BY <1>1, <2>4 DEF Request, Begun
  <2>7. Made(url[r], query[r], body[r]) /\ Seen(body[r], since, age[r])
    BY <1>4, <2>6, BeginsMade DEF Seen, Blank, Body
  <2>8. Request(r)'
    BY <1>1, <1>2, <2>1, <2>3, <2>5, <2>7 DEF Request, Begun, Busy
  <2> QED BY <1>1, <1>3, <1>5, <2>3, <2>8, LocalKeeps
<1> QED BY <1>6, <1>7 DEF Judge

\* The key manager's part.
LEMMA AskTyped ==
  ASSUME RegistryTyped, NEW r \in Requests, NEW o, NEW k, Registry!Ask(r, o, k)
  PROVE  /\ RegistryTyped' /\ UNCHANGED <<issued, revoked, expired>>
         /\ asked'[r] = o /\ about'[r] = k
         /\ \A q \in Requests \ {r} :
               asked'[q] = asked[q] /\ about'[q] = about[q] /\ answer'[q] = answer[q]
BY DEF RegistryTyped, Registry!Ask

LEMMA TakeTyped ==
  ASSUME RegistryTyped, NEW r \in Requests, Registry!Take(r)
  PROVE  /\ RegistryTyped' /\ UNCHANGED <<issued, revoked, expired>>
         /\ \A q \in Requests \ {r} :
               asked'[q] = asked[q] /\ about'[q] = about[q] /\ answer'[q] = answer[q]
BY DEF RegistryTyped, Registry!Take

LEMMA ToldTyped ==
  ASSUME RegistryTyped, NEW r \in Requests,
         Registry!Check(r) \/ Registry!Revoke(r) \/ Registry!Unavailable(r)
  PROVE  /\ RegistryTyped'
         /\ issued' = issued /\ revoked \subseteq revoked' /\ expired \subseteq expired'
         /\ asked[r] = "validate" /\ answer'[r] = "ok" => Registry!Valid(about[r])
         /\ \A q \in Requests \ {r} :
               asked'[q] = asked[q] /\ about'[q] = about[q] /\ answer'[q] = answer[q]
<1>1. CASE Registry!Check(r)
  BY <1>1 DEF RegistryTyped, Registry!Check, Registry!Tell
<1>2. CASE Registry!Revoke(r)
  BY <1>2 DEF RegistryTyped, Registry!Revoke, Registry!Tell
<1>3. CASE Registry!Unavailable(r)
  BY <1>3 DEF RegistryTyped, Registry!Unavailable, Registry!Tell
<1> QED BY <1>1, <1>2, <1>3

LEMMA AuthKeeps ==
  ASSUME Inv, NEW r \in Requests, Auth(r)
  PROVE  Inv'
<1>1. /\ pc[r] = "auth" /\ pc' = [pc EXCEPT ![r] = "gate"] /\ Kept(r)
      /\ UNCHANGED <<url, good, cache, copy, query, body, age>>
      /\ Registry!Check(r) \/ Registry!Revoke(r) \/ Registry!Unavailable(r)
  BY DEF Auth, Goto, Same
<1>2. /\ RegistryTyped'
      /\ issued' = issued /\ revoked \subseteq revoked' /\ expired \subseteq expired'
      /\ asked[r] = "validate" /\ answer'[r] = "ok" => Registry!Valid(about[r])
      /\ \A q \in Requests \ {r} :
            asked'[q] = asked[q] /\ about'[q] = about[q] /\ answer'[q] = answer[q]
  BY <1>1, ToldTyped DEF Inv
<1>3. since' = since
  BY <1>1 DEF Kept
<1>4. RequestTyped' /\ Alone(r) /\ pc'[r] = "gate" /\ CacheTyped' /\ CacheOK'
  BY <1>1, <1>2, <1>3 DEF Inv, RequestTyped, Alone, Untouched, CacheTyped, CacheOK
<1>5. Request(r)
  BY DEF Inv
<1>6. Gate(r)'
  BY <1>1, <1>2, <1>4, <1>5 DEF Request, Gate, Handle
<1>7. Request(r)'
  BY <1>1, <1>3, <1>4, <1>5, <1>6 DEF Request, Begun, Busy
<1> QED BY <1>1, <1>2, <1>4, <1>7, LocalKeeps

LEMMA PassKeeps ==
  ASSUME Inv, NEW r \in Requests, Pass(r) \/ Told(r)
  PROVE  Inv'
<1>1. /\ pc[r] = "gate" /\ Registry!Take(r) /\ Kept(r) /\ UNCHANGED cache
  BY DEF Pass, Told
<1>2. /\ RegistryTyped' /\ UNCHANGED <<issued, revoked, expired>>
      /\ \A q \in Requests \ {r} :
            asked'[q] = asked[q] /\ about'[q] = about[q] /\ answer'[q] = answer[q]
  BY <1>1, TakeTyped DEF Inv
<1>3. since' = since
  BY <1>1 DEF Kept
<1>4. CacheTyped' /\ CacheOK'
  BY <1>1, <1>3 DEF Inv, CacheTyped, CacheOK
<1>5. CASE End(r)
  BY <1>1, <1>2, <1>4, <1>5, EndKeeps
<1>6. CASE answer[r] = "ok" /\ Into(r)
  <2>1. pc' = [pc EXCEPT ![r] = "route"] /\ UNCHANGED <<url, good, copy, query, body, age>>
    BY <1>6 DEF Into, Goto
  <2>2. RequestTyped' /\ Alone(r) /\ pc'[r] = "route"
    BY <1>2, <2>1 DEF Inv, RequestTyped, Alone, Untouched
  <2>3. Request(r)
    BY DEF Inv
  <2>4. Gate(r)'
    BY <1>1, <1>6, <2>1, <2>2, <2>3 DEF Request, Gate, Handle
  <2>5. Request(r)'
    BY <1>1, <1>3, <2>1, <2>2, <2>3, <2>4 DEF Request, Begun, Busy
  <2> QED BY <1>1, <1>2, <1>4, <2>2, <2>5, LocalKeeps
<1> QED BY <1>5, <1>6 DEF Pass, Told

LEMMA ComesKeep ==
  ASSUME Inv, NEW r \in Requests, NEW u \in Urls, NEW k,
         Enter(r, u, k) \/ Present(r, u, k)
  PROVE  Inv'
<1>1. PICK l \in {"route", "auth"} : Comes(r, u, k, l)
  BY DEF Enter, Present
<1> DEFINE g == k \in Keys /\ Registry!Valid(k)
<1>2. /\ pc' = [pc EXCEPT ![r] = l] /\ Fields(r, u, g)
      /\ Kept(r) /\ UNCHANGED cache
  BY <1>1 DEF Comes, Goto, Kept
<1>3. g \in BOOLEAN
  OBVIOUS
<1>4. /\ url' = [url EXCEPT ![r] = u] /\ good' = [good EXCEPT ![r] = g]
      /\ copy' = [copy EXCEPT ![r] = None] /\ query' = [query EXCEPT ![r] = 1]
      /\ body' = [body EXCEPT ![r] = Blank] /\ age' = [age EXCEPT ![r] = 0]
  BY <1>2 DEF Fields
<1>5. good' \in [Requests -> BOOLEAN] /\ good'[r] = g
  BY <1>3, <1>4, Zenon DEF Inv, RequestTyped
<1> HIDE DEF g
<1>6. RequestTyped'
  <2>1. pc' \in [Requests -> {"idle", "auth", "gate", "route", "judge", "query",
                              "told", "done"}]
    BY <1>2 DEF Inv, RequestTyped
  <2>2. /\ url' \in [Requests -> Urls] /\ good' \in [Requests -> BOOLEAN]
        /\ copy' \in [Requests -> Entry \cup {None}]
        /\ query' \in [Requests -> Nat \ {0}]
        /\ body' \in [Requests -> Bodies]
        /\ age' \in [Requests -> 0 .. HandlerMax]
    BY <1>2, <1>3, FieldsTyped
  <2> QED BY <2>1, <2>2 DEF RequestTyped
<1>7. /\ pc'[r] = l /\ url'[r] = u /\ copy'[r] = None /\ query'[r] = 1
      /\ body'[r] = Blank /\ age'[r] = 0
  BY <1>2, <1>4 DEF Inv, RequestTyped
<1>8. since' = since
  BY <1>2 DEF Kept
<1>9. CacheTyped' /\ CacheOK'
  BY <1>2, <1>8 DEF Inv, CacheTyped, CacheOK
<1>10. CASE Enter(r, u, k)
  <2>1. Public(u) /\ UNCHANGED <<issued, revoked, expired, asked, about, answer>>
        /\ pc'[r] = "route"
    BY <1>10 DEF Enter, registry, Comes, Goto, Inv, RequestTyped
  <2>2. Gate(r)'
    BY <1>7, <2>1 DEF Gate, Handle, Public
  <2>3. Request(r)'
    BY <1>7, <2>1, <2>2 DEF Request, Begun, Busy
  <2>4. Alone(r) /\ RegistryTyped'
    BY <1>2, <1>4, <2>1 DEF Alone, Untouched, Inv, RequestTyped, RegistryTyped
  <2> QED BY <1>2, <1>6, <1>9, <2>1, <2>3, <2>4, LocalKeeps
<1>11. CASE Present(r, u, k)
  <2>1. PICK o \in {"validate", "revokeKey"}, i \in Keys \cup {Parsed[u].of} :
           /\ Registry!Ask(r, o, i)
           /\ Router[u].gate = "key" => o = "validate" /\ i = k /\ k \in Keys
    BY <1>11 DEF Present
  <2>2. /\ RegistryTyped' /\ UNCHANGED <<issued, revoked, expired>>
        /\ asked'[r] = o /\ about'[r] = i
        /\ \A q \in Requests \ {r} :
              asked'[q] = asked[q] /\ about'[q] = about[q] /\ answer'[q] = answer[q]
    BY <2>1, AskTyped DEF Inv
  <2>3. pc'[r] = "auth"
    BY <1>11 DEF Present, Comes, Goto, Inv, RequestTyped
  <2>4. Gate(r)'
    BY <1>5, <1>7, <2>1, <2>2, <2>3 DEF Gate, Handle, Registry!Valid, g
  <2>5. Request(r)'
    BY <1>7, <2>3, <2>4 DEF Request, Begun, Busy
  <2>6. Alone(r)
    BY <1>2, <1>4, <2>2 DEF Alone, Untouched, Inv, RequestTyped
  <2> QED BY <1>2, <1>6, <1>9, <2>2, <2>5, <2>6, LocalKeeps
<1> QED BY <1>10, <1>11

LEMMA StepKeeps ==
  ASSUME Inv, NEW r \in Requests, Step(r)
  PROVE  Inv'
BY AuthKeeps, PassKeeps, LookupKeeps, JudgeKeeps, StoreKeeps, BadRequestKeeps,
   CountKeeps, PageKeeps, RowKeeps, MatchKeeps, MatchesKeeps, VersionsKeep,
   CurrentKeeps, ReadyKeeps, RespondKeeps DEF Step
-----------------------------------------------------------------------------
\* Around the requests.
LEMMA EnvironmentKeeps ==
  ASSUME Inv, Onward, CatalogTyped', RegistryTyped', CacheTyped',
         UNCHANGED request, UNCHANGED <<asked, about, answer>>,
         \A u \in Urls : cache'[u] \in {None, cache[u]}
  PROVE  Inv'
<1>1. \A q \in Requests : Untouched(q)
  BY DEF Untouched, request
<1>2. \A q \in Requests : Request(q)'
  BY <1>1, OthersKeep
<1>3. RequestTyped'
  BY DEF Inv, RequestTyped, request
<1> QED BY <1>2, <1>3, CacheKeeps DEF Inv

LEMMA ImportKeeps ==
  ASSUME Inv, NEW a \in Archives, Import(a) \/ Record(a)
  PROVE  Inv'
<1>1. /\ UNCHANGED request /\ UNCHANGED cache
      /\ UNCHANGED <<issued, revoked, expired, asked, about, answer>>
  BY DEF Import, Record, Others, registry
<1>2. since \in [Catalogs -> 0 .. Horizon + 1] /\ Horizon \in Nat /\ a \in Catalogs
  BY ApiAssumption DEF Inv, CatalogTyped, Catalogs, Horizon
<1>3. CatalogTyped' /\ \A c \in Catalogs : since'[c] <= since[c]
  <2>1. CASE Import(a)
    <3>1. /\ served' = a /\ ever' = ever \cup {a} /\ history' = history
          /\ since' = [since EXCEPT ![a] = 0]
      BY <2>1 DEF Import, Catalog!Install
    <3>2. since' \in [Catalogs -> 0 .. Horizon + 1] /\ since'[a] = 0
      BY <1>2, <3>1
    <3>3. \A c \in Catalogs : since'[c] <= since[c]
      BY <1>2, <3>1
    <3> QED BY <1>2, <3>1, <3>2, <3>3 DEF Inv, CatalogTyped
  <2>2. CASE Record(a)
    <3>1. /\ a \in ever /\ history' = history \cup {a} /\ UNCHANGED <<served, ever, since>>
      BY <2>2 DEF Record, Catalog!Record
    <3> QED BY <1>2, <3>1 DEF Inv, CatalogTyped
  <2> QED BY <2>1, <2>2
<1>4. RegistryTyped' /\ CacheTyped' /\ Onward
  BY <1>1, <1>3 DEF Inv, RegistryTyped, CacheTyped, Onward
<1> QED BY <1>1, <1>3, <1>4, EnvironmentKeeps

LEMMA ExpireKeeps ==
  ASSUME Inv, NEW k \in Keys, Expire(k)
  PROVE  Inv'
<1>1. /\ UNCHANGED request /\ UNCHANGED <<cache, since, served, history, ever>>
      /\ UNCHANGED <<issued, revoked, asked, about, answer>>
      /\ expired' = expired \cup {k}
  BY DEF Expire, catalog, Registry!Expire
<1>2. CatalogTyped' /\ RegistryTyped' /\ CacheTyped'
  BY <1>1 DEF Inv, CatalogTyped, RegistryTyped, CacheTyped
<1>3. Onward
  BY <1>1, SinceTyped DEF Inv, Onward
<1> QED BY <1>1, <1>2, <1>3, EnvironmentKeeps

LEMMA EvictKeeps ==
  ASSUME Inv, NEW u \in Urls, Evict(u)
  PROVE  Inv'
<1>1. /\ UNCHANGED request /\ UNCHANGED <<since, served, history, ever>>
      /\ UNCHANGED <<issued, revoked, expired, asked, about, answer>>
      /\ cache' = [cache EXCEPT ![u] = None]
  BY DEF Evict, catalog, registry
<1>2. CatalogTyped' /\ RegistryTyped' /\ CacheTyped'
  BY <1>1 DEF Inv, CatalogTyped, RegistryTyped, CacheTyped
<1>3. Onward
  BY <1>1, SinceTyped DEF Inv, Onward
<1>4. \A v \in Urls : cache'[v] \in {None, cache[v]}
  BY <1>1 DEF Inv, CacheTyped
<1> QED BY <1>1, <1>2, <1>3, <1>4, EnvironmentKeeps

LEMMA RestartKeeps ==
  ASSUME Inv, Restart
  PROVE  Inv'
<1>1. /\ UNCHANGED <<since, served, history, ever>>
      /\ pc' = [r \in Requests |-> "idle"] /\ copy' = [r \in Requests |-> None]
      /\ cache' = [u \in Urls |-> None]
  BY DEF Restart, catalog
<1>2. CatalogTyped' /\ CacheTyped' /\ CacheOK'
  BY <1>1 DEF Inv, CatalogTyped, CacheTyped, CacheOK
<1>3. RegistryTyped'
  BY DEF Inv, RegistryTyped, Restart, Registry!Die
<1>4. RequestTyped'
  BY BlankTyped, NowhereTyped, ApiAssumption DEF RequestTyped, Restart
<1>5. \A r \in Requests : pc'[r] = "idle" /\ copy'[r] = None
  BY <1>1
<1>6. \A r \in Requests : Request(r)'
  BY <1>5 DEF Request, Begun, Gate, Busy
<1> QED BY <1>2, <1>3, <1>4, <1>6 DEF Inv

\* A tick takes one from what an entry has left, and adds one to what it shows.
LEMMA OlderOK ==
  ASSUME NEW u, NEW e \in Entry \cup {None}, NEW s \in [Catalogs -> Int],
         NEW t \in [Catalogs -> Int], \A a \in Catalogs : t[a] <= s[a] + 1,
         e # None => EntryOK(u, e, s)
  PROVE  /\ Older(e) \in Entry \cup {None}
         /\ Older(e) # None => EntryOK(u, Older(e), t)
<1>1. CASE e = None
  BY <1>1 DEF Older
<1>2. CASE e # None
  <2>1. e \in Entry /\ e.body \in Bodies /\ e.left \in -1 .. Ttl /\ Ttl \in Nat
    BY <1>2, ApiAssumption DEF Entry
  <2>2. Older(e) = [left |-> IF e.left < 0 THEN e.left ELSE e.left - 1,
                    body |-> e.body]
    BY <1>2 DEF Older
  <2>3. (IF e.left < 0 THEN e.left ELSE e.left - 1) \in -1 .. Ttl
    BY <2>1
  <2>4. /\ Older(e) \in Entry /\ Older(e).body = e.body
        /\ Older(e).left >= 0 => e.left >= 0 /\ Older(e).left = e.left - 1
    BY <2>1, <2>2, <2>3 DEF Entry
  <2>5. EntryOK(u, e, s)
    BY <1>2
  <2>6. Older(e).left >= 0 => Seen(e.body, t, Horizon - Older(e).left)
    <3>1. Horizon \in Nat
      BY ApiAssumption DEF Horizon
    <3> QED BY <2>1, <2>4, <2>5, <3>1 DEF EntryOK, Seen, Bodies
  <2> QED BY <2>4, <2>5, <2>6 DEF EntryOK
<1> QED BY <1>1, <1>2

LEMMA TickKeeps ==
  ASSUME Inv, Tick
  PROVE  Inv'
<1>1. /\ UNCHANGED <<served, history, ever, pc, url, good, query, body>>
      /\ UNCHANGED <<issued, revoked, expired, asked, about, answer>>
  BY DEF Tick, catalog, registry
<1>2. /\ since \in [Catalogs -> 0 .. Horizon + 1] /\ served \in Catalogs
      /\ Horizon \in Nat
  BY ApiAssumption DEF Inv, CatalogTyped, Horizon
<1>3. since' = [a \in Catalogs |->
                  IF a = served THEN 0 ELSE Least(since[a] + 1, Horizon + 1)]
  BY DEF Tick
<1>4. since' \in [Catalogs -> 0 .. Horizon + 1] /\ since'[served] = 0
  BY <1>2, <1>3 DEF Least
<1>5. \A a \in Catalogs : since'[a] <= since[a] + 1
  BY <1>2, <1>3 DEF Least
<1>6. CatalogTyped' /\ RegistryTyped'
  BY <1>1, <1>4 DEF Inv, CatalogTyped, RegistryTyped
<1>7. since \in [Catalogs -> Int] /\ since' \in [Catalogs -> Int]
  BY <1>2, <1>4
<1>8. CacheTyped' /\ CacheOK'
  <2>1. cache' = [u \in Urls |-> Older(cache[u])]
    BY DEF Tick
  <2>2. \A u \in Urls : /\ cache[u] \in Entry \cup {None}
                        /\ cache[u] # None => EntryOK(u, cache[u], since)
    BY DEF Inv, CacheTyped, CacheOK
  <2>3. \A u \in Urls : /\ Older(cache[u]) \in Entry \cup {None}
                        /\ Older(cache[u]) # None => EntryOK(u, Older(cache[u]), since')
    BY <1>5, <1>7, <2>2, OlderOK
  <2> QED BY <2>1, <2>3 DEF CacheTyped, CacheOK
<1>9. \A r \in Requests : /\ copy'[r] = Older(copy[r])
                          /\ Older(copy[r]) \in Entry \cup {None}
                          /\ Older(copy[r]) # None => EntryOK(url[r], Older(copy[r]), since')
  <2>1. copy' = [r \in Requests |-> Older(copy[r])]
    BY DEF Tick
  <2>2. \A r \in Requests : /\ copy[r] \in Entry \cup {None}
                            /\ copy[r] # None => EntryOK(url[r], copy[r], since)
    BY DEF Inv, RequestTyped, Request
  <2> QED BY <1>5, <1>7, <2>1, <2>2, OlderOK
<1>10. age' = [r \in Requests |-> IF Busy(r) THEN age[r] + 1 ELSE age[r]]
       /\ \A r \in Requests : Busy(r) => age[r] < HandlerMax
  BY DEF Tick
<1>11. age' \in [Requests -> 0 .. HandlerMax]
  BY <1>10, ApiAssumption DEF Inv, RequestTyped
<1>12. copy' \in [Requests -> Entry \cup {None}]
  BY <1>9 DEF Tick
<1>13. RequestTyped'
  BY <1>1, <1>11, <1>12 DEF Inv, RequestTyped
<1>14. ASSUME NEW r \in Requests PROVE Request(r)'
  <2>1. Request(r)
    BY DEF Inv
  <2>2. Begun(r)'
    BY <1>1, <1>10, <2>1 DEF Request, Begun, Busy
  <2>3. Gate(r)'
    BY <1>1, <2>1 DEF Request, Gate, Handle, Registry!Valid
  <2>4. (Busy(r) => Seen(body[r], since, age[r]))'
    <3>1. SUFFICES ASSUME Busy(r) PROVE Seen(body[r], since', age[r] + 1)
      BY <1>1, <1>10 DEF Busy
    <3>2. Seen(body[r], since, age[r]) /\ body[r] \in Bodies /\ age[r] \in 0 .. HandlerMax
      BY <2>1, <3>1 DEF Request, Inv, RequestTyped
    <3> QED BY <1>5, <1>7, <3>2, ApiAssumption DEF Seen, Bodies
  <2>5. (copy[r] # None => EntryOK(url[r], copy[r], since))'
    BY <1>1, <1>9
  <2> QED BY <1>1, <2>1, <2>2, <2>3, <2>4, <2>5 DEF Request
<1> QED BY <1>6, <1>8, <1>13, <1>14 DEF Inv

-----------------------------------------------------------------------------
LEMMA InitKeeps == Init => Inv
<1> SUFFICES ASSUME Init PROVE Inv
  OBVIOUS
<1>1. CatalogTyped
  BY ApiAssumption DEF Init, Catalog!Init, CatalogTyped, Catalogs, Horizon
<1>2. RegistryTyped
  BY DEF Init, Registry!Init, RegistryTyped
<1>3. RequestTyped
  BY BlankTyped, NowhereTyped, ApiAssumption DEF Init, RequestTyped
<1>4. CacheTyped /\ CacheOK
  BY DEF Init, CacheTyped, CacheOK
<1>5. \A r \in Requests : pc[r] = "idle" /\ copy[r] = None
  BY DEF Init
<1>6. \A r \in Requests : Request(r)
  BY <1>5 DEF Request, Begun, Gate, Busy
<1> QED BY <1>1, <1>2, <1>3, <1>4, <1>6 DEF Inv

LEMMA NextKeeps == Inv /\ [Next]_vars => Inv'
<1> SUFFICES ASSUME Inv, [Next]_vars PROVE Inv'
  OBVIOUS
<1>1. CASE Next
  BY <1>1, ComesKeep, StepKeeps, ImportKeeps, ExpireKeeps, EvictKeeps, RestartKeeps,
     TickKeeps DEF Next
<1>2. CASE UNCHANGED vars
  BY <1>2 DEF vars, catalog, registry, request, Inv, CatalogTyped, RegistryTyped,
     RequestTyped, CacheTyped, CacheOK, Request, Begun, Gate, Busy, Handle,
     Registry!Valid
<1> QED BY <1>1, <1>2

THEOREM Invariance == Spec => []Inv
BY InitKeeps, NextKeeps, PTL DEF Spec
-----------------------------------------------------------------------------
\* The properties.  A query moves no request; an answer is given by Judge or
\* by Respond.
LEMMA HandlersHave ==
  ASSUME NEW r, \/ BadRequest(r) \/ Count(r) \/ Page(r) \/ Row(r) \/ Match(r)
                \/ Matches(r) \/ Versions(r) \/ Current(r) \/ Ping(r) \/ Items(r)
                \/ Latest(r)
  PROVE  UNCHANGED pc /\ pc[r] = "query"
<1>1. \A b, n : Has(r, b, n) => UNCHANGED pc
  BY DEF Has
<1>2. SomeRows(r) => UNCHANGED pc
  BY <1>1 DEF SomeRows, Shown
<1>3. \A status : Fail(r, status) => UNCHANGED pc
  BY <1>1 DEF Fail
<1>4. CASE BadRequest(r)
  BY <1>1, <1>2, <1>3, <1>4, Zenon DEF BadRequest
<1>5. CASE Count(r)
  BY <1>1, <1>2, <1>3, <1>5, Zenon DEF Count, AtQuery
<1>6. CASE Page(r)
  BY <1>1, <1>2, <1>3, <1>6, Zenon DEF Page, AtQuery
<1>7. CASE Row(r)
  BY <1>1, <1>2, <1>3, <1>7, Zenon DEF Row, AtQuery
<1>8. CASE Match(r)
  BY <1>1, <1>2, <1>3, <1>8, Zenon DEF Match, AtQuery
<1>9. CASE Matches(r)
  BY <1>1, <1>2, <1>3, <1>9, Zenon DEF Matches, AtQuery
<1>10. CASE Versions(r)
  BY <1>1, <1>2, <1>3, <1>10, Zenon DEF Versions, AtQuery
<1>11. CASE Current(r)
  BY <1>1, <1>2, <1>3, <1>11, Zenon DEF Current, AtQuery
<1>12. CASE Ping(r)
  BY <1>1, <1>2, <1>3, <1>12, Zenon DEF Ping, AtQuery
<1>13. CASE Items(r)
  BY <1>1, <1>2, <1>3, <1>13, Zenon DEF Items, AtQuery
<1>14. CASE Latest(r)
  BY <1>1, <1>2, <1>3, <1>14, Zenon DEF Latest, AtQuery
<1> QED BY <1>4, <1>5, <1>6, <1>7, <1>8, <1>9, <1>10, <1>11, <1>12, <1>13, <1>14

LEMMA OneMoves ==
  ASSUME Inv, NEW q \in Requests, Step(q), NEW r \in Requests, r # q
  PROVE  pc'[r] = pc[r]
<1> USE DEF Inv, RequestTyped
<1>1. CASE \E l \in {"gate", "route", "judge", "query", "told", "done"} : Goto(q, l)
  BY <1>1 DEF Goto
<1>2. CASE UNCHANGED pc
  BY <1>2
<1>3. CASE Auth(q) \/ Pass(q) \/ Told(q) \/ Lookup(q) \/ Judge(q) \/ Store(q) \/ Respond(q)
  <2>1. \E l \in {"gate", "route", "judge", "query", "told", "done"} : Goto(q, l)
    BY <1>3 DEF Auth, Pass, Told, Lookup, Judge, Store, Respond, End, Into, Miss
  <2> QED BY <1>1, <2>1
<1>4. CASE \/ BadRequest(q) \/ Count(q) \/ Page(q) \/ Row(q) \/ Match(q) \/ Matches(q)
           \/ Versions(q) \/ Current(q) \/ Ping(q) \/ Items(q) \/ Latest(q)
  BY <1>2, <1>4, HandlersHave
<1> QED BY <1>3, <1>4 DEF Step

LEMMA AnswersCome ==
  ASSUME Inv, Next, NEW r \in Requests,
         pc[r] \in {"judge", "query"}, pc'[r] \in {"told", "done"}
  PROVE  Judge(r) \/ Respond(r)
<1> USE DEF Inv, RequestTyped
<1>1. ASSUME NEW q \in Requests, Step(q) PROVE Judge(r) \/ Respond(r)
  <2>1. q = r
    BY <1>1, OneMoves
  <2>2. CASE Auth(r) \/ Pass(r) \/ Told(r) \/ Lookup(r) \/ Store(r)
    BY <2>2 DEF Auth, Pass, Told, Lookup, Store
  <2>3. CASE \/ BadRequest(r) \/ Count(r) \/ Page(r) \/ Row(r) \/ Match(r) \/ Matches(r)
             \/ Versions(r) \/ Current(r) \/ Ping(r) \/ Items(r) \/ Latest(r)
    BY <2>3, HandlersHave
  <2> QED BY <1>1, <2>1, <2>2, <2>3 DEF Step
<1>2. ASSUME NEW q \in Requests, NEW u \in Urls, NEW k,
             Enter(q, u, k) \/ Present(q, u, k)
      PROVE  FALSE
  <2>1. /\ pc[q] \in {"idle", "done"}
        /\ \E l \in {"route", "auth"} : pc' = [pc EXCEPT ![q] = l]
    BY <1>2 DEF Enter, Present, Comes, Goto
  <2> QED BY <2>1
<1>3. CASE (\E a \in Archives : Import(a) \/ Record(a)) \/ (\E k \in Keys : Expire(k))
           \/ (\E u \in Urls : Evict(u)) \/ Tick
  <2>1. pc' = pc
    BY <1>3 DEF Import, Record, Others, Expire, Evict, Tick, request
  <2> QED BY <2>1
<1>4. CASE Restart
  BY <1>4 DEF Restart
<1> QED BY <1>1, <1>2, <1>3, <1>4 DEF Next

\* What is answered, and to whom.
LEMMA AnswerFacts ==
  ASSUME Inv, Next, NEW r \in Requests, Handled(r) \/ Hit(r)
  PROVE  /\ url[r] \in Urls /\ Gate(r)
         /\ Handled(r) => pc[r] = "query" /\ Answer(r) = body[r]
         /\ Hit(r) => pc[r] = "judge" /\ Answer(r) = copy[r].body
         /\ Handled(r) => Final(url[r], body[r]) /\ Seen(body[r], since, HandlerMax)
         /\ Hit(r) => /\ EntryOK(url[r], copy[r], since) /\ copy[r] \in Entry
                      /\ Seen(copy[r].body, since, Horizon)
<1>1. Judge(r) \/ Respond(r)
  BY AnswersCome DEF Handled, Hit
<1>2. url[r] \in Urls /\ Gate(r) /\ Request(r)
  BY DEF Inv, RequestTyped, Request
<1>3. ASSUME Handled(r)
      PROVE  Final(url[r], body[r]) /\ Seen(body[r], since, HandlerMax)
  <2>1. pc[r] = "query" /\ Respond(r)
    BY <1>1, <1>3 DEF Handled, Judge
  <2>2. Final(url[r], body[r])
    BY <1>2, <2>1 DEF Request, Made, Respond, Handle
  <2>3. Seen(body[r], since, age[r]) /\ body[r] \in Bodies /\ age[r] \in 0 .. HandlerMax
        /\ since \in [Catalogs -> Int]
    BY <1>2, <2>1, SinceTyped DEF Request, Busy, Inv, RequestTyped
  <2> QED BY <2>2, <2>3, ApiAssumption DEF Seen, Bodies
<1>4. ASSUME Hit(r)
      PROVE  /\ EntryOK(url[r], copy[r], since) /\ copy[r] \in Entry
             /\ Seen(copy[r].body, since, Horizon)
  <2>1. pc[r] = "judge" /\ pc'[r] = "done" /\ Judge(r)
    BY <1>1, <1>4 DEF Hit, Respond
  <2>2. copy[r] # None /\ copy[r].left >= 0
    BY <2>1 DEF Judge, Miss, Goto, Inv, RequestTyped
  <2>3. EntryOK(url[r], copy[r], since) /\ copy[r] \in Entry
        /\ since \in [Catalogs -> Int]
    BY <1>2, <2>2, SinceTyped DEF Request, Inv, RequestTyped
  <2>4. Seen(copy[r].body, since, Horizon - copy[r].left) /\ copy[r].body \in Bodies
        /\ copy[r].left \in Int /\ Horizon \in Int
    BY <2>2, <2>3, ApiAssumption DEF EntryOK, Entry, Horizon
  <2> QED BY <2>2, <2>3, <2>4 DEF Seen, Bodies
<1> QED BY <1>2, <1>3, <1>4 DEF Handled, Hit, Answer

\* Every variable has its type, for any requests, keys, URLs and archives.
THEOREM TypeCorrect == Spec => []TypeOK
BY Invariance, InvTypeOK, PTL

\* No answer, cached or not, shows what was replaced longer ago than CACHE_TTL
\* and one handler take (middleware/cache.go): for any such times.
THEOREM FreshAnswers == Spec => Fresh
<1>1. Inv /\ [Next]_vars => [\A r \in Requests : IsYoung(r)]_vars
  <2>1. ASSUME Inv, Next, NEW r \in Requests PROVE IsYoung(r)
    BY <2>1, AnswerFacts DEF IsYoung, EntryOK, Seen
  <2> QED BY <2>1
<1> QED BY <1>1, Invariance, PTL DEF Spec, Fresh

\* The page a handler makes of its parameters (parsePagination, paginationArgs,
\* resolveItems, resolveSearch) is one the URL allows, for any parameters.
LEMMA PageIsAsked ==
  ASSUME NEW u, u.limit \in Given, u.offset \in Given,
         u.path \in RestLists \cup GraphQLLists, ~Unlimited(u),
         u.path = "search" => u.offset = Absent
  PROVE  LET page == Route(u).page IN
         /\ page # NoPage /\ (u.path \in RestLists => Route(u).cached)
         /\ \A n \in Nat :
               \E k \in Lengths(u) : PageRows(page, n) = RowsAsked(u, k, n)
<1> DEFINE Good(page) == /\ page.limit \in Nat /\ page.limit \in Lengths(u)
                         /\ page.offset \in Int
                         /\ Skipped(u) = IF page.offset < 0 THEN 0 ELSE page.offset
<1>1. ASSUME NEW page, Good(page)
      PROVE  /\ page # NoPage
             /\ \A n \in Nat :
                   \E k \in Lengths(u) : PageRows(page, n) = RowsAsked(u, k, n)
  <2>1. \A n \in Nat : PageRows(page, n) = RowsAsked(u, page.limit, n)
    BY <1>1 DEF PageRows, RowsAsked, Least
  <2>2. NoPage.limit = -1
    BY DEF NoPage
  <2> QED BY <1>1, <2>1, <2>2
<1>2. ASSUME Max(u) \in Nat, 50 <= Max(u)
      PROVE  /\ Good(ParsePagination(u.limit, u.offset, 50, Max(u)))
             /\ Good(PaginationArgs(u.limit, u.offset, 50, Max(u)))
  <2>1. CASE u.limit = Absent
    BY <1>2, <2>1, ApiAssumption
       DEF ParsePagination, PaginationArgs, Or, Least, Given, Skipped, Lengths
  <2>2. CASE u.limit \in Int
    BY <1>2, <2>2, ApiAssumption
       DEF ParsePagination, PaginationArgs, Or, Least, Given, Skipped, Lengths
  <2> QED BY <2>1, <2>2 DEF Given
<1> HIDE DEF Good
<1>3. SUFFICES Good(Route(u).page) /\ (u.path \in RestLists => Route(u).cached)
  BY <1>1
<1>4. CASE u.path \in RestLists \ {"/api/v1/search"}
  <2>1. ASSUME Route(u) = Paged(u, Max(u)), Max(u) \in Nat, 50 <= Max(u)
        PROVE  Good(Route(u).page) /\ Route(u).cached
    BY <1>2, <2>1 DEF Paged, Handler
  <2>2. CASE u.path = "/api/v1/items"
    <3>1. Route(u) = Paged(u, 100) /\ Max(u) = 100
      BY <2>2 DEF Route, List, Max
    <3> QED BY <2>1, <3>1
  <2>3. CASE u.path = "/api/v1/categories"
    <3>1. Route(u) = Paged(u, 200) /\ Max(u) = 200
      BY <2>3 DEF Route, ListCategories, Max
    <3> QED BY <2>1, <3>1
  <2>4. CASE u.path = "/api/v1/groups"
    <3>1. Route(u) = Paged(u, 500) /\ Max(u) = 500
      BY <2>4 DEF Route, ListGroups, Max
    <3> QED BY <2>1, <3>1
  <2>5. CASE u.path = "/api/v1/categories/{id}/groups"
    <3>1. Route(u) = ListGroups(u) /\ Max(u) = 500
      BY <2>5 DEF Route, ListCategoryGroups, Max
    <3>2. Route(u) = Paged(u, 500)
      BY <3>1 DEF ListGroups
    <3> QED BY <2>1, <3>1, <3>2
  <2> QED BY <1>4, <2>2, <2>3, <2>4, <2>5 DEF RestLists
<1>5. CASE u.path = "/api/v1/search"
  <2>1. Route(u) = Search(u) /\ Max(u) = 100
    BY <1>5 DEF Route, Max
  <2> QED BY <1>2, <2>1 DEF Search, Handler
<1>6. CASE u.path \in {"categories", "groups"}
  <2>1. ASSUME Route(u).page = PaginationArgs(u.limit, u.offset, 50, Max(u)),
               Max(u) \in Nat, 50 <= Max(u)
        PROVE  Good(Route(u).page)
    BY <1>2, <2>1
  <2>2. CASE u.path = "categories"
    <3>1. Max(u) = 200
      BY <2>2 DEF Max
    <3>2. Route(u).page = PaginationArgs(u.limit, u.offset, 50, Max(u))
      BY <2>2, <3>1 DEF Route, ResolveCategories, GraphQL, Handler
    <3> QED BY <2>1, <2>2, <3>1, <3>2 DEF RestLists
  <2>3. CASE u.path = "groups"
    <3>1. Max(u) = 500
      BY <2>3 DEF Max
    <3>2. Route(u).page = PaginationArgs(u.limit, u.offset, 50, Max(u))
      BY <2>3, <3>1 DEF Route, ResolveGroups, GraphQL, Handler
    <3> QED BY <2>1, <2>3, <3>1, <3>2 DEF RestLists
  <2> QED BY <1>6, <2>2, <2>3 DEF RestLists
<1>7. CASE u.path = "items"
  <2>1. Route(u).page = ItemsArgs(u.limit, u.offset) /\ Max(u) = 100
    BY <1>7 DEF Route, ResolveItems, GraphQL, Handler, Max
  <2>2. /\ ItemsArgs(u.limit, u.offset).limit
              = PaginationArgs(u.limit, u.offset, 50, 100).limit
        /\ ItemsArgs(u.limit, u.offset).offset = Or(u.offset, 0)
    BY DEF ItemsArgs, PaginationArgs
  <2>3. Or(u.offset, 0) \in Int
    BY DEF Or, Given
  <2> QED BY <1>2, <1>7, <2>1, <2>2, <2>3 DEF Good, Skipped, RestLists
<1>8. CASE u.path = "search"
  <2>1. Route(u).page = SearchArgs(u.limit) /\ Max(u) = 100
    BY <1>8 DEF Route, ResolveSearch, GraphQL, Handler, Max
  <2>2. Or(u.limit, 50) \in Nat /\ Skipped(u) = 0
    BY <1>8 DEF Unlimited, Or, Given, Skipped
  <2> QED BY <1>8, <2>1, <2>2 DEF Good, SearchArgs, Least, Lengths, RestLists
<1> QED BY <1>4, <1>5, <1>6, <1>7, <1>8 DEF RestLists, GraphQLLists

LEMMA ListsAsk ==
  ASSUME NEW u, u.path \in RestLists \cup GraphQLLists
  PROVE  Route(u).queries # <<>>
<1>1. Route(u).queries \in {<<"count", "page">>, <<"match", "matches">>, <<"page">>}
  BY DEF RestLists, GraphQLLists, Route, List, ListCategories, ListGroups,
         ListCategoryGroups, Paged, Search, ResolveItems, ResolveSearch,
         ResolveCategories, ResolveGroups, GraphQL, Handler
<1>2. /\ Len(<<"count", "page">>) = 2 /\ Len(<<"match", "matches">>) = 2
      /\ Len(<<"page">>) = 1 /\ Len(<<>>) = 0
  OBVIOUS
<1> QED BY <1>1, <1>2

\* A list without a fault shows the rows its URL asks for (handlers/items.go,
\* handlers/taxonomy.go, graphql/resolvers.go): for tables of any size, any
\* limit and any offset, but for a search over GraphQL with a negative limit.
THEOREM ExactLists == Spec => Exact
<1>1. Inv /\ [Next]_vars => [\A r \in Requests : IsExact(r)]_vars
  <2>1. ASSUME Inv, Next, NEW r \in Requests PROVE IsExact(r)
    <3> DEFINE u == Parsed[url[r]]
               b == Answer(r)
               N(a) == Size[u.of][a]
    <3>1. SUFFICES ASSUME NEW a \in Catalogs,
                          Data(r), u.path \in RestLists \cup GraphQLLists,
                          ~Unlimited(u), b.clean, b.read = {a}
                   PROVE  /\ \E k \in Lengths(u) : RowsShown(b) = RowsAsked(u, k, N(a))
                          /\ u.path \in RestLists => b.total = N(a)
      BY DEF IsExact
    <3>2. Final(url[r], b) /\ b.status = 200
      BY <2>1, <3>1, AnswerFacts DEF Data, EntryOK
    <3>3. url[r] \in Urls /\ Router[url[r]] = Route(u)
      BY <2>1, <3>1, AnswerFacts DEF Data, Router
    <3>4. /\ Route(u).page # NoPage
          /\ u.path \in RestLists => Route(u).cached
          /\ \A n \in Nat :
                \E k \in Lengths(u) : PageRows(Route(u).page, n) = RowsAsked(u, k, n)
      BY <3>1, <3>3, PageIsAsked, ApiAssumption
    <3>5. N(a) \in Nat
      <4>1. u.of # Absent
        BY <3>1, <3>2, <3>3, <3>4 DEF Final
      <4>2. Route(u).queries # <<>>
        BY <3>1, ListsAsk
      <4> QED BY <3>3, <4>1, <4>2, ApiAssumption
    <3> QED BY <3>1, <3>2, <3>3, <3>4, <3>5 DEF Final
  <2> QED BY <2>1
<1> QED BY <1>1, Invariance, PTL DEF Spec, Exact

\* Neither the handlers nor the cache answer a request whose key was not valid
\* when it came (middleware/auth.go before middleware/cache.go).
THEOREM AdmittedOnly == Spec => Admitted
<1>1. Inv /\ [Next]_vars => [\A r \in Requests : IsAdmitted(r)]_vars
  <2>1. ASSUME Inv, Next, NEW r \in Requests PROVE IsAdmitted(r)
    BY <2>1, AnswerFacts DEF IsAdmitted, Data, Handled, Hit, Gate
  <2> QED BY <2>1
<1> QED BY <1>1, Invariance, PTL DEF Spec, Admitted

-----------------------------------------------------------------------------
\* The promises Api is built on.  What is no answer of the manager to a
\* request, and no request to it, leaves the registry alone.
LEMMA RegistryKept ==
  ASSUME NEW r, \/ Lookup(r) \/ Judge(r) \/ Store(r) \/ Respond(r)
                \/ BadRequest(r) \/ Count(r) \/ Page(r) \/ Row(r) \/ Match(r)
                \/ Matches(r) \/ Versions(r) \/ Current(r) \/ Ping(r) \/ Items(r)
                \/ Latest(r)
  PROVE  UNCHANGED registry
BY DEF Lookup, Judge, Store, Respond, BadRequest, Count, Page, SomeRows, Shown, Row,
   Match, Matches, Versions, Current, Ping, Items, Latest, Has, Fail

LEMMA CatalogKept ==
  ASSUME NEW r, Step(r)
  PROVE  UNCHANGED catalog
BY DEF Step, Auth, Pass, Told, Lookup, Judge, Store, Respond, BadRequest, Count, Page,
   SomeRows, Shown, Row, Match, Matches, Versions, Current, Ping, Items, Latest, Has,
   Fail, Same, Kept

\* Whatever the router, the cache and the handlers do, for any requests: the
\* catalogue is one that SdeCatalog allows, and every question of Auth and of
\* AdminAuth to the key manager one that KeyRegistry answers, a restart of the
\* server included. These are the specifications that the pipeline and the
\* key manager are proved to implement.
THEOREM OnPromises == Spec => Catalog!Spec /\ Registry!Spec
<1>1. Init => Catalog!Init /\ Registry!Init
  BY DEF Init
<1>2. ASSUME [Next]_vars
      PROVE  [Catalog!Next]_Catalog!cvars
  <2>1. CASE UNCHANGED catalog
    BY <2>1 DEF catalog, Catalog!cvars
  <2>2. ASSUME NEW r \in Requests, NEW u \in Urls, NEW k, Enter(r, u, k) \/ Present(r, u, k)
        PROVE  UNCHANGED catalog
    BY <2>2 DEF Enter, Present, Comes
  <2>3. ASSUME NEW a \in Archives, Import(a) \/ Record(a)
        PROVE  Catalog!Next
    BY <2>3 DEF Import, Record, Catalog!Next
  <2>4. ASSUME \/ \E k \in Keys : Expire(k)
               \/ \E u \in Urls : Evict(u)
               \/ Restart \/ Tick
        PROVE  UNCHANGED catalog
    BY <2>4 DEF Expire, Evict, Restart, Tick
  <2>5. UNCHANGED vars => UNCHANGED catalog
    BY DEF vars
  <2> QED BY <1>2, <2>1, <2>2, <2>3, <2>4, <2>5, CatalogKept DEF Next
<1>3. ASSUME [Next]_vars
      PROVE  [Registry!Next]_Registry!rvars
  <2>1. CASE UNCHANGED registry
    BY <2>1 DEF registry, Registry!rvars
  <2>2. ASSUME NEW r \in Requests, NEW u \in Urls, NEW k, Present(r, u, k)
        PROVE  Registry!Next
    <3>1. PICK o \in {"validate", "revokeKey"}, i \in Keys \cup {NoKey} : Registry!Ask(r, o, i)
      BY <2>2, ApiAssumption DEF Present
    <3> QED BY <3>1 DEF Registry!Next
  <2>3. ASSUME NEW r \in Requests, NEW u \in Urls, NEW k, Enter(r, u, k)
        PROVE  UNCHANGED registry
    BY <2>3 DEF Enter
  <2>4. ASSUME NEW r \in Requests, Step(r)
        PROVE  Registry!Next \/ UNCHANGED registry
    <3>1. CASE Auth(r)
      BY <3>1 DEF Auth, Registry!Next
    <3>2. CASE Pass(r) \/ Told(r)
      BY <3>2 DEF Pass, Told, Registry!Next
    <3> QED BY <2>4, <3>1, <3>2, RegistryKept DEF Step
  <2>5. ASSUME NEW k \in Keys, Expire(k)
        PROVE  Registry!Next
    BY <2>5 DEF Expire, Registry!Next
  <2>6. Restart => Registry!Next
    BY DEF Restart, Registry!Next
  <2>7. ASSUME \/ \E a \in Archives : Import(a) \/ Record(a)
               \/ \E u \in Urls : Evict(u)
               \/ Tick
        PROVE  UNCHANGED registry
    BY <2>7 DEF Import, Record, Others, Evict, Tick
  <2>8. UNCHANGED vars => UNCHANGED registry
    BY DEF vars
  <2> QED BY <1>3, <2>1, <2>2, <2>3, <2>4, <2>5, <2>6, <2>7, <2>8 DEF Next
<1> QED BY <1>1, <1>2, <1>3, PTL DEF Spec, Catalog!Spec, Registry!Spec
=============================================================================

----------------------------- MODULE Endpoints -----------------------------
(***************************************************************************)
(* The routes of cmd/server/main.go and what each handler asks of the      *)
(* database, in which order; the page a handler makes of its parameters;   *)
(* the URLs the Go SDK asks for.  Nothing here has a state.                *)
(*                                                                         *)
(* A query parameter is an integer or Absent, which also stands for one    *)
(* that is no number.  A page is a piece of a table: the offset it begins  *)
(* behind and the number of its rows; which rows these are, the archive    *)
(* they come from tells.                                                   *)
(***************************************************************************)
EXTENDS Integers, Sequences

CONSTANT Absent

Given == Int \cup {Absent}
Or(x, default) == IF x = Absent THEN default ELSE x
Least(x, y) == IF x < y THEN x ELSE y

\* A REST handler takes its default for every limit it does not like.
\* Wrong...: a mistake the code could have had, for the operator after it.
WrongParsePagination(limit, offset, default, max) ==
    [limit  |-> IF limit # Absent /\ 0 < limit /\ limit < max THEN limit ELSE default,
     offset |-> IF offset # Absent /\ 0 <= offset THEN offset ELSE 0]
ParsePagination(limit, offset, default, max) ==
    [limit  |-> IF limit # Absent /\ 0 < limit /\ limit <= max THEN limit ELSE default,
     offset |-> IF offset # Absent /\ 0 <= offset THEN offset ELSE 0]

\* A GraphQL list caps a limit that is too large, and takes its default for
\* one that is too small.
PaginationArgs(limit, offset, default, max) ==
    LET capped == Least(Or(limit, default), max) IN
    [limit  |-> IF capped < 1 THEN default ELSE capped,
     offset |-> IF Or(offset, 0) < 0 THEN 0 ELSE Or(offset, 0)]

\* resolveItems hands a negative offset on, resolveSearch a negative limit.
ItemsArgs(limit, offset) == [PaginationArgs(limit, offset, 50, 100)
                                EXCEPT !.offset = Or(offset, 0)]
SearchArgs(limit) == [limit |-> Least(Or(limit, 50), 100), offset |-> 0]

\* LIMIT and OFFSET of SQLite, on n rows: a negative limit is none.
WrongSlice(n, page) ==
    [from |-> page.offset, count |-> Least(page.limit, n - page.offset)]
Slice(n, page) ==
    LET from == IF page.offset < 0 THEN 0 ELSE Least(page.offset, n)
        rest == n - from
    IN  [from |-> from,
         count |-> IF page.limit < 0 THEN rest ELSE Least(page.limit, rest)]

-----------------------------------------------------------------------------
\* A URL: a path, what of the data it is about (a table, the groups of a
\* category, the items with a word, one row, a key), and its parameters.
Url(path, of, limit, offset) ==
    [path |-> path, of |-> of, limit |-> limit, offset |-> offset]

\* A handler: who may call it, whether its answers are cached, its queries.
NoPage == [limit |-> -1, offset |-> 0]
Handler(gate, cached, queries, page) ==
    [gate |-> gate, cached |-> cached, queries |-> queries, page |-> page]

Paged(u, max) == Handler("key", TRUE, <<"count", "page">>,
                         ParsePagination(u.limit, u.offset, 50, max))
List(u)           == Paged(u, 100)
ListCategories(u) == Paged(u, 200)
ListGroups(u)     == Paged(u, 500)
ListCategoryGroups(u) == ListGroups(u)

Search(u) == Handler("key", TRUE, <<"match", "matches">>,
                     ParsePagination(u.limit, u.offset, 50, 100))

Get(u)         == Handler("key", TRUE, <<"row">>, NoPage)
GetCategory(u) == Get(u)
GetGroup(u)    == Get(u)

GetDiff(u)      == Handler("key", TRUE, <<>>, NoPage)
GetChangelog(u) == Handler("key", TRUE, <<"versions", "current">>, NoPage)

\* Health and Version ask nothing of the database.
Health(u)  == Handler("none", FALSE, <<>>, NoPage)
Version(u) == Handler("none", FALSE, <<>>, NoPage)
Ready(u)   == Handler("none", FALSE, <<"ping", "items", "latest">>, NoPage)

\* The status of a GraphQL answer is its outcome, 404 for a null and 500 for
\* an error: the HTTP status of each is 200.
GraphQL(page) == Handler("key", FALSE, <<"page">>, page)
ResolveItems(u)      == GraphQL(ItemsArgs(u.limit, u.offset))
ResolveSearch(u)     == GraphQL(SearchArgs(u.limit))
ResolveCategories(u) == GraphQL(PaginationArgs(u.limit, u.offset, 50, 200))
ResolveGroups(u)     == GraphQL(PaginationArgs(u.limit, u.offset, 50, 500))
ResolveItem(u)     == Handler("key", FALSE, <<"row">>, NoPage)
ResolveCategory(u) == ResolveItem(u)
ResolveGroup(u)    == ResolveItem(u)

RevokeKey(u) == Handler("admin", FALSE, <<>>, NoPage)

Paths == {"/health", "/ready", "/version", "/api/admin/keys/{id}",
          "/api/v1/items", "/api/v1/items/{id}", "/api/v1/search",
          "/api/v1/categories", "/api/v1/categories/{id}",
          "/api/v1/categories/{id}/groups", "/api/v1/groups", "/api/v1/groups/{id}",
          "/api/v1/diff", "/api/v1/changelog",
          "items", "search", "categories", "groups", "item", "category", "group"}
Route(u) ==
    CASE u.path = "/health"                   -> Health(u)
      [] u.path = "/ready"                    -> Ready(u)
      [] u.path = "/version"                  -> Version(u)
      [] u.path = "/api/admin/keys/{id}"      -> RevokeKey(u)
      [] u.path = "/api/v1/items"             -> List(u)
      [] u.path = "/api/v1/items/{id}"        -> Get(u)
      [] u.path = "/api/v1/search"            -> Search(u)
      [] u.path = "/api/v1/categories"        -> ListCategories(u)
      [] u.path = "/api/v1/categories/{id}"   -> GetCategory(u)
      [] u.path = "/api/v1/categories/{id}/groups" -> ListCategoryGroups(u)
      [] u.path = "/api/v1/groups"            -> ListGroups(u)
      [] u.path = "/api/v1/groups/{id}"       -> GetGroup(u)
      [] u.path = "/api/v1/diff"              -> GetDiff(u)
      [] u.path = "/api/v1/changelog"         -> GetChangelog(u)
      [] u.path = "items"                     -> ResolveItems(u)
      [] u.path = "search"                    -> ResolveSearch(u)
      [] u.path = "categories"                -> ResolveCategories(u)
      [] u.path = "groups"                    -> ResolveGroups(u)
      [] u.path = "item"                      -> ResolveItem(u)
      [] u.path = "category"                  -> ResolveCategory(u)
      [] u.path = "group"                     -> ResolveGroup(u)

-----------------------------------------------------------------------------
\* The Go SDK sends a limit or an offset only if it is positive.
Sent(n) == IF n > 0 THEN n ELSE Absent

SdkListItems(limit, offset) ==
    Url("/api/v1/items", "items", Sent(limit), Sent(offset))
SdkSearch(word, limit) == Url("/api/v1/search", word, Sent(limit), Absent)
SdkListCategories(limit, offset) ==
    Url("/api/v1/categories", "categories", Sent(limit), Sent(offset))
SdkListGroups(category, limit, offset) ==
    Url("/api/v1/groups", category, Sent(limit), Sent(offset))
SdkGetItem(id)     == Url("/api/v1/items/{id}", id, Absent, Absent)
SdkGetCategory(id) == Url("/api/v1/categories/{id}", id, Absent, Absent)
SdkGetGroup(id)    == Url("/api/v1/groups/{id}", id, Absent, Absent)
SdkDiff            == Url("/api/v1/diff", "versions", Absent, Absent)
SdkChangelog       == Url("/api/v1/changelog", "versions", Absent, Absent)
SdkHealth          == Url("/health", "server", Absent, Absent)
SdkReady           == Url("/ready", "versions", Absent, Absent)
SdkVersion         == Url("/version", "server", Absent, Absent)
=============================================================================

-------------------------- MODULE EndpointsProofs --------------------------
(***************************************************************************)
(* What a client gets that reads a list page after page: it asks for limit *)
(* rows from offset 0, then from limit, 2 * limit, ...; or it looks at     *)
(* meta.limit of the first answer, the limit that the server took, and     *)
(* steps by that.  The lists are sorted by a key of their table, so one    *)
(* row is one position of 1 .. n while the archive stays.                  *)
(***************************************************************************)
EXTENDS Endpoints, TLAPS

\* pages[j] is the page that the server makes of the request j.
On(i, n, page) == LET s == Slice(n, page) IN i \in s.from + 1 .. s.from + s.count
EachRowOnce(n, pages) ==
    \A i \in 1 .. n : \E k \in Nat : \A j \in Nat : On(i, n, pages[j]) <=> j = k

ItemPages(limit)     == [j \in Nat |-> List(SdkListItems(limit, j * limit)).page]
CategoryPages(limit) == [j \in Nat |-> ListCategories(SdkListCategories(limit, j * limit)).page]
GroupPages(category, limit) ==
    [j \in Nat |-> ListGroups(SdkListGroups(category, limit, j * limit)).page]

-----------------------------------------------------------------------------
LEMMA Order == ASSUME NEW a \in Nat, NEW b \in Nat, NEW m \in Nat, a < b
               PROVE  /\ a * m \in Nat /\ b * m \in Nat
                      /\ a * m + m <= b * m
<1>1. (b - a - 1) * m >= 0 /\ a * m \in Nat /\ b * m \in Nat
  OBVIOUS
<1>2. (b - a - 1) * m = b * m - a * m - m
  OBVIOUS
<1> QED BY <1>1, <1>2

LEMMA OnPage ==
  ASSUME NEW n \in Nat, NEW i \in 1 .. n, NEW page, page.limit \in Nat, page.offset \in Nat
  PROVE  On(i, n, page) <=> page.offset < i /\ i <= page.offset + page.limit
<1> DEFINE f == Slice(n, page).from
           c == Slice(n, page).count
<1>1. f = Least(page.offset, n) /\ c = Least(page.limit, n - f)
  BY DEF Slice
<1>2. On(i, n, page) <=> i \in f + 1 .. f + c
  BY DEF On
<1> HIDE DEF f, c
<1>3. f \in Nat /\ c \in Int
  BY <1>1 DEF Least
<1> QED BY <1>1, <1>2, <1>3 DEF Least

\* Steps of the page's own length meet each row on one page.
LEMMA StepsOfOnePage ==
  ASSUME NEW n \in Nat, NEW limit \in Nat \ {0}, NEW pages,
         \A j \in Nat : pages[j] = [limit |-> limit, offset |-> j * limit]
  PROVE  EachRowOnce(n, pages)
<1> SUFFICES ASSUME NEW i \in 1 .. n
             PROVE  \E k \in Nat : \A j \in Nat : On(i, n, pages[j]) <=> j = k
  BY DEF EachRowOnce
<1> DEFINE k == (i - 1) \div limit
<1>1. /\ k \in Nat /\ limit * k <= i - 1 /\ i - 1 < limit * k + limit
  <2>1. i - 1 \in Nat
    OBVIOUS
  <2> DEFINE a == i - 1
  <2>2. a \in Nat
    BY <2>1
  <2> HIDE DEF a
  <2>3. a \div limit \in Nat /\ limit * (a \div limit) <= a
        /\ a < limit * (a \div limit) + limit
    BY <2>2
  <2> QED BY <2>3 DEF a
<1> HIDE DEF k
<1>2. k * limit \in Nat /\ k * limit = limit * k
  BY <1>1
<1>3. \A j \in Nat : j * limit \in Nat
                     /\ (On(i, n, pages[j]) <=> j * limit < i /\ i <= j * limit + limit)
  <2> TAKE j \in Nat
  <2>1. j * limit \in Nat
    BY Order
  <2> DEFINE offset == j * limit
  <2>a. pages[j] = [limit |-> limit, offset |-> offset]
    OBVIOUS
  <2> HIDE DEF offset
  <2>b. pages[j].limit = limit /\ pages[j].offset = offset
    BY <2>a
  <2>2. pages[j].limit = limit /\ pages[j].offset = j * limit
    BY <2>b DEF offset
  <2> HIDE DEF On
  <2> QED BY <2>1, <2>2, OnPage
<1>4. ASSUME NEW j \in Nat PROVE On(i, n, pages[j]) <=> j = k
  <2>1. CASE j = k
    BY <1>1, <1>2, <1>3, <2>1
  <2>2. CASE j < k
    <3>1. j * limit + limit <= k * limit
      BY <1>1, <2>2, Order
    <3> QED BY <1>1, <1>2, <1>3, <2>2, <3>1
  <2>3. CASE k < j
    <3>1. k * limit + limit <= j * limit
      BY <1>1, <2>3, Order
    <3> QED BY <1>1, <1>2, <1>3, <2>3, <3>1
  <2> QED BY <1>1, <2>1, <2>2, <2>3
<1> QED BY <1>1, <1>4

\* What the SDK leaves out of the URL is what the handler assumes: a positive
\* limit up to the maximum, and any offset, arrive.
LEMMA Arrives ==
  ASSUME Absent \notin Int, NEW max \in Nat, NEW limit \in 1 .. max, NEW offset \in Nat
  PROVE  ParsePagination(Sent(limit), Sent(offset), 50, max) =
             [limit |-> limit, offset |-> offset]
BY DEF ParsePagination, Sent

-----------------------------------------------------------------------------
\* A client of the SDK that reads items, categories or groups page after page,
\* with a limit that the handler takes (parsePagination), sees each row on
\* exactly one page: a 0 that the SDK does not send is the handler's own.
THEOREM SdkReadsAll ==
  ASSUME Absent \notin Int, NEW n \in Nat
  PROVE  /\ \A limit \in 1 .. 100 : EachRowOnce(n, ItemPages(limit))
         /\ \A limit \in 1 .. 200 : EachRowOnce(n, CategoryPages(limit))
         /\ \A category, limit \in 1 .. 500 :
                EachRowOnce(n, GroupPages(category, limit))
<1>0. \A j, limit \in Nat : j * limit \in Nat
  BY Order
<1>1. ASSUME NEW limit \in 1 .. 100 PROVE EachRowOnce(n, ItemPages(limit))
  <2>1. \A j \in Nat : ItemPages(limit)[j] = [limit |-> limit, offset |-> j * limit]
    BY <1>0, Arrives DEF ItemPages, List, Paged, Handler, SdkListItems, Url
  <2>2. limit \in Nat \ {0}
    OBVIOUS
  <2> QED BY <2>1, <2>2, StepsOfOnePage, Zenon
<1>2. ASSUME NEW limit \in 1 .. 200 PROVE EachRowOnce(n, CategoryPages(limit))
  <2>1. \A j \in Nat : CategoryPages(limit)[j] = [limit |-> limit, offset |-> j * limit]
    BY <1>0, Arrives DEF CategoryPages, ListCategories, Paged, Handler, SdkListCategories, Url
  <2>2. limit \in Nat \ {0}
    OBVIOUS
  <2> QED BY <2>1, <2>2, StepsOfOnePage, Zenon
<1>3. ASSUME NEW category, NEW limit \in 1 .. 500
      PROVE  EachRowOnce(n, GroupPages(category, limit))
  <2>1. \A j \in Nat : GroupPages(category, limit)[j] = [limit |-> limit, offset |-> j * limit]
    BY <1>0, Arrives DEF GroupPages, ListGroups, Paged, Handler, SdkListGroups, Url
  <2>2. limit \in Nat \ {0}
    OBVIOUS
  <2> QED BY <2>1, <2>2, StepsOfOnePage, Zenon
<1> QED BY <1>1, <1>2, <1>3

\* A client that steps by meta.limit (List, writePagedJSON) reads everything
\* whatever limit it has asked for, one that is absent, negative or too large.
THEOREM MetaLimitReadsAll ==
  ASSUME Absent \notin Int, NEW n \in Nat, NEW max \in Nat, NEW limit \in Given
  PROVE  LET taken == ParsePagination(limit, Absent, 50, max).limit IN
         EachRowOnce(n, [j \in Nat |-> ParsePagination(limit, j * taken, 50, max)])
<1> DEFINE taken == ParsePagination(limit, Absent, 50, max).limit
           pages == [j \in Nat |-> ParsePagination(limit, j * taken, 50, max)]
<1>1. taken \in Nat \ {0}
  BY DEF ParsePagination, Given
<1>2. ASSUME NEW offset \in Nat
      PROVE  ParsePagination(limit, offset, 50, max) = [limit |-> taken, offset |-> offset]
  BY DEF ParsePagination, Given
<1> HIDE DEF taken
<1>3. \A j \in Nat : pages[j] = [limit |-> taken, offset |-> j * taken]
  <2> TAKE j \in Nat
  <2>1. j * taken \in Nat
    BY <1>1, Order
  <2> QED BY <1>2, <2>1
<1> HIDE DEF pages
<1>4. EachRowOnce(n, pages)
  BY <1>1, <1>3, StepsOfOnePage
<1> QED BY <1>4 DEF pages, taken

\* With a limit above the maximum the handler falls back to its default, and
\* only meta.limit says so: a client that steps by its own limit never sees
\* row 51, whichever request it makes.
THEOREM LargerLimitLosesRows ==
  ASSUME Absent \notin Int, NEW n \in Nat, 51 <= n
  PROVE  /\ \A limit \in Nat, j \in Nat :
                100 < limit => ~On(51, n, ItemPages(limit)[j])
         /\ \A limit \in Nat, j \in Nat :
                200 < limit => ~On(51, n, CategoryPages(limit)[j])
         /\ \A category, limit \in Nat, j \in Nat :
                500 < limit => ~On(51, n, GroupPages(category, limit)[j])
<1>1. ASSUME NEW max \in Nat, 50 <= max, NEW limit \in Nat, max < limit,
             NEW j \in Nat, NEW page,
             page = ParsePagination(Sent(limit), Sent(j * limit), 50, max)
      PROVE  ~On(51, n, page)
  <2>1. j * limit \in Nat /\ (j # 0 => limit <= j * limit)
    <3>1. j * limit \in Nat /\ 0 * limit = 0
      BY Order
    <3>2. j # 0 => 0 * limit + limit <= j * limit
      BY Order
    <3> QED BY <3>1, <3>2
  <2>2. j = 0 => j * limit = 0
    OBVIOUS
  <2> DEFINE offset == j * limit
  <2> HIDE DEF offset
  <2>3. offset \in Nat /\ (offset = 0 \/ limit <= offset)
    BY <2>1, <2>2 DEF offset
  <2>4. page = ParsePagination(Sent(limit), Sent(offset), 50, max)
    BY <1>1 DEF offset
  <2>5. page.limit = 50 /\ page.offset = offset
    BY <1>1, <2>3, <2>4 DEF ParsePagination, Sent
  <2>6. 51 \in 1 .. n
    OBVIOUS
  <2> QED BY <1>1, <2>3, <2>5, <2>6, OnPage
<1>2. ASSUME NEW limit \in Nat, NEW j \in Nat, 100 < limit
      PROVE  ~On(51, n, ItemPages(limit)[j])
  <2> DEFINE max == 100
  <2>1. ItemPages(limit)[j] = ParsePagination(Sent(limit), Sent(j * limit), 50, max)
    BY DEF ItemPages, List, Paged, Handler, SdkListItems, Url
  <2>2. max \in Nat /\ 50 <= max /\ max < limit
    BY <1>2
  <2> HIDE DEF max
  <2> QED BY <1>1, <2>1, <2>2, Zenon
<1>3. ASSUME NEW limit \in Nat, NEW j \in Nat, 200 < limit
      PROVE  ~On(51, n, CategoryPages(limit)[j])
  <2> DEFINE max == 200
  <2>1. CategoryPages(limit)[j] = ParsePagination(Sent(limit), Sent(j * limit), 50, max)
    BY DEF CategoryPages, ListCategories, Paged, Handler, SdkListCategories, Url
  <2>2. max \in Nat /\ 50 <= max /\ max < limit
    BY <1>3
  <2> HIDE DEF max
  <2> QED BY <1>1, <2>1, <2>2, Zenon
<1>4. ASSUME NEW category, NEW limit \in Nat, NEW j \in Nat, 500 < limit
      PROVE  ~On(51, n, GroupPages(category, limit)[j])
  <2> DEFINE max == 500
  <2>1. GroupPages(category, limit)[j] =
            ParsePagination(Sent(limit), Sent(j * limit), 50, max)
    BY DEF GroupPages, ListGroups, Paged, Handler, SdkListGroups, Url
  <2>2. max \in Nat /\ 50 <= max /\ max < limit
    BY <1>4
  <2> HIDE DEF max
  <2> QED BY <1>1, <2>1, <2>2, Zenon
<1> QED BY <1>2, <1>3, <1>4

\* The two interfaces show the same rows of items, categories and groups for
\* the same parameters, absent, zero and negative ones too: they differ only
\* for a limit above the maximum (paginationArgs caps it).
THEOREM InterfacesAgree ==
  ASSUME Absent \notin Int, NEW n \in Nat, NEW u,
         u.limit \in Given, u.offset \in Given
  PROVE  LET upTo(max) == u.limit = Absent \/ u.limit <= max IN
         /\ upTo(100) => Slice(n, ResolveItems(u).page) = Slice(n, List(u).page)
         /\ upTo(200) => Slice(n, ResolveCategories(u).page) = Slice(n, ListCategories(u).page)
         /\ upTo(500) => Slice(n, ResolveGroups(u).page) = Slice(n, ListGroups(u).page)
<1> DEFINE rest(max) == ParsePagination(u.limit, u.offset, 50, max)
           graph(max) == PaginationArgs(u.limit, u.offset, 50, max)
           upTo(max) == u.limit = Absent \/ u.limit <= max
<1>1. ASSUME NEW max \in Nat, 50 <= max, upTo(max)
      PROVE  /\ graph(max).limit = rest(max).limit
             /\ graph(max).offset = rest(max).offset
             /\ rest(max).limit \in Nat /\ rest(max).offset \in Nat
             /\ rest(max).offset = IF Or(u.offset, 0) < 0 THEN 0 ELSE Or(u.offset, 0)
  <2>1. CASE u.limit = Absent
    BY <1>1, <2>1 DEF ParsePagination, PaginationArgs, Or, Least, Given
  <2>2. CASE u.limit \in Int
    BY <1>1, <2>2 DEF ParsePagination, PaginationArgs, Or, Least, Given
  <2> QED BY <2>1, <2>2 DEF Given
<1>2. upTo(100) => Slice(n, ResolveItems(u).page) = Slice(n, List(u).page)
  <2> SUFFICES ASSUME upTo(100) PROVE Slice(n, ResolveItems(u).page) = Slice(n, List(u).page)
    OBVIOUS
  <2> DEFINE p == ItemsArgs(u.limit, u.offset)
  <2>1. ResolveItems(u).page = p /\ List(u).page = rest(100)
    BY DEF ResolveItems, GraphQL, List, Paged, Handler
  <2>2. p.limit = graph(100).limit /\ p.offset = Or(u.offset, 0)
    BY DEF ItemsArgs, PaginationArgs
  <2>3. Or(u.offset, 0) \in Int
    BY DEF Or, Given
  <2> HIDE DEF p, rest, graph
  <2> QED BY <1>1, <2>1, <2>2, <2>3 DEF Slice, Least
<1>3. upTo(200) => Slice(n, ResolveCategories(u).page) = Slice(n, ListCategories(u).page)
  <2>1. ResolveCategories(u).page = graph(200) /\ ListCategories(u).page = rest(200)
    BY DEF ResolveCategories, GraphQL, ListCategories, Paged, Handler
  <2> HIDE DEF rest, graph
  <2> QED BY <1>1, <2>1 DEF Slice
<1>4. upTo(500) => Slice(n, ResolveGroups(u).page) = Slice(n, ListGroups(u).page)
  <2>1. ResolveGroups(u).page = graph(500) /\ ListGroups(u).page = rest(500)
    BY DEF ResolveGroups, GraphQL, ListGroups, Paged, Handler
  <2> HIDE DEF rest, graph
  <2> QED BY <1>1, <2>1 DEF Slice
<1> QED BY <1>2, <1>3, <1>4

\* A search over GraphQL with a negative limit shows every item that has the
\* word: resolveSearch caps only what is too large, and for SQLite a negative
\* limit is none.
THEOREM NegativeSearchShowsAll ==
  ASSUME Absent \notin Int, NEW n \in Nat, NEW u, u.limit \in Int, u.limit < 0
  PROVE  \A i \in 1 .. n : On(i, n, ResolveSearch(u).page)
<1>1. ResolveSearch(u).page = [limit |-> u.limit, offset |-> 0]
  BY DEF ResolveSearch, GraphQL, Handler, SearchArgs, Or, Least
<1>2. Slice(n, [limit |-> u.limit, offset |-> 0]) = [from |-> 0, count |-> n]
  BY DEF Slice, Least
<1> QED BY <1>1, <1>2 DEF On
=============================================================================

------------------------------- MODULE MCApi -------------------------------
(***************************************************************************)
(* Api with two archives of different sizes and nine URLs.                 *)
(***************************************************************************)
EXTENDS Api, TLC

CONSTANTS r1, r2, sample, v1, k1,
          items, revoke, search, item, bad, changelog, ready, gitems, gsearch

TheSize == [items |-> sample :> 2 @@ v1 :> 120 ,
            word  |-> sample :> 1 @@ v1 :> 120 ,
            one   |-> sample :> 0 @@ v1 :> 1 ,
            versions |-> sample :> 2 @@ v1 :> 120 ]

TheUrls == items   :> Url("/api/v1/items", "items", 100, 3)
        @@ revoke  :> Url("/api/admin/keys/{id}", k1, Absent, Absent)
        @@ search  :> Url("/api/v1/search", "word", 101, 1)
        @@ item    :> SdkGetItem("one")
        @@ bad     :> Url("/api/v1/items/{id}", Absent, Absent, Absent)
        @@ changelog :> SdkChangelog
        @@ ready   :> SdkReady
        @@ gitems  :> Url("items", "items", 101, -1)
        @@ gsearch :> Url("search", "word", 2, Absent)

\* The URLs in use at one time: the cache of one menu says nothing of another.
\* Keys are revoked and expire only while the lists are in use, versions are
\* recorded while the changelog is. A URL that is never cached goes one request
\* at a time: its requests share nothing.
Menus == {{search}, {item, bad}}
Uncached == {ready, gitems, gsearch}
InFlight == {r \in Requests : pc[r] \notin {"idle", "done"}}
InUse == {url[r] : r \in InFlight}
         \cup {u \in Urls : cache[u] # None}
OneMenu == \/ history = {} /\ InUse \subseteq {items, revoke}
           \/ revoked \cup expired = {} /\ InUse \subseteq {changelog}
           \/ /\ history = {} /\ revoked \cup expired = {}
              /\ \/ \E menu \in Menus : InUse \subseteq menu
                 \/ InUse \subseteq Uncached /\ Cardinality(InFlight) <= 1

Symmetry == Permutations(Requests)
=============================================================================

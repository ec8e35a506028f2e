------------------------------ MODULE EsiProxy ------------------------------
(***************************************************************************)
(* The ESI proxy: handlers/esi.go with its map of answers, and the client  *)
(* of esi/client.go with its retries.  Times are ages and rests: the ticks *)
(* an entry has left, the ticks since a request came, the ticks until its  *)
(* attempt times out or its wait is over.                                  *)
(***************************************************************************)
EXTENDS Integers

CONSTANTS Requests,
          Paths,           \* cache keys
          NoPath,
          Life,            \* how long each is kept, in ticks
          AttemptTimeout,  \* the http.Client's Timeout
          MaxRetries, BaseWait, Budget   \* the backoff of Client.Get

Longest == Budget + AttemptTimeout
Wait(n) == BaseWait * 2 ^ (n - 1)

ASSUME EsiAssumption ==
    /\ NoPath \notin Paths
    /\ Life \in [Paths -> Nat \ {0}]
    /\ AttemptTimeout \in Nat \ {0} /\ Budget \in Nat
    /\ MaxRetries \in Nat /\ \A n \in 1 .. MaxRetries : Wait(n) \in Nat

VARIABLES
    held, left,   \* the map's keys, and the ticks each entry has left
    pc,           \* per request: where it is
    path,         \*   what it asks for
    stale,        \*   the entry it has read had expired
    tries,        \*   attempts so far
    timer,        \*   ticks left of the attempt or of the wait
    elapsed       \*   ticks since it came

entries == <<held, left>>
calls   == <<pc, path, stale, tries, timer, elapsed>>
esi     == <<entries, calls>>

EsiTypeOK ==
    /\ held \subseteq Paths
    /\ left \in [Paths -> Int]
    /\ \A p \in Paths : -1 <= left[p] /\ left[p] <= Life[p]
    /\ pc \in [Requests -> {"idle", "look", "judge", "drop", "try", "wait", "got"}]
    /\ path \in [Requests -> Paths \cup {NoPath}]
    /\ \A r \in Requests : pc[r] # "idle" => path[r] \in Paths
    /\ \A p \in Paths \ held : left[p] = -1
    /\ stale \in [Requests -> BOOLEAN]
    /\ tries \in [Requests -> 0 .. MaxRetries + 1]
    /\ timer \in [Requests -> Nat]
    /\ elapsed \in [Requests -> Nat]

EsiInit ==
    /\ held = {} /\ left = [p \in Paths |-> -1]
    /\ pc = [r \in Requests |-> "idle"]
    /\ path = [r \in Requests |-> NoPath]
    /\ stale = [r \in Requests |-> FALSE]
    /\ tries = [r \in Requests |-> 0]
    /\ timer = [r \in Requests |-> 0]
    /\ elapsed = [r \in Requests |-> 0]

-----------------------------------------------------------------------------
\* Operators called Wrong... are not the code's: each is the operator after it
\* with a mistake the code could have had, and a property that catches it.
Goto(r, l) == pc' = [pc EXCEPT ![r] = l]

\* The answer is out, or an error, and nothing of the request is kept.
Answer(r) ==
    /\ Goto(r, "idle")
    /\ path' = [path EXCEPT ![r] = NoPath]
    /\ stale' = [stale EXCEPT ![r] = FALSE]
    /\ tries' = [tries EXCEPT ![r] = 0]
    /\ timer' = [timer EXCEPT ![r] = 0]
    /\ elapsed' = [elapsed EXCEPT ![r] = 0]

\* Proxy, GetTypeInfo, GetMarketPrices and GetMarketHistory: they differ in
\* the key and in how long they keep what they get.
Request(r, p) ==
    /\ pc[r] = "idle" /\ Goto(r, "look")
    /\ path' = [path EXCEPT ![r] = p]
    /\ UNCHANGED <<entries, stale, tries, timer, elapsed>>

\* Client.Get begins its next attempt.
Attempt(r) ==
    /\ Goto(r, "try")
    /\ tries' = [tries EXCEPT ![r] = @ + 1]
    /\ timer' = [timer EXCEPT ![r] = AttemptTimeout]

\* getCached: the entry is read, then judged, then looked at again under the
\* lock before it is deleted.
Look(r) ==
    /\ pc[r] = "look"
    /\ \/ /\ path[r] \in held /\ Goto(r, "judge")
          /\ stale' = [stale EXCEPT ![r] = left[path[r]] < 0]
          /\ UNCHANGED <<tries, timer>>
       \/ path[r] \notin held /\ Attempt(r) /\ UNCHANGED stale
    /\ UNCHANGED <<entries, path, elapsed>>

Judge(r) ==
    /\ pc[r] = "judge"
    /\ \/ ~stale[r] /\ Answer(r)
       \/ stale[r] /\ Goto(r, "drop") /\ UNCHANGED <<path, stale, tries, timer, elapsed>>
    /\ UNCHANGED entries

WrongDrop(r) ==
    /\ pc[r] = "drop"
    /\ held' = held \ {path[r]} /\ left' = [left EXCEPT ![path[r]] = -1]
    /\ Attempt(r)
    /\ UNCHANGED <<path, stale, elapsed>>
Drop(r) ==
    /\ pc[r] = "drop"
    /\ held' = IF left[path[r]] < 0 THEN held \ {path[r]} ELSE held
    /\ Attempt(r)
    /\ UNCHANGED <<left, path, stale, elapsed>>

\* ESI answers 2xx or 3xx, and its body can be read.
Succeed(r) ==
    /\ pc[r] = "try" /\ Goto(r, "got")
    /\ UNCHANGED <<entries, path, stale, tries, timer, elapsed>>

\* 4xx, or half a body: 502 at once.
Fail(r) == pc[r] = "try" /\ Answer(r) /\ UNCHANGED entries

\* No answer, no answer in time, or 5xx: again, after a wait that doubles and
\* ends with the budget, unless the budget or the retries are used up.
Least(x, y) == IF x < y THEN x ELSE y
WrongRetries(r) ==
    /\ pc[r] = "try"
    /\ \/ /\ elapsed[r] >= Budget \/ tries[r] > MaxRetries + 1
          /\ Answer(r)
       \/ /\ elapsed[r] < Budget /\ tries[r] <= MaxRetries + 1
          /\ Goto(r, "wait")
          /\ timer' = [timer EXCEPT ![r] = Least(Wait(tries[r]), Budget - elapsed[r])]
          /\ UNCHANGED <<path, stale, tries, elapsed>>
    /\ UNCHANGED entries
WrongRetry(r) ==
    /\ pc[r] = "try"
    /\ \/ /\ elapsed[r] >= Budget \/ tries[r] > MaxRetries
          /\ Answer(r)
       \/ /\ elapsed[r] < Budget /\ tries[r] <= MaxRetries
          /\ Goto(r, "wait")
          /\ timer' = [timer EXCEPT ![r] = Wait(tries[r])]
          /\ UNCHANGED <<path, stale, tries, elapsed>>
    /\ UNCHANGED entries
Retry(r) ==
    /\ pc[r] = "try"
    /\ \/ /\ elapsed[r] >= Budget \/ tries[r] > MaxRetries
          /\ Answer(r)
       \/ /\ elapsed[r] < Budget /\ tries[r] <= MaxRetries
          /\ Goto(r, "wait")
          /\ timer' = [timer EXCEPT ![r] = Least(Wait(tries[r]), Budget - elapsed[r])]
          /\ UNCHANGED <<path, stale, tries, elapsed>>
    /\ UNCHANGED entries

Wake(r) ==
    /\ pc[r] = "wait" /\ timer[r] = 0 /\ Attempt(r)
    /\ UNCHANGED <<entries, path, stale, elapsed>>

\* setCached and the answer; GetJSON may find that it is no JSON.
SetCached(r) ==
    /\ pc[r] = "got" /\ Answer(r)
    /\ \/ held' = held \cup {path[r]} /\ left' = [left EXCEPT ![path[r]] = Life[path[r]]]
       \/ UNCHANGED entries

ClearCache ==
    /\ held' = {} /\ left' = [p \in Paths |-> -1]
    /\ UNCHANGED calls

\* Only waiting takes time: for ESI, or for the next attempt.
Waiting(r) == pc[r] \in {"try", "wait"} /\ timer[r] > 0
Pass ==
    /\ \A r \in Requests : pc[r] = "idle" \/ Waiting(r)
    /\ timer' = [r \in Requests |-> IF Waiting(r) THEN timer[r] - 1 ELSE timer[r]]
    /\ elapsed' = [r \in Requests |-> IF Waiting(r) THEN elapsed[r] + 1 ELSE elapsed[r]]
    /\ left' = [p \in Paths |-> IF left[p] >= 0 THEN left[p] - 1 ELSE left[p]]
    /\ UNCHANGED <<held, pc, path, stale, tries>>

\* The process ends.
Cut ==
    /\ pc' = [r \in Requests |-> "idle"]
    /\ path' = [r \in Requests |-> NoPath]
    /\ stale' = [r \in Requests |-> FALSE]
    /\ tries' = [r \in Requests |-> 0]
    /\ timer' = [r \in Requests |-> 0]
    /\ elapsed' = [r \in Requests |-> 0]
    /\ UNCHANGED entries

Step(r) == \/ Look(r) \/ Judge(r) \/ Drop(r) \/ Succeed(r) \/ Fail(r) \/ Retry(r)
           \/ Wake(r) \/ SetCached(r)

EsiNext ==
    \/ \E r \in Requests : Step(r) \/ \E p \in Paths : Request(r, p)
    \/ ClearCache \/ Pass \/ Cut

EsiSpec == EsiInit /\ [][EsiNext]_esi

-----------------------------------------------------------------------------
\* How much a request has before it: the attempts it may still make, and what it
\* has to do before, between and after them.
Stage(l) == CASE l = "look" -> 6 [] l = "judge" -> 5 [] l = "drop" -> 4
              [] l = "try"  -> 3 [] l = "wait"  -> 2 [] l = "got"  -> 1
Ahead(r) == IF pc[r] = "idle" THEN 0
            ELSE 4 * (MaxRetries + 1 - tries[r]) + Stage(pc[r])

\* However ESI fails, a request is over before the retry budget and one more
\* attempt have passed (Client.Get): with the code's 10 s and 10 s, in 20 s.
EndsInTime == \A r \in Requests : elapsed[r] <= Longest

\* No step of a request makes an entry that has not expired leave the map:
\* getCached never deletes what another request has just stored (esi.go:193).
FreshIsKept == [][\A p \in held : left[p] >= 0 /\ p \notin held' => calls' = calls]_esi
=============================================================================

---------------------------- MODULE RateLimiter ----------------------------
(***************************************************************************)
(* middleware.rateLimiter: one token bucket per API key in a map that      *)
(* requests and the cleanup goroutine share under a mutex, so that allow   *)
(* and one sweep of the cleanup are atomic.                                *)
(*                                                                         *)
(* Time is counted in ticks of the clock; the float arithmetic of allow is *)
(* exact here, and its result is converted to an int of bounded width.     *)
(***************************************************************************)
EXTENDS Integers

CONSTANTS Keys,      \* the API keys that passed the Auth middleware
          Limit,     \* APIKey.RateLimit of each: requests per minute
          Minute,    \* ticks in a minute
          MaxInt,    \* largest int
          MaxTime    \* bound: the clock stops here

ASSUME LimiterAssumption ==
    /\ Minute \in Nat \ {0} /\ MaxInt \in Nat /\ MaxTime \in Nat
    /\ Limit \in [Keys -> 1 .. MaxInt]

VARIABLES
    now,         \* the monotonic clock
    known,       \* keys with a bucket in rl.requests
    tokens,      \*   bucket.tokens
    lastRefil,   \*   bucket.lastRefil
    remaining,   \* what allow answered last: tokens left, or -1 for refused
    mark,        \* observation: the minute [mark, mark + Minute)
    count,       \*   requests allowed in it, per key
    lastAsk      \* observation: when the key's last request came

bucket  == <<known, tokens, lastRefil, remaining>>
watch   == <<mark, count>>
vars    == <<now, bucket, watch, lastAsk>>

TypeOK ==
    /\ now \in 0 .. MaxTime /\ mark \in 0 .. now
    /\ known \subseteq Keys
    /\ tokens \in [Keys -> (-MaxInt - 1) .. MaxInt]
    /\ \A k \in Keys : tokens[k] <= Limit[k]
    /\ lastRefil \in [Keys -> 0 .. now]
    /\ lastAsk \in [Keys -> 0 .. now]
    /\ \A k \in known : lastRefil[k] <= lastAsk[k]
    /\ remaining \in [Keys -> -1 .. MaxInt]
    /\ count \in [Keys -> Nat]

Init ==
    /\ now = 0 /\ mark = 0
    /\ known = {}
    /\ tokens = [k \in Keys |-> 0]
    /\ lastRefil = [k \in Keys |-> 0]
    /\ lastAsk = [k \in Keys |-> 0]
    /\ remaining = [k \in Keys |-> 0]
    /\ count = [k \in Keys |-> 0]

-----------------------------------------------------------------------------
\* int(float64): out of range, amd64 answers the smallest int, arm64 the largest.
Converted(n) == IF n <= MaxInt THEN {n} ELSE {MaxInt, -MaxInt - 1}

\* The sum of two ints of which the second is positive.
Plus(a, b) == IF a + b <= MaxInt THEN a + b ELSE a + b - 2 * (MaxInt + 1)

\* Wrong: integer arithmetic, the rate per tick first.
WrongEarned(k) == Converted((now - lastRefil[k]) * (Limit[k] \div Minute))

\* Wrong: what was earned is rounded up.
WrongEarnedUp(k) ==
    Converted(((now - lastRefil[k]) * Limit[k] + Minute - 1) \div Minute)

\* tokensToAdd := int(elapsed.Seconds() * float64(limit) / 60.0)
Earned(k) == Converted(((now - lastRefil[k]) * Limit[k]) \div Minute)

\* Wrong: the bucket is not capped.
WrongRefilled(k, n) == IF n > 0 THEN Plus(tokens[k], n) ELSE tokens[k]

Refilled(k, n) ==
    IF n > 0 /\ Plus(tokens[k], n) > Limit[k] THEN Limit[k]
    ELSE IF n > 0 THEN Plus(tokens[k], n) ELSE tokens[k]

\* The bucket has level tokens when the request finds it, and one less after.
Answer(k, level) ==
    /\ tokens' = [tokens EXCEPT ![k] = IF level > 0 THEN level - 1 ELSE level]
    /\ remaining' = [remaining EXCEPT ![k] = IF level > 0 THEN level - 1 ELSE -1]
    /\ count' = [count EXCEPT ![k] =
                    IF level > 0 /\ now < mark + Minute THEN @ + 1 ELSE @]
    /\ lastAsk' = [lastAsk EXCEPT ![k] = now]
    /\ UNCHANGED <<now, mark>>

\* allow for a key with no bucket: a full one.
AllowNew(k) ==
    /\ k \notin known /\ known' = known \cup {k}
    /\ lastRefil' = [lastRefil EXCEPT ![k] = now]
    /\ Answer(k, Limit[k])

\* allow for a key with a bucket: the clock of the bucket restarts only when a
\* whole token was added, and what is left over is lost then.
AllowKnown(k) ==
    /\ k \in known /\ UNCHANGED known
    /\ \E n \in Earned(k) :
         /\ lastRefil' = [lastRefil EXCEPT ![k] = IF n > 0 THEN now ELSE @]
         /\ Answer(k, Refilled(k, n))

\* Wrong: a bucket counts as old after half a minute.
WrongStaleSoon(k) == k \in known /\ 2 * (now - lastRefil[k]) > Minute

Stale(k) == k \in known /\ now - lastRefil[k] > 2 * Minute

\* The sweep of the cleanup goroutine.  The ticker asks for one every minute, but
\* it may come late by any time.
Cleanup ==
    /\ known' = {k \in known : ~Stale(k)}
    /\ UNCHANGED <<now, tokens, lastRefil, remaining, watch, lastAsk>>

-----------------------------------------------------------------------------
Tick ==
    /\ now < MaxTime /\ now' = now + 1
    /\ UNCHANGED <<bucket, watch, lastAsk>>

\* The observer starts to count at any moment.
Watch ==
    /\ mark' = now /\ count' = [k \in Keys |-> 0]
    /\ UNCHANGED <<now, bucket, lastAsk>>

Ask(k) == AllowNew(k) \/ AllowKnown(k)

Next == (\E k \in Keys : Ask(k)) \/ Cleanup \/ Tick \/ Watch

Spec == Init /\ [][Next]_vars

-----------------------------------------------------------------------------
\* However requests, refills and sweeps fall, a key gets no more than twice its
\* limit in any minute, a full bucket and one minute's refill: that is what the
\* "requests per minute" of auth.go come to.
WindowBound == \A k \in Keys : count[k] <= 2 * Limit[k]

\* A caller whose last request is at least 1/limit of a minute ago is never
\* refused, however much it asked before: "Retry-After: 60" tells the truth.
SteadyIsServed ==
    [][\A k \in Keys :
         Ask(k) /\ (now - lastAsk[k]) * Limit[k] >= Minute => remaining'[k] >= 0]_vars

\* What a request would find in the bucket now.
Levels(k) == IF k \in known THEN {Refilled(k, n) : n \in Earned(k)} ELSE {Limit[k]}

\* The sweep forgets nothing a caller could tell: a dropped bucket would have been
\* full again, so no request gets tokens by the sweep, and none loses any.
CleanupIsInvisible == [][Cleanup => \A k \in Keys : Levels(k)' = Levels(k)]_vars
=============================================================================

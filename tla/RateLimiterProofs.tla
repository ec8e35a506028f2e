------------------------- MODULE RateLimiterProofs -------------------------
(***************************************************************************)
(* Proofs about RateLimiter for any number of keys, any limits, any clock  *)
(* resolution, as long as no int overflows.                                *)
(***************************************************************************)
EXTENDS RateLimiter, TLAPS

\* A full bucket and what is earned in the server's whole lifetime fit an int.
NoOverflow == \A k \in Keys : Limit[k] + (MaxTime * Limit[k]) \div Minute <= MaxInt

-----------------------------------------------------------------------------
\* Integer arithmetic the provers need step by step.
LEMMA Cancel == ASSUME NEW m \in Nat \ {0}, NEW x \in Int, NEW y \in Int, m * x < m * y
                PROVE  x < y
<1> SUFFICES ASSUME x >= y PROVE FALSE
  OBVIOUS
<1>1. m * (x - y) >= 0
  OBVIOUS
<1>2. m * (x - y) = m * x - m * y
  OBVIOUS
<1> QED
  BY <1>1, <1>2

LEMMA Division == ASSUME NEW a \in Nat, NEW m \in Nat \ {0}
                  PROVE  /\ a \div m \in Nat
                         /\ m * (a \div m) <= a
                         /\ a < m * (a \div m) + m
OBVIOUS

LEMMA Product == ASSUME NEW a \in Nat, NEW b \in Nat, NEW c \in Nat, a <= b
                 PROVE  a * c \in Nat /\ a * c <= b * c
<1>1. (b - a) * c >= 0 /\ a * c \in Nat
  OBVIOUS
<1>2. (b - a) * c = b * c - a * c
  OBVIOUS
<1> QED
  BY <1>1, <1>2

\* A longer time does not earn less.
LEMMA DivisionGrows == ASSUME NEW a \in Nat, NEW b \in Nat, NEW m \in Nat \ {0}, a <= b
                       PROVE  a \div m <= b \div m
<1> DEFINE p == a \div m
           q == b \div m
<1>1. p \in Nat /\ q \in Nat /\ m * p <= a /\ b < m * q + m
  BY Division
<1> HIDE DEF p, q
<1>2. m * p < m * (q + 1)
  <2>1. m * (q + 1) = m * q + m
    BY <1>1
  <2> QED
    BY <1>1, <2>1
<1>3. p < q + 1
  BY <1>1, <1>2, Cancel
<1> QED
  BY <1>1, <1>3 DEF p, q

-----------------------------------------------------------------------------
\* Without overflow allow earns exactly the whole tokens of the time elapsed.
Whole(k) == ((now - lastRefil[k]) * Limit[k]) \div Minute

LEMMA EarnedIs ==
  ASSUME NoOverflow, TypeOK, NEW k \in Keys
  PROVE  /\ Earned(k) = {Whole(k)}
         /\ Whole(k) \in Nat /\ Limit[k] + Whole(k) <= MaxInt
         /\ Minute * Whole(k) <= (now - lastRefil[k]) * Limit[k]
         /\ (now - lastRefil[k]) * Limit[k] < Minute * Whole(k) + Minute
<1> USE LimiterAssumption
<1> DEFINE e == now - lastRefil[k]
           L == Limit[k]
<1>1. /\ e \in Nat /\ e <= MaxTime /\ L \in Nat \ {0} /\ L <= MaxInt
      /\ MaxTime \in Nat /\ Minute \in Nat \ {0} /\ MaxInt \in Nat
  BY DEF TypeOK
<1>2. L + (MaxTime * L) \div Minute <= MaxInt
  BY DEF NoOverflow
<1>3. Whole(k) = (e * L) \div Minute /\ Earned(k) = Converted((e * L) \div Minute)
  BY DEF Whole, Earned
<1> HIDE DEF e, L
<1>4. e * L \in Nat /\ MaxTime * L \in Nat /\ e * L <= MaxTime * L
  BY <1>1, Product
<1>5. /\ (e * L) \div Minute \in Nat
      /\ Minute * ((e * L) \div Minute) <= e * L
      /\ e * L < Minute * ((e * L) \div Minute) + Minute
  BY <1>1, <1>4, Division
<1>6. (e * L) \div Minute <= (MaxTime * L) \div Minute
  BY <1>1, <1>4, DivisionGrows
<1>7. (MaxTime * L) \div Minute \in Nat
  BY <1>1, <1>4, Division
<1> DEFINE n == (e * L) \div Minute
<1>8. L + n <= MaxInt /\ n \in Nat
  BY <1>1, <1>2, <1>5, <1>6, <1>7
<1>9. n <= MaxInt
  BY <1>1, <1>8
<1>10. Earned(k) = {n}
  BY <1>3, <1>9 DEF Converted
<1> QED
  BY <1>3, <1>5, <1>8, <1>10 DEF e, L

\* No bucket is ever below zero, and none above its limit.
NotBelowZero == \A k \in Keys : tokens[k] >= 0
Filled == TypeOK /\ NotBelowZero

\* What a refill leaves: no less than before, no more than was earned, a full
\* bucket at most.
LEMMA RefilledIs ==
  ASSUME NoOverflow, Filled, NEW k \in Keys
  PROVE  LET r == Refilled(k, Whole(k)) IN
         /\ r \in Nat /\ r <= Limit[k]
         /\ tokens[k] <= r /\ r <= tokens[k] + Whole(k)
         /\ r = Limit[k] \/ r = tokens[k] + Whole(k)
<1>1. /\ tokens[k] \in Nat /\ tokens[k] <= Limit[k] /\ Limit[k] \in Nat /\ MaxInt \in Nat
      /\ Whole(k) \in Nat /\ Limit[k] + Whole(k) <= MaxInt
  BY EarnedIs, LimiterAssumption DEF Filled, NotBelowZero, TypeOK
<1>2. Plus(tokens[k], Whole(k)) = tokens[k] + Whole(k)
  BY <1>1 DEF Plus
<1> QED
  BY <1>1, <1>2 DEF Refilled

\* One request, of a key with a bucket or without: what it finds and what it
\* leaves behind.
LEMMA AskIs ==
  ASSUME NoOverflow, Filled, NEW k \in Keys, Ask(k)
  PROVE  \E level \in 0 .. Limit[k] :
           /\ Answer(k, level)
           /\ known' = known \cup {k}
           /\ \/ k \notin known /\ level = Limit[k]
                /\ lastRefil' = [lastRefil EXCEPT ![k] = now]
              \/ k \in known /\ level = Refilled(k, Whole(k))
                /\ lastRefil' = [lastRefil EXCEPT ![k] = IF Whole(k) > 0 THEN now ELSE @]
<1>1. CASE AllowNew(k)
  BY <1>1, LimiterAssumption DEF AllowNew
<1>2. CASE AllowKnown(k)
  <2>1. Earned(k) = {Whole(k)}
    BY EarnedIs DEF Filled
  <2>2. Refilled(k, Whole(k)) \in 0 .. Limit[k]
    BY RefilledIs, LimiterAssumption
  <2>3. known' = known \cup {k}
    BY <1>2 DEF AllowKnown
  <2> QED
    BY <1>2, <2>1, <2>2, <2>3 DEF AllowKnown
<1> QED
  BY <1>1, <1>2 DEF Ask

-----------------------------------------------------------------------------
\* What any request leaves in a bucket, overflow or not, is an int within limit.
LEMMA RefilledTyped ==
  ASSUME TypeOK, NEW k \in Keys, NEW n \in Earned(k)
  PROVE  Refilled(k, n) \in (-MaxInt - 1) .. Limit[k]
<1> USE LimiterAssumption
<1>1. /\ tokens[k] \in (-MaxInt - 1) .. MaxInt /\ tokens[k] <= Limit[k]
      /\ Limit[k] \in 1 .. MaxInt /\ MaxInt \in Nat
  BY DEF TypeOK
<1>2. n \in (-MaxInt - 1) .. MaxInt
  <2> DEFINE a == (now - lastRefil[k]) * Limit[k]
  <2>1. a \in Nat
    <3>1. now - lastRefil[k] \in Nat /\ Limit[k] \in Nat
      BY DEF TypeOK
    <3> QED
      BY <3>1, Product
  <2> HIDE DEF a
  <2>2. a \div Minute \in Nat
    BY <2>1, Division
  <2>3. n \in Converted(a \div Minute)
    BY DEF Earned, a
  <2> QED
    BY <1>1, <2>2, <2>3 DEF Converted
<1>3. n > 0 => Plus(tokens[k], n) \in (-MaxInt - 1) .. MaxInt
  BY <1>1, <1>2 DEF Plus
<1> QED
  BY <1>1, <1>2, <1>3 DEF Refilled

\* A request that finds level tokens keeps the types.
LEMMA AnswerTyped ==
  ASSUME TypeOK, NEW k \in Keys, NEW level \in (-MaxInt - 1) .. Limit[k],
         Answer(k, level), known' = known \cup {k},
         lastRefil' \in [Keys -> 0 .. now], lastRefil'[k] <= now,
         \A j \in known \ {k} : lastRefil'[j] = lastRefil[j]
  PROVE  TypeOK'
<1> USE LimiterAssumption DEF TypeOK, Answer
<1> DEFINE left == IF level > 0 THEN level - 1 ELSE level
           answer == IF level > 0 THEN level - 1 ELSE -1
<1>0. /\ left \in (-MaxInt - 1) .. MaxInt /\ left <= Limit[k]
      /\ answer \in -1 .. MaxInt
  BY Limit[k] \in 1 .. MaxInt
<1>L. tokens' = [tokens EXCEPT ![k] = left] /\ remaining' = [remaining EXCEPT ![k] = answer]
  OBVIOUS
<1> HIDE DEF left, answer
<1>1. /\ tokens' \in [Keys -> (-MaxInt - 1) .. MaxInt]
      /\ \A j \in Keys : tokens'[j] <= Limit[j]
  BY <1>0, <1>L
<1>2. remaining' \in [Keys -> -1 .. MaxInt]
  BY <1>0, <1>L
<1>3. count' \in [Keys -> Nat]
  OBVIOUS
<1>4. lastAsk' \in [Keys -> 0 .. now'] /\ \A j \in known' : lastRefil'[j] <= lastAsk'[j]
  OBVIOUS
<1> QED
  BY <1>1, <1>2, <1>3, <1>4

\* Tokens, clocks and counters keep their types, whether ints overflow or not: no
\* bucket holds more than its key's limit, and none was refilled after its last
\* request (allow).
THEOREM TypeCorrect == Spec => []TypeOK
<1> USE LimiterAssumption
<1>1. Init => TypeOK
  BY DEF Init, TypeOK
<1>2. TypeOK /\ [Next]_vars => TypeOK'
  <2> SUFFICES ASSUME TypeOK, [Next]_vars PROVE TypeOK'
    OBVIOUS
  <2>1. ASSUME NEW k \in Keys, AllowNew(k) PROVE TypeOK'
    <3>1. /\ known' = known \cup {k} /\ Answer(k, Limit[k])
          /\ lastRefil' = [lastRefil EXCEPT ![k] = now]
      BY <2>1 DEF AllowNew
    <3>2. /\ lastRefil' \in [Keys -> 0 .. now] /\ lastRefil'[k] <= now
          /\ \A j \in known \ {k} : lastRefil'[j] = lastRefil[j]
      BY <3>1 DEF TypeOK
    <3>3. Limit[k] \in (-MaxInt - 1) .. Limit[k]
      OBVIOUS
    <3> QED
      BY <3>1, <3>2, <3>3, AnswerTyped
  <2>2. ASSUME NEW k \in Keys, AllowKnown(k) PROVE TypeOK'
    <3>1. PICK n \in Earned(k) :
            /\ lastRefil' = [lastRefil EXCEPT ![k] = IF n > 0 THEN now ELSE @]
            /\ Answer(k, Refilled(k, n))
      BY <2>2 DEF AllowKnown
    <3>2. known' = known \cup {k}
      BY <2>2 DEF AllowKnown
    <3>3. /\ lastRefil' \in [Keys -> 0 .. now] /\ lastRefil'[k] <= now
          /\ \A j \in known \ {k} : lastRefil'[j] = lastRefil[j]
      BY <3>1 DEF TypeOK
    <3>4. Refilled(k, n) \in (-MaxInt - 1) .. Limit[k]
      BY RefilledTyped
    <3> QED
      BY <3>1, <3>2, <3>3, <3>4, AnswerTyped
  <2>3. CASE Cleanup \/ Tick \/ Watch \/ UNCHANGED vars
    BY <2>3 DEF TypeOK, Cleanup, Tick, Watch, vars, bucket, watch
  <2> QED
    BY <2>1, <2>2, <2>3 DEF Next, Ask
<1> QED
  BY <1>1, <1>2, PTL DEF Spec

\* Without overflow no bucket is ever below zero.
LEMMA FilledAlways == ASSUME NoOverflow PROVE Spec => []Filled
<1> USE LimiterAssumption DEF NotBelowZero
<1>1. Init => NotBelowZero
  <2>1. ASSUME Init, NEW k \in Keys PROVE tokens[k] >= 0
    <3>1. tokens[k] = 0
      BY <2>1 DEF Init
    <3> QED
      BY <3>1
  <2> QED
    BY <2>1
<1>2. TypeOK /\ NotBelowZero /\ [Next]_vars => NotBelowZero'
  <2> SUFFICES ASSUME TypeOK, NotBelowZero, [Next]_vars PROVE NotBelowZero'
    OBVIOUS
  <2>1. ASSUME NEW k \in Keys, Ask(k) PROVE NotBelowZero'
    <3>1. PICK level \in 0 .. Limit[k] : Answer(k, level)
      BY <2>1, AskIs DEF Filled
    <3>2. tokens' = [tokens EXCEPT ![k] = IF level > 0 THEN level - 1 ELSE level]
      BY <3>1 DEF Answer
    <3>3. ASSUME NEW j \in Keys PROVE tokens'[j] >= 0
      <4>1. CASE j = k
        <5>1. tokens'[k] = IF level > 0 THEN level - 1 ELSE level
          BY <3>2 DEF TypeOK
        <5> QED
          BY <4>1, <5>1
      <4>2. CASE j # k
        BY <3>2, <4>2 DEF TypeOK
      <4> QED
        BY <4>1, <4>2
    <3> QED
      BY <3>3
  <2>2. CASE Cleanup \/ Tick \/ Watch \/ UNCHANGED vars
    BY <2>2 DEF Cleanup, Tick, Watch, vars, bucket, watch
  <2> QED
    BY <2>1, <2>2 DEF Next
<1> HIDE DEF NotBelowZero
<1> QED
  BY <1>1, <1>2, TypeCorrect, PTL DEF Spec, Filled

-----------------------------------------------------------------------------
\* A caller that keeps to its rate is never refused, for any limit and any clock,
\* whatever it asked before and whatever the cleanup has swept away.
THEOREM SteadyCallers == ASSUME NoOverflow PROVE Spec => SteadyIsServed
<1> USE LimiterAssumption
<1>1. ASSUME Filled, NEW k \in Keys, Ask(k), (now - lastAsk[k]) * Limit[k] >= Minute
      PROVE  remaining'[k] >= 0
  <2>1. PICK level \in 0 .. Limit[k] :
          /\ Answer(k, level)
          /\ \/ k \notin known /\ level = Limit[k]
             \/ k \in known /\ level = Refilled(k, Whole(k))
    BY <1>1, AskIs
  <2>2. level > 0
    <3>1. CASE k \notin known
      BY <2>1, <3>1
    <3>2. CASE k \in known
      <4>1. /\ now - lastAsk[k] \in Nat /\ now - lastRefil[k] \in Nat
            /\ now - lastAsk[k] <= now - lastRefil[k] /\ Limit[k] \in Nat \ {0}
        BY <1>1, <3>2 DEF Filled, TypeOK
      <4>2. (now - lastAsk[k]) * Limit[k] <= (now - lastRefil[k]) * Limit[k]
        BY <4>1, Product
      <4>3. /\ Whole(k) \in Nat
            /\ (now - lastRefil[k]) * Limit[k] < Minute * Whole(k) + Minute
        BY <1>1, EarnedIs DEF Filled
      <4>4. Minute * 0 < Minute * Whole(k)
        <5> DEFINE a == (now - lastAsk[k]) * Limit[k]
                   b == (now - lastRefil[k]) * Limit[k]
        <5>1. a \in Nat /\ b \in Nat /\ Minute * Whole(k) \in Nat
          BY <4>1, <4>3, Product
        <5>2. a >= Minute /\ a <= b /\ b < Minute * Whole(k) + Minute
          BY <1>1, <4>2, <4>3
        <5> HIDE DEF a, b
        <5> QED
          BY <5>1, <5>2
      <4>5. Whole(k) > 0
        BY <4>3, <4>4, Cancel
      <4>6. /\ tokens[k] \in Nat
            /\ level = Limit[k] \/ level = tokens[k] + Whole(k)
        BY <1>1, <2>1, <3>2, RefilledIs DEF Filled, NotBelowZero, TypeOK
      <4> QED
        BY <4>1, <4>3, <4>5, <4>6
    <3> QED
      BY <3>1, <3>2
  <2>3. remaining'[k] = level - 1
    BY <1>1, <2>1, <2>2 DEF Answer, Filled, TypeOK
  <2> QED
    BY <2>2, <2>3
<1>2. Filled /\ [Next]_vars =>
        [\A k \in Keys : Ask(k) /\ (now - lastAsk[k]) * Limit[k] >= Minute
                           => remaining'[k] >= 0]_vars
  BY <1>1
<1> QED
  BY <1>2, FilledAlways, PTL DEF Spec, SteadyIsServed

\* A sweep changes no answer: what it drops would have been full again.
THEOREM SweepIsInvisible == ASSUME NoOverflow PROVE Spec => CleanupIsInvisible
<1> USE LimiterAssumption
<1>1. ASSUME Filled, Cleanup, NEW k \in Keys PROVE Levels(k)' = Levels(k)
  <2>1. UNCHANGED <<now, tokens, lastRefil>>
    BY <1>1 DEF Cleanup
  <2>2. /\ \A n : Refilled(k, n)' = Refilled(k, n)
        /\ Earned(k)' = Earned(k)
    BY <2>1 DEF Refilled, Earned, Plus, Converted
  <2>3. CASE k \in known <=> k \in known'
    BY <2>2, <2>3 DEF Levels
  <2>4. CASE k \in known /\ k \notin known'
    <3>1. now - lastRefil[k] > 2 * Minute
      BY <1>1, <2>4 DEF Cleanup, Stale
    <3>2. /\ 2 * Minute \in Nat /\ now - lastRefil[k] \in Nat /\ Limit[k] \in Nat \ {0}
          /\ 2 * Minute <= now - lastRefil[k]
      BY <1>1, <3>1 DEF Filled, TypeOK
    <3>3. 2 * Minute * Limit[k] <= (now - lastRefil[k]) * Limit[k]
      BY <3>2, Product
    <3>4. /\ Whole(k) \in Nat
          /\ (now - lastRefil[k]) * Limit[k] < Minute * Whole(k) + Minute
      BY <1>1, EarnedIs DEF Filled
    <3>5. Minute * Limit[k] < Minute * (Whole(k) + 1)
      <4>1. Minute * Limit[k] \in Nat /\ (now - lastRefil[k]) * Limit[k] \in Nat
        BY <3>2, Product
      <4>2. /\ 2 * Minute * Limit[k] = Minute * Limit[k] + Minute * Limit[k]
            /\ Minute * (Whole(k) + 1) = Minute * Whole(k) + Minute
        BY <3>2, <3>4
      <4>3. Minute * Limit[k] <= 2 * Minute * Limit[k]
        BY <4>1, <4>2
      <4> QED
        BY <3>3, <3>4, <4>1, <4>2, <4>3
    <3>6. Limit[k] < Whole(k) + 1
      BY <3>2, <3>4, <3>5, Cancel
    <3>7. Refilled(k, Whole(k)) = Limit[k]
      <4>1. /\ tokens[k] \in Nat
            /\ Refilled(k, Whole(k)) <= Limit[k]
            /\ \/ Refilled(k, Whole(k)) = Limit[k]
               \/ Refilled(k, Whole(k)) = tokens[k] + Whole(k)
        BY <1>1, RefilledIs DEF Filled, NotBelowZero, TypeOK
      <4> QED
        BY <3>2, <3>4, <3>6, <4>1
    <3>8. Levels(k) = {Limit[k]}
      <4>1. Earned(k) = {Whole(k)}
        BY <1>1, EarnedIs DEF Filled
      <4> QED
        BY <2>4, <3>7, <4>1 DEF Levels
    <3> QED
      BY <2>4, <3>8 DEF Levels
  <2> QED
    BY <1>1, <2>3, <2>4 DEF Cleanup
<1>2. Filled /\ [Next]_vars => [Cleanup => \A k \in Keys : Levels(k)' = Levels(k)]_vars
  BY <1>1
<1> QED
  BY <1>2, FilledAlways, PTL DEF Spec, CleanupIsInvisible

-----------------------------------------------------------------------------
\* The inductive invariant behind WindowBound.  While the observed minute runs,
\* a bucket last refilled before it can spend what it holds, and has allowed
\* something only if no whole token was due; one refilled within it has got no
\* more than a full bucket, the rate since the minute began, and a remainder.
Open == now < mark + Minute
Early(k) == lastRefil[k] < mark
Unrefilled(k) == /\ count[k] + tokens[k] <= Limit[k]
                 /\ count[k] > 0 => (mark - lastRefil[k]) * Limit[k] < Minute
Refreshed(k) == Minute * (count[k] + tokens[k])
                  < Minute * Limit[k] + (lastRefil[k] - mark) * Limit[k] + Minute
Spent(k) == IF k \in known
            THEN IF Early(k) THEN Unrefilled(k) ELSE Refreshed(k)
            ELSE count[k] = 0
WindowInv == \A k \in Keys : IF Open THEN Spent(k) ELSE count[k] <= 2 * Limit[k]

\* While the minute runs, what was spent is at most two buckets.
LEMMA SpentBound ==
  ASSUME Filled, NEW k \in Keys, Open, Spent(k)
  PROVE  count[k] <= 2 * Limit[k]
<1> USE LimiterAssumption
<1>1. /\ count[k] \in Nat /\ tokens[k] \in Nat /\ Limit[k] \in Nat \ {0}
      /\ lastRefil[k] \in Nat /\ mark \in Nat /\ now \in Nat /\ lastRefil[k] <= now
      /\ Minute \in Nat \ {0}
  BY DEF Filled, NotBelowZero, TypeOK
<1>2. CASE ~(k \in known /\ ~Early(k))
  BY <1>1, <1>2 DEF Spent, Unrefilled
<1>3. CASE k \in known /\ ~Early(k)
  <2> DEFINE gone == (lastRefil[k] - mark) * Limit[k]
             c == count[k]
             t == tokens[k]
             L == Limit[k]
  <2>1. Minute * (c + t) < Minute * L + gone + Minute
    BY <1>3 DEF Spent, Refreshed
  <2>2. gone \in Nat /\ gone <= Minute * L
    <3>1. /\ lastRefil[k] - mark \in Nat
          /\ lastRefil[k] - mark <= Minute
      BY <1>1, <1>3 DEF Early, Open
    <3> QED
      BY <1>1, <3>1, Product
  <2>3. Minute * (c + t) < Minute * (2 * L + 1)
    <3>1. Minute * (2 * L + 1) = Minute * L + Minute * L + Minute
      BY <1>1
    <3>2. Minute * L \in Nat /\ Minute * (c + t) \in Nat
      BY <1>1
    <3> HIDE DEF gone, c, t, L
    <3> QED
      BY <1>1, <2>1, <2>2, <3>1, <3>2
  <2>4. c + t < 2 * L + 1
    BY <1>1, <2>3, Cancel
  <2> QED
    BY <1>1, <2>4
<1> QED
  BY <1>2, <1>3

\* A request in the observed minute keeps the account of its key.
LEMMA AskSpends ==
  ASSUME NoOverflow, Filled, NEW k \in Keys, Open, Spent(k), Ask(k)
  PROVE  Spent(k)'
<1> USE LimiterAssumption
<1> DEFINE c == count[k]
           t == tokens[k]
           l == lastRefil[k]
           L == Limit[k]
           n == Whole(k)
<1>1. /\ c \in Nat /\ t \in Nat /\ L \in Nat \ {0} /\ l \in Nat /\ t <= L
      /\ mark \in Nat /\ now \in Nat /\ l <= now /\ mark <= now /\ Minute \in Nat \ {0}
  BY DEF Filled, NotBelowZero, TypeOK
<1>2. PICK level \in 0 .. Limit[k] :
        /\ Answer(k, level)
        /\ known' = known \cup {k}
        /\ \/ k \notin known /\ level = Limit[k]
             /\ lastRefil' = [lastRefil EXCEPT ![k] = now]
           \/ k \in known /\ level = Refilled(k, n)
             /\ lastRefil' = [lastRefil EXCEPT ![k] = IF n > 0 THEN now ELSE @]
  BY AskIs
<1>3. level \in Nat /\ level <= L
  BY <1>1, <1>2
<1>4. /\ k \in known' /\ now' = now /\ mark' = mark
      /\ tokens'[k] = (IF level > 0 THEN level - 1 ELSE level)
      /\ count'[k] = (IF level > 0 THEN c + 1 ELSE c)
  BY <1>1, <1>2 DEF Answer, Open, Filled, TypeOK
<1>5. count'[k] + tokens'[k] = c + level /\ count'[k] \in Nat /\ tokens'[k] \in Nat
  BY <1>1, <1>3, <1>4
\* The clock of the bucket starts again now: what must hold of the new sum.
<1>6. ASSUME lastRefil'[k] = now,
             Minute * (c + level) < Minute * L + (now - mark) * L + Minute
      PROVE  Spent(k)'
  <2>1. ~Early(k)'
    BY <1>1, <1>4, <1>6 DEF Early
  <2>2. Refreshed(k)'
    BY <1>4, <1>5, <1>6 DEF Refreshed
  <2> QED
    BY <1>4, <2>1, <2>2 DEF Spent
<1>7. (now - mark) * L \in Nat /\ Minute * L \in Nat
  BY <1>1, Product
<1>8. CASE k \notin known
  <2>1. c = 0 /\ level = L /\ lastRefil'[k] = now
    BY <1>2, <1>8 DEF Spent, Filled, TypeOK
  <2> QED
    BY <1>1, <1>6, <1>7, <2>1
<1>9. CASE k \in known
  <2>1. /\ level = Refilled(k, n)
        /\ lastRefil'[k] = IF n > 0 THEN now ELSE l
    BY <1>2, <1>9 DEF Filled, TypeOK
  <2>2. /\ n \in Nat /\ Minute * n <= (now - l) * L
        /\ (now - l) * L < Minute * n + Minute
    BY EarnedIs DEF Filled
  <2>3. level <= L /\ t <= level /\ level <= t + n
    BY <2>1, RefilledIs
  <2>4. CASE n = 0
    <3>1. level = t /\ lastRefil'[k] = l /\ count'[k] + tokens'[k] = c + t
      BY <1>1, <1>3, <1>5, <2>1, <2>3, <2>4
    <3>2. CASE Early(k)
      <4>1. (mark - l) * L < Minute
        <5>1. /\ mark - l \in Nat /\ now - l \in Nat /\ mark - l <= now - l
          BY <1>1, <3>2 DEF Early
        <5>2. (mark - l) * L <= (now - l) * L /\ (mark - l) * L \in Nat
          BY <1>1, <5>1, Product
        <5>3. (now - l) * L < Minute
          BY <1>1, <2>2, <2>4
        <5>4. (now - l) * L \in Nat
          BY <1>1, <5>1, Product
        <5> HIDE DEF l, L
        <5> QED
          BY <1>1, <5>2, <5>3, <5>4
      <4>2. c + t <= L
        BY <1>9, <3>2 DEF Spent, Unrefilled
      <4>3. Unrefilled(k)'
        BY <1>4, <3>1, <4>1, <4>2 DEF Unrefilled
      <4>4. Early(k)'
        BY <1>4, <3>1, <3>2 DEF Early
      <4> QED
        BY <1>4, <4>3, <4>4 DEF Spent
    <3>3. CASE ~Early(k)
      <4>1. Refreshed(k)
        BY <1>9, <3>3 DEF Spent
      <4>2. Refreshed(k)' /\ ~Early(k)'
        BY <1>4, <3>1, <3>3, <4>1 DEF Refreshed, Early
      <4> QED
        BY <1>4, <4>2 DEF Spent
    <3> QED
      BY <3>2, <3>3
  <2>5. CASE n > 0
    <3>1. lastRefil'[k] = now
      BY <2>1, <2>5
    <3>2. /\ Minute * (c + level) \in Nat /\ Minute * n \in Nat /\ Minute * (c + t) \in Nat
          /\ Minute * (c + level) <= Minute * (c + t) + Minute * n
      <4>1. c + level <= c + t + n /\ c + level \in Nat /\ c + t + n \in Nat
        BY <1>1, <1>3, <2>2, <2>3
      <4>2. (c + level) * Minute <= (c + t + n) * Minute
        BY <1>1, <4>1, Product
      <4>3. (c + t + n) * Minute = Minute * (c + t) + Minute * n
        BY <1>1, <2>2
      <4> QED
        BY <1>1, <1>3, <2>2, <4>2, <4>3
    <3>3. CASE Early(k) /\ c = 0
      <4>1. Minute * (c + level) <= Minute * L
        <5>1. c + level = level /\ level \in Nat /\ L \in Nat /\ level <= L /\ Minute \in Nat
          BY <1>1, <1>3, <3>3
        <5>2. level * Minute <= L * Minute
          BY <5>1, Product
        <5>3. Minute * (c + level) = level * Minute /\ Minute * L = L * Minute
          BY <5>1
        <5> QED
          BY <5>2, <5>3
      <4> QED
        BY <1>1, <1>6, <1>7, <3>1, <3>2, <4>1
    <3>4. CASE Early(k) /\ c > 0
      <4>1. c + t <= L /\ (mark - l) * L < Minute
        BY <1>9, <3>4 DEF Spent, Unrefilled
      <4>2. (now - l) * L = (now - mark) * L + (mark - l) * L
        BY <1>1
      <4>3. Minute * (c + t) <= Minute * L
        <5>1. c + t \in Nat /\ L \in Nat /\ Minute \in Nat
          BY <1>1
        <5>2. (c + t) * Minute <= L * Minute
          BY <4>1, <5>1, Product
        <5> HIDE DEF c, t, L
        <5> QED
          BY <5>1, <5>2
      <4>4. (mark - l) * L \in Int
        BY <1>1
      <4>5. Minute * (c + level) < Minute * L + (now - mark) * L + Minute
        <5> HIDE DEF c, t, l, L, n
        <5> QED
          BY <1>1, <1>7, <2>2, <3>2, <4>1, <4>2, <4>3, <4>4
      <4> QED
        BY <1>6, <3>1, <4>5
    <3>5. CASE ~Early(k)
      <4>1. Minute * (c + t) < Minute * L + (l - mark) * L + Minute
        BY <1>9, <3>5 DEF Spent, Refreshed
      <4>2. (l - mark) * L + (now - l) * L = (now - mark) * L
        BY <1>1
      <4>3. (l - mark) * L \in Int /\ (now - l) * L \in Int
        BY <1>1
      <4>4. Minute * (c + level) < Minute * L + (now - mark) * L + Minute
        <5> HIDE DEF c, t, l, L, n
        <5> QED
          BY <1>1, <1>7, <2>2, <3>2, <4>1, <4>2, <4>3
      <4> QED
        BY <1>6, <3>1, <4>4
    <3> QED
      BY <1>1, <3>3, <3>4, <3>5
  <2> QED
    BY <2>2, <2>4, <2>5
<1> QED
  BY <1>8, <1>9

\* No key is allowed more than twice its limit within a minute, wherever the
\* minute begins and whatever the cleanup sweeps away: for any limits, any clock
\* resolution and any number of keys.
THEOREM WindowIsBounded == ASSUME NoOverflow PROVE Spec => []WindowBound
<1> USE LimiterAssumption
<1>1. Init => WindowInv
  <2> SUFFICES ASSUME Init, NEW k \in Keys PROVE Open /\ Spent(k)
    BY DEF WindowInv
  <2>1. count[k] = 0 /\ k \notin known /\ now = 0 /\ mark = 0
    BY DEF Init
  <2> QED
    BY <2>1 DEF Spent, Open
<1>2. Filled /\ WindowInv /\ [Next]_vars => WindowInv'
  <2> SUFFICES ASSUME Filled, WindowInv, [Next]_vars, NEW k \in Keys
               PROVE  IF Open' THEN Spent(k)' ELSE count'[k] <= 2 * Limit[k]
    BY DEF WindowInv
  <2>1. count[k] <= 2 * Limit[k] /\ (Open => Spent(k))
    BY SpentBound DEF WindowInv
  <2>2. CASE Ask(k)
    <3>1. Open' <=> Open
      BY <2>2 DEF Ask, AllowNew, AllowKnown, Answer, Open
    <3>2. CASE Open
      BY <2>1, <2>2, <3>1, <3>2, AskSpends
    <3>3. CASE ~Open
      <4>1. PICK level \in 0 .. Limit[k] : Answer(k, level)
        BY <2>2, AskIs
      <4>2. count' = count
        BY <3>3, <4>1 DEF Answer, Open, Filled, TypeOK
      <4> QED
        BY <2>1, <3>1, <3>3, <4>2
    <3> QED
      BY <3>2, <3>3
  <2>3. ASSUME NEW j \in Keys, j # k, Ask(j)
        PROVE  IF Open' THEN Spent(k)' ELSE count'[k] <= 2 * Limit[k]
    <3>1. PICK level \in 0 .. Limit[j] :
            /\ Answer(j, level) /\ known' = known \cup {j}
            /\ lastRefil' \in {[lastRefil EXCEPT ![j] = now],
                               [lastRefil EXCEPT ![j] = IF Whole(j) > 0 THEN now ELSE @]}
      BY <2>3, AskIs
    <3>2. /\ count'[k] = count[k] /\ tokens'[k] = tokens[k] /\ lastRefil'[k] = lastRefil[k]
          /\ k \in known' <=> k \in known
          /\ now' = now /\ mark' = mark
      BY <2>3, <3>1 DEF Answer, Filled, TypeOK
    <3> QED
      BY <2>1, <3>2 DEF Open, Spent, Early, Unrefilled, Refreshed
  <2>4. CASE Cleanup
    <3>1. UNCHANGED <<now, mark, count, tokens, lastRefil>>
      BY <2>4 DEF Cleanup, watch
    <3>2. CASE k \in known <=> k \in known'
      BY <2>1, <3>1, <3>2 DEF Open, Spent, Early, Unrefilled, Refreshed
    <3>3. CASE k \in known /\ k \notin known'
      <4>1. now - lastRefil[k] > 2 * Minute
        BY <2>4, <3>3 DEF Cleanup, Stale
      <4>2. Open => count[k] = 0
        <5> SUFFICES ASSUME Open, count[k] # 0 PROVE FALSE
          OBVIOUS
        <5>1. /\ mark \in Nat /\ now \in Nat /\ lastRefil[k] \in Nat /\ count[k] \in Nat
              /\ Limit[k] \in Nat \ {0} /\ Minute \in Nat \ {0} /\ now < mark + Minute
          BY DEF Filled, TypeOK, Open
        <5>2. Early(k) /\ mark - lastRefil[k] \in Nat /\ Minute <= mark - lastRefil[k]
          BY <4>1, <5>1 DEF Early
        <5>3. (mark - lastRefil[k]) * Limit[k] < Minute
          BY <2>1, <3>3, <5>1, <5>2 DEF Spent, Unrefilled
        <5>4. /\ Minute * Limit[k] <= (mark - lastRefil[k]) * Limit[k]
              /\ 1 * Minute <= Limit[k] * Minute
          BY <5>1, <5>2, Product
        <5> QED
          BY <5>1, <5>3, <5>4
      <4> QED
        BY <2>1, <3>1, <3>3, <4>2 DEF Open, Spent
    <3> QED
      BY <2>4, <3>2, <3>3 DEF Cleanup
  <2>5. CASE Tick
    <3>1. /\ UNCHANGED <<known, tokens, lastRefil, count, mark>>
          /\ now' = now + 1 /\ now \in Int /\ mark \in Int
      BY <2>5 DEF Tick, bucket, watch, Filled, TypeOK
    <3>2. Open' => Open
      BY <3>1 DEF Open
    <3> QED
      BY <2>1, <3>1, <3>2 DEF Spent, Early, Unrefilled, Refreshed
  <2>6. CASE Watch
    <3>1. /\ UNCHANGED <<now, known, tokens, lastRefil>>
          /\ mark' = now /\ count'[k] = 0
      BY <2>6 DEF Watch, bucket
    <3>2. /\ tokens[k] \in Nat /\ tokens[k] <= Limit[k] /\ Limit[k] \in Nat
          /\ lastRefil[k] \in Nat /\ now \in Nat /\ lastRefil[k] <= now /\ Minute \in Nat \ {0}
      BY DEF Filled, NotBelowZero, TypeOK
    <3>3. CASE lastRefil[k] < now
      BY <3>1, <3>2, <3>3 DEF Spent, Early, Unrefilled
    <3>4. CASE lastRefil[k] = now
      <4>1. /\ Minute * (0 + tokens[k]) <= Minute * Limit[k]
            /\ Minute * tokens[k] \in Nat /\ Minute * Limit[k] \in Nat
            /\ (lastRefil[k] - now) * Limit[k] = 0
        BY <3>2, <3>4, Product
      <4>2. Refreshed(k)' /\ ~Early(k)'
        BY <3>1, <3>2, <3>4, <4>1 DEF Refreshed, Early
      <4> QED
        BY <3>1, <3>2, <4>2 DEF Spent
    <3>5. Open'
      BY <3>1, <3>2 DEF Open
    <3> QED
      BY <3>2, <3>3, <3>4, <3>5
  <2>7. CASE UNCHANGED vars
    BY <2>1, <2>7 DEF vars, bucket, watch, Open, Spent, Early, Unrefilled, Refreshed
  <2> QED
    BY <2>2, <2>3, <2>4, <2>5, <2>6, <2>7 DEF Next
<1>3. Filled /\ WindowInv => WindowBound
  BY SpentBound DEF WindowInv, WindowBound
<1> QED
  BY <1>1, <1>2, <1>3, FilledAlways, PTL DEF Spec
=============================================================================

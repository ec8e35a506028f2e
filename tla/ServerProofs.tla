--------------------------- MODULE ServerProofs ----------------------------
(***************************************************************************)
(* What holds of Server, and of the ESI proxy in it, for any number of     *)
(* requests and paths and for all times in the order of the code's.  A     *)
(* request is over in time because the rest of its attempt or its wait     *)
(* always fits (Timing).  None is cut off because a request that is there  *)
(* when the listeners close is as old as the shutdown (Shutdown).          *)
(***************************************************************************)
EXTENDS Server, TLAPS

Timing == \A r \in Requests :
    /\ pc[r] \in {"idle", "look", "judge", "drop"} => elapsed[r] = 0 /\ tries[r] = 0
    /\ pc[r] \in {"idle", "look", "judge", "drop"} => timer[r] = 0
    /\ pc[r] \in {"look", "judge", "drop", "try", "wait", "got"} => path[r] \in Paths
    /\ pc[r] = "try" =>
          /\ elapsed[r] + timer[r] <= Longest
          /\ tries[r] >= 1
          /\ tries[r] = 1 => elapsed[r] + timer[r] <= AttemptTimeout
    /\ pc[r] = "wait" =>
          /\ elapsed[r] + timer[r] <= Budget
          /\ tries[r] >= 1 /\ tries[r] <= MaxRetries
    /\ pc[r] = "got" =>
          /\ elapsed[r] <= Longest
          /\ tries[r] >= 1
          /\ tries[r] = 1 => elapsed[r] <= AttemptTimeout

EsiInv == EsiTypeOK /\ Timing

\* From the signal on nobody starts a run, and without one main does not wait.
Shutdown ==
    /\ phase = "stopping" /\ calm => cron = 0 /\ budget = ShutdownBudget
    /\ phase = "closing" => cron = 0
    /\ phase = "closing" /\ calm =>
          \A r \in Requests : pc[r] # "idle" => elapsed[r] + budget >= ShutdownBudget

LifeTypeOK ==
    /\ phase \in {"up", "stopping", "closing", "down"}
    /\ budget \in 0 .. ShutdownBudget
    /\ cron \in 0 .. MaxRuns
    /\ calm \in BOOLEAN

Inv == EsiInv /\ LifeTypeOK /\ Shutdown

-----------------------------------------------------------------------------
\* Typing, one lemma for what ends a request and one for what begins an attempt.
LEMMA AnswerKeeps ==
  ASSUME EsiInv, NEW r \in Requests, Answer(r),
         held' \subseteq Paths, left' \in [Paths -> Int],
         \A p \in Paths : -1 <= left'[p] /\ left'[p] <= Life[p],
         \A p \in Paths \ held' : left'[p] = -1
  PROVE  EsiInv'
<1> USE EsiAssumption DEF EsiInv
<1>1. /\ pc' \in [Requests -> {"idle", "look", "judge", "drop", "try", "wait", "got"}]
      /\ path' \in [Requests -> Paths \cup {NoPath}]
      /\ stale' \in [Requests -> BOOLEAN]
  BY DEF Answer, Goto, EsiTypeOK
<1>2. /\ tries' \in [Requests -> 0 .. MaxRetries + 1]
      /\ timer' \in [Requests -> Nat] /\ elapsed' \in [Requests -> Nat]
  BY DEF Answer, EsiTypeOK
<1>3. \A q \in Requests : pc'[q] # "idle" => path'[q] \in Paths
  BY DEF Answer, Goto, EsiTypeOK
<1>4. EsiTypeOK'
  BY <1>1, <1>2, <1>3 DEF EsiTypeOK
<1>5. Timing'
  BY DEF Answer, Goto, EsiTypeOK, Timing
<1> QED BY <1>4, <1>5

LEMMA AttemptKeeps ==
  ASSUME EsiInv, NEW r \in Requests, Attempt(r), UNCHANGED <<path, elapsed>>,
         stale' \in [Requests -> BOOLEAN],
         pc[r] \in {"look", "judge", "drop", "wait"},
         held' \subseteq Paths, left' = left, \A p \in Paths \ held' : left[p] = -1
  PROVE  EsiInv'
<1> USE EsiAssumption DEF EsiInv
<1>1. pc' \in [Requests -> {"idle", "look", "judge", "drop", "try", "wait", "got"}]
  BY DEF Attempt, Goto, EsiTypeOK
<1>2. tries[r] <= MaxRetries /\ tries[r] \in Nat
  BY DEF EsiTypeOK, Timing
<1>3. tries' \in [Requests -> 0 .. MaxRetries + 1] /\ timer' \in [Requests -> Nat]
  BY <1>2 DEF Attempt, EsiTypeOK
<1>4. \A q \in Requests : pc'[q] # "idle" => path'[q] \in Paths
  BY DEF Attempt, Goto, EsiTypeOK
<1>5. EsiTypeOK'
  BY <1>1, <1>3, <1>4 DEF EsiTypeOK
<1>6. /\ pc[r] \in {"look", "judge", "drop"} => elapsed[r] = 0 /\ tries[r] = 0
      /\ pc[r] = "wait" => elapsed[r] <= Budget /\ tries[r] >= 1
      /\ path[r] \in Paths /\ elapsed[r] \in Nat
  BY DEF EsiTypeOK, Timing
<1>7. /\ pc' = [pc EXCEPT ![r] = "try"] /\ tries' = [tries EXCEPT ![r] = @ + 1]
      /\ timer' = [timer EXCEPT ![r] = AttemptTimeout] /\ UNCHANGED <<path, elapsed>>
  BY DEF Attempt, Goto
<1>8. /\ elapsed[r] + AttemptTimeout <= Longest /\ tries[r] + 1 >= 1
      /\ tries[r] + 1 = 1 => elapsed[r] + AttemptTimeout <= AttemptTimeout
  BY <1>2, <1>6 DEF Longest
<1>9. Timing'
  BY <1>6, <1>7, <1>8 DEF EsiTypeOK, Timing
<1> QED BY <1>5, <1>9

-----------------------------------------------------------------------------
LEMMA EsiInitOK == EsiInit => EsiInv
BY EsiAssumption DEF EsiInit, EsiInv, EsiTypeOK, Timing

LEMMA EsiStepKeeps ==
  ASSUME EsiInv, NEW r \in Requests, Step(r)
  PROVE  EsiInv'
<1> USE EsiAssumption
<1>1. CASE Look(r)
  <2>1. CASE path[r] \in held /\ Goto(r, "judge")
    <3>1. /\ pc[r] = "look" /\ pc' = [pc EXCEPT ![r] = "judge"]
          /\ stale' = [stale EXCEPT ![r] = left[path[r]] < 0]
          /\ UNCHANGED <<held, left, path, tries, timer, elapsed>>
      BY <1>1, <2>1 DEF Look, Goto, Attempt, EsiInv, EsiTypeOK, entries
    <3>2. stale' \in [Requests -> BOOLEAN]
      BY <3>1 DEF EsiInv, EsiTypeOK
    <3>3. EsiTypeOK'
      BY <3>1, <3>2 DEF EsiInv, EsiTypeOK
    <3> QED BY <3>1, <3>3 DEF EsiInv, EsiTypeOK, Timing
  <2>2. CASE path[r] \notin held /\ Attempt(r)
    BY <1>1, <2>2, AttemptKeeps DEF Look, EsiInv, EsiTypeOK, entries
  <2> QED BY <1>1, <2>1, <2>2 DEF Look
<1>2. CASE Judge(r)
  <2>1. CASE Answer(r)
    BY <1>2, <2>1, AnswerKeeps DEF Judge, EsiInv, EsiTypeOK, entries
  <2>2. CASE pc[r] = "judge" /\ Goto(r, "drop")
             /\ UNCHANGED <<held, left, path, stale, tries, timer, elapsed>>
    BY <2>2 DEF EsiInv, EsiTypeOK, Timing, Goto
  <2> QED BY <1>2, <2>1, <2>2 DEF Judge, entries
<1>3. CASE Drop(r)
  <2>1. /\ pc[r] = "drop" /\ Attempt(r) /\ UNCHANGED <<left, path, stale, elapsed>>
        /\ held' = IF left[path[r]] < 0 THEN held \ {path[r]} ELSE held
    BY <1>3 DEF Drop
  <2>2. path[r] \in Paths
    BY <2>1 DEF EsiInv, EsiTypeOK
  <2>3. held' \subseteq Paths /\ \A p \in Paths \ held' : left[p] = -1
    BY <2>1, <2>2 DEF EsiInv, EsiTypeOK
  <2> QED BY <2>1, <2>3, AttemptKeeps DEF EsiInv, EsiTypeOK
<1>4. CASE Succeed(r)
  <2>1. /\ pc[r] = "try" /\ pc' = [pc EXCEPT ![r] = "got"]
        /\ UNCHANGED <<held, left, path, stale, tries, timer, elapsed>>
    BY <1>4 DEF Succeed, Goto, entries
  <2>2. /\ elapsed[r] <= Longest /\ tries[r] >= 1
        /\ tries[r] = 1 => elapsed[r] <= AttemptTimeout
    BY <2>1 DEF EsiInv, EsiTypeOK, Timing, Longest
  <2> QED BY <2>1, <2>2 DEF EsiInv, EsiTypeOK, Timing
<1>5. CASE Fail(r)
  BY <1>5, AnswerKeeps DEF Fail, EsiInv, EsiTypeOK, entries
<1>6. CASE Retry(r)
  <2>1. CASE Answer(r)
    BY <1>6, <2>1, AnswerKeeps DEF Retry, EsiInv, EsiTypeOK, entries
  <2>2. CASE ~Answer(r)
    <3> DEFINE t == Least(Wait(tries[r]), Budget - elapsed[r])
    <3>1. /\ pc[r] = "try" /\ elapsed[r] < Budget /\ tries[r] <= MaxRetries
          /\ pc' = [pc EXCEPT ![r] = "wait"] /\ timer' = [timer EXCEPT ![r] = t]
          /\ UNCHANGED <<held, left, path, stale, tries, elapsed>>
      BY <1>6, <2>2 DEF Retry, Goto, entries
    <3>2. tries[r] \in 1 .. MaxRetries /\ elapsed[r] \in Nat
      BY <3>1 DEF EsiInv, EsiTypeOK, Timing
    <3>3. t \in Nat /\ elapsed[r] + t <= Budget
      BY <3>1, <3>2 DEF Least
    <3> HIDE DEF t
    <3>4. EsiTypeOK'
      BY <3>1, <3>3 DEF EsiInv, EsiTypeOK
    <3> QED BY <3>1, <3>2, <3>3, <3>4 DEF EsiInv, EsiTypeOK, Timing
  <2> QED BY <2>1, <2>2
<1>7. CASE Wake(r)
  BY <1>7, AttemptKeeps DEF Wake, EsiInv, EsiTypeOK, entries
<1>8. CASE SetCached(r)
  <2>1. pc[r] = "got" /\ Answer(r) /\ path[r] \in Paths
    BY <1>8 DEF SetCached, EsiInv, EsiTypeOK
  <2>2. CASE UNCHANGED entries
    BY <2>1, <2>2, AnswerKeeps DEF EsiInv, EsiTypeOK, entries
  <2>3. CASE held' = held \cup {path[r]} /\ left' = [left EXCEPT ![path[r]] = Life[path[r]]]
    <3>1. /\ held' \subseteq Paths /\ left' \in [Paths -> Int]
          /\ \A p \in Paths : -1 <= left'[p] /\ left'[p] <= Life[p]
          /\ \A p \in Paths \ held' : left'[p] = -1
      BY <2>1, <2>3 DEF EsiInv, EsiTypeOK
    <3> QED BY <2>1, <3>1, AnswerKeeps
  <2> QED BY <1>8, <2>2, <2>3 DEF SetCached
<1> QED BY <1>1, <1>2, <1>3, <1>4, <1>5, <1>6, <1>7, <1>8 DEF Step

LEMMA EsiKept ==
  ASSUME EsiInv, [EsiNext]_esi
  PROVE  EsiInv'
<1> USE EsiAssumption
<1>1. ASSUME NEW r \in Requests, NEW p \in Paths, Request(r, p)
      PROVE  EsiInv'
  <2>1. EsiTypeOK'
    BY <1>1 DEF Request, Goto, entries, EsiInv, EsiTypeOK
  <2>2. Timing'
    BY <1>1 DEF Request, Goto, entries, EsiInv, EsiTypeOK, Timing
  <2> QED BY <2>1, <2>2 DEF EsiInv
<1>2. CASE ClearCache
  BY <1>2 DEF ClearCache, calls, EsiInv, EsiTypeOK, Timing
<1>3. CASE Pass
  <2>1. /\ timer' \in [Requests -> Nat] /\ elapsed' \in [Requests -> Nat]
        /\ left' \in [Paths -> Int]
    BY <1>3 DEF Pass, Waiting, EsiInv, EsiTypeOK
  <2>2. \A p \in Paths : /\ -1 <= left'[p] /\ left'[p] <= Life[p]
                         /\ p \notin held => left'[p] = -1
    BY <1>3 DEF Pass, EsiInv, EsiTypeOK
  <2>3. EsiTypeOK'
    BY <1>3, <2>1, <2>2 DEF Pass, EsiInv, EsiTypeOK
  <2>4. ASSUME NEW r \in Requests
        PROVE  \/ UNCHANGED <<timer[r], elapsed[r]>>
               \/ /\ pc[r] \in {"try", "wait"}
                  /\ timer'[r] = timer[r] - 1 /\ elapsed'[r] = elapsed[r] + 1
    BY <1>3 DEF Pass, Waiting
  <2>5. UNCHANGED <<pc, path, tries>>
    BY <1>3 DEF Pass
  <2>6. Timing'
    BY <2>4, <2>5 DEF EsiInv, EsiTypeOK, Timing
  <2> QED BY <2>3, <2>6 DEF EsiInv
<1>4. CASE Cut
  BY <1>4 DEF Cut, entries, EsiInv, EsiTypeOK, Timing
<1>5. CASE UNCHANGED esi
  BY <1>5 DEF esi, entries, calls, EsiInv, EsiTypeOK, Timing
<1> QED BY <1>1, <1>2, <1>3, <1>4, <1>5, EsiStepKeeps DEF EsiNext

-----------------------------------------------------------------------------
\* Whatever the server does, its proxy takes a step of the proxy, or none.
LEMMA ServerStep ==
  ASSUME [Next]_vars
  PROVE  [EsiNext]_esi
BY DEF Next, vars, Work, Arrive, Clear, CronRun, CronEnds, Signal, Stopped, Return, Tick,
       EsiNext

LEMMA LifeKept ==
  ASSUME Inv, [Next]_vars
  PROVE  LifeTypeOK'
<1> USE ServerAssumption DEF Inv, LifeTypeOK
<1>1. CASE UNCHANGED life
  BY <1>1 DEF life
<1>2. CASE CronRun
  BY <1>2 DEF CronRun
<1>3. CASE CronEnds
  BY <1>3 DEF CronEnds
<1>4. CASE Signal
  <2>1. /\ phase' = "stopping" /\ budget' = ShutdownBudget /\ cron' = cron
        /\ calm' = (cron = 0)
    BY <1>4 DEF Signal
  <2>2. calm' \in BOOLEAN
    BY <2>1
  <2> QED BY <2>1, <2>2
<1>5. CASE Stopped \/ Return
  BY <1>5 DEF Stopped, Return
<1>6. CASE Tick
  BY <1>6 DEF Tick
<1> QED BY <1>1, <1>2, <1>3, <1>4, <1>5, <1>6 DEF Next, Work, Arrive, Clear, vars

LEMMA ShutdownKept ==
  ASSUME Inv, [Next]_vars
  PROVE  Shutdown'
<1> USE ServerAssumption DEF Inv, LifeTypeOK
<1>1. ASSUME NEW r \in Requests, Work(r)
      PROVE  Shutdown'
  \* A step of a request leaves the others, and its age unless it ends.
  <2>1. ASSUME NEW q \in Requests, pc'[q] # "idle"
        PROVE  pc[q] # "idle" /\ elapsed'[q] = elapsed[q]
    BY <1>1, <2>1 DEF Work, Step, Look, Judge, Drop, Succeed, Fail, Retry, Wake, SetCached,
                      Attempt, Answer, Goto, EsiInv, EsiTypeOK
  <2> QED BY <1>1, <2>1 DEF Work, Shutdown, life
<1>2. ASSUME NEW r \in Requests, NEW p \in Paths, Arrive(r, p)
      PROVE  Shutdown'
  BY <1>2 DEF Arrive, Listening, Shutdown, life
<1>3. CASE Clear
  BY <1>3 DEF Clear, Listening, Shutdown, life
<1>4. CASE CronRun
  BY <1>4 DEF CronRun, Shutdown
<1>5. CASE CronEnds
  BY <1>5 DEF CronEnds, Shutdown, esi, calls
<1>6. CASE Signal
  BY <1>6 DEF Signal, Shutdown
<1>7. CASE Stopped
  BY <1>7 DEF Stopped, Shutdown, esi, calls, EsiInv, EsiTypeOK
<1>8. CASE Return
  BY <1>8 DEF Return, Shutdown
<1>9. CASE Tick
  <2>1. /\ UNCHANGED <<phase, cron, calm, pc>> /\ Pass /\ ~Due
        /\ budget' = IF phase # "up" /\ budget > 0 THEN budget - 1 ELSE budget
    BY <1>9 DEF Tick, Pass
  <2>2. phase = "stopping" => cron # 0
    BY <2>1 DEF Due
  <2>3. ASSUME NEW r \in Requests, pc[r] # "idle", phase = "closing"
        PROVE  elapsed'[r] + budget' >= elapsed[r] + budget
    BY <2>1, <2>3 DEF Pass, Waiting, EsiInv, EsiTypeOK
  <2>4. \A r \in Requests : elapsed[r] \in Nat /\ elapsed'[r] \in Nat
    BY <2>1 DEF Pass, Waiting, EsiInv, EsiTypeOK
  <2> QED BY <2>1, <2>2, <2>3, <2>4 DEF Shutdown
<1>10. CASE UNCHANGED vars
  BY <1>10 DEF vars, esi, calls, life, Shutdown
<1> QED BY <1>1, <1>2, <1>3, <1>4, <1>5, <1>6, <1>7, <1>8, <1>9, <1>10 DEF Next

LEMMA Inductive == Spec => []Inv
<1>1. Init => Inv
  BY EsiInitOK, ServerAssumption DEF Init, Inv, LifeTypeOK, Shutdown
<1>2. Inv /\ [Next]_vars => Inv'
  BY ServerStep, EsiKept, LifeKept, ShutdownKept DEF Inv
<1> QED BY <1>1, <1>2, PTL DEF Spec

-----------------------------------------------------------------------------
\* The server's state is always of its type, with no more attempts than the
\* retries allow (EsiProxy, Server).
THEOREM TypeCorrect == Spec => []TypeOK
<1>1. Inv => TypeOK
  BY DEF Inv, EsiInv, LifeTypeOK, TypeOK
<1> QED BY <1>1, Inductive, PTL

\* However ESI fails, no request outlives the retry budget and one attempt
\* (esi/client.go Get).
THEOREM RequestsEndInTime == Spec => []EndsInTime
<1>1. ASSUME Inv, NEW r \in Requests PROVE elapsed[r] <= Longest
  <2>1. /\ pc[r] \in {"idle", "look", "judge", "drop", "try", "wait", "got"}
        /\ elapsed[r] \in Nat /\ timer[r] \in Nat
    BY <1>1 DEF Inv, EsiInv, EsiTypeOK
  <2>2. \/ elapsed[r] = 0 \/ elapsed[r] + timer[r] <= Longest
        \/ elapsed[r] + timer[r] <= Budget \/ elapsed[r] <= Longest
    BY <1>1, <2>1 DEF Inv, EsiInv, Timing
  <2> QED BY <2>1, <2>2, EsiAssumption DEF Longest
<1>2. Inv => EndsInTime
  BY <1>1 DEF EndsInTime
<1> QED BY <1>2, Inductive, PTL

\* An answer is late for the write timeout only if an attempt for it failed
\* (esi/client.go Get, cmd/server/main.go's http.Server).
THEOREM LateWasRetried == Spec => []LateIsRetried
<1>1. Inv => LateIsRetried
  BY EsiAssumption, ServerAssumption DEF Inv, EsiInv, EsiTypeOK, Timing, LateIsRetried
<1> QED BY <1>1, Inductive, PTL

\* Within the server the proxy behaves as it does alone: arrivals, the clock
\* and the end of the process are all that main adds to it.
THEOREM ProxyImplemented == Spec => EsiSpec
<1>1. Init => EsiInit
  BY DEF Init
<1>2. [Next]_vars => [EsiNext]_esi
  BY ServerStep
<1> QED BY <1>1, <1>2, PTL DEF Spec, EsiSpec

\* No request makes a fresh entry leave the cache (esi.go getCached).
THEOREM FreshKept == Spec => FreshIsKept
<1> DEFINE Kept == \A p \in held : left[p] >= 0 /\ p \notin held' => calls' = calls
<1>1. ASSUME Inv, EsiNext PROVE Kept
  <2>1. ASSUME NEW r \in Requests, Step(r) PROVE Kept
    <3>1. CASE Drop(r)
      <4>1. path[r] \in Paths /\ left[path[r]] \in Int
        BY <1>1, <3>1 DEF Drop, Inv, EsiInv, EsiTypeOK
      <4>2. \A p \in held : p \notin held' => p = path[r] /\ left[path[r]] < 0
        BY <3>1 DEF Drop
      <4> QED BY <4>1, <4>2
    <3>2. CASE SetCached(r)
      BY <3>2 DEF SetCached, entries
    <3>3. CASE ~Drop(r) /\ ~SetCached(r)
      BY <2>1, <3>3 DEF Step, Look, Judge, Succeed, Fail, Retry, Wake, entries
    <3> QED BY <3>1, <3>2, <3>3
  <2>2. ASSUME NEW r \in Requests, NEW p \in Paths, Request(r, p) PROVE Kept
    BY <2>2 DEF Request, entries
  <2>3. CASE ClearCache
    BY <2>3 DEF ClearCache
  <2>4. CASE Pass \/ Cut
    BY <2>4 DEF Pass, Cut, entries
  <2> QED BY <1>1, <2>1, <2>2, <2>3, <2>4 DEF EsiNext
<1>2. Inv /\ [Next]_vars => [Kept]_esi
  BY <1>1, ServerStep
<1> QED BY <1>2, Inductive, PTL DEF Spec, FreshIsKept

\* main never returns while a cron run is under way (scheduler.go Stop).
THEOREM CronAwaited == Spec => CronIsWaitedFor
<1> DEFINE Awaited == phase # "down" /\ phase' = "down" => cron = 0
<1>1. Inv /\ [Next]_vars => [Awaited]_vars
  BY DEF Inv, LifeTypeOK, Shutdown, Next, Work, Arrive, Clear, CronRun, CronEnds, Signal,
         Stopped, Return, Tick, life, vars
<1> QED BY <1>1, Inductive, PTL DEF Spec, CronIsWaitedFor

\* Unless a cron run holds up the shutdown, it cuts off no request: whatever
\* still runs at its end is older than a request can get (main.go:290).
THEOREM NoneCut == Spec => NoneIsCut
<1> DEFINE NotCut == phase # "down" /\ phase' = "down" /\ calm => Idle
<1>1. ASSUME Inv, Return, calm PROVE Idle
  <2>1. SUFFICES ASSUME NEW r \in Requests, pc[r] # "idle" PROVE FALSE
    BY DEF Idle
  <2>2. phase = "closing" /\ budget = 0
    BY <1>1, <2>1 DEF Return, Idle
  <2>3. elapsed[r] >= ShutdownBudget /\ elapsed[r] \in Nat
    BY <1>1, <2>1, <2>2, ServerAssumption DEF Inv, Shutdown, EsiInv, EsiTypeOK
  <2>4. elapsed[r] <= Longest
    BY <1>1, EsiAssumption DEF Inv, EsiInv, EsiTypeOK, Timing, Longest
  <2> QED BY <2>3, <2>4, ServerAssumption, EsiAssumption DEF Longest
<1>2. ASSUME [Next]_vars, phase # "down", phase' = "down" PROVE Return
  BY <1>2 DEF Next, Work, Arrive, Clear, CronRun, CronEnds, Signal, Stopped, Tick, life, vars
<1>3. Inv /\ [Next]_vars => [NotCut]_vars
  BY <1>1, <1>2
<1> QED BY <1>3, Inductive, PTL DEF Spec, NoneIsCut

-----------------------------------------------------------------------------
\* A request's step leaves it less to do, an attempt being the dearest, and the
\* other requests are left alone.
LEMMA StepIsLess ==
  ASSUME EsiInv, NEW r \in Requests, Step(r)
  PROVE  Ahead(r)' < Ahead(r) /\ \A q \in Requests \ {r} : Ahead(q)' = Ahead(q)
<1> USE EsiAssumption
<1>1. /\ tries[r] \in 0 .. MaxRetries + 1
      /\ pc[r] \in {"look", "judge", "drop"} => tries[r] = 0
      /\ pc[r] = "wait" => tries[r] <= MaxRetries
  BY DEF EsiInv, EsiTypeOK, Timing
<1>2. ASSUME NEW q \in Requests \ {r} PROVE Ahead(q)' = Ahead(q)
  <2>1. pc'[q] = pc[q] /\ tries'[q] = tries[q]
    BY <1>2 DEF EsiInv, EsiTypeOK, Step, Look, Judge, Drop, Succeed, Fail, Retry, Wake,
                SetCached, Attempt, Answer, Goto
  <2> QED BY <2>1 DEF Ahead
<1> SUFFICES Ahead(r)' < Ahead(r)
  BY <1>2
<1>3. ASSUME Attempt(r), pc[r] \in {"look", "judge", "drop", "wait"}
      PROVE  Ahead(r)' < Ahead(r)
  <2>1. pc'[r] = "try" /\ tries'[r] = tries[r] + 1
    BY <1>3 DEF Attempt, Goto, EsiInv, EsiTypeOK
  <2> QED BY <1>1, <1>3, <2>1 DEF Ahead, Stage
<1>4. ASSUME Answer(r), pc[r] # "idle" PROVE Ahead(r)' < Ahead(r)
  <2>1. pc'[r] = "idle"
    BY <1>4 DEF Answer, Goto, EsiInv, EsiTypeOK
  <2>2. pc[r] \in {"look", "judge", "drop", "try", "wait", "got"}
    BY <1>4 DEF EsiInv, EsiTypeOK
  <2> QED BY <1>1, <2>1, <2>2 DEF Ahead, Stage
<1>5. ASSUME tries'[r] = tries[r],
             \/ pc[r] = "look" /\ pc'[r] = "judge"
             \/ pc[r] = "judge" /\ pc'[r] = "drop"
             \/ pc[r] = "try" /\ pc'[r] \in {"wait", "got"}
      PROVE  Ahead(r)' < Ahead(r)
  BY <1>1, <1>5 DEF Ahead, Stage
<1>P. ASSUME NEW l, Goto(r, l) PROVE pc'[r] = l
  BY <1>P DEF Goto, EsiInv, EsiTypeOK
<1>6. CASE Look(r)
  <2>1. CASE Attempt(r)
    BY <1>6, <2>1, <1>3 DEF Look
  <2>2. CASE ~Attempt(r)
    <3>1. pc[r] = "look" /\ Goto(r, "judge") /\ tries' = tries
      BY <1>6, <2>2 DEF Look
    <3> QED BY <3>1, <1>5, <1>P
  <2> QED BY <2>1, <2>2
<1>7. CASE Judge(r)
  <2>1. CASE Answer(r)
    BY <1>7, <2>1, <1>4 DEF Judge
  <2>2. CASE ~Answer(r)
    BY <1>7, <2>2, <1>5, <1>P DEF Judge
  <2> QED BY <2>1, <2>2
<1>8. CASE Retry(r)
  <2>1. CASE Answer(r)
    BY <1>8, <2>1, <1>4 DEF Retry
  <2>2. CASE ~Answer(r)
    BY <1>8, <2>2, <1>5, <1>P DEF Retry
  <2> QED BY <2>1, <2>2
<1>9. CASE Succeed(r)
  BY <1>9, <1>5, <1>P DEF Succeed
<1>10. CASE Drop(r) \/ Wake(r)
  BY <1>10, <1>3 DEF Drop, Wake
<1>11. CASE Fail(r) \/ SetCached(r)
  BY <1>11, <1>4 DEF Fail, SetCached
<1> QED BY <1>6, <1>7, <1>8, <1>9, <1>10, <1>11 DEF Step

\* Once the listeners are closed main has a bounded number of steps before it: no
\* answer of ESI, no cache entry and no run gives anybody more to do (main.go's
\* Shutdown with its context, client.go's retries).
THEOREM ShutdownEnds == Spec => ShutdownRunsOut
<1> DEFINE Nearer ==
      phase = "closing" =>
         \/ phase' = "down"
         \/ budget' < budget /\ \A r \in Requests : Ahead(r)' = Ahead(r)
         \/ /\ budget' = budget
            /\ \E r \in Requests :
                 /\ Ahead(r)' < Ahead(r)
                 /\ \A q \in Requests \ {r} : Ahead(q)' = Ahead(q)
<1>1. ASSUME Inv, Next, phase = "closing" PROVE Nearer
  <2>1. ASSUME NEW r \in Requests, Work(r) PROVE Nearer
    BY <1>1, <2>1, StepIsLess DEF Work, life, Inv
  <2>2. CASE Tick
    <3>1. budget > 0 /\ budget' = budget - 1 /\ Pass
      BY <1>1, <2>2 DEF Tick, Due, Inv, LifeTypeOK
    <3>2. \A r \in Requests : Ahead(r)' = Ahead(r)
      BY <3>1 DEF Pass, Ahead
    <3>3. budget' < budget
      BY <1>1, <3>1, ServerAssumption DEF Inv, LifeTypeOK
    <3> QED BY <3>2, <3>3
  <2>3. CASE Return
    BY <2>3 DEF Return
  <2> QED BY <1>1, <2>1, <2>2, <2>3 DEF Next, Arrive, Listening, Clear, CronRun, CronEnds,
             Signal, Stopped, Inv, LifeTypeOK, Shutdown
<1>2. Inv /\ [Next]_vars => [Nearer]_vars
  BY <1>1
<1> QED BY <1>2, Inductive, PTL DEF Spec, ShutdownRunsOut
=============================================================================

------------------------------- MODULE Server -------------------------------
(***************************************************************************)
(* The end of a server process (cmd/server/main.go): a signal, the wait    *)
(* for the scheduler, the shutdown of the HTTP server within a budget that *)
(* began with the signal, the return of main.  The requests in flight are  *)
(* those of the ESI proxy, the slowest the server has.                     *)
(***************************************************************************)
EXTENDS EsiProxy

CONSTANTS ShutdownBudget,   \* of context.WithTimeout
          WriteTimeout,     \* of http.Server
          MaxRuns           \* bound: update runs of the cron scheduler at a time

ASSUME ServerAssumption ==
    /\ ShutdownBudget \in Nat /\ Longest < ShutdownBudget
    /\ WriteTimeout \in Nat
    /\ AttemptTimeout <= WriteTimeout /\ Budget <= WriteTimeout
    /\ MaxRuns \in Nat

VARIABLES
    phase,     \* "up", "stopping" (the scheduler), "closing" (HTTP), "down"
    budget,    \* ticks left of the shutdown's context
    cron,      \* update runs of the cron scheduler under way
    calm       \* history: no cron run was under way at the signal

life == <<phase, budget, cron, calm>>
vars == <<esi, life>>

TypeOK ==
    /\ EsiTypeOK
    /\ phase \in {"up", "stopping", "closing", "down"}
    /\ budget \in 0 .. ShutdownBudget
    /\ cron \in 0 .. MaxRuns
    /\ calm \in BOOLEAN

Init ==
    /\ EsiInit
    /\ phase = "up" /\ budget = ShutdownBudget
    /\ cron = 0 /\ calm = TRUE

-----------------------------------------------------------------------------
Idle == \A r \in Requests : pc[r] = "idle"

\* Until Shutdown closes the listeners, requests are let in.
WrongListening == phase # "down"
Listening == phase \in {"up", "stopping"}
Arrive(r, p) == Listening /\ Request(r, p) /\ UNCHANGED life
Work(r) == phase # "down" /\ Step(r) /\ UNCHANGED life
Clear == Listening /\ ClearCache /\ UNCHANGED life

\* The cron scheduler starts runs until it is stopped; a run ends by itself.
WrongCronRun ==
    /\ Listening /\ cron < MaxRuns /\ cron' = cron + 1
    /\ UNCHANGED <<esi, phase, budget, calm>>
CronRun ==
    /\ phase = "up" /\ cron < MaxRuns /\ cron' = cron + 1
    /\ UNCHANGED <<esi, phase, budget, calm>>
CronEnds ==
    /\ phase # "down" /\ cron > 0 /\ cron' = cron - 1
    /\ UNCHANGED <<esi, phase, budget, calm>>

\* SIGINT or SIGTERM: the shutdown's context is made, Scheduler.Stop is called.
Signal ==
    /\ phase = "up" /\ phase' = "stopping"
    /\ budget' = ShutdownBudget /\ calm' = (cron = 0)
    /\ UNCHANGED <<esi, cron>>

\* Stop returns when no cron run is left.  RateLimiter.Stop, and Shutdown
\* closes the listeners.
WrongStopped ==
    /\ phase = "stopping" /\ phase' = "closing"
    /\ UNCHANGED <<esi, budget, cron, calm>>
Stopped ==
    /\ phase = "stopping" /\ cron = 0
    /\ phase' = "closing"
    /\ UNCHANGED <<esi, budget, cron, calm>>

\* Shutdown returns: no request is left, or its context is over.  main does
\* too, and whatever still runs is cut off: also an update that TriggerUpdate
\* has left to a goroutine, which nothing waits for (SdeUpdate's CrashServer).
WrongReturn ==
    /\ phase = "closing"
    /\ phase' = "down" /\ cron' = 0
    /\ Cut
    /\ UNCHANGED <<budget, calm>>
Return ==
    /\ phase = "closing" /\ (Idle \/ budget = 0)
    /\ phase' = "down" /\ cron' = 0
    /\ Cut
    /\ UNCHANGED <<budget, calm>>

\* Time passes unless main has something to do.
Due == \/ phase = "stopping" /\ cron = 0
       \/ phase = "closing" /\ (Idle \/ budget = 0)
Tick ==
    /\ phase # "down" /\ ~Due /\ Pass
    /\ budget' = IF phase # "up" /\ budget > 0 THEN budget - 1 ELSE budget
    /\ UNCHANGED <<phase, cron, calm>>

Next ==
    \/ \E r \in Requests : Work(r) \/ \E p \in Paths : Arrive(r, p)
    \/ Clear \/ CronRun \/ CronEnds
    \/ Signal \/ Stopped \/ Return \/ Tick

\* main goes on; a cron run ends: its downloads and waits have time limits.
Fairness == WF_vars(Stopped) /\ WF_vars(Return) /\ WF_vars(CronEnds) /\ WF_vars(Tick)
            /\ \A r \in Requests : WF_vars(Work(r))

Spec == Init /\ [][Next]_vars /\ Fairness

-----------------------------------------------------------------------------
\* Unless a cron run holds up the shutdown, every request that came before the
\* listeners were closed is answered: a retry budget and an attempt fit into
\* the shutdown's (main.go:290, client.go:45).
NoneIsCut == [][phase # "down" /\ phase' = "down" /\ calm => Idle]_vars

\* A cron run is never cut off (scheduler.go Stop).
CronIsWaitedFor == [][phase # "down" /\ phase' = "down" => cron = 0]_vars

\* An answer comes too late for its client, who is cut off after WriteTimeout,
\* only after an attempt that failed: one attempt's time is less.
LateIsRetried == \A r \in Requests :
                    pc[r] # "idle" /\ elapsed[r] > WriteTimeout => tries[r] > 1

\* Once the listeners are closed every step brings the end nearer, whatever ESI
\* answers: a tick uses up the budget, a request's step leaves that request less
\* and gives no other one more (what of SignalEnds does not rest on fairness).
ShutdownRunsOut ==
    [][phase = "closing" =>
         \/ phase' = "down"
         \/ budget' < budget /\ \A r \in Requests : Ahead(r)' = Ahead(r)
         \/ /\ budget' = budget
            /\ \E r \in Requests :
                 /\ Ahead(r)' < Ahead(r)
                 /\ \A q \in Requests \ {r} : Ahead(q)' = Ahead(q)]_vars

\* After a signal the process ends.
SignalEnds == phase = "stopping" ~> phase = "down"
=============================================================================

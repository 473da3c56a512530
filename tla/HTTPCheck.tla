----------------------------- MODULE HTTPCheck -----------------------------
(***************************************************************************)
(* One HTTP health check (pkg/hc/httpcheck.go): the worker that checks at  *)
(* every interval and turns single results into a health status with the   *)
(* fall and rise thresholds, the callback channel of capacity one it       *)
(* reports on without ever blocking, the reader of that channel, and       *)
(* Close, which may come at any moment.                                    *)
(***************************************************************************)
EXTENDS Integers, Sequences

CONSTANTS
  FallThreshold,  \* opts.FallThreshold, positive after CopyFrom
  RiseThreshold,  \* opts.RiseThreshold, positive after CopyFrom
  MaxChecks       \* bound of the model: checks made over the life of a check

ASSUME ThresholdsPositive ==
  FallThreshold \in Nat \ {0} /\ RiseThreshold \in Nat \ {0}
ASSUME MaxChecksIsNat == MaxChecks \in Nat

VARIABLES
  healthy,    \* h.healthy
  lastCheck,  \* h.lastCheck
  falls,      \* h.falls
  rises,      \* h.rises
  early,      \* early, the worker's local variable
  chan,       \* the values in h.c
  timer,      \* h.workerTmr
  worker,     \* where the worker is; "doomed" checks with a cancelled context
  closing,    \* how far Close has got
  got,        \* auxiliary: somebody has received from h.c
  results     \* auxiliary: what every check so far returned

countVars == <<lastCheck, falls, rises, early>>
vars == <<healthy, countVars, chan, timer, worker, closing, got, results>>

TypeOK ==
  /\ healthy \in BOOLEAN /\ lastCheck \in BOOLEAN
  /\ falls \in Nat /\ rises \in Nat
  /\ early \in {-1} \cup 0..(FallThreshold - 1)
  /\ chan \in {<<>>, <<TRUE>>, <<FALSE>>}
  /\ timer \in {"armed", "fired", "off"}
  /\ worker \in {"waiting", "checking", "doomed", "gone"}
  /\ closing \in {"no", "called", "closed"}
  /\ got \in BOOLEAN
  /\ results \in Seq(BOOLEAN)

Init ==
  /\ healthy = FALSE /\ lastCheck = FALSE
  /\ falls = 0 /\ rises = 0 /\ early = 0
  /\ chan = <<>>
  /\ timer = "armed" /\ worker = "waiting"
  /\ closing = "no"
  /\ got = FALSE /\ results = <<>>

-----------------------------------------------------------------------------

\* The interval has passed.
TimerExpires ==
  /\ timer = "armed" /\ Len(results) < MaxChecks
  /\ timer' = "fired"
  /\ UNCHANGED <<healthy, countVars, chan, worker, closing, got, results>>

\* The worker's select takes the timer and starts a check.
TimerFires ==
  /\ worker = "waiting" /\ timer = "fired"
  /\ timer' = "off"
  /\ worker' = IF closing = "no" THEN "checking" ELSE "doomed"
  /\ UNCHANGED <<healthy, countVars, chan, closing, got, results>>

\* Mutant: successes count although failures come between them.
RisesTotal(ok) == IF ok THEN rises + 1 ELSE rises

\* The counters after a result: a change of result starts both anew.
Falls(ok) == IF ok THEN (IF lastCheck THEN falls ELSE 0)
                   ELSE (IF lastCheck THEN 0 ELSE falls) + 1
Rises(ok) == IF ok THEN (IF lastCheck THEN rises ELSE 0) + 1
                   ELSE (IF lastCheck THEN 0 ELSE rises)

\* The non-blocking send on h.c.
Send(status) == chan' = IF chan = <<>> THEN <<status>> ELSE chan

\* A check ends and the worker digests its result.
FallsOver(ok) == healthy /\ Falls(ok) >= FallThreshold
RisesOver(ok) == ~healthy /\ Rises(ok) >= RiseThreshold

\* Mutant: only failures count towards the first verdict.
EarlyVerdictOfFalls(ok) ==
  ~healthy /\ ~RisesOver(ok) /\ early >= 0 /\ ~ok /\ Falls(ok) >= FallThreshold

\* The first verdict "unhealthy": as many checks as FallThreshold were made
\* and none of them led to a change.
EarlyVerdict(ok) ==
  ~healthy /\ ~RisesOver(ok) /\ early >= 0 /\ early + 1 >= FallThreshold

Digest(ok) ==
  /\ falls' = Falls(ok) /\ rises' = Rises(ok) /\ lastCheck' = ok
  /\ \/ /\ FallsOver(ok)
        /\ healthy' = FALSE /\ Send(FALSE) /\ early' = -1
     \/ /\ RisesOver(ok)
        /\ healthy' = TRUE /\ Send(TRUE) /\ early' = -1
     \/ /\ EarlyVerdict(ok)
        /\ Send(FALSE) /\ early' = -1
        /\ UNCHANGED healthy
     \/ /\ ~FallsOver(ok) /\ ~RisesOver(ok) /\ ~EarlyVerdict(ok)
        /\ early' = IF ~healthy /\ early >= 0 THEN early + 1 ELSE early
        /\ UNCHANGED <<healthy, chan>>

\* A check whose context is cancelled fails; one that Close interrupts may
\* have its answer already.  Then the timer is armed again.
CheckEnds(ok) ==
  /\ worker \in {"checking", "doomed"}
  /\ ok => worker = "checking"
  /\ Digest(ok)
  /\ results' = Append(results, ok)
  /\ worker' = "waiting" /\ timer' = "armed"
  /\ UNCHANGED <<closing, got>>

\* Mutant: the worker looks at its context only after a tick.
WorkerExitsOnTick ==
  /\ worker = "waiting" /\ closing # "no" /\ timer = "fired"
  /\ worker' = "gone"
  /\ UNCHANGED <<healthy, countVars, chan, timer, closing, got, results>>

\* The worker's select takes ctx.Done(): the worker closes h.c and returns.
WorkerExits ==
  /\ worker = "waiting" /\ closing # "no"
  /\ worker' = "gone"
  /\ UNCHANGED <<healthy, countVars, chan, timer, closing, got, results>>

\* Somebody receives from h.c: a status, or the news that it is closed.
Receive ==
  /\ chan # <<>> \/ (worker = "gone" /\ ~got)
  /\ chan' = <<>> /\ got' = TRUE
  /\ UNCHANGED <<healthy, countVars, timer, worker, closing, results>>

\* Close up to its wait for the worker.  Stop leaves a timer that has fired.
CloseCall ==
  /\ closing = "no"
  /\ closing' = "called"
  /\ timer' = IF timer = "armed" THEN "off" ELSE timer
  /\ UNCHANGED <<healthy, countVars, chan, worker, got, results>>

\* Mutant: Close does not wait for the worker.
CloseReturnsAtOnce ==
  /\ closing = "called"
  /\ closing' = "closed" /\ healthy' = FALSE
  /\ UNCHANGED <<countVars, chan, timer, worker, got, results>>

\* Close after workerWg.Wait().
CloseReturns ==
  /\ closing = "called" /\ worker = "gone"
  /\ closing' = "closed" /\ healthy' = FALSE
  /\ UNCHANGED <<countVars, chan, timer, worker, got, results>>

Next ==
  \/ TimerExpires \/ TimerFires \/ (\E ok \in BOOLEAN : CheckEnds(ok))
  \/ WorkerExits \/ Receive \/ CloseCall \/ CloseReturns

Spec == Init /\ [][Next]_vars

\* Timers expire, checks end (opts.Timeout) and goroutines are scheduled.  The
\* select of the worker chooses at random between a timer and ctx.Done() that
\* are both ready, so it does not pass over ctx.Done() for ever.  Whether and
\* when Close is called is not assumed.
Fairness ==
  /\ WF_vars(TimerExpires) /\ WF_vars(TimerFires)
  /\ WF_vars(\E ok \in BOOLEAN : CheckEnds(ok))
  /\ SF_vars(WorkerExits)
  /\ WF_vars(Receive) /\ WF_vars(CloseReturns)

FairSpec == Spec /\ Fairness

-----------------------------------------------------------------------------
(* What users of a check see of it: early is -1 from the first verdict on.  *)

Promise == INSTANCE CheckPromise
             WITH phase <- IF closing = "closed" THEN "stopped"
                           ELSE IF early = -1 THEN "told" ELSE "silent",
                  status <- healthy

-----------------------------------------------------------------------------
(* What the check promises.                                                *)

\* The results at positions i - n + 1 .. i are n results equal to ok.
RunEndsAt(n, ok, i) == i >= n /\ \A k \in (i - n + 1)..i : results[k] = ok

\* Hysteresis, said of the whole history of results instead of counters: the
\* server is healthy when RiseThreshold successes in a row have been seen and
\* no FallThreshold failures in a row since.
HealthyByHistory ==
  \E i \in 1..Len(results) :
    /\ RunEndsAt(RiseThreshold, TRUE, i)
    /\ \A j \in (i + 1)..Len(results) : ~RunEndsAt(FallThreshold, FALSE, j)

\* The two counters that reset each other compute exactly that hysteresis,
\* for every sequence of results, until Close is through.
HealthyIsHysteresis == closing # "closed" => (healthy <=> HealthyByHistory)

\* A first verdict comes after FallThreshold checks at the latest, whatever
\* they returned, alternating results included: Activate keeps the check of a
\* server out of use until it has one.
FirstVerdictInTime ==
  Len(results) >= FallThreshold => got \/ chan # <<>>

\* A closed check is never healthy: no result that was under way when Close
\* was called can make it so afterwards.
ClosedStaysUnhealthy == closing = "closed" => ~healthy

\* The worker, its counters and Close implement CheckPromise: no status other
\* than "unhealthy" without a first verdict, none at all after Close.
ImplementsPromise == Promise!PromiseSpec

\* The goroutine that waits for the first verdict gets one, or learns that
\* the check was closed.
VerdictArrives == <>got

\* Close returns, whatever check is under way and however timers fall.
CloseReturnsAtLast == closing = "called" ~> closing = "closed"

=============================================================================

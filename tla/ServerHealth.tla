---------------------------- MODULE ServerHealth ----------------------------
(***************************************************************************)
(* The health check of one backend server across reloads.  Every           *)
(* configuration that has the server activates it, with a health check of  *)
(* its own or with none (HTTPBackend.Activate, pkg/lb/httpbackend.go).  A  *)
(* goroutine waits for the first verdict of a new check and only then      *)
(* installs it (SetHealthCheck, pkg/lb/backendserver.go), by which time    *)
(* later configurations may be active or the server closed.  A check does  *)
(* what CheckPromise says of it, which HTTPCheck is shown to keep.         *)
(***************************************************************************)
EXTENDS Integers

CONSTANT MaxConfigs  \* bound of the model: configurations that have the server

ASSUME MaxConfigsIsNat == MaxConfigs \in Nat

\* Configurations are numbered in the order of their activation.
Config == 1..MaxConfigs

NoCheck == 0  \* bs.healthCheck == nil

VARIABLES
  active,   \* the number of the newest configuration that was activated
  phase,    \* of the check each configuration has made for the server
  status,   \* what Healthy() of that check returns
  waiter,   \* the goroutine Activate has started for that check
  slot,     \* bs.healthCheck: the configuration whose check is installed
  closing   \* how far backendServer.Close has got

vars == <<active, phase, status, waiter, slot, closing>>

Phases == {"none", "silent", "told", "stopped"}
Waiters == {"none", "waiting", "setting", "done"}

TypeOK ==
  /\ active \in 0..MaxConfigs
  /\ phase \in [Config -> Phases]
  /\ status \in [Config -> BOOLEAN]
  /\ waiter \in [Config -> Waiters]
  /\ slot \in Config \cup {NoCheck}
  /\ closing \in {"no", "cancelled", "closed"}
  /\ \A g \in Config : status[g] => phase[g] = "told" /\ g <= active

Init ==
  /\ active = 0
  /\ phase = [g \in Config |-> "none"]
  /\ status = [g \in Config |-> FALSE]
  /\ waiter = [g \in Config |-> "none"]
  /\ slot = NoCheck
  /\ closing = "no"

-----------------------------------------------------------------------------

CtxDone == closing # "no"

\* Mutant: a closed check keeps its status.
StopChecksOnly(S) ==
  /\ phase' = [g \in Config |-> IF g \in S THEN "stopped" ELSE phase[g]]
  /\ UNCHANGED status

\* HealthCheck.Close on the checks of S (NoCheck is none of them); it returns when their workers have.
StopChecks(S) ==
  /\ phase' = [g \in Config |-> IF g \in S THEN "stopped" ELSE phase[g]]
  /\ status' = [g \in Config |-> IF g \in S THEN FALSE ELSE status[g]]

\* Mutant: a check is replaced without being closed.
SetCheckKeepsOld(h) ==
  /\ slot' = IF CtxDone THEN NoCheck ELSE h
  /\ StopChecks(IF CtxDone THEN {h} ELSE {})

\* Mutant: SetHealthCheck does not look at the context of the server.
SetCheckAnyway(h) == slot' = h /\ StopChecks({slot})

\* SetHealthCheck(h) under healthCheckMu: a server that is closing takes no
\* check any more, and the one that was installed is closed in any case.
SetCheck(h) ==
  /\ slot' = IF CtxDone THEN NoCheck ELSE h
  /\ StopChecks({slot} \cup IF CtxDone THEN {h} ELSE {})

\* Mutant: Activate installs the check at once.
ActivateWithCheckAtOnce ==
  /\ active < MaxConfigs /\ closing = "no"
  /\ active' = active + 1
  /\ phase' = [phase EXCEPT ![active + 1] = "silent"]
  /\ waiter' = [waiter EXCEPT ![active + 1] = "done"]
  /\ slot' = active + 1
  /\ UNCHANGED <<status, closing>>

\* Activate by a configuration with a health check.
ActivateWithCheck ==
  /\ active < MaxConfigs /\ closing = "no"
  /\ active' = active + 1
  /\ phase' = [phase EXCEPT ![active + 1] = "silent"]
  /\ waiter' = [waiter EXCEPT ![active + 1] = "waiting"]
  /\ UNCHANGED <<status, slot, closing>>

\* Activate by a configuration without one.
ActivateWithoutCheck ==
  /\ active < MaxConfigs /\ closing = "no"
  /\ active' = active + 1
  /\ SetCheck(NoCheck)
  /\ UNCHANGED <<waiter, closing>>

\* The first verdict of a check, and the later ones.
Tell(g) ==
  /\ phase[g] = "silent"
  /\ phase' = [phase EXCEPT ![g] = "told"]
  /\ \E b \in BOOLEAN : status' = [status EXCEPT ![g] = b]
  /\ UNCHANGED <<active, waiter, slot, closing>>

Flip(g) ==
  /\ phase[g] = "told"
  /\ status' = [status EXCEPT ![g] = ~status[g]]
  /\ UNCHANGED <<active, phase, waiter, slot, closing>>

\* Mutant: the goroutine waits until the check is healthy.
ReceiveHealthy(g) ==
  /\ waiter[g] = "waiting" /\ status[g]
  /\ waiter' = [waiter EXCEPT ![g] = "setting"]
  /\ UNCHANGED <<active, phase, status, slot, closing>>

\* <-h.Check() returns.
Receive(g) ==
  /\ waiter[g] = "waiting" /\ phase[g] \in {"told", "stopped"}
  /\ waiter' = [waiter EXCEPT ![g] = "setting"]
  /\ UNCHANGED <<active, phase, status, slot, closing>>

\* The goroutine calls SetHealthCheck and ends.
Install(g) ==
  /\ waiter[g] = "setting"
  /\ waiter' = [waiter EXCEPT ![g] = "done"]
  /\ SetCheck(g)
  /\ UNCHANGED <<active, closing>>

\* Close of a server that no configuration shares any more: ctxCancel.
CloseCancel ==
  /\ closing = "no" /\ active > 0
  /\ closing' = "cancelled"
  /\ UNCHANGED <<active, phase, status, waiter, slot>>

\* The end of Close, under healthCheckMu.
CloseCheck ==
  /\ closing = "cancelled"
  /\ closing' = "closed"
  /\ slot' = NoCheck /\ StopChecks({slot})
  /\ UNCHANGED <<active, waiter>>

Next ==
  \/ ActivateWithCheck \/ ActivateWithoutCheck
  \/ \E g \in Config : Tell(g) \/ Flip(g) \/ Receive(g) \/ Install(g)
  \/ CloseCancel \/ CloseCheck

Spec == Init /\ [][Next]_vars

\* A first verdict arrives (VerdictArrives of HTTPCheck) and goroutines are
\* scheduled.  Reloads and the close of the server are not assumed.
Fairness ==
  /\ \A g \in Config : WF_vars(Tell(g)) /\ WF_vars(Receive(g)) /\ WF_vars(Install(g))
  /\ WF_vars(CloseCheck)

FairSpec == Spec /\ Fairness

-----------------------------------------------------------------------------

Running(g) == phase[g] \in {"silent", "told"}

\* A check that still sends requests is installed or will be looked after by
\* its goroutine: none is left running by whatever order verdicts, reloads and
\* the close of the server come in.
NoCheckLost ==
  \A g \in Config : Running(g) => slot = g \/ waiter[g] \in {"waiting", "setting"}

\* An installed check has given its first verdict and was not closed: a reload
\* never takes a server out of rotation by a check that knows nothing yet, and
\* a server is never judged by a check that is unhealthy for being closed.
InstalledIsTold == slot # NoCheck => phase[slot] = "told"

\* The checks of a closed server all stop in the end, those included whose
\* first verdict was still awaited when the server was closed.
ClosedStopsChecks ==
  \A g \in Config : closing = "closed" /\ Running(g) ~> ~Running(g)

\* Every check that is activated comes into use or is stopped.
VerdictsAreUsed ==
  \A g \in Config : waiter[g] = "waiting" ~> slot = g \/ phase[g] = "stopped"

\* README.md:111: the health check of a backend is the one its configuration
\* names.  So once every goroutine of Activate has ended, the check installed
\* is the one of the newest configuration.
JudgedAsConfigured ==
  (\A g \in Config : waiter[g] \in {"none", "done"}) => slot \in {NoCheck, active}

=============================================================================

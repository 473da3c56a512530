------------------------- MODULE ServerHealthProofs -------------------------
(***************************************************************************)
(* For any number of configurations: no health check of a backend server   *)
(* is lost, an installed one has given its verdict and is not closed, a    *)
(* closed server has none, and each behaves as CheckPromise says.          *)
(***************************************************************************)
EXTENDS ServerHealth, TLAPS

\* Until its goroutine installs it a check is neither installed nor closed,
\* and its goroutine sets it only after the first verdict.  What is not made
\* yet is nowhere.
WaitingIsPrivate ==
  \A g \in Config :
    /\ waiter[g] \in {"waiting", "setting"} =>
         slot # g /\ phase[g] \in {"silent", "told"}
    /\ waiter[g] = "setting" => phase[g] = "told"
    /\ g > active => waiter[g] = "none" /\ phase[g] = "none" /\ slot # g

IInv == TypeOK /\ WaitingIsPrivate /\ NoCheckLost /\ InstalledIsTold

\* bs.healthCheck == nil cannot be mistaken for the check of a configuration.
LEMMA NoCheckIsNoConfig == Config \subseteq Nat \ {0} /\ NoCheck \notin Config
BY MaxConfigsIsNat DEF Config, NoCheck

\* A new server has no check.
LEMMA IInvInit == Init => IInv
<1> SUFFICES ASSUME Init PROVE IInv
  OBVIOUS
<1>1. TypeOK
  BY NoCheckIsNoConfig, MaxConfigsIsNat DEF Init, TypeOK, Phases, Waiters
<1>2. WaitingIsPrivate /\ NoCheckLost /\ InstalledIsTold
  BY NoCheckIsNoConfig
     DEF Init, WaitingIsPrivate, NoCheckLost, InstalledIsTold, Running
<1>3. QED
  BY <1>1, <1>2 DEF IInv

\* Every step of Activate, its goroutines, the checks and Close keeps IInv.
LEMMA IInvStep == IInv /\ [Next]_vars => IInv'
<1> SUFFICES ASSUME IInv, [Next]_vars PROVE IInv'
  OBVIOUS
<1> USE NoCheckIsNoConfig, MaxConfigsIsNat
    DEF IInv, TypeOK, WaitingIsPrivate, NoCheckLost, InstalledIsTold, Running,
        Phases, Waiters
<1>1. ASSUME ActivateWithCheck PROVE IInv'
  <2>1. active + 1 \in Config
    BY <1>1 DEF ActivateWithCheck, Config
  <2>2. QED
    BY <1>1, <2>1 DEF ActivateWithCheck
<1>2. ASSUME ActivateWithoutCheck PROVE IInv'
  <2>1. /\ active < MaxConfigs /\ active' = active + 1 /\ slot' = NoCheck
        /\ phase' = [g \in Config |-> IF g = slot THEN "stopped" ELSE phase[g]]
        /\ status' = [g \in Config |-> IF g = slot THEN FALSE ELSE status[g]]
        /\ waiter' = waiter /\ closing' = closing
    BY <1>2 DEF ActivateWithoutCheck, SetCheck, StopChecks, CtxDone
  <2>2. TypeOK'
    <3>1. active' \in 0..MaxConfigs /\ slot' \in Config \cup {NoCheck}
      BY <2>1
    <3>2. phase' \in [Config -> Phases] /\ waiter' \in [Config -> Waiters]
      BY <2>1
    <3>3. status' \in [Config -> BOOLEAN]
      BY <2>1
    <3>4. \A g \in Config : status'[g] => phase'[g] = "told" /\ g <= active'
      BY <2>1
    <3>5. QED
      BY <2>1, <3>1, <3>2, <3>3, <3>4
  <2>3. WaitingIsPrivate'
    BY <2>1
  <2>4. NoCheckLost' /\ InstalledIsTold'
    BY <2>1
  <2>5. QED
    BY <2>2, <2>3, <2>4
<1>3. ASSUME NEW g \in Config, Tell(g) PROVE IInv'
  BY <1>3 DEF Tell
<1>4. ASSUME NEW g \in Config, Flip(g) PROVE IInv'
  BY <1>4 DEF Flip
<1>5. ASSUME NEW g \in Config, Receive(g) PROVE IInv'
  BY <1>5 DEF Receive
<1>6. ASSUME NEW g \in Config, Install(g) PROVE IInv'
  BY <1>6 DEF Install, SetCheck, StopChecks, CtxDone
<1>7. ASSUME CloseCancel PROVE IInv'
  BY <1>7 DEF CloseCancel
<1>8. ASSUME CloseCheck PROVE IInv'
  BY <1>8 DEF CloseCheck, StopChecks
<1>9. ASSUME UNCHANGED vars PROVE IInv'
  BY <1>9 DEF vars
<1>10. QED
  BY <1>1, <1>2, <1>3, <1>4, <1>5, <1>6, <1>7, <1>8, <1>9 DEF Next

\* The inductive invariant holds through every sequence of configurations.
THEOREM IInvInvariant == Spec => []IInv
BY IInvInit, IInvStep, PTL DEF Spec

\* Types, for any number of configurations: only a check that has told its
\* verdict and was not closed reports healthy, and none does before its
\* configuration is activated.
THEOREM TypeCorrect == Spec => []TypeOK
<1>1. IInv => TypeOK
  BY DEF IInv
<1>2. QED
  BY <1>1, IInvInvariant, PTL

\* Whatever the order of verdicts, reloads and the close of the server, every
\* check that still runs has somebody who will use or close it.
THEOREM NoCheckIsLost == Spec => []NoCheckLost
<1>1. IInv => NoCheckLost
  BY DEF IInv
<1>2. QED
  BY <1>1, IInvInvariant, PTL

\* A server is only ever judged by a check that has a verdict and runs.
THEOREM JudgedByToldCheck == Spec => []InstalledIsTold
<1>1. IInv => InstalledIsTold
  BY DEF IInv
<1>2. QED
  BY <1>1, IInvInvariant, PTL

-----------------------------------------------------------------------------
(* A closed server.                                                        *)

\* Nothing is installed in a closed server, by whatever goroutine comes late.
ClosedHasNone == closing = "closed" => slot = NoCheck

\* A check of a closed server that still runs awaits its first verdict, or has
\* it, and its goroutine is there to close it: the part of ClosedStopsChecks
\* that is not about fairness.
ClosedOnlyAwaits ==
  closing = "closed" =>
    \A g \in Config : Running(g) => waiter[g] \in {"waiting", "setting"}

\* SetHealthCheck looks at the context, which Close has cancelled before.
LEMMA ClosedHasNoneStep == ClosedHasNone /\ [Next]_vars => ClosedHasNone'
<1> SUFFICES ASSUME ClosedHasNone, [Next]_vars PROVE ClosedHasNone'
  OBVIOUS
<1> USE DEF ClosedHasNone
<1>1. CASE ActivateWithCheck \/ ActivateWithoutCheck
  BY <1>1 DEF ActivateWithCheck, ActivateWithoutCheck
<1>2. ASSUME NEW g \in Config, Tell(g) \/ Flip(g) \/ Receive(g)
      PROVE  ClosedHasNone'
  BY <1>2 DEF Tell, Flip, Receive
<1>3. ASSUME NEW g \in Config, Install(g) PROVE ClosedHasNone'
  BY <1>3 DEF Install, SetCheck, CtxDone
<1>4. CASE CloseCancel \/ CloseCheck
  BY <1>4 DEF CloseCancel, CloseCheck
<1>5. CASE UNCHANGED vars
  BY <1>5 DEF vars
<1>6. QED
  BY <1>1, <1>2, <1>3, <1>4, <1>5 DEF Next

\* No check is left in a closed server but those that a goroutine will close.
THEOREM ClosedAwaitsOnly == Spec => []ClosedOnlyAwaits
<1>1. Init => ClosedHasNone
  BY DEF Init, ClosedHasNone
<1>2. NoCheckLost /\ ClosedHasNone => ClosedOnlyAwaits
  BY NoCheckIsNoConfig DEF NoCheckLost, ClosedHasNone, ClosedOnlyAwaits
<1>3. QED
  BY <1>1, <1>2, ClosedHasNoneStep, NoCheckIsLost, PTL DEF Spec

-----------------------------------------------------------------------------
(* Each check keeps its promise.                                           *)

\* The check of configuration g, silent while it is not made.
Promise(g) == INSTANCE CheckPromise
                WITH phase <- IF phase[g] = "none" THEN "silent" ELSE phase[g],
                     status <- status[g]

LEMMA PromiseInitially ==
  ASSUME NEW g \in Config PROVE Init => Promise(g)!PromiseInit
BY DEF Init, Promise!PromiseInit

\* What happens to the server and its other checks is nothing to a check, and
\* to be closed once more is nothing either.
LEMMA PromiseStep ==
  ASSUME NEW g \in Config
  PROVE  IInv /\ [Next]_vars => [Promise(g)!PromiseNext]_(Promise(g)!promiseVars)
<1> SUFFICES ASSUME IInv, [Next]_vars
             PROVE  Promise(g)!PromiseNext \/ UNCHANGED Promise(g)!promiseVars
  OBVIOUS
<1> DEFINE Keeps == Promise(g)!PromiseNext \/ UNCHANGED Promise(g)!promiseVars
<1>0. /\ phase \in [Config -> Phases] /\ status \in [Config -> BOOLEAN]
      /\ \A c \in Config : status[c] => phase[c] = "told"
  BY DEF IInv, TypeOK
<1>1. ASSUME UNCHANGED <<phase[g], status[g]>> PROVE Keeps
  BY <1>1 DEF Promise!promiseVars
<1>2. ASSUME NEW S, StopChecks(S), g \in S => phase[g] # "none" PROVE Keeps
  BY <1>0, <1>1, <1>2
     DEF StopChecks, Phases, Promise!promiseVars, Promise!PromiseNext, Promise!Stop
<1>3. slot = g => phase[g] = "told"
  BY NoCheckIsNoConfig DEF IInv, InstalledIsTold
<1>4. CASE ActivateWithCheck
  <2>1. phase' = [phase EXCEPT ![active + 1] = "silent"] /\ status' = status
    BY <1>4 DEF ActivateWithCheck
  <2>2. CASE g = active + 1
    <3>1. active \in Nat /\ g > active
      BY <2>2, MaxConfigsIsNat DEF IInv, TypeOK
    <3>2. phase[g] = "none"
      BY <3>1 DEF IInv, WaitingIsPrivate
    <3>3. QED
      BY <1>0, <2>1, <2>2, <3>2 DEF Promise!promiseVars
  <2>3. CASE g # active + 1
    BY <1>0, <1>1, <2>1, <2>3
  <2>4. QED
    BY <2>2, <2>3
<1>5. CASE ActivateWithoutCheck
  <2>1. StopChecks({slot}) \/ StopChecks({slot, NoCheck})
    BY <1>5 DEF ActivateWithoutCheck, SetCheck
  <2>2. QED
    BY <1>2, <1>3, <2>1, NoCheckIsNoConfig
<1>6. ASSUME NEW c \in Config, Tell(c) PROVE Keeps
  <2>1. CASE c = g
    BY <1>0, <1>6, <2>1
       DEF Tell, Promise!promiseVars, Promise!PromiseNext, Promise!Tell
  <2>2. CASE c # g
    BY <1>0, <1>1, <1>6, <2>2 DEF Tell
  <2>3. QED
    BY <2>1, <2>2
<1>7. ASSUME NEW c \in Config, Flip(c) PROVE Keeps
  <2>1. CASE c = g
    BY <1>0, <1>7, <2>1
       DEF Flip, Promise!promiseVars, Promise!PromiseNext, Promise!Flip
  <2>2. CASE c # g
    BY <1>0, <1>1, <1>7, <2>2 DEF Flip
  <2>3. QED
    BY <2>1, <2>2
<1>8. ASSUME NEW c \in Config, Install(c) PROVE Keeps
  <2>1. StopChecks({slot}) \/ StopChecks({slot, c})
    BY <1>8 DEF Install, SetCheck
  <2>2. phase[c] = "told"
    BY <1>8 DEF Install, IInv, WaitingIsPrivate
  <2>3. QED
    BY <1>2, <1>3, <2>1, <2>2
<1>9. CASE CloseCheck
  BY <1>2, <1>3, <1>9 DEF CloseCheck
<1>10. ASSUME NEW c \in Config, Receive(c) PROVE Keeps
  BY <1>1, <1>10 DEF Receive
<1>11. CASE CloseCancel \/ UNCHANGED vars
  BY <1>1, <1>11 DEF CloseCancel, vars
<1>12. QED
  BY <1>4, <1>5, <1>6, <1>7, <1>8, <1>9, <1>10, <1>11 DEF Next

\* Whatever happens to the server, each of its checks behaves as CheckPromise
\* says, which is what HTTPCheck is proved to implement (CheckKeepsPromise).
THEOREM EachKeepsPromise ==
  ASSUME NEW g \in Config PROVE Spec => Promise(g)!PromiseSpec
<1>1. Init => Promise(g)!PromiseInit
  BY PromiseInitially
<1>2. IInv /\ [Next]_vars => [Promise(g)!PromiseNext]_(Promise(g)!promiseVars)
  BY PromiseStep
<1>3. QED
  BY <1>1, <1>2, IInvInvariant, PTL DEF Spec, Promise!PromiseSpec

=============================================================================

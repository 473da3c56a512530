---------------------------- MODULE CheckPromise ----------------------------
(***************************************************************************)
(* What a health check promises to who uses it: it is silent and unhealthy *)
(* until its first verdict, tells that verdict, changes its mind freely    *)
(* afterwards, and is unhealthy for good once it is stopped.               *)
(***************************************************************************)
VARIABLES
  phase,   \* "silent", "told" or "stopped"
  status   \* what Healthy() returns

promiseVars == <<phase, status>>

PromiseInit == phase = "silent" /\ status = FALSE

\* The first verdict.
Tell ==
  /\ phase = "silent"
  /\ phase' = "told"
  /\ status' \in BOOLEAN

\* A later change of status.
Flip ==
  /\ phase = "told"
  /\ status' = ~status
  /\ UNCHANGED phase

Stop ==
  /\ phase # "stopped"
  /\ phase' = "stopped"
  /\ status' = FALSE

PromiseNext == Tell \/ Flip \/ Stop

PromiseSpec == PromiseInit /\ [][PromiseNext]_promiseVars

=============================================================================

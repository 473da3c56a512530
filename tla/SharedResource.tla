--------------------------- MODULE SharedResource ---------------------------
(***************************************************************************)
(* Reference counting in full: what handing servers and listeners over     *)
(* from one configuration to the next must amount to.  A resource is live  *)
(* from its creation until its last owner has released it.                 *)
(***************************************************************************)
CONSTANTS
  Resource,
  Owner

VARIABLES
  owners,  \* who owns each resource
  live     \* the resources that are not closed

refVars == <<owners, live>>

RefInit == owners = [x \in Resource |-> {}] /\ live = {}

Create(x, o) ==
  /\ x \notin live
  /\ owners' = [owners EXCEPT ![x] = {o}]
  /\ live' = live \cup {x}

Share(x, o) ==
  /\ x \in live /\ o \notin owners[x]
  /\ owners' = [owners EXCEPT ![x] = @ \cup {o}]
  /\ UNCHANGED live

Release(x, o) ==
  /\ o \in owners[x]
  /\ owners' = [owners EXCEPT ![x] = @ \ {o}]
  /\ live' = IF owners[x] = {o} THEN live \ {x} ELSE live

RefNext ==
  \E x \in Resource, o \in Owner : Create(x, o) \/ Share(x, o) \/ Release(x, o)

RefSpec == RefInit /\ [][RefNext]_refVars

=============================================================================

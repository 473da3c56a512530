---------------------- MODULE BackendServerOwnership -----------------------
(***************************************************************************)
(* The refinement mapping from the pool of pkg/lb/backendserver.go to the  *)
(* ownership of connections: the owner of an open connection is read off   *)
(* bs.bcs and the connections that requests hold.                          *)
(***************************************************************************)
EXTENDS BackendServer

CONSTANTS Pooled, Closed

ASSUME OwnerValues == Pooled # Closed /\ Pooled \notin Req /\ Closed \notin Req

ownerOf ==
  [c \in Conn |->
     IF c \notin open THEN Closed
     ELSE IF c \in bcs THEN Pooled
     ELSE CHOOSE r \in Req : Holds(r, c)]

Own == INSTANCE ConnOwnership
         WITH owner <- ownerOf, down <- (closing = "closed")

\* Every step of the code moves connections between owners as ConnOwnership
\* allows, or moves none: the pool implements exclusive ownership, across
\* acquire, release, sweep, sharing and Close.
ImplementsOwnership == Own!OwnSpec

=============================================================================

--------------------------- MODULE ConnOwnership ---------------------------
(***************************************************************************)
(* What the connection pool of a backend server promises, without pool,    *)
(* counters, mutexes or goroutines: every connection is closed, idle in    *)
(* the pool, or owned by exactly one request, a request owns at most one,  *)
(* and once the server is shut down no connection is idle any more.        *)
(***************************************************************************)
CONSTANTS
  Req,     \* requests
  Conn,    \* connections
  Pooled,  \* the owner of an idle connection
  Closed   \* the owner of a connection whose socket is closed

VARIABLES
  owner,  \* who may use each connection
  down    \* the server is shut down

ownVars == <<owner, down>>

OwnedBy(o) == {c \in Conn : owner[c] = o}

OwnTypeOK ==
  /\ owner \in [Conn -> Req \cup {Pooled, Closed}]
  /\ down \in BOOLEAN

OwnInit == owner = [c \in Conn |-> Closed] /\ down = FALSE

\* The connections of S get the owner o, the others keep theirs.
Pass(S, o) == [c \in Conn |-> IF c \in S THEN o ELSE owner[c]]

\* r dials a new connection.
Establish(r, c) ==
  /\ OwnedBy(r) = {} /\ owner[c] = Closed
  /\ owner' = Pass({c}, r)
  /\ UNCHANGED down

\* r takes an idle connection out of the pool; D is thrown away on the way.
Take(r, c, D) ==
  /\ OwnedBy(r) = {} /\ owner[c] = Pooled
  /\ D \subseteq OwnedBy(Pooled) \ {c}
  /\ owner' = [c2 \in Conn |-> IF c2 = c THEN r
                               ELSE IF c2 \in D THEN Closed ELSE owner[c2]]
  /\ UNCHANGED down

\* r gives its connection back, which a server that is down does not take.
Put(r, c) ==
  /\ ~down /\ owner[c] = r
  /\ owner' = Pass({c}, Pooled)
  /\ UNCHANGED down

\* Connections are closed, idle ones or one in use.
Drop(D) ==
  /\ owner' = Pass(D, Closed)
  /\ UNCHANGED down

Shutdown ==
  /\ ~down
  /\ owner' = Pass(OwnedBy(Pooled), Closed)
  /\ down' = TRUE

OwnNext ==
  \/ \E r \in Req, c \in Conn : Establish(r, c) \/ Put(r, c)
  \/ \E r \in Req, c \in Conn, D \in SUBSET Conn : Take(r, c, D)
  \/ \E D \in SUBSET Conn : Drop(D)
  \/ Shutdown

OwnSpec == OwnInit /\ [][OwnNext]_ownVars

=============================================================================

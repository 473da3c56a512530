-------------------- MODULE BackendServerOwnershipProofs --------------------
(***************************************************************************)
(* For any number of requests and connections: the pool of a backend       *)
(* server implements ConnOwnership, by the refinement mapping of           *)
(* BackendServerOwnership.                                                 *)
(***************************************************************************)
EXTENDS BackendServerOwnership, BackendServerProofs

\* In a state of the invariant every connection has the owner one expects:
\* the CHOOSE of the mapping has exactly one candidate.
LEMMA OwnerIs ==
  ASSUME IInv
  PROVE  /\ \A c \in Conn : c \notin open => ownerOf[c] = Closed
         /\ \A c \in Conn : c \in bcs => ownerOf[c] = Pooled
         /\ \A c \in Conn, r \in Req : c \in open /\ Holds(r, c) => ownerOf[c] = r
         /\ \A c \in Conn : c \in open \ bcs => \E r \in Req : Holds(r, c)
         /\ \A c \in Conn : ownerOf[c] = Pooled => c \in bcs
         /\ \A c \in Conn, r \in Req : ownerOf[c] = r => c \in open /\ Holds(r, c)
<1>1. ExclusiveUse /\ NoLeak /\ Types
  BY DEF IInv, Owning
<1>2. \A c \in Conn : c \notin open => ownerOf[c] = Closed
  BY DEF ownerOf
<1>3. \A c \in Conn : c \in bcs => ownerOf[c] = Pooled
  BY <1>1 DEF ownerOf, ExclusiveUse
<1>4. \A c \in Conn : c \in open \ bcs => \E r \in Req : Holds(r, c)
  BY <1>1 DEF NoLeak
<1>5. \A c \in Conn, r \in Req : c \in open /\ Holds(r, c) => ownerOf[c] = r
  <2> SUFFICES ASSUME NEW c \in Conn, NEW r \in Req, c \in open, Holds(r, c)
               PROVE  ownerOf[c] = r
    OBVIOUS
  <2>1. c \notin bcs /\ c # NoConn
    BY <1>1, NoConnIsNil DEF ExclusiveUse, Holds
  <2>2. \A s \in Req : Holds(s, c) => s = r
    BY <1>1, <2>1 DEF ExclusiveUse, Holds
  <2>3. ownerOf[c] = CHOOSE s \in Req : Holds(s, c)
    BY <2>1 DEF ownerOf
  <2>4. QED
    BY <2>2, <2>3
<1>6. \A c \in Conn : c \in open \ bcs => ownerOf[c] \in Req /\ Holds(ownerOf[c], c)
  BY <1>4, <1>5
<1>7. QED
  BY <1>2, <1>3, <1>4, <1>5, <1>6, OwnerValues

\* An empty pool maps to a state in which nobody owns a connection.
LEMMA OwnInitially == Init => Own!OwnInit
BY DEF Init, Own!OwnInit, ownerOf

\* A step that touches neither sockets nor pool nor holders is a stutter.
LEMMA OwnStutter ==
  ASSUME UNCHANGED <<open, bcs, bc>>
  PROVE  ownerOf' = ownerOf
BY DEF ownerOf, Holds

\* The owner after a step of an open connection that r holds then.
LEMMA HolderOwns ==
  ASSUME IInv', NEW c \in Conn, NEW r \in Req, c \in open', Holds(r, c)'
  PROVE  ownerOf'[c] = r
<1>1. c \notin bcs' /\ c # NoConn
  BY NoConnIsNil DEF IInv, Owning, ExclusiveUse, Holds
<1>2. \A s \in Req : Holds(s, c)' => s = r
  BY <1>1 DEF IInv, Owning, ExclusiveUse, Holds
<1>3. ownerOf'[c] = CHOOSE s \in Req : Holds(s, c)'
  BY <1>1 DEF ownerOf
<1>4. QED
  BY <1>2, <1>3

\* A step that only closes the connections of D drops them.
LEMMA OwnDrop ==
  ASSUME IInv, IInv', NEW D \in SUBSET Conn, open' = open \ D,
         \A c \in Conn \ D : c \in bcs <=> c \in bcs',
         \A c \in open' \ bcs', r \in Req : Holds(r, c) => Holds(r, c)'
  PROVE  ownerOf' = Own!Pass(D, Closed)
<1>1. ASSUME NEW c \in Conn
      PROVE  ownerOf'[c] = IF c \in D THEN Closed ELSE ownerOf[c]
  <2>1. CASE c \in D \/ c \notin open
    BY <2>1 DEF ownerOf
  <2>2. CASE c \in open \ D /\ c \in bcs
    BY <2>2 DEF ownerOf
  <2>3. CASE c \in open \ D /\ c \notin bcs
    <3>1. PICK r \in Req : Holds(r, c)
      BY <2>3, OwnerIs
    <3>2. c \in open' /\ Holds(r, c)'
      BY <2>3, <3>1
    <3>3. ownerOf[c] = r
      BY <2>3, <3>1, OwnerIs
    <3>4. ownerOf'[c] = r
      BY <3>2, HolderOwns
    <3>5. QED
      BY <2>3, <3>3, <3>4
  <2>4. QED
    BY <2>1, <2>2, <2>3
<1>2. ownerOf' = [c \in Conn |-> ownerOf'[c]]
  BY DEF ownerOf
<1>3. QED
  BY <1>1, <1>2 DEF Own!Pass

\* Every step of the pool is one of ConnOwnership or changes no owner.
LEMMA OwnStep ==
  IInv /\ IInv' /\ [Next]_vars => [Own!OwnNext]_(Own!ownVars)
<1> SUFFICES ASSUME IInv, IInv', [Next]_vars
             PROVE  Own!OwnNext \/ UNCHANGED Own!ownVars
  OBVIOUS
<1> USE DEF vars, poolVars, reqVars, connVars, sockVars, lifeVars, sweepVars,
            CtxDone, Own!ownVars
<1>0. Types /\ Owning
  BY DEF IInv
<1>1. ASSUME NEW r \in Req, Admit(r)
      PROVE  Own!OwnNext \/ UNCHANGED Own!ownVars
  BY <1>1, OwnStutter DEF Admit
<1>2. ASSUME NEW r \in Req, CountActive(r)
      PROVE  Own!OwnNext \/ UNCHANGED Own!ownVars
  BY <1>2, OwnStutter DEF CountActive
<1>3. ASSUME NEW r \in Req, DialFail(r)
      PROVE  Own!OwnNext \/ UNCHANGED Own!ownVars
  BY <1>3, OwnStutter DEF DialFail
<1>4. ASSUME NEW r \in Req, FinishOk(r)
      PROVE  Own!OwnNext \/ UNCHANGED Own!ownVars
  BY <1>4, OwnStutter DEF FinishOk
<1>5. ASSUME NEW r \in Req, Uncount(r)
      PROVE  Own!OwnNext \/ UNCHANGED Own!ownVars
  BY <1>5, OwnStutter DEF Uncount
<1>6. ASSUME NEW c \in Conn, LateEngressEnds(c)
      PROVE  Own!OwnNext \/ UNCHANGED Own!ownVars
  BY <1>6, OwnStutter DEF LateEngressEnds
<1>7. ASSUME NEW c \in Conn, PeerCloses(c)
      PROVE  Own!OwnNext \/ UNCHANGED Own!ownVars
  BY <1>7, OwnStutter DEF PeerCloses
<1>8. ASSUME NEW c \in Conn, PeerSendsSurplus(c)
      PROVE  Own!OwnNext \/ UNCHANGED Own!ownVars
  BY <1>8, OwnStutter DEF PeerSendsSurplus
<1>9. ASSUME NEW c \in Conn, PipeRead(c)
      PROVE  Own!OwnNext \/ UNCHANGED Own!ownVars
  BY <1>9, OwnStutter DEF PipeRead
<1>10. ASSUME NEW c \in Conn, PipeEnds(c)
      PROVE  Own!OwnNext \/ UNCHANGED Own!ownVars
  BY <1>10, OwnStutter DEF PipeEnds
<1>11. ASSUME WorkerExits
      PROVE  Own!OwnNext \/ UNCHANGED Own!ownVars
  BY <1>11, OwnStutter DEF WorkerExits
<1>12. ASSUME SetShared
      PROVE  Own!OwnNext \/ UNCHANGED Own!ownVars
  BY <1>12, OwnStutter DEF SetShared
<1>13. ASSUME CloseCall
      PROVE  Own!OwnNext \/ UNCHANGED Own!ownVars
  BY <1>13, OwnStutter DEF CloseCall
<1>14. ASSUME NEW r \in Req, FinishErr(r)
      PROVE  Own!OwnNext \/ UNCHANGED Own!ownVars
  <2>1. {bc[r]} \in SUBSET Conn /\ {bc[r]} \cap bcs = {}
    BY <1>14, <1>0 DEF FinishErr, Goto, Types, Owning, HoldsInUse, ExclusiveUse
  <2>2. ownerOf' = Own!Pass({bc[r]}, Closed)
    BY <1>14, <2>1, OwnDrop DEF FinishErr, CloseConns, Holds
  <2>3. Own!Drop({bc[r]})
    BY <1>14, <2>2 DEF Own!Drop, FinishErr
  <2>4. QED
    BY <2>1, <2>3 DEF Own!OwnNext
<1>15. ASSUME NEW r \in Req, CheckIdle(r)
      PROVE  Own!OwnNext \/ UNCHANGED Own!ownVars
  <2>1. CASE UNCHANGED sockVars
    BY <1>15, <2>1, OwnStutter DEF CheckIdle
  <2>2. CASE CloseConns({bc[r]})
    <3>1. {bc[r]} \in SUBSET Conn /\ {bc[r]} \cap bcs = {}
      BY <1>15, <1>0 DEF CheckIdle, Goto, Types, Owning, HoldsInUse, ExclusiveUse
    <3>2. ownerOf' = Own!Pass({bc[r]}, Closed)
      BY <1>15, <2>2, <3>1, OwnDrop DEF CheckIdle, CloseConns, Holds
    <3>3. Own!Drop({bc[r]})
      BY <1>15, <3>2 DEF Own!Drop, CheckIdle
    <3>4. QED
      BY <3>1, <3>3 DEF Own!OwnNext
  <2>3. QED
    BY <1>15, <2>1, <2>2 DEF CheckIdle
<1>16. ASSUME Sweep
      PROVE  Own!OwnNext \/ UNCHANGED Own!ownVars
  <2>1. CASE Tick \/ SweepLock \/ SweepUnlock
    BY <2>1, OwnStutter DEF Tick, SweepLock, SweepUnlock
  <2>2. ASSUME NEW c \in Conn, SweepConn(c), c \notin pe
        PROVE  UNCHANGED Own!ownVars
    BY <2>2, OwnStutter DEF SweepConn
  <2>3. ASSUME NEW c \in Conn, SweepConn(c), c \in pe
        PROVE  Own!Drop({c})
    <3>1. /\ open' = open \ {c} /\ bcs' = bcs \ {c}
          /\ bc' = bc /\ closing' = closing
      BY <2>3 DEF SweepConn, Evict, CloseConns
    <3>2. ownerOf' = Own!Pass({c}, Closed)
      BY <3>1, OwnDrop DEF Holds
    <3>3. QED
      BY <3>1, <3>2 DEF Own!Drop
  <2>4. QED
    BY <1>16, <2>1, <2>2, <2>3 DEF Sweep, Own!OwnNext
<1>17. ASSUME CloseDrain
      PROVE  Own!OwnNext \/ UNCHANGED Own!ownVars
  <2>1. ownerOf' = Own!Pass(bcs, Closed)
    BY <1>17, <1>0, OwnDrop DEF CloseDrain, Evict, CloseConns, Holds, Types
  <2>2. Own!OwnedBy(Pooled) = bcs
    BY <1>0, OwnerIs DEF Own!OwnedBy, Types
  <2>3. Own!Shutdown
    BY <1>17, <2>1, <2>2 DEF Own!Shutdown, CloseDrain
  <2>4. QED
    BY <2>3 DEF Own!OwnNext
<1>18. ASSUME NEW r \in Req, DialOk(r)
      PROVE  Own!OwnNext \/ UNCHANGED Own!ownVars
  <2>1. PICK c \in Fresh : /\ bc' = [bc EXCEPT ![r] = c]
                         /\ open' = open \cup {c}
    BY <1>18 DEF DialOk
  <2>2. /\ bcs' = bcs /\ closing' = closing /\ bc[r] = NoConn
        /\ c \in Conn /\ c \notin open /\ c \notin bcs
        /\ \A s \in Req : bc[s] # c
    BY <1>18, <1>0 DEF DialOk, Goto, Fresh, Owning, HoldsInUse
  <2>3. ownerOf[c] = Closed
    BY <2>2, OwnerIs
  <2>4. Own!OwnedBy(r) = {}
    BY <2>2, OwnerIs, NoConnIsNil DEF Own!OwnedBy, Holds
  <2>5. bc'[r] = c /\ \A s \in Req \ {r} : bc'[s] = bc[s]
    BY <1>0, <2>1 DEF Types
  <2>6. ownerOf'[c] = r
    BY <2>1, <2>2, <2>5, HolderOwns DEF Holds
  <2>7. ASSUME NEW d \in Conn \ {c} PROVE ownerOf'[d] = ownerOf[d]
    <3>1. CASE d \notin open \/ d \in bcs
      BY <2>1, <2>2, <3>1 DEF ownerOf
    <3>2. CASE d \in open \ bcs
      <4>1. PICK s \in Req : Holds(s, d)
        BY <3>2, OwnerIs
      <4>2. s # r
        BY <2>2, <4>1, NoConnIsNil DEF Holds
      <4>3. QED
        BY <2>1, <2>5, <3>2, <4>1, <4>2, OwnerIs, HolderOwns DEF Holds
    <3>3. QED
      BY <3>1, <3>2
  <2>8. ownerOf' = Own!Pass({c}, r)
    <3>1. ownerOf' = [d \in Conn |-> ownerOf'[d]]
      BY DEF ownerOf
    <3>2. QED
      BY <2>6, <2>7, <3>1 DEF Own!Pass
  <2>9. Own!Establish(r, c)
    BY <2>2, <2>3, <2>4, <2>8 DEF Own!Establish
  <2>10. QED
    BY <2>2, <2>9 DEF Own!OwnNext
<1>19. ASSUME NEW r \in Req, PoolConn(r)
      PROVE  Own!OwnNext \/ UNCHANGED Own!ownVars
  <2>1. bc[r] \in Conn /\ bc[r] \notin bcs
    BY <1>19, <1>0 DEF PoolConn, Goto, Types, Owning, HoldsInUse, ExclusiveUse
  <2>2. \A s \in Req \ {r} : bc'[s] = bc[s] /\ bc[s] # bc[r]
    BY <1>19, <1>0, <2>1, NoConnIsNil DEF PoolConn, Types, Owning, ExclusiveUse
  <2>3. CASE Poolable(bc[r])
    <3>1. bcs' = bcs \cup {bc[r]} /\ open' = open /\ closing' = closing
      BY <1>19, <2>3 DEF PoolConn
    <3>2. bc[r] \in open
      BY <1>0, <2>1, <2>3, NoConnIsNil DEF Poolable, Owning, HeldOpenOrDead
    <3>3. ownerOf[bc[r]] = r
      BY <2>1, <3>2, OwnerIs DEF Holds
    <3>4. ownerOf'[bc[r]] = Pooled
      BY <2>1, <3>1, <3>2 DEF ownerOf
    <3>5. ASSUME NEW d \in Conn, d # bc[r] PROVE ownerOf'[d] = ownerOf[d]
      <4>1. CASE d \notin open \/ d \in bcs
        BY <3>1, <3>5, <4>1 DEF ownerOf
      <4>2. CASE d \in open \ bcs
        <5>1. PICK s \in Req : Holds(s, d)
          BY <4>2, OwnerIs
        <5>2. s # r /\ Holds(s, d)'
          BY <2>2, <3>5, <5>1 DEF Holds
        <5>3. QED
          BY <3>1, <4>2, <5>1, <5>2, OwnerIs, HolderOwns
      <4>3. QED
        BY <4>1, <4>2
    <3>6. ownerOf' = Own!Pass({bc[r]}, Pooled)
      <4>1. ownerOf' = [d \in Conn |-> ownerOf'[d]]
        BY DEF ownerOf
      <4>2. QED
        BY <3>4, <3>5, <4>1 DEF Own!Pass
    <3>7. Own!Put(r, bc[r])
      BY <2>3, <3>1, <3>3, <3>6 DEF Own!Put, Poolable
    <3>8. QED
      BY <2>1, <3>7 DEF Own!OwnNext
  <2>4. CASE ~Poolable(bc[r])
    <3>1. bcs' = bcs /\ open' = open \ {bc[r]} /\ closing' = closing
      BY <1>19, <2>4 DEF PoolConn, CloseConns
    <3>2. \A d \in open' \ bcs', s \in Req : Holds(s, d) => Holds(s, d)'
      BY <2>2, <3>1 DEF Holds
    <3>3. ownerOf' = Own!Pass({bc[r]}, Closed)
      BY <2>1, <3>1, <3>2, OwnDrop
    <3>4. Own!Drop({bc[r]})
      BY <3>1, <3>3 DEF Own!Drop
    <3>5. QED
      BY <2>1, <3>4 DEF Own!OwnNext
  <2>5. QED
    BY <2>3, <2>4
<1>20. ASSUME NEW r \in Req, TakeConn(r)
      PROVE  Own!OwnNext \/ UNCHANGED Own!ownVars
  <2>1. CASE \E c \in Usable : \E D \in SUBSET (bcs \ Usable) :
                /\ Evict(D \cup {c}) /\ CloseConns(D)
                /\ bc' = [bc EXCEPT ![r] = c]
    <3>1. PICK c \in Usable, D \in SUBSET (bcs \ Usable) :
              /\ Evict(D \cup {c}) /\ CloseConns(D)
              /\ bc' = [bc EXCEPT ![r] = c]
      BY <2>1
    <3>2. /\ c \in bcs /\ c \notin D /\ D \subseteq bcs
          /\ c \in Conn /\ c \in open /\ D \subseteq Conn
      BY <1>0 DEF Usable, Types, Owning, ExclusiveUse
    <3>3. /\ bcs' = bcs \ (D \cup {c}) /\ open' = open \ D
          /\ closing' = closing /\ bc[r] = NoConn
      BY <1>20, <1>0, <3>1 DEF TakeConn, Goto, Evict, CloseConns, Owning, HoldsInUse
    <3>4. bc'[r] = c /\ \A s \in Req \ {r} : bc'[s] = bc[s]
      BY <1>0, <3>1 DEF Types
    <3>5. Own!OwnedBy(r) = {}
      BY <3>3, OwnerIs, NoConnIsNil DEF Own!OwnedBy, Holds
    <3>6. /\ ownerOf[c] = Pooled
          /\ D \subseteq Own!OwnedBy(Pooled) \ {c}
      BY <3>2, OwnerIs DEF Own!OwnedBy
    <3>7. ownerOf'[c] = r
      BY <3>2, <3>3, <3>4, HolderOwns DEF Holds
    <3>8. \A d \in D : ownerOf'[d] = Closed
      BY <3>2, <3>3 DEF ownerOf
    <3>9. ASSUME NEW d \in Conn, d # c, d \notin D PROVE ownerOf'[d] = ownerOf[d]
      <4>1. CASE d \notin open \/ d \in bcs
        BY <3>3, <3>9, <4>1 DEF ownerOf
      <4>2. CASE d \in open \ bcs
        <5>1. PICK s \in Req : Holds(s, d)
          BY <4>2, OwnerIs
        <5>2. s # r /\ Holds(s, d)'
          BY <3>3, <3>4, <5>1, NoConnIsNil DEF Holds
        <5>3. QED
          BY <3>3, <3>9, <4>2, <5>1, <5>2, OwnerIs, HolderOwns
      <4>3. QED
        BY <4>1, <4>2
    <3>10. ownerOf' = [d \in Conn |-> IF d = c THEN r
                                    ELSE IF d \in D THEN Closed ELSE ownerOf[d]]
      <4>1. ownerOf' = [d \in Conn |-> ownerOf'[d]]
        BY DEF ownerOf
      <4>2. QED
        BY <3>7, <3>8, <3>9, <4>1
    <3>11. Own!Take(r, c, D)
      BY <3>3, <3>5, <3>6, <3>10 DEF Own!Take
    <3>12. QED
      BY <3>2, <3>11 DEF Own!OwnNext
  <2>2. CASE Evict(bcs) /\ CloseConns(bcs) /\ UNCHANGED bc
    <3>1. ownerOf' = Own!Pass(bcs, Closed)
      BY <1>0, <2>2, OwnDrop DEF Evict, CloseConns, Holds, Types
    <3>2. Own!Drop(bcs) /\ bcs \in SUBSET Conn
      BY <1>20, <1>0, <3>1 DEF Own!Drop, TakeConn, Types
    <3>3. QED
      BY <3>2 DEF Own!OwnNext
  <2>3. QED
    BY <1>20, <2>1, <2>2 DEF TakeConn
<1>21. ASSUME UNCHANGED vars
      PROVE  Own!OwnNext \/ UNCHANGED Own!ownVars
  BY <1>21, OwnStutter
<1>22. QED
  BY <1>1, <1>2, <1>3, <1>4, <1>5, <1>6, <1>7, <1>8, <1>9, <1>10, <1>11, <1>12,
     <1>13, <1>14, <1>15, <1>16, <1>17, <1>18, <1>19, <1>20, <1>21
     DEF Next, Request, Proceed, Connection, Life

\* The pool of backendserver.go implements exclusive ownership of connections,
\* whatever the number of requests, connections and the limits.
THEOREM PoolImplementsOwnership == Spec => ImplementsOwnership
<1>1. IInv /\ IInv' /\ [Next]_vars => [Own!OwnNext]_(Own!ownVars)
  BY OwnStep
<1>2. QED
  BY <1>1, IInvInvariant, OwnInitially, PTL DEF Spec, ImplementsOwnership, Own!OwnSpec

=============================================================================

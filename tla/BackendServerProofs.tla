------------------------ MODULE BackendServerProofs ------------------------
(***************************************************************************)
(* For any number of requests and connections and any limits: the type     *)
(* invariant, the exactness of the counters, exclusive use, the absence of *)
(* leaks, the bound on sockets and the emptiness of a drained pool are     *)
(* invariants of BackendServer.                                            *)
(***************************************************************************)
EXTENDS BackendServer, FiniteSetTheorems, TLAPS

Types ==
  /\ bcs \subseteq Conn /\ IsFiniteSet(bcs)
  /\ active \in Int /\ idle \in Int /\ total \in Int
  /\ pc \in [Req -> PC]
  /\ bc \in [Req -> Conn \cup {NoConn}]
  /\ open \subseteq Conn /\ gone \subseteq Conn /\ pe \subseteq Conn
  /\ counted \subseteq Conn /\ late \subseteq Conn
  /\ surplus \in [Conn -> Surplus]
  /\ shared \in BOOLEAN /\ closing \in Closing
  /\ worker \in Worker /\ bcsMu \in {"free", "worker", "close"}

\* The sweep holds bcsMu from its first connection to its last, so that none
\* it has yet to ask leaves the pool.
Sweeping ==
  /\ bcsMu = (IF worker = "sweep" THEN "worker" ELSE "free")
  /\ toSweep \subseteq bcs
  /\ toSweep # {} => worker = "sweep"

\* A request holds a connection from the moment it starts to use one until it
\* has released it, and holds none before.
HoldsInUse ==
  \A r \in Req :
    /\ pc[r] \in {"out", "admitted", "dialing"} => bc[r] = NoConn
    /\ pc[r] \in {"serving", "served", "releasing", "uncounted"} => bc[r] # NoConn

\* A held connection that was closed shows it, so that ConnRelease cannot
\* pool it: Check() fails.
HeldOpenOrDead == \A r \in Req : bc[r] # NoConn => bc[r] \in open \cup pe

\* What a section under bcsMu does when it removes D from the pool.
LEMMA EvictTypes ==
  ASSUME Types, NEW D \in SUBSET bcs, Evict(D)
  PROVE  /\ bcs' \subseteq Conn /\ IsFiniteSet(bcs')
         /\ idle' \in Int /\ total' \in Int
         /\ Cardinality(D) \in Nat
         /\ Cardinality(bcs') = Cardinality(bcs) - Cardinality(D)
         /\ Cardinality(bcs) \in Nat /\ Cardinality(bcs') \in Nat
<1>1. IsFiniteSet(D) /\ Cardinality(D) \in Nat
  BY FS_Subset, FS_CardinalityType DEF Types
<1>2. bcs \cap D = D
  OBVIOUS
<1>3. IsFiniteSet(bcs \ D) /\ Cardinality(bcs \ D) = Cardinality(bcs) - Cardinality(D)
  BY <1>2, FS_Difference DEF Types
<1>4. QED
  BY <1>1, <1>3, FS_CardinalityType DEF Types, Evict

\* What closing the connections of S does.
LEMMA CloseTypes ==
  ASSUME Types, NEW S \in SUBSET Conn, CloseConns(S)
  PROVE  /\ open' \subseteq Conn /\ gone' \subseteq Conn /\ pe' \subseteq Conn
         /\ counted' \subseteq Conn
         /\ surplus' \in [Conn -> Surplus]
BY DEF Types, CloseConns, Surplus

\* Every step keeps the types; the counters stay natural numbers because what
\* they count is counted exactly.
LEMMA TypesStep ==
  Types /\ HoldsInUse /\ Sweeping /\ [Next]_vars => Types'
<1> SUFFICES ASSUME Types, HoldsInUse, Sweeping, [Next]_vars PROVE Types'
  OBVIOUS
<1> USE DEF vars, poolVars, reqVars, connVars, sockVars, lifeVars, sweepVars
<1>1. ASSUME NEW r \in Req, Admit(r) PROVE Types'
  BY <1>1 DEF Admit, Goto, Types, PC, Surplus
<1>2. ASSUME NEW r \in Req, TakeConn(r) PROVE Types'
  <2>1. CASE \E c \in Usable : \E D \in SUBSET (bcs \ Usable) :
                /\ Evict(D \cup {c}) /\ CloseConns(D)
                /\ bc' = [bc EXCEPT ![r] = c]
    <3>1. PICK c \in Usable, D \in SUBSET (bcs \ Usable) :
              /\ Evict(D \cup {c}) /\ CloseConns(D)
              /\ bc' = [bc EXCEPT ![r] = c]
      BY <2>1
    <3>2. D \cup {c} \in SUBSET bcs /\ D \in SUBSET Conn /\ c \in Conn
      BY DEF Types, Usable
    <3>3. QED
      BY <1>2, <3>1, <3>2, EvictTypes, CloseTypes DEF Types, TakeConn, Goto, PC
  <2>2. CASE Evict(bcs) /\ CloseConns(bcs) /\ UNCHANGED bc
    BY <1>2, <2>2, EvictTypes, CloseTypes DEF Types, TakeConn, Goto, PC
  <2>3. QED
    BY <1>2, <2>1, <2>2 DEF TakeConn
<1>3. ASSUME NEW r \in Req, CountActive(r) PROVE Types'
  <2>1. bc[r] # NoConn => counted \cup {bc[r]} \subseteq Conn
    BY <1>3 DEF Types
  <2>2. QED
    BY <1>3, <2>1 DEF Types, CountActive, Goto, PC
<1>4. ASSUME NEW r \in Req, DialOk(r) PROVE Types'
  BY <1>4 DEF DialOk, Goto, Fresh, Types, PC, Surplus
<1>5. ASSUME NEW r \in Req, DialFail(r) PROVE Types'
  BY <1>5 DEF DialFail, Goto, Types, PC, Surplus
<1>6. ASSUME NEW r \in Req, FinishOk(r) PROVE Types'
  BY <1>6 DEF FinishOk, Goto, Types, PC, Surplus
<1>7. ASSUME NEW r \in Req, FinishErr(r) PROVE Types'
  <2>1. {bc[r]} \subseteq Conn
    BY <1>7 DEF FinishErr, Goto, Types, HoldsInUse
  <2>2. QED
    BY <1>7, <2>1, CloseTypes DEF Types, FinishErr, Goto, PC
<1>8. ASSUME NEW r \in Req, CheckIdle(r) PROVE Types'
  <2>1. {bc[r]} \subseteq Conn
    BY <1>8 DEF CheckIdle, Goto, Types, HoldsInUse
  <2>2. QED
    BY <1>8, <2>1, CloseTypes DEF Types, CheckIdle, Goto, PC
<1>9. ASSUME NEW r \in Req, Uncount(r) PROVE Types'
  BY <1>9 DEF Uncount, Goto, Types, PC, Surplus
<1>10. ASSUME NEW r \in Req, PoolConn(r) PROVE Types'
  <2>1. bc[r] \in Conn
    BY <1>10 DEF PoolConn, Goto, Types, HoldsInUse
  <2>2. CASE Poolable(bc[r])
    BY <1>10, <2>1, <2>2, FS_AddElement DEF Types, PoolConn, Goto, PC
  <2>3. CASE ~Poolable(bc[r])
    BY <1>10, <2>1, <2>3, CloseTypes DEF Types, PoolConn, Goto, PC
  <2>4. QED
    BY <2>2, <2>3
<1>11. ASSUME NEW c \in Conn, LateEngressEnds(c) PROVE Types'
  BY <1>11 DEF LateEngressEnds, Types, PC, Surplus
<1>12. ASSUME NEW c \in Conn, PeerCloses(c) PROVE Types'
  BY <1>12 DEF PeerCloses, Types, PC, Surplus
<1>13. ASSUME NEW c \in Conn, PeerSendsSurplus(c) PROVE Types'
  BY <1>13 DEF PeerSendsSurplus, Types, PC, Surplus
<1>14. ASSUME NEW c \in Conn, PipeRead(c) PROVE Types'
  BY <1>14 DEF PipeRead, Types, PC, Surplus
<1>15. ASSUME NEW c \in Conn, PipeEnds(c) PROVE Types'
  BY <1>15 DEF PipeEnds, Types, PC, Surplus
<1>16. ASSUME Sweep PROVE Types'
  <2>1. CASE Tick
    BY <2>1 DEF Types, Worker, Closing, Tick
  <2>2. CASE SweepLock
    BY <2>2 DEF Types, Worker, Closing, SweepLock
  <2>3. CASE SweepUnlock
    BY <2>3 DEF Types, Worker, Closing, SweepUnlock
  <2>4. ASSUME NEW c \in Conn, SweepConn(c) PROVE Types'
    <3>1. {c} \in SUBSET bcs /\ {c} \subseteq Conn
      BY <2>4 DEF SweepConn, Sweeping
    <3>2. CASE c \in pe
      BY <2>4, <3>1, <3>2, EvictTypes, CloseTypes DEF Types, SweepConn
    <3>3. CASE c \notin pe
      BY <2>4, <3>3 DEF Types, SweepConn
    <3>4. QED
      BY <3>2, <3>3
  <2>5. QED
    BY <1>16, <2>1, <2>2, <2>3, <2>4 DEF Sweep
<1>17. ASSUME WorkerExits PROVE Types'
  BY <1>17 DEF WorkerExits, Worker, Types, PC, Surplus
<1>18. ASSUME SetShared PROVE Types'
  BY <1>18 DEF SetShared, Types, PC, Surplus
<1>19. ASSUME CloseCall PROVE Types'
  BY <1>19 DEF CloseCall, CtxDone, Closing, Types, PC, Surplus
<1>20. ASSUME CloseDrain PROVE Types'
  BY <1>20, EvictTypes, CloseTypes DEF Types, CloseDrain, Closing
<1>21. ASSUME UNCHANGED vars PROVE Types'
  BY <1>21 DEF Types
<1>22. QED
  BY <1>1, <1>2, <1>3, <1>4, <1>5, <1>6, <1>7, <1>8, <1>9, <1>10, <1>11, <1>12,
     <1>13, <1>14, <1>15, <1>16, <1>17, <1>18, <1>19, <1>20, <1>21
     DEF Next, Request, Proceed, Connection, Life

-----------------------------------------------------------------------------
(* Who uses which connection.                                              *)

\* Ownership, inductive relative to the types.
Owning ==
  /\ HoldsInUse /\ HeldOpenOrDead /\ ExclusiveUse
  /\ NoLeak
  /\ DrainedStaysEmpty

\* Every step of requests, worker and Close keeps connections with one owner.
LEMMA OwningStep ==
  Types /\ Owning /\ [Next]_vars => Owning'
<1> SUFFICES ASSUME Types, Owning, [Next]_vars PROVE Owning'
  OBVIOUS
<1> USE NoConnIsNil DEF Types, Owning, HoldsInUse, HeldOpenOrDead, ExclusiveUse,
                        NoLeak, DrainedStaysEmpty, Holds, vars,
                        poolVars, reqVars, connVars, sockVars, lifeVars, sweepVars
<1>1. ASSUME NEW r \in Req, Admit(r) PROVE Owning'
  BY <1>1 DEF Admit, Goto, PC
<1>2. ASSUME NEW r \in Req, TakeConn(r) PROVE Owning'
  <2>1. CASE \E c \in Usable : \E D \in SUBSET (bcs \ Usable) :
                /\ Evict(D \cup {c}) /\ CloseConns(D)
                /\ bc' = [bc EXCEPT ![r] = c]
    <3>1. PICK c \in Usable, D \in SUBSET (bcs \ Usable) :
              /\ Evict(D \cup {c}) /\ CloseConns(D)
              /\ bc' = [bc EXCEPT ![r] = c]
      BY <2>1
    <3>2. c \in bcs /\ c \notin D /\ D \subseteq bcs
      BY DEF Usable
    <3>3. bcs' = bcs \ (D \cup {c}) /\ open' = open \ D /\ pe' = pe \cup D
      BY <3>1 DEF Evict, CloseConns
    <3>4. pc' = [pc EXCEPT ![r] = "took"] /\ late' = late /\ closing' = closing
      BY <1>2 DEF TakeConn, Goto, PC, Usable
    <3>5. bc[r] = NoConn
      BY <1>2 DEF TakeConn, Goto, PC, Usable
    <3> HIDE DEF Types
    <3>6. bc \in [Req -> Conn \cup {NoConn}] /\ pc \in [Req -> PC]
         /\ bcs \subseteq Conn /\ open \subseteq Conn
      BY DEF Types
    <3>7. HoldsInUse' /\ HeldOpenOrDead'
      BY <3>1, <3>2, <3>3, <3>4, <3>6
    <3>8. ExclusiveUse' /\ DrainedStaysEmpty'
      BY <3>1, <3>2, <3>3, <3>4, <3>6
    <3>9. NoLeak'
      BY <3>1, <3>2, <3>3, <3>4, <3>5, <3>6
    <3>10. QED
      BY <3>7, <3>8, <3>9
  <2>2. CASE Evict(bcs) /\ CloseConns(bcs) /\ UNCHANGED bc
    BY <1>2, <2>2 DEF TakeConn, Goto, PC, Evict, CloseConns
  <2>3. QED
    BY <1>2, <2>1, <2>2 DEF TakeConn
<1>3. ASSUME NEW r \in Req, CountActive(r) PROVE Owning'
  BY <1>3 DEF CountActive, Goto, PC
<1>4. ASSUME NEW r \in Req, DialOk(r) PROVE Owning'
  BY <1>4 DEF DialOk, Goto, PC, Fresh
<1>5. ASSUME NEW r \in Req, DialFail(r) PROVE Owning'
  BY <1>5 DEF DialFail, Goto, PC
<1>6. ASSUME NEW r \in Req, FinishOk(r) PROVE Owning'
  BY <1>6 DEF FinishOk, Goto, PC
<1>7. ASSUME NEW r \in Req, FinishErr(r) PROVE Owning'
  BY <1>7 DEF FinishErr, Goto, PC, CloseConns
<1>8. ASSUME NEW r \in Req, CheckIdle(r) PROVE Owning'
  BY <1>8 DEF CheckIdle, Goto, PC, CloseConns
<1>9. ASSUME NEW r \in Req, Uncount(r) PROVE Owning'
  BY <1>9 DEF Uncount, Goto, PC
<1>10. ASSUME NEW r \in Req, PoolConn(r) PROVE Owning'
  BY <1>10 DEF PoolConn, Goto, PC, Poolable, CtxDone, CloseConns
<1>11. ASSUME NEW c \in Conn, LateEngressEnds(c) PROVE Owning'
  BY <1>11 DEF LateEngressEnds
<1>12. ASSUME NEW c \in Conn, PeerCloses(c) PROVE Owning'
  BY <1>12 DEF PeerCloses
<1>13. ASSUME NEW c \in Conn, PeerSendsSurplus(c) PROVE Owning'
  BY <1>13 DEF PeerSendsSurplus
<1>14. ASSUME NEW c \in Conn, PipeRead(c) PROVE Owning'
  BY <1>14 DEF PipeRead
<1>15. ASSUME NEW c \in Conn, PipeEnds(c) PROVE Owning'
  BY <1>15 DEF PipeEnds
<1>16. ASSUME Sweep PROVE Owning'
  <2>1. CASE Tick
    BY <2>1 DEF Tick
  <2>2. CASE SweepLock
    BY <2>2 DEF SweepLock
  <2>3. CASE SweepUnlock
    BY <2>3 DEF SweepUnlock
  <2>4. ASSUME NEW c \in Conn, SweepConn(c) PROVE Owning'
    BY <2>4 DEF SweepConn, Evict, CloseConns
  <2>5. QED
    BY <1>16, <2>1, <2>2, <2>3, <2>4 DEF Sweep
<1>17. ASSUME WorkerExits PROVE Owning'
  BY <1>17 DEF WorkerExits
<1>18. ASSUME SetShared PROVE Owning'
  BY <1>18 DEF SetShared
<1>19. ASSUME CloseCall PROVE Owning'
  BY <1>19 DEF CloseCall, CtxDone
<1>20. ASSUME CloseDrain PROVE Owning'
  BY <1>20 DEF CloseDrain, Evict, CloseConns
<1>21. ASSUME UNCHANGED vars PROVE Owning'
  BY <1>21
<1>22. QED
  BY <1>1, <1>2, <1>3, <1>4, <1>5, <1>6, <1>7, <1>8, <1>9, <1>10, <1>11, <1>12,
     <1>13, <1>14, <1>15, <1>16, <1>17, <1>18, <1>19, <1>20, <1>21
     DEF Next, Request, Proceed, Connection, Life

-----------------------------------------------------------------------------
(* The sweep.                                                              *)

\* No step but the sweep's own takes anything out of the pool meanwhile:
\* acquire waits for bcsMu, and Close for the end of the worker.
LEMMA SweepingStep ==
  Sweeping /\ [Next]_vars => Sweeping'
<1> SUFFICES ASSUME Sweeping, [Next]_vars PROVE Sweeping'
  OBVIOUS
<1> USE DEF Sweeping, vars, poolVars, reqVars, connVars, sockVars, lifeVars, sweepVars
<1>1. ASSUME UNCHANGED <<bcs, sweepVars>> PROVE Sweeping'
  BY <1>1
<1>2. ASSUME NEW r \in Req, TakeConn(r) PROVE Sweeping'
  BY <1>2 DEF TakeConn, Evict
<1>3. ASSUME NEW r \in Req, PoolConn(r) PROVE Sweeping'
  BY <1>3 DEF PoolConn
<1>4. ASSUME NEW r \in Req, Proceed(r) PROVE Sweeping'
  BY <1>1, <1>2, <1>3, <1>4
     DEF Proceed, CountActive, DialOk, DialFail, FinishOk, FinishErr, CheckIdle,
         Uncount
<1>5. ASSUME NEW c \in Conn, Connection(c) PROVE Sweeping'
  BY <1>1, <1>5 DEF Connection, LateEngressEnds, PeerCloses, PeerSendsSurplus,
                    PipeRead, PipeEnds
<1>6. ASSUME Sweep PROVE Sweeping'
  BY <1>6 DEF Sweep, Tick, SweepLock, SweepConn, SweepUnlock, Evict
<1>7. ASSUME WorkerExits PROVE Sweeping'
  BY <1>7 DEF WorkerExits
<1>8. ASSUME CloseDrain PROVE Sweeping'
  BY <1>8 DEF CloseDrain, Evict
<1>9. QED
  BY <1>1, <1>4, <1>5, <1>6, <1>7, <1>8
     DEF Next, Request, Admit, Life, SetShared, CloseCall

-----------------------------------------------------------------------------
(* The counters.                                                           *)

\* Removing D from the pool changes idle and total by what it removes.
LEMMA EvictCounts ==
  ASSUME Types, CountersExact, NEW D \in SUBSET bcs, Evict(D),
         active' = active, Counted' = Counted
  PROVE  CountersExact'
<1>1. /\ Cardinality(D) \in Nat /\ Cardinality(bcs) \in Nat
      /\ Cardinality(bcs') = Cardinality(bcs) - Cardinality(D)
  BY EvictTypes
<1>2. active \in Int /\ idle \in Int /\ total \in Int
  BY DEF Types
<1>3. QED
  BY <1>1, <1>2 DEF CountersExact, Evict

\* Every step that changes a counter changes what it counts by as much.
LEMMA CountersStep ==
  Types /\ Owning /\ Sweeping /\ CountersExact /\ [Next]_vars => CountersExact'
<1> SUFFICES ASSUME Types, Owning, Sweeping, CountersExact, [Next]_vars
             PROVE  CountersExact'
  OBVIOUS
<1> USE DEF vars, poolVars, reqVars, connVars, sockVars, lifeVars, sweepVars
<1>0. IsFiniteSet(Counted) /\ Cardinality(Counted) \in Nat
      /\ Cardinality(bcs) \in Nat
  BY ReqFinite, FS_Subset, FS_CardinalityType DEF Counted, Types
<1>1. ASSUME NEW r \in Req, Admit(r) PROVE CountersExact'
  <2>1. Counted' = Counted
    BY <1>1 DEF Counted, Admit, Goto, Types
  <2>2. QED
    BY <1>1, <2>1 DEF CountersExact, Admit
<1>2. ASSUME NEW r \in Req, TakeConn(r) PROVE CountersExact'
  <2>1. Counted' = Counted
    BY <1>2 DEF Counted, TakeConn, Goto, Types
  <2>2. PICK D \in SUBSET bcs : Evict(D)
    BY <1>2 DEF TakeConn, Usable
  <2>3. QED
    BY <1>2, <1>0, <2>1, <2>2, EvictCounts DEF TakeConn
<1>3. ASSUME NEW r \in Req, CountActive(r) PROVE CountersExact'
  <2>1. r \notin Counted /\ Counted' = Counted \cup {r}
    BY <1>3 DEF Counted, CountActive, Goto, Types
  <2>2. Cardinality(Counted') = Cardinality(Counted) + 1
    BY <2>1, <1>0, FS_AddElement
  <2>3. QED
    BY <1>3, <2>2, <1>0 DEF CountersExact, CountActive, Types
<1>4. ASSUME NEW r \in Req, DialOk(r) PROVE CountersExact'
  <2>1. Counted' = Counted
    BY <1>4 DEF Counted, DialOk, Goto, Types
  <2>2. QED
    BY <1>4, <2>1 DEF CountersExact, DialOk
<1>5. ASSUME NEW r \in Req, DialFail(r) PROVE CountersExact'
  <2>1. r \in Counted /\ Counted' = Counted \ {r}
    BY <1>5 DEF Counted, DialFail, Goto, Types
  <2>2. Cardinality(Counted') = Cardinality(Counted) - 1
    BY <2>1, <1>0, FS_RemoveElement
  <2>3. QED
    BY <1>5, <2>2, <1>0 DEF CountersExact, DialFail, Types
<1>6. ASSUME NEW r \in Req, FinishOk(r) PROVE CountersExact'
  <2>1. Counted' = Counted
    BY <1>6 DEF Counted, FinishOk, Goto, Types
  <2>2. QED
    BY <1>6, <2>1 DEF CountersExact, FinishOk
<1>7. ASSUME NEW r \in Req, FinishErr(r) PROVE CountersExact'
  <2>1. Counted' = Counted
    BY <1>7 DEF Counted, FinishErr, Goto, Types
  <2>2. QED
    BY <1>7, <2>1 DEF CountersExact, FinishErr
<1>8. ASSUME NEW r \in Req, CheckIdle(r) PROVE CountersExact'
  <2>1. Counted' = Counted
    BY <1>8 DEF Counted, CheckIdle, Goto, Types
  <2>2. QED
    BY <1>8, <2>1 DEF CountersExact, CheckIdle
<1>9. ASSUME NEW r \in Req, Uncount(r) PROVE CountersExact'
  <2>1. r \in Counted /\ Counted' = Counted \ {r}
    BY <1>9 DEF Counted, Uncount, Goto, Types
  <2>2. Cardinality(Counted') = Cardinality(Counted) - 1
    BY <2>1, <1>0, FS_RemoveElement
  <2>3. QED
    BY <1>9, <2>2, <1>0 DEF CountersExact, Uncount, Types
<1>10. ASSUME NEW r \in Req, PoolConn(r) PROVE CountersExact'
  <2>1. Counted' = Counted
    BY <1>10 DEF Counted, PoolConn, Goto, Types
  <2>2. bc[r] \notin bcs
    BY DEF Owning, ExclusiveUse
  <2>3. bcs' = bcs \cup {bc[r]} => Cardinality(bcs') = Cardinality(bcs) + 1
    BY <2>2, FS_AddElement DEF Types
  <2>4. QED
    BY <1>10, <1>0, <2>1, <2>3 DEF CountersExact, PoolConn, Types
<1>11. ASSUME NEW c \in Conn, LateEngressEnds(c) PROVE CountersExact'
  BY <1>11 DEF CountersExact, Counted, LateEngressEnds
<1>12. ASSUME NEW c \in Conn, PeerCloses(c) PROVE CountersExact'
  BY <1>12 DEF CountersExact, Counted, PeerCloses
<1>13. ASSUME NEW c \in Conn, PeerSendsSurplus(c) PROVE CountersExact'
  BY <1>13 DEF CountersExact, Counted, PeerSendsSurplus
<1>14. ASSUME NEW c \in Conn, PipeRead(c) PROVE CountersExact'
  BY <1>14 DEF CountersExact, Counted, PipeRead
<1>15. ASSUME NEW c \in Conn, PipeEnds(c) PROVE CountersExact'
  BY <1>15 DEF CountersExact, Counted, PipeEnds
<1>16. ASSUME Sweep PROVE CountersExact'
  <2>1. CASE Tick
    BY <2>1 DEF CountersExact, Counted, Tick
  <2>2. CASE SweepLock
    BY <2>2 DEF CountersExact, Counted, SweepLock
  <2>3. CASE SweepUnlock
    BY <2>3 DEF CountersExact, Counted, SweepUnlock
  <2>4. ASSUME NEW c \in Conn, SweepConn(c) PROVE CountersExact'
    <3>1. {c} \in SUBSET bcs /\ Counted' = Counted
      BY <2>4 DEF SweepConn, Sweeping, Counted
    <3>2. CASE c \in pe
      BY <2>4, <3>1, <3>2, EvictCounts DEF SweepConn
    <3>3. CASE c \notin pe
      BY <2>4, <3>1, <3>3 DEF SweepConn, CountersExact
    <3>4. QED
      BY <3>2, <3>3
  <2>5. QED
    BY <1>16, <2>1, <2>2, <2>3, <2>4 DEF Sweep
<1>17. ASSUME WorkerExits PROVE CountersExact'
  BY <1>17 DEF CountersExact, Counted, WorkerExits
<1>18. ASSUME SetShared PROVE CountersExact'
  BY <1>18 DEF CountersExact, Counted, SetShared
<1>19. ASSUME CloseCall PROVE CountersExact'
  BY <1>19 DEF CountersExact, Counted, CloseCall
<1>20. ASSUME CloseDrain PROVE CountersExact'
  <2>1. PICK D \in SUBSET bcs : Evict(D)
    BY <1>20 DEF CloseDrain
  <2>2. Counted' = Counted
    BY <1>20 DEF Counted, CloseDrain
  <2>3. QED
    BY <1>20, <1>0, <2>1, <2>2, EvictCounts DEF CloseDrain
<1>21. ASSUME UNCHANGED vars PROVE CountersExact'
  BY <1>21 DEF CountersExact, Counted
<1>22. QED
  BY <1>1, <1>2, <1>3, <1>4, <1>5, <1>6, <1>7, <1>8, <1>9, <1>10, <1>11, <1>12,
     <1>13, <1>14, <1>15, <1>16, <1>17, <1>18, <1>19, <1>20, <1>21
     DEF Next, Request, Proceed, Connection, Life

-----------------------------------------------------------------------------
(* The bound on sockets.                                                   *)

\* No step lets connections outnumber requests: a dial follows an empty pool.
LEMMA PeakStep ==
  Types /\ Owning /\ Sweeping /\ PeakBound /\ [Next]_vars => PeakBound'
<1> SUFFICES ASSUME Types, Owning, Sweeping, PeakBound, [Next]_vars
             PROVE  PeakBound'
  OBVIOUS
<1> USE DEF vars, poolVars, reqVars, connVars, sockVars, lifeVars, sweepVars
<1>0. IsFiniteSet(InPool) /\ Cardinality(InPool) \in Nat
      /\ Cardinality(bcs) \in Nat /\ Cardinality(Req) \in Nat
  BY ReqFinite, FS_Subset, FS_CardinalityType DEF InPool, Types
<1>1. ASSUME NEW r \in Req, Admit(r) PROVE PeakBound'
  <2>1. InPool' = InPool
    BY <1>1 DEF InPool, Admit, Goto, Types
  <2>2. QED
    BY <1>1, <2>1 DEF PeakBound, Admit, poolVars
<1>2. ASSUME NEW r \in Req, TakeConn(r) PROVE PeakBound'
  <2>1. r \notin InPool /\ InPool' = InPool \cup {r} /\ InPool' \subseteq Req
    BY <1>2 DEF InPool, TakeConn, Goto, Types
  <2>2. Cardinality(InPool') = Cardinality(InPool) + 1
    BY <2>1, <1>0, FS_AddElement
  <2>3. Cardinality(InPool') <= Cardinality(Req)
    BY <2>1, ReqFinite, FS_Subset
  <2>4. CASE \E c \in Usable : \E D \in SUBSET (bcs \ Usable) : Evict(D \cup {c})
    <3>1. PICK c \in Usable, D \in SUBSET (bcs \ Usable) : Evict(D \cup {c})
      BY <2>4
    <3>2. D \cup {c} \in SUBSET bcs /\ D \cup {c} # {}
      BY DEF Usable
    <3>3. IsFiniteSet(D \cup {c})
      BY <3>2, FS_Subset DEF Types
    <3>4. Cardinality(D \cup {c}) >= 1
      BY <3>2, <3>3, FS_EmptySet, FS_CardinalityType
    <3>5. QED
      BY <3>1, <3>2, <3>4, <2>2, <1>0, EvictTypes DEF PeakBound
  <2>5. CASE Evict(bcs)
    <3>1. bcs' = {}
      BY <2>5 DEF Evict
    <3>2. Cardinality(bcs') = 0
      BY <3>1, FS_EmptySet
    <3>3. Cardinality(InPool') \in Nat
      BY <2>2, <1>0
    <3>4. QED
      BY <2>3, <3>2, <3>3, <1>0 DEF PeakBound
  <2>6. QED
    BY <1>2, <2>4, <2>5 DEF TakeConn
<1>3. ASSUME NEW r \in Req, CountActive(r) PROVE PeakBound'
  <2>1. InPool' = InPool
    BY <1>3 DEF InPool, CountActive, Goto, Types
  <2>2. QED
    BY <1>3, <2>1 DEF PeakBound, CountActive, poolVars
<1>4. ASSUME NEW r \in Req, DialOk(r) PROVE PeakBound'
  <2>1. InPool' = InPool
    BY <1>4 DEF InPool, DialOk, Goto, Types
  <2>2. QED
    BY <1>4, <2>1 DEF PeakBound, DialOk, poolVars
<1>5. ASSUME NEW r \in Req, DialFail(r) PROVE PeakBound'
  <2>1. r \in InPool /\ InPool' = InPool \ {r}
    BY <1>5 DEF InPool, DialFail, Goto, Types
  <2>2. Cardinality(InPool') = Cardinality(InPool) - 1
    BY <2>1, <1>0, FS_RemoveElement
  <2>3. QED
    BY <1>5, <2>2, <1>0 DEF PeakBound, DialFail
<1>6. ASSUME NEW r \in Req, FinishOk(r) PROVE PeakBound'
  <2>1. InPool' = InPool
    BY <1>6 DEF InPool, FinishOk, Goto, Types
  <2>2. QED
    BY <1>6, <2>1 DEF PeakBound, FinishOk, poolVars
<1>7. ASSUME NEW r \in Req, FinishErr(r) PROVE PeakBound'
  <2>1. InPool' = InPool
    BY <1>7 DEF InPool, FinishErr, Goto, Types
  <2>2. QED
    BY <1>7, <2>1 DEF PeakBound, FinishErr, poolVars
<1>8. ASSUME NEW r \in Req, CheckIdle(r) PROVE PeakBound'
  <2>1. InPool' = InPool
    BY <1>8 DEF InPool, CheckIdle, Goto, Types
  <2>2. QED
    BY <1>8, <2>1 DEF PeakBound, CheckIdle, poolVars
<1>9. ASSUME NEW r \in Req, Uncount(r) PROVE PeakBound'
  <2>1. InPool' = InPool
    BY <1>9 DEF InPool, Uncount, Goto, Types
  <2>2. QED
    BY <1>9, <2>1 DEF PeakBound, Uncount, poolVars
<1>10. ASSUME NEW r \in Req, PoolConn(r) PROVE PeakBound'
  <2>1. r \in InPool /\ InPool' = InPool \ {r}
    BY <1>10 DEF InPool, PoolConn, Goto, Types
  <2>2. Cardinality(InPool') = Cardinality(InPool) - 1
    BY <2>1, <1>0, FS_RemoveElement
  <2>3. bc[r] \notin bcs
    BY DEF Owning, ExclusiveUse
  <2>4. bcs' = bcs \cup {bc[r]} => Cardinality(bcs') = Cardinality(bcs) + 1
    BY <2>3, FS_AddElement DEF Types
  <2>5. QED
    BY <1>10, <2>2, <2>4, <1>0 DEF PeakBound, PoolConn
<1>11. ASSUME NEW c \in Conn, LateEngressEnds(c) PROVE PeakBound'
  BY <1>11 DEF PeakBound, InPool, LateEngressEnds
<1>12. ASSUME NEW c \in Conn, PeerCloses(c) PROVE PeakBound'
  BY <1>12 DEF PeakBound, InPool, PeerCloses
<1>13. ASSUME NEW c \in Conn, PeerSendsSurplus(c) PROVE PeakBound'
  BY <1>13 DEF PeakBound, InPool, PeerSendsSurplus
<1>14. ASSUME NEW c \in Conn, PipeRead(c) PROVE PeakBound'
  BY <1>14 DEF PeakBound, InPool, PipeRead
<1>15. ASSUME NEW c \in Conn, PipeEnds(c) PROVE PeakBound'
  BY <1>15 DEF PeakBound, InPool, PipeEnds
<1>16. ASSUME Sweep PROVE PeakBound'
  <2>1. CASE Tick
    BY <2>1 DEF PeakBound, InPool, Tick
  <2>2. CASE SweepLock
    BY <2>2 DEF PeakBound, InPool, SweepLock
  <2>3. CASE SweepUnlock
    BY <2>3 DEF PeakBound, InPool, SweepUnlock
  <2>4. ASSUME NEW c \in Conn, SweepConn(c) PROVE PeakBound'
    <3>1. {c} \in SUBSET bcs /\ InPool' = InPool
      BY <2>4 DEF SweepConn, Sweeping, InPool
    <3>2. CASE c \in pe
      BY <2>4, <1>0, <3>1, <3>2, EvictTypes DEF SweepConn, PeakBound
    <3>3. CASE c \notin pe
      BY <2>4, <3>1, <3>3 DEF SweepConn, PeakBound
    <3>4. QED
      BY <3>2, <3>3
  <2>5. QED
    BY <1>16, <2>1, <2>2, <2>3, <2>4 DEF Sweep
<1>17. ASSUME WorkerExits PROVE PeakBound'
  BY <1>17 DEF PeakBound, InPool, WorkerExits
<1>18. ASSUME SetShared PROVE PeakBound'
  BY <1>18 DEF PeakBound, InPool, SetShared
<1>19. ASSUME CloseCall PROVE PeakBound'
  BY <1>19 DEF PeakBound, InPool, CloseCall
<1>20. ASSUME CloseDrain PROVE PeakBound'
  <2>1. PICK D \in SUBSET bcs : Evict(D)
    BY <1>20 DEF CloseDrain
  <2>2. InPool' = InPool
    BY <1>20 DEF InPool, CloseDrain
  <2>3. QED
    BY <1>0, <2>1, <2>2, EvictTypes DEF PeakBound
<1>21. ASSUME UNCHANGED vars PROVE PeakBound'
  BY <1>21 DEF PeakBound, InPool
<1>22. QED
  BY <1>1, <1>2, <1>3, <1>4, <1>5, <1>6, <1>7, <1>8, <1>9, <1>10, <1>11, <1>12,
     <1>13, <1>14, <1>15, <1>16, <1>17, <1>18, <1>19, <1>20, <1>21
     DEF Next, Request, Proceed, Connection, Life

-----------------------------------------------------------------------------
(* The invariants of the specification.                                    *)

\* The inductive invariant.
IInv == Types /\ Owning /\ Sweeping /\ CountersExact /\ PeakBound

\* newBackendServer begins with an empty pool and zero counters.
LEMMA IInvInit == Init => IInv
<1> SUFFICES ASSUME Init PROVE IInv
  OBVIOUS
<1>1. Types
  <2>1. IsFiniteSet(bcs)
    BY FS_EmptySet DEF Init
  <2>2. /\ shared \in BOOLEAN /\ worker \in Worker
        /\ bcsMu \in {"free", "worker", "close"}
    BY DEF Init, Worker
  <2>3. /\ pc \in [Req -> PC] /\ bc \in [Req -> Conn \cup {NoConn}]
        /\ surplus \in [Conn -> Surplus]
    BY DEF Init, PC, Surplus
  <2>4. /\ bcs \subseteq Conn /\ open \subseteq Conn /\ gone \subseteq Conn
        /\ pe \subseteq Conn /\ counted \subseteq Conn /\ late \subseteq Conn
    BY DEF Init
  <2>5. active \in Int /\ idle \in Int /\ total \in Int /\ closing \in Closing
    BY DEF Init, Closing
  <2>6. QED
    BY <2>1, <2>2, <2>3, <2>4, <2>5 DEF Types
<1>2. Owning /\ Sweeping
  BY DEF Init, Owning, HoldsInUse, HeldOpenOrDead, ExclusiveUse, NoLeak,
         DrainedStaysEmpty, Sweeping
<1>3. Counted = {} /\ InPool = {}
  BY DEF Init, Counted, InPool
<1>4. Cardinality(Req) \in Nat
  BY ReqFinite, FS_CardinalityType
<1>5. CountersExact /\ PeakBound
  BY <1>3, <1>4, FS_EmptySet DEF Init, CountersExact, PeakBound
<1>6. QED
  BY <1>1, <1>2, <1>5 DEF IInv

\* The inductive invariant holds in every state the pool can reach.
THEOREM IInvInvariant == Spec => []IInv
<1>1. IInv /\ [Next]_vars => IInv'
  BY TypesStep, OwningStep, SweepingStep, CountersStep, PeakStep DEF IInv, Owning
<1>2. QED
  BY <1>1, IInvInit, PTL DEF Spec

\* Type correctness: none of the counters is ever negative, in particular,
\* though each is decremented apart from what it counts.
THEOREM TypeCorrect == Spec => []TypeOK
<1>1. IInv => TypeOK
  <2> SUFFICES ASSUME IInv PROVE TypeOK
    OBVIOUS
  <2>1. Cardinality(Counted) \in Nat /\ Cardinality(bcs) \in Nat
    BY ReqFinite, FS_Subset, FS_CardinalityType DEF IInv, Types, Counted
  <2>2. QED
    BY <2>1 DEF IInv, Types, Sweeping, CountersExact, TypeOK
<1>2. QED
  BY <1>1, IInvInvariant, PTL

\* The counters that limits and balancing read are exact in every state.
THEOREM CountersNeverDrift == Spec => []CountersExact
<1>1. IInv => CountersExact
  BY DEF IInv
<1>2. QED
  BY <1>1, IInvInvariant, PTL

\* No connection ever has two users, and a closed one is never handed out.
THEOREM ExclusiveUseAlways == Spec => []ExclusiveUse
<1>1. IInv => ExclusiveUse
  BY DEF IInv, Owning
<1>2. QED
  BY <1>1, IInvInvariant, PTL

\* Every open socket is in the pool or held by a request, and a pool that
\* Close has drained stays empty.
THEOREM NoSocketLost == Spec => [](NoLeak /\ DrainedStaysEmpty)
<1>1. IInv => NoLeak /\ DrainedStaysEmpty
  BY DEF IInv, Owning
<1>2. QED
  BY <1>1, IInvInvariant, PTL

\* A server never has more sockets than its requests ever needed at a time.
THEOREM SocketsBounded == Spec => []PeakBound
<1>1. IInv => PeakBound
  BY DEF IInv
<1>2. QED
  BY <1>1, IInvInvariant, PTL

=============================================================================

------------------------- MODULE HTTPFrontendProofs -------------------------
(***************************************************************************)
(* For any finite set of connections, any limits and any timeouts: the     *)
(* four counters of a frontend are exact and its types hold; a connection  *)
(* has one reader, a bounded number of requests, and a page for a timeout  *)
(* before its first answer only.                                           *)
(***************************************************************************)
EXTENDS HTTPFrontend, FiniteSetTheorems, TLAPS

\* The counters are integers here; that they are never negative follows from
\* what they count.
Types ==
  /\ timeouts \in Configs /\ down \in BOOLEAN
  /\ total \in Int /\ waiting \in Int /\ idle \in Int /\ active \in Int
  /\ pc \in [Conn -> PC] /\ reqIdx \in [Conn -> Nat]
  /\ peeker \in [Conn -> Peeker]
  /\ late \subseteq Conn /\ open \subseteq Conn /\ paged \subseteq Conn
  /\ side \in [Conn -> {"there", "stalled", "gone"}] /\ bytes \subseteq Conn

\* Serve works on an open connection, unless the request was cut.
OpenAtWork ==
  \A c \in Conn : pc[c] \in PC \ {"out", "cut", "leaving", "left"} => c \in open

\* A peeker is started by the loop and heard or left behind by it.
PeekerPlaces ==
  \A c \in Conn : peeker[c] # "off" => pc[c] \in {"select", "leaving", "left", "out"}

Shaped == Types /\ OpenAtWork /\ PeekerPlaces

\* Every step keeps types and places.
LEMMA ShapedStep == Shaped /\ [Next]_vars => Shaped'
<1> SUFFICES ASSUME Shaped, [Next]_vars PROVE Shaped'
  OBVIOUS
<1> USE DEF Shaped, Types, OpenAtWork, PeekerPlaces, PC, Peeker,
            vars, counters, serveVars, clientVars
<1>1. ASSUME NEW c \in Conn, Admit(c) PROVE Shaped'
  BY <1>1 DEF Admit, Goto
<1>2. ASSUME NEW c \in Conn, Count(c) PROVE Shaped'
  BY <1>2 DEF Count, Goto
<1>3. ASSUME NEW c \in Conn, StartPeek(c) PROVE Shaped'
  BY <1>3 DEF StartPeek, Goto
<1>4. ASSUME NEW c \in Conn, HearError(c) PROVE Shaped'
  BY <1>4 DEF HearError, Goto
<1>5. ASSUME NEW c \in Conn, HearRequest(c) PROVE Shaped'
  BY <1>5 DEF HearRequest, Goto
<1>6. ASSUME NEW c \in Conn, CtxDone(c) PROVE Shaped'
  BY <1>6 DEF CtxDone, Goto
<1>7. ASSUME NEW c \in Conn, Uncount(c) PROVE Shaped'
  BY <1>7 DEF Uncount, Goto
<1>8. ASSUME NEW c \in Conn, Compare(c) PROVE Shaped'
  BY <1>8 DEF Compare, Goto
<1>9. ASSUME NEW c \in Conn, Leave(c) PROVE Shaped'
  BY <1>9 DEF Leave, Goto
<1>10. ASSUME NEW c \in Conn, Return(c) PROVE Shaped'
  BY <1>10 DEF Return, Goto
<1>11. ASSUME NEW c \in Conn, PeekReturns(c) PROVE Shaped'
  BY <1>11 DEF PeekReturns
<1>12. ASSUME NEW c \in Conn, ServeReturns(c) PROVE Shaped'
  BY <1>12 DEF ServeReturns, Goto
<1>13. ASSUME NEW c \in Conn, Accept(c) PROVE Shaped'
  BY <1>13 DEF Accept, Goto
<1>14. ASSUME NEW c \in Conn, ClientSends(c) PROVE Shaped'
  BY <1>14 DEF ClientSends
<1>15. ASSUME NEW c \in Conn, ClientLeavesOrStalls(c) PROVE Shaped'
  BY <1>15 DEF ClientLeavesOrStalls
<1>16. ASSUME NEW c \in Conn, KeepAliveExpires(c) PROVE Shaped'
  BY <1>16 DEF KeepAliveExpires
<1>17. ASSUME Shutdown PROVE Shaped'
  BY <1>17 DEF Shutdown
<1>18. ASSUME UNCHANGED vars PROVE Shaped'
  BY <1>18
<1>19. QED
  BY <1>1, <1>2, <1>3, <1>4, <1>5, <1>6, <1>7, <1>8, <1>9, <1>10, <1>11, <1>12,
     <1>13, <1>14, <1>15, <1>16, <1>17, <1>18 DEF Next, Serve, Outside

-----------------------------------------------------------------------------
(* The counters.                                                           *)

Counted == <<InTotal, IsWaiting, IsIdle, IsActive>>

\* What is counted is finite.
LEMMA CountedFinite ==
  /\ IsFiniteSet(InTotal) /\ Cardinality(InTotal) \in Nat
  /\ IsFiniteSet(IsWaiting) /\ Cardinality(IsWaiting) \in Nat
  /\ IsFiniteSet(IsIdle) /\ Cardinality(IsIdle) \in Nat
  /\ IsFiniteSet(IsActive) /\ Cardinality(IsActive) \in Nat
<1>1. /\ InTotal \subseteq Conn /\ IsWaiting \subseteq Conn
      /\ IsIdle \subseteq Conn /\ IsActive \subseteq Conn
  BY DEF InTotal, IsWaiting, IsIdle, IsActive
<1>2. QED
  BY <1>1, ConnFinite, FS_Subset, FS_CardinalityType

\* Every step that changes a counter changes what it counts by as much.
LEMMA CountersStep ==
  Shaped /\ CountersExact /\ [Next]_vars => CountersExact'
<1> SUFFICES ASSUME Shaped, CountersExact, [Next]_vars
             PROVE  CountersExact'
  OBVIOUS
<1> USE DEF vars, counters, serveVars, clientVars
<1>1. ASSUME NEW c \in Conn, Admit(c) PROVE CountersExact'
  <2>1. Counted' = Counted
    BY <1>1 DEF Counted, InTotal, IsWaiting, IsIdle, IsActive, Admit, Goto, Shaped,
                 Types, PeekerPlaces, PC
  <2>2. QED
    BY <1>1, <2>1 DEF Counted, CountersExact, Admit
<1>2. ASSUME NEW c \in Conn, Count(c) PROVE CountersExact'
  <2>1. /\ c \notin InTotal /\ InTotal' = InTotal \cup {c}
        /\ IsWaiting' = IsWaiting /\ IsIdle' = IsIdle /\ IsActive' = IsActive
    BY <1>2 DEF InTotal, IsWaiting, IsIdle, IsActive, Count, Goto, Shaped, Types,
                 PeekerPlaces, PC
  <2>2. Cardinality(InTotal') = Cardinality(InTotal) + 1
    BY <2>1, CountedFinite, FS_AddElement
  <2>3. QED
    BY <1>2, <2>1, <2>2, CountedFinite DEF CountersExact, Count, Shaped, Types
<1>3. ASSUME NEW c \in Conn, StartPeek(c) PROVE CountersExact'
  <2>1. CASE reqIdx[c] > 0
    <3>1. /\ c \notin IsIdle /\ IsIdle' = IsIdle \cup {c}
          /\ InTotal' = InTotal /\ IsWaiting' = IsWaiting /\ IsActive' = IsActive
      BY <1>3, <2>1 DEF InTotal, IsWaiting, IsIdle, IsActive, StartPeek, Goto, Shaped,
                   Types, PeekerPlaces, PC
    <3>2. Cardinality(IsIdle') = Cardinality(IsIdle) + 1
      BY <3>1, CountedFinite, FS_AddElement
    <3>3. QED
      BY <1>3, <2>1, <3>1, <3>2, CountedFinite DEF CountersExact, StartPeek, Shaped, Types
  <2>2. CASE ~(reqIdx[c] > 0)
    <3>1. /\ c \notin IsWaiting /\ IsWaiting' = IsWaiting \cup {c}
          /\ InTotal' = InTotal /\ IsIdle' = IsIdle /\ IsActive' = IsActive
      BY <1>3, <2>2 DEF InTotal, IsWaiting, IsIdle, IsActive, StartPeek, Goto, Shaped,
                   Types, PeekerPlaces, PC
    <3>2. Cardinality(IsWaiting') = Cardinality(IsWaiting) + 1
      BY <3>1, CountedFinite, FS_AddElement
    <3>3. QED
      BY <1>3, <2>2, <3>1, <3>2, CountedFinite DEF CountersExact, StartPeek, Shaped, Types
  <2>3. QED
    BY <2>1, <2>2
<1>4. ASSUME NEW c \in Conn, HearError(c) PROVE CountersExact'
  <2>1. Counted' = Counted
    BY <1>4 DEF Counted, InTotal, IsWaiting, IsIdle, IsActive, HearError, Goto, Shaped,
                 Types, PeekerPlaces, PC
  <2>2. QED
    BY <1>4, <2>1 DEF Counted, CountersExact, HearError
<1>5. ASSUME NEW c \in Conn, HearRequest(c) PROVE CountersExact'
  <2>1. /\ c \notin IsActive /\ IsActive' = IsActive \cup {c}
        /\ InTotal' = InTotal /\ IsWaiting' = IsWaiting /\ IsIdle' = IsIdle
    BY <1>5 DEF InTotal, IsWaiting, IsIdle, IsActive, HearRequest, Goto, Shaped, Types,
                 PeekerPlaces, PC
  <2>2. Cardinality(IsActive') = Cardinality(IsActive) + 1
    BY <2>1, CountedFinite, FS_AddElement
  <2>3. QED
    BY <1>5, <2>1, <2>2, CountedFinite DEF CountersExact, HearRequest, Shaped, Types
<1>6. ASSUME NEW c \in Conn, CtxDone(c) PROVE CountersExact'
  <2>1. Counted' = Counted
    BY <1>6 DEF Counted, InTotal, IsWaiting, IsIdle, IsActive, CtxDone, Goto, Shaped,
                 Types, PeekerPlaces, PC
  <2>2. QED
    BY <1>6, <2>1 DEF Counted, CountersExact, CtxDone
<1>7. ASSUME NEW c \in Conn, Uncount(c) PROVE CountersExact'
  <2>1. /\ c \in IsActive /\ IsActive' = IsActive \ {c}
        /\ InTotal' = InTotal /\ IsWaiting' = IsWaiting /\ IsIdle' = IsIdle
    BY <1>7 DEF InTotal, IsWaiting, IsIdle, IsActive, Uncount, Goto, Shaped, Types,
                 PeekerPlaces, PC
  <2>2. Cardinality(IsActive') = Cardinality(IsActive) - 1
    BY <2>1, CountedFinite, FS_RemoveElement
  <2>3. QED
    BY <1>7, <2>1, <2>2, CountedFinite DEF CountersExact, Uncount, Shaped, Types
<1>8. ASSUME NEW c \in Conn, Compare(c) PROVE CountersExact'
  <2>1. Counted' = Counted
    BY <1>8 DEF Counted, InTotal, IsWaiting, IsIdle, IsActive, Compare, Goto, Shaped,
                 Types, PeekerPlaces, PC
  <2>2. QED
    BY <1>8, <2>1 DEF Counted, CountersExact, Compare
<1>9. ASSUME NEW c \in Conn, Leave(c) PROVE CountersExact'
  <2>1. /\ c \in InTotal /\ InTotal' = InTotal \ {c}
        /\ IsWaiting' = IsWaiting /\ IsIdle' = IsIdle /\ IsActive' = IsActive
    BY <1>9 DEF InTotal, IsWaiting, IsIdle, IsActive, Leave, Goto, Shaped, Types,
                 PeekerPlaces, PC
  <2>2. Cardinality(InTotal') = Cardinality(InTotal) - 1
    BY <2>1, CountedFinite, FS_RemoveElement
  <2>3. QED
    BY <1>9, <2>1, <2>2, CountedFinite DEF CountersExact, Leave, Shaped, Types
<1>10. ASSUME NEW c \in Conn, Return(c) PROVE CountersExact'
  <2>1. Counted' = Counted
    BY <1>10 DEF Counted, InTotal, IsWaiting, IsIdle, IsActive, Return, Goto, Shaped,
                 Types, PeekerPlaces, PC
  <2>2. QED
    BY <1>10, <2>1 DEF Counted, CountersExact, Return
<1>11. ASSUME NEW c \in Conn, PeekReturns(c) PROVE CountersExact'
  <2>1. CASE reqIdx[c] > 0
    <3>1. /\ c \in IsIdle /\ IsIdle' = IsIdle \ {c}
          /\ InTotal' = InTotal /\ IsWaiting' = IsWaiting /\ IsActive' = IsActive
      BY <1>11, <2>1 DEF InTotal, IsWaiting, IsIdle, IsActive, PeekReturns, Shaped,
                   Types, PeekerPlaces, PC
    <3>2. Cardinality(IsIdle') = Cardinality(IsIdle) - 1
      BY <3>1, CountedFinite, FS_RemoveElement
    <3>3. QED
      BY <1>11, <2>1, <3>1, <3>2, CountedFinite DEF CountersExact, PeekReturns, Shaped, Types
  <2>2. CASE ~(reqIdx[c] > 0)
    <3>1. /\ c \in IsWaiting /\ IsWaiting' = IsWaiting \ {c}
          /\ InTotal' = InTotal /\ IsIdle' = IsIdle /\ IsActive' = IsActive
      BY <1>11, <2>2 DEF InTotal, IsWaiting, IsIdle, IsActive, PeekReturns, Shaped,
                   Types, PeekerPlaces, PC
    <3>2. Cardinality(IsWaiting') = Cardinality(IsWaiting) - 1
      BY <3>1, CountedFinite, FS_RemoveElement
    <3>3. QED
      BY <1>11, <2>2, <3>1, <3>2, CountedFinite DEF CountersExact, PeekReturns, Shaped, Types
  <2>3. QED
    BY <2>1, <2>2
<1>12. ASSUME NEW c \in Conn, ServeReturns(c) PROVE CountersExact'
  <2>1. Counted' = Counted
    BY <1>12 DEF Counted, InTotal, IsWaiting, IsIdle, IsActive, ServeReturns, Goto, Shaped,
                 Types, PeekerPlaces, PC
  <2>2. QED
    BY <1>12, <2>1 DEF Counted, CountersExact, ServeReturns
<1>13. ASSUME NEW c \in Conn, Accept(c) PROVE CountersExact'
  <2>1. Counted' = Counted
    BY <1>13 DEF Counted, InTotal, IsWaiting, IsIdle, IsActive, Accept, Goto, Shaped,
                 Types, PeekerPlaces, PC
  <2>2. QED
    BY <1>13, <2>1 DEF Counted, CountersExact, Accept
<1>14. ASSUME NEW c \in Conn, ClientSends(c) PROVE CountersExact'
  BY <1>14 DEF CountersExact, InTotal, IsWaiting, IsIdle, IsActive, ClientSends
<1>15. ASSUME NEW c \in Conn, ClientLeavesOrStalls(c) PROVE CountersExact'
  BY <1>15 DEF CountersExact, InTotal, IsWaiting, IsIdle, IsActive, ClientLeavesOrStalls
<1>16. ASSUME NEW c \in Conn, KeepAliveExpires(c) PROVE CountersExact'
  BY <1>16 DEF CountersExact, InTotal, IsWaiting, IsIdle, IsActive, KeepAliveExpires
<1>17. ASSUME Shutdown PROVE CountersExact'
  BY <1>17 DEF CountersExact, InTotal, IsWaiting, IsIdle, IsActive, Shutdown
<1>18. ASSUME UNCHANGED vars PROVE CountersExact'
  BY <1>18 DEF CountersExact, InTotal, IsWaiting, IsIdle, IsActive
<1>19. QED
  BY <1>1, <1>2, <1>3, <1>4, <1>5, <1>6, <1>7, <1>8, <1>9, <1>10, <1>11, <1>12,
     <1>13, <1>14, <1>15, <1>16, <1>17, <1>18 DEF Next, Serve, Outside

-----------------------------------------------------------------------------

IInv == Shaped /\ CountersExact

LEMMA InitIInv == Init => IInv
<1> SUFFICES ASSUME Init PROVE IInv
  OBVIOUS
<1>1. Shaped
  <2>1. Types
    <3>1. timeouts \in Configs /\ down \in BOOLEAN
      BY DEF Init
    <3>2. total \in Int /\ waiting \in Int /\ idle \in Int /\ active \in Int
      BY DEF Init
    <3>3. pc \in [Conn -> PC] /\ reqIdx \in [Conn -> Nat] /\ peeker \in [Conn -> Peeker]
      BY DEF Init, PC, Peeker
    <3>4. late \subseteq Conn /\ open \subseteq Conn /\ paged \subseteq Conn
      BY DEF Init
    <3>5. side \in [Conn -> {"there", "stalled", "gone"}] /\ bytes \subseteq Conn
      BY DEF Init
    <3>6. QED
      BY <3>1, <3>2, <3>3, <3>4, <3>5 DEF Types
  <2>2. OpenAtWork
    <3>1. \A c \in Conn : pc[c] = "out"
      BY DEF Init
    <3>2. QED
      BY <3>1 DEF OpenAtWork
  <2>3. PeekerPlaces
    <3>1. \A c \in Conn : peeker[c] = "off"
      BY DEF Init
    <3>2. QED
      BY <3>1 DEF PeekerPlaces
  <2>4. QED
    BY <2>1, <2>2, <2>3 DEF Shaped
<1>2. InTotal = {} /\ IsWaiting = {} /\ IsIdle = {} /\ IsActive = {}
  BY DEF Init, InTotal, IsWaiting, IsIdle, IsActive, PC
<1>3. QED
  BY <1>1, <1>2, FS_EmptySet DEF Init, IInv, CountersExact

\* The inductive invariant: types, who may peek and who works on an open
\* connection, and exact counters.
THEOREM IInvInvariant == Spec => []IInv
<1>1. IInv /\ [Next]_vars => IInv'
  BY ShapedStep, CountersStep DEF IInv
<1>2. QED
  BY InitIInv, <1>1, PTL DEF Spec

\* Each of the four counters is the number of goroutines in the state it
\* stands for, in every interleaving of Serve, peekers and accepter.
THEOREM CountersNeverDrift == Spec => []CountersExact
<1>1. IInv => CountersExact
  BY DEF IInv
<1>2. QED
  BY IInvInvariant, <1>1, PTL

\* Types; the counters are never negative because they are exact.
THEOREM TypeCorrect == Spec => []TypeOK
<1>1. IInv => TypeOK
  <2> SUFFICES ASSUME IInv PROVE TypeOK
    OBVIOUS
  <2>1. total \in Nat /\ waiting \in Nat /\ idle \in Nat /\ active \in Nat
    BY CountedFinite DEF IInv, CountersExact
  <2>2. QED
    BY <2>1 DEF IInv, Shaped, Types, OpenAtWork, PeekerPlaces, TypeOK
<1>2. QED
  BY IInvInvariant, <1>1, PTL

-----------------------------------------------------------------------------
(* One connection.                                                         *)

\* Nobody peeks at a connection while serve reads its request, although a
\* peeker may outlive the loop that has started it.
OneReader == \A c \in Conn : peeker[c] = "reading" => pc[c] # "serving"

\* maxkeepalivereqs, negative for none: at most so many requests follow the
\* first one, in which reqIdx is zero.
KeepAliveBounded ==
  MaxKeepAliveReqs >= 0 => \A c \in Conn : reqIdx[c] <= MaxKeepAliveReqs

\* The page for a request that timed out goes to clients that have been
\* answered nothing: it cannot pass for the answer to a request.
PageBeforeAnswers ==
  \A c \in Conn :
    /\ peeker[c] = "timeout" => reqIdx[c] = 0
    /\ c \in paged => reqIdx[c] = 0 /\ pc[c] \in {"leaving", "left", "out"}

\* Every step keeps to the limit and to what the page is for.
LEMMA ConnectionStep ==
  Shaped /\ KeepAliveBounded /\ PageBeforeAnswers /\ [Next]_vars
    => KeepAliveBounded' /\ PageBeforeAnswers'
<1> SUFFICES ASSUME Shaped, KeepAliveBounded, PageBeforeAnswers, [Next]_vars
             PROVE  KeepAliveBounded' /\ PageBeforeAnswers'
  OBVIOUS
<1> DEFINE Kept == KeepAliveBounded' /\ PageBeforeAnswers'
<1> USE ReqsAreInt DEF KeepAliveBounded, PageBeforeAnswers, Shaped, Types
<1>1. ASSUME NEW c \in Conn, Accept(c) PROVE Kept
  BY <1>1 DEF Accept, Goto, PC, Peeker
<1>2. ASSUME NEW c \in Conn,
             Admit(c) \/ Count(c) \/ CtxDone(c) \/ Uncount(c) \/ Leave(c)
               \/ Return(c) \/ ServeReturns(c)
      PROVE  Kept
  <2>1. /\ reqIdx' = reqIdx /\ peeker' = peeker /\ paged' = paged
        /\ \A d \in Conn :
             pc[d] \in {"leaving", "left", "out"} => pc'[d] \in {"leaving", "left", "out"}
    BY <1>2 DEF Admit, Count, CtxDone, Uncount, Leave, Return, ServeReturns, Goto, PC
  <2>2. QED
    BY <2>1
<1>3. ASSUME NEW c \in Conn, StartPeek(c) PROVE Kept
  BY <1>3 DEF StartPeek, Goto
<1>4. ASSUME NEW c \in Conn, PeekReturns(c) PROVE Kept
  BY <1>4 DEF PeekReturns, Finds
<1>5. ASSUME NEW c \in Conn, HearError(c) PROVE Kept
  BY <1>5 DEF HearError, Goto
<1>6. ASSUME NEW c \in Conn, HearRequest(c) PROVE Kept
  BY <1>6 DEF HearRequest, Goto
<1>7. ASSUME NEW c \in Conn, Compare(c) PROVE Kept
  <2>1. peeker[c] = "off" /\ c \notin paged
    BY <1>7 DEF Compare, Goto, PeekerPlaces
  <2>2. KeepAliveBounded'
    BY <1>7 DEF Compare, Enough
  <2>3. PageBeforeAnswers'
    BY <1>7, <2>1 DEF Compare, Goto
  <2>4. QED
    BY <2>2, <2>3
<1>8. ASSUME NEW c \in Conn,
             ClientSends(c) \/ ClientLeavesOrStalls(c) \/ KeepAliveExpires(c)
      PROVE  Kept
  BY <1>8 DEF ClientSends, ClientLeavesOrStalls, KeepAliveExpires, serveVars
<1>9. CASE Shutdown \/ UNCHANGED vars
  BY <1>9 DEF Shutdown, serveVars, vars
<1>10. QED
  BY <1>1, <1>2, <1>3, <1>4, <1>5, <1>6, <1>7, <1>8, <1>9 DEF Next, Serve, Outside

\* A client connection has one reader, and as many requests as it may have.
THEOREM ConnectionInOrder == Spec => [](OneReader /\ KeepAliveBounded)
<1>1. Init => KeepAliveBounded /\ PageBeforeAnswers
  BY DEF Init, KeepAliveBounded, PageBeforeAnswers
<1>2. IInv => Shaped /\ OneReader
  BY DEF IInv, Shaped, PeekerPlaces, OneReader
<1>3. QED
  BY <1>1, <1>2, ConnectionStep, IInvInvariant, PTL DEF Spec

\* A page for a timeout is not mixed into answers.
THEOREM PageComesFirst == Spec => []PageBeforeAnswers
<1>1. Init => KeepAliveBounded /\ PageBeforeAnswers
  BY DEF Init, KeepAliveBounded, PageBeforeAnswers
<1>2. IInv => Shaped
  BY DEF IInv
<1>3. QED
  BY <1>1, <1>2, ConnectionStep, IInvInvariant, PTL DEF Spec

=============================================================================

-------------------------- MODULE FindServerProofs --------------------------
(***************************************************************************)
(* For any number of servers, all configurations and every hash that keeps *)
(* to the assumptions: types, that roundrobin and affinitykey choose a     *)
(* server that was healthy, that the choice is a least busy one while the  *)
(* counters stand still, and that keys keep their servers.                 *)
(***************************************************************************)
EXTENDS FindServer, TLAPS

\* What is known of a request that looks at the nodes for a key: those with a
\* weight come first, and it has looked at such nodes only.
Scanning ==
  /\ pc # "out" /\ bs = NoServer => i = 1
  /\ pc \in {"near", "compared"} => bs # NoServer
  /\ pc # "out" /\ config.mode # "leastconn" =>
       /\ able # {} => order[1] \in able
       /\ bs # NoServer => bs \in able
       /\ pc # "scan" => order[i] \in able
  /\ pc = "near" => config.mode = "affinitykey"

\* There is a node to look at, and no more than there are servers.
NodesThere == pc # "out" => Len(order) \in 1..N

IInv == TypeOK /\ Scanning /\ NodesThere

-----------------------------------------------------------------------------

\* A configuration is a record of its four parts.
LEMMA ConfigParts ==
  ASSUME config \in Configs
  PROVE  /\ config.mode \in Modes /\ config.maxServers \in Int
         /\ config.threshold \in Int /\ config.weighted \subseteq Server
  BY ConfigsAssumption

\* affinitykey always asks for one server at least, and for no more than there
\* are.
LEMMA NumServersInRange ==
  ASSUME config \in Configs
  PROVE  NumServers \in 1..N
  BY ConfigParts, NAssumption DEF NumServers

\* A seed is that of the server at its place: the nodes for a key are the first
\* of the library's.
LEMMA ResponsibleNodesAre ==
  ASSUME NEW k \in Key, NEW n \in 1..N, able \subseteq Server
  PROVE  ResponsibleNodes(k, n) = [p \in 1..n |-> Rendezvous(k, able)[p]]
<1> DEFINE nodes == Rendezvous(k, able)
<1>1. {Seed(s) : s \in able} = able
  BY DEF Seed
<1>2. \A seed \in Server : (CHOOSE s \in Server : Seed(s) = seed) = seed
  BY DEF Seed
<1>3. nodes \in [Server -> Server]
  BY RendezvousAssumption
<1>4. 1..n \subseteq Server
  BY NAssumption DEF Server
<1>5. ResponsibleNodes(k, n) = [p \in 1..n |-> CHOOSE s \in Server : Seed(s) = nodes[p]]
  <2>1. ResponsibleNodes(k, n) =
          [p \in 1..n |-> CHOOSE s \in Server :
                            Seed(s) = Rendezvous(k, {Seed(t) : t \in able})[p]]
    BY Zenon DEF ResponsibleNodes
  <2>2. QED
    BY <1>1, <2>1, Zenon
<1> HIDE DEF nodes
<1>6. ResponsibleNodes(k, n) = [p \in 1..n |-> nodes[p]]
  BY <1>2, <1>3, <1>4, <1>5
<1>7. QED
  BY <1>6 DEF nodes

\* They are servers, and one with a weight comes first when there is any.
LEMMA ResponsibleNodesOrder ==
  ASSUME NEW k \in Key, NEW n \in 1..N, able \subseteq Server
  PROVE  /\ ResponsibleNodes(k, n) \in [1..n -> Server]
         /\ able # {} => ResponsibleNodes(k, n)[1] \in able
<1> DEFINE nodes == Rendezvous(k, able)
<1>1. /\ nodes \in [Server -> Server]
      /\ \A s \in Server : \E p \in Server : nodes[p] = s
      /\ \A p, q \in Server : p < q /\ nodes[q] \in able => nodes[p] \in able
  BY RendezvousAssumption
<1>2. 1..n \subseteq Server /\ 1 \in Server
  BY NAssumption DEF Server
<1>3. ResponsibleNodes(k, n) = [p \in 1..n |-> nodes[p]]
  BY ResponsibleNodesAre
<1> HIDE DEF nodes
<1>4. ResponsibleNodes(k, n) \in [1..n -> Server]
  BY <1>1, <1>2, <1>3
<1>5. ASSUME able # {} PROVE nodes[1] \in able
  <2>1. PICK s \in able : TRUE
    BY <1>5
  <2>2. PICK p \in Server : nodes[p] = s
    BY <1>1, <2>1
  <2>3. CASE p = 1
    BY <2>1, <2>2, <2>3
  <2>4. CASE p # 1
    BY <1>1, <1>2, <2>1, <2>2, <2>4, NAssumption DEF Server
  <2>5. QED
    BY <2>3, <2>4
<1>6. QED
  BY <1>3, <1>4, <1>5

\* A function on the first numbers is a sequence of that length.
LEMMA FunctionIsSeq ==
  ASSUME NEW n \in Nat, NEW f \in [1..n -> Server]
  PROVE  f \in Seq(Server) /\ Len(f) = n
  OBVIOUS

\* The first step of a request, in any mode: the nodes it will look at.
LEMMA BeginStep ==
  ASSUME IInv, NEW n \in 1..N, NEW nodes \in [1..n -> Server], Begin(nodes),
         able # {} /\ config.mode # "leastconn" => nodes[1] \in able
  PROVE  IInv'
<1>1. nodes \in Seq(Server) /\ Len(nodes) = n /\ n \in 1..N /\ n \in Nat
  BY FunctionIsSeq, NAssumption
<1>2. TypeOK'
  BY <1>1, NAssumption, MaxActiveAssumption
     DEF IInv, TypeOK, Begin, nodeVars, sickVars, NoServer
<1>3. Scanning' /\ NodesThere'
  BY <1>1 DEF IInv, Scanning, NodesThere, Begin, nodeVars, NoServer
<1>4. QED
  BY <1>2, <1>3 DEF IInv

\* The end of a search.
LEMMA FoundStep ==
  ASSUME IInv, NEW s \in Server \cup {NoServer}, Found(s)
  PROVE  IInv'
<1>1. TypeOK'
  BY NAssumption, MaxActiveAssumption DEF IInv, TypeOK, Found, nodeVars, sickVars
<1>2. Scanning' /\ NodesThere'
  BY DEF Scanning, NodesThere, Found
<1>3. QED
  BY <1>1, <1>2 DEF IInv

\* The element that is looked at.
LEMMA NodeIsServer ==
  ASSUME TypeOK, NodesThere, pc # "out"
  PROVE  /\ Len(order) \in 1..N /\ order[1] \in Server
         /\ ~AtEnd => order[i] \in Server /\ i <= Len(order)
  BY NAssumption DEF TypeOK, NodesThere, AtEnd

\* A counter is loaded.
LEMMA LoadStep ==
  ASSUME IInv, NEW next \in {"near", "compared"}, Load(next), pc # "out",
         ~AtEnd, bs # NoServer, config.mode # "leastconn" => order[i] \in able,
         next = "near" => config.mode = "affinitykey"
  PROVE  IInv'
<1>1. bs \in Server /\ i <= Len(order)
  BY NodeIsServer DEF IInv, TypeOK
<1>2. count[bs] \in 0..MaxActive
  BY <1>1 DEF IInv, TypeOK
<1>3. TypeOK'
  BY <1>1, <1>2 DEF IInv, TypeOK, Load, nodeVars, sickVars
<1>4. Scanning' /\ NodesThere'
  BY DEF IInv, Scanning, NodesThere, Load, nodeVars
<1>5. QED
  BY <1>3, <1>4 DEF IInv

\* The scan goes on to the next node.
LEMMA AdvanceStep ==
  ASSUME IInv, NEW s \in Server, Advance(s), pc # "out", ~AtEnd,
         config.mode # "leastconn" => s \in able
  PROVE  IInv'
<1>1. /\ i <= Len(order) /\ Len(order) \in 1..N /\ i \in Nat \ {0}
      /\ s # NoServer
  <2>1. i <= Len(order) /\ Len(order) \in 1..N
    BY NodeIsServer DEF IInv
  <2>2. i \in Nat \ {0}
    BY NAssumption DEF IInv, TypeOK
  <2>3. s # NoServer
    BY NAssumption DEF NoServer, Server
  <2>4. QED
    BY <2>1, <2>2, <2>3
<1>2. i + 1 \in 1..(N + 1) /\ i + 1 <= Len(order) + 1
  BY <1>1, NAssumption
<1>3. TypeOK'
  BY <1>2, MaxActiveAssumption DEF IInv, TypeOK, Advance, nodeVars, sickVars
<1>4. Scanning' /\ NodesThere'
  BY <1>1 DEF IInv, Scanning, NodesThere, Advance, nodeVars
<1>5. QED
  BY <1>3, <1>4 DEF IInv

\* Every step keeps the invariant.
LEMMA IInvStep == IInv /\ [Next]_vars => IInv'
<1> SUFFICES ASSUME IInv, [Next]_vars PROVE IInv'
  OBVIOUS
<1> USE DEF nodeVars, scanVars, sickVars
<1>1. ASSUME NEW s \in Server, Sickens(s) PROVE IInv'
  <2>1. TypeOK'
    BY <1>1 DEF Sickens, IInv, TypeOK
  <2>2. Scanning' /\ NodesThere'
    BY <1>1 DEF Sickens, IInv, Scanning, NodesThere
  <2>3. QED
    BY <2>1, <2>2 DEF IInv
<1>2. ASSUME NEW s \in Server, Recovers(s) PROVE IInv'
  <2>1. TypeOK'
    BY <1>2 DEF Recovers, IInv, TypeOK
  <2>2. Scanning' /\ NodesThere'
    BY <1>2 DEF Recovers, IInv, Scanning, NodesThere
  <2>3. QED
    BY <2>1, <2>2 DEF IInv
<1>3. ASSUME NEW s \in Server, CountChanges(s) PROVE IInv'
  <2>1. TypeOK'
    BY <1>3 DEF CountChanges, IInv, TypeOK
  <2>2. Scanning' /\ NodesThere'
    BY <1>3 DEF CountChanges, IInv, Scanning, NodesThere
  <2>3. QED
    BY <2>1, <2>2 DEF IInv
<1>4. ASSUME NEW s \in Server, ReadHealth(s) PROVE IInv'
  <2>1. TypeOK'
    BY <1>4 DEF ReadHealth, IInv, TypeOK
  <2>2. Scanning' /\ NodesThere'
    BY <1>4 DEF ReadHealth, IInv, Scanning, NodesThere
  <2>3. QED
    BY <2>1, <2>2 DEF IInv
<1>5. ASSUME Publish PROVE IInv'
  <2>1. TypeOK'
    BY <1>5, NAssumption DEF Publish, IInv, TypeOK, NoServer, Server
  <2>2. Scanning' /\ NodesThere'
    BY <1>5 DEF Publish, Scanning, NodesThere
  <2>3. QED
    BY <2>1, <2>2 DEF IInv
<1>6. ASSUME BeginRoundRobin PROVE IInv'
  <2>1. PICK k \in Key : Begin(ResponsibleNodes(k, 1))
    BY <1>6 DEF BeginRoundRobin
  <2>2. 1 \in 1..N /\ able \subseteq Server
    BY NAssumption DEF IInv, TypeOK
  <2>3. QED
    BY <2>1, <2>2, ResponsibleNodesOrder, BeginStep
<1>7. ASSUME BeginLeastConn PROVE IInv'
  <2>1. N \in 1..N
    BY NAssumption
  <2>2. [s \in Server |-> s] \in [1..N -> Server]
    BY DEF Server
  <2>3. Begin([s \in Server |-> s]) /\ config.mode = "leastconn"
    BY <1>7 DEF BeginLeastConn
  <2>4. QED
    BY <2>1, <2>2, <2>3, BeginStep
<1>8. ASSUME BeginAffinityKey PROVE IInv'
  <2>1. PICK k \in Key : Begin(ResponsibleNodes(k, NumServers))
    BY <1>8 DEF BeginAffinityKey
  <2>2. NumServers \in 1..N /\ able \subseteq Server
    BY NumServersInRange DEF IInv, TypeOK
  <2>3. QED
    BY <2>1, <2>2, ResponsibleNodesOrder, BeginStep
<1>9. ASSUME LookRoundRobin PROVE IInv'
  <2>1. order[1] \in Server
    BY <1>9, NodeIsServer DEF LookRoundRobin, IInv
  <2>2. PICK s \in Server \cup {NoServer} : Found(s)
    BY <1>9, <2>1 DEF LookRoundRobin
  <2>3. QED
    BY <2>2, FoundStep
<1>10. ASSUME GoOn, pc # "out", ~AtEnd,
              config.mode # "leastconn" => order[i] \in able
       PROVE  IInv'
  <2>1. i <= Len(order)
    BY <1>10, NodeIsServer DEF IInv
  <2>2. TypeOK'
    BY <1>10, <2>1, MaxActiveAssumption DEF GoOn, IInv, TypeOK
  <2>3. Scanning' /\ NodesThere'
    BY <1>10 DEF GoOn, IInv, Scanning, NodesThere
  <2>4. QED
    BY <2>2, <2>3 DEF IInv
<1>11. ASSUME LookLeastConn PROVE IInv'
  <2>1. ~AtEnd => order[i] \in Server
    BY <1>11, NodeIsServer DEF LookLeastConn, IInv
  <2>2. CASE GoOn
    BY <1>10, <1>11, <2>2 DEF LookLeastConn, GoOn, Found
  <2>3. CASE \E s \in Server \cup {NoServer} : Found(s)
    BY <2>3, FoundStep
  <2>4. bs \in Server \cup {NoServer}
    BY DEF IInv, TypeOK
  <2>5. QED
    BY <1>11, <2>1, <2>2, <2>3, <2>4 DEF LookLeastConn
<1>12. ASSUME LookAffinityKey PROVE IInv'
  <2>1. bs \in Server \cup {NoServer}
    BY DEF IInv, TypeOK
  <2>2. CASE AtEnd \/ order[i] \notin able
    BY <1>12, <2>1, <2>2, FoundStep DEF LookAffinityKey
  <2>3. CASE ~AtEnd /\ order[i] \in able /\ bs = NoServer
    BY <1>10, <1>12, <2>3 DEF LookAffinityKey
  <2>4. CASE ~AtEnd /\ order[i] \in able /\ bs # NoServer
    BY <1>12, <2>4, LoadStep DEF LookAffinityKey
  <2>5. QED
    BY <2>2, <2>3, <2>4
<1>13. ASSUME LookNear PROVE IInv'
  <2>1. bs \in Server \cup {NoServer}
    BY DEF IInv, TypeOK
  <2>2. /\ pc = "near" /\ ~AtEnd
        /\ config.mode # "leastconn" => order[i] \in able
    BY <1>13, NodeIsServer DEF LookNear, IInv, TypeOK, Scanning, AtEnd
  <2>3. QED
    BY <1>10, <1>13, <2>1, <2>2, FoundStep DEF LookNear
<1>14. ASSUME Compare PROVE IInv'
  <2>1. /\ pc = "compare" /\ ~AtEnd /\ order[i] \in Server
        /\ config.mode # "leastconn" => order[i] \in able
    BY <1>14, NodeIsServer DEF Compare, IInv, TypeOK, Scanning, AtEnd
  <2>2. CASE bs = NoServer
    BY <1>14, <2>1, <2>2, AdvanceStep DEF Compare
  <2>3. CASE bs # NoServer
    BY <1>14, <2>1, <2>3, LoadStep DEF Compare
  <2>4. QED
    BY <2>2, <2>3
<1>15. ASSUME Keep PROVE IInv'
  <2>1. /\ pc = "compared" /\ ~AtEnd /\ order[i] \in Server
        /\ bs \in Server
        /\ config.mode # "leastconn" => order[i] \in able /\ bs \in able
    BY <1>15, NodeIsServer DEF Keep, IInv, TypeOK, Scanning, AtEnd
  <2>2. PICK s \in {bs, order[i]} : Advance(s)
    BY <1>15 DEF Keep
  <2>3. QED
    BY <2>1, <2>2, AdvanceStep
<1>16. CASE UNCHANGED vars
  <2>1. TypeOK'
    BY <1>16 DEF vars, IInv, TypeOK
  <2>2. Scanning' /\ NodesThere'
    BY <1>16 DEF vars, IInv, Scanning, NodesThere, AtEnd
  <2>3. QED
    BY <2>1, <2>2 DEF IInv
<1>17. QED
  BY <1>1, <1>2, <1>3, <1>4, <1>5, <1>6, <1>7, <1>8, <1>9, <1>11, <1>12,
     <1>13, <1>14, <1>15, <1>16 DEF Next, World, Worker, Request

\* Nobody looks at first.
LEMMA InitIInv == Init => IInv
<1> SUFFICES ASSUME Init PROVE IInv
  OBVIOUS
<1>1. TypeOK
  BY NAssumption, MaxActiveAssumption, FlakyAssumption
     DEF Init, TypeOK, NoServer, Server
<1>2. Scanning /\ NodesThere
  BY DEF Init, Scanning, NodesThere
<1>3. QED
  BY <1>1, <1>2 DEF IInv

\* The inductive invariant: types, and which nodes a request has looked at.
THEOREM IInvInvariant == Spec => []IInv
  BY InitIInv, IInvStep, PTL DEF Spec

\* Types; the list is never older than its last reading says.
THEOREM TypeCorrect == Spec => []TypeOK
<1>1. IInv => TypeOK
  BY DEF IInv
<1>2. QED
  BY IInvInvariant, <1>1, PTL

\* The action of PickedWasHealthy.
PickedHealthy ==
  Chooses /\ config.mode # "leastconn" =>
    IF bs' = NoServer THEN able = {} ELSE bs' \notin sick

\* A search that ends has found a server of the list, or there is none.
LEMMA ChoiceIsAble ==
  ASSUME IInv, Next
  PROVE  PickedHealthy
<1> SUFFICES ASSUME Chooses, config.mode # "leastconn"
             PROVE  IF bs' = NoServer THEN able = {} ELSE bs' \notin sick
  BY DEF PickedHealthy
<1>1. LookRoundRobin \/ LookAffinityKey \/ LookNear
  BY DEF Next, World, Worker, Request, Chooses, Sickens, Recovers, CountChanges,
         ReadHealth, Publish, BeginRoundRobin, BeginLeastConn, BeginAffinityKey,
         Begin, LookLeastConn, Compare, Keep, Load, Advance, scanVars
<1>2. pc # "out" /\ (able # {} => order[1] \in able)
  BY DEF Chooses, IInv, Scanning
<1>3. sick \cap able = {}
  BY DEF IInv, TypeOK
<1>4. CASE LookRoundRobin
  <2>1. bs' = IF order[1] \in able THEN order[1] ELSE NoServer
    BY <1>4 DEF LookRoundRobin, Found
  <2>2. order[1] \in Server
    BY <1>2, NodeIsServer DEF IInv
  <2>3. QED
    BY <1>2, <1>3, <2>1, <2>2, NAssumption DEF NoServer, Server
<1>5. CASE LookAffinityKey
  <2>1. AtEnd \/ order[i] \notin able
    BY <1>5 DEF LookAffinityKey, GoOn, Load, Chooses
  <2>2. bs' = bs
    BY <1>5, <2>1 DEF LookAffinityKey, Found
  <2>3. CASE bs # NoServer
    BY <1>2, <1>3, <2>2, <2>3 DEF IInv, Scanning
  <2>4. CASE bs = NoServer
    <3>1. i = 1
      BY <1>2, <2>4 DEF IInv, Scanning
    <3>2. ~AtEnd
      BY <1>2, <3>1, NodeIsServer DEF IInv, AtEnd
    <3>3. QED
      BY <1>2, <2>1, <2>2, <2>4, <3>1, <3>2
  <2>5. QED
    BY <2>3, <2>4
<1>6. CASE LookNear
  <2>1. bs' = bs /\ bs # NoServer /\ bs \in able
    BY <1>6 DEF LookNear, Found, GoOn, Chooses, IInv, Scanning
  <2>2. QED
    BY <1>3, <2>1
<1>7. QED
  BY <1>1, <1>4, <1>5, <1>6

\* roundrobin and affinitykey choose a server that has been healthy since the
\* list was read, and none only when the list has none.
THEOREM ChosenWasHealthy == Spec => PickedWasHealthy
<1>1. IInv /\ [Next]_vars => [PickedHealthy]_vars
  BY ChoiceIsAble
<1>2. QED
  BY IInvInvariant, <1>1, PTL DEF Spec, PickedWasHealthy, PickedHealthy

-----------------------------------------------------------------------------
(* The least busy server.                                                  *)

\* The nodes a request looks at: all servers, or those of the list first.
NodesInOrder ==
  pc # "out" =>
    /\ config.mode = "leastconn" => order = [s \in Server |-> s]
    /\ config.mode = "affinitykey" =>
         \A q \in 1..Len(order) : \A p \in 1..(q - 1) :
           order[q] \in able => order[p] \in able

\* The last node that has passed the first look.
Looked == IF pc \in {"compare", "compared"} THEN i ELSE i - 1

\* The server found so far is the first of the least busy ones.
FirstLeast(p) ==
  /\ order[p] = bs
  /\ \A q \in 1..(p - 1) : count[bs] < count[order[q]]
  /\ \A q \in 1..(i - 1) : count[bs] <= count[order[q]]

BestSoFar ==
  pc # "out" /\ quiet /\ bs # NoServer /\ config.mode # "roundrobin" =>
    \E p \in 1..(i - 1) : FirstLeast(p)

\* Why the search has gone on: no server was idle; the server of the key was
\* too busy.
Busy(s) == IF count[s] = 0 THEN 1 ELSE count[s]

WentOn ==
  pc # "out" /\ quiet =>
    /\ config.mode = "leastconn" => \A q \in 1..Looked : count[order[q]] # 0
    /\ config.mode = "affinitykey" /\ Looked >= 2 /\ config.threshold >= 0 =>
         count[order[1]] > config.threshold * Busy(order[2])

\* What has been loaded is still so.
SeenHolds == quiet /\ pc \in {"near", "compared"} => seen = count[bs]

Quiet == NodesInOrder /\ BestSoFar /\ WentOn /\ SeenHolds

\* What changes no node, no counter and no place in the scan keeps Quiet.
LEMMA QuietStutter ==
  ASSUME Quiet, UNCHANGED <<config, count, scanVars, able, quiet>>
  PROVE  Quiet'
  BY DEF Quiet, NodesInOrder, BestSoFar, WentOn, SeenHolds, FirstLeast, Looked,
         Busy, scanVars

\* At the beginning nothing has been looked at.
LEMMA QuietBegins ==
  ASSUME IInv, NEW nodes, Begin(nodes),
         config.mode = "leastconn" => nodes = [s \in Server |-> s],
         config.mode = "affinitykey" =>
           \A q \in 1..Len(nodes) : \A p \in 1..(q - 1) :
             nodes[q] \in able => nodes[p] \in able
  PROVE  Quiet'
<1>1. /\ order' = nodes /\ i' = 1 /\ bs' = NoServer /\ pc' = "scan"
      /\ config' = config /\ able' = able
  BY DEF Begin, nodeVars
<1>2. NodesInOrder'
  BY <1>1 DEF NodesInOrder
<1>3. BestSoFar'
  BY <1>1 DEF BestSoFar
<1>4. WentOn'
  BY <1>1 DEF WentOn, Looked
<1>5. SeenHolds'
  BY <1>1 DEF SeenHolds
<1>6. QED
  BY <1>2, <1>3, <1>4, <1>5 DEF Quiet

\* At the end there is nothing to keep.
LEMMA QuietEnds ==
  ASSUME NEW s, Found(s)
  PROVE  Quiet'
  BY DEF Found, Quiet, NodesInOrder, BestSoFar, WentOn, SeenHolds

\* The nodes for a key: those with a weight before those without.
LEMMA ResponsibleNodesInOrder ==
  ASSUME NEW k \in Key, NEW n \in 1..N, able \subseteq Server
  PROVE  /\ Len(ResponsibleNodes(k, n)) = n
         /\ \A q \in 1..n : \A p \in 1..(q - 1) :
              ResponsibleNodes(k, n)[q] \in able => ResponsibleNodes(k, n)[p] \in able
<1>1. ResponsibleNodes(k, n) \in [1..n -> Server] /\ n \in Nat
  BY ResponsibleNodesOrder, NAssumption
<1>2. ResponsibleNodes(k, n) = [p \in 1..n |-> Rendezvous(k, able)[p]]
  BY ResponsibleNodesAre
<1>3. 1..n \subseteq Server
  BY NAssumption DEF Server
<1>4. \A p, q \in Server :
        p < q /\ Rendezvous(k, able)[q] \in able => Rendezvous(k, able)[p] \in able
  BY RendezvousAssumption
<1>5. Len(ResponsibleNodes(k, n)) = n
  BY <1>1, FunctionIsSeq
<1>6. \A q \in 1..n : \A p \in 1..(q - 1) :
        ResponsibleNodes(k, n)[q] \in able => ResponsibleNodes(k, n)[p] \in able
  <2> TAKE q \in 1..n
  <2> TAKE p \in 1..(q - 1)
  <2>1. p \in 1..n /\ p < q
    BY <1>1
  <2>2. QED
    BY <1>2, <1>3, <1>4, <2>1
<1>7. QED
  BY <1>5, <1>6

\* A counter is loaded.
LEMMA QuietLoads ==
  ASSUME Quiet,
         \/ pc = "scan" /\ Load("near")
         \/ pc = "compare" /\ Load("compared")
  PROVE  Quiet'
<1>1. /\ order' = order /\ i' = i /\ bs' = bs /\ pc' # "out" /\ seen' = count[bs]
      /\ config' = config /\ able' = able /\ count' = count /\ quiet' = quiet
  BY DEF Load, nodeVars
<1>2. pc # "out" /\ Looked' = Looked
  BY <1>1 DEF Load, Looked
<1>3. NodesInOrder' /\ BestSoFar' /\ SeenHolds'
  BY <1>1, <1>2 DEF Quiet, NodesInOrder, BestSoFar, FirstLeast, SeenHolds
<1>4. WentOn'
  BY <1>1, <1>2 DEF Quiet, WentOn, Busy
<1>5. QED
  BY <1>3, <1>4 DEF Quiet

\* A node that does not end the search.
LEMMA QuietGoesOn ==
  ASSUME IInv, Quiet, GoOn, pc \in {"scan", "near"}, ~AtEnd,
         config.mode # "roundrobin",
         config.mode = "leastconn" => count[order[i]] # 0,
         config.mode = "affinitykey" /\ bs # NoServer => pc = "near" /\ ~NearEnough
  PROVE  Quiet'
<1>1. /\ order' = order /\ i' = i /\ bs' = bs /\ pc' = "compare"
      /\ config' = config /\ able' = able /\ count' = count /\ quiet' = quiet
  BY DEF GoOn, nodeVars
<1>2. NodesInOrder' /\ BestSoFar' /\ SeenHolds'
  BY <1>1 DEF Quiet, NodesInOrder, BestSoFar, FirstLeast, SeenHolds
<1>3. i \in Nat \ {0} /\ Looked = i - 1 /\ Looked' = i
  BY <1>1, NAssumption DEF IInv, TypeOK, Looked
<1>4. ASSUME quiet, config.mode = "leastconn"
      PROVE  \A q \in 1..i : count[order[q]] # 0
  <2>1. \A q \in 1..(i - 1) : count[order[q]] # 0
    BY <1>3, <1>4 DEF Quiet, WentOn
  <2>2. QED
    BY <1>3, <1>4, <2>1
<1>5. ASSUME quiet, config.mode = "affinitykey", i >= 2, config.threshold >= 0
      PROVE  count[order[1]] > config.threshold * Busy(order[2])
  <2>1. CASE i = 2
    <3>1. bs # NoServer
      BY <2>1 DEF IInv, Scanning
    <3>2. PICK p \in 1..(i - 1) : FirstLeast(p)
      BY <1>5, <3>1 DEF Quiet, BestSoFar
    <3>3. order[1] = bs
      BY <2>1, <3>2 DEF FirstLeast
    <3>4. ~(count[bs] <= config.threshold * Busy(order[2]))
      <4>1. seen = count[bs] /\ ~NearEnough
        BY <1>5, <3>1 DEF Quiet, SeenHolds
      <4>2. QED
        BY <1>5, <2>1, <4>1, ConfigParts DEF NearEnough, Busy, IInv, TypeOK
    <3>5. order[2] \in Server /\ bs \in Server
      BY <2>1, <3>1, NodeIsServer DEF IInv, TypeOK
    <3>6. Busy(order[2]) \in Int /\ count[bs] \in Int
      BY <3>5, MaxActiveAssumption DEF Busy, IInv, TypeOK
    <3>7. config.threshold * Busy(order[2]) \in Int
      BY <3>6, ConfigParts DEF IInv, TypeOK
    <3>8. QED
      BY <3>3, <3>4, <3>6, <3>7
  <2>2. CASE i > 2
    BY <1>3, <1>5, <2>2 DEF Quiet, WentOn
  <2>3. QED
    BY <1>3, <1>5, <2>1, <2>2
<1>6. WentOn'
  BY <1>1, <1>3, <1>4, <1>5 DEF WentOn, Busy
<1>7. QED
  BY <1>2, <1>6 DEF Quiet

\* The second look: the better of two is kept, the earlier one when they are
\* equal.
LEMMA QuietAdvances ==
  ASSUME IInv, Quiet, pc \in {"compare", "compared"},
         NEW s, Advance(s),
         quiet => s = IF bs = NoServer \/ count[bs] > count[order[i]]
                      THEN order[i] ELSE bs
  PROVE  Quiet'
<1>1. /\ order' = order /\ i' = i + 1 /\ pc' = "scan" /\ bs' = s
      /\ quiet => bs' = IF bs = NoServer \/ count[bs] > count[order[i]]
                        THEN order[i] ELSE bs
      /\ config' = config /\ able' = able /\ count' = count /\ quiet' = quiet
      /\ pc # "out" /\ pc \in {"compare", "compared"}
  BY DEF Advance, nodeVars
<1>2. NodesInOrder'
  BY <1>1 DEF Quiet, NodesInOrder
<1>3. i \in Nat \ {0} /\ i <= Len(order) /\ order \in Seq(Server)
  BY <1>1, NAssumption DEF IInv, TypeOK
<1>4. Looked = i /\ Looked' = i
  BY <1>1, <1>3 DEF Looked
<1>5. WentOn'
  BY <1>1, <1>4 DEF Quiet, WentOn, Busy
<1>6. \A q \in 1..i : order[q] \in Server /\ count[order[q]] \in Int
  BY <1>3, MaxActiveAssumption DEF IInv, TypeOK
<1>7. BestSoFar'
  <2> SUFFICES ASSUME quiet, config.mode # "roundrobin"
               PROVE  \E p \in 1..i : FirstLeast(p)'
    BY <1>1, <1>3 DEF BestSoFar
  <2>1. CASE bs = NoServer
    <3>1. i = 1
      BY <1>1, <2>1 DEF IInv, Scanning
    <3>2. FirstLeast(1)'
      BY <1>1, <1>6, <2>1, <3>1 DEF FirstLeast
    <3>3. QED
      BY <3>1, <3>2
  <2>2. CASE bs # NoServer
    <3>1. PICK p \in 1..(i - 1) : FirstLeast(p)
      BY <1>1, <2>2 DEF Quiet, BestSoFar
    <3>2. p \in 1..i /\ count[bs] \in Int
      BY <1>3, <1>6, <3>1 DEF FirstLeast
    <3>3. CASE count[bs] > count[order[i]]
      <4>1. \A q \in 1..(i - 1) : count[order[i]] < count[order[q]]
        BY <1>3, <1>6, <3>1, <3>2, <3>3 DEF FirstLeast
      <4>2. PICK j \in 1..i : j = i
        BY <1>3
      <4>3. FirstLeast(j)'
        BY <1>1, <1>3, <1>6, <3>3, <4>1, <4>2 DEF FirstLeast
      <4>4. QED
        BY <4>3
    <3>4. CASE ~(count[bs] > count[order[i]])
      <4>1. \A q \in 1..i : count[bs] <= count[order[q]]
        BY <1>3, <1>6, <3>1, <3>2, <3>4 DEF FirstLeast
      <4>2. FirstLeast(p)'
        BY <1>1, <1>3, <2>2, <3>1, <3>4, <4>1 DEF FirstLeast
      <4>3. QED
        BY <3>2, <4>2
    <3>5. QED
      BY <3>3, <3>4
  <2>3. QED
    BY <2>1, <2>2
<1>8. SeenHolds'
  BY <1>1 DEF SeenHolds
<1>9. QED
  BY <1>2, <1>5, <1>7, <1>8 DEF Quiet

\* Every step keeps Quiet.
LEMMA QuietStep == IInv /\ Quiet /\ [Next]_vars => Quiet'
<1> SUFFICES ASSUME IInv, Quiet, [Next]_vars PROVE Quiet'
  OBVIOUS
<1> USE DEF nodeVars, scanVars, sickVars
<1>1. ASSUME \E s \in Server : Sickens(s) \/ Recovers(s) PROVE Quiet'
  BY <1>1, QuietStutter DEF Sickens, Recovers
<1>2. ASSUME NEW s \in Server, CountChanges(s) PROVE Quiet'
  BY <1>2 DEF CountChanges, Quiet, NodesInOrder, BestSoFar, WentOn, SeenHolds
<1>3. ASSUME NEW s \in Server, ReadHealth(s) PROVE Quiet'
  BY <1>3, QuietStutter DEF ReadHealth
<1>4. ASSUME Publish PROVE Quiet'
  BY <1>4 DEF Publish, Quiet, NodesInOrder, BestSoFar, WentOn, SeenHolds
<1>5. ASSUME BeginRoundRobin PROVE Quiet'
  BY <1>5, QuietBegins DEF BeginRoundRobin
<1>6. ASSUME BeginLeastConn PROVE Quiet'
  BY <1>6, QuietBegins DEF BeginLeastConn
<1>7. ASSUME BeginAffinityKey PROVE Quiet'
  <2>1. PICK k \in Key : Begin(ResponsibleNodes(k, NumServers))
    BY <1>7 DEF BeginAffinityKey
  <2>2. NumServers \in 1..N /\ able \subseteq Server
    BY NumServersInRange DEF IInv, TypeOK
  <2>3. config.mode = "affinitykey"
    BY <1>7 DEF BeginAffinityKey
  <2> HIDE DEF NumServers, ResponsibleNodes
  <2>4. QED
    BY <2>1, <2>2, <2>3, ResponsibleNodesInOrder, QuietBegins
<1>8. ASSUME LookRoundRobin PROVE Quiet'
  BY <1>8, QuietEnds DEF LookRoundRobin
<1>9. ASSUME LookLeastConn PROVE Quiet'
  BY <1>9, QuietEnds, QuietGoesOn DEF LookLeastConn
<1>10. ASSUME LookAffinityKey PROVE Quiet'
  BY <1>10, QuietEnds, QuietLoads, QuietGoesOn DEF LookAffinityKey
<1>11. ASSUME LookNear PROVE Quiet'
  <2>1. CASE NearEnough
    BY <1>11, <2>1, QuietEnds DEF LookNear
  <2>2. CASE ~NearEnough
    <3>1. ~AtEnd
      BY <1>11, NodeIsServer DEF LookNear, IInv, TypeOK, AtEnd
    <3>2. QED
      BY <1>11, <2>2, <3>1, QuietGoesOn DEF LookNear, IInv, Scanning
  <2>3. QED
    BY <2>1, <2>2
<1>12. ASSUME Compare PROVE Quiet'
  <2>1. CASE bs = NoServer
    BY <1>12, <2>1, QuietAdvances DEF Compare
  <2>2. CASE bs # NoServer
    BY <1>12, <2>2, QuietLoads DEF Compare
  <2>3. QED
    BY <2>1, <2>2
<1>13. ASSUME Keep PROVE Quiet'
  <2>1. quiet => seen = count[bs]
    BY <1>13 DEF Keep, Quiet, SeenHolds
  <2>2. bs # NoServer /\ pc = "compared"
    BY <1>13 DEF Keep, IInv, Scanning
  <2>3. QED
    BY <1>13, <2>1, <2>2, QuietAdvances DEF Keep
<1>14. CASE UNCHANGED vars
  BY <1>14, QuietStutter DEF vars
<1>15. QED
  BY <1>1, <1>2, <1>3, <1>4, <1>5, <1>6, <1>7, <1>8, <1>9, <1>10, <1>11, <1>12,
     <1>13, <1>14
     DEF Next, World, Worker, Request

\* The list is empty, or nobody looks, at first.
LEMMA QuietInvariant == Spec => [](IInv /\ Quiet)
<1>1. Init => Quiet
  BY DEF Init, Quiet, NodesInOrder, BestSoFar, WentOn, SeenHolds
<1>2. QED
  BY InitIInv, IInvStep, <1>1, QuietStep, PTL DEF Spec

\* The actions of LeastBusyWhenQuiet.
LeastConnKept ==
  /\ Least(bs', Server)
  /\ \A t \in 1..(bs' - 1) : count[bs'] < count[t]

KeyKept == \E p \in 1..Len(order) : order[p] = bs' /\ AffinityKept(p)

LeastBusy ==
  Chooses /\ quiet /\ bs' # NoServer =>
    /\ config.mode = "leastconn" => LeastConnKept
    /\ config.mode = "affinitykey" => KeyKept

\* A request of leastconn that ends has found an idle server, all before it
\* being busy, or has looked at all.
LEMMA LeastConnIsLeast ==
  ASSUME IInv, Quiet, LookLeastConn, quiet, pc' = "out", bs' # NoServer
  PROVE  LeastConnKept
<1>1. pc = "scan" /\ config.mode = "leastconn"
  BY DEF LookLeastConn
<1>2. order = [s \in Server |-> s] /\ Len(order) = N
  BY <1>1, NAssumption, FunctionIsSeq DEF Quiet, NodesInOrder, Server
<1>3. \A q \in Server : order[q] = q /\ count[q] \in Nat
  BY <1>2, MaxActiveAssumption DEF IInv, TypeOK
<1>4. i \in 1..(N + 1) /\ Looked = i - 1
  BY <1>1 DEF IInv, TypeOK, Looked
<1>5. CASE AtEnd /\ Found(bs)
  <2>1. bs' = bs /\ i = N + 1
    BY <1>2, <1>4, <1>5, NAssumption DEF Found, AtEnd
  <2>2. PICK p \in 1..N : FirstLeast(p)
    BY <1>1, <2>1, NAssumption DEF Quiet, BestSoFar
  <2>3. p = bs
    BY <1>3, <2>2 DEF FirstLeast, Server
  <2>4. QED
    BY <1>3, <2>1, <2>2, <2>3, NAssumption DEF FirstLeast, LeastConnKept, Least, Server
<1>6. CASE ~AtEnd /\ count[order[i]] = 0 /\ Found(order[i])
  <2>1. i \in Server
    BY <1>2, <1>4, <1>6, NAssumption DEF AtEnd, Server
  <2>2. bs' = i /\ count[i] = 0
    BY <1>3, <1>6, <2>1 DEF Found
  <2>3. \A q \in 1..(i - 1) : count[order[q]] # 0 /\ q \in Server
    BY <1>1, <1>4, <2>1, NAssumption DEF Quiet, WentOn, Server
  <2>4. QED
    BY <1>3, <2>2, <2>3 DEF LeastConnKept, Least
<1>7. QED
  BY <1>5, <1>6 DEF LookLeastConn, GoOn

\* A request of affinitykey that ends has looked at all nodes with a weight,
\* or at one that is idle or near enough to be.
LEMMA KeyIsKept ==
  ASSUME IInv, Quiet, quiet, pc' = "out", bs' # NoServer,
         LookAffinityKey \/ LookNear
  PROVE  KeyKept
<1>1. /\ pc \in {"scan", "near"} /\ config.mode = "affinitykey"
      /\ AtEnd \/ order[i] \notin able \/ (NearEnough /\ seen = count[bs])
      /\ bs' = bs
  BY DEF LookAffinityKey, LookNear, GoOn, Load, Found, IInv, Scanning, Quiet, SeenHolds
<1>2. /\ i \in 1..(Len(order) + 1) /\ Looked = i - 1 /\ Len(order) \in 1..N
      /\ \A q \in 1..Len(order) : order[q] \in Server /\ count[order[q]] \in Nat
  <2>1. order \in Seq(Server) /\ count \in [Server -> 0..MaxActive]
    BY DEF IInv, TypeOK
  <2>2. i \in Nat \ {0} /\ i <= Len(order) + 1
    BY <1>1, NAssumption DEF IInv, TypeOK
  <2>3. Len(order) \in 1..N
    BY <1>1 DEF IInv, NodesThere
  <2>4. \A q \in 1..Len(order) : order[q] \in Server /\ count[order[q]] \in Nat
    BY <2>1, MaxActiveAssumption
  <2>5. QED
    BY <1>1, <2>2, <2>3, <2>4 DEF Looked
<1>3. PICK p \in 1..(i - 1) : FirstLeast(p)
  BY <1>1 DEF Quiet, BestSoFar
<1>4. p \in 1..Len(order) /\ order[p] = bs
  BY <1>2, <1>3 DEF FirstLeast
<1>5. config.threshold \in Int
  BY ConfigParts DEF IInv, TypeOK
<1>6. ASSUME p > 1, config.threshold >= 0
      PROVE  count[order[1]] > config.threshold * Busy(order[2])
  BY <1>1, <1>2, <1>3, <1>6 DEF Quiet, WentOn
<1>7. ASSUME config.threshold <= 0, NEW q \in 1..Len(order), order[q] \in able
      PROVE  count[order[p]] <= count[order[q]]
  <2>1. CASE q <= i - 1
    BY <1>2, <1>3, <1>4, <2>1 DEF FirstLeast
  <2>2. CASE q >= i
    <3>1. i \in 1..Len(order) /\ order[i] \in able
      BY <1>1, <1>2, <1>7, <2>2 DEF Quiet, NodesInOrder
    <3>2. NearEnough /\ seen = count[bs]
      BY <1>1, <1>2, <3>1 DEF AtEnd
    <3>3. count[bs] <= 0 * Busy(order[i])
      BY <1>5, <1>7, <3>2 DEF NearEnough, Busy
    <3>4. Busy(order[i]) \in Nat
      BY <1>2, <3>1 DEF Busy
    <3>5. count[bs] <= 0
      BY <3>3, <3>4
    <3>6. QED
      BY <1>2, <1>4, <3>5
  <2>3. QED
    BY <1>2, <2>1, <2>2
<1>8. AffinityKept(p)
  BY <1>3, <1>4, <1>6, <1>7 DEF AffinityKept, FirstLeast, Busy, Least
<1>9. QED
  BY <1>1, <1>4, <1>8 DEF KeyKept

\* The server that is chosen while no counter changes.
LEMMA ChoiceIsLeast ==
  ASSUME IInv, Quiet, Next
  PROVE  LeastBusy
<1> SUFFICES ASSUME Chooses, quiet, bs' # NoServer
             PROVE  /\ config.mode = "leastconn" => LeastConnKept
                    /\ config.mode = "affinitykey" => KeyKept
  BY DEF LeastBusy
<1>1. LookRoundRobin \/ LookLeastConn \/ LookAffinityKey \/ LookNear
  BY DEF Next, World, Worker, Request, Chooses, Sickens, Recovers, CountChanges,
         ReadHealth, Publish, BeginRoundRobin, BeginLeastConn, BeginAffinityKey,
         Begin, Compare, Keep, Load, Advance, scanVars
<1>2. pc' = "out"
  BY DEF Chooses
<1>3. CASE LookRoundRobin
  BY <1>3 DEF LookRoundRobin
<1>4. CASE LookLeastConn
  BY <1>2, <1>4, LeastConnIsLeast DEF LookLeastConn
<1>5. CASE LookAffinityKey \/ LookNear
  BY <1>2, <1>5, KeyIsKept DEF LookAffinityKey, LookNear, IInv, Scanning
<1>6. QED
  BY <1>1, <1>3, <1>4, <1>5

\* leastconn chooses the first of the least busy servers, and affinitykey
\* leaves the server of a key only for a less busy one when the key's own is
\* too busy, as long as no other request comes or goes meanwhile.
THEOREM ChosenIsLeastBusy == Spec => LeastBusyWhenQuiet
<1>1. IInv /\ Quiet /\ [Next]_vars => [LeastBusy]_vars
  BY ChoiceIsLeast
<1>2. QED
  BY QuietInvariant, <1>1, PTL
     DEF Spec, LeastBusyWhenQuiet, LeastBusy, LeastConnKept, KeyKept

-----------------------------------------------------------------------------
(* Keys stay where they are.                                               *)

\* The first node for a key, with either list, has a weight if any has; and it
\* precedes every other.
LEMMA FirstNode ==
  ASSUME NEW k \in Key, NEW S \in SUBSET Server, NEW s \in S
  PROVE  /\ Rendezvous(k, S)[1] \in S
         /\ s # Rendezvous(k, S)[1] => Precedes(k, S, Rendezvous(k, S)[1], s)
<1>1. 1 \in Server /\ Server \subseteq Nat /\ \A p \in Server : p >= 1
  BY NAssumption DEF Server
<1>2. PICK p \in Server : Rendezvous(k, S)[p] = s
  BY RendezvousAssumption
<1>3. p # 1 => 1 < p
  BY <1>1
<1>4. Rendezvous(k, S)[1] \in S
  BY <1>1, <1>2, <1>3, RendezvousAssumption
<1>5. QED
  BY <1>1, <1>2, <1>3, <1>4 DEF Precedes

\* Nothing precedes what precedes it.
LEMMA PrecedesOneWay ==
  ASSUME NEW k \in Key, NEW S \in SUBSET Server, NEW s, NEW t,
         Precedes(k, S, s, t), Precedes(k, S, t, s)
  PROVE  FALSE
<1>1. PICK p, q \in Server :
        p < q /\ Rendezvous(k, S)[p] = s /\ Rendezvous(k, S)[q] = t
  BY DEF Precedes
<1>2. PICK u, v \in Server :
        u < v /\ Rendezvous(k, S)[u] = t /\ Rendezvous(k, S)[v] = s
  BY DEF Precedes
<1>3. p = v /\ q = u
  BY <1>1, <1>2, RendezvousAssumption
<1>4. QED
  BY <1>1, <1>2, <1>3, NAssumption DEF Server

\* Two lists in which each has the other's first node have the same one.
LEMMA FirstNodesAgree ==
  ASSUME NEW k \in Key, NEW S \in SUBSET Server, NEW T \in SUBSET Server,
         Rendezvous(k, S)[1] \in T, Rendezvous(k, T)[1] \in S
  PROVE  Rendezvous(k, S)[1] = Rendezvous(k, T)[1]
<1> DEFINE s == Rendezvous(k, S)[1]
           t == Rendezvous(k, T)[1]
<1> SUFFICES ASSUME s # t PROVE FALSE
  OBVIOUS
<1>1. s \in S \cap T /\ t \in S \cap T
  BY FirstNode
<1>2. Precedes(k, S, s, t) /\ Precedes(k, T, t, s)
  BY <1>1, FirstNode
<1>3. Precedes(k, T, s, t)
  BY <1>1, <1>2, RendezvousIsSteady
<1>4. QED
  BY <1>2, <1>3, PrecedesOneWay

\* A key changes its server only if that leaves the list or the new one enters
\* it, for every hash that is steady: seeds do not depend on health.
THEOREM KeysStayWhereTheyAre == Spec => KeysStay
<1> DEFINE FirstIs ==
             able \subseteq Server => \A k \in Key : FirstFor(k) = Rendezvous(k, able)[1]
           Moved(k) ==
             FirstFor(k)' # FirstFor(k) =>
               FirstFor(k) \notin able' \/ FirstFor(k)' \notin able
<1>1. FirstIs
  BY ResponsibleNodesAre, NAssumption DEF FirstFor
<1>2. FirstIs'
  BY <1>1, PTL
<1>3. TypeOK /\ TypeOK' => \A k \in Key : Moved(k)
  <2> SUFFICES ASSUME TypeOK, TypeOK', NEW k \in Key PROVE Moved(k)
    OBVIOUS
  <2>1. able \in SUBSET Server /\ able' \in SUBSET Server
    BY DEF TypeOK
  <2>2. FirstFor(k) = Rendezvous(k, able)[1]
    BY <1>1, <2>1
  <2>3. FirstFor(k)' = Rendezvous(k, able')[1]
    BY <1>2, <2>1
  <2>4. QED
    BY <2>1, <2>2, <2>3, FirstNodesAgree
<1>4. QED
  BY TypeCorrect, <1>3, PTL DEF KeysStay

=============================================================================

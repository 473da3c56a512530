----------------------------- MODULE FindServer -----------------------------
(***************************************************************************)
(* How an HTTPBackend chooses a server (pkg/lb/httpbackend.go): the worker *)
(* writes the list bssNodes every 100 ms from what the health checks say   *)
(* (updateBssNodes), and findServer chooses from the list in one of three  *)
(* modes, reading the counters of the servers while other requests change  *)
(* them.                                                                   *)
(*                                                                         *)
(* One request is followed; the others are in what the counters do.        *)
(***************************************************************************)
EXTENDS Integers, Sequences, FiniteSets

CONSTANTS
  N,          \* the servers are 1..N, in the order of their names
  Key,        \* values of the affinity key, or random bytes
  Rendezvous(_, _),  \* the library's hash: Rendezvous(k, S) lists the seeds
                     \* for the key k, when the nodes of S weigh more than zero
  Configs,    \* modes with maxservers, threshold, and the servers whose
              \* weight is not zero
  Flaky,      \* bound: the servers that sicken
  MaxActive   \* bound: of the counters

Server == 1..N
NoServer == 0
Modes == {"roundrobin", "leastconn", "affinitykey"}

ASSUME NAssumption == N \in Nat \ {0}
ASSUME FlakyAssumption == Flaky \subseteq Server
\* Seeds are numbered like servers.  The score of a node is zero when its
\* weight is: such nodes come last.
ASSUME RendezvousAssumption ==
  \A k \in Key : \A S \in SUBSET Server :
    LET nodes == Rendezvous(k, S)
    IN /\ nodes \in [Server -> Server]
       /\ \A s \in Server : \E p \in Server : nodes[p] = s
       /\ \A p, q \in Server : nodes[p] = nodes[q] => p = q
       /\ \A p, q \in Server : p < q /\ nodes[q] \in S => nodes[p] \in S
\* A score depends on the key, the seed and the weight of its node alone: the
\* nodes that weigh more than zero keep their order whatever others weigh.
Precedes(k, S, s, t) ==
  \E p, q \in Server :
    p < q /\ Rendezvous(k, S)[p] = s /\ Rendezvous(k, S)[q] = t
ASSUME RendezvousIsSteady ==
  \A k \in Key : \A S, T \in SUBSET Server : \A s, t \in S \cap T :
    Precedes(k, S, s, t) => Precedes(k, T, s, t)
ASSUME ConfigsAssumption ==
  Configs \subseteq [mode : Modes, maxServers : Int, threshold : Int,
                     weighted : SUBSET Server]
ASSUME MaxActiveAssumption == MaxActive \in Nat

VARIABLES
  config,    \* that of this backend
  healthy,   \* the servers that are Healthy() now
  count,     \* activeConnCount of each server
  able,      \* bssNodes: the servers whose node has a weight above zero
  asked,     \* the servers the worker has asked for their health in this sweep
  draft,     \* those that get a weight, not yet written to bssNodes
  pc,        \* where findServer is
  order,     \* the nodes it looks at, in order
  i,         \* the index of the next one
  bs,        \* the server found so far, or by the last call
  seen,      \* the counter of bs as it was loaded to be compared
  sick,      \* history: not healthy at any time since bssNodes was read
  sickDraft, \* history: the same for the draft
  quiet      \* history: no counter has changed while findServer runs

nodeVars == <<able, asked, draft>>
scanVars == <<pc, order, i, bs, seen>>
sickVars == <<sick, sickDraft>>
vars == <<config, healthy, count, nodeVars, scanVars, sickVars, quiet>>

TypeOK ==
  /\ config \in Configs
  /\ healthy \subseteq Server /\ count \in [Server -> 0..MaxActive]
  /\ able \subseteq Server /\ asked \subseteq Server
  /\ pc \in {"out", "scan", "near", "compare", "compared"}
  /\ order \in Seq(Server) /\ i \in 1..(N + 1)
  /\ bs \in Server \cup {NoServer} /\ seen \in 0..MaxActive
  /\ sick \subseteq Server /\ quiet \in BOOLEAN
  \* The list is never older than its last reading, and nobody looks beyond it.
  /\ draft \subseteq asked /\ sickDraft \subseteq asked
  /\ sick \cap able = {} /\ sickDraft \cap draft = {}
  /\ pc = "scan" => i <= Len(order) + 1
  /\ pc \in {"near", "compare", "compared"} => i <= Len(order)

Init ==
  /\ config \in Configs
  /\ healthy \in {Server \ S : S \in SUBSET Flaky} /\ count = [s \in Server |-> 0]
  /\ able = healthy \cap config.weighted /\ asked = {} /\ draft = {}
  /\ pc = "out" /\ order = <<>> /\ i = 1 /\ bs = NoServer /\ seen = 0
  /\ sick = Server \ healthy /\ sickDraft = {} /\ quiet = TRUE

-----------------------------------------------------------------------------
(* Health checks and other requests.                                       *)

Sickens(s) ==
  /\ s \in healthy \cap Flaky /\ healthy' = healthy \ {s}
  /\ UNCHANGED <<config, count, nodeVars, scanVars, sickVars, quiet>>

Recovers(s) ==
  /\ s \notin healthy /\ healthy' = healthy \cup {s}
  /\ sick' = sick \ {s} /\ sickDraft' = sickDraft \ {s}
  /\ UNCHANGED <<config, count, nodeVars, scanVars, quiet>>

\* Another request is counted or not counted any more.
CountChanges(s) ==
  /\ \E n \in {count[s] - 1, count[s] + 1} \cap 0..MaxActive :
       count' = [count EXCEPT ![s] = n]
  /\ quiet' = (pc = "out")
  /\ UNCHANGED <<config, healthy, nodeVars, scanVars, sickVars>>

-----------------------------------------------------------------------------
(* updateBssNodes.                                                         *)

\* Mutant: the nodes have the configured weights.
ReadWeight(s) ==
  /\ s \notin asked /\ asked' = asked \cup {s}
  /\ draft' = draft \cup ({s} \cap config.weighted)
  /\ sickDraft' = sickDraft \cup ({s} \ healthy)
  /\ UNCHANGED <<config, healthy, count, able, scanVars, sick, quiet>>

\* Under bssMu, which holds the set of servers still but not their health: the
\* worker asks one after the other, in any order.  Every server gets a node;
\* that of an unhealthy one weighs zero.
ReadHealth(s) ==
  /\ s \notin asked /\ asked' = asked \cup {s}
  /\ draft' = draft \cup ({s} \cap healthy \cap config.weighted)
  /\ sickDraft' = sickDraft \cup ({s} \ healthy)
  /\ UNCHANGED <<config, healthy, count, able, scanVars, sick, quiet>>

\* Under bssNodesMu, which findServer holds for reading.
Publish ==
  /\ asked = Server /\ pc = "out"
  /\ able' = draft /\ draft' = {} /\ asked' = {}
  /\ sick' = sickDraft /\ sickDraft' = {}
  /\ UNCHANGED <<config, healthy, count, scanVars, quiet>>

-----------------------------------------------------------------------------
(* findServer.                                                             *)

\* Mutant: healthy servers are numbered before the others.
SeedAmongAble(s) ==
  LET UpTo(S) == Cardinality({t \in S : t <= s})
  IN IF s \in able THEN UpTo(able) ELSE Cardinality(able) + UpTo(Server \ able)

\* The seed of the node of a server: its place in the sorted list of them all.
Seed(s) == s

\* wrh.ResponsibleNodes2: the first n nodes for a key.
ResponsibleNodes(k, n) ==
  LET ServerOf(seed) == CHOOSE s \in Server : Seed(s) = seed
      nodes == Rendezvous(k, {Seed(s) : s \in able})
  IN [p \in 1..n |-> ServerOf(nodes[p])]

\* Mutant: a negative value stays what it is.
NumServersNegative ==
  CASE config.maxServers = 0 -> 1
    [] config.maxServers > N -> N
    [] OTHER -> config.maxServers

\* maxservers: zero stands for one server, a negative value for all.
NumServers ==
  CASE config.maxServers = 0 -> 1
    [] config.maxServers < 0 \/ config.maxServers > N -> N
    [] OTHER -> config.maxServers

Begin(nodes) ==
  /\ pc = "out" /\ pc' = "scan"
  /\ order' = nodes /\ i' = 1 /\ bs' = NoServer /\ seen' = 0
  /\ UNCHANGED <<config, healthy, count, nodeVars, sickVars, quiet>>

BeginRoundRobin ==
  /\ config.mode = "roundrobin"
  /\ \E k \in Key : Begin(ResponsibleNodes(k, 1))

BeginLeastConn ==
  /\ config.mode = "leastconn"
  /\ Begin([s \in Server |-> s])

BeginAffinityKey ==
  /\ config.mode = "affinitykey"
  /\ \E k \in Key : Begin(ResponsibleNodes(k, NumServers))

Found(s) ==
  /\ pc' = "out" /\ bs' = s /\ order' = <<>> /\ i' = 1 /\ seen' = 0
  /\ quiet' = TRUE
  /\ UNCHANGED <<config, healthy, count, nodeVars, sickVars>>

\* This node does not end the search.
GoOn ==
  /\ pc' = "compare" /\ seen' = 0
  /\ UNCHANGED <<config, healthy, count, nodeVars, order, i, bs, sickVars, quiet>>

\* The counter of bs is loaded, that of this node after it.
Load(next) ==
  /\ pc' = next /\ seen' = count[bs]
  /\ UNCHANGED <<config, healthy, count, nodeVars, order, i, bs, sickVars, quiet>>

\* The next node is looked at with s as the server found so far.
Advance(s) ==
  /\ pc' = "scan" /\ seen' = 0 /\ bs' = s /\ i' = i + 1
  /\ UNCHANGED <<config, healthy, count, nodeVars, order, sickVars, quiet>>

\* The counters are read again, one after the other.
Compare ==
  /\ pc = "compare"
  /\ IF bs = NoServer THEN Advance(order[i]) ELSE Load("compared")

\* bs stays if it is no busier than this node.
Keep ==
  /\ pc = "compared"
  /\ Advance(IF seen > count[order[i]] THEN order[i] ELSE bs)

AtEnd == i > Len(order)

LookRoundRobin ==
  /\ pc = "scan" /\ config.mode = "roundrobin"
  /\ Found(IF order[1] \in able THEN order[1] ELSE NoServer)

\* The first server without connections, or else one with fewest.
LookLeastConn ==
  /\ pc = "scan" /\ config.mode = "leastconn"
  /\ \/ AtEnd /\ Found(bs)
     \/ ~AtEnd /\ count[order[i]] = 0 /\ Found(order[i])
     \/ ~AtEnd /\ count[order[i]] # 0 /\ GoOn

\* Mutant: a next server without connections is not counted as one.
NearEnoughToNone == seen <= config.threshold * count[order[i]]

\* The server found is not busier than the threshold allows, compared with the
\* next one; a negative threshold is zero.
NearEnough ==
  LET threshold == IF config.threshold < 0 THEN 0 ELSE config.threshold
      next == IF count[order[i]] = 0 THEN 1 ELSE count[order[i]]
  IN seen <= threshold * next

\* A node that weighs nothing ends the search; the first one is not compared.
LookAffinityKey ==
  /\ pc = "scan" /\ config.mode = "affinitykey"
  /\ IF AtEnd \/ order[i] \notin able THEN Found(bs)
     ELSE IF bs = NoServer THEN GoOn ELSE Load("near")

LookNear ==
  /\ pc = "near"
  /\ IF NearEnough THEN Found(bs) ELSE GoOn

-----------------------------------------------------------------------------

World == \E s \in Server : Sickens(s) \/ Recovers(s) \/ CountChanges(s)
Worker == (\E s \in Server : ReadHealth(s)) \/ Publish
Request ==
  \/ BeginRoundRobin \/ BeginLeastConn \/ BeginAffinityKey
  \/ LookRoundRobin \/ LookLeastConn \/ LookAffinityKey \/ LookNear
  \/ Compare \/ Keep

Next == World \/ Worker \/ Request

Spec == Init /\ [][Next]_vars

-----------------------------------------------------------------------------

Chooses == pc # "out" /\ pc' = "out"

\* roundrobin and affinitykey choose no server that has been unhealthy since
\* before the worker last asked it, and turn a request away only when the
\* worker found no healthy server that has a weight: however the sweep, the
\* choice and the checks interleave.  leastconn looks at neither.
PickedWasHealthy ==
  [][Chooses /\ config.mode # "leastconn" =>
       IF bs' = NoServer THEN able = {} ELSE bs' \notin sick]_vars

Least(s, S) == \A t \in S : count[s] <= count[t]

\* Among the nodes for a key, the server at position p is only chosen when it
\* is less busy than those before it and the first exceeds the threshold; and
\* with no threshold nobody is less busy.
AffinityKept(p) ==
  LET Ables == {q \in 1..Len(order) : order[q] \in able}
      second == order[2]
      busy(s) == IF count[s] = 0 THEN 1 ELSE count[s]
  IN /\ \A q \in 1..(p - 1) : count[order[p]] < count[order[q]]
     /\ p > 1 /\ config.threshold >= 0 =>
          count[order[1]] > config.threshold * busy(second)
     /\ config.threshold <= 0 => Least(order[p], {order[q] : q \in Ables})

\* While no other request comes or goes, leastconn finds the first of the
\* servers with fewest connections, and affinitykey leaves the server of a key
\* for the reasons it should, although it stops comparing early.
LeastBusyWhenQuiet ==
  [][Chooses /\ quiet /\ bs' # NoServer =>
       /\ config.mode = "leastconn" =>
            /\ Least(bs', Server)
            /\ \A t \in 1..(bs' - 1) : count[bs'] < count[t]
       /\ config.mode = "affinitykey" =>
            \E p \in 1..Len(order) : order[p] = bs' /\ AffinityKept(p)]_vars

FirstFor(k) == ResponsibleNodes(k, 1)[1]

\* A key moves to another server only when its server has left the list, or
\* the other one has come into it: not because some third server has.
KeysStay ==
  [][\A k \in Key : FirstFor(k)' # FirstFor(k) =>
       FirstFor(k) \notin able' \/ FirstFor(k)' \notin able]_vars

=============================================================================

-------------------------- MODULE HTTPServeProofs --------------------------
(***************************************************************************)
(* For all kinds of requests and all routing tables: a connection that is  *)
(* kept is clean and left alone, what serve leaves behind is cut off,      *)
(* restrictions decide, and serve implements Exchange.                     *)
(***************************************************************************)
EXTENDS HTTPServe, SequenceTheorems, WellFoundedInduction, TLAPS

-----------------------------------------------------------------------------
(* Restrictions.  What the loop of isRouteRestricted computes is shown by   *)
(* induction over the list, in the form of a least counterexample.          *)

\* Every set of natural numbers has a least element.
LEMMA LeastNat ==
  ASSUME NEW T \in SUBSET Nat, T # {}
  PROVE  \E x \in T : \A y \in T : x <= y
<1> DEFINE R == {ss \in Nat \X Nat : ss[1] < ss[2]}
<1>1. IsWellFoundedOn(R, Nat)
  BY NatLessThanWellFounded DEF OpToRel
<1>2. PICK x \in T : \A y \in T : ~(<<y, x>> \in R)
  BY <1>1, WFMin
<1>3. ASSUME NEW y \in T, y < x PROVE FALSE
  <2>1. <<y, x>> \in Nat \X Nat
    OBVIOUS
  <2>2. <<y, x>>[1] < <<y, x>>[2]
    BY <1>3
  <2>3. <<y, x>> \in R
    BY <2>1, <2>2
  <2>4. QED
    BY <1>2, <2>3
<1>4. QED
  BY <1>3

\* Induction up to n.
LEMMA UpTo ==
  ASSUME NEW n \in Nat, NEW S, 0 \in S,
         \A m \in 0..(n - 1) : m \in S => m + 1 \in S
  PROVE  0..n \subseteq S
<1> DEFINE T == {m \in 0..n : m \notin S}
<1> SUFFICES ASSUME T # {} PROVE FALSE
  OBVIOUS
<1>1. T \in SUBSET Nat
  OBVIOUS
<1>2. PICK x \in T : \A y \in T : x <= y
  BY <1>1, LeastNat, Zenon
<1>3. x \in 1..n /\ x \notin S
  OBVIOUS
<1>4. x - 1 \in 0..(n - 1) /\ x - 1 \in 0..n /\ (x - 1) + 1 = x
  BY <1>3
<1>5. x - 1 \notin S
  BY <1>3, <1>4
<1>6. x - 1 \in T /\ ~(x <= x - 1)
  BY <1>3, <1>4, <1>5
<1>7. QED
  BY <1>2, <1>6

\* One step of the loop.
LoopStep(list, f, m) ==
  IF m = 0 THEN [andOK |-> TRUE, restricted |-> FALSE]
           ELSE NextRestriction(f[m - 1], list[m])

\* The loop is defined for every list: each of its steps is.
LEMMA LoopIsDefined ==
  ASSUME NEW list, Len(list) \in Nat
  PROVE  Loop(list) = [m \in 0..Len(list) |-> LoopStep(list, Loop(list), m)]
<1> DEFINE Runs(f, n) == f = [m \in 0..n |-> LoopStep(list, f, m)]
           S == {n \in Nat : \E f : Runs(f, n)}
<1>1. 0 \in S
  <2> DEFINE g == [m \in 0..0 |-> [andOK |-> TRUE, restricted |-> FALSE]]
  <2>1. Runs(g, 0)
    BY DEF LoopStep
  <2>2. QED
    BY <2>1
<1>2. ASSUME NEW n \in 0..(Len(list) - 1), n \in S PROVE n + 1 \in S
  <2>1. PICK f : Runs(f, n)
    BY <1>2
  <2> DEFINE g == [m \in 0..(n + 1) |->
                     IF m <= n THEN f[m] ELSE LoopStep(list, f, m)]
  <2>2. ASSUME NEW m \in 0..(n + 1) PROVE g[m] = LoopStep(list, g, m)
    <3>1. m # 0 => m - 1 \in 0..n /\ g[m - 1] = f[m - 1]
      OBVIOUS
    <3>2. LoopStep(list, g, m) = LoopStep(list, f, m)
      BY <3>1 DEF LoopStep
    <3>3. CASE m <= n
      <4>1. m \in 0..n /\ g[m] = f[m]
        BY <3>3
      <4>2. f[m] = LoopStep(list, f, m)
        BY <2>1, <4>1
      <4>3. QED
        BY <3>2, <4>1, <4>2
    <3>4. CASE ~(m <= n)
      BY <3>2, <3>4
    <3>5. QED
      BY <3>3, <3>4
  <2>3. g = [m \in 0..(n + 1) |-> g[m]]
    OBVIOUS
  <2> HIDE DEF g
  <2>4. Runs(g, n + 1)
    BY <2>2, <2>3
  <2>5. QED
    BY <2>4
<1>3. Len(list) \in S
  <2> HIDE DEF S
  <2>1. 0..Len(list) \subseteq S
    BY <1>1, <1>2, UpTo
  <2>2. QED
    BY <2>1
<1>4. \E f : Runs(f, Len(list))
  BY <1>3
<1>5. Loop(list) = CHOOSE f : Runs(f, Len(list))
  BY Zenon DEF Loop, LoopStep
<1> HIDE DEF Runs
<1>6. Runs(Loop(list), Len(list))
  BY <1>4, <1>5
<1>7. QED
  BY <1>6 DEF Runs

Knowledge == [andOK : BOOLEAN, restricted : BOOLEAN]

\* The body of the loop, part by part.
LEMMA NextRestrictionParts ==
  ASSUME NEW acc \in Knowledge, NEW r \in Restriction
  PROVE  LET next == NextRestriction(acc, r)
         IN /\ next \in Knowledge
            /\ next.restricted <=>
                 acc.restricted \/ (~r.andAfter /\ acc.andOK /\ RestrictionOK(r))
            /\ ~next.restricted =>
                 (next.andOK <=> (r.andAfter => acc.andOK /\ RestrictionOK(r)))
<1>1. RestrictionOK(r) \in BOOLEAN
  BY DEF RestrictionOK
<1>2. r.andAfter \in BOOLEAN
  BY DEF Restriction
<1> DEFINE ok == RestrictionOK(r)
<1> HIDE DEF ok
<1>3. CASE acc.restricted
  <2>1. NextRestriction(acc, r) = acc
    BY <1>3 DEF NextRestriction
  <2>2. QED
    BY <1>3, <2>1
<1>4. CASE ~acc.restricted /\ r.andAfter
  <2>1. NextRestriction(acc, r) = [acc EXCEPT !.andOK = acc.andOK /\ ok]
    BY <1>4 DEF NextRestriction, ok
  <2>2. /\ [acc EXCEPT !.andOK = acc.andOK /\ ok] \in Knowledge
        /\ [acc EXCEPT !.andOK = acc.andOK /\ ok].restricted = acc.restricted
        /\ [acc EXCEPT !.andOK = acc.andOK /\ ok].andOK <=> acc.andOK /\ ok
    BY <1>1 DEF Knowledge, ok
  <2>3. QED
    BY <1>1, <1>4, <2>1, <2>2 DEF Knowledge, ok
<1>5. CASE ~acc.restricted /\ ~r.andAfter
  <2>1. NextRestriction(acc, r) = [andOK |-> TRUE, restricted |-> acc.andOK /\ ok]
    BY <1>5 DEF NextRestriction, ok
  <2>2. QED
    BY <1>1, <1>5, <2>1 DEF Knowledge, ok
<1>6. QED
  BY <1>2, <1>3, <1>4, <1>5 DEF Knowledge

\* A group that the loop decides about, at its last restriction.
EndedGroup(list, i, j) ==
  /\ i = 1 \/ ~list[i - 1].andAfter
  /\ \A k \in i..(j - 1) : list[k].andAfter
  /\ ~list[j].andAfter

\* The restrictions from i to j are such a group, and it is met.
GroupMet(list, i, j) ==
  EndedGroup(list, i, j) /\ \A k \in i..j : RestrictionOK(list[k])

\* The restrictions from k to n belong to a group that goes on after n.
GoesOn(list, k, n) == \A m \in k..n : list[m].andAfter

\* What the loop knows after n restrictions: whether a group that has ended was
\* met, and otherwise whether the one that goes on is met so far.
SomeMet(list, n) == \E j \in 1..n : \E i \in 1..j : GroupMet(list, i, j)
MetSoFar(list, n) == \A k \in 1..n : GoesOn(list, k, n) => RestrictionOK(list[k])

LoopKnows(list, n) ==
  /\ Loop(list)[n] \in Knowledge
  /\ Loop(list)[n].restricted <=> SomeMet(list, n)
  /\ ~Loop(list)[n].restricted => (Loop(list)[n].andOK <=> MetSoFar(list, n))

\* A group that ends at n + 1 is met when its last restriction is and what went
\* on before it is met so far.
LEMMA GroupEnds ==
  ASSUME NEW list \in Seq(Restriction), NEW n \in Nat, n + 1 <= Len(list),
         ~list[n + 1].andAfter
  PROVE  (\E i \in 1..(n + 1) : GroupMet(list, i, n + 1))
           <=> MetSoFar(list, n) /\ RestrictionOK(list[n + 1])
<1>1. ASSUME NEW i \in 1..(n + 1), GroupMet(list, i, n + 1)
      PROVE  MetSoFar(list, n) /\ RestrictionOK(list[n + 1])
  <2>1. ASSUME NEW k \in 1..n, GoesOn(list, k, n) PROVE k \in i..n
    <3>1. CASE k < i
      <4>1. i - 1 \in k..n /\ i # 1
        BY <3>1
      <4>2. list[i - 1].andAfter
        BY <2>1, <4>1 DEF GoesOn
      <4>3. QED
        BY <1>1, <4>1, <4>2 DEF GroupMet, EndedGroup
    <3>2. QED
      BY <3>1
  <2>2. \A k \in i..(n + 1) : RestrictionOK(list[k])
    BY <1>1 DEF GroupMet
  <2>3. QED
    BY <2>1, <2>2 DEF MetSoFar
<1>2. ASSUME MetSoFar(list, n), RestrictionOK(list[n + 1])
      PROVE  \E i \in 1..(n + 1) : GroupMet(list, i, n + 1)
  <2> DEFINE T == {k \in 1..(n + 1) : GoesOn(list, k, n)}
  <2>1. n + 1 \in T
    BY DEF GoesOn
  <2>2. T \in SUBSET Nat /\ T # {}
    BY <2>1
  <2> HIDE DEF T
  <2>3. PICK i \in T : \A k \in T : i <= k
    BY <2>2, LeastNat
  <2>4. i \in 1..(n + 1) /\ GoesOn(list, i, n)
    BY <2>3 DEF T
  <2>5. i = 1 \/ ~list[i - 1].andAfter
    <3> SUFFICES ASSUME i # 1, list[i - 1].andAfter PROVE FALSE
      OBVIOUS
    <3>1. i - 1 \in 1..(n + 1) /\ ~(i <= i - 1)
      BY <2>4
    <3>2. GoesOn(list, i - 1, n)
      BY <2>4 DEF GoesOn
    <3>3. QED
      BY <2>3, <3>1, <3>2 DEF T
  <2>6. \A k \in i..((n + 1) - 1) : list[k].andAfter
    BY <2>4 DEF GoesOn
  <2>7. EndedGroup(list, i, n + 1)
    BY <2>5, <2>6 DEF EndedGroup
  <2>8. \A k \in i..(n + 1) : RestrictionOK(list[k])
    <3> TAKE k \in i..(n + 1)
    <3>1. CASE k = n + 1
      BY <1>2, <3>1
    <3>2. CASE k # n + 1
      <4>1. k \in 1..n /\ k \in i..n
        BY <2>4, <3>2
      <4>2. GoesOn(list, k, n)
        BY <2>4, <4>1 DEF GoesOn
      <4>3. QED
        BY <1>2, <4>1, <4>2 DEF MetSoFar
    <3>3. QED
      BY <3>1, <3>2
  <2>9. QED
    BY <2>4, <2>7, <2>8 DEF GroupMet
<1>3. QED
  BY <1>1, <1>2

\* One more restriction.
LEMMA SomeMetGrows ==
  ASSUME NEW list, NEW n \in Nat
  PROVE  SomeMet(list, n + 1) <=>
           SomeMet(list, n) \/ \E i \in 1..(n + 1) : GroupMet(list, i, n + 1)
<1>1. 1..(n + 1) = (1..n) \cup {n + 1}
  OBVIOUS
<1>2. QED
  BY <1>1, Zenon DEF SomeMet

LEMMA MetSoFarGrows ==
  ASSUME NEW list, NEW n \in Nat
  PROVE  MetSoFar(list, n + 1) <=>
           (list[n + 1].andAfter =>
              MetSoFar(list, n) /\ RestrictionOK(list[n + 1]))
<1>1. CASE list[n + 1].andAfter
  <2>1. \A k \in 1..n : GoesOn(list, k, n + 1) <=> GoesOn(list, k, n)
    BY <1>1 DEF GoesOn
  <2>2. GoesOn(list, n + 1, n + 1)
    BY <1>1 DEF GoesOn
  <2>3. 1..(n + 1) = (1..n) \cup {n + 1}
    OBVIOUS
  <2>4. QED
    BY <1>1, <2>1, <2>2, <2>3 DEF MetSoFar
<1>2. CASE ~list[n + 1].andAfter
  <2>1. \A k \in 1..(n + 1) : ~GoesOn(list, k, n + 1)
    BY <1>2 DEF GoesOn
  <2>2. QED
    BY <1>2, <2>1 DEF MetSoFar
<1>3. QED
  BY <1>1, <1>2

\* The loop knows what it should, after every restriction.
LEMMA LoopKnowsAll ==
  ASSUME NEW list \in Seq(Restriction)
  PROVE  \A n \in 0..Len(list) : LoopKnows(list, n)
<1> DEFINE S == {n \in 0..Len(list) : LoopKnows(list, n)}
<1>1. /\ Len(list) \in Nat
      /\ \A n \in 1..Len(list) : list[n] \in Restriction
  OBVIOUS
<1>2. \A n \in 0..Len(list) : Loop(list)[n] = LoopStep(list, Loop(list), n)
  BY <1>1, LoopIsDefined
<1>3. 0 \in S
  <2>1. Loop(list)[0] = [andOK |-> TRUE, restricted |-> FALSE]
    BY <1>1, <1>2 DEF LoopStep
  <2>2. ~SomeMet(list, 0) /\ MetSoFar(list, 0)
    BY DEF SomeMet, MetSoFar
  <2>3. LoopKnows(list, 0)
    BY <2>1, <2>2 DEF LoopKnows, Knowledge
  <2>4. QED
    BY <1>1, <2>3
<1>4. ASSUME NEW n \in 0..(Len(list) - 1), n \in S PROVE n + 1 \in S
  <2> DEFINE r == list[n + 1]
             acc == Loop(list)[n]
             next == Loop(list)[n + 1]
  <2>1. n \in Nat /\ n + 1 \in 0..Len(list) /\ n + 1 # 0 /\ (n + 1) - 1 = n
        /\ r \in Restriction
    BY <1>1
  <2>2. next = NextRestriction(acc, r)
    BY <1>2, <2>1 DEF LoopStep
  <2>3. LoopKnows(list, n)
    BY <1>4
  <2>4. acc \in Knowledge
    BY <2>3 DEF LoopKnows
  <2> HIDE DEF next, acc
  <2>5. /\ next \in Knowledge
        /\ next.restricted <=>
             acc.restricted \/ (~r.andAfter /\ acc.andOK /\ RestrictionOK(r))
        /\ ~next.restricted =>
             (next.andOK <=> (r.andAfter => acc.andOK /\ RestrictionOK(r)))
    BY <2>1, <2>2, <2>4, NextRestrictionParts
  <2>6. /\ acc.restricted <=> SomeMet(list, n)
        /\ ~acc.restricted => (acc.andOK <=> MetSoFar(list, n))
    BY <2>3 DEF LoopKnows, acc
  <2>7. ~r.andAfter =>
          ((\E i \in 1..(n + 1) : GroupMet(list, i, n + 1))
             <=> MetSoFar(list, n) /\ RestrictionOK(r))
    BY <1>1, <2>1, GroupEnds
  <2>8. r.andAfter => ~\E i \in 1..(n + 1) : GroupMet(list, i, n + 1)
    BY DEF GroupMet, EndedGroup
  <2>9. next.restricted <=> SomeMet(list, n + 1)
    BY <2>1, <2>5, <2>6, <2>7, <2>8, SomeMetGrows
  <2>10. ~next.restricted => (next.andOK <=> MetSoFar(list, n + 1))
    BY <2>1, <2>5, <2>6, MetSoFarGrows
  <2>11. LoopKnows(list, n + 1)
    BY <2>5, <2>9, <2>10 DEF LoopKnows, next
  <2>12. QED
    BY <2>1, <2>11
<1> HIDE DEF S
<1>5. 0..Len(list) \subseteq S
  BY <1>1, <1>3, <1>4, UpTo
<1>6. QED
  BY <1>5 DEF S

\* isRouteRestricted refuses only what a list of restrictions means to refuse,
\* and all of that when the list does not end in andafter: groups are joined by
\* andafter, and one is enough.
THEOREM RestrictedMeansGroupMet ==
  \A list \in Seq(Restriction) :
    /\ isRouteRestricted(list) => SomeGroupMet(list)
    /\ Tidy(list) /\ SomeGroupMet(list) => isRouteRestricted(list)
<1> TAKE list \in Seq(Restriction)
<1>1. Len(list) \in 0..Len(list) /\ Len(list) \in Nat
  OBVIOUS
<1>2. isRouteRestricted(list) <=> SomeMet(list, Len(list))
  BY <1>1, LoopKnowsAll DEF isRouteRestricted, LoopKnows
<1>3. \A i, j \in 1..Len(list) : EndedGroup(list, i, j) => IsGroup(list, i, j)
  BY DEF EndedGroup, IsGroup
<1>4. Tidy(list) =>
        \A i, j \in 1..Len(list) : IsGroup(list, i, j) => EndedGroup(list, i, j)
  <2> SUFFICES ASSUME Tidy(list), NEW i \in 1..Len(list), NEW j \in 1..Len(list),
                      IsGroup(list, i, j)
               PROVE  EndedGroup(list, i, j)
    OBVIOUS
  <2>1. list # <<>>
    OBVIOUS
  <2>2. ~list[j].andAfter
    BY <2>1 DEF Tidy, IsGroup
  <2>3. QED
    BY <2>2 DEF IsGroup, EndedGroup
<1>5. SomeMet(list, Len(list)) => SomeGroupMet(list)
  BY <1>1, <1>3 DEF SomeMet, SomeGroupMet, GroupMet
<1>6. Tidy(list) /\ SomeGroupMet(list) => SomeMet(list, Len(list))
  BY <1>1, <1>4 DEF SomeMet, SomeGroupMet, GroupMet
<1>7. QED
  BY <1>2, <1>5, <1>6

\* findBackend has no backend for a request exactly when the first route that
\* matches refuses it, or there is none: for all tables without a list that
\* ends in andafter.
THEOREM RefusedAsMeant ==
  \A table \in RoutingTable :
    TidyTable(table) => (findBackend(table) = "none" <=> MeantToRefuse(table))
<1> SUFFICES ASSUME NEW table \in RoutingTable, TidyTable(table)
             PROVE  findBackend(table) = "none" <=> MeantToRefuse(table)
  OBVIOUS
<1> DEFINE M == Matching(table)
           routes == table.routes
           first == CHOOSE i \in M : \A j \in M : i <= j
<1>1. /\ Len(routes) \in Nat
      /\ \A i \in 1..Len(routes) : /\ routes[i].restrictions \in Seq(Restriction)
                                   /\ routes[i].matches \in BOOLEAN
  <2> DEFINE Rt == [matches : BOOLEAN, restrictions : Seq(Restriction),
                    backend : RouteBackend]
  <2>1. routes \in Seq(Rt)
    BY DEF RoutingTable
  <2>2. \A x \in Rt : x.restrictions \in Seq(Restriction) /\ x.matches \in BOOLEAN
    OBVIOUS
  <2> HIDE DEF Rt, routes
  <2>3. Len(routes) \in Nat /\ \A i \in 1..Len(routes) : routes[i] \in Rt
    BY <2>1
  <2>4. QED
    BY <2>2, <2>3
<1>2. M = {i \in 1..Len(routes) : routes[i].matches}
  BY DEF Matching
<1>3. CASE M = {}
  <2>1. findBackend(table) = table.default
    BY <1>3 DEF findBackend
  <2>2. MeantToRefuse(table) <=> table.default = "none"
    BY <1>3 DEF MeantToRefuse
  <2>3. QED
    BY <2>1, <2>2
<1>4. CASE M # {}
  <2>1. M \in SUBSET Nat
    BY <1>1, <1>2
  <2> HIDE DEF M
  <2>2. \E i \in M : \A j \in M : i <= j
    BY <1>4, <2>1, LeastNat
  <2>3. first \in M /\ \A j \in M : first <= j
    BY <2>2
  <2> HIDE DEF first
  <2>4. first \in 1..Len(routes) /\ \A j \in 1..(first - 1) : ~routes[j].matches
    BY <1>1, <1>2, <2>3
  <2>5. ASSUME NEW i \in M, \A j \in 1..(i - 1) : ~routes[j].matches
        PROVE  i = first
    BY <1>1, <1>2, <2>3, <2>5
  <2>6. MeantToRefuse(table) <=>
          SomeGroupMet(routes[first].restrictions) \/ routes[first].backend = "none"
    BY <1>4, <2>3, <2>4, <2>5 DEF MeantToRefuse, M
  <2>7. findBackend(table) =
          IF isRouteRestricted(routes[first].restrictions)
            THEN "none" ELSE routes[first].backend
    BY <1>4 DEF findBackend, first, M
  <2>8. isRouteRestricted(routes[first].restrictions)
          <=> SomeGroupMet(routes[first].restrictions)
    <3>1. Tidy(routes[first].restrictions)
      BY <2>4 DEF TidyTable
    <3>2. QED
      BY <1>1, <2>4, <3>1, RestrictedMeansGroupMet
  <2>9. QED
    BY <2>6, <2>7, <2>8
<1>5. QED
  BY <1>3, <1>4

-----------------------------------------------------------------------------
(* One request.                                                            *)

Parts == {"page", "forbidden", "continue", "head", "bare", "body"}

\* TypeOK without who runs inside whom, which is in Stages.
RequestTypes ==
  /\ shape \in AllShapes /\ shape \in Shapes /\ meant \in BOOLEAN
  /\ client \in {"nothing", "head", "all"}
  /\ server \in {"nothing", "continue", "head", "all"}
  /\ feSide \in Sides /\ beSide \in Sides
  /\ feCtx \in BOOLEAN /\ beCtx \in BOOLEAN

ConnTypes ==
  /\ feOpen \in BOOLEAN /\ feBuf \in BOOLEAN
  /\ beOpen \in BOOLEAN /\ beBuf \in BOOLEAN
  /\ said \in Seq(Parts)
  /\ taken \subseteq {"main", "backup"}

ServeTypes ==
  /\ fe \in {"select", "flush", "await", "kept", "closed"}
  /\ asy \in {"header", "route", "call", "finish", "end"}
  /\ asyErr \in BOOLEAN /\ final \in BOOLEAN
  /\ which \in {"main", "backup"}
  /\ be \in {"idle", "connect", "select", "flushFe", "flushBe", "await"}

ForwardTypes ==
  /\ basy \in {"off", "ingress", "egress", "end"} /\ basyErr \in BOOLEAN
  /\ ing \in {"off", "head", "flushHead", "read", "body", "flushBody",
              "flushPart", "end"}
  /\ egr \in {"off", "head", "flushContinue", "head2", "flushHead", "read",
              "flushBody", "flushPart", "end"}
  /\ ingErr \in BOOLEAN /\ egrErr \in BOOLEAN

Types == RequestTypes /\ ConnTypes /\ ServeTypes /\ ForwardTypes

\* Until a backend has got the request nothing has been said; from then on it
\* is final, and a good end is one that serveAsync of the backend reported.
Stages ==
  /\ be # "idle" <=> asy = "call"
  /\ fe \in {"kept", "closed"} => asy = "end"
  /\ fe = "kept" => ~asyErr
  /\ asy \in {"header", "route"} \/ be = "connect" => egr = "off" /\ said = <<>>
  /\ egr = "off" <=> taken = {}
  /\ egr = "off" <=> ing = "off"
  /\ egr = "off" <=> basy = "off"
  /\ be \in {"select", "flushFe", "flushBe", "await"} => final /\ egr # "off"
  /\ asy = "finish" \/ (asy = "end" /\ ~asyErr) => basy = "end" /\ ~basyErr

\* What the end of HTTPBackend.serveAsync says about its two goroutines.
Heard ==
  /\ basy = "egress" => ing = "end" /\ ~ingErr
  /\ basy = "end" /\ ~basyErr =>
       ing = "end" /\ ~ingErr /\ egr = "end" /\ ~egrErr

\* A connection is closed on the way to an error only.
Closings ==
  /\ ~feOpen => \/ fe \in {"await", "closed"} \/ be \in {"flushBe", "await"}
                \/ asy = "end" /\ asyErr
  /\ fe \in {"await", "closed"} => ~feOpen
  /\ ~beOpen /\ egr # "off" => be = "await" \/ (asy = "end" /\ asyErr)

\* How far the request has got, and that no buffer is left with anything.
Transferred ==
  /\ asy = "route" \/ be = "connect" \/ egr # "off" => client # "nothing"
  /\ client = "head" => shape.reqBody \in {"sized", "unsized"}
  /\ ing \in {"body", "flushBody"} => client = "all"
  /\ ing = "end" /\ ~ingErr =>
       ~beBuf /\ (shape.reqBody # "unsized" => client = "all")
  /\ egr = "end" /\ ~egrErr => ~feBuf

\* How far the answer has got, as long as the client can hear it.
Heads == {<<"head">>, <<"continue", "head">>}
Bares == {<<"bare">>, <<"continue", "bare">>}
Bodies == {<<"head", "body">>, <<"continue", "head", "body">>}
Sayings == {<<>>, <<"continue">>} \cup Heads \cup Bares \cup Bodies

SaidSoFar ==
  /\ egr # "off" => said \in Sayings
  /\ feOpen =>
       /\ egr = "head" => said = <<>>
       /\ egr \in {"flushContinue", "head2"} => said = <<"continue">>
       /\ egr = "flushHead" =>
            IF shape.resBody = "none" THEN said \in Bares ELSE said \in Heads
       /\ egr \in {"read", "flushPart"} => said \in Heads
       /\ egr = "flushBody" => said \in Bodies
       /\ egr = "end" /\ ~egrErr => said \in Bares \cup Bodies

IInv ==
  Types /\ Stages /\ Heard /\ Closings /\ Transferred /\ SaidSoFar

-----------------------------------------------------------------------------

\* A shape is a record of its four parts.
LEMMA ShapeParts ==
  ASSUME shape \in AllShapes
  PROVE  /\ shape.reqBody \in ReqBodies /\ shape.resBody \in ResBodies
         /\ shape.cont \in BOOLEAN /\ shape.backup \in BOOLEAN
  BY DEF AllShapes

\* Appending to a sequence that is written out.

LEMMA AppendKeeps ==
  ASSUME NEW S, NEW s \in Seq(S), NEW e \in S
  PROVE  \A i \in 1..Len(s) : Append(s, e)[i] = s[i]
<1>1. TAKE i \in 1..Len(s)
<1>2. QED
  OBVIOUS

LEMMA AppendAfterOne ==
  ASSUME NEW S, NEW a \in S, NEW b \in S
  PROVE  Append(<<a>>, b) = <<a, b>>
<1> DEFINE s == <<a>>
           t == <<a, b>>
           u == Append(s, b)
<1>1. s \in Seq(S) /\ Len(s) = 1 /\ s[1] = a
  OBVIOUS
<1>2. t \in Seq(S) /\ Len(t) = 2 /\ t[1] = a /\ t[2] = b
  OBVIOUS
<1> HIDE DEF s, t
<1>3. u \in Seq(S) /\ Len(u) = Len(s) + 1 /\ u[Len(s) + 1] = b
  BY <1>1, AppendProperties, Zenon
<1>4. \A i \in 1..Len(s) : u[i] = s[i]
  BY <1>1, AppendKeeps DEF u
<1> HIDE DEF u
<1>5. \A i \in 1..Len(t) : u[i] = t[i]
  BY <1>1, <1>2, <1>3, <1>4
<1>6. u = t
  BY <1>1, <1>2, <1>3, <1>5, SeqEqual
<1>7. QED
  BY <1>6 DEF s, t, u

LEMMA AppendAfterTwo ==
  ASSUME NEW S, NEW a \in S, NEW b \in S, NEW c \in S
  PROVE  Append(<<a, b>>, c) = <<a, b, c>>
<1> DEFINE s == <<a, b>>
           t == <<a, b, c>>
           u == Append(s, c)
<1>1. s \in Seq(S) /\ Len(s) = 2 /\ s[1] = a /\ s[2] = b
  OBVIOUS
<1>2. t \in Seq(S) /\ Len(t) = 3 /\ t[1] = a /\ t[2] = b /\ t[3] = c
  OBVIOUS
<1> HIDE DEF s, t
<1>3. u \in Seq(S) /\ Len(u) = Len(s) + 1 /\ u[Len(s) + 1] = c
  BY <1>1, AppendProperties, Zenon
<1>4. \A i \in 1..Len(s) : u[i] = s[i]
  BY <1>1, AppendKeeps DEF u
<1> HIDE DEF u
<1>5. \A i \in 1..Len(t) : u[i] = t[i]
  BY <1>1, <1>2, <1>3, <1>4
<1>6. u = t
  BY <1>1, <1>2, <1>3, <1>5, SeqEqual
<1>7. QED
  BY <1>6 DEF s, t, u

\* What one more part makes of what has been said.
LEMMA OneMorePart ==
  /\ \A p \in Parts : Append(<<>>, p) = <<p>>
  /\ Append(<<"continue">>, "head") = <<"continue", "head">>
  /\ Append(<<"continue">>, "bare") = <<"continue", "bare">>
  /\ Append(<<"head">>, "body") = <<"head", "body">>
  /\ Append(<<"continue", "head">>, "body") = <<"continue", "head", "body">>
<1>1. {"continue", "head", "bare", "body"} \subseteq Parts
  BY DEF Parts
<1>2. \A p \in Parts : Append(<<>>, p) = <<p>>
  OBVIOUS
<1>3. QED
  BY <1>1, <1>2, AppendAfterOne, AppendAfterTwo, Zenon

\* Saying one of the parts keeps types.
LEMMA SayTypes ==
  ASSUME ConnTypes, NEW p \in Parts, Say(p)
  PROVE  said' \in Seq(Parts) /\ feBuf' \in BOOLEAN /\ feOpen' \in BOOLEAN
<1>1. said' \in Seq(Parts)
  <2>1. said \in Seq(Parts)
    BY DEF ConnTypes
  <2>2. Append(said, p) \in Seq(Parts)
    BY <2>1, AppendProperties
  <2>3. QED
    BY <2>1, <2>2 DEF Say
<1>2. feBuf' \in BOOLEAN /\ feOpen' \in BOOLEAN
  BY DEF Say, ConnTypes
<1>3. QED
  BY <1>1, <1>2

\* A disjunction is TRUE or FALSE.
LEMMA MeantIsBoolean ==
  ASSUME NEW table
  PROVE  MeantToRefuse(table) \in BOOLEAN
  BY DEF MeantToRefuse

\* Every step keeps the types.
LEMMA TypesStep == IInv /\ [Next]_vars => Types'
<1> SUFFICES ASSUME IInv, [Next]_vars PROVE Types'
  OBVIOUS
<1>0. Types
  BY DEF IInv
<1> USE <1>0 DEF Types, Sides, Parts, RequestTypes, ConnTypes, ServeTypes,
          ForwardTypes,
          reqVars, peerVars, feConnVars, beConnVars, ctxVars, asyVars,
          callVars, basyVars, ingVars, egrVars
<1>1. ASSUME FeSelects PROVE Types'
  BY <1>1 DEF FeSelects
<1>2. ASSUME FeCloses PROVE Types'
  <2>1. RequestTypes'
    BY <1>2 DEF FeCloses, FeFlushes
  <2>2. ConnTypes'
    BY <1>2 DEF FeCloses, FeFlushes
  <2>3. ServeTypes'
    BY <1>2 DEF FeCloses, FeFlushes
  <2>4. ForwardTypes'
    BY <1>2 DEF FeCloses, FeFlushes
  <2>5. QED
    BY <2>1, <2>2, <2>3, <2>4
<1>3. ASSUME FeEnds PROVE Types'
  BY <1>3 DEF FeEnds
<1>4. ASSUME ReadHeader PROVE Types'
  <2>1. RequestTypes'
    BY <1>4, SayTypes DEF ReadHeader, Refuse
  <2>2. ConnTypes'
    BY <1>4, SayTypes DEF ReadHeader, Refuse
  <2>3. ServeTypes'
    BY <1>4, SayTypes DEF ReadHeader, Refuse
  <2>4. ForwardTypes'
    BY <1>4, SayTypes DEF ReadHeader, Refuse
  <2>5. QED
    BY <2>1, <2>2, <2>3, <2>4
<1>5. ASSUME HeaderTimesOut PROVE Types'
  <2>1. RequestTypes'
    BY <1>5, SayTypes DEF HeaderTimesOut, Refuse
  <2>2. ConnTypes'
    BY <1>5, SayTypes DEF HeaderTimesOut, Refuse
  <2>3. ServeTypes'
    BY <1>5, SayTypes DEF HeaderTimesOut, Refuse
  <2>4. ForwardTypes'
    BY <1>5, SayTypes DEF HeaderTimesOut, Refuse
  <2>5. QED
    BY <2>1, <2>2, <2>3, <2>4
<1>6. ASSUME Malformed PROVE Types'
  <2>1. RequestTypes'
    BY <1>6, SayTypes DEF Malformed, Refuse
  <2>2. ConnTypes'
    BY <1>6, SayTypes DEF Malformed, Refuse
  <2>3. ServeTypes'
    BY <1>6, SayTypes DEF Malformed, Refuse
  <2>4. ForwardTypes'
    BY <1>6, SayTypes DEF Malformed, Refuse
  <2>5. QED
    BY <2>1, <2>2, <2>3, <2>4
<1>7. ASSUME Route PROVE Types'
  <2>1. RequestTypes'
    BY <1>7, SayTypes, MeantIsBoolean DEF Route, Refuse
  <2>2. ConnTypes'
    BY <1>7, SayTypes, MeantIsBoolean DEF Route, Refuse
  <2>3. ServeTypes'
    BY <1>7, SayTypes, MeantIsBoolean DEF Route, Refuse
  <2>4. ForwardTypes'
    BY <1>7, SayTypes, MeantIsBoolean DEF Route, Refuse
  <2>5. QED
    BY <2>1, <2>2, <2>3, <2>4
<1>8. ASSUME Refused PROVE Types'
  <2>1. RequestTypes'
    BY <1>8, SayTypes DEF Refused, CallFailed
  <2>2. ConnTypes'
    BY <1>8, SayTypes DEF Refused, CallFailed
  <2>3. ServeTypes'
    BY <1>8, SayTypes DEF Refused, CallFailed
  <2>4. ForwardTypes'
    BY <1>8, SayTypes DEF Refused, CallFailed
  <2>5. QED
    BY <2>1, <2>2, <2>3, <2>4
<1>9. ASSUME Acquired PROVE Types'
  <2>1. RequestTypes'
    BY <1>9 DEF Acquired, Forward
  <2>2. ConnTypes'
    BY <1>9 DEF Acquired, Forward
  <2>3. ServeTypes'
    BY <1>9 DEF Acquired, Forward
  <2>4. ForwardTypes'
    BY <1>9 DEF Acquired, Forward
  <2>5. QED
    BY <2>1, <2>2, <2>3, <2>4
<1>10. ASSUME Finish PROVE Types'
  <2>1. RequestTypes'
    BY <1>10 DEF Finish
  <2>2. ConnTypes'
    BY <1>10 DEF Finish
  <2>3. ServeTypes'
    BY <1>10 DEF Finish
  <2>4. ForwardTypes'
    BY <1>10 DEF Finish
  <2>5. QED
    BY <2>1, <2>2, <2>3, <2>4
<1>11. ASSUME BeSelects PROVE Types'
  BY <1>11 DEF BeSelects
<1>12. ASSUME BeClosesFe PROVE Types'
  <2>1. RequestTypes'
    BY <1>12 DEF BeClosesFe, FeFlushes
  <2>2. ConnTypes'
    BY <1>12 DEF BeClosesFe, FeFlushes
  <2>3. ServeTypes'
    BY <1>12 DEF BeClosesFe, FeFlushes
  <2>4. ForwardTypes'
    BY <1>12 DEF BeClosesFe, FeFlushes
  <2>5. QED
    BY <2>1, <2>2, <2>3, <2>4
<1>13. ASSUME BeClosesBe PROVE Types'
  <2>1. RequestTypes'
    BY <1>13 DEF BeClosesBe, BeFlushes
  <2>2. ConnTypes'
    BY <1>13 DEF BeClosesBe, BeFlushes
  <2>3. ServeTypes'
    BY <1>13 DEF BeClosesBe, BeFlushes
  <2>4. ForwardTypes'
    BY <1>13 DEF BeClosesBe, BeFlushes
  <2>5. QED
    BY <2>1, <2>2, <2>3, <2>4
<1>14. ASSUME BeEnds PROVE Types'
  <2>1. RequestTypes'
    BY <1>14 DEF BeEnds, CallFailed
  <2>2. ConnTypes'
    BY <1>14 DEF BeEnds, CallFailed
  <2>3. ServeTypes'
    BY <1>14 DEF BeEnds, CallFailed
  <2>4. ForwardTypes'
    BY <1>14 DEF BeEnds, CallFailed
  <2>5. QED
    BY <2>1, <2>2, <2>3, <2>4
<1>15. ASSUME IngressHeard PROVE Types'
  <2>1. RequestTypes'
    BY <1>15 DEF IngressHeard
  <2>2. ConnTypes'
    BY <1>15 DEF IngressHeard
  <2>3. ServeTypes'
    BY <1>15 DEF IngressHeard
  <2>4. ForwardTypes'
    BY <1>15 DEF IngressHeard
  <2>5. QED
    BY <2>1, <2>2, <2>3, <2>4
<1>16. ASSUME EgressHeard PROVE Types'
  <2>1. RequestTypes'
    BY <1>16 DEF EgressHeard
  <2>2. ConnTypes'
    BY <1>16 DEF EgressHeard
  <2>3. ServeTypes'
    BY <1>16 DEF EgressHeard
  <2>4. ForwardTypes'
    BY <1>16 DEF EgressHeard
  <2>5. QED
    BY <2>1, <2>2, <2>3, <2>4
<1>17. ASSUME IngPuts PROVE Types'
  <2>1. RequestTypes'
    BY <1>17 DEF IngPuts
  <2>2. ConnTypes'
    BY <1>17 DEF IngPuts
  <2>3. ServeTypes'
    BY <1>17 DEF IngPuts
  <2>4. ForwardTypes'
    BY <1>17 DEF IngPuts
  <2>5. QED
    BY <2>1, <2>2, <2>3, <2>4
<1>18. ASSUME IngFlushes PROVE Types'
  <2>1. RequestTypes'
    BY <1>18 DEF IngFlushes, BeFlushes, AfterHead, IngEnds
  <2>2. ConnTypes'
    BY <1>18 DEF IngFlushes, BeFlushes, AfterHead, IngEnds
  <2>3. ServeTypes'
    BY <1>18 DEF IngFlushes, BeFlushes, AfterHead, IngEnds
  <2>4. ForwardTypes'
    BY <1>18 DEF IngFlushes, BeFlushes, AfterHead, IngEnds
  <2>5. QED
    BY <2>1, <2>2, <2>3, <2>4
<1>19. ASSUME IngReads PROVE Types'
  <2>1. RequestTypes'
    BY <1>19 DEF IngReads, IngEnds
  <2>2. ConnTypes'
    BY <1>19 DEF IngReads, IngEnds
  <2>3. ServeTypes'
    BY <1>19 DEF IngReads, IngEnds
  <2>4. ForwardTypes'
    BY <1>19 DEF IngReads, IngEnds
  <2>5. QED
    BY <2>1, <2>2, <2>3, <2>4
<1>20. ASSUME EgrReadsHead PROVE Types'
  <2>1. RequestTypes'
    BY <1>20, SayTypes DEF EgrReadsHead
  <2>2. ConnTypes'
    BY <1>20, SayTypes DEF EgrReadsHead
  <2>3. ServeTypes'
    BY <1>20, SayTypes DEF EgrReadsHead
  <2>4. ForwardTypes'
    BY <1>20, SayTypes DEF EgrReadsHead
  <2>5. QED
    BY <2>1, <2>2, <2>3, <2>4
<1>21. ASSUME EgrReadsBody PROVE Types'
  <2>1. RequestTypes'
    BY <1>21, SayTypes DEF EgrReadsBody
  <2>2. ConnTypes'
    BY <1>21, SayTypes DEF EgrReadsBody
  <2>3. ServeTypes'
    BY <1>21, SayTypes DEF EgrReadsBody
  <2>4. ForwardTypes'
    BY <1>21, SayTypes DEF EgrReadsBody
  <2>5. QED
    BY <2>1, <2>2, <2>3, <2>4
<1>22. ASSUME EgrReadFails PROVE Types'
  <2>1. RequestTypes'
    BY <1>22 DEF EgrReadFails, EgrEnds
  <2>2. ConnTypes'
    BY <1>22 DEF EgrReadFails, EgrEnds
  <2>3. ServeTypes'
    BY <1>22 DEF EgrReadFails, EgrEnds
  <2>4. ForwardTypes'
    BY <1>22 DEF EgrReadFails, EgrEnds
  <2>5. QED
    BY <2>1, <2>2, <2>3, <2>4
<1>23. ASSUME EgrFlushes PROVE Types'
  <2>1. RequestTypes'
    BY <1>23 DEF EgrFlushes, FeFlushes, AfterFlush, EgrEnds
  <2>2. ConnTypes'
    BY <1>23 DEF EgrFlushes, FeFlushes, AfterFlush, EgrEnds
  <2>3. ServeTypes'
    BY <1>23 DEF EgrFlushes, FeFlushes, AfterFlush, EgrEnds
  <2>4. ForwardTypes'
    BY <1>23 DEF EgrFlushes, FeFlushes, AfterFlush, EgrEnds
  <2>5. QED
    BY <2>1, <2>2, <2>3, <2>4
<1>24. ASSUME ClientSends PROVE Types'
  BY <1>24 DEF ClientSends, UnderWay
<1>25. ASSUME ServerSends PROVE Types'
  BY <1>25 DEF ServerSends, UnderWay
<1>26. ASSUME PeerLeavesOrStalls PROVE Types'
  BY <1>26 DEF PeerLeavesOrStalls, UnderWay, Worse
<1>27. ASSUME Expire PROVE Types'
  <2>1. RequestTypes'
    BY <1>27 DEF Expire
  <2>2. ConnTypes'
    BY <1>27 DEF Expire
  <2>3. ServeTypes'
    BY <1>27 DEF Expire
  <2>4. ForwardTypes'
    BY <1>27 DEF Expire
  <2>5. QED
    BY <2>1, <2>2, <2>3, <2>4
<1>28. CASE UNCHANGED vars
  BY <1>28 DEF vars
<1>29. QED
  BY <1>1, <1>2, <1>3, <1>4, <1>5, <1>6, <1>7, <1>8, <1>9, <1>10, <1>11,
     <1>12, <1>13, <1>14, <1>15, <1>16, <1>17, <1>18, <1>19, <1>20, <1>21,
     <1>22, <1>23, <1>24, <1>25, <1>26, <1>27, <1>28
  DEF Next, Frontend, Async, Backend, BackendAsync, Ingress, Egress, Outside

\* Who runs inside whom, and what went before.
LEMMA StagesStep == IInv /\ [Next]_vars => Stages'
<1> SUFFICES ASSUME IInv, [Next]_vars PROVE Stages'
  OBVIOUS
<1>0. Types /\ Stages /\ Heard /\ Closings
  BY DEF IInv
<1> USE <1>0 DEF Types, RequestTypes, ConnTypes, ServeTypes,
          ForwardTypes, Stages, Heard, Closings,
          reqVars, peerVars, feConnVars, beConnVars, ctxVars, asyVars,
          callVars, basyVars, ingVars, egrVars
<1>1. ASSUME FeSelects PROVE Stages'
  BY <1>1 DEF FeSelects
<1>2. ASSUME FeCloses PROVE Stages'
  BY <1>2 DEF FeCloses, FeFlushes
<1>3. ASSUME FeEnds PROVE Stages'
  BY <1>3 DEF FeEnds
<1>4. ASSUME ReadHeader PROVE Stages'
  BY <1>4 DEF ReadHeader, Refuse, Say
<1>5. ASSUME HeaderTimesOut PROVE Stages'
  BY <1>5 DEF HeaderTimesOut, Refuse, Say
<1>6. ASSUME Malformed PROVE Stages'
  BY <1>6 DEF Malformed, Refuse, Say
<1>7. ASSUME Route PROVE Stages'
  BY <1>7 DEF Route, Refuse, Say
<1>8. ASSUME Refused PROVE Stages'
  BY <1>8 DEF Refused, CallFailed, Say
<1>9. ASSUME Acquired PROVE Stages'
  BY <1>9 DEF Acquired, Forward
<1>10. ASSUME Finish PROVE Stages'
  BY <1>10 DEF Finish
<1>11. ASSUME BeSelects PROVE Stages'
  BY <1>11 DEF BeSelects
<1>12. ASSUME BeClosesFe PROVE Stages'
  BY <1>12 DEF BeClosesFe, FeFlushes
<1>13. ASSUME BeClosesBe PROVE Stages'
  BY <1>13 DEF BeClosesBe, BeFlushes
<1>14. ASSUME BeEnds PROVE Stages'
  BY <1>14 DEF BeEnds, CallFailed
<1>15. ASSUME IngressHeard PROVE Stages'
  BY <1>15 DEF IngressHeard
<1>16. ASSUME EgressHeard PROVE Stages'
  BY <1>16 DEF EgressHeard
<1>17. ASSUME IngPuts PROVE Stages'
  BY <1>17 DEF IngPuts
<1>18. ASSUME IngFlushes PROVE Stages'
  BY <1>18 DEF IngFlushes, BeFlushes, AfterHead, IngEnds
<1>19. ASSUME IngReads PROVE Stages'
  BY <1>19 DEF IngReads, IngEnds
<1>20. ASSUME EgrReadsHead PROVE Stages'
  BY <1>20 DEF EgrReadsHead, Say
<1>21. ASSUME EgrReadsBody PROVE Stages'
  BY <1>21 DEF EgrReadsBody, Say
<1>22. ASSUME EgrReadFails PROVE Stages'
  BY <1>22 DEF EgrReadFails, EgrEnds
<1>23. ASSUME EgrFlushes PROVE Stages'
  BY <1>23 DEF EgrFlushes, FeFlushes, AfterFlush, EgrEnds
<1>24. ASSUME ClientSends PROVE Stages'
  BY <1>24 DEF ClientSends, UnderWay
<1>25. ASSUME ServerSends PROVE Stages'
  BY <1>25 DEF ServerSends, UnderWay
<1>26. ASSUME PeerLeavesOrStalls PROVE Stages'
  BY <1>26 DEF PeerLeavesOrStalls, UnderWay, Worse
<1>27. ASSUME Expire PROVE Stages'
  BY <1>27 DEF Expire
<1>28. CASE UNCHANGED vars
  BY <1>28 DEF vars
<1>29. QED
  BY <1>1, <1>2, <1>3, <1>4, <1>5, <1>6, <1>7, <1>8, <1>9, <1>10, <1>11,
     <1>12, <1>13, <1>14, <1>15, <1>16, <1>17, <1>18, <1>19, <1>20, <1>21,
     <1>22, <1>23, <1>24, <1>25, <1>26, <1>27, <1>28
  DEF Next, Frontend, Async, Backend, BackendAsync, Ingress, Egress, Outside

\* Ends are heard once they have come, and do not change after that.
LEMMA HeardStep == IInv /\ [Next]_vars => Heard'
<1> SUFFICES ASSUME IInv, [Next]_vars PROVE Heard'
  OBVIOUS
<1>0. Types /\ Stages /\ Heard
  BY DEF IInv
<1> USE <1>0 DEF Types, RequestTypes, ConnTypes, ServeTypes,
          ForwardTypes, Stages, Heard,
          reqVars, peerVars, feConnVars, beConnVars, ctxVars, asyVars,
          callVars, basyVars, ingVars, egrVars
<1>1. ASSUME FeSelects PROVE Heard'
  BY <1>1 DEF FeSelects
<1>2. ASSUME FeCloses PROVE Heard'
  BY <1>2 DEF FeCloses, FeFlushes
<1>3. ASSUME FeEnds PROVE Heard'
  BY <1>3 DEF FeEnds
<1>4. ASSUME ReadHeader PROVE Heard'
  BY <1>4 DEF ReadHeader, Refuse, Say
<1>5. ASSUME HeaderTimesOut PROVE Heard'
  BY <1>5 DEF HeaderTimesOut, Refuse, Say
<1>6. ASSUME Malformed PROVE Heard'
  BY <1>6 DEF Malformed, Refuse, Say
<1>7. ASSUME Route PROVE Heard'
  BY <1>7 DEF Route, Refuse, Say
<1>8. ASSUME Refused PROVE Heard'
  BY <1>8 DEF Refused, CallFailed, Say
<1>9. ASSUME Acquired PROVE Heard'
  BY <1>9 DEF Acquired, Forward
<1>10. ASSUME Finish PROVE Heard'
  BY <1>10 DEF Finish
<1>11. ASSUME BeSelects PROVE Heard'
  BY <1>11 DEF BeSelects
<1>12. ASSUME BeClosesFe PROVE Heard'
  BY <1>12 DEF BeClosesFe, FeFlushes
<1>13. ASSUME BeClosesBe PROVE Heard'
  BY <1>13 DEF BeClosesBe, BeFlushes
<1>14. ASSUME BeEnds PROVE Heard'
  BY <1>14 DEF BeEnds, CallFailed
<1>15. ASSUME IngressHeard PROVE Heard'
  BY <1>15 DEF IngressHeard
<1>16. ASSUME EgressHeard PROVE Heard'
  BY <1>16 DEF EgressHeard
<1>17. ASSUME IngPuts PROVE Heard'
  BY <1>17 DEF IngPuts
<1>18. ASSUME IngFlushes PROVE Heard'
  BY <1>18 DEF IngFlushes, BeFlushes, AfterHead, IngEnds
<1>19. ASSUME IngReads PROVE Heard'
  BY <1>19 DEF IngReads, IngEnds
<1>20. ASSUME EgrReadsHead PROVE Heard'
  BY <1>20 DEF EgrReadsHead, Say
<1>21. ASSUME EgrReadsBody PROVE Heard'
  BY <1>21 DEF EgrReadsBody, Say
<1>22. ASSUME EgrReadFails PROVE Heard'
  BY <1>22 DEF EgrReadFails, EgrEnds
<1>23. ASSUME EgrFlushes PROVE Heard'
  BY <1>23 DEF EgrFlushes, FeFlushes, AfterFlush, EgrEnds
<1>24. ASSUME ClientSends PROVE Heard'
  BY <1>24 DEF ClientSends, UnderWay
<1>25. ASSUME ServerSends PROVE Heard'
  BY <1>25 DEF ServerSends, UnderWay
<1>26. ASSUME PeerLeavesOrStalls PROVE Heard'
  BY <1>26 DEF PeerLeavesOrStalls, UnderWay, Worse
<1>27. ASSUME Expire PROVE Heard'
  BY <1>27 DEF Expire
<1>28. CASE UNCHANGED vars
  BY <1>28 DEF vars
<1>29. QED
  BY <1>1, <1>2, <1>3, <1>4, <1>5, <1>6, <1>7, <1>8, <1>9, <1>10, <1>11,
     <1>12, <1>13, <1>14, <1>15, <1>16, <1>17, <1>18, <1>19, <1>20, <1>21,
     <1>22, <1>23, <1>24, <1>25, <1>26, <1>27, <1>28
  DEF Next, Frontend, Async, Backend, BackendAsync, Ingress, Egress, Outside

\* Connections are closed by the paths that end in an error.
LEMMA ClosingsStep == IInv /\ [Next]_vars => Closings'
<1> SUFFICES ASSUME IInv, [Next]_vars PROVE Closings'
  OBVIOUS
<1>0. Types /\ Stages /\ Closings
  BY DEF IInv
<1> USE <1>0 DEF Types, RequestTypes, ConnTypes, ServeTypes,
          ForwardTypes, Stages, Closings,
          reqVars, peerVars, feConnVars, beConnVars, ctxVars, asyVars,
          callVars, basyVars, ingVars, egrVars
<1>1. ASSUME FeSelects PROVE Closings'
  BY <1>1 DEF FeSelects
<1>2. ASSUME FeCloses PROVE Closings'
  BY <1>2 DEF FeCloses, FeFlushes
<1>3. ASSUME FeEnds PROVE Closings'
  BY <1>3 DEF FeEnds
<1>4. ASSUME ReadHeader PROVE Closings'
  BY <1>4 DEF ReadHeader, Refuse, Say
<1>5. ASSUME HeaderTimesOut PROVE Closings'
  BY <1>5 DEF HeaderTimesOut, Refuse, Say
<1>6. ASSUME Malformed PROVE Closings'
  BY <1>6 DEF Malformed, Refuse, Say
<1>7. ASSUME Route PROVE Closings'
  BY <1>7 DEF Route, Refuse, Say
<1>8. ASSUME Refused PROVE Closings'
  BY <1>8 DEF Refused, CallFailed, Say
<1>9. ASSUME Acquired PROVE Closings'
  BY <1>9 DEF Acquired, Forward
<1>10. ASSUME Finish PROVE Closings'
  BY <1>10 DEF Finish
<1>11. ASSUME BeSelects PROVE Closings'
  BY <1>11 DEF BeSelects
<1>12. ASSUME BeClosesFe PROVE Closings'
  BY <1>12 DEF BeClosesFe, FeFlushes
<1>13. ASSUME BeClosesBe PROVE Closings'
  BY <1>13 DEF BeClosesBe, BeFlushes
<1>14. ASSUME BeEnds PROVE Closings'
  BY <1>14 DEF BeEnds, CallFailed
<1>15. ASSUME IngressHeard PROVE Closings'
  BY <1>15 DEF IngressHeard
<1>16. ASSUME EgressHeard PROVE Closings'
  BY <1>16 DEF EgressHeard
<1>17. ASSUME IngPuts PROVE Closings'
  BY <1>17 DEF IngPuts
<1>18. ASSUME IngFlushes PROVE Closings'
  BY <1>18 DEF IngFlushes, BeFlushes, AfterHead, IngEnds
<1>19. ASSUME IngReads PROVE Closings'
  BY <1>19 DEF IngReads, IngEnds
<1>20. ASSUME EgrReadsHead PROVE Closings'
  BY <1>20 DEF EgrReadsHead, Say
<1>21. ASSUME EgrReadsBody PROVE Closings'
  BY <1>21 DEF EgrReadsBody, Say
<1>22. ASSUME EgrReadFails PROVE Closings'
  BY <1>22 DEF EgrReadFails, EgrEnds
<1>23. ASSUME EgrFlushes PROVE Closings'
  BY <1>23 DEF EgrFlushes, FeFlushes, AfterFlush, EgrEnds
<1>24. ASSUME ClientSends PROVE Closings'
  BY <1>24 DEF ClientSends, UnderWay
<1>25. ASSUME ServerSends PROVE Closings'
  BY <1>25 DEF ServerSends, UnderWay
<1>26. ASSUME PeerLeavesOrStalls PROVE Closings'
  BY <1>26 DEF PeerLeavesOrStalls, UnderWay, Worse
<1>27. ASSUME Expire PROVE Closings'
  BY <1>27 DEF Expire
<1>28. CASE UNCHANGED vars
  BY <1>28 DEF vars
<1>29. QED
  BY <1>1, <1>2, <1>3, <1>4, <1>5, <1>6, <1>7, <1>8, <1>9, <1>10, <1>11,
     <1>12, <1>13, <1>14, <1>15, <1>16, <1>17, <1>18, <1>19, <1>20, <1>21,
     <1>22, <1>23, <1>24, <1>25, <1>26, <1>27, <1>28
  DEF Next, Frontend, Async, Backend, BackendAsync, Ingress, Egress, Outside

\* What a good end of ingress or egress leaves behind.
LEMMA TransferredStep == IInv /\ [Next]_vars => Transferred'
<1> SUFFICES ASSUME IInv, [Next]_vars PROVE Transferred'
  OBVIOUS
<1>0. Types /\ Stages /\ Transferred
  BY DEF IInv
<1> USE <1>0 DEF Types, RequestTypes, ConnTypes, ServeTypes,
          ForwardTypes, Stages, Transferred,
          reqVars, peerVars, feConnVars, beConnVars, ctxVars, asyVars,
          callVars, basyVars, ingVars, egrVars
<1>1. ASSUME FeSelects PROVE Transferred'
  BY <1>1 DEF FeSelects
<1>2. ASSUME FeCloses PROVE Transferred'
  BY <1>2 DEF FeCloses, FeFlushes
<1>3. ASSUME FeEnds PROVE Transferred'
  BY <1>3 DEF FeEnds
<1>4. ASSUME ReadHeader PROVE Transferred'
  BY <1>4 DEF ReadHeader, Refuse, Say
<1>5. ASSUME HeaderTimesOut PROVE Transferred'
  BY <1>5 DEF HeaderTimesOut, Refuse, Say
<1>6. ASSUME Malformed PROVE Transferred'
  BY <1>6 DEF Malformed, Refuse, Say
<1>7. ASSUME Route PROVE Transferred'
  BY <1>7 DEF Route, Refuse, Say
<1>8. ASSUME Refused PROVE Transferred'
  BY <1>8 DEF Refused, CallFailed, Say
<1>9. ASSUME Acquired PROVE Transferred'
  BY <1>9 DEF Acquired, Forward
<1>10. ASSUME Finish PROVE Transferred'
  BY <1>10 DEF Finish
<1>11. ASSUME BeSelects PROVE Transferred'
  BY <1>11 DEF BeSelects
<1>12. ASSUME BeClosesFe PROVE Transferred'
  BY <1>12 DEF BeClosesFe, FeFlushes
<1>13. ASSUME BeClosesBe PROVE Transferred'
  BY <1>13 DEF BeClosesBe, BeFlushes
<1>14. ASSUME BeEnds PROVE Transferred'
  BY <1>14 DEF BeEnds, CallFailed
<1>15. ASSUME IngressHeard PROVE Transferred'
  BY <1>15 DEF IngressHeard
<1>16. ASSUME EgressHeard PROVE Transferred'
  BY <1>16 DEF EgressHeard
<1>17. ASSUME IngPuts PROVE Transferred'
  BY <1>17 DEF IngPuts
<1>18. ASSUME IngFlushes PROVE Transferred'
  BY <1>18, ShapeParts DEF IngFlushes, BeFlushes, AfterHead, IngEnds, ReqBodies
<1>19. ASSUME IngReads PROVE Transferred'
  BY <1>19 DEF IngReads, IngEnds
<1>20. ASSUME EgrReadsHead PROVE Transferred'
  BY <1>20 DEF EgrReadsHead, Say
<1>21. ASSUME EgrReadsBody PROVE Transferred'
  BY <1>21 DEF EgrReadsBody, Say
<1>22. ASSUME EgrReadFails PROVE Transferred'
  BY <1>22 DEF EgrReadFails, EgrEnds
<1>23. ASSUME EgrFlushes PROVE Transferred'
  BY <1>23 DEF EgrFlushes, FeFlushes, AfterFlush, EgrEnds
<1>24. ASSUME ClientSends PROVE Transferred'
  BY <1>24, ShapeParts DEF ClientSends, UnderWay, ReqBodies
<1>25. ASSUME ServerSends PROVE Transferred'
  BY <1>25 DEF ServerSends, UnderWay
<1>26. ASSUME PeerLeavesOrStalls PROVE Transferred'
  BY <1>26 DEF PeerLeavesOrStalls, UnderWay, Worse
<1>27. ASSUME Expire PROVE Transferred'
  BY <1>27 DEF Expire
<1>28. CASE UNCHANGED vars
  BY <1>28 DEF vars
<1>29. QED
  BY <1>1, <1>2, <1>3, <1>4, <1>5, <1>6, <1>7, <1>8, <1>9, <1>10, <1>11,
     <1>12, <1>13, <1>14, <1>15, <1>16, <1>17, <1>18, <1>19, <1>20, <1>21,
     <1>22, <1>23, <1>24, <1>25, <1>26, <1>27, <1>28
  DEF Next, Frontend, Async, Backend, BackendAsync, Ingress, Egress, Outside

\* The answer grows by the part whose turn it is.
LEMMA SaidSoFarStep == IInv /\ [Next]_vars => SaidSoFar'
<1> SUFFICES ASSUME IInv, [Next]_vars PROVE SaidSoFar'
  OBVIOUS
<1>0. Types /\ Stages /\ SaidSoFar
  BY DEF IInv
<1> USE <1>0 DEF Types, RequestTypes, ConnTypes, ServeTypes,
          ForwardTypes, Stages, SaidSoFar,
          reqVars, peerVars, feConnVars, beConnVars, ctxVars, asyVars,
          callVars, basyVars, ingVars, egrVars
<1>1. ASSUME FeSelects PROVE SaidSoFar'
  BY <1>1 DEF FeSelects
<1>2. ASSUME FeCloses PROVE SaidSoFar'
  BY <1>2 DEF FeCloses, FeFlushes
<1>3. ASSUME FeEnds PROVE SaidSoFar'
  BY <1>3 DEF FeEnds
<1>4. ASSUME ReadHeader PROVE SaidSoFar'
  BY <1>4 DEF ReadHeader, Refuse, Say
<1>5. ASSUME HeaderTimesOut PROVE SaidSoFar'
  BY <1>5 DEF HeaderTimesOut, Refuse, Say
<1>6. ASSUME Malformed PROVE SaidSoFar'
  BY <1>6 DEF Malformed, Refuse, Say
<1>7. ASSUME Route PROVE SaidSoFar'
  BY <1>7 DEF Route, Refuse, Say
<1>8. ASSUME Refused PROVE SaidSoFar'
  BY <1>8 DEF Refused, CallFailed, Say
<1>9. ASSUME Acquired PROVE SaidSoFar'
  BY <1>9 DEF Acquired, Forward, Heads, Bares, Bodies, Sayings
<1>10. ASSUME Finish PROVE SaidSoFar'
  BY <1>10 DEF Finish
<1>11. ASSUME BeSelects PROVE SaidSoFar'
  BY <1>11 DEF BeSelects
<1>12. ASSUME BeClosesFe PROVE SaidSoFar'
  BY <1>12 DEF BeClosesFe, FeFlushes
<1>13. ASSUME BeClosesBe PROVE SaidSoFar'
  BY <1>13 DEF BeClosesBe, BeFlushes
<1>14. ASSUME BeEnds PROVE SaidSoFar'
  BY <1>14 DEF BeEnds, CallFailed
<1>15. ASSUME IngressHeard PROVE SaidSoFar'
  BY <1>15 DEF IngressHeard
<1>16. ASSUME EgressHeard PROVE SaidSoFar'
  BY <1>16 DEF EgressHeard
<1>17. ASSUME IngPuts PROVE SaidSoFar'
  BY <1>17 DEF IngPuts
<1>18. ASSUME IngFlushes PROVE SaidSoFar'
  BY <1>18 DEF IngFlushes, BeFlushes, AfterHead, IngEnds
<1>19. ASSUME IngReads PROVE SaidSoFar'
  BY <1>19 DEF IngReads, IngEnds
<1>20. ASSUME EgrReadsHead PROVE SaidSoFar'
  BY <1>20, ShapeParts, OneMorePart DEF EgrReadsHead, Say, Heads, Bares,
     Bodies, Sayings, ResBodies
<1>21. ASSUME EgrReadsBody PROVE SaidSoFar'
  BY <1>21, OneMorePart DEF EgrReadsBody, Say, Heads, Bares, Bodies, Sayings
<1>22. ASSUME EgrReadFails PROVE SaidSoFar'
  BY <1>22 DEF EgrReadFails, EgrEnds
<1>23. ASSUME EgrFlushes PROVE SaidSoFar'
  <2> USE DEF Heads, Bares, Bodies, Sayings, ResBodies
  <2>1. CASE egr = "flushContinue"
    <3>1. said' = said /\ feOpen' = feOpen
      BY <1>23 DEF EgrFlushes
    <3>2. AfterFlush \/ EgrEnds(TRUE)
      BY <1>23 DEF EgrFlushes
    <3>3. AfterFlush => egr' = "head2"
      BY <2>1, Zenon DEF AfterFlush
    <3>4. egr' = "head2" \/ EgrEnds(TRUE)
      BY <3>2, <3>3
    <3>5. egr' = "head2" \/ (egr' = "end" /\ egrErr')
      BY <3>4 DEF EgrEnds
    <3>6. QED
      BY <2>1, <3>1, <3>5
  <2>2. CASE egr = "flushHead"
    BY <1>23, <2>2, ShapeParts DEF EgrFlushes, FeFlushes, AfterFlush, EgrEnds
  <2>3. CASE egr = "flushBody"
    BY <1>23, <2>3, ShapeParts DEF EgrFlushes, FeFlushes, AfterFlush, EgrEnds
  <2>4. CASE egr = "flushPart"
    <3>1. said' = said /\ feOpen' = feOpen
      BY <1>23 DEF EgrFlushes
    <3>2. AfterFlush \/ EgrEnds(TRUE)
      BY <1>23 DEF EgrFlushes
    <3>3. AfterFlush => EgrEnds(TRUE)
      BY <2>4, Zenon DEF AfterFlush
    <3>4. EgrEnds(TRUE)
      BY <3>2, <3>3
    <3>5. egr' = "end" /\ egrErr'
      BY <3>4 DEF EgrEnds
    <3>6. QED
      BY <2>4, <3>1, <3>5
  <2>5. QED
    BY <1>23, <2>1, <2>2, <2>3, <2>4 DEF EgrFlushes
<1>24. ASSUME ClientSends PROVE SaidSoFar'
  BY <1>24 DEF ClientSends, UnderWay
<1>25. ASSUME ServerSends PROVE SaidSoFar'
  BY <1>25 DEF ServerSends, UnderWay
<1>26. ASSUME PeerLeavesOrStalls PROVE SaidSoFar'
  BY <1>26 DEF PeerLeavesOrStalls, UnderWay, Worse
<1>27. ASSUME Expire PROVE SaidSoFar'
  BY <1>27 DEF Expire
<1>28. CASE UNCHANGED vars
  BY <1>28 DEF vars
<1>29. QED
  BY <1>1, <1>2, <1>3, <1>4, <1>5, <1>6, <1>7, <1>8, <1>9, <1>10, <1>11,
     <1>12, <1>13, <1>14, <1>15, <1>16, <1>17, <1>18, <1>19, <1>20, <1>21,
     <1>22, <1>23, <1>24, <1>25, <1>26, <1>27, <1>28
  DEF Next, Frontend, Async, Backend, BackendAsync, Ingress, Egress, Outside

\* Nothing has begun.
LEMMA InitIInv == Init => IInv
<1> SUFFICES ASSUME Init PROVE IInv
  OBVIOUS
<1> USE ShapesAreShapes DEF Init
<1>1. Types
  <2>1. RequestTypes
    BY DEF RequestTypes, Sides
  <2>2. ConnTypes
    <3>1. feOpen \in BOOLEAN /\ feBuf \in BOOLEAN
      OBVIOUS
    <3>2. beOpen \in BOOLEAN /\ beBuf \in BOOLEAN
      OBVIOUS
    <3>3. said \in Seq(Parts) /\ taken \subseteq {"main", "backup"}
      OBVIOUS
    <3>4. QED
      BY <3>1, <3>2, <3>3 DEF ConnTypes
  <2>3. ServeTypes
    BY DEF ServeTypes
  <2>4. ForwardTypes
    BY DEF ForwardTypes
  <2>5. QED
    BY <2>1, <2>2, <2>3, <2>4 DEF Types
<1>2. Stages
  BY DEF Stages
<1>3. Heard /\ Closings /\ Transferred
  BY DEF Heard, Closings, Transferred
<1>4. SaidSoFar
  BY DEF SaidSoFar
<1>5. QED
  BY <1>1, <1>2, <1>3, <1>4 DEF IInv

\* The inductive invariant: who runs when, what ends say about each other, how
\* far request and answer have got.
THEOREM IInvInvariant == Spec => []IInv
<1>1. IInv /\ [Next]_vars => IInv'
  BY TypesStep, StagesStep, HeardStep, ClosingsStep, TransferredStep,
     SaidSoFarStep DEF IInv
<1>2. QED
  BY InitIInv, <1>1, PTL DEF Spec

\* Types, and nobody runs without the one that has started it.
THEOREM TypeCorrect == Spec => []TypeOK
<1>1. IInv => TypeOK
  BY DEF IInv, Types, RequestTypes, ConnTypes, ServeTypes, ForwardTypes, Parts,
         Stages, TypeOK
<1>2. QED
  BY IInvInvariant, <1>1, PTL

\* A connection that is kept for the next request is clean.
THEOREM KeptIsClean == Spec => []KeptMeansClean
<1>1. IInv => KeptMeansClean
  <2> SUFFICES ASSUME IInv, fe = "kept" PROVE KeptMeansClean
    BY DEF KeptMeansClean
  <2>1. asy = "end" /\ ~asyErr /\ basy = "end" /\ ~basyErr /\ be = "idle"
    BY DEF IInv, Stages, Types, ServeTypes
  <2>2. ing = "end" /\ ~ingErr /\ egr = "end" /\ ~egrErr
    BY <2>1 DEF IInv, Heard
  <2>3. feOpen /\ beOpen
    BY <2>1, <2>2 DEF IInv, Closings
  <2>4. ~feBuf /\ ~beBuf /\ (shape.reqBody # "unsized" => client = "all")
    BY <2>2 DEF IInv, Transferred
  <2>5. QED
    BY <2>2, <2>3, <2>4 DEF KeptMeansClean
<1>2. QED
  BY IInvInvariant, <1>1, PTL

-----------------------------------------------------------------------------
(* After serve.                                                            *)

\* When serve has returned a connection all six goroutines have ended well.
LEMMA KeptHasEnded ==
  ASSUME IInv, fe = "kept"
  PROVE  /\ asy = "end" /\ be = "idle" /\ basy = "end"
         /\ ing = "end" /\ egr = "end"
<1>1. asy = "end" /\ ~asyErr /\ basy = "end" /\ ~basyErr /\ be = "idle"
  BY DEF IInv, Stages, Types, ServeTypes
<1>2. QED
  BY <1>1 DEF IInv, Heard

\* The next request on a connection has it to itself.
THEOREM NextHasItAlone == Spec => KeptIsLeftAlone
<1> DEFINE Alone ==
      UNCHANGED <<fe, feConnVars, beConnVars, asyVars, callVars, basyVars,
                  ingVars, egrVars>>
<1>1. IInv /\ [Next]_vars => [fe = "kept" => Alone]_vars
  <2> SUFFICES ASSUME IInv, Next, fe = "kept" PROVE Alone
    OBVIOUS
  <2>1. /\ asy = "end" /\ be = "idle" /\ basy = "end"
        /\ ing = "end" /\ egr = "end"
    BY KeptHasEnded
  <2>2. ~Frontend
    BY DEF Frontend, FeSelects, FeCloses, FeEnds
  <2>3. ~Async /\ ~HeaderTimesOut
    BY <2>1 DEF Async, ReadHeader, Malformed, Route, Refused, Acquired, Forward,
                Finish, HeaderTimesOut
  <2>4. ~Backend /\ ~BackendAsync
    BY <2>1 DEF Backend, BeSelects, BeClosesFe, BeClosesBe, BeEnds, BackendAsync,
                IngressHeard, EgressHeard
  <2>5. ~Ingress /\ ~Egress
    BY <2>1 DEF Ingress, IngPuts, IngFlushes, IngReads, Egress, EgrReadsHead,
                EgrReadsBody, EgrReadFails, EgrFlushes
  <2>6. ClientSends \/ ServerSends \/ PeerLeavesOrStalls \/ Expire
    BY <2>2, <2>3, <2>4, <2>5 DEF Next, Outside
  <2>7. QED
    BY <2>6 DEF ClientSends, ServerSends, PeerLeavesOrStalls, Expire
<1>2. QED
  BY <1>1, IInvInvariant, PTL DEF Spec, KeptIsLeftAlone

\* HTTPBackend.serve closes both connections before it gives up a request that
\* a backend has, so that none outlives serveAsync unless all has ended well.
CutOff ==
  /\ be \in {"flushBe", "await"} => ~feOpen
  /\ be = "await" => ~beOpen
  /\ asy = "end" /\ egr # "off" => (~feOpen /\ ~beOpen) \/ (basy = "end" /\ ~basyErr)

\* A goroutine that serve leaves behind, reading or writing, has only closed
\* connections to do it with.
LeftBehindIsCut ==
  asy = "end" /\ (ing \notin {"off", "end"} \/ egr \notin {"off", "end"}) =>
    ~feOpen /\ ~beOpen

\* What other modules take a request to be: HTTPFrontend a step that leaves the
\* connection open or closed (ServeReturns), BackendServer one that ends with
\* nobody at the connection and nothing in its buffer (FinishOk) or with the
\* connection closed (FinishErr).
EndsAsOthersSee ==
  /\ fe = "kept" => feOpen /\ ~feBuf
  /\ fe = "closed" => ~feOpen /\ be = "idle"
  /\ asy = "finish" => beOpen /\ ~beBuf /\ ing = "end" /\ egr = "end"
  /\ be = "await" => ~beOpen

LEMMA CutOffStep == IInv /\ CutOff /\ [Next]_vars => CutOff'
<1> SUFFICES ASSUME IInv, CutOff, [Next]_vars PROVE CutOff'
  OBVIOUS
<1> USE DEF CutOff, reqVars, peerVars, feConnVars, beConnVars, ctxVars, asyVars,
            callVars, basyVars, ingVars, egrVars, vars
<1>1. CASE Frontend
  BY <1>1 DEF Frontend, FeSelects, FeCloses, FeEnds
<1>2. CASE ReadHeader \/ HeaderTimesOut \/ Malformed
  <2>1. egr = "off" /\ be = "idle"
    BY <1>2 DEF ReadHeader, HeaderTimesOut, Malformed, IInv, Stages
  <2>2. egr' = egr /\ be' = be
    BY <1>2 DEF ReadHeader, HeaderTimesOut, Malformed
  <2>3. QED
    BY <2>1, <2>2
<1>3. CASE Route
  <2>1. egr = "off" /\ be = "idle" /\ egr' = egr /\ be' \in {"idle", "connect"}
    BY <1>3 DEF Route, IInv, Stages
  <2>2. QED
    BY <2>1
<1>4. CASE Refused
  <2>1. egr = "off" /\ egr' = egr /\ be' \in {"idle", "connect"}
    BY <1>4 DEF Refused, CallFailed, IInv, Stages
  <2>2. QED
    BY <2>1
<1>5. CASE Acquired
  <2>1. asy' = "call" /\ be' = "select"
    BY <1>5 DEF Acquired, Forward, IInv, Stages
  <2>2. QED
    BY <2>1
<1>6. CASE Finish
  <2>1. basy = "end" /\ ~basyErr
    BY <1>6 DEF Finish, IInv, Stages
  <2>2. UNCHANGED <<be, feOpen, beOpen, basy, basyErr>>
    BY <1>6 DEF Finish
  <2>3. QED
    BY <2>1, <2>2
<1>7. CASE BeSelects
  <2>1. asy' # "end" /\ be' \in {"flushFe", "idle"}
    BY <1>7 DEF BeSelects, IInv, Stages
  <2>2. QED
    BY <2>1
<1>8. CASE BeClosesFe \/ BeClosesBe
  <2>1. asy = "call"
    BY <1>8 DEF BeClosesFe, BeClosesBe, IInv, Stages
  <2>2. QED
    BY <1>8, <2>1 DEF BeClosesFe, BeClosesBe
<1>9. CASE BeEnds
  <2>1. final
    BY <1>9 DEF BeEnds, IInv, Stages
  <2>2. QED
    BY <1>9, <2>1 DEF BeEnds, CallFailed
<1>10. CASE BackendAsync
  <2>1. basy # "end" /\ UNCHANGED <<be, asy, egr, feOpen, beOpen>>
    <3>1. CASE IngressHeard
      BY <3>1 DEF IngressHeard
    <3>2. CASE EgressHeard
      BY <3>2 DEF EgressHeard
    <3>3. QED
      BY <1>10, <3>1, <3>2 DEF BackendAsync
  <2>2. QED
    BY <2>1
<1>11. CASE Ingress
  <2>1. UNCHANGED <<be, asy, egr, feOpen, beOpen, basy, basyErr>>
    BY <1>11 DEF Ingress, IngPuts, IngFlushes, IngReads, AfterHead, IngEnds
  <2>2. QED
    BY <2>1
<1>12. CASE Egress
  <2>1. egr # "off" /\ UNCHANGED <<be, asy, feOpen, beOpen, basy, basyErr>>
    BY <1>12 DEF Egress, EgrReadsHead, EgrReadsBody, EgrReadFails, EgrFlushes, Say
  <2>2. QED
    BY <2>1
<1>13. CASE ClientSends \/ ServerSends \/ PeerLeavesOrStalls \/ Expire
  BY <1>13 DEF ClientSends, ServerSends, PeerLeavesOrStalls, Expire
<1>14. CASE UNCHANGED vars
  BY <1>14
<1>15. QED
  BY <1>1, <1>2, <1>3, <1>4, <1>5, <1>6, <1>7, <1>8, <1>9, <1>10, <1>11, <1>12,
     <1>13, <1>14 DEF Next, Async, Backend, Outside

\* A serveAsync that is not waited for, at either level, is cut off.
LEMMA CutOffInvariant == Spec => []CutOff
<1>1. Init => CutOff
  BY DEF Init, CutOff
<1>2. QED
  BY <1>1, CutOffStep, IInvInvariant, PTL DEF Spec

\* What serve leaves behind can do nothing but notice that it is closed: the
\* part of NothingLeftBehind that is not about fairness.
THEOREM LeftBehindOnlyCut == Spec => []LeftBehindIsCut
<1>1. IInv /\ CutOff => LeftBehindIsCut
  BY DEF IInv, Stages, Heard, CutOff, LeftBehindIsCut
<1>2. QED
  BY <1>1, IInvInvariant, CutOffInvariant, PTL

\* One request is what the modules that use it take it for.
THEOREM RequestEndsAsSeen == Spec => []EndsAsOthersSee
<1>1. IInv /\ CutOff => EndsAsOthersSee
  <2> SUFFICES ASSUME IInv, CutOff PROVE EndsAsOthersSee
    OBVIOUS
  <2>1. fe = "kept" => feOpen /\ ~feBuf
    <3> SUFFICES ASSUME fe = "kept" PROVE feOpen /\ ~feBuf
      OBVIOUS
    <3>1. asy = "end" /\ ~asyErr /\ basy = "end" /\ ~basyErr /\ be = "idle"
      BY DEF IInv, Stages, Types, ServeTypes
    <3>2. QED
      BY <3>1 DEF IInv, Heard, Closings, Transferred
  <2>2. fe = "closed" => ~feOpen /\ be = "idle"
    BY DEF IInv, Stages, Closings
  <2>3. asy = "finish" => beOpen /\ ~beBuf /\ ing = "end" /\ egr = "end"
    BY DEF IInv, Stages, Heard, Closings, Transferred
  <2>4. QED
    BY <2>1, <2>2, <2>3 DEF CutOff, EndsAsOthersSee
<1>2. QED
  BY <1>1, IInvInvariant, CutOffInvariant, PTL

-----------------------------------------------------------------------------
(* Restrictions decide.                                                    *)

\* A request that is meant to be refused goes nowhere else; only such a request
\* is told that it is forbidden.
Decided ==
  /\ meant => asy = "end" /\ taken = {}
  /\ said = <<"forbidden">> => meant

\* A step that says nothing, finds no route and takes no backend.
LEMMA DecidedStays ==
  ASSUME Decided, UNCHANGED <<meant, said, taken>>, asy = "end" => asy' = "end"
  PROVE  Decided'
  BY DEF Decided

\* Before a backend has the request, nothing has been said of a route.
LEMMA DecidedAtPage ==
  ASSUME Decided, asy # "end", said = <<>>, UNCHANGED <<meant, taken>>,
         said' \in {said, Append(said, "page")}
  PROVE  Decided'
<1>1. said' = <<>> \/ said' = <<"page">>
  BY OneMorePart DEF Parts
<1>2. QED
  BY <1>1 DEF Decided

\* No list of restrictions ends in andafter.
TablesTidy == \A table \in Tables : TidyTable(table)

\* Every step keeps Decided.
LEMMA DecidedStep ==
  TablesTidy /\ IInv /\ IInv' /\ Decided /\ [Next]_vars => Decided'
<1> SUFFICES ASSUME TablesTidy, IInv, IInv', Decided, [Next]_vars PROVE Decided'
  OBVIOUS
<1>0. Types /\ Stages /\ SaidSoFar /\ Stages' /\ SaidSoFar'
  BY DEF IInv
<1> USE DEF reqVars, peerVars, feConnVars, beConnVars, ctxVars, asyVars,
          callVars, basyVars, ingVars, egrVars
<1>1. ASSUME ReadHeader \/ HeaderTimesOut \/ Malformed PROVE Decided'
  <2>1. said = <<>> /\ asy # "end"
    BY <1>0, <1>1 DEF Stages, ReadHeader, HeaderTimesOut, Malformed
  <2>2. UNCHANGED <<meant, taken>> /\ said' \in {said, Append(said, "page")}
    BY <1>1 DEF ReadHeader, HeaderTimesOut, Malformed, Refuse, Say
  <2>3. QED
    BY <2>1, <2>2, DecidedAtPage
<1>2. ASSUME Route PROVE Decided'
  <2>1. PICK table \in Tables :
          /\ meant' = MeantToRefuse(table)
          /\ IF findBackend(table) = "none"
               THEN Refuse("forbidden")
               ELSE asy' = "call" /\ UNCHANGED feConnVars
    BY <1>2 DEF Route
  <2>2. findBackend(table) = "none" <=> MeantToRefuse(table)
    BY TablesAreTables, RefusedAsMeant DEF TablesTidy
  <2>3. taken' = taken /\ taken = {} /\ said = <<>>
    BY <1>0, <1>2 DEF Route, Stages
  <2>4. CASE meant'
    BY <2>1, <2>2, <2>3, <2>4 DEF Refuse, Decided
  <2>5. CASE ~meant'
    BY <2>1, <2>2, <2>3, <2>5 DEF Decided
  <2>6. QED
    BY <2>4, <2>5
<1>3. ASSUME Refused PROVE Decided'
  <2>1. said = <<>> /\ asy = "call"
    BY <1>0, <1>3 DEF Stages, Refused
  <2>2. UNCHANGED <<meant, taken>> /\ said' \in {said, Append(said, "page")}
    BY <1>3 DEF Refused, Say
  <2>3. QED
    BY <2>1, <2>2, DecidedAtPage
<1>4. ASSUME Acquired PROVE Decided'
  <2>1. said = <<>> /\ asy = "call"
    BY <1>0, <1>4 DEF Stages, Acquired, Forward
  <2>2. UNCHANGED <<meant, said>>
    BY <1>4 DEF Acquired, Forward
  <2>3. QED
    BY <2>1, <2>2 DEF Decided
<1>5. ASSUME EgrReadsHead \/ EgrReadsBody PROVE Decided'
  <2>1. egr # "off" /\ egr' # "off" /\ UNCHANGED <<meant, taken>>
    BY <1>5 DEF EgrReadsHead, EgrReadsBody
  <2>2. ~meant
    BY <1>0, <2>1 DEF Stages, Decided
  <2>3. said' \in Sayings
    BY <1>0, <2>1 DEF SaidSoFar
  <2>4. said' # <<"forbidden">>
    BY <2>3 DEF Sayings, Heads, Bares, Bodies
  <2>5. QED
    BY <2>1, <2>2, <2>4 DEF Decided
<1>6. ASSUME FeSelects \/ FeCloses \/ FeEnds PROVE Decided'
  BY <1>6, DecidedStays DEF FeSelects, FeCloses, FeEnds
<1>7. ASSUME Finish \/ BeSelects \/ BeClosesFe \/ BeClosesBe PROVE Decided'
  BY <1>0, <1>7, DecidedStays DEF Finish, BeSelects, BeClosesFe, BeClosesBe, Stages
<1>8. ASSUME BeEnds PROVE Decided'
  BY <1>0, <1>8, DecidedStays DEF BeEnds, CallFailed, Stages
<1>9. ASSUME IngressHeard \/ EgressHeard PROVE Decided'
  BY <1>9, DecidedStays DEF IngressHeard, EgressHeard
<1>10. ASSUME IngPuts \/ IngFlushes \/ IngReads PROVE Decided'
  BY <1>10, DecidedStays DEF IngPuts, IngFlushes, IngReads
<1>11. ASSUME EgrReadFails \/ EgrFlushes PROVE Decided'
  BY <1>11, DecidedStays DEF EgrReadFails, EgrFlushes
<1>12. ASSUME ClientSends \/ ServerSends \/ PeerLeavesOrStalls \/ Expire
       PROVE  Decided'
  BY <1>12, DecidedStays DEF ClientSends, ServerSends, PeerLeavesOrStalls, Expire
<1>13. CASE UNCHANGED vars
  BY <1>13, DecidedStays DEF vars
<1>14. QED
  BY <1>1, <1>2, <1>3, <1>4, <1>5, <1>6, <1>7, <1>8, <1>9, <1>10, <1>11,
     <1>12, <1>13
  DEF Next, Frontend, Async, Backend, BackendAsync, Ingress, Egress, Outside

\* A request that a group of restrictions of its route refuses reaches no
\* backend, and only such requests, or those without a backend, are told that
\* they are forbidden: for all tables whose lists, of any length, do not end in
\* andafter.
THEOREM RestrictionsAlwaysDecide ==
  ASSUME TablesTidy
  PROVE  Spec => []RestrictionsDecide
<1>1. Init => Decided
  BY DEF Init, Decided
<1>2. Decided => RestrictionsDecide
  BY DEF Decided, RestrictionsDecide
<1>3. IInv /\ IInv' /\ Decided /\ [Next]_vars => Decided'
  BY DecidedStep
<1>4. QED
  BY IInvInvariant, <1>1, <1>2, <1>3, PTL DEF Spec

-----------------------------------------------------------------------------
(* The refinement.                                                         *)

\* The answers are named in two ways.
LEMMA PartsOfAnswers ==
  /\ Sayings = Promised!Answers
  /\ Bares \cup Bodies \subseteq Promised!Whole
<1>1. Sayings = Promised!Answers
  BY DEF Sayings, Heads, Bares, Bodies, Promised!Answers
<1>2. ASSUME NEW s \in Bares \cup Bodies PROVE s \in Promised!Whole
  <2>1. s \in Promised!Answers
    BY <1>1 DEF Sayings
  <2>2. s # <<>> /\ s[Len(s)] \in {"body", "bare"}
    <3>1. CASE s = <<"bare">>
      <4>1. Len(s) = 1 /\ s[1] = "bare" /\ s # <<>>
        BY <3>1
      <4>2. QED
        BY <4>1
    <3>2. CASE s \in {<<"continue", "bare">>, <<"head", "body">>}
      BY <3>2
    <3>3. CASE s = <<"continue", "head", "body">>
      BY <3>3
    <3>4. QED
      BY <3>1, <3>2, <3>3 DEF Bares, Bodies
  <2>3. QED
    BY <2>1, <2>2 DEF Promised!Whole
<1>3. QED
  BY <1>1, <1>2

\* A word of the answer is one that Exchange allows.
LEMMA RepliesAreAllowed ==
  ASSUME IInv, EgrReadsHead \/ EgrReadsBody
  PROVE  \/ UNCHANGED said
         \/ /\ feOpen /\ taken # {}
            /\ \E p \in {"continue", "head", "bare", "body"} :
                 said' = Append(said, p) /\ Append(said, p) \in Promised!Answers
<1> USE DEF Sayings, Heads, Bares, Bodies
<1>1. SaidSoFar' /\ taken # {} /\ taken' = taken /\ egr' # "off"
  BY SaidSoFarStep, StagesStep
     DEF Next, Egress, IInv, Stages, EgrReadsHead, EgrReadsBody, callVars
<1>2. said' \in Promised!Answers
  BY <1>1, PartsOfAnswers DEF SaidSoFar
<1>3. \/ said' = said
      \/ feOpen /\ \E p \in {"continue", "head", "bare", "body"} :
                     said' = Append(said, p)
  BY DEF EgrReadsHead, EgrReadsBody, Say
<1>4. QED
  BY <1>1, <1>2, <1>3

\* A page is written before anything else, by the last who could answer.
LEMMA PageIsFirst ==
  ASSUME IInv, NEW p \in {"page", "forbidden"}, Say(p),
         asy \in {"header", "route"} \/ be = "connect"
  PROVE  taken = {} /\ said = <<>> /\ (said' = said \/ said' = <<p>>)
<1>1. egr = "off" /\ said = <<>> /\ taken = {}
  BY DEF IInv, Stages
<1>2. Append(<<>>, p) = <<p>>
  BY OneMorePart DEF Parts
<1>3. QED
  BY <1>1, <1>2 DEF Say

\* What Exchange sees of serve.
verdictNow == IF fe \in {"kept", "closed"} THEN fe ELSE "pending"

\* Every step of serve is one of Exchange or none.
LEMMA NextRefines ==
  IInv /\ [Next]_vars => [Promised!ExchangeNext]_(Promised!exchangeVars)
<1> SUFFICES ASSUME IInv, [Next]_vars
             PROVE  Promised!ExchangeNext \/ UNCHANGED <<taken, said, verdictNow>>
  BY DEF Promised!exchangeVars, verdictNow
<1> USE DEF reqVars, peerVars, feConnVars, beConnVars, ctxVars, asyVars, callVars,
            basyVars, ingVars, egrVars
<1>1. asy # "end" => verdictNow = "pending"
  BY DEF IInv, Stages, verdictNow
<1>2. feOpen /\ egr # "end" => verdictNow = "pending"
  BY DEF IInv, Stages, Heard, Closings, verdictNow, Types, ServeTypes
<1>3. fe' = fe => verdictNow' = verdictNow
  BY DEF verdictNow
<1>4. CASE FeSelects
  <2>1. UNCHANGED <<taken, said>> /\ fe = "select"
    BY <1>4 DEF FeSelects
  <2>2. CASE fe' = "kept"
    <3>1. asy = "end" /\ ~asyErr
      BY <1>4, <2>2 DEF FeSelects
    <3>2. egr = "end" /\ ~egrErr
      BY <3>1 DEF IInv, Stages, Heard
    <3>3. feOpen
      BY <2>1, <3>1 DEF IInv, Closings, Stages
    <3>4. said \in Promised!Whole
      BY <3>2, <3>3, PartsOfAnswers DEF IInv, SaidSoFar
    <3>5. verdictNow = "pending" /\ verdictNow' = "kept"
      BY <2>1, <2>2 DEF verdictNow
    <3>6. Promised!Keep
      BY <2>1, <3>4, <3>5 DEF Promised!Keep, verdictNow
    <3>7. QED
      BY <3>6 DEF Promised!ExchangeNext
  <2>3. CASE fe' # "kept"
    BY <1>4, <2>1, <2>3 DEF FeSelects, verdictNow
  <2>4. QED
    BY <2>2, <2>3
<1>5. CASE FeEnds
  <2>1. Promised!Close
    BY <1>5 DEF FeEnds, Promised!Close
  <2>2. QED
    BY <2>1 DEF Promised!ExchangeNext
<1>6. CASE FeCloses
  BY <1>6 DEF FeCloses, verdictNow
<1>7. ASSUME NEW p \in {"page", "forbidden"}, Say(p), fe' = fe, taken' = taken,
             asy \in {"header", "route"} \/ be = "connect"
      PROVE  Promised!ExchangeNext \/ UNCHANGED <<taken, said, verdictNow>>
  <2>1. taken = {} /\ said = <<>> /\ (said' = said \/ said' = <<p>>)
    BY <1>7, PageIsFirst
  <2>2. verdictNow = "pending"
    BY <1>1, <1>7 DEF IInv, Stages
  <2>3. CASE said' = said
    BY <1>3, <1>7, <2>3
  <2>4. CASE said' = <<p>>
    <3>1. Promised!Refuse
      BY <1>3, <1>7, <2>1, <2>2, <2>4 DEF Promised!Refuse, verdictNow
    <3>2. QED
      BY <3>1 DEF Promised!ExchangeNext
  <2>5. QED
    BY <2>1, <2>3, <2>4
<1>8. CASE ReadHeader \/ HeaderTimesOut \/ Malformed
  <2>1. fe' = fe /\ taken' = taken /\ (said' = said \/ Say("page"))
    BY <1>8 DEF ReadHeader, HeaderTimesOut, Malformed, Refuse
  <2>2. asy \in {"header", "route"}
    BY <1>8 DEF ReadHeader, HeaderTimesOut, Malformed
  <2>3. QED
    BY <1>3, <1>7, <2>1, <2>2
<1>9. CASE Route
  <2>1. fe' = fe /\ taken' = taken /\ (said' = said \/ Say("forbidden"))
    BY <1>9 DEF Route, Refuse
  <2>2. asy \in {"header", "route"}
    BY <1>9 DEF Route
  <2>3. QED
    BY <1>3, <1>7, <2>1, <2>2
<1>10. CASE Refused
  <2>1. fe' = fe /\ taken' = taken /\ (said' = said \/ Say("page")) /\ be = "connect"
    BY <1>10 DEF Refused
  <2>2. QED
    BY <1>3, <1>7, <2>1
<1>11. CASE Acquired
  <2>1. taken = {} /\ said = <<>> /\ verdictNow = "pending"
    BY <1>1, <1>11 DEF Acquired, Forward, IInv, Stages
  <2>2. which \in {"main", "backup"}
    BY DEF IInv, Types, ServeTypes
  <2>3. Promised!Take(which)
    BY <1>3, <1>11, <2>1 DEF Acquired, Forward, Promised!Take, verdictNow
  <2>4. QED
    BY <2>2, <2>3 DEF Promised!ExchangeNext
<1>12. CASE EgrReadsHead \/ EgrReadsBody
  <2>1. fe' = fe /\ taken' = taken /\ egr # "end"
    BY <1>12 DEF EgrReadsHead, EgrReadsBody
  <2>2. CASE said' = said
    BY <1>3, <2>1, <2>2
  <2>3. CASE said' # said
    <3>1. PICK p \in {"continue", "head", "bare", "body"} :
            /\ feOpen /\ taken # {}
            /\ said' = Append(said, p) /\ Append(said, p) \in Promised!Answers
      BY <1>12, <2>3, RepliesAreAllowed
    <3>2. Promised!Reply(p)
      BY <1>2, <1>3, <2>1, <3>1 DEF Promised!Reply, verdictNow
    <3>3. QED
      BY <3>2 DEF Promised!ExchangeNext
  <2>4. QED
    BY <2>2, <2>3
<1>13. CASE \/ Finish \/ Backend \/ BackendAsync \/ Ingress
            \/ EgrReadFails \/ EgrFlushes
            \/ ClientSends \/ ServerSends \/ PeerLeavesOrStalls \/ Expire
  <2>1. fe' = fe /\ taken' = taken /\ said' = said
    BY <1>13 DEF Finish, Backend, BackendAsync, Ingress, EgrReadFails, EgrFlushes,
       ClientSends, ServerSends, PeerLeavesOrStalls, Expire, BeSelects, BeClosesFe,
       BeClosesBe, BeEnds, IngressHeard, EgressHeard, IngPuts, IngFlushes, IngReads
  <2>2. QED
    BY <1>3, <2>1
<1>14. CASE UNCHANGED vars
  BY <1>3, <1>14 DEF vars
<1>15. QED
  BY <1>4, <1>5, <1>6, <1>8, <1>9, <1>10, <1>11, <1>12, <1>13, <1>14
     DEF Next, Frontend, Async, Egress, Outside

\* serve implements Exchange: a request is refused with one page or forwarded
\* once, answered in order, and its connection kept after a whole answer only.
THEOREM ServeImplementsExchange == Spec => ImplementsExchange
<1>1. Init => Promised!ExchangeInit
  BY DEF Init, Promised!ExchangeInit
<1>2. QED
  BY <1>1, IInvInvariant, NextRefines, PTL
     DEF Spec, ImplementsExchange, Promised!ExchangeSpec

-----------------------------------------------------------------------------
(* What follows for a client and the backends.                             *)

\* A request goes to one backend at most.  Its client is told either one page
\* of this program, when no backend has it, or what that one backend answers,
\* and keeps its connection after a whole answer only.
OneAnswer ==
  /\ taken \in {{}, {"main"}, {"backup"}}
  /\ taken = {} => said \in {<<>>, <<"page">>, <<"forbidden">>}
  /\ taken # {} => said \in Promised!Answers
  /\ fe = "kept" => taken # {} /\ said \in Promised!Whole

\* Exchange alone gives it.
LEMMA OneAnswerStep ==
  OneAnswer /\ [Promised!ExchangeNext]_(Promised!exchangeVars) => OneAnswer'
<1> SUFFICES ASSUME OneAnswer,
                    Promised!ExchangeNext \/ UNCHANGED Promised!exchangeVars
             PROVE  OneAnswer'
  OBVIOUS
<1>1. ASSUME NEW b \in {"main", "backup"}, Promised!Take(b) PROVE OneAnswer'
  <2>1. <<>> \in Promised!Answers
    BY DEF Promised!Answers
  <2>2. taken' = {b} /\ said' = <<>> /\ fe' # "kept"
    BY <1>1 DEF Promised!Take
  <2>3. QED
    BY <2>1, <2>2 DEF OneAnswer
<1>2. CASE Promised!Refuse
  <2>1. taken' = {} /\ said' \in {<<"page">>, <<"forbidden">>} /\ fe' # "kept"
    BY <1>2 DEF Promised!Refuse
  <2>2. QED
    BY <2>1 DEF OneAnswer
<1>3. CASE Promised!Keep
  <2>1. said \in Promised!Whole /\ taken' = taken /\ said' = said
    BY <1>3 DEF Promised!Keep
  <2>2. taken # {}
    <3>1. \A s \in Promised!Whole : s # <<>> /\ s[Len(s)] \in {"body", "bare"}
      BY DEF Promised!Whole
    <3>2. said # <<"page">> /\ said # <<"forbidden">> /\ said # <<>>
      BY <2>1, <3>1
    <3>3. QED
      BY <3>2 DEF OneAnswer
  <2>3. QED
    BY <2>1, <2>2 DEF OneAnswer
<1>4. CASE Promised!Close
  <2>1. taken' = taken /\ said' = said /\ fe' # "kept"
    BY <1>4 DEF Promised!Close
  <2>2. QED
    BY <2>1 DEF OneAnswer
<1>5. ASSUME NEW part \in {"continue", "head", "bare", "body"}, Promised!Reply(part)
      PROVE  OneAnswer'
  <2>1. /\ taken # {} /\ taken' = taken
        /\ said' \in Promised!Answers /\ fe' # "kept"
    BY <1>5 DEF Promised!Reply
  <2>2. QED
    BY <2>1 DEF OneAnswer
<1>6. CASE UNCHANGED Promised!exchangeVars
  <2>1. taken' = taken /\ said' = said /\ (fe' = "kept" => fe = "kept")
    BY <1>6 DEF Promised!exchangeVars
  <2>2. QED
    BY <2>1 DEF OneAnswer
<1>7. QED
  BY <1>1, <1>2, <1>3, <1>4, <1>5, <1>6 DEF Promised!ExchangeNext

\* Every request has one answer, for all shapes and tables.
THEOREM EveryRequestHasOneAnswer == Spec => []OneAnswer
<1>1. Init => OneAnswer
  BY DEF Init, OneAnswer
<1>2. IInv /\ [Next]_vars => [Promised!ExchangeNext]_(Promised!exchangeVars)
  BY NextRefines
<1>3. QED
  BY <1>1, <1>2, OneAnswerStep, IInvInvariant, PTL DEF Spec

=============================================================================

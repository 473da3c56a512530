-------------------------- MODULE RouteRestriction --------------------------
(***************************************************************************)
(* Which backend a request gets: HTTPFrontend.findBackend and              *)
(* isRouteRestricted (pkg/lb/httpfrontend.go), for a request whose host,   *)
(* path and address are fixed.  A pattern or a network is what it says of  *)
(* that request.                                                           *)
(***************************************************************************)
EXTENDS Naturals, Sequences

\* A restriction: the network is not given, contains the address of the client
\* or does not; the path is not given, matches or does not.
Restriction == [network : {"none", "inside", "outside"},
                path : {"none", "match", "other"},
                invert : BOOLEAN, andAfter : BOOLEAN]

\* restrictionOK: either of the two conditions that are given, each inverted
\* when the restriction is.
RestrictionOK(r) ==
  \/ r.network # "none" /\ (r.network = "inside") # r.invert
  \/ r.path # "none" /\ (r.path = "match") # r.invert

\* Mutant: andOK is not set again after a restriction that ends a group.
NextRestrictionStays(acc, r) ==
  CASE acc.restricted -> acc
    [] ~acc.restricted /\ r.andAfter ->
         [acc EXCEPT !.andOK = @ /\ RestrictionOK(r)]
    [] OTHER -> [acc EXCEPT !.restricted = acc.andOK /\ RestrictionOK(r)]

\* The body of the loop.
NextRestriction(acc, r) ==
  CASE acc.restricted -> acc
    [] ~acc.restricted /\ r.andAfter ->
         [acc EXCEPT !.andOK = @ /\ RestrictionOK(r)]
    [] OTHER -> [andOK |-> TRUE, restricted |-> acc.andOK /\ RestrictionOK(r)]

\* What the loop knows after n restrictions.
Loop(restrictions) ==
  LET acc[n \in 0..Len(restrictions)] ==
        IF n = 0 THEN [andOK |-> TRUE, restricted |-> FALSE]
                 ELSE NextRestriction(acc[n - 1], restrictions[n])
  IN acc

isRouteRestricted(restrictions) ==
  Loop(restrictions)[Len(restrictions)].restricted

\* A table has routes and a default; a route has whether its host and path
\* match, restrictions and a backend.  A backend that is not given is "none".
RouteBackend == {"none", "backend"}
RoutingTable ==
  [routes : Seq([matches : BOOLEAN, restrictions : Seq(Restriction),
                 backend : RouteBackend]),
   default : RouteBackend]

Matching(table) == {i \in 1..Len(table.routes) : table.routes[i].matches}

\* The first route that matches decides.
findBackend(table) ==
  LET Decides == table.routes[CHOOSE i \in Matching(table) :
                                \A j \in Matching(table) : i <= j]
  IN CASE Matching(table) = {} -> table.default
       [] Matching(table) # {} /\ isRouteRestricted(Decides.restrictions) -> "none"
       [] OTHER -> Decides.backend

-----------------------------------------------------------------------------

\* What a list of restrictions means: each is joined to the next one by AND or
\* by OR, those joined by AND form a group, and a route is restricted when all
\* of some group are met.  The last one has no next: its group ends with it.
IsGroup(list, i, j) ==
  /\ i = 1 \/ ~list[i - 1].andAfter
  /\ \A k \in i..(j - 1) : list[k].andAfter
  /\ j = Len(list) \/ ~list[j].andAfter

SomeGroupMet(list) ==
  \E i \in 1..Len(list), j \in 1..Len(list) :
    /\ i <= j /\ IsGroup(list, i, j)
    /\ \A k \in i..j : RestrictionOK(list[k])

\* The loop decides about a group at a restriction without andafter, so that a
\* last group without one is never decided about.
Tidy(list) == list # <<>> => ~list[Len(list)].andAfter

TidyTable(table) ==
  \A i \in 1..Len(table.routes) : Tidy(table.routes[i].restrictions)

\* The first route that matches has restrictions that refuse the request, or no
\* backend; or none matches and there is no default.
MeantToRefuse(table) ==
  \/ \E i \in Matching(table) :
       /\ \A j \in 1..(i - 1) : ~table.routes[j].matches
       /\ \/ SomeGroupMet(table.routes[i].restrictions)
          \/ table.routes[i].backend = "none"
  \/ Matching(table) = {} /\ table.default = "none"

=============================================================================

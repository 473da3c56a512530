---------------------------- MODULE ReloadProofs ----------------------------
(***************************************************************************)
(* Proofs about Reload for every set of Apps, servers and addresses.  The  *)
(* flag of an object says no more than "shared", so that it can stand for  *)
(* a count rests on who can own anything at all: only the running App and  *)
(* the one that is being made.  IInv says so, says what each phase has     *)
(* left to do, and which Frontend the accepters serve with meanwhile.      *)
(***************************************************************************)
EXTENDS Reload, TLAPS

\* cur or nxt has something in the phases that need it.
PhaseInv ==
  /\ phase \in {"close", "terminate"} => cur # NoApp
  /\ phase \in {"forkListeners", "activate"} => todoS = {}

ServerInv ==
  /\ \A a \in App : a # cur /\ a # nxt => \A s \in Server : bss[a][s] = 0
  /\ \A x \in ServerObj :
       x \in bsShared <=> /\ cur \in App /\ nxt \in App
                          /\ bss[cur][x[1]] = x[2] /\ bss[nxt][x[1]] = x[2]
  /\ \A x \in ServerObj : x \in up <=> \E a \in App : bss[a][x[1]] = x[2]
  /\ phase = "forkBackends" => \A s \in todoS : bss[nxt][s] = 0
  /\ phase \in ClosePhases => todoS = ServersOf(Victim)

ListenerInv ==
  /\ \A a \in App : a # cur /\ a # nxt => \A l \in Address : accr[a][l] = 0
  /\ \A x \in Accepter :
       x \in ahShared <=> /\ cur \in App /\ nxt \in App
                          /\ accr[cur][x[1]] = x[2] /\ accr[nxt][x[1]] = x[2]
  /\ \A x \in Accepter : x \in accepting <=> \E a \in App : accr[a][x[1]] = x[2]
  /\ phase \in {"forkBackends", "forkListeners"} =>
       \A l \in todoL : accr[nxt][l] = 0
  /\ phase = "activate" => todoL \subseteq AddressesOf(nxt)
  /\ phase \in ClosePhases => todoL = AddressesOf(Victim)

\* An accepter of the new App whose turn of Activate has come.
Given(l) ==
  /\ \/ phase = "close"
     \/ phase = "activate" /\ l \notin todoL
  /\ accr[nxt][l] # 0

FrontendInv ==
  /\ cur \in App =>
       \A l \in AddressesOf(cur) :
         \/ fe[<<l, accr[cur][l]>>] = cur
         \/ Given(l) /\ accr[nxt][l] = accr[cur][l]
  /\ \A l \in Address : Given(l) => fe[<<l, accr[nxt][l]>>] = nxt

IInv == TypeOK /\ PhaseInv /\ ServerInv /\ ListenerInv /\ FrontendInv

-----------------------------------------------------------------------------

\* Nothing is loaded at first.
LEMMA IInvInit == Init => IInv
<1> SUFFICES ASSUME Init PROVE IInv
    OBVIOUS
<1>1. TypeOK
  BY NoAppIsNil DEF Init, TypeOK, Phases, Copy, ServerObj, Accepter
<1>2. PhaseInv
  BY DEF Init, PhaseInv
<1>3. ServerInv
  BY NoAppIsNil DEF Init, ServerInv, ClosePhases, ServerObj, Copy
<1>4. ListenerInv
  BY NoAppIsNil DEF Init, ListenerInv, ClosePhases, Accepter, Copy
<1>5. FrontendInv
  BY NoAppIsNil DEF Init, FrontendInv, Given
<1> QED
  BY <1>1, <1>2, <1>3, <1>4, <1>5 DEF IInv

\* Every step of a reload keeps the types and the order of the phases.
LEMMA TypesStep == TypeOK /\ PhaseInv /\ [Next]_vars => TypeOK' /\ PhaseInv'
<1> SUFFICES ASSUME TypeOK, PhaseInv, [Next]_vars PROVE TypeOK' /\ PhaseInv'
    OBVIOUS
<1> USE NoAppIsNil DEF TypeOK, PhaseInv, Phases, serverVars, listenerVars
<1>1. CASE StartReload
  BY <1>1 DEF StartReload, ServersOf, AddressesOf
<1>2. CASE BackendsForked
  BY <1>2 DEF BackendsForked, ServersOf, AddressesOf
<1>3. CASE ForkFails
  BY <1>3 DEF ForkFails, ServersOf, AddressesOf
<1>4. CASE ListenersForked
  BY <1>4 DEF ListenersForked, ServersOf, AddressesOf
<1>5. CASE Activated
  BY <1>5 DEF Activated, ServersOf, AddressesOf
<1>6. CASE Terminate
  BY <1>6 DEF Terminate, ServersOf, AddressesOf
<1>7. CASE Closed
  BY <1>7 DEF Closed, ServersOf, AddressesOf, ClosePhases
<1>8. ASSUME NEW s \in Server, ForkServer(s) PROVE TypeOK' /\ PhaseInv'
  <2>1. PICK w \in Weight :
               /\ want' = [want EXCEPT ![nxt][s] = w]
               /\ ShareServer(s) \/ \E k \in Copy : MakeServer(s, k, w)
    BY <1>8 DEF ForkServer
  <2>2. CASE ShareServer(s)
    BY <1>8, <2>1, <2>2 DEF ForkServer, ShareServer, OldServer, ServerObj
  <2>3. ASSUME NEW k \in Copy, MakeServer(s, k, w) PROVE TypeOK' /\ PhaseInv'
    BY <1>8, <2>1, <2>3 DEF ForkServer, MakeServer, ServerObj
  <2> QED
    BY <2>1, <2>2, <2>3
<1>9. ASSUME NEW s \in Server, CloseServer(s) PROVE TypeOK' /\ PhaseInv'
  BY <1>9 DEF CloseServer, ServerObj, Accepter, Copy, ClosePhases, Victim, OldServer, OldAccepter
<1>10. ASSUME NEW l \in Address, ForkListener(l) PROVE TypeOK' /\ PhaseInv'
  <2>1. CASE ShareAccepter(l)
    BY <1>10, <2>1 DEF ForkListener, ShareAccepter, OldAccepter, Accepter
  <2>2. ASSUME NEW k \in Copy, Listen(l, k) PROVE TypeOK' /\ PhaseInv'
    BY <1>10, <2>2 DEF ForkListener, Listen, Accepter
  <2> QED
    BY <1>10, <2>1, <2>2 DEF ForkListener
<1>11. ASSUME NEW l \in Address, ActivateListener(l) PROVE TypeOK' /\ PhaseInv'
  BY <1>11 DEF ActivateListener, ServerObj, Accepter, Copy, ClosePhases, Victim, OldServer, OldAccepter
<1>12. ASSUME NEW l \in Address, CloseListener(l) PROVE TypeOK' /\ PhaseInv'
  BY <1>12 DEF CloseListener, ServerObj, Accepter, Copy, ClosePhases, Victim, OldServer, OldAccepter
<1>13. CASE UNCHANGED vars
  BY <1>13 DEF vars
<1> QED
  BY <1>1, <1>2, <1>3, <1>4, <1>5, <1>6, <1>7, <1>8, <1>9, <1>10, <1>11, <1>12, <1>13 DEF Next

\* Servers: whoever forks, fails, is rolled back or closed, they stay with the
\* running and the new App.
LEMMA ServersStep ==
  TypeOK /\ PhaseInv /\ ServerInv /\ [Next]_vars => ServerInv'
<1> SUFFICES ASSUME TypeOK, PhaseInv, ServerInv, [Next]_vars PROVE ServerInv'
    OBVIOUS
<1> USE NoAppIsNil DEF TypeOK, PhaseInv, ServerInv, ClosePhases, ServersOf
<1>1. CASE StartReload
  <2>1. UNCHANGED serverVars /\ phase = "idle" /\ phase' = "forkBackends" /\ cur' = cur
        /\ nxt = NoApp /\ nxt' \in App \ {cur} /\ todoS' \subseteq Server
    BY <1>1 DEF StartReload
  <2>2. \A s \in Server : bss[nxt'][s] = 0
    BY <2>1
  <2>3. \A x \in ServerObj : x \notin bsShared /\ bss[nxt'][x[1]] # x[2]
    BY <2>1, <2>2 DEF ServerObj, Copy
  <2> QED
    BY <2>1, <2>2, <2>3 DEF serverVars
<1>2. CASE BackendsForked
  BY <1>2 DEF BackendsForked, Victim, serverVars
<1>3. CASE ForkFails
  BY <1>3 DEF ForkFails, Victim, serverVars
<1>4. CASE ListenersForked
  BY <1>4 DEF ListenersForked, Victim, serverVars
<1>5. CASE Activated
  BY <1>5 DEF Activated, Victim, serverVars
<1>6. CASE Terminate
  BY <1>6 DEF Terminate, Victim, serverVars
<1>7. CASE Closed
  <2>1. /\ UNCHANGED serverVars /\ phase' \in {"idle", "down"} /\ nxt' = NoApp
        /\ phase \in ClosePhases /\ \A s \in Server : bss[Victim][s] = 0
    BY <1>7 DEF Closed
  <2>2. CASE phase = "close"
    BY <1>7, <2>1, <2>2 DEF Closed, Victim, serverVars, ServerObj, Copy
  <2>3. CASE phase = "rollback"
    BY <1>7, <2>1, <2>3 DEF Closed, Victim, serverVars, ServerObj, Copy
  <2>4. CASE phase = "terminate"
    BY <1>7, <2>1, <2>4 DEF Closed, Victim, serverVars, ServerObj, Copy
  <2> QED
    BY <2>1, <2>2, <2>3, <2>4
<1>8. ASSUME NEW s \in Server, ForkServer(s) PROVE ServerInv'
  <2>1. PICK w \in Weight : ShareServer(s) \/ \E k \in Copy : MakeServer(s, k, w)
    BY <1>8 DEF ForkServer
  <2>2. CASE ShareServer(s)
    BY <1>8, <2>2 DEF ForkServer, ShareServer, OldServer, ServerObj, Copy
  <2>3. ASSUME NEW k \in Copy, MakeServer(s, k, w) PROVE ServerInv'
    BY <1>8, <2>3 DEF ForkServer, MakeServer, OldServer, ServerObj, Copy
  <2> QED
    BY <2>1, <2>2, <2>3
<1>9. ASSUME NEW s \in Server, CloseServer(s) PROVE ServerInv'
  BY <1>9 DEF CloseServer, Victim, ServerObj, Copy
<1>10. CASE \E l \in Address : ForkListener(l) \/ ActivateListener(l) \/ CloseListener(l)
  <2>1. UNCHANGED <<phase, cur, nxt, todoS, serverVars>>
    BY <1>10 DEF ForkListener, ActivateListener, CloseListener
  <2> QED
    BY <2>1 DEF Victim, serverVars
<1>11. CASE UNCHANGED vars
  BY <1>11 DEF vars, Victim, serverVars
<1> QED
  BY <1>1, <1>2, <1>3, <1>4, <1>5, <1>6, <1>7, <1>8, <1>9, <1>10, <1>11 DEF Next

\* Listeners: the same of accepters, which a reload activates in between.
LEMMA ListenersStep ==
  TypeOK /\ PhaseInv /\ ListenerInv /\ [Next]_vars => ListenerInv'
<1> SUFFICES ASSUME TypeOK, PhaseInv, ListenerInv, [Next]_vars PROVE ListenerInv'
    OBVIOUS
<1> USE NoAppIsNil DEF TypeOK, PhaseInv, ListenerInv, ClosePhases, AddressesOf
<1>1. CASE StartReload
  <2>1. UNCHANGED listenerVars /\ phase = "idle" /\ phase' = "forkBackends" /\ cur' = cur
        /\ nxt = NoApp /\ nxt' \in App \ {cur} /\ todoL' \subseteq Address
    BY <1>1 DEF StartReload
  <2>2. \A l \in Address : accr[nxt'][l] = 0
    BY <2>1
  <2>3. \A x \in Accepter : x \notin ahShared /\ accr[nxt'][x[1]] # x[2]
    BY <2>1, <2>2 DEF Accepter, Copy
  <2> QED
    BY <2>1, <2>2, <2>3 DEF listenerVars
<1>2. CASE BackendsForked
  BY <1>2 DEF BackendsForked, Victim, listenerVars
<1>3. CASE ForkFails
  BY <1>3 DEF ForkFails, Victim, listenerVars
<1>4. CASE ListenersForked
  BY <1>4 DEF ListenersForked, Victim, listenerVars
<1>5. CASE Activated
  BY <1>5 DEF Activated, Victim, listenerVars
<1>6. CASE Terminate
  BY <1>6 DEF Terminate, Victim, listenerVars
<1>7. CASE Closed
  <2>1. /\ UNCHANGED listenerVars /\ phase' \in {"idle", "down"} /\ nxt' = NoApp
        /\ phase \in ClosePhases /\ \A l \in Address : accr[Victim][l] = 0
    BY <1>7 DEF Closed
  <2>2. cur' = (IF phase = "close" THEN nxt ELSE IF phase = "rollback" THEN cur ELSE NoApp)
    BY <1>7 DEF Closed
  <2>3. \A a \in App : a # cur' => \A l \in Address : accr[a][l] = 0
    BY <2>1, <2>2 DEF Victim
  <2>4. \A x \in Accepter : ~(x \in ahShared)
    BY <2>1, <2>2 DEF Victim, Accepter, Copy
  <2> QED
    BY <2>1, <2>3, <2>4 DEF listenerVars
<1>8. ASSUME NEW l \in Address, ForkListener(l) PROVE ListenerInv'
  <2>1. CASE ShareAccepter(l)
    BY <1>8, <2>1 DEF ForkListener, ShareAccepter, OldAccepter, Accepter, Copy
  <2>2. ASSUME NEW k \in Copy, Listen(l, k) PROVE ListenerInv'
    BY <1>8, <2>2 DEF ForkListener, Listen, OldAccepter, Accepter, Copy
  <2> QED
    BY <1>8, <2>1, <2>2 DEF ForkListener
<1>9. ASSUME NEW l \in Address, ActivateListener(l) PROVE ListenerInv'
  BY <1>9 DEF ActivateListener
<1>10. ASSUME NEW l \in Address, CloseListener(l) PROVE ListenerInv'
  BY <1>10 DEF CloseListener, Victim, Accepter, Copy
<1>11. CASE \E s \in Server : ForkServer(s) \/ CloseServer(s)
  <2>1. UNCHANGED <<phase, cur, nxt, todoL, listenerVars>>
    BY <1>11 DEF ForkServer, CloseServer
  <2> QED
    BY <2>1 DEF Victim, listenerVars
<1>12. CASE UNCHANGED vars
  BY <1>12 DEF vars, Victim, listenerVars
<1> QED
  BY <1>1, <1>2, <1>3, <1>4, <1>5, <1>6, <1>7, <1>8, <1>9, <1>10, <1>11, <1>12 DEF Next

\* Accepters serve with the running Frontend until the new App is activated.
LEMMA FrontendsStep ==
  TypeOK /\ PhaseInv /\ ListenerInv /\ FrontendInv /\ [Next]_vars => FrontendInv'
<1> SUFFICES ASSUME TypeOK, PhaseInv, ListenerInv, FrontendInv, [Next]_vars
             PROVE FrontendInv'
    OBVIOUS
<1> USE NoAppIsNil DEF TypeOK, PhaseInv, FrontendInv, Given, AddressesOf
<1>1. CASE StartReload
  BY <1>1 DEF StartReload, listenerVars
<1>2. CASE BackendsForked
  BY <1>2 DEF BackendsForked, listenerVars
<1>3. CASE ForkFails
  BY <1>3 DEF ForkFails, listenerVars
<1>4. CASE ListenersForked
  BY <1>4 DEF ListenersForked, listenerVars, ListenerInv
<1>5. CASE Activated
  BY <1>5 DEF Activated, listenerVars, ListenerInv
<1>6. CASE Terminate
  BY <1>6 DEF Terminate, listenerVars
<1>7. CASE Closed
  <2>1. /\ UNCHANGED listenerVars /\ phase' \in {"idle", "down"}
        /\ \/ cur' = cur
           \/ cur' = nxt /\ phase = "close"
           \/ cur' = NoApp
    BY <1>7 DEF Closed, ClosePhases
  <2> QED
    BY <1>7, <2>1 DEF listenerVars, ListenerInv, Closed, ClosePhases
<1>8. ASSUME NEW l \in Address, ForkListener(l) PROVE FrontendInv'
  <2>1. CASE ShareAccepter(l)
    BY <1>8, <2>1 DEF ForkListener, ShareAccepter
  <2>2. ASSUME NEW k \in Copy, Listen(l, k) PROVE FrontendInv'
    BY <1>8, <2>2 DEF ForkListener, Listen, ListenerInv, Accepter, Copy
  <2> QED
    BY <1>8, <2>1, <2>2 DEF ForkListener
<1>9. ASSUME NEW l \in Address, ActivateListener(l) PROVE FrontendInv'
  BY <1>9 DEF ActivateListener, ListenerInv, Accepter, Copy
<1>10. ASSUME NEW l \in Address, CloseListener(l) PROVE FrontendInv'
  BY <1>10 DEF CloseListener, Victim, ClosePhases, ListenerInv, Accepter, Copy
<1>11. CASE \E s \in Server : ForkServer(s) \/ CloseServer(s)
  <2>1. UNCHANGED <<phase, cur, nxt, todoL, listenerVars>>
    BY <1>11 DEF ForkServer, CloseServer
  <2> QED
    BY <2>1 DEF listenerVars
<1>12. CASE UNCHANGED vars
  BY <1>12 DEF vars, listenerVars
<1> QED
  BY <1>1, <1>2, <1>3, <1>4, <1>5, <1>6, <1>7, <1>8, <1>9, <1>10, <1>11, <1>12 DEF Next

\* All of it together, for every sequence of reloads.
THEOREM IInvInvariant == Spec => []IInv
<1>1. IInv /\ [Next]_vars => IInv'
  BY TypesStep, ServersStep, ListenersStep, FrontendsStep DEF IInv
<1> QED
  BY IInvInit, <1>1, PTL DEF Spec

-----------------------------------------------------------------------------

\* No phase of a reload leaves the state main and App.Fork believe it to be in.
THEOREM TypeCorrect == Spec => []TypeOK
<1>1. IInv => TypeOK
  BY DEF IInv
<1> QED
  BY <1>1, IInvInvariant, PTL

\* The one flag of a server or listener is as good as a count of its owners,
\* after any sequence of reloads, failed ones included.
THEOREM FlagsAreExact == Spec => []FlagsExact
<1>1. IInv => FlagsExact
  <2> SUFFICES ASSUME IInv PROVE FlagsExact
      OBVIOUS
  <2>1. ASSUME NEW x \in ServerObj
        PROVE x \in bsShared <=> \E a, b \in ServerOwners(x) : a # b
    <3>1. x[1] \in Server /\ x[2] # 0
      BY <2>1 DEF ServerObj, Copy
    <3>2. ASSUME NEW a \in ServerOwners(x) PROVE a \in {cur, nxt}
      BY <3>1, <3>2 DEF IInv, ServerInv, ServerOwners
    <3>3. ASSUME x \in bsShared PROVE cur \in ServerOwners(x) /\ nxt \in ServerOwners(x) /\ cur # nxt
      BY <2>1, <3>3, NoAppIsNil DEF IInv, TypeOK, ServerInv, ServerOwners
    <3>4. ASSUME NEW a \in ServerOwners(x), NEW b \in ServerOwners(x), a # b PROVE x \in bsShared
      BY <2>1, <3>2, <3>4 DEF IInv, ServerInv, ServerOwners
    <3> QED
      BY <3>3, <3>4
  <2>2. ASSUME NEW x \in Accepter
        PROVE x \in ahShared <=> \E a, b \in AccepterOwners(x) : a # b
    <3>1. x[1] \in Address /\ x[2] # 0
      BY <2>2 DEF Accepter, Copy
    <3>2. ASSUME NEW a \in AccepterOwners(x) PROVE a \in {cur, nxt}
      BY <3>1, <3>2 DEF IInv, ListenerInv, AccepterOwners
    <3>3. ASSUME x \in ahShared PROVE cur \in AccepterOwners(x) /\ nxt \in AccepterOwners(x) /\ cur # nxt
      BY <2>2, <3>3, NoAppIsNil DEF IInv, TypeOK, ListenerInv, AccepterOwners
    <3>4. ASSUME NEW a \in AccepterOwners(x), NEW b \in AccepterOwners(x), a # b PROVE x \in ahShared
      BY <2>2, <3>2, <3>4 DEF IInv, ListenerInv, AccepterOwners
    <3> QED
      BY <3>3, <3>4
  <2> QED
    BY <2>1, <2>2 DEF FlagsExact
<1> QED
  BY <1>1, IInvInvariant, PTL

\* Closing an App closes what nobody else has, and nothing else.
THEOREM OpenWhileOwned == Spec => []OpenIffOwned
<1>1. IInv => OpenIffOwned
  BY DEF IInv, ServerInv, ListenerInv, OpenIffOwned, ServerOwners, AccepterOwners
<1> QED
  BY <1>1, IInvInvariant, PTL

\* A listener that survives a reload serves with a Frontend all the time, and
\* a reload that fails is never seen by a connection.
THEOREM ServedThroughReloads == Spec => []AlwaysServed
<1>1. IInv => AlwaysServed
  BY DEF IInv, TypeOK, FrontendInv, Given, AlwaysServed, AddressesOf
<1> QED
  BY <1>1, IInvInvariant, PTL

\* Between reloads the running App is the only owner.
THEOREM RestIsClean == Spec => []CleanAtRest
<1>1. IInv => CleanAtRest
  <2> SUFFICES ASSUME IInv, phase \in {"idle", "down"} PROVE CleanAtRest
      BY DEF CleanAtRest
  <2>1. nxt = NoApp
    BY DEF IInv, TypeOK
  <2>2. \A a \in App \ {cur} : ServersOf(a) = {} /\ AddressesOf(a) = {}
    BY <2>1, NoAppIsNil DEF IInv, ServerInv, ListenerInv, ServersOf, AddressesOf
  <2>3. bsShared = {} /\ ahShared = {}
    BY <2>1, NoAppIsNil DEF IInv, TypeOK, ServerInv, ListenerInv
  <2>4. ASSUME NEW x \in accepting PROVE fe[x] = cur
    <3>1. PICK l \in Address, k \in Copy : x = <<l, k>>
      BY DEF IInv, TypeOK, Accepter
    <3>2. PICK a \in App : accr[a][l] = k
      BY <3>1 DEF IInv, ListenerInv, Accepter
    <3>3. a = cur
      BY <2>2, <3>2 DEF AddressesOf, Copy
    <3> QED
      BY <3>1, <3>2, <3>3 DEF Copy, IInv, FrontendInv, Given, AddressesOf
  <2> QED
    BY <2>2, <2>3, <2>4 DEF CleanAtRest
<1> QED
  BY <1>1, IInvInvariant, PTL

-----------------------------------------------------------------------------
(* Reference counting.                                                     *)

\* What an App gets or gives up, as a change of the owners of one server.
LEMMA ServerOwn ==
  ASSUME TypeOK, NEW a \in App, NEW s \in Server, NEW k \in Copy \cup {0},
         bss' = [bss EXCEPT ![a][s] = k]
  PROVE  \A x \in ServerObj :
           ServerOwners(x)' = IF x = <<s, k>> THEN ServerOwners(x) \cup {a}
                      ELSE IF x[1] = s THEN ServerOwners(x) \ {a} ELSE ServerOwners(x)
<1> SUFFICES ASSUME NEW x \in ServerObj
             PROVE ServerOwners(x)' = IF x = <<s, k>> THEN ServerOwners(x) \cup {a}
                              ELSE IF x[1] = s THEN ServerOwners(x) \ {a} ELSE ServerOwners(x)
    OBVIOUS
<1>1. x[1] \in Server /\ x[2] \in Copy /\ x = <<x[1], x[2]>>
  BY DEF ServerObj
<1>2. \A b \in App : bss'[b][x[1]] = IF b = a /\ x[1] = s THEN k ELSE bss[b][x[1]]
  BY <1>1 DEF TypeOK
<1>3. \A b \in App : b \in ServerOwners(x)' <=> bss'[b][x[1]] = x[2]
  BY DEF ServerOwners
<1>4. \A b \in App : b \in ServerOwners(x) <=> bss[b][x[1]] = x[2]
  BY DEF ServerOwners
<1>5. ServerOwners(x) \subseteq App /\ ServerOwners(x)' \subseteq App
  BY DEF ServerOwners
<1>6. x = <<s, k>> <=> x[1] = s /\ x[2] = k
  BY <1>1
<1>7. CASE x[1] = s /\ x[2] = k
  <2>1. \A b \in App : b \in ServerOwners(x)' <=> b = a \/ b \in ServerOwners(x)
    BY <1>2, <1>3, <1>4, <1>7
  <2> QED
    BY <1>5, <1>6, <1>7, <2>1
<1>8. CASE x[1] = s /\ x[2] # k
  <2>1. \A b \in App : b \in ServerOwners(x)' <=> b # a /\ b \in ServerOwners(x)
    BY <1>2, <1>3, <1>4, <1>8
  <2> QED
    BY <1>5, <1>6, <1>8, <2>1
<1>9. CASE x[1] # s
  <2>1. \A b \in App : b \in ServerOwners(x)' <=> b \in ServerOwners(x)
    BY <1>2, <1>3, <1>4, <1>9
  <2> QED
    BY <1>5, <1>6, <1>9, <2>1
<1> QED
  BY <1>7, <1>8, <1>9

\* Each step on servers is one of the reference count, or none.
LEMMA ServerCount ==
  IInv /\ [Next]_vars => [Servers!RefNext]_(Servers!refVars)
<1> DEFINE owners == [x \in ServerObj |-> ServerOwners(x)]
<1> USE DEF Servers!refVars, Servers!RefNext
<1> SUFFICES ASSUME IInv, [Next]_vars
             PROVE \/ \E x \in ServerObj, a \in App :
                        \/ Servers!Create(x, a) \/ Servers!Share(x, a)
                        \/ Servers!Release(x, a)
                   \/ owners' = owners /\ up' = up
    OBVIOUS
<1>1. ASSUME NEW s \in Server, ForkServer(s)
      PROVE \E x \in ServerObj : Servers!Create(x, nxt) \/ Servers!Share(x, nxt)
  <2>1. nxt \in App /\ bss[nxt][s] = 0
    BY <1>1 DEF IInv, TypeOK, ServerInv, ForkServer
  <2>2. CASE ShareServer(s)
    <3> DEFINE x == <<s, OldServer(s)>>
    <3>1. x \in ServerObj /\ cur \in App /\ bss[cur][s] = OldServer(s) /\ OldServer(s) \in Copy
      BY <2>2, NoAppIsNil DEF IInv, TypeOK, ShareServer, OldServer, ServerObj
    <3>2. \A y \in ServerObj : ServerOwners(y)' = IF y = x THEN ServerOwners(y) \cup {nxt}
                      ELSE IF y[1] = s THEN ServerOwners(y) \ {nxt} ELSE ServerOwners(y)
      BY <2>1, <2>2, <3>1, ServerOwn DEF IInv, ShareServer
    <3>3. \A y \in ServerObj : y[1] = s => nxt \notin ServerOwners(y)
      BY <2>1 DEF ServerOwners, ServerObj, Copy
    <3>4. owners' = [owners EXCEPT ![x] = @ \cup {nxt}]
      BY <3>1, <3>2, <3>3
    <3>5. x \in up /\ nxt \notin owners[x]
      BY <3>1, <3>3 DEF IInv, ServerInv
    <3> QED
      BY <2>2, <3>1, <3>4, <3>5 DEF Servers!Share, ShareServer
  <2>3. ASSUME NEW w \in Weight, NEW k \in Copy, MakeServer(s, k, w)
        PROVE \E x \in ServerObj : Servers!Create(x, nxt)
    <3> DEFINE x == <<s, k>>
    <3>1. x \in ServerObj
      BY DEF ServerObj
    <3>2. \A y \in ServerObj : ServerOwners(y)' = IF y = x THEN ServerOwners(y) \cup {nxt}
                      ELSE IF y[1] = s THEN ServerOwners(y) \ {nxt} ELSE ServerOwners(y)
      BY <2>1, <2>3, ServerOwn DEF IInv, MakeServer
    <3>3. \A y \in ServerObj : y[1] = s => nxt \notin ServerOwners(y)
      BY <2>1 DEF ServerOwners, ServerObj, Copy
    <3>4. x \notin up /\ ServerOwners(x) = {}
      BY <2>3, <3>1 DEF IInv, ServerInv, MakeServer, ServerOwners
    <3>5. owners' = [owners EXCEPT ![x] = {nxt}]
      BY <3>1, <3>2, <3>3, <3>4
    <3> QED
      BY <2>3, <3>1, <3>4, <3>5 DEF Servers!Create, MakeServer
  <2> QED
    BY <1>1, <2>2, <2>3 DEF ForkServer
<1>2. ASSUME NEW s \in Server, CloseServer(s)
      PROVE \E x \in ServerObj : Servers!Release(x, Victim)
  <2> DEFINE x == <<s, bss[Victim][s]>>
  <2>1. /\ Victim \in App /\ cur \in App \cup {NoApp} /\ nxt \in App \cup {NoApp}
        /\ bss[Victim][s] # 0 /\ cur # nxt
    BY <1>2, NoAppIsNil
    DEF IInv, TypeOK, PhaseInv, ServerInv, CloseServer, Victim, ClosePhases, ServersOf
  <2>2. x \in ServerObj /\ x[1] = s /\ x[2] # 0
    BY <2>1 DEF IInv, TypeOK, ServerObj, Copy
  <2>3. \A y \in ServerObj : ServerOwners(y)' = IF y[1] = s THEN ServerOwners(y) \ {Victim} ELSE ServerOwners(y)
    <3>1. bss' = [bss EXCEPT ![Victim][s] = 0]
      BY <1>2 DEF CloseServer
    <3>2. \A y \in ServerObj : y # <<s, 0>>
      BY DEF ServerObj, Copy
    <3> QED
      BY <2>1, <3>1, <3>2, ServerOwn DEF IInv
  <2>4. \A y \in ServerObj : y[1] = s /\ y # x => Victim \notin ServerOwners(y)
    BY <2>1, <2>2 DEF ServerOwners, ServerObj
  <2>5. owners' = [owners EXCEPT ![x] = @ \ {Victim}] /\ Victim \in owners[x]
    BY <2>1, <2>2, <2>3, <2>4 DEF ServerOwners
  <2>6. \A a \in owners[x] : a \in {cur, nxt}
    BY <2>2 DEF IInv, ServerInv, ServerOwners, ServerObj
  <2>7. x \in bsShared <=> owners[x] # {Victim}
    <3>1. x \in bsShared <=> cur \in owners[x] /\ nxt \in owners[x]
      BY <2>2 DEF IInv, ServerInv, ServerOwners, ServerObj
    <3> QED
      BY <2>1, <2>5, <2>6, <3>1 DEF Victim
  <2>8. up' = IF x \in bsShared THEN up ELSE up \ {x}
    BY <1>2 DEF CloseServer
  <2> QED
    BY <2>2, <2>5, <2>7, <2>8 DEF Servers!Release
<1>3. CASE UNCHANGED <<bss, up>>
  BY <1>3 DEF ServerOwners
<1>4. ASSUME NEW s \in Server PROVE CloseServer(s) => Victim \in App
  BY NoAppIsNil DEF IInv, TypeOK, PhaseInv, CloseServer, Victim, ClosePhases
<1>5. ASSUME NEW s \in Server PROVE ForkServer(s) => nxt \in App
  BY NoAppIsNil DEF IInv, TypeOK, ForkServer
<1>6. \/ \E s \in Server : ForkServer(s) \/ CloseServer(s)
      \/ UNCHANGED <<bss, up>>
  BY DEF Next, vars, serverVars, listenerVars, StartReload, BackendsForked, ForkFails,
         ListenersForked, Activated, Terminate, Closed, ActivateListener,
         ForkListener, CloseListener
<1> QED
  BY <1>1, <1>2, <1>3, <1>4, <1>5, <1>6

\* SetShared at fork and at close implements a reference count of servers.
THEOREM ServersAreCounted == Spec => ServersCounted
<1>1. Init => Servers!RefInit
  <2> SUFFICES ASSUME Init PROVE [x \in ServerObj |-> ServerOwners(x)] = [x \in ServerObj |-> {}] /\ up = {}
      BY DEF Servers!RefInit
  <2> QED
    BY DEF Init, ServerOwners, ServerObj, Copy
<1> QED
  BY <1>1, IInvInvariant, ServerCount, PTL DEF Spec, ServersCounted, Servers!RefSpec

\* What an App gets or gives up, as a change of the owners of one accepter.
LEMMA ListenerOwn ==
  ASSUME TypeOK, NEW a \in App, NEW l \in Address, NEW k \in Copy \cup {0},
         accr' = [accr EXCEPT ![a][l] = k]
  PROVE  \A x \in Accepter :
           AccepterOwners(x)' = IF x = <<l, k>> THEN AccepterOwners(x) \cup {a}
                      ELSE IF x[1] = l THEN AccepterOwners(x) \ {a} ELSE AccepterOwners(x)
<1> SUFFICES ASSUME NEW x \in Accepter
             PROVE AccepterOwners(x)' = IF x = <<l, k>> THEN AccepterOwners(x) \cup {a}
                              ELSE IF x[1] = l THEN AccepterOwners(x) \ {a} ELSE AccepterOwners(x)
    OBVIOUS
<1>1. x[1] \in Address /\ x[2] \in Copy /\ x = <<x[1], x[2]>>
  BY DEF Accepter
<1>2. \A b \in App : accr'[b][x[1]] = IF b = a /\ x[1] = l THEN k ELSE accr[b][x[1]]
  BY <1>1 DEF TypeOK
<1>3. \A b \in App : b \in AccepterOwners(x)' <=> accr'[b][x[1]] = x[2]
  BY DEF AccepterOwners
<1>4. \A b \in App : b \in AccepterOwners(x) <=> accr[b][x[1]] = x[2]
  BY DEF AccepterOwners
<1>5. AccepterOwners(x) \subseteq App /\ AccepterOwners(x)' \subseteq App
  BY DEF AccepterOwners
<1>6. x = <<l, k>> <=> x[1] = l /\ x[2] = k
  BY <1>1
<1>7. CASE x[1] = l /\ x[2] = k
  <2>1. \A b \in App : b \in AccepterOwners(x)' <=> b = a \/ b \in AccepterOwners(x)
    BY <1>2, <1>3, <1>4, <1>7
  <2> QED
    BY <1>5, <1>6, <1>7, <2>1
<1>8. CASE x[1] = l /\ x[2] # k
  <2>1. \A b \in App : b \in AccepterOwners(x)' <=> b # a /\ b \in AccepterOwners(x)
    BY <1>2, <1>3, <1>4, <1>8
  <2> QED
    BY <1>5, <1>6, <1>8, <2>1
<1>9. CASE x[1] # l
  <2>1. \A b \in App : b \in AccepterOwners(x)' <=> b \in AccepterOwners(x)
    BY <1>2, <1>3, <1>4, <1>9
  <2> QED
    BY <1>5, <1>6, <1>9, <2>1
<1> QED
  BY <1>7, <1>8, <1>9

\* Each step on accepters is one of the reference count, or none.
LEMMA ListenerCount ==
  IInv /\ [Next]_vars => [Listeners!RefNext]_(Listeners!refVars)
<1> DEFINE owners == [x \in Accepter |-> AccepterOwners(x)]
<1> USE DEF Listeners!refVars, Listeners!RefNext
<1> SUFFICES ASSUME IInv, [Next]_vars
             PROVE \/ \E x \in Accepter, a \in App :
                        \/ Listeners!Create(x, a) \/ Listeners!Share(x, a)
                        \/ Listeners!Release(x, a)
                   \/ owners' = owners /\ accepting' = accepting
    OBVIOUS
<1>1. ASSUME NEW l \in Address, ForkListener(l)
      PROVE \E x \in Accepter : Listeners!Create(x, nxt) \/ Listeners!Share(x, nxt)
  <2>1. nxt \in App /\ accr[nxt][l] = 0
    BY <1>1 DEF IInv, TypeOK, ListenerInv, ForkListener
  <2>2. CASE ShareAccepter(l)
    <3> DEFINE x == <<l, OldAccepter(l)>>
    <3>1. x \in Accepter /\ cur \in App /\ accr[cur][l] = OldAccepter(l) /\ OldAccepter(l) \in Copy
      BY <2>2, NoAppIsNil DEF IInv, TypeOK, ShareAccepter, OldAccepter, Accepter
    <3>2. \A y \in Accepter : AccepterOwners(y)' = IF y = x THEN AccepterOwners(y) \cup {nxt}
                      ELSE IF y[1] = l THEN AccepterOwners(y) \ {nxt} ELSE AccepterOwners(y)
      BY <2>1, <2>2, <3>1, ListenerOwn DEF IInv, ShareAccepter
    <3>3. \A y \in Accepter : y[1] = l => nxt \notin AccepterOwners(y)
      BY <2>1 DEF AccepterOwners, Accepter, Copy
    <3>4. owners' = [owners EXCEPT ![x] = @ \cup {nxt}]
      BY <3>1, <3>2, <3>3
    <3>5. x \in accepting /\ nxt \notin owners[x]
      BY <3>1, <3>3 DEF IInv, ListenerInv
    <3> QED
      BY <2>2, <3>1, <3>4, <3>5 DEF Listeners!Share, ShareAccepter
  <2>3. ASSUME NEW k \in Copy, Listen(l, k)
        PROVE \E x \in Accepter : Listeners!Create(x, nxt)
    <3> DEFINE x == <<l, k>>
    <3>1. x \in Accepter
      BY DEF Accepter
    <3>2. \A y \in Accepter : AccepterOwners(y)' = IF y = x THEN AccepterOwners(y) \cup {nxt}
                      ELSE IF y[1] = l THEN AccepterOwners(y) \ {nxt} ELSE AccepterOwners(y)
      BY <2>1, <2>3, ListenerOwn DEF IInv, Listen
    <3>3. \A y \in Accepter : y[1] = l => nxt \notin AccepterOwners(y)
      BY <2>1 DEF AccepterOwners, Accepter, Copy
    <3>4. x \notin accepting /\ AccepterOwners(x) = {}
      BY <2>3, <3>1 DEF IInv, ListenerInv, Listen, AccepterOwners
    <3>5. owners' = [owners EXCEPT ![x] = {nxt}]
      BY <3>1, <3>2, <3>3, <3>4
    <3> QED
      BY <2>3, <3>1, <3>4, <3>5 DEF Listeners!Create, Listen
  <2> QED
    BY <1>1, <2>2, <2>3 DEF ForkListener
<1>2. ASSUME NEW l \in Address, CloseListener(l)
      PROVE \E x \in Accepter : Listeners!Release(x, Victim)
  <2> DEFINE x == <<l, accr[Victim][l]>>
  <2>1. /\ Victim \in App /\ cur \in App \cup {NoApp} /\ nxt \in App \cup {NoApp}
        /\ accr[Victim][l] # 0 /\ cur # nxt
    BY <1>2, NoAppIsNil
    DEF IInv, TypeOK, PhaseInv, ListenerInv, CloseListener, Victim, ClosePhases, AddressesOf
  <2>2. x \in Accepter /\ x[1] = l /\ x[2] # 0
    BY <2>1 DEF IInv, TypeOK, Accepter, Copy
  <2>3. \A y \in Accepter : AccepterOwners(y)' = IF y[1] = l THEN AccepterOwners(y) \ {Victim} ELSE AccepterOwners(y)
    <3>1. accr' = [accr EXCEPT ![Victim][l] = 0]
      BY <1>2 DEF CloseListener
    <3>2. \A y \in Accepter : y # <<l, 0>>
      BY DEF Accepter, Copy
    <3> QED
      BY <2>1, <3>1, <3>2, ListenerOwn DEF IInv
  <2>4. \A y \in Accepter : y[1] = l /\ y # x => Victim \notin AccepterOwners(y)
    BY <2>1, <2>2 DEF AccepterOwners, Accepter
  <2>5. owners' = [owners EXCEPT ![x] = @ \ {Victim}] /\ Victim \in owners[x]
    BY <2>1, <2>2, <2>3, <2>4 DEF AccepterOwners
  <2>6. \A a \in owners[x] : a \in {cur, nxt}
    BY <2>2 DEF IInv, ListenerInv, AccepterOwners, Accepter
  <2>7. x \in ahShared <=> owners[x] # {Victim}
    <3>1. x \in ahShared <=> cur \in owners[x] /\ nxt \in owners[x]
      BY <2>2 DEF IInv, ListenerInv, AccepterOwners, Accepter
    <3> QED
      BY <2>1, <2>5, <2>6, <3>1 DEF Victim
  <2>8. accepting' = IF x \in ahShared THEN accepting ELSE accepting \ {x}
    BY <1>2 DEF CloseListener
  <2> QED
    BY <2>2, <2>5, <2>7, <2>8 DEF Listeners!Release
<1>3. CASE UNCHANGED <<accr, accepting>>
  BY <1>3 DEF AccepterOwners
<1>4. ASSUME NEW l \in Address PROVE CloseListener(l) => Victim \in App
  BY NoAppIsNil DEF IInv, TypeOK, PhaseInv, CloseListener, Victim, ClosePhases
<1>5. ASSUME NEW l \in Address PROVE ForkListener(l) => nxt \in App
  BY NoAppIsNil DEF IInv, TypeOK, ForkListener
<1>6. \/ \E l \in Address : ForkListener(l) \/ CloseListener(l)
      \/ UNCHANGED <<accr, accepting>>
  BY DEF Next, vars, serverVars, listenerVars, StartReload, BackendsForked, ForkFails,
         ListenersForked, Activated, Terminate, Closed, ActivateListener,
         ForkServer, CloseServer
<1> QED
  BY <1>1, <1>2, <1>3, <1>4, <1>5, <1>6

\* So it does for the accepters of listeners.
THEOREM ListenersAreCounted == Spec => ListenersCounted
<1>1. Init => Listeners!RefInit
  <2> SUFFICES ASSUME Init PROVE [x \in Accepter |-> AccepterOwners(x)] = [x \in Accepter |-> {}] /\ accepting = {}
      BY DEF Listeners!RefInit
  <2> QED
    BY DEF Init, AccepterOwners, Accepter, Copy
<1> QED
  BY <1>1, IInvInvariant, ListenerCount, PTL DEF Spec, ListenersCounted, Listeners!RefSpec

=============================================================================

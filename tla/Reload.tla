------------------------------- MODULE Reload -------------------------------
(***************************************************************************)
(* Loading, reloading and leaving a configuration: configReload and main   *)
(* (cmd/simult-server/main.go), App.Fork and App.Close                     *)
(* (pkg/config/app.go), and what they call of HTTPBackend, backendServer,  *)
(* Listener and accepterHandler (pkg/lb).                                  *)
(*                                                                         *)
(* A new App takes backend servers and listeners over from the running one *)
(* by setting their one shared flag, may fail at any point and is rolled   *)
(* back then, and otherwise is activated before the old App is closed; the *)
(* close of what is shared gives up the share only.  All of it runs in one *)
(* goroutine, but accepted connections and requests see every state in     *)
(* between.                                                                *)
(***************************************************************************)
EXTENDS Integers

CONSTANTS
  App,      \* identities of App objects; one nobody refers to is reused
  NoApp,    \* a nil App or Frontend
  Server,   \* a backend name with the url of one of its servers
  Address,  \* listen addresses
  Weight    \* weights of servers

ASSUME NoAppIsNil == NoApp \notin App

VARIABLES
  phase,     \* what configReload or main is doing
  cur,       \* the running App: the variable app of main
  nxt,       \* the App that App.Fork is making
  todoS,     \* servers the current phase has still to handle
  todoL,     \* addresses the current phase has still to handle
  bss,       \* the server objects of the backends of each App, 0 for none
  up,        \* server objects that are not closed
  bsShared,  \* server objects whose flag shared is set
  weight,    \* bs.weight
  want,      \* the weight each App's configuration gives each server
  accr,      \* the accepter of each Listener of each App, 0 for nil
  accepting, \* accepters that are not closed
  ahShared,  \* accepters whose handler's flag shared is set
  fe         \* the App whose Frontend an accepter's handler serves with

serverVars == <<bss, up, bsShared, weight, want>>
listenerVars == <<accr, accepting, ahShared, fe>>
vars == <<phase, cur, nxt, todoS, todoL, serverVars, listenerVars>>

\* Objects that one name can have at a time, the running and the new one.
Copy == 1..2
ServerObj == Server \X Copy
Accepter == Address \X Copy

Phases == {"idle", "forkBackends", "forkListeners", "activate", "close",
           "rollback", "terminate", "down"}

\* The state of every variable; there is a new App exactly while a reload is
\* under way, and between reloads nothing is left to do.

TypeOK ==
  /\ phase \in Phases
  /\ cur \in App \cup {NoApp} /\ nxt \in App \cup {NoApp}
  /\ todoS \subseteq Server /\ todoL \subseteq Address
  /\ bss \in [App -> [Server -> Copy \cup {0}]]
  /\ up \subseteq ServerObj /\ bsShared \subseteq ServerObj
  /\ weight \in [ServerObj -> Weight] /\ want \in [App -> [Server -> Weight]]
  /\ accr \in [App -> [Address -> Copy \cup {0}]]
  /\ accepting \subseteq Accepter /\ ahShared \subseteq Accepter
  /\ fe \in [Accepter -> App \cup {NoApp}]
  /\ nxt = NoApp <=> phase \in {"idle", "terminate", "down"}
  /\ phase \in {"idle", "down"} => todoS = {} /\ todoL = {}
  /\ nxt # NoApp => nxt # cur

Init ==
  /\ phase = "idle" /\ cur = NoApp /\ nxt = NoApp
  /\ todoS = {} /\ todoL = {}
  /\ bss = [a \in App |-> [s \in Server |-> 0]]
  /\ up = {} /\ bsShared = {}
  /\ weight \in {[x \in ServerObj |-> w] : w \in Weight}
  /\ want \in {[a \in App |-> [s \in Server |-> w]] : w \in Weight}
  /\ accr = [a \in App |-> [l \in Address |-> 0]]
  /\ accepting = {} /\ ahShared = {}
  /\ fe = [x \in Accepter |-> NoApp]

ServersOf(a) == {s \in Server : bss[a][s] # 0}
AddressesOf(a) == {l \in Address : accr[a][l] # 0}

-----------------------------------------------------------------------------
(* App.Fork.                                                               *)

\* A configuration is loaded that has the servers S and listens on L.
StartReload ==
  /\ phase = "idle"
  /\ \E a \in App \ {cur}, S \in SUBSET Server, L \in SUBSET Address :
       nxt' = a /\ todoS' = S /\ todoL' = L
  /\ phase' = "forkBackends"
  /\ UNCHANGED <<cur, serverVars, listenerVars>>

\* The object the running App has for a name, 0 when it has none.
OldServer(s) == IF cur = NoApp THEN 0 ELSE bss[cur][s]
OldAccepter(l) == IF cur = NoApp THEN 0 ELSE accr[cur][l]

\* The running backend has the server and has not handed it on yet: the new
\* one takes it, with the weight it has.
ShareServer(s) ==
  /\ OldServer(s) # 0 /\ <<s, OldServer(s)>> \notin bsShared
  /\ bss' = [bss EXCEPT ![nxt][s] = OldServer(s)]
  /\ bsShared' = bsShared \cup {<<s, OldServer(s)>>}
  /\ UNCHANGED <<up, weight>>

MakeServer(s, k, w) ==
  /\ OldServer(s) # 0 => <<s, OldServer(s)>> \in bsShared
  /\ <<s, k>> \notin up
  /\ bss' = [bss EXCEPT ![nxt][s] = k]
  /\ up' = up \cup {<<s, k>>}
  /\ weight' = [weight EXCEPT ![<<s, k>>] = w]
  /\ UNCHANGED bsShared

\* HTTPBackend.Fork for one server line: a server it has made in vain is
\* closed again at once.
ForkServer(s) ==
  /\ phase = "forkBackends" /\ s \in todoS
  /\ todoS' = todoS \ {s}
  /\ \E w \in Weight :
       /\ want' = [want EXCEPT ![nxt][s] = w]
       /\ ShareServer(s) \/ \E k \in Copy : MakeServer(s, k, w)
  /\ UNCHANGED <<phase, cur, nxt, todoL, listenerVars>>

BackendsForked ==
  /\ phase = "forkBackends" /\ todoS = {}
  /\ phase' = "forkListeners"
  /\ UNCHANGED <<cur, nxt, todoS, todoL, serverVars, listenerVars>>

\* Mutant: the handler is given the new Frontend when the accepter is forked.
ForkListenerActivates(l) ==
  /\ phase = "forkListeners" /\ l \in todoL
  /\ todoL' = todoL \ {l}
  /\ \E k \in Copy :
       /\ IF OldAccepter(l) # 0 THEN k = OldAccepter(l) ELSE <<l, k>> \notin accepting
       /\ accr' = [accr EXCEPT ![nxt][l] = k]
       /\ accepting' = accepting \cup {<<l, k>>}
       /\ fe' = [fe EXCEPT ![<<l, k>>] = nxt]
       /\ ahShared' = IF k = OldAccepter(l) THEN ahShared \cup {<<l, k>>} ELSE ahShared
  /\ UNCHANGED <<phase, cur, nxt, todoS, serverVars>>

\* Listener.Fork takes the accepter of the running Listener over.
ShareAccepter(l) ==
  /\ OldAccepter(l) # 0 /\ <<l, OldAccepter(l)>> \notin ahShared
  /\ accr' = [accr EXCEPT ![nxt][l] = OldAccepter(l)]
  /\ ahShared' = ahShared \cup {<<l, OldAccepter(l)>>}
  /\ UNCHANGED <<accepting, fe>>

\* It listens with a new one, whose handler has no Frontend yet.
Listen(l, k) ==
  /\ OldAccepter(l) = 0
  /\ <<l, k>> \notin accepting
  /\ accr' = [accr EXCEPT ![nxt][l] = k]
  /\ accepting' = accepting \cup {<<l, k>>}
  /\ fe' = [fe EXCEPT ![<<l, k>>] = NoApp]
  /\ UNCHANGED ahShared

ForkListener(l) ==
  /\ phase = "forkListeners" /\ l \in todoL
  /\ todoL' = todoL \ {l}
  /\ ShareAccepter(l) \/ \E k \in Copy : Listen(l, k)
  /\ UNCHANGED <<phase, cur, nxt, todoS, serverVars>>

\* Mutant: the rollback closes the listeners only.
ForkFailsKeepsServers ==
  /\ phase \in {"forkBackends", "forkListeners"}
  /\ phase' = "rollback"
  /\ todoS' = {} /\ todoL' = AddressesOf(nxt)
  /\ UNCHANGED <<cur, nxt, serverVars, listenerVars>>

\* A server or listener of the configuration is not valid, is there twice, or
\* cannot be listened on: what was forked so far is closed.  The map of a
\* backend that failed itself is closed by HTTPBackend.Fork, the rest by
\* App.Fork.
ForkFails ==
  /\ phase \in {"forkBackends", "forkListeners"}
  /\ phase' = "rollback"
  /\ todoS' = ServersOf(nxt) /\ todoL' = AddressesOf(nxt)
  /\ UNCHANGED <<cur, nxt, serverVars, listenerVars>>

\* The backends are activated (their health checks: ServerHealth); the
\* listeners follow one by one.
ListenersForked ==
  /\ phase = "forkListeners" /\ todoL = {}
  /\ phase' = "activate"
  /\ todoL' = AddressesOf(nxt)
  /\ UNCHANGED <<cur, nxt, todoS, serverVars, listenerVars>>

\* Listener.Activate: new connections are served by the new Frontend.
ActivateListener(l) ==
  /\ phase = "activate" /\ l \in todoL
  /\ todoL' = todoL \ {l}
  /\ fe' = [fe EXCEPT ![<<l, accr[nxt][l]>>] = nxt]
  /\ UNCHANGED <<phase, cur, nxt, todoS, serverVars, accr, accepting, ahShared>>

\* App.Fork returns: the old App, if any, is closed.
Activated ==
  /\ phase = "activate" /\ todoL = {}
  /\ IF cur = NoApp
       THEN phase' = "idle" /\ cur' = nxt /\ nxt' = NoApp /\ UNCHANGED <<todoS, todoL>>
       ELSE /\ phase' = "close"
            /\ todoS' = ServersOf(cur) /\ todoL' = AddressesOf(cur)
            /\ UNCHANGED <<cur, nxt>>
  /\ UNCHANGED <<serverVars, listenerVars>>

-----------------------------------------------------------------------------
(* App.Close.                                                              *)

\* Mutant: the process is terminated in the middle of a reload.
TerminateAnytime ==
  /\ phase \notin {"terminate", "down"} /\ cur # NoApp
  /\ phase' = "terminate"
  /\ todoS' = ServersOf(cur) /\ todoL' = AddressesOf(cur)
  /\ UNCHANGED <<cur, nxt, serverVars, listenerVars>>

\* main has left its loop.
Terminate ==
  /\ phase = "idle" /\ cur # NoApp
  /\ phase' = "terminate"
  /\ todoS' = ServersOf(cur) /\ todoL' = AddressesOf(cur)
  /\ UNCHANGED <<cur, nxt, serverVars, listenerVars>>

ClosePhases == {"close", "rollback", "terminate"}

\* The App that is being closed.
Victim == IF phase = "rollback" THEN nxt ELSE cur

\* Mutant: a share that is given up stays on the accepter's flag.
CloseListenerKeepsFlag(l) ==
  /\ phase \in ClosePhases /\ l \in todoL
  /\ todoL' = todoL \ {l}
  /\ accr' = [accr EXCEPT ![Victim][l] = 0]
  /\ LET x == <<l, accr[Victim][l]>>
     IN /\ accepting' = IF x \in ahShared THEN accepting ELSE accepting \ {x}
        /\ fe' = IF x \in ahShared THEN fe ELSE [fe EXCEPT ![x] = NoApp]
  /\ UNCHANGED <<phase, cur, nxt, todoS, ahShared, serverVars>>

\* Listener.Close.
CloseListener(l) ==
  /\ phase \in ClosePhases /\ l \in todoL
  /\ todoL' = todoL \ {l}
  /\ accr' = [accr EXCEPT ![Victim][l] = 0]
  /\ LET x == <<l, accr[Victim][l]>>
     IN /\ ahShared' = ahShared \ {x}
        /\ accepting' = IF x \in ahShared THEN accepting ELSE accepting \ {x}
        /\ fe' = IF x \in ahShared THEN fe ELSE [fe EXCEPT ![x] = NoApp]
  /\ UNCHANGED <<phase, cur, nxt, todoS, serverVars>>

\* Mutant: the server is closed whether it is shared or not.
CloseServerAnyway(s) ==
  /\ phase \in ClosePhases /\ todoL = {} /\ s \in todoS
  /\ todoS' = todoS \ {s}
  /\ bss' = [bss EXCEPT ![Victim][s] = 0]
  /\ bsShared' = bsShared \ {<<s, bss[Victim][s]>>}
  /\ up' = up \ {<<s, bss[Victim][s]>>}
  /\ UNCHANGED <<phase, cur, nxt, todoL, weight, want, listenerVars>>

\* backendServer.Close out of HTTPBackend.Close, after all the listeners.
CloseServer(s) ==
  /\ phase \in ClosePhases /\ todoL = {} /\ s \in todoS
  /\ todoS' = todoS \ {s}
  /\ bss' = [bss EXCEPT ![Victim][s] = 0]
  /\ LET x == <<s, bss[Victim][s]>>
     IN /\ bsShared' = bsShared \ {x}
        /\ up' = IF x \in bsShared THEN up ELSE up \ {x}
  /\ UNCHANGED <<phase, cur, nxt, todoL, weight, want, listenerVars>>

\* App.Close returns.  Without a configuration the process exits.
Closed ==
  /\ phase \in ClosePhases /\ todoL = {} /\ todoS = {}
  /\ nxt' = NoApp
  /\ cur' = CASE phase = "close" -> nxt
              [] phase = "rollback" -> cur
              [] phase = "terminate" -> NoApp
  /\ phase' = IF cur' = NoApp THEN "down" ELSE "idle"
  /\ UNCHANGED <<todoS, todoL, serverVars, listenerVars>>

-----------------------------------------------------------------------------

Next ==
  \/ StartReload \/ BackendsForked \/ ForkFails \/ ListenersForked
  \/ Activated \/ Terminate \/ Closed
  \/ \E s \in Server : ForkServer(s) \/ CloseServer(s)
  \/ \E l \in Address : ForkListener(l) \/ ActivateListener(l) \/ CloseListener(l)

Spec == Init /\ [][Next]_vars

-----------------------------------------------------------------------------
(* What a reload must keep.                                                *)

ServerOwners(x) == {a \in App : bss[a][x[1]] = x[2]}
AccepterOwners(x) == {a \in App : accr[a][x[1]] = x[2]}

\* The one flag is as good as a count: it is set exactly while two Apps have
\* the object, whatever forks, failures, rollbacks and closes came before.
FlagsExact ==
  /\ \A x \in ServerObj :
       x \in bsShared <=> \E a, b \in ServerOwners(x) : a # b
  /\ \A x \in Accepter :
       x \in ahShared <=> \E a, b \in AccepterOwners(x) : a # b

\* Nothing an App has is closed under it, neither by the rollback of a failed
\* reload nor by the close of the App before it, and nothing stays open that
\* no App has.
OpenIffOwned ==
  /\ \A x \in ServerObj : x \in up <=> ServerOwners(x) # {}
  /\ \A x \in Accepter : x \in accepting <=> AccepterOwners(x) # {}

\* Connections accepted on an address of the running configuration always find
\* a Frontend, the running one or, once nothing can fail any more, the new
\* one; a reload that is rolled back was never visible to them.
AlwaysServed ==
  cur # NoApp =>
    \A l \in AddressesOf(cur) :
      \/ fe[<<l, accr[cur][l]>>] = cur
      \/ phase \in {"activate", "close"} /\ fe[<<l, accr[cur][l]>>] = nxt

\* Between reloads nothing but the running App has anything, and every one of
\* its accepters serves with its Frontend.
CleanAtRest ==
  phase \in {"idle", "down"} =>
    /\ \A a \in App \ {cur} : ServersOf(a) = {} /\ AddressesOf(a) = {}
    /\ bsShared = {} /\ ahShared = {}
    /\ \A x \in accepting : fe[x] = cur

Servers == INSTANCE SharedResource
             WITH Resource <- ServerObj, Owner <- App, live <- up,
                  owners <- [x \in ServerObj |-> ServerOwners(x)]
Listeners == INSTANCE SharedResource
               WITH Resource <- Accepter, Owner <- App, live <- accepting,
                    owners <- [x \in Accepter |-> AccepterOwners(x)]

\* One boolean per object, SetShared at fork and at close, implements full
\* reference counting of servers and of accepters.
ServersCounted == Servers!RefSpec
ListenersCounted == Listeners!RefSpec

\* README.md:119: a server line gives the url and the weight of the server.
WeightAsConfigured ==
  phase = "idle" /\ cur # NoApp =>
    \A s \in ServersOf(cur) : weight[<<s, bss[cur][s]>>] = want[cur][s]

=============================================================================

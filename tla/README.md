# Verification of simult

simult is an HTTP load balancer. A process (`cmd/simult-server`) reads a YAML
file into an `App` (`pkg/config`), which owns listeners, frontends and backends
(`pkg/lb`); backends own servers with connection pools and health checks
(`pkg/hc`). On SIGHUP a second `App` is forked from the new file, takes over
what both have in common, is activated, and the first is closed.

This directory holds TLA+ models of the parts where the order of events
matters, the TLC runs that check them on small instances and TLAPS proofs for
instances of every size.

    tlc -workers 2 -config Reload.cfg Reload.tla     # any run below
    tlapm ReloadProofs.tla                           # any *Proofs module

## Inventory

| component | state | operations | talks to | what makes it correct |
| - | - | - | - | - |
| `backendServer` with `bufConn` (`backendserver.go`, `bufconn.go`) | pool `bcs`, three atomic counters, share flag, context, health check | `ConnAcquire`, `ConnRelease`, `worker`, `SetShared`, `Close`, `SetHealthCheck`; `pipeRead` per connection | `HTTPBackend.serve`, peers, reload | one user per connection, no lost socket, exact counters, nothing pooled after close, dead connections leave |
| `HTTPCheck` (`httpcheck.go`) | `healthy`, `falls`, `rises`, `lastCheck`, `early`, channel of one, timer | `worker`, `Check`, `Healthy`, `Close` | `Activate`, `Healthy()` of the server | hysteresis, a first verdict in bounded time, close ends and is final |
| activation of health checks (`HTTPBackend.Activate`, `SetHealthCheck`) | which check is installed, goroutines that wait for a verdict | `Activate`, `SetHealthCheck`, end of `Close` | `HTTPCheck`, reload | no check lost or used before it knows; the configured check is used |
| `App`, `configReload`, `main` (`app.go`, `main.go`) | running and new `App`, their maps | fork, roll back, activate, close, terminate | everything in `pkg/lb` | nothing in use closed, nothing unused left, no gap in service |
| `Listener`, `accepterHandler` | accepter, share flag, current frontend | `Fork`, `Activate`, `Close`, `Serve` | accepter library, `HTTPFrontend` | as above |
| one request (`HTTPFrontend.serve`, `serveAsync`; `HTTPBackend.serve`, `serveAsync`, `serveIngress`, `serveEngress`) | two connections and their buffers, two contexts, `beFinal`, six goroutines with an error channel each | one goroutine each | client, server, pool, routes | refused or forwarded once, answered in order, kept only when clean, ended by a timeout |
| `HTTPFrontend` (`httpfrontend.go`) | four counters, a peeking goroutine per turn | `Serve` (keep-alive loop) | accepter, listener's context, one request | exact counters, every connection ends |
| routes and restrictions (`findBackend`, `isRouteRestricted`) | none | pure | one request | the first route that matches decides; a group of restrictions refuses when all of it is met |
| choice of a server (`findServer`, `updateBssNodes`) | `bssNodes` | `worker`, three modes | health, counters | only healthy servers with weight, the less busy, keys that stay |
| HTTP messages (`httpcommon.go`, `httpcookie.go`) | none | header and body transfer | one request | every end, good or bad, is flushed and reported |
| configuration, TLS, metrics, process | data | parsing, loading | - | - |

Hard behaviours: counters changed outside the mutex of what they count;
goroutines that outlive their request (`serveEngress`) or the configuration
that started them (`Activate`); `pipeRead` reading ahead of everybody; `Close`
overtaking requests, checks and sweeps; six goroutines per request whose errors
are read in a fixed order while two timeouts close connections under them; a
list of servers that is older than what it says; one boolean used as a reference count
through forks that may fail anywhere; timers against cancellation. The list
with lines is `hazards` in `PROJECT.json`.

## Modules

| module | models | abstract specification |
| - | - | - |
| `BackendServer` | pool, requests on it, `pipeRead`, peers, worker, sharing, close | `ConnOwnership`, by the mapping in `BackendServerOwnership` |
| `HTTPCheck` | one health check | `CheckPromise` |
| `ServerHealth` | the checks of one server over successive configurations | uses what `CheckPromise` promises |
| `Reload` | process life, fork, rollback, activation, close, for servers and listeners | `SharedResource`, twice |
| `HTTPServe` | one request from `HTTPFrontend.serve` to its answer | `Exchange` |
| `RouteRestriction` | `findBackend`, `isRouteRestricted` as operators | what a list of restrictions means, in the same module |
| `HTTPFrontend` | client connections: `Serve`, the peeking goroutine, counters, limits, timeouts | uses the two ends of a request that `HTTPServe` has |
| `FindServer` | `updateBssNodes` and `findServer` | |
| `BackendServerProofs`, `BackendServerOwnershipProofs`, `HTTPCheckProofs`, `ServerHealthProofs`, `ReloadProofs`, `HTTPServeProofs`, `HTTPFrontendProofs`, `FindServerProofs` | the theorems | |
| `MCBackendServer`, `MCHTTPServe`, `MCHTTPFrontend`, `MCFindServer` | symmetry and the constants of runs | |

How they fit together: `Reload` creates and closes what the others run in.
`HTTPFrontend` takes a connection and calls `serve` for each request, one step
there and the whole of `HTTPServe`. `HTTPServe` takes from `RouteRestriction`
which backend is asked and leaves open whether it can (`Refused` or
`Acquired`): which server that is, is `FindServer`'s matter, and what happens
to the connection, `BackendServer`'s. `FindServer` sees health checks and
other requests as values that change at any moment.

### BackendServer

The sections of a request and of `Close` under `bcsMu` are one step each: what
they ask a connection for does not change back meanwhile. The sweep of the
worker is not: it hears its ticker (`Tick`), takes `bcsMu` (`SweepLock`), asks
one connection after the other while these die (`SweepConn`) and lets go
(`SweepUnlock`); `bcsMu` says who holds the mutex between steps. Each change of
an atomic counter outside of it is a step of its own. A request goes through
`pc`:

| `pc` | where in the code |
| - | - |
| `out` to `admitted` | the comparison with `servermaxconn`, `httpbackend.go:563` |
| `took` | loop of `ConnAcquire` done, `backendserver.go:189-206` |
| `dialing` / `serving` | counted as active, 207-208; dialled, 209-222 |
| `served` | `serveAsync` ended, statistics reset, `httpbackend.go:658-679` |
| `releasing` | deferred comparison with `servermaxidleconn`, 601-604 |
| `uncounted` | first half of `ConnRelease`, `backendserver.go:230-231` |
| `out` | second half under the mutex, 232-254 |

What the code keeps in a `bufConn` is split into sets: `open` (socket),
`pe` (`Check()` fails), `counted` (`Stats()` non-zero), `surplus` (where
unexpected bytes are), `late` (a `serveEngress` that `serveAsync` did not wait
for). `FinishOk` stands for a response that was read to its end with nothing
left in the buffer and `Connection: keep-alive`; all other ends are
`FinishErr`. Connection identities are reused once nobody can reach them, so a
small set stands for unboundedly many connections.

Left out: bytes, TLS, logging, metrics, and from `CloseConns` on everything
about a closed connection that nobody can ask it. Two counter decrements or
increments that stand next to each other are one step; the readers of these
counters compare one of them at a time. A connection counts as used from the
moment it is handed out, so that a peer's byte and the request's own are not
told apart before `serve` resets the statistics. `surplus` says where unexpected
bytes wait; that a later request takes them for the head of its answer is left
out, as no property of the pool is about what an answer says.

### HTTPCheck

`Digest` is the body of the worker's timer case with its four outcomes;
`CheckEnds` gives it any result (a failure when the context is already
cancelled) and re-arms the timer. `results` and `got` are history, never read
by the actions except that `Receive` reports a closed channel once.

### ServerHealth

Configurations that contain the server are numbered in the order of their
activation. Each makes a check or none; `waiter` is the goroutine of
`Activate`, `slot` is `bs.healthCheck`, and `SetCheck` is `SetHealthCheck`
under `healthCheckMu`. `Close` is two steps, the cancelled context and the
section under the mutex. Of a check it knows only the three phases of
`CheckPromise`, which `HTTPCheck` implements.

### Reload

`phase` follows `configReload` and `App.Fork`. Servers (`bss`, `up`,
`bsShared`) are objects of a backend name and url; listeners (`accr`,
`accepting`, `ahShared`, `fe`) of an address. Two objects per name are enough:
a third never exists, since one that nobody owns is closed, and
`OpenIffOwned` shows it. Maps have no order, so the elements of a phase are
handled in any order. A fork may fail before each step and when all are done:
invalid names, options, weights, TLS files, or an address in use. The rollback
and the close are the same actions on different victims, as both are
`App.Close`. `Weight` has one value where it does not matter.

`accepter.Close` and `Shutdown` are taken to end; what requests do to servers
meanwhile is `BackendServer`, where `SetShared` and `CloseCall` are the two
calls that `Reload` makes.

### HTTPServe

| variable | goroutine |
| - | - |
| `fe` | `HTTPFrontend.serve`, `httpfrontend.go:376-391` |
| `asy` | `HTTPFrontend.serveAsync`, 231-364 |
| `be` | `HTTPBackend.serve`, called by it, `httpbackend.go:532-710` |
| `basy` | `HTTPBackend.serveAsync`, 497-530 |
| `ing`, `egr` | `serveIngress`, 377-409; `serveEngress`, 411-495 |

`feOpen` and `beOpen` say that this side has not closed a connection, `feBuf`
and `beBuf` that its writer holds bytes. A write goes to the buffer in one step
and to the socket in another; a flush blocks while the peer is `"stalled"`, and
closing a connection wakes it. `said` is what was written to the client while
its connection was open, in parts: a `"page"` or `"forbidden"` of this
program's own, an interim `"continue"`, a `"head"` with a `"body"` or a
`"bare"` one. `taken` are the backends that got the request.

A read fails when its peer has gone or this side has closed the connection, and
also while the peer is there, at any moment: a malformed chunk or header, or a
CRLF that comes in two pieces.

What a request and its answer look like is a constant of the behaviour
(`shape`): which of the ways of `writeHTTPBody` and `httpContentLength` they
take. `final` is `reqDesc.beFinal`. `maxconn`, no server, `servermaxconn` and a
failed dial are one action, `Refused`: they differ in the page only. A refused
request writes its page into `feConn`, or into a `nopWriter` when there is a
backup to ask. `which`, `taken` and `said` map to `Exchange`; `verdict` is `fe`
once `serve` has returned.

Left out: bytes and headers; what two goroutines that flush one buffer at once
put on the wire, which happens only just before that connection is closed; the
statistics and metrics.

### RouteRestriction

A pattern or network is what it says of the one request. `NextRestriction` is
the body of the loop; `Loop` is the function from the number of restrictions it
has seen to what it knows then. The reference definition speaks of groups:
restrictions joined by `andafter`, each to the next one, the last group ending
with the list. Both are compared inside `HTTPServe`, at the moment of routing.
They agree on lists whose last restriction is without `andafter` (`Tidy`): the
run has every such list of up to four, the proof all of them. On other lists
the code does not decide about the last group: finding 5.

### HTTPFrontend

`pc` follows `Serve`: `accepted` and `admitted` before `maxconn` is compared
and counted, `top` and `select` in the loop, `serving` while `serve` runs,
`kept` or `cut` by what it returned, `compare` for the limits, `leaving` and
`left` for the two deferred steps. `peeker` is the goroutine that peeks: it may
still be reading when `Serve` has left (`CtxDone`), and takes itself off `idle`
or `waiting` when the connection is closed. Its peek fails when the client has
gone and also when what the client sent is no TLS handshake. Connections are used
again.
`timeouts` says which of `requesttimeout`, `keepalivetimeout` and `timeout` are
set.

### FindServer

The worker asks one server after the other (`ReadHealth`): `bssMu` holds the set
of servers still, not their health. `asked` are those it has asked, `draft`
those of them that get a weight, and `Publish` writes the list to `bssNodes`
under `bssNodesMu`; `able` are the servers whose node has a weight there.
`findServer` holds `bssNodesMu` for reading, so the list stands still, while
health and counters do not. Two counters are compared by two loads: that of the
server found so far (`Load`, kept in `seen`) and then that of the next node
(`LookNear` against the threshold, `Keep` for the lesser). `sick` is history: the
servers that have not been healthy since the worker asked them for this list.
The library's rendezvous hash is the constant `Rendezvous`: for each key and
each set of nodes with a weight a permutation of the seeds in which those with a
weight come first (`RendezvousAssumption`), and in the same order whatever other
nodes weigh (`RendezvousIsSteady`): the score of a node is computed from the key,
its seed and its weight. The proofs assume no more; the run ranks the seeds by a
table per key (`MCRendezvous`), and TLC evaluates both assumptions for it.

## Runs

| run | instance | shows |
| - | - | - |
| `pool` | 2 requests, 2 connections, idle limit 1, fair; 151,780 states | `CountersExact`, `NoLeak`, `ExclusiveUse`, `PeakBound`, `ImplementsOwnership`; `DeadIdleEvicted`, `CloseCompletes`, `ClosedGivesBackSockets` |
| `http_check` | fall 3, rise 2, 7 results, fair; 6,177 states | `HealthyIsHysteresis`, `FirstVerdictInTime`, `ImplementsPromise`; `VerdictArrives`, `CloseReturnsAtLast` |
| `server_health` | 4 configurations, fair; 13,527 states | `NoCheckLost`, `InstalledIsTold`; `ClosedStopsChecks`, `VerdictsAreUsed` |
| `reload` | 3 Apps, 2 servers, 2 addresses; 117,416 states | `FlagsExact`, `OpenIffOwned`, `AlwaysServed`, `CleanAtRest`, `ServersCounted`, `ListenersCounted` |
| `http_serve` | 6 shapes, 685 routing tables, fair; 244,731 states | `KeptMeansClean`, `KeptIsLeftAlone`, `RestrictionsDecide`, `ImplementsExchange`; `TimeoutEnds`, `NothingLeftBehind` |
| `http_frontend` | 2 connections, all limits 1, all timeouts or none, fair; 314,324 states | `CountersExact`; `ConnectionsEnd` |
| `find_server` | 3 servers, 2 of them flaky, 2 keys, 6 configurations, counters up to 2; 1,718,676 states | `PickedWasHealthy`, `LeastBusyWhenQuiet`, `KeysStay` |
| `active_limit` | limit 1, 2 requests | `ActiveLimit` fails: finding 1 |
| `surplus_shows` | 2 requests | `SurplusShows` fails: finding 2 |
| `server_health_configured` | 2 configurations | `JudgedAsConfigured` fails: finding 3 |
| `reload_weight` | 2 weights | `WeightAsConfigured` fails: finding 4 |
| `trailing_andafter` | lists of up to 2 restrictions that end in `andafter` | `RestrictionsDecide` fails: finding 5 |

Bounds. Two requests meet in every pair of windows, and two connections are
as many as they ever have open (`PeakBound`). Seven results hold a first verdict, a rise
and a fall with alternation before each. The fourth configuration can overtake
three whose verdicts are late. Three Apps leave one identity free during a
reload, so that an App can return; two names let one be shared while the other
is new, old, or the one that fails. `MaxChecks` and `MaxConfigs` are the only
counters cut off by a guard. The six shapes put each way of a body next to an interim answer, a backup or a
second body; four restrictions hold two groups of two, the shortest list on
which a group that is not reset shows. Two connections meet in the windows of
both limits, and the limit of one kept request lets a connection be waiting
first and idle later. Three servers leave one between the first and the last
in every order; `Flaky` leaves one that is always healthy and `MaxActive` two
counts to tell apart from none. What a bound might hide is the subject of the
proofs, which have none but `MaxChecks` and `MaxConfigs`, and these are
arbitrary.

`CHECK_DEADLOCK FALSE` stands where the system really stops: a closed check, a
closed server, a process that has ended, a request that is over, connections whose
listener is closed. The pool never stops, as new requests may always come, nor
does the choice of a server.

Fairness. Weak fairness of a goroutine's next step (the Go scheduler), of the
end of a dial (`connecttimeout`) and of a request (`timeout` of backend or
frontend; with both unlimited and a silent peer this does not hold, and neither
does `ClosedGivesBackSockets`), of timers and checks (`opts.Timeout`). Strong
fairness where weak does not say what the runtime does: of a request on its
way, since a `sync.Mutex` is handed to a goroutine that has waited for a
millisecond however often others take it, and of the exits of the two workers,
since a `select` picks at random among ready cases and does not pass over a
cancelled context for ever. That `Close` ends (`CloseCompletes`) then depends on
the order in it: it waits for the worker first and takes `bcsMu` after.
Nothing is assumed of peers, of new requests, or that anybody reloads or
closes anything. In `HTTPServe` the six goroutines are scheduled, and a dial
ends, whether `connecttimeout` is set or not; no timeout need be set, no
peer need send, read or leave, and a read that could fail on malformed bytes need
not. In `HTTPFrontend` timers that are set expire,
and `serve` returns when its context has ended and the client reads:
`TimeoutEnds` of `HTTPServe` is what justifies it.

## Findings

1. `servermaxconn` and `servermaxidleconn` can be exceeded: each is compared in
   one step and changed in a later one. So can `maxconn` of a frontend.
2. A connection with unexpected bytes is pooled when `pipeRead` took them before
   `serve` reset the statistics, and the next request reads them.
3. The goroutine of an older `Activate` installs its health check over that of
   the active configuration.
4. A reload does not change the weight of a server that it keeps.
5. A list of restrictions that ends with `andafter` has a last group that is never
   decided about: who meets all of it is let through.

`PROJECT.json` quotes what the repository says about each.

## Proofs

All from the assumptions named in the modules: finitely many requests and
connections, `NoConn` and `NoApp` different from real objects, limits and bounds
numbers, thresholds positive (which `CopyFrom` sees to), routing tables of the
type they have, and what is said above of the hash. `RestrictionsAlwaysDecide`
has one assumption of its own, that no list of a table ends with `andafter`
(`TablesTidy`): without it the theorem is false, by finding 5.

Every safety invariant and every action property that a passing run checks is
also a theorem. Some theorems have no run of their own: the types of
`HTTPCheck`, the safety part of a liveness property, or what one module takes
for granted of another.

*Pool* (`BackendServerProofs`). `IInv` joins the types, `Owning`, exact
counters and the bound. The counters are proved exact before they are known to
be natural, so the invariant has a weaker `Types` with integers and the theorem
`TypeCorrect` follows from exactness. `Owning` needs more than `ExclusiveUse`
and `NoLeak`: that a request holds a connection only in the states where it
uses one, that a held connection is open or shows its error (otherwise
`ConnRelease` could pool a closed one), and that a drained pool stays empty.
`Sweeping` says that what the worker has yet to ask is still in the pool, because
it holds `bcsMu` meanwhile and `Close` waits for it; so a sweep takes nothing out
twice. Sets that one step evicts have any size: `EvictTypes` and
`EvictCounts` do the arithmetic of cardinalities once.

*Ownership* (`BackendServerOwnershipProofs`). With `IInv`, the owner of a
connection is a function of `bcs` and `bc`; each action maps to one action of
`ConnOwnership` or leaves the map alone.

*Health check* (`HTTPCheckProofs`). The property quantifies over the whole
history. The invariant ties the counters to it: `falls` and `rises` are the
lengths of the last run, `early` counts results since the beginning.
`RunsGrow`, `RunAtEnd` and `HistoryGrows` say what one more result does to runs.

*One request* (`HTTPServeProofs`). `ImplementsExchange` is about `said` and
`taken`, but a step that adds to them is allowed only because of what other
goroutines have done. `Stages` says who runs inside whom and that nothing is
said before a backend has the request, and that this backend is final; `Heard`
what the two error channels have told; `Closings` that a connection is closed
on the way to an error only, so that a good end is one with open connections;
`Transferred` that a good end leaves empty buffers; `SaidSoFar` which answer
belongs to each state of `serveEngress`, as long as the client can hear it.
`KeptMeansClean` and the refinement follow for all shapes and tables.
`KeptIsLeftAlone` follows because a good end of `serve` means the good end of all
six goroutines. `CutOff` adds that `HTTPBackend.serve` closes both connections
before it gives up a request that a backend has; so a goroutine left behind has
only closed connections (`LeftBehindOnlyCut`, the safety part of
`NothingLeftBehind`). `RequestEndsAsSeen` is what holds the modules together: the
ends of a request are those that `HTTPFrontend` (`ServeReturns`) and
`BackendServer` (`FinishOk`, `FinishErr`) have as single steps.
`EveryRequestHasOneAnswer` is proved of `Exchange` alone and carried over by the
refinement.

*Restrictions* (the first part of `HTTPServeProofs`). That the loop computes what
a list means is an induction over the list. The induction theorems of the
library cannot be used by the provers installed, but an induction can be said
as a least counterexample: `LeastNat`, from the theorem of the library that
every non-empty set has a minimal element in a well-founded order, gives the
first place where `Loop` would differ from `LoopKnowsAll`, and the step before
it gives the contradiction. The invariant of the loop is that `restricted` says
whether some group that has ended was met, and `andOK` whether all of the group
that has begun are met so far. A group that has ended (`EndedGroup`) is one of the
meaning (`IsGroup`) in every list, and the converse needs `Tidy`.
`RestrictedMeansGroupMet` and `RefusedAsMeant` are about operators,
`RestrictionsAlwaysDecide` carries them to every request.

*Client connections* (`HTTPFrontendProofs`). Each counter is the cardinality of
a set of connections; every step adds or removes one connection in as many of
the four sets as it changes counters. Where a peeker may be is needed for the
two that the peeker counts, and shows that a connection has one reader.
`ConnectionInOrder` also bounds the requests of a connection, and
`PageComesFirst` says that the page for a timeout, once it is on its way, cannot
follow an answer; for it, that a peeker has timed out is tied to `reqIdx`.

*Choice of a server* (`FindServerProofs`). `Scanning` says that the first node
is one of the list's unless the list is empty, that only such nodes have been
taken, and that nothing has been taken only before the first look; with what
`RendezvousAssumption` says of the library, `PickedWasHealthy` follows for every
number of servers and every configuration. `LeastBusyWhenQuiet` compares with a
minimum that the scan does not compute when it ends early. `Quiet` is what is
known in the middle of a scan during which no counter has changed: the nodes are
in order (`NodesInOrder`), the server found so far is the first of the least busy
among those looked at (`BestSoFar`), and why the scan has gone on: no server was
idle, or the server of the key was busier than the threshold allows (`WentOn`).
For `KeysStay`, two lists are compared: the first node is in the list when any
node is (`FirstNode`), and if the first nodes of both lists are in both, then by
`RendezvousIsSteady` each would precede the other (`FirstNodesAgree`).

*Health across reloads* (`ServerHealthProofs`). Added to the two properties:
the check of a goroutine that still waits belongs to nobody else.
`ClosedAwaitsOnly` is the safety part of `ClosedStopsChecks`: in a closed server
only checks are left that a goroutine will close. `EachKeepsPromise` closes the
circle with `HTTPCheckProofs`: what `ServerHealth` lets the check of one
configuration do is what `CheckPromise` allows, seen through all reloads, as
`HTTPCheck` implements it.

*Reload* (`ReloadProofs`). Why one boolean can be a reference count: nobody but
the running and the new App ever owns anything, and these two are different.
`ServerInv` and `ListenerInv` say so, together with what each phase has still
to do, so that an App is known to own nothing when it is forgotten.
`FrontendInv` follows the switch of the accepters. From these follow the
invariants, and that every step of servers, and of accepters, is a step of
`SharedResource` or none.

Only model-checked: the liveness properties, which rest on fairness and
`ENABLED`, and these the prover does not handle (`DeadIdleEvicted`,
`CloseCompletes`, `ClosedGivesBackSockets`, `VerdictArrives`,
`CloseReturnsAtLast`, `ClosedStopsChecks`, `VerdictsAreUsed`, `TimeoutEnds`,
`NothingLeftBehind`, `ConnectionsEnd`). The properties of the violation runs are
refuted by TLC.

## What the code does that one might not expect

Seen while modelling, each in the model as it is, and no statement of the
repository says otherwise:

- A timeout flushes before it closes (`httpbackend.go:665`,
  `httpfrontend.go:383`), and nothing bounds a flush to a peer that does not
  read: the exception in `TimeoutEnds` and `ConnectionsEnd`.
- The context of `keepalivetimeout` is handed on to `serve`
  (`httpfrontend.go:490`, 531): it cuts a request on a kept connection even when
  `timeout` is unlimited.
- A request body without `Content-Length`, chunked ones included, is not
  forwarded (`httpbackend.go:399`): the exception in `KeptMeansClean`.
- An answer without `Content-Length` that has no body by its status (204, 304)
  is waited for until the connection ends.
- With `invert`, a restriction with a network and a path is met when either of
  the two does not match (`httpfrontend.go:185-198`).
- `maxkeepalivereqs` does not count the first request of a connection: with a
  limit of 20 it serves 21 (`KeepAliveBounded`).
- A request that meets no route and has no default backend is told that it is
  forbidden.
- `leastconn` looks at neither health nor weight. Its choice is the least busy
  only while no counter changes (`LeastBusyWhenQuiet`).
- The seeds of `updateBssNodes` are places in the list of servers: they do not
  change with health (`KeysStay`), but a reload that adds or removes a server
  moves keys of others.
- `maxidleconn` of a frontend and `maxconn` of a backend are compared in one step
  and counted in another, as in finding 1.
- A request whose pooled connection dies before its first write fails without a
  second try (`httpbackend.go:607`): `Exchange` allows it.
- The CRLF after the last chunk is read with one `Read` (`httpcommon.go:274`) and
  fails a valid message when it comes in two pieces.

## Not modelled, and plan

Not modelled and not planned: YAML, TLS files, flags, limits, logging, metrics
(data and I/O, no behaviour over time), cookie parsing, and the libraries
(`accepter`, `wrh`, `net/http`), which appear only through what they may do.

Partly modelled: of admission to a backend the comparison with its `maxconn`
(the refusal may come at any time), and of HTTP messages the bytes: where a
header ends, how a chunk is framed and how a `bufio` buffer fills. The pipe
between `pipeRead` and the reader of a `bufConn` ends at the closed socket: a
`pipeRead` that is blocked with surplus stays blocked, and nothing waits for
it.

What could follow: a module for `connCount` and the generations of a backend,
and one for the pipe between `pipeRead` and its reader.

--------------------------- MODULE BackendServer ---------------------------
(***************************************************************************)
(* The connection pool of one backend server (pkg/lb/backendserver.go) and *)
(* the way HTTPBackend.serve (pkg/lb/httpbackend.go) uses it: requests     *)
(* admit themselves against servermaxconn, acquire a connection, forward   *)
(* over it, and release it, while the server's worker sweeps dead          *)
(* connections, the pipeRead goroutine of every bufConn                    *)
(* (pkg/lb/bufconn.go) reads ahead, peers close or send what nobody asked  *)
(* for, and a reload shares or closes the server.                          *)
(*                                                                         *)
(* The sweep of the worker holds bcsMu from step to step, because the      *)
(* connections it asks one after the other die meanwhile; any other        *)
(* section under bcsMu is one step, as what it asks for stays so.  The     *)
(* atomic counters changed outside the mutex have steps of their own, so   *)
(* every window between a counter and the pool it describes is there to be *)
(* interleaved with.                                                       *)
(*                                                                         *)
(* Bytes beyond the end of a response are followed to where they wait.  A  *)
(* later request that takes them for the head of its response is not       *)
(* modelled: no property here is about what a response says.               *)
(***************************************************************************)
EXTENDS Integers, FiniteSets

CONSTANTS
  Req,               \* goroutines running HTTPBackend.serve on this server
  Conn,              \* connection identities; one nobody refers to is reused
  NoConn,            \* a nil *bufConn
  ServerMaxConn,     \* opts.ServerMaxConn, 0 for unlimited
  ServerMaxIdleConn  \* opts.ServerMaxIdleConn, 0 for unlimited

ASSUME ReqFinite == IsFiniteSet(Req)
ASSUME NoConnIsNil == NoConn \notin Conn
ASSUME LimitsAreNat == ServerMaxConn \in Nat /\ ServerMaxIdleConn \in Nat

VARIABLES
  bcs,       \* the pool: bs.bcs
  active,    \* bs.activeConnCount
  idle,      \* bs.idleConnCount
  total,     \* bs.totalConnCount
  pc,        \* where each request is in serve, ConnAcquire and ConnRelease
  bc,        \* the connection a request holds: reqDesc.beConn
  open,      \* connections whose socket this side has not closed
  gone,      \* connections whose peer has closed or reset
  pe,        \* connections with a pipe error: Check() returns FALSE
  counted,   \* connections whose Stats() would not return zeroes
  surplus,   \* where bytes beyond the expected response have got to
  late,      \* connections that a serveEngress left behind still reads
  shared,    \* bs.shared
  closing,   \* how far Close has got
  worker,    \* where the worker goroutine is
  toSweep,   \* the connections that its sweep has not come to
  bcsMu      \* who holds bs.bcsMu between steps

poolVars == <<bcs, active, idle, total>>
reqVars == <<pc, bc>>
sockVars == <<open, gone, pe, counted, surplus>>
connVars == <<sockVars, late>>
sweepVars == <<worker, toSweep, bcsMu>>
lifeVars == <<shared, closing, sweepVars>>
vars == <<poolVars, reqVars, connVars, lifeVars>>

PC == {"out", "admitted", "took", "dialing", "serving", "served",
       "releasing", "uncounted"}

\* "socket": sent, not read yet.  "pipe": read by pipeRead, which blocks in
\* pw.Write until somebody reads it.  "bufio": in bufConn.Reader's buffer,
\* having come in one segment with the end of the response.
Surplus == {"none", "socket", "pipe", "bufio"}

Closing == {"no", "wait", "closed"}

\* "tick": it has heard the ticker and wants bcsMu.
Worker == {"select", "tick", "sweep", "gone"}

TypeOK ==
  /\ bcs \subseteq Conn
  /\ active \in Nat /\ idle \in Nat /\ total \in Nat
  /\ pc \in [Req -> PC]
  /\ bc \in [Req -> Conn \cup {NoConn}]
  /\ open \subseteq Conn /\ gone \subseteq Conn /\ pe \subseteq Conn
  /\ counted \subseteq Conn /\ late \subseteq Conn
  /\ surplus \in [Conn -> Surplus]
  /\ shared \in BOOLEAN /\ closing \in Closing
  /\ worker \in Worker /\ bcsMu \in {"free", "worker", "close"}
  \* Only the worker holds bcsMu for long, and nobody takes what it sweeps.
  /\ bcsMu = (IF worker = "sweep" THEN "worker" ELSE "free")
  /\ toSweep \subseteq bcs /\ (toSweep # {} => worker = "sweep")

Init ==
  /\ bcs = {} /\ active = 0 /\ idle = 0 /\ total = 0
  /\ pc = [r \in Req |-> "out"]
  /\ bc = [r \in Req |-> NoConn]
  /\ open = {} /\ gone = {} /\ pe = {} /\ counted = {} /\ late = {}
  /\ surplus = [c \in Conn |-> "none"]
  /\ shared = FALSE /\ closing = "no"
  /\ worker = "select" /\ toSweep = {} /\ bcsMu = "free"

-----------------------------------------------------------------------------
(* Parts of the handlers.                                                  *)

\* bs.ctx.Done() is closed.
CtxDone == closing # "no"

\* bcr.Check() holds and bcr.Stats() returns two zeroes.
Usable == {c \in bcs : c \notin pe /\ c \notin counted}

\* Conn identities that stand for no connection any goroutine can reach.
Fresh == {c \in Conn : /\ c \notin bcs \cup open \cup late
                       /\ \A r \in Req : bc[r] # c}

Goto(r, from, to) == pc[r] = from /\ pc' = [pc EXCEPT ![r] = to]

\* bufConn.Close on every member of S: it records io.EOF as pipe error.  Who
\* asks Check() learns no more of a closed connection, so the rest is dropped.
CloseConns(S) ==
  /\ open' = open \ S
  /\ pe' = pe \cup S
  /\ gone' = gone \ S
  /\ counted' = counted \ S
  /\ surplus' = [c \in Conn |-> IF c \in S THEN "none" ELSE surplus[c]]

\* Mutant: a loop that decrements once, however many it removes.
EvictOnce(D) ==
  /\ bcs' = bcs \ D
  /\ idle' = idle - (IF D = {} THEN 0 ELSE 1)
  /\ total' = total - (IF D = {} THEN 0 ELSE 1)

\* Members of D leave the pool, one decrement of both counters for each.
Evict(D) ==
  /\ bcs' = bcs \ D
  /\ idle' = idle - Cardinality(D)
  /\ total' = total - Cardinality(D)

-----------------------------------------------------------------------------
(* A request.                                                              *)

\* The check of servermaxconn before ConnAcquire.  A request over the limit
\* answers 503 and changes nothing here.
Admit(r) ==
  /\ ServerMaxConn = 0 \/ active < ServerMaxConn
  /\ Goto(r, "out", "admitted")
  /\ UNCHANGED <<poolVars, bc, connVars, lifeVars>>

\* Mutant: ConnAcquire dials while connections are idle.
TakeConnNever(r) ==
  /\ Goto(r, "admitted", "took")
  /\ UNCHANGED <<poolVars, bc, connVars, lifeVars>>

\* The loop of ConnAcquire under bcsMu: it takes pooled connections in any
\* order, closes what is not usable and keeps the first that is.
TakeConn(r) ==
  /\ bcsMu = "free"
  /\ Goto(r, "admitted", "took")
  /\ \/ \E c \in Usable : \E D \in SUBSET (bcs \ Usable) :
          /\ Evict(D \cup {c})
          /\ CloseConns(D)
          /\ bc' = [bc EXCEPT ![r] = c]
     \/ /\ Usable = {}
        /\ Evict(bcs)
        /\ CloseConns(bcs)
        /\ UNCHANGED bc
  /\ UNCHANGED <<active, late, lifeVars>>

\* The rest of ConnAcquire after the mutex: the connection counts as active.
\* From the first byte forwarded the request's own traffic is in Stats().
CountActive(r) ==
  /\ active' = active + 1 /\ total' = total + 1
  /\ IF bc[r] = NoConn
       THEN Goto(r, "took", "dialing") /\ UNCHANGED counted
       ELSE Goto(r, "took", "serving") /\ counted' = counted \cup {bc[r]}
  /\ UNCHANGED <<bcs, idle, bc, open, gone, pe, surplus, late, lifeVars>>

\* DialContext succeeds, and newBufConn starts pipeRead.
DialOk(r) ==
  /\ Goto(r, "dialing", "serving")
  /\ \E c \in Fresh :
       /\ bc' = [bc EXCEPT ![r] = c]
       /\ open' = open \cup {c}
       /\ gone' = gone \ {c}
       /\ pe' = pe \ {c}
       /\ counted' = counted \cup {c}
       /\ surplus' = [surplus EXCEPT ![c] = "none"]
  /\ UNCHANGED <<poolVars, late, lifeVars>>

\* Mutant: serve releases what it failed to dial.
DialFailReleases(r) ==
  /\ Goto(r, "dialing", "releasing")
  /\ active' = active - 1 /\ total' = total - 1
  /\ UNCHANGED <<bcs, idle, bc, connVars, lifeVars>>

\* DialContext fails or connectCtx expires.
DialFail(r) ==
  /\ Goto(r, "dialing", "out")
  /\ active' = active - 1 /\ total' = total - 1
  /\ UNCHANGED <<bcs, idle, bc, connVars, lifeVars>>

\* serveAsync ends without error: the response was read to its end, nothing
\* is left in the Reader's buffer and the backend keeps the connection alive.
\* Then serve resets the statistics.
FinishOk(r) ==
  /\ Goto(r, "serving", "served")
  /\ surplus[bc[r]] # "bufio"
  /\ counted' = counted \ {bc[r]}
  /\ UNCHANGED <<poolVars, bc, open, gone, pe, surplus, late, lifeVars>>

\* Mutant: the connection of a failed request stays open.
FinishErrKeepsOpen(r) ==
  /\ Goto(r, "serving", "served")
  /\ counted' = counted \ {bc[r]}
  /\ late' \in {late, late \cup {bc[r]}}
  /\ UNCHANGED <<poolVars, bc, open, gone, pe, surplus, lifeVars>>

\* serveAsync ends with an error or the context of the request is done: serve
\* closes the connection and resets the statistics.  When it was serveIngress
\* that failed, serveAsync did not wait for serveEngress, which still reads.
FinishErr(r) ==
  /\ Goto(r, "serving", "served")
  /\ CloseConns({bc[r]})
  /\ late' \in {late, late \cup {bc[r]}}
  /\ UNCHANGED <<poolVars, bc, lifeVars>>

\* The deferred function of serve looks at servermaxidleconn, without bcsMu.
CheckIdle(r) ==
  /\ Goto(r, "served", "releasing")
  /\ IF ServerMaxIdleConn > 0 /\ idle >= ServerMaxIdleConn
       THEN CloseConns({bc[r]})
       ELSE UNCHANGED sockVars
  /\ UNCHANGED <<poolVars, bc, late, lifeVars>>

\* ConnRelease before its mutex.
Uncount(r) ==
  /\ Goto(r, "releasing", "uncounted")
  /\ active' = active - 1 /\ total' = total - 1
  /\ UNCHANGED <<bcs, idle, bc, connVars, lifeVars>>

\* Mutant: ConnRelease does not look at the context of the server.
PoolableAnytime(c) == c \notin pe /\ c \notin counted

\* ConnRelease pools what it is given.
Poolable(c) == ~CtxDone /\ c \notin pe /\ c \notin counted

\* ConnRelease under bcsMu.
PoolConn(r) ==
  /\ bcsMu = "free"
  /\ Goto(r, "uncounted", "out")
  /\ bc' = [bc EXCEPT ![r] = NoConn]
  /\ IF Poolable(bc[r])
       THEN /\ bcs' = bcs \cup {bc[r]}
            /\ idle' = idle + 1 /\ total' = total + 1
            /\ UNCHANGED sockVars
       ELSE /\ CloseConns({bc[r]})
            /\ UNCHANGED <<bcs, idle, total>>
  /\ UNCHANGED <<active, late, lifeVars>>

\* A serveEngress that outlived its request gets the error of the closed
\* connection and returns.
LateEngressEnds(c) ==
  /\ c \in late
  /\ late' = late \ {c}
  /\ UNCHANGED <<poolVars, reqVars, sockVars, lifeVars>>

-----------------------------------------------------------------------------
(* The peer, and pipeRead, which reads ahead whether anybody asked or not. *)

PeerCloses(c) ==
  /\ c \in open \ gone
  /\ gone' = gone \cup {c}
  /\ UNCHANGED <<poolVars, reqVars, open, pe, counted, surplus, late, lifeVars>>

PeerSendsSurplus(c) ==
  /\ c \in open \ gone /\ surplus[c] = "none"
  /\ surplus' = [surplus EXCEPT ![c] = "socket"]
  /\ UNCHANGED <<poolVars, reqVars, open, gone, pe, counted, late, lifeVars>>

\* pipeRead reads the surplus, alone or, while a response is being read, in
\* one segment with the end of that response.
PipeRead(c) ==
  /\ c \in open /\ surplus[c] = "socket"
  /\ \/ surplus' = [surplus EXCEPT ![c] = "pipe"]
     \/ /\ \E r \in Req : pc[r] = "serving" /\ bc[r] = c
        /\ surplus' = [surplus EXCEPT ![c] = "bufio"]
  /\ counted' = counted \cup {c}
  /\ UNCHANGED <<poolVars, reqVars, open, gone, pe, late, lifeVars>>

\* Mutant: pipeRead returns without recording the error.
PipeEndsUnrecorded(c) ==
  /\ c \in (open \cap gone) \ pe
  /\ UNCHANGED vars

\* pipeRead gets the error of a closed peer and records it.  It gets there
\* only when everything it has read before is consumed.
PipeEnds(c) ==
  /\ c \in (open \cap gone) \ pe
  /\ surplus[c] \in {"none", "bufio"}
  /\ pe' = pe \cup {c}
  /\ UNCHANGED <<poolVars, reqVars, open, gone, counted, surplus, late, lifeVars>>

-----------------------------------------------------------------------------
(* The worker, and the life of the server.                                 *)

\* One tick of worker: it locks bcsMu, asks every pooled connection, and
\* unlocks bcsMu.
Tick ==
  /\ worker = "select" /\ worker' = "tick"
  /\ UNCHANGED <<poolVars, reqVars, connVars, shared, closing, toSweep, bcsMu>>

SweepLock ==
  /\ worker = "tick" /\ worker' = "sweep"
  /\ bcsMu = "free" /\ bcsMu' = "worker"
  /\ toSweep' = bcs
  /\ UNCHANGED <<poolVars, reqVars, connVars, shared, closing>>

\* Mutant: the worker drops dead connections without closing them.
SweepConnKeepsOpen(c) ==
  /\ c \in toSweep /\ toSweep' = toSweep \ {c}
  /\ IF c \in pe THEN Evict({c}) ELSE UNCHANGED <<bcs, idle, total>>
  /\ UNCHANGED <<active, reqVars, connVars, shared, closing, worker, bcsMu>>

SweepConn(c) ==
  /\ c \in toSweep /\ toSweep' = toSweep \ {c}
  /\ IF c \in pe THEN Evict({c}) /\ CloseConns({c})
                 ELSE UNCHANGED <<bcs, idle, total, sockVars>>
  /\ UNCHANGED <<active, reqVars, late, shared, closing, worker, bcsMu>>

SweepUnlock ==
  /\ worker = "sweep" /\ toSweep = {}
  /\ worker' = "select" /\ bcsMu' = "free"
  /\ UNCHANGED <<poolVars, reqVars, connVars, shared, closing, toSweep>>

Sweep == Tick \/ SweepLock \/ SweepUnlock \/ \E c \in Conn : SweepConn(c)

WorkerExits ==
  /\ worker = "select" /\ CtxDone
  /\ worker' = "gone"
  /\ UNCHANGED <<poolVars, reqVars, connVars, shared, closing, toSweep, bcsMu>>

\* HTTPBackend.Fork hands the server on to the backend of a new configuration.
SetShared ==
  /\ ~shared /\ ~CtxDone
  /\ shared' = TRUE
  /\ UNCHANGED <<poolVars, reqVars, connVars, closing, sweepVars>>

\* Mutant: Close takes bcsMu before it waits for the worker.
CloseCallLocks ==
  /\ ~CtxDone /\ bcsMu = "free"
  /\ shared' = FALSE
  /\ closing' = IF shared THEN closing ELSE "wait"
  /\ bcsMu' = IF shared THEN bcsMu ELSE "close"
  /\ UNCHANGED <<poolVars, reqVars, connVars, worker, toSweep>>

\* Close up to its wait for the worker.  The close of a shared server only
\* gives up the share.
CloseCall ==
  /\ ~CtxDone
  /\ shared' = FALSE
  /\ closing' = IF shared THEN closing ELSE "wait"
  /\ UNCHANGED <<poolVars, reqVars, connVars, sweepVars>>

\* Close after workerWg.Wait(): it empties the pool.
CloseDrain ==
  /\ closing = "wait" /\ worker = "gone" /\ bcsMu # "worker"
  /\ Evict(bcs)
  /\ CloseConns(bcs)
  /\ closing' = "closed"
  /\ UNCHANGED <<active, reqVars, late, shared, sweepVars>>

-----------------------------------------------------------------------------

\* What a request that is let in does until it is out again.
Proceed(r) ==
  \/ TakeConn(r) \/ CountActive(r) \/ DialOk(r) \/ DialFail(r)
  \/ FinishOk(r) \/ FinishErr(r) \/ CheckIdle(r) \/ Uncount(r) \/ PoolConn(r)

Request(r) == Admit(r) \/ Proceed(r)

Connection(c) ==
  \/ LateEngressEnds(c) \/ PeerCloses(c) \/ PeerSendsSurplus(c)
  \/ PipeRead(c) \/ PipeEnds(c)

Life == Sweep \/ WorkerExits \/ SetShared \/ CloseCall \/ CloseDrain

Next ==
  \/ \E r \in Req : Request(r)
  \/ \E c \in Conn : Connection(c)
  \/ Life

Spec == Init /\ [][Next]_vars

\* Goroutines are scheduled, dials end (connecttimeout) and so do requests
\* (the timeout of the backend or the frontend).  A sync.Mutex is handed to who
\* has waited for long, and the worker hears its context although ticks are
\* there: a select chooses at random, and Close stops the ticker.  Nothing is
\* assumed of peers, of new requests, of reloads.
Fairness ==
  /\ \A r \in Req : SF_vars(Proceed(r))
  /\ \A c \in Conn :
       WF_vars(LateEngressEnds(c)) /\ WF_vars(PipeRead(c) \/ PipeEnds(c))
  /\ WF_vars(Sweep) /\ SF_vars(WorkerExits) /\ WF_vars(CloseDrain)

FairSpec == Spec /\ Fairness

-----------------------------------------------------------------------------
(* What a pool must promise.                                               *)

\* Requests between the two changes of activeConnCount they make.
Counted == {r \in Req : pc[r] \in {"dialing", "serving", "served", "releasing"}}

\* Requests from the moment they may have taken a connection out of the pool.
InPool == {r \in Req : pc[r] \notin {"out", "admitted"}}

\* A request and its connection: held from TakeConn or DialOk to PoolConn.
Holds(r, c) == bc[r] = c

\* The three counters, all changed apart from what they count, are exact
\* whenever no request is between a counter and the mutex: the counters that
\* servermaxconn, servermaxidleconn and the leastconn and affinitykey modes
\* read (httpbackend.go:306, 563, 602) never drift over any run.
CountersExact ==
  /\ active = Cardinality(Counted)
  /\ idle = Cardinality(bcs)
  /\ total = active + idle

\* No socket is forgotten: one that this side has not closed is in the pool
\* or in the hands of a request, whatever ConnAcquire, ConnRelease, the worker
\* and Close did to it in whatever order.
NoLeak == \A c \in open : c \in bcs \/ \E r \in Req : Holds(r, c)

\* A connection has one user: two requests never hold the same one, a pooled
\* one is held by none, and one that a left-behind serveEngress may still read
\* or write is closed, so it cannot be pooled or handed out.
ExclusiveUse ==
  /\ \A r, s \in Req : r # s /\ bc[r] # NoConn => bc[r] # bc[s]
  /\ \A r \in Req : bc[r] \notin bcs
  /\ late \cap open = {} /\ bcs \subseteq open

\* After Close has drained the pool nothing gets into it again: a ConnRelease
\* that Close overtakes sees the cancelled context and closes its connection.
DrainedStaysEmpty == closing = "closed" => bcs = {}

\* Pooled connections and requests that use or dial one are together never
\* more than the requests there are: a server is never left with more sockets
\* than its peak of concurrent requests needed, with servermaxidleconn or
\* without, because ConnAcquire dials only after the pool is empty.
PeakBound == Cardinality(bcs) + Cardinality(InPool) <= Cardinality(Req)

\* README.md:105 says servermaxconn is the maximum number of active connections
\* per backend server.  serve compares and counts in two steps.
ActiveLimit == ServerMaxConn > 0 => active <= ServerMaxConn

\* "closed backend connection because unexpected read or write"
\* (backendserver.go:197): a connection over which something was read that no
\* request asked for is not used again.  Whatever pipeRead has read ahead and
\* nobody has consumed must show in Stats().
SurplusShows == \A c \in bcs : surplus[c] = "pipe" => c \in counted

\* A pooled connection whose peer has closed it leaves the pool, if only
\* because the worker sweeps it, unless unread surplus blocks its pipeRead.
DeadIdleEvicted ==
  \A c \in Conn : c \in bcs \cap gone /\ surplus[c] = "none" ~> c \notin bcs

\* Close comes to its end: the worker it waits for gets bcsMu for the sweep it
\* may be about to begin, and stops.
CloseCompletes == closing = "wait" ~> closing = "closed"

\* A closed server gives back every socket, those of requests that were under
\* way included: each one still open is closed in time.
ClosedGivesBackSockets ==
  \A c \in Conn : closing = "closed" /\ c \in open ~> c \notin open

=============================================================================

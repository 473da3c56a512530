---------------------------- MODULE HTTPFrontend ----------------------------
(***************************************************************************)
(* The life of client connections on one HTTPFrontend                      *)
(* (pkg/lb/httpfrontend.go): Serve with its keep-alive loop, the goroutine *)
(* that peeks for the first byte of the next request, the four counters    *)
(* and the limits that are compared with them, and the timeouts.           *)
(*                                                                         *)
(* A request itself is one step here, with the two outcomes that HTTPServe *)
(* shows to be possible: the connection is kept or it is closed.           *)
(***************************************************************************)
EXTENDS Integers, FiniteSets

CONSTANTS
  Conn,              \* client connections; one is used again when it is over
  MaxConn, MaxIdleConn, MaxKeepAliveReqs,
  Configs            \* the sets of timeouts that a configuration may set

AllTimeouts == {"request", "keepalive", "serve"}

ASSUME ConnFinite == IsFiniteSet(Conn)
ASSUME LimitsAreInts == MaxConn \in Int /\ MaxIdleConn \in Int
ASSUME ReqsAreInt == MaxKeepAliveReqs \in Int
ASSUME ConfigsAreSets == Configs \subseteq SUBSET AllTimeouts

VARIABLES
  timeouts,      \* those of this frontend that are set
  down,          \* the context of the listener is done
  total, waiting, idle, active,  \* the counters of the frontend
  pc,            \* where Serve is
  reqIdx,        \* how many requests there were before this one
  peeker,        \* the goroutine that peeks, or what it has sent
  late,          \* the keep-alive timeout has passed
  side,          \* the client: "there", "stalled" (not reading) or "gone"
  bytes,         \* the client has sent something that was not read
  open,          \* the connection is not closed on this side
  paged          \* the page for a timed out request is in the buffer

counters == <<total, waiting, idle, active>>
serveVars == <<pc, reqIdx, peeker, late, open, paged>>
clientVars == <<side, bytes>>
vars == <<timeouts, down, counters, serveVars, clientVars>>

PC == {"out", "accepted", "admitted", "top", "select", "serving", "kept",
       "cut", "compare", "leaving", "left"}

\* The peeker is reading, or is done and has sent what it found: a byte, the
\* end of the connection or another error, or that the read deadline passed.
Peeker == {"off", "reading", "ok", "err", "timeout"}

\* Which connections a counter stands for.  A peeker that Serve did not wait
\* for is counted until it returns.
InTotal == {c \in Conn : pc[c] \in PC \ {"out", "accepted", "admitted", "left"}}
IsWaiting == {c \in Conn : peeker[c] = "reading" /\ reqIdx[c] = 0}
IsIdle == {c \in Conn : peeker[c] = "reading" /\ reqIdx[c] > 0}
IsActive == {c \in Conn : pc[c] \in {"serving", "kept", "cut"}}

TypeOK ==
  /\ timeouts \in Configs /\ down \in BOOLEAN
  /\ total \in Nat /\ waiting \in Nat /\ idle \in Nat /\ active \in Nat
  /\ pc \in [Conn -> PC] /\ reqIdx \in [Conn -> Nat]
  /\ peeker \in [Conn -> Peeker]
  /\ late \subseteq Conn /\ open \subseteq Conn /\ paged \subseteq Conn
  /\ side \in [Conn -> {"there", "stalled", "gone"}] /\ bytes \subseteq Conn
  \* Serve works on an open connection, unless the request was cut.
  /\ \A c \in Conn : pc[c] \in PC \ {"out", "cut", "leaving", "left"} => c \in open
  \* A peeker is started by the loop and heard or left behind by it.
  /\ \A c \in Conn : peeker[c] # "off" =>
       pc[c] \in {"select", "leaving", "left", "out"}

Init ==
  /\ timeouts \in Configs /\ down = FALSE
  /\ total = 0 /\ waiting = 0 /\ idle = 0 /\ active = 0
  /\ pc = [c \in Conn |-> "out"] /\ reqIdx = [c \in Conn |-> 0]
  /\ peeker = [c \in Conn |-> "off"]
  /\ late = {} /\ open = {} /\ paged = {}
  /\ side = [c \in Conn |-> "there"] /\ bytes = {}

Goto(c, from, to) == pc[c] = from /\ pc' = [pc EXCEPT ![c] = to]

-----------------------------------------------------------------------------
(* The client, the clock and the listener.                                 *)

ClientSends(c) ==
  /\ c \in open /\ side[c] # "gone"
  /\ bytes' = bytes \cup {c}
  /\ UNCHANGED <<timeouts, down, counters, serveVars, side>>

ClientLeavesOrStalls(c) ==
  /\ c \in open
  /\ \/ side[c] = "there" /\ side' = [side EXCEPT ![c] = "stalled"]
     \/ side[c] # "gone" /\ side' = [side EXCEPT ![c] = "gone"]
  /\ UNCHANGED <<timeouts, down, counters, serveVars, bytes>>

\* context.WithTimeout(ctx, KeepAliveTimeout), made after the first request.
KeepAliveExpires(c) ==
  /\ pc[c] = "select" /\ reqIdx[c] > 0 /\ "keepalive" \in timeouts
  /\ late' = late \cup {c}
  /\ UNCHANGED <<timeouts, down, counters, pc, reqIdx, peeker, open, paged,
                 clientVars>>

\* The listener is closed, by the reload that drops it or by the end of main.
Shutdown ==
  /\ ~down /\ down' = TRUE
  /\ UNCHANGED <<timeouts, counters, serveVars, clientVars>>

-----------------------------------------------------------------------------
(* The beginning of Serve.                                                 *)

\* The accepter has a connection and calls Serve.
Accept(c) ==
  /\ ~down /\ peeker[c] # "reading"
  /\ Goto(c, "out", "accepted")
  /\ reqIdx' = [reqIdx EXCEPT ![c] = 0]
  /\ peeker' = [peeker EXCEPT ![c] = "off"]
  /\ late' = late \ {c} /\ paged' = paged \ {c}
  /\ open' = open \cup {c}
  /\ side' = [side EXCEPT ![c] = "there"] /\ bytes' = bytes \ {c}
  /\ UNCHANGED <<timeouts, down, counters>>

\* Mutant: the count is taken back when the connection is refused, too.
AdmitUncounts(c) ==
  /\ Goto(c, "accepted", IF MaxConn > 0 /\ total >= MaxConn THEN "leaving"
                                                            ELSE "admitted")
  /\ UNCHANGED <<timeouts, down, counters, reqIdx, peeker, late, open, paged,
                 clientVars>>

\* The comparison with maxconn; counting is a step of its own.
Admit(c) ==
  /\ Goto(c, "accepted", IF MaxConn > 0 /\ total >= MaxConn THEN "left"
                                                            ELSE "admitted")
  /\ UNCHANGED <<timeouts, down, counters, reqIdx, peeker, late, open, paged,
                 clientVars>>

Count(c) ==
  /\ Goto(c, "admitted", "top")
  /\ total' = total + 1
  /\ UNCHANGED <<timeouts, down, waiting, idle, active, reqIdx, peeker, late,
                 open, paged, clientVars>>

-----------------------------------------------------------------------------
(* The loop.                                                               *)

StartPeek(c) ==
  /\ Goto(c, "top", "select")
  /\ peeker' = [peeker EXCEPT ![c] = "reading"]
  /\ IF reqIdx[c] > 0 THEN idle' = idle + 1 /\ UNCHANGED waiting
                      ELSE waiting' = waiting + 1 /\ UNCHANGED idle
  /\ late' = late \ {c}
  /\ UNCHANGED <<timeouts, down, total, active, reqIdx, open, paged, clientVars>>

\* What Peek may find: with TLS it fails, too, on bytes that are no handshake.
Finds(c, found) ==
  /\ found = "ok" => c \in bytes
  /\ found = "err" => side[c] = "gone" \/ c \notin open \/ c \in bytes
  /\ found = "timeout" => reqIdx[c] = 0 /\ "request" \in timeouts

\* Mutant: the goroutine shares reqIdx with the loop, which adds one to it
\* when it ends.
PeekReturnsLater(c) ==
  /\ peeker[c] = "reading"
  /\ \E found \in {"ok", "err", "timeout"} :
       Finds(c, found) /\ peeker' = [peeker EXCEPT ![c] = found]
  /\ IF reqIdx[c] > 0 \/ pc[c] # "select"
       THEN idle' = idle - 1 /\ UNCHANGED waiting
       ELSE waiting' = waiting - 1 /\ UNCHANGED idle
  /\ UNCHANGED <<timeouts, down, total, active, pc, reqIdx, late, open, paged,
                 clientVars>>

\* Peek returns, the goroutine takes itself off the counter and sends.
PeekReturns(c) ==
  /\ peeker[c] = "reading"
  /\ \E found \in {"ok", "err", "timeout"} :
       Finds(c, found) /\ peeker' = [peeker EXCEPT ![c] = found]
  /\ IF reqIdx[c] > 0 THEN idle' = idle - 1 /\ UNCHANGED waiting
                      ELSE waiting' = waiting - 1 /\ UNCHANGED idle
  /\ UNCHANGED <<timeouts, down, total, active, pc, reqIdx, late, open, paged,
                 clientVars>>

\* readErrCh has an error; a timed out first request is told so.
HearError(c) ==
  /\ peeker[c] \in {"err", "timeout"}
  /\ Goto(c, "select", "leaving")
  /\ paged' = IF peeker[c] = "timeout" THEN paged \cup {c} ELSE paged
  /\ peeker' = [peeker EXCEPT ![c] = "off"]
  /\ UNCHANGED <<timeouts, down, counters, reqIdx, late, open, clientVars>>

\* readErrCh has nil: there is a request, and serve begins with it.
HearRequest(c) ==
  /\ peeker[c] = "ok"
  /\ Goto(c, "select", "serving")
  /\ peeker' = [peeker EXCEPT ![c] = "off"]
  /\ active' = active + 1
  /\ bytes' = bytes \ {c}
  /\ UNCHANGED <<timeouts, down, total, waiting, idle, reqIdx, late, open,
                 paged, side>>

\* Mutant: the select waits for the context without the keep-alive timeout.
KeepAliveUnheard(c) ==
  /\ down
  /\ Goto(c, "select", "leaving")
  /\ UNCHANGED <<timeouts, down, counters, reqIdx, peeker, late, open, paged,
                 clientVars>>

\* The context is done: the peeker is left behind.
CtxDone(c) ==
  /\ down \/ c \in late
  /\ Goto(c, "select", "leaving")
  /\ UNCHANGED <<timeouts, down, counters, reqIdx, peeker, late, open, paged,
                 clientVars>>

\* serve returns: nil with the connection as it was, or an error after having
\* closed it.
ServeReturns(c) ==
  /\ \/ Goto(c, "serving", "kept") /\ UNCHANGED open
     \/ Goto(c, "serving", "cut") /\ open' = open \ {c}
  /\ UNCHANGED <<timeouts, down, counters, reqIdx, peeker, late, paged,
                 clientVars>>

\* An error has set done, and the comparison that follows changes nothing.
Uncount(c) ==
  /\ Goto(c, "kept", "compare") \/ Goto(c, "cut", "leaving")
  /\ active' = active - 1
  /\ UNCHANGED <<timeouts, down, total, waiting, idle, reqIdx, peeker, late,
                 open, paged, clientVars>>

\* The limits under which a connection is not kept.
Enough(c) ==
  \/ MaxIdleConn > 0 /\ idle >= MaxIdleConn
  \/ MaxKeepAliveReqs >= 0 /\ reqIdx[c] >= MaxKeepAliveReqs

Compare(c) ==
  /\ Goto(c, "compare", IF Enough(c) THEN "leaving" ELSE "top")
  /\ reqIdx' = IF Enough(c) THEN reqIdx ELSE [reqIdx EXCEPT ![c] = @ + 1]
  /\ UNCHANGED <<timeouts, down, counters, peeker, late, open, paged,
                 clientVars>>

-----------------------------------------------------------------------------
(* The end of Serve.                                                       *)

Leave(c) ==
  /\ Goto(c, "leaving", "left")
  /\ total' = total - 1
  /\ UNCHANGED <<timeouts, down, waiting, idle, active, reqIdx, peeker, late,
                 open, paged, clientVars>>

\* The deferred Flush has nothing to write, or the socket takes or refuses it.
Flushes(c) == ~(c \in paged /\ side[c] = "stalled")

\* feConn.Flush(); the accepter closes the connection when Serve has returned.
Return(c) ==
  /\ Flushes(c)
  /\ Goto(c, "left", "out")
  /\ open' = open \ {c}
  /\ UNCHANGED <<timeouts, down, counters, reqIdx, peeker, late, paged,
                 clientVars>>

-----------------------------------------------------------------------------

\* What the goroutine of Serve does outside of serve.
Serve(c) ==
  \/ Admit(c) \/ Count(c) \/ StartPeek(c) \/ HearError(c) \/ HearRequest(c)
  \/ CtxDone(c) \/ Uncount(c) \/ Compare(c) \/ Leave(c) \/ Return(c)

Outside(c) ==
  Accept(c) \/ ClientSends(c) \/ ClientLeavesOrStalls(c) \/ KeepAliveExpires(c)

Next ==
  \/ Shutdown
  \/ \E c \in Conn : Serve(c) \/ PeekReturns(c) \/ ServeReturns(c) \/ Outside(c)

Spec == Init /\ [][Next]_vars

\* The context of serve ends, and with it, by HTTPServe's TimeoutEnds, serve,
\* unless it flushes to a client that does not read.
ServeBounded(c) ==
  /\ down \/ "serve" \in timeouts \/ (reqIdx[c] > 0 /\ "keepalive" \in timeouts)
  /\ side[c] # "stalled"

\* Goroutines are scheduled and timers that are set expire.  Nothing is
\* assumed of clients or of the listener.
Fairness ==
  \A c \in Conn :
    /\ WF_vars(Serve(c)) /\ WF_vars(PeekReturns(c)) /\ WF_vars(KeepAliveExpires(c))
    /\ WF_vars(ServeBounded(c) /\ ServeReturns(c))

FairSpec == Spec /\ Fairness

-----------------------------------------------------------------------------

\* Each counter is the number of goroutines in the state it stands for, on
\* every path through the loop and although the peeker takes itself off
\* later than Serve ends: maxconn and maxidleconn are compared with them.
CountersExact ==
  /\ total = Cardinality(InTotal)
  /\ waiting = Cardinality(IsWaiting)
  /\ idle = Cardinality(IsIdle)
  /\ active = Cardinality(IsActive)

Ended(c) == pc[c] = "out" /\ peeker[c] # "reading"

\* A client that has stopped reading holds up a flush before a close.
StuckInFlush(c) ==
  side[c] = "stalled" /\ (pc[c] = "serving" \/ (pc[c] = "left" /\ ~Flushes(c)))

\* With all timeouts set and a limit of requests, every connection ends, with
\* its peeker, whatever its client does; and without any, once the listener is
\* closed.  The exception is a flush that nothing bounds.
ConnectionsEnd ==
  \A c \in Conn :
    (timeouts = AllTimeouts \/ down) ~> (Ended(c) \/ StuckInFlush(c))

=============================================================================

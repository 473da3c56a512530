----------------------------- MODULE HTTPServe -----------------------------
(***************************************************************************)
(* One request, from HTTPFrontend.serve (pkg/lb/httpfrontend.go) to the    *)
(* answer: the goroutines of HTTPFrontend.serveAsync, HTTPBackend.serve    *)
(* and serveAsync, serveIngress and serveEngress (pkg/lb/httpbackend.go),  *)
(* the timeouts that close connections under them, the backup backend, and *)
(* a client and a server that send, go away or stop reading at any moment. *)
(*                                                                         *)
(* A write goes into the buffer of a bufConn in one step and to the socket *)
(* in another, which blocks while the peer has stopped reading.  What two  *)
(* goroutines that flush the same buffer at once put on the wire is not    *)
(* modelled: that happens only just before the connection is closed.       *)
(***************************************************************************)
EXTENDS RouteRestriction

CONSTANTS
  Shapes,  \* the kinds of request and answer that occur
  Tables   \* the routes that a frontend may have

VARIABLES
  shape,      \* what the request and its answer look like
  meant,      \* its route is found, and is meant to refuse it
  client,     \* what the client has sent of the request
  feSide,     \* the client: "there", "stalled" (it has stopped reading and
              \* its window is full) or "gone" (it has closed or reset)
  server,     \* what the server has sent of its answer
  beSide,     \* the server, likewise
  feOpen,     \* feConn is not closed on this side
  feBuf,      \* feConn.Writer holds bytes
  beOpen, beBuf,
  said,       \* what was written to feConn while it was open
  taken,      \* the backends whose serve got a connection for the request
  feCtx,      \* the context of HTTPFrontend.serve is done
  beCtx,      \* the timeout of the backend has passed
  fe,         \* where HTTPFrontend.serve is
  asy,        \* where HTTPFrontend.serveAsync is
  asyErr,     \* the error it sends on errCh
  which,      \* the backend it calls
  final,      \* reqDesc.beFinal
  be,         \* where HTTPBackend.serve is
  basy,       \* where HTTPBackend.serveAsync is
  basyErr,
  ing,        \* where serveIngress is
  ingErr,
  egr,        \* where serveEngress is
  egrErr

reqVars == <<shape, meant>>
peerVars == <<client, feSide, server, beSide>>
feConnVars == <<feOpen, feBuf, said>>
beConnVars == <<beOpen, beBuf>>
ctxVars == <<feCtx, beCtx>>
asyVars == <<asy, asyErr, which, final>>
callVars == <<be, taken>>
basyVars == <<basy, basyErr>>
ingVars == <<ing, ingErr>>
egrVars == <<egr, egrErr>>
vars == <<reqVars, peerVars, feConnVars, beConnVars, ctxVars, fe, asyVars,
          callVars, basyVars, ingVars, egrVars>>

\* Bodies of a request: none; one with a Content-Length; one framed by
\* Transfer-Encoding alone; one whose Content-Length does not parse.
ReqBodies == {"empty", "sized", "unsized", "bad"}

\* Bodies of an answer: none (HEAD, Content-Length 0); one that ends where its
\* length or its last chunk says; one that ends with the connection; one that
\* writeHTTPBody refuses.
ResBodies == {"none", "sized", "eof", "bad"}

Sides == {"there", "stalled", "gone"}

\* cont: the client expects and the server sends an interim answer.
AllShapes == [reqBody : ReqBodies, resBody : ResBodies,
              cont : BOOLEAN, backup : BOOLEAN]

ASSUME ShapesAreShapes == Shapes \subseteq AllShapes
ASSUME TablesAreTables == Tables \subseteq RoutingTable

ClientGone == feSide = "gone"
ServerGone == beSide = "gone"

TypeOK ==
  /\ shape \in Shapes /\ meant \in BOOLEAN
  /\ client \in {"nothing", "head", "all"}
  /\ server \in {"nothing", "continue", "head", "all"}
  /\ feSide \in Sides /\ beSide \in Sides
  /\ feOpen \in BOOLEAN /\ feBuf \in BOOLEAN
  /\ beOpen \in BOOLEAN /\ beBuf \in BOOLEAN
  /\ said \in Seq({"page", "forbidden", "continue", "head", "bare", "body"})
  /\ taken \subseteq {"main", "backup"}
  /\ feCtx \in BOOLEAN /\ beCtx \in BOOLEAN
  /\ fe \in {"select", "flush", "await", "kept", "closed"}
  /\ asy \in {"header", "route", "call", "finish", "end"}
  /\ asyErr \in BOOLEAN /\ final \in BOOLEAN
  /\ which \in {"main", "backup"}
  /\ be \in {"idle", "connect", "select", "flushFe", "flushBe", "await"}
  /\ basy \in {"off", "ingress", "egress", "end"} /\ basyErr \in BOOLEAN
  /\ ing \in {"off", "head", "flushHead", "read", "body", "flushBody",
              "flushPart", "end"}
  /\ egr \in {"off", "head", "flushContinue", "head2", "flushHead", "read",
              "flushBody", "flushPart", "end"}
  /\ ingErr \in BOOLEAN /\ egrErr \in BOOLEAN
  \* Who runs inside whom.
  /\ be # "idle" <=> asy = "call"
  /\ fe \in {"kept", "closed"} => asy = "end"

Init ==
  /\ shape \in Shapes /\ meant = FALSE
  /\ client = "nothing" /\ feSide = "there"
  /\ server = "nothing" /\ beSide = "there"
  /\ feOpen = TRUE /\ feBuf = FALSE /\ said = <<>>
  /\ beOpen = FALSE /\ beBuf = FALSE /\ taken = {}
  /\ feCtx = FALSE /\ beCtx = FALSE
  /\ fe = "select"
  /\ asy = "header" /\ asyErr = FALSE /\ which = "main" /\ final = FALSE
  /\ be = "idle"
  /\ basy = "off" /\ basyErr = FALSE
  /\ ing = "off" /\ ingErr = FALSE /\ egr = "off" /\ egrErr = FALSE

-----------------------------------------------------------------------------
(* The peers and the clock.                                                *)

\* When the connection is kept, what peers do next is about another request.
UnderWay == fe # "kept"

ClientSends ==
  /\ UnderWay /\ feOpen /\ ~ClientGone /\ client # "all"
  /\ client' = IF client = "nothing" /\ shape.reqBody \in {"sized", "unsized"}
                 THEN "head" ELSE "all"
  /\ UNCHANGED <<reqVars, feSide, server, beSide, feConnVars, beConnVars,
                 ctxVars, fe, asyVars, callVars, basyVars, ingVars, egrVars>>

\* A server answers from when it has the head of the request, and need not
\* wait for the body.
ServerSends ==
  /\ UnderWay /\ beOpen /\ ~ServerGone /\ server # "all"
  /\ ing \notin {"off", "head", "flushHead"}
  /\ server' = CASE server = "nothing" /\ shape.cont -> "continue"
                 [] server = "head" -> "all"
                 [] OTHER -> "head"
  /\ UNCHANGED <<reqVars, client, feSide, beSide, feConnVars, beConnVars,
                 ctxVars, fe, asyVars, callVars, basyVars, ingVars, egrVars>>

\* A side that has stopped reading may still go away.
Worse(side) ==
  IF side = "there" THEN {"stalled", "gone"} ELSE {"gone"} \ {side}

PeerLeavesOrStalls ==
  /\ UnderWay
  /\ \/ feOpen /\ feSide' \in Worse(feSide) /\ UNCHANGED beSide
     \/ beOpen /\ beSide' \in Worse(beSide) /\ UNCHANGED feSide
  /\ UNCHANGED <<reqVars, client, server, feConnVars, beConnVars, ctxVars, fe,
                 asyVars, callVars, basyVars, ingVars, egrVars>>

\* A timeout of the frontend, the keep-alive timeout of the connection or the
\* end of the listener; the timeout of the backend.
Expire ==
  /\ \/ fe = "select" /\ feCtx' = TRUE /\ UNCHANGED beCtx
     \/ be = "select" /\ beCtx' = TRUE /\ UNCHANGED feCtx
  /\ UNCHANGED <<reqVars, peerVars, feConnVars, beConnVars, fe, asyVars,
                 callVars, basyVars, ingVars, egrVars>>

-----------------------------------------------------------------------------
(* Writing.                                                                *)

\* A write into feConn: nobody hears it once feConn is closed.
Say(part) ==
  /\ said' = IF feOpen THEN Append(said, part) ELSE said
  /\ feBuf' = TRUE
  /\ UNCHANGED feOpen

\* Flush has nothing to write, or the socket takes it or refuses it.
FeFlushes == ~(feBuf /\ feSide = "stalled" /\ feOpen)
BeFlushes == ~(beBuf /\ beSide = "stalled" /\ beOpen)

-----------------------------------------------------------------------------
(* HTTPFrontend.serve.                                                     *)

\* The select: the context is done, or serveAsync has sent its error.
FeSelects ==
  /\ fe = "select"
  /\ \/ feCtx /\ fe' = "flush"
     \/ asy = "end" /\ fe' = IF asyErr THEN "flush" ELSE "kept"
  /\ UNCHANGED <<reqVars, peerVars, feConnVars, beConnVars, ctxVars, asyVars,
                 callVars, basyVars, ingVars, egrVars>>

\* feConn.Flush() and feConn.Close().
FeCloses ==
  /\ fe = "flush" /\ FeFlushes
  /\ feOpen' = FALSE /\ feBuf' = FALSE
  /\ fe' = "await"
  /\ UNCHANGED <<reqVars, peerVars, said, beConnVars, ctxVars, asyVars, callVars,
                 basyVars, ingVars, egrVars>>

\* Mutant: on a timeout serve does not wait for serveAsync.
FeEndsAtOnce ==
  /\ fe = "await"
  /\ fe' = "closed"
  /\ UNCHANGED <<reqVars, peerVars, feConnVars, beConnVars, ctxVars, asyVars,
                 callVars, basyVars, ingVars, egrVars>>

FeEnds ==
  /\ fe = "await" /\ asy = "end"
  /\ fe' = "closed"
  /\ UNCHANGED <<reqVars, peerVars, feConnVars, beConnVars, ctxVars, asyVars,
                 callVars, basyVars, ingVars, egrVars>>

-----------------------------------------------------------------------------
(* HTTPFrontend.serveAsync and what HTTPBackend.serve does before it has a *)
(* connection.                                                             *)

\* serveAsync writes an error page and ends.
Refuse(page) ==
  /\ Say(page)
  /\ asy' = "end" /\ asyErr' = TRUE
  /\ UNCHANGED <<which, final>>

\* splitHTTPHeader: what has been read ahead is read even after a close.
ReadHeader ==
  /\ asy = "header"
  /\ \/ /\ client # "nothing"
        /\ asy' = "route" /\ UNCHANGED <<asyErr, which, final, feConnVars>>
     \/ /\ client # "nothing" \/ ClientGone \/ ~feOpen
        /\ Refuse("page")
  /\ UNCHANGED <<reqVars, peerVars, beConnVars, ctxVars, fe, callVars, basyVars,
                 ingVars, egrVars>>

\* The read deadline of requesttimeout.
HeaderTimesOut ==
  /\ asy = "header" /\ Refuse("page")
  /\ UNCHANGED <<reqVars, peerVars, beConnVars, ctxVars, fe, callVars, basyVars,
                 ingVars, egrVars>>

\* The rest of the head is malformed.
Malformed ==
  /\ asy = "route" /\ Refuse("page")
  /\ UNCHANGED <<reqVars, peerVars, beConnVars, ctxVars, fe, callVars, basyVars,
                 ingVars, egrVars>>

\* findBackend refuses the request or has a backend for it, and perhaps a
\* backup.
Route ==
  /\ asy = "route"
  /\ \E table \in Tables :
       /\ meant' = MeantToRefuse(table)
       /\ IF findBackend(table) = "none"
            THEN Refuse("forbidden") /\ UNCHANGED be
            ELSE /\ asy' = "call" /\ be' = "connect"
                 /\ which' = "main" /\ final' = ~shape.backup
                 /\ UNCHANGED <<asyErr, feConnVars>>
  /\ UNCHANGED <<shape, peerVars, beConnVars, ctxVars, fe, taken, basyVars,
                 ingVars, egrVars>>

\* HTTPBackend.serve returned an error: the backup gets the request while
\* beFinal is not set, and is final itself.
CallFailed ==
  IF final
    THEN /\ be' = "idle" /\ asy' = "end" /\ asyErr' = TRUE
         /\ UNCHANGED <<which, final>>
    ELSE /\ be' = "connect" /\ which' = "backup" /\ final' = TRUE
         /\ UNCHANGED <<asy, asyErr>>

\* maxconn, no server, servermaxconn, or ConnAcquire failed: the page goes to
\* feConn from a final backend and to a nopWriter from any other.
Refused ==
  /\ be = "connect"
  /\ IF final THEN Say("page") ELSE UNCHANGED feConnVars
  /\ CallFailed
  /\ UNCHANGED <<reqVars, peerVars, beConnVars, ctxVars, fe, taken, basyVars,
                 ingVars, egrVars>>

\* ConnAcquire has a connection and HTTPBackend.serveAsync starts.
Forward ==
  /\ be = "connect"
  /\ taken' = taken \cup {which}
  /\ be' = "select" /\ basy' = "ingress"
  /\ ing' = "head" /\ egr' = "head"
  /\ beOpen' = TRUE /\ beBuf' = FALSE
  /\ UNCHANGED <<reqVars, peerVars, feConnVars, ctxVars, fe, asy, asyErr, which,
                 basyErr, ingErr, egrErr>>

\* Mutant: a request that is being forwarded is not final.
AcquiredNotFinal == Forward /\ UNCHANGED final

Acquired == Forward /\ final' = TRUE

\* After a successful call: bytes of a next request may be buffered already.
Finish ==
  /\ asy = "finish"
  /\ asy' = "end" /\ asyErr' \in BOOLEAN
  /\ UNCHANGED <<reqVars, peerVars, feConnVars, beConnVars, ctxVars, fe, which,
                 final, callVars, basyVars, ingVars, egrVars>>

-----------------------------------------------------------------------------
(* HTTPBackend.serve with a connection.                                    *)

\* Mutant: the context of the backend is not derived from the frontend's.
BeSelectsAlone ==
  /\ be = "select"
  /\ \/ beCtx /\ be' = "flushFe" /\ UNCHANGED asy
     \/ /\ basy = "end"
        /\ IF basyErr THEN be' = "flushFe" /\ UNCHANGED asy
                      ELSE be' = "idle" /\ asy' = "finish"
  /\ UNCHANGED <<reqVars, peerVars, feConnVars, beConnVars, ctxVars, fe, asyErr,
                 which, final, taken, basyVars, ingVars, egrVars>>

\* The select: the context, which includes the frontend's, is done, or
\* HTTPBackend.serveAsync has sent its error.
BeSelects ==
  /\ be = "select"
  /\ \/ /\ feCtx \/ beCtx
        /\ be' = "flushFe" /\ UNCHANGED asy
     \/ /\ basy = "end"
        /\ IF basyErr THEN be' = "flushFe" /\ UNCHANGED asy
                      ELSE be' = "idle" /\ asy' = "finish"
  /\ UNCHANGED <<reqVars, peerVars, feConnVars, beConnVars, ctxVars, fe, asyErr,
                 which, final, taken, basyVars, ingVars, egrVars>>

\* feConn.Flush() and feConn.Close().
BeClosesFe ==
  /\ be = "flushFe" /\ FeFlushes
  /\ feOpen' = FALSE /\ feBuf' = FALSE
  /\ be' = "flushBe"
  /\ UNCHANGED <<reqVars, peerVars, said, beConnVars, ctxVars, fe, asyVars,
                 taken, basyVars, ingVars, egrVars>>

\* Mutant: the connection of the backend is left to ConnRelease.
BeKeepsBe ==
  /\ be = "flushBe" /\ be' = "await"
  /\ UNCHANGED <<reqVars, peerVars, feConnVars, beConnVars, ctxVars, fe, asyVars,
                 taken, basyVars, ingVars, egrVars>>

\* beConn.Flush() and beConn.Close().
BeClosesBe ==
  /\ be = "flushBe" /\ BeFlushes
  /\ beOpen' = FALSE /\ beBuf' = FALSE
  /\ be' = "await"
  /\ UNCHANGED <<reqVars, peerVars, feConnVars, ctxVars, fe, asyVars, taken,
                 basyVars, ingVars, egrVars>>

BeEnds ==
  /\ be = "await" /\ basy = "end"
  /\ CallFailed
  /\ UNCHANGED <<reqVars, peerVars, feConnVars, beConnVars, ctxVars, fe, taken,
                 basyVars, ingVars, egrVars>>

-----------------------------------------------------------------------------
(* HTTPBackend.serveAsync.                                                 *)

\* It waits for ingress first, and for egress only when that went well.
IngressHeard ==
  /\ basy = "ingress" /\ ing = "end"
  /\ basy' = IF ingErr THEN "end" ELSE "egress"
  /\ basyErr' = ingErr
  /\ UNCHANGED <<reqVars, peerVars, feConnVars, beConnVars, ctxVars, fe, asyVars,
                 callVars, ingVars, egrVars>>

\* Mutant: an error of egress is dropped when ingress went well.
EgressUnheard ==
  /\ basy = "egress" /\ egr = "end"
  /\ basy' = "end" /\ basyErr' \in BOOLEAN
  /\ UNCHANGED <<reqVars, peerVars, feConnVars, beConnVars, ctxVars, fe, asyVars,
                 callVars, ingVars, egrVars>>

\* Mutant: serveAsync does not wait for egress when ingress went well.
EgressNotAwaited ==
  /\ basy = "egress" /\ egr # "head"
  /\ basy' = "end" /\ basyErr' = FALSE
  /\ UNCHANGED <<reqVars, peerVars, feConnVars, beConnVars, ctxVars, fe, asyVars,
                 callVars, ingVars, egrVars>>

\* An answer that is whole is still an error when bytes are left over or the
\* server does not keep the connection alive.
EgressHeard ==
  /\ basy = "egress" /\ egr = "end"
  /\ basy' = "end" /\ basyErr' \in {egrErr, TRUE}
  /\ UNCHANGED <<reqVars, peerVars, feConnVars, beConnVars, ctxVars, fe, asyVars,
                 callVars, ingVars, egrVars>>

-----------------------------------------------------------------------------
(* serveIngress.                                                           *)

IngEnds(failed) == ing' = "end" /\ ingErr' = failed

\* The head or the body goes into the buffer of beConn.
IngPuts ==
  /\ \/ ing = "head" /\ ing' = "flushHead"
     \/ ing = "body" /\ ing' = "flushBody"
  /\ beBuf' = TRUE
  /\ UNCHANGED <<reqVars, peerVars, feConnVars, beOpen, ctxVars, fe, asyVars,
                 callVars, basyVars, ingErr, egrVars>>

\* What serveIngress does when the head is out.  A body without a valid
\* Content-Length greater than zero is not transferred.
AfterHead ==
  CASE shape.reqBody = "sized" -> ing' = "read" /\ UNCHANGED ingErr
    [] shape.reqBody = "bad" -> IngEnds(TRUE)
    [] OTHER -> IngEnds(FALSE)

IngFlushes ==
  /\ ing \in {"flushHead", "flushBody", "flushPart"} /\ BeFlushes
  /\ \/ /\ beOpen \/ ~beBuf
        /\ IF ing = "flushHead" THEN AfterHead ELSE IngEnds(ing = "flushPart")
     \/ /\ ServerGone \/ ~beOpen
        /\ IngEnds(TRUE)
  /\ beBuf' = FALSE
  /\ UNCHANGED <<reqVars, peerVars, feConnVars, beOpen, ctxVars, fe, asyVars,
                 callVars, basyVars, egrVars>>

\* The body is read to its end, or a read fails in the midst of it: it is cut
\* off, a chunk is malformed, or the line end after a chunk comes in two
\* pieces.  What there is of it, if any, is flushed all the same.
IngReads ==
  /\ ing = "read"
  /\ \/ client = "all" /\ ing' = "body" /\ UNCHANGED <<beBuf, ingErr>>
     \/ ing' = "flushPart" /\ beBuf' = TRUE /\ UNCHANGED ingErr
     \/ IngEnds(TRUE) /\ UNCHANGED beBuf
  /\ UNCHANGED <<reqVars, peerVars, feConnVars, beOpen, ctxVars, fe, asyVars,
                 callVars, basyVars, egrVars>>

-----------------------------------------------------------------------------
(* serveEngress.                                                           *)

EgrEnds(failed) == egr' = "end" /\ egrErr' = failed

\* splitHTTPHeader and writeHTTPHeader up to its flush.
EgrReadsHead ==
  /\ \/ /\ egr = "head" /\ shape.cont /\ server # "nothing"
        /\ Say("continue") /\ egr' = "flushContinue"
     \/ /\ egr = "head2" \/ ~shape.cont
        /\ egr \in {"head", "head2"} /\ server \in {"head", "all"}
        /\ Say(IF shape.resBody = "none" THEN "bare" ELSE "head")
        /\ egr' = "flushHead"
  /\ UNCHANGED <<reqVars, peerVars, beConnVars, ctxVars, fe, asyVars, callVars,
                 basyVars, ingVars, egrErr>>

\* The body up to its end; one that ends with the connection ends in an error.
EgrReadsBody ==
  /\ egr = "read" /\ server = "all"
  /\ shape.resBody = "eof" => ServerGone \/ ~beOpen
  /\ Say("body")
  /\ egr' = "flushBody"
  /\ UNCHANGED <<reqVars, peerVars, beConnVars, ctxVars, fe, asyVars, callVars,
                 basyVars, ingVars, egrErr>>

\* A read fails: the server is gone, beConn is closed, or what was sent is
\* malformed.  What there is of a body, if any, is flushed all the same.
EgrReadFails ==
  /\ ServerGone \/ ~beOpen \/ server # "nothing"
  /\ \/ egr \in {"head", "head2", "read"} /\ EgrEnds(TRUE) /\ UNCHANGED feBuf
     \/ egr = "read" /\ egr' = "flushPart" /\ feBuf' = TRUE /\ UNCHANGED egrErr
  /\ UNCHANGED <<reqVars, peerVars, feOpen, said, beConnVars, ctxVars, fe,
                 asyVars, callVars, basyVars, ingVars>>

\* What follows a part that was flushed.
AfterFlush ==
  \/ egr = "flushContinue" /\ egr' = "head2" /\ UNCHANGED egrErr
  \/ egr = "flushHead" /\ shape.resBody = "none" /\ EgrEnds(FALSE)
  \/ egr = "flushHead" /\ shape.resBody = "bad" /\ EgrEnds(TRUE)
  \/ /\ egr = "flushHead" /\ shape.resBody \in {"sized", "eof"}
     /\ egr' = "read" /\ UNCHANGED egrErr
  \/ egr = "flushBody" /\ EgrEnds(shape.resBody = "eof")
  \/ egr = "flushPart" /\ EgrEnds(TRUE)

EgrFlushes ==
  /\ egr \in {"flushContinue", "flushHead", "flushBody", "flushPart"}
  /\ FeFlushes
  /\ \/ (feOpen \/ ~feBuf) /\ AfterFlush
     \/ (ClientGone \/ ~feOpen) /\ EgrEnds(TRUE)
  /\ feBuf' = FALSE
  /\ UNCHANGED <<reqVars, peerVars, feOpen, said, beConnVars, ctxVars, fe,
                 asyVars, callVars, basyVars, ingVars>>

-----------------------------------------------------------------------------

Frontend == FeSelects \/ FeCloses \/ FeEnds
Async == ReadHeader \/ Malformed \/ Route \/ Refused \/ Acquired \/ Finish
Backend == BeSelects \/ BeClosesFe \/ BeClosesBe \/ BeEnds
BackendAsync == IngressHeard \/ EgressHeard
Ingress == IngPuts \/ IngFlushes \/ IngReads
Egress == EgrReadsHead \/ EgrReadsBody \/ EgrReadFails \/ EgrFlushes
Outside == ClientSends \/ ServerSends \/ PeerLeavesOrStalls \/ Expire
           \/ HeaderTimesOut

Next ==
  \/ Frontend \/ Async \/ Backend \/ BackendAsync \/ Ingress \/ Egress
  \/ Outside

Spec == Init /\ [][Next]_vars

\* Reads that return although the peer sends nothing more, malformed or not.
IngReadReturns == client = "all" \/ ClientGone \/ ~feOpen
EgrReadBreaks == ServerGone \/ ~beOpen

\* Goroutines are scheduled, and dials end: DialContext has the context, and
\* the system gives up without one.  Peers need not send, read or leave, no
\* timeout need be set, and nothing need be malformed.
Fairness ==
  /\ WF_vars(Frontend) /\ WF_vars(Async) /\ WF_vars(Backend)
  /\ WF_vars(BackendAsync)
  /\ WF_vars(IngPuts \/ IngFlushes \/ (IngReadReturns /\ IngReads))
  /\ WF_vars(EgrReadsHead \/ EgrReadsBody \/ EgrFlushes
             \/ (EgrReadBreaks /\ EgrReadFails))

FairSpec == Spec /\ Fairness

-----------------------------------------------------------------------------
(* What serve promises.                                                    *)

Promised == INSTANCE Exchange
              WITH Backends <- {"main", "backup"},
                   verdict <- IF fe \in {"kept", "closed"} THEN fe ELSE "pending"

\* Every request is refused with one page or forwarded once, answered in
\* order, and its connection is kept only after a whole answer: across the
\* timeouts of both levels, the backup backend and failures of both peers no
\* request is sent to two servers and no page is mixed into an answer.
ImplementsExchange == Promised!ExchangeSpec

\* A connection that the client keeps for its next request is clean: both
\* directions have ended, its body has been read, nothing waits in its buffer,
\* and nothing has closed it or the backend's, which is as clean and goes to
\* the deferred idle limit and ConnRelease (BackendServer).  Bodies framed by
\* Transfer-Encoding alone are excepted: serveIngress does not read them.
KeptMeansClean ==
  fe = "kept" =>
    /\ feOpen /\ beOpen /\ ~feBuf /\ ~beBuf
    /\ ing = "end" /\ ~ingErr /\ egr = "end" /\ ~egrErr
    /\ shape.reqBody # "unsized" => client = "all"

\* The six goroutines of a request leave its connections alone once serve has
\* returned them for further use: nobody reads, writes, flushes or closes any
\* of the two under the next request, on whatever path and in whatever order
\* they have ended.
KeptIsLeftAlone ==
  [][fe = "kept" =>
       UNCHANGED <<fe, feConnVars, beConnVars, asyVars, callVars, basyVars,
                   ingVars, egrVars>>]_vars

\* A request that meets a group of the restrictions of its route never gets a
\* connection to a backend, whatever restrictions and routes come before and
\* after; others are told that they are forbidden for want of a backend only.
\* The code keeps to the first half as long as no list ends in andafter.
RestrictionsDecide ==
  /\ meant => taken = {}
  /\ said = <<"forbidden">> => meant

\* serve flushes into a socket whose peer has stopped reading.
StuckInFlush ==
  \/ (fe = "flush" \/ be = "flushFe") /\ ~FeFlushes
  \/ be = "flushBe" /\ ~BeFlushes

\* A timeout ends the request, whatever the peers do, with one exception: both
\* serves flush before they close, and nothing bounds a flush.
TimeoutEnds == feCtx ~> (fe \in {"kept", "closed"} \/ StuckInFlush)

\* When serve has returned, the goroutines it started end, those it did not
\* wait for included: closing both connections wakes whoever reads or writes.
NothingLeftBehind ==
  fe \in {"kept", "closed"} ~> (ing \in {"off", "end"} /\ egr \in {"off", "end"})

=============================================================================

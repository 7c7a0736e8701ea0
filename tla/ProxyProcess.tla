---------------------------- MODULE ProxyProcess ----------------------------
(***************************************************************************)
(* The process accessgate-proxy, from start-up (module Plugins) to exit.   *)
(* It serves HTTP and, when configured, gRPC: a gRPC call is authorised    *)
(* and then forwarded by two goroutines, one per direction, over one       *)
(* upstream connection that is dialled on first use.  A signal starts a    *)
(* shutdown that is bounded by a deadline.                                 *)
(*                                                                         *)
(* Frames are told apart by their position only, so a direction is a pair  *)
(* of counters: what was put in and what came out.                         *)
(***************************************************************************)
EXTENDS Plugins

CONSTANTS
  Call,        \* gRPC calls at a time
  MaxFrames,   \* frames of a call and direction
  MaxHttp      \* HTTP requests in flight

ASSUME ProcessAssumption ==
  /\ MaxFrames \in Nat /\ MaxHttp \in Nat
  /\ \A s \in Setup : s.grpc \in BOOLEAN /\ s.upstream \in BOOLEAN

VARIABLES
  phase,       \* what main is doing
  deadline,    \* shutdownCtx has expired
  forced,      \* grpcSrv.Stop was called: it does not wait for handlers
  http,        \* HTTP requests in flight
  conn,        \* upstreamForwarder.conn is set
  call         \* the gRPC calls
procVars == <<phase, deadline, forced, http, conn, call>>
vars == <<pluginVars, procVars>>

Idle ==
  [st |-> "idle", sent |-> 0, half |-> FALSE, gone |-> FALSE, c2u |-> "idle", recv |-> 0,
   halfUp |-> FALSE, upEnd |-> "open", resp |-> 0, u2c |-> "idle", got |-> 0, deaf |-> FALSE,
   verdict |-> "none"]

CallState ==
  [st : {"idle", "authz", "dial", "stream", "piping", "ended"},
   sent : 0..MaxFrames, half : BOOLEAN, gone : BOOLEAN,
   c2u : {"idle", "recv", "send", "nil", "eof", "err"}, recv : 0..MaxFrames,
   halfUp : BOOLEAN, upEnd : {"open", "ok", "err"}, resp : 0..MaxFrames,
   u2c : {"idle", "recv", "send", "nil", "err"}, got : 0..MaxFrames, deaf : BOOLEAN,
   verdict : {"none", "denied", "internal", "unimplemented", "unavailable", "upstream", "client", "ok"}]

\* Every variable has its type, start-up's included; the process serves only
\* with a handler that was built (main, bootstrap).
TypeOK ==
  /\ PluginsTypeOK
  /\ phase \in {"starting", "serving", "hooks", "draining", "closing", "http", "exited", "fatal"}
  /\ phase # "starting" => boot = "built"
  /\ deadline \in BOOLEAN /\ forced \in BOOLEAN /\ conn \in BOOLEAN /\ http \in 0..MaxHttp
  /\ call \in [Call -> CallState]

Init ==
  /\ PluginsInit
  /\ phase = "starting" /\ deadline = FALSE /\ forced = FALSE /\ http = 0 /\ conn = FALSE
  /\ call = [c \in Call |-> Idle]

Running == phase \notin {"starting", "exited", "fatal"}
Active(c) == call[c].st \in {"authz", "dial", "stream", "piping"}

-----------------------------------------------------------------------------
(* A gRPC call.  Set changes fields of its record and nothing else.        *)

Set(c, r) == call' = [call EXCEPT ![c] = r] /\ UNCHANGED <<phase, deadline, forced, http>>
End(c, v) == Set(c, [call[c] EXCEPT !.st = "ended", !.verdict = v])

\* The server accepts until GracefulStop; the hooks run before it.  A call that
\* is over, pumps included, makes room for the next.
CallArrives(c) ==
  /\ phase \in {"serving", "hooks"} /\ setup.grpc
  /\ call[c].st \in {"idle", "ended"} /\ call[c].c2u \notin {"recv", "send"}
  /\ Set(c, [Idle EXCEPT !.st = "authz"]) /\ UNCHANGED conn

\* The interceptor asks the engine, which denies, fails or allows; an allowed
\* call goes to the director, or to unknownServiceHandler without an upstream.
Authorize(c) ==
  /\ Running /\ call[c].st = "authz" /\ UNCHANGED conn
  /\ \/ End(c, "denied")
     \/ End(c, "internal")
     \/ ~setup.upstream /\ End(c, "unimplemented")
     \/ setup.upstream /\ Set(c, [call[c] EXCEPT !.st = "dial"])

\* clientConn, under the mutex: the connection is made on first use.
clientConn(c) ==
  /\ Running /\ call[c].st = "dial"
  /\ \/ ~conn /\ End(c, "unavailable") /\ UNCHANGED conn
     \/ Set(c, [call[c] EXCEPT !.st = "stream"]) /\ conn' = TRUE

\* NewStream, and the two pumps.
NewStream(c) ==
  /\ Running /\ call[c].st = "stream" /\ UNCHANGED conn
  /\ \/ End(c, "unavailable")
     \/ ~call[c].gone /\ Set(c, [call[c] EXCEPT !.st = "piping", !.c2u = "recv", !.u2c = "recv"])

\* The client sends, half-closes, or goes away.
ClientSends(c) ==
  /\ Running /\ Active(c) /\ ~call[c].half /\ ~call[c].gone /\ call[c].sent < MaxFrames
  /\ Set(c, [call[c] EXCEPT !.sent = @ + 1]) /\ UNCHANGED conn
ClientHalfCloses(c) ==
  /\ Running /\ Active(c) /\ ~call[c].half /\ ~call[c].gone
  /\ Set(c, [call[c] EXCEPT !.half = TRUE]) /\ UNCHANGED conn
ClientCancels(c) ==
  /\ Running /\ Active(c) /\ ~call[c].gone
  /\ Set(c, [call[c] EXCEPT !.gone = TRUE]) /\ UNCHANGED conn

\* A peer, the client or the upstream, no longer reads what it is sent: the
\* flow-control window of its stream fills up, and SendMsg waits from then on.
PeerStopsReading(c) ==
  /\ Running /\ call[c].st = "piping" /\ ~call[c].deaf
  /\ Set(c, [call[c] EXCEPT !.deaf = TRUE]) /\ UNCHANGED conn

\* The upstream answers, and ends the call with a status.
UpstreamSends(c) ==
  /\ Running /\ call[c].st = "piping" /\ call[c].upEnd = "open" /\ call[c].resp < MaxFrames
  /\ Set(c, [call[c] EXCEPT !.resp = @ + 1]) /\ UNCHANGED conn
UpstreamEnds(c) ==
  /\ Running /\ call[c].st = "piping" /\ call[c].upEnd = "open"
  /\ \E e \in {"ok", "err"} : Set(c, [call[c] EXCEPT !.upEnd = e])
  /\ UNCHANGED conn

\* forwardClientToUpstream: RecvMsg, then SendMsg or CloseSend.  RecvMsg fails
\* when the stream is over and when the frame is over the receive limit.
\* Mutant: the half-close is not passed on.
BugClientRecvEnds(c) ==
  /\ Running /\ call[c].c2u = "recv" /\ UNCHANGED conn
  /\ \/ call[c].sent > call[c].recv /\ Set(c, [call[c] EXCEPT !.c2u = "send"])
     \/ call[c].sent > call[c].recv /\ Set(c, [call[c] EXCEPT !.c2u = "err"])
     \/ call[c].half /\ call[c].sent = call[c].recv /\ Set(c, [call[c] EXCEPT !.c2u = "nil"])
     \/ (call[c].gone \/ call[c].st = "ended") /\ Set(c, [call[c] EXCEPT !.c2u = "err"])
ClientRecv(c) ==
  /\ Running /\ call[c].c2u = "recv" /\ UNCHANGED conn
  /\ \/ call[c].sent > call[c].recv /\ Set(c, [call[c] EXCEPT !.c2u = "send"])
     \/ call[c].sent > call[c].recv /\ Set(c, [call[c] EXCEPT !.c2u = "err"])
     \/ /\ call[c].half /\ call[c].sent = call[c].recv
        /\ Set(c, [call[c] EXCEPT !.c2u = "nil", !.halfUp = TRUE])
     \/ (call[c].gone \/ call[c].st = "ended") /\ Set(c, [call[c] EXCEPT !.c2u = "err"])
\* SendMsg says io.EOF when the upstream has ended the stream.
SendUpstream(c) ==
  /\ Running /\ call[c].c2u = "send" /\ UNCHANGED conn
  /\ \/ ~call[c].gone /\ call[c].st = "piping"
        /\ Set(c, [call[c] EXCEPT !.c2u = "recv", !.recv = @ + 1])
     \/ call[c].upEnd # "open" /\ Set(c, [call[c] EXCEPT !.c2u = "eof"])
     \/ (call[c].gone \/ call[c].st = "ended") /\ Set(c, [call[c] EXCEPT !.c2u = "err"])

\* forwardUpstreamToClient: the status comes after the last frame.
UpstreamRecv(c) ==
  /\ Running /\ call[c].u2c = "recv" /\ UNCHANGED conn
  /\ \/ call[c].resp > call[c].got /\ Set(c, [call[c] EXCEPT !.u2c = "send"])
     \/ /\ call[c].resp = call[c].got /\ call[c].upEnd # "open"
        /\ Set(c, [call[c] EXCEPT !.u2c = IF call[c].upEnd = "ok" THEN "nil" ELSE "err"])
     \/ call[c].gone /\ Set(c, [call[c] EXCEPT !.u2c = "err"])
SendClient(c) ==
  /\ Running /\ call[c].u2c = "send" /\ UNCHANGED conn
  /\ \/ ~call[c].gone /\ Set(c, [call[c] EXCEPT !.u2c = "recv", !.got = @ + 1])
     \/ call[c].gone /\ Set(c, [call[c] EXCEPT !.u2c = "err"])

\* The director waits for the upstream's direction, and looks at the other
\* one only if the upstream ended cleanly.
\* Mutant: it waits for whichever direction ends first.
BugDirector(c) ==
  /\ Running /\ call[c].st = "piping" /\ UNCHANGED conn
  /\ \/ call[c].u2c \in {"nil", "err"} \/ call[c].c2u \in {"nil", "err"}
  /\ End(c, IF call[c].u2c = "err" THEN "upstream"
            ELSE IF call[c].c2u = "err" THEN "client" ELSE "ok")
director(c) ==
  /\ Running /\ call[c].st = "piping" /\ UNCHANGED conn
  /\ call[c].u2c \in {"nil", "err"}
  /\ End(c, IF call[c].u2c = "err" THEN "upstream"
            ELSE IF call[c].c2u = "err" THEN "client" ELSE "ok")

CallStep(c) ==
  \/ CallArrives(c) \/ Authorize(c) \/ clientConn(c) \/ NewStream(c)
  \/ ClientSends(c) \/ ClientHalfCloses(c) \/ ClientCancels(c)
  \/ PeerStopsReading(c) \/ UpstreamSends(c) \/ UpstreamEnds(c)
  \/ ClientRecv(c) \/ SendUpstream(c) \/ UpstreamRecv(c) \/ SendClient(c) \/ director(c)

-----------------------------------------------------------------------------
(* main.                                                                   *)

Keep == UNCHANGED <<conn, call, http, forced, deadline>>

\* The HTTP server is started in a goroutine, then the gRPC listener is bound.
\* An error of either is fatal.
StartServers ==
  /\ phase = "starting" /\ boot = "built" /\ Keep
  /\ phase' = "serving" \/ (setup.grpc /\ phase' = "fatal")
ListenAndServeFails == phase = "serving" /\ phase' = "fatal" /\ Keep

HttpArrives ==
  /\ phase \in {"serving", "hooks", "draining", "closing"} /\ http < MaxHttp
  /\ http' = http + 1 /\ UNCHANGED <<phase, deadline, forced, conn, call>>
HttpDone ==
  /\ Running /\ http > 0
  /\ http' = http - 1 /\ UNCHANGED <<phase, deadline, forced, conn, call>>

\* The deadline runs from the signal on; the hooks come first.
Signal == phase = "serving" /\ phase' = "hooks" /\ Keep
Deadline ==
  /\ phase \in {"hooks", "draining", "closing", "http"} /\ ~deadline
  /\ deadline' = TRUE /\ UNCHANGED <<phase, forced, http, conn, call>>
HooksDone ==
  /\ phase = "hooks"
  /\ phase' = IF setup.grpc THEN "draining" ELSE "http"
  /\ Keep

\* GracefulStop raced with the deadline.  Stop cancels the calls it finds.
\* Mutant: GracefulStop is not raced.
BugStopGRPC ==
  /\ phase = "draining" /\ \A c \in Call : ~Active(c)
  /\ phase' = "closing" /\ Keep
StopGRPC ==
  /\ phase = "draining" /\ phase' = "closing"
  /\ \/ (\A c \in Call : ~Active(c)) /\ UNCHANGED <<call, forced>>
     \/ /\ deadline /\ forced' = TRUE
        /\ call' = [c \in Call |-> IF Active(c) THEN [call[c] EXCEPT !.gone = TRUE] ELSE call[c]]
  /\ UNCHANGED <<deadline, http, conn>>

\* upstreamForwarder.Close.
CloseForwarder ==
  /\ phase = "closing" /\ phase' = "http"
  /\ conn' = FALSE /\ UNCHANGED <<deadline, forced, http, call>>

\* srv.Shutdown closes the listener, then waits for idle connections as long as
\* the deadline allows, which the gRPC drain may have used up.
\* Mutant: it does not wait.
BugShutdown == phase = "http" /\ phase' = "exited" /\ Keep
Shutdown == phase = "http" /\ (http = 0 \/ deadline) /\ phase' = "exited" /\ Keep

MainStep ==
  \/ StartServers \/ ListenAndServeFails \/ HttpArrives \/ HttpDone
  \/ Signal \/ Deadline \/ HooksDone \/ StopGRPC \/ CloseForwarder \/ Shutdown

Next ==
  \/ phase = "starting" /\ PluginsNext /\ UNCHANGED procVars
  \/ MainStep /\ UNCHANGED pluginVars
  \/ (\E c \in Call : CallStep(c)) /\ UNCHANGED pluginVars
Spec == Init /\ [][Next]_vars

\* Main goes on once it has been signalled, the timer of its context fires and
\* the goroutines of a call keep running; an upstream ends a call whose request
\* is complete.  A client owes nothing, and neither does an upstream whose
\* request is not complete.  SendMsg is sure to return while the peer reads, and
\* when the stream is over: then it fails.
SendUpstreamReturns(c) ==
  /\ call[c].deaf => call[c].gone \/ call[c].st = "ended" \/ call[c].upEnd # "open"
  /\ SendUpstream(c)
SendClientReturns(c) ==
  /\ call[c].deaf => call[c].gone
  /\ SendClient(c)
Goroutines(c) ==
  Authorize(c) \/ clientConn(c) \/ NewStream(c) \/ ClientRecv(c) \/ SendUpstreamReturns(c)
FairSpec ==
  /\ Spec
  /\ WF_vars((HooksDone \/ StopGRPC \/ CloseForwarder \/ Shutdown)
              /\ UNCHANGED pluginVars)
  /\ WF_vars(Deadline /\ UNCHANGED pluginVars)
  /\ \A c \in Call :
       /\ WF_vars(Goroutines(c) /\ UNCHANGED pluginVars)
       /\ WF_vars((UpstreamRecv(c) \/ SendClientReturns(c)) /\ UNCHANGED pluginVars)
       /\ WF_vars(director(c) /\ UNCHANGED pluginVars)
       /\ WF_vars(call[c].halfUp /\ UpstreamEnds(c) /\ UNCHANGED pluginVars)

-----------------------------------------------------------------------------
\* A forwarded call is the client's call (grpcserver.go:122).  One that the
\* client sees succeed was ended by the upstream with success, and every frame
\* the upstream sent reached the client before; a client error is reported
\* only when the upstream itself was content; a refused call sends nothing
\* upstream; and the upstream learns that the request is complete only when
\* it is, after its last frame (grpcserver.go:207).
ForwardedWhole ==
  \A c \in Call : LET k == call[c] IN
    /\ k.verdict \in {"ok", "client"} => k.upEnd = "ok" /\ k.got = k.resp
    /\ k.verdict \in {"denied", "internal", "unimplemented", "unavailable"} =>
         k.recv = 0 /\ k.got = 0
    /\ k.halfUp => k.recv = k.sent

\* What a shutdown leaves behind it leaves because its time is up (main.go:74):
\* HTTP requests or gRPC calls in flight at exit only after the deadline, and
\* an upstream connection after the forwarder was closed only when gRPC was
\* stopped by force, which lets a handler that was about to dial go on
\* (grpcserver.go:105).
LeftOnlyAtDeadline ==
  /\ phase = "exited" /\ (http > 0 \/ \E c \in Call : Active(c)) => deadline
  /\ phase \in {"http", "exited"} /\ conn => forced /\ deadline

\* A signal ends the process, whatever clients and upstreams do (main.go:74).
SignalEnds == phase = "hooks" ~> phase = "exited"

\* A forwarded call whose client has finished sending ends (grpcserver.go:122),
\* and both pumps with it, unless the process ends first.  There are two
\* exceptions.  After a frame that could not be received the director waits for
\* an upstream that was not told.  And while a peer does not read, SendMsg
\* (grpcserver.go:221, 254) waits for room: a call has no deadline of its own.
\* Once the call has ended, even a pump that waits for room comes back.
CompleteCallEnds ==
  \A c \in Call :
    /\ (call[c].st = "piping" /\ call[c].half)
         ~> (call[c].st = "ended" \/ call[c].c2u = "err" \/ call[c].deaf \/ ~Running)
    /\ call[c].st = "ended" ~> (call[c].c2u \notin {"recv", "send"} \/ ~Running)
=============================================================================

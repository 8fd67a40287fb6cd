------------------------------ MODULE Gateway ------------------------------
(***************************************************************************)
(* The gateway processes of one machine (gateway/src/gatewayRuntime.ts):   *)
(* who becomes SERVER, how PROXY processes reach it over HTTP              *)
(* (httpGatewayTransport.ts, gatewayServer.ts), and the direct MCP server  *)
(* that may hold the WebSocket port (mcp-server/src/server.ts).            *)
(*                                                                         *)
(* Two ports, each with at most one owner, are all that the processes have *)
(* in common.  The SERVER's request queue is taken by what SerialDispatch  *)
(* says of it.                                                             *)
(***************************************************************************)
EXTENDS Naturals, Sequences, FiniteSets

CONSTANTS
  Processes,
  NoProcess,   \* nobody owns the port, nobody is asked
  Requests     \* calls of tools by the MCP clients of all processes; bound: each
               \* is made once, and again when it is over and its connection is kept

ASSUME GatewayAssumption == NoProcess \notin Processes

VARIABLES
  role,        \* of each process
  http, ws,    \* owners of the two ports
  extension,   \* the process whose bridge the extension is connected to
  linked,      \* the proxies whose transport is _connected
  caller,      \* the process whose client made each call
  call,        \* what that process knows of it
  server,      \* the SERVER that has queued it
  work,        \* its state in the queue of that SERVER
  backlog,     \* the requests that wait in queues, oldest first
  kept         \* the closing SERVER to which the connection that a call used
               \* is still open, idle (keep-alive)

callVars == <<caller, call>>
workVars == <<server, work, backlog>>
vars == <<role, http, ws, extension, linked, callVars, workVars, kept>>

Roles == {"off", "probing", "proxy", "binding", "serving", "closing", "direct", "ended"}
Pending == {"waiting", "running"}
Open == {"probing", "posted", "own"}
Over == {"answered", "failed", "timed out"}

TypeOK ==
  /\ role \in [Processes -> Roles]
  /\ {http, ws, extension} \subseteq Processes \union {NoProcess}
  /\ linked \subseteq Processes
  /\ caller \in [Requests -> Processes \union {NoProcess}]
  /\ call \in [Requests -> {"none"} \union Open \union Over]
  /\ server \in [Requests -> Processes \union {NoProcess}]
  /\ work \in [Requests -> {"none", "resolved", "rejected"} \union Pending]
  /\ backlog \in Seq(Requests)
  /\ kept \in [Requests -> Processes \union {NoProcess}]

Init ==
  /\ role = [p \in Processes |-> "off"]
  /\ http = NoProcess /\ ws = NoProcess /\ extension = NoProcess
  /\ linked = {}
  /\ caller = [r \in Requests |-> NoProcess]
  /\ call = [r \in Requests |-> "none"]
  /\ server = [r \in Requests |-> NoProcess]
  /\ work = [r \in Requests |-> "none"]
  /\ backlog = <<>>
  /\ kept = [r \in Requests |-> NoProcess]

Becomes(p, now) == role' = [role EXCEPT ![p] = now]
Without(port, p) == IF port = p THEN NoProcess ELSE port

(* A proxy's call fails: catch sets _connected to false. *)
Fail(rs) ==
  /\ call' = [r \in Requests |-> IF r \in rs THEN "failed" ELSE call[r]]
  /\ linked' = linked \ {caller[r] : r \in rs}

(* Slip: a queue outlives its connection to the extension. *)
RejectAll_none(p) == UNCHANGED workVars

(* The queue of p rejects whatever it holds. *)
RejectAll(p) ==
  /\ work' = [r \in Requests |->
                IF server[r] = p /\ work[r] \in Pending THEN "rejected" ELSE work[r]]
  /\ backlog' = SelectSeq(backlog, LAMBDA r : server[r] # p)
  /\ UNCHANGED server

(* The process is gone: its ports are free, its connections are cut, and the *)
(* calls that were made by it or posted to it have failed.                   *)
Ends(p) ==
  LET open == {r \in Requests : call[r] \in Open} IN
  /\ Becomes(p, "ended")
  /\ http' = Without(http, p) /\ ws' = Without(ws, p)
  /\ extension' = Without(extension, p)
  /\ call' = [r \in Requests |->
                IF r \in open /\ p \in {caller[r], server[r]} THEN "failed" ELSE call[r]]
  /\ linked' = linked \ ({p} \union {caller[r] : r \in {s \in open : server[s] = p}})
  /\ RejectAll(p)
  /\ kept' = [r \in Requests |-> IF p \in {caller[r], kept[r]} THEN NoProcess ELSE kept[r]]
  /\ UNCHANGED caller

-----------------------------------------------------------------------------
(* Starting and stopping. *)

(* Whoever gets the HTTP port is the SERVER. *)
StartGateway(p) ==
  /\ role[p] = "off"
  /\ IF http = NoProcess THEN Becomes(p, "binding") /\ http' = p
                         ELSE Becomes(p, "probing") /\ UNCHANGED http
  /\ UNCHANGED <<ws, extension, linked, callVars, workVars, kept>>

(* GET /health of the SERVER; a process that is not answered does not start. *)
ProbeAtStart(p) ==
  /\ role[p] = "probing"
  /\ \/ /\ http # NoProcess
        /\ Becomes(p, "proxy") /\ linked' = linked \union {p}
        /\ UNCHANGED <<http, ws, extension, callVars, workVars, kept>>
     \/ http = NoProcess /\ Ends(p)


(* The bridge listens, or its port is taken: the process closes its HTTP     *)
(* listener and ends.                                                        *)
BridgeStarts(p) ==
  /\ role[p] = "binding"
  /\ \/ /\ ws = NoProcess
        /\ Becomes(p, "serving") /\ ws' = p
        /\ UNCHANGED <<http, extension, linked, callVars, workVars, kept>>
     \/ ws # NoProcess /\ Ends(p)

(* The direct MCP server tries for the bridge when it starts and at calls    *)
(* while nothing is connected; without it, it falls back to native messaging.*)
Direct(p) ==
  /\ role[p] = "off" \/ (role[p] = "direct" /\ ws = NoProcess)
  /\ Becomes(p, "direct")
  /\ ws' = IF ws = NoProcess THEN p ELSE ws
  /\ UNCHANGED <<http, extension, linked, callVars, workVars, kept>>

(* A signal.  A SERVER stops listening for HTTP and closes the connections   *)
(* that are idle; any other process ends.                                    *)
Shutdown(p) ==
  \/ /\ role[p] = "serving"
     /\ Becomes(p, "closing") /\ http' = NoProcess
     /\ UNCHANGED <<ws, extension, linked, callVars, workVars, kept>>
  \/ role[p] \in {"proxy", "direct"} /\ Ends(p)

Owed(p) == {r \in Requests : call[r] = "posted" /\ server[r] = p}

(* closeHttpServer has resolved, as the last connection is gone: the queue   *)
(* and the bridge are disconnected.                                          *)
Closed(p) ==
  role[p] = "closing" /\ Owed(p) = {} /\ (\A r \in Requests : kept[r] # p) /\ Ends(p)

(* keepAliveTimeout of the closing SERVER. *)
Expires(r) ==
  /\ kept[r] # NoProcess
  /\ kept' = [kept EXCEPT ![r] = NoProcess]
  /\ UNCHANGED <<role, http, ws, extension, linked, callVars, workVars>>

Crash(p) == role[p] \notin {"off", "ended"} /\ Ends(p)

-----------------------------------------------------------------------------
(* Calls. *)

Enqueue(r, p) ==
  /\ server' = [server EXCEPT ![r] = p]
  /\ work' = [work EXCEPT ![r] = "waiting"]
  /\ backlog' = Append(backlog, r)

(* tools/call at p. *)
Call(p, r) ==
  /\ call[r] = "none" \/ (call[r] \in Over /\ kept[r] # NoProcess /\ caller[r] = p)
  /\ work[r] \notin Pending
  /\ caller' = [caller EXCEPT ![r] = p]
  /\ \/ /\ role[p] = "proxy"
        /\ call' = [call EXCEPT ![r] = IF p \in linked THEN "posted" ELSE "probing"]
        /\ server' = [server EXCEPT ![r] = NoProcess]
        /\ work' = [work EXCEPT ![r] = "none"]
        /\ UNCHANGED backlog
     \/ /\ role[p] \in {"serving", "closing"} /\ extension = p
        /\ call' = [call EXCEPT ![r] = "own"]
        /\ Enqueue(r, p)
     \/ /\ role[p] \in {"serving", "closing"} /\ extension # p
        /\ call' = [call EXCEPT ![r] = "failed"]
        /\ UNCHANGED workVars
  /\ UNCHANGED <<role, http, ws, extension, linked, kept>>

(* The idle connections on which the process that made the call may send. *)
Lines(r) == {s \in Requests : caller[s] = caller[r] /\ kept[s] # NoProcess}

(* A proxy that is not linked probes again before it posts. *)
Probe(r) ==
  /\ call[r] = "probing"
  /\ \/ /\ http # NoProcess \/ Lines(r) # {}
        /\ call' = [call EXCEPT ![r] = "posted"]
        /\ linked' = linked \union {caller[r]}
     \/ http = NoProcess /\ Fail({r})
  /\ UNCHANGED <<role, http, ws, extension, caller, workVars, kept>>

(* The process has a delegate and the extension. *)
Ready(p) == p # NoProcess /\ role[p] \in {"serving", "closing"} /\ extension = p

(* Slip: a SERVER without the extension leaves the request open. *)
Deliver_unanswered(r) ==
  /\ call[r] = "posted" /\ server[r] = NoProcess
  /\ Ready(http) /\ Enqueue(r, http)
  /\ UNCHANGED <<role, http, ws, extension, linked, callVars, kept>>

(* POST /tool at p; without a delegate or the extension it is answered 503,  *)
(* and if nobody has the port the connection is refused.                     *)
Reaches(r, p) ==
  \/ Ready(p) /\ Enqueue(r, p) /\ UNCHANGED <<call, linked>>
  \/ ~Ready(p) /\ Fail({r}) /\ UNCHANGED workVars

(* A new connection reaches whoever has the port; one that was kept reaches  *)
(* the closing SERVER, which goes on to serve it, and may keep it after 503. *)
Deliver(r) ==
  /\ call[r] = "posted" /\ server[r] = NoProcess
  /\ \/ Reaches(r, http) /\ UNCHANGED kept
     \/ \E s \in Lines(r) :
          /\ Reaches(r, kept[s])
          /\ \/ kept' = [kept EXCEPT ![s] = NoProcess]
             \/ ~Ready(kept[s]) /\ UNCHANGED kept
  /\ UNCHANGED <<role, http, ws, extension, caller>>

(* The proxy's timer aborts the fetch; the SERVER goes on. *)
GiveUp(r) ==
  /\ call[r] = "posted"
  /\ call' = [call EXCEPT ![r] = "timed out"]
  /\ linked' = linked \ {caller[r]}
  /\ UNCHANGED <<role, http, ws, extension, caller, workVars, kept>>

(* The HTTP response, after which a closing SERVER keeps the connection, or  *)
(* the promise of the SERVER's own client.                                   *)
Answer(r) ==
  /\ call[r] \in {"posted", "own"} /\ work[r] \in {"resolved", "rejected"}
  /\ \/ /\ work[r] = "resolved"
        /\ call' = [call EXCEPT ![r] = "answered"] /\ UNCHANGED linked
     \/ work[r] = "rejected" /\ Fail({r})
  /\ kept' = IF call[r] = "posted" /\ role[server[r]] = "closing"
             THEN [kept EXCEPT ![r] = server[r]] ELSE kept
  /\ UNCHANGED <<role, http, ws, extension, caller, workVars>>

-----------------------------------------------------------------------------
(* The queue of a SERVER, and the extension. *)

Running(p) == {r \in Requests : server[r] = p /\ work[r] = "running"}
First(p) == SelectSeq(backlog, LAMBDA r : server[r] = p)[1]

Start(r) ==
  /\ work[r] = "waiting" /\ Running(server[r]) = {} /\ First(server[r]) = r
  /\ work' = [work EXCEPT ![r] = "running"]
  /\ backlog' = SelectSeq(backlog, LAMBDA s : s # r)
  /\ UNCHANGED <<role, http, ws, extension, linked, callVars, server, kept>>

(* The extension answers, or the bridge's timer fires. *)
Finish(r) ==
  /\ work[r] = "running"
  /\ \E verdict \in {"resolved", "rejected"} : work' = [work EXCEPT ![r] = verdict]
  /\ UNCHANGED <<role, http, ws, extension, linked, callVars, server, backlog, kept>>

ExtensionDials ==
  /\ ws # NoProcess /\ extension = NoProcess
  /\ extension' = ws
  /\ UNCHANGED <<role, http, ws, linked, callVars, workVars, kept>>

ExtensionDrops ==
  /\ extension # NoProcess
  /\ extension' = NoProcess
  /\ RejectAll(extension)
  /\ UNCHANGED <<role, http, ws, linked, callVars, kept>>

Next ==
  \/ \E p \in Processes :
       \/ StartGateway(p) \/ ProbeAtStart(p) \/ BridgeStarts(p) \/ Direct(p)
       \/ Shutdown(p) \/ Closed(p) \/ Crash(p)
       \/ \E r \in Requests : Call(p, r)
  \/ \E r \in Requests :
       \/ Probe(r) \/ Deliver(r) \/ GiveUp(r) \/ Answer(r)
       \/ Expires(r) \/ Start(r) \/ Finish(r)
  \/ ExtensionDials \/ ExtensionDrops

(* Sockets are answered or refused, timers fire, promises resolve.  Nobody   *)
(* has to start, to call, to shut down or to crash.                          *)
Fairness ==
  /\ \A p \in Processes :
       WF_vars(ProbeAtStart(p)) /\ WF_vars(BridgeStarts(p)) /\ WF_vars(Closed(p))
  /\ \A r \in Requests :
       /\ WF_vars(Probe(r)) /\ WF_vars(Deliver(r)) /\ WF_vars(Answer(r))
       /\ WF_vars(Expires(r))
       /\ WF_vars(Start(r)) /\ WF_vars(Finish(r))

Spec == Init /\ [][Next]_vars /\ Fairness

-----------------------------------------------------------------------------
(* Whatever processes come and go, one of them at a time works in the        *)
(* browser, over the connection that the extension has: no queue outlives    *)
(* its connection, whichever side ended it.                                  *)
OneGatewayWorks ==
  \A r \in Requests : work[r] \in Pending =>
    /\ extension = server[r]
    /\ \A s \in Requests \ {r} : work[r] = "running" => work[s] # "running"

(* A call that its client was told has failed is not in a queue any more,    *)
(* whichever of the processes and connections between them has ended: it is  *)
(* carried out later only if the proxy's timer gave it up, or nobody is told *)
(* of it as the process that made it has ended.                              *)
FailedIsOver ==
  \A r \in Requests :
    work[r] \in Pending =>
      call[r] \in Open \/ call[r] = "timed out" \/ role[caller[r]] = "ended"

(* Every call ends without the proxies' timers, whatever becomes of the      *)
(* process that made it and of the one that was asked.                       *)
EveryCallEnds ==
  \A r \in Requests : call[r] \in Open ~> call[r] \in Over

(* Who wins the election gets the bridge or gives the port back: no proxy is *)
(* kept at a SERVER that will never serve (gatewayRuntime.test.ts:438        *)
(* "releases the real HTTP port after partial server startup fails").        *)
PortIsServed == \A p \in Processes : http = p ~> http # p \/ ws = p

(* A SERVER that shuts down ends, unless its proxies keep it with ever new   *)
(* calls on connections that were open at the signal: those of its own       *)
(* client do not keep it, nor do idle connections or processes that end.     *)
ShutdownEnds ==
  \A p \in Processes :
    role[p] = "closing" ~> role[p] = "ended" \/ []<>(Owed(p) # {})


=============================================================================

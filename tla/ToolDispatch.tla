---------------------------- MODULE ToolDispatch ----------------------------
(***************************************************************************)
(* The SERVER gateway's request path: RequestQueueTransport in front of    *)
(* WebSocketBridge, as gatewayRuntime.ts wires them, and the extension at  *)
(* the other end.  Both the stdio MCP server and the HTTP /tool endpoint   *)
(* call it; each element of Requests is one such call.                     *)
(*                                                                         *)
(* JavaScript calls are synchronous: a queue action that hands a request   *)
(* over and the bridge's sendToolRequest are one step.                     *)
(***************************************************************************)
EXTENDS Naturals, Sequences, FiniteSets

CONSTANTS Requests, NoRequest, Sockets, NoSocket, Close

ASSUME DispatchAssumption ==
  /\ NoRequest \notin Requests
  /\ NoSocket \notin Sockets
  /\ Close \notin Requests

VARIABLES
  queue, activeRequest, disconnected, outcome, reaction, accepted, arrival,
  server, extension, readyState, attached, pendingRequests, promise,
  requests, responses, peer, executing

Bridge == INSTANCE WebSocketBridge WITH Calls <- Requests
Queue == INSTANCE RequestQueue WITH connected <- Bridge!connected

queueVars == <<queue, activeRequest, disconnected, outcome, reaction, accepted, arrival>>
bridgeVars == <<server, extension, readyState, attached, pendingRequests, promise,
                requests, responses, peer, executing>>
vars == <<queueVars, bridgeVars>>

Init == Bridge!Init /\ Queue!Init

(* The queue's call of transport.sendToolRequest, if this step makes one. *)
Forward ==
  IF Queue!HandedOver = {} THEN UNCHANGED bridgeVars
  ELSE \E r \in Queue!HandedOver : Bridge!sendToolRequest(r)

(* At startup, and before a tools/call while nothing is connected. *)
Connect == Queue!Connect /\ Bridge!connect

SendToolRequest(r) == Queue!SendToolRequest(r) /\ Forward

(* The gateway shuts down; twice, once through the MCP server's close. *)
Disconnect == Bridge!close /\ Queue!Disconnect

Settling(r) == (Queue!Then(r) \/ Queue!Catch(r)) /\ UNCHANGED bridgeVars

Finally(r) == Queue!Finally(r) /\ Forward

Outside == (Bridge!SocketStep \/ Bridge!PeerStep) /\ UNCHANGED queueVars

Next ==
  \/ Connect
  \/ Disconnect
  \/ \E r \in Requests : SendToolRequest(r) \/ Settling(r) \/ Finally(r)
  \/ Outside

(* Microtasks always run; timers always fire. *)
Fairness ==
  \A r \in Requests :
    /\ WF_vars(Settling(r))
    /\ WF_vars(Finally(r))
    /\ WF_vars(Bridge!Timeout(r) /\ UNCHANGED queueVars)

Spec == Init /\ [][Next]_vars /\ Fairness

-----------------------------------------------------------------------------
(* The bridge is one of the transports that RequestQueue and its proofs      *)
(* assume.                                                                   *)
QueueSpec == Queue!Spec

(* Requests under way to the extension or being executed by it.              *)
UnderWay ==
  executing \union
    UNION {{r \in Requests : \E i \in DOMAIN requests[s] : requests[s][i] = r} : s \in Sockets}

(* Two requests can overlap in the browser only if the gateway has already   *)
(* given up on one of them (timeout, lost connection, shutdown): what the    *)
(* queue serialises is the requests that callers still wait for.             *)
OverlapOnlyAfterGivingUp ==
  \A r, s \in UnderWay :
    r # s => promise[r] = "rejected" \/ promise[s] = "rejected"

(* Every accepted request gets its verdict, even if the extension never      *)
(* answers, disappears or is replaced.                                       *)
EveryRequestAnswered ==
  \A r \in Requests : outcome[r] = "waiting" ~> outcome[r] \in {"resolved", "rejected"}

=============================================================================

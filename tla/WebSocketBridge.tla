--------------------------- MODULE WebSocketBridge ---------------------------
(***************************************************************************)
(* mcp-server/src/webSocketBridge.ts: WebSocketBridge, the WebSocket       *)
(* server through which tool requests reach the extension, with the peer   *)
(* it talks to.                                                            *)
(*                                                                         *)
(* A call is one sendToolRequest; its request id is the call itself.  A    *)
(* socket is one WebSocket connection, used once.  Its two directions are  *)
(* FIFO channels of frames: a call (request or response), or Close.        *)
(*                                                                         *)
(* The extension is modelled as far as the bridge can tell: it opens       *)
(* sockets, executes every request it receives, answers over whatever      *)
(* socket is its current one, and can be shut down by the browser at any   *)
(* time.                                                                   *)
(***************************************************************************)
EXTENDS Naturals, Sequences

CONSTANTS
  Calls,
  Sockets,
  NoSocket,   \* extension = null, and no socket on the extension's side
  Close       \* close frame, or the end of the TCP stream

ASSUME BridgeAssumption ==
  /\ NoSocket \notin Sockets
  /\ Close \notin Calls

VARIABLES
  server,           \* this.server: null, or a server not yet or already listening
  extension,        \* this.extension
  readyState,       \* of every socket, as the server's ws library sees it
  attached,         \* sockets whose message/close/error handlers were installed
  pendingRequests,  \* this.pendingRequests: each entry owns a running timer
  promise,          \* the promise sendToolRequest returned for each call
  requests,         \* frames in flight to the extension, per socket
  responses,        \* frames in flight to the bridge, per socket
  peer,             \* the extension's current socket
  executing         \* requests the extension has received and not answered

bridgeVars == <<server, extension, readyState, attached, pendingRequests, promise>>
channelVars == <<requests, responses>>
peerVars == <<peer, executing>>
vars == <<bridgeVars, channelVars, peerVars>>

connected == extension # NoSocket /\ readyState[extension] = "OPEN"

TypeOK ==
  /\ server \in {"null", "starting", "listening"}
  /\ extension \in Sockets \union {NoSocket}
  /\ readyState \in [Sockets -> {"unused", "CONNECTING", "OPEN", "CLOSING", "CLOSED"}]
  /\ attached \in SUBSET Sockets
  /\ pendingRequests \in SUBSET Calls
  /\ promise \in [Calls -> {"none", "pending", "fulfilled", "rejected"}]
  /\ requests \in [Sockets -> Seq(Calls \union {Close})]
  /\ responses \in [Sockets -> Seq(Calls \union {Close})]
  /\ peer \in Sockets \union {NoSocket}
  /\ executing \in SUBSET Calls

Init ==
  /\ server = "null"
  /\ extension = NoSocket
  /\ readyState = [s \in Sockets |-> "unused"]
  /\ attached = {}
  /\ pendingRequests = {}
  /\ promise = [c \in Calls |-> "none"]
  /\ requests = [s \in Sockets |-> <<>>]
  /\ responses = [s \in Sockets |-> <<>>]
  /\ peer = NoSocket
  /\ executing = {}

(* Every way of settling a call removes its map entry and its timer. *)
Settle(cs, how) ==
  /\ pendingRequests' = pendingRequests \ cs
  /\ promise' = [c \in Calls |-> IF c \in cs THEN how ELSE promise[c]]

clearPending == Settle(pendingRequests, "rejected")

(* Slip: the handler of any socket clears the connection. *)
extensionLost_ofAnySocket(s) == extension' = NoSocket /\ clearPending

(* The 'close' and 'error' handlers of a socket. *)
extensionLost(s) ==
  IF extension = s
  THEN extension' = NoSocket /\ clearPending
  ELSE UNCHANGED <<extension, pendingRequests, promise>>

Sent(channel, s, frame) == [channel EXCEPT ![s] = Append(@, frame)]

-----------------------------------------------------------------------------
(* The bridge's operations.                                                 *)

connect ==
  /\ server' = IF server = "null" THEN "starting" ELSE server
  /\ UNCHANGED <<extension, readyState, attached, pendingRequests, promise,
                 channelVars, peerVars>>

Listening ==
  /\ server = "starting"
  /\ server' = "listening"
  /\ UNCHANGED <<extension, readyState, attached, pendingRequests, promise,
                 channelVars, peerVars>>

(* EADDRINUSE, or another error before the server listens. *)
ListenError ==
  /\ server = "starting"
  /\ server' = "null"
  /\ UNCHANGED <<extension, readyState, attached, pendingRequests, promise,
                 channelVars, peerVars>>

(* The caller gets a rejected promise if no extension is connected, or if    *)
(* the request cannot be serialized: its timer and its entry are then gone.  *)
sendToolRequest(c) ==
  /\ promise[c] = "none"
  /\ \/ /\ promise' = [promise EXCEPT ![c] = "rejected"]
        /\ UNCHANGED <<pendingRequests, requests>>
     \/ /\ connected
        /\ promise' = [promise EXCEPT ![c] = "pending"]
        /\ pendingRequests' = pendingRequests \union {c}
        /\ requests' = Sent(requests, extension, c)
  /\ UNCHANGED <<server, extension, readyState, attached, responses, peerVars>>

(* Slip: the timer rejects the caller and leaves the map entry. *)
Timeout_keepsEntry(c) ==
  /\ c \in pendingRequests
  /\ promise' = [promise EXCEPT ![c] = "rejected"]
  /\ UNCHANGED <<server, extension, readyState, attached, pendingRequests, channelVars, peerVars>>

(* Slip: the calls of a closing connection are left to its close event. *)
Timeout_ifConnected(c) ==
  /\ c \in pendingRequests /\ connected
  /\ Settle({c}, "rejected")
  /\ UNCHANGED <<server, extension, readyState, attached, channelVars, peerVars>>

Timeout(c) ==
  /\ c \in pendingRequests
  /\ Settle({c}, "rejected")
  /\ UNCHANGED <<server, extension, readyState, attached, channelVars, peerVars>>

(* close(), which disconnect() also calls. *)
close ==
  /\ server' = "null"
  /\ extension' = NoSocket
  /\ clearPending
  /\ IF connected
     THEN /\ readyState' = [readyState EXCEPT ![extension] = "CLOSING"]
          /\ requests' = Sent(requests, extension, Close)
     ELSE UNCHANGED <<readyState, requests>>
  /\ UNCHANGED <<attached, responses, peerVars>>

(* Slip: the newest connection wins, the old socket stays open. *)
handleConnection_displaces(s) ==
  /\ server = "listening" /\ readyState[s] = "CONNECTING"
  /\ readyState' = [readyState EXCEPT ![s] = "OPEN"]
  /\ extension' = s
  /\ attached' = attached \union {s}
  /\ UNCHANGED <<server, pendingRequests, promise, channelVars, peerVars>>

(* A second extension is turned away; a closing one is replaced. *)
handleConnection(s) ==
  /\ server = "listening" /\ readyState[s] = "CONNECTING"
  /\ IF connected
     THEN /\ readyState' = [readyState EXCEPT ![s] = "CLOSING"]
          /\ requests' = Sent(requests, s, Close)
          /\ UNCHANGED <<extension, attached>>
     ELSE /\ readyState' = [readyState EXCEPT ![s] = "OPEN"]
          /\ extension' = s
          /\ attached' = attached \union {s}
          /\ UNCHANGED requests
  /\ UNCHANGED <<server, pendingRequests, promise, responses, peerVars>>

(* The head frame of a socket.  A response settles its call if the call is  *)
(* still pending, whichever socket carried the request; sockets that were   *)
(* turned away have no handler.  A close frame starts the closing handshake.*)
handleMessage(s) ==
  /\ readyState[s] \in {"OPEN", "CLOSING"} /\ responses[s] # <<>>
  /\ responses' = [responses EXCEPT ![s] = Tail(@)]
  /\ LET frame == Head(responses[s]) IN
       IF frame = Close
       THEN /\ readyState' = [readyState EXCEPT ![s] = "CLOSING"]
            /\ UNCHANGED <<pendingRequests, promise>>
       ELSE /\ IF s \in attached
               THEN Settle({frame} \intersect pendingRequests, "fulfilled")
               ELSE UNCHANGED <<pendingRequests, promise>>
            /\ UNCHANGED readyState
  /\ UNCHANGED <<server, extension, attached, requests, peerVars>>

(* The 'close' event; frames not yet read are lost. *)
onClose(s) ==
  /\ readyState[s] = "CLOSING"
  /\ readyState' = [readyState EXCEPT ![s] = "CLOSED"]
  /\ requests' = [requests EXCEPT ![s] = <<>>]
  /\ responses' = [responses EXCEPT ![s] = <<>>]
  /\ extensionLost(s)
  /\ peer' = IF peer = s THEN NoSocket ELSE peer
  /\ UNCHANGED <<server, attached, executing>>

(* The 'error' event: a frame ws refuses (too large, malformed).  ws starts *)
(* to close the socket before it reports the error.                         *)
onError(s) ==
  /\ s \in attached /\ readyState[s] = "OPEN"
  /\ readyState' = [readyState EXCEPT ![s] = "CLOSING"]
  /\ requests' = Sent(requests, s, Close)
  /\ extensionLost(s)
  /\ UNCHANGED <<server, attached, responses, peerVars>>

-----------------------------------------------------------------------------
(* The extension.                                                           *)

(* It dials a new socket; if it had one, it closes that one first. *)
PeerConnect(s) ==
  /\ readyState[s] = "unused"
  /\ readyState' = [readyState EXCEPT ![s] = "CONNECTING"]
  /\ peer' = s
  /\ responses' = IF peer = NoSocket THEN responses ELSE Sent(responses, peer, Close)
  /\ UNCHANGED <<server, extension, attached, pendingRequests, promise, requests, executing>>

(* Nobody listens on the port. *)
PeerRefused(s) ==
  /\ readyState[s] = "CONNECTING" /\ server # "listening"
  /\ readyState' = [readyState EXCEPT ![s] = "CLOSED"]
  /\ peer' = IF peer = s THEN NoSocket ELSE peer
  /\ UNCHANGED <<server, extension, attached, pendingRequests, promise, channelVars, executing>>

(* A request on a socket the extension has dropped is not executed. *)
PeerReceive(s) ==
  /\ requests[s] # <<>>
  /\ requests' = [requests EXCEPT ![s] = Tail(@)]
  /\ LET frame == Head(requests[s]) IN
       IF frame = Close
       THEN /\ peer' = IF peer = s THEN NoSocket ELSE peer
            /\ responses' = Sent(responses, s, Close)
            /\ UNCHANGED executing
       ELSE /\ executing' = IF peer = s THEN executing \union {frame} ELSE executing
            /\ UNCHANGED <<peer, responses>>
  /\ UNCHANGED bridgeVars

(* The response goes out on the current socket if that is open, else it is lost. *)
PeerAnswer(c) ==
  /\ c \in executing
  /\ executing' = executing \ {c}
  /\ responses' = IF peer # NoSocket /\ readyState[peer] # "CONNECTING"
                  THEN Sent(responses, peer, c) ELSE responses
  /\ UNCHANGED <<bridgeVars, requests, peer>>

(* The browser stops the service worker: its work is lost, its socket ends. *)
PeerStops ==
  /\ peer # NoSocket \/ executing # {}
  /\ peer' = NoSocket
  /\ executing' = {}
  /\ responses' = IF peer = NoSocket THEN responses ELSE Sent(responses, peer, Close)
  /\ UNCHANGED <<bridgeVars, requests>>

-----------------------------------------------------------------------------
SocketStep ==
  \/ Listening
  \/ ListenError
  \/ \E c \in Calls : Timeout(c)
  \/ \E s \in Sockets : handleConnection(s) \/ handleMessage(s) \/ onClose(s) \/ onError(s)

PeerStep ==
  \/ \E s \in Sockets : PeerConnect(s) \/ PeerRefused(s) \/ PeerReceive(s)
  \/ \E c \in Calls : PeerAnswer(c)
  \/ PeerStops

Next ==
  \/ connect
  \/ close
  \/ \E c \in Calls : sendToolRequest(c)
  \/ SocketStep
  \/ PeerStep

(* setTimeout fires; nothing else about the peer or the network is assumed. *)
Fairness == \A c \in Calls : WF_vars(Timeout(c))

Spec == Init /\ [][Next]_vars /\ Fairness

-----------------------------------------------------------------------------
(* When the bridge has no extension, no caller is kept waiting for one.      *)
LostExtensionFailsCalls == extension = NoSocket => pendingRequests = {}

(* An open socket with handlers is the one the bridge sends on: no socket is *)
(* forgotten while the extension still takes it for its connection.          *)
NoForgottenSocket == \A s \in attached : readyState[s] = "OPEN" => s = extension

(* A verdict is final: an answer that comes after the timeout, or after the  *)
(* connection it belonged to was lost, changes nothing.                      *)
VerdictIsFinal ==
  [][\A c \in Calls : promise[c] \in {"fulfilled", "rejected"} => promise'[c] = promise[c]]_vars

(* A pending call fails by its own timer or because the bridge lost the      *)
(* socket it sends on, never because some older socket went away.            *)
FailsForItsOwnReason ==
  [][\A c \in Calls :
       promise[c] = "pending" /\ promise'[c] = "rejected" =>
         \/ pendingRequests' = pendingRequests \ {c} /\ UNCHANGED <<extension, readyState>>
         \/ extension' = NoSocket /\ readyState'[extension] # "OPEN"]_vars

(* The bridge's two records agree: no call waits for, and no socket is kept  *)
(* open beside, an extension the bridge does not have.                       *)
SocketsAndCalls == LostExtensionFailsCalls /\ NoForgottenSocket

(* A call fails for a reason of its own, and once it has failed or succeeded *)
(* nothing that comes late changes it.                                       *)
VerdictsAreRight == VerdictIsFinal /\ FailsForItsOwnReason

=============================================================================

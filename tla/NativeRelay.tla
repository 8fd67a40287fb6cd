----------------------------- MODULE NativeRelay -----------------------------
(***************************************************************************)
(* The native messaging fallback: SocketClient in each MCP server process  *)
(* (mcp-server/src/socketClient.ts), the native host that Chrome starts    *)
(* (native-host/src/chromeNativeHost.ts, chromeMessageReader.ts) and the   *)
(* Unix domain sockets between them.                                       *)
(*                                                                         *)
(* A socket is a byte stream: a message is two pieces, its head and its    *)
(* tail, that may be read apart and of which the second may never come.    *)
(* Each end sees the other's close when it has read what came before.  A   *)
(* head that was cut off from its tail takes the next stream's bytes for   *)
(* it: as many as it declares, and then it is no message.                  *)
(***************************************************************************)
EXTENDS Integers, Sequences

CONSTANTS
  Clients,         \* MCP server processes
  Requests,
  NoClient,
  MaxConnections,  \* bound: connections made by all clients
  MaxStops         \* bound: native host processes that end

ASSUME NativeRelayAssumption ==
  /\ NoClient \notin Clients
  /\ MaxConnections \in Nat
  /\ MaxStops \in Nat

VARIABLES
  (* SocketClient, for each client *)
  current,       \* the connection of `socket', 0 for null; _connected with it
  buffer,        \* pieces that were read and not decoded
  pending,       \* pendingRequests
  carrier,       \* the connection each request was sent on, 0 for none
  outcome,       \* what the caller of sendToolRequest has got
  (* ChromeNativeHost *)
  hostUp,
  mcpClients,    \* connections the host knows
  hostBuffer,    \* their buffers
  hostPending,   \* pendingRequests: the connection of each request, 0 for none
  (* the sockets, and what is outside *)
  made,          \* connections that were begun
  owner,         \* whose each is
  opening,       \* connections that are being made
  open,          \* connections whose client end is open
  closing,       \* connections destroyed by the client whose `close' event is due
  up, down,      \* pieces on their way to the host, and to the client
  atExtension,   \* requests the extension works on
  stops          \* host processes that ended

client == <<current, buffer, pending, carrier, outcome>>
host == <<hostUp, mcpClients, hostBuffer, hostPending>>
sockets == <<made, owner, opening, open, closing, up, down>>
relayVars == <<client, host, sockets, atExtension, stops>>

Connections == 1..MaxConnections
Pieces == [conn : Connections, request : Requests, half : {"head", "tail", "mixed", "broken"}]
Message(k, r) == <<[conn |-> k, request |-> r, half |-> "head"],
                   [conn |-> k, request |-> r, half |-> "tail"]>>

RelayTypeOK ==
  /\ current \in [Clients -> 0..MaxConnections]
  /\ buffer \in [Clients -> Seq(Pieces)]
  /\ pending \in [Clients -> SUBSET Requests]
  /\ carrier \in [Requests -> 0..MaxConnections]
  /\ outcome \in [Requests -> {"none", "waiting", "result", "error"}]
  /\ hostUp \in BOOLEAN
  /\ mcpClients \in SUBSET Connections
  /\ hostBuffer \in [Connections -> Seq(Pieces)]
  /\ hostPending \in [Requests -> 0..MaxConnections]
  /\ made \in 0..MaxConnections
  /\ owner \in [Connections -> Clients \union {NoClient}]
  /\ opening \in SUBSET Connections
  /\ open \in SUBSET Connections
  /\ closing \in SUBSET Connections
  /\ up \in [Connections -> Seq(Pieces)]
  /\ down \in [Connections -> Seq(Pieces)]
  /\ atExtension \in SUBSET Requests
  /\ stops \in 0..MaxStops

RelayInit ==
  /\ current = [c \in Clients |-> 0]
  /\ buffer = [c \in Clients |-> <<>>]
  /\ pending = [c \in Clients |-> {}]
  /\ carrier = [r \in Requests |-> 0]
  /\ outcome = [r \in Requests |-> "none"]
  /\ hostUp = TRUE
  /\ mcpClients = {}
  /\ hostBuffer = [k \in Connections |-> <<>>]
  /\ hostPending = [r \in Requests |-> 0]
  /\ made = 0
  /\ owner = [k \in Connections |-> NoClient]
  /\ opening = {} /\ open = {} /\ closing = {}
  /\ up = [k \in Connections |-> <<>>]
  /\ down = [k \in Connections |-> <<>>]
  /\ atExtension = {}
  /\ stops = 0

-----------------------------------------------------------------------------
(* SocketClient *)

(* Slip: the requests that wait are not told. *)
handleDisconnect_silent(c) ==
  /\ current' = [current EXCEPT ![c] = 0]
  /\ UNCHANGED <<pending, outcome>>

(* handleDisconnect with clearPending: whichever socket it is about, the     *)
(* client gives up the current one, and what was read stays in the buffer.   *)
handleDisconnect(c) ==
  /\ current' = [current EXCEPT ![c] = 0]
  /\ pending' = [pending EXCEPT ![c] = {}]
  /\ outcome' = [r \in Requests |-> IF r \in pending[c] THEN "error" ELSE outcome[r]]

(* connect: a tool call finds no connection.  A second call does so too      *)
(* while the first one's socket is still opening.                            *)
Connect(c) ==
  /\ current[c] = 0 /\ hostUp /\ made < MaxConnections
  /\ made' = made + 1
  /\ owner' = [owner EXCEPT ![made + 1] = c]
  /\ opening' = opening \union {made + 1}
  /\ UNCHANGED <<client, host, open, closing, up, down, atExtension, stops>>

(* The connection is made, for both ends. *)
Opened(k) ==
  /\ k \in opening /\ hostUp
  /\ opening' = opening \ {k}
  /\ open' = open \union {k}
  /\ mcpClients' = mcpClients \union {k}
  /\ current' = [current EXCEPT ![owner[k]] = k]
  /\ UNCHANGED <<buffer, pending, carrier, outcome, hostUp, hostBuffer, hostPending,
                 made, owner, closing, up, down, atExtension, stops>>

(* The connection is refused: `error', and then `close', without a look at   *)
(* which socket is the current one.                                          *)
Refused(k) ==
  /\ k \in opening /\ ~hostUp
  /\ opening' = opening \ {k}
  /\ handleDisconnect(owner[k])
  /\ UNCHANGED <<buffer, carrier, host, made, owner, open, closing, up, down, atExtension, stops>>

(* sendToolRequest; what is written to a socket whose other end is gone is lost. *)
SendToolRequest(c, r) ==
  LET k == current[c] IN
  /\ outcome[r] = "none" /\ k # 0
  /\ carrier' = [carrier EXCEPT ![r] = k]
  /\ outcome' = [outcome EXCEPT ![r] = "waiting"]
  /\ pending' = [pending EXCEPT ![c] = @ \union {r}]
  /\ up' = IF k \in mcpClients THEN [up EXCEPT ![k] = @ \o Message(k, r)] ELSE up
  /\ UNCHANGED <<current, buffer, host, made, owner, opening, open, closing, down,
                 atExtension, stops>>

(* The request's timer: the request may still be answered, to nobody. *)
RequestTimeout(c, r) ==
  /\ r \in pending[c]
  /\ pending' = [pending EXCEPT ![c] = @ \ {r}]
  /\ outcome' = [outcome EXCEPT ![r] = "error"]
  /\ UNCHANGED <<current, buffer, carrier, host, sockets, atExtension, stops>>

(* Two halves of one message, read from one stream. *)
IsMessage(pieces) ==
  /\ Len(pieces) = 2
  /\ pieces = Message(pieces[1].conn, pieces[1].request)

(* handleData, processBuffer, handleMessage, for one piece: a message is     *)
(* decoded and resolves its request, or it is incomplete, as is one that     *)
(* declares more bytes than the streams it was mixed from have brought; or   *)
(* all its bytes are there and are no message.  Then, and at every later     *)
(* read, the current socket is destroyed, and the bytes stay where they are. *)
HandleData(k) ==
  LET c == owner[k]
      read == Append(buffer[c], Head(down[k]))
      answered == {Head(down[k]).request} \intersect pending[c]
      marked(half) == <<[read[1] EXCEPT !.half = half]>>
  IN
  /\ k \in open /\ down[k] # <<>>
  /\ down' = [down EXCEPT ![k] = Tail(@)]
  /\ \/ /\ IsMessage(read)
        /\ buffer' = [buffer EXCEPT ![c] = <<>>]
        /\ pending' = [pending EXCEPT ![c] = @ \ answered]
        /\ outcome' = [r \in Requests |-> IF r \in answered THEN "result" ELSE outcome[r]]
        /\ UNCHANGED <<current, open, closing>>
     \/ /\ Len(read) = 1
        /\ buffer' = [buffer EXCEPT ![c] = read]
        /\ UNCHANGED <<current, pending, outcome, open, closing>>
     \/ /\ Len(read) = 2 /\ ~IsMessage(read) /\ read[1].half # "broken"
        /\ buffer' = [buffer EXCEPT ![c] = marked("mixed")]
        /\ UNCHANGED <<current, pending, outcome, open, closing>>
     \/ /\ Len(read) = 2 /\ ~IsMessage(read)
        /\ buffer' = [buffer EXCEPT ![c] = marked("broken")]
        /\ handleDisconnect(c)
        /\ open' = open \ {current[c]}
        /\ closing' = closing \union ({current[c]} \intersect open)
  /\ UNCHANGED <<carrier, host, made, owner, opening, up, atExtension, stops>>

(* The `close' event of a socket the host closed, once all is read. *)
SocketClosed(k) ==
  /\ k \in open /\ k \notin mcpClients /\ down[k] = <<>>
  /\ open' = open \ {k}
  /\ handleDisconnect(owner[k])
  /\ UNCHANGED <<buffer, carrier, host, made, owner, opening, closing, up, down,
                 atExtension, stops>>

(* The `close' event of a socket that the client destroyed itself. *)
DestroyedClosed(k) ==
  /\ k \in closing
  /\ closing' = closing \ {k}
  /\ handleDisconnect(owner[k])
  /\ UNCHANGED <<buffer, carrier, host, made, owner, opening, open, up, down,
                 atExtension, stops>>

(* disconnect *)
Disconnect(c) ==
  /\ current[c] # 0
  /\ open' = open \ {current[c]}
  /\ closing' = closing \union {current[c]}
  /\ handleDisconnect(c)
  /\ UNCHANGED <<buffer, carrier, host, made, owner, opening, up, down, atExtension, stops>>

-----------------------------------------------------------------------------
(* ChromeNativeHost *)

(* Slip: the map is keyed by the connection. *)
HandleClientData_remembersOne(k) ==
  LET read == Append(hostBuffer[k], Head(up[k]))
      r == Head(up[k]).request
  IN
  /\ k \in mcpClients /\ up[k] # <<>>
  /\ up' = [up EXCEPT ![k] = Tail(@)]
  /\ IF IsMessage(read)
     THEN /\ hostBuffer' = [hostBuffer EXCEPT ![k] = <<>>]
          /\ hostPending' = [x \in Requests |-> IF x = r THEN k
                                                ELSE IF hostPending[x] = k THEN 0 ELSE hostPending[x]]
          /\ atExtension' = atExtension \union {r}
     ELSE /\ hostBuffer' = [hostBuffer EXCEPT ![k] = read]
          /\ UNCHANGED <<hostPending, atExtension>>
  /\ UNCHANGED <<client, hostUp, mcpClients, made, owner, opening, open, closing, down, stops>>

(* handleClientData for one piece: a message that is complete is forwarded,  *)
(* and its connection remembered.                                            *)
HandleClientData(k) ==
  LET read == Append(hostBuffer[k], Head(up[k]))
      r == Head(up[k]).request
  IN
  /\ k \in mcpClients /\ up[k] # <<>>
  /\ up' = [up EXCEPT ![k] = Tail(@)]
  /\ IF IsMessage(read)
     THEN /\ hostBuffer' = [hostBuffer EXCEPT ![k] = <<>>]
          /\ hostPending' = [hostPending EXCEPT ![r] = k]
          /\ atExtension' = atExtension \union {r}
     ELSE /\ hostBuffer' = [hostBuffer EXCEPT ![k] = read]
          /\ UNCHANGED <<hostPending, atExtension>>
  /\ UNCHANGED <<client, hostUp, mcpClients, made, owner, opening, open, closing, down, stops>>

(* handleMessage of a tool_response: dropped if its client is gone. *)
HandleMessage(r) ==
  LET k == hostPending[r] IN
  /\ r \in atExtension /\ hostUp
  /\ atExtension' = atExtension \ {r}
  /\ hostPending' = [hostPending EXCEPT ![r] = 0]
  /\ down' = IF k # 0 THEN [down EXCEPT ![k] = @ \o Message(k, r)] ELSE down
  /\ UNCHANGED <<client, hostUp, mcpClients, hostBuffer, made, owner, opening, open, closing,
                 up, stops>>

(* handleClientDisconnect: the client closed its end; with it goes what was  *)
(* on its way to it.                                                         *)
HandleClientDisconnect(k) ==
  /\ k \in mcpClients /\ k \notin open /\ up[k] = <<>>
  /\ mcpClients' = mcpClients \ {k}
  /\ hostPending' = [r \in Requests |-> IF hostPending[r] = k THEN 0 ELSE hostPending[r]]
  /\ UNCHANGED <<client, hostUp, hostBuffer, sockets, atExtension, stops>>

(* stop, when Chrome closes stdin or sends a message above MAX_MESSAGE_SIZE, *)
(* or the process dies: what was not yet on its way is cut off anywhere.     *)
HostStops ==
  /\ hostUp /\ stops < MaxStops
  /\ stops' = stops + 1
  /\ hostUp' = FALSE
  /\ mcpClients' = {}
  /\ hostBuffer' = [k \in Connections |-> <<>>]
  /\ hostPending' = [r \in Requests |-> 0]
  /\ atExtension' = {}
  /\ up' = [k \in Connections |-> <<>>]
  /\ \E cut \in [mcpClients -> 0..2] :
       down' = [k \in Connections |->
                  IF k \in mcpClients /\ cut[k] <= Len(down[k])
                  THEN SubSeq(down[k], 1, Len(down[k]) - cut[k]) ELSE down[k]]
  /\ UNCHANGED <<client, made, owner, opening, open, closing>>

(* Chrome starts a new host. *)
HostStarts ==
  /\ ~hostUp
  /\ hostUp' = TRUE
  /\ UNCHANGED <<client, mcpClients, hostBuffer, hostPending, sockets, atExtension, stops>>

RelayNext ==
  \/ \E c \in Clients :
       \/ Connect(c) \/ Disconnect(c)
       \/ \E r \in Requests : SendToolRequest(c, r) \/ RequestTimeout(c, r)
  \/ \E k \in Connections :
       \/ Opened(k) \/ Refused(k)
       \/ HandleData(k) \/ SocketClosed(k) \/ DestroyedClosed(k)
       \/ HandleClientData(k) \/ HandleClientDisconnect(k)
  \/ \E r \in Requests : HandleMessage(r)
  \/ HostStops \/ HostStarts

(* Sockets deliver and close, and the extension answers.  The requests'      *)
(* timers are left out: they are not what an answer should depend on.        *)
RelayFairness ==
  /\ \A k \in Connections :
       /\ WF_relayVars(HandleData(k)) /\ WF_relayVars(SocketClosed(k))
       /\ WF_relayVars(HandleClientData(k))
  /\ \A r \in Requests : WF_relayVars(HandleMessage(r))

RelaySpec == RelayInit /\ [][RelayNext]_relayVars /\ RelayFairness

-----------------------------------------------------------------------------
(* An answer comes back on the connection that its request was sent on,      *)
(* though requests of all clients share the extension.                       *)
AnswerGoesToAsker ==
  \A k \in Connections : \A i \in DOMAIN down[k] : k = carrier[down[k][i].request]

(* A request waits only as long as the connection that carries it is open    *)
(* and its client's own, and while the client has a current one: whichever   *)
(* socket's end took them away has rejected it.                              *)
WaitsOnConnection ==
  \A c \in Clients : \A r \in pending[c] :
    current[c] # 0 /\ carrier[r] \in open /\ owner[carrier[r]] = c

(* A stream that was cut off is being continued by another one's bytes.      *)
Mixed(c) == buffer[c] # <<>> /\ buffer[c][1].half = "mixed"

(* No answer and no loss is swallowed, unless a mixed buffer is waiting for  *)
(* more of it: a request ends even if its timer would never fire.            *)
RequestSettles ==
  \A r \in Requests :
    outcome[r] = "waiting" ~> outcome[r] # "waiting" \/ Mixed(owner[carrier[r]])

(* Answers and losses go to whom they concern: an answer to its asker, the   *)
(* loss of a connection to all who wait on it.                               *)
GoesToItsClient == AnswerGoesToAsker /\ WaitsOnConnection

=============================================================================

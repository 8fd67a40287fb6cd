------------------------ MODULE WebSocketBridgeProofs ------------------------
(***************************************************************************)
(* Theorems of WebSocketBridge, for any number of calls and sockets.       *)
(***************************************************************************)
EXTENDS WebSocketBridge, TLAPS

(* The map of pending requests is the set of the promises not yet settled.  *)
PendingAgree == \A c \in Calls : c \in pendingRequests <=> promise[c] = "pending"

(* The bridge's socket has handlers, and its close event is still to come.  *)
ExtensionIsLive ==
  extension # NoSocket =>
    extension \in attached /\ readyState[extension] \in {"OPEN", "CLOSING"}

(* Handlers are installed on sockets that were accepted, never again.       *)
AttachedOnce == \A s \in attached : readyState[s] \in {"OPEN", "CLOSING", "CLOSED"}

Inv ==
  /\ TypeOK
  /\ PendingAgree
  /\ ExtensionIsLive
  /\ AttachedOnce
  /\ SocketsAndCalls

-----------------------------------------------------------------------------
Frames == Calls \union {Close}

LEMMA Initially == Init => Inv
  BY BridgeAssumption
  DEF Init, Inv, TypeOK, PendingAgree, ExtensionIsLive, AttachedOnce,
      SocketsAndCalls, LostExtensionFailsCalls, NoForgottenSocket

(* A frame sent leaves channels of frames.                                  *)
LEMMA SentTyped ==
  ASSUME NEW channel \in [Sockets -> Seq(Frames)], NEW s \in Sockets, NEW frame \in Frames
  PROVE  Sent(channel, s, frame) \in [Sockets -> Seq(Frames)]
  <1>1. Append(channel[s], frame) \in Seq(Frames)
    OBVIOUS
  <1> QED BY <1>1 DEF Sent

(* So does a frame taken.                                                   *)
LEMMA TakenTyped ==
  ASSUME NEW channel \in [Sockets -> Seq(Frames)], NEW s \in Sockets, channel[s] # <<>>
  PROVE  /\ Head(channel[s]) \in Frames
         /\ [channel EXCEPT ![s] = Tail(@)] \in [Sockets -> Seq(Frames)]
  <1>1. channel[s] \in Seq(Frames)
    OBVIOUS
  <1>2. Head(channel[s]) \in Frames /\ Tail(channel[s]) \in Seq(Frames)
    BY <1>1
  <1> QED BY <1>2

(* Settling pending calls keeps the map and the promises together.          *)
LEMMA SettleAgrees ==
  ASSUME Inv, NEW cs, NEW how \in {"fulfilled", "rejected"}, Settle(cs, how)
  PROVE  /\ pendingRequests' \in SUBSET Calls
         /\ promise' \in [Calls -> {"none", "pending", "fulfilled", "rejected"}]
         /\ PendingAgree'
         /\ pendingRequests = {} => pendingRequests' = {}
         /\ cs = pendingRequests => pendingRequests' = {}
  BY DEF Inv, TypeOK, Settle, PendingAgree

-----------------------------------------------------------------------------
(* Every operation of the bridge, and every event of its sockets and of the *)
(* extension, keeps the invariant.                                          *)
LEMMA BridgePreservesInv ==
  ASSUME Inv, connect \/ Listening \/ ListenError \/ close
         \/ (\E c \in Calls : sendToolRequest(c) \/ Timeout(c))
  PROVE  Inv'
  <1> USE BridgeAssumption DEF Inv, TypeOK, Frames, ExtensionIsLive, AttachedOnce,
        SocketsAndCalls, LostExtensionFailsCalls, NoForgottenSocket, channelVars, peerVars
  <1>1. CASE connect \/ Listening \/ ListenError
    BY <1>1 DEF connect, Listening, ListenError, PendingAgree
  <1>2. CASE close
    <2>1. /\ pendingRequests' = {}
          /\ promise' \in [Calls -> {"none", "pending", "fulfilled", "rejected"}]
          /\ PendingAgree'
      BY <1>2, SettleAgrees DEF close, clearPending
    <2>2. CASE connected
      <3>1. requests' = Sent(requests, extension, Close) /\ extension \in Sockets
        BY <1>2, <2>2 DEF close, connected
      <3>2. requests' \in [Sockets -> Seq(Frames)]
        BY <3>1, SentTyped
      <3> QED BY <1>2, <2>1, <2>2, <3>2 DEF close, connected
    <2>3. CASE ~connected
      BY <1>2, <2>1, <2>3 DEF close, connected
    <2> QED BY <2>2, <2>3
  <1>3. ASSUME NEW c \in Calls, sendToolRequest(c) PROVE Inv'
    <2>1. \/ requests' = requests
          \/ requests' = Sent(requests, extension, c) /\ extension \in Sockets
      BY <1>3 DEF sendToolRequest, connected
    <2>2. requests' \in [Sockets -> Seq(Frames)]
      <3>1. extension \in Sockets => Sent(requests, extension, c) \in [Sockets -> Seq(Frames)]
        BY SentTyped
      <3> QED BY <2>1, <3>1
    <2> QED BY <1>3, <2>2 DEF sendToolRequest, connected, PendingAgree
  <1>4. ASSUME NEW c \in Calls, Timeout(c) PROVE Inv'
    <2>1. /\ pendingRequests' \in SUBSET Calls
          /\ promise' \in [Calls -> {"none", "pending", "fulfilled", "rejected"}]
          /\ PendingAgree'
          /\ pendingRequests = {} => pendingRequests' = {}
      BY <1>4, SettleAgrees DEF Timeout
    <2> QED BY <1>4, <2>1 DEF Timeout
  <1> QED BY <1>1, <1>2, <1>3, <1>4

LEMMA SocketPreservesInv ==
  ASSUME Inv, NEW s \in Sockets,
         handleConnection(s) \/ handleMessage(s) \/ onClose(s) \/ onError(s)
  PROVE  Inv'
  <1> USE BridgeAssumption DEF Inv, TypeOK, Frames, ExtensionIsLive, AttachedOnce,
        SocketsAndCalls, LostExtensionFailsCalls, NoForgottenSocket, channelVars, peerVars
  <1>1. CASE handleConnection(s)
    <2>1. requests' = requests \/ requests' = Sent(requests, s, Close)
      BY <1>1 DEF handleConnection
    <2>2. requests' \in [Sockets -> Seq(Frames)]
      <3>1. Sent(requests, s, Close) \in [Sockets -> Seq(Frames)]
        BY SentTyped
      <3> QED BY <2>1, <3>1
    <2>3. /\ UNCHANGED <<server, pendingRequests, promise, responses, peer, executing>>
          /\ readyState[s] = "CONNECTING"
      BY <1>1 DEF handleConnection
    <2>4. PendingAgree' /\ s \notin attached /\ s # extension
      BY <2>3 DEF PendingAgree
    <2>5. CASE connected
      <3>1. readyState' = [readyState EXCEPT ![s] = "CLOSING"] /\ UNCHANGED <<extension, attached>>
        BY <1>1, <2>5 DEF handleConnection
      <3> QED BY <2>2, <2>3, <2>4, <3>1
    <2>6. CASE ~connected
      <3>1. /\ readyState' = [readyState EXCEPT ![s] = "OPEN"]
            /\ extension' = s /\ attached' = attached \union {s}
        BY <1>1, <2>6 DEF handleConnection
      <3>2. \A t \in attached : readyState[t] # "OPEN"
        BY <2>6 DEF connected
      <3> QED BY <2>2, <2>3, <2>4, <3>1, <3>2
    <2> QED BY <2>5, <2>6
  <1>2. CASE handleMessage(s)
    <2>1. responses' \in [Sockets -> Seq(Frames)]
      BY <1>2, TakenTyped DEF handleMessage
    <2>2. /\ pendingRequests' \in SUBSET Calls
          /\ promise' \in [Calls -> {"none", "pending", "fulfilled", "rejected"}]
          /\ PendingAgree'
          /\ pendingRequests = {} => pendingRequests' = {}
      <3>1. CASE UNCHANGED <<pendingRequests, promise>>
        BY <3>1 DEF PendingAgree
      <3>2. CASE Settle({Head(responses[s])} \intersect pendingRequests, "fulfilled")
        BY <3>2, SettleAgrees
      <3> QED BY <1>2, <3>1, <3>2 DEF handleMessage
    <2>3. /\ readyState[s] \in {"OPEN", "CLOSING"}
          /\ readyState' = [readyState EXCEPT ![s] = "CLOSING"] \/ UNCHANGED readyState
      BY <1>2 DEF handleMessage
    <2>4. UNCHANGED <<server, extension, attached, requests, peer, executing>>
      BY <1>2 DEF handleMessage
    <2> QED BY <2>1, <2>2, <2>3, <2>4
  <1>3. CASE onClose(s) \/ onError(s)
    <2>1. /\ pendingRequests' \in SUBSET Calls
          /\ promise' \in [Calls -> {"none", "pending", "fulfilled", "rejected"}]
          /\ PendingAgree'
          /\ pendingRequests = {} \/ extension = s => pendingRequests' = {}
      <3>1. CASE extension = s
        BY <1>3, <3>1, SettleAgrees DEF onClose, onError, extensionLost, clearPending
      <3>2. CASE extension # s
        BY <1>3, <3>2 DEF onClose, onError, extensionLost, PendingAgree
      <3> QED BY <3>1, <3>2
    <2>2. /\ extension' = IF extension = s THEN NoSocket ELSE extension
          /\ UNCHANGED <<server, attached, executing>>
      BY <1>3 DEF onClose, onError, extensionLost
    <2>3. CASE onClose(s)
      <3>1. /\ requests' \in [Sockets -> Seq(Frames)]
            /\ responses' \in [Sockets -> Seq(Frames)]
        BY <2>3 DEF onClose
      <3>2. /\ readyState[s] = "CLOSING"
            /\ readyState' = [readyState EXCEPT ![s] = "CLOSED"]
            /\ peer' \in {peer, NoSocket}
        BY <2>3 DEF onClose
      <3> QED BY <2>1, <2>2, <3>1, <3>2
    <2>4. CASE onError(s)
      <3>1. requests' \in [Sockets -> Seq(Frames)]
        BY <2>4, SentTyped DEF onError
      <3>2. /\ readyState' = [readyState EXCEPT ![s] = "CLOSING"]
            /\ UNCHANGED <<responses, peer>>
        BY <2>4 DEF onError
      <3> QED BY <2>1, <2>2, <3>1, <3>2
    <2> QED BY <1>3, <2>3, <2>4
  <1> QED BY <1>1, <1>2, <1>3

LEMMA PeerPreservesInv ==
  ASSUME Inv, PeerStep
  PROVE  Inv'
  <1> USE BridgeAssumption DEF Inv, TypeOK, Frames, ExtensionIsLive, AttachedOnce,
        SocketsAndCalls, LostExtensionFailsCalls, NoForgottenSocket, PendingAgree,
        bridgeVars, channelVars, peerVars
  <1>1. ASSUME NEW s \in Sockets, PeerConnect(s) PROVE Inv'
    <2>1. responses' \in [Sockets -> Seq(Frames)]
      BY <1>1, SentTyped DEF PeerConnect
    <2> QED BY <1>1, <2>1 DEF PeerConnect
  <1>2. ASSUME NEW s \in Sockets, PeerRefused(s) PROVE Inv'
    BY <1>2 DEF PeerRefused
  <1>3. ASSUME NEW s \in Sockets, PeerReceive(s) PROVE Inv'
    <2>1. /\ Head(requests[s]) \in Frames
          /\ requests' \in [Sockets -> Seq(Frames)]
      BY <1>3, TakenTyped DEF PeerReceive
    <2>2. responses' \in [Sockets -> Seq(Frames)]
      <3>1. responses' = responses \/ responses' = Sent(responses, s, Close)
        BY <1>3 DEF PeerReceive
      <3>2. Sent(responses, s, Close) \in [Sockets -> Seq(Frames)]
        BY SentTyped
      <3> QED BY <3>1, <3>2
    <2> QED BY <1>3, <2>1, <2>2 DEF PeerReceive
  <1>4. ASSUME NEW c \in Calls, PeerAnswer(c) PROVE Inv'
    <2>1. responses' \in [Sockets -> Seq(Frames)]
      BY <1>4, SentTyped DEF PeerAnswer
    <2> QED BY <1>4, <2>1 DEF PeerAnswer
  <1>5. CASE PeerStops
    <2>1. responses' \in [Sockets -> Seq(Frames)]
      BY <1>5, SentTyped DEF PeerStops
    <2> QED BY <1>5, <2>1 DEF PeerStops
  <1> QED BY <1>1, <1>2, <1>3, <1>4, <1>5 DEF PeerStep

LEMMA StepPreservesInv == Inv /\ [Next]_vars => Inv'
  <1>1. ASSUME Inv, Next PROVE Inv'
    BY <1>1, BridgePreservesInv, SocketPreservesInv, PeerPreservesInv DEF Next, SocketStep
  <1>2. ASSUME Inv, UNCHANGED vars PROVE Inv'
    BY <1>2 DEF vars, bridgeVars, channelVars, peerVars, Inv, TypeOK, PendingAgree,
       ExtensionIsLive, AttachedOnce, SocketsAndCalls, LostExtensionFailsCalls,
       NoForgottenSocket
  <1> QED BY <1>1, <1>2

LEMMA BridgeInvariance == Spec => []Inv
  <1> QED BY Initially, StepPreservesInv, PTL DEF Spec

(* At every moment the bridge's variables are of their types.               *)
THEOREM BridgeTypes == Spec => []TypeOK
  <1>1. Inv => TypeOK
    BY DEF Inv
  <1> QED BY <1>1, BridgeInvariance, PTL

(* Whatever sockets open, close, fail or replace each other, no caller waits *)
(* for an extension the bridge does not have, and no open socket with        *)
(* handlers is left beside the one it sends on (extensionLost, close and     *)
(* handleConnection).                                                        *)
THEOREM BridgeRecordsAgree == Spec => []SocketsAndCalls
  <1>1. Inv => SocketsAndCalls
    BY DEF Inv
  <1> QED BY <1>1, BridgeInvariance, PTL

-----------------------------------------------------------------------------
(* Where the frame of a call is.                                             *)
Carries(channel, c) == \E s \in Sockets : \E i \in DOMAIN channel[s] : channel[s][i] = c

Once(channel, c) ==
  \A s, t \in Sockets : \A i \in DOMAIN channel[s], j \in DOMAIN channel[t] :
    channel[s][i] = c /\ channel[t][j] = c => s = t /\ i = j

(* A call is on its way, or with the extension, or on its way back, and its  *)
(* request is nowhere twice; when its answer has come it is nowhere else.    *)
OnePlace ==
  \A c \in Calls :
    /\ promise[c] = "none" =>
         ~Carries(requests, c) /\ c \notin executing /\ ~Carries(responses, c)
    /\ promise[c] = "fulfilled" => ~Carries(requests, c) /\ c \notin executing
    /\ c \in executing => ~Carries(requests, c)
    /\ Carries(responses, c) => ~Carries(requests, c) /\ c \notin executing
    /\ Once(requests, c)

LEMMA SentCarries ==
  ASSUME NEW channel \in [Sockets -> Seq(Frames)], NEW s \in Sockets, NEW x \in Frames, NEW c
  PROVE  /\ Carries(Sent(channel, s, x), c) => Carries(channel, c) \/ c = x
         /\ Once(channel, c) /\ (c # x \/ ~Carries(channel, c)) => Once(Sent(channel, s, x), c)
  <1> DEFINE new == Sent(channel, s, x)
  <1>1. channel[s] \in Seq(Frames)
    OBVIOUS
  <1>2. /\ DOMAIN channel[s] = 1 .. Len(channel[s]) /\ Len(channel[s]) \in Nat
        /\ DOMAIN Append(channel[s], x) = 1 .. Len(channel[s]) + 1
        /\ \A i \in DOMAIN channel[s] : Append(channel[s], x)[i] = channel[s][i]
        /\ Append(channel[s], x)[Len(channel[s]) + 1] = x
    BY <1>1
  <1>3. new[s] = Append(channel[s], x) /\ \A t \in Sockets \ {s} : new[t] = channel[t]
    BY DEF Sent
  <1> HIDE DEF new
  <1>4. \A t \in Sockets : \A i \in DOMAIN new[t] :
          \/ i \in DOMAIN channel[t] /\ new[t][i] = channel[t][i]
          \/ t = s /\ i = Len(channel[s]) + 1 /\ new[t][i] = x
    BY <1>2, <1>3
  <1>5. Carries(new, c) => Carries(channel, c) \/ c = x
    BY <1>4 DEF Carries
  <1>6. ASSUME Once(channel, c), c # x \/ ~Carries(channel, c)
        PROVE  Once(new, c)
    BY <1>4, <1>6 DEF Once, Carries
  <1> QED BY <1>5, <1>6 DEF new

Taken(channel, s) == [channel EXCEPT ![s] = Tail(@)]

LEMMA TakenCarries ==
  ASSUME NEW channel \in [Sockets -> Seq(Frames)], NEW s \in Sockets, channel[s] # <<>>, NEW c
  PROVE  /\ Head(channel[s]) = c => Carries(channel, c)
         /\ Carries(Taken(channel, s), c) => Carries(channel, c)
         /\ Once(channel, c) => Once(Taken(channel, s), c)
         /\ Once(channel, c) /\ Head(channel[s]) = c => ~Carries(Taken(channel, s), c)
  <1> DEFINE new == Taken(channel, s)
  <1>1. channel[s] \in Seq(Frames)
    OBVIOUS
  <1>2. /\ 1 \in DOMAIN channel[s] /\ Head(channel[s]) = channel[s][1]
        /\ DOMAIN channel[s] = 1 .. Len(channel[s]) /\ Len(channel[s]) \in Nat
        /\ DOMAIN Tail(channel[s]) = 1 .. Len(channel[s]) - 1
        /\ \A i \in DOMAIN Tail(channel[s]) : Tail(channel[s])[i] = channel[s][i + 1]
    BY <1>1
  <1>3. new[s] = Tail(channel[s]) /\ \A t \in Sockets \ {s} : new[t] = channel[t]
    BY DEF Taken
  <1> HIDE DEF new
  <1> DEFINE was(t, i) == IF t = s THEN i + 1 ELSE i
  <1>4. \A t \in Sockets : \A i \in DOMAIN new[t] :
          /\ was(t, i) \in DOMAIN channel[t] /\ new[t][i] = channel[t][was(t, i)]
          /\ t = s => was(t, i) # 1
    BY <1>2, <1>3
  <1>5. \A t \in Sockets : \A i, j \in DOMAIN new[t] : was(t, i) = was(t, j) => i = j
    BY <1>2, <1>3
  <1> HIDE DEF was
  <1>6. Head(channel[s]) = c => Carries(channel, c)
    BY <1>2 DEF Carries
  <1>7. Carries(new, c) => Carries(channel, c)
    BY <1>4 DEF Carries
  <1>8. Once(channel, c) => Once(new, c)
    BY <1>4, <1>5 DEF Once
  <1>9. Once(channel, c) /\ Head(channel[s]) = c => ~Carries(new, c)
    BY <1>2, <1>4 DEF Once, Carries
  <1> QED BY <1>6, <1>7, <1>8, <1>9 DEF new

LEMMA EmptiedCarries ==
  ASSUME NEW channel \in [Sockets -> Seq(Frames)], NEW s \in Sockets, NEW c,
         NEW new, new = [channel EXCEPT ![s] = <<>>]
  PROVE  /\ Carries(new, c) => Carries(channel, c)
         /\ Once(channel, c) => Once(new, c)
  <1>1. \A t \in Sockets : \A i \in DOMAIN new[t] : i \in DOMAIN channel[t] /\ new[t][i] = channel[t][i]
    OBVIOUS
  <1> QED BY <1>1 DEF Carries, Once

LEMMA NoneCarried == Init => OnePlace
  <1>1. Init => \A s \in Sockets : DOMAIN requests[s] = {} /\ DOMAIN responses[s] = {}
    BY DEF Init
  <1> QED BY <1>1 DEF Init, OnePlace, Carries, Once

(* Steps that lose frames and calls, if anything.                            *)
LEMMA LosingKeepsOnePlace ==
  ASSUME OnePlace,
         \A c \in Calls :
           /\ promise'[c] = promise[c] \/ (promise[c] = "pending" /\ promise'[c] = "rejected")
           /\ Carries(requests', c) => Carries(requests, c)
           /\ Once(requests, c) => Once(requests', c)
           /\ Carries(responses', c) => Carries(responses, c)
           /\ c \in executing' => c \in executing
  PROVE  OnePlace'
  BY DEF OnePlace

(* A close frame carries no call.                                            *)
LEMMA CloseCarriesNothing ==
  ASSUME NEW channel \in [Sockets -> Seq(Frames)], NEW s \in Sockets, NEW c \in Calls
  PROVE  /\ Carries(Sent(channel, s, Close), c) => Carries(channel, c)
         /\ Once(channel, c) => Once(Sent(channel, s, Close), c)
  BY SentCarries, BridgeAssumption DEF Frames

LEMMA BridgeKeepsOnePlace ==
  ASSUME Inv, OnePlace, connect \/ Listening \/ ListenError \/ close
         \/ (\E c \in Calls : sendToolRequest(c) \/ Timeout(c))
  PROVE  OnePlace'
  <1>1. requests \in [Sockets -> Seq(Frames)] /\ responses \in [Sockets -> Seq(Frames)]
    BY DEF Frames, Inv, TypeOK
  <1>2. CASE connect \/ Listening \/ ListenError
    BY <1>2 DEF connect, Listening, ListenError, channelVars, peerVars, OnePlace
  <1>3. CASE close
    <2>1. /\ \A c \in Calls :
              promise'[c] = promise[c] \/ (promise[c] = "pending" /\ promise'[c] = "rejected")
          /\ responses' = responses /\ executing' = executing
      BY <1>3 DEF close, clearPending, Settle, PendingAgree, peerVars, Inv, TypeOK
    <2>2. requests' = requests \/ (requests' = Sent(requests, extension, Close) /\ extension \in Sockets)
      BY <1>3 DEF close, connected, Inv, TypeOK
    <2>3. \A c \in Calls : /\ Carries(requests', c) => Carries(requests, c)
                           /\ Once(requests, c) => Once(requests', c)
      BY <1>1, <2>2, CloseCarriesNothing
    <2> QED BY <2>1, <2>3, LosingKeepsOnePlace
  <1>4. ASSUME NEW c \in Calls, Timeout(c) PROVE OnePlace'
    <2>1. /\ \A d \in Calls :
              promise'[d] = promise[d] \/ (promise[d] = "pending" /\ promise'[d] = "rejected")
          /\ requests' = requests /\ responses' = responses /\ executing' = executing
      BY <1>4 DEF Timeout, Settle, PendingAgree, peerVars, channelVars, Inv, TypeOK
    <2> QED BY <2>1, LosingKeepsOnePlace
  <1>5. ASSUME NEW c \in Calls, sendToolRequest(c) PROVE OnePlace'
    <2>1. /\ promise[c] = "none" /\ \A d \in Calls \ {c} : promise'[d] = promise[d]
          /\ promise'[c] \in {"pending", "rejected"}
          /\ responses' = responses /\ executing' = executing
      BY <1>5 DEF sendToolRequest, peerVars, Inv, TypeOK
    <2>2. requests' = requests \/ (requests' = Sent(requests, extension, c) /\ extension \in Sockets)
      BY <1>5 DEF sendToolRequest, connected, Inv, TypeOK
    <2>3. ~Carries(requests, c) /\ c \notin executing /\ ~Carries(responses, c)
      BY <2>1 DEF OnePlace
    <2>4. \A d \in Calls : /\ Carries(requests', d) => Carries(requests, d) \/ d = c
                           /\ Once(requests, d) => Once(requests', d)
      <3>1. CASE requests' = requests
        BY <3>1
      <3>2. CASE requests' = Sent(requests, extension, c) /\ extension \in Sockets
        <4>1. c \in Frames
          BY DEF Frames
        <4> QED BY <1>1, <2>3, <3>2, <4>1, SentCarries
      <3> QED BY <2>2, <3>1, <3>2
    <2> QED BY <2>1, <2>3, <2>4 DEF OnePlace
  <1> QED BY <1>2, <1>3, <1>4, <1>5

LEMMA SocketKeepsOnePlace ==
  ASSUME Inv, OnePlace, NEW s \in Sockets,
         handleConnection(s) \/ handleMessage(s) \/ onClose(s) \/ onError(s)
  PROVE  OnePlace'
  <1>1. requests \in [Sockets -> Seq(Frames)] /\ responses \in [Sockets -> Seq(Frames)]
    BY DEF Frames, Inv, TypeOK
  <1>2. CASE handleConnection(s)
    <2>1. /\ requests' = requests \/ requests' = Sent(requests, s, Close)
          /\ promise' = promise /\ responses' = responses /\ executing' = executing
      BY <1>2 DEF handleConnection, peerVars
    <2>2. \A c \in Calls : /\ Carries(requests', c) => Carries(requests, c)
                           /\ Once(requests, c) => Once(requests', c)
      <3>1. \A c \in Calls : /\ Carries(Sent(requests, s, Close), c) => Carries(requests, c)
                             /\ Once(requests, c) => Once(Sent(requests, s, Close), c)
        BY <1>1, CloseCarriesNothing
      <3> QED BY <2>1, <3>1
    <2> QED BY <2>1, <2>2, LosingKeepsOnePlace
  <1>3. CASE handleMessage(s)
    <2>1. /\ responses[s] # <<>> /\ responses' = Taken(responses, s)
          /\ requests' = requests /\ executing' = executing
      BY <1>3 DEF handleMessage, peerVars, Taken
    <2>2. \A c \in Calls : /\ c = Head(responses[s]) => Carries(responses, c)
                           /\ Carries(responses', c) => Carries(responses, c)
      <3>1. \A c \in Calls : /\ c = Head(responses[s]) => Carries(responses, c)
                             /\ Carries(Taken(responses, s), c) => Carries(responses, c)
        BY <1>1, <2>1, TakenCarries
      <3> QED BY <2>1, <3>1
    <2>3. \A c \in Calls :
            promise'[c] = promise[c]
            \/ (c = Head(responses[s]) /\ promise[c] = "pending" /\ promise'[c] = "fulfilled")
      BY <1>3 DEF handleMessage, Settle, PendingAgree, Inv, TypeOK
    <2> QED BY <2>1, <2>2, <2>3 DEF OnePlace
  <1>4. CASE onClose(s) \/ onError(s)
    <2>1. \A c \in Calls :
            promise'[c] = promise[c] \/ (promise[c] = "pending" /\ promise'[c] = "rejected")
      BY <1>4 DEF onClose, onError, extensionLost, clearPending, Settle, PendingAgree, Inv, TypeOK
    <2>2. CASE onClose(s)
      <3>1. /\ requests' = [requests EXCEPT ![s] = <<>>]
            /\ responses' = [responses EXCEPT ![s] = <<>>]
            /\ executing' = executing
        BY <2>2 DEF onClose
      <3>2. \A c \in Calls : /\ Carries(requests', c) => Carries(requests, c)
                             /\ Once(requests, c) => Once(requests', c)
                             /\ Carries(responses', c) => Carries(responses, c)
        BY <1>1, <3>1, EmptiedCarries
      <3> QED BY <2>1, <3>1, <3>2, LosingKeepsOnePlace
    <2>3. CASE onError(s)
      <3>1. requests' = Sent(requests, s, Close) /\ responses' = responses /\ executing' = executing
        BY <2>3 DEF onError, peerVars
      <3>2. \A c \in Calls : /\ Carries(requests', c) => Carries(requests, c)
                             /\ Once(requests, c) => Once(requests', c)
        BY <1>1, <3>1, CloseCarriesNothing
      <3> QED BY <2>1, <3>1, <3>2, LosingKeepsOnePlace
    <2> QED BY <1>4, <2>2, <2>3
  <1> QED BY <1>2, <1>3, <1>4

LEMMA PeerKeepsOnePlace ==
  ASSUME Inv, OnePlace, PeerStep
  PROVE  OnePlace'
  <1>1. requests \in [Sockets -> Seq(Frames)] /\ responses \in [Sockets -> Seq(Frames)]
    BY DEF Frames, Inv, TypeOK
  <1>2. UNCHANGED promise
    BY DEF PeerStep, PeerConnect, PeerRefused, PeerReceive, PeerAnswer, PeerStops, bridgeVars
  <1>3. CASE PeerStops \/ \E s \in Sockets : PeerConnect(s) \/ PeerRefused(s)
    <2>1. /\ requests' = requests
          /\ responses' = responses
             \/ (responses' = Sent(responses, peer, Close) /\ peer \in Sockets)
          /\ executing' \in {executing, {}}
      BY <1>3 DEF PeerStops, PeerConnect, PeerRefused, channelVars, Inv, TypeOK
    <2>2. \A c \in Calls : Carries(responses', c) => Carries(responses, c)
      <3>1. peer \in Sockets =>
              \A c \in Calls : Carries(Sent(responses, peer, Close), c) => Carries(responses, c)
        BY <1>1, CloseCarriesNothing
      <3> QED BY <2>1, <3>1
    <2> QED BY <1>2, <2>1, <2>2, LosingKeepsOnePlace
  <1>4. ASSUME NEW s \in Sockets, PeerReceive(s) PROVE OnePlace'
    <2> DEFINE frame == Head(requests[s])
    <2>1. requests[s] # <<>> /\ requests' = Taken(requests, s)
      BY <1>4 DEF PeerReceive, Taken
    <2>2. \A c \in Calls : /\ frame = c => Carries(requests, c)
                           /\ Carries(requests', c) => Carries(requests, c)
                           /\ Once(requests, c) => Once(requests', c)
                           /\ Once(requests, c) /\ frame = c => ~Carries(requests', c)
      <3>1. \A c \in Calls : /\ frame = c => Carries(requests, c)
                             /\ Carries(Taken(requests, s), c) => Carries(requests, c)
                             /\ Once(requests, c) => Once(Taken(requests, s), c)
                             /\ Once(requests, c) /\ frame = c => ~Carries(Taken(requests, s), c)
        BY <1>1, <2>1, TakenCarries
      <3> QED BY <2>1, <3>1
    <2>3. responses' = responses \/ responses' = Sent(responses, s, Close)
      BY <1>4 DEF PeerReceive
    <2>4. \A c \in Calls : Carries(responses', c) => Carries(responses, c)
      BY <1>1, <2>3, CloseCarriesNothing
    <2>5. executing' \in {executing, executing \union {frame}}
      BY <1>4 DEF PeerReceive
    <2> HIDE DEF frame
    <2> QED BY <1>2, <2>2, <2>4, <2>5 DEF OnePlace
  <1>5. ASSUME NEW c \in Calls, PeerAnswer(c) PROVE OnePlace'
    <2>1. /\ c \in executing /\ executing' = executing \ {c} /\ requests' = requests
          /\ responses' = responses \/ (responses' = Sent(responses, peer, c) /\ peer \in Sockets)
      BY <1>5 DEF PeerAnswer, Inv, TypeOK
    <2>2. c \in Frames
      BY DEF Frames
    <2>3. \A d \in Calls : Carries(responses', d) => Carries(responses, d) \/ d = c
      BY <1>1, <2>1, <2>2, SentCarries
    <2> QED BY <1>2, <2>1, <2>3 DEF OnePlace
  <1> QED BY <1>3, <1>4, <1>5 DEF PeerStep

LEMMA StepKeepsOnePlace == Inv /\ OnePlace /\ [Next]_vars => OnePlace'
  <1>1. ASSUME Inv, OnePlace, Next PROVE OnePlace'
    BY <1>1, BridgeKeepsOnePlace, SocketKeepsOnePlace, PeerKeepsOnePlace DEF Next, SocketStep
  <1>2. ASSUME OnePlace, UNCHANGED vars PROVE OnePlace'
    BY <1>2 DEF vars, bridgeVars, channelVars, peerVars, OnePlace
  <1> QED BY <1>1, <1>2

(* The extension carries out a call at most once: through timeouts, errors,  *)
(* reconnections and answers over another socket, no request is in two       *)
(* places, and none is left to carry out when its answer has arrived.        *)
THEOREM CarriedOutOnce == Spec => []OnePlace
  <1> QED BY NoneCarried, StepKeepsOnePlace, BridgeInvariance, PTL DEF Spec

-----------------------------------------------------------------------------
(* Of one step: what was settled stays as it was, and what is rejected is    *)
(* rejected by its own timer or with the socket the bridge sends on.         *)
Verdicts ==
  \A c \in Calls :
    /\ promise[c] \in {"fulfilled", "rejected"} => promise'[c] = promise[c]
    /\ promise[c] = "pending" /\ promise'[c] = "rejected" =>
         \/ pendingRequests' = pendingRequests \ {c} /\ UNCHANGED <<extension, readyState>>
         \/ extension' = NoSocket /\ readyState'[extension] # "OPEN"

LEMMA VerdictsOfAStep == Inv /\ [Next]_vars => Verdicts
  <1> SUFFICES ASSUME Inv, [Next]_vars, NEW c \in Calls
               PROVE  /\ promise[c] \in {"fulfilled", "rejected"} => promise'[c] = promise[c]
                      /\ promise[c] = "pending" /\ promise'[c] = "rejected" =>
                           \/ /\ pendingRequests' = pendingRequests \ {c}
                              /\ UNCHANGED <<extension, readyState>>
                           \/ extension' = NoSocket /\ readyState'[extension] # "OPEN"
    BY DEF Verdicts
  <1> USE BridgeAssumption DEF Inv, TypeOK, Frames, PendingAgree
  <1>1. CASE UNCHANGED promise
    BY <1>1
  <1>2. CASE close
    <2>1. promise[c] = "pending" => extension # NoSocket
      BY DEF SocketsAndCalls, LostExtensionFailsCalls
    <2>2. extension # NoSocket => readyState'[extension] # "OPEN"
      BY <1>2 DEF close, connected
    <2> QED BY <1>2, <2>1, <2>2 DEF close, clearPending, Settle
  <1>3. ASSUME NEW d \in Calls, sendToolRequest(d) PROVE ~(promise[c] # "none" /\ promise'[c] # promise[c])
    BY <1>3 DEF sendToolRequest
  <1>4. ASSUME NEW d \in Calls, Timeout(d)
        PROVE  promise'[c] # promise[c] => c = d /\ promise[c] = "pending"
                                           /\ pendingRequests' = pendingRequests \ {c}
                                           /\ UNCHANGED <<extension, readyState>>
    BY <1>4 DEF Timeout, Settle
  <1>5. ASSUME NEW s \in Sockets, handleMessage(s)
        PROVE  promise'[c] # promise[c] => promise[c] = "pending" /\ promise'[c] = "fulfilled"
    BY <1>5 DEF handleMessage, Settle
  <1>6. ASSUME NEW s \in Sockets, onClose(s) \/ onError(s)
        PROVE  promise'[c] # promise[c] => /\ promise[c] = "pending"
                                           /\ extension' = NoSocket
                                           /\ readyState'[extension] # "OPEN"
    <2>1. CASE extension # s
      BY <1>6, <2>1 DEF onClose, onError, extensionLost
    <2>2. CASE extension = s
      BY <1>6, <2>2 DEF onClose, onError, extensionLost, clearPending, Settle
    <2> QED BY <2>1, <2>2
  <1>7. CASE connect \/ Listening \/ ListenError \/ (\E s \in Sockets : handleConnection(s)) \/ PeerStep
    <2>1. UNCHANGED promise
      BY <1>7 DEF connect, Listening, ListenError, handleConnection, PeerStep, PeerConnect,
         PeerRefused, PeerReceive, PeerAnswer, PeerStops, bridgeVars
    <2> QED BY <2>1
  <1>8. CASE UNCHANGED vars
    BY <1>8, <1>1 DEF vars, bridgeVars
  <1> QED BY <1>2, <1>3, <1>4, <1>5, <1>6, <1>7, <1>8 DEF Next, SocketStep

(* A call fails for a reason of its own, and a verdict is final, for every   *)
(* number of calls and sockets: late answers, late close events of replaced  *)
(* sockets and timers of settled calls change no promise.                    *)
THEOREM VerdictsAreFinalAndOwn == Spec => VerdictsAreRight
  <1>1. Inv /\ [Next]_vars =>
          [\A c \in Calls : promise[c] \in {"fulfilled", "rejected"} => promise'[c] = promise[c]]_vars
    BY VerdictsOfAStep DEF Verdicts
  <1>2. Inv /\ [Next]_vars =>
          [\A c \in Calls :
             promise[c] = "pending" /\ promise'[c] = "rejected" =>
               \/ pendingRequests' = pendingRequests \ {c} /\ UNCHANGED <<extension, readyState>>
               \/ extension' = NoSocket /\ readyState'[extension] # "OPEN"]_vars
    BY VerdictsOfAStep DEF Verdicts
  <1> QED
    BY <1>1, <1>2, BridgeInvariance, PTL
    DEF Spec, VerdictsAreRight, VerdictIsFinal, FailsForItsOwnReason

=============================================================================

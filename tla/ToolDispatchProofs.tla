------------------------- MODULE ToolDispatchProofs -------------------------
(***************************************************************************)
(* That ToolDispatch implements RequestQueue, for any number of requests   *)
(* and sockets: the WebSocket bridge is a transport as the queue expects   *)
(* one.  With it, what was proved of the queue over any transport and of   *)
(* the bridge under any caller holds of the two together.                  *)
(***************************************************************************)
EXTENDS ToolDispatch, TLAPS

BridgeP == INSTANCE WebSocketBridgeProofs WITH Calls <- Requests
QueueP == INSTANCE RequestQueueProofs WITH connected <- Bridge!connected

Inv == BridgeP!Inv /\ BridgeP!OnePlace /\ QueueP!Inv

-----------------------------------------------------------------------------
(* The instances of the specifications and of their proofs are of the same   *)
(* formulas.                                                                 *)
LEMMA SameBridge ==
  /\ Bridge!Init <=> BridgeP!Init
  /\ Bridge!Next <=> BridgeP!Next
  /\ UNCHANGED Bridge!vars <=> UNCHANGED BridgeP!vars
<1>1. Bridge!Init <=> BridgeP!Init
  BY DEF Bridge!Init, BridgeP!Init
<1>2. UNCHANGED Bridge!vars <=> UNCHANGED BridgeP!vars
  BY DEF Bridge!vars, BridgeP!vars, Bridge!bridgeVars, BridgeP!bridgeVars,
     Bridge!channelVars, BridgeP!channelVars, Bridge!peerVars, BridgeP!peerVars
<1>3. Bridge!Next <=> BridgeP!Next
  BY DEF Bridge!Next, BridgeP!Next, Bridge!connect, BridgeP!connect, Bridge!close, BridgeP!close,
     Bridge!sendToolRequest, BridgeP!sendToolRequest, Bridge!SocketStep, BridgeP!SocketStep,
     Bridge!PeerStep, BridgeP!PeerStep, Bridge!Listening, BridgeP!Listening,
     Bridge!ListenError, BridgeP!ListenError, Bridge!Timeout, BridgeP!Timeout,
     Bridge!handleConnection, BridgeP!handleConnection,
     Bridge!handleMessage, BridgeP!handleMessage, Bridge!onClose, BridgeP!onClose,
     Bridge!onError, BridgeP!onError, Bridge!PeerConnect, BridgeP!PeerConnect,
     Bridge!PeerRefused, BridgeP!PeerRefused, Bridge!PeerReceive, BridgeP!PeerReceive,
     Bridge!PeerAnswer, BridgeP!PeerAnswer, Bridge!PeerStops, BridgeP!PeerStops,
     Bridge!connected, BridgeP!connected, Bridge!Settle, BridgeP!Settle,
     Bridge!clearPending, BridgeP!clearPending, Bridge!extensionLost, BridgeP!extensionLost,
     Bridge!Sent, BridgeP!Sent, Bridge!bridgeVars, BridgeP!bridgeVars,
     Bridge!channelVars, BridgeP!channelVars, Bridge!peerVars, BridgeP!peerVars
<1> QED BY <1>1, <1>2, <1>3

LEMMA SameQueue ==
  /\ Queue!Init <=> QueueP!Init
  /\ Queue!Next <=> QueueP!Next
  /\ UNCHANGED Queue!vars <=> UNCHANGED QueueP!vars
<1>1. Queue!Init <=> QueueP!Init
  BY DEF Queue!Init, QueueP!Init
<1>2. UNCHANGED Queue!vars <=> UNCHANGED QueueP!vars
  BY DEF Queue!vars, QueueP!vars, Queue!queueVars, QueueP!queueVars,
     Queue!transportVars, QueueP!transportVars
<1>3. Queue!Next <=> QueueP!Next
  BY DEF Queue!Next, QueueP!Next, Queue!Connect, QueueP!Connect,
     Queue!Disconnect, QueueP!Disconnect, Queue!Disconnecting, QueueP!Disconnecting,
     Queue!SendToolRequest, QueueP!SendToolRequest, Queue!Called, QueueP!Called,
     Queue!Then, QueueP!Then, Queue!Catch, QueueP!Catch, Queue!Finally, QueueP!Finally,
     Queue!TransportStep, QueueP!TransportStep, Queue!ProcessNext, QueueP!ProcessNext,
     Queue!HandedOver, QueueP!HandedOver, Queue!Settle, QueueP!Settle,
     Queue!Settled, QueueP!Settled, Queue!Range, QueueP!Range,
     Queue!queueVars, QueueP!queueVars, Queue!transportVars, QueueP!transportVars
<1> QED BY <1>1, <1>2, <1>3

-----------------------------------------------------------------------------
(* What the two components say of the variables they share.                  *)
LEMMA Shared ==
  ASSUME Inv
  PROVE  /\ promise \in [Requests -> {"none", "pending", "fulfilled", "rejected"}]
         /\ pendingRequests \subseteq Requests
         /\ \A r \in pendingRequests : promise[r] = "pending"
         /\ reaction \in [Requests -> {"none", "attached", "handled", "done"}]
BY DEF Inv, BridgeP!Inv, BridgeP!TypeOK, BridgeP!PendingAgree, QueueP!Inv, QueueP!TypeOK,
   QueueP!Reactions

(* processNext hands over one request at most.                               *)
LEMMA OneIsHandedOver ==
  ASSUME Inv, NEW r \in Requests, Queue!SendToolRequest(r) \/ Queue!Finally(r),
         NEW x \in Queue!HandedOver, NEW y \in Queue!HandedOver
  PROVE  x = y
<1>1. /\ x \in Requests /\ reaction[x] = "none" /\ reaction'[x] = "attached"
      /\ y \in Requests /\ reaction[y] = "none" /\ reaction'[y] = "attached"
  BY DEF Queue!HandedOver
<1>2. \E chain \in {reaction, [reaction EXCEPT ![r] = "done"]} : \E h :
        reaction' = chain \/ reaction' = [chain EXCEPT ![h] = "attached"]
  BY DEF Queue!SendToolRequest, Queue!Finally, Queue!ProcessNext
<1> QED BY <1>1, <1>2, Shared

(* When the queue calls the transport, the bridge answers with a promise as  *)
(* the queue expects.                                                        *)
LEMMA ForwardIsCalled ==
  ASSUME Inv, NEW r \in Requests, Queue!SendToolRequest(r) \/ Queue!Finally(r), Forward
  PROVE  Queue!Called
<1>1. CASE Queue!HandedOver = {}
  <2>1. UNCHANGED <<extension, readyState, promise>>
    BY <1>1 DEF Forward, bridgeVars
  <2>2. promise' = [s \in Requests |-> IF s \in Queue!HandedOver THEN "pending" ELSE promise[s]]
    BY <1>1, <2>1, Shared
  <2> QED BY <2>1, <2>2 DEF Queue!Called, Bridge!connected
<1>2. CASE Queue!HandedOver # {}
  <2>1. PICK h \in Queue!HandedOver : Bridge!sendToolRequest(h)
    BY <1>2 DEF Forward
  <2>2. UNCHANGED <<extension, readyState>>
    BY <2>1 DEF Bridge!sendToolRequest
  <2>3. PICK p \in {"pending", "rejected"} : promise' = [promise EXCEPT ![h] = p]
    BY <2>1 DEF Bridge!sendToolRequest
  <2>4. \A s \in Requests : s \in Queue!HandedOver <=> s = h
    BY OneIsHandedOver
  <2>5. promise' = [s \in Requests |-> IF s \in Queue!HandedOver THEN p ELSE promise[s]]
    BY <2>3, <2>4, Shared
  <2> QED BY <2>2, <2>5 DEF Queue!Called, Bridge!connected
<1> QED BY <1>1, <1>2

(* On its own the bridge only settles calls that are pending.                *)
LEMMA OutsideIsTransportStep ==
  ASSUME Inv, Outside
  PROVE  Queue!TransportStep
<1> DEFINE Settles ==
      \E done \in SUBSET {r \in Requests : promise[r] = "pending"}, p \in {"fulfilled", "rejected"} :
        promise' = [r \in Requests |-> IF r \in done THEN p ELSE promise[r]]
<1>1. ASSUME UNCHANGED promise PROVE Settles
  <2>1. promise' = [r \in Requests |-> IF r \in {} THEN "rejected" ELSE promise[r]]
    BY <1>1, Shared
  <2> WITNESS {} \in SUBSET {r \in Requests : promise[r] = "pending"},
              "rejected" \in {"fulfilled", "rejected"}
  <2> QED BY <2>1
<1>2. ASSUME NEW cs \in SUBSET pendingRequests, NEW how \in {"fulfilled", "rejected"},
             Bridge!Settle(cs, how)
      PROVE  Settles
  <2>1. cs \in SUBSET {r \in Requests : promise[r] = "pending"}
    BY Shared
  <2> QED BY <2>1, <1>2 DEF Bridge!Settle
<1> HIDE DEF Settles
<1>3. ASSUME Bridge!PeerStep \/ Bridge!Listening \/ Bridge!ListenError
               \/ \E s \in Sockets : Bridge!handleConnection(s)
      PROVE  Settles
  <2>1. UNCHANGED promise
    BY <1>3 DEF Bridge!PeerStep, Bridge!PeerConnect, Bridge!PeerRefused, Bridge!PeerReceive,
       Bridge!PeerAnswer, Bridge!PeerStops, Bridge!Listening, Bridge!ListenError,
       Bridge!handleConnection, Bridge!bridgeVars
  <2> QED BY <1>1, <2>1
<1>4. ASSUME NEW c \in Requests, Bridge!Timeout(c) PROVE Settles
  BY <1>2, <1>4 DEF Bridge!Timeout
<1>5. ASSUME NEW s \in Sockets, Bridge!handleMessage(s) PROVE Settles
  <2>1. UNCHANGED promise
        \/ Bridge!Settle({Head(responses[s])} \intersect pendingRequests, "fulfilled")
    BY <1>5 DEF Bridge!handleMessage
  <2> QED BY <1>1, <1>2, <2>1
<1>6. ASSUME NEW s \in Sockets, Bridge!onClose(s) \/ Bridge!onError(s) PROVE Settles
  <2>1. UNCHANGED promise \/ Bridge!Settle(pendingRequests, "rejected")
    BY <1>6 DEF Bridge!onClose, Bridge!onError, Bridge!extensionLost, Bridge!clearPending
  <2> QED BY <1>1, <1>2, <2>1
<1>7. Settles
  BY <1>3, <1>4, <1>5, <1>6 DEF Outside, Bridge!SocketStep
<1>8. Bridge!connected' \in BOOLEAN
  BY DEF Bridge!connected
<1>9. UNCHANGED Queue!queueVars
  BY DEF Outside, queueVars, Queue!queueVars
<1> QED BY <1>7, <1>8, <1>9 DEF Queue!TransportStep, Settles

-----------------------------------------------------------------------------
(* A step of the gateway is a step of the queue and one of the bridge.       *)
LEMMA StepOfQueue ==
  ASSUME Inv, [Next]_vars
  PROVE  [Queue!Next]_(Queue!vars)
<1>1. CASE Connect
  <2>1. UNCHANGED <<extension, readyState, promise>>
    BY <1>1 DEF Connect, Bridge!connect
  <2> QED BY <1>1, <2>1 DEF Connect, Queue!Next, Queue!transportVars, Bridge!connected
<1>2. CASE Disconnect
  <2>1. Bridge!connected' = FALSE
    BY <1>2, DispatchAssumption DEF Disconnect, Bridge!close, Bridge!connected
  <2>2. promise' = [r \in Requests |-> IF r \in pendingRequests THEN "rejected" ELSE promise[r]]
    BY <1>2 DEF Disconnect, Bridge!close, Bridge!clearPending, Bridge!Settle
  <2>3. pendingRequests \in SUBSET {r \in Requests : promise[r] = "pending"}
    BY Shared
  <2>4. Queue!Disconnecting
    BY <2>1, <2>2, <2>3 DEF Queue!Disconnecting
  <2> QED BY <1>2, <2>4 DEF Disconnect, Queue!Next
<1>3. ASSUME NEW r \in Requests, SendToolRequest(r) PROVE Queue!Next
  BY <1>3, ForwardIsCalled DEF SendToolRequest, Queue!Next
<1>4. ASSUME NEW r \in Requests, Settling(r) PROVE Queue!Next
  <2>1. UNCHANGED <<extension, readyState, promise>>
    BY <1>4 DEF Settling, bridgeVars
  <2> QED BY <1>4, <2>1 DEF Settling, Queue!Next, Queue!transportVars, Bridge!connected
<1>5. ASSUME NEW r \in Requests, Finally(r) PROVE Queue!Next
  BY <1>5, ForwardIsCalled DEF Finally, Queue!Next
<1>6. CASE Outside
  BY <1>6, OutsideIsTransportStep DEF Queue!Next
<1>7. CASE UNCHANGED vars
  BY <1>7 DEF vars, queueVars, bridgeVars, Queue!vars, Queue!queueVars, Queue!transportVars,
     Bridge!connected
<1> QED BY <1>1, <1>2, <1>3, <1>4, <1>5, <1>6, <1>7 DEF Next

LEMMA StepOfBridge ==
  ASSUME [Next]_vars
  PROVE  [Bridge!Next]_(Bridge!vars)
<1>1. UNCHANGED bridgeVars => UNCHANGED Bridge!vars
  BY DEF bridgeVars, Bridge!vars, Bridge!bridgeVars, Bridge!channelVars, Bridge!peerVars
<1>2. Forward => Bridge!Next \/ UNCHANGED bridgeVars
  BY DEF Forward, Bridge!Next, Queue!HandedOver
<1>3. UNCHANGED vars => UNCHANGED bridgeVars
  BY DEF vars
<1> QED
  BY <1>1, <1>2, <1>3
  DEF Next, Connect, Disconnect, SendToolRequest, Settling, Finally, Outside, Bridge!Next

LEMMA Initially == Init => Inv
<1> SUFFICES ASSUME Init PROVE Inv
  OBVIOUS
<1>1. BridgeP!Inv /\ BridgeP!OnePlace
  BY SameBridge, BridgeP!Initially, BridgeP!NoneCarried, DispatchAssumption
  DEF Init, BridgeP!BridgeAssumption
<1>2. QueueP!Inv
  BY SameQueue, QueueP!InitInv, DispatchAssumption DEF Init, QueueP!NoRequestAssumption
<1> QED BY <1>1, <1>2 DEF Inv

LEMMA StepPreservesInv == Inv /\ [Next]_vars => Inv'
<1> SUFFICES ASSUME Inv, [Next]_vars PROVE Inv'
  OBVIOUS
<1>1. BridgeP!Inv' /\ BridgeP!OnePlace'
  <2>1. [BridgeP!Next]_(BridgeP!vars)
    BY StepOfBridge, SameBridge
  <2> QED
    BY <2>1, BridgeP!StepPreservesInv, BridgeP!StepKeepsOnePlace, DispatchAssumption
    DEF Inv, BridgeP!BridgeAssumption
<1>2. QueueP!Inv'
  <2>1. [QueueP!Next]_(QueueP!vars)
    BY StepOfQueue, SameQueue
  <2> QED
    BY <2>1, QueueP!InvStep, DispatchAssumption DEF Inv, QueueP!NoRequestAssumption
<1> QED BY <1>1, <1>2 DEF Inv

LEMMA Invariance == Spec => []Inv
BY Initially, StepPreservesInv, PTL DEF Spec

(* The gateway's request path implements the queue over some transport:      *)
(* whatever the bridge, its sockets and the extension do, it is what the     *)
(* queue allows a transport to do (gatewayRuntime.ts hands the bridge to     *)
(* RequestQueueTransport).                                                   *)
THEOREM ImplementsRequestQueue == Spec => QueueSpec
<1>1. Init => Queue!Init
  BY DEF Init
<1>2. Inv /\ [Next]_vars => [Queue!Next]_(Queue!vars)
  BY StepOfQueue
<1> QED BY <1>1, <1>2, Invariance, PTL DEF Spec, QueueSpec, Queue!Spec

(* However sockets come and go, of two requests on their way to the browser  *)
(* or in it the gateway has given up on one: what callers still wait for is  *)
(* carried out one at a time (processNext over the bridge's timeouts and     *)
(* extensionLost).                                                           *)
THEOREM OverlapNeedsGivingUp == Spec => []OverlapOnlyAfterGivingUp
<1>1. Inv => OverlapOnlyAfterGivingUp
  <2> SUFFICES ASSUME Inv, NEW r \in UnderWay, NEW s \in UnderWay,
                      promise[r] # "rejected", promise[s] # "rejected"
               PROVE  r = s
    BY DEF OverlapOnlyAfterGivingUp
  <2>1. \A x \in UnderWay : x \in executing \/ (x \in Requests /\ BridgeP!Carries(requests, x))
    BY DEF UnderWay, BridgeP!Carries
  <2>2. executing \subseteq Requests
    BY DEF Inv, BridgeP!Inv, BridgeP!TypeOK
  <2>3. \A x \in UnderWay : x \in Requests /\ promise[x] \notin {"none", "fulfilled"}
    BY <2>1, <2>2 DEF Inv, BridgeP!OnePlace
  <2>4. r \in Requests /\ promise[r] = "pending" /\ s \in Requests /\ promise[s] = "pending"
    BY <2>3, Shared
  <2>5. \A x \in Requests : promise[x] = "pending" => x = activeRequest
    BY DEF Inv, QueueP!Inv, QueueP!Agreement
  <2> QED BY <2>4, <2>5
<1> QED BY <1>1, Invariance, PTL

=============================================================================

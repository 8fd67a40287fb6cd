-------------------------- MODULE ConnectionProofs --------------------------
(***************************************************************************)
(* Theorems of the two connections over which requests reach the           *)
(* extension: of ExtensionConnection, its WebSocket to the gateway, and of *)
(* NativeRelay, the native messaging fallback.                             *)
(***************************************************************************)
EXTENDS ExtensionConnection, NativeRelay, SequenceTheorems, TLAPS

-----------------------------------------------------------------------------
(***************************************************************************)
(* What ExtensionConnection guarantees for any number of sockets, attempts,*)
(* outstanding checks and disturbances.                                    *)
(*                                                                         *)
(* The inductive invariant has two halves.  ConnectionInv speaks of the    *)
(* WebSocketConnection object alone: its operations preserve it whoever    *)
(* calls them.  IntentInv relates that object to the user's wish, to the   *)
(* stored preference and to the continuations still under way.             *)
(***************************************************************************)

ConnectionTypes ==
  /\ socket \in Sockets \union {NoSocket}
  /\ readyState \in [Sockets -> {"CONNECTING", "OPEN", "CLOSING", "CLOSED"}]
  /\ shouldReconnect \in BOOLEAN
  /\ reconnectAttempts \in 0..MaxReconnectAttempts
  /\ reconnectTimer \in BOOLEAN
  /\ status \in {"disconnected", "connecting", "connected", "waiting", "error"}

(* A connection nobody wants has neither socket nor timer. *)
Unwanted ==
  ~shouldReconnect => socket = NoSocket /\ ~reconnectTimer /\ status = "disconnected"

ConnectionInv ==
  /\ ConnectionTypes
  /\ OneLiveSocket
  /\ StatusIsTrue
  /\ TimerOnlyWithoutSocket
  /\ KeepsTrying
  /\ Unwanted

RestTypes ==
  /\ worker \in BOOLEAN
  /\ checks \in [BOOLEAN -> Nat]
  /\ probes \in Nat
  /\ preference \in BOOLEAN
  /\ gateway \in BOOLEAN
  /\ optOut \in {"none", "here", "earlier"}
  /\ leaked \in BOOLEAN
  /\ disturbances \in 0..MaxDisturbances

(* A stopped worker has nothing under way. *)
StoppedIsEmpty ==
  ~worker => ~shouldReconnect /\ checks = [value \in BOOLEAN |-> 0] /\ probes = 0

(* Only a check or probe from before the click can want a connection. *)
NotWantedBack == optOut # "none" /\ ~leaked => ~shouldReconnect

(* Reliable storage holds what the user clicked last. *)
Persisted == optOut # "none" /\ ~StorageMayFail => ~preference

(* After a restart no continuation is left that could leak. *)
Forgotten ==
  optOut = "earlier" /\ ~StorageMayFail => checks[TRUE] = 0 /\ probes = 0 /\ ~leaked

IntentInv ==
  /\ RestTypes
  /\ StoppedIsEmpty
  /\ NotWantedBack
  /\ Persisted
  /\ Forgotten

Inv == ConnectionInv /\ IntentInv

-----------------------------------------------------------------------------
(* The operations of the connection.                                        *)

(* scheduleReconnect leaves a timer, or the documented give-up. *)
LEMMA ScheduleReconnect ==
  ASSUME NEW timer \in BOOLEAN, NEW wanted \in BOOLEAN,
         NEW attempts \in 0..MaxReconnectAttempts, NEW isCurrent,
         scheduleReconnect(wanted, timer, attempts, isCurrent)
  PROVE  /\ reconnectAttempts' \in 0..MaxReconnectAttempts
         /\ reconnectTimer' \in BOOLEAN
         /\ status' \in {isCurrent, "waiting"}
         /\ wanted => reconnectTimer' \/ (status' = "waiting" /\ reconnectAttempts' = MaxReconnectAttempts)
         /\ ~wanted => reconnectTimer' = timer /\ status' = isCurrent
<1>1. CASE ~wanted \/ timer
  <2>1. reconnectTimer' = timer /\ reconnectAttempts' = attempts /\ status' = isCurrent
    BY <1>1 DEF scheduleReconnect
  <2>. QED
    BY <1>1, <2>1
<1>2. CASE wanted /\ ~timer /\ attempts >= MaxReconnectAttempts
  <2>1. reconnectTimer' = FALSE /\ reconnectAttempts' = attempts /\ status' = "waiting"
    BY <1>2, ConnectionAssumption DEF scheduleReconnect
  <2>2. attempts = MaxReconnectAttempts
    BY <1>2, ConnectionAssumption
  <2>. QED
    BY <1>2, <2>1, <2>2
<1>3. CASE wanted /\ ~timer /\ attempts < MaxReconnectAttempts
  <2>1. reconnectTimer' = TRUE /\ reconnectAttempts' = attempts + 1 /\ status' = isCurrent
    BY <1>3, ConnectionAssumption DEF scheduleReconnect
  <2>2. attempts + 1 \in 0..MaxReconnectAttempts
    BY <1>3, ConnectionAssumption
  <2>. QED
    BY <1>3, <2>1, <2>2
<1>. QED
  BY <1>1, <1>2, <1>3, ConnectionAssumption

(* Closing a socket changes that socket only. *)
LEMMA ClosedStates ==
  ASSUME ConnectionTypes
  PROVE  /\ Closed(readyState, socket) \in [Sockets -> {"CONNECTING", "OPEN", "CLOSING", "CLOSED"}]
         /\ \A x \in Sockets : x # socket => Closed(readyState, socket)[x] = readyState[x]
         /\ OneLiveSocket => \A x \in Sockets : Closed(readyState, socket)[x] \notin {"CONNECTING", "OPEN"}
BY DEF Closed, ConnectionTypes, OneLiveSocket, Live

(* connect leaves one socket that is being opened, or none and a timer. *)
LEMMA ConnectKeepsConnectionInv ==
  ASSUME ConnectionInv, NEW attempts \in 0..MaxReconnectAttempts, connect(attempts)
  PROVE  ConnectionInv'
<1>1. CASE /\ shouldReconnect' = TRUE
           /\ \E s \in Sockets :
                /\ readyState[s] = "CLOSED" /\ s # socket
                /\ socket' = s
                /\ readyState' = [Closed(readyState, socket) EXCEPT ![s] = "CONNECTING"]
                /\ reconnectTimer' = FALSE
                /\ reconnectAttempts' = attempts
                /\ status' = "connecting"
  <2>1. PICK s \in Sockets :
                /\ readyState[s] = "CLOSED" /\ s # socket
                /\ socket' = s
                /\ readyState' = [Closed(readyState, socket) EXCEPT ![s] = "CONNECTING"]
                /\ reconnectTimer' = FALSE
                /\ reconnectAttempts' = attempts
                /\ status' = "connecting"
    BY <1>1
  <2>2. s # NoSocket
    BY ConnectionAssumption
  <2>3. readyState' \in [Sockets -> {"CONNECTING", "OPEN", "CLOSING", "CLOSED"}]
    BY <2>1, ClosedStates DEF ConnectionInv
  <2>4. readyState'[s] = "CONNECTING"
    BY <2>1, ClosedStates DEF ConnectionInv
  <2>5. \A x \in Sockets : x # s => readyState'[x] \notin {"CONNECTING", "OPEN"}
    BY <2>1, ClosedStates DEF ConnectionInv
  <2>6. ConnectionTypes'
    BY <1>1, <2>1, <2>3 DEF ConnectionTypes
  <2>7. OneLiveSocket'
    BY <2>1, <2>5 DEF OneLiveSocket, Live
  <2>. QED
    BY <1>1, <2>1, <2>2, <2>4, <2>6, <2>7
       DEF ConnectionInv, StatusIsTrue, TimerOnlyWithoutSocket, KeepsTrying, Unwanted
<1>2. CASE /\ shouldReconnect' = TRUE
           /\ socket' = NoSocket
           /\ readyState' = Closed(readyState, socket)
           /\ scheduleReconnect(TRUE, FALSE, attempts, "error")
  <2>1. /\ reconnectAttempts' \in 0..MaxReconnectAttempts
        /\ reconnectTimer' \in BOOLEAN
        /\ status' \in {"error", "waiting"}
        /\ reconnectTimer' \/ (status' = "waiting" /\ reconnectAttempts' = MaxReconnectAttempts)
    BY <1>2, ScheduleReconnect
  <2>2. ConnectionTypes'
    BY <1>2, <2>1, ClosedStates DEF ConnectionInv, ConnectionTypes
  <2>3. OneLiveSocket'
    BY <1>2, ClosedStates DEF ConnectionInv, OneLiveSocket, Live
  <2>. QED
    BY <1>2, <2>1, <2>2, <2>3
       DEF ConnectionInv, StatusIsTrue, TimerOnlyWithoutSocket, KeepsTrying, Unwanted
<1>. QED
  BY <1>1, <1>2 DEF connect

(* disconnect leaves nothing. *)
LEMMA DisconnectKeepsConnectionInv ==
  ASSUME ConnectionInv, disconnect
  PROVE  ConnectionInv'
<1>1. ConnectionTypes'
  BY ClosedStates DEF disconnect, ConnectionInv, ConnectionTypes
<1>2. OneLiveSocket'
  BY ClosedStates DEF disconnect, ConnectionInv, OneLiveSocket, Live
<1>. QED
  BY <1>1, <1>2
     DEF disconnect, ConnectionInv, StatusIsTrue, TimerOnlyWithoutSocket, KeepsTrying, Unwanted

(* The socket's events. *)
LEMMA SocketEventKeepsConnectionInv ==
  ASSUME ConnectionInv, NEW s \in Sockets, SocketEvent(s)
  PROVE  ConnectionInv'
<1>. USE DEF ConnectionInv
<1>0. s # NoSocket
  BY ConnectionAssumption
<1>1. CASE onopen(s)
  <2>1. socket = s
    BY <1>1 DEF onopen, OneLiveSocket, Live
  <2>2. ConnectionTypes'
    BY <1>1, ConnectionAssumption DEF onopen, ConnectionTypes
  <2>3. OneLiveSocket'
    BY <1>1, <2>1 DEF onopen, OneLiveSocket, Live, ConnectionTypes
  <2>. QED
    BY <1>0, <1>1, <2>1, <2>2, <2>3
       DEF onopen, StatusIsTrue, TimerOnlyWithoutSocket, KeepsTrying, Unwanted, ConnectionTypes
<1>2. CASE onerror(s)
  <2>1. socket = s
    BY <1>2 DEF onerror, OneLiveSocket, Live
  <2>2. shouldReconnect
    BY <1>0, <2>1 DEF Unwanted
  <2>3. ConnectionTypes'
    BY <1>2 DEF onerror, ConnectionTypes
  <2>4. OneLiveSocket'
    BY <1>2, <2>1 DEF onerror, OneLiveSocket, Live, ConnectionTypes
  <2>. QED
    BY <1>0, <1>2, <2>1, <2>2, <2>3, <2>4
       DEF onerror, StatusIsTrue, TimerOnlyWithoutSocket, KeepsTrying, Unwanted, ConnectionTypes
<1>3. CASE GatewayCloses(s)
  <2>1. socket = s
    BY <1>3 DEF GatewayCloses, OneLiveSocket, Live
  <2>2. ConnectionTypes'
    BY <1>3 DEF GatewayCloses, ConnectionTypes
  <2>3. OneLiveSocket'
    BY <1>3, <2>1 DEF GatewayCloses, OneLiveSocket, Live, ConnectionTypes
  <2>. QED
    BY <1>0, <1>3, <2>1, <2>2, <2>3
       DEF GatewayCloses, StatusIsTrue, TimerOnlyWithoutSocket, KeepsTrying, Unwanted, ConnectionTypes
<1>4. CASE onclose(s)
  <2>1. readyState' \in [Sockets -> {"CONNECTING", "OPEN", "CLOSING", "CLOSED"}]
    BY <1>4 DEF onclose, ConnectionTypes
  <2>2. \A x \in Sockets : readyState'[x] \in {"CONNECTING", "OPEN"} => x # s /\ readyState'[x] = readyState[x]
    BY <1>4 DEF onclose, ConnectionTypes
  <2>3. CASE socket # s
    <3>1. ConnectionTypes'
      BY <1>4, <2>1, <2>3 DEF onclose, ConnectionTypes
    <3>2. OneLiveSocket'
      BY <1>4, <2>2, <2>3 DEF onclose, OneLiveSocket, Live
    <3>3. StatusIsTrue'
      BY <1>4, <2>3 DEF onclose, StatusIsTrue, ConnectionTypes
    <3>. QED
      BY <1>4, <2>3, <3>1, <3>2, <3>3
         DEF onclose, TimerOnlyWithoutSocket, KeepsTrying, Unwanted
  <2>4. CASE socket = s
    <3>1. shouldReconnect /\ ~reconnectTimer
      BY <1>0, <2>4 DEF Unwanted, TimerOnlyWithoutSocket
    <3>2. socket' = NoSocket /\ shouldReconnect' = shouldReconnect
      BY <1>4, <2>4 DEF onclose
    <3>3. scheduleReconnect(shouldReconnect, reconnectTimer, reconnectAttempts, "waiting")
      BY <1>4, <2>4, <3>1 DEF onclose
    <3>4. /\ reconnectAttempts' \in 0..MaxReconnectAttempts
          /\ reconnectTimer' \in BOOLEAN
          /\ status' = "waiting"
          /\ reconnectTimer' \/ reconnectAttempts' = MaxReconnectAttempts
      BY <3>1, <3>3, ScheduleReconnect DEF ConnectionTypes
    <3>5. OneLiveSocket'
      BY <2>2, <2>4 DEF OneLiveSocket, Live
    <3>. QED
      BY <2>1, <3>1, <3>2, <3>4, <3>5
         DEF ConnectionTypes, StatusIsTrue, TimerOnlyWithoutSocket, KeepsTrying, Unwanted
  <2>. QED
    BY <2>3, <2>4
<1>. QED
  BY <1>1, <1>2, <1>3, <1>4 DEF SocketEvent

-----------------------------------------------------------------------------
(* The user, the worker and the continuations.                              *)

(* Initially nothing is wanted and nothing is under way. *)
LEMMA InvInit ==
  ASSUME Init
  PROVE  Inv
<1>a. 0 \in 0..MaxReconnectAttempts /\ 0 \in 0..MaxDisturbances /\ 0 \in Nat
  BY ConnectionAssumption
<1>b. ConnectionTypes
  BY <1>a DEF Init, ConnectionTypes
<1>c. OneLiveSocket
  BY DEF Init, OneLiveSocket, Live
<1>1. ConnectionInv
  BY <1>b, <1>c
     DEF Init, ConnectionInv, StatusIsTrue, TimerOnlyWithoutSocket, KeepsTrying, Unwanted
<1>2. RestTypes
  BY <1>a, Zenon DEF Init, RestTypes
<1>. QED
  BY <1>1, <1>2 DEF Init, Inv, IntentInv, StoppedIsEmpty, NotWantedBack, Persisted, Forgotten

LEMMA SocketEventStep ==
  ASSUME Inv, NEW s \in Sockets, SocketEvent(s)
  PROVE  Inv'
<1>1. ConnectionInv'
  BY SocketEventKeepsConnectionInv DEF Inv
<1>2. UNCHANGED <<worker, shouldReconnect, pendingVars, outsideVars, historyVars>>
  BY Zenon DEF SocketEvent, onopen, onerror, GatewayCloses, onclose
<1>3. RestTypes'
  BY <1>2 DEF Inv, IntentInv, RestTypes, pendingVars, outsideVars, historyVars
<1>. QED
  BY <1>1, <1>2, <1>3
     DEF Inv, IntentInv, StoppedIsEmpty, NotWantedBack, Persisted, Forgotten,
         pendingVars, outsideVars, historyVars

LEMMA ReconnectTimerStep ==
  ASSUME Inv, ReconnectTimer
  PROVE  Inv'
<1>1. reconnectAttempts \in 0..MaxReconnectAttempts
  BY DEF Inv, ConnectionInv, ConnectionTypes
<1>2. ConnectionInv'
  BY <1>1, ConnectKeepsConnectionInv DEF Inv, ReconnectTimer
<1>3. UNCHANGED <<worker, pendingVars, outsideVars, historyVars>>
  BY DEF ReconnectTimer
<1>4. shouldReconnect
  BY DEF ReconnectTimer, Inv, ConnectionInv, TimerOnlyWithoutSocket
<1>5. RestTypes'
  BY <1>3 DEF Inv, IntentInv, RestTypes, pendingVars, outsideVars, historyVars
<1>. QED
  BY <1>2, <1>3, <1>4, <1>5
     DEF Inv, IntentInv, StoppedIsEmpty, NotWantedBack, Persisted, Forgotten,
         pendingVars, outsideVars, historyVars

LEMMA ProbeAnswersStep ==
  ASSUME Inv, ProbeAnswers
  PROVE  Inv'
<1>1. UNCHANGED <<worker, checks, outsideVars, optOut>> /\ probes > 0 /\ probes' = probes - 1
  BY DEF ProbeAnswers
<1>2. probes # 0
  BY <1>1
<1>2a. worker
  BY <1>2 DEF Inv, IntentInv, StoppedIsEmpty
<1>2b. optOut = "earlier" => StorageMayFail
  BY <1>2, Zenon DEF Inv, IntentInv, Forgotten
<1>3. probes' \in Nat
  BY <1>1 DEF Inv, IntentInv, RestTypes
<1>4. CASE UNCHANGED <<connectionVars, leaked>>
  <2>1. ConnectionInv'
    BY <1>4 DEF Inv, ConnectionInv, ConnectionTypes, OneLiveSocket, Live, StatusIsTrue,
                TimerOnlyWithoutSocket, KeepsTrying, Unwanted, connectionVars
  <2>2. RestTypes'
    BY <1>1, <1>3, <1>4 DEF Inv, IntentInv, RestTypes, outsideVars
  <2>. QED
    BY <1>1, <1>2a, <1>2b, <1>4, <2>1, <2>2
       DEF Inv, IntentInv, StoppedIsEmpty, NotWantedBack, Persisted, Forgotten,
           outsideVars, connectionVars
<1>5. CASE connect(0) /\ leaked' = (leaked \/ optOut # "none")
  <2>1. ConnectionInv'
    BY <1>5, ConnectKeepsConnectionInv, ConnectionAssumption DEF Inv
  <2>2. RestTypes'
    BY <1>1, <1>3, <1>5 DEF Inv, IntentInv, RestTypes, outsideVars
  <2>. QED
    BY <1>1, <1>2a, <1>2b, <1>5, <2>1, <2>2
       DEF Inv, IntentInv, StoppedIsEmpty, NotWantedBack, Persisted, Forgotten, outsideVars
<1>. QED
  BY <1>4, <1>5 DEF ProbeAnswers

(* A new check reads what is stored, unless storage fails. *)
LEMMA EnsureReads ==
  ASSUME RestTypes, EnsureAutoConnect
  PROVE  /\ checks' \in [BOOLEAN -> Nat]
         /\ ~preference /\ ~StorageMayFail => checks'[TRUE] = checks[TRUE]
<1>1. PICK value \in {preference} \union (IF StorageMayFail THEN {TRUE} ELSE {}) :
        checks' = [checks EXCEPT ![value] = @ + 1]
  BY DEF EnsureAutoConnect
<1>2. value \in BOOLEAN
  BY <1>1 DEF RestTypes
<1>3. checks' \in [BOOLEAN -> Nat]
  BY <1>1, <1>2 DEF RestTypes
<1>4. ASSUME ~preference, ~StorageMayFail
      PROVE  checks'[TRUE] = checks[TRUE]
  <2>1. value = FALSE
    BY <1>1, <1>4 DEF RestTypes
  <2>. QED
    BY <1>1, <2>1 DEF RestTypes
<1>. QED
  BY <1>3, <1>4

LEMMA AlarmStep ==
  ASSUME Inv, Alarm
  PROVE  Inv'
<1>1. UNCHANGED <<worker, connectionVars, probes, outsideVars, historyVars>> /\ worker /\ EnsureAutoConnect
  BY DEF Alarm
<1>2. ConnectionInv'
  BY <1>1 DEF Inv, ConnectionInv, ConnectionTypes, OneLiveSocket, Live, StatusIsTrue,
              TimerOnlyWithoutSocket, KeepsTrying, Unwanted, connectionVars
<1>3. RestTypes'
  BY <1>1, EnsureReads DEF Inv, IntentInv, RestTypes, outsideVars, historyVars
<1>4. Forgotten'
  BY <1>1, EnsureReads DEF Inv, IntentInv, RestTypes, Forgotten, Persisted, outsideVars, historyVars
<1>. QED
  BY <1>1, <1>2, <1>3, <1>4
     DEF Inv, IntentInv, StoppedIsEmpty, NotWantedBack, Persisted,
         outsideVars, historyVars, connectionVars

LEMMA CheckAnswersStep ==
  ASSUME Inv, NEW enabled \in BOOLEAN, CheckAnswers(enabled)
  PROVE  Inv'
<1>1. /\ UNCHANGED <<worker, probes, outsideVars, optOut>>
      /\ checks[enabled] > 0
      /\ checks' = [checks EXCEPT ![enabled] = @ - 1]
  BY DEF CheckAnswers
<1>2. checks' \in [BOOLEAN -> Nat]
  BY <1>1 DEF Inv, IntentInv, RestTypes
<1>3. worker
  BY <1>1 DEF Inv, IntentInv, StoppedIsEmpty
<1>4. optOut = "earlier" /\ ~StorageMayFail => checks'[TRUE] = 0 /\ probes' = 0 /\ ~enabled
  <2>1. ASSUME optOut = "earlier", ~StorageMayFail
        PROVE  checks[TRUE] = 0 /\ probes = 0
    BY <2>1 DEF Inv, IntentInv, Forgotten
  <2>2. ASSUME checks[TRUE] = 0
        PROVE  enabled = FALSE
    <3>1. SUFFICES ASSUME enabled = TRUE
                   PROVE  FALSE
      OBVIOUS
    <3>2. checks[enabled] = checks[TRUE]
      BY <3>1, Zenon
    <3>3. 0 > 0
      BY <1>1, <2>2, <3>2
    <3>. QED
      BY <3>3
  <2>3. ASSUME enabled = FALSE
        PROVE  checks'[TRUE] = checks[TRUE]
    BY <1>1, <2>3 DEF Inv, IntentInv, RestTypes
  <2>. QED
    BY <1>1, <2>1, <2>2, <2>3
<1>5. CASE UNCHANGED <<connectionVars, leaked>>
  <2>1. ConnectionInv'
    BY <1>5 DEF Inv, ConnectionInv, ConnectionTypes, OneLiveSocket, Live, StatusIsTrue,
                TimerOnlyWithoutSocket, KeepsTrying, Unwanted, connectionVars
  <2>2. RestTypes'
    BY <1>1, <1>2, <1>5 DEF Inv, IntentInv, RestTypes, outsideVars
  <2>. QED
    BY <1>1, <1>3, <1>4, <1>5, <2>1, <2>2
       DEF Inv, IntentInv, StoppedIsEmpty, NotWantedBack, Persisted, Forgotten,
           outsideVars, connectionVars
<1>6. CASE enabled /\ connect(reconnectAttempts) /\ leaked' = (leaked \/ optOut # "none")
  <2>1. ConnectionInv'
    BY <1>6, ConnectKeepsConnectionInv DEF Inv, ConnectionInv, ConnectionTypes
  <2>2. RestTypes'
    BY <1>1, <1>2, <1>6 DEF Inv, IntentInv, RestTypes, outsideVars
  <2>. QED
    BY <1>1, <1>3, <1>4, <1>6, <2>1, <2>2
       DEF Inv, IntentInv, StoppedIsEmpty, NotWantedBack, Persisted, Forgotten, outsideVars
<1>. QED
  BY <1>5, <1>6 DEF CheckAnswers

(* The bound on disturbances. *)
LEMMA DisturbancesBounded ==
  ASSUME RestTypes, Disturbs
  PROVE  disturbances' \in 0..MaxDisturbances
BY ConnectionAssumption DEF RestTypes, Disturbs

LEMMA PanelConnectStep ==
  ASSUME Inv, PanelConnect
  PROVE  Inv'
<1>1. ConnectionInv'
  BY ConnectKeepsConnectionInv DEF PanelConnect, Inv, ConnectionInv, ConnectionTypes
<1>a. disturbances' \in 0..MaxDisturbances
  BY DisturbancesBounded DEF PanelConnect, Inv, IntentInv
<1>b. preference' \in BOOLEAN
  BY DEF PanelConnect, setAutoConnectEnabled, Inv, IntentInv, RestTypes
<1>2. RestTypes'
  BY <1>a, <1>b DEF PanelConnect, Inv, IntentInv, RestTypes, pendingVars
<1>. QED
  BY <1>1, <1>2
     DEF PanelConnect, Inv, IntentInv, StoppedIsEmpty, NotWantedBack, Persisted, Forgotten, pendingVars

LEMMA PanelDisconnectStep ==
  ASSUME Inv, PanelDisconnect
  PROVE  Inv'
<1>1. ConnectionInv'
  BY DisconnectKeepsConnectionInv DEF PanelDisconnect, Inv
<1>a. disturbances' \in 0..MaxDisturbances
  BY DisturbancesBounded DEF PanelDisconnect, Inv, IntentInv
<1>b. preference' \in BOOLEAN
  BY DEF PanelDisconnect, setAutoConnectEnabled, Inv, IntentInv, RestTypes
<1>2. RestTypes'
  BY <1>a, <1>b DEF PanelDisconnect, Inv, IntentInv, RestTypes, pendingVars
<1>3. Persisted'
  BY DEF PanelDisconnect, setAutoConnectEnabled, Persisted
<1>. QED
  BY <1>1, <1>2, <1>3
     DEF PanelDisconnect, disconnect, Inv, IntentInv, StoppedIsEmpty, NotWantedBack, Forgotten, pendingVars

LEMMA PanelGetStateStep ==
  ASSUME Inv, PanelGetState
  PROVE  Inv'
<1>1. /\ UNCHANGED <<worker, connectionVars, checks, outsideVars, historyVars>>
      /\ worker /\ status = "waiting" /\ probes' = probes + 1
  BY DEF PanelGetState
<1>2. ConnectionInv'
  BY <1>1 DEF Inv, ConnectionInv, ConnectionTypes, OneLiveSocket, Live, StatusIsTrue,
              TimerOnlyWithoutSocket, KeepsTrying, Unwanted, connectionVars
<1>3. RestTypes'
  BY <1>1 DEF Inv, IntentInv, RestTypes, outsideVars, historyVars
<1>4. shouldReconnect
  BY <1>1 DEF Inv, ConnectionInv, Unwanted, ConnectionTypes
<1>5. ~(optOut = "earlier" /\ ~StorageMayFail)
  BY <1>4 DEF Inv, IntentInv, NotWantedBack, Forgotten
<1>. QED
  BY <1>1, <1>2, <1>3, <1>5
     DEF Inv, IntentInv, StoppedIsEmpty, NotWantedBack, Persisted, Forgotten,
         outsideVars, historyVars, connectionVars

LEMMA WorkerStopsStep ==
  ASSUME Inv, WorkerStops
  PROVE  Inv'
<1>b. 0 \in 0..MaxReconnectAttempts
  BY ConnectionAssumption
<1>c. ConnectionTypes'
  BY <1>b DEF WorkerStops, ConnectionTypes
<1>d. OneLiveSocket'
  BY DEF WorkerStops, OneLiveSocket, Live
<1>1. ConnectionInv'
  BY <1>c, <1>d
     DEF WorkerStops, ConnectionInv, StatusIsTrue, TimerOnlyWithoutSocket, KeepsTrying, Unwanted
<1>a. disturbances' \in 0..MaxDisturbances
  BY DisturbancesBounded DEF WorkerStops, Inv, IntentInv
<1>2. RestTypes'
  BY <1>a DEF WorkerStops, Inv, IntentInv, RestTypes
<1>. QED
  BY <1>1, <1>2
     DEF WorkerStops, Inv, IntentInv, RestTypes, StoppedIsEmpty, NotWantedBack, Persisted, Forgotten

LEMMA WorkerStartsStep ==
  ASSUME Inv, WorkerStarts
  PROVE  Inv'
<1>1. UNCHANGED <<connectionVars, probes, outsideVars, historyVars>> /\ worker' = TRUE /\ EnsureAutoConnect
  BY DEF WorkerStarts
<1>2. ConnectionInv'
  BY <1>1 DEF Inv, ConnectionInv, ConnectionTypes, OneLiveSocket, Live, StatusIsTrue,
              TimerOnlyWithoutSocket, KeepsTrying, Unwanted, connectionVars
<1>3. RestTypes'
  BY <1>1, EnsureReads DEF Inv, IntentInv, RestTypes, outsideVars, historyVars
<1>4. Forgotten'
  BY <1>1, EnsureReads DEF Inv, IntentInv, RestTypes, Forgotten, Persisted, outsideVars, historyVars
<1>. QED
  BY <1>1, <1>2, <1>3, <1>4
     DEF Inv, IntentInv, StoppedIsEmpty, NotWantedBack, Persisted,
         outsideVars, historyVars, connectionVars

LEMMA OutageStep ==
  ASSUME Inv, Outage
  PROVE  Inv'
<1>1. UNCHANGED <<worker, connectionVars, pendingVars, preference, historyVars>>
  BY DEF Outage
<1>2. ConnectionInv'
  BY <1>1 DEF Inv, ConnectionInv, ConnectionTypes, OneLiveSocket, Live, StatusIsTrue,
              TimerOnlyWithoutSocket, KeepsTrying, Unwanted, connectionVars
<1>3. RestTypes'
  BY <1>1, ConnectionAssumption
     DEF Outage, Disturbs, Inv, IntentInv, RestTypes, pendingVars, historyVars
<1>. QED
  BY <1>1, <1>2, <1>3
     DEF Inv, IntentInv, StoppedIsEmpty, NotWantedBack, Persisted, Forgotten,
         pendingVars, historyVars, connectionVars

-----------------------------------------------------------------------------
LEMMA NextStep ==
  ASSUME Inv, [Next]_vars
  PROVE  Inv'
<1>1. CASE UNCHANGED vars
  <2>1. UNCHANGED <<worker, connectionVars, pendingVars, outsideVars, historyVars>>
    BY <1>1 DEF vars
  <2>2. ConnectionInv'
    BY <2>1 DEF Inv, ConnectionInv, ConnectionTypes, OneLiveSocket, Live, StatusIsTrue,
                TimerOnlyWithoutSocket, KeepsTrying, Unwanted, connectionVars
  <2>3. RestTypes'
    BY <2>1 DEF Inv, IntentInv, RestTypes, pendingVars, outsideVars, historyVars
  <2>. QED
    BY <2>1, <2>2, <2>3
       DEF Inv, IntentInv, StoppedIsEmpty, NotWantedBack, Persisted, Forgotten,
           pendingVars, outsideVars, historyVars, connectionVars
<1>2. CASE \E s \in Sockets : SocketEvent(s)
  BY <1>2, SocketEventStep
<1>3. CASE ReconnectTimer
  BY <1>3, ReconnectTimerStep
<1>4. CASE ProbeAnswers
  BY <1>4, ProbeAnswersStep
<1>5. CASE Alarm
  BY <1>5, AlarmStep
<1>6. CASE \E enabled \in BOOLEAN : CheckAnswers(enabled)
  BY <1>6, CheckAnswersStep
<1>7. CASE PanelConnect
  BY <1>7, PanelConnectStep
<1>8. CASE PanelDisconnect
  BY <1>8, PanelDisconnectStep
<1>9. CASE PanelGetState
  BY <1>9, PanelGetStateStep
<1>10. CASE WorkerStops
  BY <1>10, WorkerStopsStep
<1>11. CASE WorkerStarts
  BY <1>11, WorkerStartsStep
<1>12. CASE Outage
  BY <1>12, OutageStep
<1>. QED
  BY <1>1, <1>2, <1>3, <1>4, <1>5, <1>6, <1>7, <1>8, <1>9, <1>10, <1>11, <1>12 DEF Next

(* The inductive invariant holds in every state of the connection.           *)
THEOREM ConnectionInvariance == Spec => []Inv
<1>1. Init => Inv
  BY InvInit
<1>2. Inv /\ [Next]_vars => Inv'
  BY NextStep
<1>. QED
  BY <1>1, <1>2, PTL DEF Spec

(* Every variable of the connection keeps its type; in particular            *)
(* reconnectAttempts stays within MAX_RECONNECT_ATTEMPTS.                    *)
THEOREM ConnectionTypesHold == Spec => []TypeOK
<1>1. Inv => TypeOK
  BY Zenon DEF Inv, ConnectionInv, ConnectionTypes, IntentInv, RestTypes, TypeOK
<1>. QED
  BY <1>1, ConnectionInvariance, PTL

(* connect() and disconnect() close the socket they drop, so that the        *)
(* extension never holds two connections to the gateway.                     *)
THEOREM NeverTwoConnections == Spec => []OneLiveSocket
<1>1. Inv => OneLiveSocket
  BY DEF Inv, ConnectionInv
<1>. QED
  BY <1>1, ConnectionInvariance, PTL

(* The status that is broadcast to the panel and the badge agrees with the   *)
(* socket.                                                                   *)
THEOREM StatusNeverLies == Spec => []StatusIsTrue
<1>1. Inv => StatusIsTrue
  BY DEF Inv, ConnectionInv
<1>. QED
  BY <1>1, ConnectionInvariance, PTL

(* onclose, a throwing dial and the exhausted backoff leave a timer or the   *)
(* "waiting" status that the alarm and the side panel recover from.          *)
THEOREM WantedConnectionIsServed == Spec => []KeepsTrying
<1>1. Inv => KeepsTrying
  BY DEF Inv, ConnectionInv
<1>. QED
  BY <1>1, ConnectionInvariance, PTL

(* disconnect() undoes everything that could reconnect by itself: only a     *)
(* continuation older than the click can break the opt-out.                  *)
THEOREM OptOutHoldsUnlessLeaked == Spec => []OptOutHolds
<1>1. Inv => OptOutHolds
  <2>1. ASSUME Inv, ~shouldReconnect
        PROVE  Idle
    <3>1. socket = NoSocket /\ ~reconnectTimer
      BY <2>1 DEF Inv, ConnectionInv, Unwanted
    <3>2. Live = {}
      BY <2>1, <3>1, ConnectionAssumption DEF Inv, ConnectionInv, OneLiveSocket, Live
    <3>. QED
      BY <2>1, <3>1, <3>2 DEF Idle
  <2>. QED
    BY <2>1 DEF OptOutHolds, Inv, IntentInv, NotWantedBack
<1>. QED
  BY <1>1, ConnectionInvariance, PTL

(* With reliable storage a restarted worker respects the stored opt-out.     *)
THEOREM RestartRestoresOptOut == Spec => []OptOutSurvivesRestart
<1>1. Inv /\ OptOutHolds => OptOutSurvivesRestart
  BY DEF OptOutHolds, OptOutSurvivesRestart, Inv, IntentInv, Forgotten
<1>. QED
  BY <1>1, ConnectionInvariance, OptOutHoldsUnlessLeaked, PTL

-----------------------------------------------------------------------------
(***************************************************************************)
(* Theorems of NativeRelay, for any number of clients, requests,           *)
(* connections and native hosts that end.                                  *)
(*                                                                         *)
(* The host finds the way back by the connection a request came on, the    *)
(* client sends on whatever its current connection is: that the answer     *)
(* comes back where the request went needs that nothing else travels on a  *)
(* connection, and that its loss reaches those who wait on it that it has  *)
(* one owner for good, who gives up all that waits with any of its own.    *)
(***************************************************************************)

(* A connection that was begun has an owner. *)
Owned == \A k \in Connections : owner[k] = NoClient <=> k > made

Asked == \A r \in Requests : outcome[r] = "none" => carrier[r] = 0

(* A client's current connection is open and one of its own.                 *)
CurrentIsOwn ==
  \A c \in Clients : current[c] # 0 => owner[current[c]] = c /\ current[c] \in open

SocketsOwned == \A k \in opening \union open \union closing : owner[k] \in Clients

(* Everything in the channels is of a request that the connection carries.   *)
Travels(channel) ==
  \A k \in Connections : \A i \in DOMAIN channel[k] : k = carrier[channel[k][i].request]

(* The host remembers the connection that carries the request.               *)
Remembered == \A r \in Requests : hostPending[r] # 0 => hostPending[r] = carrier[r]

RelayInv ==
  /\ RelayTypeOK
  /\ Owned /\ Asked /\ CurrentIsOwn /\ SocketsOwned
  /\ Travels(up) /\ Travels(down) /\ Remembered
  /\ WaitsOnConnection

-----------------------------------------------------------------------------
LEMMA RelayInitially == RelayInit => RelayInv
<1> SUFFICES ASSUME RelayInit PROVE RelayInv
  OBVIOUS
<1>1. RelayTypeOK
  BY NativeRelayAssumption DEF RelayInit, RelayTypeOK, Connections
<1>2. \A k \in Connections : DOMAIN up[k] = {} /\ DOMAIN down[k] = {}
  BY DEF RelayInit
<1>3. Travels(up) /\ Travels(down)
  BY <1>2 DEF Travels
<1> QED BY <1>1, <1>3 DEF RelayInit, RelayInv, Owned, Asked, CurrentIsOwn, SocketsOwned, Remembered,
     WaitsOnConnection, Connections

(* Taking a piece, or cutting some off, leaves pieces that were there.       *)
LEMMA TailOf ==
  ASSUME NEW s \in Seq(Pieces), s # <<>>
  PROVE  /\ Head(s) \in Pieces /\ Tail(s) \in Seq(Pieces) /\ Head(s) = s[1] /\ 1 \in DOMAIN s
         /\ \A i \in DOMAIN Tail(s) : i + 1 \in DOMAIN s /\ Tail(s)[i] = s[i + 1]
  OBVIOUS

LEMMA PairAdded ==
  ASSUME NEW s \in Seq(Pieces), NEW m \in Seq(Pieces), Len(m) = 2,
         NEW i \in DOMAIN (s \o m)
  PROVE  (i \in DOMAIN s /\ (s \o m)[i] = s[i]) \/ (s \o m)[i] = m[1] \/ (s \o m)[i] = m[2]
<1>1. i \in 1..Len(s) + 2
  BY ConcatProperties
<1>2. (s \o m)[i] = IF i <= Len(s) THEN s[i] ELSE m[i - Len(s)]
  BY <1>1, ConcatProperties
<1>3. CASE i <= Len(s)
  BY <1>1, <1>2, <1>3
<1>4. CASE i > Len(s)
  <2>1. i - Len(s) = 1 \/ i - Len(s) = 2
    BY <1>1, <1>4
  <2> QED BY <1>1, <1>2, <1>4, <2>1
<1> QED BY <1>1, <1>3, <1>4

LEMMA MessageTyped ==
  ASSUME NEW k \in Connections, NEW r \in Requests, NEW s \in Seq(Pieces)
  PROVE  /\ s \o Message(k, r) \in Seq(Pieces)
         /\ \A i \in DOMAIN (s \o Message(k, r)) :
              \/ i \in DOMAIN s /\ (s \o Message(k, r))[i] = s[i]
              \/ (s \o Message(k, r))[i].request = r
<1>1. /\ Message(k, r) \in Seq(Pieces) /\ Len(Message(k, r)) = 2
      /\ Message(k, r)[1].request = r /\ Message(k, r)[2].request = r
  BY DEF Message, Pieces
<1>2. \A m \in Seq(Pieces) :
        s \o m \in Seq(Pieces)
        /\ (Len(m) = 2 /\ m[1].request = r /\ m[2].request = r =>
              \A i \in DOMAIN (s \o m) :
                (i \in DOMAIN s /\ (s \o m)[i] = s[i]) \/ (s \o m)[i].request = r)
  BY ConcatProperties, PairAdded
<1> QED BY <1>1, <1>2

(* What is left of a buffer whose streams were mixed.                        *)
LEMMA MarkedTyped ==
  ASSUME NEW s \in Seq(Pieces), Len(s) = 2, NEW half \in {"mixed", "broken"}
  PROVE  <<[s[1] EXCEPT !.half = half]>> \in Seq(Pieces)
<1>1. s[1] \in Pieces
  OBVIOUS
<1>2. [s[1] EXCEPT !.half = half] \in Pieces
  BY <1>1 DEF Pieces
<1> QED BY <1>2

(* A channel in which some pieces are gone.                                  *)
LEMMA TakenTravels ==
  ASSUME NEW channel \in [Connections -> Seq(Pieces)], NEW k \in Connections,
         channel[k] # <<>>, Travels(channel)
  PROVE  /\ Head(channel[k]) \in Pieces
         /\ k = carrier[Head(channel[k]).request]
         /\ [channel EXCEPT ![k] = Tail(@)] \in [Connections -> Seq(Pieces)]
         /\ Travels([channel EXCEPT ![k] = Tail(@)])
<1>1. channel[k] \in Seq(Pieces)
  OBVIOUS
<1> DEFINE new == [channel EXCEPT ![k] = Tail(@)]
<1>2. new \in [Connections -> Seq(Pieces)]
  BY <1>1, TailOf
<1>3. ASSUME NEW l \in Connections, NEW i \in DOMAIN new[l]
      PROVE  l = carrier[new[l][i].request]
  <2>1. CASE l = k
    BY <1>1, <2>1, TailOf DEF Travels
  <2>2. CASE l # k
    BY <2>2 DEF Travels
  <2> QED BY <2>1, <2>2
<1>4. Travels(new)
  BY <1>3 DEF Travels
<1> QED BY <1>1, <1>2, <1>4, TailOf DEF Travels

(* A channel to which a request it carries, or its answer, is added.         *)
LEMMA AddedTravels ==
  ASSUME NEW channel \in [Connections -> Seq(Pieces)], NEW k \in Connections,
         NEW r \in Requests, Travels(channel), k = carrier[r]
  PROVE  /\ [channel EXCEPT ![k] = @ \o Message(k, r)] \in [Connections -> Seq(Pieces)]
         /\ Travels([channel EXCEPT ![k] = @ \o Message(k, r)])
<1>1. channel[k] \in Seq(Pieces)
  OBVIOUS
<1> DEFINE new == [channel EXCEPT ![k] = @ \o Message(k, r)]
<1>2. new \in [Connections -> Seq(Pieces)]
  BY <1>1, MessageTyped
<1>3. ASSUME NEW l \in Connections, NEW i \in DOMAIN new[l]
      PROVE  l = carrier[new[l][i].request]
  <2>1. CASE l = k
    <3>1. new[l] = channel[k] \o Message(k, r)
      BY <2>1
    <3>2. \/ i \in DOMAIN channel[k] /\ new[l][i] = channel[k][i]
          \/ new[l][i].request = r
      <4>1. \A j \in DOMAIN (channel[k] \o Message(k, r)) :
              \/ j \in DOMAIN channel[k] /\ (channel[k] \o Message(k, r))[j] = channel[k][j]
              \/ (channel[k] \o Message(k, r))[j].request = r
        BY <1>1, MessageTyped
      <4> HIDE DEF new
      <4> QED BY <3>1, <4>1
    <3> QED BY <2>1, <3>2 DEF Travels
  <2>2. CASE l # k
    BY <2>2 DEF Travels
  <2> QED BY <2>1, <2>2
<1> QED BY <1>2, <1>3 DEF Travels

LEMMA RequestsIn ==
  ASSUME NEW channel \in [Connections -> Seq(Pieces)], NEW k \in Connections,
         NEW i \in DOMAIN channel[k]
  PROVE  channel[k][i].request \in Requests
<1>1. channel[k] \in Seq(Pieces)
  OBVIOUS
<1>2. channel[k][i] \in Pieces
  BY <1>1
<1> QED BY <1>2 DEF Pieces

(* Nobody waits at a client that has given its connection up.                *)
LEMMA GivesUp ==
  ASSUME RelayInv, NEW c \in Clients, handleDisconnect(c)
  PROVE  /\ current' \in [Clients -> 0..MaxConnections]
         /\ pending' \in [Clients -> SUBSET Requests]
         /\ outcome' \in [Requests -> {"none", "waiting", "result", "error"}]
         /\ \A r \in Requests : outcome'[r] = "none" => outcome[r] = "none"
         /\ \A d \in Clients : current'[d] # 0 => current'[d] = current[d] /\ d # c
         /\ \A d \in Clients : pending'[d] # {} => pending'[d] = pending[d] /\ d # c
  BY NativeRelayAssumption DEF handleDisconnect, RelayInv, RelayTypeOK

(* What the others wait on is none of the connections that c gave up.        *)
LEMMA OthersWait ==
  ASSUME RelayInv, NEW c \in Clients, handleDisconnect(c), UNCHANGED <<carrier, owner>>,
         open' \subseteq open, \A k \in open \ open' : owner[k] = c
  PROVE  WaitsOnConnection' /\ CurrentIsOwn'
<1>1. WaitsOnConnection'
  <2>1. ASSUME NEW d \in Clients, NEW r \in pending'[d]
        PROVE  current'[d] # 0 /\ carrier[r] \in open' /\ owner[carrier[r]] = d
    <3>1. pending'[d] = pending[d] /\ d # c
      BY <2>1, GivesUp
    <3>2. current[d] # 0 /\ carrier[r] \in open /\ owner[carrier[r]] = d
      BY <2>1, <3>1 DEF RelayInv, WaitsOnConnection
    <3>3. current'[d] = current[d]
      BY <3>1 DEF handleDisconnect, RelayInv, RelayTypeOK
    <3> QED BY <3>1, <3>2, <3>3
  <2> QED BY <2>1 DEF WaitsOnConnection
<1>2. CurrentIsOwn'
  BY GivesUp DEF RelayInv, CurrentIsOwn
<1> QED BY <1>1, <1>2

-----------------------------------------------------------------------------
(* The client's operations.                                                  *)
LEMMA ClientPreservesInv ==
  ASSUME RelayInv, NEW c \in Clients, Connect(c) \/ Disconnect(c)
         \/ \E r \in Requests : SendToolRequest(c, r) \/ RequestTimeout(c, r)
  PROVE  RelayInv'
<1> USE NativeRelayAssumption
<1>1. CASE Connect(c)
  <2> USE <1>1 DEF Connect
  <2>1. made' \in 1..MaxConnections /\ made' = made + 1 /\ owner[made'] = NoClient
    BY DEF RelayInv, RelayTypeOK, Owned, Connections
  <2>2. RelayTypeOK'
    <3>1. /\ owner' \in [Connections -> Clients \union {NoClient}]
          /\ opening' \in SUBSET Connections
          /\ made' \in 0..MaxConnections
      BY <2>1 DEF RelayInv, RelayTypeOK, Connections
    <3> QED BY <3>1 DEF RelayInv, RelayTypeOK, client, host
  <2>3. \A k \in Connections : owner[k] \in Clients => owner'[k] = owner[k]
    BY <2>1 DEF RelayInv, RelayTypeOK
  <2>4. Owned'
    BY <2>1 DEF RelayInv, RelayTypeOK, Owned, Connections
  <2>5. Travels(up)' /\ Travels(down)'
    <3>1. Travels(up) /\ Travels(down) /\ up' = up /\ down' = down /\ carrier' = carrier
      BY DEF RelayInv, client
    <3>2. Travels(up)'
      BY <2>3, <3>1 DEF Travels
    <3>3. Travels(down)'
      BY <2>3, <3>1 DEF Travels
    <3> QED BY <3>2, <3>3
  <2>6. Remembered' /\ CurrentIsOwn'
    <3>1. /\ hostPending' = hostPending /\ current' = current /\ carrier' = carrier
          /\ hostPending \in [Requests -> 0..MaxConnections]
          /\ current \in [Clients -> 0..MaxConnections]
          /\ Remembered /\ CurrentIsOwn
      BY DEF RelayInv, RelayTypeOK, client, host
    <3>2. \A k \in 0..MaxConnections : k # 0 => k \in Connections
      BY DEF Connections
    <3>3. Remembered'
      BY <2>3, <3>1, <3>2 DEF Remembered
    <3>4. CurrentIsOwn'
      BY <2>3, <3>1, <3>2 DEF CurrentIsOwn
    <3> QED BY <3>3, <3>4
  <2>7. SocketsOwned'
    BY <2>1, <2>3 DEF RelayInv, RelayTypeOK, SocketsOwned, Connections
  <2>8. WaitsOnConnection'
    <3>1. UNCHANGED <<current, pending, carrier, open>> /\ WaitsOnConnection
      BY DEF RelayInv, client
    <3>2. \A d \in Clients : \A r \in pending[d] : carrier[r] \in Connections /\ owner[carrier[r]] \in Clients
      BY <3>1 DEF RelayInv, RelayTypeOK, WaitsOnConnection
    <3> QED BY <2>3, <3>1, <3>2 DEF WaitsOnConnection
  <2> QED BY <2>2, <2>4, <2>5, <2>6, <2>7, <2>8 DEF RelayInv, Asked, client
<1>2. CASE Disconnect(c)
  <2> USE <1>2 DEF Disconnect
  <2>1. current[c] \in Connections /\ owner[current[c]] = c
    BY DEF RelayInv, RelayTypeOK, CurrentIsOwn, Connections
  <2>2. RelayTypeOK'
    BY <2>1, GivesUp DEF RelayInv, RelayTypeOK, host
  <2>3. Travels(up)' /\ Travels(down)'
    BY DEF RelayInv, Travels
  <2>4. WaitsOnConnection' /\ CurrentIsOwn'
    BY <2>1, OthersWait
  <2> QED BY <2>1, <2>2, <2>3, <2>4, GivesUp DEF RelayInv, Owned, Asked, SocketsOwned, Remembered, host
<1>3. ASSUME NEW r \in Requests, SendToolRequest(c, r)
      PROVE  RelayInv'
  <2> DEFINE k == current[c]
  <2> USE <1>3 DEF SendToolRequest
  <2>0. carrier' = [carrier EXCEPT ![r] = k] /\ outcome[r] = "none"
    OBVIOUS
  <2>1. k \in Connections /\ owner[k] = c /\ k \in open /\ carrier[r] = 0 /\ 0 \notin Connections
    BY DEF RelayInv, RelayTypeOK, CurrentIsOwn, Asked, Connections
  <2>2. /\ carrier' \in [Requests -> 0..MaxConnections]
        /\ carrier'[r] = k /\ \A x \in Requests : carrier[x] # 0 => carrier'[x] = carrier[x]
        /\ UNCHANGED <<down, owner, hostPending, made, opening, open, current>>
    <3>1. carrier \in [Requests -> 0..MaxConnections] /\ k \in 0..MaxConnections
      BY <2>1 DEF RelayInv, RelayTypeOK, Connections
    <3>2. UNCHANGED <<down, owner, hostPending, made, opening, open, current>>
      BY DEF host
    <3> HIDE <1>3 DEF SendToolRequest, k
    <3> QED BY <2>0, <2>1, <3>1, <3>2
  <2>3. \A l \in Connections : \A i \in DOMAIN up[l] : up[l][i].request \in Requests
    BY RequestsIn DEF RelayInv, RelayTypeOK
  <2>4. \A l \in Connections : \A i \in DOMAIN down[l] : down[l][i].request \in Requests
    BY RequestsIn DEF RelayInv, RelayTypeOK
  <2>5. Travels(down)'
    BY <2>1, <2>2, <2>4 DEF RelayInv, Travels
  <2>6. \A l \in Connections : \A i \in DOMAIN up[l] :
          l = carrier'[up[l][i].request]
    BY <2>1, <2>2, <2>3 DEF RelayInv, Travels
  <2>7. up' \in [Connections -> Seq(Pieces)] /\ Travels(up)'
    <3>1. CASE k \notin mcpClients
      BY <2>2, <2>6, <3>1 DEF Travels, RelayInv, RelayTypeOK
    <3>2. CASE k \in mcpClients
      <4>1. up' = [up EXCEPT ![k] = @ \o Message(k, r)]
        BY <3>2
      <4>2. up[k] \in Seq(Pieces) /\ up \in [Connections -> Seq(Pieces)]
        BY <2>1 DEF RelayInv, RelayTypeOK
      <4>3. up' \in [Connections -> Seq(Pieces)]
        BY <2>1, <4>1, <4>2, MessageTyped
      <4>4. ASSUME NEW l \in Connections, NEW i \in DOMAIN up'[l]
            PROVE  l = carrier'[up'[l][i].request]
        <5>1. CASE l = k
          <6> HIDE <1>3 DEF SendToolRequest, k
          <6>1. up'[l] = up[k] \o Message(k, r)
            BY <2>1, <4>1, <4>2, <5>1
          <6>2. \/ i \in DOMAIN up[k] /\ up'[l][i] = up[k][i]
                \/ up'[l][i].request = r
            BY <2>1, <4>2, <6>1, MessageTyped
          <6> QED BY <2>1, <2>2, <2>6, <5>1, <6>2
        <5>2. CASE l # k
          BY <2>2, <2>6, <4>1, <4>2, <5>2
        <5> QED BY <5>1, <5>2
      <4> QED BY <4>3, <4>4 DEF Travels
    <3> QED BY <3>1, <3>2
  <2>8. RelayTypeOK'
    BY <2>2, <2>7 DEF RelayInv, RelayTypeOK, host
  <2>9. Remembered' /\ CurrentIsOwn' /\ SocketsOwned' /\ Owned'
    <3>1. Remembered'
      BY <2>1, <2>2 DEF RelayInv, RelayTypeOK, Remembered
    <3> QED BY <2>2, <3>1 DEF RelayInv, CurrentIsOwn, SocketsOwned, Owned, RelayTypeOK
  <2>10. Asked'
    BY <2>2 DEF RelayInv, Asked, RelayTypeOK
  <2>11. WaitsOnConnection'
    <3>1. ASSUME NEW d \in Clients, NEW x \in pending'[d]
          PROVE  current'[d] # 0 /\ carrier'[x] \in open' /\ owner'[carrier'[x]] = d
      <4>1. x \in pending[d] \/ (d = c /\ x = r)
        BY <3>1 DEF RelayInv, RelayTypeOK
      <4>2. x \in pending[d] =>
              x \in Requests /\ current[d] # 0 /\ carrier[x] \in open /\ owner[carrier[x]] = d
        BY DEF RelayInv, RelayTypeOK, WaitsOnConnection
      <4>3. CASE x = r /\ d = c
        BY <2>1, <2>2, <4>3
      <4>4. CASE x \in pending[d]
        <5>1. carrier[x] # 0
          BY <2>1, <4>2, <4>4 DEF RelayInv, RelayTypeOK
        <5> QED BY <2>2, <4>2, <4>4, <5>1
      <4> QED BY <4>1, <4>3, <4>4
    <3> QED BY <3>1 DEF WaitsOnConnection
  <2> QED BY <2>5, <2>7, <2>8, <2>9, <2>10, <2>11 DEF RelayInv
<1>4. ASSUME NEW r \in Requests, RequestTimeout(c, r)
      PROVE  RelayInv'
  BY <1>4 DEF RequestTimeout, RelayInv, RelayTypeOK, Owned, Asked, CurrentIsOwn, SocketsOwned, Remembered,
     WaitsOnConnection, Travels, host, sockets
<1> QED BY <1>1, <1>2, <1>3, <1>4

(* The events of the client's sockets.                                       *)
LEMMA SocketPreservesInv ==
  ASSUME RelayInv, NEW k \in Connections,
         Opened(k) \/ Refused(k) \/ HandleData(k) \/ SocketClosed(k) \/ DestroyedClosed(k)
  PROVE  RelayInv'
<1> USE NativeRelayAssumption
<1>1. CASE Opened(k)
  <2> USE <1>1 DEF Opened
  <2>1. owner[k] \in Clients
    BY DEF RelayInv, SocketsOwned
  <2>2. k # 0 /\ k \in 0..MaxConnections
    BY DEF Connections
  <2>3. RelayTypeOK'
    <3>1. current' \in [Clients -> 0..MaxConnections]
      BY <2>1, <2>2 DEF RelayInv, RelayTypeOK
    <3> QED BY <3>1 DEF RelayInv, RelayTypeOK
  <2>4. Travels(up)' /\ Travels(down)'
    BY DEF RelayInv, Travels
  <2> QED BY <2>1, <2>2, <2>3, <2>4 DEF RelayInv, Owned, Asked, CurrentIsOwn, SocketsOwned, Remembered,
       WaitsOnConnection, RelayTypeOK
<1>2. ASSUME owner[k] \in Clients, handleDisconnect(owner[k]),
             UNCHANGED <<buffer, carrier, host, made, owner, up, down, atExtension, stops>>,
             opening' \subseteq opening, closing' \subseteq closing,
             open' = open \/ open' = open \ {k}
      PROVE  RelayInv'
  <2>1. RelayTypeOK'
    BY <1>2, GivesUp DEF RelayInv, RelayTypeOK, host
  <2>2. Travels(up)' /\ Travels(down)'
    BY <1>2 DEF RelayInv, Travels
  <2>3. WaitsOnConnection' /\ CurrentIsOwn'
    BY <1>2, OthersWait
  <2> QED BY <1>2, <2>1, <2>2, <2>3, GivesUp
       DEF RelayInv, Owned, Asked, SocketsOwned, Remembered, host
<1>3. CASE Refused(k)
  BY <1>2, <1>3 DEF Refused, RelayInv, SocketsOwned
<1>4. CASE SocketClosed(k)
  BY <1>2, <1>4 DEF SocketClosed, RelayInv, SocketsOwned
<1>5. CASE DestroyedClosed(k)
  BY <1>2, <1>5 DEF DestroyedClosed, RelayInv, SocketsOwned
<1>6. CASE HandleData(k)
  <2> DEFINE c == owner[k]
             read == Append(buffer[c], Head(down[k]))
             answered == {Head(down[k]).request} \intersect pending[c]
  <2> USE <1>6 DEF HandleData
  <2>1. /\ k \in open /\ c \in Clients
        /\ down' = [down EXCEPT ![k] = Tail(@)]
        /\ UNCHANGED <<carrier, host, made, owner, opening, up, atExtension, stops>>
    BY DEF RelayInv, SocketsOwned
  <2>2. down' \in [Connections -> Seq(Pieces)] /\ Travels(down)' /\ Head(down[k]) \in Pieces
    <3>1. down \in [Connections -> Seq(Pieces)] /\ down[k] # <<>> /\ Travels(down)
      BY DEF RelayInv, RelayTypeOK
    <3>2. /\ Head(down[k]) \in Pieces
          /\ [down EXCEPT ![k] = Tail(@)] \in [Connections -> Seq(Pieces)]
          /\ Travels([down EXCEPT ![k] = Tail(@)])
      BY <3>1, TakenTravels
    <3> QED BY <2>1, <3>2 DEF Travels
  <2>3. buffer[c] \in Seq(Pieces) /\ read \in Seq(Pieces)
    BY <2>1, <2>2 DEF RelayInv, RelayTypeOK
  <2>4. Travels(up)' /\ Owned' /\ Remembered'
    BY <2>1 DEF RelayInv, Travels, Owned, Remembered, host
  <2>5. /\ buffer' \in [Clients -> Seq(Pieces)]
        /\ current' \in [Clients -> 0..MaxConnections]
        /\ pending' \in [Clients -> SUBSET Requests]
        /\ outcome' \in [Requests -> {"none", "waiting", "result", "error"}]
        /\ \A r \in Requests : outcome'[r] = "none" => outcome[r] = "none"
        /\ WaitsOnConnection' /\ CurrentIsOwn'
        /\ open' \subseteq open /\ closing' \subseteq closing \union open
    <3>0. Len(read) = 2 => \A half \in {"mixed", "broken"} :
                             <<[read[1] EXCEPT !.half = half]>> \in Seq(Pieces)
      BY <2>3, MarkedTyped
    <3>1. CASE IsMessage(read) /\ UNCHANGED <<current, open, closing>>
               /\ buffer' = [buffer EXCEPT ![c] = <<>>]
               /\ pending' = [pending EXCEPT ![c] = @ \ answered]
               /\ outcome' = [r \in Requests |-> IF r \in answered THEN "result" ELSE outcome[r]]
      BY <2>1, <3>1 DEF RelayInv, RelayTypeOK, WaitsOnConnection, CurrentIsOwn
    <3>2. CASE /\ \E pieces \in Seq(Pieces) : buffer' = [buffer EXCEPT ![c] = pieces]
               /\ UNCHANGED <<current, pending, outcome, open, closing>>
      <4>1. buffer' \in [Clients -> Seq(Pieces)]
        BY <2>1, <3>2 DEF RelayInv, RelayTypeOK
      <4> QED BY <2>1, <3>2, <4>1 DEF RelayInv, RelayTypeOK, WaitsOnConnection, CurrentIsOwn
    <3>3. CASE /\ \E pieces \in Seq(Pieces) : buffer' = [buffer EXCEPT ![c] = pieces]
               /\ handleDisconnect(c)
               /\ open' = open \ {current[c]}
               /\ closing' = closing \union ({current[c]} \intersect open)
      <4>1. buffer' \in [Clients -> Seq(Pieces)]
        BY <2>1, <3>3 DEF RelayInv, RelayTypeOK
      <4>2. \A l \in open \ open' : owner[l] = c
        BY <2>1, <3>3 DEF RelayInv, CurrentIsOwn, SocketsOwned, RelayTypeOK, Connections
      <4>3. WaitsOnConnection' /\ CurrentIsOwn'
        BY <2>1, <3>3, <4>2, OthersWait
      <4> QED BY <2>1, <3>3, <4>1, <4>3, GivesUp
    <3> QED BY <2>3, <3>0, <3>1, <3>2, <3>3
  <2>6. RelayTypeOK'
    BY <2>1, <2>2, <2>5 DEF RelayInv, RelayTypeOK, host
  <2> QED BY <2>1, <2>2, <2>4, <2>5, <2>6 DEF RelayInv, Asked, SocketsOwned, RelayTypeOK
<1> QED BY <1>1, <1>3, <1>4, <1>5, <1>6

(* The native host, which may end at any time, and the extension behind it.  *)
LEMMA HostPreservesInv ==
  ASSUME RelayInv,
         \/ \E k \in Connections : HandleClientData(k) \/ HandleClientDisconnect(k)
         \/ \E r \in Requests : HandleMessage(r)
         \/ HostStops \/ HostStarts
  PROVE  RelayInv'
<1> USE NativeRelayAssumption
<1>1. ASSUME NEW k \in Connections, HandleClientData(k)
      PROVE  RelayInv'
  <2> DEFINE r == Head(up[k]).request
             read == Append(hostBuffer[k], Head(up[k]))
  <2>1. up \in [Connections -> Seq(Pieces)] /\ up[k] # <<>> /\ Travels(up)
    BY <1>1 DEF HandleClientData, RelayInv, RelayTypeOK
  <2>2. /\ Head(up[k]) \in Pieces
        /\ k = carrier[r]
        /\ [up EXCEPT ![k] = Tail(@)] \in [Connections -> Seq(Pieces)]
        /\ Travels([up EXCEPT ![k] = Tail(@)])
    BY <2>1, TakenTravels
  <2>3. r \in Requests /\ read \in Seq(Pieces)
    <3>1. Head(up[k]) \in Pieces
      BY <2>2
    <3>2. r \in Requests
      BY <3>1 DEF Pieces
    <3>3. hostBuffer[k] \in Seq(Pieces)
      BY DEF RelayInv, RelayTypeOK
    <3> QED BY <3>1, <3>2, <3>3
  <2>4. /\ up' = [up EXCEPT ![k] = Tail(@)]
        /\ UNCHANGED <<client, hostUp, mcpClients, made, owner, opening, open, closing, down, stops>>
        /\ hostBuffer' = [hostBuffer EXCEPT ![k] = IF IsMessage(read) THEN <<>> ELSE read]
        /\ hostPending' = hostPending \/ hostPending' = [hostPending EXCEPT ![r] = k]
        /\ atExtension' = atExtension \/ atExtension' = atExtension \union {r}
    BY <1>1 DEF HandleClientData
  <2>5. up' \in [Connections -> Seq(Pieces)] /\ Travels(up)' /\ Travels(down)'
    BY <2>2, <2>4 DEF Travels, RelayInv, client
  <2>6. hostBuffer' \in [Connections -> Seq(Pieces)]
    BY <2>3, <2>4 DEF RelayInv, RelayTypeOK
  <2>7. hostPending' \in [Requests -> 0..MaxConnections] /\ Remembered'
    <3>1. /\ hostPending \in [Requests -> 0..MaxConnections] /\ Remembered
          /\ owner' = owner /\ carrier' = carrier
          /\ k \in 0..MaxConnections
      BY <2>4 DEF RelayInv, RelayTypeOK, client, Connections
    <3> HIDE DEF r
    <3>2. CASE hostPending' = hostPending
      BY <3>1, <3>2 DEF Remembered
    <3>3. CASE hostPending' = [hostPending EXCEPT ![r] = k]
      <4>1. \A x \in Requests : hostPending'[x] = IF x = r THEN k ELSE hostPending[x]
        BY <3>1, <3>3
      <4>2. hostPending' \in [Requests -> 0..MaxConnections]
        BY <3>1, <3>3
      <4> QED BY <2>2, <2>3, <3>1, <4>1, <4>2 DEF Remembered
    <3> QED BY <2>4, <3>2, <3>3
  <2>8. RelayTypeOK'
    BY <2>3, <2>4, <2>5, <2>6, <2>7 DEF RelayInv, RelayTypeOK, client
  <2> QED BY <2>4, <2>5, <2>7, <2>8
       DEF RelayInv, Owned, Asked, CurrentIsOwn, SocketsOwned, WaitsOnConnection, client
<1>2. ASSUME NEW k \in Connections, HandleClientDisconnect(k)
      PROVE  RelayInv'
  BY <1>2 DEF HandleClientDisconnect, RelayInv, RelayTypeOK, Owned, Asked, CurrentIsOwn, SocketsOwned,
     Remembered, WaitsOnConnection, Travels, client, sockets
<1>3. ASSUME NEW r \in Requests, HandleMessage(r)
      PROVE  RelayInv'
  <2> DEFINE k == hostPending[r]
  <2>1. /\ down' = IF k # 0 THEN [down EXCEPT ![k] = @ \o Message(k, r)] ELSE down
        /\ atExtension' = atExtension \ {r}
        /\ hostPending' = [hostPending EXCEPT ![r] = 0]
        /\ UNCHANGED <<client, hostUp, mcpClients, hostBuffer, made, owner, opening, open,
                       closing, up, stops>>
    BY <1>3 DEF HandleMessage
  <2>2. down \in [Connections -> Seq(Pieces)] /\ Travels(down)
    BY DEF RelayInv, RelayTypeOK
  <2>3. CASE k = 0
    BY <2>1, <2>2, <2>3 DEF RelayInv, RelayTypeOK, Owned, Asked, CurrentIsOwn, SocketsOwned, Remembered,
       WaitsOnConnection, Travels, client
  <2>4. CASE k # 0
    <3>1. k \in Connections /\ k = carrier[r]
      BY <2>4 DEF RelayInv, RelayTypeOK, Connections, Remembered
    <3>2. /\ [down EXCEPT ![k] = @ \o Message(k, r)] \in [Connections -> Seq(Pieces)]
          /\ Travels([down EXCEPT ![k] = @ \o Message(k, r)])
      BY <2>2, <3>1, AddedTravels
    <3>3. down' \in [Connections -> Seq(Pieces)] /\ Travels(down)' /\ Travels(up)'
      <4>1. /\ down' = [down EXCEPT ![k] = @ \o Message(k, r)]
            /\ up' = up /\ owner' = owner /\ carrier' = carrier /\ Travels(up)
        BY <2>1, <2>4 DEF RelayInv, client
      <4>2. \A l \in Connections : \A i \in DOMAIN down'[l] :
              l = carrier[down'[l][i].request]
        BY <3>2, <4>1 DEF Travels
      <4>3. down' \in [Connections -> Seq(Pieces)]
        BY <3>2, <4>1
      <4>4. Travels(down)'
        BY <4>1, <4>2 DEF Travels
      <4>5. Travels(up)'
        BY <4>1 DEF Travels
      <4> QED BY <4>3, <4>4, <4>5
    <3>4. RelayTypeOK'
      BY <2>1, <3>3 DEF RelayInv, RelayTypeOK, client
    <3>5. Remembered'
      BY <2>1 DEF RelayInv, RelayTypeOK, Remembered, client
    <3> QED BY <2>1, <3>3, <3>4, <3>5
         DEF RelayInv, Owned, Asked, CurrentIsOwn, SocketsOwned, WaitsOnConnection, client
  <2> QED BY <2>3, <2>4
<1>4. CASE HostStops
  <2>1. PICK cut \in [mcpClients -> 0..2] :
          down' = [l \in Connections |->
                     IF l \in mcpClients /\ cut[l] <= Len(down[l])
                     THEN SubSeq(down[l], 1, Len(down[l]) - cut[l]) ELSE down[l]]
    BY <1>4 DEF HostStops
  <2>2. UNCHANGED <<client, made, owner, opening, open, closing>>
    BY <1>4 DEF HostStops
  <2>3. ASSUME NEW l \in Connections
        PROVE  /\ down'[l] \in Seq(Pieces)
               /\ \A i \in DOMAIN down'[l] : i \in DOMAIN down[l] /\ down'[l][i] = down[l][i]
    <3>1. down[l] \in Seq(Pieces) /\ (l \in mcpClients => cut[l] \in 0..2)
      BY DEF RelayInv, RelayTypeOK
    <3>2. CASE l \in mcpClients /\ cut[l] <= Len(down[l])
      <4>1. down'[l] = SubSeq(down[l], 1, Len(down[l]) - cut[l])
        BY <2>1, <3>2
      <4> QED BY <3>1, <3>2, <4>1
    <3>3. CASE ~(l \in mcpClients /\ cut[l] <= Len(down[l]))
      BY <2>1, <3>1, <3>3
    <3> QED BY <3>2, <3>3
  <2>4. down' \in [Connections -> Seq(Pieces)] /\ Travels(down)'
    BY <2>1, <2>2, <2>3 DEF Travels, RelayInv, client
  <2>5. up' \in [Connections -> Seq(Pieces)] /\ \A l \in Connections : DOMAIN up'[l] = {}
    BY <1>4 DEF HostStops
  <2>6. Travels(up)'
    BY <2>5 DEF Travels
  <2>7. RelayTypeOK'
    <3>1. /\ hostBuffer' \in [Connections -> Seq(Pieces)]
          /\ hostPending' \in [Requests -> 0..MaxConnections]
          /\ mcpClients' = {} /\ hostUp' = FALSE /\ atExtension' = {}
          /\ stops' = stops + 1 /\ stops < MaxStops
      BY <1>4 DEF HostStops
    <3>2. stops' \in 0..MaxStops
      BY <3>1 DEF RelayInv, RelayTypeOK
    <3> QED BY <2>2, <2>4, <2>5, <3>1, <3>2 DEF RelayInv, RelayTypeOK, client
  <2> QED BY <1>4, <2>2, <2>4, <2>6, <2>7
       DEF HostStops, RelayInv, Owned, Asked, CurrentIsOwn, SocketsOwned, Remembered,
           WaitsOnConnection, client
<1>5. CASE HostStarts
  BY <1>5 DEF HostStarts, RelayInv, RelayTypeOK, Owned, Asked, CurrentIsOwn, SocketsOwned, Remembered,
     WaitsOnConnection, Travels, client, sockets
<1> QED BY <1>1, <1>2, <1>3, <1>4, <1>5

LEMMA RelayStepPreservesInv == RelayInv /\ [RelayNext]_relayVars => RelayInv'
<1> SUFFICES ASSUME RelayInv, [RelayNext]_relayVars PROVE RelayInv'
  OBVIOUS
<1>1. CASE UNCHANGED relayVars
  BY <1>1 DEF relayVars, client, host, sockets, RelayInv, RelayTypeOK, Owned, Asked, CurrentIsOwn, SocketsOwned,
     Remembered, WaitsOnConnection, Travels
<1>2. ASSUME NEW c \in Clients, Connect(c) \/ Disconnect(c)
               \/ \E r \in Requests : SendToolRequest(c, r) \/ RequestTimeout(c, r)
      PROVE  RelayInv'
  BY <1>2, ClientPreservesInv
<1>3. ASSUME NEW k \in Connections,
             Opened(k) \/ Refused(k) \/ HandleData(k) \/ SocketClosed(k) \/ DestroyedClosed(k)
      PROVE  RelayInv'
  BY <1>3, SocketPreservesInv
<1>4. ASSUME \/ \E k \in Connections : HandleClientData(k) \/ HandleClientDisconnect(k)
             \/ \E r \in Requests : HandleMessage(r)
             \/ HostStops \/ HostStarts
      PROVE  RelayInv'
  BY <1>4, HostPreservesInv
<1> QED BY <1>1, <1>2, <1>3, <1>4 DEF RelayNext

(* RelayInv, with what the theorems below need of connections and their      *)
(* owners, holds throughout.                                                 *)
THEOREM RelayInvariance == RelaySpec => []RelayInv
BY RelayInitially, RelayStepPreservesInv, PTL DEF RelaySpec

(* The variables of client, host and sockets keep their types.               *)
THEOREM RelayTypes == RelaySpec => []RelayTypeOK
<1>1. RelayInv => RelayTypeOK
  BY DEF RelayInv
<1> QED BY <1>1, RelayInvariance, PTL

(* An answer of the shared extension comes back on the connection its        *)
(* request went on, whatever connections were made, given up or lost since   *)
(* (ChromeNativeHost.pendingRequests); and a request that waits was sent on  *)
(* an open connection of its own client, whose loss will reject it           *)
(* (SocketClient.handleDisconnect).                                          *)
THEOREM AnswersAndLossesReachTheirClient == RelaySpec => []GoesToItsClient
<1>1. RelayInv => GoesToItsClient
  BY DEF RelayInv, GoesToItsClient, AnswerGoesToAsker, Travels
<1> QED BY <1>1, RelayInvariance, PTL

=============================================================================

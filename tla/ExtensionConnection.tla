------------------------ MODULE ExtensionConnection ------------------------
(***************************************************************************)
(* The extension's end of the gateway connection:                          *)
(* extension/src/service-worker/webSocketConnection.ts, the background     *)
(* auto-connect of autoConnect.ts, and the side panel's Connect, Disconnect*)
(* and state requests of sidePanelHandler.ts.                              *)
(*                                                                         *)
(* The service worker is stopped and started by the browser at will; only  *)
(* the auto-connect preference in chrome.storage.local survives.  Its      *)
(* storage reads and health probes are awaited: what they found is acted on*)
(* in a later step.                                                        *)
(***************************************************************************)
EXTENDS Naturals, FiniteSets

CONSTANTS
  Sockets,               \* WebSocket objects; a closed one may stand for a new one
  NoSocket,              \* this.socket = null
  MaxReconnectAttempts,
  StorageMayFail,        \* chrome.storage calls may be rejected
  DialMayThrow,          \* new WebSocket(url) may throw
  MaxPending,            \* bound: storage reads, and health probes, outstanding at once
  MaxDisturbances        \* bound: clicks, worker stops and gateway outages

ASSUME ConnectionAssumption ==
  /\ NoSocket \notin Sockets
  /\ MaxReconnectAttempts \in Nat
  /\ StorageMayFail \in BOOLEAN
  /\ DialMayThrow \in BOOLEAN
  /\ MaxPending \in Nat
  /\ MaxDisturbances \in Nat

VARIABLES
  worker,             \* is the service worker running?
  socket,             \* this.socket
  readyState,         \* of every socket
  shouldReconnect,
  reconnectAttempts,
  reconnectTimer,     \* is a reconnect timer running?
  status,             \* this._status
  checks,             \* number of ensureAutoConnect calls awaiting storage that read each value
  probes,             \* number of recoverFromActivity calls awaiting the gateway's health
  preference,         \* the stored auto-connect preference
  gateway,            \* is the gateway up?
  optOut,             \* history: has the user clicked Disconnect, in this worker or earlier?
  leaked,             \* history: was a socket dialled by a check or probe since that click?
  disturbances        \* what the bound counts

connectionVars == <<socket, readyState, shouldReconnect, reconnectAttempts, reconnectTimer, status>>
pendingVars == <<checks, probes>>
outsideVars == <<preference, gateway, disturbances>>
historyVars == <<optOut, leaked>>
vars == <<worker, connectionVars, pendingVars, outsideVars, historyVars>>

(* Slip of ACTIVE_STATUSES: "waiting" counts as busy. *)
Active_waiting == {"connected", "connecting", "waiting"}

Active == {"connected", "connecting"}
Live == {s \in Sockets : readyState[s] \in {"CONNECTING", "OPEN"}}

TypeOK ==
  /\ worker \in BOOLEAN
  /\ socket \in Sockets \union {NoSocket}
  /\ readyState \in [Sockets -> {"CONNECTING", "OPEN", "CLOSING", "CLOSED"}]
  /\ shouldReconnect \in BOOLEAN
  /\ reconnectAttempts \in 0..MaxReconnectAttempts
  /\ reconnectTimer \in BOOLEAN
  /\ status \in {"disconnected", "connecting", "connected", "waiting", "error"}
  /\ checks \in [BOOLEAN -> Nat]
  /\ probes \in Nat
  /\ preference \in BOOLEAN
  /\ gateway \in BOOLEAN
  /\ optOut \in {"none", "here", "earlier"}
  /\ leaked \in BOOLEAN
  /\ disturbances \in 0..MaxDisturbances

Init ==
  /\ worker = FALSE
  /\ socket = NoSocket
  /\ readyState = [s \in Sockets |-> "CLOSED"]
  /\ shouldReconnect = FALSE
  /\ reconnectAttempts = 0
  /\ reconnectTimer = FALSE
  /\ status = "disconnected"
  /\ checks = [value \in BOOLEAN |-> 0]
  /\ probes = 0
  /\ preference = TRUE
  /\ gateway \in BOOLEAN
  /\ optOut = "none"
  /\ leaked = FALSE
  /\ disturbances = 0

Disturbs == disturbances < MaxDisturbances /\ disturbances' = disturbances + 1

-----------------------------------------------------------------------------
(* WebSocketConnection.                                                     *)

(* Slip: the replaced socket is dropped without being closed. *)
Closed_not(states, s) == states

(* Closing a socket that is open or being opened. *)
Closed(states, s) ==
  [x \in Sockets |-> IF x = s /\ states[x] \in {"CONNECTING", "OPEN"} THEN "CLOSING" ELSE states[x]]

(* Slip: giving up without a word. *)
scheduleReconnect_silent(wanted, timer, attempts, current) ==
  LET tries == wanted /\ ~timer /\ attempts < MaxReconnectAttempts IN
  /\ reconnectTimer' = (timer \/ tries)
  /\ reconnectAttempts' = IF tries THEN attempts + 1 ELSE attempts
  /\ status' = current

(* scheduleReconnect, called with the given status. *)
scheduleReconnect(wanted, timer, attempts, current) ==
  \/ /\ ~wanted \/ timer
     /\ reconnectTimer' = timer /\ reconnectAttempts' = attempts /\ status' = current
  \/ /\ wanted /\ ~timer /\ attempts >= MaxReconnectAttempts
     /\ reconnectTimer' = FALSE /\ reconnectAttempts' = attempts /\ status' = "waiting"
  \/ /\ wanted /\ ~timer /\ attempts < MaxReconnectAttempts
     /\ reconnectTimer' = TRUE /\ reconnectAttempts' = attempts + 1 /\ status' = current

(* connect, called with the given number of attempts. *)
connect(attempts) ==
  /\ shouldReconnect' = TRUE
  /\ \/ \E s \in Sockets :
          /\ readyState[s] = "CLOSED" /\ s # socket
          /\ socket' = s
          /\ readyState' = [Closed(readyState, socket) EXCEPT ![s] = "CONNECTING"]
          /\ reconnectTimer' = FALSE
          /\ reconnectAttempts' = attempts
          /\ status' = "connecting"
     \/ /\ DialMayThrow
        /\ socket' = NoSocket
        /\ readyState' = Closed(readyState, socket)
        /\ scheduleReconnect(TRUE, FALSE, attempts, "error")

(* Slip: disconnect leaves a running reconnect timer alone. *)
disconnect_keepsTimer ==
  /\ shouldReconnect' = FALSE
  /\ socket' = NoSocket
  /\ readyState' = Closed(readyState, socket)
  /\ status' = "disconnected"
  /\ UNCHANGED <<reconnectAttempts, reconnectTimer>>

disconnect ==
  /\ shouldReconnect' = FALSE
  /\ reconnectTimer' = FALSE
  /\ socket' = NoSocket
  /\ readyState' = Closed(readyState, socket)
  /\ status' = "disconnected"
  /\ UNCHANGED reconnectAttempts

onopen(s) ==
  /\ readyState[s] = "CONNECTING" /\ gateway
  /\ readyState' = [readyState EXCEPT ![s] = "OPEN"]
  /\ reconnectAttempts' = 0
  /\ status' = "connected"
  /\ UNCHANGED <<worker, socket, shouldReconnect, reconnectTimer, pendingVars, outsideVars, historyVars>>

(* The connection fails, before or after it was opened; onclose follows. *)
onerror(s) ==
  /\ readyState[s] \in {"CONNECTING", "OPEN"} /\ ~gateway
  /\ readyState' = [readyState EXCEPT ![s] = "CLOSING"]
  /\ status' = IF socket # s THEN status ELSE IF shouldReconnect THEN "waiting" ELSE "error"
  /\ UNCHANGED <<worker, socket, shouldReconnect, reconnectAttempts, reconnectTimer,
                 pendingVars, outsideVars, historyVars>>

(* The gateway starts the closing handshake. *)
GatewayCloses(s) ==
  /\ readyState[s] = "OPEN" /\ ~gateway
  /\ readyState' = [readyState EXCEPT ![s] = "CLOSING"]
  /\ UNCHANGED <<worker, socket, shouldReconnect, reconnectAttempts, reconnectTimer, status,
                 pendingVars, outsideVars, historyVars>>

(* Slip: the handler reconnects without reporting the loss. *)
onclose_keepsStatus(s) ==
  /\ readyState[s] = "CLOSING"
  /\ readyState' = [readyState EXCEPT ![s] = "CLOSED"]
  /\ IF socket # s
     THEN UNCHANGED <<socket, reconnectAttempts, reconnectTimer, status>>
     ELSE /\ socket' = NoSocket
          /\ scheduleReconnect(shouldReconnect, reconnectTimer, reconnectAttempts, status)
  /\ UNCHANGED <<worker, shouldReconnect, pendingVars, outsideVars, historyVars>>

(* A socket that was replaced or dropped reports its close to nobody. *)
onclose(s) ==
  /\ readyState[s] = "CLOSING"
  /\ readyState' = [readyState EXCEPT ![s] = "CLOSED"]
  /\ IF socket # s
     THEN UNCHANGED <<socket, reconnectAttempts, reconnectTimer, status>>
     ELSE /\ socket' = NoSocket
          /\ scheduleReconnect(shouldReconnect, reconnectTimer, reconnectAttempts,
                               IF shouldReconnect THEN "waiting" ELSE "disconnected")
  /\ UNCHANGED <<worker, shouldReconnect, pendingVars, outsideVars, historyVars>>

ReconnectTimer ==
  /\ reconnectTimer
  /\ connect(reconnectAttempts)
  /\ UNCHANGED <<worker, pendingVars, outsideVars, historyVars>>

(* recoverFromActivity after its await: whatever happened in between, it     *)
(* connects if the gateway was healthy.                                      *)
ProbeAnswers ==
  /\ probes > 0
  /\ probes' = probes - 1
  /\ \/ UNCHANGED <<connectionVars, leaked>>
     \/ connect(0) /\ leaked' = (leaked \/ optOut # "none")
  /\ UNCHANGED <<worker, checks, outsideVars, optOut>>

-----------------------------------------------------------------------------
(* Background auto-connect.                                                 *)

(* ensureAutoConnect up to its await.  chrome.storage answers in the order   *)
(* of the calls: the value is the one stored when the call is made.  A       *)
(* failed read counts as enabled.                                            *)
EnsureAutoConnect ==
  \E value \in {preference} \union (IF StorageMayFail THEN {TRUE} ELSE {}) :
    checks' = [checks EXCEPT ![value] = @ + 1]

(* The minutely alarm, or the installed or startup event. *)
Alarm ==
  /\ worker /\ checks[TRUE] + checks[FALSE] < MaxPending
  /\ EnsureAutoConnect
  /\ UNCHANGED <<worker, connectionVars, probes, outsideVars, historyVars>>

(* ensureAutoConnect after its await. *)
CheckAnswers(enabled) ==
  /\ checks[enabled] > 0
  /\ checks' = [checks EXCEPT ![enabled] = @ - 1]
  /\ IF enabled /\ status \notin Active
     THEN connect(reconnectAttempts) /\ leaked' = (leaked \/ optOut # "none")
     ELSE UNCHANGED <<connectionVars, leaked>>
  /\ UNCHANGED <<worker, probes, outsideVars, optOut>>

-----------------------------------------------------------------------------
(* The side panel.                                                          *)

(* setAutoConnectEnabled: best-effort. *)
setAutoConnectEnabled(enabled) ==
  \/ preference' = enabled
  \/ StorageMayFail /\ UNCHANGED preference

PanelConnect ==
  /\ worker /\ Disturbs
  /\ setAutoConnectEnabled(TRUE)
  /\ connect(reconnectAttempts)
  /\ optOut' = "none" /\ leaked' = FALSE
  /\ UNCHANGED <<worker, pendingVars, gateway>>

(* Slip: Disconnect does not persist the opt-out. *)
PanelDisconnect_forgets ==
  /\ worker /\ Disturbs
  /\ disconnect
  /\ optOut' = "here" /\ leaked' = FALSE
  /\ UNCHANGED <<worker, pendingVars, gateway, preference>>

PanelDisconnect ==
  /\ worker /\ Disturbs
  /\ setAutoConnectEnabled(FALSE)
  /\ disconnect
  /\ optOut' = "here" /\ leaked' = FALSE
  /\ UNCHANGED <<worker, pendingVars, gateway>>

(* sidepanel_get_state starts a health probe; recoverFromActivity tests the  *)
(* status once more and declines while a reconnect timer runs.               *)
PanelGetState ==
  /\ worker /\ probes < MaxPending
  /\ status = "waiting" /\ ~reconnectTimer
  /\ probes' = probes + 1
  /\ UNCHANGED <<worker, connectionVars, checks, outsideVars, historyVars>>

-----------------------------------------------------------------------------
(* The browser and the gateway.                                             *)

(* All but the preference is lost; the browser closes the sockets. *)
WorkerStops ==
  /\ worker /\ Disturbs
  /\ worker' = FALSE
  /\ socket' = NoSocket
  /\ readyState' = [s \in Sockets |-> "CLOSED"]
  /\ shouldReconnect' = FALSE
  /\ reconnectAttempts' = 0
  /\ reconnectTimer' = FALSE
  /\ status' = "disconnected"
  /\ checks' = [value \in BOOLEAN |-> 0]
  /\ probes' = 0
  /\ optOut' = IF optOut = "here" THEN "earlier" ELSE optOut
  /\ leaked' = FALSE
  /\ UNCHANGED <<preference, gateway>>

(* The worker's script runs initAutoConnect before the event that woke it    *)
(* is delivered.                                                             *)
WorkerStarts ==
  /\ ~worker
  /\ worker' = TRUE
  /\ EnsureAutoConnect
  /\ UNCHANGED <<connectionVars, probes, outsideVars, historyVars>>

(* The gateway goes down or comes up.  A gateway that refuses this extension *)
(* is down for it.                                                           *)
Outage ==
  /\ Disturbs
  /\ gateway' = ~gateway
  /\ UNCHANGED <<worker, connectionVars, pendingVars, preference, historyVars>>

-----------------------------------------------------------------------------
SocketEvent(s) == onopen(s) \/ onerror(s) \/ GatewayCloses(s) \/ onclose(s)

Next ==
  \/ \E s \in Sockets : SocketEvent(s)
  \/ ReconnectTimer
  \/ ProbeAnswers
  \/ Alarm
  \/ \E enabled \in BOOLEAN : CheckAnswers(enabled)
  \/ PanelConnect
  \/ PanelDisconnect
  \/ PanelGetState
  \/ WorkerStops
  \/ WorkerStarts
  \/ Outage

(* The alarm outlives the worker and wakes it within a minute; timers and    *)
(* network events arrive; storage and fetch answer.  Nobody has to click or  *)
(* open the side panel.                                                      *)
Fairness ==
  /\ WF_vars(WorkerStarts)
  /\ WF_vars(Alarm)
  /\ WF_vars(\E enabled \in BOOLEAN : CheckAnswers(enabled))
  /\ WF_vars(ProbeAnswers)
  /\ WF_vars(ReconnectTimer)
  /\ \A s \in Sockets : WF_vars(SocketEvent(s))

Spec == Init /\ [][Next]_vars /\ Fairness

-----------------------------------------------------------------------------
(* The extension never holds two connections: whatever dials a socket has    *)
(* closed the one before, and a replaced socket cannot come back.            *)
OneLiveSocket == Live \subseteq {socket}

(* What the panel shows is true: "connected" means an open socket whose      *)
(* close was not reported yet, "connecting" one that is being opened.        *)
StatusIsTrue ==
  /\ status = "connected" => socket # NoSocket /\ readyState[socket] \in {"OPEN", "CLOSING"}
  /\ status = "connecting" => socket # NoSocket /\ readyState[socket] = "CONNECTING"
  /\ socket # NoSocket /\ readyState[socket] = "OPEN" => status = "connected"

(* The reconnect timer only runs while there is no socket and one is wanted: *)
(* it never dials over a connection or against a Disconnect.                 *)
TimerOnlyWithoutSocket == reconnectTimer => shouldReconnect /\ socket = NoSocket

(* A wanted connection is never abandoned without a timer, except by the     *)
(* documented "waiting" state that a health probe or an alarm ends.          *)
KeepsTrying ==
  shouldReconnect /\ socket = NoSocket =>
    \/ reconnectTimer
    \/ status = "waiting" /\ reconnectAttempts = MaxReconnectAttempts

Idle == socket = NoSocket /\ Live = {} /\ ~reconnectTimer /\ ~shouldReconnect

(* After Disconnect the extension stays off the gateway, until Connect, or   *)
(* until a check or probe that was already under way dials.                  *)
OptOutHolds == optOut # "none" /\ ~leaked => Idle

(* Once the worker has been restarted after a Disconnect, nothing connects   *)
(* before the user clicks Connect: such a check is forgotten by then.        *)
OptOutSurvivesRestart == optOut = "earlier" /\ ~StorageMayFail => Idle

(* If the gateway stays up and auto-connect stays enabled, the extension is  *)
(* connected from some point on, however often it has failed before.         *)
GetsConnected == <>[](gateway /\ preference) => <>[](status = "connected")

(* autoConnect.ts:13-14: "clicking Disconnect persists an opt-out so the     *)
(* extension does not immediately reconnect behind the user's back".         *)
DisconnectIsRespected == optOut # "none" => Idle

=============================================================================

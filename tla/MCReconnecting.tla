--------------------------- MODULE MCReconnecting ---------------------------
(***************************************************************************)
(* What is lost and had back, for TLC: the connections over which requests *)
(* reach the extension, and its session with the debugger of a tab.  They  *)
(* share no state: one of them moves, the others stay as they began,       *)
(* without a gateway in the case of the WebSocket.                         *)
(***************************************************************************)
EXTENDS ExtensionConnection, NativeRelay

CONSTANTS
  Tools, Reasons, MaxReattachAttempts, MayRefuse, MaxRecords, MaxRestarts

VARIABLES
  moving,
  tabOpen, inChrome, live, calls, stored,
  connection, attempts, reattachTimers, orphans,
  tool, attachedForCall, idleTimer, subscribed,
  pc, object, retrying, todo, canceled, refused, cutShort, restarts

Session == INSTANCE DebuggerSession WITH MaxConnections <- MaxRecords

sessionVars == <<tabOpen, inChrome, live, calls, stored, connection, attempts, reattachTimers,
                 orphans, tool, attachedForCall, idleTimer, subscribed, pc, object, retrying, todo,
                 canceled, refused, cutShort, restarts>>

ReconnectingInit ==
  /\ moving \in {"websocket", "native", "session"}
  /\ Init /\ RelayInit /\ Session!Init
  /\ moving # "websocket" => ~gateway

ReconnectingNext ==
  \/ moving = "websocket" /\ Next /\ UNCHANGED <<moving, relayVars, sessionVars>>
  \/ moving = "native" /\ RelayNext /\ UNCHANGED <<moving, vars, sessionVars>>
  \/ moving = "session" /\ Session!Next /\ UNCHANGED <<moving, vars, relayVars>>

ReconnectingFairness ==
  \/ moving = "websocket" /\ Fairness
  \/ moving = "native" /\ RelayFairness
  \/ moving = "session" /\ Session!Fairness

ReconnectingSpec ==
  /\ ReconnectingInit
  /\ [][ReconnectingNext]_<<moving, vars, relayVars, sessionVars>>
  /\ ReconnectingFairness

(* What is lost comes back: the connection to a gateway that stays up, and   *)
(* the debugger session, or its loss is settled, however often it is lost    *)
(* and in which order the replies come (autoConnect.ts, cdp.ts).             *)
ComesBack == GetsConnected /\ Session!LossIsSettled

=============================================================================

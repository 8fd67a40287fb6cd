---------------------------- MODULE ToolRequests ----------------------------
(***************************************************************************)
(* Tool requests inside the extension:                                     *)
(* extension/src/service-worker/toolRequestHandler.ts with the route queue *)
(* of messageRouter.ts and the tool history of sidePanelHandler.ts.        *)
(*                                                                         *)
(* A request arrives, waits for its turn in the router's promise chain, is *)
(* executed by its tool and answered; meanwhile the user may stop it from  *)
(* the side panel or the page, and the connection its answer needs may be  *)
(* gone.  A request that one handler call leaves behind is taken up by the *)
(* next macrotask: what runs between two awaits is one step.               *)
(***************************************************************************)
EXTENDS Naturals, Sequences

CONSTANTS
  Requests,    \* requests, numbered in the order in which they arrive
  Scripts,     \* those of the javascript tool that await a promise of the page
  Tabs,
  NoTab,       \* a request whose arguments name no tab
  Scopes,      \* stop scopes: client ids or session scopes
  NoScope,     \* no entry in lastStopScopeByTab
  MaxHistory   \* MAX_HISTORY

ASSUME ToolRequestsAssumption ==
  /\ Requests \subseteq Nat /\ Scripts \subseteq Requests
  /\ NoTab \notin Tabs
  /\ NoScope \notin Scopes
  /\ MaxHistory \in Nat \ {0}

VARIABLES
  connected,           \* can sendResponse send?
  target,              \* the tab each request names
  scope,               \* the stop scope of each request
  phase,               \* progress of handleToolRequest for each request
  activeRequests,      \* the Map; its insertion order is that of the numbers
  completed,           \* requests whose `completed' flag is set
  routeQueue,          \* requests in the router's promise chain; the head has its turn
  stoppedScopes,
  lastStopScopeByTab,
  toolHistory,         \* entries [request, status], oldest first
  answer               \* what the gateway was sent for each request

handling == <<target, scope, phase, completed, routeQueue>>
stops == <<stoppedScopes, lastStopScopeByTab>>
handlerVars == <<connected, handling, activeRequests, stops, toolHistory, answer>>

Answers == {"none", "result", "stopped", "unsent", "twice"}

HandlerTypeOK ==
  /\ connected \in BOOLEAN
  /\ target \in [Requests -> Tabs \union {NoTab}]
  /\ scope \in [Requests -> Scopes \union {NoScope}]
  /\ phase \in [Requests -> {"none", "queued", "executing", "done"}]
  /\ activeRequests \in SUBSET Requests
  /\ completed \in SUBSET Requests
  /\ routeQueue \in Seq(Requests)
  /\ stoppedScopes \in SUBSET Scopes
  /\ lastStopScopeByTab \in [Tabs -> Scopes \union {NoScope}]
  /\ toolHistory \in Seq([request : Requests, status : {"running", "success", "error"}])
  /\ Len(toolHistory) <= MaxHistory
  /\ answer \in [Requests -> Answers]

HandlerInit ==
  /\ connected \in BOOLEAN
  /\ target = [r \in Requests |-> NoTab]
  /\ scope = [r \in Requests |-> NoScope]
  /\ phase = [r \in Requests |-> "none"]
  /\ activeRequests = {}
  /\ completed = {}
  /\ routeQueue = <<>>
  /\ stoppedScopes = {}
  /\ lastStopScopeByTab = [t \in Tabs |-> NoScope]
  /\ toolHistory = <<>>
  /\ answer = [r \in Requests |-> "none"]

-----------------------------------------------------------------------------
(* recordToolStart: the oldest entries are dropped. *)
recordToolStart(history, r) ==
  LET all == Append(history, [request |-> r, status |-> "running"]) IN
  IF Len(all) <= MaxHistory THEN all ELSE Tail(all)

(* recordToolComplete; no effect on an entry that was dropped. *)
recordToolComplete(history, rs, status) ==
  [i \in DOMAIN history |->
     IF history[i].request \in rs THEN [history[i] EXCEPT !.status = status] ELSE history[i]]

(* sendResponse: throws, and sends nothing, without an open socket.  A       *)
(* second answer to one request is recorded as such.                         *)
sendResponse(answers, rs, what) ==
  [r \in Requests |->
     IF r \notin rs THEN answers[r]
     ELSE IF answers[r] # "none" THEN "twice"
     ELSE IF connected THEN what ELSE "unsent"]

-----------------------------------------------------------------------------
(* lastStopScopeByTab once scope s has a request for tab t. *)
Remembered(t, s) ==
  IF t = NoTab THEN lastStopScopeByTab ELSE [lastStopScopeByTab EXCEPT ![t] = s]

(* handleToolRequest up to its await of the router. *)
Receive(r, t, s) ==
  /\ phase[r] = "none" /\ connected
  /\ \A other \in Requests : other < r => phase[other] # "none"
  /\ target' = [target EXCEPT ![r] = t]
  /\ scope' = [scope EXCEPT ![r] = s]
  /\ \/ /\ s \in stoppedScopes
        /\ phase' = [phase EXCEPT ![r] = "done"]
        /\ toolHistory' = recordToolComplete(recordToolStart(toolHistory, r), {r}, "error")
        /\ answer' = sendResponse(answer, {r}, "stopped")
        /\ UNCHANGED <<completed, activeRequests, routeQueue, lastStopScopeByTab>>
     \/ /\ s \notin stoppedScopes
        /\ phase' = [phase EXCEPT ![r] = "queued"]
        /\ toolHistory' = recordToolStart(toolHistory, r)
        /\ lastStopScopeByTab' = Remembered(t, s)
        /\ activeRequests' = activeRequests \union {r}
        /\ routeQueue' = Append(routeQueue, r)
        /\ UNCHANGED <<completed, answer>>
  /\ UNCHANGED <<connected, stoppedScopes>>

(* route: `await previous' returns when the request is first in the chain.   *)
(* What routeNow does around the tool's execution is in AutomationTabs.      *)
Route(r) ==
  /\ phase[r] = "queued" /\ r = Head(routeQueue)
  /\ phase' = [phase EXCEPT ![r] = "executing"]
  /\ UNCHANGED <<connected, target, scope, completed, routeQueue,
                 activeRequests, stops, toolHistory, answer>>

(* Slips of the handler's end: the `completed' flag is not tested; a stopped *)
(* request leaves without releasing the chain.                               *)
Finish_unguarded(r) ==
  /\ phase[r] = "executing"
  /\ phase' = [phase EXCEPT ![r] = "done"]
  /\ routeQueue' = Tail(routeQueue)
  /\ activeRequests' = activeRequests \ {r}
  /\ completed' = completed \union {r}
  /\ toolHistory' = recordToolComplete(toolHistory, {r}, "success")
  /\ answer' = sendResponse(answer, {r}, "result")
  /\ UNCHANGED <<connected, target, scope, stops>>

Finish_keepsChain(r) ==
  /\ phase[r] = "executing"
  /\ phase' = [phase EXCEPT ![r] = "done"]
  /\ routeQueue' = IF r \in completed THEN routeQueue ELSE Tail(routeQueue)
  /\ activeRequests' = activeRequests \ {r}
  /\ completed' = completed \union {r}
  /\ toolHistory' = recordToolComplete(toolHistory, {r} \ completed, "success")
  /\ answer' = sendResponse(answer, {r} \ completed, "result")
  /\ UNCHANGED <<connected, target, scope, stops>>

(* The tool returns, with success or not, or the tool is unknown: routeNow   *)
(* turns exceptions into results.  The chain is released; the result is sent *)
(* unless the request was stopped, and a failure to send it is swallowed.    *)
Finish(r) ==
  /\ phase[r] = "executing"
  /\ phase' = [phase EXCEPT ![r] = "done"]
  /\ routeQueue' = Tail(routeQueue)
  /\ activeRequests' = activeRequests \ {r}
  /\ IF r \in completed
     THEN UNCHANGED <<completed, toolHistory, answer>>
     ELSE /\ completed' = completed \union {r}
          /\ \E status \in {"success", "error"} :
               toolHistory' = recordToolComplete(toolHistory, {r}, status)
          /\ answer' = sendResponse(answer, {r}, "result")
  /\ UNCHANGED <<connected, target, scope, stops>>

(* The requests that a stop of tab t, or of every tab for NoTab, would end.  *)
Stoppable(t) ==
  {r \in activeRequests \ completed : t = NoTab \/ target[r] = t}

(* The loop over them ends with the first answer that cannot be sent.        *)
Reached(t) ==
  {r \in Stoppable(t) : connected \/ \A other \in Stoppable(t) : r <= other}

(* Slip: all flags are set before the first answer is sent. *)
Stop_marksFirst(t) ==
  /\ Stoppable(t) # {}
  /\ completed' = completed \union Stoppable(t)
  /\ stoppedScopes' = stoppedScopes \union {scope[r] : r \in Reached(t)}
  /\ toolHistory' = recordToolComplete(toolHistory, Reached(t), "error")
  /\ answer' = sendResponse(answer, Reached(t), "stopped")
  /\ UNCHANGED <<connected, target, scope, phase, activeRequests, routeQueue,
                 lastStopScopeByTab>>

(* stopActiveToolRequests: an answer that cannot be sent throws after the    *)
(* bookkeeping of its request.  If nothing was active the client that last   *)
(* worked in the tab is stopped.                                             *)
Stop(t) ==
  LET last == IF t = NoTab THEN NoScope ELSE lastStopScopeByTab[t] IN
  /\ \/ /\ Stoppable(t) # {}
        /\ stoppedScopes' = stoppedScopes \union {scope[r] : r \in Reached(t)}
        /\ completed' = completed \union Reached(t)
        /\ toolHistory' = recordToolComplete(toolHistory, Reached(t), "error")
        /\ answer' = sendResponse(answer, Reached(t), "stopped")
     \/ /\ Stoppable(t) = {}
        /\ stoppedScopes' = stoppedScopes \union ({last} \ {NoScope})
        /\ UNCHANGED <<completed, toolHistory, answer>>
  /\ UNCHANGED <<connected, target, scope, phase, activeRequests, routeQueue,
                 lastStopScopeByTab>>

(* clearUserStop: the user clicks Connect, which also replaces the socket.   *)
ClearUserStop ==
  /\ stoppedScopes' = {}
  /\ lastStopScopeByTab' = [t \in Tabs |-> NoScope]
  /\ connected' = FALSE
  /\ UNCHANGED <<handling, activeRequests, toolHistory, answer>>

(* The connection is lost or comes back; see ExtensionConnection. *)
ConnectionChanges ==
  /\ connected' = ~connected
  /\ UNCHANGED <<handling, activeRequests, stops, toolHistory, answer>>

HandlerNext ==
  \/ \E r \in Requests, t \in Tabs \union {NoTab}, s \in Scopes : Receive(r, t, s)
  \/ \E r \in Requests : Route(r) \/ Finish(r)
  \/ \E t \in Tabs \union {NoTab} : Stop(t)
  \/ ClearUserStop
  \/ ConnectionChanges

(* Microtasks run, and tools return that wait for the browser or for a timer *)
(* of their own.  A script's timeout covers only what runs synchronously: it *)
(* returns if the page settles the promise, and need not.                    *)
HandlerFairness ==
  /\ \A r \in Requests : WF_handlerVars(Route(r))
  /\ \A r \in Requests \ Scripts : WF_handlerVars(Finish(r))

HandlerSpec == HandlerInit /\ [][HandlerNext]_handlerVars /\ HandlerFairness

-----------------------------------------------------------------------------
(* No request gets two answers, whether its result, a stop and a lost        *)
(* connection race or not.                                                   *)
AnsweredAtMostOnce == \A r \in Requests : answer[r] # "twice"

(* A request that has left the handler was answered, or could not be: a stop *)
(* that throws half-way leaves the others to be answered with their results. *)
NoneForgotten ==
  \A r \in Requests :
    /\ phase[r] = "done" => answer[r] # "none"
    /\ phase[r] \in {"queued", "executing"} => (r \in completed <=> answer[r] # "none")

(* The panel never shows a request as running that was answered, nor as      *)
(* finished one that still may be.                                           *)
HistoryIsTrue ==
  /\ Len(toolHistory) <= MaxHistory
  /\ \A i \in DOMAIN toolHistory :
       toolHistory[i].status = "running" <=> answer[toolHistory[i].request] = "none"

(* After a stop of a tab that could answer everybody, the client that worked *)
(* in the tab last is stopped, though it may have nothing active any more;   *)
(* this needs requests to end in the order in which they came.               *)
StopReachesLastClient ==
  [][\A t \in Tabs :
       connected /\ Stop(t) /\ lastStopScopeByTab[t] # NoScope =>
         lastStopScopeByTab[t] \in stoppedScopes']_handlerVars

(* A script is at work that waits for its page.                              *)
Blocked == \E r \in Scripts : phase[r] = "executing"

(* Every request that was registered leaves the handler, unless a script     *)
(* whose promise is never settled keeps the router's chain for good: nothing *)
(* else blocks it, whatever is stopped, lost or not answered.                *)
EveryRequestEnds ==
  \A r \in Requests : phase[r] = "queued" ~> phase[r] = "done" \/ []Blocked

(* The handler's own record and the one it keeps for the panel tell which of *)
(* the requests have been answered.                                          *)
RecordsAreTrue == NoneForgotten /\ HistoryIsTrue

(* Every request ends that no script of a page blocks, and a stop reaches    *)
(* the client whose requests have ended before it.                           *)
EndsAndStops == EveryRequestEnds /\ StopReachesLastClient

=============================================================================

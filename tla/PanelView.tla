------------------------------ MODULE PanelView ------------------------------
(***************************************************************************)
(* The side panel (sidepanel/index.ts) as a view of what the service       *)
(* worker keeps (sidePanelHandler.ts): a snapshot that it asks for when it *)
(* opens, and broadcasts of every change.  The answer and the broadcasts   *)
(* travel separately; broadcasts keep their order.                         *)
(***************************************************************************)
EXTENDS Naturals, Sequences, SequencesExt

CONSTANTS
  Statuses,      \* of the connection; "disconnected" and "connecting" are two of them
  AutoTabs,      \* tabs that may be listed
  MaxHistory,    \* entries the worker keeps, MAX_HISTORY
  MaxTools,      \* bound: tools started by one worker
  MaxOnWay,      \* bound: broadcasts on their way
  Nothing        \* no answer

VARIABLES
  (* the worker *)
  status, history, nextToolId, autoTabs,
  (* on their way *)
  broadcasts,
  answer,        \* the snapshot, and how many broadcasts that are older are on their way
  asked,         \* the messages to the worker
  (* the panel *)
  panelOpen, shownStatus, shownTabs,
  rows,          \* the entries from top to bottom
  stopEnabled,   \* the stop button
  (* observation *)
  behind         \* what the panel has missed: "status", "tabs", "history"

workerVars == <<status, history, nextToolId, autoTabs>>
panelVars == <<shownStatus, shownTabs, rows, stopEnabled>>
vars == <<workerVars, broadcasts, answer, asked, panelOpen, panelVars, behind>>

Aspects == {"status", "tabs", "history"}
Entries == [id : 1..MaxTools, state : {"running", "done"}]

TypeOK ==
  /\ status \in Statuses /\ shownStatus \in Statuses \union {"error"}
  /\ history \in Seq(Entries) /\ Len(history) <= MaxHistory /\ nextToolId \in 1..(MaxTools + 1)
  /\ autoTabs \subseteq AutoTabs /\ shownTabs \subseteq AutoTabs
  /\ Len(broadcasts) <= MaxOnWay
  /\ asked \subseteq {"get_state", "connect", "disconnect"}
  /\ rows \in Seq(Entries) /\ panelOpen \in BOOLEAN /\ stopEnabled \in BOOLEAN
  /\ behind \subseteq Aspects

Init ==
  /\ status = "disconnected" /\ history = <<>> /\ nextToolId = 1 /\ autoTabs = {}
  /\ broadcasts = <<>> /\ answer = Nothing /\ asked = {}
  /\ panelOpen = FALSE /\ shownStatus = "disconnected" /\ shownTabs = {} /\ rows = <<>>
  /\ stopEnabled = FALSE /\ behind = {}

Ids(entries) == {entries[i].id : i \in 1..Len(entries)}

-----------------------------------------------------------------------------
(* The worker. *)

(* Nobody hears a broadcast while the panel is closed. *)
Broadcast(what, value) ==
  IF panelOpen
  THEN /\ Len(broadcasts) < MaxOnWay
       /\ broadcasts' = Append(broadcasts, [what |-> what, value |-> value])
  ELSE broadcasts' = broadcasts

SetConnectionStatus(s) ==
  /\ s # status /\ status' = s /\ Broadcast("status", s)
  /\ UNCHANGED <<history, nextToolId, autoTabs, answer, asked, panelOpen, panelVars, behind>>

RecordToolStart ==
  LET entry == [id |-> nextToolId, state |-> "running"]
      grown == Append(history, entry) IN
  /\ nextToolId <= MaxTools /\ nextToolId' = nextToolId + 1
  /\ history' = IF Len(grown) > MaxHistory THEN Tail(grown) ELSE grown
  /\ Broadcast("history", entry)
  /\ UNCHANGED <<status, autoTabs, answer, asked, panelOpen, panelVars, behind>>

(* An entry that was trimmed is not told of any more. *)
RecordToolComplete(i) ==
  /\ i \in 1..Len(history) /\ history[i].state = "running"
  /\ history' = [history EXCEPT ![i].state = "done"]
  /\ Broadcast("history", history'[i])
  /\ UNCHANGED <<status, nextToolId, autoTabs, answer, asked, panelOpen, panelVars, behind>>

(* All listed tabs are told whenever one is recorded, changed or removed. *)
ChangeTabs(tabs) ==
  /\ tabs # autoTabs /\ autoTabs' = tabs /\ Broadcast("tabs", tabs)
  /\ UNCHANGED <<status, history, nextToolId, answer, asked, panelOpen, panelVars, behind>>

(* sidepanel_get_state is answered at once. *)
GetState ==
  /\ "get_state" \in asked /\ asked' = asked \ {"get_state"}
  /\ answer' = [status |-> status, tabs |-> autoTabs, history |-> history, older |-> Len(broadcasts)]
  /\ UNCHANGED <<workerVars, broadcasts, panelOpen, panelVars, behind>>

(* sidepanel_connect and sidepanel_disconnect. *)
Connect ==
  /\ "connect" \in asked /\ asked' = asked \ {"connect"} /\ status' = "connecting"
  /\ IF status = "connecting" THEN UNCHANGED broadcasts ELSE Broadcast("status", "connecting")
  /\ UNCHANGED <<history, nextToolId, autoTabs, answer, panelOpen, panelVars, behind>>

Disconnect ==
  /\ "disconnect" \in asked /\ asked' = asked \ {"disconnect"} /\ status' = "disconnected"
  /\ IF status = "disconnected" THEN UNCHANGED broadcasts ELSE Broadcast("status", "disconnected")
  /\ UNCHANGED <<history, nextToolId, autoTabs, answer, panelOpen, panelVars, behind>>

(* A new worker counts tools from 1 again and says nothing of what it lost. *)
WorkerRestarts ==
  /\ status' = "disconnected" /\ history' = <<>> /\ nextToolId' = 1 /\ autoTabs' = {}
  /\ answer' = Nothing /\ asked' = {} /\ broadcasts' = <<>>
  /\ behind' = IF panelOpen THEN Aspects ELSE {}
  /\ UNCHANGED <<panelOpen, panelVars>>

-----------------------------------------------------------------------------
(* The panel. *)

OpenPanel ==
  /\ ~panelOpen /\ panelOpen' = TRUE /\ asked' = {"get_state"}
  /\ UNCHANGED <<workerVars, broadcasts, answer, panelVars, behind>>

ClosePanel ==
  /\ panelOpen /\ panelOpen' = FALSE
  /\ broadcasts' = <<>> /\ answer' = Nothing /\ asked' = {}
  /\ shownStatus' = "disconnected" /\ shownTabs' = {} /\ rows' = <<>> /\ stopEnabled' = FALSE
  /\ behind' = {} /\ UNCHANGED workerVars

UpdateConnectionStatus(s) == shownStatus' = s /\ stopEnabled' = (s = "connected")

(* Slip: a new entry goes where the oldest are. *)
AddOrUpdateToolEntry_below(entry) ==
  rows' = IF entry.id \in Ids(rows)
          THEN [i \in 1..Len(rows) |-> IF rows[i].id = entry.id THEN entry ELSE rows[i]]
          ELSE Append(rows, entry)

AddOrUpdateToolEntry(entry) ==
  rows' = IF entry.id \in Ids(rows)
          THEN [i \in 1..Len(rows) |-> IF rows[i].id = entry.id THEN entry ELSE rows[i]]
          ELSE <<entry>> \o rows

RenderAutomationTabs(tabs) == shownTabs' = tabs
RenderFullHistory(entries) == rows' = Reverse(entries)   \* newest first

(* A broadcast that overtakes the answer to come will be undone by it. *)
Deliver ==
  LET news == Head(broadcasts)
      ahead == answer # Nothing /\ answer.older = 0 IN
  /\ broadcasts # <<>> /\ broadcasts' = Tail(broadcasts)
  /\ answer' = IF answer = Nothing \/ ahead THEN answer ELSE [answer EXCEPT !.older = @ - 1]
  /\ behind' = IF ahead THEN behind \union {news.what}
               ELSE IF news.what = "history" THEN behind ELSE behind \ {news.what}
  /\ CASE news.what = "status" -> UpdateConnectionStatus(news.value) /\ UNCHANGED <<shownTabs, rows>>
       [] news.what = "tabs" -> RenderAutomationTabs(news.value) /\ UNCHANGED <<shownStatus, stopEnabled, rows>>
       [] news.what = "history" ->
            AddOrUpdateToolEntry(news.value) /\ UNCHANGED <<shownStatus, shownTabs, stopEnabled>>
  /\ UNCHANGED <<workerVars, asked, panelOpen>>

(* The whole history is rendered.  Older broadcasts that are   *)
(* yet to come may bring back an entry that the snapshot has trimmed.        *)
Answered ==
  /\ answer # Nothing /\ answer' = Nothing
  /\ UpdateConnectionStatus(answer.status) /\ RenderAutomationTabs(answer.tabs)
  /\ RenderFullHistory(answer.history)
  /\ LET trimmed == \E i \in 1..answer.older :
                      /\ broadcasts[i].what = "history"
                      /\ broadcasts[i].value.id \notin Ids(answer.history) IN
     behind' = behind \union (IF trimmed THEN {"history"} ELSE {})
  /\ UNCHANGED <<workerVars, broadcasts, asked, panelOpen>>

(* The worker is not there: a message is lost, and connect shows it. *)
MessageFails(m) ==
  /\ m \in asked /\ asked' = asked \ {m}
  /\ IF m = "connect" THEN UpdateConnectionStatus("error") /\ UNCHANGED <<shownTabs, rows>>
                      ELSE UNCHANGED panelVars
  /\ behind' = CASE m = "get_state" -> Aspects
                 [] m = "connect" -> behind \union {"status"}
                 [] OTHER -> behind
  /\ UNCHANGED <<workerVars, broadcasts, answer, panelOpen>>

ClickConnect ==
  /\ panelOpen /\ shownStatus \in {"disconnected", "error"} /\ "connect" \notin asked
  /\ asked' = asked \union {"connect"} /\ UpdateConnectionStatus("connecting")
  /\ UNCHANGED <<workerVars, broadcasts, answer, panelOpen, shownTabs, rows, behind>>

ClickDisconnect ==
  /\ panelOpen /\ shownStatus \notin {"disconnected", "error"} /\ "disconnect" \notin asked
  /\ asked' = asked \union {"disconnect"}
  /\ UNCHANGED <<workerVars, broadcasts, answer, panelOpen, panelVars, behind>>

(* The button is disabled until the next status is shown. *)
ClickStop ==
  /\ panelOpen /\ stopEnabled /\ stopEnabled' = FALSE
  /\ UNCHANGED <<workerVars, broadcasts, answer, asked, panelOpen, shownStatus, shownTabs, rows, behind>>

Next ==
  \/ \E s \in Statuses : SetConnectionStatus(s)
  \/ RecordToolStart \/ \E i \in 1..MaxHistory : RecordToolComplete(i)
  \/ \E tabs \in SUBSET AutoTabs : ChangeTabs(tabs)
  \/ GetState \/ Connect \/ Disconnect \/ WorkerRestarts
  \/ OpenPanel \/ ClosePanel \/ Deliver \/ Answered
  \/ \E m \in {"get_state", "connect", "disconnect"} : MessageFails(m)
  \/ ClickConnect \/ ClickDisconnect \/ ClickStop

Spec == Init /\ [][Next]_vars

-----------------------------------------------------------------------------
(* When nothing is on its way, the open panel shows what the worker keeps,   *)
(* its newest entry at the top ("Prepend so newest is at top", index.ts): but*)
(* for what a broadcast that overtook the snapshot, a lost message or a new  *)
(* worker has left behind.                                                   *)
ShowsTheWorker ==
  (panelOpen /\ broadcasts = <<>> /\ answer = Nothing /\ asked = {}) =>
    /\ "status" \in behind \/ shownStatus = status
    /\ "tabs" \in behind \/ shownTabs = autoTabs
    /\ "history" \in behind \/ IsPrefix(Reverse(history), rows)

=============================================================================

------------------------ MODULE ServiceWorkerProofs -------------------------
(***************************************************************************)
(* Theorems of what the tools have in common in the service worker: of     *)
(* ToolRequests, the handling of their requests, and of DebuggerSession,   *)
(* the session with the tab that they share.                               *)
(***************************************************************************)
EXTENDS ToolRequests, DebuggerSession, TLAPS

-----------------------------------------------------------------------------
(***************************************************************************)
(* Theorems of ToolRequests, for any number of requests, tabs and scopes   *)
(* and any limit of the history.                                           *)
(*                                                                         *)
(* The answer of a request, its `completed' flag and its entry in the      *)
(* history are three records kept by different statements.  HandlerInv     *)
(* says how they follow from the phase of the request; neither             *)
(* AnsweredAtMostOnce nor RecordsAreTrue is inductive without it.  That a  *)
(* stop reaches the client that worked last needs besides that requests    *)
(* leave the router in the order in which they came (InOrder, LastWorkers).*)
(***************************************************************************)

(* Only a request inside the handler is in the Map or may be completed, and  *)
(* one that has not arrived was not answered.                                *)
Registered ==
  \A r \in Requests :
    /\ r \in activeRequests => phase[r] \in {"queued", "executing"}
    /\ phase[r] = "none" => r \notin completed /\ answer[r] = "none"

(* A stopped scope is one that a request came with.                          *)
Scoped == \A r \in Requests : phase[r] # "none" => scope[r] \in Scopes

(* The router's chain holds who has not left it, once each, and only its     *)
(* head executes.                                                            *)
TakeTurns ==
  /\ \A i \in DOMAIN routeQueue :
       /\ phase[routeQueue[i]] \in {"queued", "executing"}
       /\ phase[routeQueue[i]] = "executing" => i = 1
       /\ \A j \in DOMAIN routeQueue : routeQueue[i] = routeQueue[j] => i = j
  /\ \A r \in Requests :
       phase[r] \in {"queued", "executing"} => \E i \in DOMAIN routeQueue : routeQueue[i] = r

(* The history lists requests that have arrived.                             *)
Listed == \A i \in DOMAIN toolHistory : phase[toolHistory[i].request] # "none"

(* Requests arrive, and wait in the router's chain, in the order of their    *)
(* numbers.                                                                  *)
InOrder ==
  /\ \A r \in Requests, other \in Requests : phase[r] # "none" /\ other < r => phase[other] # "none"
  /\ \A i \in DOMAIN routeQueue, j \in DOMAIN routeQueue : i < j => routeQueue[i] < routeQueue[j]

(* What lastStopScopeByTab says of a tab: that scope is stopped, or it is    *)
(* that of the last request which still works in the tab, or none does.      *)
LastWorker(t, r) ==
  /\ target[r] = t /\ scope[r] = lastStopScopeByTab[t]
  /\ \A other \in activeRequests : target[other] = t => other <= r

LastWorkers ==
  \A t \in Tabs : lastStopScopeByTab[t] # NoScope =>
    \/ lastStopScopeByTab[t] \in stoppedScopes
    \/ \A r \in activeRequests : target[r] = t => r \in completed
    \/ \E r \in activeRequests \ completed : LastWorker(t, r)

HandlerInv ==
  /\ HandlerTypeOK
  /\ Registered /\ Scoped /\ TakeTurns /\ Listed
  /\ AnsweredAtMostOnce /\ RecordsAreTrue

Entries == [request : Requests, status : {"running", "success", "error"}]

LEMMA HandlerInitially == HandlerInit => HandlerInv
BY ToolRequestsAssumption
DEF HandlerInit, HandlerInv, HandlerTypeOK, Answers, Registered, Scoped, TakeTurns, Listed, AnsweredAtMostOnce, RecordsAreTrue,
    NoneForgotten, HistoryIsTrue

-----------------------------------------------------------------------------
(* What recordToolStart returns: the new entry, and entries it was given.    *)
LEMMA Starting ==
  ASSUME NEW h \in Seq(Entries), Len(h) <= MaxHistory, NEW r \in Requests
  PROVE  /\ recordToolStart(h, r) \in Seq(Entries)
         /\ Len(recordToolStart(h, r)) <= MaxHistory
         /\ \A i \in DOMAIN recordToolStart(h, r) :
              \/ recordToolStart(h, r)[i] = [request |-> r, status |-> "running"]
              \/ \E j \in DOMAIN h : recordToolStart(h, r)[i] = h[j]
<1> DEFINE e == [request |-> r, status |-> "running"]
           all == Append(h, e)
<1>1. e \in Entries
  BY DEF Entries
<1>2. /\ all \in Seq(Entries) /\ Len(all) = Len(h) + 1
      /\ \A i \in 1 .. Len(h) : all[i] = h[i]
      /\ all[Len(h) + 1] = e
  BY <1>1
<1>3. DOMAIN h = 1 .. Len(h) /\ Len(h) \in Nat
  OBVIOUS
<1> HIDE DEF e, all
<1>4. CASE Len(all) <= MaxHistory
  <2>1. recordToolStart(h, r) = all
    BY <1>4 DEF recordToolStart, all, e
  <2>2. DOMAIN all = 1 .. Len(h) + 1
    BY <1>2, <1>3
  <2>3. \A i \in DOMAIN all : all[i] = e \/ \E j \in DOMAIN h : all[i] = h[j]
    BY <1>2, <1>3, <2>2
  <2> QED BY <1>2, <1>4, <2>1, <2>3 DEF e
<1>5. CASE ~(Len(all) <= MaxHistory)
  <2>1. recordToolStart(h, r) = Tail(all)
    BY <1>5 DEF recordToolStart, all, e
  <2>2. /\ Tail(all) \in Seq(Entries) /\ Len(Tail(all)) = Len(h)
        /\ DOMAIN Tail(all) = 1 .. Len(h)
        /\ \A i \in 1 .. Len(h) : Tail(all)[i] = all[i + 1]
    BY <1>2, <1>3
  <2>3. \A i \in DOMAIN Tail(all) : Tail(all)[i] = e \/ \E j \in DOMAIN h : Tail(all)[i] = h[j]
    BY <1>2, <1>3, <2>2
  <2> QED BY <2>1, <2>2, <2>3 DEF e
<1> QED BY <1>4, <1>5

(* What recordToolComplete returns: the same entries, some with a status.    *)
LEMMA Completing ==
  ASSUME NEW h \in Seq(Entries), NEW rs, NEW status \in {"success", "error"}
  PROVE  /\ recordToolComplete(h, rs, status) \in Seq(Entries)
         /\ Len(recordToolComplete(h, rs, status)) = Len(h)
         /\ DOMAIN recordToolComplete(h, rs, status) = DOMAIN h
         /\ \A i \in DOMAIN h :
              /\ recordToolComplete(h, rs, status)[i].request = h[i].request
              /\ recordToolComplete(h, rs, status)[i].status =
                   IF h[i].request \in rs THEN status ELSE h[i].status
<1> DEFINE new == recordToolComplete(h, rs, status)
<1>1. DOMAIN h = 1 .. Len(h) /\ Len(h) \in Nat /\ \A i \in DOMAIN h : h[i] \in Entries
  OBVIOUS
<1>2. \A i \in DOMAIN h :
        /\ new[i] \in Entries
        /\ new[i].request = h[i].request
        /\ new[i].status = IF h[i].request \in rs THEN status ELSE h[i].status
  BY <1>1 DEF recordToolComplete, Entries
<1>3. new = [i \in 1 .. Len(h) |-> new[i]]
  BY <1>1 DEF recordToolComplete
<1>4. new \in Seq(Entries) /\ Len(new) = Len(h) /\ DOMAIN new = DOMAIN h
  BY <1>1, <1>2, <1>3
<1> QED BY <1>2, <1>4

(* Answers to requests that had none: nobody is answered twice, and exactly  *)
(* these are answered now.                                                   *)
LEMMA Answering ==
  ASSUME HandlerTypeOK, AnsweredAtMostOnce,
         NEW rs \in SUBSET Requests, \A r \in rs : answer[r] = "none",
         NEW what \in {"result", "stopped"}, answer' = sendResponse(answer, rs, what)
  PROVE  /\ answer' \in [Requests -> Answers]
         /\ AnsweredAtMostOnce'
         /\ \A r \in Requests : answer'[r] = "none" <=> (answer[r] = "none" /\ r \notin rs)
BY DEF HandlerTypeOK, Answers, AnsweredAtMostOnce, sendResponse

-----------------------------------------------------------------------------
(* The chain when a request enters it, and when its head leaves it.          *)
LEMMA Entering ==
  ASSUME HandlerInv, NEW r \in Requests, phase[r] = "none",
         phase' = [phase EXCEPT ![r] = "queued"], routeQueue' = Append(routeQueue, r)
  PROVE  routeQueue' \in Seq(Requests) /\ TakeTurns'
<1>1. routeQueue \in Seq(Requests) /\ phase \in [Requests -> {"none", "queued", "executing", "done"}]
  BY DEF HandlerInv, HandlerTypeOK
<1>2. /\ routeQueue' \in Seq(Requests)
      /\ DOMAIN routeQueue = 1 .. Len(routeQueue) /\ Len(routeQueue) \in Nat
      /\ DOMAIN routeQueue' = 1 .. Len(routeQueue) + 1
      /\ \A i \in DOMAIN routeQueue : routeQueue'[i] = routeQueue[i] /\ routeQueue[i] \in Requests
      /\ routeQueue'[Len(routeQueue) + 1] = r
  BY <1>1
<1>3. \A i \in DOMAIN routeQueue : routeQueue[i] # r
  BY DEF HandlerInv, TakeTurns
<1>4. \A i \in DOMAIN routeQueue' :
        i \in DOMAIN routeQueue \/ (i = Len(routeQueue) + 1 /\ routeQueue'[i] = r)
  BY <1>2
<1>5. \A i \in DOMAIN routeQueue' :
        /\ phase'[routeQueue'[i]] \in {"queued", "executing"}
        /\ phase'[routeQueue'[i]] = "executing" => i = 1
        /\ \A j \in DOMAIN routeQueue' : routeQueue'[i] = routeQueue'[j] => i = j
  BY <1>1, <1>2, <1>3, <1>4 DEF HandlerInv, TakeTurns
<1>6. \A q \in Requests :
        phase'[q] \in {"queued", "executing"} => \E i \in DOMAIN routeQueue' : routeQueue'[i] = q
  <2> SUFFICES ASSUME NEW q \in Requests, phase'[q] \in {"queued", "executing"}
               PROVE  \E i \in DOMAIN routeQueue' : routeQueue'[i] = q
    OBVIOUS
  <2>1. CASE q = r
    BY <1>2, <2>1
  <2>2. CASE q # r
    <3>1. PICK i \in DOMAIN routeQueue : routeQueue[i] = q
      BY <1>1, <2>2 DEF HandlerInv, TakeTurns
    <3> QED BY <1>2, <3>1
  <2> QED BY <2>1, <2>2
<1> QED BY <1>2, <1>5, <1>6 DEF TakeTurns

LEMMA Leaving ==
  ASSUME HandlerInv, NEW r \in Requests, phase[r] = "executing",
         phase' = [phase EXCEPT ![r] = "done"], routeQueue' = Tail(routeQueue)
  PROVE  routeQueue' \in Seq(Requests) /\ TakeTurns'
<1>1. routeQueue \in Seq(Requests) /\ phase \in [Requests -> {"none", "queued", "executing", "done"}]
  BY DEF HandlerInv, HandlerTypeOK
<1>2. 1 \in DOMAIN routeQueue /\ routeQueue[1] = r
  BY DEF HandlerInv, TakeTurns
<1>3. /\ routeQueue' \in Seq(Requests)
      /\ DOMAIN routeQueue = 1 .. Len(routeQueue) /\ Len(routeQueue) \in Nat
      /\ DOMAIN routeQueue' = 1 .. Len(routeQueue) - 1
      /\ \A i \in DOMAIN routeQueue' : routeQueue'[i] = routeQueue[i + 1]
  BY <1>1, <1>2
<1>4. \A i \in DOMAIN routeQueue' :
        /\ i + 1 \in DOMAIN routeQueue /\ i + 1 # 1 /\ i \in Nat \ {0}
        /\ routeQueue[i + 1] \in Requests \ {r}
        /\ phase'[routeQueue'[i]] = phase[routeQueue[i + 1]]
  BY <1>1, <1>2, <1>3 DEF HandlerInv, TakeTurns
<1>5. \A i \in DOMAIN routeQueue' :
        /\ phase'[routeQueue'[i]] \in {"queued", "executing"}
        /\ phase'[routeQueue'[i]] = "executing" => i = 1
        /\ \A j \in DOMAIN routeQueue' : routeQueue'[i] = routeQueue'[j] => i = j
  <2> SUFFICES ASSUME NEW i \in DOMAIN routeQueue'
               PROVE  /\ phase'[routeQueue'[i]] \in {"queued", "executing"}
                      /\ phase'[routeQueue'[i]] # "executing"
                      /\ \A j \in DOMAIN routeQueue' : routeQueue'[i] = routeQueue'[j] => i = j
    OBVIOUS
  <2>1. phase[routeQueue[i + 1]] \in {"queued", "executing"} /\ phase[routeQueue[i + 1]] # "executing"
    BY <1>4 DEF HandlerInv, TakeTurns
  <2>2. ASSUME NEW j \in DOMAIN routeQueue', routeQueue'[i] = routeQueue'[j] PROVE i = j
    <3>1. i + 1 = j + 1
      BY <1>3, <1>4, <2>2 DEF HandlerInv, TakeTurns
    <3> QED BY <1>4, <3>1
  <2> QED BY <1>4, <2>1, <2>2
<1>6. \A q \in Requests :
        phase'[q] \in {"queued", "executing"} => \E i \in DOMAIN routeQueue' : routeQueue'[i] = q
  <2> SUFFICES ASSUME NEW q \in Requests, phase'[q] \in {"queued", "executing"}
               PROVE  \E i \in DOMAIN routeQueue' : routeQueue'[i] = q
    OBVIOUS
  <2>1. q # r /\ phase[q] \in {"queued", "executing"}
    BY <1>1
  <2>2. PICK i \in DOMAIN routeQueue : routeQueue[i] = q
    BY <2>1 DEF HandlerInv, TakeTurns
  <2>3. i # 1 /\ i - 1 \in DOMAIN routeQueue' /\ (i - 1) + 1 = i
    BY <1>2, <1>3, <2>1, <2>2
  <2> QED BY <1>3, <2>2, <2>3
<1> QED BY <1>3, <1>5, <1>6 DEF TakeTurns

(* The arrival of a request, of a stopped client or not.                     *)
LEMMA ReceivePreserves ==
  ASSUME HandlerInv, NEW r \in Requests, NEW t \in Tabs \union {NoTab}, NEW s \in Scopes,
         Receive(r, t, s)
  PROVE  HandlerInv'
<1> DEFINE started == recordToolStart(toolHistory, r)
<1>1. toolHistory \in Seq(Entries) /\ Len(toolHistory) <= MaxHistory
  BY DEF HandlerInv, HandlerTypeOK, Entries
<1>2. /\ started \in Seq(Entries) /\ Len(started) <= MaxHistory
      /\ \A i \in DOMAIN started :
           \/ started[i] = [request |-> r, status |-> "running"]
           \/ \E j \in DOMAIN toolHistory : started[i] = toolHistory[j]
  BY <1>1, Starting
<1>3. /\ phase[r] = "none" /\ answer[r] = "none" /\ r \notin completed /\ r \notin activeRequests
  BY DEF Receive, HandlerInv, Registered
<1>4. \A i \in DOMAIN started :
        /\ started[i].request \in Requests
        /\ started[i].request = r => started[i].status = "running"
        /\ started[i].request # r =>
             /\ started[i].status = "running" <=> answer[started[i].request] = "none"
             /\ phase[started[i].request] # "none"
  <2> SUFFICES ASSUME NEW i \in DOMAIN started
               PROVE  /\ started[i].request \in Requests
                      /\ started[i].request = r => started[i].status = "running"
                      /\ started[i].request # r =>
                           /\ started[i].status = "running" <=> answer[started[i].request] = "none"
                           /\ phase[started[i].request] # "none"
    OBVIOUS
  <2>1. CASE started[i] = [request |-> r, status |-> "running"]
    BY <2>1
  <2>2. ASSUME NEW j \in DOMAIN toolHistory, started[i] = toolHistory[j]
        PROVE  /\ started[i].request \in Requests
               /\ phase[started[i].request] # "none"
               /\ started[i].status = "running" <=> answer[started[i].request] = "none"
    <3>1. toolHistory[j] \in Entries
      BY <1>1
    <3> QED BY <2>2, <3>1 DEF Entries, HandlerInv, Listed, RecordsAreTrue, HistoryIsTrue
  <2> QED BY <1>2, <1>3, <2>1, <2>2
<1> HIDE DEF started
<1>5. /\ target' \in [Requests -> Tabs \union {NoTab}]
      /\ scope' \in [Requests -> Scopes \union {NoScope}]
      /\ connected' \in BOOLEAN /\ stoppedScopes' \in SUBSET Scopes
  BY DEF Receive, HandlerInv, HandlerTypeOK
<1>6. scope' = [scope EXCEPT ![r] = s]
  BY DEF Receive
<1>7. CASE s \in stoppedScopes /\ phase' = [phase EXCEPT ![r] = "done"]
  <2>1. /\ toolHistory' = recordToolComplete(started, {r}, "error")
        /\ answer' = sendResponse(answer, {r}, "stopped")
        /\ UNCHANGED <<completed, activeRequests, routeQueue, lastStopScopeByTab>>
    BY <1>7 DEF Receive, started
  <2>2. /\ toolHistory' \in Seq(Entries) /\ Len(toolHistory') <= MaxHistory
        /\ DOMAIN toolHistory' = DOMAIN started
        /\ \A i \in DOMAIN started :
             /\ toolHistory'[i].request = started[i].request
             /\ toolHistory'[i].status =
                  IF started[i].request = r THEN "error" ELSE started[i].status
    BY <1>2, <2>1, Completing
  <2>3. /\ answer' \in [Requests -> Answers] /\ AnsweredAtMostOnce'
        /\ \A q \in Requests : answer'[q] = "none" <=> (answer[q] = "none" /\ q # r)
    BY <1>3, <2>1, Answering DEF HandlerInv
  <2>4. HistoryIsTrue' /\ Listed'
    <3>1. phase'[r] # "none" /\ \A q \in Requests : phase[q] # "none" => phase'[q] # "none"
      BY <1>7 DEF HandlerInv, HandlerTypeOK
    <3>2. Listed'
      BY <1>4, <2>2, <3>1 DEF Listed
    <3>3. \A i \in DOMAIN started :
            toolHistory'[i].status = "running" <=> answer'[toolHistory'[i].request] = "none"
      BY <1>4, <2>2, <2>3
    <3> QED BY <2>2, <3>2, <3>3 DEF HistoryIsTrue
  <2>5. HandlerTypeOK'
    BY <1>5, <1>7, <2>1, <2>2, <2>3 DEF HandlerInv, HandlerTypeOK, Entries
  <2>6. TakeTurns'
    BY <1>3, <1>7, <2>1 DEF HandlerInv, HandlerTypeOK, TakeTurns
  <2>7. Registered' /\ NoneForgotten' /\ Scoped'
    BY <1>3, <1>6, <1>7, <2>1, <2>3 DEF HandlerInv, HandlerTypeOK, Registered, Scoped, RecordsAreTrue, NoneForgotten
  <2> QED BY <2>3, <2>4, <2>5, <2>6, <2>7 DEF HandlerInv, RecordsAreTrue
<1>8. CASE s \notin stoppedScopes /\ phase' = [phase EXCEPT ![r] = "queued"]
  <2>1. /\ toolHistory' = started
        /\ lastStopScopeByTab' = Remembered(t, s)
        /\ activeRequests' = activeRequests \union {r}
        /\ routeQueue' = Append(routeQueue, r)
        /\ UNCHANGED <<completed, answer>>
    BY <1>8 DEF Receive, started
  <2>2. \A q \in Requests : phase[q] # "none" => phase'[q] # "none"
    BY <1>8 DEF HandlerInv, HandlerTypeOK
  <2>3. routeQueue' \in Seq(Requests) /\ TakeTurns'
    BY <1>3, <1>8, <2>1, Entering
  <2>4. HistoryIsTrue'
    BY <1>2, <1>3, <1>4, <2>1 DEF HistoryIsTrue
  <2>5. phase'[r] # "none"
    BY <1>8 DEF HandlerInv, HandlerTypeOK
  <2>6. Listed'
    BY <1>4, <2>1, <2>2, <2>5 DEF Listed
  <2>7. HandlerTypeOK'
    <3>1. lastStopScopeByTab' \in [Tabs -> Scopes \union {NoScope}]
      BY <2>1 DEF Remembered, HandlerInv, HandlerTypeOK
    <3> QED BY <1>2, <1>5, <1>8, <2>1, <2>3, <3>1 DEF HandlerInv, HandlerTypeOK, Entries
  <2>8. Registered' /\ NoneForgotten' /\ Scoped' /\ AnsweredAtMostOnce'
    BY <1>3, <1>6, <1>8, <2>1
    DEF HandlerInv, HandlerTypeOK, Registered, Scoped, RecordsAreTrue, NoneForgotten, AnsweredAtMostOnce
  <2> QED BY <2>3, <2>4, <2>6, <2>7, <2>8 DEF HandlerInv, RecordsAreTrue
<1> QED BY <1>7, <1>8 DEF Receive

(* Requests that were waiting for their answer get it, are marked as         *)
(* completed and no longer shown as running; phases may have moved on.       *)
LEMMA AnsweringPreserves ==
  ASSUME HandlerInv, NEW rs \in SUBSET Requests, NEW what \in {"result", "stopped"},
         NEW status \in {"success", "error"},
         \A r \in rs : phase[r] \in {"queued", "executing"} /\ r \notin completed,
         answer' = sendResponse(answer, rs, what),
         completed' = completed \union rs,
         toolHistory' = recordToolComplete(toolHistory, rs, status),
         phase' \in [Requests -> {"none", "queued", "executing", "done"}],
         \A r \in Requests :
           \/ phase'[r] = phase[r]
           \/ phase'[r] = "done" /\ r \in completed' /\ phase[r] = "executing"
  PROVE  /\ answer' \in [Requests -> Answers]
         /\ completed' \in SUBSET Requests
         /\ toolHistory' \in Seq(Entries) /\ Len(toolHistory') <= MaxHistory
         /\ AnsweredAtMostOnce' /\ Listed' /\ RecordsAreTrue'
         /\ \A r \in Requests : phase'[r] = "none" => r \notin completed' /\ answer'[r] = "none"
<1>1. \A r \in rs : answer[r] = "none"
  BY DEF HandlerInv, RecordsAreTrue, NoneForgotten, HandlerTypeOK, Answers
<1>2. /\ answer' \in [Requests -> Answers] /\ AnsweredAtMostOnce'
      /\ \A r \in Requests : answer'[r] = "none" <=> (answer[r] = "none" /\ r \notin rs)
  BY <1>1, Answering DEF HandlerInv
<1>3. toolHistory \in Seq(Entries) /\ Len(toolHistory) <= MaxHistory
  BY DEF HandlerInv, HandlerTypeOK, Entries
<1>4. /\ toolHistory' \in Seq(Entries) /\ Len(toolHistory') = Len(toolHistory)
      /\ DOMAIN toolHistory' = DOMAIN toolHistory
      /\ \A i \in DOMAIN toolHistory :
           /\ toolHistory'[i].request = toolHistory[i].request
           /\ toolHistory'[i].status =
                IF toolHistory[i].request \in rs THEN status ELSE toolHistory[i].status
  BY <1>3, Completing
<1>5. \A i \in DOMAIN toolHistory : toolHistory[i].request \in Requests
  <2>1. \A i \in DOMAIN toolHistory : toolHistory[i] \in Entries
    BY <1>3
  <2> QED BY <2>1 DEF Entries
<1>6. Listed'
  BY <1>4, <1>5 DEF Listed, HandlerInv
<1>7. HistoryIsTrue'
  BY <1>2, <1>3, <1>4, <1>5 DEF HistoryIsTrue, HandlerInv, RecordsAreTrue
<1>8. NoneForgotten'
  BY <1>2 DEF NoneForgotten, HandlerInv, RecordsAreTrue, Registered
<1>9. \A r \in Requests : phase'[r] = "none" => r \notin completed' /\ answer'[r] = "none"
  BY <1>2 DEF HandlerInv, Registered
<1> QED BY <1>2, <1>3, <1>4, <1>6, <1>7, <1>8, <1>9 DEF HandlerInv, HandlerTypeOK, RecordsAreTrue

LEMMA FinishPreserves ==
  ASSUME HandlerInv, NEW r \in Requests, Finish(r)
  PROVE  HandlerInv'
<1>1. /\ phase[r] = "executing" /\ phase' = [phase EXCEPT ![r] = "done"]
      /\ routeQueue' = Tail(routeQueue) /\ activeRequests' = activeRequests \ {r}
      /\ UNCHANGED <<connected, target, scope, stoppedScopes, lastStopScopeByTab>>
  BY DEF Finish, stops
<1>2. routeQueue' \in Seq(Requests) /\ TakeTurns'
  BY <1>1, Leaving
<1>3. CASE r \in completed
  <2>1. UNCHANGED <<completed, toolHistory, answer>>
    BY <1>3 DEF Finish
  <2> QED
    BY <1>1, <1>2, <1>3, <2>1
    DEF HandlerInv, HandlerTypeOK, Registered, Scoped, Listed, AnsweredAtMostOnce, RecordsAreTrue, NoneForgotten,
        HistoryIsTrue
<1>4. CASE r \notin completed
  <2>1. PICK status \in {"success", "error"} :
          toolHistory' = recordToolComplete(toolHistory, {r}, status)
    BY <1>4 DEF Finish
  <2>2. completed' = completed \union {r} /\ answer' = sendResponse(answer, {r}, "result")
    BY <1>4 DEF Finish
  <2>3. /\ phase' \in [Requests -> {"none", "queued", "executing", "done"}]
        /\ \A q \in Requests :
             \/ phase'[q] = phase[q]
             \/ phase'[q] = "done" /\ q \in completed' /\ phase[q] = "executing"
    BY <1>1, <2>2 DEF HandlerInv, HandlerTypeOK
  <2>4. /\ answer' \in [Requests -> Answers]
        /\ completed' \in SUBSET Requests
        /\ toolHistory' \in Seq(Entries) /\ Len(toolHistory') <= MaxHistory
        /\ AnsweredAtMostOnce' /\ Listed' /\ RecordsAreTrue'
        /\ \A q \in Requests : phase'[q] = "none" => q \notin completed' /\ answer'[q] = "none"
    <3>1. \A q \in {r} : phase[q] \in {"queued", "executing"} /\ q \notin completed
      BY <1>1, <1>4
    <3> QED BY <2>1, <2>2, <2>3, <3>1, AnsweringPreserves
  <2>5. Registered' /\ Scoped'
    BY <1>1, <2>4 DEF Registered, Scoped, HandlerInv, HandlerTypeOK
  <2>6. HandlerTypeOK'
    BY <1>1, <1>2, <2>3, <2>4 DEF HandlerInv, HandlerTypeOK, Entries
  <2> QED BY <1>2, <2>4, <2>5, <2>6 DEF HandlerInv
<1> QED BY <1>3, <1>4

LEMMA StopPreserves ==
  ASSUME HandlerInv, NEW t \in Tabs \union {NoTab}, Stop(t)
  PROVE  HandlerInv'
<1>1. UNCHANGED <<connected, target, scope, phase, activeRequests, routeQueue, lastStopScopeByTab>>
  BY DEF Stop
<1>2. /\ Reached(t) \subseteq Requests
      /\ \A r \in Reached(t) : phase[r] \in {"queued", "executing"} /\ r \notin completed
  BY DEF Reached, Stoppable, HandlerInv, HandlerTypeOK, Registered
<1>3. CASE Stoppable(t) # {}
  <2>1. /\ stoppedScopes' = stoppedScopes \union {scope[r] : r \in Reached(t)}
        /\ completed' = completed \union Reached(t)
        /\ toolHistory' = recordToolComplete(toolHistory, Reached(t), "error")
        /\ answer' = sendResponse(answer, Reached(t), "stopped")
    BY <1>3 DEF Stop
  <2>2. /\ answer' \in [Requests -> Answers]
        /\ completed' \in SUBSET Requests
        /\ toolHistory' \in Seq(Entries) /\ Len(toolHistory') <= MaxHistory
        /\ AnsweredAtMostOnce' /\ Listed' /\ RecordsAreTrue'
        /\ \A r \in Requests : phase'[r] = "none" => r \notin completed' /\ answer'[r] = "none"
    BY <1>1, <1>2, <2>1, AnsweringPreserves DEF HandlerInv, HandlerTypeOK
  <2>3. \A r \in Reached(t) : scope[r] \in Scopes
    BY <1>2 DEF HandlerInv, Scoped
  <2> QED
    BY <1>1, <2>1, <2>2, <2>3 DEF HandlerInv, HandlerTypeOK, Entries, Registered, Scoped, TakeTurns
<1>4. CASE Stoppable(t) = {}
  <2>1. UNCHANGED <<completed, toolHistory, answer>>
    BY <1>4 DEF Stop
  <2>2. stoppedScopes' \in SUBSET Scopes
    BY <1>4 DEF Stop, HandlerInv, HandlerTypeOK
  <2> QED
    BY <1>1, <2>1, <2>2
    DEF HandlerInv, HandlerTypeOK, Registered, Scoped, TakeTurns, Listed, AnsweredAtMostOnce, RecordsAreTrue,
        NoneForgotten, HistoryIsTrue
<1> QED BY <1>3, <1>4

LEMMA StepPreservesInv == HandlerInv /\ [HandlerNext]_handlerVars => HandlerInv'
<1> SUFFICES ASSUME HandlerInv, [HandlerNext]_handlerVars PROVE HandlerInv'
  OBVIOUS
<1>1. CASE \E r \in Requests, t \in Tabs \union {NoTab}, s \in Scopes : Receive(r, t, s)
  BY <1>1, ReceivePreserves
<1>2. ASSUME NEW r \in Requests, Route(r) PROVE HandlerInv'
  BY <1>2
  DEF Route, stops, HandlerInv, HandlerTypeOK, Registered, Scoped, TakeTurns, Listed, AnsweredAtMostOnce, RecordsAreTrue,
      NoneForgotten, HistoryIsTrue
<1>3. CASE \E r \in Requests : Finish(r)
  BY <1>3, FinishPreserves
<1>4. CASE \E t \in Tabs \union {NoTab} : Stop(t)
  BY <1>4, StopPreserves
<1>5. CASE ClearUserStop \/ ConnectionChanges \/ UNCHANGED handlerVars
  <2>1. UNCHANGED <<target, scope, phase, completed, routeQueue, activeRequests, toolHistory, answer>>
    BY <1>5 DEF ClearUserStop, ConnectionChanges, handlerVars, handling
  <2>2. /\ connected' \in BOOLEAN /\ stoppedScopes' \in SUBSET Scopes
        /\ lastStopScopeByTab' \in [Tabs -> Scopes \union {NoScope}]
    BY <1>5 DEF ClearUserStop, ConnectionChanges, handlerVars, stops, HandlerInv, HandlerTypeOK
  <2> QED
    BY <2>1, <2>2
    DEF HandlerInv, HandlerTypeOK, Registered, Scoped, TakeTurns, Listed, AnsweredAtMostOnce, RecordsAreTrue,
        NoneForgotten, HistoryIsTrue
<1> QED BY <1>1, <1>2, <1>3, <1>4, <1>5 DEF HandlerNext

LEMMA RequestsInvariance == HandlerSpec => []HandlerInv
<1> QED BY HandlerInitially, StepPreservesInv, PTL DEF HandlerSpec

(* Every variable of the handler is of its type, and the history is never    *)
(* longer than its limit.                                                    *)
THEOREM RequestTypes == HandlerSpec => []HandlerTypeOK
<1>1. HandlerInv => HandlerTypeOK
  BY DEF HandlerInv
<1> QED BY <1>1, RequestsInvariance, PTL

(* However results, stops and lost connections race, no request is answered  *)
(* twice (the `completed' flags of handleToolRequest and                     *)
(* stopActiveToolRequests).                                                  *)
THEOREM NoSecondAnswer == HandlerSpec => []AnsweredAtMostOnce
<1>1. HandlerInv => AnsweredAtMostOnce
  BY DEF HandlerInv
<1> QED BY <1>1, RequestsInvariance, PTL

(* No request leaves the handler without an answer or an attempt at one, and *)
(* the panel shows as running exactly what has none, also after a stop that  *)
(* fails half-way and with any number of entries dropped from the history.   *)
THEOREM HandlerRecordsAreTrue == HandlerSpec => []RecordsAreTrue
<1>1. HandlerInv => RecordsAreTrue
  BY DEF HandlerInv
<1> QED BY <1>1, RequestsInvariance, PTL

-----------------------------------------------------------------------------
LEMMA OrderIsKept ==
  ASSUME HandlerInv, InOrder, [HandlerNext]_handlerVars
  PROVE  InOrder'
<1>1. /\ phase \in [Requests -> {"none", "queued", "executing", "done"}]
      /\ routeQueue \in Seq(Requests) /\ Requests \subseteq Nat
  BY ToolRequestsAssumption DEF HandlerInv, HandlerTypeOK
<1>2. DOMAIN routeQueue = 1 .. Len(routeQueue) /\ Len(routeQueue) \in Nat
  BY <1>1
<1>3. ASSUME NEW r \in Requests, NEW t \in Tabs \union {NoTab}, NEW s \in Scopes, Receive(r, t, s)
      PROVE  InOrder'
  <2>1. /\ phase[r] = "none" /\ \A other \in Requests : other < r => phase[other] # "none"
        /\ phase' = [phase EXCEPT ![r] = "done"] \/ phase' = [phase EXCEPT ![r] = "queued"]
        /\ routeQueue' = routeQueue \/ routeQueue' = Append(routeQueue, r)
    BY <1>3 DEF Receive
  <2>2. \A q \in Requests, other \in Requests : phase'[q] # "none" /\ other < q => phase'[other] # "none"
    BY <1>1, <2>1 DEF InOrder
  <2>3. \A i \in DOMAIN routeQueue : routeQueue[i] \in Requests /\ routeQueue[i] < r
    <3>1. ASSUME NEW i \in DOMAIN routeQueue
          PROVE  routeQueue[i] \in Requests /\ routeQueue[i] < r
      <4> DEFINE q == routeQueue[i]
      <4>1. q \in Requests /\ phase[q] \in {"queued", "executing"}
        BY <1>1, <3>1 DEF HandlerInv, TakeTurns
      <4> HIDE DEF q
      <4>2. ~(r < q) /\ q # r /\ q \in Nat /\ r \in Nat
        BY <1>1, <2>1, <4>1 DEF InOrder
      <4>3. q < r
        BY <4>2
      <4> QED
        BY <4>1, <4>3 DEF q
    <3> QED
      BY <3>1
  <2>4. \A i \in DOMAIN routeQueue', j \in DOMAIN routeQueue' : i < j => routeQueue'[i] < routeQueue'[j]
    <3>1. CASE routeQueue' = routeQueue
      BY <3>1 DEF InOrder
    <3>2. CASE routeQueue' = Append(routeQueue, r)
      <4>1. /\ DOMAIN routeQueue' = 1 .. (Len(routeQueue) + 1) /\ routeQueue'[Len(routeQueue) + 1] = r
            /\ \A i \in 1 .. Len(routeQueue) : routeQueue'[i] = routeQueue[i]
        BY <1>1, <3>2
      <4>2. ASSUME NEW i \in DOMAIN routeQueue', NEW j \in DOMAIN routeQueue', i < j
            PROVE  routeQueue'[i] < routeQueue'[j]
        <5>1. i \in 1 .. Len(routeQueue)
          BY <1>2, <4>1, <4>2
        <5>2. CASE j \in 1 .. Len(routeQueue)
          BY <1>2, <4>1, <4>2, <5>1, <5>2 DEF InOrder
        <5>3. CASE j = Len(routeQueue) + 1
          BY <1>2, <2>3, <4>1, <5>1, <5>3
        <5> QED
          BY <1>2, <4>1, <5>2, <5>3
      <4> QED
        BY <4>2
    <3> QED
      BY <2>1, <3>1, <3>2
  <2> QED
    BY <2>2, <2>4 DEF InOrder
<1>4. ASSUME NEW r \in Requests, Route(r)
      PROVE  InOrder'
  <2>1. /\ phase[r] = "queued" /\ phase' = [phase EXCEPT ![r] = "executing"] /\ routeQueue' = routeQueue
    BY <1>4 DEF Route
  <2> QED
    BY <1>1, <2>1 DEF InOrder
<1>5. ASSUME NEW r \in Requests, Finish(r)
      PROVE  InOrder'
  <2>1. /\ phase[r] = "executing" /\ phase' = [phase EXCEPT ![r] = "done"] /\ routeQueue' = Tail(routeQueue)
    BY <1>5 DEF Finish
  <2>2. Len(routeQueue) >= 1
    BY <1>2, <2>1 DEF HandlerInv, TakeTurns
  <2>3. /\ DOMAIN routeQueue' = 1 .. (Len(routeQueue) - 1)
        /\ \A i \in 1 .. (Len(routeQueue) - 1) : routeQueue'[i] = routeQueue[i + 1]
    BY <1>1, <2>1, <2>2
  <2>4. ASSUME NEW i \in DOMAIN routeQueue', NEW j \in DOMAIN routeQueue', i < j
        PROVE  routeQueue'[i] < routeQueue'[j]
    <3>1. i + 1 \in DOMAIN routeQueue /\ j + 1 \in DOMAIN routeQueue /\ i + 1 < j + 1
      BY <1>2, <2>3, <2>4
    <3>2. routeQueue[i + 1] < routeQueue[j + 1]
      BY <3>1 DEF InOrder
    <3> QED
      BY <2>3, <3>2
  <2>5. \A q \in Requests, other \in Requests : phase'[q] # "none" /\ other < q => phase'[other] # "none"
    BY <1>1, <2>1 DEF InOrder
  <2> QED
    BY <2>4, <2>5 DEF InOrder
<1>6. CASE UNCHANGED <<phase, routeQueue>>
  BY <1>6 DEF InOrder
<1>7. (ClearUserStop \/ ConnectionChanges \/ (\E t \in Tabs \union {NoTab} : Stop(t)) \/ UNCHANGED handlerVars)
      => UNCHANGED <<phase, routeQueue>>
  BY DEF ClearUserStop, ConnectionChanges, Stop, handlerVars, handling
<1> QED
  BY <1>3, <1>4, <1>5, <1>6, <1>7 DEF HandlerNext

(* Whoever leaves the router came before all others who have not left.       *)
LEMMA FirstInFirstOut ==
  ASSUME HandlerInv, InOrder, NEW r \in Requests, phase[r] = "executing",
         NEW other \in activeRequests, other # r
  PROVE  r < other
<1>1. other \in Requests /\ phase[other] \in {"queued", "executing"} /\ Requests \subseteq Nat
  BY ToolRequestsAssumption DEF HandlerInv, HandlerTypeOK, Registered
<1>2. routeQueue \in Seq(Requests)
  BY DEF HandlerInv, HandlerTypeOK
<1>3. PICK i \in DOMAIN routeQueue : routeQueue[i] = r
  BY DEF HandlerInv, TakeTurns
<1>4. PICK j \in DOMAIN routeQueue : routeQueue[j] = other
  BY <1>1 DEF HandlerInv, TakeTurns
<1>5. i = 1 /\ j # 1
  BY <1>3, <1>4 DEF HandlerInv, TakeTurns
<1>6. i < j
  BY <1>2, <1>5
<1> QED
  BY <1>3, <1>4, <1>6 DEF InOrder

LEMMA LastWorkersAreKept ==
  ASSUME HandlerInv, InOrder, LastWorkers, [HandlerNext]_handlerVars
  PROVE  LastWorkers'
<1>1. /\ activeRequests \subseteq Requests /\ Requests \subseteq Nat /\ NoTab \notin Tabs
      /\ lastStopScopeByTab \in [Tabs -> Scopes \union {NoScope}]
      /\ target \in [Requests -> Tabs \union {NoTab}] /\ scope \in [Requests -> Scopes \union {NoScope}]
  BY ToolRequestsAssumption DEF HandlerInv, HandlerTypeOK
<1> USE DEF LastWorker
<1>2. ASSUME NEW r \in Requests, NEW t \in Tabs \union {NoTab}, NEW s \in Scopes, Receive(r, t, s)
      PROVE  LastWorkers'
  <2>1. /\ target' = [target EXCEPT ![r] = t] /\ scope' = [scope EXCEPT ![r] = s]
        /\ phase[r] = "none" /\ UNCHANGED <<stoppedScopes, completed>>
        /\ \/ UNCHANGED <<activeRequests, lastStopScopeByTab>>
           \/ activeRequests' = activeRequests \union {r} /\ lastStopScopeByTab' = Remembered(t, s)
    BY <1>2 DEF Receive
  <2>2. \A q \in activeRequests : q # r /\ target'[q] = target[q] /\ scope'[q] = scope[q] /\ q < r
    <3>1. ASSUME NEW q \in activeRequests
          PROVE  q # r /\ q < r
      <4>1. q \in Requests /\ phase[q] # "none" /\ q # r /\ ~(r < q) /\ q \in Nat /\ r \in Nat
        BY <1>1, <2>1 DEF HandlerInv, Registered, InOrder
      <4> QED
        BY <4>1
    <3> QED
      BY <1>1, <2>1, <3>1
  <2>3. target'[r] = t /\ scope'[r] = s /\ r \notin completed /\ r <= r /\ \A q \in activeRequests : q <= r
    <3>1. \A q \in activeRequests : q \in Nat /\ q < r
      BY <1>1, <2>2
    <3>2. r \notin completed
      BY <2>1 DEF HandlerInv, Registered
    <3> QED
      BY <1>1, <2>1, <3>1, <3>2
  <2>4. CASE UNCHANGED <<activeRequests, lastStopScopeByTab>>
    BY <2>1, <2>2, <2>4 DEF LastWorkers
  <2>5. CASE activeRequests' = activeRequests \union {r} /\ lastStopScopeByTab' = Remembered(t, s)
    <3>1. ASSUME NEW u \in Tabs, u = t, lastStopScopeByTab'[u] # NoScope
          PROVE  LastWorker(u, r)'
      <4>1. lastStopScopeByTab'[u] = s
        BY <1>1, <2>5, <3>1 DEF Remembered
      <4> QED
        BY <2>1, <2>2, <2>3, <2>5, <3>1, <4>1
    <3>2. ASSUME NEW u \in Tabs, u # t, lastStopScopeByTab'[u] # NoScope
          PROVE  /\ lastStopScopeByTab[u] # NoScope /\ lastStopScopeByTab'[u] = lastStopScopeByTab[u]
                 /\ (\A q \in activeRequests : target[q] = u => q \in completed)
                      => \A q \in activeRequests' : target'[q] = u => q \in completed'
                 /\ \A q \in activeRequests \ completed : LastWorker(u, q) => LastWorker(u, q)'
      <4>1. lastStopScopeByTab'[u] = lastStopScopeByTab[u]
        BY <1>1, <2>5, <3>2 DEF Remembered
      <4> QED
        BY <2>1, <2>2, <2>3, <2>5, <3>2, <4>1
    <3>3. r \in activeRequests' \ completed' /\ \A q \in activeRequests \ completed : q \in activeRequests' \ completed'
      BY <2>1, <2>3, <2>5
    <3> QED
      BY <2>1, <3>1, <3>2, <3>3 DEF LastWorkers
  <2> QED
    BY <2>1, <2>4, <2>5
<1>3. ASSUME NEW r \in Requests, Finish(r)
      PROVE  LastWorkers'
  <2>1. /\ phase[r] = "executing" /\ activeRequests' = activeRequests \ {r}
        /\ UNCHANGED <<target, scope, stoppedScopes, lastStopScopeByTab>>
        /\ completed' = completed \/ completed' = completed \union {r}
    BY <1>3 DEF Finish, stops
  <2>2. \A q \in activeRequests' : q \in activeRequests /\ q # r /\ ~(q <= r) /\ (q \in completed' <=> q \in completed)
    <3>1. ASSUME NEW q \in activeRequests, q # r
          PROVE  ~(q <= r)
      <4>1. r < q /\ r \in Nat /\ q \in Nat
        BY <1>1, <2>1, <3>1, FirstInFirstOut
      <4> QED
        BY <4>1
    <3> QED
      BY <2>1, <3>1
  <2>3. ASSUME NEW t \in Tabs, LastWorker(t, r)
        PROVE  \A q \in activeRequests' : target'[q] = t => q \in completed'
    BY <2>1, <2>2, <2>3
  <2>4. ASSUME NEW t \in Tabs, NEW q \in activeRequests \ completed, LastWorker(t, q), q # r
        PROVE  q \in activeRequests' \ completed' /\ LastWorker(t, q)'
    BY <2>1, <2>2, <2>4
  <2> QED
    BY <2>1, <2>2, <2>3, <2>4 DEF LastWorkers
<1>4. ASSUME NEW t \in Tabs \union {NoTab}, Stop(t)
      PROVE  LastWorkers'
  <2>1. /\ UNCHANGED <<target, scope, activeRequests, lastStopScopeByTab>>
        /\ \/ /\ stoppedScopes' = stoppedScopes \union {scope[q] : q \in Reached(t)}
              /\ completed' = completed \union Reached(t)
           \/ stoppedScopes \subseteq stoppedScopes' /\ completed' = completed
    BY <1>4 DEF Stop
  <2>2. stoppedScopes \subseteq stoppedScopes' /\ completed \subseteq completed'
    BY <2>1
  <2>3. ASSUME NEW u \in Tabs, NEW q \in activeRequests \ completed, LastWorker(u, q)
        PROVE  lastStopScopeByTab'[u] \in stoppedScopes' \/ (q \in activeRequests' \ completed' /\ LastWorker(u, q)')
    BY <2>1, <2>3
  <2> QED
    BY <2>1, <2>2, <2>3 DEF LastWorkers
<1>5. CASE ClearUserStop
  <2>1. \A t \in Tabs : lastStopScopeByTab'[t] = NoScope
    BY <1>5 DEF ClearUserStop
  <2> QED
    BY <2>1 DEF LastWorkers
<1>6. CASE ConnectionChanges \/ (\E r \in Requests : Route(r)) \/ UNCHANGED handlerVars
  <2>1. UNCHANGED <<target, scope, activeRequests, completed, stoppedScopes, lastStopScopeByTab>>
    BY <1>6 DEF ConnectionChanges, Route, handlerVars, handling, stops
  <2> QED
    BY <2>1 DEF LastWorkers
<1> QED
  BY <1>2, <1>3, <1>4, <1>5, <1>6 DEF HandlerNext

LEMMA OrderInvariance == HandlerSpec => [](InOrder /\ LastWorkers)
<1>1. HandlerInit => InOrder /\ LastWorkers
  BY DEF HandlerInit, InOrder, LastWorkers
<1> QED
  BY <1>1, OrderIsKept, LastWorkersAreKept, RequestsInvariance, PTL DEF HandlerSpec

(* The router carries out one request at a time, in the order in which they  *)
(* came, whatever is stopped meanwhile: the chain loses no request and none  *)
(* passes another (MessageRouter.route).                                     *)
THEOREM RequestsTakeTurns == HandlerSpec => [](TakeTurns /\ InOrder)
<1>1. HandlerInv => TakeTurns
  BY DEF HandlerInv
<1> QED BY <1>1, RequestsInvariance, OrderInvariance, PTL

(* A stop of a tab whose answers can be sent reaches the client that worked  *)
(* there last, whether it has requests left or not: lastStopScopeByTab, which*)
(* stopActiveToolRequests reads only when nothing is active, then names the  *)
(* scope of an active request or one that is stopped.                        *)
THEOREM StopReachesTheLastClient == HandlerSpec => StopReachesLastClient
<1> DEFINE Reaches == \A t \in Tabs :
             connected /\ Stop(t) /\ lastStopScopeByTab[t] # NoScope => lastStopScopeByTab[t] \in stoppedScopes'
<1>1. LastWorkers => Reaches
  <2> SUFFICES ASSUME LastWorkers, NEW t \in Tabs, connected, Stop(t), lastStopScopeByTab[t] # NoScope
               PROVE  lastStopScopeByTab[t] \in stoppedScopes'
    OBVIOUS
  <2>1. t # NoTab
    BY ToolRequestsAssumption
  <2>2. CASE Stoppable(t) = {}
    BY <2>1, <2>2 DEF Stop
  <2>3. CASE Stoppable(t) # {}
    <3>1. Reached(t) = Stoppable(t) /\ stoppedScopes' = stoppedScopes \union {scope[r] : r \in Stoppable(t)}
      BY <2>3 DEF Stop, Reached
    <3>2. PICK r \in activeRequests \ completed : target[r] = t
      BY <2>1, <2>3 DEF Stoppable
    <3>3. CASE lastStopScopeByTab[t] \in stoppedScopes
      BY <3>1, <3>3
    <3>4. ASSUME NEW q \in activeRequests \ completed, LastWorker(t, q)
          PROVE  lastStopScopeByTab[t] \in stoppedScopes'
      BY <3>1, <3>4 DEF LastWorker, Stoppable
    <3> QED
      BY <3>2, <3>3, <3>4 DEF LastWorkers
  <2> QED
    BY <2>2, <2>3
<1>2. [](InOrder /\ LastWorkers) => [][Reaches]_handlerVars
  BY <1>1, PTL
<1> QED
  BY <1>2, OrderInvariance DEF StopReachesLastClient

-----------------------------------------------------------------------------
(***************************************************************************)
(* Theorems of DebuggerSession, for any number of records, reattachments   *)
(* and restarts of the worker.                                             *)
(*                                                                         *)
(* A task that comes back from an await goes on with the record it had     *)
(* read.  Inv says what it may still rely on: in general that the record   *)
(* was made, and as long as there has been but one record, that it is the  *)
(* one there is.                                                           *)
(***************************************************************************)

(* What each task can wait for.  Without a restart nothing is restored.      *)
Phases ==
  /\ pc["tool"] \in {"none", "attach", "page", "use", "enable"}
  /\ pc["idle"] \in {"none", "detach"}
  /\ pc["reattach"] \in {"none", "get", "attach", "loop"}
  /\ pc["restore"] \in {"none", "read", "get", "targets", "attach", "page", "loop", "resume"}
  /\ restarts = 0 => pc["restore"] = "none"

(* Records are numbered as they are made, and what refers to one refers to   *)
(* one that was.                                                             *)
Numbered ==
  /\ connection.id \in 0..Len(attempts) /\ (~Known => connection = NoConnection)
  /\ \A i \in 1..Len(reattachTimers) : reattachTimers[i] \in 1..Len(attempts)
  /\ retrying \in 0..Len(attempts) /\ \A t \in Tasks : object[t] \in 0..Len(attempts)
  /\ pc["reattach"] # "none" => retrying # 0 /\ object["reattach"] # 0
  /\ pc["tool"] \in {"page", "enable"} => object["tool"] # 0
  /\ pc["idle"] = "detach" \/ subscribed => Len(attempts) # 0

(* There is room for the records that the tool and the restoration may make. *)
Restoring == pc["restore"] \in {"read", "get", "targets", "attach"}
Room ==
  /\ pc["tool"] = "attach" \/ Restoring => Len(attempts) < MaxConnections
  /\ pc["tool"] = "attach" /\ Restoring => Len(attempts) + 1 < MaxConnections

Closed == ~tabOpen => ~inChrome

(* An attached record without its interval has it coming, or is about to go. *)
Reviving ==
  connection.attached /\ orphans = {} /\ ~connection.keepalive =>
    \/ pc["tool"] = "page" \/ pc["restore"] = "page"
    \/ pc["idle"] = "detach" \/ pc["reattach"] = "loop"

(* With one record, Chrome's session is that of the record; a reattach on    *)
(* its way has neither been canceled nor overtaken.                          *)
Alone == FirstRecord =>
  /\ inChrome => connection.attached
  /\ canceled => ~Known
  /\ pc["reattach"] \in {"get", "attach"} =>
       /\ ~inChrome /\ ~canceled /\ (Known \/ ~tabOpen)
       /\ pc["tool"] \notin {"page", "enable"}
  /\ pc["idle"] = "detach" /\ Known => connection.attached /\ connection.userDetached

(* The Runtime domain of a subscribed tab is in the record, or the reattach  *)
(* has it yet to enable.                                                     *)
SubscriptionKept == FirstRecord /\ subscribed /\ Known /\ ~cutShort =>
  /\ \/ "Runtime" \in connection.domains
     \/ pc["reattach"] = "loop" /\ "Runtime" \in todo["reattach"]
  /\ pc["reattach"] \in {"get", "attach"} => "Runtime" \in todo["reattach"]

Uncut == FirstRecord /\ pc["reattach"] = "loop" /\ Known /\ ~cutShort => connection.attached

Inv ==
  /\ TypeOK /\ Phases /\ Numbered /\ Room
  /\ RecordIsTrue /\ Closed /\ DomainsAreLive /\ Reviving
  /\ Alone /\ SubscriptionKept /\ Uncut

-----------------------------------------------------------------------------
Records == [id : 0..MaxConnections, attached : BOOLEAN, domains : SUBSET Domains,
            keepalive : BOOLEAN, userDetached : BOOLEAN]
Steps == {"none", "read", "get", "targets", "attach", "detach", "page", "use", "enable",
          "loop", "resume"}

LEMMA Initially == Init => Inv
<1> SUFFICES ASSUME Init PROVE Inv
  OBVIOUS
<1>1. /\ <<>> \in Seq(Tasks) /\ <<>> \in Seq(0..MaxReattachAttempts)
      /\ <<>> \in Seq(Ids) /\ Len(<<>>) = 0
  OBVIOUS
<1>2. /\ \A t \in Tasks : pc[t] = "none" /\ object[t] = 0
      /\ "tool" \in Tasks /\ "idle" \in Tasks /\ "reattach" \in Tasks /\ "restore" \in Tasks
  BY DEF Init, Tasks
<1>3. TypeOK
  <2>1. /\ calls \in Seq(Tasks) /\ attempts \in Seq(0..MaxReattachAttempts)
        /\ Len(attempts) <= MaxConnections /\ reattachTimers \in Seq(Ids)
    BY <1>1, DebuggerSessionAssumption DEF Init
  <2>2. connection \in Records /\ stored \in [listed : BOOLEAN, domains : SUBSET Domains]
    BY DebuggerSessionAssumption DEF Init, Records, NoConnection, NotStored
  <2>3. /\ pc \in [Tasks -> Steps]
        /\ object \in [Tasks -> 0..MaxConnections] /\ todo \in [Tasks -> SUBSET Domains]
        /\ retrying \in 0..MaxConnections /\ restarts \in 0..MaxRestarts
    BY DebuggerSessionAssumption DEF Init, Steps
  <2>. QED
    BY <2>1, <2>2, <2>3 DEF Init, TypeOK, Records, Steps
<1>4. Phases /\ Numbered
  BY <1>1, <1>2 DEF Init, Phases, Numbered, Known, NoConnection, Tasks
<1>5. Room
  BY <1>1, <1>2, DebuggerSessionAssumption DEF Init, Room, Restoring
<1>6. RecordIsTrue /\ Closed /\ DomainsAreLive /\ Reviving /\ Alone /\ SubscriptionKept /\ Uncut
  BY <1>2 DEF Init, RecordIsTrue, Closed, DomainsAreLive, Reviving, Alone, SubscriptionKept, Uncut,
     Known, NoConnection
<1>. QED
  BY <1>3, <1>4, <1>5, <1>6 DEF Inv

(* Calls go in and out of Chrome's queue, and lengths are numbers. *)
LEMMA Queued ==
  ASSUME TypeOK
  PROVE  /\ \A t \in Tasks : Append(calls, t) \in Seq(Tasks)
         /\ calls # <<>> =>
              /\ Tail(calls) \in Seq(Tasks)
              /\ \A t \in Tasks : Append(Tail(calls), t) \in Seq(Tasks)
         /\ Len(attempts) \in Nat /\ MaxConnections \in Nat
<1>1. calls \in Seq(Tasks) /\ attempts \in Seq(0..MaxReattachAttempts)
  BY DEF TypeOK
<1>. QED
  BY <1>1, DebuggerSessionAssumption

-----------------------------------------------------------------------------
LEMMA AttachedKnown ==
  ASSUME Inv
  PROVE  /\ connection.attached \/ connection.keepalive => Known
         /\ Known => connection.id \in 1..Len(attempts)
BY Queued DEF Inv, Numbered, NoConnection, Known

(* A record that leaves the map, and the one that is left behind.            *)
LEMMA NoRecord ==
  ASSUME Inv
  PROVE  /\ NoConnection \in Records /\ NoConnection.id = 0 /\ ~NoConnection.attached
         /\ ~NoConnection.keepalive /\ NotStored \in [listed : BOOLEAN, domains : SUBSET Domains]
         /\ orphans \union Orphan \in SUBSET Ids
<1>1. /\ NoConnection \in Records /\ NoConnection.id = 0 /\ ~NoConnection.attached
      /\ ~NoConnection.keepalive /\ NotStored \in [listed : BOOLEAN, domains : SUBSET Domains]
  BY DebuggerSessionAssumption DEF NoConnection, NotStored, Records
<1>2. Known => connection.id \in Ids
  BY AttachedKnown, Queued DEF Inv, TypeOK, Ids
<1>3. orphans \union Orphan \in SUBSET Ids
  BY <1>2 DEF Inv, TypeOK, Orphan
<1>. QED
  BY <1>1, <1>3

LEMMA StartToolPreservesInv ==
  ASSUME Inv, NEW kind \in Tools, StartTool(kind)
  PROVE  Inv'
<1>1. /\ pc["tool"] = "none" /\ tabOpen
      /\ tool' = kind /\ attachedForCall' = FALSE
      /\ idleTimer' = (idleTimer /\ kind # "computer")
      /\ UNCHANGED <<tabOpen, inChrome, live, stored, connection, attempts, reattachTimers,
                     orphans, subscribed, object, retrying, todo, canceled, refused, cutShort,
                     restarts>>
      /\ kind \in {"computer", "console"}
  BY DebuggerSessionAssumption DEF StartTool, manager, observed
<1>2. \/ /\ connection.attached /\ pc' = [pc EXCEPT !["tool"] = "use"] /\ calls' = calls
      \/ /\ ~connection.attached /\ pc' = [pc EXCEPT !["tool"] = "attach"]
         /\ calls' = Append(calls, "tool")
         /\ Len(attempts) + (IF pc["restore"] = "none" THEN 0 ELSE 1) < MaxConnections
  BY DEF StartTool, Goto, Call
<1>3. /\ pc'["tool"] \in {"use", "attach"} /\ pc'["idle"] = pc["idle"]
      /\ pc'["reattach"] = pc["reattach"] /\ pc'["restore"] = pc["restore"]
  BY <1>2 DEF Inv, TypeOK, Tasks
<1>4. TypeOK'
  <2>1. calls' \in Seq(Tasks)
    BY <1>2, Queued DEF Inv, TypeOK, Tasks
  <2>2. pc' \in [Tasks -> Steps]
    BY <1>2 DEF Inv, TypeOK, Steps
  <2>. QED
    BY <1>1, <2>1, <2>2 DEF Inv, TypeOK, Steps
<1>5. Phases' /\ Numbered'
  BY <1>1, <1>3 DEF Inv, Phases, Numbered, Known
<1>6. Room'
  BY <1>1, <1>2, <1>3, Queued DEF Inv, TypeOK, Tasks, Room, Restoring
<1>7. /\ RecordIsTrue' /\ Closed' /\ DomainsAreLive' /\ Reviving'
      /\ Alone' /\ SubscriptionKept' /\ Uncut'
  BY <1>1, <1>3 DEF Inv, RecordIsTrue, Closed, DomainsAreLive, Reviving, Alone, SubscriptionKept,
     Uncut, FirstRecord, Known
<1>. QED
  BY <1>4, <1>5, <1>6, <1>7 DEF Inv

LEMMA AttachRefusedPreservesInv ==
  ASSUME Inv, NEW t \in Tasks, AttachRefused(t)
  PROVE  Inv'
<1>1. /\ t \in {"tool", "restore"} /\ pc[t] = "attach"
      /\ pc' = [pc EXCEPT ![t] = "none"]
      /\ calls # <<>> /\ calls' = Tail(calls)
      /\ UNCHANGED <<tabOpen, inChrome, live, stored, connection, attempts, reattachTimers,
                     orphans, tool, attachedForCall, idleTimer, subscribed, object, retrying,
                     todo, canceled, refused, cutShort, restarts>>
  BY DebuggerSessionAssumption, Queued DEF AttachRefused, Replied, Answered, Goto, manager, tools, observed
<1>2. /\ \/ pc["tool"] = "attach" /\ pc'["tool"] = "none" /\ pc'["restore"] = pc["restore"]
         \/ pc["restore"] = "attach" /\ pc'["restore"] = "none" /\ pc'["tool"] = pc["tool"]
      /\ pc'["idle"] = pc["idle"] /\ pc'["reattach"] = pc["reattach"]
  BY <1>1 DEF Inv, TypeOK, Tasks
<1>3. TypeOK'
  BY <1>1, Queued DEF Inv, TypeOK, Tasks
<1>4. Phases' /\ Numbered'
  BY <1>1, <1>2 DEF Inv, Phases, Numbered, Known
<1>5. Room'
  BY <1>1, <1>2, Queued DEF Inv, TypeOK, Tasks, Room, Restoring
<1>6. /\ RecordIsTrue' /\ Closed' /\ DomainsAreLive' /\ Reviving'
      /\ Alone' /\ SubscriptionKept' /\ Uncut'
  BY <1>1, <1>2 DEF Inv, RecordIsTrue, Closed, DomainsAreLive, Reviving, Alone, SubscriptionKept,
     Uncut, FirstRecord, Known
<1>. QED
  BY <1>3, <1>4, <1>5, <1>6 DEF Inv

LEMMA PageRepliedPreservesInv ==
  ASSUME Inv, PageReplied
  PROVE  Inv'
<1>1. /\ pc["tool"] = "page" /\ pc' = [pc EXCEPT !["tool"] = "use"]
      /\ live' = (IF inChrome THEN live \union {"Page"} ELSE live)
      /\ connection' \in Records /\ connection'.id = connection.id
      /\ connection'.attached = connection.attached
      /\ connection'.userDetached = connection.userDetached
      /\ connection'.domains \in {connection.domains, connection.domains \union {"Page"}}
      /\ Known => connection'.keepalive
      /\ ~Known => connection' = connection
      /\ stored' \in [listed : BOOLEAN, domains : SUBSET Domains]
      /\ attachedForCall' \in BOOLEAN
      /\ UNCHANGED <<tabOpen, inChrome, calls, attempts, reattachTimers, orphans, tool,
                     idleTimer, subscribed, object, retrying, todo, canceled, refused, cutShort,
                     restarts>>
  BY DebuggerSessionAssumption, Queued DEF Inv, TypeOK, PageReplied, Takes, startKeepalive, Marked, Holds, Known, persistState, Goto,
     NotStored, Records, Domains, Tasks, observed
<1>2. /\ pc'["tool"] = "use"
      /\ pc'["idle"] = pc["idle"] /\ pc'["reattach"] = pc["reattach"] /\ pc'["restore"] = pc["restore"]
  BY <1>1 DEF Inv, TypeOK, Tasks
<1>3. TypeOK'
  BY <1>1, Queued DEF Inv, TypeOK, Tasks, Records, Domains
<1>4. Phases' /\ Numbered'
  BY <1>1, <1>2 DEF Inv, Phases, Numbered, Known
<1>5. Room'
  BY <1>1, <1>2, Queued DEF Inv, TypeOK, Tasks, Room, Restoring
<1>6. /\ RecordIsTrue' /\ Closed' /\ DomainsAreLive' /\ Reviving'
      /\ Alone' /\ SubscriptionKept' /\ Uncut'
  BY <1>1, <1>2, AttachedKnown DEF Inv, RecordIsTrue, Closed, DomainsAreLive, Reviving, Alone, SubscriptionKept,
     Uncut, FirstRecord, Known
<1>. QED
  BY <1>3, <1>4, <1>5, <1>6 DEF Inv

LEMMA ComputerEndsPreservesInv ==
  ASSUME Inv, ComputerEnds
  PROVE  Inv'
<1>1. /\ pc["tool"] = "use" /\ pc' = [pc EXCEPT !["tool"] = "none"]
      /\ idleTimer' \in BOOLEAN
      /\ UNCHANGED <<tabOpen, inChrome, live, calls, stored, connection, attempts,
                     reattachTimers, orphans, tool, attachedForCall, subscribed, object,
                     retrying, todo, canceled, refused, cutShort, restarts>>
  BY DebuggerSessionAssumption, Queued DEF Inv, TypeOK, ComputerEnds, Goto, chrome, manager, observed
<1>2. /\ pc'["tool"] = "none"
      /\ pc'["idle"] = pc["idle"] /\ pc'["reattach"] = pc["reattach"] /\ pc'["restore"] = pc["restore"]
  BY <1>1 DEF Inv, TypeOK, Tasks
<1>3. TypeOK'
  BY <1>1, Queued DEF Inv, TypeOK, Tasks
<1>4. Phases' /\ Numbered'
  BY <1>1, <1>2 DEF Inv, Phases, Numbered, Known
<1>5. Room'
  BY <1>1, <1>2, Queued DEF Inv, TypeOK, Tasks, Room, Restoring
<1>6. /\ RecordIsTrue' /\ Closed' /\ DomainsAreLive' /\ Reviving'
      /\ Alone' /\ SubscriptionKept' /\ Uncut'
  BY <1>1, <1>2 DEF Inv, RecordIsTrue, Closed, DomainsAreLive, Reviving, Alone, SubscriptionKept,
     Uncut, FirstRecord, Known
<1>. QED
  BY <1>3, <1>4, <1>5, <1>6 DEF Inv

LEMMA ConsoleAsksPreservesInv ==
  ASSUME Inv, ConsoleSubscribes, pc'["tool"] = "enable"
  PROVE  Inv'
<1>1. /\ pc["tool"] = "use" /\ pc' = [pc EXCEPT !["tool"] = "enable"]
      /\ connection.attached /\ Known /\ object' = [object EXCEPT !["tool"] = connection.id]
      /\ UNCHANGED <<tabOpen, inChrome, live, calls, stored, connection, attempts,
                     reattachTimers, orphans, tool, attachedForCall, idleTimer,
                     subscribed, retrying, todo, canceled, refused, cutShort,
                     restarts>>
  BY Queued, AttachedKnown DEF Inv, TypeOK, Tasks, ConsoleSubscribes, Goto, chrome,
     manager, observed
<1>2. /\ pc'["tool"] = "enable"
      /\ pc'["idle"] = pc["idle"] /\ pc'["reattach"] = pc["reattach"] /\ pc'["restore"] = pc["restore"]
      /\ object'["tool"] = connection.id /\ object'["reattach"] = object["reattach"]
  BY <1>1 DEF Inv, TypeOK, Tasks
<1>3. TypeOK'
  BY <1>1, Queued DEF Inv, TypeOK, Tasks
<1>4. Phases' /\ Numbered'
  BY <1>1, <1>2, AttachedKnown, Queued DEF Inv, TypeOK, Tasks, Phases, Numbered, Known
<1>5. Room'
  BY <1>1, <1>2, Queued DEF Inv, TypeOK, Tasks, Room, Restoring
<1>6. /\ RecordIsTrue' /\ Closed' /\ DomainsAreLive' /\ Reviving'
      /\ Alone' /\ SubscriptionKept' /\ Uncut'
  BY <1>1, <1>2, AttachedKnown DEF Inv, RecordIsTrue, Closed, DomainsAreLive, Reviving, Alone, SubscriptionKept,
     Uncut, FirstRecord, Known
<1>. QED
  BY <1>3, <1>4, <1>5, <1>6 DEF Inv

LEMMA ConsoleGoesOnPreservesInv ==
  ASSUME Inv, ConsoleSubscribes, pc'["tool"] # "enable"
  PROVE  Inv'
<1>1. /\ pc["tool"] = "use" /\ pc' = [pc EXCEPT !["tool"] = "none"]
      /\ subscribed' \in BOOLEAN
      /\ subscribed' => subscribed \/ (connection.attached /\ Known /\ "Runtime" \in connection.domains)
      /\ UNCHANGED <<tabOpen, inChrome, live, calls, stored, connection, attempts,
                     reattachTimers, orphans, tool, attachedForCall, idleTimer,
                     object, retrying, todo, canceled, refused, cutShort, restarts>>
  BY Queued, AttachedKnown DEF Inv, TypeOK, Tasks, ConsoleSubscribes, Goto, chrome,
     manager, observed
<1>2. /\ pc'["tool"] = "none"
      /\ pc'["idle"] = pc["idle"] /\ pc'["reattach"] = pc["reattach"] /\ pc'["restore"] = pc["restore"]
  BY <1>1 DEF Inv, TypeOK, Tasks
<1>3. TypeOK'
  BY <1>1, Queued DEF Inv, TypeOK, Tasks
<1>4. Phases' /\ Numbered'
  BY <1>1, <1>2, AttachedKnown, Queued DEF Inv, Phases, Numbered, Known
<1>5. Room'
  BY <1>1, <1>2, Queued DEF Inv, TypeOK, Tasks, Room, Restoring
<1>6. /\ RecordIsTrue' /\ Closed' /\ DomainsAreLive' /\ Reviving'
      /\ Alone' /\ SubscriptionKept' /\ Uncut'
  BY <1>1, <1>2, AttachedKnown DEF Inv, RecordIsTrue, Closed, DomainsAreLive, Reviving, Alone, SubscriptionKept,
     Uncut, FirstRecord, Known
<1>. QED
  BY <1>3, <1>4, <1>5, <1>6 DEF Inv

LEMMA RuntimeRepliedPreservesInv ==
  ASSUME Inv, RuntimeReplied
  PROVE  Inv'
<1>1. /\ pc["tool"] = "enable" /\ pc' = [pc EXCEPT !["tool"] = "none"]
      /\ live' = IF inChrome THEN live \union {"Runtime"} ELSE live
      /\ connection' \in Records /\ connection'.id = connection.id
      /\ connection'.attached = connection.attached /\ connection'.keepalive = connection.keepalive
      /\ connection'.userDetached = connection.userDetached
      /\ connection'.domains \in {connection.domains, connection.domains \union {"Runtime"}}
      /\ Holds("tool") => "Runtime" \in connection'.domains
      /\ ~Known => connection' = connection
      /\ subscribed' = TRUE
      /\ UNCHANGED <<tabOpen, inChrome, calls, stored, attempts, reattachTimers,
                     orphans, tool, attachedForCall, idleTimer, object, retrying,
                     todo, canceled, refused, cutShort, restarts>>
  BY Queued, AttachedKnown DEF Inv, TypeOK, Tasks, Records, Domains, RuntimeReplied,
     Takes, Marked, Holds, Known, Goto, observed
<1>2. /\ pc'["tool"] = "none"
      /\ pc'["idle"] = pc["idle"] /\ pc'["reattach"] = pc["reattach"] /\ pc'["restore"] = pc["restore"]
  BY <1>1 DEF Inv, TypeOK, Tasks
<1>3. TypeOK'
  BY <1>1 DEF Inv, TypeOK, Tasks, Records, Domains
<1>4. Phases' /\ Numbered'
  <2>1. Len(attempts) # 0
    BY <1>1, Queued DEF Inv, Numbered, Tasks
  <2>. QED
    BY <1>1, <1>2, <2>1 DEF Inv, Phases, Numbered, Known
<1>5. Room'
  BY <1>1, <1>2, Queued DEF Inv, TypeOK, Tasks, Room, Restoring
<1>6. /\ RecordIsTrue' /\ Closed' /\ DomainsAreLive' /\ Reviving'
      /\ Alone' /\ SubscriptionKept' /\ Uncut'
  <2>1. FirstRecord' /\ Known' => FirstRecord /\ Holds("tool")
    BY <1>1, AttachedKnown, Queued DEF Inv, TypeOK, Tasks, Numbered, FirstRecord, Holds, Known
  <2>2. RecordIsTrue' /\ Closed' /\ DomainsAreLive' /\ Reviving'
    BY <1>1, <1>2 DEF Inv, RecordIsTrue, Closed, DomainsAreLive, Reviving
  <2>3. Alone' /\ SubscriptionKept' /\ Uncut'
    BY <1>1, <1>2, <2>1 DEF Inv, Alone, SubscriptionKept, Uncut, FirstRecord, Known
  <2>. QED
    BY <2>2, <2>3
<1>. QED
  BY <1>3, <1>4, <1>5, <1>6 DEF Inv

LEMMA IdlePreservesInv ==
  ASSUME Inv, IdleDetach, pc'["idle"] = "detach"
  PROVE  Inv'
<1>1. /\ pc["idle"] = "none" /\ pc' = [pc EXCEPT !["idle"] = "detach"] /\ connection.attached
      /\ idleTimer' = FALSE /\ calls' = Append(calls, "idle")
      /\ connection' \in Records /\ connection'.id = connection.id
      /\ connection'.attached /\ connection'.userDetached /\ connection'.domains = connection.domains
      /\ UNCHANGED <<tabOpen, inChrome, live, stored, attempts, reattachTimers,
                     orphans, tool, attachedForCall, subscribed, object, retrying,
                     todo, canceled, refused, cutShort, restarts>>
  BY Queued, AttachedKnown DEF Inv, TypeOK, Records, IdleDetach, Call, Goto, observed
<1>2. /\ pc'["idle"] = "detach"
      /\ pc'["tool"] = pc["tool"] /\ pc'["reattach"] = pc["reattach"] /\ pc'["restore"] = pc["restore"]
  BY <1>1 DEF Inv, TypeOK, Tasks
<1>3. TypeOK'
  BY <1>1, Queued DEF Inv, TypeOK, Tasks, Records
<1>4. Phases' /\ Numbered'
  BY <1>1, <1>2, AttachedKnown, Queued DEF Inv, Phases, Numbered, Known
<1>5. Room'
  BY <1>1, <1>2, Queued DEF Inv, TypeOK, Tasks, Room, Restoring
<1>6. /\ RecordIsTrue' /\ Closed' /\ DomainsAreLive' /\ Reviving'
      /\ Alone' /\ SubscriptionKept' /\ Uncut'
  BY <1>1, <1>2, AttachedKnown DEF Inv, RecordIsTrue, Closed, DomainsAreLive, Reviving, Alone, SubscriptionKept,
     Uncut, FirstRecord, Known
<1>. QED
  BY <1>3, <1>4, <1>5, <1>6 DEF Inv

LEMMA IdleNotPreservesInv ==
  ASSUME Inv, IdleDetach, pc'["idle"] # "detach"
  PROVE  Inv'
<1>1. /\ idleTimer' \in BOOLEAN
      /\ UNCHANGED <<tabOpen, inChrome, live, calls, stored, connection, attempts,
                     reattachTimers, orphans, tool, attachedForCall, subscribed, pc,
                     object, retrying, todo, canceled, refused, cutShort, restarts>>
  BY Queued, AttachedKnown DEF Inv, TypeOK, Tasks, IdleDetach, Call, Goto, observed
<1>2. pc' = pc
  BY <1>1 DEF Inv, TypeOK, Tasks
<1>3. TypeOK'
  BY <1>1 DEF Inv, TypeOK, Records
<1>4. Phases' /\ Numbered'
  BY <1>1, <1>2, AttachedKnown DEF Inv, Phases, Numbered, Known
<1>5. Room'
  BY <1>1, <1>2, Queued DEF Inv, TypeOK, Tasks, Room, Restoring
<1>6. /\ RecordIsTrue' /\ Closed' /\ DomainsAreLive' /\ Reviving'
      /\ Alone' /\ SubscriptionKept' /\ Uncut'
  BY <1>1, <1>2, AttachedKnown DEF Inv, RecordIsTrue, Closed, DomainsAreLive, Reviving, Alone, SubscriptionKept,
     Uncut, FirstRecord, Known
<1>. QED
  BY <1>3, <1>4, <1>5, <1>6 DEF Inv

LEMMA DetachRepliedPreservesInv ==
  ASSUME Inv, DetachReplied
  PROVE  Inv'
<1>1. /\ pc["idle"] = "detach" /\ pc' = [pc EXCEPT !["idle"] = "none"]
      /\ calls # <<>> /\ calls' = Tail(calls)
      /\ inChrome' = FALSE /\ live' = {}
      /\ connection' = NoConnection /\ orphans' = orphans \union Orphan /\ stored' = NotStored
      /\ UNCHANGED <<tabOpen, attempts, reattachTimers, tool, attachedForCall,
                     idleTimer, subscribed, object, retrying, todo, canceled, refused,
                     cutShort, restarts>>
  BY Queued, AttachedKnown DEF DetachReplied, Replied, Answered, Goto, Dropped, tools,
     observed
<1>2. /\ pc'["idle"] = "none"
      /\ pc'["tool"] = pc["tool"] /\ pc'["reattach"] = pc["reattach"] /\ pc'["restore"] = pc["restore"]
  BY <1>1 DEF Inv, TypeOK, Tasks
<1>3. TypeOK'
  <2>1. /\ pc' \in [Tasks -> Steps] /\ calls' \in Seq(Tasks)
        /\ connection' \in Records /\ stored' \in [listed : BOOLEAN, domains : SUBSET Domains]
        /\ orphans' \in SUBSET Ids
    BY <1>1, Queued, NoRecord DEF Inv, TypeOK, Steps
  <2>. QED
    BY <1>1, <2>1 DEF Inv, TypeOK, Records, Steps
<1>4. Phases' /\ Numbered'
  BY <1>1, <1>2, NoRecord DEF Inv, Phases, Numbered, Known
<1>5. Room'
  BY <1>1, <1>2, Queued DEF Inv, TypeOK, Tasks, Room, Restoring
<1>6. /\ RecordIsTrue' /\ Closed' /\ DomainsAreLive' /\ Reviving'
      /\ Alone' /\ SubscriptionKept' /\ Uncut'
  BY <1>1, <1>2, NoRecord DEF Inv, RecordIsTrue, Closed, DomainsAreLive, Reviving, Alone, SubscriptionKept,
     Uncut, FirstRecord, Known
<1>. QED
  BY <1>3, <1>4, <1>5, <1>6 DEF Inv

-----------------------------------------------------------------------------
(* A timer that is set, and one that fires. *)
LEMMA Timers ==
  ASSUME Inv
  PROVE  /\ \A n \in 1..Len(attempts) : LET q == Append(reattachTimers, n) IN
              q \in Seq(Ids) /\ \A i \in 1..Len(q) : q[i] \in 1..Len(attempts)
         /\ reattachTimers # <<>> =>
              /\ Tail(reattachTimers) \in Seq(Ids) /\ Head(reattachTimers) \in 1..Len(attempts)
              /\ \A i \in 1..Len(Tail(reattachTimers)) :
                   Tail(reattachTimers)[i] \in 1..Len(attempts)
<1>1. reattachTimers \in Seq(Ids) /\ Len(reattachTimers) \in Nat
  BY DEF Inv, TypeOK
<1>2. 1..Len(attempts) \subseteq Ids
  BY Queued DEF Inv, TypeOK, Ids
<1>3. ASSUME NEW n \in 1..Len(attempts)
      PROVE  LET q == Append(reattachTimers, n) IN
               q \in Seq(Ids) /\ \A i \in 1..Len(q) : q[i] \in 1..Len(attempts)
  <2>1. /\ Append(reattachTimers, n) \in Seq(Ids)
        /\ Len(Append(reattachTimers, n)) = Len(reattachTimers) + 1
        /\ \A i \in 1..Len(reattachTimers) : Append(reattachTimers, n)[i] = reattachTimers[i]
        /\ Append(reattachTimers, n)[Len(reattachTimers) + 1] = n
    BY <1>1, <1>2
  <2>. QED
    BY <1>1, <2>1 DEF Inv, Numbered
<1>4. ASSUME reattachTimers # <<>>
      PROVE  /\ Tail(reattachTimers) \in Seq(Ids) /\ Head(reattachTimers) \in 1..Len(attempts)
             /\ \A i \in 1..Len(Tail(reattachTimers)) :
                  Tail(reattachTimers)[i] \in 1..Len(attempts)
  <2>1. /\ Tail(reattachTimers) \in Seq(Ids) /\ Len(reattachTimers) >= 1
        /\ Len(Tail(reattachTimers)) = Len(reattachTimers) - 1
        /\ \A i \in 1..Len(Tail(reattachTimers)) : Tail(reattachTimers)[i] = reattachTimers[i + 1]
        /\ Head(reattachTimers) = reattachTimers[1]
    BY <1>1, <1>4
  <2>. QED
    BY <1>1, <2>1 DEF Inv, Numbered
<1>. QED
  BY <1>3, <1>4

LEMMA UnknownDetachPreservesInv ==
  ASSUME Inv, NEW reason \in Reasons, HandleDetach(reason), ~Known
  PROVE  Inv'
<1>1. /\ inChrome /\ ~inChrome' /\ inChrome' \in BOOLEAN /\ live' = {}
      /\ canceled' \in BOOLEAN /\ cutShort' \in BOOLEAN
      /\ cutShort \/ pc["reattach"] = "loop" => cutShort'
      /\ UNCHANGED <<tabOpen, calls, stored, connection, attempts, reattachTimers,
                     orphans, tool, attachedForCall, idleTimer, subscribed, pc,
                     object, retrying, todo, refused, restarts>>
  BY Queued, AttachedKnown DEF Inv, TypeOK, HandleDetach, Retries, Lost, Known,
     manager, tools, tasks
<1>2. pc' = pc
  BY <1>1 DEF Inv, TypeOK, Tasks
<1>3. TypeOK'
  BY <1>1 DEF Inv, TypeOK, Records
<1>4. Phases' /\ Numbered'
  BY <1>1, <1>2, AttachedKnown DEF Inv, Phases, Numbered, Known
<1>5. Room'
  BY <1>1, <1>2, Queued DEF Inv, TypeOK, Tasks, Room, Restoring
<1>6. /\ RecordIsTrue' /\ Closed' /\ DomainsAreLive' /\ Reviving'
      /\ Alone' /\ SubscriptionKept' /\ Uncut'
  BY <1>1, <1>2, AttachedKnown DEF Inv, RecordIsTrue, Closed, DomainsAreLive, Reviving, Alone, SubscriptionKept,
     Uncut, FirstRecord, Known
<1>. QED
  BY <1>3, <1>4, <1>5, <1>6 DEF Inv

LEMMA LastDetachPreservesInv ==
  ASSUME Inv, NEW reason \in Reasons, HandleDetach(reason), Known, ~Retries(reason)
  PROVE  Inv'
<1>1. /\ inChrome /\ ~inChrome' /\ inChrome' \in BOOLEAN /\ live' = {}
      /\ canceled' \in BOOLEAN /\ cutShort' \in BOOLEAN
      /\ cutShort \/ pc["reattach"] = "loop" => cutShort'
      /\ connection' = NoConnection /\ stored' = NotStored
      /\ UNCHANGED <<tabOpen, calls, attempts, reattachTimers, orphans, tool,
                     attachedForCall, idleTimer, subscribed, pc, object, retrying,
                     todo, refused, restarts>>
  BY Queued, AttachedKnown DEF Inv, TypeOK, HandleDetach, Retries, Lost, Known,
     manager, tools, tasks
<1>2. pc' = pc
  BY <1>1 DEF Inv, TypeOK, Tasks
<1>3. TypeOK'
  BY <1>1, NoRecord DEF Inv, TypeOK, Records
<1>4. Phases' /\ Numbered'
  BY <1>1, <1>2, NoRecord DEF Inv, Phases, Numbered, Known
<1>5. Room'
  BY <1>1, <1>2, Queued DEF Inv, TypeOK, Tasks, Room, Restoring
<1>6. /\ RecordIsTrue' /\ Closed' /\ DomainsAreLive' /\ Reviving'
      /\ Alone' /\ SubscriptionKept' /\ Uncut'
  BY <1>1, <1>2, AttachedKnown, NoRecord DEF Inv, RecordIsTrue, Closed, DomainsAreLive, Reviving, Alone, SubscriptionKept,
     Uncut, FirstRecord, Known
<1>. QED
  BY <1>3, <1>4, <1>5, <1>6 DEF Inv

LEMMA RetriedDetachPreservesInv ==
  ASSUME Inv, NEW reason \in Reasons, HandleDetach(reason), Known, Retries(reason)
  PROVE  Inv'
<1>1. /\ inChrome /\ ~inChrome' /\ inChrome' \in BOOLEAN /\ live' = {}
      /\ canceled' \in BOOLEAN /\ cutShort' \in BOOLEAN
      /\ cutShort \/ pc["reattach"] = "loop" => cutShort'
      /\ canceled' = canceled /\ ~connection.userDetached
      /\ attempts' = [attempts EXCEPT ![connection.id] = @ + 1]
      /\ attempts[connection.id] < MaxReattachAttempts
      /\ reattachTimers' = Append(reattachTimers, connection.id)
      /\ connection' \in Records /\ connection'.id = connection.id /\ ~connection'.attached
      /\ ~connection'.keepalive /\ connection'.domains = connection.domains
      /\ UNCHANGED <<tabOpen, calls, stored, orphans, tool, attachedForCall,
                     idleTimer, subscribed, pc, object, retrying, todo, refused,
                     restarts>>
  BY Queued, AttachedKnown DEF Inv, TypeOK, HandleDetach, Retries, Lost, Known,
     manager, tools, tasks, Records
<1>2. pc' = pc
  BY <1>1 DEF Inv, TypeOK, Tasks
<1>3. TypeOK'
  <2>1. attempts' \in Seq(0..MaxReattachAttempts) /\ Len(attempts') = Len(attempts)
    BY <1>1, AttachedKnown, DebuggerSessionAssumption DEF Inv, TypeOK
  <2>2. reattachTimers' \in Seq(Ids)
    BY <1>1, AttachedKnown, Timers
  <2>. QED
    BY <1>1, <2>1, <2>2 DEF Inv, TypeOK, Records
<1>4. Phases' /\ Numbered'
  <2>1. Len(attempts') = Len(attempts)
    BY <1>1 DEF Inv, TypeOK
  <2>2. \A i \in 1..Len(reattachTimers') : reattachTimers'[i] \in 1..Len(attempts)
    BY <1>1, AttachedKnown, Timers
  <2>. QED
    BY <1>1, <1>2, <2>1, <2>2 DEF Inv, Phases, Numbered, Known
<1>5. Room'
  <2>1. Len(attempts') = Len(attempts)
    BY <1>1 DEF Inv, TypeOK
  <2>. QED
    BY <1>1, <1>2, <2>1 DEF Inv, Room, Restoring
<1>6. /\ RecordIsTrue' /\ Closed' /\ DomainsAreLive' /\ Reviving'
      /\ Alone' /\ SubscriptionKept' /\ Uncut'
  <2>1. Len(attempts') = Len(attempts)
    BY <1>1 DEF Inv, TypeOK
  <2>. QED
    BY <1>1, <1>2, <2>1 DEF Inv, RecordIsTrue, Closed, DomainsAreLive, Reviving, Alone, SubscriptionKept,
     Uncut, FirstRecord, Known
<1>. QED
  BY <1>3, <1>4, <1>5, <1>6 DEF Inv

LEMMA ReattachBeginsPreservesInv ==
  ASSUME Inv, ReattachTimeout, pc'["reattach"] = "get"
  PROVE  Inv'
<1>1. /\ reattachTimers # <<>> /\ reattachTimers' = Tail(reattachTimers)
      /\ pc["reattach"] = "none" /\ pc' = [pc EXCEPT !["reattach"] = "get"]
      /\ pc["tool"] \notin {"page", "enable"} /\ Known /\ ~connection.attached
      /\ calls' = Append(calls, "reattach") /\ retrying' = Head(reattachTimers)
      /\ object' = [object EXCEPT !["reattach"] = connection.id]
      /\ todo' = [todo EXCEPT !["reattach"] = connection.domains]
      /\ UNCHANGED <<tabOpen, inChrome, live, stored, connection, attempts, orphans,
                     tool, attachedForCall, idleTimer, subscribed, canceled, refused,
                     cutShort, restarts>>
  BY Queued, AttachedKnown DEF Inv, TypeOK, Tasks, ReattachTimeout, NoCommand, Call,
     Goto, tasks, tools, observed, Known
<1>2. /\ pc'["reattach"] = "get"
      /\ pc'["tool"] = pc["tool"] /\ pc'["idle"] = pc["idle"] /\ pc'["restore"] = pc["restore"]
      /\ object'["tool"] = object["tool"] /\ object'["reattach"] = connection.id
      /\ todo'["reattach"] = connection.domains
  BY <1>1 DEF Inv, TypeOK, Tasks
<1>3. TypeOK'
  <2>1. /\ pc' \in [Tasks -> Steps] /\ calls' \in Seq(Tasks)
        /\ object' \in [Tasks -> 0..MaxConnections] /\ todo' \in [Tasks -> SUBSET Domains]
    BY <1>1, Queued DEF Inv, TypeOK, Steps, Records, Tasks
  <2>2. reattachTimers' \in Seq(Ids) /\ retrying' \in 0..MaxConnections
    BY <1>1, Timers, Queued DEF Inv, TypeOK
  <2>. QED
    BY <1>1, <2>1, <2>2 DEF Inv, TypeOK, Records, Steps
<1>4. Phases' /\ Numbered'
  <2>1. \A t \in Tasks : object'[t] \in 0..Len(attempts)
    BY <1>1, AttachedKnown, Queued DEF Inv, TypeOK, Numbered
  <2>. QED
    BY <1>1, <1>2, <2>1, Timers, AttachedKnown, Queued DEF Inv, Phases, Numbered, Known
<1>5. Room'
  BY <1>1, <1>2, Queued DEF Inv, TypeOK, Tasks, Room, Restoring
<1>6. /\ RecordIsTrue' /\ Closed' /\ DomainsAreLive' /\ Reviving'
      /\ Alone' /\ SubscriptionKept' /\ Uncut'
  BY <1>1, <1>2, AttachedKnown DEF Inv, RecordIsTrue, Closed, DomainsAreLive, Reviving, Alone, SubscriptionKept,
     Uncut, FirstRecord, Known
<1>. QED
  BY <1>3, <1>4, <1>5, <1>6 DEF Inv

LEMMA ReattachNotPreservesInv ==
  ASSUME Inv, ReattachTimeout, pc'["reattach"] # "get"
  PROVE  Inv'
<1>1. /\ reattachTimers # <<>> /\ reattachTimers' = Tail(reattachTimers)
      /\ UNCHANGED <<tabOpen, inChrome, live, calls, stored, connection, attempts,
                     orphans, tool, attachedForCall, idleTimer, subscribed, pc,
                     object, retrying, todo, canceled, refused, cutShort, restarts>>
  BY Queued, AttachedKnown DEF Inv, TypeOK, Tasks, ReattachTimeout, NoCommand, Call,
     Goto, tasks, tools, observed, Known
<1>2. pc' = pc
  BY <1>1 DEF Inv, TypeOK, Tasks
<1>3. TypeOK'
  BY <1>1, Timers DEF Inv, TypeOK, Records
<1>4. Phases' /\ Numbered'
  BY <1>1, <1>2, Timers DEF Inv, Phases, Numbered, Known
<1>5. Room'
  BY <1>1, <1>2, Queued DEF Inv, TypeOK, Tasks, Room, Restoring
<1>6. /\ RecordIsTrue' /\ Closed' /\ DomainsAreLive' /\ Reviving'
      /\ Alone' /\ SubscriptionKept' /\ Uncut'
  BY <1>1, <1>2, AttachedKnown DEF Inv, RecordIsTrue, Closed, DomainsAreLive, Reviving, Alone, SubscriptionKept,
     Uncut, FirstRecord, Known
<1>. QED
  BY <1>3, <1>4, <1>5, <1>6 DEF Inv

LEMMA TabFoundPreservesInv ==
  ASSUME Inv, TabFound
  PROVE  Inv'
<1>1. /\ pc["reattach"] = "get" /\ tabOpen /\ pc' = [pc EXCEPT !["reattach"] = "attach"]
      /\ calls # <<>> /\ calls' = Append(Tail(calls), "reattach")
      /\ UNCHANGED <<tabOpen, inChrome, live, stored, connection, attempts,
                     reattachTimers, orphans, tool, attachedForCall, idleTimer,
                     subscribed, object, retrying, todo, canceled, refused, cutShort,
                     restarts>>
  BY Queued, AttachedKnown DEF TabFound, Replied, Goto, manager, tools, observed
<1>2. /\ pc'["reattach"] = "attach"
      /\ pc'["tool"] = pc["tool"] /\ pc'["idle"] = pc["idle"] /\ pc'["restore"] = pc["restore"]
  BY <1>1 DEF Inv, TypeOK, Tasks
<1>3. TypeOK'
  BY <1>1, Queued DEF Inv, TypeOK, Tasks
<1>4. Phases' /\ Numbered'
  BY <1>1, <1>2, AttachedKnown DEF Inv, Phases, Numbered, Known
<1>5. Room'
  BY <1>1, <1>2, Queued DEF Inv, TypeOK, Tasks, Room, Restoring
<1>6. /\ RecordIsTrue' /\ Closed' /\ DomainsAreLive' /\ Reviving'
      /\ Alone' /\ SubscriptionKept' /\ Uncut'
  BY <1>1, <1>2, AttachedKnown DEF Inv, RecordIsTrue, Closed, DomainsAreLive, Reviving, Alone, SubscriptionKept,
     Uncut, FirstRecord, Known
<1>. QED
  BY <1>3, <1>4, <1>5, <1>6 DEF Inv

LEMMA TabMissingPreservesInv ==
  ASSUME Inv, TabMissing
  PROVE  Inv'
<1>1. /\ pc["reattach"] = "get" /\ ~tabOpen /\ pc' = [pc EXCEPT !["reattach"] = "none"]
      /\ calls # <<>> /\ calls' = Tail(calls) /\ retrying' = 0
      /\ connection' = NoConnection /\ orphans' = orphans \union Orphan /\ stored' = NotStored
      /\ UNCHANGED <<tabOpen, inChrome, live, attempts, reattachTimers, tool,
                     attachedForCall, idleTimer, subscribed, object, todo, canceled,
                     refused, cutShort, restarts>>
  BY Queued, AttachedKnown DEF TabMissing, Replied, Answered, Goto, Dropped, manager,
     tools, observed
<1>2. /\ pc'["reattach"] = "none"
      /\ pc'["tool"] = pc["tool"] /\ pc'["idle"] = pc["idle"] /\ pc'["restore"] = pc["restore"]
  BY <1>1 DEF Inv, TypeOK, Tasks
<1>3. TypeOK'
  <2>1. /\ pc' \in [Tasks -> Steps] /\ calls' \in Seq(Tasks)
        /\ connection' \in Records /\ stored' \in [listed : BOOLEAN, domains : SUBSET Domains]
        /\ orphans' \in SUBSET Ids
    BY <1>1, Queued, NoRecord DEF Inv, TypeOK, Steps, Records
  <2>. QED
    BY <1>1, <2>1, DebuggerSessionAssumption DEF Inv, TypeOK, Records, Steps
<1>4. Phases' /\ Numbered'
  BY <1>1, <1>2, NoRecord, Queued DEF Inv, Phases, Numbered, Known
<1>5. Room'
  BY <1>1, <1>2, Queued DEF Inv, TypeOK, Tasks, Room, Restoring
<1>6. /\ RecordIsTrue' /\ Closed' /\ DomainsAreLive' /\ Reviving'
      /\ Alone' /\ SubscriptionKept' /\ Uncut'
  BY <1>1, <1>2, AttachedKnown, NoRecord DEF Inv, RecordIsTrue, Closed, DomainsAreLive, Reviving, Alone, SubscriptionKept,
     Uncut, FirstRecord, Known
<1>. QED
  BY <1>3, <1>4, <1>5, <1>6 DEF Inv

LEMMA OrphanTickPreservesInv ==
  ASSUME Inv, OrphanTick
  PROVE  Inv'
<1>1. /\ orphans # {} /\ connection' \in Records /\ connection'.id = connection.id
      /\ connection'.attached = connection.attached /\ connection'.domains = connection.domains
      /\ connection'.userDetached = connection.userDetached
      /\ ~connection.keepalive => connection' = connection
      /\ UNCHANGED <<tabOpen, inChrome, live, calls, stored, attempts, reattachTimers,
                     orphans, tool, attachedForCall, idleTimer, subscribed, pc,
                     object, retrying, todo, canceled, refused, cutShort, restarts>>
  BY Queued, AttachedKnown DEF Inv, TypeOK, Records, OrphanTick, chrome, tools, tasks,
     observed
<1>2. pc' = pc
  BY <1>1 DEF Inv, TypeOK, Tasks
<1>3. TypeOK'
  BY <1>1 DEF Inv, TypeOK, Records
<1>4. Phases' /\ Numbered'
  BY <1>1, <1>2, AttachedKnown DEF Inv, Phases, Numbered, Known
<1>5. Room'
  BY <1>1, <1>2, Queued DEF Inv, TypeOK, Tasks, Room, Restoring
<1>6. /\ RecordIsTrue' /\ Closed' /\ DomainsAreLive' /\ Reviving'
      /\ Alone' /\ SubscriptionKept' /\ Uncut'
  BY <1>1, <1>2, AttachedKnown DEF Inv, RecordIsTrue, Closed, DomainsAreLive, Reviving, Alone, SubscriptionKept,
     Uncut, FirstRecord, Known
<1>. QED
  BY <1>3, <1>4, <1>5, <1>6 DEF Inv

-----------------------------------------------------------------------------
LEMMA TabClosesPreservesInv ==
  ASSUME Inv, TabCloses
  PROVE  Inv'
<1>1. /\ ~tabOpen' /\ tabOpen' \in BOOLEAN /\ ~inChrome' /\ inChrome' \in BOOLEAN
      /\ live' = {} /\ ~subscribed' /\ subscribed' \in BOOLEAN
      /\ connection' = NoConnection /\ stored' \in {stored, NotStored}
      /\ UNCHANGED <<calls, attempts, reattachTimers, orphans, tool, attachedForCall,
                     idleTimer, pc, object, retrying, todo, canceled, refused,
                     cutShort, restarts>>
  BY Queued, AttachedKnown DEF TabCloses, tasks, observed
<1>2. pc' = pc
  BY <1>1 DEF Inv, TypeOK, Tasks
<1>3. TypeOK'
  BY <1>1, NoRecord DEF Inv, TypeOK, Records
<1>4. Phases' /\ Numbered'
  BY <1>1, <1>2, NoRecord DEF Inv, Phases, Numbered, Known
<1>5. Room'
  BY <1>1, <1>2, Queued DEF Inv, TypeOK, Tasks, Room, Restoring
<1>6. /\ RecordIsTrue' /\ Closed' /\ DomainsAreLive' /\ Reviving'
      /\ Alone' /\ SubscriptionKept' /\ Uncut'
  BY <1>1, <1>2, AttachedKnown, NoRecord DEF Inv, RecordIsTrue, Closed, DomainsAreLive, Reviving, Alone, SubscriptionKept,
     Uncut, FirstRecord, Known
<1>. QED
  BY <1>3, <1>4, <1>5, <1>6 DEF Inv

LEMMA WorkerRestartsPreservesInv ==
  ASSUME Inv, WorkerRestarts
  PROVE  Inv'
<1>1. /\ tabOpen /\ restarts < MaxRestarts /\ restarts' = restarts + 1
      /\ connection' = NoConnection /\ attempts' = <<>> /\ reattachTimers' = <<>> /\ orphans' = {}
      /\ attachedForCall' \in BOOLEAN /\ idleTimer' \in BOOLEAN
      /\ ~subscribed' /\ subscribed' \in BOOLEAN /\ retrying' = 0
      /\ pc' = [t \in Tasks |-> IF t = "restore" THEN "read" ELSE "none"]
      /\ object' = [t \in Tasks |-> 0] /\ todo' = [t \in Tasks |-> {}]
      /\ UNCHANGED <<tabOpen, inChrome, live, calls, stored, tool, canceled, refused, cutShort>>
  BY DEF WorkerRestarts, chrome, observed
<1>2. /\ pc'["restore"] = "read" /\ pc'["tool"] = "none" /\ pc'["idle"] = "none"
      /\ pc'["reattach"] = "none" /\ \A t \in Tasks : object'[t] = 0
  BY <1>1 DEF Tasks
<1>3. /\ Len(attempts') = 0 /\ attempts' \in Seq(0..MaxReattachAttempts)
      /\ Len(reattachTimers') = 0 /\ reattachTimers' \in Seq(Ids)
  BY <1>1
<1>4. restarts \in Nat /\ restarts' \in 1..MaxRestarts
  BY <1>1, DebuggerSessionAssumption DEF Inv, TypeOK
<1>5. TypeOK'
  <2>1. /\ pc' \in [Tasks -> Steps] /\ object' \in [Tasks -> 0..MaxConnections]
        /\ todo' \in [Tasks -> SUBSET Domains]
    BY <1>1, DebuggerSessionAssumption DEF Steps
  <2>2. /\ connection' \in Records /\ retrying' \in 0..MaxConnections
        /\ orphans' \in SUBSET Ids /\ restarts' \in 0..MaxRestarts
        /\ Len(attempts') <= MaxConnections
    BY <1>1, <1>3, <1>4, NoRecord, DebuggerSessionAssumption
  <2>. QED
    BY <1>1, <1>3, <2>1, <2>2 DEF Inv, TypeOK, Records, Steps
<1>6. Phases' /\ Numbered'
  BY <1>1, <1>2, <1>3, <1>4, NoRecord DEF Phases, Numbered, Known
<1>7. Room'
  BY <1>2, <1>3, DebuggerSessionAssumption DEF Room, Restoring
<1>8. /\ RecordIsTrue' /\ Closed' /\ DomainsAreLive' /\ Reviving'
      /\ Alone' /\ SubscriptionKept' /\ Uncut'
  BY <1>1, <1>4, NoRecord DEF Inv, RecordIsTrue, Closed, DomainsAreLive, Reviving, Alone, SubscriptionKept,
     Uncut, FirstRecord
<1>. QED
  BY <1>5, <1>6, <1>7, <1>8 DEF Inv

(* A new record has the next number. *)
LEMMA Made ==
  ASSUME Inv, NEW t \in Tasks, NEW domains \in SUBSET Domains, NEW keepalive \in BOOLEAN,
         NewConnection(t, domains, keepalive), Len(attempts) < MaxConnections
  PROVE  /\ connection' \in Records /\ connection'.id = Len(attempts) + 1
         /\ connection'.attached /\ connection'.domains = domains
         /\ connection'.keepalive = keepalive
         /\ attempts' \in Seq(0..MaxReattachAttempts) /\ Len(attempts') = Len(attempts) + 1
         /\ orphans \subseteq orphans' /\ orphans' \in SUBSET Ids
         /\ object' \in [Tasks -> 0..MaxConnections] /\ object'[t] = Len(attempts) + 1
         /\ \A u \in Tasks \ {t} : object'[u] = object[u]
<1>1. Len(attempts) + 1 \in 0..MaxConnections /\ MaxReattachAttempts \in Nat
  BY Queued, DebuggerSessionAssumption DEF Inv
<1>2. /\ connection' \in Records /\ connection'.id = Len(attempts) + 1
      /\ connection'.attached /\ connection'.domains = domains
      /\ connection'.keepalive = keepalive
  BY <1>1 DEF NewConnection, Records
<1>3. attempts' \in Seq(0..MaxReattachAttempts) /\ Len(attempts') = Len(attempts) + 1
  BY <1>1 DEF NewConnection, Inv, TypeOK
<1>4. orphans \subseteq orphans' /\ orphans' \in SUBSET Ids
  BY NoRecord DEF NewConnection
<1>5. /\ object' \in [Tasks -> 0..MaxConnections] /\ object'[t] = Len(attempts) + 1
      /\ \A u \in Tasks \ {t} : object'[u] = object[u]
  BY <1>1 DEF NewConnection, Inv, TypeOK
<1>. QED
  BY <1>2, <1>3, <1>4, <1>5

LEMMA AttachRepliedPreservesInv ==
  ASSUME Inv, NEW t \in Tasks, AttachReplied(t)
  PROVE  Inv'
<1>1. /\ t \in {"tool", "restore"} /\ pc[t] = "attach" /\ tabOpen /\ ~inChrome
      /\ NewConnection(t, {}, FALSE)
      /\ pc' = [pc EXCEPT ![t] = "page"] /\ calls # <<>> /\ calls' = Tail(calls)
      /\ inChrome' /\ inChrome' \in BOOLEAN /\ live' = {}
      /\ canceled' \in BOOLEAN /\ (t = "tool" => ~canceled')
      /\ UNCHANGED <<tabOpen, stored, reattachTimers, tool, attachedForCall, idleTimer,
                     subscribed, retrying, todo, refused, cutShort, restarts>>
  BY DEF AttachReplied, Replied, Goto, tools, Inv, TypeOK
<1>2. /\ \/ pc["tool"] = "attach" /\ pc'["tool"] = "page" /\ pc'["restore"] = pc["restore"]
            /\ t = "tool"
         \/ pc["restore"] = "attach" /\ pc'["restore"] = "page" /\ pc'["tool"] = pc["tool"]
            /\ restarts # 0 /\ t = "restore"
      /\ pc'["idle"] = pc["idle"] /\ pc'["reattach"] = pc["reattach"]
  BY <1>1 DEF Inv, TypeOK, Tasks, Phases
<1>3. Len(attempts) < MaxConnections
  BY <1>1 DEF Inv, Room, Restoring
<1>4. /\ connection' \in Records /\ connection'.id = Len(attempts) + 1
      /\ connection'.attached /\ connection'.domains = {} /\ ~connection'.keepalive
      /\ attempts' \in Seq(0..MaxReattachAttempts) /\ Len(attempts') = Len(attempts) + 1
      /\ orphans \subseteq orphans' /\ orphans' \in SUBSET Ids
      /\ object' \in [Tasks -> 0..MaxConnections] /\ object'[t] = Len(attempts) + 1
      /\ \A u \in Tasks \ {t} : object'[u] = object[u]
  BY <1>1, <1>3, Made
<1>5. TypeOK'
  <2>1. pc' \in [Tasks -> Steps] /\ calls' \in Seq(Tasks)
    BY <1>1, Queued DEF Inv, TypeOK, Steps
  <2>. QED
    BY <1>1, <1>3, <1>4, <2>1, Queued DEF Inv, TypeOK, Records, Steps
<1>6. Phases'
  BY <1>1, <1>2 DEF Inv, Phases
<1>7. Numbered'
  <2>1. /\ Len(attempts) \in Nat /\ connection'.id \in 0..Len(attempts') /\ Known'
        /\ retrying' \in 0..Len(attempts') /\ Len(attempts') # 0
    BY <1>1, <1>4, Queued DEF Inv, Numbered, Known
  <2>2. \A u \in Tasks : object'[u] \in 0..Len(attempts')
    BY <1>4, <2>1 DEF Inv, Numbered
  <2>3. \A i \in 1..Len(reattachTimers') : reattachTimers'[i] \in 1..Len(attempts')
    BY <1>1, <1>4, <2>1 DEF Inv, Numbered
  <2>4. pc'["reattach"] # "none" => retrying' # 0 /\ object'["reattach"] # 0
    BY <1>1, <1>2, <1>4 DEF Inv, Numbered, Tasks
  <2>5. pc'["tool"] \in {"page", "enable"} => object'["tool"] # 0
    BY <1>1, <1>2, <1>4, <2>1 DEF Inv, Numbered, Tasks
  <2>. QED
    BY <2>1, <2>2, <2>3, <2>4, <2>5 DEF Numbered
<1>8. Room'
  BY <1>1, <1>2, <1>4, Queued DEF Inv, TypeOK, Tasks, Room, Restoring
<1>9. /\ RecordIsTrue' /\ Closed' /\ DomainsAreLive' /\ Reviving'
  BY <1>1, <1>2, <1>4 DEF Inv, RecordIsTrue, Closed, DomainsAreLive, Reviving
<1>10. FirstRecord' => /\ Len(attempts) = 0 /\ restarts = 0 /\ pc["reattach"] = "none"
                      /\ pc["idle"] # "detach" /\ ~subscribed
  BY <1>1, <1>4, Queued DEF Inv, FirstRecord, Numbered, Tasks
<1>11. Alone' /\ SubscriptionKept' /\ Uncut'
  BY <1>1, <1>2, <1>4, <1>10 DEF Alone, SubscriptionKept, Uncut
<1>. QED
  BY <1>5, <1>6, <1>7, <1>8, <1>9, <1>11 DEF Inv

(* The restoration. *)
LEMMA RestoreReadsPreservesInv ==
  ASSUME Inv, RestoreReads, stored.listed
  PROVE  Inv'
<1>1. /\ pc["restore"] = "read" /\ pc' = [pc EXCEPT !["restore"] = "get"]
      /\ calls' = Append(calls, "restore")
      /\ todo' = [todo EXCEPT !["restore"] = stored.domains]
      /\ UNCHANGED <<tabOpen, inChrome, live, stored, connection, attempts,
                     reattachTimers, orphans, tool, attachedForCall, idleTimer,
                     subscribed, object, retrying, canceled, refused, cutShort,
                     restarts>>
  BY Queued, AttachedKnown DEF RestoreReads, Call, Goto, manager, tools, observed
<1>2. /\ pc'["restore"] = "get"
      /\ pc'["tool"] = pc["tool"] /\ pc'["idle"] = pc["idle"] /\ pc'["reattach"] = pc["reattach"]
      /\ todo'["reattach"] = todo["reattach"]
  BY <1>1 DEF Inv, TypeOK, Tasks
<1>3. TypeOK'
  BY <1>1, Queued DEF Inv, TypeOK, Tasks
<1>4. Phases' /\ Numbered'
  BY <1>1, <1>2, AttachedKnown DEF Inv, Phases, Numbered, Known
<1>5. Room'
  BY <1>1, <1>2, Queued DEF Inv, TypeOK, Tasks, Room, Restoring
<1>6. /\ RecordIsTrue' /\ Closed' /\ DomainsAreLive' /\ Reviving'
      /\ Alone' /\ SubscriptionKept' /\ Uncut'
  BY <1>1, <1>2, AttachedKnown DEF Inv, RecordIsTrue, Closed, DomainsAreLive, Reviving, Alone, SubscriptionKept,
     Uncut, FirstRecord, Known
<1>. QED
  BY <1>3, <1>4, <1>5, <1>6 DEF Inv

LEMMA RestoreReadsNonePreservesInv ==
  ASSUME Inv, RestoreReads, ~stored.listed
  PROVE  Inv'
<1>1. /\ pc["restore"] = "read" /\ pc' = [pc EXCEPT !["restore"] = "none"]
      /\ UNCHANGED <<tabOpen, inChrome, live, calls, stored, connection, attempts,
                     reattachTimers, orphans, tool, attachedForCall, idleTimer,
                     subscribed, object, retrying, todo, canceled, refused, cutShort,
                     restarts>>
  BY Queued, AttachedKnown DEF RestoreReads, Call, Goto, manager, tools, observed
<1>2. /\ pc'["restore"] = "none"
      /\ pc'["tool"] = pc["tool"] /\ pc'["idle"] = pc["idle"] /\ pc'["reattach"] = pc["reattach"]
  BY <1>1 DEF Inv, TypeOK, Tasks
<1>3. TypeOK'
  BY <1>1, Queued DEF Inv, TypeOK, Tasks
<1>4. Phases' /\ Numbered'
  BY <1>1, <1>2, AttachedKnown DEF Inv, Phases, Numbered, Known
<1>5. Room'
  BY <1>1, <1>2, Queued DEF Inv, TypeOK, Tasks, Room, Restoring
<1>6. /\ RecordIsTrue' /\ Closed' /\ DomainsAreLive' /\ Reviving'
      /\ Alone' /\ SubscriptionKept' /\ Uncut'
  BY <1>1, <1>2, AttachedKnown DEF Inv, RecordIsTrue, Closed, DomainsAreLive, Reviving, Alone, SubscriptionKept,
     Uncut, FirstRecord, Known
<1>. QED
  BY <1>3, <1>4, <1>5, <1>6 DEF Inv

LEMMA RestoreFindsPreservesInv ==
  ASSUME Inv, RestoreFinds, tabOpen
  PROVE  Inv'
<1>1. /\ pc["restore"] = "get" /\ pc' = [pc EXCEPT !["restore"] = "targets"]
      /\ calls # <<>> /\ calls' = Append(Tail(calls), "restore")
      /\ UNCHANGED <<tabOpen, inChrome, live, stored, connection, attempts,
                     reattachTimers, orphans, tool, attachedForCall, idleTimer,
                     subscribed, object, retrying, todo, canceled, refused, cutShort,
                     restarts>>
  BY Queued, AttachedKnown DEF RestoreFinds, Replied, Answered, Goto, manager, tools,
     observed
<1>2. /\ pc'["restore"] = "targets"
      /\ pc'["tool"] = pc["tool"] /\ pc'["idle"] = pc["idle"] /\ pc'["reattach"] = pc["reattach"]
  BY <1>1 DEF Inv, TypeOK, Tasks
<1>3. TypeOK'
  BY <1>1, Queued DEF Inv, TypeOK, Tasks
<1>4. Phases' /\ Numbered'
  BY <1>1, <1>2, AttachedKnown DEF Inv, Phases, Numbered, Known
<1>5. Room'
  BY <1>1, <1>2, Queued DEF Inv, TypeOK, Tasks, Room, Restoring
<1>6. /\ RecordIsTrue' /\ Closed' /\ DomainsAreLive' /\ Reviving'
      /\ Alone' /\ SubscriptionKept' /\ Uncut'
  BY <1>1, <1>2, AttachedKnown DEF Inv, RecordIsTrue, Closed, DomainsAreLive, Reviving, Alone, SubscriptionKept,
     Uncut, FirstRecord, Known
<1>. QED
  BY <1>3, <1>4, <1>5, <1>6 DEF Inv

LEMMA RestoreFindsNonePreservesInv ==
  ASSUME Inv, RestoreFinds, ~tabOpen
  PROVE  Inv'
<1>1. /\ pc["restore"] = "get" /\ pc' = [pc EXCEPT !["restore"] = "none"]
      /\ calls # <<>> /\ calls' = Tail(calls)
      /\ UNCHANGED <<tabOpen, inChrome, live, stored, connection, attempts,
                     reattachTimers, orphans, tool, attachedForCall, idleTimer,
                     subscribed, object, retrying, todo, canceled, refused, cutShort,
                     restarts>>
  BY Queued, AttachedKnown DEF RestoreFinds, Replied, Answered, Goto, manager, tools,
     observed
<1>2. /\ pc'["restore"] = "none"
      /\ pc'["tool"] = pc["tool"] /\ pc'["idle"] = pc["idle"] /\ pc'["reattach"] = pc["reattach"]
  BY <1>1 DEF Inv, TypeOK, Tasks
<1>3. TypeOK'
  BY <1>1, Queued DEF Inv, TypeOK, Tasks
<1>4. Phases' /\ Numbered'
  BY <1>1, <1>2, AttachedKnown DEF Inv, Phases, Numbered, Known
<1>5. Room'
  BY <1>1, <1>2, Queued DEF Inv, TypeOK, Tasks, Room, Restoring
<1>6. /\ RecordIsTrue' /\ Closed' /\ DomainsAreLive' /\ Reviving'
      /\ Alone' /\ SubscriptionKept' /\ Uncut'
  BY <1>1, <1>2, AttachedKnown DEF Inv, RecordIsTrue, Closed, DomainsAreLive, Reviving, Alone, SubscriptionKept,
     Uncut, FirstRecord, Known
<1>. QED
  BY <1>3, <1>4, <1>5, <1>6 DEF Inv

LEMMA AttachesAgainPreservesInv ==
  ASSUME Inv, AttachesAgain
  PROVE  Inv'
<1>1. /\ pc["restore"] = "targets" /\ pc' = [pc EXCEPT !["restore"] = "attach"]
      /\ calls # <<>> /\ calls' = Append(Tail(calls), "restore")
      /\ UNCHANGED <<tabOpen, inChrome, live, stored, connection, attempts,
                     reattachTimers, orphans, tool, attachedForCall, idleTimer,
                     subscribed, object, retrying, todo, canceled, refused, cutShort,
                     restarts>>
  BY Queued, AttachedKnown DEF AttachesAgain, Replied, Goto, manager, tools, observed
<1>2. /\ pc'["restore"] = "attach"
      /\ pc'["tool"] = pc["tool"] /\ pc'["idle"] = pc["idle"] /\ pc'["reattach"] = pc["reattach"]
  BY <1>1 DEF Inv, TypeOK, Tasks
<1>3. TypeOK'
  BY <1>1, Queued DEF Inv, TypeOK, Tasks
<1>4. Phases' /\ Numbered'
  BY <1>1, <1>2, AttachedKnown DEF Inv, Phases, Numbered, Known
<1>5. Room'
  BY <1>1, <1>2, Queued DEF Inv, TypeOK, Tasks, Room, Restoring
<1>6. /\ RecordIsTrue' /\ Closed' /\ DomainsAreLive' /\ Reviving'
      /\ Alone' /\ SubscriptionKept' /\ Uncut'
  BY <1>1, <1>2, AttachedKnown DEF Inv, RecordIsTrue, Closed, DomainsAreLive, Reviving, Alone, SubscriptionKept,
     Uncut, FirstRecord, Known
<1>. QED
  BY <1>3, <1>4, <1>5, <1>6 DEF Inv

LEMMA TakesOverPreservesInv ==
  ASSUME Inv, TakesOver
  PROVE  Inv'
<1>1. /\ pc["restore"] = "targets" /\ inChrome
      /\ NewConnection("restore", todo["restore"], TRUE)
      /\ pc' = [pc EXCEPT !["restore"] = "none"] /\ calls # <<>> /\ calls' = Tail(calls)
      /\ UNCHANGED <<tabOpen, inChrome, live, stored, reattachTimers, tool, attachedForCall,
                     idleTimer, subscribed, retrying, todo, canceled, refused, cutShort, restarts>>
  BY DEF TakesOver, Replied, Answered, Goto, tools, observed
<1>2. /\ pc'["restore"] = "none" /\ pc'["tool"] = pc["tool"] /\ pc'["idle"] = pc["idle"]
      /\ pc'["reattach"] = pc["reattach"] /\ restarts # 0
  BY <1>1 DEF Inv, TypeOK, Tasks, Phases
<1>3. Len(attempts) < MaxConnections /\ todo["restore"] \in SUBSET Domains
  BY <1>1 DEF Inv, Room, Restoring, TypeOK, Tasks
<1>4. /\ connection' \in Records /\ connection'.id = Len(attempts) + 1
      /\ connection'.attached /\ connection'.keepalive
      /\ attempts' \in Seq(0..MaxReattachAttempts) /\ Len(attempts') = Len(attempts) + 1
      /\ orphans' \in SUBSET Ids
      /\ object' \in [Tasks -> 0..MaxConnections] /\ object'["restore"] = Len(attempts) + 1
      /\ \A u \in Tasks \ {"restore"} : object'[u] = object[u]
  BY <1>1, <1>3, Made DEF Tasks
<1>5. TypeOK'
  <2>1. pc' \in [Tasks -> Steps] /\ calls' \in Seq(Tasks)
    BY <1>1, Queued DEF Inv, TypeOK, Steps
  <2>. QED
    BY <1>1, <1>3, <1>4, <2>1, Queued DEF Inv, TypeOK, Records, Steps
<1>6. Phases'
  BY <1>1, <1>2 DEF Inv, Phases
<1>7. Numbered'
  BY <1>1, <1>2, <1>4, Queued DEF Inv, Numbered, Known, Tasks
<1>8. Room'
  BY <1>1, <1>2, <1>4, Queued DEF Inv, TypeOK, Tasks, Room, Restoring
<1>9. /\ RecordIsTrue' /\ Closed' /\ DomainsAreLive' /\ Reviving'
      /\ Alone' /\ SubscriptionKept' /\ Uncut'
  BY <1>1, <1>2, <1>4 DEF Inv, RecordIsTrue, Closed, DomainsAreLive, Reviving, Alone, SubscriptionKept,
     Uncut, FirstRecord
<1>. QED
  BY <1>5, <1>6, <1>7, <1>8, <1>9 DEF Inv

LEMMA RestoredPageRepliedPreservesInv ==
  ASSUME Inv, RestoredPageReplied
  PROVE  Inv'
<1>1. /\ pc["restore"] = "page" /\ pc' = [pc EXCEPT !["restore"] = "resume"]
      /\ restarts # 0
      /\ live' \in SUBSET Domains
      /\ connection' \in Records /\ connection'.id = connection.id
      /\ connection'.attached = connection.attached
      /\ (Known => connection'.keepalive) /\ (~Known => connection' = connection)
      /\ stored' \in [listed : BOOLEAN, domains : SUBSET Domains]
      /\ UNCHANGED <<tabOpen, inChrome, calls, attempts, reattachTimers, orphans,
                     tool, attachedForCall, idleTimer, subscribed, object, retrying,
                     todo, canceled, refused, cutShort, restarts>>
  BY Queued, AttachedKnown DEF Inv, TypeOK, Phases, RestoredPageReplied, Takes,
     startKeepalive, Marked, Holds, Known, persistState, Goto, NotStored, Records,
     Domains, Tasks, tools, observed
<1>2. /\ pc'["restore"] = "resume"
      /\ pc'["tool"] = pc["tool"] /\ pc'["idle"] = pc["idle"] /\ pc'["reattach"] = pc["reattach"]
  BY <1>1 DEF Inv, TypeOK, Tasks
<1>3. TypeOK'
  BY <1>1, Queued DEF Inv, TypeOK, Tasks, Records, Domains
<1>4. Phases' /\ Numbered'
  BY <1>1, <1>2, AttachedKnown DEF Inv, Phases, Numbered, Known
<1>5. Room'
  BY <1>1, <1>2, Queued DEF Inv, TypeOK, Tasks, Room, Restoring
<1>6. /\ RecordIsTrue' /\ Closed' /\ DomainsAreLive' /\ Reviving'
      /\ Alone' /\ SubscriptionKept' /\ Uncut'
  BY <1>1, <1>2, AttachedKnown DEF Inv, RecordIsTrue, Closed, DomainsAreLive, Reviving, Alone, SubscriptionKept,
     Uncut, FirstRecord, Known
<1>. QED
  BY <1>3, <1>4, <1>5, <1>6 DEF Inv

(* How a loop over domains goes on, whatever record it finds.               *)
WentOn(t, domains, record) ==
  /\ connection' \in Records
  /\ \/ connection' = NoConnection /\ ~record.attached
     \/ /\ connection'.id = record.id /\ connection'.attached = record.attached
        /\ connection'.domains = record.domains
        /\ connection'.userDetached = record.userDetached
        /\ (record.keepalive => connection'.keepalive)
        /\ (record.id = 0 => connection' = NoConnection)
  /\ stored' \in [listed : BOOLEAN, domains : SUBSET Domains]
  /\ orphans' \in SUBSET Ids /\ orphans \subseteq orphans'
  /\ object' \in [Tasks -> 0..MaxConnections]
  /\ \A u \in Tasks : object'[u] = object[u] \/ (u = t /\ object'[u] = record.id)
  /\ retrying' = retrying \/ (retrying' = 0 /\ t = "reattach" /\ pc'[t] = "none")
  /\ todo' \in [Tasks -> SUBSET Domains]
  /\ todo'[t] = IF record.attached THEN domains \ record.domains ELSE domains
  /\ \A u \in Tasks \ {t} : todo'[u] = todo[u]
  /\ \/ /\ pc' = [pc EXCEPT ![t] = "loop"] /\ pc'[t] = "loop" /\ record.attached
        /\ object'[t] = record.id /\ todo'[t] # {}
     \/ /\ pc' = [pc EXCEPT ![t] = "none"] /\ pc'[t] = "none"
        /\ record.attached => todo'[t] = {}
        /\ t = "reattach" /\ connection'.attached => connection'.keepalive

LEMMA Proceeding ==
  ASSUME Inv, NEW t \in {"reattach", "restore"}, NEW domains \in SUBSET Domains,
         NEW record \in Records, record.id = connection.id, ~Known => record = connection,
         Proceed(t, domains, record)
  PROVE  WentOn(t, domains, record)
<1> DEFINE rest == IF record.attached THEN domains \ record.domains ELSE domains
<1>1. /\ t \in Tasks /\ rest \in SUBSET Domains /\ connection.id \in 0..MaxConnections
      /\ (record.id = 0 => record = NoConnection) /\ pc[t] \in Steps /\ pc \in [Tasks -> Steps]
  BY DEF Inv, TypeOK, Tasks, Numbered, Known, Records, Steps
<1>2. /\ todo' \in [Tasks -> SUBSET Domains] /\ todo'[t] = rest
      /\ \A u \in Tasks \ {t} : todo'[u] = todo[u]
  BY <1>1 DEF Proceed, Inv, TypeOK
<1>3. CASE /\ rest # {} /\ record.attached
           /\ connection' = record
           /\ Goto(t, "loop") /\ object' = [object EXCEPT ![t] = record.id]
           /\ UNCHANGED <<stored, orphans, retrying>>
  BY <1>1, <1>2, <1>3 DEF WentOn, Goto, Inv, TypeOK, Records
<1>4. CASE /\ rest # {} /\ ~record.attached /\ UNCHANGED object
           /\ IF t = "reattach"
              THEN ReattachFails(record)
              ELSE connection' = record /\ Goto(t, "none") /\ UNCHANGED <<stored, orphans, retrying>>
  <2>1. /\ pc' = [pc EXCEPT ![t] = "none"]
        /\ retrying' = retrying \/ (retrying' = 0 /\ t = "reattach" /\ pc'[t] = "none")
    BY <1>1, <1>4 DEF ReattachFails, Goto
  <2>2. \/ connection' = NoConnection /\ orphans' = orphans \union Orphan /\ stored' = NotStored
        \/ connection' = record /\ orphans' = orphans /\ stored' = stored
    BY <1>4 DEF ReattachFails, Dropped
  <2>. QED
    BY <1>1, <1>2, <1>4, <2>1, <2>2, NoRecord DEF WentOn, Inv, TypeOK
<1>5. CASE /\ rest = {} /\ Goto(t, "none") /\ UNCHANGED <<object, orphans>>
           /\ IF t = "reattach"
              THEN /\ connection' = startKeepalive(record) /\ persistState(record)
                   /\ retrying' = 0
              ELSE connection' = record /\ UNCHANGED <<stored, retrying>>
  <2>1. stored' \in [listed : BOOLEAN, domains : SUBSET Domains]
    <3>1. \/ stored' = stored \/ stored' = NotStored
          \/ stored' = [listed |-> TRUE, domains |-> record.domains]
      BY <1>5 DEF persistState
    <3>2. stored \in [listed : BOOLEAN, domains : SUBSET Domains]
      BY DEF Inv, TypeOK
    <3>3. \A d \in SUBSET Domains :
            [listed |-> TRUE, domains |-> d] \in [listed : BOOLEAN, domains : SUBSET Domains]
      OBVIOUS
    <3>4. record.domains \in SUBSET Domains
      BY DEF Records
    <3>. QED
      BY <3>1, <3>2, <3>3, <3>4, NoRecord
  <2>2. /\ connection' \in Records /\ connection'.id = record.id
        /\ connection'.attached = record.attached
        /\ connection'.domains = record.domains
        /\ connection'.userDetached = record.userDetached
        /\ (record.keepalive => connection'.keepalive)
        /\ (record.id = 0 => connection' = record)
        /\ t = "reattach" /\ record.id # 0 => connection'.keepalive
    BY <1>5 DEF startKeepalive, Records
  <2>3. pc' = [pc EXCEPT ![t] = "none"] /\ pc'[t] = "none"
    BY <1>1, <1>5 DEF Goto
  <2>4. /\ retrying' = retrying \/ (retrying' = 0 /\ t = "reattach" /\ pc'[t] = "none")
        /\ orphans' = orphans /\ object' = object
    BY <1>5, <2>3
  <2>. QED
    BY <1>1, <1>2, <1>5, <2>1, <2>2, <2>3, <2>4, NoRecord DEF WentOn, Inv, TypeOK
<1>. QED
  BY <1>3, <1>4, <1>5 DEF Proceed

(* What a loop leaves of the invariant, when the record of the tab is the    *)
(* same one.                                                                 *)
LEMMA GoneOn ==
  ASSUME Inv, NEW t \in {"reattach", "restore"}, NEW domains \in SUBSET Domains,
         NEW record \in Records, record.id = connection.id, ~Known => record = connection,
         Proceed(t, domains, record), t = "restore" => restarts # 0,
         t = "reattach" => pc["reattach"] # "none",
         ~Restoring \/ t = "reattach",
         UNCHANGED <<tabOpen, attempts, reattachTimers, tool, attachedForCall, idleTimer,
                     subscribed, canceled, refused, cutShort, restarts>>,
         calls' \in Seq(Tasks), inChrome' \in BOOLEAN, live' \in SUBSET Domains
  PROVE  TypeOK' /\ Phases' /\ Numbered' /\ Room'
<1>0. WentOn(t, domains, record)
  BY Proceeding
<1>1. /\ t \in Tasks /\ Len(attempts) \in Nat
      /\ \/ pc' = [pc EXCEPT ![t] = "loop"] /\ object'[t] = record.id /\ record.attached
         \/ pc' = [pc EXCEPT ![t] = "none"]
      /\ connection' \in Records /\ connection'.id \in {0, connection.id}
      /\ (connection'.id = 0 => connection' = NoConnection)
      /\ \A u \in Tasks : object'[u] = object[u] \/ (u = t /\ object'[u] = connection.id)
      /\ retrying' = retrying \/ (retrying' = 0 /\ t = "reattach" /\ pc'[t] = "none")
  <2>1. /\ t \in Tasks /\ Len(attempts) \in Nat
    BY Queued DEF Inv, Tasks
  <2>2. /\ \/ pc' = [pc EXCEPT ![t] = "loop"] /\ object'[t] = record.id /\ record.attached
           \/ pc' = [pc EXCEPT ![t] = "none"]
        /\ connection' \in Records
        /\ retrying' = retrying \/ (retrying' = 0 /\ t = "reattach" /\ pc'[t] = "none")
    BY <1>0 DEF WentOn
  <2>3. /\ connection'.id \in {0, connection.id}
        /\ (connection'.id = 0 => connection' = NoConnection)
    BY <1>0, NoRecord DEF WentOn
  <2>4. \A u \in Tasks : object'[u] = object[u] \/ (u = t /\ object'[u] = connection.id)
    BY <1>0 DEF WentOn
  <2>. QED
    BY <2>1, <2>2, <2>3, <2>4
<1>2. /\ \A u \in Tasks \ {t} : pc'[u] = pc[u]
      /\ pc'[t] \in {"none", "loop"} /\ (pc'[t] = "loop" => object'[t] = record.id /\ record.attached)
      /\ pc' \in [Tasks -> Steps]
  BY <1>1 DEF Inv, TypeOK, Steps
<1>3. /\ pc'["tool"] = pc["tool"] /\ pc'["idle"] = pc["idle"] /\ object'["tool"] = object["tool"]
      /\ t = "reattach" => pc'["restore"] = pc["restore"]
      /\ t = "restore" => pc'["reattach"] = pc["reattach"] /\ object'["reattach"] = object["reattach"]
  BY <1>1, <1>2 DEF Tasks
<1>4. TypeOK'
  <2>1. /\ connection' \in Records /\ stored' \in [listed : BOOLEAN, domains : SUBSET Domains]
        /\ orphans' \in SUBSET Ids /\ object' \in [Tasks -> 0..MaxConnections]
        /\ todo' \in [Tasks -> SUBSET Domains]
    BY <1>0 DEF WentOn
  <2>2. retrying' \in 0..MaxConnections
    BY <1>1, Queued DEF Inv, TypeOK
  <2>. QED
    BY <1>2, <2>1, <2>2 DEF Inv, TypeOK, Records, Steps
<1>5. Phases'
  BY <1>2, <1>3 DEF Inv, Phases
<1>6. Numbered'
  <2>1. /\ connection'.id \in 0..Len(attempts') /\ (~Known' => connection' = NoConnection)
        /\ retrying' \in 0..Len(attempts') /\ \A u \in Tasks : object'[u] \in 0..Len(attempts')
    BY <1>1 DEF Inv, Numbered, Known
  <2>2. \A i \in 1..Len(reattachTimers') : reattachTimers'[i] \in 1..Len(attempts')
    BY DEF Inv, Numbered
  <2>3. record.attached => record.id # 0
    BY AttachedKnown DEF Known
  <2>4. pc'["reattach"] # "none" => retrying' # 0 /\ object'["reattach"] # 0
    BY <1>1, <1>2, <1>3, <2>3 DEF Inv, Numbered
  <2>. QED
    BY <1>3, <2>1, <2>2, <2>4 DEF Inv, Numbered
<1>7. Room'
  BY <1>2, <1>3 DEF Inv, Room, Restoring
<1>. QED
  BY <1>4, <1>5, <1>6, <1>7

LEMMA LoopRepliedPreservesInv ==
  ASSUME Inv, NEW t \in Tasks, LoopReplied(t)
  PROVE  Inv'
<1> DEFINE d == IF "Page" \in todo[t] THEN "Page" ELSE "Runtime"
           record == Marked(t, d)
<1>1. /\ pc[t] = "loop" /\ Takes(d) /\ Proceed(t, todo[t] \ {d}, record)
      /\ UNCHANGED <<tabOpen, inChrome, calls, attempts, reattachTimers, tool, attachedForCall,
                     idleTimer, subscribed, canceled, refused, cutShort, restarts>>
  BY DEF LoopReplied, tools, observed
<1>2. /\ t \in {"reattach", "restore"} /\ (t = "restore" => restarts # 0)
      /\ (t = "reattach" => pc["reattach"] # "none") /\ (~Restoring \/ t = "reattach")
  BY <1>1 DEF Inv, Phases, Tasks, Restoring
<1>3. /\ record \in Records /\ record.id = connection.id /\ (~Known => record = connection)
      /\ record.attached = connection.attached /\ record.userDetached = connection.userDetached
      /\ record.keepalive = connection.keepalive
      /\ connection.domains \subseteq record.domains
      /\ (Holds(t) => d \in record.domains)
      /\ record.domains \subseteq connection.domains \union {d}
  BY DEF Inv, TypeOK, Records, Marked, Holds, Domains
<1>4. /\ live' \in SUBSET Domains /\ live \subseteq live' /\ (inChrome => d \in live')
      /\ todo[t] \ {d} \in SUBSET Domains
  BY <1>1 DEF Takes, Inv, TypeOK, Domains
<1>5. WentOn(t, todo[t] \ {d}, record)
  BY <1>1, <1>2, <1>3, <1>4, Proceeding
<1>6. TypeOK' /\ Phases' /\ Numbered' /\ Room'
  <2>1. calls' \in Seq(Tasks) /\ inChrome' \in BOOLEAN
    BY <1>1 DEF Inv, TypeOK
  <2>. HIDE DEF d, record
  <2>. QED
    BY <1>1, <1>2, <1>3, <1>4, <2>1, GoneOn
<1>7. /\ \/ connection' = NoConnection /\ ~connection.attached
         \/ /\ connection'.id = connection.id /\ connection'.attached = connection.attached
            /\ connection'.domains = record.domains
            /\ connection'.userDetached = connection.userDetached
            /\ (connection.keepalive => connection'.keepalive)
      /\ orphans \subseteq orphans'
      /\ (t = "restore" => todo'["reattach"] = todo["reattach"])
      /\ (connection.attached => todo'[t] = (todo[t] \ {d}) \ record.domains)
      /\ \/ pc'[t] = "loop" /\ connection.attached
         \/ /\ pc'[t] = "none" /\ (connection.attached => todo'[t] = {})
            /\ (t = "reattach" /\ connection'.attached => connection'.keepalive)
      /\ \A u \in Tasks \ {t} : pc'[u] = pc[u]
  BY <1>3, <1>5 DEF WentOn, Inv, TypeOK, Tasks
<1>8. /\ pc'["tool"] = pc["tool"] /\ pc'["idle"] = pc["idle"]
      /\ (t = "reattach" => pc'["restore"] = pc["restore"])
      /\ (t = "restore" => pc'["reattach"] = pc["reattach"])
  BY <1>2, <1>7 DEF Tasks
<1>9. RecordIsTrue' /\ Closed' /\ DomainsAreLive' /\ Reviving'
  <2>1. RecordIsTrue' /\ Closed'
    BY <1>1, <1>7, NoRecord DEF Inv, RecordIsTrue, Closed
  <2>2. DomainsAreLive'
    <3> HIDE DEF d, record
    <3>1. connection'.attached => connection.attached /\ connection'.domains = record.domains
      BY <1>7, NoRecord
    <3>2. restarts = 0 /\ connection.attached =>
            /\ inChrome /\ connection.domains \subseteq live'
      BY <1>4 DEF Inv, RecordIsTrue, DomainsAreLive
    <3>3. restarts' = restarts
      BY <1>1
    <3>. QED
      BY <1>3, <1>4, <3>1, <3>2, <3>3 DEF DomainsAreLive
  <2>3. Reviving'
    BY <1>1, <1>2, <1>7, <1>8, NoRecord DEF Inv, Reviving
  <2>. QED
    BY <2>1, <2>2, <2>3
<1>10. FirstRecord' => t = "reattach" /\ FirstRecord
  BY <1>1, <1>2 DEF FirstRecord
<1>11. Alone'
  BY <1>1, <1>7, <1>8, <1>10, NoRecord DEF Inv, Alone, Known
<1>12. SubscriptionKept'
  <2> SUFFICES ASSUME FirstRecord', subscribed', Known', ~cutShort'
               PROVE  /\ \/ "Runtime" \in connection'.domains
                         \/ pc'["reattach"] = "loop" /\ "Runtime" \in todo'["reattach"]
                      /\ pc'["reattach"] \in {"get", "attach"} => "Runtime" \in todo'["reattach"]
    BY DEF SubscriptionKept
  <2>1. t = "reattach" /\ FirstRecord /\ Known /\ connection.attached
    BY <1>1, <1>7, <1>10, NoRecord DEF Inv, Uncut, Known
  <2>2. Holds(t)
    BY <1>1, <2>1, AttachedKnown, Queued DEF Inv, TypeOK, Numbered, FirstRecord, Holds, Known
  <2>3. "Runtime" \in connection.domains \/ "Runtime" \in todo[t]
    BY <1>1, <2>1 DEF Inv, SubscriptionKept
  <2>. QED
    BY <1>3, <1>7, <2>1, <2>2, <2>3, NoRecord
<1>13. Uncut'
  BY <1>1, <1>7, <1>8, <1>10, NoRecord DEF Inv, Uncut, Known
<1>. QED
  BY <1>6, <1>9, <1>11, <1>12, <1>13 DEF Inv

LEMMA ReattachedPreservesInv ==
  ASSUME Inv, Reattached
  PROVE  Inv'
<1> DEFINE record == IF Holds("reattach")
                     THEN [connection EXCEPT !.attached = TRUE, !.domains = {}]
                     ELSE connection
<1>1. /\ pc["reattach"] = "attach" /\ tabOpen /\ ~inChrome
      /\ calls # <<>> /\ calls' = Tail(calls)
      /\ inChrome' /\ inChrome' \in BOOLEAN /\ live' = {}
      /\ Proceed("reattach", todo["reattach"], record)
      /\ UNCHANGED <<tabOpen, attempts, reattachTimers, tool, attachedForCall,
                     idleTimer, subscribed, canceled, refused, cutShort, restarts>>
  BY DEF Reattached, Replied, tools, observed
<1>2. /\ record \in Records /\ record.id = connection.id /\ (~Known => record = connection)
      /\ record.keepalive = connection.keepalive /\ record.userDetached = connection.userDetached
      /\ record.attached = Holds("reattach") /\ record.domains \subseteq connection.domains
      /\ Holds("reattach") => record.domains = {}
  BY <1>1 DEF Inv, TypeOK, RecordIsTrue, Records, Holds, Known
<1>3. todo["reattach"] \in SUBSET Domains /\ "reattach" \in Tasks
  BY DEF Inv, TypeOK, Tasks
<1>4. WentOn("reattach", todo["reattach"], record)
  BY <1>1, <1>2, <1>3, Proceeding
<1>5. TypeOK' /\ Phases' /\ Numbered' /\ Room'
  <2>1. calls' \in Seq(Tasks) /\ inChrome' \in BOOLEAN /\ live' \in SUBSET Domains
    BY <1>1, Queued DEF Inv
  <2>. HIDE DEF record
  <2>. QED
    BY <1>1, <1>2, <1>3, <2>1, GoneOn
<1>6. /\ \/ connection' = NoConnection /\ ~Holds("reattach")
         \/ /\ connection'.id = connection.id /\ connection'.attached = Holds("reattach")
            /\ (Holds("reattach") => connection'.domains = {})
            /\ connection'.userDetached = connection.userDetached
            /\ (connection.keepalive => connection'.keepalive)
      /\ orphans \subseteq orphans'
      /\ (Holds("reattach") => todo'["reattach"] = todo["reattach"])
      /\ \/ pc'["reattach"] = "loop" /\ Holds("reattach")
         \/ /\ pc'["reattach"] = "none" /\ (Holds("reattach") => todo'["reattach"] = {})
            /\ (connection'.attached => connection'.keepalive)
      /\ pc'["tool"] = pc["tool"] /\ pc'["idle"] = pc["idle"] /\ pc'["restore"] = pc["restore"]
  <2> HIDE DEF record
  <2>1. \/ connection' = NoConnection /\ ~Holds("reattach")
        \/ /\ connection'.id = connection.id /\ connection'.attached = Holds("reattach")
           /\ (Holds("reattach") => connection'.domains = {})
           /\ connection'.userDetached = connection.userDetached
           /\ (connection.keepalive => connection'.keepalive)
    BY <1>2, <1>4 DEF WentOn
  <2>2. /\ orphans \subseteq orphans'
        /\ (Holds("reattach") => todo'["reattach"] = todo["reattach"])
    BY <1>2, <1>3, <1>4 DEF WentOn
  <2>3. \/ pc'["reattach"] = "loop" /\ Holds("reattach")
        \/ /\ pc'["reattach"] = "none" /\ (Holds("reattach") => todo'["reattach"] = {})
           /\ (connection'.attached => connection'.keepalive)
    BY <1>2, <1>4 DEF WentOn
  <2>4. pc'["tool"] = pc["tool"] /\ pc'["idle"] = pc["idle"] /\ pc'["restore"] = pc["restore"]
    BY <1>4 DEF WentOn, Inv, TypeOK, Tasks
  <2>. QED
    BY <2>1, <2>2, <2>3, <2>4
<1>7. RecordIsTrue' /\ Closed' /\ DomainsAreLive' /\ Reviving'
  BY <1>1, <1>6, NoRecord DEF Inv, RecordIsTrue, Closed, DomainsAreLive, Reviving
<1>8. ASSUME FirstRecord'
      PROVE  /\ FirstRecord /\ Known /\ ~canceled /\ Holds("reattach")
             /\ pc["idle"] # "detach"
  <2>1. FirstRecord /\ Known /\ ~canceled
    BY <1>1, <1>8 DEF Inv, Alone, FirstRecord
  <2>2. Holds("reattach")
    BY <1>1, <1>3, <2>1, AttachedKnown, Queued DEF Inv, Numbered, FirstRecord, Holds
  <2>3. pc["idle"] # "detach"
    BY <1>1, <2>1 DEF Inv, Alone, RecordIsTrue
  <2>. QED
    BY <2>1, <2>2, <2>3
<1>9. Alone' /\ SubscriptionKept' /\ Uncut'
  BY <1>1, <1>6, <1>8, NoRecord DEF Inv, Alone, SubscriptionKept, Uncut
<1>. QED
  BY <1>5, <1>7, <1>9 DEF Inv

LEMMA ReattachRefusedPreservesInv ==
  ASSUME Inv, ReattachRefused
  PROVE  Inv'
<1>1. /\ pc["reattach"] = "attach" /\ Refuses /\ pc' = [pc EXCEPT !["reattach"] = "none"]
      /\ calls # <<>> /\ calls' = Tail(calls) /\ retrying' = 0
      /\ refused' \in BOOLEAN
      /\ connection' \in {connection, NoConnection} /\ stored' \in {stored, NotStored}
      /\ orphans' \in {orphans, orphans \union Orphan}
      /\ UNCHANGED <<tabOpen, inChrome, live, attempts, reattachTimers, tool,
                     attachedForCall, idleTimer, subscribed, object, todo, canceled,
                     cutShort, restarts>>
  BY Queued, AttachedKnown DEF Inv, TypeOK, ReattachRefused, ReattachFails, Dropped,
     Replied, Goto, tools
<1>2. /\ pc'["reattach"] = "none"
      /\ pc'["tool"] = pc["tool"] /\ pc'["idle"] = pc["idle"] /\ pc'["restore"] = pc["restore"]
  BY <1>1 DEF Inv, TypeOK, Tasks
<1>3. TypeOK'
  BY <1>1, Queued, NoRecord, DebuggerSessionAssumption DEF Inv, TypeOK, Tasks, Records
<1>4. Phases' /\ Numbered'
  BY <1>1, <1>2, AttachedKnown, NoRecord, Queued DEF Inv, Phases, Numbered, Known, Tasks
<1>5. Room'
  BY <1>1, <1>2, Queued DEF Inv, TypeOK, Tasks, Room, Restoring
<1>6. /\ RecordIsTrue' /\ Closed' /\ DomainsAreLive' /\ Reviving'
      /\ Alone' /\ SubscriptionKept' /\ Uncut'
  BY <1>1, <1>2, AttachedKnown, NoRecord DEF Inv, RecordIsTrue, Closed, DomainsAreLive, Reviving, Alone, SubscriptionKept,
     Uncut, FirstRecord, Known
<1>. QED
  BY <1>3, <1>4, <1>5, <1>6 DEF Inv

LEMMA RestoreResumesPreservesInv ==
  ASSUME Inv, RestoreResumes
  PROVE  Inv'
<1>1. /\ pc["restore"] = "resume" /\ Proceed("restore", todo["restore"] \ {"Page"}, connection)
      /\ UNCHANGED <<tabOpen, inChrome, live, calls, attempts, reattachTimers, tool,
                     attachedForCall, idleTimer, subscribed, canceled, refused, cutShort, restarts>>
  BY DEF RestoreResumes, tools, observed
<1>2. /\ restarts # 0 /\ ~Restoring /\ "restore" \in Tasks /\ connection \in Records
      /\ todo["restore"] \ {"Page"} \in SUBSET Domains
      /\ calls' \in Seq(Tasks) /\ inChrome' \in BOOLEAN /\ live' \in SUBSET Domains
  BY <1>1 DEF Inv, Phases, Restoring, Tasks, TypeOK, Records
<1>3. WentOn("restore", todo["restore"] \ {"Page"}, connection)
  BY <1>1, <1>2, Proceeding
<1>4. TypeOK' /\ Phases' /\ Numbered' /\ Room'
  BY <1>1, <1>2, GoneOn
<1>5. /\ (connection'.attached =>
           connection.attached /\ connection'.domains = connection.domains)
      /\ (connection'.attached /\ connection.keepalive => connection'.keepalive)
      /\ orphans \subseteq orphans'
  BY <1>3, NoRecord DEF WentOn
<1>6. /\ pc'["tool"] = pc["tool"] /\ pc'["idle"] = pc["idle"] /\ pc'["reattach"] = pc["reattach"]
  BY <1>3 DEF WentOn, Inv, TypeOK, Tasks
<1>7. RecordIsTrue' /\ Closed' /\ DomainsAreLive'
  BY <1>1, <1>2, <1>5 DEF Inv, RecordIsTrue, Closed, DomainsAreLive
<1>8. Reviving'
  BY <1>1, <1>5, <1>6 DEF Inv, Reviving
<1>9. Alone' /\ SubscriptionKept' /\ Uncut'
  BY <1>1, <1>2 DEF Alone, SubscriptionKept, Uncut, FirstRecord
<1>. QED
  BY <1>4, <1>7, <1>8, <1>9 DEF Inv

-----------------------------------------------------------------------------
LEMMA StutterPreservesInv ==
  ASSUME Inv, UNCHANGED vars
  PROVE  Inv'
<1>1. UNCHANGED <<tabOpen, inChrome, live, calls, stored, connection, attempts, reattachTimers,
                  orphans, tool, attachedForCall, idleTimer, subscribed, pc, object, retrying,
                  todo, canceled, refused, cutShort, restarts>>
  BY DEF vars, chrome, manager, tools, tasks, observed
<1>2. TypeOK' /\ Phases' /\ Numbered' /\ Room'
  BY <1>1 DEF Inv, TypeOK, Phases, Numbered, Known, Room, Restoring
<1>. QED
  BY <1>1, <1>2 DEF Inv, RecordIsTrue, Closed, DomainsAreLive, Reviving, Alone, SubscriptionKept,
     Uncut, FirstRecord, Known

LEMMA NextPreservesInv == Inv /\ [Next]_vars => Inv'
<1> SUFFICES ASSUME Inv, [Next]_vars PROVE Inv'
  OBVIOUS
<1>1. ASSUME NEW t \in Tasks, Step(t) PROVE Inv'
  <2>1. CASE AttachReplied(t) \/ AttachRefused(t) \/ LoopReplied(t)
    BY <2>1, AttachRepliedPreservesInv, AttachRefusedPreservesInv, LoopRepliedPreservesInv
  <2>2. CASE PageReplied \/ ComputerEnds \/ RuntimeReplied
    BY <2>2, PageRepliedPreservesInv, ComputerEndsPreservesInv, RuntimeRepliedPreservesInv
  <2>3. CASE ConsoleSubscribes
    BY <2>3, ConsoleAsksPreservesInv, ConsoleGoesOnPreservesInv
  <2>4. CASE DetachReplied
    BY <2>4, DetachRepliedPreservesInv
  <2>5. CASE TabFound \/ TabMissing \/ Reattached \/ ReattachRefused
    BY <2>5, TabFoundPreservesInv, TabMissingPreservesInv, ReattachedPreservesInv,
       ReattachRefusedPreservesInv
  <2>6. CASE RestoreReads \/ RestoreFinds
    BY <2>6, RestoreReadsPreservesInv, RestoreReadsNonePreservesInv, RestoreFindsPreservesInv,
       RestoreFindsNonePreservesInv
  <2>7. CASE TakesOver \/ AttachesAgain \/ RestoredPageReplied \/ RestoreResumes
    BY <2>7, TakesOverPreservesInv, AttachesAgainPreservesInv, RestoredPageRepliedPreservesInv,
       RestoreResumesPreservesInv
  <2>. QED
    BY <1>1, <2>1, <2>2, <2>3, <2>4, <2>5, <2>6, <2>7 DEF Step
<1>2. ASSUME NEW kind \in Tools, StartTool(kind) PROVE Inv'
  BY <1>2, StartToolPreservesInv
<1>3. ASSUME IdleDetach PROVE Inv'
  BY <1>3, IdlePreservesInv, IdleNotPreservesInv
<1>4. ASSUME ReattachTimeout PROVE Inv'
  BY <1>4, ReattachBeginsPreservesInv, ReattachNotPreservesInv
<1>5. ASSUME NEW reason \in Reasons, HandleDetach(reason) PROVE Inv'
  BY <1>5, UnknownDetachPreservesInv, LastDetachPreservesInv, RetriedDetachPreservesInv
<1>6. CASE OrphanTick \/ TabCloses \/ WorkerRestarts \/ UNCHANGED vars
  BY <1>6, OrphanTickPreservesInv, TabClosesPreservesInv, WorkerRestartsPreservesInv,
     StutterPreservesInv
<1>. QED
  BY <1>1, <1>2, <1>3, <1>4, <1>5, <1>6 DEF Next

LEMMA Invariant == Spec => []Inv
BY Initially, NextPreservesInv, PTL DEF Spec

-----------------------------------------------------------------------------
(* What keeps a session that the user has canceled from coming back.  A tab   *)
(* without a record is stored only by the worker before, and what it stored   *)
(* is looked at before the session can be lost; a cancel leaves no record, no *)
(* entry in the storage, and no task that would attach.                       *)
Withheld ==
  /\ stored.listed /\ ~Known =>
       attempts = <<>> /\ (inChrome => pc["restore"] \in {"read", "get", "targets"})
  /\ canceled =>
       /\ ~inChrome /\ ~Known /\ ~stored.listed
       /\ pc["reattach"] \notin {"get", "attach"}
       /\ pc["restore"] \notin {"get", "targets", "attach"}

LEMMA InitiallyWithheld == Init => Withheld
BY DEF Init, Withheld, NotStored

(* A record that says that it is not attached is not stored. *)
LEMMA NotPersisted ==
  ASSUME NEW record, persistState(record), ~record.attached
  PROVE  ~stored'.listed
BY DEF persistState, NotStored

(* A loop that goes on makes no record, and stores none that is gone. *)
LEMMA ProceedingWithheld ==
  ASSUME Inv, Withheld, NEW t \in {"reattach", "restore"}, NEW domains,
         NEW record \in Records, record.id = connection.id, ~Known => ~record.attached,
         Proceed(t, domains, record), pc[t] # "read",
         UNCHANGED attempts, canceled' = canceled,
         canceled => ~inChrome', inChrome' = inChrome \/ attempts # <<>>,
         t = "restore" => pc["restore"] \notin {"get", "targets"}
  PROVE  Withheld'
<1>1. t \in Tasks /\ pc \in [Tasks -> Steps]
  BY DEF Tasks, Inv, TypeOK, Steps
<1>2. \/ pc' = [pc EXCEPT ![t] = "loop"] /\ connection' = record /\ stored' = stored
         /\ record.attached
      \/ pc' = [pc EXCEPT ![t] = "none"] /\ connection' = record /\ stored' = stored
      \/ pc' = [pc EXCEPT ![t] = "none"] /\ connection' = NoConnection /\ stored' = NotStored
      \/ pc' = [pc EXCEPT ![t] = "none"] /\ connection' = startKeepalive(record)
         /\ persistState(record)
  BY DEF Proceed, ReattachFails, Dropped, Goto
<1>3. connection'.id \in {0, record.id}
  BY <1>2 DEF startKeepalive, NoConnection, Records
<1>4. Known' \/ ~stored'.listed \/ (~Known /\ stored' = stored)
  <2>1. CASE connection' = record /\ stored' = stored
    BY <2>1 DEF Known
  <2>2. CASE stored' = NotStored
    BY <2>2 DEF NotStored
  <2>3. CASE connection' = startKeepalive(record) /\ persistState(record)
    <3>1. CASE Known
      BY <2>3, <3>1 DEF Known, startKeepalive, Records
    <3>2. CASE ~Known
      BY <2>3, <3>2, NotPersisted
    <3>. QED
      BY <3>1, <3>2
  <2>. QED
    BY <1>2, <2>1, <2>2, <2>3
<1>5. /\ pc'["reattach"] \in {pc["reattach"], "loop", "none"}
      /\ pc'["restore"] \in {pc["restore"], "loop", "none"}
      /\ t = "reattach" => pc'["restore"] = pc["restore"]
  BY <1>1, <1>2 DEF Tasks
<1>6. ASSUME stored'.listed, ~Known'
      PROVE  attempts' = <<>> /\ (inChrome' => pc'["restore"] \in {"read", "get", "targets"})
  <2>1. ~Known /\ stored.listed
    BY <1>4, <1>6
  <2>2. attempts = <<>> /\ (inChrome => pc["restore"] \in {"read", "get", "targets"})
    BY <2>1 DEF Withheld
  <2>3. inChrome' = inChrome
    BY <2>2
  <2>. QED
    BY <1>5, <2>2, <2>3
<1>7. ASSUME canceled'
      PROVE  /\ ~inChrome' /\ ~Known' /\ ~stored'.listed
             /\ pc'["reattach"] \notin {"get", "attach"}
             /\ pc'["restore"] \notin {"get", "targets", "attach"}
  <2>1. /\ ~Known /\ ~stored.listed /\ pc["reattach"] \notin {"get", "attach"}
        /\ pc["restore"] \notin {"get", "targets", "attach"}
    BY <1>7 DEF Withheld
  <2>2. ~Known'
    BY <1>3, <2>1 DEF Known
  <2>3. ~stored'.listed
    BY <1>4, <2>1, <2>2
  <2>. QED
    BY <1>5, <1>7, <2>1, <2>2, <2>3
<1>. QED
  BY <1>6, <1>7 DEF Withheld

LEMMA StepPreservesWithheld == Inv /\ Withheld /\ [Next]_vars => Withheld'
<1> SUFFICES ASSUME Inv, Withheld, [Next]_vars PROVE Withheld'
  OBVIOUS
<1>a. /\ pc \in [Tasks -> Steps] /\ "tool" \in Tasks /\ "idle" \in Tasks
      /\ "reattach" \in Tasks /\ "restore" \in Tasks
  BY DEF Inv, TypeOK, Tasks, Steps
<1>1. ASSUME NEW t \in Tasks, AttachReplied(t) PROVE Withheld'
  <2>1. /\ pc[t] = "attach" /\ pc' = [pc EXCEPT ![t] = "page"] /\ t \in {"tool", "restore"}
        /\ canceled' = (canceled /\ t # "tool") /\ stored' = stored
        /\ connection'.id = Len(attempts) + 1 /\ Len(attempts) \in Nat
    BY <1>1, Queued DEF AttachReplied, Replied, Goto, NewConnection, Inv
  <2>2. Known'
    BY <2>1 DEF Known
  <2>3. ~canceled'
    <3>1. CASE t = "tool"
      BY <2>1, <3>1
    <3>2. CASE t = "restore"
      BY <2>1, <3>2 DEF Withheld
    <3>. QED
      BY <2>1, <3>1, <3>2
  <2>. QED
    BY <2>2, <2>3 DEF Withheld
<1>2. ASSUME NEW t \in Tasks, AttachRefused(t) PROVE Withheld'
  BY <1>a, <1>2 DEF AttachRefused, Answered, Replied, Goto, Withheld, Known, manager, observed
<1>3. ASSUME NEW t \in Tasks, LoopReplied(t) PROVE Withheld'
  <2> DEFINE d == IF "Page" \in todo[t] THEN "Page" ELSE "Runtime"
  <2>1. /\ pc[t] = "loop" /\ UNCHANGED <<inChrome, attempts, canceled>>
        /\ Proceed(t, todo[t] \ {d}, Marked(t, d)) /\ t \in {"reattach", "restore"}
    BY <1>3 DEF LoopReplied, observed, Inv, Phases, Tasks
  <2>2. /\ Marked(t, d) \in Records /\ Marked(t, d).id = connection.id
        /\ ~Known => ~Marked(t, d).attached
    BY AttachedKnown DEF Marked, Holds, Inv, TypeOK, Records, Domains
  <2>. QED
    BY <2>1, <2>2, ProceedingWithheld DEF Withheld
<1>4. CASE PageReplied \/ RestoredPageReplied
  <2>1. PICK t \in {"tool", "restore"} :
          /\ pc[t] = "page" /\ UNCHANGED <<inChrome, attempts, canceled>>
          /\ connection' = startKeepalive(Marked(t, "Page"))
          /\ persistState(connection')
          /\ pc' = [pc EXCEPT ![t] = IF t = "tool" THEN "use" ELSE "resume"]
    BY <1>4 DEF PageReplied, RestoredPageReplied, observed, Goto
  <2>2. /\ Marked(t, "Page").id = connection.id
        /\ Known' <=> Known
    BY <2>1 DEF Marked, Holds, Inv, TypeOK, startKeepalive, Known
  <2>3. ~Known => ~connection'.attached
    BY <2>1, <2>2, AttachedKnown DEF Marked, Holds, startKeepalive, Known
  <2>4. ~Known => ~stored'.listed
    BY <2>1, <2>3, NotPersisted
  <2>. QED
    BY <1>a, <2>1, <2>2, <2>4 DEF Withheld
<1>5. CASE ComputerEnds
  BY <1>a, <1>5 DEF ComputerEnds, Goto, Withheld, Known, chrome, manager, observed
<1>6. CASE ConsoleSubscribes
  BY <1>a, <1>6 DEF ConsoleSubscribes, Goto, Withheld, Known, chrome, manager, observed
<1>7. CASE RuntimeReplied
  BY <1>a, <1>7 DEF RuntimeReplied, Goto, Withheld, Known, Marked, Holds, Inv, TypeOK, observed
<1>8. CASE DetachReplied
  BY <1>a, <1>8 DEF DetachReplied, Answered, Goto, Withheld, Dropped, NoConnection, NotStored,
                    Known, observed
<1>9. CASE TabFound
  BY <1>a, <1>9 DEF TabFound, Replied, Goto, Withheld, Known, manager, observed
<1>10. CASE TabMissing
  BY <1>a, <1>10 DEF TabMissing, Answered, Goto, Withheld, Dropped, NoConnection, NotStored,
                     Known, observed
<1>11. CASE Reattached
  <2>1. PICK record : /\ record = connection \/ (Holds("reattach")
                            /\ record = [connection EXCEPT !.attached = TRUE, !.domains = {}])
                      /\ Proceed("reattach", todo["reattach"], record)
    BY <1>11 DEF Reattached
  <2>2. record \in Records /\ record.id = connection.id /\ (~Known => ~record.attached)
    BY <2>1, AttachedKnown DEF Holds, Inv, TypeOK, Records
  <2>3. /\ pc["reattach"] = "attach" /\ UNCHANGED <<attempts, canceled>> /\ ~canceled
        /\ attempts # <<>>
    BY <1>11 DEF Reattached, Replied, observed, Withheld, Inv, Numbered
  <2>. QED
    BY <2>1, <2>2, <2>3, ProceedingWithheld
<1>12. CASE ReattachRefused
  <2>1. /\ UNCHANGED <<inChrome, attempts, canceled>>
        /\ pc' = [pc EXCEPT !["reattach"] = "none"]
        /\ \/ connection' = NoConnection /\ stored' = NotStored
           \/ connection' = connection /\ stored' = stored
    BY <1>12 DEF ReattachRefused, ReattachFails, Dropped, Goto
  <2>. QED
    BY <1>a, <2>1 DEF Withheld, Known, NoConnection, NotStored
<1>13. CASE RestoreReads
  BY <1>a, <1>13 DEF RestoreReads, Call, Goto, Withheld, Known, manager, observed
<1>14. CASE RestoreFinds
  BY <1>a, <1>14 DEF RestoreFinds, Replied, Answered, Goto, Withheld, Known, Inv, Closed,
                     manager, observed
<1>15. CASE TakesOver
  <2>1. Known' /\ ~canceled'
    BY <1>15, Queued DEF TakesOver, Replied, NewConnection, Known, Withheld, Inv, observed
  <2>. QED
    BY <2>1 DEF Withheld
<1>16. CASE AttachesAgain
  BY <1>a, <1>16 DEF AttachesAgain, Replied, Goto, Withheld, Known, manager, observed
<1>17. CASE RestoreResumes
  <2>1. /\ pc["restore"] = "resume" /\ UNCHANGED <<inChrome, attempts, canceled>>
        /\ Proceed("restore", todo["restore"] \ {"Page"}, connection)
    BY <1>17 DEF RestoreResumes, observed
  <2>. QED
    BY <2>1, AttachedKnown, ProceedingWithheld DEF Withheld, Inv, TypeOK, Records
<1>18. ASSUME NEW kind \in Tools, StartTool(kind) PROVE Withheld'
  BY <1>a, <1>18 DEF StartTool, Call, Goto, Withheld, Known, manager, observed
<1>19. CASE IdleDetach
  <2>1. /\ connection'.id = connection.id
        /\ pc'["reattach"] = pc["reattach"] /\ pc'["restore"] = pc["restore"]
        /\ UNCHANGED <<inChrome, stored, attempts, canceled>>
    BY <1>a, <1>19 DEF IdleDetach, Call, Goto, observed, Inv, TypeOK
  <2>. QED
    BY <2>1 DEF Withheld, Known
<1>20. CASE ReattachTimeout
  <2>1. /\ UNCHANGED <<inChrome, connection, stored, attempts, canceled>>
        /\ pc'["restore"] = pc["restore"]
        /\ ~Known => pc'["reattach"] = pc["reattach"]
    BY <1>a, <1>20 DEF ReattachTimeout, Call, Goto, observed, tasks
  <2>. QED
    BY <2>1 DEF Withheld, Known
<1>21. ASSUME NEW reason \in Reasons, HandleDetach(reason) PROVE Withheld'
  <2>1. /\ inChrome /\ ~inChrome' /\ pc' = pc
        /\ canceled' => canceled \/ ~Attaching
        /\ canceled' => canceled \/ reason = "canceled_by_user"
    BY <1>21 DEF HandleDetach, tasks
  <2>2. \/ ~Known /\ UNCHANGED <<connection, attempts, stored>>
        \/ Known' /\ reason # "canceled_by_user"
        \/ ~Known' /\ ~stored'.listed
    <3>1. CASE ~Known
      BY <1>21, <3>1 DEF HandleDetach, manager
    <3>2. CASE Known /\ Retries(reason)
      BY <1>21, <3>2 DEF HandleDetach, Retries, Lost, Known, Inv, TypeOK
    <3>3. CASE Known /\ ~Retries(reason)
      BY <1>21, <3>3 DEF HandleDetach, Known, NoConnection, NotStored
    <3>. QED
      BY <3>1, <3>2, <3>3
  <2>. QED
    BY <2>1, <2>2 DEF Withheld, Attaching, Known
<1>22. CASE OrphanTick
  <2>1. /\ connection'.id = connection.id /\ pc' = pc
        /\ UNCHANGED <<inChrome, stored, attempts, canceled>>
    BY <1>22 DEF OrphanTick, chrome, tasks, observed, Inv, TypeOK
  <2>. QED
    BY <2>1 DEF Withheld, Known
<1>23. CASE TabCloses
  BY <1>23 DEF TabCloses, Withheld, Known, NoConnection, NotStored, tasks, observed
<1>24. CASE WorkerRestarts
  BY <1>24 DEF WorkerRestarts, Withheld, Known, NoConnection, Tasks, chrome, observed
<1>25. CASE UNCHANGED vars
  BY <1>25 DEF vars, chrome, manager, tasks, observed, Withheld, Known
<1>. QED
  BY <1>1, <1>2, <1>3, <1>4, <1>5, <1>6, <1>7, <1>8, <1>9, <1>10, <1>11, <1>12, <1>13, <1>14,
     <1>15, <1>16, <1>17, <1>18, <1>19, <1>20, <1>21, <1>22, <1>23, <1>24, <1>25 DEF Next, Step

LEMMA WithheldInvariance == Spec => []Withheld
<1>1. Inv /\ Inv' /\ Withheld /\ [Next]_vars => Withheld'
  BY StepPreservesWithheld
<1>. QED
  BY <1>1, InitiallyWithheld, Invariant, PTL DEF Spec

(* The variables keep their types: a task waits only where it can, and the   *)
(* records stay within their bound.                                          *)
THEOREM SessionTypes == Spec => []TypeOK
<1>1. Inv => TypeOK
  BY DEF Inv
<1>. QED
  BY <1>1, Invariant, PTL

(* However tools, detaches, reattachments and restarts of the worker          *)
(* interleave, no record claims a session that Chrome has ended, so that no  *)
(* tool sends commands to one; and a session that the user has canceled is   *)
(* not begun again but by a tool, unless a reattach or a restoration was on  *)
(* its way to attach when the user did so (cdp.ts, handleDetach, reattach    *)
(* and restoreConnections).                                                  *)
THEOREM RecordFollowsChrome == Spec => []RecordFollows
<1>1. Inv /\ Withheld => RecordFollows
  BY DEF Inv, Withheld, CancelRespected, RecordFollows
<1>. QED
  BY <1>1, Invariant, WithheldInvariance, PTL

(* When no task is at work: a tab that is in its first session under the     *)
(* first worker has its record, and its console is heard if it was           *)
(* subscribed, unless a session was lost while its domains were being        *)
(* enabled; in any session of the first worker each domain that the record   *)
(* lists is enabled; and in any session of any worker the keepalive interval *)
(* runs, unless that of a record that was lost is still there to stop it.    *)
THEOREM SessionAlwaysServed == Spec => []SessionIsServed
<1>1. Inv => SessionIsServed
  <2> SUFFICES ASSUME Inv PROVE SessionIsServed
    OBVIOUS
  <2>1. AttachedIsKnown
    BY DEF Inv, Alone, AttachedIsKnown
  <2>2. KeptAlive
    BY DEF Inv, Reviving, KeptAlive, Quiet, Tasks
  <2>3. SubscriptionLive
    BY AttachedKnown DEF Inv, SubscriptionKept, DomainsAreLive, SubscriptionLive, DomainsRestored,
       FirstRecord, Quiet, Tasks
  <2>. QED
    BY <2>1, <2>2, <2>3 DEF Inv, SessionIsServed
<1>. QED
  BY <1>1, Invariant, PTL

=============================================================================

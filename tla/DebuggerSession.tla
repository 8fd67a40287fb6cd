--------------------------- MODULE DebuggerSession ---------------------------
(***************************************************************************)
(* The debugger session of one tab: CDPManager                             *)
(* (extension/src/service-worker/cdp.ts), the computer tool, which detaches *)
(* it some time after use, and the console tool, which subscribes to the   *)
(* events of a domain (network.ts does the same with another domain).      *)
(*                                                                         *)
(* Four tasks interleave at their awaits: the tool call that has the       *)
(* router, the detach of the computer tool's timer, the reattach after an  *)
(* unexpected detach, and the restoration when the service worker starts.  *)
(* Tabs do not interact.  inChrome is the session as the worker has been    *)
(* told: replies and events reach it in the order Chrome acts in, so an    *)
(* attach or a detach takes effect when its reply is read.  A command that *)
(* is on its way when the session ends is rejected before anything else.   *)
(***************************************************************************)
EXTENDS Naturals, Sequences

CONSTANTS
  Tools,                 \* which of "computer" and "console" are called
  Reasons,               \* why Chrome detaches: "canceled_by_user", "unexpected"
  MaxReattachAttempts,   \* MAX_REATTACH_ATTEMPTS
  MayRefuse,             \* may Chrome refuse to attach, as to a page of its own?
  MaxConnections,        \* bound: TabConnection objects
  MaxRestarts            \* bound: restarts of the service worker

ASSUME DebuggerSessionAssumption ==
  /\ Tools \subseteq {"computer", "console"}
  /\ Reasons \subseteq {"canceled_by_user", "unexpected"}
  /\ MaxReattachAttempts \in Nat
  /\ MayRefuse \in BOOLEAN
  /\ MaxConnections \in Nat \ {0} /\ MaxRestarts \in Nat

VARIABLES
  (* Chrome *)
  tabOpen,
  inChrome,         \* is the debugger attached by the extension?
  live,             \* domains enabled in the session
  calls,            \* tasks whose chrome.* call is to be answered, in order
  stored,           \* the tab's entry in chrome.storage.session
  (* CDPManager *)
  connection,       \* the record in `connections', or NoConnection
  attempts,         \* reattachAttempts of every record there was
  reattachTimers,   \* the records whose detach set each timer
  orphans,          \* detached records no longer in `connections', interval running
  (* the tools *)
  tool,             \* the tool that has the router
  attachedForCall,
  idleTimer,        \* is there a pendingDetachTimers entry?
  subscribed,       \* is the tab in the console tool's subscribedTabs?
  (* the tasks *)
  pc,
  object,           \* the record that each task holds
  retrying,         \* the record whose timer began the reattach
  todo,             \* the domains that each task has yet to enable
  canceled,         \* history: the user has canceled, when no task was on its way to
                    \* attach, and no tool has attached since
  refused,          \* history: Chrome has refused a reattach of an open tab
  cutShort,         \* history: a session was lost while the reattach enabled domains
  restarts

chrome == <<tabOpen, inChrome, live, calls, stored>>
manager == <<connection, attempts, reattachTimers, orphans>>
tools == <<tool, attachedForCall, idleTimer, subscribed>>
tasks == <<pc, object, retrying, todo>>
observed == <<canceled, refused, cutShort>>
vars == <<chrome, manager, tools, tasks, observed, restarts>>

Tasks == {"tool", "idle", "reattach", "restore"}
Domains == {"Page", "Runtime"}
Ids == 1..MaxConnections

NoConnection == [id |-> 0, attached |-> FALSE, domains |-> {}, keepalive |-> FALSE,
                 userDetached |-> FALSE]
NotStored == [listed |-> FALSE, domains |-> {}]

TypeOK ==
  /\ tabOpen \in BOOLEAN /\ inChrome \in BOOLEAN
  /\ live \in SUBSET Domains
  /\ calls \in Seq(Tasks)
  /\ stored \in [listed : BOOLEAN, domains : SUBSET Domains]
  /\ connection \in [id : 0..MaxConnections, attached : BOOLEAN, domains : SUBSET Domains,
                     keepalive : BOOLEAN, userDetached : BOOLEAN]
  /\ attempts \in Seq(0..MaxReattachAttempts) /\ Len(attempts) <= MaxConnections
  /\ reattachTimers \in Seq(Ids)
  /\ orphans \in SUBSET Ids
  /\ tool \in {"computer", "console"}
  /\ attachedForCall \in BOOLEAN /\ idleTimer \in BOOLEAN /\ subscribed \in BOOLEAN
  /\ pc \in [Tasks -> {"none", "read", "get", "targets", "attach", "detach", "page",
                       "use", "enable", "loop", "resume"}]
  /\ object \in [Tasks -> 0..MaxConnections] /\ retrying \in 0..MaxConnections
  /\ todo \in [Tasks -> SUBSET Domains]
  /\ canceled \in BOOLEAN /\ refused \in BOOLEAN /\ cutShort \in BOOLEAN
  /\ restarts \in 0..MaxRestarts

Init ==
  /\ tabOpen = TRUE /\ inChrome = FALSE /\ live = {} /\ calls = <<>> /\ stored = NotStored
  /\ connection = NoConnection /\ attempts = <<>> /\ reattachTimers = <<>> /\ orphans = {}
  /\ tool = "computer" /\ attachedForCall = FALSE /\ idleTimer = FALSE /\ subscribed = FALSE
  /\ pc = [t \in Tasks |-> "none"]
  /\ object = [t \in Tasks |-> 0] /\ retrying = 0
  /\ todo = [t \in Tasks |-> {}]
  /\ canceled = FALSE /\ refused = FALSE /\ cutShort = FALSE /\ restarts = 0

-----------------------------------------------------------------------------
Known == connection.id # 0
Holds(t) == Known /\ object[t] = connection.id
Replied(t, step) == calls # <<>> /\ Head(calls) = t /\ pc[t] = step
Goto(t, step) == pc' = [pc EXCEPT ![t] = step]
Call(t, step) == Goto(t, step) /\ calls' = Append(calls, t)
Answered(t) == calls' = Tail(calls) /\ Goto(t, "none")

(* Chrome answers a command of task t: in a session that has ended, with an  *)
(* error.                                                                    *)
Takes(d) == live' = IF inChrome THEN live \union {d} ELSE live
NoCommand == \A t \in Tasks : pc[t] \notin {"page", "enable", "loop"}

(* The interval of a record that has left `connections'. *)
Orphan == IF Known /\ connection.keepalive /\ ~connection.attached THEN {connection.id} ELSE {}
Dropped == connection' = NoConnection /\ orphans' = orphans \union Orphan

(* persistState: the tab is stored while it is attached. *)
persistState(record) ==
  stored' = IF record.attached THEN [listed |-> TRUE, domains |-> record.domains] ELSE NotStored

(* A new TabConnection takes the place of the record; task t holds it. *)
NewConnection(t, domains, keepalive) ==
  /\ connection' = [id |-> Len(attempts) + 1, attached |-> TRUE, domains |-> domains,
                    keepalive |-> keepalive, userDetached |-> FALSE]
  /\ orphans' = orphans \union Orphan
  /\ attempts' = Append(attempts, 0)
  /\ object' = [object EXCEPT ![t] = Len(attempts) + 1]

(* The record once domain d is marked in the one that task t holds, which is *)
(* done even if the command failed.                                          *)
Marked(t, d) == IF Holds(t) THEN [connection EXCEPT !.domains = @ \union {d}] ELSE connection

(* startKeepalive, on whatever record there is. *)
startKeepalive(record) == IF record.id = 0 THEN record ELSE [record EXCEPT !.keepalive = TRUE]

(* The catch of a reattach that has thrown: it gives up after the last of    *)
(* the attempts of the record whose timer began it, with the record there is.*)
ReattachFails(record) ==
  /\ IF attempts[retrying] = MaxReattachAttempts
     THEN Dropped /\ stored' = NotStored
     ELSE connection' = record /\ UNCHANGED <<orphans, stored>>
  /\ Goto("reattach", "none") /\ retrying' = 0

(* The loop of task t over its domains, up to its next command: a domain     *)
(* that the record has is passed over, a lost session makes it throw.        *)
Proceed(t, domains, record) ==
  LET rest == IF record.attached THEN domains \ record.domains ELSE domains IN
  /\ todo' = [todo EXCEPT ![t] = rest]
  /\ \/ /\ rest # {} /\ record.attached
        /\ connection' = record
        /\ Goto(t, "loop") /\ object' = [object EXCEPT ![t] = record.id]
        /\ UNCHANGED <<stored, orphans, retrying>>
     \/ /\ rest # {} /\ ~record.attached /\ UNCHANGED object
        /\ IF t = "reattach"
           THEN ReattachFails(record)
           ELSE connection' = record /\ Goto(t, "none") /\ UNCHANGED <<stored, orphans, retrying>>
     \/ /\ rest = {} /\ Goto(t, "none") /\ UNCHANGED <<object, orphans>>
        /\ IF t = "reattach"
           THEN /\ connection' = startKeepalive(record) /\ persistState(record)
                /\ retrying' = 0
           ELSE connection' = record /\ UNCHANGED <<stored, retrying>>

-----------------------------------------------------------------------------
(* Tool calls and CDPManager.attach. *)

(* A call begins: the computer tool calls off its detach, and the session is *)
(* attached if the record does not say that it is.                           *)
StartTool(kind) ==
  /\ pc["tool"] = "none" /\ tabOpen
  /\ \/ connection.attached
     \/ Len(attempts) + (IF pc["restore"] = "none" THEN 0 ELSE 1) < MaxConnections
  /\ tool' = kind
  /\ attachedForCall' = FALSE
  /\ idleTimer' = (idleTimer /\ kind # "computer")
  /\ IF connection.attached THEN Goto("tool", "use") /\ UNCHANGED calls
                            ELSE Call("tool", "attach")
  /\ UNCHANGED <<tabOpen, inChrome, live, stored, manager, subscribed, object, retrying,
                 todo, observed, restarts>>

(* attach, for a tool or for the restoration. *)
AttachReplied(t) ==
  /\ t \in {"tool", "restore"} /\ Replied(t, "attach")
  /\ tabOpen /\ ~inChrome /\ NoCommand
  /\ inChrome' = TRUE /\ live' = {}
  /\ NewConnection(t, {}, FALSE)
  /\ calls' = Tail(calls) /\ Goto(t, "page")
  /\ canceled' = (canceled /\ t # "tool")
  /\ UNCHANGED <<tabOpen, stored, reattachTimers, tools, retrying, todo, refused, cutShort, restarts>>

(* Chrome refuses a second session, and some pages. *)
Refuses == ~tabOpen \/ inChrome \/ MayRefuse

AttachRefused(t) ==
  /\ t \in {"tool", "restore"} /\ Replied(t, "attach") /\ Refuses
  /\ Answered(t)
  /\ UNCHANGED <<tabOpen, inChrome, live, stored, manager, tools, object, retrying, todo,
                 observed, restarts>>

(* The rest of attach: the Page domain, the keepalive, the stored state. *)
PageReplied ==
  LET record == startKeepalive(Marked("tool", "Page")) IN
  /\ pc["tool"] = "page"
  /\ Takes("Page")
  /\ connection' = record
  /\ persistState(record)
  /\ Goto("tool", "use") /\ attachedForCall' = (tool = "computer")
  /\ UNCHANGED <<tabOpen, inChrome, calls, attempts, reattachTimers, orphans, tool,
                 idleTimer, subscribed, object, retrying, todo, observed, restarts>>

(* The computer tool ends, with or without the session it needed. *)
ComputerEnds ==
  /\ pc["tool"] = "use" /\ tool = "computer"
  /\ Goto("tool", "none")
  /\ idleTimer' = (idleTimer \/ attachedForCall)
  /\ UNCHANGED <<chrome, manager, tool, attachedForCall, subscribed, object, retrying, todo,
                 observed, restarts>>

(* The console tool subscribes, once, with enableDomain, which throws if the *)
(* session has gone in the meantime.                                         *)
ConsoleSubscribes ==
  /\ pc["tool"] = "use" /\ tool = "console"
  /\ IF ~subscribed /\ connection.attached /\ "Runtime" \notin connection.domains
     THEN /\ Goto("tool", "enable") /\ object' = [object EXCEPT !["tool"] = connection.id]
          /\ UNCHANGED subscribed
     ELSE /\ Goto("tool", "none") /\ UNCHANGED object
          /\ subscribed' = (subscribed \/ connection.attached)
  /\ UNCHANGED <<chrome, manager, tool, attachedForCall, idleTimer, retrying, todo,
                 observed, restarts>>

RuntimeReplied ==
  /\ pc["tool"] = "enable"
  /\ Takes("Runtime")
  /\ connection' = Marked("tool", "Runtime")
  /\ subscribed' = TRUE
  /\ Goto("tool", "none")
  /\ UNCHANGED <<tabOpen, inChrome, calls, stored, attempts, reattachTimers, orphans, tool,
                 attachedForCall, idleTimer, object, retrying, todo, observed, restarts>>

-----------------------------------------------------------------------------
(* detach, called by the computer tool's timer. *)

IdleDetach ==
  /\ idleTimer /\ pc["idle"] = "none"
  /\ idleTimer' = FALSE
  /\ IF connection.attached
     THEN /\ connection' = [connection EXCEPT !.userDetached = TRUE, !.keepalive = FALSE]
          /\ Call("idle", "detach")
     ELSE UNCHANGED <<connection, pc, calls>>
  /\ UNCHANGED <<tabOpen, inChrome, live, stored, attempts, reattachTimers, orphans, tool,
                 attachedForCall, subscribed, object, retrying, todo, observed, restarts>>

DetachReplied ==
  /\ Replied("idle", "detach")
  /\ Answered("idle")
  /\ inChrome' = FALSE /\ live' = {}
  /\ Dropped
  /\ stored' = NotStored
  /\ UNCHANGED <<tabOpen, attempts, reattachTimers, tools, object, retrying, todo, observed, restarts>>

-----------------------------------------------------------------------------
(* Detaches by Chrome, and the reattach. *)

(* Is the lost session to be attached again? *)
Retries(reason) ==
  /\ ~connection.userDetached /\ reason # "canceled_by_user"
  /\ attempts[connection.id] < MaxReattachAttempts

(* The record of a session that has been lost. *)
Lost == [connection EXCEPT !.attached = FALSE, !.keepalive = FALSE]

(* A reattach or a restoration has decided to attach, or is about to. *)
Attaching ==
  \/ pc["reattach"] \in {"get", "attach"}
  \/ pc["restore"] \in {"read", "get", "targets", "attach"}

(* handleDetach *)
HandleDetach(reason) ==
  /\ inChrome /\ Len(reattachTimers) < 2
  /\ inChrome' = FALSE /\ live' = {}
  /\ canceled' = IF reason = "canceled_by_user" THEN ~Attaching ELSE canceled
  /\ cutShort' = (cutShort \/ pc["reattach"] = "loop")
  /\ \/ ~Known /\ UNCHANGED <<manager, stored>>
     \/ /\ Known /\ Retries(reason)
        /\ attempts' = [attempts EXCEPT ![connection.id] = @ + 1]
        /\ reattachTimers' = Append(reattachTimers, connection.id)
        /\ connection' = Lost
        /\ UNCHANGED <<stored, orphans>>
     \/ /\ Known /\ ~Retries(reason)
        /\ connection' = NoConnection /\ stored' = NotStored
        /\ UNCHANGED <<attempts, reattachTimers, orphans>>
  /\ UNCHANGED <<tabOpen, calls, tools, tasks, refused, restarts>>

(* Slip: the reattach waits for the tools to pause. *)
ReattachTimeout_yields ==
  /\ reattachTimers # <<>> /\ pc["reattach"] = "none" /\ pc["tool"] = "none" /\ NoCommand
  /\ reattachTimers' = Tail(reattachTimers)
  /\ IF Known /\ ~connection.attached
     THEN /\ Call("reattach", "get")
          /\ object' = [object EXCEPT !["reattach"] = connection.id]
          /\ retrying' = Head(reattachTimers)
          /\ todo' = [todo EXCEPT !["reattach"] = connection.domains]
     ELSE UNCHANGED <<calls, tasks>>
  /\ UNCHANGED <<tabOpen, inChrome, live, stored, connection, attempts, orphans, tools,
                 observed, restarts>>

(* The timer of a detach.  It is set for a second, by which time a reattach  *)
(* before it and the commands of the lost session are done.                  *)
ReattachTimeout ==
  /\ reattachTimers # <<>> /\ pc["reattach"] = "none" /\ NoCommand
  /\ reattachTimers' = Tail(reattachTimers)
  /\ IF Known /\ ~connection.attached
     THEN /\ Call("reattach", "get")
          /\ object' = [object EXCEPT !["reattach"] = connection.id]
          /\ retrying' = Head(reattachTimers)
          /\ todo' = [todo EXCEPT !["reattach"] = connection.domains]
     ELSE UNCHANGED <<calls, tasks>>
  /\ UNCHANGED <<tabOpen, inChrome, live, stored, connection, attempts, orphans, tools,
                 observed, restarts>>

(* chrome.tabs.get, for a reattach: the tab may have been closed. *)
TabFound ==
  /\ Replied("reattach", "get") /\ tabOpen
  /\ Goto("reattach", "attach") /\ calls' = Append(Tail(calls), "reattach")
  /\ UNCHANGED <<tabOpen, inChrome, live, stored, manager, tools, object, retrying, todo,
                 observed, restarts>>

TabMissing ==
  /\ Replied("reattach", "get") /\ ~tabOpen
  /\ Answered("reattach") /\ retrying' = 0
  /\ Dropped /\ stored' = NotStored
  /\ UNCHANGED <<tabOpen, inChrome, live, attempts, reattachTimers, tools, object, todo,
                 observed, restarts>>

(* Slip: the domains of the lost session are left in the record. *)
Reattached_keepsDomains ==
  /\ Replied("reattach", "attach") /\ tabOpen /\ ~inChrome /\ NoCommand
  /\ calls' = Tail(calls)
  /\ inChrome' = TRUE /\ live' = {}
  /\ IF Holds("reattach")
     THEN Proceed("reattach", todo["reattach"],
                  [connection EXCEPT !.attached = TRUE])
     ELSE Proceed("reattach", todo["reattach"], connection)
  /\ UNCHANGED <<tabOpen, attempts, reattachTimers, tools, observed, restarts>>

(* The record that reattach holds becomes attached; it need not be the one   *)
(* that enableDomain then finds.                                             *)
Reattached ==
  /\ Replied("reattach", "attach") /\ tabOpen /\ ~inChrome /\ NoCommand
  /\ calls' = Tail(calls)
  /\ inChrome' = TRUE /\ live' = {}
  /\ IF Holds("reattach")
     THEN Proceed("reattach", todo["reattach"],
                  [connection EXCEPT !.attached = TRUE, !.domains = {}])
     ELSE Proceed("reattach", todo["reattach"], connection)
  /\ UNCHANGED <<tabOpen, attempts, reattachTimers, tools, observed, restarts>>

ReattachRefused ==
  /\ Replied("reattach", "attach") /\ Refuses
  /\ calls' = Tail(calls)
  /\ ReattachFails(connection)
  /\ refused' = (refused \/ tabOpen)
  /\ UNCHANGED <<tabOpen, inChrome, live, attempts, reattachTimers, tools, object, todo,
                 canceled, cutShort, restarts>>

(* The reply to the command of a loop. *)
LoopReplied(t) ==
  LET d == IF "Page" \in todo[t] THEN "Page" ELSE "Runtime" IN
  /\ pc[t] = "loop"
  /\ Takes(d)
  /\ Proceed(t, todo[t] \ {d}, Marked(t, d))
  /\ UNCHANGED <<tabOpen, inChrome, calls, attempts, reattachTimers, tools, observed, restarts>>

(* The interval of a detached record calls stopKeepalive with the tab's id,  *)
(* and so stops that of the record there is.                                 *)
OrphanTick ==
  /\ orphans # {}
  /\ connection' = [connection EXCEPT !.keepalive = FALSE]
  /\ UNCHANGED <<chrome, attempts, reattachTimers, orphans, tools, tasks, observed, restarts>>

-----------------------------------------------------------------------------
(* The tab closes: Chrome ends the session, cleanupTab and the console tool's *)
(* listener run.  The timer of the detach event finds nothing, and is left    *)
(* out.                                                                       *)
TabCloses ==
  /\ tabOpen
  /\ tabOpen' = FALSE /\ inChrome' = FALSE /\ live' = {}
  /\ subscribed' = FALSE
  /\ connection' = NoConnection
  /\ stored' = IF Known THEN NotStored ELSE stored
  /\ UNCHANGED <<calls, attempts, reattachTimers, orphans, tool, attachedForCall, idleTimer,
                 tasks, observed, restarts>>

(* The service worker is stopped and started: the session outlives it. *)
WorkerRestarts ==
  /\ restarts < MaxRestarts /\ calls = <<>> /\ tabOpen
  /\ connection' = NoConnection /\ attempts' = <<>> /\ reattachTimers' = <<>> /\ orphans' = {}
  /\ attachedForCall' = FALSE /\ idleTimer' = FALSE /\ subscribed' = FALSE
  /\ pc' = [t \in Tasks |-> IF t = "restore" THEN "read" ELSE "none"]
  /\ object' = [t \in Tasks |-> 0] /\ todo' = [t \in Tasks |-> {}] /\ retrying' = 0
  /\ restarts' = restarts + 1
  /\ UNCHANGED <<chrome, tool, observed>>

(* restoreConnections *)
RestoreReads ==
  /\ pc["restore"] = "read"
  /\ IF stored.listed
     THEN Call("restore", "get") /\ todo' = [todo EXCEPT !["restore"] = stored.domains]
     ELSE Goto("restore", "none") /\ UNCHANGED <<calls, todo>>
  /\ UNCHANGED <<tabOpen, inChrome, live, stored, manager, tools, object, retrying, observed, restarts>>

RestoreFinds ==
  /\ Replied("restore", "get")
  /\ IF tabOpen
     THEN Goto("restore", "targets") /\ calls' = Append(Tail(calls), "restore")
     ELSE Answered("restore")
  /\ UNCHANGED <<tabOpen, inChrome, live, stored, manager, tools, object, retrying, todo,
                 observed, restarts>>

(* Slip: the targets are not asked. *)
TakesOver_unchecked ==
  /\ Replied("restore", "targets")
  /\ Answered("restore")
  /\ NewConnection("restore", todo["restore"], TRUE)
  /\ UNCHANGED <<tabOpen, inChrome, live, stored, reattachTimers, tools, retrying, todo,
                 observed, restarts>>

(* getTargets: the session is taken over as it is, or attached again. *)
TakesOver ==
  /\ Replied("restore", "targets") /\ inChrome
  /\ Answered("restore")
  /\ NewConnection("restore", todo["restore"], TRUE)
  /\ UNCHANGED <<tabOpen, inChrome, live, stored, reattachTimers, tools, retrying, todo,
                 observed, restarts>>

AttachesAgain ==
  /\ Replied("restore", "targets") /\ ~inChrome
  /\ Goto("restore", "attach") /\ calls' = Append(Tail(calls), "restore")
  /\ UNCHANGED <<tabOpen, inChrome, live, stored, manager, tools, object, retrying, todo,
                 observed, restarts>>

RestoredPageReplied ==
  LET record == startKeepalive(Marked("restore", "Page")) IN
  /\ pc["restore"] = "page"
  /\ Takes("Page")
  /\ connection' = record
  /\ persistState(record)
  /\ Goto("restore", "resume")
  /\ UNCHANGED <<tabOpen, inChrome, calls, attempts, reattachTimers, orphans, tools, object,
                 retrying, todo, observed, restarts>>

(* persistState has been awaited. *)
RestoreResumes ==
  /\ pc["restore"] = "resume"
  /\ Proceed("restore", todo["restore"] \ {"Page"}, connection)
  /\ UNCHANGED <<tabOpen, inChrome, live, calls, attempts, reattachTimers, tools, observed, restarts>>

-----------------------------------------------------------------------------
Step(t) ==
  \/ AttachReplied(t) \/ AttachRefused(t) \/ LoopReplied(t)
  \/ t = "tool" /\ (PageReplied \/ ComputerEnds \/ ConsoleSubscribes \/ RuntimeReplied)
  \/ t = "idle" /\ DetachReplied
  \/ t = "reattach" /\ (TabFound \/ TabMissing \/ Reattached \/ ReattachRefused)
  \/ t = "restore" /\ (RestoreReads \/ RestoreFinds \/ TakesOver \/ AttachesAgain
                         \/ RestoredPageReplied \/ RestoreResumes)

Next ==
  \/ \E t \in Tasks : Step(t)
  \/ \E kind \in Tools : StartTool(kind)
  \/ IdleDetach \/ ReattachTimeout \/ OrphanTick
  \/ \E reason \in Reasons : HandleDetach(reason)
  \/ TabCloses \/ WorkerRestarts

(* Chrome answers every call, and timers fire.  Nothing makes a tool be      *)
(* called, a session end or a worker stop.                                   *)
Fairness ==
  /\ \A t \in Tasks : WF_vars(Step(t))
  /\ WF_vars(IdleDetach) /\ WF_vars(ReattachTimeout)

Spec == Init /\ [][Next]_vars /\ Fairness

-----------------------------------------------------------------------------
Quiet == \A t \in Tasks : pc[t] = "none"

(* The tab is in its first debugger session of this worker's, the first one. *)
FirstRecord == restarts = 0 /\ Len(attempts) <= 1

(* A record that says attached, which is all that the tools ask before they  *)
(* send commands, is backed by a session in Chrome.                          *)
RecordIsTrue == connection.attached => inChrome

(* A domain that the record lists, and that enableDomain therefore passes    *)
(* over, is enabled in the session of today: not in one that was lost.  The  *)
(* restoration may take a newer session for the one it looks for.            *)
DomainsAreLive == restarts = 0 /\ connection.attached => connection.domains \subseteq live

(* After the user has canceled, nothing but a tool debugs the tab again (cdp. *)
(* ts, lines 10 and 511): no timer that was set, no reattach of another       *)
(* record, no restoration by a worker that starts later.  Only a reattach or  *)
(* a restoration that was under way does: neither looks again after its await.*)
CancelRespected == canceled => ~inChrome

(* Chrome's session has a record: without one every later attach is refused, *)
(* as a second session, until the tab or the browser is closed.              *)
AttachedIsKnown == FirstRecord /\ Quiet /\ inChrome => connection.attached

(* Every session left by the tasks has its keepalive interval (cdp.ts, lines *)
(* 432-436), unless that of an older record is there to stop it.             *)
KeptAlive == Quiet /\ orphans = {} /\ connection.attached => connection.keepalive

(* "Restores previously enabled domains" (cdp.ts, line 542): a tab in the      *)
(* console tool's subscribedTabs sends console events, in a session that was *)
(* lost and attached again, too (console.ts, line 70).                       *)
DomainsRestored ==
  FirstRecord /\ Quiet /\ subscribed /\ connection.attached => "Runtime" \in live

(* So it is, if no session is lost while its domains are being enabled: the  *)
(* reattach after that takes for all domains what the one before got to.     *)
SubscriptionLive == ~cutShort => DomainsRestored

(* A lost session is settled: attached again, or without a record.           *)
LossIsSettled ==
  FirstRecord /\ Known /\ ~connection.attached ~> connection.attached \/ ~Known \/ refused

(* The tab's record follows Chrome and the user: it claims no session that   *)
(* is lost, and has none again that the user has canceled.                   *)
RecordFollows == RecordIsTrue /\ CancelRespected

(* A session has all that its tab's record promises: the record itself, its  *)
(* domains and subscriptions, and its keepalive interval.                    *)
SessionIsServed == DomainsAreLive /\ AttachedIsKnown /\ KeptAlive /\ SubscriptionLive

=============================================================================

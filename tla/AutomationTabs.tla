--------------------------- MODULE AutomationTabs ---------------------------
(***************************************************************************)
(* The tabs that automation works in, as the user sees them: the side      *)
(* panel's list (sidePanelHandler.ts), the overlay that blocks the page's  *)
(* input (automationIndicator.ts in the worker, visualIndicator.ts in the  *)
(* page), and the calls that drive both: MessageRouter.routeNow, the       *)
(* navigate tool and the screenshots of the computer tool.                 *)
(*                                                                         *)
(* The router runs one tool at a time, but timers, tab events and the      *)
(* user's Stop come at any of its awaits, and a message to a page takes    *)
(* effect after the worker has gone on.                                    *)
(***************************************************************************)
EXTENDS Integers, Sequences

CONSTANTS
  Tabs,
  NoTab,
  StopTargets,   \* the tabs Stop may be asked for; NoTab is "all of them"
  Unscripted,    \* tabs whose pages may be without the content script
  MaxMessages    \* bound: messages on their way to one page

ASSUME AutomationTabsAssumption ==
  /\ NoTab \notin Tabs
  /\ StopTargets \subseteq Tabs \union {NoTab}
  /\ Unscripted \subseteq Tabs
  /\ MaxMessages \in Nat \ {0}

VARIABLES
  tabs,            \* "new", "open" or "closed", as far as the worker was told
  job,             \* the tool call that has the router: its tab and how far it is
  automationTabs,  \* the panel's entry for each tab
  idleTimers,      \* tabs in automationIdleTimers
  automatedTabs,   \* indicator counts; 0 for no entry
  hideTimers,      \* tabs in hideTimers
  channel,         \* messages on their way to each tab's page
  injecting,       \* <<tab, message>> pairs whose script is being injected
  loading,         \* tabs whose page has not reached "complete"
  page,            \* the overlay of each tab's page
  stopped          \* history: has the user pressed Stop?

panel == <<automationTabs, idleTimers>>
counts == <<automatedTabs, hideTimers>>
pages == <<channel, injecting, loading, page>>
vars == <<tabs, job, panel, counts, pages, stopped>>

(* "mark" is the show_indicator whose answer the tool call awaits.           *)
Messages == {"mark", "show", "hide", "pre", "post"}

(* A call names its tab in args.tabId, or leaves navigate to find one.  It   *)
(* looks the tab up and marks it before the tool runs; navigate marks it     *)
(* once more; a screenshot hides the overlay and puts it back.               *)
Idle == [tab |-> NoTab, named |-> FALSE, step |-> "none"]
OwnSteps == {"ownMark", "ownMarked", "own"}
Steps == {"none", "get", "mark", "run", "pre", "shot", "post", "end"} \union OwnSteps

TypeOK ==
  /\ tabs \in [Tabs -> {"new", "open", "closed"}]
  /\ job \in [tab : Tabs \union {NoTab}, named : BOOLEAN, step : Steps]
  /\ automationTabs \in [Tabs -> {"none", "idle", "working"}]
  /\ idleTimers \in SUBSET Tabs
  /\ automatedTabs \in [Tabs -> 0..2]
  /\ hideTimers \in SUBSET Tabs
  /\ channel \in [Tabs -> Seq(Messages)]
  /\ injecting \in SUBSET (Tabs \X {"mark", "show"})
  /\ loading \in SUBSET Tabs
  /\ page \in [Tabs -> {"absent", "hidden", "shown"}]
  /\ stopped \in BOOLEAN

Init ==
  /\ tabs \in [Tabs -> {"new", "open"}]
  /\ job = Idle
  /\ automationTabs = [t \in Tabs |-> "none"]
  /\ idleTimers = {}
  /\ automatedTabs = [t \in Tabs |-> 0]
  /\ hideTimers = {}
  /\ channel = [t \in Tabs |-> <<>>]
  /\ injecting = {}
  /\ loading = {}
  /\ page \in {p \in [Tabs -> {"absent", "hidden"}] : \A t \in Tabs \ Unscripted : p[t] = "hidden"}
  /\ stopped = FALSE

-----------------------------------------------------------------------------
(* Messages to pages. *)

(* chrome.tabs.sendMessage; nothing is on its way to a tab that is closed. *)
Send(t, message) ==
  channel' = IF tabs[t] = "open" THEN [channel EXCEPT ![t] = Append(@, message)] ELSE channel

(* What the answer of the page, or its absence, does to the call awaiting it. *)
Answered(t, message, wasVisible) ==
  CASE message = "mark" /\ job.step = "mark" -> [job EXCEPT !.step = "run"]
    [] message = "mark" /\ job.step = "ownMark" -> [job EXCEPT !.step = "ownMarked"]
    [] message = "pre" -> [job EXCEPT !.step = IF wasVisible THEN "shot" ELSE "run"]
    [] message = "post" -> [job EXCEPT !.step = "run"]
    [] OTHER -> job

(* The content script's listener runs. *)
Handle(t) ==
  LET message == Head(channel[t]) IN
  /\ channel[t] # <<>> /\ page[t] # "absent"
  /\ channel' = [channel EXCEPT ![t] = Tail(@)]
  /\ page' = [page EXCEPT ![t] = IF message \in {"mark", "show", "post"} THEN "shown" ELSE "hidden"]
  /\ job' = Answered(t, message, page[t] = "shown")
  /\ UNCHANGED <<tabs, panel, counts, injecting, loading, stopped>>

(* The page has no listener and sendMessage rejects: only a show goes on to  *)
(* inject the script.                                                        *)
Unheard(t) ==
  LET message == Head(channel[t]) IN
  /\ channel[t] # <<>> /\ page[t] = "absent"
  /\ channel' = [channel EXCEPT ![t] = Tail(@)]
  /\ IF message \in {"mark", "show"}
     THEN injecting' = injecting \union {<<t, message>>} /\ UNCHANGED job
     ELSE job' = Answered(t, message, FALSE) /\ UNCHANGED injecting
  /\ UNCHANGED <<tabs, panel, counts, loading, page, stopped>>

(* executeScript returns and the message is sent again, or the page is one   *)
(* that cannot be marked.                                                    *)
Injected(t, message) ==
  /\ <<t, message>> \in injecting
  /\ injecting' = injecting \ {<<t, message>>}
  /\ \/ /\ page' = [page EXCEPT ![t] = IF @ = "absent" THEN "hidden" ELSE @]
        /\ Send(t, message)
        /\ UNCHANGED job
     \/ /\ job' = Answered(t, message, FALSE)
        /\ UNCHANGED <<page, channel>>
  /\ UNCHANGED <<tabs, panel, counts, loading, stopped>>

-----------------------------------------------------------------------------
(* automationIndicator.ts and sidePanelHandler.ts, as updates. *)

(* Slip: the timer of the call before goes on. *)
markAutomationTab_keepsTimer(t) ==
  /\ automatedTabs' = [automatedTabs EXCEPT ![t] = @ + 1]
  /\ IF automatedTabs[t] = 0 THEN Send(t, "mark") ELSE UNCHANGED channel
  /\ UNCHANGED hideTimers

(* markAutomationTab up to its await; message is sent by the first mark only. *)
markAutomationTab(t) ==
  /\ hideTimers' = hideTimers \ {t}
  /\ automatedTabs' = [automatedTabs EXCEPT ![t] = @ + 1]
  /\ IF automatedTabs[t] = 0 THEN Send(t, "mark") ELSE UNCHANGED channel

(* The tool call does not wait for a second mark, nor for a closed tab. *)
Waits(t) == automatedTabs[t] = 0 /\ tabs[t] = "open"

unmarkAutomationTab(t) ==
  /\ automatedTabs' = [automatedTabs EXCEPT ![t] = IF @ = 0 THEN 0 ELSE @ - 1]
  /\ hideTimers' = IF automatedTabs[t] = 1 THEN hideTimers \union {t} ELSE hideTimers

recordAutomationTab(t) ==
  automationTabs' = [automationTabs EXCEPT ![t] = IF @ = "none" THEN "idle" ELSE @]

(* setAutomationTabWorking: an entry that is missing is made. *)
setAutomationTabWorking(t, status) ==
  /\ automationTabs' = [automationTabs EXCEPT ![t] = status]
  /\ idleTimers' = idleTimers \ {t}

(* finishAutomationTabWorking: the grace period starts anew. *)
finishAutomationTabWorking(t) == idleTimers' = idleTimers \union {t}

-----------------------------------------------------------------------------
(* MessageRouter.routeNow around the tool. *)

(* A call takes its turn; one without a tab of its own goes straight to its tool. *)
Start(t, named) ==
  /\ job = Idle /\ tabs[t] # "new"
  /\ job' = [tab |-> t, named |-> named, step |-> IF named THEN "get" ELSE "run"]
  /\ UNCHANGED <<tabs, panel, counts, pages, stopped>>

(* chrome.tabs.get returns or rejects: the tab is listed and marked anyway.  *)
GotTab(t) ==
  /\ job.step = "get" /\ job.tab = t
  /\ setAutomationTabWorking(t, "working")
  /\ markAutomationTab(t)
  /\ job' = [job EXCEPT !.step = IF Waits(t) THEN "mark" ELSE "run"]
  /\ UNCHANGED <<tabs, injecting, loading, page, stopped>>

(* The tool returns. *)
Finish(t) ==
  /\ job.step \in {"run", "end"} /\ job.tab = t
  /\ job' = Idle
  /\ IF job.named
     THEN finishAutomationTabWorking(t) /\ unmarkAutomationTab(t)
     ELSE UNCHANGED <<idleTimers, counts>>
  /\ UNCHANGED <<tabs, automationTabs, pages, stopped>>

-----------------------------------------------------------------------------
(* The tools. *)

(* navigate found its tab. *)
NavigateMarks(t) ==
  /\ job.step = "run" /\ job.tab = t /\ tabs[t] = "open"
  /\ recordAutomationTab(t)
  /\ markAutomationTab(t)
  /\ job' = [job EXCEPT !.step = IF Waits(t) THEN "ownMark" ELSE "ownMarked"]
  /\ UNCHANGED <<tabs, idleTimers, injecting, loading, page, stopped>>

NavigateWorks(t) ==
  /\ job.step = "ownMarked" /\ job.tab = t
  /\ setAutomationTabWorking(t, "working")
  /\ job' = [job EXCEPT !.step = "own"]
  /\ UNCHANGED <<tabs, counts, pages, stopped>>

(* navigate's finally; the navigation itself is Reload. *)
NavigateEnds(t) ==
  /\ job.step = "own" /\ job.tab = t
  /\ finishAutomationTabWorking(t) /\ unmarkAutomationTab(t)
  /\ job' = [job EXCEPT !.step = "end"]
  /\ UNCHANGED <<tabs, automationTabs, pages, stopped>>

(* computer: pre_screenshot before a capture or an input. *)
ScreenshotBegins(t) ==
  /\ job.step = "run" /\ job.named /\ job.tab = t /\ tabs[t] = "open"
  /\ Send(t, "pre")
  /\ job' = [job EXCEPT !.step = "pre"]
  /\ UNCHANGED <<tabs, panel, counts, injecting, loading, page, stopped>>

(* Slip: the overlay is left hidden. *)
ScreenshotEnds_hidden(t) ==
  /\ job.step = "shot" /\ job.tab = t
  /\ job' = [job EXCEPT !.step = "run"]
  /\ UNCHANGED <<tabs, panel, counts, pages, stopped>>

(* post_screenshot, sent if the overlay was visible before; it is skipped if *)
(* the grid drawn for the screenshot cannot be removed, and the call fails.  *)
ScreenshotEnds(t) ==
  /\ job.step = "shot" /\ job.tab = t
  /\ \/ /\ Send(t, "post")
        /\ job' = [job EXCEPT !.step = IF tabs[t] = "open" THEN "post" ELSE "run"]
     \/ /\ job' = [job EXCEPT !.step = "end"]
        /\ UNCHANGED channel
  /\ UNCHANGED <<tabs, panel, counts, injecting, loading, page, stopped>>

(* tabs_create lists the tab it creates. *)
CreateTab(t) ==
  /\ job = Idle /\ tabs[t] = "new"
  /\ tabs' = [tabs EXCEPT ![t] = "open"]
  /\ recordAutomationTab(t)
  /\ UNCHANGED <<job, idleTimers, counts, pages, stopped>>

-----------------------------------------------------------------------------
(* Timers. *)

(* Slip: a tab goes idle only while no tool works anywhere. *)
IdleTimeout_whenFree(t) ==
  /\ t \in idleTimers /\ job = Idle
  /\ setAutomationTabWorking(t, "idle")
  /\ UNCHANGED <<tabs, job, counts, pages, stopped>>

IdleTimeout(t) ==
  /\ t \in idleTimers
  /\ setAutomationTabWorking(t, "idle")
  /\ UNCHANGED <<tabs, job, counts, pages, stopped>>

HideTimeout(t) ==
  /\ t \in hideTimers
  /\ hideTimers' = hideTimers \ {t}
  /\ Send(t, "hide")
  /\ UNCHANGED <<tabs, job, panel, automatedTabs, injecting, loading, page, stopped>>

-----------------------------------------------------------------------------
(* The user and the browser. *)

(* clearAutomationIndicators: every tab's, whichever tab is stopped.         *)
clearAutomationIndicators ==
  LET marked == {t \in Tabs : automatedTabs[t] > 0} IN
  /\ automatedTabs' = [t \in Tabs |-> 0]
  /\ hideTimers' = hideTimers \ marked
  /\ channel' = [t \in Tabs |-> IF t \in marked /\ tabs[t] = "open"
                                THEN Append(channel[t], "hide") ELSE channel[t]]

(* stopAutomation of tab t, or of all tabs.  Nothing of it happens if        *)
(* stopActiveToolRequests throws; see ToolRequests.                          *)
Stop(t) ==
  LET listed == {u \in Tabs : IF t = NoTab THEN automationTabs[u] # "none" ELSE u = t} IN
  /\ \A u \in Tabs : Len(channel[u]) < MaxMessages
  /\ clearAutomationIndicators
  /\ automationTabs' = [u \in Tabs |-> IF u \in listed THEN "idle" ELSE automationTabs[u]]
  /\ idleTimers' = idleTimers \ listed
  /\ stopped' = TRUE
  /\ UNCHANGED <<tabs, job, injecting, loading, page>>

(* The page's own Stop, before its message reaches the worker as a Stop.     *)
PageStop(t) ==
  /\ t \in StopTargets /\ page[t] = "shown"
  /\ page' = [page EXCEPT ![t] = "hidden"]
  /\ stopped' = TRUE
  /\ UNCHANGED <<tabs, job, panel, counts, channel, injecting, loading>>

(* A tab is closed, by the user, a tool or the panel: both onRemoved         *)
(* listeners run, and what awaits an answer of its page goes on.             *)
Close(t) ==
  /\ tabs[t] = "open"
  /\ tabs' = [tabs EXCEPT ![t] = "closed"]
  /\ automationTabs' = [automationTabs EXCEPT ![t] = "none"]
  /\ idleTimers' = idleTimers \ {t}
  /\ automatedTabs' = [automatedTabs EXCEPT ![t] = 0]
  /\ hideTimers' = hideTimers \ {t}
  /\ channel' = [channel EXCEPT ![t] = <<>>]
  /\ injecting' = {i \in injecting : i[1] # t}
  /\ loading' = loading \ {t}
  /\ page' = [page EXCEPT ![t] = "absent"]
  /\ UNCHANGED stopped
  /\ job' = IF job.tab # t THEN job
            ELSE CASE job.step = "ownMark" -> [job EXCEPT !.step = "ownMarked"]
                   [] job.step \in {"mark", "pre", "post"} -> [job EXCEPT !.step = "run"]
                   [] OTHER -> job

(* The user opens a tab. *)
Open(t) ==
  /\ tabs[t] = "new"
  /\ tabs' = [tabs EXCEPT ![t] = "open"]
  /\ UNCHANGED <<job, panel, counts, pages, stopped>>

(* A navigation replaces the page; messages on their way meet the new one.   *)
Reload(t) ==
  /\ tabs[t] = "open" /\ Len(channel[t]) < MaxMessages
  /\ loading' = loading \union {t}
  /\ page' \in {[page EXCEPT ![t] = p] : p \in IF t \in Unscripted THEN {"absent", "hidden"}
                                                ELSE {"hidden"}}
  /\ UNCHANGED <<tabs, job, panel, counts, channel, injecting, stopped>>

(* onUpdated with status "complete": a new page of a marked tab is marked.   *)
Loaded(t) ==
  /\ t \in loading
  /\ loading' = loading \ {t}
  /\ IF automatedTabs[t] > 0 THEN Send(t, "show") ELSE UNCHANGED channel
  /\ UNCHANGED <<tabs, job, panel, counts, injecting, page, stopped>>

ToolStep(t) ==
  \/ GotTab(t) \/ Finish(t)
  \/ NavigateMarks(t) \/ NavigateWorks(t) \/ NavigateEnds(t)
  \/ ScreenshotBegins(t) \/ ScreenshotEnds(t)

PageStep(t) ==
  \/ Handle(t) \/ Unheard(t) \/ Loaded(t)
  \/ \E message \in {"mark", "show"} : Injected(t, message)

Next ==
  \/ \E t \in Tabs :
       \/ \E named \in BOOLEAN : Start(t, named)
       \/ ToolStep(t) \/ PageStep(t)
       \/ CreateTab(t) \/ IdleTimeout(t) \/ HideTimeout(t)
       \/ PageStop(t) \/ Close(t) \/ Open(t) \/ Reload(t)
  \/ \E t \in StopTargets : Stop(t)

(* Timers fire; browsers deliver and inject; tools end. *)
Fairness ==
  \A t \in Tabs :
    /\ WF_vars(IdleTimeout(t)) /\ WF_vars(HideTimeout(t))
    /\ WF_vars(PageStep(t))
    /\ WF_vars(GotTab(t) \/ NavigateWorks(t) \/ NavigateEnds(t) \/ ScreenshotEnds(t))
    /\ SF_vars(Finish(t))

Spec == Init /\ [][Next]_vars /\ Fairness

-----------------------------------------------------------------------------
(* What the indicator's counts are for: the marks a tool call has to undo.   *)
Marks(t) ==
  IF job.tab # t THEN 0
  ELSE (IF job.named /\ job.step \notin {"none", "get"} THEN 1 ELSE 0)
     + (IF job.step \in OwnSteps THEN 1 ELSE 0)

(* No mark outlives its call, though Stop and a closed tab take the counts   *)
(* away from under a call that goes on; a timer to hide the overlay runs     *)
(* only while nothing is counted.                                            *)
MarksAreUndone ==
  \A t \in Tabs :
    /\ automatedTabs[t] \in 0..Marks(t)
    /\ automatedTabs[t] > 0 => t \notin hideTimers

(* A page whose input is blocked has a call, or its release is on its way:   *)
(* messageRouter.test.ts:134 "shows automation controls only while a         *)
(* tab-targeted tool is running".  A Stop in the middle of a screenshot      *)
(* breaks this, and a script that is injected late may.                      *)
BlockedHasReason ==
  \A t \in Tabs \ Unscripted :
    page[t] = "shown" /\ ~stopped =>
      \/ automatedTabs[t] > 0 \/ t \in hideTimers
      \/ \E i \in DOMAIN channel[t] : channel[t][i] = "hide"

(* While a tool works in a page that has loaded the page is blocked, unless  *)
(* the user has stopped some tab: no input of the user's goes into the       *)
(* middle of it, and the Stop button is there (visualIndicator.ts:4).        *)
ToolRunsBehindOverlay ==
  \A t \in Tabs \ (Unscripted \union loading) :
    /\ job.tab = t /\ job.named /\ job.step = "run"
    /\ tabs[t] = "open" /\ channel[t] = <<>> /\ ~stopped
    => page[t] = "shown"

(* When the calls for a tab are over its page is released and its entry says *)
(* so, unless another call comes.                                            *)
TabIsReleased ==
  \A t \in Tabs \ Unscripted :
    job.tab # t ~>
      \/ job.tab = t \/ stopped
      \/ page[t] # "shown" /\ automationTabs[t] # "working"

(* The overlay is over a page while a tool works in it, and over no other.   *)
OverlayIsRight == BlockedHasReason /\ ToolRunsBehindOverlay

=============================================================================

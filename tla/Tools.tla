------------------------------- MODULE Tools --------------------------------
(***************************************************************************)
(* Components of the extension that share no state, side by side: which of *)
(* them moves is chosen at the start, the others stay as they began.       *)
(***************************************************************************)
EXTENDS Integers, Sequences

CONSTANTS
  Components,                                            \* those that may move
  N,                                                     \* ElementRefs
  Tabs, Sizes, MaxPx, MinPx, None,                       \* ComputerInput
  Urls, Events,                                          \* TabListeners
  Pages, MaxEntries, MaxCount,                           \* TabRequests
  Names, Absent,                                         \* Macros
  MinCodeSize, MaxBits, Palettes, MaxFrames, Unset,      \* GifCreator
  Statuses, AutoTabs, MaxHistory, MaxTools, MaxOnWay, Nothing    \* PanelView

(* The names are told apart: of domains, of URLs and of pages; no screenshot is not one, no *)
(* macro is not one, a document has a body, and there is room for more codes than those of  *)
(* the colours.                                                                             *)
ASSUME ToolsAssumption ==
  /\ Events \subseteq {"Network", "Runtime"}
  /\ Urls \intersect {"Network", "Runtime", "coverage"} = {}
  /\ None \notin [tab : Tabs, size : Sizes]
  /\ "end" \notin Pages
  /\ Absent \notin [steps : {"empty", "steps"}, scheduled : BOOLEAN]
  /\ N \in Nat \ {0}
  /\ MinCodeSize \in Nat \ {0} /\ MaxBits \in Nat /\ MinCodeSize < MaxBits

(* The panel: two of the statuses, and no answer is not an answer. *)
ASSUME PanelAssumption ==
  /\ {"disconnected", "connecting"} \subseteq Statuses /\ MaxTools \in Nat
  /\ Nothing \notin [status : Statuses, tabs : SUBSET AutoTabs, older : Nat,
                     history : Seq([id : 1..MaxTools, state : {"running", "done"}])]

VARIABLES
  component,
  parent, look, script, mark, listed, call, told, current, target,
  viewport, held, dressed, dims, picture, shot, withheld, action, aim, land, stuck,
  session, live, caught, measured, known, saved, restoring, lacking, rules, subscribed, tracking, job, sure,
  telling, pausing, ruled, load, table, index, inflight, waiting, seen, odd,
  stored, alarms, recording, work, run, assured, torn,
  gifSession, encoding, framesLeft, global, palette, grown, codeSize, buffer,
  readTable, readSize, readLast, sent,
  status, history, nextToolId, autoTabs, broadcasts, answer, asked, panelOpen,
  shownStatus, shownTabs, rows, stopEnabled, behind

Refs      == INSTANCE ElementRefs
Input     == INSTANCE ComputerInput
Listeners == INSTANCE TabListeners
Traffic   == INSTANCE TabRequests
Macro     == INSTANCE Macros
Gif       == INSTANCE GifCreator
Panel     == INSTANCE PanelView

(* The viewports: one is the largest, and the image of each is as large as is reported, or   *)
(* up to two pixels lower. So it is of any that is not taller than wide, nor clamped.        *)
ASSUME SizesAssumption ==
  /\ MaxPx \in Nat \ {0} /\ MinPx \in 1..MaxPx
  /\ Sizes \subseteq (Nat \ {0}) \X (Nat \ {0})
  /\ \E s \in Sizes : \A z \in Sizes : Input!Longer(z) <= Input!Longer(s)
  /\ \A size \in Sizes, i \in 1..2 :
       /\ Input!Image(size)[i] > 0 /\ Input!Scaled(size)[i] <= size[i]
       /\ Input!Scaled(size)[i] - Input!Image(size)[i] \in 0..2

refsVars == <<parent, look, script, mark, listed, call, told, current, target>>
inputVars == <<viewport, held, dressed, dims, picture, shot, withheld, action, aim, land, stuck>>
listenersVars == <<session, live, caught, measured, known, saved, restoring, lacking,
                   rules, subscribed, tracking, job, sure>>
trafficVars == <<telling, pausing, ruled, load, table, index, inflight, waiting, seen, odd>>
macroVars == <<stored, alarms, recording, work, run, assured, torn>>
gifVars == <<gifSession, encoding, framesLeft, global, palette, grown, codeSize, buffer,
             readTable, readSize, readLast, sent>>
panelVars == <<status, history, nextToolId, autoTabs, broadcasts, answer, asked, panelOpen,
               shownStatus, shownTabs, rows, stopEnabled, behind>>
vars == <<component, refsVars, inputVars, listenersVars, trafficVars, macroVars,
          gifVars, panelVars>>

Init ==
  /\ component \in Components
  /\ Refs!Init /\ Input!Init /\ Listeners!Init /\ Traffic!Init /\ Macro!Init
  /\ Gif!Init /\ Panel!Init

Next ==
  /\ UNCHANGED component
  /\ \/ /\ component = "refs" /\ Refs!Next
        /\ UNCHANGED <<inputVars, listenersVars, trafficVars, macroVars, gifVars, panelVars>>
     \/ /\ component = "input" /\ Input!Next
        /\ UNCHANGED <<refsVars, listenersVars, trafficVars, macroVars, gifVars, panelVars>>
     \/ /\ component = "listeners" /\ Listeners!Next
        /\ UNCHANGED <<refsVars, inputVars, trafficVars, macroVars, gifVars, panelVars>>
     \/ /\ component = "traffic" /\ Traffic!Next
        /\ UNCHANGED <<refsVars, inputVars, listenersVars, macroVars, gifVars, panelVars>>
     \/ /\ component = "macro" /\ Macro!Next
        /\ UNCHANGED <<refsVars, inputVars, listenersVars, trafficVars, gifVars, panelVars>>
     \/ /\ component = "gif" /\ Gif!Next
        /\ UNCHANGED <<refsVars, inputVars, listenersVars, trafficVars, macroVars, panelVars>>
     \/ /\ component = "panel" /\ Panel!Next
        /\ UNCHANGED <<refsVars, inputVars, listenersVars, trafficVars, macroVars, gifVars>>

Spec == Init /\ [][Next]_vars

(* Every component's variables have their types. *)
TypeOK ==
  /\ component = "refs" => Refs!TypeOK
  /\ component = "input" => Input!TypeOK
  /\ component = "listeners" => Listeners!TypeOK
  /\ component = "traffic" => Traffic!TypeOK
  /\ component = "macro" => Macro!TypeOK
  /\ component = "gif" => Gif!TypeOK
  /\ component = "panel" => Panel!TypeOK

(* What the walk of read_page and find lists is what can be seen and has something to *)
(* say, and the places where such elements part (accessibilityTree.ts).               *)
ListingIsRight == component = "refs" => Refs!ListingIsRight

(* A tool that is given the ref of a listed element acts on that element or on one *)
(* the listing left out, never on another that it lists (form_input, find_by_ref). *)
ActsOnWhatWasTold == Refs!ActsOnWhatWasTold

(* A call goes to the place of the page that the client saw on its last screenshot, *)
(* to three pixels of the image, unless a later picture was withheld from the       *)
(* client by a grid that could not be removed (coordinateMapper.ts, computer.ts).   *)
GoesWhereSeen == component = "input" => Input!GoesWhereSeen

(* Between calls of the computer tool no button is down, no grid is drawn and the   *)
(* indicator is not hidden, but for a button whose release, or a command between    *)
(* press and release, has failed since, and for what a failed removal of the grid   *)
(* has left (computer.ts).                                                          *)
LeavesNoTrace == component = "input" => Input!LeavesNoTrace

(* While a session lasts, rules and subscriptions that the tools have reported are *)
(* in force, but for domains that the browser has refused or that a reattachment   *)
(* has not come to (network, console, network_intercept, coverage, cdp.ts).        *)
InForce == component = "listeners" => Listeners!InForce

(* What the tools tell of the traffic is true: a kept request has its answer, and *)
(* no page is idle while a request they know of is under way (network, wait_for). *)
TrafficIsTold == component = "traffic" => Traffic!AnswersAreKept /\ Traffic!IdleIsIdle

(* Between calls, the stored macros and the alarms are those the client was told of, *)
(* but for macros that an alarm's run or a failed call has put back (macro.ts).      *)
StoreIsTrue == component = "macro" => Macro!StoreIsTrue

(* A reader of the GIF gets the codes and pixels that were encoded (gifEncoder.ts). *)
ReadsBack == component = "gif" => Gif!ReadsBack

(* When nothing is on its way, the open panel shows the worker's status, tabs and *)
(* tool history, newest first (sidepanel/index.ts, sidePanelHandler.ts).          *)
ShowsTheWorker == component = "panel" => Panel!ShowsTheWorker

=============================================================================

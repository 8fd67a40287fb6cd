---------------------------- MODULE ComputerInput ----------------------------
(***************************************************************************)
(* The computer tool (service-worker/tools/computer.ts): screenshots, and  *)
(* input at places that the client has seen on one (coordinateMapper.ts).  *)
(*                                                                         *)
(* A call is a script of commands.  Between two of them the page may be    *)
(* resized (resize.ts, emulate.ts, the debugger's infobar, the user), and  *)
(* each of them may fail.                                                  *)
(***************************************************************************)
EXTENDS Integers, Sequences

CONSTANTS
  Tabs,
  Sizes,     \* <<width, height>> that a viewport may have
  MaxPx,     \* longest edge of a screenshot, MAX_TARGET_PX
  MinPx,     \* shortest edge, MIN_TARGET_PX
  None       \* no tab, no screenshot, no place

VARIABLES
  viewport,  \* of each tab
  held,      \* the tabs whose page sees a button or a key down
  dressed,   \* the tabs with the "grid", and those with the indicator hidden ("bare")
  dims,      \* lastScreenshotDims
  picture,   \* the picture that the call at work has taken: of which tab, what its clip was
  shot,      \* the last one that the client has got
  withheld,  \* one taken since was not given to the client
  action,    \* the call at work: the commands to do, and those of its finally
  aim,       \* the pixel of the screenshot that the client wants
  land,      \* where in the viewport the call goes
  stuck      \* per tab, what a failure has left: "held", and what is in dressed

vars == <<viewport, held, dressed, dims, picture, shot, withheld, action, aim, land, stuck>>
pictures == <<dims, picture, shot, withheld>>

Longer(size) == IF size[1] >= size[2] THEN size[1] ELSE size[2]
AtLeast(n, m) == IF n >= m THEN n ELSE m
Round(n, d) == (2 * n + d) \div (2 * d)   \* Math.round(n / d), n >= 0

(* calculateScreenshotDimensions, for a pixel ratio of 1. *)
Scaled(size) ==
  IF Longer(size) <= MaxPx THEN size
  ELSE [i \in 1..2 |-> AtLeast(MinPx, Round(size[i] * MaxPx, Longer(size)))]

(* What Page.captureScreenshot makes of the clip: both edges are scaled by   *)
(* the quotient of the widths.                                               *)
Image(size) == [i \in 1..2 |-> Round(size[i] * Scaled(size)[1], size[1])]

(* Slip: the factors are those from the viewport to the screenshot. *)
ToViewport_inverse(at, size) ==
  IF dims = None THEN at ELSE [i \in 1..2 |-> Round(at[i] * dims[i], size[i])]

(* toViewport, with screenshotToViewport. *)
ToViewport(at, size) ==
  IF dims = None THEN at ELSE [i \in 1..2 |-> Round(at[i] * size[i], dims[i])]

(* A click at a place or on a ref. *)
Click(at) == <<"hide", at, "move", "press", "release">>

(* The commands of each action; repeated clicks and moves are as one. *)
Script(kind) ==
  CASE kind = "screenshot" -> <<"view", "hide", "capture">>
    [] kind = "grid"       -> <<"view", "hide", "grid", "capture">>
    [] kind = "click"      -> Click("view")
    [] kind = "ref"        -> Click("find")
    [] kind = "drag"       -> <<"view", "move", "press", "move", "release">>
    [] kind = "key"        -> <<"press", "release">>
    [] kind = "move"       -> <<"view", "move">>     \* move_path and scroll as well
    [] kind = "type"       -> <<"insert">>

Kinds == {"screenshot", "grid", "click", "ref", "drag", "key", "move", "type"}

(* Slip: the finally of a screenshot forgets the grid. *)
Final_keepsGrid(kind, visible) == IF visible THEN <<"show">> ELSE <<>>

(* The finally part that is owed once the indicator has been asked to hide. *)
Final(kind, visible) ==
  (IF kind = "grid" THEN <<"ungrid">> ELSE <<>>) \o (IF visible THEN <<"show">> ELSE <<>>)

Idle == [tab |-> None, kind |-> "none", view |-> None, todo |-> <<>>, final |-> <<>>]

TypeOK ==
  /\ viewport \in [Tabs -> Sizes]
  /\ held \subseteq Tabs /\ dressed \subseteq Tabs \X {"grid", "bare"}
  /\ dims = None \/ dims \in {Scaled(s) : s \in Sizes}
  /\ \A it \in {picture, shot} : it = None \/ (it.tab \in Tabs /\ it.size \in Sizes)
  /\ withheld \in BOOLEAN
  /\ action.kind \in Kinds \union {"none"}
  /\ aim \in Nat \X Nat /\ (land = None \/ land \in Nat \X Nat)
  /\ stuck \subseteq Tabs \X {"held", "grid", "bare"}

Init ==
  /\ viewport = [t \in Tabs |-> CHOOSE s \in Sizes : \A z \in Sizes : Longer(z) <= Longer(s)]
  /\ held = {} /\ dressed = {} /\ dims = None
  /\ picture = None /\ shot = None /\ withheld = FALSE
  /\ action = Idle /\ aim = <<0, 0>> /\ land = None /\ stuck = {}

(* Pixels of an image: its corners and one inside. *)
Pixels(size) == {<<0, 0>>, [i \in 1..2 |-> Image(size)[i] - 1], [i \in 1..2 |-> Image(size)[i] \div 3]}

Call(t, kind) ==
  /\ action = Idle
  /\ action' = [Idle EXCEPT !.tab = t, !.kind = kind, !.todo = Script(kind)]
  /\ aim' \in IF shot # None /\ kind \in {"click", "drag", "move"}
              THEN Pixels(shot.size) ELSE {<<0, 0>>}
  /\ UNCHANGED <<viewport, held, dressed, pictures, land, stuck>>

(* The next command, and what follows it. *)
Doing(step) == action.todo # <<>> /\ Head(action.todo) = step
Done(c) == IF Tail(c.todo) # <<>> THEN [c EXCEPT !.todo = Tail(@)]
                                  ELSE [c EXCEPT !.todo = c.final, !.final = <<>>]

(* Page.getLayoutMetrics, and what it is for. *)
View ==
  /\ Doing("view")
  /\ action' = [Done(action) EXCEPT !.view = viewport[action.tab]]
  /\ land' = ToViewport(aim, viewport[action.tab])
  /\ UNCHANGED <<viewport, held, dressed, pictures, aim, stuck>>

(* pre_screenshot; a page without the content script has nothing to hide. *)
Hide ==
  /\ Doing("hide")
  /\ \E visible \in {v \in BOOLEAN : v => <<action.tab, "bare">> \notin dressed} :
       /\ action' = [Done(action) EXCEPT !.final = Final(action.kind, visible)]
       /\ dressed' = IF visible THEN dressed \union {<<action.tab, "bare">>} ELSE dressed
  /\ UNCHANGED <<viewport, held, pictures, aim, land, stuck>>

(* The clip is the viewport of the first command, whatever it is by now.     *)
(* lastScreenshotDims is set before the finally part, the client has the     *)
(* picture only when that has ended.                                         *)
Capture ==
  /\ Doing("capture") /\ action' = Done(action)
  /\ dims' = Scaled(action.view)
  /\ picture' = [tab |-> action.tab, size |-> action.view]
  /\ UNCHANGED <<viewport, held, dressed, shot, withheld, aim, land, stuck>>

Press ==
  /\ Doing("press") /\ action' = Done(action)
  /\ held' = held \union {action.tab}
  /\ UNCHANGED <<viewport, dressed, pictures, aim, land, stuck>>

(* What an earlier call has left down may be another button, or a key. *)
Release ==
  /\ Doing("release") /\ action' = Done(action)
  /\ \/ held' = held \ {action.tab} /\ stuck' = stuck \ {<<action.tab, "held">>}
     \/ <<action.tab, "held">> \in stuck /\ UNCHANGED <<held, stuck>>
  /\ UNCHANGED <<viewport, dressed, pictures, aim, land>>

(* Putting on and taking off; post_screenshot does not fail but with the page. *)
Dress(step) ==
  /\ Doing(step) /\ action' = Done(action)
  /\ \/ step = "grid" /\ dressed' = dressed \union {<<action.tab, "grid">>} /\ UNCHANGED stuck
     \/ \E off \in {<<"ungrid", "grid">>, <<"show", "bare">>} :
          /\ step = off[1]
          /\ dressed' = dressed \ {<<action.tab, off[2]>>}
          /\ stuck' = stuck \ {<<action.tab, off[2]>>}
  /\ UNCHANGED <<viewport, held, pictures, aim, land>>

(* Moves, insertions and the search for a ref leave nothing behind. *)
Other ==
  /\ Doing("move") \/ Doing("insert") \/ Doing("find")
  /\ action' = Done(action)
  /\ UNCHANGED <<viewport, held, dressed, pictures, aim, land, stuck>>

(* What stays when the next command fails: a button or key that is down, if  *)
(* its release was this command or a later one, since no finally part lifts  *)
(* it; with a grid that cannot be removed the indicator, which is shown after*)
(* it.                                                                       *)
Remains ==
  {<<t, "held">> : t \in {u \in held : u = action.tab /\ \E i \in 1..Len(action.todo) : action.todo[i] = "release"}}
    \union {mark \in dressed : mark[1] = action.tab /\ Head(action.todo) = "ungrid"}

(* A command fails: the finally part is next, or what is left of it is not,  *)
(* and the client gets an error for the picture.                             *)
Fail ==
  /\ action.todo # <<>> /\ Head(action.todo) \notin {"hide", "show"}
  /\ action' = [action EXCEPT !.todo = action.final, !.final = <<>>]
  /\ stuck' = stuck \union Remains
  /\ withheld' = (withheld \/ picture # None) /\ picture' = None
  /\ UNCHANGED <<viewport, held, dressed, dims, shot, aim, land>>

(* The answer, with the picture if there is one. *)
Return ==
  /\ action # Idle /\ action.todo = <<>>
  /\ action' = Idle /\ aim' = <<0, 0>> /\ land' = None
  /\ IF picture = None THEN UNCHANGED <<picture, shot, withheld>>
     ELSE shot' = picture /\ withheld' = FALSE /\ picture' = None
  /\ UNCHANGED <<viewport, held, dressed, dims, stuck>>

(* resize, emulate, the infobar or the user. *)
Resize(t, size) ==
  /\ viewport' = [viewport EXCEPT ![t] = size]
  /\ UNCHANGED <<held, dressed, pictures, action, aim, land, stuck>>

(* The worker is stopped between calls; the client still has its screenshot. *)
WorkerStops ==
  /\ action = Idle /\ dims' = None
  /\ UNCHANGED <<viewport, held, dressed, picture, shot, withheld, action, aim, land, stuck>>

Next ==
  \/ \E t \in Tabs, kind \in Kinds : Call(t, kind)
  \/ View \/ Hide \/ Capture \/ Press \/ Release \/ Other
  \/ \E step \in {"grid", "ungrid", "show"} : Dress(step)
  \/ Fail \/ Return \/ WorkerStops
  \/ \E t \in Tabs, size \in Sizes : Resize(t, size)

Spec == Init /\ [][Next]_vars

-----------------------------------------------------------------------------
(* A place that the client has seen on its last screenshot is where a call   *)
(* goes, to three pixels of the image, and lies in the viewport: if the      *)
(* viewport is what it was, the worker has not been stopped since, no later  *)
(* picture was withheld from the client because its grid could not be removed*)
(* (the dimensions are then the ones of that picture), and the               *)
(* image as large as dims says, but for two pixels.  The image has its height*)
(* from the rounded width, dims from its own and the minimum: Sizes are ones *)
(* for which they agree (SizesAssumption of Tools).                          *)
Distance(a, b) == IF a >= b THEN a - b ELSE b - a
GoesWhereSeen ==
  (/\ action.kind \in {"click", "drag", "move"} /\ land # None
   /\ shot # None /\ dims # None /\ ~withheld /\ shot.tab = action.tab /\ shot.size = action.view) =>
     \A i \in 1..2 :
       /\ Distance(land[i] * Image(shot.size)[i], aim[i] * shot.size[i]) <= 3 * shot.size[i]
       /\ land[i] \in 0..(shot.size[i] - 1)

(* Between calls no button is down, no grid is drawn and the indicator is    *)
(* not hidden, whatever commands have failed, but for a button or key whose  *)
(* release has failed, or a command between press and release (a drag's move,*)
(* nothing lifts the button then), and a grid whose removal has failed, with *)
(* the indicator that the removal comes before.  What was left so is excused *)
(* only until the next release or removal.                                   *)
LeavesNoTrace ==
  action = Idle => \A t \in Tabs :
    /\ t \in held => <<t, "held">> \in stuck
    /\ \A what \in {"grid", "bare"} : <<t, what>> \in dressed => <<t, what>> \in stuck

=============================================================================

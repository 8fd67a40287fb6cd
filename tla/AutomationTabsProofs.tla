------------------------ MODULE AutomationTabsProofs ------------------------
(***************************************************************************)
(* Theorems of AutomationTabs, for any number of tabs, with and without    *)
(* content script, and of messages on their way.                           *)
(*                                                                         *)
(* That the overlay is right is a matter of the order of the messages in a *)
(* page's channel: Inv says of every message that would show the overlay   *)
(* what it is shown for, and of the page of the running call how it will   *)
(* look when it has handled what is on its way.                            *)
(***************************************************************************)
EXTENDS AutomationTabs, SequenceTheorems, TLAPS

(* Messages whose answer a tool call awaits, and where it awaits it; those   *)
(* that show the overlay.                                                    *)
Awaited == {"mark", "pre", "post"}
AwaitedAt(message) == IF message = "mark" THEN {"mark", "ownMark"} ELSE {message}
Shows == {"mark", "show", "post"}

(* The router's call has a tab, and steps around the tool only if the tab is *)
(* named in it.                                                              *)
JobIsSane ==
  /\ job.tab = NoTab => job = Idle
  /\ job.step = "none" => job.tab = NoTab
  /\ job.step \in {"get", "mark", "pre", "shot", "post"} => job.named

(* A tab that is not open shows nothing, is sent nothing, and before it is   *)
(* opened no call is for it.                                                 *)
NotOpen ==
  \A t \in Tabs :
    /\ tabs[t] # "open" => /\ channel[t] = <<>> /\ page[t] # "shown"
                           /\ \A m \in {"mark", "show"} : <<t, m>> \notin injecting
    /\ tabs[t] = "new" => job.tab # t

(* An awaited message is on its way to the tab of the call that awaits it,   *)
(* and is the only one.                                                      *)
Answers ==
  \A t \in Tabs :
    /\ \A i \in DOMAIN channel[t] : channel[t][i] \in Awaited =>
         /\ job.tab = t /\ job.step \in AwaitedAt(channel[t][i])
         /\ \A j \in DOMAIN channel[t] : channel[t][j] \in Awaited => j = i
    /\ <<t, "mark">> \in injecting =>
         /\ job.tab = t /\ job.step \in AwaitedAt("mark")
         /\ \A i \in DOMAIN channel[t] : channel[t][i] \notin Awaited

(* Nothing is injected into pages that come with the content script.         *)
Scripted ==
  \A t \in Tabs \ Unscripted :
    /\ tabs[t] # "closed" => page[t] # "absent"
    /\ \A m \in {"mark", "show"} : <<t, m>> \notin injecting

(* Unless somebody pressed Stop, the count of an open tab is what its call   *)
(* has to undo.                                                              *)
Counted == ~stopped => \A t \in Tabs : tabs[t] = "open" => automatedTabs[t] = Marks(t)

(* A message that shows the overlay has a reason as the overlay itself has.  *)
ShownForReason ==
  ~stopped => \A t \in Tabs \ Unscripted : \A i \in DOMAIN channel[t] : channel[t][i] \in Shows =>
    \/ automatedTabs[t] > 0 \/ t \in hideTimers
    \/ \E j \in DOMAIN channel[t] : j > i /\ channel[t][j] = "hide"

(* The page will show the overlay when it has handled its messages.          *)
EndsShown(t) ==
  IF channel[t] = <<>> THEN page[t] = "shown" ELSE channel[t][Len(channel[t])] \in Shows

(* So would it but for the last message, the "pre" of a screenshot.          *)
ShownBefore(t) ==
  /\ channel[t] # <<>> /\ channel[t][Len(channel[t])] = "pre"
  /\ IF Len(channel[t]) = 1 THEN page[t] = "shown" ELSE channel[t][Len(channel[t]) - 1] \in Shows

StaysBehind ==
  ~stopped => \A t \in Tabs \ (Unscripted \union loading) :
    tabs[t] = "open" /\ job.tab = t /\ job.named =>
      /\ job.step \in {"mark", "run", "post"} => EndsShown(t)
      /\ job.step = "pre" => EndsShown(t) \/ ShownBefore(t)

Inv ==
  /\ TypeOK /\ MarksAreUndone
  /\ JobIsSane /\ NotOpen /\ Answers /\ Scripted
  /\ Counted /\ ShownForReason /\ BlockedHasReason /\ StaysBehind

-----------------------------------------------------------------------------
(* The marks of a call are at most two.                                      *)
LEMMA MarksBounded == ASSUME NEW t \in Tabs PROVE Marks(t) \in 0..2
  BY DEF Marks

LEMMA Initially == Init => Inv
<1> SUFFICES ASSUME Init PROVE Inv
  OBVIOUS
<1>1. job = Idle /\ job.step = "none" /\ job.tab = NoTab /\ job.named = FALSE
  BY DEF Init, Idle
<1>2. /\ channel = [t \in Tabs |-> <<>>] /\ injecting = {}
      /\ \A t \in Tabs : DOMAIN channel[t] = {} /\ page[t] \in {"absent", "hidden"}
      /\ \A t \in Tabs \ Unscripted : page[t] = "hidden"
      /\ page \in [Tabs -> {"absent", "hidden", "shown"}]
  BY DEF Init
<1>3. \A t \in Tabs : Marks(t) = 0 /\ automatedTabs[t] = 0
  BY <1>1, AutomationTabsAssumption DEF Init, Marks
<1>4. TypeOK
  <2>1. job \in [tab : Tabs \union {NoTab}, named : BOOLEAN, step : Steps]
    BY <1>1 DEF Idle, Steps
  <2>2. tabs \in [Tabs -> {"new", "open", "closed"}] /\ channel \in [Tabs -> Seq(Messages)]
    BY <1>2 DEF Init
  <2>3. /\ automationTabs \in [Tabs -> {"none", "idle", "working"}]
        /\ automatedTabs \in [Tabs -> 0..2]
        /\ idleTimers = {} /\ hideTimers = {} /\ loading = {} /\ stopped = FALSE
    BY DEF Init
  <2> QED BY <1>2, <2>1, <2>2, <2>3 DEF TypeOK
<1> QED
  BY <1>1, <1>2, <1>3, <1>4, AutomationTabsAssumption
  DEF Init, Inv, MarksAreUndone, JobIsSane, NotOpen, Answers, Scripted, Counted, ShownForReason,
      BlockedHasReason, StaysBehind

-----------------------------------------------------------------------------
(* A message is sent.                                                        *)
LEMMA Sending ==
  ASSUME TypeOK, NEW t \in Tabs, NEW m \in Messages, Send(t, m)
  PROVE  /\ channel' \in [Tabs -> Seq(Messages)]
         /\ \A u \in Tabs : u # t => channel'[u] = channel[u]
         /\ tabs[t] # "open" => channel' = channel
         /\ tabs[t] = "open" =>
              /\ Len(channel[t]) \in Nat /\ Len(channel'[t]) = Len(channel[t]) + 1
              /\ DOMAIN channel[t] = 1..Len(channel[t])
              /\ DOMAIN channel'[t] = 1..Len(channel[t]) + 1
              /\ channel'[t][Len(channel[t]) + 1] = m
              /\ \A i \in DOMAIN channel[t] : channel'[t][i] = channel[t][i]
<1>1. channel \in [Tabs -> Seq(Messages)] /\ channel[t] \in Seq(Messages)
  BY DEF TypeOK
<1>2. CASE tabs[t] = "open"
  <2>1. channel' = [channel EXCEPT ![t] = Append(channel[t], m)]
    BY <1>2 DEF Send
  <2>2. channel'[t] = Append(channel[t], m)
    BY <1>1, <2>1
  <2>3. Append(channel[t], m) \in Seq(Messages)
    BY <1>1
  <2> QED BY <1>1, <1>2, <2>1, <2>2, <2>3
<1>3. CASE tabs[t] # "open"
  BY <1>1, <1>3 DEF Send
<1> QED BY <1>2, <1>3

(* A message is taken.                                                       *)
LEMMA Taking ==
  ASSUME TypeOK, NEW t \in Tabs, channel[t] # <<>>, channel' = [channel EXCEPT ![t] = Tail(@)]
  PROVE  /\ channel' \in [Tabs -> Seq(Messages)]
         /\ \A u \in Tabs : u # t => channel'[u] = channel[u]
         /\ Head(channel[t]) \in Messages /\ Head(channel[t]) = channel[t][1]
         /\ Len(channel[t]) \in Nat \ {0} /\ Len(channel'[t]) = Len(channel[t]) - 1
         /\ DOMAIN channel[t] = 1..Len(channel[t])
         /\ DOMAIN channel'[t] = 1..Len(channel[t]) - 1
         /\ \A i \in DOMAIN channel'[t] : i + 1 \in DOMAIN channel[t] /\ channel'[t][i] = channel[t][i + 1]
<1>1. channel \in [Tabs -> Seq(Messages)] /\ channel[t] \in Seq(Messages)
  BY DEF TypeOK
<1>2. Tail(channel[t]) \in Seq(Messages) /\ channel'[t] = Tail(channel[t])
  BY <1>1
<1> QED BY <1>1, <1>2

(* An answer moves the call that awaits it, and changes no mark of it.       *)
LEMMA Answering ==
  ASSUME TypeOK, JobIsSane, NEW t \in Tabs, NEW m \in Messages, NEW visible \in BOOLEAN,
         job' = Answered(t, m, visible),
         m \in Awaited => job.tab = t /\ job.step \in AwaitedAt(m)
  PROVE  /\ job' \in [tab : Tabs \union {NoTab}, named : BOOLEAN, step : Steps]
         /\ JobIsSane'
         /\ job'.tab = job.tab /\ job'.named = job.named
         /\ \A u \in Tabs : Marks(u)' = Marks(u)
         /\ m \notin Awaited => job' = job
         /\ m = "mark" /\ job.step = "mark" => job'.step = "run"
         /\ m = "mark" /\ job.step = "ownMark" => job'.step = "ownMarked"
         /\ m = "pre" => job'.step = IF visible THEN "shot" ELSE "run"
         /\ m = "post" => job'.step = "run"
<1> USE AutomationTabsAssumption DEF Awaited, AwaitedAt, Messages
<1>1. job.tab \in Tabs \union {NoTab} /\ job.named \in BOOLEAN /\ job.step \in Steps
      /\ job = [tab |-> job.tab, named |-> job.named, step |-> job.step]
  BY DEF TypeOK
<1>2. ASSUME NEW s \in Steps, s \in {"run", "ownMarked", "shot"}, job.tab = t,
             job.step \in {"mark", "ownMark", "pre", "post"},
             job' = [job EXCEPT !.step = s],
             s = "ownMarked" <=> job.step = "ownMark"
      PROVE  /\ job' \in [tab : Tabs \union {NoTab}, named : BOOLEAN, step : Steps]
             /\ JobIsSane'
             /\ job'.tab = job.tab /\ job'.named = job.named /\ job'.step = s
             /\ \A u \in Tabs : Marks(u)' = Marks(u)
  <2>1. job' = [tab |-> job.tab, named |-> job.named, step |-> s]
    BY <1>1, <1>2
  <2>2. job'.tab = job.tab /\ job'.named = job.named /\ job'.step = s
    BY <2>1
  <2>3. job' \in [tab : Tabs \union {NoTab}, named : BOOLEAN, step : Steps]
    BY <1>1, <1>2, <2>1
  <2>4. JobIsSane'
    BY <1>2, <2>2 DEF JobIsSane
  <2>5. \A u \in Tabs : Marks(u)' = Marks(u)
    BY <1>2, <2>2 DEF Marks, OwnSteps
  <2> QED BY <2>2, <2>3, <2>4, <2>5
<1>3. {"run", "ownMarked", "shot"} \subseteq Steps
  BY DEF Steps, OwnSteps
<1>4. CASE m = "mark" /\ job.step = "mark"
  BY <1>2, <1>3, <1>4 DEF Answered
<1>5. CASE m = "mark" /\ job.step = "ownMark"
  BY <1>2, <1>3, <1>5 DEF Answered
<1>6. CASE m = "pre"
  BY <1>2, <1>3, <1>6 DEF Answered
<1>7. CASE m = "post"
  BY <1>2, <1>3, <1>7 DEF Answered
<1>8. CASE m \notin Awaited
  BY <1>1, <1>8 DEF Answered, JobIsSane, Marks
<1> QED BY <1>4, <1>5, <1>6, <1>7, <1>8

-----------------------------------------------------------------------------
(* What becomes of the invariant when a message is sent, told by message.    *)

(* The reasons for which the overlay is shown, and the order of the channel, *)
(* of one tab.                                                               *)
Reason(t) == automatedTabs[t] > 0 \/ t \in hideTimers
Hides(t) == \E i \in DOMAIN channel[t] : channel[t][i] = "hide"

(* A message that shows nothing, or shows it while the tab is marked.        *)
LEMMA SendingForReason ==
  ASSUME Inv, NEW t \in Tabs, NEW m \in Messages, Send(t, m),
         page' = page, stopped' = stopped,
         \A u \in Tabs : Reason(u) => Reason(u)' \/ (u = t /\ m = "hide"),
         m \in Shows /\ ~stopped /\ tabs[t] = "open" => Reason(t)'
  PROVE  ShownForReason' /\ BlockedHasReason'
<1> USE DEF Reason
<1>1. ASSUME ~stopped, NEW u \in Tabs \ Unscripted, NEW i \in DOMAIN channel'[u],
             channel'[u][i] \in Shows
      PROVE  \/ Reason(u)'
             \/ \E j \in DOMAIN channel'[u] : j > i /\ channel'[u][j] = "hide"
  <2>1. CASE u # t \/ tabs[t] # "open"
    <3>1. channel'[u] = channel[u]
      BY <2>1, Sending DEF Inv
    <3>2. CASE u # t
      BY <1>1, <3>1, <3>2 DEF Inv, ShownForReason
    <3>3. CASE u = t
      <4>1. channel'[u] = <<>>
        BY <2>1, <3>1, <3>3 DEF Inv, NotOpen
      <4> QED BY <1>1, <4>1
    <3> QED BY <3>2, <3>3
  <2>2. CASE u = t /\ tabs[t] = "open"
    <3> DEFINE n == Len(channel[t])
    <3>1. /\ n \in Nat /\ DOMAIN channel[t] = 1..n /\ DOMAIN channel'[t] = 1..n + 1
          /\ channel'[t][n + 1] = m /\ \A k \in 1..n : channel'[t][k] = channel[t][k]
      BY <2>2, Sending DEF Inv
    <3> HIDE DEF n
    <3>2. CASE i = n + 1
      BY <1>1, <2>2, <3>1, <3>2
    <3>3. CASE i \in 1..n /\ m = "hide"
      BY <2>2, <3>1, <3>3
    <3>4. CASE i \in 1..n /\ m # "hide"
      <4>1. channel[t][i] \in Shows
        BY <1>1, <2>2, <3>1, <3>4
      <4>2. Reason(t) \/ \E j \in 1..n : j > i /\ channel[t][j] = "hide"
        BY <1>1, <2>2, <3>1, <3>4, <4>1 DEF Inv, ShownForReason
      <4> QED BY <2>2, <3>1, <3>4, <4>2
    <3> QED BY <1>1, <2>2, <3>1, <3>2, <3>3, <3>4
  <2> QED BY <2>1, <2>2
<1>2. ASSUME NEW u \in Tabs \ Unscripted, page[u] = "shown", ~stopped
      PROVE  Reason(u)' \/ Hides(u)'
  <2>1. Reason(u) \/ Hides(u)
    BY <1>2 DEF Inv, BlockedHasReason, Hides
  <2>2. tabs[u] = "open"
    BY <1>2 DEF Inv, NotOpen
  <2>3. CASE u # t
    <3>1. channel'[u] = channel[u]
      BY <2>3, Sending DEF Inv
    <3> QED BY <2>1, <2>3, <3>1 DEF Hides
  <2>4. CASE u = t
    <3> DEFINE n == Len(channel[t])
    <3>1. /\ n \in Nat /\ DOMAIN channel[t] = 1..n /\ DOMAIN channel'[t] = 1..n + 1
          /\ channel'[t][n + 1] = m /\ \A k \in 1..n : channel'[t][k] = channel[t][k]
      BY <2>2, <2>4, Sending DEF Inv
    <3> HIDE DEF n
    <3>2. CASE m = "hide"
      BY <2>4, <3>1, <3>2 DEF Hides
    <3>3. CASE m # "hide"
      BY <2>1, <2>4, <3>1, <3>3 DEF Hides
    <3> QED BY <3>2, <3>3
  <2> QED BY <2>3, <2>4
<1>3. ShownForReason'
  BY <1>1 DEF ShownForReason
<1>4. BlockedHasReason'
  BY <1>2 DEF BlockedHasReason, Hides
<1> QED BY <1>3, <1>4

(* The same of who awaits an answer: nobody did before an awaited message.   *)
LEMMA SendingAwaited ==
  ASSUME Inv, NEW t \in Tabs, NEW m \in Messages, Send(t, m),
         injecting' \subseteq injecting,
         \/ m \notin Awaited /\ job' = job
         \/ /\ job.step \notin {"mark", "ownMark", "pre", "post"}
            /\ tabs[t] = "open" /\ m \in Awaited => job'.tab = t /\ job'.step \in AwaitedAt(m)
  PROVE  Answers'
<1> DEFINE n == Len(channel[t])
<1>1. ASSUME tabs[t] = "open"
      PROVE  /\ n \in Nat /\ DOMAIN channel[t] = 1..n /\ DOMAIN channel'[t] = 1..n + 1
             /\ channel'[t][n + 1] = m /\ \A k \in 1..n : channel'[t][k] = channel[t][k]
  BY <1>1, Sending DEF Inv
<1>2. \A u \in Tabs : u # t \/ tabs[t] # "open" => channel'[u] = channel[u]
  BY Sending DEF Inv
<1> HIDE DEF n
<1>3. CASE m \notin Awaited /\ job' = job
  <2>1. ASSUME NEW u \in Tabs, NEW i \in DOMAIN channel'[u], channel'[u][i] \in Awaited
        PROVE  i \in DOMAIN channel[u] /\ channel[u][i] = channel'[u][i]
    <3>1. CASE u # t \/ tabs[t] # "open"
      BY <1>2, <2>1, <3>1
    <3>2. CASE u = t /\ tabs[t] = "open"
      <4>1. i \in 1..n + 1 /\ i # n + 1
        BY <1>1, <1>3, <2>1, <3>2
      <4>2. i \in 1..n
        BY <1>1, <3>2, <4>1
      <4> QED BY <1>1, <3>2, <4>2
    <3> QED BY <3>1, <3>2
  <2>2. \A u \in Tabs : <<u, "mark">> \in injecting' => <<u, "mark">> \in injecting
    OBVIOUS
  <2>3. ASSUME NEW u \in Tabs, NEW i \in DOMAIN channel'[u], channel'[u][i] \in Awaited
        PROVE  /\ job'.tab = u /\ job'.step \in AwaitedAt(channel'[u][i])
               /\ \A j \in DOMAIN channel'[u] : channel'[u][j] \in Awaited => j = i
    <3>1. i \in DOMAIN channel[u] /\ channel[u][i] = channel'[u][i]
      BY <2>1, <2>3
    <3>2. /\ job.tab = u /\ job.step \in AwaitedAt(channel[u][i])
          /\ \A j \in DOMAIN channel[u] : channel[u][j] \in Awaited => j = i
      BY <2>3, <3>1 DEF Inv, Answers
    <3>3. \A j \in DOMAIN channel'[u] : channel'[u][j] \in Awaited => j = i
      BY <2>1, <3>2
    <3> QED BY <1>3, <3>1, <3>2, <3>3
  <2>4. ASSUME NEW u \in Tabs, <<u, "mark">> \in injecting'
        PROVE  /\ job'.tab = u /\ job'.step \in AwaitedAt("mark")
               /\ \A i \in DOMAIN channel'[u] : channel'[u][i] \notin Awaited
    BY <1>3, <2>1, <2>2, <2>4 DEF Inv, Answers
  <2> QED BY <2>3, <2>4 DEF Answers
<1>4. CASE /\ job.step \notin {"mark", "ownMark", "pre", "post"}
           /\ tabs[t] = "open" /\ m \in Awaited => job'.tab = t /\ job'.step \in AwaitedAt(m)
  <2>1. \A u \in Tabs : <<u, "mark">> \notin injecting
                        /\ \A i \in DOMAIN channel[u] : channel[u][i] \notin Awaited
    BY <1>4 DEF Inv, Answers, Awaited, AwaitedAt
  <2>2. ASSUME NEW u \in Tabs, NEW i \in DOMAIN channel'[u], channel'[u][i] \in Awaited
        PROVE  u = t /\ tabs[t] = "open" /\ i = n + 1 /\ channel'[u][i] = m
    <3>1. u = t /\ tabs[t] = "open"
      BY <1>2, <2>1, <2>2
    <3>2. i \in 1..n + 1 /\ i \notin 1..n
      BY <1>1, <2>1, <2>2, <3>1
    <3>3. i = n + 1
      BY <1>1, <3>1, <3>2
    <3> QED BY <1>1, <3>1, <3>3
  <2>3. ASSUME NEW u \in Tabs, NEW i \in DOMAIN channel'[u], channel'[u][i] \in Awaited
        PROVE  /\ job'.tab = u /\ job'.step \in AwaitedAt(channel'[u][i])
               /\ \A j \in DOMAIN channel'[u] : channel'[u][j] \in Awaited => j = i
    BY <1>4, <2>2, <2>3
  <2>4. \A u \in Tabs : <<u, "mark">> \notin injecting'
    BY <2>1
  <2> QED BY <2>3, <2>4 DEF Answers
<1> QED BY <1>3, <1>4

(* How the page will look.                                                   *)
LEMMA SendingLooks ==
  ASSUME Inv, NEW t \in Tabs, NEW m \in Messages, Send(t, m), page' = page, tabs[t] = "open"
  PROVE  /\ m \in Shows => EndsShown(t)'
         /\ m = "pre" /\ EndsShown(t) => ShownBefore(t)'
<1> DEFINE n == Len(channel[t])
<1>1. /\ n \in Nat /\ Len(channel'[t]) = n + 1
      /\ channel'[t][n + 1] = m /\ \A k \in 1..n : channel'[t][k] = channel[t][k]
  BY Sending DEF Inv
<1>2. channel'[t] # <<>> /\ (channel[t] = <<>> <=> n = 0)
  <2>1. channel[t] \in Seq(Messages) /\ channel'[t] \in Seq(Messages)
    BY Sending DEF Inv, TypeOK
  <2> QED BY <1>1, <2>1
<1> HIDE DEF n
<1>3. m \in Shows => EndsShown(t)'
  BY <1>1, <1>2 DEF EndsShown
<1>4. ASSUME m = "pre", EndsShown(t)
      PROVE  ShownBefore(t)'
  <2>1. CASE n = 0
    BY <1>1, <1>2, <1>4, <2>1 DEF EndsShown, ShownBefore
  <2>2. CASE n > 0
    <3>1. channel[t][n] \in Shows /\ n \in 1..n
      BY <1>1, <1>2, <1>4, <2>2 DEF EndsShown, n
    <3>2. channel'[t][n] \in Shows /\ n + 1 - 1 = n /\ n + 1 # 1
      BY <1>1, <2>2, <3>1
    <3> QED BY <1>1, <1>2, <1>4, <3>2 DEF ShownBefore
  <2> QED BY <1>1, <2>1, <2>2
<1> QED BY <1>3, <1>4

-----------------------------------------------------------------------------
(* What becomes of it when a message is taken.                               *)
LEMMA TakingLooks ==
  ASSUME Inv, NEW t \in Tabs, channel[t] # <<>>, channel' = [channel EXCEPT ![t] = Tail(@)],
         page'[t] = IF Head(channel[t]) \in Shows THEN "shown" ELSE "hidden"
  PROVE  /\ EndsShown(t) => EndsShown(t)'
         /\ ShownBefore(t) /\ Len(channel[t]) = 1 => page[t] = "shown" /\ Head(channel[t]) = "pre"
         /\ ShownBefore(t) /\ Len(channel[t]) # 1 => ShownBefore(t)'
<1> DEFINE n == Len(channel[t])
<1>1. /\ n \in Nat \ {0} /\ Len(channel'[t]) = n - 1 /\ Head(channel[t]) = channel[t][1]
      /\ \A i \in 1..n - 1 : channel'[t][i] = channel[t][i + 1]
  BY Taking DEF Inv
<1>2. channel'[t] = <<>> <=> n = 1
  <2>1. channel'[t] \in Seq(Messages)
    BY Taking DEF Inv, TypeOK
  <2>2. channel'[t] = <<>> <=> Len(channel'[t]) = 0
    BY <2>1, EmptySeq
  <2>3. Len(channel'[t]) = n - 1
    BY <1>1
  <2> HIDE DEF n
  <2> QED BY <1>1, <2>2, <2>3
<1>3. ASSUME EndsShown(t) PROVE EndsShown(t)'
  <2>1. channel[t][n] \in Shows
    BY <1>3 DEF EndsShown
  <2> HIDE DEF n
  <2>2. CASE n = 1
    BY <1>1, <1>2, <2>1, <2>2 DEF EndsShown
  <2>3. CASE n # 1
    <3>1. n - 1 \in 1..n - 1 /\ (n - 1) + 1 = n
      BY <1>1, <2>3
    <3>2. channel'[t][n - 1] = channel[t][n]
      BY <1>1, <3>1
    <3> QED BY <1>1, <1>2, <2>1, <2>3, <3>2 DEF EndsShown
  <2> QED BY <2>2, <2>3
<1>4. ShownBefore(t) /\ n = 1 => page[t] = "shown" /\ Head(channel[t]) = "pre"
  BY <1>1 DEF ShownBefore
<1>5. ASSUME ShownBefore(t), n # 1 PROVE ShownBefore(t)'
  <2>1. channel[t][n] = "pre" /\ channel[t][n - 1] \in Shows
    BY <1>5 DEF ShownBefore
  <2> HIDE DEF n
  <2>2. n - 1 \in 1..n - 1 /\ (n - 1) + 1 = n
    BY <1>1, <1>5
  <2>3. channel'[t][n - 1] = "pre"
    BY <1>1, <2>1, <2>2
  <2>4. CASE n = 2
    BY <1>1, <1>2, <2>1, <2>3, <2>4 DEF ShownBefore
  <2>5. CASE n # 2
    <3>1. n - 2 \in 1..n - 1 /\ (n - 2) + 1 = n - 1 /\ (n - 1) - 1 = n - 2
      BY <1>1, <1>5, <2>5
    <3>2. channel'[t][n - 2] \in Shows
      BY <1>1, <2>1, <3>1
    <3>3. n - 1 # 1
      BY <1>1, <2>5
    <3> QED BY <1>1, <1>2, <1>5, <2>3, <3>1, <3>2, <3>3 DEF ShownBefore
  <2> QED BY <2>4, <2>5
<1> QED BY <1>3, <1>4, <1>5

(* What is taken was covered by a reason that is left, and so is the page.   *)
LEMMA TakingForReason ==
  ASSUME Inv, NEW t \in Tabs, channel[t] # <<>>, channel' = [channel EXCEPT ![t] = Tail(@)],
         UNCHANGED <<counts, stopped>>,
         \A u \in Tabs : page'[u] = page[u] \/ (u = t /\ page'[u] \in {"hidden", "shown"}),
         page'[t] = "shown" => Head(channel[t]) \in Shows,
         Head(channel[t]) = "hide" => page'[t] # "shown" \/ t \in Unscripted
  PROVE  ShownForReason' /\ BlockedHasReason'
<1> DEFINE n == Len(channel[t])
<1>1. /\ n \in Nat \ {0} /\ Head(channel[t]) = channel[t][1]
      /\ DOMAIN channel[t] = 1..n /\ DOMAIN channel'[t] = 1..n - 1
      /\ \A i \in 1..n - 1 : channel'[t][i] = channel[t][i + 1]
      /\ \A u \in Tabs : u # t => channel'[u] = channel[u]
  BY Taking DEF Inv
<1> HIDE DEF n
<1>2. \A u \in Tabs : Reason(u)' <=> Reason(u)
  BY DEF Reason, counts
<1>3. ASSUME NEW i \in 1..n, NEW j \in 1..n, j > i, channel[t][j] = "hide"
      PROVE  j - 1 \in 1..n - 1 /\ j - 1 > i - 1 /\ channel'[t][j - 1] = "hide"
  <2>1. j - 1 \in 1..n - 1 /\ j - 1 > i - 1 /\ (j - 1) + 1 = j
    BY <1>1, <1>3
  <2> QED BY <1>1, <1>3, <2>1
<1>4. ASSUME ~stopped, NEW u \in Tabs \ Unscripted, NEW i \in DOMAIN channel'[u],
             channel'[u][i] \in Shows
      PROVE  Reason(u) \/ \E j \in DOMAIN channel'[u] : j > i /\ channel'[u][j] = "hide"
  <2>1. CASE u # t
    BY <1>1, <1>4, <2>1 DEF Inv, ShownForReason, Reason
  <2>2. CASE u = t
    <3>1. i + 1 \in 1..n /\ channel[t][i + 1] \in Shows /\ (i + 1) - 1 = i
      BY <1>1, <1>4, <2>2
    <3>2. Reason(t) \/ \E j \in 1..n : j > i + 1 /\ channel[t][j] = "hide"
      BY <1>1, <1>4, <2>2, <3>1 DEF Inv, ShownForReason, Reason
    <3>3. ASSUME NEW j \in 1..n, j > i + 1, channel[t][j] = "hide"
          PROVE  \E k \in DOMAIN channel'[u] : k > i /\ channel'[u][k] = "hide"
      <4>1. j - 1 \in 1..n - 1 /\ j - 1 > (i + 1) - 1 /\ channel'[t][j - 1] = "hide"
        BY <1>3, <3>1, <3>3
      <4>2. j - 1 \in DOMAIN channel'[u] /\ j - 1 > i
        BY <1>1, <2>2, <3>1, <4>1
      <4> QED BY <2>2, <4>1, <4>2
    <3> QED BY <3>2, <3>3, <2>2
  <2> QED BY <2>1, <2>2
<1>5. ASSUME ~stopped, NEW u \in Tabs \ Unscripted, page'[u] = "shown"
      PROVE  Reason(u) \/ Hides(u)'
  <2>1. CASE u # t
    BY <1>1, <1>5, <2>1 DEF Inv, BlockedHasReason, Reason, Hides
  <2>2. CASE u = t
    <3>1. channel[t][1] \in Shows /\ 1 \in 1..n
      BY <1>1, <1>5, <2>2
    <3>2. Reason(t) \/ \E j \in 1..n : j > 1 /\ channel[t][j] = "hide"
      BY <1>1, <1>5, <2>2, <3>1 DEF Inv, ShownForReason, Reason
    <3>3. ASSUME NEW j \in 1..n, j > 1, channel[t][j] = "hide"
          PROVE  Hides(t)'
      BY <1>1, <1>3, <3>1, <3>3 DEF Hides
    <3> QED BY <2>2, <3>2, <3>3
  <2> QED BY <2>1, <2>2
<1>6. ShownForReason'
  BY <1>2, <1>4 DEF ShownForReason, Reason
<1>7. BlockedHasReason'
  BY <1>2, <1>5 DEF BlockedHasReason, Reason, Hides
<1> QED BY <1>6, <1>7

(* The message a call awaits is the only one of its kind.                    *)
LEMMA AwaitedMessage ==
  ASSUME Inv, NEW t \in Tabs, NEW i \in DOMAIN channel[t], channel[t][i] \in Awaited
  PROVE  /\ job.tab = t /\ job.step \in AwaitedAt(channel[t][i])
         /\ \A j \in DOMAIN channel[t] : channel[t][j] \in Awaited => j = i
         /\ \A u \in Tabs : <<u, "mark">> \notin injecting
<1>1. /\ job.tab = t /\ job.step \in AwaitedAt(channel[t][i])
      /\ \A j \in DOMAIN channel[t] : channel[t][j] \in Awaited => j = i
  BY DEF Inv, Answers
<1>2. ASSUME NEW u \in Tabs, <<u, "mark">> \in injecting
      PROVE  FALSE
  BY <1>1, <1>2 DEF Inv, Answers
<1> QED BY <1>1, <1>2

(* Taking it leaves none, be it answered or given to an injection.           *)
LEMMA TakingAwaited ==
  ASSUME Inv, NEW t \in Tabs, channel[t] # <<>>, channel' = [channel EXCEPT ![t] = Tail(@)],
         \/ Head(channel[t]) \notin Awaited /\ job' = job
            /\ \A u \in Tabs : <<u, "mark">> \in injecting' => <<u, "mark">> \in injecting
         \/ Head(channel[t]) \in Awaited /\ injecting' = injecting
         \/ Head(channel[t]) = "mark" /\ injecting' = injecting \union {<<t, "mark">>} /\ job' = job
  PROVE  /\ Answers'
         /\ Head(channel[t]) \in Awaited =>
              job.tab = t /\ job.step \in AwaitedAt(Head(channel[t]))
<1> DEFINE n == Len(channel[t])
           m == Head(channel[t])
<1>1. /\ n \in Nat \ {0} /\ m = channel[t][1]
      /\ DOMAIN channel[t] = 1..n /\ DOMAIN channel'[t] = 1..n - 1
      /\ \A i \in 1..n - 1 : channel'[t][i] = channel[t][i + 1]
      /\ \A u \in Tabs : u # t => channel'[u] = channel[u]
  BY Taking DEF Inv
<1> HIDE DEF n
<1>2. m \in Awaited => job.tab = t /\ job.step \in AwaitedAt(m)
  <2>1. 1 \in DOMAIN channel[t]
    BY <1>1
  <2> QED BY <1>1, <2>1, AwaitedMessage
<1>3. ASSUME m \in Awaited
      PROVE  /\ \A u \in Tabs : <<u, "mark">> \notin injecting
             /\ \A u \in Tabs : \A i \in DOMAIN channel'[u] : channel'[u][i] \notin Awaited
  <2>0. 1 \in DOMAIN channel[t] /\ channel[t][1] \in Awaited
    BY <1>1, <1>3
  <2>1. \A u \in Tabs : <<u, "mark">> \notin injecting
    BY <2>0, AwaitedMessage
  <2>2. ASSUME NEW u \in Tabs, NEW i \in DOMAIN channel'[u], channel'[u][i] \in Awaited
        PROVE  FALSE
    <3>1. CASE u # t
      BY <1>1, <1>2, <1>3, <2>2, <3>1, AwaitedMessage
    <3>2. CASE u = t
      <4>1. i + 1 \in 1..n /\ i + 1 # 1 /\ 1 \in 1..n /\ channel[t][i + 1] \in Awaited
        BY <1>1, <2>2, <3>2
      <4>2. i + 1 \in DOMAIN channel[t]
        BY <1>1, <4>1
      <4> QED BY <2>0, <4>1, <4>2, AwaitedMessage
    <3> QED BY <3>1, <3>2
  <2> QED BY <2>1, <2>2
<1>4. CASE m \notin Awaited /\ job' = job
           /\ \A u \in Tabs : <<u, "mark">> \in injecting' => <<u, "mark">> \in injecting
  <2>1. ASSUME NEW u \in Tabs, NEW i \in DOMAIN channel'[u], channel'[u][i] \in Awaited
        PROVE  /\ job.tab = u /\ job.step \in AwaitedAt(channel'[u][i])
               /\ \A j \in DOMAIN channel'[u] : channel'[u][j] \in Awaited => j = i
    <3>1. CASE u # t
      <4>1. channel'[u] = channel[u]
        BY <1>1, <3>1
      <4> QED BY <2>1, <4>1, AwaitedMessage
    <3>2. CASE u = t
      <4>1. i + 1 \in 1..n /\ channel[t][i + 1] = channel'[t][i] /\ i \in 1..n - 1
        BY <1>1, <2>1, <3>2
      <4>2. /\ job.tab = t /\ job.step \in AwaitedAt(channel[t][i + 1])
            /\ \A j \in 1..n : channel[t][j] \in Awaited => j = i + 1
        <5>1. i + 1 \in DOMAIN channel[t] /\ channel[t][i + 1] \in Awaited
          BY <1>1, <2>1, <3>2, <4>1
        <5> QED BY <1>1, <5>1, AwaitedMessage
      <4>3. ASSUME NEW j \in 1..n - 1, channel'[t][j] \in Awaited
            PROVE  j = i
        <5>1. j + 1 \in 1..n /\ channel[t][j + 1] \in Awaited
          BY <1>1, <4>3
        <5>2. j + 1 = i + 1
          BY <4>2, <5>1
        <5> QED BY <4>1, <5>2
      <4> QED BY <1>1, <3>2, <4>1, <4>2, <4>3
    <3> QED BY <3>1, <3>2
  <2>2. ASSUME NEW u \in Tabs, <<u, "mark">> \in injecting,
               NEW i \in DOMAIN channel'[u], channel'[u][i] \in Awaited
        PROVE  FALSE
    <3>1. CASE u # t
      BY <1>1, <2>2, <3>1 DEF Inv, Answers
    <3>2. CASE u = t
      <4>1. i + 1 \in 1..n /\ channel[t][i + 1] = channel'[t][i]
        BY <1>1, <2>2, <3>2
      <4> QED BY <1>1, <2>2, <3>2, <4>1 DEF Inv, Answers
    <3> QED BY <3>1, <3>2
  <2>3. \A u \in Tabs : <<u, "mark">> \in injecting =>
          job.tab = u /\ job.step \in AwaitedAt("mark")
    BY DEF Inv, Answers
  <2>4. Answers'
    BY <1>4, <2>1, <2>2, <2>3 DEF Answers
  <2> QED BY <1>4, <2>4
<1>5. CASE m \in Awaited /\ injecting' = injecting
  <2>1. Answers'
    BY <1>3, <1>5 DEF Answers
  <2> QED BY <1>2, <2>1
<1>6. CASE m = "mark" /\ injecting' = injecting \union {<<t, "mark">>} /\ job' = job
  <2>1. m \in Awaited
    BY <1>6 DEF Awaited
  <2>2. \A u \in Tabs : <<u, "mark">> \in injecting' => u = t
    BY <1>3, <1>6, <2>1
  <2>3. Answers'
    BY <1>2, <1>3, <1>6, <2>1, <2>2 DEF Answers
  <2> QED BY <1>2, <2>3
<1> QED BY <1>4, <1>5, <1>6

-----------------------------------------------------------------------------
(* Steps that send and take nothing.                                         *)
Awaiting == {"mark", "ownMark", "pre", "post"}

LEMMA NoneAwaited ==
  ASSUME Inv, job.step \notin Awaiting
  PROVE  \A u \in Tabs : /\ <<u, "mark">> \notin injecting
                         /\ \A i \in DOMAIN channel[u] : channel[u][i] \notin Awaited
<1> USE DEF Awaiting, Awaited, AwaitedAt
<1>1. ASSUME NEW u \in Tabs, NEW i \in DOMAIN channel[u], channel[u][i] \in Awaited PROVE FALSE
  BY <1>1, AwaitedMessage
<1>2. ASSUME NEW u \in Tabs, <<u, "mark">> \in injecting PROVE FALSE
  BY <1>2 DEF Inv, Answers
<1> QED BY <1>1, <1>2

LEMMA FrameAnswers ==
  ASSUME Inv, channel' = channel, injecting' = injecting, job' = job \/ job.step \notin Awaiting
  PROVE  Answers'
<1>1. CASE job' = job
  BY <1>1 DEF Inv, Answers
<1>2. CASE job.step \notin Awaiting
  BY <1>2, NoneAwaited DEF Answers
<1> QED BY <1>1, <1>2

LEMMA FrameReasons ==
  ASSUME Inv, channel' = channel, \A u \in Tabs : page'[u] = "shown" => page[u] = "shown",
         ~stopped' => ~stopped,
         \A u \in Tabs : Reason(u) => Reason(u)'
  PROVE  ShownForReason' /\ BlockedHasReason'
<1>1. ShownForReason'
  BY DEF Inv, ShownForReason, Reason
<1>2. BlockedHasReason'
  BY DEF Inv, BlockedHasReason, Reason
<1> QED BY <1>1, <1>2

(* How a page looks depends on its messages only.                            *)
LEMMA FrameLooks ==
  ASSUME NEW t \in Tabs, channel'[t] = channel[t], page'[t] = page[t]
  PROVE  (EndsShown(t)' <=> EndsShown(t)) /\ (ShownBefore(t)' <=> ShownBefore(t))
BY DEF EndsShown, ShownBefore

(* The router's call begins.                                                 *)
LEMMA StartKeepsInv ==
  ASSUME Inv, NEW t \in Tabs, NEW named \in BOOLEAN, Start(t, named)
  PROVE  Inv'
<1> USE AutomationTabsAssumption
<1>1. /\ job.tab = NoTab /\ job.step = "none"
      /\ job' = [tab |-> t, named |-> named, step |-> IF named THEN "get" ELSE "run"]
      /\ tabs[t] # "new"
      /\ UNCHANGED <<tabs, panel, counts, pages, stopped>>
  BY DEF Start, Idle
<1>2. /\ job'.tab = t /\ job'.named = named /\ job'.step = IF named THEN "get" ELSE "run"
      /\ job' \in [tab : Tabs \union {NoTab}, named : BOOLEAN, step : Steps]
  BY <1>1 DEF Steps
<1>3. \A u \in Tabs : Marks(u) = 0 /\ Marks(u)' = 0
  BY <1>1, <1>2 DEF Marks, OwnSteps
<1>4. TypeOK'
  BY <1>1, <1>2 DEF Inv, TypeOK, panel, counts, pages
<1>5. MarksAreUndone' /\ Counted'
  BY <1>1, <1>3 DEF Inv, MarksAreUndone, Counted, counts
<1>6. JobIsSane' /\ NotOpen' /\ Scripted'
  BY <1>1, <1>2 DEF Inv, JobIsSane, NotOpen, Scripted, pages, Idle
<1>7. Answers'
  BY <1>1, FrameAnswers DEF Awaiting, pages
<1>8. ShownForReason' /\ BlockedHasReason'
  BY <1>1, FrameReasons DEF pages, counts, Reason
<1>9. StaysBehind'
  BY <1>1, <1>2 DEF StaysBehind
<1> QED BY <1>4, <1>5, <1>6, <1>7, <1>8, <1>9 DEF Inv

(* A mark is set, and its message sent to a page that had none.              *)
LEMMA Marking ==
  ASSUME Inv, NEW t \in Tabs, markAutomationTab(t), Marks(t) <= 1, Marks(t)' = Marks(t) + 1,
         \A u \in Tabs : u # t => Marks(u)' = Marks(u),
         job.step \notin Awaiting, tabs[t] # "new",
         job'.tab = t, Waits(t) => job'.step \in AwaitedAt("mark"),
         UNCHANGED <<tabs, injecting, loading, page, stopped>>
  PROVE  /\ automatedTabs' \in [Tabs -> 0..2] /\ hideTimers' \in SUBSET Tabs
         /\ channel' \in [Tabs -> Seq(Messages)]
         /\ MarksAreUndone' /\ NotOpen' /\ Scripted' /\ Counted' /\ Answers'
         /\ ShownForReason' /\ BlockedHasReason'
         /\ \A u \in Tabs : u # t => channel'[u] = channel[u]
         /\ ~stopped /\ tabs[t] = "open" => automatedTabs[t] = Marks(t)
         /\ Waits(t) => EndsShown(t)'
<1>1. /\ automatedTabs[t] \in 0..1
      /\ automatedTabs' \in [Tabs -> 0..2] /\ hideTimers' \in SUBSET Tabs
      /\ automatedTabs'[t] = automatedTabs[t] + 1
      /\ \A u \in Tabs : u # t => automatedTabs'[u] = automatedTabs[u]
      /\ \A u \in Tabs : u \in hideTimers' <=> u \in hideTimers /\ u # t
  <2>1. automatedTabs[t] \in 0..1
    BY MarksBounded DEF Inv, MarksAreUndone
  <2> QED BY <2>1 DEF Inv, TypeOK, markAutomationTab
<1>2. MarksAreUndone'
  BY <1>1, MarksBounded DEF Inv, MarksAreUndone
<1>3. Counted' /\ (~stopped /\ tabs[t] = "open" => automatedTabs[t] = Marks(t))
  BY <1>1 DEF Inv, Counted
<1>4. \A u \in Tabs : Reason(u) => Reason(u)'
  BY <1>1 DEF Reason
<1>5. Reason(t)'
  BY <1>1 DEF Reason
<1>6. CASE automatedTabs[t] = 0
  <2>1. Send(t, "mark") /\ "mark" \in Messages /\ "mark" \in Shows /\ "mark" \in Awaited
    BY <1>6 DEF markAutomationTab, Messages, Shows, Awaited
  <2>2. /\ channel' \in [Tabs -> Seq(Messages)]
        /\ \A u \in Tabs : u # t => channel'[u] = channel[u]
        /\ tabs[t] # "open" => channel' = channel
    BY <2>1, Sending DEF Inv
  <2>3. ShownForReason' /\ BlockedHasReason'
    BY <1>4, <1>5, <2>1, SendingForReason
  <2>4. Answers'
    BY <1>6, <2>1, SendingAwaited DEF Awaiting, Waits
  <2>5. NotOpen' /\ Scripted'
    <3>1. \A u \in Tabs : tabs[u] # "open" => channel'[u] = channel[u]
      BY <2>2
    <3> QED BY <3>1 DEF Inv, NotOpen, Scripted, Waits
  <2>6. Waits(t) => EndsShown(t)'
    BY <2>1, SendingLooks DEF Waits
  <2> QED BY <1>1, <1>2, <1>3, <2>2, <2>3, <2>4, <2>5, <2>6
<1>7. CASE automatedTabs[t] # 0
  <2>1. channel' = channel /\ ~Waits(t)
    BY <1>7 DEF markAutomationTab, Waits
  <2>2. ShownForReason' /\ BlockedHasReason'
    BY <1>4, <2>1, FrameReasons
  <2>3. Answers'
    BY <2>1, FrameAnswers
  <2>4. NotOpen' /\ Scripted'
    BY <2>1 DEF Inv, NotOpen, Scripted
  <2> QED BY <1>1, <1>2, <1>3, <2>1, <2>2, <2>3, <2>4 DEF Inv, TypeOK
<1> QED BY <1>6, <1>7

(* A mark is undone.                                                         *)
LEMMA Unmarking ==
  ASSUME Inv, NEW t \in Tabs, unmarkAutomationTab(t), Marks(t) >= 1, Marks(t)' = Marks(t) - 1,
         \A u \in Tabs : u # t => Marks(u)' = Marks(u),
         UNCHANGED <<tabs, pages, stopped>>
  PROVE  /\ automatedTabs' \in [Tabs -> 0..2] /\ hideTimers' \in SUBSET Tabs
         /\ MarksAreUndone' /\ Counted' /\ ShownForReason' /\ BlockedHasReason'
<1>1. /\ automatedTabs[t] \in 0..Marks(t) /\ automatedTabs[t] \in 0..2 /\ Marks(t) \in 1..2
      /\ automatedTabs' \in [Tabs -> 0..2] /\ hideTimers' \in SUBSET Tabs
      /\ automatedTabs'[t] = IF automatedTabs[t] = 0 THEN 0 ELSE automatedTabs[t] - 1
      /\ \A u \in Tabs : u # t => automatedTabs'[u] = automatedTabs[u]
      /\ \A u \in Tabs : u \in hideTimers' <=> u \in hideTimers \/ (u = t /\ automatedTabs[t] = 1)
  <2>1. /\ automatedTabs[t] \in 0..Marks(t) /\ Marks(t) \in 1..2
        /\ automatedTabs \in [Tabs -> 0..2] /\ hideTimers \in SUBSET Tabs
    BY MarksBounded DEF Inv, MarksAreUndone, TypeOK
  <2>2. automatedTabs[t] \in 0..2
    BY <2>1
  <2>3. automatedTabs' = [automatedTabs EXCEPT ![t] = IF @ = 0 THEN 0 ELSE @ - 1]
        /\ hideTimers' = IF automatedTabs[t] = 1 THEN hideTimers \union {t} ELSE hideTimers
    BY DEF unmarkAutomationTab
  <2>4. (IF automatedTabs[t] = 0 THEN 0 ELSE automatedTabs[t] - 1) \in 0..2
    BY <2>2
  <2> QED BY <2>1, <2>2, <2>3, <2>4
<1>2. MarksAreUndone'
  <2>1. ASSUME NEW u \in Tabs
        PROVE  /\ automatedTabs'[u] \in 0..Marks(u)'
               /\ automatedTabs'[u] > 0 => u \notin hideTimers'
    <3>1. automatedTabs[u] \in 0..Marks(u) /\ (automatedTabs[u] > 0 => u \notin hideTimers)
      BY DEF Inv, MarksAreUndone
    <3>2. CASE u = t
      BY <1>1, <3>1, <3>2
    <3>3. CASE u # t
      BY <1>1, <3>1, <3>3
    <3> QED BY <3>2, <3>3
  <2> QED BY <2>1 DEF MarksAreUndone
<1>3. Counted'
  BY <1>1 DEF Inv, Counted
<1>4. \A u \in Tabs : Reason(u) => Reason(u)'
  BY <1>1 DEF Reason
<1>5. ShownForReason' /\ BlockedHasReason'
  BY <1>4, FrameReasons DEF pages
<1> QED BY <1>1, <1>2, <1>3, <1>5

LEMMA GotTabKeepsInv ==
  ASSUME Inv, NEW t \in Tabs, GotTab(t)
  PROVE  Inv'
<1> USE AutomationTabsAssumption
<1>1. /\ job.step = "get" /\ job.tab = t /\ job.named /\ tabs[t] # "new"
      /\ job' = [job EXCEPT !.step = IF Waits(t) THEN "mark" ELSE "run"]
      /\ UNCHANGED <<tabs, injecting, loading, page, stopped>>
      /\ markAutomationTab(t)
  BY DEF GotTab, Inv, JobIsSane, NotOpen
<1>2. /\ job'.tab = t /\ job'.named /\ job'.step = IF Waits(t) THEN "mark" ELSE "run"
      /\ job' \in [tab : Tabs \union {NoTab}, named : BOOLEAN, step : Steps]
  BY <1>1 DEF Inv, TypeOK, Steps
<1>3. Marks(t) = 0 /\ Marks(t)' = 1 /\ \A u \in Tabs : u # t => Marks(u)' = Marks(u)
  BY <1>1, <1>2 DEF Marks, OwnSteps
<1>4. /\ automatedTabs' \in [Tabs -> 0..2] /\ hideTimers' \in SUBSET Tabs
      /\ channel' \in [Tabs -> Seq(Messages)]
      /\ MarksAreUndone' /\ NotOpen' /\ Scripted' /\ Counted' /\ Answers'
      /\ ShownForReason' /\ BlockedHasReason'
      /\ ~stopped /\ tabs[t] = "open" => automatedTabs[t] = 0
      /\ Waits(t) => EndsShown(t)'
  BY <1>1, <1>2, <1>3, Marking DEF Awaiting, AwaitedAt
<1>5. TypeOK'
  <2>1. automationTabs' \in [Tabs -> {"none", "idle", "working"}] /\ idleTimers' \in SUBSET Tabs
    BY DEF GotTab, setAutomationTabWorking, Inv, TypeOK
  <2> QED BY <1>1, <1>2, <1>4, <2>1 DEF Inv, TypeOK
<1>6. JobIsSane'
  BY <1>2 DEF JobIsSane
<1>7. StaysBehind'
  BY <1>1, <1>2, <1>4 DEF StaysBehind, Waits
<1> QED BY <1>4, <1>5, <1>6, <1>7 DEF Inv

LEMMA NavigateMarksKeepsInv ==
  ASSUME Inv, NEW t \in Tabs, NavigateMarks(t)
  PROVE  Inv'
<1> USE AutomationTabsAssumption
<1>1. /\ job.step = "run" /\ job.tab = t /\ job.named \in BOOLEAN /\ tabs[t] # "new"
      /\ job' = [job EXCEPT !.step = IF Waits(t) THEN "ownMark" ELSE "ownMarked"]
      /\ UNCHANGED <<tabs, injecting, loading, page, stopped>>
      /\ markAutomationTab(t)
  BY DEF NavigateMarks, Inv, TypeOK
<1>2. /\ job'.tab = t /\ job'.named = job.named
      /\ job'.step = IF Waits(t) THEN "ownMark" ELSE "ownMarked"
      /\ job' \in [tab : Tabs \union {NoTab}, named : BOOLEAN, step : Steps]
  BY <1>1 DEF Inv, TypeOK, Steps, OwnSteps
<1>3. /\ Marks(t) <= 1 /\ Marks(t)' = Marks(t) + 1
      /\ \A u \in Tabs : u # t => Marks(u)' = Marks(u)
  BY <1>1, <1>2 DEF Marks, OwnSteps
<1>4. /\ automatedTabs' \in [Tabs -> 0..2] /\ hideTimers' \in SUBSET Tabs
      /\ channel' \in [Tabs -> Seq(Messages)]
      /\ MarksAreUndone' /\ NotOpen' /\ Scripted' /\ Counted' /\ Answers'
      /\ ShownForReason' /\ BlockedHasReason'
  BY <1>1, <1>2, <1>3, Marking DEF Awaiting, AwaitedAt
<1>5. TypeOK'
  <2>1. automationTabs' \in [Tabs -> {"none", "idle", "working"}] /\ idleTimers' = idleTimers
    BY DEF NavigateMarks, recordAutomationTab, Inv, TypeOK
  <2> QED BY <1>1, <1>2, <1>4, <2>1 DEF Inv, TypeOK
<1>6. JobIsSane'
  BY <1>2 DEF JobIsSane
<1>7. StaysBehind'
  BY <1>1, <1>2 DEF StaysBehind
<1> QED BY <1>4, <1>5, <1>6, <1>7 DEF Inv

LEMMA NavigateWorksKeepsInv ==
  ASSUME Inv, NEW t \in Tabs, NavigateWorks(t)
  PROVE  Inv'
<1> USE AutomationTabsAssumption
<1>1. /\ job.step = "ownMarked" /\ job.tab = t /\ job.named \in BOOLEAN
      /\ job' = [job EXCEPT !.step = "own"]
      /\ UNCHANGED <<tabs, counts, pages, stopped>>
  BY DEF NavigateWorks, Inv, TypeOK
<1>2. /\ job'.tab = t /\ job'.named = job.named /\ job'.step = "own"
      /\ job' \in [tab : Tabs \union {NoTab}, named : BOOLEAN, step : Steps]
  BY <1>1 DEF Inv, TypeOK, Steps, OwnSteps
<1>3. \A u \in Tabs : Marks(u)' = Marks(u)
  BY <1>1, <1>2 DEF Marks, OwnSteps
<1>4. TypeOK'
  <2>1. automationTabs' \in [Tabs -> {"none", "idle", "working"}] /\ idleTimers' \in SUBSET Tabs
    BY DEF NavigateWorks, setAutomationTabWorking, Inv, TypeOK
  <2> QED BY <1>1, <1>2, <2>1 DEF Inv, TypeOK, counts, pages
<1>5. MarksAreUndone' /\ Counted'
  BY <1>1, <1>3 DEF Inv, MarksAreUndone, Counted, counts
<1>6. JobIsSane' /\ NotOpen' /\ Scripted'
  BY <1>1, <1>2 DEF Inv, JobIsSane, NotOpen, Scripted, pages
<1>7. Answers'
  BY <1>1, FrameAnswers DEF Awaiting, pages
<1>8. ShownForReason' /\ BlockedHasReason'
  BY <1>1, FrameReasons DEF pages, counts, Reason
<1>9. StaysBehind'
  BY <1>2 DEF StaysBehind
<1> QED BY <1>4, <1>5, <1>6, <1>7, <1>8, <1>9 DEF Inv

LEMMA NavigateEndsKeepsInv ==
  ASSUME Inv, NEW t \in Tabs, NavigateEnds(t)
  PROVE  Inv'
<1> USE AutomationTabsAssumption
<1>1. /\ job.step = "own" /\ job.tab = t /\ job.named \in BOOLEAN
      /\ job' = [job EXCEPT !.step = "end"]
      /\ unmarkAutomationTab(t)
      /\ idleTimers' = idleTimers \union {t}
      /\ UNCHANGED <<tabs, automationTabs, pages, stopped>>
  BY DEF NavigateEnds, Inv, TypeOK, finishAutomationTabWorking
<1>2. /\ job'.tab = t /\ job'.named = job.named /\ job'.step = "end"
      /\ job' \in [tab : Tabs \union {NoTab}, named : BOOLEAN, step : Steps]
  BY <1>1 DEF Inv, TypeOK, Steps
<1>3. /\ Marks(t) >= 1 /\ Marks(t)' = Marks(t) - 1
      /\ \A u \in Tabs : u # t => Marks(u)' = Marks(u)
  BY <1>1, <1>2 DEF Marks, OwnSteps
<1>4. /\ automatedTabs' \in [Tabs -> 0..2] /\ hideTimers' \in SUBSET Tabs
      /\ MarksAreUndone' /\ Counted' /\ ShownForReason' /\ BlockedHasReason'
  BY <1>1, <1>3, Unmarking
<1>5. TypeOK'
  BY <1>1, <1>2, <1>4 DEF Inv, TypeOK, pages
<1>6. JobIsSane' /\ NotOpen' /\ Scripted'
  BY <1>1, <1>2 DEF Inv, JobIsSane, NotOpen, Scripted, pages
<1>7. Answers'
  BY <1>1, FrameAnswers DEF Awaiting, pages
<1>8. StaysBehind'
  BY <1>2 DEF StaysBehind
<1> QED BY <1>4, <1>5, <1>6, <1>7, <1>8 DEF Inv

(* The router's call ends.                                                   *)
LEMMA FinishKeepsInv ==
  ASSUME Inv, NEW t \in Tabs, Finish(t)
  PROVE  Inv'
<1> USE AutomationTabsAssumption
<1>1. /\ job.step \in {"run", "end"} /\ job.tab = t /\ job.named \in BOOLEAN
      /\ job' = Idle
      /\ UNCHANGED <<tabs, automationTabs, pages, stopped>>
  BY DEF Finish, Inv, TypeOK
<1>2. /\ job'.tab = NoTab /\ job'.named = FALSE /\ job'.step = "none"
      /\ job' \in [tab : Tabs \union {NoTab}, named : BOOLEAN, step : Steps]
  BY <1>1 DEF Idle, Steps
<1>3. /\ Marks(t) = IF job.named THEN 1 ELSE 0
      /\ \A u \in Tabs : Marks(u)' = 0 /\ (u # t => Marks(u) = 0)
  BY <1>1, <1>2 DEF Marks, OwnSteps
<1>4. /\ automatedTabs' \in [Tabs -> 0..2] /\ hideTimers' \in SUBSET Tabs
      /\ idleTimers' \in SUBSET Tabs
      /\ MarksAreUndone' /\ Counted' /\ ShownForReason' /\ BlockedHasReason'
  <2>1. CASE job.named
    <3>1. unmarkAutomationTab(t) /\ idleTimers' = idleTimers \union {t}
      BY <2>1 DEF Finish, finishAutomationTabWorking
    <3>2. /\ Marks(t) >= 1 /\ Marks(t)' = Marks(t) - 1
          /\ \A u \in Tabs : u # t => Marks(u)' = Marks(u)
      BY <1>3, <2>1
    <3>3. idleTimers' \in SUBSET Tabs
      BY <3>1 DEF Inv, TypeOK
    <3> QED BY <1>1, <3>1, <3>2, <3>3, Unmarking
  <2>2. CASE ~job.named
    <3>1. UNCHANGED <<idleTimers, counts>>
      BY <2>2 DEF Finish
    <3>2. MarksAreUndone' /\ Counted'
      BY <1>1, <1>3, <2>2, <3>1 DEF Inv, MarksAreUndone, Counted, counts
    <3>3. ShownForReason' /\ BlockedHasReason'
      BY <1>1, <3>1, FrameReasons DEF pages, counts, Reason
    <3> QED BY <3>1, <3>2, <3>3 DEF counts, Inv, TypeOK
  <2> QED BY <2>1, <2>2
<1>5. TypeOK'
  BY <1>1, <1>2, <1>4 DEF Inv, TypeOK, pages
<1>6. JobIsSane' /\ NotOpen' /\ Scripted'
  BY <1>1, <1>2 DEF Inv, JobIsSane, NotOpen, Scripted, pages
<1>7. Answers'
  BY <1>1, FrameAnswers DEF Awaiting, pages
<1>8. StaysBehind'
  BY <1>2 DEF StaysBehind
<1> QED BY <1>4, <1>5, <1>6, <1>7, <1>8 DEF Inv

-----------------------------------------------------------------------------
(* Steps that send.                                                          *)
LEMMA ScreenshotBeginsKeepsInv ==
  ASSUME Inv, NEW t \in Tabs, ScreenshotBegins(t)
  PROVE  Inv'
<1> USE AutomationTabsAssumption
<1>1. /\ job.step = "run" /\ job.tab = t /\ job.named /\ tabs[t] = "open"
      /\ job' = [job EXCEPT !.step = "pre"]
      /\ Send(t, "pre") /\ "pre" \in Messages /\ "pre" \notin Shows
      /\ UNCHANGED <<tabs, panel, counts, injecting, loading, page, stopped>>
  BY DEF ScreenshotBegins, Messages, Shows
<1>2. /\ job'.tab = t /\ job'.named /\ job'.step = "pre"
      /\ job' \in [tab : Tabs \union {NoTab}, named : BOOLEAN, step : Steps]
  BY <1>1 DEF Inv, TypeOK, Steps
<1>3. \A u \in Tabs : Marks(u)' = Marks(u)
  BY <1>1, <1>2 DEF Marks, OwnSteps
<1>4. channel' \in [Tabs -> Seq(Messages)] /\ \A u \in Tabs : u # t => channel'[u] = channel[u]
  BY <1>1, Sending DEF Inv
<1>5. TypeOK'
  BY <1>1, <1>2, <1>4 DEF Inv, TypeOK, panel, counts
<1>6. MarksAreUndone' /\ Counted'
  BY <1>1, <1>3 DEF Inv, MarksAreUndone, Counted, counts
<1>7. JobIsSane' /\ NotOpen' /\ Scripted'
  BY <1>1, <1>2, <1>4 DEF Inv, JobIsSane, NotOpen, Scripted
<1>8. Answers'
  BY <1>1, <1>2, SendingAwaited DEF AwaitedAt
<1>9. ShownForReason' /\ BlockedHasReason'
  BY <1>1, SendingForReason DEF counts, Reason
<1>10. StaysBehind'
  <2>1. ~stopped /\ t \notin Unscripted /\ t \notin loading => EndsShown(t)
    BY <1>1 DEF Inv, StaysBehind
  <2>2. EndsShown(t) => ShownBefore(t)'
    BY <1>1, SendingLooks
  <2> QED BY <1>1, <1>2, <2>1, <2>2 DEF StaysBehind
<1> QED BY <1>5, <1>6, <1>7, <1>8, <1>9, <1>10 DEF Inv

LEMMA ScreenshotEndsKeepsInv ==
  ASSUME Inv, NEW t \in Tabs, ScreenshotEnds(t)
  PROVE  Inv'
<1> USE AutomationTabsAssumption
<1>1. /\ job.step = "shot" /\ job.tab = t /\ job.named
      /\ UNCHANGED <<tabs, panel, counts, injecting, loading, page, stopped>>
      /\ tabs[t] # "new"
  BY DEF ScreenshotEnds, Inv, JobIsSane, NotOpen
<1>2. ASSUME NEW s \in {"post", "run", "end"}, job' = [job EXCEPT !.step = s],
             channel' \in [Tabs -> Seq(Messages)],
             \A u \in Tabs : u # t \/ tabs[u] # "open" => channel'[u] = channel[u],
             Answers', ShownForReason', BlockedHasReason',
             s # "end" /\ tabs[t] = "open" => EndsShown(t)'
      PROVE  Inv'
  <2>1. /\ job'.tab = t /\ job'.named /\ job'.step = s
        /\ job' \in [tab : Tabs \union {NoTab}, named : BOOLEAN, step : Steps]
    BY <1>1, <1>2 DEF Inv, TypeOK, Steps
  <2>2. \A u \in Tabs : Marks(u)' = Marks(u)
    BY <1>1, <2>1 DEF Marks, OwnSteps
  <2>3. TypeOK'
    BY <1>1, <1>2, <2>1 DEF Inv, TypeOK, panel, counts
  <2>4. MarksAreUndone' /\ Counted'
    BY <1>1, <2>2 DEF Inv, MarksAreUndone, Counted, counts
  <2>5. JobIsSane' /\ NotOpen' /\ Scripted'
    BY <1>1, <1>2, <2>1 DEF Inv, JobIsSane, NotOpen, Scripted
  <2>6. StaysBehind'
    BY <1>1, <1>2, <2>1 DEF StaysBehind
  <2> QED BY <1>2, <2>3, <2>4, <2>5, <2>6 DEF Inv
<1>3. CASE Send(t, "post") /\ job' = [job EXCEPT !.step = IF tabs[t] = "open" THEN "post" ELSE "run"]
  <2>1. "post" \in Messages /\ "post" \in Shows
    BY DEF Messages, Shows
  <2>2. /\ channel' \in [Tabs -> Seq(Messages)]
        /\ \A u \in Tabs : u # t \/ tabs[u] # "open" => channel'[u] = channel[u]
    BY <1>3, <2>1, Sending DEF Inv
  <2>3. ~stopped /\ tabs[t] = "open" => Reason(t)'
    <3>1. Marks(t) = 1
      BY <1>1 DEF Marks, OwnSteps
    <3> QED BY <1>1, <3>1 DEF Inv, Counted, Reason, counts
  <2>4. ShownForReason' /\ BlockedHasReason'
    BY <1>1, <1>3, <2>1, <2>3, SendingForReason DEF counts, Reason
  <2>5. tabs[t] = "open" => EndsShown(t)'
    BY <1>1, <1>3, <2>1, SendingLooks
  <2>6. tabs[t] = "open" => job'.tab = t /\ job'.step = "post"
    BY <1>1, <1>3 DEF Inv, TypeOK
  <2>7. Answers'
    <3>1. tabs[t] = "open" => job'.tab = t /\ job'.step \in AwaitedAt("post")
      BY <2>6 DEF AwaitedAt
    <3>2. /\ Send(t, "post") /\ injecting' \subseteq injecting
          /\ job.step \notin {"mark", "ownMark", "pre", "post"}
      BY <1>1, <1>3
    <3> QED BY <2>1, <3>1, <3>2, SendingAwaited
  <2>8. CASE tabs[t] = "open"
    BY <1>2, <1>3, <2>2, <2>4, <2>5, <2>7, <2>8
  <2>9. CASE tabs[t] # "open"
    BY <1>2, <1>3, <2>2, <2>4, <2>7, <2>9
  <2> QED BY <2>8, <2>9
<1>4. CASE job' = [job EXCEPT !.step = "end"] /\ channel' = channel
  <2>1. Answers'
    BY <1>1, <1>4, FrameAnswers DEF Awaiting
  <2>2. ShownForReason' /\ BlockedHasReason'
    BY <1>1, <1>4, FrameReasons DEF counts, Reason
  <2>3. channel' \in [Tabs -> Seq(Messages)]
    BY <1>4 DEF Inv, TypeOK
  <2> QED BY <1>2, <1>4, <2>1, <2>2, <2>3
<1> QED BY <1>3, <1>4 DEF ScreenshotEnds

LEMMA HideTimeoutKeepsInv ==
  ASSUME Inv, NEW t \in Tabs, HideTimeout(t)
  PROVE  Inv'
<1>1. /\ t \in hideTimers /\ hideTimers' = hideTimers \ {t}
      /\ Send(t, "hide") /\ "hide" \in Messages /\ "hide" \notin Shows /\ "hide" \notin Awaited
      /\ UNCHANGED <<tabs, job, panel, automatedTabs, injecting, loading, page, stopped>>
  BY DEF HideTimeout, Messages, Shows, Awaited
<1>2. \A u \in Tabs : Marks(u)' = Marks(u)
  BY <1>1 DEF Marks
<1>3. /\ channel' \in [Tabs -> Seq(Messages)]
      /\ \A u \in Tabs : u # t \/ tabs[u] # "open" => channel'[u] = channel[u]
  BY <1>1, Sending DEF Inv
<1>4. TypeOK'
  BY <1>1, <1>3 DEF Inv, TypeOK, panel
<1>5. MarksAreUndone' /\ Counted'
  BY <1>1, <1>2 DEF Inv, MarksAreUndone, Counted
<1>6. JobIsSane' /\ NotOpen' /\ Scripted'
  BY <1>1, <1>3 DEF Inv, JobIsSane, NotOpen, Scripted
<1>7. Answers'
  BY <1>1, SendingAwaited
<1>8. ShownForReason' /\ BlockedHasReason'
  BY <1>1, SendingForReason DEF Reason
<1>9. StaysBehind'
  <2>1. ASSUME ~stopped, tabs[t] = "open", job.tab = t, job.named,
               job.step \in {"mark", "run", "post", "pre"}
        PROVE  FALSE
    <3>1. Marks(t) = 1
      BY <2>1 DEF Marks, OwnSteps
    <3> QED BY <1>1, <2>1, <3>1 DEF Inv, Counted, MarksAreUndone
  <2>2. \A u \in Tabs : u # t => (EndsShown(u)' <=> EndsShown(u)) /\ (ShownBefore(u)' <=> ShownBefore(u))
    BY <1>1, <1>3, FrameLooks
  <2> QED BY <1>1, <2>1, <2>2 DEF Inv, StaysBehind
<1> QED BY <1>4, <1>5, <1>6, <1>7, <1>8, <1>9 DEF Inv

LEMMA LoadedKeepsInv ==
  ASSUME Inv, NEW t \in Tabs, Loaded(t)
  PROVE  Inv'
<1>1. /\ loading' = loading \ {t}
      /\ UNCHANGED <<tabs, job, panel, counts, injecting, page, stopped>>
  BY DEF Loaded
<1>2. \A u \in Tabs : Marks(u)' = Marks(u)
  BY <1>1 DEF Marks
<1>3. /\ channel' \in [Tabs -> Seq(Messages)]
      /\ \A u \in Tabs : u # t \/ tabs[u] # "open" => channel'[u] = channel[u]
      /\ Answers' /\ ShownForReason' /\ BlockedHasReason'
      /\ automatedTabs[t] > 0 /\ tabs[t] = "open" => EndsShown(t)'
  <2>1. CASE automatedTabs[t] > 0
    <3>1. Send(t, "show") /\ "show" \in Messages /\ "show" \in Shows /\ "show" \notin Awaited
      BY <2>1 DEF Loaded, Messages, Shows, Awaited
    <3>2. Answers'
      BY <1>1, <3>1, SendingAwaited
    <3>3. ShownForReason' /\ BlockedHasReason'
      BY <1>1, <2>1, <3>1, SendingForReason DEF Reason, counts
    <3>4. tabs[t] = "open" => EndsShown(t)'
      BY <1>1, <3>1, SendingLooks
    <3>5. /\ channel' \in [Tabs -> Seq(Messages)]
          /\ \A u \in Tabs : u # t \/ tabs[u] # "open" => channel'[u] = channel[u]
      BY <3>1, Sending DEF Inv
    <3> QED BY <3>2, <3>3, <3>4, <3>5
  <2>2. CASE ~(automatedTabs[t] > 0)
    <3>1. channel' = channel
      BY <2>2 DEF Loaded
    <3>2. Answers'
      BY <1>1, <3>1, FrameAnswers
    <3>3. ShownForReason' /\ BlockedHasReason'
      BY <1>1, <3>1, FrameReasons DEF Reason, counts
    <3> QED BY <2>2, <3>1, <3>2, <3>3 DEF Inv, TypeOK
  <2> QED BY <2>1, <2>2
<1>4. TypeOK'
  BY <1>1, <1>3 DEF Inv, TypeOK, panel, counts
<1>5. MarksAreUndone' /\ Counted'
  BY <1>1, <1>2 DEF Inv, MarksAreUndone, Counted, counts
<1>6. JobIsSane' /\ NotOpen' /\ Scripted'
  BY <1>1, <1>3 DEF Inv, JobIsSane, NotOpen, Scripted
<1>7. StaysBehind'
  <2>1. ASSUME ~stopped, tabs[t] = "open", job.tab = t, job.named,
               job.step \in {"mark", "run", "post", "pre"}
        PROVE  EndsShown(t)'
    <3>1. Marks(t) = 1
      BY <2>1 DEF Marks, OwnSteps
    <3>2. automatedTabs[t] > 0
      BY <2>1, <3>1 DEF Inv, Counted
    <3> QED BY <1>3, <2>1, <3>2
  <2>2. \A u \in Tabs : u # t => (EndsShown(u)' <=> EndsShown(u)) /\ (ShownBefore(u)' <=> ShownBefore(u))
    BY <1>1, <1>3, FrameLooks
  <2> QED BY <1>1, <2>1, <2>2 DEF Inv, StaysBehind
<1> QED BY <1>3, <1>4, <1>5, <1>6, <1>7 DEF Inv

-----------------------------------------------------------------------------
(* Steps of the user and the browser.                                        *)
LEMMA TabOpensKeepsInv ==
  ASSUME Inv, NEW t \in Tabs, Open(t) \/ CreateTab(t)
  PROVE  Inv'
<1>1. /\ tabs[t] = "new" /\ tabs' = [tabs EXCEPT ![t] = "open"]
      /\ automationTabs' \in [Tabs -> {"none", "idle", "working"}]
      /\ UNCHANGED <<job, idleTimers, counts, pages, stopped>>
  BY DEF Open, CreateTab, recordAutomationTab, panel, Inv, TypeOK
<1>2. /\ tabs'[t] = "open" /\ \A u \in Tabs : u # t => tabs'[u] = tabs[u]
      /\ tabs' \in [Tabs -> {"new", "open", "closed"}]
      /\ job.tab # t
  BY <1>1 DEF Inv, TypeOK, NotOpen
<1>3. \A u \in Tabs : Marks(u)' = Marks(u)
  BY <1>1 DEF Marks
<1>4. TypeOK'
  BY <1>1, <1>2 DEF Inv, TypeOK, counts, pages
<1>5. MarksAreUndone'
  BY <1>1, <1>3 DEF Inv, MarksAreUndone, counts
<1>6. Counted'
  <2>1. Marks(t) = 0 /\ automatedTabs[t] = 0
    BY <1>2 DEF Marks, Inv, MarksAreUndone
  <2> QED BY <1>1, <1>2, <1>3, <2>1 DEF Inv, Counted, counts
<1>7. JobIsSane' /\ NotOpen' /\ Scripted'
  BY <1>1, <1>2 DEF Inv, JobIsSane, NotOpen, Scripted, pages
<1>8. Answers'
  BY <1>1, FrameAnswers DEF pages
<1>9. ShownForReason' /\ BlockedHasReason'
  BY <1>1, FrameReasons DEF Reason, counts, pages
<1>10. StaysBehind'
  <2>1. \A u \in Tabs : (EndsShown(u)' <=> EndsShown(u)) /\ (ShownBefore(u)' <=> ShownBefore(u))
    BY <1>1, FrameLooks DEF pages
  <2> QED BY <1>1, <1>2, <2>1 DEF Inv, StaysBehind, pages
<1> QED BY <1>4, <1>5, <1>6, <1>7, <1>8, <1>9, <1>10 DEF Inv

LEMMA IdleTimeoutKeepsInv ==
  ASSUME Inv, NEW t \in Tabs, IdleTimeout(t)
  PROVE  Inv'
<1>1. /\ automationTabs' \in [Tabs -> {"none", "idle", "working"}]
      /\ idleTimers' \in SUBSET Tabs
      /\ UNCHANGED <<tabs, job, counts, pages, stopped>>
  BY DEF IdleTimeout, setAutomationTabWorking, Inv, TypeOK
<1>2. \A u \in Tabs : Marks(u)' = Marks(u)
  BY <1>1 DEF Marks
<1>3. TypeOK'
  BY <1>1 DEF Inv, TypeOK, counts, pages
<1>4. MarksAreUndone' /\ Counted'
  BY <1>1, <1>2 DEF Inv, MarksAreUndone, Counted, counts
<1>5. JobIsSane' /\ NotOpen' /\ Scripted'
  BY <1>1 DEF Inv, JobIsSane, NotOpen, Scripted, pages
<1>6. Answers'
  BY <1>1, FrameAnswers DEF pages
<1>7. ShownForReason' /\ BlockedHasReason'
  BY <1>1, FrameReasons DEF Reason, counts, pages
<1>8. StaysBehind'
  <2>1. \A u \in Tabs : (EndsShown(u)' <=> EndsShown(u)) /\ (ShownBefore(u)' <=> ShownBefore(u))
    BY <1>1, FrameLooks DEF pages
  <2> QED BY <1>1, <2>1 DEF Inv, StaysBehind, pages
<1> QED BY <1>3, <1>4, <1>5, <1>6, <1>7, <1>8 DEF Inv

(* Stop takes all counts away, and sends "hide" where there was one.         *)
LEMMA StopKeepsInv ==
  ASSUME Inv, NEW t \in StopTargets, Stop(t)
  PROVE  Inv'
<1>1. /\ automatedTabs' = [u \in Tabs |-> 0]
      /\ hideTimers' \subseteq hideTimers
      /\ channel' = [u \in Tabs |-> IF automatedTabs[u] > 0 /\ tabs[u] = "open"
                                    THEN Append(channel[u], "hide") ELSE channel[u]]
      /\ automationTabs' \in [Tabs -> {"none", "idle", "working"}]
      /\ idleTimers' \subseteq idleTimers
      /\ stopped' = TRUE
      /\ UNCHANGED <<tabs, job, injecting, loading, page>>
  BY DEF Stop, clearAutomationIndicators, Inv, TypeOK
<1>2. \A u \in Tabs : Marks(u) \in 0..2 /\ Marks(u)' = Marks(u)
  BY <1>1, MarksBounded DEF Marks
<1>3. ASSUME NEW u \in Tabs
      PROVE  /\ channel'[u] \in Seq(Messages)
             /\ tabs[u] # "open" => channel'[u] = channel[u]
             /\ \A i \in DOMAIN channel'[u] : channel'[u][i] \in Awaited =>
                  i \in DOMAIN channel[u] /\ channel[u][i] = channel'[u][i]
  <2>1. channel[u] \in Seq(Messages) /\ "hide" \in Messages /\ "hide" \notin Awaited
    BY DEF Inv, TypeOK, Messages, Awaited
  <2>2. CASE automatedTabs[u] > 0 /\ tabs[u] = "open"
    <3>1. channel'[u] = Append(channel[u], "hide")
      BY <1>1, <2>2
    <3> QED BY <2>1, <2>2, <3>1
  <2>3. CASE ~(automatedTabs[u] > 0 /\ tabs[u] = "open")
    BY <1>1, <2>1, <2>3
  <2> QED BY <2>2, <2>3
<1>4. channel' \in [Tabs -> Seq(Messages)]
  BY <1>1, <1>3
<1>5. TypeOK'
  BY <1>1, <1>4 DEF Inv, TypeOK
<1>6. MarksAreUndone' /\ Counted'
  BY <1>1, <1>2 DEF MarksAreUndone, Counted
<1>7. JobIsSane' /\ NotOpen' /\ Scripted'
  BY <1>1, <1>3 DEF Inv, JobIsSane, NotOpen, Scripted
<1>8. Answers'
  <2>1. ASSUME NEW u \in Tabs, NEW i \in DOMAIN channel'[u], channel'[u][i] \in Awaited
        PROVE  /\ job.tab = u /\ job.step \in AwaitedAt(channel'[u][i])
               /\ \A j \in DOMAIN channel'[u] : channel'[u][j] \in Awaited => j = i
    BY <1>3, <2>1, AwaitedMessage
  <2>2. ASSUME NEW u \in Tabs, <<u, "mark">> \in injecting
        PROVE  /\ job.tab = u /\ job.step \in AwaitedAt("mark")
               /\ \A i \in DOMAIN channel'[u] : channel'[u][i] \notin Awaited
    <3>1. job.tab = u /\ job.step \in AwaitedAt("mark")
      BY <2>2 DEF Inv, Answers
    <3>2. ASSUME NEW i \in DOMAIN channel'[u], channel'[u][i] \in Awaited
          PROVE  FALSE
      <4>1. i \in DOMAIN channel[u] /\ channel[u][i] \in Awaited
        BY <1>3, <3>2
      <4> QED BY <2>2, <4>1, AwaitedMessage
    <3> QED BY <3>1, <3>2
  <2>3. job' = job /\ injecting' = injecting
    BY <1>1
  <2>4. ASSUME NEW u \in Tabs, NEW i \in DOMAIN channel'[u], channel'[u][i] \in Awaited
        PROVE  /\ job'.tab = u /\ job'.step \in AwaitedAt(channel'[u][i])
               /\ \A j \in DOMAIN channel'[u] : channel'[u][j] \in Awaited => j = i
    BY <2>1, <2>3, <2>4
  <2>5. ASSUME NEW u \in Tabs, <<u, "mark">> \in injecting'
        PROVE  /\ job'.tab = u /\ job'.step \in AwaitedAt("mark")
               /\ \A i \in DOMAIN channel'[u] : channel'[u][i] \notin Awaited
    BY <2>2, <2>3, <2>5
  <2> QED BY <2>4, <2>5 DEF Answers
<1>9. ShownForReason' /\ BlockedHasReason' /\ StaysBehind'
  BY <1>1 DEF ShownForReason, BlockedHasReason, StaysBehind
<1> QED BY <1>5, <1>6, <1>7, <1>8, <1>9 DEF Inv

(* The page's own Stop, and a page that is replaced.                         *)
LEMMA PageChangesKeepsInv ==
  ASSUME Inv, NEW t \in Tabs, PageStop(t) \/ Reload(t)
  PROVE  Inv'
<1>1. /\ page' \in [Tabs -> {"absent", "hidden", "shown"}]
      /\ \A u \in Tabs : u # t => page'[u] = page[u]
      /\ page'[t] # "shown" /\ (t \notin Unscripted => page'[t] = "hidden")
      /\ loading' \in SUBSET Tabs
      /\ \A u \in Tabs : u # t => (u \in loading' <=> u \in loading)
      /\ stopped' \in BOOLEAN /\ (~stopped' => ~stopped /\ t \in loading')
      /\ UNCHANGED <<tabs, job, panel, counts, channel, injecting>>
  BY DEF PageStop, Reload, Inv, TypeOK
<1>2. \A u \in Tabs : Marks(u)' = Marks(u)
  BY <1>1 DEF Marks
<1>3. TypeOK'
  BY <1>1 DEF Inv, TypeOK, panel, counts
<1>4. MarksAreUndone' /\ Counted'
  BY <1>1, <1>2 DEF Inv, MarksAreUndone, Counted, counts
<1>5. JobIsSane' /\ NotOpen' /\ Scripted'
  BY <1>1 DEF Inv, JobIsSane, NotOpen, Scripted
<1>6. Answers'
  BY <1>1, FrameAnswers
<1>7. ShownForReason' /\ BlockedHasReason'
  <2>1. \A u \in Tabs : page'[u] = "shown" => page[u] = "shown"
    BY <1>1
  <2> QED BY <1>1, <2>1, FrameReasons DEF Reason, counts
<1>8. StaysBehind'
  <2>1. \A u \in Tabs : u # t => (EndsShown(u)' <=> EndsShown(u)) /\ (ShownBefore(u)' <=> ShownBefore(u))
    BY <1>1, FrameLooks
  <2> QED BY <1>1, <2>1 DEF Inv, StaysBehind
<1> QED BY <1>3, <1>4, <1>5, <1>6, <1>7, <1>8 DEF Inv

(* A tab is closed: what awaits an answer of its page goes on.               *)
LEMMA CloseKeepsInv ==
  ASSUME Inv, NEW t \in Tabs, Close(t)
  PROVE  Inv'
<1> USE AutomationTabsAssumption
<1>1. /\ tabs[t] = "open" /\ tabs' = [tabs EXCEPT ![t] = "closed"]
      /\ automationTabs' = [automationTabs EXCEPT ![t] = "none"]
      /\ idleTimers' = idleTimers \ {t}
      /\ automatedTabs' = [automatedTabs EXCEPT ![t] = 0]
      /\ hideTimers' = hideTimers \ {t}
      /\ channel' = [channel EXCEPT ![t] = <<>>]
      /\ injecting' = {i \in injecting : i[1] # t}
      /\ loading' = loading \ {t}
      /\ page' = [page EXCEPT ![t] = "absent"]
      /\ stopped' = stopped
  BY DEF Close
<1>2. /\ tabs'[t] = "closed" /\ channel'[t] = <<>> /\ page'[t] = "absent" /\ automatedTabs'[t] = 0
      /\ \A u \in Tabs : u # t =>
           /\ tabs'[u] = tabs[u] /\ channel'[u] = channel[u] /\ page'[u] = page[u]
           /\ automatedTabs'[u] = automatedTabs[u]
           /\ u \in hideTimers' <=> u \in hideTimers
           /\ u \in loading' <=> u \in loading
      /\ \A u \in Tabs : \A m \in {"mark", "show"} :
           <<u, m>> \in injecting' <=> <<u, m>> \in injecting /\ u # t
  BY <1>1 DEF Inv, TypeOK
<1>3. /\ job'.tab = job.tab /\ job'.named = job.named
      /\ job' \in [tab : Tabs \union {NoTab}, named : BOOLEAN, step : Steps]
      /\ JobIsSane'
      /\ job.tab # t => job' = job
      /\ \A u \in Tabs : Marks(u)' = Marks(u)
  <2>1. job.tab # t => job' = job
    BY DEF Close
  <2>2. CASE job.tab = t /\ job.step \in Awaiting
    <3>1. PICK s \in {"run", "ownMarked"} :
            job' = [job EXCEPT !.step = s] /\ (s = "ownMarked" <=> job.step = "ownMark")
      BY <2>2 DEF Close, Awaiting
    <3>2. /\ job'.tab = t /\ job'.named = job.named /\ job'.step = s
          /\ job' \in [tab : Tabs \union {NoTab}, named : BOOLEAN, step : Steps]
      BY <2>2, <3>1 DEF Inv, TypeOK, Steps, OwnSteps
    <3>3. JobIsSane'
      BY <3>2 DEF JobIsSane
    <3>4. \A u \in Tabs : Marks(u)' = Marks(u)
      BY <2>2, <3>1, <3>2 DEF Marks, OwnSteps, Awaiting
    <3> QED BY <2>1, <2>2, <3>2, <3>3, <3>4
  <2>3. CASE job.tab # t \/ job.step \notin Awaiting
    <3>1. job' = job
      BY <2>3 DEF Close, Awaiting
    <3> QED BY <3>1 DEF Inv, TypeOK, JobIsSane, Marks
  <2> QED BY <2>2, <2>3
<1>4. TypeOK'
  <2>1. channel' \in [Tabs -> Seq(Messages)]
    BY <1>1 DEF Inv, TypeOK
  <2>2. injecting' \in SUBSET (Tabs \X {"mark", "show"})
    BY <1>1 DEF Inv, TypeOK
  <2> QED BY <1>1, <1>3, <2>1, <2>2 DEF Inv, TypeOK
<1>5. MarksAreUndone'
  <2>1. ASSUME NEW u \in Tabs
        PROVE  /\ automatedTabs'[u] \in 0..Marks(u)'
               /\ automatedTabs'[u] > 0 => u \notin hideTimers'
    <3>1. automatedTabs[u] \in 0..Marks(u) /\ (automatedTabs[u] > 0 => u \notin hideTimers)
          /\ Marks(u) \in 0..2
      BY MarksBounded DEF Inv, MarksAreUndone
    <3>2. CASE u = t
      BY <1>2, <1>3, <3>1, <3>2
    <3>3. CASE u # t
      BY <1>2, <1>3, <3>1, <3>3
    <3> QED BY <3>2, <3>3
  <2> QED BY <2>1 DEF MarksAreUndone
<1>6. Counted'
  BY <1>1, <1>2, <1>3 DEF Inv, Counted
<1>7. NotOpen'
  <2>1. ASSUME NEW u \in Tabs
        PROVE  /\ tabs'[u] # "open" =>
                    /\ channel'[u] = <<>> /\ page'[u] # "shown"
                    /\ \A m \in {"mark", "show"} : <<u, m>> \notin injecting'
               /\ tabs'[u] = "new" => job'.tab # u
    <3>1. CASE u = t
      BY <1>2, <3>1
    <3>2. CASE u # t
      BY <1>2, <1>3, <3>2 DEF Inv, NotOpen
    <3> QED BY <3>1, <3>2
  <2> QED BY <2>1 DEF NotOpen
<1>8. Scripted'
  BY <1>1, <1>2 DEF Inv, Scripted
<1>9. Answers'
  <2>1. DOMAIN channel'[t] = {}
    BY <1>2
  <2>2. ASSUME NEW u \in Tabs, NEW i \in DOMAIN channel'[u], channel'[u][i] \in Awaited
        PROVE  /\ job'.tab = u /\ job'.step \in AwaitedAt(channel'[u][i])
               /\ \A j \in DOMAIN channel'[u] : channel'[u][j] \in Awaited => j = i
    <3>1. u # t /\ channel'[u] = channel[u]
      BY <1>2, <2>1, <2>2
    <3> QED BY <1>3, <2>2, <3>1, AwaitedMessage
  <2>3. ASSUME NEW u \in Tabs, <<u, "mark">> \in injecting'
        PROVE  /\ job'.tab = u /\ job'.step \in AwaitedAt("mark")
               /\ \A i \in DOMAIN channel'[u] : channel'[u][i] \notin Awaited
    <3>1. u # t /\ <<u, "mark">> \in injecting /\ channel'[u] = channel[u]
      BY <1>2, <2>3
    <3> QED BY <1>3, <3>1 DEF Inv, Answers
  <2> QED BY <2>2, <2>3 DEF Answers
<1>10. ShownForReason' /\ BlockedHasReason'
  <2>1. DOMAIN channel'[t] = {}
    BY <1>2
  <2>2. ShownForReason'
    BY <1>1, <1>2, <2>1 DEF Inv, ShownForReason
  <2>3. BlockedHasReason'
    BY <1>1, <1>2 DEF Inv, BlockedHasReason
  <2> QED BY <2>2, <2>3
<1>11. StaysBehind'
  <2>1. \A u \in Tabs : u # t => (EndsShown(u)' <=> EndsShown(u)) /\ (ShownBefore(u)' <=> ShownBefore(u))
    BY <1>2, FrameLooks
  <2> QED BY <1>1, <1>2, <1>3, <2>1 DEF Inv, StaysBehind
<1> QED BY <1>3, <1>4, <1>5, <1>6, <1>7, <1>8, <1>9, <1>10, <1>11 DEF Inv

-----------------------------------------------------------------------------
(* Steps that take.                                                          *)
LEMMA HandleKeepsInv ==
  ASSUME Inv, NEW t \in Tabs, Handle(t)
  PROVE  Inv'
<1> DEFINE m == Head(channel[t])
<1>1. /\ channel[t] # <<>> /\ page[t] # "absent"
      /\ channel' = [channel EXCEPT ![t] = Tail(@)]
      /\ page' = [page EXCEPT ![t] = IF m \in Shows THEN "shown" ELSE "hidden"]
      /\ job' = Answered(t, m, page[t] = "shown")
      /\ UNCHANGED <<tabs, panel, counts, injecting, loading, stopped>>
  BY DEF Handle, Shows
<1>2. /\ channel' \in [Tabs -> Seq(Messages)] /\ m \in Messages /\ m = channel[t][1]
      /\ 1 \in DOMAIN channel[t] /\ Len(channel[t]) \in DOMAIN channel[t]
      /\ \A u \in Tabs : u # t => channel'[u] = channel[u]
  <2>1. /\ channel' \in [Tabs -> Seq(Messages)] /\ m \in Messages /\ m = channel[t][1]
        /\ \A u \in Tabs : u # t => channel'[u] = channel[u]
        /\ Len(channel[t]) \in Nat \ {0} /\ DOMAIN channel[t] = 1..Len(channel[t])
    BY <1>1, Taking DEF Inv
  <2>2. 1 \in 1..Len(channel[t]) /\ Len(channel[t]) \in 1..Len(channel[t])
    BY <2>1
  <2> QED BY <2>1, <2>2
<1>3. /\ page'[t] = IF m \in Shows THEN "shown" ELSE "hidden"
      /\ \A u \in Tabs : u # t => page'[u] = page[u]
      /\ page' \in [Tabs -> {"absent", "hidden", "shown"}]
  BY <1>1 DEF Inv, TypeOK
<1>4. tabs[t] = "open"
  BY <1>1 DEF Inv, NotOpen
<1> HIDE DEF m
<1>5. m \in Awaited => job.tab = t /\ job.step \in AwaitedAt(m)
  BY <1>2, AwaitedMessage
<1>6. /\ job' \in [tab : Tabs \union {NoTab}, named : BOOLEAN, step : Steps]
      /\ JobIsSane'
      /\ job'.tab = job.tab /\ job'.named = job.named
      /\ \A u \in Tabs : Marks(u)' = Marks(u)
      /\ m \notin Awaited => job' = job
      /\ m = "mark" /\ job.step = "mark" => job'.step = "run"
      /\ m = "mark" /\ job.step = "ownMark" => job'.step = "ownMarked"
      /\ m = "pre" => job'.step = IF page[t] = "shown" THEN "shot" ELSE "run"
      /\ m = "post" => job'.step = "run"
  BY <1>1, <1>2, <1>5, Answering DEF Inv
<1>7. TypeOK'
  BY <1>1, <1>2, <1>3, <1>6 DEF Inv, TypeOK, panel, counts
<1>8. MarksAreUndone' /\ Counted'
  BY <1>1, <1>6 DEF Inv, MarksAreUndone, Counted, counts
<1>9. NotOpen' /\ Scripted'
  BY <1>1, <1>2, <1>3, <1>4, <1>6 DEF Inv, NotOpen, Scripted
<1>10. Answers'
  BY <1>1, <1>6, TakingAwaited DEF m
<1>11. ShownForReason' /\ BlockedHasReason'
  <2>1. "hide" \notin Shows
    BY DEF Shows
  <2> QED BY <1>1, <1>3, <2>1, TakingForReason DEF m
<1>12. StaysBehind'
  <2>1. ASSUME NEW u \in Tabs, u # t
        PROVE  /\ (EndsShown(u)' <=> EndsShown(u)) /\ (ShownBefore(u)' <=> ShownBefore(u))
               /\ job'.tab = u => job' = job
    BY <1>2, <1>3, <1>5, <1>6, <2>1, FrameLooks
  <2>2. ASSUME ~stopped, t \notin Unscripted, t \notin loading, job.tab = t, job.named
        PROVE  /\ job'.step \in {"mark", "run", "post"} => EndsShown(t)'
               /\ job'.step = "pre" => EndsShown(t)' \/ ShownBefore(t)'
    <3>1. /\ EndsShown(t) => EndsShown(t)'
          /\ ShownBefore(t) /\ Len(channel[t]) = 1 => page[t] = "shown" /\ m = "pre"
          /\ ShownBefore(t) /\ Len(channel[t]) # 1 => ShownBefore(t)'
      BY <1>1, <1>3, TakingLooks DEF m
    <3>2. /\ job.step \in {"mark", "run", "post"} => EndsShown(t)
          /\ job.step = "pre" => EndsShown(t) \/ ShownBefore(t)
      BY <1>4, <2>2 DEF Inv, StaysBehind
    <3>3. CASE m \notin Awaited
      BY <1>6, <3>1, <3>2, <3>3 DEF Awaited
    <3>4. CASE m \in {"mark", "post"}
      BY <1>5, <1>6, <3>1, <3>2, <3>4 DEF Awaited, AwaitedAt
    <3>5. CASE m = "pre"
      <4>1. job.step = "pre"
        BY <1>5, <3>5 DEF Awaited, AwaitedAt
      <4>2. ShownBefore(t) => Len(channel[t]) = 1
        <5>1. \A j \in DOMAIN channel[t] : channel[t][j] \in Awaited => j = 1
          BY <1>2, <3>5, AwaitedMessage DEF Awaited
        <5>2. ShownBefore(t) => channel[t][Len(channel[t])] \in Awaited
          BY DEF ShownBefore, Awaited
        <5> QED BY <1>2, <5>1, <5>2
      <4> QED BY <1>6, <3>1, <3>2, <3>5, <4>1, <4>2
    <3> QED BY <3>3, <3>4, <3>5 DEF Awaited
  <2> QED BY <1>1, <1>4, <1>6, <2>1, <2>2 DEF Inv, StaysBehind
<1> QED BY <1>6, <1>7, <1>8, <1>9, <1>10, <1>11, <1>12 DEF Inv

(* A page without the content script: of other tabs nothing changes.         *)
LEMMA OthersLook ==
  ASSUME Inv, NEW t \in Tabs, t \in Unscripted,
         \A u \in Tabs : u # t => channel'[u] = channel[u] /\ page'[u] = page[u],
         job'.tab = job.tab, job'.named = job.named,
         job.tab # t => job' = job,
         UNCHANGED <<tabs, counts, loading, stopped>>
  PROVE  ShownForReason' /\ BlockedHasReason' /\ StaysBehind'
<1>1. \A u \in Tabs : u # t => (EndsShown(u)' <=> EndsShown(u)) /\ (ShownBefore(u)' <=> ShownBefore(u))
  BY FrameLooks
<1>2. StaysBehind'
  BY <1>1 DEF Inv, StaysBehind
<1>3. ShownForReason'
  BY DEF Inv, ShownForReason, counts
<1>4. BlockedHasReason'
  BY DEF Inv, BlockedHasReason, counts
<1> QED BY <1>2, <1>3, <1>4

LEMMA UnheardKeepsInv ==
  ASSUME Inv, NEW t \in Tabs, Unheard(t)
  PROVE  Inv'
<1> DEFINE m == Head(channel[t])
<1>1. /\ channel[t] # <<>> /\ page[t] = "absent"
      /\ channel' = [channel EXCEPT ![t] = Tail(@)]
      /\ UNCHANGED <<tabs, panel, counts, loading, page, stopped>>
      /\ \/ m \in {"mark", "show"} /\ injecting' = injecting \union {<<t, m>>} /\ job' = job
         \/ m \notin {"mark", "show"} /\ job' = Answered(t, m, FALSE) /\ injecting' = injecting
  BY DEF Unheard
<1>2. /\ channel' \in [Tabs -> Seq(Messages)] /\ m \in Messages /\ m = channel[t][1]
      /\ 1 \in DOMAIN channel[t]
      /\ \A u \in Tabs : u # t => channel'[u] = channel[u]
  <2>1. /\ channel' \in [Tabs -> Seq(Messages)] /\ m \in Messages /\ m = channel[t][1]
        /\ \A u \in Tabs : u # t => channel'[u] = channel[u]
        /\ Len(channel[t]) \in Nat \ {0} /\ DOMAIN channel[t] = 1..Len(channel[t])
    BY <1>1, Taking DEF Inv
  <2>2. 1 \in 1..Len(channel[t])
    BY <2>1
  <2> QED BY <2>1, <2>2
<1>3. tabs[t] = "open" /\ t \in Unscripted
  BY <1>1 DEF Inv, NotOpen, Scripted
<1> HIDE DEF m
<1>4. m \in Awaited => job.tab = t /\ job.step \in AwaitedAt(m)
  BY <1>2, AwaitedMessage
<1>5. /\ job' \in [tab : Tabs \union {NoTab}, named : BOOLEAN, step : Steps]
      /\ JobIsSane'
      /\ job'.tab = job.tab /\ job'.named = job.named
      /\ \A u \in Tabs : Marks(u)' = Marks(u)
      /\ m \notin Awaited => job' = job
  <2>1. CASE job' = job
    BY <2>1 DEF Inv, TypeOK, JobIsSane, Marks
  <2>2. CASE job' = Answered(t, m, FALSE)
    BY <1>2, <1>4, <2>2, Answering DEF Inv
  <2> QED BY <1>1, <2>1, <2>2
<1>6. /\ injecting' \in SUBSET (Tabs \X {"mark", "show"})
      /\ \A u \in Tabs : \A x \in {"mark", "show"} :
           <<u, x>> \in injecting' => <<u, x>> \in injecting \/ u = t
      /\ m # "mark" => \A u \in Tabs : <<u, "mark">> \in injecting' => <<u, "mark">> \in injecting
  <2>1. injecting \in SUBSET (Tabs \X {"mark", "show"})
    BY DEF Inv, TypeOK
  <2>2. CASE injecting' = injecting
    BY <2>1, <2>2
  <2>3. CASE m \in {"mark", "show"} /\ injecting' = injecting \union {<<t, m>>}
    BY <2>1, <2>3
  <2> QED BY <1>1, <2>2, <2>3
<1>7. TypeOK'
  BY <1>1, <1>2, <1>5, <1>6 DEF Inv, TypeOK, panel, counts
<1>8. MarksAreUndone' /\ Counted'
  BY <1>1, <1>5 DEF Inv, MarksAreUndone, Counted, counts
<1>9. NotOpen' /\ Scripted'
  BY <1>1, <1>2, <1>3, <1>5, <1>6 DEF Inv, NotOpen, Scripted
<1>10. Answers'
  <2>1. CASE m = "mark"
    <3>1. job' = job /\ injecting' = injecting \union {<<t, "mark">>}
      BY <1>1, <2>1
    <3> QED BY <1>1, <2>1, <3>1, TakingAwaited DEF m
  <2>2. CASE m \in Awaited /\ m # "mark"
    <3>1. injecting' = injecting
      BY <1>1, <2>2 DEF Awaited
    <3> QED BY <1>1, <2>2, <3>1, TakingAwaited DEF m
  <2>3. CASE m \notin Awaited
    <3>1. /\ job' = job
          /\ \A u \in Tabs : <<u, "mark">> \in injecting' => <<u, "mark">> \in injecting
      BY <1>5, <1>6, <2>3 DEF Awaited
    <3> QED BY <1>1, <2>3, <3>1, TakingAwaited DEF m
  <2> QED BY <2>1, <2>2, <2>3
<1>11. ShownForReason' /\ BlockedHasReason' /\ StaysBehind'
  <2>1. job.tab # t => job' = job
    BY <1>4, <1>5
  <2> QED BY <1>1, <1>2, <1>3, <1>5, <2>1, OthersLook
<1> QED BY <1>5, <1>7, <1>8, <1>9, <1>10, <1>11 DEF Inv

LEMMA InjectedKeepsInv ==
  ASSUME Inv, NEW t \in Tabs, NEW m \in {"mark", "show"}, Injected(t, m)
  PROVE  Inv'
<1>1. /\ <<t, m>> \in injecting /\ injecting' = injecting \ {<<t, m>>}
      /\ UNCHANGED <<tabs, panel, counts, loading, stopped>>
      /\ tabs[t] = "open" /\ t \in Unscripted /\ m \in Messages
  BY DEF Injected, Inv, NotOpen, Scripted, Messages
<1>2. m \in Awaited => job.tab = t /\ job.step \in AwaitedAt(m)
  BY <1>1 DEF Inv, Answers, Awaited
<1>3. \A u \in Tabs : \A x \in {"mark", "show"} :
        <<u, x>> \in injecting' => <<u, x>> \in injecting /\ (u # t \/ x # m)
  BY <1>1
<1>4. ASSUME /\ job' \in [tab : Tabs \union {NoTab}, named : BOOLEAN, step : Steps]
             /\ JobIsSane'
             /\ job'.tab = job.tab /\ job'.named = job.named /\ (job.tab # t => job' = job)
             /\ \A u \in Tabs : Marks(u)' = Marks(u),
             channel' \in [Tabs -> Seq(Messages)],
             page' \in [Tabs -> {"absent", "hidden", "shown"}],
             \A u \in Tabs : u # t => channel'[u] = channel[u] /\ page'[u] = page[u],
             Answers'
      PROVE  Inv'
  <2>1. TypeOK'
    BY <1>1, <1>4 DEF Inv, TypeOK, panel, counts
  <2>2. MarksAreUndone' /\ Counted'
    BY <1>1, <1>4 DEF Inv, MarksAreUndone, Counted, counts
  <2>3. NotOpen' /\ Scripted'
    BY <1>1, <1>3, <1>4 DEF Inv, NotOpen, Scripted
  <2>4. ShownForReason' /\ BlockedHasReason' /\ StaysBehind'
    BY <1>1, <1>4, OthersLook
  <2> QED BY <1>4, <2>1, <2>2, <2>3, <2>4 DEF Inv
<1>5. CASE /\ page' = [page EXCEPT ![t] = IF @ = "absent" THEN "hidden" ELSE @]
           /\ Send(t, m) /\ job' = job
  <2>1. /\ job' \in [tab : Tabs \union {NoTab}, named : BOOLEAN, step : Steps]
        /\ JobIsSane' /\ \A u \in Tabs : Marks(u)' = Marks(u)
    BY <1>5 DEF Inv, TypeOK, JobIsSane, Marks
  <2>2. /\ channel' \in [Tabs -> Seq(Messages)]
        /\ \A u \in Tabs : u # t => channel'[u] = channel[u] /\ page'[u] = page[u]
        /\ page' \in [Tabs -> {"absent", "hidden", "shown"}]
    BY <1>1, <1>5, Sending DEF Inv, TypeOK
  <2>3. Answers'
    <3>1. CASE m \notin Awaited
      BY <1>1, <1>5, <3>1, SendingAwaited
    <3>2. CASE m \in Awaited
      <4> DEFINE n == Len(channel[t])
      <4>1. m = "mark"
        BY <3>2 DEF Awaited
      <4>2. \A u \in Tabs : \A i \in DOMAIN channel[u] : channel[u][i] \notin Awaited
        BY <1>1, <4>1, AwaitedMessage
      <4>3. /\ n \in Nat /\ DOMAIN channel[t] = 1..n /\ DOMAIN channel'[t] = 1..n + 1
            /\ channel'[t][n + 1] = m /\ \A i \in 1..n : channel'[t][i] = channel[t][i]
        BY <1>1, <1>5, Sending DEF Inv
      <4> HIDE DEF n
      <4>4. \A u \in Tabs : <<u, "mark">> \notin injecting'
        <5>1. ASSUME NEW u \in Tabs, <<u, "mark">> \in injecting' PROVE FALSE
          <6>1. u # t /\ <<u, "mark">> \in injecting
            BY <1>3, <4>1, <5>1
          <6> QED BY <1>2, <3>2, <6>1 DEF Inv, Answers
        <5> QED BY <5>1
      <4>5. ASSUME NEW u \in Tabs, NEW i \in DOMAIN channel'[u], channel'[u][i] \in Awaited
            PROVE  u = t /\ i = n + 1 /\ channel'[u][i] = m
        <5>1. u = t
          BY <2>2, <4>2, <4>5
        <5>2. i \in 1..n + 1 /\ i \notin 1..n
          BY <4>2, <4>3, <4>5, <5>1
        <5>3. i = n + 1
          BY <4>3, <5>2
        <5> QED BY <4>3, <5>1, <5>3
      <4>6. ASSUME NEW u \in Tabs, NEW i \in DOMAIN channel'[u], channel'[u][i] \in Awaited
            PROVE  /\ job.tab = u /\ job.step \in AwaitedAt(channel'[u][i])
                   /\ \A j \in DOMAIN channel'[u] : channel'[u][j] \in Awaited => j = i
        BY <1>2, <3>2, <4>5, <4>6
      <4> QED BY <1>5, <4>4, <4>6 DEF Answers
    <3> QED BY <3>1, <3>2
  <2> QED BY <1>4, <1>5, <2>1, <2>2, <2>3
<1>6. CASE job' = Answered(t, m, FALSE) /\ UNCHANGED <<page, channel>>
  <2>1. /\ job' \in [tab : Tabs \union {NoTab}, named : BOOLEAN, step : Steps]
        /\ JobIsSane'
        /\ job'.tab = job.tab /\ job'.named = job.named
        /\ \A u \in Tabs : Marks(u)' = Marks(u)
        /\ m \notin Awaited => job' = job
    BY <1>1, <1>2, <1>6, Answering DEF Inv
  <2>2. Answers'
    <3>1. CASE m \notin Awaited
      BY <1>1, <1>6, <2>1, <3>1 DEF Inv, Answers
    <3>2. CASE m \in Awaited
      <4>1. m = "mark"
        BY <3>2 DEF Awaited
      <4>2. \A u \in Tabs : \A i \in DOMAIN channel[u] : channel[u][i] \notin Awaited
        BY <1>1, <4>1, AwaitedMessage
      <4>3. \A u \in Tabs : <<u, "mark">> \notin injecting'
        <5>1. ASSUME NEW u \in Tabs, <<u, "mark">> \in injecting' PROVE FALSE
          <6>1. u # t /\ <<u, "mark">> \in injecting
            BY <1>3, <4>1, <5>1
          <6> QED BY <1>2, <3>2, <6>1 DEF Inv, Answers
        <5> QED BY <5>1
      <4> QED BY <1>6, <4>2, <4>3 DEF Answers
    <3> QED BY <3>1, <3>2
  <2>3. channel' \in [Tabs -> Seq(Messages)] /\ page' \in [Tabs -> {"absent", "hidden", "shown"}]
    BY <1>6 DEF Inv, TypeOK
  <2>4. job.tab # t => job' = job
    BY <1>2, <2>1
  <2> QED BY <1>4, <1>6, <2>1, <2>2, <2>3, <2>4
<1> QED BY <1>5, <1>6 DEF Injected

-----------------------------------------------------------------------------
LEMMA NextKeepsInv == Inv /\ [Next]_vars => Inv'
<1> SUFFICES ASSUME Inv, [Next]_vars PROVE Inv'
  OBVIOUS
<1>1. CASE UNCHANGED vars
  <2> USE <1>1 DEF vars, panel, counts, pages
  <2>1. TypeOK' /\ JobIsSane' /\ NotOpen' /\ Scripted'
    BY DEF Inv, TypeOK, JobIsSane, NotOpen, Scripted
  <2>2. MarksAreUndone' /\ Counted'
    BY DEF Inv, MarksAreUndone, Counted, Marks
  <2>3. Answers' /\ ShownForReason' /\ BlockedHasReason'
    BY DEF Inv, Answers, ShownForReason, BlockedHasReason
  <2>4. StaysBehind'
    BY DEF Inv, StaysBehind, EndsShown, ShownBefore
  <2> QED BY <2>1, <2>2, <2>3, <2>4 DEF Inv
<1>2. ASSUME NEW t \in Tabs, ToolStep(t) PROVE Inv'
  BY <1>2, GotTabKeepsInv, FinishKeepsInv, NavigateMarksKeepsInv, NavigateWorksKeepsInv,
     NavigateEndsKeepsInv, ScreenshotBeginsKeepsInv, ScreenshotEndsKeepsInv DEF ToolStep
<1>3. ASSUME NEW t \in Tabs, PageStep(t) PROVE Inv'
  BY <1>3, HandleKeepsInv, UnheardKeepsInv, LoadedKeepsInv, InjectedKeepsInv DEF PageStep
<1>4. ASSUME NEW t \in Tabs,
             \/ \E named \in BOOLEAN : Start(t, named)
             \/ CreateTab(t) \/ IdleTimeout(t) \/ HideTimeout(t)
             \/ PageStop(t) \/ Close(t) \/ Open(t) \/ Reload(t)
      PROVE  Inv'
  BY <1>4, StartKeepsInv, TabOpensKeepsInv, IdleTimeoutKeepsInv, HideTimeoutKeepsInv,
     PageChangesKeepsInv, CloseKeepsInv
<1> QED BY <1>1, <1>2, <1>3, <1>4, StopKeepsInv DEF Next

(* Inv, with what the theorems below need of the messages on their way,      *)
(* holds throughout.                                                         *)
THEOREM AutomationTabsInvariance == Spec => []Inv
BY Initially, NextKeepsInv, PTL DEF Spec

(* No mark of a tab outlives its call, and no timer hides the overlay under  *)
(* a marked one, whatever Stop and closed tabs take away in between          *)
(* (automationIndicator.ts, markAutomationTab and unmarkAutomationTab).      *)
THEOREM NoMarkOutlivesItsCall == Spec => []MarksAreUndone
<1>1. Inv => MarksAreUndone
  BY DEF Inv
<1> QED BY <1>1, AutomationTabsInvariance, PTL

(* Until somebody presses Stop, a page is blocked only while a call works in *)
(* it or its release is on its way, and a tool never works in a page that is *)
(* not, in whichever order messages, timers and navigations come             *)
(* (visualIndicator.ts, messageRouter.ts).                                   *)
THEOREM OverlayFollowsTheCall == Spec => []OverlayIsRight
<1>1. Inv => ToolRunsBehindOverlay
  BY DEF Inv, StaysBehind, EndsShown, ToolRunsBehindOverlay
<1>2. Inv => OverlayIsRight
  BY <1>1 DEF Inv, OverlayIsRight
<1> QED BY <1>2, AutomationTabsInvariance, PTL

=============================================================================

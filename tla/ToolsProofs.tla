----------------------------- MODULE ToolsProofs -----------------------------
(***************************************************************************)
(* Theorems of the components in Tools, each for any values of its         *)
(* constants.  An invariant of a component is one of Tools, where the      *)
(* component moves or stays as it began.                                   *)
(***************************************************************************)
EXTENDS Tools, FiniteSetTheorems, SequenceTheorems, TLAPS

-----------------------------------------------------------------------------
(***************************************************************************)
(* The least and the highest of a set of numbers.                          *)
(***************************************************************************)
LEMMA Least ==
  ASSUME NEW S \in SUBSET Nat, S # {}
  PROVE  \E i \in S : \A j \in S : i <= j
<1>1. PICK i \in S : \A j \in S : ~ (<<j, i>> \in OpToRel(<, Nat))
  BY NatLessThanWellFounded, WFMin
<1>2. i \in Nat /\ \A j \in S : j \in Nat /\ ~(j < i)
  BY <1>1 DEF OpToRel
<1> QED
  BY <1>2

LEMMA Highest ==
  ASSUME NEW n \in Nat, NEW S \in SUBSET (1..n), S # {}
  PROVE  \E i \in S : \A j \in S : j <= i
<1> DEFINE Below == {n - i : i \in S}
<1>1. Below \subseteq Nat
  <2>1. \A i \in S : n - i \in Nat
    OBVIOUS
  <2> QED
    BY <2>1
<1>2. Below # {}
  OBVIOUS
<1>3. \A j \in S : n - j \in Below
  OBVIOUS
<1>4. \A x \in Below : \E i \in S : x = n - i
  OBVIOUS
<1> HIDE DEF Below
<1>5. PICK x \in Below : \A y \in Below : x <= y
  BY <1>1, <1>2, Least
<1>6. PICK i \in S : x = n - i
  BY <1>4
<1>7. \A j \in S : n - i <= n - j
  BY <1>3, <1>5, <1>6
<1> QED
  BY <1>7

(* Domains and URLs are not taken for each other.                            *)
LEMMA NamesApart ==
  Events \subseteq {"Network", "Runtime"} /\ Urls \intersect {"Network", "Runtime", "coverage"} = {}
BY ToolsAssumption
-----------------------------------------------------------------------------
(***************************************************************************)
(* TabListeners.  What was told survives the loss of a session because it  *)
(* is in enabledDomains by then, or still to be put back there, or lacking:*)
(* SureIsKnown is what the reattachment relies on, Bare that a session     *)
(* begins with nothing in force, and ClearKeepsNone that "clear" disables  *)
(* no rule that it has kept.                                               *)
(***************************************************************************)
(* A call has what is left of its script to do.                              *)
Job(kind, x, rest) == [kind |-> kind, of |-> x, todo |-> rest]
JobIsOnItsWay ==
  \/ job = Listeners!NoJob
  \/ \E x \in Events : \E rest \in {<<"attach", "subscribe">>, <<"subscribe">>} :
       job = Job("events", x, rest)
  \/ \E x \in Events : \E rest \in {<<"attach", x>>, <<x>>} : job = Job("wait", x, rest)
  \/ \E x \in Urls : \E rest \in {<<"attach", "Fetch", "patterns">>, <<"Fetch", "patterns">>, <<"patterns">>} :
       job = Job("mock", x, rest)
  \/ \E rest \in {<<"Fetch", "disable">>, <<"disable">>} : job = Job("clear", "none", rest)
  \/ \E rest \in {<<"attach", "js+", "css+">>, <<"js+", "css+">>, <<"css+">>} :
       job = Job("start", "none", rest)
  \/ \E rest \in {<<"attach", "js-", "css-">>, <<"js-", "css-">>, <<"css-">>} :
       job = Job("stop", "none", rest)

(* Without a session nothing is in force, nor being restored.                *)
Bare ==
  /\ session # "on" => live = {} /\ caught = {} /\ measured = {} /\ restoring = {}
  /\ session = "none" => sure = {}

(* The record lists only domains that are live or lacking.                   *)
KnownIsLive == session = "on" => known \intersect Events \subseteq live \union lacking

(* Requests are caught once the reattachment has been through Fetch.         *)
SureIsKnown ==
  /\ subscribed \intersect sure \subseteq known \union restoring \union lacking
  /\ sure \intersect Urls \subseteq rules
  /\ session = "on" /\ "Fetch" \notin lacking /\ ("Fetch" \in restoring => "Fetch" \in known) =>
       sure \intersect Urls \subseteq caught
  /\ sure \intersect Urls # {} => "Fetch" \in known \union restoring \union lacking
  /\ "coverage" \in sure => session = "on" /\ measured = {"js", "css"}

(* network_intercept at work: a clear has nothing to keep.                   *)
ClearKeepsNone == job.kind = "clear" => sure \intersect Urls = {}

ListenersTypes ==
  /\ session \in {"none", "on", "lost"}
  /\ live \subseteq Events \union {"Fetch"} /\ known \subseteq Events \union {"Fetch"}
  /\ saved \subseteq Events \union {"Fetch"} /\ subscribed \subseteq Events
  /\ restoring \subseteq Events \union {"Fetch"} /\ lacking \subseteq Events \union {"Fetch"}
  /\ caught \subseteq Urls /\ rules \subseteq Urls /\ measured \subseteq {"js", "css"}
  /\ sure \subseteq Urls \union Events \union {"coverage"}

ListenersInv ==
  /\ ListenersTypes
  /\ JobIsOnItsWay /\ Bare /\ KnownIsLive /\ SureIsKnown /\ ClearKeepsNone

(* A step of a script leaves the rest of it.                                 *)
LEMMA Step ==
  ASSUME NEW kind, NEW x, NEW rest, job = Job(kind, x, rest),
         NEW step, Listeners!Doing(step), job' = Listeners!Done
  PROVE  /\ Head(rest) = step
         /\ Len(rest) = 1 => job' = Listeners!NoJob
         /\ Len(rest) # 1 => job' = Job(kind, x, Tail(rest))
BY DEF Job, Listeners!Doing, Listeners!Done

(* What a step says of the call at work.                                     *)
Stepped(step) ==
  /\ JobIsOnItsWay'
  /\ job'.kind = "clear" => job.kind = "clear"
  /\ step = "subscribe" => job.of \in Events
  /\ step = "patterns" => job.todo = <<"patterns">> /\ job.kind # "clear"
  /\ step = "disable" => job.kind = "clear"

LEMMA Stepping ==
  ASSUME JobIsOnItsWay, NEW step, Listeners!Doing(step), job' = Listeners!Done
  PROVE  Stepped(step)
<1>1. job # Listeners!NoJob
  BY DEF Listeners!Doing, Listeners!NoJob
<1>2. Listeners!NoJob.kind = "none" /\ Listeners!NoJob.todo = <<>>
  BY DEF Listeners!NoJob
<1>3. \A kind, x, rest : /\ Job(kind, x, rest).kind = kind /\ Job(kind, x, rest).of = x
                         /\ Job(kind, x, rest).todo = rest
  BY DEF Job
<1>4. ASSUME NEW x \in Events, NEW rest \in {<<"attach", "subscribe">>, <<"subscribe">>},
             job = Job("events", x, rest)
      PROVE  Stepped(step)
  <2>1. CASE rest = <<"attach", "subscribe">>
    <3>1. Len(rest) # 1 /\ Head(rest) = "attach" /\ Tail(rest) = <<"subscribe">>
      BY <2>1
    <3>2. job' = Job("events", x, <<"subscribe">>) /\ step = "attach" /\ <<"subscribe">> # <<"patterns">>
      BY <1>4, <3>1, Step, NamesApart
    <3> QED
      BY <1>2, <1>3, <1>4, <2>1, <3>2, NamesApart DEF Stepped, JobIsOnItsWay
  <2>2. CASE rest = <<"subscribe">>
    <3>1. Len(rest) = 1 /\ Head(rest) = "subscribe"
      BY <2>2
    <3>2. job' = Listeners!NoJob /\ step = "subscribe"
      BY <1>4, <3>1, Step
    <3> QED
      BY <1>2, <1>3, <1>4, <2>2, <3>2, NamesApart DEF Stepped, JobIsOnItsWay
  <2> QED
    BY <1>4, <2>1, <2>2
<1>5. ASSUME NEW x \in Events, NEW rest \in {<<"attach", x>>, <<x>>},
             job = Job("wait", x, rest)
      PROVE  Stepped(step)
  <2>1. CASE rest = <<"attach", x>>
    <3>1. Len(rest) # 1 /\ Head(rest) = "attach" /\ Tail(rest) = <<x>>
      BY <2>1
    <3>2. job' = Job("wait", x, <<x>>) /\ step = "attach" /\ <<x>> # <<"patterns">>
      BY <1>5, <3>1, Step, NamesApart
    <3>3. \E left \in {<<"attach", x>>, <<x>>} : job' = Job("wait", x, left)
      BY <3>2
    <3>4. JobIsOnItsWay'
      BY <3>3 DEF JobIsOnItsWay
    <3> QED
      BY <1>2, <1>3, <1>5, <2>1, <3>2, <3>4, NamesApart DEF Stepped
  <2>2. CASE rest = <<x>>
    <3>1. Len(rest) = 1 /\ Head(rest) = x
      BY <2>2
    <3>2. job' = Listeners!NoJob /\ step = x
      BY <1>5, <3>1, Step
    <3> QED
      BY <1>2, <1>3, <1>5, <2>2, <3>2, NamesApart DEF Stepped, JobIsOnItsWay
  <2> QED
    BY <1>5, <2>1, <2>2
<1>6. ASSUME NEW x \in Urls, NEW rest \in {<<"attach", "Fetch", "patterns">>, <<"Fetch", "patterns">>, <<"patterns">>},
             job = Job("mock", x, rest)
      PROVE  Stepped(step)
  <2>1. CASE rest = <<"attach", "Fetch", "patterns">>
    <3>1. Len(rest) # 1 /\ Head(rest) = "attach" /\ Tail(rest) = <<"Fetch", "patterns">>
      BY <2>1
    <3>2. job' = Job("mock", x, <<"Fetch", "patterns">>) /\ step = "attach" /\ <<"Fetch", "patterns">> # <<"patterns">>
      BY <1>6, <3>1, Step, NamesApart
    <3> QED
      BY <1>2, <1>3, <1>6, <2>1, <3>2, NamesApart DEF Stepped, JobIsOnItsWay
  <2>2. CASE rest = <<"Fetch", "patterns">>
    <3>1. Len(rest) # 1 /\ Head(rest) = "Fetch" /\ Tail(rest) = <<"patterns">>
      BY <2>2
    <3>2. job' = Job("mock", x, <<"patterns">>) /\ step = "Fetch"
      BY <1>6, <3>1, Step
    <3> QED
      BY <1>2, <1>3, <1>6, <2>2, <3>2, NamesApart DEF Stepped, JobIsOnItsWay
  <2>3. CASE rest = <<"patterns">>
    <3>1. Len(rest) = 1 /\ Head(rest) = "patterns"
      BY <2>3
    <3>2. job' = Listeners!NoJob /\ step = "patterns"
      BY <1>6, <3>1, Step
    <3> QED
      BY <1>2, <1>3, <1>6, <2>3, <3>2, NamesApart DEF Stepped, JobIsOnItsWay
  <2> QED
    BY <1>6, <2>1, <2>2, <2>3
<1>7. ASSUME NEW rest \in {<<"Fetch", "disable">>, <<"disable">>},
             job = Job("clear", "none", rest)
      PROVE  Stepped(step)
  <2>1. CASE rest = <<"Fetch", "disable">>
    <3>1. Len(rest) # 1 /\ Head(rest) = "Fetch" /\ Tail(rest) = <<"disable">>
      BY <2>1
    <3>2. job' = Job("clear", "none", <<"disable">>) /\ step = "Fetch" /\ <<"disable">> # <<"patterns">>
      BY <1>7, <3>1, Step, NamesApart
    <3> QED
      BY <1>2, <1>3, <1>7, <2>1, <3>2, NamesApart DEF Stepped, JobIsOnItsWay
  <2>2. CASE rest = <<"disable">>
    <3>1. Len(rest) = 1 /\ Head(rest) = "disable"
      BY <2>2
    <3>2. job' = Listeners!NoJob /\ step = "disable"
      BY <1>7, <3>1, Step
    <3> QED
      BY <1>2, <1>3, <1>7, <2>2, <3>2, NamesApart DEF Stepped, JobIsOnItsWay
  <2> QED
    BY <1>7, <2>1, <2>2
<1>8. ASSUME NEW rest \in {<<"attach", "js+", "css+">>, <<"js+", "css+">>, <<"css+">>},
             job = Job("start", "none", rest)
      PROVE  Stepped(step)
  <2>1. CASE rest = <<"attach", "js+", "css+">>
    <3>1. Len(rest) # 1 /\ Head(rest) = "attach" /\ Tail(rest) = <<"js+", "css+">>
      BY <2>1
    <3>2. job' = Job("start", "none", <<"js+", "css+">>) /\ step = "attach" /\ <<"js+", "css+">> # <<"patterns">>
      BY <1>8, <3>1, Step, NamesApart
    <3> QED
      BY <1>2, <1>3, <1>8, <2>1, <3>2, NamesApart DEF Stepped, JobIsOnItsWay
  <2>2. CASE rest = <<"js+", "css+">>
    <3>1. Len(rest) # 1 /\ Head(rest) = "js+" /\ Tail(rest) = <<"css+">>
      BY <2>2
    <3>2. job' = Job("start", "none", <<"css+">>) /\ step = "js+" /\ <<"css+">> # <<"patterns">>
      BY <1>8, <3>1, Step, NamesApart
    <3> QED
      BY <1>2, <1>3, <1>8, <2>2, <3>2, NamesApart DEF Stepped, JobIsOnItsWay
  <2>3. CASE rest = <<"css+">>
    <3>1. Len(rest) = 1 /\ Head(rest) = "css+"
      BY <2>3
    <3>2. job' = Listeners!NoJob /\ step = "css+"
      BY <1>8, <3>1, Step
    <3> QED
      BY <1>2, <1>3, <1>8, <2>3, <3>2, NamesApart DEF Stepped, JobIsOnItsWay
  <2> QED
    BY <1>8, <2>1, <2>2, <2>3
<1>9. ASSUME NEW rest \in {<<"attach", "js-", "css-">>, <<"js-", "css-">>, <<"css-">>},
             job = Job("stop", "none", rest)
      PROVE  Stepped(step)
  <2>1. CASE rest = <<"attach", "js-", "css-">>
    <3>1. Len(rest) # 1 /\ Head(rest) = "attach" /\ Tail(rest) = <<"js-", "css-">>
      BY <2>1
    <3>2. job' = Job("stop", "none", <<"js-", "css-">>) /\ step = "attach" /\ <<"js-", "css-">> # <<"patterns">>
      BY <1>9, <3>1, Step, NamesApart
    <3> QED
      BY <1>2, <1>3, <1>9, <2>1, <3>2, NamesApart DEF Stepped, JobIsOnItsWay
  <2>2. CASE rest = <<"js-", "css-">>
    <3>1. Len(rest) # 1 /\ Head(rest) = "js-" /\ Tail(rest) = <<"css-">>
      BY <2>2
    <3>2. job' = Job("stop", "none", <<"css-">>) /\ step = "js-" /\ <<"css-">> # <<"patterns">>
      BY <1>9, <3>1, Step, NamesApart
    <3> QED
      BY <1>2, <1>3, <1>9, <2>2, <3>2, NamesApart DEF Stepped, JobIsOnItsWay
  <2>3. CASE rest = <<"css-">>
    <3>1. Len(rest) = 1 /\ Head(rest) = "css-"
      BY <2>3
    <3>2. job' = Listeners!NoJob /\ step = "css-"
      BY <1>9, <3>1, Step
    <3> QED
      BY <1>2, <1>3, <1>9, <2>3, <3>2, NamesApart DEF Stepped, JobIsOnItsWay
  <2> QED
    BY <1>9, <2>1, <2>2, <2>3
<1> QED
  BY <1>1, <1>4, <1>5, <1>6, <1>7, <1>8, <1>9 DEF JobIsOnItsWay

LEMMA ListenersInitially == Listeners!Init => ListenersInv
BY DEF Listeners!Init, Listeners!NoJob, ListenersInv, ListenersTypes, JobIsOnItsWay, Bare, KnownIsLive,
  SureIsKnown, ClearKeepsNone

LEMMA ListenersStutter ==
  ASSUME ListenersInv, UNCHANGED listenersVars
  PROVE  ListenersInv'
BY DEF listenersVars, ListenersInv, ListenersTypes, JobIsOnItsWay, Bare, KnownIsLive, SureIsKnown, ClearKeepsNone

(* What enableDomain makes of the record and the browser.                    *)
Enabled(d) ==
  /\ known' = known \union {d}
  /\ live \subseteq live' /\ live' \subseteq live \union {d}
  /\ lacking \ {d} \subseteq lacking' /\ lacking' \subseteq lacking \union {d}
  /\ IF d \in known THEN UNCHANGED <<live, lacking>> ELSE d \in live' \union lacking'
  /\ IF d = "Fetch" /\ d \notin known
     THEN (d \in lacking' /\ caught' = caught) \/ caught' = Urls ELSE caught' = caught

LEMMA Enabling ==
  ASSUME NEW d, Listeners!EnableDomain(d)
  PROVE  Enabled(d)
<1>1. CASE d \in known
  BY <1>1 DEF Listeners!EnableDomain, Enabled
<1>2. CASE d \notin known
  BY <1>2 DEF Listeners!EnableDomain, Enabled
<1> QED
  BY <1>1, <1>2

LEMMA Restores ==
  ASSUME ListenersInv, NEW d \in Listeners!Domains, Listeners!Restore(d)
  PROVE  ListenersInv'
<1>1. /\ Enabled(d) /\ d \in restoring /\ restoring' = restoring \ {d} /\ saved' \in {saved, known'}
      /\ UNCHANGED <<session, measured, rules, subscribed, tracking, job, sure>>
  BY Enabling DEF Listeners!Restore
<1>2. d \in Events \union {"Fetch"} /\ session = "on" /\ JobIsOnItsWay'
  BY <1>1 DEF Listeners!Domains, ListenersInv, Bare, JobIsOnItsWay
<1>3. ListenersTypes'
  BY <1>1, <1>2 DEF Enabled, ListenersInv, ListenersTypes
<1>4. Bare' /\ KnownIsLive' /\ ClearKeepsNone'
  BY <1>1, <1>2 DEF Enabled, ListenersInv, Bare, KnownIsLive, ClearKeepsNone
<1>5. SureIsKnown'
  <2>1. /\ (subscribed \intersect sure \subseteq known \union restoring \union lacking)'
        /\ (sure \intersect Urls # {} => "Fetch" \in known \union restoring \union lacking)'
        /\ (sure \intersect Urls \subseteq rules)'
        /\ ("coverage" \in sure => session = "on" /\ measured = {"js", "css"})'
    BY <1>1, <1>2 DEF Enabled, ListenersInv, SureIsKnown
  <2>2. (session = "on" /\ "Fetch" \notin lacking /\ ("Fetch" \in restoring => "Fetch" \in known) =>
           sure \intersect Urls \subseteq caught)'
    <3>1. CASE d = "Fetch"
      BY <1>1, <1>2, <3>1 DEF Enabled, ListenersInv, SureIsKnown
    <3>2. CASE d # "Fetch"
      BY <1>1, <1>2, <3>2 DEF Enabled, ListenersInv, SureIsKnown
    <3> QED
      BY <3>1, <3>2
  <2> QED
    BY <2>1, <2>2 DEF SureIsKnown
<1> QED
  BY <1>2, <1>3, <1>4, <1>5 DEF ListenersInv

(* The session.                                                              *)
LEMMA SessionMoves ==
  ASSUME ListenersInv, Listeners!Lose \/ Listeners!Reattach \/ Listeners!End \/ Listeners!WorkerStops
  PROVE  ListenersInv'
<1>1. JobIsOnItsWay'
  <2>1. job' = job
    BY DEF Listeners!Lose, Listeners!Reattach, Listeners!End, Listeners!WorkerStops
  <2> QED
    BY <2>1 DEF ListenersInv, JobIsOnItsWay
<1>2. CASE Listeners!Lose
  <2>1. PICK reached \in SUBSET restoring :
          known' = known \union reached /\ lacking' = lacking \union (restoring \ reached)
    BY <1>2 DEF Listeners!Lose
  <2>2. known \union restoring \union lacking = known' \union lacking'
    BY <2>1
  <2> QED
    BY <1>1, <1>2, <2>1, <2>2, NamesApart DEF Listeners!Lose, ListenersInv, ListenersTypes, Bare, KnownIsLive, SureIsKnown, ClearKeepsNone
<1>3. CASE Listeners!Reattach
  BY <1>1, <1>3, NamesApart DEF Listeners!Reattach, ListenersInv, ListenersTypes, Bare, KnownIsLive, SureIsKnown, ClearKeepsNone
<1>4. CASE Listeners!End
  BY <1>1, <1>4, NamesApart DEF Listeners!End, ListenersInv, ListenersTypes, Bare, KnownIsLive, SureIsKnown, ClearKeepsNone
<1>5. CASE Listeners!WorkerStops
  BY <1>1, <1>5, NamesApart DEF Listeners!WorkerStops, Listeners!browserVars, Listeners!NoJob, ListenersInv, ListenersTypes, Bare, KnownIsLive, SureIsKnown, ClearKeepsNone
<1> QED
  BY <1>2, <1>3, <1>4, <1>5

(* A call begins its script; a rule that is new is not told of yet.          *)
LEMMA CallBegins ==
  ASSUME ListenersInv, NEW c \in Listeners!Calls, Listeners!Call(c[1], c[2])
  PROVE  ListenersInv'
<1>1. /\ job' = Listeners!NoJob \/ job' = Job(c[1], c[2], Listeners!Script(c[1], c[2]))
      /\ UNCHANGED <<session, live, caught, measured, known, saved, restoring, lacking, subscribed, tracking>>
  BY DEF Listeners!Call, Listeners!browserVars, Listeners!recordVars, Job
<1>2. /\ c[1] = "clear" => rules' = {} /\ sure' = sure \ Urls
      /\ c[1] = "mock" => rules' = rules \union {c[2]} /\ c[2] \in Urls
      /\ c[1] # "clear" => sure' = sure /\ rules \subseteq rules' /\ rules' \subseteq Urls
  BY DEF Listeners!Call, Listeners!Calls, ListenersInv, ListenersTypes
<1>3. Listeners!NoJob.kind = "none" /\ Listeners!NoJob.todo = <<>>
  BY DEF Listeners!NoJob
<1>4. \A kind, x, rest : Job(kind, x, rest).kind = kind /\ Job(kind, x, rest).todo = rest
  BY DEF Job
<1>5. JobIsOnItsWay' /\ (job'.kind = "clear" => c[1] = "clear")
  <2>1. CASE c[1] = "events" /\ c[2] \in Events
    BY <1>1, <1>3, <1>4, <2>1 DEF JobIsOnItsWay, Listeners!Script
  <2>2. CASE c[1] = "wait" /\ c[2] \in Events
    BY <1>1, <1>3, <1>4, <2>2 DEF JobIsOnItsWay, Listeners!Script
  <2>3. CASE c[1] = "mock" /\ c[2] \in Urls
    BY <1>1, <1>3, <1>4, <2>3 DEF JobIsOnItsWay, Listeners!Script
  <2>4. CASE c[1] = "clear" /\ c[2] = "none"
    BY <1>1, <1>3, <1>4, <2>4 DEF JobIsOnItsWay, Listeners!Script
  <2>5. CASE c[1] = "start" /\ c[2] = "none"
    BY <1>1, <1>3, <1>4, <2>5 DEF JobIsOnItsWay, Listeners!Script
  <2>6. CASE c[1] = "stop" /\ c[2] = "none"
    BY <1>1, <1>3, <1>4, <2>6 DEF JobIsOnItsWay, Listeners!Script
  <2> QED
    BY <2>1, <2>2, <2>3, <2>4, <2>5, <2>6 DEF Listeners!Calls
<1> QED
  BY <1>1, <1>2, <1>5, NamesApart DEF ListenersInv, ListenersTypes, Bare, KnownIsLive, SureIsKnown, ClearKeepsNone

(* A session that was lost is replaced by a bare one, nothing is told of it. *)
LEMMA Attaches ==
  ASSUME ListenersInv, Listeners!Attach
  PROVE  ListenersInv'
<1>1. Stepped("attach") \/ job' = Listeners!NoJob
  BY Stepping DEF Listeners!Attach, ListenersInv
<1>2. /\ JobIsOnItsWay'
      /\ job'.kind = "clear" => job.kind = "clear"
  BY <1>1 DEF Stepped, Listeners!NoJob, JobIsOnItsWay
<1>3. CASE session = "on"
  BY <1>2, <1>3 DEF Listeners!Attach, Listeners!recordVars, ListenersInv, ListenersTypes, Bare, KnownIsLive, SureIsKnown, ClearKeepsNone
<1>4. CASE session # "on"
  BY <1>2, <1>4 DEF Listeners!Attach, ListenersInv, ListenersTypes, Bare, KnownIsLive, SureIsKnown, ClearKeepsNone
<1> QED
  BY <1>3, <1>4

LEMMA Enables ==
  ASSUME ListenersInv, NEW d \in Listeners!Domains, Listeners!Enable(d)
  PROVE  ListenersInv'
<1>1. Stepped(d)
  BY Stepping DEF Listeners!Enable, ListenersInv
<1>2. JobIsOnItsWay' /\ (job'.kind = "clear" => job.kind = "clear")
  BY <1>1 DEF Stepped
<1>3. /\ session = "on" /\ UNCHANGED <<session, measured, saved, restoring, rules, subscribed, tracking, sure>>
      /\ d \in Events \union {"Fetch"} /\ Enabled(d)
  BY Enabling DEF Listeners!Enable, Listeners!Domains
<1>4. ListenersTypes'
  BY <1>3 DEF Enabled, ListenersInv, ListenersTypes
<1>5. Bare' /\ KnownIsLive' /\ ClearKeepsNone'
  BY <1>2, <1>3 DEF Enabled, ListenersInv, Bare, KnownIsLive, ClearKeepsNone
<1>6. SureIsKnown'
  <2>1. CASE d = "Fetch"
    BY <1>3, <2>1 DEF Enabled, ListenersInv, ListenersTypes, SureIsKnown
  <2>2. CASE d # "Fetch"
    BY <1>3, <2>2 DEF Enabled, ListenersInv, ListenersTypes, SureIsKnown
  <2> QED
    BY <2>1, <2>2
<1> QED
  BY <1>2, <1>4, <1>5, <1>6 DEF ListenersInv

LEMMA Subscribes ==
  ASSUME ListenersInv, Listeners!Subscribe
  PROVE  ListenersInv'
<1>1. Stepped("subscribe")
  BY Stepping DEF Listeners!Subscribe, ListenersInv
<1>2. /\ JobIsOnItsWay' /\ job.of \in Events
      /\ job'.kind = "clear" => job.kind = "clear"
  BY <1>1 DEF Stepped
<1>3. CASE job.of \in subscribed
  BY <1>2, <1>3 DEF Listeners!Subscribe, ListenersInv, ListenersTypes, Bare, KnownIsLive, SureIsKnown, ClearKeepsNone
<1>4. CASE job.of \notin subscribed
  <2>1. /\ session = "on" /\ UNCHANGED <<session, measured, saved, restoring, rules, tracking>>
        /\ subscribed' = subscribed \union {job.of} /\ sure' = sure \union {job.of}
        /\ job.of \notin Urls \union {"Fetch", "coverage"} /\ Enabled(job.of)
    BY <1>2, <1>4, NamesApart, Enabling DEF Listeners!Subscribe
  <2>2. ListenersTypes'
    BY <1>2, <2>1 DEF Enabled, ListenersInv, ListenersTypes
  <2>3. Bare' /\ KnownIsLive' /\ ClearKeepsNone'
    BY <1>2, <2>1 DEF Enabled, ListenersInv, Bare, KnownIsLive, ClearKeepsNone
  <2>4. SureIsKnown'
    BY <1>2, <2>1 DEF Enabled, ListenersInv, ListenersTypes, SureIsKnown
  <2> QED
    BY <1>2, <2>2, <2>3, <2>4 DEF ListenersInv
<1> QED
  BY <1>3, <1>4

LEMMA GivesPatterns ==
  ASSUME ListenersInv, Listeners!Patterns
  PROVE  ListenersInv'
<1>1. Stepped("patterns")
  BY Stepping DEF Listeners!Patterns, ListenersInv
<1>2. /\ JobIsOnItsWay'
      /\ job'.kind # "clear"
  BY <1>1 DEF Stepped
<1> QED
  BY <1>2, NamesApart DEF Listeners!Patterns, ListenersInv, ListenersTypes, Bare, KnownIsLive, SureIsKnown, ClearKeepsNone

LEMMA Disables ==
  ASSUME ListenersInv, Listeners!Disable
  PROVE  ListenersInv'
<1>1. Stepped("disable")
  BY Stepping DEF Listeners!Disable, Listeners!recordVars, ListenersInv
<1>2. /\ JobIsOnItsWay' /\ job.kind = "clear"
  BY <1>1 DEF Stepped
<1> QED
  BY <1>2, NamesApart DEF Listeners!Disable, Listeners!recordVars, ListenersInv, ListenersTypes, Bare, KnownIsLive, SureIsKnown, ClearKeepsNone

LEMMA Measures ==
  ASSUME ListenersInv,
         Listeners!Measure("js", "js+") \/ Listeners!Measure("css", "css+")
           \/ Listeners!StopMeasure("js", "js-") \/ Listeners!StopMeasure("css", "css-")
  PROVE  ListenersInv'
<1>1. \E step \in {"js+", "css+", "js-", "css-"} : Stepped(step)
  BY Stepping DEF Listeners!Measure, Listeners!StopMeasure, ListenersInv
<1>2. /\ JobIsOnItsWay'
      /\ job'.kind = "clear" => job.kind = "clear"
  BY <1>1 DEF Stepped
<1>3. /\ session = "on" /\ UNCHANGED <<session, live, caught, known, saved, restoring, lacking, rules, subscribed>>
      /\ sure' \subseteq sure \union {"coverage"} /\ sure \ {"coverage"} \subseteq sure'
      /\ "coverage" \in sure' => measured' = {"js", "css"}
      /\ measured' \subseteq {"js", "css"}
  <2>1. \A step : Listeners!Measure("js", step) \/ Listeners!Measure("css", step)
          => /\ sure' \subseteq sure \union {"coverage"} /\ sure \subseteq sure'
             /\ "coverage" \in sure' => measured' = {"js", "css"}
    BY DEF Listeners!Measure, ListenersInv, ListenersTypes, SureIsKnown, Bare
  <2>2. \A what, step : Listeners!StopMeasure(what, step) => sure' = sure \ {"coverage"}
    BY DEF Listeners!StopMeasure
  <2> QED
    BY <2>1, <2>2 DEF Listeners!Measure, Listeners!StopMeasure, Listeners!recordVars, ListenersInv, ListenersTypes
<1> QED
  BY <1>2, <1>3, NamesApart DEF ListenersInv, ListenersTypes, Bare, KnownIsLive, SureIsKnown, ClearKeepsNone

LEMMA Fails ==
  ASSUME ListenersInv, Listeners!Fail
  PROVE  ListenersInv'
<1>1. JobIsOnItsWay' /\ job'.kind = "none"
  BY DEF Listeners!Fail, Listeners!NoJob, JobIsOnItsWay
<1> QED
  BY <1>1 DEF Listeners!Fail, Listeners!browserVars, Listeners!recordVars, ListenersInv, ListenersTypes, Bare, KnownIsLive, SureIsKnown, ClearKeepsNone

LEMMA ListenersStep ==
  ASSUME ListenersInv, Listeners!Next
  PROVE  ListenersInv'
BY SessionMoves, Restores, CallBegins, Attaches, Enables, Subscribes, GivesPatterns, Disables, Measures, Fails
   DEF Listeners!Next

LEMMA ListenersInForce == ListenersInv => Listeners!InForce
BY NamesApart DEF Listeners!InForce, ListenersInv, ListenersTypes, Bare, KnownIsLive, SureIsKnown, ClearKeepsNone

(* A rule or a subscription that a tool has reported is in force as long as  *)
(* the session lasts, however often it is lost and had back, but for the     *)
(* domains that a reattachment has not come to yet, or never as it was cut   *)
(* short, and those that the browser refuses: network, console,              *)
(* network_intercept and coverage with cdp.ts.                               *)
THEOREM ReportedIsInForce == Spec => []InForce
<1> DEFINE Inv == ListenersInv
<1>1. Init => Inv
  BY ListenersInitially DEF Init
<1>2. Inv /\ [Next]_vars => Inv'
  <2>1. Inv /\ Next => Inv'
    <3>1. Next => Listeners!Next \/ UNCHANGED listenersVars
      BY DEF Next
    <3> QED
      BY <3>1, ListenersStep, ListenersStutter
  <2>2. UNCHANGED vars => UNCHANGED listenersVars
    BY DEF vars
  <2> QED
    BY <2>1, <2>2, ListenersStutter
<1>3. Inv => InForce
  BY ListenersInForce DEF InForce
<1> QED
  BY <1>1, <1>2, <1>3, PTL DEF Spec

-----------------------------------------------------------------------------
(***************************************************************************)
(* TabRequests.  An answer finds its entry because the index has the id of *)
(* every kept entry but of those whose earlier leg was trimmed (Indexed);  *)
(* the count of wait_for is at least the number of requests it knows of.   *)
(***************************************************************************)
Entry == [id : Pages, got : BOOLEAN, answered : BOOLEAN]

TrafficTypes ==
  /\ table \in Seq(Entry) /\ index \subseteq Pages /\ inflight \in Nat
  /\ IsFiniteSet(seen) /\ odd \subseteq Pages \union {"end"}

Indexed == \A i \in 1..Len(table) : table[i].id \notin odd => table[i].id \in index

Counted == "end" \notin odd => inflight >= Cardinality(seen)

TrafficInv == TrafficTypes /\ Indexed /\ Counted /\ Traffic!AnswersAreKept

LEMMA SameCardinality == \A S : Traffic!Cardinality(S) = Cardinality(S)
BY DEF Cardinality, Traffic!Cardinality

LEMMA TrafficInitially == Traffic!Init => TrafficInv
<1> SUFFICES ASSUME Traffic!Init
             PROVE  TrafficInv
  OBVIOUS
<1>1. table = <<>> /\ index = {} /\ inflight = 0 /\ seen = {} /\ odd = {}
  BY DEF Traffic!Init
<1>2. IsFiniteSet(seen) /\ Cardinality(seen) = 0
  BY <1>1, FS_EmptySet
<1> QED
  BY <1>1, <1>2 DEF TrafficInv, TrafficTypes, Indexed, Traffic!AnswersAreKept, Counted

LEMMA TrafficUntouched ==
  ASSUME TrafficInv, UNCHANGED <<table, index, inflight, seen, odd>>
  PROVE  TrafficInv'
BY DEF TrafficInv, TrafficTypes, Indexed, Traffic!AnswersAreKept, Counted

(* The entry that an answer completes is one of its id.                      *)
LEMMA Completes ==
  ASSUME TrafficInv, NEW p \in Pages, Traffic!Complete(p)
  PROVE  \/ table' = table
         \/ \E i \in 1..Len(table) :
              /\ table[i].id = p
              /\ table' = [table EXCEPT ![i].got = @ \/ p \in index, ![i].answered = TRUE]
<1> DEFINE at == {i \in 1..Len(table) : table[i].id = p}
           last == CHOOSE i \in at : \A j \in at : j <= i
<1>1. CASE ~telling \/ at = {}
  BY <1>1 DEF Traffic!Complete
<1>2. CASE telling /\ at # {}
  <2>1. Len(table) \in Nat /\ at \in SUBSET (1..Len(table))
    BY DEF TrafficInv, TrafficTypes
  <2>2. last \in at
    <3> HIDE DEF at
    <3> QED
      BY <1>2, <2>1, Highest
  <2>3. table' = [table EXCEPT ![last].got = @ \/ p \in index, ![last].answered = TRUE]
    BY <1>2 DEF Traffic!Complete
  <2> QED
    BY <2>2, <2>3
<1> QED
  BY <1>1, <1>2

LEMMA Answers ==
  ASSUME TrafficInv, NEW p \in Pages, Traffic!Complete(p), index' = index,
         odd \subseteq odd'
  PROVE  table' \in Seq(Entry) /\ Traffic!AnswersAreKept' /\ Indexed'
<1>1. CASE table' = table
  BY <1>1 DEF TrafficInv, TrafficTypes, Indexed, Traffic!AnswersAreKept
<1>2. ASSUME NEW i \in 1..Len(table), table[i].id = p,
             table' = [table EXCEPT ![i].got = @ \/ p \in index, ![i].answered = TRUE]
      PROVE  table' \in Seq(Entry) /\ Traffic!AnswersAreKept' /\ Indexed'
  <2>1. /\ table \in Seq(Entry) /\ (p \notin odd => p \in index)
        /\ \A j \in 1..Len(table) : table[j].id \notin odd => table[j].id \in index
        /\ \A j \in 1..Len(table) : table[j].answered /\ table[j].id \notin odd => table[j].got
    BY <1>2 DEF TrafficInv, TrafficTypes, Indexed, Traffic!AnswersAreKept
  <2>2. \A j \in 1..Len(table) : table[j] \in Entry
    BY <2>1
  <2> DEFINE got == table[i].got \/ p \in index
  <2>3. table' = [table EXCEPT ![i].got = got, ![i].answered = TRUE]
    BY <1>2
  <2>4. got \in BOOLEAN /\ (got <=> (table[i].got \/ p \in index))
    OBVIOUS
  <2> HIDE DEF got
  <2> DEFINE entry == [id |-> p, got |-> got, answered |-> TRUE]
  <2>8. table[i] \in Entry /\ DOMAIN table = 1..Len(table)
    BY <2>1, <2>2
  <2>9. table' = [table EXCEPT ![i] = entry] /\ entry \in Entry
    BY <1>2, <2>3, <2>4, <2>8 DEF Entry
  <2>10. entry.id = p /\ entry.got = got
    OBVIOUS
  <2> HIDE DEF entry
  <2>5. /\ table' \in Seq(Entry) /\ Len(table') = Len(table) /\ table'[i] = entry
        /\ \A j \in 1..Len(table) : j # i => table'[j] = table[j]
    <3>1. table \in Seq(Entry) /\ i \in 1..Len(table)
      BY <1>2, <2>1
    <3>2. /\ [table EXCEPT ![i] = entry] \in Seq(Entry)
          /\ Len([table EXCEPT ![i] = entry]) = Len(table)
          /\ \A j \in 1..Len(table) : [table EXCEPT ![i] = entry][j] = IF j = i THEN entry ELSE table[j]
      BY <2>9, <3>1, ExceptSeq
    <3> QED
      BY <2>9, <3>1, <3>2
  <2>6. Indexed'
    BY <1>2, <2>1, <2>4, <2>5, <2>10 DEF Indexed
  <2>7. Traffic!AnswersAreKept'
    BY <1>2, <2>1, <2>4, <2>5, <2>10 DEF Traffic!AnswersAreKept
  <2> QED
    BY <2>5, <2>6, <2>7
<1> QED
  BY <1>1, <1>2, Completes

LEMMA Responds ==
  ASSUME TrafficInv, NEW p \in Pages, Traffic!Respond(p)
  PROVE  TrafficInv'
<1>1. /\ Traffic!Complete(p) /\ index' = index /\ inflight' = inflight /\ seen' = seen /\ odd' = odd
  BY DEF Traffic!Respond
<1>2. table' \in Seq(Entry) /\ Traffic!AnswersAreKept' /\ Indexed'
  BY <1>1, Answers
<1> QED
  BY <1>1, <1>2 DEF TrafficInv, TrafficTypes, Counted

LEMMA Finishes ==
  ASSUME TrafficInv, NEW p \in Pages, Traffic!Finish(p)
  PROVE  TrafficInv'
<1>1. /\ Traffic!Complete(p) /\ index' = index /\ seen' = seen \ {p}
      /\ inflight' = IF telling /\ inflight > 0 THEN inflight - 1 ELSE inflight
      /\ odd' = IF telling /\ p \notin seen THEN odd \union {"end"} ELSE odd
  BY DEF Traffic!Finish
<1>2. table' \in Seq(Entry) /\ Traffic!AnswersAreKept' /\ Indexed'
  BY <1>1, Answers
<1>3. /\ IsFiniteSet(seen') /\ IsFiniteSet(seen) /\ Cardinality(seen) \in Nat /\ Cardinality(seen') \in Nat
      /\ Cardinality(seen') = IF p \in seen THEN Cardinality(seen) - 1 ELSE Cardinality(seen)
  BY <1>1, FS_RemoveElement, FS_CardinalityType DEF TrafficInv, TrafficTypes
<1>4. inflight' \in Nat /\ odd' \subseteq Pages \union {"end"}
  BY <1>1 DEF TrafficInv, TrafficTypes
<1>5. Counted'
  <2>1. inflight \in Nat /\ ("end" \notin odd => inflight >= Cardinality(seen))
    BY DEF TrafficInv, TrafficTypes, Counted
  <2>2. "end" \notin odd' => inflight' >= Cardinality(seen')
    BY <1>1, <1>3, <2>1
  <2> QED
    BY <2>2 DEF Counted
<1> QED
  BY <1>1, <1>2, <1>3, <1>4, <1>5 DEF TrafficInv, TrafficTypes

(* An entry more, and one less when the table is full.                       *)
LEMMA Enters ==
  ASSUME TrafficInv, NEW p \in Pages, Traffic!HandleRequest(p)
  PROVE  /\ table' \in Seq(Entry) /\ index' \subseteq Pages /\ odd' \subseteq Pages \union {"end"}
         /\ "end" \in odd => "end" \in odd'
         /\ Traffic!AnswersAreKept' /\ Indexed'
<1> DEFINE new == [id |-> p, got |-> FALSE, answered |-> FALSE]
           longer == Append(table, new)
           over == Len(longer) > MaxEntries
           first == Head(longer).id
<1>1. /\ table \in Seq(Entry) /\ index \subseteq Pages /\ odd \subseteq Pages \union {"end"}
      /\ \A i \in 1..Len(table) : table[i].id \notin odd => table[i].id \in index
      /\ \A i \in 1..Len(table) : table[i].answered /\ table[i].id \notin odd => table[i].got
  BY DEF TrafficInv, TrafficTypes, Indexed, Traffic!AnswersAreKept
<1>2. new \in Entry /\ new.id = p /\ ~new.answered
  BY DEF Entry
<1>3. /\ table' = IF over THEN Tail(longer) ELSE longer
      /\ index' = (index \union {p}) \ (IF over THEN {first} ELSE {})
      /\ odd' = IF over /\ \E i \in 2..Len(longer) : longer[i].id = first
                THEN odd \union {first} ELSE odd \ ({p} \ {table[i].id : i \in 1..Len(table)})
  BY DEF Traffic!HandleRequest
<1> HIDE DEF new
<1>4. /\ longer \in Seq(Entry) /\ Len(longer) = Len(table) + 1 /\ longer[Len(longer)] = new
      /\ \A i \in 1..Len(table) : longer[i] = table[i]
      /\ Len(table) \in Nat
  BY <1>1, <1>2
<1>5. \A entry \in Entry : entry.id \in Pages
  BY DEF Entry
<1>6. first \in Pages
  <2>1. Head(longer) \in Entry
    <3> HIDE DEF longer
    <3> QED
      BY <1>4
  <2> QED
    BY <1>5, <2>1
<1> HIDE DEF longer, over, first
<1>7. \A i \in 1..Len(longer) :
        /\ longer[i].id \notin odd' => longer[i].id \in index \union {p}
        /\ longer[i].answered /\ longer[i].id \notin odd' => longer[i].got
  <2>1. \A i \in 1..Len(table) : table[i].id \in odd => table[i].id \in odd'
    BY <1>3
  <2>2. \A i \in 1..Len(longer) : i \in 1..Len(table) \/ i = Len(longer)
    BY <1>4
  <2> QED
    BY <1>1, <1>2, <1>4, <2>1, <2>2
<1>8. index' \subseteq Pages /\ odd' \subseteq Pages \union {"end"}
  BY <1>1, <1>3, <1>6
<1>9. "end" \in odd => "end" \in odd'
  BY <1>3, ToolsAssumption
<1>10. CASE ~over
  BY <1>3, <1>4, <1>7, <1>8, <1>9, <1>10 DEF Indexed, Traffic!AnswersAreKept
<1>11. CASE over
  <2>1. /\ table' = Tail(longer) /\ table' \in Seq(Entry) /\ Len(table') = Len(longer) - 1
        /\ \A i \in 1..Len(table') : table'[i] = longer[i + 1] /\ i + 1 \in 2..Len(longer)
    BY <1>3, <1>4, <1>11
  <2>2. \A i \in 2..Len(longer) : longer[i].id \notin odd' => longer[i].id # first
    BY <1>3, <1>11
  <2>3. \A i \in 2..Len(longer) : i \in 1..Len(longer)
    BY <1>4
  <2>4. \A i \in 2..Len(longer) : longer[i].id \notin odd' => longer[i].id \in index'
    BY <1>3, <1>7, <1>11, <2>2, <2>3
  <2>5. Indexed'
    BY <2>1, <2>4 DEF Indexed
  <2>6. Traffic!AnswersAreKept'
    BY <1>7, <2>1, <2>3 DEF Traffic!AnswersAreKept
  <2> QED
    BY <1>8, <1>9, <2>1, <2>5, <2>6
<1> QED
  BY <1>10, <1>11

LEMMA Begins ==
  ASSUME TrafficInv, NEW p \in Pages, Traffic!WillBeSent(p)
  PROVE  TrafficInv'
<1>1. CASE ~telling
  <2>1. UNCHANGED <<table, index, inflight, seen, odd>>
    BY <1>1 DEF Traffic!WillBeSent, Traffic!toolVars
  <2> QED
    BY <2>1, TrafficUntouched
<1>2. CASE telling
  <2>1. inflight' = inflight + 1 /\ Traffic!HandleRequest(p) /\ seen' = seen \union {p}
    BY <1>2 DEF Traffic!WillBeSent
  <2>2. /\ table' \in Seq(Entry) /\ index' \subseteq Pages /\ odd' \subseteq Pages \union {"end"}
        /\ "end" \in odd => "end" \in odd'
        /\ Traffic!AnswersAreKept' /\ Indexed'
    BY <2>1, Enters
  <2>3. /\ IsFiniteSet(seen) /\ IsFiniteSet(seen \union {p})
        /\ Cardinality(seen \union {p}) = IF p \in seen THEN Cardinality(seen) ELSE Cardinality(seen) + 1
    <3>1. IsFiniteSet(seen)
      BY DEF TrafficInv, TrafficTypes
    <3> QED
      BY <3>1, FS_AddElement
  <2>4. IsFiniteSet(seen') /\ Cardinality(seen) \in Nat /\ Cardinality(seen') <= Cardinality(seen) + 1
    BY <2>1, <2>3, FS_CardinalityType
  <2>5. inflight \in Nat /\ ("end" \notin odd => inflight >= Cardinality(seen))
    BY DEF TrafficInv, TrafficTypes, Counted
  <2>6. Cardinality(seen') \in Nat
    BY <2>4, FS_CardinalityType
  <2>7. inflight' \in Nat /\ ("end" \notin odd' => inflight' >= Cardinality(seen'))
    BY <2>1, <2>2, <2>4, <2>5, <2>6
  <2> QED
    BY <2>2, <2>4, <2>7 DEF TrafficInv, TrafficTypes, Counted
<1> QED
  BY <1>1, <1>2

LEMMA Clears ==
  ASSUME TrafficInv, Traffic!Clear
  PROVE  TrafficInv'
BY ToolsAssumption DEF Traffic!Clear, TrafficInv, TrafficTypes, Indexed, Traffic!AnswersAreKept, Counted

LEMMA TrafficStep ==
  ASSUME TrafficInv, Traffic!Next
  PROVE  TrafficInv'
<1>1. ASSUME NEW p \in Pages,
             Traffic!Begin(p) \/ Traffic!Redirect(p) \/ Traffic!Respond(p) \/ Traffic!Loaded(p)
      PROVE  TrafficInv'
  BY <1>1, Begins, Responds, Finishes DEF Traffic!Begin, Traffic!Redirect, Traffic!Loaded
<1>2. ASSUME NEW p \in Pages, Traffic!HandlePaused(p)
      PROVE  TrafficInv'
  <2>1. Traffic!Finish(p) \/ UNCHANGED <<table, index, inflight, seen, odd>>
    BY <1>2 DEF Traffic!HandlePaused, Traffic!toolVars
  <2> QED
    BY <2>1, Finishes, TrafficUntouched
<1>3. ASSUME NEW p \in Pages, Traffic!Mock(p)
      PROVE  TrafficInv'
  BY <1>3, TrafficUntouched DEF Traffic!Mock, Traffic!toolVars
<1>4. ASSUME Traffic!Wait \/ Traffic!Unmock
      PROVE  TrafficInv'
  BY <1>4, TrafficUntouched DEF Traffic!Wait, Traffic!Unmock, Traffic!toolVars
<1>5. ASSUME NEW flag \in BOOLEAN, Traffic!Poll(flag) \/ Traffic!Session(flag)
      PROVE  TrafficInv'
  BY <1>5, TrafficUntouched DEF Traffic!Poll, Traffic!Session, Traffic!toolVars
<1> QED
  BY <1>1, <1>2, <1>3, <1>4, <1>5, Clears DEF Traffic!Next

(* A request that network keeps has its answer once that was told, and       *)
(* wait_for does not take the network for idle while a request it knows of   *)
(* is under way, but for the cases that odd names.                           *)
THEOREM ToldOfTraffic == Spec => []TrafficIsTold
<1> DEFINE Inv == TrafficInv
<1>1. Init => Inv
  BY TrafficInitially DEF Init
<1>2. Inv /\ [Next]_vars => Inv'
  <2>1. Next => Traffic!Next \/ UNCHANGED trafficVars
    BY DEF Next
  <2>2. UNCHANGED vars => UNCHANGED trafficVars
    BY DEF vars
  <2>3. UNCHANGED trafficVars => UNCHANGED <<table, index, inflight, seen, odd>>
    BY DEF trafficVars
  <2> QED
    BY <2>1, <2>2, <2>3, TrafficStep, TrafficUntouched
<1>3. Inv => TrafficIsTold
  BY SameCardinality DEF TrafficInv, Counted, TrafficIsTold, Traffic!IdleIsIdle
<1> QED
  BY <1>1, <1>2, <1>3, PTL DEF Spec

-----------------------------------------------------------------------------
(***************************************************************************)
(* ComputerInput.  A trace is owed to the command that removes it, which   *)
(* is still to come in the call at work or in its finally, unless a failure*)
(* has left it.  Ordered is what the scripts have in common that makes it so.   *)
(***************************************************************************)
Ungrids == {<<"ungrid">>, <<"ungrid", "show">>}
Shows   == {<<"show">>, <<"ungrid", "show">>}
Finals  == Ungrids \union Shows

Commands == {"view", "hide", "capture", "grid", "ungrid", "show", "find", "move", "press", "release", "insert"}

Ordered(kind, todo, final) ==
  /\ \A i \in 1..Len(todo) : todo[i] = "press" =>
       kind # "grid" /\ \E j \in 1..Len(todo) : i < j /\ todo[j] = "release"
  /\ \A i \in 1..Len(todo) : todo[i] = "hide" => i # Len(todo) /\ final = <<>>
  /\ \A i, j \in 1..Len(todo) : todo[i] = "hide" /\ todo[j] = "hide" => i = j
  /\ \A i \in 1..Len(todo) : todo[i] = "grid" =>
       kind = "grid" /\ (final \in Ungrids \/ \E j \in 1..Len(todo) : j < i /\ todo[j] = "hide")
  /\ \A i \in 1..Len(todo) : todo[i] \in {"ungrid", "show"} => todo \in Finals
  /\ todo \in Finals \union {<<>>} => final = <<>>
  /\ todo \in Ungrids \/ final \in Ungrids => kind = "grid"

Calling(it) ==
  \E tab, kind, view : \E todo \in Seq(Commands) : \E final \in Finals \union {<<>>} :
    it = [tab |-> tab, kind |-> kind, view |-> view, todo |-> todo, final |-> final]

(* What a tab's page or the tab shows is to be put right, or a failure left it*)
Releasing(t) == t = action.tab /\ action.kind # "grid" /\ \E i \in 1..Len(action.todo) : action.todo[i] = "release"
Removing(t, finals) == t = action.tab /\ (action.final \in finals \/ action.todo \in finals)
Owed ==
  \A t \in Tabs :
    /\ t \in held => <<t, "held">> \in stuck \/ Releasing(t)
    /\ <<t, "bare">> \in dressed => <<t, "bare">> \in stuck \/ Removing(t, Shows)
    /\ <<t, "grid">> \in dressed => <<t, "grid">> \in stuck \/ Removing(t, Ungrids)

InputInv == Calling(action) /\ Ordered(action.kind, action.todo, action.final) /\ Owed

LEMMA Explicit ==
  ASSUME NEW a, NEW b
  PROVE  /\ Len(<<a>>) = 1 /\ <<a>>[1] = a /\ Len(<<a, b>>) = 2 /\ <<a, b>>[1] = a /\ <<a, b>>[2] = b
         /\ Len(<<>>) = 0
OBVIOUS

LEMMA Joined == <<"ungrid">> \o <<"show">> = <<"ungrid", "show">>
<1> DEFINE s == <<"ungrid">>
           t == <<"show">>
           both == <<"ungrid", "show">>
<1>1. s \in Seq({"ungrid", "show"}) /\ t \in Seq({"ungrid", "show"}) /\ both \in Seq({"ungrid", "show"})
  OBVIOUS
<1>2. Len(s) = 1 /\ Len(t) = 1 /\ s[1] = "ungrid" /\ t[1] = "show"
      /\ Len(both) = 2 /\ both[1] = "ungrid" /\ both[2] = "show"
  OBVIOUS
<1> HIDE DEF s, t, both
<1>3. s \o t \in Seq({"ungrid", "show"}) /\ Len(s \o t) = 2 /\ (s \o t)[1] = "ungrid" /\ (s \o t)[2] = "show"
  <2>1. /\ s \o t \in Seq({"ungrid", "show"}) /\ Len(s \o t) = Len(s) + Len(t)
        /\ \A i \in 1..Len(s) + Len(t) : (s \o t)[i] = IF i <= Len(s) THEN s[i] ELSE t[i - Len(s)]
    BY <1>1, ConcatProperties
  <2> QED
    BY <1>2, <2>1
<1>4. \A i \in 1..Len(s \o t) : (s \o t)[i] = both[i]
  BY <1>2, <1>3
<1>5. s \o t = both
  BY <1>1, <1>2, <1>3, <1>4, SeqEqual
<1> QED
  BY <1>5 DEF s, t, both

(* The finally part of a call, and what remains of one.                      *)
LEMMA FinalsAreOrdered ==
  ASSUME NEW kind, NEW todo \in Finals \union {<<>>}, todo \in Ungrids => kind = "grid"
  PROVE  Ordered(kind, todo, <<>>)
<1>1. <<>> \notin Finals
  BY DEF Finals, Ungrids, Shows
<1>2. \A i \in 1..Len(todo) : todo[i] \in {"ungrid", "show"}
  BY Explicit DEF Finals, Ungrids, Shows
<1>3. todo # <<>> => todo \in Finals
  OBVIOUS
<1>4. Len(<<>>) = 0
  OBVIOUS
<1>5. <<>> \notin Ungrids
  BY DEF Ungrids
<1> QED
  BY <1>1, <1>2, <1>3, <1>4, <1>5 DEF Ordered

LEMMA FinalIs ==
  ASSUME NEW kind, NEW visible \in BOOLEAN
  PROVE  /\ Input!Final(kind, visible) \in Finals \union {<<>>}
         /\ Input!Final(kind, visible) \in Shows <=> visible
         /\ Input!Final(kind, visible) \in Ungrids <=> kind = "grid"
<1>1. <<>> \o <<>> = <<>> /\ <<"ungrid">> \o <<>> = <<"ungrid">> /\ <<>> \o <<"show">> = <<"show">>
      /\ <<"ungrid">> \o <<"show">> = <<"ungrid", "show">>
  BY Joined
<1>2. Input!Final(kind, visible) =
        IF kind = "grid" THEN IF visible THEN <<"ungrid", "show">> ELSE <<"ungrid">>
        ELSE IF visible THEN <<"show">> ELSE <<>>
  BY <1>1 DEF Input!Final
<1>3. /\ <<>> \notin Shows /\ <<"ungrid">> \notin Shows /\ <<>> \notin Ungrids /\ <<"show">> \notin Ungrids
      /\ <<"show">> \in Shows /\ <<"ungrid", "show">> \in Shows /\ <<"ungrid">> \in Ungrids
      /\ <<"ungrid", "show">> \in Ungrids
  BY Explicit DEF Shows, Ungrids
<1> QED
  BY <1>2, <1>3 DEF Finals

LEMMA NoFinal ==
  ASSUME NEW s, s[1] \notin {"ungrid", "show"}, Len(s) > 0
  PROVE  s \notin Finals \union {<<>>} /\ s \notin Ungrids
BY Explicit DEF Finals, Ungrids, Shows

LEMMA ScriptsAreOrdered ==
  ASSUME NEW kind \in Input!Kinds
  PROVE  /\ Input!Script(kind) \in Seq(Commands) /\ Ordered(kind, Input!Script(kind), <<>>)
         /\ Input!Script(kind) \notin Finals \union {<<>>}
<1>0. <<>> \notin Ungrids
  BY DEF Ungrids
<1>1. CASE kind = "screenshot"
  <2> DEFINE s == <<"view", "hide", "capture">>
  <2>1. Len(s) = 3 /\ s[1] = "view" /\ s[2] = "hide" /\ s[3] = "capture"
    OBVIOUS
  <2>0. s \in Seq(Commands)
    BY DEF Commands
  <2>2. Input!Script(kind) = s
    BY <1>1 DEF Input!Script
  <2> HIDE DEF s
  <2>3. \A i \in 1..Len(s) : i = 1 \/ i = 2 \/ i = 3
    BY <2>1
  <2>4. s \notin Finals \union {<<>>} /\ s \notin Ungrids
    BY <2>1, NoFinal
  <2> QED
    BY <1>0, <1>1, <2>0, <2>1, <2>2, <2>3, <2>4 DEF Ordered
<1>2. CASE kind = "grid"
  <2> DEFINE s == <<"view", "hide", "grid", "capture">>
  <2>1. Len(s) = 4 /\ s[1] = "view" /\ s[2] = "hide" /\ s[3] = "grid" /\ s[4] = "capture"
    OBVIOUS
  <2>0. s \in Seq(Commands)
    BY DEF Commands
  <2>2. Input!Script(kind) = s
    BY <1>2 DEF Input!Script
  <2> HIDE DEF s
  <2>3. \A i \in 1..Len(s) : i = 1 \/ i = 2 \/ i = 3 \/ i = 4
    BY <2>1
  <2>4. s \notin Finals \union {<<>>} /\ s \notin Ungrids
    BY <2>1, NoFinal
  <2>5. \A i \in 1..Len(s) : /\ s[i] = "hide" => i = 2
                             /\ s[i] = "grid" => i = 3
                             /\ s[i] \notin {"press", "ungrid", "show"}
    BY <2>1, <2>3
  <2>6. 2 \in 1..Len(s) /\ s[2] = "hide" /\ Len(s) # 2
    BY <2>1
  <2>7. \A i \in 1..Len(s) : s[i] = "grid" => \E j \in 1..Len(s) : j < i /\ s[j] = "hide"
    BY <2>5, <2>6
  <2>8. \A i \in 1..Len(s) : s[i] = "hide" => i # Len(s)
    BY <2>5, <2>6
  <2>9. \A i, j \in 1..Len(s) : s[i] = "hide" /\ s[j] = "hide" => i = j
    BY <2>5
  <2> QED
    BY <1>0, <1>2, <2>0, <2>2, <2>4, <2>5, <2>7, <2>8, <2>9 DEF Ordered
<1>3. CASE kind = "click"
  <2> DEFINE s == <<"hide", "view", "move", "press", "release">>
  <2>1. Len(s) = 5 /\ s[1] = "hide" /\ s[2] = "view" /\ s[3] = "move" /\ s[4] = "press" /\ s[5] = "release"
    OBVIOUS
  <2>0. s \in Seq(Commands)
    BY DEF Commands
  <2>2. Input!Script(kind) = s
    BY <1>3 DEF Input!Script, Input!Click
  <2> HIDE DEF s
  <2>3. \A i \in 1..Len(s) : i = 1 \/ i = 2 \/ i = 3 \/ i = 4 \/ i = 5
    BY <2>1
  <2>4. s \notin Finals \union {<<>>} /\ s \notin Ungrids
    BY <2>1, NoFinal
  <2>5. \A i \in 1..Len(s) : /\ s[i] = "hide" => i = 1
                             /\ s[i] = "press" => i < 5
                             /\ s[i] \notin {"grid", "ungrid", "show"}
    BY <2>1, <2>3
  <2>6. 5 \in 1..Len(s) /\ s[5] = "release" /\ Len(s) # 1
    BY <2>1
  <2> QED
    BY <1>0, <1>3, <2>0, <2>2, <2>4, <2>5, <2>6 DEF Ordered
<1>4. CASE kind = "ref"
  <2> DEFINE s == <<"hide", "find", "move", "press", "release">>
  <2>1. Len(s) = 5 /\ s[1] = "hide" /\ s[2] = "find" /\ s[3] = "move" /\ s[4] = "press" /\ s[5] = "release"
    OBVIOUS
  <2>0. s \in Seq(Commands)
    BY DEF Commands
  <2>2. Input!Script(kind) = s
    BY <1>4 DEF Input!Script, Input!Click
  <2> HIDE DEF s
  <2>3. \A i \in 1..Len(s) : i = 1 \/ i = 2 \/ i = 3 \/ i = 4 \/ i = 5
    BY <2>1
  <2>4. s \notin Finals \union {<<>>} /\ s \notin Ungrids
    BY <2>1, NoFinal
  <2>5. \A i \in 1..Len(s) : /\ s[i] = "hide" => i = 1
                             /\ s[i] = "press" => i < 5
                             /\ s[i] \notin {"grid", "ungrid", "show"}
    BY <2>1, <2>3
  <2>6. 5 \in 1..Len(s) /\ s[5] = "release" /\ Len(s) # 1
    BY <2>1
  <2> QED
    BY <1>0, <1>4, <2>0, <2>2, <2>4, <2>5, <2>6 DEF Ordered
<1>5. CASE kind = "drag"
  <2> DEFINE s == <<"view", "move", "press", "move", "release">>
  <2>1. Len(s) = 5 /\ s[1] = "view" /\ s[2] = "move" /\ s[3] = "press" /\ s[4] = "move" /\ s[5] = "release"
    OBVIOUS
  <2>0. s \in Seq(Commands)
    BY DEF Commands
  <2>2. Input!Script(kind) = s
    BY <1>5 DEF Input!Script
  <2> HIDE DEF s
  <2>3. \A i \in 1..Len(s) : i = 1 \/ i = 2 \/ i = 3 \/ i = 4 \/ i = 5
    BY <2>1
  <2>4. s \notin Finals \union {<<>>} /\ s \notin Ungrids
    BY <2>1, NoFinal
  <2> QED
    BY <1>0, <1>5, <2>0, <2>1, <2>2, <2>3, <2>4 DEF Ordered
<1>6. CASE kind = "key"
  <2> DEFINE s == <<"press", "release">>
  <2>1. Len(s) = 2 /\ s[1] = "press" /\ s[2] = "release"
    OBVIOUS
  <2>0. s \in Seq(Commands)
    BY DEF Commands
  <2>2. Input!Script(kind) = s
    BY <1>6 DEF Input!Script
  <2> HIDE DEF s
  <2>3. \A i \in 1..Len(s) : i = 1 \/ i = 2
    BY <2>1
  <2>4. s \notin Finals \union {<<>>} /\ s \notin Ungrids
    BY <2>1, NoFinal
  <2> QED
    BY <1>0, <1>6, <2>0, <2>1, <2>2, <2>3, <2>4 DEF Ordered
<1>7. CASE kind = "move"
  <2> DEFINE s == <<"view", "move">>
  <2>1. Len(s) = 2 /\ s[1] = "view" /\ s[2] = "move"
    OBVIOUS
  <2>0. s \in Seq(Commands)
    BY DEF Commands
  <2>2. Input!Script(kind) = s
    BY <1>7 DEF Input!Script
  <2> HIDE DEF s
  <2>3. \A i \in 1..Len(s) : i = 1 \/ i = 2
    BY <2>1
  <2>4. s \notin Finals \union {<<>>} /\ s \notin Ungrids
    BY <2>1, NoFinal
  <2> QED
    BY <1>0, <1>7, <2>0, <2>1, <2>2, <2>3, <2>4 DEF Ordered
<1>8. CASE kind = "type"
  <2> DEFINE s == <<"insert">>
  <2>1. Len(s) = 1 /\ s[1] = "insert"
    OBVIOUS
  <2>0. s \in Seq(Commands)
    BY DEF Commands
  <2>2. Input!Script(kind) = s
    BY <1>8 DEF Input!Script
  <2> HIDE DEF s
  <2>3. \A i \in 1..Len(s) : i = 1
    BY <2>1
  <2>4. s \notin Finals \union {<<>>} /\ s \notin Ungrids
    BY <2>1, NoFinal
  <2> QED
    BY <1>0, <1>8, <2>0, <2>1, <2>2, <2>3, <2>4 DEF Ordered
<1> QED
  BY <1>1, <1>2, <1>3, <1>4, <1>5, <1>6, <1>7, <1>8 DEF Input!Kinds

(* The command that is next, if it is not the last, leaves an ordered rest,  *)
(* with what is owed from then on as its finally.                            *)
LEMMA RestIsOrdered ==
  ASSUME NEW kind, NEW todo \in Seq(Commands), NEW final \in Finals \union {<<>>}, Ordered(kind, todo, final),
         todo # <<>>, Tail(todo) # <<>>,
         NEW owed \in Finals \union {<<>>}, owed = final \/ Head(todo) = "hide",
         Head(todo) = "hide" => (owed \in Ungrids <=> kind = "grid")
  PROVE  Ordered(kind, Tail(todo), owed)
<1>1. /\ Tail(todo) \in Seq(Commands) /\ Len(Tail(todo)) = Len(todo) - 1 /\ Len(todo) \in Nat /\ Len(todo) > 1
      /\ \A i \in 1..Len(Tail(todo)) : Tail(todo)[i] = todo[i + 1] /\ i + 1 \in 1..Len(todo)
      /\ \A i \in 1..Len(todo) : i # 1 => i - 1 \in 1..Len(Tail(todo)) /\ todo[i] = Tail(todo)[i - 1]
      /\ Head(todo) = todo[1] /\ 1 \in 1..Len(todo)
  OBVIOUS
<1> DEFINE rest == Tail(todo)
<1>2. \A i \in 1..Len(rest) : rest[i] = "press" =>
        kind # "grid" /\ \E j \in 1..Len(rest) : i < j /\ rest[j] = "release"
  <2> SUFFICES ASSUME NEW i \in 1..Len(rest), rest[i] = "press"
               PROVE  kind # "grid" /\ \E j \in 1..Len(rest) : i < j /\ rest[j] = "release"
    OBVIOUS
  <2>1. todo[i + 1] = "press" /\ i + 1 \in 1..Len(todo)
    BY <1>1
  <2>2. kind # "grid" /\ \E j \in 1..Len(todo) : i + 1 < j /\ todo[j] = "release"
    BY <2>1 DEF Ordered
  <2>3. PICK j \in 1..Len(todo) : i + 1 < j /\ todo[j] = "release"
    BY <2>2
  <2>4. j - 1 \in 1..Len(rest) /\ i < j - 1 /\ rest[j - 1] = "release"
    BY <1>1, <2>3
  <2> QED
    BY <2>2, <2>4
<1>3. \A i, j \in 1..Len(rest) : rest[i] = "hide" /\ rest[j] = "hide" => i = j
  <2>1. \A i, j \in 1..Len(todo) : todo[i] = "hide" /\ todo[j] = "hide" => i = j
    BY DEF Ordered
  <2> QED
    BY <1>1, <2>1
<1>4. \A i \in 1..Len(rest) : rest[i] = "hide" => i # Len(rest) /\ owed = <<>>
  <2>1. \A i \in 1..Len(todo) : todo[i] = "hide" => i # Len(todo) /\ final = <<>>
    BY DEF Ordered
  <2>2. \A i \in 1..Len(rest) : rest[i] = "hide" => Head(todo) # "hide"
    <3>1. \A i, j \in 1..Len(todo) : todo[i] = "hide" /\ todo[j] = "hide" => i = j
      BY DEF Ordered
    <3> QED
      BY <1>1, <3>1
  <2> SUFFICES ASSUME NEW i \in 1..Len(rest), rest[i] = "hide"
               PROVE  i # Len(rest) /\ owed = <<>>
    OBVIOUS
  <2>3. todo[i + 1] = "hide" /\ i + 1 \in 1..Len(todo) /\ Head(todo) # "hide"
    BY <1>1, <2>2
  <2>4. i + 1 # Len(todo) /\ final = <<>>
    BY <2>1, <2>3
  <2>5. owed = final
    BY <2>3
  <2>6. i # Len(rest)
    <3>1. Len(rest) = Len(todo) - 1 /\ Len(todo) \in Nat
      BY <1>1
    <3> HIDE DEF rest
    <3> QED
      BY <2>4, <3>1
  <2> QED
    BY <2>4, <2>5, <2>6
<1>5. \A i \in 1..Len(rest) : rest[i] = "grid" =>
        kind = "grid" /\ (owed \in Ungrids \/ \E j \in 1..Len(rest) : j < i /\ rest[j] = "hide")
  <2> SUFFICES ASSUME NEW i \in 1..Len(rest), rest[i] = "grid"
               PROVE  kind = "grid" /\ (owed \in Ungrids \/ \E j \in 1..Len(rest) : j < i /\ rest[j] = "hide")
    OBVIOUS
  <2>1. todo[i + 1] = "grid" /\ i + 1 \in 1..Len(todo)
    BY <1>1
  <2>2. kind = "grid" /\ (final \in Ungrids \/ \E j \in 1..Len(todo) : j < i + 1 /\ todo[j] = "hide")
    BY <2>1 DEF Ordered
  <2>3. CASE Head(todo) = "hide"
    BY <2>2, <2>3
  <2>4. CASE Head(todo) # "hide"
    <3>1. CASE final \in Ungrids
      BY <2>2, <2>4, <3>1
    <3>2. CASE \E j \in 1..Len(todo) : j < i + 1 /\ todo[j] = "hide"
      <4>1. PICK j \in 1..Len(todo) : j < i + 1 /\ todo[j] = "hide"
        BY <3>2
      <4>2. j # 1
        BY <1>1, <2>4, <4>1
      <4>3. j - 1 \in 1..Len(rest) /\ j - 1 < i /\ rest[j - 1] = "hide"
        BY <1>1, <4>1, <4>2
      <4> QED
        BY <2>2, <4>3
    <3> QED
      BY <2>2, <3>1, <3>2
  <2> QED
    BY <2>3, <2>4
<1>6. CASE todo \in Finals
  <2>1. todo = <<"ungrid", "show">> /\ kind = "grid" /\ final = <<>>
    <3>1. \A a : Tail(<<a>>) = <<>>
      OBVIOUS
    <3> QED
      BY <1>6, <3>1 DEF Ordered, Finals, Ungrids, Shows
  <2>2. Tail(<<"ungrid", "show">>) = <<"show">> /\ Head(<<"ungrid", "show">>) = "ungrid"
    OBVIOUS
  <2>3. rest = <<"show">> /\ owed = <<>>
    BY <2>1, <2>2
  <2>4. <<"show">> \in Finals
    BY DEF Finals, Shows
  <2> QED
    BY <2>1, <2>3, <2>4, FinalsAreOrdered
<1>7. CASE todo \notin Finals
  <2>1. \A i \in 1..Len(rest) : rest[i] \notin {"ungrid", "show"}
    <3>1. \A i \in 1..Len(todo) : todo[i] \notin {"ungrid", "show"}
      BY <1>7 DEF Ordered
    <3> QED
      BY <1>1, <3>1
  <2>2. rest \notin Finals \union {<<>>}
    <3>1. Len(rest) > 0 /\ 1 \in 1..Len(rest)
      BY <1>1
    <3> QED
      BY <2>1, <3>1, NoFinal
  <2>3. rest \notin Ungrids
    BY <2>2 DEF Finals
  <2>4. owed \in Ungrids => kind = "grid"
    BY DEF Ordered
  <2> QED
    BY <1>2, <1>3, <1>4, <1>5, <2>1, <2>2, <2>3, <2>4 DEF Ordered
<1> QED
  BY <1>6, <1>7

LEMMA InputInitially == Input!Init => InputInv
<1> SUFFICES ASSUME Input!Init
             PROVE  InputInv
  OBVIOUS
<1>1. action = [tab |-> None, kind |-> "none", view |-> None, todo |-> <<>>, final |-> <<>>]
      /\ held = {} /\ dressed = {}
  BY DEF Input!Init, Input!Idle
<1>2. <<>> \in Seq(Commands) /\ <<>> \in Finals \union {<<>>}
  OBVIOUS
<1>3. Calling(action)
  BY <1>1, <1>2 DEF Calling
<1>4. <<>> \notin Ungrids
  BY DEF Ungrids
<1>5. Ordered("none", <<>>, <<>>)
  BY <1>2, <1>4, FinalsAreOrdered
<1> QED
  BY <1>1, <1>3, <1>5 DEF InputInv, Owed

LEMMA InputStutter ==
  ASSUME InputInv, UNCHANGED <<held, dressed, action, stuck>>
  PROVE  InputInv'
BY DEF InputInv, Calling, Owed, Releasing, Removing

(* What a step of the script makes of the call.                              *)
LEMMA CallFields ==
  ASSUME NEW it, Calling(it)
  PROVE  it.todo \in Seq(Commands) /\ it.final \in Finals \union {<<>>}
BY DEF Calling

LEMMA FinalsAreCommands ==
  ASSUME NEW final \in Finals \union {<<>>}
  PROVE  final \in Seq(Commands)
<1>1. <<"ungrid">> \in Seq(Commands) /\ <<"show">> \in Seq(Commands)
      /\ <<"ungrid", "show">> \in Seq(Commands) /\ <<>> \in Seq(Commands)
  BY DEF Commands
<1> QED
  BY <1>1 DEF Finals, Ungrids, Shows

LEMMA CallAfter ==
  ASSUME InputInv, action.todo # <<>>, NEW after, after = Input!Done(action)
  PROVE  /\ Calling(after) /\ after.tab = action.tab /\ after.kind = action.kind
         /\ after.todo = IF Tail(action.todo) # <<>> THEN Tail(action.todo) ELSE action.final
         /\ after.final = IF Tail(action.todo) # <<>> THEN action.final ELSE <<>>
<1>1. PICK tab, kind, view : \E todo \in Seq(Commands) : \E final \in Finals \union {<<>>} :
        action = [tab |-> tab, kind |-> kind, view |-> view, todo |-> todo, final |-> final]
  BY DEF InputInv, Calling
<1>2. PICK todo \in Seq(Commands), final \in Finals \union {<<>>} :
        action = [tab |-> tab, kind |-> kind, view |-> view, todo |-> todo, final |-> final]
  BY <1>1
<1>3. action.tab = tab /\ action.kind = kind /\ action.todo = todo /\ action.final = final
  BY <1>2
<1>4. Tail(todo) \in Seq(Commands) /\ final \in Seq(Commands) /\ <<>> \in Finals \union {<<>>}
  <2>2. final \in Seq(Commands)
    BY <1>2, FinalsAreCommands
  <2>3. todo # <<>> /\ todo \in Seq(Commands)
    BY <1>2, <1>3
  <2> QED
    BY <2>2, <2>3
<1>5. CASE Tail(todo) # <<>>
  <2>1. after = [tab |-> tab, kind |-> kind, view |-> view, todo |-> Tail(todo), final |-> final]
    BY <1>2, <1>5 DEF Input!Done
  <2>2. Calling(after)
    BY <1>2, <1>4, <2>1 DEF Calling
  <2> QED
    BY <1>3, <1>5, <2>1, <2>2
<1>6. CASE Tail(todo) = <<>>
  <2>1. after = [tab |-> tab, kind |-> kind, view |-> view, todo |-> final, final |-> <<>>]
    BY <1>2, <1>6 DEF Input!Done
  <2>2. Calling(after)
    BY <1>2, <1>4, <2>1 DEF Calling
  <2> QED
    BY <1>3, <1>6, <2>1, <2>2
<1> QED
  BY <1>5, <1>6

(* A command other than "hide" is done.                                      *)
Proceeds ==
  /\ Calling(action') /\ action'.tab = action.tab /\ action'.kind = action.kind
  /\ action'.todo = IF Tail(action.todo) # <<>> THEN Tail(action.todo) ELSE action.final
  /\ action'.final = IF Tail(action.todo) # <<>> THEN action.final ELSE <<>>

LEMMA StaysOrdered ==
  ASSUME InputInv, action.todo # <<>>, Head(action.todo) # "hide", Proceeds
  PROVE  Ordered(action'.kind, action'.todo, action'.final)
<1>1. /\ action.todo \in Seq(Commands) /\ action.final \in Finals \union {<<>>}
      /\ Ordered(action.kind, action.todo, action.final)
  BY CallFields DEF InputInv
<1>2. CASE Tail(action.todo) # <<>>
  BY <1>1, <1>2, RestIsOrdered DEF Proceeds
<1>3. CASE Tail(action.todo) = <<>>
  <2>1. action.final \in Ungrids => action.kind = "grid"
    BY <1>1 DEF Ordered
  <2> QED
    BY <1>1, <1>3, <2>1, FinalsAreOrdered DEF Proceeds
<1> QED
  BY <1>2, <1>3

(* What is owed is still to come after any command but the one that does it. *)
LEMMA StillToCome ==
  ASSUME InputInv, action.todo # <<>>, Proceeds
  PROVE  /\ \A t \in Tabs : Releasing(t) /\ Head(action.todo) # "release" => Releasing(t)'
         /\ \A t \in Tabs : Removing(t, Shows) /\ Head(action.todo) # "show" => Removing(t, Shows)'
         /\ \A t \in Tabs : Removing(t, Ungrids) /\ Head(action.todo) # "ungrid" => Removing(t, Ungrids)'
         /\ Head(action.todo) = "press" => Releasing(action.tab)'
         /\ Head(action.todo) = "grid" => Removing(action.tab, Ungrids)'
<1>1. /\ action.todo \in Seq(Commands) /\ Ordered(action.kind, action.todo, action.final)
  BY CallFields DEF InputInv
<1>2. /\ Len(Tail(action.todo)) = Len(action.todo) - 1 /\ Len(action.todo) \in Nat
      /\ Head(action.todo) = action.todo[1] /\ 1 \in 1..Len(action.todo)
      /\ \A i \in 1..Len(action.todo) : i # 1 =>
           i - 1 \in 1..Len(Tail(action.todo)) /\ action.todo[i] = Tail(action.todo)[i - 1]
  BY <1>1
<1>14. \A i \in 1..Len(action.todo) : i # 1 => Tail(action.todo) # <<>>
  <2>1. \A s : s = <<>> => Len(s) = 0
    BY Explicit
  <2>2. \A i \in 1..Len(action.todo) : i # 1 => Len(Tail(action.todo)) # 0
    BY <1>2
  <2> QED
    BY <2>1, <2>2
<1>3. ASSUME NEW i \in 1..Len(action.todo), i # 1, action.todo[i] = "release", action.kind # "grid"
      PROVE  \E j \in 1..Len(action'.todo) : action'.todo[j] = "release"
  BY <1>2, <1>3, <1>14 DEF Proceeds
<1>4. \A t \in Tabs : Releasing(t) /\ Head(action.todo) # "release" => Releasing(t)'
  BY <1>2, <1>3 DEF Releasing, Proceeds
<1>5. Head(action.todo) = "press" => Releasing(action.tab)'
  <2>1. Head(action.todo) = "press" =>
          action.kind # "grid" /\ \E j \in 1..Len(action.todo) : 1 < j /\ action.todo[j] = "release"
    BY <1>1, <1>2 DEF Ordered
  <2> QED
    <3>1. ASSUME Head(action.todo) = "press"
          PROVE  Releasing(action.tab)'
      <4>1. PICK j \in 1..Len(action.todo) : 1 < j /\ action.todo[j] = "release"
        BY <2>1, <3>1
      <4>2. action.kind # "grid" /\ j # 1
        BY <2>1, <3>1, <4>1
      <4> QED
        BY <1>3, <4>1, <4>2 DEF Releasing, Proceeds
    <3> QED
      BY <3>1
<1>6. /\ \A a : Tail(<<a>>) = <<>> /\ Head(<<a>>) = a
      /\ Tail(<<"ungrid", "show">>) = <<"show">> /\ Head(<<"ungrid", "show">>) = "ungrid"
      /\ <<"show">> # <<>>
  OBVIOUS
<1>7. action.todo \in Shows /\ Head(action.todo) # "show" => action'.todo \in Shows
  BY <1>6 DEF Shows, Proceeds
<1>8. action.final \in Shows => action'.final \in Shows \/ action'.todo \in Shows
  BY DEF Proceeds
<1>9. action.todo \in Ungrids => Head(action.todo) = "ungrid"
  BY <1>6 DEF Ungrids
<1>10. action.final \in Ungrids => action'.final \in Ungrids \/ action'.todo \in Ungrids
  BY DEF Proceeds
<1>11. \A t \in Tabs : Removing(t, Shows) /\ Head(action.todo) # "show" => Removing(t, Shows)'
  BY <1>7, <1>8 DEF Removing, Proceeds
<1>12. \A t \in Tabs : Removing(t, Ungrids) /\ Head(action.todo) # "ungrid" => Removing(t, Ungrids)'
  BY <1>9, <1>10 DEF Removing, Proceeds
<1>13. Head(action.todo) = "grid" => Removing(action.tab, Ungrids)'
  <2>1. Head(action.todo) = "grid" =>
          action.final \in Ungrids \/ \E j \in 1..Len(action.todo) : j < 1 /\ action.todo[j] = "hide"
    BY <1>1, <1>2 DEF Ordered
  <2>2. ~ \E j \in 1..Len(action.todo) : j < 1
    BY <1>2
  <2> QED
    BY <1>10, <2>1, <2>2 DEF Removing, Proceeds
<1> QED
  BY <1>4, <1>5, <1>11, <1>12, <1>13

LEMMA Proceeding ==
  ASSUME InputInv, NEW step, Input!Doing(step), NEW after, after = Input!Done(action),
         action' = after \/ \E view : action' = [after EXCEPT !.view = view]
  PROVE  action.todo # <<>> /\ Head(action.todo) = step /\ Proceeds
<1>1. action.todo # <<>> /\ Head(action.todo) = step
  BY DEF Input!Doing
<1>2. /\ Calling(after) /\ after.tab = action.tab /\ after.kind = action.kind
      /\ after.todo = IF Tail(action.todo) # <<>> THEN Tail(action.todo) ELSE action.final
      /\ after.final = IF Tail(action.todo) # <<>> THEN action.final ELSE <<>>
  BY <1>1, CallAfter
<1>3. Calling(action') /\ action'.tab = after.tab /\ action'.kind = after.kind
      /\ action'.todo = after.todo /\ action'.final = after.final
  <2>1. CASE action' = after
    BY <1>2, <2>1
  <2>2. ASSUME NEW view, action' = [after EXCEPT !.view = view]
        PROVE  Calling(action') /\ action'.tab = after.tab /\ action'.kind = after.kind
               /\ action'.todo = after.todo /\ action'.final = after.final
    <3>1. PICK tab, kind, view1 : \E todo \in Seq(Commands) : \E final \in Finals \union {<<>>} :
            after = [tab |-> tab, kind |-> kind, view |-> view1, todo |-> todo, final |-> final]
      BY <1>2 DEF Calling
    <3>2. PICK todo \in Seq(Commands), final \in Finals \union {<<>>} :
            after = [tab |-> tab, kind |-> kind, view |-> view1, todo |-> todo, final |-> final]
      BY <3>1
    <3>3. action' = [tab |-> tab, kind |-> kind, view |-> view, todo |-> todo, final |-> final]
      BY <2>2, <3>2
    <3>4. Calling(action')
      BY <3>3 DEF Calling
    <3> QED
      BY <3>2, <3>3, <3>4
  <2> QED
    BY <2>1, <2>2
<1> QED
  BY <1>1, <1>2, <1>3 DEF Proceeds

(* The commands between which nothing is owed that was not before.           *)
LEMMA Passes ==
  ASSUME InputInv, NEW step, Input!Doing(step), step \notin {"hide", "press", "release", "grid", "ungrid", "show"},
         Proceeds, UNCHANGED <<held, dressed, stuck>>
  PROVE  InputInv'
<1>1. action.todo # <<>> /\ Head(action.todo) = step
  BY DEF Input!Doing
<1>2. Ordered(action.kind, action.todo, action.final)' /\ Calling(action)'
  BY <1>1, StaysOrdered DEF Proceeds
<1>3. Owed'
  BY <1>1, StillToCome DEF Owed, InputInv
<1> QED
  BY <1>2, <1>3 DEF InputInv

LEMMA PassesView == ASSUME InputInv, Input!View \/ Input!Capture \/ Input!Other PROVE InputInv'
<1>1. PICK step \in {"view", "capture", "move", "insert", "find"} : Input!Doing(step)
  BY DEF Input!View, Input!Capture, Input!Other
<1>2. /\ action' = Input!Done(action) \/ \E view : action' = [Input!Done(action) EXCEPT !.view = view]
      /\ UNCHANGED <<held, dressed, stuck>>
  BY DEF Input!View, Input!Capture, Input!Other
<1>3. Proceeds
  BY <1>1, <1>2, Proceeding
<1> QED
  BY <1>1, <1>2, <1>3, Passes

LEMMA Presses ==
  ASSUME InputInv, Input!Press
  PROVE  InputInv'
<1>1. Input!Doing("press") /\ action' = Input!Done(action) /\ held' = held \union {action.tab}
      /\ UNCHANGED <<dressed, stuck>>
  BY DEF Input!Press
<1>2. action.todo # <<>> /\ Head(action.todo) = "press" /\ Proceeds
  BY <1>1, Proceeding
<1>3. Ordered(action.kind, action.todo, action.final)' /\ Calling(action)'
  BY <1>2, StaysOrdered DEF Proceeds
<1>4. Releasing(action.tab)' /\ action'.tab = action.tab
  BY <1>2, StillToCome DEF Proceeds
<1>5. Owed'
  <2>1. \A t \in Tabs : t = action.tab => Releasing(t)'
    BY <1>4 DEF Releasing
  <2> QED
    BY <1>1, <1>2, <2>1, StillToCome DEF Owed, InputInv
<1> QED
  BY <1>3, <1>5 DEF InputInv

LEMMA Releases ==
  ASSUME InputInv, Input!Release
  PROVE  InputInv'
<1>1. /\ Input!Doing("release") /\ action' = Input!Done(action) /\ UNCHANGED dressed
      /\ \/ held' = held \ {action.tab} /\ stuck' = stuck \ {<<action.tab, "held">>}
         \/ <<action.tab, "held">> \in stuck /\ UNCHANGED <<held, stuck>>
  BY DEF Input!Release
<1>2. action.todo # <<>> /\ Head(action.todo) = "release" /\ Proceeds
  BY <1>1, Proceeding
<1>3. Ordered(action.kind, action.todo, action.final)' /\ Calling(action)'
  BY <1>2, StaysOrdered DEF Proceeds
<1>4. Owed'
  <2>1. \A t \in Tabs : /\ <<t, "bare">> \in stuck => <<t, "bare">> \in stuck'
                        /\ <<t, "grid">> \in stuck => <<t, "grid">> \in stuck'
                        /\ t # action.tab /\ <<t, "held">> \in stuck => <<t, "held">> \in stuck'
                        /\ t = action.tab /\ t \in held' => <<t, "held">> \in stuck'
                        /\ t \in held' => t \in held
    BY <1>1
  <2>2. \A t \in Tabs : /\ Removing(t, Shows) => Removing(t, Shows)'
                        /\ Removing(t, Ungrids) => Removing(t, Ungrids)'
                        /\ Releasing(t) => t = action.tab
    BY <1>2, StillToCome DEF Releasing
  <2> QED
    BY <1>1, <2>1, <2>2 DEF Owed, InputInv
<1> QED
  BY <1>3, <1>4 DEF InputInv

LEMMA Dresses ==
  ASSUME InputInv, NEW step \in {"grid", "ungrid", "show"}, Input!Dress(step)
  PROVE  InputInv'
<1>1. /\ Input!Doing(step) /\ action' = Input!Done(action) /\ UNCHANGED held
      /\ step = "grid" => dressed' = dressed \union {<<action.tab, "grid">>} /\ stuck' = stuck
      /\ step = "ungrid" => dressed' = dressed \ {<<action.tab, "grid">>} /\ stuck' = stuck \ {<<action.tab, "grid">>}
      /\ step = "show" => dressed' = dressed \ {<<action.tab, "bare">>} /\ stuck' = stuck \ {<<action.tab, "bare">>}
  BY DEF Input!Dress
<1>2. action.todo # <<>> /\ Head(action.todo) = step /\ Proceeds
  BY <1>1, Proceeding
<1>3. Ordered(action.kind, action.todo, action.final)' /\ Calling(action)'
  BY <1>2, StaysOrdered DEF Proceeds
<1>4. Owed'
  <2>1. CASE step = "grid"
    <3>1. \A t \in Tabs : t = action.tab => Removing(t, Ungrids)'
      BY <1>2, <2>1, StillToCome DEF Removing, Proceeds
    <3> QED
      BY <1>1, <1>2, <2>1, <3>1, StillToCome DEF Owed, InputInv
  <2>2. CASE step = "ungrid"
    <3>1. \A t \in Tabs : /\ <<t, "bare">> \in stuck => <<t, "bare">> \in stuck'
                          /\ <<t, "held">> \in stuck => <<t, "held">> \in stuck'
                          /\ <<t, "bare">> \in dressed' => <<t, "bare">> \in dressed
                          /\ <<t, "grid">> \in dressed' => <<t, "grid">> \in dressed /\ t # action.tab
                          /\ t # action.tab /\ <<t, "grid">> \in stuck => <<t, "grid">> \in stuck'
      BY <1>1, <2>2
    <3>2. \A t \in Tabs : /\ Removing(t, Shows) => Removing(t, Shows)'
                          /\ Removing(t, Ungrids) => t = action.tab
                          /\ Releasing(t) => Releasing(t)'
      BY <1>2, <2>2, StillToCome DEF Removing
    <3> QED
      BY <1>1, <3>1, <3>2 DEF Owed, InputInv
  <2>3. CASE step = "show"
    <3>1. \A t \in Tabs : /\ <<t, "grid">> \in stuck => <<t, "grid">> \in stuck'
                          /\ <<t, "held">> \in stuck => <<t, "held">> \in stuck'
                          /\ <<t, "grid">> \in dressed' => <<t, "grid">> \in dressed
                          /\ <<t, "bare">> \in dressed' => <<t, "bare">> \in dressed /\ t # action.tab
                          /\ t # action.tab /\ <<t, "bare">> \in stuck => <<t, "bare">> \in stuck'
      BY <1>1, <2>3
    <3>2. \A t \in Tabs : /\ Removing(t, Ungrids) => Removing(t, Ungrids)'
                          /\ Removing(t, Shows) => t = action.tab
                          /\ Releasing(t) => Releasing(t)'
      BY <1>2, <2>3, StillToCome DEF Removing
    <3> QED
      BY <1>1, <3>1, <3>2 DEF Owed, InputInv
  <2> QED
    BY <2>1, <2>2, <2>3
<1> QED
  BY <1>3, <1>4 DEF InputInv

LEMMA Hides ==
  ASSUME InputInv, Input!Hide
  PROVE  InputInv'
<1>1. /\ Input!Doing("hide") /\ UNCHANGED <<held, stuck>>
      /\ \E visible \in BOOLEAN :
           /\ action' = [Input!Done(action) EXCEPT !.final = Input!Final(action.kind, visible)]
           /\ visible => dressed' = dressed \union {<<action.tab, "bare">>}
           /\ ~visible => dressed' = dressed
  BY DEF Input!Hide
<1>2. PICK visible \in BOOLEAN :
        /\ action' = [Input!Done(action) EXCEPT !.final = Input!Final(action.kind, visible)]
        /\ visible => dressed' = dressed \union {<<action.tab, "bare">>}
        /\ ~visible => dressed' = dressed
  BY <1>1
<1> DEFINE final == Input!Final(action.kind, visible)
           todo == action.todo
<1>3. /\ final \in Finals \union {<<>>}
      /\ final \in Shows <=> visible
      /\ final \in Ungrids <=> action.kind = "grid"
  BY <1>2, FinalIs
<1>4. /\ todo \in Seq(Commands) /\ todo # <<>> /\ Head(todo) = "hide"
      /\ action.final \in Finals \union {<<>>} /\ Ordered(action.kind, todo, action.final)
  BY <1>1, CallFields DEF InputInv, Input!Doing
<1>5. /\ todo[1] = "hide" /\ 1 \in 1..Len(todo) /\ Len(todo) \in Nat /\ Len(Tail(todo)) = Len(todo) - 1
      /\ \A i \in 1..Len(todo) : i # 1 => Tail(todo)[i - 1] = todo[i] /\ i - 1 \in 1..Len(Tail(todo))
  <2> HIDE DEF todo
  <2> QED
    BY <1>4
<1>6. Tail(todo) # <<>> /\ action.final = <<>> /\ todo \notin Finals
  <2>1. 1 # Len(todo) /\ action.final = <<>>
    BY <1>4, <1>5 DEF Ordered
  <2>2. Len(Tail(todo)) # 0
    BY <1>5, <2>1
  <2>3. \A s : s = <<>> => Len(s) = 0
    BY Explicit
  <2>4. todo \notin Finals
    BY <1>5, NoFinal
  <2> QED
    BY <2>1, <2>2, <2>3, <2>4
<1> DEFINE after == Input!Done(action)
<1>7. /\ Calling(after) /\ after.tab = action.tab /\ after.kind = action.kind /\ after.todo = Tail(todo)
  BY <1>4, <1>6, CallAfter
<1>8. action' = [after EXCEPT !.final = final]
  BY <1>2
<1> HIDE DEF final, todo, after
<1>9. /\ Calling(action') /\ action'.tab = action.tab /\ action'.kind = action.kind
      /\ action'.todo = Tail(todo) /\ action'.final = final
  <2>1. PICK tab, kind, view : \E todo1 \in Seq(Commands) : \E final1 \in Finals \union {<<>>} :
          after = [tab |-> tab, kind |-> kind, view |-> view, todo |-> todo1, final |-> final1]
    BY <1>7 DEF Calling
  <2>2. PICK todo1 \in Seq(Commands), final1 \in Finals \union {<<>>} :
          after = [tab |-> tab, kind |-> kind, view |-> view, todo |-> todo1, final |-> final1]
    BY <2>1
  <2>3. action' = [tab |-> tab, kind |-> kind, view |-> view, todo |-> todo1, final |-> final]
    BY <1>8, <2>2
  <2>4. Calling(action')
    BY <1>3, <2>3 DEF Calling
  <2> QED
    BY <1>7, <2>2, <2>3, <2>4
<1>10. Ordered(action.kind, action.todo, action.final)'
  <2>1. Ordered(action.kind, Tail(todo), final)
    BY <1>3, <1>4, <1>6, RestIsOrdered
  <2> QED
    BY <1>9, <2>1
<1>11. Owed'
  <2>1. \A t \in Tabs : Releasing(t) => Releasing(t)'
    <3> SUFFICES ASSUME NEW t \in Tabs, Releasing(t)
                 PROVE  Releasing(t)'
      OBVIOUS
    <3>1. PICK i \in 1..Len(todo) : todo[i] = "release"
      BY DEF Releasing, todo
    <3>2. i - 1 \in 1..Len(Tail(todo)) /\ Tail(todo)[i - 1] = "release"
      BY <1>5, <3>1
    <3> QED
      BY <1>9, <3>2 DEF Releasing
  <2>2. \A t \in Tabs : ~Removing(t, Shows) /\ ~Removing(t, Ungrids)
    <3>1. action.final = <<>> /\ action.todo \notin Finals
      BY <1>6 DEF todo
    <3>2. <<>> \notin Shows /\ <<>> \notin Ungrids
      BY DEF Shows, Ungrids
    <3> QED
      BY <3>1, <3>2 DEF Removing, Finals
  <2>3. visible => \A t \in Tabs : t = action.tab => Removing(t, Shows)'
    BY <1>3, <1>9 DEF Removing
  <2>4. \A t \in Tabs : /\ t \in held => <<t, "held">> \in stuck \/ Releasing(t)
                        /\ <<t, "bare">> \in dressed => <<t, "bare">> \in stuck
                        /\ <<t, "grid">> \in dressed => <<t, "grid">> \in stuck
    BY <2>2 DEF Owed, InputInv
  <2>5. \A t \in Tabs : /\ <<t, "grid">> \in dressed' => <<t, "grid">> \in dressed
                        /\ <<t, "bare">> \in dressed' => <<t, "bare">> \in dressed \/ (visible /\ t = action.tab)
    BY <1>2
  <2>6. held' = held /\ stuck' = stuck
    BY <1>1
  <2> QED
    BY <2>1, <2>3, <2>4, <2>5, <2>6 DEF Owed
<1> QED
  BY <1>9, <1>10, <1>11 DEF InputInv

(* After a command that fails the call's finally part is still to come; of   *)
(* what is not to be put right there, a failure is the reason.               *)
LEMMA InputFails ==
  ASSUME InputInv, Input!Fail
  PROVE  InputInv'
<1>1. /\ action.todo # <<>> /\ Head(action.todo) \notin {"hide", "show"}
      /\ action' = [action EXCEPT !.todo = action.final, !.final = <<>>]
      /\ UNCHANGED <<held, dressed>>
      /\ stuck' = stuck \union Input!Remains
  BY DEF Input!Fail
<1>2. /\ action.final \in Finals \union {<<>>} /\ Ordered(action.kind, action.todo, action.final)
      /\ Calling(action)
  BY CallFields DEF InputInv
<1>3. /\ Calling(action') /\ action'.tab = action.tab /\ action'.kind = action.kind
      /\ action'.todo = action.final /\ action'.final = <<>>
  <2>1. PICK tab, kind, view : \E todo \in Seq(Commands) : \E final \in Finals \union {<<>>} :
          action = [tab |-> tab, kind |-> kind, view |-> view, todo |-> todo, final |-> final]
    BY <1>2 DEF Calling
  <2>2. PICK todo \in Seq(Commands), final \in Finals \union {<<>>} :
          action = [tab |-> tab, kind |-> kind, view |-> view, todo |-> todo, final |-> final]
    BY <2>1
  <2>3. action' = [tab |-> tab, kind |-> kind, view |-> view, todo |-> final, final |-> <<>>]
    BY <1>1, <2>2
  <2>4. final \in Seq(Commands) /\ <<>> \in Finals \union {<<>>}
    BY <2>2, FinalsAreCommands
  <2>5. Calling(action')
    BY <2>3, <2>4 DEF Calling
  <2> QED
    BY <2>2, <2>3, <2>5
<1>4. Ordered(action.kind, action.todo, action.final)'
  <2>1. action.final \in Ungrids => action.kind = "grid"
    BY <1>2 DEF Ordered
  <2>2. Ordered(action.kind, action.final, <<>>)
    BY <1>2, <2>1, FinalsAreOrdered
  <2> QED
    BY <1>3, <2>2
<1>5. Owed'
  <2>1. \A a : Head(<<a>>) = a
    OBVIOUS
  <2>2. action.todo \in Shows \union Ungrids => Head(action.todo) = "ungrid"
    <3>1. Head(<<"ungrid", "show">>) = "ungrid"
      OBVIOUS
    <3> QED
      BY <1>1, <2>1, <3>1 DEF Shows, Ungrids
  <2>3. \A t \in Tabs : t = action.tab /\ action.final \in Shows => Removing(t, Shows)'
    BY <1>3 DEF Removing
  <2>4. \A t \in Tabs : t = action.tab /\ action.final \in Ungrids => Removing(t, Ungrids)'
    BY <1>3 DEF Removing
  <2>5. ASSUME NEW t \in Tabs, NEW what, <<t, what>> \in dressed, t = action.tab, Head(action.todo) = "ungrid"
        PROVE  <<t, what>> \in stuck'
    <3>1. <<t, what>>[1] = action.tab
      BY <2>5
    <3> QED
      BY <1>1, <2>5, <3>1 DEF Input!Remains
  <2>6. \A t \in Tabs : <<t, "bare">> \in dressed /\ Removing(t, Shows) => <<t, "bare">> \in stuck' \/ Removing(t, Shows)'
    BY <2>2, <2>3, <2>5 DEF Removing
  <2>7. \A t \in Tabs : <<t, "grid">> \in dressed /\ Removing(t, Ungrids) => <<t, "grid">> \in stuck' \/ Removing(t, Ungrids)'
    BY <2>2, <2>4, <2>5 DEF Removing
  <2>8. \A t \in Tabs : t \in held /\ Releasing(t) => <<t, "held">> \in stuck'
    BY <1>1 DEF Releasing, Input!Remains
  <2>9. stuck \subseteq stuck'
    BY <1>1
  <2> QED
    BY <1>1, <2>6, <2>7, <2>8, <2>9 DEF Owed, InputInv
<1> QED
  BY <1>3, <1>4, <1>5 DEF InputInv

(* Nothing is owed by a call that has done all, nor before one begins.       *)
LEMMA NothingOwed ==
  ASSUME InputInv, action.todo = <<>>
  PROVE  \A t \in Tabs : ~Releasing(t) /\ ~Removing(t, Shows) /\ ~Removing(t, Ungrids)
<1>1. <<>> \notin Shows /\ <<>> \notin Ungrids
  BY DEF Shows, Ungrids
<1>2. action.final = <<>>
  BY DEF InputInv, Ordered
<1>3. Len(action.todo) = 0
  BY Explicit
<1> QED
  BY <1>1, <1>2, <1>3 DEF Releasing, Removing

LEMMA InputCalls ==
  ASSUME InputInv, NEW t \in Tabs, NEW kind \in Input!Kinds, Input!Call(t, kind)
  PROVE  InputInv'
<1> DEFINE lines == Input!Script(kind)
<1>1. /\ lines \in Seq(Commands) /\ Ordered(kind, lines, <<>>)
      /\ <<>> \in Finals \union {<<>>}
  BY ScriptsAreOrdered
<1>2. /\ action = Input!Idle /\ action' = [Input!Idle EXCEPT !.tab = t, !.kind = kind, !.todo = lines]
      /\ UNCHANGED <<held, dressed, stuck>>
  BY DEF Input!Call
<1> HIDE DEF lines
<1>3. action' = [tab |-> t, kind |-> kind, view |-> None, todo |-> lines, final |-> <<>>]
      /\ action.todo = <<>>
  BY <1>2 DEF Input!Idle
<1>4. Calling(action')
  BY <1>1, <1>3 DEF Calling
<1>5. Owed'
  BY <1>2, <1>3, NothingOwed DEF Owed, InputInv
<1> QED
  BY <1>1, <1>3, <1>4, <1>5 DEF InputInv

LEMMA Returns ==
  ASSUME InputInv, Input!Return
  PROVE  InputInv'
<1>1. action' = [tab |-> None, kind |-> "none", view |-> None, todo |-> <<>>, final |-> <<>>]
      /\ action.todo = <<>> /\ UNCHANGED <<held, dressed, stuck>>
  BY DEF Input!Return, Input!Idle
<1>2. <<>> \in Seq(Commands) /\ <<>> \in Finals \union {<<>>}
  OBVIOUS
<1>3. Calling(action')
  BY <1>1, <1>2 DEF Calling
<1>4. <<>> \notin Ungrids
  BY DEF Ungrids
<1>5. Ordered("none", <<>>, <<>>)
  BY <1>2, <1>4, FinalsAreOrdered
<1>6. Owed'
  BY <1>1, NothingOwed DEF Owed, InputInv
<1> QED
  BY <1>1, <1>3, <1>5, <1>6 DEF InputInv

LEMMA InputStep ==
  ASSUME InputInv, Input!Next
  PROVE  InputInv'
<1>1. ASSUME NEW t \in Tabs, NEW kind \in Input!Kinds, Input!Call(t, kind)
      PROVE  InputInv'
  BY <1>1, InputCalls
<1>2. ASSUME NEW step \in {"grid", "ungrid", "show"}, Input!Dress(step)
      PROVE  InputInv'
  BY <1>2, Dresses
<1>3. ASSUME NEW t \in Tabs, NEW size \in Sizes, Input!Resize(t, size)
      PROVE  InputInv'
  BY <1>3, InputStutter DEF Input!Resize
<1>4. CASE Input!WorkerStops
  BY <1>4, InputStutter DEF Input!WorkerStops
<1> QED
  BY <1>1, <1>2, <1>3, <1>4, PassesView, Hides, Presses, Releases, InputFails, Returns DEF Input!Next

(* After a call of the computer tool no button is down, no grid is drawn and *)
(* the indicator is not hidden, but for a button whose release, or a command *)
(* between press and release, has failed since the last release, and for the *)
(* grid and the indicator that a failed removal of the grid has left.        *)
THEOREM CallsLeaveNoTrace == Spec => []LeavesNoTrace
<1> DEFINE Inv == InputInv
<1>1. Init => Inv
  BY InputInitially DEF Init
<1>2. Inv /\ [Next]_vars => Inv'
  <2>1. Next => Input!Next \/ UNCHANGED inputVars
    BY DEF Next
  <2>2. UNCHANGED vars => UNCHANGED inputVars
    BY DEF vars
  <2>3. UNCHANGED inputVars => UNCHANGED <<held, dressed, action, stuck>>
    BY DEF inputVars
  <2> QED
    BY <2>1, <2>2, <2>3, InputStep, InputStutter
<1>3. Inv => LeavesNoTrace
  <2>1. action = Input!Idle => action.todo = <<>>
    BY DEF Input!Idle
  <2> QED
    BY <2>1, NothingOwed DEF InputInv, Owed, LeavesNoTrace, Input!LeavesNoTrace
<1> QED
  BY <1>1, <1>2, <1>3, PTL DEF Spec
-----------------------------------------------------------------------------
(***************************************************************************)
(* ComputerInput: where a call goes.  Math.round, and what it does to a    *)
(* place of one edge: size pixels of the viewport of which the image has   *)
(* shown, and is taken to have taken.                                       *)
(***************************************************************************)
LEMMA Rounding ==
  ASSUME NEW n \in Nat, NEW d \in Nat \ {0}
  PROVE  /\ Input!Round(n, d) \in Nat
         /\ 2 * (d * Input!Round(n, d)) <= 2 * n + d /\ 2 * n < 2 * (d * Input!Round(n, d)) + d
<1> DEFINE m == 2 * n + d
           e == 2 * d
           q == m \div e
<1>1. m \in Nat /\ e \in Nat \ {0}
  OBVIOUS
<1>2. q \in Nat /\ e * q <= m /\ m < e * q + e
  <2> HIDE DEF m, e
  <2> QED
    BY <1>1
<1>3. e * q = 2 * (d * q)
  <2>1. q \in Nat
    BY <1>2
  <2> HIDE DEF q
  <2> QED
    BY <2>1
<1>4. q = Input!Round(n, d)
  BY DEF Input!Round
<1> HIDE DEF q
<1>5. 2 * (d * q) \in Nat
  BY <1>2
<1> QED
  BY <1>2, <1>3, <1>4, <1>5

(* The quotient is the only number between the bounds.                       *)
LEMMA RoundingIs ==
  ASSUME NEW n \in Nat, NEW d \in Nat \ {0}, NEW k \in Nat, 2 * n < 2 * (d * k) + d
  PROVE  Input!Round(n, d) <= k
<1> DEFINE r == Input!Round(n, d)
<1>1. r \in Nat /\ 2 * (d * r) <= 2 * n + d
  BY Rounding
<1> HIDE DEF r
<1>2. ASSUME k + 1 <= r
      PROVE  FALSE
  <2>1. d * (k + 1) <= d * r
    BY <1>1, <1>2
  <2>2. d * (k + 1) = d * k + d /\ d * k \in Nat /\ d * r \in Nat
    BY <1>1
  <2> QED
    BY <1>1, <2>1, <2>2
<1> QED
  BY <1>1, <1>2 DEF r

LEMMA Lands ==
  ASSUME NEW size \in Nat \ {0}, NEW taken \in Nat \ {0}, NEW shown \in Nat \ {0},
         taken <= size, taken - shown \in 0..2, NEW at \in 0..(shown - 1)
  PROVE  /\ Input!Round(at * size, taken) \in 0..(size - 1)
         /\ Input!Distance(Input!Round(at * size, taken) * shown, at * size) <= 3 * size
<1> DEFINE l == Input!Round(at * size, taken)
           place == at * size
<1>1. place \in Nat
  OBVIOUS
<1>2. l \in Nat /\ 2 * (taken * l) <= 2 * place + taken /\ 2 * place < 2 * (taken * l) + taken
  BY <1>1, Rounding
<1> HIDE DEF l
<1>3. place <= taken * size - size
  <2>1. at + 1 <= taken
    OBVIOUS
  <2>2. (at + 1) * size <= taken * size
    BY <2>1
  <2>3. (at + 1) * size = place + size
    OBVIOUS
  <2> QED
    BY <2>2, <2>3
<1> HIDE DEF place
<1>4. l < size
  <2>1. ASSUME size <= l
        PROVE  FALSE
    <3>1. taken * size <= taken * l
      BY <1>2, <2>1
    <3>2. taken * size \in Nat /\ taken * l \in Nat
      BY <1>2
    <3> QED
      BY <1>1, <1>2, <1>3, <3>1, <3>2
  <2> QED
    BY <1>2, <2>1
<1>5. l * shown = taken * l - (taken - shown) * l /\ taken * l \in Nat /\ l * shown \in Nat
  BY <1>2
<1>6. (taken - shown) * l \in 0..(2 * l)
  <2>1. taken - shown = 0 \/ taken - shown = 1 \/ taken - shown = 2
    OBVIOUS
  <2> QED
    BY <1>2, <2>1
<1>7. l * shown - place <= 3 * size /\ place - l * shown <= 3 * size
  <2> DEFINE a == taken * l
             b == (taken - shown) * l
             c == l * shown
  <2>1. a \in Nat /\ b \in 0..(2 * l) /\ c = a - b /\ c \in Nat /\ 2 * a <= 2 * place + taken /\ 2 * place < 2 * a + taken
    BY <1>2, <1>5, <1>6
  <2> HIDE DEF a, b, c
  <2>2. c - place <= 3 * size /\ place - c <= 3 * size
    BY <1>1, <1>2, <1>4, <2>1
  <2> QED
    BY <2>2 DEF c
<1>8. Input!Distance(l * shown, place) <= 3 * size
  BY <1>1, <1>5, <1>7 DEF Input!Distance
<1> QED
  BY <1>2, <1>4, <1>8 DEF l, place

(* Where nothing is scaled, nothing is rounded.                              *)
LEMMA Same ==
  ASSUME NEW a \in Nat, NEW d \in Nat \ {0}
  PROVE  Input!Round(a * d, d) = a
<1> DEFINE r == Input!Round(a * d, d)
<1>1. a * d \in Nat /\ d * a = a * d
  OBVIOUS
<1>2. r <= a
  BY <1>1, RoundingIs
<1>3. r \in Nat /\ 2 * (a * d) < 2 * (d * r) + d
  BY <1>1, Rounding
<1> HIDE DEF r
<1>4. ASSUME r + 1 <= a
      PROVE  FALSE
  <2>1. d * (r + 1) <= d * a
    BY <1>3, <1>4
  <2>2. d * (r + 1) = d * r + d /\ d * r \in Nat
    BY <1>3
  <2> QED
    BY <1>1, <1>3, <2>1, <2>2
<1> QED
  BY <1>2, <1>3, <1>4 DEF r

(* A screenshot of a viewport that is not taller than wide, whose height the *)
(* minimum has not changed, is as large as its dimensions say: such viewports*)
(* satisfy SizesAssumption (calculateScreenshotDimensions).                  *)
THEOREM LandscapeIsExact ==
  ASSUME NEW width \in Nat \ {0}, NEW height \in 1..width,
         width <= MaxPx \/ Input!Round(height * MaxPx, width) >= MinPx
  PROVE  \A i \in 1..2 : /\ Input!Image(<<width, height>>)[i] = Input!Scaled(<<width, height>>)[i]
                         /\ Input!Scaled(<<width, height>>)[i] \in 1..(<<width, height>>[i])
<1> DEFINE size == <<width, height>>
           high == Input!Round(height * MaxPx, width)
<1>1. MaxPx \in Nat \ {0} /\ MinPx \in Nat \ {0} /\ MinPx <= MaxPx
  BY SizesAssumption
<1>2. size[1] = width /\ size[2] = height /\ Input!Longer(size) = width
  BY DEF Input!Longer
<1>3. Input!Scaled(size) = IF width <= MaxPx THEN size
                           ELSE [i \in 1..2 |-> Input!AtLeast(MinPx, Input!Round(size[i] * MaxPx, width))]
  BY <1>2 DEF Input!Scaled
<1>4. Input!Image(size) = [i \in 1..2 |-> Input!Round(size[i] * Input!Scaled(size)[1], width)]
  BY <1>2 DEF Input!Image
<1>5. CASE width <= MaxPx
  <2>1. Input!Scaled(size)[1] = width /\ Input!Scaled(size)[2] = height
    BY <1>2, <1>3, <1>5
  <2>2. Input!Round(width * width, width) = width /\ Input!Round(height * width, width) = height
    BY Same
  <2>3. Input!Image(size)[1] = width /\ Input!Image(size)[2] = height
    BY <1>2, <1>4, <2>1, <2>2
  <2> HIDE DEF size
  <2> QED
    BY <1>2, <2>1, <2>3 DEF size
<1>6. CASE MaxPx < width
  <2>1. Input!Round(width * MaxPx, width) = MaxPx
    <3>1. width * MaxPx = MaxPx * width
      BY <1>1
    <3> QED
      BY <1>1, <3>1, Same
  <2>2. high \in Nat /\ MinPx <= high
    <3>1. height * MaxPx \in Nat
      BY <1>1
    <3> QED
      BY <1>1, <1>6, <3>1, Rounding
  <2>3. high <= height
    <3>1. height * MaxPx <= width * height /\ height * MaxPx \in Nat /\ width * height \in Nat
      BY <1>1, <1>6
    <3>2. 2 * (height * MaxPx) < 2 * (width * height) + width
      BY <3>1
    <3> QED
      BY <3>1, <3>2, RoundingIs
  <2>4. Input!AtLeast(MinPx, MaxPx) = MaxPx /\ Input!AtLeast(MinPx, high) = high
    <3> HIDE DEF high
    <3> QED
      BY <1>1, <2>2 DEF Input!AtLeast
  <2>5. Input!Scaled(size)[1] = MaxPx /\ Input!Scaled(size)[2] = high
    <3>1. Input!Scaled(size)[1] = Input!AtLeast(MinPx, Input!Round(width * MaxPx, width))
          /\ Input!Scaled(size)[2] = Input!AtLeast(MinPx, Input!Round(height * MaxPx, width))
      BY <1>1, <1>2, <1>3, <1>6
    <3> QED
      BY <2>1, <2>4, <3>1
  <2>6. Input!Image(size)[1] = MaxPx /\ Input!Image(size)[2] = high
    BY <1>2, <1>4, <2>1, <2>5
  <2> HIDE DEF size, high
  <2>7. MaxPx \in 1..width /\ high \in 1..height
    BY <1>1, <1>6, <2>2, <2>3
  <2> QED
    BY <1>2, <2>5, <2>6, <2>7 DEF size
<1> QED
  BY <1>1, <1>5, <1>6

(* The picture the client has seen: taken with the dimensions that are kept, *)
(* of a viewport the call has asked for; a place on it is an aim on it, and  *)
(* where the call goes is reckoned with them.  Nothing takes one meanwhile.  *)
Places == {"click", "drag", "move"}

Takes(kind, view, todo) ==
  \A i \in 1..Len(todo) : todo[i] = "capture" =>
    kind \notin Places /\ (view \in Sizes \/ \E j \in 1..Len(todo) : j < i /\ todo[j] = "view")

SeenInv ==
  /\ viewport \in [Tabs -> Sizes]
  /\ action.kind = "none" => action.todo = <<>> /\ land = None /\ picture = None
  /\ action.kind # "none" => action.tab \in Tabs
  /\ Takes(action.kind, action.view, action.todo)
  /\ picture # None => dims = Input!Scaled(picture.size) /\ picture.size \in Sizes /\ action.kind \notin Places
  /\ picture = None /\ dims # None /\ ~withheld => shot # None /\ dims = Input!Scaled(shot.size)
  /\ shot # None => shot.size \in Sizes
  /\ action.kind \in Places /\ shot # None => aim \in Input!Pixels(shot.size)
  /\ action.kind \in Places /\ land # None /\ dims # None =>
       land = [i \in 1..2 |-> Input!Round(aim[i] * action.view[i], dims[i])]

LEMMA TakesRest ==
  ASSUME NEW kind, NEW view, NEW todo \in Seq(Commands), todo # <<>>, Takes(kind, view, todo),
         NEW seen2, seen2 = view \/ seen2 \in Sizes, Head(todo) = "view" => seen2 \in Sizes,
         NEW rest, rest = Tail(todo) \/ rest \in Finals \union {<<>>}
  PROVE  Takes(kind, seen2, rest)
<1>1. CASE rest \in Finals \union {<<>>}
  <2>1. \A i \in 1..Len(rest) : rest[i] \in {"ungrid", "show"}
    BY <1>1, Explicit DEF Finals, Ungrids, Shows
  <2> QED
    BY <2>1 DEF Takes
<1>2. CASE rest = Tail(todo)
  <2>1. /\ Len(todo) \in Nat /\ Len(todo) >= 1 /\ Len(rest) = Len(todo) - 1 /\ Head(todo) = todo[1]
        /\ \A i \in 1..Len(rest) : rest[i] = todo[i + 1] /\ i + 1 \in 1..Len(todo)
    BY <1>2
  <2>2. ASSUME NEW i \in 1..Len(rest), rest[i] = "capture", seen2 \notin Sizes
        PROVE  \E j \in 1..Len(rest) : j < i /\ rest[j] = "view"
    <3>1. todo[i + 1] = "capture" /\ i + 1 \in 1..Len(todo) /\ view \notin Sizes
      BY <2>1, <2>2
    <3>2. PICK j \in 1..Len(todo) : j < i + 1 /\ todo[j] = "view"
      BY <3>1 DEF Takes
    <3>3. j # 1
      BY <2>1, <2>2, <3>2
    <3>4. j - 1 \in 1..Len(rest) /\ j - 1 < i /\ (j - 1) + 1 = j
      BY <2>1, <3>2, <3>3
    <3> QED
      BY <2>1, <3>2, <3>4
  <2>3. ASSUME NEW i \in 1..Len(rest), rest[i] = "capture"
        PROVE  kind \notin Places
    BY <2>1, <2>3 DEF Takes
  <2> QED
    BY <2>2, <2>3 DEF Takes
<1> QED
  BY <1>1, <1>2

(* Whatever a script begins with, it looks at the viewport before it takes   *)
(* its picture.                                                              *)
LEMMA ScriptsLookFirst ==
  ASSUME NEW kind \in Input!Kinds, NEW view
  PROVE  Takes(kind, view, Input!Script(kind))
<1>1. CASE kind = "screenshot"
  <2> DEFINE s == <<"view", "hide", "capture">>
  <2>1. Len(s) = 3 /\ s[1] = "view" /\ s[2] = "hide" /\ s[3] = "capture"
    OBVIOUS
  <2>2. Input!Script(kind) = s
    BY <1>1 DEF Input!Script
  <2> HIDE DEF s
  <2> QED
    BY <1>1, <2>1, <2>2 DEF Takes, Places
<1>2. CASE kind = "grid"
  <2> DEFINE s == <<"view", "hide", "grid", "capture">>
  <2>1. Len(s) = 4 /\ s[1] = "view" /\ s[2] = "hide" /\ s[3] = "grid" /\ s[4] = "capture"
    OBVIOUS
  <2>2. Input!Script(kind) = s
    BY <1>2 DEF Input!Script
  <2> HIDE DEF s
  <2> QED
    BY <1>2, <2>1, <2>2 DEF Takes, Places
<1>3. CASE kind \notin {"screenshot", "grid"}
  <2> DEFINE s == Input!Script(kind)
  <2>1. \/ s = <<"hide", "view", "move", "press", "release">>
        \/ s = <<"hide", "find", "move", "press", "release">>
        \/ s = <<"view", "move", "press", "move", "release">>
        \/ s = <<"press", "release">> \/ s = <<"view", "move">> \/ s = <<"insert">>
    BY <1>3 DEF Input!Script, Input!Click, Input!Kinds
  <2>2. \A i \in 1..Len(s) : s[i] # "capture"
    <3> HIDE DEF s
    <3>1. CASE s = <<"hide", "view", "move", "press", "release">>
      BY <3>1
    <3>2. CASE s = <<"hide", "find", "move", "press", "release">>
      BY <3>2
    <3>3. CASE s = <<"view", "move", "press", "move", "release">>
      BY <3>3
    <3>4. CASE s = <<"press", "release">> \/ s = <<"view", "move">> \/ s = <<"insert">>
      BY <3>4
    <3> QED
      BY <2>1, <3>1, <3>2, <3>3, <3>4
  <2> QED
    BY <2>2 DEF Takes
<1> QED
  BY <1>1, <1>2, <1>3

LEMMA LargestIsOne == viewport = [t \in Tabs |-> CHOOSE s \in Sizes : \A z \in Sizes : Input!Longer(z) <= Input!Longer(s)]
                        => viewport \in [Tabs -> Sizes]
<1>1. \E s \in Sizes : \A z \in Sizes : Input!Longer(z) <= Input!Longer(s)
  BY SizesAssumption
<1> DEFINE top == CHOOSE s \in Sizes : \A z \in Sizes : Input!Longer(z) <= Input!Longer(s)
<1>2. top \in Sizes
  BY <1>1
<1> HIDE DEF top
<1>3. [t \in Tabs |-> top] \in [Tabs -> Sizes]
  BY <1>2
<1> QED
  BY <1>3 DEF top

LEMMA SeenInitially == Input!Init => SeenInv
<1> SUFFICES ASSUME Input!Init
             PROVE  SeenInv
  OBVIOUS
<1>1. /\ action = [tab |-> None, kind |-> "none", view |-> None, todo |-> <<>>, final |-> <<>>]
      /\ dims = None /\ picture = None /\ shot = None /\ land = None
      /\ viewport = [t \in Tabs |-> CHOOSE s \in Sizes : \A z \in Sizes : Input!Longer(z) <= Input!Longer(s)]
  BY DEF Input!Init, Input!Idle
<1>2. viewport \in [Tabs -> Sizes]
  BY <1>1, LargestIsOne
<1>3. Takes(action.kind, action.view, action.todo)
  <2>1. Len(action.todo) = 0
    BY <1>1
  <2> QED
    BY <2>1 DEF Takes
<1> QED
  BY <1>1, <1>2, <1>3 DEF SeenInv, Places

(* A command that neither looks nor takes a picture.                         *)
CallGoesOn ==
  /\ action'.kind = action.kind /\ action'.tab = action.tab /\ action'.view = action.view
  /\ action'.todo = Tail(action.todo) \/ action'.todo \in Finals \union {<<>>}

LEMMA GoingOn ==
  ASSUME InputInv, SeenInv, action.todo # <<>>, Head(action.todo) # "view", CallGoesOn,
         UNCHANGED <<viewport, dims, picture, shot, withheld, aim, land>>
  PROVE  SeenInv'
<1>1. action.todo \in Seq(Commands) /\ action.kind # "none"
  BY CallFields DEF InputInv, SeenInv
<1>2. Takes(action'.kind, action'.view, action'.todo)
  BY <1>1, TakesRest DEF SeenInv, CallGoesOn
<1> QED
  BY <1>1, <1>2 DEF SeenInv, CallGoesOn

LEMMA DoneIsToGoOn ==
  ASSUME InputInv, action.todo # <<>>, NEW after, after = Input!Done(action)
  PROVE  /\ after.view = action.view /\ after.kind = action.kind /\ after.tab = action.tab
         /\ after.todo = Tail(action.todo) \/ after.todo \in Finals \union {<<>>}
<1>1. PICK tab, kind, view : \E todo \in Seq(Commands) : \E final \in Finals \union {<<>>} :
        action = [tab |-> tab, kind |-> kind, view |-> view, todo |-> todo, final |-> final]
  BY DEF InputInv, Calling
<1>2. PICK todo \in Seq(Commands), final \in Finals \union {<<>>} :
        action = [tab |-> tab, kind |-> kind, view |-> view, todo |-> todo, final |-> final]
  BY <1>1
<1> QED
  BY <1>2 DEF Input!Done

LEMMA SeenPasses ==
  ASSUME InputInv, SeenInv,
         \/ Input!Press \/ Input!Release \/ Input!Other
         \/ \E step \in {"grid", "ungrid", "show"} : Input!Dress(step)
  PROVE  SeenInv'
<1>1. /\ action.todo # <<>> /\ Head(action.todo) # "view" /\ action' = Input!Done(action)
      /\ UNCHANGED <<viewport, dims, picture, shot, withheld, aim, land>>
  BY DEF Input!Press, Input!Release, Input!Other, Input!Dress, Input!Doing, Input!pictures
<1>2. CallGoesOn
  BY <1>1, DoneIsToGoOn DEF CallGoesOn
<1> QED
  BY <1>1, <1>2, GoingOn

LEMMA SeenHides ==
  ASSUME InputInv, SeenInv, Input!Hide
  PROVE  SeenInv'
<1>1. /\ action.todo # <<>> /\ Head(action.todo) # "view"
      /\ UNCHANGED <<viewport, dims, picture, shot, withheld, aim, land>>
  BY DEF Input!Hide, Input!Doing, Input!pictures
<1>2. PICK final : action' = [Input!Done(action) EXCEPT !.final = final]
  BY DEF Input!Hide
<1> DEFINE after == Input!Done(action)
<1>3. /\ after.view = action.view /\ after.kind = action.kind /\ after.tab = action.tab
      /\ after.todo = Tail(action.todo) \/ after.todo \in Finals \union {<<>>}
  BY <1>1, DoneIsToGoOn
<1>4. Calling(after)
  BY <1>1, CallAfter
<1>5. action' = [after EXCEPT !.final = final]
  BY <1>2
<1> HIDE DEF after
<1>6. /\ action'.view = after.view /\ action'.kind = after.kind /\ action'.tab = after.tab
      /\ action'.todo = after.todo
  BY <1>4, <1>5 DEF Calling
<1>7. CallGoesOn
  BY <1>3, <1>6 DEF CallGoesOn
<1> QED
  BY <1>1, <1>7, GoingOn

LEMMA SeenFails ==
  ASSUME InputInv, SeenInv, Input!Fail
  PROVE  SeenInv'
<1>1. /\ action.todo # <<>> /\ action' = [action EXCEPT !.todo = action.final, !.final = <<>>]
      /\ UNCHANGED <<viewport, dims, shot, aim, land>>
      /\ picture' = None /\ (~withheld' => ~withheld /\ picture = None)
  BY DEF Input!Fail
<1>2. PICK tab, kind, view : \E todo \in Seq(Commands) : \E final \in Finals \union {<<>>} :
        action = [tab |-> tab, kind |-> kind, view |-> view, todo |-> todo, final |-> final]
  BY DEF InputInv, Calling
<1>3. PICK todo \in Seq(Commands), final \in Finals \union {<<>>} :
        action = [tab |-> tab, kind |-> kind, view |-> view, todo |-> todo, final |-> final]
  BY <1>2
<1>4. /\ action'.kind = action.kind /\ action'.tab = action.tab /\ action'.view = action.view
      /\ action'.todo \in Finals \union {<<>>}
  BY <1>1, <1>3
<1>5. Takes(action'.kind, action'.view, action'.todo)
  <2>1. \A i \in 1..Len(action'.todo) : action'.todo[i] \in {"ungrid", "show"}
    BY <1>4, Explicit DEF Finals, Ungrids, Shows
  <2> QED
    BY <2>1 DEF Takes
<1>6. action.kind # "none"
  BY <1>1 DEF SeenInv
<1> QED
  BY <1>1, <1>4, <1>5, <1>6 DEF SeenInv

LEMMA Looks ==
  ASSUME InputInv, SeenInv, Input!View
  PROVE  SeenInv'
<1>1. /\ action.todo # <<>> /\ action' = [Input!Done(action) EXCEPT !.view = viewport[action.tab]]
      /\ land' = Input!ToViewport(aim, viewport[action.tab])
      /\ UNCHANGED <<viewport, dims, picture, shot, withheld, aim>>
  BY DEF Input!View, Input!Doing, Input!pictures
<1> DEFINE after == Input!Done(action)
           size == viewport[action.tab]
<1>2. /\ after.kind = action.kind /\ after.tab = action.tab
      /\ after.todo = Tail(action.todo) \/ after.todo \in Finals \union {<<>>}
  BY <1>1, DoneIsToGoOn
<1>3. Calling(after)
  BY <1>1, CallAfter
<1>4. action' = [after EXCEPT !.view = size]
  BY <1>1
<1>5. land' = Input!ToViewport(aim, size)
  BY <1>1
<1>6. action.todo \in Seq(Commands) /\ action.kind # "none" /\ action.tab \in Tabs
  BY <1>1, CallFields DEF InputInv, SeenInv
<1>7. size \in Sizes
  BY <1>6 DEF SeenInv
<1> HIDE DEF after, size
<1>8. /\ action'.view = size /\ action'.kind = action.kind /\ action'.tab = action.tab
      /\ action'.todo = Tail(action.todo) \/ action'.todo \in Finals \union {<<>>}
  BY <1>2, <1>3, <1>4 DEF Calling
<1>9. Takes(action'.kind, action'.view, action'.todo)
  BY <1>1, <1>6, <1>7, <1>8, TakesRest DEF SeenInv
<1>10. dims # None => land' = [i \in 1..2 |-> Input!Round(aim[i] * size[i], dims[i])]
  BY <1>5 DEF Input!ToViewport
<1> QED
  BY <1>1, <1>6, <1>8, <1>9, <1>10 DEF SeenInv

LEMMA TakesPicture ==
  ASSUME InputInv, SeenInv, Input!Capture
  PROVE  SeenInv'
<1>1. /\ action.todo # <<>> /\ Head(action.todo) = "capture" /\ action' = Input!Done(action)
      /\ dims' = Input!Scaled(action.view) /\ picture' = [tab |-> action.tab, size |-> action.view]
      /\ UNCHANGED <<viewport, shot, withheld, aim, land>>
  BY DEF Input!Capture, Input!Doing
<1>2. action.todo \in Seq(Commands) /\ action.kind # "none"
  BY <1>1, CallFields DEF InputInv, SeenInv
<1>3. 1 \in 1..Len(action.todo) /\ action.todo[1] = "capture" /\ ~ \E j \in 1..Len(action.todo) : j < 1
  BY <1>1, <1>2
<1>4. action.kind \notin Places /\ action.view \in Sizes
  BY <1>3 DEF SeenInv, Takes
<1>5. CallGoesOn
  BY <1>1, DoneIsToGoOn DEF CallGoesOn
<1>6. Takes(action'.kind, action'.view, action'.todo)
  BY <1>1, <1>2, <1>5, TakesRest DEF SeenInv, CallGoesOn
<1>7. picture'.size = action.view /\ picture' # None
  BY <1>1, <1>2, <1>4, ToolsAssumption DEF SeenInv
<1> QED
  BY <1>1, <1>2, <1>4, <1>5, <1>6, <1>7 DEF SeenInv, CallGoesOn

LEMMA SeenCalls ==
  ASSUME SeenInv, NEW t \in Tabs, NEW kind \in Input!Kinds, Input!Call(t, kind)
  PROVE  SeenInv'
<1> DEFINE lines == Input!Script(kind)
<1>1. /\ action = Input!Idle /\ action' = [Input!Idle EXCEPT !.tab = t, !.kind = kind, !.todo = lines]
      /\ UNCHANGED <<viewport, dims, picture, shot, withheld, land>>
      /\ shot # None /\ kind \in Places => aim' \in Input!Pixels(shot.size)
  BY DEF Input!Call, Input!pictures, Places
<1>2. \A view : Takes(kind, view, lines)
  BY ScriptsLookFirst
<1>3. kind # "none"
  BY DEF Input!Kinds
<1> HIDE DEF lines
<1>4. action' = [tab |-> t, kind |-> kind, view |-> None, todo |-> lines, final |-> <<>>] /\ land = None /\ picture = None
  BY <1>1 DEF Input!Idle, SeenInv
<1> QED
  BY <1>1, <1>2, <1>3, <1>4 DEF SeenInv

LEMMA SeenOthers ==
  ASSUME SeenInv,
         \/ Input!Return \/ Input!WorkerStops
         \/ \E t \in Tabs, size \in Sizes : Input!Resize(t, size)
         \/ UNCHANGED inputVars
  PROVE  SeenInv'
<1>1. CASE Input!Return
  <2>1. /\ action' = [tab |-> None, kind |-> "none", view |-> None, todo |-> <<>>, final |-> <<>>]
        /\ land' = None /\ UNCHANGED <<viewport, dims>>
        /\ picture' = None
        /\ picture = None => UNCHANGED <<shot, withheld>>
        /\ picture # None => shot' = picture /\ withheld' = FALSE
    BY <1>1 DEF Input!Return, Input!Idle
  <2>2. Takes(action'.kind, action'.view, action'.todo)
    <3>1. Len(action'.todo) = 0
      BY <2>1
    <3> QED
      BY <3>1 DEF Takes
  <2> QED
    BY <2>1, <2>2 DEF SeenInv, Places
<1>2. CASE Input!WorkerStops
  BY <1>2 DEF Input!WorkerStops, Input!Idle, SeenInv
<1>3. ASSUME NEW t \in Tabs, NEW size \in Sizes, Input!Resize(t, size)
      PROVE  SeenInv'
  <2>1. viewport' \in [Tabs -> Sizes] /\ UNCHANGED <<dims, picture, shot, withheld, action, aim, land>>
    BY <1>3 DEF Input!Resize, Input!pictures, SeenInv
  <2> QED
    BY <2>1 DEF SeenInv
<1>4. CASE UNCHANGED inputVars
  BY <1>4 DEF inputVars, SeenInv
<1> QED
  BY <1>1, <1>2, <1>3, <1>4

(* A click, a drag or a move goes to the place that the client saw on the    *)
(* last screenshot of its tab, if that was taken of the viewport as it is    *)
(* and the worker has kept its dimensions, not those of a picture that the   *)
(* client has not been given (computer.ts, coordinateMapper.ts).             *)
THEOREM GoesToThePlace == Spec => []GoesWhereSeen
<1> DEFINE Both == InputInv /\ SeenInv
<1>1. Init => Both
  BY InputInitially, SeenInitially DEF Init
<1>2. Both /\ [Next]_vars => Both'
  <2>1. Next => Input!Next \/ UNCHANGED inputVars
    BY DEF Next
  <2>2. UNCHANGED vars => UNCHANGED inputVars
    BY DEF vars
  <2>3. UNCHANGED inputVars => UNCHANGED <<held, dressed, action, stuck>>
    BY DEF inputVars
  <2>4. InputInv /\ SeenInv /\ Input!Next => SeenInv'
    BY SeenPasses, SeenHides, SeenFails, Looks, TakesPicture, SeenCalls, SeenOthers DEF Input!Next
  <2> QED
    BY <2>1, <2>2, <2>3, <2>4, InputStep, InputStutter, SeenOthers
<1>3. Both => GoesWhereSeen
  <2> SUFFICES ASSUME SeenInv, action.kind \in Places, land # None, shot # None, dims # None, ~withheld,
                      shot.size = action.view, NEW i \in 1..2
               PROVE  /\ Input!Distance(land[i] * Input!Image(shot.size)[i], aim[i] * shot.size[i]) <= 3 * shot.size[i]
                      /\ land[i] \in 0..(shot.size[i] - 1)
    BY DEF GoesWhereSeen, Input!GoesWhereSeen, Places
  <2> DEFINE size == shot.size
             image == Input!Image(size)
             reported == Input!Scaled(size)
  <2>1. size \in Sizes /\ aim \in Input!Pixels(size) /\ land[i] = Input!Round(aim[i] * size[i], reported[i])
    BY DEF SeenInv
  <2>2. size[i] \in Nat \ {0}
    BY <2>1, SizesAssumption
  <2>3. image[i] \in Nat /\ reported[i] \in Nat
    <3>1. size[1] \in Nat \ {0} /\ Input!Longer(size) \in Nat \ {0}
      BY <2>1, SizesAssumption DEF Input!Longer
    <3>2. \A j \in 1..2 : reported[j] \in Nat
      <4>1. \A j \in 1..2 : size[j] \in Nat /\ size[j] * MaxPx \in Nat
        BY <2>1, SizesAssumption
      <4>2. \A j \in 1..2 : Input!Round(size[j] * MaxPx, Input!Longer(size)) \in Nat
        BY <3>1, <4>1, Rounding
      <4>3. MinPx \in Nat
        BY SizesAssumption
      <4>4. CASE Input!Longer(size) <= MaxPx
        BY <4>1, <4>4 DEF Input!Scaled
      <4>5. CASE ~(Input!Longer(size) <= MaxPx)
        <5>1. \A j \in 1..2 : reported[j] = Input!AtLeast(MinPx, Input!Round(size[j] * MaxPx, Input!Longer(size)))
          BY <4>5 DEF Input!Scaled
        <5> HIDE DEF reported, size
        <5> QED
          BY <4>2, <4>3, <5>1 DEF Input!AtLeast
      <4> QED
        BY <4>4, <4>5
    <3>3. size[i] * reported[1] \in Nat
      BY <2>2, <3>2
    <3>4. image[i] \in Nat
      BY <3>1, <3>3, Rounding DEF Input!Image
    <3> QED
      BY <3>2, <3>4
  <2>4. image[i] \in Nat \ {0} /\ reported[i] \in Nat \ {0} /\ reported[i] <= size[i] /\ reported[i] - image[i] \in 0..2
    <3>1. image[i] > 0 /\ reported[i] <= size[i] /\ reported[i] - image[i] \in 0..2
      BY <2>1, SizesAssumption
    <3> HIDE DEF size, image, reported
    <3>2. reported[i] # 0
      BY <2>3, <3>1
    <3> QED
      BY <2>3, <3>1, <3>2
  <2>5. aim[i] \in 0..(image[i] - 1)
    <3>1. aim = <<0, 0>> \/ aim[i] = image[i] - 1 \/ aim[i] = image[i] \div 3
      BY <2>1 DEF Input!Pixels
    <3>2. aim[i] = 0 \/ aim[i] = image[i] - 1 \/ aim[i] = image[i] \div 3
      BY <3>1
    <3> HIDE DEF image
    <3> QED
      BY <2>4, <3>2
  <2> HIDE DEF size, image, reported
  <2>6. /\ land[i] \in 0..(size[i] - 1)
        /\ Input!Distance(land[i] * image[i], aim[i] * size[i]) <= 3 * size[i]
    BY <2>1, <2>2, <2>4, <2>5, Lands
  <2> QED
    BY <2>6 DEF size, image
<1> QED
  BY <1>1, <1>2, <1>3, PTL DEF Spec

-----------------------------------------------------------------------------
(***************************************************************************)
(* Macros.  A name that no call works on is settled: the client was told   *)
(* what is stored, and the alarm goes with it.  A copy that a call has     *)
(* loaded agrees with what is stored of every other name, as a scheduled   *)
(* run that saves in between tears the names on which it does not.         *)
(***************************************************************************)
AnyMacro == {Absent} \union Macro!Macro
Store == [Names -> AnyMacro]

Settled(n) ==
  /\ stored[n] = assured[n]
  /\ (n \in alarms) = (stored[n] # Absent /\ stored[n].scheduled)

WorkOn(kind, n, copy, todo, steps) ==
  [kind |-> kind, name |-> n, copy |-> copy, todo |-> todo, steps |-> steps]

(* The copy that a call is to save, with the macro it makes of its name.     *)
Loaded(copy, n, made) ==
  copy \in Store /\ \A m \in Names \ torn : copy[m] = IF m = n THEN made ELSE stored[m]

Scheduled(macro, s) == IF macro = Absent THEN Absent ELSE [macro EXCEPT !.scheduled = s]

RecordPhase(n, copy, todo, steps) ==
  \/ todo = <<"load", "save">>
  \/ todo = <<"save">> /\ Loaded(copy, n, [steps |-> steps, scheduled |-> FALSE])
DeletePhase(n, copy, todo) ==
  \/ todo = <<"load", "save", "clear">>
  \/ todo = <<"save", "clear">> /\ Loaded(copy, n, Absent)
  \/ todo = <<"clear">> /\ (n \notin torn => stored[n] = Absent)
SchedulePhase(n, copy, todo) ==
  \/ todo = <<"load", "save", "create">> /\ (n \notin torn => Settled(n))
  \/ /\ todo = <<"save", "create">> /\ Loaded(copy, n, Scheduled(stored[n], TRUE))
     /\ n \notin torn => stored[n] = assured[n] /\ stored[n] # Absent
  \/ /\ todo = <<"create">>
     /\ n \notin torn => assured[n] # Absent /\ stored[n] = Scheduled(assured[n], TRUE)
UnschedulePhase(n, copy, todo) ==
  \/ todo = <<"clear", "load", "save">> /\ (n \notin torn => Settled(n))
  \/ todo = <<"load", "save">> /\ (n \notin torn => stored[n] = assured[n] /\ n \notin alarms)
  \/ /\ todo = <<"save">> /\ Loaded(copy, n, Scheduled(stored[n], FALSE))
     /\ n \notin torn => stored[n] = assured[n] /\ n \notin alarms
ReplayPhase(n, todo) ==
  /\ todo = <<"load", "replay">> \/ todo = <<"replay">>
  /\ n \notin torn => Settled(n)

Phase(kind, n, copy, todo, steps) ==
  \/ kind = "record_stop" /\ RecordPhase(n, copy, todo, steps)
  \/ kind = "delete" /\ DeletePhase(n, copy, todo)
  \/ kind = "schedule" /\ SchedulePhase(n, copy, todo)
  \/ kind = "unschedule" /\ UnschedulePhase(n, copy, todo)
  \/ kind = "replay" /\ ReplayPhase(n, todo)

Working(kind, n, copy, todo, steps) ==
  /\ n \in Names /\ steps \in Macro!Recorded /\ work = WorkOn(kind, n, copy, todo, steps)
  /\ \A m \in Names \ torn : m # n => Settled(m)
  /\ Phase(kind, n, copy, todo, steps)

MacroTypes ==
  /\ stored \in Store /\ assured \in Store /\ alarms \subseteq Names /\ torn \subseteq Names
  /\ recording \in {Absent} \union Macro!Recorded
  /\ run # Absent => run.copy \in Store

MacroInv ==
  /\ MacroTypes
  /\ \/ work = Macro!NoWork /\ \A n \in Names \ torn : Settled(n)
     \/ \E kind, n, copy, todo, steps : Working(kind, n, copy, todo, steps)

LEMMA MacroIs ==
  /\ \A s \in Macro!Recorded, b \in BOOLEAN : [steps |-> s, scheduled |-> b] \in AnyMacro \ {Absent}
  /\ \A macro \in AnyMacro, b \in BOOLEAN :
       /\ Scheduled(macro, b) \in AnyMacro /\ (Scheduled(macro, b) = Absent <=> macro = Absent)
       /\ macro # Absent => /\ Scheduled(macro, b) = [macro EXCEPT !.scheduled = b]
                            /\ Scheduled(macro, b).scheduled = b
BY ToolsAssumption DEF AnyMacro, Macro!Macro, Macro!Recorded, Scheduled

LEMMA WorkIs ==
  ASSUME NEW kind, NEW n, NEW copy, NEW todo, NEW steps, work = WorkOn(kind, n, copy, todo, steps),
         kind \in Macro!Kinds
  PROVE  /\ work # Macro!NoWork /\ work.kind = kind /\ work.name = n /\ work.copy = copy
         /\ work.todo = todo /\ work.steps = steps
<1>1. work.kind = kind /\ work.name = n /\ work.copy = copy /\ work.todo = todo /\ work.steps = steps
  BY DEF WorkOn
<1>2. kind # "none"
  BY DEF Macro!Kinds
<1>3. Macro!NoWork.kind = "none"
  BY DEF Macro!NoWork
<1> QED
  BY <1>1, <1>2, <1>3

LEMMA PhaseIs ==
  ASSUME NEW kind, NEW n, NEW copy, NEW todo, NEW steps, Working(kind, n, copy, todo, steps)
  PROVE  kind \in Macro!Kinds
BY DEF Working, Phase, Macro!Kinds

(* A step that is not the last one: the call goes on with its copy.          *)
LEMMA GoesOn ==
  ASSUME NEW kind \in Macro!Kinds, NEW n, NEW copy, NEW todo, NEW steps, work = WorkOn(kind, n, copy, todo, steps),
         Len(todo) > 1, NEW c, Macro!Done(c)
  PROVE  work' = WorkOn(kind, n, c, Tail(todo), steps) /\ UNCHANGED <<assured, torn>>
<1>1. work.todo = todo
  BY WorkIs
<1>2. work' = [work EXCEPT !.todo = Tail(@), !.copy = c] /\ UNCHANGED <<assured, torn>>
  BY <1>1 DEF Macro!Done
<1> QED
  BY <1>2 DEF WorkOn

(* The last step: the client is told.                                        *)
LEMMA IsTold ==
  ASSUME NEW kind \in Macro!Kinds, NEW n \in Names, NEW copy, NEW todo, NEW steps,
         work = WorkOn(kind, n, copy, todo, steps), Len(todo) = 1,
         NEW c, Macro!Done(c), assured \in Store, torn \subseteq Names, Macro!Promise(n) \in AnyMacro
  PROVE  /\ work' = Macro!NoWork /\ assured' \in Store /\ torn \subseteq torn' /\ torn' \subseteq Names
         /\ \A m \in Names \ torn' : assured'[m] = IF m = n THEN Macro!Promise(n) ELSE assured[m]
         /\ kind = "record_stop" /\ n \in alarms => n \in torn'
<1>1. work.todo = todo /\ work.kind = kind /\ work.name = n
  BY WorkIs
<1> DEFINE given == [assured EXCEPT ![n] = Macro!Promise(n)]
<1>2. /\ work' = Macro!NoWork
      /\ IF kind = "record_stop" /\ n \in alarms
         THEN Macro!Tear({n}, given) ELSE assured' = given /\ torn' = torn
  <2>1. ~(Len(work.todo) > 1)
    <3>1. Len(work.todo) = 1
      BY <1>1, Zenon
    <3>2. \A i : i = 1 => ~(i > 1)
      OBVIOUS
    <3> QED
      BY <3>1, <3>2, Zenon
  <2>2. /\ work' = Macro!NoWork
        /\ IF work.kind = "record_stop" /\ work.name \in alarms
           THEN Macro!Tear({work.name}, [assured EXCEPT ![work.name] = Macro!Promise(work.name)])
           ELSE assured' = [assured EXCEPT ![work.name] = Macro!Promise(work.name)] /\ torn' = torn
    BY <2>1, Zenon DEF Macro!Done
  <2> QED
    BY <1>1, <2>2, Zenon
<1>3. given \in Store /\ \A m \in Names : given[m] = IF m = n THEN Macro!Promise(n) ELSE assured[m]
  BY DEF Store
<1> HIDE DEF given
<1>4. CASE kind = "record_stop" /\ n \in alarms
  <2>1. torn' = torn \union {n} /\ assured' = [m \in Names |-> IF m \in torn \union {n} THEN Absent ELSE given[m]]
    BY <1>2, <1>4 DEF Macro!Tear
  <2>2. assured' \in Store
    BY <2>1, <1>3 DEF Store, AnyMacro
  <2> QED
    BY <1>2, <1>3, <2>1, <2>2
<1> QED
  BY <1>2, <1>3, <1>4

LEMMA MacroInitially == Macro!Init => MacroInv
<1> SUFFICES ASSUME Macro!Init
             PROVE  MacroInv
  OBVIOUS
<1>1. stored \in Store /\ assured \in Store /\ stored = assured /\ alarms = {} /\ torn = {} /\ recording = Absent
      /\ run = Absent /\ work = Macro!NoWork
  BY DEF Macro!Init, Store, AnyMacro
<1>2. \A n \in Names : stored[n] = Absent
  BY DEF Macro!Init
<1> QED
  BY <1>1, <1>2 DEF MacroInv, MacroTypes, Settled

LEMMA MacroUntouched ==
  ASSUME MacroInv, UNCHANGED <<stored, alarms, work, assured, torn>>,
         recording' \in {Absent} \union Macro!Recorded, run' # Absent => run'.copy \in Store
  PROVE  MacroInv'
<1>1. MacroTypes'
  BY DEF MacroInv, MacroTypes
<1>2. \A n \in Names : Settled(n)' <=> Settled(n)
  BY DEF Settled
<1>3. ASSUME NEW kind, NEW n, NEW copy, NEW todo, NEW steps, Working(kind, n, copy, todo, steps)
      PROVE  Working(kind, n, copy, todo, steps)'
  BY <1>2, <1>3 DEF Working, WorkOn, Phase, RecordPhase, DeletePhase, SchedulePhase, UnschedulePhase, ReplayPhase, Loaded
<1> QED
  BY <1>1, <1>2, <1>3 DEF MacroInv

LEMMA CallsBegin ==
  ASSUME MacroInv, NEW kind \in Macro!Kinds, NEW n \in Names, Macro!Call(kind, n)
  PROVE  MacroInv'
<1>1. /\ work = Macro!NoWork /\ UNCHANGED <<stored, alarms, run, assured>>
      /\ recording' = IF kind = "record_stop" THEN Absent ELSE recording
      /\ torn' = IF kind \in {"record_stop", "delete"} THEN torn \ {n} ELSE torn
      /\ work' = WorkOn(kind, n, Absent, Macro!Script(kind),
                        IF kind # "record_stop" \/ recording = Absent THEN "empty" ELSE recording)
  BY DEF Macro!Call, WorkOn
<1>2. \A m \in Names \ torn : Settled(m)
  <2>1. \A k, m, c, t, s : ~Working(k, m, c, t, s)
    BY <1>1, WorkIs, PhaseIs DEF Working
  <2> QED
    BY <2>1 DEF MacroInv
<1>3. \A m \in Names : Settled(m)' <=> Settled(m)
  BY <1>1 DEF Settled
<1>4. (IF kind # "record_stop" \/ recording = Absent THEN "empty" ELSE recording) \in Macro!Recorded
  BY DEF MacroInv, MacroTypes, Macro!Recorded
<1>5. \A steps : Phase(kind, n, Absent, Macro!Script(kind), steps)'
  BY <1>1, <1>2, <1>3 DEF Macro!Kinds, Macro!Script, Phase, RecordPhase, DeletePhase, SchedulePhase, UnschedulePhase, ReplayPhase
<1>6. \A m \in Names \ torn' : m # n => Settled(m)'
  BY <1>1, <1>2, <1>3
<1>7. MacroTypes'
  BY <1>1 DEF MacroInv, MacroTypes
<1>8. PICK steps \in Macro!Recorded : work' = WorkOn(kind, n, Absent, Macro!Script(kind), steps)
  BY <1>1, <1>4
<1>9. Working(kind, n, Absent, Macro!Script(kind), steps)'
  BY <1>5, <1>6, <1>8 DEF Working, WorkOn
<1> QED
  BY <1>7, <1>9 DEF MacroInv

(* What a call that loads makes of the store.                                *)
LEMMA ChangeIs ==
  ASSUME NEW kind \in Macro!Kinds, NEW n \in Names, NEW steps \in Macro!Recorded, stored \in Store,
         kind = "schedule" => stored[n] # Absent
  PROVE  /\ kind = "record_stop" =>
              Loaded(Macro!Change(kind, stored, n, steps), n, [steps |-> steps, scheduled |-> FALSE])
         /\ kind = "delete" => Loaded(Macro!Change(kind, stored, n, steps), n, Absent)
         /\ kind = "schedule" => Loaded(Macro!Change(kind, stored, n, steps), n, Scheduled(stored[n], TRUE))
         /\ kind = "unschedule" => Loaded(Macro!Change(kind, stored, n, steps), n, Scheduled(stored[n], FALSE))
<1>1. ASSUME NEW made \in AnyMacro
      PROVE  Loaded([stored EXCEPT ![n] = made], n, made)
  BY DEF Loaded, Store
<1>2. CASE kind = "record_stop"
  BY <1>1, <1>2, MacroIs DEF Macro!Change
<1>3. CASE kind = "delete"
  BY <1>1, <1>3 DEF Macro!Change, AnyMacro
<1>4. CASE kind = "schedule"
  <2>1. stored[n] \in AnyMacro
    BY DEF Store
  <2>2. Macro!Change(kind, stored, n, steps) = [stored EXCEPT ![n] = Scheduled(stored[n], TRUE)]
    BY <1>4 DEF Macro!Change, Scheduled
  <2>3. Scheduled(stored[n], TRUE) \in AnyMacro
    BY <2>1, MacroIs
  <2> QED
    BY <1>1, <1>4, <2>2, <2>3
<1>5. CASE kind = "unschedule"
  <2>1. stored[n] \in AnyMacro
    BY DEF Store
  <2>2. CASE stored[n] = Absent
    <3>1. Macro!Change(kind, stored, n, steps) = stored
      BY <1>5, <2>2 DEF Macro!Change
    <3>2. Loaded(stored, n, Scheduled(stored[n], FALSE))
      BY <2>2 DEF Loaded, Scheduled
    <3> QED
      BY <1>5, <3>1, <3>2
  <2>3. CASE stored[n] # Absent
    <3>1. Macro!Change(kind, stored, n, steps) = [stored EXCEPT ![n] = Scheduled(stored[n], FALSE)]
      BY <1>5, <2>3 DEF Macro!Change, Scheduled
    <3>2. Scheduled(stored[n], FALSE) \in AnyMacro
      BY <2>1, MacroIs
    <3> QED
      BY <1>1, <1>5, <3>1, <3>2
  <2> QED
    BY <2>2, <2>3
<1> QED
  BY <1>2, <1>3, <1>4, <1>5

(* What a call that is to load, to save, to clear or to create has before it. *)
LEMMA Heads ==
  /\ Head(<<"load", "save">>) = "load" /\ Head(<<"save">>) = "save" /\ Head(<<"load", "save", "clear">>) = "load"
  /\ Head(<<"save", "clear">>) = "save" /\ Head(<<"clear">>) = "clear"
  /\ Head(<<"load", "save", "create">>) = "load" /\ Head(<<"save", "create">>) = "save"
  /\ Head(<<"create">>) = "create" /\ Head(<<"clear", "load", "save">>) = "clear"
  /\ Head(<<"load", "replay">>) = "load" /\ Head(<<"replay">>) = "replay"
OBVIOUS

LEMMA Tails ==
  /\ Tail(<<"load", "save">>) = <<"save">> /\ Tail(<<"load", "save", "clear">>) = <<"save", "clear">>
  /\ Tail(<<"save", "clear">>) = <<"clear">> /\ Tail(<<"load", "save", "create">>) = <<"save", "create">>
  /\ Tail(<<"save", "create">>) = <<"create">> /\ Tail(<<"clear", "load", "save">>) = <<"load", "save">>
  /\ Tail(<<"load", "replay">>) = <<"replay">>
OBVIOUS

LEMMA ToLoad ==
  ASSUME NEW kind, NEW n, NEW copy, NEW todo, NEW steps, Phase(kind, n, copy, todo, steps), Head(todo) = "load"
  PROVE  \/ kind = "record_stop" /\ todo = <<"load", "save">>
         \/ kind = "delete" /\ todo = <<"load", "save", "clear">>
         \/ kind = "schedule" /\ todo = <<"load", "save", "create">> /\ (n \notin torn => Settled(n))
         \/ /\ kind = "unschedule" /\ todo = <<"load", "save">>
            /\ n \notin torn => stored[n] = assured[n] /\ n \notin alarms
         \/ kind = "replay" /\ todo = <<"load", "replay">> /\ (n \notin torn => Settled(n))
<1>1. "load" # "save" /\ "load" # "clear" /\ "load" # "create" /\ "load" # "replay"
  OBVIOUS
<1> QED
  BY <1>1, Heads, Zenon DEF Phase, RecordPhase, DeletePhase, SchedulePhase, UnschedulePhase, ReplayPhase

Saving(kind, n, copy, todo, steps) ==
  \/ /\ kind = "record_stop" /\ todo = <<"save">>
     /\ Loaded(copy, n, [steps |-> steps, scheduled |-> FALSE])
  \/ kind = "delete" /\ todo = <<"save", "clear">> /\ Loaded(copy, n, Absent)
  \/ /\ kind = "schedule" /\ todo = <<"save", "create">> /\ Loaded(copy, n, Scheduled(stored[n], TRUE))
     /\ n \notin torn => stored[n] = assured[n] /\ stored[n] # Absent
  \/ /\ kind = "unschedule" /\ todo = <<"save">> /\ Loaded(copy, n, Scheduled(stored[n], FALSE))
     /\ n \notin torn => stored[n] = assured[n] /\ n \notin alarms

LEMMA ToSave ==
  ASSUME NEW kind, NEW n, NEW copy, NEW todo, NEW steps, Phase(kind, n, copy, todo, steps), Head(todo) = "save"
  PROVE  Saving(kind, n, copy, todo, steps)
<1>1. "save" # "load" /\ "save" # "clear" /\ "save" # "create" /\ "save" # "replay"
  OBVIOUS
<1> QED
  BY <1>1, Heads, Zenon DEF Saving, Phase, RecordPhase, DeletePhase, SchedulePhase, UnschedulePhase, ReplayPhase

SettingAlarm(kind, n, copy, todo, steps) ==
  \/ kind = "delete" /\ todo = <<"clear">> /\ (n \notin torn => stored[n] = Absent)
  \/ /\ kind = "schedule" /\ todo = <<"create">>
     /\ n \notin torn => assured[n] # Absent /\ stored[n] = Scheduled(assured[n], TRUE)
  \/ kind = "unschedule" /\ todo = <<"clear", "load", "save">> /\ (n \notin torn => Settled(n))

LEMMA ToSetAlarm ==
  ASSUME NEW kind, NEW n, NEW copy, NEW todo, NEW steps, Phase(kind, n, copy, todo, steps),
         Head(todo) = "clear" \/ Head(todo) = "create"
  PROVE  SettingAlarm(kind, n, copy, todo, steps)
<1>1. "clear" # "load" /\ "clear" # "save" /\ "clear" # "replay"
  OBVIOUS
<1>2. "create" # "load" /\ "create" # "save" /\ "create" # "replay"
  OBVIOUS
<1> QED
  BY <1>1, <1>2, Heads, Zenon DEF SettingAlarm, Phase, RecordPhase, DeletePhase, SchedulePhase, UnschedulePhase, ReplayPhase

LEMMA ToReplay ==
  ASSUME NEW kind, NEW n, NEW copy, NEW todo, NEW steps, Phase(kind, n, copy, todo, steps), Head(todo) = "replay"
  PROVE  kind = "replay" /\ todo = <<"replay">> /\ (n \notin torn => Settled(n))
<1>1. "replay" # "load" /\ "replay" # "clear" /\ "replay" # "create" /\ "replay" # "save"
  OBVIOUS
<1> QED
  BY <1>1, Heads, Zenon DEF Phase, RecordPhase, DeletePhase, SchedulePhase, UnschedulePhase, ReplayPhase

LEMMA StillWorks ==
  ASSUME NEW kind, NEW n \in Names, NEW c, NEW t, NEW steps \in Macro!Recorded, MacroTypes',
         work' = WorkOn(kind, n, c, t, steps), \A m \in Names \ torn' : m # n => Settled(m)',
         Phase(kind, n, c, t, steps)'
  PROVE  MacroInv'
<1>1. Working(kind, n, c, t, steps)'
  BY DEF Working, WorkOn
<1> QED
  BY <1>1 DEF MacroInv

LEMMA MacroLoads ==
  ASSUME MacroInv, NEW kind, NEW n, NEW copy, NEW todo, NEW steps, Working(kind, n, copy, todo, steps), Macro!Load
  PROVE  MacroInv'
<1>1. n \in Names /\ steps \in Macro!Recorded /\ kind \in Macro!Kinds /\ work = WorkOn(kind, n, copy, todo, steps)
  BY PhaseIs DEF Working
<1>2. Phase(kind, n, copy, todo, steps) /\ \A m \in Names \ torn : m # n => Settled(m)
  BY DEF Working
<1>3. work.todo = todo /\ work.kind = kind /\ work.name = n /\ work.steps = steps
  BY <1>1, WorkIs
<1>4. Head(todo) = "load" /\ UNCHANGED <<stored, alarms, recording, run>>
  BY <1>3 DEF Macro!Load, Macro!Doing
<1>5. \A m \in Names : stored' = stored /\ alarms' = alarms /\ assured' = assured => (Settled(m)' <=> Settled(m))
  BY DEF Settled
<1>6. CASE kind \in {"schedule", "replay"} /\ stored[n] = Absent
  <2>1. work' = Macro!NoWork /\ UNCHANGED <<assured, torn>>
    BY <1>3, <1>6 DEF Macro!Load
  <2>2. n \notin torn => Settled(n)
    BY <1>2, <1>4, <1>6, ToLoad
  <2>3. MacroTypes'
    BY <2>1, <1>4 DEF MacroInv, MacroTypes
  <2> QED
    BY <2>1, <2>2, <2>3, <1>2, <1>4, <1>5 DEF MacroInv
<1>7. CASE ~(kind \in {"schedule", "replay"} /\ stored[n] = Absent)
  <2> PICK c : c = Macro!Change(kind, stored, n, steps)
    OBVIOUS
  <2>1. Macro!Done(c)
    BY <1>3, <1>7 DEF Macro!Load
  <2>2. \/ kind = "record_stop" /\ todo = <<"load", "save">>
        \/ kind = "delete" /\ todo = <<"load", "save", "clear">>
        \/ kind = "schedule" /\ todo = <<"load", "save", "create">> /\ (n \notin torn => Settled(n))
        \/ /\ kind = "unschedule" /\ todo = <<"load", "save">>
           /\ n \notin torn => stored[n] = assured[n] /\ n \notin alarms
        \/ kind = "replay" /\ todo = <<"load", "replay">> /\ (n \notin torn => Settled(n))
    BY <1>2, <1>4, ToLoad
  <2>3. Len(todo) > 1
    BY <2>2
  <2>4. work' = WorkOn(kind, n, c, Tail(todo), steps) /\ UNCHANGED <<assured, torn>>
    BY <1>1, <2>1, <2>3, GoesOn
  <2>5. MacroTypes'
    BY <1>4, <2>4 DEF MacroInv, MacroTypes
  <2>6. stored \in Store
    BY DEF MacroInv, MacroTypes
  <2>7. \A made : Loaded(c, n, made) => Loaded(c, n, made)'
    BY <1>4, <2>4 DEF Loaded
  <2>8. Phase(kind, n, c, Tail(todo), steps)'
    <3>1. CASE kind = "record_stop"
      <4>0. Tail(todo) = <<"save">>
        BY <2>2, <3>1, Tails
      <4>1. Loaded(c, n, [steps |-> steps, scheduled |-> FALSE])
        BY <1>1, <1>7, <2>6, <3>1, ChangeIs
      <4> QED
        BY <2>7, <3>1, <4>0, <4>1 DEF Phase, RecordPhase
    <3>2. CASE kind = "delete"
      <4>0. Tail(todo) = <<"save", "clear">>
        BY <2>2, <3>2, Tails
      <4>1. Loaded(c, n, Absent)
        BY <1>1, <1>7, <2>6, <3>2, ChangeIs
      <4> QED
        BY <2>7, <3>2, <4>0, <4>1 DEF Phase, DeletePhase
    <3>3. CASE kind = "schedule"
      <4>0. Tail(todo) = <<"save", "create">>
        BY <2>2, <3>3, Tails
      <4>1. Loaded(c, n, Scheduled(stored[n], TRUE))
        BY <1>1, <1>7, <2>6, <3>3, ChangeIs
      <4>2. n \notin torn => stored[n] = assured[n] /\ stored[n] # Absent
        BY <1>7, <2>2, <3>3 DEF Settled
      <4>3. Loaded(c, n, Scheduled(stored[n], TRUE))'
        BY <1>4, <2>4, <4>1 DEF Loaded
      <4> QED
        BY <1>4, <2>4, <3>3, <4>0, <4>2, <4>3 DEF Phase, SchedulePhase
    <3>4. CASE kind = "unschedule"
      <4>0. Tail(todo) = <<"save">>
        BY <2>2, <3>4, Tails
      <4>1. Loaded(c, n, Scheduled(stored[n], FALSE))
        BY <1>1, <1>7, <2>6, <3>4, ChangeIs
      <4>2. n \notin torn => stored[n] = assured[n] /\ n \notin alarms
        BY <2>2, <3>4
      <4>3. Loaded(c, n, Scheduled(stored[n], FALSE))'
        BY <1>4, <2>4, <4>1 DEF Loaded
      <4> QED
        BY <1>4, <2>4, <3>4, <4>0, <4>2, <4>3 DEF Phase, UnschedulePhase
    <3>5. CASE kind = "replay"
      <4>1. Tail(todo) = <<"replay">> /\ (n \notin torn => Settled(n))
        BY <2>2, <3>5, Tails
      <4> QED
        BY <1>1, <1>4, <1>5, <2>4, <3>5, <4>1 DEF Phase, ReplayPhase
    <3> QED
      BY <2>2, <3>1, <3>2, <3>3, <3>4, <3>5
  <2>9. \A m \in Names \ torn' : m # n => Settled(m)'
    BY <1>2, <1>4, <1>5, <2>4
  <2> QED
    BY <1>1, <2>4, <2>5, <2>8, <2>9, StillWorks
<1> QED
  BY <1>6, <1>7

(* The last step of a call that has saved: every other name is settled still, *)
(* and so is its own once the client is told, if it is not torn.              *)
LEMMA Ends ==
  ASSUME MacroInv, NEW kind \in Macro!Kinds, NEW n \in Names, NEW copy, NEW todo, NEW steps,
         work = WorkOn(kind, n, copy, todo, steps), Len(todo) = 1, NEW c, Macro!Done(c),
         Macro!Promise(n) \in AnyMacro, stored' \in Store, alarms' \subseteq Names, UNCHANGED <<recording, run>>,
         \A m \in Names \ torn : m # n =>
           Settled(m) /\ stored'[m] = stored[m] /\ (m \in alarms' <=> m \in alarms),
         n \notin torn /\ (kind = "record_stop" => n \notin alarms) =>
           /\ stored'[n] = Macro!Promise(n)
           /\ (n \in alarms') = (stored'[n] # Absent /\ stored'[n].scheduled)
  PROVE  MacroInv'
<1>1. assured \in Store /\ torn \subseteq Names
  BY DEF MacroInv, MacroTypes
<1>2. /\ work' = Macro!NoWork /\ assured' \in Store /\ torn \subseteq torn' /\ torn' \subseteq Names
      /\ \A m \in Names \ torn' : assured'[m] = IF m = n THEN Macro!Promise(n) ELSE assured[m]
      /\ kind = "record_stop" /\ n \in alarms => n \in torn'
  BY <1>1, IsTold
<1>3. MacroTypes'
  BY <1>2 DEF MacroInv, MacroTypes
<1>4. \A m \in Names \ torn' : Settled(m)'
  BY <1>2 DEF Settled
<1> QED
  BY <1>2, <1>3, <1>4 DEF MacroInv

LEMMA PromiseIs ==
  ASSUME NEW kind \in Macro!Kinds, NEW n \in Names, NEW copy, NEW todo, NEW steps \in Macro!Recorded,
         work = WorkOn(kind, n, copy, todo, steps), assured \in Store
  PROVE  /\ Macro!Promise(n) \in AnyMacro
         /\ kind = "record_stop" => Macro!Promise(n) = [steps |-> steps, scheduled |-> FALSE]
         /\ kind = "delete" => Macro!Promise(n) = Absent
         /\ kind = "schedule" => Macro!Promise(n) = Scheduled(assured[n], TRUE)
         /\ kind = "unschedule" => Macro!Promise(n) = Scheduled(assured[n], FALSE)
         /\ kind = "replay" => Macro!Promise(n) = assured[n]
<1>1. work.kind = kind /\ work.steps = steps
  BY WorkIs
<1>2. assured[n] \in AnyMacro
  BY DEF Store
<1>3. CASE kind = "record_stop"
  BY <1>1, <1>3, MacroIs DEF Macro!Promise
<1>4. CASE kind = "delete"
  BY <1>1, <1>4 DEF Macro!Promise, AnyMacro
<1>5. CASE kind = "schedule"
  <2>1. Macro!Promise(n) = Scheduled(assured[n], TRUE)
    BY <1>1, <1>5 DEF Macro!Promise, Scheduled
  <2> QED
    BY <1>2, <1>5, <2>1, MacroIs
<1>6. CASE kind = "unschedule"
  <2>1. Macro!Promise(n) = Scheduled(assured[n], FALSE)
    BY <1>1, <1>6 DEF Macro!Promise, Scheduled
  <2> QED
    BY <1>2, <1>6, <2>1, MacroIs
<1>7. CASE kind = "replay"
  BY <1>1, <1>2, <1>7 DEF Macro!Promise
<1> QED
  BY <1>3, <1>4, <1>5, <1>6, <1>7 DEF Macro!Kinds

LEMMA MacroSaves ==
  ASSUME MacroInv, NEW kind, NEW n, NEW copy, NEW todo, NEW steps, Working(kind, n, copy, todo, steps), Macro!Save
  PROVE  MacroInv'
<1>1. n \in Names /\ steps \in Macro!Recorded /\ kind \in Macro!Kinds /\ work = WorkOn(kind, n, copy, todo, steps)
  BY PhaseIs DEF Working
<1>2. Phase(kind, n, copy, todo, steps) /\ \A m \in Names \ torn : m # n => Settled(m)
  BY DEF Working
<1>3. work.todo = todo /\ work.kind = kind /\ work.name = n /\ work.copy = copy
  BY <1>1, WorkIs
<1>4. /\ Head(todo) = "save" /\ Macro!Done(Absent) /\ UNCHANGED <<alarms, recording, run>>
      /\ stored' = IF kind = "unschedule" /\ copy[n] = Absent THEN stored ELSE copy
  BY <1>3 DEF Macro!Save, Macro!Doing
<1>11. Saving(kind, n, copy, todo, steps)
  BY <1>2, <1>4, ToSave
<1>5. stored \in Store /\ assured \in Store /\ alarms \subseteq Names
  BY DEF MacroInv, MacroTypes
<1>6. PICK made : Loaded(copy, n, made)
  BY <1>11 DEF Saving
<1>7. stored' \in Store /\ \A m \in Names \ torn : m # n => stored'[m] = stored[m]
  BY <1>4, <1>5, <1>6 DEF Loaded
<1>8. CASE kind = "record_stop"
  <2>1. todo = <<"save">> /\ Loaded(copy, n, [steps |-> steps, scheduled |-> FALSE])
    BY <1>11, <1>8 DEF Saving
  <2>2. Len(todo) = 1
    BY <2>1
  <2>3. n \notin torn => stored'[n] = [steps |-> steps, scheduled |-> FALSE]
    BY <1>1, <1>4, <1>8, <2>1 DEF Loaded
  <2>4. [steps |-> steps, scheduled |-> FALSE] # Absent /\ [steps |-> steps, scheduled |-> FALSE].scheduled = FALSE
    BY <1>1, MacroIs
  <2>5. Macro!Promise(n) \in AnyMacro /\ Macro!Promise(n) = [steps |-> steps, scheduled |-> FALSE]
    BY <1>1, <1>5, <1>8, PromiseIs
  <2>6. \A m \in Names \ torn : m # n => Settled(m) /\ stored'[m] = stored[m] /\ (m \in alarms' <=> m \in alarms)
    BY <1>2, <1>4, <1>7
  <2>7. n \notin torn /\ (kind = "record_stop" => n \notin alarms) =>
          /\ stored'[n] = Macro!Promise(n)
          /\ (n \in alarms') = (stored'[n] # Absent /\ stored'[n].scheduled)
    BY <1>4, <1>8, <2>3, <2>4, <2>5
  <2> QED
    BY <1>1, <1>4, <1>5, <1>7, <2>2, <2>5, <2>6, <2>7, Ends
<1>9. CASE kind = "unschedule"
  <2>1. /\ todo = <<"save">> /\ Loaded(copy, n, Scheduled(stored[n], FALSE))
        /\ n \notin torn => stored[n] = assured[n] /\ n \notin alarms
    BY <1>11, <1>9 DEF Saving
  <2>2. Len(todo) = 1
    BY <2>1
  <2>3. Macro!Promise(n) \in AnyMacro /\ Macro!Promise(n) = Scheduled(assured[n], FALSE)
    BY <1>1, <1>5, <1>9, PromiseIs
  <2>4. stored[n] \in AnyMacro
    BY <1>1, <1>5 DEF Store
  <2>5. /\ Scheduled(stored[n], FALSE) = Absent <=> stored[n] = Absent
        /\ stored[n] # Absent => Scheduled(stored[n], FALSE).scheduled = FALSE
    BY <2>4, MacroIs
  <2>6. n \notin torn => stored'[n] = Scheduled(stored[n], FALSE)
    BY <1>1, <1>4, <1>9, <2>1, <2>5 DEF Loaded
  <2>7. \A m \in Names \ torn : m # n => Settled(m) /\ stored'[m] = stored[m] /\ (m \in alarms' <=> m \in alarms)
    BY <1>2, <1>4, <1>7
  <2>8. n \notin torn /\ (kind = "record_stop" => n \notin alarms) =>
          /\ stored'[n] = Macro!Promise(n)
          /\ (n \in alarms') = (stored'[n] # Absent /\ stored'[n].scheduled)
    <3>1. n \notin torn => stored'[n] = Macro!Promise(n) /\ n \notin alarms'
      BY <1>4, <2>1, <2>3, <2>6
    <3>2. n \notin torn => ~(stored'[n] # Absent /\ stored'[n].scheduled)
      BY <2>5, <2>6, Zenon
    <3> QED
      BY <3>1, <3>2
  <2> QED
    BY <1>1, <1>4, <1>5, <1>7, <2>2, <2>3, <2>7, <2>8, Ends
<1>10. CASE kind = "delete" \/ kind = "schedule"
  <2>1. Len(todo) > 1
    <3>1. todo = <<"save", "clear">> \/ todo = <<"save", "create">>
      BY <1>11, <1>10 DEF Saving
    <3> QED
      BY <3>1
  <2>2. work' = WorkOn(kind, n, Absent, Tail(todo), steps) /\ UNCHANGED <<assured, torn>>
    BY <1>1, <1>4, <2>1, GoesOn
  <2>3. MacroTypes'
    BY <1>4, <1>7, <2>2 DEF MacroInv, MacroTypes
  <2>4. \A m \in Names \ torn' : m # n => Settled(m)'
    BY <1>2, <1>4, <1>7, <2>2 DEF Settled
  <2>5. stored' = copy
    BY <1>4, <1>10
  <2>6. CASE kind = "delete"
    <3>1. todo = <<"save", "clear">> /\ Loaded(copy, n, Absent)
      BY <1>11, <2>6 DEF Saving
    <3>2. n \notin torn => stored'[n] = Absent
      BY <1>1, <2>5, <3>1 DEF Loaded
    <3>3. Tail(todo) = <<"clear">>
      BY <3>1, Tails
    <3>4. Phase(kind, n, Absent, Tail(todo), steps)'
      BY <2>2, <2>6, <3>2, <3>3 DEF Phase, DeletePhase
    <3> QED
      BY <1>1, <2>2, <2>3, <2>4, <3>4, StillWorks
  <2>7. CASE kind = "schedule"
    <3>1. /\ todo = <<"save", "create">> /\ Loaded(copy, n, Scheduled(stored[n], TRUE))
          /\ n \notin torn => stored[n] = assured[n] /\ stored[n] # Absent
      BY <1>11, <2>7 DEF Saving
    <3>2. n \notin torn => stored'[n] = Scheduled(assured[n], TRUE) /\ assured[n] # Absent
      BY <1>1, <2>5, <3>1 DEF Loaded
    <3>3. Tail(todo) = <<"create">>
      BY <3>1, Tails
    <3>4. Phase(kind, n, Absent, Tail(todo), steps)'
      BY <2>2, <2>7, <3>2, <3>3 DEF Phase, SchedulePhase
    <3> QED
      BY <1>1, <2>2, <2>3, <2>4, <3>4, StillWorks
  <2> QED
    BY <1>10, <2>6, <2>7
<1> QED
  BY <1>11, <1>8, <1>9, <1>10 DEF Saving

LEMMA MacroSetsAlarm ==
  ASSUME MacroInv, NEW kind, NEW n, NEW copy, NEW todo, NEW steps, Working(kind, n, copy, todo, steps), Macro!SetAlarm
  PROVE  MacroInv'
<1>1. n \in Names /\ steps \in Macro!Recorded /\ kind \in Macro!Kinds /\ work = WorkOn(kind, n, copy, todo, steps)
  BY PhaseIs DEF Working
<1>2. Phase(kind, n, copy, todo, steps) /\ \A m \in Names \ torn : m # n => Settled(m)
  BY DEF Working
<1>3. work.todo = todo /\ work.kind = kind /\ work.name = n /\ work.copy = copy
  BY <1>1, WorkIs
<1>4. /\ Head(todo) = "clear" \/ Head(todo) = "create"
      /\ Macro!Done(copy) /\ UNCHANGED <<stored, recording, run>>
      /\ alarms' = IF Head(todo) = "create" THEN alarms \union {n} ELSE alarms \ {n}
  BY <1>1, <1>3 DEF Macro!SetAlarm, Macro!Doing
<1>10. SettingAlarm(kind, n, copy, todo, steps)
  BY <1>2, <1>4, ToSetAlarm
<1>5. stored \in Store /\ assured \in Store /\ alarms' \subseteq Names
  BY <1>1, <1>4 DEF MacroInv, MacroTypes
<1>6. \A m \in Names : m # n => (m \in alarms' <=> m \in alarms)
  BY <1>4
<1>7. CASE kind = "delete"
  <2>1. todo = <<"clear">> /\ (n \notin torn => stored[n] = Absent)
    BY <1>10, <1>7 DEF SettingAlarm
  <2>2. Len(todo) = 1 /\ Head(todo) = "clear"
    BY <2>1
  <2>3. Macro!Promise(n) \in AnyMacro /\ Macro!Promise(n) = Absent
    BY <1>1, <1>5, <1>7, PromiseIs
  <2> QED
    BY <1>1, <1>2, <1>4, <1>5, <1>6, <2>1, <2>2, <2>3, Ends
<1>8. CASE kind = "schedule"
  <2>1. /\ todo = <<"create">>
        /\ n \notin torn => assured[n] # Absent /\ stored[n] = Scheduled(assured[n], TRUE)
    BY <1>10, <1>8 DEF SettingAlarm
  <2>2. Len(todo) = 1 /\ Head(todo) = "create"
    BY <2>1
  <2>3. Macro!Promise(n) \in AnyMacro /\ Macro!Promise(n) = Scheduled(assured[n], TRUE)
    BY <1>1, <1>5, <1>8, PromiseIs
  <2>4. assured[n] # Absent => Scheduled(assured[n], TRUE) # Absent /\ Scheduled(assured[n], TRUE).scheduled = TRUE
    <3>1. assured[n] \in AnyMacro
      BY <1>1, <1>5 DEF Store
    <3> QED
      BY <3>1, MacroIs
  <2>5. n \in alarms'
    BY <1>4, <2>2
  <2> QED
    BY <1>1, <1>2, <1>4, <1>5, <1>6, <1>8, <2>1, <2>2, <2>3, <2>4, <2>5, Ends
<1>9. CASE kind = "unschedule"
  <2>1. todo = <<"clear", "load", "save">> /\ (n \notin torn => Settled(n))
    BY <1>10, <1>9 DEF SettingAlarm
  <2>2. Len(todo) > 1 /\ Head(todo) = "clear"
    BY <2>1
  <2>3. work' = WorkOn(kind, n, copy, Tail(todo), steps) /\ UNCHANGED <<assured, torn>>
    BY <1>1, <1>4, <2>2, GoesOn
  <2>4. MacroTypes'
    BY <1>4, <1>5, <2>3 DEF MacroInv, MacroTypes
  <2>5. \A m \in Names \ torn' : m # n => Settled(m)'
    BY <1>2, <1>4, <1>6, <2>3 DEF Settled
  <2>6. Tail(todo) = <<"load", "save">>
    BY <2>1, Tails
  <2>7. n \notin torn => stored[n] = assured[n] /\ n \notin alarms'
    BY <1>4, <2>1, <2>2 DEF Settled
  <2>8. Phase(kind, n, copy, Tail(todo), steps)'
    BY <1>4, <1>9, <2>3, <2>6, <2>7 DEF Phase, UnschedulePhase
  <2> QED
    BY <1>1, <2>3, <2>4, <2>5, <2>8, StillWorks
<1> QED
  BY <1>10, <1>7, <1>8, <1>9 DEF SettingAlarm

LEMMA MacroReplays ==
  ASSUME MacroInv, NEW kind, NEW n, NEW copy, NEW todo, NEW steps, Working(kind, n, copy, todo, steps), Macro!Replay
  PROVE  MacroInv'
<1>1. n \in Names /\ steps \in Macro!Recorded /\ kind \in Macro!Kinds /\ work = WorkOn(kind, n, copy, todo, steps)
  BY PhaseIs DEF Working
<1>2. Phase(kind, n, copy, todo, steps) /\ \A m \in Names \ torn : m # n => Settled(m)
  BY DEF Working
<1>3. work.todo = todo /\ work.copy = copy
  BY <1>1, WorkIs
<1>4. Head(todo) = "replay" /\ Macro!Done(copy) /\ UNCHANGED <<stored, alarms, recording, run>>
  BY <1>3 DEF Macro!Replay, Macro!Doing
<1>5. kind = "replay" /\ todo = <<"replay">> /\ (n \notin torn => Settled(n))
  BY <1>2, <1>4, ToReplay
<1>6. stored \in Store /\ assured \in Store /\ alarms \subseteq Names
  BY DEF MacroInv, MacroTypes
<1>7. Macro!Promise(n) \in AnyMacro /\ Macro!Promise(n) = assured[n]
  BY <1>1, <1>5, <1>6, PromiseIs
<1>8. Len(todo) = 1
  BY <1>5
<1> QED
  BY <1>1, <1>2, <1>4, <1>5, <1>6, <1>7, <1>8, Ends DEF Settled

LEMMA MacroFails ==
  ASSUME MacroInv, NEW kind, NEW n, NEW copy, NEW todo, NEW steps, Working(kind, n, copy, todo, steps), Macro!Fail
  PROVE  MacroInv'
<1>1. n \in Names /\ kind \in Macro!Kinds /\ work = WorkOn(kind, n, copy, todo, steps)
  BY PhaseIs DEF Working
<1>2. Phase(kind, n, copy, todo, steps) /\ \A m \in Names \ torn : m # n => Settled(m)
  BY DEF Working
<1>3. work.kind = kind /\ work.name = n
  BY <1>1, WorkIs
<1> DEFINE names == IF kind = "replay" THEN {} ELSE {n}
<1>4. work' = Macro!NoWork /\ Macro!Tear(names, assured) /\ UNCHANGED <<stored, alarms, recording, run>>
  BY <1>3 DEF Macro!Fail
<1>5. /\ torn' = torn \union names
      /\ assured' = [m \in Names |-> IF m \in torn \union names THEN Absent ELSE assured[m]]
  BY <1>4 DEF Macro!Tear
<1>6. MacroTypes'
  BY <1>1, <1>4, <1>5 DEF MacroInv, MacroTypes, Store, AnyMacro
<1>7. kind = "replay" => (n \notin torn => Settled(n))
  BY <1>2 DEF Phase, ReplayPhase
<1>8. \A m \in Names \ torn' : Settled(m)'
  BY <1>2, <1>4, <1>5, <1>7 DEF Settled
<1> QED
  BY <1>4, <1>6, <1>8 DEF MacroInv

(* A run puts back the store as it was at the alarm; the names on which that *)
(* makes a difference are torn.                                              *)
LEMMA MacroRunEnds ==
  ASSUME MacroInv, Macro!RunEnds
  PROVE  MacroInv'
<1>1. /\ run # Absent /\ run' = Absent /\ stored' = run.copy /\ UNCHANGED <<alarms, recording, work>>
      /\ torn' = torn \union {n \in Names : stored[n] # run.copy[n]}
      /\ assured' = [n \in Names |-> IF n \in torn' THEN Absent ELSE assured[n]]
  BY DEF Macro!RunEnds, Macro!Tear
<1>2. MacroTypes'
  BY <1>1 DEF MacroInv, MacroTypes, Store, AnyMacro
<1>3. torn \subseteq torn' /\ \A n \in Names \ torn' : stored'[n] = stored[n] /\ assured'[n] = assured[n]
  BY <1>1
<1>4. \A n \in Names \ torn' : Settled(n)' <=> Settled(n)
  BY <1>1, <1>3 DEF Settled
<1>5. ASSUME NEW kind, NEW n, NEW copy, NEW todo, NEW steps, Working(kind, n, copy, todo, steps)
      PROVE  Working(kind, n, copy, todo, steps)'
  <2>1. n \in Names /\ Phase(kind, n, copy, todo, steps)
    BY <1>5 DEF Working
  <2>2. \A made : Loaded(copy, n, made) => Loaded(copy, n, made)'
    BY <1>3 DEF Loaded
  <2>3. \A s : Loaded(copy, n, Scheduled(stored[n], s)) => Loaded(copy, n, Scheduled(stored[n], s))'
    BY <1>3 DEF Loaded
  <2>4. RecordPhase(n, copy, todo, steps) => RecordPhase(n, copy, todo, steps)'
    BY <2>2 DEF RecordPhase
  <2>5. DeletePhase(n, copy, todo) => DeletePhase(n, copy, todo)'
    BY <1>3, <2>1, <2>2 DEF DeletePhase
  <2>6. SchedulePhase(n, copy, todo) => SchedulePhase(n, copy, todo)'
    BY <1>3, <1>4, <2>1, <2>3 DEF SchedulePhase
  <2>7. UnschedulePhase(n, copy, todo) => UnschedulePhase(n, copy, todo)'
    BY <1>1, <1>3, <1>4, <2>1, <2>3 DEF UnschedulePhase
  <2>8. ReplayPhase(n, todo) => ReplayPhase(n, todo)'
    BY <1>3, <1>4, <2>1 DEF ReplayPhase
  <2>9. Phase(kind, n, copy, todo, steps)'
    BY <2>1, <2>4, <2>5, <2>6, <2>7, <2>8 DEF Phase
  <2> QED
    BY <1>1, <1>3, <1>4, <1>5, <2>9 DEF Working, WorkOn
<1> QED
  BY <1>1, <1>2, <1>3, <1>4, <1>5 DEF MacroInv

LEMMA MacroStep ==
  ASSUME MacroInv, Macro!Next
  PROVE  MacroInv'
<1>1. CASE Macro!RecordStart \/ Macro!RecordStep \/ Macro!WorkerStops
  <2>1. UNCHANGED <<stored, alarms, work, assured, torn>> /\ recording' \in {Absent} \union Macro!Recorded
        /\ (run' = run \/ run' = Absent)
    BY <1>1 DEF Macro!RecordStart, Macro!RecordStep, Macro!WorkerStops, Macro!Recorded
  <2> QED
    BY <2>1, MacroUntouched DEF MacroInv, MacroTypes
<1>2. ASSUME NEW n \in Names, Macro!Alarm(n)
      PROVE  MacroInv'
  <2>1. UNCHANGED <<stored, alarms, recording, work, assured, torn>> /\ run'.copy = stored
    BY <1>2 DEF Macro!Alarm
  <2> QED
    BY <2>1, MacroUntouched DEF MacroInv, MacroTypes
<1>3. CASE Macro!Load \/ Macro!Save \/ Macro!SetAlarm \/ Macro!Replay \/ Macro!Fail
  <2>1. work # Macro!NoWork
    BY <1>3 DEF Macro!Load, Macro!Save, Macro!SetAlarm, Macro!Replay, Macro!Fail, Macro!Doing
  <2>2. PICK kind, n, copy, todo, steps : Working(kind, n, copy, todo, steps)
    BY <2>1 DEF MacroInv
  <2> QED
    BY <1>3, <2>2, MacroLoads, MacroSaves, MacroSetsAlarm, MacroReplays, MacroFails
<1> QED
  BY <1>1, <1>2, <1>3, CallsBegin, MacroRunEnds DEF Macro!Next

(* Between calls the stored macros and the alarms are those the client was   *)
(* told of (macro.ts), but for the names that are torn.                      *)
THEOREM StoreIsAsTold == Spec => []StoreIsTrue
<1> DEFINE Inv == MacroInv
<1>1. Init => Inv
  BY MacroInitially DEF Init
<1>2. Inv /\ [Next]_vars => Inv'
  <2>1. Next => Macro!Next \/ UNCHANGED macroVars
    BY DEF Next
  <2>2. UNCHANGED vars => UNCHANGED macroVars
    BY DEF vars
  <2>3. UNCHANGED macroVars /\ Inv => Inv'
    BY MacroUntouched DEF macroVars, MacroInv, MacroTypes
  <2> QED
    BY <2>1, <2>2, <2>3, MacroStep
<1>3. Inv => StoreIsTrue
  <2>1. ASSUME MacroInv, work = Macro!NoWork
        PROVE  \A n \in Names \ torn : Settled(n)
    <3>1. \A k, m, c, t, s : ~Working(k, m, c, t, s)
      BY <2>1, WorkIs, PhaseIs DEF Working
    <3> QED
      BY <2>1, <3>1 DEF MacroInv
  <2> QED
    BY <2>1 DEF StoreIsTrue, Macro!StoreIsTrue, Settled
<1> QED
  BY <1>1, <1>2, <1>3, PTL DEF Spec

-----------------------------------------------------------------------------
(***************************************************************************)
(* ElementRefs.  What is above an element is a recursive function: that it *)
(* is one, and what it says of a tree, is by the least counterexample.     *)
(***************************************************************************)
Rooted(p) ==
  /\ p \in [1..N -> 0..N]
  /\ \A e \in 1..N : p[e] \in 0..(e - 1)

IsUp(p, up, n) ==
  up = [f \in 1..n |-> IF p[f] = 0 THEN {} ELSE {p[f]} \union up[p[f]]]

(* The marks of the elements that are listed tell those of a frame apart, and*)
(* a ref that is told of one of them is its mark, while the telling is       *)
(* current. What is listed is of frames that have the script, and none of it *)
(* is there any more when form_input finds no frame that has.                *)
Distinct == \A e, f \in listed : Refs!Common(e, f) # {} /\ mark[e] = mark[f] => e = f
Meant == current => \A pair \in told : pair[2] \in listed => mark[pair[2]] = pair[1]
Scripted == \A e \in listed : \E b \in script : e \in Refs!Frame(b)
Reachable == call = "act" => \A e \in listed : ~Refs!Attached(e)

RefsInv ==
  /\ parent \in Refs!Trees /\ listed \subseteq 1..N /\ mark \in [1..N -> Nat]
  /\ \A pair \in told : pair[1] # 0
  /\ Distinct /\ Meant /\ Scripted /\ Reachable

LEMMA UpTo ==
  ASSUME NEW p, Rooted(p), NEW n \in 0..N
  PROVE  \E up : IsUp(p, up, n)
<1> USE ToolsAssumption
<1> DEFINE Without == {i \in 0..N : ~ \E up : IsUp(p, up, i)}
<1> SUFFICES ASSUME Without # {}
             PROVE  FALSE
  OBVIOUS
<1>1. PICK i \in Without : \A j \in Without : i <= j
  <2>1. Without \in SUBSET Nat
    OBVIOUS
  <2> HIDE DEF Without
  <2> QED
    BY <2>1, Least
<1>2. i \in 0..N /\ ~ \E up : IsUp(p, up, i)
  OBVIOUS
<1>3. i # 0
  <2>1. IsUp(p, [f \in 1..0 |-> {}], 0)
    BY DEF IsUp
  <2> QED
    BY <1>2, <2>1
<1>4. PICK g : IsUp(p, g, i - 1)
  <2>1. i - 1 \in 0..N /\ ~(i <= i - 1)
    BY <1>2, <1>3
  <2>2. i - 1 \notin Without
    BY <1>1, <2>1
  <2> QED
    BY <2>1, <2>2
<1> HIDE DEF Without
<1>5. \A f \in 1..(i - 1) : g[f] = IF p[f] = 0 THEN {} ELSE {p[f]} \union g[p[f]]
  BY <1>4 DEF IsUp
<1> DEFINE up == [f \in 1..i |-> IF p[f] = 0 THEN {} ELSE {p[f]} \union g[p[f]]]
<1>6. \A f \in 1..i : p[f] # 0 => p[f] \in 1..(i - 1)
  BY <1>2 DEF Rooted
<1>7. \A f \in 1..(i - 1) : up[f] = g[f]
  <2>1. ASSUME NEW f \in 1..(i - 1)
        PROVE  up[f] = g[f]
    <3>1. f \in 1..i
      BY <1>2
    <3>2. up[f] = IF p[f] = 0 THEN {} ELSE {p[f]} \union g[p[f]]
      BY <3>1
    <3> QED
      BY <1>5, <2>1, <3>2
  <2> QED
    BY <2>1
<1>8. \A f \in 1..i : p[f] # 0 => up[p[f]] = g[p[f]]
  BY <1>6, <1>7
<1>9. up = [f \in 1..i |-> IF p[f] = 0 THEN {} ELSE {p[f]} \union up[p[f]]]
  BY <1>8
<1> QED
  BY <1>2, <1>9 DEF IsUp

LEMMA AboveInIs ==
  ASSUME NEW p, Rooted(p)
  PROVE  \A e \in 1..N : Refs!AboveIn(p, e) = IF p[e] = 0 THEN {} ELSE {p[e]} \union Refs!AboveIn(p, p[e])
<1> DEFINE up == CHOOSE g : g = [f \in 1..N |-> IF p[f] = 0 THEN {} ELSE {p[f]} \union g[p[f]]]
<1>1. \A e : Refs!AboveIn(p, e) = up[e]
  BY DEF Refs!AboveIn, Refs!Elements
<1>2. \E g : g = [f \in 1..N |-> IF p[f] = 0 THEN {} ELSE {p[f]} \union g[p[f]]]
  <2>1. N \in 0..N
    BY ToolsAssumption
  <2>2. PICK g : IsUp(p, g, N)
    BY <2>1, UpTo
  <2> QED
    BY <2>2 DEF IsUp
<1>3. up = [f \in 1..N |-> IF p[f] = 0 THEN {} ELSE {p[f]} \union up[p[f]]]
  BY <1>2
<1> HIDE DEF up
<1> QED
  BY <1>1, <1>3

LEMMA AboveOf ==
  ASSUME NEW p, Rooted(p), NEW e \in 1..N
  PROVE  /\ p[e] = 0 => Refs!AboveIn(p, e) = {}
         /\ p[e] # 0 => /\ p[e] \in 1..(e - 1) /\ p[e] \in 1..N /\ e # 1
                        /\ Refs!AboveIn(p, e) = {p[e]} \union Refs!AboveIn(p, p[e])
<1>1. Refs!AboveIn(p, e) = IF p[e] = 0 THEN {} ELSE {p[e]} \union Refs!AboveIn(p, p[e])
  BY AboveInIs
<1>2. p[e] # 0 => p[e] \in 1..(e - 1)
  BY ToolsAssumption DEF Rooted
<1>3. p[e] # 0 => p[e] \in 1..N /\ e # 1
  BY <1>2, ToolsAssumption
<1> QED
  BY <1>1, <1>2, <1>3

LEMMA Upwards ==
  ASSUME NEW S \in SUBSET (1..N), \A e \in 1..N : (\A f \in 1..(e - 1) : f \in S) => e \in S
  PROVE  S = 1..N
<1> USE ToolsAssumption
<1> DEFINE T == (1..N) \ S
<1> SUFFICES ASSUME T # {}
             PROVE  FALSE
  OBVIOUS
<1>1. T \in SUBSET Nat
  OBVIOUS
<1>2. PICK i \in T : \A j \in T : i <= j
  <2> HIDE DEF T
  <2> QED
    BY <1>1, Least
<1>3. \A f \in 1..(i - 1) : f \in S
  <2>1. ASSUME NEW f \in 1..(i - 1)
        PROVE  f \in S
    <3>1. f \in 1..N /\ ~(i <= f)
      BY <1>1, <1>2
    <3> QED
      BY <1>2, <3>1
  <2> QED
    BY <2>1
<1> QED
  BY <1>2, <1>3

LEMMA TreeIs ==
  ASSUME NEW p \in Refs!Trees
  PROVE  Rooted(p) /\ \A e \in 2..N : p[e] = 0 \/ p[e] = e - 1 \/ p[e] \in Refs!AboveIn(p, e - 1)
<1>1. /\ p \in [1..N -> 0..N]
      /\ \A e \in 1..N : p[e] \in 0..(e - 1)
      /\ \A e \in (1..N) \ {1} : p[e] \in {0, e - 1} \union Refs!AboveIn(p, e - 1)
  BY DEF Refs!Trees, Refs!Elements, Refs!Main
<1>2. \A e \in 2..N : e \in (1..N) \ {1}
  BY ToolsAssumption
<1> QED
  BY <1>1, <1>2 DEF Rooted

LEMMA AboveIsSmaller ==
  ASSUME NEW p, Rooted(p)
  PROVE  \A e \in 1..N : Refs!AboveIn(p, e) \subseteq 1..(e - 1)
<1> USE ToolsAssumption
<1> DEFINE S == {e \in 1..N : Refs!AboveIn(p, e) \subseteq 1..(e - 1)}
<1>1. ASSUME NEW e \in 1..N, \A f \in 1..(e - 1) : f \in S
      PROVE  e \in S
  <2>1. CASE p[e] = 0
    BY <2>1, AboveOf
  <2>2. CASE p[e] # 0
    <3>1. p[e] \in 1..(e - 1) /\ Refs!AboveIn(p, e) = {p[e]} \union Refs!AboveIn(p, p[e])
      BY <2>2, AboveOf
    <3>2. Refs!AboveIn(p, p[e]) \subseteq 1..(p[e] - 1)
      BY <1>1, <3>1
    <3> QED
      BY <3>1, <3>2
  <2> QED
    BY <2>1, <2>2
<1>2. S = 1..N
  <2>1. S \in SUBSET (1..N)
    OBVIOUS
  <2> HIDE DEF S
  <2> QED
    BY <1>1, <2>1, Upwards
<1> QED
  BY <1>2

LEMMA AboveIsTransitive ==
  ASSUME NEW p, Rooted(p)
  PROVE  \A e \in 1..N : \A f \in Refs!AboveIn(p, e) : Refs!AboveIn(p, f) \subseteq Refs!AboveIn(p, e)
<1> USE ToolsAssumption
<1> DEFINE S == {e \in 1..N : \A f \in Refs!AboveIn(p, e) : Refs!AboveIn(p, f) \subseteq Refs!AboveIn(p, e)}
<1>1. ASSUME NEW e \in 1..N, \A f \in 1..(e - 1) : f \in S
      PROVE  e \in S
  <2>1. CASE p[e] = 0
    BY <2>1, AboveOf
  <2>2. CASE p[e] # 0
    <3>1. p[e] \in 1..(e - 1) /\ Refs!AboveIn(p, e) = {p[e]} \union Refs!AboveIn(p, p[e])
      BY <2>2, AboveOf
    <3>2. \A f \in Refs!AboveIn(p, p[e]) : Refs!AboveIn(p, f) \subseteq Refs!AboveIn(p, p[e])
      BY <1>1, <3>1
    <3> QED
      BY <3>1, <3>2
  <2> QED
    BY <2>1, <2>2
<1>2. S = 1..N
  <2>1. S \in SUBSET (1..N)
    OBVIOUS
  <2> HIDE DEF S
  <2> QED
    BY <1>1, <2>1, Upwards
<1> QED
  BY <1>2

(* What is below an element follows it without a gap.                        *)
LEMMA BelowIsTogether ==
  ASSUME NEW p \in Refs!Trees
  PROVE  \A e \in 1..N : \A b \in Refs!AboveIn(p, e) : \A c \in (b + 1)..e : b \in Refs!AboveIn(p, c)
<1> USE ToolsAssumption
<1>1. Rooted(p) /\ \A e \in 2..N : p[e] = 0 \/ p[e] = e - 1 \/ p[e] \in Refs!AboveIn(p, e - 1)
  BY TreeIs
<1> DEFINE S == {e \in 1..N : \A b \in Refs!AboveIn(p, e) : \A c \in (b + 1)..e : b \in Refs!AboveIn(p, c)}
<1>2. ASSUME NEW e \in 1..N, \A f \in 1..(e - 1) : f \in S
      PROVE  e \in S
  <2>1. CASE p[e] = 0
    BY <1>1, <2>1, AboveOf
  <2>2. CASE p[e] # 0
    <3>1. e \in 2..N /\ e - 1 \in 1..N /\ e - 1 \in 1..(e - 1)
      <4>1. e # 1
        BY <1>1, <2>2, AboveOf
      <4> QED
        BY <4>1
    <3>2. Refs!AboveIn(p, e) = {p[e]} \union Refs!AboveIn(p, p[e]) /\ p[e] \in 1..N
      BY <1>1, <2>2, AboveOf
    <3>3. \A b \in Refs!AboveIn(p, e) : b \in 1..(e - 1) /\ (b # e - 1 => b \in Refs!AboveIn(p, e - 1))
      <4>1. \A b \in Refs!AboveIn(p, e) : b \in 1..(e - 1)
        BY <1>1, AboveIsSmaller
      <4>2. CASE p[e] = e - 1
        BY <3>2, <4>1, <4>2
      <4>3. CASE p[e] \in Refs!AboveIn(p, e - 1)
        <5>1. Refs!AboveIn(p, p[e]) \subseteq Refs!AboveIn(p, e - 1)
          BY <1>1, <3>1, <4>3, AboveIsTransitive
        <5> QED
          BY <3>2, <4>1, <4>3, <5>1
      <4> QED
        BY <1>1, <2>2, <3>1, <4>2, <4>3
    <3>4. \A b \in Refs!AboveIn(p, e - 1) : \A c \in (b + 1)..(e - 1) : b \in Refs!AboveIn(p, c)
      BY <1>2, <3>1
    <3>5. ASSUME NEW b \in Refs!AboveIn(p, e), NEW c \in (b + 1)..e
          PROVE  b \in Refs!AboveIn(p, c)
      <4>1. b \in 1..(e - 1)
        BY <3>3
      <4>2. CASE c = e
        BY <4>2
      <4>3. CASE c # e
        <5>1. c \in (b + 1)..(e - 1) /\ b # e - 1
          BY <4>1, <4>3
        <5> QED
          BY <3>3, <3>4, <5>1
      <4> QED
        BY <4>2, <4>3
    <3> QED
      BY <3>5
  <2> QED
    BY <2>1, <2>2
<1>3. S = 1..N
  <2>1. S \in SUBSET (1..N)
    OBVIOUS
  <2> HIDE DEF S
  <2> QED
    BY <1>2, <2>1, Upwards
<1> QED
  BY <1>3

(* The order in which refs are given is a strict total order: children come  *)
(* before their parents, and otherwise it is the document's.                 *)
LEMMA BeforeIsOrder ==
  ASSUME parent \in Refs!Trees, NEW e \in 1..N, NEW f \in 1..N
  PROVE  /\ ~Refs!Before(e, e)
         /\ e # f => Refs!Before(e, f) \/ Refs!Before(f, e)
         /\ ~(Refs!Before(e, f) /\ Refs!Before(f, e))
<1>1. Rooted(parent)
  BY TreeIs
<1>2. \A g \in 1..N : Refs!AboveIn(parent, g) \subseteq 1..(g - 1)
  BY <1>1, AboveIsSmaller
<1>3. /\ \A g \in Refs!AboveIn(parent, e) : g < e
      /\ \A g \in Refs!AboveIn(parent, f) : g < f
  BY <1>2, ToolsAssumption
<1> QED
  BY <1>3, ToolsAssumption DEF Refs!Before, Refs!Above

LEMMA BeforeIsTransitive ==
  ASSUME parent \in Refs!Trees, NEW a \in 1..N, NEW b \in 1..N, NEW c \in 1..N,
         Refs!Before(a, b), Refs!Before(b, c)
  PROVE  Refs!Before(a, c)
<1> USE ToolsAssumption
<1> DEFINE A(e) == Refs!AboveIn(parent, e)
<1>1. Rooted(parent)
  BY TreeIs
<1>2. \A e \in 1..N : \A f \in A(e) : f \in 1..N /\ f < e /\ A(f) \subseteq A(e)
  <2>1. ASSUME NEW e \in 1..N, NEW f \in A(e)
        PROVE  f \in 1..N /\ f < e
    <3>1. f \in 1..(e - 1)
      BY <1>1, AboveIsSmaller
    <3> QED
      BY <3>1
  <2> QED
    BY <1>1, <2>1, AboveIsTransitive
<1>3. \A e, x, y \in 1..N : x \in A(e) /\ x < y /\ y <= e => x \in A(y)
  <2>1. ASSUME NEW e \in 1..N, NEW x \in 1..N, NEW y \in 1..N, x \in A(e), x < y, y <= e
        PROVE  x \in A(y)
    <3>1. y \in (x + 1)..e
      BY <2>1
    <3> QED
      BY <2>1, <3>1, BelowIsTogether
  <2> QED
    BY <2>1
<1> HIDE DEF A
<1>4. /\ b \in A(a) \/ (a < b /\ a \notin A(b))
      /\ c \in A(b) \/ (b < c /\ b \notin A(c))
  BY DEF Refs!Before, Refs!Above, A
<1>5. SUFFICES ASSUME c \notin A(a)
               PROVE  a < c /\ a \notin A(c)
  BY DEF Refs!Before, Refs!Above, A
<1>6. CASE b \in A(a) /\ c \in A(b)
  BY <1>2, <1>5, <1>6
<1>7. CASE b \in A(a) /\ b < c /\ b \notin A(c)
  <2>1. a \notin A(c)
    BY <1>2, <1>7
  <2>2. a < c
    BY <1>2, <1>3, <1>7
  <2> QED
    BY <2>1, <2>2
<1>8. CASE a < b /\ a \notin A(b) /\ c \in A(b)
  <2>1. a # c /\ a \notin A(c)
    BY <1>2, <1>8
  <2>2. a < c
    BY <1>2, <1>3, <1>5, <1>8, <2>1
  <2> QED
    BY <2>1, <2>2
<1>9. CASE a < b /\ a \notin A(b) /\ b < c /\ b \notin A(c)
  <2>1. a \notin A(c)
    BY <1>3, <1>9
  <2> QED
    BY <1>9, <2>1
<1> QED
  BY <1>4, <1>6, <1>7, <1>8, <1>9

LEMMA SameCount == \A S : Refs!Cardinality(S) = Cardinality(S)
BY DEF Cardinality, Refs!Cardinality

LEMMA KeptIs == Refs!Kept \subseteq 1..N /\ IsFiniteSet(1..N)
BY FS_Interval, ToolsAssumption DEF Refs!Kept, Refs!Elements

(* Two elements that have something in common with a third have with each    *)
(* other: they are of one frame.                                             *)
LEMMA FrameIsOne ==
  ASSUME parent \in Refs!Trees, NEW e \in 1..N, NEW f \in 1..N, NEW g \in 1..N,
         Refs!Common(e, f) # {}, Refs!Common(f, g) # {}
  PROVE  Refs!Common(e, g) # {}
<1> USE ToolsAssumption
<1> DEFINE A(a) == Refs!AboveIn(parent, a)
<1>1. Rooted(parent)
  BY TreeIs
<1>2. \A a \in 1..N : \A b \in A(a) : b \in 1..N /\ b < a /\ A(b) \subseteq A(a)
  <2>1. ASSUME NEW a \in 1..N, NEW b \in A(a)
        PROVE  b \in 1..N /\ b < a
    <3>1. b \in 1..(a - 1)
      BY <1>1, AboveIsSmaller
    <3> QED
      BY <3>1
  <2> QED
    BY <1>1, <2>1, AboveIsTransitive
<1>3. \A a, x, y \in 1..N : x \in A(a) /\ x < y /\ y <= a => x \in A(y)
  <2>1. ASSUME NEW a \in 1..N, NEW x \in 1..N, NEW y \in 1..N, x \in A(a), x < y, y <= a
        PROVE  x \in A(y)
    <3>1. y \in (x + 1)..a
      BY <2>1
    <3> QED
      BY <2>1, <3>1, BelowIsTogether
  <2> QED
    BY <2>1
<1>4. \A a, b : Refs!Common(a, b) = (A(a) \union {a}) \intersect (A(b) \union {b})
  BY DEF Refs!Common, Refs!Above
<1> HIDE DEF A
<1>5. PICK x : x \in A(e) \union {e} /\ x \in A(f) \union {f}
  BY <1>4
<1>6. PICK y : y \in A(f) \union {f} /\ y \in A(g) \union {g}
  BY <1>4
<1>7. x \in 1..N /\ y \in 1..N /\ x <= f /\ y <= f
  BY <1>2, <1>5, <1>6
<1>8. x = y \/ x \in A(y) \/ y \in A(x)
  BY <1>3, <1>5, <1>6, <1>7
<1>9. x \in A(y) => x \in A(g)
  BY <1>2, <1>6
<1>10. y \in A(x) => y \in A(e)
  BY <1>2, <1>5
<1> QED
  BY <1>4, <1>5, <1>6, <1>8, <1>9, <1>10

LEMMA CommonIs == \A e, f : Refs!Common(e, f) = Refs!Common(f, e) /\ e \in Refs!Common(e, e)
BY DEF Refs!Common

(* No two of the listed elements of a frame are given the same ref, and none *)
(* is given 0.                                                               *)
LEMMA NumberIsOne ==
  ASSUME parent \in Refs!Trees
  PROVE  /\ \A e \in Refs!Kept : Refs!Number(e) \in Nat /\ Refs!Number(e) # 0
         /\ \A e, f \in Refs!Kept : Refs!Common(e, f) # {} /\ Refs!Number(e) = Refs!Number(f) => e = f
<1> DEFINE Upto(e) == {g \in Refs!Kept : Refs!Common(e, g) # {} /\ (g = e \/ Refs!Before(g, e))}
<1>1. \A e : /\ Upto(e) \subseteq Refs!Kept /\ IsFiniteSet(Upto(e)) /\ Cardinality(Upto(e)) \in Nat
             /\ Refs!Number(e) = Cardinality(Upto(e))
  <2>1. \A e : Upto(e) \in SUBSET (1..N)
    BY KeptIs
  <2>2. \A e : IsFiniteSet(Upto(e))
    <3> HIDE DEF Upto
    <3> QED
      BY <2>1, KeptIs, FS_Subset
  <2>3. \A e : Cardinality(Upto(e)) \in Nat
    <3> HIDE DEF Upto
    <3> QED
      BY <2>2, FS_CardinalityType
  <2> QED
    BY <2>2, <2>3, SameCount DEF Refs!Number
<1>2. ASSUME NEW e \in Refs!Kept
      PROVE  Refs!Number(e) \in Nat /\ Refs!Number(e) # 0
  <2>1. Upto(e) # {}
    BY CommonIs
  <2> HIDE DEF Upto
  <2> QED
    BY <1>1, <2>1, FS_EmptySet
<1>3. ASSUME NEW e \in Refs!Kept, NEW f \in Refs!Kept, Refs!Before(e, f), Refs!Common(e, f) # {}
      PROVE  Refs!Number(e) # Refs!Number(f)
  <2>1. e \in 1..N /\ f \in 1..N
    BY KeptIs
  <2>2. \A g \in Refs!Kept : Refs!Common(e, g) # {} => Refs!Common(f, g) # {}
    BY <1>3, <2>1, KeptIs, CommonIs, FrameIsOne
  <2>3. \A g \in Refs!Kept : Refs!Before(g, e) => Refs!Before(g, f)
    BY <1>3, <2>1, KeptIs, BeforeIsTransitive
  <2>4. Upto(e) \subseteq Upto(f)
    BY <1>3, <2>2, <2>3
  <2>5. f \in Upto(f) /\ f \notin Upto(e)
    <3>1. ~Refs!Before(f, e) /\ f # e
      BY <1>3, <2>1, BeforeIsOrder
    <3> QED
      BY <3>1, CommonIs
  <2> HIDE DEF Upto
  <2>6. Cardinality(Upto(f)) # Cardinality(Upto(e))
    BY <1>1, <2>4, <2>5, FS_Subset
  <2> QED
    BY <1>1, <2>6
<1>4. ASSUME NEW e \in Refs!Kept, NEW f \in Refs!Kept, Refs!Common(e, f) # {},
             Refs!Number(e) = Refs!Number(f), e # f
      PROVE  FALSE
  <2>1. Refs!Before(e, f) \/ Refs!Before(f, e)
    BY <1>4, KeptIs, BeforeIsOrder
  <2> QED
    BY <1>3, <1>4, <2>1, CommonIs
<1> QED
  BY <1>2, <1>4

(* The tree of the initial state.                                            *)
LEMMA FirstTree ==
  [e \in 1..N |-> IF e = 1 THEN 0 ELSE 1] \in Refs!Trees
<1> USE ToolsAssumption
<1> DEFINE p == [e \in 1..N |-> IF e = 1 THEN 0 ELSE 1]
<1>1. /\ p \in [1..N -> 0..N] /\ \A e \in (1..N) \ {1} : p[e] = 1
      /\ \A e \in 1..N : p[e] \in 0..(e - 1)
  OBVIOUS
<1> HIDE DEF p
<1>2. Rooted(p)
  BY <1>1 DEF Rooted
<1>3. ASSUME NEW e \in (1..N) \ {1}
      PROVE  p[e] \in {0, e - 1} \union Refs!AboveIn(p, e - 1)
  <2>1. CASE e = 2
    BY <1>1, <2>1
  <2>2. CASE e # 2
    <3>1. e - 1 \in (1..N) \ {1}
      BY <2>2
    <3>2. p[e - 1] \in Refs!AboveIn(p, e - 1) /\ p[e - 1] = 1
      BY <1>1, <1>2, <3>1, AboveOf
    <3> QED
      BY <1>1, <3>2
  <2> QED
    BY <2>1, <2>2
<1>4. p \in Refs!Trees
  BY <1>1, <1>3 DEF Refs!Trees, Refs!Elements, Refs!Main
<1> QED
  BY <1>4 DEF p

LEMMA RefsInitially == Refs!Init => RefsInv
<1> SUFFICES ASSUME Refs!Init
             PROVE  RefsInv
  OBVIOUS
<1>1. parent = [e \in 1..N |-> IF e = 1 THEN 0 ELSE 1]
  BY DEF Refs!Init, Refs!Elements, Refs!Main
<1>2. listed = {} /\ mark \in [1..N -> Nat] /\ told = {} /\ current = FALSE
  BY DEF Refs!Init, Refs!Elements
<1> QED
  BY <1>1, <1>2, FirstTree DEF RefsInv, Distinct, Meant, Scripted, Reachable

(* What the page does, and a tool that tells of no tree.                     *)
LEMMA RefsUntouched ==
  ASSUME RefsInv, UNCHANGED <<parent, mark, listed, told>>, script \subseteq script', current' => current,
         call' = "act" => \A e \in listed : ~Refs!Attached(e)'
  PROVE  RefsInv'
<1>1. \A e, f : Refs!Common(e, f)' = Refs!Common(e, f) /\ Refs!Frame(e)' = Refs!Frame(e)
  BY DEF Refs!Common, Refs!Frame, Refs!Above
<1> QED
  BY <1>1 DEF RefsInv, Distinct, Meant, Scripted, Reachable

LEMMA LooksTheSame ==
  ASSUME UNCHANGED <<parent, look>>
  PROVE  /\ \A e : Refs!Attached(e)' = Refs!Attached(e)
         /\ \A e, f : Refs!Common(e, f)' = Refs!Common(e, f) /\ Refs!Frame(e)' = Refs!Frame(e)
BY DEF Refs!Attached, Refs!Common, Refs!Frame, Refs!Above

(* The walk: what it lists is told apart by the marks.                       *)
LEMMA Builds ==
  ASSUME RefsInv, Refs!Build, UNCHANGED <<parent, look>>, script \subseteq script'
  PROVE  /\ listed' = Refs!Listing /\ listed' \subseteq 1..N /\ mark' \in [1..N -> Nat]
         /\ Distinct' /\ Scripted'
         /\ \A e \in Refs!Listing : mark'[e] = Refs!Number(e)
<1>1. mark' = [e \in 1..N |-> IF e \in Refs!Listing THEN Refs!Number(e) ELSE mark[e]] /\ listed' = Refs!Listing
  BY DEF Refs!Build, Refs!Elements
<1>2. \A e \in Refs!Listing : e \in Refs!Kept /\ \E b \in script : e \in Refs!Frame(b)
  BY DEF Refs!Listing
<1>3. \A e \in Refs!Listing : e \in 1..N /\ Refs!Number(e) \in Nat
  BY <1>2, KeptIs, NumberIsOne DEF RefsInv
<1>4. \A e \in Refs!Listing : mark'[e] = Refs!Number(e)
  BY <1>1, <1>3
<1>5. \A e, f \in Refs!Listing : Refs!Common(e, f) # {} /\ Refs!Number(e) = Refs!Number(f) => e = f
  BY <1>2, NumberIsOne DEF RefsInv
<1>6. mark' \in [1..N -> Nat]
  BY <1>1, <1>3 DEF RefsInv
<1>7. Distinct'
  BY <1>1, <1>4, <1>5, LooksTheSame DEF Distinct
<1>8. Scripted'
  BY <1>1, <1>2, LooksTheSame DEF Scripted
<1> QED
  BY <1>1, <1>3, <1>4, <1>6, <1>7, <1>8

LEMMA TellsRefs ==
  ASSUME RefsInv, Refs!Build, UNCHANGED <<parent, look>>, script \subseteq script', call' # "act",
         \/ \E format : \E b \in Refs!Answering : Refs!Tell(b, format)
         \/ told' = told /\ current' = FALSE
  PROVE  RefsInv'
<1>1. /\ listed' = Refs!Listing /\ listed' \subseteq 1..N /\ mark' \in [1..N -> Nat]
      /\ Distinct' /\ Scripted'
      /\ \A e \in Refs!Listing : mark'[e] = Refs!Number(e)
  BY Builds
<1>2. Reachable'
  BY DEF Reachable
<1>3. ASSUME NEW b \in Refs!Answering, told' = Refs!Telling(b), current' = TRUE
      PROVE  RefsInv'
  <2>1. \A pair \in told' : \E e \in Refs!Kept : e \in Refs!Frame(b) /\ pair = <<Refs!Number(e), e>>
    BY <1>3 DEF Refs!Telling
  <2>2. b \in script
    BY DEF Refs!Answering
  <2>3. \A e \in Refs!Kept : e \in Refs!Frame(b) => e \in Refs!Listing
    BY <2>2 DEF Refs!Listing
  <2>4. \A e \in Refs!Kept : Refs!Number(e) # 0
    BY NumberIsOne DEF RefsInv
  <2>5. ASSUME NEW pair \in told'
        PROVE  pair[1] # 0 /\ mark'[pair[2]] = pair[1]
    <3>1. PICK e \in Refs!Kept : e \in Refs!Frame(b) /\ pair = <<Refs!Number(e), e>>
      BY <2>1
    <3>2. pair[1] = Refs!Number(e) /\ pair[2] = e
      BY <3>1
    <3> QED
      BY <1>1, <2>3, <2>4, <3>1, <3>2
  <2> QED
    BY <1>1, <1>2, <2>5 DEF RefsInv, Meant
<1>4. CASE told' = told /\ current' = FALSE
  BY <1>1, <1>2, <1>4 DEF RefsInv, Meant
<1> QED
  BY <1>3, <1>4 DEF Refs!Tell

LEMMA RefsStep ==
  ASSUME RefsInv, Refs!Next
  PROVE  RefsInv'
<1>1. ASSUME NEW e \in Refs!Elements, NEW l \in Refs!Looks, Refs!Change(e, l)
      PROVE  RefsInv'
  <2>1. /\ UNCHANGED <<parent, script, mark, listed, call, told, current>>
        /\ look[e] # "gone" /\ look' = [look EXCEPT ![e] = l]
    BY <1>1 DEF Refs!Change
  <2>2. \A f : look[f] = "gone" => look'[f] = "gone"
    BY <2>1
  <2>3. \A f : ~Refs!Attached(f) => ~Refs!Attached(f)'
    BY <2>1, <2>2 DEF Refs!Attached, Refs!Above
  <2> QED
    BY <2>1, <2>3, RefsUntouched DEF RefsInv, Reachable
<1>2. ASSUME NEW tree \in Refs!Trees, Refs!Navigate(tree)
      PROVE  RefsInv'
  <2>1. parent' = tree /\ mark' \in [1..N -> Nat] /\ listed' = {} /\ current' = FALSE /\ told' = told
    BY <1>2 DEF Refs!Navigate, Refs!Elements
  <2> QED
    BY <2>1 DEF RefsInv, Distinct, Meant, Scripted, Reachable
<1>3. ASSUME NEW b, Refs!Idle(b)
      PROVE  RefsInv'
  <2>1. UNCHANGED <<parent, look, mark, listed, told, current, call>> /\ script \subseteq script'
    BY <1>3 DEF Refs!Idle
  <2> QED
    BY <2>1, LooksTheSame, RefsUntouched DEF RefsInv, Reachable
<1>4. ASSUME NEW f \in {"accessibility", "text"}, Refs!ReadPage(f)
      PROVE  RefsInv'
  <2>1. UNCHANGED <<parent, look>> /\ script \subseteq script' /\ call' # "act"
    BY <1>4 DEF Refs!ReadPage, Refs!Inject
  <2> DEFINE answered == \/ \E format : \E b \in Refs!Answering : Refs!Tell(b, format)
                         \/ told' = told /\ current' = FALSE
  <2>2. (Refs!Build /\ answered) \/ UNCHANGED <<mark, listed, told, current>>
    BY <1>4 DEF Refs!ReadPage
  <2>3. CASE Refs!Build /\ answered
    BY <2>1, <2>3, TellsRefs
  <2>4. CASE UNCHANGED <<mark, listed, told, current>>
    BY <2>1, <2>4, RefsUntouched
  <2> QED
    BY <2>2, <2>3, <2>4
<1>5. CASE Refs!ReadInjected
  <2>1. UNCHANGED <<parent, look, script>> /\ call' # "act"
    BY <1>5 DEF Refs!ReadInjected, Refs!pageVars
  <2> DEFINE answered == \/ \E format : \E b \in Refs!Answering : Refs!Tell(b, format)
                         \/ told' = told /\ current' = FALSE
  <2>2. (Refs!Build /\ answered) \/ UNCHANGED <<mark, listed, told, current>>
    BY <1>5 DEF Refs!ReadInjected
  <2>3. CASE Refs!Build /\ answered
    BY <2>1, <2>3, TellsRefs
  <2>4. CASE UNCHANGED <<mark, listed, told, current>>
    BY <2>1, <2>4, RefsUntouched
  <2> QED
    BY <2>2, <2>3, <2>4
<1>6. CASE Refs!Find
  <2>1. Refs!Build \/ UNCHANGED <<mark, listed>>
    BY <1>6 DEF Refs!Find
  <2>2. UNCHANGED <<parent, look, told>> /\ script \subseteq script' /\ call' # "act" /\ current' = FALSE
    BY <1>6 DEF Refs!Find, Refs!Inject
  <2> QED
    BY <2>1, <2>2, TellsRefs, RefsUntouched
<1>7. CASE Refs!Collect
  <2>1. UNCHANGED <<parent, look, script, mark, listed>> /\ call' # "act"
    BY <1>7 DEF Refs!Collect, Refs!pageVars
  <2>2. CASE UNCHANGED <<told, current>>
    BY <2>1, <2>2, RefsUntouched
  <2>3. CASE \E matches \in SUBSET {e \in 1..N : mark[e] # 0} : told' = {<<mark[e], e>> : e \in matches}
    <3>1. \A pair \in told' : \E e \in 1..N : mark[e] # 0 /\ pair = <<mark[e], e>>
      BY <2>3
    <3>2. \A pair \in told' : pair[1] # 0 /\ mark[pair[2]] = pair[1]
      BY <3>1
    <3> QED
      BY <2>1, <3>2, LooksTheSame DEF RefsInv, Distinct, Meant, Scripted, Reachable
  <2>4. UNCHANGED <<told, current>>
          \/ \E matches \in SUBSET {e \in 1..N : mark[e] # 0} : told' = {<<mark[e], e>> : e \in matches}
    <3> DEFINE marked == {e \in Refs!Frame(Refs!Main) : Refs!Attached(e) /\ mark[e] # 0}
    <3>1. PICK matches \in SUBSET marked :
            IF matches = {} THEN UNCHANGED <<told, current>>
            ELSE told' = {<<mark[e], e>> : e \in matches} /\ current' = TRUE
      BY <1>7 DEF Refs!Collect
    <3>2. matches \in SUBSET {e \in 1..N : mark[e] # 0}
      BY DEF Refs!Frame, Refs!Elements
    <3> QED
      BY <3>1, <3>2
  <2> QED
    BY <2>2, <2>3, <2>4
<1>8. ASSUME NEW ref, Refs!Click(ref) \/ Refs!Form(ref)
      PROVE  RefsInv'
  <2>1. UNCHANGED <<parent, look, script, mark, listed, call, told, current>>
    BY <1>8 DEF Refs!Click, Refs!Form, Refs!pageVars
  <2> QED
    BY <2>1, LooksTheSame, RefsUntouched DEF RefsInv, Reachable
<1>9. ASSUME NEW ref, Refs!FormInject(ref)
      PROVE  RefsInv'
  <2>1. /\ Refs!Answering = {} /\ UNCHANGED <<parent, look, mark, listed, told, current>>
        /\ script \subseteq script'
    BY <1>9 DEF Refs!FormInject, Refs!Inject
  <2>2. \A b \in script : look[b] = "gone"
    BY <2>1 DEF Refs!Answering
  <2>3. \A e \in listed : ~Refs!Attached(e)
    BY <2>2 DEF RefsInv, Scripted, Refs!Frame, Refs!Attached
  <2> QED
    BY <2>1, <2>3, LooksTheSame, RefsUntouched
<1>10. CASE Refs!FormInjected
  BY <1>10, RefsUntouched DEF Refs!FormInjected, Refs!pageVars
<1> QED
  BY <1>1, <1>2, <1>3, <1>4, <1>5, <1>6, <1>7, <1>8, <1>9, <1>10 DEF Refs!Next

LEMMA RefsAlways == Spec => []RefsInv
<1>1. Init => RefsInv
  BY RefsInitially DEF Init
<1>2. RefsInv /\ [Next]_vars => RefsInv'
  <2>1. Next => Refs!Next \/ UNCHANGED refsVars
    BY DEF Next
  <2>2. UNCHANGED vars => UNCHANGED refsVars
    BY DEF vars
  <2>3. UNCHANGED refsVars /\ RefsInv => RefsInv'
    BY RefsUntouched, LooksTheSame DEF refsVars, RefsInv, Reachable
  <2> QED
    BY <2>1, <2>2, <2>3, RefsStep
<1> QED
  BY <1>1, <1>2, PTL DEF Spec

(* The element that a ref is found on has that mark, and one is found in a   *)
(* frame that holds an element with that mark.                               *)
LEMMA Finds ==
  ASSUME NEW b, NEW ref
  PROVE  /\ Refs!Lookup(b, ref) = 0
               \/ (/\ Refs!Lookup(b, ref) \in 1..N /\ Refs!Lookup(b, ref) \in Refs!Frame(b)
                   /\ mark[Refs!Lookup(b, ref)] = ref)
         /\ \A e \in Refs!Frame(b) : Refs!Attached(e) /\ mark[e] = ref => Refs!Lookup(b, ref) # 0
<1> DEFINE found == {e \in Refs!Frame(b) : Refs!Attached(e) /\ mark[e] = ref}
<1>1. Refs!Lookup(b, ref) = IF found = {} THEN 0 ELSE CHOOSE e \in found : \A f \in found : e <= f
  BY DEF Refs!Lookup
<1>2. found \subseteq 1..N
  BY DEF Refs!Elements, Refs!Frame
<1>3. ASSUME found # {}
      PROVE  Refs!Lookup(b, ref) \in found
  <2>1. found \in SUBSET Nat
    BY <1>2, ToolsAssumption
  <2>2. \E e \in found : \A f \in found : e <= f
    <3> HIDE DEF found
    <3> QED
      BY <1>3, <2>1, Least
  <2>3. (CHOOSE e \in found : \A f \in found : e <= f) \in found
    <3> HIDE DEF found
    <3> QED
      BY <2>2
  <2> QED
    BY <1>1, <1>3, <2>3
<1>4. 0 \notin 1..N
  BY ToolsAssumption
<1> QED
  BY <1>1, <1>2, <1>3, <1>4

(* A tool that is given the ref of a listed element acts, in the frame that  *)
(* the element is of, on that element or on one that the listing left out,   *)
(* and form_input on one of them, for as long as it is there (formInput.ts,  *)
(* computer.ts).                                                             *)
THEOREM ActsOnTheRightElement == Spec => ActsOnWhatWasTold
<1> DEFINE Right == \A e \in listed :
                      (target' # target /\ current /\ <<target'.ref, e>> \in told) =>
                        /\ \A f \in target'.hits \intersect listed : Refs!Common(e, f) # {} => f = e
                        /\ target'.by = "form" /\ Refs!Attached(e) =>
                             \E f \in target'.hits : Refs!Common(e, f) # {}
<1>1. Next => Refs!Next \/ UNCHANGED refsVars
  BY DEF Next
<1>2. UNCHANGED vars => UNCHANGED refsVars
  BY DEF vars
<1>3. UNCHANGED refsVars => UNCHANGED Refs!vars
  BY DEF refsVars, Refs!vars, Refs!pageVars
<1>4. RefsInv /\ [Next]_vars => [Right]_(Refs!vars)
  <2> SUFFICES ASSUME RefsInv, Refs!Next
               PROVE  Right
    BY <1>1, <1>2, <1>3
  <2> SUFFICES ASSUME NEW e \in listed, target' # target, current, <<target'.ref, e>> \in told
               PROVE  /\ \A f \in target'.hits \intersect listed : Refs!Common(e, f) # {} => f = e
                      /\ target'.by = "form" /\ Refs!Attached(e) =>
                           \E f \in target'.hits : Refs!Common(e, f) # {}
    OBVIOUS
  <2> DEFINE Only == \A f \in target'.hits \intersect listed : Refs!Common(e, f) # {} => f = e
             Reaches == \E f \in target'.hits : Refs!Common(e, f) # {}
  <2>1. target'.ref # 0 /\ mark[e] = target'.ref /\ e \in 1..N
    BY DEF RefsInv, Meant
  <2>2. \A f \in listed : mark[f] = target'.ref /\ Refs!Common(e, f) # {} => f = e
    BY <2>1 DEF RefsInv, Distinct
  <2>3. \A b, f : e \in Refs!Frame(b) /\ f \in Refs!Frame(b) => Refs!Common(e, f) # {}
    BY DEF Refs!Frame, Refs!Common
  <2>4. target' = Refs!Untargeted => FALSE
    BY <2>1 DEF Refs!Untargeted, Refs!Target
  <2>5. ASSUME NEW ref, Refs!Click(ref)
        PROVE  Only /\ target'.by # "form"
    <3>1. PICK b : target' = Refs!Target(ref, "click", {Refs!Lookup(b, ref)} \ {0})
      BY <2>5 DEF Refs!Click
    <3>2. target'.ref = ref /\ target'.by = "click" /\ target'.hits = {Refs!Lookup(b, ref)} \ {0}
      BY <3>1 DEF Refs!Target
    <3>3. \A f \in target'.hits : mark[f] = ref
      BY <3>2, Finds
    <3> QED
      BY <2>1, <2>2, <3>2, <3>3
  <2>6. ASSUME NEW ref, Refs!Form(ref)
        PROVE  Only /\ (Refs!Attached(e) => Reaches)
    <3>1. target' = Refs!Target(ref, "form", UNION {Refs!SetValue(b, ref) : b \in Refs!Answering})
      BY <2>6 DEF Refs!Form
    <3>2. /\ target'.ref = ref /\ target'.by = "form"
          /\ target'.hits = UNION {Refs!SetValue(b, ref) : b \in Refs!Answering}
      BY <3>1 DEF Refs!Target
    <3>3. \A f \in target'.hits : mark[f] = ref
      <4>1. \A f \in target'.hits : f # 0 /\ \E b : f = Refs!Lookup(b, ref)
        BY <3>2 DEF Refs!SetValue
      <4> QED
        BY <4>1, Finds
    <3>4. ASSUME Refs!Attached(e)
          PROVE  \E f \in target'.hits : Refs!Common(e, f) # {}
      <4>1. PICK b \in script : e \in Refs!Frame(b)
        BY DEF RefsInv, Scripted
      <4>2. b \in Refs!Answering
        BY <3>4, <4>1 DEF Refs!Answering, Refs!Frame, Refs!Attached
      <4>3. Refs!Lookup(b, ref) # 0 /\ Refs!Lookup(b, ref) \in Refs!Frame(b)
        BY <2>1, <3>2, <3>4, <4>1, Finds
      <4>4. Refs!Lookup(b, ref) \in target'.hits
        BY <3>2, <4>2, <4>3 DEF Refs!SetValue
      <4> QED
        BY <2>3, <4>1, <4>3, <4>4
    <3> QED
      BY <2>1, <2>2, <3>2, <3>3, <3>4
  <2>7. ASSUME Refs!FormInjected
        PROVE  Only /\ ~Refs!Attached(e)
    <3>1. target' = Refs!Target(target.ref, "form", {Refs!Lookup(Refs!Main, target.ref)} \ {0}) /\ call = "act"
      BY <2>7 DEF Refs!FormInjected, Refs!SetValue
    <3>2. target'.ref = target.ref /\ target'.hits = {Refs!Lookup(Refs!Main, target.ref)} \ {0}
      BY <3>1 DEF Refs!Target
    <3>3. \A f \in target'.hits : mark[f] = target'.ref
      BY <3>2, Finds
    <3>4. ~Refs!Attached(e)
      BY <3>1 DEF RefsInv, Reachable
    <3> QED
      BY <2>1, <2>2, <3>3, <3>4
  <2>8. ASSUME NEW ref, Refs!FormInject(ref)
        PROVE  Only /\ target'.by # "form"
    <3>1. target' = Refs!Target(ref, "none", {})
      BY <2>8 DEF Refs!FormInject
    <3> QED
      BY <3>1 DEF Refs!Target
  <2>9. \/ target' = target \/ target' = Refs!Untargeted \/ Refs!FormInjected
        \/ \E ref : Refs!Click(ref) \/ Refs!Form(ref) \/ Refs!FormInject(ref)
    BY Zenon DEF Refs!Next, Refs!Change, Refs!Navigate, Refs!Idle, Refs!ReadPage, Refs!ReadInjected,
      Refs!Find, Refs!Collect, Refs!NoTarget
  <2> QED
    BY <2>4, <2>5, <2>6, <2>7, <2>8, <2>9
<1>5. Spec => [][Right]_(Refs!vars)
  BY <1>4, RefsAlways, PTL DEF Spec
<1>6. [][Right]_(Refs!vars) => ActsOnWhatWasTold
  BY PTL DEF ActsOnWhatWasTold, Refs!ActsOnWhatWasTold
<1> QED
  BY <1>5, <1>6, PTL

-----------------------------------------------------------------------------
(***************************************************************************)
(* ElementRefs: the walk.  An element contributes something just when an   *)
(* element in it, itself or below, has something to say and can be seen    *)
(* from it; and what it contributes is in it.                              *)
(***************************************************************************)
Within(e) == {f \in 1..N : f = e \/ e \in Refs!Above(f)}
SeenFrom(e) == {f \in Within(e) : /\ look[f] = "named"
                                  /\ \A g \in Within(e) : g = f \/ g \in Refs!Above(f) => Refs!Visible(g)}
node == Refs!Contributes
Kids(e) == {node[c] : c \in Refs!Children(e)} \ {0}

WalkIsSound == \A e \in 1..N : /\ node[e] # 0 <=> SeenFrom(e) # {}
                               /\ node[e] # 0 => node[e] \in Within(e)

LEMMA Downwards ==
  ASSUME NEW S \in SUBSET (1..N), \A e \in 1..N : (\A f \in (e + 1)..N : f \in S) => e \in S
  PROVE  S = 1..N
<1> USE ToolsAssumption
<1> DEFINE T == (1..N) \ S
<1> SUFFICES ASSUME T # {}
             PROVE  FALSE
  OBVIOUS
<1>1. T \in SUBSET (1..N)
  OBVIOUS
<1>2. PICK i \in T : \A j \in T : j <= i
  <2> HIDE DEF T
  <2> QED
    BY <1>1, Highest
<1>3. ASSUME NEW f \in (i + 1)..N
      PROVE  f \in S
  <2>1. i \in 1..N /\ f \in 1..N /\ ~(f <= i)
    BY <1>2
  <2> QED
    BY <1>2, <2>1
<1> QED
  BY <1>2, <1>3

(* The elements' contributions, as the walk defines them.                    *)
Made(g, e) ==
  LET kids == {g[c] : c \in Refs!Children(e)} \ {0} IN
  CASE Refs!Visible(e) /\ (Refs!Interesting(e) \/ Refs!Cardinality(kids) > 1) -> e
    [] Refs!Visible(e) /\ look[e] = "plain" /\ Refs!Cardinality(kids) = 1 -> CHOOSE k \in kids : TRUE
    [] OTHER -> 0

IsNode(g, n) == g = [e \in n..N |-> Made(g, e)]

LEMMA ChildrenAre ==
  ASSUME parent \in Refs!Trees, NEW e \in 1..N
  PROVE  \A c \in Refs!Children(e) : c \in 1..N /\ c \in (e + 1)..N /\ parent[c] = e
<1>1. Rooted(parent)
  BY TreeIs
<1> SUFFICES ASSUME NEW c \in 1..N, parent[c] = e
             PROVE  c \in (e + 1)..N
  BY DEF Refs!Children, Refs!Elements
<1>2. parent[c] # 0
  BY ToolsAssumption
<1>3. parent[c] \in 1..(c - 1)
  BY <1>1, <1>2, AboveOf
<1> QED
  BY <1>3, ToolsAssumption

LEMMA NodeFrom ==
  ASSUME parent \in Refs!Trees, NEW n \in 1..N
  PROVE  \E g : IsNode(g, n)
<1> USE ToolsAssumption
<1> DEFINE S == {i \in 1..N : \E g : IsNode(g, i)}
<1>1. ASSUME NEW i \in 1..N, \A f \in (i + 1)..N : f \in S
      PROVE  i \in S
  <2>1. PICK g : i + 1 \in 1..N => IsNode(g, i + 1)
    <3>1. i + 1 \in 1..N => i + 1 \in S
      BY <1>1
    <3> QED
      BY <3>1
  <2>2. \A e \in (i + 1)..N : g[e] = Made(g, e)
    <3>1. \A e \in (i + 1)..N : i + 1 \in 1..N
      OBVIOUS
    <3> QED
      BY <2>1, <3>1 DEF IsNode
  <2> DEFINE h == [e \in i..N |-> Made(g, e)]
  <2>3. \A e \in (i + 1)..N : h[e] = g[e]
    <3>1. \A e \in (i + 1)..N : e \in i..N
      OBVIOUS
    <3> QED
      BY <2>2, <3>1
  <2> HIDE DEF h
  <2>4. ASSUME NEW e \in i..N
        PROVE  Made(h, e) = Made(g, e)
    <3>1. \A c \in Refs!Children(e) : c \in (i + 1)..N
      <4>1. e \in 1..N
        OBVIOUS
      <4>2. \A c \in Refs!Children(e) : c \in (e + 1)..N
        BY <4>1, ChildrenAre
      <4> QED
        BY <4>2
    <3>2. {h[c] : c \in Refs!Children(e)} = {g[c] : c \in Refs!Children(e)}
      BY <2>3, <3>1
    <3> QED
      BY <3>2 DEF Made
  <2>5. h = [e \in i..N |-> Made(h, e)]
    BY <2>4 DEF h
  <2> QED
    BY <2>5 DEF IsNode
<1>2. S = 1..N
  <2>1. S \in SUBSET (1..N)
    OBVIOUS
  <2> HIDE DEF S
  <2> QED
    BY <1>1, <2>1, Downwards
<1> QED
  BY <1>2

LEMMA NodeIs ==
  ASSUME parent \in Refs!Trees
  PROVE  \A e \in 1..N : node[e] = Made(node, e)
<1> DEFINE g == CHOOSE h : h = [e \in 1..N |-> Made(h, e)]
<1>1. node = g
  BY DEF node, Refs!Contributes, Made, Refs!Elements
<1>2. 1 \in 1..N
  BY ToolsAssumption
<1>3. \E h : h = [e \in 1..N |-> Made(h, e)]
  BY <1>2, NodeFrom DEF IsNode
<1>4. g = [e \in 1..N |-> Made(g, e)]
  BY <1>3
<1> HIDE DEF g
<1> QED
  BY <1>1, <1>4

LEMMA KidsAre ==
  ASSUME NEW e \in 1..N, parent \in Refs!Trees, \A c \in Refs!Children(e) : node[c] # 0 => node[c] \in 1..N
  PROVE  /\ Kids(e) \subseteq 1..N /\ Cardinality(Kids(e)) \in Nat
         /\ Cardinality(Kids(e)) = 0 <=> Kids(e) = {}
         /\ Cardinality(Kids(e)) > 1 <=> \E k, l \in Kids(e) : k # l
<1>1. Kids(e) \in SUBSET (1..N)
  BY DEF Kids
<1>2. IsFiniteSet(Kids(e)) /\ Cardinality(Kids(e)) \in Nat
  <2>1. IsFiniteSet(Kids(e))
    BY <1>1, KeptIs, FS_Subset
  <2> QED
    BY <2>1, FS_CardinalityType
<1>3. Cardinality(Kids(e)) = 0 <=> Kids(e) = {}
  BY <1>2, FS_EmptySet
<1>4. \A k \in Kids(e) : Cardinality(Kids(e) \ {k}) = Cardinality(Kids(e)) - 1 /\ IsFiniteSet(Kids(e) \ {k})
  BY <1>2, FS_RemoveElement
<1>5. \A k \in Kids(e) : Kids(e) \ {k} = {} <=> Cardinality(Kids(e)) = 1
  <2>1. ASSUME NEW k \in Kids(e)
        PROVE  Kids(e) \ {k} = {} <=> Cardinality(Kids(e)) = 1
    <3>1. Kids(e) \ {k} = {} <=> Cardinality(Kids(e) \ {k}) = 0
      BY <1>4, FS_EmptySet
    <3> QED
      BY <1>2, <1>4, <3>1
  <2> QED
    BY <2>1
<1>6. ASSUME Cardinality(Kids(e)) > 1
      PROVE  \E k, l \in Kids(e) : k # l
  <2>1. PICK k \in Kids(e) : TRUE
    BY <1>2, <1>3, <1>6
  <2>2. Kids(e) \ {k} # {}
    BY <1>2, <1>5, <1>6, <2>1
  <2> QED
    BY <2>1, <2>2
<1>7. ASSUME NEW k \in Kids(e), NEW l \in Kids(e), k # l
      PROVE  Cardinality(Kids(e)) > 1
  <2>1. Kids(e) # {} /\ Kids(e) \ {k} # {}
    BY <1>7
  <2>2. Cardinality(Kids(e)) # 0 /\ Cardinality(Kids(e)) # 1
    BY <1>3, <1>5, <2>1
  <2> QED
    BY <1>2, <2>2
<1> QED
  BY <1>1, <1>2, <1>3, <1>6, <1>7

(* What an element contributes, in terms of what its children do.            *)
LEMMA Contribution ==
  ASSUME NEW e \in 1..N, parent \in Refs!Trees, \A c \in Refs!Children(e) : node[c] # 0 => node[c] \in 1..N
  PROVE  /\ ~Refs!Visible(e) => node[e] = 0
         /\ Refs!Visible(e) /\ look[e] = "named" => node[e] = e
         /\ Refs!Visible(e) /\ look[e] # "named" /\ Kids(e) = {} => node[e] = 0
         /\ Refs!Visible(e) /\ (\E k, l \in Kids(e) : k # l) => node[e] = e
         /\ \/ look[e] = "named" \/ Kids(e) = {} \/ (\E k, l \in Kids(e) : k # l)
            \/ node[e] = 0 \/ node[e] \in Kids(e)
         /\ Refs!Visible(e) /\ Kids(e) # {} => node[e] # 0
<1> DEFINE n == Cardinality(Kids(e))
<1>1. node[e] = CASE Refs!Visible(e) /\ (look[e] = "named" \/ n > 1) -> e
                  [] Refs!Visible(e) /\ look[e] = "plain" /\ n = 1 -> CHOOSE k \in Kids(e) : TRUE
                  [] OTHER -> 0
  BY NodeIs, SameCount DEF Made, Kids, Refs!Interesting
<1>2. /\ n \in Nat /\ (n = 0 <=> Kids(e) = {}) /\ (n > 1 <=> \E k, l \in Kids(e) : k # l)
      /\ Kids(e) \subseteq 1..N
  BY KidsAre
<1> HIDE DEF n
<1>3. n # 0 => (CHOOSE k \in Kids(e) : TRUE) \in Kids(e)
  BY <1>2
<1> DEFINE first == CHOOSE k \in Kids(e) : TRUE
<1> HIDE DEF first
<1>4. /\ Refs!Visible(e) /\ (look[e] = "named" \/ n > 1) => node[e] = e
      /\ Refs!Visible(e) /\ look[e] = "plain" /\ n = 1 => node[e] = first
      /\ ~(Refs!Visible(e) /\ (look[e] = "named" \/ n > 1)) /\ ~(Refs!Visible(e) /\ look[e] = "plain" /\ n = 1)
           => node[e] = 0
  <2>1. "named" # "plain" /\ ~(1 > 1)
    OBVIOUS
  <2> QED
    BY <1>1, <2>1 DEF first
<1>5. n # 0 => first \in Kids(e) /\ first # 0
  BY <1>3 DEF first, Kids
<1>6. Refs!Visible(e) <=> look[e] = "plain" \/ look[e] = "named"
  BY DEF Refs!Visible
<1>7. n = 0 \/ n = 1 \/ n > 1
  BY <1>2
<1>8. e # 0
  OBVIOUS
<1>9. n = 0 => n # 1 /\ ~(n > 1)
  OBVIOUS
<1> QED
  BY <1>2, <1>4, <1>5, <1>6, <1>7, <1>8, <1>9, Zenon

(* What is within a child is within its parent, and whatever is within an    *)
(* element and not the element is within one of its children.                *)
LEMMA WithinIs ==
  ASSUME parent \in Refs!Trees, NEW e \in 1..N
  PROVE  /\ e \in Within(e)
         /\ \A c \in Refs!Children(e) : /\ e \in Refs!Above(c) /\ Within(c) \subseteq Within(e)
                                        /\ e \notin Within(c)
         /\ \A f \in Within(e) : f # e => \E c \in Refs!Children(e) : f \in Within(c)
<1> USE ToolsAssumption
<1>1. Rooted(parent)
  BY TreeIs
<1>2. \A f \in 1..N : Refs!Above(f) = Refs!AboveIn(parent, f)
  BY DEF Refs!Above
<1>3. ASSUME NEW c \in Refs!Children(e)
      PROVE  e \in Refs!Above(c) /\ Within(c) \subseteq Within(e) /\ e \notin Within(c)
  <2>1. c \in 1..N /\ parent[c] = e /\ c \in (e + 1)..N /\ parent[c] # 0
    BY ChildrenAre
  <2>2. e \in Refs!Above(c)
    BY <1>1, <1>2, <2>1, AboveOf
  <2>3. \A f \in 1..N : c \in Refs!Above(f) => e \in Refs!Above(f)
    <3>1. ASSUME NEW f \in 1..N, c \in Refs!Above(f)
          PROVE  e \in Refs!Above(f)
      <4>1. Refs!AboveIn(parent, c) \subseteq Refs!AboveIn(parent, f)
        BY <1>1, <1>2, <3>1, AboveIsTransitive
      <4> QED
        BY <1>2, <2>1, <2>2, <4>1
    <3> QED
      BY <3>1
  <2>4. c \notin Refs!Above(e) /\ e # c
    <3>1. Refs!Above(e) \subseteq 1..(e - 1)
      BY <1>1, <1>2, AboveIsSmaller
    <3> QED
      BY <2>1, <3>1
  <2> QED
    BY <2>1, <2>2, <2>3, <2>4 DEF Within
<1> DEFINE S == {f \in 1..N : e \in Refs!Above(f) => \E c \in Refs!Children(e) : f \in Within(c)}
<1>4. ASSUME NEW f \in 1..N, \A g \in 1..(f - 1) : g \in S
      PROVE  f \in S
  <2> SUFFICES ASSUME e \in Refs!Above(f)
               PROVE  \E c \in Refs!Children(e) : f \in Within(c)
    OBVIOUS
  <2>1. parent[f] # 0
    BY <1>1, <1>2, AboveOf
  <2>2. /\ parent[f] \in 1..(f - 1) /\ parent[f] \in 1..N
        /\ Refs!Above(f) = {parent[f]} \union Refs!Above(parent[f])
    BY <1>1, <1>2, <2>1, AboveOf
  <2>3. CASE parent[f] = e
    BY <2>3 DEF Refs!Children, Refs!Elements, Within
  <2>4. CASE parent[f] # e
    <3>1. PICK c \in Refs!Children(e) : parent[f] \in Within(c)
      BY <1>4, <2>2, <2>4
    <3>2. f \in Within(c)
      BY <2>2, <3>1 DEF Within
    <3> QED
      BY <3>2
  <2> QED
    BY <2>3, <2>4
<1>5. S = 1..N
  <2>1. S \in SUBSET (1..N)
    OBVIOUS
  <2> HIDE DEF S
  <2> QED
    BY <1>4, <2>1, Upwards
<1> QED
  BY <1>3, <1>5 DEF Within

(* What lies between an element and one within it: what is above both of two *)
(* elements is above the upper one or within it.                             *)
LEMMA Between ==
  ASSUME parent \in Refs!Trees, NEW f \in 1..N, NEW c \in 1..N, f \in Within(c),
         NEW h \in 1..N, h = f \/ h \in Refs!Above(f)
  PROVE  h \in Within(c) \/ h \in Refs!Above(c)
<1> USE ToolsAssumption
<1>1. Rooted(parent)
  BY TreeIs
<1>2. \A g \in 1..N : Refs!Above(g) = Refs!AboveIn(parent, g) /\ Refs!Above(g) \subseteq 1..(g - 1)
  BY <1>1, AboveIsSmaller DEF Refs!Above
<1>3. \A a, b, d \in 1..N : b \in Refs!Above(a) /\ b < d /\ d <= a => b \in Refs!Above(d)
  <2>1. ASSUME NEW a \in 1..N, NEW b \in 1..N, NEW d \in 1..N, b \in Refs!Above(a), b < d, d <= a
        PROVE  b \in Refs!Above(d)
    <3>1. d \in (b + 1)..a
      BY <2>1
    <3> QED
      BY <1>2, <2>1, <3>1, BelowIsTogether
  <2> QED
    BY <2>1
<1>4. (c = f \/ c \in Refs!Above(f)) /\ c <= f /\ h <= f
  BY <1>2 DEF Within
<1>5. CASE h = f
  BY <1>5
<1>6. CASE h = c
  BY <1>6 DEF Within
<1>7. CASE h \in Refs!Above(f) /\ h # c /\ c < h
  BY <1>3, <1>4, <1>7 DEF Within
<1>8. CASE h \in Refs!Above(f) /\ h < c
  BY <1>3, <1>4, <1>8
<1> QED
  BY <1>5, <1>6, <1>7, <1>8

(* What is seen from an element is seen from its parent, if that can be seen. *)
LEMMA SeenIs ==
  ASSUME parent \in Refs!Trees, NEW e \in 1..N
  PROVE  /\ ~Refs!Visible(e) => SeenFrom(e) = {}
         /\ Refs!Visible(e) /\ look[e] = "named" => e \in SeenFrom(e)
         /\ look[e] # "named" => e \notin SeenFrom(e)
         /\ \A c \in Refs!Children(e) : Refs!Visible(e) => SeenFrom(c) \subseteq SeenFrom(e)
         /\ \A f \in SeenFrom(e) : f # e => \E c \in Refs!Children(e) : f \in SeenFrom(c)
<1>1. e \in Within(e) /\ \A c \in Refs!Children(e) : c \in 1..N /\ e \in Refs!Above(c) /\ Within(c) \subseteq Within(e)
  BY WithinIs, ChildrenAre
<1>2. Rooted(parent)
  BY TreeIs
<1>3. \A g \in 1..N : Refs!Above(g) = Refs!AboveIn(parent, g) /\ g \notin Refs!Above(g)
  <2>1. \A g \in 1..N : g \notin 1..(g - 1)
    OBVIOUS
  <2> QED
    BY <1>2, <2>1, AboveIsSmaller DEF Refs!Above
<1>4. \A f \in Within(e) : f \in 1..N /\ (f = e \/ e \in Refs!Above(f))
  BY DEF Within
<1>5. ~Refs!Visible(e) => SeenFrom(e) = {}
  BY <1>1, <1>4 DEF SeenFrom
<1>6. Refs!Visible(e) /\ look[e] = "named" => e \in SeenFrom(e)
  <2>1. \A g \in Within(e) : g \notin Refs!Above(e)
    <3>1. ASSUME NEW g \in Within(e), g \in Refs!Above(e)
          PROVE  FALSE
      <4>1. g < e
        <5>1. Refs!Above(e) \subseteq 1..(e - 1)
          BY <1>2, <1>3, AboveIsSmaller
        <5> QED
          BY <3>1, <5>1, ToolsAssumption
      <4>2. e < g
        <5>1. g \in 1..N /\ e \in Refs!Above(g)
          BY <1>3, <1>4, <3>1
        <5>2. Refs!Above(g) \subseteq 1..(g - 1)
          BY <1>2, <1>3, <5>1, AboveIsSmaller
        <5> QED
          BY <5>1, <5>2, ToolsAssumption
      <4> QED
        BY <1>4, <3>1, <4>1, <4>2, ToolsAssumption
    <3> QED
      BY <3>1
  <2> QED
    BY <1>1, <2>1 DEF SeenFrom
<1>7. ASSUME NEW c \in Refs!Children(e), Refs!Visible(e), NEW f \in SeenFrom(c)
      PROVE  f \in SeenFrom(e)
  <2>1. f \in Within(c) /\ f \in Within(e) /\ look[f] = "named" /\ f \in 1..N
    BY <1>1, <1>4 DEF SeenFrom
  <2>2. ASSUME NEW g \in Within(e), g = f \/ g \in Refs!Above(f)
        PROVE  Refs!Visible(g)
    <3>1. g \in Within(c) \/ g \in Refs!Above(c)
      BY <1>1, <1>4, <2>1, <2>2, Between
    <3>2. CASE g \in Within(c)
      BY <2>2, <3>2 DEF SeenFrom
    <3>3. CASE g \in Refs!Above(c)
      <4>1. parent[c] = e /\ parent[c] # 0
        BY <1>1, ChildrenAre
      <4>2. g = e \/ g \in Refs!Above(e)
        BY <1>1, <1>2, <1>3, <3>3, <4>1, AboveOf
      <4>3. g = e
        <5>1. g \in Refs!Above(e) /\ e \in Refs!Above(g) => g < e /\ e < g
          <6>1. g \in 1..N /\ Refs!Above(e) \subseteq 1..(e - 1) /\ Refs!Above(g) \subseteq 1..(g - 1)
            BY <1>2, <1>3, <1>4, AboveIsSmaller
          <6> QED
            BY <6>1, ToolsAssumption
        <5>2. ~(g < e /\ e < g)
          BY <1>4, ToolsAssumption
        <5> QED
          BY <1>4, <4>2, <5>1, <5>2
      <4> QED
        BY <1>7, <4>3
    <3> QED
      BY <3>1, <3>2, <3>3
  <2> QED
    BY <2>1, <2>2 DEF SeenFrom
<1>8. ASSUME NEW f \in SeenFrom(e), f # e
      PROVE  \E c \in Refs!Children(e) : f \in SeenFrom(c)
  <2>1. f \in Within(e)
    BY DEF SeenFrom
  <2>2. PICK c \in Refs!Children(e) : f \in Within(c)
    BY <1>8, <2>1, WithinIs
  <2>3. f \in SeenFrom(c)
    BY <1>1, <2>2 DEF SeenFrom
  <2> QED
    BY <2>3
<1> QED
  BY <1>5, <1>6, <1>7, <1>8 DEF SeenFrom

LEMMA WalkIsAsSeen ==
  ASSUME parent \in Refs!Trees
  PROVE  WalkIsSound
<1> USE ToolsAssumption
<1> DEFINE S == {e \in 1..N : /\ node[e] # 0 <=> SeenFrom(e) # {}
                              /\ node[e] # 0 => node[e] \in Within(e)}
<1>1. ASSUME NEW e \in 1..N, \A f \in (e + 1)..N : f \in S
      PROVE  e \in S
  <2>1. \A c \in Refs!Children(e) : /\ node[c] # 0 <=> SeenFrom(c) # {}
                                    /\ node[c] # 0 => node[c] \in Within(c)
    BY <1>1, ChildrenAre
  <2>2. \A c \in Refs!Children(e) : Within(c) \subseteq Within(e) /\ Within(c) \subseteq 1..N
    BY WithinIs DEF Within
  <2>3. \A c \in Refs!Children(e) : node[c] # 0 => node[c] \in 1..N
    BY <2>1, <2>2
  <2>4. \A k \in Kids(e) : k \in Within(e)
    BY <2>1, <2>2 DEF Kids
  <2>5. Kids(e) # {} <=> \E c \in Refs!Children(e) : SeenFrom(c) # {}
    BY <2>1 DEF Kids
  <2>6. e \in Within(e) /\ e # 0
    BY WithinIs
  <2> HIDE DEF S
  <2>7. node[e] # 0 => node[e] \in Within(e)
    BY <2>3, <2>4, <2>6, Contribution
  <2>8. ASSUME ~Refs!Visible(e)
       PROVE  node[e] # 0 <=> SeenFrom(e) # {}
    BY <2>3, <2>8, Contribution, SeenIs
  <2>9. ASSUME Refs!Visible(e), look[e] = "named"
       PROVE  node[e] # 0 <=> SeenFrom(e) # {}
    <3>1. node[e] = e
      BY <2>3, <2>9, Contribution
    <3>2. e \in SeenFrom(e)
      BY <2>9, SeenIs
    <3> QED
      BY <2>6, <3>1, <3>2
  <2>10. ASSUME Refs!Visible(e), look[e] # "named"
        PROVE  node[e] # 0 <=> SeenFrom(e) # {}
    <3>1. SeenFrom(e) # {} <=> \E c \in Refs!Children(e) : SeenFrom(c) # {}
      BY <2>10, SeenIs
    <3>2. node[e] # 0 <=> Kids(e) # {}
      BY <2>3, <2>10, Contribution
    <3> QED
      BY <2>5, <3>1, <3>2
  <2>11. node[e] # 0 <=> SeenFrom(e) # {}
    BY <2>8, <2>9, <2>10
  <2> QED
    BY <2>7, <2>11 DEF S
<1>2. S = 1..N
  <2>1. S \in SUBSET (1..N)
    OBVIOUS
  <2> HIDE DEF S
  <2> QED
    BY <1>1, <2>1, Downwards
<1> QED
  BY <1>2 DEF WalkIsSound

(* An element that can be reached lets whatever is seen from it be shown, and *)
(* what is shown is seen from every element above it.                         *)
LEMMA ShownIs ==
  ASSUME parent \in Refs!Trees, NEW e \in 1..N
  PROVE  /\ Refs!Reached(e) => SeenFrom(e) \subseteq Refs!Shown
         /\ \A f \in Refs!Shown : f \in Within(e) => f \in SeenFrom(e) /\ Refs!Reached(e)
<1>1. Rooted(parent)
  BY TreeIs
<1>2. \A g \in 1..N : Refs!Above(g) = Refs!AboveIn(parent, g) /\ Refs!Above(g) \subseteq 1..N
  <2>1. \A g \in 1..N : 1..(g - 1) \subseteq 1..N
    BY ToolsAssumption
  <2> QED
    BY <1>1, <2>1, AboveIsSmaller DEF Refs!Above
<1>3. ASSUME Refs!Reached(e), NEW f \in SeenFrom(e)
      PROVE  f \in Refs!Shown
  <2>1. f \in Within(e) /\ f \in 1..N /\ look[f] = "named"
    BY DEF SeenFrom, Within
  <2>2. ASSUME NEW g \in Refs!Above(f) \union {f}
        PROVE  Refs!Visible(g)
    <3>1. g \in 1..N /\ (g = f \/ g \in Refs!Above(f))
      BY <1>2, <2>1
    <3>2. g \in Within(e) \/ g \in Refs!Above(e)
      BY <2>1, <3>1, Between
    <3>3. g \in Within(e) => Refs!Visible(g)
      BY <3>1 DEF SeenFrom
    <3>4. g \in Refs!Above(e) => Refs!Visible(g)
      BY <1>3 DEF Refs!Reached
    <3> QED
      BY <3>2, <3>3, <3>4
  <2> QED
    BY <2>1, <2>2 DEF Refs!Shown, Refs!Reached, Refs!Elements
<1>4. ASSUME NEW f \in Refs!Shown, f \in Within(e)
      PROVE  f \in SeenFrom(e) /\ Refs!Reached(e)
  <2>1. /\ look[f] = "named" /\ f \in 1..N
        /\ \A g \in Refs!Above(f) \union {f} : Refs!Visible(g)
    BY DEF Refs!Shown, Refs!Reached, Refs!Elements
  <2>2. f = e \/ e \in Refs!Above(f)
    BY <1>4 DEF Within
  <2>3. Refs!Above(e) \union {e} \subseteq Refs!Above(f) \union {f}
    BY <1>1, <1>2, <2>1, <2>2, AboveIsTransitive
  <2> QED
    BY <1>4, <2>1, <2>3 DEF SeenFrom, Refs!Reached
<1> QED
  BY <1>3, <1>4

(* The deepest element that two elements of a frame are within.              *)
LEMMA PartingIs ==
  ASSUME parent \in Refs!Trees, NEW e \in 1..N, NEW f \in 1..N, Refs!Common(e, f) # {}
  PROVE  /\ Refs!Parting(e, f) \in 1..N
         /\ e \in Within(Refs!Parting(e, f)) /\ f \in Within(Refs!Parting(e, f))
         /\ \A h \in 1..N : e \in Within(h) /\ f \in Within(h) => h <= Refs!Parting(e, f)
<1> DEFINE both == Refs!Common(e, f)
<1>1. Rooted(parent)
  BY TreeIs
<1>2. \A g \in 1..N : Refs!Above(g) = Refs!AboveIn(parent, g) /\ Refs!Above(g) \subseteq 1..N
  <2>1. \A g \in 1..N : 1..(g - 1) \subseteq 1..N
    BY ToolsAssumption
  <2> QED
    BY <1>1, <2>1, AboveIsSmaller DEF Refs!Above
<1>3. both \in SUBSET (1..N) /\ both # {}
  BY <1>2 DEF Refs!Common
<1>4. \A h \in 1..N : h \in both <=> e \in Within(h) /\ f \in Within(h)
  BY DEF Within, Refs!Common
<1>5. Refs!Parting(e, f) = CHOOSE g \in both : \A h \in both : h <= g
  BY DEF Refs!Parting
<1> HIDE DEF both
<1>6. \E g \in both : \A h \in both : h <= g
  BY <1>3, Highest, ToolsAssumption
<1>7. Refs!Parting(e, f) \in both /\ \A h \in both : h <= Refs!Parting(e, f)
  BY <1>5, <1>6
<1> QED
  BY <1>3, <1>4, <1>7

LEMMA ChildrenPart ==
  ASSUME parent \in Refs!Trees, NEW e \in 1..N, NEW c \in Refs!Children(e), NEW d \in Refs!Children(e),
         NEW f \in Within(c), NEW g \in Within(d), c # d
  PROVE  Refs!Parting(f, g) = e /\ Refs!Common(f, g) # {} /\ f # g
<1> USE ToolsAssumption
<1>1. Rooted(parent)
  BY TreeIs
<1>2. /\ c \in 1..N /\ d \in 1..N /\ f \in 1..N /\ g \in 1..N /\ parent[c] = e /\ parent[d] = e
      /\ e # 0
  BY ChildrenAre DEF Within
<1>3. \A x \in 1..N : Refs!Above(x) = Refs!AboveIn(parent, x)
  BY DEF Refs!Above
<1>4. Refs!Above(c) = {e} \union Refs!Above(e) /\ Refs!Above(d) = {e} \union Refs!Above(e)
  BY <1>1, <1>2, <1>3, AboveOf
<1>5. \A h \in 1..N : \A x \in Refs!Above(h) : x < h
  <2>1. ASSUME NEW h \in 1..N, NEW x \in Refs!Above(h)
        PROVE  x < h
    <3>1. x \in 1..(h - 1)
      BY <1>1, <1>3, AboveIsSmaller
    <3> QED
      BY <3>1
  <2> QED
    BY <2>1
<1>6. c \notin Refs!Above(d) /\ d \notin Refs!Above(c)
  <2>1. ~(c < e) /\ ~(d < e) /\ c # e /\ d # e
    <3>1. e < c /\ e < d
      BY <1>2, <1>4, <1>5
    <3> QED
      BY <1>2, <3>1
  <2> QED
    BY <1>4, <1>5, <2>1
<1>7. \A h \in 1..N : ~(h \in Within(c) /\ h \in Within(d))
  <2> SUFFICES ASSUME NEW h \in 1..N, h \in Within(c), h \in Within(d)
               PROVE  FALSE
    OBVIOUS
  <2>1. d = h \/ d \in Refs!Above(h)
    BY DEF Within
  <2>2. d \in Within(c) \/ d \in Refs!Above(c)
    BY <1>2, <2>1, Between
  <2> QED
    BY <1>2, <1>6, <2>2 DEF Within
<1>8. /\ Refs!Parting(f, g) \in 1..N
      /\ f \in Within(Refs!Parting(f, g)) /\ g \in Within(Refs!Parting(f, g))
      /\ \A h \in 1..N : f \in Within(h) /\ g \in Within(h) => h <= Refs!Parting(f, g)
  <2>1. f \in Within(e) /\ g \in Within(e)
    BY WithinIs
  <2>2. Refs!Common(f, g) # {}
    BY <2>1 DEF Within, Refs!Common
  <2> QED
    BY <1>2, <2>2, PartingIs
<1>9. f \in Within(e) /\ g \in Within(e)
  BY WithinIs
<1> DEFINE h == Refs!Parting(f, g)
<1>10. h \in Refs!Above(c)
  <2>1. (h = f \/ h \in Refs!Above(f)) /\ (h = g \/ h \in Refs!Above(g))
    BY <1>8 DEF Within
  <2>2. h \in Within(c) \/ h \in Refs!Above(c)
    BY <1>2, <1>8, <2>1, Between
  <2>3. h \in Within(d) \/ h \in Refs!Above(d)
    BY <1>2, <1>8, <2>1, Between
  <2>4. ASSUME h \in Within(c)
        PROVE  FALSE
    <3>1. h \in Refs!Above(d)
      BY <1>7, <1>8, <2>3, <2>4
    <3>2. c = h \/ c \in Refs!Above(h)
      BY <2>4 DEF Within
    <3>3. (c <= h /\ h = e) \/ (c <= h /\ h \in Refs!Above(e))
      BY <1>2, <1>4, <1>5, <1>8, <3>1, <3>2
    <3>4. h <= e /\ e < c
      BY <1>2, <1>4, <1>5, <1>8, <3>3
    <3> QED
      BY <1>2, <1>8, <3>3, <3>4
  <2> QED
    BY <2>2, <2>4
<1>11. h <= e /\ e <= h
  BY <1>2, <1>4, <1>5, <1>8, <1>9, <1>10
<1> QED
  BY <1>2, <1>7, <1>8, <1>9, <1>11 DEF Within, Refs!Common

(* What read_page and find list, for every tree and however its elements     *)
(* look: the walk of accessibilityTree.ts keeps no wrapper, nothing hidden   *)
(* by something above it and nothing twice.                                  *)
LEMMA WalkListsTheParting ==
  ASSUME parent \in Refs!Trees
  PROVE  Refs!ListingIsRight
<1> USE ToolsAssumption
<1>1. WalkIsSound
  BY WalkIsAsSeen
<1>2. \A e \in 1..N : \A c \in Refs!Children(e) : node[c] # 0 => node[c] \in 1..N
  BY <1>1, ChildrenAre DEF WalkIsSound, Within
<1>3. ASSUME NEW e \in Refs!Kept
      PROVE  e \in 1..N /\ \E f, g \in Refs!Shown : Refs!Common(f, g) # {} /\ e = Refs!Parting(f, g)
  <2>1. e \in 1..N /\ Refs!Reached(e) /\ node[e] = e /\ e # 0
    BY DEF Refs!Kept, Refs!Elements, node
  <2>2. Refs!Visible(e)
    BY <2>1 DEF Refs!Reached
  <2>3. CASE look[e] = "named"
    <3>1. e \in Refs!Shown
      BY <2>1, <2>3 DEF Refs!Shown, Refs!Elements
    <3>2. Refs!Parting(e, e) = e
      <4>1. Rooted(parent)
        BY TreeIs
      <4>2. Refs!Above(e) \subseteq 1..(e - 1)
        BY <2>1, <4>1, AboveIsSmaller DEF Refs!Above
      <4>3. /\ Refs!Parting(e, e) \in 1..N /\ e \in Within(Refs!Parting(e, e))
            /\ e <= Refs!Parting(e, e)
        BY <2>1, CommonIs, PartingIs, WithinIs
      <4> QED
        BY <2>1, <4>2, <4>3 DEF Within
    <3> QED
      BY <2>1, <3>1, <3>2, CommonIs
  <2>4. CASE look[e] # "named"
    <3>1. \A k \in Kids(e) : \E c \in Refs!Children(e) : k = node[c] /\ k # 0
      BY DEF Kids
    <3>2. e \notin Kids(e)
      BY <1>1, <2>1, <3>1, ChildrenAre, WithinIs DEF WalkIsSound
    <3>3. PICK k \in Kids(e), l \in Kids(e) : k # l
      BY <1>2, <2>1, <2>2, <2>4, <3>2, Contribution
    <3>4. PICK c \in Refs!Children(e) : k = node[c] /\ k # 0
      BY <3>1
    <3>5. PICK d \in Refs!Children(e) : l = node[d] /\ l # 0
      BY <3>1
    <3>6. c # d /\ c \in 1..N /\ d \in 1..N
      BY <2>1, <3>3, <3>4, <3>5, ChildrenAre
    <3>7. PICK f \in SeenFrom(c) : TRUE
      BY <1>1, <3>4, <3>6 DEF WalkIsSound
    <3>8. PICK g \in SeenFrom(d) : TRUE
      BY <1>1, <3>5, <3>6 DEF WalkIsSound
    <3>9. f \in SeenFrom(e) /\ g \in SeenFrom(e)
      BY <2>1, <2>2, SeenIs
    <3>10. f \in Refs!Shown /\ g \in Refs!Shown
      BY <2>1, <3>9, ShownIs
    <3>11. Refs!Parting(f, g) = e /\ Refs!Common(f, g) # {}
      BY <2>1, <3>6, ChildrenPart DEF SeenFrom
    <3> QED
      BY <2>1, <3>10, <3>11
  <2> QED
    BY <2>3, <2>4
<1>4. ASSUME NEW f \in Refs!Shown, NEW g \in Refs!Shown, Refs!Common(f, g) # {}
      PROVE  Refs!Parting(f, g) \in Refs!Kept
  <2> DEFINE e == Refs!Parting(f, g)
  <2>1. f \in 1..N /\ g \in 1..N
    BY DEF Refs!Shown, Refs!Elements
  <2>2. /\ e \in 1..N /\ f \in Within(e) /\ g \in Within(e)
        /\ \A h \in 1..N : f \in Within(h) /\ g \in Within(h) => h <= e
    BY <1>4, <2>1, PartingIs
  <2> HIDE DEF e
  <2>3. Refs!Reached(e) /\ f \in SeenFrom(e) /\ g \in SeenFrom(e)
    BY <2>2, ShownIs
  <2>4. Refs!Visible(e)
    BY <2>3 DEF Refs!Reached
  <2>5. node[e] = e
    <3>1. CASE look[e] = "named"
      BY <1>2, <2>2, <2>4, <3>1, Contribution
    <3>2. CASE look[e] # "named"
      <4>1. f # e /\ g # e
        BY <2>2, <2>3, <3>2, SeenIs
      <4>2. PICK c \in Refs!Children(e) : f \in SeenFrom(c)
        BY <2>2, <2>3, <4>1, SeenIs
      <4>3. PICK d \in Refs!Children(e) : g \in SeenFrom(d)
        BY <2>2, <2>3, <4>1, SeenIs
      <4>4. c \in 1..N /\ d \in 1..N /\ e < c /\ f \in Within(c) /\ g \in Within(d)
        <5>1. c \in 1..N /\ d \in 1..N /\ c \in (e + 1)..N
          BY <2>2, ChildrenAre
        <5> QED
          BY <2>2, <4>2, <4>3, <5>1 DEF SeenFrom
      <4>5. c # d
        BY <2>2, <4>4
      <4>6. node[c] \in Kids(e) /\ node[d] \in Kids(e) /\ node[c] \in Within(c) /\ node[d] \in Within(d)
        BY <1>1, <4>2, <4>3, <4>4 DEF Kids, WalkIsSound
      <4>7. node[c] # node[d]
        BY <2>2, <4>5, <4>6, ChildrenPart
      <4> QED
        BY <1>2, <2>2, <2>4, <4>6, <4>7, Contribution
    <3> QED
      BY <3>1, <3>2
  <2>6. e \in Refs!Kept
    BY <2>2, <2>3, <2>5 DEF Refs!Kept, Refs!Elements, node
  <2> QED
    BY <2>6 DEF e
<1> QED
  BY <1>3, <1>4 DEF Refs!ListingIsRight, Refs!Elements

(* What read_page and find list is what can be seen and has something to say,*)
(* and the places where such elements part, on every page and however it     *)
(* changes (accessibilityTree.ts).                                           *)
THEOREM ListsWhatIsThere == Spec => []ListingIsRight
<1>1. RefsInv => ListingIsRight
  BY WalkListsTheParting DEF RefsInv, ListingIsRight
<1> QED
  BY <1>1, RefsAlways, PTL

-----------------------------------------------------------------------------
(***************************************************************************)
(* GifCreator.  The reader is one string behind the encoder: it has the    *)
(* strings the encoder has added but the last, and of that one it knows all*)
(* but the colour with which the string that is yet to be written begins.  *)
(***************************************************************************)
Text == Seq(Gif!Colours)

OneBehind ==
  \/ readLast = <<>> /\ grown = <<>> /\ readTable = <<>>
  \/ /\ readLast # <<>> /\ grown = Append(readTable, Append(readLast, buffer[1]))

(* The next code of the encoder fits the size, or there are no larger sizes, *)
(* and it is not past the table.                                             *)
SizesFit ==
  /\ readSize = codeSize /\ codeSize \in 1..MaxBits
  /\ codeSize = MaxBits \/ Gif!nextCode <= Gif!twoTo[codeSize]
  /\ Gif!nextCode <= Gif!maxCodeLimit

InStep ==
  encoding = "pixels" =>
    /\ grown \in Seq(Text) /\ readTable \in Seq(Text) /\ readLast \in Text
    /\ buffer \in Text /\ buffer # <<>> /\ Gif!Known(buffer)
    /\ OneBehind /\ SizesFit

GifInv == InStep /\ Gif!ReadsBack

IsTwoTo(g, n) == g = [i \in 0..n |-> IF i = 0 THEN 1 ELSE 2 * g[i - 1]]

LEMMA TwoToUpTo ==
  ASSUME NEW n \in Nat
  PROVE  \E g : IsTwoTo(g, n)
<1> DEFINE Without == {i \in Nat : ~ \E g : IsTwoTo(g, i)}
<1> SUFFICES ASSUME Without # {}
             PROVE  FALSE
  OBVIOUS
<1>1. PICK i \in Without : \A j \in Without : i <= j
  <2>1. Without \in SUBSET Nat
    OBVIOUS
  <2> HIDE DEF Without
  <2> QED
    BY <2>1, Least
<1>2. i \in Nat /\ ~ \E g : IsTwoTo(g, i)
  OBVIOUS
<1>3. i # 0
  <2> DEFINE one == [j \in 0..0 |-> 1]
  <2>1. one = [j \in 0..0 |-> IF j = 0 THEN 1 ELSE 2 * one[j - 1]]
    OBVIOUS
  <2> HIDE DEF one
  <2>2. IsTwoTo(one, 0)
    BY <2>1 DEF IsTwoTo
  <2> QED
    BY <1>2, <2>2
<1>4. PICK g : IsTwoTo(g, i - 1)
  <2>1. i - 1 \in Nat /\ ~(i <= i - 1)
    BY <1>2, <1>3
  <2>2. i - 1 \notin Without
    BY <1>1, <2>1
  <2> QED
    BY <2>1, <2>2
<1> HIDE DEF Without
<1>5. \A j \in 0..(i - 1) : g[j] = IF j = 0 THEN 1 ELSE 2 * g[j - 1]
  BY <1>4 DEF IsTwoTo
<1> DEFINE h == [j \in 0..i |-> IF j = 0 THEN 1 ELSE 2 * g[j - 1]]
<1>6. \A j \in 0..(i - 1) : h[j] = g[j]
  <2>1. ASSUME NEW j \in 0..(i - 1)
        PROVE  h[j] = g[j]
    <3>1. j \in 0..i
      BY <1>2
    <3>2. h[j] = IF j = 0 THEN 1 ELSE 2 * g[j - 1]
      BY <3>1
    <3> QED
      BY <1>5, <3>2
  <2> QED
    BY <2>1
<1>7. \A j \in 0..i : j # 0 => h[j - 1] = g[j - 1]
  <2>1. \A j \in 0..i : j # 0 => j - 1 \in 0..(i - 1)
    BY <1>2
  <2> HIDE DEF h
  <2> QED
    BY <1>6, <2>1
<1>8. h = [j \in 0..i |-> IF j = 0 THEN 1 ELSE 2 * h[j - 1]]
  BY <1>7
<1> HIDE DEF h
<1> QED
  BY <1>2, <1>8 DEF IsTwoTo

LEMMA TwoToIs ==
  \A n \in 0..MaxBits : Gif!twoTo[n] = IF n = 0 THEN 1 ELSE 2 * Gif!twoTo[n - 1]
<1> DEFINE t == CHOOSE g : g = [i \in 0..MaxBits |-> IF i = 0 THEN 1 ELSE 2 * g[i - 1]]
<1>1. Gif!twoTo = t
  BY DEF Gif!twoTo
<1>2. \E g : g = [i \in 0..MaxBits |-> IF i = 0 THEN 1 ELSE 2 * g[i - 1]]
  BY TwoToUpTo, ToolsAssumption DEF IsTwoTo
<1>3. t = [i \in 0..MaxBits |-> IF i = 0 THEN 1 ELSE 2 * t[i - 1]]
  BY <1>2
<1> HIDE DEF t
<1> QED
  BY <1>1, <1>3

LEMMA TwoToGrows ==
  /\ \A n \in 0..MaxBits : Gif!twoTo[n] \in Nat /\ Gif!twoTo[n] >= 1
  /\ \A n \in 0..MaxBits : n # MaxBits => Gif!twoTo[n + 1] = 2 * Gif!twoTo[n] /\ Gif!twoTo[n] < Gif!twoTo[MaxBits]
<1> USE ToolsAssumption
<1>1. \A n \in 0..MaxBits : Gif!twoTo[n] \in Nat /\ Gif!twoTo[n] >= 1
  <2> DEFINE T == {i \in 0..MaxBits : ~(Gif!twoTo[i] \in Nat /\ Gif!twoTo[i] >= 1)}
  <2> SUFFICES ASSUME T # {}
               PROVE  FALSE
    OBVIOUS
  <2>1. PICK i \in T : \A j \in T : i <= j
    <3>1. T \in SUBSET Nat
      OBVIOUS
    <3> HIDE DEF T
    <3> QED
      BY <3>1, Least
  <2>2. CASE i = 0
    BY <2>2, TwoToIs
  <2>3. CASE i # 0
    <3>1. i - 1 \in 0..MaxBits /\ ~(i <= i - 1) /\ i \in 0..MaxBits
      BY <2>3
    <3>2. i - 1 \notin T
      BY <2>1, <3>1
    <3>3. Gif!twoTo[i - 1] \in Nat /\ Gif!twoTo[i - 1] >= 1
      BY <3>1, <3>2
    <3>4. Gif!twoTo[i] = 2 * Gif!twoTo[i - 1]
      BY <2>3, <3>1, TwoToIs
    <3> QED
      BY <3>3, <3>4
  <2> QED
    BY <2>2, <2>3
<1>2. \A n \in 0..MaxBits : n # MaxBits => Gif!twoTo[n + 1] = 2 * Gif!twoTo[n]
  <2>1. ASSUME NEW n \in 0..MaxBits, n # MaxBits
        PROVE  Gif!twoTo[n + 1] = 2 * Gif!twoTo[n]
    <3>1. n + 1 \in 0..MaxBits /\ n + 1 # 0 /\ (n + 1) - 1 = n
      BY <2>1
    <3> QED
      BY <3>1, TwoToIs
  <2> QED
    BY <2>1
<1>3. \A n \in 0..MaxBits : n # MaxBits => Gif!twoTo[n] < Gif!twoTo[MaxBits]
  <2> DEFINE T == {i \in 1..MaxBits : MaxBits - i # MaxBits /\ ~(Gif!twoTo[MaxBits - i] < Gif!twoTo[MaxBits])}
  <2> SUFFICES ASSUME T # {}
               PROVE  FALSE
    <3>1. \A n \in 0..MaxBits : n # MaxBits => MaxBits - n \in 1..MaxBits /\ MaxBits - (MaxBits - n) = n
      OBVIOUS
    <3> QED
      BY <3>1
  <2>1. PICK i \in T : \A j \in T : i <= j
    <3>1. T \in SUBSET Nat
      OBVIOUS
    <3> HIDE DEF T
    <3> QED
      BY <3>1, Least
  <2>2. /\ i \in 1..MaxBits /\ MaxBits - i \in 0..MaxBits /\ MaxBits - i # MaxBits
        /\ ~(Gif!twoTo[MaxBits - i] < Gif!twoTo[MaxBits])
    OBVIOUS
  <2>3. Gif!twoTo[(MaxBits - i) + 1] = 2 * Gif!twoTo[MaxBits - i]
    BY <1>2, <2>2
  <2>4. Gif!twoTo[MaxBits - i] < Gif!twoTo[(MaxBits - i) + 1] /\ Gif!twoTo[(MaxBits - i) + 1] \in Nat
    BY <1>1, <2>2, <2>3
  <2>5. CASE i = 1
    <3>1. (MaxBits - i) + 1 = MaxBits
      BY <2>5
    <3> QED
      BY <2>2, <2>4, <3>1
  <2>6. CASE i # 1
    <3>1. /\ i - 1 \in 1..MaxBits /\ ~(i <= i - 1) /\ (MaxBits - i) + 1 = MaxBits - (i - 1)
          /\ MaxBits - (i - 1) # MaxBits
      BY <2>2, <2>6
    <3>2. i - 1 \notin T
      BY <2>1, <3>1
    <3>3. Gif!twoTo[MaxBits - (i - 1)] < Gif!twoTo[MaxBits]
      BY <3>1, <3>2
    <3> HIDE DEF T
    <3>4. Gif!twoTo[MaxBits] \in Nat /\ Gif!twoTo[MaxBits - i] \in Nat
      BY <1>1, <2>2
    <3> QED
      BY <2>2, <2>4, <3>1, <3>3, <3>4
  <2> QED
    BY <2>5, <2>6
<1> QED
  BY <1>1, <1>2, <1>3

LEMMA CodesAre ==
  /\ Gif!clearCode \in Nat /\ Gif!clearCode >= 2 /\ Gif!eoiCode = Gif!clearCode + 1
  /\ Gif!maxCodeLimit \in Nat
  /\ MinCodeSize + 1 \in 1..MaxBits
  /\ Gif!eoiCode + 1 <= Gif!twoTo[MinCodeSize + 1] /\ Gif!eoiCode + 1 <= Gif!maxCodeLimit
<1> USE ToolsAssumption
<1>1. /\ MinCodeSize \in 0..MaxBits /\ MinCodeSize # MaxBits /\ MinCodeSize - 1 \in 0..MaxBits
      /\ MinCodeSize - 1 # MaxBits /\ (MinCodeSize - 1) + 1 = MinCodeSize /\ MaxBits \in 0..MaxBits
      /\ MinCodeSize + 1 \in 0..MaxBits
  OBVIOUS
<1>2. /\ Gif!twoTo[MinCodeSize - 1] \in Nat /\ Gif!twoTo[MinCodeSize - 1] >= 1
      /\ Gif!twoTo[MinCodeSize] = 2 * Gif!twoTo[MinCodeSize - 1]
  BY <1>1, TwoToGrows
<1>3. /\ Gif!twoTo[MinCodeSize + 1] = 2 * Gif!twoTo[MinCodeSize]
      /\ Gif!twoTo[MaxBits] \in Nat
  BY <1>1, TwoToGrows
<1>4. Gif!twoTo[MinCodeSize + 1] <= Gif!twoTo[MaxBits]
  <2>1. CASE MinCodeSize + 1 = MaxBits
    BY <1>3, <2>1
  <2>2. CASE MinCodeSize + 1 # MaxBits
    <3>1. Gif!twoTo[MinCodeSize + 1] < Gif!twoTo[MaxBits] /\ Gif!twoTo[MinCodeSize + 1] \in Nat
      BY <1>1, <2>2, TwoToGrows
    <3> QED
      BY <1>3, <3>1
  <2> QED
    BY <2>1, <2>2
<1>5. Gif!clearCode = Gif!twoTo[MinCodeSize] /\ Gif!maxCodeLimit = Gif!twoTo[MaxBits]
      /\ Gif!eoiCode = Gif!clearCode + 1
  BY DEF Gif!clearCode, Gif!maxCodeLimit, Gif!eoiCode
<1>6. MinCodeSize + 1 \in 1..MaxBits
  OBVIOUS
<1>7. Gif!clearCode \in Nat /\ Gif!clearCode >= 2 /\ Gif!twoTo[MinCodeSize + 1] = 2 * Gif!clearCode
  BY <1>2, <1>3, <1>5
<1>8. Gif!eoiCode + 1 <= Gif!twoTo[MinCodeSize + 1]
  BY <1>5, <1>7
<1>9. Gif!eoiCode + 1 <= Gif!maxCodeLimit
  BY <1>3, <1>4, <1>5, <1>7, <1>8
<1> QED
  BY <1>3, <1>5, <1>6, <1>7, <1>8, <1>9

(* One string behind, in terms of the tables' entries.                       *)
LEMMA BehindBy ==
  ASSUME InStep, encoding = "pixels"
  PROVE  /\ Len(grown) \in Nat /\ Len(readTable) \in Nat /\ buffer[1] \in Gif!Colours
         /\ readLast = <<>> => Len(grown) = 0 /\ Len(readTable) = 0
         /\ readLast # <<>> => /\ Len(grown) = Len(readTable) + 1
                               /\ \A i \in 1..Len(readTable) : grown[i] = readTable[i]
                               /\ grown[Len(grown)] = Append(readLast, buffer[1])
<1>1. /\ grown \in Seq(Text) /\ readTable \in Seq(Text) /\ readLast \in Text
      /\ buffer \in Text /\ buffer # <<>> /\ OneBehind
  BY DEF InStep
<1>2. Len(buffer) \in Nat /\ Len(buffer) # 0 /\ buffer[1] \in Gif!Colours
  BY <1>1 DEF Text
<1>3. Append(readLast, buffer[1]) \in Text
  BY <1>1, <1>2 DEF Text
<1>4. CASE readLast = <<>>
  BY <1>1, <1>2, <1>4 DEF OneBehind
<1>5. CASE readLast # <<>>
  <2> DEFINE x == Append(readLast, buffer[1])
  <2>1. x \in Text /\ grown = Append(readTable, x)
    BY <1>1, <1>3, <1>5 DEF OneBehind
  <2> HIDE DEF x
  <2>2. /\ Len(grown) = Len(readTable) + 1 /\ Len(readTable) \in Nat
        /\ \A i \in 1..Len(readTable) : grown[i] = readTable[i]
        /\ grown[Len(grown)] = x
    BY <1>1, <2>1
  <2> QED
    BY <1>1, <1>2, <1>5, <2>2 DEF x
<1> QED
  BY <1>4, <1>5

(* The reader gets the string that is written, also when it is the one that  *)
(* it is about to add.                                                       *)
LEMMA ReadsTheBuffer ==
  ASSUME InStep, encoding = "pixels"
  PROVE  Gif!Reading(Gif!Code(buffer)) = buffer
<1>1. /\ readLast \in Text /\ buffer \in Text /\ buffer # <<>> /\ Gif!Known(buffer)
  BY DEF InStep
<1>2. /\ Gif!clearCode \in Nat /\ Gif!eoiCode = Gif!clearCode + 1
  BY CodesAre
<1>3. /\ Len(grown) \in Nat /\ Len(readTable) \in Nat /\ buffer[1] \in Gif!Colours
      /\ readLast = <<>> => Len(grown) = 0 /\ Len(readTable) = 0
      /\ readLast # <<>> => /\ Len(grown) = Len(readTable) + 1
                            /\ \A i \in 1..Len(readTable) : grown[i] = readTable[i]
                            /\ grown[Len(grown)] = Append(readLast, buffer[1])
  BY BehindBy
<1>4. CASE Len(buffer) = 1
  <2>1. Gif!Code(buffer) = buffer[1]
    BY <1>4 DEF Gif!Code
  <2>2. buffer[1] < Gif!clearCode /\ buffer[1] \in Nat
    BY <1>2, <1>3 DEF Gif!Colours
  <2>3. ~(buffer[1] > Gif!eoiCode) /\ ~(buffer[1] - Gif!eoiCode = Len(readTable) + 1)
    BY <1>2, <1>3, <2>2
  <2>4. Gif!Reading(Gif!Code(buffer)) = <<buffer[1]>>
    BY <2>1, <2>2, <2>3 DEF Gif!Reading
  <2>5. buffer = <<buffer[1]>>
    BY <1>1, <1>4 DEF Text
  <2> QED
    BY <2>4, <2>5
<1>5. CASE Len(buffer) # 1
  <2> DEFINE i == CHOOSE j \in 1..Len(grown) : grown[j] = buffer
  <2>1. i \in 1..Len(grown) /\ grown[i] = buffer
    BY <1>1, <1>5 DEF Gif!Known
  <2>2. Gif!Code(buffer) = Gif!eoiCode + i
    BY <1>5 DEF Gif!Code
  <2> HIDE DEF i
  <2> DEFINE code == Gif!Code(buffer)
  <2>3. /\ code \in Nat /\ ~(code < Gif!clearCode) /\ code > Gif!eoiCode /\ code - Gif!eoiCode = i
        /\ readLast # <<>>
    BY <1>2, <1>3, <2>1, <2>2
  <2> HIDE DEF code
  <2>4. CASE i <= Len(readTable)
    <3>1. ~(i = Len(readTable) + 1)
      BY <1>3, <2>1, <2>4
    <3>2. Gif!Reading(code) = readTable[i]
      BY <2>3, <2>4, <3>1 DEF Gif!Reading
    <3>3. readTable[i] = buffer
      BY <1>3, <2>1, <2>3, <2>4
    <3> QED
      BY <3>2, <3>3 DEF code
  <2>5. CASE ~(i <= Len(readTable))
    <3>1. i = Len(readTable) + 1 /\ i = Len(grown)
      BY <1>3, <2>1, <2>3, <2>5
    <3>2. Gif!Reading(code) = Append(readLast, readLast[1])
      BY <2>3, <2>5, <3>1 DEF Gif!Reading
    <3>3. buffer = Append(readLast, buffer[1])
      BY <1>3, <2>1, <2>3, <3>1
    <3>4. readLast[1] = buffer[1]
      <4> DEFINE c == buffer[1]
      <4>1. c \in Gif!Colours
        BY <1>3
      <4> HIDE DEF c
      <4>2. Append(readLast, c)[1] = readLast[1]
        BY <1>1, <2>3, <4>1 DEF Text
      <4> QED
        BY <3>3, <4>2 DEF c
    <3> QED
      BY <3>2, <3>3, <3>4 DEF code
  <2> QED
    BY <2>4, <2>5
<1> QED
  BY <1>4, <1>5

(* Then it has what the encoder had, and the size that goes with that.       *)
LEMMA ThenIsUpToDate ==
  ASSUME InStep, encoding = "pixels"
  PROVE  LET reader == Gif!ReaderAfter(Gif!Code(buffer)) IN
         /\ reader.text = buffer /\ reader.table = grown
         /\ reader.size = IF Gif!nextCode = Gif!twoTo[codeSize] /\ codeSize < MaxBits
                          THEN codeSize + 1 ELSE codeSize
<1> DEFINE code == Gif!Code(buffer)
<1>1. Gif!Reading(code) = buffer
  BY ReadsTheBuffer
<1> HIDE DEF code
<1>2. buffer # <<>> /\ readSize = codeSize /\ OneBehind /\ Gif!nextCode <= Gif!maxCodeLimit
  BY DEF InStep, SizesFit
<1>3. Gif!clearCode \in Nat /\ Gif!eoiCode = Gif!clearCode + 1 /\ Gif!maxCodeLimit \in Nat
  BY CodesAre
<1>4. /\ Len(grown) \in Nat /\ Len(readTable) \in Nat
      /\ readLast # <<>> => Len(grown) = Len(readTable) + 1
  BY BehindBy
<1>5. Gif!nextCode = Gif!eoiCode + 1 + Len(grown)
  BY DEF Gif!nextCode
<1> DEFINE added == IF readLast # <<>> /\ buffer # <<>> /\ Gif!eoiCode + 1 + Len(readTable) < Gif!maxCodeLimit
                    THEN Append(readTable, Append(readLast, buffer[1])) ELSE readTable
<1>6. added = grown
  <2>1. CASE readLast = <<>>
    BY <1>2, <2>1 DEF OneBehind
  <2>2. CASE readLast # <<>>
    <3>1. Gif!eoiCode + 1 + Len(readTable) < Gif!maxCodeLimit
      BY <1>2, <1>3, <1>4, <1>5, <2>2
    <3> QED
      BY <1>2, <2>2, <3>1 DEF OneBehind
  <2> QED
    BY <2>1, <2>2
<1>7. Gif!ReaderAfter(code) =
        [text |-> buffer, table |-> added,
         size |-> IF Gif!eoiCode + 1 + Len(added) = Gif!twoTo[readSize] /\ readSize < MaxBits
                  THEN readSize + 1 ELSE readSize]
  BY <1>1 DEF Gif!ReaderAfter
<1> QED
  BY <1>2, <1>5, <1>6, <1>7 DEF code

LEMMA GifInitially == Gif!Init => GifInv
  BY DEF Gif!Init, GifInv, InStep, Gif!ReadsBack, Gif!Match

LEMMA GifUntouched ==
  ASSUME GifInv, UNCHANGED <<encoding, palette, grown, codeSize, buffer, readTable, readSize, readLast, sent>>
  PROVE  GifInv'
<1>1. Gif!nextCode' = Gif!nextCode /\ (Gif!Known(buffer) => Gif!Known(buffer)')
  BY DEF Gif!nextCode, Gif!Known
<1>2. SizesFit' = SizesFit /\ OneBehind' = OneBehind
  BY <1>1 DEF SizesFit, OneBehind
<1>3. Gif!ReadsBack'
  BY DEF GifInv, Gif!ReadsBack
<1>4. InStep'
  BY <1>1, <1>2 DEF GifInv, InStep
<1> QED
  BY <1>3, <1>4 DEF GifInv

(* Between frames only what was sent matters.                                *)
LEMMA BetweenFrames ==
  ASSUME GifInv, encoding' # "pixels", UNCHANGED <<palette, sent>>
  PROVE  GifInv'
  BY DEF GifInv, InStep, Gif!ReadsBack

(* A string of one colour with tables as new.                                *)
LEMMA Renewed ==
  ASSUME NEW colour \in Gif!Colours, Gif!Fresh, buffer' = <<colour>>
  PROVE  InStep'
<1>1. /\ grown' = <<>> /\ readTable' = <<>> /\ readLast' = <<>>
      /\ codeSize' = MinCodeSize + 1 /\ readSize' = MinCodeSize + 1
  BY DEF Gif!Fresh
<1>2. Gif!nextCode' = Gif!eoiCode + 1
  <2>1. Len(grown') = 0
    BY <1>1
  <2>2. Gif!nextCode' = Gif!eoiCode + 1 + Len(grown')
    BY DEF Gif!nextCode
  <2> QED
    BY <2>1, <2>2, CodesAre
<1>3. SizesFit'
  BY <1>1, <1>2, CodesAre DEF SizesFit
<1>4. OneBehind'
  BY <1>1 DEF OneBehind
<1>5. Gif!Known(buffer)'
  <2>1. Len(buffer') = 1
    OBVIOUS
  <2> QED
    BY <2>1 DEF Gif!Known
<1>6. grown' \in Seq(Text) /\ readTable' \in Seq(Text) /\ readLast' \in Text
  BY <1>1 DEF Text
<1>7. buffer' \in Text /\ buffer' # <<>>
  BY DEF Text
<1> QED
  BY <1>3, <1>4, <1>5, <1>6, <1>7 DEF InStep

LEMMA FrameBegins ==
  ASSUME GifInv, NEW colour \in Gif!Colours, NEW p \in Palettes, Gif!Frame(p, colour)
  PROVE  GifInv'
<1>1. palette' = <<p, p>>
  BY DEF Gif!Frame
<1>2. Gif!Fresh /\ buffer' = <<colour>> /\ sent' = Gif!Match
  BY DEF Gif!Frame
<1>3. Gif!ReadsBack'
  BY <1>1, <1>2 DEF Gif!ReadsBack, Gif!Match
<1>4. InStep'
  BY <1>2, Renewed
<1> QED
  BY <1>3, <1>4 DEF GifInv

(* A code that is sent is read, in its size.                                 *)
LEMMA SentIsRead ==
  ASSUME GifInv, encoding = "pixels", NEW clears \in BOOLEAN, Gif!Send(clears), UNCHANGED palette,
         clears => codeSize = MaxBits
  PROVE  Gif!ReadsBack'
<1>1. Gif!Reading(Gif!Code(buffer)) = buffer
  BY ReadsTheBuffer DEF GifInv
<1>2. readSize = codeSize
  BY DEF GifInv, InStep, SizesFit
<1>3. clears => Gif!ReaderAfter(Gif!Code(buffer)).size = codeSize
  BY ThenIsUpToDate, ToolsAssumption DEF GifInv
<1>4. sent'.read = buffer /\ sent'.text = buffer /\ sent'.sizes = <<codeSize, codeSize>>
      /\ sent'.readSizes = <<codeSize, codeSize>>
  BY <1>1, <1>2, <1>3 DEF Gif!Send
<1> QED
  BY <1>4 DEF GifInv, Gif!ReadsBack

LEMMA FrameIsEnded ==
  ASSUME GifInv, Gif!FrameEnds
  PROVE  GifInv'
<1>1. encoding = "pixels" /\ encoding' # "pixels" /\ Gif!Send(FALSE) /\ UNCHANGED palette
  BY DEF Gif!FrameEnds
<1>2. Gif!ReadsBack'
  BY <1>1, SentIsRead
<1> QED
  BY <1>1, <1>2 DEF GifInv, InStep

(* The string goes on.                                                       *)
LEMMA StringGrows ==
  ASSUME GifInv, encoding = "pixels", NEW colour \in Gif!Colours,
         Gif!Known(Append(buffer, colour)), buffer' = Append(buffer, colour),
         UNCHANGED <<encoding, palette, grown, codeSize, readTable, readSize, readLast, sent>>
  PROVE  GifInv'
<1>1. /\ grown \in Seq(Text) /\ readTable \in Seq(Text) /\ readLast \in Text
      /\ buffer \in Text /\ buffer # <<>> /\ OneBehind /\ SizesFit
  BY DEF GifInv, InStep
<1>2. buffer' \in Text /\ buffer' # <<>> /\ buffer'[1] = buffer[1]
  BY <1>1 DEF Text
<1>3. OneBehind'
  BY <1>1, <1>2 DEF OneBehind
<1>4. Gif!nextCode' = Gif!nextCode
  BY DEF Gif!nextCode
<1>5. SizesFit'
  BY <1>1, <1>4 DEF SizesFit
<1>6. Gif!Known(buffer)'
  BY DEF Gif!Known
<1>7. InStep'
  BY <1>1, <1>2, <1>3, <1>5, <1>6 DEF InStep
<1>8. Gif!ReadsBack'
  BY DEF GifInv, Gif!ReadsBack
<1> QED
  BY <1>7, <1>8 DEF GifInv

(* The string is written, and with the next colour it is a new one.          *)
LEMMA TableGrows ==
  ASSUME GifInv, encoding = "pixels", NEW colour \in Gif!Colours,
         buffer' = <<colour>>, Gif!nextCode < Gif!maxCodeLimit,
         grown' = Append(grown, Append(buffer, colour)), codeSize' = Gif!Grow(grown'),
         Gif!Receive(Gif!Code(buffer)), Gif!Send(FALSE), UNCHANGED <<encoding, palette>>
  PROVE  GifInv'
<1>1. /\ grown \in Seq(Text) /\ buffer \in Text /\ buffer # <<>> /\ SizesFit
  BY DEF GifInv, InStep
<1>2. /\ Gif!clearCode \in Nat /\ Gif!eoiCode = Gif!clearCode + 1 /\ Gif!maxCodeLimit \in Nat
  BY CodesAre
<1> DEFINE larger == Gif!nextCode = Gif!twoTo[codeSize] /\ codeSize < MaxBits
<1>3. readLast' = buffer /\ readTable' = grown /\ readSize' = IF larger THEN codeSize + 1 ELSE codeSize
  BY ThenIsUpToDate DEF Gif!Receive, GifInv
<1>4. Append(buffer, colour) \in Text
  BY <1>1 DEF Text
<1>5. grown' \in Seq(Text) /\ Len(grown') = Len(grown) + 1 /\ Len(grown) \in Nat
  <2> DEFINE x == Append(buffer, colour)
  <2>1. x \in Text /\ grown' = Append(grown, x)
    BY <1>4
  <2> HIDE DEF x
  <2> QED
    BY <1>1, <2>1
<1>6. /\ Gif!nextCode = Gif!eoiCode + 1 + Len(grown)
      /\ Gif!nextCode' = Gif!eoiCode + 1 + Len(grown')
  BY DEF Gif!nextCode
<1>7. Gif!nextCode \in Nat /\ Gif!nextCode' = Gif!nextCode + 1
  BY <1>2, <1>5, <1>6
<1>8. /\ codeSize \in 1..MaxBits /\ MaxBits \in Nat /\ codeSize \in 0..MaxBits
      /\ codeSize = MaxBits \/ Gif!nextCode <= Gif!twoTo[codeSize]
  BY <1>1, ToolsAssumption DEF SizesFit
<1>9. Gif!twoTo[codeSize] \in Nat /\ Gif!twoTo[codeSize] >= 1
  BY <1>8, TwoToGrows
<1>10. codeSize' = IF larger THEN codeSize + 1 ELSE codeSize
  <2>1. codeSize' = IF Gif!nextCode' > Gif!twoTo[codeSize] /\ codeSize < MaxBits
                    THEN codeSize + 1 ELSE codeSize
    BY <1>6 DEF Gif!Grow
  <2>2. codeSize < MaxBits => (Gif!nextCode' > Gif!twoTo[codeSize] <=> Gif!nextCode = Gif!twoTo[codeSize])
    BY <1>7, <1>8, <1>9
  <2> QED
    BY <2>1, <2>2
<1>11. codeSize' \in 1..MaxBits
  BY <1>8, <1>10
<1>12. codeSize' = MaxBits \/ Gif!nextCode' <= Gif!twoTo[codeSize']
  <2>1. CASE larger
    <3>1. codeSize # MaxBits /\ codeSize' = codeSize + 1
      BY <1>8, <1>10, <2>1
    <3>2. Gif!twoTo[codeSize + 1] = 2 * Gif!twoTo[codeSize]
      BY <1>8, <3>1, TwoToGrows
    <3> QED
      BY <1>7, <1>9, <2>1, <3>1, <3>2
  <2>2. CASE ~larger
    <3>1. codeSize' = codeSize
      BY <1>10, <2>2
    <3>2. codeSize = MaxBits \/ Gif!nextCode + 1 <= Gif!twoTo[codeSize]
      BY <1>7, <1>8, <1>9, <2>2
    <3> QED
      BY <1>7, <3>1, <3>2
  <2> QED
    BY <2>1, <2>2
<1>13. Gif!nextCode' <= Gif!maxCodeLimit
  BY <1>2, <1>7
<1>14. SizesFit'
  BY <1>3, <1>10, <1>11, <1>12, <1>13 DEF SizesFit
<1>15. OneBehind'
  <2>1. buffer'[1] = colour
    OBVIOUS
  <2> QED
    BY <1>1, <1>3, <2>1 DEF OneBehind
<1>16. Gif!Known(buffer)'
  <2>1. Len(buffer') = 1
    OBVIOUS
  <2> QED
    BY <2>1 DEF Gif!Known
<1>17. buffer' \in Text /\ buffer' # <<>>
  BY DEF Text
<1>18. InStep'
  BY <1>1, <1>3, <1>5, <1>14, <1>15, <1>16, <1>17 DEF InStep
<1>19. Gif!ReadsBack'
  BY SentIsRead
<1> QED
  BY <1>18, <1>19 DEF GifInv

(* Without room for one more, both begin again.                              *)
LEMMA TableIsFull ==
  ASSUME GifInv, encoding = "pixels", NEW colour \in Gif!Colours,
         buffer' = <<colour>>, ~(Gif!nextCode < Gif!maxCodeLimit),
         Gif!Fresh, Gif!Send(TRUE), UNCHANGED <<encoding, palette>>
  PROVE  GifInv'
<1>1. grown \in Seq(Text) /\ SizesFit
  BY DEF GifInv, InStep
<1>2. Gif!nextCode \in Nat /\ Gif!nextCode = Gif!twoTo[MaxBits] /\ Gif!maxCodeLimit = Gif!twoTo[MaxBits]
  <2>1. Gif!nextCode = Gif!eoiCode + 1 + Len(grown) /\ Len(grown) \in Nat
    BY <1>1 DEF Gif!nextCode
  <2>2. Gif!maxCodeLimit = Gif!twoTo[MaxBits]
    BY DEF Gif!maxCodeLimit
  <2>3. Gif!nextCode \in Nat /\ Gif!nextCode <= Gif!maxCodeLimit
    BY <1>1, <2>1, CodesAre DEF SizesFit
  <2> QED
    BY <2>2, <2>3, CodesAre
<1>3. codeSize = MaxBits
  <2> SUFFICES ASSUME codeSize # MaxBits
               PROVE  FALSE
    OBVIOUS
  <2>1. codeSize \in 0..MaxBits /\ Gif!nextCode <= Gif!twoTo[codeSize]
    BY <1>1, ToolsAssumption DEF SizesFit
  <2>2. Gif!twoTo[codeSize] < Gif!twoTo[MaxBits] /\ Gif!twoTo[codeSize] \in Nat
    BY <2>1, TwoToGrows
  <2> QED
    BY <1>2, <2>1, <2>2
<1>4. Gif!ReadsBack'
  BY <1>3, SentIsRead
<1>5. InStep'
  BY Renewed
<1> QED
  BY <1>4, <1>5 DEF GifInv

LEMMA PixelIsTaken ==
  ASSUME GifInv, NEW colour \in Gif!Colours, Gif!Pixel(colour)
  PROVE  GifInv'
<1>1. encoding = "pixels" /\ UNCHANGED <<encoding, palette>>
  BY DEF Gif!Pixel
<1>2. CASE Gif!Known(Append(buffer, colour))
  <2>1. buffer' = Append(buffer, colour)
        /\ UNCHANGED <<grown, codeSize, readTable, readSize, readLast, sent>>
    BY <1>2 DEF Gif!Pixel, Gif!readerVars
  <2> QED
    BY <1>1, <1>2, <2>1, StringGrows
<1>3. CASE ~Gif!Known(Append(buffer, colour))
  <2>1. buffer' = <<colour>>
    BY <1>3 DEF Gif!Pixel
  <2>2. CASE Gif!nextCode < Gif!maxCodeLimit
    <3>1. /\ grown' = Append(grown, Append(buffer, colour)) /\ codeSize' = Gif!Grow(grown')
          /\ Gif!Receive(Gif!Code(buffer)) /\ Gif!Send(FALSE)
      BY <1>3, <2>2 DEF Gif!Pixel
    <3> QED
      BY <1>1, <2>1, <2>2, <3>1, TableGrows
  <2>3. CASE ~(Gif!nextCode < Gif!maxCodeLimit)
    <3>1. Gif!Fresh /\ Gif!Send(TRUE)
      BY <1>3, <2>3 DEF Gif!Pixel
    <3> QED
      BY <1>1, <2>1, <2>3, <3>1, TableIsFull
  <2> QED
    BY <2>2, <2>3
<1> QED
  BY <1>2, <1>3

LEMMA GifStep ==
  ASSUME GifInv, Gif!Next
  PROVE  GifInv'
<1>1. CASE Gif!Start \/ Gif!Screenshot \/ Gif!Stop \/ Gif!WorkerStops \/ Gif!EncodeFails
  <2>1. encoding' # "pixels" /\ UNCHANGED <<palette, sent>>
    BY <1>1 DEF Gif!Start, Gif!Screenshot, Gif!Stop, Gif!WorkerStops, Gif!EncodeFails,
      Gif!encoderVars, Gif!readerVars
  <2> QED
    BY <2>1, BetweenFrames
<1> QED
  BY <1>1, FrameIsEnded, FrameBegins, PixelIsTaken DEF Gif!Next

(* What the encoder writes, a reader with a table of its own reads, each code*)
(* in the size that it was written in.                                       *)
THEOREM ReaderFollows == Spec => []ReadsBack
<1> DEFINE Inv == GifInv
<1>1. Init => Inv
  BY GifInitially DEF Init
<1>2. Inv /\ [Next]_vars => Inv'
  <2>1. Next => Gif!Next \/ UNCHANGED gifVars
    BY DEF Next
  <2>2. UNCHANGED vars => UNCHANGED gifVars
    BY DEF vars
  <2>3. UNCHANGED gifVars => UNCHANGED <<encoding, palette, grown, codeSize, buffer, readTable, readSize,
                                         readLast, sent>>
    BY DEF gifVars
  <2> QED
    BY <2>1, <2>2, <2>3, GifStep, GifUntouched
<1>3. Inv => ReadsBack
  BY DEF GifInv, ReadsBack
<1> QED
  BY <1>1, <1>2, <1>3, PTL DEF Spec

-----------------------------------------------------------------------------
(***************************************************************************)
(* PanelView.  Of a queue b of broadcasts, those after the first a.        *)
(***************************************************************************)
Quiet(b, a, what) == \A i \in 1..Len(b) : i > a => b[i].what # what

LastIs(b, what, value) ==
  \A i \in 1..Len(b) :
    b[i].what = what /\ (\A j \in 1..Len(b) : j > i => b[j].what # what) => b[i].value = value

(* What is told of a tool, and that nothing is.                              *)
Tells(b, i, id) == b[i].what = "history" /\ b[i].value.id = id
Silent(b, a, id) == \A i \in 1..Len(b) : i > a => ~Tells(b, i, id)

(* Of each tool in the history, the last that is told is its entry.          *)
LastEntriesAre(b, entries) ==
  \A i \in 1..Len(b), j \in 1..Len(entries) :
    Tells(b, i, entries[j].id) /\ Silent(b, i, entries[j].id) => b[i].value = entries[j]

(* Entries are numbered on, the last of them with the id that was given last.*)
Numbered(entries, next) ==
  /\ Len(entries) < next
  /\ \A j \in 1..Len(entries) : entries[j].id = next - 1 - (Len(entries) - j)

(* The entries shown, from the tool top downwards, become those that are kept*)
(* when the broadcasts after the first a are delivered: each is of a shown   *)
(* entry or of the next one, and where none is on its way, what is shown is  *)
(* what is kept.                                                             *)
FollowsFrom(top, b, a, shown, kept, next) ==
  /\ Len(shown) <= top /\ next - Len(kept) > top - Len(shown)
  /\ \A k \in 1..Len(shown) : shown[k].id = top - k + 1
  /\ \A id \in (top + 1)..(next - 1) : ~Silent(b, a, id)
  /\ \A i \in 1..Len(b) :
       i > a /\ b[i].what = "history" =>
         /\ b[i].value.id > top - Len(shown)
         /\ \/ b[i].value.id <= top + 1
            \/ \E before \in 1..Len(b) : before > a /\ before < i /\ Tells(b, before, b[i].value.id - 1)
  /\ \A k \in 1..Len(shown), j \in 1..Len(kept) :
       shown[k].id = kept[j].id /\ Silent(b, a, kept[j].id) => shown[k] = kept[j]

Follows(b, a, shown, kept, next) ==
  \E top \in 0..(next - 1) : FollowsFrom(top, b, a, shown, kept, next)

(* What travels.                                                             *)
Messages ==
  [what : {"status"}, value : Statuses] \union [what : {"tabs"}, value : SUBSET AutoTabs]
    \union [what : {"history"}, value : Panel!Entries]
Snapshots == [status : Statuses, tabs : SUBSET AutoTabs, history : Seq(Panel!Entries), older : Nat]

PanelTypes ==
  /\ status \in Statuses /\ autoTabs \subseteq AutoTabs /\ panelOpen \in BOOLEAN
  /\ nextToolId \in 1..(MaxTools + 1) /\ history \in Seq(Panel!Entries) /\ rows \in Seq(Panel!Entries)
  /\ broadcasts \in Seq(Messages)
  /\ \A i \in 1..Len(broadcasts) : broadcasts[i].what = "history" => broadcasts[i].value.id < nextToolId
  /\ answer # Nothing => answer \in Snapshots /\ answer.older <= Len(broadcasts)
  /\ ~panelOpen => broadcasts = <<>> /\ answer = Nothing /\ asked = {}

ShowsNow == panelOpen /\ answer = Nothing /\ "get_state" \notin asked

StatusFollows ==
  /\ LastIs(broadcasts, "status", status)
  /\ (answer # Nothing /\ (answer.older > 0 \/ "status" \notin behind) /\ Quiet(broadcasts, answer.older, "status")) =>
       answer.status = status
  /\ (ShowsNow /\ "status" \notin behind /\ Quiet(broadcasts, 0, "status")) =>
       shownStatus = status \/ ("connect" \in asked /\ shownStatus = "connecting")

TabsFollow ==
  /\ LastIs(broadcasts, "tabs", autoTabs)
  /\ (answer # Nothing /\ (answer.older > 0 \/ "tabs" \notin behind) /\ Quiet(broadcasts, answer.older, "tabs")) =>
       answer.tabs = autoTabs
  /\ (ShowsNow /\ "tabs" \notin behind /\ Quiet(broadcasts, 0, "tabs")) => shownTabs = autoTabs

HistoryFollows ==
  /\ Numbered(history, nextToolId) /\ LastEntriesAre(broadcasts, history)
  /\ (answer # Nothing /\ "history" \notin behind) =>
       Follows(broadcasts, answer.older, Panel!Reverse(answer.history), history, nextToolId)
  /\ (ShowsNow /\ "history" \notin behind) => Follows(broadcasts, 0, rows, history, nextToolId)

PanelInv == PanelTypes /\ StatusFollows /\ TabsFollow /\ HistoryFollows

(* Queues, element by element.                                               *)
LEMMA TailIs ==
  ASSUME NEW M, NEW b \in Seq(M), b # <<>>
  PROVE  /\ Len(b) \in Nat /\ Len(b) >= 1 /\ Len(Tail(b)) = Len(b) - 1 /\ Tail(b) \in Seq(M)
         /\ Head(b) = b[1] /\ b[1] \in M
         /\ \A i \in 1..Len(Tail(b)) : Tail(b)[i] = b[i + 1]
OBVIOUS

LEMMA AppendIs ==
  ASSUME NEW M, NEW b \in Seq(M), NEW m \in M
  PROVE  /\ Len(b) \in Nat /\ Len(Append(b, m)) = Len(b) + 1 /\ Append(b, m) \in Seq(M)
         /\ \A i \in 1..Len(b) : Append(b, m)[i] = b[i]
         /\ Append(b, m)[Len(b) + 1] = m
OBVIOUS

LEMMA QuietTail ==
  ASSUME NEW M, NEW b \in Seq(M), b # <<>>, NEW what
  PROVE  /\ \A a \in Nat : Quiet(Tail(b), a, what) => Quiet(b, a + 1, what)
         /\ Head(b).what # what /\ Quiet(Tail(b), 0, what) => Quiet(b, 0, what)
<1> DEFINE c == Tail(b)
<1>1. /\ Len(b) \in Nat /\ Len(b) >= 1 /\ Len(c) = Len(b) - 1 /\ Head(b) = b[1]
      /\ \A i \in 1..Len(c) : c[i] = b[i + 1]
  BY TailIs
<1> HIDE DEF c
<1>2. \A i \in 1..Len(b) : i > 1 => i - 1 \in 1..Len(c) /\ c[i - 1] = b[i]
  <2>1. ASSUME NEW i \in 1..Len(b), i > 1
        PROVE  i - 1 \in 1..Len(c) /\ c[i - 1] = b[i]
    <3>1. i - 1 \in 1..Len(c) /\ (i - 1) + 1 = i
      BY <1>1, <2>1
    <3> QED
      BY <1>1, <3>1
  <2> QED
    BY <2>1
<1>3. ASSUME NEW a \in Nat, Quiet(c, a, what)
      PROVE  Quiet(b, a + 1, what)
  <2>1. \A i \in 1..Len(b) : i > a + 1 => i > 1 /\ i - 1 > a
    BY <1>1
  <2> QED
    BY <1>2, <1>3, <2>1 DEF Quiet
<1>4. ASSUME Head(b).what # what, Quiet(c, 0, what)
      PROVE  Quiet(b, 0, what)
  <2>1. \A i \in 1..Len(b) : i = 1 \/ (i > 1 /\ i - 1 > 0)
    BY <1>1
  <2> QED
    BY <1>1, <1>2, <1>4, <2>1 DEF Quiet
<1> QED
  BY <1>3, <1>4 DEF c

LEMMA QuietAppend ==
  ASSUME NEW M, NEW b \in Seq(M), NEW m \in M, NEW what, NEW a \in 0..Len(b), Quiet(Append(b, m), a, what)
  PROVE  Quiet(b, a, what) /\ m.what # what
<1> DEFINE c == Append(b, m)
<1>1. /\ Len(b) \in Nat /\ Len(c) = Len(b) + 1 /\ c[Len(b) + 1] = m
      /\ \A i \in 1..Len(b) : c[i] = b[i]
  BY AppendIs
<1> HIDE DEF c
<1>2. Quiet(c, a, what)
  BY DEF c
<1>3. Len(b) + 1 \in 1..Len(c) /\ Len(b) + 1 > a /\ \A i \in 1..Len(b) : i \in 1..Len(c)
  BY <1>1
<1> QED
  BY <1>1, <1>2, <1>3 DEF Quiet

LEMMA LastTail ==
  ASSUME NEW M, NEW b \in Seq(M), b # <<>>, NEW what, NEW value, LastIs(b, what, value)
  PROVE  /\ LastIs(Tail(b), what, value)
         /\ Head(b).what = what /\ Quiet(Tail(b), 0, what) => Head(b).value = value
<1> DEFINE c == Tail(b)
<1>1. /\ Len(b) \in Nat /\ Len(b) >= 1 /\ Len(c) = Len(b) - 1 /\ Head(b) = b[1]
      /\ \A i \in 1..Len(c) : c[i] = b[i + 1]
  BY TailIs
<1> HIDE DEF c
<1>2. \A i \in 1..Len(b) : i > 1 => i - 1 \in 1..Len(c) /\ c[i - 1] = b[i]
  <2>1. ASSUME NEW i \in 1..Len(b), i > 1
        PROVE  i - 1 \in 1..Len(c) /\ c[i - 1] = b[i]
    <3>1. i - 1 \in 1..Len(c) /\ (i - 1) + 1 = i
      BY <1>1, <2>1
    <3> QED
      BY <1>1, <3>1
  <2> QED
    BY <2>1
<1>3. ASSUME NEW i \in 1..Len(c), c[i].what = what, \A j \in 1..Len(c) : j > i => c[j].what # what
      PROVE  c[i].value = value
  <2>1. i + 1 \in 1..Len(b) /\ c[i] = b[i + 1]
    BY <1>1
  <2>2. \A j \in 1..Len(b) : j > i + 1 => j > 1 /\ j - 1 > i
    BY <1>1
  <2>3. \A j \in 1..Len(b) : j > i + 1 => b[j].what # what
    BY <1>2, <1>3, <2>2
  <2> QED
    BY <1>3, <2>1, <2>3 DEF LastIs
<1>4. ASSUME Head(b).what = what, Quiet(c, 0, what)
      PROVE  Head(b).value = value
  <2>1. \A j \in 1..Len(b) : j > 1 => j - 1 > 0
    BY <1>1
  <2>2. \A j \in 1..Len(b) : j > 1 => b[j].what # what
    BY <1>2, <1>4, <2>1 DEF Quiet
  <2>3. 1 \in 1..Len(b)
    BY <1>1
  <2> QED
    BY <1>1, <1>4, <2>2, <2>3 DEF LastIs
<1> QED
  BY <1>3, <1>4 DEF LastIs, c

LEMMA LastAppend ==
  ASSUME NEW M, NEW b \in Seq(M), NEW m \in M, NEW what, NEW value,
         m.what = what => m.value = value, m.what # what => LastIs(b, what, value)
  PROVE  LastIs(Append(b, m), what, value)
<1> DEFINE c == Append(b, m)
<1>1. /\ Len(b) \in Nat /\ Len(c) = Len(b) + 1 /\ c[Len(b) + 1] = m
      /\ \A i \in 1..Len(b) : c[i] = b[i]
  BY AppendIs
<1> HIDE DEF c
<1>2. \A i \in 1..Len(c) : i \in 1..Len(b) \/ i = Len(b) + 1
  BY <1>1
<1>3. Len(b) + 1 \in 1..Len(c) /\ \A i \in 1..Len(b) : i \in 1..Len(c) /\ Len(b) + 1 > i
  BY <1>1
<1>4. CASE m.what = what
  BY <1>1, <1>2, <1>3, <1>4 DEF LastIs, c
<1>5. CASE m.what # what
  BY <1>1, <1>2, <1>3, <1>5 DEF LastIs, c
<1> QED
  BY <1>4, <1>5

(* The same of what is told of tools.                                        *)
LEMMA SilentTail ==
  ASSUME NEW M, NEW b \in Seq(M), b # <<>>, NEW a \in Nat
  PROVE  /\ \A id : Silent(Tail(b), a, id) <=> Silent(b, a + 1, id)
         /\ \A i \in 1..Len(Tail(b)) : \A id : Tells(Tail(b), i, id) <=> Tells(b, i + 1, id)
<1> DEFINE c == Tail(b)
<1>1. /\ Len(b) \in Nat /\ Len(b) >= 1 /\ Len(c) = Len(b) - 1
      /\ \A i \in 1..Len(c) : c[i] = b[i + 1]
  BY TailIs
<1> HIDE DEF c
<1>2. \A i \in 1..Len(c) : \A id : Tells(c, i, id) <=> Tells(b, i + 1, id)
  BY <1>1 DEF Tells
<1>3. ASSUME NEW id
      PROVE  Silent(c, a, id) <=> Silent(b, a + 1, id)
  <2>1. ASSUME Silent(b, a + 1, id), NEW i \in 1..Len(c), i > a
        PROVE  ~Tells(c, i, id)
    <3>1. i + 1 \in 1..Len(b) /\ i + 1 > a + 1
      BY <1>1, <2>1
    <3> QED
      BY <1>2, <2>1, <3>1 DEF Silent
  <2>2. ASSUME Silent(c, a, id), NEW i \in 1..Len(b), i > a + 1
        PROVE  ~Tells(b, i, id)
    <3>1. i - 1 \in 1..Len(c) /\ i - 1 > a /\ (i - 1) + 1 = i
      BY <1>1, <2>2
    <3>2. ~Tells(c, i - 1, id) /\ (Tells(c, i - 1, id) <=> Tells(b, (i - 1) + 1, id))
      BY <1>2, <2>2, <3>1 DEF Silent
    <3> QED
      BY <3>1, <3>2
  <2> QED
    BY <2>1, <2>2 DEF Silent
<1> QED
  BY <1>2, <1>3 DEF c

LEMMA SilentAppend ==
  ASSUME NEW M, NEW b \in Seq(M), NEW m \in M, NEW a \in 0..Len(b)
  PROVE  /\ \A i \in 1..Len(b) : \A id : Tells(Append(b, m), i, id) <=> Tells(b, i, id)
         /\ \A id : Tells(Append(b, m), Len(b) + 1, id) <=> m.what = "history" /\ m.value.id = id
         /\ \A id : Silent(Append(b, m), a, id) <=> Silent(b, a, id) /\ ~(m.what = "history" /\ m.value.id = id)
<1> DEFINE c == Append(b, m)
<1>1. /\ Len(b) \in Nat /\ Len(c) = Len(b) + 1 /\ c[Len(b) + 1] = m
      /\ \A i \in 1..Len(b) : c[i] = b[i]
  BY AppendIs
<1> HIDE DEF c
<1>2. \A i \in 1..Len(b) : \A id : Tells(c, i, id) <=> Tells(b, i, id)
  BY <1>1 DEF Tells
<1>3. \A id : Tells(c, Len(b) + 1, id) <=> m.what = "history" /\ m.value.id = id
  BY <1>1 DEF Tells
<1>4. \A i \in 1..Len(c) : i \in 1..Len(b) \/ i = Len(b) + 1
  BY <1>1
<1>5. Len(b) + 1 \in 1..Len(c) /\ Len(b) + 1 > a /\ \A i \in 1..Len(b) : i \in 1..Len(c)
  BY <1>1
<1>6. ASSUME NEW id
      PROVE  Silent(c, a, id) <=> Silent(b, a, id) /\ ~Tells(c, Len(b) + 1, id)
  <2>1. Silent(c, a, id) => Silent(b, a, id) /\ ~Tells(c, Len(b) + 1, id)
    BY <1>2, <1>5 DEF Silent
  <2>2. Silent(b, a, id) /\ ~Tells(c, Len(b) + 1, id) => Silent(c, a, id)
    BY <1>2, <1>4 DEF Silent
  <2> QED
    BY <2>1, <2>2
<1> QED
  BY <1>2, <1>3, <1>6 DEF c

LEMMA LastEntriesTail ==
  ASSUME NEW M, NEW b \in Seq(M), b # <<>>, NEW kept, LastEntriesAre(b, kept)
  PROVE  /\ LastEntriesAre(Tail(b), kept)
         /\ \A j \in 1..Len(kept) :
              Tells(b, 1, kept[j].id) /\ Silent(Tail(b), 0, kept[j].id) => Head(b) = b[1] /\ b[1].value = kept[j]
<1> DEFINE c == Tail(b)
<1>1. /\ Len(b) \in Nat /\ Len(b) >= 1 /\ Len(c) = Len(b) - 1 /\ Head(b) = b[1]
      /\ \A i \in 1..Len(c) : c[i] = b[i + 1]
  BY TailIs
<1>2. \A i \in 1..Len(c) : \A id : Tells(c, i, id) <=> Tells(b, i + 1, id)
  BY SilentTail
<1>3. \A a \in Nat : \A id : Silent(c, a, id) <=> Silent(b, a + 1, id)
  BY SilentTail
<1> HIDE DEF c
<1>4. \A i \in 1..Len(c) : i + 1 \in 1..Len(b) /\ i \in Nat
  BY <1>1
<1>5. LastEntriesAre(c, kept)
  <2>1. ASSUME NEW i \in 1..Len(c), NEW j \in 1..Len(kept), Tells(c, i, kept[j].id), Silent(c, i, kept[j].id)
        PROVE  c[i].value = kept[j]
    <3>1. i + 1 \in 1..Len(b) /\ i \in Nat
      BY <1>4
    <3>2. Tells(b, i + 1, kept[j].id) /\ Silent(b, i + 1, kept[j].id)
      BY <1>2, <1>3, <2>1, <3>1
    <3>3. b[i + 1].value = kept[j]
      BY <3>1, <3>2 DEF LastEntriesAre
    <3> QED
      BY <1>1, <3>3
  <2> QED
    BY <2>1 DEF LastEntriesAre
<1>6. ASSUME NEW j \in 1..Len(kept), Tells(b, 1, kept[j].id), Silent(c, 0, kept[j].id)
      PROVE  b[1].value = kept[j]
  <2>1. 0 \in Nat /\ 0 + 1 = 1 /\ 1 \in 1..Len(b)
    BY <1>1
  <2>2. Silent(b, 0 + 1, kept[j].id)
    BY <1>3, <1>6, <2>1
  <2> QED
    BY <1>6, <2>1, <2>2 DEF LastEntriesAre
<1> QED
  BY <1>1, <1>5, <1>6 DEF c

(* A broadcast that is added: of something else, or of the entry it brings.  *)
LEMMA LastEntriesAppend ==
  ASSUME NEW M, NEW b \in Seq(M), NEW m \in M, NEW kept, NEW kept2,
         LastEntriesAre(b, kept),
         \A j \in 1..Len(kept2) : \/ m.what = "history" /\ m.value = kept2[j]
                                  \/ /\ ~(m.what = "history" /\ m.value.id = kept2[j].id)
                                     /\ \E l \in 1..Len(kept) : kept2[j] = kept[l]
  PROVE  LastEntriesAre(Append(b, m), kept2)
<1> DEFINE c == Append(b, m)
<1>1. /\ Len(b) \in Nat /\ Len(c) = Len(b) + 1 /\ c[Len(b) + 1] = m
      /\ \A i \in 1..Len(b) : c[i] = b[i]
  BY AppendIs
<1>2. /\ \A i \in 1..Len(b) : \A id : Tells(c, i, id) <=> Tells(b, i, id)
      /\ \A id : Tells(c, Len(b) + 1, id) <=> m.what = "history" /\ m.value.id = id
      /\ \A a \in 0..Len(b) : \A id : Silent(c, a, id) <=> Silent(b, a, id) /\ ~(m.what = "history" /\ m.value.id = id)
  BY SilentAppend
<1> HIDE DEF c
<1>3. \A i \in 1..Len(c) : (i \in 1..Len(b) /\ i \in 0..Len(b) /\ i > 0) \/ i = Len(b) + 1
  BY <1>1
<1>4. ASSUME NEW i \in 1..Len(c), NEW j \in 1..Len(kept2), Tells(c, i, kept2[j].id), Silent(c, i, kept2[j].id)
      PROVE  c[i].value = kept2[j]
  <2> DEFINE id == kept2[j].id
  <2>1. CASE i = Len(b) + 1
    BY <1>1, <1>2, <1>4, <2>1
  <2>2. CASE i # Len(b) + 1
    <3>1. i \in 1..Len(b) /\ i \in 0..Len(b) /\ i > 0
      BY <1>3, <2>2
    <3>2. Tells(b, i, id) /\ Silent(b, i, id) /\ ~(m.what = "history" /\ m.value.id = id)
      BY <1>2, <1>4, <3>1
    <3>4. PICK l \in 1..Len(kept) : kept2[j] = kept[l]
      BY <3>2
    <3>5. b[i].value = kept[l]
      BY <3>1, <3>2, <3>4 DEF LastEntriesAre
    <3> QED
      BY <1>1, <3>1, <3>4, <3>5
  <2> QED
    BY <2>1, <2>2
<1> QED
  BY <1>4 DEF LastEntriesAre, c

(* One broadcast fewer before the ones that count.                           *)
LEMMA FollowsTail ==
  ASSUME NEW M, NEW b \in Seq(M), b # <<>>, NEW a \in Nat, NEW shown, NEW kept, NEW next \in Nat,
         Follows(b, a + 1, shown, kept, next)
  PROVE  Follows(Tail(b), a, shown, kept, next)
<1> DEFINE c == Tail(b)
<1>1. PICK top \in 0..(next - 1) : FollowsFrom(top, b, a + 1, shown, kept, next)
  BY DEF Follows
<1>2. /\ Len(b) \in Nat /\ Len(b) >= 1 /\ Len(c) = Len(b) - 1
      /\ \A i \in 1..Len(c) : c[i] = b[i + 1]
  BY TailIs
<1>3. \A id : Silent(c, a, id) <=> Silent(b, a + 1, id)
  BY SilentTail
<1>4. \A i \in 1..Len(c) : \A id : Tells(c, i, id) <=> Tells(b, i + 1, id)
  BY SilentTail
<1> HIDE DEF c
<1>5. ASSUME NEW i \in 1..Len(c), i > a, c[i].what = "history"
      PROVE  /\ c[i].value.id > top - Len(shown)
             /\ \/ c[i].value.id <= top + 1
                \/ \E before \in 1..Len(c) : before > a /\ before < i /\ Tells(c, before, c[i].value.id - 1)
  <2>1. i + 1 \in 1..Len(b) /\ i + 1 > a + 1 /\ b[i + 1] = c[i]
    BY <1>2, <1>5
  <2>2. /\ c[i].value.id > top - Len(shown)
        /\ \/ c[i].value.id <= top + 1
           \/ \E before \in 1..Len(b) : before > a + 1 /\ before < i + 1 /\ Tells(b, before, c[i].value.id - 1)
    BY <1>1, <1>5, <2>1 DEF FollowsFrom
  <2>3. ASSUME NEW before \in 1..Len(b), before > a + 1, before < i + 1, Tells(b, before, c[i].value.id - 1)
        PROVE  \E e \in 1..Len(c) : e > a /\ e < i /\ Tells(c, e, c[i].value.id - 1)
    <3>1. before - 1 \in 1..Len(c) /\ before - 1 > a /\ before - 1 < i /\ (before - 1) + 1 = before
      BY <1>2, <2>3
    <3>2. Tells(c, before - 1, c[i].value.id - 1)
      BY <1>4, <2>3, <3>1
    <3> QED
      BY <3>1, <3>2
  <2> QED
    BY <2>2, <2>3
<1>6. FollowsFrom(top, c, a, shown, kept, next)
  BY <1>1, <1>3, <1>5 DEF FollowsFrom
<1> QED
  BY <1>6 DEF Follows, c

(* A broadcast that is delivered before an older answer, or in its place, and*)
(* of something else.                                                        *)
LEMMA FollowsOther ==
  ASSUME NEW M, NEW b \in Seq(M), b # <<>>, NEW shown, NEW kept, NEW next \in Nat,
         b[1].what # "history", Follows(b, 0, shown, kept, next)
  PROVE  Follows(Tail(b), 0, shown, kept, next)
<1>1. PICK top \in 0..(next - 1) : FollowsFrom(top, b, 0, shown, kept, next)
  BY DEF Follows
<1>2. Len(b) \in Nat /\ \A i \in 1..Len(b) : i > 0 /\ (i = 1 \/ i > 1)
  BY TailIs
<1>3. \A id : ~Tells(b, 1, id)
  BY DEF Tells
<1>4. \A id : Silent(b, 1, id) <=> Silent(b, 0, id)
  BY <1>2, <1>3 DEF Silent
<1>5. ASSUME NEW i \in 1..Len(b), i > 1, b[i].what = "history"
      PROVE  /\ b[i].value.id > top - Len(shown)
             /\ \/ b[i].value.id <= top + 1
                \/ \E before \in 1..Len(b) : before > 1 /\ before < i /\ Tells(b, before, b[i].value.id - 1)
  BY <1>1, <1>2, <1>3, <1>5 DEF FollowsFrom
<1>6. FollowsFrom(top, b, 1, shown, kept, next)
  BY <1>1, <1>4, <1>5 DEF FollowsFrom
<1>7. Follows(b, 0 + 1, shown, kept, next)
  BY <1>6 DEF Follows
<1> QED
  BY <1>7, FollowsTail

(* A broadcast of something else is sent.                                    *)
LEMMA FollowsAppend ==
  ASSUME NEW M, NEW b \in Seq(M), NEW m \in M, NEW a \in 0..Len(b), NEW shown, NEW kept, NEW next \in Nat,
         m.what # "history", Follows(b, a, shown, kept, next)
  PROVE  Follows(Append(b, m), a, shown, kept, next)
<1> DEFINE c == Append(b, m)
<1>1. PICK top \in 0..(next - 1) : FollowsFrom(top, b, a, shown, kept, next)
  BY DEF Follows
<1>2. /\ Len(b) \in Nat /\ Len(c) = Len(b) + 1 /\ c[Len(b) + 1] = m
      /\ \A i \in 1..Len(b) : c[i] = b[i]
  BY AppendIs
<1>3. /\ \A i \in 1..Len(b) : \A id : Tells(c, i, id) <=> Tells(b, i, id)
      /\ \A id : Silent(c, a, id) <=> Silent(b, a, id)
  BY SilentAppend
<1> HIDE DEF c
<1>4. \A i \in 1..Len(c) : i \in 1..Len(b) \/ i = Len(b) + 1
  BY <1>2
<1>5. \A i \in 1..Len(b) : i \in 1..Len(c)
  BY <1>2
<1>6. ASSUME NEW i \in 1..Len(c), i > a, c[i].what = "history"
      PROVE  /\ c[i].value.id > top - Len(shown)
             /\ \/ c[i].value.id <= top + 1
                \/ \E before \in 1..Len(c) : before > a /\ before < i /\ Tells(c, before, c[i].value.id - 1)
  <2>1. i \in 1..Len(b) /\ c[i] = b[i]
    BY <1>2, <1>4, <1>6
  <2>2. /\ b[i].value.id > top - Len(shown)
        /\ \/ b[i].value.id <= top + 1
           \/ \E before \in 1..Len(b) : before > a /\ before < i /\ Tells(b, before, b[i].value.id - 1)
    BY <1>1, <1>6, <2>1 DEF FollowsFrom
  <2> QED
    BY <1>3, <1>5, <2>1, <2>2
<1>7. FollowsFrom(top, c, a, shown, kept, next)
  BY <1>1, <1>3, <1>6 DEF FollowsFrom
<1> QED
  BY <1>7 DEF Follows, c

(* A broadcast of an entry is sent, a new one or one that is kept.           *)
LEMMA FollowsNews ==
  ASSUME NEW M, NEW b \in Seq(M), NEW m \in M, NEW a \in 0..Len(b), NEW next \in Nat, NEW next2 \in Nat,
         NEW shown, Len(shown) \in Nat, NEW kept, Len(kept) \in Nat, NEW kept2, Len(kept2) \in Nat,
         m.what = "history", m.value.id \in (next - Len(kept))..next,
         next2 = IF m.value.id = next THEN next + 1 ELSE next,
         next - Len(kept) <= next2 - Len(kept2),
         \A j \in 1..Len(kept2) : kept2[j] = m.value \/ \E l \in 1..Len(kept) : kept2[j] = kept[l],
         Follows(b, a, shown, kept, next)
  PROVE  Follows(Append(b, m), a, shown, kept2, next2)
<1> DEFINE c == Append(b, m)
           new == m.value.id
<1>1. PICK top \in 0..(next - 1) : FollowsFrom(top, b, a, shown, kept, next)
  BY DEF Follows
<1>2. /\ Len(b) \in Nat /\ Len(c) = Len(b) + 1 /\ c[Len(b) + 1] = m
      /\ \A i \in 1..Len(b) : c[i] = b[i]
  BY AppendIs
<1>3. /\ \A i \in 1..Len(b) : \A id : Tells(c, i, id) <=> Tells(b, i, id)
      /\ \A id : Silent(c, a, id) <=> Silent(b, a, id) /\ ~(new = id)
  BY SilentAppend
<1> HIDE DEF c
<1>4. /\ \A i \in 1..Len(c) : i \in 1..Len(b) \/ i = Len(b) + 1
      /\ \A i \in 1..Len(b) : i \in 1..Len(c) /\ i < Len(b) + 1
  BY <1>2
<1>5. /\ Len(shown) <= top /\ next - Len(kept) > top - Len(shown)
      /\ \A id \in (top + 1)..(next - 1) : ~Silent(b, a, id)
  BY <1>1 DEF FollowsFrom
<1>6. new \in Int /\ new > top - Len(shown) /\ new <= next
  BY <1>5
<1>7. new <= top + 1 \/ \E before \in 1..Len(c) : before > a /\ before < Len(b) + 1 /\ Tells(c, before, new - 1)
  <2>1. CASE new - 1 >= top + 1
    <3>1. new - 1 \in (top + 1)..(next - 1)
      BY <1>6, <2>1
    <3>2. \E before \in 1..Len(b) : before > a /\ Tells(b, before, new - 1)
      BY <1>5, <3>1 DEF Silent
    <3> QED
      BY <1>3, <1>4, <3>2
  <2>2. CASE ~(new - 1 >= top + 1)
    BY <1>6, <2>2
  <2> QED
    BY <2>1, <2>2
<1>8. ASSUME NEW i \in 1..Len(c), i > a, c[i].what = "history"
      PROVE  /\ c[i].value.id > top - Len(shown)
             /\ \/ c[i].value.id <= top + 1
                \/ \E before \in 1..Len(c) : before > a /\ before < i /\ Tells(c, before, c[i].value.id - 1)
  <2>1. CASE i = Len(b) + 1
    BY <1>2, <1>6, <1>7, <2>1
  <2>2. CASE i # Len(b) + 1
    <3>1. i \in 1..Len(b) /\ c[i] = b[i]
      BY <1>2, <1>4, <2>2
    <3>2. /\ b[i].value.id > top - Len(shown)
          /\ \/ b[i].value.id <= top + 1
             \/ \E before \in 1..Len(b) : before > a /\ before < i /\ Tells(b, before, b[i].value.id - 1)
      BY <1>1, <1>8, <3>1 DEF FollowsFrom
    <3> QED
      BY <1>3, <1>4, <3>1, <3>2
  <2> QED
    BY <2>1, <2>2
<1>9. ASSUME NEW k \in 1..Len(shown), NEW j \in 1..Len(kept2), shown[k].id = kept2[j].id, Silent(c, a, kept2[j].id)
      PROVE  shown[k] = kept2[j]
  <2>1. Silent(b, a, kept2[j].id) /\ kept2[j] # m.value
    BY <1>3, <1>9
  <2>2. PICK l \in 1..Len(kept) : kept2[j] = kept[l]
    BY <2>1
  <2> QED
    BY <1>1, <1>9, <2>1, <2>2 DEF FollowsFrom
<1>10. \A id \in (top + 1)..(next2 - 1) : ~Silent(c, a, id)
  <2>1. next2 = next \/ (next2 = next + 1 /\ new = next)
    OBVIOUS
  <2> HIDE DEF new
  <2>2. \A id \in (top + 1)..(next2 - 1) : id = new \/ id \in (top + 1)..(next - 1)
    BY <1>6, <2>1
  <2> QED
    BY <1>3, <1>5, <2>2 DEF new
<1>11. next2 - Len(kept2) > top - Len(shown) /\ top \in 0..(next2 - 1)
  BY <1>5
<1>12. FollowsFrom(top, c, a, shown, kept2, next2)
  BY <1>1, <1>5, <1>8, <1>9, <1>10, <1>11 DEF FollowsFrom
<1> QED
  BY <1>11, <1>12 DEF Follows, c

(* A snapshot is what is kept when it is taken.                              *)
LEMMA FollowsAnew ==
  ASSUME NEW M, NEW b \in Seq(M), NEW next \in Nat, NEW kept, Len(kept) \in Nat, Numbered(kept, next)
  PROVE  Follows(b, Len(b), Panel!Reverse(kept), kept, next)
<1> DEFINE shown == Panel!Reverse(kept)
           top == next - 1
<1>1. /\ Len(kept) < next /\ \A j \in 1..Len(kept) : kept[j].id = next - 1 - (Len(kept) - j)
  BY DEF Numbered
<1>2. Len(shown) = Len(kept) /\ \A k \in 1..Len(shown) : shown[k] = kept[(Len(kept) - k) + 1]
  BY DEF Panel!Reverse
<1>3. \A k \in 1..Len(shown) : shown[k].id = top - k + 1
  <2>1. ASSUME NEW k \in 1..Len(shown)
        PROVE  shown[k].id = top - k + 1
    <3>1. (Len(kept) - k) + 1 \in 1..Len(kept)
      BY <1>2
    <3>2. kept[(Len(kept) - k) + 1].id = next - 1 - (Len(kept) - ((Len(kept) - k) + 1))
      BY <1>1, <3>1
    <3>3. shown[k].id = kept[(Len(kept) - k) + 1].id
      BY <1>2
    <3> HIDE DEF shown
    <3> QED
      BY <1>2, <3>2, <3>3
  <2> QED
    BY <2>1
<1> HIDE DEF shown
<1>4. ASSUME NEW k \in 1..Len(shown), NEW j \in 1..Len(kept), shown[k].id = kept[j].id
      PROVE  shown[k] = kept[j]
  <2>1. shown[k].id = top - k + 1 /\ k \in Int
    BY <1>3
  <2>2. kept[j].id = next - 1 - (Len(kept) - j) /\ j \in Int
    BY <1>1
  <2>3. (Len(kept) - k) + 1 = j
    <3>1. top - k + 1 = next - 1 - (Len(kept) - j)
      BY <1>4, <2>1, <2>2
    <3> QED
      BY <2>1, <2>2, <3>1
  <2> QED
    BY <1>2, <2>3
<1>5. Len(b) \in Nat /\ \A i \in 1..Len(b) : ~(i > Len(b))
  OBVIOUS
<1>6. Len(shown) <= top /\ next - Len(kept) > top - Len(shown) /\ top \in 0..(next - 1)
      /\ ~ \E id : id \in (top + 1)..(next - 1)
  BY <1>1, <1>2
<1>7. FollowsFrom(top, b, Len(b), shown, kept, next)
  <2> HIDE DEF top
  <2> QED
    BY <1>3, <1>4, <1>5, <1>6 DEF FollowsFrom
<1> QED
  BY <1>6, <1>7 DEF Follows, shown

(* It is shown before broadcasts that are older, of entries that it has.     *)
LEMMA FollowsAnswer ==
  ASSUME NEW M, NEW b \in Seq(M), NEW a \in 0..Len(b), NEW shown \in Seq(Panel!Entries), NEW kept,
         NEW next \in Nat, Follows(b, a, shown, kept, next),
         \A i \in 1..a : b[i].what = "history" => \E k \in 1..Len(shown) : shown[k].id = b[i].value.id
  PROVE  Follows(b, 0, shown, kept, next)
<1>1. PICK top \in 0..(next - 1) : FollowsFrom(top, b, a, shown, kept, next)
  BY DEF Follows
<1>2. Len(b) \in Nat /\ Len(shown) \in Nat /\ \A i \in 1..Len(b) : i > 0 /\ (i > a \/ i \in 1..a)
  OBVIOUS
<1>3. \A id : Silent(b, 0, id) => Silent(b, a, id)
  BY <1>2 DEF Silent
<1>4. ASSUME NEW i \in 1..Len(b), b[i].what = "history"
      PROVE  /\ b[i].value.id > top - Len(shown)
             /\ \/ b[i].value.id <= top + 1
                \/ \E before \in 1..Len(b) : before > 0 /\ before < i /\ Tells(b, before, b[i].value.id - 1)
  <2>1. CASE i > a
    BY <1>1, <1>2, <1>4, <2>1 DEF FollowsFrom
  <2>2. CASE i \in 1..a
    <3>1. PICK k \in 1..Len(shown) : shown[k].id = b[i].value.id
      BY <1>4, <2>2
    <3>2. shown[k].id = top - k + 1
      BY <1>1, <3>1 DEF FollowsFrom
    <3>3. top - k + 1 > top - Len(shown) /\ top - k + 1 <= top + 1
      BY <1>2
    <3> QED
      BY <3>1, <3>2, <3>3
  <2> QED
    BY <1>2, <2>1, <2>2
<1>5. FollowsFrom(top, b, 0, shown, kept, next)
  BY <1>1, <1>3, <1>4 DEF FollowsFrom
<1> QED
  BY <1>5 DEF Follows

(* A broadcast of an entry is delivered: it goes to its row, or on top.      *)
LEMMA FollowsRows ==
  ASSUME NEW b \in Seq(Messages), b # <<>>, b[1].what = "history", NEW next \in Nat,
         NEW shown \in Seq(Panel!Entries), NEW kept, LastEntriesAre(b, kept),
         NEW e \in Panel!Entries, e = b[1].value, e.id < next,
         Follows(b, 0, shown, kept, next)
  PROVE  Follows(Tail(b), 0, IF e.id \in Panel!Ids(shown)
                             THEN [i \in 1..Len(shown) |-> IF shown[i].id = e.id THEN e ELSE shown[i]]
                             ELSE <<e>> \o shown, kept, next)
<1>1. PICK top \in 0..(next - 1) : FollowsFrom(top, b, 0, shown, kept, next)
  BY DEF Follows
<1>2. /\ Len(b) \in Nat /\ Len(b) >= 1 /\ 1 \in 1..Len(b) /\ Len(shown) \in Nat /\ e.id \in Int
      /\ \A i \in 1..Len(b) : i > 0 /\ (i = 1 \/ i > 1)
  BY TailIs DEF Panel!Entries
<1>3. /\ Len(shown) <= top /\ next - Len(kept) > top - Len(shown)
      /\ \A k \in 1..Len(shown) : shown[k].id = top - k + 1
      /\ \A id \in (top + 1)..(next - 1) : ~Silent(b, 0, id)
      /\ \A k \in 1..Len(shown), j \in 1..Len(kept) :
           shown[k].id = kept[j].id /\ Silent(b, 0, kept[j].id) => shown[k] = kept[j]
  BY <1>1 DEF FollowsFrom
<1>4. \A id : Tells(b, 1, id) <=> id = e.id
  BY DEF Tells
<1>5. \A id : id # e.id => (Silent(b, 1, id) <=> Silent(b, 0, id))
  BY <1>2, <1>4 DEF Silent
<1>6. e.id > top - Len(shown) /\ e.id <= top + 1
  <2>1. ~ \E before \in 1..Len(b) : before > 0 /\ before < 1 /\ Tells(b, before, e.id - 1)
    BY <1>2
  <2> QED
    BY <1>1, <1>2, <2>1 DEF FollowsFrom
<1>7. \A j \in 1..Len(kept) : e.id = kept[j].id /\ Silent(b, 1, kept[j].id) => e = kept[j]
  BY <1>2, <1>4 DEF LastEntriesAre
<1>8. ASSUME NEW i \in 1..Len(b), i > 1, b[i].what = "history"
      PROVE  /\ b[i].value.id > top - Len(shown)
             /\ \/ b[i].value.id <= top + 1
                \/ b[i].value.id - 1 = e.id
                \/ \E before \in 1..Len(b) : before > 1 /\ before < i /\ Tells(b, before, b[i].value.id - 1)
  <2>1. /\ b[i].value.id > top - Len(shown)
        /\ \/ b[i].value.id <= top + 1
           \/ \E before \in 1..Len(b) : before > 0 /\ before < i /\ Tells(b, before, b[i].value.id - 1)
    BY <1>1, <1>2, <1>8 DEF FollowsFrom
  <2> QED
    BY <1>2, <1>4, <2>1
<1>9. \A i \in 1..Len(b) : b[i].what = "history" => b[i].value.id \in Int
  BY DEF Messages, Panel!Entries
<1>10. CASE e.id = top + 1
  <2> DEFINE shown2 == <<e>> \o shown
  <2>1. e.id \notin Panel!Ids(shown)
    <3>1. \A k \in 1..Len(shown) : shown[k].id # top + 1
      BY <1>2, <1>3
    <3> QED
      BY <1>10, <3>1 DEF Panel!Ids
  <2>2. /\ Len(shown2) = Len(shown) + 1 /\ shown2[1] = e
        /\ \A k \in 1..Len(shown2) : k # 1 => shown2[k] = shown[k - 1]
    OBVIOUS
  <2> HIDE DEF shown2
  <2>3. \A k \in 1..Len(shown2) : k # 1 => k - 1 \in 1..Len(shown) /\ k \in Int
    BY <1>2, <2>2
  <2>4. \A k \in 1..Len(shown2) : shown2[k].id = (top + 1) - k + 1
    <3>1. ASSUME NEW k \in 1..Len(shown2), k # 1
          PROVE  shown2[k].id = (top + 1) - k + 1
      <4>1. shown[k - 1].id = top - (k - 1) + 1
        BY <1>3, <2>3, <3>1
      <4> QED
        BY <2>2, <2>3, <3>1, <4>1
    <3>2. e.id = (top + 1) - 1 + 1
      BY <1>10
    <3> QED
      BY <2>2, <3>1, <3>2
  <2>5. ASSUME NEW k \in 1..Len(shown2), NEW j \in 1..Len(kept),
               shown2[k].id = kept[j].id, Silent(b, 1, kept[j].id)
        PROVE  shown2[k] = kept[j]
    <3>1. CASE k = 1
      BY <1>7, <2>2, <2>5, <3>1
    <3>2. CASE k # 1
      <4>1. k - 1 \in 1..Len(shown) /\ shown2[k] = shown[k - 1] /\ k \in Int
        BY <2>2, <2>3, <3>2
      <4>2. shown[k - 1].id = top - (k - 1) + 1
        BY <1>3, <4>1
      <4>3. shown[k - 1].id # e.id
        BY <1>10, <3>2, <4>1, <4>2
      <4> QED
        BY <1>3, <1>5, <2>5, <4>1, <4>3
    <3> QED
      BY <3>1, <3>2
  <2>6. \A id \in ((top + 1) + 1)..(next - 1) : ~Silent(b, 1, id)
    <3>1. \A id \in ((top + 1) + 1)..(next - 1) : id # e.id /\ id \in (top + 1)..(next - 1)
      BY <1>10
    <3> QED
      BY <1>3, <1>5, <3>1
  <2>7. ASSUME NEW i \in 1..Len(b), i > 1, b[i].what = "history"
        PROVE  /\ b[i].value.id > (top + 1) - Len(shown2)
               /\ \/ b[i].value.id <= (top + 1) + 1
                  \/ \E before \in 1..Len(b) : before > 1 /\ before < i /\ Tells(b, before, b[i].value.id - 1)
    <3> DEFINE id == b[i].value.id
    <3>1. id \in Int
      BY <1>9, <2>7
    <3>2. /\ id > top - Len(shown)
          /\ \/ id <= top + 1 \/ id - 1 = e.id
             \/ \E before \in 1..Len(b) : before > 1 /\ before < i /\ Tells(b, before, id - 1)
      BY <1>8, <2>7
    <3> HIDE DEF id
    <3>3. id > (top + 1) - Len(shown2)
      BY <1>2, <2>2, <3>1, <3>2
    <3>4. id <= top + 1 \/ id - 1 = e.id => id <= (top + 1) + 1
      BY <1>10, <3>1
    <3> QED
      BY <3>2, <3>3, <3>4 DEF id
  <2>8. /\ top + 1 \in 0..(next - 1) /\ Len(shown2) <= top + 1
        /\ next - Len(kept) > (top + 1) - Len(shown2)
    BY <1>2, <1>3, <1>10, <2>2
  <2>9. FollowsFrom(top + 1, b, 1, shown2, kept, next)
    BY <2>4, <2>5, <2>6, <2>7, <2>8 DEF FollowsFrom
  <2>10. Follows(b, 0 + 1, shown2, kept, next)
    BY <2>8, <2>9 DEF Follows
  <2>11. Follows(Tail(b), 0, shown2, kept, next)
    BY <2>10, FollowsTail
  <2> QED
    BY <2>1, <2>11 DEF shown2
<1>11. CASE e.id # top + 1
  <2> DEFINE shown2 == [i \in 1..Len(shown) |-> IF shown[i].id = e.id THEN e ELSE shown[i]]
  <2>1. e.id \in Panel!Ids(shown)
    <3>1. (top - e.id) + 1 \in 1..Len(shown) /\ top - ((top - e.id) + 1) + 1 = e.id
      BY <1>2, <1>6, <1>11
    <3> QED
      BY <1>3, <3>1 DEF Panel!Ids
  <2>2. Len(shown2) = Len(shown) /\ \A k \in 1..Len(shown) : shown2[k] = IF shown[k].id = e.id THEN e ELSE shown[k]
    OBVIOUS
  <2> HIDE DEF shown2
  <2>3. \A k \in 1..Len(shown2) : shown2[k].id = top - k + 1
    BY <1>3, <2>2
  <2>4. ASSUME NEW k \in 1..Len(shown2), NEW j \in 1..Len(kept),
               shown2[k].id = kept[j].id, Silent(b, 1, kept[j].id)
        PROVE  shown2[k] = kept[j]
    BY <1>3, <1>5, <1>7, <2>2, <2>4
  <2>5. \A id \in (top + 1)..(next - 1) : ~Silent(b, 1, id)
    <3>1. \A id \in (top + 1)..(next - 1) : id # e.id
      BY <1>2, <1>6, <1>11
    <3> QED
      BY <1>3, <1>5, <3>1
  <2>6. ASSUME NEW i \in 1..Len(b), i > 1, b[i].what = "history"
        PROVE  /\ b[i].value.id > top - Len(shown2)
               /\ \/ b[i].value.id <= top + 1
                  \/ \E before \in 1..Len(b) : before > 1 /\ before < i /\ Tells(b, before, b[i].value.id - 1)
    BY <1>2, <1>6, <1>8, <1>9, <1>11, <2>2, <2>6
  <2>7. FollowsFrom(top, b, 1, shown2, kept, next)
    BY <1>3, <2>2, <2>3, <2>4, <2>5, <2>6 DEF FollowsFrom
  <2>8. Follows(b, 0 + 1, shown2, kept, next)
    BY <2>7 DEF Follows
  <2>9. Follows(Tail(b), 0, shown2, kept, next)
    BY <2>8, FollowsTail
  <2> QED
    BY <2>1, <2>9 DEF shown2
<1> QED
  BY <1>10, <1>11

(* A broadcast of one thing leaves what is shown of another.                 *)
LEMMA Sent ==
  ASSUME PanelTypes, NEW m \in Messages, nextToolId' \in Int, nextToolId <= nextToolId',
         m.what = "history" => m.value.id < nextToolId',
         broadcasts' = Append(broadcasts, m) \/ broadcasts' = broadcasts
  PROVE  /\ broadcasts' \in Seq(Messages) /\ Len(broadcasts) <= Len(broadcasts')
         /\ \A i \in 1..Len(broadcasts') : broadcasts'[i].what = "history" => broadcasts'[i].value.id < nextToolId'
<1>1. /\ broadcasts \in Seq(Messages) /\ nextToolId \in Int
      /\ \A i \in 1..Len(broadcasts) : broadcasts[i].what = "history" => broadcasts[i].value.id < nextToolId
  BY DEF PanelTypes
<1>2. \A i \in 1..Len(broadcasts) : broadcasts[i].what = "history" => broadcasts[i].value.id \in Int
  BY <1>1 DEF Messages, Panel!Entries
<1>3. \A i \in 1..Len(broadcasts) : broadcasts[i].what = "history" => broadcasts[i].value.id < nextToolId'
  BY <1>1, <1>2
<1>4. CASE broadcasts' = broadcasts
  BY <1>1, <1>3, <1>4
<1>5. CASE broadcasts' = Append(broadcasts, m)
  <2>1. /\ Len(broadcasts) \in Nat /\ Len(broadcasts') = Len(broadcasts) + 1 /\ broadcasts' \in Seq(Messages)
        /\ \A i \in 1..Len(broadcasts) : broadcasts'[i] = broadcasts[i]
        /\ broadcasts'[Len(broadcasts) + 1] = m
    BY <1>1, <1>5, AppendIs
  <2>2. \A i \in 1..Len(broadcasts') : i \in 1..Len(broadcasts) \/ i = Len(broadcasts) + 1
    BY <2>1
  <2> QED
    BY <1>3, <2>1, <2>2
<1> QED
  BY <1>4, <1>5

LEMMA StatusUntold ==
  ASSUME PanelInv, NEW m \in Messages, m.what # "status",
         broadcasts' = Append(broadcasts, m) \/ broadcasts' = broadcasts,
         UNCHANGED <<status, answer, panelOpen, shownStatus, asked, behind>>
  PROVE  StatusFollows'
<1>1. broadcasts \in Seq(Messages) /\ (answer # Nothing => answer.older \in 0..Len(broadcasts))
  BY DEF PanelInv, PanelTypes, Snapshots
<1>2. LastIs(broadcasts, "status", status)
  BY DEF PanelInv, StatusFollows
<1>3. LastIs(broadcasts', "status", status)
  BY <1>1, <1>2, LastAppend
<1>4. \A a \in 0..Len(broadcasts) : Quiet(broadcasts', a, "status") => Quiet(broadcasts, a, "status")
  BY <1>1, QuietAppend
<1>5. 0 \in 0..Len(broadcasts)
  BY <1>1
<1> QED
  BY <1>1, <1>3, <1>4, <1>5 DEF PanelInv, StatusFollows, ShowsNow

LEMMA TabsUntold ==
  ASSUME PanelInv, NEW m \in Messages, m.what # "tabs",
         broadcasts' = Append(broadcasts, m) \/ broadcasts' = broadcasts,
         UNCHANGED <<autoTabs, answer, panelOpen, shownTabs, behind>>,
         "get_state" \in asked => "get_state" \in asked'
  PROVE  TabsFollow'
<1>1. broadcasts \in Seq(Messages) /\ (answer # Nothing => answer.older \in 0..Len(broadcasts))
  BY DEF PanelInv, PanelTypes, Snapshots
<1>2. LastIs(broadcasts, "tabs", autoTabs)
  BY DEF PanelInv, TabsFollow
<1>3. LastIs(broadcasts', "tabs", autoTabs)
  BY <1>1, <1>2, LastAppend
<1>4. \A a \in 0..Len(broadcasts) : Quiet(broadcasts', a, "tabs") => Quiet(broadcasts, a, "tabs")
  BY <1>1, QuietAppend
<1>5. 0 \in 0..Len(broadcasts)
  BY <1>1
<1> QED
  BY <1>1, <1>3, <1>4, <1>5 DEF PanelInv, TabsFollow, ShowsNow

LEMMA HistoryUntold ==
  ASSUME PanelInv, NEW m \in Messages, m.what # "history",
         broadcasts' = Append(broadcasts, m) \/ broadcasts' = broadcasts,
         UNCHANGED <<history, nextToolId, answer, panelOpen, rows, behind>>,
         "get_state" \in asked => "get_state" \in asked'
  PROVE  HistoryFollows'
<1>1. /\ broadcasts \in Seq(Messages) /\ (answer # Nothing => answer.older \in 0..Len(broadcasts))
      /\ nextToolId \in Nat
  BY DEF PanelInv, PanelTypes, Snapshots
<1>2. Numbered(history, nextToolId) /\ LastEntriesAre(broadcasts, history)
  BY DEF PanelInv, HistoryFollows
<1>3. LastEntriesAre(broadcasts', history)
  <2>1. LastEntriesAre(Append(broadcasts, m), history)
    BY <1>1, <1>2, LastEntriesAppend
  <2> QED
    BY <1>2, <2>1
<1>4. \A a \in 0..Len(broadcasts) : \A shown :
        Follows(broadcasts, a, shown, history, nextToolId) => Follows(broadcasts', a, shown, history, nextToolId)
  BY <1>1, FollowsAppend
<1>5. 0 \in 0..Len(broadcasts)
  BY <1>1
<1> QED
  BY <1>1, <1>2, <1>3, <1>4, <1>5 DEF PanelInv, HistoryFollows, ShowsNow

(* A broadcast of the new status or the new tabs.                            *)
LEMMA StatusTold ==
  ASSUME PanelInv, NEW s, [what |-> "status", value |-> s] \in Messages, status' = s,
         \/ panelOpen /\ broadcasts' = Append(broadcasts, [what |-> "status", value |-> s])
         \/ ~panelOpen /\ broadcasts' = broadcasts,
         UNCHANGED <<answer, panelOpen>>
  PROVE  StatusFollows'
<1> DEFINE m == [what |-> "status", value |-> s]
<1>1. /\ broadcasts \in Seq(Messages) /\ (answer # Nothing => answer.older \in 0..Len(broadcasts))
      /\ ~panelOpen => broadcasts = <<>> /\ answer = Nothing
  BY DEF PanelInv, PanelTypes, Snapshots
<1>2. m \in Messages /\ m.what = "status" /\ m.value = s
  OBVIOUS
<1> HIDE DEF m
<1>3. CASE panelOpen /\ broadcasts' = Append(broadcasts, m)
  <2>1. LastIs(broadcasts', "status", s)
    BY <1>1, <1>2, <1>3, LastAppend
  <2>2. \A a \in 0..Len(broadcasts) : ~Quiet(broadcasts', a, "status")
    BY <1>1, <1>2, <1>3, QuietAppend
  <2>3. 0 \in 0..Len(broadcasts)
    BY <1>1
  <2> QED
    BY <1>1, <2>1, <2>2, <2>3 DEF StatusFollows
<1>4. CASE ~panelOpen /\ broadcasts' = broadcasts
  <2>1. LastIs(broadcasts', "status", s)
    BY <1>1, <1>4 DEF LastIs
  <2> QED
    BY <1>1, <1>4, <2>1 DEF StatusFollows, ShowsNow
<1> QED
  BY <1>3, <1>4 DEF m

LEMMA TabsTold ==
  ASSUME PanelInv, NEW s, [what |-> "tabs", value |-> s] \in Messages, autoTabs' = s,
         \/ panelOpen /\ broadcasts' = Append(broadcasts, [what |-> "tabs", value |-> s])
         \/ ~panelOpen /\ broadcasts' = broadcasts,
         UNCHANGED <<answer, panelOpen>>
  PROVE  TabsFollow'
<1> DEFINE m == [what |-> "tabs", value |-> s]
<1>1. /\ broadcasts \in Seq(Messages) /\ (answer # Nothing => answer.older \in 0..Len(broadcasts))
      /\ ~panelOpen => broadcasts = <<>> /\ answer = Nothing
  BY DEF PanelInv, PanelTypes, Snapshots
<1>2. m \in Messages /\ m.what = "tabs" /\ m.value = s
  OBVIOUS
<1> HIDE DEF m
<1>3. CASE panelOpen /\ broadcasts' = Append(broadcasts, m)
  <2>1. LastIs(broadcasts', "tabs", s)
    BY <1>1, <1>2, <1>3, LastAppend
  <2>2. \A a \in 0..Len(broadcasts) : ~Quiet(broadcasts', a, "tabs")
    BY <1>1, <1>2, <1>3, QuietAppend
  <2>3. 0 \in 0..Len(broadcasts)
    BY <1>1
  <2> QED
    BY <1>1, <2>1, <2>2, <2>3 DEF TabsFollow
<1>4. CASE ~panelOpen /\ broadcasts' = broadcasts
  <2>1. LastIs(broadcasts', "tabs", s)
    BY <1>1, <1>4 DEF LastIs
  <2> QED
    BY <1>1, <1>4, <2>1 DEF TabsFollow, ShowsNow
<1> QED
  BY <1>3, <1>4 DEF m

NewOrKept(x, e, kept) == x = e \/ (x.id # e.id /\ \E l \in 1..Len(kept) : x = kept[l])

LEMMA NewsOfHistory ==
  ASSUME PanelInv, NEW e \in Panel!Entries,
         e.id \in (nextToolId - Len(history))..nextToolId,
         nextToolId' = IF e.id = nextToolId THEN nextToolId + 1 ELSE nextToolId,
         Len(history') \in Nat, nextToolId - Len(history) <= nextToolId' - Len(history'),
         Numbered(history, nextToolId)',
         \A j \in 1..Len(history') : NewOrKept(history'[j], e, history),
         \/ panelOpen /\ broadcasts' = Append(broadcasts, [what |-> "history", value |-> e])
         \/ ~panelOpen /\ broadcasts' = broadcasts,
         UNCHANGED <<answer, panelOpen, asked, rows, behind>>
  PROVE  HistoryFollows'
<1> DEFINE m == [what |-> "history", value |-> e]
<1>1. /\ broadcasts \in Seq(Messages) /\ (answer # Nothing => answer.older \in 0..Len(broadcasts))
      /\ ~panelOpen => broadcasts = <<>> /\ answer = Nothing
      /\ nextToolId \in Nat /\ Len(history) \in Nat /\ nextToolId' \in Nat
  BY DEF PanelInv, PanelTypes, Snapshots
<1>2. m \in Messages /\ m.what = "history" /\ m.value = e
  BY DEF Messages
<1> HIDE DEF m
<1>3. LastEntriesAre(broadcasts, history)
  BY DEF PanelInv, HistoryFollows
<1>4. CASE panelOpen /\ broadcasts' = Append(broadcasts, m)
  <2>1. LastEntriesAre(Append(broadcasts, m), history')
    <3>1. \A j \in 1..Len(history') :
            \/ m.what = "history" /\ m.value = history'[j]
            \/ /\ ~(m.what = "history" /\ m.value.id = history'[j].id)
               /\ \E l \in 1..Len(history) : history'[j] = history[l]
      BY <1>2 DEF NewOrKept
    <3> QED
      BY <1>1, <1>2, <1>3, <3>1, LastEntriesAppend
  <2>2. \A j \in 1..Len(history') : history'[j] = m.value \/ \E l \in 1..Len(history) : history'[j] = history[l]
    BY <1>2 DEF NewOrKept
  <2>3. ASSUME NEW a \in 0..Len(broadcasts), NEW shown, Len(shown) \in Nat,
               Follows(broadcasts, a, shown, history, nextToolId)
        PROVE  Follows(broadcasts', a, shown, history', nextToolId')
    <3>1. /\ m.value.id \in (nextToolId - Len(history))..nextToolId
          /\ nextToolId' = IF m.value.id = nextToolId THEN nextToolId + 1 ELSE nextToolId
      BY <1>2
    <3>2. Follows(Append(broadcasts, m), a, shown, history', nextToolId')
      BY <1>1, <1>2, <2>2, <2>3, <3>1, FollowsNews
    <3> QED
      BY <1>4, <3>2
  <2>4. 0 \in 0..Len(broadcasts) /\ Len(rows) \in Nat
        /\ (answer # Nothing => Len(Panel!Reverse(answer.history)) \in Nat)
    BY <1>1 DEF PanelInv, PanelTypes, Snapshots, Panel!Reverse
  <2>5. (answer # Nothing /\ "history" \notin behind) =>
          Follows(broadcasts', answer.older, Panel!Reverse(answer.history), history', nextToolId')
    BY <1>1, <2>3, <2>4 DEF PanelInv, HistoryFollows
  <2>6. (ShowsNow /\ "history" \notin behind) => Follows(broadcasts', 0, rows, history', nextToolId')
    BY <2>3, <2>4 DEF PanelInv, HistoryFollows
  <2> QED
    BY <1>4, <2>1, <2>5, <2>6 DEF HistoryFollows, ShowsNow
<1>5. CASE ~panelOpen /\ broadcasts' = broadcasts
  <2>1. LastEntriesAre(broadcasts', history')
    BY <1>1, <1>5 DEF LastEntriesAre
  <2> QED
    BY <1>1, <1>5, <2>1 DEF HistoryFollows, ShowsNow
<1> QED
  BY <1>4, <1>5 DEF m

(* The worker's steps.                                                       *)
LEMMA NoAnswer == Nothing \notin Snapshots
BY PanelAssumption DEF Snapshots, Panel!Entries

LEMMA StatusIsSet ==
  ASSUME PanelInv, NEW s \in Statuses, status' = s,
         Panel!Broadcast("status", s), UNCHANGED <<history, nextToolId, autoTabs, answer, panelOpen,
                                                   shownTabs, rows, behind>>,
         "get_state" \in asked => "get_state" \in asked', ~panelOpen => asked' = {}
  PROVE  PanelInv'
<1> DEFINE m == [what |-> "status", value |-> s]
<1>1. m \in Messages /\ m.what # "tabs" /\ m.what # "history"
  BY DEF Messages
<1>2. \/ panelOpen /\ broadcasts' = Append(broadcasts, m)
      \/ ~panelOpen /\ broadcasts' = broadcasts
  BY DEF Panel!Broadcast, PanelInv, PanelTypes
<1>3. StatusFollows'
  BY <1>1, <1>2, StatusTold
<1> HIDE DEF m
<1>4. TabsFollow' /\ HistoryFollows'
  BY <1>1, <1>2, TabsUntold, HistoryUntold
<1>5. /\ broadcasts' \in Seq(Messages) /\ Len(broadcasts) <= Len(broadcasts')
      /\ \A i \in 1..Len(broadcasts') : broadcasts'[i].what = "history" => broadcasts'[i].value.id < nextToolId'
  <2>1. PanelTypes /\ nextToolId' \in Int /\ nextToolId <= nextToolId'
    BY DEF PanelInv, PanelTypes
  <2> QED
    BY <1>1, <1>2, <2>1, Sent
<1>6. answer # Nothing => answer.older <= Len(broadcasts')
  BY <1>5 DEF PanelInv, PanelTypes, Snapshots
<1>7. PanelTypes'
  BY <1>2, <1>5, <1>6 DEF PanelInv, PanelTypes
<1> QED
  BY <1>3, <1>4, <1>7 DEF PanelInv

(* Requests of the panel change nothing of it, but for connect.              *)
LEMMA PanelAsks ==
  ASSUME PanelInv, UNCHANGED <<status, history, nextToolId, autoTabs, broadcasts, answer, panelOpen,
                               shownTabs, rows, shownStatus, behind>>,
         "get_state" \in asked => "get_state" \in asked', ~panelOpen => asked' = {},
         ("connect" \in asked => "connect" \in asked') \/ status = "connecting"
  PROVE  PanelInv'
<1>1. PanelTypes'
  BY DEF PanelInv, PanelTypes
<1>2. StatusFollows'
  BY DEF PanelInv, StatusFollows, ShowsNow
<1>3. TabsFollow'
  BY DEF PanelInv, TabsFollow, ShowsNow
<1>4. HistoryFollows'
  BY DEF PanelInv, HistoryFollows, ShowsNow
<1> QED
  BY <1>1, <1>2, <1>3, <1>4 DEF PanelInv

LEMMA StatusActions ==
  ASSUME PanelInv, (\E s \in Statuses : Panel!SetConnectionStatus(s)) \/ Panel!Connect \/ Panel!Disconnect
  PROVE  PanelInv'
<1>1. ASSUME NEW s \in Statuses, Panel!SetConnectionStatus(s)
      PROVE  PanelInv'
  BY <1>1, StatusIsSet DEF Panel!SetConnectionStatus, Panel!panelVars, PanelInv, PanelTypes
<1>2. ASSUME Panel!Connect
      PROVE  PanelInv'
  <2>1. /\ status' = "connecting" /\ asked' = asked \ {"connect"} /\ "connecting" \in Statuses
        /\ UNCHANGED <<history, nextToolId, autoTabs, answer, panelOpen, shownTabs, rows, shownStatus, behind>>
        /\ ~panelOpen => asked' = {}
    BY <1>2, PanelAssumption DEF Panel!Connect, Panel!panelVars, PanelInv, PanelTypes
  <2>2. CASE status = "connecting"
    <3>1. UNCHANGED <<status, broadcasts>>
      BY <1>2, <2>2 DEF Panel!Connect
    <3> QED
      BY <2>1, <2>2, <3>1, PanelAsks
  <2>3. CASE status # "connecting"
    <3>1. Panel!Broadcast("status", "connecting")
      BY <1>2, <2>3 DEF Panel!Connect
    <3> QED
      BY <2>1, <3>1, StatusIsSet
  <2> QED
    BY <2>2, <2>3
<1>3. ASSUME Panel!Disconnect
      PROVE  PanelInv'
  <2>1. /\ status' = "disconnected" /\ asked' = asked \ {"disconnect"} /\ "disconnected" \in Statuses
        /\ UNCHANGED <<history, nextToolId, autoTabs, answer, panelOpen, shownTabs, rows, shownStatus, behind>>
        /\ ~panelOpen => asked' = {}
    BY <1>3, PanelAssumption DEF Panel!Disconnect, Panel!panelVars, PanelInv, PanelTypes
  <2>2. CASE status = "disconnected"
    <3>1. UNCHANGED <<status, broadcasts>>
      BY <1>3, <2>2 DEF Panel!Disconnect
    <3> QED
      BY <2>1, <2>2, <3>1, PanelAsks
  <2>3. CASE status # "disconnected"
    <3>1. Panel!Broadcast("status", "disconnected")
      BY <1>3, <2>3 DEF Panel!Disconnect
    <3> QED
      BY <2>1, <3>1, StatusIsSet
  <2> QED
    BY <2>2, <2>3
<1> QED
  BY <1>1, <1>2, <1>3

LEMMA TabsAreChanged ==
  ASSUME PanelInv, NEW tabs \in SUBSET AutoTabs, Panel!ChangeTabs(tabs)
  PROVE  PanelInv'
<1> DEFINE m == [what |-> "tabs", value |-> tabs]
<1>1. m \in Messages /\ m.what # "status" /\ m.what # "history"
  BY DEF Messages
<1>2. /\ \/ panelOpen /\ broadcasts' = Append(broadcasts, m)
         \/ ~panelOpen /\ broadcasts' = broadcasts
      /\ autoTabs' = tabs
      /\ UNCHANGED <<status, history, nextToolId, answer, asked, panelOpen, shownStatus, rows, behind>>
  BY DEF Panel!ChangeTabs, Panel!Broadcast, Panel!panelVars, PanelInv, PanelTypes
<1>3. TabsFollow'
  BY <1>1, <1>2, TabsTold
<1> HIDE DEF m
<1>4. StatusFollows' /\ HistoryFollows'
  BY <1>1, <1>2, StatusUntold, HistoryUntold
<1>5. /\ broadcasts' \in Seq(Messages) /\ Len(broadcasts) <= Len(broadcasts')
      /\ \A i \in 1..Len(broadcasts') : broadcasts'[i].what = "history" => broadcasts'[i].value.id < nextToolId'
  <2>1. PanelTypes /\ nextToolId' \in Int /\ nextToolId <= nextToolId'
    BY <1>2 DEF PanelInv, PanelTypes
  <2> QED
    BY <1>1, <1>2, <2>1, Sent
<1>6. answer # Nothing => answer.older <= Len(broadcasts')
  BY <1>5 DEF PanelInv, PanelTypes, Snapshots
<1>7. PanelTypes'
  BY <1>2, <1>5, <1>6 DEF PanelInv, PanelTypes, Panel!ChangeTabs, Panel!panelVars
<1> QED
  BY <1>3, <1>4, <1>7 DEF PanelInv

(* A tool's entry, with what of the history goes with it.                    *)
LEMMA EntryIsTold ==
  ASSUME PanelInv, NEW e \in Panel!Entries, Panel!Broadcast("history", e),
         e.id \in (nextToolId - Len(history))..nextToolId,
         nextToolId' = IF e.id = nextToolId THEN nextToolId + 1 ELSE nextToolId,
         nextToolId' \in 1..(MaxTools + 1), history' \in Seq(Panel!Entries),
         nextToolId - Len(history) <= nextToolId' - Len(history'),
         Numbered(history, nextToolId)',
         \A j \in 1..Len(history') : NewOrKept(history'[j], e, history),
         UNCHANGED <<status, autoTabs, answer, asked, panelOpen, shownStatus, shownTabs, rows, behind>>
  PROVE  PanelInv'
<1> DEFINE m == [what |-> "history", value |-> e]
<1>1. m \in Messages /\ m.what # "status" /\ m.what # "tabs" /\ m.value = e
  BY DEF Messages
<1>2. \/ panelOpen /\ broadcasts' = Append(broadcasts, m)
      \/ ~panelOpen /\ broadcasts' = broadcasts
  BY DEF Panel!Broadcast, PanelInv, PanelTypes
<1>3. Len(history') \in Nat
  OBVIOUS
<1>4. HistoryFollows'
  BY <1>2, <1>3, NewsOfHistory
<1> HIDE DEF m
<1>5. StatusFollows' /\ TabsFollow'
  BY <1>1, <1>2, StatusUntold, TabsUntold
<1>6. PanelTypes /\ nextToolId \in Int /\ nextToolId' \in Int /\ nextToolId <= nextToolId' /\ e.id < nextToolId'
  BY DEF PanelInv, PanelTypes
<1>7. /\ broadcasts' \in Seq(Messages) /\ Len(broadcasts) <= Len(broadcasts')
      /\ \A i \in 1..Len(broadcasts') : broadcasts'[i].what = "history" => broadcasts'[i].value.id < nextToolId'
  BY <1>1, <1>2, <1>6, Sent
<1>8. answer # Nothing => answer.older <= Len(broadcasts')
  BY <1>7 DEF PanelInv, PanelTypes, Snapshots
<1>9. PanelTypes'
  BY <1>2, <1>7, <1>8 DEF PanelInv, PanelTypes
<1> QED
  BY <1>4, <1>5, <1>9 DEF PanelInv

LEMMA ToolStarts ==
  ASSUME PanelInv, Panel!RecordToolStart
  PROVE  PanelInv'
<1> DEFINE e == [id |-> nextToolId, state |-> "running"]
           longer == Append(history, e)
           n == Len(history)
<1>1. /\ history \in Seq(Panel!Entries) /\ nextToolId \in 1..MaxTools /\ nextToolId' = nextToolId + 1
      /\ history' = IF Len(longer) > MaxHistory THEN Tail(longer) ELSE longer
      /\ Panel!Broadcast("history", e)
      /\ UNCHANGED <<status, autoTabs, answer, asked, panelOpen, shownStatus, shownTabs, rows, behind>>
  BY DEF Panel!RecordToolStart, Panel!panelVars, PanelInv, PanelTypes
<1>2. n < nextToolId /\ \A j \in 1..n : history[j].id = nextToolId - 1 - (n - j)
  BY DEF PanelInv, HistoryFollows, Numbered
<1>3. e \in Panel!Entries /\ e.id = nextToolId
  BY <1>1 DEF Panel!Entries
<1> HIDE DEF e
<1>4. /\ n \in Nat /\ Len(longer) = n + 1 /\ longer \in Seq(Panel!Entries)
      /\ \A j \in 1..n : longer[j] = history[j]
      /\ longer[n + 1] = e
  BY <1>1, <1>3, AppendIs
<1> HIDE DEF longer, n
<1>5. \A j \in 1..Len(longer) : /\ longer[j].id = (nextToolId + 1) - 1 - (Len(longer) - j)
                                /\ NewOrKept(longer[j], e, history)
  <2>1. ASSUME NEW j \in 1..n
        PROVE  /\ longer[j].id = (nextToolId + 1) - 1 - (Len(longer) - j)
               /\ NewOrKept(longer[j], e, history)
    <3>1. longer[j].id = nextToolId - 1 - (n - j) /\ longer[j] = history[j]
      BY <1>2, <1>4
    <3>2. nextToolId - 1 - (n - j) = (nextToolId + 1) - 1 - (Len(longer) - j)
          /\ nextToolId - 1 - (n - j) # nextToolId
      BY <1>1, <1>4
    <3>3. NewOrKept(longer[j], e, history)
      BY <1>3, <3>1, <3>2 DEF NewOrKept, n
    <3> QED
      BY <3>1, <3>2, <3>3
  <2>2. /\ longer[n + 1].id = (nextToolId + 1) - 1 - (Len(longer) - (n + 1))
        /\ NewOrKept(longer[n + 1], e, history)
    <3>1. (nextToolId + 1) - 1 - (Len(longer) - (n + 1)) = nextToolId
      BY <1>1, <1>4
    <3> QED
      BY <1>3, <1>4, <3>1 DEF NewOrKept
  <2>3. \A j \in 1..Len(longer) : j \in 1..n \/ j = n + 1
    BY <1>4
  <2> QED
    BY <2>1, <2>2, <2>3
<1>6. /\ history' \in Seq(Panel!Entries) /\ Len(history') \in Nat /\ Len(history') <= n + 1
      /\ \A j \in 1..Len(history') :
           /\ history'[j].id = nextToolId' - 1 - (Len(history') - j)
           /\ NewOrKept(history'[j], e, history)
  <2>1. CASE Len(longer) > MaxHistory
    <3> DEFINE t == Tail(longer)
    <3>1. /\ Len(t) = Len(longer) - 1 /\ t \in Seq(Panel!Entries)
          /\ \A j \in 1..Len(t) : t[j] = longer[j + 1]
      <4>1. longer # <<>>
        BY <1>4
      <4> QED
        BY <1>4, <4>1, TailIs
    <3>2. history' = t
      BY <1>1, <2>1
    <3> HIDE DEF t
    <3>3. ASSUME NEW j \in 1..Len(t)
          PROVE  /\ t[j].id = (nextToolId + 1) - 1 - (Len(t) - j)
                 /\ NewOrKept(t[j], e, history)
      <4>1. j + 1 \in 1..Len(longer) /\ (nextToolId + 1) - 1 - (Len(longer) - (j + 1)) = (nextToolId + 1) - 1 - (Len(t) - j)
        BY <1>1, <1>4, <3>1
      <4> QED
        BY <1>5, <3>1, <4>1
    <3>4. nextToolId' = nextToolId + 1 /\ Len(t) \in Nat /\ Len(t) <= n + 1
      BY <1>1, <1>4, <3>1
    <3> QED
      BY <3>1, <3>2, <3>3, <3>4
  <2>2. CASE ~(Len(longer) > MaxHistory)
    <3>1. history' = longer
      BY <1>1, <2>2
    <3>2. nextToolId' = nextToolId + 1 /\ Len(longer) \in Nat /\ Len(longer) <= n + 1
      BY <1>1, <1>4
    <3> QED
      BY <1>4, <1>5, <3>1, <3>2
  <2> QED
    BY <2>1, <2>2
<1>7. Numbered(history, nextToolId)'
  <2>1. Len(history') < nextToolId'
    BY <1>1, <1>2, <1>4, <1>6
  <2> QED
    BY <1>6, <2>1 DEF Numbered
<1>8. /\ e.id \in (nextToolId - n)..nextToolId
      /\ nextToolId' = IF e.id = nextToolId THEN nextToolId + 1 ELSE nextToolId
      /\ nextToolId - n <= nextToolId' - Len(history') /\ nextToolId' \in 1..(MaxTools + 1)
  BY <1>1, <1>3, <1>4, <1>6, PanelAssumption
<1> QED
  BY <1>1, <1>3, <1>6, <1>7, <1>8, EntryIsTold DEF n

LEMMA ToolCompletes ==
  ASSUME PanelInv, NEW i, Panel!RecordToolComplete(i)
  PROVE  PanelInv'
<1> DEFINE n == Len(history)
           e == [history[i] EXCEPT !.state = "done"]
<1>1. /\ history \in Seq(Panel!Entries) /\ i \in 1..n /\ nextToolId \in 1..(MaxTools + 1) /\ nextToolId' = nextToolId
      /\ history' = [history EXCEPT ![i].state = "done"]
      /\ Panel!Broadcast("history", history'[i])
      /\ UNCHANGED <<status, autoTabs, answer, asked, panelOpen, shownStatus, shownTabs, rows, behind>>
  BY DEF Panel!RecordToolComplete, Panel!panelVars, PanelInv, PanelTypes
<1>2. n < nextToolId /\ \A j \in 1..n : history[j].id = nextToolId - 1 - (n - j)
  BY DEF PanelInv, HistoryFollows, Numbered
<1>3. n \in Nat /\ history[i] \in Panel!Entries
  BY <1>1
<1>4. e \in Panel!Entries /\ e.id = history[i].id
  BY <1>3 DEF Panel!Entries
<1> HIDE DEF e
<1>5. /\ history' \in Seq(Panel!Entries) /\ Len(history') = n
      /\ history'[i] = e /\ \A j \in 1..n : j # i => history'[j] = history[j]
  <2>1. history' = [history EXCEPT ![i] = e]
    BY <1>1 DEF e
  <2> QED
    BY <1>1, <1>4, <2>1
<1>6. \A j \in 1..n : history'[j].id = history[j].id
  BY <1>4, <1>5
<1>7. Numbered(history, nextToolId)'
  BY <1>1, <1>2, <1>5, <1>6 DEF Numbered
<1>8. \A j \in 1..n : j # i => history[j].id # e.id
  <2>1. ASSUME NEW j \in 1..n, j # i
        PROVE  history[j].id # e.id
    <3>1. nextToolId - 1 - (n - j) # nextToolId - 1 - (n - i)
      BY <1>1, <1>3, <2>1
    <3> QED
      BY <1>1, <1>2, <1>4, <3>1
  <2> QED
    BY <2>1
<1>9. \A j \in 1..Len(history') : NewOrKept(history'[j], e, history)
  <2>1. ASSUME NEW j \in 1..n, j # i
        PROVE  NewOrKept(history'[j], e, history)
    <3>1. history'[j] = history[j] /\ history[j].id # e.id
      BY <1>5, <1>8, <2>1
    <3> QED
      BY <3>1 DEF NewOrKept, n
  <2>2. NewOrKept(history'[i], e, history)
    BY <1>5 DEF NewOrKept
  <2> QED
    BY <1>5, <2>1, <2>2
<1>10. /\ e.id \in (nextToolId - n)..nextToolId
       /\ nextToolId' = IF e.id = nextToolId THEN nextToolId + 1 ELSE nextToolId
       /\ nextToolId - n <= nextToolId' - Len(history')
  <2>1. e.id = nextToolId - 1 - (n - i)
    BY <1>1, <1>2, <1>4
  <2>2. e.id >= nextToolId - n /\ e.id < nextToolId /\ e.id \in Int
    BY <1>1, <1>3, <2>1
  <2> QED
    BY <1>1, <1>3, <1>5, <2>2
<1> QED
  BY <1>1, <1>4, <1>5, <1>7, <1>9, <1>10, EntryIsTold DEF n

LEMMA StateIsTold ==
  ASSUME PanelInv, Panel!GetState
  PROVE  PanelInv'
<1> DEFINE now == [status |-> status, tabs |-> autoTabs, history |-> history, older |-> Len(broadcasts)]
<1>1. /\ answer' = now /\ asked' = asked \ {"get_state"} /\ "get_state" \in asked
      /\ UNCHANGED <<status, history, nextToolId, autoTabs, broadcasts, panelOpen, shownStatus, shownTabs,
                     rows, behind>>
  BY DEF Panel!GetState, Panel!workerVars, Panel!panelVars
<1>2. /\ history \in Seq(Panel!Entries) /\ Len(history) \in Nat /\ broadcasts \in Seq(Messages)
      /\ nextToolId \in Nat /\ status \in Statuses /\ autoTabs \subseteq AutoTabs
  BY DEF PanelInv, PanelTypes
<1>3. /\ now \in Snapshots /\ now.status = status /\ now.tabs = autoTabs
      /\ now.history = history /\ now.older = Len(broadcasts) /\ Len(broadcasts) \in Nat
  BY <1>2 DEF Snapshots
<1> HIDE DEF now
<1>4. answer' # Nothing
  BY <1>1, <1>3, NoAnswer
<1>5. PanelTypes'
  BY <1>1, <1>3 DEF PanelInv, PanelTypes
<1>6. StatusFollows' /\ TabsFollow'
  BY <1>1, <1>3, <1>4 DEF PanelInv, StatusFollows, TabsFollow, ShowsNow
<1>7. HistoryFollows'
  <2>1. Follows(broadcasts, Len(broadcasts), Panel!Reverse(history), history, nextToolId)
    BY <1>2, FollowsAnew DEF PanelInv, HistoryFollows
  <2> QED
    BY <1>1, <1>3, <1>4, <2>1 DEF PanelInv, HistoryFollows, ShowsNow
<1> QED
  BY <1>5, <1>6, <1>7 DEF PanelInv

LEMMA NothingSaid ==
  \A what, value, kept : LastIs(<<>>, what, value) /\ LastEntriesAre(<<>>, kept)
BY DEF LastIs, LastEntriesAre

LEMMA WorkerBeginsAnew ==
  ASSUME PanelInv, Panel!WorkerRestarts
  PROVE  PanelInv'
<1>1. /\ status' = "disconnected" /\ history' = <<>> /\ nextToolId' = 1 /\ autoTabs' = {}
      /\ answer' = Nothing /\ asked' = {} /\ broadcasts' = <<>>
      /\ panelOpen => behind' = Panel!Aspects
      /\ UNCHANGED <<panelOpen, shownStatus, shownTabs, rows>>
  BY DEF Panel!WorkerRestarts, Panel!panelVars
<1>2. PanelTypes'
  BY <1>1, PanelAssumption DEF PanelInv, PanelTypes
<1>3. Numbered(history, nextToolId)'
  BY <1>1 DEF Numbered
<1>4. panelOpen => {"status", "tabs", "history"} \subseteq behind'
  BY <1>1 DEF Panel!Aspects
<1> QED
  BY <1>1, <1>2, <1>3, <1>4, NothingSaid DEF PanelInv, StatusFollows, TabsFollow, HistoryFollows, ShowsNow

LEMMA PanelOpensOrCloses ==
  ASSUME PanelInv, Panel!OpenPanel \/ Panel!ClosePanel
  PROVE  PanelInv'
<1>1. CASE Panel!OpenPanel
  <2>1. /\ asked' = {"get_state"} /\ panelOpen' = TRUE /\ broadcasts = <<>> /\ answer = Nothing
        /\ UNCHANGED <<status, history, nextToolId, autoTabs, broadcasts, answer, shownStatus, shownTabs, rows, behind>>
    BY <1>1 DEF Panel!OpenPanel, Panel!workerVars, Panel!panelVars, PanelInv, PanelTypes
  <2>2. PanelTypes'
    BY <2>1 DEF PanelInv, PanelTypes
  <2> QED
    BY <2>1, <2>2 DEF PanelInv, StatusFollows, TabsFollow, HistoryFollows, ShowsNow
<1>2. CASE Panel!ClosePanel
  <2>1. /\ asked' = {} /\ panelOpen' = FALSE /\ broadcasts' = <<>> /\ answer' = Nothing /\ rows' = <<>>
        /\ UNCHANGED <<status, history, nextToolId, autoTabs>>
    BY <1>2 DEF Panel!ClosePanel, Panel!workerVars
  <2>2. PanelTypes'
    <3>1. /\ broadcasts' \in Seq(Messages) /\ rows' \in Seq(Panel!Entries) /\ Len(broadcasts') = 0
          /\ \A i \in 1..Len(broadcasts') : broadcasts'[i].what = "history" => broadcasts'[i].value.id < nextToolId'
      BY <2>1
    <3> QED
      BY <2>1, <3>1 DEF PanelInv, PanelTypes
  <2>3. Numbered(history, nextToolId)'
    BY <2>1 DEF PanelInv, HistoryFollows
  <2> QED
    BY <2>1, <2>2, <2>3, NothingSaid DEF PanelInv, StatusFollows, TabsFollow, HistoryFollows, ShowsNow
<1> QED
  BY <1>1, <1>2

(* A delivery, in terms of what it leaves on the way.                        *)
LEMMA Delivering ==
  ASSUME PanelInv, Panel!Deliver
  PROVE  /\ broadcasts \in Seq(Messages) /\ broadcasts # <<>> /\ broadcasts' = Tail(broadcasts)
         /\ Head(broadcasts) = broadcasts[1] /\ broadcasts[1] \in Messages
         /\ UNCHANGED <<status, history, nextToolId, autoTabs, asked, panelOpen>>
         /\ answer = Nothing => answer' = Nothing
         /\ answer # Nothing /\ answer.older = 0 =>
              answer' = answer /\ behind' = behind \union {broadcasts[1].what}
         /\ answer # Nothing /\ answer.older # 0 =>
              /\ answer' # Nothing /\ answer' \in Snapshots /\ answer'.older = answer.older - 1
              /\ answer'.older \in Nat /\ answer.older = answer'.older + 1
              /\ answer'.status = answer.status /\ answer'.tabs = answer.tabs /\ answer'.history = answer.history
         /\ \A x \in Panel!Aspects : x \in behind /\ x # broadcasts[1].what => x \in behind'
         /\ "history" \in behind => "history" \in behind'
<1>1. broadcasts \in Seq(Messages) /\ broadcasts # <<>>
  BY DEF Panel!Deliver, PanelInv, PanelTypes
<1>2. Head(broadcasts) = broadcasts[1] /\ broadcasts[1] \in Messages
  BY <1>1, TailIs
<1>3. /\ broadcasts' = Tail(broadcasts)
      /\ UNCHANGED <<status, history, nextToolId, autoTabs, asked, panelOpen>>
      /\ answer = Nothing => answer' = Nothing
  BY DEF Panel!Deliver, Panel!workerVars
<1>4. answer # Nothing /\ answer.older = 0 =>
              answer' = answer /\ behind' = behind \union {broadcasts[1].what}
  BY <1>2 DEF Panel!Deliver
<1>5. ASSUME answer # Nothing, answer.older # 0
      PROVE  /\ answer' # Nothing /\ answer' \in Snapshots /\ answer'.older = answer.older - 1
             /\ answer'.older \in Nat /\ answer.older = answer'.older + 1
             /\ answer'.status = answer.status /\ answer'.tabs = answer.tabs /\ answer'.history = answer.history
  <2>1. answer \in Snapshots
    BY <1>5 DEF PanelInv, PanelTypes
  <2>2. answer' = [answer EXCEPT !.older = @ - 1]
    BY <1>5 DEF Panel!Deliver
  <2>3. answer.older \in Nat /\ answer.older - 1 \in Nat
    BY <1>5, <2>1 DEF Snapshots
  <2>4. /\ answer' \in Snapshots /\ answer'.older = answer.older - 1
        /\ answer'.status = answer.status /\ answer'.tabs = answer.tabs /\ answer'.history = answer.history
    BY <2>1, <2>2, <2>3 DEF Snapshots
  <2> QED
    BY <2>3, <2>4, NoAnswer
<1>6. /\ \A x \in Panel!Aspects : x \in behind /\ x # broadcasts[1].what => x \in behind'
      /\ "history" \in behind => "history" \in behind'
  BY <1>2 DEF Panel!Deliver
<1> QED
  BY <1>1, <1>2, <1>3, <1>4, <1>5, <1>6

LEMMA DeliveredStatus ==
  ASSUME PanelInv, Panel!Deliver
  PROVE  StatusFollows'
<1> DEFINE b == broadcasts
           c == Tail(broadcasts)
<1>1. /\ b \in Seq(Messages) /\ b # <<>> /\ broadcasts' = c /\ Head(b) = b[1]
      /\ UNCHANGED <<status, asked, panelOpen>>
      /\ answer = Nothing => answer' = Nothing
      /\ answer # Nothing /\ answer.older = 0 => answer' = answer /\ behind' = behind \union {b[1].what}
      /\ answer # Nothing /\ answer.older # 0 =>
           /\ answer'.older \in Nat /\ answer.older = answer'.older + 1 /\ answer'.status = answer.status
      /\ "status" \in behind /\ "status" # b[1].what => "status" \in behind'
  BY Delivering DEF Panel!Aspects
<1>2. LastIs(b, "status", status)
  BY DEF PanelInv, StatusFollows
<1>3. LastIs(c, "status", status) /\ (b[1].what = "status" /\ Quiet(c, 0, "status") => b[1].value = status)
  BY <1>1, <1>2, LastTail
<1>4. /\ \A a \in Nat : Quiet(c, a, "status") => Quiet(b, a + 1, "status")
      /\ b[1].what # "status" /\ Quiet(c, 0, "status") => Quiet(b, 0, "status")
  BY <1>1, QuietTail
<1>5. /\ b[1].what = "status" => shownStatus' = b[1].value
      /\ b[1].what # "status" => shownStatus' = shownStatus
  <2>1. b[1].what \in {"status", "tabs", "history"}
    BY Delivering DEF Messages
  <2> QED
    BY <1>1, <2>1 DEF Panel!Deliver, Panel!UpdateConnectionStatus
<1> HIDE DEF b, c
<1>6. ASSUME answer' # Nothing, answer'.older > 0 \/ "status" \notin behind', Quiet(c, answer'.older, "status")
      PROVE  answer'.status = status'
  <2>1. CASE answer.older = 0
    <3>1. answer' = answer /\ b[1].what # "status" /\ "status" \notin behind
      BY <1>1, <1>6, <2>1
    <3> QED
      BY <1>1, <1>4, <1>6, <2>1, <3>1 DEF PanelInv, StatusFollows, b
  <2>2. CASE answer.older # 0
    <3>1. /\ answer'.older \in Nat /\ answer.older = answer'.older + 1 /\ answer'.status = answer.status
          /\ answer # Nothing
      BY <1>1, <1>6, <2>2
    <3>2. answer.older > 0 /\ Quiet(b, answer.older, "status")
      BY <1>4, <1>6, <3>1
    <3> QED
      BY <1>1, <3>1, <3>2 DEF PanelInv, StatusFollows, b
  <2> QED
    BY <2>1, <2>2
<1>7. ASSUME ShowsNow', "status" \notin behind', Quiet(c, 0, "status")
      PROVE  shownStatus' = status' \/ ("connect" \in asked' /\ shownStatus' = "connecting")
  <2>1. ShowsNow
    BY <1>1, <1>7, Delivering DEF ShowsNow
  <2>2. CASE b[1].what = "status"
    BY <1>1, <1>3, <1>5, <1>7, <2>2
  <2>3. CASE b[1].what # "status"
    <3>1. Quiet(b, 0, "status") /\ "status" \notin behind
      BY <1>1, <1>4, <1>7, <2>3
    <3> QED
      BY <1>1, <1>5, <2>1, <2>3, <3>1 DEF PanelInv, StatusFollows, b
  <2> QED
    BY <2>2, <2>3
<1> QED
  BY <1>1, <1>3, <1>6, <1>7 DEF StatusFollows

LEMMA DeliveredTabs ==
  ASSUME PanelInv, Panel!Deliver
  PROVE  TabsFollow'
<1> DEFINE b == broadcasts
           c == Tail(broadcasts)
<1>1. /\ b \in Seq(Messages) /\ b # <<>> /\ broadcasts' = c /\ Head(b) = b[1]
      /\ UNCHANGED <<autoTabs, asked, panelOpen>>
      /\ answer = Nothing => answer' = Nothing
      /\ answer # Nothing /\ answer.older = 0 => answer' = answer /\ behind' = behind \union {b[1].what}
      /\ answer # Nothing /\ answer.older # 0 =>
           /\ answer'.older \in Nat /\ answer.older = answer'.older + 1 /\ answer'.tabs = answer.tabs
      /\ "tabs" \in behind /\ "tabs" # b[1].what => "tabs" \in behind'
  BY Delivering DEF Panel!Aspects
<1>2. LastIs(b, "tabs", autoTabs)
  BY DEF PanelInv, TabsFollow
<1>3. LastIs(c, "tabs", autoTabs) /\ (b[1].what = "tabs" /\ Quiet(c, 0, "tabs") => b[1].value = autoTabs)
  BY <1>1, <1>2, LastTail
<1>4. /\ \A a \in Nat : Quiet(c, a, "tabs") => Quiet(b, a + 1, "tabs")
      /\ b[1].what # "tabs" /\ Quiet(c, 0, "tabs") => Quiet(b, 0, "tabs")
  BY <1>1, QuietTail
<1>5. /\ b[1].what = "tabs" => shownTabs' = b[1].value
      /\ b[1].what # "tabs" => shownTabs' = shownTabs
  <2>1. b[1].what \in {"status", "tabs", "history"}
    BY Delivering DEF Messages
  <2> QED
    BY <1>1, <2>1 DEF Panel!Deliver, Panel!RenderAutomationTabs
<1> HIDE DEF b, c
<1>6. ASSUME answer' # Nothing, answer'.older > 0 \/ "tabs" \notin behind', Quiet(c, answer'.older, "tabs")
      PROVE  answer'.tabs = autoTabs'
  <2>1. CASE answer.older = 0
    <3>1. answer' = answer /\ b[1].what # "tabs" /\ "tabs" \notin behind
      BY <1>1, <1>6, <2>1
    <3> QED
      BY <1>1, <1>4, <1>6, <2>1, <3>1 DEF PanelInv, TabsFollow, b
  <2>2. CASE answer.older # 0
    <3>1. /\ answer'.older \in Nat /\ answer.older = answer'.older + 1 /\ answer'.tabs = answer.tabs
          /\ answer # Nothing
      BY <1>1, <1>6, <2>2
    <3>2. answer.older > 0 /\ Quiet(b, answer.older, "tabs")
      BY <1>4, <1>6, <3>1
    <3> QED
      BY <1>1, <3>1, <3>2 DEF PanelInv, TabsFollow, b
  <2> QED
    BY <2>1, <2>2
<1>7. ASSUME ShowsNow', "tabs" \notin behind', Quiet(c, 0, "tabs")
      PROVE  shownTabs' = autoTabs'
  <2>1. ShowsNow
    BY <1>1, <1>7, Delivering DEF ShowsNow
  <2>2. CASE b[1].what = "tabs"
    BY <1>1, <1>3, <1>5, <1>7, <2>2
  <2>3. CASE b[1].what # "tabs"
    <3>1. Quiet(b, 0, "tabs") /\ "tabs" \notin behind
      BY <1>1, <1>4, <1>7, <2>3
    <3> QED
      BY <1>1, <1>5, <2>1, <2>3, <3>1 DEF PanelInv, TabsFollow, b
  <2> QED
    BY <2>2, <2>3
<1> QED
  BY <1>1, <1>3, <1>6, <1>7 DEF TabsFollow

LEMMA DeliveredHistory ==
  ASSUME PanelInv, Panel!Deliver
  PROVE  HistoryFollows' /\ rows' \in Seq(Panel!Entries)
<1> DEFINE b == broadcasts
           c == Tail(broadcasts)
           e == b[1].value
<1>1. /\ b \in Seq(Messages) /\ b # <<>> /\ broadcasts' = c /\ b[1] \in Messages
      /\ UNCHANGED <<history, nextToolId, asked, panelOpen>>
      /\ answer = Nothing => answer' = Nothing
      /\ answer # Nothing /\ answer.older = 0 => answer' = answer /\ behind' = behind \union {b[1].what}
      /\ answer # Nothing /\ answer.older # 0 =>
           /\ answer'.older \in Nat /\ answer.older = answer'.older + 1 /\ answer'.history = answer.history
      /\ "history" \in behind => "history" \in behind'
  BY Delivering
<1>2. /\ nextToolId \in Nat /\ rows \in Seq(Panel!Entries)
      /\ \A i \in 1..Len(b) : b[i].what = "history" => b[i].value.id < nextToolId
  BY DEF PanelInv, PanelTypes
<1>3. Numbered(history, nextToolId) /\ LastEntriesAre(b, history)
  BY DEF PanelInv, HistoryFollows
<1>4. LastEntriesAre(c, history)
  BY <1>1, <1>3, LastEntriesTail
<1>5. b[1].what = "history" => e \in Panel!Entries /\ e.id < nextToolId
  <2>1. 1 \in 1..Len(b)
    BY <1>1
  <2> QED
    BY <1>1, <1>2, <2>1 DEF Messages
<1>6. /\ b[1].what = "history" =>
           rows' = IF e.id \in Panel!Ids(rows)
                   THEN [i \in 1..Len(rows) |-> IF rows[i].id = e.id THEN e ELSE rows[i]]
                   ELSE <<e>> \o rows
      /\ b[1].what # "history" => rows' = rows
  <2>1. b[1].what \in {"status", "tabs", "history"} /\ Head(broadcasts) = b[1]
    BY Delivering DEF Messages
  <2> QED
    BY <2>1 DEF Panel!Deliver, Panel!AddOrUpdateToolEntry
<1>7. rows' \in Seq(Panel!Entries)
  <2>1. CASE b[1].what # "history"
    BY <1>2, <1>6, <2>1
  <2>2. CASE b[1].what = "history"
    <3>1. e \in Panel!Entries
      BY <1>5, <2>2
    <3> HIDE DEF e
    <3>2. [i \in 1..Len(rows) |-> IF rows[i].id = e.id THEN e ELSE rows[i]] \in Seq(Panel!Entries)
      BY <1>2, <3>1
    <3>3. <<e>> \o rows \in Seq(Panel!Entries)
      BY <1>2, <3>1
    <3> QED
      BY <1>6, <2>2, <3>2, <3>3
  <2> QED
    BY <2>1, <2>2
<1>8. ASSUME NEW shown, b[1].what # "history", Follows(b, 0, shown, history, nextToolId)
      PROVE  Follows(c, 0, shown, history, nextToolId)
  BY <1>1, <1>2, <1>8, FollowsOther
<1>9. ASSUME b[1].what = "history", Follows(b, 0, rows, history, nextToolId)
      PROVE  Follows(c, 0, rows', history, nextToolId)
  <2>1. e \in Panel!Entries /\ e.id < nextToolId
    BY <1>5, <1>9
  <2>2. Follows(c, 0, IF e.id \in Panel!Ids(rows)
                      THEN [i \in 1..Len(rows) |-> IF rows[i].id = e.id THEN e ELSE rows[i]]
                      ELSE <<e>> \o rows, history, nextToolId)
    BY <1>1, <1>2, <1>3, <1>9, <2>1, FollowsRows
  <2> QED
    BY <1>6, <1>9, <2>2
<1>10. ASSUME NEW a \in Nat, NEW shown, Follows(b, a + 1, shown, history, nextToolId)
       PROVE  Follows(c, a, shown, history, nextToolId)
  BY <1>1, <1>2, <1>10, FollowsTail
<1> HIDE DEF b, c, e
<1>11. ASSUME answer' # Nothing, "history" \notin behind'
       PROVE  Follows(c, answer'.older, Panel!Reverse(answer'.history), history, nextToolId)
  <2>1. answer # Nothing /\ "history" \notin behind
    BY <1>1, <1>11
  <2>2. Follows(b, answer.older, Panel!Reverse(answer.history), history, nextToolId)
    BY <2>1 DEF PanelInv, HistoryFollows, b
  <2>3. CASE answer.older = 0
    <3>1. answer' = answer /\ b[1].what # "history"
      BY <1>1, <1>11, <2>1, <2>3
    <3> QED
      BY <1>8, <2>2, <2>3, <3>1
  <2>4. CASE answer.older # 0
    <3>1. answer'.older \in Nat /\ answer.older = answer'.older + 1 /\ answer'.history = answer.history
      BY <1>1, <2>1, <2>4
    <3> QED
      BY <1>10, <2>2, <3>1
  <2> QED
    BY <2>3, <2>4
<1>12. ASSUME ShowsNow', "history" \notin behind'
       PROVE  Follows(c, 0, rows', history, nextToolId)
  <2>1. ShowsNow /\ "history" \notin behind
    BY <1>1, <1>12, Delivering DEF ShowsNow
  <2>2. Follows(b, 0, rows, history, nextToolId)
    BY <2>1 DEF PanelInv, HistoryFollows, b
  <2> QED
    BY <1>6, <1>8, <1>9, <2>2
<1> QED
  BY <1>1, <1>3, <1>4, <1>7, <1>11, <1>12 DEF HistoryFollows

LEMMA BroadcastIsDelivered ==
  ASSUME PanelInv, Panel!Deliver
  PROVE  PanelInv'
<1>1. /\ broadcasts \in Seq(Messages) /\ broadcasts # <<>> /\ broadcasts' = Tail(broadcasts)
      /\ UNCHANGED <<status, history, nextToolId, autoTabs, asked, panelOpen>>
      /\ answer = Nothing => answer' = Nothing
      /\ answer # Nothing /\ answer.older = 0 => answer' = answer
      /\ answer # Nothing /\ answer.older # 0 => answer' \in Snapshots /\ answer'.older = answer.older - 1
  BY Delivering
<1>2. /\ Len(broadcasts) \in Nat /\ Len(broadcasts') = Len(broadcasts) - 1 /\ broadcasts' \in Seq(Messages)
      /\ Len(broadcasts) >= 1
      /\ \A i \in 1..Len(broadcasts') : broadcasts'[i] = broadcasts[i + 1]
  BY <1>1, TailIs
<1>3. ASSUME NEW i \in 1..Len(broadcasts'), broadcasts'[i].what = "history"
      PROVE  broadcasts'[i].value.id < nextToolId'
  <2>1. i + 1 \in 1..Len(broadcasts) /\ broadcasts'[i] = broadcasts[i + 1]
    BY <1>2
  <2> QED
    BY <1>1, <1>3, <2>1 DEF PanelInv, PanelTypes
<1>4. answer' # Nothing => answer' \in Snapshots /\ answer'.older <= Len(broadcasts')
  <2>1. answer # Nothing => answer \in Snapshots /\ answer.older \in Nat /\ answer.older <= Len(broadcasts)
    BY DEF PanelInv, PanelTypes, Snapshots
  <2>2. CASE answer.older = 0
    BY <1>1, <1>2, <2>1, <2>2
  <2>3. CASE answer.older # 0
    BY <1>1, <1>2, <2>1, <2>3
  <2> QED
    BY <2>2, <2>3
<1>5. rows' \in Seq(Panel!Entries) /\ HistoryFollows'
  BY DeliveredHistory
<1>6. panelOpen
  BY <1>1 DEF PanelInv, PanelTypes
<1>7. PanelTypes'
  BY <1>1, <1>2, <1>3, <1>4, <1>5, <1>6 DEF PanelInv, PanelTypes
<1> QED
  BY <1>5, <1>7, DeliveredStatus, DeliveredTabs DEF PanelInv

LEMMA ReverseIs ==
  ASSUME NEW s \in Seq(Panel!Entries)
  PROVE  /\ Panel!Reverse(s) \in Seq(Panel!Entries) /\ Len(Panel!Reverse(s)) = Len(s)
         /\ \A i \in 1..Len(s) : Panel!Reverse(s)[(Len(s) - i) + 1] = s[i]
<1> DEFINE r == Panel!Reverse(s)
<1>1. r = [i \in 1..Len(s) |-> s[(Len(s) - i) + 1]]
  BY DEF Panel!Reverse
<1> HIDE DEF r
<1>2. Len(s) \in Nat /\ \A i \in 1..Len(s) : (Len(s) - i) + 1 \in 1..Len(s) /\ (Len(s) - ((Len(s) - i) + 1)) + 1 = i
  OBVIOUS
<1>3. r \in Seq(Panel!Entries) /\ Len(r) = Len(s)
  BY <1>1, <1>2
<1>4. \A i \in 1..Len(s) : r[(Len(s) - i) + 1] = s[(Len(s) - ((Len(s) - i) + 1)) + 1]
  BY <1>1, <1>2
<1>5. \A i \in 1..Len(s) : r[(Len(s) - i) + 1] = s[i]
  BY <1>2, <1>4
<1> QED
  BY <1>3, <1>5 DEF r

LEMMA QuietLater ==
  ASSUME NEW b, Len(b) \in Nat, NEW what, NEW a \in Nat, Quiet(b, 0, what)
  PROVE  Quiet(b, a, what)
BY DEF Quiet

LEMMA AnswerIsShown ==
  ASSUME PanelInv, Panel!Answered
  PROVE  PanelInv'
<1>1. /\ answer # Nothing /\ answer' = Nothing
      /\ shownStatus' = answer.status /\ shownTabs' = answer.tabs /\ rows' = Panel!Reverse(answer.history)
      /\ UNCHANGED <<status, history, nextToolId, autoTabs, broadcasts, asked, panelOpen>>
  BY DEF Panel!Answered, Panel!workerVars, Panel!UpdateConnectionStatus, Panel!RenderAutomationTabs, Panel!RenderFullHistory
<1>2. /\ "history" \notin behind' =>
           \A i \in 1..answer.older : ~(/\ broadcasts[i].what = "history"
                                        /\ broadcasts[i].value.id \notin Panel!Ids(answer.history))
      /\ \A x : x \in behind => x \in behind'
  BY DEF Panel!Answered
<1>3. /\ answer \in Snapshots /\ answer.older \in 0..Len(broadcasts) /\ answer.older \in Nat
      /\ answer.history \in Seq(Panel!Entries) /\ broadcasts \in Seq(Messages) /\ Len(broadcasts) \in Nat
      /\ nextToolId \in Nat
  BY <1>1 DEF PanelInv, PanelTypes, Snapshots
<1>4. /\ rows' \in Seq(Panel!Entries) /\ Len(rows') = Len(answer.history)
      /\ \A i \in 1..Len(answer.history) : rows'[(Len(answer.history) - i) + 1] = answer.history[i]
  BY <1>1, <1>3, ReverseIs
<1>5. PanelTypes'
  BY <1>1, <1>4 DEF PanelInv, PanelTypes
<1>6. StatusFollows'
  <2>1. Quiet(broadcasts, 0, "status") => Quiet(broadcasts, answer.older, "status")
    BY <1>3, QuietLater
  <2> QED
    BY <1>1, <1>2, <2>1 DEF PanelInv, StatusFollows, ShowsNow
<1>7. TabsFollow'
  <2>1. Quiet(broadcasts, 0, "tabs") => Quiet(broadcasts, answer.older, "tabs")
    BY <1>3, QuietLater
  <2> QED
    BY <1>1, <1>2, <2>1 DEF PanelInv, TabsFollow, ShowsNow
<1>8. ASSUME "history" \notin behind'
      PROVE  Follows(broadcasts, 0, rows', history, nextToolId)
  <2>1. Follows(broadcasts, answer.older, rows', history, nextToolId)
    BY <1>1, <1>2, <1>8 DEF PanelInv, HistoryFollows
  <2>2. ASSUME NEW i \in 1..answer.older, broadcasts[i].what = "history"
        PROVE  \E k \in 1..Len(rows') : rows'[k].id = broadcasts[i].value.id
    <3>1. PICK j \in 1..Len(answer.history) : answer.history[j].id = broadcasts[i].value.id
      BY <1>2, <1>8, <2>2 DEF Panel!Ids
    <3>2. (Len(answer.history) - j) + 1 \in 1..Len(rows')
      BY <1>3, <1>4
    <3> QED
      BY <1>4, <3>1, <3>2
  <2> DEFINE shown == rows'
  <2>3. shown \in Seq(Panel!Entries) /\ Follows(broadcasts, answer.older, shown, history, nextToolId)
        /\ \A i \in 1..answer.older : broadcasts[i].what = "history" =>
             \E k \in 1..Len(shown) : shown[k].id = broadcasts[i].value.id
    BY <1>4, <2>1, <2>2
  <2> HIDE DEF shown
  <2>4. Follows(broadcasts, 0, shown, history, nextToolId)
    BY <1>3, <2>3, FollowsAnswer
  <2> QED
    BY <2>4 DEF shown
<1>9. HistoryFollows'
  BY <1>1, <1>8 DEF PanelInv, HistoryFollows
<1> QED
  BY <1>5, <1>6, <1>7, <1>9 DEF PanelInv

LEMMA AskingFailsOrBegins ==
  ASSUME PanelInv,
         \/ \E m \in {"get_state", "connect", "disconnect"} : Panel!MessageFails(m)
         \/ Panel!ClickConnect \/ Panel!ClickDisconnect \/ Panel!ClickStop
  PROVE  PanelInv'
<1>1. ASSUME Panel!MessageFails("get_state")
      PROVE  PanelInv'
  <2>1. /\ asked' = asked \ {"get_state"} /\ {"status", "tabs", "history"} \subseteq behind'
        /\ UNCHANGED <<status, history, nextToolId, autoTabs, broadcasts, answer, panelOpen,
                       shownStatus, shownTabs, rows>>
    BY <1>1 DEF Panel!MessageFails, Panel!workerVars, Panel!panelVars, Panel!Aspects
  <2>2. PanelTypes'
    BY <2>1 DEF PanelInv, PanelTypes
  <2> QED
    BY <2>1, <2>2 DEF PanelInv, StatusFollows, TabsFollow, HistoryFollows
<1>2. ASSUME Panel!MessageFails("connect")
      PROVE  PanelInv'
  <2>1. /\ asked' = asked \ {"connect"} /\ behind' = behind \union {"status"}
        /\ UNCHANGED <<status, history, nextToolId, autoTabs, broadcasts, answer, panelOpen, shownTabs, rows>>
    BY <1>2 DEF Panel!MessageFails, Panel!workerVars
  <2>2. PanelTypes'
    BY <2>1 DEF PanelInv, PanelTypes
  <2> QED
    BY <2>1, <2>2 DEF PanelInv, StatusFollows, TabsFollow, HistoryFollows, ShowsNow
<1>3. ASSUME Panel!MessageFails("disconnect")
      PROVE  PanelInv'
  <2>1. /\ asked' = asked \ {"disconnect"} /\ behind' = behind
        /\ UNCHANGED <<status, history, nextToolId, autoTabs, broadcasts, answer, panelOpen,
                       shownStatus, shownTabs, rows>>
    BY <1>3 DEF Panel!MessageFails, Panel!workerVars, Panel!panelVars
  <2>2. ~panelOpen => asked' = {}
    BY <2>1 DEF PanelInv, PanelTypes
  <2> QED
    BY <2>1, <2>2, PanelAsks
<1>4. ASSUME Panel!ClickConnect
      PROVE  PanelInv'
  <2>1. /\ panelOpen /\ asked' = asked \union {"connect"} /\ shownStatus' = "connecting"
        /\ UNCHANGED <<status, history, nextToolId, autoTabs, broadcasts, answer, panelOpen, shownTabs, rows, behind>>
    BY <1>4 DEF Panel!ClickConnect, Panel!workerVars, Panel!UpdateConnectionStatus
  <2>2. PanelTypes'
    BY <2>1 DEF PanelInv, PanelTypes
  <2> QED
    BY <2>1, <2>2 DEF PanelInv, StatusFollows, TabsFollow, HistoryFollows, ShowsNow
<1>5. ASSUME Panel!ClickDisconnect \/ Panel!ClickStop
      PROVE  PanelInv'
  <2>1. /\ panelOpen /\ (asked' = asked \union {"disconnect"} \/ asked' = asked)
        /\ UNCHANGED <<status, history, nextToolId, autoTabs, broadcasts, answer, panelOpen,
                       shownStatus, shownTabs, rows, behind>>
    BY <1>5 DEF Panel!ClickDisconnect, Panel!ClickStop, Panel!workerVars, Panel!panelVars
  <2> QED
    BY <2>1, PanelAsks
<1> QED
  BY <1>1, <1>2, <1>3, <1>4, <1>5

LEMMA PanelInitially == Panel!Init => PanelInv
<1> SUFFICES ASSUME Panel!Init
             PROVE  PanelInv
  OBVIOUS
<1>1. /\ status = "disconnected" /\ history = <<>> /\ nextToolId = 1 /\ autoTabs = {}
      /\ broadcasts = <<>> /\ answer = Nothing /\ asked = {} /\ panelOpen = FALSE /\ rows = <<>>
  BY DEF Panel!Init
<1>2. PanelTypes
  <2>1. /\ broadcasts \in Seq(Messages) /\ rows \in Seq(Panel!Entries) /\ history \in Seq(Panel!Entries)
        /\ Len(broadcasts) = 0
        /\ \A i \in 1..Len(broadcasts) : broadcasts[i].what = "history" => broadcasts[i].value.id < nextToolId
    BY <1>1
  <2>2. "disconnected" \in Statuses /\ nextToolId \in 1..(MaxTools + 1)
    BY <1>1, PanelAssumption
  <2> QED
    BY <1>1, <2>1, <2>2 DEF PanelTypes
<1>3. Numbered(history, nextToolId)
  BY <1>1 DEF Numbered
<1> QED
  BY <1>1, <1>2, <1>3, NothingSaid DEF PanelInv, StatusFollows, TabsFollow, HistoryFollows, ShowsNow

LEMMA PanelStep ==
  ASSUME PanelInv, Panel!Next
  PROVE  PanelInv'
BY StatusActions, ToolStarts, ToolCompletes, TabsAreChanged, StateIsTold, WorkerBeginsAnew, PanelOpensOrCloses,
   BroadcastIsDelivered, AnswerIsShown, AskingFailsOrBegins DEF Panel!Next

LEMMA PanelUntouched ==
  ASSUME PanelInv, UNCHANGED panelVars
  PROVE  PanelInv'
<1>1. /\ UNCHANGED <<status, history, nextToolId, autoTabs, broadcasts, answer, panelOpen, asked,
                     shownStatus, shownTabs, rows, behind>>
      /\ ~panelOpen => asked' = {}
  BY DEF panelVars, PanelInv, PanelTypes
<1> QED
  BY <1>1, PanelAsks

(* At rest the rows begin with the history, the newest first.                *)
LEMMA FollowsAtRest ==
  ASSUME NEW shown \in Seq(Panel!Entries), NEW kept \in Seq(Panel!Entries), NEW next \in Nat,
         Numbered(kept, next), Follows(<<>>, 0, shown, kept, next)
  PROVE  Panel!IsPrefix(Panel!Reverse(kept), shown)
<1> DEFINE r == Panel!Reverse(kept)
<1>1. PICK top \in 0..(next - 1) : FollowsFrom(top, <<>>, 0, shown, kept, next)
  BY DEF Follows
<1>2. \A id : Silent(<<>>, 0, id)
  BY DEF Silent
<1>3. /\ Len(shown) \in Nat /\ Len(kept) \in Nat /\ Len(shown) <= top /\ next - Len(kept) > top - Len(shown)
      /\ \A k \in 1..Len(shown) : shown[k].id = top - k + 1
      /\ ~ \E id : id \in (top + 1)..(next - 1)
      /\ \A k \in 1..Len(shown), j \in 1..Len(kept) : shown[k].id = kept[j].id => shown[k] = kept[j]
  BY <1>1, <1>2 DEF FollowsFrom
<1>4. top = next - 1
  <2>1. next - 1 \notin (top + 1)..(next - 1)
    BY <1>3
  <2> QED
    BY <2>1
<1>5. Len(kept) <= Len(shown)
  BY <1>3, <1>4
<1>6. \A j \in 1..Len(kept) : kept[j].id = next - 1 - (Len(kept) - j)
  BY DEF Numbered
<1>7. Len(r) = Len(kept) /\ r \in Seq(Panel!Entries) /\ \A k \in 1..Len(kept) : r[k] = kept[(Len(kept) - k) + 1]
  BY ReverseIs DEF Panel!Reverse
<1> HIDE DEF r
<1>8. \A k \in 1..Len(kept) : r[k] = shown[k]
  <2>1. ASSUME NEW k \in 1..Len(kept)
        PROVE  r[k] = shown[k]
    <3> DEFINE j == (Len(kept) - k) + 1
    <3>1. j \in 1..Len(kept) /\ k \in 1..Len(shown) /\ next - 1 - (Len(kept) - j) = top - k + 1
      BY <1>3, <1>4, <1>5
    <3>2. r[k] = kept[j]
      BY <1>7
    <3> HIDE DEF j
    <3>3. shown[k].id = kept[j].id
      BY <1>3, <1>6, <3>1
    <3> QED
      BY <1>3, <3>1, <3>2, <3>3
  <2> QED
    BY <2>1
<1>9. SubSeq(r, 1, Len(r)) = SubSeq(shown, 1, Len(r))
  <2>1. SubSeq(r, 1, Len(r)) = [i \in 1..Len(kept) |-> r[i]]
    BY <1>3, <1>7
  <2>2. SubSeq(shown, 1, Len(r)) = [i \in 1..Len(kept) |-> shown[i]]
    BY <1>3, <1>5, <1>7
  <2> QED
    BY <1>8, <2>1, <2>2
<1> QED
  BY <1>5, <1>7, <1>9 DEF Panel!IsPrefix, r

(* With nothing on its way, the open panel shows the worker's status, tabs   *)
(* and history (sidepanel/index.ts), but for what it is behind with.         *)
THEOREM PanelShowsTheWorker == Spec => []ShowsTheWorker
<1> DEFINE Inv == PanelInv
<1>1. Init => Inv
  BY PanelInitially DEF Init
<1>2. Inv /\ [Next]_vars => Inv'
  <2>1. Next => Panel!Next \/ UNCHANGED panelVars
    BY DEF Next
  <2>2. UNCHANGED vars => UNCHANGED panelVars
    BY DEF vars
  <2> QED
    BY <2>1, <2>2, PanelStep, PanelUntouched
<1>3. Inv => ShowsTheWorker
  <2> SUFFICES ASSUME PanelInv, panelOpen, broadcasts = <<>>, answer = Nothing, asked = {}
               PROVE  /\ "status" \in behind \/ shownStatus = status
                      /\ "tabs" \in behind \/ shownTabs = autoTabs
                      /\ "history" \in behind \/ Panel!IsPrefix(Panel!Reverse(history), rows)
    BY DEF ShowsTheWorker, Panel!ShowsTheWorker
  <2>1. ShowsNow /\ \A what : Quiet(broadcasts, 0, what)
    BY DEF ShowsNow, Quiet
  <2>2. ("status" \in behind \/ shownStatus = status) /\ ("tabs" \in behind \/ shownTabs = autoTabs)
    BY <2>1 DEF PanelInv, StatusFollows, TabsFollow
  <2>3. ASSUME "history" \notin behind
        PROVE  Panel!IsPrefix(Panel!Reverse(history), rows)
    <3>1. /\ history \in Seq(Panel!Entries) /\ rows \in Seq(Panel!Entries) /\ nextToolId \in Nat
          /\ Numbered(history, nextToolId) /\ Follows(<<>>, 0, rows, history, nextToolId)
      BY <2>1, <2>3 DEF PanelInv, PanelTypes, HistoryFollows
    <3> QED
      BY <3>1, FollowsAtRest
  <2> QED
    BY <2>2, <2>3
<1> QED
  BY <1>1, <1>2, <1>3, PTL DEF Spec
=============================================================================

---------------------------- MODULE TabListeners ----------------------------
(***************************************************************************)
(* What tools hold a debugger session to: network and console              *)
(* (tools/network.ts, console.ts) to the events they have subscribed to,   *)
(* network_intercept to its rules, coverage to its measurement.  What they *)
(* keep about the tab outlives the session, the session outlives the       *)
(* service worker, and neither is told of the other's end.  cdp.ts is      *)
(* modelled in DebuggerSession; here its calls are steps.                  *)
(***************************************************************************)
EXTENDS Naturals, Sequences

CONSTANTS
  Urls,          \* what rules and requests are about
  Events         \* the domains that tools subscribe to: "Network", "Runtime"

Domains == Events \union {"Fetch"}

VARIABLES
  (* the browser *)
  session,       \* "none", "on", or "lost" while a reattachment is due
  live,          \* the domains it has enabled
  caught,        \* the URLs whose requests Fetch pauses
  measured,      \* "js", "css": the coverage it measures
  (* cdp.ts *)
  known,         \* enabledDomains
  saved,         \* the domains written by persistState
  restoring,     \* what a reattachment at work has yet to enable again
  (* the tools *)
  rules,         \* network_intercept: the URLs with a rule
  subscribed,    \* the domains that console and network have subscribed to
  tracking,      \* coverage
  job,           \* the call at work: its kind, its URL or domain, its remaining steps
  (* observation *)
  sure,          \* what the tools have been assured of in this session
  lacking        \* the domains that the browser has refused to enable, or that were
                 \* not enabled again: a second loss or a stop cut that short

browserVars == <<session, live, caught, measured>>
recordVars == <<known, saved, restoring, lacking>>
vars == <<browserVars, recordVars, rules, subscribed, tracking, job, sure>>

NoJob == [kind |-> "none", of |-> "none", todo |-> <<>>]

(* network or console, network_intercept, wait_for, coverage. *)
Script(kind, x) ==
  CASE kind = "events" -> <<"attach", "subscribe">>
    [] kind = "mock"   -> <<"attach", "Fetch", "patterns">>
    [] kind = "clear"  -> <<"Fetch", "disable">>
    [] kind = "wait"   -> <<"attach", x>>
    [] kind = "start"  -> <<"attach", "js+", "css+">>
    [] kind = "stop"   -> <<"attach", "js-", "css-">>
Calls == ({"events", "wait"} \X Events) \union ({"mock"} \X Urls)
           \union ({"clear", "start", "stop"} \X {"none"})

TypeOK ==
  /\ session \in {"none", "on", "lost"}
  /\ live \subseteq Domains /\ known \subseteq Domains /\ saved \subseteq Domains
  /\ restoring \subseteq Domains /\ lacking \subseteq Domains
  /\ caught \subseteq Urls /\ rules \subseteq Urls /\ measured \subseteq {"js", "css"}
  /\ subscribed \subseteq Events /\ tracking \in BOOLEAN
  /\ job = NoJob \/ <<job.kind, job.of>> \in Calls
  /\ sure \subseteq Urls \union Events \union {"coverage"}

Init ==
  /\ session = "none" /\ live = {} /\ caught = {} /\ measured = {}
  /\ known = {} /\ saved = {} /\ rules = {} /\ subscribed = {} /\ tracking = FALSE
  /\ job = NoJob /\ sure = {} /\ restoring = {} /\ lacking = {}

-----------------------------------------------------------------------------
(* The session. *)

(* A reattachment at work ends: enableDomain notes the domain whose command  *)
(* fails, and the next ones until onDetach has been told; then it throws.    *)
Lose ==
  /\ session = "on" /\ session' = "lost"
  /\ live' = {} /\ caught' = {} /\ measured' = {} /\ sure' = sure \ {"coverage"}
  /\ \E reached \in SUBSET restoring :
       /\ restoring # {} => reached # {}
       /\ known' = known \union reached
       /\ lacking' = lacking \union (restoring \ reached)
  /\ restoring' = {}
  /\ UNCHANGED <<saved, rules, subscribed, tracking, job>>

(* The record is emptied; its domains are enabled one by one, and what has   *)
(* been enabled is saved after the last.                                     *)
Reattach ==
  /\ session = "lost" /\ session' = "on"
  /\ known' = {} /\ restoring' = known
  /\ saved' = IF known = {} THEN {} ELSE saved
  /\ UNCHANGED <<live, caught, measured, lacking, rules, subscribed, tracking, job, sure>>

(* enableDomain: a domain that is refused is noted as well. Fetch without    *)
(* patterns pauses all.                                                      *)
EnableDomain(d) ==
  \/ d \in known /\ UNCHANGED <<known, live, caught, lacking>>
  \/ /\ d \notin known /\ known' = known \union {d}
     /\ \/ /\ live' = live \union {d} /\ lacking' = lacking \ {d}
           /\ caught' = IF d = "Fetch" THEN Urls ELSE caught
        \/ lacking' = lacking \union {d} /\ UNCHANGED <<live, caught>>

Restore(d) ==
  /\ d \in restoring /\ EnableDomain(d)
  /\ restoring' = restoring \ {d}
  /\ saved' = IF restoring = {d} THEN known' ELSE saved
  /\ UNCHANGED <<session, measured, rules, subscribed, tracking, job, sure>>

(* Cancelled by the user, detached, or not to be had back. *)
End ==
  /\ session # "none" /\ session' = "none"
  /\ live' = {} /\ caught' = {} /\ measured' = {}
  /\ known' = {} /\ saved' = {} /\ restoring' = {} /\ lacking' = {} /\ sure' = {}
  /\ UNCHANGED <<rules, subscribed, tracking, job>>

(* The worker is stopped while no tool is at work, and the session outlives  *)
(* it: what the tools keep is lost, and of the session is known what was     *)
(* saved at its start or when it was last had back, be that enabled or not.  *)
WorkerStops ==
  /\ job = NoJob /\ session = "on"
  /\ known' = saved /\ restoring' = {} /\ lacking' = saved \ live
  /\ rules' = {} /\ subscribed' = {} /\ tracking' = FALSE /\ sure' = {}
  /\ UNCHANGED <<browserVars, saved, job>>

-----------------------------------------------------------------------------
(* The tools. *)

(* A rule is listed before it is in force, and is off the list before        *)
(* "clear" has disabled anything, if it can.                                 *)
Call(kind, x) ==
  /\ job = NoJob
  /\ job' = IF kind = "clear" /\ session # "on" THEN NoJob
            ELSE [kind |-> kind, of |-> x, todo |-> Script(kind, x)]
  /\ rules' = CASE kind = "mock" -> rules \union {x}
                [] kind = "clear" -> {}
                [] OTHER -> rules
  /\ sure' = IF kind = "clear" THEN sure \ Urls ELSE sure
  /\ UNCHANGED <<browserVars, recordVars, subscribed, tracking>>

Doing(step) == job.todo # <<>> /\ Head(job.todo) = step
Done == IF Len(job.todo) = 1 THEN NoJob ELSE [job EXCEPT !.todo = Tail(@)]

(* A session that is to be had back is replaced; to stop a coverage that is  *)
(* not on record ends here.                                                  *)
Attach ==
  /\ Doing("attach")
  /\ job' = IF job.kind = "stop" /\ ~tracking THEN NoJob ELSE Done
  /\ IF session = "on" THEN UNCHANGED <<session, recordVars, sure>>
     ELSE /\ session' = "on"
          /\ known' = {} /\ saved' = {} /\ restoring' = {} /\ lacking' = {} /\ sure' = {}
  /\ UNCHANGED <<live, caught, measured, rules, subscribed, tracking>>

(* enableDomain of wait_for, or of sendCommand before the first command. *)
Enable(d) ==
  /\ Doing(d) /\ session = "on" /\ job' = Done
  /\ EnableDomain(d)
  /\ UNCHANGED <<session, measured, saved, restoring, rules, subscribed, tracking, sure>>

(* The first call for the tab subscribes, later ones go by that. *)
Subscribe ==
  LET d == job.of IN
  /\ Doing("subscribe") /\ job' = Done
  /\ IF d \in subscribed THEN UNCHANGED <<known, live, caught, lacking, subscribed, sure>>
     ELSE /\ session = "on" /\ EnableDomain(d)
          /\ subscribed' = subscribed \union {d} /\ sure' = sure \union {d}
  /\ UNCHANGED <<session, measured, saved, restoring, rules, tracking>>

(* Slip: only the pattern of the new rule is given. *)
Patterns_new ==
  /\ Doing("patterns") /\ session = "on" /\ "Fetch" \in known /\ job' = Done
  /\ live' = live \union {"Fetch"} /\ lacking' = lacking \ {"Fetch"} /\ caught' = {job.of}
  /\ sure' = sure \union (rules \intersect {job.of})
  /\ UNCHANGED <<session, measured, known, saved, restoring, rules, subscribed, tracking>>

(* enableFetch, with the patterns of all rules; sendCommand sends it when the domain is known. *)
Patterns ==
  /\ Doing("patterns") /\ session = "on" /\ "Fetch" \in known /\ job' = Done
  /\ live' = live \union {"Fetch"} /\ lacking' = lacking \ {"Fetch"} /\ caught' = rules
  /\ sure' = sure \union rules
  /\ UNCHANGED <<session, measured, known, saved, restoring, rules, subscribed, tracking>>

(* Fetch.disable; the domain stays among the known ones. *)
Disable ==
  /\ Doing("disable") /\ session = "on" /\ job' = Done
  /\ live' = live \ {"Fetch"} /\ caught' = {}
  /\ UNCHANGED <<session, measured, recordVars, rules, subscribed, tracking, sure>>

Measure(what, step) ==
  /\ Doing(step) /\ session = "on" /\ job' = Done
  /\ measured' = measured \union {what}
  /\ IF what = "js" THEN UNCHANGED <<tracking, sure>>
     ELSE tracking' = TRUE /\ sure' = IF "js" \in measured THEN sure \union {"coverage"} ELSE sure
  /\ UNCHANGED <<session, live, caught, recordVars, rules, subscribed>>

(* The browser refuses to stop what it has not started. *)
StopMeasure(what, step) ==
  /\ Doing(step) /\ session = "on" /\ what \in measured /\ job' = Done
  /\ measured' = measured \ {what} /\ sure' = sure \ {"coverage"}
  /\ tracking' = (what = "js")
  /\ UNCHANGED <<session, live, caught, recordVars, rules, subscribed>>

(* A command fails, and with it the call; "clear" passes over that. *)
Fail ==
  /\ job # NoJob /\ job' = NoJob
  /\ UNCHANGED <<browserVars, recordVars, rules, subscribed, tracking, sure>>

Next ==
  \/ Lose \/ Reattach \/ End \/ WorkerStops
  \/ \E c \in Calls : Call(c[1], c[2])
  \/ Attach \/ Subscribe \/ Patterns \/ Disable \/ Fail
  \/ \E d \in Domains : Enable(d) \/ Restore(d)
  \/ Measure("js", "js+") \/ Measure("css", "css+")
  \/ StopMeasure("js", "js-") \/ StopMeasure("css", "css-")

Spec == Init /\ [][Next]_vars

-----------------------------------------------------------------------------
(* While a session lasts, though it be lost and had back, what it was asked  *)
(* for is in force: a tool that has subscribed is told, a rule that was      *)
(* reported as added and is not cleared pauses its requests, and coverage is *)
(* measured unless the session has been lost.  A domain that a reattachment  *)
(* has yet to come to is excused, and one that is lacking: refused, or left  *)
(* out of the record by a loss before the reattachment came to it.           *)
InForce ==
  session = "on" =>
    /\ subscribed \intersect sure \subseteq live \union restoring \union lacking
    /\ "Fetch" \notin restoring \union lacking => rules \intersect sure \subseteq caught
    /\ "coverage" \in sure => measured = {"js", "css"}

=============================================================================

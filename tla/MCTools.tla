------------------------------ MODULE MCTools -------------------------------
(***************************************************************************)
(* Tools for TLC: View leaves out the components that do not move, and of  *)
(* the refs those told before the last tree and the target of a tool that  *)
(* has acted, which no property asks for.  Of the two URLs and of the two  *)
(* names it says what is known of them, not which is which.                *)
(***************************************************************************)
EXTENDS Tools

(* Not scaled, wide and tall. *)
MCSizes == {<<1280, 800>>, <<2560, 1440>>, <<390, 1800>>}

Works == work.kind # "none"
Copied(copy, n) == IF copy = Absent THEN Absent ELSE copy[n]

(* The others are as they were at the start. *)
Moving ==
  CASE component = "refs" -> <<parent, look, script, mark, listed, call, current,
                               IF current THEN told ELSE told # {},
                               IF current /\ call = "act" THEN target.ref ELSE 0>>
    [] component = "input" -> inputVars
    [] component = "listeners" ->
         <<session, live, known, saved, restoring, lacking, subscribed, measured, tracking,
           sure \ Urls, job.kind, job.todo, {job.of} \ Urls,
           {<<u \in caught, u \in rules, u \in sure, u = job.of>> : u \in Urls}>>
    [] component = "traffic" -> trafficVars
    [] component = "macro" ->
         <<recording, IF Works THEN <<work.kind, work.steps, work.todo>> ELSE None,
           {<<stored[n], n \in alarms, assured[n], n \in torn,
              IF Works THEN <<work.name = n, Copied(work.copy, n)>> ELSE None,
              IF run # Absent THEN <<run.name = n, Copied(run.copy, n)>> ELSE None>> : n \in Names}>>
    [] component = "gif" -> gifVars
    [] component = "panel" -> panelVars
View == <<component, Moving>>

=============================================================================

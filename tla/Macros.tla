------------------------------- MODULE Macros -------------------------------
(***************************************************************************)
(* The macro tool (tools/macro.ts, content-scripts/macroRecorder.ts).  All *)
(* macros are one entry of chrome.storage.local, which every action loads, *)
(* changes in its copy and saves as a whole.  Calls take turns, but a      *)
(* scheduled run, started by an alarm, takes turns with nobody: it holds   *)
(* its copy for as long as the replay takes, and saves it at the end.      *)
(***************************************************************************)
EXTENDS Naturals, Sequences

CONSTANTS
  Names,      \* of macros
  Absent      \* no macro, no recording

VARIABLES
  stored,     \* the entry in storage: of each name its macro
  alarms,     \* the names with an alarm
  recording,  \* whether there are "steps" in the buffer of the tab that is recorded
  work,       \* the call at work: kind, name, steps to save, its copy, what it has to do
  run,        \* the scheduled run at work: its name and its copy
  (* observations *)
  assured,    \* of each name, what the client was told last
  torn        \* names whose last call has failed, or whose entry a run has put back

vars == <<stored, alarms, recording, work, run, assured, torn>>

(* What was recorded, and whether it has a period; how many steps there are, *)
(* 200 at most, and the outcome of the last run are left out.                *)
Recorded == {"empty", "steps"}
Macro == [steps : Recorded, scheduled : BOOLEAN]
NoWork == [kind |-> "none"]

Script(kind) ==
  CASE kind = "record_stop" -> <<"load", "save">>
    [] kind = "delete"      -> <<"load", "save", "clear">>
    [] kind = "schedule"    -> <<"load", "save", "create">>
    [] kind = "unschedule"  -> <<"clear", "load", "save">>
    [] kind = "replay"      -> <<"load", "replay">>      \* get and list as well
Kinds == {"record_stop", "delete", "schedule", "unschedule", "replay"}

TypeOK ==
  /\ stored \in [Names -> Macro \union {Absent}] /\ alarms \subseteq Names
  /\ recording \in {Absent} \union Recorded
  /\ work = NoWork \/ (work.kind \in Kinds /\ work.name \in Names)
  /\ torn \subseteq Names

Init ==
  /\ stored = [n \in Names |-> Absent] /\ alarms = {} /\ recording = Absent
  /\ work = NoWork /\ run = Absent
  /\ assured = [n \in Names |-> Absent] /\ torn = {}

-----------------------------------------------------------------------------
(* Recording. *)

(* The page that is there is the first step; if the recorder cannot be       *)
(* injected, the call fails and the recording goes on.                       *)
RecordStart ==
  /\ work = NoWork /\ recording' \in Recorded
  /\ UNCHANGED <<stored, alarms, work, run, assured, torn>>

(* A click, a change or a navigation. *)
RecordStep ==
  /\ recording # Absent /\ recording' = "steps"
  /\ UNCHANGED <<stored, alarms, work, run, assured, torn>>

-----------------------------------------------------------------------------
(* The calls. *)

Call(kind, n) ==
  /\ work = NoWork
  /\ work' = [kind |-> kind, name |-> n, copy |-> Absent, todo |-> Script(kind),
             steps |-> IF kind # "record_stop" \/ recording = Absent THEN "empty" ELSE recording]
  /\ recording' = IF kind = "record_stop" THEN Absent ELSE recording
  /\ torn' = IF kind \in {"record_stop", "delete"} THEN torn \ {n} ELSE torn
  /\ UNCHANGED <<stored, alarms, run, assured>>

(* Slip: the period stays with a macro that is unscheduled. *)
Change_keepsPeriod(kind, copy, n, steps) ==
  CASE kind = "record_stop" -> [copy EXCEPT ![n] = [steps |-> steps, scheduled |-> FALSE]]
    [] kind = "delete"      -> [copy EXCEPT ![n] = Absent]
    [] kind = "schedule"    -> [copy EXCEPT ![n].scheduled = TRUE]
    [] OTHER                -> copy

(* What a call saves: a macro that is recorded anew is not scheduled. *)
Change(kind, copy, n, steps) ==
  CASE kind = "record_stop" -> [copy EXCEPT ![n] = [steps |-> steps, scheduled |-> FALSE]]
    [] kind = "delete"      -> [copy EXCEPT ![n] = Absent]
    [] kind = "schedule"    -> [copy EXCEPT ![n].scheduled = TRUE]
    [] kind = "unschedule"  -> IF copy[n] = Absent THEN copy ELSE [copy EXCEPT ![n].scheduled = FALSE]
    [] OTHER                -> copy

Doing(step) == work # NoWork /\ Head(work.todo) = step

(* What the client is told when the last step is done. *)
Promise(n) ==
  CASE work.kind = "delete" -> Absent
    [] work.kind \in {"schedule", "unschedule"} ->
         IF assured[n] = Absent THEN Absent ELSE [assured[n] EXCEPT !.scheduled = (work.kind = "schedule")]
    [] work.kind = "record_stop" -> [steps |-> work.steps, scheduled |-> FALSE]
    [] OTHER -> assured[n]

(* The assurances about names that are torn are worth nothing. *)
Tear(names, given) ==
  /\ torn' = torn \union names
  /\ assured' = [n \in Names |-> IF n \in torn \union names THEN Absent ELSE given[n]]

Done(copy) ==
  IF Len(work.todo) > 1
  THEN work' = [work EXCEPT !.todo = Tail(@), !.copy = copy] /\ UNCHANGED <<assured, torn>>
  ELSE /\ work' = NoWork
       /\ LET given == [assured EXCEPT ![work.name] = Promise(work.name)] IN
          IF work.kind = "record_stop" /\ work.name \in alarms
          THEN Tear({work.name}, given) ELSE assured' = given /\ torn' = torn

(* There is nothing to schedule or to replay under a name without a macro. *)
Load ==
  /\ Doing("load")
  /\ IF work.kind \in {"schedule", "replay"} /\ stored[work.name] = Absent
     THEN work' = NoWork /\ UNCHANGED <<assured, torn>>
     ELSE Done(Change(work.kind, stored, work.name, work.steps))
  /\ UNCHANGED <<stored, alarms, recording, run>>

(* There is nothing to save when there was nothing to unschedule. *)
Save ==
  /\ Doing("save")
  /\ stored' = IF work.kind = "unschedule" /\ work.copy[work.name] = Absent THEN stored ELSE work.copy
  /\ Done(Absent)
  /\ UNCHANGED <<alarms, recording, run>>

SetAlarm ==
  /\ Doing("clear") \/ Doing("create")
  /\ alarms' = IF Doing("create") THEN alarms \union {work.name} ELSE alarms \ {work.name}
  /\ Done(work.copy)
  /\ UNCHANGED <<stored, recording, run>>

(* The steps go to the tab, failed ones as well. *)
Replay ==
  /\ Doing("replay") /\ Done(work.copy)
  /\ UNCHANGED <<stored, alarms, recording, run>>

(* Storage or alarms refuse. *)
Fail ==
  /\ work # NoWork /\ work' = NoWork
  /\ Tear(IF work.kind = "replay" THEN {} ELSE {work.name}, assured)
  /\ UNCHANGED <<stored, alarms, recording, run>>

-----------------------------------------------------------------------------
(* Scheduled runs. *)

(* runScheduled: an alarm without a macro, or one that starts nowhere, does  *)
(* nothing.  Bound: one run at a time.                                       *)
Alarm(n) ==
  /\ n \in alarms /\ run = Absent /\ stored[n] # Absent /\ stored[n].steps = "steps"
  /\ run' = [name |-> n, copy |-> stored]
  /\ UNCHANGED <<stored, alarms, recording, work, assured, torn>>

(* The entry is saved as it was at the alarm, whatever the run came to.      *)
RunEnds ==
  /\ run # Absent /\ run' = Absent
  /\ stored' = run.copy
  /\ Tear({n \in Names : stored[n] # run.copy[n]}, assured)
  /\ UNCHANGED <<alarms, recording, work>>

(* The worker stops with its buffer and its run, but not while a call is    *)
(* at work.                                                                  *)
WorkerStops ==
  /\ work = NoWork /\ recording' = Absent /\ run' = Absent
  /\ UNCHANGED <<stored, alarms, work, assured, torn>>

Next ==
  \/ RecordStart \/ RecordStep
  \/ \E kind \in Kinds, n \in Names : Call(kind, n)
  \/ Load \/ Save \/ SetAlarm \/ Replay \/ Fail \/ WorkerStops
  \/ RunEnds \/ \E n \in Names : Alarm(n)

Spec == Init /\ [][Next]_vars

-----------------------------------------------------------------------------
(* Between calls, what the client was told of a macro is what is stored, and *)
(* an alarm is set for just the macros that are stored as scheduled: if no   *)
(* call has failed on it, if it was not recorded anew while it was scheduled,*)
(* and if no run has put back an entry from before the call.                 *)
StoreIsTrue ==
  work = NoWork => \A n \in Names \ torn :
    /\ (stored[n] = Absent) = (assured[n] = Absent)
    /\ stored[n] # Absent =>
         stored[n].steps = assured[n].steps /\ stored[n].scheduled = assured[n].scheduled
    /\ (n \in alarms) = (stored[n] # Absent /\ stored[n].scheduled)

=============================================================================

---------------------------- MODULE TabRequests -----------------------------
(***************************************************************************)
(* The requests of a page as the tools are told of them: the table that    *)
(* network keeps (tools/network.ts), the requests in flight that wait_for  *)
(* counts (waitFor.ts), and those that network_intercept is to answer      *)
(* (networkIntercept.ts).  Events come while the Network domain is live in *)
(* a session of the tab; TabListeners says when that is.                   *)
(***************************************************************************)
EXTENDS Naturals, Sequences, FiniteSets

CONSTANTS
  Pages,         \* what is requested; a request and its redirections share the id
  MaxEntries,    \* requests kept, MAX_REQUESTS_PER_TAB
  MaxCount       \* bound: requests counted as in flight

VARIABLES
  telling,       \* events of the Network domain are sent
  pausing,       \* Fetch pauses requests
  ruled,         \* the requests that a rule of network_intercept matches
  load,          \* of each request: "no", "paused" or "sent"
  table, index,  \* network: the requests kept, and the ids with an entry to complete
  inflight,      \* wait_for: requests counted
  waiting,       \* wait_for is at work on network_idle
  (* observations *)
  seen,          \* requests in flight whose start was told of
  odd            \* ids of whose legs the first was trimmed; "end" after the end
                 \* of a request whose start was not told of

toolVars == <<table, index, inflight>>
vars == <<telling, pausing, ruled, load, toolVars, waiting, seen, odd>>

TypeOK ==
  /\ telling \in BOOLEAN /\ pausing \in BOOLEAN /\ waiting \in BOOLEAN
  /\ ruled \subseteq Pages /\ index \subseteq Pages /\ seen \subseteq Pages
  /\ load \in [Pages -> {"no", "paused", "sent"}]
  /\ table \in Seq([id : Pages, got : BOOLEAN, answered : BOOLEAN]) /\ Len(table) <= MaxEntries
  /\ inflight \in 0..MaxCount /\ odd \subseteq Pages \union {"end"}

Init ==
  /\ telling = FALSE /\ pausing = FALSE /\ ruled = {} /\ waiting = FALSE
  /\ load = [p \in Pages |-> "no"]
  /\ table = <<>> /\ index = {} /\ inflight = 0 /\ seen = {} /\ odd = {}

-----------------------------------------------------------------------------
(* Slip: the index keeps the entry that an id has. *)
HandleRequest_first(p) ==
  LET grown == Append(table, [id |-> p, got |-> FALSE, answered |-> FALSE])
      over  == Len(grown) > MaxEntries IN
  /\ table' = IF over THEN Tail(grown) ELSE grown
  /\ index' = IF \E i \in 1..Len(table) : table[i].id = p THEN index \ {p} ELSE index \union {p}
  /\ odd' = odd

(* handleRequest: the new entry takes the place of an earlier one of the id  *)
(* in the index, and loses it when that one is trimmed.                      *)
HandleRequest(p) ==
  LET grown == Append(table, [id |-> p, got |-> FALSE, answered |-> FALSE])
      over  == Len(grown) > MaxEntries
      first == Head(grown).id IN
  /\ table' = IF over THEN Tail(grown) ELSE grown
  /\ index' = (index \union {p}) \ (IF over THEN {first} ELSE {})
  /\ odd' = IF over /\ \E i \in 2..Len(grown) : grown[i].id = first
            THEN odd \union {first} ELSE odd \ ({p} \ {table[i].id : i \in 1..Len(table)})

(* requestWillBeSent, for a new request and again for its redirection. *)
WillBeSent(p) ==
  /\ load' = [load EXCEPT ![p] = IF pausing THEN "paused" ELSE "sent"]
  /\ IF telling
     THEN /\ inflight < MaxCount /\ inflight' = inflight + 1
          /\ HandleRequest(p) /\ seen' = seen \union {p}
     ELSE UNCHANGED <<toolVars, seen, odd>>
  /\ UNCHANGED <<telling, pausing, ruled, waiting>>

Begin(p) == load[p] = "no" /\ WillBeSent(p)
Redirect(p) == load[p] = "sent" /\ WillBeSent(p)

(* handleResponse and handleFailure: the entry of the index is completed,    *)
(* which is the last of its id.                                              *)
Complete(p) ==
  LET at == {i \in 1..Len(table) : table[i].id = p}
      last == CHOOSE i \in at : \A j \in at : j <= i IN
  table' = IF telling /\ at # {}
           THEN [table EXCEPT ![last].got = @ \/ p \in index, ![last].answered = TRUE]
           ELSE table

Respond(p) ==
  /\ load[p] = "sent" /\ Complete(p)
  /\ UNCHANGED <<telling, pausing, ruled, load, index, inflight, waiting, seen, odd>>

(* loadingFinished or loadingFailed: the count does not go below zero. *)
Finish(p) ==
  /\ load' = [load EXCEPT ![p] = "no"] /\ seen' = seen \ {p} /\ Complete(p)
  /\ inflight' = IF telling /\ inflight > 0 THEN inflight - 1 ELSE inflight
  /\ odd' = IF telling /\ p \notin seen THEN odd \union {"end"} ELSE odd
  /\ UNCHANGED <<telling, pausing, ruled, index, waiting>>

Loaded(p) == load[p] = "sent" /\ Finish(p)

(* handlePaused: a rule's answer, or none; a failure to give it is one, too. *)
HandlePaused(p) ==
  /\ load[p] = "paused"
  /\ \/ p \in ruled /\ Finish(p)
     \/ /\ load' = [load EXCEPT ![p] = "sent"]
        /\ UNCHANGED <<telling, pausing, ruled, toolVars, waiting, seen, odd>>

-----------------------------------------------------------------------------
(* network: what is kept is returned, and forgotten if so asked. *)
Clear ==
  /\ table' = <<>> /\ index' = {} /\ odd' = odd \ Pages
  /\ UNCHANGED <<telling, pausing, ruled, load, inflight, waiting, seen>>

(* wait_for enables the Network domain and polls. *)
Wait ==
  /\ ~waiting /\ waiting' = TRUE /\ telling' = TRUE
  /\ UNCHANGED <<pausing, ruled, load, toolVars, seen, odd>>

Poll(timeout) ==
  /\ waiting /\ waiting' = FALSE
  /\ timeout \/ inflight = 0
  /\ UNCHANGED <<telling, pausing, ruled, load, toolVars, seen, odd>>

(* network_intercept: a rule is added, all are cleared. *)
Mock(p) ==
  /\ ruled' = ruled \union {p} /\ pausing' = TRUE
  /\ UNCHANGED <<telling, load, toolVars, waiting, seen, odd>>

Unpaused == load' = [p \in Pages |-> IF load[p] = "paused" THEN "sent" ELSE load[p]]
Unmock ==
  /\ ruled' = {} /\ pausing' = FALSE /\ Unpaused
  /\ UNCHANGED <<telling, toolVars, waiting, seen, odd>>

(* The session begins to tell, or is lost: what is paused goes on. *)
Session(on) ==
  /\ telling' = on
  /\ IF on THEN UNCHANGED <<pausing, load>> ELSE pausing' = FALSE /\ Unpaused
  /\ UNCHANGED <<ruled, toolVars, waiting, seen, odd>>

Next ==
  \/ \E p \in Pages : Begin(p) \/ Redirect(p) \/ Respond(p) \/ Loaded(p) \/ HandlePaused(p) \/ Mock(p)
  \/ Clear \/ Wait \/ Unmock
  \/ \E flag \in BOOLEAN : Poll(flag) \/ Session(flag)

Spec == Init /\ [][Next]_vars

-----------------------------------------------------------------------------
(* Of a request that is kept, the last leg has its answer once it is there,  *)
(* unless the entry of an earlier leg has been trimmed in the meantime.      *)
AnswersAreKept ==
  \A i \in 1..Len(table) :
    (table[i].answered /\ table[i].id \notin odd) => table[i].got

(* wait_for does not take the network for idle while a request is in flight  *)
(* whose start it was told of, if every end it was told of is of such a one. *)
IdleIsIdle == "end" \notin odd => inflight >= Cardinality(seen)

=============================================================================

--------------------------- MODULE SerialDispatch ---------------------------
(***************************************************************************)
(* What the SERVER gateway promises its callers about tool requests,       *)
(* whatever queue and transport it is built from: every request gets one   *)
(* verdict, at most one request runs at a time, and requests start in the  *)
(* order in which they were accepted.  RequestQueue implements it.         *)
(***************************************************************************)
EXTENDS Naturals

CONSTANT Requests

VARIABLES
  state,    \* what the caller of each request can observe
  arrival   \* acceptance order; 0 while the request has not been accepted

vars == <<state, arrival>>

States == {"unissued", "waiting", "running", "resolved", "rejected"}

In(s) == {r \in Requests : state[r] = s}

Init ==
  /\ state = [r \in Requests |-> "unissued"]
  /\ arrival = [r \in Requests |-> 0]

(* The gateway refuses r at once, without ever queueing it. *)
Refuse(r) ==
  /\ state[r] = "unissued"
  /\ state' = [state EXCEPT ![r] = "rejected"]
  /\ UNCHANGED arrival

(* r is accepted behind everything accepted before it, and starts at once   *)
(* only if nothing is running or waiting.                                   *)
Accept(r) ==
  /\ state[r] = "unissued"
  /\ \E now \in {"waiting", "running"} :
       /\ now = "running" => In("running") \union In("waiting") = {}
       /\ state' = [state EXCEPT ![r] = now]
  /\ arrival'[r] \in Nat
  /\ \A s \in Requests : arrival[s] < arrival'[r]
  /\ arrival' = [arrival EXCEPT ![r] = arrival'[r]]

(* The oldest waiting request starts. *)
Start(r) ==
  /\ In("running") = {}
  /\ r \in In("waiting")
  /\ \A s \in In("waiting") : arrival[r] <= arrival[s]
  /\ state' = [state EXCEPT ![r] = "running"]
  /\ UNCHANGED arrival

Succeed(r) ==
  /\ state[r] = "running"
  /\ state' = [state EXCEPT ![r] = "resolved"]
  /\ UNCHANGED arrival

Fail(r) ==
  /\ state[r] = "running"
  /\ state' = [state EXCEPT ![r] = "rejected"]
  /\ UNCHANGED arrival

(* The extension is gone: everything accepted and unanswered is rejected.   *)
FailAll ==
  /\ state' = [r \in Requests |->
                 IF state[r] \in {"waiting", "running"} THEN "rejected" ELSE state[r]]
  /\ UNCHANGED arrival

Next ==
  \/ \E r \in Requests : Refuse(r) \/ Accept(r) \/ Start(r) \/ Succeed(r) \/ Fail(r)
  \/ FailAll

Spec == Init /\ [][Next]_vars

=============================================================================

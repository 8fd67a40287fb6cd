---------------------------- MODULE RequestQueue ----------------------------
(***************************************************************************)
(* gateway/src/requestQueue.ts: RequestQueueTransport, the FIFO queue that *)
(* the SERVER gateway puts in front of its single WebSocket bridge.        *)
(*                                                                         *)
(* The queue calls an underlying BrowserTransport.  Its side of that       *)
(* interface is two variables: `connected', which it reads, and `promise', *)
(* the promise each transport call returned.  A queue action changes only  *)
(* the queue's own variables; here it is conjoined with the reaction of an *)
(* arbitrary transport, in ToolDispatch with that of the WebSocket bridge. *)
(*                                                                         *)
(* The callbacks of processNext's `.then/.catch/.finally' chain run as     *)
(* microtasks; each is an action.  The model lets any other step come      *)
(* between them: callers resume there, disconnect() is called from such    *)
(* continuations, and one socket read may deliver several frames.          *)
(***************************************************************************)
EXTENDS Naturals, Sequences, Functions

CONSTANTS
  Requests,   \* one element per call of sendToolRequest
  NoRequest   \* activeRequest = null

ASSUME NoRequestAssumption == NoRequest \notin Requests

VARIABLES
  queue,          \* requests accepted and not yet handed to the transport
  activeRequest,  \* the request the transport is working on
  disconnected,   \* set by disconnect(), cleared by connect()
  outcome,        \* what the caller's promise shows
  reaction,       \* progress of the callback chain processNext attached
  accepted,       \* history: number of requests accepted so far
  arrival,        \* history: acceptance number of each request, 0 for none
  connected,      \* interface: transport.connected
  promise         \* interface: the transport's promise for each request

queueVars == <<queue, activeRequest, disconnected, outcome, reaction,
               accepted, arrival>>
transportVars == <<connected, promise>>
vars == <<queueVars, transportVars>>

Outcomes == {"unissued", "waiting", "resolved", "rejected", "settledTwice"}
Reactions == {"none", "attached", "handled", "done"}
Promises == {"none", "pending", "fulfilled", "rejected"}

-----------------------------------------------------------------------------
Init ==
  /\ queue = <<>>
  /\ activeRequest = NoRequest
  /\ disconnected = FALSE
  /\ outcome = [r \in Requests |-> "unissued"]
  /\ reaction = [r \in Requests |-> "none"]
  /\ accepted = 0
  /\ arrival = [r \in Requests |-> 0]
  /\ connected \in BOOLEAN
  /\ promise = [r \in Requests |-> "none"]

(* resolveRequest and rejectRequest set `settled' and call the caller's     *)
(* resolve or reject.  A second call for one request would be lost in the   *)
(* caller's promise; it is recorded here.                                   *)
Settle(out, rs, verdict) ==
  [r \in Requests |->
     IF r \notin rs THEN out[r]
     ELSE IF out[r] = "waiting" THEN verdict ELSE "settledTwice"]

Settled(r) == outcome[r] \notin {"unissued", "waiting"}

(* Slips of processNext: without the guard on activeRequest; popping the     *)
(* newest request instead of shifting the oldest.                            *)
ProcessNext_concurrent(q, active, out, chain) ==
  /\ outcome' = out
  /\ IF disconnected \/ q = <<>> \/ ~connected
     THEN queue' = q /\ activeRequest' = active /\ reaction' = chain
     ELSE /\ queue' = Tail(q) /\ activeRequest' = Head(q)
          /\ reaction' = [chain EXCEPT ![Head(q)] = "attached"]

ProcessNext_pops(q, active, out, chain) ==
  /\ outcome' = out
  /\ IF active # NoRequest \/ disconnected \/ q = <<>> \/ ~connected
     THEN queue' = q /\ activeRequest' = active /\ reaction' = chain
     ELSE LET last == q[Len(q)] IN
          /\ queue' = SubSeq(q, 1, Len(q) - 1) /\ activeRequest' = last
          /\ reaction' = [chain EXCEPT ![last] = "attached"]

(* processNext, entered with the given queue, active request, outcomes and  *)
(* callback chains.  Shifting the queue while the transport is connected    *)
(* hands the head to the transport.                                         *)
ProcessNext(q, active, out, chain) ==
  \/ /\ active # NoRequest \/ disconnected \/ q = <<>>
     /\ queue' = q
     /\ activeRequest' = active
     /\ outcome' = out
     /\ reaction' = chain
  \/ /\ active = NoRequest /\ ~disconnected /\ q # <<>>
     /\ ~connected
     /\ queue' = <<>>
     /\ activeRequest' = NoRequest
     /\ outcome' = Settle(out, Range(q), "rejected")
     /\ reaction' = chain
  \/ /\ active = NoRequest /\ ~disconnected /\ q # <<>>
     /\ connected
     /\ queue' = Tail(q)
     /\ activeRequest' = Head(q)
     /\ outcome' = out
     /\ reaction' = [chain EXCEPT ![Head(q)] = "attached"]

(* The request this step hands to the transport, if any. *)
HandedOver == {r \in Requests : reaction[r] = "none" /\ reaction'[r] = "attached"}

-----------------------------------------------------------------------------
Connect ==
  /\ disconnected' = FALSE
  /\ UNCHANGED <<queue, activeRequest, outcome, reaction, accepted, arrival>>

SendToolRequest(r) ==
  /\ outcome[r] = "unissued"
  /\ UNCHANGED disconnected
  /\ \/ /\ disconnected \/ ~connected
        /\ outcome' = [outcome EXCEPT ![r] = "rejected"]
        /\ UNCHANGED <<queue, activeRequest, reaction, accepted, arrival>>
     \/ /\ ~disconnected /\ connected
        /\ accepted' = accepted + 1
        /\ arrival' = [arrival EXCEPT ![r] = accepted + 1]
        /\ ProcessNext(Append(queue, r), activeRequest,
                       [outcome EXCEPT ![r] = "waiting"], reaction)

(* Slip: the queued requests are rejected but stay in the queue. *)
Disconnect_keepsQueue ==
  /\ disconnected' = TRUE
  /\ outcome' = Settle(outcome, {r \in Requests : outcome[r] = "waiting"}, "rejected")
  /\ UNCHANGED <<queue, activeRequest, reaction, accepted, arrival>>

(* disconnect(): the active request is rejected unless it was settled; its  *)
(* callback chain still runs.                                               *)
Disconnect ==
  LET active == {r \in {activeRequest} \ {NoRequest} : ~Settled(r)}
  IN  /\ disconnected' = TRUE
      /\ queue' = <<>>
      /\ outcome' = Settle(outcome, active \union Range(queue), "rejected")
      /\ UNCHANGED <<activeRequest, reaction, accepted, arrival>>

(* .then *)
Then(r) ==
  /\ reaction[r] = "attached" /\ promise[r] = "fulfilled"
  /\ reaction' = [reaction EXCEPT ![r] = "handled"]
  /\ outcome' = IF Settled(r) THEN outcome ELSE Settle(outcome, {r}, "resolved")
  /\ UNCHANGED <<queue, activeRequest, disconnected, accepted, arrival>>

(* .catch: with the extension gone the whole queue is rejected too. *)
Catch(r) ==
  /\ reaction[r] = "attached" /\ promise[r] = "rejected"
  /\ reaction' = [reaction EXCEPT ![r] = "handled"]
  /\ LET own    == IF Settled(r) THEN {} ELSE {r}
         others == IF connected THEN {} ELSE Range(queue)
     IN  outcome' = Settle(outcome, own \union others, "rejected")
  /\ queue' = IF connected THEN queue ELSE <<>>
  /\ UNCHANGED <<activeRequest, disconnected, accepted, arrival>>

(* Slip: .finally frees the slot but does not call processNext. *)
Finally_stops(r) ==
  /\ reaction[r] = "handled"
  /\ activeRequest' = IF activeRequest = r THEN NoRequest ELSE activeRequest
  /\ reaction' = [reaction EXCEPT ![r] = "done"]
  /\ UNCHANGED <<queue, outcome, disconnected, accepted, arrival>>

(* .finally *)
Finally(r) ==
  /\ reaction[r] = "handled"
  /\ ProcessNext(queue, IF activeRequest = r THEN NoRequest ELSE activeRequest,
                 outcome, [reaction EXCEPT ![r] = "done"])
  /\ UNCHANGED <<disconnected, accepted, arrival>>

-----------------------------------------------------------------------------
(* An arbitrary transport: what it does when the queue calls it ...         *)
Called ==
  /\ \E p \in {"pending", "rejected"} :
       promise' = [r \in Requests |-> IF r \in HandedOver THEN p ELSE promise[r]]
  /\ UNCHANGED connected

Disconnecting ==
  /\ connected' = FALSE
  /\ \E given \in SUBSET {r \in Requests : promise[r] = "pending"} :
       promise' = [r \in Requests |-> IF r \in given THEN "rejected" ELSE promise[r]]

(* ... and on its own: the extension comes and goes, promises settle.       *)
TransportStep ==
  /\ connected' \in BOOLEAN
  /\ \E done \in SUBSET {r \in Requests : promise[r] = "pending"},
        p \in {"fulfilled", "rejected"} :
       promise' = [r \in Requests |-> IF r \in done THEN p ELSE promise[r]]
  /\ UNCHANGED queueVars

Next ==
  \/ Connect /\ UNCHANGED transportVars
  \/ Disconnect /\ Disconnecting
  \/ \E r \in Requests :
       \/ SendToolRequest(r) /\ Called
       \/ Then(r) /\ UNCHANGED transportVars
       \/ Catch(r) /\ UNCHANGED transportVars
       \/ Finally(r) /\ Called
  \/ TransportStep

Spec == Init /\ [][Next]_vars

-----------------------------------------------------------------------------
TypeOK ==
  /\ queue \in Seq(Requests)
  /\ activeRequest \in Requests \union {NoRequest}
  /\ disconnected \in BOOLEAN
  /\ outcome \in [Requests -> Outcomes]
  /\ reaction \in [Requests -> Reactions]
  /\ accepted \in Nat
  /\ arrival \in [Requests -> Nat]
  /\ connected \in BOOLEAN
  /\ promise \in [Requests -> Promises]

(* No caller is answered twice, whatever disconnect(), the catch branch and *)
(* a late answer of the transport do to the same request (requestQueue.ts   *)
(* guards this with `settled' in some places and not in others).            *)
SettledAtMostOnce == \A r \in Requests : outcome[r] # "settledTwice"

(* The transport works on one request at a time, even when requests keep    *)
(* arriving while the callback chain of the previous one is half done.      *)
OneInFlight ==
  \A r, s \in Requests : promise[r] = "pending" /\ promise[s] = "pending" => r = s

(* Requests never wait in a queue that nobody will serve: some chain is     *)
(* still running whose .finally will call processNext.                      *)
NoStrandedQueue ==
  queue # <<>> => /\ ~disconnected
                  /\ activeRequest # NoRequest
                  /\ reaction[activeRequest] \in {"attached", "handled"}

(* Requests are handed over in the order in which they were accepted.       *)
Fifo ==
  /\ \A i, j \in 1 .. Len(queue) : i < j => arrival[queue[i]] < arrival[queue[j]]
  /\ activeRequest # NoRequest =>
       \A i \in 1 .. Len(queue) : arrival[activeRequest] < arrival[queue[i]]

(* The inductive invariant: how the five records of one request agree.      *)
(* A request waits in the queue, or is the active one, or has its verdict;  *)
(* its callback chain is live exactly while it is the active one.           *)
Agreement ==
  /\ \A r \in Requests :
       /\ reaction[r] \in {"attached", "handled"} <=> r = activeRequest
       /\ reaction[r] = "none" <=> promise[r] = "none"
       /\ promise[r] = "pending" => reaction[r] = "attached"
       /\ outcome[r] = "unissued" => reaction[r] = "none" /\ r \notin Range(queue)
       /\ outcome[r] = "waiting" =>
            r \in Range(queue) \/ (r = activeRequest /\ reaction[r] = "attached")
       /\ arrival[r] <= accepted
  /\ \A i \in 1 .. Len(queue) :
       outcome[queue[i]] = "waiting" /\ reaction[queue[i]] = "none"

(* A request whose caller has been told it failed before it was handed over *)
(* is never handed over afterwards.                                         *)
NoCallAfterVerdict ==
  [][\A r \in Requests : Settled(r) => (promise'[r] = "none") = (promise[r] = "none")]_vars

(* The implementation of SerialDispatch: a request runs while it is the     *)
(* active one and its caller has no verdict yet.                            *)
callerState ==
  [r \in Requests |->
     IF r = activeRequest /\ outcome[r] = "waiting" THEN "running" ELSE outcome[r]]

Serial == INSTANCE SerialDispatch WITH state <- callerState

ImplementsSerialDispatch == Serial!Spec

=============================================================================

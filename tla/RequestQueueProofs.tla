------------------------- MODULE RequestQueueProofs -------------------------
(***************************************************************************)
(* Proofs about RequestQueue, for any set of requests and any transport.   *)
(***************************************************************************)
EXTENDS RequestQueue, TLAPS

Inv ==
  /\ TypeOK
  /\ SettledAtMostOnce
  /\ NoStrandedQueue
  /\ Fifo
  /\ Agreement

LEMMA InitInv == Init => Inv
<1> SUFFICES ASSUME Init PROVE Inv
  OBVIOUS
<1>1. TypeOK
  <2>1. /\ queue \in Seq(Requests)
        /\ activeRequest \in Requests \union {NoRequest}
        /\ accepted \in Nat
        /\ arrival \in [Requests -> Nat]
    BY DEF Init
  <2>2. disconnected \in BOOLEAN /\ connected \in BOOLEAN
    BY DEF Init
  <2>3. /\ outcome \in [Requests -> Outcomes]
        /\ reaction \in [Requests -> Reactions]
        /\ promise \in [Requests -> Promises]
    BY DEF Init, Outcomes, Reactions, Promises
  <2> QED
    BY <2>1, <2>2, <2>3 DEF TypeOK
<1>2. SettledAtMostOnce /\ NoStrandedQueue /\ Fifo
  BY DEF Init, SettledAtMostOnce, NoStrandedQueue, Fifo
<1>3. Agreement
  BY NoRequestAssumption DEF Init, Agreement, Range
<1> QED
  BY <1>1, <1>2, <1>3 DEF Inv

(* What Append and Tail do to the positions and the elements of a queue.    *)
LEMMA AppendFacts ==
  ASSUME NEW q \in Seq(Requests), NEW r \in Requests
  PROVE  /\ Append(q, r) \in Seq(Requests)
         /\ Len(Append(q, r)) = Len(q) + 1
         /\ Append(q, r)[Len(q) + 1] = r
         /\ \A i \in 1 .. Len(q) : Append(q, r)[i] = q[i]
         /\ \A s : s \in Range(Append(q, r)) <=> s \in Range(q) \/ s = r
<1>1. /\ Append(q, r) \in Seq(Requests)
      /\ Len(Append(q, r)) = Len(q) + 1
      /\ Append(q, r)[Len(q) + 1] = r
      /\ \A i \in 1 .. Len(q) : Append(q, r)[i] = q[i]
  OBVIOUS
<1>2. DOMAIN q = 1 .. Len(q) /\ DOMAIN Append(q, r) = 1 .. Len(q) + 1 /\ Len(q) \in Nat
  OBVIOUS
<1> DEFINE a == Append(q, r)
<1>3. \A s : s \in Range(a) => s \in Range(q) \/ s = r
  <2> SUFFICES ASSUME NEW i \in DOMAIN a PROVE a[i] \in Range(q) \/ a[i] = r
    BY DEF Range
  <2>1. i \in 1 .. Len(q) \/ i = Len(q) + 1
    BY <1>2
  <2> QED
    BY <2>1, <1>1, <1>2 DEF Range
<1>4. \A s : s \in Range(q) \/ s = r => s \in Range(a)
  <2>1. \A i \in 1 .. Len(q) : i \in 1 .. Len(q) + 1 /\ a[i] = q[i]
    BY <1>1, <1>2
  <2>2. Len(q) + 1 \in 1 .. Len(q) + 1 /\ a[Len(q) + 1] = r
    BY <1>1, <1>2
  <2> HIDE DEF a
  <2> QED
    BY <2>1, <2>2, <1>2 DEF Range, a
<1> QED
  BY <1>1, <1>3, <1>4

LEMMA TailFacts ==
  ASSUME NEW q \in Seq(Requests), q # <<>>
  PROVE  /\ Head(q) = q[1] /\ Head(q) \in Requests /\ 1 \in 1 .. Len(q)
         /\ Tail(q) \in Seq(Requests)
         /\ Len(Tail(q)) = Len(q) - 1
         /\ \A i \in 1 .. Len(Tail(q)) : Tail(q)[i] = q[i + 1] /\ i + 1 \in 1 .. Len(q)
         /\ \A s : s \in Range(Tail(q)) => s \in Range(q)
         /\ \A s : s \in Range(q) => s = Head(q) \/ s \in Range(Tail(q))
<1>1. /\ Head(q) = q[1] /\ Head(q) \in Requests /\ 1 \in 1 .. Len(q)
      /\ Tail(q) \in Seq(Requests)
      /\ Len(Tail(q)) = Len(q) - 1
      /\ \A i \in 1 .. Len(Tail(q)) : Tail(q)[i] = q[i + 1] /\ i + 1 \in 1 .. Len(q)
  OBVIOUS
<1>2. DOMAIN q = 1 .. Len(q) /\ DOMAIN Tail(q) = 1 .. Len(q) - 1 /\ Len(q) \in Nat
  OBVIOUS
<1> DEFINE t == Tail(q)
<1>3. \A s : s \in Range(t) => s \in Range(q)
  BY <1>1, <1>2 DEF Range
<1>4. \A s : s \in Range(q) => s = Head(q) \/ s \in Range(t)
  <2> SUFFICES ASSUME NEW i \in 1 .. Len(q), i # 1 PROVE q[i] \in Range(t)
    BY <1>1, <1>2 DEF Range
  <2>1. i - 1 \in DOMAIN t /\ t[i - 1] = q[i]
    BY <1>1, <1>2
  <2> QED
    BY <2>1 DEF Range
<1> QED
  BY <1>1, <1>3, <1>4

LEMMA EmptyFacts == <<>> \in Seq(Requests) /\ Len(<<>>) = 0 /\ \A s : s \notin Range(<<>>)
BY DEF Range

(* The variables the environment may set to any Boolean keep their type. *)
LEMMA BooleansStep ==
  ASSUME Inv, [Next]_vars
  PROVE  disconnected' \in BOOLEAN /\ connected' \in BOOLEAN
<1> USE DEF Inv, TypeOK
<1>1. CASE Connect /\ UNCHANGED transportVars
  BY <1>1 DEF Connect, transportVars
<1>2. CASE Disconnect /\ Disconnecting
  BY <1>2 DEF Disconnect, Disconnecting
<1>3. ASSUME NEW r \in Requests, SendToolRequest(r), Called
      PROVE  disconnected' \in BOOLEAN /\ connected' \in BOOLEAN
  BY <1>3 DEF SendToolRequest, Called
<1>4. ASSUME NEW r \in Requests, Then(r) \/ Catch(r), UNCHANGED transportVars
      PROVE  disconnected' \in BOOLEAN /\ connected' \in BOOLEAN
  BY <1>4 DEF Then, Catch, transportVars
<1>5. ASSUME NEW r \in Requests, Finally(r), Called
      PROVE  disconnected' \in BOOLEAN /\ connected' \in BOOLEAN
  BY <1>5 DEF Finally, Called
<1>6. CASE TransportStep
  BY <1>6 DEF TransportStep, queueVars
<1>7. CASE UNCHANGED vars
  BY <1>7 DEF vars, queueVars, transportVars
<1> QED
  BY <1>1, <1>2, <1>3, <1>4, <1>5, <1>6, <1>7 DEF Next

(* The rest of the invariant. *)
Core ==
  /\ queue \in Seq(Requests)
  /\ activeRequest \in Requests \union {NoRequest}
  /\ outcome \in [Requests -> Outcomes]
  /\ reaction \in [Requests -> Reactions]
  /\ accepted \in Nat
  /\ arrival \in [Requests -> Nat]
  /\ promise \in [Requests -> Promises]
  /\ SettledAtMostOnce
  /\ NoStrandedQueue
  /\ Fifo
  /\ Agreement

LEMMA ConnectStep == Core /\ Connect /\ UNCHANGED transportVars => Core'
BY DEF Core, Connect, transportVars, SettledAtMostOnce, NoStrandedQueue, Fifo, Agreement, Range

(* Rejecting every request of the queue, and possibly the active one, leaves *)
(* no waiting request behind except an active one whose chain is attached.   *)
LEMMA RejectQueue ==
  ASSUME Core, NEW own \in SUBSET Requests,
         \A r \in own : r = activeRequest /\ outcome[r] = "waiting",
         outcome' = Settle(outcome, own \union Range(queue), "rejected")
  PROVE  /\ outcome' \in [Requests -> Outcomes]
         /\ SettledAtMostOnce'
         /\ \A r \in Requests :
              /\ outcome'[r] = "unissued" => outcome[r] = "unissued"
              /\ outcome'[r] = "waiting" =>
                   /\ outcome[r] = "waiting" /\ r \notin own
                   /\ r = activeRequest /\ reaction[r] = "attached"
<1>1. \A r \in own \union Range(queue) : outcome[r] = "waiting"
  BY DEF Core, Agreement, Range
<1> QED
  BY <1>1 DEF Core, Settle, Outcomes, SettledAtMostOnce, Agreement

LEMMA DisconnectStep == Core /\ Disconnect /\ Disconnecting => Core'
<1> SUFFICES ASSUME Core, Disconnect, Disconnecting PROVE Core'
  OBVIOUS
<1> DEFINE own == {r \in {activeRequest} \ {NoRequest} : ~Settled(r)}
<1>1. own \in SUBSET Requests /\ \A r \in own : r = activeRequest /\ outcome[r] = "waiting"
  BY DEF Core, Settled, Agreement
<1>2. outcome' = Settle(outcome, own \union Range(queue), "rejected")
  BY DEF Disconnect
<1>3. /\ outcome' \in [Requests -> Outcomes]
      /\ SettledAtMostOnce'
      /\ \A r \in Requests :
           /\ outcome'[r] = "unissued" => outcome[r] = "unissued"
           /\ outcome'[r] = "waiting" => r = activeRequest /\ reaction[r] = "attached"
  BY <1>1, <1>2, RejectQueue
<1>4. queue' = <<>> /\ UNCHANGED <<activeRequest, reaction, accepted, arrival>>
  BY DEF Disconnect
<1>5. /\ promise' \in [Requests -> Promises]
      /\ \A r \in Requests : /\ promise'[r] = "none" <=> promise[r] = "none"
                             /\ promise'[r] = "pending" => promise[r] = "pending"
  BY DEF Core, Disconnecting, Promises
<1>6. Agreement'
  <2>1. Range(queue') = {} /\ Len(queue') = 0
    BY <1>4, EmptyFacts
  <2> QED
    BY <1>3, <1>4, <1>5, <2>1 DEF Core, Agreement
<1>7. NoStrandedQueue' /\ Fifo'
  BY <1>4, EmptyFacts DEF Core, NoStrandedQueue, Fifo
<1> QED
  BY <1>3, <1>4, <1>5, <1>6, <1>7, EmptyFacts DEF Core

LEMMA ThenStep ==
  ASSUME NEW r \in Requests, Core, Then(r), UNCHANGED transportVars PROVE Core'
BY DEF Core, Then, transportVars, SettledAtMostOnce, NoStrandedQueue, Fifo, Agreement,
       Range, Settle, Settled, Outcomes, Reactions

LEMMA CatchStep ==
  ASSUME NEW r \in Requests, Core, Catch(r), UNCHANGED transportVars PROVE Core'
<1> DEFINE own == IF Settled(r) THEN {} ELSE {r}
<1>1. own \in SUBSET Requests /\ \A s \in own : s = activeRequest /\ outcome[s] = "waiting"
  BY DEF Core, Catch, Settled, Agreement
<1>2. CASE connected
  BY <1>2 DEF Core, Catch, transportVars, SettledAtMostOnce, NoStrandedQueue, Fifo,
              Agreement, Range, Settle, Settled, Outcomes, Reactions
<1>3. CASE ~connected
  <2>1. outcome' = Settle(outcome, own \union Range(queue), "rejected")
    BY <1>3 DEF Catch
  <2>2. /\ outcome' \in [Requests -> Outcomes]
        /\ SettledAtMostOnce'
        /\ \A s \in Requests :
             /\ outcome'[s] = "unissued" => outcome[s] = "unissued"
             /\ outcome'[s] = "waiting" =>
                  outcome[s] = "waiting" /\ s \notin own /\ s = activeRequest
    BY <1>1, <2>1, RejectQueue
  <2>3. \A s \in Requests : outcome'[s] # "waiting"
    BY <2>2 DEF Core, Catch, Settled, Agreement
  <2>4. /\ queue' = <<>> /\ reaction' = [reaction EXCEPT ![r] = "handled"]
        /\ reaction[r] = "attached" /\ promise[r] = "rejected"
        /\ UNCHANGED <<activeRequest, accepted, arrival, promise>>
    BY <1>3 DEF Catch, transportVars
  <2> QED
    BY <2>2, <2>3, <2>4 DEF Core, NoStrandedQueue, Fifo, Agreement, Range, Reactions
<1> QED
  BY <1>2, <1>3

LEMMA TransportStepStep == Core /\ TransportStep => Core'
BY DEF Core, TransportStep, queueVars, SettledAtMostOnce, NoStrandedQueue, Fifo, Agreement,
       Range, Promises

LEMMA SendToolRequestStep ==
  ASSUME NEW r \in Requests, Core, SendToolRequest(r), Called PROVE Core'
<1>1. CASE disconnected \/ ~connected
  <2>1. outcome' = [outcome EXCEPT ![r] = "rejected"] /\ outcome[r] = "unissued"
        /\ UNCHANGED <<queue, activeRequest, reaction, accepted, arrival>>
    BY <1>1 DEF SendToolRequest
  <2>2. promise' = promise
    BY <2>1 DEF Called, HandedOver, Core
  <2>3. r \notin Range(queue)
    BY <2>1 DEF Core, Agreement
  <2>4. Agreement'
    BY <2>1, <2>2, <2>3 DEF Core, Agreement, Range
  <2> QED
    BY <2>1, <2>2, <2>4, <1>1 DEF SendToolRequest, Core, SettledAtMostOnce, NoStrandedQueue,
                                  Fifo, Outcomes
<1>2. CASE ~disconnected /\ connected
  <2>1. /\ outcome[r] = "unissued"
        /\ accepted' = accepted + 1
        /\ arrival' = [arrival EXCEPT ![r] = accepted + 1]
        /\ outcome' = [outcome EXCEPT ![r] = "waiting"]
        /\ UNCHANGED disconnected
    BY <1>2 DEF SendToolRequest, ProcessNext
  <2>2. \A i \in 1 .. Len(queue) : queue[i] # r
    BY <2>1 DEF Core, Agreement, Range
  <2>3. CASE activeRequest # NoRequest
    <3>1. queue' = Append(queue, r) /\ UNCHANGED <<activeRequest, reaction>>
      BY <1>2, <2>3 DEF SendToolRequest, ProcessNext
    <3>2. promise' = promise
      BY <3>1 DEF Called, HandedOver, Core
    <3>3. /\ queue' \in Seq(Requests)
          /\ Len(queue') = Len(queue) + 1
          /\ queue'[Len(queue) + 1] = r
          /\ \A i \in 1 .. Len(queue) : queue'[i] = queue[i]
      BY <3>1, AppendFacts DEF Core
    <3>4. \A s : s \in Range(queue)' <=> s \in Range(queue) \/ s = r
      BY <3>1, AppendFacts DEF Core
    <3>5. Fifo'
      BY <2>1, <2>2, <2>3, <3>1, <3>3, SMTT(40) DEF Core, Fifo, Agreement
    <3>6. Agreement'
      <4>1. \A i \in 1 .. Len(queue)' :
              outcome'[queue'[i]] = "waiting" /\ reaction'[queue'[i]] = "none"
        BY <2>1, <2>2, <3>1, <3>3, SMTT(30) DEF Core, Agreement
      <4>2. \A s \in Requests :
              /\ reaction'[s] \in {"attached", "handled"} <=> s = activeRequest'
              /\ reaction'[s] = "none" <=> promise'[s] = "none"
              /\ promise'[s] = "pending" => reaction'[s] = "attached"
              /\ outcome'[s] = "unissued" => reaction'[s] = "none" /\ s \notin Range(queue)'
              /\ outcome'[s] = "waiting" =>
                   s \in Range(queue)' \/ (s = activeRequest' /\ reaction'[s] = "attached")
              /\ arrival'[s] <= accepted'
        BY <2>1, <2>2, <3>1, <3>2, <3>4, SMTT(30) DEF Core, Agreement
      <4> QED
        BY <4>1, <4>2 DEF Agreement
    <3> QED
      BY <1>2, <2>1, <2>3, <3>1, <3>2, <3>3, <3>5, <3>6
         DEF Core, SettledAtMostOnce, NoStrandedQueue, Agreement, Outcomes
  <2>4. CASE activeRequest = NoRequest
    <3>1. queue = <<>> /\ Append(queue, r) = <<r>>
      <4>1. queue = <<>>
        BY <2>4 DEF NoStrandedQueue, Core
      <4> QED
        BY <4>1
    <3>2. /\ queue' = <<>> /\ activeRequest' = r
          /\ reaction' = [reaction EXCEPT ![r] = "attached"]
      BY <1>2, <2>4, <3>1 DEF SendToolRequest, ProcessNext
    <3>3. reaction[r] = "none"
      BY <2>1 DEF Core, Agreement
    <3>4. HandedOver = {r}
      BY <3>2, <3>3 DEF HandedOver, Core
    <3>5. PICK p \in {"pending", "rejected"} : promise' = [promise EXCEPT ![r] = p]
      BY <3>4 DEF Called, Core
    <3> QED
      BY <2>1, <2>4, <3>1, <3>2, <3>3, <3>5, NoRequestAssumption
         DEF Core, SettledAtMostOnce, NoStrandedQueue, Fifo, Agreement, Range,
             Outcomes, Reactions, Promises
  <2> QED
    BY <2>3, <2>4
<1> QED
  BY <1>1, <1>2

LEMMA FinallyStep ==
  ASSUME NEW r \in Requests, Core, Finally(r), Called PROVE Core'
<1> DEFINE chain == [reaction EXCEPT ![r] = "done"]
<1>1. r = activeRequest /\ reaction[r] = "handled"
  BY DEF Core, Finally, Agreement
<1>2. ProcessNext(queue, NoRequest, outcome, chain) /\ UNCHANGED <<accepted, arrival>>
  BY <1>1 DEF Finally
<1>3. CASE queue = <<>>
  <2>1. /\ queue' = <<>> /\ activeRequest' = NoRequest
        /\ reaction' = chain /\ outcome' = outcome
    BY <1>2, <1>3 DEF ProcessNext
  <2>2. promise' = promise
    BY <1>1, <2>1 DEF Called, HandedOver, Core
  <2> QED
    BY <1>1, <1>2, <1>3, <2>1, <2>2, NoRequestAssumption
       DEF Core, SettledAtMostOnce, NoStrandedQueue, Fifo, Agreement, Range, Reactions
<1>4. CASE queue # <<>> /\ ~connected
  <2>1. /\ queue' = <<>> /\ activeRequest' = NoRequest /\ reaction' = chain
        /\ outcome' = Settle(outcome, {} \union Range(queue), "rejected")
    BY <1>2, <1>4 DEF ProcessNext, Core, NoStrandedQueue
  <2>2. promise' = promise
    BY <1>1, <2>1 DEF Called, HandedOver, Core
  <2>3. /\ outcome' \in [Requests -> Outcomes]
        /\ SettledAtMostOnce'
        /\ \A s \in Requests :
             /\ outcome'[s] = "unissued" => outcome[s] = "unissued"
             /\ outcome'[s] # "waiting"
    BY <1>1, <2>1, RejectQueue
  <2>4. Range(queue') = {} /\ Len(queue') = 0 /\ queue' \in Seq(Requests)
    BY <2>1, EmptyFacts
  <2>5. \A s \in Requests : reaction'[s] = IF s = r THEN "done" ELSE reaction[s]
    BY <2>1 DEF Core
  <2>6. Agreement'
    BY <1>1, <1>2, <2>1, <2>2, <2>3, <2>4, <2>5, NoRequestAssumption DEF Core, Agreement
  <2>7. NoStrandedQueue' /\ Fifo'
    BY <2>1, <2>4 DEF NoStrandedQueue, Fifo
  <2> QED
    BY <1>2, <2>1, <2>2, <2>3, <2>4, <2>6, <2>7 DEF Core, Reactions
<1>5. CASE queue # <<>> /\ connected
  <2> DEFINE h == Head(queue)
  <2>1. /\ queue' = Tail(queue) /\ activeRequest' = h /\ outcome' = outcome
        /\ reaction' = [chain EXCEPT ![h] = "attached"] /\ ~disconnected
    BY <1>2, <1>5 DEF ProcessNext, Core, NoStrandedQueue
  <2>2. /\ h \in Requests /\ h = queue[1] /\ h # r
        /\ outcome[h] = "waiting" /\ reaction[h] = "none"
    BY <1>1, <1>5 DEF Core, Agreement
  <2>3. HandedOver = {h}
    BY <1>1, <2>1, <2>2 DEF HandedOver, Core
  <2>4. PICK p \in {"pending", "rejected"} : promise' = [promise EXCEPT ![h] = p]
    BY <2>3 DEF Called, Core
  <2>5. /\ queue' \in Seq(Requests)
        /\ \A i \in 1 .. Len(queue') : queue'[i] = queue[i + 1] /\ i + 1 \in 1 .. Len(queue)
        /\ \A s : s \in Range(queue') => s \in Range(queue)
        /\ \A s : s \in Range(queue) => s = h \/ s \in Range(queue')
    BY <1>5, <2>1, TailFacts DEF Core
  <2>6. Fifo'
    <3>1. \A i \in 1 .. Len(queue') : arrival[h] < arrival[queue'[i]]
      <4> SUFFICES ASSUME NEW i \in 1 .. Len(queue')
                   PROVE  arrival[queue[1]] < arrival[queue[i + 1]]
        BY <2>2, <2>5
      <4>1. i + 1 \in 1 .. Len(queue) /\ 1 \in 1 .. Len(queue) /\ 1 < i + 1
        BY <1>5, <2>5, TailFacts DEF Core
      <4> QED
        BY <4>1 DEF Core, Fifo
    <3>2. \A i, j \in 1 .. Len(queue') : i < j => arrival[queue'[i]] < arrival[queue'[j]]
      <4> SUFFICES ASSUME NEW i \in 1 .. Len(queue'), NEW j \in 1 .. Len(queue'), i < j
                   PROVE  arrival[queue[i + 1]] < arrival[queue[j + 1]]
        BY <2>5
      <4>1. i + 1 \in 1 .. Len(queue) /\ j + 1 \in 1 .. Len(queue) /\ i + 1 < j + 1
        BY <2>5
      <4> QED
        BY <4>1 DEF Core, Fifo
    <3> QED
      BY <1>2, <2>1, <3>1, <3>2 DEF Fifo
  <2>7. \A i \in 1 .. Len(queue') :
          /\ queue'[i] \in Requests /\ queue'[i] # h /\ queue'[i] # r
          /\ outcome[queue'[i]] = "waiting" /\ reaction[queue'[i]] = "none"
    <3>1. \A i \in 1 .. Len(queue') : queue'[i] \in Requests
      BY <2>5
    <3>2. \A i \in 1 .. Len(queue') :
            outcome[queue'[i]] = "waiting" /\ reaction[queue'[i]] = "none"
      BY <2>5, SMTT(40) DEF Core, Agreement
    <3>3. \A i \in 1 .. Len(queue') : arrival[h] < arrival[queue'[i]]
      BY <1>2, <2>1, <2>2, <2>6, NoRequestAssumption DEF Fifo
    <3> QED
      BY <1>1, <2>2, <3>1, <3>2, <3>3 DEF Core
  <2>8. \A s \in Requests :
          reaction'[s] = IF s = h THEN "attached" ELSE IF s = r THEN "done" ELSE reaction[s]
    BY <2>1, <2>2 DEF Core
  <2>9. \A s \in Requests : promise'[s] = IF s = h THEN p ELSE promise[s]
    BY <2>2, <2>4 DEF Core
  <2>10. /\ r \in Requests /\ promise[r] \notin {"none", "pending"}
         /\ r \notin Range(queue') /\ outcome[r] \notin {"unissued", "waiting"}
    BY <1>1, <2>2, <2>7 DEF Core, Agreement, Range
  <2>11. Agreement'
    <3>1. ASSUME NEW s \in Requests
          PROVE  /\ reaction'[s] \in {"attached", "handled"} <=> s = activeRequest'
                 /\ reaction'[s] = "none" <=> promise'[s] = "none"
                 /\ promise'[s] = "pending" => reaction'[s] = "attached"
                 /\ arrival'[s] <= accepted'
      BY <1>1, <1>2, <2>1, <2>2, <2>8, <2>9, <2>10 DEF Core, Agreement
    <3>2. ASSUME NEW s \in Requests
          PROVE  /\ outcome'[s] = "unissued" => reaction'[s] = "none" /\ s \notin Range(queue')
                 /\ outcome'[s] = "waiting" =>
                      \/ s \in Range(queue')
                      \/ s = activeRequest' /\ reaction'[s] = "attached"
      BY <1>1, <2>1, <2>2, <2>5, <2>8, <2>10, SMTT(40) DEF Core, Agreement
    <3>3. \A i \in 1 .. Len(queue') :
            outcome'[queue'[i]] = "waiting" /\ reaction'[queue'[i]] = "none"
      <4> SUFFICES ASSUME NEW i \in 1 .. Len(queue')
                   PROVE  outcome'[queue'[i]] = "waiting" /\ reaction'[queue'[i]] = "none"
        OBVIOUS
      <4> DEFINE s == queue'[i]
      <4>1. s \in Requests /\ s # h /\ s # r /\ outcome[s] = "waiting" /\ reaction[s] = "none"
        BY <2>7
      <4>2. reaction'[s] = reaction[s]
        BY <2>8, <4>1
      <4> QED
        BY <2>1, <4>1, <4>2
    <3> QED
      BY <3>1, <3>2, <3>3 DEF Agreement
  <2>12. NoStrandedQueue' /\ SettledAtMostOnce'
    BY <1>2, <2>1, <2>2, <2>8, NoRequestAssumption
       DEF Core, SettledAtMostOnce, NoStrandedQueue, Finally
  <2>13. reaction' \in [Requests -> Reactions] /\ promise' \in [Requests -> Promises]
    BY <2>1, <2>2, <2>4 DEF Core, Reactions, Promises
  <2> QED
    BY <1>2, <2>1, <2>2, <2>5, <2>6, <2>11, <2>12, <2>13 DEF Core
<1> QED
  BY <1>3, <1>4, <1>5

LEMMA CoreStep == Core /\ [Next]_vars => Core'
<1> SUFFICES ASSUME Core, [Next]_vars PROVE Core'
  OBVIOUS
<1>1. CASE Next
  <2>1. CASE Connect /\ UNCHANGED transportVars
    BY <2>1, ConnectStep
  <2>2. CASE Disconnect /\ Disconnecting
    BY <2>2, DisconnectStep
  <2>3. ASSUME NEW r \in Requests, SendToolRequest(r) /\ Called PROVE Core'
    BY <2>3, SendToolRequestStep
  <2>4. ASSUME NEW r \in Requests, Then(r) /\ UNCHANGED transportVars PROVE Core'
    BY <2>4, ThenStep
  <2>5. ASSUME NEW r \in Requests, Catch(r) /\ UNCHANGED transportVars PROVE Core'
    BY <2>5, CatchStep
  <2>6. ASSUME NEW r \in Requests, Finally(r) /\ Called PROVE Core'
    BY <2>6, FinallyStep
  <2>7. CASE TransportStep
    BY <2>7, TransportStepStep
  <2> QED
    BY <1>1, <2>1, <2>2, <2>3, <2>4, <2>5, <2>6, <2>7 DEF Next
<1>2. CASE UNCHANGED vars
  <2>1. /\ queue' = queue /\ activeRequest' = activeRequest /\ disconnected' = disconnected
        /\ outcome' = outcome /\ reaction' = reaction /\ accepted' = accepted
        /\ arrival' = arrival /\ promise' = promise
    BY <1>2 DEF vars, queueVars, transportVars
  <2>2. SettledAtMostOnce' /\ NoStrandedQueue'
    BY <2>1 DEF Core, SettledAtMostOnce, NoStrandedQueue
  <2>3. Fifo' /\ Agreement'
    BY <2>1 DEF Core, Fifo, Agreement
  <2> QED
    BY <2>1, <2>2, <2>3 DEF Core
<1> QED
  BY <1>1, <1>2

LEMMA InvStep == Inv /\ [Next]_vars => Inv'
<1> SUFFICES ASSUME Inv, [Next]_vars PROVE Inv'
  OBVIOUS
<1>1. Core
  BY DEF Inv, TypeOK, Core
<1>2. Core'
  BY <1>1, CoreStep
<1>3. disconnected' \in BOOLEAN /\ connected' \in BOOLEAN
  BY BooleansStep
<1> QED
  BY <1>2, <1>3 DEF Inv, TypeOK, Core

(* Every step of every behaviour keeps the types, answers no caller twice,  *)
(* keeps the queue served and in order, and keeps the records of each       *)
(* request in agreement.                                                    *)
THEOREM Invariance == Spec => []Inv
BY InitInv, InvStep, PTL DEF Spec

(* Every variable of the queue keeps its type.                              *)
THEOREM TypeCorrect == Spec => []TypeOK
<1>1. Inv => TypeOK
  BY DEF Inv
<1> QED
  BY <1>1, Invariance, PTL

(* The queue array, activeRequest, the caller's promise, the transport's    *)
(* promise and the callback chain of every request agree at all times.      *)
THEOREM RecordsAgree == Spec => []Agreement
<1>1. Inv => Agreement
  BY DEF Inv
<1> QED
  BY <1>1, Invariance, PTL

(* RequestQueueTransport never resolves or rejects one caller twice.        *)
THEOREM CallersSettledOnce == Spec => []SettledAtMostOnce
<1>1. Inv => SettledAtMostOnce
  BY DEF Inv
<1> QED
  BY <1>1, Invariance, PTL

(* The bridge behind the queue never works on two requests at once.         *)
THEOREM AtMostOneInFlight == Spec => []OneInFlight
<1>1. Inv => OneInFlight
  BY DEF Inv, Agreement, OneInFlight
<1> QED
  BY <1>1, Invariance, PTL

(* A non-empty queue always has a callback chain that will serve it.        *)
THEOREM QueueIsServed == Spec => []NoStrandedQueue
<1>1. Inv => NoStrandedQueue
  BY DEF Inv
<1> QED
  BY <1>1, Invariance, PTL

(* Requests are handed to the transport in the order of acceptance.         *)
THEOREM QueueOrder == Spec => []Fifo
<1>1. Inv => Fifo
  BY DEF Inv
<1> QED
  BY <1>1, Invariance, PTL

-----------------------------------------------------------------------------
(* What may be handed over: a request that waits in the queue, or the one   *)
(* being accepted in this step.                                             *)
LEMMA HandedOverUnsettled ==
  ASSUME Core, Next, NEW r \in Requests, Settled(r)
  PROVE  (promise'[r] = "none") = (promise[r] = "none")
<1>1. CASE UNCHANGED promise
  BY <1>1
<1>2. CASE Disconnecting \/ TransportStep
  BY <1>2 DEF Core, Disconnecting, TransportStep
<1>3. ASSUME NEW s \in Requests, SendToolRequest(s), Called
      PROVE  (promise'[r] = "none") = (promise[r] = "none")
  <2>1. r # s
    BY <1>3 DEF SendToolRequest, Settled
  <2>2. reaction'[r] = reaction[r]
    <3>1. CASE UNCHANGED reaction
      BY <3>1
    <3>2. CASE activeRequest = NoRequest /\ ~UNCHANGED reaction
      <4>1. queue = <<>>
        BY <3>2 DEF Core, NoStrandedQueue
      <4>2. Head(Append(queue, s)) = s
        BY <4>1
      <4>3. reaction' = [reaction EXCEPT ![s] = "attached"]
        BY <1>3, <3>2, <4>2 DEF SendToolRequest, ProcessNext
      <4> QED
        BY <2>1, <4>3 DEF Core
    <3>3. activeRequest # NoRequest => UNCHANGED reaction
      BY <1>3 DEF SendToolRequest, ProcessNext
    <3> QED
      BY <3>1, <3>2, <3>3
  <2> QED
    BY <1>3, <2>2 DEF Called, HandedOver, Core
<1>4. ASSUME NEW s \in Requests, Finally(s), Called
      PROVE  (promise'[r] = "none") = (promise[r] = "none")
  <2> DEFINE chain == [reaction EXCEPT ![s] = "done"]
  <2>1. CASE reaction' = chain
    BY <1>4, <2>1 DEF Called, HandedOver, Core
  <2>2. CASE queue # <<>> /\ reaction' = [chain EXCEPT ![Head(queue)] = "attached"]
    <3>1. Head(queue) \in Requests /\ outcome[Head(queue)] = "waiting"
      BY <2>2, TailFacts DEF Core, Agreement
    <3>2. r # Head(queue)
      BY <3>1 DEF Settled
    <3> QED
      BY <1>4, <2>2, <3>1, <3>2 DEF Called, HandedOver, Core
  <2> QED
    BY <1>4, <2>1, <2>2 DEF Finally, ProcessNext
<1> QED
  BY <1>1, <1>2, <1>3, <1>4 DEF Next, transportVars

(* Once a caller has its verdict, its request is not handed over any more.  *)
THEOREM NeverCalledAfterVerdict == Spec => NoCallAfterVerdict
<1>1. Inv /\ [Next]_vars =>
        [\A r \in Requests : Settled(r) => (promise'[r] = "none") = (promise[r] = "none")]_vars
  <2> SUFFICES ASSUME Inv, Next, NEW r \in Requests, Settled(r)
               PROVE  (promise'[r] = "none") = (promise[r] = "none")
    OBVIOUS
  <2>1. Core
    BY DEF Inv, TypeOK, Core
  <2> QED
    BY <2>1, HandedOverUnsettled
<1> QED
  BY <1>1, Invariance, PTL DEF Spec, NoCallAfterVerdict

-----------------------------------------------------------------------------
(* The refinement of SerialDispatch, one lemma per kind of step.            *)
LEMMA InitRefines == Init => Serial!Init
BY NoRequestAssumption DEF Init, Serial!Init, callerState

(* Rejecting the queue and what runs is the abstract FailAll. *)
LEMMA RejectingRefines ==
  ASSUME Core,
         \A r \in Requests :
           /\ outcome[r] = "waiting" => outcome'[r] = "rejected"
           /\ outcome[r] # "waiting" => outcome'[r] = outcome[r],
         UNCHANGED arrival
  PROVE  Serial!FailAll
<1>1. callerState' = [r \in Requests |-> outcome'[r]]
  BY DEF Core, callerState, Outcomes
<1>2. \A r \in Requests : callerState[r] \in {"waiting", "running"} <=> outcome[r] = "waiting"
  BY DEF callerState, Core, Outcomes
<1>3. \A r \in Requests : outcome[r] # "waiting" => callerState[r] = outcome[r]
  BY DEF callerState
<1> QED
  BY <1>1, <1>2, <1>3 DEF Serial!FailAll

LEMMA DisconnectRefines == Core /\ Disconnect => Serial!FailAll
<1> SUFFICES ASSUME Core, Disconnect PROVE Serial!FailAll
  OBVIOUS
<1> DEFINE active == {r \in {activeRequest} \ {NoRequest} : ~Settled(r)}
<1>1. outcome' = Settle(outcome, active \union Range(queue), "rejected") /\ UNCHANGED arrival
  BY DEF Disconnect
<1>2. \A r \in Requests : r \in active \union Range(queue) <=> outcome[r] = "waiting"
  BY NoRequestAssumption DEF Core, Agreement, Settled, Range
<1>3. \A r \in Requests :
        /\ outcome[r] = "waiting" => outcome'[r] = "rejected"
        /\ outcome[r] # "waiting" => outcome'[r] = outcome[r]
  BY <1>1, <1>2 DEF Settle
<1> QED
  BY <1>1, <1>3, RejectingRefines

LEMMA CatchRefines ==
  ASSUME NEW r \in Requests, Core, Catch(r)
  PROVE  Serial!Fail(r) \/ Serial!FailAll \/ UNCHANGED <<callerState, arrival>>
<1>1. r = activeRequest /\ UNCHANGED <<activeRequest, arrival>>
  BY DEF Core, Catch, Agreement
<1>2. CASE connected /\ Settled(r)
  BY <1>1, <1>2 DEF Catch, Settle, Core, callerState
<1>3. CASE connected /\ ~Settled(r)
  <2>1. outcome[r] = "waiting"
    BY <1>3 DEF Catch, Core, Agreement, Settled
  <2>2. outcome' = [outcome EXCEPT ![r] = "rejected"]
    BY <1>3, <2>1 DEF Catch, Settle, Core
  <2> QED
    BY <1>1, <2>1, <2>2 DEF Serial!Fail, callerState, Core
<1>4. CASE ~connected
  <2> DEFINE own == IF Settled(r) THEN {} ELSE {r}
  <2>1. outcome' = Settle(outcome, own \union Range(queue), "rejected")
    BY <1>4 DEF Catch
  <2>2. \A s \in Requests : s \in own \union Range(queue) <=> outcome[s] = "waiting"
    BY <1>1 DEF Catch, Core, Agreement, Settled, Range
  <2>3. \A s \in Requests :
          /\ outcome[s] = "waiting" => outcome'[s] = "rejected"
          /\ outcome[s] # "waiting" => outcome'[s] = outcome[s]
    BY <2>1, <2>2 DEF Settle
  <2> QED
    BY <1>1, <2>3, RejectingRefines
<1> QED
  BY <1>2, <1>3, <1>4

LEMMA ThenRefines ==
  ASSUME NEW r \in Requests, Core, Then(r)
  PROVE  Serial!Succeed(r) \/ UNCHANGED <<callerState, arrival>>
<1>1. r = activeRequest /\ UNCHANGED <<activeRequest, arrival>>
  BY DEF Core, Then, Agreement
<1>2. CASE Settled(r)
  BY <1>1, <1>2 DEF Then, callerState
<1>3. CASE ~Settled(r)
  <2>1. outcome[r] = "waiting"
    BY <1>3 DEF Then, Core, Agreement, Settled
  <2>2. outcome' = [outcome EXCEPT ![r] = "resolved"]
    BY <1>3, <2>1 DEF Then, Settle, Core
  <2> QED
    BY <1>1, <2>1, <2>2 DEF Serial!Succeed, callerState, Core
<1> QED
  BY <1>2, <1>3

LEMMA SendRefines ==
  ASSUME NEW r \in Requests, Core, SendToolRequest(r)
  PROVE  Serial!Refuse(r) \/ Serial!Accept(r)
<1>1. outcome[r] = "unissued" /\ r # activeRequest /\ reaction[r] = "none"
  BY DEF SendToolRequest, Core, Agreement
<1>2. callerState[r] = "unissued"
  BY <1>1 DEF callerState
<1>3. CASE disconnected \/ ~connected
  <2>1. outcome' = [outcome EXCEPT ![r] = "rejected"] /\ UNCHANGED <<activeRequest, arrival>>
    BY <1>3 DEF SendToolRequest
  <2> QED
    BY <1>1, <1>2, <2>1 DEF Serial!Refuse, callerState, Core
<1>4. CASE ~disconnected /\ connected
  <2>1. /\ arrival' = [arrival EXCEPT ![r] = accepted + 1]
        /\ outcome' = [outcome EXCEPT ![r] = "waiting"]
    BY <1>4 DEF SendToolRequest, ProcessNext
  <2>2. /\ arrival'[r] \in Nat
        /\ \A s \in Requests : arrival[s] < arrival'[r]
        /\ arrival' = [arrival EXCEPT ![r] = arrival'[r]]
    BY <2>1 DEF Core, Agreement
  <2>3. CASE activeRequest # NoRequest
    <3>1. activeRequest' = activeRequest
      BY <1>4, <2>3 DEF SendToolRequest, ProcessNext
    <3>2. callerState' = [callerState EXCEPT ![r] = "waiting"]
      BY <1>1, <2>1, <3>1 DEF callerState, Core
    <3> QED
      BY <1>2, <2>2, <3>2 DEF Serial!Accept
  <2>4. CASE activeRequest = NoRequest
    <3>1. queue = <<>>
      BY <2>4 DEF Core, NoStrandedQueue
    <3>2. Append(queue, r) = <<r>> /\ Head(<<r>>) = r /\ <<r>> # <<>>
      BY <3>1
    <3>3. activeRequest' = r
      BY <1>4, <2>4, <3>2 DEF SendToolRequest, ProcessNext
    <3>4. \A s \in Requests : outcome[s] # "waiting"
      BY <2>4, <3>1, EmptyFacts, NoRequestAssumption DEF Core, Agreement
    <3>5. callerState' = [callerState EXCEPT ![r] = "running"]
      BY <1>1, <2>1, <3>3, <3>4 DEF callerState, Core
    <3>6. Serial!In("running") \union Serial!In("waiting") = {}
      BY <3>4 DEF Serial!In, callerState, Core, Outcomes
    <3> QED
      BY <1>2, <2>2, <3>5, <3>6 DEF Serial!Accept
  <2> QED
    BY <2>3, <2>4
<1> QED
  BY <1>3, <1>4

LEMMA FinallyRefines ==
  ASSUME NEW r \in Requests, Core, Finally(r)
  PROVE  \/ \E h \in Requests : Serial!Start(h)
         \/ Serial!FailAll
         \/ UNCHANGED <<callerState, arrival>>
<1>1. /\ r = activeRequest /\ outcome[r] # "waiting"
      /\ \A s \in Requests : outcome[s] = "waiting" <=> s \in Range(queue)
  BY SMTT(40) DEF Core, Finally, Agreement, Range
<1>2. ProcessNext(queue, NoRequest, outcome, [reaction EXCEPT ![r] = "done"])
      /\ UNCHANGED arrival
  BY <1>1 DEF Finally
<1>3. CASE queue = <<>>
  <2>1. activeRequest' = NoRequest /\ outcome' = outcome
    BY <1>2, <1>3 DEF ProcessNext
  <2> QED
    BY <1>1, <1>2, <2>1, NoRequestAssumption DEF callerState
<1>4. CASE queue # <<>> /\ ~connected
  <2>1. outcome' = Settle(outcome, Range(queue), "rejected")
    BY <1>2, <1>4 DEF ProcessNext, Core, NoStrandedQueue
  <2>2. \A s \in Requests :
          /\ outcome[s] = "waiting" => outcome'[s] = "rejected"
          /\ outcome[s] # "waiting" => outcome'[s] = outcome[s]
    BY <1>1, <2>1 DEF Settle
  <2> QED
    BY <1>2, <2>2, RejectingRefines
<1>5. CASE queue # <<>> /\ connected
  <2> DEFINE h == Head(queue)
  <2>1. activeRequest' = h /\ outcome' = outcome
    BY <1>2, <1>5 DEF ProcessNext, Core, NoStrandedQueue
  <2>2. h \in Requests /\ h = queue[1] /\ outcome[h] = "waiting" /\ h # r
    BY <1>1, <1>5, TailFacts DEF Core, Agreement
  <2>3. \A s \in Requests : callerState[s] = outcome[s]
    BY <1>1 DEF callerState
  <2>4. \A s \in Serial!In("waiting") : arrival[h] <= arrival[s]
    <3>0. \A s \in Serial!In("waiting") : s \in Requests /\ s \in Range(queue)
      BY <1>1, <2>3 DEF Serial!In
    <3> SUFFICES ASSUME NEW i \in 1 .. Len(queue), queue[i] \in Requests
                 PROVE  arrival[h] <= arrival[queue[i]]
      <4>1. \A s \in Range(queue) : \E i \in 1 .. Len(queue) : s = queue[i]
        BY DEF Range, Core
      <4> QED
        BY <3>0, <4>1
    <3>1. i = 1 \/ (1 < i /\ 1 \in 1 .. Len(queue))
      BY <1>5, TailFacts DEF Core
    <3> QED
      BY <2>2, <3>1 DEF Core, Fifo
  <2>5. Serial!In("running") = {} /\ h \in Serial!In("waiting")
    BY <2>2, <2>3 DEF Serial!In, Core, Outcomes
  <2>6. callerState' = [callerState EXCEPT ![h] = "running"]
    BY <1>1, <2>1, <2>2, <2>3 DEF callerState
  <2> QED
    BY <1>2, <2>2, <2>4, <2>5, <2>6 DEF Serial!Start
<1> QED
  BY <1>3, <1>4, <1>5

LEMMA StepRefines == Core /\ [Next]_vars => [Serial!Next]_Serial!vars
<1> SUFFICES ASSUME Core, [Next]_vars
             PROVE  Serial!Next \/ UNCHANGED <<callerState, arrival>>
  BY DEF Serial!vars
<1>1. CASE (Connect /\ UNCHANGED transportVars) \/ TransportStep \/ UNCHANGED vars
  BY <1>1 DEF Connect, TransportStep, queueVars, vars, callerState
<1>2. CASE Disconnect /\ Disconnecting
  BY <1>2, DisconnectRefines DEF Serial!Next
<1>3. ASSUME NEW r \in Requests, SendToolRequest(r)
      PROVE  Serial!Next
  BY <1>3, SendRefines DEF Serial!Next
<1>4. ASSUME NEW r \in Requests, Then(r)
      PROVE  Serial!Next \/ UNCHANGED <<callerState, arrival>>
  BY <1>4, ThenRefines DEF Serial!Next
<1>5. ASSUME NEW r \in Requests, Catch(r)
      PROVE  Serial!Next \/ UNCHANGED <<callerState, arrival>>
  BY <1>5, CatchRefines DEF Serial!Next
<1>6. ASSUME NEW r \in Requests, Finally(r)
      PROVE  Serial!Next \/ UNCHANGED <<callerState, arrival>>
  BY <1>6, FinallyRefines DEF Serial!Next
<1> QED
  BY <1>1, <1>2, <1>3, <1>4, <1>5, <1>6 DEF Next

(* RequestQueueTransport, over any transport, gives its callers a serial    *)
(* FIFO service with one verdict per request.                               *)
THEOREM RefinesSerialDispatch == Spec => ImplementsSerialDispatch
<1>1. Inv => Core
  BY DEF Inv, TypeOK, Core
<1> QED
  BY <1>1, InitRefines, StepRefines, Invariance, PTL
     DEF Spec, ImplementsSerialDispatch, Serial!Spec

=============================================================================

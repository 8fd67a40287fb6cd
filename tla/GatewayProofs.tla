--------------------------- MODULE GatewayProofs ---------------------------
(***************************************************************************)
(* What holds of the gateway processes of a machine, however many there    *)
(* are and however many calls they serve.                                  *)
(*                                                                         *)
(* OneGatewayWorks is not inductive alone: that the new owner of the       *)
(* extension finds no queue of an old one at work needs that a queue       *)
(* drops what it holds together with the extension, so Inv says whose      *)
(* requests may be pending at all.  FailedIsOver needs in addition that    *)
(* nothing is in a queue before a SERVER has taken it, and that a process  *)
(* that has ended stays so.                                                *)
(***************************************************************************)
EXTENDS Gateway, TLAPS

(* backlog is left out: it decides only which request is next. *)
Types ==
  /\ role \in [Processes -> Roles]
  /\ {http, ws, extension} \subseteq Processes \union {NoProcess}
  /\ caller \in [Requests -> Processes \union {NoProcess}]
  /\ call \in [Requests -> {"none"} \union Open \union Over]
  /\ server \in [Requests -> Processes \union {NoProcess}]
  /\ work \in [Requests -> {"none", "resolved", "rejected"} \union Pending]
  /\ kept \in [Requests -> Processes \union {NoProcess}]

(* The extension is where the port of the bridge is. *)
Connected == extension \in {NoProcess, ws}

(* A request is pending in the queue of a process that has the extension.    *)
Held == \A r \in Requests : work[r] \in Pending => server[r] \in Processes /\ extension = server[r]

OneRuns ==
  \A r, s \in Requests : (work[r] = "running" /\ work[s] = "running") => r = s

(* Only a request that has been taken by a SERVER has a state there, and it  *)
(* is not taken before its caller has found the SERVER.                      *)
Taken == \A r \in Requests :
  /\ call[r] \in {"none", "probing"} => server[r] = NoProcess
  /\ server[r] = NoProcess => work[r] = "none"
  /\ call[r] # "none" => caller[r] \in Processes

Inv == Types /\ Connected /\ Held /\ OneRuns /\ Taken /\ FailedIsOver

LEMMA Initially == Init => Inv
BY DEF Init, Inv, Types, Connected, Held, OneRuns, Taken, FailedIsOver, Pending, Roles

(* A queue that loses the extension loses what it holds; nothing else of the *)
(* work changes.                                                             *)
LEMMA Rejecting ==
  ASSUME Inv, NEW p \in Processes, RejectAll(p), Connected',
         extension' \in Processes \union {NoProcess},
         extension' = extension \/ extension = p
  PROVE  /\ server' = server
         /\ work' \in [Requests -> {"none", "resolved", "rejected"} \union Pending]
         /\ Held' /\ OneRuns'
         /\ \A r \in Requests :
              /\ work'[r] \in Pending => work'[r] = work[r] /\ server[r] # p
              /\ server[r] = NoProcess => work'[r] = "none"
<1>1. server' = server
  BY DEF RejectAll
<1>2. \A r \in Requests :
        work'[r] = IF server[r] = p /\ work[r] \in Pending THEN "rejected" ELSE work[r]
  BY DEF RejectAll
<1>3. work' \in [Requests -> {"none", "resolved", "rejected"} \union Pending]
  BY DEF RejectAll, Inv, Types, Pending
<1>4. \A r \in Requests : work'[r] \in Pending =>
        server[r] # p /\ work'[r] = work[r] /\ extension = server[r] /\ server[r] \in Processes
  BY <1>2 DEF Inv, Held, Pending
<1>5. Held'
  BY <1>1, <1>4, GatewayAssumption DEF Held
<1>6. OneRuns'
  BY <1>2, <1>4 DEF Inv, OneRuns, Pending
<1>7. \A r \in Requests :
        /\ work'[r] \in Pending => work'[r] = work[r] /\ server[r] # p
        /\ server[r] = NoProcess => work'[r] = "none"
  BY <1>2, GatewayAssumption DEF Inv, Taken, Pending
<1>. QED
  BY <1>1, <1>3, <1>5, <1>6, <1>7

(* The end of a process, by a signal, by a crash or because it lost the      *)
(* election, whatever it was.                                                *)
LEMMA EndsPreservesInv ==
  ASSUME Inv, NEW p \in Processes, Ends(p)
  PROVE  Inv'
<1>1. /\ http' \in Processes \union {NoProcess} /\ ws' \in Processes \union {NoProcess}
      /\ extension' \in Processes \union {NoProcess}
      /\ Connected' /\ (extension' = extension \/ extension = p)
  BY DEF Ends, Without, Inv, Types, Connected
<1>2. RejectAll(p) /\ caller' = caller
  BY DEF Ends
<1>3. /\ server' = server
      /\ work' \in [Requests -> {"none", "resolved", "rejected"} \union Pending]
      /\ Held' /\ OneRuns'
      /\ \A r \in Requests :
           /\ work'[r] \in Pending => work'[r] = work[r] /\ server[r] # p
           /\ server[r] = NoProcess => work'[r] = "none"
  BY <1>1, <1>2, Rejecting
<1>4. call' \in [Requests -> {"none"} \union Open \union Over]
  BY DEF Ends, Inv, Types, Open, Over
<1>5. \A r \in Requests :
        \/ call'[r] = call[r] /\ (call[r] \in Open => p \notin {caller[r], server[r]})
        \/ call'[r] = "failed" /\ call[r] \in Open /\ p \in {caller[r], server[r]}
  BY DEF Ends, Inv, Types
<1>6. /\ role' \in [Processes -> Roles]
      /\ \A q \in Processes : role'[q] = IF q = p THEN "ended" ELSE role[q]
      /\ kept' \in [Requests -> Processes \union {NoProcess}]
  BY DEF Ends, Becomes, Inv, Types, Roles
<1>7. Taken'
  BY <1>2, <1>3, <1>5 DEF Inv, Taken, Open
<1>8. FailedIsOver'
  <2> SUFFICES ASSUME NEW r \in Requests, work'[r] \in Pending,
                      call'[r] \notin Open, call'[r] # "timed out"
               PROVE  role'[caller[r]] = "ended"
    BY <1>2 DEF FailedIsOver
  <2>1. work[r] \in Pending /\ server[r] # p
    BY <1>3
  <2>2. caller[r] \in Processes
    BY <2>1 DEF Inv, Taken, Pending
  <2>3. CASE call'[r] = call[r]
    BY <1>6, <2>1, <2>2, <2>3 DEF Inv, FailedIsOver
  <2>4. CASE call'[r] # call[r]
    BY <1>5, <1>6, <2>1, <2>2, <2>4
  <2>. QED
    BY <2>3, <2>4
<1>. QED
  BY <1>1, <1>2, <1>3, <1>4, <1>6, <1>7, <1>8 DEF Inv, Types

(* A call is entered into the queue of the process that has the extension.   *)
LEMMA EnqueuePreserves ==
  ASSUME Inv, NEW r \in Requests, NEW p \in Processes, Enqueue(r, p),
         extension = p, extension' = extension, work[r] \notin Pending
  PROVE  /\ server' \in [Requests -> Processes \union {NoProcess}]
         /\ work' \in [Requests -> {"none", "resolved", "rejected"} \union Pending]
         /\ Held' /\ OneRuns'
         /\ \A s \in Requests \ {r} : server'[s] = server[s] /\ work'[s] = work[s]
         /\ server'[r] = p
<1>1. /\ \A s \in Requests : server'[s] = IF s = r THEN p ELSE server[s]
      /\ \A s \in Requests : work'[s] = IF s = r THEN "waiting" ELSE work[s]
  BY DEF Enqueue, Inv, Types
<1>2. /\ server' \in [Requests -> Processes \union {NoProcess}]
      /\ work' \in [Requests -> {"none", "resolved", "rejected"} \union Pending]
  BY DEF Enqueue, Inv, Types, Pending
<1>3. Held' /\ OneRuns'
  BY <1>1 DEF Inv, Held, OneRuns, Pending
<1>. QED
  BY <1>1, <1>2, <1>3

(* A process that has not ended plays another role; the ports may change     *)
(* hands, but not the extension's connection.                                *)
LEMMA RolePreserves ==
  ASSUME Inv, NEW p \in Processes, role[p] # "ended",
         NEW now \in Roles, Becomes(p, now),
         {http', ws'} \subseteq Processes \union {NoProcess},
         ws' = ws \/ ws = NoProcess,
         UNCHANGED <<extension, callVars, workVars, kept>>
  PROVE  Inv'
<1>1. /\ role' \in [Processes -> Roles]
      /\ \A q \in Processes : role[q] = "ended" => role'[q] = "ended"
  BY DEF Becomes, Inv, Types
<1>2. Types' /\ Connected' /\ Held' /\ OneRuns'
  BY <1>1 DEF Inv, Types, Connected, Held, OneRuns, callVars, workVars
<1>3. Taken'
  BY DEF Inv, Taken, callVars, workVars
<1>4. FailedIsOver'
  BY <1>1 DEF Inv, Taken, FailedIsOver, Pending, callVars, workVars
<1>. QED
  BY <1>2, <1>3, <1>4 DEF Inv

LEMMA StepPreservesInv ==
  ASSUME Inv, [Next]_vars
  PROVE  Inv'
<1>1. ASSUME NEW p \in Processes, StartGateway(p)
      PROVE  Inv'
  BY <1>1, RolePreserves DEF StartGateway, Inv, Types, Roles
<1>2. ASSUME NEW p \in Processes, ProbeAtStart(p)
      PROVE  Inv'
  <2>1. CASE Ends(p)
    BY <2>1, EndsPreservesInv
  <2>2. CASE ~Ends(p)
    BY <1>2, <2>2, RolePreserves DEF ProbeAtStart, Inv, Types, Roles
  <2>. QED
    BY <2>1, <2>2
<1>3. ASSUME NEW p \in Processes, BridgeStarts(p)
      PROVE  Inv'
  <2>1. CASE Ends(p)
    BY <2>1, EndsPreservesInv
  <2>2. CASE ~Ends(p)
    BY <1>3, <2>2, RolePreserves DEF BridgeStarts, Inv, Types, Roles
  <2>. QED
    BY <2>1, <2>2
<1>4. ASSUME NEW p \in Processes, Direct(p)
      PROVE  Inv'
  BY <1>4, RolePreserves DEF Direct, Inv, Types, Roles
<1>5. ASSUME NEW p \in Processes, Shutdown(p)
      PROVE  Inv'
  <2>1. CASE Ends(p)
    BY <2>1, EndsPreservesInv
  <2>2. CASE ~Ends(p)
    BY <1>5, <2>2, RolePreserves DEF Shutdown, Inv, Types, Roles
  <2>. QED
    BY <2>1, <2>2
<1>6. ASSUME NEW p \in Processes, Closed(p) \/ Crash(p)
      PROVE  Inv'
  BY <1>6, EndsPreservesInv DEF Closed, Crash
<1>7. ASSUME NEW p \in Processes, NEW r \in Requests, Call(p, r)
      PROVE  Inv'
  <2>1. /\ work[r] \notin Pending /\ UNCHANGED <<role, http, ws, extension, kept>>
        /\ caller' \in [Requests -> Processes \union {NoProcess}]
        /\ \A s \in Requests : caller'[s] = IF s = r THEN p ELSE caller[s]
    BY <1>7 DEF Call, Inv, Types
  <2>2. PICK now \in {"posted", "probing", "own", "failed"} : call' = [call EXCEPT ![r] = now]
    BY <1>7 DEF Call
  <2>3. call' \in [Requests -> {"none"} \union Open \union Over]
    BY <2>2 DEF Inv, Types, Open, Over
  <2>4. \A s \in Requests : call'[s] = IF s = r THEN now ELSE call[s]
    BY <2>2 DEF Inv, Types
  <2>5. CASE /\ server' = [server EXCEPT ![r] = NoProcess]
             /\ work' = [work EXCEPT ![r] = "none"]
    <3>1. \A s \in Requests : /\ server'[s] = IF s = r THEN NoProcess ELSE server[s]
                              /\ work'[s] = IF s = r THEN "none" ELSE work[s]
      BY <2>5 DEF Inv, Types
    <3>2. Types'
      BY <2>1, <2>3, <2>5 DEF Inv, Types
    <3>3. Connected' /\ Held' /\ OneRuns'
      BY <2>1, <3>1 DEF Inv, Connected, Held, OneRuns, Pending
    <3>4. Taken' /\ FailedIsOver'
      BY <2>1, <2>4, <3>1 DEF Inv, Taken, FailedIsOver, Pending
    <3>. QED
      BY <3>2, <3>3, <3>4 DEF Inv
  <2>6. CASE extension = p /\ Enqueue(r, p) /\ now = "own"
    <3>1. /\ server' \in [Requests -> Processes \union {NoProcess}]
          /\ work' \in [Requests -> {"none", "resolved", "rejected"} \union Pending]
          /\ Held' /\ OneRuns'
          /\ \A s \in Requests \ {r} : server'[s] = server[s] /\ work'[s] = work[s]
          /\ server'[r] = p
      BY <2>1, <2>6, EnqueuePreserves
    <3>2. call'[r] = "own" /\ caller'[r] = p /\ server'[r] # NoProcess
      BY <2>1, <2>4, <2>6, <3>1, GatewayAssumption
    <3>3. \A s \in Requests \ {r} :
            /\ call'[s] = call[s] /\ caller'[s] = caller[s]
            /\ server'[s] = server[s] /\ work'[s] = work[s]
      BY <2>1, <2>4, <3>1
    <3>4. Taken'
      BY <3>2, <3>3 DEF Inv, Taken
    <3>5. FailedIsOver'
      <4> SUFFICES ASSUME NEW s \in Requests, work'[s] \in Pending
                   PROVE  \/ call'[s] \in Open \/ call'[s] = "timed out"
                          \/ role'[caller'[s]] = "ended"
        BY DEF FailedIsOver
      <4>1. CASE s = r
        BY <3>2, <4>1 DEF Open
      <4>2. CASE s # r
        BY <2>1, <3>3, <4>2 DEF Inv, FailedIsOver, Pending
      <4>. QED
        BY <4>1, <4>2
    <3>. QED
      BY <2>1, <2>3, <3>1, <3>4, <3>5 DEF Inv, Types, Connected
  <2>7. CASE now = "failed" /\ UNCHANGED workVars
    <3>1. Types' /\ Connected' /\ Held' /\ OneRuns'
      BY <2>1, <2>3, <2>7 DEF Inv, Types, Connected, Held, OneRuns, workVars
    <3>2. Taken' /\ FailedIsOver'
      BY <2>1, <2>4, <2>7 DEF Inv, Taken, FailedIsOver, workVars
    <3>. QED
      BY <3>1, <3>2 DEF Inv
  <2>8. \/ /\ server' = [server EXCEPT ![r] = NoProcess]
           /\ work' = [work EXCEPT ![r] = "none"]
        \/ extension = p /\ Enqueue(r, p) /\ call' = [call EXCEPT ![r] = "own"]
        \/ call' = [call EXCEPT ![r] = "failed"] /\ UNCHANGED workVars
    BY <1>7 DEF Call
  <2>9. \A x : call' = [call EXCEPT ![r] = x] => now = x
    BY <2>2 DEF Inv, Types
  <2>. QED
    BY <2>5, <2>6, <2>7, <2>8, <2>9
<1>8. ASSUME NEW r \in Requests, Deliver(r)
      PROVE  Inv'
  <2>1. /\ call[r] = "posted" /\ server[r] = NoProcess /\ work[r] = "none"
        /\ UNCHANGED <<role, http, ws, extension, caller>>
        /\ kept' \in [Requests -> Processes \union {NoProcess}]
    BY <1>8 DEF Deliver, Inv, Types, Taken
  <2>2. PICK p \in Processes \union {NoProcess} : Reaches(r, p)
    BY <1>8 DEF Deliver, Lines, Inv, Types
  <2>3. CASE Fail({r}) /\ UNCHANGED workVars
    <3>1. /\ call' \in [Requests -> {"none"} \union Open \union Over]
          /\ \A s \in Requests : call'[s] = IF s = r THEN "failed" ELSE call[s]
      BY <2>3 DEF Fail, Inv, Types, Open, Over
    <3>2. Types' /\ Connected' /\ Held' /\ OneRuns'
      BY <2>1, <2>3, <3>1 DEF Inv, Types, Connected, Held, OneRuns, workVars
    <3>3. Taken' /\ FailedIsOver'
      BY <2>1, <2>3, <3>1 DEF Inv, Taken, FailedIsOver, workVars, Pending
    <3>. QED
      BY <3>2, <3>3 DEF Inv
  <2>4. CASE Ready(p) /\ Enqueue(r, p) /\ UNCHANGED call
    <3>1. p \in Processes /\ extension = p
      BY <2>4 DEF Ready
    <3>2. /\ server' \in [Requests -> Processes \union {NoProcess}]
          /\ work' \in [Requests -> {"none", "resolved", "rejected"} \union Pending]
          /\ Held' /\ OneRuns'
          /\ \A s \in Requests \ {r} : server'[s] = server[s] /\ work'[s] = work[s]
          /\ server'[r] = p
      BY <2>1, <2>4, <3>1, EnqueuePreserves DEF Pending
    <3>3. Taken' /\ FailedIsOver'
      BY <2>1, <2>4, <3>1, <3>2, GatewayAssumption DEF Inv, Taken, FailedIsOver, Open
    <3>. QED
      BY <2>1, <2>4, <3>2, <3>3 DEF Inv, Types, Connected
  <2>. QED
    BY <2>2, <2>3, <2>4 DEF Reaches
<1>9. ASSUME NEW r \in Requests, Probe(r) \/ GiveUp(r) \/ Answer(r)
      PROVE  Inv'
  <2>1. /\ UNCHANGED <<role, http, ws, extension, caller, server, work>>
        /\ kept' \in [Requests -> Processes \union {NoProcess}]
    BY <1>9 DEF Probe, GiveUp, Answer, workVars, Inv, Types
  <2>2. PICK now \in {"posted", "timed out", "failed", "answered"} :
          /\ \A s \in Requests : call'[s] = IF s = r THEN now ELSE call[s]
          /\ call' \in [Requests -> {"none"} \union Open \union Over]
          /\ now \in {"failed", "answered"} => work[r] \notin Pending
    <3>1. CASE Probe(r)
      <4>1. work[r] \notin Pending
        BY <3>1 DEF Probe, Inv, Taken, Pending
      <4>2. CASE call' = [call EXCEPT ![r] = "posted"]
        BY <4>2 DEF Inv, Types, Open, Over
      <4>3. CASE Fail({r})
        BY <4>1, <4>3 DEF Fail, Inv, Types, Open, Over
      <4>. QED
        BY <3>1, <4>2, <4>3 DEF Probe
    <3>2. CASE GiveUp(r)
      BY <3>2 DEF GiveUp, Inv, Types, Open, Over
    <3>3. CASE Answer(r)
      BY <3>3 DEF Answer, Fail, Inv, Types, Open, Over, Pending
    <3>. QED
      BY <1>9, <3>1, <3>2, <3>3
  <2>3. call[r] # "none"
    BY <1>9 DEF Probe, GiveUp, Answer
  <2>4. Types' /\ Connected' /\ Held' /\ OneRuns'
    BY <2>1, <2>2 DEF Inv, Types, Connected, Held, OneRuns
  <2>5. Taken' /\ FailedIsOver'
    BY <2>1, <2>2, <2>3 DEF Inv, Taken, FailedIsOver, Open
  <2>. QED
    BY <2>4, <2>5 DEF Inv
<1>10. ASSUME NEW r \in Requests, Start(r)
       PROVE  Inv'
  <2>1. /\ work[r] = "waiting"
        /\ UNCHANGED <<role, http, ws, extension, caller, call, server, kept>>
        /\ \A s \in Requests : work'[s] = IF s = r THEN "running" ELSE work[s]
        /\ work' \in [Requests -> {"none", "resolved", "rejected"} \union Pending]
    BY <1>10 DEF Start, callVars, Inv, Types, Pending
  <2>2. \A s \in Requests : work[s] # "running"
    <3>1. \A s \in Requests : work[s] = "running" => server[s] = server[r]
      BY <2>1 DEF Inv, Held, Pending
    <3>. QED
      BY <1>10, <3>1 DEF Start, Running
  <2>3. Held' /\ OneRuns'
    BY <2>1, <2>2 DEF Inv, Held, OneRuns, Pending
  <2>4. Taken' /\ FailedIsOver'
    BY <2>1, <2>2 DEF Inv, Taken, FailedIsOver, Pending
  <2>. QED
    BY <2>1, <2>3, <2>4 DEF Inv, Types, Connected
<1>11. ASSUME NEW r \in Requests, Finish(r)
       PROVE  Inv'
  <2>1. PICK verdict \in {"resolved", "rejected"} :
          /\ \A s \in Requests : work'[s] = IF s = r THEN verdict ELSE work[s]
          /\ work' \in [Requests -> {"none", "resolved", "rejected"} \union Pending]
    BY <1>11 DEF Finish, Inv, Types
  <2>2. /\ work[r] = "running"
        /\ UNCHANGED <<role, http, ws, extension, caller, call, server, kept>>
    BY <1>11 DEF Finish, callVars
  <2>3. Held' /\ OneRuns'
    BY <2>1, <2>2 DEF Inv, Held, OneRuns, Pending
  <2>4. Taken' /\ FailedIsOver'
    BY <2>1, <2>2 DEF Inv, Taken, FailedIsOver, Pending
  <2>. QED
    BY <2>1, <2>2, <2>3, <2>4 DEF Inv, Types, Connected
<1>12. CASE ExtensionDials
  <2>1. \A r \in Requests : work[r] \notin Pending
    BY <1>12, GatewayAssumption DEF ExtensionDials, Inv, Held
  <2>. QED
    BY <1>12, <2>1 DEF ExtensionDials, Inv, Types, Connected, Held, OneRuns, Taken, FailedIsOver,
                       callVars, workVars
<1>13. CASE ExtensionDrops
  <2>1. /\ extension \in Processes /\ RejectAll(extension)
        /\ extension' = NoProcess /\ Connected'
        /\ UNCHANGED <<role, http, ws, caller, call, kept>>
    BY <1>13 DEF ExtensionDrops, callVars, Inv, Types, Connected
  <2>2. /\ server' = server
        /\ work' \in [Requests -> {"none", "resolved", "rejected"} \union Pending]
        /\ Held' /\ OneRuns'
        /\ \A r \in Requests :
             /\ work'[r] \in Pending => work'[r] = work[r] /\ server[r] # extension
             /\ server[r] = NoProcess => work'[r] = "none"
    BY <2>1, Rejecting
  <2>3. Taken' /\ FailedIsOver'
    BY <2>1, <2>2 DEF Inv, Taken, FailedIsOver
  <2>. QED
    BY <2>1, <2>2, <2>3 DEF Inv, Types
<1>14. ASSUME NEW r \in Requests, Expires(r)
       PROVE  Inv'
  BY <1>14 DEF Expires, Inv, Types, Connected, Held, OneRuns, Taken, FailedIsOver, callVars, workVars
<1>15. CASE UNCHANGED vars
  BY <1>15 DEF vars, callVars, workVars, Inv, Types, Connected, Held, OneRuns, Taken, FailedIsOver
<1>. QED
  BY <1>1, <1>2, <1>3, <1>4, <1>5, <1>6, <1>7, <1>8, <1>9, <1>10, <1>11, <1>12, <1>13, <1>14, <1>15
     DEF Next

LEMMA GatewayInvariance == Spec => []Inv
<1>1. Init => Inv
  BY Initially
<1>2. Inv /\ [Next]_vars => Inv'
  BY StepPreservesInv
<1>. QED
  BY <1>1, <1>2, PTL DEF Spec

(* Whatever processes start, shut down or crash, and whoever gets which      *)
(* port, requests are pending at one process, over the extension's own       *)
(* connection, and one of them at a time is in the browser (the queue's      *)
(* processNext, and rejectActiveAndQueued on its disconnect).                *)
THEOREM OneGatewayAlwaysWorks == Spec => []OneGatewayWorks
<1>1. Inv => OneGatewayWorks
  BY DEF Inv, Held, OneRuns, OneGatewayWorks
<1>. QED
  BY <1>1, GatewayInvariance, PTL

(* What a client was told has failed is in no queue, through any sequence of *)
(* shutdowns, crashes and lost connections, on connections new or kept: only *)
(* the proxy's own timer gives up what a SERVER goes on with (rejectActive-  *)
(* AndQueued, and gatewayServer.ts answers after the queue has).             *)
THEOREM FailedCallsAreOver == Spec => []FailedIsOver
<1>1. Inv => FailedIsOver
  BY DEF Inv
<1>. QED
  BY <1>1, GatewayInvariance, PTL

=============================================================================

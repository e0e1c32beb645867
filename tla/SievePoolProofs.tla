-------------------------- MODULE SievePoolProofs --------------------------
(***************************************************************************)
(* Proofs about SievePool, for every set of sessions, calls and            *)
(* connections: the type invariant and the safety invariants that the run  *)
(* of MCSievePool checks, and that the pool implements a serial executor.  *)
(* They rest on two facts.  QueueInv says that the promises of one session *)
(* form a chain: a call that has not been cleaned up stands before the     *)
(* promise on which every later call waits, so that the clean-up of        *)
(* `queues' never breaks the chain.  It follows that at most one call of a *)
(* session is active.  ConnInv builds on that exclusion: only the active   *)
(* call changes what the pool holds for its session from nothing to a      *)
(* connection, so no entry is ever overwritten.                            *)
(*                                                                         *)
(* Then proofs about SieveFilters, which takes from SievePool that the     *)
(* calls of a session run one at a time: the invariants of the filter sets *)
(* and the action properties about their redirections, for any sessions,   *)
(* names and destinations, and with connections that break.                *)
(***************************************************************************)
EXTENDS Naturals, SievePool, TLAPS

CONSTANTS Names, Default, Targets, Texts, None, Absent, Unknown, MaxCalls, MaxFaults   \* SieveFilters

VARIABLES scripts, active, link, cache, call, calls, faults, confirmed, foreign, owed   \* SieveFilters

F == INSTANCE SieveFilters WITH conn <- link

\* The properties of MCRules that are about the filter sets.
FiltersSound == F!TypeOK /\ F!ConfirmedRedirects /\ F!OwnCacheTrue
ChangesTold == F!AlertsUnlessBroken /\ F!NothingAddedSilently

\* A call not yet made is nowhere in the queue.
IdleUnseen ==
  \A t \in Tasks : pc[t] = "idle" =>
    /\ prev[t] = NoTask
    /\ earlier[t] = {}
    /\ \A s \in Sids : last[s] # t
    /\ \A u \in Tasks : t \notin earlier[u] /\ prev[u] # t

\* The entry of `queues' is a call of the session that is not cleaned up, and
\* every other such call is earlier.
LastIsLatest ==
  /\ \A s \in Sids : last[s] # NoTask =>
       sidOf[last[s]] = s /\ pc[last[s]] \notin {"idle", "cleaned"}
  /\ \A t \in Tasks : pc[t] \notin {"idle", "cleaned"} =>
       LET l == last[sidOf[t]] IN l # NoTask /\ (t = l \/ t \in earlier[l])

\* Every earlier call of the session that is not cleaned up is the awaited one
\* or stands before it.
PrevCoversEarlier ==
  /\ \A t \in Tasks : prev[t] # NoTask => sidOf[prev[t]] = sidOf[t]
  /\ \A t \in Tasks : \A u \in earlier[t] :
       sidOf[u] = sidOf[t] /\ pc[u] # "cleaned" =>
         prev[t] # NoTask /\ (u = prev[t] \/ u \in earlier[prev[t]])

\* Once a call had its turn, every earlier call of its session is cleaned up.
TurnTaken ==
  \A t \in Tasks : pc[t] \in Active \union Finished =>
    \A u \in earlier[t] : sidOf[u] = sidOf[t] => pc[u] = "cleaned"

\* Two calls that were made are ordered.
Ordered ==
  \A t, u \in Tasks : pc[t] # "idle" /\ pc[u] # "idle" =>
    t = u \/ t \in earlier[u] \/ u \in earlier[t]

QueueInv ==
  IdleUnseen /\ LastIsLatest /\ PrevCoversEarlier /\ TurnTaken /\ Ordered

\* A pooled connection is not closed, belongs to one session, and its timer is
\* the only one of the session.
PooledIsLive ==
  /\ \A s \in Sids : pool[s] # NoConn => conn[pool[s]] \in {"open", "dead"}
  /\ \A s, r \in Sids : pool[s] # NoConn /\ pool[s] = pool[r] => s = r
  /\ \A s \in Sids : timers[s] = {pool[s]} \ {NoConn}

\* A connection that is not closed nor being closed is pooled.
LiveIsPooled ==
  \A c \in Conns : conn[c] \in {"open", "dead"} => \E s \in Sids : pool[s] = c

\* What an active call knows of the pool.
SessionOfCall ==
  /\ \A t \in Tasks : sess[t] # NoConn <=> pc[t] \in {"running", "closing", "retrying"}
  /\ \A t \in Tasks : pc[t] \in {"running", "retrying"} =>
       pool[sidOf[t]] \in {NoConn, sess[t]}
  /\ \A t \in Tasks : pc[t] \in {"opening", "closing", "reopening"} =>
       pool[sidOf[t]] = NoConn
  /\ \A t \in Tasks : \A s \in Sids :
       sess[t] # NoConn /\ pool[s] = sess[t] => s = sidOf[t]
  /\ \A t, u \in Tasks : sess[t] # NoConn /\ sess[t] = sess[u] => t = u

ConnInv == PooledIsLive /\ LiveIsPooled /\ SessionOfCall

Inv == TypeOK /\ QueueInv /\ ConnInv

----------------------------------------------------------------------------
(* Type correctness.                                                       *)

\* Every step keeps the variables in their types.
LEMMA TypeStep == TypeOK /\ [Next]_vars => TypeOK'
<1> SUFFICES ASSUME TypeOK, [Next]_vars PROVE TypeOK'
  OBVIOUS
<1> USE DEF TypeOK, PCs, Active, FirstTry, SecondTry, Finished, ConnStates, Outcomes,
            connVars, queueVars, callVars
<1>1. ASSUME NEW t \in Tasks, Run(t) PROVE TypeOK'
  BY <1>1 DEF Run
<1>2. ASSUME NEW t \in Tasks, CleanQueue(t) PROVE TypeOK'
  BY <1>2 DEF CleanQueue
<1>3. ASSUME NEW t \in Tasks, Start(t) PROVE TypeOK'
  BY <1>3 DEF Start, Rearm
<1>4. ASSUME NEW t \in Tasks, Opened(t) PROVE TypeOK'
  BY <1>4 DEF Opened, Rearm
<1>5. ASSUME NEW t \in Tasks, OpenFailed(t) PROVE TypeOK'
  BY <1>5 DEF OpenFailed, Settle
<1>6. ASSUME NEW t \in Tasks, Command(t) PROVE TypeOK'
  BY <1>6 DEF Command
<1>7. ASSUME NEW t \in Tasks, Answer(t) PROVE TypeOK'
  BY <1>7 DEF Answer
<1>8. ASSUME NEW t \in Tasks, FnDone(t) PROVE TypeOK'
  BY <1>8 DEF FnDone, Settle
<1>9. ASSUME NEW t \in Tasks, FnConnectionError(t) PROVE TypeOK'
  BY <1>9 DEF FnConnectionError, Delete, Closing
<1>10. ASSUME NEW t \in Tasks, ClosedForRetry(t) PROVE TypeOK'
  BY <1>10 DEF ClosedForRetry
<1>11. ASSUME NEW t \in Tasks, RetryConnectionError(t) PROVE TypeOK'
  BY <1>11 DEF RetryConnectionError, Settle
<1>12. ASSUME NEW s \in Sids, IdleTimeout(s) PROVE TypeOK'
  BY <1>12 DEF IdleTimeout, Delete, Closing
<1>13. ASSUME NEW s \in Sids, DeleteSession(s) PROVE TypeOK'
  BY <1>13 DEF DeleteSession, Delete, Closing
<1>14. ASSUME NEW c \in Conns, LogoutAnswered(c) \/ SocketClosed(c) PROVE TypeOK'
  BY <1>14 DEF LogoutAnswered, SocketClosed
<1>15. CASE UNCHANGED vars
  BY <1>15 DEF vars
<1> QED
  BY <1>1, <1>2, <1>3, <1>4, <1>5, <1>6, <1>7, <1>8, <1>9, <1>10, <1>11, <1>12,
     <1>13, <1>14, <1>15 DEF Next, TaskStep

\* The pool, the queue and the calls always have their types.
THEOREM TypeCorrect == Spec => []TypeOK
<1>1. Init => TypeOK
  BY DEF Init, TypeOK, PCs, ConnStates, Outcomes
<1> QED
  BY <1>1, TypeStep, PTL DEF Spec

----------------------------------------------------------------------------
(* The queue: one call of a session at a time, in order.                   *)

\* No call is queued at first.
LEMMA QueueInit == Init => QueueInv
BY NoTaskAssumption
   DEF Init, QueueInv, IdleUnseen, LastIsLatest, PrevCoversEarlier, TurnTaken, Ordered,
       Active, FirstTry, SecondTry, Finished

\* A call is appended to the chain of its session.
LEMMA QueueRun ==
  ASSUME TypeOK, QueueInv, NEW t \in Tasks, Run(t)
  PROVE  QueueInv'
<1> USE NoTaskAssumption
<1> USE DEF TypeOK, QueueInv, IdleUnseen, Run, connVars
<1>1. IdleUnseen'
  OBVIOUS
<1>2. LastIsLatest'
  BY DEF LastIsLatest
<1>3. PrevCoversEarlier'
  BY DEF PrevCoversEarlier, LastIsLatest
<1>4. TurnTaken'
  BY DEF TurnTaken, Active, FirstTry, SecondTry, Finished
<1>5. Ordered'
  BY DEF Ordered
<1> QED
  BY <1>1, <1>2, <1>3, <1>4, <1>5

\* Removing the entry of the latest call leaves no call uncovered, because the
\* calls before it are cleaned up already.
LEMMA QueueClean ==
  ASSUME TypeOK, QueueInv, NEW t \in Tasks, CleanQueue(t)
  PROVE  QueueInv'
<1> USE NoTaskAssumption
<1> USE DEF TypeOK, QueueInv, CleanQueue, connVars
<1>1. IdleUnseen'
  BY DEF IdleUnseen
<1>2. LastIsLatest'
  BY DEF LastIsLatest, TurnTaken, Finished
<1>3. PrevCoversEarlier'
  BY DEF PrevCoversEarlier
<1>4. TurnTaken'
  BY DEF TurnTaken, Active, FirstTry, SecondTry, Finished
<1>5. Ordered'
  BY DEF Ordered
<1> QED
  BY <1>1, <1>2, <1>3, <1>4, <1>5

\* A call takes its turn: the awaited call is cleaned up, hence all before it.
LEMMA QueueStart ==
  ASSUME TypeOK, QueueInv, NEW t \in Tasks, Start(t)
  PROVE  QueueInv'
<1> USE NoTaskAssumption
<1>0. /\ pc[t] = "waiting"
      /\ UNCHANGED queueVars
      /\ \E x \in {"opening", "running"} : pc' = [pc EXCEPT ![t] = x]
  BY DEF Start
<1> USE <1>0 DEF TypeOK, QueueInv, queueVars
<1>1. IdleUnseen'
  BY DEF IdleUnseen
<1>2. LastIsLatest'
  BY DEF LastIsLatest
<1>3. PrevCoversEarlier'
  BY DEF PrevCoversEarlier
<1>4. TurnTaken'
  <2>1. \A u \in earlier[t] : sidOf[u] = sidOf[t] => pc[u] = "cleaned"
    BY DEF Start, PreviousSettled, PrevCoversEarlier, TurnTaken, Finished
  <2> QED
    BY <2>1 DEF TurnTaken, Active, FirstTry, SecondTry, Finished
<1>5. Ordered'
  BY DEF Ordered
<1> QED
  BY <1>1, <1>2, <1>3, <1>4, <1>5

\* While a call is active, up to its settling, the queue does not change.
LEMMA QueueActive ==
  ASSUME TypeOK, QueueInv, UNCHANGED queueVars,
         NEW t \in Tasks, pc[t] \in Active,
         NEW x \in Active \union {"settled"}, pc' = [pc EXCEPT ![t] = x]
  PROVE  QueueInv'
<1> USE DEF TypeOK, QueueInv, queueVars, Active, FirstTry, SecondTry, Finished
<1>1. IdleUnseen'
  BY DEF IdleUnseen
<1>2. LastIsLatest'
  BY DEF LastIsLatest
<1>3. PrevCoversEarlier'
  BY DEF PrevCoversEarlier
<1>4. TurnTaken'
  BY DEF TurnTaken
<1>5. Ordered'
  BY DEF Ordered
<1> QED
  BY <1>1, <1>2, <1>3, <1>4, <1>5

\* Steps that leave the queue and the places of the calls alone.
LEMMA QueueFrame ==
  ASSUME QueueInv, UNCHANGED <<last, prev, sidOf, earlier, pc>>
  PROVE  QueueInv'
BY DEF QueueInv, IdleUnseen, LastIsLatest, PrevCoversEarlier, TurnTaken, Ordered

\* Every step keeps the order of the queues.
LEMMA QueueStep == TypeOK /\ QueueInv /\ [Next]_vars => QueueInv'
<1> SUFFICES ASSUME TypeOK, QueueInv, [Next]_vars PROVE QueueInv'
  OBVIOUS
<1> USE DEF Active, FirstTry, SecondTry
<1>1. ASSUME NEW t \in Tasks, Run(t) PROVE QueueInv'
  BY <1>1, QueueRun
<1>2. ASSUME NEW t \in Tasks, CleanQueue(t) PROVE QueueInv'
  BY <1>2, QueueClean
<1>3. ASSUME NEW t \in Tasks, Start(t) PROVE QueueInv'
  BY <1>3, QueueStart
<1>4. ASSUME NEW t \in Tasks, Opened(t) PROVE QueueInv'
  BY <1>4, QueueActive DEF Opened
<1>5. ASSUME NEW t \in Tasks, OpenFailed(t) PROVE QueueInv'
  BY <1>5, QueueActive DEF OpenFailed, Settle
<1>6. ASSUME NEW t \in Tasks, Command(t) \/ Answer(t) PROVE QueueInv'
  BY <1>6, QueueFrame DEF Command, Answer, queueVars
<1>7. ASSUME NEW t \in Tasks, FnDone(t) PROVE QueueInv'
  BY <1>7, QueueActive DEF FnDone, Settle
<1>8. ASSUME NEW t \in Tasks, FnConnectionError(t) PROVE QueueInv'
  BY <1>8, QueueActive DEF FnConnectionError, queueVars
<1>9. ASSUME NEW t \in Tasks, ClosedForRetry(t) PROVE QueueInv'
  BY <1>9, QueueActive DEF ClosedForRetry
<1>10. ASSUME NEW t \in Tasks, RetryConnectionError(t) PROVE QueueInv'
  BY <1>10, QueueActive DEF RetryConnectionError, Settle
<1>11. ASSUME NEW s \in Sids, IdleTimeout(s) \/ DeleteSession(s) PROVE QueueInv'
  BY <1>11, QueueFrame DEF IdleTimeout, DeleteSession, queueVars, callVars
<1>12. ASSUME NEW c \in Conns, LogoutAnswered(c) \/ SocketClosed(c) PROVE QueueInv'
  BY <1>12, QueueFrame DEF LogoutAnswered, SocketClosed, queueVars, callVars
<1>13. CASE UNCHANGED vars
  BY <1>13, QueueFrame DEF vars
<1> QED
  BY <1>1, <1>2, <1>3, <1>4, <1>5, <1>6, <1>7, <1>8, <1>9, <1>10, <1>11, <1>12,
     <1>13 DEF Next, TaskStep

\* The chain of promises of a session is never broken.
THEOREM QueueCorrect == Spec => []QueueInv
BY QueueInit, QueueStep, TypeCorrect, PTL DEF Spec

\* Serial, for every instance: the calls of a session run one at a time, in the
\* order in which run() was called.
THEOREM SerialCorrect == Spec => []Serial
<1>1. QueueInv => Serial
  BY DEF QueueInv, TurnTaken, Serial, Finished
<1> QED
  BY <1>1, QueueCorrect, PTL

----------------------------------------------------------------------------
(* The connections: none is lost, none is shared.                          *)

\* No connection is open at first.
LEMMA ConnInit == Init => ConnInv
BY DEF Init, ConnInv, PooledIsLive, LiveIsPooled, SessionOfCall

\* At most one call of a session is active.
LEMMA OneActive ==
  ASSUME TypeOK, QueueInv, NEW t \in Tasks, NEW u \in Tasks,
         pc[t] \in Active, pc[u] \in Active, sidOf[t] = sidOf[u]
  PROVE  t = u
BY DEF TypeOK, QueueInv, Ordered, TurnTaken, Active, FirstTry, SecondTry, Finished

\* delete(s) closes what it removes; timers and sessions of others are kept.
LEMMA ConnDelete ==
  ASSUME TypeOK, ConnInv, NEW s \in Sids, NEW fired \in SUBSET timers[s],
         Delete(s, fired), UNCHANGED <<sidOf, pc, sess>>
  PROVE  ConnInv'
<1> USE NoConnAssumption
<1> USE DEF TypeOK, ConnInv, PooledIsLive, Delete, Closing
<1>1. PooledIsLive'
  OBVIOUS
<1>2. LiveIsPooled'
  BY DEF LiveIsPooled
<1>3. SessionOfCall'
  BY DEF SessionOfCall
<1> QED
  BY <1>1, <1>2, <1>3

\* The turn of a call: it takes the pooled connection, which no other call uses.
LEMMA ConnStart ==
  ASSUME TypeOK, QueueInv, QueueInv', ConnInv, NEW t \in Tasks, Start(t)
  PROVE  ConnInv'
<1> USE NoConnAssumption
<1> USE DEF TypeOK, ConnInv, Start, Rearm, queueVars
<1>1. PooledIsLive'
  BY DEF PooledIsLive
<1>2. LiveIsPooled'
  BY DEF LiveIsPooled
<1>3. SessionOfCall'
  <2>1. \A u \in Tasks : sidOf[u] = sidOf[t] => pc[u] \notin Active
    <3> SUFFICES ASSUME NEW u \in Tasks, sidOf[u] = sidOf[t], pc[u] \in Active PROVE FALSE
      OBVIOUS
    <3>1. pc'[u] \in Active /\ pc'[t] \in Active /\ u # t
      BY DEF Active, FirstTry, SecondTry
    <3> QED
      BY <3>1 DEF QueueInv, Ordered, TurnTaken, Active, FirstTry, SecondTry, Finished
  <2>2. \A u \in Tasks : sess[u] # NoConn => sess[u] # pool[sidOf[t]]
    BY <2>1 DEF SessionOfCall, Active, FirstTry, SecondTry
  <2> QED
    BY <2>1, <2>2 DEF SessionOfCall, PooledIsLive, Active, FirstTry, SecondTry
<1> QED
  BY <1>1, <1>2, <1>3

\* A connection is opened only when nothing is pooled for the session, so
\* pooling it overwrites nothing.
LEMMA ConnOpened ==
  ASSUME TypeOK, QueueInv, ConnInv, NEW t \in Tasks, Opened(t)
  PROVE  ConnInv'
<1> USE NoConnAssumption
<1>0. PICK c \in Conns :
        /\ Fresh(c)
        /\ conn' = [conn EXCEPT ![c] = "open"]
        /\ pool' = [pool EXCEPT ![sidOf[t]] = c]
        /\ sess' = [sess EXCEPT ![t] = c]
        /\ Rearm(sidOf[t], c)
  BY DEF Opened
<1> USE <1>0 DEF TypeOK, ConnInv, Fresh, Rearm, queueVars
<1>1. pool[sidOf[t]] = NoConn /\ UNCHANGED sidOf
  BY DEF SessionOfCall, Opened
<1>2. pc[t] \in {"opening", "reopening"}
      /\ pc' = [pc EXCEPT ![t] = IF @ = "opening" THEN "running" ELSE "retrying"]
  BY DEF Opened
<1>3. \A u \in Tasks : pc[u] \in Active /\ sidOf[u] = sidOf[t] => u = t
  BY <1>2, OneActive DEF Active, FirstTry, SecondTry
<1>4. PooledIsLive'
  BY <1>1 DEF PooledIsLive
<1>5. LiveIsPooled'
  BY <1>1 DEF LiveIsPooled
<1>6. SessionOfCall'
  BY <1>1, <1>2, <1>3 DEF SessionOfCall, PooledIsLive, Active, FirstTry, SecondTry
<1> QED
  BY <1>4, <1>5, <1>6

\* A call that settles leaves its connection pooled.
LEMMA ConnSettle ==
  ASSUME TypeOK, ConnInv, NEW t \in Tasks, NEW r, Settle(t, r),
         UNCHANGED <<pool, timers, conn, sidOf>>
  PROVE  ConnInv'
BY DEF TypeOK, ConnInv, Settle, PooledIsLive, LiveIsPooled, SessionOfCall

\* The call that met a connection error removes its own entry, or finds none.
LEMMA ConnError ==
  ASSUME TypeOK, ConnInv, NEW t \in Tasks, FnConnectionError(t)
  PROVE  ConnInv'
<1> USE NoConnAssumption
<1> USE DEF TypeOK, ConnInv, FnConnectionError, connVars, queueVars
<1>1. CASE pool[sidOf[t]] = NoConn
  BY <1>1 DEF PooledIsLive, LiveIsPooled, SessionOfCall
<1>2. CASE pool[sidOf[t]] # NoConn
  <2>0. pool[sidOf[t]] = sess[t]
    BY <1>2 DEF SessionOfCall
  <2>1. /\ pool[sidOf[t]] = sess[t]
        /\ Delete(sidOf[t], {})
        /\ sess' = [sess EXCEPT ![t] = sess[t]]
        /\ pc' = [pc EXCEPT ![t] = "closing"]
    BY <1>2, <2>0, Zenon
  <2>2. PooledIsLive'
    BY <2>1 DEF PooledIsLive, Delete, Closing
  <2>3. LiveIsPooled'
    BY <2>1 DEF LiveIsPooled, PooledIsLive, Delete, Closing
  <2>4. SessionOfCall'
    BY <2>1 DEF SessionOfCall, Delete
  <2> QED
    BY <2>2, <2>3, <2>4
<1> QED
  BY <1>1, <1>2

\* Every step keeps the connections, their entries and their timers together.
LEMMA ConnStep ==
  TypeOK /\ QueueInv /\ QueueInv' /\ ConnInv /\ [Next]_vars => ConnInv'
<1> SUFFICES ASSUME TypeOK, QueueInv, QueueInv', ConnInv, [Next]_vars PROVE ConnInv'
  OBVIOUS
<1> USE NoConnAssumption
<1>1. ASSUME NEW t \in Tasks, Run(t) \/ CleanQueue(t) PROVE ConnInv'
  BY <1>1 DEF Run, CleanQueue, connVars, TypeOK, ConnInv, PooledIsLive, LiveIsPooled,
              SessionOfCall
<1>2. ASSUME NEW t \in Tasks, Start(t) PROVE ConnInv'
  BY <1>2, ConnStart
<1>3. ASSUME NEW t \in Tasks, Opened(t) PROVE ConnInv'
  BY <1>3, ConnOpened
<1>4. ASSUME NEW t \in Tasks, OpenFailed(t) PROVE ConnInv'
  BY <1>4, ConnSettle DEF OpenFailed, connVars, queueVars
<1>5. ASSUME NEW t \in Tasks, FnDone(t) PROVE ConnInv'
  BY <1>5, ConnSettle DEF FnDone, connVars, queueVars
<1>6. ASSUME NEW t \in Tasks, RetryConnectionError(t) PROVE ConnInv'
  BY <1>6, ConnSettle DEF RetryConnectionError, connVars, queueVars
<1>7. ASSUME NEW t \in Tasks, Command(t) \/ Answer(t) PROVE ConnInv'
  BY <1>7 DEF Command, Answer, connVars, queueVars, ConnInv, PooledIsLive, LiveIsPooled,
              SessionOfCall
<1>8. ASSUME NEW t \in Tasks, FnConnectionError(t) PROVE ConnInv'
  BY <1>8, ConnError
<1>9. ASSUME NEW t \in Tasks, ClosedForRetry(t) PROVE ConnInv'
  BY <1>9 DEF ClosedForRetry, connVars, queueVars, TypeOK, ConnInv, PooledIsLive,
              LiveIsPooled, SessionOfCall
<1>10. ASSUME NEW s \in Sids, IdleTimeout(s) \/ DeleteSession(s) PROVE ConnInv'
  <2>1. UNCHANGED <<sidOf, pc, sess>>
    BY <1>10 DEF IdleTimeout, DeleteSession, queueVars, callVars
  <2>2. \E fired \in SUBSET timers[s] : Delete(s, fired)
    BY <1>10 DEF IdleTimeout, DeleteSession
  <2> QED
    BY <2>1, <2>2, ConnDelete
<1>11. ASSUME NEW c \in Conns, LogoutAnswered(c) \/ SocketClosed(c) PROVE ConnInv'
  BY <1>11 DEF LogoutAnswered, SocketClosed, queueVars, callVars, TypeOK, ConnInv,
               PooledIsLive, LiveIsPooled, SessionOfCall
<1>12. CASE UNCHANGED vars
  BY <1>12 DEF vars, ConnInv, PooledIsLive, LiveIsPooled, SessionOfCall
<1> QED
  BY <1>1, <1>2, <1>3, <1>4, <1>5, <1>6, <1>7, <1>8, <1>9, <1>10, <1>11, <1>12
     DEF Next, TaskStep

\* The invariant of the module, for every instance.
THEOREM InvCorrect == Spec => []Inv
<1>1. Init => ConnInv
  BY ConnInit
<1>2. TypeOK /\ QueueInv /\ QueueInv' /\ ConnInv /\ [Next]_vars => ConnInv'
  BY ConnStep
<1> QED
  BY <1>1, <1>2, TypeCorrect, QueueCorrect, PTL DEF Spec, Inv

\* NoLostConnection and NoStaleTimer for every instance: what is not closed, nor
\* being closed, is pooled with its idle timer armed, once, and timers do not
\* outlive their entry.
THEOREM ConnectionsKeptCorrect == Spec => []ConnectionsKept
<1>1. Inv => NoLostConnection
  BY NoConnAssumption
     DEF Inv, TypeOK, ConnInv, PooledIsLive, LiveIsPooled, NoLostConnection
<1>2. Inv => NoStaleTimer
  BY DEF Inv, ConnInv, PooledIsLive, NoStaleTimer
<1> QED
  BY <1>1, <1>2, InvCorrect, PTL DEF ConnectionsKept

\* CallsApart for every instance: the calls of a session run one at a time, in the
\* order in which run() was called, never share a connection, and a call in service
\* is never doubled by a second connection of its session.
THEOREM CallsApartCorrect == Spec => []CallsApart
<1>1. Inv => OneCallPerConnection
  BY DEF Inv, ConnInv, SessionOfCall, OneCallPerConnection
<1> QED
  BY <1>1, InvCorrect, SerialCorrect, PTL DEF CallsApart

----------------------------------------------------------------------------
(* The refinement: the pool implements the serial executor.                *)

\* Status depends on the place of the call only, and distinguishes all four.
LEMMA StatusOf ==
  ASSUME TypeOK, NEW t \in Tasks
  PROVE  /\ pc[t] = "idle" <=> Status(t) = "unmade"
         /\ pc[t] = "waiting" <=> Status(t) = "queued"
         /\ pc[t] \in Active <=> Status(t) = "active"
         /\ pc[t] \in Finished <=> Status(t) = "over"
BY DEF TypeOK, Status, PCs, Active, FirstTry, SecondTry, Finished

\* Steps that leave every call where it is, or between the same two borders, are
\* stutters of the executor.
LEMMA SameStatus ==
  ASSUME TypeOK, UNCHANGED <<sidOf, earlier>>, NEW t \in Tasks, NEW x,
         pc' = [pc EXCEPT ![t] = x],
         \/ pc[t] \in Active /\ x \in Active
         \/ pc[t] \in Finished /\ x \in Finished
  PROVE  UNCHANGED Executor!vars
<1>1. \A u \in Tasks : Status(u)' = Status(u)
  BY DEF TypeOK, Status, Active, FirstTry, SecondTry, Finished
<1> QED
  BY <1>1 DEF Executor!vars

\* A call that goes from one place to another, the others staying, changes its
\* status alone.
LEMMA StatusUpdate ==
  ASSUME TypeOK, TypeOK', NEW t \in Tasks, NEW x, pc' = [pc EXCEPT ![t] = x]
  PROVE  [u \in Tasks |-> Status(u)]' =
           [[u \in Tasks |-> Status(u)] EXCEPT ![t] = Status(t)']
<1>1. \A u \in Tasks : u # t => pc'[u] = pc[u]
  BY DEF TypeOK
<1>2. \A u \in Tasks : u # t => Status(u)' = Status(u)
  BY <1>1 DEF Status
<1> QED
  BY <1>2

\* A call that settles ends.
LEMMA SettleEnds ==
  ASSUME TypeOK, TypeOK', UNCHANGED <<sidOf, earlier>>, NEW t \in Tasks,
         pc[t] \in Active, NEW r, Settle(t, r)
  PROVE  Executor!End(t)
<1>1. pc' = [pc EXCEPT ![t] = "settled"]
  BY DEF Settle
<1>2. Status(t) = "active" /\ Status(t)' = "over"
  BY <1>1 DEF TypeOK, Status, Active, FirstTry, SecondTry, Finished
<1> QED
  BY <1>1, <1>2, StatusUpdate DEF Executor!End

\* A call begins when its turn has come, and then nothing of its session that
\* was made before is left to be executed.
LEMMA StartBegins ==
  ASSUME TypeOK, TypeOK', QueueInv', NEW t \in Tasks, Start(t)
  PROVE  Executor!Begin(t)
<1>1. /\ pc[t] = "waiting"
      /\ UNCHANGED <<sidOf, earlier>>
      /\ \E x \in {"opening", "running"} : pc' = [pc EXCEPT ![t] = x]
  BY DEF Start, queueVars
<1>2. Status(t) = "queued" /\ Status(t)' = "active"
  BY <1>1 DEF TypeOK, Status, Active, FirstTry, SecondTry, Finished
<1>3. \A u \in earlier[t] : sidOf[u] = sidOf[t] => u \in Tasks /\ Status(u) = "over"
  <2>1. pc'[t] \in Active
    BY <1>1 DEF TypeOK, Active, FirstTry, SecondTry
  <2>2. \A u \in earlier[t] : u \in Tasks /\ (sidOf[u] = sidOf[t] => pc'[u] = "cleaned")
    BY <1>1, <2>1 DEF TypeOK, QueueInv, TurnTaken
  <2>3. \A u \in earlier[t] : sidOf[u] = sidOf[t] => pc[u] = "cleaned"
    BY <1>1, <2>2 DEF TypeOK
  <2> QED
    BY <2>2, <2>3, StatusOf DEF Finished
<1>4. [u \in Tasks |-> Status(u)]' = [[u \in Tasks |-> Status(u)] EXCEPT ![t] = "active"]
  BY <1>1, <1>2, StatusUpdate
<1> QED
  BY <1>1, <1>2, <1>3, <1>4 DEF Executor!Begin, TypeOK

\* A call is made.
LEMMA RunSubmits ==
  ASSUME TypeOK, TypeOK', NEW t \in Tasks, Run(t)
  PROVE  Executor!Submit(t)
<1>1. Status(t) = "unmade" /\ Status(t)' = "queued"
  BY DEF Run, TypeOK, Status, Active, FirstTry, SecondTry, Finished
<1>2. {u \in Tasks : pc[u] # "idle"} = {u \in Tasks : Status(u) # "unmade"}
  BY StatusOf
<1>3. [u \in Tasks |-> Status(u)]' = [[u \in Tasks |-> Status(u)] EXCEPT ![t] = "queued"]
  BY <1>1, StatusUpdate DEF Run
<1> QED
  BY <1>1, <1>2, <1>3 DEF Executor!Submit, Run

\* Every step of the pool is one of the executor, or none.
LEMMA ExecutorStep ==
  TypeOK /\ TypeOK' /\ QueueInv' /\ [Next]_vars => [Executor!Next]_(Executor!vars)
<1> SUFFICES ASSUME TypeOK, TypeOK', QueueInv', [Next]_vars
             PROVE  Executor!Next \/ UNCHANGED Executor!vars
  OBVIOUS
<1> USE DEF Executor!Next
<1>1. ASSUME NEW t \in Tasks, Run(t) PROVE Executor!Next
  BY <1>1, RunSubmits
<1>2. ASSUME NEW t \in Tasks, Start(t) PROVE Executor!Next
  BY <1>2, StartBegins
<1>3. ASSUME NEW t \in Tasks, OpenFailed(t) \/ FnDone(t) \/ RetryConnectionError(t)
      PROVE Executor!Next
  BY <1>3, SettleEnds DEF OpenFailed, FnDone, RetryConnectionError, queueVars, Active,
                          FirstTry, SecondTry
<1>4. ASSUME NEW t \in Tasks, CleanQueue(t) PROVE UNCHANGED Executor!vars
  BY <1>4, SameStatus DEF CleanQueue, Finished
<1>5. ASSUME NEW t \in Tasks, Opened(t) \/ FnConnectionError(t) \/ ClosedForRetry(t)
      PROVE UNCHANGED Executor!vars
  <2>1. /\ UNCHANGED <<sidOf, earlier>>
        /\ pc[t] \in Active
        /\ \E x \in Active : pc' = [pc EXCEPT ![t] = x]
    BY <1>5 DEF Opened, FnConnectionError, ClosedForRetry, queueVars, Active, FirstTry,
                SecondTry
  <2> QED
    BY <2>1, SameStatus
<1>6. ASSUME UNCHANGED <<sidOf, earlier, pc>> PROVE UNCHANGED Executor!vars
  BY <1>6 DEF Executor!vars, Status
<1>7. ASSUME NEW t \in Tasks, Command(t) \/ Answer(t) PROVE UNCHANGED Executor!vars
  BY <1>6, <1>7 DEF Command, Answer, queueVars
<1>8. ASSUME NEW s \in Sids, IdleTimeout(s) \/ DeleteSession(s)
      PROVE UNCHANGED Executor!vars
  BY <1>6, <1>8 DEF IdleTimeout, DeleteSession, queueVars, callVars
<1>9. ASSUME NEW c \in Conns, LogoutAnswered(c) \/ SocketClosed(c)
      PROVE UNCHANGED Executor!vars
  BY <1>6, <1>9 DEF LogoutAnswered, SocketClosed, queueVars, callVars
<1>10. CASE UNCHANGED vars
  BY <1>6, <1>10 DEF vars
<1> QED
  BY <1>1, <1>2, <1>3, <1>4, <1>5, <1>7, <1>8, <1>9, <1>10 DEF Next, TaskStep

\* ExecutesSerially for every instance: the pool, with its retries, timers and
\* logouts, implements an executor that runs each call once and in order.
THEOREM ExecutesSeriallyCorrect == Spec => ExecutesSerially
<1>1. Init => Executor!Init
  <2> SUFFICES ASSUME Init PROVE Executor!Init
    OBVIOUS
  <2>1. \A t \in Tasks : Status(t) = "unmade"
    BY DEF Init, Status, Active, FirstTry, SecondTry, Finished
  <2> QED
    BY <2>1 DEF Init, Executor!Init
<1> QED
  BY <1>1, ExecutorStep, TypeCorrect, QueueCorrect, PTL
     DEF Spec, ExecutesSerially, Executor!Spec

----------------------------------------------------------------------------
(* The filter sets.                                                        *)

\* The calls.
CallType ==
  [op : F!Ops \union {"none"}, name : Names \union {None}, from : Names \union {None},
   value : F!Destinations \union F!Replies \union F!Scripts, confirm : {"password", "code", None},
   at : {"idle", "start", "read", "put", "activate", "delete", "alert"},
   first : BOOLEAN, spent : BOOLEAN, broke : BOOLEAN,
   todo : SUBSET Names, write : F!Scripts, sensitive : BOOLEAN]

\* What the user asks for.
Asked(c) ==
  /\ c.op \in {"rules", "forward"} => c.value \in F!Destinations
  /\ c.op = "vacation" => c.value \in F!Replies
  /\ c.op \in {"script", "import"} => c.value \in F!Scripts

Named == F!Ops \ (F!Settings \union {"status", "deactivate"})

\* What a call that has not ended knows, where a user has confirmed the destinations Sent.
GoodCall(c, Sent) ==
  /\ c \in CallType /\ Asked(c)
  /\ c # F!Idle => c.op \in F!Ops /\ c.at # "idle"
  /\ (c.op \in Named \/ c.at = "put") => c.name \in Names
  /\ c.at = "read" => c.op \in F!Reads \union F!Settings \union {"rules", "create"}
  /\ (c.at = "read" /\ c.op = "rules") => c.todo = {c.name}
  /\ c.at = "put" => c.op \in F!Writes /\ F!Mentions(c.write) \subseteq Sent
  /\ c.at = "activate" => c.op = "deactivate" \/ c.name \in Names
  /\ c.at = "delete" => c.op = "delete"
  /\ c.at = "start" => ~c.sensitive

GoodCalls ==
  /\ call \in [Sids -> CallType]
  /\ \A s \in Sids : GoodCall(call[s], confirmed)

\* What a session keeps of a script was confirmed, too.
CachedConfirmed ==
  \A s \in Sids : \A n \in Names :
    cache[s][n] # Unknown => F!Mentions(cache[s][n]) \subseteq confirmed

History ==
  /\ calls \in Nat /\ faults \in Nat
  /\ foreign \in [Sids -> SUBSET Names] /\ owed \in [Sids -> BOOLEAN]

FiltersInv == GoodCalls /\ CachedConfirmed /\ History /\ FiltersSound

\* A redirection written without its alert yet is written by a call that comes to it, or
\* runs again.
AlertsDue ==
  \A s \in Sids : owed[s] /\ call[s] # F!Idle =>
    call[s].broke \/ call[s].at = "alert" \/ (call[s].at = "activate" /\ call[s].sensitive)

\* A call is about to add no destination that it was not told to confirm.
AddsNothing ==
  \A s \in Sids :
    /\ call[s].at = "put" /\ ~call[s].sensitive /\ call[s].op \in F!Settings \union {"rules"}
    /\ call[s].name \notin foreign[s]
    => F!Mentions(call[s].write) \subseteq
         (IF scripts[call[s].name] = Absent THEN {} ELSE F!Mentions(scripts[call[s].name]))

\* A call that has read the sets has a connection.
DeadIsSeen ==
  \A s \in Sids : link[s] = "dead" /\ call[s] # F!Idle =>
    call[s].at = "start" \/ call[s].op \in {"export", "deactivate", "import"}

ChangesInv == AlertsDue /\ AddsNothing /\ DeadIsSeen

\* A step that replaces the call of s by c.
Moves(s, c) ==
  /\ call' = [call EXCEPT ![s] = c]
  /\ confirmed \subseteq confirmed'
  /\ GoodCall(c, confirmed')
  /\ c # F!Idle => c.op = call[s].op /\ c.broke = call[s].broke

\* What c writes unasked names only destinations of R, and is written to set n where R is not empty.
Quiet(c, n, R) ==
  c.at = "put" /\ ~c.sensitive /\ c.op \in F!Settings \union {"rules"} =>
    F!Mentions(c.write) \subseteq R /\ (c.name = n \/ R = {})

\* The scripts that are generated from others.
LEMMA GeneratedIsScript ==
  ASSUME NEW r \in F!Destinations, NEW v \in F!Replies, NEW f \in F!Destinations
  PROVE  /\ F!Generated(r, v, f) \in F!Scripts
         /\ F!Mentions(F!Generated(r, v, f)) = {r, v.to, f} \ {None}
<1>1. v.to \in F!Destinations /\ F!Blocks(r, v, f) \subseteq {r, v.to, f} \ {None}
  BY DEF F!Blocks, F!Replies
<1>2. F!Blocks(r, v, f) \in SUBSET Targets
  BY <1>1 DEF F!Destinations
<1> QED
  BY <1>1, <1>2 DEF F!Generated, F!Script, F!Scripts, F!Mentions

LEMMA EmptyIsScript ==
  F!Empty \in F!Scripts /\ F!Mentions(F!Empty) = {} /\ F!Empty.rules = None
    /\ F!Empty.vacation = F!Off /\ F!Empty.forward = None /\ F!Off \in F!Replies /\ F!Off.to = None
<1>1. F!Off \in F!Replies /\ F!Off.to = None /\ None \in F!Destinations
  BY DEF F!Off, F!Replies, F!Destinations
<1>2. F!Empty \in F!Scripts /\ F!Mentions(F!Empty) = {}
  BY <1>1, GeneratedIsScript DEF F!Empty
<1> QED
  BY <1>1, <1>2 DEF F!Empty, F!Generated, F!Script

LEMMA IdleIsGood ==
  ASSUME NEW Sent
  PROVE  F!Idle \in CallType /\ GoodCall(F!Idle, Sent) /\ F!Idle.at = "idle" /\ F!Idle.op = "none"
<1>1. F!Empty \in F!Scripts /\ None \in F!Destinations
  BY EmptyIsScript DEF F!Destinations
<1>2. /\ F!NewCall("none", None, None, None, None) \in CallType
      /\ F!NewCall("none", None, None, None, None).op = "none"
  BY <1>1 DEF F!NewCall, CallType
<1>3. F!Idle \in CallType /\ F!Idle.at = "idle" /\ F!Idle.op = "none"
  BY <1>2 DEF F!Idle, CallType
<1> QED
  BY <1>3 DEF GoodCall, Asked, Named, F!Ops, F!Reads, F!Writes, F!Settings

\* A call that ends.
LEMMA EndMoves ==
  ASSUME NEW s \in Sids, call' = F!Ended(s), UNCHANGED confirmed
  PROVE  Moves(s, F!Idle) /\ \A n, R : Quiet(F!Idle, n, R)
  BY IdleIsGood DEF F!Ended, Moves, Quiet

\* What a call decides to write.
LEMMA GoesMoves ==
  ASSUME GoodCalls, NEW s \in Sids, call[s].op \in F!Writes,
         NEW name \in Names, NEW content \in F!Scripts, NEW sensitive \in BOOLEAN,
         F!Mentions(content) \subseteq (IF sensitive THEN confirmed \union F!Asks(call[s]) ELSE confirmed),
         F!Goes(s, name, content, sensitive)
  PROVE  \E c \in CallType :
           /\ Moves(s, c)
           /\ c.at = "put" => c.name = name /\ c.write = content /\ c.sensitive = sensitive
<1> DEFINE next == [call[s] EXCEPT !.at = "put", !.name = name, !.write = content,
                                   !.sensitive = sensitive, !.spent = @ \/ sensitive]
<1>1. call[s] \in CallType
  BY DEF GoodCalls
<1>2. CASE /\ sensitive => F!Confirms(s)
           /\ call' = [call EXCEPT ![s] = next]
           /\ confirmed' = IF sensitive THEN confirmed \union F!Asks(call[s]) ELSE confirmed
  <2>1. next \in CallType
    BY <1>1 DEF CallType
  <2>2. /\ next.at = "put" /\ next.op = call[s].op /\ next.broke = call[s].broke
        /\ next.name = name /\ next.write = content /\ next.sensitive = sensitive
        /\ next.value = call[s].value
    BY <1>1 DEF CallType
  <2>3. F!Mentions(content) \subseteq confirmed' /\ confirmed \subseteq confirmed'
    BY <1>2
  <2> HIDE DEF next
  <2>4. GoodCall(next, confirmed')
    BY <2>1, <2>2, <2>3, IdleIsGood DEF GoodCalls, GoodCall, Asked, F!Writes, F!Settings, F!Ops
  <2> QED
    BY <1>2, <2>1, <2>2, <2>3, <2>4 DEF Moves
<1>3. CASE sensitive /\ call' = F!Ended(s) /\ UNCHANGED confirmed
  BY <1>3, EndMoves, IdleIsGood
<1> QED
  BY <1>2, <1>3 DEF F!Goes

LEMMA RulesMove ==
  ASSUME GoodCalls, NEW s \in Sids, call[s].op = "rules", call[s].name \in Names,
         NEW content \in F!Scripts, F!Mentions(content) \subseteq confirmed,
         F!WritesRules(s, content)
  PROVE  \E c \in CallType : Moves(s, c) /\ Quiet(c, call[s].name, F!Mentions(content))
<1> DEFINE new == F!Generated(call[s].value, content.vacation, content.forward)
<1>1. call[s].value \in F!Destinations
  BY DEF GoodCalls, GoodCall, Asked
<1>2. content.vacation \in F!Replies /\ content.forward \in F!Destinations
  BY DEF F!Scripts
<1>3. new \in F!Scripts /\ F!Mentions(new) = {call[s].value, content.vacation.to, content.forward} \ {None}
  BY <1>1, <1>2, GeneratedIsScript
<1>4. call[s].value = None => F!Mentions(new) \subseteq F!Mentions(content)
  BY <1>3 DEF F!Mentions
<1>5. F!Asks(call[s]) = {call[s].value} \ {None}
  BY DEF F!Asks
<1>6. F!Mentions(new) \subseteq confirmed \union F!Asks(call[s])
  BY <1>3, <1>5 DEF F!Mentions
<1>7. CASE content.managed /\ F!Goes(s, call[s].name, new, call[s].value # None)
  <2> DEFINE asked == call[s].value # None
  <2> HIDE DEF new
  <2>1. call[s].op \in F!Writes /\ asked \in BOOLEAN /\ F!Goes(s, call[s].name, new, asked)
    BY <1>7 DEF F!Writes
  <2>2. ~asked => F!Mentions(new) \subseteq F!Mentions(content)
    BY <1>4
  <2> HIDE DEF asked
  <2>3. PICK c \in CallType : Moves(s, c) /\
          (c.at = "put" => c.name = call[s].name /\ c.write = new /\ c.sensitive = asked)
    BY <1>3, <1>6, <2>1, <2>2, GoesMoves
  <2>4. Quiet(c, call[s].name, F!Mentions(content))
    BY <2>2, <2>3 DEF Quiet
  <2> QED
    BY <2>3, <2>4
<1>8. CASE F!Refuses(s)
  BY <1>8, EndMoves, IdleIsGood DEF F!Refuses
<1> QED
  BY <1>7, <1>8 DEF F!WritesRules

LEMMA TextMoves ==
  ASSUME GoodCalls, NEW s \in Sids, call[s].op \in {"script", "import"}, call[s].name \in Names,
         F!WritesText(s)
  PROVE  \E c \in CallType : Moves(s, c) /\ \A n, R : Quiet(c, n, R)
<1>1. F!Goes(s, call[s].name, call[s].value, TRUE)
  BY DEF F!WritesText
<1>2. call[s].value \in F!Scripts
  BY DEF GoodCalls, GoodCall, Asked
<1>3. call[s].op \in F!Writes
  BY DEF F!Writes
<1>4. F!Asks(call[s]) = F!Mentions(call[s].value)
  <2>1. call[s].op # "vacation" /\ call[s].op \notin {"rules", "forward"}
    OBVIOUS
  <2> QED
    BY <2>1 DEF F!Asks
<1>5. \A sensitive \in BOOLEAN :
        sensitive => F!Mentions(call[s].value)
                       \subseteq (IF sensitive THEN confirmed \union F!Asks(call[s]) ELSE confirmed)
  BY <1>4
<1>6. PICK c \in CallType : Moves(s, c) /\ (c.at = "put" => c.sensitive = TRUE)
  BY <1>1, <1>2, <1>3, <1>5, GoesMoves
<1> QED
  BY <1>6 DEF Quiet

LEMMA CopyMoves ==
  ASSUME GoodCalls, NEW s \in Sids, call[s].op = "create", call[s].name \in Names,
         NEW content \in F!Scripts, F!Mentions(content) \subseteq confirmed,
         F!WritesCopy(s, content)
  PROVE  \E c \in CallType : Moves(s, c) /\ \A n, R : Quiet(c, n, R)
<1> DEFINE new == IF content.managed THEN F!Generated(content.rules, F!Off, None) ELSE content
<1>1. new \in F!Scripts /\ F!Mentions(new) \subseteq F!Mentions(content)
  <2>1. /\ content.rules \in F!Destinations /\ None \in F!Destinations
        /\ F!Off \in F!Replies /\ F!Off.to = None
    BY EmptyIsScript DEF F!Scripts, F!Destinations
  <2>2. /\ F!Generated(content.rules, F!Off, None) \in F!Scripts
        /\ F!Mentions(F!Generated(content.rules, F!Off, None)) = {content.rules, None} \ {None}
    BY <2>1, GeneratedIsScript
  <2>3. F!Mentions(F!Generated(content.rules, F!Off, None)) \subseteq F!Mentions(content)
    BY <2>2 DEF F!Mentions
  <2> QED
    BY <2>2, <2>3
<1>2. F!Goes(s, call[s].name, new, FALSE)
  BY DEF F!WritesCopy
<1> HIDE DEF new
<1>3. call[s].op \in F!Writes
  BY DEF F!Writes
<1>4. PICK c \in CallType : Moves(s, c)
  BY <1>1, <1>2, <1>3, GoesMoves
<1>5. ASSUME NEW n, NEW R
      PROVE  Quiet(c, n, R)
  BY <1>4, IdleIsGood DEF Quiet, Moves, F!Settings
<1> QED
  BY <1>4, <1>5

LEMMA SettingMoves ==
  ASSUME F!NamesAssumption, GoodCalls, NEW s \in Sids, call[s].op \in F!Settings,
         NEW name \in Names \union {None},
         NEW content \in F!Scripts, F!Mentions(content) \subseteq confirmed,
         name = None => content = F!Empty,
         F!WritesSetting(s, name, content)
  PROVE  \E c \in CallType : Moves(s, c) /\ Quiet(c, name, F!Mentions(content))
<1> DEFINE data == F!Data(content)
           target == IF name = None THEN Default ELSE name
           away == F!Generated(data.rules, call[s].value, data.forward)
           sent == F!Generated(data.rules, data.vacation, call[s].value)
<1>1. target \in Names /\ call[s].op \in F!Writes
  BY DEF F!NamesAssumption, F!Writes
<1>a. /\ call[s].op = "vacation" => call[s].value \in F!Replies /\ F!Asks(call[s]) = {call[s].value.to} \ {None}
      /\ call[s].op = "forward" => call[s].value \in F!Destinations /\ F!Asks(call[s]) = {call[s].value} \ {None}
  BY DEF GoodCalls, GoodCall, Asked, F!Asks
<1>2. /\ data \in F!Scripts /\ F!Mentions(data) \subseteq F!Mentions(content)
      /\ data.rules \in F!Destinations /\ data.vacation \in F!Replies
      /\ data.forward \in F!Destinations
  BY EmptyIsScript DEF F!Data, F!Scripts
<1>3. name = None => F!Mentions(content) = {}
  BY EmptyIsScript
<1>4. /\ call[s].op = "vacation" =>
           away \in F!Scripts /\ F!Mentions(away) = {data.rules, call[s].value.to, data.forward} \ {None}
      /\ call[s].op = "forward" =>
           sent \in F!Scripts /\ F!Mentions(sent) = {data.rules, data.vacation.to, call[s].value} \ {None}
  BY <1>a, <1>2, GeneratedIsScript
<1>5. {data.rules, data.vacation.to, data.forward} \ {None} \subseteq F!Mentions(data)
  BY DEF F!Mentions
<1> HIDE DEF data, target, away, sent
<1>6. ASSUME NEW new \in F!Scripts, NEW sensitive \in BOOLEAN,
             ~sensitive => F!Mentions(new) \subseteq F!Mentions(content),
             F!Mentions(new) \subseteq confirmed \union F!Asks(call[s]),
             F!Goes(s, target, new, sensitive)
      PROVE  \E c \in CallType : Moves(s, c) /\ Quiet(c, name, F!Mentions(content))
  <2>1. PICK c \in CallType : Moves(s, c) /\
          (c.at = "put" => c.name = target /\ c.write = new /\ c.sensitive = sensitive)
    BY <1>1, <1>6, GoesMoves
  <2>2. Quiet(c, name, F!Mentions(content))
    BY <1>3, <1>6, <2>1 DEF Quiet, target
  <2> QED
    BY <2>1, <2>2
<1>7. CASE F!Refuses(s)
  BY <1>7, EndMoves, IdleIsGood DEF F!Refuses
<1>8. CASE /\ call[s].op = "vacation"
           /\ F!Goes(s, target, away, F!NeedsConfirmation(data.vacation, call[s].value))
  <2>0. F!Mentions(away) \subseteq confirmed \union F!Asks(call[s])
    BY <1>a, <1>2, <1>4, <1>5, <1>8
  <2>1. F!NeedsConfirmation(data.vacation, call[s].value) \in BOOLEAN
    BY DEF F!NeedsConfirmation
  <2>2. ~F!NeedsConfirmation(data.vacation, call[s].value) => F!Mentions(away) \subseteq F!Mentions(content)
    BY <1>2, <1>4, <1>5, <1>8 DEF F!NeedsConfirmation
  <2> QED
    BY <1>4, <1>6, <1>8, <2>0, <2>1, <2>2
<1>9. CASE call[s].op = "forward" /\ F!Goes(s, target, sent, call[s].value # None)
  <2>0. F!Mentions(sent) \subseteq confirmed \union F!Asks(call[s])
    BY <1>a, <1>2, <1>4, <1>5, <1>9
  <2>1. ~(call[s].value # None) => F!Mentions(sent) \subseteq F!Mentions(content)
    BY <1>2, <1>4, <1>5, <1>9
  <2> QED
    BY <1>4, <1>6, <1>9, <2>0, <2>1
<1>10. call[s].op = "vacation" \/ call[s].op = "forward"
  BY DEF F!Settings
<1> QED
  BY <1>7, <1>8, <1>9, <1>10 DEF F!WritesSetting, data, target, away, sent

LEMMA ReadingMoves ==
  ASSUME GoodCalls, NEW s \in Sids, NEW names \in SUBSET Names,
         call[s].op \in F!Reads \union F!Settings \union {"rules", "create"},
         call[s].op = "rules" => names = {call[s].name},
         F!Reading(s, names)
  PROVE  \E c \in CallType : Moves(s, c) /\ \A n, R : Quiet(c, n, R)
<1> DEFINE next == [call[s] EXCEPT !.at = "read", !.todo = names]
<1>1. call[s] \in CallType /\ GoodCall(call[s], confirmed)
  BY DEF GoodCalls
<1>2. next \in CallType
  BY <1>1 DEF CallType
<1>3. /\ next.at = "read" /\ next.todo = names /\ next.op = call[s].op /\ next.broke = call[s].broke
      /\ next.name = call[s].name /\ next.value = call[s].value
  BY <1>1 DEF CallType
<1>4. call' = [call EXCEPT ![s] = next] /\ confirmed' = confirmed
  BY DEF F!Reading
<1> HIDE DEF next
<1>5. GoodCall(next, confirmed')
  BY <1>1, <1>2, <1>3, IdleIsGood DEF GoodCall, Asked, F!Ops, F!Writes
<1> QED
  BY <1>2, <1>3, <1>4, <1>5 DEF Moves, Quiet

LEMMA GotoMoves ==
  ASSUME GoodCalls, NEW s \in Sids, NEW at \in {"activate", "delete"},
         call[s].op \in F!Ops, at = "delete" => call[s].op = "delete",
         call[s].op = "deactivate" \/ call[s].name \in Names,
         F!Goto(s, at)
  PROVE  \E c \in CallType : Moves(s, c) /\ \A n, R : Quiet(c, n, R)
<1> DEFINE next == [call[s] EXCEPT !.at = at]
<1>1. call[s] \in CallType /\ GoodCall(call[s], confirmed)
  BY DEF GoodCalls
<1>2. next \in CallType
  BY <1>1 DEF CallType
<1>3. /\ next.at = at /\ next.op = call[s].op /\ next.broke = call[s].broke
      /\ next.name = call[s].name /\ next.value = call[s].value
  BY <1>1 DEF CallType
<1>4. call' = [call EXCEPT ![s] = next] /\ confirmed' = confirmed
  BY DEF F!Goto
<1> HIDE DEF next
<1>5. GoodCall(next, confirmed')
  BY <1>1, <1>2, <1>3, IdleIsGood DEF GoodCall, Asked
<1> QED
  BY <1>2, <1>3, <1>4, <1>5 DEF Moves, Quiet

\* A call after LISTSCRIPTS.
LEMMA ListMoves ==
  ASSUME F!NamesAssumption, F!TypeOK, GoodCalls, NEW s \in Sids, F!List(s)
  PROVE  \E c \in CallType : Moves(s, c) /\ \A n : Quiet(c, n, {})
<1> DEFINE c == call[s]
<1>1. c \in CallType /\ GoodCall(c, confirmed) /\ c.op \in F!Ops \ {"deactivate", "export", "import"}
  BY DEF GoodCalls, F!List, F!Ready
<1>2. c.op \in Named => c.name \in Names
  BY <1>1 DEF GoodCall
<1>4. CASE F!Refuses(s)
  BY <1>4, EndMoves, IdleIsGood DEF F!Refuses
<1>5. CASE c.op = "status" /\ F!Reading(s, F!Listed)
  <2>1. F!Listed \in SUBSET Names /\ c.op \in F!Reads /\ c.op # "rules"
    BY <1>5 DEF F!Reads, F!Listed
  <2> QED
    BY <1>5, <2>1, ReadingMoves
<1>6. CASE c.op = "create" /\ F!Goes(s, c.name, F!Empty, FALSE)
  <2>1. c.name \in Names /\ c.op \in F!Writes
    BY <1>2, <1>6 DEF Named, F!Ops, F!Writes, F!Settings
  <2>2. F!Mentions(F!Empty) \subseteq confirmed
    BY EmptyIsScript
  <2>3. PICK d \in CallType : Moves(s, d)
    BY <1>6, <2>1, <2>2, EmptyIsScript, GoesMoves
  <2>4. \A n : Quiet(d, n, {})
    BY <1>6, <2>3, IdleIsGood DEF Quiet, Moves, F!Settings
  <2> QED
    BY <2>3, <2>4
<1>7. CASE c.op = "create" /\ c.from \in F!Listed /\ F!Reading(s, {c.from})
  <2>1. {c.from} \in SUBSET Names /\ c.op # "rules"
    BY <1>7 DEF F!Listed
  <2> QED
    BY <1>7, <2>1, ReadingMoves
<1>8. CASE c.op \in F!Settings /\ F!WritesSetting(s, None, F!Empty)
  <2>1. PICK d \in CallType : Moves(s, d) /\ Quiet(d, None, {})
    BY <1>8, EmptyIsScript, SettingMoves
  <2>2. \A n : Quiet(d, n, {})
    BY <2>1 DEF Quiet
  <2> QED
    BY <2>1, <2>2
<1>9. CASE c.op \in F!Settings /\ active # None /\ F!Reading(s, {active})
  <2>1. {active} \in SUBSET Names /\ c.op # "rules"
    BY <1>9 DEF F!TypeOK, F!Settings
  <2> QED
    BY <1>9, <2>1, ReadingMoves
<1>10. CASE c.op \in {"get", "rules"} /\ F!Reading(s, {c.name})
  <2>1. {c.name} \in SUBSET Names
    BY <1>2, <1>10 DEF Named, F!Ops, F!Writes, F!Reads, F!Settings
  <2> QED
    BY <1>10, <2>1, ReadingMoves DEF F!Reads
<1>11. CASE c.op = "script" /\ F!WritesText(s)
  <2>1. c.name \in Names
    BY <1>2, <1>11 DEF Named, F!Ops, F!Writes, F!Settings
  <2> QED
    BY <1>11, <2>1, TextMoves
<1>12. CASE c.op \in {"activate", "delete"} /\ F!Goto(s, c.op)
  <2>1. c.name \in Names
    BY <1>2, <1>12 DEF Named, F!Ops, F!Settings
  <2> QED
    BY <1>1, <1>12, <2>1, GotoMoves
<1> QED
  BY <1>4, <1>5, <1>6, <1>7, <1>8, <1>9, <1>10, <1>11, <1>12 DEF F!List, F!Listing

\* A call that does not list the sets.
LEMMA SkipMoves ==
  ASSUME GoodCalls, NEW s \in Sids, F!Skip(s)
  PROVE  \E c \in CallType : Moves(s, c) /\ \A n, R : Quiet(c, n, R)
<1>1. call[s] \in CallType /\ GoodCall(call[s], confirmed)
  BY DEF GoodCalls
<1>2. CASE call[s].op = "export" /\ F!Reading(s, {call[s].name})
  <2>1. {call[s].name} \in SUBSET Names
    BY <1>1, <1>2 DEF GoodCall, Named, F!Ops, F!Reads, F!Settings
  <2> QED
    BY <1>2, <2>1, ReadingMoves DEF F!Reads
<1>3. CASE call[s].op = "deactivate" /\ F!Goto(s, "activate")
  BY <1>3, GotoMoves DEF F!Ops
<1>4. CASE call[s].op = "import" /\ F!WritesText(s)
  <2>1. call[s].name \in Names
    BY <1>1, <1>4 DEF GoodCall, Named, F!Ops, F!Writes, F!Settings
  <2> QED
    BY <1>4, <2>1, TextMoves
<1> QED
  BY <1>2, <1>3, <1>4 DEF F!Skip

\* A call that has read script n.
LEMMA AnswersMoves ==
  ASSUME F!NamesAssumption, GoodCalls, NEW s \in Sids, NEW n \in Names, n \in call[s].todo, call[s].at = "read",
         F!Known(s, n) \in F!Scripts, F!Mentions(F!Known(s, n)) \subseteq confirmed,
         F!Answers(s, n)
  PROVE  \E c \in CallType : Moves(s, c) /\ Quiet(c, n, F!Mentions(F!Known(s, n)))
<1> DEFINE c == call[s]
           k == F!Known(s, n)
<1>1. c \in CallType /\ GoodCall(c, confirmed)
  BY DEF GoodCalls
<1>2. c.op \in F!Reads \/ c.op = "rules" \/ c.op \in F!Settings \/ c.op = "create"
  BY <1>1 DEF GoodCall
<1>3. CASE c.todo # {n} /\ F!Reading(s, c.todo \ {n})
  <2>1. c.todo \ {n} \in SUBSET Names /\ c.op \in F!Reads \union F!Settings \union {"rules", "create"}
    BY <1>1, <1>2 DEF CallType
  <2>2. c.op # "rules"
    BY <1>1, <1>3 DEF GoodCall
  <2> QED
    BY <1>3, <2>1, <2>2, ReadingMoves
<1>4. CASE F!Refuses(s)
  BY <1>4, EndMoves, IdleIsGood DEF F!Refuses
<1>5. CASE c.op = "rules" /\ F!WritesRules(s, k)
  <2>1. c.name \in Names /\ n = c.name
    BY <1>1, <1>5 DEF GoodCall, Named, F!Ops, F!Writes, F!Settings
  <2> HIDE DEF k
  <2>2. k \in F!Scripts /\ F!Mentions(k) \subseteq confirmed
    BY DEF k
  <2>3. PICK d \in CallType : Moves(s, d) /\ Quiet(d, n, F!Mentions(k))
    BY <1>5, <2>1, <2>2, RulesMove
  <2> QED
    BY <2>3 DEF k
<1>6. CASE c.op \in F!Settings /\ F!WritesSetting(s, n, k)
  <2> HIDE DEF k
  <2>1. k \in F!Scripts /\ F!Mentions(k) \subseteq confirmed /\ n # None
    BY DEF k, F!NamesAssumption
  <2>2. PICK d \in CallType : Moves(s, d) /\ Quiet(d, n, F!Mentions(k))
    BY <1>6, <2>1, SettingMoves
  <2> QED
    BY <2>2 DEF k
<1>7. CASE c.op = "create" /\ F!WritesCopy(s, k)
  <2> HIDE DEF k
  <2>1. k \in F!Scripts /\ F!Mentions(k) \subseteq confirmed
    BY DEF k
  <2>2. c.name \in Names
    BY <1>1, <1>7 DEF GoodCall, Named, F!Ops, F!Writes, F!Settings
  <2>3. PICK d \in CallType : Moves(s, d) /\ \A m, R : Quiet(d, m, R)
    BY <1>7, <2>1, <2>2, CopyMoves
  <2> QED
    BY <2>3
<1>8. \/ c.todo # {n} /\ F!Reading(s, c.todo \ {n})
      \/ F!Refuses(s)
      \/ c.op = "rules" /\ F!WritesRules(s, k)
      \/ c.op \in F!Settings /\ F!WritesSetting(s, n, k)
      \/ c.op = "create" /\ F!WritesCopy(s, k)
  BY <1>1, <1>2 DEF F!Answers, F!Reads, F!Settings
<1> QED
  BY <1>3, <1>4, <1>5, <1>6, <1>7, <1>8

----------------------------------------------------------------------------
(* What the steps do to the sets, the caches and the calls.                *)

LEMMA KnownFacts ==
  ASSUME F!NamesAssumption, FiltersInv, NEW s \in Sids, NEW n \in Names, F!Known(s, n) # Absent
  PROVE  F!Known(s, n) \in F!Scripts /\ F!Mentions(F!Known(s, n)) \subseteq confirmed
  BY DEF F!NamesAssumption, FiltersInv, FiltersSound, F!TypeOK, F!ConfirmedRedirects, CachedConfirmed,
         F!Known

LEMMA CallsKept ==
  ASSUME GoodCalls, NEW s \in Sids, NEW c \in CallType, Moves(s, c)
  PROVE  /\ GoodCalls' /\ call'[s] = c
         /\ \A t \in Sids \ {s} : call'[t] = call[t]
<1>1. call' \in [Sids -> CallType] /\ call'[s] = c /\ \A t \in Sids \ {s} : call'[t] = call[t]
  BY DEF GoodCalls, Moves
<1>2. ASSUME NEW t \in Sids PROVE GoodCall(call'[t], confirmed')
  <2>1. CASE t = s
    BY <1>1, <2>1 DEF Moves
  <2>2. CASE t # s
    <3>1. GoodCall(call[t], confirmed) /\ confirmed \subseteq confirmed'
      BY DEF GoodCalls, Moves
    <3> QED
      BY <1>1, <2>2, <3>1 DEF GoodCall
  <2> QED
    BY <2>1, <2>2
<1> QED
  BY <1>1, <1>2 DEF GoodCalls

\* A step of a call that leaves the server, the connections and the caches alone.
LEMMA LocalStep ==
  ASSUME FiltersInv, NEW s \in Sids, call[s] # F!Idle, NEW c \in CallType, Moves(s, c),
         UNCHANGED <<scripts, active, link, cache, calls, faults, foreign>>,
         owed' \in [Sids -> BOOLEAN]
  PROVE  FiltersInv'
<1>1. GoodCalls' /\ CachedConfirmed' /\ History'
  BY CallsKept DEF FiltersInv, CachedConfirmed, History, Moves
<1>2. F!TypeOK'
  BY CallsKept DEF FiltersInv, FiltersSound, F!TypeOK
<1>3. F!ConfirmedRedirects' /\ F!OwnCacheTrue'
  BY DEF FiltersInv, FiltersSound, F!ConfirmedRedirects, F!OwnCacheTrue, Moves
<1> QED
  BY <1>1, <1>2, <1>3 DEF FiltersInv, FiltersSound

\* A command that writes changes a set that the other sessions no longer know.
LEMMA EffectFacts ==
  ASSUME F!NamesAssumption, FiltersInv, NEW s \in Sids, F!Writing(s), F!Possible(s), F!Effect(s),
         UNCHANGED confirmed
  PROVE  /\ scripts' \in [Names -> F!Scripts \union {Absent}]
         /\ active' \in Names \union {None} /\ (active' # None => scripts'[active'] # Absent)
         /\ F!ConfirmedRedirects'
         /\ foreign' \in [Sids -> SUBSET Names] /\ owed' \in [Sids -> BOOLEAN]
         /\ \A t \in Sids \ {s} : \A n \in Names \ foreign'[t] :
              n \notin foreign[t] /\ scripts'[n] = scripts[n]
<1>1. call[s] \in CallType /\ GoodCall(call[s], confirmed)
  BY DEF FiltersInv, GoodCalls
<1>2. CASE call[s].at = "put"
  <2>1. F!Put(s)
    BY <1>2 DEF F!Effect
  <2>2. call[s].name \in Names /\ call[s].write \in F!Scripts /\ call[s].sensitive \in BOOLEAN
        /\ F!Mentions(call[s].write) \subseteq confirmed
    BY <1>1, <1>2 DEF GoodCall, CallType
  <2>3. scripts' = [scripts EXCEPT ![call[s].name] = call[s].write] /\ active' = active
    BY <2>1 DEF F!Put
  <2>4. scripts' \in [Names -> F!Scripts \union {Absent}] /\ F!ConfirmedRedirects'
    BY <2>2, <2>3 DEF FiltersInv, FiltersSound, F!TypeOK, F!ConfirmedRedirects
  <2>5. active' \in Names \union {None} /\ (active' # None => scripts'[active'] # Absent)
    BY <2>2, <2>3 DEF FiltersInv, FiltersSound, F!TypeOK, F!NamesAssumption
  <2>6. foreign' \in [Sids -> SUBSET Names] /\ owed' \in [Sids -> BOOLEAN]
    BY <2>1, <2>2 DEF F!Put, F!Touched, FiltersInv, History
  <2>7. \A t \in Sids \ {s} : \A n \in Names \ foreign'[t] :
          n \notin foreign[t] /\ scripts'[n] = scripts[n]
    BY <2>1, <2>3 DEF F!Put, F!Touched, FiltersInv, FiltersSound, F!TypeOK
  <2> QED
    BY <2>4, <2>5, <2>6, <2>7
<1>3. CASE call[s].at = "activate"
  <2>1. F!SetActive(s) /\ (call[s].op # "deactivate" => scripts[call[s].name] # Absent)
    BY <1>3 DEF F!Effect, F!Possible
  <2>2. call[s].op = "deactivate" \/ call[s].name \in Names
    BY <1>1, <1>3 DEF GoodCall
  <2> QED
    BY <2>1, <2>2 DEF F!SetActive, FiltersInv, FiltersSound, F!TypeOK, F!ConfirmedRedirects, History
<1>4. CASE call[s].at = "delete"
  <2>1. F!DeleteScript(s) /\ active # call[s].name
    BY <1>4 DEF F!Effect, F!Possible
  <2>2. call[s].name \in Names
    BY <1>1, <1>4 DEF GoodCall, Named, F!Ops, F!Settings
  <2>3. scripts' = [scripts EXCEPT ![call[s].name] = Absent] /\ active' = active /\ owed' = owed
    BY <2>1 DEF F!DeleteScript
  <2>4. scripts' \in [Names -> F!Scripts \union {Absent}] /\ F!ConfirmedRedirects'
    BY <2>2, <2>3 DEF FiltersInv, FiltersSound, F!TypeOK, F!ConfirmedRedirects
  <2>5. active' \in Names \union {None} /\ (active' # None => scripts'[active'] # Absent)
    BY <2>1, <2>2, <2>3 DEF FiltersInv, FiltersSound, F!TypeOK
  <2>6. foreign' \in [Sids -> SUBSET Names] /\ owed' \in [Sids -> BOOLEAN]
    BY <2>1, <2>2, <2>3 DEF F!DeleteScript, F!Touched, FiltersInv, History
  <2>7. \A t \in Sids \ {s} : \A n \in Names \ foreign'[t] :
          n \notin foreign[t] /\ scripts'[n] = scripts[n]
    BY <2>1, <2>3 DEF F!DeleteScript, F!Touched, FiltersInv, FiltersSound, F!TypeOK
  <2> QED
    BY <2>4, <2>5, <2>6, <2>7
<1> QED
  BY <1>2, <1>3, <1>4 DEF F!Writing

\* A session whose cache is forgotten, and a step of another one.
LEMMA CachesAfter ==
  ASSUME FiltersInv, NEW s \in Sids, UNCHANGED confirmed,
         \A t \in Sids \ {s} : link'[t] = link[t] /\ cache'[t] = cache[t],
         \A t \in Sids \ {s} : \A n \in Names \ foreign'[t] :
            n \notin foreign[t] /\ scripts'[n] = scripts[n],
         \A n \in Names : cache'[s][n] # Unknown => F!Mentions(cache'[s][n]) \subseteq confirmed,
         link'[s] = "up" => \A n \in Names \ foreign'[s] : cache'[s][n] \in {Unknown, scripts'[n]}
  PROVE  CachedConfirmed' /\ F!OwnCacheTrue'
  BY DEF FiltersInv, CachedConfirmed, FiltersSound, F!OwnCacheTrue

\* A new call of any kind.
LEMMA RequestIsGood ==
  ASSUME F!NamesAssumption, NEW r \in F!Requests, NEW Sent
  PROVE  r \in CallType /\ GoodCall(r, Sent) /\ r.at = "start" /\ r # F!Idle /\ r.sensitive = FALSE
<1> DEFINE Values == F!Destinations \union F!Replies \union F!Scripts
<1>1. PICK op \in F!Ops, n \in Names \union {None}, f \in Names \union {None}, v \in Values,
           c \in {"password", "code"} :
        /\ r = F!NewCall(op, n, f, v, c) /\ (op \in Named => n \in Names)
        /\ op \in {"rules", "forward"} => v \in F!Destinations
        /\ op = "vacation" => v \in F!Replies
        /\ op \in {"script", "import"} => v \in F!Scripts
  <2> USE DEF F!Ops, F!Reads, F!Writes, F!Settings, Named
  <2>0. None \in Values
    BY DEF F!Destinations
  <2>1. CASE \E op \in {"status", "deactivate"} : r = F!NewCall(op, None, None, None, "password")
    BY <2>0, <2>1
  <2>2. CASE \E op \in {"get", "export", "activate", "delete"}, n \in Names :
               r = F!NewCall(op, n, None, None, "password")
    BY <2>0, <2>2
  <2>3. CASE \E n \in Names, f \in Names \union {None} : r = F!NewCall("create", n, f, None, "password")
    BY <2>0, <2>3
  <2>4. CASE \E op \in {"script", "import"}, n \in Names, v \in Texts, c \in {"password", "code"} :
               r = F!NewCall(op, n, None, v, c)
    BY <2>4 DEF F!NamesAssumption
  <2>5. CASE \E n \in Names, v \in F!Destinations, c \in {"password", "code"} :
               r = F!NewCall("rules", n, None, v, c)
    BY <2>5
  <2>6. CASE \E v \in F!Replies, c \in {"password", "code"} : r = F!NewCall("vacation", None, None, v, c)
    BY <2>6
  <2>7. CASE \E v \in F!Destinations, c \in {"password", "code"} : r = F!NewCall("forward", None, None, v, c)
    BY <2>7
  <2> QED
    BY <2>1, <2>2, <2>3, <2>4, <2>5, <2>6, <2>7 DEF F!Requests
<1>2. /\ r.op = op /\ r.name = n /\ r.value = v /\ r.at = "start" /\ r.sensitive = FALSE
      /\ r \in [op : F!Ops \union {"none"}, name : Names \union {None}, from : Names \union {None},
                value : Values, confirm : {"password", "code", None},
                at : {"idle", "start", "read", "put", "activate", "delete", "alert"},
                first : BOOLEAN, spent : BOOLEAN, broke : BOOLEAN,
                todo : SUBSET Names, write : F!Scripts, sensitive : BOOLEAN]
  BY <1>1, EmptyIsScript DEF F!NewCall
<1> QED
  BY <1>1, <1>2, IdleIsGood DEF CallType, GoodCall, Asked

LEMMA CallStep ==
  ASSUME F!NamesAssumption, FiltersInv, NEW s \in Sids, F!Call(s)
  PROVE  FiltersInv'
<1>1. PICK r \in F!Requests : call' = [call EXCEPT ![s] = r]
  BY DEF F!Call
<1>2. r \in CallType /\ GoodCall(r, confirmed)
  BY RequestIsGood
<1>3. UNCHANGED <<scripts, active, cache, faults, confirmed, foreign>> /\ calls' = calls + 1
      /\ owed' = [owed EXCEPT ![s] = FALSE]
      /\ link' = [link EXCEPT ![s] = IF @ = "none" THEN "up" ELSE @]
  BY DEF F!Call, F!server
<1>4. GoodCalls'
  BY <1>1, <1>2, <1>3 DEF FiltersInv, GoodCalls
<1>5. CachedConfirmed' /\ History'
  BY <1>3 DEF FiltersInv, CachedConfirmed, History
<1>6. F!TypeOK' /\ F!ConfirmedRedirects'
  BY <1>1, <1>3 DEF FiltersInv, FiltersSound, F!TypeOK, F!ConfirmedRedirects, GoodCalls
<1>7. F!OwnCacheTrue'
  BY <1>3 DEF FiltersInv, FiltersSound, F!TypeOK, F!OwnCacheTrue
<1> QED
  BY <1>4, <1>5, <1>6, <1>7 DEF FiltersInv, FiltersSound

LEMMA ReadStep ==
  ASSUME F!NamesAssumption, FiltersInv, NEW s \in Sids, F!Read(s)
  PROVE  FiltersInv'
<1>1. PICK n \in call[s].todo :
        /\ cache[s][n] = Unknown => link[s] = "up"
        /\ \/ F!Known(s, n) = Absent /\ F!Refuses(s) /\ UNCHANGED <<cache, foreign>>
           \/ /\ F!Known(s, n) # Absent /\ F!Answers(s, n)
              /\ cache' = [cache EXCEPT ![s][n] = F!Known(s, n)]
              /\ foreign' = IF cache[s][n] = Unknown
                            THEN [foreign EXCEPT ![s] = @ \ {n}] ELSE foreign
  BY DEF F!Read
<1>2. call[s].at = "read" /\ call[s] # F!Idle /\ n \in Names
  BY <1>1, IdleIsGood DEF F!Read, FiltersInv, GoodCalls, CallType
<1>3. UNCHANGED <<scripts, active, link, calls, faults, owed>>
  BY DEF F!Read, F!server
<1>4. CASE F!Refuses(s) /\ UNCHANGED <<cache, foreign>>
  <2>1. Moves(s, F!Idle) /\ F!Idle \in CallType
    BY <1>4, EndMoves, IdleIsGood DEF F!Refuses
  <2> QED
    BY <1>2, <1>3, <1>4, <2>1, LocalStep DEF FiltersInv, History
<1>5. CASE /\ F!Known(s, n) # Absent /\ F!Answers(s, n)
           /\ cache' = [cache EXCEPT ![s][n] = F!Known(s, n)]
           /\ foreign' = IF cache[s][n] = Unknown
                         THEN [foreign EXCEPT ![s] = @ \ {n}] ELSE foreign
  <2>1. F!Known(s, n) \in F!Scripts /\ F!Mentions(F!Known(s, n)) \subseteq confirmed
    BY <1>2, <1>5, KnownFacts
  <2>2. PICK c \in CallType : Moves(s, c)
    BY <1>2, <1>5, <2>1, AnswersMoves DEF FiltersInv
  <2>3. GoodCalls' /\ call'[s] = c /\ \A t \in Sids \ {s} : call'[t] = call[t]
    BY <2>2, CallsKept DEF FiltersInv
  <2>4. confirmed \subseteq confirmed'
    BY <2>2 DEF Moves
  <2>5. cache' \in [Sids -> [Names -> F!Scripts \union {Unknown}]]
    BY <1>2, <1>5, <2>1 DEF FiltersInv, FiltersSound, F!TypeOK
  <2>6. CachedConfirmed'
    BY <1>2, <1>5, <2>1, <2>4 DEF FiltersInv, FiltersSound, F!TypeOK, CachedConfirmed
  <2>7. History'
    BY <1>3, <1>5 DEF FiltersInv, History
  <2>8. link[s] # "none"
    BY <1>2 DEF FiltersInv, FiltersSound, F!TypeOK
  <2>9. F!TypeOK'
    <3>1. \A t \in Sids : link'[t] = "none" => call'[t] = F!Idle /\ \A m \in Names : cache'[t][m] = Unknown
      BY <1>3, <1>5, <2>3, <2>8 DEF FiltersInv, FiltersSound, F!TypeOK
    <3> QED
      BY <1>3, <2>5, <3>1 DEF FiltersInv, FiltersSound, F!TypeOK
  <2>10. F!ConfirmedRedirects'
    BY <1>3, <2>4 DEF FiltersInv, FiltersSound, F!ConfirmedRedirects
  <2>11. F!OwnCacheTrue'
    BY <1>1, <1>2, <1>3, <1>5 DEF FiltersInv, FiltersSound, F!TypeOK, F!OwnCacheTrue, F!Known, History
  <2> QED
    BY <2>3, <2>6, <2>7, <2>9, <2>10, <2>11 DEF FiltersInv, FiltersSound
<1> QED
  BY <1>1, <1>4, <1>5

LEMMA ForgetFacts ==
  ASSUME F!TypeOK, NEW s \in Sids
  PROVE  /\ F!Forget(s) \in [Sids -> [Names -> F!Scripts \union {Unknown}]]
         /\ \A n \in Names : F!Forget(s)[s][n] = Unknown
         /\ \A t \in Sids \ {s} : F!Forget(s)[t] = cache[t]
  BY DEF F!TypeOK, F!Forget

\* What becomes of a call when its command is done.
LEMMA AfterWriteMoves ==
  ASSUME FiltersInv, NEW s \in Sids, call[s] # F!Idle, F!Writing(s), call' = F!AfterWrite(s), UNCHANGED confirmed
  PROVE  \E c \in CallType :
           /\ Moves(s, c) /\ \A n, R : Quiet(c, n, R)
           /\ \/ c = F!Idle /\ ~(call[s].at = "put" /\ call[s].op \in F!Settings) /\ ~call[s].sensitive
              \/ c.at = "alert" /\ ~(call[s].at = "put" /\ call[s].op \in F!Settings)
              \/ c.at = "activate" /\ c.sensitive = call[s].sensitive /\ call[s].at = "put"
                   /\ call[s].op \in F!Settings
<1>1. call[s] \in CallType /\ GoodCall(call[s], confirmed)
  BY DEF FiltersInv, GoodCalls
<1>2. CASE call[s].at = "put" /\ call[s].op \in F!Settings /\ call' = [call EXCEPT ![s].at = "activate"]
  <2> DEFINE c == [call[s] EXCEPT !.at = "activate"]
  <2>1. /\ c \in CallType /\ c.at = "activate" /\ c.op = call[s].op /\ c.broke = call[s].broke
        /\ c.name = call[s].name /\ c.value = call[s].value
        /\ c.sensitive = call[s].sensitive /\ call' = [call EXCEPT ![s] = c]
    BY <1>1, <1>2 DEF CallType
  <2>2. c.name \in Names /\ c.op \in F!Ops /\ Asked(c)
    BY <1>1, <1>2, <2>1 DEF GoodCall, Asked, F!Ops, F!Writes
  <2> HIDE DEF c
  <2>3. GoodCall(c, confirmed')
    BY <1>2, <2>1, <2>2, IdleIsGood DEF GoodCall
  <2> QED
    BY <1>2, <2>1, <2>3 DEF Moves, Quiet
<1>3. CASE ~(call[s].at = "put" /\ call[s].op \in F!Settings) /\ call' = [call EXCEPT ![s].at = "alert"]
  <2> DEFINE c == [call[s] EXCEPT !.at = "alert"]
  <2>1. /\ c \in CallType /\ c.at = "alert" /\ c.op = call[s].op /\ c.broke = call[s].broke
        /\ c.value = call[s].value /\ c.name = call[s].name /\ call' = [call EXCEPT ![s] = c]
    BY <1>1, <1>3 DEF CallType
  <2>2. c.op \in F!Ops /\ (c.op \in Named => c.name \in Names) /\ Asked(c)
    BY <1>1, <2>1 DEF GoodCall, Asked
  <2> HIDE DEF c
  <2>3. GoodCall(c, confirmed')
    BY <2>1, <2>2, IdleIsGood DEF GoodCall
  <2> QED
    BY <1>3, <2>1, <2>3 DEF Moves, Quiet
<1>4. CASE ~(call[s].at = "put" /\ call[s].op \in F!Settings) /\ ~call[s].sensitive /\ call' = F!Ended(s)
  BY <1>4, EndMoves, IdleIsGood
<1>5. \/ call[s].at = "put" /\ call[s].op \in F!Settings /\ call' = [call EXCEPT ![s].at = "activate"]
      \/ ~(call[s].at = "put" /\ call[s].op \in F!Settings) /\ call' = [call EXCEPT ![s].at = "alert"]
      \/ /\ ~(call[s].at = "put" /\ call[s].op \in F!Settings) /\ ~call[s].sensitive
         /\ call' = F!Ended(s)
  BY DEF F!AfterWrite, F!Activates
<1> QED
  BY <1>2, <1>3, <1>4, <1>5

LEMMA WriteStep ==
  ASSUME F!NamesAssumption, FiltersInv, NEW s \in Sids, F!Write(s)
  PROVE  FiltersInv'
<1>1. F!Writing(s) /\ link[s] = "up" /\ UNCHANGED <<link, calls, faults, confirmed>>
  BY DEF F!Write
<1>2. call[s] # F!Idle
  BY <1>1, IdleIsGood DEF F!Writing
<1>3. CASE call' = F!Ended(s) /\ UNCHANGED <<scripts, active, cache, foreign, owed>>
  <2>1. Moves(s, F!Idle) /\ F!Idle \in CallType
    BY <1>1, <1>3, EndMoves, IdleIsGood
  <2> QED
    BY <1>1, <1>2, <1>3, <2>1, LocalStep DEF FiltersInv, History
<1>4. CASE F!Possible(s) /\ F!Effect(s) /\ cache' = F!Cached(s) /\ call' = F!AfterWrite(s)
  <2>1. /\ scripts' \in [Names -> F!Scripts \union {Absent}]
        /\ active' \in Names \union {None} /\ (active' # None => scripts'[active'] # Absent)
        /\ F!ConfirmedRedirects'
        /\ foreign' \in [Sids -> SUBSET Names] /\ owed' \in [Sids -> BOOLEAN]
        /\ \A t \in Sids \ {s} : \A n \in Names \ foreign'[t] :
             n \notin foreign[t] /\ scripts'[n] = scripts[n]
    BY <1>1, <1>4, EffectFacts
  <2>2. PICK c \in CallType : Moves(s, c)
    BY <1>1, <1>2, <1>4, AfterWriteMoves
  <2>3. GoodCalls' /\ call'[s] = c /\ \A t \in Sids \ {s} : call'[t] = call[t]
    BY <2>2, CallsKept DEF FiltersInv
  <2>4. call[s] \in CallType /\ GoodCall(call[s], confirmed) /\ F!TypeOK
    BY DEF FiltersInv, GoodCalls, FiltersSound
  <2>5. /\ cache' \in [Sids -> [Names -> F!Scripts \union {Unknown}]]
        /\ \A t \in Sids \ {s} : cache'[t] = cache[t]
        /\ \A n \in Names : cache'[s][n] # Unknown => F!Mentions(cache'[s][n]) \subseteq confirmed
        /\ \A n \in Names \ foreign'[s] : cache'[s][n] \in {Unknown, scripts'[n]}
    <3>1. CASE call[s].at = "put"
      <4>1. /\ cache' = [cache EXCEPT ![s][call[s].name] = call[s].write]
            /\ scripts' = [scripts EXCEPT ![call[s].name] = call[s].write]
            /\ foreign' = F!Touched(s, call[s].name)
        BY <1>4, <3>1 DEF F!Cached, F!Effect, F!Put
      <4>2. call[s].name \in Names /\ call[s].write \in F!Scripts
            /\ F!Mentions(call[s].write) \subseteq confirmed
        BY <2>4, <3>1 DEF GoodCall, CallType
      <4>3. \A n \in Names \ {call[s].name} : n \in foreign[s] <=> n \in foreign'[s]
        BY <4>1 DEF F!Touched
      <4> QED
        BY <1>1, <2>4, <4>1, <4>2, <4>3
        DEF F!TypeOK, FiltersInv, CachedConfirmed, FiltersSound, F!OwnCacheTrue
    <3>2. CASE call[s].at = "activate"
      <4>1. cache' = F!Forget(s)
        BY <1>4, <3>2 DEF F!Cached
      <4> QED
        BY <2>4, <4>1, ForgetFacts
    <3>3. CASE call[s].at = "delete"
      <4>1. /\ cache' = [cache EXCEPT ![s][call[s].name] = Unknown]
            /\ scripts' = [scripts EXCEPT ![call[s].name] = Absent]
            /\ foreign' = F!Touched(s, call[s].name)
        BY <1>4, <3>3 DEF F!Cached, F!Effect, F!DeleteScript
      <4>2. call[s].name \in Names
        BY <2>4, <3>3 DEF GoodCall, Named, F!Ops, F!Settings
      <4>3. \A n \in Names \ {call[s].name} : n \in foreign[s] <=> n \in foreign'[s]
        BY <4>1 DEF F!Touched
      <4> QED
        BY <1>1, <2>4, <4>1, <4>2, <4>3
        DEF F!TypeOK, FiltersInv, CachedConfirmed, FiltersSound, F!OwnCacheTrue
    <3> QED
      BY <1>1, <3>1, <3>2, <3>3 DEF F!Writing
  <2>6. CachedConfirmed' /\ F!OwnCacheTrue'
    BY <1>1, <2>1, <2>5, CachesAfter
  <2>7. F!TypeOK'
    <3>1. \A t \in Sids : link'[t] = "none" => call'[t] = F!Idle /\ \A n \in Names : cache'[t][n] = Unknown
      BY <1>1, <2>3, <2>4, <2>5 DEF F!TypeOK
    <3> QED
      BY <1>1, <2>1, <2>4, <2>5, <3>1 DEF F!TypeOK
  <2>8. History'
    BY <1>1, <2>1 DEF FiltersInv, History
  <2> QED
    BY <2>1, <2>3, <2>6, <2>7, <2>8 DEF FiltersInv, FiltersSound
<1> QED
  BY <1>3, <1>4 DEF F!Write, F!server

\* A call that runs again.
LEMMA AgainMoves ==
  ASSUME FiltersInv, NEW s \in Sids, F!Commands(s)
  PROVE  /\ F!Again(s) \in CallType /\ F!Again(s).at = "start" /\ F!Again(s).broke = TRUE
         /\ F!Again(s).op = call[s].op /\ call[s] # F!Idle
         /\ \A Sent : GoodCall(F!Again(s), Sent)
<1>1. call[s] \in CallType /\ GoodCall(call[s], confirmed) /\ call[s] # F!Idle
  BY IdleIsGood DEF FiltersInv, GoodCalls, F!Commands, F!Writing
<1> DEFINE name == IF call[s].op \in F!Settings THEN None ELSE call[s].name
           again == F!Again(s)
<1>2. name \in Names \union {None}
  BY <1>1 DEF CallType
<1>3. /\ again \in CallType /\ again.at = "start" /\ again.broke = TRUE
      /\ again.op = call[s].op /\ again.name = name /\ again.value = call[s].value
      /\ again.sensitive = FALSE
  <2> HIDE DEF name
  <2>1. again = [F!NewCall(call[s].op, name, call[s].from, call[s].value, call[s].confirm)
                   EXCEPT !.first = FALSE, !.spent = call[s].spent, !.broke = TRUE]
    BY DEF F!Again, name
  <2> HIDE DEF again
  <2>2. F!Empty \in F!Scripts
    BY EmptyIsScript
  <2> QED
    BY <1>1, <1>2, <2>1, <2>2 DEF F!NewCall, CallType
<1>4. again.op \in F!Ops /\ (again.op \in Named => again.name \in Names) /\ Asked(again)
  BY <1>1, <1>3 DEF GoodCall, Asked, Named
<1> HIDE DEF again
<1>5. ASSUME NEW Sent PROVE GoodCall(again, Sent)
  BY <1>3, <1>4, IdleIsGood DEF GoodCall
<1> QED
  BY <1>1, <1>3, <1>4, <1>5 DEF again

\* The connection breaks, and the call runs again or ends.
LEMMA BreakStep ==
  ASSUME F!NamesAssumption, FiltersInv, NEW s \in Sids, F!Break(s)
  PROVE  FiltersInv'
<1>1. F!Commands(s) /\ F!Retries(s) /\ UNCHANGED <<calls, confirmed>>
  BY DEF F!Break
<1>2. /\ scripts' \in [Names -> F!Scripts \union {Absent}]
      /\ active' \in Names \union {None} /\ (active' # None => scripts'[active'] # Absent)
      /\ F!ConfirmedRedirects'
      /\ foreign' \in [Sids -> SUBSET Names] /\ owed' \in [Sids -> BOOLEAN]
      /\ \A t \in Sids \ {s} : \A n \in Names \ foreign'[t] :
           n \notin foreign[t] /\ scripts'[n] = scripts[n]
      /\ faults' \in Nat
  <2>1. CASE F!Writing(s) /\ F!Possible(s) /\ F!Effect(s) /\ faults' \in Nat
    BY <1>1, <2>1, EffectFacts
  <2>2. CASE UNCHANGED <<scripts, active, foreign, owed>> /\ faults' \in Nat
    BY <1>1, <2>2 DEF FiltersInv, FiltersSound, F!TypeOK, F!ConfirmedRedirects, History
  <2>3. faults' \in Nat
    BY DEF F!Break, FiltersInv, History
  <2> QED
    BY <2>1, <2>2, <2>3 DEF F!Break, F!server
<1>3. F!TypeOK /\ GoodCalls
  BY DEF FiltersInv, FiltersSound
<1>4. PICK c \in CallType :
        /\ call' = [call EXCEPT ![s] = c] /\ GoodCall(c, confirmed)
        /\ \/ link' = [link EXCEPT ![s] = "up"] /\ cache' = F!Forget(s)
           \/ link' = [link EXCEPT ![s] = "none"] /\ cache' = F!Forget(s) /\ c = F!Idle
           \/ link' = [link EXCEPT ![s] = "dead"] /\ cache' = cache /\ c = F!Idle
  <2>1. CASE link' = [link EXCEPT ![s] = "up"] /\ cache' = F!Forget(s) /\ call' = [call EXCEPT ![s] = F!Again(s)]
    BY <1>1, <2>1, AgainMoves
  <2>2. CASE link' = [link EXCEPT ![s] = "none"] /\ cache' = F!Forget(s) /\ call' = F!Ended(s)
    BY <2>2, IdleIsGood DEF F!Ended
  <2>3. CASE link' = [link EXCEPT ![s] = "dead"] /\ cache' = cache /\ call' = F!Ended(s)
    BY <2>3, IdleIsGood DEF F!Ended
  <2> QED
    BY <1>1, <2>1, <2>2, <2>3 DEF F!Retries
<1>5. /\ call' \in [Sids -> CallType] /\ call'[s] = c
      /\ \A t \in Sids \ {s} : call'[t] = call[t] /\ link'[t] = link[t] /\ cache'[t] = cache[t]
  BY <1>3, <1>4, ForgetFacts DEF GoodCalls, F!TypeOK
<1>6. GoodCalls'
  <2>1. ASSUME NEW t \in Sids PROVE GoodCall(call'[t], confirmed')
    BY <1>1, <1>3, <1>4, <1>5 DEF GoodCalls
  <2> QED
    BY <1>5, <2>1 DEF GoodCalls
<1>7. /\ cache' \in [Sids -> [Names -> F!Scripts \union {Unknown}]]
      /\ link' \in [Sids -> {"none", "up", "dead"}]
      /\ link'[s] # "dead" => \A n \in Names : cache'[s][n] = Unknown
      /\ link'[s] = "dead" => cache' = cache
      /\ link'[s] = "none" => call'[s] = F!Idle
  <2>1. /\ link \in [Sids -> {"none", "up", "dead"}]
        /\ cache \in [Sids -> [Names -> F!Scripts \union {Unknown}]]
    BY <1>3 DEF F!TypeOK
  <2>2. /\ F!Forget(s) \in [Sids -> [Names -> F!Scripts \union {Unknown}]]
        /\ \A n \in Names : F!Forget(s)[s][n] = Unknown
    BY <1>3, ForgetFacts
  <2>3. CASE link' = [link EXCEPT ![s] = "up"] /\ cache' = F!Forget(s)
    BY <2>1, <2>2, <2>3
  <2>4. CASE link' = [link EXCEPT ![s] = "none"] /\ cache' = F!Forget(s) /\ c = F!Idle
    BY <1>5, <2>1, <2>2, <2>4
  <2>5. CASE link' = [link EXCEPT ![s] = "dead"] /\ cache' = cache /\ c = F!Idle
    BY <2>1, <2>5
  <2> QED
    BY <1>4, <2>3, <2>4, <2>5
<1>8. CachedConfirmed' /\ F!OwnCacheTrue'
  <2>1. \A n \in Names : cache'[s][n] # Unknown => F!Mentions(cache'[s][n]) \subseteq confirmed
    BY <1>7 DEF FiltersInv, CachedConfirmed, F!TypeOK
  <2>2. link'[s] = "up" => \A n \in Names \ foreign'[s] : cache'[s][n] \in {Unknown, scripts'[n]}
    BY <1>7
  <2> QED
    BY <1>1, <1>2, <1>5, <2>1, <2>2, CachesAfter
<1>9. F!TypeOK'
  <2>1. \A t \in Sids : link'[t] = "none" => call'[t] = F!Idle /\ \A m \in Names : cache'[t][m] = Unknown
    BY <1>3, <1>5, <1>7 DEF F!TypeOK
  <2> QED
    BY <1>2, <1>7, <2>1 DEF F!TypeOK
<1>10. History'
  BY <1>1, <1>2 DEF FiltersInv, History
<1> QED
  BY <1>2, <1>6, <1>8, <1>9, <1>10 DEF FiltersInv, FiltersSound

LEMMA DropStep ==
  ASSUME FiltersInv, NEW s \in Sids, F!Drop(s)
  PROVE  FiltersInv'
<1>1. /\ link' = [link EXCEPT ![s] = "none"] /\ cache' = F!Forget(s) /\ call[s] = F!Idle
      /\ UNCHANGED <<scripts, active, call, calls, faults, confirmed, foreign, owed>>
  BY DEF F!Drop, F!server, F!ghosts
<1>2. F!TypeOK
  BY DEF FiltersInv, FiltersSound
<1>3. /\ cache' \in [Sids -> [Names -> F!Scripts \union {Unknown}]]
      /\ \A n \in Names : cache'[s][n] = Unknown
      /\ link'[s] = "none" /\ link' \in [Sids -> {"none", "up", "dead"}]
      /\ \A t \in Sids \ {s} : link'[t] = link[t] /\ cache'[t] = cache[t]
  BY <1>1, <1>2, ForgetFacts DEF F!TypeOK
<1>4. CachedConfirmed' /\ F!OwnCacheTrue'
  BY <1>1, <1>3, CachesAfter
<1>5. F!TypeOK'
  BY <1>1, <1>2, <1>3 DEF F!TypeOK
<1>6. GoodCalls' /\ History' /\ F!ConfirmedRedirects'
  BY <1>1 DEF FiltersInv, FiltersSound, GoodCalls, History, F!ConfirmedRedirects
<1> QED
  BY <1>4, <1>5, <1>6 DEF FiltersInv, FiltersSound

\* The steps that concern the call alone.
LEMMA CallAlone ==
  ASSUME F!NamesAssumption, FiltersInv, NEW s \in Sids, F!List(s) \/ F!Skip(s) \/ F!Invalid(s) \/ F!Alert(s)
  PROVE  FiltersInv'
<1>1. F!TypeOK /\ GoodCalls /\ owed \in [Sids -> BOOLEAN]
  BY DEF FiltersInv, FiltersSound, History
<1>2. /\ UNCHANGED <<scripts, active, link, cache, calls, faults, foreign>>
      /\ owed' \in [Sids -> BOOLEAN] /\ call[s] # F!Idle
  BY <1>1, IdleIsGood DEF F!List, F!Ready, F!Ops, F!Reads, F!Writes, F!Settings, F!Skip, F!Invalid, F!Alert,
                          F!server, F!ghosts
<1>3. \E c \in CallType : Moves(s, c)
  <2>1. CASE F!List(s)
    BY <1>1, <2>1, ListMoves
  <2>2. CASE F!Skip(s)
    BY <1>1, <2>2, SkipMoves
  <2>3. CASE F!Invalid(s) \/ F!Alert(s)
    BY <2>3, EndMoves, IdleIsGood DEF F!Invalid, F!Alert, F!ghosts
  <2> QED
    BY <2>1, <2>2, <2>3
<1> QED
  BY <1>2, <1>3, LocalStep

LEMMA FiltersInit ==
  ASSUME F!NamesAssumption, F!Init
  PROVE  FiltersInv
<1>1. /\ scripts \in [Names -> F!Scripts \union {Absent}]
      /\ active \in Names \union {None} /\ (active # None => scripts[active] # Absent)
  <2> USE DEF F!NamesAssumption
  <2>1. CASE scripts = [n \in Names |-> Absent] /\ active = None
    BY <2>1
  <2>2. CASE \E rules \in F!Destinations, v \in F!Replies :
               /\ scripts = [n \in Names |-> IF n = Default THEN F!Generated(rules, v, None) ELSE Absent]
               /\ active = Default
    <3>1. PICK rules \in F!Destinations, v \in F!Replies :
            /\ scripts = [n \in Names |-> IF n = Default THEN F!Generated(rules, v, None) ELSE Absent]
            /\ active = Default
      BY <2>2
    <3>2. F!Generated(rules, v, None) \in F!Scripts
      BY GeneratedIsScript DEF F!Destinations
    <3> QED
      BY <3>1, <3>2
  <2>3. CASE \E other \in Names \ {Default}, v \in F!Destinations :
               /\ scripts = [n \in Names |-> IF n = other THEN F!Script(FALSE, None, F!Off, None, {v} \ {None}) ELSE Absent]
               /\ active = other
    <3>1. PICK other \in Names \ {Default}, v \in F!Destinations :
            /\ scripts = [n \in Names |-> IF n = other THEN F!Script(FALSE, None, F!Off, None, {v} \ {None}) ELSE Absent]
            /\ active = other
      BY <2>3
    <3>2. F!Script(FALSE, None, F!Off, None, {v} \ {None}) \in F!Scripts
      BY EmptyIsScript DEF F!Script, F!Scripts, F!Destinations
    <3> QED
      BY <3>1, <3>2
  <2> QED
    BY <2>1, <2>2, <2>3 DEF F!Init
<1>2. PICK warm \in SUBSET Sids :
        /\ link = [s \in Sids |-> IF s \in warm THEN "up" ELSE "none"]
        /\ cache = [s \in Sids |-> [n \in Names |->
                      IF s \in warm /\ scripts[n] # Absent THEN scripts[n] ELSE Unknown]]
  BY DEF F!Init
<1>3. /\ call = [s \in Sids |-> F!Idle] /\ calls = 0 /\ faults = 0
      /\ confirmed = UNION {F!Mentions(scripts[n]) : n \in {m \in Names : scripts[m] # Absent}}
      /\ foreign = [s \in Sids |-> {}] /\ owed = [s \in Sids |-> FALSE]
  BY DEF F!Init
<1>4. F!ConfirmedRedirects
  BY <1>3 DEF F!ConfirmedRedirects
<1>5. F!TypeOK /\ F!OwnCacheTrue
  BY <1>1, <1>2, <1>3 DEF F!TypeOK, F!OwnCacheTrue
<1>6. CachedConfirmed
  BY <1>2, <1>4 DEF CachedConfirmed, F!ConfirmedRedirects
<1>7. GoodCalls /\ History
  BY <1>3, IdleIsGood DEF GoodCalls, History
<1> QED
  BY <1>4, <1>5, <1>6, <1>7 DEF FiltersInv, FiltersSound

LEMMA FiltersNext ==
  ASSUME F!NamesAssumption, FiltersInv, [F!Next]_(F!vars)
  PROVE  FiltersInv'
<1>1. CASE F!Next
  BY <1>1, CallStep, CallAlone, ReadStep, WriteStep, BreakStep, DropStep DEF F!Next
<1>2. CASE UNCHANGED F!vars
  BY <1>2 DEF F!vars, FiltersInv, GoodCalls, CachedConfirmed, History, FiltersSound, F!TypeOK,
              F!ConfirmedRedirects, F!OwnCacheTrue
<1> QED
  BY <1>1, <1>2

LEMMA FiltersInvariant ==
  ASSUME F!NamesAssumption
  PROVE  F!Spec => []FiltersInv
<1>1. F!Init => FiltersInv
  BY FiltersInit
<1>2. FiltersInv /\ [F!Next]_(F!vars) => FiltersInv'
  BY FiltersNext
<1> QED
  BY <1>1, <1>2, PTL DEF F!Spec

\* A script sends mail only where a user has once confirmed a request that names this
\* destination, and the cache of a session that is connected is wrong only about what
\* another session has changed:
\* for any sessions, names and destinations, calls that break and run again included.
THEOREM FiltersSoundCorrect ==
  ASSUME F!NamesAssumption
  PROVE  F!Spec => []FiltersSound
<1>1. FiltersInv => FiltersSound
  BY DEF FiltersInv
<1> QED
  BY <1>1, FiltersInvariant, PTL

----------------------------------------------------------------------------
(* What the users are told of a change of a redirection.                   *)

\* What a step may do, under AlertsUnlessBroken and NothingAddedSilently.
AlertStep ==
  \A s \in Sids :
    owed'[s] /\ call'[s] = F!Idle /\ call[s] # F!Idle =>
      \/ call[s].broke \/ faults' # faults \/ link[s] = "dead"
      \/ scripts[call[s].name] = Absent \/ call[s].at = "alert"

AddingStep ==
  \A s \in Sids : \A n \in Names :
    /\ call'[s] # call[s] /\ scripts'[n] # scripts[n] /\ scripts'[n] # Absent
    /\ call[s].op \in F!Settings \union {"rules"} /\ call[s].at = "put"
    /\ call[s].name = n /\ ~call[s].sensitive /\ n \notin foreign[s]
    => F!Mentions(scripts'[n]) \subseteq
         (IF scripts[n] = Absent THEN {} ELSE F!Mentions(scripts[n]))

\* A step of a call that leaves the server and the connections alone.
LEMMA LocalChange ==
  ASSUME FiltersInv, ChangesInv, NEW s \in Sids, call[s] # F!Idle, NEW c \in CallType, Moves(s, c),
         UNCHANGED <<scripts, link>>,
         \A t \in Sids \ {s} : foreign'[t] = foreign[t] /\ owed'[t] = owed[t],
         owed'[s] => owed[s] /\ (call[s].at \in {"start", "read", "put"} \/ (call[s].at = "alert" /\ c = F!Idle)),
         c = F!Idle \/ link[s] # "dead" \/ c.op \in {"export", "deactivate", "import"},
         /\ c.at = "put" /\ ~c.sensitive /\ c.op \in F!Settings \union {"rules"}
         /\ c.name \notin foreign'[s]
         => F!Mentions(c.write) \subseteq
              (IF scripts[c.name] = Absent THEN {} ELSE F!Mentions(scripts[c.name]))
  PROVE  ChangesInv' /\ AlertStep /\ AddingStep
<1>1. call'[s] = c /\ \A t \in Sids \ {s} : call'[t] = call[t]
  BY CallsKept DEF FiltersInv
<1>2. AlertsDue'
  BY <1>1 DEF ChangesInv, AlertsDue, Moves
<1>3. AddsNothing'
  BY <1>1 DEF ChangesInv, AddsNothing
<1>4. DeadIsSeen'
  BY <1>1 DEF ChangesInv, DeadIsSeen
<1>5. AlertStep
  BY <1>1 DEF ChangesInv, AlertsDue, AlertStep
<1>6. AddingStep
  BY DEF AddingStep
<1> QED
  BY <1>2, <1>3, <1>4, <1>5, <1>6 DEF ChangesInv

\* The calls of the others when a set has been written under them, and what was written.
LEMMA EffectChange ==
  ASSUME F!NamesAssumption, FiltersInv, ChangesInv, NEW s \in Sids,
         \/ F!Writing(s) /\ F!Possible(s) /\ F!Effect(s)
         \/ UNCHANGED <<scripts, active, foreign, owed>>,
         UNCHANGED confirmed, \A t \in Sids \ {s} : call'[t] = call[t]
  PROVE  /\ \A t \in Sids \ {s} :
              /\ call[t].at = "put" /\ ~call[t].sensitive /\ call[t].op \in F!Settings \union {"rules"}
              /\ call[t].name \notin foreign'[t]
              => F!Mentions(call[t].write) \subseteq
                   (IF scripts'[call[t].name] = Absent THEN {} ELSE F!Mentions(scripts'[call[t].name]))
         /\ \A t \in Sids \ {s} : owed'[t] = owed[t]
         /\ owed'[s] => owed[s] \/ (call[s].at = "put" /\ call[s].sensitive)
         /\ AddingStep
<1>1. CASE UNCHANGED <<scripts, active, foreign, owed>>
  BY <1>1 DEF ChangesInv, AddsNothing, AddingStep
<1>2. CASE F!Writing(s) /\ F!Possible(s) /\ F!Effect(s)
  <2>1. \A t \in Sids \ {s} : \A n \in Names \ foreign'[t] :
          n \notin foreign[t] /\ scripts'[n] = scripts[n]
    BY <1>2, EffectFacts
  <2>2. \A t \in Sids : call[t].at = "put" => call[t].name \in Names
    BY DEF FiltersInv, GoodCalls, GoodCall
  <2>3. \A t \in Sids \ {s} :
          /\ call[t].at = "put" /\ ~call[t].sensitive /\ call[t].op \in F!Settings \union {"rules"}
          /\ call[t].name \notin foreign'[t]
          => F!Mentions(call[t].write) \subseteq
               (IF scripts'[call[t].name] = Absent THEN {} ELSE F!Mentions(scripts'[call[t].name]))
    BY <2>1, <2>2 DEF ChangesInv, AddsNothing
  <2>4. \/ owed' = [owed EXCEPT ![s] = @ \/ call[s].sensitive] /\ call[s].at = "put"
        \/ owed' = owed
    BY <1>2 DEF F!Effect, F!Put, F!SetActive, F!DeleteScript, F!Writing
  <2>5. /\ \A t \in Sids \ {s} : owed'[t] = owed[t]
        /\ owed'[s] => owed[s] \/ (call[s].at = "put" /\ call[s].sensitive)
    BY <2>4 DEF FiltersInv, History
  <2>6. call[s].at = "put" => scripts' = [scripts EXCEPT ![call[s].name] = call[s].write]
    BY <1>2 DEF F!Effect, F!Put
  <2>7. AddingStep
    <3>1. ASSUME NEW n \in Names, call[s].at = "put", call[s].name = n
          PROVE  scripts'[n] = call[s].write
      BY <2>6, <3>1 DEF FiltersInv, FiltersSound, F!TypeOK
    <3> QED
      BY <3>1 DEF AddingStep, ChangesInv, AddsNothing
  <2> QED
    BY <2>3, <2>5, <2>7
<1> QED
  BY <1>1, <1>2

LEMMA ReadChange ==
  ASSUME F!NamesAssumption, FiltersInv, ChangesInv, NEW s \in Sids, F!Read(s)
  PROVE  ChangesInv' /\ AlertStep /\ AddingStep
<1>1. PICK n \in call[s].todo :
        \/ F!Known(s, n) = Absent /\ F!Refuses(s) /\ UNCHANGED <<cache, foreign>>
        \/ /\ F!Known(s, n) # Absent /\ F!Answers(s, n)
           /\ foreign' = IF cache[s][n] = Unknown
                         THEN [foreign EXCEPT ![s] = @ \ {n}] ELSE foreign
  BY DEF F!Read
<1>2. /\ call[s].at = "read" /\ call[s] # F!Idle /\ n \in Names /\ GoodCalls
      /\ UNCHANGED <<scripts, link, owed>>
  BY <1>1, IdleIsGood DEF F!Read, F!server, FiltersInv, GoodCalls, CallType
<1>3. link[s] # "none"
  BY <1>2 DEF FiltersInv, FiltersSound, F!TypeOK
<1>4. link[s] = "dead" => call[s].op \in {"export", "deactivate", "import"}
  BY <1>2 DEF ChangesInv, DeadIsSeen
<1>5. CASE F!Refuses(s) /\ UNCHANGED <<cache, foreign>>
  <2>1. Moves(s, F!Idle) /\ F!Idle \in CallType /\ F!Idle.at # "put"
    BY <1>5, EndMoves, IdleIsGood DEF F!Refuses
  <2> QED
    BY <1>2, <1>5, <2>1, LocalChange
<1>6. CASE /\ F!Known(s, n) # Absent /\ F!Answers(s, n)
           /\ foreign' = IF cache[s][n] = Unknown
                         THEN [foreign EXCEPT ![s] = @ \ {n}] ELSE foreign
  <2>1. F!Known(s, n) \in F!Scripts /\ F!Mentions(F!Known(s, n)) \subseteq confirmed
    BY <1>2, <1>6, KnownFacts
  <2>2. PICK c \in CallType : Moves(s, c) /\ Quiet(c, n, F!Mentions(F!Known(s, n)))
    BY <1>2, <1>6, <2>1, AnswersMoves
  <2>3. c # F!Idle => c.op = call[s].op
    BY <2>2 DEF Moves
  <2>4. \A t \in Sids \ {s} : foreign'[t] = foreign[t]
    BY <1>6 DEF FiltersInv, History
  <2>5. (c.op \in F!Settings \union {"rules"} /\ c.at = "put" /\ n \notin foreign'[s])
           => F!Known(s, n) = scripts[n]
    <3>1. c.at = "put" => c # F!Idle
      BY IdleIsGood
    <3>2. c.at = "put" /\ c.op \in F!Settings \union {"rules"} => link[s] = "up"
      BY <1>3, <1>4, <2>3, <3>1 DEF F!Settings, FiltersInv, FiltersSound, F!TypeOK
    <3> QED
      BY <1>2, <1>6, <3>2 DEF F!Known, FiltersInv, FiltersSound, F!OwnCacheTrue
  <2>6. /\ c.at = "put" /\ ~c.sensitive /\ c.op \in F!Settings \union {"rules"}
        /\ c.name \notin foreign'[s]
        => F!Mentions(c.write) \subseteq
             (IF scripts[c.name] = Absent THEN {} ELSE F!Mentions(scripts[c.name]))
    BY <1>6, <2>2, <2>5 DEF Quiet
  <2>7. c = F!Idle \/ link[s] # "dead" \/ c.op \in {"export", "deactivate", "import"}
    BY <1>4, <2>3
  <2> QED
    BY <1>2, <2>2, <2>4, <2>6, <2>7, LocalChange
<1> QED
  BY <1>1, <1>5, <1>6

\* The other steps that concern the call alone.
LEMMA AloneChange ==
  ASSUME F!NamesAssumption, FiltersInv, ChangesInv, NEW s \in Sids,
         F!List(s) \/ F!Skip(s) \/ F!Invalid(s) \/ F!Alert(s)
  PROVE  ChangesInv' /\ AlertStep /\ AddingStep
<1>1. F!TypeOK /\ GoodCalls /\ owed \in [Sids -> BOOLEAN]
  BY DEF FiltersInv, FiltersSound, History
<1>2. UNCHANGED <<scripts, link, foreign>> /\ call[s] # F!Idle
  BY <1>1, IdleIsGood DEF F!List, F!Ready, F!Ops, F!Reads, F!Writes, F!Settings, F!Skip, F!Invalid, F!Alert,
                          F!server, F!ghosts
<1>3. CASE F!List(s)
  <2>1. PICK c \in CallType : Moves(s, c) /\ \A n : Quiet(c, n, {})
    BY <1>1, <1>3, ListMoves
  <2>2. call[s].at = "start" /\ link[s] # "dead" /\ owed' = owed
    BY <1>3 DEF F!List, F!Ready
  <2>3. c.at = "put" /\ ~c.sensitive /\ c.op \in F!Settings \union {"rules"} => F!Mentions(c.write) = {}
    BY <2>1 DEF Quiet
  <2> QED
    BY <1>2, <2>1, <2>2, <2>3, LocalChange
<1>4. CASE F!Skip(s)
  <2>1. PICK c \in CallType : Moves(s, c) /\ \A n, R : Quiet(c, n, R)
    BY <1>1, <1>4, SkipMoves
  <2>2. /\ call[s].at = "start" /\ owed' = owed
        /\ call[s].op \in {"export", "deactivate", "import"}
    BY <1>4 DEF F!Skip
  <2>3. c.at = "put" /\ ~c.sensitive /\ c.op \in F!Settings \union {"rules"} => F!Mentions(c.write) = {}
    BY <2>1 DEF Quiet
  <2>4. c = F!Idle \/ c.op \in {"export", "deactivate", "import"}
    BY <2>1, <2>2 DEF Moves
  <2> QED
    BY <1>2, <2>1, <2>2, <2>3, <2>4, LocalChange
<1>5. CASE F!Invalid(s) \/ F!Alert(s)
  <2>1. Moves(s, F!Idle) /\ F!Idle \in CallType /\ F!Idle.at # "put"
    BY <1>5, EndMoves, IdleIsGood DEF F!Invalid, F!Alert, F!ghosts
  <2>2. /\ \A t \in Sids \ {s} : owed'[t] = owed[t]
        /\ owed'[s] => owed[s] /\ call[s].at \in {"put", "alert"}
    BY <1>1, <1>5 DEF F!Invalid, F!Alert, F!ghosts
  <2> QED
    BY <1>2, <2>1, <2>2, LocalChange
<1> QED
  BY <1>3, <1>4, <1>5

LEMMA WriteChange ==
  ASSUME F!NamesAssumption, FiltersInv, ChangesInv, NEW s \in Sids, F!Write(s)
  PROVE  ChangesInv' /\ AlertStep /\ AddingStep
<1>1. F!Writing(s) /\ link[s] = "up" /\ UNCHANGED <<link, confirmed>>
  BY DEF F!Write
<1>2. call[s] # F!Idle /\ call[s].at # "start" /\ call[s].at # "alert" /\ call[s].at # "read"
  BY <1>1, IdleIsGood DEF F!Writing
<1>3. CASE ~F!Possible(s) /\ call' = F!Ended(s) /\ UNCHANGED <<scripts, active, cache, foreign, owed>>
  <2>1. Moves(s, F!Idle) /\ F!Idle \in CallType /\ F!Idle.at # "put"
    BY <1>1, <1>3, EndMoves, IdleIsGood
  <2>2. call'[s] = F!Idle /\ \A t \in Sids \ {s} : call'[t] = call[t]
    BY <2>1, CallsKept DEF FiltersInv
  <2>3. AlertStep
    BY <1>1, <1>2, <1>3, <2>2 DEF AlertStep, ChangesInv, AlertsDue, F!Possible
  <2>4. ChangesInv' /\ AddingStep
    BY <1>1, <1>3, <2>1, <2>2 DEF ChangesInv, AlertsDue, AddsNothing, DeadIsSeen, AddingStep
  <2> QED
    BY <2>3, <2>4
<1>4. CASE F!Possible(s) /\ F!Effect(s) /\ call' = F!AfterWrite(s)
  <2>1. PICK c \in CallType :
          /\ Moves(s, c) /\ \A n, R : Quiet(c, n, R)
          /\ \/ c = F!Idle /\ ~call[s].sensitive
             \/ c.at = "alert"
             \/ c.at = "activate" /\ c.sensitive = call[s].sensitive /\ call[s].at = "put"
    BY <1>1, <1>2, <1>4, AfterWriteMoves
  <2>2. call'[s] = c /\ \A t \in Sids \ {s} : call'[t] = call[t]
    BY <2>1, CallsKept DEF FiltersInv
  <2>3. /\ \A t \in Sids \ {s} :
             /\ call[t].at = "put" /\ ~call[t].sensitive /\ call[t].op \in F!Settings \union {"rules"}
             /\ call[t].name \notin foreign'[t]
             => F!Mentions(call[t].write) \subseteq
                  (IF scripts'[call[t].name] = Absent THEN {} ELSE F!Mentions(scripts'[call[t].name]))
        /\ \A t \in Sids \ {s} : owed'[t] = owed[t]
        /\ owed'[s] => owed[s] \/ (call[s].at = "put" /\ call[s].sensitive)
        /\ AddingStep
    BY <1>1, <1>4, <2>2, EffectChange
  <2>4. c.at # "put"
    BY <2>1, IdleIsGood
  <2>5. c # F!Idle => c.broke = call[s].broke
    BY <2>1 DEF Moves
  <2>6. AlertsDue'
    BY <1>2, <2>1, <2>2, <2>3, <2>5 DEF ChangesInv, AlertsDue
  <2>7. AddsNothing'
    BY <2>2, <2>3, <2>4 DEF AddsNothing
  <2>8. DeadIsSeen'
    BY <1>1, <2>2 DEF ChangesInv, DeadIsSeen
  <2>9. AlertStep
    BY <1>2, <2>1, <2>2, <2>3, IdleIsGood DEF AlertStep, ChangesInv, AlertsDue
  <2> QED
    BY <2>3, <2>6, <2>7, <2>8, <2>9 DEF ChangesInv
<1> QED
  BY <1>3, <1>4 DEF F!Write, F!server

LEMMA BreakChange ==
  ASSUME F!NamesAssumption, FiltersInv, ChangesInv, NEW s \in Sids, F!Break(s)
  PROVE  ChangesInv' /\ AlertStep /\ AddingStep
<1>1. F!Commands(s) /\ F!Retries(s) /\ UNCHANGED confirmed
  BY DEF F!Break
<1>2. /\ \/ F!Writing(s) /\ F!Possible(s) /\ F!Effect(s)
         \/ UNCHANGED <<scripts, active, foreign, owed>>
      /\ link[s] = "dead" \/ faults' # faults
  BY DEF F!Break, F!server, FiltersInv, History
<1>3. PICK c \in CallType :
        /\ call' = [call EXCEPT ![s] = c] /\ c.at # "put" /\ (c = F!Idle \/ (c.at = "start" /\ c.broke))
        /\ \A t \in Sids \ {s} : link'[t] = link[t]
  <2>1. F!Idle \in CallType /\ F!Idle.at # "put"
    BY IdleIsGood
  <2>2. F!Again(s) \in CallType /\ F!Again(s).at = "start" /\ F!Again(s).broke = TRUE
    BY <1>1, AgainMoves
  <2> QED
    BY <1>1, <2>1, <2>2 DEF F!Retries, F!Ended, FiltersInv, FiltersSound, F!TypeOK
<1>4. call'[s] = c /\ \A t \in Sids \ {s} : call'[t] = call[t]
  BY <1>3 DEF FiltersInv, GoodCalls
<1>5. /\ \A t \in Sids \ {s} :
           /\ call[t].at = "put" /\ ~call[t].sensitive /\ call[t].op \in F!Settings \union {"rules"}
           /\ call[t].name \notin foreign'[t]
           => F!Mentions(call[t].write) \subseteq
                (IF scripts'[call[t].name] = Absent THEN {} ELSE F!Mentions(scripts'[call[t].name]))
      /\ \A t \in Sids \ {s} : owed'[t] = owed[t]
      /\ AddingStep
  BY <1>1, <1>2, <1>4, EffectChange
<1>6. AlertsDue'
  BY <1>3, <1>4, <1>5 DEF ChangesInv, AlertsDue
<1>7. AddsNothing'
  BY <1>3, <1>4, <1>5 DEF AddsNothing
<1>8. DeadIsSeen'
  BY <1>3, <1>4 DEF ChangesInv, DeadIsSeen
<1>9. AlertStep
  BY <1>2, <1>4 DEF AlertStep
<1> QED
  BY <1>5, <1>6, <1>7, <1>8, <1>9 DEF ChangesInv

\* A call begins, or a connection is closed.
LEMMA EdgeChange ==
  ASSUME F!NamesAssumption, FiltersInv, ChangesInv, NEW s \in Sids, F!Call(s) \/ F!Drop(s)
  PROVE  ChangesInv' /\ AlertStep /\ AddingStep
<1>1. CASE F!Call(s)
  <2>1. PICK r \in F!Requests : call' = [call EXCEPT ![s] = r]
    BY <1>1 DEF F!Call
  <2>2. r \in CallType /\ r.at = "start" /\ r # F!Idle
    BY RequestIsGood
  <2>3. /\ UNCHANGED <<scripts, foreign>> /\ owed' = [owed EXCEPT ![s] = FALSE]
        /\ \A t \in Sids \ {s} : link'[t] = link[t]
    BY <1>1 DEF F!Call, F!server, FiltersInv, FiltersSound, F!TypeOK
  <2>4. call'[s] = r /\ \A t \in Sids \ {s} : call'[t] = call[t]
    BY <2>1 DEF FiltersInv, GoodCalls
  <2>5. owed'[s] = FALSE /\ \A t \in Sids \ {s} : owed'[t] = owed[t]
    BY <2>3 DEF FiltersInv, History
  <2> QED
    BY <2>2, <2>3, <2>4, <2>5 DEF ChangesInv, AlertsDue, AddsNothing, DeadIsSeen, AlertStep, AddingStep
<1>2. CASE F!Drop(s)
  <2>1. /\ UNCHANGED <<scripts, foreign, owed, call>> /\ call[s] = F!Idle
        /\ \A t \in Sids \ {s} : link'[t] = link[t]
    BY <1>2 DEF F!Drop, F!server, F!ghosts, FiltersInv, FiltersSound, F!TypeOK
  <2> QED
    BY <2>1 DEF ChangesInv, AlertsDue, AddsNothing, DeadIsSeen, AlertStep, AddingStep
<1> QED
  BY <1>1, <1>2

LEMMA ChangesStep ==
  ASSUME F!NamesAssumption, FiltersInv, ChangesInv, [F!Next]_(F!vars)
  PROVE  ChangesInv' /\ (F!Next => AlertStep /\ AddingStep)
<1>1. CASE F!Next
  BY <1>1, EdgeChange, AloneChange, ReadChange, WriteChange, BreakChange DEF F!Next
<1>2. CASE ~F!Next /\ UNCHANGED F!vars
  BY <1>2 DEF F!vars, ChangesInv, AlertsDue, AddsNothing, DeadIsSeen
<1> QED
  BY <1>1, <1>2

\* A confirmed change that is written is followed by its alert, unless the connection broke,
\* the set was deleted meanwhile, or the alert failed; and what is written unasked names no
\* destination that the script did not name, unless another session has changed it.
THEOREM ChangesToldCorrect ==
  ASSUME F!NamesAssumption
  PROVE  F!Spec => ChangesTold
<1>1. F!Init => ChangesInv
  BY IdleIsGood DEF F!Init, ChangesInv, AlertsDue, AddsNothing, DeadIsSeen
<1>2. FiltersInv /\ ChangesInv /\ [F!Next]_(F!vars)
        => ChangesInv' /\ [AlertStep]_(F!vars) /\ [AddingStep]_(F!vars)
  BY ChangesStep
<1>3. F!Spec => [][AlertStep]_(F!vars) /\ [][AddingStep]_(F!vars)
  BY <1>1, <1>2, FiltersInvariant, PTL DEF F!Spec
<1> QED
  BY <1>3 DEF ChangesTold, F!AlertsUnlessBroken, F!NothingAddedSilently, AlertStep, AddingStep
=============================================================================

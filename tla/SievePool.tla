----------------------------- MODULE SievePool -----------------------------
(***************************************************************************)
(* The pool of ManageSieve connections, server/lib/session/sieve-pool.ts.  *)
(*                                                                         *)
(* Every call of a filters handler is one `run` on the session (sid) of    *)
(* the caller.  Calls of one sid are chained on a queue of promises; the   *)
(* call at the front takes the pooled connection or opens one, executes    *)
(* its function `fn' on it, and after a connection error throws the        *)
(* connection away and tries once more on a fresh one.  An idle timer and  *)
(* the logout handlers close the pooled connection, and they do so without *)
(* going through the queue.                                                *)
(*                                                                         *)
(* An action is one stretch of code between two awaits: the process is     *)
(* single-threaded, so these stretches are what interleaves.               *)
(***************************************************************************)

CONSTANTS
  Sids,     \* sessions
  Tasks,    \* calls of run(); each happens at most once
  Conns,    \* identities of ManageSieve connections, reused once closed
  NoTask,   \* the absence of a call: an already resolved promise
  NoConn    \* the absence of a connection

ASSUME NoTaskAssumption == NoTask \notin Tasks
ASSUME NoConnAssumption == NoConn \notin Conns

VARIABLES
  pool,      \* pool[s]: the pooled connection of s (the map `pool')
  timers,    \* timers[s]: connections whose idle timer, which deletes s, is armed
  conn,      \* conn[c]: state of the connection
  last,      \* last[s]: the call whose promise is in the map `queues'
  prev,      \* prev[t]: the call whose settled promise t waits for (`previous')
  sidOf,     \* sidOf[t]: the sid t was called with
  earlier,   \* earlier[t]: the calls of run() made before t (history)
  pc,        \* pc[t]: where t is in run()
  sess,      \* sess[t]: the connection t uses, or waits to see closed
  inflight,  \* inflight[t]: t has sent a command and awaits its answer
  outcome    \* outcome[t]: what the promise of t settled to

vars == <<pool, timers, conn, last, prev, sidOf, earlier, pc, sess, inflight,
          outcome>>
connVars == <<pool, timers, conn>>
queueVars == <<last, prev, sidOf, earlier>>
callVars == <<pc, sess, inflight, outcome>>

\* A connection that was never opened, or is closed, is "none"; "dead" is a
\* socket closed under a client that is still pooled; "logout" a client whose
\* close() has written LOGOUT and awaits the answer.
ConnStates == {"none", "open", "dead", "logout"}

\* The awaits of run(): the previous call, the first connect, the first
\* execution of fn, the close of a connection that failed, the second connect,
\* the second execution of fn.  "settled" is the call whose promise is resolved
\* or rejected, "cleaned" the same after the clean-up of `queues'.
FirstTry  == {"opening", "running"}
SecondTry == {"closing", "reopening", "retrying"}
Active    == FirstTry \union SecondTry
Finished  == {"settled", "cleaned"}
PCs       == {"idle", "waiting"} \union Active \union Finished

\* {available: true, result}, {available: false}, or a rejection.
Outcomes == {"pending", "result", "unavailable", "rejected"}

TypeOK ==
  /\ pool \in [Sids -> Conns \union {NoConn}]
  /\ timers \in [Sids -> SUBSET Conns]
  /\ conn \in [Conns -> ConnStates]
  /\ last \in [Sids -> Tasks \union {NoTask}]
  /\ prev \in [Tasks -> Tasks \union {NoTask}]
  /\ sidOf \in [Tasks -> Sids]
  /\ earlier \in [Tasks -> SUBSET Tasks]
  /\ pc \in [Tasks -> PCs]
  /\ sess \in [Tasks -> Conns \union {NoConn}]
  /\ inflight \in [Tasks -> BOOLEAN]
  /\ outcome \in [Tasks -> Outcomes]

Init ==
  /\ pool = [s \in Sids |-> NoConn]
  /\ timers = [s \in Sids |-> {}]
  /\ conn = [c \in Conns |-> "none"]
  /\ last = [s \in Sids |-> NoTask]
  /\ prev = [t \in Tasks |-> NoTask]
  /\ sidOf \in [Tasks -> Sids]
  /\ earlier = [t \in Tasks |-> {}]
  /\ pc = [t \in Tasks |-> "idle"]
  /\ sess = [t \in Tasks |-> NoConn]
  /\ inflight = [t \in Tasks |-> FALSE]
  /\ outcome = [t \in Tasks |-> "pending"]

----------------------------------------------------------------------------
(* The queue of promises.                                                  *)

\* run() up to its return: chain on the promise found in `queues', if any,
\* and put the promise of this call there.
Run(t) ==
  /\ pc[t] = "idle"
  /\ pc' = [pc EXCEPT ![t] = "waiting"]
  /\ prev' = [prev EXCEPT ![t] = last[sidOf[t]]]
  /\ last' = [last EXCEPT ![sidOf[t]] = t]
  /\ earlier' = [earlier EXCEPT ![t] = {u \in Tasks : pc[u] # "idle"}]
  /\ UNCHANGED <<connVars, sidOf, sess, inflight, outcome>>

\* Fault: chaining on the promise of the call itself, which may be rejected.
PreviousFulfilled(t) ==
  prev[t] # NoTask => pc[prev[t]] = "cleaned" /\ outcome[prev[t]] # "rejected"

\* The promise t was chained on is settled; its clean-up was registered on it
\* before t was, and has run.
PreviousSettled(t) == prev[t] # NoTask => pc[prev[t]] = "cleaned"

\* Fault: removing the entry even if a later call has replaced it.
CleanQueueUnchecked(t) ==
  /\ pc[t] = "settled"
  /\ pc' = [pc EXCEPT ![t] = "cleaned"]
  /\ last' = [last EXCEPT ![sidOf[t]] = NoTask]
  /\ UNCHANGED <<connVars, prev, sidOf, earlier, sess, inflight, outcome>>

\* settled.then(...): remove the entry of `queues' if no later call replaced it.
CleanQueue(t) ==
  /\ pc[t] = "settled"
  /\ pc' = [pc EXCEPT ![t] = "cleaned"]
  /\ last' = [last EXCEPT ![sidOf[t]] = IF @ = t THEN NoTask ELSE @]
  /\ UNCHANGED <<connVars, prev, sidOf, earlier, sess, inflight, outcome>>

----------------------------------------------------------------------------
(* Connections, idle timers and delete().                                  *)

\* The connections that connect() may return: nobody holds a reference to an
\* earlier connection of the same identity.
Fresh(c) ==
  /\ conn[c] = "none"
  /\ \A t \in Tasks : sess[t] # c
  /\ \A s \in Sids : c \notin timers[s]

\* scheduleIdleClose(s), the pooled entry of s being c: clear its timer, arm it.
Rearm(s, c) == timers' = [timers EXCEPT ![s] = @ \union {c}]

\* close(): writes LOGOUT on an open connection, ends at once on a dead one.
Closing(c) == IF conn[c] = "open" THEN "logout" ELSE "none"

\* Fault: removing the entry without closing its connection.
DeleteWithoutClose(s, fired) ==
  /\ timers' = [timers EXCEPT ![s] = @ \ ({pool[s]} \union fired)]
  /\ pool' = [pool EXCEPT ![s] = NoConn]
  /\ UNCHANGED conn

\* The synchronous part of delete(s): when an entry is pooled, clear its timer,
\* remove it and call close().  Timers in `fired' are consumed.
Delete(s, fired) ==
  /\ timers' = [timers EXCEPT ![s] = @ \ ({pool[s]} \union fired)]
  /\ pool' = [pool EXCEPT ![s] = NoConn]
  /\ conn' = [c \in Conns |-> IF c = pool[s] THEN Closing(c) ELSE conn[c]]

\* The idle timer of an entry of s fires.
IdleTimeout(s) ==
  /\ \E c \in timers[s] : Delete(s, {c})
  /\ UNCHANGED <<queueVars, callVars>>

\* A logout, a revocation or an expired credential deletes the entry of s.
DeleteSession(s) ==
  /\ pool[s] # NoConn
  /\ Delete(s, {})
  /\ UNCHANGED <<queueVars, callVars>>

\* LOGOUT is answered, or times out: close() destroys the socket.
LogoutAnswered(c) ==
  /\ conn[c] = "logout"
  /\ conn' = [conn EXCEPT ![c] = "none"]
  /\ UNCHANGED <<pool, timers, queueVars, callVars>>

\* The server or the network closes the socket of a pooled connection.
SocketClosed(c) ==
  /\ conn[c] = "open"
  /\ conn' = [conn EXCEPT ![c] = "dead"]
  /\ UNCHANGED <<pool, timers, queueVars, callVars>>

----------------------------------------------------------------------------
(* The body of run(), from its turn in the queue to its end.               *)

\* Fault: taking for granted that a connection is pooled.
StartUnchecked(t) ==
  LET s == sidOf[t] IN
    /\ pc[t] = "waiting"
    /\ PreviousSettled(t)
    /\ pc' = [pc EXCEPT ![t] = "running"]
    /\ sess' = [sess EXCEPT ![t] = pool[s]]
    /\ Rearm(s, pool[s])
    /\ UNCHANGED <<pool, conn, queueVars, inflight, outcome>>

\* t's turn: use the pooled connection and rearm its timer, or call connect().
Start(t) ==
  LET s == sidOf[t] IN
    /\ pc[t] = "waiting"
    /\ PreviousSettled(t)
    /\ IF pool[s] = NoConn
         THEN /\ pc' = [pc EXCEPT ![t] = "opening"]
              /\ UNCHANGED <<timers, sess>>
         ELSE /\ pc' = [pc EXCEPT ![t] = "running"]
              /\ sess' = [sess EXCEPT ![t] = pool[s]]
              /\ Rearm(s, pool[s])
    /\ UNCHANGED <<pool, conn, queueVars, inflight, outcome>>

\* connect() returns a session: pool it, arm its timer, call fn.
Opened(t) ==
  LET s == sidOf[t] IN
    /\ pc[t] \in {"opening", "reopening"}
    /\ \E c \in Conns :
         /\ Fresh(c)
         /\ conn' = [conn EXCEPT ![c] = "open"]
         /\ pool' = [pool EXCEPT ![s] = c]
         /\ sess' = [sess EXCEPT ![t] = c]
         /\ Rearm(s, c)
    /\ pc' = [pc EXCEPT ![t] = IF @ = "opening" THEN "running" ELSE "retrying"]
    /\ UNCHANGED <<queueVars, inflight, outcome>>

\* The promise of the call settles, and the call drops its session.
Settle(t, result) ==
  /\ outcome' = [outcome EXCEPT ![t] = result]
  /\ pc' = [pc EXCEPT ![t] = "settled"]
  /\ sess' = [sess EXCEPT ![t] = NoConn]
  /\ inflight' = [inflight EXCEPT ![t] = FALSE]

\* connect() reports that filters are unavailable, or throws.
OpenFailed(t) ==
  /\ pc[t] \in {"opening", "reopening"}
  /\ \E result \in {"unavailable", "rejected"} : Settle(t, result)
  /\ UNCHANGED <<connVars, queueVars>>

\* fn sends its next command; a closed socket is noticed by FnConnectionError.
Command(t) ==
  /\ pc[t] \in {"running", "retrying"}
  /\ ~inflight[t]
  /\ conn[sess[t]] \in {"open", "logout"}
  /\ inflight' = [inflight EXCEPT ![t] = TRUE]
  /\ UNCHANGED <<connVars, queueVars, pc, sess, outcome>>

\* The server answers the command of fn.
Answer(t) ==
  /\ pc[t] \in {"running", "retrying"}
  /\ inflight[t]
  /\ conn[sess[t]] \in {"open", "logout"}
  /\ inflight' = [inflight EXCEPT ![t] = FALSE]
  /\ UNCHANGED <<connVars, queueVars, pc, sess, outcome>>

\* fn returns, or throws an error that is not a connection error.
FnDone(t) ==
  /\ pc[t] \in {"running", "retrying"}
  /\ ~inflight[t]
  /\ \E result \in {"result", "rejected"} : Settle(t, result)
  /\ UNCHANGED <<connVars, queueVars>>

\* fn throws UNAVAILABLE or CONNECT_FAILED: a command timed out, or the socket
\* is closed.
FnThrows(t) == inflight[t] \/ conn[sess[t]] \in {"dead", "none"}

\* First execution: delete(sid), which may find that the entry is gone.
FnConnectionError(t) ==
  LET s == sidOf[t] IN
    /\ pc[t] = "running"
    /\ FnThrows(t)
    /\ inflight' = [inflight EXCEPT ![t] = FALSE]
    /\ IF pool[s] = NoConn
         THEN /\ pc' = [pc EXCEPT ![t] = "reopening"]
              /\ sess' = [sess EXCEPT ![t] = NoConn]
              /\ UNCHANGED connVars
         ELSE /\ pc' = [pc EXCEPT ![t] = "closing"]
              /\ sess' = [sess EXCEPT ![t] = pool[s]]
              /\ Delete(s, {})
    /\ UNCHANGED <<queueVars, outcome>>

\* Fault: the second try is another call of run().
ClosedForRetryQueued(t) ==
  /\ pc[t] = "closing"
  /\ conn[sess[t]] = "none"
  /\ pc' = [pc EXCEPT ![t] = "waiting"]
  /\ sess' = [sess EXCEPT ![t] = NoConn]
  /\ prev' = [prev EXCEPT ![t] = last[sidOf[t]]]
  /\ last' = [last EXCEPT ![sidOf[t]] = t]
  /\ UNCHANGED <<connVars, sidOf, earlier, inflight, outcome>>

\* The close() awaited by delete() has ended: call connect() again.
ClosedForRetry(t) ==
  /\ pc[t] = "closing"
  /\ conn[sess[t]] = "none"
  /\ pc' = [pc EXCEPT ![t] = "reopening"]
  /\ sess' = [sess EXCEPT ![t] = NoConn]
  /\ UNCHANGED <<connVars, queueVars, inflight, outcome>>

\* Second execution: the error goes to the caller, the entry stays pooled.
RetryConnectionError(t) ==
  /\ pc[t] = "retrying"
  /\ FnThrows(t)
  /\ Settle(t, "rejected")
  /\ UNCHANGED <<connVars, queueVars>>

----------------------------------------------------------------------------

TaskStep(t) ==
  \/ CleanQueue(t) \/ Start(t) \/ Opened(t) \/ OpenFailed(t)
  \/ Command(t) \/ Answer(t) \/ FnDone(t)
  \/ FnConnectionError(t) \/ ClosedForRetry(t) \/ RetryConnectionError(t)

Next ==
  \/ \E t \in Tasks : Run(t) \/ TaskStep(t)
  \/ \E s \in Sids : IdleTimeout(s) \/ DeleteSession(s)
  \/ \E c \in Conns : LogoutAnswered(c) \/ SocketClosed(c)

Spec == Init /\ [][Next]_vars

\* What always comes to an end: connect() and every command have timeouts (the
\* TLS handshake of STARTTLS excepted, where the server is assumed to answer or
\* to hang up), a promise reaction runs, an armed timer fires.  Strong fairness
\* of FnDone says that fn sends finitely many commands.
CallProgress(t) ==
  /\ WF_vars(CleanQueue(t))
  /\ WF_vars(Start(t))
  /\ WF_vars(Opened(t) \/ OpenFailed(t))
  /\ WF_vars(Answer(t) \/ FnConnectionError(t) \/ RetryConnectionError(t))
  /\ WF_vars(ClosedForRetry(t))
  /\ SF_vars(FnDone(t))

Fairness ==
  /\ \A t \in Tasks : CallProgress(t)
  /\ \A s \in Sids : WF_vars(IdleTimeout(s))
  /\ \A c \in Conns : WF_vars(LogoutAnswered(c))

FairSpec == Spec /\ Fairness

----------------------------------------------------------------------------
(* Safety.                                                                 *)

\* The calls of a session are executed one at a time, in the order in which
\* they were made: when a call opens or uses a connection, every earlier call
\* of its session has settled, even while entries of `queues' are removed.
Serial ==
  \A t \in Tasks : pc[t] \in Active =>
    \A u \in earlier[t] : sidOf[u] = sidOf[t] => pc[u] \in Finished

\* No connection is lost: one that is not closed, nor being closed, is pooled by
\* exactly one session and its idle timer is armed, so that something will
\* close it whatever becomes of the call that opened it.
NoLostConnection ==
  \A c \in Conns : conn[c] \in {"open", "dead"} =>
    /\ \E s \in Sids : pool[s] = c /\ c \in timers[s]
    /\ \A s, r \in Sids : pool[s] = c /\ pool[r] = c => s = r

\* No idle timer outlives the entry it was armed for, so no timer can close a
\* younger connection of the session before its own 60 seconds.
NoStaleTimer == \A s \in Sids : \A c \in timers[s] : pool[s] = c

\* A connection and its timer stay together until it is closed (sieve-pool.ts:79-148).
ConnectionsKept == NoLostConnection /\ NoStaleTimer

\* A connection serves at most one call at a time, and while a call is served
\* the pool holds the connection it uses or, after a logout or the idle timer,
\* none: never a second connection of the same session.
OneCallPerConnection ==
  /\ \A t, u \in Tasks : sess[t] # NoConn /\ sess[t] = sess[u] => t = u
  /\ \A t \in Tasks : pc[t] \in {"running", "retrying"} =>
       pool[sidOf[t]] \in {NoConn, sess[t]}

\* The calls of a session keep out of each other's way (sieve-pool.ts:62-102).
CallsApart == Serial /\ OneCallPerConnection

----------------------------------------------------------------------------
(* The abstract specification that run() implements.                       *)

Status(t) ==
  CASE pc[t] = "idle"      -> "unmade"
    [] pc[t] = "waiting"   -> "queued"
    [] pc[t] \in Active    -> "active"
    [] pc[t] \in Finished  -> "over"

Executor == INSTANCE SerialExecutor WITH status <- [t \in Tasks |-> Status(t)]

\* run() executes each call once, begins it only when the earlier calls of its
\* session are over, and never takes a call back: no retry, logout or clean-up
\* of `queues' is seen as a second execution or a change of order.
ExecutesSerially == Executor!Spec

----------------------------------------------------------------------------
(* Liveness.                                                               *)

\* A call that was made settles, whether the calls before it were fulfilled or
\* rejected.
EveryCallSettles ==
  \A t \in Tasks : pc[t] = "waiting" ~> pc[t] \in Finished

\* A connection that was opened ends up closed once its session is left idle.
EveryConnectionCloses ==
  \A c \in Conns : conn[c] # "none" ~> conn[c] = "none"

\* Every call settles (sieve-pool.ts:62-102) and every connection is closed
\* (sieve-pool.ts:110-150).
EverythingEnds == EveryCallSettles /\ EveryConnectionCloses

=============================================================================

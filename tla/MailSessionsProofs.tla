------------------------- MODULE MailSessionsProofs -------------------------
(***************************************************************************)
(* Proofs about MailSessions, for every set of sessions, requests and      *)
(* backends: type correctness, and the two invariants that the run of      *)
(* MCMailSessions checks on a small instance.                              *)
(*                                                                         *)
(* EntryWillClose is inductive as it stands: getOrCreate() arms the timer  *)
(* of what it hands out, and delete() clears a timer only when it removes  *)
(* the entry or awaits a close.  SharedRefresh is not: that the request    *)
(* which leads a refresh still runs it when others join follows from what  *)
(* the map `inflight' holds, which InflightInv adds.                       *)
(***************************************************************************)
EXTENDS MailSessions, TLAPS

----------------------------------------------------------------------------
(* Type correctness.                                                       *)

\* The pool after getOrCreate().
LEMMA GetOrCreateType ==
  ASSUME TypeOK, NEW s \in Sids, NEW Rs \in SUBSET Requests, GetOrCreate(s, Rs)
  PROVE  /\ pool' \in [Sids -> Backends \union {NoBackend}]
         /\ timers' \in [Sids -> SUBSET Backends]
         /\ using' \in [Requests -> Backends \union {NoBackend}]
         /\ pc' \in [Requests -> PCs]
         /\ closing' \in [Sids -> [Backends -> 0..MaxCloses]]
         /\ imap' \in [Backends -> ImapStates]
BY DEF TypeOK, GetOrCreate, PCs

\* The pool after delete().
LEMMA DeleteType ==
  ASSUME TypeOK, NEW s \in Sids, NEW n, NEW fired \in SUBSET Backends, Delete(s, n, fired)
  PROVE  /\ pool' \in [Sids -> Backends \union {NoBackend}]
         /\ timers' \in [Sids -> SUBSET Backends]
         /\ closing' \in [Sids -> [Backends -> 0..MaxCloses]]
         /\ imap' \in [Backends -> ImapStates]
<1> DEFINE b == pool[s]
           waits == b # NoBackend /\ imap[b] = "up"
<1>1. /\ pool' \in [Sids -> Backends \union {NoBackend}]
      /\ timers' \in [Sids -> SUBSET Backends]
  BY DEF TypeOK, Delete
<1>2. CASE waits
  <2>1. b \in Backends /\ closing[s] \in [Backends -> 0..MaxCloses] /\ closing[s][b] \in 0..MaxCloses
    BY <1>2 DEF TypeOK
  <2>2. closing[s][b] + 1 \in 0..MaxCloses
    BY <1>2, <2>1, BoundAssumption DEF Delete
  <2>3. closing' = [closing EXCEPT ![s][b] = @ + 1] /\ imap' = [imap EXCEPT ![b] = "none"]
    BY <1>2 DEF Delete
  <2> QED
    BY <1>1, <2>1, <2>2, <2>3 DEF TypeOK, ImapStates
<1>3. CASE ~waits
  BY <1>1, <1>3 DEF TypeOK, Delete
<1> QED
  BY <1>2, <1>3

\* Every step keeps the variables in their types.
LEMMA TypeStep == TypeOK /\ [Next]_vars => TypeOK'
<1> SUFFICES ASSUME TypeOK, [Next]_vars PROVE TypeOK'
  OBVIOUS
<1> USE DEF storeVars, requestVars, poolVars
<1>1. ASSUME NEW s \in Sids, DeleteEnds(s) PROVE TypeOK'
  <2>1. PICK b \in Backends : /\ closing[s][b] > 0
                              /\ closing' = [closing EXCEPT ![s][b] = @ - 1]
    BY <1>1 DEF DeleteEnds
  <2>2. closing[s] \in [Backends -> 0..MaxCloses] /\ closing[s][b] - 1 \in 0..MaxCloses
    BY <2>1, BoundAssumption DEF TypeOK
  <2>3. closing' \in [Sids -> [Backends -> 0..MaxCloses]]
    BY <2>1, <2>2 DEF TypeOK
  <2> QED
    BY <1>1, <2>3 DEF DeleteEnds, TypeOK
<1>2. ASSUME NEW s \in Sids, IdleTimeout(s) PROVE TypeOK'
  <2>1. PICK b \in timers[s] : Delete(s, 1, {b})
    BY <1>2 DEF IdleTimeout
  <2>2. {b} \in SUBSET Backends
    BY DEF TypeOK
  <2> QED
    BY <1>2, <2>1, <2>2, DeleteType DEF IdleTimeout, TypeOK
<1>3. ASSUME NEW s \in Sids, Logout(s) PROVE TypeOK'
  BY <1>3, DeleteType DEF Logout, TypeOK
<1>4. ASSUME NEW s \in Sids, Expire(s) PROVE TypeOK'
  BY <1>4 DEF Expire, TypeOK
<1>5. ASSUME NEW s \in Sids, TokenAges(s) PROVE TypeOK'
  BY <1>5 DEF TokenAges, TypeOK, AccessStates
<1>6. ASSUME NEW s \in Sids, Reauthenticated(s) PROVE TypeOK'
  BY <1>6 DEF Reauthenticated, TypeOK, AccessStates
<1>7. ASSUME NEW r \in Requests, Deny(r) PROVE TypeOK'
  BY <1>7 DEF Deny, TypeOK, PCs
<1>8. ASSUME NEW r \in Requests, Proceed(r) PROVE TypeOK'
  <2>1. sidOf[r] \in Sids /\ GetOrCreate(sidOf[r], {r})
    BY <1>8 DEF Proceed, TypeOK
  <2> QED
    BY <1>8, <2>1, GetOrCreateType DEF Proceed, TypeOK
<1>9. ASSUME NEW r \in Requests, JoinRefresh(r) PROVE TypeOK'
  BY <1>9 DEF JoinRefresh, TypeOK, PCs
<1>10. ASSUME NEW r \in Requests, StartRefresh(r) PROVE TypeOK'
  BY <1>10 DEF StartRefresh, TypeOK, PCs
<1>11. ASSUME NEW r \in Requests, Unrenewable(r) PROVE TypeOK'
  <2>1. sidOf[r] \in Sids /\ Delete(sidOf[r], 1, {})
    BY <1>11 DEF Unrenewable, Terminate, TypeOK
  <2> QED
    BY <1>11, <2>1, DeleteType DEF Unrenewable, Terminate, TypeOK, PCs
<1>12. ASSUME NEW r \in Requests, RefreshEnds(r) PROVE
         /\ inflight' \in [Sids -> Requests \union {NoRequest}]
         /\ lead' \in [Requests -> Requests \union {NoRequest}]
         /\ sidOf' \in [Requests -> Sids]
  BY <1>12 DEF RefreshEnds, TypeOK
<1>13. ASSUME NEW r \in Requests, Refreshed(r) PROVE TypeOK'
  <2>1. sidOf[r] \in Sids /\ Waiting(r) \in SUBSET Requests
    BY DEF TypeOK, Waiting
  <2>2. GetOrCreate(sidOf[r], Waiting(r)) /\ RefreshEnds(r)
    BY <1>13 DEF Refreshed
  <2> QED
    BY <1>13, <1>12, <2>1, <2>2, GetOrCreateType DEF Refreshed, TypeOK, AccessStates
<1>14. ASSUME NEW r \in Requests, RefreshRefused(r) PROVE TypeOK'
  <2> DEFINE n == IF Waiting(r) = {r} THEN 1 ELSE 2
  <2>1. sidOf[r] \in Sids /\ RefreshEnds(r) /\ Delete(sidOf[r], n, {})
    BY <1>14 DEF RefreshRefused, Terminate, TypeOK
  <2> QED
    BY <1>14, <1>12, <2>1, DeleteType DEF RefreshRefused, Terminate, TypeOK, PCs
<1>15. ASSUME NEW r \in Requests, RefreshOutage(r) PROVE TypeOK'
  <2>1. sidOf[r] \in Sids /\ Waiting(r) \in SUBSET Requests
    BY DEF TypeOK, Waiting
  <2>2. GetOrCreate(sidOf[r], Waiting(r)) /\ RefreshEnds(r)
    BY <1>15 DEF RefreshOutage
  <2> QED
    BY <1>15, <1>12, <2>1, <2>2, GetOrCreateType DEF RefreshOutage, TypeOK
<1>16. ASSUME NEW r \in Requests, UseImap(r) \/ Respond(r) PROVE TypeOK'
  BY <1>16 DEF UseImap, Respond, TypeOK, PCs, ImapStates
<1>17. ASSUME NEW b \in Backends, Connected(b) \/ ConnectionLost(b) PROVE TypeOK'
  BY <1>17 DEF Connected, ConnectionLost, TypeOK, ImapStates
<1>18. CASE UNCHANGED vars
  BY <1>18 DEF vars, TypeOK
<1> QED
  BY <1>1, <1>2, <1>3, <1>4, <1>5, <1>6, <1>7, <1>8, <1>9, <1>10, <1>11, <1>13, <1>14,
     <1>15, <1>16, <1>17, <1>18 DEF Next

\* The first state has the types.
LEMMA TypeInit == Init => TypeOK
BY BoundAssumption DEF Init, TypeOK, AccessStates, PCs, ImapStates

\* The variables of the store, the refreshes and the pool always have their types.
THEOREM TypeCorrect == Spec => []TypeOK
BY TypeInit, TypeStep, PTL DEF Spec

----------------------------------------------------------------------------
(* The pool.                                                               *)

\* delete() leaves the entry only when it awaits the close of its backend.
LEMMA DeleteKeepsEntry ==
  ASSUME TypeOK, EntryWillClose, NEW s \in Sids, NEW n, NEW fired \in SUBSET Backends,
         Delete(s, n, fired)
  PROVE  EntryWillClose'
<1> SUFFICES ASSUME NEW q \in Sids, pool'[q] # NoBackend
             PROVE  pool'[q] \in timers'[q] \/ closing'[q][pool'[q]] > 0
  BY DEF EntryWillClose
<1> DEFINE b == pool[s]
           waits == b # NoBackend /\ imap[b] = "up"
<1>1. CASE q # s
  <2>1. pool'[q] = pool[q] /\ timers'[q] = timers[q] /\ closing'[q] = closing[q]
    BY <1>1 DEF Delete, TypeOK
  <2> QED
    BY <2>1 DEF EntryWillClose
<1>2. CASE q = s
  <2>1. waits /\ pool'[s] = b
    BY <1>2 DEF Delete, TypeOK
  <2>2. b \in Backends /\ closing[s] \in [Backends -> 0..MaxCloses]
    BY <2>1 DEF TypeOK
  <2>3. closing'[s][b] = closing[s][b] + 1
    BY <2>1, <2>2 DEF Delete, TypeOK
  <2> QED
    BY <1>2, <2>1, <2>2, <2>3, BoundAssumption
<1> QED
  BY <1>1, <1>2

\* getOrCreate() arms the timer of what it hands out.
LEMMA GetOrCreateArms ==
  ASSUME TypeOK, EntryWillClose, NEW s \in Sids, NEW Rs, GetOrCreate(s, Rs)
  PROVE  EntryWillClose'
BY DEF GetOrCreate, EntryWillClose, TypeOK

\* Every step keeps the backends of the pool on their way out.
LEMMA EntryStep == TypeOK /\ EntryWillClose /\ [Next]_vars => EntryWillClose'
<1> SUFFICES ASSUME TypeOK, EntryWillClose, [Next]_vars PROVE EntryWillClose'
  OBVIOUS
<1>1. ASSUME NEW s \in Sids, DeleteEnds(s) PROVE EntryWillClose'
  <2>1. PICK b \in Backends : closing' = [closing EXCEPT ![s][b] = @ - 1]
    BY <1>1 DEF DeleteEnds
  <2>2. \A q \in Sids : q # s => pool'[q] = pool[q] /\ closing'[q] = closing[q]
    BY <1>1, <2>1 DEF DeleteEnds, TypeOK
  <2>3. pool'[s] = NoBackend /\ timers' = timers
    BY <1>1 DEF DeleteEnds, TypeOK
  <2> QED
    BY <2>2, <2>3 DEF EntryWillClose
<1>2. ASSUME NEW s \in Sids, IdleTimeout(s) PROVE EntryWillClose'
  <2>1. PICK b \in timers[s] : Delete(s, 1, {b})
    BY <1>2 DEF IdleTimeout
  <2> QED
    BY <2>1, DeleteKeepsEntry DEF TypeOK
<1>3. ASSUME NEW s \in Sids, Logout(s) PROVE EntryWillClose'
  BY <1>3, DeleteKeepsEntry DEF Logout
<1>4. ASSUME NEW r \in Requests, Unrenewable(r) \/ RefreshRefused(r) PROVE EntryWillClose'
  <2>1. sidOf[r] \in Sids
    BY DEF TypeOK
  <2>2. PICK n : Delete(sidOf[r], n, {})
    BY <1>4 DEF Unrenewable, RefreshRefused, Terminate
  <2> QED
    BY <2>1, <2>2, DeleteKeepsEntry
<1>5. ASSUME NEW r \in Requests, Proceed(r) \/ Refreshed(r) \/ RefreshOutage(r)
      PROVE  EntryWillClose'
  <2>1. sidOf[r] \in Sids
    BY DEF TypeOK
  <2>2. PICK Rs : GetOrCreate(sidOf[r], Rs)
    BY <1>5 DEF Proceed, Refreshed, RefreshOutage
  <2> QED
    BY <2>1, <2>2, GetOrCreateArms
<1>6. ASSUME UNCHANGED <<pool, timers, closing>> PROVE EntryWillClose'
  BY <1>6 DEF EntryWillClose
<1>7. ASSUME NEW s \in Sids, Expire(s) \/ TokenAges(s) \/ Reauthenticated(s)
      PROVE  UNCHANGED <<pool, timers, closing>>
  BY <1>7 DEF Expire, TokenAges, Reauthenticated, poolVars
<1>8. ASSUME NEW r \in Requests,
             Deny(r) \/ JoinRefresh(r) \/ StartRefresh(r) \/ UseImap(r) \/ Respond(r)
      PROVE  UNCHANGED <<pool, timers, closing>>
  BY <1>8 DEF Deny, JoinRefresh, StartRefresh, UseImap, Respond, poolVars
<1>9. ASSUME NEW b \in Backends, Connected(b) \/ ConnectionLost(b)
      PROVE  UNCHANGED <<pool, timers, closing>>
  BY <1>9 DEF Connected, ConnectionLost
<1>10. CASE UNCHANGED vars
  BY <1>6, <1>10 DEF vars
<1> QED
  BY <1>1, <1>2, <1>3, <1>4, <1>5, <1>6, <1>7, <1>8, <1>9, <1>10 DEF Next

----------------------------------------------------------------------------
(* The refreshes.                                                          *)

\* Who awaits a refresh awaits the one in the map.
AwaitsInflight ==
  \A r \in Requests : pc[r] = "refreshing" =>
    lead[r] = inflight[sidOf[r]] /\ lead[r] # NoRequest

\* The map holds a request of the session that awaits its own refresh.
LeaderRuns ==
  \A s \in Sids : inflight[s] # NoRequest =>
    sidOf[inflight[s]] = s /\ pc[inflight[s]] = "refreshing"

InflightInv == AwaitsInflight /\ LeaderRuns

\* A refresh that is known is shared.
LEMMA InflightImpliesShared == TypeOK /\ InflightInv => SharedRefresh
BY DEF TypeOK, InflightInv, AwaitsInflight, LeaderRuns, SharedRefresh

\* Those who await the refresh led by r are those of its session.
LEMMA WaitingIsOfSession ==
  ASSUME TypeOK, InflightInv, NEW r \in Requests, r \in Waiting(r)
  PROVE  /\ inflight[sidOf[r]] = r
         /\ Waiting(r) = {q \in Requests : pc[q] = "refreshing" /\ sidOf[q] = sidOf[r]}
BY DEF TypeOK, InflightInv, AwaitsInflight, LeaderRuns, Waiting

\* The end of a refresh releases everybody who awaits it.
LEMMA RefreshEndsInv ==
  ASSUME TypeOK, InflightInv, NEW r \in Requests, r \in Waiting(r), RefreshEnds(r),
         NEW status \in {"using", "denied"},
         pc' = [q \in Requests |-> IF q \in Waiting(r) THEN status ELSE pc[q]]
  PROVE  InflightInv'
<1>1. /\ inflight[sidOf[r]] = r
      /\ \A q \in Requests : q \in Waiting(r) <=> pc[q] = "refreshing" /\ sidOf[q] = sidOf[r]
  BY WaitingIsOfSession
<1>2. /\ sidOf' = sidOf
      /\ inflight' = [inflight EXCEPT ![sidOf[r]] = NoRequest]
      /\ lead' = [q \in Requests |-> IF q \in Waiting(r) THEN NoRequest ELSE lead[q]]
  BY DEF RefreshEnds
<1>3. ASSUME NEW q \in Requests, pc'[q] = "refreshing"
      PROVE  q \notin Waiting(r) /\ pc[q] = "refreshing" /\ sidOf[q] # sidOf[r]
  BY <1>1, <1>3
<1>4. AwaitsInflight'
  BY <1>2, <1>3 DEF TypeOK, InflightInv, AwaitsInflight
<1>5. LeaderRuns'
  <2> SUFFICES ASSUME NEW s \in Sids, inflight'[s] # NoRequest
               PROVE  sidOf[inflight'[s]] = s /\ pc'[inflight'[s]] = "refreshing"
    BY <1>2 DEF LeaderRuns
  <2>1. s # sidOf[r] /\ inflight'[s] = inflight[s] /\ inflight[s] \in Requests
    BY <1>2 DEF TypeOK
  <2>2. sidOf[inflight[s]] = s /\ pc[inflight[s]] = "refreshing"
    BY <2>1 DEF InflightInv, LeaderRuns
  <2> QED
    BY <1>1, <2>1, <2>2
<1> QED
  BY <1>4, <1>5 DEF InflightInv

\* Every step keeps the refreshes shared.
LEMMA InflightStep == TypeOK /\ InflightInv /\ [Next]_vars => InflightInv'
<1> SUFFICES ASSUME TypeOK, InflightInv, [Next]_vars PROVE InflightInv'
  OBVIOUS
<1>1. ASSUME UNCHANGED <<inflight, sidOf, pc, lead>> PROVE InflightInv'
  BY <1>1 DEF InflightInv, AwaitsInflight, LeaderRuns
<1>2. ASSUME NEW s \in Sids,
             \/ DeleteEnds(s) \/ IdleTimeout(s) \/ Logout(s) \/ Expire(s)
             \/ TokenAges(s) \/ Reauthenticated(s)
      PROVE  UNCHANGED <<inflight, sidOf, pc, lead>>
  BY <1>2 DEF DeleteEnds, IdleTimeout, Logout, Expire, TokenAges, Reauthenticated, requestVars
<1>3. ASSUME NEW b \in Backends, Connected(b) \/ ConnectionLost(b)
      PROVE  UNCHANGED <<inflight, sidOf, pc, lead>>
  BY <1>3 DEF Connected, ConnectionLost, requestVars
\* A request that was not refreshing, and still is not.
<1>4. ASSUME NEW r \in Requests, pc[r] # "refreshing", NEW status, status # "refreshing",
             pc' = [pc EXCEPT ![r] = status], UNCHANGED <<inflight, sidOf, lead>>
      PROVE  InflightInv'
  BY <1>4 DEF TypeOK, InflightInv, AwaitsInflight, LeaderRuns
<1>5. ASSUME NEW r \in Requests, Deny(r) \/ Respond(r) PROVE InflightInv'
  BY <1>4, <1>5 DEF Deny, Respond
<1>6. ASSUME NEW r \in Requests, Proceed(r) PROVE InflightInv'
  <2>1. pc' = [pc EXCEPT ![r] = "using"]
    BY <1>6 DEF Proceed, GetOrCreate, TypeOK
  <2> QED
    BY <1>4, <1>6, <2>1 DEF Proceed
<1>7. ASSUME NEW r \in Requests, Unrenewable(r) PROVE InflightInv'
  <2>1. pc' = [pc EXCEPT ![r] = "denied"]
    BY <1>7 DEF Unrenewable, Terminate, TypeOK
  <2> QED
    BY <1>4, <1>7, <2>1 DEF Unrenewable
<1>8. ASSUME NEW r \in Requests, JoinRefresh(r) PROVE InflightInv'
  BY <1>8 DEF JoinRefresh, TypeOK, InflightInv, AwaitsInflight, LeaderRuns
<1>9. ASSUME NEW r \in Requests, StartRefresh(r) PROVE InflightInv'
  <2>1. /\ sidOf' = sidOf /\ sidOf[r] \in Sids
        /\ inflight[sidOf[r]] = NoRequest
        /\ inflight' = [inflight EXCEPT ![sidOf[r]] = r]
        /\ pc' = [pc EXCEPT ![r] = "refreshing"]
        /\ lead' = [lead EXCEPT ![r] = r]
        /\ pc[r] = "off"
    BY <1>9 DEF StartRefresh, TypeOK
  <2>2. \A q \in Requests : pc[q] = "refreshing" => q # r /\ sidOf[q] # sidOf[r]
    BY <2>1 DEF InflightInv, AwaitsInflight
  <2>3. AwaitsInflight'
    BY <2>1, <2>2, NullAssumption DEF TypeOK, InflightInv, AwaitsInflight
  <2>4. LeaderRuns'
    BY <2>1 DEF TypeOK, InflightInv, LeaderRuns
  <2> QED
    BY <2>3, <2>4 DEF InflightInv
<1>10. ASSUME NEW r \in Requests, Refreshed(r) \/ RefreshOutage(r) PROVE InflightInv'
  <2>1. /\ r \in Waiting(r) /\ RefreshEnds(r)
        /\ pc' = [q \in Requests |-> IF q \in Waiting(r) THEN "using" ELSE pc[q]]
    BY <1>10 DEF Refreshed, RefreshOutage, GetOrCreate
  <2> QED
    BY <2>1, RefreshEndsInv
<1>11. ASSUME NEW r \in Requests, RefreshRefused(r) PROVE InflightInv'
  <2>1. /\ r \in Waiting(r) /\ RefreshEnds(r)
        /\ pc' = [q \in Requests |-> IF q \in Waiting(r) THEN "denied" ELSE pc[q]]
    BY <1>11 DEF RefreshRefused, Terminate
  <2> QED
    BY <2>1, RefreshEndsInv
<1>12. ASSUME NEW r \in Requests, UseImap(r) PROVE UNCHANGED <<inflight, sidOf, pc, lead>>
  BY <1>12 DEF UseImap, requestVars
<1>13. CASE UNCHANGED vars
  BY <1>1, <1>13 DEF vars
<1> QED
  BY <1>1, <1>2, <1>3, <1>5, <1>6, <1>7, <1>8, <1>9, <1>10, <1>11, <1>12, <1>13 DEF Next

----------------------------------------------------------------------------

\* Nothing is pooled or refreshed at first.
LEMMA InvInit == Init => EntryWillClose /\ InflightInv
BY DEF Init, EntryWillClose, InflightInv, AwaitsInflight, LeaderRuns

\* "Un seul rafraichissement a la fois par session" (refresh.ts:1-12): who awaits
\* a refresh awaits the one in the map, which the request that leads it runs.
THEOREM RefreshIsShared == Spec => []SharedRefresh
<1>1. Init => TypeOK /\ InflightInv
  BY TypeInit, InvInit
<1>2. TypeOK /\ InflightInv /\ [Next]_vars => (TypeOK /\ InflightInv)'
  BY TypeStep, InflightStep
<1> QED
  BY <1>1, <1>2, InflightImpliesShared, PTL DEF Spec

\* A backend in the pool is always on its way out, and refreshes are shared.
THEOREM PoolIsSound == Spec => []PoolSound
<1>1. Init => TypeOK /\ EntryWillClose
  BY TypeInit, InvInit
<1>2. TypeOK /\ EntryWillClose /\ [Next]_vars => (TypeOK /\ EntryWillClose)'
  BY TypeStep, EntryStep
<1>3. EntryWillClose /\ SharedRefresh <=> PoolSound
  BY DEF PoolSound
<1> QED
  BY <1>1, <1>2, <1>3, RefreshIsShared, PTL DEF Spec
=============================================================================

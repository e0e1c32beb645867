---------------------------- MODULE MailSessions ----------------------------
(***************************************************************************)
(* Sessions of the server: the credentials in memory                       *)
(* (server/lib/session/credentials.ts), the lazy refresh of OIDC tokens    *)
(* (server/lib/auth/oidc/refresh.ts and session.ts), the pool of mail      *)
(* backends (server/lib/session/pool.ts), the connection of a backend      *)
(* (ImapBackend in server/lib/mail/imap.ts), and the requests that go      *)
(* through all of them (requireMail in server/utils/mail-session.ts).      *)
(*                                                                         *)
(* A request takes the credentials of its session, waits for a refresh of  *)
(* the token if one is due, gets the pooled backend and uses it.  A logout *)
(* or a revocation removes the credentials and closes the backend; both    *)
(* the refresh and the close are awaited, and anything may happen          *)
(* meanwhile.  An action is the code between two awaits.                   *)
(***************************************************************************)
EXTENDS Integers

CONSTANTS
  Sids,        \* sessions, each opened before the first step
  OAuthSids,   \* those opened by OIDC, whose token must be refreshed
  Requests,    \* requests; each is made at most once
  Backends,    \* identities of backends, reused when nothing refers to them
  NoBackend, NoRequest,
  MaxCloses    \* bound on the overlapping closes of one backend

ASSUME OAuthAssumption == OAuthSids \subseteq Sids
ASSUME NullAssumption == NoBackend \notin Backends /\ NoRequest \notin Requests
ASSUME BoundAssumption == MaxCloses \in Nat \ {0}

VARIABLES
  alive,     \* alive[s]: the credentials of s are in the store
  access,    \* access[s]: state of its access token
  renewable, \* renewable[s]: it has a refresh token
  inflight,  \* inflight[s]: the request whose refresh is in the map `inflight'
  sidOf,     \* sidOf[r]: the session of the request
  pc,        \* pc[r]: where the request is
  lead,      \* lead[r]: the request whose refresh r awaits, possibly its own
  using,     \* using[r]: the backend r got
  pool,      \* pool[s]: the backend in the map `backends'
  timers,    \* timers[s]: backends whose idle timer, which deletes s, is armed
  closing,   \* closing[s][b]: calls of delete(s) that await the close of b
  imap       \* imap[b]: the connection of the backend

vars == <<alive, access, renewable, inflight, sidOf, pc, lead, using,
          pool, timers, closing, imap>>
storeVars == <<alive, access, renewable>>
requestVars == <<pc, lead, using>>
poolVars == <<pool, timers, closing, imap>>

\* "due": less than the margin remains; "expired": it is refused by the server.
AccessStates == {"fresh", "due", "expired"}
PCs == {"off", "refreshing", "using", "done", "denied"}
ImapStates == {"none", "connecting", "up"}

TypeOK ==
  /\ alive \in [Sids -> BOOLEAN]
  /\ access \in [Sids -> AccessStates]
  /\ renewable \in [Sids -> BOOLEAN]
  /\ inflight \in [Sids -> Requests \union {NoRequest}]
  /\ sidOf \in [Requests -> Sids]
  /\ pc \in [Requests -> PCs]
  /\ lead \in [Requests -> Requests \union {NoRequest}]
  /\ using \in [Requests -> Backends \union {NoBackend}]
  /\ pool \in [Sids -> Backends \union {NoBackend}]
  /\ timers \in [Sids -> SUBSET Backends]
  /\ closing \in [Sids -> [Backends -> 0..MaxCloses]]
  /\ imap \in [Backends -> ImapStates]

Init ==
  /\ alive = [s \in Sids |-> TRUE]
  /\ access = [s \in Sids |-> "fresh"]
  /\ renewable \in [Sids -> BOOLEAN]
  /\ \A s \in Sids \ OAuthSids : ~renewable[s]
  /\ inflight = [s \in Sids |-> NoRequest]
  /\ sidOf \in [Requests -> Sids]
  /\ pc = [r \in Requests |-> "off"]
  /\ lead = [r \in Requests |-> NoRequest]
  /\ using = [r \in Requests |-> NoBackend]
  /\ pool = [s \in Sids |-> NoBackend]
  /\ timers = [s \in Sids |-> {}]
  /\ closing = [s \in Sids |-> [b \in Backends |-> 0]]
  /\ imap = [b \in Backends |-> "none"]

----------------------------------------------------------------------------
(* The pool.                                                               *)

\* createBackend(): no reference to an earlier backend of that identity is left.
Fresh(b) ==
  /\ imap[b] = "none"
  /\ \A r \in Requests : using[r] # b
  /\ \A s \in Sids : pool[s] # b /\ b \notin timers[s] /\ closing[s][b] = 0

\* getOrCreate(s) for the requests of Rs: the pooled backend, even one that is
\* being closed, or a new one; its idle timer is armed again.
GetOrCreate(s, Rs) ==
  \E b \in Backends :
    /\ IF pool[s] = NoBackend THEN Fresh(b) ELSE b = pool[s]
    /\ pool' = [pool EXCEPT ![s] = b]
    /\ timers' = [timers EXCEPT ![s] = @ \union {b}]
    /\ using' = [r \in Requests |-> IF r \in Rs THEN b ELSE using[r]]
    /\ pc' = [r \in Requests |-> IF r \in Rs THEN "using" ELSE pc[r]]
    /\ UNCHANGED <<closing, imap>>

\* n > 0 calls of delete(s), timers in `fired' being consumed: clear the timer
\* of the entry and close its backend.  An open connection is forgotten at once
\* but the first call awaits the end of its logout, with the entry in place; the
\* calls that find no open connection remove the entry.
Delete(s, n, fired) ==
  LET b == pool[s]
      waits == b # NoBackend /\ imap[b] = "up" IN
    /\ timers' = [timers EXCEPT ![s] = @ \ ({b} \union fired)]
    /\ pool' = [pool EXCEPT ![s] = IF waits /\ n = 1 THEN b ELSE NoBackend]
    /\ IF waits
         THEN /\ closing[s][b] < MaxCloses
              /\ closing' = [closing EXCEPT ![s][b] = @ + 1]
              /\ imap' = [imap EXCEPT ![b] = "none"]
         ELSE UNCHANGED <<closing, imap>>

\* Fault: a close that ends unasked.
DeleteEndsTwice(s) ==
  /\ \E b \in Backends :
       /\ closing[s][b] > 0
       /\ closing' = [closing EXCEPT ![s][b] = @ - 2]
  /\ pool' = [pool EXCEPT ![s] = NoBackend]
  /\ UNCHANGED <<storeVars, inflight, sidOf, requestVars, timers, imap>>

\* The close awaited by a delete(s) has ended: remove the entry of s, whatever
\* it holds by now.
DeleteEnds(s) ==
  /\ \E b \in Backends :
       /\ closing[s][b] > 0
       /\ closing' = [closing EXCEPT ![s][b] = @ - 1]
  /\ pool' = [pool EXCEPT ![s] = NoBackend]
  /\ UNCHANGED <<storeVars, inflight, sidOf, requestVars, timers, imap>>

\* An idle timer fires: delete(s), whatever the entry of s holds by now.
IdleTimeout(s) ==
  /\ \E b \in timers[s] : Delete(s, 1, {b})
  /\ UNCHANGED <<storeVars, inflight, sidOf, requestVars>>

----------------------------------------------------------------------------
(* Sessions and their tokens.                                              *)

\* A logout, or a revocation from another session.
Logout(s) ==
  /\ alive[s]
  /\ alive' = [alive EXCEPT ![s] = FALSE]
  /\ Delete(s, 1, {})
  /\ UNCHANGED <<access, renewable, inflight, sidOf, requestVars>>

\* The absolute or the idle time limit, found by live() or by the sweep: the
\* entry of the store is removed and nothing else.
Expire(s) ==
  /\ alive[s]
  /\ alive' = [alive EXCEPT ![s] = FALSE]
  /\ UNCHANGED <<access, renewable, inflight, sidOf, requestVars, poolVars>>

\* The access token of an OIDC session gets old.
TokenAges(s) ==
  /\ s \in OAuthSids
  /\ access[s] # "expired"
  /\ access' = [access EXCEPT ![s] = IF @ = "fresh" THEN "due" ELSE "expired"]
  /\ UNCHANGED <<alive, renewable, inflight, sidOf, requestVars, poolVars>>

\* The user authenticates again at the provider: the callback replaces the
\* tokens of the session in place.
Reauthenticated(s) ==
  /\ s \in OAuthSids /\ alive[s]
  /\ access' = [access EXCEPT ![s] = "fresh"]
  /\ \E granted \in BOOLEAN : renewable' = [renewable EXCEPT ![s] = @ \/ granted]
  /\ UNCHANGED <<alive, inflight, sidOf, requestVars, poolVars>>

----------------------------------------------------------------------------
(* requireMail(), with freshCredentials().                                 *)

NeedsRefresh(s) == s \in OAuthSids /\ access[s] # "fresh"

\* The session does not exist (any more): 401.
Deny(r) ==
  /\ pc[r] = "off"
  /\ ~alive[sidOf[r]]
  /\ pc' = [pc EXCEPT ![r] = "denied"]
  /\ UNCHANGED <<storeVars, inflight, sidOf, lead, using, poolVars>>

\* The token is usable as it is, or cannot be refreshed but is still valid.
Proceed(r) ==
  LET s == sidOf[r] IN
    /\ pc[r] = "off"
    /\ alive[s]
    /\ NeedsRefresh(s) =>
         inflight[s] = NoRequest /\ ~renewable[s] /\ access[s] # "expired"
    /\ GetOrCreate(s, {r})
    /\ UNCHANGED <<storeVars, inflight, sidOf, lead>>

\* Another request of the session is refreshing: await the same promise.
JoinRefresh(r) ==
  LET s == sidOf[r] IN
    /\ pc[r] = "off"
    /\ alive[s] /\ NeedsRefresh(s)
    /\ inflight[s] # NoRequest
    /\ pc' = [pc EXCEPT ![r] = "refreshing"]
    /\ lead' = [lead EXCEPT ![r] = inflight[s]]
    /\ UNCHANGED <<storeVars, inflight, sidOf, using, poolVars>>

\* Fault: not looking for a refresh that is already running.
StartRefreshAnyway(r) ==
  LET s == sidOf[r] IN
    /\ pc[r] = "off"
    /\ alive[s] /\ NeedsRefresh(s)
    /\ renewable[s]
    /\ inflight' = [inflight EXCEPT ![s] = r]
    /\ pc' = [pc EXCEPT ![r] = "refreshing"]
    /\ lead' = [lead EXCEPT ![r] = r]
    /\ UNCHANGED <<storeVars, sidOf, using, poolVars>>

\* Send the refresh token to the provider.
StartRefresh(r) ==
  LET s == sidOf[r] IN
    /\ pc[r] = "off"
    /\ alive[s] /\ NeedsRefresh(s)
    /\ inflight[s] = NoRequest
    /\ renewable[s]
    /\ inflight' = [inflight EXCEPT ![s] = r]
    /\ pc' = [pc EXCEPT ![r] = "refreshing"]
    /\ lead' = [lead EXCEPT ![r] = r]
    /\ UNCHANGED <<storeVars, sidOf, using, poolVars>>

\* Outcome "expired" for the requests of Rs: each removes the credentials,
\* deletes the pooled backend and answers 401.
Terminate(s, Rs, n) ==
  /\ alive' = [alive EXCEPT ![s] = FALSE]
  /\ pc' = [r \in Requests |-> IF r \in Rs THEN "denied" ELSE pc[r]]
  /\ Delete(s, n, {})
  /\ UNCHANGED using

\* An expired token and no refresh token.
Unrenewable(r) ==
  LET s == sidOf[r] IN
    /\ pc[r] = "off"
    /\ alive[s] /\ NeedsRefresh(s)
    /\ inflight[s] = NoRequest
    /\ ~renewable[s] /\ access[s] = "expired"
    /\ Terminate(s, {r}, 1)
    /\ UNCHANGED <<access, renewable, inflight, sidOf, lead>>

\* Fault: releasing only the request that leads the refresh.
WaitingAlone(r) == {q \in Requests : pc[q] = "refreshing" /\ lead[q] = r /\ q = r}

\* The requests that await the refresh led by r; it leaves the map `inflight'.
Waiting(r) == {q \in Requests : pc[q] = "refreshing" /\ lead[q] = r}

RefreshEnds(r) ==
  /\ inflight' = [inflight EXCEPT ![sidOf[r]] = NoRequest]
  /\ lead' = [q \in Requests |-> IF q \in Waiting(r) THEN NoRequest ELSE lead[q]]
  /\ UNCHANGED sidOf

\* New tokens, applied if the session is still in the store.  The requests go on
\* in either case, with the credentials they hold.
Refreshed(r) ==
  LET s == sidOf[r] IN
    /\ r \in Waiting(r)
    /\ RefreshEnds(r)
    /\ access' = [access EXCEPT ![s] = IF alive[s] THEN "fresh" ELSE @]
    /\ GetOrCreate(s, Waiting(r))
    /\ UNCHANGED <<alive, renewable>>

\* The provider refuses for good (invalid_grant), or fails when the token has
\* expired.
RefreshRefused(r) ==
  LET s == sidOf[r]
      n == IF Waiting(r) = {r} THEN 1 ELSE 2 IN
    /\ r \in Waiting(r)
    /\ RefreshEnds(r)
    /\ Terminate(s, Waiting(r), n)
    /\ UNCHANGED <<access, renewable>>

\* The provider fails but the token is still valid: go on with it.
RefreshOutage(r) ==
  LET s == sidOf[r] IN
    /\ r \in Waiting(r)
    /\ access[s] # "expired"
    /\ RefreshEnds(r)
    /\ GetOrCreate(s, Waiting(r))
    /\ UNCHANGED storeVars

----------------------------------------------------------------------------
(* The use of a backend: imap() connects lazily, once at a time.           *)

UseImap(r) ==
  LET b == using[r] IN
    /\ pc[r] = "using"
    /\ imap[b] = "none"
    /\ imap' = [imap EXCEPT ![b] = "connecting"]
    /\ UNCHANGED <<storeVars, inflight, sidOf, requestVars, pool, timers, closing>>

Connected(b) ==
  /\ imap[b] = "connecting"
  /\ \E result \in {"up", "none"} : imap' = [imap EXCEPT ![b] = result]
  /\ UNCHANGED <<storeVars, inflight, sidOf, requestVars, pool, timers, closing>>

\* The connection is lost, or imapflow ends it after five silent minutes.
ConnectionLost(b) ==
  /\ imap[b] = "up"
  /\ imap' = [imap EXCEPT ![b] = "none"]
  /\ UNCHANGED <<storeVars, inflight, sidOf, requestVars, pool, timers, closing>>

\* The request ends and drops its backend.
Respond(r) ==
  /\ pc[r] = "using"
  /\ pc' = [pc EXCEPT ![r] = "done"]
  /\ using' = [using EXCEPT ![r] = NoBackend]
  /\ UNCHANGED <<storeVars, inflight, sidOf, lead, poolVars>>

----------------------------------------------------------------------------

Next ==
  \/ \E s \in Sids :
       \/ DeleteEnds(s) \/ IdleTimeout(s) \/ Logout(s) \/ Expire(s)
       \/ TokenAges(s) \/ Reauthenticated(s)
  \/ \E r \in Requests :
       \/ Deny(r) \/ Proceed(r) \/ JoinRefresh(r) \/ StartRefresh(r)
       \/ Unrenewable(r) \/ Refreshed(r) \/ RefreshRefused(r) \/ RefreshOutage(r)
       \/ UseImap(r) \/ Respond(r)
  \/ \E b \in Backends : Connected(b) \/ ConnectionLost(b)

Spec == Init /\ [][Next]_vars

RefreshSettles(r) == Refreshed(r) \/ RefreshRefused(r) \/ RefreshOutage(r)

\* The provider's answer and the logout of IMAP are under client timeouts; the
\* timers fire; the sweep removes a session at its absolute age; requests end.
\* Nobody has to make a request, log out or reauthenticate.
Fairness ==
  /\ \A s \in Sids :
       WF_vars(DeleteEnds(s)) /\ WF_vars(IdleTimeout(s)) /\ WF_vars(Expire(s))
  /\ \A r \in Requests : WF_vars(RefreshSettles(r)) /\ WF_vars(Respond(r))
  /\ \A b \in Backends : WF_vars(Connected(b))

FairSpec == Spec /\ Fairness

----------------------------------------------------------------------------
(* Properties.                                                             *)

\* A backend in the pool is always on its way out: its idle timer is armed, or a
\* close of it is awaited whose end removes the entry.  delete() clears the
\* timer before it awaits the close, and getOrCreate() may hand the entry out
\* again, or another delete() remove it, meanwhile.
EntryWillClose ==
  \A s \in Sids :
    pool[s] # NoBackend =>
      pool[s] \in timers[s] \/ closing[s][pool[s]] > 0

\* "Un seul rafraichissement a la fois par session": every request that waits
\* for a refresh waits for the one in the map `inflight' of its session, which
\* the request that leads it is still running.
SharedRefresh ==
  \A r \in Requests :
    pc[r] = "refreshing" =>
      /\ lead[r] = inflight[sidOf[r]]
      /\ lead[r] # NoRequest
      /\ pc[lead[r]] = "refreshing" /\ lead[lead[r]] = lead[r]

\* Nothing of a session is forgotten: its backend will be closed
\* (pool.ts:50-76), and those who await its refresh are known to the one that
\* runs (refresh.ts:60-108).
PoolSound == EntryWillClose /\ SharedRefresh

\* A request that waits for the refresh of another is released with it, whatever
\* the provider answers and whatever happens to the session meanwhile.
EveryRequestSettles ==
  \A r \in Requests : pc[r] = "refreshing" ~> pc[r] \in {"using", "done", "denied"}

\* Once requests stop, the pool forgets every backend: none is left without a
\* timer by a delete() that was overtaken.
PoolDrains == <>[](\A s \in Sids : pool[s] = NoBackend)

\* Every request gets its answer (mail-session.ts:69-82, refresh.ts:87-108), and
\* every backend is closed (pool.ts:50-76).
EverythingEnds == EveryRequestSettles /\ PoolDrains

\* freshCredentials() gives "null si elle n'existe plus": a request gets a
\* backend only if its session is still in the store at that time.
GrantsOnlyAlive ==
  [][\A r \in Requests :
       pc[r] # "using" /\ pc'[r] = "using" => alive'[sidOf[r]]]_vars

\* A session is destroyed by a refresh only when its access token could not be
\* renewed, never when the token is a newly granted one.
DestroyedOnlyWhenStale ==
  [][\A r \in Requests :
       pc[r] = "refreshing" /\ pc'[r] = "denied" => access[sidOf[r]] # "fresh"]_vars

\* "fermeture 5 min apres la DERNIERE requete": the only armed timer of a session
\* is the one of its pooled backend, which each request arms again.
NoStaleTimer == \A s \in Sids : timers[s] \subseteq {pool[s]}

=============================================================================

------------------------------ MODULE Sessions ------------------------------
(***************************************************************************)
(* The lifetime of sessions: the store of credentials with its two limits  *)
(* (server/lib/session/credentials.ts), and the requests of the page       *)
(* Active sessions (api/account/sessions/), which revoke them.             *)
(*                                                                         *)
(* A session is seen in three ways: by live(), which answers a request; by *)
(* listByOwner(), for the page and for revoke-others; and by the sweep of  *)
(* every minute.  Time is counted in steps of the two limits.              *)
(***************************************************************************)
EXTENDS Integers

CONSTANTS
  Sids,         \* identifiers of sessions, each drawn once
  Owners,       \* the accounts
  AbsoluteTtl,  \* ABSOLUTE_TTL
  IdleTtl,      \* IDLE_TTL
  MaxTime       \* bound on the clock

\* The limits are numbers; the module is used through instances, which prove or check it.
LimitsAssumption == AbsoluteTtl \in Nat /\ IdleTtl \in Nat /\ MaxTime \in Nat

VARIABLES
  now,       \* the clock
  owner,     \* owner[s]: the account session s will be opened for
  status,    \* status[s]: not created, in the store, or deleted
  created,   \* created[s]
  lastSeen,  \* lastSeen[s]
  accessed,  \* accessed[s]: hasBeenAccessed
  inside,    \* inside[s]: a request of s is past requireMail
  revoking,  \* revoking[s]: sessions that revoke-others of s has still to delete
  before     \* before[s]: sessions of the account when it began (history)

sessionVars == <<status, created, lastSeen, accessed>>
revokeVars == <<inside, revoking, before>>
vars == <<now, owner, sessionVars, revokeVars>>

TypeOK ==
  /\ now \in 0..MaxTime
  /\ owner \in [Sids -> Owners]
  /\ status \in [Sids -> {"none", "stored", "deleted"}]
  /\ created \in [Sids -> 0..MaxTime] /\ lastSeen \in [Sids -> 0..MaxTime]
  /\ accessed \in [Sids -> BOOLEAN] /\ inside \in [Sids -> BOOLEAN]
  /\ revoking \in [Sids -> SUBSET Sids] /\ before \in [Sids -> SUBSET Sids]

Init ==
  /\ now = 0
  /\ owner \in [Sids -> Owners]
  /\ status = [s \in Sids |-> "none"]
  /\ created = [s \in Sids |-> 0] /\ lastSeen = [s \in Sids |-> 0]
  /\ accessed = [s \in Sids |-> FALSE] /\ inside = [s \in Sids |-> FALSE]
  /\ revoking = [s \in Sids |-> {}] /\ before = [s \in Sids |-> {}]

Tick ==
  /\ now < MaxTime
  /\ now' = now + 1
  /\ UNCHANGED <<owner, sessionVars, revokeVars>>

Stored == {s \in Sids : status[s] = "stored"}
TooOld(s) == now - created[s] > AbsoluteTtl
Idle(s) == now - lastSeen[s] > IdleTtl

\* live(), and the test of listByOwner(): a session never used has no idle limit.
Live(s) == s \in Stored /\ ~TooOld(s) /\ ~(accessed[s] /\ Idle(s))

\* The test of the sweep.
Swept(s) == s \in Stored /\ (TooOld(s) \/ Idle(s))

\* Fault: the list takes the test of the sweep.
ListedUnswept(s) == {t \in Stored : ~Swept(t) /\ owner[t] = owner[s]}

\* listByOwner() of the account of s.
Listed(s) == {t \in Sids : Live(t) /\ owner[t] = owner[s]}

\* The entries of Ss leave the store.
Delete(Ss) ==
  /\ status' = [s \in Sids |-> IF s \in Ss THEN "deleted" ELSE status[s]]
  /\ created' = [s \in Sids |-> IF s \in Ss THEN 0 ELSE created[s]]
  /\ lastSeen' = [s \in Sids |-> IF s \in Ss THEN 0 ELSE lastSeen[s]]
  /\ accessed' = [s \in Sids |-> IF s \in Ss THEN FALSE ELSE accessed[s]]

Create(s) ==
  /\ status[s] = "none"
  /\ status' = [status EXCEPT ![s] = "stored"]
  /\ created' = [created EXCEPT ![s] = now]
  /\ lastSeen' = [lastSeen EXCEPT ![s] = now]
  /\ UNCHANGED <<now, owner, accessed, revokeVars>>

\* Fault: the store is read without the limits.
EnterStored(s) ==
  /\ s \in Stored
  /\ accessed' = [accessed EXCEPT ![s] = TRUE]
  /\ lastSeen' = [lastSeen EXCEPT ![s] = now]
  /\ inside' = [inside EXCEPT ![s] = TRUE]
  /\ UNCHANGED <<now, owner, status, created, revoking, before>>

\* requireMail: get() of a session that is live uses it.
Enter(s) ==
  /\ Live(s)
  /\ accessed' = [accessed EXCEPT ![s] = TRUE]
  /\ lastSeen' = [lastSeen EXCEPT ![s] = now]
  /\ inside' = [inside EXCEPT ![s] = TRUE]
  /\ UNCHANGED <<now, owner, status, created, revoking, before>>

\* live() of a session past a limit deletes it.
Expire(s) ==
  /\ s \in Stored /\ ~Live(s)
  /\ Delete({s})
  /\ UNCHANGED <<now, owner, revokeVars>>

Sweep ==
  /\ \E s \in Sids : Swept(s)
  /\ Delete({s \in Sids : Swept(s)})
  /\ UNCHANGED <<now, owner, revokeVars>>

\* sessions/[id].delete.ts: a session of the account, possibly the one that asks.
RevokeOne(s) ==
  /\ inside[s]
  /\ \E t \in Listed(s) : Delete({t})
  /\ inside' = [inside EXCEPT ![s] = FALSE]
  /\ UNCHANGED <<now, owner, revoking, before>>

\* revoke-others.post.ts: list the others and delete the first; the close of its
\* connections is awaited before each of the next.
RevokeOthers(s) ==
  /\ inside[s] /\ revoking[s] = {}
  /\ inside' = [inside EXCEPT ![s] = FALSE]
  /\ before' = [before EXCEPT ![s] = {t \in Stored : owner[t] = owner[s]} \ {s}]
  /\ LET others == Listed(s) \ {s} IN
       IF others = {} THEN UNCHANGED <<sessionVars, revoking>>
       ELSE \E t \in others :
              /\ Delete({t})
              /\ revoking' = [revoking EXCEPT ![s] = others \ {t}]
  /\ UNCHANGED <<now, owner>>

RevokeNext(s) ==
  /\ \E t \in revoking[s] :
       /\ Delete({t})
       /\ revoking' = [revoking EXCEPT ![s] = @ \ {t}]
  /\ UNCHANGED <<now, owner, inside, before>>

\* The request ends otherwise.
Leave(s) ==
  /\ inside[s]
  /\ inside' = [inside EXCEPT ![s] = FALSE]
  /\ UNCHANGED <<now, owner, sessionVars, revoking, before>>

\* revokeByOwner(): the account is evicted.
RevokeByOwner(o) ==
  /\ \E s \in Stored : owner[s] = o
  /\ Delete({s \in Stored : owner[s] = o})
  /\ UNCHANGED <<now, owner, revokeVars>>

Next ==
  \/ Tick \/ Sweep \/ \E o \in Owners : RevokeByOwner(o)
  \/ \E s \in Sids : Create(s) \/ Enter(s) \/ Expire(s) \/ Leave(s)
                      \/ RevokeOne(s) \/ RevokeOthers(s) \/ RevokeNext(s)

Spec == Init /\ [][Next]_vars

----------------------------------------------------------------------------
(* Once revoke-others has deleted its last session, none of the sessions   *)
(* of the account that were open when it began answers a request again:    *)
(* the sessions it leaves out of its list are past a limit for good, even  *)
(* those that never were used.                                             *)
RevokedStayOut ==
  \A s \in Sids : revoking[s] = {} => \A t \in before[s] : ~Live(t)

(* A session that was refused once, deleted or past a limit, never answers *)
(* again.                                                                  *)
RefusedForGood ==
  [][\A s \in Sids : status[s] # "none" /\ ~Live(s) => ~Live(s)']_vars

(* A request of one account never deletes a session of another.            *)
OwnSessionsOnly ==
  [][\A s \in Sids : \A t \in Sids :
       inside[s] /\ ~inside'[s] /\ t # s /\ status[t] = "stored" /\ status'[t] = "deleted"
         => owner[t] = owner[s]]_vars
=============================================================================

----------------------------- MODULE OwnerData -----------------------------
(***************************************************************************)
(* What the server keeps for an account apart from mail: the identities    *)
(* (server/lib/store/identities.ts), the row of preferences, the session,  *)
(* and the life of the throw-away accounts of the public demonstration     *)
(* (server/lib/demo/accounts.ts, api/auth/demo.post.ts), which appear with *)
(* a mailbox, rows and a session and are evicted when they are too old or  *)
(* too many.                                                               *)
(*                                                                         *)
(* A request is authorised first (requireMail), then reads its body, then  *)
(* writes: the account may be evicted in between.  The Roundcube importer  *)
(* writes identities of the regular accounts while the server is stopped.  *)
(***************************************************************************)
EXTENDS Naturals, Sequences, SequencesExt, FiniteSets, FiniteSetsExt, Functions

CONSTANTS
  Regular,        \* accounts of the mail server, with a session
  Visitors,       \* addresses of demonstration accounts, generated at random
  MaxAccounts,    \* COLOMBE_DEMO_MAX_ACCOUNTS
  MaxIdentities,  \* MAX_IDENTITIES (20)
  DemoLimit,      \* demoLimiter: accounts one address may create (10 in 15 min)
  MaxSteps        \* bound: requests and imports

\* The module is used through instances, which prove or check it.
AccountsAssumption ==
  /\ Regular \cap Visitors = {} /\ MaxIdentities >= 1
  /\ {MaxAccounts, MaxIdentities, DemoLimit} \subseteq Nat

VARIABLES
  accounts,    \* DemoAccountManager.accounts, in order of creation
  mailboxes,   \* mockStore: the visitors who have a mailbox
  identities,  \* rows of identities of each owner, oldest first: isDefault
  prefs,       \* owners who have a row of preferences
  sessions,    \* credentialsStore: owners who have a session
  requests,    \* requests that are authorised and read their body
  visits,      \* demoLimiter: hits of the address of the visitors
  steps

vars == <<accounts, mailboxes, identities, prefs, sessions, requests, visits, steps>>

All == Regular \cup Visitors

Kinds == {"list", "add", "addDefault", "makeDefault", "unsetDefault", "delete", "prefs"}

Init ==
  /\ accounts = <<>> /\ mailboxes = {}
  /\ identities = [o \in All |-> <<>>] /\ prefs = {}
  /\ sessions = Regular /\ requests = {}
  /\ visits = 0 /\ steps = 0

Step == steps < MaxSteps /\ steps' = steps + 1

----------------------------------------------------------------------------
(* The identities of one account, oldest first: isDefault of each row.    *)

NoDefault(rows) == [k \in DOMAIN rows |-> FALSE]

\* The first reading creates the default identity.
Ensured(rows) == IF rows = <<>> THEN <<TRUE>> ELSE rows

\* addIdentity: the first one is the default one whatever was asked.
Added(rows, d) ==
  IF Len(rows) >= MaxIdentities THEN rows
  ELSE IF rows = <<>> \/ d THEN Append(NoDefault(rows), TRUE)
  ELSE Append(rows, FALSE)

\* updateIdentity with isDefault: one default has to remain.
Updated(rows, k, d) ==
  LET written == [IF d THEN NoDefault(rows) ELSE rows EXCEPT ![k] = d]
  IN  IF TRUE \in Range(written) THEN written ELSE [written EXCEPT ![k] = TRUE]

\* Fault: nobody inherits.
RemovedAlone(rows, k) == IF Len(rows) <= 1 THEN rows ELSE RemoveAt(rows, k)

\* deleteIdentity: never the last one; the oldest one left inherits.
Removed(rows, k) ==
  LET rest == RemoveAt(rows, k)
  IN  IF Len(rows) <= 1 THEN rows
      ELSE IF rows[k] THEN [rest EXCEPT ![1] = TRUE] ELSE rest

----------------------------------------------------------------------------
(* The demonstration accounts.                                             *)

\* The accounts that are too many once one has been created.
Overflow(as) == IF Len(as) <= MaxAccounts THEN 0 ELSE Len(as) - MaxAccounts

\* evict, for each of the k oldest accounts: mailbox, rows of every table, sessions.
Evict(as, k, boxes, ids, ps, ss) ==
  LET gone == {as[j] : j \in 1..k}
  IN  /\ accounts' = SubSeq(as, k + 1, Len(as))
      /\ mailboxes' = boxes \ gone
      /\ identities' = [o \in All |-> IF o \in gone THEN <<>> ELSE ids[o]]
      /\ prefs' = ps \ gone
      /\ sessions' = ss \ gone

\* A generated address is a new one.
Known == Range(accounts) \cup {o \in All : identities[o] # <<>>} \cup prefs

\* create: the account with its mailbox and its rows, then the evictions.
Create(o, ss) ==
  LET as == Append(accounts, o)
  IN  Evict(as, Overflow(as), mailboxes \cup {o}, [identities EXCEPT ![o] = <<TRUE>>],
            prefs \cup {o}, ss)

\* POST /api/auth/demo: the account and its session, which opens when the evictions
\* are done.
Visit(o) ==
  /\ visits < DemoLimit /\ visits' = visits + 1
  /\ o \notin Known
  /\ Create(o, sessions \cup {o})
  /\ UNCHANGED <<requests, steps>>

\* sweep, by a periodic timer: the accounts whose age is over the limit are the first.
Sweep(k) ==
  /\ Evict(accounts, k, mailboxes, identities, prefs, sessions)
  /\ UNCHANGED <<requests, visits, steps>>

\* The window of the limiter ends.
WindowEnds ==
  /\ visits > 0 /\ visits' = 0 /\ Step
  /\ UNCHANGED <<accounts, mailboxes, identities, prefs, sessions, requests>>

----------------------------------------------------------------------------
(* Requests.                                                               *)

\* requireMail lets the request of a session through.
Authorise(o, kind) ==
  /\ o \in sessions
  /\ Step
  /\ requests' = requests \cup {[owner |-> o, kind |-> kind]}
  /\ UNCHANGED <<accounts, mailboxes, identities, prefs, sessions, visits>>

\* The routes of api/identities, on one of the rows where they take an id.
Wrote(rows, kind) ==
  CASE kind = "list"         -> {Ensured(rows)}
    [] kind = "add"          -> {Added(rows, FALSE)}
    [] kind = "addDefault"   -> {Added(rows, TRUE)}
    [] kind = "makeDefault"  -> {Updated(rows, k, TRUE) : k \in DOMAIN rows} \cup {rows}
    [] kind = "unsetDefault" -> {Updated(rows, k, FALSE) : k \in DOMAIN rows} \cup {rows}
    [] kind = "delete"       -> {Removed(rows, k) : k \in DOMAIN rows} \cup {rows}
    [] kind = "prefs"        -> {rows}

\* The body has been read: the route writes, whatever became of the session.
Finish(r) ==
  /\ requests' = requests \ {r}
  /\ \E rows \in Wrote(identities[r.owner], r.kind) :
       identities' = [identities EXCEPT ![r.owner] = rows]
  /\ prefs' = IF r.kind = "prefs" THEN prefs \cup {r.owner} ELSE prefs
  /\ UNCHANGED <<accounts, mailboxes, sessions, visits, steps>>

\* The user logs out, or the session ends.
Leave(o) ==
  /\ o \in sessions
  /\ sessions' = sessions \ {o}
  /\ UNCHANGED <<accounts, mailboxes, identities, prefs, requests, visits, steps>>

\* applyIdentityImport for an identity whose name the account does not have.
ImportIdentity(o, standard) ==
  /\ requests = {}
  /\ Step
  /\ LET rows == identities[o]
         make == rows = <<>> \/ (standard /\ TRUE \notin Range(rows))
     IN  identities' = [identities EXCEPT ![o] =
           IF Len(rows) >= MaxIdentities THEN rows
           ELSE Append(IF make THEN NoDefault(rows) ELSE rows, make)]
  /\ UNCHANGED <<accounts, mailboxes, prefs, sessions, requests, visits>>

Next ==
  \/ \E o \in Visitors : Visit(o)
  \/ \E k \in 1..Len(accounts) : Sweep(k)
  \/ WindowEnds
  \/ \E o \in All : Leave(o) \/ \E kind \in Kinds : Authorise(o, kind)
  \/ \E r \in requests : Finish(r)
  \/ \E o \in Regular, standard \in BOOLEAN : ImportIdentity(o, standard)

Spec == Init /\ [][Next]_vars

----------------------------------------------------------------------------
(* Properties.                                                             *)

TypeOK ==
  /\ Range(accounts) \subseteq Visitors
  /\ mailboxes \subseteq Visitors /\ prefs \subseteq All /\ sessions \subseteq All
  /\ \A o \in All : identities[o] \in Seq(BOOLEAN)
  /\ requests \subseteq [owner : All, kind : Kinds]
  /\ visits \in 0..DemoLimit

\* identities.ts: "il doit toujours rester exactement une identité par défaut",
\* over every mix of the routes, the demonstration and the importer.
OneDefault ==
  \A o \in All : identities[o] # <<>> =>
    Cardinality({k \in DOMAIN identities[o] : identities[o][k]}) = 1

\* An account whose memory is bounded: accounts, mailboxes and identities.
Bounded ==
  /\ Len(accounts) <= MaxAccounts
  /\ mailboxes = Range(accounts)
  /\ \A o \in All : Len(identities[o]) <= MaxIdentities

\* The session of a visitor never outlives his account: what an eviction left
\* for a request in flight to write is never read again.
SessionsLive == sessions \cap Visitors \subseteq Range(accounts)

\* The rows, mailboxes and sessions of the accounts agree with each other.
DataConsistent == OneDefault /\ Bounded /\ SessionsLive

\* accounts.ts: evict removes "boîte, lignes SQLite et sessions" of an account.
EvictedLeavesNothing ==
  \A o \in Visitors \ Range(accounts) : o \notin prefs /\ identities[o] = <<>>
=============================================================================

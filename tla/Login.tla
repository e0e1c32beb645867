------------------------------- MODULE Login -------------------------------
(***************************************************************************)
(* How a session of one account is opened: the first factor, the password  *)
(* (api/auth/login.post.ts; single sign-on is the subject of OidcFlow),    *)
(* the limits on failures (server/lib/session/rate-limit.ts), the second   *)
(* factor (api/auth/2fa.post.ts, server/lib/auth/pending.ts,               *)
(* second-factor.ts and totp.ts, server/lib/store/twofactor.ts) and its    *)
(* administration (api/account/2fa/).                                      *)
(*                                                                         *)
(* The mail server checks a password in its own time; everything else is   *)
(* done between two awaits.  An attempt keeps its name from the password   *)
(* to the session: attempt a becomes the pending login a, then session a,  *)
(* whose end is the subject of Sessions.  One tick of the clock is one     *)
(* step of TOTP.                                                           *)
(***************************************************************************)
EXTENDS Integers, Sequences, FiniteSets, FiniteSetsExt

CONSTANTS
  Attempts,      \* attempts at a login of the account, each made at most once
  MaxTime,       \* bound on the clock
  MaxSecrets,    \* bound on the secrets generated
  MaxIssues,     \* bound on the issues of recovery codes
  MaxVerifying,  \* bound on the passwords being verified at one time
  RecoveryCount, \* recovery codes of an issue
  AccountLimit, IpLimit, Window,  \* failures allowed in a window
  PendingTtl, MaxAttempts         \* of a pending login

ASSUME BoundsAssumption ==
  {MaxTime, MaxSecrets, MaxIssues, MaxVerifying, RecoveryCount, AccountLimit, IpLimit,
   Window, PendingTtl, MaxAttempts} \subseteq Nat
ASSUME TimeAssumption == MaxTime >= 2 /\ MaxAttempts >= 1 /\ MaxVerifying >= 1

VARIABLES
  now,       \* the clock
  hits,      \* the times of the failures counted for the account
  ipHits,    \* and for the address they come from
  status,    \* status[a]: where the attempt is
  since,     \* since[a]: creation of its pending login
  tries,     \* tries[a]: wrong codes of its pending login
  totp,      \* the row of table totp: secret (0: no row), enabled, lastStep
  secrets,   \* secrets generated so far
  recovery,  \* unused recovery codes
  issues,    \* issues of recovery codes so far
  uses,      \* uses[c]: how often the code was accepted (history)
  wrong      \* which of hits are refused codes (history)

limitVars == <<hits, ipHits>>
loginVars == <<status, since, tries>>
factorVars == <<totp, secrets, recovery, issues, uses>>
vars == <<now, limitVars, loginVars, factorVars, wrong>>

Start == 2                       \* so that no step of TOTP in use is 0
Times == Start..MaxTime
Steps == 1..(MaxTime + 1)
TotpCodes == {"totp"} \X (1..MaxSecrets) \X Steps
RecoveryCodes == {"recovery"} \X (1..MaxIssues) \X (1..RecoveryCount)
BadCode == <<"bad", 0, 0>>
Codes == TotpCodes \union RecoveryCodes
NoRow == [secret |-> 0, enabled |-> FALSE, lastStep |-> 0]

TypeOK ==
  /\ now \in Times
  /\ hits \in Seq(Times) /\ ipHits \in Seq(Times) /\ wrong \subseteq DOMAIN hits
  /\ status \in [Attempts -> {"off", "verifying", "pending", "open", "gone"}]
  /\ since \in [Attempts -> Times]
  /\ tries \in [Attempts -> 0..(MaxAttempts - 1)]
  /\ totp \in [secret : 0..MaxSecrets, enabled : BOOLEAN, lastStep : Steps \union {0}]
  /\ secrets \in 0..MaxSecrets /\ issues \in 0..MaxIssues
  /\ recovery \subseteq RecoveryCodes
  /\ uses \in [Codes -> Nat]

Init ==
  /\ now = Start
  /\ hits = << >> /\ ipHits = << >> /\ wrong = {}
  /\ status = [a \in Attempts |-> "off"]
  /\ since = [a \in Attempts |-> Start]
  /\ tries = [a \in Attempts |-> 0]
  /\ totp = NoRow /\ secrets = 0 /\ recovery = {} /\ issues = 0
  /\ uses = [c \in Codes |-> 0]

Tick ==
  /\ now < MaxTime
  /\ now' = now + 1
  /\ UNCHANGED <<limitVars, loginVars, factorVars, wrong>>

----------------------------------------------------------------------------
(* The limits on failures.                                                 *)

\* Those of the failures I of h that are younger than the window.  The code drops
\* the others when it reads them.
Recent(h, I) == {i \in I : now - h[i] < Window}

IsLimited(h, limit) == Cardinality(Recent(h, DOMAIN h)) >= limit

Hit(h) == Append(h, now)

----------------------------------------------------------------------------
(* The second factor.                                                      *)

\* Fault: a step may be used again.
AcceptsAgain(code, requireEnabled, allowRecovery) ==
  /\ totp.secret # 0
  /\ requireEnabled => totp.enabled
  /\ \/ /\ code[1] = "totp" /\ code[2] = totp.secret
        /\ code[3] \in (now - 1)..(now + 1) /\ code[3] >= totp.lastStep
     \/ allowRecovery /\ totp.enabled /\ code \in recovery

Accepts(code, requireEnabled, allowRecovery) ==
  /\ totp.secret # 0
  /\ requireEnabled => totp.enabled
  /\ \/ /\ code[1] = "totp" /\ code[2] = totp.secret
        /\ code[3] \in (now - 1)..(now + 1) /\ code[3] > totp.lastStep
     \/ allowRecovery /\ totp.enabled /\ code \in recovery

\* What accepting the code leaves: its step, or the code itself, is used up.
RowAfter(code) ==
  IF code[1] = "totp" THEN [totp EXCEPT !.lastStep = Max({totp.lastStep, code[3]})] ELSE totp

Spend(code) ==
  /\ recovery' = recovery \ {code}
  /\ uses' = [uses EXCEPT ![code] = @ + 1]

NewIssue == {"recovery"} \X {issues + 1} \X (1..RecoveryCount)

----------------------------------------------------------------------------
(* The first factor.                                                       *)

Verifying == {a \in Attempts : status[a] = "verifying"}

\* The limits are read, then the mail server is asked.
StartLogin(a) ==
  /\ status[a] = "off" /\ Cardinality(Verifying) < MaxVerifying
  /\ ~IsLimited(ipHits, IpLimit)
  /\ ~IsLimited(hits, AccountLimit)
  /\ status' = [status EXCEPT ![a] = "verifying"]
  /\ UNCHANGED <<now, limitVars, since, tries, factorVars, wrong>>

\* The server refuses: a failure, for the address and for the account.
Refused(a) ==
  /\ status[a] = "verifying"
  /\ status' = [status EXCEPT ![a] = "gone"]
  /\ ipHits' = Hit(ipHits)
  /\ hits' = Hit(hits)
  /\ UNCHANGED <<now, since, tries, factorVars, wrong>>

\* The server does not answer: not a failure.
Unavailable(a) ==
  /\ status[a] = "verifying"
  /\ status' = [status EXCEPT ![a] = "gone"]
  /\ UNCHANGED <<now, limitVars, since, tries, factorVars, wrong>>

\* The pending login of a is forgotten, and a goes where `where' says.
Forget(a, where) ==
  /\ status' = [status EXCEPT ![a] = where]
  /\ since' = [since EXCEPT ![a] = Start]
  /\ tries' = [tries EXCEPT ![a] = 0]

\* create(), once the failures of the account have been forgotten.
Opens(a) ==
  /\ hits' = << >> /\ wrong' = {}
  /\ Forget(a, "open")

Expired(a) == status[a] = "pending" /\ since[a] + PendingTtl <= now

\* The server accepts, and the second factor is enabled by now: a pending login,
\* which sweeps the expired ones.
NeedsCode(a) ==
  /\ status[a] = "verifying" /\ totp.enabled
  /\ LET swept == {b \in Attempts : Expired(b)} IN
       /\ status' = [b \in Attempts |-> IF b = a THEN "pending"
                                        ELSE IF b \in swept THEN "gone" ELSE status[b]]
       /\ since' = [b \in Attempts |-> IF b = a THEN now
                                       ELSE IF b \in swept THEN Start ELSE since[b]]
       /\ tries' = [b \in Attempts |-> IF b \in swept THEN 0 ELSE tries[b]]
  /\ UNCHANGED <<now, limitVars, factorVars, wrong>>

\* The server accepts, and that is enough.
OpensAtOnce(a) ==
  /\ status[a] = "verifying" /\ ~totp.enabled
  /\ Opens(a)
  /\ UNCHANGED <<now, ipHits, factorVars>>

----------------------------------------------------------------------------
(* The code: 2fa.post.ts.                                                  *)

\* The pending login has expired: it is forgotten.
CodeTooLate(a) ==
  /\ Expired(a)
  /\ Forget(a, "gone")
  /\ UNCHANGED <<now, limitVars, factorVars, wrong>>

Waits(a) == status[a] = "pending" /\ ~Expired(a) /\ ~IsLimited(hits, AccountLimit)

\* Fault: one try too many.
CodeRefusedOnceMore(a, code) ==
  /\ Waits(a) /\ ~Accepts(code, TRUE, TRUE)
  /\ hits' = Hit(hits) /\ wrong' = wrong \union {Len(hits) + 1}
  /\ IF tries[a] + 1 > MaxAttempts
       THEN Forget(a, "gone")
       ELSE tries' = [tries EXCEPT ![a] = @ + 1] /\ UNCHANGED <<status, since>>
  /\ UNCHANGED <<now, ipHits, factorVars>>

CodeRefused(a, code) ==
  /\ Waits(a) /\ ~Accepts(code, TRUE, TRUE)
  /\ hits' = Hit(hits) /\ wrong' = wrong \union {Len(hits) + 1}
  /\ IF tries[a] + 1 >= MaxAttempts
       THEN Forget(a, "gone")
       ELSE tries' = [tries EXCEPT ![a] = @ + 1] /\ UNCHANGED <<status, since>>
  /\ UNCHANGED <<now, ipHits, factorVars>>

CodeAccepted(a, code) ==
  /\ Waits(a) /\ Accepts(code, TRUE, TRUE)
  /\ totp' = RowAfter(code)
  /\ Spend(code)
  /\ Opens(a)
  /\ UNCHANGED <<now, ipHits, secrets, issues>>

----------------------------------------------------------------------------
(* The administration of the second factor, by a request of a session past *)
(* requireMail: the session may have ended meanwhile.                      *)

Administers(a) ==
  /\ status[a] = "open"
  /\ UNCHANGED <<now, limitVars, loginVars, wrong>>

\* A new secret, not enabled yet.
Setup(a) ==
  /\ Administers(a) /\ ~totp.enabled /\ secrets < MaxSecrets
  /\ secrets' = secrets + 1
  /\ totp' = [secret |-> secrets + 1, enabled |-> FALSE, lastStep |-> 0]
  /\ UNCHANGED <<recovery, issues, uses>>

\* A first code enables the secret and issues recovery codes.
Enable(a, code) ==
  /\ Administers(a) /\ ~totp.enabled /\ issues < MaxIssues
  /\ code \in TotpCodes /\ Accepts(code, FALSE, FALSE)
  /\ totp' = [RowAfter(code) EXCEPT !.enabled = TRUE]
  /\ uses' = [uses EXCEPT ![code] = @ + 1]
  /\ issues' = issues + 1 /\ recovery' = NewIssue
  /\ UNCHANGED secrets

\* A code of the secret replaces the recovery codes.
NewCodes(a, code) ==
  /\ Administers(a) /\ issues < MaxIssues
  /\ code \in TotpCodes /\ Accepts(code, TRUE, FALSE)
  /\ totp' = RowAfter(code)
  /\ uses' = [uses EXCEPT ![code] = @ + 1]
  /\ issues' = issues + 1 /\ recovery' = NewIssue
  /\ UNCHANGED secrets

Disable(a, code) ==
  /\ Administers(a) /\ Accepts(code, TRUE, TRUE)
  /\ uses' = [uses EXCEPT ![code] = @ + 1]
  /\ totp' = NoRow /\ recovery' = {}
  /\ UNCHANGED <<secrets, issues>>

----------------------------------------------------------------------------
AttemptStep(a) ==
  \/ StartLogin(a) \/ Refused(a) \/ Unavailable(a) \/ NeedsCode(a) \/ OpensAtOnce(a)
  \/ CodeTooLate(a) \/ \E code \in Codes \union {BadCode} : CodeRefused(a, code)
  \/ \E code \in Codes : CodeAccepted(a, code)

FactorStep(a) ==
  \/ Setup(a) \/ \E code \in Codes : Enable(a, code) \/ NewCodes(a, code) \/ Disable(a, code)

Next == Tick \/ \E a \in Attempts : AttemptStep(a) \/ FactorStep(a)

Spec == Init /\ [][Next]_vars

----------------------------------------------------------------------------
(* A code, of the application or of recovery, is accepted at most once,    *)
(* whatever it is accepted for and however the account was set up again in *)
(* between: lastStep, and the rows of recovery_codes.                      *)
CodesUsedOnce == \A c \in Codes : uses[c] <= 1

(* Whoever has the password can try, in a window, no more wrong codes than *)
(* an account may have failures, however many pending logins they open:    *)
(* the right password alone does not reset the count.                      *)
GuessesBounded == Cardinality(Recent(hits, wrong)) <= AccountLimit

(* The limit of an account is read before the mail server is asked and     *)
(* counted after: the passwords refused in a window exceed it by no more   *)
(* than those that can be in verification beside the last one.             *)
FailuresBounded ==
  Cardinality(Recent(hits, DOMAIN hits \ wrong)) <= AccountLimit + MaxVerifying - 1

(* Recovery codes in the database are those of the last issue, and only    *)
(* while the second factor is enabled.                                     *)
RecoveryIsCurrent ==
  /\ \A c \in recovery : c[2] = issues
  /\ ~totp.enabled => recovery = {}

(* All of them: the codes and the failures of the account.                 *)
LoginSound == CodesUsedOnce /\ GuessesBounded /\ FailuresBounded /\ RecoveryIsCurrent

(* While the second factor is enabled no session opens without a code, even *)
(* for a login that had begun before it was enabled.                       *)
OpensWithCode ==
  [][\A a \in Attempts :
       status[a] # "open" /\ status'[a] = "open" /\ totp.enabled
         => \E c \in Codes : uses'[c] > uses[c]]_vars
----------------------------------------------------------------------------
(* The sessions that are opened, and how they end: Sessions, with a state of *)
(* its own.  What is stated of both sides of a login is stated here.        *)
CONSTANTS
  Sids, Owners,          \* sessions, and the accounts they are of
  AbsoluteTtl, IdleTtl,  \* their two limits
  SessionTime            \* bound on their clock

VARIABLES clock, owner, stored, created, lastSeen, accessed, inside, revoking, before

Store == INSTANCE Sessions WITH now <- clock, status <- stored, MaxTime <- SessionTime

(* Sessions that were revoked together stay out: Sessions.                 *)
RevokedStayOut == Store!RevokedStayOut

(* No step opens a session without a code that is due, or brings a session *)
(* back that was refused, or ends one of another account.                  *)
LoginSteps == OpensWithCode /\ Store!RefusedForGood /\ Store!OwnSessionsOnly

----------------------------------------------------------------------------
(* The other first factor, single sign-on: OidcFlow, with a state of its own. *)
CONSTANTS
  Flows, Callbacks, Granted,          \* demands, requests, sessions
  Users, Nobody, TwoFactor,
  FlowTtl, Skew, ReauthWindow, Latency, Never,
  OidcTime                            \* bound on its clock

VARIABLES instant, flowJar, jar, flow, grant, idp, call, session, pending

Sso == INSTANCE OidcFlow WITH now <- instant, code <- grant, Sids <- Granted,
         Window <- ReauthWindow, MaxTime <- OidcTime

(* A login with OIDC opens one session, and confirms only for its owner:   *)
(* OidcFlow.                                                               *)
OidcSound == Sso!OneSessionPerCode /\ Sso!ConfirmedByOwner

----------------------------------------------------------------------------
(* What the server keeps of an owner: OwnerData, with a state of its own.   *)
CONSTANTS
  Regular, Visitors,                      \* accounts, and demonstration ones
  MaxAccounts, MaxIdentities, DemoLimit,
  OwnerSteps                              \* bound on the requests

VARIABLES accounts, mailboxes, identities, prefs, sessions, requests, visits, made

Data == INSTANCE OwnerData WITH steps <- made, MaxSteps <- OwnerSteps

(* Each owner with identities has one by default, and an account of the     *)
(* demonstration, its mailbox and its sessions exist together: OwnerData.   *)
DataConsistent == Data!TypeOK /\ Data!DataConsistent
=============================================================================

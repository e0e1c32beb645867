---------------------------- MODULE LoginProofs ----------------------------
(***************************************************************************)
(* Proofs about Login, for any set of attempts, whatever the bounds: the   *)
(* type invariant, the properties of the codes and of the failures that    *)
(* the run of MCAccounts checks on a small instance, and that no session   *)
(* opens without a code.                                                   *)
(*                                                                         *)
(* The failures.  A limit is read when a password is sent and counted when *)
(* it is refused, so the count alone is not inductive: what never grows    *)
(* beyond the bound is the failures of the window together with the        *)
(* passwords being verified.  A wrong code is read and counted in one      *)
(* step, so that of those the count alone is.                              *)
(*                                                                         *)
(* The codes.  Secrets and issues are numbered and a number is never given *)
(* twice, so a code used once can come back only under the secret in use,  *)
(* where lastStep stands after it, or in the last issue, whose used codes  *)
(* are gone from the table.                                                *)
(*                                                                         *)
(* Then proofs about Sessions, for any sessions, accounts and lifetimes:   *)
(* those that were revoked together stay out, none comes back, and none is *)
(* ended by a request of another account.  About OidcFlow: a code opens one *)
(* session, and confirms only for its owner.  And about OwnerData: the      *)
(* rows, the mailboxes and the sessions of the owners agree.                *)
(***************************************************************************)
EXTENDS Login, FiniteSetTheorems, SequenceTheorems, TLAPS

Failed == DOMAIN hits \ wrong

\* The failures that are counted, and those that may still be.
FailuresInv ==
  /\ IsFiniteSet(Verifying)
  /\ Cardinality(Recent(hits, Failed)) + Cardinality(Verifying)
       <= AccountLimit + MaxVerifying - 1

StepsInv ==
  /\ totp.secret <= secrets
  /\ \A s \in 1..MaxSecrets : \A k \in Steps :
       uses[<<"totp", s, k>>] > 0 =>
         s <= secrets /\ (s = totp.secret => k <= totp.lastStep)

IssuesInv ==
  /\ \A i \in 1..MaxIssues : \A j \in 1..RecoveryCount :
       uses[<<"recovery", i, j>>] > 0 => i <= issues
  /\ \A c \in recovery : uses[c] = 0
  /\ RecoveryIsCurrent

CodesInv == CodesUsedOnce /\ StepsInv /\ IssuesInv

Inv == TypeOK /\ FailuresInv /\ GuessesBounded /\ CodesInv

StoreTypes ==
  /\ stored \in [Sids -> {"none", "stored", "deleted"}]
  /\ created \in [Sids -> 0..SessionTime] /\ lastSeen \in [Sids -> 0..SessionTime]
  /\ accessed \in [Sids -> BOOLEAN]

Alive == {s \in Sids : Store!Live(s)}

\* What revoke-others has still to delete is all that is left alive of what it began with.
RevokedInv ==
  \A s \in Sids : \A t \in before[s] :
    stored[t] # "none" /\ (t \in Alive => t \in revoking[s])

----------------------------------------------------------------------------
(* Sequences of times, and the failures of a window.                       *)

LEMMA AppendFacts ==
  ASSUME NEW S, NEW h \in Seq(S), NEW t \in S
  PROVE  /\ DOMAIN h = 1..Len(h) /\ Len(h) \in Nat
         /\ Append(h, t) \in Seq(S)
         /\ DOMAIN Append(h, t) = 1..(Len(h) + 1)
         /\ \A i \in 1..Len(h) : Append(h, t)[i] = h[i]
         /\ Append(h, t)[Len(h) + 1] = t
  OBVIOUS

LEMMA Elements ==
  ASSUME NEW S, NEW h \in Seq(S)
  PROVE  \A i \in DOMAIN h : h[i] \in S
  OBVIOUS

\* A set with one element more.
LEMMA OneMore ==
  ASSUME NEW S, IsFiniteSet(S), NEW x
  PROVE  /\ IsFiniteSet(S \union {x})
         /\ Cardinality(S \union {x}) \in Nat
         /\ Cardinality(S \union {x}) <= Cardinality(S) + 1
<1>1. Cardinality(S) \in Nat
  BY FS_CardinalityType
<1>2. /\ IsFiniteSet(S \union {x})
      /\ Cardinality(S \union {x}) \in {Cardinality(S), Cardinality(S) + 1}
  BY FS_AddElement
<1> QED
  BY <1>1, <1>2

\* The greatest of two numbers.
LEMMA MaxOfTwo ==
  ASSUME NEW m \in Nat, NEW n \in Nat, m <= n
  PROVE  Max({m, n}) = n
  BY DEF Max

LEMMA Bounds ==
  /\ MaxTime \in Nat /\ MaxSecrets \in Nat /\ MaxIssues \in Nat /\ MaxVerifying \in Nat
  /\ RecoveryCount \in Nat /\ AccountLimit \in Nat /\ IpLimit \in Nat /\ Window \in Nat
  /\ PendingTtl \in Nat /\ MaxAttempts \in Nat
  /\ MaxTime >= 2 /\ MaxAttempts >= 1 /\ MaxVerifying >= 1
  BY BoundsAssumption, TimeAssumption

\* The failures of a window are finitely many, and counted.
LEMMA RecentFinite ==
  ASSUME TypeOK, NEW I \in SUBSET DOMAIN hits
  PROVE  /\ IsFiniteSet(Recent(hits, I))
         /\ Cardinality(Recent(hits, I)) \in Nat
<1>1. DOMAIN hits = 1..Len(hits) /\ Len(hits) \in Nat
  BY DEF TypeOK
<1>2. IsFiniteSet(1..Len(hits))
  BY <1>1, FS_Interval
<1>3. Recent(hits, I) \subseteq 1..Len(hits)
  BY <1>1 DEF Recent
<1>4. IsFiniteSet(Recent(hits, I))
  BY <1>2, <1>3, FS_Subset
<1> QED
  BY <1>4, FS_CardinalityType

\* An account that is not limited has had fewer failures than its limit, of any
\* kind.
LEMMA NotLimited ==
  ASSUME TypeOK, ~IsLimited(hits, AccountLimit), NEW I \in SUBSET DOMAIN hits
  PROVE  Cardinality(Recent(hits, I)) + 1 <= AccountLimit
<1>1. Recent(hits, I) \subseteq Recent(hits, DOMAIN hits)
  BY DEF Recent
<1>2. /\ IsFiniteSet(Recent(hits, DOMAIN hits))
      /\ Cardinality(Recent(hits, DOMAIN hits)) \in Nat
      /\ Cardinality(Recent(hits, I)) \in Nat
  BY RecentFinite
<1>3. Cardinality(Recent(hits, I)) <= Cardinality(Recent(hits, DOMAIN hits))
  BY <1>1, <1>2, FS_Subset
<1>4. Cardinality(Recent(hits, DOMAIN hits)) < AccountLimit
  BY <1>2, Bounds DEF IsLimited
<1> QED
  BY <1>2, <1>3, <1>4, Bounds

----------------------------------------------------------------------------
(* Types.                                                                  *)

LEMMA InitTypeOK ==
  Init => TypeOK
BY Bounds DEF Init, TypeOK, Times, Start, NoRow, Steps, Codes

\* What the steps assign: a failure more, a pending login less, a session.
LEMMA HitType ==
  ASSUME TypeOK, NEW h \in Seq(Times)
  PROVE  Hit(h) \in Seq(Times) /\ DOMAIN Hit(h) = 1..(Len(h) + 1) /\ DOMAIN h = 1..Len(h)
         /\ Len(h) \in Nat
<1>1. now \in Times
  BY DEF TypeOK
<1> QED
  BY <1>1, AppendFacts DEF Hit

LEMMA ForgetType ==
  ASSUME TypeOK, NEW a \in Attempts,
         NEW where \in {"off", "verifying", "pending", "open", "gone"}, Forget(a, where)
  PROVE  /\ status' \in [Attempts -> {"off", "verifying", "pending", "open", "gone"}]
         /\ since' \in [Attempts -> Times]
         /\ tries' \in [Attempts -> 0..(MaxAttempts - 1)]
<1>1. Start \in Times /\ 0 \in 0..(MaxAttempts - 1)
  BY Bounds DEF Start, Times
<1> QED
  BY <1>1 DEF TypeOK, Forget

\* An accepted code: of the application, for a later step of the secret in use,
\* which it leaves as the last one; or of recovery, unused.
LEMMA AcceptedCode ==
  ASSUME TypeOK, NEW code \in Codes, NEW e \in BOOLEAN, NEW r \in BOOLEAN,
         Accepts(code, e, r)
  PROVE  \/ /\ code \in TotpCodes
            /\ code[1] = "totp" /\ code[2] \in 1..MaxSecrets /\ code[3] \in Steps
            /\ code = <<"totp", code[2], code[3]>>
            /\ code[2] = totp.secret /\ code[3] > totp.lastStep
            /\ RowAfter(code) = [totp EXCEPT !.lastStep = code[3]]
         \/ /\ code \in recovery /\ code \in RecoveryCodes /\ r /\ totp.enabled
            /\ RowAfter(code) = totp
<1>1. CASE code \in TotpCodes
  <2>1. /\ code[1] = "totp" /\ code[2] \in 1..MaxSecrets /\ code[3] \in Steps
        /\ code = <<"totp", code[2], code[3]>>
    BY <1>1 DEF TotpCodes
  <2>2. \A c \in RecoveryCodes : c[1] = "recovery"
    BY DEF RecoveryCodes
  <2>3. code \notin recovery
    BY <2>1, <2>2 DEF TypeOK
  <2>4. code[2] = totp.secret /\ code[3] > totp.lastStep
    BY <2>3 DEF Accepts
  <2>5. totp.lastStep \in Nat /\ code[3] \in Nat
    BY <2>1, Bounds DEF TypeOK, Steps
  <2>6. Max({totp.lastStep, code[3]}) = code[3]
    BY <2>4, <2>5, MaxOfTwo
  <2> QED
    BY <1>1, <2>1, <2>4, <2>6 DEF RowAfter
<1>2. CASE code \in RecoveryCodes
  <2>1. code[1] = "recovery"
    BY <1>2 DEF RecoveryCodes
  <2>2. code[1] # "totp"
    BY <2>1
  <2> QED
    BY <1>2, <2>2 DEF Accepts, RowAfter
<1> QED
  BY <1>1, <1>2 DEF Codes

LEMMA RowAfterType ==
  ASSUME TypeOK, NEW code \in Codes, NEW e \in BOOLEAN, NEW r \in BOOLEAN,
         Accepts(code, e, r)
  PROVE  RowAfter(code) \in
           [secret : 0..MaxSecrets, enabled : BOOLEAN, lastStep : Steps \union {0}]
<1>1. totp \in [secret : 0..MaxSecrets, enabled : BOOLEAN, lastStep : Steps \union {0}]
  BY DEF TypeOK
<1>2. CASE code[3] \in Steps /\ RowAfter(code) = [totp EXCEPT !.lastStep = code[3]]
  BY <1>1, <1>2
<1>3. CASE RowAfter(code) = totp
  BY <1>1, <1>3
<1> QED
  BY <1>2, <1>3, AcceptedCode

LEMMA UsesType ==
  ASSUME TypeOK, NEW code \in Codes, uses' = [uses EXCEPT ![code] = @ + 1]
  PROVE  uses' \in [Codes -> Nat]
BY DEF TypeOK

LEMMA NewIssueType ==
  ASSUME TypeOK, issues < MaxIssues
  PROVE  NewIssue \subseteq RecoveryCodes /\ issues + 1 \in 0..MaxIssues
<1>1. issues + 1 \in 1..MaxIssues
  BY Bounds DEF TypeOK
<1> QED
  BY <1>1 DEF NewIssue, RecoveryCodes

LEMMA TypeStep ==
  ASSUME TypeOK, [Next]_vars
  PROVE  TypeOK'
<1> USE Bounds
<1>1. CASE Tick
  <2>1. now' \in Times
    BY <1>1 DEF Tick, TypeOK, Times, Start
  <2> QED
    BY <1>1, <2>1 DEF Tick, TypeOK, limitVars, loginVars, factorVars
<1>2. ASSUME NEW a \in Attempts, AttemptStep(a)
      PROVE  TypeOK'
  <2>1. CASE StartLogin(a)
    BY <2>1 DEF StartLogin, TypeOK, limitVars, factorVars
  <2>2. CASE Refused(a)
    <3>1. hits \in Seq(Times) /\ ipHits \in Seq(Times) /\ wrong \subseteq DOMAIN hits
      BY DEF TypeOK
    <3>2. /\ hits' \in Seq(Times) /\ ipHits' \in Seq(Times)
          /\ DOMAIN hits' = 1..(Len(hits) + 1) /\ DOMAIN hits = 1..Len(hits)
          /\ Len(hits) \in Nat
      BY <2>2, <3>1, HitType DEF Refused
    <3>3. wrong' \subseteq DOMAIN hits'
      BY <2>2, <3>1, <3>2 DEF Refused
    <3> QED
      BY <2>2, <3>2, <3>3 DEF Refused, TypeOK, factorVars
  <2>3. CASE Unavailable(a)
    BY <2>3 DEF Unavailable, TypeOK, limitVars, factorVars
  <2>4. CASE NeedsCode(a)
    <3>1. Start \in Times /\ 0 \in 0..(MaxAttempts - 1) /\ now \in Times
      BY DEF Start, Times, TypeOK
    <3> QED
      BY <2>4, <3>1 DEF NeedsCode, TypeOK, limitVars, factorVars
  <2>5. CASE OpensAtOnce(a)
    <3>1. Forget(a, "open") /\ hits' = << >> /\ wrong' = {}
      BY <2>5 DEF OpensAtOnce, Opens
    <3>2. /\ status' \in [Attempts -> {"off", "verifying", "pending", "open", "gone"}]
          /\ since' \in [Attempts -> Times]
          /\ tries' \in [Attempts -> 0..(MaxAttempts - 1)]
      BY <3>1, ForgetType
    <3> QED
      BY <2>5, <3>1, <3>2 DEF OpensAtOnce, TypeOK, factorVars
  <2>6. CASE CodeTooLate(a)
    <3>1. Forget(a, "gone")
      BY <2>6 DEF CodeTooLate
    <3>2. /\ status' \in [Attempts -> {"off", "verifying", "pending", "open", "gone"}]
          /\ since' \in [Attempts -> Times]
          /\ tries' \in [Attempts -> 0..(MaxAttempts - 1)]
      BY <3>1, ForgetType
    <3> QED
      BY <2>6, <3>2 DEF CodeTooLate, TypeOK, limitVars, factorVars
  <2>7. ASSUME NEW code \in Codes \union {BadCode}, CodeRefused(a, code)
        PROVE  TypeOK'
    <3>1. hits \in Seq(Times) /\ wrong \subseteq DOMAIN hits
      BY DEF TypeOK
    <3>2. /\ hits' \in Seq(Times) /\ Len(hits) \in Nat
          /\ DOMAIN hits' = 1..(Len(hits) + 1) /\ DOMAIN hits = 1..Len(hits)
      BY <2>7, <3>1, HitType DEF CodeRefused
    <3>3. wrong' \subseteq DOMAIN hits'
      BY <2>7, <3>1, <3>2 DEF CodeRefused
    <3>4. /\ status' \in [Attempts -> {"off", "verifying", "pending", "open", "gone"}]
          /\ since' \in [Attempts -> Times]
          /\ tries' \in [Attempts -> 0..(MaxAttempts - 1)]
      <4>1. CASE tries[a] + 1 >= MaxAttempts
        <5>1. Forget(a, "gone")
          BY <2>7, <4>1 DEF CodeRefused
        <5> QED
          BY <5>1, ForgetType
      <4>2. CASE ~(tries[a] + 1 >= MaxAttempts)
        <5>1. tries' = [tries EXCEPT ![a] = @ + 1] /\ UNCHANGED <<status, since>>
          BY <2>7, <4>2 DEF CodeRefused
        <5>2. tries[a] + 1 \in 0..(MaxAttempts - 1)
          BY <4>2 DEF TypeOK
        <5> QED
          BY <5>1, <5>2 DEF TypeOK
      <4> QED
        BY <4>1, <4>2
    <3> QED
      BY <2>7, <3>2, <3>3, <3>4 DEF CodeRefused, TypeOK, factorVars
  <2>8. ASSUME NEW code \in Codes, CodeAccepted(a, code)
        PROVE  TypeOK'
    <3>1. Forget(a, "open") /\ hits' = << >> /\ wrong' = {}
      BY <2>8 DEF CodeAccepted, Opens
    <3>2. /\ status' \in [Attempts -> {"off", "verifying", "pending", "open", "gone"}]
          /\ since' \in [Attempts -> Times]
          /\ tries' \in [Attempts -> 0..(MaxAttempts - 1)]
      BY <3>1, ForgetType
    <3>3. totp' \in [secret : 0..MaxSecrets, enabled : BOOLEAN, lastStep : Steps \union {0}]
      BY <2>8, RowAfterType DEF CodeAccepted
    <3>4. uses' \in [Codes -> Nat] /\ recovery' \subseteq RecoveryCodes
      BY <2>8, UsesType DEF CodeAccepted, Spend, TypeOK
    <3> QED
      BY <2>8, <3>1, <3>2, <3>3, <3>4 DEF CodeAccepted, TypeOK
  <2> QED
    BY <1>2, <2>1, <2>2, <2>3, <2>4, <2>5, <2>6, <2>7, <2>8 DEF AttemptStep
<1>3. ASSUME NEW a \in Attempts, FactorStep(a)
      PROVE  TypeOK'
  <2>1. CASE Setup(a)
    BY <2>1 DEF Setup, Administers, TypeOK, limitVars, loginVars
  <2>2. ASSUME NEW code \in Codes, Enable(a, code)
        PROVE  TypeOK'
    <3>1. RowAfter(code) \in
            [secret : 0..MaxSecrets, enabled : BOOLEAN, lastStep : Steps \union {0}]
      BY <2>2, RowAfterType DEF Enable
    <3>2. totp' \in [secret : 0..MaxSecrets, enabled : BOOLEAN, lastStep : Steps \union {0}]
      BY <2>2, <3>1 DEF Enable
    <3>3. uses' \in [Codes -> Nat]
      BY <2>2, UsesType DEF Enable
    <3>4. recovery' \subseteq RecoveryCodes /\ issues' \in 0..MaxIssues
      BY <2>2, NewIssueType DEF Enable
    <3> QED
      BY <2>2, <3>2, <3>3, <3>4 DEF Enable, Administers, TypeOK, limitVars, loginVars
  <2>3. ASSUME NEW code \in Codes, NewCodes(a, code)
        PROVE  TypeOK'
    <3>1. totp' \in [secret : 0..MaxSecrets, enabled : BOOLEAN, lastStep : Steps \union {0}]
      BY <2>3, RowAfterType DEF NewCodes
    <3>2. uses' \in [Codes -> Nat]
      BY <2>3, UsesType DEF NewCodes
    <3>3. recovery' \subseteq RecoveryCodes /\ issues' \in 0..MaxIssues
      BY <2>3, NewIssueType DEF NewCodes
    <3> QED
      BY <2>3, <3>1, <3>2, <3>3 DEF NewCodes, Administers, TypeOK, limitVars, loginVars
  <2>4. ASSUME NEW code \in Codes, Disable(a, code)
        PROVE  TypeOK'
    <3>1. uses' \in [Codes -> Nat]
      BY <2>4, UsesType DEF Disable
    <3> QED
      BY <2>4, <3>1 DEF Disable, Administers, NoRow, TypeOK, limitVars, loginVars
  <2> QED
    BY <1>3, <2>1, <2>2, <2>3, <2>4 DEF FactorStep
<1>4. CASE UNCHANGED vars
  BY <1>4 DEF vars, limitVars, loginVars, factorVars, TypeOK
<1> QED
  BY <1>1, <1>2, <1>3, <1>4 DEF Next

(* Every variable of a login keeps its type.                               *)
THEOREM TypeCorrect == Spec => []TypeOK
BY InitTypeOK, TypeStep, PTL DEF Spec

----------------------------------------------------------------------------
(* The failures of the account.                                            *)

\* What is counted, and may still be, in numbers.
LEMMA Counted ==
  ASSUME TypeOK, FailuresInv
  PROVE  /\ IsFiniteSet(Recent(hits, Failed)) /\ IsFiniteSet(Recent(hits, wrong))
         /\ Cardinality(Recent(hits, Failed)) \in Nat
         /\ Cardinality(Recent(hits, wrong)) \in Nat
         /\ Cardinality(Verifying) \in Nat
<1>1. Failed \in SUBSET DOMAIN hits /\ wrong \in SUBSET DOMAIN hits
  BY DEF Failed, TypeOK
<1> QED
  BY <1>1, RecentFinite, FS_CardinalityType DEF FailuresInv

\* A step after which no more failures are counted, nor passwords verified.
LEMMA NoMoreFailures ==
  ASSUME TypeOK, FailuresInv, GuessesBounded,
         Recent(hits, Failed)' \subseteq Recent(hits, Failed),
         Recent(hits, wrong)' \subseteq Recent(hits, wrong),
         Verifying' \subseteq Verifying
  PROVE  FailuresInv' /\ GuessesBounded'
<1> DEFINE F == Recent(hits, Failed)
           W == Recent(hits, wrong)
<1>1. /\ IsFiniteSet(F) /\ IsFiniteSet(W) /\ IsFiniteSet(Verifying)
      /\ Cardinality(F) \in Nat /\ Cardinality(W) \in Nat /\ Cardinality(Verifying) \in Nat
  BY Counted DEF FailuresInv
<1>2. F' \subseteq F /\ W' \subseteq W
  OBVIOUS
<1> HIDE DEF F, W
<1>3. /\ IsFiniteSet(Verifying')
      /\ Cardinality(F') <= Cardinality(F) /\ Cardinality(W') <= Cardinality(W)
      /\ Cardinality(Verifying') <= Cardinality(Verifying)
      /\ Cardinality(F') \in Nat /\ Cardinality(W') \in Nat /\ Cardinality(Verifying') \in Nat
  BY <1>1, <1>2, FS_Subset, FS_CardinalityType
<1>4. Cardinality(F) + Cardinality(Verifying) <= AccountLimit + MaxVerifying - 1
  BY DEF FailuresInv, F
<1>5. Cardinality(W) <= AccountLimit
  BY DEF GuessesBounded, W
<1>6. Cardinality(F') + Cardinality(Verifying') <= AccountLimit + MaxVerifying - 1
  BY <1>1, <1>3, <1>4, Bounds
<1>7. Cardinality(W') <= AccountLimit
  BY <1>1, <1>3, <1>5, Bounds
<1> QED
  BY <1>3, <1>6, <1>7 DEF FailuresInv, GuessesBounded, F, W

LEMMA StartLoginCounts ==
  ASSUME TypeOK, FailuresInv, GuessesBounded, NEW a \in Attempts, StartLogin(a)
  PROVE  FailuresInv' /\ GuessesBounded'
<1> DEFINE F == Recent(hits, Failed)
<1>1. Failed \in SUBSET DOMAIN hits
  BY DEF Failed
<1>2. Cardinality(F) + 1 <= AccountLimit
  BY <1>1, NotLimited DEF StartLogin
<1>3. F' = F /\ Recent(hits, wrong)' = Recent(hits, wrong)
  BY DEF StartLogin, Recent, Failed, limitVars
<1>4. Verifying' = Verifying \union {a}
  BY DEF StartLogin, Verifying, TypeOK
<1>5. /\ IsFiniteSet(Verifying) /\ Cardinality(Verifying) \in Nat /\ Cardinality(F) \in Nat
      /\ Cardinality(Verifying) < MaxVerifying
  BY Counted DEF FailuresInv, StartLogin
<1> HIDE DEF F
<1>6. /\ IsFiniteSet(Verifying')
      /\ Cardinality(Verifying') <= Cardinality(Verifying) + 1
      /\ Cardinality(Verifying') \in Nat
  BY <1>4, <1>5, OneMore
<1>7. Cardinality(F') + Cardinality(Verifying') <= AccountLimit + MaxVerifying - 1
  BY <1>2, <1>3, <1>5, <1>6, Bounds
<1> QED
  BY <1>3, <1>6, <1>7 DEF FailuresInv, GuessesBounded, F

\* A failure more, a password in verification less.
LEMMA RefusedCounts ==
  ASSUME TypeOK, FailuresInv, GuessesBounded, NEW a \in Attempts, Refused(a)
  PROVE  FailuresInv' /\ GuessesBounded'
<1> DEFINE F == Recent(hits, Failed)
           m == Len(hits) + 1
<1>1. /\ DOMAIN hits = 1..Len(hits) /\ Len(hits) \in Nat
      /\ DOMAIN hits' = 1..m
      /\ \A i \in 1..Len(hits) : hits'[i] = hits[i]
  <2>1. hits \in Seq(Times) /\ now \in Times /\ hits' = Append(hits, now)
    BY DEF TypeOK, Refused, Hit
  <2> QED
    BY <2>1, AppendFacts
<1>2. wrong \subseteq 1..Len(hits) /\ wrong' = wrong /\ now' = now
  BY <1>1 DEF TypeOK, Refused
<1>3. Failed' \subseteq Failed \union {m}
  BY <1>1, <1>2 DEF Failed
<1>4. F' \subseteq F \union {m}
  BY <1>1, <1>2, <1>3 DEF Recent, Failed
<1>5. Recent(hits, wrong)' = Recent(hits, wrong)
  BY <1>1, <1>2 DEF Recent
<1>6. Verifying' = Verifying \ {a} /\ a \in Verifying
  BY DEF Refused, Verifying, TypeOK
<1>7. /\ IsFiniteSet(Verifying) /\ Cardinality(Verifying) \in Nat
      /\ IsFiniteSet(F) /\ Cardinality(F) \in Nat
      /\ Cardinality(F) + Cardinality(Verifying) <= AccountLimit + MaxVerifying - 1
  BY Counted DEF FailuresInv
<1> HIDE DEF F, m
<1>8. IsFiniteSet(F \union {m}) /\ Cardinality(F \union {m}) <= Cardinality(F) + 1
      /\ Cardinality(F \union {m}) \in Nat
  BY <1>7, OneMore
<1>9. Cardinality(F') \in Nat /\ Cardinality(F') <= Cardinality(F \union {m})
  BY <1>4, <1>8, FS_Subset, FS_CardinalityType
<1>10. /\ IsFiniteSet(Verifying')
       /\ Cardinality(Verifying') = Cardinality(Verifying) - 1
  BY <1>6, <1>7, FS_RemoveElement
<1>11. Cardinality(F') + Cardinality(Verifying') <= AccountLimit + MaxVerifying - 1
  BY <1>7, <1>8, <1>9, <1>10, Bounds
<1> QED
  BY <1>5, <1>10, <1>11 DEF FailuresInv, GuessesBounded, F

\* A wrong code more, read and counted in one step.
LEMMA CodeRefusedCounts ==
  ASSUME TypeOK, FailuresInv, GuessesBounded, NEW a \in Attempts,
         NEW code \in Codes \union {BadCode}, CodeRefused(a, code)
  PROVE  FailuresInv' /\ GuessesBounded'
<1> DEFINE W == Recent(hits, wrong)
           m == Len(hits) + 1
<1>1. /\ DOMAIN hits = 1..Len(hits) /\ Len(hits) \in Nat
      /\ DOMAIN hits' = 1..m
      /\ \A i \in 1..Len(hits) : hits'[i] = hits[i]
  <2>1. hits \in Seq(Times) /\ now \in Times /\ hits' = Append(hits, now)
    BY DEF TypeOK, CodeRefused, Hit
  <2> QED
    BY <2>1, AppendFacts
<1>2. wrong \subseteq 1..Len(hits) /\ wrong' = wrong \union {m} /\ now' = now
  BY <1>1 DEF TypeOK, CodeRefused
<1>3. Failed' = Failed
  BY <1>1, <1>2 DEF Failed
<1>4. Recent(hits, Failed)' = Recent(hits, Failed)
  BY <1>1, <1>2, <1>3 DEF Recent, Failed
<1>5. W' \subseteq W \union {m}
  BY <1>1, <1>2 DEF Recent
<1>6. Verifying' = Verifying
  BY DEF CodeRefused, Waits, Forget, Verifying, TypeOK
<1>7. Cardinality(W) + 1 <= AccountLimit
  <2>1. wrong \in SUBSET DOMAIN hits
    BY DEF TypeOK
  <2> QED
    BY <2>1, NotLimited DEF CodeRefused, Waits
<1>8. IsFiniteSet(W) /\ Cardinality(W) \in Nat
  BY Counted
<1> HIDE DEF W, m
<1>9. /\ IsFiniteSet(W \union {m}) /\ Cardinality(W \union {m}) <= Cardinality(W) + 1
      /\ Cardinality(W \union {m}) \in Nat
  BY <1>8, OneMore
<1>10. Cardinality(W') \in Nat /\ Cardinality(W') <= Cardinality(W \union {m})
  BY <1>5, <1>9, FS_Subset, FS_CardinalityType
<1>11. Cardinality(W') <= AccountLimit
  BY <1>7, <1>8, <1>9, <1>10, Bounds
<1> QED
  BY <1>4, <1>6, <1>11 DEF FailuresInv, GuessesBounded, W

\* The others: what is counted stays, gets older, or is forgotten.
LEMMA FailuresStep ==
  ASSUME TypeOK, FailuresInv, GuessesBounded, [Next]_vars
  PROVE  FailuresInv' /\ GuessesBounded'
<1>1. ASSUME UNCHANGED <<hits, wrong, status>>, now' \in {now, now + 1}
      PROVE  FailuresInv' /\ GuessesBounded'
  <2>1. Failed' = Failed /\ Verifying' = Verifying
    BY <1>1 DEF Failed, Verifying
  <2>2. \A i \in DOMAIN hits : hits[i] \in Int /\ now \in Int /\ Window \in Int
    <3>1. hits \in Seq(Times) /\ now \in Times
      BY DEF TypeOK
    <3>2. \A i \in DOMAIN hits : hits[i] \in Times
      BY <3>1, Elements
    <3>3. \A t \in Times : t \in Int
      BY Bounds DEF Times, Start
    <3>4. Window \in Int
      BY Bounds
    <3> QED
      BY <3>1, <3>2, <3>3, <3>4
  <2>3. wrong \subseteq DOMAIN hits
    BY DEF TypeOK
  <2>4. Recent(hits, Failed)' \subseteq Recent(hits, Failed)
    BY <1>1, <2>1, <2>2 DEF Recent, Failed
  <2>5. Recent(hits, wrong)' \subseteq Recent(hits, wrong)
    BY <1>1, <2>2, <2>3 DEF Recent
  <2> QED
    BY <2>1, <2>4, <2>5, NoMoreFailures
<1>2. ASSUME UNCHANGED <<now, hits, wrong>>, Verifying' \subseteq Verifying
      PROVE  FailuresInv' /\ GuessesBounded'
  <2>1. /\ Recent(hits, Failed)' \subseteq Recent(hits, Failed)
        /\ Recent(hits, wrong)' \subseteq Recent(hits, wrong)
    BY <1>2 DEF Recent, Failed
  <2> QED
    BY <1>2, <2>1, NoMoreFailures
<1>3. ASSUME NEW a \in Attempts, Opens(a)
      PROVE  FailuresInv' /\ GuessesBounded'
  <2>1. /\ Recent(hits, Failed)' \subseteq Recent(hits, Failed)
        /\ Recent(hits, wrong)' \subseteq Recent(hits, wrong)
    BY <1>3 DEF Opens, Recent, Failed
  <2>2. Verifying' \subseteq Verifying
    BY <1>3 DEF Opens, Forget, Verifying, TypeOK
  <2> QED
    BY <2>1, <2>2, NoMoreFailures
<1>4. CASE Tick
  BY <1>1, <1>4 DEF Tick, limitVars, loginVars
<1>5. ASSUME NEW a \in Attempts, AttemptStep(a)
      PROVE  FailuresInv' /\ GuessesBounded'
  <2>1. CASE StartLogin(a)
    BY <2>1, StartLoginCounts
  <2>2. CASE Refused(a)
    BY <2>2, RefusedCounts
  <2>3. CASE Unavailable(a)
    <3>1. Verifying' \subseteq Verifying
      BY <2>3 DEF Unavailable, Verifying, TypeOK
    <3> QED
      BY <1>2, <2>3, <3>1 DEF Unavailable, limitVars
  <2>4. CASE NeedsCode(a)
    <3>1. Verifying' \subseteq Verifying
      BY <2>4 DEF NeedsCode, Verifying, TypeOK
    <3> QED
      BY <1>2, <2>4, <3>1 DEF NeedsCode, limitVars
  <2>5. CASE OpensAtOnce(a)
    BY <1>3, <2>5 DEF OpensAtOnce
  <2>6. CASE CodeTooLate(a)
    <3>1. Verifying' \subseteq Verifying
      BY <2>6 DEF CodeTooLate, Forget, Verifying, TypeOK
    <3> QED
      BY <1>2, <2>6, <3>1 DEF CodeTooLate, limitVars
  <2>7. ASSUME NEW code \in Codes \union {BadCode}, CodeRefused(a, code)
        PROVE  FailuresInv' /\ GuessesBounded'
    BY <2>7, CodeRefusedCounts
  <2>8. ASSUME NEW code \in Codes, CodeAccepted(a, code)
        PROVE  FailuresInv' /\ GuessesBounded'
    BY <1>3, <2>8 DEF CodeAccepted
  <2> QED
    BY <1>5, <2>1, <2>2, <2>3, <2>4, <2>5, <2>6, <2>7, <2>8 DEF AttemptStep
<1>6. ASSUME NEW a \in Attempts, FactorStep(a)
      PROVE  FailuresInv' /\ GuessesBounded'
  <2>1. Administers(a)
    BY <1>6 DEF FactorStep, Setup, Enable, NewCodes, Disable
  <2> QED
    BY <1>1, <2>1 DEF Administers, limitVars, loginVars
<1>7. CASE UNCHANGED vars
  BY <1>1, <1>7 DEF vars, limitVars, loginVars
<1> QED
  BY <1>4, <1>5, <1>6, <1>7 DEF Next

----------------------------------------------------------------------------
(* The codes.                                                              *)

\* The codes are those of secrets and those of issues, and no code is both.
LEMMA CodeNames ==
  /\ \A s \in 1..MaxSecrets : \A k \in Steps : <<"totp", s, k>> \in TotpCodes
  /\ \A i \in 1..MaxIssues : \A j \in 1..RecoveryCount :
       <<"recovery", i, j>> \in RecoveryCodes
  /\ TotpCodes \subseteq Codes /\ RecoveryCodes \subseteq Codes
  /\ TotpCodes \intersect RecoveryCodes = {}
<1>1. \A c \in TotpCodes : c[1] = "totp"
  BY DEF TotpCodes
<1>2. \A c \in RecoveryCodes : c[1] = "recovery"
  BY DEF RecoveryCodes
<1>3. TotpCodes \intersect RecoveryCodes = {}
  BY <1>1, <1>2
<1> QED
  BY <1>3 DEF TotpCodes, RecoveryCodes, Codes

\* No code that was used is accepted.
LEMMA FreshCode ==
  ASSUME TypeOK, CodesInv, NEW code \in Codes, NEW e \in BOOLEAN, NEW r \in BOOLEAN,
         Accepts(code, e, r)
  PROVE  uses[code] = 0
<1>1. uses[code] \in Nat
  BY DEF TypeOK
<1>2. CASE code \in recovery
  BY <1>2 DEF CodesInv, IssuesInv
<1>3. CASE /\ code[2] \in 1..MaxSecrets /\ code[3] \in Steps
           /\ code = <<"totp", code[2], code[3]>>
           /\ code[2] = totp.secret /\ code[3] > totp.lastStep
  <2>1. uses[code] > 0 => code[3] <= totp.lastStep
    BY <1>3 DEF CodesInv, StepsInv
  <2>2. code[3] \in Int /\ totp.lastStep \in Int
    BY <1>3, Bounds DEF TypeOK, Steps
  <2> QED
    BY <1>1, <1>3, <2>1, <2>2
<1> QED
  BY <1>2, <1>3, AcceptedCode

\* Its use is its first, whatever it is accepted for.
LEMMA FirstUse ==
  ASSUME TypeOK, CodesInv, NEW code \in Codes, NEW e \in BOOLEAN, NEW r \in BOOLEAN,
         Accepts(code, e, r), uses' = [uses EXCEPT ![code] = @ + 1]
  PROVE  /\ CodesUsedOnce'
         /\ \A c \in Codes : uses'[c] = IF c = code THEN 1 ELSE uses[c]
<1>1. uses[code] = 0
  BY FreshCode
<1>2. \A c \in Codes : uses'[c] = IF c = code THEN 1 ELSE uses[c]
  BY <1>1 DEF TypeOK
<1> QED
  BY <1>2 DEF CodesInv, CodesUsedOnce

\* A code leaves behind the step it used, or no secret.
LEMMA StepsAfterCode ==
  ASSUME TypeOK, CodesInv, NEW code \in Codes, NEW e \in BOOLEAN, NEW r \in BOOLEAN,
         Accepts(code, e, r), uses' = [uses EXCEPT ![code] = @ + 1], secrets' = secrets,
         \/ totp'.secret = 0
         \/ totp'.secret = totp.secret /\ totp'.lastStep = RowAfter(code).lastStep
  PROVE  StepsInv'
<1>1. \A c \in Codes : uses'[c] = IF c = code THEN 1 ELSE uses[c]
  BY FirstUse
<1>2. /\ secrets \in Nat /\ totp.secret \in Nat /\ totp.secret <= secrets
      /\ totp.lastStep \in Nat
  BY Bounds DEF TypeOK, CodesInv, StepsInv, Steps
<1>3. totp'.secret <= secrets'
  BY <1>2
<1>4. ASSUME NEW s \in 1..MaxSecrets, NEW k \in Steps, uses'[<<"totp", s, k>>] > 0
      PROVE  s <= secrets' /\ (s = totp'.secret => k <= totp'.lastStep)
  <2>1. <<"totp", s, k>> \in Codes /\ <<"totp", s, k>> \in TotpCodes
    BY CodeNames
  <2>2. s \in Nat /\ s > 0 /\ k \in Nat
    BY Bounds DEF Steps
  <2>3. CASE <<"totp", s, k>> = code
    <3>1. code \notin recovery
      BY <2>1, <2>3, CodeNames DEF TypeOK
    <3>2. code[2] = totp.secret /\ RowAfter(code) = [totp EXCEPT !.lastStep = code[3]]
      BY <3>1, AcceptedCode
    <3>3. code[2] = s /\ code[3] = k
      BY <2>3
    <3>4. RowAfter(code).lastStep = k
      BY <3>2, <3>3 DEF TypeOK
    <3> QED
      BY <1>2, <2>2, <3>2, <3>3, <3>4
  <2>4. CASE <<"totp", s, k>> # code
    <3>1. uses[<<"totp", s, k>>] > 0
      BY <1>1, <1>4, <2>1, <2>4
    <3>2. s <= secrets /\ (s = totp.secret => k <= totp.lastStep)
      BY <3>1 DEF CodesInv, StepsInv
    <3>3. RowAfter(code).lastStep \in Nat /\ totp.lastStep <= RowAfter(code).lastStep
      <4>1. CASE /\ code[3] \in Steps /\ code[3] > totp.lastStep
                 /\ RowAfter(code) = [totp EXCEPT !.lastStep = code[3]]
        <5>1. code[3] \in Nat
          BY <4>1, Bounds DEF Steps
        <5>2. RowAfter(code).lastStep = code[3]
          BY <4>1 DEF TypeOK
        <5> QED
          BY <1>2, <4>1, <5>1, <5>2
      <4>2. CASE RowAfter(code) = totp
        BY <1>2, <4>2
      <4> QED
        BY <4>1, <4>2, AcceptedCode
    <3> QED
      BY <1>2, <2>2, <3>2, <3>3
  <2> QED
    BY <2>3, <2>4
<1> QED
  BY <1>3, <1>4 DEF StepsInv

\* A new issue follows those whose codes were used.
LEMMA IssuesAfterNew ==
  ASSUME TypeOK, CodesInv, NEW code \in TotpCodes, NEW e \in BOOLEAN, NEW r \in BOOLEAN,
         Accepts(code, e, r), uses' = [uses EXCEPT ![code] = @ + 1],
         issues < MaxIssues, issues' = issues + 1, recovery' = NewIssue,
         totp'.enabled
  PROVE  IssuesInv'
<1>1. code \in Codes /\ code \notin RecoveryCodes
  BY CodeNames
<1>2. \A c \in RecoveryCodes : uses'[c] = uses[c] /\ uses[c] \in Nat
  BY <1>1, CodeNames DEF TypeOK
<1>3. issues \in Nat /\ issues + 1 \in 1..MaxIssues
  BY Bounds DEF TypeOK
<1>4. ASSUME NEW i \in 1..MaxIssues, NEW j \in 1..RecoveryCount,
             uses[<<"recovery", i, j>>] > 0
      PROVE  i <= issues
  BY <1>4 DEF CodesInv, IssuesInv
<1>5. ASSUME NEW i \in 1..MaxIssues, NEW j \in 1..RecoveryCount,
             uses'[<<"recovery", i, j>>] > 0
      PROVE  i <= issues'
  <2>1. i <= issues
    BY <1>2, <1>4, <1>5, CodeNames
  <2> QED
    BY <1>3, <2>1
<1>6. ASSUME NEW c \in recovery'
      PROVE  uses'[c] = 0 /\ c[2] = issues'
  <2>1. PICK j \in 1..RecoveryCount : c = <<"recovery", issues + 1, j>>
    BY <1>6 DEF NewIssue
  <2>2. c \in RecoveryCodes
    BY <1>3, <2>1, CodeNames
  <2>3. ~(uses[c] > 0)
    <3>1. SUFFICES ASSUME uses[c] > 0 PROVE FALSE
      OBVIOUS
    <3>2. issues + 1 <= issues
      BY <1>3, <1>4, <2>1, <3>1
    <3> QED
      BY <1>3, <3>2
  <2> QED
    BY <1>2, <2>1, <2>2, <2>3
<1> QED
  BY <1>5, <1>6 DEF IssuesInv, RecoveryIsCurrent

\* A code that is used takes itself away, or all of them.
LEMMA IssuesAfterCode ==
  ASSUME TypeOK, CodesInv, NEW code \in Codes, Accepts(code, TRUE, TRUE),
         uses' = [uses EXCEPT ![code] = @ + 1], issues' = issues,
         \/ recovery' = recovery \ {code} /\ totp'.enabled = totp.enabled
         \/ recovery' = {}
  PROVE  IssuesInv'
<1>1. \A c \in Codes : uses'[c] = IF c = code THEN 1 ELSE uses[c]
  BY FirstUse
<1>2. recovery \subseteq RecoveryCodes /\ RecoveryCodes \subseteq Codes /\ issues \in Nat
  BY CodeNames, Bounds DEF TypeOK
<1>3. ASSUME NEW i \in 1..MaxIssues, NEW j \in 1..RecoveryCount,
             uses'[<<"recovery", i, j>>] > 0
      PROVE  i <= issues'
  <2>1. <<"recovery", i, j>> \in Codes /\ <<"recovery", i, j>> \in RecoveryCodes
    BY CodeNames
  <2>2. CASE <<"recovery", i, j>> = code
    <3>1. code \notin TotpCodes
      BY <2>1, <2>2, CodeNames
    <3>2. code \in recovery
      BY <3>1, AcceptedCode
    <3>3. code[2] = issues /\ code[2] = i
      BY <2>2, <3>2 DEF CodesInv, IssuesInv, RecoveryIsCurrent
    <3> QED
      BY <1>2, <3>3
  <2>3. CASE <<"recovery", i, j>> # code
    BY <1>1, <1>3, <2>1, <2>3 DEF CodesInv, IssuesInv
  <2> QED
    BY <2>2, <2>3
<1>4. ASSUME NEW c \in recovery'
      PROVE  uses'[c] = 0 /\ c[2] = issues'
  <2>1. c \in recovery /\ c # code
    BY <1>4
  <2> QED
    BY <1>1, <1>2, <2>1 DEF CodesInv, IssuesInv, RecoveryIsCurrent
<1>5. ~totp'.enabled => recovery' = {}
  BY DEF CodesInv, IssuesInv, RecoveryIsCurrent
<1> QED
  BY <1>3, <1>4, <1>5 DEF IssuesInv, RecoveryIsCurrent

LEMMA CodesStep ==
  ASSUME TypeOK, CodesInv, [Next]_vars
  PROVE  CodesInv'
<1>1. ASSUME UNCHANGED factorVars
      PROVE  CodesInv'
  BY <1>1 DEF factorVars, CodesInv, CodesUsedOnce, StepsInv, IssuesInv, RecoveryIsCurrent
<1>2. ASSUME NEW a \in Attempts, NEW code \in Codes, CodeAccepted(a, code)
      PROVE  CodesInv'
  <2>1. /\ Accepts(code, TRUE, TRUE) /\ uses' = [uses EXCEPT ![code] = @ + 1]
        /\ secrets' = secrets /\ issues' = issues
        /\ totp' = RowAfter(code) /\ recovery' = recovery \ {code}
    BY <1>2 DEF CodeAccepted, Waits, Spend
  <2>2. totp'.secret = totp.secret /\ totp'.enabled = totp.enabled
    BY <2>1 DEF RowAfter, TypeOK
  <2>3. CodesUsedOnce'
    BY <2>1, FirstUse
  <2>4. StepsInv'
    BY <2>1, <2>2, StepsAfterCode
  <2>5. IssuesInv'
    BY <2>1, <2>2, IssuesAfterCode
  <2> QED
    BY <2>3, <2>4, <2>5 DEF CodesInv
<1>3. ASSUME NEW a \in Attempts, Setup(a)
      PROVE  CodesInv'
  <2>1. /\ uses' = uses /\ recovery' = recovery /\ issues' = issues
        /\ secrets' = secrets + 1 /\ totp'.secret = secrets + 1
        /\ ~totp.enabled
    BY <1>3 DEF Setup
  <2>2. secrets \in Nat /\ totp.secret \in Nat
    BY Bounds DEF TypeOK
  <2>3. StepsInv'
    <3>1. ASSUME NEW s \in 1..MaxSecrets, NEW k \in Steps, uses[<<"totp", s, k>>] > 0
          PROVE  s <= secrets'/\ s # totp'.secret
      <4>1. s <= secrets
        BY <3>1 DEF CodesInv, StepsInv
      <4> QED
        BY <2>1, <2>2, <4>1
    <3> QED
      BY <2>1, <2>2, <3>1 DEF StepsInv
  <2>4. CodesUsedOnce' /\ IssuesInv'
    BY <2>1 DEF CodesInv, CodesUsedOnce, IssuesInv, RecoveryIsCurrent
  <2> QED
    BY <2>3, <2>4 DEF CodesInv
<1>4. ASSUME NEW a \in Attempts, NEW code \in Codes, Enable(a, code)
      PROVE  CodesInv'
  <2>1. /\ code \in TotpCodes /\ Accepts(code, FALSE, FALSE)
        /\ uses' = [uses EXCEPT ![code] = @ + 1]
        /\ secrets' = secrets /\ issues < MaxIssues /\ issues' = issues + 1
        /\ totp' = [RowAfter(code) EXCEPT !.enabled = TRUE] /\ recovery' = NewIssue
    BY <1>4 DEF Enable
  <2>2. /\ totp'.enabled /\ totp'.secret = totp.secret
        /\ totp'.lastStep = RowAfter(code).lastStep
    <3>1. RowAfter(code).secret = totp.secret /\ DOMAIN RowAfter(code) = DOMAIN totp
      BY DEF RowAfter, TypeOK
    <3>2. DOMAIN totp = {"secret", "enabled", "lastStep"}
      BY DEF TypeOK
    <3> QED
      BY <2>1, <3>1, <3>2
  <2>3. CodesUsedOnce'
    BY <2>1, FirstUse
  <2>4. StepsInv'
    BY <2>1, <2>2, StepsAfterCode
  <2>5. IssuesInv'
    BY <2>1, <2>2, IssuesAfterNew
  <2> QED
    BY <2>3, <2>4, <2>5 DEF CodesInv
<1>5. ASSUME NEW a \in Attempts, NEW code \in Codes, NewCodes(a, code)
      PROVE  CodesInv'
  <2>1. /\ code \in TotpCodes /\ Accepts(code, TRUE, FALSE)
        /\ uses' = [uses EXCEPT ![code] = @ + 1]
        /\ secrets' = secrets /\ issues < MaxIssues /\ issues' = issues + 1
        /\ totp' = RowAfter(code) /\ recovery' = NewIssue
    BY <1>5 DEF NewCodes
  <2>2. totp'.enabled /\ totp'.secret = totp.secret
    BY <2>1 DEF RowAfter, TypeOK, Accepts
  <2>3. CodesUsedOnce'
    BY <2>1, FirstUse
  <2>4. StepsInv'
    BY <2>1, <2>2, StepsAfterCode
  <2>5. IssuesInv'
    BY <2>1, <2>2, IssuesAfterNew
  <2> QED
    BY <2>3, <2>4, <2>5 DEF CodesInv
<1>6. ASSUME NEW a \in Attempts, NEW code \in Codes, Disable(a, code)
      PROVE  CodesInv'
  <2>1. /\ Accepts(code, TRUE, TRUE) /\ uses' = [uses EXCEPT ![code] = @ + 1]
        /\ secrets' = secrets /\ issues' = issues
        /\ totp'.secret = 0 /\ recovery' = {}
    BY <1>6 DEF Disable, NoRow
  <2>2. CodesUsedOnce'
    BY <2>1, FirstUse
  <2>3. StepsInv'
    BY <2>1, StepsAfterCode
  <2>4. IssuesInv'
    BY <2>1, IssuesAfterCode
  <2> QED
    BY <2>2, <2>3, <2>4 DEF CodesInv
<1>7. ASSUME NEW a \in Attempts, AttemptStep(a)
      PROVE  CodesInv'
  BY <1>1, <1>2, <1>7
     DEF AttemptStep, StartLogin, Refused, Unavailable, NeedsCode, OpensAtOnce, CodeTooLate,
         CodeRefused
<1>8. ASSUME NEW a \in Attempts, FactorStep(a)
      PROVE  CodesInv'
  BY <1>3, <1>4, <1>5, <1>6, <1>8 DEF FactorStep
<1>9. CASE Tick \/ UNCHANGED vars
  BY <1>1, <1>9 DEF Tick, vars
<1> QED
  BY <1>7, <1>8, <1>9 DEF Next

----------------------------------------------------------------------------
LEMMA InitInv ==
  Init => Inv
<1> SUFFICES ASSUME Init PROVE Inv
  OBVIOUS
<1>1. TypeOK
  BY InitTypeOK
<1>2. /\ Verifying = {} /\ Recent(hits, Failed) = {} /\ Recent(hits, wrong) = {}
  BY DEF Init, Verifying, Recent, Failed
<1>3. FailuresInv /\ GuessesBounded
  BY <1>2, FS_EmptySet, Bounds DEF FailuresInv, GuessesBounded
<1>4. \A c \in Codes : uses[c] = 0
  BY DEF Init
<1>5. CodesInv
  BY <1>4, CodeNames
     DEF Init, NoRow, CodesInv, CodesUsedOnce, StepsInv, IssuesInv, RecoveryIsCurrent
<1> QED
  BY <1>1, <1>3, <1>5 DEF Inv

LEMMA InvStep ==
  Inv /\ [Next]_vars => Inv'
BY TypeStep, FailuresStep, CodesStep DEF Inv

(* No code is accepted twice, and neither the wrong codes nor the refused  *)
(* passwords of a window exceed what the limit of the account promises,    *)
(* however many logins of it are under way.                                *)
THEOREM LoginIsSound == Spec => []LoginSound
<1>1. Spec => []Inv
  BY InitInv, InvStep, PTL DEF Spec
<1>2. Inv => LoginSound
  <2> SUFFICES ASSUME Inv PROVE LoginSound
    OBVIOUS
  <2>1. Cardinality(Recent(hits, Failed)) \in Nat /\ Cardinality(Verifying) \in Nat
    BY Counted DEF Inv
  <2>2. FailuresBounded
    BY <2>1, Bounds DEF Inv, FailuresInv, FailuresBounded, Failed
  <2> QED
    BY <2>2 DEF Inv, CodesInv, IssuesInv, LoginSound
<1> QED
  BY <1>1, <1>2, PTL

(* While the second factor is enabled a session opens only by a step that  *)
(* uses a code.                                                            *)
THEOREM OpensOnlyWithCode == Spec => OpensWithCode
<1> DEFINE Opened == \A a \in Attempts :
              status[a] # "open" /\ status'[a] = "open" /\ totp.enabled
                => \E c \in Codes : uses'[c] > uses[c]
<1>1. ASSUME TypeOK, Next
      PROVE  Opened
  <2> SUFFICES ASSUME NEW b \in Attempts, status[b] # "open", status'[b] = "open",
                      totp.enabled
               PROVE  \E c \in Codes : uses'[c] > uses[c]
    OBVIOUS
  <2>1. ASSUME NEW a \in Attempts, NEW code \in Codes, CodeAccepted(a, code)
        PROVE  \E c \in Codes : uses'[c] > uses[c]
    <3>1. uses[code] \in Nat /\ uses'[code] = uses[code] + 1
      BY <1>1, <2>1 DEF CodeAccepted, Spend, TypeOK
    <3> QED
      BY <3>1
  <2>2. ASSUME NEW a \in Attempts, AttemptStep(a),
               \A code \in Codes : ~CodeAccepted(a, code)
        PROVE  FALSE
    <3>1. status \in [Attempts -> {"off", "verifying", "pending", "open", "gone"}]
      BY <1>1 DEF TypeOK
    <3>2. ~StartLogin(a) /\ ~Refused(a) /\ ~Unavailable(a)
      BY <3>1 DEF StartLogin, Refused, Unavailable
    <3>3. ~NeedsCode(a)
      BY <3>1 DEF NeedsCode
    <3>4. ~OpensAtOnce(a) /\ ~CodeTooLate(a)
      BY <3>1 DEF OpensAtOnce, CodeTooLate, Forget
    <3>5. \A code \in Codes \union {BadCode} : ~CodeRefused(a, code)
      BY <3>1 DEF CodeRefused, Forget
    <3> QED
      BY <2>2, <3>2, <3>3, <3>4, <3>5 DEF AttemptStep
  <2>3. ASSUME NEW a \in Attempts, FactorStep(a)
        PROVE  FALSE
    BY <2>3 DEF FactorStep, Setup, Enable, NewCodes, Disable, Administers, loginVars
  <2>4. ~Tick
    BY DEF Tick, loginVars
  <2> QED
    BY <1>1, <2>1, <2>2, <2>3, <2>4 DEF Next
<1>2. TypeOK /\ [Next]_vars => [Opened]_vars
  BY <1>1
<1> QED
  BY <1>2, TypeCorrect, PTL DEF Spec, OpensWithCode

----------------------------------------------------------------------------
(* Sessions.                                                               *)

\* The fields of the entries of the store.
LEMMA DeleteTypes ==
  ASSUME StoreTypes, NEW Ss \in SUBSET Sids, Store!Delete(Ss), Store!LimitsAssumption
  PROVE  StoreTypes'
<1>1. 0 \in 0..SessionTime
  BY DEF Store!LimitsAssumption
<1>2. /\ stored' \in [Sids -> {"none", "stored", "deleted"}]
      /\ accessed' \in [Sids -> BOOLEAN]
  BY DEF Store!Delete, StoreTypes
<1>3. created' \in [Sids -> 0..SessionTime] /\ lastSeen' \in [Sids -> 0..SessionTime]
  BY <1>1 DEF Store!Delete, StoreTypes
<1> QED
  BY <1>2, <1>3 DEF StoreTypes

(* Every variable of the store of sessions keeps its type.                 *)
THEOREM SessionsTypeCorrect ==
  ASSUME Store!LimitsAssumption
  PROVE  Store!Spec => []Store!TypeOK
<1>1. Store!Init => Store!TypeOK
  BY DEF Store!LimitsAssumption, Store!Init, Store!TypeOK
<1>2. Store!TypeOK /\ [Store!Next]_Store!vars => Store!TypeOK'
  <2> SUFFICES ASSUME Store!TypeOK, [Store!Next]_Store!vars
               PROVE  Store!TypeOK'
    OBVIOUS
  <2>1. ASSUME NEW Ss \in SUBSET Sids, Store!Delete(Ss)
        PROVE  StoreTypes'
    BY <2>1, DeleteTypes DEF Store!TypeOK, StoreTypes
  <2>2. CASE Store!Tick
    BY <2>2 DEF Store!LimitsAssumption, Store!TypeOK, Store!sessionVars, Store!revokeVars, Store!Tick
  <2>3. CASE Store!Sweep
    <3>1. StoreTypes' /\ UNCHANGED <<clock, owner, inside, revoking, before>>
      BY <2>1, <2>3 DEF Store!Sweep, Store!revokeVars
    <3> QED
      BY <3>1 DEF Store!TypeOK, StoreTypes
  <2>4. ASSUME NEW o \in Owners, Store!RevokeByOwner(o)
        PROVE  Store!TypeOK'
    <3>1. StoreTypes' /\ UNCHANGED <<clock, owner, inside, revoking, before>>
      BY <2>1, <2>4 DEF Store!RevokeByOwner, Store!Stored, Store!revokeVars
    <3> QED
      BY <3>1 DEF Store!TypeOK, StoreTypes
  <2>5. ASSUME NEW s \in Sids, Store!Create(s)
        PROVE  Store!TypeOK'
    <3>1. StoreTypes'
      BY <2>5 DEF Store!Create, Store!TypeOK, StoreTypes
    <3> QED
      BY <2>5, <3>1 DEF Store!Create, Store!TypeOK, StoreTypes, Store!revokeVars
  <2>6. ASSUME NEW s \in Sids, Store!Enter(s)
        PROVE  Store!TypeOK'
    <3>1. StoreTypes' /\ inside' \in [Sids -> BOOLEAN]
      BY <2>6 DEF Store!Enter, Store!TypeOK, StoreTypes
    <3> QED
      BY <2>6, <3>1 DEF Store!Enter, Store!TypeOK, StoreTypes
  <2>7. ASSUME NEW s \in Sids, Store!Leave(s)
        PROVE  Store!TypeOK'
    BY <2>7 DEF Store!Leave, Store!TypeOK, Store!sessionVars
  <2>8. ASSUME NEW s \in Sids, Store!Expire(s)
        PROVE  Store!TypeOK'
    <3>1. StoreTypes' /\ UNCHANGED <<clock, owner, inside, revoking, before>>
      BY <2>1, <2>8 DEF Store!Expire, Store!revokeVars
    <3> QED
      BY <3>1 DEF Store!TypeOK, StoreTypes
  <2>9. ASSUME NEW s \in Sids, Store!RevokeOne(s)
        PROVE  Store!TypeOK'
    <3>1. StoreTypes'
      BY <2>1, <2>9 DEF Store!RevokeOne, Store!Listed
    <3> QED
      BY <2>9, <3>1 DEF Store!RevokeOne, Store!TypeOK, StoreTypes
  <2>10. ASSUME NEW s \in Sids, Store!RevokeNext(s)
         PROVE  Store!TypeOK'
    <3>1. PICK t \in revoking[s] : Store!Delete({t}) /\ revoking' = [revoking EXCEPT ![s] = @ \ {t}]
      BY <2>10 DEF Store!RevokeNext
    <3>2. StoreTypes' /\ revoking' \in [Sids -> SUBSET Sids]
      BY <2>1, <3>1 DEF Store!TypeOK
    <3> QED
      BY <2>10, <3>2 DEF Store!RevokeNext, Store!TypeOK, StoreTypes
  <2>11. ASSUME NEW s \in Sids, Store!RevokeOthers(s)
         PROVE  Store!TypeOK'
    <3> DEFINE others == Store!Listed(s) \ {s}
    <3>1. others \in SUBSET Sids
      BY DEF Store!Listed
    <3>2. CASE others = {}
      <4>1. StoreTypes' /\ revoking' = revoking
        BY <2>11, <3>2 DEF Store!RevokeOthers, Store!TypeOK, StoreTypes, Store!sessionVars
      <4>2. before' \in [Sids -> SUBSET Sids] /\ inside' \in [Sids -> BOOLEAN]
        BY <2>11 DEF Store!RevokeOthers, Store!TypeOK, Store!Stored
      <4> QED
        BY <2>11, <4>1, <4>2 DEF Store!RevokeOthers, Store!TypeOK, StoreTypes
    <3>3. CASE others # {}
      <4>1. PICK t \in others : Store!Delete({t}) /\ revoking' = [revoking EXCEPT ![s] = others \ {t}]
        BY <2>11, <3>3 DEF Store!RevokeOthers
      <4> HIDE DEF others
      <4>2. StoreTypes' /\ revoking' \in [Sids -> SUBSET Sids]
        BY <2>1, <3>1, <4>1 DEF Store!TypeOK
      <4>3. before' \in [Sids -> SUBSET Sids] /\ inside' \in [Sids -> BOOLEAN]
        BY <2>11 DEF Store!RevokeOthers, Store!TypeOK, Store!Stored
      <4> QED
        BY <2>11, <4>2, <4>3 DEF Store!RevokeOthers, Store!TypeOK, StoreTypes
    <3> QED
      BY <3>2, <3>3
  <2>12. CASE UNCHANGED Store!vars
    BY <2>12 DEF Store!vars, Store!TypeOK, Store!sessionVars, Store!revokeVars
  <2> QED
    BY <2>2, <2>3, <2>4, <2>5, <2>6, <2>7, <2>8, <2>9, <2>10, <2>11, <2>12 DEF Store!Next
<1> QED
  BY <1>1, <1>2, PTL DEF Store!Spec

\* A session that is not live is never live again, once it was created.
LEMMA NeverLiveAgain ==
  ASSUME Store!LimitsAssumption, Store!TypeOK, [Store!Next]_Store!vars
  PROVE  \A s \in Sids : stored[s] # "none" =>
           stored'[s] # "none" /\ (s \in Alive' => s \in Alive)
<1> SUFFICES ASSUME NEW s \in Sids, stored[s] # "none"
             PROVE  stored'[s] # "none" /\ (s \in Alive' => s \in Alive)
  OBVIOUS
<1> USE DEF Store!LimitsAssumption, Store!TypeOK, Store!sessionVars, Store!revokeVars, Store!Stored, Store!Live, Store!TooOld,
            Store!Idle, Alive
<1>1. ASSUME NEW Ss \in SUBSET Sids, Store!Delete(Ss), clock' = clock
      PROVE  stored'[s] # "none" /\ (s \in Alive' => s \in Alive)
  BY <1>1 DEF Store!Delete
<1>2. CASE Store!Tick
  BY <1>2 DEF Store!Tick
<1>3. CASE Store!Sweep
  BY <1>1, <1>3 DEF Store!Sweep, Store!Swept
<1>4. ASSUME NEW o \in Owners, Store!RevokeByOwner(o)
      PROVE  stored'[s] # "none" /\ (s \in Alive' => s \in Alive)
  BY <1>1, <1>4 DEF Store!RevokeByOwner
<1>5. ASSUME NEW t \in Sids, Store!Create(t) \/ Store!Enter(t) \/ Store!Leave(t)
      PROVE  stored'[s] # "none" /\ (s \in Alive' => s \in Alive)
  BY <1>5 DEF Store!Create, Store!Enter, Store!Leave
<1>6. ASSUME NEW t \in Sids, Store!Expire(t) \/ Store!RevokeOne(t) \/ Store!RevokeNext(t)
      PROVE  stored'[s] # "none" /\ (s \in Alive' => s \in Alive)
  BY <1>1, <1>6 DEF Store!Expire, Store!RevokeOne, Store!RevokeNext, Store!Listed
<1>7. ASSUME NEW t \in Sids, Store!RevokeOthers(t)
      PROVE  stored'[s] # "none" /\ (s \in Alive' => s \in Alive)
  BY <1>1, <1>7 DEF Store!RevokeOthers, Store!Listed
<1>8. CASE UNCHANGED Store!vars
  BY <1>8 DEF Store!vars
<1> QED
  BY <1>2, <1>3, <1>4, <1>5, <1>6, <1>7, <1>8 DEF Store!Next

\* A session deleted by a step is not alive after it.
LEMMA DeletedIsOut ==
  ASSUME NEW t \in Sids, Store!Delete({t})
  PROVE  t \notin Alive'
  BY DEF Store!Delete, Alive, Store!Live, Store!Stored

\* Every step keeps what revoke-others has still to do.
LEMMA RevokedStep ==
  ASSUME Store!LimitsAssumption
  PROVE  Store!TypeOK /\ RevokedInv /\ [Store!Next]_Store!vars => RevokedInv'
<1> SUFFICES ASSUME Store!TypeOK, RevokedInv, [Store!Next]_Store!vars,
                    NEW s \in Sids, NEW t \in before'[s]
             PROVE  stored'[t] # "none" /\ (t \in Alive' => t \in revoking'[s])
  BY DEF RevokedInv
<1>0. \A v \in Sids : stored[v] # "none" =>
        stored'[v] # "none" /\ (v \in Alive' => v \in Alive)
  BY NeverLiveAgain
<1>1. CASE UNCHANGED <<before, revoking>>
  <2>1. t \in before[s] /\ t \in Sids
    BY <1>1 DEF Store!TypeOK
  <2> QED
    BY <1>0, <1>1, <2>1 DEF RevokedInv
<1>2. ASSUME NEW u \in Sids, Store!RevokeNext(u)
      PROVE  stored'[t] # "none" /\ (t \in Alive' => t \in revoking'[s])
  <2>1. t \in before[s] /\ t \in Sids
    BY <1>2 DEF Store!TypeOK, Store!RevokeNext
  <2>2. stored'[t] # "none" /\ (t \in Alive' => t \in revoking[s])
    BY <1>0, <2>1 DEF RevokedInv
  <2>3. PICK v \in revoking[u] : Store!Delete({v}) /\ revoking' = [revoking EXCEPT ![u] = @ \ {v}]
    BY <1>2 DEF Store!RevokeNext
  <2>4. t = v => t \notin Alive'
    BY <2>1, <2>3, DeletedIsOut
  <2> QED
    BY <2>1, <2>2, <2>3, <2>4 DEF Store!TypeOK
<1>3. ASSUME NEW u \in Sids, Store!RevokeOthers(u)
      PROVE  stored'[t] # "none" /\ (t \in Alive' => t \in revoking'[s])
  <2> DEFINE others == Store!Listed(u) \ {u}
  <2>1. \/ others = {} /\ revoking' = revoking
        \/ \E v \in others : Store!Delete({v}) /\ revoking' = [revoking EXCEPT ![u] = others \ {v}]
    BY <1>3 DEF Store!RevokeOthers
  <2>2. before' = [before EXCEPT ![u] = {v \in Store!Stored : owner[v] = owner[u]} \ {u}]
    BY <1>3 DEF Store!RevokeOthers
  <2>3. revoking[u] = {} /\ others \in SUBSET Sids
    BY <1>3 DEF Store!RevokeOthers, Store!Listed
  <2>4. CASE s # u
    <3>1. t \in before[s] /\ t \in Sids /\ revoking'[s] = revoking[s]
      BY <2>1, <2>2, <2>4 DEF Store!TypeOK
    <3> QED
      BY <1>0, <3>1 DEF RevokedInv
  <2>5. CASE s = u
    <3>1. t \in Sids /\ stored[t] = "stored" /\ owner[t] = owner[u] /\ t # u
      BY <2>2, <2>5 DEF Store!TypeOK, Store!Stored
    <3>2. stored'[t] # "none" /\ (t \in Alive' => t \in Alive)
      BY <1>0, <3>1
    <3>3. t \in Alive => t \in others
      BY <3>1 DEF Store!Listed, Alive
    <3>4. CASE others = {} /\ revoking' = revoking
      BY <3>2, <3>3, <3>4
    <3>5. ASSUME NEW v \in others, Store!Delete({v}), revoking' = [revoking EXCEPT ![u] = others \ {v}]
          PROVE  t \in Alive' => t \in revoking'[s]
      <4>1. t = v => t \notin Alive'
        BY <3>1, <3>5, DeletedIsOut
      <4>2. revoking'[u] = others \ {v}
        BY <3>5 DEF Store!TypeOK
      <4> QED
        BY <2>5, <3>2, <3>3, <4>1, <4>2
    <3> QED
      BY <2>1, <3>2, <3>4, <3>5
  <2> QED
    BY <2>4, <2>5
<1> QED
  BY <1>1, <1>2, <1>3
  DEF Store!Next, Store!vars, Store!revokeVars, Store!Tick, Store!Sweep, Store!RevokeByOwner, Store!Create, Store!Enter, Store!Expire,
      Store!Leave, Store!RevokeOne

(* Once revoke-others is done, no session of the account that was open     *)
(* when it began is live.                                                  *)
THEOREM RevokedStayOutCorrect ==
  ASSUME Store!LimitsAssumption
  PROVE  Store!Spec => []RevokedStayOut
<1>1. Store!Init => RevokedInv
  BY DEF Store!Init, RevokedInv
<1>2. Store!Spec => []RevokedInv
  BY <1>1, RevokedStep, SessionsTypeCorrect, PTL DEF Store!Spec
<1>3. Store!TypeOK /\ RevokedInv => RevokedStayOut
  BY DEF RevokedInv, RevokedStayOut, Store!RevokedStayOut, Alive, Store!TypeOK
<1> QED
  BY <1>2, <1>3, SessionsTypeCorrect, PTL

(* No step opens a session without a code that is due, brings a session    *)
(* back that was refused, or ends one of another account.                  *)
THEOREM LoginStepsCorrect ==
  ASSUME Store!LimitsAssumption
  PROVE  Spec /\ Store!Spec => LoginSteps
<1> DEFINE StayRefused == \A s \in Sids : stored[s] # "none" /\ ~Store!Live(s) => ~Store!Live(s)'
           Own == \A s \in Sids : \A t \in Sids :
             inside[s] /\ ~inside'[s] /\ t # s /\ stored[t] = "stored" /\ stored'[t] = "deleted"
               => owner[t] = owner[s]
<1>1. Store!TypeOK /\ [Store!Next]_Store!vars => [StayRefused]_Store!vars
  BY NeverLiveAgain DEF Alive
<1>2. Store!TypeOK /\ [Store!Next]_Store!vars => [Own]_Store!vars
  <2> SUFFICES ASSUME Store!TypeOK, Store!Next, NEW s \in Sids, NEW t \in Sids, inside[s], ~inside'[s],
                      t # s, stored[t] = "stored", stored'[t] = "deleted"
               PROVE  owner[t] = owner[s]
    OBVIOUS
  <2>1. inside' # inside
    OBVIOUS
  <2>2. PICK u \in Sids : Store!Enter(u) \/ Store!RevokeOne(u) \/ Store!RevokeOthers(u) \/ Store!Leave(u)
    BY <2>1 DEF Store!Next, Store!revokeVars, Store!Tick, Store!Sweep, Store!RevokeByOwner, Store!Create, Store!Expire, Store!RevokeNext
  <2>3. ~Store!Enter(u) /\ ~Store!Leave(u)
    <3>1. stored' # stored
      OBVIOUS
    <3> QED
      BY <3>1 DEF Store!Enter, Store!Leave, Store!sessionVars
  <2>4. u = s
    BY <2>2, <2>3 DEF Store!TypeOK, Store!RevokeOne, Store!RevokeOthers
  <2>5. ASSUME NEW v \in Store!Listed(s), Store!Delete({v})
        PROVE  owner[t] = owner[s]
    BY <2>5 DEF Store!Delete, Store!Listed
  <2>6. CASE Store!RevokeOne(s)
    BY <2>5, <2>6 DEF Store!RevokeOne
  <2>7. CASE Store!RevokeOthers(s)
    BY <2>5, <2>7 DEF Store!RevokeOthers, Store!sessionVars
  <2> QED
    BY <2>2, <2>3, <2>4, <2>6, <2>7
<1> QED
  BY <1>1, <1>2, OpensOnlyWithCode, SessionsTypeCorrect, PTL
  DEF Store!Spec, LoginSteps, Store!RefusedForGood, Store!OwnSessionsOnly
----------------------------------------------------------------------------
(* The login with OIDC.                                                    *)

\* A demand in the cookie has been started, before now.
FlowsInv ==
  /\ \A f \in flowJar : flow[f].started
  /\ \A f \in Flows : (flow[f].started => flow[f].at <= instant) /\ (flow[f].reauth => flow[f].started)

\* A code is exchanged soon after the cookie of its demand was read.
ExchangeInv ==
  \A c \in Callbacks : call[c].pc = "exchange" =>
    /\ flow[call[c].flow].started
    /\ call[c].since - flow[call[c].flow].at <= FlowTtl
    /\ call[c].since <= instant /\ instant - call[c].since <= Latency

\* What a code has been exchanged for is in one place: a callback that verifies the mailbox,
\* a login that awaits a second factor, or a session.
CodeInv ==
  /\ \A c \in Callbacks : call[c].pc = "verify" =>
       /\ grant[call[c].flow].state = "used" /\ call[c].flow \notin pending
       /\ \A s \in Granted : call[c].flow \notin session[s].flow
       /\ \A d \in Callbacks : call[d].pc = "verify" /\ call[d].flow = call[c].flow => c = d
  /\ \A f \in pending : grant[f].state = "used" /\ \A s \in Granted : f \notin session[s].flow
  /\ \A s \in Granted : \A f \in session[s].flow : grant[f].state = "used"
  /\ Sso!OneSessionPerCode

\* A demand at the origin of a reauthentication at time `at` of a session of user u.
Origin(f, u, at) ==
  /\ flow[f].reauth /\ grant[f].state = "used" /\ grant[f].user = u
  /\ grant[f].at >= flow[f].at - Skew
  /\ at - flow[f].at <= FlowTtl + Latency

\* A session was reauthenticated by its owner, identified for a demand of that time.
OwnerInv ==
  \A s \in Granted : session[s].reauthAt # Never =>
    \E f \in Flows : Origin(f, session[s].user, session[s].reauthAt)

OidcInv == Sso!TypeOK /\ FlowsInv /\ ExchangeInv /\ CodeInv /\ OwnerInv

\* The fields of a request and of a cookie.
LEMMA CallFields ==
  ASSUME Sso!TypeOK, NEW c \in Callbacks
  PROVE  /\ call[c].pc = "exchange" =>
              call[c].url \in Flows /\ call[c].flow \in Flows /\ call[c].jar \in Sso!Cookie /\ call[c].since \in Sso!Times
         /\ call[c].pc = "verify" => call[c].flow \in Flows
         /\ call[c].pc = "reply" => call[c].set \in SUBSET Sso!Cookie
  BY DEF Sso!TypeOK, Sso!Call, Sso!NoCall

LEMMA CookieFields ==
  ASSUME NEW k \in Sso!Cookie
  PROVE  /\ k.kind = "session" => k.sid \in Granted
         /\ k.kind = "pending" => k.flow \in Flows
  BY DEF Sso!Cookie, Sso!NoCookie

LEMMA FlowFields ==
  ASSUME Sso!TypeOK, Sso!BoundsAssumption, NEW f \in Flows
  PROVE  /\ flow[f].started \in BOOLEAN /\ flow[f].reauth \in BOOLEAN /\ flow[f].at \in Int
         /\ grant[f].user \in Users \union {Nobody} /\ grant[f].at \in Sso!Times /\ grant[f].at \in Int
         /\ instant \in Int /\ instant \in Sso!Times
  BY DEF Sso!TypeOK, Sso!BoundsAssumption, Sso!Times

\* A reply, whatever it sets.
LEMMA ReplyType ==
  ASSUME Sso!TypeOK, NEW c \in Callbacks, NEW ks \in SUBSET Sso!Cookie, Sso!Reply(c, ks)
  PROVE  call' \in [Callbacks -> Sso!Call] /\ call'[c].pc = "reply" /\ \A d \in Callbacks \ {c} : call'[d] = call[d]
  BY DEF Sso!TypeOK, Sso!Reply, Sso!Call

LEMMA OpenType ==
  ASSUME Sso!TypeOK, NEW s \in Granted, NEW f \in Flows, Sso!Open(s, f)
  PROVE  /\ session' \in [Granted -> [state : {"none", "live", "gone"}, user : Users \union {Nobody},
                                   flow : SUBSET Flows, reauthAt : Sso!Times \union {Never}]]
         /\ session'[s].flow = {f} /\ session'[s].reauthAt = Never
         /\ \A t \in Granted \ {s} : session'[t] = session[t]
  BY DEF Sso!TypeOK, Sso!Open

\* Every step keeps the types.
LEMMA OidcTypes ==
  ASSUME Sso!BoundsAssumption, Sso!TypeOK, [Sso!Next]_(Sso!vars)
  PROVE  Sso!TypeOK'
<1>1. CASE Sso!Tick
  BY <1>1 DEF Sso!Tick, Sso!TypeOK, Sso!BoundsAssumption, Sso!Times, Sso!Call, Sso!Cookie
<1>2. ASSUME NEW f \in Flows, NEW reauth \in BOOLEAN, Sso!Start(f, reauth) PROVE Sso!TypeOK'
  <2>1. flowJar' \in SUBSET Flows /\ \A g, h \in flowJar' : g = h
    BY <1>2 DEF Sso!Start
  <2>2. flow' \in [Flows -> [started : BOOLEAN, at : Sso!Times, reauth : BOOLEAN]]
    BY <1>2 DEF Sso!Start, Sso!TypeOK
  <2> QED
    BY <1>2, <2>1, <2>2 DEF Sso!Start, Sso!TypeOK
<1>3. ASSUME NEW f \in Flows, NEW u \in Users, Sso!Identify(f, u) PROVE Sso!TypeOK'
  BY <1>3 DEF Sso!Identify, Sso!TypeOK
<1>4. ASSUME NEW f \in Flows, Sso!Remember(f) \/ Sso!Cancel(f) PROVE Sso!TypeOK'
  <2>1. CASE Sso!Remember(f)
    BY <2>1 DEF Sso!Remember, Sso!TypeOK
  <2>2. CASE Sso!Cancel(f)
    BY <2>2 DEF Sso!Cancel, Sso!TypeOK
  <2> QED
    BY <1>4, <2>1, <2>2
<1>5. ASSUME NEW f \in Flows, NEW c \in Callbacks, Sso!Callback(c, f) PROVE Sso!TypeOK'
  <2>1. call' \in [Callbacks -> Sso!Call]
    <3>1. CASE Sso!Reply(c, {})
      BY <3>1, ReplyType
    <3>2. CASE \E g \in Sso!Taken : call' = [call EXCEPT ![c] =
                 [pc |-> "exchange", url |-> f, flow |-> g, jar |-> jar, since |-> instant]]
      BY <3>2 DEF Sso!Taken, Sso!TypeOK, Sso!Call
    <3> QED
      BY <1>5, <3>1, <3>2 DEF Sso!Callback
  <2> QED
    BY <1>5, <2>1 DEF Sso!Callback, Sso!TypeOK
<1>6. ASSUME NEW c \in Callbacks, Sso!ExchangeFails(c) PROVE Sso!TypeOK'
  <2>1. call' \in [Callbacks -> Sso!Call]
    BY <1>6, ReplyType DEF Sso!ExchangeFails
  <2>2. call[c].flow \in Flows
    BY <1>6, CallFields DEF Sso!ExchangeFails
  <2>3. grant' = grant \/ grant' = [grant EXCEPT ![call[c].flow].state = "used"]
    BY <1>6 DEF Sso!ExchangeFails
  <2>4. grant' \in [Flows -> [state : {"none", "issued", "used", "refused"}, user : Users \union {Nobody}, at : Sso!Times]]
    BY <2>2, <2>3 DEF Sso!TypeOK
  <2> QED
    BY <1>6, <2>1, <2>4 DEF Sso!ExchangeFails, Sso!TypeOK
<1>7. ASSUME NEW c \in Callbacks, Sso!Reauthenticate(c) PROVE Sso!TypeOK'
  <2>1. call' \in [Callbacks -> Sso!Call]
    BY <1>7, ReplyType DEF Sso!Reauthenticate
  <2>2. call[c].flow \in Flows /\ call[c].jar \in Sso!Cookie
    BY <1>7, CallFields DEF Sso!Reauthenticate
  <2>3. /\ grant' = [grant EXCEPT ![call[c].flow].state = "used"]
        /\ \/ session' = session
           \/ session' = [session EXCEPT ![call[c].jar.sid].reauthAt = instant]
    BY <1>7 DEF Sso!Reauthenticate
  <2>4. grant' \in [Flows -> [state : {"none", "issued", "used", "refused"}, user : Users \union {Nobody}, at : Sso!Times]]
    BY <2>2, <2>3 DEF Sso!TypeOK
  <2>5. session' \in [Granted -> [state : {"none", "live", "gone"}, user : Users \union {Nobody},
                               flow : SUBSET Flows, reauthAt : Sso!Times \union {Never}]]
    <3>1. CASE session' = [session EXCEPT ![call[c].jar.sid].reauthAt = instant]
      <4> DEFINE k == call[c].jar.sid
      <4> HIDE DEF k
      <4>1. ASSUME k \in Granted
            PROVE  [session[k] EXCEPT !.reauthAt = instant] \in
                     [state : {"none", "live", "gone"}, user : Users \union {Nobody},
                      flow : SUBSET Flows, reauthAt : Sso!Times \union {Never}]
        <5>1. /\ instant \in Sso!Times
              /\ session[k] \in [state : {"none", "live", "gone"}, user : Users \union {Nobody},
                                 flow : SUBSET Flows, reauthAt : Sso!Times \union {Never}]
          BY <4>1 DEF Sso!TypeOK
        <5> QED
          BY <5>1
      <4>2. session' = [session EXCEPT ![k] = [session[k] EXCEPT !.reauthAt = instant]]
        BY <3>1 DEF k
      <4> QED
        BY <4>1, <4>2 DEF Sso!TypeOK
    <3> QED
      BY <2>3, <3>1 DEF Sso!TypeOK
  <2> QED
    BY <1>7, <2>1, <2>4, <2>5 DEF Sso!Reauthenticate, Sso!TypeOK
<1>8. ASSUME NEW c \in Callbacks, Sso!Login(c) PROVE Sso!TypeOK'
  <2>1. call[c].flow \in Flows
    BY <1>8, CallFields DEF Sso!Login
  <2> QED
    BY <1>8, <2>1 DEF Sso!Login, Sso!TypeOK, Sso!Call
<1>9. ASSUME NEW c \in Callbacks, Sso!Accepted(c) PROVE Sso!TypeOK'
  <2> DEFINE f == call[c].flow
  <2>1. f \in Flows
    BY <1>9, CallFields DEF Sso!Accepted
  <2>2. CASE \E s \in Granted : Sso!Open(s, f) /\ Sso!Reply(c, {[kind |-> "session", sid |-> s]}) /\ UNCHANGED pending
    <3>1. PICK s \in Granted : Sso!Open(s, f) /\ Sso!Reply(c, {[kind |-> "session", sid |-> s]}) /\ UNCHANGED pending
      BY <2>2
    <3>2. {[kind |-> "session", sid |-> s]} \in SUBSET Sso!Cookie
      BY DEF Sso!Cookie
    <3>3. call' \in [Callbacks -> Sso!Call]
      BY <3>1, <3>2, ReplyType
    <3> HIDE DEF f
    <3>4. session' \in [Granted -> [state : {"none", "live", "gone"}, user : Users \union {Nobody},
                                 flow : SUBSET Flows, reauthAt : Sso!Times \union {Never}]]
      BY <2>1, <3>1, OpenType
    <3> QED
      BY <1>9, <3>1, <3>3, <3>4 DEF Sso!Accepted, Sso!TypeOK
  <2>3. CASE pending' = pending \union {f} /\ Sso!Reply(c, {[kind |-> "pending", flow |-> f]}) /\ UNCHANGED session
    <3>1. {[kind |-> "pending", flow |-> f]} \in SUBSET Sso!Cookie
      BY <2>1 DEF Sso!Cookie
    <3>2. call' \in [Callbacks -> Sso!Call]
      BY <2>3, <3>1, ReplyType
    <3> QED
      BY <1>9, <2>1, <2>3, <3>2 DEF Sso!Accepted, Sso!TypeOK
  <2> QED
    BY <1>9, <2>2, <2>3 DEF Sso!Accepted
<1>10. ASSUME NEW c \in Callbacks, Sso!Refused(c) PROVE Sso!TypeOK'
  <2>1. call' \in [Callbacks -> Sso!Call]
    BY <1>10, ReplyType DEF Sso!Refused
  <2> QED
    BY <1>10, <2>1 DEF Sso!Refused, Sso!TypeOK
<1>11. ASSUME NEW c \in Callbacks, Sso!Respond(c) PROVE Sso!TypeOK'
  <2>1. call' \in [Callbacks -> Sso!Call]
    BY <1>11 DEF Sso!Respond, Sso!TypeOK, Sso!Call
  <2>2. jar' \in Sso!Cookie
    BY <1>11, CallFields DEF Sso!Respond, Sso!TypeOK
  <2>3. flowJar' \in SUBSET Flows /\ \A g, h \in flowJar' : g = h
    BY <1>11 DEF Sso!Respond, Sso!TypeOK
  <2> QED
    BY <1>11, <2>1, <2>2, <2>3 DEF Sso!Respond, Sso!TypeOK
<1>12. CASE Sso!SecondFactor
  <2>1. jar.flow \in Flows
    BY <1>12, CookieFields DEF Sso!SecondFactor, Sso!TypeOK
  <2>2. PICK s \in Granted : Sso!Open(s, jar.flow) /\ (jar' = [kind |-> "session", sid |-> s] \/ UNCHANGED jar)
    BY <1>12 DEF Sso!SecondFactor
  <2>3. session' \in [Granted -> [state : {"none", "live", "gone"}, user : Users \union {Nobody},
                               flow : SUBSET Flows, reauthAt : Sso!Times \union {Never}]]
    BY <2>1, <2>2, OpenType
  <2>4. jar' \in Sso!Cookie
    BY <2>2 DEF Sso!TypeOK, Sso!Cookie
  <2> QED
    BY <1>12, <2>3, <2>4 DEF Sso!SecondFactor, Sso!TypeOK
<1>13. CASE Sso!Logout
  <2>1. jar.sid \in Granted
    BY <1>13, CookieFields DEF Sso!Logout, Sso!TypeOK
  <2>2. jar' \in Sso!Cookie
    BY <1>13 DEF Sso!Logout, Sso!TypeOK, Sso!Cookie
  <2>3. session' \in [Granted -> [state : {"none", "live", "gone"}, user : Users \union {Nobody},
                               flow : SUBSET Flows, reauthAt : Sso!Times \union {Never}]]
    <3> DEFINE k == jar.sid
    <3>1. [session[k] EXCEPT !.state = "gone"] \in
            [state : {"none", "live", "gone"}, user : Users \union {Nobody},
             flow : SUBSET Flows, reauthAt : Sso!Times \union {Never}]
      BY <2>1 DEF Sso!TypeOK
    <3>2. session' = [session EXCEPT ![k] = [session[k] EXCEPT !.state = "gone"]]
      BY <1>13 DEF Sso!Logout
    <3> HIDE DEF k
    <3> QED
      BY <3>1, <3>2 DEF Sso!TypeOK
  <2> QED
    BY <1>13, <2>2, <2>3 DEF Sso!Logout, Sso!TypeOK
<1>14. CASE UNCHANGED Sso!vars
  BY <1>14 DEF Sso!vars, Sso!TypeOK
<1> QED
  BY <1>1, <1>2, <1>3, <1>4, <1>5, <1>6, <1>7, <1>8, <1>9, <1>10, <1>11, <1>12, <1>13, <1>14 DEF Sso!Next

\* A step that starts no demand, exchanges no code, and lets no time pass.
LEMMA TimesKept ==
  ASSUME FlowsInv, ExchangeInv, UNCHANGED <<instant, flow>>, flowJar' \subseteq flowJar,
         \A c \in Callbacks : call'[c] = call[c] \/ call'[c].pc # "exchange"
  PROVE  FlowsInv' /\ ExchangeInv'
  BY DEF FlowsInv, ExchangeInv

\* A step after which what was exchanged is where it was.
LEMMA CodesKept ==
  ASSUME CodeInv, Sso!TypeOK, pending' = pending,
         \A f \in Flows : grant[f].state = "used" => grant'[f].state = "used",
         \A s \in Granted : session'[s].flow = session[s].flow,
         \A c \in Callbacks : call'[c] = call[c] \/ call'[c].pc # "verify"
  PROVE  CodeInv'
<1>1. \A c \in Callbacks : call'[c].pc = "verify" => call'[c] = call[c] /\ call[c].flow \in Flows
  BY CallFields
<1>2. \A s \in Granted : session[s].flow \subseteq Flows
  BY DEF Sso!TypeOK
<1>3. pending \subseteq Flows
  BY DEF Sso!TypeOK
<1>4. Sso!OneSessionPerCode'
  BY DEF CodeInv, Sso!OneSessionPerCode
<1> QED
  BY <1>1, <1>2, <1>3, <1>4 DEF CodeInv

\* A step that reauthenticates no session, and keeps the demands and the codes behind it.
LEMMA OwnersKept ==
  ASSUME OwnerInv, \A f \in Flows : flow[f].reauth => flow'[f] = flow[f],
         \A f \in Flows : grant[f].state = "used" => grant'[f] = grant[f],
         \A s \in Granted : \/ session'[s].reauthAt = Never
                         \/ /\ session'[s].reauthAt = session[s].reauthAt
                            /\ session'[s].user = session[s].user
  PROVE  OwnerInv'
<1>1. ASSUME NEW s \in Granted, session'[s].reauthAt # Never
      PROVE  (\E f \in Flows : Origin(f, session[s].user, session[s].reauthAt))'
  <2>1. PICK f \in Flows : Origin(f, session[s].user, session[s].reauthAt)
    BY <1>1 DEF OwnerInv
  <2>2. flow'[f] = flow[f] /\ grant'[f] = grant[f]
    BY <2>1 DEF Origin
  <2> QED
    BY <1>1, <2>1, <2>2 DEF Origin
<1> QED
  BY <1>1 DEF OwnerInv

\* A code becomes used, and nothing else of it changes.
LEMMA CodeUsed ==
  ASSUME Sso!TypeOK, NEW f \in Flows, grant' = [grant EXCEPT ![f].state = "used"]
  PROVE  /\ \A g \in Flows : grant[g].state = "used" => grant'[g].state = "used"
         /\ \A g \in Flows \ {f} : grant'[g] = grant[g]
         /\ grant'[f].state = "used" /\ grant'[f].user = grant[f].user /\ grant'[f].at = grant[f].at
         /\ \A g \in Flows : grant[g].state = "used" => grant'[g] = grant[g]
<1>1. grant \in [Flows -> [state : {"none", "issued", "used", "refused"}, user : Users \union {Nobody}, at : Sso!Times]]
  BY DEF Sso!TypeOK
<1>2. grant' = [grant EXCEPT ![f] = [grant[f] EXCEPT !.state = "used"]]
  OBVIOUS
<1>3. grant[f] \in [state : {"none", "issued", "used", "refused"}, user : Users \union {Nobody}, at : Sso!Times]
  BY <1>1
<1>4. grant'[f] = [grant[f] EXCEPT !.state = "used"]
  BY <1>1, <1>2
<1>5. grant[f].state = "used" => grant'[f] = grant[f]
  BY <1>3, <1>4
<1> QED
  BY <1>1, <1>2, <1>3, <1>4, <1>5

LEMMA StartStep ==
  ASSUME Sso!BoundsAssumption, OidcInv, NEW f \in Flows, NEW reauth \in BOOLEAN, Sso!Start(f, reauth)
  PROVE  FlowsInv' /\ ExchangeInv' /\ CodeInv' /\ OwnerInv'
<1>1. Sso!TypeOK /\ FlowsInv /\ ExchangeInv /\ CodeInv /\ OwnerInv
  BY DEF OidcInv
<1>2. /\ ~flow[f].started /\ flowJar' = {f}
      /\ flow' = [flow EXCEPT ![f] = [started |-> TRUE, at |-> instant, reauth |-> reauth /\ jar.kind = "session"]]
      /\ UNCHANGED <<instant, grant, call, session, pending>>
  BY DEF Sso!Start
<1>3. /\ flow'[f].started = TRUE /\ flow'[f].at = instant
      /\ \A g \in Flows \ {f} : flow'[g] = flow[g]
  BY <1>1, <1>2 DEF Sso!TypeOK
<1>4. FlowsInv'
  <2>1. instant <= instant
    BY <1>1, FlowFields
  <2> QED
    BY <1>1, <1>2, <1>3, <2>1 DEF FlowsInv
<1>5. ExchangeInv'
  BY <1>1, <1>2, <1>3, CallFields DEF ExchangeInv
<1>6. CodeInv'
  BY <1>1, <1>2, CodesKept
<1>7. OwnerInv'
  BY <1>1, <1>2, <1>3, OwnersKept DEF FlowsInv
<1> QED
  BY <1>4, <1>5, <1>6, <1>7

LEMMA TickStep ==
  ASSUME Sso!BoundsAssumption, OidcInv, Sso!Tick
  PROVE  FlowsInv' /\ ExchangeInv' /\ CodeInv' /\ OwnerInv'
<1>1. Sso!TypeOK /\ FlowsInv /\ ExchangeInv /\ CodeInv /\ OwnerInv
  BY DEF OidcInv
<1>2. /\ instant' = instant + 1 /\ UNCHANGED <<flowJar, flow, grant, call, session, pending>>
      /\ \A c \in Callbacks : call[c].pc = "exchange" => instant - call[c].since < Latency
  BY DEF Sso!Tick
<1>3. FlowsInv'
  BY <1>1, <1>2, FlowFields DEF FlowsInv, Sso!TypeOK
<1>4. ExchangeInv'
  <2>1. ASSUME NEW c \in Callbacks, call[c].pc = "exchange"
        PROVE  call[c].since <= instant + 1 /\ (instant + 1) - call[c].since <= Latency
    <3>1. call[c].since \in Int /\ instant \in Int /\ Latency \in Int
      BY <1>1, <2>1, CallFields DEF Sso!TypeOK, Sso!Times, Sso!BoundsAssumption
    <3>2. call[c].since <= instant /\ instant - call[c].since < Latency
      BY <1>1, <1>2, <2>1 DEF ExchangeInv
    <3> QED
      BY <3>1, <3>2
  <2> QED
    BY <1>1, <1>2, <2>1 DEF ExchangeInv
<1>5. CodeInv'
  BY <1>1, <1>2, CodesKept
<1>6. OwnerInv'
  BY <1>1, <1>2, OwnersKept
<1> QED
  BY <1>3, <1>4, <1>5, <1>6

\* What the user and the provider do.
LEMMA ProviderStep ==
  ASSUME Sso!BoundsAssumption, OidcInv, NEW f \in Flows,
         (\E u \in Users : Sso!Identify(f, u)) \/ Sso!Remember(f) \/ Sso!Cancel(f)
  PROVE  FlowsInv' /\ ExchangeInv' /\ CodeInv' /\ OwnerInv'
<1>1. Sso!TypeOK /\ FlowsInv /\ ExchangeInv /\ CodeInv /\ OwnerInv
  BY DEF OidcInv
<1>2. UNCHANGED <<instant, flowJar, flow, call, session, pending>> /\ grant[f].state = "none"
  BY DEF Sso!Identify, Sso!Remember, Sso!Cancel
<1>3. \A g \in Flows \ {f} : grant'[g] = grant[g]
  BY <1>1 DEF Sso!TypeOK, Sso!Identify, Sso!Remember, Sso!Cancel
<1>4. \A g \in Flows : grant[g].state = "used" => grant'[g] = grant[g]
  BY <1>2, <1>3
<1> QED
  BY <1>1, <1>2, <1>4, TimesKept, CodesKept, OwnersKept

LEMMA CallbackStep ==
  ASSUME Sso!BoundsAssumption, OidcInv, NEW f \in Flows, NEW c \in Callbacks, Sso!Callback(c, f)
  PROVE  FlowsInv' /\ ExchangeInv' /\ CodeInv' /\ OwnerInv'
<1>1. Sso!TypeOK /\ FlowsInv /\ ExchangeInv /\ CodeInv /\ OwnerInv
  BY DEF OidcInv
<1>2. UNCHANGED <<instant, flowJar, flow, grant, session, pending>>
  BY DEF Sso!Callback
<1>3. CASE Sso!Reply(c, {})
  <2>1. \A d \in Callbacks : call'[d] = call[d] \/ (call'[d].pc # "exchange" /\ call'[d].pc # "verify")
    BY <1>1, <1>3, ReplyType
  <2> QED
    BY <1>1, <1>2, <2>1, TimesKept, CodesKept, OwnersKept
<1>4. ASSUME NEW g \in Sso!Taken,
             call' = [call EXCEPT ![c] = [pc |-> "exchange", url |-> f, flow |-> g, jar |-> jar, since |-> instant]]
      PROVE  FlowsInv' /\ ExchangeInv' /\ CodeInv' /\ OwnerInv'
  <2>1. /\ call'[c].pc = "exchange" /\ call'[c].flow = g /\ call'[c].since = instant
        /\ \A d \in Callbacks \ {c} : call'[d] = call[d]
    BY <1>1, <1>4 DEF Sso!TypeOK
  <2>2. flow[g].started /\ instant - flow[g].at <= FlowTtl
    BY <1>1 DEF Sso!Taken, FlowsInv
  <2>3. instant <= instant /\ instant - instant <= Latency
    BY <1>1 DEF Sso!TypeOK, Sso!Times, Sso!BoundsAssumption
  <2>4. ExchangeInv'
    BY <1>1, <1>2, <2>1, <2>2, <2>3 DEF ExchangeInv
  <2>5. FlowsInv'
    BY <1>1, <1>2 DEF FlowsInv
  <2>6. \A d \in Callbacks : call'[d] = call[d] \/ call'[d].pc # "verify"
    BY <2>1
  <2> QED
    BY <1>1, <1>2, <2>4, <2>5, <2>6, CodesKept, OwnersKept
<1> QED
  BY <1>3, <1>4 DEF Sso!Callback

\* A code is exchanged for nothing, or the mailbox refuses, or an answer arrives.
LEMMA EndsStep ==
  ASSUME Sso!BoundsAssumption, OidcInv, NEW c \in Callbacks,
         Sso!ExchangeFails(c) \/ Sso!Refused(c) \/ Sso!Respond(c)
  PROVE  FlowsInv' /\ ExchangeInv' /\ CodeInv' /\ OwnerInv'
<1>1. Sso!TypeOK /\ FlowsInv /\ ExchangeInv /\ CodeInv /\ OwnerInv
  BY DEF OidcInv
<1>2. UNCHANGED <<instant, flow, session, pending>> /\ flowJar' \subseteq flowJar
  BY DEF Sso!ExchangeFails, Sso!Refused, Sso!Respond
<1>3. \A d \in Callbacks : call'[d] = call[d] \/ (call'[d].pc # "exchange" /\ call'[d].pc # "verify")
  <2>1. CASE Sso!Reply(c, {})
    BY <1>1, <2>1, ReplyType
  <2>2. CASE call' = [call EXCEPT ![c] = Sso!NoCall("done")]
    BY <1>1, <2>2 DEF Sso!TypeOK, Sso!NoCall
  <2> QED
    BY <2>1, <2>2 DEF Sso!ExchangeFails, Sso!Refused, Sso!Respond
<1>4. \A g \in Flows : grant[g].state = "used" => grant'[g] = grant[g]
  <2>1. CASE Sso!ExchangeFails(c)
    <3>1. call[c].flow \in Flows
      BY <1>1, <2>1, CallFields DEF Sso!ExchangeFails
    <3>2. grant' = grant \/ grant' = [grant EXCEPT ![call[c].flow].state = "used"]
      BY <2>1 DEF Sso!ExchangeFails
    <3> QED
      BY <1>1, <3>1, <3>2, CodeUsed
  <2> QED
    BY <2>1 DEF Sso!Refused, Sso!Respond
<1> QED
  BY <1>1, <1>2, <1>3, <1>4, TimesKept, CodesKept, OwnersKept

LEMMA LoginStep ==
  ASSUME Sso!BoundsAssumption, OidcInv, NEW c \in Callbacks, Sso!Login(c)
  PROVE  FlowsInv' /\ ExchangeInv' /\ CodeInv' /\ OwnerInv'
<1>1. Sso!TypeOK /\ FlowsInv /\ ExchangeInv /\ CodeInv /\ OwnerInv
  BY DEF OidcInv
<1> DEFINE f == call[c].flow
<1>2. /\ UNCHANGED <<instant, flowJar, flow, session, pending>> /\ grant[f].state = "issued"
      /\ grant' = [grant EXCEPT ![f].state = "used"]
      /\ call' = [call EXCEPT ![c] = [pc |-> "verify", flow |-> f]]
  BY DEF Sso!Login, Sso!Matches
<1>3. f \in Flows
  BY <1>1, CallFields DEF Sso!Login
<1>4. /\ call'[c].pc = "verify" /\ call'[c].flow = f
      /\ \A d \in Callbacks \ {c} : call'[d] = call[d]
  BY <1>1, <1>2 DEF Sso!TypeOK
<1>5. /\ \A g \in Flows : grant[g].state = "used" => grant'[g].state = "used" /\ grant'[g] = grant[g]
      /\ grant'[f].state = "used"
  <2> HIDE DEF f
  <2> QED
    BY <1>1, <1>2, <1>3, CodeUsed
<1> HIDE DEF f
<1>6. CodeInv'
  <2>1. \A d \in Callbacks : call[d].pc = "verify" => call[d].flow \in Flows /\ call[d].flow # f
    BY <1>1, <1>2, CallFields DEF CodeInv
  <2>2. f \notin pending /\ \A s \in Granted : f \notin session[s].flow
    BY <1>1, <1>2 DEF CodeInv
  <2>3. pending \subseteq Flows /\ \A s \in Granted : session[s].flow \subseteq Flows
    BY <1>1 DEF Sso!TypeOK
  <2>4. ASSUME NEW d \in Callbacks, call'[d].pc = "verify"
        PROVE  /\ grant'[call'[d].flow].state = "used" /\ call'[d].flow \notin pending
               /\ \A s \in Granted : call'[d].flow \notin session[s].flow
               /\ \A e \in Callbacks : call'[e].pc = "verify" /\ call'[e].flow = call'[d].flow => d = e
    <3>1. CASE d = c
      BY <1>4, <1>5, <2>1, <2>2, <3>1
    <3>2. CASE d # c
      <4>1. call'[d] = call[d]
        BY <1>4, <3>2
      <4> QED
        BY <1>1, <1>4, <1>5, <2>1, <2>4, <4>1 DEF CodeInv
    <3> QED
      BY <3>1, <3>2
  <2> QED
    BY <1>1, <1>2, <1>5, <2>3, <2>4 DEF CodeInv, Sso!OneSessionPerCode
<1>7. \A d \in Callbacks : call'[d] = call[d] \/ call'[d].pc # "exchange"
  BY <1>4
<1>8. FlowsInv' /\ ExchangeInv'
  BY <1>1, <1>2, <1>7, TimesKept
<1>9. OwnerInv'
  BY <1>1, <1>2, <1>5, OwnersKept
<1> QED
  BY <1>6, <1>8, <1>9

LEMMA ReauthenticateStep ==
  ASSUME Sso!BoundsAssumption, OidcInv, NEW c \in Callbacks, Sso!Reauthenticate(c)
  PROVE  FlowsInv' /\ ExchangeInv' /\ CodeInv' /\ OwnerInv'
<1>1. Sso!TypeOK /\ FlowsInv /\ ExchangeInv /\ CodeInv /\ OwnerInv
  BY DEF OidcInv
<1> DEFINE k == call[c].jar.sid
<1>0. PICK f \in Flows : f = call[c].flow
  BY <1>1, CallFields DEF Sso!Reauthenticate
<1>2. /\ UNCHANGED <<instant, flowJar, flow, pending>> /\ flow[f].reauth /\ call[c].pc = "exchange"
      /\ grant' = [grant EXCEPT ![f].state = "used"]
      /\ \/ session' = session
         \/ /\ session' = [session EXCEPT ![k].reauthAt = instant]
            /\ session[k].user = grant[f].user /\ grant[f].at >= flow[f].at - Skew
  BY <1>0 DEF Sso!Reauthenticate, Sso!SameUser, Sso!Recent
<1>3. call[c].since \in Sso!Times
  BY <1>1, <1>2, CallFields
<1>4. \A d \in Callbacks : call'[d] = call[d] \/ (call'[d].pc # "exchange" /\ call'[d].pc # "verify")
  BY <1>1, ReplyType DEF Sso!Reauthenticate
<1>5. instant - flow[f].at <= FlowTtl + Latency
  <2>1. call[c].since - flow[f].at <= FlowTtl /\ instant - call[c].since <= Latency
    BY <1>0, <1>1, <1>2 DEF ExchangeInv
  <2>2. instant \in Int /\ flow[f].at \in Int /\ call[c].since \in Int /\ FlowTtl \in Int /\ Latency \in Int
    BY <1>1, <1>3 DEF Sso!TypeOK, Sso!Times, Sso!BoundsAssumption
  <2> QED
    BY <2>1, <2>2
<1> HIDE DEF k
<1>6. /\ \A g \in Flows : grant[g].state = "used" => grant'[g].state = "used" /\ grant'[g] = grant[g]
      /\ grant'[f].state = "used" /\ grant'[f].user = grant[f].user /\ grant'[f].at = grant[f].at
  BY <1>1, <1>2, <1>3, CodeUsed
<1>7. CASE session' = session
  BY <1>1, <1>2, <1>4, <1>6, <1>7, TimesKept, CodesKept, OwnersKept
<1>8. CASE /\ session' = [session EXCEPT ![k].reauthAt = instant]
           /\ session[k].user = grant[f].user /\ grant[f].at >= flow[f].at - Skew
  <2>1. /\ \A s \in Granted : session'[s].flow = session[s].flow /\ session'[s].user = session[s].user
        /\ \A s \in Granted \ {k} : session'[s] = session[s]
        /\ k \in Granted => session'[k].reauthAt = instant
    BY <1>1, <1>8 DEF Sso!TypeOK
  <2>2. CodeInv' /\ FlowsInv' /\ ExchangeInv'
    BY <1>1, <1>2, <1>4, <1>6, <2>1, TimesKept, CodesKept
  <2>3. ASSUME NEW s \in Granted, session'[s].reauthAt # Never
        PROVE  (\E g \in Flows : Origin(g, session[s].user, session[s].reauthAt))'
    <3>1. CASE s = k
      <4>1. Origin(f, session[s].user, session[s].reauthAt)'
        BY <1>2, <1>5, <1>6, <1>8, <2>1, <3>1 DEF Origin
      <4> QED
        BY <4>1
    <3>2. CASE s # k
      <4>1. PICK g \in Flows : Origin(g, session[s].user, session[s].reauthAt)
        BY <1>1, <2>1, <2>3, <3>2 DEF OwnerInv
      <4>2. grant'[g] = grant[g] /\ flow'[g] = flow[g] /\ session'[s] = session[s]
        BY <1>2, <1>6, <2>1, <3>2, <4>1 DEF Origin
      <4> QED
        BY <4>1, <4>2 DEF Origin
    <3> QED
      BY <3>1, <3>2
  <2> QED
    BY <2>2, <2>3 DEF OwnerInv
<1> QED
  BY <1>2, <1>7, <1>8

\* A session is opened on what a code was exchanged for, which then is nowhere else.
LEMMA OpenStep ==
  ASSUME OidcInv, NEW s \in Granted, NEW f \in Flows, Sso!Open(s, f), UNCHANGED grant,
         grant[f].state = "used", \A t \in Granted : f \notin session[t].flow,
         \A c \in Callbacks : call'[c].pc = "verify" => call'[c] = call[c] /\ call[c].flow # f,
         pending' = pending \ {f}, UNCHANGED flow
  PROVE  CodeInv' /\ OwnerInv'
<1>1. Sso!TypeOK /\ CodeInv /\ OwnerInv
  BY DEF OidcInv
<1>2. /\ session'[s].flow = {f} /\ session'[s].reauthAt = Never
      /\ \A t \in Granted \ {s} : session'[t] = session[t]
  BY <1>1, OpenType
<1>3. OwnerInv'
  BY <1>1, <1>2, OwnersKept
<1>4. \A t \in Granted : session'[t].flow \subseteq session[t].flow \union {f}
  BY <1>2
<1>5. Sso!OneSessionPerCode'
  BY <1>1, <1>2 DEF CodeInv, Sso!OneSessionPerCode
<1>6. \A t \in Granted : \A g \in session'[t].flow : grant'[g].state = "used"
  BY <1>1, <1>2 DEF CodeInv
<1>7. \A g \in pending' : grant'[g].state = "used" /\ \A t \in Granted : g \notin session'[t].flow
  BY <1>1, <1>4 DEF CodeInv
<1>8. \A c \in Callbacks : call'[c].pc = "verify" =>
        /\ grant'[call'[c].flow].state = "used" /\ call'[c].flow \notin pending'
        /\ \A t \in Granted : call'[c].flow \notin session'[t].flow
        /\ \A d \in Callbacks : call'[d].pc = "verify" /\ call'[d].flow = call'[c].flow => c = d
  BY <1>1, <1>4 DEF CodeInv
<1> QED
  BY <1>3, <1>5, <1>6, <1>7, <1>8 DEF CodeInv

LEMMA AcceptedStep ==
  ASSUME Sso!BoundsAssumption, OidcInv, NEW c \in Callbacks, Sso!Accepted(c)
  PROVE  FlowsInv' /\ ExchangeInv' /\ CodeInv' /\ OwnerInv'
<1>1. Sso!TypeOK /\ FlowsInv /\ ExchangeInv /\ CodeInv /\ OwnerInv
  BY DEF OidcInv
<1> DEFINE f == call[c].flow
<1>2. UNCHANGED <<instant, flowJar, flow, grant>> /\ call[c].pc = "verify"
  BY DEF Sso!Accepted
<1>3. f \in Flows
  BY <1>1, <1>2, CallFields
<1>4. /\ grant[f].state = "used" /\ f \notin pending /\ \A t \in Granted : f \notin session[t].flow
      /\ \A d \in Callbacks \ {c} : call[d].pc = "verify" => call[d].flow # f
  BY <1>1, <1>2 DEF CodeInv
<1>5. ASSUME NEW ks \in SUBSET Sso!Cookie, Sso!Reply(c, ks)
      PROVE  /\ FlowsInv' /\ ExchangeInv'
             /\ \A d \in Callbacks : call'[d].pc = "verify" => call'[d] = call[d] /\ call[d].flow # f
  <2>1. call'[c].pc = "reply" /\ \A d \in Callbacks \ {c} : call'[d] = call[d]
    BY <1>1, <1>5, ReplyType
  <2>2. \A d \in Callbacks : call'[d] = call[d] \/ call'[d].pc # "exchange"
    BY <2>1
  <2> QED
    BY <1>1, <1>2, <1>4, <2>1, <2>2, TimesKept
<1>6. CASE \E s \in Granted : Sso!Open(s, f) /\ Sso!Reply(c, {[kind |-> "session", sid |-> s]}) /\ UNCHANGED pending
  <2>1. PICK s \in Granted : Sso!Open(s, f) /\ Sso!Reply(c, {[kind |-> "session", sid |-> s]}) /\ UNCHANGED pending
    BY <1>6
  <2>2. {[kind |-> "session", sid |-> s]} \in SUBSET Sso!Cookie
    BY DEF Sso!Cookie
  <2>3. /\ FlowsInv' /\ ExchangeInv'
        /\ \A d \in Callbacks : call'[d].pc = "verify" => call'[d] = call[d] /\ call[d].flow # f
    BY <1>5, <2>1, <2>2
  <2>4. pending' = pending \ {f}
    BY <1>4, <2>1
  <2> HIDE DEF f
  <2> QED
    BY <1>2, <1>3, <1>4, <2>1, <2>3, <2>4, OpenStep
<1>7. CASE pending' = pending \union {f} /\ Sso!Reply(c, {[kind |-> "pending", flow |-> f]}) /\ UNCHANGED session
  <2>1. {[kind |-> "pending", flow |-> f]} \in SUBSET Sso!Cookie
    BY <1>3 DEF Sso!Cookie
  <2>2. /\ FlowsInv' /\ ExchangeInv'
        /\ \A d \in Callbacks : call'[d].pc = "verify" => call'[d] = call[d] /\ call[d].flow # f
    BY <1>5, <1>7, <2>1
  <2> HIDE DEF f
  <2>3. CodeInv'
    BY <1>1, <1>2, <1>4, <1>7, <2>2 DEF CodeInv, Sso!OneSessionPerCode
  <2>4. OwnerInv'
    BY <1>1, <1>2, <1>7, OwnersKept
  <2> QED
    BY <2>2, <2>3, <2>4
<1> QED
  BY <1>6, <1>7 DEF Sso!Accepted

LEMMA SecondFactorStep ==
  ASSUME Sso!BoundsAssumption, OidcInv, Sso!SecondFactor
  PROVE  FlowsInv' /\ ExchangeInv' /\ CodeInv' /\ OwnerInv'
<1>1. Sso!TypeOK /\ FlowsInv /\ ExchangeInv /\ CodeInv /\ OwnerInv
  BY DEF OidcInv
<1> DEFINE f == jar.flow
<1>2. /\ f \in pending /\ pending' = pending \ {f}
      /\ UNCHANGED <<instant, flowJar, flow, grant, call>>
  BY DEF Sso!SecondFactor
<1>3. PICK s \in Granted : Sso!Open(s, f)
  BY DEF Sso!SecondFactor
<1>4. /\ f \in Flows /\ grant[f].state = "used" /\ \A t \in Granted : f \notin session[t].flow
      /\ \A c \in Callbacks : call[c].pc = "verify" => call[c].flow # f
  BY <1>1, <1>2 DEF CodeInv, Sso!TypeOK
<1> HIDE DEF f
<1>5. CodeInv' /\ OwnerInv'
  BY <1>2, <1>3, <1>4, OpenStep
<1> QED
  BY <1>1, <1>2, <1>5, TimesKept

LEMMA LogoutStep ==
  ASSUME Sso!BoundsAssumption, OidcInv, Sso!Logout
  PROVE  FlowsInv' /\ ExchangeInv' /\ CodeInv' /\ OwnerInv'
<1>1. Sso!TypeOK /\ FlowsInv /\ ExchangeInv /\ CodeInv /\ OwnerInv
  BY DEF OidcInv
<1> DEFINE k == jar.sid
<1>2. /\ session' = [session EXCEPT ![k].state = "gone"]
      /\ UNCHANGED <<instant, flowJar, flow, grant, call, pending>>
  BY DEF Sso!Logout
<1> HIDE DEF k
<1>3. \A s \in Granted : /\ session'[s].flow = session[s].flow /\ session'[s].user = session[s].user
                      /\ session'[s].reauthAt = session[s].reauthAt
  BY <1>1, <1>2 DEF Sso!TypeOK
<1> QED
  BY <1>1, <1>2, <1>3, TimesKept, CodesKept, OwnersKept

LEMMA OidcNext ==
  ASSUME Sso!BoundsAssumption, OidcInv, [Sso!Next]_(Sso!vars)
  PROVE  OidcInv'
<1>1. Sso!TypeOK'
  BY OidcTypes DEF OidcInv
<1>2. CASE Sso!Next
  BY <1>1, <1>2, TickStep, SecondFactorStep, LogoutStep, StartStep, ProviderStep, CallbackStep, EndsStep,
     LoginStep, ReauthenticateStep, AcceptedStep DEF Sso!Next, OidcInv
<1>3. CASE UNCHANGED Sso!vars
  <2>1. UNCHANGED <<instant, flowJar, flow, grant, call, session, pending>>
    BY <1>3 DEF Sso!vars
  <2> QED
    BY <1>1, <2>1, TimesKept, CodesKept, OwnersKept DEF OidcInv
<1> QED
  BY <1>2, <1>3

\* A code opens one session, and while the actions of a session are confirmed its owner was
\* identified by the provider not long ago: for any tabs, demands, delays and lost answers.
THEOREM OidcSoundCorrect ==
  ASSUME Sso!BoundsAssumption
  PROVE  Sso!Spec => []OidcSound
<1>1. Sso!Init => OidcInv
  <2> SUFFICES ASSUME Sso!Init PROVE OidcInv
    OBVIOUS
  <2>1. Sso!TypeOK
    BY DEF Sso!Init, Sso!TypeOK, Sso!Times, Sso!BoundsAssumption, Sso!Cookie, Sso!Call
  <2>2. \A c \in Callbacks : call[c].pc = "idle"
    BY DEF Sso!Init, Sso!NoCall
  <2> QED
    BY <2>1, <2>2 DEF Sso!Init, OidcInv, FlowsInv, ExchangeInv, CodeInv, OwnerInv, Sso!OneSessionPerCode
<1>2. OidcInv /\ [Sso!Next]_(Sso!vars) => OidcInv'
  BY OidcNext
<1>3. OidcInv => OidcSound
  <2> SUFFICES ASSUME OidcInv PROVE Sso!ConfirmedByOwner
    BY DEF OidcSound, OidcInv, CodeInv
  <2>1. ASSUME NEW s \in Granted, Sso!Confirmed(s)
        PROVE  \E f \in Flows :
                 /\ flow[f].reauth /\ grant[f].state = "used" /\ grant[f].user = session[s].user
                 /\ instant - grant[f].at < ReauthWindow + FlowTtl + Skew + Latency
    <3>1. PICK f \in Flows : Origin(f, session[s].user, session[s].reauthAt)
      BY <2>1 DEF Sso!Confirmed, OidcInv, OwnerInv
    <3>2. /\ session[s].reauthAt \in Int /\ instant \in Int /\ grant[f].at \in Int /\ flow[f].at \in Int
          /\ {FlowTtl, Skew, ReauthWindow, Latency} \subseteq Int
      BY <2>1 DEF OidcInv, Sso!TypeOK, Sso!Times, Sso!BoundsAssumption, Sso!Confirmed
    <3>3. instant - grant[f].at < ReauthWindow + FlowTtl + Skew + Latency
      BY <2>1, <3>1, <3>2 DEF Sso!Confirmed, Origin
    <3> QED
      BY <3>1, <3>3 DEF Origin
  <2> QED
    BY <2>1 DEF Sso!ConfirmedByOwner
<1> QED
  BY <1>1, <1>2, <1>3, PTL DEF Sso!Spec

----------------------------------------------------------------------------
(***************************************************************************)
(* What the server keeps of an owner: OwnerData, for any accounts.         *)
(*                                                                         *)
(* Of the rows of an owner exactly one is the default one, unless there    *)
(* are none: each operation of the store keeps that of the rows it reads.  *)
(* The mailboxes are those of the accounts because no account appears      *)
(* twice in the map, which a new one is not in.                            *)
(***************************************************************************)

\* One row is the default one.
OneOf(rows) ==
  \E k \in DOMAIN rows : rows[k] = TRUE /\ \A j \in DOMAIN rows : rows[j] = TRUE => j = k

\* What the store holds of an owner.
RowsSound(rows) ==
  /\ rows \in Seq(BOOLEAN) /\ Len(rows) <= MaxIdentities
  /\ rows = <<>> \/ OneOf(rows)

Distinct(line) == \A i, j \in DOMAIN line : line[i] = line[j] => i = j

Members(line) == {line[i] : i \in DOMAIN line}

LEMMA SeqFacts ==
  ASSUME NEW S, NEW s \in Seq(S)
  PROVE  Len(s) \in Nat /\ DOMAIN s = 1..Len(s) /\ \A i \in 1..Len(s) : s[i] \in S
BY LenProperties, ElementOfSeq

\* A function on 1..n is a sequence of length n.
LEMMA FunctionIsSeq ==
  ASSUME NEW S, NEW n \in Nat, NEW f \in [1..n -> S]
  PROVE  f \in Seq(S) /\ Len(f) = n
<1>1. f \in Seq(S)
  BY SeqDef
<1>2. DOMAIN f = 1..Len(f) /\ Len(f) \in Nat /\ DOMAIN f = 1..n
  BY <1>1, SeqFacts
<1>3. Len(f) = n
  BY <1>2, SMT
<1> QED
  BY <1>1, <1>3

\* The rows without their default one.
LEMMA NoDefaultRows ==
  ASSUME NEW rows \in Seq(BOOLEAN)
  PROVE  /\ Data!NoDefault(rows) \in Seq(BOOLEAN) /\ Len(Data!NoDefault(rows)) = Len(rows)
         /\ DOMAIN Data!NoDefault(rows) = 1..Len(rows)
         /\ \A k \in 1..Len(rows) : Data!NoDefault(rows)[k] = FALSE
<1>1. Len(rows) \in Nat /\ DOMAIN rows = 1..Len(rows)
  BY SeqFacts
<1>2. Data!NoDefault(rows) = [k \in 1..Len(rows) |-> FALSE]
  BY <1>1 DEF Data!NoDefault
<1>3. [k \in 1..Len(rows) |-> FALSE] \in [1..Len(rows) -> BOOLEAN]
  OBVIOUS
<1>4. Data!NoDefault(rows) \in [1..Len(rows) -> BOOLEAN]
  BY <1>2, <1>3, Zenon
<1>5. \A k \in 1..Len(rows) : Data!NoDefault(rows)[k] = FALSE
  BY <1>2
<1>6. Data!NoDefault(rows) \in Seq(BOOLEAN) /\ Len(Data!NoDefault(rows)) = Len(rows)
  BY <1>1, <1>4, FunctionIsSeq
<1> QED
  BY <1>2, <1>5, <1>6

\* A row is added to rows without a default one, as the default one.
LEMMA DefaultAppended ==
  ASSUME NEW rows \in Seq(BOOLEAN), \A k \in 1..Len(rows) : rows[k] = FALSE,
         Len(rows) < MaxIdentities, MaxIdentities \in Nat
  PROVE  RowsSound(Append(rows, TRUE))
<1> DEFINE all == Append(rows, TRUE)
<1>1. /\ all \in Seq(BOOLEAN) /\ Len(all) = Len(rows) + 1 /\ Len(rows) \in Nat
      /\ \A i \in 1..Len(rows) : all[i] = rows[i]
      /\ all[Len(rows) + 1] = TRUE
  BY AppendProperties, SeqFacts
<1>2. DOMAIN all = 1..(Len(rows) + 1)
  BY <1>1, SeqFacts
<1> HIDE DEF all
<1>3. ASSUME NEW j \in DOMAIN all, all[j] = TRUE, j # Len(rows) + 1
      PROVE  FALSE
  <2>1. j \in 1..Len(rows)
    BY <1>1, <1>2, <1>3
  <2> QED
    BY <1>1, <1>3, <2>1
<1>4. Len(rows) + 1 \in DOMAIN all /\ Len(all) <= MaxIdentities
  BY <1>1, <1>2
<1>5. OneOf(all)
  BY <1>1, <1>3, <1>4 DEF OneOf
<1>6. RowsSound(all)
  BY <1>1, <1>4, <1>5 DEF RowsSound
<1> QED
  BY <1>6 DEF all

\* A row is added that is not the default one.
LEMMA RowAppended ==
  ASSUME NEW rows, RowsSound(rows), rows # <<>>, Len(rows) < MaxIdentities, MaxIdentities \in Nat
  PROVE  RowsSound(Append(rows, FALSE))
<1> DEFINE all == Append(rows, FALSE)
<1>1. /\ rows \in Seq(BOOLEAN) /\ all \in Seq(BOOLEAN) /\ Len(all) = Len(rows) + 1 /\ Len(rows) \in Nat
      /\ \A i \in 1..Len(rows) : all[i] = rows[i]
      /\ all[Len(rows) + 1] = FALSE
  BY AppendProperties, SeqFacts DEF RowsSound
<1>2. DOMAIN all = 1..(Len(rows) + 1) /\ DOMAIN rows = 1..Len(rows)
  BY <1>1, SeqFacts
<1> HIDE DEF all
<1>3. PICK k \in DOMAIN rows : rows[k] = TRUE /\ \A j \in DOMAIN rows : rows[j] = TRUE => j = k
  BY DEF RowsSound, OneOf
<1>4. k \in DOMAIN all /\ all[k] = TRUE
  BY <1>1, <1>2, <1>3
<1>5. ASSUME NEW j \in DOMAIN all, all[j] = TRUE
      PROVE  j = k
  <2>1. CASE j \in 1..Len(rows)
    BY <1>1, <1>2, <1>3, <1>5, <2>1
  <2>2. CASE j = Len(rows) + 1
    BY <1>1, <1>5, <2>2
  <2> QED
    BY <1>1, <1>2, <2>1, <2>2
<1>6. OneOf(all)
  BY <1>4, <1>5 DEF OneOf
<1>7. Len(all) <= MaxIdentities
  BY <1>1
<1>8. RowsSound(all)
  BY <1>1, <1>6, <1>7 DEF RowsSound
<1> QED
  BY <1>8 DEF all

\* The default one is put where there is none.
LEMMA DefaultPut ==
  ASSUME NEW rows \in Seq(BOOLEAN), NEW k \in DOMAIN rows, Len(rows) <= MaxIdentities,
         \A j \in DOMAIN rows : j # k => rows[j] = FALSE
  PROVE  RowsSound([rows EXCEPT ![k] = TRUE])
<1> DEFINE put == [rows EXCEPT ![k] = TRUE]
<1>1. k \in 1..Len(rows) /\ DOMAIN rows = 1..Len(rows)
  BY SeqFacts
<1>2. /\ put \in Seq(BOOLEAN) /\ Len(put) = Len(rows)
      /\ \A j \in 1..Len(rows) : put[j] = IF j = k THEN TRUE ELSE rows[j]
  BY <1>1, ExceptSeq
<1>3. DOMAIN put = 1..Len(rows)
  BY <1>2, SeqFacts
<1> HIDE DEF put
<1>4. put[k] = TRUE
  BY <1>1, <1>2, Zenon
<1>5. ASSUME NEW j \in DOMAIN put, put[j] = TRUE, j # k
      PROVE  FALSE
  <2>1. put[j] = rows[j]
    BY <1>2, <1>3, <1>5, Zenon
  <2>2. rows[j] = FALSE
    BY <1>1, <1>3, <1>5
  <2> QED
    BY <1>5, <2>1, <2>2
<1>6. OneOf(put)
  BY <1>1, <1>3, <1>4, <1>5 DEF OneOf
<1>7. RowsSound(put)
  BY <1>2, <1>6 DEF RowsSound
<1> QED
  BY <1>7 DEF put

LEMMA UpdatedRows ==
  ASSUME NEW rows, RowsSound(rows), NEW k \in DOMAIN rows, NEW d \in BOOLEAN
  PROVE  RowsSound(Data!Updated(rows, k, d))
<1>1. rows \in Seq(BOOLEAN) /\ Len(rows) <= MaxIdentities /\ k \in 1..Len(rows) /\ DOMAIN rows = 1..Len(rows)
  BY SeqFacts DEF RowsSound
<1>2. CASE d = TRUE
  <2> DEFINE none == Data!NoDefault(rows)
             put == [none EXCEPT ![k] = TRUE]
  <2>1. /\ none \in Seq(BOOLEAN) /\ Len(none) = Len(rows) /\ DOMAIN none = 1..Len(rows)
        /\ \A j \in 1..Len(rows) : none[j] = FALSE
    BY <1>1, NoDefaultRows
  <2> HIDE DEF none
  <2>2. RowsSound(put)
    BY <1>1, <2>1, DefaultPut
  <2>3. TRUE \in Data!Range(put)
    <3>1. put[k] = TRUE /\ k \in DOMAIN put
      BY <1>1, <2>1
    <3> QED
      BY <3>1 DEF Data!Range
  <2>4. Data!Updated(rows, k, d) = put
    BY <1>2, <2>3 DEF Data!Updated, none
  <2> QED
    BY <2>2, <2>4
<1>3. CASE d = FALSE
  <2> DEFINE cleared == [rows EXCEPT ![k] = FALSE]
  <2>1. /\ cleared \in Seq(BOOLEAN) /\ Len(cleared) = Len(rows)
        /\ \A j \in 1..Len(rows) : cleared[j] = IF j = k THEN FALSE ELSE rows[j]
    BY <1>1, ExceptSeq
  <2>2. DOMAIN cleared = 1..Len(rows) /\ \A j \in 1..Len(rows) : cleared[j] \in BOOLEAN
    BY <2>1, SeqFacts
  <2>3. Data!Updated(rows, k, d) = IF TRUE \in Data!Range(cleared) THEN cleared ELSE [cleared EXCEPT ![k] = TRUE]
    BY <1>3 DEF Data!Updated
  <2> HIDE DEF cleared
  <2>4. CASE TRUE \in Data!Range(cleared)
    <3>1. PICK j \in DOMAIN cleared : cleared[j] = TRUE
      BY <2>4 DEF Data!Range
    <3>2. rows # <<>>
      BY <1>1
    <3>3. PICK one \in DOMAIN rows : rows[one] = TRUE /\ \A i \in DOMAIN rows : rows[i] = TRUE => i = one
      BY <3>2 DEF RowsSound, OneOf
    <3>4. \A i \in DOMAIN cleared : cleared[i] = TRUE => rows[i] = TRUE /\ i \in DOMAIN rows
      <4> SUFFICES ASSUME NEW i \in DOMAIN cleared, cleared[i] = TRUE PROVE rows[i] = TRUE
        BY <1>1, <2>2
      <4>1. i # k
        BY <2>1, <2>2, Zenon
      <4> QED
        BY <2>1, <2>2, <4>1, Zenon
    <3>5. j = one /\ \A i \in DOMAIN cleared : cleared[i] = TRUE => i = one
      BY <3>1, <3>3, <3>4, Zenon
    <3>6. OneOf(cleared)
      BY <3>1, <3>5, Zenon DEF OneOf
    <3>7. RowsSound(cleared)
      BY <1>1, <2>1, <3>6 DEF RowsSound
    <3> QED
      BY <2>3, <2>4, <3>7
  <2>5. CASE TRUE \notin Data!Range(cleared)
    <3>1. \A j \in DOMAIN cleared : cleared[j] = FALSE
      <4> SUFFICES ASSUME NEW j \in DOMAIN cleared PROVE cleared[j] = FALSE
        OBVIOUS
      <4>1. cleared[j] \in Data!Range(cleared)
        BY DEF Data!Range
      <4>2. cleared[j] \in BOOLEAN
        BY <2>2
      <4> QED
        BY <4>1, <4>2, <2>5, Zenon
    <3>2. RowsSound([cleared EXCEPT ![k] = TRUE])
      BY <1>1, <2>1, <2>2, <3>1, DefaultPut
    <3> QED
      BY <2>3, <2>5, <3>2
  <2> QED
    BY <2>4, <2>5
<1> QED
  BY <1>2, <1>3, Zenon

\* What is left of rows of which one is deleted.
LEMMA RestOfRows ==
  ASSUME NEW rows \in Seq(BOOLEAN), NEW k \in 1..Len(rows)
  PROVE  /\ Data!RemoveAt(rows, k) \in Seq(BOOLEAN) /\ Len(Data!RemoveAt(rows, k)) = Len(rows) - 1
         /\ \A i \in 1..(Len(rows) - 1) :
              /\ i < k => Data!RemoveAt(rows, k)[i] = rows[i]
              /\ k <= i => Data!RemoveAt(rows, k)[i] = rows[i + 1]
<1> DEFINE first == SubSeq(rows, 1, k - 1)
           last == SubSeq(rows, k + 1, Len(rows))
           n == Len(rows)
<1>1. n \in Nat /\ k \in Int /\ 1 <= k /\ k <= n /\ \A i \in 1..n : rows[i] \in BOOLEAN
  BY SeqFacts
<1> HIDE DEF n
<1>2. /\ first \in Seq(BOOLEAN) /\ Len(first) = k - 1
      /\ \A i \in 1..(k - 1) : first[i] = rows[i]
  <2>1. \A i \in 1..(k - 1) : i \in 1..n /\ 1 + i - 1 = i
    BY <1>1
  <2>2. 1 \in Int /\ k - 1 \in Int /\ \A i \in 1..(k - 1) : rows[i] \in BOOLEAN
    BY <1>1, <2>1
  <2>3. /\ first \in Seq(BOOLEAN) /\ Len(first) = IF 1 <= k - 1 THEN k - 1 - 1 + 1 ELSE 0
        /\ \A i \in 1..(k - 1 - 1 + 1) : first[i] = rows[1 + i - 1]
    BY <2>2, SubSeqProperties
  <2>4. k - 1 - 1 + 1 = k - 1 /\ (~(1 <= k - 1) => k - 1 = 0)
    BY <1>1
  <2> HIDE DEF first
  <2> QED
    BY <2>1, <2>3, <2>4
<1>3. /\ last \in Seq(BOOLEAN) /\ Len(last) = n - k
      /\ \A i \in 1..(n - k) : last[i] = rows[k + i]
  <2>1. \A i \in (k + 1)..n : i \in 1..n
    BY <1>1
  <2>2. k + 1 \in Int /\ n \in Int /\ \A i \in (k + 1)..n : rows[i] \in BOOLEAN
    BY <1>1, <2>1
  <2>3. /\ last \in Seq(BOOLEAN) /\ Len(last) = IF k + 1 <= n THEN n - (k + 1) + 1 ELSE 0
        /\ \A i \in 1..(n - (k + 1) + 1) : last[i] = rows[k + 1 + i - 1]
    BY <2>2, SubSeqProperties DEF n
  <2>4. n - (k + 1) + 1 = n - k /\ (~(k + 1 <= n) => n - k = 0)
    BY <1>1
  <2>5. \A i \in 1..(n - k) : k + 1 + i - 1 = k + i
    BY <1>1
  <2> HIDE DEF last
  <2> QED
    BY <2>3, <2>4, <2>5
<1> HIDE DEF first, last
<1>4. /\ first \o last \in Seq(BOOLEAN) /\ Len(first \o last) = Len(first) + Len(last)
      /\ \A i \in 1..(Len(first) + Len(last)) :
           (first \o last)[i] = IF i <= Len(first) THEN first[i] ELSE last[i - Len(first)]
  BY <1>2, <1>3, ConcatProperties
<1>5. Data!RemoveAt(rows, k) = first \o last
  BY DEF Data!RemoveAt, first, last
<1>6. Len(first) + Len(last) = n - 1
  BY <1>1, <1>2, <1>3
<1>7. ASSUME NEW i \in 1..(n - 1)
      PROVE  /\ i < k => (first \o last)[i] = rows[i]
             /\ k <= i => (first \o last)[i] = rows[i + 1]
  <2>1. CASE i < k
    <3>1. i <= Len(first) /\ i \in 1..(k - 1)
      BY <1>1, <1>2, <2>1
    <3>2. (first \o last)[i] = first[i]
      BY <1>4, <1>6, <3>1
    <3> QED
      BY <1>1, <1>2, <2>1, <3>1, <3>2
  <2>2. CASE k <= i
    <3>1. ~(i <= Len(first)) /\ i - Len(first) \in 1..(n - k) /\ k + (i - Len(first)) = i + 1
      BY <1>1, <1>2, <2>2
    <3>2. (first \o last)[i] = last[i - Len(first)]
      BY <1>4, <1>6, <3>1
    <3>3. last[i - Len(first)] = rows[i + 1]
      BY <1>3, <3>1
    <3> QED
      BY <1>1, <2>2, <3>2, <3>3
  <2> QED
    BY <1>1, <2>1, <2>2
<1> QED
  BY <1>4, <1>5, <1>6, <1>7 DEF n

LEMMA RemovedRows ==
  ASSUME NEW rows, RowsSound(rows), NEW k \in DOMAIN rows, MaxIdentities \in Nat
  PROVE  RowsSound(Data!Removed(rows, k))
<1> DEFINE rest == Data!RemoveAt(rows, k)
           n == Len(rows)
<1>1. rows \in Seq(BOOLEAN) /\ n \in Nat /\ n <= MaxIdentities /\ k \in 1..n /\ DOMAIN rows = 1..n
  BY SeqFacts DEF RowsSound
<1>2. /\ rest \in Seq(BOOLEAN) /\ Len(rest) = n - 1
      /\ \A i \in 1..(n - 1) :
           /\ i < k => rest[i] = rows[i]
           /\ k <= i => rest[i] = rows[i + 1]
  BY <1>1, RestOfRows
<1>3. DOMAIN rest = 1..(n - 1)
  BY <1>2, SeqFacts
<1>4. Data!Removed(rows, k) =
        IF n <= 1 THEN rows ELSE IF rows[k] THEN [rest EXCEPT ![1] = TRUE] ELSE rest
  BY DEF Data!Removed
<1> HIDE DEF rest, n
<1>5. PICK one \in 1..n : rows[one] = TRUE /\ \A i \in 1..n : rows[i] = TRUE => i = one
  <2>1. rows # <<>>
    BY <1>1 DEF n
  <2> QED
    BY <1>1, <2>1 DEF RowsSound, OneOf
<1>6. CASE n <= 1
  BY <1>4, <1>6
<1>7. CASE ~(n <= 1) /\ rows[k] = TRUE
  <2>1. k = one /\ 1 \in DOMAIN rest /\ Len(rest) <= MaxIdentities
    BY <1>1, <1>2, <1>3, <1>5, <1>7
  <2>2. \A i \in DOMAIN rest : rest[i] = FALSE
    <3> SUFFICES ASSUME NEW i \in DOMAIN rest PROVE rest[i] = FALSE
      OBVIOUS
    <3>1. PICK j \in 1..n : j # k /\ rest[i] = rows[j]
      <4>1. CASE i < k
        BY <1>1, <1>2, <1>3, <4>1
      <4>2. CASE k <= i
        BY <1>1, <1>2, <1>3, <4>2
      <4> QED
        BY <1>1, <1>3, <4>1, <4>2
    <3>2. rows[j] \in BOOLEAN
      BY <1>1, SeqFacts
    <3> QED
      BY <1>5, <2>1, <3>1, <3>2, Zenon
  <2>3. RowsSound([rest EXCEPT ![1] = TRUE])
    BY <1>2, <2>1, <2>2, DefaultPut
  <2>4. Data!Removed(rows, k) = [rest EXCEPT ![1] = TRUE]
    BY <1>4, <1>7
  <2> QED
    BY <2>3, <2>4
<1>8. CASE ~(n <= 1) /\ rows[k] = FALSE
  <2>1. k # one
    BY <1>5, <1>8
  <2> DEFINE at == IF one < k THEN one ELSE one - 1
  <2>2. at \in 1..(n - 1) /\ rest[at] = TRUE
    <3>1. CASE one < k
      BY <1>1, <1>2, <1>5, <3>1
    <3>2. CASE k < one
      <4>1. at = one - 1 /\ at \in 1..(n - 1) /\ k <= at /\ at + 1 = one
        BY <1>1, <1>5, <3>2
      <4>2. rest[at] = rows[at + 1]
        BY <1>2, <4>1
      <4> QED
        BY <1>5, <4>1, <4>2
    <3>3. one < k \/ k < one
      BY <1>1, <1>5, <2>1
    <3> QED
      BY <3>1, <3>2, <3>3, Zenon
  <2>3. ASSUME NEW i \in 1..(n - 1), rest[i] = TRUE
        PROVE  i = at
    <3>1. CASE i < k
      <4>1. rows[i] = TRUE /\ i \in 1..n
        BY <1>1, <1>2, <2>3, <3>1
      <4>2. i = one
        BY <1>5, <4>1
      <4> QED
        BY <3>1, <4>2
    <3>2. CASE k <= i
      <4>1. rows[i + 1] = TRUE /\ i + 1 \in 1..n
        BY <1>1, <1>2, <2>3, <3>2
      <4>2. i + 1 = one
        BY <1>5, <4>1
      <4> QED
        BY <1>1, <1>5, <3>2, <4>2
    <3> QED
      BY <1>1, <3>1, <3>2
  <2> HIDE DEF at
  <2>4. OneOf(rest)
    BY <1>3, <2>2, <2>3 DEF OneOf
  <2>5. RowsSound(rest)
    BY <1>1, <1>2, <2>4 DEF RowsSound
  <2>6. Data!Removed(rows, k) = rest
    BY <1>4, <1>8
  <2> QED
    BY <2>5, <2>6
<1>9. rows[k] \in BOOLEAN
  BY <1>1, SeqFacts
<1> QED
  BY <1>6, <1>7, <1>8, <1>9, Zenon

\* A first row is the default one.
LEMMA FirstRow ==
  ASSUME MaxIdentities \in Nat, MaxIdentities >= 1
  PROVE  RowsSound(<<TRUE>>)
<1>1. <<>> \in Seq(BOOLEAN) /\ Len(<<>>) = 0 /\ \A k \in 1..Len(<<>>) : <<>>[k] = FALSE
  BY EmptySeq
<1> DEFINE none == <<>>
<1>2. none \in Seq(BOOLEAN) /\ Len(none) < MaxIdentities /\ \A k \in 1..Len(none) : none[k] = FALSE
  BY <1>1
<1> HIDE DEF none
<1>3. RowsSound(Append(none, TRUE))
  BY <1>2, DefaultAppended
<1> QED
  BY <1>3 DEF none

LEMMA NoRows ==
  ASSUME MaxIdentities \in Nat
  PROVE  RowsSound(<<>>)
BY EmptySeq DEF RowsSound

\* A row is appended: as the default one, to rows of which none is one any more, or
\* beside the one there is.
LEMMA AnyAppended ==
  ASSUME NEW rows, RowsSound(rows), Len(rows) < MaxIdentities, MaxIdentities \in Nat
  PROVE  /\ RowsSound(Append(Data!NoDefault(rows), TRUE))
         /\ rows # <<>> => RowsSound(Append(rows, FALSE))
<1>1. rows \in Seq(BOOLEAN)
  BY DEF RowsSound
<1>2. RowsSound(Append(Data!NoDefault(rows), TRUE))
  BY <1>1, NoDefaultRows, DefaultAppended
<1> QED
  BY <1>2, RowAppended

LEMMA AddedRows ==
  ASSUME NEW rows, RowsSound(rows), NEW d \in BOOLEAN, MaxIdentities \in Nat
  PROVE  RowsSound(Data!Added(rows, d))
<1>1. Len(rows) \in Nat
  BY SeqFacts DEF RowsSound
<1>2. CASE Len(rows) >= MaxIdentities
  BY <1>2 DEF Data!Added
<1>3. CASE Len(rows) < MaxIdentities
  BY <1>1, <1>3, AnyAppended DEF Data!Added
<1> QED
  BY <1>1, <1>2, <1>3

\* What a route writes for rows that are sound is sound.
LEMMA WroteRows ==
  ASSUME Data!AccountsAssumption, NEW rows, RowsSound(rows), NEW kind \in Data!Kinds,
         NEW new \in Data!Wrote(rows, kind)
  PROVE  RowsSound(new)
<1>1. MaxIdentities \in Nat /\ MaxIdentities >= 1
  BY DEF Data!AccountsAssumption
<1>2. CASE kind = "list"
  BY <1>1, <1>2, FirstRow DEF Data!Wrote, Data!Ensured
<1>3. CASE kind \in {"add", "addDefault"}
  BY <1>1, <1>3, AddedRows DEF Data!Wrote
<1>4. CASE kind = "makeDefault"
  BY <1>1, <1>4, UpdatedRows DEF Data!Wrote
<1>5. CASE kind = "unsetDefault"
  BY <1>1, <1>5, UpdatedRows DEF Data!Wrote
<1>6. CASE kind = "delete"
  BY <1>1, <1>6, RemovedRows DEF Data!Wrote
<1>7. CASE kind = "prefs"
  BY <1>7 DEF Data!Wrote
<1> QED
  BY <1>2, <1>3, <1>4, <1>5, <1>6, <1>7 DEF Data!Kinds

\* An identity of the importer: the default one of rows that have none.
LEMMA ImportedRow ==
  ASSUME NEW rows, RowsSound(rows), MaxIdentities \in Nat, ~(Len(rows) >= MaxIdentities),
         NEW standard \in BOOLEAN
  PROVE  LET make == rows = <<>> \/ (standard /\ TRUE \notin Data!Range(rows))
         IN  RowsSound(Append(IF make THEN Data!NoDefault(rows) ELSE rows, make))
<1> DEFINE make == rows = <<>> \/ (standard /\ TRUE \notin Data!Range(rows))
<1>1. rows \in Seq(BOOLEAN) /\ Len(rows) \in Nat /\ Len(rows) < MaxIdentities
  BY SeqFacts DEF RowsSound
<1>2. CASE rows = <<>>
  <2>1. RowsSound(Append(Data!NoDefault(rows), TRUE))
    BY <1>1, NoDefaultRows, DefaultAppended
  <2>2. make = TRUE
    BY <1>2
  <2> QED
    BY <2>1, <2>2
<1>3. CASE rows # <<>>
  <2>1. PICK k \in DOMAIN rows : rows[k] = TRUE
    BY <1>3 DEF RowsSound, OneOf
  <2>2. TRUE \in Data!Range(rows)
    BY <2>1 DEF Data!Range
  <2>3. make = FALSE
    BY <1>3, <2>2
  <2>4. RowsSound(Append(rows, FALSE))
    BY <1>1, <1>3, RowAppended
  <2> QED
    BY <2>3, <2>4
<1> QED
  BY <1>2, <1>3

----------------------------------------------------------------------------
(* The accounts: a sequence without repetitions, of which the oldest go.   *)

\* The accounts that are left are the members that did not go.
LEMMA Oldest ==
  ASSUME NEW line \in Seq(Visitors), Distinct(line), NEW k \in 0..Len(line)
  PROVE  LET left == SubSeq(line, k + 1, Len(line))
             gone == {line[j] : j \in 1..k}
         IN  /\ left \in Seq(Visitors) /\ Len(left) = Len(line) - k
             /\ Distinct(left) /\ Members(left) = Members(line) \ gone
<1> DEFINE left == SubSeq(line, k + 1, Len(line))
           gone == {line[j] : j \in 1..k}
           n == Len(line)
<1>1. n \in Nat /\ k \in Int /\ 0 <= k /\ k <= n /\ DOMAIN line = 1..n /\ \A i \in 1..n : line[i] \in Visitors
  <2>1. n \in Nat /\ DOMAIN line = 1..n /\ \A i \in 1..n : line[i] \in Visitors
    BY SeqFacts, Zenon
  <2> HIDE DEF n
  <2>2. k \in 0..n
    BY DEF n
  <2> QED
    BY <2>1, <2>2
<1> HIDE DEF n
<1>2. /\ left \in Seq(Visitors) /\ Len(left) = n - k
      /\ \A i \in 1..(n - k) : left[i] = line[k + i]
  <2>1. \A i \in (k + 1)..n : i \in 1..n
    BY <1>1
  <2>2. k + 1 \in Int /\ n \in Int /\ \A i \in (k + 1)..n : line[i] \in Visitors
    BY <1>1, <2>1
  <2>3. /\ left \in Seq(Visitors) /\ Len(left) = IF k + 1 <= n THEN n - (k + 1) + 1 ELSE 0
        /\ \A i \in 1..(n - (k + 1) + 1) : left[i] = line[k + 1 + i - 1]
    BY <2>2, SubSeqProperties DEF n
  <2>4. n - (k + 1) + 1 = n - k /\ (~(k + 1 <= n) => n - k = 0)
    BY <1>1
  <2>5. \A i \in 1..(n - k) : k + 1 + i - 1 = k + i
    BY <1>1
  <2> HIDE DEF left
  <2> QED
    BY <2>3, <2>4, <2>5
<1>3. DOMAIN left = 1..(n - k)
  BY <1>2, SeqFacts
<1> HIDE DEF left
<1>4. Distinct(left)
  <2> SUFFICES ASSUME NEW i \in DOMAIN left, NEW j \in DOMAIN left, left[i] = left[j]
               PROVE  i = j
    BY DEF Distinct
  <2>1. i \in 1..(n - k) /\ j \in 1..(n - k) /\ k + i \in DOMAIN line /\ k + j \in DOMAIN line
    BY <1>1, <1>3
  <2>2. line[k + i] = line[k + j]
    BY <1>2, <2>1
  <2>3. k + i = k + j
    BY <2>1, <2>2 DEF Distinct
  <2> QED
    BY <1>1, <2>1, <2>3
<1>5. ASSUME NEW a \in Members(left)
      PROVE  a \in Members(line) \ gone
  <2>1. PICK i \in DOMAIN left : a = left[i]
    BY <1>5 DEF Members
  <2>2. i \in 1..(n - k) /\ k + i \in DOMAIN line /\ a = line[k + i]
    <3>1. i \in 1..(n - k) /\ a = line[k + i]
      BY <1>2, <1>3, <2>1, Zenon
    <3>2. k + i \in 1..n
      BY <1>1, <3>1
    <3> QED
      BY <1>1, <3>1, <3>2, Zenon
  <2>3. ASSUME NEW j \in 1..k, a = line[j] PROVE FALSE
    <3>1. j \in DOMAIN line
      BY <1>1, <2>3
    <3>2. j = k + i
      BY <2>2, <2>3, <3>1 DEF Distinct
    <3> QED
      BY <1>1, <2>2, <2>3, <3>2
  <2> QED
    BY <2>2, <2>3 DEF Members
<1>6. ASSUME NEW a \in Members(line), a \notin gone
      PROVE  a \in Members(left)
  <2>1. PICK i \in DOMAIN line : a = line[i]
    BY <1>6 DEF Members
  <2>2. i \notin 1..k
    BY <1>6, <2>1
  <2>3. i - k \in 1..(n - k) /\ k + (i - k) = i
    BY <1>1, <2>1, <2>2
  <2>4. left[i - k] = line[i]
    BY <1>2, <2>3
  <2> QED
    BY <1>3, <2>1, <2>3, <2>4 DEF Members
<1>7. Members(left) = Members(line) \ gone
  BY <1>5, <1>6
<1>8. left \in Seq(Visitors) /\ Len(left) = Len(line) - k /\ Distinct(left) /\ Members(left) = Members(line) \ gone
  BY <1>2, <1>4, <1>7 DEF n
<1> QED
  BY <1>8 DEF left

\* A new account is the youngest.
LEMMA Youngest ==
  ASSUME NEW line \in Seq(Visitors), Distinct(line), NEW o \in Visitors, o \notin Members(line)
  PROVE  LET all == Append(line, o)
         IN  /\ all \in Seq(Visitors) /\ Len(all) = Len(line) + 1
             /\ Distinct(all) /\ Members(all) = Members(line) \cup {o}
<1> DEFINE all == Append(line, o)
           n == Len(line)
<1>1. /\ all \in Seq(Visitors) /\ Len(all) = n + 1 /\ n \in Nat /\ DOMAIN line = 1..n
      /\ \A i \in 1..n : all[i] = line[i]
      /\ all[n + 1] = o
  <2>1. n \in Nat /\ DOMAIN line = 1..n
    BY SeqFacts, Zenon
  <2> QED
    BY <2>1, AppendProperties
<1>2. DOMAIN all = 1..(n + 1)
  BY <1>1, SeqFacts
<1> HIDE DEF all, n
<1>3. \A i \in DOMAIN all : \/ i \in DOMAIN line /\ all[i] = line[i] /\ line[i] \in Members(line)
                            \/ i = n + 1 /\ all[i] = o
  <2> SUFFICES ASSUME NEW i \in DOMAIN all, i # n + 1
               PROVE  i \in DOMAIN line /\ all[i] = line[i] /\ line[i] \in Members(line)
    BY <1>1
  <2>1. i \in 1..n
    BY <1>1, <1>2
  <2> QED
    BY <1>1, <2>1 DEF Members
<1>4. Distinct(all)
  BY <1>3 DEF Distinct
<1>5. Members(all) \subseteq Members(line) \cup {o}
  <2> SUFFICES ASSUME NEW i \in DOMAIN all PROVE all[i] \in Members(line) \cup {o}
    BY DEF Members
  <2> QED
    BY <1>3
<1>6. Members(line) \cup {o} \subseteq Members(all)
  <2>1. \A i \in DOMAIN line : i \in DOMAIN all /\ all[i] = line[i]
    <3>1. \A i \in 1..n : i \in 1..(n + 1)
      BY <1>1
    <3> QED
      BY <1>1, <1>2, <3>1, Zenon
  <2>2. n + 1 \in DOMAIN all /\ all[n + 1] = o
    BY <1>1, <1>2
  <2> QED
    BY <2>1, <2>2 DEF Members
<1>7. all \in Seq(Visitors) /\ Len(all) = Len(line) + 1 /\ Distinct(all) /\ Members(all) = Members(line) \cup {o}
  BY <1>1, <1>4, <1>5, <1>6 DEF n
<1> QED
  BY <1>7 DEF all

----------------------------------------------------------------------------
(* The invariant.                                                          *)

\* What the maps and the tables hold: a mailbox for each account, and no session of
\* a visitor without his account.
Kept(line, boxes, ids, ps, ss) ==
  /\ line \in Seq(Visitors) /\ Distinct(line) /\ Len(line) <= MaxAccounts
  /\ boxes = Members(line)
  /\ DOMAIN ids = Data!All /\ \A o \in Data!All : RowsSound(ids[o])
  /\ ps \subseteq Data!All
  /\ ss \subseteq Data!All /\ ss \cap Visitors \subseteq Members(line)

DataInv ==
  /\ Kept(accounts, mailboxes, identities, prefs, sessions)
  /\ requests \subseteq [owner : Data!All, kind : Data!Kinds]
  /\ visits \in 0..DemoLimit

\* An eviction keeps it, of a map that may be too long by as many as it removes.
LEMMA EvictKept ==
  ASSUME NEW line \in Seq(Visitors), Distinct(line), NEW k \in 0..Len(line),
         Len(line) - k <= MaxAccounts, MaxIdentities \in Nat,
         NEW ids, DOMAIN ids = Data!All, \A o \in Data!All : RowsSound(ids[o]),
         NEW ps \in SUBSET Data!All, NEW ss \in SUBSET Data!All, ss \cap Visitors \subseteq Members(line),
         NEW boxes, boxes = Members(line),
         Data!Evict(line, k, boxes, ids, ps, ss)
  PROVE  Kept(accounts', mailboxes', identities', prefs', sessions')
<1> DEFINE left == SubSeq(line, k + 1, Len(line))
           gone == {line[j] : j \in 1..k}
           rows == [o \in Data!All |-> IF o \in gone THEN <<>> ELSE ids[o]]
<1>1. /\ accounts' = left /\ mailboxes' = boxes \ gone /\ identities' = rows
      /\ prefs' = ps \ gone /\ sessions' = ss \ gone
  BY DEF Data!Evict
<1>2. /\ left \in Seq(Visitors) /\ Len(left) = Len(line) - k
      /\ Distinct(left) /\ Members(left) = Members(line) \ gone
  BY Oldest
<1>3. DOMAIN rows = Data!All /\ \A o \in Data!All : RowsSound(rows[o])
  BY NoRows
<1> HIDE DEF left, gone, rows
<1>4. Kept(left, boxes \ gone, rows, ps \ gone, ss \ gone)
  BY <1>2, <1>3 DEF Kept
<1> QED
  BY <1>1, <1>4, Zenon

LEMMA KeptInv ==
  ASSUME Kept(accounts', mailboxes', identities', prefs', sessions'),
         requests' \subseteq [owner : Data!All, kind : Data!Kinds], visits' \in 0..DemoLimit
  PROVE  DataInv'
BY DEF DataInv, Kept, Distinct, Members, RowsSound, OneOf, Data!All, Data!Kinds

LEMMA DataInit ==
  ASSUME Data!AccountsAssumption, Data!Init
  PROVE  DataInv
<1>1. <<>> \in Seq(Visitors) /\ Len(<<>>) = 0 /\ DOMAIN <<>> = {}
  BY EmptySeq
<1>2. Distinct(<<>>) /\ Members(<<>>) = {}
  BY <1>1 DEF Distinct, Members
<1>3. MaxAccounts \in Nat /\ MaxIdentities \in Nat /\ DemoLimit \in Nat /\ Regular \cap Visitors = {}
  BY DEF Data!AccountsAssumption
<1>4. /\ accounts = <<>> /\ mailboxes = {} /\ identities = [o \in Data!All |-> <<>>] /\ prefs = {}
      /\ sessions = Regular /\ requests = {} /\ visits = 0
  BY DEF Data!Init
<1>5. DOMAIN identities = Data!All /\ \A o \in Data!All : RowsSound(identities[o])
  BY <1>3, <1>4, NoRows
<1>6. Len(accounts) <= MaxAccounts /\ visits \in 0..DemoLimit
  BY <1>1, <1>3, <1>4
<1>7. Kept(accounts, mailboxes, identities, prefs, sessions)
  <2>1. Regular \subseteq Data!All
    BY DEF Data!All
  <2> QED
    BY <1>1, <1>2, <1>3, <1>4, <1>5, <1>6, <2>1 DEF Kept
<1> QED
  BY <1>4, <1>6, <1>7 DEF DataInv

LEMMA VisitKeeps ==
  ASSUME Data!AccountsAssumption, DataInv, NEW o \in Visitors, Data!Visit(o)
  PROVE  DataInv'
<1> DEFINE line == Append(accounts, o)
           k == Data!Overflow(line)
           ids == [identities EXCEPT ![o] = <<TRUE>>]
<1>1. MaxAccounts \in Nat /\ MaxIdentities \in Nat /\ MaxIdentities >= 1 /\ DemoLimit \in Nat
  BY DEF Data!AccountsAssumption
<1>2. Kept(accounts, mailboxes, identities, prefs, sessions)
  BY DEF DataInv
<1>3. o \notin Members(accounts) /\ o \in Data!All
  <2>1. o \notin Data!Range(accounts)
    BY DEF Data!Visit, Data!Known
  <2> QED
    BY <2>1 DEF Data!Range, Members, Data!All
<1>4. /\ line \in Seq(Visitors) /\ Len(line) = Len(accounts) + 1 /\ Distinct(line)
      /\ Members(line) = Members(accounts) \cup {o} /\ Len(accounts) \in Nat /\ Len(accounts) <= MaxAccounts
  BY <1>2, <1>3, Youngest, SeqFacts DEF Kept
<1>5. Data!Evict(line, k, mailboxes \cup {o}, ids, prefs \cup {o}, sessions \cup {o})
  BY DEF Data!Visit, Data!Create
<1>6. k = IF Len(line) <= MaxAccounts THEN 0 ELSE Len(line) - MaxAccounts
  BY DEF Data!Overflow
<1> HIDE DEF line, k
<1>7. k \in 0..Len(line) /\ Len(line) - k <= MaxAccounts
  BY <1>1, <1>4, <1>6
<1>8. DOMAIN ids = Data!All /\ \A w \in Data!All : RowsSound(ids[w])
  BY <1>1, <1>2, <1>3, FirstRow DEF Kept
<1> HIDE DEF ids
<1>9. /\ prefs \cup {o} \in SUBSET Data!All /\ sessions \cup {o} \in SUBSET Data!All
      /\ (sessions \cup {o}) \cap Visitors \subseteq Members(line)
      /\ mailboxes \cup {o} = Members(line)
  BY <1>2, <1>3, <1>4 DEF Kept
<1>10. Kept(accounts', mailboxes', identities', prefs', sessions')
  BY <1>1, <1>4, <1>5, <1>7, <1>8, <1>9, EvictKept
<1>11. requests' \subseteq [owner : Data!All, kind : Data!Kinds] /\ visits' \in 0..DemoLimit
  BY <1>1 DEF Data!Visit, DataInv
<1> QED
  BY <1>10, <1>11, KeptInv

LEMMA SweepKeeps ==
  ASSUME Data!AccountsAssumption, DataInv, NEW k \in 1..Len(accounts), Data!Sweep(k)
  PROVE  DataInv'
<1>1. MaxAccounts \in Nat /\ MaxIdentities \in Nat
  BY DEF Data!AccountsAssumption
<1>2. Kept(accounts, mailboxes, identities, prefs, sessions)
  BY DEF DataInv
<1>3. Len(accounts) \in Nat /\ Len(accounts) <= MaxAccounts /\ accounts \in Seq(Visitors)
  BY <1>2, SeqFacts DEF Kept
<1>4. k \in 0..Len(accounts) /\ Len(accounts) - k <= MaxAccounts
  BY <1>1, <1>3
<1>5. Data!Evict(accounts, k, mailboxes, identities, prefs, sessions)
  BY DEF Data!Sweep
<1>6. Kept(accounts', mailboxes', identities', prefs', sessions')
  BY <1>1, <1>2, <1>3, <1>4, <1>5, EvictKept DEF Kept
<1> QED
  BY <1>6, KeptInv DEF Data!Sweep, DataInv

\* What a route writes to the rows it reads is as sound as they are.
LEMMA WriteKeeps ==
  ASSUME Data!AccountsAssumption, DataInv, NEW o \in Data!All, NEW rows, RowsSound(rows),
         accounts' = accounts, mailboxes' = mailboxes, sessions' = sessions,
         prefs' \in SUBSET Data!All,
         identities' = [identities EXCEPT ![o] = rows],
         requests' \subseteq [owner : Data!All, kind : Data!Kinds], visits' = visits
  PROVE  DataInv'
<1> DEFINE ids == [identities EXCEPT ![o] = rows]
<1>1. Kept(accounts, mailboxes, identities, prefs, sessions) /\ visits \in 0..DemoLimit
  BY DEF DataInv
<1>2. DOMAIN ids = Data!All /\ \A w \in Data!All : RowsSound(ids[w])
  BY <1>1 DEF Kept
<1>3. identities' = ids
  OBVIOUS
<1> HIDE DEF ids
<1>4. Kept(accounts, mailboxes, ids, prefs', sessions)
  BY <1>1, <1>2 DEF Kept
<1>5. Kept(accounts', mailboxes', identities', prefs', sessions')
  BY <1>3, <1>4, Zenon
<1> QED
  BY <1>1, <1>5, KeptInv

LEMMA FinishKeeps ==
  ASSUME Data!AccountsAssumption, DataInv, NEW r \in requests, Data!Finish(r)
  PROVE  DataInv'
<1>1. r.owner \in Data!All /\ r.kind \in Data!Kinds
  BY DEF DataInv
<1>2. RowsSound(identities[r.owner]) /\ prefs \subseteq Data!All
  BY <1>1 DEF DataInv, Kept
<1>3. PICK rows \in Data!Wrote(identities[r.owner], r.kind) :
        identities' = [identities EXCEPT ![r.owner] = rows]
  BY DEF Data!Finish
<1>4. RowsSound(rows)
  BY <1>1, <1>2, <1>3, WroteRows
<1>5. prefs' \in SUBSET Data!All /\ requests' \subseteq [owner : Data!All, kind : Data!Kinds]
  BY <1>1, <1>2 DEF Data!Finish, DataInv
<1> QED
  BY <1>1, <1>3, <1>4, <1>5, WriteKeeps DEF Data!Finish

LEMMA ImportKeeps ==
  ASSUME Data!AccountsAssumption, DataInv, NEW o \in Regular, NEW standard \in BOOLEAN,
         Data!ImportIdentity(o, standard)
  PROVE  DataInv'
<1> DEFINE rows == identities[o]
           make == rows = <<>> \/ (standard /\ TRUE \notin Data!Range(rows))
           added == Append(IF make THEN Data!NoDefault(rows) ELSE rows, make)
           written == IF Len(rows) >= MaxIdentities THEN rows ELSE added
<1>1. o \in Data!All /\ MaxIdentities \in Nat
  BY DEF Data!AccountsAssumption, Data!All
<1>2. RowsSound(rows) /\ prefs \subseteq Data!All /\ requests \subseteq [owner : Data!All, kind : Data!Kinds]
  BY <1>1 DEF DataInv, Kept
<1>3. identities' = [identities EXCEPT ![o] = written]
  BY DEF Data!ImportIdentity
<1>4. /\ accounts' = accounts /\ mailboxes' = mailboxes /\ sessions' = sessions /\ prefs' = prefs
      /\ requests' = requests /\ visits' = visits
  BY DEF Data!ImportIdentity
<1>5. RowsSound(written)
  <2>1. CASE Len(rows) >= MaxIdentities
    BY <1>2, <2>1
  <2>2. CASE ~(Len(rows) >= MaxIdentities)
    <3>1. RowsSound(added)
      BY <1>1, <1>2, <2>2, ImportedRow
    <3> QED
      BY <2>2, <3>1
  <2> QED
    BY <2>1, <2>2
<1> HIDE DEF written
<1> QED
  BY <1>1, <1>2, <1>3, <1>4, <1>5, WriteKeeps

\* Steps that touch neither the map nor the rows.
LEMMA OtherKeeps ==
  ASSUME Data!AccountsAssumption, DataInv,
         accounts' = accounts, mailboxes' = mailboxes, identities' = identities,
         prefs' = prefs, sessions' \in SUBSET sessions,
         requests' \subseteq [owner : Data!All, kind : Data!Kinds], visits' \in 0..DemoLimit
  PROVE  DataInv'
<1>1. Kept(accounts, mailboxes, identities, prefs, sessions')
  BY DEF DataInv, Kept
<1>2. Kept(accounts', mailboxes', identities', prefs', sessions')
  BY <1>1, Zenon
<1> QED
  BY <1>2, KeptInv

LEMMA DataStep ==
  ASSUME Data!AccountsAssumption, DataInv, [Data!Next]_Data!vars
  PROVE  DataInv'
<1>0. /\ requests \subseteq [owner : Data!All, kind : Data!Kinds] /\ visits \in 0..DemoLimit
      /\ DemoLimit \in Nat
  BY DEF DataInv, Data!AccountsAssumption
<1>1. ASSUME NEW o \in Visitors, Data!Visit(o) PROVE DataInv'
  BY <1>1, VisitKeeps
<1>2. ASSUME NEW k \in 1..Len(accounts), Data!Sweep(k) PROVE DataInv'
  BY <1>2, SweepKeeps
<1>3. CASE Data!WindowEnds
  BY <1>0, <1>3, OtherKeeps DEF Data!WindowEnds
<1>4. ASSUME NEW o \in Data!All, Data!Leave(o) PROVE DataInv'
  BY <1>0, <1>4, OtherKeeps DEF Data!Leave
<1>5. ASSUME NEW o \in Data!All, NEW kind \in Data!Kinds, Data!Authorise(o, kind) PROVE DataInv'
  BY <1>0, <1>5, OtherKeeps DEF Data!Authorise
<1>6. ASSUME NEW r \in requests, Data!Finish(r) PROVE DataInv'
  BY <1>6, FinishKeeps
<1>7. ASSUME NEW o \in Regular, NEW standard \in BOOLEAN, Data!ImportIdentity(o, standard) PROVE DataInv'
  BY <1>7, ImportKeeps
<1>8. CASE UNCHANGED Data!vars
  BY <1>0, <1>8, OtherKeeps DEF Data!vars
<1> QED
  BY <1>1, <1>2, <1>3, <1>4, <1>5, <1>6, <1>7, <1>8 DEF Data!Next

\* One row of an owner who has rows is the default one.
LEMMA OneIsOne ==
  ASSUME NEW rows \in Seq(BOOLEAN), OneOf(rows)
  PROVE  Data!Cardinality({k \in DOMAIN rows : rows[k]}) = 1
<1>1. PICK k \in DOMAIN rows : rows[k] = TRUE /\ \A j \in DOMAIN rows : rows[j] = TRUE => j = k
  BY DEF OneOf
<1>2. {j \in DOMAIN rows : rows[j]} = {k}
  BY <1>1, Zenon
<1>3. Cardinality({k}) = 1
  BY FS_Singleton
<1>4. Data!Cardinality({k}) = Cardinality({k})
  BY DEF Data!Cardinality, Cardinality, Data!IsFiniteSet, IsFiniteSet
<1> QED
  BY <1>2, <1>3, <1>4

\* What the invariant says of the rows, the maps and the sessions.
LEMMA DataInvConsistent ==
  ASSUME Data!AccountsAssumption, DataInv
  PROVE  Data!TypeOK /\ Data!DataConsistent
<1>1. Kept(accounts, mailboxes, identities, prefs, sessions)
  BY DEF DataInv
<1>2. Data!Range(accounts) = Members(accounts)
  BY DEF Data!Range, Members
<1>3. Members(accounts) \subseteq Visitors
  BY <1>1, SeqFacts DEF Kept, Members
<1>4. \A o \in Data!All : identities[o] \in Seq(BOOLEAN) /\ Len(identities[o]) <= MaxIdentities
  BY <1>1 DEF Kept, RowsSound
<1>5. Data!TypeOK
  BY <1>1, <1>2, <1>3, <1>4 DEF Data!TypeOK, DataInv, Kept
<1>6. Data!OneDefault
  <2> SUFFICES ASSUME NEW o \in Data!All, identities[o] # <<>>
               PROVE  Data!Cardinality({k \in DOMAIN identities[o] : identities[o][k]}) = 1
    BY DEF Data!OneDefault
  <2>1. RowsSound(identities[o])
    BY <1>1 DEF Kept
  <2>2. identities[o] \in Seq(BOOLEAN) /\ OneOf(identities[o])
    BY <2>1 DEF RowsSound
  <2> QED
    BY <2>2, OneIsOne
<1>7. Data!Bounded
  BY <1>1, <1>2, <1>4 DEF Data!Bounded, Kept
<1>8. Data!SessionsLive
  BY <1>1, <1>2 DEF Data!SessionsLive, Kept
<1> QED
  BY <1>5, <1>6, <1>7, <1>8 DEF Data!DataConsistent

\* identities.ts and demo/accounts.ts: "il doit toujours rester exactement une identité
\* par défaut", whatever mix of routes, evictions and imports wrote the rows; the
\* accounts stay within their bound, have a mailbox each, and no session of a visitor
\* outlives his account.
THEOREM DataConsistentCorrect ==
  ASSUME Data!AccountsAssumption
  PROVE  Data!Spec => []DataConsistent
<1>1. Data!Init => DataInv
  BY DataInit
<1>2. DataInv /\ [Data!Next]_Data!vars => DataInv'
  BY DataStep
<1>3. DataInv => DataConsistent
  BY DataInvConsistent DEF DataConsistent
<1> QED
  BY <1>1, <1>2, <1>3, PTL DEF Data!Spec
=============================================================================

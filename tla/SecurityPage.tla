----------------------------- MODULE SecurityPage -----------------------------
(* The page of the second factor and of the sessions (SecuritySettings.vue):     *)
(* its panels, its dialogs, and the requests behind them, which nothing keeps    *)
(* from overlapping.  The secret and the recovery codes that are issued are      *)
(* numbered.  What a code must be to be accepted is in Login: here the server    *)
(* accepts a code of the secret it has, or refuses it.  Left out: a session that *)
(* has ended, whose 401 leaves the page for the login page.                      *)
EXTENDS Naturals, FiniteSets

CONSTANTS MaxSteps, Sent, Refused, None

VARIABLES
  factor,    \* of the account, on the server: [on, secret, issue]
  last,      \* the secrets and the issues there have been: [secret, issue]
  others,    \* the account has other sessions
  request,   \* request[k], one of each kind at a time: None, Sent, or its answer
  scanned,   \* the secret whose code was sent to be confirmed
  status,    \* what the page has loaded: None, or [on, issue]
  setup,     \* the secret that is shown, or None
  codes,     \* the issue that is shown, or None
  dialog,    \* dialog[d]: its `open`
  listed,    \* the page lists other sessions
  crossed,   \* two requests overlapped, or an answer was lost, or another session
             \* of the account administered it: the page may be behind (history)
  lapsed,    \* the same, of the list of the sessions (history)
  steps

pageVars == <<status, setup, codes, dialog>>
vars == <<factor, last, others, request, scanned, pageVars, listed, crossed, lapsed, steps>>

Changes == {"setup", "again", "enable", "regenerate", "disable"}
Kinds == Changes \union {"status", "sessions", "revoke"}
Dialogs == {"regenerate", "disable", "revoke"}
Off == [on |-> FALSE, secret |-> 0, issue |-> 0]

Init ==
  /\ factor \in {Off, [on |-> TRUE, secret |-> 1, issue |-> 1]} /\ last = [secret |-> 1, issue |-> 1]
  /\ others \in BOOLEAN
  /\ request = [k \in Kinds |-> IF k \in {"status", "sessions"} THEN Sent ELSE None]
  /\ scanned = None /\ status = None /\ setup = None /\ codes = None
  /\ dialog = [d \in Dialogs |-> FALSE] /\ listed = FALSE
  /\ crossed = FALSE /\ lapsed = FALSE /\ steps = 0

Step == steps < MaxSteps /\ steps' = steps + 1

----------------------------------------------------------------------------
(* What is shown.                                                          *)

Panel ==
  IF request["status"] # None THEN "loading"
  ELSE IF codes # None THEN "codes"
  ELSE IF setup # None THEN "setup"
  ELSE IF status # None /\ status.on THEN "enabled"
  ELSE "disabled"    \* also when the status could not be loaded

\* A dialog of the panel that is shown, and that covers it.
Covers(d) == dialog[d] /\ (d = "revoke" \/ Panel = "enabled")
Reachable == \A d \in Dialogs : ~Covers(d)

----------------------------------------------------------------------------
(* Requests.                                                               *)

Overlaps(k) == \E j \in (Changes \union {"status"}) \ {k} : request[j] # None
Ask(k) ==
  /\ request[k] = None /\ Step
  /\ request' = [request EXCEPT ![k] = Sent]
  /\ IF k \in {"sessions", "revoke"}
       THEN lapsed' = (lapsed \/ request["sessions"] # None) /\ UNCHANGED crossed
       ELSE crossed' = (crossed \/ Overlaps(k)) /\ UNCHANGED lapsed
  /\ UNCHANGED <<factor, last, others, status, codes, listed>>

\* Nothing keeps the button from being pressed twice.
InitSetup ==
  /\ Panel = "disabled" /\ Reachable
  /\ \E k \in {"setup", "again"} : Ask(k)
  /\ UNCHANGED <<scanned, setup, dialog>>
ConfirmSetup == Panel = "setup" /\ Reachable /\ Ask("enable") /\ scanned' = setup /\ UNCHANGED <<setup, dialog>>
CancelSetup ==
  /\ Panel = "setup" /\ Reachable /\ Step /\ setup' = None
  /\ UNCHANGED <<factor, last, others, request, scanned, status, codes, dialog, listed, crossed, lapsed>>
Regenerate == Covers("regenerate") /\ Ask("regenerate") /\ UNCHANGED <<scanned, setup, dialog>>
Disable == Covers("disable") /\ Ask("disable") /\ UNCHANGED <<scanned, setup, dialog>>
\* The button is for who has other sessions; the dialog is closed by its action.
RevokeOthers ==
  /\ Covers("revoke") /\ Ask("revoke") /\ dialog' = [dialog EXCEPT !["revoke"] = FALSE]
  /\ UNCHANGED <<scanned, setup>>
FinishCodes ==
  /\ Panel = "codes" /\ Reachable /\ Step
  /\ codes' = None /\ request' = [request EXCEPT !["status"] = Sent]
  /\ crossed' = (crossed \/ Overlaps("status"))
  /\ UNCHANGED <<factor, last, others, scanned, status, setup, dialog, listed, lapsed>>

\* The other sessions: a dialog closes them, once the list is there and shows some.
RevokeOffered == listed /\ request["sessions"] = None

SetDialog(d, open) ==
  /\ Step /\ dialog' = [dialog EXCEPT ![d] = open]
  /\ UNCHANGED <<factor, last, others, request, scanned, status, setup, codes, listed, crossed, lapsed>>
OpenDialog(d) ==
  /\ IF d = "revoke" THEN RevokeOffered ELSE Panel = "enabled"
  /\ Reachable /\ SetDialog(d, TRUE)
CloseDialog(d) == Covers(d) /\ SetDialog(d, FALSE)

\* The server: api/account/2fa and api/account/sessions.
Reply(k, answer) == request' = [request EXCEPT ![k] = answer]
Refuse(k) == Reply(k, Refused) /\ UNCHANGED <<factor, last>>
ServeStatus(k) ==
  k = "status" /\ Reply(k, [on |-> factor.on, issue |-> factor.issue]) /\ UNCHANGED <<factor, last, others>>
ServeSetup(k) ==
  /\ k \in {"setup", "again"} /\ UNCHANGED others
  /\ \/ factor.on /\ Refuse(k)
     \/ LET secret == last.secret + 1 IN
        /\ ~factor.on /\ factor' = [factor EXCEPT !.secret = secret]
        /\ last' = [last EXCEPT !.secret = secret] /\ Reply(k, secret)
\* A code that is wrong, and a factor that is already what is asked, are refused.
Issue(k) ==
  LET issue == last.issue + 1 IN
  /\ factor' = [factor EXCEPT !.on = TRUE, !.issue = issue]
  /\ last' = [last EXCEPT !.issue = issue] /\ Reply(k, issue)
ServeEnable(k) ==
  /\ k = "enable" /\ UNCHANGED others
  /\ Refuse(k) \/ (~factor.on /\ factor.secret = scanned /\ Issue(k))
ServeRegenerate(k) ==
  /\ k = "regenerate" /\ UNCHANGED others
  /\ Refuse(k) \/ (factor.on /\ Issue(k))
ServeDisable(k) ==
  /\ k = "disable" /\ UNCHANGED others
  /\ Refuse(k) \/ (factor.on /\ factor' = Off /\ Reply(k, "done") /\ UNCHANGED last)
ServeSessions(k) == k = "sessions" /\ Reply(k, <<others>>) /\ UNCHANGED <<factor, last, others>>
ServeRevoke(k) == k = "revoke" /\ others' = FALSE /\ Reply(k, "done") /\ UNCHANGED <<factor, last>>
Serve(k) ==
  /\ request[k] = Sent
  /\ \/ ServeStatus(k) \/ ServeSetup(k) \/ ServeEnable(k) \/ ServeRegenerate(k) \/ ServeDisable(k)
     \/ ServeSessions(k) \/ ServeRevoke(k)
  /\ UNCHANGED <<scanned, pageVars, listed, crossed, lapsed, steps>>

Settled(k) == [request EXCEPT ![k] = None]
Answered(k) ==
  /\ request[k] \notin {None, Sent}
  /\ \/ /\ request[k] = Refused \* its message is shown
        /\ request' = Settled(k) /\ UNCHANGED <<pageVars, listed>>
     \/ /\ k = "status" /\ status' = request[k]
        /\ request' = Settled(k) /\ UNCHANGED <<setup, codes, dialog, listed>>
     \/ /\ k \in {"setup", "again"} /\ request[k] # Refused /\ setup' = request[k]
        /\ request' = Settled(k) /\ UNCHANGED <<status, codes, dialog, listed>>
     \/ /\ k = "enable" /\ request[k] # Refused /\ codes' = request[k] /\ setup' = None
        /\ request' = Settled(k) /\ UNCHANGED <<status, dialog, listed>>
     \/ /\ k = "regenerate" /\ request[k] # Refused /\ codes' = request[k]
        /\ request' = Settled(k) /\ UNCHANGED <<status, setup, dialog, listed>>
     \/ /\ k = "disable" /\ request[k] = "done" /\ request["status"] = None /\ dialog' = [dialog EXCEPT ![k] = FALSE]
        /\ request' = [Settled(k) EXCEPT !["status"] = Sent] /\ UNCHANGED <<status, setup, codes, listed>>
     \/ /\ k = "sessions" /\ listed' = request[k][1]
        /\ request' = Settled(k) /\ UNCHANGED pageVars
     \/ /\ k = "revoke" /\ request["sessions"] = None /\ dialog' = [dialog EXCEPT ![k] = FALSE]
        /\ request' = [Settled(k) EXCEPT !["sessions"] = Sent] /\ UNCHANGED <<status, setup, codes, listed>>
  /\ UNCHANGED <<factor, last, others, scanned, crossed, lapsed, steps>>

\* The request, or its answer, is lost: what was loaded stays.
Lost(k) ==
  /\ request[k] # None /\ Step
  /\ request' = Settled(k)
  /\ IF k \in {"sessions", "revoke"} THEN lapsed' = TRUE /\ UNCHANGED crossed
     ELSE crossed' = TRUE /\ UNCHANGED lapsed
  /\ UNCHANGED <<factor, last, others, scanned, pageVars, listed>>

\* Another session of the account begins, or administers the second factor.
Elsewhere ==
  /\ Step
  /\ \/ others' = TRUE /\ lapsed' = TRUE /\ UNCHANGED <<factor, last, crossed>>
     \/ /\ crossed' = TRUE /\ last' = [secret |-> last.secret + 1, issue |-> last.issue + 1]
        /\ factor' = IF factor.on THEN Off ELSE [on |-> TRUE, secret |-> last.secret + 1, issue |-> last.issue + 1]
        /\ UNCHANGED <<others, lapsed>>
  /\ UNCHANGED <<request, scanned, pageVars, listed>>

Next ==
  \/ InitSetup \/ ConfirmSetup \/ CancelSetup \/ Regenerate \/ Disable \/ RevokeOthers \/ FinishCodes
  \/ \E d \in Dialogs : OpenDialog(d) \/ CloseDialog(d)
  \/ \E k \in Kinds : Serve(k) \/ Answered(k) \/ Lost(k)
  \/ Elsewhere

Spec == Init /\ [][Next]_vars

----------------------------------------------------------------------------
(* Properties.                                                             *)

TypeOK ==
  /\ factor.on \in BOOLEAN /\ dialog \in [Dialogs -> BOOLEAN] /\ DOMAIN request = Kinds
  /\ listed \in BOOLEAN /\ steps \in 0..MaxSteps

\* The secret to scan is the one that a code will be compared with, and the codes
\* to keep are those the server accepts: nobody goes away with a second factor
\* that does not open the account.  Left out: requests that overlap (« Activer »
\* pressed twice, whose answers may come in the other order), lost answers, and
\* another session's administration.
ShownIsInForce ==
  ~crossed =>
    /\ setup # None /\ request["enable"] = None => setup = factor.secret /\ ~factor.on
    /\ codes # None => factor.on /\ codes = factor.issue

\* The panel is that of the account's state once nothing is under way: an enabled
\* factor is not shown as disabled, nor the other way.  Left out, with what overlaps:
\* a status that could not be loaded, which is shown as disabled
\* (SecuritySettings.vue:350).
PanelIsTrue ==
  ~crossed /\ (\A k \in Changes : request[k] = None) =>
    /\ Panel = "enabled" => factor.on
    /\ Panel \in {"disabled", "setup"} => ~factor.on

\* After « Déconnecter les autres sessions » the list is loaded again.
ListIsTrue ==
  ~lapsed /\ request["revoke"] = None /\ request["sessions"] = None => listed = others

\* A dialog is open because it was opened on the panel that is shown.  Refuted: the
\* dialog of the recovery codes is not closed when they are shown
\* (SecuritySettings.vue:214), and is there again after them.
OpenedByUser ==
  [][\A d \in Dialogs : ~Covers(d) /\ Covers(d)' => ~dialog[d]]_vars
=============================================================================

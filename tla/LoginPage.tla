------------------------------ MODULE LoginPage ------------------------------
(* A tab of the browser from the login page to the logout: the page itself       *)
(* (pages/login.vue), the guard of the routes (middleware/auth.global.ts), the   *)
(* box that asks « Toujours là ? » (IdleDialog.vue), the logout (useMailApi.ts,   *)
(* api/auth/logout.post.ts), and what the tab keeps in memory of an account.     *)
(* The cookie is shared with the other tabs.  How the server verifies what it is *)
(* given is in Login and OidcFlow: here it accepts or refuses.                   *)
EXTENDS Naturals

CONSTANTS
  Accounts, Demo,  \* those who log in, and the demonstration account, none of them
  TwoFactor,       \* the accounts with a second factor
  MaxSteps,        \* bound on what the user, other tabs and the network's failures do
  Sent, None

VARIABLES
  site,        \* it lets its accounts in, or it is a demonstration, which lets nobody else in
  cookie,      \* None, or what it opens: [for, kind ("pending" or "session"), alive]
  page, step,  \* "login" or "mail"; "password" or "code"
  password,    \* one is in the form
  busy,        \* the request of the page: None, or [kind, for]
  answer,      \* to it: None, Sent, or what came of it
  error,       \* the message shown: None, or what it is about
  user,        \* who the tab believes is logged in, or None
  dialog, idleTimer, logoutTimer,
  leaving,     \* the logout, one at a time: None, Sent, or what its answer says to do
  fetching,    \* whose data are on their way, or None
  kept,        \* what the stores hold, and whose it is
  asked,       \* who was last asked for, in this tab (history)
  astray,      \* the code step was left while a request was under way (history)
  foreign,     \* another tab has changed the cookie (history)
  stranded,    \* a logout failed, and nobody has moved since (history)
  late,        \* data arrived after a logout had cleared them (history)
  steps

formVars == <<step, password, busy, answer, error, asked, astray>>
timerVars == <<dialog, idleTimer, logoutTimer>>
vars == <<site, cookie, page, formVars, user, timerVars, leaving, fetching, kept, foreign,
          stranded, late, steps>>

Everyone == Accounts \union {Demo}
Opens(kind, a) == [for |-> a, kind |-> kind, alive |-> TRUE]
IsA(c, kind) == c # None /\ c.kind = kind
InSession == IsA(cookie, "session") /\ cookie.alive
Ways == {"login", "redirect"}    \* to the login page, or to the provider and back

\* A login page that has just been mounted.
NewForm ==
  /\ step' = "password" /\ password' = FALSE /\ busy' = None /\ answer' = None
  /\ error' = None /\ astray' = FALSE /\ UNCHANGED asked

NoTimers == dialog' = FALSE /\ idleTimer' = FALSE /\ logoutTimer' = FALSE

Init ==
  /\ site \in {"accounts", "demo"} /\ cookie = None /\ page = "login" /\ step = "password" /\ password = FALSE
  /\ busy = None /\ answer = None /\ error = None /\ asked = None /\ astray = FALSE
  /\ user = None /\ dialog = FALSE /\ idleTimer = FALSE /\ logoutTimer = FALSE
  /\ leaving = None /\ fetching = None /\ kept = {} /\ foreign = FALSE
  /\ stranded = FALSE /\ late = FALSE /\ steps = 0

Step == steps < MaxSteps /\ steps' = steps + 1

----------------------------------------------------------------------------
(* The form.                                                               *)

\* The form that is shown: for the second factor, or what the site lets in with.
Form == IF step = "code" THEN "code" ELSE site

\* The fields stay editable while a request is under way.
TypePassword ==
  /\ page = "login" /\ Form = "accounts" /\ ~password /\ password' = TRUE
  /\ UNCHANGED <<site, cookie, page, step, busy, answer, error, asked, astray, user, timerVars,
                 leaving, fetching, kept, foreign, stranded, late, steps>>

Submit(kind, a) ==
  /\ page = "login" /\ busy = None
  /\ busy' = [kind |-> kind, for |-> a] /\ answer' = Sent /\ error' = None
  /\ UNCHANGED <<site, cookie, page, step, password, user, timerVars, leaving, fetching, kept,
                 foreign, stranded, late>>
SubmitPassword ==
  /\ Form = "accounts" /\ password /\ Step
  /\ \E a \in Accounts : Submit("password", a) /\ asked' = a /\ astray' = FALSE
SubmitCode == Form = "code" /\ Step /\ Submit("code", asked) /\ astray' = FALSE /\ UNCHANGED asked
TryDemo ==
  /\ Form = "demo" /\ Step
  /\ Submit("demo", Demo) /\ asked' = Demo /\ astray' = FALSE

\* What the server may answer, and what becomes of the cookie it was sent.
Outcomes ==
  CASE busy.kind = "password" ->
         {"bad", "unavailable", IF busy.for \in TwoFactor THEN "code" ELSE "in"}
    [] busy.kind = "demo" -> {"unavailable", "in"}
    [] busy.kind = "code" ->
         IF IsA(cookie, "pending") /\ cookie.alive
           THEN {"bad", "over", "unavailable", "in"} ELSE {"over"}
Serve ==
  /\ answer = Sent
  /\ \E outcome \in Outcomes :
       /\ answer' = [outcome |-> outcome,
                     for |-> IF busy.kind = "code" /\ outcome = "in" THEN cookie.for ELSE busy.for]
       /\ cookie' = IF IsA(cookie, "pending") /\ busy.kind = "code" /\ outcome \in {"over", "in"}
                      THEN [cookie EXCEPT !.alive = FALSE] ELSE cookie
  /\ UNCHANGED <<site, page, step, password, busy, error, asked, astray, user, timerVars, leaving,
                 fetching, kept, foreign, stranded, late, steps>>

\* finish(): the session is fetched, and the mail is shown; when the fetch fails
\* the guard of the routes comes back to the login page.
Enter(a) ==
  /\ password' = FALSE /\ cookie' = Opens("session", a)
  /\ \/ page' = "mail" /\ user' = a /\ step' = "password" /\ idleTimer' = TRUE
     \/ UNCHANGED <<page, user, step, idleTimer>>
  /\ UNCHANGED <<dialog, logoutTimer, error>>

Message == IF answer.outcome = "over" THEN "over" ELSE busy.kind

Answered ==
  /\ page = "login" /\ answer \notin {None, Sent}
  /\ busy' = None /\ answer' = None
  /\ \/ answer.outcome = "in" /\ Enter(answer.for)
     \/ /\ answer.outcome = "code"
        /\ password' = FALSE /\ step' = "code" /\ cookie' = Opens("pending", answer.for)
        /\ UNCHANGED <<page, user, timerVars, error>>
     \/ /\ answer.outcome \in {"bad", "over", "unavailable"}
        /\ error' = Message
        /\ step' = IF answer.outcome = "over" THEN "password" ELSE step
        /\ cookie' = IF answer.outcome = "over" THEN None ELSE cookie
        /\ UNCHANGED <<page, password, user, timerVars>>
  /\ UNCHANGED <<site, asked, astray, leaving, fetching, kept, foreign, stranded, late, steps>>

\* The answer is lost, or was never sent: the page does not know what the server did.
AnswerLost ==
  /\ answer # None /\ Step
  /\ busy' = None /\ answer' = None /\ error' = busy.kind
  /\ UNCHANGED <<site, cookie, page, step, password, asked, astray, user, timerVars, leaving, fetching,
                 kept, foreign, stranded, late>>

Back ==
  /\ page = "login" /\ step = "code" /\ Step
  /\ step' = "password" /\ error' = None /\ astray' = (busy # None)
  /\ UNCHANGED <<site, cookie, page, password, busy, answer, asked, user, timerVars, leaving, fetching,
                 kept, foreign, stranded, late>>

\* Single sign-on, or a reload: the page is left, and its memory with it.  The guard
\* of the routes then shows the mail to a cookie that is a session, and the login
\* page to any other.
Reload ==
  /\ kept' = {} /\ fetching' = None /\ leaving' = None /\ stranded' = FALSE /\ late' = FALSE
  /\ busy' = None /\ answer' = None /\ astray' = FALSE /\ password' = FALSE
Reopened(c, a) ==
  /\ cookie' = c /\ dialog' = FALSE /\ logoutTimer' = FALSE
  /\ IF IsA(c, "session")
       THEN page' = "mail" /\ user' = c.for /\ idleTimer' = TRUE /\ asked' = c.for
       ELSE page' = "login" /\ user' = None /\ idleTimer' = FALSE /\ asked' = a
ReloadPage ==
  /\ Step /\ Reload /\ Reopened(cookie, asked) /\ step' = "password" /\ error' = None
  /\ UNCHANGED <<site, foreign>>
SignOn ==
  /\ page = "login" /\ Form = "accounts" /\ Step /\ Reload
  /\ \/ /\ Reopened(cookie, asked) /\ step' = "password"
        /\ error' = IF IsA(cookie, "session") THEN None ELSE "sso"
     \/ /\ error' = None
        /\ \E a \in Accounts :
             IF a \in TwoFactor THEN Reopened(Opens("pending", a), a) /\ step' = "code"
                               ELSE Reopened(Opens("session", a), a) /\ step' = "password"
  /\ UNCHANGED <<site, foreign>>

----------------------------------------------------------------------------
(* The mail: its requests, its idle box, its end.                          *)

\* The login page again, without a reload: what the stores hold stays.
BackToLogin ==
  /\ cookie' = None /\ user' = None /\ page' = "login" /\ NoTimers /\ NewForm /\ stranded' = FALSE

Fetch ==
  /\ page = "mail" /\ fetching = None /\ Step
  /\ IF InSession
       THEN /\ fetching' = cookie.for
            /\ UNCHANGED <<site, cookie, page, formVars, user, timerVars, stranded>>
       ELSE BackToLogin /\ UNCHANGED fetching    \* a 401
  /\ UNCHANGED <<site, leaving, kept, foreign, late>>
\* The lists are those that were fetched; the identities are fetched once.
Fetched ==
  /\ fetching # None
  /\ fetching' = None
  /\ kept' = { d \in kept : d[1] # "lists" } \union {<<"lists", fetching>>} \union
             IF \E d \in kept : d[1] = "identities" THEN {} ELSE {<<"identities", fetching>>}
  /\ late' = (late \/ page = "login" \/ leaving \in Ways)
  /\ UNCHANGED <<site, cookie, page, formVars, user, timerVars, leaving, foreign, stranded, steps>>

Activity ==
  /\ page = "mail" /\ ~dialog /\ ~idleTimer /\ idleTimer' = TRUE /\ stranded' = FALSE
  /\ UNCHANGED <<site, cookie, page, formVars, user, dialog, logoutTimer, leaving, fetching, kept,
                 foreign, late, steps>>
IdleTimeout ==
  /\ idleTimer /\ Step
  /\ idleTimer' = FALSE /\ dialog' = TRUE /\ logoutTimer' = TRUE
  /\ UNCHANGED <<site, cookie, page, formVars, user, leaving, fetching, kept, foreign, stranded, late>>
\* Fault: the logout that was announced stays scheduled.
StayScheduled ==
  /\ dialog
  /\ dialog' = FALSE /\ idleTimer' = TRUE
  /\ UNCHANGED <<site, cookie, page, formVars, user, logoutTimer, leaving, fetching, kept, foreign, stranded,
                 late, steps>>

Stay ==
  /\ dialog
  /\ dialog' = FALSE /\ logoutTimer' = FALSE /\ idleTimer' = TRUE
  /\ UNCHANGED <<site, cookie, page, formVars, user, leaving, fetching, kept, foreign, stranded, late, steps>>

\* The menu, or the box that nobody has answered.
Logout ==
  /\ page = "mail" /\ leaving = None /\ leaving' = Sent
  /\ \/ ~dialog /\ Step /\ UNCHANGED timerVars
     \/ logoutTimer /\ NoTimers /\ UNCHANGED steps
  /\ UNCHANGED <<site, cookie, page, formVars, user, fetching, kept, foreign, stranded, late>>
\* The answer clears the cookie; a failure of the request is ignored, be it that the
\* server never had it, or that its answer is lost and the session closed.
LogoutServed ==
  /\ leaving = Sent
  /\ \/ leaving' \in Ways /\ cookie' = None
     \/ leaving' = "login" /\ UNCHANGED cookie
     \/ leaving' = "login" /\ IsA(cookie, "session") /\ cookie' = [cookie EXCEPT !.alive = FALSE]
  /\ UNCHANGED <<site, page, formVars, user, timerVars, fetching, kept, foreign, stranded, late, steps>>
\* The lists are forgotten, and the cookie cleared by a request of its own; then the
\* login page, by the router or by leaving for the address the answer gave.
WithoutLists == { d \in kept : d[1] # "lists" }
LoggedOut ==
  /\ leaving \in Ways /\ leaving' = None /\ cookie' = None
  /\ \/ leaving = "redirect" /\ kept' = {} /\ BackToLogin /\ fetching' = None /\ late' = FALSE
     \/ /\ leaving = "login" /\ page = "mail" /\ kept' = WithoutLists
        /\ BackToLogin /\ UNCHANGED <<fetching, late>>
     \/ /\ leaving = "login" /\ page = "login" /\ kept' = WithoutLists /\ user' = None
        /\ UNCHANGED <<page, formVars, timerVars, fetching, stranded, late>>
  /\ UNCHANGED <<site, foreign, steps>>
\* The cookie cannot be cleared: the tab stays where it is.
LogoutFails ==
  /\ leaving \in Ways /\ Step
  /\ leaving' = None /\ kept' = WithoutLists
  /\ stranded' = (page = "mail" /\ ~idleTimer /\ ~dialog)
  /\ UNCHANGED <<site, cookie, page, formVars, user, timerVars, fetching, foreign, late>>

\* Another tab logs out, or in as someone; or the server forgets the session.
Elsewhere ==
  /\ Step /\ foreign' = TRUE
  /\ \E c \in {None} \union {Opens(kind, a) : kind \in {"pending", "session"}, a \in Accounts} :
       cookie' = c
  /\ UNCHANGED <<site, page, formVars, user, timerVars, leaving, fetching, kept, stranded, late>>
Expires ==
  /\ cookie # None /\ cookie.alive /\ Step /\ cookie' = [cookie EXCEPT !.alive = FALSE]
  /\ UNCHANGED <<site, page, formVars, user, timerVars, leaving, fetching, kept, foreign, stranded, late>>

Next ==
  \/ TypePassword \/ SubmitPassword \/ SubmitCode \/ TryDemo \/ Serve \/ Answered \/ AnswerLost
  \/ Back \/ SignOn \/ ReloadPage \/ Fetch \/ Fetched \/ Activity \/ IdleTimeout \/ Stay
  \/ Logout \/ LogoutServed \/ LoggedOut \/ LogoutFails \/ Elsewhere \/ Expires

Spec == Init /\ [][Next]_vars

----------------------------------------------------------------------------
(* Properties.                                                             *)

TypeOK ==
  /\ site \in {"accounts", "demo"} /\ leaving \in Ways \union {None, Sent}
  /\ page \in {"login", "mail"} /\ step \in {"password", "code"} /\ user \in Everyone \union {None}
  /\ kept \subseteq {"lists", "identities"} \X Everyone /\ steps \in 0..MaxSteps

\* A password is in the form of the first step and nowhere else: once it was
\* accepted it is forgotten, whatever was typed meanwhile (login.vue:87, 122).
PasswordForgotten == password => page = "login" /\ step = "password"

\* The message shown is about the step that is shown, unless that step was left
\* while its request was under way (login.vue:131, 147, 159).
ErrorIsOwn ==
  error # None /\ ~astray =>
    error \in IF step = "code" THEN {"code"} ELSE {"password", "demo", "sso", "over"}

\* The box is open exactly while its minute runs, a tab that shows the mail has
\* one of the two timers, and the login page has none (IdleDialog.vue:31-71):
\* a tab that nobody uses gets to its logout.  Left out: a logout that failed.
TimersFollow ==
  /\ dialog = logoutTimer
  /\ page = "login" => ~dialog /\ ~idleTimer
  /\ page = "mail" /\ leaving = None /\ ~stranded => dialog \/ idleTimer

\* « Aucun contenu de mail ne doit survivre en mémoire après déconnexion »
\* (useMailApi.ts:120): the lists, after a logout, but for an answer that comes late.
ListsForgotten ==
  [][(leaving \in Ways) /\ leaving' = None /\ ~late' => \A d \in kept' : d[1] # "lists"]_vars

\* Who is logged in is who was last asked for in this tab: no session is opened
\* for the account of an attempt that was given up (login.vue:157, 2fa.post.ts:19).
\* Left out: another tab, whose pending login would be continued here.
LoginIsAsAsked == [][user' \notin {None, user} /\ ~foreign' => user' = asked']_vars

\* The whole of the comment of useMailApi.ts:120.  Refuted: the identities, which
\* are fetched once (compose.ts:161), survive the logout, and serve the next account.
NothingSurvives == page = "mail" /\ ~late /\ ~foreign => \A d \in kept : d[2] = user
=============================================================================

--------------------------- MODULE MCMailSessions ---------------------------
(* A session at both ends, in one run of TLC: the store and the pool of the    *)
(* server (MailSessions), the tab of a browser from its login to its logout    *)
(* (LoginPage), the page of the second factor and of the sessions              *)
(* (SecurityPage), and the folders beside the mail (FolderNav).  They share no *)
(* state: `which` names the one that moves, the others stay where they begin.  *)
(* There is a temporal property, hence no symmetry.                            *)
EXTENDS MailSessions

CONSTANTS a1, a2, demo, None, Sent, Refused

VARIABLES
  which,
  site, cookie, page, step, password, busy, answer, error, user, dialog, idleTimer, logoutTimer,
  leaving, fetching, kept, asked, astray, foreign, stranded, late, steps,       \* LoginPage
  factor, last, others, request, scanned, status, setup, codes, box, listed,
  crossed, lapsed, made,                                                        \* SecurityPage
  tree, nextId, shown, load, current, collapsed, open, asking, behind, raced,
  strayed, wrong, moves                                                         \* FolderNav

tabPart == <<site, cookie, page, step, password, busy, answer, error, user, dialog, idleTimer,
             logoutTimer, leaving, fetching, kept, asked, astray, foreign, stranded, late, steps>>
factorPart == <<factor, last, others, request, scanned, status, setup, codes, box, listed,
                crossed, lapsed, made>>
foldersPart == <<tree, nextId, shown, load, current, collapsed, open, asking, behind, raced,
                 strayed, wrong, moves>>

Tab == INSTANCE LoginPage WITH Accounts <- {a1, a2}, Demo <- demo, TwoFactor <- {a2}, MaxSteps <- 6
Security == INSTANCE SecurityPage WITH dialog <- box, steps <- made, MaxSteps <- 5
Folders == INSTANCE FolderNav WITH
  Paths <- {<<1>>, <<2>>, <<1, 1>>, <<2, 1>>, <<1, 1, 1>>, <<2, 1, 1>>},
  Existing <- {<<1>>, <<1, 1>>}, dialog <- open, requests <- asking, stale <- behind,
  astray <- strayed, steps <- moves, MaxSteps <- 2

SessionsInit ==
  /\ which \in {"pool", "tab", "security", "folders"}
  /\ Init /\ Tab!Init /\ Security!Init /\ Folders!Init
  /\ which # "pool" => \A s \in Sids : ~renewable[s]
  /\ which # "security" => ~factor.on /\ ~others

SessionsNext ==
  /\ UNCHANGED which
  /\ \/ which = "pool" /\ Next /\ UNCHANGED <<tabPart, factorPart, foldersPart>>
     \/ which = "tab" /\ Tab!Next /\ UNCHANGED <<vars, factorPart, foldersPart>>
     \/ which = "security" /\ Security!Next /\ UNCHANGED <<vars, tabPart, foldersPart>>
     \/ which = "folders" /\ Folders!Next /\ UNCHANGED <<vars, tabPart, factorPart>>

\* The fairness of MailSessions: it is about its variables, which only move with it.
SessionsSpec == SessionsInit /\ [][SessionsNext]_<<which, vars, tabPart, factorPart, foldersPart>> /\ Fairness

----------------------------------------------------------------------------
(* Properties: those of the four modules, each for the part that moves.    *)

\* A tab shows what it was asked for and its timers lead to its logout (LoginPage);
\* the second factor that is shown is the one in force (SecurityPage); the folders
\* beside the mail are those of the server, and what is done to a row is done to its
\* folder (FolderNav).
TabsSound ==
  CASE which = "tab" -> Tab!TypeOK /\ Tab!PasswordForgotten /\ Tab!ErrorIsOwn /\ Tab!TimersFollow
    [] which = "security" ->
         Security!TypeOK /\ Security!ShownIsInForce /\ Security!PanelIsTrue /\ Security!ListIsTrue
    [] which = "folders" -> Folders!TypeOK /\ Folders!FoldersSound
    [] which = "pool" -> TRUE

\* Every request is answered and every backend closed (MailSessions); a tab is
\* logged in as it asked, and forgets the lists with its logout (LoginPage).
SessionsEnd == EverythingEnds /\ Tab!LoginIsAsAsked /\ Tab!ListsForgotten
=============================================================================

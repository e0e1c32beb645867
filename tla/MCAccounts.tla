----------------------------- MODULE MCAccounts -----------------------------
(* What the server keeps of its users, in one run of TLC: logins (Login,     *)
(* OidcFlow), sessions (Sessions), identities and demonstration accounts      *)
(* (OwnerData), and how the server is installed and announced to devices      *)
(* (Setup).  The five share no state: `which` names the one that moves, the   *)
(* others stay where they begin.                                              *)
EXTENDS Login, TLC

CONSTANTS o1, None

VARIABLES
  which,
  file, backup, running, sealed, checked, forced, edits, runs                    \* Setup

sessionPart == <<clock, owner, stored, created, lastSeen, accessed, inside, revoking, before>>
oidcPart == <<instant, flowJar, jar, flow, grant, idp, call, session, pending>>
ownerPart == <<accounts, mailboxes, identities, prefs, sessions, requests, visits, made>>
setupPart == <<file, backup, running, sealed, checked, forced, edits, runs>>

ASSUME SessionLimits == Store!LimitsAssumption
ASSUME OwnersApart == Data!AccountsAssumption
ASSUME OidcBounds == Sso!BoundsAssumption

----------------------------------------------------------------------------
(* Setup: arguments, a few configurations of Roundcube, edits by hand.     *)

Unset == "unset"
Short == 1  \* Short of Setup; 2 is its Drawn(1)

Args(host, imapPort, answer, domains, public, force) ==
  [host |-> host, imapHost |-> Unset, smtpHost |-> Unset, imapPort |-> imapPort, smtpPort |-> 0,
   answer |-> answer, domains |-> domains, publicHost |-> public, force |-> force]
MCArguments ==
  {Args("mail", 0, Unset, {"d1"}, Unset, FALSE), Args("mail", 143, Unset, {"d1", "d2"}, Unset, TRUE),
   Args("local", 0, Unset, {"d1"}, Unset, FALSE), Args("local", 0, Unset, {"d1"}, "mail", TRUE),
   Args(Unset, 0, "mail", {}, Unset, TRUE)}
Info(scheme, port, placeholder) ==
  [scheme |-> scheme, host |-> "mail", port |-> port, legacyPort |-> 0, placeholder |-> placeholder]
Rc(imap, smtp, mail, user) ==
  [imap |-> imap, smtp |-> smtp, sieveHost |-> Unset, mailDomain |-> mail, usernameDomain |-> user]
MCRoundcubes ==
  {None, Rc(Info("tls", 143, TRUE), Info("ssl", 465, FALSE), {"d2"}, {"d1"}),
   Rc(Info("none", 993, FALSE), None, {}, {"d1"})}
Oidc(issuer) == [methods |-> {"oidc"}, issuer |-> issuer, client |-> TRUE]
Master(password) ==
  [methods |-> {"password", "oidc"}, issuer |-> "https", client |-> TRUE,
   ssoAuth |-> "master", masterUser |-> TRUE, masterPassword |-> password]
Ldap(url, tls, bound) ==
  [ldapUrl |-> url, startTls |-> tls, bindDn |-> bound, bindPassword |-> bound, baseDn |-> TRUE]
MCChanges ==
  {Oidc("https"), Oidc("http"), Master("short"), Master("long"), [ssoAuth |-> "master"]} \union
  {Ldap("ldap", Unset, TRUE), Ldap("ldap", "true", TRUE), Ldap("ldaps", Unset, TRUE),
   Ldap("ldaps", "true", FALSE), Ldap("ldap-local", Unset, FALSE)} \union
  {[backend |-> "mock"], [backend |-> "mock", demo |-> "true"], [demo |-> "true"], [demo |-> "perhaps"],
   [production |-> FALSE], [allowMock |-> TRUE], [verify |-> "false"],
   [verify |-> "false", allowInsecure |-> TRUE],
   [imapHost |-> Unset], [mainHost |-> "mail"], [imapPort |-> 143, imapSecure |-> Unset],
   [smtpPort |-> 465, smtpSecure |-> Unset], [publicHost |-> "mail", publicSmtpPort |-> 465],
   [domains |-> {}], [domains |-> {"d1", "d2"}], [defaultDomain |-> "none"], [defaultDomain |-> "d2"],
   [username |-> "localpart"], [forwardDomains |-> {}],
   [sessionPassword |-> Short], [dataKey |-> 0], [dataKey |-> 2]}

Install == INSTANCE Setup WITH Hosts <- {"mail", "local"}, Loopback <- "local",
             Domains <- {"d1", "d2", "universite.example"}, Arguments <- MCArguments,
             Roundcubes <- MCRoundcubes, Changes <- MCChanges, MaxEdits <- 2, MaxRuns <- 2

----------------------------------------------------------------------------

AccountsInit ==
  /\ which \in {"login", "oidc", "sessions", "owners", "setup"}
  /\ Init /\ Store!Init /\ Sso!Init /\ Data!Init /\ Install!Init
  /\ which # "sessions" => \A s \in Attempts : owner[s] = o1

AccountsNext ==
  /\ UNCHANGED which
  /\ \/ which = "login" /\ Next /\ UNCHANGED <<sessionPart, oidcPart, ownerPart, setupPart>>
     \/ which = "oidc" /\ Sso!Next /\ UNCHANGED <<vars, sessionPart, ownerPart, setupPart>>
     \/ which = "sessions" /\ Store!Next /\ UNCHANGED <<vars, oidcPart, ownerPart, setupPart>>
     \/ which = "owners" /\ Data!Next /\ UNCHANGED <<vars, sessionPart, oidcPart, setupPart>>
     \/ which = "setup" /\ Install!Next /\ UNCHANGED <<vars, sessionPart, oidcPart, ownerPart>>

AccountsSpec == AccountsInit /\ [][AccountsNext]_<<which, vars, sessionPart, oidcPart, ownerPart, setupPart>>

Symmetry == Permutations(Attempts)

----------------------------------------------------------------------------
(* Properties: those of the five modules.                                  *)

\* The server runs with what was checked, loses no key, and tells every mail program
\* the same servers (Setup).  The types of the other parts are those of Sessions and
\* OidcFlow.  Each is evaluated for the part that moves: the others are as at the
\* beginning, a state they are checked in when they move.
ServerSound ==
  CASE which = "oidc" -> Sso!TypeOK
    [] which = "sessions" -> Store!TypeOK
    [] which = "setup" -> Install!TypeOK /\ Install!InstallationSound /\ Install!ClientsAgree
    [] which \in {"login", "owners"} -> TRUE
=============================================================================

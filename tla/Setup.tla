------------------------------- MODULE Setup -------------------------------
(* The configuration of an installation: colombe-setup.mjs, which deduces    *)
(* it from its arguments and from a configuration of Roundcube, checks it    *)
(* and writes the environment file; the edits of an administrator; the       *)
(* server, which reads the file when it starts (loadConfig, startup-guard)   *)
(* and seals the secrets of second factors with a key of that file.  Texts   *)
(* are abstracted to what the checks tell apart; the network probes of the   *)
(* scripts, which change nothing, are left out.  The last part says what     *)
(* that configuration tells the devices of a user (server/lib/devices).      *)
EXTENDS Integers, FiniteSets, TLC

CONSTANTS
  Hosts,       \* names of mail servers, and
  Loopback,    \*   the one that is this machine
  Domains,     \* domains of addresses
  Unset,       \* a variable that is absent or empty
  Arguments,   \* what setup may be called with, or answered
  Roundcubes,  \* configurations of Roundcube, or None
  None,
  Changes,     \* what an administrator writes at one time: variables and values
  MaxEdits,    \* bound: edits by hand
  MaxRuns      \* bound: runs of setup

VARIABLES
  file,     \* the environment file, or None
  backup,   \* its copy .bak, or None
  running,  \* the configuration the server runs with, or None
  sealed,   \* keys that seal secrets of the database
  checked,  \* history: the configuration setup has validated for the file as it
            \*   is, None after an edit
  forced,   \* history: files that were overwritten
  edits, runs

vars == <<file, backup, running, sealed, checked, forced, edits, runs>>

\* Secrets: 0 is none, 1 one that is too short; setup draws the others.
Short == 1
Drawn(n) == 2 * n

Blank ==
  [production |-> FALSE, backend |-> Unset, demo |-> Unset, mainHost |-> Unset,
   imapHost |-> Unset, imapPort |-> 0, imapSecure |-> Unset,
   smtpHost |-> Unset, smtpPort |-> 0, smtpSecure |-> Unset,
   sieveHost |-> Unset, servername |-> Unset, publicHost |-> Unset, publicSmtpPort |-> 0,
   verify |-> Unset, allowInsecure |-> FALSE, allowMock |-> FALSE,
   domains |-> {}, defaultDomain |-> Unset, username |-> Unset, forwardDomains |-> {},
   sessionPassword |-> 0, dataKey |-> 0,
   ldapUrl |-> Unset, startTls |-> Unset, bindDn |-> FALSE, bindPassword |-> FALSE, baseDn |-> FALSE,
   methods |-> {}, issuer |-> Unset, client |-> FALSE,
   ssoAuth |-> Unset, masterUser |-> FALSE, masterPassword |-> Unset]

----------------------------------------------------------------------------
(* loadConfig.                                                             *)

First(a, b) == IF a # Unset THEN a ELSE b
Port(n, fallback) == IF n = 0 THEN fallback ELSE n
Flag(raw, fallback) == IF raw \in {"true", "false"} THEN raw = "true" ELSE fallback
IsFlag(raw) == raw \in {"true", "false", Unset}

IsMock(e) == e.backend = "mock"
IsDemo(e) == Flag(e.demo, FALSE)
HostOf(e, own) == First(First(own, e.mainHost), IF IsMock(e) THEN Loopback ELSE Unset)
ImapHost(e) == HostOf(e, e.imapHost)
SmtpHost(e) == HostOf(e, e.smtpHost)
ImapPort(e) == Port(e.imapPort, 993)
SmtpPort(e) == Port(e.smtpPort, 587)
ImapSecure(e) == Flag(e.imapSecure, ImapPort(e) # 143)
SmtpSecure(e) == Flag(e.smtpSecure, SmtpPort(e) = 465)
MockDomain == "universite.example"
LoginDomains(e) == IF e.domains = {} /\ IsMock(e) THEN {MockDomain} ELSE e.domains
Methods(e) == IF e.methods = {} THEN {"password"} ELSE e.methods
HasOidc(e) == "oidc" \in Methods(e)
IsMaster(e) == e.ssoAuth = "master"

\* Problems that only production has.
SecretsProblem(e) ==
  e.sessionPassword <= Short \/ e.dataKey <= Short \/ e.dataKey = e.sessionPassword
MockProblem(e) == IsMock(e) /\ ~IsDemo(e) /\ ~e.allowMock
VerifyProblem(e) == ~Flag(e.verify, TRUE) /\ ~e.allowInsecure

LdapProblem(e) ==
  e.ldapUrl # Unset /\
    \/ e.ldapUrl = "http" \/ e.bindDn # e.bindPassword \/ ~e.baseDn \/ ~IsFlag(e.startTls)
    \/ e.ldapUrl = "ldap" /\ ~Flag(e.startTls, FALSE)

OidcProblem(e) ==
  HasOidc(e) /\ (IsDemo(e) \/ e.issuer \notin {"https", "http-local"} \/ ~e.client)

MasterProblem(e) ==
  \/ e.ssoAuth \notin {"oauth2", "master", Unset}
  \/ IsMaster(e) /\ ~HasOidc(e)
  \/ IsMaster(e) /\ (~e.masterUser \/ e.masterPassword # "long" \/ IsMock(e) \/ IsDemo(e))

LoginProblem(e) ==
  \/ ~IsMock(e) /\ e.domains = {}
  \/ e.defaultDomain \notin LoginDomains(e) \union {"none", Unset}
  \/ e.username \notin {"email", "localpart", Unset}

\* loadConfig finds a problem, of those it lists all.
HasProblem(e) ==
  \/ e.backend \notin {"imap", "mock", Unset}
  \/ IsDemo(e) /\ ~IsMock(e)
  \/ ImapHost(e) = Unset \/ SmtpHost(e) = Unset
  \/ \E raw \in {e.demo, e.imapSecure, e.smtpSecure, e.verify} : ~IsFlag(raw)
  \/ e.production /\ (SecretsProblem(e) \/ MockProblem(e) \/ VerifyProblem(e))
  \/ LoginProblem(e) \/ LdapProblem(e) \/ OidcProblem(e) \/ MasterProblem(e)
  \/ \E m \in Methods(e) : m \notin {"password", "oidc"}

\* The only domain there is, unless the administrator says otherwise.
DefaultDomain(e) ==
  IF e.defaultDomain = Unset
  THEN IF Cardinality(LoginDomains(e)) = 1 THEN CHOOSE d \in LoginDomains(e) : TRUE ELSE Unset
  ELSE IF e.defaultDomain = "none" THEN Unset ELSE e.defaultDomain

\* What other programs are told to connect to: not to this machine.
Client(e, internal, port, secure, implicit) ==
  LET host == First(e.publicHost, IF internal = Loopback THEN Unset ELSE internal)
      public == IF implicit = 465 THEN Port(e.publicSmtpPort, port) ELSE port
  IN  [host |-> host, port |-> public,
       ssl |-> IF public = port THEN secure ELSE public = implicit]

Config(e) ==
  [production |-> e.production, mock |-> IsMock(e), demo |-> IsDemo(e),
   imap |-> [host |-> ImapHost(e), port |-> ImapPort(e), secure |-> ImapSecure(e)],
   smtp |-> [host |-> SmtpHost(e), port |-> SmtpPort(e), secure |-> SmtpSecure(e)],
   sieve |-> First(e.sieveHost, ImapHost(e)),
   servername |-> First(e.servername, ImapHost(e)),
   imapClient |-> Client(e, ImapHost(e), ImapPort(e), ImapSecure(e), 993),
   smtpClient |-> Client(e, SmtpHost(e), SmtpPort(e), SmtpSecure(e), 465),
   verify |-> Flag(e.verify, TRUE), allowInsecure |-> e.allowInsecure, allowMock |-> e.allowMock,
   domains |-> LoginDomains(e), defaultDomain |-> DefaultDomain(e),
   chosenDomain |-> e.defaultDomain, localpart |-> e.username = "localpart",
   forwardDomains |-> IF e.forwardDomains = {} THEN LoginDomains(e) ELSE e.forwardDomains,
   ldap |-> [url |-> e.ldapUrl, tls |-> Flag(e.startTls, FALSE), password |-> e.ldapUrl # Unset /\ e.bindPassword],
   methods |-> Methods(e), master |-> HasOidc(e) /\ IsMaster(e),
   sessionPassword |-> e.sessionPassword, dataKey |-> e.dataKey]

\* normalizeLoginEmail: the address that a login stands for, or None.
Normalized(login, c) ==
  LET domain == First(login.domain, c.defaultDomain)
  IN  IF domain = Unset \/ domain \notin c.domains THEN None
      ELSE [name |-> login.name, domain |-> domain]

\* authUsername: what is presented to the mail server.
AuthUsername(address, c) ==
  [name |-> address.name, domain |-> IF c.localpart THEN Unset ELSE address.domain]

----------------------------------------------------------------------------
(* colombe-setup.                                                          *)

\* resolveHost: the port may be a key of its own, in the old style.
Resolved(info) == [info EXCEPT !.port = Port(info.port, info.legacyPort)]

\* securityFromHostInfo
Security(info, implicit) ==
  CASE info.scheme = "ssl" -> TRUE
    [] info.scheme \in {"tls", "tcp"} -> FALSE
    [] OTHER -> Port(info.port, implicit) = implicit

\* A server: the argument, or what Roundcube says, whose port replaces that of
\* the arguments, or an answer; Unset where the script gives up.
Server(own, port, asked, info, default, implicit) ==
  IF own = Unset /\ info # None
  THEN [host |-> IF info.placeholder THEN asked ELSE info.host,
        port |-> Port(Resolved(info).port, default),
        secure |-> Security(Resolved(info), implicit)]
  ELSE [host |-> First(own, asked), port |-> Port(port, default),
        secure |-> IF implicit = 993 THEN Port(port, default) # 143
                   ELSE Port(port, default) = implicit]

Imap(args, rc) ==
  Server(First(args.imapHost, args.host), args.imapPort, args.answer,
         IF rc = None THEN None ELSE rc.imap, 993, 993)

\* The server of the mail that is sent is that of IMAP when nothing names it.
Smtp(args, rc) ==
  Server(First(args.smtpHost, args.host), args.smtpPort,
         IF rc # None /\ rc.smtp # None THEN args.answer ELSE Imap(args, rc).host,
         IF rc = None THEN None ELSE rc.smtp, 587, 465)

DomainsAsked(args, rc) ==
  IF args.domains # {} \/ rc = None THEN args.domains
  ELSE IF rc.mailDomain # {} THEN rc.mailDomain ELSE rc.usernameDomain

Given(b) == IF b THEN "true" ELSE "false"

\* The environment setup deduces, with secrets drawn for this run.
Deduced(args, rc, n) ==
  LET imap == Imap(args, rc)
      smtp == Smtp(args, rc)
  IN  [Blank EXCEPT
        !.production = TRUE, !.backend = "imap",
        !.imapHost = imap.host, !.imapPort = imap.port, !.imapSecure = Given(imap.secure),
        !.smtpHost = smtp.host, !.smtpPort = smtp.port, !.smtpSecure = Given(smtp.secure),
        !.verify = "true",
        !.sieveHost = IF rc # None /\ rc.sieveHost # Unset THEN rc.sieveHost ELSE imap.host,
        !.domains = DomainsAsked(args, rc), !.forwardDomains = DomainsAsked(args, rc),
        !.publicHost = args.publicHost,
        !.servername = IF imap.host = Loopback /\ args.publicHost = Unset THEN imap.host ELSE Unset,
        !.sessionPassword = Drawn(n), !.dataKey = Drawn(n) + 1]

\* serializeEnv, and the file as it is read back.
Serialized(e) == e

\* Fault: no copy is kept.
WrittenOver(e, force) ==
  /\ file # None => force
  /\ file' = e /\ UNCHANGED backup
  /\ forced' = IF file = None THEN forced ELSE forced + 1

\* writeEnvFile: an existing file is kept, or copied and overwritten.
Written(e, force) ==
  /\ file # None => force
  /\ file' = e
  /\ backup' = IF file = None THEN backup ELSE file
  /\ forced' = IF file = None THEN forced ELSE forced + 1

\* A run that gives up, for want of a host, of a domain or of --force, changes nothing.
RunSetup(args, rc) ==
  LET e == Deduced(args, rc, runs + 1)
  IN  /\ runs < MaxRuns
      /\ runs' = runs + 1
      /\ IF e.domains # {} /\ e.imapHost # Unset /\ e.smtpHost # Unset /\ ~HasProblem(e)
            /\ (file = None \/ args.force)
         THEN Written(Serialized(e), args.force) /\ checked' = Config(e)
         ELSE UNCHANGED <<file, backup, checked, forced>>
      /\ UNCHANGED <<running, sealed, edits>>

----------------------------------------------------------------------------
(* The administrator and the server.                                       *)

Init ==
  /\ file = None /\ backup = None /\ running = None /\ sealed = {}
  /\ checked = None /\ forced = 0 /\ edits = 0 /\ runs = 0

\* Some variables are written, the key only before the server runs.
Edit(change) ==
  /\ file # None /\ edits < MaxEdits
  /\ "dataKey" \in DOMAIN change => sealed = {} /\ running = None
  /\ file' = change @@ file
  /\ file' # file
  /\ checked' = None /\ edits' = edits + 1
  /\ UNCHANGED <<backup, running, sealed, forced, runs>>

\* getConfig, in startup-guard: the process ends when there is a problem.
Start ==
  /\ file # None
  /\ running' = IF HasProblem(file) THEN None ELSE Config(file)
  /\ UNCHANGED <<file, backup, sealed, checked, forced, edits, runs>>

\* store/twofactor.ts: a secret is sealed with the key of the configuration.
Seal ==
  /\ running # None /\ running.production
  /\ sealed' = sealed \union {running.dataKey}
  /\ UNCHANGED <<file, backup, running, checked, forced, edits, runs>>

Next ==
  \/ \E args \in Arguments, rc \in Roundcubes : RunSetup(args, rc)
  \/ \E change \in Changes : Edit(change)
  \/ Start \/ Seal

Spec == Init /\ [][Next]_vars

----------------------------------------------------------------------------
(* Properties.                                                             *)

TypeOK ==
  /\ \A e \in {file, backup} \ {None} : DOMAIN e = DOMAIN Blank
  /\ \A k \in sealed : k > Short
  /\ forced \in 0..MaxRuns

\* A server that runs was told, one way or another, all it needs: mail servers,
\* the domains of its users, and in production secrets that differ.
RunsComplete ==
  running # None =>
    /\ {running.imap.host, running.smtp.host, running.sieve, running.servername} \subseteq Hosts
    /\ running.domains # {} /\ running.forwardDomains # {}
    /\ running.defaultDomain \in running.domains \union {Unset}
    /\ running.production =>
         Cardinality({running.sessionPassword, running.dataKey} \ {0, Short}) = 2

\* docs/admin: what production never does unless a variable of its own allows it,
\* through every fallback: demonstration accounts, certificates that nobody
\* verifies, the password of the directory or the master user's where they leak.
RunsGuarded ==
  running # None =>
    /\ running.production =>
         /\ running.mock => running.demo \/ running.allowMock
         /\ running.verify \/ running.allowInsecure
    /\ running.ldap.password => running.ldap.url \in {"ldaps", "ldap-local"} \/ running.ldap.tls
    /\ running.master => ~running.mock /\ ~running.demo
    /\ running.demo => running.methods = {"password"}

Logins == [name : {"jean"}, domain : Domains \union {Unset}]

\* Two addresses that may log in are two users of the mail server, but where it
\* knows names without a domain and there are several domains; a name without a
\* domain stands for the address of the only domain, never of one among several.
LoginsAreOwn ==
  running # None =>
    LET addresses == {Normalized(l, running) : l \in Logins} \ {None}
    IN  /\ \A a, b \in addresses :
             AuthUsername(a, running) = AuthUsername(b, running) =>
               a = b \/ (running.localpart /\ Cardinality(running.domains) > 1)
        /\ Normalized([name |-> "jean", domain |-> Unset], running) # None =>
             Cardinality(running.domains) = 1 \/ running.chosenDomain # Unset

\* What setup has written is what it has validated, and the server starts with it.
WrittenIsChecked ==
  checked # None => file # None /\ ~HasProblem(file) /\ Config(file) = checked

\* The secrets that are sealed can be opened with the file or its copy, as long as
\* the file was overwritten once at most.
KeysKept ==
  forced <= 1 => sealed \subseteq {e.dataKey : e \in {file, backup} \ {None}}

Standard(server, implicit, other) ==
  server.port \in {implicit, other} => server.secure = (server.port = implicit)

\* docs/admin/configuration.md: TLS is implicit on ports 993 and 465, and not on
\* 143 and 587.  Of a server that Roundcube names without its port setup says the
\* contrary: securityFromHostInfo takes the port to be the implicit one.
PortsMatch ==
  checked # None => Standard(checked.imap, 993, 143) /\ Standard(checked.smtp, 465, 587)

\* What an installation can count on, whatever setup and edits made of its file,
\* where Roundcube names the ports of its servers.
InstallationSound ==
  RunsComplete /\ RunsGuarded /\ LoginsAreOwn /\ WrittenIsChecked /\ KeysKept /\ PortsMatch

----------------------------------------------------------------------------
(* The devices.  How other mail programs are set up for the account of a     *)
(* user: the autoconfig document of Thunderbird, the answer to the           *)
(* autodiscover request of Outlook, the profile of Apple and the guides of   *)
(* the settings page, all made from the configuration the server runs with.  *)
(* A document is the record of what a program reads in it; markup, texts and *)
(* escaping are left out.                                                    *)

\* The servers are published when their names are known.
Published(c) == c.imapClient.host # Unset /\ c.smtpClient.host # Unset

\* A server as a document says it: `tls` is its word for the security.
Told(server, ssl, starttls) ==
  [host |-> server.host, port |-> server.port, tls |-> IF server.ssl THEN ssl ELSE starttls]

----------------------------------------------------------------------------
(* Thunderbird: one document for all users, with a token for the name, that  *)
(* the program replaces by a part of the address it was given.               *)

Autoconfig(c) ==
  IF ~Published(c) \/ c.domains = {} THEN None
  ELSE [domains |-> c.domains,
        incoming |-> Told(c.imapClient, "SSL", "STARTTLS"),
        outgoing |-> Told(c.smtpClient, "SSL", "STARTTLS"),
        token |-> IF c.localpart THEN "EMAILLOCALPART" ELSE "EMAILADDRESS"]

Replaced(token, address) ==
  IF token = "EMAILLOCALPART" THEN [address EXCEPT !.domain = Unset] ELSE address

\* A program looks the document up at the domain of the address.
Thunderbird(c, address) ==
  LET document == Autoconfig(c)
  IN  IF document = None \/ address.domain \notin document.domains THEN None
      ELSE [imap |-> document.incoming, smtp |-> document.outgoing,
            login |-> Replaced(document.token, address)]

----------------------------------------------------------------------------
(* Outlook: the request may hold an address, be too long or make no sense.   *)

Requests(addresses) ==
  {[method |-> "GET", size |-> "small", address |-> None]} \union
  [method : {"POST"}, size : {"small", "declared", "sent"}, address : addresses \union {None}]

\* A body over the limit counts as none, whether its length was announced or not.
LimitedBody(r) == IF r.method # "POST" \/ r.size # "small" THEN None ELSE r.address

ExtractedEmail(body, domains) ==
  IF body = None THEN None ELSE IF body.domain \in domains THEN body ELSE None

Protocol(server, login) ==
  [host |-> server.host, port |-> server.port, login |-> login,
   SSL |-> IF server.ssl THEN "on" ELSE "off", Encryption |-> IF server.ssl THEN Unset ELSE "TLS"]

Autodiscover(c, r) ==
  IF ~Published(c) THEN None
  ELSE LET email == ExtractedEmail(LimitedBody(r), c.domains)
           login == IF email = None THEN None ELSE AuthUsername(email, c)
       IN  [imap |-> Protocol(c.imapClient, login), smtp |-> Protocol(c.smtpClient, login)]

\* Encryption, when it is there, goes before SSL.
Outlook(protocol) ==
  [host |-> protocol.host, port |-> protocol.port,
   tls |-> IF protocol.Encryption = "TLS" THEN "STARTTLS" ELSE IF protocol.SSL = "on" THEN "SSL" ELSE "none"]

----------------------------------------------------------------------------
(* Apple: a profile per user, which replaces the one of the same identity.   *)

StableUuid(address, role) == <<role, address>>

AppleProfile(c, address) ==
  IF ~Published(c) THEN None
  ELSE [email |-> address,
        incoming |-> [host |-> c.imapClient.host, port |-> c.imapClient.port, useSSL |-> TRUE,
                      login |-> AuthUsername(address, c)],
        outgoing |-> [host |-> c.smtpClient.host, port |-> c.smtpClient.port, useSSL |-> TRUE,
                      login |-> AuthUsername(address, c)],
        uuids |-> {StableUuid(address, "account"), StableUuid(address, "profile")}]

----------------------------------------------------------------------------
(* The settings page: the same values to copy by hand.                       *)

DeviceSettings(c, address) ==
  [email |-> address, username |-> AuthUsername(address, c),
   imap |-> IF c.imapClient.host = Unset THEN None ELSE c.imapClient,
   smtp |-> IF c.smtpClient.host = Unset THEN None ELSE c.smtpClient,
   forwardDomains |-> c.forwardDomains]

HasPublicServers(s) == s.imap # None /\ s.smtp # None

ServerValues(server, username) == Told(server, "SSL", "STARTTLS") @@ [login |-> username]

\* The steps of the Gmail application, and those of Outlook and Thunderbird.
GmailAppSteps(s) == <<ServerValues(s.imap, s.username), ServerValues(s.smtp, s.username)>>
Steps(s) == <<ServerValues(s.imap, s.username), ServerValues(s.smtp, s.username)>>

\* An Apple device that is set up by hand finds the security out by itself.
AppleManualSteps(s) ==
  <<[host |-> s.imap.host, port |-> s.imap.port, login |-> s.username],
    [host |-> s.smtp.host, port |-> s.smtp.port, login |-> s.username]>>

\* Gmail on a computer sends through the server: no incoming one.
SendAsSteps(s) == ServerValues(s.smtp, s.username)

\* What the page shows, once its request is over or has failed.
Page(c, address, failed) ==
  IF failed THEN "error"
  ELSE IF HasPublicServers(DeviceSettings(c, address)) THEN "guides" ELSE "not published"

----------------------------------------------------------------------------
(* Properties.                                                             *)

\* Whatever program a user takes and however it is set up, it is told the same
\* servers, never without encryption, and the name the webmail itself presents to
\* the mail server; a document that names a user is for that one, and nobody
\* outside the domains of the establishment is given a name.
ClientsAgree ==
  running # None =>
    LET addresses == {Normalized(l, running) : l \in Logins} \ {None}
        others == [name : {"jean"}, domain : Domains \ running.domains]
        imap == Told(running.imapClient, "SSL", "STARTTLS")
        smtp == Told(running.smtpClient, "SSL", "STARTTLS")
    IN  /\ \A a \in addresses :
             /\ Page(running, a, FALSE) = "guides" <=> Autoconfig(running) # None
             /\ Published(running) =>
                  LET login == AuthUsername(a, running)
                      s == DeviceSettings(running, a)
                  IN  /\ Thunderbird(running, a) = [imap |-> imap, smtp |-> smtp, login |-> login]
                      /\ Steps(s) = <<imap @@ [login |-> login], smtp @@ [login |-> login]>>
                      /\ GmailAppSteps(s) = Steps(s) /\ SendAsSteps(s) = Steps(s)[2]
                      /\ \A i \in 1..2 :
                           Steps(s)[i] = AppleManualSteps(s)[i] @@ [tls |-> Steps(s)[i].tls]
                      /\ \A b \in addresses :
                           AppleProfile(running, a).uuids \intersect AppleProfile(running, b).uuids # {} => a = b
        /\ Published(running) =>
             \A r \in Requests(addresses \union others) :
               LET answer == Autodiscover(running, r)
               IN  /\ Outlook(answer.imap) = imap /\ Outlook(answer.smtp) = smtp
                   /\ answer.imap.login = answer.smtp.login
                   /\ r.address = None \/ r.address \in others => answer.imap.login = None
                   /\ answer.imap.login # None => answer.imap.login = AuthUsername(r.address, running)
=============================================================================

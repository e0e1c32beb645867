# Verification of Colombe

Colombe is a webmail: a single Node process (Nitro handlers under
`src/server/`) in front of an IMAP, an SMTP and a ManageSieve server, and a
single-page application (`src/app/`). This directory holds TLA+ specifications
of its parts, the TLC configurations that check them, and proofs checked by
TLAPS.

## 1. Inventory

There is one process and one thread; what makes the system hard is `await`.
Between two awaits a function is atomic; at each await any other handler, timer
or socket event may run. State is kept in maps indexed by the session (`sid`),
by timers that capture a `sid`, and by promises. The pages have the same
problem: a form is open for one thing while the answer about another is on its
way. Around these are programs that run alone and whose difficulty is in what
they are given: the setup, the import of a Roundcube, the generation of scripts.

| Component (source) | State | Operations | Hard behaviour |
|---|---|---|---|
| ManageSieve pool (`server/lib/session/sieve-pool.ts`) | `clients`, `queues`, idle timers | `run`, `delete`, idle timeout, retry | FIFO of promises across errors; replacement of a connection in the middle of a call; timers by sid |
| ManageSieve client (`server/lib/sieve/client.ts`) | socket, `waiters`, `lineQueue`, `closed` | connect, commands, close | lines are matched with commands by their order only; timeouts, LOGOUT and STARTTLS in between |
| Filters (`server/lib/sieve/service.ts`, `server/api/filters/`) | script cache per sid; scripts on the server | list, save, activate, vacation, forward, apply | cache against another session's writes; read-modify-write; re-execution by the pool |
| Filter pages (`app/components/settings/{Filters,Vacation,Forward}Settings.vue`, `FilterDialog.vue`, `app/stores/sieve.ts`) | selected set, script, status with its age, dialogs | select, save, confirm, import, settings | answers without a sequence number; nested confirmations |
| Script generation and matching (`server/lib/sieve/{generate,scan,apply-match}.ts`) | none | generate, read back, select | two readings of the same rules: the server's and Colombe's |
| Live watcher (`server/lib/live/`, `server/api/events.get.ts`) | `sessions` (reference count, timers, client), bus, streams | acquire, release, connect, reconnect, publish | first connect that fails under joined streams; grace period; reconnection |
| Sessions and backends (`server/lib/session/{credentials,pool}.ts`, `server/lib/auth/oidc/`, `server/utils/mail-session.ts`) | credentials, shared refreshes, pooled backends with timers | `requireMail`, refresh, expire, logout, reauthenticate, sweep | state read before an await; refresh tokens that rotate; awaited closes |
| IMAP backend (`server/lib/mail/imap.ts`, `server/api/{messages,folders}/`) | the mailbox of the account; the connection | folders, moves, flags, deletions, search, listing | each command may be followed by another request, an arrival or a failure |
| Compose window (`app/stores/compose.ts`, `server/api/{drafts,send}.post.ts`) | one form, `dirty`, autosave timer, delayed sends; drafts on the server | open, edit, autosave, close, discard, send, cancel | answers that come late or not at all; several forms, one store |
| Form of a message (`app/components/mail/ComposeWindow.vue`, `RecipientInput.vue`, `app/utils/compose.ts`) | recipients, identity, signature, attachments, reminder | reply, type, suggest, add files, submit | suggestions and blurs by timers; identities cached |
| Login (`server/api/auth/{login,2fa}.post.ts`, `server/lib/auth/`, `server/lib/session/rate-limit.ts`) | pending logins, rate limits, last TOTP step | login, second factor, enable, disable | checks before an await, counts after it |
| Tab and its settings (`app/pages/login.vue`, `IdleDialog.vue`, `SecuritySettings.vue`) | step of the login, timers, status of the factor | log in, confirm, log out, idle | answers of the tab before; one cookie for all tabs |
| OIDC login (`server/lib/auth/oidc/`) | flow in a sealed cookie | start, callback | several tabs, an answer used twice, the limiter |
| Stores on SQLite (`server/lib/store/`) and their pages | identities, preferences, contacts, groups, responses, two-factor | create, update, remove, import | at most one default identity; merges; optimistic saves |
| Demo accounts (`server/lib/demo/accounts.ts`) | accounts | create, evict, expire | limits; requests of an evicted account in flight |
| Client caches, list and reader (`app/stores/{cache,mail,prefs}.ts`, `MessageList.vue`, `[uid].vue`) | LRU maps, pages, selection, pending removals, timers | load, revalidate, tick, act, remove, undo, open, mark | late answers against invalidations, and against what is ticked |
| Folder navigation (`FolderNav.vue`) | the tree, the open route, one form | create, rename, move, delete, empty | the route against a renamed tree; joined loads |
| Setup and start guard (`scripts/colombe-setup.mjs`, `server/lib/config/`, `server/plugins/startup-guard.ts`) | `.env`, keys, configuration | answers, checks, forced re-runs, start | a re-run over an edited file |
| Device setup (`server/lib/devices/{autoconfig,autodiscover,mobileconfig}.ts`) | none | four descriptions of the same servers | their agreement |
| Roundcube import (`scripts/import-roundcube.mjs`, `scripts/lib/roundcube.mjs`) | the tables read, the database written | read the configuration, import, dry run | re-execution after edits |
| LDAP directory (`server/lib/ldap/`) | cache, client | search | read only |
| Conversions, branding, UI | none, or read once | | not concurrent |

How they interact: every mail route calls `requireMail`, which reads the
credentials, refreshes the OIDC token and gets the backend of the session from
the pool; the filters routes call `SievePool.run`; the stream of events acquires
a watcher and subscribes to the bus; a logout deletes the session from the
stores and from both pools; the compose window calls the drafts and send routes;
the pages call the routes of their component and keep its answers in stores that
live as long as the tab.

What makes each component correct:

- *SievePool*: one call at a time per session, in order, always answered; every
  connection is closed in the end; a timer only closes what it was armed for.
- *SieveClient*: a command gets its own answer, whole; nobody waits on a closed
  client; the socket is released.
- *Filters*: a script does what the rules ask and sends only where a user has
  confirmed; changes are told to the owner; the pages show what is stored.
- *LiveWatcher*: a bounded number of watchers, one connection each, counted by
  those who hold it, released when they have gone; changes reach the streams.
- *Sessions*: backends only for live sessions; one refresh per token; a revoked
  session stays out; the pool drains; a tab's timers lead to its logout.
- *Mailbox*: no message is lost that nobody removed for good; none becomes read
  unasked; the special folders stay; lists show what there is.
- *Compose*: text is not lost; a save or send only removes the draft it
  replaces; what is delivered is what was submitted and not cancelled.
- *Login*: no session without a code that is due, no code twice, a bounded
  number of guesses however many logins run at once.
- *Owners*: one default identity; what was evicted is not read again; cards,
  addresses and groups agree and imports can be repeated.
- *Client*: the list removes what was chosen and comes to show the folder; what is
  ticked, which every button acts on, is what the user sees ticked; the reader shows the message it was opened for.
- *Setup*: the server runs with what was checked, and keys survive a re-run.

## 2. Plan

The order is that of the damage a fault would do, then of the difficulty.

1. `SievePool` with the abstract `SerialExecutor` it implements, `SieveClient`,
   `LiveWatcher`, `MailSessions`, `Compose`, `Login`, `Mailbox`, `MailView` --
   modelled, checked, and the invariants of their runs proved (section 6).
2. `SieveFilters`, `OidcFlow`, `Sessions`, `MessageSelection`, `Reader`,
   `OwnerData` -- modelled, checked, and their invariants proved; `SieveScripts`,
   `AddressBook`, `Listing`, `Setup` -- modelled and checked.
3. The pages and the import: `ComposeForm`, `FiltersPage`, `SieveForms`,
   `LoginPage`, `SecurityPage`, `ContactsPage`, `ContactsSettings`,
   `SettingsForms`, `Preferences`, `FolderNav`, `Roundcube` -- modelled and checked.
4. What a proof would still add: the invariants of the other pages.
   What TLAPS cannot prove is at the end of section 6.

Specifications are written so that they can be proved about: sets of names as
CONSTANTS, the few assumptions named, one action per operation. Only
`Roundcube`, about which nothing is proved, declares RECURSIVE operators.

## 3. The modules

`PROJECT.json` maps each definition to the lines it stands for. An action is the
code between two awaits; a page's action is what a user, an answer or a timer
does to it. The header of each module says what it abstracts.

### The core, with proofs

**SievePool and SerialExecutor.** `pool[s]` is the entry of session s in the map
of clients, `timers[s]` the connections whose idle timer is armed, `conn[c]` the
state of connection c. `last[s]` is the entry of `queues`, `prev[t]` the promise
that call t was chained on; `pc`, `sidOf`, `inflight` and `outcome` are its
progress through `run()`, which is cut at its awaits: `Run`, `Start`, `Opened`,
`Command`, `Answer`, then `FnDone`, or `FnConnectionError`, `ClosedForRetry` and
a second try; `CleanQueue` tidies `queues`. `SerialExecutor` says what callers
rely on: each call is made, begins when the earlier ones of its session are over,
and ends, once. `Status` maps the places of a call to it.

**SieveClient.** One connection. The server sends lines on `wire`, each tagged
with the command it answers and its place in the answer; the tag is what the
properties compare and what the code cannot see. `Receive(n)` is one chunk of n
lines: `drain()` hands them to `waiters` or keeps them in `lineQueue`. A reader
goes on in a microtask (`micro`), after the whole chunk; macrotasks wait until
the microtasks are done (`Busy`). `disturbed` remembers timeouts, a LOGOUT written
under a command, and malformed lines.

**LiveWatcher.** `sessions[s]` is the entry of the map, `watcher[w]` a watcher,
named after the stream that created it, with its count, its client and its
timers; `imap[c]` a client of ImapFlow, with the watcher that owns it and the lost
client it replaces. A watcher that has left the map may still have a client and
timers. `due` holds the streams a detected change must still be pushed to.

**MailSessions.** `alive`, `access` and `renewable` are the credentials;
`inflight[s]` the shared refresh; `lead[r]` the request whose refresh r awaits;
`pool`, `timers`, `closing` the entries, the armed idle timers and the calls of
`delete` that await a close. An OIDC session can be reauthenticated at any time.

**Compose.** `window` is the store; `call[k]` a chain of awaits (a save, a close
and what follows it, an opening, a send); `drafts` and `nextUid` the folder of
drafts. The text of a message is a version number: `latest`, `submitted`,
`discarded` and `undone` are history variables, `sent` what the SMTP server was
given. A careful user waits until requests have ended, another does not.

**Login.** `status[a]` takes attempt a from its password through the pending
login to the session; `hits` and `ipHits` are the failures counted for the account and
for the address, `now` their clock; `totp`, `recovery`, `secrets` and `issues` the
second factor, its last accepted step and its recovery codes. `uses` and `wrong`
are history variables: what was accepted, and which failures were wrong codes.

**Mailbox.** `folder[p]` is a folder with its messages, its next uid and its
subscription, `req[r]` a request with the command it has come to and the path
and uids it has read. Commands of two requests, arrivals (`Deliver`) and failures
come in any order, and the user may choose another trash or another way to delete
at any moment (`Choose`). The page that empties a folder is two commands, SEARCH and
FETCH, each of which may find nothing. `removed`, `marked` and `strays` are history
variables: what was deleted for good, what a user has asked to mark, and what was
in a folder being deleted after a page of it came back empty. `req[r].sure` says that
the settings have not changed under a deletion.

**MailView.** `server` is the folder with the number of its changes, `inbox` whether
it is INBOX, the only one whose changes are announced to the tab
(`live/watcher.ts:136`, 145); `list` is what the tab shows of it and what it hides,
or `None` while another page is open, which may be one of the same folder or of
another one (`user.elsewhere`). `loads` are the requests for the page, of the list that
is open or of one that has gone; all of them write `cachedPage`, and only those of
the open list are shown (`shown`). `removals[j]` is a removal with the progress of its
timer and its request, `act` a request on a selection, `folders` the counters.
Requests, removals, their timers and the action outlive the list (`alive` is FALSE
then): what they end with loads the page again unless the tab is elsewhere.
`user.chosen` and `env.gone` are history variables: what the user removed and did
not bring back in time, and what this tab has taken out of the folder.

### Around the core

| Module | Models |
|---|---|
| `SieveFilters` | the routes of the filters command by command, the cache of two sessions and another client, the retry, the alerts; texts edited by hand, whose header and blocks may disagree |
| `SieveScripts` | the script generated from rules, whether a server can read it, its reading by the mail server and by « apply » as operators, compared over bounded rules and messages |
| `Sessions` | the store of credentials with two limits, the sweep, the page of active sessions |
| `OidcFlow` | start and callback in one browser with several tabs, codes used once, confirmation of a sensitive action |
| `OwnerData` | identities, preferences and the accounts of the demonstration with their eviction |
| `AddressBook` | contacts, groups, the imports of vCard, CSV and Roundcube as functions of the book |
| `MessageSelection` | what is ticked in the list, by clicks, ranges, menus and keys, over pages that are loaded late or not at all, and every request on it |
| `Reader` | the page of a message with its cache and its timer |
| `Listing` | search, pages and conversations while messages arrive and go, and commands are refused, throw or fail |
| `Setup` | the setup and its re-runs, the start, and what is told to other mail programs |
| `ComposeForm` | recipients, suggestions, files, signatures, the reminder, and the message transmitted and stored |
| `FiltersPage`, `SieveForms` | the page of the sets, whose loads may fail half-way, the dialog of a rule, vacation and forward |
| `LoginPage`, `SecurityPage` | a tab from login to logout; the second factor in the settings |
| `ContactsPage`, `ContactsSettings`, `SettingsForms`, `Preferences`, `FolderNav` | the pages that edit what a store keeps |
| `Roundcube` | reading a Roundcube, and importing it repeatedly |

### MC modules

Each run loads TLC once, so an MC module holds several parts that share no
state. A variable (`which`, or `instance`) is chosen in the initial state and
names the part that moves; the others stay where they begin. A property is that
of one part, which the others leave alone, or a CASE over the parts. This changes
nothing for a part: its behaviours are those of its own specification. `MCLiveWatcher` and `MCCompose` moreover hold two
instances of the same module on the same variables: one where everything may go
wrong, and one where the user or the network is regular and more is promised.
Invariants that a proof uses are stated in the component's module, with such
premises in them, so that the theorem and the runs state the same formula: `Login`
ends with `Sessions`, `OidcFlow` and `OwnerData`, and `MailView` with
`MessageSelection` and `Reader`, each an instance with variables of its own.

## 4. What the runs check

| Run | Parts and bounds | Shows |
|---|---|---|
| `sieve_pool` | 1 session, 3 calls, 3 connections | `CallsApart`, `ConnectionsKept`, `ExecutesSerially`, `EverythingEnds` |
| `sieve_client` | handshake, 2 commands, LOGOUT, 2 data lines; FiltersPage 2 operations, SieveForms 4 rules and 3 steps | `WireSound`, `PagesSound`, `CommandsSettle` |
| `live_watcher` | any: 2 sessions, 3 streams, 2 clients, 1 watcher allowed, every failure; orderly: 1 session, 3 clients, lost connections; SettingsForms 4 steps, ContactsSettings 3, Preferences 2 | `HoldersSound`, `SettingsSound`, `WatchersLeave`, `ChangesPushed` |
| `mail_sessions` | 1 OIDC session (renewable or not), 3 requests, 2 backends, 2 overlapping closes; LoginPage 6 steps, SecurityPage 5, FolderNav 6 paths and 2 steps | `PoolSound`, `TabsSound`, `SessionsEnd` |
| `compose` | careful: 2 messages, 2 versions, 4 drafts, 3 calls, no failure; hasty: 1 message, 2 calls, every failure; ContactsPage 3 contacts and 2 steps; AddressBook 3 addresses, 3 contacts, 3 requests | `ComposeSound`, `WritingKept`, `SendsEnd` |
| `accounts` | Login 3 attempts, 2 secrets, 2 issues, 4 ticks; OidcFlow 2 flows and 2 callbacks, 4 instants, windows of 1; Sessions 3 sessions of 2 owners; OwnerData 2 demo accounts of 3 visitors, 3 identities and requests; Setup 2 runs and 2 edits | `LoginSound`, `RevokedStayOut`, `OidcSound`, `DataConsistent`, `ServerSound`, `LoginSteps` |
| `mail` | Mailbox 5 personal paths, 2 choices of the trash, 2 messages, 2 requests, 3 uids; Listing 1 arrival, removal and failure; ComposeForm 3 steps | `MailboxSound`, `PartsSound` |
| `rules` | SieveFilters 2 sessions, 2 calls, 1 failure, texts without a header, or with one that names other destinations than the blocks; SieveScripts over its rules and messages; Roundcube texts of 2 statements and their comments, 2 imports, 1 error, 1 edit | `ScriptsSound`, `FiltersSound`, `ChangesTold`, `ImportsForetold` |
| `client` | MailView INBOX or another folder, 1 message, 1 removal, 2 steps, 1 change, 1 failure; MessageSelection 3 messages on 2 pages, 3 steps, 2 requests, 1 failure; Reader 2 messages, cache of 1 | `RemovesOnlyChosen`, `TicksSound`, `ReaderSound`, `ViewSound`, `ViewSettles` |

Each passing run also checks the type invariants, some of them as a conjunct of
`ReaderSound`, `SettingsSound` and `WritingKept`. The bounds:

- *SievePool*: sessions share nothing but the set of connections, and the proofs
  cover any number of them; so one session is checked, with two calls for a queue
  and a third for a queue whose tail is replaced while its predecessor cleans up.
- *SieveClient*: two commands, so that a line of one can reach the other; two data
  lines, so that a reader is cut between two of them.
- *LiveWatcher*: three streams for a session that is left, joined and shared; two
  sessions for the limit of one watcher to be reached. Clients are reused.
- *MailSessions*: three requests for one that leads a refresh, one that shares it
  and one of another generation.
- *Compose*: two messages, so that an answer can hit the wrong form; two versions,
  so that one can be stale; three calls for a save, a send and an opening.
- *Login*: limits of one and two, so that they are reached, and three attempts, so
  that one passes after a limit while another is being verified; four ticks, so
  that a window, a pending login and a step of TOTP expire.
- *Mailbox*: paths of depth two, so that a rename and a deletion have children,
  and two requests, so that every command of one meets every command of another;
  `Batch` 1 makes emptying a folder take several commands.
- *MessageSelection*: pages of two rows, for a range and a second page, one row of
  which moves up when another leaves; three steps are a tick, what disturbs it,
  and what acts on it.
- *The pages*: `MaxSteps` counts what the user does and what fails; answers are
  not counted. Two or three suffice for the disorders that were found: a
  request, a second choice, the answer of the first. Most were also checked once
  with one step more.

Where an invariant assumes something away (`mixed`, `crossed`, `missed`,
`disturbed` and their like are history variables that remember that it has
happened), section 5 says what happens then.

Deadlock is not checked: the constants bound the number of calls, streams,
commands and edits, and every instance ends when they are used up.

Fairness. Nothing is assumed of users, and of networks and mail servers only that
what is pending ends: timers fire (`setTimeout`), promises settle because
connects and commands have timeouts or their sockets break, and continuations
run. In `SieveClient` not even that: the timer of a reader is modelled, and the
server may be silent. Weak fairness of each such step is enough, for a pending
step stays enabled until it is taken, with one exception: strong fairness of
`FnDone` in `SievePool` says that a handler sends finitely many commands, `FnDone`
being disabled while each of them is in flight. Two waits in the code have no
bound, and the properties are silent about them: the TLS handshake of STARTTLS
(`sieve/client.ts:439`), and the debounce of a mailbox that changes without a
pause (`live/watcher.ts:133`).

Seeded faults. Beside an operator there are sometimes variants of it headed
`Fault`: slips that this code could well contain (a guard dropped, a reset
forgotten, a timer kept). They are used by no specification. `PROJECT.json`
lists under `mutants` which property fails when one replaces the original, which
shows that the property is not vacuous.

## 5. What the code does otherwise than it says

Each of these runs finds a counterexample to a sentence of the documentation
or of a comment; `PROJECT.json` quotes it under `findings`.

- `mail_doc_trash`: the deletion of a folder destroys messages that never went
  through the trash, although « rien n'est perdu sans passer par elle »
  (`api/folders.delete.ts:11-12`). The loop that empties the folder ends at the first
  empty page. A page is also empty when SEARCH is answered NO (`imap.ts:422-423`),
  or when another session moves its messages between SEARCH and FETCH
  (`imap.ts:395-407`); and what arrives after the last page is deleted too.
- `filters_doc_rules`: with no active set, saving the vacation or the forward
  replaces the rules of an inactive set called `colombe`.
- `compose_doc_edit`: an edit made while a save is in flight is marked as saved by
  its answer, and lost by the next close.

Lesser disagreements have no run of their own. Where a name is given, the module
states the claim under that name, and TLC refutes it on the instance of its run.

Server:

- `FollowedIsRetried` (`LiveWatcher`): after one failed reconnection there is no
  other while tabs stay open. With failed first connects a grace period of a
  removed watcher may remove the next one of the session, which has two
  connections meanwhile, and the counts are no longer exact; hence the premise of
  `HoldersSound`.
- `GrantsOnlyAlive`, `DestroyedOnlyWhenStale`, `NoStaleTimer` (`MailSessions`): a
  session logged out during a refresh gets a backend nevertheless; the late
  refusal of an old refresh token destroys a session just reauthenticated; an
  idle timer that outlives its entry closes the next backend early.
- `AnswersAreOwn` (`SieveClient`): a command that times out in a second try leaves
  its client pooled, and its late answer is taken for that of the next command.
  LOGOUT is written under a command of the same connection by the idle timer or a
  logout. A malformed line sets `closed`, and the socket is left to the server.
- `AlertsEveryChange` (`SieveFilters`): a call that runs again after its connection
  broke may be refused, or finds nothing left to confirm, and no alert is sent of a
  redirection that is in place (`docs/guide/filtres.md:62`). An alert whose sending
  fails is only logged (`service.ts:584-610`).
- `SieveFilters`: a redirection may start that nobody confirms at that moment, though
  enabling one « déclenche une demande de confirmation » (`docs/guide/filtres.md:60`).
  The redirection of a vacation saved while it is disabled is confirmed then, and not
  when it is enabled (`service.ts:227-232`, `generate.ts:296`). The header of a text
  edited by hand is read as it stands (`parse-json.ts:22-37`) and is a comment for the
  scan (`scan.ts:42-45`): rules that it names and the blocks do not come back with the
  next save of the vacation, without a question or an alert (`service.ts:516-525`).
  Activating a set asks nothing either. What does hold is that every destination was
  once named in a request that was confirmed (`ConfirmedRedirects`), and that what is
  written unasked names none that the script did not (`NothingAddedSilently`).
- `SieveScripts`: conditions that the pages offer give a script that no server reads,
  so that its save is refused: on a date, whose test lacks an argument
  (`generate.ts:146`), and « commence par », whose star is behind the closing quote
  (92). A strict server refuses three more: a vacation with a period, which compares
  by value without requiring `relational` (244, 248), a condition on spam, whose
  comparator is not required (152), and a negated one, for its parentheses (159).
  `WellFormed` says which scripts every server must accept, `Readable` which it can;
  between the two a save may end either way, and what the properties say is about the
  scripts that were accepted.
- `DestroysOnlyMatching` (`SieveScripts`): for « apply », « is not » and « does not
  contain » are true of what the summary of a message does not show.
- `Mailbox`: the trash is recognised among the listed folders; when the chosen one
  is unsubscribed, renamed or does not exist, deletions are for good
  (`api/folders/subscribe.post.ts:6`). A deletion reads the preferences and then the
  list, so it may also be for good under settings that changed in between.
  `NothingLost` takes what is deleted so for removed, and excepts the `strays` of the
  run `mail_doc_trash`.
- `Listing`: a search answered NO is a list of nothing for the library, not an error,
  so it is not tried again on everything, as a comment says of rejected searches
  (`imap.ts:412`), and the list is empty by mistake (`imap.ts:436-441`). It is
  `refused` in `NeverEmptyByMistake`. Only criteria on which the library throws fall
  back to TEXT.
- `EvictedLeavesNothing` (`OwnerData`): a request in flight writes rows of an evicted
  demo account. They are never read again (`SessionsLive`).
- `ImportKeepsNames` (`AddressBook`): a card that has a name without a display name,
  as one that was collected or added in the settings, is renamed by an import,
  which « ne remplace jamais un champ déjà renseigné » (`contacts.ts:389-390`, 417).
- `OidcFlow`: a flow « à usage unique » is used by two callbacks of two tabs that
  left together; one of them opens the session.
- `Setup`: where Roundcube names a server without its port, the port and the
  security written contradict each other; two forced re-runs lose the data key
  when the first backup is overwritten.
- `Listing`, over all folders: the newest are taken by uid and merged by date.
- `EditsSurvive` (`Roundcube`): a second import takes back edits of identities
  and responses. An array with integer keys is read as its word, and an assignment
  within a string counts.

Pages:

- `NothingLost` of `Compose` with `Faults = {"save"}`: a close whose save fails resets
  the window nevertheless; the form of a failed send is opened again as
  unmodified; without `Careful`, the late answer of a save gives its draft to
  another message (`OwnDraftOnly`). `CancelledNotSent` with `Faults = {"late"}`: a
  cancel after the end of the delay does not cancel. That the toast is still
  there is the behaviour of vue-sonner, modelled as external.
- `ComposeForm`: « Envoyer quand même », in the reminder of a forgotten attachment, is
  the button that cancels the dialog: it closes and nothing is sent
  (`ComposeWindow.vue:277`, against `docs/dev/PLAN-v3.md:130-132`). Ctrl+Enter with suggestions open picks one and sends; text not yet
  committed is lost with the window; files read while the window changes are
  dropped or go to the next form; identities are cached once. A form with a
  recipient that is not an address, or with an identity that was deleted, is
  refused by the drafts too: its autosaves fail, and closing drops it. A text that
  names an address twice adds it twice.
- `MailView`: only INBOX is watched. The list of another folder is not told of what
  other clients change in it, nor of the end of a removal or an action of a list that
  has gone (`untold`): it stays as it is until the user loads it again. A list that
  has gone loads the page again and writes the cache as if it were open
  (`MessageList.vue:213`, 217, 254). `PendingHidden`, refuted with a third step: a list
  that is left and opened again within the five seconds hides nothing any more, and
  shows the messages whose removal can still be undone. `MessageSelection`: three things leave messages ticked,
  or let them be acted upon, that no row shows, and `unseen` holds them: the menus
  use `items` under the skeleton and the error; x, e and # use a `focusedUid` that
  no row has any more; a load that began without content may fail after another
  has shown it, and puts the error over the rows (`MessageList.vue:82`). A star put
  back by negation after two clicks may differ from the server's (`stale`). The
  watch that reloads the list (`MessageList.vue:107`) does not look at the sort and
  the order, which `setSort` only puts in the URL: on the first page a chosen sort
  shows with the next load only, unlike `tests/e2e/r1.spec.ts:80`. `ReadIsMarked` (`Reader`): a page left before its timer
  leaves the message unread. The preview of an attachment, which is not modelled,
  may land in the dialog of another one opened meanwhile (`[uid].vue:328`).
- `CanAddCondition` (`SieveForms`): the advanced mode without a condition never gets
  one. `EmptiedIsStopped`: emptying the address of the forward is
  refused by the schema, so the page cannot stop one. The form of the vacation
  holds the list of addresses of the cache, not a copy: an address that was added
  and not saved is there again when the page is opened within the minute
  (`VacationSettings.vue:47`, 62). `FiltersPage`: a status that
  arrives after an invalidation is kept for its minute; the script of one set may
  be shown, and saved, under the name of another (`mixed`). A load assigns the status
  before it asks for the rules: when that fails, the rules of the old active set stay
  under the name of the new one, and the next switch of a rule writes them over it
  (`FiltersSettings.vue:59-70`, 80-86); a set whose script cannot be read shows that of
  the set before, under its own name (49-52). `missed` remembers both.
- `NothingSurvives` (`LoginPage`): identities and preferences of one account are kept
  in the stores for the next of the same tab. `OpenedByUser` (`SecurityPage`): the
  dialog of the recovery codes comes back after it was confirmed.
- `ActsOnShown` (`ContactsPage`): the late answer of one contact is shown in the panel
  of another, whose buttons act on the other. `EditKept` (`ContactsSettings`): the
  answer of a rename closes the edit of another name.
- `SettingsForms`: after a load that failed the page shows an empty list and a form
  that works (`IdentitiesSettings.vue:37-42`, `ResponsesSettings.vue:31-36`); the list then
  holds only what was created since, and `missing` what it lacks.
- `DefaultOnlyAsChosen` (`SettingsForms`): a created default identity leaves the star
  of the old one, which becomes the default again with its next save.
- `AutoStays` (`Preferences`): the automatic language, chosen while a save of another
  is under way, ends as that other.
- `RouteExists` (`FolderNav`): a rename or move above the open folder leaves the page
  on a path that is gone. « Vider le dossier » of a personal folder is always
  refused (`api/folders/empty.post.ts:18`).

Hazards met while modelling that no property is about: `imap.ts:292` closes against
a pending connect; `mdn.post.ts` may send two receipts; `send.post.ts:70` and
`drafts.post.ts:28` may fail half-way; the dialog of a permanent deletion may clear
the messages that were chosen before its button reads them (`MessageList.vue:668`, 274-277),
which depends on the order of the events of the component library; a session read before its refresh is used
after it (`oidc/session.ts:31`).

## 6. What is proved

Eight modules hold proofs, for every value of the constants, infinite sets of
names included: each about the module it extends, and three of them also about modules
around the core, which are instances with variables of their own: at the end of
`Login` and of `MailView`, and in `SievePoolProofs`.
The theorems listed in `PROJECT.json` name the properties of the runs. None of
those invariants is inductive as it stands unless it is said below. TLC checked
each of them before it was proved.

| Module | Theorems | Properties of the runs they state |
|---|---|---|
| `SievePoolProofs` | `TypeCorrect`, `CallsApartCorrect`, `ConnectionsKeptCorrect`, `ExecutesSeriallyCorrect` | all of `sieve_pool` but the liveness |
| its part `SieveFilters` | `FiltersSoundCorrect`, `ChangesToldCorrect` | `FiltersSound`, `ChangesTold`, whose formulas it states of its own instance |
| `SieveClientProofs` | `TypeCorrect`, `AnswersAlwaysMatch`, `ClosedClientIsFinal`, `WireIsSound` | `WireSound` |
| `MailSessionsProofs` | `TypeCorrect`, `RefreshIsShared`, `PoolIsSound` | `PoolSound` |
| `LiveWatcherProofs` | `TypeCorrect`, `HoldersAreSound` | `HoldersSound` |
| `ComposeProofs` | `TypeCorrect`, `ComposeIsSound` | `ComposeSound` |
| `LoginProofs` | `TypeCorrect`, `LoginIsSound`, `OpensOnlyWithCode` | `LoginSound` |
| its part `Sessions` | `SessionsTypeCorrect`, `RevokedStayOutCorrect`, `LoginStepsCorrect` | `RevokedStayOut`, and with `OpensOnlyWithCode` `LoginSteps` |
| its part `OidcFlow` | `OidcSoundCorrect` | `OidcSound` |
| its part `OwnerData` | `DataConsistentCorrect` | `DataConsistent` |
| `MailboxProofs` | `TypeCorrect`, `MailboxIsSound` | `MailboxSound` |
| `MailViewProofs` | `TypeCorrect`, `OnlyChosenRemoved` | `RemovesOnlyChosen` |
| its part `MessageSelection` | `TicksAreSound` | `TicksSound` |
| its part `Reader` | `ReaderCorrect` | `ReaderSound` |

**SievePool.** `QueueInv` says how the entry of `queues` relates to its calls: the
calls of a session that are not cleaned up stand before the promise every later
call waits on (`PrevCoversEarlier`, `LastIsLatest`), so the clean-up of an entry
breaks no chain, and a call that had its turn has nothing unfinished before it
(`TurnTaken`). Hence `Serial`, and at most one call of a session is active.
`ConnInv` builds on that: what is pooled has the only timer of its session, and is
used by the active call or by none; an entry is made only when there is none.
For the refinement, `Start` is `Begin` because of `TurnTaken`, a call that settles is
`End`, and every other step is a stutter.

**SieveFilters.** Header and blocks of a text may say anything, so the invariant is
about the destinations that a script *mentions* in either. A call carries what it
will write, so `ConfirmedRedirects` needs that every destination mentioned in a call
that is past its check, and in a script that a session keeps, was named in a
confirmed request (`GoodCalls`, `CachedConfirmed`). For the alerts, a confirmed change
that was written without one is written by a call that comes to its
alert, or whose connection broke (`AlertsDue`); a call that reads the sets has a
connection that is alive (`DeadIsSeen`), so what it writes unasked it has read,
unless another session wrote since (`AddsNothing`, `foreign`).

**SieveClient.** As long as nothing disturbs the commands, at most one reader
reads, and it either waits or has its line (`OneReader`). What remains of its
answer is then exactly the lines in its microtask, the queue and the wire, in
that order, and nothing is left when nobody reads (`StreamInv`); each step moves
lines from one of the three to the next. A closed client has no waiter
(`ClosedInv`).

**MailSessions.** `EntryWillClose` is inductive: `getOrCreate()` arms the timer of
what it hands out, and `delete()` clears a timer only when it removes the entry or
awaits a close. `SharedRefresh` needs what the map of refreshes holds
(`InflightInv`).

**LiveWatcher.** Counts are about sets finite at every moment, which is part of
the invariant. A watcher counts no stream twice because the map sends a session
to a watcher of that session (`MapInv`), and has one connection because a connect
starts for a stream never seen or for a watcher whose reconnection is due, and
neither has one (`ClientsInv`).

**Compose.** Whatever fails, deliveries and waiting calls together are never more
than submissions (`SentInv`). Of a careful user, `CarefulInv` says where each form
is: one request at most is in flight, a message has one place at most, the form
there is its last version and replaces its only draft, and a message without a
place has its last version in its draft, or was sent or discarded.

**Login.** A limit is read when a password is sent and counted when it is refused;
what stays bounded is the failures of the window together with the passwords
being verified (`FailuresInv`). A code used once could come back only under the
secret in use, where the last step stands after it, or in the last issue of
recovery codes, whose used ones are gone (`StepsInv`, `IssuesInv`). The second
factor may be enabled between the two steps of a login: the second reads it again,
whence `OpensOnlyWithCode`, a property of steps that needs `TypeOK` only.

**Sessions.** Of the sessions of the account that were stored when `revoke-others`
began, those that are alive are still in its list (`RevokedInv`): one that the list
left out was past a limit, and no step brings it back, because `lastSeen` only
moves while a session is live. That a refused session stays
refused, and that a request ends only sessions of its account, are properties of
steps that need the types and this.

**OidcFlow.** What a code was exchanged for is in one place: a callback that
verifies the mailbox, a login that awaits its second factor, or a session
(`CodeInv`). A reauthenticated session keeps a demand at its origin, used by the
session's user within the lifetime of a flow and the latency of an exchange
(`OwnerInv`), which needs that the cookie was read in time (`ExchangeInv`).

**OwnerData.** Of the rows of an owner exactly one is the default one, unless there
are none (`RowsSound`), and each operation of the store keeps that, of the rows it
reads when the body of its request has come: it needs no lock, and no session that
still lives. No account is twice in the map of the demonstration (`Distinct`), since
a generated address is a new one: so the accounts left by an eviction are those that
did not go, and their mailboxes and sessions with them.

**Mailbox.** A request holds a path and uids that it read before other commands
took place. A path is created once and the uids of a folder only grow, so a step
leaves the entries of a folder as they were or gives it later uids (`Evolves`),
and that preserves what every other request counts on (`RequestOk`): that the
uids it will mark are of messages it was asked to mark, that what is left in
a folder about to be deleted is among the strays (`LeftAreStrays`), and that a
deletion whose settings did not change is for good only where they say so
(`Knows`). Nothing is assumed of the trash: it may be hidden, renamed, missing or
chosen anew at any moment. A command that takes a message out of a folder
puts it in another one, removes it for good as it was asked to, or deletes the
folder of a stray.

**MailView.** `TypeOK` carries what relates the parts: what a list shows it asked for
itself, though requests of lists that have gone come back among its own, and a
removal that waits for the page has one request for it, on which its end depends.
For the removals, what a removal or a move in flight names was chosen, and so was what
is gone (`Chosen`): an undo takes a message back out of what was chosen only if no
other request names it and it is not gone, and only a removal whose timer still
runs can be undone. That the list may be left, made anew or overwritten meanwhile
does not matter, because a removal keeps its own uids.

**MessageSelection.** Which rows are displayed depends on the page that is loaded, the
skeleton, the error and what is hidden; `SelectionShown` is inductive with the
types, since a step that displays less clears what is ticked or remembers it in
`unseen`. What is hidden is owed by a removal, or by the load that its answer
starts (`Owed`): a step that ends the one starts the other or shows the rows. A
star that may be put back is on a row of a page that is loaded (`StarsLoaded`).

**Reader.** The cache has one entry per message, whatever is evicted, patched or
loaded again, and an entry that is the object a page shows is of the message of that
page and has its flags: it is so because the page writes through it (`EntriesOk`).
That a late answer patches its own message, and not the one on screen,
is in the calls: each keeps the page it was sent from (`CallsOk`). As long as requests
come one at a time and nobody else acts, an entry differs from the server by no more
than what the request in flight is about to change (`Coherent`); so when none is in
flight, what is read from the cache is what the server has.

Assumptions. Null values are not members of the sets they complement; bounds are
natural numbers; in `Mailbox`, `PathsAssumption` says which folders are special or
personal; in `OwnerData`,
an address of the demonstration is none of a regular account (`visiteur-`*hex*); in
`Reader`, the cache holds at least one message (`MESSAGE_CACHE_SIZE` is 50). TLC
evaluates them in the runs.

Model-checked only:

- what holds under fairness, since TLAPS proves neither liveness nor ENABLED;
- the CASEs over parts of the MC modules: a theorem is about the component;
- functions over data (`SieveScripts`, `Listing`, `AddressBook`, `Setup`,
  `Roundcube`): what they compute for every input takes induction over data;
- the modules of the pages, whose invariants are checked with the run of a
  component (`PagesSound`, `SettingsSound`, `TabsSound`, and the parts of
  `PartsSound`, `ViewSound` and `WritingKept` that are about them). The other
  part of `WritingKept` is `ComposeSound` for a careful user without failures, an
  instance of `ComposeIsSound`.

## 7. What is not modelled

- The LDAP directory: a read-only search with a cache of bounded age. Its answers
  are among the suggestions of `ComposeForm`.
- The conversions of messages (composition, sanitising, printing), of vCard and
  CSV, and the parsing of what IMAP answers: pure functions with unit tests. The
  contents of messages, names and settings are model values.
- Cryptography: sealed cookies, hashes, TOTP as a function. A code is valid or not.
- The limit of the cache of pages in `MailView`, which holds one page; that of the
  cache of messages is in `Reader`.
- The activity log; the emptying of the trash at logout; header conditions, flag
  and header actions of filters; the quota gauge; the download of messages.
- Layout and texts of the interface. The state its components share is in the
  modules of the pages.
- The mock backends, deployment, `colombe-doctor`.
- UIDVALIDITY, which the code does not look at: a path is created once.

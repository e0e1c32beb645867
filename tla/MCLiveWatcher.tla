--------------------------- MODULE MCLiveWatcher ----------------------------
(* Two instances of LiveWatcher and the sections of the settings in one run   *)
(* of TLC.  "any" has two sessions, every failure and room for one watcher;   *)
(* "orderly" has one session and loses connections, but no first connect      *)
(* fails and no reconnection is refused.  "forms", "addresses" and "prefs"    *)
(* are SettingsForms, ContactsSettings and Preferences.  `instance' names the *)
(* part that moves, the others stay where they begin.  There are temporal     *)
(* properties, hence no symmetry.                                             *)
EXTENDS LiveWatcher

CONSTANTS s1, c1, c2, c3

VARIABLES
  instance,
  page, missing, items, nextId, list, selected, creating, form, saving, removing, asked,
  news, stale, across, forms,                                                 \* SettingsForms
  cards, rows, loading, query, debounce, loads, adding, editing, text, renames,
  deleting, dialog, deletes, doubled, crossed, count,                         \* ContactsSettings
  server, store, loaded, load, saves, localPref, loggedIn, asking,
  watched, choice, mixed, failed, blind, steps                                                 \* Preferences

formsPart == <<page, missing, items, nextId, list, selected, creating, form, saving, removing, asked,
               news, stale, across, forms>>
addressesPart == <<cards, rows, loading, query, debounce, loads, adding, editing, text, renames,
                   deleting, dialog, deletes, doubled, crossed, count>>
prefsPart == <<server, store, loaded, load, saves, localPref, loggedIn, asking, watched, choice,
               mixed, failed, blind, steps>>

Orderly == INSTANCE LiveWatcher WITH
  Clients <- {c1, c2, c3}, Failures <- {"network"}

Forms == INSTANCE SettingsForms WITH
  None <- NoClient, Sent <- s1, Refused <- c1, Limit <- 3, MaxSteps <- 4,
  rows <- list, dialog <- asked, crossed <- across, count <- forms

Addresses == INSTANCE ContactsSettings WITH
  Ids <- 1..3, Existing <- 1..2, Hits <- 2..3, None <- NoClient, Sent <- s1,
  Refused <- c1, MaxSteps <- 3

Prefs == INSTANCE Preferences WITH
  Langs <- {"fr", "en"}, Chosen <- {"en"}, Roles <- {"sent", "trash"}, Paths <- {"A"},
  None <- NoClient, Sent <- s1, MaxSteps <- 2, loading <- load, crossed <- mixed

Any == instance = "any"
Live == instance \in {"any", "orderly"}
all == <<instance, vars, formsPart, addressesPart, prefsPart>>

MCInit ==
  /\ instance \in {"any", "orderly", "forms", "addresses", "prefs"}
  /\ IF Any THEN Init ELSE Orderly!Init
  /\ ~Any => \A t \in Streams : sidOf[t] = s1
  /\ Forms!Init /\ Addresses!Init /\ Prefs!Init
  /\ instance # "forms" => page = "responses"
  /\ instance # "prefs" => server.language = "fr" /\ localPref = NoClient

MCNext ==
  /\ UNCHANGED instance
  /\ \/ Any /\ Next /\ UNCHANGED <<formsPart, addressesPart, prefsPart>>
     \/ instance = "orderly" /\ Orderly!Next /\ UNCHANGED <<formsPart, addressesPart, prefsPart>>
     \/ instance = "forms" /\ Forms!Next /\ UNCHANGED <<vars, addressesPart, prefsPart>>
     \/ instance = "addresses" /\ Addresses!Next /\ UNCHANGED <<vars, formsPart, prefsPart>>
     \/ instance = "prefs" /\ Prefs!Next /\ UNCHANGED <<vars, formsPart, addressesPart>>

\* The fairness of LiveWatcher, for the instance that runs.
MCFairness ==
  /\ \A w \in Streams :
       /\ WF_vars(Live /\ IF Any THEN ReconnectTimeout(w) ELSE Orderly!ReconnectTimeout(w))
       /\ WF_vars(Live /\ IF Any THEN GraceTimeout(w) ELSE Orderly!GraceTimeout(w))
       /\ WF_vars(Live /\ Publish(w))
  /\ \A c \in {c1, c2} : WF_vars(Any /\ ConnectEnds(c))
  /\ \A c \in {c1, c2, c3} : WF_vars(instance = "orderly" /\ Orderly!ConnectEnds(c))

MCSpec == MCInit /\ [][MCNext]_all /\ MCFairness

----------------------------------------------------------------------------

\* The types of the part that moves, and of the others where they begin.
MCTypeOK ==
  /\ IF Any THEN TypeOK ELSE Orderly!TypeOK
  /\ Forms!TypeOK /\ Addresses!TypeOK /\ Prefs!TypeOK

\* The settings show what the server has and store what was meant for it:
\* SettingsForms, ContactsSettings and Preferences.  And when connections are only
\* lost, HoldersSound counts exactly: the part of it that says so is for "orderly".
SettingsSound ==
  /\ MCTypeOK
  /\ CASE instance = "forms" -> Forms!FormsSound
       [] instance = "addresses" -> Addresses!AddressesSound
       [] instance = "prefs" -> Prefs!PrefsSound
       [] instance = "orderly" -> Orderly!HoldersSound
       [] OTHER -> TRUE

\* WatcherReleased: the watcher of a session that nobody follows any more leaves
\* the map, whatever fails (watcher.ts:184-206).
WatchersLeave ==
  \A s \in Sids :
    <>[](Any => Holders(s) = {}) => <>[](Any => sessions[s] = NoWatcher)

\* ChangesReachStreams: as long as connections are only lost, the changes that
\* were detected are pushed to the tabs that watch (watcher.ts:132-141, bus.ts).
\* And a change of the settings changes nothing it was not meant for: the default
\* identity and the special folders of SettingsForms and Preferences.
ChangesPushed ==
  /\ []<>(instance = "orderly" => due = {})
  /\ Forms!DefaultAsChosen /\ Prefs!RolesKept
=============================================================================

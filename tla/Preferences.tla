----------------------------- MODULE Preferences -----------------------------
(* The preferences of an account in one tab: the store (stores/prefs.ts), which    *)
(* applies a change at once and takes it back when its request fails, the settings *)
(* that change them (GeneralSettings.vue, FoldersSettings.vue), the row of the     *)
(* server (server/lib/store/prefs.ts), and the language, which is also kept in the *)
(* browser and follows the account (composables/useLanguage.ts).                   *)
EXTENDS Naturals, Sequences, SequencesExt, TLC

CONSTANTS
  Langs,       \* AppLocale
  Chosen,      \* languages the selector of the login page or an earlier visit left
  Roles,       \* of the special folders
  Paths,       \* folders they may be
  None, Sent,
  MaxSteps     \* bound: what the user does, and requests that fail

VARIABLES
  server,      \* the preferences: language, specialFolders
  store,       \* those of the tab
  loaded,
  loading,     \* loadPromise: None, Sent or the answer
  saves,       \* requests: [patch, previous, answer, role]
  localPref,   \* colombe.lang: None or a language
  loggedIn,
  asking,      \* the browser asks whether it may notify
  watched,     \* what the watcher of useLanguage saw last
  choice,      \* the language the user last chose in the settings (ghost)
  crossed,     \* two requests overlapped (history)
  failed,      \* the answer of a save was lost (history)
  blind,       \* the settings were changed before they were loaded (history)
  steps

vars == <<server, store, loaded, loading, saves, localPref, loggedIn, asking, watched, choice,
          crossed, failed, blind, steps>>

Step == steps < MaxSteps /\ steps' = steps + 1
Auto == "auto"
Default ==
  [language |-> Auto, specialFolders |-> [r \in Roles |-> None], desktopNotifications |-> FALSE,
   other |-> TRUE]
Others == {"desktopNotifications", "other"}
Patch(field, value) == [f \in {field} |-> value]

Init ==
  /\ \E l \in Langs \union {Auto}, p \in Paths :
       server = [Default EXCEPT !.language = l, !.specialFolders = [r \in Roles |-> p]]
  /\ store = Default /\ loaded = FALSE /\ loading = None /\ saves = <<>>
  /\ localPref \in Chosen \union {None} /\ loggedIn = FALSE /\ asking = FALSE /\ watched = None
  /\ choice = None /\ crossed = FALSE /\ failed = FALSE /\ blind = FALSE /\ steps = 0

\* Watchers run before anything else happens.
Value == IF loggedIn /\ loaded THEN store.language ELSE None
Flushed == watched = Value

----------------------------------------------------------------------------
(* The store.                                                              *)

\* load, shared by its callers: the layout, the list, the settings, the dialogs.
Load ==
  /\ loggedIn /\ ~loaded /\ loading = None /\ Flushed
  /\ loading' = Sent /\ crossed' = (crossed \/ saves # <<>>)
  /\ UNCHANGED <<server, store, loaded, saves, localPref, loggedIn, asking, watched, choice, failed, blind, steps>>

LoadServed ==
  /\ loading = Sent /\ loading' = server
  /\ UNCHANGED <<server, store, loaded, saves, localPref, loggedIn, asking, watched, choice, crossed, failed, blind, steps>>
LoadAnswered ==
  /\ loading \notin {None, Sent} /\ Flushed
  /\ store' = loading /\ loaded' = TRUE /\ loading' = None
  /\ UNCHANGED <<server, saves, localPref, loggedIn, asking, watched, choice, crossed, failed, blind, steps>>
LoadFails ==
  /\ loading # None /\ Step /\ loading' = None
  /\ UNCHANGED <<server, store, loaded, saves, localPref, loggedIn, asking, watched, choice, crossed, failed, blind>>

\* save: the change shows at once.
Save(patch, role) ==
  /\ saves' = Append(saves, [patch |-> patch, previous |-> store, answer |-> Sent, role |-> role])
  /\ store' = patch @@ store
  /\ crossed' = (crossed \/ saves # <<>> \/ loading # None)
  /\ blind' = (blind \/ ~loaded)

\* savePrefs: the patch over the row.
SaveServed(n) ==
  /\ saves[n].answer = Sent
  /\ server' = saves[n].patch @@ server
  /\ saves' = [saves EXCEPT ![n].answer = server']
  /\ UNCHANGED <<store, loaded, loading, localPref, loggedIn, asking, watched, choice, crossed, failed, blind, steps>>

SaveAnswered(n) ==
  /\ saves[n].answer # Sent /\ Flushed
  /\ store' = saves[n].answer /\ saves' = RemoveAt(saves, n)
  /\ UNCHANGED <<server, loaded, loading, localPref, loggedIn, asking, watched, choice, crossed, failed, blind, steps>>

\* The request, or its answer, is lost: the store takes the change back.
SaveFails(n) ==
  /\ Flushed /\ Step /\ failed' = (failed \/ saves[n].answer # Sent)
  /\ store' = saves[n].previous /\ saves' = RemoveAt(saves, n) /\ choice' = None
  /\ UNCHANGED <<server, loaded, loading, localPref, loggedIn, asking, watched, crossed, blind>>

----------------------------------------------------------------------------
(* The language.                                                           *)

\* The selector of the login page.
ChooseAtLogin(l) ==
  /\ ~loggedIn /\ Step /\ localPref' = l
  /\ UNCHANGED <<server, store, loaded, loading, saves, loggedIn, asking, watched, choice, crossed, failed, blind>>

Login ==
  /\ ~loggedIn /\ loggedIn' = TRUE
  /\ UNCHANGED <<server, store, loaded, loading, saves, localPref, asking, watched, choice, crossed, failed, blind, steps>>

\* The preference of the account wins; an automatic one takes what was chosen in
\* the browser, if anything was.
Watch ==
  /\ ~Flushed /\ watched' = Value
  /\ \/ Value \in Langs /\ localPref' = Value /\ UNCHANGED <<store, saves, crossed, blind>>
     \/ Value = Auto /\ localPref # None /\ Save(Patch("language", localPref), None)
        /\ UNCHANGED localPref
     \/ Value = Auto /\ localPref = None /\ UNCHANGED <<store, saves, localPref, crossed, blind>>
  /\ UNCHANGED <<server, loaded, loading, loggedIn, asking, choice, failed, steps>>

\* setLanguage of GeneralSettings.vue.
SetLanguage(l) ==
  /\ loggedIn /\ Flushed /\ l # store.language /\ Step
  /\ localPref' = (IF l = Auto THEN None ELSE l) /\ choice' = l
  /\ Save(Patch("language", l), None)
  /\ UNCHANGED <<server, loaded, loading, loggedIn, asking, watched, failed>>

\* The language that is shown (resolveAppLocale), None for that of the browser.
Locale == IF Value \in Langs THEN Value ELSE localPref

----------------------------------------------------------------------------
(* The other settings.                                                     *)

\* A select or a switch of GeneralSettings.vue: one preference, with its new value.
SetOther ==
  /\ loggedIn /\ Flushed /\ Step
  /\ Save(Patch("other", ~store.other), "other")
  /\ UNCHANGED <<server, loaded, loading, localPref, loggedIn, asking, watched, choice, failed>>

\* The notifications: they are only turned on once the browser granted them.
NotificationsChange ==
  /\ loggedIn /\ Flushed
  /\ \/ store.desktopNotifications /\ Step
        /\ Save(Patch("desktopNotifications", FALSE), "desktopNotifications") /\ UNCHANGED asking
     \/ ~store.desktopNotifications /\ ~asking /\ Step
        /\ asking' = TRUE /\ UNCHANGED <<store, saves, crossed, blind>>
     \/ asking /\ asking' = FALSE /\ Save(Patch("desktopNotifications", TRUE), "desktopNotifications")
        /\ UNCHANGED steps
     \/ asking /\ asking' = FALSE /\ UNCHANGED <<store, saves, crossed, blind, steps>>
  /\ UNCHANGED <<server, loaded, loading, localPref, loggedIn, watched, choice, failed>>

\* One role of the special folders, with all the others.

SetRole(r, p) ==
  /\ loggedIn /\ Flushed /\ store.specialFolders[r] # p /\ Step
  /\ Save(Patch("specialFolders", [store.specialFolders EXCEPT ![r] = p]), r)
  /\ UNCHANGED <<server, loaded, loading, localPref, loggedIn, asking, watched, choice, failed>>

Next ==
  \/ Load \/ LoadServed \/ LoadAnswered \/ LoadFails \/ Login \/ Watch
  \/ \E n \in DOMAIN saves : SaveServed(n) \/ SaveAnswered(n) \/ SaveFails(n)
  \/ SetOther \/ NotificationsChange
  \/ \E l \in Langs : ChooseAtLogin(l)
  \/ \E l \in Langs \union {Auto} : SetLanguage(l)
  \/ \E r \in Roles, p \in Paths \union {None} : SetRole(r, p)

Spec == Init /\ [][Next]_vars

----------------------------------------------------------------------------
(* Properties.                                                             *)

TypeOK ==
  /\ server.language \in Langs \union {Auto} /\ store.language \in Langs \union {Auto}
  /\ DOMAIN server.specialFolders = Roles /\ localPref \in Langs \union {None}
  /\ asking \in BOOLEAN
  /\ watched \in Langs \union {Auto, None} /\ steps \in 0..MaxSteps

Quiet == loaded /\ saves = <<>> /\ loading = None /\ Flushed

\* Once its requests have ended: the browser keeps the language of the account,
\* and none for an automatic one, whatever failed or crossed.  As long as no
\* requests crossed and no answer was lost, the tab has the preferences of the server and
\* the language last chosen is the one stored and shown.
PrefsSound ==
  Quiet =>
    /\ localPref = IF store.language \in Langs THEN store.language ELSE None
    /\ Locale = localPref
    /\ ~crossed /\ ~failed => store = server
    /\ ~crossed /\ ~failed /\ choice # None => server.language = choice

\* Choosing the folder of one role changes no other, as long as the preferences
\* were loaded, no requests crossed and no answer was lost; and whatever crosses or
\* is lost, one of the other settings only changes with a request of its own.
RolesKept ==
  [][/\ \A r \in Roles :
          server'.specialFolders[r] # server.specialFolders[r] =>
            crossed \/ failed \/ blind
            \/ \E n \in DOMAIN saves : saves[n].role = r /\ saves[n].answer = Sent
     /\ \A f \in Others :
          server'[f] # server[f] =>
            \E n \in DOMAIN saves : saves[n].role = f /\ saves[n].answer = Sent]_vars

\* Refuted: an automatic language that was chosen stays so.  When the request of an
\* earlier choice is still under way, its answer brings that language back to the
\* browser, and the watcher then stores it again (prefs.ts:72, useLanguage.ts:45).
\* The same watcher sends a choice again for as long as its request fails.
AutoStays == Quiet /\ ~failed /\ choice = Auto => server.language = Auto

=============================================================================

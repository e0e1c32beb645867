------------------------------ MODULE MailView ------------------------------
(***************************************************************************)
(* A tab with the list of a folder (MessageList.vue), the counters of the  *)
(* folders and the live changes.  A request is asked, served and answered  *)
(* in steps of its own, so that answers come late, out of order, or after  *)
(* the list that asked has gone.  The list shows all the messages of one   *)
(* folder, in one page.  Only INBOX is watched: the changes of another     *)
(* folder are announced to nobody.                                         *)
(***************************************************************************)
EXTENDS Integers, FiniteSets

CONSTANTS
  Msgs,        \* the messages of the folder
  None,        \* no value
  Unread,      \* a request that the server has not served yet
  MaxRemovals, \* removals not finished
  MaxSteps,    \* what the user does
  MaxChanges,  \* changes made elsewhere
  MaxFaults    \* requests and events that fail or get lost

VARIABLES
  inbox,       \* whether the folder is INBOX
  server,      \* the folder: its messages, and the number of changes so far
  events,      \* changes announced to the tab, not received yet
  live,        \* a live change waits for the counters
  folders,     \* mail store: the change the counters show, and the request in flight
  list,        \* the list, None while another page is open
  loads,       \* the requests for the page in flight: of the open list or of one that has gone,
               \* for which removal, and Unread or what the server answered
  cachedPage,  \* the page as it was last answered, or None
  removals,    \* its removals that can be undone
  act,         \* the action on a selection in flight, or None
  user,        \* what the user did: steps, messages removed and not brought back in time, and
               \* whether the page that is open is of another folder
  env          \* changes made elsewhere, faults, whether an answer was overtaken by a later
               \* one, whether the open list was not told of a change, messages this tab took
               \* out of the folder

vars == <<inbox, server, events, live, folders, list, loads, cachedPage, removals, act, user, env>>

Removals == 1..MaxRemovals

Pages == [in : SUBSET Msgs, at : Nat]
Lists == [items : SUBSET Msgs, at : Nat, hidden : SUBSET Msgs]
Loads == [shown : BOOLEAN, then : {0} \cup Removals, page : Pages \cup {Unread}]

RemovalRecords ==
  [uids : SUBSET Msgs, alive : BOOLEAN, st : {"timer", "sent", "done", "counts", "reloads"}]
(* A list or a removal is not None, and a page neither None nor Unread.     *)
ASSUME NoneApart ==
  None \notin Lists \cup RemovalRecords /\ {None, Unread} \cap Pages = {}

Actions == [moves : BOOLEAN, uids : SUBSET Msgs, st : {"asked", "done"}, alive : BOOLEAN]
Histories == [changes : Nat, faults : Nat, late : BOOLEAN, untold : BOOLEAN, gone : SUBSET Msgs]

(* The types; whoever waits for the counters has them coming, a removal     *)
(* waits for one request for the page, and what a list asked is shown only  *)
(* while that list is open.                                                 *)
TypeOK ==
  /\ inbox \in BOOLEAN
  /\ server \in Pages /\ events \in Nat /\ live \in BOOLEAN
  /\ folders \in [at : 0..server.at, fetch : {"none", "asked", "served"}, read : 0..server.at]
  /\ list \in Lists \cup {None} /\ act \in Actions \cup {None}
  /\ loads \subseteq Loads /\ cachedPage \in Pages \cup {None}
  /\ removals \in [Removals -> RemovalRecords \cup {None}]
  /\ user \in [steps : Nat, chosen : SUBSET Msgs, elsewhere : BOOLEAN]
  /\ env \in Histories
  /\ list # None => ~user.elsewhere
  /\ act # None /\ act.alive => list # None
  /\ live => folders.fetch # "none"
  /\ \A l \in loads :
       /\ l.shown => list # None
       /\ l.then # 0 => removals[l.then] # None /\ removals[l.then].st = "reloads"
  /\ \A j \in Removals :
       removals[j] # None =>
         /\ removals[j].alive => list # None
         /\ removals[j].st = "counts" => folders.fetch # "none"
         /\ removals[j].st = "reloads" => \E l \in loads : l.then = j
  /\ \A l, k \in loads : l.then = k.then => l.then = 0 \/ l = k

(* The list has been loaded. *)
Init ==
  /\ inbox \in BOOLEAN /\ server = [in |-> Msgs, at |-> 0]
  /\ events = 0 /\ live = FALSE /\ folders = [at |-> 0, fetch |-> "none", read |-> 0]
  /\ list = [items |-> Msgs, at |-> 0, hidden |-> {}] /\ loads = {} /\ cachedPage = server
  /\ removals = [j \in Removals |-> None] /\ act = None
  /\ user = [steps |-> 0, chosen |-> {}, elsewhere |-> FALSE]
  /\ env = [changes |-> 0, faults |-> 0, late |-> FALSE, untold |-> FALSE, gone |-> {}]

(* ------------------------------ The server ------------------------------ *)

(* The folder with other messages; the event that tells the tab, if the     *)
(* folder is the one that is watched.                                       *)
Touch(in) ==
  /\ server' = [in |-> in, at |-> server.at + 1]
  /\ events' = IF inbox THEN events + 1 ELSE events

(* History: an open list that neither the event nor what changed the folder *)
(* will reload.                                                             *)
Untold(told) == env.untold \/ (list # None /\ ~inbox /\ ~told)

(* A message arrives, or another client takes one away. *)
Change ==
  /\ env.changes < MaxChanges
  /\ env' = [env EXCEPT !.changes = @ + 1, !.untold = Untold(FALSE)]
  /\ \E m \in Msgs \ env.gone :
       Touch(IF m \in server.in THEN server.in \ {m} ELSE server.in \cup {m})
  /\ UNCHANGED <<inbox, live, folders, list, loads, cachedPage, removals, act, user>>

Fault == env.faults < MaxFaults /\ env' = [env EXCEPT !.faults = @ + 1]

(* The stream of events is down when the change happens. *)
EventLost ==
  /\ events > 0 /\ events' = events - 1 /\ Fault
  /\ UNCHANGED <<inbox, server, live, folders, list, loads, cachedPage, removals, act, user>>

(* ------------------------- Counters of the folders ---------------------- *)

(* loadFolders(): a request in flight is shared. *)
Asked == [folders EXCEPT !.fetch = IF @ = "none" THEN "asked" ELSE @]

FoldersServed ==
  /\ folders.fetch = "asked"
  /\ folders' = [folders EXCEPT !.fetch = "served", !.read = server.at]
  /\ UNCHANGED <<inbox, server, events, live, list, loads, cachedPage, removals, act, user, env>>

(* load(), of the open list or of one that has gone, for the folder that   *)
(* the path names when it starts.                                          *)
Asks(shown, then) == [shown |-> shown, then |-> then, page |-> Unread]

Counting == {j \in Removals : removals[j] # None /\ removals[j].st = "counts"}

(* What waited for the counters goes on: a live change reloads the list    *)
(* that is open, and a removal, whose list may have gone, reloads unless   *)
(* the path names another folder.                                          *)
FoldersEnd(at) ==
  /\ folders' = [at |-> at, fetch |-> "none", read |-> 0] /\ live' = FALSE
  /\ loads' = loads \cup (IF live /\ list # None THEN {Asks(TRUE, 0)} ELSE {})
                   \cup {Asks(removals[j].alive, j) : j \in IF user.elsewhere THEN {} ELSE Counting}
  /\ removals' = [j \in Removals |->
       IF j \notin Counting THEN removals[j]
       ELSE IF user.elsewhere THEN None ELSE [removals[j] EXCEPT !.st = "reloads"]]

FoldersAnswered ==
  /\ folders.fetch = "served" /\ FoldersEnd(folders.read)
  /\ UNCHANGED <<inbox, server, events, list, cachedPage, act, user, env>>

(* fetchFolders() keeps the error for itself: who waits goes on. *)
FoldersFail ==
  /\ folders.fetch # "none" /\ Fault /\ FoldersEnd(folders.at)
  /\ UNCHANGED <<inbox, server, events, list, cachedPage, act, user>>

(* Every minute, while the tab is visible. *)
Interval ==
  /\ folders.fetch = "none" /\ folders' = Asked
  /\ UNCHANGED <<inbox, server, events, live, list, loads, cachedPage, removals, act, user, env>>

(* useLiveUpdates: the cached page is dropped, the counters are asked, and  *)
(* the list told once they are there.                                       *)
OnChange ==
  /\ events > 0 /\ events' = events - 1 /\ cachedPage' = None
  /\ folders' = Asked /\ live' = TRUE
  /\ UNCHANGED <<inbox, server, list, loads, removals, act, user, env>>

(* --------------------------- Requests of the list ----------------------- *)

LoadServed ==
  /\ \E l \in loads :
       l.page = Unread /\ loads' = (loads \ {l}) \cup {[l EXCEPT !.page = server]}
  /\ UNCHANGED <<inbox, server, events, live, folders, list, cachedPage, removals, act, user, env>>

(* unhide(), and the end of the removal that a load was for.                *)
Uncovers(l) == IF l.then = 0 THEN {} ELSE removals[l.then].uids
Ends(l) ==
  /\ loads' = loads \ {l}
  /\ removals' = [j \in Removals |-> IF j = l.then THEN None ELSE removals[j]]

(* Whatever was asked since, the page is cached, and the list that asked    *)
(* shows it if it is still there.                                           *)
LoadAnswered ==
  /\ \E l \in loads :
       /\ l.page # Unread /\ Ends(l) /\ cachedPage' = l.page
       /\ list' = IF l.shown
                  THEN [items |-> l.page.in, at |-> l.page.at, hidden |-> list.hidden \ Uncovers(l)]
                  ELSE list
       /\ env' = [env EXCEPT !.late = @ \/ (l.shown /\ l.page.at < list.at)]
  /\ UNCHANGED <<inbox, server, events, live, folders, act, user>>

(* load() keeps the error for itself. *)
LoadFails ==
  /\ Fault
  /\ \E l \in loads :
       Ends(l) /\ list' = IF l.shown THEN [list EXCEPT !.hidden = @ \ Uncovers(l)] ELSE list
  /\ UNCHANGED <<inbox, server, events, live, folders, cachedPage, act, user>>

(* ------------------------------- The user -------------------------------- *)

Used(chosen) ==
  user.steps < MaxSteps /\ user' = [user EXCEPT !.steps = @ + 1, !.chosen = chosen]

Displayed == IF list = None THEN {} ELSE list.items \ list.hidden

(* Another page, another search, the refresh button. *)
Refresh ==
  /\ Used(user.chosen) /\ list # None /\ loads' = loads \cup {Asks(TRUE, 0)}
  /\ UNCHANGED <<inbox, server, events, live, folders, list, cachedPage, removals, act, env>>

(* removeUids(): the rows are hidden, and the request leaves in 5 seconds. *)
Remove ==
  \E uids \in (SUBSET Displayed) \ {{}}, j \in Removals :
    /\ Used(user.chosen \cup uids)
    /\ removals[j] = None /\ \A i \in 1..(j - 1) : removals[i] # None
    /\ removals' = [removals EXCEPT ![j] = [uids |-> uids, alive |-> TRUE, st |-> "timer"]]
    /\ list' = [list EXCEPT !.hidden = @ \cup uids]
    /\ UNCHANGED <<inbox, server, events, live, folders, loads, cachedPage, act, env>>

(* What the user asked for besides removal j. *)
Others(j) == (IF act # None /\ act.moves THEN act.uids ELSE {})
             \cup UNION {removals[i].uids : i \in {i \in Removals \ {j} : removals[i] # None}}

(* unhide() *)
Shows(j) == IF removals[j].alive /\ list # None
            THEN [list EXCEPT !.hidden = @ \ removals[j].uids] ELSE list

(* Fault: the timer goes on. *)
UndoKeepsTimer(j) ==
  /\ removals[j] # None
  /\ Used(IF removals[j].st = "timer"
          THEN user.chosen \ (removals[j].uids \ (Others(j) \cup env.gone)) ELSE user.chosen)
  /\ list' = Shows(j)
  /\ UNCHANGED <<inbox, server, events, live, folders, loads, cachedPage, removals, act, env>>

(* clearTimeout() stops a removal whose request has not left; the toast may *)
(* outlive the timer, while the pointer is on it.                           *)
Undo(j) ==
  /\ removals[j] # None
  /\ Used(IF removals[j].st = "timer"
          THEN user.chosen \ (removals[j].uids \ (Others(j) \cup env.gone)) ELSE user.chosen)
  /\ removals' = IF removals[j].st = "timer" THEN [removals EXCEPT ![j] = None] ELSE removals
  /\ list' = Shows(j)
  /\ UNCHANGED <<inbox, server, events, live, folders, loads, cachedPage, act, env>>

(* The timer outlives the list. *)
RemovalTimer(j) ==
  /\ removals[j] # None /\ removals[j].st = "timer"
  /\ removals' = [removals EXCEPT ![j].st = "sent"]
  /\ UNCHANGED <<inbox, server, events, live, folders, list, loads, cachedPage, act, user, env>>

RemovalServed(j) ==
  /\ removals[j] # None /\ removals[j].st = "sent"
  /\ removals' = [removals EXCEPT ![j].st = "done"]
  /\ Touch(server.in \ removals[j].uids)
  /\ env' = [env EXCEPT !.gone = @ \cup removals[j].uids, !.untold = Untold(removals[j].alive)]
  /\ UNCHANGED <<inbox, live, folders, list, loads, cachedPage, act, user>>

(* removeMessages(): the cached page without what was taken out.            *)
CachedWithout(uids) == IF cachedPage = None THEN None ELSE [cachedPage EXCEPT !.in = @ \ uids]

RemovalAnswered(j) ==
  /\ removals[j] # None /\ removals[j].st = "done"
  /\ removals' = [removals EXCEPT ![j].st = "counts"]
  /\ cachedPage' = CachedWithout(removals[j].uids)
  /\ folders' = Asked
  /\ UNCHANGED <<inbox, server, events, live, list, loads, act, user, env>>

RemovalFails(j) ==
  /\ removals[j] # None /\ removals[j].st \in {"sent", "done"} /\ Fault
  /\ removals' = [removals EXCEPT ![j] = None]
  /\ list' = Shows(j)
  /\ UNCHANGED <<inbox, server, events, live, folders, loads, cachedPage, act, user>>

(* run(): the selection is marked, or moved to another folder. *)
Act ==
  \E moves \in BOOLEAN, uids \in (SUBSET Displayed) \ {{}} :
    /\ act = None /\ Used(IF moves THEN user.chosen \cup uids ELSE user.chosen)
    /\ act' = [moves |-> moves, uids |-> uids, st |-> "asked", alive |-> TRUE]
    /\ UNCHANGED <<inbox, server, events, live, folders, list, loads, cachedPage, removals, env>>

ActServed ==
  /\ act # None /\ act.st = "asked" /\ act' = [act EXCEPT !.st = "done"]
  /\ Touch(IF act.moves THEN server.in \ act.uids ELSE server.in)
  /\ env' = [env EXCEPT !.gone = IF act.moves THEN @ \cup act.uids ELSE @,
                        !.untold = Untold(act.alive)]
  /\ UNCHANGED <<inbox, live, folders, list, loads, cachedPage, removals, user>>

(* Nothing tells a list that has gone from one that is open; the path may   *)
(* name another folder.                                                     *)
Reloads == loads' = IF user.elsewhere THEN loads ELSE loads \cup {Asks(act.alive, 0)}

ActAnswered ==
  /\ act # None /\ act.st = "done" /\ act' = None
  /\ cachedPage' = IF act.moves /\ ~user.elsewhere THEN CachedWithout(act.uids) ELSE cachedPage
  /\ folders' = Asked /\ Reloads
  /\ UNCHANGED <<inbox, server, events, live, list, removals, user, env>>

ActFails ==
  /\ act # None /\ Fault /\ act' = None /\ Reloads
  /\ UNCHANGED <<inbox, server, events, live, folders, list, cachedPage, removals, user>>

(* Fault: the answer to a list that has gone is shown by the one that comes *)
(* after it.                                                                *)
LeaveLoading ==
  /\ user.steps < MaxSteps /\ list' = None
  /\ \E elsewhere \in BOOLEAN : user' = [user EXCEPT !.steps = @ + 1, !.elsewhere = elsewhere]
  /\ removals' = [j \in Removals |->
       IF removals[j] = None THEN None ELSE [removals[j] EXCEPT !.alive = FALSE]]
  /\ act' = IF act = None THEN None ELSE [act EXCEPT !.alive = FALSE]
  /\ env' = [env EXCEPT !.untold = FALSE]
  /\ UNCHANGED <<inbox, server, events, live, folders, loads, cachedPage>>

(* Another page opens, a message of the same folder or anything else.  The  *)
(* list goes; its requests, its removals and its action go on.              *)
Leave ==
  /\ user.steps < MaxSteps /\ list' = None
  /\ \E elsewhere \in BOOLEAN : user' = [user EXCEPT !.steps = @ + 1, !.elsewhere = elsewhere]
  /\ loads' = {[l EXCEPT !.shown = FALSE] : l \in loads}
  /\ removals' = [j \in Removals |->
       IF removals[j] = None THEN None ELSE [removals[j] EXCEPT !.alive = FALSE]]
  /\ act' = IF act = None THEN None ELSE [act EXCEPT !.alive = FALSE]
  /\ env' = [env EXCEPT !.untold = FALSE]
  /\ UNCHANGED <<inbox, server, events, live, folders, cachedPage>>

(* The list is made anew, with nothing hidden, and shows the cached page    *)
(* until the answer comes.                                                  *)
Return ==
  /\ list = None /\ user.steps < MaxSteps
  /\ user' = [user EXCEPT !.steps = @ + 1, !.elsewhere = FALSE]
  /\ list' = [items |-> IF cachedPage = None THEN {} ELSE cachedPage.in,
              at |-> IF cachedPage = None THEN 0 ELSE cachedPage.at, hidden |-> {}]
  /\ loads' = loads \cup {Asks(TRUE, 0)}
  /\ UNCHANGED <<inbox, server, events, live, folders, cachedPage, removals, act, env>>

(* ---------------------------- Specification ----------------------------- *)

Tab ==
  \/ FoldersServed \/ FoldersAnswered \/ OnChange \/ Interval
  \/ LoadServed \/ LoadAnswered \/ ActServed \/ ActAnswered
  \/ \E j \in Removals : RemovalTimer(j) \/ RemovalServed(j) \/ RemovalAnswered(j)

Faults ==
  \/ EventLost \/ FoldersFail \/ LoadFails \/ ActFails
  \/ \E j \in Removals : RemovalFails(j)

Users == Refresh \/ Remove \/ Act \/ Leave \/ Return \/ \E j \in Removals : Undo(j)

Next == Change \/ Tab \/ Faults \/ Users

(* Requests are answered, timers fire and events arrive; nothing says that  *)
(* the user acts, that another client does, or that anything fails.         *)
Fairness ==
  /\ WF_vars(FoldersServed) /\ WF_vars(FoldersAnswered) /\ WF_vars(Interval)
  /\ WF_vars(OnChange) /\ WF_vars(LoadServed) /\ WF_vars(LoadAnswered)
  /\ WF_vars(ActServed) /\ WF_vars(ActAnswered)
  /\ \A j \in Removals : WF_vars(RemovalTimer(j) \/ RemovalServed(j) \/ RemovalAnswered(j))

Spec == Init /\ [][Next]_vars /\ Fairness

(* ------------------------------ Properties ------------------------------ *)

(* The tab takes a message out of the folder only if the user removed or    *)
(* moved it, and did not undo it before the request left: whatever happens  *)
(* to the list meanwhile (removeUids and its timer, run).                   *)
RemovesOnlyChosen == env.gone \subseteq user.chosen

(* The counters are those of the folder as it is.                          *)
CountersCurrent == folders.at = server.at

(* An open list shows the folder as it is, unless an event or a request was *)
(* lost, or an answer came after that of a later request, which load does   *)
(* not tell.  In a folder other than INBOX, it is not told of the changes   *)
(* that it did not ask for itself: of another client, or of a list that has *)
(* gone since.                                                              *)
ListCurrent ==
  list = None \/ list.at = server.at \/ env.faults > 0 \/ env.late \/ env.untold

(* What a removal hides is shown again, or reloaded.                        *)
NothingHidden == list = None \/ list.hidden = {}

Current == CountersCurrent /\ ListCurrent /\ NothingHidden

(* Stated by MessageList.vue ("les messages disparaissent tout de suite"):  *)
(* the list does not show a message whose removal can still be undone.      *)
PendingHidden == \A j \in Removals :
                   removals[j] # None /\ removals[j].st = "timer"
                     => Displayed \cap removals[j].uids = {}
(* -------------------------- What is ticked in it -------------------------- *)

CONSTANTS
  Uids, Fresh, New, PageSize,
  MaxTicks,    \* what the user does
  MaxAsks

VARIABLES
  store, folder, page, data, loading, failed, reads, selected, anchor,
  focused, hidden, box, asks, unseen, stale, spent

(* The selection of the same list, with a state of its own. *)
T == INSTANCE MessageSelection WITH MaxSteps <- MaxTicks

(* What is ticked, and what a button or a key acts on, is displayed, and    *)
(* what is hidden is about to leave or to come back: MessageSelection.      *)
TicksSound == T!TicksSound

(* ----------------------- The page of a message ------------------------- *)

CONSTANTS
  Opened,      \* the messages that are opened
  CacheSize,   \* MESSAGE_CACHE_SIZE
  MaxOpens, MaxActs, MaxOthers

VARIABLES
  mailbox, cache, pages, current, calls, delays, alone, acts, faults, others

(* The reader, with a state of its own. *)
R == INSTANCE Reader WITH Uids <- Opened, server <- mailbox

(* A page shows the message it was opened for, and what is kept of a message to show it again is  *)
(* what the server has: once, under its own key, and no more than the size allows: Reader.        *)
ReaderSound == R!TypeOK /\ R!ReaderConsistent
=============================================================================

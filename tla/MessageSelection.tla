--------------------------- MODULE MessageSelection ---------------------------
(***************************************************************************)
(* What the user ticks in the list of a folder, and what is done with it   *)
(* (MessageList.vue, MessageRow.vue, the drop on a folder of FolderNav.vue).*)
(* A page of the list is asked, served and answered in steps of its own,   *)
(* and so is a request on messages.  A search or another page size clears  *)
(* what another page does, and stands for no view of its own; the rows are *)
(* in the order of their UIDs, and stay so; the cache of pages, which shows *)
(* an earlier answer while the next one is awaited, is left out.           *)
(***************************************************************************)
EXTENDS Integers, FiniteSets

CONSTANTS
  Uids, Fresh, \* the messages of the folder, those not read yet
  New,         \* the message that an import adds
  PageSize,    \* rows of a page
  None,        \* no value
  MaxSteps,    \* what the user does
  MaxAsks,     \* requests on messages at a time
  MaxFaults    \* requests that fail

VARIABLES
  store,       \* the server: what it says of each message, seen and flagged
  folder,      \* the folder is "junk", or the "trash" where messages are deleted for good
  page,        \* the page in the URL
  data,        \* the page that is loaded: its number, its rows and the total, or None
  loading, failed,           \* the skeleton, and the error, in place of the rows
  reads,       \* loads in flight (two alike are one), with the rows their end shows again
  selected, anchor, focused, \* the rows that are ticked, where a range begins, the focus
  hidden,      \* rows hidden while their removal can be undone
  box,         \* the messages that the dialog of deletion names
  asks,        \* requests on messages, not finished
  unseen,      \* messages ticked, or left ticked, where no row shows them
  stale,       \* what is shown was overtaken by a request, or not reloaded
  spent        \* steps of the user, requests that failed

listPart == <<page, data, loading, failed, reads, stale>>
pickPart == <<selected, anchor, unseen>>
selectionVars == <<store, folder, listPart, pickPart, focused, hidden, box, asks, spent>>

Known == Uids \cup {New}
Pages == 1..Cardinality(Known)
Flags == [seen : BOOLEAN, flagged : BOOLEAN]
Runs == {"seen", "move", "copy"}                    \* run()
Leaving == {"move", "drop", "trash", "delete"}      \* messages leave the folder

Init ==
  /\ store = [u \in Uids |-> [seen |-> u \notin Fresh, flagged |-> FALSE]]
  /\ folder \in {"junk", "trash"} /\ page = 1 /\ data = None
  /\ loading = TRUE /\ failed = FALSE
  /\ reads = {[page |-> 1, quiet |-> FALSE, got |-> None, old |-> FALSE, shows |-> {}]}
  /\ selected = {} /\ anchor = None /\ focused = None /\ hidden = {} /\ box = {}
  /\ asks = {} /\ unseen = {} /\ stale = FALSE /\ spent = [steps |-> 0, faults |-> 0]

(* ------------------------------- The list -------------------------------- *)

(* items: the rows of the list, and those that a template without skeleton  *)
(* or error displays.                                                       *)
Items == IF data = None THEN {} ELSE DOMAIN data.rows \ hidden
Displayed == IF loading \/ failed THEN {} ELSE Items

(* A page of the folder, the newest messages first. *)
PageRows(p) ==
  LET newer(u) == Cardinality({v \in DOMAIN store : v > u})
  IN  [u \in {u \in DOMAIN store : newer(u) \div PageSize = p - 1} |-> store[u]]

(* The watch on the number of rows that are ticked: without any, a range    *)
(* begins nowhere.                                                          *)
Ticks(uids, from) == selected' = uids /\ anchor' = IF uids = {} THEN None ELSE from

(* load(): a page that is shown already is reloaded without a skeleton. *)
Ask(p, shows) ==
  LET quiet == data # None /\ data.page = p
  IN  /\ reads' = reads \cup {[page |-> p, quiet |-> quiet, got |-> None, old |-> FALSE, shows |-> shows]}
      /\ loading' = (loading \/ ~quiet) /\ failed' = (failed /\ quiet)

Reload(shows) ==
  /\ Ask(page, shows)
  /\ unseen' = IF data # None /\ data.page = page THEN unseen ELSE unseen \cup selected'

ReadServed ==
  /\ \E l \in reads :
       /\ l.got = None
       /\ reads' = (reads \ {l}) \cup
            {[l EXCEPT !.got = [rows |-> PageRows(l.page), total |-> Cardinality(DOMAIN store)]]}
  /\ UNCHANGED <<store, folder, page, data, loading, failed, stale, pickPart, focused, hidden, box, asks, spent>>

(* The rows that the user ticked and the answer does not have are not       *)
(* ticked any more: syncSelection.                                          *)
Synced(rows) == selected \cap DOMAIN rows

(* The end of load(), whatever page it was for. *)
ReadAnswered ==
  /\ \E l \in reads :
       /\ l.got # None /\ reads' = reads \ {l}
       /\ data' = [page |-> l.page, rows |-> l.got.rows, total |-> l.got.total]
       /\ Ticks(Synced(l.got.rows), anchor) /\ hidden' = hidden \ l.shows
       /\ stale' = (l.old \/ \E a \in asks : a.kind = "star" /\ a.st = "asked")
  /\ loading' = FALSE /\ failed' = FALSE
  /\ asks' = {[a EXCEPT !.held = FALSE] : a \in asks}
  /\ UNCHANGED <<store, folder, page, unseen, focused, box, spent>>

Fault == spent.faults < MaxFaults /\ spent' = [spent EXCEPT !.faults = @ + 1]

ReadFails ==
  /\ Fault
  /\ \E l \in reads :
       /\ reads' = reads \ {l} /\ hidden' = hidden \ l.shows
       /\ failed' = (failed \/ ~l.quiet)
       /\ unseen' = IF l.quiet THEN unseen ELSE unseen \cup selected
  /\ loading' = FALSE /\ stale' = TRUE
  /\ UNCHANGED <<store, folder, page, data, selected, anchor, focused, box, asks>>

(* The user does something; the dialog of deletion is modal. *)
Spends == spent.steps < MaxSteps /\ spent' = [spent EXCEPT !.steps = @ + 1]
Step == box = {} /\ Spends

(* The buttons of the pages. *)
OtherPages ==
  {p \in Pages : \/ p = page - 1
                 \/ data # None /\ p = page + 1 /\ page * PageSize < data.total}

(* Fault: what was ticked is kept. *)
GoToKeeping ==
  /\ Step /\ \E p \in OtherPages : page' = p /\ UNCHANGED <<selected, anchor>> /\ Ask(p, {})
  /\ UNCHANGED <<store, folder, data, stale, unseen, focused, hidden, box, asks>>

(* The watch on the page: what was ticked is not any more. *)
GoTo ==
  /\ Step /\ \E p \in OtherPages : page' = p /\ Ticks({}, None) /\ Ask(p, {})
  /\ UNCHANGED <<store, folder, data, stale, unseen, focused, hidden, box, asks>>

(* The button of the toolbar or of the error, or a change that the server   *)
(* announced.                                                               *)
Refresh ==
  /\ Spends /\ UNCHANGED <<selected, anchor>> /\ Reload({})
  /\ UNCHANGED <<store, folder, page, data, stale, focused, hidden, box, asks>>

(* ----------------------------- The selection ----------------------------- *)

(* Whatever uses `items` while no row is displayed ticks what is not seen. *)
Picks(uids, from) == Ticks(uids, from) /\ unseen' = (unseen \cup (uids \ selected)) \ Displayed

ToggleAll ==
  /\ Step /\ Items # {}
  /\ Picks(IF Cardinality(selected) = Cardinality(Items) THEN {} ELSE Items, anchor)
  /\ UNCHANGED <<store, folder, listPart, focused, hidden, box, asks>>

(* The menu: all, none, unread, flagged, invert. *)
SelectionMenu ==
  /\ Step
  /\ \E uids \in {Items, {}, {u \in Items : ~data.rows[u].seen},
                  {u \in Items : data.rows[u].flagged}, Items \ selected} : Picks(uids, anchor)
  /\ UNCHANGED <<store, folder, listPart, focused, hidden, box, asks>>

Toggled(u) == IF u \in selected THEN selected \ {u} ELSE selected \cup {u}

(* rangeUids: nothing if the range begins nowhere, or at a row that went. *)
RangeUids(u) ==
  IF anchor = None \/ anchor \notin Items THEN {}
  ELSE {v \in Items : (anchor <= v /\ v <= u) \/ (u <= v /\ v <= anchor)}

(* The box of a row, or the row with Ctrl; with Shift, a range. *)
Clicks == [row : Displayed, range : BOOLEAN]

Select ==
  /\ Step
  /\ \E c \in Clicks :
       LET uids == IF c.range THEN RangeUids(c.row) ELSE {}
       IN  Picks(IF uids = {} THEN Toggled(c.row) ELSE selected \cup uids, c.row)
  /\ UNCHANGED <<store, folder, listPart, focused, hidden, box, asks>>

(* The keys j and k, and a row that takes the focus. *)
FocusRow ==
  /\ Step
  /\ \E u \in Items :
       /\ \/ u \in Displayed
          \/ focused \notin Items /\ \A v \in Items : v <= u
          \/ /\ focused \in Items
             /\ \A v \in Items \ {u, focused} : ~(focused < v /\ v < u) /\ ~(u < v /\ v < focused)
       /\ focused' = u
  /\ UNCHANGED <<store, folder, listPart, pickPart, hidden, box, asks>>

(* A key does nothing while the dialog is open. *)
Key == Step

KeySelect ==
  /\ Key /\ focused # None /\ Picks(Toggled(focused), focused)
  /\ UNCHANGED <<store, folder, listPart, focused, hidden, box, asks>>

(* ----------------------- Requests on the messages ------------------------ *)

(* `on`: the value of the flag; `held`: the row of the request is displayed *)
(* still, and not another answer's; `n` tells requests apart.               *)
Starts(kind, uids, on) ==
  /\ Cardinality(asks) < MaxAsks
  /\ asks' = asks \cup
       {[n |-> spent.steps, kind |-> kind, uids |-> uids, on |-> on, held |-> kind = "star",
         st |-> IF kind = "trash" THEN "timer" ELSE "asked"]}

(* The two toolbars. *)
WithSelection == Step /\ selected # {}
WithoutSelection == Step /\ selected = {}

(* markSeen: the rows change at once. *)
MarkSeen ==
  /\ WithSelection
  /\ LET on == \E u \in selected \cap Items : ~data.rows[u].seen
     IN  /\ Starts("seen", selected, on)
         /\ data' = IF data = None THEN None ELSE
              [data EXCEPT !.rows = [u \in DOMAIN @ |->
                 IF u \in selected \cap Items THEN [@[u] EXCEPT !.seen = on] ELSE @[u]]]
  /\ UNCHANGED <<store, folder, page, loading, failed, reads, stale, pickPart, focused, hidden, box>>

(* Archive, or another folder. *)
MoveSelected ==
  /\ WithSelection /\ Starts("move", selected, FALSE)
  /\ UNCHANGED <<store, folder, listPart, pickPart, focused, hidden, box>>

(* Copied, or moved to the junk and back. *)
CopyOrJunkSelected ==
  /\ WithSelection /\ \E kind \in {"copy", "move"} : Starts(kind, selected, FALSE)
  /\ UNCHANGED <<store, folder, listPart, pickPart, focused, hidden, box>>

(* targetUids *)
Targets == IF selected # {} THEN selected ELSE {focused} \ {None}

KeyArchive ==
  /\ Key /\ Targets # {} /\ Picks(Targets, anchor) /\ Starts("move", Targets, FALSE)
  /\ UNCHANGED <<store, folder, listPart, focused, hidden, box>>

(* A row is dragged, and the selection with it, to another folder. *)
Dragged(u) == IF u \in selected THEN selected ELSE {u}

DropOnFolder ==
  /\ Step /\ \E u \in Displayed : Starts("drop", Dragged(u), FALSE)
  /\ UNCHANGED <<store, folder, listPart, pickPart, focused, hidden, box>>

(* removeUids(), of the button and of the key #: messages disappear at once *)
(* and leave in 5 seconds; from the trash they are deleted, once confirmed. *)
Remove ==
  /\ Step
  /\ \E uids \in {selected, Targets} :
       /\ uids # {}
       /\ IF folder = "trash" THEN box' = uids /\ UNCHANGED <<hidden, selected, anchor, asks>>
          ELSE /\ hidden' = hidden \cup uids /\ Ticks({}, None) /\ Starts("trash", uids, FALSE)
               /\ UNCHANGED box
  /\ UNCHANGED <<store, folder, listPart, unseen, focused>>

ConfirmPermanentDelete ==
  /\ box # {} /\ box' = {} /\ Ticks({}, None) /\ Starts("delete", box, FALSE)
  /\ UNCHANGED <<store, folder, listPart, unseen, focused, hidden, spent>>

Cancel ==
  /\ box # {} /\ box' = {}
  /\ UNCHANGED <<store, folder, listPart, pickPart, focused, hidden, asks, spent>>

(* The toast stays while the pointer is on it: too late, it shows the rows. *)
Undo ==
  /\ Step
  /\ \E a \in asks :
       /\ a.kind = "trash" /\ hidden' = hidden \ a.uids
       /\ asks' = IF a.st = "timer" THEN asks \ {a} ELSE asks
  /\ UNCHANGED <<store, folder, listPart, pickPart, focused, box>>

(* Fault: the row waits for the next load. *)
FlipLate(u) == UNCHANGED data

(* The star of the row changes at once. *)
Flip(u) == data' = [data EXCEPT !.rows[u].flagged = ~@]

(* toggleStar(), of the row and of the key s. *)
ToggleStar ==
  /\ Step
  /\ \E u \in Displayed \cup ({focused} \cap Items) :
       /\ Flip(u) /\ Starts("star", {u}, ~data.rows[u].flagged)
       /\ stale' = (stale \/ \E a \in asks : a.kind = "star" /\ a.uids = {u})
  /\ UNCHANGED <<store, folder, page, loading, failed, reads, pickPart, focused, hidden, box>>

MarkAllAsRead ==
  /\ WithoutSelection /\ Starts("readall", {}, FALSE)
  /\ UNCHANGED <<store, folder, listPart, pickPart, focused, hidden, box>>

ImportFiles ==
  /\ WithoutSelection /\ Starts("import", {New}, FALSE)
  /\ UNCHANGED <<store, folder, listPart, pickPart, focused, hidden, box>>

(* Of the trash and of the junk. *)
EmptyFolder ==
  /\ WithoutSelection /\ Starts("empty", {}, FALSE)
  /\ UNCHANGED <<store, folder, listPart, pickPart, focused, hidden, box>>

(* The timer of a removal. *)
Timer ==
  /\ \E a \in asks : a.st = "timer" /\ asks' = (asks \ {a}) \cup {[a EXCEPT !.st = "asked"]}
  /\ UNCHANGED <<store, folder, listPart, pickPart, focused, hidden, box, spent>>

Done(a) ==
  CASE a.kind = "seen" -> [u \in DOMAIN store |-> IF u \in a.uids THEN [store[u] EXCEPT !.seen = a.on] ELSE store[u]]
    [] a.kind = "star" -> [u \in DOMAIN store |-> IF u \in a.uids THEN [store[u] EXCEPT !.flagged = a.on] ELSE store[u]]
    [] a.kind \in Leaving -> [u \in DOMAIN store \ a.uids |-> store[u]]
    [] a.kind = "readall" -> [u \in DOMAIN store |-> [store[u] EXCEPT !.seen = TRUE]]
    [] a.kind = "empty" -> [u \in {} |-> store[u]]
    [] a.kind \in {"copy", "import"} -> store

(* Those of the files that are messages are added, as read. *)
Imported ==
  {store, [u \in DOMAIN store \cup {New} |->
             IF u = New THEN [seen |-> TRUE, flagged |-> FALSE] ELSE store[u]]}

(* The server does it; the pages it served before are those of before. *)
AskServed ==
  /\ \E a \in asks :
       /\ a.st = "asked" /\ asks' = (asks \ {a}) \cup {[a EXCEPT !.st = "done"]}
       /\ store' \in (IF a.kind = "import" THEN Imported ELSE {Done(a)})
       /\ reads' = IF store' = store THEN reads
                   ELSE {IF l.got = None THEN l ELSE [l EXCEPT !.old = TRUE] : l \in reads}
  /\ UNCHANGED <<folder, page, data, loading, failed, stale, pickPart, focused, hidden, box, spent>>

(* All but a star reload the page; run() and the emptied folder clear what  *)
(* is ticked by then, and a removal shows its rows after the reload.        *)
AskAnswered ==
  /\ \E a \in asks :
       /\ a.st = "done"
       /\ IF a.kind \in Runs \cup {"empty"} THEN Ticks({}, None) ELSE UNCHANGED <<selected, anchor>>
       /\ IF a.kind = "star" THEN UNCHANGED <<reads, loading, failed, unseen>>
          ELSE Reload(IF a.kind = "trash" THEN a.uids ELSE {})
       /\ IF a.kind = "readall" /\ data # None
          THEN /\ data' = [data EXCEPT !.rows = [u \in DOMAIN @ |-> [@[u] EXCEPT !.seen = TRUE]]]
               /\ asks' = {[b EXCEPT !.held = FALSE] : b \in asks \ {a}}
          ELSE asks' = asks \ {a} /\ UNCHANGED data
  /\ UNCHANGED <<store, folder, page, stale, focused, hidden, box, spent>>

(* run() reloads; a star is put back, a removal shows its rows. *)
AskFails ==
  /\ Fault
  /\ \E a \in asks :
       /\ a.st # "timer" /\ asks' = asks \ {a}
       /\ IF a.kind \in Runs THEN UNCHANGED <<selected, anchor>> /\ Reload({})
          ELSE UNCHANGED <<selected, anchor, unseen, reads, loading, failed>>
       /\ IF a.kind = "star" /\ a.held THEN Flip(CHOOSE u \in a.uids : TRUE) ELSE UNCHANGED data
       /\ hidden' = IF a.kind = "trash" THEN hidden \ a.uids ELSE hidden
       /\ stale' = (stale \/ (a.st = "done" /\ a.kind \notin Runs))
  /\ UNCHANGED <<store, folder, page, focused, box>>

(* ---------------------------- Specification ----------------------------- *)

Answers == ReadServed \/ ReadAnswered \/ Timer \/ AskServed \/ AskAnswered

Next ==
  \/ Answers \/ ReadFails \/ AskFails
  \/ GoTo \/ Refresh \/ ToggleAll \/ SelectionMenu \/ Select \/ FocusRow \/ KeySelect
  \/ MarkSeen \/ MoveSelected \/ CopyOrJunkSelected \/ KeyArchive \/ DropOnFolder \/ Remove
  \/ ConfirmPermanentDelete \/ Cancel \/ Undo \/ ToggleStar \/ MarkAllAsRead \/ ImportFiles \/ EmptyFolder

Spec == Init /\ [][Next]_selectionVars

(* ------------------------------ Properties ------------------------------ *)

RowsOf(messages) == UNION {[us -> Flags] : us \in SUBSET messages}

(* What the server answers, a page that is loaded, a load and a request.    *)
Answer == [rows : RowsOf(Known), total : 0..Cardinality(Known)]
Loaded == [page : Pages, rows : RowsOf(Known), total : 0..Cardinality(Known)]
Loads == [page : Pages, quiet : BOOLEAN, got : Answer \cup {None}, old : BOOLEAN, shows : SUBSET Known]
Kinds == Runs \cup Leaving \cup {"star", "readall", "empty", "import"}
Requests == [n : Nat, kind : Kinds, uids : SUBSET Known, on : BOOLEAN, held : BOOLEAN,
             st : {"timer", "asked", "done"}]

(* A folder has finitely many messages, and no value is none of a page; the *)
(* module is used through instances, which check it or prove from it.       *)
ValuesAssumption == IsFiniteSet(Known) /\ None \notin Loaded

(* The types. *)
TypeOK ==
  /\ store \in RowsOf(Known) /\ folder \in {"junk", "trash"} /\ page \in Pages
  /\ data \in Loaded \cup {None} /\ reads \subseteq Loads /\ asks \subseteq Requests
  /\ loading \in BOOLEAN /\ failed \in BOOLEAN /\ stale \in BOOLEAN
  /\ selected \cup hidden \cup box \cup unseen \subseteq Known
  /\ {anchor, focused} \subseteq Known \cup {None} /\ spent \in [steps : Nat, faults : Nat]

(* Whatever a button, a key or a drag is about to act on is displayed: what *)
(* was ticked is not kept under a skeleton, on another page, behind a       *)
(* removal or after its message went; but for what was ticked unseen.       *)
SelectionShown == selected \subseteq Displayed \cup unseen

(* A range begins in a selection (the watch on the number of ticked rows).  *)
AnchorTicked == anchor # None => selected # {}

(* What a removal hides, it will show or reload: nothing is hidden for good. *)
HiddenUntilDone ==
  hidden \subseteq (UNION {a.uids : a \in {b \in asks : b.kind = "trash"}}) \cup (UNION {l.shows : l \in reads})

(* What is ticked and what is hidden are what the user sees and waits for. *)
TicksSound == SelectionShown /\ AnchorTicked /\ HiddenUntilDone

(* Once everything is answered, the rows are what the server has: flags     *)
(* put back, messages gone and come, unless an answer was overtaken.        *)
RowsTrue ==
  reads = {} /\ asks = {} /\ ~stale /\ data # None => data.rows = PageRows(data.page)

=============================================================================

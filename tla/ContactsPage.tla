----------------------------- MODULE ContactsPage -----------------------------
(* The page of the contacts (pages/contacts/index.vue) with the panel of one of   *)
(* them (ContactDetailPanel.vue), its form (ContactForm.vue) and the tab of the    *)
(* directory (DirectoryPanel.vue): the list of a view, the card that is shown or   *)
(* edited, and the requests behind them, which nothing puts in order.  A card is   *)
(* the contact it was written for and a version; searching is a view like a group. *)
EXTENDS Naturals, Sequences, SequencesExt, FiniteSets, Functions

CONSTANTS
  Ids,       \* of contacts; some exist at the beginning
  Existing,
  Groups,
  None, Sent, Refused,
  MaxSteps   \* bound: what the user does (see Free), and lost requests

VARIABLES
  cards,     \* cards[i], on the server: None, or [of, ver]
  members,   \* pairs of a group and a contact
  view,      \* "all" or a group
  rows,      \* rows[i]: None, or the version that is listed
  listing,   \* "loading", "failed" or "shown"
  lists,     \* the requests of the list, in the order they left: [view, rows, then]
  selected,  \* the contact of the panel, or None
  pane,      \* "loading", "failed" or "shown"
  contact,   \* what the panel holds: None, or [id, of, ver, groups]
  form,      \* what is edited, or None
  gets,      \* the requests of the panel: [id, card]
  change,    \* change[k]: None, or the request [id, form, group, answer]
  dialog,    \* the confirmation of a deletion is open
  late,      \* the answer of a contact was applied to the panel of another (history)
  crossed,   \* two requests of the page overlapped, or one failed (history)
  steps

server == <<cards, members>>
list == <<rows, listing, lists>>
panel == <<selected, pane, contact, form, gets, dialog, late>>
vars == <<server, view, list, panel, change, crossed, steps>>

Kinds == {"save", "delete", "join", "create"}
Sources == {"dialog", "directory", "file"}   \* of a new contact, one at a time

\* What the server answers of a view.
Matching(v) == {i \in Ids : cards[i] # None /\ (v = "all" \/ <<v, i>> \in members)}
Listed(v) == [i \in Ids |-> IF i \in Matching(v) THEN cards[i].ver ELSE None]
Groupings(i) == {g \in Groups : <<g, i>> \in members}
Card(i) == [id |-> i, of |-> cards[i].of, ver |-> cards[i].ver, groups |-> Groupings(i)]

Init ==
  /\ cards = [i \in Ids |-> IF i \in Existing THEN [of |-> i, ver |-> 1] ELSE None]
  /\ members = {} /\ view = "all" /\ rows = [i \in Ids |-> None]
  /\ listing = "loading" /\ lists = <<[view |-> "all", rows |-> Sent, then |-> None]>>
  /\ selected = None /\ pane = "loading" /\ contact = None /\ form = None /\ gets = <<>>
  /\ change = [k \in Kinds |-> None] /\ dialog = FALSE
  /\ late = FALSE /\ crossed = FALSE /\ steps = 0

Step == steps < MaxSteps /\ steps' = steps + 1
Free == UNCHANGED steps   \* not counted: the first selection, opening a form or a dialog
Busy == lists # <<>> \/ \E k \in Kinds : change[k] # None

----------------------------------------------------------------------------
(* The list.                                                               *)

\* loadContacts; a contact that was created is selected afterwards.
Reload(v, then) ==
  lists' = Append(lists, [view |-> v, rows |-> Sent, then |-> then]) /\ listing' = "loading"

SelectView(v) ==
  /\ v # view /\ ~dialog /\ Step
  /\ view' = v /\ Reload(v, None)
  /\ crossed' = (crossed \/ Busy)
  /\ UNCHANGED <<server, rows, panel, change>>

ListServed(n) ==
  /\ lists[n].rows = Sent
  /\ lists' = [lists EXCEPT ![n].rows = Listed(lists[n].view)]
  /\ UNCHANGED <<server, view, rows, listing, panel, change, crossed, steps>>

\* The panel of a contact is loaded when it opens or when the contact changes.
Open(i) ==
  IF i = selected THEN UNCHANGED <<selected, pane, form, gets>>
  ELSE selected' = i /\ pane' = "loading" /\ form' = None /\ gets' = Append(gets, [id |-> i, card |-> Sent])
Then(i) == IF i = None THEN UNCHANGED <<selected, pane, form, gets>> ELSE Open(i)

\* Whichever arrives last is what is shown; a failure stays until the next request.
ListAnswered(n) ==
  /\ lists[n].rows # Sent
  /\ rows' = lists[n].rows /\ lists' = RemoveAt(lists, n)
  /\ listing' = IF listing = "failed" THEN listing ELSE "shown"
  /\ Then(lists[n].then)
  /\ UNCHANGED <<server, view, contact, dialog, late, change, crossed, steps>>
ListLost(n) ==
  /\ Step /\ crossed' = TRUE
  /\ lists' = RemoveAt(lists, n) /\ listing' = "failed"
  /\ Then(lists[n].then)
  /\ UNCHANGED <<server, view, rows, contact, dialog, late, change>>

----------------------------------------------------------------------------
(* The panel.                                                              *)

Select(i) ==
  /\ rows[i] # None /\ listing = "shown" /\ ~dialog /\ i # selected
  /\ IF selected = None THEN Free ELSE Step
  /\ Open(i) /\ crossed' = (crossed \/ Busy)
  /\ UNCHANGED <<server, view, list, contact, change, dialog, late>>

\* Where the window is narrow: the panel is unmounted, and its answers go nowhere.
Close ==
  /\ selected # None /\ ~dialog /\ Step
  /\ selected' = None /\ contact' = None /\ form' = None /\ gets' = <<>>
  /\ crossed' = (crossed \/ \E k \in {"save", "delete", "join"} : change[k] # None)
  /\ change' = [k \in Kinds |-> IF k \in {"save", "delete", "join"} /\ change[k] # None
                                THEN [change[k] EXCEPT !.id = None] ELSE change[k]]
  /\ UNCHANGED <<server, view, list, pane, dialog, late>>

GetServed(n) ==
  /\ gets[n].card = Sent
  /\ gets' = [gets EXCEPT ![n].card = IF cards[gets[n].id] = None THEN Refused ELSE Card(gets[n].id)]
  /\ UNCHANGED <<server, view, list, selected, pane, contact, form, change, dialog, late, crossed, steps>>

GetLost(n) ==
  /\ Step /\ gets' = RemoveAt(gets, n) /\ pane' = "failed"
  /\ UNCHANGED <<server, view, list, selected, contact, form, change, dialog, late, crossed>>

\* The panel keeps no trace of the contact it has asked for.
GetAnswered(n) ==
  LET answer == gets[n].card IN
  /\ answer # Sent
  /\ IF answer = Refused THEN pane' = "failed" /\ UNCHANGED contact
     ELSE pane' = (IF pane = "failed" THEN pane ELSE "shown") /\ contact' = answer
  /\ gets' = RemoveAt(gets, n) /\ late' = (late \/ gets[n].id # selected)
  /\ UNCHANGED <<server, view, list, selected, form, change, dialog, crossed, steps>>

Shown == selected # None /\ pane = "shown" /\ contact # None /\ form = None
StartEdit ==
  /\ Shown /\ ~dialog /\ Free
  /\ form' = [of |-> contact.of, ver |-> contact.ver]
  /\ UNCHANGED <<server, view, list, selected, pane, contact, gets, change, dialog, late, crossed>>
CancelEdit ==
  /\ form # None /\ Step /\ form' = None
  /\ UNCHANGED <<server, view, list, selected, pane, contact, gets, change, dialog, late, crossed>>

AskDelete ==
  /\ Shown /\ ~dialog /\ Free /\ dialog' = TRUE
  /\ UNCHANGED <<server, view, list, selected, pane, contact, form, gets, change, late, crossed>>

CancelDelete ==
  /\ dialog /\ Step /\ dialog' = FALSE
  /\ UNCHANGED <<server, view, list, selected, pane, contact, form, gets, change, late, crossed>>

----------------------------------------------------------------------------
(* Changes: the request is about the contact that is selected.             *)

Request(k, i, f, g) ==
  /\ change[k] = None /\ Step
  /\ change' = [change EXCEPT ![k] = [id |-> i, to |-> i, form |-> f, group |-> g, answer |-> Sent]]
  /\ crossed' = (crossed \/ Busy \/ gets # <<>> \/ (k = "create" /\ i = selected))
  /\ UNCHANGED <<server, view, list, selected, pane, contact, form, gets, late>>

SubmitEdit == form # None /\ Request("save", selected, form, None) /\ UNCHANGED dialog
ConfirmDelete == dialog /\ dialog' = FALSE /\ Request("delete", selected, None, None)
AddToGroup(g) ==
  /\ Shown /\ ~dialog /\ g \notin contact.groups
  /\ Request("join", selected, None, g) /\ UNCHANGED dialog
\* A new contact, of the dialog, of the directory or of a file; its address may
\* be that of a contact there is.
Create(from, i) == ~dialog /\ Request("create", i, from, None) /\ UNCHANGED dialog

Answer(k, a) == change' = [change EXCEPT ![k].answer = a]
ChangeServed(k) ==
  LET c == change[k] IN
  /\ c # None /\ c.answer = Sent
  /\ \/ k = "save" /\ cards[c.to] # None
        /\ cards' = [cards EXCEPT ![c.to] = [of |-> c.form.of, ver |-> @.ver + 1]]
        /\ UNCHANGED members
        /\ Answer(k, [id |-> c.to, of |-> c.form.of, ver |-> cards[c.to].ver + 1, groups |-> Groupings(c.to)])
     \/ k = "delete" /\ cards[c.to] # None
        /\ cards' = [cards EXCEPT ![c.to] = None] /\ members' = {m \in members : m[2] # c.to}
        /\ Answer(k, "done")
     \/ k = "join" /\ cards[c.to] # None
        /\ members' = members \union {<<c.group, c.to>>} /\ UNCHANGED cards /\ Answer(k, "done")
     \/ k = "create"
        /\ cards' = [cards EXCEPT ![c.to] = IF @ = None THEN [of |-> c.to, ver |-> 1]
                                            ELSE [@ EXCEPT !.ver = @ + 1]]
        /\ UNCHANGED members /\ Answer(k, "done")
     \/ k \in {"save", "delete", "join"} /\ cards[c.to] = None /\ Answer(k, Refused) /\ UNCHANGED server
  /\ UNCHANGED <<view, list, panel, crossed, steps>>

\* The answer: the panel shows the card that was saved, and the page its row.
ChangeAnswered(k) ==
  LET c == change[k]
      mine == k \in {"save", "delete", "join"}
      heard == mine /\ c.answer # Refused /\ c.id # None
  IN
  /\ c # None /\ c.answer \notin {Sent, None}
  /\ change' = [change EXCEPT ![k] = None]
  /\ late' = (late \/ (heard /\ c.id # selected))
  /\ \/ /\ k = "save" /\ heard
        /\ contact' = c.answer /\ form' = None
        /\ IF rows[c.id] # None
             THEN rows' = [rows EXCEPT ![c.id] = c.answer.ver] /\ UNCHANGED <<listing, lists>>
             ELSE Reload(view, None) /\ UNCHANGED rows
        /\ UNCHANGED <<selected, pane, gets, dialog>>
     \/ /\ k = "delete" /\ heard
        /\ selected' = None /\ contact' = None /\ form' = None /\ gets' = <<>> /\ dialog' = FALSE
        /\ Reload(view, None) /\ UNCHANGED <<rows, pane>>
     \/ /\ k = "join" /\ heard
        /\ contact' = IF contact = None THEN None ELSE [contact EXCEPT !.groups = @ \union {c.group}]
        /\ UNCHANGED <<list, selected, pane, form, gets, dialog>>
     \/ /\ ~mine /\ Reload(view, IF c.form = "dialog" THEN c.to ELSE None)
        /\ UNCHANGED <<rows, selected, pane, contact, form, gets, dialog>>
     \/ mine /\ ~heard /\ UNCHANGED <<list, selected, pane, contact, form, gets, dialog>>
  /\ UNCHANGED <<server, view, crossed, steps>>

\* The request or its answer is lost, or the server refuses what was typed.
ChangeLost(k) ==
  /\ change[k] # None /\ Step
  /\ change' = [change EXCEPT ![k] = None] /\ crossed' = TRUE
  /\ UNCHANGED <<server, view, list, panel>>

Next ==
  \/ \E v \in Groups \union {"all"} : SelectView(v)
  \/ \E n \in DOMAIN lists : ListServed(n) \/ ListAnswered(n) \/ ListLost(n)
  \/ \E i \in Ids : Select(i)
  \/ Close \/ StartEdit \/ CancelEdit \/ AskDelete \/ CancelDelete \/ SubmitEdit \/ ConfirmDelete
  \/ \E n \in DOMAIN gets : GetServed(n) \/ GetAnswered(n) \/ GetLost(n)
  \/ \E g \in Groups : AddToGroup(g)
  \/ \E from \in Sources, i \in Ids : Create(from, i)
  \/ \E k \in Kinds : ChangeServed(k) \/ ChangeAnswered(k) \/ ChangeLost(k)

Spec == Init /\ [][Next]_vars

----------------------------------------------------------------------------
(* Properties.                                                             *)

TypeOK ==
  /\ DOMAIN cards = Ids /\ members \subseteq Groups \X Ids /\ DOMAIN rows = Ids
  /\ listing \in {"loading", "failed", "shown"} /\ pane \in {"loading", "failed", "shown"}
  /\ selected \in Ids \union {None} /\ DOMAIN change = Kinds /\ steps \in 0..MaxSteps

\* No contact gets the card of another, and what is shown, edited, deleted or put
\* in a group is the contact that is selected, as the server has it.  Left out: an
\* answer that is applied to the panel of another contact, which nothing prevents.
PanelSound ==
  ~late =>
    /\ \A i \in Ids : cards[i] # None => cards[i].of = i
    /\ selected # None /\ pane = "shown" => contact.id = selected
    /\ form # None => form.of = selected
    /\ ~crossed /\ ~Busy /\ gets = <<>> /\ selected # None /\ pane = "shown" => contact = Card(selected)

\* The list is that of the view once its requests are answered, none of which
\* overlapped: nothing that was deleted stays, and what was saved is listed.  A
\* group lacks the contact that was just put in it.
ListTrue ==
  ~crossed /\ ~Busy =>
    /\ listing = "shown"
    /\ \A i \in Ids : rows[i] # None => rows[i] = Listed(view)[i]
    /\ view = "all" => rows = Listed("all")

\* A form that is filled in closes when it is saved or cancelled, or another
\* contact is selected: no other answer takes it away.
FormKept ==
  [][form # None /\ form' = None /\ ~late' =>
       \/ selected' # selected
       \/ steps' # steps
       \/ change["save"] # None /\ change["save"].answer # Refused /\ change'["save"] = None]_vars

\* Refuted: the contact a request is about is the one that is shown
\* (ContactDetailPanel.vue:51, :94).
ActsOnShown ==
  [][\A k \in {"save", "delete", "join"} :
       change[k] = None /\ change'[k] # None => contact.id = change'[k].id]_vars
=============================================================================

------------------------------ MODULE FolderNav ------------------------------
(* The folders beside the mail (components/mail/FolderNav.vue): the tree that is  *)
(* built from the list of the store (stores/mail.ts), the dialogs that create,     *)
(* rename, move, empty and delete a folder, the folder that is open, and the       *)
(* subscriptions in the settings (FoldersSettings.vue).  The handlers of the       *)
(* server are one step each (Mailbox has their inside).  A folder has an id that   *)
(* the program does not know: its path changes, and may be given to another.       *)
EXTENDS Naturals, Sequences, SequencesExt, FiniteSets, TLC

CONSTANTS
  Paths,      \* the personal folders there may be: sequences of numbers
  Existing,   \* those there are at first
  None, Sent, Refused,
  MaxSteps    \* bound: what the user does, changes from elsewhere, lost answers

VARIABLES
  tree,       \* on the server: tree[path] = [id, sub], the personal folders
  nextId,
  shown,      \* mail.folders: rows [path, id] of the subscribed folders
  load,       \* loadPromise: None, Sent, or the rows of the answer
  current,    \* the folder of the route; <<>> is the INBOX
  collapsed,  \* collapsedPaths
  dialog,     \* None, or [kind, row, into]: the folder it is for, the destination
  requests,   \* requests[group]: None, or [kind, row, to, answer]; the forms refuse a
              \* second one (saving, moveSaving), for confirmations it is a bound
  stale,      \* the list missed a change, or its reload failed (history)
  raced,      \* an operation was asked while the list was behind or anything was under way (history)
  astray,     \* the folder that is open left its path without its page (history)
  wrong,      \* an operation reached another folder than that of its row (history)
  steps

vars == <<tree, nextId, shown, load, current, collapsed, dialog, requests,
          stale, raced, astray, wrong, steps>>
history == <<stale, raced, astray, wrong>>

Root == <<>>
Inbox == <<>>
NoRow == [path |-> Root, id |-> 0]
Groups == {"form", "move", "delete", "empty"}
Kinds == {"create", "rename", "move", "delete", "empty"}
Confirmed == {"delete", "empty"}   \* asked for in an alert, which a click closes
GroupOf(kind) == IF kind \in {"create", "rename"} THEN "form" ELSE kind
Step == steps < MaxSteps /\ steps' = steps + 1

Listed(t) == {[path |-> p, id |-> t[p].id] : p \in {q \in DOMAIN t : t[q].sub}}
PathsOf(rows) == {r.path : r \in rows}
Under(ps, p) == {q \in ps : IsPrefix(p, q)}
Rebased(q, p, new) == new \o SubSeq(q, Len(p) + 1, Len(q))

Init ==
  /\ tree = [p \in Existing |-> [id |-> CHOOSE n \in 1..Cardinality(Existing) :
                                          n = Cardinality({q \in Existing : Len(q) < Len(p)
                                                \/ (Len(q) = Len(p) /\ q[1] <= p[1])}),
                                 sub |-> TRUE]]
  /\ nextId = Cardinality(Existing) + 1
  /\ shown = {} /\ load = Sent /\ current = Inbox /\ collapsed = {} /\ dialog = None
  /\ requests = [g \in Groups |-> None]
  /\ stale = FALSE /\ raced = FALSE /\ astray = FALSE /\ wrong = FALSE /\ steps = 0

----------------------------------------------------------------------------
(* The tree: what the list says, each folder under its parent.             *)

HasParent(p) == Len(p) > 1 /\ Front(p) \in PathsOf(shown)
ChildrenOf(p) == {q \in PathsOf(shown) : Len(q) > 1 /\ Front(q) = p}
Roots == {p \in PathsOf(shown) : ~HasParent(p)}
DepthOf[p \in Paths] == IF HasParent(p) THEN DepthOf[Front(p)] + 1 ELSE 0

Before(p, q) == Last(p) < Last(q) \/ (Last(p) = Last(q) /\ Len(p) <= Len(q) /\ p[1] <= q[1])
InOrder(ps) == SetToSortSeq(ps, Before)
Visit[p \in Paths] ==
  <<[path |-> p, depth |-> DepthOf[p], hasChildren |-> ChildrenOf(p) # {}]>>
    \o IF p \in collapsed THEN <<>>
       ELSE FoldLeft(LAMBDA acc, q : acc \o Visit[q], <<>>, InOrder(ChildrenOf(p)))
Rows == FoldLeft(LAMBDA acc, p : acc \o Visit[p], <<>>, InOrder(Roots))
Visible == {Rows[k].path : k \in DOMAIN Rows}

ToggleCollapse(p) ==
  /\ p \in Visible /\ ChildrenOf(p) # {} /\ dialog = None /\ Step
  /\ collapsed' = IF p \in collapsed THEN collapsed \ {p} ELSE collapsed \union {p}
  /\ UNCHANGED <<tree, nextId, shown, load, current, dialog, requests, history>>

\* Neither the folder nor what is under it; the root is offered besides.
MoveTargetsFor(p) == {Root} \union (PathsOf(shown) \ Under(PathsOf(shown), p))

----------------------------------------------------------------------------
(* The list of the store: one request, which its callers share.            *)

\* The dialog that closes is the one that is open by then.
Closed(g) == IF dialog # None /\ GroupOf(dialog.kind) = g THEN None ELSE dialog

\* Handlers that awaited the list end with it: saving, moveSaving and toDelete.
Awaits(g) == requests[g] # None /\ requests[g].answer = "listing"
Resumed ==
  /\ requests' = [g \in Groups |-> IF Awaits(g) THEN None ELSE requests[g]]
  /\ dialog' = IF Awaits("delete") THEN Closed("delete") ELSE dialog

\* loadFolders: a call that joins a request already served misses the change.
LoadFolders ==
  /\ load' = IF load = None THEN Sent ELSE load
  /\ stale' = IF load = None THEN FALSE ELSE stale \/ load # Sent

\* The list is loaded every minute, and at the changes of messages.
Interval ==
  /\ load = None /\ LoadFolders
  /\ UNCHANGED <<tree, nextId, shown, current, collapsed, dialog, requests, raced, astray, wrong, steps>>

LoadServed ==
  /\ load = Sent /\ load' = Listed(tree)
  /\ UNCHANGED <<tree, nextId, shown, current, collapsed, dialog, requests, history, steps>>
LoadAnswered ==
  /\ load \notin {None, Sent} /\ shown' = load /\ load' = None /\ Resumed
  /\ UNCHANGED <<tree, nextId, current, collapsed, history, steps>>
LoadFails ==
  /\ load # None /\ Step /\ load' = None /\ stale' = TRUE /\ Resumed
  /\ UNCHANGED <<tree, nextId, shown, current, collapsed, raced, astray, wrong>>

\* A change that the list does not know of, unless it has yet to be read.
Missed == stale' = (stale \/ load # Sent)

Busy == load # None \/ \E g \in Groups : requests[g] # None

----------------------------------------------------------------------------
(* The dialogs.                                                            *)

Open(kind, row) ==
  /\ dialog = None /\ Step
  /\ IF row = NoRow THEN kind = "create" ELSE row \in shown /\ row.path \in Visible
  /\ dialog' = [kind |-> kind, row |-> row, into |-> Root]
  /\ raced' = (raced \/ Busy \/ stale)
  /\ UNCHANGED <<tree, nextId, shown, load, current, collapsed, requests, stale, astray, wrong>>
Cancel ==
  /\ dialog # None /\ dialog' = None
  /\ UNCHANGED <<tree, nextId, shown, load, current, collapsed, requests, history, steps>>

ChooseTarget(p) ==
  /\ dialog # None /\ dialog.kind = "move" /\ p \in MoveTargetsFor(dialog.row.path)
  /\ dialog' = [dialog EXCEPT !.into = p] /\ p # dialog.into
  /\ UNCHANGED <<tree, nextId, shown, load, current, collapsed, requests, history, steps>>

\* What the folder of the dialog becomes, if it is given that name or destination.
Becomes(kind, row, into, n) ==
  CASE kind = "create" -> Append(row.path, n)
    [] kind = "rename" -> Append(Front(row.path), n)
    [] kind = "move" -> Append(into, Last(row.path))
    [] OTHER -> row.path

\* submitFolder, submitMove, confirmDelete, confirmEmpty: the dialog of a form
\* stays until its answer, a confirmation closes.
Submit(n) ==
  /\ dialog # None /\ requests[GroupOf(dialog.kind)] = None
  /\ LET to == Becomes(dialog.kind, dialog.row, dialog.into, n) IN
     /\ to \in Paths
     /\ requests' = [requests EXCEPT ![GroupOf(dialog.kind)] =
          [kind |-> dialog.kind, row |-> dialog.row, to |-> to, answer |-> Sent]]
  /\ dialog' = IF dialog.kind \in Confirmed THEN None ELSE dialog
  /\ raced' = (raced \/ Busy \/ stale)
  /\ UNCHANGED <<tree, nextId, shown, load, current, collapsed, stale, astray, wrong, steps>>

----------------------------------------------------------------------------
(* The server.                                                             *)

Answers(g, a) == requests' = [requests EXCEPT ![g].answer = a]
Reaches(r) == wrong' = (wrong \/ (r.kind # "create" /\ tree[r.row.path].id # r.row.id))

Moved(p, to) ==
  LET moving == Under(DOMAIN tree, p)
      new(q) == Rebased(q, p, to)
  IN [q \in (DOMAIN tree \ moving) \union {new(m) : m \in moving} |->
        IF \E m \in moving : new(m) = q THEN tree[CHOOSE m \in moving : new(m) = q] ELSE tree[q]]

\* folders.post.ts
CreateServed ==
  LET r == requests["form"] IN
  /\ r # None /\ r.kind = "create" /\ r.answer = Sent
  /\ IF (r.row # NoRow /\ r.row.path \notin DOMAIN tree) \/ r.to \in DOMAIN tree
       THEN Answers("form", Refused) /\ UNCHANGED <<tree, nextId>>
       ELSE /\ tree' = (r.to :> [id |-> nextId, sub |-> TRUE]) @@ tree
            /\ nextId' = nextId + 1 /\ Answers("form", "done")
  /\ UNCHANGED <<shown, load, current, collapsed, dialog, history, steps>>

\* folders.patch.ts: under another name, or another parent.  The backend renames
\* and deletes only what is subscribed to.
RenameServed(g) ==
  LET r == requests[g] IN
  /\ r # None /\ r.kind \in {"rename", "move"} /\ r.answer = Sent
  /\ LET p == r.row.path IN
     IF \/ p \notin DOMAIN tree
        \/ Len(r.to) > 1 /\ Front(r.to) \notin DOMAIN tree
        \/ IsStrictPrefix(p, r.to)
        \/ r.to # p /\ (r.to \in DOMAIN tree \/ ~tree[p].sub)
       THEN Answers(g, Refused) /\ UNCHANGED <<tree, wrong, astray>>
       ELSE /\ \A q \in Under(DOMAIN tree, p) : Rebased(q, p, r.to) \in Paths
            /\ tree' = Moved(p, r.to) /\ Answers(g, "done") /\ Reaches(r)
            /\ astray' = (astray \/ (r.to # p /\ IsPrefix(p, current)
                                       /\ (r.kind = "move" \/ p # current)))
  /\ UNCHANGED <<nextId, shown, load, current, collapsed, dialog, stale, raced, steps>>

\* folders.delete.ts: not one that has others under it.
DeleteServed ==
  LET r == requests["delete"] IN
  /\ r # None /\ r.answer = Sent
  /\ IF Under(DOMAIN tree, r.row.path) # {r.row.path} \/ ~tree[r.row.path].sub
       THEN Answers("delete", Refused) /\ UNCHANGED <<tree, wrong>>
       ELSE /\ tree' = [q \in DOMAIN tree \ {r.row.path} |-> tree[q]]
            /\ Answers("delete", "done") /\ Reaches(r)
  /\ UNCHANGED <<nextId, shown, load, current, collapsed, dialog, stale, raced, astray, steps>>

\* folders/empty.post.ts: only what the server says is the trash or the junk.
EmptyServed ==
  LET r == requests["empty"] IN
  /\ r # None /\ r.answer = Sent /\ Answers("empty", Refused)
  /\ UNCHANGED <<tree, nextId, shown, load, current, collapsed, dialog, history, steps>>

----------------------------------------------------------------------------
(* The answers.                                                            *)

\* The list is loaded next, and awaited.
Lists(g) == LoadFolders /\ Answers(g, "listing")

\* submitFolder: a folder that is open is followed to its new name.
FormAnswered ==
  LET r == requests["form"] IN
  /\ r # None /\ r.answer = "done"
  /\ current' = IF r.kind = "rename" /\ current = r.row.path THEN r.to ELSE current
  /\ dialog' = Closed("form") /\ Lists("form")
  /\ UNCHANGED <<tree, nextId, shown, collapsed, raced, astray, wrong, steps>>

\* submitMove
MoveAnswered ==
  /\ requests["move"] # None /\ requests["move"].answer = "done"
  /\ dialog' = Closed("move") /\ Lists("move")
  /\ UNCHANGED <<tree, nextId, shown, current, collapsed, raced, astray, wrong, steps>>

\* confirmDelete: a page on the folder goes to the inbox.
DeleteAnswered ==
  LET r == requests["delete"] IN
  /\ r # None /\ r.answer = "done"
  /\ current' = IF current = r.row.path THEN Inbox ELSE current
  /\ Lists("delete")
  /\ UNCHANGED <<tree, nextId, shown, collapsed, dialog, raced, astray, wrong, steps>>

RefusedAnswer(g) ==
  LET r == requests[g] IN
  /\ r # None /\ r.answer = Refused
  /\ requests' = [requests EXCEPT ![g] = None]
  /\ dialog' = IF g = "delete" THEN Closed(g) ELSE dialog
  /\ UNCHANGED <<tree, nextId, shown, load, current, collapsed, history, steps>>

\* The answer is lost, after the change or before it: the list is not loaded.
Lost(g) ==
  LET r == requests[g] IN
  /\ r # None /\ r.answer \in {Sent, "done"} /\ Step
  /\ requests' = [requests EXCEPT ![g] = None]
  /\ dialog' = IF g = "delete" THEN Closed(g) ELSE dialog
  /\ stale' = (stale \/ r.answer = "done")
  /\ astray' = (astray \/ (r.answer = "done" /\ current # Inbox /\ current \notin DOMAIN tree))
  /\ UNCHANGED <<tree, nextId, shown, load, current, collapsed, raced, wrong>>

----------------------------------------------------------------------------
(* The route, the subscriptions, and another client of the account.        *)

\* A row that the list still shows may be gone.
Navigate(p) ==
  /\ p = Inbox \/ p \in Visible
  /\ p # current /\ dialog = None /\ Step
  /\ current' = p /\ astray' = (p # Inbox /\ p \notin DOMAIN tree)
  /\ UNCHANGED <<tree, nextId, shown, load, collapsed, dialog, requests, stale, raced, wrong>>

\* toggleSubscribed of FoldersSettings.vue: the list beside is not loaded again.
ToggleSubscribed(p) ==
  /\ p \in DOMAIN tree /\ dialog = None /\ Step
  /\ tree' = [tree EXCEPT ![p].sub = ~@] /\ Missed
  /\ UNCHANGED <<nextId, shown, load, current, collapsed, dialog, requests, raced, astray, wrong>>

Elsewhere(p) ==
  /\ p \in DOMAIN tree /\ Under(DOMAIN tree, p) = {p} /\ Step
  /\ tree' = [q \in DOMAIN tree \ {p} |-> tree[q]] /\ Missed
  /\ astray' = (astray \/ p = current)
  /\ UNCHANGED <<nextId, shown, load, current, collapsed, dialog, requests, raced, wrong>>

Next ==
  \/ \E p \in Paths : ToggleCollapse(p) \/ ToggleSubscribed(p) \/ Elsewhere(p)
  \/ \E p \in Paths \union {Root} : ChooseTarget(p) \/ Navigate(p)
  \/ Interval \/ LoadServed \/ LoadAnswered \/ LoadFails
  \/ \E kind \in Kinds, row \in shown \union {NoRow} : Open(kind, row)
  \/ Cancel \/ \E n \in {Last(p) : p \in Paths} : Submit(n)
  \/ CreateServed \/ DeleteServed \/ EmptyServed
  \/ FormAnswered \/ MoveAnswered \/ DeleteAnswered
  \/ \E g \in Groups : RenameServed(g) \/ RefusedAnswer(g) \/ Lost(g)

Spec == Init /\ [][Next]_vars

----------------------------------------------------------------------------
(* Properties.                                                             *)

TypeOK ==
  /\ DOMAIN tree \subseteq Paths /\ PathsOf(shown) \subseteq Paths
  /\ current \in Paths \union {Inbox} /\ collapsed \subseteq Paths
  /\ steps \in 0..MaxSteps

\* Whatever the list holds, each of its folders has one row, after that of its
\* parent and under it, unless a folder above it is collapsed; one whose parent is
\* not listed (its subscription may be off) is at the root.
TreeShowsList ==
  LET above(p) == {SubSeq(p, 1, k) : k \in 1..(Len(p) - 1)}
      chain(p) == {a \in above(p) : \A b \in above(p) : Len(b) >= Len(a) => b \in PathsOf(shown)}
  IN /\ Visible = {p \in PathsOf(shown) : chain(p) \cap collapsed = {}}
     /\ Len(Rows) = Cardinality(Visible)
     /\ \A k \in DOMAIN Rows :
          /\ Rows[k].depth = Cardinality(chain(Rows[k].path))
          /\ HasParent(Rows[k].path) =>
               \E j \in 1..(k - 1) : Rows[j].path = Front(Rows[k].path)

\* No move is asked into the folder itself or under it, whatever changes meanwhile.
\* Once the requests have ended: the list is that of the server, unless it missed a
\* change; the folder that is open exists, unless it left without its page; and
\* each operation reached the folder of its row, unless it was asked while another
\* was under way or the list was behind.
FoldersSound ==
  /\ TreeShowsList
  /\ requests["move"] # None =>
       ~IsStrictPrefix(requests["move"].row.path, requests["move"].to)
  /\ ~Busy /\ ~stale => shown = Listed(tree)
  /\ ~Busy /\ ~astray => current = Inbox \/ current \in DOMAIN tree
  /\ ~raced => ~wrong

\* Refuted: the folder that is open exists, as long as only this tab changes
\* folders.  Moving it, or renaming one above it, leaves the page on the old path
\* (FolderNav.vue:165 and :230).
RouteExists == ~Busy /\ ~stale => current = Inbox \/ current \in DOMAIN tree
=============================================================================

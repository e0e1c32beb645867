--------------------------- MODULE ContactsSettings ---------------------------
(* The addresses in the settings (components/settings/ContactsSettings.vue): a     *)
(* list that is searched, names edited in place, a line to add one and a confirmed *)
(* deletion, each with its own request.  Leaving the input of a name saves it.     *)
EXTENDS Naturals, Sequences, SequencesExt, FiniteSets

CONSTANTS
  Ids, Existing,
  Hits,       \* the contacts that the search finds
  None, Sent, Refused,
  MaxSteps    \* bound: what the user does, and lost answers

VARIABLES
  cards,     \* cards[i], on the server: None, or a name [of, ver]
  rows,      \* the list: [id, name]
  loading,
  query,     \* "" or "q"
  debounce,  \* the search waits
  loads,     \* requests of the list, in the order they left: [q, rows]
  adding,    \* None, or [id, answer]
  editing,   \* editingId: None, or a contact
  text,      \* editingName
  renames,   \* requests: [id, name, answer]
  deleting,  \* deletingId
  dialog,
  deletes,   \* requests: [id, answer]
  doubled,   \* a contact of the list was added again (history)
  crossed,   \* requests overlapped in a way the answers do not survive (history)
  count

vars == <<cards, rows, loading, query, debounce, loads, adding, editing, text, renames,
          deleting, dialog, deletes, doubled, crossed, count>>

Step == count < MaxSteps /\ count' = count + 1
Matching(q) == {i \in Ids : cards[i] # None /\ (q = "" \/ i \in Hits)}
Listed(q) == LET ids == SetToSortSeq(Matching(q), LAMBDA a, b : a < b)
             IN [k \in DOMAIN ids |-> [id |-> ids[k], name |-> cards[ids[k]]]]
Shown == {rows[k].id : k \in DOMAIN rows}
NameOf(i) == rows[CHOOSE k \in DOMAIN rows : rows[k].id = i].name
Changing == adding # None \/ renames # <<>> \/ deletes # <<>>

Init ==
  /\ cards = [i \in Ids |-> IF i \in Existing THEN [of |-> i, ver |-> 1] ELSE None]
  /\ rows = <<>> /\ loading = TRUE /\ query = "" /\ debounce = FALSE
  /\ loads = <<[q |-> "", rows |-> Sent]>>
  /\ adding = None /\ editing = None /\ text = None /\ renames = <<>>
  /\ deleting = None /\ dialog = FALSE /\ deletes = <<>>
  /\ doubled = FALSE /\ crossed = FALSE /\ count = 0

----------------------------------------------------------------------------
(* The list.                                                               *)

Search(q) ==
  /\ q # query /\ ~dialog /\ Step
  /\ query' = q /\ debounce' = TRUE
  /\ UNCHANGED <<cards, rows, loading, loads, adding, editing, text, renames, deleting, dialog, deletes, doubled, crossed>>

\* After 250 ms: several requests may be under way.
DebounceEnds ==
  /\ debounce /\ debounce' = FALSE
  /\ loading' = TRUE /\ loads' = Append(loads, [q |-> query, rows |-> Sent])
  /\ crossed' = (crossed \/ loads # <<>> \/ Changing)
  /\ UNCHANGED <<cards, rows, query, adding, editing, text, renames, deleting, dialog, deletes, doubled, count>>

LoadServed(n) ==
  /\ loads[n].rows = Sent
  /\ loads' = [loads EXCEPT ![n].rows = Listed(loads[n].q)]
  /\ UNCHANGED <<cards, rows, loading, query, debounce, adding, editing, text, renames, deleting, dialog, deletes, doubled, crossed, count>>
LoadAnswered(n) ==
  /\ loads[n].rows # Sent
  /\ rows' = loads[n].rows /\ loading' = FALSE /\ loads' = RemoveAt(loads, n)
  /\ doubled' = FALSE
  /\ UNCHANGED <<cards, query, debounce, adding, editing, text, renames, deleting, dialog, deletes, crossed, count>>
\* The old list stays, without a word.
LoadLost(n) ==
  /\ Step /\ loading' = FALSE /\ loads' = RemoveAt(loads, n) /\ crossed' = TRUE
  /\ UNCHANGED <<cards, rows, query, debounce, adding, editing, text, renames, deleting, dialog, deletes, doubled>>

----------------------------------------------------------------------------
(* Adding.                                                                 *)

Add(i) ==
  /\ adding = None /\ ~dialog /\ Step
  /\ adding' = [id |-> i, answer |-> Sent]
  /\ crossed' = (crossed \/ loads # <<>> \/ renames # <<>> \/ deletes # <<>>)
  /\ UNCHANGED <<cards, rows, loading, query, debounce, loads, editing, text, renames, deleting, dialog, deletes, doubled>>

\* addContact: the name of a contact there is, or a new one.
AddServed ==
  /\ adding # None /\ adding.answer = Sent
  /\ cards' = [cards EXCEPT ![adding.id] = IF @ = None THEN [of |-> adding.id, ver |-> 1]
                                           ELSE [of |-> adding.id, ver |-> @.ver + 1]]
  /\ adding' = [adding EXCEPT !.answer = cards'[adding.id]]
  /\ UNCHANGED <<rows, loading, query, debounce, loads, editing, text, renames, deleting, dialog, deletes, doubled, crossed, count>>

AddAnswered ==
  /\ adding # None /\ adding.answer # Sent
  /\ rows' = <<[id |-> adding.id, name |-> adding.answer]>> \o rows
  /\ doubled' = (doubled \/ adding.id \in Shown \/ (query = "q" /\ adding.id \notin Hits))
  /\ adding' = None
  /\ UNCHANGED <<cards, loading, query, debounce, loads, editing, text, renames, deleting, dialog, deletes, crossed, count>>

----------------------------------------------------------------------------
(* Renaming in place.                                                      *)

\* saveRename; a blank name is dropped.
Sending == IF text = None THEN renames
           ELSE Append(renames, [id |-> editing, name |-> text, answer |-> Sent])
Racing == text # None /\ (loads # <<>> \/ adding # None \/ deletes # <<>>
                          \/ \E n \in DOMAIN renames : renames[n].id = editing)

\* The input of another name is left by it, hence saved.
StartEdit(i) ==
  /\ i \in Shown /\ ~loading /\ ~dialog /\ i # editing /\ Step
  /\ renames' = IF editing = None THEN renames ELSE Sending
  /\ crossed' = (crossed \/ (editing # None /\ Racing))
  /\ editing' = i /\ text' = NameOf(i)
  /\ UNCHANGED <<cards, rows, loading, query, debounce, loads, adding, deleting, dialog, deletes, doubled>>

Type(t) ==
  /\ editing \in Shown /\ ~loading /\ ~dialog /\ Step /\ text' = t
  /\ UNCHANGED <<cards, rows, loading, query, debounce, loads, adding, editing, renames, deleting, dialog, deletes, doubled, crossed>>

\* Enter, and the input loses the focus: it stays open until the answer.
SaveRename ==
  /\ editing \in Shown /\ ~loading /\ ~dialog /\ Step
  /\ renames' = Sending /\ crossed' = (crossed \/ Racing)
  /\ editing' = IF text = None THEN None ELSE editing
  /\ UNCHANGED <<cards, rows, loading, query, debounce, loads, adding, text, deleting, dialog, deletes, doubled>>

CancelEdit ==
  /\ editing # None /\ ~dialog /\ Step /\ editing' = None /\ text' = None
  /\ UNCHANGED <<cards, rows, loading, query, debounce, loads, adding, renames, deleting, dialog, deletes, doubled, crossed>>

RenameServed(n) ==
  /\ renames[n].answer = Sent
  /\ LET r == renames[n] IN
     IF cards[r.id] = None
       THEN renames' = [renames EXCEPT ![n].answer = Refused] /\ UNCHANGED cards
       ELSE cards' = [cards EXCEPT ![r.id] = r.name] /\ renames' = [renames EXCEPT ![n].answer = "done"]
  /\ UNCHANGED <<rows, loading, query, debounce, loads, adding, editing, text, deleting, dialog, deletes, doubled, crossed, count>>

\* The answer closes the input, whichever name is edited by then.
RenameAnswered(n) ==
  /\ renames[n].answer # Sent
  /\ renames' = RemoveAt(renames, n)
  /\ IF renames[n].answer = Refused THEN UNCHANGED <<rows, editing>>
     ELSE /\ rows' = [k \in DOMAIN rows |-> IF rows[k].id = renames[n].id
                        THEN [rows[k] EXCEPT !.name = renames[n].name] ELSE rows[k]]
          /\ editing' = None
  /\ UNCHANGED <<cards, loading, query, debounce, loads, adding, text, deleting, dialog, deletes, doubled, crossed, count>>

----------------------------------------------------------------------------
(* Deleting.                                                               *)

AskDelete(i) ==
  /\ i \in Shown /\ ~loading /\ ~dialog /\ Step
  /\ deleting' = i /\ dialog' = TRUE
  /\ renames' = IF editing = None THEN renames ELSE Sending   \* the input is left
  /\ editing' = IF text = None THEN None ELSE editing
  /\ crossed' = (crossed \/ (editing # None /\ Racing) \/ deletes # <<>>)
  /\ UNCHANGED <<cards, rows, loading, query, debounce, loads, adding, text, deletes, doubled>>
CancelDelete ==
  /\ dialog /\ Step /\ dialog' = FALSE
  /\ UNCHANGED <<cards, rows, loading, query, debounce, loads, adding, editing, text, renames, deleting, deletes, doubled, crossed>>

\* The dialog stays until the answer; the button may be pressed again.
ConfirmDelete ==
  /\ dialog /\ deleting # None /\ Step
  /\ deletes' = Append(deletes, [id |-> deleting, answer |-> Sent])
  /\ crossed' = (crossed \/ loads # <<>> \/ adding # None \/ \E n \in DOMAIN renames : renames[n].id = deleting)
  /\ UNCHANGED <<cards, rows, loading, query, debounce, loads, adding, editing, text, renames, deleting, dialog, doubled>>

DeleteServed(n) ==
  /\ deletes[n].answer = Sent
  /\ LET i == deletes[n].id IN
     /\ cards' = [cards EXCEPT ![i] = None]
     /\ deletes' = [deletes EXCEPT ![n].answer = IF cards[i] = None THEN Refused ELSE "done"]
  /\ UNCHANGED <<rows, loading, query, debounce, loads, adding, editing, text, renames, deleting, dialog, doubled, crossed, count>>

\* The row that leaves the list is that of the dialog.
DeleteAnswered(n) ==
  /\ deletes[n].answer # Sent /\ deletes' = RemoveAt(deletes, n)
  /\ IF deletes[n].answer = Refused THEN UNCHANGED <<rows, deleting, dialog>>
     ELSE rows' = SelectSeq(rows, LAMBDA r : r.id # deleting) /\ deleting' = None /\ dialog' = FALSE
  /\ UNCHANGED <<cards, loading, query, debounce, loads, adding, editing, text, renames, doubled, crossed, count>>

\* The answer of a change is lost.
ChangeLost ==
  /\ Step /\ crossed' = TRUE
  /\ \/ adding # None /\ adding' = None /\ UNCHANGED <<renames, deletes>>
     \/ \E n \in DOMAIN renames : renames' = RemoveAt(renames, n) /\ UNCHANGED <<adding, deletes>>
     \/ \E n \in DOMAIN deletes : deletes' = RemoveAt(deletes, n) /\ UNCHANGED <<adding, renames>>
  /\ UNCHANGED <<cards, rows, loading, query, debounce, loads, editing, text, deleting, dialog, doubled>>

Texts == {None} \union (IF editing = None THEN {} ELSE {[of |-> editing, ver |-> 9]})
Next ==
  \/ \E q \in {"", "q"} : Search(q)
  \/ DebounceEnds \/ AddServed \/ AddAnswered \/ SaveRename \/ CancelEdit
  \/ \E n \in DOMAIN loads : LoadServed(n) \/ LoadAnswered(n) \/ LoadLost(n)
  \/ \E i \in Ids : Add(i) \/ StartEdit(i) \/ AskDelete(i)
  \/ \E t \in Texts : Type(t)
  \/ \E n \in DOMAIN renames : RenameServed(n) \/ RenameAnswered(n)
  \/ CancelDelete \/ ConfirmDelete \/ ChangeLost
  \/ \E n \in DOMAIN deletes : DeleteServed(n) \/ DeleteAnswered(n)

Spec == Init /\ [][Next]_vars

----------------------------------------------------------------------------
(* Properties.                                                             *)

TypeOK ==
  /\ DOMAIN cards = Ids /\ Shown \subseteq Ids /\ query \in {"", "q"}
  /\ editing \in Ids \union {None} /\ deleting \in Ids \union {None} /\ count \in 0..MaxSteps

\* Whatever requests cross, no contact gets the name typed for another.  As long
\* as none overlaps another about the same contact, or the reload of the list: once
\* they have ended the list is what the search finds, each with its name.
AddressesSound ==
  /\ \A i \in Ids : cards[i] # None => cards[i].of = i
  /\ ~crossed /\ ~doubled /\ ~Changing /\ loads = <<>> /\ ~debounce =>
       /\ ~loading
       /\ {rows[k] : k \in DOMAIN rows} = {[id |-> i, name |-> cards[i]] : i \in Matching(query)}
       /\ Len(rows) = Cardinality(Matching(query))

\* Refuted: the input of a name stays open until it is saved, left or cancelled.
\* The answer of the one before closes it (ContactsSettings.vue:113).
EditKept ==
  [][editing # None /\ editing' = None /\ count' = count =>
       \E n \in DOMAIN renames : renames[n].id = editing]_vars
=============================================================================

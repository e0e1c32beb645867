---------------------------- MODULE SettingsForms ----------------------------
(* Two sections of the settings of the same design: the identities               *)
(* (components/settings/IdentitiesSettings.vue, server/lib/store/identities.ts)   *)
(* and the canned responses (ResponsesSettings.vue, store/responses.ts): a list,   *)
(* one form for what is selected or being created, and a confirmed deletion.  The  *)
(* list is loaded once and then follows the answers.  A content is what it was     *)
(* written for and a version; `page' says which section it is.                     *)
EXTENDS Naturals, Sequences, SequencesExt, FiniteSets

CONSTANTS
  None, Sent, Refused,
  Limit,     \* MAX_IDENTITIES, MAX_RESPONSES
  MaxSteps   \* bound: what the user does, and lost answers

VARIABLES
  page,      \* "identities" or "responses"
  items,     \* on the server, oldest first: [id, of, ver, dflt]
  nextId,
  rows,      \* the list as the page holds it, None until it is loaded
  missing,   \* what it does not hold, because its load failed (history)
  selected,  \* id, or None
  creating,
  form,      \* [of, ver, dflt, ticked]; ticked: the user changed the box
  saving,    \* None, or the request [id, form, answer]; id None creates
  removing,  \* None, or the request [id, answer]
  dialog,
  news,      \* how many forms were begun for something new (ghost)
  stale,     \* a default was set or lost without the list knowing (history)
  crossed,   \* something else was selected during a request, or one was lost (history)
  count

vars == <<page, missing, items, nextId, rows, selected, creating, form, saving, removing, dialog,
          news, stale, crossed, count>>

Step == count < MaxSteps /\ count' = count + 1
Loaded == rows # None
Ids(list) == {list[k].id : k \in DOMAIN list}
Place(list, i) == CHOOSE k \in DOMAIN list : list[k].id = i
At(list, i) == list[Place(list, i)]
Without(list, i) == SelectSeq(list, LAMBDA r : r.id # i)
Undefault(list) == [k \in DOMAIN list |-> [list[k] EXCEPT !.dflt = FALSE]]
Defaults(list) == {list[k].id : k \in {j \in DOMAIN list : list[j].dflt}}
NewTag(n) == <<"new", n>>
Blank == [of |-> None, ver |-> 0, dflt |-> FALSE, ticked |-> FALSE]
Item(i, f) == [id |-> i, of |-> IF f.of \in {NewTag(n) : n \in 1..news} THEN <<i>> ELSE f.of,
               ver |-> f.ver, dflt |-> f.dflt]

Init ==
  /\ page \in {"identities", "responses"}
  /\ items = [k \in 1..2 |-> [id |-> k, of |-> <<k>>, ver |-> 1, dflt |-> page = "identities" /\ k = 1]]
  /\ nextId = 3 /\ rows = None /\ missing = {} /\ selected = None /\ creating = FALSE /\ form = Blank
  /\ saving = None /\ removing = None /\ dialog = FALSE
  /\ news = 0 /\ stale = FALSE /\ crossed = FALSE /\ count = 0

----------------------------------------------------------------------------
(* The list and the form.                                                  *)

Filled(r) == [of |-> r.of, ver |-> r.ver, dflt |-> r.dflt, ticked |-> FALSE]
First(list) ==
  IF Defaults(list) # {} THEN CHOOSE i \in Defaults(list) : \A j \in Defaults(list) : i <= j
  ELSE list[1].id
SelectIn(list, i) == selected' = i /\ creating' = FALSE /\ form' = Filled(At(list, i))

\* load; the identities show the default one.
Load ==
  /\ ~Loaded /\ rows' = items
  /\ IF page = "identities" THEN SelectIn(items, First(items))
     ELSE UNCHANGED <<selected, creating, form>>
  /\ UNCHANGED <<page, missing, items, nextId, saving, removing, dialog, news, stale, crossed, count>>

\* Its answer is lost: the list stays empty, and the form is there all the same.
LoadFails ==
  /\ ~Loaded /\ rows' = << >> /\ missing' = Ids(items)
  /\ UNCHANGED <<page, items, nextId, selected, creating, form, saving, removing, dialog, news, stale, crossed, count>>

Away == crossed' = (crossed \/ saving # None \/ removing # None)

Select(i) ==
  /\ Loaded /\ ~dialog /\ i \in Ids(rows) /\ (i # selected \/ creating) /\ Step
  /\ SelectIn(rows, i) /\ Away
  /\ UNCHANGED <<page, missing, items, nextId, rows, saving, removing, dialog, news, stale>>

StartCreate ==
  /\ Loaded /\ ~dialog /\ Len(rows) < Limit /\ Step
  /\ creating' = TRUE /\ selected' = None /\ news' = news + 1
  /\ form' = [Blank EXCEPT !.of = NewTag(news + 1)] /\ Away
  /\ UNCHANGED <<page, missing, items, nextId, rows, saving, removing, dialog, stale>>

FormOpen == Loaded /\ (creating \/ selected \in Ids(rows))

Type ==
  /\ FormOpen /\ ~dialog /\ Step
  /\ form' = [form EXCEPT !.ver = @ + 1]
  /\ crossed' = (crossed \/ removing # None)
  /\ UNCHANGED <<page, missing, items, nextId, rows, selected, creating, saving, removing, dialog, news, stale>>

Tick ==
  /\ page = "identities" /\ FormOpen /\ ~dialog /\ Step
  /\ form' = [form EXCEPT !.dflt = ~@, !.ticked = TRUE]
  /\ crossed' = (crossed \/ removing # None)
  /\ UNCHANGED <<page, missing, items, nextId, rows, selected, creating, saving, removing, dialog, news, stale>>

----------------------------------------------------------------------------
(* Saving.                                                                 *)

Save ==
  /\ FormOpen /\ ~dialog /\ saving = None /\ form.ver > 0
  /\ saving' = [id |-> IF creating THEN None ELSE selected, form |-> form, answer |-> Sent]
  /\ crossed' = (crossed \/ removing # None)
  /\ UNCHANGED <<page, missing, items, nextId, rows, selected, creating, form, removing, dialog, news, stale, count>>

Answered(q, a) == [q EXCEPT !.answer = a]

\* A request to the server that has not been served yet.
Creating == saving # None /\ saving.id = None /\ saving.answer = Sent
Updating == saving # None /\ saving.id # None /\ saving.answer = Sent

\* addIdentity: the default one takes the star of the others.
CreateServed ==
  /\ page = "identities" /\ Creating
  /\ IF Len(items) >= Limit
       THEN saving' = Answered(saving, Refused) /\ UNCHANGED <<items, nextId>>
       ELSE LET new == Item(nextId, saving.form) IN
            /\ items' = Append(IF new.dflt THEN Undefault(items) ELSE items, new)
            /\ nextId' = nextId + 1 /\ saving' = Answered(saving, new)
  /\ UNCHANGED <<page, missing, rows, selected, creating, form, removing, dialog, news, stale, crossed, count>>

\* addResponse.
ResponseAdded ==
  /\ page = "responses" /\ Creating
  /\ IF Len(items) >= Limit
       THEN saving' = Answered(saving, Refused) /\ UNCHANGED <<items, nextId>>
       ELSE LET new == Item(nextId, saving.form) IN
            /\ items' = Append(items, new)
            /\ nextId' = nextId + 1 /\ saving' = Answered(saving, new)
  /\ UNCHANGED <<page, missing, rows, selected, creating, form, removing, dialog, news, stale, crossed, count>>

\* updateIdentity: one default remains.
UpdateServed ==
  /\ page = "identities" /\ Updating
  /\ IF saving.id \notin Ids(items)
       THEN saving' = Answered(saving, Refused) /\ UNCHANGED items
       ELSE LET k == Place(items, saving.id)
                others == IF saving.form.dflt THEN Undefault(items) ELSE items
                written == [others EXCEPT ![k] = Item(saving.id, saving.form)]
            IN /\ items' = IF Defaults(written) = {}
                             THEN [written EXCEPT ![k].dflt = TRUE] ELSE written
               /\ saving' = Answered(saving, items'[k])
  /\ UNCHANGED <<page, missing, nextId, rows, selected, creating, form, removing, dialog, news, stale, crossed, count>>

\* updateResponse.
ResponseUpdated ==
  /\ page = "responses" /\ Updating
  /\ IF saving.id \notin Ids(items)
       THEN saving' = Answered(saving, Refused) /\ UNCHANGED items
       ELSE LET k == Place(items, saving.id) IN
            /\ items' = [items EXCEPT ![k] = Item(saving.id, saving.form)]
            /\ saving' = Answered(saving, items'[k])
  /\ UNCHANGED <<page, missing, nextId, rows, selected, creating, form, removing, dialog, news, stale, crossed, count>>

\* What was created is selected, whatever the form holds by then.
CreateAnswered ==
  /\ saving # None /\ saving.id = None /\ saving.answer \notin {Sent, Refused}
  /\ LET new == saving.answer IN
     /\ rows' = Append(rows, new) /\ creating' = FALSE /\ selected' = new.id
     /\ form' = IF form.of = saving.form.of THEN [form EXCEPT !.of = new.of] ELSE form
     /\ stale' = (stale \/ new.dflt)
  /\ saving' = None
  /\ UNCHANGED <<page, missing, items, nextId, removing, dialog, news, crossed, count>>

UpdateAnswered ==
  /\ saving # None /\ saving.id # None /\ saving.answer \notin {Sent, Refused}
  /\ LET new == saving.answer
         others == IF new.dflt THEN Undefault(rows) ELSE rows
     IN rows' = IF new.id \in Ids(rows) THEN [others EXCEPT ![Place(rows, new.id)] = new] ELSE others
  /\ saving' = None
  /\ UNCHANGED <<page, missing, items, nextId, selected, creating, form, removing, dialog, news, stale, crossed, count>>

SaveRefused ==
  /\ saving # None /\ saving.answer = Refused /\ saving' = None
  /\ UNCHANGED <<page, missing, items, nextId, rows, selected, creating, form, removing, dialog, news, stale, crossed, count>>

----------------------------------------------------------------------------
(* Deleting.                                                               *)

CanDelete == ~creating /\ (page = "identities" => Len(rows) > 1)

AskDelete ==
  /\ FormOpen /\ CanDelete /\ ~dialog /\ Step /\ dialog' = TRUE
  /\ UNCHANGED <<page, missing, items, nextId, rows, selected, creating, form, saving, removing, news, stale, crossed>>
CancelDelete ==
  /\ dialog /\ dialog' = FALSE
  /\ UNCHANGED <<page, missing, items, nextId, rows, selected, creating, form, saving, removing, news, stale, crossed, count>>

ConfirmDelete ==
  /\ dialog /\ selected # None /\ removing = None
  /\ dialog' = FALSE /\ removing' = [id |-> selected, answer |-> Sent]
  /\ crossed' = (crossed \/ saving # None)
  /\ UNCHANGED <<page, missing, items, nextId, rows, selected, creating, form, saving, news, stale, count>>

\* deleteIdentity: never the last one, and the oldest left inherits.
RemoveServed ==
  /\ page = "identities" /\ removing # None /\ removing.answer = Sent
  /\ IF removing.id \notin Ids(items) \/ Len(items) = 1
       THEN removing' = Answered(removing, Refused) /\ UNCHANGED items
       ELSE LET rest == Without(items, removing.id) IN
            /\ items' = IF At(items, removing.id).dflt THEN [rest EXCEPT ![1].dflt = TRUE] ELSE rest
            /\ removing' = Answered(removing, "done")
  /\ UNCHANGED <<page, missing, nextId, rows, selected, creating, form, saving, dialog, news, stale, crossed, count>>

\* deleteResponse.
ResponseDeleted ==
  /\ page = "responses" /\ removing # None /\ removing.answer = Sent
  /\ items' = Without(items, removing.id)
  /\ removing' = Answered(removing, IF removing.id \in Ids(items) THEN "done" ELSE Refused)
  /\ UNCHANGED <<page, missing, nextId, rows, selected, creating, form, saving, dialog, news, stale, crossed, count>>

\* The row that leaves the list is the one selected by then.
RemoveAnswered ==
  /\ removing # None /\ removing.answer = "done"
  /\ LET rest == IF selected = None THEN rows ELSE Without(rows, selected) IN
     /\ rows' = rest
     /\ IF page = "responses" THEN selected' = None /\ creating' = FALSE /\ form' = Blank
        ELSE IF rest # <<>> THEN SelectIn(rest, First(rest))
        ELSE UNCHANGED <<selected, creating, form>>
     /\ stale' = (stale \/ (page = "identities" /\ Defaults(rest) = {}))
  /\ dialog' = FALSE /\ removing' = None
  /\ UNCHANGED <<page, missing, items, nextId, saving, news, crossed, count>>

RemoveRefused ==
  /\ removing # None /\ removing.answer = Refused /\ removing' = None /\ dialog' = FALSE
  /\ UNCHANGED <<page, missing, items, nextId, rows, selected, creating, form, saving, news, stale, crossed, count>>

\* The answer of a request is lost.
Lost ==
  /\ Step /\ crossed' = TRUE
  /\ \/ saving # None /\ saving' = None /\ UNCHANGED <<removing, dialog>>
     \/ removing # None /\ removing' = None /\ dialog' = FALSE /\ UNCHANGED saving
  /\ UNCHANGED <<page, missing, items, nextId, rows, selected, creating, form, news, stale>>

Next ==
  \/ Load \/ LoadFails \/ StartCreate \/ Type \/ Tick
  \/ \E i \in 1..(nextId - 1) : Select(i)
  \/ Save \/ CreateServed \/ UpdateServed \/ ResponseAdded \/ ResponseUpdated
  \/ CreateAnswered \/ UpdateAnswered \/ SaveRefused
  \/ AskDelete \/ CancelDelete \/ ConfirmDelete \/ RemoveServed \/ ResponseDeleted
  \/ RemoveAnswered \/ RemoveRefused
  \/ Lost

Spec == Init /\ [][Next]_vars

----------------------------------------------------------------------------
(* Properties.                                                             *)

TypeOK ==
  /\ page \in {"identities", "responses"} /\ Len(items) <= Limit
  /\ selected \in (1..nextId) \union {None} /\ creating \in BOOLEAN /\ dialog \in BOOLEAN
  /\ form.ver \in 0..(MaxSteps + 1) /\ count \in 0..MaxSteps

\* Whatever answers cross: an account keeps one default identity, and no more
\* entries than the limit.  As long as nothing else is selected during a request:
\* what is written for one is never stored in another, and the list and its stars
\* are those of the server once the requests have ended, but for what a failed load
\* did not bring.
FormsSound ==
  /\ page = "identities" => Cardinality(Defaults(items)) = 1
  /\ ~crossed =>
       /\ \A k \in DOMAIN items : items[k].of = <<items[k].id>>
       /\ FormOpen /\ ~creating => form.of = <<selected>>
       /\ Loaded /\ saving = None /\ removing = None =>
            LET known == SelectSeq(items, LAMBDA item : item.id \notin missing)
            IN  /\ Undefault(rows) = Undefault(known)
                /\ ~stale => rows = known

\* The default identity changes when the user ticks the box or deletes it, as long
\* as the list knows which one is the default.
DefaultAsChosen ==
  [][Defaults(items') # Defaults(items) =>
       stale \/ crossed \/ removing # None \/ saving.form.ticked]_vars

\* Refuted: without that condition.  After a default identity was created, the old
\* one still has its star in the list (IdentitiesSettings.vue:75), and saving it
\* makes it the default again.
DefaultOnlyAsChosen ==
  [][Defaults(items') # Defaults(items) =>
       crossed \/ removing # None \/ saving.form.ticked]_vars
=============================================================================

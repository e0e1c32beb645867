----------------------------- MODULE SieveForms -----------------------------
(* What the user writes of the filters.  The dialog of a filter                *)
(* (FilterDialog.vue): the rule is one draft, which the simple mode shows       *)
(* through a few fields and boxes and the advanced mode as lists of conditions  *)
(* and actions.  The forms of the vacation and of the forward                   *)
(* (VacationSettings.vue, ForwardSettings.vue): each is loaded through a cache   *)
(* that a page keeps for a minute (stores/sieve.ts), edited, and saved as a      *)
(* whole.  What the server does with a save, the confirmation included, is in   *)
(* SieveFilters and FiltersPage: here it takes the form, or refuses what its    *)
(* schema does not allow.  The forms are those of a server with filters: the    *)
(* page of another shows none.                                                 *)
EXTENDS Naturals, FiniteSets, SequencesExt

CONSTANTS
  Folders,      \* a sequence of paths, as the store of the folders has it once loaded
  Archive,      \* the path of the archive, once the folders are known
  Fallback,     \* the one that stands for it before
  Capabilities, \* of the server, as the dialog knows them
  Rules,        \* that may be edited
  Words, Addresses,
  Kept,         \* what the server may hold at first: [vacation, forward]
  Address,      \* that may be typed in those
  MaxSteps,     \* of the user, and of another session of the account
  Empty, Sent, None

VARIABLES
  mode,         \* the dialog: "closed", "simple" or "advanced"
  draft,        \* the rule: [match, conditions, actions]
  classifyOpen, \* the box of the folder was checked
  archive,      \* the path of the archive, as the dialog knows it
  sending,      \* a save: "no", "reading" the set it writes to, or "sent"
  saved,        \* the rule sent last, if the server takes it, and if all of it was seen
  excused,      \* the draft may hold more than the simple mode shows (history)
  kept,         \* kept[f]: what the server holds of the vacation, of the forward
  cache,        \* cache[f]: what the store has, or None
  shared,       \* the list of addresses of the vacation's form is that of the cache, not a copy
  pending,      \* pending[f]: its request: None, Sent, or the answer on its way
  page,         \* page[f]: "closed", "loading" or "shown"
  form,         \* form[f]: what the form shows
  saving,       \* saving[f], one at a time: None, or [settings, here: by the form that is shown]
  edited,       \* edited[f]: the fields that were edited since they were loaded
  blank,        \* blank[f]: the form was shown though its load failed (history)
  crossed,      \* crossed[f]: since it was last loaded anew, a save was answered to no form,
                \* lost, or met a load, another session wrote, or the cache was edited (history)
  steps

ruleVars == <<mode, draft, classifyOpen, archive, sending, saved, excused>>
pagesVars == <<kept, cache, shared, pending, page, form, saving, edited, blank, crossed>>

Step == steps < MaxSteps /\ steps' = steps + 1

----------------------------------------------------------------------------
(* The rule in the dialog.                                                 *)

Condition(field, op, value) == [field |-> field, op |-> op, value |-> value]
Action(type, arg) == [type |-> type, arg |-> arg, keep |-> TRUE]
NewRule == [match |-> "all", conditions |-> << >>, actions |-> << >>]

RuleInit ==
  /\ mode = "closed" /\ draft = NewRule /\ classifyOpen = FALSE
  /\ archive = Fallback /\ sending = "no" /\ saved = None /\ excused = FALSE

----------------------------------------------------------------------------
(* What is supported, and what a new condition or action begins with.       *)

FieldOrder == <<"from", "to-cc", "subject", "size", "header", "body", "date", "spam">>
ActionOrder == <<"move", "copy", "mark-read", "flag", "add-flag", "redirect", "reject",
                 "add-header", "notify", "delete", "stop">>

Ops(field) ==
  CASE field = "size" -> <<"over", "under">>
    [] field = "date" -> <<"before", "after">>
    [] field = "spam" -> <<"over">>
    [] OTHER -> <<"contains", "not-contains", "is", "is-not", "starts-with", "matches">>

FieldNeeds(field) ==
  CASE field = "spam" -> {"relational", "spamtest"}
    [] field \in {"body", "date"} -> {field}
    [] OTHER -> {}
ActionNeeds(type) ==
  CASE type = "move" -> {"fileinto"}
    [] type = "copy" -> {"fileinto", "copy"}
    [] type \in {"mark-read", "flag", "add-flag"} -> {"imap4flags"}
    [] type = "reject" -> {"reject"}
    [] type = "add-header" -> {"editheader"}
    [] type = "notify" -> {"enotify"}
    [] OTHER -> {}

Fields == SelectSeq(FieldOrder, LAMBDA f : FieldNeeds(f) \subseteq Capabilities)
Types == SelectSeq(ActionOrder, LAMBDA t : ActionNeeds(t) \subseteq Capabilities)

\* What the dialog offers before the folders are loaded is nothing.
Offered == IF archive = Fallback THEN << >> ELSE Folders
NewCondition(field) == Condition(field, Ops(field)[1], Empty)
NewAction(type) ==
  Action(type, IF type \in {"move", "copy"} /\ Offered # << >> THEN Offered[1] ELSE Empty)

\* What the schema of the server asks of each action: the addresses, the folder,
\* the keyword and the name of the header are not empty.
Accepted(rule) ==
  /\ rule.actions # << >>
  /\ \A i \in DOMAIN rule.actions :
       rule.actions[i].type \in {"move", "copy", "add-flag", "redirect", "add-header", "notify"}
         => rule.actions[i].arg # Empty

----------------------------------------------------------------------------
(* The controls of the simple mode, and what of the draft each stands for.   *)

Texts == {<<"from", "contains">>, <<"to-cc", "contains">>, <<"subject", "contains">>,
          <<"body", "contains">>, <<"body", "not-contains">>}
Plain == {"mark-read", "flag", "delete", "redirect"}
Boxes == Plain \union {"archive", "classify"}

InText(text, c) == text = <<c.field, c.op>>
InBox(box, a) ==
  CASE box = "archive" -> a.type = "move" /\ a.arg = archive
    [] box = "classify" -> a.type = "move" /\ a.arg # archive
    [] OTHER -> a.type = box

TextAt(text) == SelectInSeq(draft.conditions, LAMBDA c : InText(text, c))
BoxAt(box) == SelectInSeq(draft.actions, LAMBDA a : InBox(box, a))

\* What the user sees of a control: the first that fits.
ShownText(text) == IF TextAt(text) = 0 THEN None ELSE draft.conditions[TextAt(text)]
ShownBox(box) == IF BoxAt(box) = 0 THEN None ELSE draft.actions[BoxAt(box)]

\* Fault: what was there stays.
PutBeside(seq, i, e) == Append(seq, e)

\* Replaces what is at i, or removes it, or adds it at the end.
Put(seq, i, e) == IF i = 0 THEN Append(seq, e) ELSE [seq EXCEPT ![i] = e]
Without(seq, i) == IF i = 0 THEN seq ELSE RemoveAt(seq, i)

LooksSimple(rule) ==
  /\ rule.match = "all"
  /\ \A i \in DOMAIN rule.conditions : \E t \in Texts : InText(t, rule.conditions[i])
  /\ \A i \in DOMAIN rule.actions : rule.actions[i].type \in Plain \union {"move"}

\* Of the conditions or the actions, two that one control stands for.
Twice(rule) ==
  \/ \E t \in Texts : Cardinality({i \in DOMAIN rule.conditions : InText(t, rule.conditions[i])}) > 1
  \/ \E b \in Boxes : Cardinality({i \in DOMAIN rule.actions : InBox(b, rule.actions[i])}) > 1

----------------------------------------------------------------------------
(* The dialog.                                                             *)

Writes(rule) == draft' = rule /\ Step /\ UNCHANGED <<mode, archive, sending, saved>>
WritesConditions(seq) == Writes([draft EXCEPT !.conditions = seq])
WritesActions(seq) == Writes([draft EXCEPT !.actions = seq])

\* A new filter, from the search or a message with some conditions, or a rule.
Prefills == <<<<"from", "contains">>, <<"to-cc", "contains">>, <<"subject", "contains">>, <<"body", "contains">>>>
Prefilled(texts, w) ==
  LET given == SelectSeq(Prefills, LAMBDA t : t \in texts)
  IN  [i \in DOMAIN given |-> Condition(given[i][1], given[i][2], w)]
Open ==
  /\ mode = "closed" /\ Step
  /\ \/ \E texts \in SUBSET Range(Prefills), w \in Words :
          /\ draft' = [NewRule EXCEPT !.conditions = Prefilled(texts, w)]
          /\ mode' = "simple" /\ excused' = FALSE
     \/ \E rule \in Rules :
          /\ draft' = rule
          /\ mode' = IF LooksSimple(rule) THEN "simple" ELSE "advanced"
          /\ excused' = Twice(rule)
  /\ UNCHANGED <<classifyOpen, archive, sending, saved>>

\* The folders are known: another path may stand for the archive.
FoldersLoaded ==
  /\ mode # "closed" /\ archive # Archive
  /\ archive' = Archive
  /\ excused' = (excused \/ \E i \in DOMAIN draft.actions : draft.actions[i].type = "move")
  /\ UNCHANGED <<mode, draft, classifyOpen, sending, saved, steps>>

Switch ==
  /\ mode # "closed" /\ Step
  /\ mode' = IF mode = "simple" THEN "advanced" ELSE "simple"
  /\ excused' = TRUE
  /\ UNCHANGED <<draft, classifyOpen, archive, sending, saved>>

Close ==
  /\ mode # "closed" /\ mode' = "closed"
  /\ UNCHANGED <<draft, classifyOpen, archive, sending, saved, excused, steps>>

\* The set is read before the draft is: what is sent is the draft of that moment,
\* whatever was edited, closed or opened since the button was pressed.
Save ==
  /\ mode # "closed" /\ draft.actions # << >> /\ sending = "no" /\ Step
  /\ sending' = "reading"
  /\ UNCHANGED <<mode, draft, classifyOpen, archive, saved, excused>>
Sends ==
  /\ sending = "reading" /\ sending' = "sent"
  /\ saved' = [rule |-> draft, ok |-> Accepted(draft), seen |-> mode = "simple" /\ ~excused]
  /\ UNCHANGED <<mode, draft, classifyOpen, archive, excused, steps>>
\* The dialog is closed by a success, be it another rule's by now.
SaveEnds ==
  /\ sending # "no" /\ sending' = "no"
  /\ \/ sending = "sent" /\ saved.ok /\ mode' = "closed"
     \/ UNCHANGED mode
  /\ UNCHANGED <<draft, classifyOpen, archive, saved, excused, steps>>

(* The simple mode. *)

SetText(t) ==
  /\ mode = "simple"
  /\ \/ WritesConditions(Without(draft.conditions, TextAt(t)))
     \/ \E w \in Words : WritesConditions(Put(draft.conditions, TextAt(t), Condition(t[1], t[2], w)))
  /\ UNCHANGED <<classifyOpen, excused>>

Check(b) ==
  /\ mode = "simple" /\ BoxAt(b) = 0
  /\ WritesActions(Append(draft.actions, IF b = "archive" THEN Action("move", archive) ELSE Action(b, Empty)))
  /\ UNCHANGED <<classifyOpen, excused>>
Uncheck(b) ==
  /\ mode = "simple" /\ BoxAt(b) # 0
  /\ WritesActions(Without(draft.actions, BoxAt(b)))
  /\ UNCHANGED <<classifyOpen, excused>>

\* The box of the folder shows the list of the folders, and forgets the choice.
ClassifyChecked == classifyOpen \/ (BoxAt("classify") # 0 /\ ShownBox("classify").arg # Empty)
CheckClassify ==
  /\ mode = "simple" /\ Step
  /\ classifyOpen' = ~ClassifyChecked
  /\ draft' = IF classifyOpen' THEN draft ELSE [draft EXCEPT !.actions = Without(@, BoxAt("classify"))]
  /\ UNCHANGED <<mode, archive, sending, saved, excused>>

\* The list offers the archive too, which then is there twice.
Classify ==
  /\ mode = "simple" /\ ClassifyChecked
  /\ \E i \in DOMAIN Offered :
       /\ WritesActions(Put(draft.actions, BoxAt("classify"), Action("move", Offered[i])))
       /\ excused' = (excused \/ Offered[i] = archive)
  /\ UNCHANGED classifyOpen

TypeAddress ==
  /\ mode = "simple" /\ BoxAt("redirect") # 0
  /\ \E a \in Addresses :
       WritesActions(Put(draft.actions, BoxAt("redirect"), [ShownBox("redirect") EXCEPT !.arg = a]))
  /\ UNCHANGED <<classifyOpen, excused>>

(* The advanced mode: conditions are only shown, and added, when there are some. *)

SetMatch ==
  /\ mode = "advanced"
  /\ \E m \in {"all", "any", "everything"} :
       Writes(IF m = "everything" THEN [draft EXCEPT !.conditions = << >>] ELSE [draft EXCEPT !.match = m])
  /\ UNCHANGED <<classifyOpen, excused>>

EditConditions ==
  /\ mode = "advanced" /\ draft.conditions # << >>
  /\ \/ WritesConditions(Append(draft.conditions, NewCondition(Fields[1])))
     \/ \E i \in DOMAIN draft.conditions :
          \/ WritesConditions(RemoveAt(draft.conditions, i))
          \/ \E f \in {Fields[j] : j \in DOMAIN Fields} :
               WritesConditions([draft.conditions EXCEPT ![i] = [NewCondition(f) EXCEPT !.value = draft.conditions[i].value]])
          \/ \E j \in DOMAIN Ops(draft.conditions[i].field) :
               WritesConditions([draft.conditions EXCEPT ![i].op = Ops(draft.conditions[i].field)[j]])
          \/ \E w \in Words : WritesConditions([draft.conditions EXCEPT ![i].value = w])
  /\ UNCHANGED <<classifyOpen, excused>>

Offers(type) ==
  CASE type \in {"move", "copy"} -> Range(Offered)
    [] type \in {"redirect", "notify"} -> Addresses
    [] type \in {"add-flag", "add-header", "reject"} -> Words
    [] OTHER -> {}

EditActions ==
  /\ mode = "advanced"
  /\ \/ WritesActions(Append(draft.actions, NewAction(Types[1])))
     \/ \E i \in DOMAIN draft.actions :
          \/ WritesActions(RemoveAt(draft.actions, i))
          \/ \E j \in DOMAIN Types : WritesActions([draft.actions EXCEPT ![i] = NewAction(Types[j])])
          \/ \E a \in Offers(draft.actions[i].type) : WritesActions([draft.actions EXCEPT ![i].arg = a])
          \/ /\ draft.actions[i].type = "redirect"
             /\ WritesActions([draft.actions EXCEPT ![i].keep = ~@])
  /\ UNCHANGED <<classifyOpen, excused>>

SimpleEdit ==
  \/ \E t \in Texts : SetText(t)
  \/ \E b \in Boxes \ {"classify"} : Check(b) \/ Uncheck(b)
  \/ CheckClassify \/ Classify \/ TypeAddress

RuleNext ==
  \/ Open \/ FoldersLoaded \/ Switch \/ Close \/ Save \/ Sends \/ SaveEnds
  \/ SimpleEdit \/ SetMatch \/ EditConditions \/ EditActions

----------------------------------------------------------------------------
(* The vacation and the forward.                                           *)

Forms == {"vacation", "forward"}

BlankVacation == [enabled |-> FALSE, addresses |-> "none", incoming |-> "keep", address |-> None]
BlankForward == [enabled |-> FALSE, address |-> None, keepCopy |-> TRUE]
Blank == [vacation |-> BlankVacation, forward |-> BlankForward]

PagesInit ==
  /\ kept \in Kept /\ shared = FALSE
  /\ cache = [f \in Forms |-> None] /\ pending = [f \in Forms |-> None]
  /\ page = [f \in Forms |-> "closed"] /\ form = Blank
  /\ saving = [f \in Forms |-> None] /\ edited = [f \in Forms |-> {}]
  /\ blank = [f \in Forms |-> FALSE] /\ crossed = [f \in Forms |-> FALSE]

----------------------------------------------------------------------------
(* Loading: from the cache, or by one request for all who ask.             *)

\* What is loaded is copied field by field: the list of the addresses, which is
\* edited in place, is then the one the store has.
Shows(f, settings, loaded) ==
  /\ form' = [form EXCEPT ![f] = settings] /\ edited' = [edited EXCEPT ![f] = {}]
  /\ page' = [page EXCEPT ![f] = "shown"]
  /\ shared' = IF f = "vacation" THEN loaded ELSE shared

\* The page is entered: its form is a new one.
Enter(f) ==
  /\ page[f] = "closed"
  /\ IF cache[f] # None THEN Shows(f, cache[f], TRUE) /\ UNCHANGED pending
     ELSE /\ page' = [page EXCEPT ![f] = "loading"] /\ form' = [form EXCEPT ![f] = Blank[f]]
          /\ edited' = [edited EXCEPT ![f] = {}] /\ UNCHANGED shared
          /\ pending' = [pending EXCEPT ![f] = IF @ = None THEN Sent ELSE @]
  /\ blank' = [blank EXCEPT ![f] = FALSE]
  /\ crossed' = [crossed EXCEPT ![f] = @ /\ (cache[f] # None \/ pending[f] # None)]
  /\ UNCHANGED <<kept, cache, saving, steps>>
\* It is left; a save that is under way goes on, and answers to nobody.
Leave(f) ==
  /\ page[f] # "closed" /\ Step
  /\ page' = [page EXCEPT ![f] = "closed"] /\ shared' = (shared /\ f # "vacation")
  /\ saving' = IF saving[f] = None THEN saving ELSE [saving EXCEPT ![f].here = FALSE]
  /\ UNCHANGED <<kept, cache, pending, form, edited, blank, crossed>>

Serve(f) ==
  /\ pending[f] = Sent
  /\ pending' = [pending EXCEPT ![f] = kept[f]]
  /\ UNCHANGED <<kept, cache, shared, page, form, saving, edited, blank, crossed, steps>>
Answered(f) ==
  /\ pending[f] \notin {None, Sent}
  /\ pending' = [pending EXCEPT ![f] = None] /\ cache' = [cache EXCEPT ![f] = pending[f]]
  /\ IF page[f] = "loading" THEN Shows(f, pending[f], TRUE) ELSE UNCHANGED <<page, form, edited, shared>>
  /\ UNCHANGED <<kept, saving, blank, crossed, steps>>
\* The load fails after the status was found: the blank form is shown.
Fails(f) ==
  /\ pending[f] = Sent /\ Step
  /\ pending' = [pending EXCEPT ![f] = None]
  /\ page' = [page EXCEPT ![f] = IF @ = "loading" THEN "shown" ELSE @]
  /\ blank' = [blank EXCEPT ![f] = @ \/ page[f] = "loading"]
  /\ UNCHANGED <<kept, cache, shared, form, saving, edited, crossed>>
Dropped(f) == cache' = [cache EXCEPT ![f] = None] /\ shared' = (shared /\ f # "vacation")
Expires(f) ==
  /\ cache[f] # None /\ Dropped(f)
  /\ UNCHANGED <<kept, pending, page, form, saving, edited, blank, crossed, steps>>

----------------------------------------------------------------------------
(* Editing and saving.                                                     *)

ValuesOf(f, field) ==
  CASE field \in {"enabled", "keepCopy"} -> BOOLEAN
    [] field = "addresses" -> {"none", "one"}
    [] field = "incoming" -> {"keep", "discard", "redirect", "copy"}
    [] field = "address" -> {None, Address}

\* The fields that the forms let the user edit.  The address of the vacation is shown
\* for what needs one; the forward has no box to enable it.
EditableVacation ==
  {"enabled", "addresses", "incoming"}
    \union IF form["vacation"].incoming \in {"redirect", "copy"} THEN {"address"} ELSE {}
EditableForward == {"address", "keepCopy"}
Editable(f) == IF f = "forward" THEN EditableForward ELSE EditableVacation

\* An address that is added is added to the list there is, one that is removed
\* leaves it in another list (VacationSettings.vue:59-67).
Edit(f) ==
  /\ page[f] = "shown" /\ Step
  /\ \E field \in Editable(f) : \E value \in ValuesOf(f, field) \ {form[f][field]} :
       LET added == field = "addresses" /\ value = "one" /\ shared IN
       /\ form' = [form EXCEPT ![f][field] = value]
       /\ edited' = [edited EXCEPT ![f] = @ \union {field}]
       /\ cache' = IF added THEN [cache EXCEPT ![f].addresses = value] ELSE cache
       /\ crossed' = [crossed EXCEPT ![f] = @ \/ added]
       /\ shared' = (shared /\ (field = "addresses" => value = "one"))
  /\ UNCHANGED <<kept, pending, page, saving, blank>>

\* The forward is enabled when an address is typed.
Payload(f) ==
  IF f = "forward" THEN [form[f] EXCEPT !.enabled = form[f].address # None] ELSE form[f]

SaveForm(f) ==
  /\ page[f] = "shown" /\ saving[f] = None /\ Step
  /\ saving' = [saving EXCEPT ![f] = [settings |-> Payload(f), here |-> TRUE]]
  /\ UNCHANGED <<kept, cache, shared, pending, page, form, edited, blank, crossed>>

\* A forward has an address, enabled or not; that of a vacation may be left out.
SettingsAccepted(f, settings) ==
  settings.address # None \/ (f = "vacation" /\ settings.incoming \in {"keep", "discard"})

\* The answer is shown in the form, whatever was edited since, and the caches of
\* the form and of the status are dropped.
Saved(f) ==
  /\ saving[f] # None /\ SettingsAccepted(f, saving[f].settings)
  /\ kept' = [kept EXCEPT ![f] = saving[f].settings]
  /\ saving' = [saving EXCEPT ![f] = None]
  /\ \/ /\ cache' = [cache EXCEPT ![f] = None]
        /\ IF saving[f].here THEN Shows(f, saving[f].settings, FALSE)
           ELSE shared' = (shared /\ f # "vacation") /\ UNCHANGED <<page, form, edited>>
        /\ crossed' = [crossed EXCEPT ![f] = @ \/ pending[f] # None \/ ~saving[f].here]
     \/ \* the answer is lost
        /\ crossed' = [crossed EXCEPT ![f] = TRUE]
        /\ UNCHANGED <<cache, shared, page, form, edited>>
  /\ UNCHANGED <<pending, blank, steps>>
Refused(f) ==
  /\ saving[f] # None
  /\ saving' = [saving EXCEPT ![f] = None]
  /\ UNCHANGED <<kept, cache, shared, pending, page, form, edited, blank, crossed, steps>>

\* Another session of the account saves something.
Elsewhere(f) ==
  /\ Step
  /\ \E other \in Kept : kept' = [kept EXCEPT ![f] = other[f]]
  /\ crossed' = [crossed EXCEPT ![f] = TRUE]
  /\ UNCHANGED <<cache, shared, pending, page, form, saving, edited, blank>>

PagesNext ==
  \E f \in Forms :
    \/ Enter(f) \/ Leave(f) \/ Serve(f) \/ Answered(f) \/ Fails(f) \/ Expires(f)
    \/ Edit(f) \/ SaveForm(f) \/ Saved(f) \/ Refused(f) \/ Elsewhere(f)

----------------------------------------------------------------------------
(* The settings of the filters: all of these at once.                      *)

Init == RuleInit /\ PagesInit /\ steps = 0

Next ==
  \/ RuleNext /\ UNCHANGED pagesVars
  \/ PagesNext /\ UNCHANGED ruleVars

Spec == Init /\ [][Next]_<<ruleVars, pagesVars, steps>>

----------------------------------------------------------------------------
(* Properties.                                                             *)

TypeOK ==
  /\ mode \in {"closed", "simple", "advanced"} /\ archive \in {Archive, Fallback}
  /\ draft.match \in {"all", "any"} /\ sending \in {"no", "reading", "sent"} /\ steps \in 0..MaxSteps
  /\ \A f \in Forms : page[f] \in {"closed", "loading", "shown"}
  /\ form.vacation.incoming \in {"keep", "discard", "redirect", "copy"}

\* The simple mode shows all that the rule does, so that nothing is saved unseen:
\* each condition and each action is the one of some control.  Excused: a rule
\* that holds one twice, a visit of the advanced mode, the archive chosen as the
\* folder, and a path that changes when the folders are known.
NothingHidden ==
  mode = "simple" /\ ~excused =>
    /\ draft.match = "all"
    /\ \A i \in DOMAIN draft.conditions : \E t \in Texts : TextAt(t) = i
    /\ \A i \in DOMAIN draft.actions : \E b \in Boxes : BoxAt(b) = i

\* What is saved from the simple mode is refused for an empty address only, or for
\* want of an action, when the last was unchecked after the button was pressed.
SimpleIsAccepted ==
  saved # None =>
    \/ saved.ok \/ ~saved.seen \/ saved.rule.actions = << >>
    \/ \E i \in DOMAIN saved.rule.actions : saved.rule.actions[i] = [Action("redirect", Empty) EXCEPT !.keep = saved.rule.actions[i].keep]

\* In the simple mode a control changes what it shows, and nothing that another
\* control shows, excused when the archive is chosen as the folder; the copy that
\* a redirection keeps is not lost on the way (FilterDialog.vue:106-181).
OthersStay(controls) ==
  /\ \A t \in Texts \ controls : UNCHANGED ShownText(t)
  /\ \A b \in Boxes : <<b>> \in controls \/ UNCHANGED ShownBox(b)

EditsAreLocal ==
  [][/\ \A t \in Texts : SetText(t) => OthersStay({t})
     /\ \A b \in Boxes : Check(b) \/ Uncheck(b) => OthersStay({<<b>>})
     /\ ~excused' /\ (CheckClassify \/ Classify) => OthersStay({<<"classify">>})
     /\ TypeAddress => OthersStay({<<"redirect">>}) /\ UNCHANGED ShownBox("redirect").keep]_ruleVars

\* Stated by the two choices « toutes » and « au moins une » of the advanced mode,
\* and refuted: they change nothing while there is no condition, and the button
\* that adds one is shown with the conditions only (FilterDialog.vue:398).
CanAddCondition == mode = "advanced" => draft.conditions # << >>

\* A form shows what the server holds, but for what the user has edited: what is
\* saved changes nothing else.  Left out, because they fail: a form whose load
\* failed, which is shown blank and can be saved (VacationSettings.vue:42-56); a
\* save whose answer crosses a load, is lost, or comes to a page that was left;
\* another session's save; and an address that is added without being saved, which
\* is in the cache too, and shown as the server's when the page is entered again
\* (VacationSettings.vue:47, 62).
FormIsKept ==
  \A f \in Forms :
    page[f] = "shown" /\ ~blank[f] /\ ~crossed[f] =>
      \A field \in DOMAIN form[f] \ edited[f] : form[f][field] = kept[f][field]

\* The cache holds what the server does, with the same exceptions: a save that is
\* answered drops it.
CacheIsKept == \A f \in Forms : cache[f] # None /\ ~crossed[f] /\ saving[f] = None => cache[f] = kept[f]

\* Edits of one form are never saved with the other, and no save is sent that the
\* user has not asked for: a step of the server is a save of that form.
SavesAreOwn ==
  [][\A f \in Forms : kept'[f] # kept[f] /\ ~crossed'[f] =>
       kept'[f] = saving[f].settings /\ \A g \in Forms \ {f} : kept'[g] = kept[g]]_pagesVars

\* « Le transfert est actif dès qu'une adresse est saisie » (ForwardSettings.vue:52-53):
\* an emptied address that is saved stops it.  Refuted: the schema refuses an
\* address that is empty, so that the page cannot stop a forward.
EmptiedIsStopped ==
  [][saving.forward # None /\ saving.forward.settings.address = None /\ saving'.forward = None
       => ~kept'.forward.enabled]_pagesVars
=============================================================================

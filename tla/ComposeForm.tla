----------------------------- MODULE ComposeForm -----------------------------
(* The form of a message, from its inputs to the mail server: replies and     *)
(* forwards prepared (stores/compose.ts, utils/compose.ts), recipients typed, *)
(* suggested and picked (RecipientInput.vue), files read one after the other, *)
(* signatures, the checks before a send (ComposeWindow.vue), and the message  *)
(* that api/send.post.ts builds, transmits and stores.  When autosaves, delays *)
(* and answers overlap is in Compose: here a save or a send is one step.      *)
(* Contacts and groups are suggested, the directory is not configured, and     *)
(* signatures are enabled.                                                  *)
(*                                                                         *)
(* An address is [name, upper]: the same in upper case is another string.     *)
EXTENDS Naturals, FiniteSets, SequencesExt

CONSTANTS
  Texts,          \* what may be typed in an input of recipients, with "" and ...
  Parse,          \* ... the addresses in a text, in [Texts -> Seq(Address)]
  Found,          \* what a search finds, in [Texts -> Seq(Seq(Address))]: a contact or a group
  TypedIn,        \* the fields the user types in
  Invalid,        \* the names that make no address
  Received,       \* messages that may be answered: sequences from, replyTo, to, cc, list
  Me,             \* the address of the user
  FileLists,      \* sequences of files that may be added together
  Size,           \* of a file
  Limit,          \* of the attachments of a form
  MaxRecipients,  \* MAX_RECIPIENTS
  Identities,     \* [id, sign, bcc]: sign is "" without signature, bcc << >> or one address
  MaxSteps,       \* of the user
  None

VARIABLES
  known,      \* the identities the store has loaded, in order
  kept,       \* the ones the account has
  win,        \* the window: [id, open, form, dirty]; id counts its forms
  input,      \* per field: [text, offered, active, due, blurred]
  searches,   \* searches under way: [field, text]; they go with the window
  reading,    \* files being read: [files, id], the first one for the form `id`
  reminder,   \* the dialog about a forgotten attachment is open
  draft,      \* the draft that was saved last
  outbox,     \* what was transmitted
  steps

vars == <<known, kept, win, input, searches, reading, reminder, draft, outbox, steps>>

Fields == {"to", "cc", "bcc"}
Same(a, b) == a.name = b.name
Valid(a) == a.name \notin Invalid
Has(list, a) == \E i \in DOMAIN list : Same(list[i], a)

\* subject and mentions: there is one, and the text mentions an attachment.
\* saved: the draft is the form's (draftUid).  resumed is history.
NoForm ==
  [to |-> << >>, cc |-> << >>, bcc |-> << >>, subject |-> FALSE, files |-> << >>, eml |-> 0,
   identity |-> 0, signs |-> << >>, current |-> "", origin |-> "none", mentions |-> FALSE,
   saved |-> FALSE, resumed |-> FALSE]
NoInput == [text |-> "", offered |-> << >>, active |-> 0, due |-> FALSE, blurred |-> FALSE]

Recipients(f) == f.to \o f.cc \o f.bcc
Bytes(f) == FoldSeq(LAMBDA x, sum : Size[x] + sum, 0, f.files)
IsEmpty(f) == Recipients(f) = << >> /\ ~f.subject /\ ~f.mentions /\ f.files = << >> /\ f.eml = 0

Init ==
  /\ known = << >> /\ kept = Identities
  /\ win = [id |-> 0, open |-> FALSE, form |-> NoForm, dirty |-> FALSE]
  /\ input = [f \in Fields |-> NoInput]
  /\ searches = {} /\ reading = {} /\ reminder = FALSE
  /\ draft = None /\ outbox = << >> /\ steps = 0

Acts == steps < MaxSteps /\ steps' = steps + 1

----------------------------------------------------------------------------
(* Identities and signatures.                                              *)

\* The handler lists them by id.  The first one is the default, and the oldest
\* one left when that one is deleted.
Listed == SetToSortSeq(kept, LAMBDA i, j : i.id < j.id)

\* ensureIdentities(): the list is loaded once, or not at all.
Loads(list) == IF known # << >> THEN list = known ELSE list \in {Listed, << >>}

DefaultIdentity(list) == IF list = << >> THEN 0 ELSE list[1].id
Signature(list, id) ==
  LET own == SelectSeq(list, LAMBDA i : i.id = id) IN IF own = << >> THEN "" ELSE own[1].sign
Block(sign) == IF sign = "" THEN << >> ELSE <<sign>>

Signed(f, list) ==
  LET id == DefaultIdentity(list)
  IN  [f EXCEPT !.identity = id, !.current = Signature(list, id), !.signs = Block(Signature(list, id))]

\* setIdentity(): the block that was inserted is replaced, where it still is.
WithIdentity(f, id) ==
  LET next == Signature(known, id)
      at == {i \in DOMAIN f.signs : f.signs[i] = f.current}
      signs == IF f.current # "" /\ at # {}
                 THEN LET i == CHOOSE i \in at : \A j \in at : i <= j
                      IN  SubSeq(f.signs, 1, i - 1) \o Block(next) \o SubSeq(f.signs, i + 1, Len(f.signs))
                 ELSE f.signs \o Block(next)
  IN  [f EXCEPT !.signs = signs, !.current = next, !.identity = id]

----------------------------------------------------------------------------
(* Opening a form.                                                         *)

ReplyTo(m) == IF m.replyTo # << >> THEN m.replyTo ELSE m.from

\* Compared letter by letter, unlike what the store does with them.
ReplyAll(m) == SetToSeq({a \in ToSet(ReplyTo(m) \o m.to \o m.cc) : a # Me})

Others(list) == SelectSeq(list, LAMBDA a : ~Same(a, Me))

Reply(m, mode) ==
  LET direct == Others(ReplyTo(m))
      to == IF mode = "list" THEN m.list ELSE IF direct # << >> THEN direct ELSE ReplyTo(m)
      cc == IF mode = "replyAll" THEN SelectSeq(Others(ReplyAll(m)), LAMBDA a : ~Has(to, a)) ELSE << >>
  IN  [NoForm EXCEPT !.to = to, !.cc = cc, !.subject = TRUE, !.origin = "reply"]

Forward == [NoForm EXCEPT !.subject = TRUE, !.origin = "forward"]
ForwardAsAttachment == [Forward EXCEPT !.eml = 1]

Shown(f) == [id |-> win.id + 1, open |-> TRUE, form |-> f, dirty |-> FALSE]
Hidden == [id |-> win.id + 1, open |-> FALSE, form |-> NoForm, dirty |-> FALSE]

\* What the handlers of drafts and of sends take: the addresses of a draft are
\* checked too, and an identity that is chosen must be one of the account.
Chosen(f) == {i \in ToSet(Listed) : i.id = (IF f.identity = 0 THEN Listed[1].id ELSE f.identity)}
Accepted(f) ==
  /\ Len(Recipients(f)) <= MaxRecipients
  /\ \A i \in DOMAIN Recipients(f) : Valid(Recipients(f)[i])
  /\ 2 * Bytes(f) <= 3 * Limit
  /\ Chosen(f) # {}

\* What the folder of drafts keeps of a form: the text, the recipients and the
\* files, but neither the message to join nor what the form was made from.
Stored(f) ==
  [f EXCEPT !.eml = 0, !.origin = "none", !.current = "", !.identity = 0, !.saved = FALSE]
Resumed(list) == [draft EXCEPT !.identity = DefaultIdentity(list), !.saved = TRUE, !.resumed = TRUE]

\* saveDraft(): the drafts it may leave, the old one when it has nothing to save
\* or the save fails.  Its callers go on in both cases.
Saveable(w) == w.dirty /\ ~IsEmpty(w.form) /\ Accepted(w.form)
Saved(w) == {draft} \union {Stored(f) : f \in {g \in {w.form} : Saveable(w)}}

\* openWith(): an open window is closed first, and its inputs go with it.
Opened(f) ==
  /\ win' = Shown(f) /\ draft' \in (IF win.open THEN Saved(win) ELSE {draft})
  /\ input' = [g \in Fields |-> NoInput] /\ searches' = {}
  /\ UNCHANGED <<kept, reading, outbox>>

\* The first form is not one of the bounded steps.
Open ==
  /\ (IF win.id = 0 THEN UNCHANGED steps ELSE Acts) /\ ~reminder
  /\ Loads(known')
  /\ \/ Opened(Signed(NoForm, known'))
     \/ \E m \in Received, mode \in {"reply", "replyAll", "list"} :
          /\ mode = "list" => m.list # << >>
          /\ Opened(Signed(Reply(m, mode), known'))
     \/ Opened(Signed(Forward, known')) \/ Opened(Signed(ForwardAsAttachment, known'))
     \/ draft # None /\ Opened(Resumed(known'))
  /\ UNCHANGED reminder

\* The autosave: it does not look whether the window is still open.
Save ==
  /\ Saveable(win)
  /\ draft' = Stored(win.form)
  /\ win' = [win EXCEPT !.dirty = FALSE, !.form.saved = TRUE]
  /\ UNCHANGED <<known, kept, input, searches, reading, reminder, outbox, steps>>

Leaves ==
  /\ Acts /\ win.open /\ ~reminder
  /\ win' = Hidden /\ input' = [g \in Fields |-> NoInput] /\ searches' = {}
  /\ UNCHANGED <<known, kept, reading, reminder, outbox>>
Close == Leaves /\ draft' \in Saved(win)

\* Of the form's draft, when it can be removed.
Discard == Leaves /\ draft' \in {draft} \union {d \in {None} : win.form.saved}

----------------------------------------------------------------------------
(* The inputs of recipients.                                               *)

Edited(f) == [win EXCEPT !.form = f, !.dirty = TRUE]

\* A fault: the letters are compared as they are written.
AddedAsWritten(list, new) == list \o SelectSeq(new, LAMBDA a : a \notin ToSet(list))

\* add(): what the field has already, in any case of letters, is left out.
Added(list, new) == list \o SelectSeq(new, LAMBDA a : ~Has(list, a))

WithAdded(w, g, new) ==
  LET list == Added(w.form[g], new)
  IN  IF list = w.form[g] THEN w ELSE [w EXCEPT !.form[g] = list, !.dirty = TRUE]

Cleared(i) == [i EXCEPT !.text = "", !.offered = << >>, !.due = i.text # "" \/ i.due]

UNCHANGEDInput == UNCHANGED <<known, kept, reading, reminder, draft, outbox>>

\* commit(): the text of the field becomes recipients.
Commit(g) ==
  /\ input' = [input EXCEPT ![g] = Cleared(@)]
  /\ win' = WithAdded(win, g, Parse[input[g].text])

Type(g) ==
  /\ Acts /\ win.open /\ ~reminder
  /\ \E t \in Texts \ {input[g].text} :
       input' = [input EXCEPT ![g].text = t, ![g].due = TRUE, ![g].blurred = FALSE]
  /\ UNCHANGED <<win, searches>> /\ UNCHANGEDInput

\* The delay of the search is over: nothing is sought for an empty text, or for
\* one with a separator, which holds several addresses.
SearchDue(g) ==
  /\ input[g].due
  /\ IF input[g].text = "" \/ Len(Parse[input[g].text]) > 1
       THEN /\ input' = [input EXCEPT ![g].due = FALSE, ![g].offered = << >>, ![g].active = 0]
            /\ UNCHANGED searches
       ELSE /\ input' = [input EXCEPT ![g].due = FALSE]
            /\ searches' = searches \union {[field |-> g, text |-> input[g].text]}
  /\ UNCHANGED <<win, steps>> /\ UNCHANGEDInput

\* A search that fails shows nothing; an answer shows what the field does not have, whatever it holds by now.
SearchAnswered(s) ==
  LET new == SelectSeq(Found[s.text], LAMBDA o : Len(o) > 1 \/ ~Has(win.form[s.field], o[1]))
  IN  /\ searches' = searches \ {s}
      /\ \/ input' = [input EXCEPT ![s.field].offered = new, ![s.field].active = IF new = << >> THEN 0 ELSE 1]
         \/ input' = [input EXCEPT ![s.field].offered = << >>]
      /\ UNCHANGED <<win, steps>> /\ UNCHANGEDInput

\* The list of suggestions: the mouse over one of them makes it active, a click
\* takes it as Enter does.
Offered(g) == DOMAIN input[g].offered

\* Enter, Tab and a click take the suggestion that is active, or else the text,
\* as a comma does; Escape drops the suggestions.
Choice(g) == input[g].offered # << >> /\ input[g].active > 0
Taken(g) == IF Choice(g) THEN input[g].offered[input[g].active] ELSE Parse[input[g].text]

Enter(g) ==
  /\ Acts /\ win.open /\ ~reminder
  /\ input[g].text # "" \/ Choice(g)
  /\ input' = [input EXCEPT ![g] = Cleared(@)]
  /\ win' = WithAdded(win, g, Taken(g))
  /\ UNCHANGED searches /\ UNCHANGEDInput

Comma(g) ==
  /\ Acts /\ win.open /\ ~reminder /\ input[g].text # ""
  /\ Commit(g)
  /\ UNCHANGED searches /\ UNCHANGEDInput

\* What is pasted replaces the text, when it holds several addresses.
Paste(g) ==
  /\ Acts /\ win.open /\ ~reminder
  /\ \E t \in Texts :
       /\ Len(Parse[t]) > 1
       /\ win' = WithAdded(win, g, Parse[t])
  /\ input' = [input EXCEPT ![g] = Cleared(@)]
  /\ UNCHANGED searches /\ UNCHANGEDInput

\* Down, up, or the mouse over a suggestion.
Arrow(g) ==
  /\ Acts /\ win.open /\ ~reminder
  /\ \E i \in Offered(g) \ {input[g].active} :
       input' = [input EXCEPT ![g].active = i]
  /\ UNCHANGED <<win, searches>> /\ UNCHANGEDInput

Escape(g) ==
  /\ Acts /\ win.open /\ ~reminder /\ input[g].offered # << >>
  /\ input' = [input EXCEPT ![g].offered = << >>]
  /\ UNCHANGED <<win, searches>> /\ UNCHANGEDInput

\* Backspace in an empty input, or the cross of a recipient.
RemoveRecipient(g) ==
  /\ Acts /\ win.open /\ ~reminder /\ win.form[g] # << >>
  /\ \E i \in DOMAIN win.form[g] : win' = Edited([win.form EXCEPT ![g] = RemoveAt(@, i)])
  /\ UNCHANGED <<input, searches>> /\ UNCHANGEDInput

\* The user leaves the field; 150 ms later its text is committed.
Blur(g) ==
  /\ win.open /\ ~reminder /\ ~input[g].blurred
  /\ input[g].text # "" \/ input[g].offered # << >>
  /\ input' = [input EXCEPT ![g].blurred = TRUE]
  /\ UNCHANGED <<win, searches, steps>> /\ UNCHANGEDInput
BlurDue(g) ==
  /\ input[g].blurred
  /\ win' = WithAdded(win, g, Parse[input[g].text])
  /\ input' = [input EXCEPT ![g] = [Cleared(@) EXCEPT !.blurred = FALSE]]
  /\ UNCHANGED <<searches, steps>> /\ UNCHANGEDInput

----------------------------------------------------------------------------
(* The body, the identity and the files.                                   *)

UNCHANGEDForm == UNCHANGED <<known, kept, input, searches, reminder, draft, outbox>>

TypeSubject ==
  /\ Acts /\ win.open /\ ~reminder /\ ~win.form.subject
  /\ win' = Edited([win.form EXCEPT !.subject = TRUE])
  /\ UNCHANGED reading /\ UNCHANGEDForm

\* The text comes to mention an attachment.
Mention ==
  /\ Acts /\ win.open /\ ~reminder /\ ~win.form.mentions
  /\ win' = Edited([win.form EXCEPT !.mentions = TRUE])
  /\ UNCHANGED reading /\ UNCHANGEDForm

SetIdentity ==
  /\ Acts /\ win.open /\ ~reminder /\ Len(known) > 1
  /\ \E i \in ToSet(known) : i.id # win.form.identity /\ win' = Edited(WithIdentity(win.form, i.id))
  /\ UNCHANGED reading /\ UNCHANGEDForm

\* In the settings, an identity that is not the last one is deleted.
DeleteIdentity ==
  /\ Acts /\ Cardinality(kept) > 1
  /\ \E i \in kept : kept' = kept \ {i}
  /\ UNCHANGED <<known, win, input, searches, reading, reminder, draft, outbox>>

\* addFiles(): the first file that fits the form is read, for the list of files
\* the form has at that moment.
FirstFit(list) ==
  LET fits == {i \in DOMAIN list : Bytes(win.form) + Size[list[i]] <= Limit}
  IN  IF fits = {} THEN << >>
      ELSE SubSeq(list, CHOOSE i \in fits : \A j \in fits : i <= j, Len(list))
Reading(list) == IF list = << >> THEN {} ELSE {[files |-> list, id |-> win.id]}

AddFiles ==
  /\ Acts /\ win.open /\ ~reminder
  /\ \E list \in FileLists :
       /\ Reading(FirstFit(list)) \intersect reading = {}
       /\ reading' = reading \union Reading(FirstFit(list))
       /\ win' = IF FirstFit(list) = << >> THEN [win EXCEPT !.dirty = TRUE] ELSE win
  /\ UNCHANGEDForm

\* A file has been read: it joins the list it was read for, which may have left
\* the window.  The next one that fits is read, for the form of that moment.
FileRead(r) ==
  LET w == IF r.id = win.id THEN [win EXCEPT !.form.files = Append(@, r.files[1])] ELSE win
      left == {i \in 2..Len(r.files) : Bytes(w.form) + Size[r.files[i]] <= Limit}
      rest == IF left = {} THEN << >>
              ELSE SubSeq(r.files, CHOOSE i \in left : \A j \in left : i <= j, Len(r.files))
  IN  /\ reading' = (reading \ {r}) \union Reading(rest)
      /\ win' = IF rest = << >> THEN [w EXCEPT !.dirty = TRUE] ELSE w
      /\ UNCHANGED steps /\ UNCHANGEDForm

\* The browser cannot read it: the others of the list are given up with it.
FileLost(r) ==
  /\ reading' = reading \ {r}
  /\ UNCHANGED <<win, steps>> /\ UNCHANGEDForm

RemoveFile ==
  /\ Acts /\ win.open /\ ~reminder
  /\ \/ \E i \in DOMAIN win.form.files : win' = Edited([win.form EXCEPT !.files = RemoveAt(@, i)])
     \/ win.form.eml > 0 /\ win' = Edited([win.form EXCEPT !.eml = 0])
  /\ UNCHANGED reading /\ UNCHANGEDForm

----------------------------------------------------------------------------
(* Sending.                                                                *)

\* The automatic copy of the identity goes with the hidden ones.
WithBcc(f, i) == [f EXCEPT !.bcc = @ \o i.bcc]

\* buildRawMessage: hidden copies are in the header of stored messages only.
BuildRaw(f, keepBcc) ==
  [to |-> f.to, cc |-> f.cc, bcc |-> IF keepBcc THEN f.bcc ELSE << >>,
   files |-> f.files, eml |-> f.eml, signs |-> f.signs]

\* What the user saw when the form was submitted is kept with what is transmitted.
Transmitted(f, i, shown, picked) ==
  LET sent == WithBcc(f, i)
  IN  [envelope |-> ToSet(Recipients(sent)), raw |-> BuildRaw(sent, FALSE), copy |-> BuildRaw(sent, TRUE),
       identity |-> i, flagged |-> sent.origin, shown |-> shown, picked |-> picked]

\* The handler takes the message, unless it, the limit of sends or the mail
\* server refuses; the draft of the form goes, when it can be removed.
Transmits(f, shown, picked) ==
  /\ Accepted(f)
  /\ \E i \in Chosen(f) : outbox' = Append(outbox, Transmitted(f, i, shown, picked))

\* send(): the window is emptied.  It comes back with the form when that fails, or
\* when no answer says that it succeeded, after a save if it had stayed open; or
\* when the user takes the message back, with changes to save.
Submitted(w, shown, picked) ==
  \/ /\ Transmits(w.form, shown, picked)
     /\ win' = Hidden /\ draft' \in {draft} \union {d \in {None} : w.form.saved}
  \/ /\ UNCHANGED outbox \/ Transmits(w.form, shown, picked)
     /\ draft' \in Saved(w)
     /\ \E dirty \in BOOLEAN :
          win' = [Shown([w.form EXCEPT !.saved = @ /\ draft' = draft]) EXCEPT !.dirty = dirty]

\* onSend(): what is typed in the inputs counts.
Committed(f, inputs) ==
  [f EXCEPT !.to = Added(@, Parse[inputs["to"].text]), !.cc = Added(@, Parse[inputs["cc"].text]),
            !.bcc = Added(@, Parse[inputs["bcc"].text])]
Sendable(f) == Recipients(f) # << >> /\ \A i \in DOMAIN Recipients(f) : Valid(Recipients(f)[i])
Forgotten(f) == f.files = << >> /\ f.eml = 0 /\ f.mentions

\* Without a subject the user is asked, and may give up.
SendForm(form, inputs, picked) ==
  LET f == Committed(form, inputs)
      w == IF f = win.form THEN win ELSE Edited(f)
  IN  /\ Acts /\ win.open /\ ~reminder
      /\ \/ /\ Sendable(f) /\ ~Forgotten(f)
            /\ Submitted(w, Committed(win.form, input), picked)
            /\ input' = [g \in Fields |-> NoInput] /\ searches' = {} /\ UNCHANGED reminder
         \/ /\ \/ ~(Sendable(f) /\ f.subject) /\ UNCHANGED reminder
               \/ Sendable(f) /\ Forgotten(f) /\ reminder' = TRUE
            /\ win' = w /\ input' = [g \in Fields |-> Cleared(inputs[g])]
            /\ UNCHANGED <<outbox, draft, searches>>
      /\ UNCHANGED <<known, kept, reading>>

OnSend == SendForm(win.form, input, FALSE)

\* Ctrl and Enter in an input: its handler takes a suggestion first.
CtrlEnter(g) ==
  /\ input[g].text # "" \/ Choice(g)
  /\ SendForm(WithAdded(win, g, Taken(g)).form, [input EXCEPT ![g] = Cleared(@)], Choice(g))

\* The dialog closes and nothing is sent, whichever of its two buttons is pressed:
\* the one that says "Send anyway" is the one that cancels it.
Answer ==
  /\ Acts /\ reminder
  /\ reminder' = FALSE
  /\ UNCHANGED <<known, kept, win, input, searches, reading, draft, outbox>>

----------------------------------------------------------------------------

Next ==
  \/ Open \/ Save \/ Close \/ Discard \/ TypeSubject \/ Mention \/ SetIdentity \/ DeleteIdentity \/ AddFiles \/ RemoveFile \/ OnSend
  \/ \E g \in TypedIn : \/ Type(g) \/ SearchDue(g) \/ Enter(g) \/ Arrow(g) \/ Escape(g)
                        \/ Comma(g) \/ Paste(g) \/ RemoveRecipient(g) \/ Blur(g) \/ BlurDue(g) \/ CtrlEnter(g)
  \/ \E s \in searches : SearchAnswered(s)
  \/ \E r \in reading : FileRead(r) \/ FileLost(r)
  \/ Answer

Spec == Init /\ [][Next]_vars

----------------------------------------------------------------------------
(* Properties.                                                             *)

TypeOK ==
  /\ ToSet(known) \subseteq Identities /\ kept \subseteq Identities
  /\ win.open \in BOOLEAN /\ win.dirty \in BOOLEAN
  /\ win.form.identity \in {0} \union {i.id : i \in Identities}
  /\ \A g \in Fields : input[g].active \in 0..3 /\ input[g].text \in Texts
  /\ reminder => win.open /\ Sendable(win.form)

\* A recipient stands once in a field, in whatever case it is typed, found in a
\* list that is not up to date, or both (RecipientInput.vue:95-100): each text is
\* compared with the field and not with itself, so that what one text, or the
\* message that is answered, names twice is left out.
Twice(list, a) == \E i, j \in DOMAIN list : i # j /\ Same(list[i], a) /\ Same(list[j], a)
NamedTwice(a) ==
  \/ \E t \in Texts : Twice(Parse[t], a)
  \/ \E m \in Received : Twice(m.to \o m.cc, a)
RecipientsOnce ==
  \A g \in Fields : \A a \in ToSet(win.form[g]) : Twice(win.form[g], a) => NamedTwice(a)

\* A message goes to those the user saw or had typed, all valid, and to the
\* automatic copy of an identity of the account; hidden copies are in the stored
\* message and not in the one transmitted.  Ctrl and Enter with suggestions open
\* sends to the active one instead of what was typed: left out here.
SentAsShown ==
  \A i \in DOMAIN outbox :
    LET o == outbox[i]
    IN  /\ ~o.picked => o.envelope = ToSet(Recipients(o.shown)) \union ToSet(o.identity.bcc)
        /\ \A a \in o.envelope : Valid(a)
        /\ o.envelope = ToSet(Recipients(o.copy)) /\ o.raw.bcc = << >>
        /\ o.raw.files = o.shown.files /\ o.raw.eml = o.shown.eml

\* The signature in a form is that of its identity, and stands there once.  In a
\* draft that was resumed the first change adds one to the one it has: left out.
SignatureFollows ==
  win.open /\ ~win.form.resumed =>
    win.form.signs = Block(Signature(known, win.form.identity))

\* A reply goes to somebody, to oneself only when nobody else is there, to nobody
\* twice, unless the message names them in two cases of letters; a reply to all reaches everybody the message named.  It depends on no
\* state, and is said of the states before the first form.
RepliesSound ==
  win.id = 0 => \A m \in Received, mode \in {"reply", "replyAll", "list"} :
    LET f == Reply(m, mode)
        named == IF mode = "list" THEN m.list
                 ELSE ReplyTo(m) \o (IF mode = "replyAll" THEN m.to \o m.cc ELSE << >>)
    IN  /\ mode = "list" \/ Recipients(f) # << >>
        /\ \A i, j \in DOMAIN Recipients(f) :
             Same(Recipients(f)[i], Recipients(f)[j]) =>
               i = j \/ (mode = "replyAll" /\ Recipients(f)[i].upper # Recipients(f)[j].upper)
        /\ Has(Recipients(f), Me) => mode = "list" \/ Others(ReplyTo(m)) = << >>
        /\ \A i \in DOMAIN named : Has(Recipients(f), named[i]) \/ Same(named[i], Me)

FormSound == RecipientsOnce /\ SentAsShown /\ SignatureFollows /\ RepliesSound
=============================================================================

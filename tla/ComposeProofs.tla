--------------------------- MODULE ComposeProofs ----------------------------
(*************************************************************************)
(* Proofs about Compose, for any messages, calls and bounds: its types,  *)
(* and ComposeSound.                                                     *)
(*                                                                       *)
(* What holds whatever fails is counted: a submission is a call that     *)
(* waits, a delivery takes the call out of those that wait, and only the *)
(* user puts one in.  So deliveries and waiting calls together are never *)
(* more than submissions (SentInv); and a call that was cancelled waits no*)
(* more.                                                                 *)
(*                                                                       *)
(* What holds of a user who waits for the requests in flight, when none  *)
(* fails, needs to know where each form is.  A form has three kinds of   *)
(* places: the window, a send that has left the window, and what a call  *)
(* will open.  CarefulInv says that one request at most is in flight, that*)
(* a message has one place at most, that the form there is its last      *)
(* version and replaces the only draft of it (but for the one being      *)
(* saved), that a message without a place has its last version in its    *)
(* draft, or was sent or discarded, and that one that was sent has no    *)
(* draft left.  Most steps move forms between the places of one call and *)
(* the window: lemma Moves says what such a step must respect, and the   *)
(* steps of the server, which leave the places alone, are treated one by *)
(* one.                                                                  *)
(*************************************************************************)
EXTENDS Compose, FiniteSetTheorems, TLAPS

Opens == {"open", "reopen"}

\* What the window, the calls and the drafts hold is a message.
WindowType == [open : BOOLEAN, form : Form, dirty : BOOLEAN, timer : BOOLEAN]
WindowOK(w) == w \in WindowType /\ (w.open => w.form.msg \in Msgs) /\ (w.dirty => w.open)
CallOK(c) ==
  /\ c \in CallType
  /\ c.step \in {"saving", "pending", "sending"} => c.form.msg \in Msgs /\ c.form.ver \in Vers
  /\ c.goal \in Opens \/ c.step = "opening" => c.next.msg \in Msgs
  /\ c.step = "sending" => c.goal \in {"end", "reset"}
  /\ c.step = "pending" => c.srv = "none"
DraftOK(d) == d # NoForm => d.msg \in Msgs /\ d.ver \in Vers /\ d.draft = 0
Shape ==
  /\ WindowOK(window)
  /\ \A k \in Calls : CallOK(call[k])
  /\ \A u \in Uids : DraftOK(drafts[u])

\* The submissions of version v of m that are still to be delivered.
Waits(c, m, v) ==
  /\ Holds(c.form, m, v)
  /\ c.step = "pending" \/ (c.step = "sending" /\ c.srv = "asked")
Waiting(cs, m, v) == {k \in Calls : Waits(cs[k], m, v)}

SentInv ==
  \A m \in Msgs, v \in Vers :
    IsFiniteSet(Waiting(call, m, v)) /\ sent[m][v] + Cardinality(Waiting(call, m, v)) <= submitted[m][v]

UndoneInv ==
  "late" \notin Faults => \A k \in undone : call[k].step \notin {"pending", "sending"}

----------------------------------------------------------------------------
(* With a user who waits, and no failure.                                  *)

Busy(k) == call[k].step \in Requests
OneBusy == \A j, k \in Calls : Busy(j) /\ Busy(k) => j = k

\* The places of a form: the window; a send that has left the window; what a call
\* will open.
Win == IF window.open THEN window.form ELSE NoForm
Left(k) == call[k].step = "pending" \/ (call[k].step = "sending" /\ call[k].goal = "end")
Mine(k) == IF Left(k) THEN call[k].form ELSE NoForm
Nxt(k) == call[k].next
Live(m) == Win.msg = m \/ \E k \in Calls : Mine(k).msg = m \/ Nxt(k).msg = m

\* The other calls that carry a form carry the one of the window.
CallShape(k) ==
  LET c == call[k] IN
    /\ c.step = "idle" => c = Idle
    /\ c.step = "pending" => c.goal = "none" /\ c.next = NoForm /\ c.srv = "none"
    /\ c.step = "opening" => c.goal = "open" /\ c.form = NoForm /\ c.srv = "none"
    /\ c.step = "saving" =>
         /\ window.open /\ window.dirty /\ c.form = window.form
         /\ c.goal \in {"stay", "end"} \union Opens /\ c.srv \in {"asked", "stored", "ok"}
         /\ c.goal \notin Opens => c.next = NoForm
    /\ c.step = "sending" =>
         /\ c.goal \in {"end", "reset"} /\ c.srv \in {"asked", "stored", "ok"} /\ c.next = NoForm
         /\ c.goal = "reset" => window.open /\ c.form = window.form
    /\ c.step = "removing" =>
         /\ window.open /\ c.form = window.form /\ c.form.msg \in discarded
         /\ c.srv \in {"asked", "ok"} /\ c.next = NoForm
    /\ c.step = "folders" =>
         /\ c.goal \in {"end", "reset"} \union Opens /\ c.form = NoForm /\ c.srv = "none"
         /\ c.goal \in Opens => ~window.open
         /\ c.goal \notin Opens => c.next = NoForm
         /\ c.goal = "reset" => window.open /\ sent[window.form.msg][window.form.ver] > 0
Shapes == (~window.open => window = Closed) /\ \A k \in Calls : CallShape(k)

\* A message has one place at most.
Unique ==
  /\ Win.msg \in Msgs => \A k \in Calls : Mine(k).msg # Win.msg /\ Nxt(k).msg # Win.msg
  /\ \A j, k \in Calls :
       /\ Mine(k).msg \in Msgs => Nxt(j).msg # Mine(k).msg /\ (Mine(j).msg = Mine(k).msg => j = k)
       /\ Nxt(k).msg \in Msgs /\ Nxt(j).msg = Nxt(k).msg => j = k

\* A form is the last version of its message, and replaces the only draft of it,
\* but for the one that is being saved.
Replacing(u, m) ==
  \E k \in Calls : /\ call[k].step = "saving" /\ call[k].srv \in {"stored", "ok"}
                   /\ call[k].uid = u /\ call[k].form.msg = m
FormOK(f) ==
  f.msg \in Msgs =>
    /\ f.ver = latest[f.msg]
    /\ f.draft # 0 => f.draft < nextUid /\ drafts[f.draft].msg \in {NoMsg, f.msg}
    /\ \A u \in Uids : drafts[u].msg = f.msg => u = f.draft \/ Replacing(u, f.msg)
FormsOK == FormOK(Win) /\ \A k \in Calls : FormOK(Mine(k)) /\ FormOK(Nxt(k))

DraftsInv ==
  /\ \A u \in Uids : u >= nextUid => drafts[u] = NoForm
  /\ \A u \in Uids : drafts[u] # NoForm => drafts[u].ver <= latest[drafts[u].msg]
  /\ \A t, u \in Uids : drafts[u].msg \in Msgs /\ drafts[t].msg = drafts[u].msg =>
       t = u \/ \E k \in Calls : /\ call[k].step = "saving" /\ call[k].srv = "stored"
                                 /\ call[k].form.msg = drafts[u].msg
  /\ \A u \in Uids, m \in Msgs : drafts[u].msg = m /\ ~Live(m) => drafts[u].ver = latest[m]

\* A request that the server has served.
ServedInv ==
  \A k \in Calls :
    /\ call[k].step = "saving" /\ call[k].srv \in {"stored", "ok"} =>
         /\ call[k].uid \in Uids /\ call[k].uid < nextUid /\ call[k].uid # call[k].form.draft
         /\ drafts[call[k].uid] = [call[k].form EXCEPT !.draft = 0]
    /\ call[k].step = "saving" /\ call[k].srv = "ok" =>
         \A u \in Uids : drafts[u].msg = call[k].form.msg => u = call[k].uid
    /\ call[k].step = "sending" /\ call[k].srv \in {"stored", "ok"} =>
         sent[call[k].form.msg][call[k].form.ver] > 0
    /\ call[k].step = "removing" /\ call[k].srv = "ok" =>
         \A u \in Uids : drafts[u].msg # call[k].form.msg

\* A message that was sent has left, and its draft with it.
SentGone ==
  \A m \in Msgs, v \in Vers : sent[m][v] > 0 =>
    /\ latest[m] > 0
    /\ Live(m) => \E k \in Calls :
         \/ call[k].step = "sending" /\ call[k].srv \in {"stored", "ok"} /\ call[k].form.msg = m
         \/ call[k].step = "folders" /\ call[k].goal = "reset" /\ Win.msg = m
    /\ \A u \in Uids : drafts[u].msg = m => \E k \in Calls :
         /\ call[k].step = "sending" /\ call[k].srv = "stored"
         /\ call[k].form.msg = m /\ call[k].form.draft = u

\* A form that is not modified can be found as a draft.
InDraft(f) == f.draft # 0 /\ Holds(drafts[f.draft], f.msg, f.ver)
SavedInv ==
  /\ window.open /\ ~window.dirty /\ Win.ver > 0 =>
       InDraft(Win) \/ sent[Win.msg][Win.ver] > 0 \/ \E k \in Calls : call[k].step = "removing"
  /\ \A k \in Calls : call[k].goal = "open" /\ Nxt(k).ver > 0 => InDraft(Nxt(k))

KeptInv ==
  \A m \in Msgs \ discarded : latest[m] > 0 =>
    \/ Live(m)
    \/ sent[m][latest[m]] > 0
    \/ \E u \in Uids : Holds(drafts[u], m, latest[m])

CarefulInv ==
  OneBusy /\ Shapes /\ Unique /\ FormsOK /\ DraftsInv /\ ServedInv /\ SentGone /\ SavedInv /\ KeptInv

Orderly == Careful /\ Faults = {}
ComposeInv == TypeOK /\ Shape /\ SentInv /\ UndoneInv /\ (Orderly => CarefulInv)

----------------------------------------------------------------------------
(* Types: the forms that the steps move are those of messages.             *)

LEMMA ChainFields ==
  ASSUME NEW step \in Steps, NEW goal \in Goals, NEW form \in Form, NEW next \in Form,
         NEW srv \in Progress
  PROVE  LET c == Chain(step, goal, form, next, srv)
         IN  /\ c \in CallType
             /\ c.step = step /\ c.goal = goal /\ c.form = form /\ c.next = next
             /\ c.srv = srv /\ c.uid = 0
  BY BoundsAssumption DEF Chain, CallType

LEMMA NoFormFields == NoForm \in Form /\ NoForm.msg = NoMsg /\ NoForm.ver = 0 /\ NoForm.draft = 0
  BY BoundsAssumption DEF NoForm, Form

LEMMA IdleFields ==
  /\ Idle \in CallType
  /\ Idle.step = "idle" /\ Idle.goal = "none" /\ Idle.form = NoForm /\ Idle.next = NoForm
  /\ Idle.srv = "none" /\ Idle.uid = 0
  BY BoundsAssumption, NoFormFields DEF Idle, CallType, Steps, Goals, Progress

LEMMA ClosedFields ==
  /\ Closed \in WindowType
  /\ Closed.open = FALSE /\ Closed.form = NoForm /\ Closed.dirty = FALSE /\ Closed.timer = FALSE
  BY NoFormFields DEF Closed, WindowType

LEMMA FormFields ==
  ASSUME NEW f \in Form
  PROVE  f.msg \in Msgs \union {NoMsg} /\ f.ver \in 0..MaxVer /\ f.draft \in 0..MaxUid
  BY DEF Form

LEMMA CallFields ==
  ASSUME NEW c \in CallType
  PROVE  /\ c.step \in Steps /\ c.goal \in Goals /\ c.form \in Form /\ c.next \in Form
         /\ c.srv \in Progress /\ c.uid \in 0..MaxUid
  BY DEF CallType

LEMMA WindowFields ==
  ASSUME NEW w \in WindowType
  PROVE  w.open \in BOOLEAN /\ w.form \in Form /\ w.dirty \in BOOLEAN /\ w.timer \in BOOLEAN
  BY DEF WindowType

\* A window whose timer has been cleared is otherwise the same.
LEMMA TimerCleared ==
  ASSUME NEW w \in WindowType
  PROVE  LET c == [w EXCEPT !.timer = FALSE]
         IN  /\ c \in WindowType
             /\ c.open = w.open /\ c.form = w.form /\ c.dirty = w.dirty /\ c.timer = FALSE
  BY DEF WindowType

LEMMA SavingFields ==
  ASSUME NEW f \in Form, NEW goal \in Goals, NEW next \in Form
  PROVE  LET c == Saving(f, goal, next)
         IN  /\ c \in CallType /\ c.step = "saving" /\ c.goal = goal /\ c.form = f
             /\ c.next = next /\ c.srv = "asked"
  BY ChainFields DEF Saving, Steps, Progress

LEMMA FoldersFields ==
  ASSUME NEW goal \in Goals, NEW next \in Form
  PROVE  LET c == Folders(goal, next)
         IN  /\ c \in CallType /\ c.step = "folders" /\ c.goal = goal /\ c.form = NoForm
             /\ c.next = next /\ c.srv = "none"
  BY ChainFields, NoFormFields DEF Folders, Steps, Progress

LEMMA OpeningFields ==
  ASSUME NEW f \in Form
  PROVE  LET c == Opening(f)
         IN  /\ c \in CallType /\ c.step = "opening" /\ c.goal = "open" /\ c.form = NoForm
             /\ c.next = f /\ c.srv = "none"
  BY ChainFields, NoFormFields DEF Opening, Steps, Progress, Goals

LEMMA SendingFields ==
  ASSUME NEW f \in Form, NEW goal \in Goals
  PROVE  LET c == Sending(f, goal)
         IN  /\ c \in CallType /\ c.step = "sending" /\ c.goal = goal /\ c.form = f
             /\ c.next = NoForm /\ c.srv = "asked"
  BY ChainFields, NoFormFields DEF Sending, Steps, Progress

LEMMA AssignedFields ==
  ASSUME NEW f \in Form, NEW d \in BOOLEAN, window \in WindowType
  PROVE  LET w == Assigned(f, d)
         IN  w \in WindowType /\ w.open = TRUE /\ w.form = f /\ w.dirty = d
  BY DEF Assigned, WindowType

\* What a close, and then an opening, do to the window and to the call.
LEMMA CloseThenOK ==
  ASSUME TypeOK, Shape, NEW k \in Calls, NEW goal \in Goals, NEW next \in Form,
         goal \in Opens => next.msg \in Msgs, window.open, CloseThen(k, goal, next)
  PROVE  /\ WindowOK(window')
         /\ \E x : call' = [call EXCEPT ![k] = x] /\ CallOK(x) /\ x.step \in {"saving", "folders"}
<1>1. window \in WindowType /\ window.form \in Form /\ window.form.msg \in Msgs
  BY WindowFields DEF Shape, WindowOK
<1>2. CASE window.dirty /\ window.form.ver > 0
  <2> DEFINE x == Saving(window.form, goal, next)
  <2>1. call' = [call EXCEPT ![k] = x] /\ window' = [window EXCEPT !.timer = FALSE]
    BY <1>2 DEF CloseThen
  <2>2. WindowOK(window')
    BY <2>1, <1>1, TimerCleared DEF WindowOK
  <2>3. /\ x \in CallType /\ x.step = "saving" /\ x.goal = goal /\ x.form = window.form
        /\ x.next = next
    BY <1>1, SavingFields
  <2>4. window.form.ver \in Vers
    BY <1>1, <1>2, FormFields, BoundsAssumption DEF Vers
  <2> HIDE DEF x
  <2>5. CallOK(x)
    BY <2>3, <2>4, <1>1 DEF CallOK
  <2> QED BY <2>1, <2>2, <2>3, <2>5
<1>3. CASE ~(window.dirty /\ window.form.ver > 0)
  <2> DEFINE x == Folders(goal, next)
  <2>1. call' = [call EXCEPT ![k] = x] /\ window' = Closed
    BY <1>3 DEF CloseThen
  <2>2. WindowOK(window')
    BY <2>1, ClosedFields DEF WindowOK
  <2>3. x \in CallType /\ x.step = "folders" /\ x.goal = goal /\ x.next = next
    BY FoldersFields
  <2> HIDE DEF x
  <2>5. CallOK(x)
    BY <2>3 DEF CallOK
  <2> QED BY <2>1, <2>2, <2>3, <2>5
<1> QED BY <1>2, <1>3

LEMMA OpenThenOK ==
  ASSUME TypeOK, Shape, NEW k \in Calls, NEW goal \in Opens, NEW f \in Form,
         f.msg \in Msgs, OpenThen(k, f, goal)
  PROVE  /\ WindowOK(window')
         /\ \E x : /\ call' = [call EXCEPT ![k] = x] /\ CallOK(x)
                   /\ x.step \in {"saving", "folders", "idle"}
<1>0. goal \in Goals /\ window \in WindowType
  BY DEF Opens, Goals, Shape, WindowOK
<1>1. CASE window.open
  BY <1>0, <1>1, CloseThenOK DEF OpenThen
<1>2. CASE ~window.open
  <2>1. window' = Assigned(f, goal = "reopen") /\ call' = [call EXCEPT ![k] = Idle]
    BY <1>2 DEF OpenThen
  <2>2. WindowOK(window')
    BY <2>1, <1>0, AssignedFields DEF WindowOK
  <2>3. CallOK(Idle)
    BY IdleFields DEF CallOK, Opens
  <2> QED BY <2>1, <2>2, <2>3, IdleFields
<1> QED BY <1>1, <1>2

HistoryOK ==
  /\ latest \in [Msgs -> 0..MaxVer]
  /\ discarded \subseteq Msgs
  /\ submitted \in [Msgs -> [Vers -> 0..MaxSends]]
  /\ undone \subseteq Calls

LEMMA CallsOK ==
  ASSUME TypeOK, Shape, NEW k \in Calls, NEW x, CallOK(x), call' = [call EXCEPT ![k] = x]
  PROVE  call' \in [Calls -> CallType] /\ \A j \in Calls : CallOK(call'[j])
BY DEF TypeOK, Shape, CallOK

\* A step of the window and of one call.
LEMMA LocalStep ==
  ASSUME TypeOK, Shape, NEW k \in Calls, NEW x, CallOK(x), call' = [call EXCEPT ![k] = x],
         WindowOK(window'), UNCHANGED serverVars, HistoryOK'
  PROVE  TypeOK' /\ Shape'
<1>1. call' \in [Calls -> CallType] /\ \A j \in Calls : CallOK(call'[j])
  BY CallsOK
<1>2. drafts' = drafts /\ nextUid' = nextUid /\ sent' = sent
  BY DEF serverVars
<1>3. Shape'
  BY <1>1, <1>2 DEF Shape, Uids
<1>4. TypeOK'
  BY <1>1, <1>2 DEF TypeOK, HistoryOK, WindowOK, WindowType, Uids, Vers
<1> QED BY <1>3, <1>4

LEMMA UserVarsOK ==
  ASSUME TypeOK, UNCHANGED userVars
  PROVE  HistoryOK'
BY DEF TypeOK, userVars, HistoryOK, Vers

LEMMA InitOK == Init => TypeOK /\ Shape
<1> SUFFICES ASSUME Init PROVE TypeOK /\ Shape
  OBVIOUS
<1>1. CallOK(Idle)
  BY IdleFields DEF CallOK, Opens
<1>2. WindowOK(window) /\ window \in WindowType
  BY ClosedFields DEF Init, WindowOK
<1>3. call \in [Calls -> CallType] /\ \A k \in Calls : call[k] = Idle
  BY IdleFields DEF Init
<1>4. drafts \in [Uids -> Form] /\ \A u \in Uids : drafts[u] = NoForm
  BY NoFormFields DEF Init
<1>5. nextUid \in 1..(MaxUid + 1) /\ latest \in [Msgs -> 0..MaxVer] /\ discarded \subseteq Msgs
      /\ undone \subseteq Calls
  BY BoundsAssumption DEF Init
<1>6. submitted \in [Msgs -> [Vers -> 0..MaxSends]]
  BY BoundsAssumption DEF Init
<1>7. sent \in [Msgs -> [Vers -> Nat]]
  BY DEF Init
<1>8. Shape
  BY <1>1, <1>2, <1>3, <1>4 DEF Shape, DraftOK
<1> QED BY <1>2, <1>3, <1>4, <1>5, <1>6, <1>7, <1>8 DEF TypeOK, WindowType

----------------------------------------------------------------------------

LEMMA UserTypes ==
  ASSUME TypeOK, Shape, UserStep \/ AutosaveTimeout
  PROVE  TypeOK' /\ Shape'
<1>0. WindowOK(window) /\ window \in WindowType /\ window.form \in Form
  BY WindowFields DEF Shape, WindowOK
<1>1. ASSUME NEW m \in Msgs, New(m) PROVE TypeOK' /\ Shape'
  <2> DEFINE f == [NoForm EXCEPT !.msg = m]
  <2>1. f \in Form /\ f.msg = m
    BY NoFormFields, BoundsAssumption DEF NoForm, Form
  <2>2. PICK k \in Calls : call' = [call EXCEPT ![k] = Opening(f)]
    BY <1>1 DEF New
  <2> HIDE DEF f
  <2>3. CallOK(Opening(f))
    BY <2>1, OpeningFields DEF CallOK, Opens
  <2>4. HistoryOK' /\ UNCHANGED serverVars /\ WindowOK(window')
    BY <1>1, <1>0, UserVarsOK DEF New
  <2> QED BY <2>2, <2>3, <2>4, LocalStep
<1>2. ASSUME NEW u \in Uids, OpenDraft(u) PROVE TypeOK' /\ Shape'
  <2> DEFINE f == [drafts[u] EXCEPT !.draft = u]
  <2>1. drafts[u] \in Form /\ drafts[u].msg \in Msgs
    BY <1>2 DEF TypeOK, Shape, DraftOK, OpenDraft
  <2>2. f \in Form /\ f.msg \in Msgs
    BY <2>1, BoundsAssumption DEF Form, Uids
  <2>3. PICK k \in Calls : call' = [call EXCEPT ![k] = Opening(f)]
    BY <1>2 DEF OpenDraft
  <2> HIDE DEF f
  <2>4. CallOK(Opening(f))
    BY <2>2, OpeningFields DEF CallOK, Opens
  <2>5. HistoryOK' /\ UNCHANGED serverVars /\ WindowOK(window')
    BY <1>2, <1>0, UserVarsOK DEF OpenDraft
  <2> QED BY <2>3, <2>4, <2>5, LocalStep
<1>3. ASSUME Edit PROVE TypeOK' /\ Shape'
  <2> DEFINE m == window.form.msg
             f == [window.form EXCEPT !.ver = latest[m] + 1]
  <2>1. m \in Msgs /\ latest[m] \in Nat /\ latest[m] + 1 \in 0..MaxVer
    BY <1>3, <1>0, BoundsAssumption DEF Edit, WindowOK, TypeOK
  <2>2. f \in Form /\ f.msg = m
    BY <2>1, <1>0 DEF Form
  <2>3. latest' = [latest EXCEPT ![m] = latest[m] + 1]
        /\ window' = [open |-> TRUE, form |-> f, dirty |-> TRUE, timer |-> TRUE]
    BY <1>3 DEF Edit
  <2>4. UNCHANGED <<call, drafts, nextUid, sent, discarded, submitted, undone>>
    BY <1>3 DEF Edit, serverVars
  <2>5. latest' \in [Msgs -> 0..MaxVer]
    BY <2>1, <2>3 DEF TypeOK
  <2> HIDE DEF m, f
  <2>6. WindowOK(window')
    BY <2>1, <2>2, <2>3 DEF WindowOK, WindowType
  <2>7. Shape'
    BY <2>4, <2>6 DEF Shape, Uids
  <2>8. TypeOK'
    BY <2>4, <2>5, <2>6 DEF TypeOK, WindowOK, WindowType, Uids, Vers
  <2> QED BY <2>7, <2>8
<1>4. ASSUME CloseWindow PROVE TypeOK' /\ Shape'
  <2>1. PICK k \in Calls : CloseThen(k, "end", NoForm)
    BY <1>4 DEF CloseWindow
  <2>2. WindowOK(window') /\ \E x : call' = [call EXCEPT ![k] = x] /\ CallOK(x)
    BY <1>4, <2>1, CloseThenOK, NoFormFields DEF CloseWindow, Goals, Opens
  <2>3. HistoryOK' /\ UNCHANGED serverVars
    BY <1>4, UserVarsOK DEF CloseWindow
  <2> QED BY <2>2, <2>3, LocalStep
<1>5. ASSUME Discard PROVE TypeOK' /\ Shape'
  <2>1. UNCHANGED serverVars /\ discarded' = discarded \union {window.form.msg}
        /\ UNCHANGED <<latest, submitted, undone>>
    BY <1>5 DEF Discard
  <2>2. HistoryOK'
    BY <2>1, <1>0, <1>5 DEF HistoryOK, TypeOK, Discard, WindowOK, Vers
  <2>3. PICK k \in Calls :
          IF window.form.draft # 0
            THEN /\ call' = [call EXCEPT ![k] = Chain("removing", "none", window.form, NoForm, "asked")]
                 /\ window' = [window EXCEPT !.timer = FALSE]
            ELSE /\ call' = [call EXCEPT ![k] = Folders("end", NoForm)]
                 /\ window' = Closed
    BY <1>5 DEF Discard
  <2>4. CASE window.form.draft # 0
    <3> DEFINE x == Chain("removing", "none", window.form, NoForm, "asked")
    <3>1. call' = [call EXCEPT ![k] = x] /\ window' = [window EXCEPT !.timer = FALSE]
      BY <2>3, <2>4
    <3>2. x \in CallType /\ x.step = "removing" /\ x.goal = "none"
      <4>1. "removing" \in Steps /\ "none" \in Goals /\ "asked" \in Progress
        BY DEF Steps, Goals, Progress
      <4> QED BY <4>1, <1>0, ChainFields, NoFormFields
    <3> HIDE DEF x
    <3>3. CallOK(x) /\ WindowOK(window')
      BY <3>1, <3>2, <1>0, TimerCleared DEF CallOK, Opens, WindowOK
    <3> QED BY <3>1, <3>3, <2>1, <2>2, LocalStep
  <2>5. CASE window.form.draft = 0
    <3>1. CallOK(Folders("end", NoForm))
      BY FoldersFields, NoFormFields DEF CallOK, Goals, Opens
    <3>2. WindowOK(window') /\ call' = [call EXCEPT ![k] = Folders("end", NoForm)]
      BY <2>3, <2>5, ClosedFields DEF WindowOK
    <3> QED BY <3>1, <3>2, <2>1, <2>2, LocalStep
  <2> QED BY <2>4, <2>5
<1>6. ASSUME Send PROVE TypeOK' /\ Shape'
  <2> DEFINE f == window.form
  <2>1. PICK k \in Calls :
          /\ undone' = undone \ {k}
          /\ \/ /\ call' = [call EXCEPT ![k] = Chain("pending", "none", f, NoForm, "none")]
                /\ window' = Closed
             \/ /\ call' = [call EXCEPT ![k] = Sending(f, "reset")]
                /\ window' = [window EXCEPT !.timer = FALSE]
    BY <1>6 DEF Send
  <2>2. UNCHANGED serverVars /\ UNCHANGED <<latest, discarded>>
    BY <1>6 DEF Send
  <2>3. f \in Form /\ f.msg \in Msgs /\ f.ver \in Vers
    BY <1>0, <1>6, FormFields, BoundsAssumption DEF Send, WindowOK, Vers
  <2>4. /\ submitted[f.msg][f.ver] < MaxSends
        /\ submitted' = [submitted EXCEPT ![f.msg][f.ver] = submitted[f.msg][f.ver] + 1]
    BY <1>6 DEF Send
  <2> HIDE DEF f
  <2>5. submitted' \in [Msgs -> [Vers -> 0..MaxSends]]
    <3>1. submitted \in [Msgs -> [Vers -> 0..MaxSends]]
      BY DEF TypeOK
    <3>2. submitted[f.msg][f.ver] + 1 \in 0..MaxSends
      BY <3>1, <2>3, <2>4, BoundsAssumption
    <3> DEFINE g == [submitted[f.msg] EXCEPT ![f.ver] = submitted[f.msg][f.ver] + 1]
    <3>3. g \in [Vers -> 0..MaxSends]
      BY <3>1, <3>2, <2>3
    <3>4. submitted' = [submitted EXCEPT ![f.msg] = g]
      BY <2>4
    <3> QED BY <3>1, <3>3, <3>4, <2>3
  <2>6. HistoryOK'
    BY <2>1, <2>2, <2>5 DEF HistoryOK, TypeOK, Vers
  <2>7. CASE /\ call' = [call EXCEPT ![k] = Chain("pending", "none", f, NoForm, "none")]
             /\ window' = Closed
    <3> DEFINE x == Chain("pending", "none", f, NoForm, "none")
    <3>1. x \in CallType /\ x.step = "pending" /\ x.goal = "none" /\ x.form = f /\ x.srv = "none"
      BY <2>3, ChainFields, NoFormFields DEF Steps, Goals, Progress
    <3>2. call' = [call EXCEPT ![k] = x] /\ WindowOK(window')
      BY <2>7, ClosedFields DEF WindowOK
    <3> HIDE DEF x
    <3>3. CallOK(x)
      BY <3>1, <2>3 DEF CallOK, Opens
    <3> QED BY <3>2, <3>3, <2>2, <2>6, LocalStep
  <2>8. CASE /\ call' = [call EXCEPT ![k] = Sending(f, "reset")]
             /\ window' = [window EXCEPT !.timer = FALSE]
    <3> DEFINE x == Sending(f, "reset")
    <3>1. x \in CallType /\ x.step = "sending" /\ x.goal = "reset" /\ x.form = f
      BY <2>3, SendingFields DEF Goals
    <3>2. call' = [call EXCEPT ![k] = x] /\ WindowOK(window')
      BY <2>8, <1>0, TimerCleared DEF WindowOK
    <3> HIDE DEF x
    <3>3. CallOK(x)
      BY <3>1, <2>3 DEF CallOK, Opens
    <3> QED BY <3>2, <3>3, <2>2, <2>6, LocalStep
  <2> QED BY <2>1, <2>7, <2>8
<1>7. ASSUME NEW k \in Calls, Cancel(k) \/ LateCancel(k) PROVE TypeOK' /\ Shape'
  <2>1. PICK j \in Calls : OpenThen(j, call[k].form, "reopen")
    BY <1>7 DEF Cancel, LateCancel
  <2>2. call[k].form \in Form /\ call[k].form.msg \in Msgs
    BY <1>7, CallFields DEF Cancel, LateCancel, Shape, CallOK
  <2>3. WindowOK(window') /\ \E x : call' = [call EXCEPT ![j] = x] /\ CallOK(x)
    BY <2>1, <2>2, OpenThenOK DEF Opens
  <2>4. UNCHANGED serverVars /\ UNCHANGED <<latest, discarded, submitted>>
        /\ undone' = undone \union {k}
    BY <1>7 DEF Cancel, LateCancel
  <2>5. HistoryOK'
    BY <2>4 DEF HistoryOK, TypeOK, Vers
  <2> QED BY <2>3, <2>4, <2>5, LocalStep
<1>8. ASSUME AutosaveTimeout PROVE TypeOK' /\ Shape'
  <2>1. window' = [window EXCEPT !.timer = FALSE] /\ UNCHANGED serverVars /\ HistoryOK'
    BY <1>8, UserVarsOK DEF AutosaveTimeout
  <2>2. WindowOK(window')
    BY <2>1, <1>0, TimerCleared DEF WindowOK
  <2>3. CASE window.dirty /\ window.form.ver > 0
    <3>1. PICK k \in Calls : call' = [call EXCEPT ![k] = Saving(window.form, "stay", NoForm)]
      BY <1>8, <2>3 DEF AutosaveTimeout
    <3>2. window.form.msg \in Msgs
      BY <2>3, <1>0 DEF WindowOK
    <3>3. window.form.ver \in Vers
      BY <1>0, <2>3, FormFields, BoundsAssumption DEF Vers
    <3> DEFINE x == Saving(window.form, "stay", NoForm)
    <3>4. x \in CallType /\ x.step = "saving" /\ x.goal = "stay" /\ x.form = window.form
      BY <1>0, SavingFields, NoFormFields DEF Goals
    <3> HIDE DEF x
    <3>5. CallOK(x)
      BY <3>2, <3>3, <3>4 DEF CallOK, Opens
    <3> QED BY <3>1, <3>5, <2>1, <2>2, LocalStep DEF x
  <2>4. CASE ~(window.dirty /\ window.form.ver > 0)
    <3>1. call' = call /\ drafts' = drafts /\ nextUid' = nextUid /\ sent' = sent
      BY <1>8, <2>1, <2>4 DEF AutosaveTimeout, serverVars
    <3>2. Shape'
      BY <3>1, <2>2 DEF Shape, Uids
    <3>3. TypeOK'
      BY <3>1, <2>1, <2>2 DEF TypeOK, HistoryOK, WindowOK, WindowType, Uids, Vers
    <3> QED BY <3>2, <3>3
  <2> QED BY <2>3, <2>4
<1> QED BY <1>1, <1>2, <1>3, <1>4, <1>5, <1>6, <1>7, <1>8 DEF UserStep

\* A step of the server on a call, which changes srv, and may set uid.
LEMMA SrvFields ==
  ASSUME NEW c \in CallType, NEW srv \in Progress
  PROVE  LET x == [c EXCEPT !.srv = srv]
         IN  /\ x \in CallType /\ x.step = c.step /\ x.goal = c.goal /\ x.form = c.form
             /\ x.next = c.next /\ x.srv = srv /\ x.uid = c.uid
BY DEF CallType

LEMMA StoredFields ==
  ASSUME NEW c \in CallType, NEW u \in 0..MaxUid
  PROVE  LET x == Stored(c, u)
         IN  /\ x \in CallType /\ x.step = c.step /\ x.goal = c.goal /\ x.form = c.form
             /\ x.next = c.next /\ x.srv = "stored" /\ x.uid = u
<1> DEFINE z == [c EXCEPT !.srv = "stored"]
<1>1. /\ z \in CallType /\ z.step = c.step /\ z.goal = c.goal /\ z.form = c.form
      /\ z.next = c.next /\ z.srv = "stored"
  BY SrvFields DEF Progress
<1>2. Stored(c, u) = [z EXCEPT !.uid = u]
  BY DEF Stored
<1> HIDE DEF z
<1> QED BY <1>1, <1>2 DEF CallType

LEMMA ServedOK ==
  ASSUME NEW c, CallOK(c), NEW srv \in Progress, c.step # "pending"
  PROVE  CallOK([c EXCEPT !.srv = srv])
<1> DEFINE x == [c EXCEPT !.srv = srv]
<1>1. /\ x \in CallType /\ x.step = c.step /\ x.goal = c.goal /\ x.form = c.form
      /\ x.next = c.next
  BY SrvFields DEF CallOK
<1> HIDE DEF x
<1>2. CallOK(x)
  BY <1>1 DEF CallOK
<1> QED BY <1>2 DEF x

\* A step of the server leaves the window and the history alone.
LEMMA ServerStep ==
  ASSUME TypeOK, Shape, NEW k \in Calls, NEW x, CallOK(x), call' = [call EXCEPT ![k] = x],
         UNCHANGED <<window, userVars>>,
         drafts' \in [Uids -> Form], \A u \in Uids : DraftOK(drafts'[u]),
         nextUid' \in 1..(MaxUid + 1), sent' \in [Msgs -> [Vers -> Nat]]
  PROVE  TypeOK' /\ Shape'
<1>1. call' \in [Calls -> CallType] /\ \A j \in Calls : CallOK(call'[j])
  BY CallsOK
<1>2. window' = window /\ HistoryOK'
  BY UserVarsOK
<1>3. Shape'
  BY <1>1, <1>2 DEF Shape, Uids
<1>4. TypeOK'
  BY <1>1, <1>2 DEF TypeOK, HistoryOK, WindowOK, WindowType, Uids, Vers
<1> QED BY <1>3, <1>4

LEMMA ExpungedOK ==
  ASSUME TypeOK, Shape, NEW u
  PROVE  /\ Expunged(drafts, u) \in [Uids -> Form]
         /\ \A d \in Uids : DraftOK(Expunged(drafts, u)[d])
BY NoFormFields DEF TypeOK, Shape, Expunged, DraftOK

LEMMA CallTypes ==
  ASSUME TypeOK, Shape, NEW k \in Calls, CallStep(k)
  PROVE  TypeOK' /\ Shape'
<1> DEFINE c == call[k]
<1>0. /\ WindowOK(window) /\ window \in WindowType /\ CallOK(c) /\ c \in CallType
      /\ c.form \in Form /\ c.next \in Form /\ c.goal \in Goals
  BY CallFields DEF Shape, WindowOK, CallOK
<1>1. ASSUME Loaded(k) PROVE TypeOK' /\ Shape'
  <2>1. c.next.msg \in Msgs
    BY <1>0, <1>1 DEF CallOK, Loaded
  <2>2. UNCHANGED serverVars /\ HistoryOK'
    BY <1>1, UserVarsOK DEF Loaded
  <2>3. CASE OpenThen(k, c.next, "open")
    BY <1>0, <2>1, <2>2, <2>3, OpenThenOK, LocalStep DEF Opens
  <2>4. CASE call' = [call EXCEPT ![k] = Idle] /\ UNCHANGED window
    <3>1. CallOK(Idle)
      BY IdleFields DEF CallOK, Opens
    <3> QED BY <3>1, <2>2, <2>4, <1>0, LocalStep
  <2> QED BY <1>1, <2>3, <2>4 DEF Loaded
<1>2. ASSUME UndoTimeout(k) PROVE TypeOK' /\ Shape'
  <2> DEFINE x == Sending(c.form, "end")
  <2>1. call' = [call EXCEPT ![k] = x] /\ UNCHANGED <<window, serverVars>> /\ HistoryOK'
    BY <1>2, UserVarsOK DEF UndoTimeout
  <2>2. x \in CallType /\ x.step = "sending" /\ x.goal = "end" /\ x.form = c.form
    BY <1>0, SendingFields DEF Goals
  <2>3. c.form.msg \in Msgs /\ c.form.ver \in Vers
    BY <1>0, <1>2 DEF CallOK, UndoTimeout
  <2> HIDE DEF x
  <2>4. CallOK(x)
    BY <2>2, <2>3 DEF CallOK, Opens
  <2> QED BY <2>1, <2>4, <1>0, LocalStep
<1>3. ASSUME Append(k) PROVE TypeOK' /\ Shape'
  <2> DEFINE d == [c.form EXCEPT !.draft = 0]
             x == Stored(c, nextUid)
  <2>1. /\ nextUid \in Uids /\ nextUid \in 0..MaxUid
        /\ call' = [call EXCEPT ![k] = x] /\ drafts' = [drafts EXCEPT ![nextUid] = d]
        /\ nextUid' = nextUid + 1 /\ UNCHANGED <<window, sent, userVars>> /\ c.step = "saving"
    BY <1>3, BoundsAssumption DEF Append, TypeOK, Uids
  <2>2. d \in Form /\ DraftOK(d)
    BY <1>0, <2>1, BoundsAssumption DEF CallOK, DraftOK, Form
  <2>3. CallOK(x)
    <3>1. /\ x \in CallType /\ x.step = c.step /\ x.goal = c.goal /\ x.form = c.form
          /\ x.next = c.next
      BY <1>0, <2>1, StoredFields
    <3> HIDE DEF x
    <3> QED BY <2>1, <3>1, <1>0 DEF CallOK
  <2> HIDE DEF d, x
  <2>4. drafts' \in [Uids -> Form] /\ \A u \in Uids : DraftOK(drafts'[u])
    BY <2>1, <2>2 DEF TypeOK, Shape
  <2>5. nextUid' \in 1..(MaxUid + 1) /\ sent' \in [Msgs -> [Vers -> Nat]]
    BY <2>1, BoundsAssumption DEF TypeOK, Uids
  <2> QED BY <2>1, <2>3, <2>4, <2>5, ServerStep
<1>4. ASSUME Deliver(k) PROVE TypeOK' /\ Shape'
  <2> DEFINE m == c.form.msg
             v == c.form.ver
  <2>1. /\ call' = [call EXCEPT ![k] = [c EXCEPT !.srv = "stored"]]
        /\ sent' = [sent EXCEPT ![m] = [sent[m] EXCEPT ![v] = sent[m][v] + 1]]
        /\ UNCHANGED <<window, drafts, nextUid, userVars>> /\ c.step = "sending"
    BY <1>4 DEF Deliver
  <2>2. m \in Msgs /\ v \in Vers
    BY <1>0, <2>1 DEF CallOK
  <2> HIDE DEF m, v
  <2>3. sent' \in [Msgs -> [Vers -> Nat]]
    BY <2>1, <2>2 DEF TypeOK
  <2>4. CallOK([c EXCEPT !.srv = "stored"])
    BY <1>0, <2>1, ServedOK DEF Progress
  <2>5. drafts' \in [Uids -> Form] /\ (\A u \in Uids : DraftOK(drafts'[u]))
        /\ nextUid' \in 1..(MaxUid + 1)
    BY <2>1 DEF TypeOK, Shape
  <2> QED BY <2>1, <2>3, <2>4, <2>5, ServerStep
<1>5. ASSUME Expunge(k) \/ Remove(k) PROVE TypeOK' /\ Shape'
  <2>1. /\ call' = [call EXCEPT ![k] = [c EXCEPT !.srv = "ok"]]
        /\ drafts' = Expunged(drafts, c.form.draft)
        /\ UNCHANGED <<window, nextUid, sent, userVars>>
    BY <1>5 DEF Expunge, Remove
  <2>2. CallOK([c EXCEPT !.srv = "ok"])
    BY <1>0, <1>5, ServedOK DEF Progress, CallOK, Expunge, Remove
  <2>3. drafts' \in [Uids -> Form] /\ (\A u \in Uids : DraftOK(drafts'[u]))
    BY <2>1, ExpungedOK
  <2>4. nextUid' \in 1..(MaxUid + 1) /\ sent' \in [Msgs -> [Vers -> Nat]]
    BY <2>1 DEF TypeOK
  <2> QED BY <2>1, <2>2, <2>3, <2>4, ServerStep
<1>6. ASSUME RequestFails(k) PROVE TypeOK' /\ Shape'
  <2>1. /\ call' = [call EXCEPT ![k] = [c EXCEPT !.srv = "error"]]
        /\ UNCHANGED <<window, serverVars, userVars>>
    BY <1>6 DEF RequestFails
  <2>2. CallOK([c EXCEPT !.srv = "error"])
    BY <1>0, <1>6, ServedOK DEF Progress, CallOK, RequestFails
  <2> QED BY <2>1, <2>2, <1>0, UserVarsOK, LocalStep
<1>7. ASSUME SaveAnswered(k) PROVE TypeOK' /\ Shape'
  <2>1. UNCHANGED serverVars /\ HistoryOK'
    BY <1>7, UserVarsOK DEF SaveAnswered
  <2>2. CASE c.goal = "stay"
    <3>1. window' = WithSaved(window, k) /\ call' = [call EXCEPT ![k] = Idle]
      BY <1>7, <2>2 DEF SaveAnswered
    <3>2. CallOK(Idle)
      BY IdleFields DEF CallOK, Opens
    <3> DEFINE f == [window.form EXCEPT !.draft = c.uid]
    <3>3. f \in Form /\ f.msg = window.form.msg
      BY <1>0, CallFields, WindowFields DEF Form
    <3> HIDE DEF f
    <3>4. WindowOK(window')
      BY <3>1, <3>3, <1>0 DEF WithSaved, WindowOK, WindowType, f
    <3> QED BY <3>1, <3>2, <3>4, <2>1, LocalStep
  <2>3. CASE c.goal # "stay"
    <3>1. window' = Closed /\ call' = [call EXCEPT ![k] = Folders(c.goal, c.next)]
      BY <1>7, <2>3 DEF SaveAnswered
    <3>2. CallOK(Folders(c.goal, c.next))
      BY <1>0, FoldersFields DEF CallOK
    <3> QED BY <3>1, <3>2, <2>1, ClosedFields, LocalStep DEF WindowOK
  <2> QED BY <2>2, <2>3
<1>8. ASSUME SendAnswered(k) PROVE TypeOK' /\ Shape'
  <2>1. UNCHANGED serverVars /\ HistoryOK' /\ c.step = "sending"
    BY <1>8, UserVarsOK DEF SendAnswered, Answered
  <2>2. CASE c.srv = "ok"
    <3>1. UNCHANGED window /\ call' = [call EXCEPT ![k] = Folders(c.goal, NoForm)]
      BY <1>8, <2>2 DEF SendAnswered
    <3>2. CallOK(Folders(c.goal, NoForm))
      BY <1>0, <2>1, FoldersFields, NoFormFields DEF CallOK, Opens
    <3> QED BY <3>1, <3>2, <2>1, <1>0, LocalStep
  <2>3. CASE c.srv # "ok"
    <3>1. OpenThen(k, c.form, "open") /\ c.form.msg \in Msgs
      BY <1>0, <1>8, <2>1, <2>3 DEF SendAnswered, CallOK
    <3> QED BY <3>1, <1>0, <2>1, OpenThenOK, LocalStep DEF Opens
  <2> QED BY <2>2, <2>3
<1>9. ASSUME RemoveAnswered(k) PROVE TypeOK' /\ Shape'
  <2>1. /\ window' = Closed /\ call' = [call EXCEPT ![k] = Folders("end", NoForm)]
        /\ UNCHANGED serverVars /\ HistoryOK'
    BY <1>9, UserVarsOK DEF RemoveAnswered
  <2>2. CallOK(Folders("end", NoForm))
    BY FoldersFields, NoFormFields DEF CallOK, Goals, Opens
  <2> QED BY <2>1, <2>2, ClosedFields, LocalStep DEF WindowOK
<1>10. ASSUME FoldersLoaded(k) PROVE TypeOK' /\ Shape'
  <2>1. call' = [call EXCEPT ![k] = Idle] /\ UNCHANGED serverVars /\ HistoryOK'
    BY <1>10, UserVarsOK DEF FoldersLoaded
  <2>2. CallOK(Idle)
    BY IdleFields DEF CallOK, Opens
  <2>3. WindowOK(window')
    <3>1. CASE c.goal \in Opens
      <4>1. window' = Assigned(c.next, c.goal = "reopen") /\ c.next.msg \in Msgs
        BY <1>0, <1>10, <3>1 DEF FoldersLoaded, Opens, CallOK
      <4> QED BY <4>1, <1>0, AssignedFields DEF WindowOK
    <3>2. CASE c.goal \notin Opens
      <4>1. window' \in {Closed, window}
        BY <1>10, <3>2 DEF FoldersLoaded, Opens
      <4> QED BY <4>1, <1>0, ClosedFields DEF WindowOK
    <3> QED BY <3>1, <3>2
  <2> QED BY <2>1, <2>2, <2>3, LocalStep
<1> QED
  BY <1>1, <1>2, <1>3, <1>4, <1>5, <1>6, <1>7, <1>8, <1>9, <1>10 DEF CallStep

LEMMA TypeStep ==
  ASSUME TypeOK, Shape, [Next]_vars
  PROVE  TypeOK' /\ Shape'
<1>1. CASE Next
  BY <1>1, UserTypes, CallTypes DEF Next
<1>2. CASE UNCHANGED vars
  <2>1. /\ window' = window /\ call' = call /\ drafts' = drafts /\ nextUid' = nextUid
        /\ latest' = latest /\ discarded' = discarded /\ submitted' = submitted
        /\ sent' = sent /\ undone' = undone
    BY <1>2 DEF vars
  <2> QED BY <2>1 DEF TypeOK, Shape, Uids, Vers
<1> QED BY <1>1, <1>2

\* The type invariant of the run "compose".
THEOREM TypeCorrect == Spec => []TypeOK
<1>1. Init => TypeOK /\ Shape
  BY InitOK
<1>2. TypeOK /\ Shape /\ [Next]_vars => (TypeOK /\ Shape)'
  BY TypeStep
<1> QED BY <1>1, <1>2, PTL DEF Spec

----------------------------------------------------------------------------
(* What is delivered was submitted: a submission waits, then is delivered or *)
(* dropped, and only the user makes another.                                *)

\* A step that neither submits nor delivers: the call it changes waits no more.
Passive(k, x) ==
  /\ call' = [call EXCEPT ![k] = x]
  /\ UNCHANGED <<sent, submitted>>
  /\ x.step \in {"pending", "sending"} =>
       call[k].step = "sending" /\ x.step = "sending" /\ x.srv # "asked" /\ UNCHANGED undone
  /\ "late" \notin Faults => undone' \subseteq undone \union {k}

LEMMA UserPassive ==
  ASSUME TypeOK, Shape, UserStep \/ AutosaveTimeout
  PROVE  \/ Send
         \/ UNCHANGED <<call, sent, submitted, undone>>
         \/ \E k \in Calls, x \in CallType : Passive(k, x)
<1>0. WindowOK(window) /\ window \in WindowType /\ window.form \in Form
  BY WindowFields DEF Shape, WindowOK
<1> DEFINE Goal == \E k \in Calls, x \in CallType : Passive(k, x)
<1>1. ASSUME NEW m \in Msgs, New(m) PROVE Goal
  <2> DEFINE f == [NoForm EXCEPT !.msg = m]
  <2>1. f \in Form
    BY NoFormFields, BoundsAssumption DEF NoForm, Form
  <2>2. PICK k \in Calls : call' = [call EXCEPT ![k] = Opening(f)]
    BY <1>1 DEF New
  <2> HIDE DEF f
  <2>3. Passive(k, Opening(f)) /\ Opening(f) \in CallType
    BY <1>1, <2>1, <2>2, OpeningFields DEF Passive, New, serverVars, userVars
  <2> QED BY <2>3
<1>2. ASSUME NEW u \in Uids, OpenDraft(u) PROVE Goal
  <2> DEFINE f == [drafts[u] EXCEPT !.draft = u]
  <2>1. f \in Form
    <3>1. drafts[u] \in Form /\ u \in 0..MaxUid
      BY BoundsAssumption DEF TypeOK, Uids
    <3> QED BY <3>1 DEF Form
  <2>2. PICK k \in Calls : call' = [call EXCEPT ![k] = Opening(f)]
    BY <1>2 DEF OpenDraft
  <2> HIDE DEF f
  <2>3. Passive(k, Opening(f)) /\ Opening(f) \in CallType
    BY <1>2, <2>1, <2>2, OpeningFields DEF Passive, OpenDraft, serverVars, userVars
  <2> QED BY <2>3
<1>3. ASSUME CloseWindow PROVE Goal
  <2>1. PICK k \in Calls : CloseThen(k, "end", NoForm)
    BY <1>3 DEF CloseWindow
  <2>2. PICK x : call' = [call EXCEPT ![k] = x] /\ CallOK(x) /\ x.step \in {"saving", "folders"}
    BY <1>3, <2>1, CloseThenOK, NoFormFields DEF CloseWindow, Goals, Opens
  <2>3. Passive(k, x) /\ x \in CallType
    BY <1>3, <2>2 DEF Passive, CloseWindow, serverVars, userVars, CallOK
  <2> QED BY <2>3
<1>4. ASSUME Discard PROVE Goal
  <2>1. UNCHANGED <<sent, submitted, undone>>
    BY <1>4 DEF Discard, serverVars
  <2>2. PICK k \in Calls :
          \/ call' = [call EXCEPT ![k] = Chain("removing", "none", window.form, NoForm, "asked")]
          \/ call' = [call EXCEPT ![k] = Folders("end", NoForm)]
    BY <1>4 DEF Discard
  <2> DEFINE x == Chain("removing", "none", window.form, NoForm, "asked")
             y == Folders("end", NoForm)
  <2>3. x \in CallType /\ x.step = "removing"
    <3>1. "removing" \in Steps /\ "none" \in Goals /\ "asked" \in Progress
      BY DEF Steps, Goals, Progress
    <3> QED BY <3>1, <1>0, ChainFields, NoFormFields
  <2>4. y \in CallType /\ y.step = "folders"
    BY FoldersFields, NoFormFields DEF Goals
  <2>5. call' = [call EXCEPT ![k] = x] \/ call' = [call EXCEPT ![k] = y]
    BY <2>2
  <2> HIDE DEF x, y
  <2>6. Passive(k, x) \/ Passive(k, y)
    BY <2>1, <2>3, <2>4, <2>5 DEF Passive
  <2> QED BY <2>3, <2>4, <2>6
<1>5. ASSUME NEW k \in Calls, Cancel(k) PROVE Goal
  <2>1. OpenThen(k, call[k].form, "reopen") /\ undone' = undone \union {k}
        /\ UNCHANGED <<sent, submitted>>
    BY <1>5 DEF Cancel, serverVars
  <2>2. call[k].form \in Form /\ call[k].form.msg \in Msgs
    BY <1>5, CallFields DEF Cancel, Shape, CallOK
  <2>3. PICK x : /\ call' = [call EXCEPT ![k] = x] /\ CallOK(x)
                 /\ x.step \in {"saving", "folders", "idle"}
    BY <2>1, <2>2, OpenThenOK DEF Opens
  <2>4. Passive(k, x) /\ x \in CallType
    BY <2>1, <2>3 DEF Passive, CallOK
  <2> QED BY <2>4
<1>6. ASSUME NEW k \in Calls, LateCancel(k) PROVE Goal
  <2>1. PICK j \in Calls : OpenThen(j, call[k].form, "reopen")
    BY <1>6 DEF LateCancel
  <2>2. call[k].form \in Form /\ call[k].form.msg \in Msgs
    BY <1>6, CallFields DEF LateCancel, Shape, CallOK
  <2>3. PICK x : /\ call' = [call EXCEPT ![j] = x] /\ CallOK(x)
                 /\ x.step \in {"saving", "folders", "idle"}
    BY <2>1, <2>2, OpenThenOK DEF Opens
  <2>4. Passive(j, x) /\ x \in CallType
    BY <1>6, <2>3 DEF Passive, CallOK, LateCancel, serverVars
  <2> QED BY <2>4
<1>7. ASSUME AutosaveTimeout PROVE Goal \/ UNCHANGED <<call, sent, submitted, undone>>
  <2>1. UNCHANGED <<sent, submitted, undone>>
    BY <1>7 DEF AutosaveTimeout, serverVars, userVars
  <2>2. UNCHANGED call \/ \E k \in Calls : call' = [call EXCEPT ![k] = Saving(window.form, "stay", NoForm)]
    BY <1>7 DEF AutosaveTimeout
  <2> DEFINE x == Saving(window.form, "stay", NoForm)
  <2>3. x \in CallType /\ x.step = "saving"
    BY <1>0, SavingFields, NoFormFields DEF Goals
  <2>4. UNCHANGED call \/ \E k \in Calls : call' = [call EXCEPT ![k] = x]
    BY <2>2
  <2> HIDE DEF x
  <2> QED BY <2>1, <2>3, <2>4 DEF Passive
<1>8. ASSUME Edit PROVE UNCHANGED <<call, sent, submitted, undone>>
  BY <1>8 DEF Edit, serverVars
<1> QED BY <1>1, <1>2, <1>3, <1>4, <1>5, <1>6, <1>7, <1>8 DEF UserStep

LEMMA CallPassive ==
  ASSUME TypeOK, Shape, NEW k \in Calls, CallStep(k)
  PROVE  UndoTimeout(k) \/ Deliver(k) \/ \E x \in CallType : Passive(k, x)
<1> DEFINE c == call[k]
           Goal == \E x \in CallType : Passive(k, x)
<1>0. CallOK(c) /\ c \in CallType /\ c.form \in Form /\ c.next \in Form /\ c.goal \in Goals
  BY CallFields DEF Shape, CallOK
<1>1. ASSUME Loaded(k) \/ SendAnswered(k) PROVE Goal
  <2>1. UNCHANGED <<sent, submitted, undone>>
    BY <1>1 DEF Loaded, SendAnswered, serverVars, userVars
  <2>2. CASE \E f \in {c.form, c.next} : f.msg \in Msgs /\ OpenThen(k, f, "open")
    <3>1. PICK x : /\ call' = [call EXCEPT ![k] = x] /\ CallOK(x)
                   /\ x.step \in {"saving", "folders", "idle"}
      BY <1>0, <2>2, OpenThenOK DEF Opens
    <3>2. Passive(k, x) /\ x \in CallType
      BY <2>1, <3>1 DEF Passive, CallOK
    <3> QED BY <3>2
  <2>3. CASE call' = [call EXCEPT ![k] = Idle]
    BY <2>1, <2>3, IdleFields DEF Passive
  <2>4. CASE call' = [call EXCEPT ![k] = Folders(c.goal, NoForm)]
    BY <1>0, <2>1, <2>4, FoldersFields, NoFormFields DEF Passive
  <2>5. Loaded(k) => c.next.msg \in Msgs
    BY <1>0 DEF CallOK, Loaded
  <2>6. SendAnswered(k) => c.form.msg \in Msgs
    BY <1>0 DEF CallOK, SendAnswered, Answered
  <2> QED BY <1>1, <2>2, <2>3, <2>4, <2>5, <2>6 DEF Loaded, SendAnswered
<1>2. ASSUME SaveAnswered(k) \/ RemoveAnswered(k) \/ FoldersLoaded(k) PROVE Goal
  <2>1. UNCHANGED <<sent, submitted, undone>>
    BY <1>2 DEF SaveAnswered, RemoveAnswered, FoldersLoaded, serverVars, userVars
  <2>2. \/ call' = [call EXCEPT ![k] = Idle]
        \/ call' = [call EXCEPT ![k] = Folders(c.goal, c.next)]
        \/ call' = [call EXCEPT ![k] = Folders("end", NoForm)]
    BY <1>2 DEF SaveAnswered, RemoveAnswered, FoldersLoaded
  <2>3. Passive(k, Idle) \/ Passive(k, Folders(c.goal, c.next)) \/ Passive(k, Folders("end", NoForm))
    BY <1>0, <2>1, <2>2, IdleFields, FoldersFields, NoFormFields DEF Passive, Goals
  <2> QED BY <1>0, <2>3, IdleFields, FoldersFields, NoFormFields DEF Goals
<1>3. ASSUME Append(k) PROVE Goal
  <2>1. nextUid \in 0..MaxUid /\ call' = [call EXCEPT ![k] = Stored(c, nextUid)]
        /\ c.step = "saving" /\ UNCHANGED <<sent, submitted, undone>>
    BY <1>3, BoundsAssumption DEF Append, TypeOK, userVars
  <2>2. Stored(c, nextUid) \in CallType /\ Stored(c, nextUid).step = "saving"
    BY <1>0, <2>1, StoredFields
  <2> QED BY <2>1, <2>2 DEF Passive
<1>4. ASSUME Expunge(k) \/ Remove(k) \/ RequestFails(k) PROVE Goal
  <2>1. PICK srv \in {"ok", "error"} : call' = [call EXCEPT ![k] = [c EXCEPT !.srv = srv]]
    BY <1>4 DEF Expunge, Remove, RequestFails
  <2>2. UNCHANGED <<sent, submitted, undone>>
    BY <1>4 DEF Expunge, Remove, RequestFails, serverVars, userVars
  <2> DEFINE x == [c EXCEPT !.srv = srv]
  <2>3. x \in CallType /\ x.step = c.step /\ x.srv = srv
    <3>1. srv \in Progress
      BY DEF Progress
    <3> QED BY <1>0, <3>1, SrvFields
  <2>4. c.step # "pending"
    BY <1>0, <1>4 DEF Expunge, Remove, RequestFails, CallOK
  <2> HIDE DEF x
  <2>5. Passive(k, x)
    BY <2>1, <2>2, <2>3, <2>4 DEF Passive, x
  <2> QED BY <2>3, <2>5
<1> QED BY <1>1, <1>2, <1>3, <1>4 DEF CallStep

\* The submissions of a version, when one call changes.
LEMMA SubmissionsOf ==
  ASSUME TypeOK, SentInv, NEW k \in Calls, NEW x, call' = [call EXCEPT ![k] = x],
         NEW m \in Msgs, NEW v \in Vers
  PROVE  LET n == Cardinality(Waiting(call, m, v))
             n1 == Cardinality(Waiting(call', m, v))
         IN  /\ IsFiniteSet(Waiting(call', m, v))
             /\ n \in Nat /\ n1 \in Nat
             /\ n1 <= n + 1
             /\ Waits(call[k], m, v) /\ ~Waits(x, m, v) => n1 = n - 1
             /\ Waits(call[k], m, v) \/ ~Waits(x, m, v) => n1 <= n
<1>0. Waiting(call', m, v)
        = IF Waits(x, m, v) THEN Waiting(call, m, v) \union {k} ELSE Waiting(call, m, v) \ {k}
  <2>1. \A j \in Calls : call'[j] = IF j = k THEN x ELSE call[j]
    BY DEF TypeOK
  <2> QED BY <2>1 DEF Waiting
<1> DEFINE S == Waiting(call, m, v)
           T == Waiting(call', m, v)
<1>1. IsFiniteSet(S) /\ Cardinality(S) \in Nat
  BY FS_CardinalityType DEF SentInv
<1>2. T = IF Waits(x, m, v) THEN S \union {k} ELSE S \ {k}
  BY <1>0
<1>3. k \in S <=> Waits(call[k], m, v)
  BY DEF Waiting
<1> HIDE DEF S, T
<1>4. CASE Waits(x, m, v)
  <2>1. /\ IsFiniteSet(T)
        /\ Cardinality(T) = IF k \in S THEN Cardinality(S) ELSE Cardinality(S) + 1
    BY <1>1, <1>2, <1>4, FS_AddElement
  <2> QED BY <1>1, <1>3, <1>4, <2>1 DEF S, T
<1>5. CASE ~Waits(x, m, v)
  <2>1. /\ IsFiniteSet(T)
        /\ Cardinality(T) = IF k \in S THEN Cardinality(S) - 1 ELSE Cardinality(S)
    BY <1>1, <1>2, <1>5, FS_RemoveElement
  <2>2. Cardinality(T) \in Nat
    BY <2>1, FS_CardinalityType
  <2> QED BY <1>1, <1>3, <1>5, <2>1, <2>2 DEF S, T
<1> QED BY <1>4, <1>5

LEMMA SentStep ==
  ASSUME TypeOK, Shape, SentInv, [Next]_vars
  PROVE  SentInv'
<1> USE DEF Vers
<1>1. ASSUME NEW k \in Calls, NEW x \in CallType, Passive(k, x) PROVE SentInv'
  <2> SUFFICES ASSUME NEW m \in Msgs, NEW v \in Vers
               PROVE  /\ IsFiniteSet(Waiting(call', m, v))
                      /\ sent'[m][v] + Cardinality(Waiting(call', m, v)) <= submitted'[m][v]
    BY DEF SentInv
  <2>1. ~Waits(x, m, v)
    BY <1>1 DEF Passive, Waits
  <2>2. sent[m][v] \in Nat /\ submitted[m][v] \in Nat /\ sent' = sent /\ submitted' = submitted
    BY <1>1, BoundsAssumption DEF Passive, TypeOK
  <2>3. call' = [call EXCEPT ![k] = x]
    BY <1>1 DEF Passive
  <2>4. IsFiniteSet(Waiting(call', m, v)) /\ Cardinality(Waiting(call, m, v)) \in Nat
        /\ Cardinality(Waiting(call', m, v)) \in Nat
        /\ Cardinality(Waiting(call', m, v)) <= Cardinality(Waiting(call, m, v))
    BY <2>1, <2>3, SubmissionsOf
  <2>5. sent[m][v] + Cardinality(Waiting(call, m, v)) <= submitted[m][v]
    BY DEF SentInv
  <2> QED BY <2>2, <2>4, <2>5
<1>2. ASSUME UNCHANGED <<call, sent, submitted>> PROVE SentInv'
  BY <1>2 DEF SentInv, Waiting
<1>3. ASSUME NEW k \in Calls, UndoTimeout(k) PROVE SentInv'
  <2> DEFINE x == Sending(call[k].form, "end")
  <2>1. call' = [call EXCEPT ![k] = x] /\ call[k].step = "pending" /\ UNCHANGED <<sent, submitted>>
    BY <1>3 DEF UndoTimeout, serverVars, userVars
  <2>2. x.form = call[k].form
    BY CallFields, SendingFields DEF TypeOK, Goals
  <2> SUFFICES ASSUME NEW m \in Msgs, NEW v \in Vers
               PROVE  /\ IsFiniteSet(Waiting(call', m, v))
                      /\ sent'[m][v] + Cardinality(Waiting(call', m, v)) <= submitted'[m][v]
    BY DEF SentInv
  <2> HIDE DEF x
  <2>3. Waits(x, m, v) => Waits(call[k], m, v)
    BY <2>1, <2>2 DEF Waits
  <2>4. IsFiniteSet(Waiting(call', m, v)) /\ Cardinality(Waiting(call, m, v)) \in Nat
        /\ Cardinality(Waiting(call', m, v)) \in Nat
        /\ Cardinality(Waiting(call', m, v)) <= Cardinality(Waiting(call, m, v))
    BY <2>1, <2>3, SubmissionsOf
  <2>5. sent[m][v] + Cardinality(Waiting(call, m, v)) <= submitted[m][v]
    BY DEF SentInv
  <2>6. sent[m][v] \in Nat /\ submitted[m][v] \in Nat
    BY BoundsAssumption DEF TypeOK
  <2> QED BY <2>1, <2>4, <2>5, <2>6
<1>4. ASSUME NEW k \in Calls, Deliver(k) PROVE SentInv'
  <2> DEFINE f == call[k].form
             x == [call[k] EXCEPT !.srv = "stored"]
  <2>1. /\ call' = [call EXCEPT ![k] = x] /\ submitted' = submitted
        /\ sent' = [sent EXCEPT ![f.msg] = [sent[f.msg] EXCEPT ![f.ver] = sent[f.msg][f.ver] + 1]]
        /\ call[k].step = "sending" /\ call[k].srv = "asked"
    BY <1>4 DEF Deliver, userVars
  <2>2. x.srv = "stored" /\ x.step = "sending"
    BY <2>1, SrvFields DEF TypeOK, Progress
  <2>3. f.msg \in Msgs /\ f.ver \in Vers
    BY <2>1 DEF Shape, CallOK
  <2> SUFFICES ASSUME NEW m \in Msgs, NEW v \in Vers
               PROVE  /\ IsFiniteSet(Waiting(call', m, v))
                      /\ sent'[m][v] + Cardinality(Waiting(call', m, v)) <= submitted'[m][v]
    BY DEF SentInv
  <2>4. ~Waits(x, m, v) /\ (Waits(call[k], m, v) <=> f.msg = m /\ f.ver = v)
    BY <2>1, <2>2 DEF Waits, Holds
  <2> HIDE DEF x, f
  <2>5. /\ IsFiniteSet(Waiting(call', m, v))
        /\ Cardinality(Waiting(call, m, v)) \in Nat /\ Cardinality(Waiting(call', m, v)) \in Nat
        /\ (f.msg = m /\ f.ver = v) => Cardinality(Waiting(call', m, v)) = Cardinality(Waiting(call, m, v)) - 1
        /\ Cardinality(Waiting(call', m, v)) <= Cardinality(Waiting(call, m, v))
    BY <2>1, <2>4, SubmissionsOf
  <2>6. sent[m][v] + Cardinality(Waiting(call, m, v)) <= submitted[m][v]
    BY DEF SentInv
  <2>7. sent[m][v] \in Nat /\ submitted[m][v] \in Nat
    BY BoundsAssumption DEF TypeOK
  <2>8. sent'[m][v] = IF f.msg = m /\ f.ver = v THEN sent[m][v] + 1 ELSE sent[m][v]
    BY <2>1, <2>3 DEF TypeOK
  <2> QED BY <2>1, <2>5, <2>6, <2>7, <2>8
<1>5. ASSUME Send PROVE SentInv'
  <2> DEFINE f == window.form
  <2>1. /\ sent' = sent
        /\ submitted' = [submitted EXCEPT ![f.msg] = [submitted[f.msg] EXCEPT ![f.ver] = submitted[f.msg][f.ver] + 1]]
        /\ f.ver > 0 /\ window.open
    BY <1>5 DEF Send, serverVars
  <2>2. f.msg \in Msgs /\ f.ver \in Vers /\ f \in Form
    BY <2>1, WindowFields, FormFields, BoundsAssumption DEF Shape, WindowOK
  <2>3. PICK k \in Calls : \E x \in CallType : x.form = f /\ call' = [call EXCEPT ![k] = x]
    <3>1. /\ Chain("pending", "none", f, NoForm, "none") \in CallType
          /\ Chain("pending", "none", f, NoForm, "none").form = f
      <4>1. "pending" \in Steps /\ "none" \in Goals /\ "none" \in Progress
        BY DEF Steps, Goals, Progress
      <4> QED BY <4>1, <2>2, ChainFields, NoFormFields
    <3>2. Sending(f, "reset") \in CallType /\ Sending(f, "reset").form = f
      BY <2>2, SendingFields DEF Goals
    <3> QED BY <1>5, <3>1, <3>2 DEF Send
  <2>4. PICK x \in CallType : x.form = f /\ call' = [call EXCEPT ![k] = x]
    BY <2>3
  <2> SUFFICES ASSUME NEW m \in Msgs, NEW v \in Vers
               PROVE  /\ IsFiniteSet(Waiting(call', m, v))
                      /\ sent'[m][v] + Cardinality(Waiting(call', m, v)) <= submitted'[m][v]
    BY DEF SentInv
  <2>5. Waits(x, m, v) => f.msg = m /\ f.ver = v
    BY <2>4 DEF Waits, Holds
  <2> HIDE DEF f
  <2>6. /\ IsFiniteSet(Waiting(call', m, v))
        /\ Cardinality(Waiting(call, m, v)) \in Nat /\ Cardinality(Waiting(call', m, v)) \in Nat
        /\ Cardinality(Waiting(call', m, v)) <= Cardinality(Waiting(call, m, v)) + 1
        /\ ~(f.msg = m /\ f.ver = v) => Cardinality(Waiting(call', m, v)) <= Cardinality(Waiting(call, m, v))
    BY <2>4, <2>5, SubmissionsOf
  <2>7. sent[m][v] + Cardinality(Waiting(call, m, v)) <= submitted[m][v]
    BY DEF SentInv
  <2>8. sent[m][v] \in Nat /\ submitted[m][v] \in Nat
    BY BoundsAssumption DEF TypeOK
  <2>9. submitted'[m][v] = IF f.msg = m /\ f.ver = v THEN submitted[m][v] + 1 ELSE submitted[m][v]
    BY <2>1, <2>2 DEF TypeOK
  <2> QED BY <2>1, <2>6, <2>7, <2>8, <2>9
<1> QED
  BY <1>1, <1>2, <1>3, <1>4, <1>5, UserPassive, CallPassive DEF Next, vars

LEMMA UndoneStep ==
  ASSUME TypeOK, Shape, UndoneInv, [Next]_vars
  PROVE  UndoneInv'
<1> SUFFICES ASSUME "late" \notin Faults, NEW j \in undone'
             PROVE  call'[j].step \notin {"pending", "sending"}
  BY DEF UndoneInv
<1>1. CASE UNCHANGED <<call, undone>>
  BY <1>1 DEF UndoneInv
<1>2. ASSUME NEW k \in Calls, NEW x \in CallType, Passive(k, x)
      PROVE  call'[j].step \notin {"pending", "sending"}
  <2>1. call' = [call EXCEPT ![k] = x] /\ undone' \subseteq undone \union {k}
    BY <1>2 DEF Passive
  <2>2. CASE j = k
    BY <1>2, <2>1, <2>2 DEF Passive, UndoneInv, TypeOK
  <2>3. CASE j # k
    BY <2>1, <2>3 DEF UndoneInv, TypeOK
  <2> QED BY <2>2, <2>3
<1>3. ASSUME NEW k \in Calls, UndoTimeout(k) \/ Deliver(k)
      PROVE  call'[j].step \notin {"pending", "sending"}
  <2>1. j \in undone /\ call[k].step \in {"pending", "sending"}
    BY <1>3 DEF UndoTimeout, Deliver, userVars
  <2>2. j # k /\ call'[j] = call[j]
    BY <1>3, <2>1 DEF UndoneInv, UndoTimeout, Deliver, TypeOK
  <2> QED BY <2>1, <2>2 DEF UndoneInv
<1>4. ASSUME Send PROVE call'[j].step \notin {"pending", "sending"}
  <2>1. PICK k \in Calls : undone' = undone \ {k} /\ \E x : call' = [call EXCEPT ![k] = x]
    BY <1>4 DEF Send
  <2> QED BY <2>1 DEF UndoneInv, TypeOK
<1> QED
  BY <1>1, <1>2, <1>3, <1>4, UserPassive, CallPassive DEF Next, vars

----------------------------------------------------------------------------
(* With a user who waits and no failure, a step of the window or of a call  *)
(* moves forms between the places of that call and the window.              *)

\* A form that is the last version of its message, and replaces its only draft.
Good(f) ==
  f.msg \in Msgs =>
    /\ f.ver = latest[f.msg]
    /\ f.draft # 0 => f.draft < nextUid /\ drafts[f.draft].msg \in {NoMsg, f.msg}
    /\ \A u \in Uids : drafts[u].msg = f.msg => u = f.draft
OneDraft ==
  \A t, u \in Uids : drafts[u].msg \in Msgs /\ drafts[t].msg = drafts[u].msg => t = u

\* Nothing is lost when message m leaves its place.
MayLeave(m) ==
  /\ \A u \in Uids : drafts[u].msg = m => drafts[u].ver = latest[m]
  /\ latest[m] > 0 =>
       m \in discarded' \/ sent[m][latest[m]] > 0 \/ \E u \in Uids : Holds(drafts[u], m, latest[m])

LEMMA PlaceTypes ==
  ASSUME TypeOK, Shape
  PROVE  Win \in Form /\ \A j \in Calls : Mine(j) \in Form /\ Nxt(j) \in Form
BY CallFields, WindowFields, NoFormFields DEF TypeOK, Win, Mine, Nxt, Shape, WindowOK

LEMMA NoMsgIsNone == NoMsg \notin Msgs
  BY NullAssumption

\* What the invariant says of the other forms, when only call k may be busy.
LEMMA Others ==
  ASSUME TypeOK, Shape, CarefulInv, NEW k \in Calls, \A j \in Calls \ {k} : ~Busy(j),
         call[k].srv # "stored"
  PROVE  /\ \A j \in Calls \ {k} : Good(Mine(j)) /\ Good(Nxt(j))
         /\ OneDraft
         /\ Good(Mine(k)) /\ Good(Nxt(k))
         /\ ~(call[k].step = "saving" /\ call[k].srv = "ok") => Good(Win)
         /\ \A m \in Msgs, v \in Vers : sent[m][v] > 0 =>
              /\ \A u \in Uids : drafts[u].msg # m
              /\ \A j \in Calls \ {k} : Mine(j).msg # m /\ Nxt(j).msg # m
<1>0. \A j \in Calls \ {k} : call[j].step \notin Requests
  BY DEF Busy
<1>1. \A j \in Calls : call[j].step \in Requests => j = k
  BY <1>0
<1>2. /\ Unique /\ FormsOK /\ DraftsInv /\ SentGone /\ CallShape(k)
  BY DEF CarefulInv, Shapes
<1>3. call[k].step = "saving" => call[k].form = Win
  BY <1>2 DEF CallShape, Win
<1>4. \A u \in Uids : \A m : Replacing(u, m) =>
        call[k].step = "saving" /\ call[k].srv = "ok" /\ Win.msg = m
  BY <1>1, <1>3 DEF Replacing, Requests
<1>5. \A j \in Calls : Good(Mine(j)) /\ Good(Nxt(j))
  <2> SUFFICES ASSUME NEW j \in Calls, NEW f \in {Mine(j), Nxt(j)}
               PROVE  Good(f)
    OBVIOUS
  <2>1. FormOK(f)
    BY <1>2 DEF FormsOK
  <2>2. f.msg \in Msgs => f.msg # Win.msg
    BY <1>2 DEF Unique
  <2> QED BY <1>4, <2>1, <2>2 DEF FormOK, Good
<1>6. ~(call[k].step = "saving" /\ call[k].srv = "ok") => Good(Win)
  BY <1>2, <1>4 DEF FormsOK, FormOK, Good
<1>7. OneDraft
  <2>1. \A j \in Calls : ~(call[j].step = "saving" /\ call[j].srv = "stored")
    BY <1>1 DEF Requests
  <2> QED BY <1>2, <2>1 DEF DraftsInv, OneDraft
<1>8. ASSUME NEW m \in Msgs, NEW v \in Vers, sent[m][v] > 0
      PROVE  /\ \A u \in Uids : drafts[u].msg # m
             /\ \A j \in Calls \ {k} : Mine(j).msg # m /\ Nxt(j).msg # m
  <2>1. \A j \in Calls : ~(call[j].step = "sending" /\ call[j].srv = "stored")
    BY <1>1 DEF Requests
  <2>2. \A u \in Uids : drafts[u].msg # m
    BY <1>2, <1>8, <2>1 DEF SentGone
  <2>3. ASSUME NEW j \in Calls \ {k}, Mine(j).msg = m \/ Nxt(j).msg = m PROVE FALSE
    <3>1. Live(m)
      BY <2>3 DEF Live
    <3>2. PICK i \in Calls :
            \/ call[i].step = "sending" /\ call[i].srv \in {"stored", "ok"} /\ call[i].form.msg = m
            \/ call[i].step = "folders" /\ call[i].goal = "reset" /\ Win.msg = m
      BY <1>2, <1>8, <3>1 DEF SentGone
    <3>3. i = k
      BY <1>1, <3>2 DEF Requests
    <3>4. CASE Win.msg = m
      BY <1>2, <2>3, <3>4 DEF Unique
    <3>5. CASE call[k].step = "sending" /\ call[k].form.msg = m /\ Win.msg # m
      <4>1. call[k].goal = "end"
        BY <1>2, <3>5 DEF CallShape, Win
      <4>2. Mine(k).msg = m
        BY <3>5, <4>1 DEF Mine, Left
      <4> QED BY <1>2, <2>3, <4>2 DEF Unique
    <3> QED BY <3>2, <3>3, <3>4, <3>5
  <2> QED BY <2>2, <2>3
<1> QED BY <1>5, <1>6, <1>7, <1>8

\* A move: every form of the three places comes from them, or is a good form of
\* a message that has no place; none is in two places; one that leaves may.
LEMMA Moves ==
  ASSUME TypeOK, Shape, CarefulInv, NEW k \in Calls, \A j \in Calls \ {k} : ~Busy(j),
         call[k].srv # "stored",
         NEW x, call' = [call EXCEPT ![k] = x],
         UNCHANGED <<drafts, nextUid, sent, latest>>, discarded \subseteq discarded',
         x.srv \in {"none", "asked"},
         ~window'.open => window' = Closed,
         CallShape(k)',
         \A f \in {Win', Mine(k)', Nxt(k)'} : f.msg \in Msgs =>
           /\ Good(f)
           /\ ~Live(f.msg) \/ f.msg \in {Win.msg, Mine(k).msg, Nxt(k).msg}
           /\ \A v \in Vers : sent[f.msg][v] > 0 =>
                x.step = "folders" /\ x.goal = "reset" /\ Win'.msg = f.msg,
         Win'.msg \in Msgs => Mine(k)'.msg # Win'.msg /\ Nxt(k)'.msg # Win'.msg,
         Mine(k)'.msg \in Msgs => Nxt(k)'.msg # Mine(k)'.msg,
         \A f \in {Win, Mine(k), Nxt(k)} : f.msg \in Msgs =>
           f.msg \in {Win'.msg, Mine(k)'.msg, Nxt(k)'.msg} \/ MayLeave(f.msg),
         window'.open /\ ~window'.dirty /\ Win'.ver > 0 =>
           InDraft(Win') \/ sent[Win'.msg][Win'.ver] > 0 \/ x.step = "removing",
         x.goal = "open" /\ Nxt(k)'.ver > 0 => InDraft(Nxt(k)')
  PROVE  CarefulInv'
<1>0. /\ drafts' = drafts /\ nextUid' = nextUid /\ sent' = sent /\ latest' = latest
      /\ call'[k] = x /\ \A j \in Calls \ {k} : call'[j] = call[j]
  BY DEF TypeOK
<1>1. \A j \in Calls \ {k} : Mine(j)' = Mine(j) /\ Nxt(j)' = Nxt(j)
  BY <1>0 DEF Mine, Nxt, Left
<1>2. \A j \in Calls \ {k} : call[j].step \notin Requests
  BY DEF Busy
<1>3. /\ \A j \in Calls \ {k} : Good(Mine(j)) /\ Good(Nxt(j))
      /\ OneDraft
      /\ \A m \in Msgs, v \in Vers : sent[m][v] > 0 =>
           /\ \A u \in Uids : drafts[u].msg # m
           /\ \A j \in Calls \ {k} : Mine(j).msg # m /\ Nxt(j).msg # m
  BY Others
<1>4. Unique /\ FormsOK /\ DraftsInv /\ SentGone /\ Shapes /\ SavedInv /\ KeptInv /\ ServedInv
  BY DEF CarefulInv
<1>5. /\ Win \in Form /\ \A j \in Calls : Mine(j) \in Form /\ Nxt(j) \in Form
  BY PlaceTypes
<1>6. \A m \in Msgs : Live(m) <=> \/ m \in {Win.msg, Mine(k).msg, Nxt(k).msg}
                                 \/ \E j \in Calls \ {k} : Mine(j).msg = m \/ Nxt(j).msg = m
  BY DEF Live
<1>7. \A m \in Msgs : Live(m)' <=> \/ m \in {Win'.msg, Mine(k)'.msg, Nxt(k)'.msg}
                                  \/ \E j \in Calls \ {k} : Mine(j).msg = m \/ Nxt(j).msg = m
  BY <1>1 DEF Live
\* The messages of the other calls are not those of the three places.
<1>8. \A j \in Calls \ {k}, f \in {Win', Mine(k)', Nxt(k)'} :
        f.msg \in Msgs => Mine(j).msg # f.msg /\ Nxt(j).msg # f.msg
  <2> SUFFICES ASSUME NEW j \in Calls \ {k}, NEW f \in {Win', Mine(k)', Nxt(k)'}, f.msg \in Msgs,
                      Mine(j).msg = f.msg \/ Nxt(j).msg = f.msg
               PROVE  FALSE
    OBVIOUS
  <2>1. Live(f.msg)
    BY DEF Live
  <2>2. f.msg \in {Win.msg, Mine(k).msg, Nxt(k).msg}
    BY <2>1
  <2> QED BY <1>4, <2>2 DEF Unique
<1>9. OneBusy'
  BY <1>0, <1>2 DEF OneBusy, Busy
<1>10. Shapes'
  <2>1. ASSUME NEW j \in Calls \ {k} PROVE CallShape(j)'
    <3>1. call'[j] = call[j] /\ call[j].step \notin Requests /\ CallShape(j)
      BY <1>0, <1>2, <1>4 DEF Shapes
    <3> QED BY <3>1 DEF CallShape, Requests
  <2> QED BY <2>1 DEF Shapes
<1>11. Unique'
  BY <1>1, <1>4, <1>8 DEF Unique
<1>12. FormsOK'
  <2>1. ASSUME NEW f, Good(f) PROVE FormOK(f)'
    BY <1>0, <2>1 DEF Good, FormOK
  <2>2. Good(Win') /\ Good(Mine(k)') /\ Good(Nxt(k)')
    BY DEF Good
  <2>3. FormOK(Win)' /\ FormOK(Mine(k))' /\ FormOK(Nxt(k))'
    BY <2>2, <1>0 DEF Good, FormOK
  <2>4. \A j \in Calls \ {k} : FormOK(Mine(j))' /\ FormOK(Nxt(j))'
    BY <1>0, <1>1, <1>3 DEF Good, FormOK
  <2> QED BY <2>3, <2>4 DEF FormsOK
<1>13. DraftsInv'
  <2>1. \A t, u \in Uids : drafts[u].msg \in Msgs /\ drafts[t].msg = drafts[u].msg => t = u
    BY <1>3 DEF OneDraft
  <2>2. ASSUME NEW u \in Uids, NEW m \in Msgs, drafts[u].msg = m, ~Live(m)'
        PROVE  drafts[u].ver = latest[m]
    <3>1. CASE ~Live(m)
      BY <1>4, <2>2, <3>1 DEF DraftsInv
    <3>2. CASE Live(m)
      <4>1. MayLeave(m)
        BY <1>6, <1>7, <2>2, <3>2
      <4> QED BY <2>2, <4>1 DEF MayLeave
    <3> QED BY <3>1, <3>2
  <2>3. /\ \A u \in Uids : u >= nextUid => drafts[u] = NoForm
        /\ \A u \in Uids : drafts[u] # NoForm => drafts[u].ver <= latest[drafts[u].msg]
    BY <1>4 DEF DraftsInv
  <2> QED BY <1>0, <2>1, <2>2, <2>3 DEF DraftsInv, Uids
<1>14. ServedInv'
  <2>1. \A j \in Calls : call'[j].step \in Requests => call'[j].srv \in {"none", "asked"}
    BY <1>0, <1>2
  <2> QED BY <2>1 DEF ServedInv, Requests
<1>15. SentGone'
  <2> SUFFICES ASSUME NEW m \in Msgs, NEW v \in Vers, sent[m][v] > 0
               PROVE  /\ latest[m] > 0
                      /\ Live(m)' => x.step = "folders" /\ x.goal = "reset" /\ Win'.msg = m
                      /\ \A u \in Uids : drafts[u].msg # m
    BY <1>0 DEF SentGone, Uids, Vers
  <2>1. latest[m] > 0
    BY <1>4 DEF SentGone
  <2>2. ASSUME Live(m)' PROVE x.step = "folders" /\ x.goal = "reset" /\ Win'.msg = m
    BY <1>3, <1>7, <2>2
  <2> QED BY <1>3, <2>1, <2>2
<1>16. SavedInv'
  <2>1. \A f : InDraft(f)' <=> InDraft(f)
    BY <1>0 DEF InDraft
  <2>2. ASSUME NEW j \in Calls \ {k}, call[j].goal = "open", Nxt(j).ver > 0 PROVE InDraft(Nxt(j))
    BY <1>4, <2>2 DEF SavedInv
  <2> QED BY <1>0, <1>1, <2>1, <2>2 DEF SavedInv, InDraft
<1>17. KeptInv'
  <2> SUFFICES ASSUME NEW m \in Msgs \ discarded', latest[m] > 0, ~Live(m)'
               PROVE  sent[m][latest[m]] > 0 \/ \E u \in Uids : Holds(drafts[u], m, latest[m])
    BY <1>0 DEF KeptInv, Uids
  <2>1. CASE Live(m)
    <3>1. MayLeave(m)
      BY <1>6, <1>7, <2>1
    <3> QED BY <3>1 DEF MayLeave
  <2>2. CASE ~Live(m)
    BY <1>4, <2>2 DEF KeptInv
  <2> QED BY <2>1, <2>2
<1> QED
  BY <1>9, <1>10, <1>11, <1>12, <1>13, <1>14, <1>15, <1>16, <1>17 DEF CarefulInv

----------------------------------------------------------------------------
(* A step of the server leaves the places alone.                           *)

LEMMA ServerPlaces ==
  ASSUME TypeOK, Shape, NEW k \in Calls, NEW x, call' = [call EXCEPT ![k] = x], window' = window,
         x.step = call[k].step, x.goal = call[k].goal, x.form = call[k].form,
         x.next = call[k].next
  PROVE  /\ Win' = Win
         /\ \A j \in Calls : Mine(j)' = Mine(j) /\ Nxt(j)' = Nxt(j)
         /\ \A m : Live(m)' <=> Live(m)
         /\ \A j \in Calls \ {k} : call'[j] = call[j]
         /\ call'[k] = x
<1>1. call'[k] = x /\ \A j \in Calls \ {k} : call'[j] = call[j]
  BY DEF TypeOK
<1>2. Win' = Win
  BY DEF Win
<1>3. \A j \in Calls : Mine(j)' = Mine(j) /\ Nxt(j)' = Nxt(j)
  BY <1>1 DEF Mine, Nxt, Left
<1> QED BY <1>1, <1>2, <1>3 DEF Live

\* The form of the request in flight.
LEMMA BusyForm ==
  ASSUME TypeOK, Shape, CarefulInv, NEW k \in Calls,
         call[k].step \in {"saving", "sending", "removing"}
  PROVE  LET f == call[k].form IN
         /\ f \in Form /\ f.msg \in Msgs /\ Live(f.msg)
         /\ (f = Win /\ window.open /\ window.form = f) \/ (f = Mine(k) /\ Win.msg # f.msg)
         /\ f = Mine(k) => call[k].step = "sending"
         /\ \A j \in Calls \ {k} : ~Busy(j)
         /\ f.ver = latest[f.msg]
         /\ f.draft # 0 => f.draft < nextUid /\ drafts[f.draft].msg \in {NoMsg, f.msg}
         /\ \A u \in Uids : drafts[u].msg = f.msg =>
              \/ u = f.draft
              \/ call[k].step = "saving" /\ call[k].srv \in {"stored", "ok"} /\ u = call[k].uid
         /\ \A j \in Calls : Nxt(j).msg # f.msg
         /\ \A j \in Calls \ {k} : Mine(j).msg # f.msg
         /\ Win.msg = f.msg => Win = f
<1> DEFINE f == call[k].form
<1>1. Shapes /\ Unique /\ FormsOK /\ CallShape(k) /\ OneBusy
  BY DEF CarefulInv, Shapes
<1>2. Busy(k) /\ \A j \in Calls \ {k} : ~Busy(j)
  BY <1>1 DEF Busy, Requests, OneBusy
<1>3. CASE window.open /\ window.form = f
  <2>1. f = Win /\ f.msg \in Msgs /\ f \in Form
    BY <1>3, WindowFields DEF Win, Shape, WindowOK
  <2>2. FormOK(f) /\ Live(f.msg)
    BY <1>1, <2>1 DEF FormsOK, Live
  <2>3. \A j \in Calls : Mine(j).msg # f.msg /\ Nxt(j).msg # f.msg
    BY <1>1, <2>1 DEF Unique
  <2>4. f # Mine(k)
    BY <2>3
  <2>5. \A u \in Uids : Replacing(u, f.msg) =>
          call[k].step = "saving" /\ call[k].srv \in {"stored", "ok"} /\ u = call[k].uid
    BY <1>2 DEF Replacing, Busy, Requests
  <2> QED BY <1>2, <1>3, <2>1, <2>2, <2>3, <2>4, <2>5 DEF FormOK
<1>4. CASE call[k].step = "sending" /\ call[k].goal = "end"
  <2>1. f = Mine(k) /\ f.msg \in Msgs /\ f \in Form
    BY <1>4, CallFields DEF Mine, Left, Shape, CallOK
  <2>2. FormOK(f) /\ Live(f.msg)
    BY <1>1, <2>1 DEF FormsOK, Live
  <2>3. Win.msg # f.msg /\ (\A j \in Calls : Nxt(j).msg # f.msg)
        /\ \A j \in Calls \ {k} : Mine(j).msg # f.msg
    BY <1>1, <2>1 DEF Unique
  <2>4. \A u \in Uids : ~Replacing(u, f.msg)
    BY <1>2, <1>4 DEF Replacing, Busy, Requests
  <2> QED BY <1>2, <1>4, <2>1, <2>2, <2>3, <2>4 DEF FormOK
<1> QED BY <1>1, <1>3, <1>4 DEF CallShape

\* The shapes of the calls, when the server takes a step.
LEMMA ServerShapes ==
  ASSUME TypeOK, Shape, CarefulInv, NEW k \in Calls, NEW x, call' = [call EXCEPT ![k] = x],
         window' = window, discarded' = discarded,
         call[k].step \in {"saving", "sending", "removing"},
         x.step = call[k].step, x.goal = call[k].goal, x.form = call[k].form,
         x.next = call[k].next, x.srv \in {"stored", "ok"},
         x.step = "removing" => x.srv = "ok"
  PROVE  OneBusy' /\ Shapes' /\ Unique'
<1>1. Shapes /\ Unique /\ OneBusy /\ \A j \in Calls : CallShape(j)
  BY DEF CarefulInv, Shapes
<1>2. /\ Win' = Win
      /\ \A j \in Calls : Mine(j)' = Mine(j) /\ Nxt(j)' = Nxt(j)
      /\ call'[k] = x /\ \A j \in Calls \ {k} : call'[j] = call[j]
  BY ServerPlaces
<1>3. \A j \in Calls \ {k} : ~Busy(j)
  BY <1>1 DEF OneBusy, Busy, Requests
<1>4. OneBusy'
  BY <1>2, <1>3 DEF OneBusy, Busy
<1>5. ASSUME NEW j \in Calls \ {k} PROVE CallShape(j)'
  <2>1. call'[j] = call[j] /\ call[j].step \notin Requests /\ CallShape(j)
    BY <1>1, <1>2, <1>3 DEF Busy
  <2> QED BY <2>1 DEF CallShape, Requests
<1>6. CallShape(k)'
  <2>1. CallShape(k) /\ call'[k] = x
    BY <1>1, <1>2
  <2> QED BY <2>1 DEF CallShape
<1>7. Shapes'
  BY <1>1, <1>5, <1>6 DEF Shapes, Closed, NoForm
<1>8. Unique'
  BY <1>1, <1>2 DEF Unique
<1> QED BY <1>4, <1>7, <1>8

LEMMA AppendStep ==
  ASSUME TypeOK, Shape, CarefulInv, NEW k \in Calls, Append(k)
  PROVE  CarefulInv'
<1> DEFINE c == call[k]
           f == c.form
           n == nextUid
           x == Stored(c, n)
           d == [f EXCEPT !.draft = 0]
<1>1. /\ n \in Uids /\ n \in 0..MaxUid /\ n # 0 /\ nextUid' = n + 1
      /\ call' = [call EXCEPT ![k] = x] /\ drafts' = [drafts EXCEPT ![n] = d]
      /\ window' = window /\ sent' = sent /\ latest' = latest /\ discarded' = discarded
      /\ c.step = "saving" /\ c.srv = "asked"
  BY BoundsAssumption DEF Append, userVars, TypeOK, Uids
<1>2. /\ x.step = "saving" /\ x.goal = c.goal /\ x.form = f /\ x.next = c.next
      /\ x.srv = "stored" /\ x.uid = n
  BY <1>1, StoredFields DEF TypeOK
<1>3. /\ f \in Form /\ f.msg \in Msgs /\ Live(f.msg) /\ f = Win /\ window.open /\ window.form = f
      /\ \A j \in Calls \ {k} : ~Busy(j)
      /\ f.ver = latest[f.msg]
      /\ f.draft # 0 => f.draft < n /\ drafts[f.draft].msg \in {NoMsg, f.msg}
      /\ \A u \in Uids : drafts[u].msg = f.msg => u = f.draft
      /\ \A j \in Calls : Nxt(j).msg # f.msg
      /\ \A j \in Calls : Mine(j).msg # f.msg
  <2>1. Mine(k).msg # f.msg
    BY <1>1, NoMsgIsNone, BusyForm, NoFormFields DEF Mine, Left
  <2> QED BY <1>1, <2>1, BusyForm
<1>4. d \in Form /\ d.msg = f.msg /\ d.ver = f.ver /\ d.draft = 0 /\ d # NoForm
  BY <1>3, BoundsAssumption, NoFormFields, NoMsgIsNone DEF Form
<1>5. /\ DraftsInv /\ FormsOK /\ SentGone /\ SavedInv /\ KeptInv /\ CallShape(k)
      /\ \A j \in Calls \ {k} : call[j].step \notin Requests
  BY <1>3 DEF CarefulInv, Shapes, Busy
<1> HIDE DEF x, d
<1>6. /\ Win' = Win
      /\ \A j \in Calls : Mine(j)' = Mine(j) /\ Nxt(j)' = Nxt(j)
      /\ \A m : Live(m)' <=> Live(m)
      /\ call'[k] = x /\ \A j \in Calls \ {k} : call'[j] = call[j]
  BY <1>1, <1>2, ServerPlaces
<1>7. OneBusy' /\ Shapes' /\ Unique'
  BY <1>1, <1>2, ServerShapes
<1>8. drafts[n] = NoForm /\ \A u \in Uids : drafts'[u] = IF u = n THEN d ELSE drafts[u]
  BY <1>1, <1>5 DEF DraftsInv, TypeOK, Uids
<1>9. FormsOK'
  <2>1. FormOK(Win)'
    <3>1. \A u \in Uids : drafts'[u].msg = f.msg => u = f.draft \/ u = n
      BY <1>3, <1>8
    <3>2. /\ call'[k].step = "saving" /\ call'[k].srv = "stored"
          /\ call'[k].uid = n /\ call'[k].form.msg = f.msg
      BY <1>2, <1>6
    <3>3. f.draft # 0 => f.draft < n + 1 /\ drafts'[f.draft].msg \in {NoMsg, f.msg}
      BY <1>1, <1>3, <1>8, FormFields DEF Uids
    <3>4. \A u \in Uids : drafts'[u].msg = f.msg =>
            \/ u = f.draft
            \/ \E j \in Calls : /\ call'[j].step = "saving" /\ call'[j].srv \in {"stored", "ok"}
                               /\ call'[j].uid = u /\ call'[j].form.msg = f.msg
      BY <3>1, <3>2
    <3>5. Win' = f /\ latest' = latest /\ nextUid' = n + 1
      BY <1>1, <1>3, <1>6
    <3> HIDE DEF f, n
    <3> QED BY <1>3, <3>3, <3>4, <3>5 DEF FormOK, Uids, Replacing
  <2>2. ASSUME NEW g \in Form, FormOK(g), g.msg # f.msg
        PROVE  g.msg \in Msgs =>
                 /\ g.ver = latest'[g.msg]
                 /\ g.draft # 0 => g.draft < nextUid' /\ drafts'[g.draft].msg \in {NoMsg, g.msg}
                 /\ \A u \in Uids : drafts'[u].msg = g.msg => u = g.draft
    <3> SUFFICES ASSUME g.msg \in Msgs
                 PROVE  /\ g.ver = latest[g.msg]
                        /\ g.draft # 0 => g.draft < n + 1 /\ drafts'[g.draft].msg \in {NoMsg, g.msg}
                        /\ \A u \in Uids : drafts'[u].msg = g.msg => u = g.draft
      BY <1>1
    <3>1. \A u \in Uids : ~Replacing(u, g.msg)
      BY <1>1, <1>5 DEF Replacing, Requests
    <3>2. g.draft # 0 => g.draft < n + 1 /\ drafts'[g.draft].msg \in {NoMsg, g.msg}
      BY <2>2, <1>1, <1>8, FormFields DEF FormOK, Uids
    <3>3. \A u \in Uids : drafts'[u].msg = g.msg => u = g.draft
      BY <2>2, <1>4, <1>8, <3>1 DEF FormOK
    <3> QED BY <2>2, <3>2, <3>3 DEF FormOK
  <2>3. ASSUME NEW j \in Calls PROVE FormOK(Mine(j))' /\ FormOK(Nxt(j))'
    <3>1. Mine(j) \in Form /\ Nxt(j) \in Form /\ FormOK(Mine(j)) /\ FormOK(Nxt(j))
      BY <1>5, PlaceTypes DEF FormsOK
    <3>2. Mine(j)' = Mine(j) /\ Nxt(j)' = Nxt(j)
      BY <1>6
    <3> QED BY <1>3, <2>2, <3>1, <3>2 DEF FormOK, Uids
  <2> QED BY <2>1, <2>3 DEF FormsOK
<1>10. DraftsInv'
  <2>1. \A u \in Uids : u >= n + 1 => drafts'[u] = NoForm
    BY <1>5, <1>8, <1>1 DEF DraftsInv, Uids
  <2>2. \A u \in Uids : drafts'[u] # NoForm => drafts'[u].ver <= latest[drafts'[u].msg]
    <3>1. d.ver <= latest[d.msg]
      BY <1>3, <1>4, FormFields
    <3> QED BY <3>1, <1>5, <1>8 DEF DraftsInv
  <2>3. ASSUME NEW t \in Uids, NEW u \in Uids, drafts'[u].msg \in Msgs, drafts'[t].msg = drafts'[u].msg
        PROVE  t = u \/ f.msg = drafts'[u].msg
    <3>1. \A j \in Calls : ~(call[j].step = "saving" /\ call[j].srv = "stored")
      BY <1>1, <1>5 DEF Requests
    <3> QED BY <3>1, <2>3, <1>4, <1>5, <1>8 DEF DraftsInv
  <2>4. \A u \in Uids, m \in Msgs : drafts'[u].msg = m /\ ~Live(m) => drafts'[u].ver = latest[m]
    BY <1>3, <1>4, <1>5, <1>8 DEF DraftsInv
  <2>5. \A t, u \in Uids : drafts'[u].msg \in Msgs /\ drafts'[t].msg = drafts'[u].msg =>
          t = u \/ \E j \in Calls : /\ call'[j].step = "saving" /\ call'[j].srv = "stored"
                                    /\ call'[j].form.msg = drafts'[u].msg
    BY <2>3, <1>2, <1>6
  <2> QED BY <1>1, <1>6, <2>1, <2>2, <2>4, <2>5 DEF DraftsInv, Uids
<1>11. ServedInv'
  <2>1. n # f.draft
    BY <1>1, <1>3
  <2>2. drafts'[n] = [f EXCEPT !.draft = 0]
    BY <1>1, <1>8 DEF d
  <2>3. n < n + 1
    BY <1>1
  <2>4. \A j \in Calls \ {k} : call'[j].step \notin Requests
    BY <1>5, <1>6
  <2> QED BY <1>1, <1>2, <1>6, <2>1, <2>2, <2>3, <2>4 DEF ServedInv, Requests, Uids
<1>12. SentGone'
  <2> SUFFICES ASSUME NEW m \in Msgs, NEW v \in Vers, sent[m][v] > 0
               PROVE  latest[m] > 0 /\ ~Live(m) /\ \A u \in Uids : drafts'[u].msg # m
    BY <1>1, <1>6 DEF SentGone, Uids, Vers
  <2>1. \A j \in Calls : call[j].step # "sending" /\ call[j].step # "folders"
    BY <1>1, <1>5 DEF Requests
  <2>2. latest[m] > 0 /\ ~Live(m) /\ \A u \in Uids : drafts[u].msg # m
    BY <2>1, <1>5 DEF SentGone
  <2> QED BY <2>2, <1>3, <1>4, <1>8
<1>13. SavedInv'
  <2>1. window.dirty
    BY <1>1, <1>5 DEF CallShape
  <2>2. ASSUME NEW j \in Calls, call[j].goal = "open", Nxt(j).ver > 0
        PROVE  Nxt(j).draft # 0 /\ Holds(drafts'[Nxt(j).draft], Nxt(j).msg, Nxt(j).ver)
    <3>1. InDraft(Nxt(j)) /\ Nxt(j) \in Form
      BY <2>2, <1>5, PlaceTypes DEF SavedInv
    <3>2. Nxt(j).draft \in Uids
      BY <3>1, FormFields, BoundsAssumption DEF InDraft, Uids
    <3>3. Nxt(j).msg \in Msgs
      BY <2>2 DEF Shape, CallOK, Nxt, Opens
    <3>4. Nxt(j).draft # n
      BY <3>1, <3>3, <1>8, NoMsgIsNone, NoFormFields DEF InDraft, Holds
    <3> QED BY <3>1, <3>2, <3>4, <1>8 DEF InDraft
  <2>3. \A j \in Calls : call'[j].goal = call[j].goal
    BY <1>2, <1>6
  <2> QED BY <1>1, <1>6, <2>1, <2>2, <2>3 DEF SavedInv, InDraft
<1>14. KeptInv'
  <2>1. \A m \in Msgs, u \in Uids : Holds(drafts[u], m, latest[m]) => Holds(drafts'[u], m, latest[m])
    BY <1>8, NoMsgIsNone, NoFormFields DEF Holds
  <2> QED BY <1>1, <1>5, <1>6, <2>1 DEF KeptInv, Uids
<1> QED BY <1>7, <1>9, <1>10, <1>11, <1>12, <1>13, <1>14 DEF CarefulInv

LEMMA DeliverStep ==
  ASSUME TypeOK, Shape, CarefulInv, NEW k \in Calls, Deliver(k)
  PROVE  CarefulInv'
<1> DEFINE c == call[k]
           f == c.form
           x == [c EXCEPT !.srv = "stored"]
<1>1. /\ call' = [call EXCEPT ![k] = x] /\ window' = window /\ drafts' = drafts
      /\ sent' = [sent EXCEPT ![f.msg] = [sent[f.msg] EXCEPT ![f.ver] = sent[f.msg][f.ver] + 1]]
      /\ nextUid' = nextUid /\ latest' = latest /\ discarded' = discarded
      /\ c.step = "sending" /\ c.srv = "asked"
  BY DEF Deliver, userVars
<1>2. /\ x.step = "sending" /\ x.goal = c.goal /\ x.form = f /\ x.next = c.next
      /\ x.srv = "stored"
  BY <1>1, SrvFields DEF TypeOK, Progress
<1>3. /\ f \in Form /\ f.msg \in Msgs /\ Live(f.msg) /\ f.ver \in Vers
      /\ \A j \in Calls \ {k} : ~Busy(j)
      /\ f.ver = latest[f.msg]
      /\ \A u \in Uids : drafts[u].msg = f.msg => u = f.draft
  BY <1>1, BusyForm DEF Shape, CallOK
<1>5. /\ DraftsInv /\ FormsOK /\ SentGone /\ SavedInv /\ KeptInv
      /\ \A j \in Calls \ {k} : call[j].step \notin Requests
  BY <1>3 DEF CarefulInv, Busy
<1> HIDE DEF x
<1>6. /\ Win' = Win
      /\ \A j \in Calls : Mine(j)' = Mine(j) /\ Nxt(j)' = Nxt(j)
      /\ \A m : Live(m)' <=> Live(m)
      /\ call'[k] = x /\ \A j \in Calls \ {k} : call'[j] = call[j]
  BY <1>1, <1>2, ServerPlaces
<1>7. OneBusy' /\ Shapes' /\ Unique'
  BY <1>1, <1>2, ServerShapes
<1> HIDE DEF f
<1>8. /\ \A m \in Msgs, v \in Vers : sent[m][v] > 0 => sent'[m][v] > 0
      /\ sent'[f.msg][f.ver] > 0
      /\ \A m \in Msgs, v \in Vers : sent'[m][v] > 0 => sent[m][v] > 0 \/ m = f.msg
  BY <1>1, <1>3 DEF TypeOK
<1>9. \A j \in Calls : call[j].step # "saving" /\ call'[j].step # "saving"
  BY <1>1, <1>2, <1>5, <1>6 DEF Requests
<1>10. FormsOK'
  <2>1. ASSUME NEW g, FormOK(g)
        PROVE  g.msg \in Msgs =>
                 /\ g.ver = latest[g.msg]
                 /\ g.draft # 0 => g.draft < nextUid /\ drafts[g.draft].msg \in {NoMsg, g.msg}
                 /\ \A u \in Uids : drafts[u].msg = g.msg => u = g.draft
    BY <2>1, <1>9 DEF FormOK, Replacing
  <2>2. /\ FormOK(Win) /\ Win' = Win
        /\ \A j \in Calls : /\ FormOK(Mine(j)) /\ Mine(j)' = Mine(j)
                            /\ FormOK(Nxt(j)) /\ Nxt(j)' = Nxt(j)
    BY <1>5, <1>6 DEF FormsOK
  <2>3. FormOK(Win)'
    BY <2>1, <2>2, <1>1 DEF FormOK, Uids
  <2>4. \A j \in Calls : FormOK(Mine(j))' /\ FormOK(Nxt(j))'
    BY <2>1, <2>2, <1>1 DEF FormOK, Uids
  <2> QED BY <2>3, <2>4 DEF FormsOK
<1>11. DraftsInv'
  BY <1>1, <1>5, <1>6, <1>9 DEF DraftsInv, Uids
<1>12. ServedInv'
  <2>1. \A j \in Calls \ {k} : call'[j].step \notin Requests
    BY <1>5, <1>6
  <2>2. call'[k].form = f /\ call'[k].step = "sending"
    BY <1>2, <1>6 DEF f
  <2> QED BY <2>1, <2>2, <1>8 DEF ServedInv, Requests
<1>13. SentGone'
  <2> SUFFICES ASSUME NEW m \in Msgs, NEW v \in Vers, sent'[m][v] > 0
               PROVE  /\ latest[m] > 0
                      /\ Live(m) => call'[k].form.msg = m
                      /\ \A u \in Uids : drafts[u].msg = m =>
                           call'[k].form.msg = m /\ call'[k].form.draft = u
    BY <1>1, <1>2, <1>6 DEF SentGone, Uids, Vers
  <2>1. call'[k].form = f
    BY <1>2, <1>6 DEF f
  <2>2. CASE m = f.msg
    <3>1. latest[m] > 0
      BY <1>3, <2>2 DEF Vers
    <3> QED BY <1>3, <2>1, <2>2, <3>1
  <2>3. CASE m # f.msg
    <3>1. sent[m][v] > 0
      BY <1>8, <2>3
    <3>2. \A j \in Calls : call[j].step # "folders" /\ ~(call[j].step = "sending" /\ call[j].srv \in {"stored", "ok"})
      BY <1>1, <1>5 DEF Requests
    <3> QED BY <1>5, <3>1, <3>2 DEF SentGone
  <2> QED BY <2>2, <2>3
<1>14. SavedInv'
  <2>1. window.open /\ Win.ver > 0 => Win.msg \in Msgs /\ Win.ver \in Vers
    BY WindowFields, FormFields, BoundsAssumption DEF Shape, WindowOK, Win, Vers
  <2>2. \A j \in Calls : call'[j].goal = call[j].goal
    BY <1>2, <1>6
  <2>3. \A g : InDraft(g)' <=> InDraft(g)
    BY <1>1 DEF InDraft
  <2>4. window.open /\ ~window.dirty /\ Win.ver > 0 =>
          InDraft(Win) \/ sent'[Win.msg][Win.ver] > 0
    BY <1>1, <1>5, <1>8, <2>1 DEF SavedInv, Requests
  <2> QED BY <1>1, <1>5, <1>6, <2>2, <2>3, <2>4 DEF SavedInv, InDraft
<1>15. KeptInv'
  <2>1. \A m \in Msgs : latest[m] > 0 => latest[m] \in Vers
    BY BoundsAssumption DEF TypeOK, Vers
  <2> QED BY <1>1, <1>5, <1>6, <1>8, <2>1 DEF KeptInv, Uids
<1> QED BY <1>7, <1>10, <1>11, <1>12, <1>13, <1>14, <1>15 DEF CarefulInv

LEMMA ExpungeStep ==
  ASSUME TypeOK, Shape, CarefulInv, NEW k \in Calls, Expunge(k) \/ Remove(k)
  PROVE  CarefulInv'
<1> DEFINE c == call[k]
           f == c.form
           x == [c EXCEPT !.srv = "ok"]
<1>0. CallShape(k)
  BY DEF CarefulInv, Shapes
<1>1. /\ call' = [call EXCEPT ![k] = x] /\ window' = window /\ drafts' = Expunged(drafts, f.draft)
      /\ sent' = sent /\ nextUid' = nextUid /\ latest' = latest /\ discarded' = discarded
      /\ \/ c.step \in {"saving", "sending"} /\ c.srv = "stored"
         \/ c.step = "removing" /\ c.srv = "asked"
  <2>1. /\ call' = [call EXCEPT ![k] = x] /\ window' = window /\ drafts' = Expunged(drafts, f.draft)
        /\ sent' = sent /\ nextUid' = nextUid /\ latest' = latest /\ discarded' = discarded
    BY DEF Expunge, Remove, userVars
  <2>2. \/ c.step \in {"saving", "sending"} /\ c.srv = "stored"
        \/ c.step = "removing" /\ c.srv = "asked"
    <3>1. c.step \in Steps
      BY CallFields DEF TypeOK
    <3> QED BY <1>0, <3>1, IdleFields DEF Expunge, Remove, CallShape, Steps
  <2> QED BY <2>1, <2>2
<1>2. /\ x.step = c.step /\ x.goal = c.goal /\ x.form = f /\ x.next = c.next
      /\ x.srv = "ok" /\ x.uid = c.uid
  BY SrvFields DEF TypeOK, Progress
<1>3. /\ f \in Form /\ f.msg \in Msgs /\ Live(f.msg)
      /\ (f = Win /\ window.open /\ window.form = f) \/ (f = Mine(k) /\ Win.msg # f.msg)
      /\ f = Mine(k) => c.step = "sending"
      /\ \A j \in Calls \ {k} : ~Busy(j)
      /\ f.draft # 0 => f.draft < nextUid /\ drafts[f.draft].msg \in {NoMsg, f.msg}
      /\ \A u \in Uids : drafts[u].msg = f.msg =>
           u = f.draft \/ (c.step = "saving" /\ u = c.uid)
      /\ \A j \in Calls : Nxt(j).msg # f.msg
      /\ Win.msg = f.msg => Win = f
  BY <1>1, BusyForm
<1>5. /\ DraftsInv /\ FormsOK /\ SentGone /\ SavedInv /\ KeptInv /\ ServedInv
      /\ \A j \in Calls \ {k} : call[j].step \notin Requests
  BY <1>3 DEF CarefulInv, Busy
<1> HIDE DEF x
<1>6. /\ Win' = Win
      /\ \A j \in Calls : Mine(j)' = Mine(j) /\ Nxt(j)' = Nxt(j)
      /\ \A m : Live(m)' <=> Live(m)
      /\ call'[k] = x /\ \A j \in Calls \ {k} : call'[j] = call[j]
  BY <1>1, <1>2, ServerPlaces
<1>7. OneBusy' /\ Shapes' /\ Unique'
  BY <1>1, <1>2, ServerShapes
<1>8. \A u \in Uids : drafts'[u] = IF u = f.draft THEN NoForm ELSE drafts[u]
  BY <1>1 DEF Expunged
<1>9. \A u \in Uids : drafts'[u].msg \in Msgs => u # f.draft /\ drafts'[u] = drafts[u]
  BY <1>8, NoFormFields, NoMsgIsNone
<1>10. \A u \in Uids : drafts'[u].msg = f.msg => c.step = "saving" /\ u = c.uid
  BY <1>3, <1>9
\* Call k replaces the same draft as before.
<1>11. \A u \in Uids, m \in Msgs : drafts'[u].msg = m /\ Replacing(u, m) =>
         \E j \in Calls : /\ call'[j].step = "saving" /\ call'[j].srv \in {"stored", "ok"}
                          /\ call'[j].uid = u /\ call'[j].form.msg = m
  <2> SUFFICES ASSUME NEW u \in Uids, NEW m \in Msgs, Replacing(u, m)
               PROVE  /\ call'[k].step = "saving" /\ call'[k].srv = "ok"
                      /\ call'[k].uid = u /\ call'[k].form.msg = m
    OBVIOUS
  <2>1. c.step = "saving" /\ c.uid = u /\ f.msg = m
    BY <1>5 DEF Replacing, Requests
  <2> QED BY <1>2, <1>6, <2>1
<1>12. FormsOK'
  <2>1. ASSUME NEW g \in Form, FormOK(g)
        PROVE  g.msg \in Msgs =>
                 /\ g.ver = latest[g.msg]
                 /\ g.draft # 0 => g.draft < nextUid /\ drafts'[g.draft].msg \in {NoMsg, g.msg}
                 /\ \A u \in Uids : drafts'[u].msg = g.msg =>
                      \/ u = g.draft
                      \/ \E j \in Calls : /\ call'[j].step = "saving" /\ call'[j].srv \in {"stored", "ok"}
                                          /\ call'[j].uid = u /\ call'[j].form.msg = g.msg
    <3> SUFFICES ASSUME g.msg \in Msgs
                 PROVE  /\ g.ver = latest[g.msg]
                        /\ g.draft # 0 => g.draft < nextUid /\ drafts'[g.draft].msg \in {NoMsg, g.msg}
                        /\ \A u \in Uids : drafts'[u].msg = g.msg =>
                             \/ u = g.draft
                             \/ \E j \in Calls : /\ call'[j].step = "saving" /\ call'[j].srv \in {"stored", "ok"}
                                                 /\ call'[j].uid = u /\ call'[j].form.msg = g.msg
      OBVIOUS
    <3>1. g.ver = latest[g.msg]
      BY <2>1 DEF FormOK
    <3>2. g.draft # 0 => g.draft < nextUid /\ drafts'[g.draft].msg \in {NoMsg, g.msg}
      BY <2>1, <1>8, FormFields, BoundsAssumption, NoFormFields DEF FormOK, Uids
    <3>3. \A u \in Uids : drafts'[u].msg = g.msg => u = g.draft \/ Replacing(u, g.msg)
      BY <2>1, <1>9 DEF FormOK
    <3> QED BY <3>1, <3>2, <3>3, <1>11
  <2>2. /\ Win \in Form /\ FormOK(Win) /\ Win' = Win
        /\ \A j \in Calls : /\ Mine(j) \in Form /\ FormOK(Mine(j)) /\ Mine(j)' = Mine(j)
                            /\ Nxt(j) \in Form /\ FormOK(Nxt(j)) /\ Nxt(j)' = Nxt(j)
    BY <1>5, <1>6, PlaceTypes DEF FormsOK
  <2>3. FormOK(Win)'
    BY <2>1, <2>2, <1>1 DEF FormOK, Replacing, Uids
  <2>4. \A j \in Calls : FormOK(Mine(j))' /\ FormOK(Nxt(j))'
    BY <2>1, <2>2, <1>1 DEF FormOK, Replacing, Uids
  <2> QED BY <2>3, <2>4 DEF FormsOK
<1>13. DraftsInv'
  <2>1. \A u \in Uids : u >= nextUid => drafts'[u] = NoForm
    BY <1>5, <1>8 DEF DraftsInv
  <2>2. \A u \in Uids : drafts'[u] # NoForm => drafts'[u].ver <= latest[drafts'[u].msg]
    BY <1>5, <1>8 DEF DraftsInv
  <2>3. ASSUME NEW t \in Uids, NEW u \in Uids, drafts'[u].msg \in Msgs, drafts'[t].msg = drafts'[u].msg
        PROVE  t = u
    <3>1. drafts[u] = drafts'[u] /\ drafts[t] = drafts'[t]
      BY <2>3, <1>9
    <3>2. t = u \/ drafts'[u].msg = f.msg
      BY <1>5, <2>3, <3>1 DEF DraftsInv, Requests
    <3> QED BY <1>10, <2>3, <3>2
  <2>4. \A u \in Uids, m \in Msgs : drafts'[u].msg = m /\ ~Live(m) => drafts'[u].ver = latest[m]
    BY <1>5, <1>9 DEF DraftsInv
  <2> QED BY <1>1, <1>6, <2>1, <2>2, <2>3, <2>4 DEF DraftsInv, Uids
<1>14. ServedInv'
  <2>1. \A j \in Calls \ {k} : call'[j].step \notin Requests
    BY <1>5, <1>6
  <2>2. call'[k].form = f /\ call'[k].step = c.step /\ call'[k].srv = "ok" /\ call'[k].uid = c.uid
    BY <1>2, <1>6
  <2>3. c.step = "saving" =>
          /\ c.uid \in Uids /\ c.uid < nextUid /\ c.uid # f.draft
          /\ drafts'[c.uid] = [f EXCEPT !.draft = 0]
    BY <1>1, <1>5, <1>8 DEF ServedInv
  <2>4. c.step = "sending" => sent[f.msg][f.ver] > 0
    BY <1>1, <1>5 DEF ServedInv
  <2> HIDE DEF f, c
  <2> QED BY <1>1, <1>10, <2>1, <2>2, <2>3, <2>4 DEF ServedInv, Requests, Uids
<1>15. SentGone'
  <2> SUFFICES ASSUME NEW m \in Msgs, NEW v \in Vers, sent[m][v] > 0
               PROVE  /\ latest[m] > 0
                      /\ Live(m) => \E j \in Calls :
                           \/ call'[j].step = "sending" /\ call'[j].srv \in {"stored", "ok"} /\ call'[j].form.msg = m
                           \/ call'[j].step = "folders" /\ call'[j].goal = "reset" /\ Win.msg = m
                      /\ \A u \in Uids : drafts'[u].msg # m
    BY <1>1, <1>6 DEF SentGone, Uids, Vers
  <2>1. latest[m] > 0
    BY <1>5 DEF SentGone
  <2>2. ASSUME NEW u \in Uids, drafts'[u].msg = m PROVE FALSE
    <3>1. drafts[u].msg = m /\ u # f.draft
      BY <1>9, <2>2
    <3>2. \E j \in Calls : call[j].step = "sending" /\ call[j].form.draft = u
      BY <1>5, <3>1 DEF SentGone
    <3> QED BY <1>5, <3>1, <3>2 DEF Requests
  <2>3. ASSUME Live(m)
        PROVE  call'[k].step = "sending" /\ call'[k].srv = "ok" /\ call'[k].form.msg = m
    <3>1. PICK j \in Calls :
            \/ call[j].step = "sending" /\ call[j].form.msg = m
            \/ call[j].step = "folders"
      BY <1>5, <2>3 DEF SentGone
    <3>2. j = k
      BY <1>5, <3>1 DEF Requests
    <3> QED BY <1>1, <1>2, <1>6, <3>1, <3>2
  <2> QED BY <2>1, <2>2, <2>3
<1>16. SavedInv'
  <2>1. ASSUME NEW g \in Form, g.msg \in Msgs, g.msg # f.msg, InDraft(g)
        PROVE  Holds(drafts'[g.draft], g.msg, g.ver)
    <3>1. g.draft \in Uids
      BY <2>1, FormFields, BoundsAssumption DEF InDraft, Uids
    <3>2. drafts[g.draft].msg = g.msg
      BY <2>1 DEF InDraft, Holds
    <3>3. g.draft # f.draft
      BY <1>3, <2>1, <3>1, <3>2, NoMsgIsNone, BoundsAssumption DEF Uids
    <3> QED BY <2>1, <3>1, <3>3, <1>8 DEF InDraft
  <2>2. ASSUME NEW j \in Calls, call[j].goal = "open", Nxt(j).ver > 0
        PROVE  Nxt(j).draft # 0 /\ Holds(drafts'[Nxt(j).draft], Nxt(j).msg, Nxt(j).ver)
    <3>1. InDraft(Nxt(j)) /\ Nxt(j) \in Form
      BY <1>5, <2>2, PlaceTypes DEF SavedInv
    <3>2. Nxt(j).msg \in Msgs
      BY <2>2 DEF Shape, CallOK, Nxt, Opens
    <3> QED BY <1>3, <2>1, <3>1, <3>2 DEF InDraft
  <2>3. ASSUME window.open, ~window.dirty, Win.ver > 0
        PROVE  \/ Win.draft # 0 /\ Holds(drafts'[Win.draft], Win.msg, Win.ver)
               \/ sent[Win.msg][Win.ver] > 0 \/ call'[k].step = "removing"
    <3>1. CASE Win.msg = f.msg
      <4>1. Win = f
        BY <1>3, <3>1
      <4>2. c.step # "saving"
        BY <1>0, <2>3 DEF CallShape
      <4>3. c.step = "removing" => call'[k].step = "removing"
        BY <1>2, <1>6
      <4>4. c.step = "sending" => sent[Win.msg][Win.ver] > 0
        BY <1>1, <1>5, <4>1 DEF ServedInv
      <4> QED BY <1>1, <4>2, <4>3, <4>4
    <3>2. CASE Win.msg # f.msg
      <4>1. Win.msg \in Msgs /\ Win \in Form
        BY <2>3, WindowFields DEF Shape, WindowOK, Win
      <4>2. (\E j \in Calls : call[j].step = "removing") => call'[k].step = "removing"
        BY <1>2, <1>5, <1>6 DEF Requests
      <4> QED BY <1>5, <2>1, <2>3, <3>2, <4>1, <4>2 DEF SavedInv, InDraft
    <3> QED BY <3>1, <3>2
  <2>4. \A j \in Calls : call'[j].goal = call[j].goal
    BY <1>2, <1>6
  <2> QED BY <1>1, <1>6, <2>2, <2>3, <2>4 DEF SavedInv, InDraft
<1>17. KeptInv'
  <2>1. ASSUME NEW m \in Msgs, NEW u \in Uids, Holds(drafts[u], m, latest[m]), ~Live(m)
        PROVE  Holds(drafts'[u], m, latest[m])
    <3>1. u # f.draft
      BY <1>3, <2>1, NoMsgIsNone, BoundsAssumption DEF Holds, Uids
    <3> QED BY <2>1, <3>1, <1>8
  <2> QED BY <1>1, <1>5, <1>6, <2>1 DEF KeptInv, Uids
<1> QED BY <1>7, <1>12, <1>13, <1>14, <1>15, <1>16, <1>17 DEF CarefulInv

----------------------------------------------------------------------------
(* The steps that open and close the window.                               *)

\* While no send is being answered, no message that has a place was sent.
LEMMA NotSent ==
  ASSUME TypeOK, Shape, CarefulInv, NEW k \in Calls, \A j \in Calls \ {k} : ~Busy(j),
         call[k].step # "sending", call[k].step = "folders" => call[k].goal # "reset"
  PROVE  \A m \in Msgs, v \in Vers : sent[m][v] > 0 => ~Live(m)
<1>1. ASSUME NEW j \in Calls
      PROVE  call[j].step # "sending" /\ (call[j].step = "folders" => call[j].goal # "reset")
  <2>1. j # k => call[j].step \notin Requests
    BY DEF Busy
  <2> QED BY <2>1 DEF Requests
<1>2. ASSUME NEW m \in Msgs, NEW v \in Vers, sent[m][v] > 0, Live(m) PROVE FALSE
  <2>1. \E j \in Calls :
          \/ call[j].step = "sending" /\ call[j].srv \in {"stored", "ok"} /\ call[j].form.msg = m
          \/ call[j].step = "folders" /\ call[j].goal = "reset" /\ Win.msg = m
    BY <1>2 DEF CarefulInv, SentGone
  <2> QED BY <1>1, <2>1
<1> QED BY <1>2

\* A form that is the last saved version of its message may leave.
LEMMA SavedMayLeave ==
  ASSUME TypeOK, Shape, CarefulInv, NEW f \in Form, f.msg \in Msgs, Good(f),
         f.ver > 0 => InDraft(f)
  PROVE  MayLeave(f.msg)
<1>1. f.ver = latest[f.msg] /\ \A u \in Uids : drafts[u].msg = f.msg => u = f.draft
  BY DEF Good
<1>2. CASE f.ver > 0
  <2>1. f.draft \in Uids /\ Holds(drafts[f.draft], f.msg, f.ver)
    BY <1>2, FormFields, BoundsAssumption DEF InDraft, Uids
  <2> QED BY <1>1, <2>1 DEF MayLeave, Holds
<1>3. CASE ~(f.ver > 0)
  <2>1. latest[f.msg] = 0
    BY <1>1, <1>3, FormFields
  <2>2. ASSUME NEW u \in Uids, drafts[u].msg = f.msg PROVE drafts[u].ver = 0
    <3>1. drafts[u] # NoForm /\ drafts[u] \in Form
      BY <2>2, NoFormFields, NoMsgIsNone DEF TypeOK
    <3>2. drafts[u].ver <= latest[drafts[u].msg]
      BY <3>1 DEF CarefulInv, DraftsInv
    <3> QED BY <2>1, <2>2, <3>1, <3>2, FormFields
  <2> QED BY <2>1, <2>2 DEF MayLeave
<1> QED BY <1>2, <1>3

\* The places of a call that is not busy with a send.
LEMMA OpenerPlaces ==
  ASSUME TypeOK, Shape, CarefulInv, NEW k \in Calls, call[k].step \in {"idle", "opening", "pending"}
  PROVE  /\ call[k].srv = "none"
         /\ call[k].step # "pending" => Mine(k) = NoForm
         /\ call[k].step = "pending" => Mine(k) = call[k].form /\ Mine(k).msg \in Msgs
         /\ call[k].step # "opening" => Nxt(k) = NoForm
         /\ call[k].step = "opening" =>
              /\ Nxt(k).msg \in Msgs
              /\ Nxt(k).ver > 0 => InDraft(Nxt(k))
<1>1. CallShape(k) /\ SavedInv /\ CallOK(call[k])
  BY DEF CarefulInv, Shapes, Shape
<1> QED BY <1>1, IdleFields DEF CallShape, Mine, Nxt, Left, SavedInv, CallOK

\* close(), by a call that then opens what it had to open, or nothing.
LEMMA CloseMoves ==
  ASSUME TypeOK, Shape, CarefulInv, NEW k \in Calls, \A j \in Calls \ {k} : ~Busy(j),
         call[k].step \in {"idle", "opening", "pending"},
         NEW goal \in {"end", "open", "reopen"}, NEW next \in {NoForm, Mine(k), Nxt(k)},
         next = IF call[k].step = "pending" THEN Mine(k) ELSE Nxt(k),
         goal = "end" => next = NoForm,
         goal = "open" => call[k].step = "opening",
         window.open, CloseThen(k, goal, next),
         UNCHANGED <<drafts, nextUid, sent, latest, discarded>>
  PROVE  CarefulInv'
<1>1. /\ Good(Win) /\ Good(Mine(k)) /\ Good(Nxt(k))
      /\ \A m \in Msgs, v \in Vers : sent[m][v] > 0 => ~Live(m)
  BY Others, NotSent, OpenerPlaces
<1>2. /\ call[k].srv = "none"
      /\ next \in {NoForm, Mine(k), Nxt(k)}
      /\ \A f \in {Mine(k), Nxt(k)} : f.msg \in Msgs => f = next
      /\ call[k].step = "opening" /\ next.ver > 0 => InDraft(next)
  BY OpenerPlaces, NoMsgIsNone, NoFormFields
<1>3. /\ Win = window.form /\ Win \in Form /\ Win.msg \in Msgs /\ next \in Form /\ goal \in Goals
      /\ Live(Win.msg)
      /\ next.msg \in Msgs => Live(next.msg)
      /\ next.msg \in Msgs => next.msg # Win.msg
      /\ next.msg \in Msgs => next.msg \in {Win.msg, Mine(k).msg, Nxt(k).msg}
  <2>1. Win = window.form /\ Win \in Form /\ Win.msg \in Msgs
    BY WindowFields DEF Win, Shape, WindowOK
  <2>2. next \in Form /\ goal \in Goals
    BY PlaceTypes, NoFormFields DEF Goals
  <2>3. next.msg \in Msgs => next \in {Mine(k), Nxt(k)}
    BY NoFormFields, NoMsgIsNone
  <2>4. Unique
    BY DEF CarefulInv
  <2>5. next.msg \in Msgs => next.msg # Win.msg
    BY <2>1, <2>3, <2>4 DEF Unique
  <2> QED BY <2>1, <2>2, <2>3, <2>5 DEF Live
<1>4. call \in [Calls -> CallType] /\ window \in WindowType
  BY DEF TypeOK, Shape, WindowOK
<1>5. goal \notin Opens => next = NoForm
  BY DEF Opens
<1>6. ~(NoForm.msg \in Msgs)
  BY NoFormFields, NoMsgIsNone
<1>7. CASE window.dirty /\ window.form.ver > 0
  <2> DEFINE x == Saving(window.form, goal, next)
  <2>1. call' = [call EXCEPT ![k] = x] /\ window' = [window EXCEPT !.timer = FALSE]
    BY <1>7 DEF CloseThen
  <2>2. /\ x.step = "saving" /\ x.goal = goal /\ x.form = window.form /\ x.next = next
        /\ x.srv = "asked"
    BY <1>3, SavingFields
  <2>3. window'.open /\ window'.form = window.form /\ window'.dirty = window.dirty
    BY <2>1, <1>4, TimerCleared
  <2> HIDE DEF x
  <2>4. call'[k] = x
    BY <2>1, <1>4
  <2>5. Win' = Win /\ Mine(k)' = NoForm /\ Nxt(k)' = next
    BY <2>2, <2>3, <2>4, <1>3 DEF Win, Mine, Nxt, Left
  <2>6. CallShape(k)'
    BY <1>5, <1>7, <2>2, <2>3, <2>4 DEF CallShape, Opens
  <2>7. \A f \in {Win', Mine(k)', Nxt(k)'} : f.msg \in Msgs =>
           /\ Good(f)
           /\ f.msg \in {Win.msg, Mine(k).msg, Nxt(k).msg}
           /\ Live(f.msg)
    BY <1>1, <1>2, <1>3, <1>6, <2>5
  <2>8. \A f \in {Win, Mine(k), Nxt(k)} : f.msg \in Msgs =>
           f.msg \in {Win'.msg, Mine(k)'.msg, Nxt(k)'.msg}
    BY <1>2, <2>5
  <2>9. x.goal = "open" /\ Nxt(k)'.ver > 0 => InDraft(Nxt(k)')
    BY <1>2, <2>2, <2>5
  <2>10. /\ Win'.msg \in Msgs => Mine(k)'.msg # Win'.msg /\ Nxt(k)'.msg # Win'.msg
         /\ Mine(k)'.msg \in Msgs => Nxt(k)'.msg # Mine(k)'.msg
    BY <1>3, <1>6, <2>5
  <2> QED
    BY <1>1, <1>2, <1>7, <2>1, <2>2, <2>3, <2>6, <2>7, <2>8, <2>9, <2>10, Moves
<1>8. CASE ~(window.dirty /\ window.form.ver > 0)
  <2> DEFINE x == Folders(goal, next)
  <2>1. call' = [call EXCEPT ![k] = x] /\ window' = Closed
    BY <1>8 DEF CloseThen
  <2>2. /\ x.step = "folders" /\ x.goal = goal /\ x.form = NoForm /\ x.next = next
        /\ x.srv = "none"
    BY <1>3, FoldersFields
  <2> HIDE DEF x
  <2>4. call'[k] = x
    BY <2>1, <1>4
  <2>5. Win' = NoForm /\ Mine(k)' = NoForm /\ Nxt(k)' = next /\ ~window'.open
    BY <2>1, <2>2, <2>4, ClosedFields DEF Win, Mine, Nxt, Left
  <2>6. CallShape(k)'
    BY <1>5, <2>2, <2>4, <2>5 DEF CallShape, Opens
  <2>7. \A f \in {Win', Mine(k)', Nxt(k)'} : f.msg \in Msgs =>
           /\ Good(f)
           /\ f.msg \in {Win.msg, Mine(k).msg, Nxt(k).msg}
           /\ Live(f.msg)
    BY <1>1, <1>2, <1>3, <1>6, <2>5
  <2>8. MayLeave(Win.msg)
    <3>1. ASSUME Win.ver > 0 PROVE InDraft(Win)
      <4>1. ~window.dirty
        BY <1>3, <1>8, <3>1
      <4>2. ~(sent[Win.msg][Win.ver] > 0)
        BY <1>1, <1>3, <3>1, FormFields, BoundsAssumption DEF Vers
      <4>3. \A j \in Calls : call[j].step # "removing"
        BY DEF Busy, Requests
      <4> QED BY <3>1, <4>1, <4>2, <4>3 DEF CarefulInv, SavedInv
    <3> QED BY <1>1, <1>3, <3>1, SavedMayLeave
  <2>9. \A f \in {Win, Mine(k), Nxt(k)} : f.msg \in Msgs =>
           f.msg \in {Win'.msg, Mine(k)'.msg, Nxt(k)'.msg} \/ MayLeave(f.msg)
    BY <1>2, <2>5, <2>8
  <2>10. x.goal = "open" /\ Nxt(k)'.ver > 0 => InDraft(Nxt(k)')
    BY <1>2, <2>2, <2>5
  <2>11. /\ Win'.msg \in Msgs => Mine(k)'.msg # Win'.msg /\ Nxt(k)'.msg # Win'.msg
         /\ Mine(k)'.msg \in Msgs => Nxt(k)'.msg # Mine(k)'.msg
    BY <1>6, <2>5
  <2> QED
    BY <1>1, <1>2, <2>1, <2>2, <2>5, <2>6, <2>7, <2>9, <2>10, <2>11, Moves
<1> QED BY <1>7, <1>8

\* openWith(): the form it opens comes from the call.
LEMMA OpenMoves ==
  ASSUME TypeOK, Shape, CarefulInv, NEW k \in Calls, \A j \in Calls \ {k} : ~Busy(j),
         call[k].step \in {"opening", "pending"},
         NEW goal \in Opens, NEW next \in {Mine(k), Nxt(k)},
         next = IF call[k].step = "pending" THEN Mine(k) ELSE Nxt(k),
         goal = "open" => call[k].step = "opening",
         OpenThen(k, next, goal),
         UNCHANGED <<drafts, nextUid, sent, latest, discarded>>
  PROVE  CarefulInv'
<1>1. CASE window.open
  <2>1. CloseThen(k, goal, next) /\ goal \in {"end", "open", "reopen"} /\ goal # "end"
    BY <1>1 DEF OpenThen, Opens
  <2> QED BY <1>1, <2>1, CloseMoves
<1>2. CASE ~window.open
  <2>1. window' = Assigned(next, goal = "reopen") /\ call' = [call EXCEPT ![k] = Idle]
    BY <1>2 DEF OpenThen
  <2>2. /\ Good(Mine(k)) /\ Good(Nxt(k))
        /\ \A m \in Msgs, v \in Vers : sent[m][v] > 0 => ~Live(m)
    BY Others, NotSent, OpenerPlaces
  <2>3. /\ call[k].srv = "none" /\ next \in Form /\ next.msg \in Msgs
        /\ \A f \in {Mine(k), Nxt(k)} : f.msg \in Msgs => f = next
        /\ call[k].step = "opening" /\ next.ver > 0 => InDraft(next)
        /\ Win = NoForm
    BY <1>2, OpenerPlaces, PlaceTypes, NoMsgIsNone, NoFormFields DEF Win
  <2>4. window \in WindowType /\ call'[k] = Idle
    BY <2>1 DEF Shape, WindowOK, TypeOK
  <2>5. window'.open /\ window'.form = next /\ window'.dirty = (goal = "reopen")
    BY <2>1, <2>3, <2>4, AssignedFields
  <2>6. Win' = next /\ Mine(k)' = NoForm /\ Nxt(k)' = NoForm
    BY <2>4, <2>5, IdleFields DEF Win, Mine, Nxt, Left
  <2>7. ~(NoForm.msg \in Msgs) /\ Live(next.msg)
    BY <2>3, NoFormFields, NoMsgIsNone DEF Live
  <2>8. CallShape(k)'
    BY <2>4, IdleFields DEF CallShape
  <2>9. \A f \in {Win', Mine(k)', Nxt(k)'} : f.msg \in Msgs =>
           /\ Good(f)
           /\ f.msg \in {Win.msg, Mine(k).msg, Nxt(k).msg}
           /\ Live(f.msg)
    BY <2>2, <2>3, <2>6, <2>7
  <2>10. \A f \in {Win, Mine(k), Nxt(k)} : f.msg \in Msgs =>
           f.msg \in {Win'.msg, Mine(k)'.msg, Nxt(k)'.msg}
    BY <2>3, <2>6, <2>7
  <2>11. window'.open /\ ~window'.dirty /\ Win'.ver > 0 => InDraft(Win')
    BY <2>3, <2>5, <2>6 DEF Opens
  <2>12. /\ Win'.msg \in Msgs => Mine(k)'.msg # Win'.msg /\ Nxt(k)'.msg # Win'.msg
         /\ Mine(k)'.msg \in Msgs => Nxt(k)'.msg # Mine(k)'.msg
    BY <2>6, <2>7
  <2> QED
    BY <2>1, <2>2, <2>3, <2>5, <2>8, <2>9, <2>10, <2>11, <2>12, IdleFields, Moves
<1> QED BY <1>1, <1>2

\* When nothing is in flight.
LEMMA QuietFacts ==
  ASSUME TypeOK, Shape, CarefulInv, Quiet, NEW k \in Calls
  PROVE  /\ \A j \in Calls : ~Busy(j) /\ call[j].step \in {"idle", "pending"} /\ Nxt(j) = NoForm
         /\ \A j \in Calls : call[j].srv = "none"
         /\ Good(Win) /\ \A j \in Calls : Good(Mine(j))
         /\ OneDraft
         /\ \A m \in Msgs, v \in Vers : sent[m][v] > 0 => ~Live(m) /\ \A u \in Uids : drafts[u].msg # m
<1>1. ASSUME NEW j \in Calls
      PROVE  ~Busy(j) /\ call[j].step \in {"idle", "pending"} /\ Nxt(j) = NoForm /\ call[j].srv = "none"
  <2>1. call[j].step \notin Requests /\ call[j].step \in Steps
    BY CallFields DEF Quiet, TypeOK
  <2>2. call[j].step \in {"idle", "pending"}
    BY <2>1 DEF Requests, Steps
  <2> QED BY <2>1, <2>2, OpenerPlaces DEF Busy
<1>2. ASSUME NEW j \in Calls PROVE Good(Mine(j)) /\ Good(Win) /\ OneDraft
  BY <1>1, Others
<1>3. \A m \in Msgs, v \in Vers : sent[m][v] > 0 => \A u \in Uids : drafts[u].msg # m
  BY <1>1, Others
<1>4. \A m \in Msgs, v \in Vers : sent[m][v] > 0 => ~Live(m)
  BY <1>1, NotSent
<1> QED BY <1>1, <1>2, <1>3, <1>4

\* A form that call k, idle until then, is to open.
LEMMA FreshMoves ==
  ASSUME TypeOK, Shape, CarefulInv, Quiet, NEW k \in Calls, call[k] = Idle,
         NEW f \in Form, f.msg \in Msgs, ~Live(f.msg), Good(f), f.ver > 0 => InDraft(f),
         \A v \in Vers : ~(sent[f.msg][v] > 0),
         call' = [call EXCEPT ![k] = Opening(f)],
         UNCHANGED <<window, drafts, nextUid, sent, latest, discarded>>
  PROVE  CarefulInv'
<1>1. /\ \A j \in Calls : ~Busy(j)
      /\ Good(Win) /\ Good(Mine(k))
      /\ Mine(k) = NoForm /\ Nxt(k) = NoForm
      /\ \A m \in Msgs, v \in Vers : sent[m][v] > 0 => ~Live(m)
  BY QuietFacts, OpenerPlaces, IdleFields
<1> DEFINE x == Opening(f)
<1>2. /\ x.step = "opening" /\ x.goal = "open" /\ x.form = NoForm /\ x.next = f
      /\ x.srv = "none"
  BY OpeningFields
<1>3. call' = [call EXCEPT ![k] = x]
  OBVIOUS
<1> HIDE DEF x
<1>4. call'[k] = x
  BY <1>3 DEF TypeOK
<1>5. Win' = Win /\ Mine(k)' = NoForm /\ Nxt(k)' = f
  BY <1>2, <1>4 DEF Win, Mine, Nxt, Left
<1>6. CallShape(k)'
  BY <1>2, <1>4 DEF CallShape
<1>7. ~(NoForm.msg \in Msgs) /\ (Win.msg \in Msgs => Live(Win.msg))
  BY NoFormFields, NoMsgIsNone DEF Live
<1>8. \A g \in {Win', Mine(k)', Nxt(k)'} : g.msg \in Msgs =>
        /\ Good(g)
        /\ ~Live(g.msg) \/ g.msg \in {Win.msg, Mine(k).msg, Nxt(k).msg}
        /\ \A v \in Vers : sent[g.msg][v] > 0 =>
             x.step = "folders" /\ x.goal = "reset" /\ Win'.msg = g.msg
  BY <1>1, <1>5, <1>7
<1>9. \A g \in {Win, Mine(k), Nxt(k)} : g.msg \in Msgs =>
        g.msg \in {Win'.msg, Mine(k)'.msg, Nxt(k)'.msg} \/ MayLeave(g.msg)
  BY <1>1, <1>5, <1>7
<1>10. /\ Win'.msg \in Msgs => Mine(k)'.msg # Win'.msg /\ Nxt(k)'.msg # Win'.msg
       /\ Mine(k)'.msg \in Msgs => Nxt(k)'.msg # Mine(k)'.msg
  BY <1>5, <1>7
<1>11. window'.open /\ ~window'.dirty /\ Win'.ver > 0 =>
         InDraft(Win') \/ sent[Win'.msg][Win'.ver] > 0 \/ x.step = "removing"
  BY <1>1, <1>5 DEF CarefulInv, SavedInv, Busy, Requests
<1>12. ~window'.open => window' = Closed
  BY DEF CarefulInv, Shapes
<1>13. x.goal = "open" /\ Nxt(k)'.ver > 0 => InDraft(Nxt(k)')
  BY <1>5
<1>14. /\ call[k].srv # "stored" /\ x.srv \in {"none", "asked"} /\ discarded \subseteq discarded'
       /\ UNCHANGED <<drafts, nextUid, sent, latest>>
  BY <1>2, IdleFields
<1> QED
  BY <1>1, <1>3, <1>6, <1>8, <1>9, <1>10, <1>11, <1>12, <1>13, <1>14, Moves

LEMMA OpeningSteps ==
  ASSUME TypeOK, Shape, CarefulInv, Careful,
         (\E m \in Msgs : New(m)) \/ (\E u \in Uids : OpenDraft(u))
  PROVE  CarefulInv'
<1>1. ASSUME NEW m \in Msgs, New(m) PROVE CarefulInv'
  <2> DEFINE f == [NoForm EXCEPT !.msg = m]
  <2>1. f \in Form /\ f.msg = m /\ f.ver = 0 /\ f.draft = 0
    BY NoFormFields, BoundsAssumption DEF NoForm, Form
  <2>2. PICK k \in Calls : call[k] = Idle /\ call' = [call EXCEPT ![k] = Opening(f)]
    BY <1>1 DEF New
  <2>3. /\ Quiet /\ latest[m] = 0 /\ window.form.msg # m /\ \A j \in Calls : call[j].next.msg # m
        /\ UNCHANGED <<window, drafts, nextUid, sent, latest, discarded>>
    BY <1>1 DEF New, MayAct, serverVars, userVars
  <2>4. \A u \in Uids : drafts[u].msg # m
    <3> SUFFICES ASSUME NEW u \in Uids, drafts[u].msg = m PROVE FALSE
      OBVIOUS
    <3>1. drafts[u] # NoForm
      BY NoFormFields, NoMsgIsNone
    <3>2. drafts[u].ver \in Vers /\ drafts[u].ver <= latest[m]
      BY <3>1 DEF Shape, DraftOK, CarefulInv, DraftsInv
    <3> QED BY <2>3, <3>2 DEF Vers
  <2>5. ~Live(m)
    <3>1. Win.msg # m
      BY <2>3, NoFormFields, NoMsgIsNone DEF Win
    <3>2. \A j \in Calls : Nxt(j).msg # m
      BY <2>3 DEF Nxt
    <3>3. ASSUME NEW j \in Calls, Mine(j).msg = m PROVE FALSE
      <4>1. Left(j) /\ Mine(j) = call[j].form
        BY <3>3, NoFormFields, NoMsgIsNone DEF Mine
      <4>2. Mine(j).ver \in Vers
        BY <4>1 DEF Shape, CallOK, Left
      <4>3. Mine(j).ver = latest[m]
        BY <3>3 DEF CarefulInv, FormsOK, FormOK
      <4> QED BY <2>3, <4>2, <4>3 DEF Vers
    <3> QED BY <3>1, <3>2, <3>3 DEF Live
  <2>6. \A v \in Vers : ~(sent[m][v] > 0)
    BY <2>3 DEF CarefulInv, SentGone
  <2> HIDE DEF f
  <2>7. Good(f)
    BY <2>1, <2>3, <2>4 DEF Good
  <2>8. /\ f.msg \in Msgs /\ ~Live(f.msg) /\ (f.ver > 0 => InDraft(f))
        /\ \A v \in Vers : ~(sent[f.msg][v] > 0)
    BY <2>1, <2>5, <2>6
  <2> QED BY <2>1, <2>2, <2>3, <2>7, <2>8, FreshMoves
<1>2. ASSUME NEW u \in Uids, OpenDraft(u) PROVE CarefulInv'
  <2> DEFINE f == [drafts[u] EXCEPT !.draft = u]
             m == drafts[u].msg
  <2>1. /\ drafts[u] \in Form /\ drafts[u] # NoForm /\ m \in Msgs
        /\ f \in Form /\ f.msg = m /\ f.ver = drafts[u].ver /\ f.draft = u /\ u # 0
    <3>1. drafts[u] \in Form /\ drafts[u] # NoForm /\ u \in 0..MaxUid /\ u # 0
      BY <1>2, BoundsAssumption DEF TypeOK, OpenDraft, Uids
    <3> QED BY <3>1 DEF Form, Shape, DraftOK
  <2>2. PICK k \in Calls : call[k] = Idle /\ call' = [call EXCEPT ![k] = Opening(f)]
    BY <1>2 DEF OpenDraft
  <2>3. /\ Quiet /\ ~InUse(u)
        /\ UNCHANGED <<window, drafts, nextUid, sent, latest, discarded>>
    BY <1>2 DEF OpenDraft, MayAct, serverVars, userVars
  <2>4. /\ OneDraft /\ Good(Win)
        /\ \A j \in Calls : Good(Mine(j)) /\ Nxt(j) = NoForm
        /\ \A v \in Vers : ~(sent[m][v] > 0)
    BY <2>1, <2>2, <2>3, QuietFacts
  <2>5. ~Live(m)
    <3>1. Win.msg # m
      <4> SUFFICES ASSUME Win.msg = m PROVE FALSE
        OBVIOUS
      <4>1. Win = window.form
        BY <2>1, NoFormFields, NoMsgIsNone DEF Win
      <4>2. Win.draft = u
        BY <2>1, <2>4 DEF Good
      <4> QED BY <2>3, <4>1, <4>2 DEF InUse
    <3>2. ASSUME NEW j \in Calls, Mine(j).msg = m PROVE FALSE
      <4>1. Mine(j) = call[j].form
        BY <2>1, <3>2, NoFormFields, NoMsgIsNone DEF Mine
      <4>2. Mine(j).draft = u
        BY <2>1, <2>4, <3>2 DEF Good
      <4> QED BY <2>3, <4>1, <4>2 DEF InUse
    <3>3. \A j \in Calls : Nxt(j).msg # m
      BY <2>1, <2>4, NoFormFields, NoMsgIsNone
    <3> QED BY <3>1, <3>2, <3>3 DEF Live
  <2>6. u < nextUid /\ drafts[u].ver = latest[m]
    BY <2>1, <2>5 DEF CarefulInv, DraftsInv, TypeOK, Uids
  <2>7. \A t \in Uids : drafts[t].msg = m => t = u
    BY <2>1, <2>4 DEF OneDraft
  <2>8. InDraft(f)
    BY <2>1 DEF InDraft, Holds
  <2> HIDE DEF f
  <2>9. Good(f)
    BY <2>1, <2>6, <2>7 DEF Good
  <2> QED BY <2>1, <2>2, <2>3, <2>4, <2>5, <2>8, <2>9, FreshMoves
<1> QED BY <1>1, <1>2

\* The forms stay where they are.
LEMMA StillMoves ==
  ASSUME TypeOK, Shape, CarefulInv, NEW k \in Calls, \A j \in Calls \ {k} : ~Busy(j),
         call[k].srv # "stored", call[k].step \notin {"saving", "sending", "removing"},
         call[k].step = "folders" => call[k].goal # "reset",
         NEW x, call' = [call EXCEPT ![k] = x],
         UNCHANGED <<drafts, nextUid, sent, latest>>, discarded \subseteq discarded',
         x.srv \in {"none", "asked"}, x.goal # "open",
         CallShape(k)',
         window'.open = window.open, window'.form = window.form, window'.dirty = window.dirty,
         ~window'.open => window' = Closed,
         Mine(k)' = Mine(k), Nxt(k)' = Nxt(k)
  PROVE  CarefulInv'
<1>1. /\ Good(Win) /\ Good(Mine(k)) /\ Good(Nxt(k))
      /\ \A m \in Msgs, v \in Vers : sent[m][v] > 0 => ~Live(m)
  BY Others, NotSent
<1>2. Win' = Win
  BY DEF Win
<1>3. \A f \in {Win, Mine(k), Nxt(k)} : f.msg \in Msgs => Live(f.msg)
  BY DEF Live
<1>4. \A f \in {Win', Mine(k)', Nxt(k)'} : f.msg \in Msgs =>
        /\ Good(f)
        /\ ~Live(f.msg) \/ f.msg \in {Win.msg, Mine(k).msg, Nxt(k).msg}
        /\ \A v \in Vers : sent[f.msg][v] > 0 =>
             x.step = "folders" /\ x.goal = "reset" /\ Win'.msg = f.msg
  BY <1>1, <1>2, <1>3
<1>5. \A f \in {Win, Mine(k), Nxt(k)} : f.msg \in Msgs =>
        f.msg \in {Win'.msg, Mine(k)'.msg, Nxt(k)'.msg} \/ MayLeave(f.msg)
  BY <1>2
<1>6. /\ Win'.msg \in Msgs => Mine(k)'.msg # Win'.msg /\ Nxt(k)'.msg # Win'.msg
      /\ Mine(k)'.msg \in Msgs => Nxt(k)'.msg # Mine(k)'.msg
  BY <1>2 DEF CarefulInv, Unique
<1>7. window'.open /\ ~window'.dirty /\ Win'.ver > 0 =>
        InDraft(Win') \/ sent[Win'.msg][Win'.ver] > 0 \/ x.step = "removing"
  <2>1. \A j \in Calls : call[j].step # "removing"
    BY DEF Busy, Requests
  <2> QED BY <1>2, <2>1 DEF CarefulInv, SavedInv
<1>8. x.goal = "open" /\ Nxt(k)'.ver > 0 => InDraft(Nxt(k)')
  OBVIOUS
<1> QED BY <1>4, <1>5, <1>6, <1>7, <1>8, Moves

\* The window is closed, the other forms stay where they are.
LEMMA LeaveMoves ==
  ASSUME TypeOK, Shape, CarefulInv, NEW k \in Calls, \A j \in Calls \ {k} : ~Busy(j),
         call[k].srv # "stored", call[k].step # "sending",
         NEW x, call' = [call EXCEPT ![k] = x],
         UNCHANGED <<drafts, nextUid, sent, latest>>, discarded \subseteq discarded',
         x.srv \in {"none", "asked"},
         x.goal = "open" => call[k].goal = "open",
         CallShape(k)', window' = Closed,
         Win.msg \in Msgs => MayLeave(Win.msg),
         Mine(k)' = Mine(k), Nxt(k)' = Nxt(k),
         call[k].step = "folders" => Mine(k) = NoForm /\ Nxt(k) = NoForm
  PROVE  CarefulInv'
<1>0. ~(NoForm.msg \in Msgs)
  BY NoFormFields, NoMsgIsNone
<1>1. Good(Mine(k)) /\ Good(Nxt(k))
  BY Others
<1>2. Win' = NoForm /\ ~window'.open
  BY ClosedFields DEF Win
<1>3. \A f \in {Mine(k), Nxt(k)} : f.msg \in Msgs =>
        /\ Live(f.msg)
        /\ \A v \in Vers : ~(sent[f.msg][v] > 0)
  <2>1. CASE call[k].step = "folders"
    BY <1>0, <2>1
  <2>2. CASE call[k].step # "folders"
    BY <2>2, NotSent DEF Live
  <2> QED BY <2>1, <2>2
<1>4. \A f \in {Win', Mine(k)', Nxt(k)'} : f.msg \in Msgs =>
        /\ Good(f)
        /\ ~Live(f.msg) \/ f.msg \in {Win.msg, Mine(k).msg, Nxt(k).msg}
        /\ \A v \in Vers : sent[f.msg][v] > 0 =>
             x.step = "folders" /\ x.goal = "reset" /\ Win'.msg = f.msg
  BY <1>0, <1>1, <1>2, <1>3
<1>5. \A f \in {Win, Mine(k), Nxt(k)} : f.msg \in Msgs =>
        f.msg \in {Win'.msg, Mine(k)'.msg, Nxt(k)'.msg} \/ MayLeave(f.msg)
  OBVIOUS
<1>6. /\ Win'.msg \in Msgs => Mine(k)'.msg # Win'.msg /\ Nxt(k)'.msg # Win'.msg
      /\ Mine(k)'.msg \in Msgs => Nxt(k)'.msg # Mine(k)'.msg
  BY <1>0, <1>2 DEF CarefulInv, Unique
<1>7. x.goal = "open" /\ Nxt(k)'.ver > 0 => InDraft(Nxt(k)')
  BY DEF CarefulInv, SavedInv
<1> QED BY <1>2, <1>4, <1>5, <1>6, <1>7, Moves

LEMMA WindowSteps ==
  ASSUME TypeOK, Shape, CarefulInv, Careful, AutosaveTimeout \/ CloseWindow \/ Discard \/ Send
  PROVE  CarefulInv'
<1>0. /\ Shapes /\ SavedInv /\ window \in WindowType
      /\ call \in [Calls -> CallType]
  BY DEF CarefulInv, TypeOK, Shape, WindowOK
<1>1. ASSUME AutosaveTimeout PROVE CarefulInv'
  <2>1. /\ Quiet /\ window' = [window EXCEPT !.timer = FALSE] /\ window.timer
        /\ UNCHANGED <<drafts, nextUid, sent, latest, discarded>>
    BY <1>1 DEF AutosaveTimeout, MayAct, serverVars, userVars
  <2>2. /\ window.open /\ window'.open /\ window'.form = window.form
        /\ window'.dirty = window.dirty
    BY <1>0, <2>1, ClosedFields, TimerCleared DEF Shapes
  <2>3. CASE window.dirty /\ window.form.ver > 0
    <3>1. PICK k \in Calls : /\ call[k] = Idle
                             /\ call' = [call EXCEPT ![k] = Saving(window.form, "stay", NoForm)]
      BY <1>1, <2>3 DEF AutosaveTimeout
    <3> DEFINE x == Saving(window.form, "stay", NoForm)
    <3>2. /\ x.step = "saving" /\ x.goal = "stay" /\ x.form = window.form /\ x.next = NoForm
          /\ x.srv = "asked"
      BY <1>0, WindowFields, NoFormFields, SavingFields DEF Goals
    <3>3. call' = [call EXCEPT ![k] = x]
      BY <3>1
    <3> HIDE DEF x
    <3>4. call'[k] = x
      BY <1>0, <3>3
    <3>5. CallShape(k)'
      BY <2>2, <2>3, <3>2, <3>4 DEF CallShape, Opens
    <3>6. Mine(k) = NoForm /\ Nxt(k) = NoForm /\ Mine(k)' = NoForm /\ Nxt(k)' = NoForm
      BY <3>1, <3>2, <3>4, IdleFields DEF Mine, Nxt, Left
    <3>7. \A j \in Calls : ~Busy(j)
      BY <2>1, <3>1, QuietFacts
    <3> QED
      BY <2>1, <2>2, <3>1, <3>2, <3>3, <3>5, <3>6, <3>7, IdleFields, StillMoves
  <2>4. CASE ~(window.dirty /\ window.form.ver > 0)
    <3>1. call' = call
      BY <1>1, <2>4 DEF AutosaveTimeout
    <3>2. Win' = Win /\ \A j \in Calls : Mine(j)' = Mine(j) /\ Nxt(j)' = Nxt(j)
      BY <2>2, <3>1 DEF Win, Mine, Nxt, Left
    <3>3. \A m : Live(m)' <=> Live(m)
      BY <3>1, <3>2 DEF Live
    <3>4. /\ OneBusy /\ Unique /\ FormsOK /\ DraftsInv /\ ServedInv /\ SentGone /\ KeptInv
      BY DEF CarefulInv
    <3>5. OneBusy' /\ ServedInv'
      BY <2>1, <3>1, <3>4 DEF OneBusy, Busy, ServedInv, Uids
    <3>6. Shapes'
      BY <1>0, <2>1, <2>2, <3>1 DEF Shapes, CallShape
    <3>7. Unique'
      BY <3>2, <3>4 DEF Unique
    <3>8. FormsOK'
      <4>1. FormOK(Win)'
        BY <2>1, <3>1, <3>2, <3>4 DEF FormsOK, FormOK, Replacing, Uids
      <4>2. \A j \in Calls : FormOK(Mine(j))' /\ FormOK(Nxt(j))'
        BY <2>1, <3>1, <3>2, <3>4 DEF FormsOK, FormOK, Replacing, Uids
      <4> QED BY <4>1, <4>2 DEF FormsOK
    <3>9. DraftsInv' /\ SentGone' /\ KeptInv'
      <4>1. DraftsInv'
        BY <2>1, <3>1, <3>3, <3>4 DEF DraftsInv, Uids
      <4>2. SentGone'
        BY <2>1, <3>1, <3>2, <3>3, <3>4 DEF SentGone, Uids, Vers
      <4>3. KeptInv'
        BY <2>1, <3>3, <3>4 DEF KeptInv, Uids
      <4> QED BY <4>1, <4>2, <4>3
    <3>10. SavedInv'
      BY <1>0, <2>1, <2>2, <3>1, <3>2 DEF SavedInv, InDraft
    <3> QED BY <3>5, <3>6, <3>7, <3>8, <3>9, <3>10 DEF CarefulInv
  <2> QED BY <2>3, <2>4
<1>2. ASSUME CloseWindow PROVE CarefulInv'
  <2>1. PICK k \in Calls : call[k] = Idle /\ CloseThen(k, "end", NoForm)
    BY <1>2 DEF CloseWindow
  <2>2. /\ Quiet /\ window.open /\ UNCHANGED <<drafts, nextUid, sent, latest, discarded>>
    BY <1>2 DEF CloseWindow, MayAct, serverVars, userVars
  <2>3. \A j \in Calls : ~Busy(j)
    BY <2>1, <2>2, QuietFacts
  <2>4. Nxt(k) = NoForm /\ call[k].step = "idle"
    BY <2>1, IdleFields DEF Nxt
  <2> QED BY <2>1, <2>2, <2>3, <2>4, CloseMoves
<1>3. ASSUME Discard PROVE CarefulInv'
  <2>1. /\ Quiet /\ window.open /\ UNCHANGED <<drafts, nextUid, sent, latest>>
        /\ discarded' = discarded \union {window.form.msg}
    BY <1>3 DEF Discard, MayAct, serverVars
  <2>2. PICK k \in Calls :
          /\ call[k] = Idle
          /\ IF window.form.draft # 0
               THEN /\ call' = [call EXCEPT ![k] = Chain("removing", "none", window.form, NoForm, "asked")]
                    /\ window' = [window EXCEPT !.timer = FALSE]
               ELSE /\ call' = [call EXCEPT ![k] = Folders("end", NoForm)]
                    /\ window' = Closed
    BY <1>3 DEF Discard
  <2>3. /\ \A j \in Calls : ~Busy(j)
        /\ Good(Win) /\ Mine(k) = NoForm /\ Nxt(k) = NoForm
    BY <2>1, <2>2, QuietFacts, IdleFields DEF Mine, Nxt, Left
  <2>4. CASE window.form.draft # 0
    <3> DEFINE x == Chain("removing", "none", window.form, NoForm, "asked")
    <3>1. call' = [call EXCEPT ![k] = x] /\ window' = [window EXCEPT !.timer = FALSE]
      BY <2>2, <2>4
    <3>2. /\ x.step = "removing" /\ x.goal = "none" /\ x.form = window.form /\ x.next = NoForm
          /\ x.srv = "asked"
      <4>1. "removing" \in Steps /\ "none" \in Goals /\ "asked" \in Progress
        BY DEF Steps, Goals, Progress
      <4> QED BY <1>0, <4>1, WindowFields, NoFormFields, ChainFields
    <3>3. /\ window'.open = window.open /\ window'.form = window.form
          /\ window'.dirty = window.dirty
      BY <1>0, <3>1, TimerCleared
    <3> HIDE DEF x
    <3>4. call'[k] = x
      BY <1>0, <3>1
    <3>5. CallShape(k)'
      BY <2>1, <3>2, <3>3, <3>4 DEF CallShape
    <3>6. Mine(k)' = NoForm /\ Nxt(k)' = NoForm
      BY <3>2, <3>4 DEF Mine, Nxt, Left
    <3> QED
      BY <2>1, <2>2, <2>3, <3>1, <3>2, <3>3, <3>5, <3>6, IdleFields, StillMoves
  <2>5. CASE window.form.draft = 0
    <3> DEFINE x == Folders("end", NoForm)
    <3>1. call' = [call EXCEPT ![k] = x] /\ window' = Closed
      BY <2>2, <2>5
    <3>2. /\ x.step = "folders" /\ x.goal = "end" /\ x.form = NoForm /\ x.next = NoForm
          /\ x.srv = "none"
      BY NoFormFields, FoldersFields DEF Goals
    <3> HIDE DEF x
    <3>4. call'[k] = x
      BY <1>0, <3>1
    <3>5. CallShape(k)'
      BY <3>2, <3>4 DEF CallShape, Opens
    <3>6. Mine(k)' = NoForm /\ Nxt(k)' = NoForm
      BY <3>2, <3>4 DEF Mine, Nxt, Left
    <3>7. Win = window.form
      BY <2>1 DEF Win
    <3>8. Win.msg \in Msgs => MayLeave(Win.msg)
      BY <2>1, <2>3, <2>5, <3>7, BoundsAssumption DEF MayLeave, Good, Uids
    <3> QED
      BY <2>1, <2>2, <2>3, <3>1, <3>2, <3>5, <3>6, <3>8, IdleFields, LeaveMoves
  <2> QED BY <2>4, <2>5
<1>4. ASSUME Send PROVE CarefulInv'
  <2> DEFINE f == window.form
  <2>1. /\ Quiet /\ window.open /\ f.ver > 0
        /\ UNCHANGED <<drafts, nextUid, sent, latest, discarded>>
    BY <1>4 DEF Send, MayAct, serverVars
  <2>2. PICK k \in Calls :
          /\ call[k] = Idle
          /\ \/ /\ call' = [call EXCEPT ![k] = Chain("pending", "none", f, NoForm, "none")]
                /\ window' = Closed
             \/ /\ call' = [call EXCEPT ![k] = Sending(f, "reset")]
                /\ window' = [window EXCEPT !.timer = FALSE]
    BY <1>4 DEF Send
  <2>3. /\ \A j \in Calls : ~Busy(j)
        /\ Good(Win) /\ Mine(k) = NoForm /\ Nxt(k) = NoForm
        /\ \A m \in Msgs, v \in Vers : sent[m][v] > 0 => ~Live(m)
    BY <2>1, <2>2, QuietFacts, IdleFields DEF Mine, Nxt, Left
  <2>4. Win = f /\ f \in Form /\ f.msg \in Msgs /\ Live(f.msg)
    BY <2>1, WindowFields DEF Win, Live, Shape, WindowOK
  <2> HIDE DEF f
  <2>5. CASE /\ call' = [call EXCEPT ![k] = Chain("pending", "none", f, NoForm, "none")]
             /\ window' = Closed
    <3> DEFINE x == Chain("pending", "none", f, NoForm, "none")
    <3>1. call' = [call EXCEPT ![k] = x]
      BY <2>5
    <3>2. /\ x.step = "pending" /\ x.goal = "none" /\ x.form = f /\ x.next = NoForm
          /\ x.srv = "none"
      <4>1. "pending" \in Steps /\ "none" \in Goals /\ "none" \in Progress
        BY DEF Steps, Goals, Progress
      <4> QED BY <2>4, <4>1, NoFormFields, ChainFields
    <3> HIDE DEF x
    <3>4. call'[k] = x
      BY <1>0, <3>1
    <3>5. CallShape(k)'
      BY <3>2, <3>4 DEF CallShape
    <3>6. Win' = NoForm /\ ~window'.open /\ Mine(k)' = f /\ Nxt(k)' = NoForm
      BY <2>5, <3>2, <3>4, ClosedFields DEF Win, Mine, Nxt, Left
    <3>7. ~(NoForm.msg \in Msgs)
      BY NoFormFields, NoMsgIsNone
    <3>8. \A g \in {Win', Mine(k)', Nxt(k)'} : g.msg \in Msgs =>
            /\ Good(g)
            /\ ~Live(g.msg) \/ g.msg \in {Win.msg, Mine(k).msg, Nxt(k).msg}
            /\ \A v \in Vers : sent[g.msg][v] > 0 =>
                 x.step = "folders" /\ x.goal = "reset" /\ Win'.msg = g.msg
      BY <2>3, <2>4, <3>6, <3>7
    <3>9. \A g \in {Win, Mine(k), Nxt(k)} : g.msg \in Msgs =>
            g.msg \in {Win'.msg, Mine(k)'.msg, Nxt(k)'.msg} \/ MayLeave(g.msg)
      BY <2>3, <2>4, <3>6, <3>7
    <3>10. /\ Win'.msg \in Msgs => Mine(k)'.msg # Win'.msg /\ Nxt(k)'.msg # Win'.msg
           /\ Mine(k)'.msg \in Msgs => Nxt(k)'.msg # Mine(k)'.msg
      BY <2>4, <3>6, <3>7
    <3>11. call[k].srv # "stored" /\ x.srv \in {"none", "asked"} /\ x.goal # "open"
           /\ discarded \subseteq discarded' /\ UNCHANGED <<drafts, nextUid, sent, latest>>
           /\ (~window'.open => window' = Closed)
      BY <2>1, <2>2, <2>5, <3>2, IdleFields
    <3> QED
      BY <2>3, <3>1, <3>5, <3>6, <3>8, <3>9, <3>10, <3>11, Moves
  <2>6. CASE /\ call' = [call EXCEPT ![k] = Sending(f, "reset")]
             /\ window' = [window EXCEPT !.timer = FALSE]
    <3> DEFINE x == Sending(f, "reset")
    <3>1. call' = [call EXCEPT ![k] = x]
      BY <2>6
    <3>2. /\ x.step = "sending" /\ x.goal = "reset" /\ x.form = f /\ x.next = NoForm
          /\ x.srv = "asked"
      BY <2>4, SendingFields DEF Goals
    <3>3. /\ window'.open = window.open /\ window'.form = window.form
          /\ window'.dirty = window.dirty
      BY <1>0, <2>6, TimerCleared
    <3> HIDE DEF x
    <3>4. call'[k] = x
      BY <1>0, <3>1
    <3>5. CallShape(k)'
      BY <2>1, <3>2, <3>3, <3>4 DEF CallShape, f
    <3>6. Mine(k)' = NoForm /\ Nxt(k)' = NoForm
      BY <3>2, <3>4 DEF Mine, Nxt, Left
    <3> QED
      BY <2>1, <2>2, <2>3, <3>1, <3>2, <3>3, <3>5, <3>6, IdleFields, StillMoves
  <2> QED BY <2>2, <2>5, <2>6 DEF f
<1> QED BY <1>1, <1>2, <1>3, <1>4

\* An edit: the form of the window becomes the last version of its message.
LEMMA EditStep ==
  ASSUME TypeOK, Shape, CarefulInv, Careful, Edit
  PROVE  CarefulInv'
<1> DEFINE f == window.form
           m == window.form.msg
<1>1. /\ Quiet /\ window.open
      /\ latest' = [latest EXCEPT ![m] = latest[m] + 1]
      /\ window' = [open |-> TRUE, form |-> [f EXCEPT !.ver = latest[m] + 1],
                    dirty |-> TRUE, timer |-> TRUE]
      /\ latest[m] + 1 \in 0..MaxVer
      /\ UNCHANGED <<call, drafts, nextUid, sent, discarded>>
  <2>1. m \in Msgs
    BY DEF Edit, Shape, WindowOK
  <2>2. latest[m] \in 0..MaxVer
    BY <2>1 DEF TypeOK
  <2> QED BY <2>2, BoundsAssumption DEF Edit, MayAct, serverVars
<1>2. /\ Win = f /\ f \in Form /\ m \in Msgs /\ latest[m] \in Nat
      /\ \A n \in Msgs : latest[n] \in Nat
  <2>1. Win = f /\ f \in Form /\ m \in Msgs
    BY <1>1, WindowFields DEF Win, Shape, WindowOK
  <2> QED BY <2>1, BoundsAssumption DEF TypeOK
<1>3. /\ latest'[m] = latest[m] + 1
      /\ \A n \in Msgs \ {m} : latest'[n] = latest[n]
  BY <1>1, <1>2 DEF TypeOK
<1>4. Win'.msg = m /\ Win'.ver = latest[m] + 1 /\ Win'.draft = f.draft /\ window'.dirty /\ window'.open
  <2>1. Win' = [f EXCEPT !.ver = latest[m] + 1] /\ window'.dirty /\ window'.open
    BY <1>1 DEF Win
  <2> QED BY <1>2, <2>1 DEF Form
<1> HIDE DEF f, m
<1>5. \A j \in Calls : call[j].step \notin Requests
  BY <1>1 DEF Quiet
<1>6. \A j \in Calls : Mine(j)' = Mine(j) /\ Nxt(j)' = Nxt(j)
  BY <1>1 DEF Mine, Nxt, Left
<1>7. \A n : Live(n)' <=> Live(n)
  BY <1>2, <1>4, <1>6 DEF Live, m, f
<1>8. /\ OneBusy /\ Shapes /\ Unique /\ FormsOK /\ DraftsInv /\ ServedInv /\ SentGone
      /\ SavedInv /\ KeptInv
  BY DEF CarefulInv
<1>9. /\ \A j \in Calls : call[j].step \notin {"saving", "sending", "removing", "folders"}
      /\ Live(m)
  BY <1>2, <1>5 DEF Requests, Live, m, f
<1>10. OneBusy' /\ ServedInv'
  BY <1>1, <1>8, <1>9, <1>5 DEF OneBusy, Busy, ServedInv
<1>11. Shapes'
  <2>1. ASSUME NEW j \in Calls PROVE CallShape(j)'
    <3>1. CallShape(j) /\ call'[j] = call[j]
      BY <1>1, <1>8 DEF Shapes
    <3> QED BY <1>9, <3>1 DEF CallShape
  <2> QED BY <1>4, <2>1 DEF Shapes
<1>12. Unique'
  BY <1>2, <1>4, <1>6, <1>8 DEF Unique, m, f
<1>13. FormsOK'
  <2>1. \A n : \A u \in Uids : ~Replacing(u, n) /\ ~Replacing(u, n)'
    BY <1>1, <1>9 DEF Replacing
  <2>2. FormOK(Win)'
    <3>1. FormOK(Win)
      BY <1>8 DEF FormsOK
    <3> QED BY <1>1, <1>2, <1>3, <1>4, <2>1, <3>1 DEF FormOK, Uids, f, m
  <2>3. ASSUME NEW j \in Calls, NEW g \in {Mine(j), Nxt(j)}, g.msg \in Msgs
        PROVE  /\ g.ver = latest'[g.msg]
               /\ g.draft # 0 => g.draft < nextUid /\ drafts[g.draft].msg \in {NoMsg, g.msg}
               /\ \A u \in Uids : drafts[u].msg = g.msg => u = g.draft
    <3>1. FormOK(g)
      BY <1>8 DEF FormsOK
    <3>2. g.msg # m
      BY <1>2, <1>8, <2>3 DEF Unique, m, f
    <3> QED BY <1>3, <2>1, <2>3, <3>1, <3>2 DEF FormOK
  <2>4. \A j \in Calls : FormOK(Mine(j))' /\ FormOK(Nxt(j))'
    BY <1>1, <1>6, <2>3 DEF FormOK, Uids
  <2> QED BY <2>2, <2>4 DEF FormsOK
<1>14. DraftsInv'
  <2>1. ASSUME NEW u \in Uids, drafts[u] # NoForm PROVE drafts[u].ver <= latest'[drafts[u].msg]
    <3>1. drafts[u].msg \in Msgs /\ drafts[u].ver \in Nat /\ drafts[u].ver <= latest[drafts[u].msg]
      BY <1>8, <2>1, BoundsAssumption DEF Shape, DraftOK, DraftsInv, Vers
    <3> QED BY <1>2, <1>3, <3>1
  <2>2. ASSUME NEW u \in Uids, NEW n \in Msgs, drafts[u].msg = n, ~Live(n)
        PROVE  drafts[u].ver = latest'[n]
    BY <1>3, <1>8, <1>9, <2>2 DEF DraftsInv
  <2> QED BY <1>1, <1>7, <1>8, <2>1, <2>2 DEF DraftsInv, Uids
<1>15. SentGone'
  <2> SUFFICES ASSUME NEW n \in Msgs, NEW v \in Vers, sent[n][v] > 0
               PROVE  latest'[n] > 0 /\ ~Live(n) /\ \A u \in Uids : drafts[u].msg # n
    BY <1>1, <1>7 DEF SentGone, Vers, Uids
  <2> QED BY <1>2, <1>3, <1>8, <1>9 DEF SentGone
<1>16. SavedInv'
  BY <1>1, <1>4, <1>6, <1>8 DEF SavedInv, InDraft
<1>17. KeptInv'
  BY <1>1, <1>3, <1>7, <1>8, <1>9 DEF KeptInv, Uids
<1> QED
  BY <1>10, <1>11, <1>12, <1>13, <1>14, <1>15, <1>16, <1>17 DEF CarefulInv

----------------------------------------------------------------------------
(* The answers.                                                            *)

\* When call k is busy, or nothing is, the others are not.
LEMMA AloneBusy ==
  ASSUME CarefulInv, NEW k \in Calls, Busy(k) \/ Quiet
  PROVE  \A j \in Calls \ {k} : ~Busy(j)
BY DEF CarefulInv, OneBusy, Quiet, Busy

\* A place that becomes empty.
LEMMA NoFormGood == ~(NoForm.msg \in Msgs) /\ NoForm \in Form /\ NoForm.ver = 0
  BY NoFormFields, NoMsgIsNone

LEMMA LoadedStep ==
  ASSUME TypeOK, Shape, CarefulInv, NEW k \in Calls, Loaded(k)
  PROVE  CarefulInv'
<1>1. /\ call[k].step = "opening" /\ \A j \in Calls \ {k} : ~Busy(j)
      /\ UNCHANGED <<drafts, nextUid, sent, latest, discarded>>
  BY AloneBusy DEF Loaded, Busy, Requests, serverVars, userVars
<1>2. CASE OpenThen(k, call[k].next, "open")
  <2>1. OpenThen(k, Nxt(k), "open") /\ "open" \in Opens
    BY <1>2 DEF Nxt, Opens
  <2> QED BY <1>1, <2>1, OpenMoves
<1>3. CASE call[k].next.draft # 0 /\ call' = [call EXCEPT ![k] = Idle] /\ UNCHANGED window
  <2>1. call'[k] = Idle
    BY <1>3 DEF TypeOK
  <2>2. Win' = Win /\ Mine(k)' = NoForm /\ Nxt(k)' = NoForm /\ Mine(k) = NoForm
    BY <1>1, <1>3, <2>1, IdleFields DEF Win, Mine, Nxt, Left
  <2>3. /\ call[k].srv = "none" /\ Nxt(k).msg \in Msgs /\ Nxt(k) \in Form
        /\ Nxt(k).ver > 0 => InDraft(Nxt(k))
        /\ Good(Win) /\ Good(Nxt(k))
        /\ \A m \in Msgs, v \in Vers : sent[m][v] > 0 => ~Live(m)
    BY <1>1, OpenerPlaces, PlaceTypes, Others, NotSent
  <2>4. MayLeave(Nxt(k).msg)
    BY <2>3, SavedMayLeave
  <2>5. CallShape(k)'
    BY <2>1, IdleFields DEF CallShape
  <2>6. \A g \in {Win', Mine(k)', Nxt(k)'} : g.msg \in Msgs =>
          /\ Good(g)
          /\ g.msg \in {Win.msg, Mine(k).msg, Nxt(k).msg}
          /\ \A v \in Vers : ~(sent[g.msg][v] > 0)
    BY <2>2, <2>3, NoFormGood DEF Live
  <2>7. \A g \in {Win, Mine(k), Nxt(k)} : g.msg \in Msgs =>
          g.msg \in {Win'.msg, Mine(k)'.msg, Nxt(k)'.msg} \/ MayLeave(g.msg)
    BY <2>2, <2>4, NoFormGood
  <2>8. /\ Win'.msg \in Msgs => Mine(k)'.msg # Win'.msg /\ Nxt(k)'.msg # Win'.msg
        /\ Mine(k)'.msg \in Msgs => Nxt(k)'.msg # Mine(k)'.msg
    BY <2>2, NoFormGood
  <2>9. window'.open /\ ~window'.dirty /\ Win'.ver > 0 =>
          InDraft(Win') \/ sent[Win'.msg][Win'.ver] > 0
    <3>1. \A j \in Calls : call[j].step # "removing"
      BY <1>1 DEF Busy, Requests
    <3> QED BY <1>3, <2>2, <3>1 DEF CarefulInv, SavedInv
  <2>10. ~window'.open => window' = Closed
    BY <1>3 DEF CarefulInv, Shapes
  <2> QED
    BY <1>1, <1>3, <2>2, <2>3, <2>5, <2>6, <2>7, <2>8, <2>9, <2>10, IdleFields, Moves
<1> QED BY <1>2, <1>3 DEF Loaded

LEMMA DelaySteps ==
  ASSUME TypeOK, Shape, CarefulInv, Careful, NEW k \in Calls, UndoTimeout(k) \/ Cancel(k)
  PROVE  CarefulInv'
<1>1. /\ call[k].step = "pending" /\ Quiet /\ \A j \in Calls \ {k} : ~Busy(j)
      /\ UNCHANGED <<drafts, nextUid, sent, latest, discarded>>
  BY AloneBusy DEF UndoTimeout, Cancel, MayAct, serverVars, userVars
<1>2. /\ call[k].srv = "none" /\ Mine(k) = call[k].form /\ Nxt(k) = NoForm
      /\ call[k].form \in Form /\ call[k].step \notin {"saving", "sending", "removing", "folders"}
  BY <1>1, OpenerPlaces, PlaceTypes
<1>3. CASE Cancel(k)
  <2>1. OpenThen(k, Mine(k), "reopen") /\ "reopen" \in Opens
    BY <1>2, <1>3 DEF Cancel, Opens
  <2> QED BY <1>1, <2>1, OpenMoves
<1>4. CASE UndoTimeout(k)
  <2> DEFINE x == Sending(call[k].form, "end")
  <2>1. call' = [call EXCEPT ![k] = x] /\ window' = window
    BY <1>4 DEF UndoTimeout
  <2>2. /\ x.step = "sending" /\ x.goal = "end" /\ x.form = call[k].form /\ x.next = NoForm
        /\ x.srv = "asked"
    BY <1>2, SendingFields DEF Goals
  <2> HIDE DEF x
  <2>3. call'[k] = x
    BY <2>1 DEF TypeOK
  <2>4. CallShape(k)'
    BY <2>2, <2>3 DEF CallShape
  <2>5. Mine(k)' = Mine(k) /\ Nxt(k)' = Nxt(k)
    BY <1>2, <2>2, <2>3 DEF Mine, Nxt, Left
  <2>6. ~window'.open => window' = Closed
    BY <2>1 DEF CarefulInv, Shapes
  <2> QED
    BY <1>1, <1>2, <2>1, <2>2, <2>4, <2>5, <2>6, StillMoves
<1> QED BY <1>3, <1>4

LEMMA SaveAnsweredStep ==
  ASSUME TypeOK, Shape, CarefulInv, NEW k \in Calls, SaveAnswered(k)
  PROVE  CarefulInv'
<1> DEFINE f == call[k].form
           u == call[k].uid
<1>1. /\ call[k].step = "saving" /\ \A j \in Calls \ {k} : ~Busy(j)
      /\ UNCHANGED <<drafts, nextUid, sent, latest, discarded>>
  BY AloneBusy DEF SaveAnswered, Answered, Busy, Requests, serverVars, userVars
<1>2. /\ call[k].srv = "ok" /\ window.open /\ f = window.form
      /\ call[k].goal \in {"stay", "end"} \union Opens
      /\ call[k].goal \notin Opens => Nxt(k) = NoForm
  <2>1. CallShape(k) /\ call[k].srv \in {"ok", "error"}
    BY DEF SaveAnswered, Answered, CarefulInv, Shapes
  <2> QED BY <1>1, <2>1 DEF CallShape, Nxt
<1>3. /\ Win = f /\ f \in Form /\ f.msg \in Msgs /\ Live(f.msg) /\ f.ver = latest[f.msg]
      /\ Mine(k) = NoForm
  BY <1>1, <1>2, BusyForm DEF Win, Mine, Left
<1>4. /\ u \in Uids /\ u < nextUid /\ drafts[u] = [f EXCEPT !.draft = 0]
      /\ \A d \in Uids : drafts[d].msg = f.msg => d = u
  BY <1>1, <1>2 DEF CarefulInv, ServedInv
<1>5. Holds(drafts[u], f.msg, f.ver) /\ drafts[u].msg = f.msg /\ drafts[u].ver = f.ver
  BY <1>3, <1>4 DEF Holds, Form
<1>6. \A m \in Msgs, v \in Vers : sent[m][v] > 0 => ~Live(m)
  BY <1>1, NotSent
<1> HIDE DEF f, u
<1>7. CASE call[k].goal = "stay"
  <2>1. call' = [call EXCEPT ![k] = Idle] /\ call'[k] = Idle
    BY <1>7 DEF SaveAnswered, TypeOK
  <2>2. /\ window'.open /\ ~window'.dirty /\ window'.form = [f EXCEPT !.draft = u]
    BY <1>2, <1>7 DEF SaveAnswered, WithSaved, f, u
  <2>3. Win'.msg = f.msg /\ Win'.ver = f.ver /\ Win'.draft = u
    BY <1>3, <2>2 DEF Win, Form
  <2>4. Mine(k)' = NoForm /\ Nxt(k)' = NoForm /\ Nxt(k) = NoForm
    BY <1>2, <1>7, <2>1, IdleFields DEF Mine, Nxt, Left, Opens
  <2>5. CallShape(k)'
    BY <2>1, IdleFields DEF CallShape
  <2>6. Good(Win')
    BY <1>3, <1>4, <1>5, <2>3 DEF Good
  <2>7. InDraft(Win')
    BY <1>4, <1>5, <2>3, BoundsAssumption DEF InDraft, Uids
  <2>8. \A g \in {Win', Mine(k)', Nxt(k)'} : g.msg \in Msgs =>
          /\ Good(g)
          /\ g.msg \in {Win.msg, Mine(k).msg, Nxt(k).msg}
          /\ \A v \in Vers : ~(sent[g.msg][v] > 0)
    BY <1>3, <1>6, <2>3, <2>4, <2>6, NoFormGood
  <2>9. \A g \in {Win, Mine(k), Nxt(k)} : g.msg \in Msgs =>
          g.msg \in {Win'.msg, Mine(k)'.msg, Nxt(k)'.msg}
    BY <1>3, <2>3, <2>4, NoFormGood
  <2>10. /\ Win'.msg \in Msgs => Mine(k)'.msg # Win'.msg /\ Nxt(k)'.msg # Win'.msg
         /\ Mine(k)'.msg \in Msgs => Nxt(k)'.msg # Mine(k)'.msg
    BY <2>4, NoFormGood
  <2> QED
    BY <1>1, <1>2, <2>1, <2>2, <2>4, <2>5, <2>7, <2>8, <2>9, <2>10, IdleFields, NoFormGood, Moves
<1>8. CASE call[k].goal # "stay"
  <2> DEFINE x == Folders(call[k].goal, Nxt(k))
  <2>1. call' = [call EXCEPT ![k] = x] /\ window' = Closed
    BY <1>8 DEF SaveAnswered, Nxt
  <2>2. /\ x.step = "folders" /\ x.goal = call[k].goal /\ x.form = NoForm /\ x.next = Nxt(k)
        /\ x.srv = "none"
    BY <1>2, PlaceTypes, FoldersFields DEF Goals, Opens
  <2> HIDE DEF x
  <2>3. call'[k] = x /\ ~window'.open
    BY <2>1, ClosedFields DEF TypeOK
  <2>4. CallShape(k)'
    BY <1>2, <1>8, <2>2, <2>3 DEF CallShape, Opens
  <2>5. Mine(k)' = Mine(k) /\ Nxt(k)' = Nxt(k)
    BY <1>3, <2>2, <2>3 DEF Mine, Nxt, Left
  <2>6. MayLeave(Win.msg)
    BY <1>3, <1>4, <1>5 DEF MayLeave
  <2> QED BY <1>1, <1>2, <2>1, <2>2, <2>4, <2>5, <2>6, LeaveMoves
<1> QED BY <1>7, <1>8

LEMMA SendAnsweredStep ==
  ASSUME TypeOK, Shape, CarefulInv, NEW k \in Calls, SendAnswered(k)
  PROVE  CarefulInv'
<1> DEFINE f == call[k].form
           x == Folders(call[k].goal, NoForm)
<1>1. /\ call[k].step = "sending" /\ \A j \in Calls \ {k} : ~Busy(j)
      /\ UNCHANGED <<drafts, nextUid, sent, latest, discarded>>
  BY AloneBusy DEF SendAnswered, Answered, Busy, Requests, serverVars, userVars
<1>2. /\ call[k].srv = "ok" /\ call[k].goal \in {"end", "reset"} /\ Nxt(k) = NoForm
      /\ call[k].goal = "reset" => window.open /\ f = window.form
  <2>1. CallShape(k) /\ call[k].srv \in {"ok", "error"}
    BY DEF SendAnswered, Answered, CarefulInv, Shapes
  <2> QED BY <1>1, <2>1 DEF CallShape, Nxt
<1>3. call' = [call EXCEPT ![k] = x] /\ window' = window
  BY <1>2 DEF SendAnswered
<1>4. /\ x.step = "folders" /\ x.goal = call[k].goal /\ x.form = NoForm /\ x.next = NoForm
      /\ x.srv = "none"
  BY <1>2, NoFormGood, FoldersFields DEF Goals
<1> HIDE DEF x
<1>5. call'[k] = x
  BY <1>3 DEF TypeOK
<1>6. Win' = Win /\ Mine(k)' = NoForm /\ Nxt(k)' = NoForm
  BY <1>3, <1>4, <1>5 DEF Win, Mine, Nxt, Left
<1>7. /\ f \in Form /\ f.msg \in Msgs /\ Live(f.msg) /\ f.ver = latest[f.msg]
      /\ Good(Win)
      /\ f.ver \in Vers /\ sent[f.msg][f.ver] > 0
      /\ \A d \in Uids : drafts[d].msg # f.msg
  <2>1. f.ver \in Vers /\ sent[f.msg][f.ver] > 0
    BY <1>1, <1>2 DEF Shape, CallOK, CarefulInv, ServedInv
  <2>2. f \in Form /\ f.msg \in Msgs /\ Live(f.msg) /\ f.ver = latest[f.msg]
    BY <1>1, BusyForm
  <2>3. Good(Win) /\ \A d \in Uids : drafts[d].msg # f.msg
    BY <1>1, <1>2, <2>1, <2>2, Others
  <2> QED BY <2>1, <2>2, <2>3
<1>8. ASSUME NEW m \in Msgs, NEW v \in Vers, sent[m][v] > 0, Live(m) PROVE m = f.msg
  <2>1. PICK j \in Calls :
          \/ call[j].step = "sending" /\ call[j].srv \in {"stored", "ok"} /\ call[j].form.msg = m
          \/ call[j].step = "folders" /\ call[j].goal = "reset" /\ Win.msg = m
    BY <1>8 DEF CarefulInv, SentGone
  <2>2. j = k
    BY <1>1, <2>1 DEF Busy, Requests
  <2> QED BY <1>1, <2>1, <2>2
<1>9. Win.msg \in Msgs => Live(Win.msg)
  BY DEF Live
<1>10. ~window'.open => window' = Closed
  BY <1>3 DEF CarefulInv, Shapes
<1>11. window'.open /\ ~window'.dirty /\ Win'.ver > 0 =>
         InDraft(Win') \/ sent[Win'.msg][Win'.ver] > 0
  <2>1. \A j \in Calls : call[j].step # "removing"
    BY <1>1 DEF Busy, Requests
  <2> QED BY <1>3, <1>6, <2>1 DEF CarefulInv, SavedInv
<1>12. /\ Win'.msg \in Msgs => Mine(k)'.msg # Win'.msg /\ Nxt(k)'.msg # Win'.msg
       /\ Mine(k)'.msg \in Msgs => Nxt(k)'.msg # Mine(k)'.msg
  BY <1>6, NoFormGood
<1>13. CallShape(k)'
  <2>1. call[k].goal = "reset" =>
          window'.open /\ sent'[window'.form.msg][window'.form.ver] > 0
    BY <1>1, <1>2, <1>3, <1>7
  <2> QED BY <1>2, <1>4, <1>5, <2>1 DEF CallShape, Opens
<1>14. CASE call[k].goal = "reset"
  <2>1. Win = f /\ Mine(k) = NoForm
    BY <1>1, <1>2, <1>14 DEF Win, Mine, Left
  <2>2. \A g \in {Win', Mine(k)', Nxt(k)'} : g.msg \in Msgs =>
          /\ Good(g)
          /\ g.msg \in {Win.msg, Mine(k).msg, Nxt(k).msg}
          /\ x.step = "folders" /\ x.goal = "reset" /\ Win'.msg = g.msg
    BY <1>4, <1>6, <1>7, <1>14, NoFormGood
  <2>3. \A g \in {Win, Mine(k), Nxt(k)} : g.msg \in Msgs =>
          g.msg \in {Win'.msg, Mine(k)'.msg, Nxt(k)'.msg}
    BY <1>2, <1>6, <2>1, NoFormGood
  <2> QED
    BY <1>1, <1>2, <1>3, <1>4, <1>6, <1>10, <1>11, <1>12, <1>13, <2>2, <2>3, NoFormGood, Moves
<1>15. CASE call[k].goal = "end"
  <2>1. Mine(k) = f
    BY <1>1, <1>15 DEF Mine, Left
  <2>2. Win.msg # f.msg
    BY <1>7, <2>1 DEF CarefulInv, Unique
  <2>3. MayLeave(f.msg)
    BY <1>7 DEF MayLeave
  <2>4. \A g \in {Win', Mine(k)', Nxt(k)'} : g.msg \in Msgs =>
          /\ Good(g)
          /\ g.msg \in {Win.msg, Mine(k).msg, Nxt(k).msg}
          /\ \A v \in Vers : ~(sent[g.msg][v] > 0)
    BY <1>6, <1>7, <1>8, <1>9, <2>2, NoFormGood
  <2>5. \A g \in {Win, Mine(k), Nxt(k)} : g.msg \in Msgs =>
          g.msg \in {Win'.msg, Mine(k)'.msg, Nxt(k)'.msg} \/ MayLeave(g.msg)
    BY <1>2, <1>6, <2>1, <2>3, NoFormGood
  <2> QED
    BY <1>1, <1>2, <1>3, <1>4, <1>6, <1>10, <1>11, <1>12, <1>13, <2>4, <2>5, NoFormGood, Moves
<1> QED BY <1>2, <1>14, <1>15

LEMMA RemoveAnsweredStep ==
  ASSUME TypeOK, Shape, CarefulInv, NEW k \in Calls, RemoveAnswered(k)
  PROVE  CarefulInv'
<1> DEFINE x == Folders("end", NoForm)
<1>1. /\ call[k].step = "removing" /\ \A j \in Calls \ {k} : ~Busy(j)
      /\ UNCHANGED <<drafts, nextUid, sent, latest, discarded>>
      /\ call' = [call EXCEPT ![k] = x] /\ window' = Closed
  BY AloneBusy DEF RemoveAnswered, Answered, Busy, Requests, serverVars, userVars
<1>2. /\ call[k].srv = "ok" /\ window.open /\ call[k].form = window.form
      /\ window.form.msg \in discarded /\ Nxt(k) = NoForm
  <2>1. CallShape(k) /\ call[k].srv \in {"ok", "error"}
    BY DEF RemoveAnswered, Answered, CarefulInv, Shapes
  <2> QED BY <1>1, <2>1 DEF CallShape, Nxt
<1>3. /\ x.step = "folders" /\ x.goal = "end" /\ x.form = NoForm /\ x.next = NoForm
      /\ x.srv = "none"
  BY NoFormGood, FoldersFields DEF Goals
<1> HIDE DEF x
<1>4. call'[k] = x
  BY <1>1 DEF TypeOK
<1>5. Mine(k) = NoForm /\ Mine(k)' = NoForm /\ Nxt(k)' = NoForm
  BY <1>1, <1>3, <1>4 DEF Mine, Nxt, Left
<1>6. MayLeave(Win.msg)
  <2>1. Win = window.form /\ Win = call[k].form
    BY <1>2 DEF Win
  <2>2. \A d \in Uids : drafts[d].msg # call[k].form.msg
    BY <1>1, <1>2 DEF CarefulInv, ServedInv
  <2> QED BY <1>1, <1>2, <2>1, <2>2 DEF MayLeave
<1>7. CallShape(k)'
  BY <1>3, <1>4 DEF CallShape, Opens
<1> QED BY <1>1, <1>2, <1>3, <1>5, <1>6, <1>7, LeaveMoves

LEMMA FoldersLoadedStep ==
  ASSUME TypeOK, Shape, CarefulInv, NEW k \in Calls, FoldersLoaded(k)
  PROVE  CarefulInv'
<1>1. /\ call[k].step = "folders" /\ \A j \in Calls \ {k} : ~Busy(j)
      /\ UNCHANGED <<drafts, nextUid, sent, latest, discarded>>
      /\ call' = [call EXCEPT ![k] = Idle] /\ call'[k] = Idle
  BY AloneBusy DEF FoldersLoaded, Busy, Requests, serverVars, userVars, TypeOK
<1>2. /\ call[k].srv = "none" /\ call[k].goal \in {"end", "reset"} \union Opens
      /\ call[k].goal \in Opens => ~window.open
      /\ call[k].goal \notin Opens => Nxt(k) = NoForm
      /\ call[k].goal = "reset" => window.open /\ sent[window.form.msg][window.form.ver] > 0
      /\ ~window.open => window = Closed
  <2>1. CallShape(k) /\ (~window.open => window = Closed)
    BY DEF CarefulInv, Shapes
  <2> QED BY <1>1, <2>1 DEF CallShape, Nxt
<1>3. Mine(k) = NoForm /\ Mine(k)' = NoForm /\ Nxt(k)' = NoForm /\ CallShape(k)'
  BY <1>1, IdleFields DEF Mine, Nxt, Left, CallShape
<1>4. /\ Good(Win) /\ Good(Nxt(k)) /\ Nxt(k) \in Form
      /\ \A m \in Msgs, v \in Vers : sent[m][v] > 0 => \A d \in Uids : drafts[d].msg # m
  BY <1>1, <1>2, Others, PlaceTypes
<1>5. CASE call[k].goal \in Opens
  <2>1. window' = Assigned(Nxt(k), call[k].goal = "reopen")
    BY <1>5 DEF FoldersLoaded, Opens, Nxt
  <2>2. window'.open /\ window'.form = Nxt(k) /\ window'.dirty = (call[k].goal = "reopen")
    BY <1>4, <2>1, AssignedFields DEF Shape, WindowOK
  <2>3. Win' = Nxt(k) /\ Win = NoForm
    BY <1>2, <1>5, <2>2 DEF Win
  <2>4. Nxt(k).msg \in Msgs /\ Live(Nxt(k).msg)
    BY <1>5 DEF Shape, CallOK, Nxt, Live
  <2>5. \A m \in Msgs, v \in Vers : sent[m][v] > 0 => ~Live(m)
    BY <1>1, <1>5, NotSent DEF Opens
  <2>6. \A g \in {Win', Mine(k)', Nxt(k)'} : g.msg \in Msgs =>
          /\ Good(g)
          /\ g.msg \in {Win.msg, Mine(k).msg, Nxt(k).msg}
          /\ \A v \in Vers : ~(sent[g.msg][v] > 0)
    BY <1>3, <1>4, <2>3, <2>4, <2>5, NoFormGood
  <2>7. \A g \in {Win, Mine(k), Nxt(k)} : g.msg \in Msgs =>
          g.msg \in {Win'.msg, Mine(k)'.msg, Nxt(k)'.msg}
    BY <1>3, <2>3, NoFormGood
  <2>8. /\ Win'.msg \in Msgs => Mine(k)'.msg # Win'.msg /\ Nxt(k)'.msg # Win'.msg
        /\ Mine(k)'.msg \in Msgs => Nxt(k)'.msg # Mine(k)'.msg
    BY <1>3, NoFormGood
  <2>9. window'.open /\ ~window'.dirty /\ Win'.ver > 0 => InDraft(Win')
    <3>1. call[k].goal = "open" /\ Nxt(k).ver > 0 => InDraft(Nxt(k))
      BY DEF CarefulInv, SavedInv
    <3> QED BY <1>5, <2>2, <2>3, <3>1 DEF Opens
  <2> QED
    BY <1>1, <1>2, <1>3, <2>2, <2>6, <2>7, <2>8, <2>9, IdleFields, NoFormGood, Moves
<1>6. CASE call[k].goal = "reset"
  <2>1. window' = Closed
    BY <1>6 DEF FoldersLoaded
  <2>2. Win = window.form /\ Win.msg \in Msgs /\ Win \in Form /\ Win.ver = latest[Win.msg]
    BY <1>2, <1>4, <1>6, WindowFields DEF Win, Good, Shape, WindowOK
  <2>3. sent[Win.msg][Win.ver] > 0
    BY <1>2, <1>6, <2>2
  <2>4. latest[Win.msg] > 0 => \A d \in Uids : drafts[d].msg # Win.msg
    <3>1. latest[Win.msg] > 0 => latest[Win.msg] \in Vers
      BY <2>2, BoundsAssumption DEF TypeOK, Vers
    <3> QED BY <1>4, <2>2, <2>3, <3>1
  <2>5. MayLeave(Win.msg)
    <3>1. CASE latest[Win.msg] > 0
      BY <2>2, <2>3, <2>4, <3>1 DEF MayLeave
    <3>2. CASE ~(latest[Win.msg] > 0)
      BY <1>4, <2>2, <3>2, SavedMayLeave, FormFields
    <3> QED BY <3>1, <3>2
  <2>6. Nxt(k) = NoForm
    BY <1>2, <1>6 DEF Opens
  <2> QED BY <1>1, <1>2, <1>3, <2>1, <2>5, <2>6, IdleFields, LeaveMoves
<1>7. CASE call[k].goal = "end"
  <2>1. window' = window /\ Nxt(k) = NoForm
    BY <1>2, <1>7 DEF FoldersLoaded, Opens
  <2> QED BY <1>1, <1>2, <1>3, <1>7, <2>1, IdleFields, StillMoves
<1> QED BY <1>2, <1>5, <1>6, <1>7

----------------------------------------------------------------------------
(* The invariant.                                                          *)

LEMMA CarefulInit == Init => CarefulInv
<1> SUFFICES ASSUME Init PROVE CarefulInv
  OBVIOUS
<1>1. /\ window = Closed /\ ~window.open /\ Win = NoForm /\ nextUid = 1
      /\ \A k \in Calls : call[k] = Idle /\ call[k].step = "idle" /\ call[k].goal = "none"
      /\ \A u \in Uids : drafts[u] = NoForm
      /\ \A m \in Msgs : latest[m] = 0 /\ \A v \in Vers : sent[m][v] = 0
  BY ClosedFields, IdleFields DEF Init, Win
<1>2. \A k \in Calls : Mine(k) = NoForm /\ Nxt(k) = NoForm
  BY <1>1, IdleFields DEF Mine, Nxt, Left
<1>3. ~(NoForm.msg \in Msgs)
  BY NoFormGood
<1>4. OneBusy /\ Shapes
  BY <1>1 DEF OneBusy, Busy, Requests, Shapes, CallShape
<1>5. Unique /\ FormsOK
  BY <1>1, <1>2, <1>3 DEF Unique, FormsOK, FormOK
<1>6. DraftsInv /\ ServedInv
  BY <1>1, <1>3 DEF DraftsInv, ServedInv
<1>7. SentGone /\ SavedInv /\ KeptInv
  BY <1>1 DEF SentGone, SavedInv, KeptInv
<1> QED BY <1>4, <1>5, <1>6, <1>7 DEF CarefulInv

LEMMA CarefulUnchanged ==
  ASSUME CarefulInv, UNCHANGED vars
  PROVE  CarefulInv'
<1>1. /\ window' = window /\ call' = call /\ drafts' = drafts /\ nextUid' = nextUid
      /\ latest' = latest /\ discarded' = discarded /\ sent' = sent
  BY DEF vars
<1>2. Win' = Win /\ \A j \in Calls : Mine(j)' = Mine(j) /\ Nxt(j)' = Nxt(j)
  BY <1>1 DEF Win, Mine, Nxt, Left
<1>3. \A m : Live(m)' <=> Live(m)
  BY <1>2 DEF Live
<1>4. /\ OneBusy /\ Shapes /\ Unique /\ FormsOK /\ DraftsInv /\ ServedInv /\ SentGone
      /\ SavedInv /\ KeptInv
  BY DEF CarefulInv
<1>5. OneBusy' /\ Shapes' /\ Unique'
  BY <1>1, <1>2, <1>4 DEF OneBusy, Busy, Shapes, CallShape, Unique
<1>6. FormsOK'
  <2>1. \A f : FormOK(f) => FormOK(f)'
    BY <1>1 DEF FormOK, Replacing, Uids
  <2> QED BY <1>1, <1>2, <1>4, <2>1 DEF FormsOK, FormOK, Replacing, Uids
<1>7. DraftsInv'
  BY <1>1, <1>3, <1>4 DEF DraftsInv, Uids
<1>8. ServedInv'
  BY <1>1, <1>4 DEF ServedInv, Uids
<1>9. SentGone'
  BY <1>1, <1>2, <1>3, <1>4 DEF SentGone, Uids, Vers
<1>10. SavedInv' /\ KeptInv'
  BY <1>1, <1>2, <1>3, <1>4 DEF SavedInv, InDraft, KeptInv, Uids
<1> QED BY <1>4, <1>5, <1>6, <1>7, <1>8, <1>9, <1>10 DEF CarefulInv

LEMMA CarefulStep ==
  ASSUME TypeOK, Shape, CarefulInv, Orderly, [Next]_vars
  PROVE  CarefulInv'
<1>1. Careful /\ Faults = {}
  BY DEF Orderly
<1>2. CASE UserStep
  <2>1. ASSUME NEW k \in Calls, Cancel(k) \/ LateCancel(k) PROVE CarefulInv'
    BY <1>1, <2>1, DelaySteps DEF LateCancel
  <2> QED BY <1>1, <1>2, <2>1, OpeningSteps, EditStep, WindowSteps DEF UserStep
<1>3. CASE AutosaveTimeout
  BY <1>1, <1>3, WindowSteps
<1>4. ASSUME NEW k \in Calls, CallStep(k) PROVE CarefulInv'
  <2>1. ~RequestFails(k)
    BY <1>1 DEF RequestFails
  <2> QED
    BY <1>1, <1>4, <2>1, LoadedStep, DelaySteps, AppendStep, DeliverStep, ExpungeStep,
       SaveAnsweredStep, SendAnsweredStep, RemoveAnsweredStep, FoldersLoadedStep DEF CallStep
<1>5. CASE UNCHANGED vars
  BY <1>5, CarefulUnchanged
<1> QED BY <1>2, <1>3, <1>4, <1>5 DEF Next

LEMMA InitInv == Init => ComposeInv
<1> SUFFICES ASSUME Init PROVE ComposeInv
  OBVIOUS
<1>1. TypeOK /\ Shape /\ CarefulInv
  BY InitOK, CarefulInit
<1>2. SentInv
  <2> SUFFICES ASSUME NEW m \in Msgs, NEW v \in Vers
               PROVE  /\ IsFiniteSet(Waiting(call, m, v))
                      /\ sent[m][v] + Cardinality(Waiting(call, m, v)) <= submitted[m][v]
    BY DEF SentInv
  <2>1. Waiting(call, m, v) = {}
    BY IdleFields DEF Init, Waiting, Waits
  <2>2. sent[m][v] = 0 /\ submitted[m][v] = 0
    BY DEF Init
  <2> QED BY <2>1, <2>2, FS_EmptySet
<1>3. UndoneInv
  BY DEF Init, UndoneInv
<1> QED BY <1>1, <1>2, <1>3 DEF ComposeInv

LEMMA NextInv == ComposeInv /\ [Next]_vars => ComposeInv'
<1> SUFFICES ASSUME ComposeInv, [Next]_vars PROVE ComposeInv'
  OBVIOUS
<1>1. TypeOK /\ Shape /\ SentInv /\ UndoneInv /\ (Orderly => CarefulInv)
  BY DEF ComposeInv
<1>2. TypeOK' /\ Shape' /\ SentInv' /\ UndoneInv'
  BY <1>1, TypeStep, SentStep, UndoneStep
<1>3. Orderly => CarefulInv'
  BY <1>1, CarefulStep
<1> QED BY <1>2, <1>3 DEF ComposeInv, Orderly

\* The last text of a message that has a place is there.
LEMMA KeptFacts ==
  ASSUME TypeOK, Shape, CarefulInv
  PROVE  NothingLost
<1> SUFFICES ASSUME NEW m \in Msgs \ discarded, latest[m] > 0 PROVE Kept(m, latest[m])
  BY DEF NothingLost
<1>0. FormsOK /\ KeptInv
  BY DEF CarefulInv
<1>1. CASE Win.msg = m
  <2>1. window.open /\ Win = window.form
    BY <1>1, NoFormGood DEF Win
  <2> QED BY <1>0, <1>1, <2>1 DEF FormsOK, FormOK, Kept, Holds
<1>2. ASSUME NEW j \in Calls, Mine(j).msg = m PROVE Kept(m, latest[m])
  <2>1. Left(j) /\ Mine(j) = call[j].form
    BY <1>2, NoFormGood DEF Mine
  <2> QED BY <1>0, <1>2, <2>1 DEF FormsOK, FormOK, Kept, Holds, Left
<1>3. ASSUME NEW j \in Calls, Nxt(j).msg = m PROVE Kept(m, latest[m])
  BY <1>0, <1>3 DEF FormsOK, FormOK, Kept, Holds, Nxt
<1>4. CASE ~Live(m)
  BY <1>0, <1>4 DEF KeptInv, Kept
<1> QED BY <1>1, <1>2, <1>3, <1>4 DEF Live

LEMMA TidyFacts ==
  ASSUME TypeOK, Shape, CarefulInv
  PROVE  DraftsTidy
<1> SUFFICES ASSUME Quiet, NEW m \in Msgs
             PROVE  LET own == {u \in Uids : drafts[u].msg = m}
                    IN  /\ Cardinality(own) <= 1
                        /\ latest[m] > 0 /\ sent[m][latest[m]] > 0 => own = {}
  BY DEF DraftsTidy
<1> DEFINE own == {u \in Uids : drafts[u].msg = m}
<1>1. \A j \in Calls : call[j].step \notin {"saving", "sending"}
  BY DEF Quiet, Requests
<1>2. \A t, u \in own : t = u
  BY <1>1 DEF CarefulInv, DraftsInv
<1>3. Cardinality(own) <= 1
  <2>1. CASE own = {}
    BY <2>1, FS_EmptySet
  <2>2. CASE own # {}
    <3>1. PICK u \in own : TRUE
      BY <2>2
    <3>2. own = {u}
      BY <1>2, <3>1
    <3> QED BY <3>2, FS_Singleton
  <2> QED BY <2>1, <2>2
<1>4. ASSUME latest[m] > 0, sent[m][latest[m]] > 0 PROVE own = {}
  <2>1. latest[m] \in Vers
    BY <1>4, BoundsAssumption DEF TypeOK, Vers
  <2> QED BY <1>1, <1>4, <2>1 DEF CarefulInv, SentGone
<1> QED BY <1>3, <1>4

LEMMA OwnFacts ==
  ASSUME TypeOK, Shape, CarefulInv
  PROVE  OwnDraftOnly
<1> SUFFICES ASSUME NEW k \in Calls, call[k].srv \in {"asked", "stored"}, call[k].form.draft # 0
             PROVE  drafts[call[k].form.draft].msg \in {NoMsg, call[k].form.msg}
  BY DEF OwnDraftOnly
<1>1. CallShape(k) /\ call[k].step \in Steps
  BY CallFields DEF CarefulInv, Shapes, TypeOK
<1>2. call[k].step \in {"saving", "sending", "removing"}
  BY <1>1, IdleFields DEF CallShape, Steps
<1> QED BY <1>2, BusyForm

LEMMA InvSound == ComposeInv => ComposeSound
<1> SUFFICES ASSUME ComposeInv PROVE ComposeSound
  OBVIOUS
<1>1. AsSubmitted
  <2> SUFFICES ASSUME NEW m \in Msgs, NEW v \in Vers PROVE sent[m][v] <= submitted[m][v]
    BY DEF AsSubmitted
  <2>1. /\ IsFiniteSet(Waiting(call, m, v))
        /\ sent[m][v] + Cardinality(Waiting(call, m, v)) <= submitted[m][v]
    BY DEF ComposeInv, SentInv
  <2>2. sent[m][v] \in Nat /\ submitted[m][v] \in Nat
    BY BoundsAssumption DEF ComposeInv, TypeOK
  <2> QED BY <2>1, <2>2, FS_CardinalityType
<1>2. "late" \notin Faults => CancelledNotSent
  BY DEF ComposeInv, UndoneInv, CancelledNotSent
<1>3. Careful /\ Faults = {} => NothingLost /\ DraftsTidy /\ OwnDraftOnly
  BY KeptFacts, TidyFacts, OwnFacts DEF ComposeInv, Orderly
<1> QED BY <1>1, <1>2, <1>3 DEF ComposeSound

\* The property of the run "compose", for any messages, calls and bounds, and
\* whatever fails: what is delivered was submitted, a cancelled send is not
\* delivered unless its toast outlives its delay, and a user who waits for the
\* requests in flight loses nothing (compose.ts:331-446).
THEOREM ComposeIsSound == Spec => []ComposeSound
<1>1. Init => ComposeInv
  BY InitInv
<1>2. ComposeInv /\ [Next]_vars => ComposeInv'
  BY NextInv
<1>3. ComposeInv => ComposeSound
  BY InvSound
<1> QED BY <1>1, <1>2, <1>3, PTL DEF Spec

=============================================================================

------------------------------ MODULE Compose ------------------------------
(***************************************************************************)
(* Writing a message: the compose window (app/stores/compose.ts), and the  *)
(* two handlers it calls, server/api/drafts.post.ts and                    *)
(* server/api/send.post.ts, with the drafts they keep on the mail server.  *)
(*                                                                         *)
(* The window holds one form.  An edit arms the autosave timer.  A save    *)
(* appends a new draft to the folder of drafts and expunges the one that   *)
(* the form came from; its answer gives the form the uid of the new draft. *)
(* A send may wait for the delay of "undo", during which the window is     *)
(* free for another message.                                               *)
(*                                                                         *)
(* Every chain of awaits of the window (a save, a close and what follows   *)
(* it, a send) is a call; calls overlap, and end in any order.  The text   *)
(* of a message is a version number: what matters is which one is where.   *)
(***************************************************************************)
EXTENDS Naturals, FiniteSets

CONSTANTS
  Msgs,      \* messages the user writes
  NoMsg,
  Calls,     \* slots for the chains of awaits, reused when idle
  MaxVer,    \* bound on the edits of a message
  MaxUid,    \* bound on the drafts appended
  MaxSends,  \* bound on the times a version is submitted
  Careful,   \* the user, and timers, wait for the requests in flight to end,
             \* and the draft of an open or submitted form is not opened again
  Faults     \* "save", "send": the request fails; "lost": its answer is lost;
             \* "late": the toast that cancels a send outlives its delay

ASSUME NullAssumption == NoMsg \notin Msgs
ASSUME BoundsAssumption == MaxVer \in Nat /\ MaxUid \in Nat /\ MaxSends \in Nat
ASSUME FlagsAssumption ==
  /\ Careful \in BOOLEAN
  /\ Faults \subseteq {"save", "send", "lost", "late"}

VARIABLES
  window,     \* the state of the store: the form, isOpen, dirty, autosaveTimer
  call,       \* call[k]: a chain of awaits
  drafts,     \* drafts[u]: the form saved as draft u on the server, if any
  nextUid,    \* the uid of the next draft
  latest,     \* latest[m]: the last version of m the user has written (history)
  discarded,  \* messages the user has discarded (history)
  submitted,  \* submitted[m][v]: how often version v of m was submitted (history)
  sent,       \* sent[m][v]: how often it was handed to the SMTP server
  undone      \* calls whose send the user has cancelled (history)

vars == <<window, call, drafts, nextUid, latest, discarded, submitted, sent, undone>>
serverVars == <<drafts, nextUid, sent>>
userVars == <<latest, discarded, submitted, undone>>

Vers == 1..MaxVer
Uids == 1..MaxUid

\* A form: the message, the version of its text, draftUid (0: null).
Form == [msg : Msgs \union {NoMsg}, ver : 0..MaxVer, draft : 0..MaxUid]
NoForm == [msg |-> NoMsg, ver |-> 0, draft |-> 0]

\* step: what the chain awaits.  goal: what it does once a save or the reload of
\* the folders has ended.  next: the form it then opens.  srv: how far the
\* server has got with its request.  uid: the draft appended.
Steps == {"idle", "opening", "saving", "folders", "pending", "sending", "removing"}
Goals == {"none", "stay", "end", "reset", "open", "reopen"}
Progress == {"none", "asked", "stored", "ok", "error"}
CallType ==
  [step : Steps, goal : Goals, form : Form, next : Form, srv : Progress, uid : 0..MaxUid]
Idle == [step |-> "idle", goal |-> "none", form |-> NoForm, next |-> NoForm,
         srv |-> "none", uid |-> 0]

TypeOK ==
  /\ window \in [open : BOOLEAN, form : Form, dirty : BOOLEAN, timer : BOOLEAN]
  /\ call \in [Calls -> CallType]
  /\ drafts \in [Uids -> Form]
  /\ nextUid \in 1..(MaxUid + 1)
  /\ latest \in [Msgs -> 0..MaxVer]
  /\ discarded \subseteq Msgs
  /\ submitted \in [Msgs -> [Vers -> 0..MaxSends]]
  /\ sent \in [Msgs -> [Vers -> Nat]]
  /\ undone \subseteq Calls

\* reset()
Closed == [open |-> FALSE, form |-> NoForm, dirty |-> FALSE, timer |-> FALSE]

Init ==
  /\ window = Closed
  /\ call = [k \in Calls |-> Idle]
  /\ drafts = [u \in Uids |-> NoForm]
  /\ nextUid = 1
  /\ latest = [m \in Msgs |-> 0]
  /\ discarded = {}
  /\ submitted = [m \in Msgs |-> [v \in Vers |-> 0]]
  /\ sent = [m \in Msgs |-> [v \in Vers |-> 0]]
  /\ undone = {}

----------------------------------------------------------------------------
(* Opening and closing the window.                                         *)

Requests == {"opening", "saving", "sending", "removing", "folders"}
Quiet == \A k \in Calls : call[k].step \notin Requests
MayAct == Careful => Quiet

Chain(step, goal, form, next, srv) ==
  [step |-> step, goal |-> goal, form |-> form, next |-> next, srv |-> srv, uid |-> 0]
Saving(f, goal, next) == Chain("saving", goal, f, next, "asked")
Folders(goal, next) == Chain("folders", goal, NoForm, next, "none")

\* Object.assign(this, emptyForm(), form): the autosave timer is left alone.
Assigned(f, dirty) == [open |-> TRUE, form |-> f, dirty |-> dirty, timer |-> window.timer]

\* Fault: a form that already has a draft is taken for saved.
CloseNewOnly(k, goal, next) ==
  IF window.dirty /\ window.form.ver > 0 /\ window.form.draft = 0
    THEN /\ call' = [call EXCEPT ![k] = Saving(window.form, goal, next)]
         /\ window' = [window EXCEPT !.timer = FALSE]
    ELSE /\ call' = [call EXCEPT ![k] = Folders(goal, next)]
         /\ window' = Closed

\* close(), then `goal': save what is modified and not empty, or reset at once.
CloseThen(k, goal, next) ==
  IF window.dirty /\ window.form.ver > 0
    THEN /\ call' = [call EXCEPT ![k] = Saving(window.form, goal, next)]
         /\ window' = [window EXCEPT !.timer = FALSE]
    ELSE /\ call' = [call EXCEPT ![k] = Folders(goal, next)]
         /\ window' = Closed

\* openWith(f): close an open window first.  After a cancelled send ("reopen")
\* the form is marked as modified.
OpenThen(k, f, goal) ==
  IF window.open THEN CloseThen(k, goal, f)
  ELSE /\ window' = Assigned(f, goal = "reopen")
       /\ call' = [call EXCEPT ![k] = Idle]

Opening(f) == Chain("opening", "open", NoForm, f, "none")

\* openNew(), openReply(), openForward(): load the identities ...
New(m) ==
  /\ MayAct
  /\ latest[m] = 0 /\ m \notin discarded
  /\ window.form.msg # m
  /\ \A k \in Calls : call[k].next.msg # m
  /\ \E k \in Calls :
       call[k] = Idle /\ call' = [call EXCEPT ![k] = Opening([NoForm EXCEPT !.msg = m])]
  /\ UNCHANGED <<window, serverVars, userVars>>

\* Draft u is the one of a form that is open, to be opened, or submitted.
InUse(u) ==
  \/ window.form.draft = u
  \/ \E k \in Calls : u \in {call[k].form.draft, call[k].next.draft}

\* openDraft(): load the attachments of the draft, whose text has been read ...
OpenDraft(u) ==
  /\ MayAct
  /\ drafts[u] # NoForm
  /\ Careful => ~InUse(u)
  /\ \E k \in Calls :
       call[k] = Idle /\ call' = [call EXCEPT ![k] = Opening([drafts[u] EXCEPT !.draft = u])]
  /\ UNCHANGED <<window, serverVars, userVars>>

\* ... then open the form; a draft is not opened if its attachments cannot be.
Loaded(k) ==
  /\ call[k].step = "opening"
  /\ \/ OpenThen(k, call[k].next, "open")
     \/ /\ call[k].next.draft # 0
        /\ call' = [call EXCEPT ![k] = Idle]
        /\ UNCHANGED window
  /\ UNCHANGED <<serverVars, userVars>>

\* touch(): the form is modified, the autosave timer starts again.
Edit ==
  LET m == window.form.msg IN
    /\ MayAct
    /\ window.open
    /\ latest[m] < MaxVer
    /\ latest' = [latest EXCEPT ![m] = @ + 1]
    /\ window' = [open |-> TRUE, form |-> [window.form EXCEPT !.ver = latest[m] + 1],
                  dirty |-> TRUE, timer |-> TRUE]
    /\ UNCHANGED <<call, serverVars, discarded, submitted, undone>>

\* The autosave timer fires: saveDraft().
AutosaveTimeout ==
  /\ MayAct
  /\ window.timer
  /\ window' = [window EXCEPT !.timer = FALSE]
  /\ IF window.dirty /\ window.form.ver > 0
       THEN \E k \in Calls :
              /\ call[k] = Idle
              /\ call' = [call EXCEPT ![k] = Saving(window.form, "stay", NoForm)]
       ELSE UNCHANGED call
  /\ UNCHANGED <<serverVars, userVars>>

CloseWindow ==
  /\ MayAct
  /\ window.open
  /\ \E k \in Calls : call[k] = Idle /\ CloseThen(k, "end", NoForm)
  /\ UNCHANGED <<serverVars, userVars>>

\* discard(): delete the draft of the form, if it has one, and reset.
Discard ==
  /\ MayAct
  /\ window.open
  /\ discarded' = discarded \union {window.form.msg}
  /\ \E k \in Calls :
       /\ call[k] = Idle
       /\ IF window.form.draft # 0
            THEN /\ call' = [call EXCEPT ![k] = Chain("removing", "none", window.form, NoForm, "asked")]
                 /\ window' = [window EXCEPT !.timer = FALSE]
            ELSE /\ call' = [call EXCEPT ![k] = Folders("end", NoForm)]
                 /\ window' = Closed
  /\ UNCHANGED <<serverVars, latest, submitted, undone>>

----------------------------------------------------------------------------
(* Sending.                                                                *)

\* goal: a send that was delayed ends, any other resets the window.
Sending(f, goal) == Chain("sending", goal, f, NoForm, "asked")

\* send(): with a delay (the preference undoSendSeconds, which may change) the
\* window is reset at once and the form waits; otherwise the request is made
\* and the window stays as it is.  Nothing
\* prevents a second submission of a form that is being sent.
Send ==
  LET f == window.form IN
    /\ MayAct
    /\ window.open /\ f.ver > 0
    /\ submitted[f.msg][f.ver] < MaxSends
    /\ submitted' = [submitted EXCEPT ![f.msg][f.ver] = @ + 1]
    /\ \E k \in Calls :
         /\ call[k] = Idle
         /\ undone' = undone \ {k}
         /\ \/ /\ call' = [call EXCEPT ![k] = Chain("pending", "none", f, NoForm, "none")]
               /\ window' = Closed
            \/ /\ call' = [call EXCEPT ![k] = Sending(f, "reset")]
               /\ window' = [window EXCEPT !.timer = FALSE]
    /\ UNCHANGED <<serverVars, latest, discarded>>

\* The delay has elapsed: doSend().
UndoTimeout(k) ==
  /\ MayAct
  /\ call[k].step = "pending"
  /\ call' = [call EXCEPT ![k] = Sending(call[k].form, "end")]
  /\ UNCHANGED <<window, serverVars, userVars>>

\* "Cancel" in the toast: clear the timer, open the form again.
Cancel(k) ==
  /\ MayAct
  /\ call[k].step = "pending"
  /\ undone' = undone \union {k}
  /\ OpenThen(k, call[k].form, "reopen")
  /\ UNCHANGED <<serverVars, latest, discarded, submitted>>

\* The same once the timer has fired: the toast stays while the pointer is on it.
LateCancel(k) ==
  /\ "late" \in Faults
  /\ call[k].step = "sending" /\ call[k].goal = "end" /\ call[k].srv = "asked"
  /\ k \notin undone
  /\ undone' = undone \union {k}
  /\ \E j \in Calls : call[j] = Idle /\ OpenThen(j, call[k].form, "reopen")
  /\ UNCHANGED <<serverVars, latest, discarded, submitted>>

----------------------------------------------------------------------------
(* The handlers.                                                           *)

\* The draft that a form came from is expunged, if it is still there.
Expunged(ds, u) == [d \in Uids |-> IF d = u THEN NoForm ELSE ds[d]]

\* The draft is appended with uid u.
Stored(x, u) == [x EXCEPT !.srv = "stored", !.uid = u]

\* drafts.post.ts: append the new draft ...
Append(k) ==
  /\ call[k].step = "saving" /\ call[k].srv = "asked"
  /\ nextUid <= MaxUid
  /\ drafts' = [drafts EXCEPT ![nextUid] = [call[k].form EXCEPT !.draft = 0]]
  /\ nextUid' = nextUid + 1
  /\ call' = [call EXCEPT ![k] = Stored(call[k], nextUid)]
  /\ UNCHANGED <<window, sent, userVars>>

\* send.post.ts: hand the message to the SMTP server ...
Deliver(k) ==
  LET f == call[k].form IN
    /\ call[k].step = "sending" /\ call[k].srv = "asked"
    /\ sent' = [sent EXCEPT ![f.msg][f.ver] = @ + 1]
    /\ call' = [call EXCEPT ![k].srv = "stored"]
    /\ UNCHANGED <<window, drafts, nextUid, userVars>>

\* ... then, both, expunge the old draft.
Expunge(k) ==
  /\ call[k].srv = "stored"
  /\ drafts' = Expunged(drafts, call[k].form.draft)
  /\ call' = [call EXCEPT ![k].srv = "ok"]
  /\ UNCHANGED <<window, nextUid, sent, userVars>>

\* delete.post.ts, called by discard().
Remove(k) ==
  /\ call[k].step = "removing" /\ call[k].srv = "asked"
  /\ drafts' = Expunged(drafts, call[k].form.draft)
  /\ call' = [call EXCEPT ![k].srv = "ok"]
  /\ UNCHANGED <<window, nextUid, sent, userVars>>

\* A request fails before it has changed anything, or its answer is lost.
RequestFails(k) ==
  /\ \/ call[k].srv = "asked" /\ call[k].step = "saving" /\ "save" \in Faults
     \/ call[k].srv = "asked" /\ call[k].step = "sending" /\ "send" \in Faults
     \/ call[k].srv = "ok" /\ call[k].step # "removing" /\ "lost" \in Faults
  /\ call' = [call EXCEPT ![k].srv = "error"]
  /\ UNCHANGED <<window, serverVars, userVars>>

----------------------------------------------------------------------------
(* The answers.                                                            *)

Answered(k, step) == call[k].step = step /\ call[k].srv \in {"ok", "error"}

\* saveDraft() after its await: the form of the window, whichever it is by now,
\* gets the uid and is no longer modified.
WithSaved(w, k) ==
  IF call[k].srv = "ok"
    THEN [open |-> w.open, form |-> [w.form EXCEPT !.draft = call[k].uid], dirty |-> FALSE,
          timer |-> w.timer]
    ELSE w

\* An autosave ends there; a close resets the window, saved or not.
SaveAnswered(k) ==
  /\ Answered(k, "saving")
  /\ IF call[k].goal = "stay"
       THEN /\ window' = WithSaved(window, k)
            /\ call' = [call EXCEPT ![k] = Idle]
       ELSE /\ window' = Closed
            /\ call' = [call EXCEPT ![k] = Folders(call[k].goal, call[k].next)]
  /\ UNCHANGED <<serverVars, userVars>>

\* Fault: a failed send is not handled.
SendAnsweredOk(k) ==
  /\ Answered(k, "sending") /\ call[k].srv = "ok"
  /\ call' = [call EXCEPT ![k] = Folders(call[k].goal, NoForm)]
  /\ UNCHANGED <<window, serverVars, userVars>>

\* Fault: a failed send is tried again.
SendAnsweredRetry(k) ==
  /\ Answered(k, "sending")
  /\ IF call[k].srv = "ok"
       THEN call' = [call EXCEPT ![k] = Folders(call[k].goal, NoForm)]
       ELSE call' = [call EXCEPT ![k] = Sending(call[k].form, call[k].goal)]
  /\ UNCHANGED <<window, serverVars, userVars>>

\* doSend() after its await: on failure the form is opened again, not modified.
SendAnswered(k) ==
  /\ Answered(k, "sending")
  /\ IF call[k].srv = "ok"
       THEN /\ call' = [call EXCEPT ![k] = Folders(call[k].goal, NoForm)]
            /\ UNCHANGED window
       ELSE OpenThen(k, call[k].form, "open")
  /\ UNCHANGED <<serverVars, userVars>>

RemoveAnswered(k) ==
  /\ Answered(k, "removing")
  /\ window' = Closed
  /\ call' = [call EXCEPT ![k] = Folders("end", NoForm)]
  /\ UNCHANGED <<serverVars, userVars>>

\* loadFolders() has ended, which always succeeds: do what follows.
FoldersLoaded(k) ==
  /\ call[k].step = "folders"
  /\ call' = [call EXCEPT ![k] = Idle]
  /\ window' = CASE call[k].goal \in {"open", "reopen"} ->
                      Assigned(call[k].next, call[k].goal = "reopen")
                 [] call[k].goal = "reset" -> Closed
                 [] OTHER -> window
  /\ UNCHANGED <<serverVars, userVars>>

----------------------------------------------------------------------------

UserStep ==
  \/ \E m \in Msgs : New(m)
  \/ \E u \in Uids : OpenDraft(u)
  \/ Edit \/ CloseWindow \/ Discard \/ Send
  \/ \E k \in Calls : Cancel(k) \/ LateCancel(k)

CallStep(k) ==
  \/ Loaded(k) \/ UndoTimeout(k) \/ Append(k) \/ Deliver(k) \/ Expunge(k) \/ Remove(k)
  \/ RequestFails(k) \/ SaveAnswered(k) \/ SendAnswered(k) \/ RemoveAnswered(k)
  \/ FoldersLoaded(k)

Next == UserStep \/ AutosaveTimeout \/ \E k \in Calls : CallStep(k)

Spec == Init /\ [][Next]_vars

\* The timers of the window fire, requests end (answers come or connections
\* break), and the browser runs what follows.  The user need not do anything.
Fairness ==
  /\ WF_vars(AutosaveTimeout)
  /\ \A k \in Calls : WF_vars(CallStep(k))

FairSpec == Spec /\ Fairness

----------------------------------------------------------------------------
(* Properties.                                                             *)

\* Version v of m can still be found: in the window, in the folder of drafts, in
\* a request, in a form that waits to be sent or opened again, or sent.
Holds(f, m, v) == f.msg = m /\ f.ver = v
Kept(m, v) ==
  \/ window.open /\ Holds(window.form, m, v)
  \/ \E u \in Uids : Holds(drafts[u], m, v)
  \/ \E k \in Calls :
       \/ Holds(call[k].next, m, v)
       \/ call[k].step \in {"saving", "pending", "sending"} /\ Holds(call[k].form, m, v)
  \/ sent[m][v] > 0

\* "fermer la fenetre ou l'onglet ne perd rien" (docs/guide/messages.md:33-34):
\* unless the user discards it, the last text written in a message is never
\* lost, across autosaves, closes, sends, cancelled and failed sends.
NothingLost ==
  \A m \in Msgs \ discarded : latest[m] > 0 => Kept(m, latest[m])

\* When nothing is going on, a message has at most one draft, and none once its
\* last version has been sent: saves and sends expunge the draft they replace.
DraftsTidy ==
  Quiet => \A m \in Msgs :
    LET own == {u \in Uids : drafts[u].msg = m}
    IN  Cardinality(own) <= 1 /\ (latest[m] > 0 /\ sent[m][latest[m]] > 0 => own = {})

\* A save or a send of a message never expunges the draft of another message.
OwnDraftOnly ==
  \A k \in Calls : call[k].srv \in {"asked", "stored"} =>
    LET f == call[k].form
    IN  f.draft # 0 => drafts[f.draft].msg \in {NoMsg, f.msg}

\* What is delivered is what the user submitted, each time at most once: neither
\* later edits nor another message opened during the delay get into a send, and
\* a failed or cancelled one is not repeated by itself.
AsSubmitted ==
  \A m \in Msgs, v \in Vers : sent[m][v] <= submitted[m][v]

\* A send the user has cancelled is not delivered.
CancelledNotSent ==
  \A k \in undone : ~(call[k].step = "sending" /\ call[k].srv = "stored")

\* Whatever happens, what is delivered is what was submitted, once; without late
\* cancels, a cancelled send is not delivered (compose.ts:387-446).  With a user
\* who waits and no failure, no text is lost, drafts do not pile up or outlive
\* their message, and none is expunged for another (compose.ts:331-380,
\* drafts.post.ts:23-35).
ComposeSound ==
  /\ AsSubmitted
  /\ "late" \notin Faults => CancelledNotSent
  /\ Careful /\ Faults = {} => NothingLost /\ DraftsTidy /\ OwnDraftOnly

=============================================================================

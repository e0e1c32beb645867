------------------------------ MODULE Mailbox ------------------------------
(***************************************************************************)
(* The folders and the messages of an account, and the requests that       *)
(* change them: the routes of server/api/folders and server/api/messages,  *)
(* each a sequence of commands of the backend (server/lib/mail/imap.ts,    *)
(* and mock.ts for the demo).                                              *)
(*                                                                         *)
(* A command is one step.  Between two commands of a request the commands  *)
(* of others take place, and messages arrive.  Every command may fail, and *)
(* the request ends there.                                                 *)
(*                                                                         *)
(* A path is a sequence of names.  A path is created once: the requests do *)
(* not look at UIDVALIDITY, and what happens to one that is in flight when *)
(* its folder is replaced by another of the same name is left out.         *)
(***************************************************************************)
EXTENDS Integers, FiniteSets, Sequences, SequencesExt

CONSTANTS
  Personal,   \* paths of the folders that are not special
  Existing,   \* those that exist at the beginning
  Hideable,   \* folders the user may unsubscribe from
  Renameable, \* folders the user may rename
  TrashChoices,  \* what prefs.specialFolders.trash may be: a path, or NoPath
  Delivered,  \* folders messages arrive in
  Modes,      \* what prefs.deleteMode may be
  NoPath,     \* the empty path
  Msgs,       \* messages that arrive
  Requests,   \* requests, each made once
  Batch,      \* BATCH of a folder's deletion, and batches of empty and mark-read
  MaxUid      \* bound on the uids of a folder

Inbox == <<"INBOX">>
Trash == <<"Trash">>
Junk == <<"Junk">>
Special == {Inbox, Trash, Junk}
Paths == Special \union Personal

ASSUME PathsAssumption ==
  /\ \A p \in Personal : p \in Seq(STRING) /\ p # << >>
  /\ Existing \subseteq Personal /\ NoPath \notin Paths
ASSUME BoundsAssumption == Batch \in Nat \ {0} /\ MaxUid \in Nat

VARIABLES
  folder,   \* the folders: a function of the paths that exist
  used,     \* paths that exist or have existed
  chosen,   \* prefs.specialFolders.trash
  mode,     \* prefs.deleteMode
  req,      \* req[r]: the state of request r
  arrived,  \* messages that have arrived (history)
  removed,  \* messages removed for good by a request that says so (history)
  strays,   \* messages put in a folder while it is being deleted, or there when a
            \* page of it was empty by mistake (history)
  marked    \* messages a request was asked to mark as read (history)

vars == <<folder, used, chosen, mode, req, arrived, removed, strays, marked>>
history == <<arrived, removed, strays, marked>>

Entry == [uid : 1..MaxUid, msg : Msgs, seen : BOOLEAN]
Folder == [box : SUBSET Entry, next : 1..(MaxUid + 1), subscribed : BOOLEAN]
NoFolder == [box |-> {}, next |-> 1, subscribed |-> TRUE]
Uids(b) == {e.uid : e \in b}
MsgsOf(b) == {e.msg : e \in b}

Kinds == {"delete", "junk", "move", "copy", "flags", "open", "empty", "mark-read",
          "rmdir", "rename", "create"}
PCs == {"idle", "list", "uids", "fetch", "act", "check", "commit", "subscribe", "confirm", "done", "failed"}
\* dest of a deletion is its own folder when it is for good.  sure (history, of
\* a deletion): the settings have not changed since it began, and a trash was in the list.
Request == [pc : PCs, kind : Kinds, path : Paths \union {NoPath},
            uids : SUBSET (1..MaxUid), dest : Paths \union {NoPath}, sure : BOOLEAN]
Idle == [pc |-> "idle", kind |-> "move", path |-> NoPath, uids |-> {}, dest |-> NoPath, sure |-> TRUE]
Ended == {"idle", "done", "failed"}

TypeOK ==
  /\ DOMAIN folder \subseteq Paths /\ folder \in [DOMAIN folder -> Folder]
  /\ used \in SUBSET Paths /\ DOMAIN folder \subseteq used
  /\ chosen \in TrashChoices /\ mode \in Modes
  /\ req \in [Requests -> Request]
  /\ arrived \in SUBSET Msgs /\ removed \in SUBSET Msgs
  /\ strays \in SUBSET Msgs /\ marked \in SUBSET Msgs

Init ==
  /\ folder = [p \in Special \union Existing |-> NoFolder]
  /\ used = Special \union Existing
  /\ chosen \in TrashChoices /\ mode \in Modes
  /\ req = [r \in Requests |-> Idle]
  /\ arrived = {} /\ removed = {} /\ strays = {} /\ marked = {}

----------------------------------------------------------------------------
(* What a list of the folders says.                                        *)

\* specialUseOf().
ServerUse(p) ==
  CASE p = Inbox -> "inbox" [] p = Trash -> "trash" [] p = Junk -> "junk" [] OTHER -> "none"

\* applySpecialFolderOverrides(): the chosen path is the only one of its use.
UserUse(p) ==
  IF chosen = NoPath THEN ServerUse(p)
  ELSE IF p = chosen THEN "trash"
  ELSE IF ServerUse(p) = "trash" THEN "none"
  ELSE ServerUse(p)

\* Where deleted messages go.
TrashFolder == IF chosen = NoPath THEN Trash ELSE chosen

\* listFolders() lists the folders that are subscribed to, or all of them.
Listed == {p \in DOMAIN folder : folder[p].subscribed}
All == DOMAIN folder

\* The folder of a use among ps, as the user has chosen, or NoPath.
Find(ps, use) ==
  IF \E p \in ps : UserUse(p) = use THEN CHOOSE p \in ps : UserUse(p) = use ELSE NoPath

Under(p) == {q \in DOMAIN folder : IsStrictPrefix(p, q)}
Rebased(q, p, new) == new \o SubSeq(q, Len(p) + 1, Len(q))

----------------------------------------------------------------------------
(* Commands.                                                               *)

Selected(p, us) == {e \in folder[p].box : e.uid \in us}

\* Fault: the first uid is skipped.
AppendedNext(q, es) ==
  {[e EXCEPT !.uid = folder[q].next + Cardinality({d \in es : d.uid <= e.uid})] : e \in es}

\* Entries es at the end of folder q, in the order of their uids.
Appended(q, es) ==
  {[e EXCEPT !.uid = folder[q].next + Cardinality({d \in es : d.uid < e.uid})] : e \in es}

\* Folders f, where folder p has entries b, and where q has those of es too.
With(f, p, b) == [f EXCEPT ![p].box = b]
Put(f, q, es) ==
  [f EXCEPT ![q].box = @ \union Appended(q, es), ![q].next = @ + Cardinality(es)]

Fits(q, es) == folder[q].next + Cardinality(es) <= MaxUid + 1

Deleting(p) == \E r \in Requests :
  req[r].kind = "rmdir" /\ req[r].path = p /\ req[r].pc \in {"uids", "fetch", "act", "check", "commit"}

NoteStray(q, es) == strays' = IF Deleting(q) THEN strays \union MsgsOf(es) ELSE strays

\* move(): the uids that are still there.
Moved(p, us, q) ==
  LET es == Selected(p, us) IN
    /\ p # q /\ Fits(q, es)
    /\ folder' = Put(With(folder, p, folder[p].box \ es), q, es)
    /\ NoteStray(q, es)

Copied(p, us, q) ==
  LET es == Selected(p, us) IN
    /\ Fits(q, es)
    /\ folder' = Put(folder, q, es)
    /\ NoteStray(q, es)

Expunged(p, us) == folder' = With(folder, p, folder[p].box \ Selected(p, us))

Flagged(p, us) ==
  folder' = With(folder, p,
    {IF e.uid \in us THEN [e EXCEPT !.seen = TRUE] ELSE e : e \in folder[p].box})

\* The folder and what is under it have new paths; the server refuses one that exists.
Tree(p) == {p} \union Under(p)

Renamed(p, q) ==
  /\ {Rebased(c, p, q) : c \in Tree(p)} \subseteq Paths \ used
  /\ used' = used \union {Rebased(c, p, q) : c \in Tree(p)}
  /\ folder' = [c \in (DOMAIN folder \ Tree(p)) \union {Rebased(d, p, q) : d \in Tree(p)} |->
                  IF c \in DOMAIN folder THEN folder[c]
                  ELSE folder[CHOOSE d \in Tree(p) : Rebased(d, p, q) = c]]

----------------------------------------------------------------------------
(* The world around the requests.                                          *)

\* The mail server delivers a message, to the inbox or where a filter files it.
Deliver(m, p) ==
  /\ m \notin arrived /\ p \in Delivered \intersect DOMAIN folder
  /\ arrived' = arrived \union {m}
  /\ LET es == {[uid |-> 1, msg |-> m, seen |-> FALSE]} IN
       /\ Fits(p, es)
       /\ folder' = Put(folder, p, es)
       /\ NoteStray(p, es)
  /\ UNCHANGED <<used, chosen, mode, req, removed, marked>>

\* subscribe.post.ts
Subscribe(p, b) ==
  /\ p \in Hideable \intersect DOMAIN folder /\ folder[p].subscribed # b
  /\ folder' = [folder EXCEPT ![p].subscribed = b]
  /\ UNCHANGED <<used, chosen, mode, req, history>>

\* prefs.put.ts: the user sets what the trash is and whether it is used, at any time.
Choose(q, m) ==
  /\ <<q, m>> # <<chosen, mode>>
  /\ chosen' = q /\ mode' = m
  /\ req' = [r \in Requests |->
               IF req[r].kind \in {"delete", "rmdir"} THEN [req[r] EXCEPT !.sure = FALSE] ELSE req[r]]
  /\ UNCHANGED <<folder, used, history>>

----------------------------------------------------------------------------
(* Requests.                                                               *)

Goto(r, pc) == req' = [req EXCEPT ![r].pc = pc]
Take(r, us, pc) == req' = [req EXCEPT ![r].uids = us, ![r].pc = pc]
Aim(r, q, pc) == req' = [req EXCEPT ![r].dest = q, ![r].pc = pc]
End(r) == req' = [req EXCEPT ![r] = [Idle EXCEPT !.pc = "done"]]
Fail(r) == req' = [req EXCEPT ![r] = [Idle EXCEPT !.pc = "failed"]]
At(r, kind, pc) == req[r].kind = kind /\ req[r].pc = pc

\* A command on a folder that is gone, or a server that does not answer.
Fails(r) ==
  /\ req[r].pc \notin Ended
  /\ Fail(r)
  /\ UNCHANGED <<folder, used, chosen, mode, history>>

\* A request is made, for the messages us of folder p or towards q.
Make(r, kind, p, us, q) ==
  /\ req[r].pc = "idle" /\ p \in DOMAIN folder
  /\ req' = [req EXCEPT ![r] =
       [kind |-> kind, path |-> p, uids |-> us, dest |-> q, sure |-> TRUE,
        pc |-> CASE kind \in {"move", "copy", "flags"} -> "act"
                 [] kind \in {"open", "mark-read"} -> "uids"
                 [] OTHER -> "list"]]
  /\ marked' = IF kind \in {"flags", "open"} THEN marked \union MsgsOf(Selected(p, us)) ELSE marked
  /\ UNCHANGED <<folder, used, chosen, mode, arrived, removed, strays>>

OnMessages(r) ==
  \E p \in DOMAIN folder : \E us \in SUBSET Uids(folder[p].box) \ {{}} :
    \/ \E kind \in {"junk", "flags"} : Make(r, kind, p, us, NoPath)
    \/ Make(r, "delete", p, us, IF mode = "permanent" THEN p ELSE NoPath)
    \/ Cardinality(us) = 1 /\ Make(r, "open", p, us, NoPath)
    \/ \E kind \in {"move", "copy"}, q \in DOMAIN folder \ {p} : Make(r, kind, p, us, q)

OnFolders(r) ==
  \E p \in DOMAIN folder :
    \/ \E kind \in {"empty", "mark-read", "rmdir"} : Make(r, kind, p, {}, NoPath)
    \/ \E q \in Paths \ used :
         \/ p \in Renameable /\ Make(r, "rename", p, {}, q)
         \/ (Len(q) = 1 \/ Front(q) = p) /\ Make(r, "create", p, {}, q)

\* delete.post.ts and junk.post.ts find their destination in the list; without a
\* trash there, a deletion is for good.
FindsDestination(r) ==
  /\ req[r].pc = "list" /\ req[r].kind \in {"delete", "junk"}
  /\ LET q == Find(Listed, IF req[r].kind = "junk" THEN "junk" ELSE "trash") IN
       \/ q = NoPath /\ req[r].kind = "junk" /\ Fail(r)
       \/ /\ q = NoPath /\ req[r].kind = "delete" /\ req[r].dest = NoPath
          /\ req' = [req EXCEPT ![r] = [@ EXCEPT !.dest = req[r].path, !.pc = "act", !.sure = FALSE]]
       \/ q # NoPath /\ req[r].dest = NoPath /\ Aim(r, q, "act")
       \/ req[r].dest # NoPath /\ Goto(r, "act")
  /\ UNCHANGED <<folder, used, chosen, mode, history>>

\* Whether messages of p may be removed for good: from the trash, or by choice.
ForGood(p) == mode = "permanent" \/ p = TrashFolder

\* delete.post.ts: whether the messages are expunged rather than moved.
Permanent(r) == req[r].dest = req[r].path

DeletesForGood(r) ==
  /\ At(r, "delete", "act") /\ Permanent(r) /\ req[r].path \in DOMAIN folder
  /\ Expunged(req[r].path, req[r].uids)
  /\ removed' = IF ForGood(req[r].path) \/ ~req[r].sure
                THEN removed \union MsgsOf(Selected(req[r].path, req[r].uids)) ELSE removed
  /\ End(r)
  /\ UNCHANGED <<used, chosen, mode, arrived, strays, marked>>

\* delete, junk and move.post.ts.
Moves(r) ==
  /\ req[r].pc = "act" /\ req[r].kind \in {"delete", "junk", "move"}
  /\ req[r].kind = "delete" => ~Permanent(r)
  /\ {req[r].path, req[r].dest} \subseteq DOMAIN folder
  /\ Moved(req[r].path, req[r].uids, req[r].dest)
  /\ End(r)
  /\ UNCHANGED <<used, chosen, mode, arrived, removed, marked>>

\* copy.post.ts
Copies(r) ==
  /\ At(r, "copy", "act")
  /\ {req[r].path, req[r].dest} \subseteq DOMAIN folder
  /\ Copied(req[r].path, req[r].uids, req[r].dest)
  /\ End(r)
  /\ UNCHANGED <<used, chosen, mode, arrived, removed, marked>>

\* flags.post.ts, and the mark of [uid].get.ts
Flags(r) ==
  /\ req[r].kind \in {"flags", "open"} /\ req[r].pc = "act" /\ req[r].path \in DOMAIN folder
  /\ Flagged(req[r].path, req[r].uids)
  /\ End(r)
  /\ UNCHANGED <<used, chosen, mode, history>>

\* [uid].get.ts: a message that is unread is marked next, unless it is marked later.
Opens(r) ==
  /\ At(r, "open", "uids") /\ req[r].path \in DOMAIN folder
  /\ Selected(req[r].path, req[r].uids) # {}
  /\ \/ Goto(r, "act") /\ \A e \in Selected(req[r].path, req[r].uids) : ~e.seen
     \/ End(r)
  /\ UNCHANGED <<folder, used, chosen, mode, history>>

\* empty.post.ts: only the trash and the junk folder.
ChecksEmpty(r) ==
  /\ At(r, "empty", "list")
  /\ IF req[r].path \in Listed /\ ServerUse(req[r].path) \in {"trash", "junk"}
     THEN Goto(r, "uids") ELSE Fail(r)
  /\ UNCHANGED <<folder, used, chosen, mode, history>>

\* allUids() of empty and mark-read.
ReadsUids(r) ==
  /\ req[r].pc = "uids" /\ req[r].kind \in {"empty", "mark-read"} /\ req[r].path \in DOMAIN folder
  /\ Take(r, Uids(folder[req[r].path].box), "act")
  /\ marked' = IF req[r].kind = "mark-read" THEN marked \union MsgsOf(folder[req[r].path].box) ELSE marked
  /\ UNCHANGED <<folder, used, chosen, mode, arrived, removed, strays>>

\* The next batch of empty or mark-read, in the order of the uids.
NextBatch(r) == {u \in req[r].uids : Cardinality({v \in req[r].uids : v < u}) < Batch}

Batches(r) ==
  /\ req[r].pc = "act" /\ req[r].kind \in {"empty", "mark-read"}
  /\ IF req[r].uids = {} THEN End(r) /\ UNCHANGED <<folder, removed>>
     ELSE /\ req[r].path \in DOMAIN folder
          /\ Take(r, req[r].uids \ NextBatch(r), "act")
          /\ IF req[r].kind = "empty"
             THEN /\ Expunged(req[r].path, NextBatch(r))
                  /\ removed' = removed \union MsgsOf(Selected(req[r].path, NextBatch(r)))
             ELSE Flagged(req[r].path, NextBatch(r)) /\ UNCHANGED removed
  /\ UNCHANGED <<used, chosen, mode, arrived, strays, marked>>

\* folders.delete.ts: a folder of the user's own, without subfolders.
FindsTrash(r) ==
  /\ At(r, "rmdir", "list")
  /\ LET p == req[r].path
         q == Find(All, "trash")
     IN  IF p \notin All \/ UserUse(p) # "none" \/ Under(p) # {} \/ (q = NoPath /\ folder[p].box # {})
         THEN Fail(r)
         ELSE Aim(r, q, IF q = NoPath THEN "check" ELSE "uids")
  /\ UNCHANGED <<folder, used, chosen, mode, history>>

\* The first page of the folder: its latest messages.
FirstPage(p) ==
  {e.uid : e \in {d \in folder[p].box : Cardinality({c \in folder[p].box : c.uid > d.uid}) < Batch}}

\* listMessages(): the uids of the page, by SEARCH, ...
ReadsPage(r) ==
  /\ At(r, "rmdir", "uids") /\ req[r].path \in DOMAIN folder
  /\ Take(r, FirstPage(req[r].path), IF FirstPage(req[r].path) = {} THEN "check" ELSE "fetch")
  /\ UNCHANGED <<folder, used, chosen, mode, history>>

\* A page that is empty by mistake: what is in the folder stays there.
Strands(r) ==
  /\ strays' = strays \union MsgsOf(folder[req[r].path].box)
  /\ Take(r, {}, "check")
  /\ UNCHANGED <<folder, used, chosen, mode, arrived, removed, marked>>

\* ... answered NO, which is an empty page, ...
PageRefused(r) ==
  /\ At(r, "rmdir", "uids") /\ req[r].path \in DOMAIN folder
  /\ Strands(r)

\* ... then by FETCH those that are still there; none is an empty page too.
PageThere(r) == req[r].uids \intersect Uids(folder[req[r].path].box)

FetchesPage(r) ==
  /\ At(r, "rmdir", "fetch") /\ req[r].path \in DOMAIN folder
  /\ PageThere(r) # {} /\ Take(r, PageThere(r), "act")
  /\ UNCHANGED <<folder, used, chosen, mode, history>>

PageGone(r) ==
  /\ At(r, "rmdir", "fetch") /\ req[r].path \in DOMAIN folder
  /\ PageThere(r) = {} /\ Strands(r)

\* Fault: one page is moved.
MovesOnePage(r) ==
  /\ At(r, "rmdir", "act") /\ {req[r].path, req[r].dest} \subseteq DOMAIN folder
  /\ Moved(req[r].path, req[r].uids, req[r].dest)
  /\ Take(r, {}, "check")
  /\ UNCHANGED <<used, chosen, mode, arrived, removed, marked>>

\* The page goes to the trash, and the next one is read.
MovesPage(r) ==
  /\ At(r, "rmdir", "act") /\ {req[r].path, req[r].dest} \subseteq DOMAIN folder
  /\ Moved(req[r].path, req[r].uids, req[r].dest)
  /\ Take(r, {}, "uids")
  /\ UNCHANGED <<used, chosen, mode, arrived, removed, marked>>

\* deleteFolder() lists the folders that are subscribed to, then deletes.
ChecksDelete(r) ==
  /\ At(r, "rmdir", "check")
  /\ IF req[r].path \in Listed /\ ServerUse(req[r].path) = "none" THEN Goto(r, "commit") ELSE Fail(r)
  /\ UNCHANGED <<folder, used, chosen, mode, history>>

Deletes(r) ==
  /\ At(r, "rmdir", "commit") /\ req[r].path \in DOMAIN folder
  /\ folder' = [p \in DOMAIN folder \ {req[r].path} |-> folder[p]]
  /\ End(r)
  /\ UNCHANGED <<used, chosen, mode, history>>

\* folders.patch.ts: what the server says is special is not renamed.
ChecksRename(r) ==
  /\ At(r, "rename", "list")
  /\ LET p == req[r].path
         q == req[r].dest
     IN  IF p \in All /\ ServerUse(p) = "none" /\ q \notin All /\ ~IsPrefix(p, q)
            /\ (Len(q) = 1 \/ Front(q) \in All)
         THEN Goto(r, "check") ELSE Fail(r)
  /\ UNCHANGED <<folder, used, chosen, mode, history>>

\* renameFolder() lists the folders that are subscribed to, then renames.
ChecksAgain(r) ==
  /\ At(r, "rename", "check")
  /\ IF req[r].path \in Listed /\ req[r].dest \notin Listed THEN Goto(r, "commit") ELSE Fail(r)
  /\ UNCHANGED <<folder, used, chosen, mode, history>>

Renames(r) ==
  /\ At(r, "rename", "commit") /\ req[r].path \in DOMAIN folder
  /\ Renamed(req[r].path, req[r].dest)
  /\ End(r)
  /\ UNCHANGED <<chosen, mode, history>>

\* folders.post.ts: create, subscribe, and look for it in the list.
ChecksCreate(r) ==
  /\ At(r, "create", "list")
  /\ IF req[r].dest \notin All /\ (Len(req[r].dest) = 1 \/ req[r].path \in All)
     THEN Goto(r, "commit") ELSE Fail(r)
  /\ UNCHANGED <<folder, used, chosen, mode, history>>

Creates(r) ==
  /\ At(r, "create", "commit") /\ req[r].dest \notin used
  /\ folder' = [p \in DOMAIN folder \union {req[r].dest} |->
                  IF p = req[r].dest THEN [NoFolder EXCEPT !.subscribed = FALSE] ELSE folder[p]]
  /\ used' = used \union {req[r].dest}
  /\ Goto(r, "subscribe")
  /\ UNCHANGED <<chosen, mode, history>>

Subscribes(r) ==
  /\ At(r, "create", "subscribe") /\ req[r].dest \in DOMAIN folder
  /\ folder' = [folder EXCEPT ![req[r].dest].subscribed = TRUE]
  /\ Goto(r, "confirm")
  /\ UNCHANGED <<used, chosen, mode, history>>

Confirms(r) ==
  /\ At(r, "create", "confirm")
  /\ IF req[r].dest \in Listed THEN End(r) ELSE Fail(r)
  /\ UNCHANGED <<folder, used, chosen, mode, history>>

Next ==
  \/ \E m \in Msgs, p \in Paths : Deliver(m, p)
  \/ \E p \in Paths, b \in BOOLEAN : Subscribe(p, b)
  \/ \E q \in TrashChoices, m \in Modes : Choose(q, m)
  \/ \E r \in Requests :
       \/ OnMessages(r) \/ OnFolders(r) \/ Fails(r)
       \/ FindsDestination(r) \/ DeletesForGood(r) \/ Moves(r) \/ Copies(r) \/ Flags(r) \/ Opens(r)
       \/ ChecksEmpty(r) \/ ReadsUids(r) \/ Batches(r)
       \/ FindsTrash(r) \/ ReadsPage(r) \/ PageRefused(r) \/ FetchesPage(r) \/ PageGone(r)
       \/ MovesPage(r) \/ ChecksDelete(r) \/ Deletes(r)
       \/ ChecksRename(r) \/ ChecksAgain(r) \/ Renames(r)
       \/ ChecksCreate(r) \/ Creates(r) \/ Subscribes(r) \/ Confirms(r)

Spec == Init /\ [][Next]_vars

----------------------------------------------------------------------------
(* A message that arrived is in some folder, unless a request removed it   *)
(* from the trash or the junk folder, in permanent mode, or because no     *)
(* trash was in the list or the settings had just changed; or it was in a  *)
(* folder whose deletion had seen an empty page: put there since, or left  *)
(* there by a page that was empty by mistake.                              *)
Kept(m) == \E p \in DOMAIN folder : m \in MsgsOf(folder[p].box)

NothingLost == \A m \in arrived : Kept(m) \/ m \in removed \union strays

(* A message is marked as read because it was opened or selected, or was   *)
(* in the folder when mark-read read its uids: never because it arrived    *)
(* while that runs, or after.                                              *)
UnreadUntilMarked ==
  \A p \in DOMAIN folder : \A e \in folder[p].box : e.seen => e.msg \in marked

(* The inbox, the trash and the junk folder always exist, and the folder   *)
(* the user has chosen as the trash is not deleted by a request, unless    *)
(* the choice was made while that was in flight.                           *)
SpecialKept ==
  /\ Special \subseteq DOMAIN folder
  /\ \A r \in Requests :
       At(r, "rmdir", "commit") /\ req[r].sure => req[r].path \notin Special \union {chosen}

(* All three, for the messages and the folders of the account.             *)
MailboxSound == NothingLost /\ UnreadUntilMarked /\ SpecialKept

(* folders.delete.ts says that nothing of a folder that is deleted is lost *)
(* without passing through the trash: a message is in some folder, or was  *)
(* removed by a request that says so.                                      *)
OnlyThroughTrash == \A m \in arrived : Kept(m) \/ m \in removed
=============================================================================

------------------------------- MODULE MCMail -------------------------------
(* Three parts in one run of TLC: the folders (Mailbox), the lists of messages *)
(* (Listing) and the form of a message that is written (ComposeForm).         *)
(* They share no state: `which` names the one that moves, the others stay     *)
(* where they begin.                                                          *)
EXTENDS Mailbox, TLC

CONSTANT None

A == <<"A">>
AB == <<"A", "B">>
C == <<"C">>
D == <<"D">>
DB == <<"D", "B">>
MCPersonal == {A, AB, C, D, DB}
MCExisting == {A, C}
MCRenameable == {A}
MCHideable == {A}
MCNoPath == << >>
MCChoices == {MCNoPath, C}
MCDelivered == {Inbox, A}

VARIABLES
  which,
  box, last, asked, were, stayed, quiet, failed, arrivals, removals,            \* Listing
  known, kept, win, input, searches, reading, reminder, draft, outbox, steps  \* ComposeForm

listPart == <<box, last, asked, were, stayed, quiet, failed, arrivals, removals>>
formPart == <<known, kept, win, input, searches, reading, reminder, draft, outbox, steps>>

----------------------------------------------------------------------------
(* The messages of the lists, a conversation of three among them.          *)

Folders == <<"INBOX", "Sent", "Trash">>
Msg(date, size, hits, id, refs) ==
  [date |-> date, size |-> size, hits |-> hits, id |-> id, refs |-> refs]
Contents ==
  {Msg(1, 2, {"subject"}, "a", <<>>), Msg(2, 2, {"body", "from"}, "b", <<"a">>),
   Msg(3, 1, {"subject", "body"}, "c", <<"a", "b">>), Msg(2, 3, {}, "d", <<>>)}
M(i) == CHOOSE m \in Contents : m.id = i
Box(inbox, sent, trash) ==
  [f \in {"INBOX", "Sent", "Trash"} |->
     CASE f = "INBOX" -> inbox [] f = "Sent" -> sent [] f = "Trash" -> trash]
Mailboxes ==
  {Box(<<M("a"), M("b"), M("c")>>, <<>>, <<M("d")>>), Box(<<M("a"), M("c")>>, <<M("b")>>, <<>>),
   Box(<<M("d"), M("c"), M("a")>>, <<M("b")>>, <<M("a")>>),
   Box(<<M("b")>>, <<M("a"), M("c")>>, <<M("c")>>),
   Box(<<M("a"), M("d"), M("b")>>, <<M("a"), M("c")>>, <<>>)}
Query(kind, in, uid, page, fields, sort, order) ==
  [kind |-> kind, folder |-> in, uid |-> uid, page |-> page, fields |-> fields,
   sort |-> sort, order |-> order]
Queries ==
  {Query("folder", "INBOX", 0, p, {"subject"}, s, o) :
     p \in 1..2, s \in {"date", "size"}, o \in {"asc", "desc"}} \union
  {Query("folder", "INBOX", 0, 1, {"subject", "from", "to"}, "date", "desc"),
   Query("all", "INBOX", 0, 1, {"subject", "body"}, "date", "desc"),
   Query("all", "INBOX", 0, 1, {"from", "cc", "to"}, "size", "asc"),
   Query("thread", "INBOX", 1, 1, {}, "date", "desc"),
   Query("thread", "Sent", 1, 1, {}, "date", "desc"),
   Query("thread", "INBOX", 2, 1, {}, "date", "desc")}

L == INSTANCE Listing WITH Sent <- "Sent", Skipped <- {"Trash"}, PageSize <- 1, Cap <- 2,
       ThreadCap <- 4, MaxArrivals <- 1, MaxFaults <- 1, MaxRemovals <- 1,
       req <- asked, faults <- failed

----------------------------------------------------------------------------
(* A few addresses, texts of an input, received messages and identities.   *)

Lower(name) == [name |-> name, upper |-> FALSE]
Upper(name) == [name |-> name, upper |-> TRUE]
MCParse ==
  ("" :> << >>) @@ ("al" :> <<Lower("typo")>>) @@ ("AL" :> <<Upper("al")>>) @@
  ("bo, BO" :> <<Lower("bo"), Upper("bo")>>)
MCFound ==
  ("" :> << >>) @@ ("al" :> <<<<Lower("al"), Lower("bo")>>, <<Lower("al")>>>>) @@
  ("AL" :> <<<<Lower("al")>>>>) @@ ("bo, BO" :> << >>)
Message(from, replyTo, to, cc, list) ==
  [from |-> from, replyTo |-> replyTo, to |-> to, cc |-> cc, list |-> list]
MCReceived ==
  {Message(<<Upper("me")>>, << >>, <<Lower("al")>>, << >>, <<Lower("list")>>),
   Message(<<Lower("al")>>, << >>, <<Lower("me"), Lower("bo")>>, <<Upper("bo")>>, << >>),
   Message(<<Lower("al")>>, <<Lower("bo"), Lower("me")>>, <<Upper("me"), Lower("al")>>, <<Upper("bo")>>, << >>)}
Identity(id, sign, bcc) == [id |-> id, sign |-> sign, bcc |-> bcc]
MCIdentities == {Identity(1, "S1", << >>), Identity(2, "S2", <<Lower("al")>>), Identity(3, "", << >>)}

F == INSTANCE ComposeForm WITH Texts <- DOMAIN MCParse, Parse <- MCParse, Found <- MCFound,
       TypedIn <- {"bcc"}, Invalid <- {"typo"}, Received <- MCReceived, Me <- Lower("me"),
       FileLists <- {<<"f", "g">>}, Size <- [f |-> 2, g |-> 1], Limit <- 3,
       MaxRecipients <- 3, Identities <- MCIdentities, MaxSteps <- 3

----------------------------------------------------------------------------

MailInit ==
  /\ which \in {"folders", "lists", "form"}
  /\ Init /\ L!Init /\ F!Init
  /\ which # "folders" => chosen = NoPath /\ mode = "trash"
  /\ which # "lists" => box["Sent"] = <<>>

MailNext ==
  /\ UNCHANGED which
  /\ \/ which = "folders" /\ Next /\ UNCHANGED <<listPart, formPart>>
     \/ which = "lists" /\ L!Next /\ UNCHANGED <<vars, formPart>>
     \/ which = "form" /\ F!Next /\ UNCHANGED <<vars, listPart>>

MailSpec == MailInit /\ [][MailNext]_<<which, vars, listPart, formPart>>

Symmetry == Permutations(Msgs) \union Permutations(Requests)

----------------------------------------------------------------------------
(* Properties: those of the three modules, each for the part that moves.    *)

\* Lists, searches and conversations show what there is, and a message goes out as
\* its form shows it: Listing, ComposeForm.
PartsSound ==
  CASE which = "lists" -> L!TypeOK /\ L!ListingSound
    [] which = "form" -> F!TypeOK /\ F!FormSound
    [] which = "folders" -> TRUE
=============================================================================

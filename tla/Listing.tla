------------------------------ MODULE Listing ------------------------------
(* How messages are listed, searched and gathered into conversations         *)
(* (messages/index.get.ts, thread.get.ts, listMessages of imap.ts), while    *)
(* others deliver and remove messages between the commands of a request.     *)
(* A word is searched for; filters of a search are part of what a message    *)
(* matches.  The attributes a list is sorted by are numbers.                 *)
EXTENDS Integers, FiniteSets, Sequences, SequencesExt, FiniteSetsExt

CONSTANTS
  Folders,    \* folders of the account, in the order they are listed
  Sent,       \* the one for what is sent
  Skipped,    \* the trash and the junk folder
  Contents,   \* messages: what they match and are sorted by, their references
  Queries,    \* requests
  PageSize, Cap,  \* pageSize; ALL_SCOPE_CAP (200)
  ThreadCap,  \* messages of a conversation (50)
  Mailboxes,  \* the folders when a request begins: what each holds, from the oldest
  MaxArrivals, MaxFaults, MaxRemovals  \* bounds

VARIABLES
  box,       \* box[f]: the messages of a folder by uid
  last,      \* last[f]: the latest uid
  req,       \* the request that runs
  were,      \* history: the messages there were since it began
  stayed,    \* history: those that were there all the time
  quiet,     \* history: nothing was delivered or removed since, and no search failed
  faults, arrivals, removals

vars == <<box, last, req, were, stayed, quiet, faults, arrivals, removals>>

Fields == {"subject", "from", "to", "cc", "body"}
Entry(f, u) == [folder |-> f, uid |-> u, msg |-> box[f][u]]
Present == UNION {{Entry(f, u) : u \in DOMAIN box[f]} : f \in Range(Folders)}

NoRequest ==
  [kind |-> "none", at |-> "done", folder |-> Folders[1], uid |-> 0, page |-> 1, fields |-> {},
   sort |-> "date", order |-> "desc",
   todo |-> <<>>, left |-> {}, found |-> <<>>, items |-> <<>>, total |-> 0, wide |-> FALSE, refused |-> FALSE]

Init ==
  /\ box \in Mailboxes /\ last = [f \in Range(Folders) |-> Len(box[f])]
  /\ req = NoRequest /\ were = {} /\ stayed = {} /\ quiet = TRUE /\ faults = 0 /\ arrivals = 0 /\ removals = 0

----------------------------------------------------------------------------
(* Sequences.                                                              *)

\* A stable sort by key, as Array.prototype.sort makes it.
Sorted(s, Key(_), order) ==
  LET Before(i, j) == IF Key(s[i]) = Key(s[j]) THEN i < j
                      ELSE (Key(s[i]) < Key(s[j])) = (order = "asc")
      idx == SetToSortSeq(DOMAIN s, Before)
  IN  [k \in DOMAIN s |-> s[idx[k]]]

Page(s, n, size) == SubSeq(s, (n - 1) * size + 1, IF n * size < Len(s) THEN n * size ELSE Len(s))

Ascending(uids) == SetToSortSeq(uids, <)

\* A text that is searched for may be in a field, or anywhere (TEXT).
Hits(m, fields) == IF fields = {} THEN m.hits # {} ELSE m.hits \intersect fields # {}
Matching(f, fields) == {u \in DOMAIN box[f] : Hits(box[f][u], fields)}

----------------------------------------------------------------------------
(* The mailbox.                                                            *)

Deliver(f, m) ==
  /\ req.at # "done" /\ arrivals < MaxArrivals
  /\ arrivals' = arrivals + 1
  /\ last' = [last EXCEPT ![f] = @ + 1]
  /\ box' = [box EXCEPT ![f] = [u \in DOMAIN @ \union {last[f] + 1} |-> IF u \in DOMAIN @ THEN @[u] ELSE m]]
  /\ were' = were \union {[folder |-> f, uid |-> last[f] + 1, msg |-> m]}
  /\ quiet' = FALSE
  /\ UNCHANGED <<req, stayed, faults, removals>>

Expunge(f, u) ==
  /\ req.at # "done" /\ removals < MaxRemovals
  /\ box' = [box EXCEPT ![f] = [v \in DOMAIN @ \ {u} |-> @[v]]]
  /\ removals' = removals + 1
  /\ quiet' = FALSE
  /\ stayed' = stayed \ {Entry(f, u)}
  /\ UNCHANGED <<last, req, were, faults, arrivals>>

----------------------------------------------------------------------------
(* Requests.                                                               *)

\* A request of a user, who waits for its answer: one is followed to its end.
\* scope=folder, scope=all (every folder but trash and junk), or a conversation.
Ask(q) ==
  /\ req = NoRequest
  /\ q.kind = "thread" => q.uid \in DOMAIN box[q.folder]
  /\ req' = [NoRequest EXCEPT !.kind = q.kind, !.folder = q.folder, !.uid = q.uid, !.page = q.page,
               !.fields = q.fields, !.sort = q.sort, !.order = q.order,
               !.at = IF q.kind = "thread" THEN "thread" ELSE "search", !.left = q.fields,
               !.todo = CASE q.kind = "all" -> SelectSeq(Folders, LAMBDA f : f \notin Skipped)
                          [] q.kind = "thread" /\ q.folder # Sent -> <<q.folder, Sent>>
                          [] OTHER -> <<q.folder>>]
  /\ were' = Present /\ stayed' = Present /\ quiet' = TRUE
  /\ UNCHANGED <<box, last, faults, arrivals, removals>>

Current == Head(req.todo)

\* searchUids, one or two fields or none: one command.
Search ==
  /\ req.at = "search" /\ Cardinality(req.fields) <= 2
  /\ req' = [req EXCEPT !.found = Ascending(Matching(Current, req.fields)), !.at = "sort"]
  /\ UNCHANGED <<box, last, were, stayed, quiet, faults, arrivals, removals>>

\* The server answers NO: imapflow returns false, taken as a list of nothing.
SearchRefused ==
  /\ req.at = "search" /\ Cardinality(req.fields) <= 2 /\ faults < MaxFaults
  /\ faults' = faults + 1 /\ quiet' = FALSE
  /\ req' = [req EXCEPT !.at = "sort", !.refused = TRUE]
  /\ UNCHANGED <<box, last, were, stayed, arrivals, removals>>

\* The library throws on the criteria of some fields: everything is searched.
SearchThrows ==
  /\ req.at = "search" /\ Cardinality(req.fields) \in 1..2 /\ faults < MaxFaults
  /\ faults' = faults + 1 /\ quiet' = FALSE
  /\ req' = [req EXCEPT !.at = "text"]
  /\ UNCHANGED <<box, last, were, stayed, arrivals, removals>>

\* searchByFieldsUnion: a command for each field, in their order.
NextField == CHOOSE f \in req.left : TRUE

SearchField ==
  /\ req.at = "search" /\ Cardinality(req.fields) > 2 /\ req.left # {}
  /\ LET new == Matching(Current, {NextField}) \ Range(req.found)
     IN  req' = [req EXCEPT !.found = @ \o Ascending(new), !.left = @ \ {NextField}]
  /\ UNCHANGED <<box, last, were, stayed, quiet, faults, arrivals, removals>>

\* A field that the server cannot search (NO, or the library throws) is left out.
FieldRefused ==
  /\ req.at = "search" /\ Cardinality(req.fields) > 2 /\ req.left # {} /\ faults < MaxFaults
  /\ faults' = faults + 1 /\ quiet' = FALSE
  /\ req' = [req EXCEPT !.left = @ \ {NextField}]
  /\ UNCHANGED <<box, last, were, stayed, arrivals, removals>>

\* Nothing was found: everything is searched.
FieldsSearched ==
  /\ req.at = "search" /\ Cardinality(req.fields) > 2 /\ req.left = {}
  /\ req' = [req EXCEPT !.at = IF req.found # <<>> THEN "sort" ELSE "text"]
  /\ UNCHANGED <<box, last, were, stayed, quiet, faults, arrivals, removals>>

\* The search of everything, TEXT; answered NO, it is a list of nothing too.
TextSearched ==
  /\ req.at = "text"
  /\ req' = [req EXCEPT !.found = Ascending(Matching(Current, {})), !.at = "sort", !.wide = TRUE]
  /\ UNCHANGED <<box, last, were, stayed, quiet, faults, arrivals, removals>>

TextRefused ==
  /\ req.at = "text" /\ faults < MaxFaults
  /\ faults' = faults + 1 /\ quiet' = FALSE
  /\ req' = [req EXCEPT !.at = "sort", !.refused = TRUE]
  /\ UNCHANGED <<box, last, were, stayed, arrivals, removals>>

\* sortUids: by uid, or by an attribute of those that are still there.
Sort ==
  /\ req.at = "sort"
  /\ LET size(u) == IF u \in DOMAIN box[Current] THEN box[Current][u].size ELSE 0
         key(u) == IF req.sort = "date" THEN u ELSE size(u)
     IN  req' = [req EXCEPT !.found = Sorted(@, key, req.order), !.at = "fetch"]
  /\ UNCHANGED <<box, last, were, stayed, quiet, faults, arrivals, removals>>

\* compareMessages: by date, and not by uid.
Merged(items) ==
  LET key(e) == IF req.sort = "date" THEN e.msg.date ELSE e.msg.size
      all == Sorted(items, key, req.order)
  IN  Page(all, 1, Cap)

\* A page of the folder, or the first Cap of each; then the next folder, or the end.
Fetch ==
  /\ req.at = "fetch"
  /\ LET uids == IF req.kind = "all" THEN Page(req.found, 1, Cap) ELSE Page(req.found, req.page, PageSize)
         there == SelectSeq(uids, LAMBDA u : u \in DOMAIN box[Current])
         items == req.items \o [k \in DOMAIN there |-> Entry(Current, there[k])]
         all == Merged(items)
     IN  req' = IF req.kind = "folder"
                THEN [req EXCEPT !.items = items, !.total = Len(req.found), !.at = "done"]
                ELSE IF Tail(req.todo) # <<>>
                THEN [req EXCEPT !.items = items, !.todo = Tail(@), !.left = req.fields, !.found = <<>>, !.at = "search"]
                ELSE [req EXCEPT !.items = Page(all, req.page, PageSize), !.total = Len(all), !.at = "done"]
  /\ UNCHANGED <<box, last, were, stayed, quiet, faults, arrivals, removals>>

\* The folder cannot be read, or the message is gone: the request ends with an error.
Fails ==
  /\ req.at # "done"
  /\ faults < MaxFaults \/ (req.at = "thread" /\ req.uid \notin DOMAIN box[req.folder])
  /\ req' = [NoRequest EXCEPT !.kind = "error"]
  /\ faults' = IF faults < MaxFaults THEN faults + 1 ELSE faults
  /\ quiet' = FALSE
  /\ UNCHANGED <<box, last, were, stayed, arrivals, removals>>

Root(m) == IF m.refs # <<>> THEN m.refs[1] ELSE m.id

\* message-id, in-reply-to and references of a folder, which name the root.
Related(f, root) == {u \in DOMAIN box[f] : box[f][u].id = root \/ root \in Range(box[f][u].refs)}

\* The message, then its folder, then the folder for what is sent.
Opened ==
  /\ req.at = "thread" /\ req.uid \in DOMAIN box[req.folder]
  /\ req' = [req EXCEPT !.at = "related", !.items = <<Entry(req.folder, req.uid)>>]
  /\ UNCHANGED <<box, last, were, stayed, quiet, faults, arrivals, removals>>

\* Messages that are related join the conversation, and the next folder is searched.
Gathers(new) ==
  /\ req.at = "related"
  /\ LET items == req.items \o SetToSeq(new \ Range(req.items))
         date(e) == e.msg.date
     IN  req' = IF Tail(req.todo) # <<>> THEN [req EXCEPT !.items = items, !.todo = Tail(@)]
                ELSE [req EXCEPT !.items = Page(Sorted(items, date, "asc"), 1, ThreadCap), !.at = "done"]
  /\ UNCHANGED <<box, last, were, stayed, arrivals, removals>>

RelatedHere == {Entry(Current, u) : u \in Related(Current, Root(req.items[1].msg))}

Gather == Gathers(RelatedHere) /\ UNCHANGED <<faults, quiet>>

\* Some of the searches of a folder are answered NO, and find nothing; or the
\* folder for what is sent fails, which is let be.
GatherRefused(new) ==
  /\ faults < MaxFaults
  /\ new # RelatedHere
  /\ Gathers(new)
  /\ faults' = faults + 1 /\ quiet' = FALSE

Next ==
  \/ \E f \in Range(Folders) : \/ \E m \in Contents : Deliver(f, m)
                               \/ \E u \in DOMAIN box[f] : Expunge(f, u)
  \/ \E q \in Queries : Ask(q)
  \/ Search \/ SearchRefused \/ SearchThrows \/ SearchField \/ FieldRefused \/ FieldsSearched
  \/ TextSearched \/ TextRefused
  \/ Sort \/ Fetch \/ Fails \/ Opened \/ Gather
  \/ req.at = "related" /\ \E new \in SUBSET RelatedHere : GatherRefused(new)

Spec == Init /\ [][Next]_vars

----------------------------------------------------------------------------
(* Properties.                                                             *)

TypeOK ==
  /\ \A f \in Range(Folders) : DOMAIN box[f] \subseteq 1..last[f]
  /\ Range(req.todo) \subseteq Range(Folders) /\ req.left \subseteq Fields
  /\ req.total >= 0 /\ faults <= MaxFaults /\ arrivals <= MaxArrivals /\ removals <= MaxRemovals

Answered(kinds) == req.at = "done" /\ req.kind \in kinds
Wanted == {e \in Present : Hits(e.msg, req.fields)}

\* An answer shows each message once, and only messages there were while it was
\* made; outside a conversation, those that match, unless the search was widened.
ShowsGenuine ==
  Answered({"folder", "all", "thread"}) =>
    /\ Len(req.items) = Cardinality(Range(req.items))
    /\ Range(req.items) \subseteq were
    /\ req.kind # "thread" /\ ~req.wide =>
         \A e \in Range(req.items) : Hits(e.msg, req.fields) /\ (req.kind = "all" => e.folder \notin Skipped)

\* A search never misses: whatever fails and whatever comes and goes meanwhile,
\* an empty result means that no message of the folder that was there all the time
\* matches -- unless the command that decided was answered NO, which the code takes
\* as an answer that nothing matches.
NeverEmptyByMistake ==
  Answered({"folder"}) /\ req.total = 0 /\ ~req.refused =>
    ~\E e \in stayed : e.folder = req.folder /\ Hits(e.msg, req.fields)

\* Pages one after the other are the whole result: the items of a page are those
\* that as many others precede, by uid or by attribute.
PagesPartition ==
  Answered({"folder"}) /\ quiet /\ ~req.wide =>
    LET all == {e \in Wanted : e.folder = req.folder}
        Precedes(a, b) ==
          IF req.sort = "size" /\ a.msg.size # b.msg.size
          THEN (a.msg.size < b.msg.size) = (req.order = "asc")
          ELSE IF req.sort = "size" THEN a.uid < b.uid
          ELSE (a.uid < b.uid) = (req.order = "asc") /\ a # b
    IN  /\ req.total = Cardinality(all)
        /\ Cardinality(req.fields) <= 2 =>
             Range(req.items) = {e \in all : Cardinality({d \in all : Precedes(d, e)})
                                               \in ((req.page - 1) * PageSize)..(req.page * PageSize - 1)}

\* Uids grow with dates: nobody has put an old message into a folder.
InOrder == \A d, e \in Present : d.folder = e.folder /\ d.uid < e.uid => d.msg.date <= e.msg.date

\* The first page over all folders shows the latest (or largest, or smallest)
\* of all the messages that match, though each folder gives no more than Cap.
AllShowsExtremes ==
  Answered({"all"}) /\ quiet /\ ~req.wide /\ req.page = 1 /\ (req.sort = "date" => InOrder) =>
    LET key(e) == IF req.sort = "date" THEN e.msg.date ELSE e.msg.size
        all == {e \in Wanted : e.folder \notin Skipped}
    IN  \A d \in all \ Range(req.items) : \A e \in Range(req.items) :
          IF req.order = "desc" THEN key(d) <= key(e) ELSE key(d) >= key(e)

\* A message of the folder shows the same conversation as the one it answers, as
\* long as nobody cuts the references of a message.
ThreadsAgree ==
  Answered({"thread"}) /\ quiet /\ Len(req.items) < ThreadCap =>
    LET m == CHOOSE e \in Present : e.folder = req.folder /\ e.uid = req.uid
    IN  \A e \in Present :
          e.folder \in {req.folder, Sent} =>
            (e \in Range(req.items) <=> Root(e.msg) = Root(m.msg))

\* What a user sees of a list, a search or a conversation is what there is.
ListingSound ==
  ShowsGenuine /\ NeverEmptyByMistake /\ PagesPartition /\ AllShowsExtremes /\ ThreadsAgree
=============================================================================

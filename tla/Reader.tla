------------------------------- MODULE Reader -------------------------------
(***************************************************************************)
(* Reading a message: the page pages/mail/[folder]/[uid].vue with the cache*)
(* of message details it reads and patches (stores/cache.ts over           *)
(* utils/lru-map.ts).                                                      *)
(*                                                                         *)
(* A page is created for each message that is opened and is unmounted when *)
(* the user goes elsewhere; its requests go on, and their answers run in a *)
(* page that is not there any more.  A request is sent, takes effect on the*)
(* server, and is answered or fails, in any order with the others.  The    *)
(* detail of a page is the object the cache holds until the cache replaces *)
(* its entry with a patched copy.                                          *)
(***************************************************************************)
EXTENDS Naturals, Sequences, SequencesExt, FiniteSets

CONSTANTS
  Uids,        \* messages of a folder
  None,        \* no detail
  CacheSize,   \* MESSAGE_CACHE_SIZE (50)
  MaxOpens,    \* bound: pages opened
  MaxActs,     \* bound: clicks of the user
  MaxFaults,   \* bound: requests that fail
  MaxOthers    \* bound: changes by another client

\* The module is used through instances, which prove or check it.
SizesAssumption == CacheSize \in Nat \ {0} /\ MaxOpens \in Nat

VARIABLES
  server,   \* flags of each message: [seen, flagged, gone]
  cache,    \* the LruMap, oldest first: entries [uid, detail, page], page the
            \* one that shows this very object, 0 when none does
  pages,    \* pages in the order they were opened
  current,  \* the page on screen, 0 for the list
  calls,    \* requests in flight: [page, kind, value, served, got]
  delays,   \* prefs.markReadDelay is not -1
  alone,    \* history: no two requests were in flight together, none failed
            \*   and no other client acted
  acts, faults, others

vars == <<server, cache, pages, current, calls, delays, alone, acts, faults, others>>

\* MessageDetail: the message it describes and its flags.
Detail == [uid : Uids, seen : BOOLEAN, flagged : BOOLEAN]

\* What a page shows: the message, the wait, or an error that can be retried.
Page == [uid : Uids, shown : Detail \cup {None}, loading : BOOLEAN, timer : BOOLEAN,
         failed : BOOLEAN]

CallKinds == {"load", "mark", "unread", "star", "remove", "receipt", "copy", "redirect"}

Init ==
  /\ server = [u \in Uids |-> [seen |-> FALSE, flagged |-> FALSE, gone |-> FALSE]]
  /\ cache = <<>> /\ pages = <<>> /\ current = 0
  /\ calls = {} /\ delays \in BOOLEAN /\ alone = TRUE
  /\ acts = 0 /\ faults = 0 /\ others = 0

----------------------------------------------------------------------------
(* The cache.                                                              *)

Entry(c, u) == {k \in DOMAIN c : c[k].uid = u}

\* The place of the entry of u, if there is one.
At(c, u) == CHOOSE k \in Entry(c, u) : TRUE

Without(c, u) == IF Entry(c, u) = {} THEN c ELSE RemoveAt(c, At(c, u))

\* LruMap.set: the entry becomes the newest, the oldest goes beyond the size.
Set(c, u, detail, page) ==
  LET d == Append(Without(c, u), [uid |-> u, detail |-> detail, page |-> page])
  IN  IF Len(d) > CacheSize THEN Tail(d) ELSE d

\* LruMap.get: the entry that is read becomes the newest.
Touched(c, k, page) == Append(RemoveAt(c, k), [c[k] EXCEPT !.page = page])

\* patchFlags: a copy with the new flags replaces the entry, if there is one.
Patched(c, u, seen, flagged) ==
  IF Entry(c, u) = {} THEN c
  ELSE Set(c, u, [c[At(c, u)].detail EXCEPT !.seen = seen, !.flagged = flagged], 0)

\* Fault: the flags are replaced, not only this one.
SeenPatchedAlone(c, u, seen) == Patched(c, u, seen, FALSE)

SeenPatched(c, u, seen) ==
  IF Entry(c, u) = {} THEN c ELSE Patched(c, u, seen, c[At(c, u)].detail.flagged)

FlagPatched(c, u, flagged) ==
  IF Entry(c, u) = {} THEN c ELSE Patched(c, u, c[At(c, u)].detail.seen, flagged)

\* Writing msg.value writes the entry of the cache that is the same object.
Written(c, p, detail) ==
  [k \in DOMAIN c |-> IF c[k].page = p THEN [c[k] EXCEPT !.detail = detail] ELSE c[k]]

----------------------------------------------------------------------------
(* Requests.                                                               *)

Call(p, kind, value) ==
  [page |-> p, kind |-> kind, value |-> value, served |-> FALSE, got |-> None]

Send(p, kind, value) ==
  /\ calls' = calls \cup {Call(p, kind, value)}
  /\ alone' = (alone /\ calls = {})

\* Unmounting cancels the timer of the page (onBeforeUnmount).
Unmounted(ps) == IF current = 0 THEN ps ELSE [ps EXCEPT ![current].timer = FALSE]

\* The detail the server sends.
DetailOf(u) == [uid |-> u, seen |-> server[u].seen, flagged |-> server[u].flagged]

\* load(): the page p of the pages ps shows the cached detail for good, or asks.
Load(ps, p) ==
  LET u == ps[p].uid
      page == [ps[p] EXCEPT !.timer = FALSE, !.failed = FALSE]
  IN  IF Entry(cache, u) = {}
      THEN /\ pages' = [ps EXCEPT ![p] = [page EXCEPT !.loading = TRUE]]
           /\ Send(p, "load", None)
           /\ UNCHANGED cache
      ELSE LET k == At(cache, u)
           IN  /\ pages' = [ps EXCEPT ![p] = [page EXCEPT !.shown = cache[k].detail, !.loading = FALSE]]
               /\ cache' = Touched(cache, k, p)
               /\ UNCHANGED <<calls, alone>>

\* A message is opened.
Open(u) ==
  /\ Len(pages) < MaxOpens
  /\ current' = Len(pages) + 1
  /\ Load(Append(Unmounted(pages),
                 [uid |-> u, shown |-> None, loading |-> TRUE, timer |-> FALSE, failed |-> FALSE]), current')
  /\ UNCHANGED <<server, delays, acts, faults, others>>

\* The button below the error of a load.
Retry ==
  /\ current # 0 /\ pages[current].failed /\ ~pages[current].loading
  /\ acts < MaxActs /\ acts' = acts + 1
  /\ Load(pages, current)
  /\ UNCHANGED <<server, current, delays, faults, others>>

\* The user goes back to the list.
Back ==
  /\ current # 0
  /\ current' = 0 /\ pages' = Unmounted(pages)
  /\ UNCHANGED <<server, cache, calls, delays, alone, acts, faults, others>>

Applied(m, c) ==
  CASE c.kind = "mark"   -> [m EXCEPT !.seen = TRUE]
    [] c.kind = "unread" -> [m EXCEPT !.seen = FALSE]
    [] c.kind = "star"   -> [m EXCEPT !.flagged = c.value]
    [] c.kind = "remove" -> [m EXCEPT !.gone = TRUE]
    [] OTHER             -> m

\* A request takes effect on the server.
Serve(c) ==
  LET u == pages[c.page].uid
  IN  /\ ~c.served /\ ~server[u].gone
      /\ server' = [server EXCEPT ![u] = Applied(@, c)]
      /\ calls' = (calls \ {c}) \cup
                    {[c EXCEPT !.served = TRUE,
                               !.got = IF c.kind = "load" THEN DetailOf(u) ELSE None]}
      /\ UNCHANGED <<cache, pages, current, delays, alone, acts, faults, others>>

Answered(c) == c \in calls /\ c.served

\* navigateTo(backLink): back to the list from wherever the user is now.
GoesBack == current' = 0

\* load() goes on: the detail is cached under the message of the page and
\* shown; the first detail of a page arms the timer of "mark as read", also
\* when the page is not there any more.
LoadAnswers(c) ==
  /\ Answered(c) /\ c.kind = "load"
  /\ calls' = calls \ {c}
  /\ LET page == pages[c.page]
     IN  /\ cache' = Set(cache, page.uid, c.got, c.page)
         /\ pages' = [pages EXCEPT ![c.page] =
              [page EXCEPT !.shown = c.got, !.loading = FALSE,
                           !.timer = page.timer \/ (page.shown = None /\ delays)]]
  /\ UNCHANGED <<server, current, delays, alone, acts, faults, others>>

\* The timer of markReadDelay.
TimerFires(p) ==
  /\ pages[p].timer
  /\ pages' = [pages EXCEPT ![p].timer = FALSE]
  /\ Send(p, "mark", None)
  /\ UNCHANGED <<server, cache, current, delays, acts, faults, others>>

\* Its answer: the detail of the page, then the caches.
MarkAnswers(c) ==
  /\ Answered(c) /\ c.kind = "mark"
  /\ calls' = calls \ {c}
  /\ pages' = [pages EXCEPT ![c.page].shown =
                 IF @ = None THEN None ELSE [@ EXCEPT !.seen = TRUE]]
  /\ cache' = SeenPatched(cache, pages[c.page].uid, TRUE)
  /\ UNCHANGED <<server, current, delays, alone, acts, faults, others>>

\* A click on the page that is shown.
Click(kind, value) ==
  /\ current # 0 /\ pages[current].shown # None
  /\ acts < MaxActs /\ acts' = acts + 1
  /\ Send(current, kind, value)

\* The toolbar and its menu: mark as unread, delete, archive, move or report, copy
\* and redirect; and the banner that asks for a receipt.
Buttons == {"unread", "remove", "copy", "redirect", "receipt"}

Ask(kind) ==
  /\ Click(kind, None)
  /\ UNCHANGED <<server, cache, pages, current, delays, faults, others>>

UnreadAnswers(c) ==
  /\ Answered(c) /\ c.kind = "unread"
  /\ calls' = calls \ {c}
  /\ cache' = SeenPatched(cache, pages[c.page].uid, FALSE)
  /\ GoesBack /\ pages' = Unmounted(pages)
  /\ UNCHANGED <<server, delays, alone, acts, faults, others>>

RemoveAnswers(c) ==
  /\ Answered(c) /\ c.kind = "remove"
  /\ calls' = calls \ {c}
  /\ cache' = Without(cache, pages[c.page].uid)
  /\ GoesBack /\ pages' = Unmounted(pages)
  /\ UNCHANGED <<server, delays, alone, acts, faults, others>>

\* redirect() goes back, a copy stays on the message.
RedirectAnswers(c) ==
  /\ Answered(c) /\ c.kind = "redirect"
  /\ calls' = calls \ {c}
  /\ GoesBack /\ pages' = Unmounted(pages)
  /\ UNCHANGED <<server, cache, delays, alone, acts, faults, others>>

CopyAnswers(c) ==
  /\ Answered(c) /\ c.kind = "copy"
  /\ calls' = calls \ {c}
  /\ UNCHANGED <<server, cache, pages, current, delays, alone, acts, faults, others>>

\* toggleStar: the star changes at once and comes back if the request fails.
Star ==
  LET next == [pages[current].shown EXCEPT !.flagged = ~@]
  IN  /\ Click("star", ~pages[current].shown.flagged)
      /\ pages' = [pages EXCEPT ![current].shown = next]
      /\ cache' = Written(cache, current, next)
      /\ UNCHANGED <<server, current, delays, faults, others>>

StarAnswers(c) ==
  /\ Answered(c) /\ c.kind = "star"
  /\ calls' = calls \ {c}
  /\ cache' = FlagPatched(cache, pages[c.page].uid, c.value)
  /\ UNCHANGED <<server, pages, current, delays, alone, acts, faults, others>>

\* sendMdn: the detail is forgotten and loaded again, which cancels the timer.
ReceiptAnswers(c) ==
  /\ Answered(c) /\ c.kind = "receipt"
  /\ cache' = Without(cache, pages[c.page].uid)
  /\ pages' = [pages EXCEPT ![c.page] = [@ EXCEPT !.timer = FALSE, !.loading = TRUE, !.failed = FALSE]]
  /\ calls' = (calls \ {c}) \cup {Call(c.page, "load", None)}
  /\ UNCHANGED <<server, current, delays, alone, acts, faults, others>>

FailSilently(c) ==
  /\ faults < MaxFaults /\ faults' = faults + 1
  /\ calls' = calls \ {c}
  /\ alone' = FALSE
  /\ UNCHANGED <<server, cache, pages, current, delays, acts, others>>

\* An error, before or after it took effect, or a 404: a load shows it, a star
\* comes back, the others only say so.
Fail(c) ==
  /\ \/ server[pages[c.page].uid].gone /\ ~c.served /\ UNCHANGED faults
     \/ faults < MaxFaults /\ faults' = faults + 1
  /\ calls' = calls \ {c}
  /\ alone' = FALSE
  /\ LET p == c.page
         page == pages[p]
         back == [page.shown EXCEPT !.flagged = ~c.value]
     IN  /\ pages' = CASE c.kind = "load" ->
                            [pages EXCEPT ![p] = [page EXCEPT !.shown = None, !.loading = FALSE,
                                                              !.failed = page.failed \/ faults' # faults]]
                       [] c.kind = "star" /\ page.shown # None ->
                            [pages EXCEPT ![p] = [page EXCEPT !.shown = back]]
                       [] OTHER -> pages
         /\ cache' = IF c.kind = "star" /\ page.shown # None
                     THEN Written(cache, p, back) ELSE cache
  /\ UNCHANGED <<server, current, delays, acts, others>>

\* Another client flags, reads or removes a message.
Other(u) ==
  /\ others < MaxOthers /\ others' = others + 1
  /\ \E m \in {[server[u] EXCEPT !.seen = ~@], [server[u] EXCEPT !.flagged = ~@],
               [server[u] EXCEPT !.gone = TRUE]} : server' = [server EXCEPT ![u] = m]
  /\ alone' = FALSE
  /\ UNCHANGED <<cache, pages, current, calls, delays, acts, faults>>

Answers(c) ==
  \/ LoadAnswers(c) \/ MarkAnswers(c) \/ UnreadAnswers(c)
  \/ RemoveAnswers(c) \/ StarAnswers(c) \/ ReceiptAnswers(c)
  \/ RedirectAnswers(c) \/ CopyAnswers(c)

Next ==
  \/ \E u \in Uids : Open(u) \/ Other(u)
  \/ Back \/ Star \/ Retry
  \/ \E kind \in Buttons : Ask(kind)
  \/ \E p \in DOMAIN pages : TimerFires(p)
  \/ \E c \in calls : Serve(c) \/ Answers(c) \/ Fail(c)

\* The server answers a request or the browser gives it up; timers fire.
Settles(c) == Serve(c) \/ Answers(c) \/ Fail(c)

Spec ==
  /\ Init /\ [][Next]_vars
  /\ WF_vars(\E c \in calls : Settles(c))
  /\ WF_vars(\E p \in DOMAIN pages : TimerFires(p))

----------------------------------------------------------------------------
(* Properties.                                                             *)

TypeOK ==
  /\ server \in [Uids -> [seen : BOOLEAN, flagged : BOOLEAN, gone : BOOLEAN]]
  /\ cache \in Seq([uid : Uids, detail : Detail, page : 0..MaxOpens])
  /\ pages \in Seq(Page) /\ current \in 0..Len(pages)
  /\ \A c \in calls : c.page \in DOMAIN pages /\ c.kind \in CallKinds

\* Nothing the user sees or clicks is about another message than the one he
\* opened: the details of the pages and of the cache are those of their keys,
\* whatever order answers come in and whatever page is on screen.
DetailOfItsKey ==
  /\ \A k \in DOMAIN cache : cache[k].detail.uid = cache[k].uid
  /\ \A p \in DOMAIN pages : pages[p].shown # None => pages[p].shown.uid = pages[p].uid

\* The details stay in the cache for good, so they have to be kept right: with
\* one request at a time, no failure and no other client, they are.
CacheTrue ==
  (alone /\ calls = {}) =>
    \A k \in DOMAIN cache :
      LET m == server[cache[k].uid]
      IN  ~m.gone /\ cache[k].detail.seen = m.seen /\ cache[k].detail.flagged = m.flagged

\* The cache of the details, in number and in content.
ReaderConsistent == DetailOfItsKey /\ CacheTrue /\ Len(cache) <= CacheSize

Loading(p) == p \in DOMAIN pages /\ pages[p].loading

\* No page waits for ever for its message, on screen or not.
Settled == \A p \in 1..MaxOpens : ~Loading(p)

OnScreen(u) ==
  delays /\ current # 0 /\ pages[current].uid = u /\ pages[current].shown # None

\* [uid].vue: the reader pilots the flag, "0 = immédiat, 5/10 s = après le délai".
ReadIsMarked ==
  \A u \in Uids : [](OnScreen(u) => <>(~OnScreen(u) \/ server[u].seen \/ faults > 0))
=============================================================================

---------------------------- MODULE LiveWatcher ----------------------------
(***************************************************************************)
(* Live updates: the IMAP IDLE connections of server/lib/live/watcher.ts,  *)
(* the event streams of server/api/events.get.ts that hold them, and the   *)
(* bus between the two, server/lib/live/bus.ts.                            *)
(*                                                                         *)
(* A browser tab opens an event stream.  The first stream of a session     *)
(* (sid) creates a watcher, which connects to the mail server; the others  *)
(* join it by counting themselves.  When the last one leaves, a grace      *)
(* period starts, at the end of which the watcher is closed.  A connection *)
(* lost while the watcher is followed is opened again after a delay.       *)
(*                                                                         *)
(* A watcher is named after the stream that created it.  The map           *)
(* `sessions' only points to a watcher: timers and pending connects keep   *)
(* references to watchers that have left the map.  The delay of a          *)
(* reconnection is abstracted to a timer that may fire at any time.        *)
(***************************************************************************)
EXTENDS Integers, FiniteSets

CONSTANTS
  Sids,         \* sessions, here of one account: the bus reaches all streams
  Streams,      \* event streams; each is opened at most once
  Clients,      \* identities of IMAP clients, reused when nothing refers to them
  NoWatcher, NoClient,
  MaxWatchers,  \* maxWatchers
  Failures      \* connects that may fail: "first", "network", "auth"

ASSUME MaxWatchersAssumption == MaxWatchers \in Nat \ {0}
ASSUME FailuresAssumption == Failures \subseteq {"first", "network", "auth"}
ASSUME NullAssumption == NoWatcher \notin Streams /\ NoClient \notin Clients

VARIABLES
  sidOf,     \* sidOf[t]: the session of stream t, and of the watcher it creates
  stream,    \* stream[t]: state of the event stream
  sessions,  \* sessions[s]: the watcher in the map, if any
  watcher,   \* watcher[w]: the fields of a WatcherSession
  imap,      \* imap[c]: state of an IMAP client
  due        \* streams that a detected change must still be pushed to (history)

vars == <<sidOf, stream, sessions, watcher, imap, due>>

\* "acquiring" awaits the first connect; "watching" will call release() on
\* closing; "plain" could not acquire and has only the bus.
StreamStates == {"off", "acquiring", "watching", "plain", "closed"}

\* A client that authenticates is "connecting"; it is usable from "selecting"
\* (INBOX is being opened) on; "aborting" is a client logged out before its
\* connect() ended, "up" one in IDLE.
ClientStates == {"none", "connecting", "selecting", "aborting", "up"}

\* reconnect: the lost client whose close handler armed reconnectTimer.
WatcherType ==
  [refCount  : Int,
   client    : Clients \union {NoClient},
   closing   : BOOLEAN,                    \* closeTimer is armed
   reconnect : Clients \union {NoClient},
   debounce  : BOOLEAN]                    \* debounceTimer is armed

\* old: the lost client that this one replaces, NoClient for a first connect.
ClientType ==
  [state : ClientStates,
   owner : Streams \union {NoWatcher},
   old   : Clients \union {NoClient}]

TypeOK ==
  /\ sidOf \in [Streams -> Sids]
  /\ stream \in [Streams -> StreamStates]
  /\ sessions \in [Sids -> Streams \union {NoWatcher}]
  /\ watcher \in [Streams -> WatcherType]
  /\ imap \in [Clients -> ClientType]
  /\ due \subseteq Streams

NewWatcher == [refCount |-> 0, client |-> NoClient, closing |-> FALSE,
               reconnect |-> NoClient, debounce |-> FALSE]
NoImap == [state |-> "none", owner |-> NoWatcher, old |-> NoClient]

Init ==
  /\ sidOf \in [Streams -> Sids]
  /\ stream = [t \in Streams |-> "off"]
  /\ sessions = [s \in Sids |-> NoWatcher]
  /\ watcher = [t \in Streams |-> NewWatcher]
  /\ imap = [c \in Clients |-> NoImap]
  /\ due = {}

Pending == {"connecting", "selecting", "aborting"}
Alive   == {"connecting", "selecting", "up"}
Current(w) == sessions[sidOf[w]] = w

\* clientFactory(): a client to which no reference is left.
Fresh(c) ==
  /\ imap[c].state = "none"
  /\ \A w \in Streams : c \notin {watcher[w].client, watcher[w].reconnect}
  /\ \A d \in Clients : imap[d].state # "none" => imap[d].old # c

Connecting(w, old) == [state |-> "connecting", owner |-> w, old |-> old]

----------------------------------------------------------------------------
(* acquire(), called by an event stream that opens.                        *)

\* Fault: the grace period goes on.
JoinedInGrace(x) == [x EXCEPT !.refCount = @ + 1]

\* One more holder; the grace period is cancelled.
Joined(x) == [x EXCEPT !.refCount = @ + 1, !.closing = FALSE]

\* The session has a watcher: count one more, cancel the grace period.  The
\* watcher may be without a connection, or waiting for its first one.
Join(t) ==
  LET w == sessions[sidOf[t]] IN
    /\ stream[t] = "off"
    /\ w # NoWatcher
    /\ watcher' = [watcher EXCEPT ![w] = Joined(watcher[w])]
    /\ stream' = [stream EXCEPT ![t] = "watching"]
    /\ UNCHANGED <<sidOf, sessions, imap, due>>

\* Fault: one watcher too many.
AtCapacityLate ==
  Cardinality({s \in Sids : sessions[s] # NoWatcher}) > MaxWatchers

\* this.sessions.size >= this.maxWatchers
AtCapacity ==
  Cardinality({s \in Sids : sessions[s] # NoWatcher}) >= MaxWatchers

\* The WatcherSession of a first holder.
Created(c) == [refCount |-> 1, client |-> c, closing |-> FALSE,
               reconnect |-> NoClient, debounce |-> FALSE]

\* No watcher yet: create one and connect.
Create(t) ==
  /\ stream[t] = "off"
  /\ sessions[sidOf[t]] = NoWatcher
  /\ ~AtCapacity
  /\ \E c \in Clients :
       /\ Fresh(c)
       /\ imap' = [imap EXCEPT ![c] = Connecting(t, NoClient)]
       /\ watcher' = [watcher EXCEPT ![t] = Created(c)]
  /\ sessions' = [sessions EXCEPT ![sidOf[t]] = t]
  /\ stream' = [stream EXCEPT ![t] = "acquiring"]
  /\ UNCHANGED <<sidOf, due>>

\* Too many watchers: the stream goes on without one.
Refuse(t) ==
  /\ stream[t] = "off"
  /\ sessions[sidOf[t]] = NoWatcher
  /\ AtCapacity
  /\ stream' = [stream EXCEPT ![t] = "plain"]
  /\ UNCHANGED <<sidOf, sessions, watcher, imap, due>>

----------------------------------------------------------------------------
(* connect().                                                              *)

\* client.connect() succeeds, client.mailboxOpen('INBOX') starts.
Authenticated(c) ==
  /\ imap[c].state = "connecting"
  /\ imap' = [imap EXCEPT ![c].state = "selecting"]
  /\ UNCHANGED <<sidOf, stream, sessions, watcher, due>>

\* The mailbox is open: IDLE starts and the close handler is installed.  The
\* stream that awaited the first connect watches.
Opened(c) ==
  LET w == imap[c].owner IN
    /\ imap[c].state = "selecting"
    /\ imap' = [imap EXCEPT ![c].state = "up", ![c].old = NoClient]
    /\ stream' = [stream EXCEPT ![w] =
                    IF imap[c].old = NoClient THEN "watching" ELSE @]
    /\ UNCHANGED <<sidOf, sessions, watcher, due>>

\* Fault: forgetting the change being debounced along with the connection.
CloseHandlerForgets(x, c, isCurrent) ==
  IF x.client # c THEN x
  ELSE IF x.refCount <= 0 \/ ~isCurrent THEN [x EXCEPT !.client = NoClient]
  ELSE [x EXCEPT !.client = NoClient, !.reconnect = c, !.debounce = FALSE]

\* The close handler of client c, applied to its watcher x: ignored unless c is
\* the client of the watcher; otherwise arms the reconnection of a watcher that
\* is followed.
CloseHandler(x, c, isCurrent) ==
  IF x.client # c THEN x
  ELSE IF x.refCount <= 0 \/ ~isCurrent THEN [x EXCEPT !.client = NoClient]
  ELSE [x EXCEPT !.client = NoClient, !.reconnect = c]

\* The first connect fails: the entry of the session is removed, acquire()
\* throws, the stream goes on without a watcher.
FirstConnectFails(c) ==
  LET w == imap[c].owner IN
    /\ \/ imap[c].state \in {"connecting", "selecting"} /\ "first" \in Failures
       \/ imap[c].state = "aborting"
    /\ imap[c].old = NoClient
    /\ imap' = [imap EXCEPT ![c] = NoImap]
    /\ watcher' = [watcher EXCEPT ![w].client = NoClient]
    /\ sessions' = [sessions EXCEPT ![sidOf[w]] = NoWatcher]
    /\ stream' = [stream EXCEPT ![w] = "plain"]
    /\ UNCHANGED <<sidOf, due>>

\* A reconnection is refused: everything stops, the entry is removed.
ReconnectRefused(c) ==
  LET w == imap[c].owner IN
    /\ "auth" \in Failures
    /\ imap[c].state = "connecting" /\ imap[c].old # NoClient
    /\ imap' = [imap EXCEPT ![c] = NoImap]
    /\ watcher' = [watcher EXCEPT ![w].client = NoClient]
    /\ sessions' = [sessions EXCEPT ![sidOf[w]] = NoWatcher]
    /\ UNCHANGED <<sidOf, stream, due>>

\* A reconnection fails otherwise: session.client is reset, then 'close' is
\* emitted again on the client that was lost before.
ReconnectFails(c) ==
  LET w == imap[c].owner
      reset == [watcher[w] EXCEPT !.client = NoClient] IN
    /\ \/ imap[c].state \in {"connecting", "selecting"} /\ "network" \in Failures
       \/ imap[c].state = "aborting"
    /\ imap[c].old # NoClient
    /\ imap' = [imap EXCEPT ![c] = NoImap]
    /\ watcher' = [watcher EXCEPT ![w] = CloseHandler(reset, imap[c].old, Current(w))]
    /\ UNCHANGED <<sidOf, stream, sessions, due>>

\* An open connection is lost.
Lost(c) ==
  LET w == imap[c].owner IN
    /\ imap[c].state = "up"
    /\ imap' = [imap EXCEPT ![c] = NoImap]
    /\ watcher' = [watcher EXCEPT ![w] = CloseHandler(watcher[w], c, Current(w))]
    /\ UNCHANGED <<sidOf, stream, sessions, due>>

\* reconnectTimer fires: connect again, unless nobody follows any more.
ReconnectTimeout(w) ==
  /\ watcher[w].reconnect # NoClient
  /\ IF watcher[w].refCount <= 0 \/ ~Current(w)
       THEN /\ watcher' = [watcher EXCEPT ![w].reconnect = NoClient]
            /\ UNCHANGED imap
       ELSE \E c \in Clients :
              /\ Fresh(c)
              /\ imap' = [imap EXCEPT ![c] = Connecting(w, watcher[w].reconnect)]
              /\ watcher' = [watcher EXCEPT ![w].reconnect = NoClient,
                                            ![w].client = c]
  /\ UNCHANGED <<sidOf, stream, sessions, due>>

----------------------------------------------------------------------------
(* release() and the grace period.                                         *)

\* Fault: a grace period that starts one holder too late.
ReleasedTooLate(x) ==
  [x EXCEPT !.refCount = @ - 1, !.closing = @ \/ x.refCount <= 0]

\* One holder less; without any, the grace period starts.
Released(x) == [x EXCEPT !.refCount = @ - 1, !.closing = @ \/ x.refCount <= 1]

\* The stream closes; release() finds the watcher by its sid.
Close(t) ==
  LET w == sessions[sidOf[t]] IN
    /\ stream[t] \in {"watching", "plain"}
    /\ stream' = [stream EXCEPT ![t] = "closed"]
    /\ due' = due \ {t}
    /\ IF stream[t] = "watching" /\ w # NoWatcher
         THEN watcher' = [watcher EXCEPT ![w] = Released(watcher[w])]
         ELSE UNCHANGED watcher
    /\ UNCHANGED <<sidOf, sessions, imap>>

\* logout() of a usable client.  One that still authenticates is not usable: it
\* is merely forgotten, and its connect() goes on.
LoggedOut(x) ==
  IF x.state = "up" THEN NoImap
  ELSE IF x.state = "selecting" THEN [x EXCEPT !.state = "aborting"]
  ELSE x

\* closeTimer of w fires: remove the entry of the session, clear the timers, log
\* out of the client.
GraceTimeout(w) ==
  /\ watcher[w].closing
  /\ sessions' = [sessions EXCEPT ![sidOf[w]] = NoWatcher]
  /\ watcher' = [watcher EXCEPT ![w] = [NewWatcher EXCEPT !.refCount = watcher[w].refCount]]
  /\ imap' = [c \in Clients |-> IF c = watcher[w].client THEN LoggedOut(imap[c]) ELSE imap[c]]
  /\ UNCHANGED <<sidOf, stream, due>>

----------------------------------------------------------------------------
(* Changes of the mailbox.                                                 *)

\* 'exists', 'expunge' or 'flags' on an open connection: rearm debounceTimer.
Change(c) ==
  LET w == imap[c].owner IN
    /\ imap[c].state = "up"
    /\ watcher' = [watcher EXCEPT ![w].debounce = TRUE]
    /\ due' = due \union {t \in Streams : stream[t] = "watching" /\ sidOf[t] = sidOf[w]}
    /\ UNCHANGED <<sidOf, stream, sessions, imap>>

\* debounceTimer fires: publish on the bus; every open stream of the account
\* is subscribed, the one that acquires not yet.
Publish(w) ==
  /\ watcher[w].debounce
  /\ watcher' = [watcher EXCEPT ![w].debounce = FALSE]
  /\ due' = {t \in due : stream[t] \notin {"watching", "plain"}}
  /\ UNCHANGED <<sidOf, stream, sessions, imap>>

----------------------------------------------------------------------------

Next ==
  \/ \E t \in Streams :
       \/ Join(t) \/ Create(t) \/ Refuse(t) \/ Close(t)
       \/ ReconnectTimeout(t) \/ GraceTimeout(t) \/ Publish(t)
  \/ \E c \in Clients :
       \/ Authenticated(c) \/ Opened(c) \/ Lost(c) \/ Change(c)
       \/ FirstConnectFails(c) \/ ReconnectRefused(c) \/ ReconnectFails(c)

Spec == Init /\ [][Next]_vars

\* A connect ends, one way or the other.
ConnectEnds(c) ==
  \/ Authenticated(c) \/ Opened(c) \/ FirstConnectFails(c)
  \/ ReconnectRefused(c) \/ ReconnectFails(c)

\* Armed timers fire, and a connect ends: imapflow bounds the connection, the
\* greeting and the silence of the socket.
Fairness ==
  /\ \A w \in Streams :
       /\ WF_vars(ReconnectTimeout(w))
       /\ WF_vars(GraceTimeout(w))
       /\ WF_vars(Publish(w))
  /\ \A c \in Clients : WF_vars(ConnectEnds(c))

FairSpec == Spec /\ Fairness

----------------------------------------------------------------------------
(* Properties that hold whatever fails.                                    *)

\* The streams that rely on the watcher of s.
Holders(s) ==
  {t \in Streams : sidOf[t] = s /\ stream[t] \in {"acquiring", "watching"}}

\* acquire() never lets the map grow beyond maxWatchers.
WatchersBounded ==
  Cardinality({s \in Sids : sessions[s] # NoWatcher}) <= MaxWatchers

\* A watcher never believes in more holders than its session has; otherwise it
\* would stay connected after the last tab is closed.
NeverOvercounts ==
  \A s \in Sids : sessions[s] # NoWatcher =>
    watcher[sessions[s]].refCount <= Cardinality(Holders(s))

\* A watcher has at most one connection, open or on its way, and none while its
\* reconnection is delayed.
OneClientPerWatcher ==
  \A w \in Streams :
    LET mine == {c \in Clients : imap[c].state # "none" /\ imap[c].owner = w}
    IN  Cardinality(mine) + (IF watcher[w].reconnect # NoClient THEN 1 ELSE 0) <= 1

----------------------------------------------------------------------------
(* Properties that hold as long as no first connect fails and no           *)
(* reconnection is refused.                                                *)

\* The watcher in the map counts exactly the streams that rely on it, and a
\* session without a watcher has no such stream.
CountsHolders ==
  \A s \in Sids :
    IF sessions[s] = NoWatcher THEN Holders(s) = {}
    ELSE watcher[sessions[s]].refCount = Cardinality(Holders(s))

\* A grace period runs only for the watcher in the map, and only while it has no
\* holder: it can close no other watcher.
GraceIsForCurrent ==
  \A w \in Streams : watcher[w].closing => Current(w) /\ Holders(sidOf[w]) = {}

\* Whatever fails, the map of watchers stays within its bound, no watcher believes
\* in more holders than it has, and none has two connections (watcher.ts:88-91,
\* 120-175, 184-189).  As long as connections are only lost, the counts are exact
\* and a grace period runs for the watcher in the map only.
HoldersSound ==
  /\ WatchersBounded /\ NeverOvercounts /\ OneClientPerWatcher
  /\ Failures \subseteq {"network"} => CountsHolders /\ GraceIsForCurrent

----------------------------------------------------------------------------
(* What the comments say and the code does not do.                         *)

\* watcher.ts:157-158: a connection lost while the session is followed is opened
\* again, with an increasing delay.  A followed watcher is thus connected,
\* connecting or waiting for its reconnection.
FollowedIsRetried ==
  \A s \in Sids :
    LET w == sessions[s] IN
      w # NoWatcher /\ watcher[w].refCount > 0 =>
        watcher[w].client # NoClient \/ watcher[w].reconnect # NoClient

=============================================================================

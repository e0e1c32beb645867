------------------------- MODULE LiveWatcherProofs -------------------------
(***************************************************************************)
(* Proofs about LiveWatcher, for any number of sessions, streams and       *)
(* clients, finite or not.                                                 *)
(*                                                                         *)
(* The counts are about sets that are finite at every moment although the  *)
(* sessions and the streams may be infinitely many, so that their          *)
(* finiteness is part of the invariant.  A watcher counts no stream twice  *)
(* because the map sends a session to a watcher of that session only       *)
(* (MapInv), and has one connection because a connect starts either for a  *)
(* stream that was never seen or for a watcher whose reconnection is due,  *)
(* and neither has a connection (ClientsInv).  When connections are only   *)
(* lost, the first connect of a watcher has its stream among the holders   *)
(* (FirstInv), so that no grace period can abort it.                       *)
(***************************************************************************)
EXTENDS LiveWatcher, FiniteSetTheorems, TLAPS

Watched == {s \in Sids : sessions[s] # NoWatcher}
Running(c) == imap[c].state # "none"

\* A client that runs belongs to one watcher, which has no other and no delayed
\* reconnection; a stream that was not opened has no watcher.
ClientsInv ==
  /\ \A c \in Clients : Running(c) =>
       /\ imap[c].owner \in Streams
       /\ stream[imap[c].owner] # "off"
       /\ watcher[imap[c].owner].reconnect = NoClient
  /\ \A c, d \in Clients :
       Running(c) /\ Running(d) /\ imap[c].owner = imap[d].owner => c = d
  /\ \A w \in Streams, c \in Clients :
       Running(c) /\ watcher[w].client = c => imap[c].owner = w
  /\ \A w \in Streams : stream[w] = "off" => watcher[w] = NewWatcher

\* The watcher in the map belongs to the session.
MapInv ==
  \A s \in Sids : sessions[s] # NoWatcher =>
    sidOf[sessions[s]] = s /\ stream[sessions[s]] # "off"

BoundInv == IsFiniteSet(Watched) /\ Cardinality(Watched) <= MaxWatchers

CountInv ==
  \A s \in Sids :
    /\ IsFiniteSet(Holders(s))
    /\ sessions[s] # NoWatcher => watcher[sessions[s]].refCount <= Cardinality(Holders(s))

\* The stream that awaits the first connect is still there.
FirstInv ==
  \A c \in Clients :
    imap[c].state \in Pending /\ imap[c].old = NoClient =>
      stream[imap[c].owner] = "acquiring" /\ imap[c].state # "aborting"

OnlyLost == Failures \subseteq {"network"}
OrderlyInv == OnlyLost => CountsHolders /\ GraceIsForCurrent /\ FirstInv

WatcherInv == TypeOK /\ ClientsInv /\ MapInv /\ BoundInv /\ CountInv /\ OrderlyInv

----------------------------------------------------------------------------
(* Types.                                                                  *)

\* The first state has the types.
LEMMA TypeInit == Init => TypeOK
BY DEF Init, TypeOK, StreamStates, ClientStates, WatcherType, ClientType, NewWatcher, NoImap

\* The close handler changes neither the count nor the grace period.
LEMMA CloseHandlerType ==
  ASSUME NEW x \in WatcherType, NEW c \in Clients, NEW b \in BOOLEAN
  PROVE  /\ CloseHandler(x, c, b) \in WatcherType
         /\ CloseHandler(x, c, b).refCount = x.refCount /\ CloseHandler(x, c, b).closing = x.closing
BY DEF CloseHandler, WatcherType

\* One holder more or less.
LEMMA JoinedType ==
  ASSUME NEW x \in WatcherType
  PROVE  /\ Joined(x) \in WatcherType /\ Joined(x).refCount = x.refCount + 1
         /\ Joined(x).closing = FALSE
         /\ Joined(x).client = x.client /\ Joined(x).reconnect = x.reconnect
<1> DEFINE z == [x EXCEPT !.refCount = x.refCount + 1]
<1>1. /\ z \in WatcherType /\ z.refCount = x.refCount + 1
      /\ z.client = x.client /\ z.reconnect = x.reconnect
  BY DEF WatcherType
<1>2. Joined(x) = [z EXCEPT !.closing = FALSE]
  BY DEF Joined
<1> HIDE DEF z
<1> QED
  BY <1>1, <1>2 DEF WatcherType

\* And one holder less, which may start the grace period.
LEMMA ReleasedType ==
  ASSUME NEW x \in WatcherType
  PROVE  /\ Released(x) \in WatcherType /\ Released(x).refCount = x.refCount - 1
         /\ Released(x).closing <=> x.closing \/ x.refCount <= 1
         /\ Released(x).client = x.client /\ Released(x).reconnect = x.reconnect
<1> DEFINE z == [x EXCEPT !.refCount = x.refCount - 1]
           b == x.closing \/ x.refCount <= 1
<1>1. /\ z \in WatcherType /\ z.refCount = x.refCount - 1
      /\ z.client = x.client /\ z.reconnect = x.reconnect
  BY DEF WatcherType
<1>2. Released(x) = [z EXCEPT !.closing = b]
  BY DEF Released
<1>3. b \in BOOLEAN
  BY DEF WatcherType
<1>4. /\ Released(x) \in WatcherType /\ Released(x).refCount = z.refCount
      /\ Released(x).closing = b
      /\ Released(x).client = z.client /\ Released(x).reconnect = z.reconnect
  <2> HIDE DEF z, b
  <2> QED
    BY <1>1, <1>2, <1>3 DEF WatcherType
<1> QED
  BY <1>1, <1>4

\* Every step keeps the types.
LEMMA TypeStep == TypeOK /\ [Next]_vars => TypeOK'
<1> SUFFICES ASSUME TypeOK, [Next]_vars PROVE TypeOK'
  OBVIOUS
<1> USE DEF TypeOK, StreamStates
<1>1. ASSUME NEW t \in Streams, Join(t) PROVE TypeOK'
  BY <1>1, JoinedType DEF Join
<1>2. ASSUME NEW t \in Streams, Create(t) PROVE TypeOK'
  <2>1. PICK c \in Clients :
          /\ imap' = [imap EXCEPT ![c] = Connecting(t, NoClient)]
          /\ watcher' = [watcher EXCEPT ![t] = Created(c)]
    BY <1>2 DEF Create
  <2>2. imap' \in [Clients -> ClientType]
    <3>1. Connecting(t, NoClient) \in ClientType
      BY DEF Connecting, ClientType, ClientStates
    <3> QED
      BY <2>1, <3>1
  <2>3. watcher' \in [Streams -> WatcherType]
    <3>1. Created(c) \in WatcherType
      BY DEF Created, WatcherType
    <3> QED
      BY <2>1, <3>1
  <2> QED
    BY <1>2, <2>2, <2>3 DEF Create
<1>3. ASSUME NEW t \in Streams, Refuse(t) PROVE TypeOK'
  BY <1>3 DEF Refuse
<1>4. ASSUME NEW t \in Streams, Close(t) PROVE TypeOK'
  <2>1. ASSUME NEW w \in Streams, watcher' = [watcher EXCEPT ![w] = Released(watcher[w])]
        PROVE  watcher' \in [Streams -> WatcherType]
    BY <2>1, ReleasedType
  <2>2. watcher' \in [Streams -> WatcherType]
    BY <1>4, <2>1 DEF Close
  <2> QED
    BY <1>4, <2>2 DEF Close
<1>5. ASSUME NEW w \in Streams, ReconnectTimeout(w) PROVE TypeOK'
  <2>1. watcher' \in [Streams -> WatcherType]
    BY <1>5 DEF ReconnectTimeout, WatcherType
  <2>2. imap' \in [Clients -> ClientType]
    BY <1>5 DEF ReconnectTimeout, WatcherType, Connecting, ClientType, ClientStates
  <2> QED
    BY <1>5, <2>1, <2>2 DEF ReconnectTimeout
<1>6. ASSUME NEW w \in Streams, GraceTimeout(w) PROVE TypeOK'
  <2>1. watcher' \in [Streams -> WatcherType]
    BY <1>6 DEF GraceTimeout, WatcherType, NewWatcher
  <2>2. imap' \in [Clients -> ClientType]
    BY <1>6 DEF GraceTimeout, LoggedOut, NoImap, ClientType, ClientStates
  <2> QED
    BY <1>6, <2>1, <2>2 DEF GraceTimeout
<1>7. ASSUME NEW w \in Streams, Publish(w) PROVE TypeOK'
  BY <1>7 DEF Publish, WatcherType
<1>8. ASSUME NEW c \in Clients, Authenticated(c) PROVE TypeOK'
  BY <1>8 DEF Authenticated, ClientType, ClientStates
<1>9. ASSUME NEW c \in Clients, Opened(c) PROVE TypeOK'
  BY <1>9 DEF Opened, ClientType, ClientStates
<1>10. ASSUME NEW c \in Clients, Lost(c) PROVE TypeOK'
  <2>1. imap' \in [Clients -> ClientType]
    BY <1>10 DEF Lost, NoImap, ClientType, ClientStates
  <2>2. watcher' \in [Streams -> WatcherType]
    BY <1>10, CloseHandlerType DEF Lost, Current
  <2> QED
    BY <1>10, <2>1, <2>2 DEF Lost
<1>11. ASSUME NEW c \in Clients, Change(c) PROVE TypeOK'
  BY <1>11 DEF Change, WatcherType
<1>12. ASSUME NEW c \in Clients, FirstConnectFails(c) PROVE TypeOK'
  <2>1. imap' \in [Clients -> ClientType]
    BY <1>12 DEF FirstConnectFails, NoImap, ClientType, ClientStates
  <2>2. watcher' \in [Streams -> WatcherType]
    <3>1. watcher' = [watcher EXCEPT ![imap[c].owner].client = NoClient]
      BY <1>12 DEF FirstConnectFails
    <3> QED
      BY <3>1 DEF WatcherType
  <2> QED
    BY <1>12, <2>1, <2>2 DEF FirstConnectFails
<1>13. ASSUME NEW c \in Clients, ReconnectRefused(c) PROVE TypeOK'
  <2>1. imap' \in [Clients -> ClientType]
    BY <1>13 DEF ReconnectRefused, NoImap, ClientType, ClientStates
  <2>2. watcher' \in [Streams -> WatcherType]
    BY <1>13 DEF ReconnectRefused, WatcherType
  <2> QED
    BY <1>13, <2>1, <2>2 DEF ReconnectRefused
<1>14. ASSUME NEW c \in Clients, ReconnectFails(c) PROVE TypeOK'
  <2>1. imap' \in [Clients -> ClientType]
    BY <1>14 DEF ReconnectFails, NoImap, ClientType, ClientStates
  <2>2. ASSUME imap[c].owner \in Streams
        PROVE  [watcher[imap[c].owner] EXCEPT !.client = NoClient] \in WatcherType
    BY <2>2 DEF WatcherType
  <2>3. imap[c].old \in Clients
    BY <1>14 DEF ReconnectFails, ClientType
  <2>4. watcher' \in [Streams -> WatcherType]
    BY <1>14, <2>2, <2>3, CloseHandlerType DEF ReconnectFails, Current
  <2> QED
    BY <1>14, <2>1, <2>4 DEF ReconnectFails
<1>15. CASE UNCHANGED vars
  BY <1>15 DEF vars
<1> QED
  BY <1>1, <1>2, <1>3, <1>4, <1>5, <1>6, <1>7, <1>8, <1>9, <1>10, <1>11, <1>12, <1>13,
     <1>14, <1>15 DEF Next

\* Every variable keeps its type, for any sessions, streams and clients.
THEOREM TypeCorrect == Spec => []TypeOK
BY TypeInit, TypeStep, PTL DEF Spec

----------------------------------------------------------------------------
(* Clients.                                                                *)

\* Every step keeps the clients where they belong.
LEMMA ClientsStep == TypeOK /\ ClientsInv /\ MapInv /\ [Next]_vars => ClientsInv'
<1> SUFFICES ASSUME TypeOK, ClientsInv, MapInv, [Next]_vars PROVE ClientsInv'
  OBVIOUS
<1> USE DEF Running
\* A new client c for a watcher without any.
<1>n. ASSUME NEW w \in Streams, NEW c \in Clients, NEW old, Fresh(c),
             imap' = [imap EXCEPT ![c] = Connecting(w, old)],
             \A d \in Clients : Running(d) => imap[d].owner # w,
             watcher' \in [Streams -> WatcherType],
             watcher'[w].client = c, watcher'[w].reconnect = NoClient,
             \A v \in Streams \ {w} : watcher'[v] = watcher[v],
             \A v \in Streams : stream'[v] = "off" => stream[v] = "off",
             stream'[w] # "off"
      PROVE  ClientsInv'
  <2>1. \A d \in Clients : imap'[d] = IF d = c THEN Connecting(w, old) ELSE imap[d]
    BY <1>n DEF TypeOK
  <2>2. Connecting(w, old).owner = w
    BY DEF Connecting
  <2>3. ASSUME NEW d \in Clients, Running(d)'
        PROVE  /\ imap'[d].owner \in Streams /\ stream'[imap'[d].owner] # "off"
               /\ watcher'[imap'[d].owner].reconnect = NoClient
    BY <1>n, <2>1, <2>2, <2>3 DEF ClientsInv
  <2>4. ASSUME NEW d \in Clients, NEW e \in Clients, Running(d)', Running(e)',
               imap'[d].owner = imap'[e].owner
        PROVE  d = e
    BY <1>n, <2>1, <2>2, <2>4 DEF ClientsInv
  <2>5. ASSUME NEW v \in Streams, NEW d \in Clients, Running(d)', watcher'[v].client = d
        PROVE  imap'[d].owner = v
    BY <1>n, <2>1, <2>2, <2>5 DEF ClientsInv, Fresh
  <2>6. ASSUME NEW v \in Streams, stream'[v] = "off" PROVE watcher'[v] = NewWatcher
    BY <1>n, <2>6 DEF ClientsInv
  <2> QED
    BY <2>3, <2>4, <2>5, <2>6 DEF ClientsInv
\* Some clients stop, others go on; a watcher only loses its client, and arms a
\* reconnection when it has no other.
<1>k. ASSUME \A d \in Clients : Running(d)' => Running(d) /\ imap'[d].owner = imap[d].owner,
             \A v \in Streams : \/ watcher'[v].client = watcher[v].client
                                \/ watcher'[v].client = NoClient,
             \A v \in Streams : \/ watcher'[v].reconnect = watcher[v].reconnect
                                \/ watcher'[v].reconnect = NoClient
                                \/ \A d \in Clients : Running(d)' => imap[d].owner # v,
             \A v \in Streams : stream'[v] = "off" => stream[v] = "off" /\ watcher'[v] = watcher[v],
             \A v \in Streams : watcher[v] \in WatcherType
      PROVE  ClientsInv'
  <2>1. ASSUME NEW d \in Clients, Running(d)'
        PROVE  /\ imap'[d].owner \in Streams /\ stream'[imap'[d].owner] # "off"
               /\ watcher'[imap'[d].owner].reconnect = NoClient
    BY <1>k, <2>1 DEF ClientsInv
  <2>2. ASSUME NEW d \in Clients, NEW e \in Clients, Running(d)', Running(e)',
               imap'[d].owner = imap'[e].owner
        PROVE  d = e
    BY <1>k, <2>2 DEF ClientsInv
  <2>3. ASSUME NEW v \in Streams, NEW d \in Clients, Running(d)', watcher'[v].client = d
        PROVE  imap'[d].owner = v
    BY <1>k, <2>3, NullAssumption DEF ClientsInv
  <2>4. ASSUME NEW v \in Streams, stream'[v] = "off" PROVE watcher'[v] = NewWatcher
    BY <1>k, <2>4 DEF ClientsInv
  <2> QED
    BY <2>1, <2>2, <2>3, <2>4 DEF ClientsInv
<1>t. \A v \in Streams : watcher[v] \in WatcherType
  BY DEF TypeOK
<1>1. ASSUME NEW t \in Streams, Join(t) PROVE ClientsInv'
  <2>1. PICK w \in Streams : /\ w = sessions[sidOf[t]] /\ stream[w] # "off"
                             /\ watcher' = [watcher EXCEPT ![w] = Joined(watcher[w])]
    BY <1>1 DEF Join, MapInv, TypeOK
  <2>2. \A v \in Streams : /\ watcher'[v].client = watcher[v].client
                           /\ watcher'[v].reconnect = watcher[v].reconnect
                           /\ v # w => watcher'[v] = watcher[v]
    BY <1>t, <2>1, JoinedType DEF TypeOK
  <2>3. \A v \in Streams : stream'[v] = "off" => stream[v] = "off"
    BY <1>1 DEF Join, TypeOK
  <2>4. stream'[w] # "off"
    BY <1>1, <2>1 DEF Join, TypeOK
  <2> QED
    BY <1>k, <1>t, <1>1, <2>2, <2>3, <2>4 DEF Join
<1>2. ASSUME NEW t \in Streams, Create(t) PROVE ClientsInv'
  <2>1. PICK c \in Clients :
          /\ Fresh(c)
          /\ imap' = [imap EXCEPT ![c] = Connecting(t, NoClient)]
          /\ watcher' = [watcher EXCEPT ![t] = Created(c)]
    BY <1>2 DEF Create
  <2>2. stream[t] = "off" /\ watcher[t] = NewWatcher /\ stream' = [stream EXCEPT ![t] = "acquiring"]
    BY <1>2 DEF Create, ClientsInv
  <2>3. watcher'[t].client = c /\ watcher'[t].reconnect = NoClient
    BY <2>1 DEF Created, TypeOK
  <2>4. \A d \in Clients : Running(d) => imap[d].owner # t
    BY <2>2 DEF ClientsInv
  <2>5. watcher' \in [Streams -> WatcherType]
    BY <1>2, TypeStep DEF TypeOK
  <2>6. \A v \in Streams \ {t} : watcher'[v] = watcher[v]
    BY <2>1 DEF TypeOK
  <2>7. stream'[t] # "off" /\ \A v \in Streams : stream'[v] = "off" => stream[v] = "off"
    BY <2>2 DEF TypeOK
  <2> QED
    BY <1>n, <2>1, <2>3, <2>4, <2>5, <2>6, <2>7
<1>3. ASSUME NEW t \in Streams, Refuse(t) PROVE ClientsInv'
  <2>1. \A v \in Streams : stream'[v] = "off" => stream[v] = "off"
    BY <1>3 DEF Refuse, TypeOK
  <2> QED
    BY <1>k, <1>t, <1>3, <2>1 DEF Refuse
<1>4. ASSUME NEW t \in Streams, Close(t) PROVE ClientsInv'
  <2>1. \A v \in Streams : stream'[v] = "off" => stream[v] = "off"
    BY <1>4 DEF Close, TypeOK
  <2>2. \A v \in Streams : /\ watcher'[v].client = watcher[v].client
                           /\ watcher'[v].reconnect = watcher[v].reconnect
    BY <1>t, <1>4, ReleasedType DEF Close, TypeOK
  <2>3. \A v \in Streams : v # sessions[sidOf[t]] => watcher'[v] = watcher[v]
    BY <1>4 DEF Close, TypeOK
  <2>4. sessions[sidOf[t]] # NoWatcher => stream[sessions[sidOf[t]]] # "off"
    BY DEF MapInv, TypeOK
  <2>5. sessions[sidOf[t]] \in Streams \/ sessions[sidOf[t]] = NoWatcher
    BY DEF TypeOK
  <2> QED
    BY <1>k, <1>t, <1>4, <2>1, <2>2, <2>3, <2>4, <2>5, NullAssumption DEF Close
<1>5. ASSUME NEW w \in Streams, ReconnectTimeout(w) PROVE ClientsInv'
  <2>1. \A d \in Clients : Running(d) => imap[d].owner # w
    BY <1>5 DEF ReconnectTimeout, ClientsInv
  <2>2. stream[w] # "off" /\ stream' = stream
    BY <1>5 DEF ReconnectTimeout, ClientsInv, NewWatcher
  <2>3. CASE watcher' = [watcher EXCEPT ![w].reconnect = NoClient] /\ UNCHANGED imap
    <3>1. \A v \in Streams : /\ watcher'[v].client = watcher[v].client
                             /\ watcher'[v].reconnect \in {watcher[v].reconnect, NoClient}
                             /\ v # w => watcher'[v] = watcher[v]
      BY <1>t, <2>3 DEF WatcherType, TypeOK
    <3> QED
      BY <1>k, <1>t, <2>2, <2>3, <3>1
  <2>4. ASSUME NEW c \in Clients, Fresh(c),
               imap' = [imap EXCEPT ![c] = Connecting(w, watcher[w].reconnect)],
               watcher' = [watcher EXCEPT ![w].reconnect = NoClient, ![w].client = c]
        PROVE  ClientsInv'
    <3>1. watcher'[w].client = c /\ watcher'[w].reconnect = NoClient
      BY <1>t, <2>4 DEF WatcherType, TypeOK
    <3>2. watcher' \in [Streams -> WatcherType]
      BY <1>5, TypeStep DEF TypeOK, Next
    <3>3. \A v \in Streams \ {w} : watcher'[v] = watcher[v]
      BY <2>4 DEF TypeOK
    <3> QED
      BY <1>n, <2>1, <2>2, <2>4, <3>1, <3>2, <3>3
  <2> QED
    BY <1>5, <2>3, <2>4 DEF ReconnectTimeout
<1>6. ASSUME NEW w \in Streams, GraceTimeout(w) PROVE ClientsInv'
  <2>1. stream[w] # "off" /\ stream' = stream
    BY <1>6 DEF GraceTimeout, ClientsInv, NewWatcher
  <2>2. \A v \in Streams : /\ watcher'[v].client \in {watcher[v].client, NoClient}
                           /\ watcher'[v].reconnect \in {watcher[v].reconnect, NoClient}
                           /\ v # w => watcher'[v] = watcher[v]
    BY <1>t, <1>6 DEF GraceTimeout, NewWatcher, WatcherType, TypeOK
  <2>3. \A d \in Clients : Running(d)' => Running(d) /\ imap'[d].owner = imap[d].owner
    BY <1>6 DEF GraceTimeout, LoggedOut, NoImap, TypeOK, ClientType
  <2> QED
    BY <1>k, <1>t, <2>1, <2>2, <2>3
<1>7. ASSUME NEW w \in Streams, Publish(w) PROVE ClientsInv'
  <2>1. stream[w] # "off" /\ stream' = stream /\ imap' = imap
    BY <1>7 DEF Publish, ClientsInv, NewWatcher
  <2>2. \A v \in Streams : /\ watcher'[v].client = watcher[v].client
                           /\ watcher'[v].reconnect = watcher[v].reconnect
                           /\ v # w => watcher'[v] = watcher[v]
    BY <1>t, <1>7 DEF Publish, WatcherType, TypeOK
  <2> QED
    BY <1>k, <1>t, <2>1, <2>2
<1>8. ASSUME NEW c \in Clients, Authenticated(c) PROVE ClientsInv'
  <2>1. \A d \in Clients : Running(d)' => Running(d) /\ imap'[d].owner = imap[d].owner
    BY <1>8 DEF Authenticated, TypeOK, ClientType
  <2> QED
    BY <1>k, <1>t, <1>8, <2>1 DEF Authenticated
<1>9. ASSUME NEW c \in Clients, Opened(c) PROVE ClientsInv'
  <2>1. \A d \in Clients : Running(d)' => Running(d) /\ imap'[d].owner = imap[d].owner
    BY <1>9 DEF Opened, TypeOK, ClientType
  <2>2. \A v \in Streams : stream'[v] = "off" => stream[v] = "off"
    BY <1>9 DEF Opened, TypeOK
  <2> QED
    BY <1>k, <1>t, <1>9, <2>1, <2>2 DEF Opened
\* The watcher of c loses it.
<1>l. ASSUME NEW c \in Clients, Running(c), imap' = [imap EXCEPT ![c] = NoImap],
             \A v \in Streams : stream'[v] = "off" => stream[v] = "off",
             \A v \in Streams : v # imap[c].owner => watcher'[v] = watcher[v],
             watcher'[imap[c].owner].client \in {watcher[imap[c].owner].client, NoClient}
      PROVE  ClientsInv'
  <2>1. \A d \in Clients : Running(d)' => d # c /\ Running(d) /\ imap'[d] = imap[d]
    BY <1>l DEF NoImap, TypeOK
  <2>2. imap[c].owner \in Streams /\ stream[imap[c].owner] # "off"
    BY <1>l DEF ClientsInv
  <2>3. \A d \in Clients : Running(d)' => imap[d].owner # imap[c].owner
    BY <1>l, <2>1 DEF ClientsInv
  <2> QED
    BY <1>k, <1>l, <1>t, <2>1, <2>2, <2>3
<1>10. ASSUME NEW c \in Clients, Lost(c) PROVE ClientsInv'
  <2>1. Running(c) /\ imap' = [imap EXCEPT ![c] = NoImap] /\ stream' = stream
    BY <1>10 DEF Lost
  <2>2. imap[c].owner \in Streams
    BY <2>1 DEF ClientsInv
  <2>3. watcher'[imap[c].owner].client \in {watcher[imap[c].owner].client, NoClient}
    BY <1>t, <1>10, <2>2 DEF Lost, CloseHandler, WatcherType, TypeOK
  <2>4. \A v \in Streams : v # imap[c].owner => watcher'[v] = watcher[v]
    BY <1>10 DEF Lost, TypeOK
  <2> QED
    BY <1>l, <2>1, <2>3, <2>4
<1>11. ASSUME NEW c \in Clients, Change(c) PROVE ClientsInv'
  <2>1. imap[c].owner \in Streams /\ stream[imap[c].owner] # "off" /\ stream' = stream /\ imap' = imap
    BY <1>11 DEF Change, ClientsInv
  <2>2. \A v \in Streams : /\ watcher'[v].client = watcher[v].client
                           /\ watcher'[v].reconnect = watcher[v].reconnect
                           /\ v # imap[c].owner => watcher'[v] = watcher[v]
    BY <1>t, <1>11 DEF Change, WatcherType, TypeOK
  <2> QED
    BY <1>k, <1>t, <2>1, <2>2
<1>12. ASSUME NEW c \in Clients, FirstConnectFails(c) \/ ReconnectRefused(c) PROVE ClientsInv'
  <2>1. /\ Running(c) /\ imap' = [imap EXCEPT ![c] = NoImap]
        /\ watcher' = [watcher EXCEPT ![imap[c].owner].client = NoClient]
    BY <1>12 DEF FirstConnectFails, ReconnectRefused
  <2>2. \A v \in Streams : stream'[v] = "off" => stream[v] = "off"
    BY <1>12 DEF FirstConnectFails, ReconnectRefused, TypeOK
  <2>3. imap[c].owner \in Streams
    BY <2>1 DEF ClientsInv
  <2>4. watcher'[imap[c].owner].client = NoClient
    BY <1>t, <2>1, <2>3 DEF WatcherType, TypeOK
  <2>5. \A v \in Streams : v # imap[c].owner => watcher'[v] = watcher[v]
    BY <2>1 DEF TypeOK
  <2> QED
    BY <1>l, <2>1, <2>2, <2>4, <2>5
<1>13. ASSUME NEW c \in Clients, ReconnectFails(c) PROVE ClientsInv'
  <2>1. Running(c) /\ imap' = [imap EXCEPT ![c] = NoImap] /\ stream' = stream
    BY <1>13 DEF ReconnectFails
  <2>2. imap[c].owner \in Streams
    BY <2>1 DEF ClientsInv
  <2>3. watcher'[imap[c].owner].client = NoClient
    BY <1>t, <1>13, <2>2 DEF ReconnectFails, CloseHandler, WatcherType, TypeOK
  <2>4. \A v \in Streams : v # imap[c].owner => watcher'[v] = watcher[v]
    BY <1>13 DEF ReconnectFails, TypeOK
  <2> QED
    BY <1>l, <2>1, <2>3, <2>4
<1>14. CASE UNCHANGED vars
  BY <1>k, <1>t, <1>14 DEF vars
<1> QED
  BY <1>1, <1>2, <1>3, <1>4, <1>5, <1>6, <1>7, <1>8, <1>9, <1>10, <1>11, <1>12, <1>13,
     <1>14 DEF Next

\* The watcher in the map is one of its session, that was opened.
LEMMA MapStep == TypeOK /\ ClientsInv /\ MapInv /\ [Next]_vars => MapInv'
<1> SUFFICES ASSUME TypeOK, ClientsInv, MapInv, [Next]_vars PROVE MapInv'
  OBVIOUS
<1>k. ASSUME sidOf' = sidOf,
             \A s \in Sids : sessions'[s] = sessions[s] \/ sessions'[s] = NoWatcher,
             \A v \in Streams : stream'[v] = "off" => stream[v] = "off"
      PROVE  MapInv'
  BY <1>k DEF MapInv, TypeOK
<1>1. ASSUME NEW t \in Streams, Join(t) \/ Refuse(t) \/ Close(t) PROVE MapInv'
  <2>1. sidOf' = sidOf /\ sessions' = sessions
    BY <1>1 DEF Join, Refuse, Close
  <2>2. \A v \in Streams : stream'[v] = "off" => stream[v] = "off"
    BY <1>1 DEF Join, Refuse, Close, TypeOK
  <2> QED
    BY <1>k, <2>1, <2>2
<1>2. ASSUME NEW t \in Streams, Create(t) PROVE MapInv'
  <2>1. /\ sidOf' = sidOf /\ sessions' = [sessions EXCEPT ![sidOf[t]] = t]
        /\ stream' = [stream EXCEPT ![t] = "acquiring"] /\ sidOf[t] \in Sids
    BY <1>2 DEF Create, TypeOK
  <2>2. \A s \in Sids : sessions'[s] = IF s = sidOf[t] THEN t ELSE sessions[s]
    BY <2>1 DEF TypeOK
  <2>3. \A v \in Streams : stream'[v] = "off" => stream[v] = "off" /\ v # t
    BY <2>1 DEF TypeOK
  <2> QED
    BY <2>1, <2>2, <2>3 DEF MapInv, TypeOK
<1>3. ASSUME NEW w \in Streams, ReconnectTimeout(w) \/ Publish(w) PROVE MapInv'
  BY <1>k, <1>3 DEF ReconnectTimeout, Publish
<1>4. ASSUME NEW w \in Streams, GraceTimeout(w) PROVE MapInv'
  BY <1>k, <1>4 DEF GraceTimeout, TypeOK
<1>5. ASSUME NEW c \in Clients,
             Authenticated(c) \/ Lost(c) \/ Change(c) \/ ReconnectFails(c)
      PROVE  MapInv'
  BY <1>k, <1>5 DEF Authenticated, Lost, Change, ReconnectFails
<1>6. ASSUME NEW c \in Clients, Opened(c) PROVE MapInv'
  <2>1. \A v \in Streams : stream'[v] = "off" => stream[v] = "off"
    BY <1>6 DEF Opened, TypeOK
  <2> QED
    BY <1>k, <1>6, <2>1 DEF Opened
<1>7. ASSUME NEW c \in Clients, FirstConnectFails(c) \/ ReconnectRefused(c) PROVE MapInv'
  <2>1. \A v \in Streams : stream'[v] = "off" => stream[v] = "off"
    BY <1>7 DEF FirstConnectFails, ReconnectRefused, TypeOK
  <2>2. \A s \in Sids : sessions'[s] = sessions[s] \/ sessions'[s] = NoWatcher
    BY <1>7 DEF FirstConnectFails, ReconnectRefused, TypeOK
  <2> QED
    BY <1>k, <1>7, <2>1, <2>2 DEF FirstConnectFails, ReconnectRefused
<1>8. CASE UNCHANGED vars
  BY <1>k, <1>8 DEF vars
<1> QED
  BY <1>1, <1>2, <1>3, <1>4, <1>5, <1>6, <1>7, <1>8 DEF Next

----------------------------------------------------------------------------
(* Counts.                                                                 *)

\* What a step does to the map, to the holders and to the counts.
Shrinks == \A s \in Sids : sessions'[s] = sessions[s] \/ sessions'[s] = NoWatcher

\* A watcher is only added below the limit.
LEMMA BoundStep == TypeOK /\ BoundInv /\ [Next]_vars => BoundInv'
<1> SUFFICES ASSUME TypeOK, BoundInv, [Next]_vars PROVE BoundInv'
  OBVIOUS
<1>m. MaxWatchers \in Nat
  BY MaxWatchersAssumption
<1>c. Cardinality(Watched) \in Nat
  BY FS_CardinalityType DEF BoundInv
<1>k. ASSUME Shrinks PROVE BoundInv'
  <2>1. Watched' \in SUBSET Watched
    BY <1>k DEF Shrinks, Watched
  <2>2. IsFiniteSet(Watched') /\ Cardinality(Watched') <= Cardinality(Watched)
    BY <2>1, FS_Subset DEF BoundInv
  <2>3. Cardinality(Watched') \in Nat
    BY <2>2, FS_CardinalityType
  <2> QED
    BY <1>c, <1>m, <2>2, <2>3 DEF BoundInv
<1>1. ASSUME NEW t \in Streams, Create(t) PROVE BoundInv'
  <2>1. sessions' = [sessions EXCEPT ![sidOf[t]] = t] /\ sidOf[t] \in Sids /\ t # NoWatcher
    BY <1>1, NullAssumption DEF Create, TypeOK
  <2>2. Watched' = Watched \union {sidOf[t]}
    BY <2>1 DEF Watched, TypeOK
  <2>3. ~(Cardinality(Watched) >= MaxWatchers)
    BY <1>1 DEF Create, AtCapacity, Watched
  <2>4. IsFiniteSet(Watched') /\ Cardinality(Watched') <= Cardinality(Watched) + 1
    <3>1. IsFiniteSet(Watched)
      BY DEF BoundInv
    <3>2. /\ IsFiniteSet(Watched \union {sidOf[t]})
          /\ Cardinality(Watched \union {sidOf[t]}) =
               IF sidOf[t] \in Watched THEN Cardinality(Watched) ELSE Cardinality(Watched) + 1
      BY <3>1, FS_AddElement
    <3> QED
      BY <1>c, <2>2, <3>2
  <2>5. Cardinality(Watched') \in Nat
    BY <2>4, FS_CardinalityType
  <2> QED
    BY <1>c, <1>m, <2>3, <2>4, <2>5 DEF BoundInv
<1>2. ASSUME NEW t \in Streams,
             Join(t) \/ Refuse(t) \/ Close(t) \/ ReconnectTimeout(t) \/ Publish(t)
      PROVE  BoundInv'
  BY <1>k, <1>2 DEF Shrinks, Join, Refuse, Close, ReconnectTimeout, Publish
<1>3. ASSUME NEW w \in Streams, GraceTimeout(w) PROVE BoundInv'
  BY <1>k, <1>3 DEF Shrinks, GraceTimeout, TypeOK
<1>4. ASSUME NEW c \in Clients,
             Authenticated(c) \/ Opened(c) \/ Lost(c) \/ Change(c) \/ ReconnectFails(c)
      PROVE  BoundInv'
  BY <1>k, <1>4 DEF Shrinks, Authenticated, Opened, Lost, Change, ReconnectFails
<1>5. ASSUME NEW c \in Clients, FirstConnectFails(c) \/ ReconnectRefused(c) PROVE BoundInv'
  BY <1>k, <1>5 DEF Shrinks, FirstConnectFails, ReconnectRefused, TypeOK
<1>6. CASE UNCHANGED vars
  BY <1>k, <1>6 DEF Shrinks, vars
<1> QED
  BY <1>1, <1>2, <1>3, <1>4, <1>5, <1>6 DEF Next

Counted == {"acquiring", "watching"}

\* A stream that moves changes the holders of its session by one at most.
LEMMA HoldersMove ==
  ASSUME TypeOK, sidOf' = sidOf, NEW t \in Streams, NEW v \in StreamStates,
         stream' = [stream EXCEPT ![t] = v], NEW s \in Sids, IsFiniteSet(Holders(s))
  PROVE  /\ IsFiniteSet(Holders(s)') /\ Cardinality(Holders(s)) \in Nat
         /\ Holders(s) \ {t} \subseteq Holders(s)' /\ Holders(s)' \subseteq Holders(s) \union {t}
         /\ s # sidOf[t] \/ (stream[t] \in Counted <=> v \in Counted) => Holders(s)' = Holders(s)
         /\ s = sidOf[t] /\ stream[t] \notin Counted /\ v \in Counted =>
              t \in Holders(s)' /\ Cardinality(Holders(s)') = Cardinality(Holders(s)) + 1
         /\ s = sidOf[t] /\ stream[t] \in Counted /\ v \notin Counted =>
              t \in Holders(s) /\ Cardinality(Holders(s)') = Cardinality(Holders(s)) - 1
<1>1. \A u \in Streams : stream'[u] = IF u = t THEN v ELSE stream[u]
  BY DEF TypeOK
<1>2. Cardinality(Holders(s)) \in Nat
  BY FS_CardinalityType
<1>3. Holders(s) \ {t} \subseteq Holders(s)' /\ Holders(s)' \subseteq Holders(s) \union {t}
  BY <1>1 DEF Holders
<1>4. IsFiniteSet(Holders(s)')
  <2>1. IsFiniteSet(Holders(s) \union {t})
    BY FS_AddElement
  <2> QED
    BY <1>3, <2>1, FS_Subset
<1>5. ASSUME s # sidOf[t] \/ (stream[t] \in Counted <=> v \in Counted) PROVE Holders(s)' = Holders(s)
  BY <1>1, <1>5 DEF Holders, Counted
<1>6. ASSUME s = sidOf[t], stream[t] \notin Counted, v \in Counted
      PROVE  t \in Holders(s)' /\ Cardinality(Holders(s)') = Cardinality(Holders(s)) + 1
  <2>1. Holders(s)' = Holders(s) \union {t} /\ t \notin Holders(s)
    BY <1>1, <1>6 DEF Holders, Counted
  <2>2. Cardinality(Holders(s) \union {t}) =
          IF t \in Holders(s) THEN Cardinality(Holders(s)) ELSE Cardinality(Holders(s)) + 1
    BY FS_AddElement
  <2> QED
    BY <2>1, <2>2
<1>7. ASSUME s = sidOf[t], stream[t] \in Counted, v \notin Counted
      PROVE  t \in Holders(s) /\ Cardinality(Holders(s)') = Cardinality(Holders(s)) - 1
  <2>1. Holders(s)' = Holders(s) \ {t} /\ t \in Holders(s)
    BY <1>1, <1>7 DEF Holders, Counted
  <2>2. Cardinality(Holders(s) \ {t}) =
          IF t \in Holders(s) THEN Cardinality(Holders(s)) - 1 ELSE Cardinality(Holders(s))
    BY FS_RemoveElement
  <2> QED
    BY <2>1, <2>2
<1> QED
  BY <1>2, <1>3, <1>4, <1>5, <1>6, <1>7

\* What the steps do to the counts.
SameCounts == \A v \in Streams : watcher'[v].refCount = watcher[v].refCount

\* Only streams that open and close change the counts.
LEMMA RefCounts ==
  TypeOK /\ [Next]_vars =>
    /\ \A t \in Streams : Refuse(t) \/ ReconnectTimeout(t) \/ GraceTimeout(t) \/ Publish(t) => SameCounts
    /\ \A c \in Clients :
         (\/ Authenticated(c) \/ Opened(c) \/ Lost(c) \/ Change(c)
          \/ FirstConnectFails(c) \/ ReconnectRefused(c) \/ ReconnectFails(c)) => SameCounts
<1> SUFFICES ASSUME TypeOK PROVE
    /\ \A t \in Streams : Refuse(t) \/ ReconnectTimeout(t) \/ GraceTimeout(t) \/ Publish(t) => SameCounts
    /\ \A c \in Clients :
         (\/ Authenticated(c) \/ Opened(c) \/ Lost(c) \/ Change(c)
          \/ FirstConnectFails(c) \/ ReconnectRefused(c) \/ ReconnectFails(c)) => SameCounts
  OBVIOUS
<1>t. \A v \in Streams : watcher[v] \in WatcherType
  BY DEF TypeOK
<1> USE DEF SameCounts
<1>1. ASSUME NEW t \in Streams, Refuse(t) PROVE SameCounts
  BY <1>1 DEF Refuse
<1>2. ASSUME NEW t \in Streams, ReconnectTimeout(t) PROVE SameCounts
  BY <1>t, <1>2 DEF ReconnectTimeout, WatcherType, TypeOK
<1>3. ASSUME NEW t \in Streams, GraceTimeout(t) PROVE SameCounts
  BY <1>t, <1>3 DEF GraceTimeout, WatcherType, NewWatcher, TypeOK
<1>4. ASSUME NEW t \in Streams, Publish(t) PROVE SameCounts
  BY <1>t, <1>4 DEF Publish, WatcherType, TypeOK
<1>5. ASSUME NEW c \in Clients, Authenticated(c) \/ Opened(c) PROVE SameCounts
  BY <1>5 DEF Authenticated, Opened
<1>6. ASSUME NEW c \in Clients, Lost(c) PROVE SameCounts
  <2> DEFINE w == imap[c].owner
  <2>1. watcher' = [watcher EXCEPT ![w] = CloseHandler(watcher[w], c, Current(w))]
    BY <1>6 DEF Lost
  <2>2. Current(w) \in BOOLEAN
    BY DEF Current
  <2>3. w \in Streams => CloseHandler(watcher[w], c, Current(w)).refCount = watcher[w].refCount
    BY <1>t, <2>2, CloseHandlerType
  <2> HIDE DEF w
  <2> QED
    BY <2>1, <2>3 DEF TypeOK
<1>7. ASSUME NEW c \in Clients, Change(c) PROVE SameCounts
  BY <1>t, <1>7 DEF Change, WatcherType, TypeOK
<1>8. ASSUME NEW c \in Clients, FirstConnectFails(c) \/ ReconnectRefused(c) PROVE SameCounts
  <2>1. watcher' = [watcher EXCEPT ![imap[c].owner].client = NoClient]
    BY <1>8 DEF FirstConnectFails, ReconnectRefused
  <2> QED
    BY <1>t, <2>1 DEF WatcherType, TypeOK
<1>9. ASSUME NEW c \in Clients, ReconnectFails(c) PROVE SameCounts
  <2> DEFINE w == imap[c].owner
             reset == [watcher[w] EXCEPT !.client = NoClient]
  <2>1. imap[c].old \in Clients
    BY <1>9 DEF ReconnectFails, TypeOK, ClientType
  <2>2. watcher' = [watcher EXCEPT ![w] = CloseHandler(reset, imap[c].old, Current(w))]
    BY <1>9 DEF ReconnectFails
  <2>3. w \in Streams => reset \in WatcherType /\ reset.refCount = watcher[w].refCount
    BY <1>t DEF WatcherType
  <2>4. Current(w) \in BOOLEAN
    BY DEF Current
  <2>5. w \in Streams =>
          CloseHandler(reset, imap[c].old, Current(w)).refCount = watcher[w].refCount
    <3> HIDE DEF reset
    <3> QED
      BY <2>1, <2>3, <2>4, CloseHandlerType
  <2> HIDE DEF reset, w
  <2> QED
    BY <2>2, <2>5 DEF TypeOK
<1> QED
  BY <1>1, <1>2, <1>3, <1>4, <1>5, <1>6, <1>7, <1>8, <1>9

\* A watcher that counts a holder more has one more.
LEMMA CountStep == TypeOK /\ ClientsInv /\ MapInv /\ CountInv /\ [Next]_vars => CountInv'
<1> SUFFICES ASSUME TypeOK, ClientsInv, MapInv, CountInv, [Next]_vars PROVE CountInv'
  OBVIOUS
<1>t. \A v \in Streams : watcher[v] \in WatcherType /\ watcher[v].refCount \in Int
  BY DEF TypeOK, WatcherType
<1>s. \A s \in Sids : sessions[s] # NoWatcher => sessions[s] \in Streams
  BY DEF TypeOK
<1>f. \A s \in Sids : IsFiniteSet(Holders(s))
  BY DEF CountInv
\* Nobody moves; watchers leave the map.
<1>k. ASSUME UNCHANGED <<sidOf, stream>>, Shrinks, SameCounts PROVE CountInv'
  BY <1>k, <1>s DEF CountInv, Shrinks, SameCounts, Holders
<1>1. ASSUME NEW t \in Streams, Join(t) PROVE CountInv'
  <2>1. PICK w \in Streams : /\ w = sessions[sidOf[t]] /\ sidOf[w] = sidOf[t]
                             /\ watcher' = [watcher EXCEPT ![w] = Joined(watcher[w])]
    BY <1>1 DEF Join, MapInv, TypeOK
  <2>2. /\ stream[t] \notin Counted /\ stream' = [stream EXCEPT ![t] = "watching"]
        /\ UNCHANGED <<sidOf, sessions>> /\ "watching" \in Counted /\ "watching" \in StreamStates
    BY <1>1 DEF Join, Counted, StreamStates
  <2>3. ASSUME NEW s \in Sids
        PROVE  /\ IsFiniteSet(Holders(s)')
               /\ sessions[s] # NoWatcher => watcher'[sessions[s]].refCount <= Cardinality(Holders(s)')
    <3>1. IsFiniteSet(Holders(s)') /\ Cardinality(Holders(s)) \in Nat
      BY <1>f, <2>2, HoldersMove
    <3>2. CASE s = sidOf[t]
      <4>1. Cardinality(Holders(s)') = Cardinality(Holders(s)) + 1
        BY <1>f, <2>2, <3>2, HoldersMove
      <4>2. watcher'[w].refCount = watcher[w].refCount + 1
        BY <1>t, <2>1, JoinedType DEF TypeOK
      <4>3. watcher[w].refCount <= Cardinality(Holders(s))
        BY <2>1, <3>2, NullAssumption DEF CountInv
      <4> QED
        BY <1>t, <2>1, <3>1, <3>2, <4>1, <4>2, <4>3
    <3>3. CASE s # sidOf[t]
      <4>1. Holders(s)' = Holders(s)
        BY <1>f, <2>2, <3>3, HoldersMove
      <4>2. sessions[s] # NoWatcher => sessions[s] # w /\ watcher'[sessions[s]] = watcher[sessions[s]]
        BY <1>s, <2>1, <3>3 DEF MapInv, TypeOK
      <4> QED
        BY <3>1, <4>1, <4>2 DEF CountInv
    <3> QED
      BY <3>2, <3>3
  <2> QED
    BY <2>2, <2>3 DEF CountInv
<1>2. ASSUME NEW t \in Streams, Create(t) PROVE CountInv'
  <2>1. /\ stream[t] \notin Counted /\ stream' = [stream EXCEPT ![t] = "acquiring"]
        /\ sidOf' = sidOf /\ sessions' = [sessions EXCEPT ![sidOf[t]] = t]
        /\ "acquiring" \in Counted /\ "acquiring" \in StreamStates /\ sidOf[t] \in Sids
    BY <1>2 DEF Create, Counted, StreamStates, TypeOK
  <2>2. PICK c \in Clients : watcher' = [watcher EXCEPT ![t] = Created(c)]
    BY <1>2 DEF Create
  <2>3. ASSUME NEW s \in Sids
        PROVE  /\ IsFiniteSet(Holders(s)')
               /\ sessions'[s] # NoWatcher => watcher'[sessions'[s]].refCount <= Cardinality(Holders(s)')
    <3>1. IsFiniteSet(Holders(s)') /\ Cardinality(Holders(s)) \in Nat
      BY <1>f, <2>1, HoldersMove
    <3>2. CASE s = sidOf[t]
      <4>1. Cardinality(Holders(s)') = Cardinality(Holders(s)) + 1
        BY <1>f, <2>1, <3>2, HoldersMove
      <4>2. sessions'[s] = t /\ watcher'[t].refCount = 1
        BY <2>1, <2>2, <3>2 DEF Created, TypeOK
      <4> QED
        BY <3>1, <4>1, <4>2
    <3>3. CASE s # sidOf[t]
      <4>1. Holders(s)' = Holders(s)
        BY <1>f, <2>1, <3>3, HoldersMove
      <4>2. sessions'[s] = sessions[s]
        BY <2>1, <3>3 DEF TypeOK
      <4>3. sessions[s] # NoWatcher => watcher'[sessions[s]] = watcher[sessions[s]]
        BY <1>s, <2>2, <3>3 DEF MapInv, TypeOK
      <4> QED
        BY <3>1, <4>1, <4>2, <4>3 DEF CountInv
    <3> QED
      BY <3>2, <3>3
  <2> QED
    BY <2>3 DEF CountInv
\* A stream moves, the counts do not grow.
<1>m. ASSUME NEW t \in Streams, NEW v \in StreamStates, stream' = [stream EXCEPT ![t] = v],
             sidOf' = sidOf, Shrinks, SameCounts,
             stream[t] \in Counted /\ v \notin Counted => sessions'[sidOf[t]] = NoWatcher
      PROVE  CountInv'
  <2>1. ASSUME NEW s \in Sids
        PROVE  /\ IsFiniteSet(Holders(s)')
               /\ sessions'[s] # NoWatcher => watcher'[sessions'[s]].refCount <= Cardinality(Holders(s)')
    <3>1. IsFiniteSet(Holders(s)') /\ Cardinality(Holders(s)) \in Nat
      BY <1>f, <1>m, HoldersMove
    <3>2. ASSUME sessions'[s] # NoWatcher
          PROVE  Cardinality(Holders(s)) <= Cardinality(Holders(s)')
      <4>1. ~(s = sidOf[t] /\ stream[t] \in Counted /\ v \notin Counted)
        BY <1>m, <3>2
      <4>2. Holders(s)' = Holders(s) \/ Cardinality(Holders(s)') = Cardinality(Holders(s)) + 1
        BY <1>f, <1>m, <4>1, HoldersMove
      <4> QED
        BY <3>1, <4>2
    <3>3. ASSUME sessions'[s] # NoWatcher
          PROVE  /\ watcher'[sessions'[s]].refCount \in Int
                 /\ watcher'[sessions'[s]].refCount <= Cardinality(Holders(s))
      BY <1>m, <1>s, <1>t, <3>3 DEF CountInv, Shrinks, SameCounts
    <3>4. Cardinality(Holders(s)') \in Nat
      BY <3>1, FS_CardinalityType
    <3> QED
      BY <3>1, <3>2, <3>3, <3>4
  <2> QED
    BY <2>1 DEF CountInv
<1>3. ASSUME NEW t \in Streams, Refuse(t) PROVE CountInv'
  <2>1. /\ stream' = [stream EXCEPT ![t] = "plain"] /\ "plain" \in StreamStates
        /\ stream[t] \notin Counted /\ sidOf' = sidOf /\ Shrinks
    BY <1>3 DEF Refuse, Counted, StreamStates, Shrinks
  <2> QED
    BY <1>3, <1>m, <2>1, RefCounts
<1>4. ASSUME NEW t \in Streams, Close(t) PROVE CountInv'
  <2> DEFINE w == sessions[sidOf[t]]
  <2>1. /\ stream' = [stream EXCEPT ![t] = "closed"] /\ "closed" \in StreamStates
        /\ "closed" \notin Counted /\ UNCHANGED <<sidOf, sessions>> /\ Shrinks
        /\ stream[t] \in {"watching", "plain"} /\ sidOf[t] \in Sids
    BY <1>4 DEF Close, Counted, StreamStates, Shrinks, TypeOK
  <2>2. CASE stream[t] = "watching" /\ w # NoWatcher
    <3>1. watcher' = [watcher EXCEPT ![w] = Released(watcher[w])] /\ w \in Streams /\ sidOf[w] = sidOf[t]
      BY <1>4, <1>s, <2>1, <2>2 DEF Close, MapInv
    <3>2. ASSUME NEW s \in Sids
          PROVE  /\ IsFiniteSet(Holders(s)')
                 /\ sessions[s] # NoWatcher => watcher'[sessions[s]].refCount <= Cardinality(Holders(s)')
      <4>1. IsFiniteSet(Holders(s)') /\ Cardinality(Holders(s)) \in Nat
        BY <1>f, <2>1, HoldersMove
      <4>2. CASE s = sidOf[t]
        <5>1. Cardinality(Holders(s)') = Cardinality(Holders(s)) - 1
          BY <1>f, <2>1, <2>2, <4>2, HoldersMove DEF Counted
        <5>2. watcher'[w].refCount = watcher[w].refCount - 1
          BY <1>t, <3>1, ReleasedType DEF TypeOK
        <5>3. watcher[w].refCount <= Cardinality(Holders(s)) /\ watcher[w].refCount \in Int
          BY <1>t, <2>2, <3>1, <4>2 DEF CountInv
        <5>4. sessions[s] = w
          BY <4>2
        <5> HIDE DEF w
        <5> QED
          BY <4>1, <5>1, <5>2, <5>3, <5>4
      <4>3. CASE s # sidOf[t]
        <5>1. Holders(s)' = Holders(s)
          BY <1>f, <2>1, <4>3, HoldersMove
        <5>2. sessions[s] # NoWatcher => watcher'[sessions[s]] = watcher[sessions[s]]
          BY <1>s, <3>1, <4>3 DEF MapInv, TypeOK
        <5> QED
          BY <4>1, <5>1, <5>2 DEF CountInv
      <4> QED
        BY <4>2, <4>3
    <3> QED
      BY <2>1, <3>2 DEF CountInv
  <2>3. CASE ~(stream[t] = "watching" /\ w # NoWatcher)
    <3>1. SameCounts
      BY <1>4, <2>3 DEF Close, SameCounts
    <3>2. stream[t] \in Counted => sessions'[sidOf[t]] = NoWatcher
      BY <2>1, <2>3 DEF Counted
    <3> QED
      BY <1>m, <2>1, <3>1, <3>2
  <2> QED
    BY <2>2, <2>3
<1>5. ASSUME NEW w \in Streams, ReconnectTimeout(w) \/ Publish(w) PROVE CountInv'
  BY <1>k, <1>5, RefCounts DEF ReconnectTimeout, Publish, Shrinks
<1>6. ASSUME NEW w \in Streams, GraceTimeout(w) PROVE CountInv'
  <2>1. Shrinks
    BY <1>6 DEF GraceTimeout, Shrinks, TypeOK
  <2> QED
    BY <1>k, <1>6, <2>1, RefCounts DEF GraceTimeout
<1>7. ASSUME NEW c \in Clients,
             Authenticated(c) \/ Lost(c) \/ Change(c) \/ ReconnectFails(c)
      PROVE  CountInv'
  <2>1. UNCHANGED <<sidOf, stream>> /\ Shrinks
    BY <1>7 DEF Authenticated, Lost, Change, ReconnectFails, Shrinks
  <2> QED
    BY <1>k, <1>7, <2>1, RefCounts
<1>8. ASSUME NEW c \in Clients, Opened(c) PROVE CountInv'
  <2> DEFINE w == imap[c].owner
             v == IF imap[c].old = NoClient THEN "watching" ELSE stream[w]
  <2>1. w \in Streams
    BY <1>8 DEF Opened, ClientsInv, Running
  <2>2. v \in StreamStates
    BY <2>1 DEF TypeOK, StreamStates
  <2>3. stream' = [stream EXCEPT ![w] = v] /\ sidOf' = sidOf /\ Shrinks
    BY <1>8 DEF Opened, Shrinks
  <2>4. stream[w] \in Counted => v \in Counted
    BY DEF Counted
  <2>5. SameCounts
    BY <1>8, RefCounts
  <2> HIDE DEF w, v
  <2> QED
    BY <1>m, <2>1, <2>2, <2>3, <2>4, <2>5
<1>9. ASSUME NEW c \in Clients, FirstConnectFails(c) PROVE CountInv'
  <2> DEFINE w == imap[c].owner
  <2>1. w \in Streams
    BY <1>9 DEF FirstConnectFails, ClientsInv, Running
  <2>2. /\ stream' = [stream EXCEPT ![w] = "plain"] /\ "plain" \in StreamStates /\ sidOf' = sidOf
        /\ sessions' = [sessions EXCEPT ![sidOf[w]] = NoWatcher]
    BY <1>9 DEF FirstConnectFails, StreamStates
  <2>3. Shrinks /\ sessions'[sidOf[w]] = NoWatcher
    BY <2>1, <2>2 DEF Shrinks, TypeOK
  <2>4. SameCounts
    BY <1>9, RefCounts
  <2> HIDE DEF w
  <2> QED
    BY <1>m, <2>1, <2>2, <2>3, <2>4
<1>10. ASSUME NEW c \in Clients, ReconnectRefused(c) PROVE CountInv'
  <2>1. UNCHANGED <<sidOf, stream>> /\ Shrinks
    BY <1>10 DEF ReconnectRefused, Shrinks, TypeOK
  <2> QED
    BY <1>k, <1>10, <2>1, RefCounts
<1>11. CASE UNCHANGED vars
  BY <1>k, <1>11 DEF vars, Shrinks, SameCounts
<1> QED
  BY <1>1, <1>2, <1>3, <1>4, <1>5, <1>6, <1>7, <1>8, <1>9, <1>10, <1>11 DEF Next

----------------------------------------------------------------------------
(* When connections are only lost.                                         *)

\* The stream that awaits a first connect leaves it by its end only.
LEMMA FirstStep ==
  TypeOK /\ ClientsInv /\ OnlyLost /\ GraceIsForCurrent /\ FirstInv /\ [Next]_vars => FirstInv'
<1> SUFFICES ASSUME TypeOK, ClientsInv, OnlyLost, GraceIsForCurrent, FirstInv, [Next]_vars
             PROVE  FirstInv'
  OBVIOUS
<1>k. ASSUME \A d \in Clients : imap'[d].state \in Pending /\ imap'[d].old = NoClient =>
               /\ imap[d].state \in Pending /\ imap[d].old = NoClient
               /\ imap'[d].owner = imap[d].owner /\ imap'[d].state # "aborting"
               /\ stream'[imap[d].owner] = stream[imap[d].owner]
      PROVE  FirstInv'
  BY <1>k DEF FirstInv
<1>s. ASSUME UNCHANGED <<stream, imap>> PROVE FirstInv'
  BY <1>s DEF FirstInv
\* A stream that is not acquiring moves.
<1>m. ASSUME NEW t \in Streams, stream[t] # "acquiring", imap' = imap,
             \A u \in Streams : u # t => stream'[u] = stream[u]
      PROVE  FirstInv'
  <2>1. ASSUME NEW d \in Clients, imap[d].state \in Pending, imap[d].old = NoClient
        PROVE  imap[d].owner \in Streams \ {t} /\ imap[d].state # "aborting"
    BY <1>m, <2>1 DEF FirstInv, ClientsInv, Running, Pending
  <2> QED
    BY <1>m, <2>1 DEF FirstInv
<1>1. ASSUME NEW t \in Streams, Join(t) \/ Refuse(t) \/ Close(t) PROVE FirstInv'
  <2>1. stream[t] # "acquiring" /\ imap' = imap
    BY <1>1 DEF Join, Refuse, Close
  <2>2. \A u \in Streams : u # t => stream'[u] = stream[u]
    BY <1>1 DEF Join, Refuse, Close, TypeOK
  <2> QED
    BY <1>m, <2>1, <2>2
<1>2. ASSUME NEW t \in Streams, Create(t) PROVE FirstInv'
  <2>1. PICK c \in Clients : imap' = [imap EXCEPT ![c] = Connecting(t, NoClient)]
    BY <1>2 DEF Create
  <2>2. /\ \A d \in Clients : imap'[d] = IF d = c THEN Connecting(t, NoClient) ELSE imap[d]
        /\ \A u \in Streams : stream'[u] = IF u = t THEN "acquiring" ELSE stream[u]
    BY <1>2, <2>1 DEF Create, TypeOK
  <2>3. Connecting(t, NoClient).owner = t /\ Connecting(t, NoClient).state = "connecting"
    BY DEF Connecting
  <2>4. ASSUME NEW d \in Clients, imap'[d].state \in Pending, imap'[d].old = NoClient
        PROVE  stream'[imap'[d].owner] = "acquiring" /\ imap'[d].state # "aborting"
    <3>1. CASE d = c
      BY <2>2, <2>3, <3>1
    <3>2. CASE d # c
      <4>1. imap'[d] = imap[d] /\ imap[d].owner \in Streams
        BY <2>2, <2>4, <3>2 DEF ClientsInv, Running, Pending
      <4> QED
        BY <2>2, <2>4, <4>1 DEF FirstInv
    <3> QED
      BY <3>1, <3>2
  <2> QED
    BY <2>4 DEF FirstInv
<1>3. ASSUME NEW w \in Streams, ReconnectTimeout(w) PROVE FirstInv'
  <2>1. stream' = stream /\ watcher[w].reconnect # NoClient
    BY <1>3 DEF ReconnectTimeout
  <2>2. ASSUME NEW c \in Clients, imap' = [imap EXCEPT ![c] = Connecting(w, watcher[w].reconnect)]
        PROVE  FirstInv'
    <3>1. \A d \in Clients : imap'[d] = IF d = c THEN Connecting(w, watcher[w].reconnect) ELSE imap[d]
      BY <2>2 DEF TypeOK
    <3>2. Connecting(w, watcher[w].reconnect).old # NoClient
      BY <2>1 DEF Connecting
    <3> QED
      BY <2>1, <3>1, <3>2 DEF FirstInv
  <2> QED
    BY <1>3, <1>s, <2>1, <2>2 DEF ReconnectTimeout
<1>4. ASSUME NEW w \in Streams, GraceTimeout(w) PROVE FirstInv'
  <2>1. stream' = stream /\ watcher[w].closing
    BY <1>4 DEF GraceTimeout
  <2>2. \A d \in Clients : imap'[d] = imap[d] \/ (d = watcher[w].client /\ imap'[d] = LoggedOut(imap[d]))
    BY <1>4 DEF GraceTimeout
  <2>3. ASSUME NEW d \in Clients, imap'[d].state \in Pending, imap'[d].old = NoClient,
               d = watcher[w].client, imap'[d] = LoggedOut(imap[d])
        PROVE  FALSE
    <3>1. imap[d].state \in Pending /\ imap[d].old = NoClient
      BY <2>3 DEF LoggedOut, NoImap, Pending, TypeOK, ClientType
    <3>2. stream[imap[d].owner] = "acquiring" /\ imap[d].owner = w
      BY <2>3, <3>1 DEF FirstInv, ClientsInv, Running, Pending
    <3>3. w \in Holders(sidOf[w])
      BY <3>2 DEF Holders
    <3> QED
      BY <2>1, <3>3 DEF GraceIsForCurrent
  <2> QED
    BY <2>1, <2>2, <2>3 DEF FirstInv
<1>5. ASSUME NEW w \in Streams, Publish(w) PROVE FirstInv'
  BY <1>5, <1>s DEF Publish
<1>6. ASSUME NEW c \in Clients, Authenticated(c) PROVE FirstInv'
  <2>1. \A d \in Clients : imap'[d] = IF d = c THEN [imap[c] EXCEPT !.state = "selecting"] ELSE imap[d]
    BY <1>6 DEF Authenticated, TypeOK
  <2>2. LET x == [imap[c] EXCEPT !.state = "selecting"] IN
          x.state = "selecting" /\ x.old = imap[c].old /\ x.owner = imap[c].owner
    BY DEF TypeOK, ClientType
  <2> QED
    BY <1>6, <2>1, <2>2 DEF Authenticated, FirstInv, Pending
<1>7. ASSUME NEW c \in Clients, Opened(c) PROVE FirstInv'
  <2> DEFINE w == imap[c].owner
  <2>1. w \in Streams /\ imap[c].state = "selecting" /\ Running(c)
    BY <1>7 DEF Opened, ClientsInv, Running
  <2>2. \A d \in Clients : d # c => imap'[d] = imap[d]
    BY <1>7 DEF Opened, TypeOK
  <2>3. imap'[c].state = "up"
    BY <1>7 DEF Opened, TypeOK, ClientType
  <2>4. \A u \in Streams : u # w => stream'[u] = stream[u]
    BY <1>7 DEF Opened, TypeOK
  <2>5. ASSUME NEW d \in Clients, d # c, Running(d)
        PROVE  imap[d].owner \in Streams /\ imap[d].owner # w
    BY <2>1, <2>5 DEF ClientsInv
  <2> QED
    BY <2>2, <2>3, <2>4, <2>5 DEF FirstInv, Pending, Running
<1>8. ASSUME NEW c \in Clients, Lost(c) \/ ReconnectRefused(c) \/ ReconnectFails(c) PROVE FirstInv'
  <2>1. stream' = stream /\ imap' = [imap EXCEPT ![c] = NoImap]
    BY <1>8 DEF Lost, ReconnectRefused, ReconnectFails
  <2>2. \A d \in Clients : imap'[d] = imap[d] \/ imap'[d].state = "none"
    BY <2>1 DEF NoImap, TypeOK
  <2> QED
    BY <2>1, <2>2 DEF FirstInv, Pending
<1>9. ASSUME NEW c \in Clients, Change(c) PROVE FirstInv'
  BY <1>9, <1>s DEF Change
<1>10. ASSUME NEW c \in Clients, FirstConnectFails(c) PROVE FALSE
  BY <1>10 DEF FirstConnectFails, OnlyLost, FirstInv, Pending
<1>11. CASE UNCHANGED vars
  BY <1>11, <1>s DEF vars
<1> QED
  BY <1>1, <1>2, <1>3, <1>4, <1>5, <1>6, <1>7, <1>8, <1>9, <1>10, <1>11 DEF Next

\* Nothing starts a grace period.
NoNewGrace == \A v \in Streams : watcher'[v].closing => watcher[v].closing

\* The counts are exact, and only a watcher of the map without holders waits for the
\* end of its grace period.
LEMMA ExactStep ==
  TypeOK /\ ClientsInv /\ MapInv /\ CountInv /\ OnlyLost
    /\ CountsHolders /\ GraceIsForCurrent /\ FirstInv /\ [Next]_vars
  => CountsHolders' /\ GraceIsForCurrent'
<1> SUFFICES ASSUME TypeOK, ClientsInv, MapInv, CountInv, OnlyLost,
                    CountsHolders, GraceIsForCurrent, FirstInv, [Next]_vars
             PROVE  CountsHolders' /\ GraceIsForCurrent'
  OBVIOUS
<1>f. \A s \in Sids : IsFiniteSet(Holders(s))
  BY DEF CountInv
<1>t. \A v \in Streams : watcher[v] \in WatcherType /\ watcher[v].refCount \in Int /\ sidOf[v] \in Sids
  BY DEF TypeOK, WatcherType
<1>s. \A s \in Sids : sessions[s] # NoWatcher => sessions[s] \in Streams /\ sidOf[sessions[s]] = s
  BY DEF TypeOK, MapInv
<1>g. \A v \in Streams : watcher[v].closing =>
         sessions[sidOf[v]] = v /\ v # NoWatcher /\ Holders(sidOf[v]) = {}
  BY NullAssumption DEF GraceIsForCurrent, Current
<1>k. ASSUME UNCHANGED <<sidOf, sessions>>, \A s \in Sids : Holders(s)' = Holders(s),
             SameCounts, NoNewGrace
      PROVE  CountsHolders' /\ GraceIsForCurrent'
  <2>1. CountsHolders'
    BY <1>k, <1>s DEF CountsHolders, SameCounts
  <2>2. GraceIsForCurrent'
    BY <1>k, <1>t DEF GraceIsForCurrent, Current, NoNewGrace
  <2> QED
    BY <2>1, <2>2
<1>h. ASSUME UNCHANGED <<sidOf, stream, sessions>>, SameCounts, NoNewGrace
      PROVE  CountsHolders' /\ GraceIsForCurrent'
  <2>1. \A s \in Sids : Holders(s)' = Holders(s)
    BY <1>h DEF Holders
  <2> QED
    BY <1>h, <1>k, <2>1
\* A stream moves without becoming a holder or ceasing to be one.
<1>m. ASSUME NEW t \in Streams, NEW v \in StreamStates, stream' = [stream EXCEPT ![t] = v],
             stream[t] \in Counted <=> v \in Counted,
             UNCHANGED <<sidOf, sessions>>, SameCounts, NoNewGrace
      PROVE  CountsHolders' /\ GraceIsForCurrent'
  <2>1. \A s \in Sids : Holders(s)' = Holders(s)
    BY <1>f, <1>m, HoldersMove
  <2> QED
    BY <1>k, <1>m, <2>1
<1>1. ASSUME NEW t \in Streams, Join(t) PROVE CountsHolders' /\ GraceIsForCurrent'
  <2>1. PICK w \in Streams : /\ w = sessions[sidOf[t]] /\ sidOf[w] = sidOf[t] /\ w # NoWatcher
                             /\ watcher' = [watcher EXCEPT ![w] = Joined(watcher[w])]
    BY <1>1 DEF Join, MapInv, TypeOK
  <2>2. /\ stream[t] \notin Counted /\ stream' = [stream EXCEPT ![t] = "watching"]
        /\ sidOf' = sidOf /\ sessions' = sessions /\ "watching" \in Counted /\ "watching" \in StreamStates
    BY <1>1 DEF Join, Counted, StreamStates
  <2>3. /\ watcher'[w].refCount = watcher[w].refCount + 1 /\ watcher'[w].closing = FALSE
        /\ \A v \in Streams : v # w => watcher'[v] = watcher[v]
    BY <1>t, <2>1, JoinedType DEF TypeOK
  <2>4. \A s \in Sids : s # sidOf[t] => Holders(s)' = Holders(s)
    BY <1>f, <2>2, HoldersMove
  <2>5. ASSUME NEW s \in Sids, s = sidOf[t], sessions[s] = w
        PROVE  watcher'[w].refCount = Cardinality(Holders(s)')
    <3>1. Cardinality(Holders(s)') = Cardinality(Holders(s)) + 1
      BY <1>f, <2>2, <2>5, HoldersMove
    <3>2. watcher[w].refCount = Cardinality(Holders(s))
      BY <2>1, <2>5 DEF CountsHolders
    <3> QED
      BY <2>3, <3>1, <3>2
  <2>6. ASSUME NEW s \in Sids, s # sidOf[t], sessions[s] # NoWatcher
        PROVE  watcher'[sessions[s]].refCount = Cardinality(Holders(s)')
    <3>1. sessions[s] # w /\ sessions[s] \in Streams
      BY <1>s, <2>1, <2>6
    <3> QED
      BY <2>3, <2>4, <2>6, <3>1 DEF CountsHolders
  <2>7. ASSUME NEW s \in Sids, sessions[s] = NoWatcher PROVE Holders(s)' = {}
    BY <2>1, <2>4, <2>7 DEF CountsHolders
  <2>8. CountsHolders'
    BY <2>1, <2>2, <2>5, <2>6, <2>7 DEF CountsHolders
  <2>9. ASSUME NEW v \in Streams, watcher'[v].closing
        PROVE  sessions[sidOf[v]] = v /\ Holders(sidOf[v])' = {}
    <3>1. v # w /\ watcher[v].closing
      BY <2>3, <2>9
    <3>2. sessions[sidOf[v]] = v /\ Holders(sidOf[v]) = {}
      BY <1>g, <3>1
    <3>3. sidOf[v] # sidOf[t]
      BY <2>1, <3>1, <3>2
    <3> QED
      BY <1>t, <2>2, <2>4, <3>2, <3>3
  <2>10. GraceIsForCurrent'
    BY <2>2, <2>9 DEF GraceIsForCurrent, Current
  <2> QED
    BY <2>8, <2>10
<1>2. ASSUME NEW t \in Streams, Create(t) PROVE CountsHolders' /\ GraceIsForCurrent'
  <2>1. /\ stream[t] \notin Counted /\ stream' = [stream EXCEPT ![t] = "acquiring"]
        /\ sidOf' = sidOf /\ sessions' = [sessions EXCEPT ![sidOf[t]] = t]
        /\ "acquiring" \in Counted /\ "acquiring" \in StreamStates
        /\ sessions[sidOf[t]] = NoWatcher /\ t # NoWatcher /\ sidOf[t] \in Sids
    BY <1>2, NullAssumption DEF Create, Counted, StreamStates, TypeOK
  <2>2. PICK c \in Clients : watcher' = [watcher EXCEPT ![t] = Created(c)]
    BY <1>2 DEF Create
  <2>3. /\ watcher'[t].refCount = 1 /\ watcher'[t].closing = FALSE
        /\ \A v \in Streams : v # t => watcher'[v] = watcher[v]
    BY <2>2 DEF Created, TypeOK
  <2>4. \A s \in Sids : s # sidOf[t] => Holders(s)' = Holders(s)
    BY <1>f, <2>1, HoldersMove
  <2>5. \A s \in Sids : sessions'[s] = IF s = sidOf[t] THEN t ELSE sessions[s]
    BY <2>1 DEF TypeOK
  <2>6. Cardinality(Holders(sidOf[t])') = 1
    <3>1. Cardinality(Holders(sidOf[t])') = Cardinality(Holders(sidOf[t])) + 1
      BY <1>f, <2>1, HoldersMove
    <3>2. Holders(sidOf[t]) = {}
      BY <2>1 DEF CountsHolders
    <3> QED
      BY <3>1, <3>2, FS_EmptySet
  <2>7. ASSUME NEW s \in Sids, s # sidOf[t]
        PROVE  IF sessions[s] = NoWatcher THEN Holders(s)' = {}
               ELSE watcher'[sessions[s]].refCount = Cardinality(Holders(s)')
    <3>1. sessions[s] # NoWatcher => sessions[s] # t /\ sessions[s] \in Streams
      BY <1>s, <2>7
    <3>2. sessions[s] # NoWatcher => watcher'[sessions[s]] = watcher[sessions[s]]
      BY <2>3, <3>1
    <3> QED
      BY <2>4, <2>7, <3>2 DEF CountsHolders
  <2>8. CountsHolders'
    <3>1. ASSUME NEW s \in Sids
          PROVE  IF sessions'[s] = NoWatcher THEN Holders(s)' = {}
                 ELSE watcher'[sessions'[s]].refCount = Cardinality(Holders(s)')
      <4>1. CASE s = sidOf[t]
        <5>1. sessions'[s] = t
          BY <2>5, <4>1
        <5>2. Cardinality(Holders(s)') = 1
          BY <2>1, <2>6, <4>1
        <5> QED
          BY <2>1, <2>3, <5>1, <5>2
      <4>2. CASE s # sidOf[t]
        <5>1. sessions'[s] = sessions[s]
          BY <2>5, <4>2
        <5> QED
          BY <2>7, <4>2, <5>1
      <4> QED
        BY <4>1, <4>2
    <3> QED
      BY <3>1 DEF CountsHolders
  <2>9. ASSUME NEW v \in Streams, watcher'[v].closing
        PROVE  sessions'[sidOf[v]] = v /\ Holders(sidOf[v])' = {}
    <3>1. watcher[v].closing
      BY <2>3, <2>9
    <3>2. sessions[sidOf[v]] = v /\ v # NoWatcher /\ Holders(sidOf[v]) = {}
      BY <1>g, <3>1
    <3>3. sidOf[v] # sidOf[t]
      BY <2>1, <3>2
    <3> QED
      BY <1>t, <2>1, <2>4, <2>5, <3>2, <3>3
  <2>10. GraceIsForCurrent'
    BY <2>1, <2>9 DEF GraceIsForCurrent, Current
  <2> QED
    BY <2>8, <2>10
<1>3. ASSUME NEW t \in Streams, Refuse(t) PROVE CountsHolders' /\ GraceIsForCurrent'
  <2>1. /\ stream' = [stream EXCEPT ![t] = "plain"] /\ "plain" \in StreamStates
        /\ stream[t] \in Counted <=> "plain" \in Counted
        /\ UNCHANGED <<sidOf, sessions>> /\ NoNewGrace
    BY <1>3 DEF Refuse, Counted, StreamStates, NoNewGrace
  <2> QED
    BY <1>3, <1>m, <2>1, RefCounts
<1>4. ASSUME NEW t \in Streams, Close(t) PROVE CountsHolders' /\ GraceIsForCurrent'
  <2>1. /\ stream' = [stream EXCEPT ![t] = "closed"] /\ "closed" \in StreamStates
        /\ "closed" \notin Counted /\ sidOf' = sidOf /\ sessions' = sessions
        /\ stream[t] \in {"watching", "plain"} /\ sidOf[t] \in Sids
    BY <1>4 DEF Close, Counted, StreamStates, TypeOK
  <2>2. CASE stream[t] = "plain"
    <3>1. SameCounts /\ NoNewGrace /\ (stream[t] \in Counted <=> "closed" \in Counted)
      BY <1>4, <2>2 DEF Close, SameCounts, NoNewGrace, Counted
    <3> QED
      BY <1>m, <2>1, <3>1
  <2>3. CASE stream[t] = "watching"
    <3>1. PICK w : w = sessions[sidOf[t]]
      OBVIOUS
    <3>2. w # NoWatcher
      <4>1. t \in Holders(sidOf[t])
        BY <2>3 DEF Holders
      <4> QED
        BY <2>1, <3>1, <4>1 DEF CountsHolders
    <3>3. w \in Streams /\ sidOf[w] = sidOf[t]
      BY <1>s, <2>1, <3>1, <3>2
    <3>4. watcher' = [watcher EXCEPT ![w] = Released(watcher[w])]
      BY <1>4, <2>3, <3>1, <3>2 DEF Close
    <3>5. /\ watcher'[w].refCount = watcher[w].refCount - 1
          /\ watcher'[w].closing <=> watcher[w].closing \/ watcher[w].refCount <= 1
          /\ \A v \in Streams : v # w => watcher'[v] = watcher[v]
      BY <1>t, <3>3, <3>4, ReleasedType DEF TypeOK
    <3>6. \A s \in Sids : s # sidOf[t] => Holders(s)' = Holders(s)
      BY <1>f, <2>1, HoldersMove
    <3>7. /\ IsFiniteSet(Holders(sidOf[t])')
          /\ Cardinality(Holders(sidOf[t])') = Cardinality(Holders(sidOf[t])) - 1
          /\ t \in Holders(sidOf[t])
      BY <1>f, <2>1, <2>3, HoldersMove DEF Counted
    <3>8. watcher[w].refCount = Cardinality(Holders(sidOf[t]))
      BY <2>1, <3>1, <3>2 DEF CountsHolders
    <3>9. ASSUME NEW s \in Sids
          PROVE  IF sessions[s] = NoWatcher THEN Holders(s)' = {}
                 ELSE watcher'[sessions[s]].refCount = Cardinality(Holders(s)')
      <4>1. CASE s = sidOf[t]
        <5>1. sessions[s] = w /\ Cardinality(Holders(s)') = Cardinality(Holders(s)) - 1
              /\ watcher[w].refCount = Cardinality(Holders(s))
          BY <2>1, <3>1, <3>7, <3>8, <4>1
        <5> QED
          BY <3>2, <3>5, <5>1
      <4>2. CASE s # sidOf[t]
        <5>1. sessions[s] # NoWatcher => sessions[s] # w /\ sessions[s] \in Streams
          BY <1>s, <3>3, <4>2
        <5>2. sessions[s] # NoWatcher => watcher'[sessions[s]] = watcher[sessions[s]]
          BY <3>5, <5>1
        <5> QED
          BY <3>6, <4>2, <5>2 DEF CountsHolders
      <4> QED
        BY <4>1, <4>2
    <3>10. CountsHolders'
      BY <2>1, <3>9 DEF CountsHolders
    <3>11. ASSUME NEW v \in Streams, watcher'[v].closing
           PROVE  sessions[sidOf[v]] = v /\ Holders(sidOf[v])' = {}
      <4>1. CASE v = w
        <5>1. ~watcher[w].closing
          BY <1>g, <3>3, <3>7
        <5>2. watcher[w].refCount <= 1
          BY <3>5, <3>11, <4>1, <5>1
        <5>3. Cardinality(Holders(sidOf[t])') \in Nat
          BY <3>7, FS_CardinalityType
        <5>4. Cardinality(Holders(sidOf[t])') = 0
          BY <1>t, <3>3, <3>7, <3>8, <5>2, <5>3
        <5>5. Holders(sidOf[t])' = {}
          BY <3>7, <5>4, FS_EmptySet
        <5> QED
          BY <2>1, <3>1, <3>3, <4>1, <5>5
      <4>2. CASE v # w
        <5>1. watcher[v].closing
          BY <3>5, <3>11, <4>2
        <5>2. sessions[sidOf[v]] = v /\ Holders(sidOf[v]) = {}
          BY <1>g, <5>1
        <5>3. sidOf[v] # sidOf[t]
          BY <3>1, <4>2, <5>2
        <5> QED
          BY <1>t, <2>1, <3>6, <5>2, <5>3
      <4> QED
        BY <4>1, <4>2
    <3>12. GraceIsForCurrent'
      BY <2>1, <3>11 DEF GraceIsForCurrent, Current
    <3> QED
      BY <3>10, <3>12
  <2> QED
    BY <2>1, <2>2, <2>3
<1>5. ASSUME NEW w \in Streams, ReconnectTimeout(w) \/ Publish(w)
      PROVE  CountsHolders' /\ GraceIsForCurrent'
  <2>1. UNCHANGED <<sidOf, sessions>> /\ UNCHANGED stream
    BY <1>5 DEF ReconnectTimeout, Publish
  <2>2. NoNewGrace
    <3>1. CASE Publish(w)
      BY <1>t, <3>1 DEF Publish, NoNewGrace, WatcherType, TypeOK
    <3>2. CASE ReconnectTimeout(w)
      BY <1>t, <3>2 DEF ReconnectTimeout, NoNewGrace, WatcherType, TypeOK
    <3> QED
      BY <1>5, <3>1, <3>2
  <2> QED
    BY <1>5, <1>h, <2>1, <2>2, RefCounts
<1>6. ASSUME NEW w \in Streams, GraceTimeout(w) PROVE CountsHolders' /\ GraceIsForCurrent'
  <2>1. /\ watcher[w].closing /\ sidOf' = sidOf /\ stream' = stream
        /\ sessions' = [sessions EXCEPT ![sidOf[w]] = NoWatcher]
    BY <1>6 DEF GraceTimeout
  <2>2. sessions[sidOf[w]] = w /\ Holders(sidOf[w]) = {}
    BY <1>g, <2>1
  <2>3. \A s \in Sids : sessions'[s] = IF s = sidOf[w] THEN NoWatcher ELSE sessions[s]
    BY <2>1 DEF TypeOK
  <2>4. /\ watcher'[w].closing = FALSE
        /\ \A v \in Streams : v # w => watcher'[v] = watcher[v]
    BY <1>6 DEF GraceTimeout, NewWatcher, TypeOK
  <2>5. SameCounts
    BY <1>6, RefCounts
  <2>6. \A s \in Sids : Holders(s)' = Holders(s)
    BY <2>1 DEF Holders
  <2>7. CountsHolders'
    BY <1>s, <2>2, <2>3, <2>5, <2>6 DEF CountsHolders, SameCounts
  <2>8. ASSUME NEW v \in Streams, watcher'[v].closing
        PROVE  sessions'[sidOf[v]] = v /\ Holders(sidOf[v])' = {}
    <3>1. v # w /\ watcher[v].closing
      BY <2>4, <2>8
    <3>2. sessions[sidOf[v]] = v /\ Holders(sidOf[v]) = {}
      BY <1>g, <3>1
    <3>3. sidOf[v] # sidOf[w]
      BY <2>2, <3>1, <3>2
    <3> QED
      BY <1>t, <2>1, <2>3, <2>6, <3>2, <3>3
  <2>9. GraceIsForCurrent'
    BY <2>1, <2>8 DEF GraceIsForCurrent, Current
  <2> QED
    BY <2>7, <2>9
<1>7. ASSUME NEW c \in Clients,
             Authenticated(c) \/ Lost(c) \/ Change(c) \/ ReconnectFails(c)
      PROVE  CountsHolders' /\ GraceIsForCurrent'
  <2>1. UNCHANGED <<sidOf, sessions>> /\ UNCHANGED stream
    BY <1>7 DEF Authenticated, Lost, Change, ReconnectFails
  <2>2. NoNewGrace
    <3>1. CASE Authenticated(c)
      BY <3>1 DEF Authenticated, NoNewGrace
    <3>2. CASE Change(c)
      BY <1>t, <3>2 DEF Change, NoNewGrace, WatcherType, TypeOK
    <3>3. CASE Lost(c)
      <4> DEFINE w == imap[c].owner
      <4>1. /\ watcher' = [watcher EXCEPT ![w] = CloseHandler(watcher[w], c, Current(w))]
            /\ w \in Streams /\ Current(w) \in BOOLEAN
        BY <3>3 DEF Lost, ClientsInv, Running, Current
      <4> HIDE DEF w
      <4>2. CloseHandler(watcher[w], c, Current(w)).closing = watcher[w].closing
        BY <1>t, <4>1, CloseHandlerType
      <4> QED
        BY <1>t, <4>1, <4>2 DEF NoNewGrace, TypeOK
    <3>4. CASE ReconnectFails(c)
      <4> DEFINE w == imap[c].owner
                 x == [watcher[w] EXCEPT !.client = NoClient]
      <4>1. /\ watcher' = [watcher EXCEPT ![w] = CloseHandler(x, imap[c].old, Current(w))]
            /\ imap[c].old \in Clients /\ w \in Streams
        BY <3>4 DEF ReconnectFails, ClientsInv, Running, TypeOK, ClientType
      <4>2. x \in WatcherType /\ x.closing = watcher[w].closing
        BY <1>t, <4>1 DEF WatcherType
      <4>3. CloseHandler(x, imap[c].old, Current(w)).closing = x.closing
        <5>1. Current(w) \in BOOLEAN
          BY DEF Current
        <5> HIDE DEF x, w
        <5> QED
          BY <4>1, <4>2, <5>1, CloseHandlerType
      <4> HIDE DEF x, w
      <4> QED
        BY <4>1, <4>2, <4>3 DEF NoNewGrace, TypeOK
    <3> QED
      BY <1>7, <3>1, <3>2, <3>3, <3>4
  <2> QED
    BY <1>7, <1>h, <2>1, <2>2, RefCounts
<1>8. ASSUME NEW c \in Clients, Opened(c) PROVE CountsHolders' /\ GraceIsForCurrent'
  <2> DEFINE w == imap[c].owner
             v == IF imap[c].old = NoClient THEN "watching" ELSE stream[w]
  <2>1. w \in Streams
    BY <1>8 DEF Opened, ClientsInv, Running
  <2>2. v \in StreamStates
    BY <2>1 DEF TypeOK, StreamStates
  <2>3. /\ stream' = [stream EXCEPT ![w] = v] /\ UNCHANGED <<sidOf, sessions>>
        /\ NoNewGrace
    BY <1>8 DEF Opened, NoNewGrace
  <2>4. stream[w] \in Counted <=> v \in Counted
    BY <1>8 DEF Opened, Counted, FirstInv, Pending
  <2>5. SameCounts
    BY <1>8, RefCounts
  <2> HIDE DEF w, v
  <2> QED
    BY <1>m, <2>1, <2>2, <2>3, <2>4, <2>5
<1>9. ASSUME NEW c \in Clients, FirstConnectFails(c) \/ ReconnectRefused(c) PROVE FALSE
  BY <1>9 DEF FirstConnectFails, ReconnectRefused, OnlyLost, FirstInv, Pending
<1>10. CASE UNCHANGED vars
  BY <1>10, <1>h DEF vars, SameCounts, NoNewGrace
<1> QED
  BY <1>1, <1>2, <1>3, <1>4, <1>5, <1>6, <1>7, <1>8, <1>9, <1>10 DEF Next

----------------------------------------------------------------------------
(* The theorem.                                                            *)

\* The invariant holds in the first state.
LEMMA WatcherInit == Init => WatcherInv
<1> SUFFICES ASSUME Init PROVE WatcherInv
  OBVIOUS
<1>1. TypeOK
  BY TypeInit
<1>2. ClientsInv /\ MapInv /\ FirstInv
  BY DEF Init, ClientsInv, MapInv, FirstInv, Running, NoImap, Pending
<1>3. Watched = {} /\ \A s \in Sids : Holders(s) = {}
  BY DEF Init, Watched, Holders
<1>4. BoundInv
  BY <1>3, FS_EmptySet, MaxWatchersAssumption DEF BoundInv
<1>5. CountInv /\ CountsHolders
  BY <1>3, FS_EmptySet DEF Init, CountInv, CountsHolders
<1>6. GraceIsForCurrent
  BY DEF Init, GraceIsForCurrent, NewWatcher
<1> QED
  BY <1>1, <1>2, <1>4, <1>5, <1>6 DEF WatcherInv, OrderlyInv

\* Every step keeps it.
LEMMA WatcherStep == WatcherInv /\ [Next]_vars => WatcherInv'
<1> SUFFICES ASSUME WatcherInv, [Next]_vars PROVE WatcherInv'
  OBVIOUS
<1>1. OnlyLost' <=> OnlyLost
  BY DEF OnlyLost
<1> QED
  BY <1>1, TypeStep, ClientsStep, MapStep, BoundStep, CountStep, FirstStep, ExactStep
     DEF WatcherInv, OrderlyInv

\* It implies what is checked.
LEMMA WatcherSound == WatcherInv => HoldersSound
<1> SUFFICES ASSUME WatcherInv PROVE HoldersSound
  OBVIOUS
<1>1. WatchersBounded
  BY DEF WatcherInv, BoundInv, WatchersBounded, Watched
<1>2. NeverOvercounts
  BY DEF WatcherInv, CountInv, NeverOvercounts
<1>3. OneClientPerWatcher
  <2> SUFFICES ASSUME NEW w \in Streams
      PROVE  Cardinality({c \in Clients : imap[c].state # "none" /\ imap[c].owner = w})
               + (IF watcher[w].reconnect # NoClient THEN 1 ELSE 0) <= 1
    BY DEF OneClientPerWatcher
  <2> DEFINE mine == {c \in Clients : imap[c].state # "none" /\ imap[c].owner = w}
  <2>1. CASE mine = {}
    <3>1. Cardinality(mine) = 0
      BY <2>1, FS_EmptySet
    <3> HIDE DEF mine
    <3>2. Cardinality(mine) + (IF watcher[w].reconnect # NoClient THEN 1 ELSE 0) <= 1
      BY <3>1
    <3> QED
      BY <3>2 DEF mine
  <2>2. CASE mine # {}
    <3>1. PICK c \in mine : mine = {c}
      BY <2>2 DEF WatcherInv, ClientsInv, Running
    <3>2. watcher[w].reconnect = NoClient
      BY <3>1 DEF WatcherInv, ClientsInv, Running
    <3>3. Cardinality(mine) = 1
      BY <3>1, FS_Singleton
    <3> HIDE DEF mine
    <3>4. Cardinality(mine) + (IF watcher[w].reconnect # NoClient THEN 1 ELSE 0) <= 1
      BY <3>2, <3>3
    <3> QED
      BY <3>4 DEF mine
  <2> QED
    BY <2>1, <2>2
<1> QED
  BY <1>1, <1>2, <1>3 DEF HoldersSound, WatcherInv, OrderlyInv, OnlyLost

\* Whatever the sessions, streams and clients, and whatever fails, the map stays
\* within its bound, no watcher believes in too many holders and none has two
\* connections; when connections are only lost, the counts are exact and a grace
\* period runs only for the watcher in the map.
THEOREM HoldersAreSound == Spec => []HoldersSound
<1>1. Init => WatcherInv
  BY WatcherInit
<1>2. WatcherInv /\ [Next]_vars => WatcherInv'
  BY WatcherStep
<1>3. WatcherInv => HoldersSound
  BY WatcherSound
<1> QED
  BY <1>1, <1>2, <1>3, PTL DEF Spec

=============================================================================

-------------------------- MODULE MailViewProofs --------------------------
(***************************************************************************)
(* What the tab of MailView keeps, for every folder, any number of         *)
(* removals that can be undone, and any number of steps and faults.  Then  *)
(* what is ticked and hidden in the list of MessageSelection, for every    *)
(* folder, size of a page and number of requests at a time.  Last, what    *)
(* the cache and the pages of Reader show, for every size of the cache.    *)
(***************************************************************************)
EXTENDS MailView, FiniteSetTheorems, SequenceTheorems, TLAPS

(* Whatever the tab took out of the folder, or is about to take out, is in *)
(* what the user chose.                                                    *)
Chosen ==
  /\ env.gone \subseteq user.chosen
  /\ \A j \in Removals : removals[j] # None => removals[j].uids \subseteq user.chosen
  /\ act # None /\ act.moves => act.uids \subseteq user.chosen

IInv == TypeOK /\ Chosen

USE DEF Removals

LEMMA InitTypes == Init => TypeOK
<1> SUFFICES ASSUME Init PROVE TypeOK
  OBVIOUS
<1>1. server.at = 0 /\ 0 \in 0..server.at
  BY DEF Init
<1>2. /\ list \in Lists /\ removals \in [Removals -> RemovalRecords \cup {None}]
      /\ server \in Pages /\ cachedPage \in Pages
  BY DEF Init, Lists, Pages
<1>3. \A j \in Removals : removals[j] = None
  BY DEF Init
<1>4. env \in Histories
  BY DEF Init, Histories
<1> QED
  BY <1>1, <1>2, <1>3, <1>4 DEF Init, TypeOK

LEMMA InitChosen == Init => Chosen
  BY DEF Init, Chosen

(* Two forms that steps share. *)
LEMMA AskedTypes ==
  ASSUME TypeOK
  PROVE  Asked \in [at : 0..server.at, fetch : {"asked", "served"}, read : 0..server.at]
  BY DEF TypeOK, Asked

LEMMA ShowsTypes ==
  ASSUME TypeOK, NEW j \in Removals, removals[j] # None
  PROVE  /\ Shows(j) \in Lists \cup {None}
         /\ Shows(j) = None <=> list = None
<1>1. CASE list = None
  BY <1>1 DEF Shows
<1>2. CASE list # None
  <2>1. list \in Lists /\ removals[j] \in RemovalRecords
    BY <1>2 DEF TypeOK
  <2>2. Shows(j) \in Lists
    BY <2>1 DEF Shows, Lists, RemovalRecords
  <2> QED
    BY <1>2, <2>2, NoneApart
<1> QED
  BY <1>1, <1>2

LEMMA TouchTypes ==
  ASSUME TypeOK, NEW in \in SUBSET Msgs, Touch(in)
  PROVE  server' \in Pages /\ server'.at = server.at + 1 /\ events' \in Nat
  BY DEF Touch, TypeOK, Pages

LEMMA UsedTypes ==
  ASSUME TypeOK, NEW chosen \in SUBSET Msgs, Used(chosen)
  PROVE  /\ user' \in [steps : Nat, chosen : SUBSET Msgs, elsewhere : BOOLEAN]
         /\ user'.elsewhere = user.elsewhere /\ user'.chosen = chosen
<1>1. user \in [steps : Nat, chosen : SUBSET Msgs, elsewhere : BOOLEAN]
  BY DEF TypeOK
<1>2. user' = [user EXCEPT !.steps = user.steps + 1, !.chosen = chosen]
  BY DEF Used
<1>3. user.steps + 1 \in Nat /\ user.elsewhere \in BOOLEAN
  BY <1>1
<1>4. user' = [steps |-> user.steps + 1, chosen |-> chosen, elsewhere |-> user.elsewhere]
  BY <1>1, <1>2
<1> QED
  BY <1>3, <1>4

LEMMA UntoldTypes == ASSUME NEW told PROVE Untold(told) \in BOOLEAN
  BY DEF Untold

LEMMA AsksTypes ==
  ASSUME NEW shown \in BOOLEAN, NEW then \in {0} \cup Removals
  PROVE  /\ Asks(shown, then) \in Loads
         /\ Asks(shown, then).shown = shown /\ Asks(shown, then).then = then
         /\ Asks(shown, then).page = Unread
  BY DEF Asks, Loads

LEMMA CachedTypes ==
  ASSUME TypeOK, NEW uids
  PROVE  CachedWithout(uids) \in Pages \cup {None}
<1>1. CASE cachedPage = None
  BY <1>1 DEF CachedWithout
<1>2. CASE cachedPage # None
  <2>1. cachedPage \in Pages
    BY <1>2 DEF TypeOK
  <2> QED
    BY <1>2, <2>1 DEF CachedWithout, Pages
<1> QED
  BY <1>1, <1>2

(* A load that asks for no removal breaks nothing. *)
LEMMA OneMoreLoad ==
  ASSUME TypeOK, NEW shown \in BOOLEAN, shown => list # None,
         loads' = loads \cup {Asks(shown, 0)}
  PROVE  /\ loads' \subseteq Loads
         /\ \A l \in loads' : /\ l.shown => list # None
                              /\ l.then # 0 => l \in loads
         /\ \A l, k \in loads' : l.then = k.then => l.then = 0 \/ l = k
<1>1. Asks(shown, 0) \in Loads /\ Asks(shown, 0).shown = shown /\ Asks(shown, 0).then = 0
  BY AsksTypes
<1> QED
  BY <1>1 DEF TypeOK

(* A load ends with the removal it was for. *)
LEMMA EndsTypes ==
  ASSUME TypeOK, NEW l \in loads, Ends(l)
  PROVE  /\ loads' \subseteq Loads
         /\ removals' \in [Removals -> RemovalRecords \cup {None}]
         /\ \A k \in loads' :
              /\ k \in loads /\ k # l
              /\ k.then # 0 => removals'[k.then] # None /\ removals'[k.then].st = "reloads"
         /\ \A j \in Removals :
              removals'[j] # None =>
                /\ removals[j] # None /\ removals'[j] = removals[j]
                /\ removals'[j].st = "reloads" => \E k \in loads' : k.then = j
         /\ Uncovers(l) \subseteq Msgs
<1> USE DEF Ends
<1>1. /\ loads' \subseteq Loads
      /\ removals' \in [Removals -> RemovalRecords \cup {None}]
  BY DEF TypeOK
<1>2. ASSUME NEW k \in loads'
      PROVE  /\ k \in loads /\ k # l
             /\ k.then # 0 => removals'[k.then] # None /\ removals'[k.then].st = "reloads"
  <2>1. k \in loads /\ k # l /\ k \in Loads
    BY DEF TypeOK
  <2>2. CASE k.then # 0
    <3>1. k.then \in Removals /\ k.then # l.then
      BY <2>1, <2>2 DEF TypeOK, Loads
    <3>2. removals'[k.then] = removals[k.then]
      BY <3>1
    <3> QED
      BY <2>1, <2>2, <3>2 DEF TypeOK
  <2> QED
    BY <2>1, <2>2
<1>3. ASSUME NEW j \in Removals, removals'[j] # None
      PROVE  /\ removals[j] # None /\ removals'[j] = removals[j]
             /\ removals'[j].st = "reloads" => \E k \in loads' : k.then = j
  <2>1. j # l.then /\ removals'[j] = removals[j]
    BY <1>3
  <2> QED
    BY <1>3, <2>1 DEF TypeOK
<1>4. Uncovers(l) \subseteq Msgs
  <2>1. CASE l.then = 0
    BY <2>1 DEF Uncovers
  <2>2. CASE l.then # 0
    <3>1. l.then \in Removals /\ removals[l.then] # None
      BY <2>2 DEF TypeOK, Loads
    <3>2. removals[l.then] \in RemovalRecords
      BY <3>1 DEF TypeOK
    <3> QED
      BY <2>2, <3>2 DEF Uncovers, RemovalRecords
  <2> QED
    BY <2>1, <2>2
<1> QED
  BY <1>1, <1>2, <1>3, <1>4

(* The loads after an action, of a list that may have gone. *)
LEMMA ReloadsTypes ==
  ASSUME TypeOK, act # None, Reloads
  PROVE  /\ loads' \subseteq Loads /\ loads \subseteq loads'
         /\ \A l \in loads' : /\ l.shown => list # None
                              /\ l.then # 0 => l \in loads
         /\ \A l, k \in loads' : l.then = k.then => l.then = 0 \/ l = k
<1>1. CASE user.elsewhere
  BY <1>1 DEF Reloads, TypeOK
<1>2. CASE ~user.elsewhere
  <2>1. act.alive \in BOOLEAN /\ (act.alive => list # None)
    BY DEF TypeOK, Actions
  <2> QED
    BY <1>2, <2>1, OneMoreLoad DEF Reloads
<1> QED
  BY <1>1, <1>2

(* A removal whose request leaves, is served or answered is of the same list. *)
LEMMA AdvanceTypes ==
  ASSUME TypeOK, NEW j \in Removals, removals[j] # None,
         removals[j].st \in {"timer", "sent", "done"},
         NEW st \in {"sent", "done", "counts"}, removals' = [removals EXCEPT ![j].st = st]
  PROVE  /\ removals' \in [Removals -> RemovalRecords \cup {None}]
         /\ \A i \in Removals : removals'[i] # None =>
              /\ removals[i] # None /\ removals'[i].alive = removals[i].alive
              /\ removals'[i].st = IF i = j THEN st ELSE removals[i].st
         /\ \A l \in loads : l.then # 0 =>
              removals'[l.then] # None /\ removals'[l.then].st = "reloads"
<1>1. /\ removals[j] \in RemovalRecords
      /\ removals'[j] = [removals[j] EXCEPT !.st = st]
      /\ \A i \in Removals \ {j} : removals'[i] = removals[i]
  BY DEF TypeOK
<1>2. removals'[j] \in RemovalRecords /\ removals'[j].alive = removals[j].alive /\ removals'[j].st = st
  BY <1>1 DEF RemovalRecords
<1>3. \A l \in loads : l.then # 0 => l.then \in Removals \ {j} /\ removals[l.then] # None
                                    /\ removals[l.then].st = "reloads"
  BY DEF TypeOK, Loads
<1> QED
  BY <1>1, <1>2, <1>3 DEF TypeOK

(* No step breaks the types. *)
LEMMA StepTypes == TypeOK /\ [Next]_vars => TypeOK'
<1> SUFFICES ASSUME TypeOK, [Next]_vars PROVE TypeOK'
  OBVIOUS
<1>1. CASE Change
  <2>1. PICK m \in Msgs : Touch(IF m \in server.in THEN server.in \ {m} ELSE server.in \cup {m})
    BY <1>1 DEF Change
  <2>2. server' \in Pages /\ server'.at = server.at + 1 /\ events' \in Nat
    BY <2>1, TouchTypes DEF TypeOK, Pages
  <2>3. env' \in Histories
    <3>1. env \in Histories /\ Untold(FALSE) \in BOOLEAN
      BY UntoldTypes DEF TypeOK
    <3>2. env' = [env EXCEPT !.changes = env.changes + 1, !.untold = Untold(FALSE)]
      BY <1>1 DEF Change
    <3>3. env' = [changes |-> env.changes + 1, faults |-> env.faults, late |-> env.late,
                  untold |-> Untold(FALSE), gone |-> env.gone]
      BY <3>1, <3>2 DEF Histories
    <3>4. /\ env.changes + 1 \in Nat /\ env.faults \in Nat /\ env.late \in BOOLEAN
          /\ env.gone \in SUBSET Msgs
      BY <3>1 DEF Histories
    <3> QED
      BY <3>1, <3>3, <3>4 DEF Histories
  <2> QED
    BY <1>1, <2>2, <2>3 DEF Change, TypeOK, Pages
<1>2. CASE EventLost
  BY <1>2 DEF EventLost, Fault, TypeOK, Histories
<1>3. CASE FoldersServed
  <2>1. folders' \in [at : 0..server.at, fetch : {"served"}, read : 0..server.at]
    <3>1. folders' = [at |-> folders.at, fetch |-> "served", read |-> server.at]
      BY <1>3 DEF FoldersServed, TypeOK
    <3>2. folders.at \in 0..server.at /\ server.at \in 0..server.at
      BY DEF TypeOK, Pages
    <3> QED
      BY <3>1, <3>2
  <2> QED
    BY <1>3, <2>1 DEF FoldersServed, TypeOK
<1>4. ASSUME NEW at \in 0..server.at, FoldersEnd(at), folders.fetch # "none",
             UNCHANGED <<inbox, server, events, list, cachedPage, act, user>>, env' \in Histories
      PROVE  TypeOK'
  <2>1. /\ folders' \in [at : 0..server.at, fetch : {"none", "asked", "served"}, read : 0..server.at]
        /\ live' = FALSE
    BY <1>4 DEF FoldersEnd, TypeOK, Pages
  <2>2. ASSUME NEW j \in Removals
        PROVE  /\ removals'[j] \in RemovalRecords \cup {None}
               /\ removals'[j] # None =>
                    /\ removals[j] # None /\ removals'[j].alive = removals[j].alive
                    /\ removals'[j].st # "counts"
               /\ j \notin Counting => removals'[j] = removals[j]
               /\ j \in Counting =>
                    /\ removals[j] \in RemovalRecords /\ removals[j].st = "counts"
                    /\ ~user.elsewhere => removals'[j] # None /\ removals'[j].st = "reloads"
                    /\ user.elsewhere => removals'[j] = None
    <3>1. removals'[j] = IF j \notin Counting THEN removals[j]
            ELSE IF user.elsewhere THEN None ELSE [removals[j] EXCEPT !.st = "reloads"]
      BY <1>4 DEF FoldersEnd
    <3>2. removals[j] \in RemovalRecords \cup {None}
      BY DEF TypeOK
    <3>3. CASE j \notin Counting
      BY <3>1, <3>2, <3>3 DEF Counting
    <3>4. CASE j \in Counting
      <4>1. removals[j] \in RemovalRecords /\ removals[j].st = "counts" /\ removals[j] # None
        BY <3>2, <3>4 DEF Counting
      <4>2. /\ [removals[j] EXCEPT !.st = "reloads"] \in RemovalRecords
            /\ [removals[j] EXCEPT !.st = "reloads"].st = "reloads"
            /\ [removals[j] EXCEPT !.st = "reloads"].alive = removals[j].alive
        BY <4>1 DEF RemovalRecords
      <4>3. [removals[j] EXCEPT !.st = "reloads"] # None
        BY <4>2, NoneApart
      <4> QED
        BY <3>1, <3>4, <4>1, <4>2, <4>3
    <3> QED
      BY <3>3, <3>4
  <2>3. removals' \in [Removals -> RemovalRecords \cup {None}]
    BY <1>4, <2>2 DEF FoldersEnd
  <2>4. ASSUME NEW l \in loads'
        PROVE  \/ l \in loads
               \/ l = Asks(TRUE, 0) /\ list # None
               \/ ~user.elsewhere /\ \E j \in Counting : l = Asks(removals[j].alive, j)
    BY <1>4 DEF FoldersEnd
  <2>5. ASSUME NEW l \in loads'
        PROVE  /\ l \in Loads /\ (l.shown => list # None)
               /\ l.then # 0 => \/ l \in loads /\ l.then \notin Counting
                               \/ /\ ~user.elsewhere /\ l.then \in Counting
                                  /\ l = Asks(removals[l.then].alive, l.then)
    <3>1. CASE l \in loads
      BY <3>1 DEF TypeOK, Counting
    <3>2. CASE l = Asks(TRUE, 0) /\ list # None
      BY <3>2, AsksTypes
    <3>3. ASSUME ~user.elsewhere, NEW j \in Counting, l = Asks(removals[j].alive, j)
          PROVE  /\ l \in Loads /\ (l.shown => list # None)
                 /\ l.then = j
      <4>1. j \in Removals /\ removals[j] # None /\ removals[j].alive \in BOOLEAN
        BY <3>3, <2>2 DEF Counting, RemovalRecords
      <4> QED
        BY <3>3, <4>1, AsksTypes DEF TypeOK
    <3> QED
      BY <2>4, <3>1, <3>2, <3>3
  <2>6. ASSUME NEW l \in loads', l.then # 0
        PROVE  removals'[l.then] # None /\ removals'[l.then].st = "reloads"
    <3>1. l.then \in Removals
      BY <2>5, <2>6 DEF Loads
    <3> QED
      BY <2>2, <2>5, <2>6, <3>1 DEF TypeOK
  <2>7. ASSUME NEW j \in Removals, removals'[j] # None, removals'[j].st = "reloads"
        PROVE  \E l \in loads' : l.then = j
    <3>1. CASE j \in Counting
      <4>1. ~user.elsewhere /\ removals[j].alive \in BOOLEAN
        BY <2>2, <2>7, <3>1 DEF RemovalRecords
      <4>2. Asks(removals[j].alive, j) \in loads'
        BY <1>4, <3>1, <4>1 DEF FoldersEnd
      <4> QED
        BY <4>1, <4>2, AsksTypes
    <3>2. CASE j \notin Counting
      <4>1. \E l \in loads : l.then = j
        BY <2>2, <2>7, <3>2 DEF TypeOK
      <4> QED
        BY <1>4, <4>1 DEF FoldersEnd
    <3> QED
      BY <3>1, <3>2
  <2>8. ASSUME NEW l \in loads', NEW k \in loads', l.then = k.then, l.then # 0
        PROVE  l = k
    BY <2>5, <2>8 DEF TypeOK
  <2>9. removals' \in [Removals -> RemovalRecords \cup {None}]
        /\ \A j \in Removals : removals'[j] # None =>
             (removals'[j].alive => list # None) /\ removals'[j].st # "counts"
    BY <2>2, <2>3 DEF TypeOK
  <2>10. loads' \subseteq Loads /\ \A l \in loads' : l.shown => list # None
    BY <2>5
  <2> QED
    BY <1>4, <2>1, <2>6, <2>7, <2>8, <2>9, <2>10 DEF TypeOK
<1>5. CASE FoldersAnswered
  <2>1. folders.read \in 0..server.at /\ env' \in Histories
    BY <1>5 DEF FoldersAnswered, TypeOK
  <2> QED
    BY <1>5, <1>4, <2>1 DEF FoldersAnswered
<1>6. CASE FoldersFail
  <2>1. folders.at \in 0..server.at /\ env' \in Histories
    BY <1>6 DEF FoldersFail, Fault, TypeOK, Histories
  <2> QED
    BY <1>6, <1>4, <2>1 DEF FoldersFail
<1>7. CASE Interval
  BY <1>7, AskedTypes DEF Interval, TypeOK
<1>8. CASE OnChange
  BY <1>8, AskedTypes DEF OnChange, TypeOK
<1>9. CASE LoadServed
  <2> PICK l \in loads :
        l.page = Unread /\ loads' = (loads \ {l}) \cup {[l EXCEPT !.page = server]}
    BY <1>9 DEF LoadServed
  <2>1. /\ [l EXCEPT !.page = server] \in Loads
        /\ [l EXCEPT !.page = server].then = l.then /\ [l EXCEPT !.page = server].shown = l.shown
    BY DEF TypeOK, Loads
  <2>2. ASSUME NEW k \in loads'
        PROVE  \E k0 \in loads : /\ k.then = k0.then /\ k.shown = k0.shown
                                 /\ k = IF k0 = l THEN [l EXCEPT !.page = server] ELSE k0
    BY <2>1
  <2>3. ASSUME NEW k \in loads', NEW i \in loads', k.then = i.then, k.then # 0
        PROVE  k = i
    BY <2>2, <2>3 DEF TypeOK
  <2>4. /\ loads' \subseteq Loads
        /\ \A k \in loads' :
             /\ k.shown => list # None
             /\ k.then # 0 => removals[k.then] # None /\ removals[k.then].st = "reloads"
    BY <2>1, <2>2 DEF TypeOK
  <2>5. ASSUME NEW j \in Removals, removals[j] # None, removals[j].st = "reloads"
        PROVE  \E k \in loads' : k.then = j
    <3>1. PICK k \in loads : k.then = j
      BY <2>5 DEF TypeOK
    <3>2. [l EXCEPT !.page = server] \in loads' /\ (k # l => k \in loads')
      OBVIOUS
    <3> QED
      BY <2>1, <3>1, <3>2
  <2>6. UNCHANGED <<inbox, server, events, live, folders, list, cachedPage, removals, act, user, env>>
    BY <1>9 DEF LoadServed
  <2>7. \A k \in loads' :
          /\ k.shown => list' # None
          /\ k.then # 0 => removals'[k.then] # None /\ removals'[k.then].st = "reloads"
    <3>1. list' = list /\ removals' = removals
      BY <2>6
    <3> QED
      BY <2>4, <3>1
  <2>9. \A k, i \in loads' : k.then = i.then => k.then = 0 \/ k = i
    BY <2>3
  <2>8. \A j \in Removals :
          removals'[j] # None =>
            /\ removals'[j].alive => list' # None
            /\ removals'[j].st = "counts" => folders'.fetch # "none"
            /\ removals'[j].st = "reloads" => \E k \in loads' : k.then = j
    BY <2>5, <2>6 DEF TypeOK
  <2> QED
    BY <2>4, <2>6, <2>7, <2>8, <2>9 DEF TypeOK
<1>10. CASE LoadAnswered
  <2> PICK l \in loads :
        /\ l.page # Unread /\ Ends(l) /\ cachedPage' = l.page
        /\ list' = IF l.shown
                   THEN [items |-> l.page.in, at |-> l.page.at, hidden |-> list.hidden \ Uncovers(l)]
                   ELSE list
        /\ env' = [env EXCEPT !.late = @ \/ (l.shown /\ l.page.at < list.at)]
    BY <1>10 DEF LoadAnswered
  <2>1. l.page \in Pages /\ l.shown \in BOOLEAN
    BY DEF TypeOK, Loads
  <2>2. list' \in Lists \cup {None} /\ (list' = None <=> list = None)
    <3>1. CASE l.shown
      <4>1. list \in Lists
        BY <3>1 DEF TypeOK
      <4>2. list' \in Lists
        BY <2>1, <3>1, <4>1 DEF Lists, Pages
      <4> QED
        BY <4>1, <4>2, NoneApart
    <3> QED
      BY <3>1 DEF TypeOK
  <2>3. env' \in Histories
    <3>1. CASE l.shown
      <4>1. (l.page.at < list.at) \in BOOLEAN
        OBVIOUS
      <4> QED
        BY <4>1 DEF TypeOK, Histories
    <3>2. CASE ~l.shown
      BY <3>2 DEF TypeOK, Histories
    <3> QED
      BY <3>1, <3>2
  <2> QED
    BY <1>10, <2>1, <2>2, <2>3, EndsTypes DEF LoadAnswered, TypeOK
<1>11. CASE LoadFails
  <2> PICK l \in loads :
        Ends(l) /\ list' = IF l.shown THEN [list EXCEPT !.hidden = @ \ Uncovers(l)] ELSE list
    BY <1>11 DEF LoadFails
  <2>1. list' \in Lists \cup {None} /\ (list' = None <=> list = None)
    <3>1. CASE l.shown
      <4>1. list \in Lists
        BY <3>1 DEF TypeOK
      <4>2. list' \in Lists
        BY <3>1, <4>1 DEF Lists
      <4> QED
        BY <4>1, <4>2, NoneApart
    <3> QED
      BY <3>1 DEF TypeOK
  <2>2. env' \in Histories
    BY <1>11 DEF LoadFails, Fault, TypeOK, Histories
  <2> QED
    BY <1>11, <2>1, <2>2, EndsTypes DEF LoadFails, TypeOK
<1>12. CASE Refresh
  <2>1. user.chosen \in SUBSET Msgs
    BY DEF TypeOK
  <2>2. user' \in [steps : Nat, chosen : SUBSET Msgs, elsewhere : BOOLEAN]
        /\ user'.elsewhere = user.elsewhere
    BY <1>12, <2>1, UsedTypes DEF Refresh
  <2>3. /\ loads' \subseteq Loads /\ loads \subseteq loads'
        /\ \A l \in loads' : (l.shown => list # None) /\ (l.then # 0 => l \in loads)
        /\ \A l, k \in loads' : l.then = k.then => l.then = 0 \/ l = k
    BY <1>12, OneMoreLoad DEF Refresh
  <2> QED
    BY <1>12, <2>2, <2>3 DEF Refresh, TypeOK
<1>13. CASE Remove
  <2> PICK uids \in (SUBSET Displayed) \ {{}}, j \in Removals :
        /\ Used(user.chosen \cup uids) /\ removals[j] = None
        /\ removals' = [removals EXCEPT ![j] = [uids |-> uids, alive |-> TRUE, st |-> "timer"]]
        /\ list' = [list EXCEPT !.hidden = @ \cup uids]
        /\ UNCHANGED <<inbox, server, events, live, folders, loads, cachedPage, act, env>>
    BY <1>13 DEF Remove
  <2>1. list \in Lists /\ uids \subseteq Msgs /\ list # None
    BY NoneApart DEF TypeOK, Displayed, Lists
  <2>2. list' \in Lists
    BY <2>1 DEF Lists
  <2>3. list' # None
    BY <2>2, NoneApart
  <2>4. removals' \in [Removals -> RemovalRecords \cup {None}]
    BY <2>1 DEF TypeOK, RemovalRecords
  <2>5. \A i \in Removals : i # j => removals'[i] = removals[i]
    BY DEF TypeOK
  <2>6. removals'[j] = [uids |-> uids, alive |-> TRUE, st |-> "timer"]
    BY DEF TypeOK
  <2>7. user' \in [steps : Nat, chosen : SUBSET Msgs, elsewhere : BOOLEAN]
        /\ user'.elsewhere = user.elsewhere
    <3>1. user.chosen \cup uids \in SUBSET Msgs
      BY <2>1 DEF TypeOK
    <3> QED
      BY <3>1, UsedTypes
  <2>8. \A l \in loads : l.then # 0 => l.then \in Removals /\ l.then # j
    BY DEF TypeOK, Loads
  <2> QED
    BY <2>1, <2>2, <2>3, <2>4, <2>5, <2>6, <2>7, <2>8 DEF TypeOK
<1>14. ASSUME NEW j \in Removals, Undo(j) PROVE TypeOK'
  <2>1. Shows(j) \in Lists \cup {None} /\ (Shows(j) = None <=> list = None)
    BY <1>14, ShowsTypes DEF Undo
  <2>2. user' \in [steps : Nat, chosen : SUBSET Msgs, elsewhere : BOOLEAN]
        /\ user'.elsewhere = user.elsewhere
    <3>1. (IF removals[j].st = "timer"
           THEN user.chosen \ (removals[j].uids \ (Others(j) \cup env.gone)) ELSE user.chosen)
            \in SUBSET Msgs
      BY DEF TypeOK
    <3> QED
      BY <1>14, <3>1, UsedTypes DEF Undo
  <2>3. /\ removals' \in [Removals -> RemovalRecords \cup {None}]
        /\ \A i \in Removals : removals'[i] # None => removals'[i] = removals[i]
        /\ \A i \in Removals : removals[i].st = "reloads" => removals'[i] = removals[i]
    BY <1>14 DEF Undo, TypeOK
  <2>4. \A l \in loads : l.then # 0 => removals'[l.then] = removals[l.then]
    BY <2>3 DEF TypeOK, Loads
  <2> QED
    BY <1>14, <2>1, <2>2, <2>3, <2>4 DEF Undo, TypeOK
<1>15. ASSUME NEW j \in Removals, RemovalTimer(j) PROVE TypeOK'
  <2>1. /\ removals' \in [Removals -> RemovalRecords \cup {None}]
        /\ \A i \in Removals : removals'[i] # None =>
             /\ removals[i] # None /\ removals'[i].alive = removals[i].alive
             /\ removals'[i].st = IF i = j THEN "sent" ELSE removals[i].st
        /\ \A l \in loads : l.then # 0 =>
             removals'[l.then] # None /\ removals'[l.then].st = "reloads"
    BY <1>15, AdvanceTypes DEF RemovalTimer
  <2> QED
    BY <1>15, <2>1 DEF RemovalTimer, TypeOK
<1>16. ASSUME NEW j \in Removals, RemovalServed(j) PROVE TypeOK'
  <2>1. server.in \ removals[j].uids \in SUBSET Msgs
    BY DEF TypeOK, Pages
  <2>2. server' \in Pages /\ server'.at = server.at + 1 /\ events' \in Nat
    BY <1>16, <2>1, TouchTypes DEF RemovalServed
  <2>3. env' \in Histories
    BY <1>16, UntoldTypes DEF RemovalServed, TypeOK, Histories, RemovalRecords
  <2>4. removals[j] \in RemovalRecords
    BY <1>16 DEF RemovalServed, TypeOK
  <2>5. /\ removals' \in [Removals -> RemovalRecords \cup {None}]
        /\ \A i \in Removals : removals'[i] # None =>
             /\ removals[i] # None /\ removals'[i].alive = removals[i].alive
             /\ removals'[i].st = IF i = j THEN "done" ELSE removals[i].st
        /\ \A l \in loads : l.then # 0 =>
             removals'[l.then] # None /\ removals'[l.then].st = "reloads"
    BY <1>16, AdvanceTypes DEF RemovalServed
  <2> QED
    BY <1>16, <2>2, <2>3, <2>5 DEF RemovalServed, TypeOK, Pages
<1>17. ASSUME NEW j \in Removals, RemovalAnswered(j) PROVE TypeOK'
  <2>1. /\ removals' \in [Removals -> RemovalRecords \cup {None}]
        /\ \A i \in Removals : removals'[i] # None =>
             /\ removals[i] # None /\ removals'[i].alive = removals[i].alive
             /\ removals'[i].st = IF i = j THEN "counts" ELSE removals[i].st
        /\ \A l \in loads : l.then # 0 =>
             removals'[l.then] # None /\ removals'[l.then].st = "reloads"
    BY <1>17, AdvanceTypes DEF RemovalAnswered
  <2>2. folders' \in [at : 0..server.at, fetch : {"asked", "served"}, read : 0..server.at]
        /\ cachedPage' \in Pages \cup {None}
    BY <1>17, AskedTypes, CachedTypes DEF RemovalAnswered
  <2> QED
    BY <1>17, <2>1, <2>2 DEF RemovalAnswered, TypeOK
<1>18. ASSUME NEW j \in Removals, RemovalFails(j) PROVE TypeOK'
  <2>1. Shows(j) \in Lists \cup {None} /\ (Shows(j) = None <=> list = None)
    BY <1>18, ShowsTypes DEF RemovalFails
  <2>2. /\ removals' \in [Removals -> RemovalRecords \cup {None}]
        /\ \A i \in Removals : removals'[i] # None => removals'[i] = removals[i]
        /\ \A i \in Removals : removals[i].st = "reloads" => removals'[i] = removals[i]
    BY <1>18 DEF RemovalFails, TypeOK
  <2>3. env' \in Histories
    BY <1>18 DEF RemovalFails, Fault, TypeOK, Histories
  <2>4. \A l \in loads : l.then # 0 => removals'[l.then] = removals[l.then]
    BY <2>2 DEF TypeOK, Loads
  <2> QED
    BY <1>18, <2>1, <2>2, <2>3, <2>4 DEF RemovalFails, TypeOK
<1>20. CASE Act
  <2> PICK moves \in BOOLEAN, uids \in (SUBSET Displayed) \ {{}} :
        /\ Used(IF moves THEN user.chosen \cup uids ELSE user.chosen)
        /\ act' = [moves |-> moves, uids |-> uids, st |-> "asked", alive |-> TRUE]
        /\ UNCHANGED <<inbox, server, events, live, folders, list, loads, cachedPage, removals, env>>
    BY <1>20 DEF Act
  <2>1. uids \subseteq Msgs /\ list # None
    BY DEF Displayed, TypeOK, Lists
  <2>2. act' \in Actions
    BY <2>1 DEF Actions
  <2>3. user' \in [steps : Nat, chosen : SUBSET Msgs, elsewhere : BOOLEAN]
        /\ user'.elsewhere = user.elsewhere
    <3>1. (IF moves THEN user.chosen \cup uids ELSE user.chosen) \in SUBSET Msgs
      BY <2>1 DEF TypeOK
    <3> QED
      BY <3>1, UsedTypes
  <2> QED
    BY <2>1, <2>2, <2>3 DEF TypeOK
<1>21. CASE ActServed
  <2>1. (IF act.moves THEN server.in \ act.uids ELSE server.in) \in SUBSET Msgs
    BY DEF TypeOK, Pages
  <2>2. server' \in Pages /\ server'.at = server.at + 1 /\ events' \in Nat
    BY <1>21, <2>1, TouchTypes DEF ActServed
  <2>3. env' \in Histories
    BY <1>21, UntoldTypes DEF ActServed, TypeOK, Actions, Histories
  <2>4. act' \in Actions /\ act'.alive = act.alive
    BY <1>21 DEF ActServed, TypeOK, Actions
  <2> QED
    BY <1>21, <2>2, <2>3, <2>4 DEF ActServed, TypeOK, Pages
<1>22. CASE ActAnswered
  <2>1. cachedPage' \in Pages \cup {None}
    BY <1>22, CachedTypes DEF ActAnswered, TypeOK
  <2> QED
    BY <1>22, <2>1, ReloadsTypes, AskedTypes DEF ActAnswered, TypeOK
<1>23. CASE ActFails
  BY <1>23, ReloadsTypes DEF ActFails, Fault, TypeOK, Histories
<1>24. CASE Leave
  <2>1. /\ removals' \in [Removals -> RemovalRecords \cup {None}]
        /\ \A i \in Removals : removals[i] # None =>
             /\ removals'[i] # None /\ ~removals'[i].alive /\ removals'[i].st = removals[i].st
        /\ \A i \in Removals : removals[i] = None => removals'[i] = None
    <3>1. ASSUME NEW i \in Removals, removals[i] # None
          PROVE  /\ removals'[i] \in RemovalRecords /\ removals'[i] # None
                 /\ ~removals'[i].alive /\ removals'[i].st = removals[i].st
      <4>1. removals[i] \in RemovalRecords /\ removals'[i] = [removals[i] EXCEPT !.alive = FALSE]
        BY <1>24, <3>1 DEF Leave, TypeOK
      <4> QED
        BY <4>1, NoneApart DEF RemovalRecords
    <3> QED
      BY <1>24, <3>1 DEF Leave
  <2>2. act' \in Actions \cup {None} /\ (act' # None => ~act'.alive)
    BY <1>24 DEF Leave, TypeOK, Actions
  <2>3. env' \in Histories /\ user' \in [steps : Nat, chosen : SUBSET Msgs, elsewhere : BOOLEAN]
    <3>1. PICK elsewhere \in BOOLEAN :
            user' = [user EXCEPT !.steps = @ + 1, !.elsewhere = elsewhere]
      BY <1>24, Zenon DEF Leave
    <3>2. user \in [steps : Nat, chosen : SUBSET Msgs, elsewhere : BOOLEAN]
      BY DEF TypeOK
    <3>4. user' = [steps |-> user.steps + 1, chosen |-> user.chosen, elsewhere |-> elsewhere]
      BY <3>1, <3>2
    <3>3. user' \in [steps : Nat, chosen : SUBSET Msgs, elsewhere : BOOLEAN]
      BY <3>2, <3>4
    <3> QED
      BY <1>24, <3>3 DEF Leave, TypeOK, Histories
  <2>4. ASSUME NEW l \in loads
        PROVE  /\ [l EXCEPT !.shown = FALSE] \in Loads /\ [l EXCEPT !.shown = FALSE].shown = FALSE
               /\ [l EXCEPT !.shown = FALSE].then = l.then
    <3>1. l \in Loads
      BY DEF TypeOK
    <3> QED
      BY <3>1 DEF Loads
  <2>5. ASSUME NEW l \in loads'
        PROVE  /\ l \in Loads /\ ~l.shown
               /\ \E l0 \in loads : l = [l0 EXCEPT !.shown = FALSE] /\ l.then = l0.then
    BY <1>24, <2>4 DEF Leave
  <2>6. ASSUME NEW l \in loads', l.then # 0
        PROVE  removals'[l.then] # None /\ removals'[l.then].st = "reloads"
    <3>1. l.then \in Removals /\ removals[l.then] # None /\ removals[l.then].st = "reloads"
      BY <2>5, <2>6 DEF TypeOK, Loads
    <3> QED
      BY <2>1, <3>1
  <2>7. ASSUME NEW l \in loads', NEW k \in loads', l.then = k.then, l.then # 0
        PROVE  l = k
    <3>1. PICK l0 \in loads : l = [l0 EXCEPT !.shown = FALSE] /\ l.then = l0.then
      BY <2>5
    <3>2. PICK k0 \in loads : k = [k0 EXCEPT !.shown = FALSE] /\ k.then = k0.then
      BY <2>5
    <3>3. l0 = k0
      BY <2>7, <3>1, <3>2 DEF TypeOK
    <3> QED
      BY <3>1, <3>2, <3>3
  <2>8. ASSUME NEW j \in Removals, removals'[j] # None
        PROVE  /\ ~removals'[j].alive
               /\ removals'[j].st = "counts" => folders.fetch # "none"
               /\ removals'[j].st = "reloads" => \E l \in loads' : l.then = j
    <3>1. removals[j] # None /\ ~removals'[j].alive /\ removals'[j].st = removals[j].st
      BY <2>1, <2>8
    <3>2. CASE removals[j].st = "reloads"
      <4>1. PICK l \in loads : l.then = j
        BY <3>1, <3>2 DEF TypeOK
      <4>2. [l EXCEPT !.shown = FALSE] \in loads'
        BY <1>24 DEF Leave
      <4> QED
        BY <2>4, <3>1, <3>2, <4>1, <4>2
    <3> QED
      BY <3>1, <3>2 DEF TypeOK
  <2>9. loads' \subseteq Loads /\ \A l \in loads' : ~l.shown
    BY <2>5
  <2> QED
    BY <1>24, <2>1, <2>2, <2>3, <2>6, <2>7, <2>8, <2>9 DEF Leave, TypeOK
<1>25. CASE Return
  <2>1. list' \in Lists
    BY <1>25 DEF Return, TypeOK, Lists, Pages
  <2>2. list' # None
    BY <2>1, NoneApart
  <2>3. Asks(TRUE, 0) \in Loads /\ Asks(TRUE, 0).then = 0
    BY AsksTypes
  <2>4. user' \in [steps : Nat, chosen : SUBSET Msgs, elsewhere : BOOLEAN] /\ ~user'.elsewhere
    <3>1. user \in [steps : Nat, chosen : SUBSET Msgs, elsewhere : BOOLEAN]
      BY DEF TypeOK
    <3>2. user' = [user EXCEPT !.steps = user.steps + 1, !.elsewhere = FALSE]
      BY <1>25 DEF Return
    <3>3. user' = [steps |-> user.steps + 1, chosen |-> user.chosen, elsewhere |-> FALSE]
      BY <3>1, <3>2
    <3> QED
      BY <3>1, <3>3
  <2>5. /\ loads' \subseteq Loads
        /\ \A l \in loads' : l.then # 0 => l \in loads
        /\ \A l, k \in loads' : l.then = k.then => l.then = 0 \/ l = k
        /\ loads \subseteq loads'
    BY <1>25, <2>3 DEF Return, TypeOK
  <2> QED
    BY <1>25, <2>1, <2>2, <2>4, <2>5 DEF Return, TypeOK
<1>26. CASE UNCHANGED vars
  BY <1>26 DEF vars, TypeOK
<1> QED
  BY <1>1, <1>2, <1>3, <1>5, <1>6, <1>7, <1>8, <1>9, <1>10, <1>11, <1>12, <1>13, <1>14, <1>15,
     <1>16, <1>17, <1>18, <1>20, <1>21, <1>22, <1>23, <1>24, <1>25, <1>26
  DEF Next, Tab, Faults, Users

(* No step takes out, or prepares to take out, what the user did not choose. *)
LEMMA StepChosen == IInv /\ [Next]_vars => Chosen'
<1> SUFFICES ASSUME TypeOK, Chosen, [Next]_vars PROVE Chosen'
  BY DEF IInv
<1>1. CASE UNCHANGED <<removals, act, user>> /\ env'.gone = env.gone
  BY <1>1 DEF Chosen
<1>2. CASE Change \/ EventLost \/ FoldersServed \/ Interval \/ OnChange \/ LoadServed

  BY <1>2, <1>1 DEF Change, EventLost, FoldersServed, Interval, OnChange, LoadServed,
       Fault, TypeOK, Histories
<1>3. ASSUME NEW at, FoldersEnd(at), UNCHANGED <<act, user>>, env'.gone = env.gone
      PROVE  Chosen'
  <2>1. ASSUME NEW j \in Removals, removals'[j] # None
        PROVE  removals[j] # None /\ removals'[j].uids = removals[j].uids
    BY <1>3, <2>1 DEF FoldersEnd, Counting, TypeOK, RemovalRecords
  <2> QED
    BY <1>3, <2>1 DEF Chosen
<1>4. CASE FoldersAnswered \/ FoldersFail
  BY <1>4, <1>3 DEF FoldersAnswered, FoldersFail, Fault, TypeOK, Histories
<1>5. CASE Refresh \/ Return
  BY <1>5 DEF Refresh, Return, Used, Chosen, TypeOK
<1>6. CASE Remove
  <2> PICK uids \in (SUBSET Displayed) \ {{}}, j \in Removals :
        /\ Used(user.chosen \cup uids)
        /\ removals' = [removals EXCEPT ![j] = [uids |-> uids, alive |-> TRUE, st |-> "timer"]]
        /\ UNCHANGED <<act, env>>
    BY <1>6 DEF Remove
  <2>1. user'.chosen = user.chosen \cup uids
    BY DEF Used, TypeOK
  <2>2. ASSUME NEW i \in Removals, removals'[i] # None
        PROVE  removals'[i].uids \subseteq user'.chosen
    BY <2>1, <2>2 DEF TypeOK, Chosen
  <2> QED
    BY <2>1, <2>2 DEF Chosen
<1>7. ASSUME NEW j \in Removals, Undo(j) PROVE Chosen'
  (* What is not chosen any more is of no other removal, nor of the action. *)
  <2>1. CASE removals[j].st = "timer"
    <3>1. /\ user'.chosen = user.chosen \ (removals[j].uids \ (Others(j) \cup env.gone))
          /\ removals' = [removals EXCEPT ![j] = None] /\ UNCHANGED <<act, env>>
      BY <1>7, <2>1 DEF Undo, Used, TypeOK
    <3>2. env'.gone \subseteq user'.chosen
      BY <3>1 DEF Chosen
    <3>3. ASSUME NEW i \in Removals, removals'[i] # None
          PROVE  removals'[i].uids \subseteq user'.chosen
      <4>1. i # j /\ removals'[i] = removals[i]
        BY <3>1, <3>3 DEF TypeOK
      <4>2. removals[i].uids \subseteq Others(j)
        BY <3>3, <4>1 DEF Others
      <4> QED
        BY <3>1, <3>3, <4>1, <4>2 DEF Chosen
    <3>4. act' # None /\ act'.moves => act'.uids \subseteq user'.chosen
      BY <3>1 DEF Others, Chosen
    <3> QED
      BY <3>2, <3>3, <3>4 DEF Chosen
  <2>2. CASE removals[j].st # "timer"
    BY <1>7, <2>2 DEF Undo, Used, Chosen, TypeOK
  <2> QED
    BY <2>1, <2>2
<1>8. ASSUME NEW j \in Removals, RemovalTimer(j) \/ RemovalAnswered(j) \/ RemovalServed(j)
      PROVE  Chosen'
  <2>1. ASSUME NEW i \in Removals, removals'[i] # None
        PROVE  removals[i] # None /\ removals'[i].uids = removals[i].uids
    <3>1. removals[j] \in RemovalRecords /\ removals[j] # None
      BY <1>8 DEF RemovalTimer, RemovalAnswered, RemovalServed, TypeOK
    <3>2. \E st \in {"sent", "done", "counts"} : removals' = [removals EXCEPT ![j].st = st]
      BY <1>8 DEF RemovalTimer, RemovalAnswered, RemovalServed
    <3>3. removals'[j].uids = removals[j].uids /\ (i # j => removals'[i] = removals[i])
      BY <3>1, <3>2 DEF TypeOK, RemovalRecords
    <3> QED
      BY <2>1, <3>1, <3>3
  <2>2. UNCHANGED <<act, user>> /\ env'.gone \subseteq env.gone \cup removals[j].uids
    BY <1>8 DEF RemovalTimer, RemovalAnswered, RemovalServed, TypeOK, Histories
  <2>3. removals[j].uids \subseteq user.chosen
    BY <1>8 DEF RemovalTimer, RemovalAnswered, RemovalServed, Chosen
  <2> QED
    BY <2>1, <2>2, <2>3 DEF Chosen
<1>9. ASSUME UNCHANGED <<act, user>>, env'.gone = env.gone,
             \A i \in Removals : removals'[i] # None => removals'[i] = removals[i]
      PROVE  Chosen'
  BY <1>9 DEF Chosen
<1>15. ASSUME NEW j \in Removals, RemovalFails(j) PROVE Chosen'
  BY <1>15, <1>9 DEF RemovalFails, Fault, TypeOK, Histories
<1>16. CASE LoadAnswered \/ LoadFails
  <2>1. UNCHANGED <<act, user>> /\ env'.gone = env.gone
    BY <1>16 DEF LoadAnswered, LoadFails, Fault, TypeOK, Histories
  <2>2. ASSUME NEW i \in Removals, removals'[i] # None PROVE removals'[i] = removals[i]
    BY <1>16, <2>2 DEF LoadAnswered, LoadFails, Ends
  <2> QED
    BY <1>9, <2>1, <2>2
<1>10. CASE Act
  <2> PICK moves \in BOOLEAN, uids \in (SUBSET Displayed) \ {{}} :
        /\ Used(IF moves THEN user.chosen \cup uids ELSE user.chosen)
        /\ act' = [moves |-> moves, uids |-> uids, st |-> "asked", alive |-> TRUE]
        /\ UNCHANGED <<removals, env>>
    BY <1>10 DEF Act
  <2> QED
    BY DEF Used, Chosen, TypeOK
<1>11. CASE ActServed
  BY <1>11 DEF ActServed, TypeOK, Actions, Chosen, Histories
<1>12. CASE ActAnswered \/ ActFails
  BY <1>12 DEF ActAnswered, ActFails, Fault, TypeOK, Chosen, Histories
<1>13. CASE Leave
  <2>1. ASSUME NEW i \in Removals, removals'[i] # None
        PROVE  removals[i] # None /\ removals'[i].uids = removals[i].uids
    BY <1>13, <2>1 DEF Leave, TypeOK, RemovalRecords
  <2>3. user'.chosen = user.chosen /\ env'.gone = env.gone
    BY <1>13 DEF Leave, TypeOK, Histories
  <2>2. act' # None => act # None /\ act'.moves = act.moves /\ act'.uids = act.uids
    BY <1>13 DEF Leave, TypeOK, Actions
  <2> QED
    BY <2>1, <2>2, <2>3 DEF Chosen
<1>14. CASE UNCHANGED vars
  BY <1>14 DEF vars, Chosen
<1> QED
  BY <1>2, <1>4, <1>5, <1>6, <1>7, <1>8, <1>10, <1>11, <1>12, <1>13, <1>14, <1>15, <1>16
  DEF Next, Tab, Faults, Users

(* The types of MailView, and that what waits for the counters has them     *)
(* coming, whatever is removed, undone and reloaded, in any order.          *)
THEOREM TypeCorrect == Spec => []TypeOK
<1>1. Init => TypeOK
  BY InitTypes
<1>2. TypeOK /\ [Next]_vars => TypeOK'
  BY StepTypes
<1> QED
  BY <1>1, <1>2, PTL DEF Spec

(* removeUids, its timer and run take out of the folder only what the user  *)
(* chose and did not take back in time, though the list may be replaced or  *)
(* left, and other removals overlap.                                        *)
THEOREM OnlyChosenRemoved == Spec => []RemovesOnlyChosen
<1>1. Init => IInv
  BY InitTypes, InitChosen DEF IInv
<1>2. IInv /\ [Next]_vars => IInv'
  BY StepTypes, StepChosen DEF IInv
<1>3. IInv => RemovesOnlyChosen
  BY DEF IInv, Chosen, RemovesOnlyChosen
<1> QED
  BY <1>1, <1>2, <1>3, PTL DEF Spec

----------------------------------------------------------------------------
(***************************************************************************)
(* What is ticked in the list: MessageSelection.  It has variables of its  *)
(* own, of which the theorems above say nothing.                           *)
(*                                                                         *)
(* That the rows ticked are displayed or in `unseen' is inductive with the *)
(* types.  What is hidden waits for a request or for a load, which is said *)
(* row by row (Owed).                                                      *)
(***************************************************************************)
Owed ==
  \A u \in hidden : \/ \E a \in asks : a.kind = "trash" /\ u \in a.uids
                    \/ \E l \in reads : u \in l.shows

\* A star that may be put back is on a row that is loaded.
StarsLoaded == (\E a \in asks : a.kind = "star" /\ a.held) => data # None

TicksInv == T!TypeOK /\ StarsLoaded /\ T!SelectionShown /\ T!AnchorTicked /\ Owed

\* The instance has its own copy of the operators of FiniteSets.
LEMMA SameFinite == \A S : T!IsFiniteSet(S) <=> IsFiniteSet(S)
BY DEF T!IsFiniteSet, IsFiniteSet

LEMMA SameCardinality == \A S : T!Cardinality(S) = Cardinality(S)
BY DEF T!Cardinality, Cardinality

LEMMA RowsAre ==
  ASSUME NEW f
  PROVE  f \in T!RowsOf(T!Known) <=> DOMAIN f \subseteq T!Known /\ f \in [DOMAIN f -> T!Flags]
BY DEF T!RowsOf

LEMMA NumbersAre ==
  ASSUME T!ValuesAssumption
  PROVE  /\ IsFiniteSet(T!Known) /\ Cardinality(T!Known) \in Nat
         /\ T!Pages = 1..Cardinality(T!Known) /\ 1 \in T!Pages
<1>1. IsFiniteSet(T!Known) /\ T!Pages = 1..Cardinality(T!Known)
  BY SameFinite, SameCardinality DEF T!ValuesAssumption, T!Pages
<1>2. Cardinality(T!Known) \in Nat
  BY <1>1, FS_CardinalityType
<1>3. Cardinality({New}) = 1 /\ {New} \in SUBSET T!Known
  BY FS_Singleton DEF T!Known
<1>4. Cardinality({New}) <= Cardinality(T!Known)
  BY <1>1, <1>3, FS_Subset
<1> QED
  BY <1>1, <1>2, <1>3, <1>4

\* What the server answers: rows of the folder, and their number.
LEMMA AnswersAre ==
  ASSUME T!ValuesAssumption, T!TypeOK, NEW p
  PROVE  [rows |-> T!PageRows(p), total |-> T!Cardinality(DOMAIN store)] \in T!Answer
<1>1. DOMAIN store \subseteq T!Known /\ store \in [DOMAIN store -> T!Flags]
  BY RowsAre DEF T!TypeOK
<1>2. /\ Cardinality(DOMAIN store) \in Nat
      /\ Cardinality(DOMAIN store) <= Cardinality(T!Known)
  BY <1>1, NumbersAre, FS_Subset, FS_CardinalityType
<1>3. T!PageRows(p) \in [DOMAIN T!PageRows(p) -> T!Flags] /\ DOMAIN T!PageRows(p) \subseteq T!Known
  BY <1>1 DEF T!PageRows
<1>4. T!PageRows(p) \in T!RowsOf(T!Known)
  BY <1>3, RowsAre
<1>5. T!Cardinality(DOMAIN store) \in 0..T!Cardinality(T!Known)
  BY <1>2, NumbersAre, SameCardinality
<1> QED
  BY <1>4, <1>5 DEF T!Answer

LEMMA ItemsAre ==
  ASSUME T!TypeOK
  PROVE  T!Items \subseteq T!Known /\ T!Displayed \subseteq T!Items
<1>1. data # None => DOMAIN data.rows \subseteq T!Known
  <2>1. data # None => data.rows \in T!RowsOf(T!Known)
    BY DEF T!TypeOK, T!Loaded
  <2> QED
    BY <2>1, RowsAre
<1> QED
  BY <1>1 DEF T!Items, T!Displayed

\* A load that is asked, a reload, a request that starts, and rows that are ticked.
LEMMA AskTypes ==
  ASSUME T!TypeOK, NEW p \in T!Pages, NEW shows \in SUBSET T!Known, T!Ask(p, shows)
  PROVE  reads' \subseteq T!Loads /\ loading' \in BOOLEAN /\ failed' \in BOOLEAN
<1> DEFINE quiet == data # None /\ data.page = p
           load == [page |-> p, quiet |-> quiet, got |-> None, old |-> FALSE, shows |-> shows]
<1>1. reads' = reads \cup {load} /\ loading' = (loading \/ ~quiet) /\ failed' = (failed /\ quiet)
  BY DEF T!Ask
<1>2. quiet \in BOOLEAN /\ reads \subseteq T!Loads
  BY DEF T!TypeOK
<1> HIDE DEF quiet
<1>3. load \in T!Loads
  BY <1>2 DEF T!Loads
<1>4. reads' \subseteq T!Loads
  BY <1>1, <1>2, <1>3
<1> QED
  BY <1>1, <1>4 DEF T!TypeOK

LEMMA ReloadTypes ==
  ASSUME T!TypeOK, selected' \subseteq T!Known, NEW shows \in SUBSET T!Known, T!Reload(shows)
  PROVE  /\ reads' \subseteq T!Loads /\ loading' \in BOOLEAN /\ failed' \in BOOLEAN
         /\ unseen' \subseteq T!Known
<1>1. page \in T!Pages /\ unseen \subseteq T!Known
  BY DEF T!TypeOK
<1> QED
  BY <1>1, AskTypes DEF T!Reload

LEMMA StartsTypes ==
  ASSUME T!TypeOK, NEW kind \in T!Kinds, NEW uids \in SUBSET T!Known, NEW on \in BOOLEAN,
         T!Starts(kind, uids, on)
  PROVE  asks' \subseteq T!Requests
<1> DEFINE ask == [n |-> spent.steps, kind |-> kind, uids |-> uids, on |-> on, held |-> kind = "star",
                   st |-> IF kind = "trash" THEN "timer" ELSE "asked"]
<1>1. asks' = asks \cup {ask} /\ asks \subseteq T!Requests
  BY DEF T!Starts, T!TypeOK
<1>2. spent.steps \in Nat
  BY DEF T!TypeOK
<1>3. (kind = "star") \in BOOLEAN /\ (IF kind = "trash" THEN "timer" ELSE "asked") \in {"timer", "asked", "done"}
  OBVIOUS
<1>4. ask \in T!Requests
  BY <1>2, <1>3 DEF T!Requests
<1> QED
  BY <1>1, <1>4

LEMMA TicksTypes ==
  ASSUME NEW uids \in SUBSET T!Known, NEW from \in T!Known \cup {None}, T!Ticks(uids, from)
  PROVE  selected' \subseteq T!Known /\ anchor' \in T!Known \cup {None} /\ T!AnchorTicked'
BY DEF T!Ticks, T!AnchorTicked

LEMMA PicksTypes ==
  ASSUME T!TypeOK, NEW uids \in SUBSET T!Known, NEW from \in T!Known \cup {None}, T!Picks(uids, from)
  PROVE  /\ selected' \subseteq T!Known /\ anchor' \in T!Known \cup {None} /\ T!AnchorTicked'
         /\ unseen' \subseteq T!Known
BY TicksTypes DEF T!TypeOK, T!Picks

\* Rows are ticked: those displayed and, remembered, the others.
LEMMA PicksShown ==
  ASSUME T!SelectionShown, NEW uids, NEW from, T!Picks(uids, from),
         UNCHANGED <<data, hidden, loading, failed>>
  PROVE  T!SelectionShown'
<1>1. T!Displayed' = T!Displayed
  BY DEF T!Displayed, T!Items
<1>2. selected' = uids /\ unseen' = (unseen \cup (uids \ selected)) \ T!Displayed
  BY DEF T!Picks, T!Ticks
<1>3. selected' \subseteq T!Displayed \cup unseen'
  BY <1>2 DEF T!SelectionShown
<1> QED
  BY <1>1, <1>3 DEF T!SelectionShown

\* Where more is displayed, or what is ticked is remembered, the property is kept.
LEMMA MoreShown ==
  ASSUME T!SelectionShown, selected' \subseteq selected, T!Displayed \subseteq T!Displayed',
         unseen \subseteq unseen'
  PROVE  T!SelectionShown'
BY DEF T!SelectionShown

LEMMA ReloadShown ==
  ASSUME T!SelectionShown, selected' \subseteq selected, NEW shows, T!Reload(shows), data # None,
         data' # None, DOMAIN data'.rows = DOMAIN data.rows, hidden' \subseteq hidden
  PROVE  T!SelectionShown'
<1>1. CASE data.page = page
  <2>1. loading' = (loading \/ FALSE) /\ failed' = (failed /\ TRUE) /\ unseen' = unseen
    BY <1>1 DEF T!Reload, T!Ask
  <2>2. T!Displayed \subseteq T!Displayed'
    BY <2>1 DEF T!Displayed, T!Items
  <2> QED
    BY <2>1, <2>2, MoreShown
<1>2. CASE data.page # page
  BY <1>2 DEF T!Reload, T!SelectionShown
<1> QED
  BY <1>1, <1>2

LEMMA NothingShown ==
  ASSUME T!SelectionShown, selected' \subseteq selected, data = None, unseen \subseteq unseen'
  PROVE  T!SelectionShown'
BY DEF T!SelectionShown, T!Displayed, T!Items
LEMMA TicksInit == T!ValuesAssumption /\ T!Init => TicksInv
<1> SUFFICES ASSUME T!ValuesAssumption, T!Init PROVE TicksInv
  OBVIOUS
<1>1. store \in T!RowsOf(T!Known)
  <2>1. store \in [Uids -> T!Flags] /\ DOMAIN store = Uids
    BY DEF T!Init, T!Flags
  <2> QED
    BY <2>1, RowsAre DEF T!Known
<1>2. reads \subseteq T!Loads
  <2> DEFINE load == [page |-> 1, quiet |-> FALSE, got |-> None, old |-> FALSE, shows |-> {}]
  <2>1. load \in T!Loads
    BY NumbersAre DEF T!Loads
  <2> QED
    BY <2>1 DEF T!Init
<1>3. spent \in [steps : Nat, faults : Nat]
  BY DEF T!Init
<1>4. T!TypeOK
  BY <1>1, <1>2, <1>3, NumbersAre DEF T!Init, T!TypeOK
<1> QED
  BY <1>4 DEF TicksInv, StarsLoaded, T!Init, T!SelectionShown, T!AnchorTicked, Owed

\* What a step of the user costs.
LEMMA SpentTypes ==
  ASSUME T!TypeOK, T!Spends \/ T!Fault
  PROVE  spent' \in [steps : Nat, faults : Nat]
BY DEF T!TypeOK, T!Spends, T!Fault

\* The rows after the flags of some have changed.
LEMMA FlagsTypes ==
  ASSUME NEW rows \in T!RowsOf(T!Known), NEW uids, NEW on \in BOOLEAN
  PROVE  /\ [u \in DOMAIN rows |-> IF u \in uids THEN [rows[u] EXCEPT !.seen = on] ELSE rows[u]] \in T!RowsOf(T!Known)
         /\ [u \in DOMAIN rows |-> IF u \in uids THEN [rows[u] EXCEPT !.flagged = on] ELSE rows[u]] \in T!RowsOf(T!Known)
         /\ [u \in DOMAIN rows |-> [rows[u] EXCEPT !.seen = TRUE]] \in T!RowsOf(T!Known)
<1>1. DOMAIN rows \subseteq T!Known /\ \A u \in DOMAIN rows : rows[u] \in T!Flags
  BY RowsAre
<1>2. \A f \in T!Flags : [f EXCEPT !.seen = on] \in T!Flags /\ [f EXCEPT !.flagged = on] \in T!Flags
                         /\ [f EXCEPT !.seen = TRUE] \in T!Flags
  BY DEF T!Flags
<1> DEFINE seen == [u \in DOMAIN rows |-> IF u \in uids THEN [rows[u] EXCEPT !.seen = on] ELSE rows[u]]
           flagged == [u \in DOMAIN rows |-> IF u \in uids THEN [rows[u] EXCEPT !.flagged = on] ELSE rows[u]]
           all == [u \in DOMAIN rows |-> [rows[u] EXCEPT !.seen = TRUE]]
<1>3. /\ DOMAIN seen = DOMAIN rows /\ seen \in [DOMAIN rows -> T!Flags]
      /\ DOMAIN flagged = DOMAIN rows /\ flagged \in [DOMAIN rows -> T!Flags]
      /\ DOMAIN all = DOMAIN rows /\ all \in [DOMAIN rows -> T!Flags]
  BY <1>1, <1>2
<1> HIDE DEF seen, flagged, all
<1>4. seen \in T!RowsOf(T!Known) /\ flagged \in T!RowsOf(T!Known) /\ all \in T!RowsOf(T!Known)
  BY <1>1, <1>3, RowsAre
<1> QED
  BY <1>4 DEF seen, flagged, all

\* The page that is loaded, when flags of its rows change.
LEMMA LoadedTypes ==
  ASSUME T!ValuesAssumption, T!TypeOK, data # None, NEW rows \in T!RowsOf(T!Known),
         data' = [data EXCEPT !.rows = rows]
  PROVE  data' \in T!Loaded /\ data' # None /\ data'.rows = rows
BY DEF T!ValuesAssumption, T!TypeOK, T!Loaded

LEMMA FlipTypes ==
  ASSUME T!ValuesAssumption, T!TypeOK, data # None, NEW u, T!Flip(u)
  PROVE  data' \in T!Loaded /\ data' # None /\ DOMAIN data'.rows = DOMAIN data.rows
<1>1. data \in T!Loaded /\ data.rows \in T!RowsOf(T!Known)
  BY DEF T!TypeOK, T!Loaded
<1> DEFINE rows == [data.rows EXCEPT ![u].flagged = ~@]
<1>2. rows \in T!RowsOf(T!Known) /\ DOMAIN rows = DOMAIN data.rows
  <2>1. DOMAIN data.rows \subseteq T!Known /\ data.rows \in [DOMAIN data.rows -> T!Flags]
    BY <1>1, RowsAre
  <2>2. \A f \in T!Flags : [f EXCEPT !.flagged = ~@] \in T!Flags
    BY DEF T!Flags
  <2>3. DOMAIN rows = DOMAIN data.rows /\ rows \in [DOMAIN data.rows -> T!Flags]
    BY <2>1, <2>2
  <2> QED
    BY <2>1, <2>3, RowsAre
<1>3. data' = [data EXCEPT !.rows = rows]
  BY <1>1 DEF T!Flip, T!Loaded
<1> HIDE DEF rows
<1> QED
  BY <1>2, <1>3, LoadedTypes

\* The loads.
LEMMA LoadsTypes ==
  ASSUME T!ValuesAssumption, T!TypeOK, T!ReadServed \/ T!ReadAnswered \/ T!ReadFails
  PROVE  T!TypeOK'
<1>1. CASE T!ReadServed
  <2> PICK l \in reads :
        /\ l.got = None
        /\ reads' = (reads \ {l}) \cup
             {[l EXCEPT !.got = [rows |-> T!PageRows(l.page), total |-> T!Cardinality(DOMAIN store)]]}
    BY <1>1 DEF T!ReadServed
  <2> DEFINE got == [rows |-> T!PageRows(l.page), total |-> T!Cardinality(DOMAIN store)]
  <2>1. got \in T!Answer
    BY AnswersAre
  <2>2. l \in T!Loads
    BY DEF T!TypeOK
  <2> HIDE DEF got
  <2>3. [l EXCEPT !.got = got] \in T!Loads
    BY <2>1, <2>2 DEF T!Loads
  <2>4. reads' \subseteq T!Loads
    BY <2>3 DEF got, T!TypeOK
  <2> QED
    BY <1>1, <2>4 DEF T!ReadServed, T!TypeOK, T!pickPart
<1>2. CASE T!ReadAnswered
  <2> PICK l \in reads :
        /\ l.got # None /\ reads' = reads \ {l}
        /\ data' = [page |-> l.page, rows |-> l.got.rows, total |-> l.got.total]
        /\ T!Ticks(T!Synced(l.got.rows), anchor) /\ hidden' = hidden \ l.shows
        /\ stale' = (l.old \/ \E a \in asks : a.kind = "star" /\ a.st = "asked")
    BY <1>2 DEF T!ReadAnswered
  <2>1. l \in T!Loads /\ l.got \in T!Answer /\ l.page \in T!Pages /\ l.old \in BOOLEAN
    BY DEF T!TypeOK, T!Loads
  <2>2. data' \in T!Loaded
    BY <2>1 DEF T!Loaded, T!Answer
  <2>3. T!Synced(l.got.rows) \in SUBSET T!Known /\ anchor \in T!Known \cup {None}
    BY DEF T!Synced, T!TypeOK
  <2>4. selected' \subseteq T!Known /\ anchor' \in T!Known \cup {None}
    BY <2>3, TicksTypes
  <2>5. asks' \subseteq T!Requests
    <3>1. \A a \in T!Requests : [a EXCEPT !.held = FALSE] \in T!Requests
      BY DEF T!Requests
    <3> QED
      BY <1>2, <3>1 DEF T!ReadAnswered, T!TypeOK
  <2>6. stale' \in BOOLEAN
    BY <2>1
  <2> QED
    BY <1>2, <2>2, <2>4, <2>5, <2>6 DEF T!ReadAnswered, T!TypeOK
<1>3. CASE T!ReadFails
  <2> PICK l \in reads :
        /\ reads' = reads \ {l} /\ hidden' = hidden \ l.shows
        /\ failed' = (failed \/ ~l.quiet)
        /\ unseen' = IF l.quiet THEN unseen ELSE unseen \cup selected
    BY <1>3 DEF T!ReadFails
  <2>1. spent' \in [steps : Nat, faults : Nat]
    BY <1>3, SpentTypes DEF T!ReadFails
  <2>2. failed' \in BOOLEAN
    BY DEF T!TypeOK
  <2> QED
    BY <1>3, <2>1, <2>2 DEF T!ReadFails, T!TypeOK
<1> QED
  BY <1>1, <1>2, <1>3

\* What the user does to what is ticked.
LEMMA PicksStepTypes ==
  ASSUME T!TypeOK, T!GoTo \/ T!Refresh \/ T!ToggleAll \/ T!SelectionMenu \/ T!Select \/ T!FocusRow \/ T!KeySelect
  PROVE  T!TypeOK'
<1>0. anchor \in T!Known \cup {None} /\ page \in T!Pages /\ selected \subseteq T!Known /\ focused \in T!Known \cup {None}
  BY DEF T!TypeOK
<1>1. CASE T!GoTo
  <2> PICK p \in T!OtherPages : page' = p /\ T!Ticks({}, None) /\ T!Ask(p, {})
    BY <1>1 DEF T!GoTo
  <2>1. p \in T!Pages
    BY DEF T!OtherPages
  <2>2. spent' \in [steps : Nat, faults : Nat]
    BY <1>1, SpentTypes DEF T!GoTo, T!Step
  <2>3. reads' \subseteq T!Loads /\ loading' \in BOOLEAN /\ failed' \in BOOLEAN
    BY <2>1, AskTypes
  <2>4. selected' = {} /\ anchor' = None
    BY DEF T!Ticks
  <2> QED
    BY <1>1, <2>1, <2>2, <2>3, <2>4 DEF T!GoTo, T!TypeOK
<1>2. CASE T!Refresh
  <2>1. spent' \in [steps : Nat, faults : Nat]
    BY <1>2, SpentTypes DEF T!Refresh
  <2>2. /\ reads' \subseteq T!Loads /\ loading' \in BOOLEAN /\ failed' \in BOOLEAN
        /\ unseen' \subseteq T!Known
    BY <1>0, <1>2, ReloadTypes DEF T!Refresh
  <2> QED
    BY <1>2, <2>1, <2>2 DEF T!Refresh, T!TypeOK
<1>3. ASSUME NEW uids \in SUBSET T!Known, NEW from \in T!Known \cup {None}, T!Step, T!Picks(uids, from),
             UNCHANGED <<store, folder, page, data, loading, failed, reads, stale, focused, hidden, box, asks>>
      PROVE  T!TypeOK'
  <2>1. spent' \in [steps : Nat, faults : Nat]
    BY <1>3, SpentTypes DEF T!Step
  <2>2. selected' \subseteq T!Known /\ anchor' \in T!Known \cup {None} /\ unseen' \subseteq T!Known
    BY <1>3, PicksTypes
  <2> QED
    BY <1>3, <2>1, <2>2 DEF T!TypeOK
<1>4. CASE T!ToggleAll
  <2>1. (IF T!Cardinality(selected) = T!Cardinality(T!Items) THEN {} ELSE T!Items) \in SUBSET T!Known
    BY ItemsAre
  <2> QED
    BY <1>0, <1>3, <1>4, <2>1 DEF T!ToggleAll, T!listPart
<1>5. CASE T!SelectionMenu
  <2> PICK uids \in {T!Items, {}, {u \in T!Items : ~data.rows[u].seen},
                     {u \in T!Items : data.rows[u].flagged}, T!Items \ selected} : T!Picks(uids, anchor)
    BY <1>5 DEF T!SelectionMenu
  <2>1. uids \in SUBSET T!Known
    BY ItemsAre
  <2> QED
    BY <1>0, <1>3, <1>5, <2>1 DEF T!SelectionMenu, T!listPart
<1>6. CASE T!Select
  <2> PICK c \in T!Clicks : LET uids == IF c.range THEN T!RangeUids(c.row) ELSE {}
                            IN  T!Picks(IF uids = {} THEN T!Toggled(c.row) ELSE selected \cup uids, c.row)
    BY <1>6 DEF T!Select
  <2> DEFINE uids == IF c.range THEN T!RangeUids(c.row) ELSE {}
             ticked == IF uids = {} THEN T!Toggled(c.row) ELSE selected \cup uids
  <2>1. c.row \in T!Known
    BY ItemsAre DEF T!Clicks
  <2>2. T!RangeUids(c.row) \in SUBSET T!Known
    BY ItemsAre DEF T!RangeUids
  <2>3. T!Toggled(c.row) \in SUBSET T!Known
    BY <1>0, <2>1 DEF T!Toggled
  <2>4. ticked \in SUBSET T!Known
    BY <1>0, <2>2, <2>3
  <2>5. T!Picks(ticked, c.row)
    OBVIOUS
  <2> HIDE DEF ticked
  <2> QED
    BY <1>3, <1>6, <2>1, <2>4, <2>5 DEF T!Select, T!listPart
<1>7. CASE T!FocusRow
  <2>1. focused' \in T!Known
    BY <1>7, ItemsAre DEF T!FocusRow
  <2>2. spent' \in [steps : Nat, faults : Nat]
    BY <1>7, SpentTypes DEF T!FocusRow, T!Step
  <2> QED
    BY <1>7, <2>1, <2>2 DEF T!FocusRow, T!listPart, T!pickPart, T!TypeOK
<1>8. CASE T!KeySelect
  <2>1. focused \in T!Known /\ T!Toggled(focused) \in SUBSET T!Known
    BY <1>0, <1>8 DEF T!KeySelect, T!Toggled
  <2> QED
    BY <1>3, <1>8, <2>1 DEF T!KeySelect, T!Key, T!listPart
<1> QED
  BY <1>1, <1>2, <1>4, <1>5, <1>6, <1>7, <1>8

\* The requests that the user makes.
LEMMA RequestsTypes ==
  ASSUME T!TypeOK,
         \/ T!MoveSelected \/ T!CopyOrJunkSelected \/ T!KeyArchive \/ T!DropOnFolder \/ T!MarkAllAsRead
         \/ T!ImportFiles \/ T!EmptyFolder \/ T!Remove \/ T!ConfirmPermanentDelete \/ T!Cancel \/ T!Undo
  PROVE  T!TypeOK'
<1>0. /\ anchor \in T!Known \cup {None} /\ selected \subseteq T!Known /\ box \subseteq T!Known
      /\ T!Targets \in SUBSET T!Known /\ New \in T!Known
      /\ {"move", "copy", "drop", "trash", "delete", "readall", "empty", "import"} \subseteq T!Kinds
  BY DEF T!TypeOK, T!Targets, T!Known, T!Kinds, T!Runs, T!Leaving
<1>1. ASSUME T!Step, asks' \subseteq T!Requests,
             UNCHANGED <<store, folder, page, data, loading, failed, reads, stale, selected, anchor, unseen, focused, hidden, box>>
      PROVE  T!TypeOK'
  <2>1. spent' \in [steps : Nat, faults : Nat]
    BY <1>1, SpentTypes DEF T!Step
  <2> QED
    BY <1>1, <2>1 DEF T!TypeOK
<1>2. CASE T!MoveSelected
  <2>1. asks' \subseteq T!Requests
    BY <1>0, <1>2, StartsTypes DEF T!MoveSelected
  <2> QED
    BY <1>1, <1>2, <2>1 DEF T!MoveSelected, T!WithSelection, T!listPart, T!pickPart
<1>3. CASE T!CopyOrJunkSelected
  <2>1. asks' \subseteq T!Requests
    BY <1>0, <1>3, StartsTypes DEF T!CopyOrJunkSelected
  <2> QED
    BY <1>1, <1>3, <2>1 DEF T!CopyOrJunkSelected, T!WithSelection, T!listPart, T!pickPart
<1>4. CASE T!KeyArchive
  <2>1. asks' \subseteq T!Requests
    BY <1>0, <1>4, StartsTypes DEF T!KeyArchive
  <2>2. selected' \subseteq T!Known /\ anchor' \in T!Known \cup {None} /\ unseen' \subseteq T!Known
    BY <1>0, <1>4, PicksTypes DEF T!KeyArchive
  <2>3. spent' \in [steps : Nat, faults : Nat]
    BY <1>4, SpentTypes DEF T!KeyArchive, T!Key, T!Step
  <2> QED
    BY <1>4, <2>1, <2>2, <2>3 DEF T!KeyArchive, T!listPart, T!TypeOK
<1>5. CASE T!DropOnFolder
  <2> PICK u \in T!Displayed : T!Starts("drop", T!Dragged(u), FALSE)
    BY <1>5 DEF T!DropOnFolder
  <2>1. T!Dragged(u) \in SUBSET T!Known
    BY <1>0, ItemsAre DEF T!Dragged
  <2>2. asks' \subseteq T!Requests
    BY <1>0, <2>1, StartsTypes
  <2> QED
    BY <1>1, <1>5, <2>2 DEF T!DropOnFolder, T!listPart, T!pickPart
<1>6. CASE T!MarkAllAsRead
  <2>1. asks' \subseteq T!Requests
    BY <1>0, <1>6, StartsTypes DEF T!MarkAllAsRead
  <2> QED
    BY <1>1, <1>6, <2>1 DEF T!MarkAllAsRead, T!WithoutSelection, T!listPart, T!pickPart
<1>7. CASE T!ImportFiles
  <2>1. asks' \subseteq T!Requests
    BY <1>0, <1>7, StartsTypes DEF T!ImportFiles
  <2> QED
    BY <1>1, <1>7, <2>1 DEF T!ImportFiles, T!WithoutSelection, T!listPart, T!pickPart
<1>8. CASE T!EmptyFolder
  <2>1. asks' \subseteq T!Requests
    BY <1>0, <1>8, StartsTypes DEF T!EmptyFolder
  <2> QED
    BY <1>1, <1>8, <2>1 DEF T!EmptyFolder, T!WithoutSelection, T!listPart, T!pickPart
<1>9. CASE T!Remove
  <2> PICK uids \in {selected, T!Targets} :
        /\ uids # {}
        /\ IF folder = "trash" THEN box' = uids /\ UNCHANGED <<hidden, selected, anchor, asks>>
           ELSE /\ hidden' = hidden \cup uids /\ T!Ticks({}, None) /\ T!Starts("trash", uids, FALSE)
                /\ UNCHANGED box
    BY <1>9 DEF T!Remove
  <2>1. uids \in SUBSET T!Known
    BY <1>0
  <2>2. spent' \in [steps : Nat, faults : Nat]
    BY <1>9, SpentTypes DEF T!Remove, T!Step
  <2>3. CASE folder = "trash"
    BY <1>9, <2>1, <2>2, <2>3 DEF T!Remove, T!listPart, T!TypeOK
  <2>4. CASE folder # "trash"
    <3>1. asks' \subseteq T!Requests
      BY <1>0, <2>1, <2>4, StartsTypes
    <3>2. selected' = {} /\ anchor' = None /\ hidden' = hidden \cup uids /\ box' = box
      BY <2>4 DEF T!Ticks
    <3> QED
      BY <1>9, <2>1, <2>2, <3>1, <3>2 DEF T!Remove, T!listPart, T!TypeOK
  <2> QED
    BY <2>3, <2>4
<1>10. CASE T!ConfirmPermanentDelete
  <2>1. asks' \subseteq T!Requests
    BY <1>0, <1>10, StartsTypes DEF T!ConfirmPermanentDelete
  <2>2. selected' = {} /\ anchor' = None
    BY <1>10 DEF T!ConfirmPermanentDelete, T!Ticks
  <2> QED
    BY <1>10, <2>1, <2>2 DEF T!ConfirmPermanentDelete, T!listPart, T!TypeOK
<1>11. CASE T!Cancel
  BY <1>11 DEF T!Cancel, T!listPart, T!pickPart, T!TypeOK
<1>12. CASE T!Undo
  <2>1. asks' \subseteq asks /\ hidden' \subseteq hidden
    BY <1>12 DEF T!Undo
  <2>2. spent' \in [steps : Nat, faults : Nat]
    BY <1>12, SpentTypes DEF T!Undo, T!Step
  <2> QED
    BY <1>12, <2>1, <2>2 DEF T!Undo, T!listPart, T!pickPart, T!TypeOK
<1> QED
  BY <1>2, <1>3, <1>4, <1>5, <1>6, <1>7, <1>8, <1>9, <1>10, <1>11, <1>12

\* The requests as the user's browser and the server make them.
LEMMA AnswersTypes ==
  ASSUME T!ValuesAssumption, T!TypeOK, StarsLoaded,
         T!MarkSeen \/ T!ToggleStar \/ T!Timer \/ T!AskServed \/ T!AskAnswered \/ T!AskFails
  PROVE  T!TypeOK'
<1>0. /\ anchor \in T!Known \cup {None} /\ selected \subseteq T!Known /\ store \in T!RowsOf(T!Known)
      /\ data # None => data \in T!Loaded /\ data.rows \in T!RowsOf(T!Known)
      /\ {"seen", "star"} \subseteq T!Kinds
  BY DEF T!TypeOK, T!Loaded, T!Kinds, T!Runs
<1>1. \A a \in asks : /\ a \in T!Requests /\ a.kind \in T!Kinds /\ a.uids \in SUBSET T!Known /\ a.on \in BOOLEAN
                      /\ [a EXCEPT !.held = FALSE] \in T!Requests
                      /\ [a EXCEPT !.st = "asked"] \in T!Requests
                      /\ [a EXCEPT !.st = "done"] \in T!Requests
  BY DEF T!TypeOK, T!Requests
<1>2. CASE T!MarkSeen
  <2> DEFINE on == \E u \in selected \cap T!Items : ~data.rows[u].seen
             rows == [u \in DOMAIN data.rows |->
                        IF u \in selected \cap T!Items THEN [data.rows[u] EXCEPT !.seen = on] ELSE data.rows[u]]
  <2>1. on \in BOOLEAN /\ T!Starts("seen", selected, on)
    BY <1>2 DEF T!MarkSeen
  <2>2. data = None => data' = None
    BY <1>2 DEF T!MarkSeen
  <2>3. data # None => data' = [data EXCEPT !.rows = rows]
    BY <1>2 DEF T!MarkSeen
  <2> HIDE DEF on
  <2>4. data # None => rows \in T!RowsOf(T!Known)
    BY <1>0, <2>1, FlagsTypes
  <2>5. asks' \subseteq T!Requests
    BY <1>0, <2>1, StartsTypes
  <2> HIDE DEF rows
  <2>6. data' \in T!Loaded \cup {None}
    BY <2>2, <2>3, <2>4, LoadedTypes
  <2>7. spent' \in [steps : Nat, faults : Nat]
    BY <1>2, SpentTypes DEF T!MarkSeen, T!WithSelection, T!Step
  <2> QED
    BY <1>2, <2>5, <2>6, <2>7 DEF T!MarkSeen, T!pickPart, T!TypeOK
<1>3. CASE T!ToggleStar
  <2> PICK u \in T!Displayed \cup ({focused} \cap T!Items) :
        /\ T!Flip(u) /\ T!Starts("star", {u}, ~data.rows[u].flagged)
        /\ stale' = (stale \/ \E a \in asks : a.kind = "star" /\ a.uids = {u})
    BY <1>3 DEF T!ToggleStar
  <2>1. u \in T!Known /\ u \in T!Items /\ data # None
    BY ItemsAre DEF T!Items
  <2>2. data' \in T!Loaded
    BY <2>1, FlipTypes
  <2>3. {u} \in SUBSET T!Known /\ (~data.rows[u].flagged) \in BOOLEAN
    BY <2>1
  <2>4. asks' \subseteq T!Requests
    BY <1>0, <2>3, StartsTypes
  <2>5. spent' \in [steps : Nat, faults : Nat]
    BY <1>3, SpentTypes DEF T!ToggleStar, T!Step
  <2>6. stale' \in BOOLEAN
    BY DEF T!TypeOK
  <2> QED
    BY <1>3, <2>2, <2>4, <2>5, <2>6 DEF T!ToggleStar, T!pickPart, T!TypeOK
<1>4. CASE T!Timer
  <2>1. asks' \subseteq T!Requests
    BY <1>1, <1>4 DEF T!Timer
  <2> QED
    BY <1>4, <2>1 DEF T!Timer, T!listPart, T!pickPart, T!TypeOK
<1>5. CASE T!AskServed
  <2> PICK a \in asks :
        /\ a.st = "asked" /\ asks' = (asks \ {a}) \cup {[a EXCEPT !.st = "done"]}
        /\ store' \in (IF a.kind = "import" THEN T!Imported ELSE {T!Done(a)})
        /\ reads' = IF store' = store THEN reads
                    ELSE {IF l.got = None THEN l ELSE [l EXCEPT !.old = TRUE] : l \in reads}
    BY <1>5 DEF T!AskServed
  <2>1. asks' \subseteq T!Requests
    BY <1>1
  <2>2. reads' \subseteq T!Loads
    <3>1. \A l \in reads : l \in T!Loads /\ [l EXCEPT !.old = TRUE] \in T!Loads
      BY DEF T!TypeOK, T!Loads
    <3> QED
      BY <3>1
  <2>3. T!Imported \subseteq T!RowsOf(T!Known)
    <3> DEFINE grown == [u \in DOMAIN store \cup {New} |->
                           IF u = New THEN [seen |-> TRUE, flagged |-> FALSE] ELSE store[u]]
    <3>1. DOMAIN store \subseteq T!Known /\ store \in [DOMAIN store -> T!Flags] /\ New \in T!Known
      BY <1>0, RowsAre DEF T!Known
    <3>2. [seen |-> TRUE, flagged |-> FALSE] \in T!Flags
      BY DEF T!Flags
    <3>3. DOMAIN grown \subseteq T!Known /\ grown \in [DOMAIN grown -> T!Flags]
      BY <3>1, <3>2
    <3>4. grown \in T!RowsOf(T!Known)
      BY <3>3, RowsAre
    <3> QED
      BY <1>0, <3>4 DEF T!Imported
  <2>4. a.kind # "import" => T!Done(a) \in T!RowsOf(T!Known)
    <3>1. DOMAIN store \subseteq T!Known /\ store \in [DOMAIN store -> T!Flags]
      BY <1>0, RowsAre
    <3>2. a.kind \in {"seen", "star", "readall", "empty", "copy", "import"} \cup T!Leaving
      BY <1>1 DEF T!Kinds, T!Runs, T!Leaving
    <3>3. CASE a.kind = "seen"
      <4>1. T!Done(a) = [u \in DOMAIN store |-> IF u \in a.uids THEN [store[u] EXCEPT !.seen = a.on] ELSE store[u]]
        BY <3>3 DEF T!Done, T!Leaving
      <4>2. a.on \in BOOLEAN /\ store \in T!RowsOf(T!Known)
        BY <1>0, <1>1
      <4> DEFINE on == a.on
                 uids == a.uids
                 rows == [u \in DOMAIN store |-> IF u \in uids THEN [store[u] EXCEPT !.seen = on] ELSE store[u]]
      <4>3. T!Done(a) = rows
        BY <4>1
      <4> HIDE DEF on, uids
      <4>4. rows \in T!RowsOf(T!Known)
        <5>1. on \in BOOLEAN
          BY <4>2 DEF on
        <5> QED
          BY <4>2, <5>1, FlagsTypes
      <4> QED
        BY <4>3, <4>4
    <3>4. CASE a.kind = "star"
      <4>1. T!Done(a) = [u \in DOMAIN store |-> IF u \in a.uids THEN [store[u] EXCEPT !.flagged = a.on] ELSE store[u]]
        BY <3>4 DEF T!Done, T!Leaving
      <4>2. a.on \in BOOLEAN /\ store \in T!RowsOf(T!Known)
        BY <1>0, <1>1
      <4> DEFINE on == a.on
                 uids == a.uids
                 rows == [u \in DOMAIN store |-> IF u \in uids THEN [store[u] EXCEPT !.flagged = on] ELSE store[u]]
      <4>3. T!Done(a) = rows
        BY <4>1
      <4> HIDE DEF on, uids
      <4>4. rows \in T!RowsOf(T!Known)
        <5>1. on \in BOOLEAN
          BY <4>2 DEF on
        <5> QED
          BY <4>2, <5>1, FlagsTypes
      <4> QED
        BY <4>3, <4>4
    <3>5. CASE a.kind \in T!Leaving
      <4> DEFINE left == [u \in DOMAIN store \ a.uids |-> store[u]]
      <4>1. DOMAIN left \subseteq T!Known /\ left \in [DOMAIN left -> T!Flags]
        BY <3>1
      <4>2. left \in T!RowsOf(T!Known)
        BY <4>1, RowsAre
      <4>3. T!Done(a) = left
        BY <3>5 DEF T!Done, T!Leaving
      <4> QED
        BY <4>2, <4>3
    <3>6. CASE a.kind = "readall"
      BY <1>0, <3>6, FlagsTypes DEF T!Done, T!Leaving
    <3>7. CASE a.kind = "empty"
      <4> DEFINE nothing == [u \in {} |-> store[u]]
      <4>1. DOMAIN nothing \subseteq T!Known /\ nothing \in [DOMAIN nothing -> T!Flags]
        OBVIOUS
      <4>2. nothing \in T!RowsOf(T!Known)
        BY <4>1, RowsAre
      <4>3. T!Done(a) = nothing
        BY <3>7 DEF T!Done, T!Leaving
      <4> QED
        BY <4>2, <4>3
    <3>8. CASE a.kind = "copy"
      BY <1>0, <3>8 DEF T!Done, T!Leaving
    <3> QED
      BY <3>2, <3>3, <3>4, <3>5, <3>6, <3>7, <3>8
  <2>5. store' \in T!RowsOf(T!Known)
    BY <2>3, <2>4
  <2> QED
    BY <1>5, <2>1, <2>2, <2>5 DEF T!AskServed, T!pickPart, T!TypeOK
<1>6. CASE T!AskAnswered
  <2> PICK a \in asks :
        /\ a.st = "done"
        /\ IF a.kind \in T!Runs \cup {"empty"} THEN T!Ticks({}, None) ELSE UNCHANGED <<selected, anchor>>
        /\ IF a.kind = "star" THEN UNCHANGED <<reads, loading, failed, unseen>>
           ELSE T!Reload(IF a.kind = "trash" THEN a.uids ELSE {})
        /\ IF a.kind = "readall" /\ data # None
           THEN /\ data' = [data EXCEPT !.rows = [u \in DOMAIN @ |-> [@[u] EXCEPT !.seen = TRUE]]]
                /\ asks' = {[b EXCEPT !.held = FALSE] : b \in asks \ {a}}
           ELSE asks' = asks \ {a} /\ UNCHANGED data
    BY <1>6 DEF T!AskAnswered
  <2>1. selected' \subseteq T!Known /\ anchor' \in T!Known \cup {None}
    BY <1>0 DEF T!Ticks
  <2>2. (IF a.kind = "trash" THEN a.uids ELSE {}) \in SUBSET T!Known
    BY <1>1
  <2>3. /\ reads' \subseteq T!Loads /\ loading' \in BOOLEAN /\ failed' \in BOOLEAN
        /\ unseen' \subseteq T!Known
    BY <2>1, <2>2, ReloadTypes DEF T!TypeOK
  <2>4. asks' \subseteq T!Requests
    <3>1. asks' = {[b EXCEPT !.held = FALSE] : b \in asks \ {a}} \/ asks' = asks \ {a}
      OBVIOUS
    <3>2. \A b \in T!Requests : [b EXCEPT !.held = FALSE] \in T!Requests
      BY DEF T!Requests
    <3>4. asks \ {a} \subseteq T!Requests
      BY DEF T!TypeOK
    <3>3. {[b EXCEPT !.held = FALSE] : b \in asks \ {a}} \subseteq T!Requests
      BY <3>2, <3>4
    <3> QED
      BY <3>1, <3>3, <3>4
  <2>5. data' \in T!Loaded \cup {None}
    <3> DEFINE rows == [u \in DOMAIN data.rows |-> [data.rows[u] EXCEPT !.seen = TRUE]]
    <3>1. CASE a.kind = "readall" /\ data # None
      <4>1. rows \in T!RowsOf(T!Known)
        BY <1>0, <3>1, FlagsTypes
      <4>2. data' = [data EXCEPT !.rows = rows]
        BY <3>1
      <4> HIDE DEF rows
      <4> QED
        BY <3>1, <4>1, <4>2, LoadedTypes
    <3>2. CASE ~(a.kind = "readall" /\ data # None)
      BY <3>2 DEF T!TypeOK
    <3> QED
      BY <3>1, <3>2
  <2> QED
    BY <1>6, <2>1, <2>3, <2>4, <2>5 DEF T!AskAnswered, T!TypeOK
<1>7. CASE T!AskFails
  <2> PICK a \in asks :
        /\ a.st # "timer" /\ asks' = asks \ {a}
        /\ IF a.kind \in T!Runs THEN UNCHANGED <<selected, anchor>> /\ T!Reload({})
           ELSE UNCHANGED <<selected, anchor, unseen, reads, loading, failed>>
        /\ IF a.kind = "star" /\ a.held THEN T!Flip(CHOOSE u \in a.uids : TRUE) ELSE UNCHANGED data
        /\ hidden' = IF a.kind = "trash" THEN hidden \ a.uids ELSE hidden
        /\ stale' = (stale \/ (a.st = "done" /\ a.kind \notin T!Runs))
    BY <1>7 DEF T!AskFails
  <2>1. selected' = selected /\ anchor' = anchor
    OBVIOUS
  <2>2. /\ reads' \subseteq T!Loads /\ loading' \in BOOLEAN /\ failed' \in BOOLEAN
        /\ unseen' \subseteq T!Known
    BY <1>0, <2>1, ReloadTypes DEF T!TypeOK
  <2>3. data' \in T!Loaded \cup {None}
    BY FlipTypes DEF StarsLoaded, T!TypeOK
  <2>4. spent' \in [steps : Nat, faults : Nat]
    BY <1>7, SpentTypes DEF T!AskFails
  <2>5. stale' \in BOOLEAN
    BY DEF T!TypeOK
  <2> QED
    BY <1>7, <2>1, <2>2, <2>3, <2>4, <2>5 DEF T!AskFails, T!TypeOK
<1> QED
  BY <1>2, <1>3, <1>4, <1>5, <1>6, <1>7

\* A request keeps what it is, whatever it has come to.
LEMMA KeepsAre ==
  ASSUME NEW a \in T!Requests, NEW st
  PROVE  /\ [a EXCEPT !.held = FALSE].kind = a.kind /\ [a EXCEPT !.held = FALSE].uids = a.uids
         /\ ~[a EXCEPT !.held = FALSE].held
         /\ [a EXCEPT !.st = st].kind = a.kind /\ [a EXCEPT !.st = st].uids = a.uids
         /\ [a EXCEPT !.st = st].held = a.held
BY DEF T!Requests

\* No load and no request is lost with what it is to show: what is hidden stays owed.
LEMMA OwedKept ==
  ASSUME Owed, hidden' \subseteq hidden,
         \A a \in asks : a.kind = "trash" => \/ \E b \in asks' : b.kind = "trash" /\ b.uids = a.uids
                                             \/ \E l \in reads' : l.shows = a.uids
                                             \/ hidden' \cap a.uids = {},
         \A l \in reads : \/ \E m \in reads' : m.shows = l.shows
                          \/ hidden' \cap l.shows = {}
  PROVE  Owed'
BY DEF Owed

LEMMA SelectionKept ==
  ASSUME T!ValuesAssumption, TicksInv, T!Next
  PROVE  T!SelectionShown' /\ T!AnchorTicked' /\ StarsLoaded' /\ Owed'
<1> USE DEF TicksInv
<1>0. /\ \A a \in asks : a \in T!Requests
      /\ \A l \in reads : l \in T!Loads
      /\ data # None => data \in T!Loaded
  BY DEF T!TypeOK
<1>1. ASSUME NEW kind, NEW uids, NEW on, T!Starts(kind, uids, on), hidden' \subseteq hidden, reads' = reads
      PROVE  Owed'
  <2>1. asks \subseteq asks'
    BY <1>1 DEF T!Starts
  <2> QED
    BY <1>1, <2>1, OwedKept
<1>2. ASSUME NEW kind, NEW uids, NEW on, T!Starts(kind, uids, on), kind # "star", data' = data \/ (data # None /\ data' # None)
      PROVE  StarsLoaded'
  BY <1>2 DEF T!Starts, StarsLoaded
<1>3. ASSUME NEW uids, NEW from, T!Picks(uids, from), UNCHANGED <<data, hidden, loading, failed>>
      PROVE  T!SelectionShown' /\ T!AnchorTicked'
  BY <1>3, PicksShown DEF T!Picks, T!Ticks, T!AnchorTicked
<1>4. ASSUME UNCHANGED <<selected, anchor, unseen, data, loading, failed, hidden>>
      PROVE  T!SelectionShown' /\ T!AnchorTicked'
  BY <1>4 DEF T!SelectionShown, T!Displayed, T!Items, T!AnchorTicked
<1>5. ASSUME UNCHANGED <<hidden, reads, asks>>
      PROVE  Owed'
  BY <1>5 DEF Owed
<1>6. ASSUME UNCHANGED <<data, asks>>
      PROVE  StarsLoaded'
  BY <1>6 DEF StarsLoaded
<1>7. CASE T!ReadServed
  <2> PICK l \in reads :
        /\ l.got = None
        /\ reads' = (reads \ {l}) \cup
             {[l EXCEPT !.got = [rows |-> T!PageRows(l.page), total |-> T!Cardinality(DOMAIN store)]]}
    BY <1>7 DEF T!ReadServed
  <2> DEFINE got == [rows |-> T!PageRows(l.page), total |-> T!Cardinality(DOMAIN store)]
  <2> HIDE DEF got
  <2>1. [l EXCEPT !.got = got].shows = l.shows
    BY <1>0 DEF T!Loads
  <2>2. [l EXCEPT !.got = got] \in reads'
    BY DEF got
  <2>3. \A m \in reads : \E k \in reads' : k.shows = m.shows
    BY <2>1, <2>2
  <2>4. Owed'
    BY <1>7, <2>3, OwedKept DEF T!ReadServed
  <2> QED
    BY <1>4, <1>6, <1>7, <2>4 DEF T!ReadServed, T!pickPart
<1>8. CASE T!ReadAnswered
  <2> PICK l \in reads :
        /\ l.got # None /\ reads' = reads \ {l}
        /\ data' = [page |-> l.page, rows |-> l.got.rows, total |-> l.got.total]
        /\ T!Ticks(T!Synced(l.got.rows), anchor) /\ hidden' = hidden \ l.shows
        /\ stale' = (l.old \/ \E a \in asks : a.kind = "star" /\ a.st = "asked")
    BY <1>8 DEF T!ReadAnswered
  <2>1. asks' = {[a EXCEPT !.held = FALSE] : a \in asks} /\ unseen' = unseen
    BY <1>8 DEF T!ReadAnswered
  <2>2. Owed'
    <3>1. \A a \in asks : \E b \in asks' : b.kind = a.kind /\ b.uids = a.uids
      BY <1>0, <2>1, KeepsAre
    <3> QED
      BY <3>1, OwedKept
  <2>3. StarsLoaded'
    <3>0. \A a \in T!Requests : ~[a EXCEPT !.held = FALSE].held
      BY DEF T!Requests
    <3>1. \A b \in asks' : ~b.held
      BY <1>0, <2>1, <3>0
    <3> QED
      BY <3>1 DEF StarsLoaded
  <2>4. T!AnchorTicked'
    BY DEF T!Ticks, T!AnchorTicked
  <2>5. T!SelectionShown'
    <3>1. selected' = selected \cap DOMAIN l.got.rows
      BY DEF T!Ticks, T!Synced
    <3>2. data' # None
      BY <1>0, LoadsTypes, <1>8 DEF T!ValuesAssumption, T!Loaded, T!Loads, T!Answer
    <3>3. T!Displayed' = DOMAIN l.got.rows \ hidden'
      BY <1>8, <3>2 DEF T!ReadAnswered, T!Displayed, T!Items
    <3>4. selected \cap hidden \subseteq unseen
      BY DEF T!SelectionShown, T!Displayed, T!Items
    <3> QED
      BY <2>1, <3>1, <3>3, <3>4 DEF T!SelectionShown
  <2> QED
    BY <2>2, <2>3, <2>4, <2>5
<1>9. CASE T!ReadFails
  <2> PICK l \in reads :
        /\ reads' = reads \ {l} /\ hidden' = hidden \ l.shows
        /\ failed' = (failed \/ ~l.quiet)
        /\ unseen' = IF l.quiet THEN unseen ELSE unseen \cup selected
    BY <1>9 DEF T!ReadFails
  <2>1. loading' = FALSE /\ UNCHANGED <<data, selected, anchor, asks>>
    BY <1>9 DEF T!ReadFails
  <2>2. Owed'
    BY <2>1, OwedKept
  <2>3. CASE l.quiet
    <3>1. T!Displayed \subseteq T!Displayed'
      BY <2>1, <2>3 DEF T!Displayed, T!Items
    <3> QED
      BY <1>6, <2>1, <2>2, <2>3, <3>1, MoreShown DEF T!AnchorTicked
  <2>4. CASE ~l.quiet
    BY <1>6, <2>1, <2>2, <2>4 DEF T!SelectionShown, T!AnchorTicked
  <2> QED
    BY <2>3, <2>4
<1>10. CASE T!GoTo
  <2> PICK p \in T!OtherPages : page' = p /\ T!Ticks({}, None) /\ T!Ask(p, {})
    BY <1>10 DEF T!GoTo
  <2>1. selected' = {} /\ anchor' = None /\ reads \subseteq reads' /\ UNCHANGED <<data, hidden, asks>>
    BY <1>10 DEF T!GoTo, T!Ticks, T!Ask
  <2> QED
    BY <1>6, <2>1, OwedKept DEF T!SelectionShown, T!AnchorTicked
<1>11. CASE T!Refresh
  <2>1. UNCHANGED <<selected, anchor, data, hidden, asks>> /\ T!Reload({})
    BY <1>11 DEF T!Refresh
  <2>2. reads \subseteq reads' /\ unseen \subseteq unseen'
    BY <2>1 DEF T!Reload, T!Ask
  <2>3. T!SelectionShown'
    BY <2>1, <2>2, ReloadShown, NothingShown
  <2> QED
    BY <1>6, <2>1, <2>2, <2>3, OwedKept DEF T!AnchorTicked
<1>12. CASE T!ToggleAll \/ T!SelectionMenu \/ T!Select \/ T!KeySelect
  BY <1>3, <1>5, <1>6, <1>12 DEF T!ToggleAll, T!SelectionMenu, T!Select, T!KeySelect, T!listPart
<1>13. CASE T!FocusRow \/ T!Cancel
  BY <1>4, <1>5, <1>6, <1>13 DEF T!FocusRow, T!Cancel, T!listPart, T!pickPart
<1>14. CASE T!MarkSeen
  <2> DEFINE on == \E u \in selected \cap T!Items : ~data.rows[u].seen
  <2>1. T!Starts("seen", selected, on) /\ UNCHANGED <<loading, failed, reads, selected, anchor, unseen, hidden>>
    BY <1>14 DEF T!MarkSeen, T!pickPart
  <2>2. data = None => data' = None
    BY <1>14 DEF T!MarkSeen
  <2>3. data # None => data' # None /\ DOMAIN data'.rows = DOMAIN data.rows
    <3> DEFINE rows == [u \in DOMAIN data.rows |->
                          IF u \in selected \cap T!Items THEN [data.rows[u] EXCEPT !.seen = on] ELSE data.rows[u]]
    <3> SUFFICES ASSUME data # None PROVE data' # None /\ DOMAIN data'.rows = DOMAIN data.rows
      OBVIOUS
    <3>1. data' = [data EXCEPT !.rows = rows]
      BY <1>14 DEF T!MarkSeen
    <3>2. on \in BOOLEAN
      OBVIOUS
    <3>3. data.rows \in T!RowsOf(T!Known)
      BY <1>0 DEF T!Loaded
    <3> HIDE DEF on
    <3>4. rows \in T!RowsOf(T!Known)
      BY <3>2, <3>3, FlagsTypes
    <3>5. DOMAIN rows = DOMAIN data.rows
      OBVIOUS
    <3> HIDE DEF rows
    <3> QED
      BY <3>1, <3>4, <3>5, LoadedTypes
  <2> HIDE DEF on
  <2>4. T!Displayed' = T!Displayed
    BY <2>1, <2>2, <2>3 DEF T!Displayed, T!Items
  <2> QED
    BY <1>1, <1>2, <2>1, <2>2, <2>3, <2>4 DEF T!SelectionShown, T!AnchorTicked
<1>15. CASE T!ToggleStar
  <2> PICK u \in T!Displayed \cup ({focused} \cap T!Items) :
        T!Flip(u) /\ T!Starts("star", {u}, ~data.rows[u].flagged)
    BY <1>15 DEF T!ToggleStar
  <2>1. UNCHANGED <<loading, failed, reads, selected, anchor, unseen, hidden>>
    BY <1>15 DEF T!ToggleStar, T!pickPart
  <2>2. data # None
    BY DEF T!Displayed, T!Items
  <2>3. data' # None /\ DOMAIN data'.rows = DOMAIN data.rows
    BY <2>2, FlipTypes
  <2>4. T!Displayed' = T!Displayed
    BY <2>1, <2>2, <2>3 DEF T!Displayed, T!Items
  <2> QED
    BY <1>1, <2>1, <2>3, <2>4 DEF T!SelectionShown, T!AnchorTicked, StarsLoaded
<1>16. CASE T!MoveSelected \/ T!CopyOrJunkSelected \/ T!DropOnFolder \/ T!MarkAllAsRead \/ T!ImportFiles \/ T!EmptyFolder
  <2>1. UNCHANGED <<selected, anchor, unseen, data, loading, failed, hidden, reads>>
    BY <1>16 DEF T!MoveSelected, T!CopyOrJunkSelected, T!DropOnFolder, T!MarkAllAsRead, T!ImportFiles, T!EmptyFolder, T!listPart, T!pickPart
  <2>2. asks \subseteq asks' /\ \A a \in asks' \ asks : a.kind # "star"
    <3>1. CASE T!MoveSelected
      BY <3>1 DEF T!MoveSelected, T!Starts
    <3>2. CASE T!CopyOrJunkSelected
      BY <3>2 DEF T!CopyOrJunkSelected, T!Starts
    <3>3. CASE T!DropOnFolder
      BY <3>3 DEF T!DropOnFolder, T!Starts
    <3>4. CASE T!MarkAllAsRead
      BY <3>4 DEF T!MarkAllAsRead, T!Starts
    <3>5. CASE T!ImportFiles
      BY <3>5 DEF T!ImportFiles, T!Starts
    <3>6. CASE T!EmptyFolder
      BY <3>6 DEF T!EmptyFolder, T!Starts
    <3> QED
      BY <1>16, <3>1, <3>2, <3>3, <3>4, <3>5, <3>6
  <2>3. Owed'
    BY <2>1, <2>2, OwedKept
  <2>4. StarsLoaded'
    BY <2>1, <2>2 DEF StarsLoaded
  <2> QED
    BY <1>4, <2>1, <2>3, <2>4
<1>17. CASE T!KeyArchive
  BY <1>1, <1>2, <1>3, <1>17 DEF T!KeyArchive, T!listPart
<1>18. CASE T!Remove
  <2> PICK uids \in {selected, T!Targets} :
        IF folder = "trash" THEN box' = uids /\ UNCHANGED <<hidden, selected, anchor, asks>>
        ELSE /\ hidden' = hidden \cup uids /\ T!Ticks({}, None) /\ T!Starts("trash", uids, FALSE)
             /\ UNCHANGED box
    BY <1>18 DEF T!Remove
  <2>1. UNCHANGED <<data, loading, failed, reads, unseen>>
    BY <1>18 DEF T!Remove, T!listPart
  <2>2. CASE folder = "trash"
    BY <1>4, <1>5, <1>6, <2>1, <2>2
  <2>3. CASE folder # "trash"
    <3>1. selected' = {} /\ anchor' = None /\ T!Starts("trash", uids, FALSE) /\ hidden' = hidden \cup uids
      BY <2>3 DEF T!Ticks
    <3> DEFINE ask == [n |-> spent.steps, kind |-> "trash", uids |-> uids, on |-> FALSE, held |-> "trash" = "star",
                       st |-> IF "trash" = "trash" THEN "timer" ELSE "asked"]
    <3>2. asks \subseteq asks' /\ \E a \in asks' : a.kind = "trash" /\ a.uids = uids
      <4>1. asks' = asks \cup {ask}
        BY <3>1 DEF T!Starts
      <4>2. ask.kind = "trash" /\ ask.uids = uids
        OBVIOUS
      <4> HIDE DEF ask
      <4> QED
        BY <4>1, <4>2
    <3>3. Owed'
      BY <2>1, <3>1, <3>2 DEF Owed
    <3> QED
      BY <1>2, <2>1, <3>1, <3>3 DEF T!SelectionShown, T!AnchorTicked
  <2> QED
    BY <2>2, <2>3
<1>19. CASE T!ConfirmPermanentDelete
  <2>1. /\ selected' = {} /\ anchor' = None /\ T!Starts("delete", box, FALSE)
        /\ UNCHANGED <<data, reads, hidden>>
    BY <1>19 DEF T!ConfirmPermanentDelete, T!Ticks, T!listPart
  <2> QED
    BY <1>1, <1>2, <2>1 DEF T!SelectionShown, T!AnchorTicked
<1>20. CASE T!Undo
  <2> PICK a \in asks :
        /\ a.kind = "trash" /\ hidden' = hidden \ a.uids
        /\ asks' = IF a.st = "timer" THEN asks \ {a} ELSE asks
    BY <1>20 DEF T!Undo
  <2>1. UNCHANGED <<selected, anchor, unseen, data, loading, failed, reads>>
    BY <1>20 DEF T!Undo, T!listPart, T!pickPart
  <2>2. T!Displayed \subseteq T!Displayed'
    BY <2>1 DEF T!Displayed, T!Items
  <2>3. Owed'
    BY <2>1, OwedKept
  <2>4. StarsLoaded'
    BY <2>1 DEF StarsLoaded
  <2> QED
    BY <2>1, <2>2, <2>3, <2>4, MoreShown DEF T!AnchorTicked
<1>21. CASE T!Timer
  <2> PICK a \in asks : a.st = "timer" /\ asks' = (asks \ {a}) \cup {[a EXCEPT !.st = "asked"]}
    BY <1>21 DEF T!Timer
  <2>1. UNCHANGED <<selected, anchor, unseen, data, loading, failed, reads, hidden>>
    BY <1>21 DEF T!Timer, T!listPart, T!pickPart
  <2>2. [a EXCEPT !.st = "asked"].kind = a.kind /\ [a EXCEPT !.st = "asked"].uids = a.uids
        /\ [a EXCEPT !.st = "asked"].held = a.held
    BY <1>0, KeepsAre
  <2>3. Owed' /\ StarsLoaded'
    BY <2>1, <2>2, OwedKept DEF StarsLoaded
  <2> QED
    BY <1>4, <2>1, <2>3
<1>22. CASE T!AskServed
  <2> PICK a \in asks : asks' = (asks \ {a}) \cup {[a EXCEPT !.st = "done"]}
    BY <1>22 DEF T!AskServed
  <2>1. UNCHANGED <<selected, anchor, unseen, data, loading, failed, hidden>>
    BY <1>22 DEF T!AskServed, T!pickPart
  <2>2. [a EXCEPT !.st = "done"].kind = a.kind /\ [a EXCEPT !.st = "done"].uids = a.uids
        /\ [a EXCEPT !.st = "done"].held = a.held
    BY <1>0, KeepsAre
  <2>3. \A l \in reads : \E m \in reads' : m.shows = l.shows
    <3>1. \A l \in reads : [l EXCEPT !.old = TRUE].shows = l.shows
      BY <1>0 DEF T!Loads
    <3>2. reads' = reads \/ reads' = {IF l.got = None THEN l ELSE [l EXCEPT !.old = TRUE] : l \in reads}
      BY <1>22 DEF T!AskServed
    <3> QED
      BY <3>1, <3>2
  <2>4. Owed' /\ StarsLoaded'
    BY <2>1, <2>2, <2>3, OwedKept DEF StarsLoaded
  <2> QED
    BY <1>4, <2>1, <2>4
<1>23. CASE T!AskAnswered
  <2> PICK a \in asks :
        /\ IF a.kind \in T!Runs \cup {"empty"} THEN T!Ticks({}, None) ELSE UNCHANGED <<selected, anchor>>
        /\ IF a.kind = "star" THEN UNCHANGED <<reads, loading, failed, unseen>>
           ELSE T!Reload(IF a.kind = "trash" THEN a.uids ELSE {})
        /\ IF a.kind = "readall" /\ data # None
           THEN /\ data' = [data EXCEPT !.rows = [u \in DOMAIN @ |-> [@[u] EXCEPT !.seen = TRUE]]]
                /\ asks' = {[b EXCEPT !.held = FALSE] : b \in asks \ {a}}
           ELSE asks' = asks \ {a} /\ UNCHANGED data
    BY <1>23 DEF T!AskAnswered
  <2> DEFINE shows == IF a.kind = "trash" THEN a.uids ELSE {}
  <2>1. selected' \subseteq selected /\ T!AnchorTicked' /\ hidden' = hidden
    BY <1>23 DEF T!AskAnswered, T!Ticks, T!AnchorTicked
  <2>2. /\ reads \subseteq reads' /\ unseen \subseteq unseen'
        /\ a.kind = "trash" => \E l \in reads' : l.shows = a.uids
    <3>1. a.kind # "star" => T!Reload(shows)
      OBVIOUS
    <3> HIDE DEF shows
    <3>2. a.kind # "star" => reads \subseteq reads' /\ unseen \subseteq unseen' /\ \E l \in reads' : l.shows = shows
      <4> SUFFICES ASSUME T!Reload(shows)
                   PROVE  reads \subseteq reads' /\ unseen \subseteq unseen' /\ \E l \in reads' : l.shows = shows
        BY <3>1
      <4> DEFINE load == [page |-> page, quiet |-> (data # None /\ data.page = page), got |-> None,
                          old |-> FALSE, shows |-> shows]
      <4>1. reads' = reads \cup {load}
        BY DEF T!Reload, T!Ask
      <4>2. load.shows = shows
        OBVIOUS
      <4>3. unseen \subseteq unseen'
        BY DEF T!Reload
      <4> HIDE DEF load
      <4> QED
        BY <4>1, <4>2, <4>3
    <3> QED
      BY <3>2 DEF shows
  <2>3. (data = None => data' = None) /\ (data # None => data' # None /\ DOMAIN data'.rows = DOMAIN data.rows)
    <3> DEFINE rows == [u \in DOMAIN data.rows |-> [data.rows[u] EXCEPT !.seen = TRUE]]
    <3>1. CASE a.kind = "readall" /\ data # None
      <4>1. data' = [data EXCEPT !.rows = rows]
        BY <3>1
      <4>2. data.rows \in T!RowsOf(T!Known)
        BY <1>0, <3>1 DEF T!Loaded
      <4>3. rows \in T!RowsOf(T!Known) /\ DOMAIN rows = DOMAIN data.rows
        BY <4>2, FlagsTypes
      <4> HIDE DEF rows
      <4> QED
        BY <3>1, <4>1, <4>3, LoadedTypes
    <3>2. CASE ~(a.kind = "readall" /\ data # None)
      BY <3>2
    <3> QED
      BY <3>1, <3>2
  <2>4. \A b \in asks : b # a => \E c \in asks' : c.kind = b.kind /\ c.uids = b.uids
    BY <1>0, KeepsAre
  <2>5. Owed'
    BY <2>1, <2>2, <2>4, OwedKept
  <2>6. StarsLoaded'
    BY <1>0, <2>3, KeepsAre DEF StarsLoaded
  <2>7. T!SelectionShown'
    <3>1. CASE a.kind = "star"
      <4>1. UNCHANGED <<loading, failed>>
        BY <3>1
      <4>2. T!Displayed \subseteq T!Displayed'
        BY <2>1, <2>3, <4>1 DEF T!Displayed, T!Items
      <4> QED
        BY <2>1, <2>2, <4>2, MoreShown
    <3>2. CASE a.kind # "star" /\ data # None
      <4>1. T!Reload(shows)
        BY <3>2
      <4> HIDE DEF shows
      <4> QED
        BY <2>1, <2>3, <3>2, <4>1, ReloadShown
    <3>3. CASE data = None
      BY <2>1, <2>2, <3>3, NothingShown
    <3> QED
      BY <3>1, <3>2, <3>3
  <2> QED
    BY <2>1, <2>5, <2>6, <2>7
<1>24. CASE T!AskFails
  <2> PICK a \in asks :
        /\ asks' = asks \ {a}
        /\ IF a.kind \in T!Runs THEN UNCHANGED <<selected, anchor>> /\ T!Reload({})
           ELSE UNCHANGED <<selected, anchor, unseen, reads, loading, failed>>
        /\ IF a.kind = "star" /\ a.held THEN T!Flip(CHOOSE u \in a.uids : TRUE) ELSE UNCHANGED data
        /\ hidden' = IF a.kind = "trash" THEN hidden \ a.uids ELSE hidden
    BY <1>24 DEF T!AskFails
  <2>1. selected' = selected /\ anchor' = anchor /\ hidden' \subseteq hidden
    OBVIOUS
  <2>2. reads \subseteq reads' /\ unseen \subseteq unseen'
    BY DEF T!Reload, T!Ask
  <2>3. (data = None => data' = None) /\ (data # None => data' # None /\ DOMAIN data'.rows = DOMAIN data.rows)
    BY FlipTypes DEF StarsLoaded
  <2>4. Owed'
    BY <2>1, <2>2, OwedKept
  <2>5. StarsLoaded'
    BY <2>3 DEF StarsLoaded
  <2>6. T!SelectionShown'
    <3>1. CASE a.kind \notin T!Runs
      <4>1. UNCHANGED <<loading, failed>>
        BY <3>1
      <4>2. T!Displayed \subseteq T!Displayed'
        BY <2>1, <2>3, <4>1 DEF T!Displayed, T!Items
      <4> QED
        BY <2>1, <2>2, <4>2, MoreShown
    <3>2. CASE a.kind \in T!Runs /\ data # None
      BY <2>1, <2>3, <3>2, ReloadShown
    <3>3. CASE data = None
      BY <2>1, <2>2, <3>3, NothingShown
    <3> QED
      BY <3>1, <3>2, <3>3
  <2> QED
    BY <2>1, <2>4, <2>5, <2>6 DEF T!AnchorTicked
<1> QED
  BY <1>7, <1>8, <1>9, <1>10, <1>11, <1>12, <1>13, <1>14, <1>15, <1>16, <1>17, <1>18, <1>19,
     <1>20, <1>21, <1>22, <1>23, <1>24 DEF T!Next, T!Answers

LEMMA TicksStep == T!ValuesAssumption /\ TicksInv /\ [T!Next]_T!selectionVars => TicksInv'
<1> SUFFICES ASSUME T!ValuesAssumption, TicksInv, [T!Next]_T!selectionVars PROVE TicksInv'
  OBVIOUS
<1>1. CASE T!Next
  <2>1. T!TypeOK'
    BY <1>1, LoadsTypes, PicksStepTypes, RequestsTypes, AnswersTypes DEF TicksInv, T!Next, T!Answers
  <2> QED
    BY <1>1, <2>1, SelectionKept DEF TicksInv
<1>2. CASE UNCHANGED T!selectionVars
  BY <1>2 DEF T!selectionVars, T!listPart, T!pickPart, TicksInv, T!TypeOK, StarsLoaded, T!SelectionShown,
     T!Displayed, T!Items, T!AnchorTicked, Owed
<1> QED
  BY <1>1, <1>2

LEMMA TicksInvSound == TicksInv => TicksSound
<1> SUFFICES ASSUME Owed PROVE T!HiddenUntilDone
  BY DEF TicksInv, TicksSound, T!TicksSound
<1> DEFINE removed == UNION {a.uids : a \in {b \in asks : b.kind = "trash"}}
           shown == UNION {l.shows : l \in reads}
<1>1. \A u : (\E a \in asks : a.kind = "trash" /\ u \in a.uids) => u \in removed
  OBVIOUS
<1>2. \A u : (\E l \in reads : u \in l.shows) => u \in shown
  OBVIOUS
<1>3. T!HiddenUntilDone <=> hidden \subseteq removed \cup shown
  BY DEF T!HiddenUntilDone
<1> HIDE DEF removed, shown
<1> QED
  BY <1>1, <1>2, <1>3 DEF Owed

\* For every folder, page size and number of requests: what a button, a key or a drag acts on is
\* displayed or was ticked unseen, a range begins only in a selection, and whatever is hidden is the
\* business of a removal or of a load that will show it.
THEOREM TicksAreSound == ASSUME T!ValuesAssumption PROVE T!Spec => []TicksSound
<1>1. T!Init => TicksInv
  BY TicksInit
<1>2. TicksInv /\ [T!Next]_T!selectionVars => TicksInv'
  BY TicksStep
<1> QED
  BY <1>1, <1>2, TicksInvSound, PTL DEF T!Spec
----------------------------------------------------------------------------
(***************************************************************************)
(* The page of a message: Reader, for any messages and any size of the     *)
(* cache.                                                                  *)
(*                                                                         *)
(* The cache has one entry of a message at most.  An entry that is the     *)
(* very object of a page is of the message of that page, and is what it    *)
(* shows.  While requests come one at a time, an entry differs from the    *)
(* server only by what the request in flight has changed on one side.      *)
(***************************************************************************)

EntrySet == [uid : Opened, detail : R!Detail, page : 0..MaxOpens]

Elems(c) == {c[i] : i \in DOMAIN c}

OnePerUid(c) == \A i, j \in DOMAIN c : c[i].uid = c[j].uid => i = j

CacheOk(c) == c \in Seq(EntrySet) /\ Len(c) <= CacheSize /\ OnePerUid(c)

LEMMA SequenceFacts ==
  ASSUME NEW S, NEW s \in Seq(S)
  PROVE  Len(s) \in Nat /\ DOMAIN s = 1..Len(s) /\ \A i \in 1..Len(s) : s[i] \in S
BY LenProperties, ElementOfSeq

LEMMA SameRange ==
  ASSUME NEW a \in Nat, NEW b \in Nat, NEW d, d = 1..a, d = 1..b
  PROVE  a = b
<1>1. ASSUME a < b PROVE FALSE
  <2>1. b \in 1..b /\ ~(b \in 1..a)
    BY <1>1
  <2> QED
    BY <2>1
<1>2. ASSUME b < a PROVE FALSE
  <2>1. a \in 1..a /\ ~(a \in 1..b)
    BY <1>2
  <2> QED
    BY <2>1
<1> QED
  BY <1>1, <1>2

\* What is left of a sequence from which the place k is taken.
LEMMA RestOf ==
  ASSUME NEW S, NEW c \in Seq(S), NEW k \in 1..Len(c)
  PROVE  /\ R!RemoveAt(c, k) \in Seq(S) /\ Len(R!RemoveAt(c, k)) = Len(c) - 1
         /\ \A i \in 1..(Len(c) - 1) :
              /\ i < k => R!RemoveAt(c, k)[i] = c[i]
              /\ k <= i => R!RemoveAt(c, k)[i] = c[i + 1]
<1> DEFINE first == SubSeq(c, 1, k - 1)
           last == SubSeq(c, k + 1, Len(c))
           n == Len(c)
<1>1. n \in Nat /\ k \in Int /\ 1 <= k /\ k <= n /\ \A i \in 1..n : c[i] \in S
  BY SequenceFacts
<1> HIDE DEF n
<1>2. /\ first \in Seq(S) /\ Len(first) = k - 1
      /\ \A i \in 1..(k - 1) : first[i] = c[i]
  <2>1. \A i \in 1..(k - 1) : i \in 1..n /\ 1 + i - 1 = i
    BY <1>1
  <2>2. 1 \in Int /\ k - 1 \in Int /\ \A i \in 1..(k - 1) : c[i] \in S
    BY <1>1, <2>1
  <2>3. /\ first \in Seq(S) /\ Len(first) = IF 1 <= k - 1 THEN k - 1 - 1 + 1 ELSE 0
        /\ \A i \in 1..(k - 1 - 1 + 1) : first[i] = c[1 + i - 1]
    BY <2>2, SubSeqProperties
  <2>4. k - 1 - 1 + 1 = k - 1 /\ (~(1 <= k - 1) => k - 1 = 0)
    BY <1>1
  <2> HIDE DEF first
  <2> QED
    BY <2>1, <2>3, <2>4
<1>3. /\ last \in Seq(S) /\ Len(last) = n - k
      /\ \A i \in 1..(n - k) : last[i] = c[k + i]
  <2>1. \A i \in (k + 1)..n : i \in 1..n
    BY <1>1
  <2>2. k + 1 \in Int /\ n \in Int /\ \A i \in (k + 1)..n : c[i] \in S
    BY <1>1, <2>1
  <2>3. /\ last \in Seq(S) /\ Len(last) = IF k + 1 <= n THEN n - (k + 1) + 1 ELSE 0
        /\ \A i \in 1..(n - (k + 1) + 1) : last[i] = c[k + 1 + i - 1]
    BY <2>2, SubSeqProperties DEF n
  <2>4. n - (k + 1) + 1 = n - k /\ (~(k + 1 <= n) => n - k = 0)
    BY <1>1
  <2>5. \A i \in 1..(n - k) : k + 1 + i - 1 = k + i
    BY <1>1
  <2> HIDE DEF last
  <2> QED
    BY <2>3, <2>4, <2>5
<1> HIDE DEF first, last
<1>4. /\ first \o last \in Seq(S) /\ Len(first \o last) = Len(first) + Len(last)
      /\ \A i \in 1..(Len(first) + Len(last)) :
           (first \o last)[i] = IF i <= Len(first) THEN first[i] ELSE last[i - Len(first)]
  BY <1>2, <1>3, ConcatProperties
<1>5. R!RemoveAt(c, k) = first \o last
  BY DEF R!RemoveAt, first, last
<1>6. Len(first) + Len(last) = n - 1
  BY <1>1, <1>2, <1>3
<1>7. ASSUME NEW i \in 1..(n - 1)
      PROVE  /\ i < k => (first \o last)[i] = c[i]
             /\ k <= i => (first \o last)[i] = c[i + 1]
  <2>1. CASE i < k
    <3>1. i <= Len(first) /\ i \in 1..(k - 1)
      BY <1>1, <1>2, <2>1
    <3>2. (first \o last)[i] = first[i]
      BY <1>4, <1>6, <3>1
    <3> QED
      BY <1>1, <1>2, <2>1, <3>1, <3>2
  <2>2. CASE k <= i
    <3>1. ~(i <= Len(first)) /\ i - Len(first) \in 1..(n - k) /\ k + (i - Len(first)) = i + 1
      BY <1>1, <1>2, <2>2
    <3>2. (first \o last)[i] = last[i - Len(first)]
      BY <1>4, <1>6, <3>1
    <3>3. last[i - Len(first)] = c[i + 1]
      BY <1>3, <3>1
    <3> QED
      BY <1>1, <2>2, <3>2, <3>3
  <2> QED
    BY <1>1, <2>1, <2>2
<1> QED
  BY <1>4, <1>5, <1>6, <1>7 DEF n

\* An entry is taken out of the cache: the others stay, under other messages.
LEMMA EntryTaken ==
  ASSUME NEW c, CacheOk(c), NEW k \in DOMAIN c
  PROVE  LET rest == R!RemoveAt(c, k)
         IN  /\ rest \in Seq(EntrySet) /\ Len(rest) = Len(c) - 1 /\ OnePerUid(rest)
             /\ \A e \in Elems(rest) : e \in Elems(c) /\ e.uid # c[k].uid
<1> DEFINE rest == R!RemoveAt(c, k)
           n == Len(c)
           place(i) == IF i < k THEN i ELSE i + 1
<1>1. c \in Seq(EntrySet) /\ n \in Nat /\ k \in 1..n /\ DOMAIN c = 1..n /\ OnePerUid(c)
  BY SequenceFacts DEF CacheOk
<1>2. /\ rest \in Seq(EntrySet) /\ Len(rest) = n - 1
      /\ \A i \in 1..(n - 1) :
           /\ i < k => rest[i] = c[i]
           /\ k <= i => rest[i] = c[i + 1]
  BY <1>1, RestOf
<1>3. DOMAIN rest = 1..(n - 1)
  BY <1>2, SequenceFacts
<1> HIDE DEF rest, n
<1>4. \A i \in DOMAIN rest : place(i) \in DOMAIN c /\ place(i) # k /\ rest[i] = c[place(i)]
  <2> SUFFICES ASSUME NEW i \in DOMAIN rest
               PROVE  place(i) \in DOMAIN c /\ place(i) # k /\ rest[i] = c[place(i)]
    OBVIOUS
  <2>1. CASE i < k
    BY <1>1, <1>2, <1>3, <2>1
  <2>2. CASE k <= i
    BY <1>1, <1>2, <1>3, <2>2
  <2> QED
    BY <1>1, <1>3, <2>1, <2>2
<1>5. \A i, j \in DOMAIN rest : place(i) = place(j) => i = j
  BY <1>1, <1>3
<1> HIDE DEF place
<1>6. OnePerUid(rest)
  BY <1>1, <1>4, <1>5 DEF OnePerUid
<1>7. \A e \in Elems(rest) : e \in Elems(c) /\ e.uid # c[k].uid
  <2> SUFFICES ASSUME NEW i \in DOMAIN rest PROVE rest[i] \in Elems(c) /\ rest[i].uid # c[k].uid
    BY DEF Elems
  <2> QED
    BY <1>1, <1>4 DEF Elems, OnePerUid
<1>8. rest \in Seq(EntrySet) /\ Len(rest) = Len(c) - 1
  BY <1>2 DEF n
<1> QED
  BY <1>6, <1>7, <1>8 DEF rest

LEMMA WithoutFacts ==
  ASSUME NEW c, CacheOk(c), NEW u, CacheSize \in Nat
  PROVE  /\ CacheOk(R!Without(c, u))
         /\ \A e \in Elems(R!Without(c, u)) : e \in Elems(c) /\ e.uid # u
<1> DEFINE k == R!At(c, u)
<1>1. c \in Seq(EntrySet) /\ Len(c) \in Nat /\ Len(c) <= CacheSize /\ DOMAIN c = 1..Len(c)
  BY SequenceFacts DEF CacheOk
<1>2. CASE R!Entry(c, u) = {}
  <2>1. R!Without(c, u) = c
    BY <1>2 DEF R!Without
  <2>2. \A e \in Elems(c) : e.uid # u
    BY <1>2 DEF R!Entry, Elems
  <2> QED
    BY <2>1, <2>2
<1>3. CASE R!Entry(c, u) # {}
  <2>1. k \in DOMAIN c /\ c[k].uid = u
    BY <1>3 DEF R!Entry, R!At
  <2>2. R!Without(c, u) = R!RemoveAt(c, k)
    BY <1>3 DEF R!Without
  <2> HIDE DEF k
  <2> DEFINE rest == R!RemoveAt(c, k)
  <2>3. /\ rest \in Seq(EntrySet) /\ Len(rest) = Len(c) - 1 /\ OnePerUid(rest)
        /\ \A e \in Elems(rest) : e \in Elems(c) /\ e.uid # c[k].uid
    BY <2>1, EntryTaken
  <2> HIDE DEF rest
  <2>4. Len(rest) <= CacheSize
    BY <1>1, <2>3
  <2> QED
    BY <2>1, <2>2, <2>3, <2>4 DEF CacheOk, rest
<1> QED
  BY <1>2, <1>3

\* An entry of a message that has none becomes the newest.
LEMMA EntryAdded ==
  ASSUME NEW c, CacheOk(c), NEW new \in EntrySet, \A e \in Elems(c) : e.uid # new.uid
  PROVE  LET all == Append(c, new)
         IN  /\ all \in Seq(EntrySet) /\ Len(all) = Len(c) + 1 /\ OnePerUid(all)
             /\ \A e \in Elems(all) : e = new \/ e \in Elems(c)
<1> DEFINE all == Append(c, new)
           n == Len(c)
<1>1. c \in Seq(EntrySet) /\ OnePerUid(c)
  BY DEF CacheOk
<1>2. /\ all \in Seq(EntrySet) /\ Len(all) = n + 1 /\ n \in Nat /\ DOMAIN c = 1..n
      /\ \A i \in 1..n : all[i] = c[i]
      /\ all[n + 1] = new
  <2>1. n \in Nat /\ DOMAIN c = 1..n
    BY <1>1, SequenceFacts, Zenon
  <2> QED
    BY <1>1, <2>1, AppendProperties
<1>3. DOMAIN all = 1..(n + 1)
  BY <1>2, SequenceFacts
<1> HIDE DEF all, n
<1>4. \A i \in DOMAIN all : \/ i \in DOMAIN c /\ all[i] = c[i] /\ c[i] \in Elems(c)
                            \/ i = n + 1 /\ all[i] = new
  <2> SUFFICES ASSUME NEW i \in DOMAIN all, i # n + 1
               PROVE  i \in DOMAIN c /\ all[i] = c[i] /\ c[i] \in Elems(c)
    BY <1>2
  <2>1. i \in 1..n
    BY <1>2, <1>3
  <2> QED
    BY <1>2, <2>1 DEF Elems
<1>5. OnePerUid(all)
  BY <1>1, <1>4 DEF OnePerUid
<1>6. \A e \in Elems(all) : e = new \/ e \in Elems(c)
  <2> SUFFICES ASSUME NEW i \in DOMAIN all PROVE all[i] = new \/ all[i] \in Elems(c)
    BY DEF Elems
  <2> QED
    BY <1>4
<1>7. all \in Seq(EntrySet) /\ Len(all) = Len(c) + 1
  BY <1>2 DEF n
<1> QED
  BY <1>5, <1>6, <1>7 DEF all

\* LruMap.set.
LEMMA SetFacts ==
  ASSUME NEW c, CacheOk(c), NEW u \in Opened, NEW d \in R!Detail, NEW p \in 0..MaxOpens,
         CacheSize \in Nat
  PROVE  /\ CacheOk(R!Set(c, u, d, p))
         /\ \A e \in Elems(R!Set(c, u, d, p)) :
              e = [uid |-> u, detail |-> d, page |-> p] \/ (e \in Elems(c) /\ e.uid # u)
<1> DEFINE new == [uid |-> u, detail |-> d, page |-> p]
           w == R!Without(c, u)
           all == Append(w, new)
<1>1. new \in EntrySet /\ new.uid = u
  BY DEF EntrySet
<1>2. CacheOk(w) /\ \A e \in Elems(w) : e \in Elems(c) /\ e.uid # u
  BY WithoutFacts
<1>3. R!Set(c, u, d, p) = IF Len(all) > CacheSize THEN Tail(all) ELSE all
  BY DEF R!Set
<1> HIDE DEF new, w
<1>4. /\ all \in Seq(EntrySet) /\ Len(all) = Len(w) + 1 /\ OnePerUid(all)
      /\ \A e \in Elems(all) : e = new \/ e \in Elems(w)
  BY <1>1, <1>2, EntryAdded
<1>5. Len(w) \in Nat /\ Len(w) <= CacheSize /\ DOMAIN all = 1..Len(all)
  BY <1>2, <1>4, SequenceFacts DEF CacheOk
<1> HIDE DEF all
<1>6. CASE ~(Len(all) > CacheSize)
  <2>1. Len(all) <= CacheSize
    BY <1>4, <1>5, <1>6
  <2> QED
    BY <1>2, <1>3, <1>4, <1>6, <2>1 DEF CacheOk, new
<1>7. CASE Len(all) > CacheSize
  <2> DEFINE rest == Tail(all)
  <2>1. all # <<>>
    BY <1>4, <1>5, EmptySeq
  <2>2. /\ rest \in Seq(EntrySet) /\ Len(rest) = Len(all) - 1
        /\ \A i \in 1..(Len(all) - 1) : rest[i] = all[i + 1]
    BY <1>4, <2>1, HeadTailProperties
  <2>3. DOMAIN rest = 1..(Len(all) - 1)
    BY <2>2, SequenceFacts
  <2> HIDE DEF rest
  <2>4. \A i \in DOMAIN rest : i + 1 \in DOMAIN all /\ rest[i] = all[i + 1]
    BY <1>4, <1>5, <2>2, <2>3
  <2>5. \A i, j \in DOMAIN rest : i + 1 = j + 1 => i = j
    BY <2>3
  <2>6. OnePerUid(rest)
    BY <1>4, <2>4, <2>5 DEF OnePerUid
  <2>7. \A e \in Elems(rest) : e \in Elems(all)
    BY <2>4 DEF Elems
  <2>8. Len(rest) <= CacheSize
    BY <1>4, <1>5, <2>2
  <2> QED
    BY <1>2, <1>3, <1>4, <1>7, <2>2, <2>6, <2>7, <2>8 DEF CacheOk, new, rest
<1> QED
  BY <1>6, <1>7

\* LruMap.get, for the page p.
LEMMA TouchedFacts ==
  ASSUME NEW c, CacheOk(c), NEW k \in DOMAIN c, NEW p \in 0..MaxOpens, CacheSize \in Nat
  PROVE  /\ CacheOk(R!Touched(c, k, p))
         /\ \A e \in Elems(R!Touched(c, k, p)) :
              e = [c[k] EXCEPT !.page = p] \/ (e \in Elems(c) /\ e.uid # c[k].uid)
<1> DEFINE rest == R!RemoveAt(c, k)
           new == [c[k] EXCEPT !.page = p]
           all == Append(rest, new)
<1>1. c[k] \in EntrySet /\ Len(c) \in Nat /\ Len(c) <= CacheSize
  BY SequenceFacts DEF CacheOk
<1>2. new \in EntrySet /\ new.uid = c[k].uid
  BY <1>1 DEF EntrySet
<1>3. R!Touched(c, k, p) = all
  BY DEF R!Touched
<1> HIDE DEF new
<1>4. /\ rest \in Seq(EntrySet) /\ Len(rest) = Len(c) - 1 /\ OnePerUid(rest)
      /\ \A e \in Elems(rest) : e \in Elems(c) /\ e.uid # c[k].uid
  BY EntryTaken
<1> HIDE DEF rest
<1>5. CacheOk(rest)
  BY <1>1, <1>4 DEF CacheOk
<1>6. /\ all \in Seq(EntrySet) /\ Len(all) = Len(rest) + 1 /\ OnePerUid(all)
      /\ \A e \in Elems(all) : e = new \/ e \in Elems(rest)
  BY <1>2, <1>4, <1>5, EntryAdded
<1> HIDE DEF all
<1>7. Len(all) <= CacheSize
  BY <1>1, <1>4, <1>6
<1> QED
  BY <1>3, <1>4, <1>6, <1>7 DEF CacheOk, new

\* The entry of u, if there is one.
LEMMA EntryOf ==
  ASSUME NEW c, CacheOk(c), NEW u, R!Entry(c, u) # {}
  PROVE  /\ R!At(c, u) \in DOMAIN c /\ c[R!At(c, u)].uid = u
         /\ c[R!At(c, u)] \in Elems(c) /\ c[R!At(c, u)] \in EntrySet
<1>1. R!At(c, u) \in R!Entry(c, u)
  BY DEF R!At
<1>2. R!At(c, u) \in DOMAIN c /\ c[R!At(c, u)].uid = u
  BY <1>1 DEF R!Entry
<1>3. c \in Seq(EntrySet) /\ DOMAIN c = 1..Len(c) /\ \A i \in 1..Len(c) : c[i] \in EntrySet
  BY SequenceFacts DEF CacheOk
<1> QED
  BY <1>2, <1>3 DEF Elems

LEMMA NoEntryOf ==
  ASSUME NEW c, NEW u, R!Entry(c, u) = {}
  PROVE  \A e \in Elems(c) : e.uid # u
BY DEF R!Entry, Elems

\* The entry of u, if there is one, is replaced by a copy with other flags.
LEMMA PatchedFacts ==
  ASSUME NEW c, CacheOk(c), NEW u \in Opened, NEW seen \in BOOLEAN, NEW flagged \in BOOLEAN,
         CacheSize \in Nat, MaxOpens \in Nat, R!Entry(c, u) # {}
  PROVE  /\ CacheOk(R!Patched(c, u, seen, flagged))
         /\ \A e \in Elems(R!Patched(c, u, seen, flagged)) :
              \/ e = [uid |-> u, page |-> 0,
                      detail |-> [c[R!At(c, u)].detail EXCEPT !.seen = seen, !.flagged = flagged]]
              \/ e \in Elems(c) /\ e.uid # u
<1> DEFINE d == [c[R!At(c, u)].detail EXCEPT !.seen = seen, !.flagged = flagged]
<1>1. c[R!At(c, u)] \in EntrySet
  BY EntryOf
<1>2. c[R!At(c, u)].detail \in R!Detail
  BY <1>1 DEF EntrySet
<1>3. d \in R!Detail
  BY <1>2 DEF R!Detail
<1>4. R!Patched(c, u, seen, flagged) = R!Set(c, u, d, 0)
  BY DEF R!Patched
<1> HIDE DEF d
<1>5. 0 \in 0..MaxOpens
  OBVIOUS
<1>6. /\ CacheOk(R!Set(c, u, d, 0))
      /\ \A e \in Elems(R!Set(c, u, d, 0)) :
           e = [uid |-> u, detail |-> d, page |-> 0] \/ (e \in Elems(c) /\ e.uid # u)
  BY <1>3, <1>5, SetFacts
<1>7. [uid |-> u, detail |-> d, page |-> 0] = [uid |-> u, page |-> 0, detail |-> d]
  OBVIOUS
<1> QED
  BY <1>4, <1>6, <1>7 DEF d

\* Both kinds of patches: of an entry x of u they keep the other flag, and no object.
SeenTold(ca, cb, u, b) ==
  /\ CacheOk(cb)
  /\ \A e \in Elems(cb) :
       \/ e \in Elems(ca) /\ e.uid # u
       \/ \E x \in Elems(ca) :
            /\ x \in EntrySet /\ x.uid = u /\ e.uid = u /\ e.page = 0 /\ e.detail.uid = x.detail.uid
            /\ e.detail.seen = b /\ e.detail.flagged = x.detail.flagged

LEMMA SeenPatchedFacts ==
  ASSUME NEW c, CacheOk(c), NEW u \in Opened, NEW seen \in BOOLEAN,
         CacheSize \in Nat, MaxOpens \in Nat
  PROVE  SeenTold(c, R!SeenPatched(c, u, seen), u, seen)
<1> DEFINE x == c[R!At(c, u)]
           d == [x.detail EXCEPT !.seen = seen, !.flagged = x.detail.flagged]
<1>1. CASE R!Entry(c, u) = {}
  <2>1. R!SeenPatched(c, u, seen) = c
    BY <1>1 DEF R!SeenPatched
  <2> QED
    BY <1>1, <2>1, NoEntryOf DEF SeenTold
<1>2. CASE R!Entry(c, u) # {}
  <2>1. x \in EntrySet /\ x \in Elems(c) /\ x.uid = u
    BY <1>2, EntryOf
  <2>2. R!SeenPatched(c, u, seen) = R!Patched(c, u, seen, x.detail.flagged)
    BY <1>2 DEF R!SeenPatched
  <2>3. x.detail \in R!Detail /\ x.detail.flagged \in BOOLEAN
    BY <2>1 DEF EntrySet, R!Detail
  <2>4. d.uid = x.detail.uid /\ d.seen = seen /\ d.flagged = x.detail.flagged
    BY <2>3 DEF R!Detail
  <2>5. /\ CacheOk(R!Patched(c, u, seen, x.detail.flagged))
        /\ \A e \in Elems(R!Patched(c, u, seen, x.detail.flagged)) :
             e = [uid |-> u, page |-> 0, detail |-> d] \/ (e \in Elems(c) /\ e.uid # u)
    BY <1>2, <2>3, PatchedFacts
  <2> HIDE DEF x, d
  <2>6. ASSUME NEW e \in Elems(R!SeenPatched(c, u, seen)), ~(e \in Elems(c) /\ e.uid # u)
        PROVE  /\ e.uid = u /\ e.page = 0 /\ e.detail.uid = x.detail.uid
               /\ e.detail.seen = seen /\ e.detail.flagged = x.detail.flagged
    <3>1. e = [uid |-> u, page |-> 0, detail |-> d]
      BY <2>2, <2>5, <2>6
    <3> QED
      BY <2>4, <3>1
  <2>7. CacheOk(R!SeenPatched(c, u, seen))
    BY <2>2, <2>5
  <2> QED
    BY <2>1, <2>6, <2>7 DEF SeenTold
<1> QED
  BY <1>1, <1>2

FlagTold(ca, cb, u, b) ==
  /\ CacheOk(cb)
  /\ \A e \in Elems(cb) :
       \/ e \in Elems(ca) /\ e.uid # u
       \/ \E x \in Elems(ca) :
            /\ x \in EntrySet /\ x.uid = u /\ e.uid = u /\ e.page = 0 /\ e.detail.uid = x.detail.uid
            /\ e.detail.flagged = b /\ e.detail.seen = x.detail.seen

LEMMA FlagPatchedFacts ==
  ASSUME NEW c, CacheOk(c), NEW u \in Opened, NEW flagged \in BOOLEAN,
         CacheSize \in Nat, MaxOpens \in Nat
  PROVE  FlagTold(c, R!FlagPatched(c, u, flagged), u, flagged)
<1> DEFINE x == c[R!At(c, u)]
           d == [x.detail EXCEPT !.seen = x.detail.seen, !.flagged = flagged]
<1>1. CASE R!Entry(c, u) = {}
  <2>1. R!FlagPatched(c, u, flagged) = c
    BY <1>1 DEF R!FlagPatched
  <2> QED
    BY <1>1, <2>1, NoEntryOf DEF FlagTold
<1>2. CASE R!Entry(c, u) # {}
  <2>1. x \in EntrySet /\ x \in Elems(c) /\ x.uid = u
    BY <1>2, EntryOf
  <2>2. R!FlagPatched(c, u, flagged) = R!Patched(c, u, x.detail.seen, flagged)
    BY <1>2 DEF R!FlagPatched
  <2>3. x.detail \in R!Detail /\ x.detail.seen \in BOOLEAN
    BY <2>1 DEF EntrySet, R!Detail
  <2>4. d.uid = x.detail.uid /\ d.flagged = flagged /\ d.seen = x.detail.seen
    BY <2>3 DEF R!Detail
  <2>5. /\ CacheOk(R!Patched(c, u, x.detail.seen, flagged))
        /\ \A e \in Elems(R!Patched(c, u, x.detail.seen, flagged)) :
             e = [uid |-> u, page |-> 0, detail |-> d] \/ (e \in Elems(c) /\ e.uid # u)
    BY <1>2, <2>3, PatchedFacts
  <2> HIDE DEF x, d
  <2>6. ASSUME NEW e \in Elems(R!FlagPatched(c, u, flagged)), ~(e \in Elems(c) /\ e.uid # u)
        PROVE  /\ e.uid = u /\ e.page = 0 /\ e.detail.uid = x.detail.uid
               /\ e.detail.flagged = flagged /\ e.detail.seen = x.detail.seen
    <3>1. e = [uid |-> u, page |-> 0, detail |-> d]
      BY <2>2, <2>5, <2>6
    <3> QED
      BY <2>4, <3>1
  <2>7. CacheOk(R!FlagPatched(c, u, flagged))
    BY <2>2, <2>5
  <2> QED
    BY <2>1, <2>6, <2>7 DEF FlagTold
<1> QED
  BY <1>1, <1>2

\* A write to the detail of page p writes the entry that is the same object.
LEMMA WrittenFacts ==
  ASSUME NEW c, CacheOk(c), NEW p, NEW d \in R!Detail
  PROVE  /\ CacheOk(R!Written(c, p, d))
         /\ \A e \in Elems(R!Written(c, p, d)) :
              \E x \in Elems(c) : /\ x \in EntrySet
                                  /\ e = IF x.page = p THEN [x EXCEPT !.detail = d] ELSE x
<1> DEFINE w == R!Written(c, p, d)
           n == Len(c)
<1>1. /\ c \in Seq(EntrySet) /\ n \in Nat /\ n <= CacheSize /\ DOMAIN c = 1..n /\ OnePerUid(c)
      /\ \A i \in 1..n : c[i] \in EntrySet
  BY SequenceFacts DEF CacheOk
<1> HIDE DEF n
<1>2. w = [i \in 1..n |-> IF c[i].page = p THEN [c[i] EXCEPT !.detail = d] ELSE c[i]]
  BY <1>1 DEF R!Written
<1> HIDE DEF w
<1>3. \A i \in 1..n : w[i] \in EntrySet /\ w[i].uid = c[i].uid
  BY <1>1, <1>2 DEF EntrySet
<1>4. w \in [1..n -> EntrySet]
  BY <1>2, <1>3
<1>5. w \in Seq(EntrySet)
  BY <1>1, <1>4, SeqDef
<1>6. Len(w) \in Nat /\ DOMAIN w = 1..Len(w) /\ DOMAIN w = 1..n
  <2>1. DOMAIN w = 1..n
    BY <1>4
  <2>2. Len(w) \in Nat /\ DOMAIN w = 1..Len(w)
    BY <1>5, SequenceFacts, Zenon
  <2> QED
    BY <2>1, <2>2
<1>7. Len(w) = n
  BY <1>1, <1>6, SameRange
<1>8. OnePerUid(w)
  BY <1>1, <1>3, <1>6 DEF OnePerUid
<1>9. \A e \in Elems(w) :
        \E x \in Elems(c) : x \in EntrySet /\ e = IF x.page = p THEN [x EXCEPT !.detail = d] ELSE x
  <2> SUFFICES ASSUME NEW i \in 1..n
               PROVE  \E x \in Elems(c) :
                        x \in EntrySet /\ w[i] = IF x.page = p THEN [x EXCEPT !.detail = d] ELSE x
    BY <1>6 DEF Elems
  <2>1. c[i] \in Elems(c) /\ c[i] \in EntrySet
    BY <1>1 DEF Elems
  <2>2. w[i] = IF c[i].page = p THEN [c[i] EXCEPT !.detail = d] ELSE c[i]
    BY <1>2
  <2> QED
    BY <2>1, <2>2
<1>10. CacheOk(w)
  BY <1>1, <1>5, <1>7, <1>8 DEF CacheOk
<1> QED
  BY <1>9, <1>10 DEF w

----------------------------------------------------------------------------
(* The invariant.                                                          *)

\* The message of a page stays the same, and what it shows is of it.
PagesOk(ps) ==
  /\ ps \in Seq(R!Page) /\ Len(ps) <= MaxOpens
  /\ \A p \in DOMAIN ps : ps[p].shown # None => ps[p].shown.uid = ps[p].uid

\* An entry is of its message, and is what the page shows whose object it is.
EntryOk(ps, e) ==
  /\ e.detail.uid = e.uid
  /\ e.page # 0 =>
       /\ e.page \in DOMAIN ps /\ ps[e.page].uid = e.uid
       /\ ps[e.page].shown # None => ps[e.page].shown = e.detail

EntriesOk(c, ps) == CacheOk(c) /\ \A e \in Elems(c) : EntryOk(ps, e)

CallSet == [page : 1..MaxOpens, kind : R!CallKinds, value : BOOLEAN \cup {None},
            served : BOOLEAN, got : R!Detail \cup {None}]

CallOk(ps, c) ==
  /\ c \in CallSet /\ c.page \in DOMAIN ps
  /\ c.kind = "star" => c.value \in BOOLEAN
  /\ c.kind = "load" /\ c.served => c.got \in R!Detail /\ c.got.uid = ps[c.page].uid

CallsOk(cs, ps) == \A c \in cs : CallOk(ps, c)

\* A request that took effect: nothing has changed since.
StillTrue(m, c) ==
  c.served =>
    /\ c.kind = "mark" => m.seen = TRUE
    /\ c.kind = "unread" => m.seen = FALSE
    /\ c.kind = "star" => m.flagged = c.value
    /\ c.kind = "load" => m.gone = FALSE /\ c.got.seen = m.seen /\ c.got.flagged = m.flagged

\* The difference between an entry and the server is the request in flight.
Agrees(m, ps, cs, e) ==
  /\ m.gone = FALSE \/ \E c \in cs : c.served /\ c.kind = "remove" /\ ps[c.page].uid = e.uid
  /\ \/ e.detail.seen = m.seen
     \/ \E c \in cs : c.served /\ c.kind \in {"mark", "unread"} /\ ps[c.page].uid = e.uid
  /\ e.detail.flagged = m.flagged \/ \E c \in cs : c.kind = "star" /\ ps[c.page].uid = e.uid

Coherent(sv, ca, ps, cs) ==
  /\ \A c, d \in cs : c = d
  /\ \A c \in cs : StillTrue(sv[ps[c.page].uid], c)
  /\ \A e \in Elems(ca) : Agrees(sv[e.uid], ps, cs, e)

Flags == [seen : BOOLEAN, flagged : BOOLEAN, gone : BOOLEAN]

\* What is kept of the cache, the pages and the requests.
Kept(sv, ca, ps, cs, al) ==
  /\ PagesOk(ps) /\ EntriesOk(ca, ps) /\ CallsOk(cs, ps)
  /\ al => Coherent(sv, ca, ps, cs)

ReaderInv ==
  /\ mailbox \in [Opened -> Flags] /\ current \in 0..Len(pages) /\ delays \in BOOLEAN
  /\ Kept(mailbox, cache, pages, calls, alone)

LEMMA ReaderKept ==
  ASSUME mailbox' \in [Opened -> Flags], current' \in 0..Len(pages'), delays' \in BOOLEAN,
         Kept(mailbox', cache', pages', calls', alone')
  PROVE  ReaderInv'
BY DEF ReaderInv, Kept, PagesOk, EntriesOk, EntryOk, CallsOk, CallOk, CallSet, CacheOk, EntrySet, Elems, OnePerUid,
       Coherent, StillTrue, Agrees, Flags, R!Page, R!Detail, R!CallKinds

\* The pages qs have those of ps among them, with what they show.
SamePages(ps, qs) ==
  /\ DOMAIN ps \subseteq DOMAIN qs
  /\ \A p \in DOMAIN ps : qs[p].uid = ps[p].uid /\ qs[p].shown = ps[p].shown

\* ... or at least their messages.
SameUids(ps, qs) == DOMAIN ps \subseteq DOMAIN qs /\ \A p \in DOMAIN ps : qs[p].uid = ps[p].uid

LEMMA SameEntries ==
  ASSUME NEW ps, NEW qs, NEW ca, EntriesOk(ca, ps), SamePages(ps, qs)
  PROVE  EntriesOk(ca, qs)
BY DEF EntriesOk, EntryOk, SamePages

LEMMA SameCalls ==
  ASSUME NEW ps, NEW qs, NEW cs, CallsOk(cs, ps), SameUids(ps, qs)
  PROVE  CallsOk(cs, qs)
BY DEF CallsOk, CallOk, SameUids

LEMMA SameCoherent ==
  ASSUME NEW sv, NEW ca, NEW ps, NEW qs, NEW cs, CallsOk(cs, ps), SameUids(ps, qs), Coherent(sv, ca, ps, cs)
  PROVE  Coherent(sv, ca, qs, cs)
<1>1. \A c \in cs : qs[c.page].uid = ps[c.page].uid
  BY DEF CallsOk, CallOk, SameUids
<1>2. \A c \in cs : StillTrue(sv[qs[c.page].uid], c)
  BY <1>1 DEF Coherent
<1>3. ASSUME NEW e \in Elems(ca) PROVE Agrees(sv[e.uid], qs, cs, e)
  <2>1. Agrees(sv[e.uid], ps, cs, e)
    BY DEF Coherent
  <2> QED
    BY <1>1, <2>1 DEF Agrees
<1> QED
  BY <1>2, <1>3 DEF Coherent

\* One page is written.
LEMMA PageWritten ==
  ASSUME NEW ps, PagesOk(ps), NEW p \in DOMAIN ps, NEW pg \in R!Page, pg.uid = ps[p].uid,
         pg.shown # None => pg.shown.uid = pg.uid
  PROVE  LET qs == [ps EXCEPT ![p] = pg]
         IN  /\ PagesOk(qs) /\ DOMAIN qs = DOMAIN ps /\ Len(qs) = Len(ps) /\ SameUids(ps, qs)
             /\ qs[p] = pg /\ \A q \in DOMAIN ps : q # p => qs[q] = ps[q]
<1> DEFINE qs == [ps EXCEPT ![p] = pg]
<1>1. ps \in Seq(R!Page) /\ p \in 1..Len(ps) /\ Len(ps) <= MaxOpens /\ DOMAIN ps = 1..Len(ps)
  BY SequenceFacts DEF PagesOk
<1>2. /\ qs \in Seq(R!Page) /\ Len(qs) = Len(ps)
      /\ \A i \in 1..Len(ps) : qs[i] = IF i = p THEN pg ELSE ps[i]
  BY <1>1, ExceptSeq
<1>3. DOMAIN qs = 1..Len(ps)
  BY <1>2, SequenceFacts
<1> HIDE DEF qs
<1>4. PagesOk(qs)
  BY <1>1, <1>2, <1>3 DEF PagesOk
<1>5. SameUids(ps, qs)
  BY <1>1, <1>2, <1>3 DEF SameUids
<1>6. qs[p] = pg /\ \A q \in DOMAIN ps : q # p => qs[q] = ps[q]
  BY <1>1, <1>2
<1>7. DOMAIN qs = DOMAIN ps /\ Len(qs) = Len(ps)
  BY <1>1, <1>2, <1>3
<1> QED
  BY <1>4, <1>5, <1>6, <1>7 DEF qs

\* ... without a change of what it shows.
LEMMA PageKept ==
  ASSUME NEW ps, PagesOk(ps), NEW p \in DOMAIN ps, NEW pg \in R!Page,
         pg.uid = ps[p].uid, pg.shown = ps[p].shown
  PROVE  LET qs == [ps EXCEPT ![p] = pg]
         IN  PagesOk(qs) /\ DOMAIN qs = DOMAIN ps /\ Len(qs) = Len(ps) /\ SamePages(ps, qs)
<1> DEFINE qs == [ps EXCEPT ![p] = pg]
<1>1. pg.shown # None => pg.shown.uid = pg.uid
  BY DEF PagesOk
<1>2. /\ PagesOk(qs) /\ DOMAIN qs = DOMAIN ps /\ Len(qs) = Len(ps)
      /\ qs[p] = pg /\ \A q \in DOMAIN ps : q # p => qs[q] = ps[q]
  BY <1>1, PageWritten
<1> HIDE DEF qs
<1>3. SamePages(ps, qs)
  BY <1>2 DEF SamePages
<1> QED
  BY <1>2, <1>3 DEF qs

LEMMA SamePagesUids ==
  ASSUME NEW ps, NEW qs, SamePages(ps, qs)
  PROVE  SameUids(ps, qs)
BY DEF SamePages, SameUids

LEMMA PageType ==
  ASSUME NEW ps, PagesOk(ps), NEW p \in DOMAIN ps
  PROVE  ps[p] \in R!Page /\ p \in 1..Len(ps) /\ Len(ps) \in Nat /\ Len(ps) <= MaxOpens
BY SequenceFacts DEF PagesOk

\* Unmounting.
LEMMA UnmountedFacts ==
  ASSUME NEW ps, PagesOk(ps), current \in 0..Len(ps)
  PROVE  /\ PagesOk(R!Unmounted(ps)) /\ DOMAIN R!Unmounted(ps) = DOMAIN ps
         /\ Len(R!Unmounted(ps)) = Len(ps) /\ SamePages(ps, R!Unmounted(ps))
<1>1. CASE current = 0
  <2>1. R!Unmounted(ps) = ps
    BY <1>1 DEF R!Unmounted
  <2> QED
    BY <2>1 DEF SamePages
<1>2. CASE current # 0
  <2> DEFINE pg == [ps[current] EXCEPT !.timer = FALSE]
  <2>1. current \in DOMAIN ps
    BY <1>2, SequenceFacts DEF PagesOk
  <2>2. ps[current] \in R!Page
    BY <2>1, PageType
  <2>3. pg \in R!Page /\ pg.uid = ps[current].uid /\ pg.shown = ps[current].shown
    BY <2>2 DEF R!Page
  <2>4. R!Unmounted(ps) = [ps EXCEPT ![current] = pg]
    BY <1>2 DEF R!Unmounted
  <2> HIDE DEF pg
  <2> DEFINE qs == [ps EXCEPT ![current] = pg]
  <2>5. PagesOk(qs) /\ DOMAIN qs = DOMAIN ps /\ Len(qs) = Len(ps) /\ SamePages(ps, qs)
    BY <2>1, <2>3, PageKept
  <2> QED
    BY <2>4, <2>5
<1> QED
  BY <1>1, <1>2

----------------------------------------------------------------------------
(* Requests and entries.                                                   *)

EntryTrue(m, e) == m.gone = FALSE /\ e.detail.seen = m.seen /\ e.detail.flagged = m.flagged

LEMMA QuietCoherent ==
  ASSUME NEW sv, NEW ca, NEW ps, \A e \in Elems(ca) : EntryTrue(sv[e.uid], e)
  PROVE  Coherent(sv, ca, ps, {})
BY DEF Coherent, Agrees, EntryTrue

\* A request that is just sent changes nothing.
LEMMA SentCoherent ==
  ASSUME NEW sv, NEW ca, NEW ps, NEW p, NEW kind, NEW value, Coherent(sv, ca, ps, {})
  PROVE  Coherent(sv, ca, ps, {R!Call(p, kind, value)})
<1> DEFINE c == R!Call(p, kind, value)
<1>1. c.served = FALSE
  BY DEF R!Call
<1> HIDE DEF c
<1>2. StillTrue(sv[ps[c.page].uid], c)
  BY <1>1 DEF StillTrue
<1>3. \A e \in Elems(ca) : Agrees(sv[e.uid], ps, {c}, e)
  BY DEF Coherent, Agrees
<1>4. Coherent(sv, ca, ps, {c})
  BY <1>2, <1>3 DEF Coherent
<1> QED
  BY <1>4 DEF c

LEMMA SentCalls ==
  ASSUME NEW cs, NEW ps, PagesOk(ps), CallsOk(cs, ps), NEW p \in DOMAIN ps, NEW kind \in R!CallKinds,
         NEW value \in BOOLEAN \cup {None}, kind = "star" => value \in BOOLEAN, MaxOpens \in Nat
  PROVE  CallsOk(cs \cup {R!Call(p, kind, value)}, ps)
<1> DEFINE c == R!Call(p, kind, value)
<1>1. p \in 1..MaxOpens
  BY PageType
<1>2. c \in CallSet /\ c.page = p /\ c.kind = kind /\ c.value = value /\ c.served = FALSE
  BY <1>1 DEF R!Call, CallSet
<1> HIDE DEF c
<1>3. CallOk(ps, c)
  BY <1>2 DEF CallOk
<1> QED
  BY <1>3 DEF CallsOk, c

LEMMA SentKept ==
  ASSUME NEW sv, NEW ca, NEW ps, NEW cs, NEW al, NEW bl, Kept(sv, ca, ps, cs, al), bl = (al /\ cs = {}),
         NEW p \in DOMAIN ps, NEW kind \in R!CallKinds, kind # "star", MaxOpens \in Nat
  PROVE  Kept(sv, ca, ps, cs \cup {R!Call(p, kind, None)}, bl)
<1>1. CallsOk(cs \cup {R!Call(p, kind, None)}, ps)
  BY SentCalls DEF Kept
<1>2. ASSUME bl PROVE Coherent(sv, ca, ps, cs \cup {R!Call(p, kind, None)})
  <2>1. Coherent(sv, ca, ps, {}) /\ cs = {}
    BY <1>2 DEF Kept
  <2>2. Coherent(sv, ca, ps, {R!Call(p, kind, None)})
    BY <2>1, SentCoherent
  <2>3. cs \cup {R!Call(p, kind, None)} = {R!Call(p, kind, None)}
    BY <2>1
  <2> QED
    BY <2>2, <2>3
<1> QED
  BY <1>1, <1>2 DEF Kept

\* The entries of other messages than that of the request in flight.
LEMMA OtherEntry ==
  ASSUME NEW sv, NEW ca, NEW ps, NEW cs, Coherent(sv, ca, ps, cs), NEW c \in cs,
         NEW e \in Elems(ca), e.uid # ps[c.page].uid
  PROVE  EntryTrue(sv[e.uid], e)
<1>1. \A d \in cs : d = c
  BY DEF Coherent
<1>2. Agrees(sv[e.uid], ps, cs, e)
  BY DEF Coherent
<1> QED
  BY <1>1, <1>2 DEF Agrees, EntryTrue

\* ... and what the request does not touch.
LEMMA OwnEntry ==
  ASSUME NEW sv, NEW ca, NEW ps, NEW cs, Coherent(sv, ca, ps, cs), NEW c \in cs, NEW e \in Elems(ca)
  PROVE  /\ c.kind # "remove" => sv[e.uid].gone = FALSE
         /\ c.kind \notin {"mark", "unread"} => e.detail.seen = sv[e.uid].seen
         /\ c.kind # "star" => e.detail.flagged = sv[e.uid].flagged
<1>1. \A d \in cs : d = c
  BY DEF Coherent
<1>2. Agrees(sv[e.uid], ps, cs, e)
  BY DEF Coherent
<1> QED
  BY <1>1, <1>2 DEF Agrees

\* The last answer comes: the entries are true if they are right.
LEMMA AnsweredCoherent ==
  ASSUME NEW sv, NEW ca, NEW cb, NEW ps, NEW qs, NEW cs, Coherent(sv, ca, ps, cs), NEW c \in cs,
         \A e \in Elems(cb) : EntryTrue(sv[e.uid], e)
  PROVE  Coherent(sv, cb, qs, cs \ {c})
<1>1. cs \ {c} = {}
  BY DEF Coherent
<1> QED
  BY <1>1, QuietCoherent

LEMMA FewerCalls ==
  ASSUME NEW cs, NEW ps, CallsOk(cs, ps), NEW c
  PROVE  CallsOk(cs \ {c}, ps)
BY DEF CallsOk

\* Entries with the details of others.
LEMMA SameDetails ==
  ASSUME NEW sv, NEW ca, NEW cb, NEW ps, NEW cs, Coherent(sv, ca, ps, cs),
         \A e \in Elems(cb) : \E x \in Elems(ca) : e.uid = x.uid /\ e.detail = x.detail
  PROVE  Coherent(sv, cb, ps, cs)
<1> SUFFICES ASSUME NEW e \in Elems(cb) PROVE Agrees(sv[e.uid], ps, cs, e)
  BY DEF Coherent
<1>1. PICK x \in Elems(ca) : e.uid = x.uid /\ e.detail = x.detail
  OBVIOUS
<1>2. Agrees(sv[x.uid], ps, cs, x)
  BY DEF Coherent
<1> QED
  BY <1>1, <1>2 DEF Agrees

\* A page is written that does not show the object of the entry.
LEMMA EntryElsewhere ==
  ASSUME NEW ps, NEW qs, NEW p, NEW e, EntryOk(ps, e), e.page # p, DOMAIN qs = DOMAIN ps,
         \A q \in DOMAIN ps : q # p => qs[q] = ps[q]
  PROVE  EntryOk(qs, e)
BY DEF EntryOk

\* ... because it is of another message.
LEMMA OtherElsewhere ==
  ASSUME NEW ps, NEW qs, NEW p \in DOMAIN ps, NEW e, EntryOk(ps, e), e.uid # ps[p].uid,
         DOMAIN qs = DOMAIN ps, \A q \in DOMAIN ps : q # p => qs[q] = ps[q], p # 0
  PROVE  EntryOk(qs, e)
<1>1. e.page # p
  BY DEF EntryOk
<1> QED
  BY <1>1, EntryElsewhere

----------------------------------------------------------------------------
(* load().                                                                 *)

\* The detail is asked for.
LEMMA LoadMisses ==
  ASSUME NEW sv, NEW ca, NEW ps, NEW cs, NEW al, Kept(sv, ca, ps, cs, al), NEW p \in DOMAIN ps,
         MaxOpens \in Nat
  PROVE  LET qs == [ps EXCEPT ![p] = [ps[p] EXCEPT !.timer = FALSE, !.failed = FALSE, !.loading = TRUE]]
         IN  /\ Kept(sv, ca, qs, cs \cup {R!Call(p, "load", None)}, al /\ cs = {})
             /\ Len(qs) = Len(ps)
<1> DEFINE pg == [ps[p] EXCEPT !.timer = FALSE, !.failed = FALSE, !.loading = TRUE]
           qs == [ps EXCEPT ![p] = pg]
           ds == cs \cup {R!Call(p, "load", None)}
<1>1. PagesOk(ps) /\ EntriesOk(ca, ps) /\ CallsOk(cs, ps)
  BY DEF Kept
<1>2. ps[p] \in R!Page
  BY <1>1, PageType
<1>3. pg \in R!Page /\ pg.uid = ps[p].uid /\ pg.shown = ps[p].shown
  BY <1>2 DEF R!Page
<1> HIDE DEF pg
<1>4. PagesOk(qs) /\ DOMAIN qs = DOMAIN ps /\ Len(qs) = Len(ps) /\ SamePages(ps, qs)
  BY <1>1, <1>3, PageKept
<1> HIDE DEF qs
<1>5. SameUids(ps, qs)
  BY <1>4, SamePagesUids
<1>6. EntriesOk(ca, qs)
  BY <1>1, <1>4, SameEntries
<1>7. CallsOk(cs, qs)
  BY <1>1, <1>5, SameCalls
<1>8. CallsOk(ds, qs)
  BY <1>4, <1>7, SentCalls DEF R!CallKinds
<1>9. ASSUME al, cs = {} PROVE Coherent(sv, ca, qs, ds)
  <2>1. Coherent(sv, ca, ps, cs)
    BY <1>9 DEF Kept
  <2>2. Coherent(sv, ca, qs, cs)
    BY <1>1, <1>5, <2>1, SameCoherent
  <2>3. Coherent(sv, ca, qs, {R!Call(p, "load", None)})
    BY <1>9, <2>2, SentCoherent
  <2>4. ds = {R!Call(p, "load", None)}
    BY <1>9
  <2> QED
    BY <2>3, <2>4
<1> HIDE DEF ds
<1>10. Kept(sv, ca, qs, ds, al /\ cs = {})
  BY <1>4, <1>6, <1>8, <1>9 DEF Kept
<1> QED
  BY <1>4, <1>10 DEF qs, pg, ds

\* The detail is in the cache.
LEMMA LoadHits ==
  ASSUME NEW sv, NEW ca, NEW ps, NEW cs, NEW al, Kept(sv, ca, ps, cs, al), NEW p \in DOMAIN ps,
         R!Entry(ca, ps[p].uid) # {}, MaxOpens \in Nat, CacheSize \in Nat,
         NEW pg \in R!Page, pg.uid = ps[p].uid, pg.shown = ca[R!At(ca, ps[p].uid)].detail
  PROVE  LET qs == [ps EXCEPT ![p] = pg]
         IN  /\ Kept(sv, R!Touched(ca, R!At(ca, ps[p].uid), p), qs, cs, al)
             /\ Len(qs) = Len(ps)
<1> DEFINE u == ps[p].uid
           k == R!At(ca, u)
           x == ca[k]
           qs == [ps EXCEPT ![p] = pg]
           cb == R!Touched(ca, k, p)
<1>1. PagesOk(ps) /\ EntriesOk(ca, ps) /\ CallsOk(cs, ps) /\ CacheOk(ca)
  BY DEF Kept, EntriesOk
<1>2. ps[p] \in R!Page /\ p \in 1..MaxOpens /\ p # 0 /\ p \in 0..MaxOpens
  BY <1>1, PageType
<1>3. k \in DOMAIN ca /\ x.uid = u /\ x \in Elems(ca) /\ x \in EntrySet
  BY <1>1, EntryOf
<1>4. x.detail \in R!Detail /\ x.detail.uid = u /\ pg.shown = x.detail
  BY <1>1, <1>3 DEF EntriesOk, EntryOk, EntrySet
<1>5. pg.uid = u /\ (pg.shown # None => pg.shown.uid = pg.uid)
  BY <1>4
<1>6. /\ PagesOk(qs) /\ DOMAIN qs = DOMAIN ps /\ Len(qs) = Len(ps) /\ SameUids(ps, qs)
      /\ qs[p] = pg /\ \A q \in DOMAIN ps : q # p => qs[q] = ps[q]
  BY <1>1, <1>5, PageWritten
<1> HIDE DEF qs
<1>7. /\ CacheOk(cb)
      /\ \A e \in Elems(cb) : e = [x EXCEPT !.page = p] \/ (e \in Elems(ca) /\ e.uid # x.uid)
  BY <1>1, <1>2, <1>3, TouchedFacts
<1> HIDE DEF cb
<1>8. ASSUME NEW e \in Elems(cb) PROVE EntryOk(qs, e)
  <2>1. CASE e = [x EXCEPT !.page = p]
    <3>1. e.uid = u /\ e.detail = x.detail /\ e.page = p
      BY <1>3, <2>1 DEF EntrySet
    <3> QED
      BY <1>4, <1>5, <1>6, <3>1 DEF EntryOk
  <2>2. CASE e \in Elems(ca) /\ e.uid # x.uid
    <3>1. EntryOk(ps, e) /\ e.uid # ps[p].uid
      BY <1>1, <1>3, <2>2 DEF EntriesOk
    <3> QED
      BY <1>2, <1>6, <3>1, OtherElsewhere
  <2> QED
    BY <1>7, <2>1, <2>2
<1>9. EntriesOk(cb, qs)
  BY <1>7, <1>8 DEF EntriesOk
<1>10. CallsOk(cs, qs)
  BY <1>1, <1>6, SameCalls
<1>11. ASSUME al PROVE Coherent(sv, cb, qs, cs)
  <2>1. Coherent(sv, ca, ps, cs)
    BY <1>11 DEF Kept
  <2>2. \A e \in Elems(cb) : \E y \in Elems(ca) : e.uid = y.uid /\ e.detail = y.detail
    <3>1. [x EXCEPT !.page = p].uid = x.uid /\ [x EXCEPT !.page = p].detail = x.detail
      BY <1>3 DEF EntrySet
    <3> QED
      BY <1>3, <1>7, <3>1
  <2>3. Coherent(sv, cb, ps, cs)
    BY <2>1, <2>2, SameDetails
  <2> QED
    BY <1>1, <1>6, <2>3, SameCoherent
<1>12. Kept(sv, cb, qs, cs, al)
  BY <1>6, <1>9, <1>10, <1>11 DEF Kept
<1> QED
  BY <1>6, <1>12 DEF qs, cb

LEMMA LoadKept ==
  ASSUME NEW ps, Kept(mailbox, cache, ps, calls, alone), NEW p \in DOMAIN ps, R!Load(ps, p),
         R!SizesAssumption
  PROVE  Kept(mailbox, cache', pages', calls', alone') /\ Len(pages') = Len(ps)
<1> DEFINE u == ps[p].uid
<1>1. CacheSize \in Nat /\ MaxOpens \in Nat
  BY DEF R!SizesAssumption
<1>2. ps[p] \in R!Page
  BY PageType DEF Kept
<1>3. CASE R!Entry(cache, u) = {}
  <2> DEFINE qs == [ps EXCEPT ![p] = [ps[p] EXCEPT !.timer = FALSE, !.failed = FALSE, !.loading = TRUE]]
             ds == calls \cup {R!Call(p, "load", None)}
  <2>1. pages' = qs /\ calls' = ds /\ alone' = (alone /\ calls = {}) /\ cache' = cache
    BY <1>3 DEF R!Load, R!Send
  <2>2. Kept(mailbox, cache, qs, ds, alone /\ calls = {}) /\ Len(qs) = Len(ps)
    BY <1>1, LoadMisses
  <2> HIDE DEF qs, ds
  <2>3. Kept(mailbox, cache, pages', calls', alone /\ calls = {}) /\ Len(pages') = Len(ps)
    BY <2>1, <2>2
  <2> QED
    BY <2>1, <2>3 DEF Kept
<1>4. CASE R!Entry(cache, u) # {}
  <2> DEFINE k == R!At(cache, u)
             pg == [ps[p] EXCEPT !.timer = FALSE, !.failed = FALSE,
                                   !.shown = cache[k].detail, !.loading = FALSE]
             qs == [ps EXCEPT ![p] = pg]
             cb == R!Touched(cache, k, p)
  <2>1. pages' = qs /\ cache' = cb /\ calls' = calls /\ alone' = alone
    BY <1>4 DEF R!Load
  <2>2. cache[k].detail \in R!Detail
    BY <1>4, EntryOf DEF Kept, EntriesOk, EntrySet
  <2>3. pg \in R!Page /\ pg.uid = u /\ pg.shown = cache[k].detail
    BY <1>2, <2>2 DEF R!Page
  <2> HIDE DEF pg
  <2>4. Kept(mailbox, cb, qs, calls, alone) /\ Len(qs) = Len(ps)
    <3>1. Kept(mailbox, cb, qs, calls, alone)
      BY <1>1, <1>4, <2>3, LoadHits
    <3>2. Len(qs) = Len(ps)
      BY <1>1, <1>4, <2>3, LoadHits
    <3> QED
      BY <3>1, <3>2
  <2> HIDE DEF qs, cb
  <2>5. Kept(mailbox, cb, qs, calls, alone')
    BY <2>1, <2>4 DEF Kept
  <2> QED
    BY <2>1, <2>4, <2>5
<1> QED
  BY <1>3, <1>4

LEMMA KeptSame ==
  ASSUME NEW sv, NEW ca, NEW ps, NEW qs, NEW cs, NEW al, Kept(sv, ca, ps, cs, al), PagesOk(qs), SamePages(ps, qs)
  PROVE  Kept(sv, ca, qs, cs, al)
<1>1. EntriesOk(ca, ps) /\ CallsOk(cs, ps) /\ SameUids(ps, qs)
  BY SamePagesUids DEF Kept
<1>2. EntriesOk(ca, qs) /\ CallsOk(cs, qs)
  BY <1>1, SameEntries, SameCalls
<1>3. al => Coherent(sv, ca, qs, cs)
  BY <1>1, SameCoherent DEF Kept
<1> QED
  BY <1>2, <1>3 DEF Kept

LEMMA OnePageMore ==
  ASSUME NEW ps, PagesOk(ps), Len(ps) < MaxOpens, NEW pg \in R!Page, pg.shown = None, MaxOpens \in Nat
  PROVE  LET qs == Append(ps, pg)
         IN  /\ PagesOk(qs) /\ Len(qs) = Len(ps) + 1 /\ SamePages(ps, qs)
             /\ Len(ps) + 1 \in DOMAIN qs
<1> DEFINE qs == Append(ps, pg)
           n == Len(ps)
<1>1. ps \in Seq(R!Page) /\ n \in Nat /\ n < MaxOpens /\ DOMAIN ps = 1..n
  BY SequenceFacts DEF PagesOk
<1>2. /\ qs \in Seq(R!Page) /\ Len(qs) = n + 1
      /\ \A i \in 1..n : qs[i] = ps[i]
      /\ qs[n + 1] = pg
  BY <1>1, AppendProperties
<1> HIDE DEF n
<1>3. DOMAIN qs = 1..(n + 1)
  BY <1>2, SequenceFacts
<1> HIDE DEF qs
<1>4. SamePages(ps, qs)
  BY <1>1, <1>2, <1>3 DEF SamePages
<1>5. ASSUME NEW p \in DOMAIN qs, qs[p].shown # None PROVE qs[p].shown.uid = qs[p].uid
  <2>1. p # n + 1
    BY <1>2, <1>5
  <2>2. p \in 1..n
    BY <1>1, <1>3, <2>1
  <2> QED
    BY <1>1, <1>2, <1>5, <2>2 DEF PagesOk
<1>6. PagesOk(qs) /\ n + 1 \in DOMAIN qs
  BY <1>1, <1>2, <1>3, <1>5 DEF PagesOk
<1> QED
  BY <1>2, <1>4, <1>6 DEF qs, n

LEMMA OpenKept ==
  ASSUME ReaderInv, R!SizesAssumption, NEW u \in Opened, R!Open(u)
  PROVE  ReaderInv'
<1> DEFINE pg == [uid |-> u, shown |-> None, loading |-> TRUE, timer |-> FALSE, failed |-> FALSE]
           us == R!Unmounted(pages)
           ps == Append(us, pg)
           n == Len(pages)
<1>1. /\ Kept(mailbox, cache, pages, calls, alone) /\ PagesOk(pages) /\ current \in 0..n
      /\ MaxOpens \in Nat /\ n \in Nat
  BY SequenceFacts DEF ReaderInv, Kept, PagesOk, R!SizesAssumption
<1>2. PagesOk(us) /\ Len(us) = n /\ SamePages(pages, us)
  BY <1>1, UnmountedFacts
<1>3. Kept(mailbox, cache, us, calls, alone)
  BY <1>1, <1>2, KeptSame
<1>4. pg \in R!Page /\ pg.shown = None
  BY DEF R!Page
<1>5. n < MaxOpens /\ current' = n + 1 /\ R!Load(ps, n + 1) /\ mailbox' = mailbox /\ delays' = delays
  BY DEF R!Open
<1> HIDE DEF pg, us, n
<1>6. PagesOk(ps) /\ Len(ps) = n + 1 /\ SamePages(us, ps) /\ n + 1 \in DOMAIN ps
  BY <1>1, <1>2, <1>4, <1>5, OnePageMore
<1> HIDE DEF ps
<1>7. Kept(mailbox, cache, ps, calls, alone)
  BY <1>3, <1>6, KeptSame
<1>8. Kept(mailbox, cache', pages', calls', alone') /\ Len(pages') = n + 1
  BY <1>5, <1>6, <1>7, LoadKept
<1>9. mailbox' \in [Opened -> Flags] /\ current' \in 0..Len(pages') /\ delays' \in BOOLEAN
  BY <1>1, <1>5, <1>8 DEF ReaderInv
<1>10. Kept(mailbox', cache', pages', calls', alone')
  BY <1>5, <1>8
<1> QED
  BY <1>9, <1>10, ReaderKept

LEMMA RetryKept ==
  ASSUME ReaderInv, R!SizesAssumption, R!Retry
  PROVE  ReaderInv'
<1>1. Kept(mailbox, cache, pages, calls, alone) /\ PagesOk(pages) /\ current \in 0..Len(pages)
  BY DEF ReaderInv, Kept
<1>2. current # 0 /\ R!Load(pages, current) /\ mailbox' = mailbox /\ current' = current /\ delays' = delays
  BY DEF R!Retry
<1>3. current \in DOMAIN pages
  BY <1>1, <1>2, SequenceFacts DEF PagesOk
<1>4. Kept(mailbox, cache', pages', calls', alone') /\ Len(pages') = Len(pages)
  BY <1>1, <1>2, <1>3, LoadKept
<1>5. mailbox' \in [Opened -> Flags] /\ current' \in 0..Len(pages') /\ delays' \in BOOLEAN
  BY <1>1, <1>2, <1>4 DEF ReaderInv
<1>6. Kept(mailbox', cache', pages', calls', alone')
  BY <1>2, <1>4
<1> QED
  BY <1>5, <1>6, ReaderKept

LEMMA BackKept ==
  ASSUME ReaderInv, R!Back
  PROVE  ReaderInv'
<1> DEFINE us == R!Unmounted(pages)
<1>1. Kept(mailbox, cache, pages, calls, alone) /\ PagesOk(pages) /\ current \in 0..Len(pages)
      /\ Len(pages) \in Nat
  BY SequenceFacts DEF ReaderInv, Kept, PagesOk
<1>2. PagesOk(us) /\ Len(us) = Len(pages) /\ SamePages(pages, us)
  BY <1>1, UnmountedFacts
<1>3. Kept(mailbox, cache, us, calls, alone)
  BY <1>1, <1>2, KeptSame
<1>4. /\ pages' = us /\ current' = 0 /\ mailbox' = mailbox /\ cache' = cache /\ calls' = calls
      /\ alone' = alone /\ delays' = delays
  BY DEF R!Back
<1> HIDE DEF us
<1>5. mailbox' \in [Opened -> Flags] /\ current' \in 0..Len(pages') /\ delays' \in BOOLEAN
  BY <1>1, <1>2, <1>4 DEF ReaderInv
<1>6. Kept(mailbox, cache, us, calls, alone')
  BY <1>3, <1>4 DEF Kept
<1>7. Kept(mailbox', cache', pages', calls', alone')
  BY <1>4, <1>6
<1> QED
  BY <1>5, <1>7, ReaderKept

----------------------------------------------------------------------------
(* Requests: sent, served and answered.                                    *)

LEMMA TimerKept ==
  ASSUME ReaderInv, R!SizesAssumption, NEW p \in DOMAIN pages, R!TimerFires(p)
  PROVE  ReaderInv'
<1> DEFINE pg == [pages[p] EXCEPT !.timer = FALSE]
           qs == [pages EXCEPT ![p] = pg]
           call == R!Call(p, "mark", None)
<1>1. Kept(mailbox, cache, pages, calls, alone) /\ PagesOk(pages) /\ current \in 0..Len(pages)
      /\ MaxOpens \in Nat
  BY DEF ReaderInv, Kept, R!SizesAssumption
<1>2. pages[p] \in R!Page
  BY <1>1, PageType
<1>3. pg \in R!Page /\ pg.uid = pages[p].uid /\ pg.shown = pages[p].shown
  BY <1>2 DEF R!Page
<1>4. /\ pages' = qs /\ calls' = calls \cup {call} /\ alone' = (alone /\ calls = {})
      /\ mailbox' = mailbox /\ cache' = cache /\ current' = current /\ delays' = delays
  BY DEF R!TimerFires, R!Send
<1> HIDE DEF pg
<1>5. PagesOk(qs) /\ DOMAIN qs = DOMAIN pages /\ Len(qs) = Len(pages) /\ SamePages(pages, qs)
  BY <1>1, <1>3, PageKept
<1> HIDE DEF qs
<1>6. Kept(mailbox, cache, qs, calls, alone)
  BY <1>1, <1>5, KeptSame
<1>7. Kept(mailbox, cache, qs, calls \cup {call}, alone')
  BY <1>1, <1>4, <1>5, <1>6, SentKept DEF R!CallKinds
<1>8. mailbox' \in [Opened -> Flags] /\ current' \in 0..Len(pages') /\ delays' \in BOOLEAN
  BY <1>1, <1>4, <1>5 DEF ReaderInv
<1>9. Kept(mailbox', cache', pages', calls', alone')
  BY <1>4, <1>7
<1> QED
  BY <1>8, <1>9, ReaderKept

LEMMA AskKept ==
  ASSUME ReaderInv, R!SizesAssumption, NEW kind \in R!Buttons, R!Ask(kind)
  PROVE  ReaderInv'
<1>1. Kept(mailbox, cache, pages, calls, alone) /\ PagesOk(pages) /\ current \in 0..Len(pages)
      /\ MaxOpens \in Nat
  BY DEF ReaderInv, Kept, R!SizesAssumption
<1>2. /\ calls' = calls \cup {R!Call(current, kind, None)} /\ alone' = (alone /\ calls = {})
      /\ current # 0 /\ mailbox' = mailbox /\ cache' = cache /\ pages' = pages /\ current' = current
      /\ delays' = delays
  BY DEF R!Ask, R!Click, R!Send
<1>3. current \in DOMAIN pages
  BY <1>1, <1>2, SequenceFacts DEF PagesOk
<1>4. kind \in R!CallKinds /\ kind # "star"
  BY DEF R!Buttons, R!CallKinds
<1>5. Kept(mailbox, cache, pages, calls \cup {R!Call(current, kind, None)}, alone')
  BY <1>1, <1>2, <1>3, <1>4, SentKept
<1>6. mailbox' \in [Opened -> Flags] /\ current' \in 0..Len(pages') /\ delays' \in BOOLEAN
  BY <1>1, <1>2 DEF ReaderInv
<1>7. Kept(mailbox', cache', pages', calls', alone')
  BY <1>2, <1>5
<1> QED
  BY <1>6, <1>7, ReaderKept

\* Writing what the page p shows, and the entry that is the same object.
LEMMA WrittenEntries ==
  ASSUME NEW ca, NEW ps, NEW qs, NEW p \in DOMAIN ps, PagesOk(ps), EntriesOk(ca, ps), NEW d \in R!Detail,
         d.uid = ps[p].uid, DOMAIN qs = DOMAIN ps, qs[p].uid = ps[p].uid, qs[p].shown = d,
         \A q \in DOMAIN ps : q # p => qs[q] = ps[q]
  PROVE  EntriesOk(R!Written(ca, p, d), qs)
<1> DEFINE cb == R!Written(ca, p, d)
<1>1. /\ CacheOk(cb)
      /\ \A e \in Elems(cb) :
           \E x \in Elems(ca) : /\ x \in EntrySet
                                /\ e = IF x.page = p THEN [x EXCEPT !.detail = d] ELSE x
  BY WrittenFacts DEF EntriesOk
<1> HIDE DEF cb
<1>2. p # 0
  BY PageType
<1>3. ASSUME NEW e \in Elems(cb) PROVE EntryOk(qs, e)
  <2>1. PICK x \in Elems(ca) : x \in EntrySet /\ e = IF x.page = p THEN [x EXCEPT !.detail = d] ELSE x
    BY <1>1
  <2>2. EntryOk(ps, x)
    BY DEF EntriesOk
  <2>3. CASE x.page = p
    <3>1. e.uid = x.uid /\ e.page = p /\ e.detail = d
      BY <2>1, <2>3 DEF EntrySet
    <3>2. x.uid = ps[p].uid
      BY <1>2, <2>2, <2>3 DEF EntryOk
    <3> QED
      BY <3>1, <3>2 DEF EntryOk
  <2>4. CASE x.page # p
    BY <2>1, <2>2, <2>4, EntryElsewhere
  <2> QED
    BY <2>3, <2>4
<1> QED
  BY <1>1, <1>3 DEF EntriesOk, cb

LEMMA Toggled ==
  ASSUME NEW d \in R!Detail, NEW b \in BOOLEAN
  PROVE  LET next == [d EXCEPT !.flagged = ~b]
         IN  next \in R!Detail /\ next.uid = d.uid /\ next.seen = d.seen /\ (~b) \in BOOLEAN
<1> DEFINE f == ~b
<1>1. f \in BOOLEAN
  OBVIOUS
<1> HIDE DEF f
<1>2. LET next == [d EXCEPT !.flagged = f]
      IN  next \in R!Detail /\ next.uid = d.uid /\ next.seen = d.seen
  BY <1>1 DEF R!Detail
<1> QED
  BY <1>1, <1>2 DEF f

LEMMA StarKept ==
  ASSUME ReaderInv, R!SizesAssumption, R!Star
  PROVE  ReaderInv'
<1> DEFINE d == pages[current].shown
           next == [d EXCEPT !.flagged = ~d.flagged]
           pg == [pages[current] EXCEPT !.shown = next]
           qs == [pages EXCEPT ![current] = pg]
           cb == R!Written(cache, current, next)
           call == R!Call(current, "star", ~d.flagged)
<1>1. Kept(mailbox, cache, pages, calls, alone) /\ PagesOk(pages) /\ current \in 0..Len(pages)
      /\ EntriesOk(cache, pages) /\ CallsOk(calls, pages) /\ MaxOpens \in Nat
  BY DEF ReaderInv, Kept, R!SizesAssumption
<1>2. /\ current # 0 /\ d # None
      /\ calls' = calls \cup {call} /\ alone' = (alone /\ calls = {})
      /\ pages' = qs /\ cache' = cb /\ mailbox' = mailbox /\ current' = current /\ delays' = delays
  BY DEF R!Star, R!Click, R!Send
<1>3. current \in DOMAIN pages
  BY <1>1, <1>2, SequenceFacts DEF PagesOk
<1>4. pages[current] \in R!Page /\ d \in R!Detail /\ d.uid = pages[current].uid
  BY <1>1, <1>2, <1>3, PageType DEF R!Page, PagesOk
<1> HIDE DEF d
<1>5. next \in R!Detail /\ next.uid = d.uid /\ next.seen = d.seen /\ (~d.flagged) \in BOOLEAN
  <2>1. d.flagged \in BOOLEAN
    BY <1>4 DEF R!Detail
  <2> QED
    BY <1>4, <2>1, Toggled
<1> HIDE DEF next
<1> USE DEF d
<1>6. pg \in R!Page /\ pg.uid = pages[current].uid /\ pg.shown = next
  BY <1>4, <1>5 DEF R!Page
<1> HIDE DEF pg
<1>7. /\ PagesOk(qs) /\ DOMAIN qs = DOMAIN pages /\ Len(qs) = Len(pages) /\ SameUids(pages, qs)
      /\ qs[current] = pg /\ \A q \in DOMAIN pages : q # current => qs[q] = pages[q]
  BY <1>1, <1>3, <1>4, <1>5, <1>6, PageWritten
<1> HIDE DEF qs
<1>8. EntriesOk(cb, qs)
  BY <1>1, <1>3, <1>4, <1>5, <1>6, <1>7, WrittenEntries
<1>9. CallsOk(calls \cup {call}, qs)
  <2>1. CallsOk(calls, qs)
    BY <1>1, <1>7, SameCalls
  <2> QED
    BY <1>1, <1>3, <1>5, <1>7, <2>1, SentCalls DEF R!CallKinds
<1>10. ASSUME alone, calls = {} PROVE Coherent(mailbox, cb, qs, calls \cup {call})
  <2>1. Coherent(mailbox, cache, pages, {})
    BY <1>1, <1>10 DEF Kept
  <2>2. call.served = FALSE /\ call.kind = "star" /\ call.page = current
    BY DEF R!Call
  <2> HIDE DEF call
  <2>3. ASSUME NEW e \in Elems(cb) PROVE Agrees(mailbox[e.uid], qs, {call}, e)
    <3>1. PICK x \in Elems(cache) :
            x \in EntrySet /\ e = IF x.page = current THEN [x EXCEPT !.detail = next] ELSE x
      BY <1>1, <1>5, WrittenFacts DEF EntriesOk
    <3>2. EntryTrue(mailbox[x.uid], x)
      BY <2>1 DEF Coherent, Agrees, EntryTrue
    <3>3. CASE x.page = current
      <4>1. e.uid = x.uid /\ e.detail = next
        BY <3>1, <3>3 DEF EntrySet
      <4>2. x.uid = pages[current].uid /\ x.detail = d
        BY <1>1, <1>2, <3>3 DEF EntriesOk, EntryOk
      <4> QED
        BY <1>5, <1>6, <1>7, <2>2, <3>2, <4>1, <4>2 DEF Agrees, EntryTrue
    <3>4. CASE x.page # current
      BY <3>1, <3>2, <3>4 DEF Agrees, EntryTrue
    <3> QED
      BY <3>3, <3>4
  <2>4. Coherent(mailbox, cb, qs, {call})
    BY <2>2, <2>3 DEF Coherent, StillTrue
  <2>5. calls \cup {call} = {call}
    BY <1>10
  <2> QED
    BY <2>4, <2>5
<1> HIDE DEF cb, call
<1>11. mailbox' \in [Opened -> Flags] /\ current' \in 0..Len(pages') /\ delays' \in BOOLEAN
  BY <1>1, <1>2, <1>7 DEF ReaderInv
<1>12. Kept(mailbox, cb, qs, calls \cup {call}, alone')
  BY <1>2, <1>7, <1>8, <1>9, <1>10 DEF Kept
<1>13. Kept(mailbox', cache', pages', calls', alone')
  BY <1>2, <1>12
<1> QED
  BY <1>11, <1>13, ReaderKept

\* What a request does to the flags.
LEMMA AppliedFacts ==
  ASSUME NEW m \in Flags, NEW c, c.kind \in R!CallKinds, c.kind = "star" => c.value \in BOOLEAN
  PROVE  LET n == R!Applied(m, c)
         IN  /\ n \in Flags
             /\ c.kind = "mark" => n.seen = TRUE
             /\ c.kind = "unread" => n.seen = FALSE
             /\ c.kind = "star" => n.flagged = c.value
             /\ c.kind # "remove" => n.gone = m.gone
             /\ c.kind \notin {"mark", "unread"} => n.seen = m.seen
             /\ c.kind # "star" => n.flagged = m.flagged
<1>1. CASE c.kind = "mark"
  <2>1. R!Applied(m, c) = [m EXCEPT !.seen = TRUE]
    BY <1>1 DEF R!Applied
  <2> QED
    BY <1>1, <2>1 DEF Flags
<1>2. CASE c.kind = "unread"
  <2>1. R!Applied(m, c) = [m EXCEPT !.seen = FALSE]
    BY <1>2 DEF R!Applied
  <2> QED
    BY <1>2, <2>1 DEF Flags
<1>3. CASE c.kind = "star"
  <2>1. R!Applied(m, c) = [m EXCEPT !.flagged = c.value]
    BY <1>3 DEF R!Applied
  <2> QED
    BY <1>3, <2>1 DEF Flags
<1>4. CASE c.kind = "remove"
  <2>1. R!Applied(m, c) = [m EXCEPT !.gone = TRUE]
    BY <1>4 DEF R!Applied
  <2> QED
    BY <1>4, <2>1 DEF Flags
<1>5. CASE c.kind \notin {"mark", "unread", "star", "remove"}
  <2>1. R!Applied(m, c) = m
    BY <1>5 DEF R!Applied
  <2> QED
    BY <1>5, <2>1
<1> QED
  BY <1>1, <1>2, <1>3, <1>4, <1>5

\* A request and its page.
LEMMA CallFacts ==
  ASSUME NEW cs, NEW ps, PagesOk(ps), CallsOk(cs, ps), NEW c \in cs
  PROVE  /\ c \in CallSet /\ c.kind \in R!CallKinds /\ (c.kind = "star" => c.value \in BOOLEAN)
         /\ c.page \in DOMAIN ps /\ ps[c.page] \in R!Page /\ ps[c.page].uid \in Opened
         /\ (c.kind = "load" /\ c.served => c.got \in R!Detail /\ c.got.uid = ps[c.page].uid)
<1>1. CallOk(ps, c)
  BY DEF CallsOk
<1>2. c \in CallSet /\ c.kind \in R!CallKinds /\ c.page \in DOMAIN ps
  BY <1>1 DEF CallOk, CallSet
<1>3. ps[c.page] \in R!Page
  BY <1>2, PageType
<1>4. ps[c.page].uid \in Opened
  BY <1>3 DEF R!Page
<1> QED
  BY <1>1, <1>2, <1>3, <1>4 DEF CallOk

LEMMA EntryType ==
  ASSUME NEW c, CacheOk(c), NEW e \in Elems(c)
  PROVE  e \in EntrySet
<1>1. PICK i \in DOMAIN c : e = c[i]
  BY DEF Elems
<1>2. c \in Seq(EntrySet) /\ DOMAIN c = 1..Len(c) /\ \A j \in 1..Len(c) : c[j] \in EntrySet
  BY SequenceFacts DEF CacheOk
<1> QED
  BY <1>1, <1>2

LEMMA ServeKept ==
  ASSUME ReaderInv, NEW c \in calls, R!Serve(c)
  PROVE  ReaderInv'
<1> DEFINE u == pages[c.page].uid
           m == mailbox[u]
           n == R!Applied(m, c)
           mb == [mailbox EXCEPT ![u] = n]
           got == IF c.kind = "load" THEN R!DetailOf(u) ELSE None
           d == [c EXCEPT !.served = TRUE, !.got = got]
           cs == (calls \ {c}) \cup {d}
<1>1. Kept(mailbox, cache, pages, calls, alone) /\ PagesOk(pages) /\ current \in 0..Len(pages)
      /\ EntriesOk(cache, pages) /\ CallsOk(calls, pages) /\ mailbox \in [Opened -> Flags]
  BY DEF ReaderInv, Kept
<1>2. /\ ~c.served /\ ~m.gone /\ mailbox' = mb /\ calls' = cs /\ pages' = pages /\ cache' = cache
      /\ current' = current /\ alone' = alone /\ delays' = delays
  BY DEF R!Serve
<1>3. /\ c \in CallSet /\ c.kind \in R!CallKinds /\ (c.kind = "star" => c.value \in BOOLEAN)
      /\ c.page \in DOMAIN pages /\ u \in Opened
  BY <1>1, CallFacts
<1>4. m \in Flags /\ m.gone = FALSE
  BY <1>1, <1>2, <1>3 DEF Flags
<1>5. R!DetailOf(u) \in R!Detail /\ R!DetailOf(u) = [uid |-> u, seen |-> m.seen, flagged |-> m.flagged]
  BY <1>3, <1>4 DEF R!DetailOf, R!Detail, Flags
<1>6. /\ n \in Flags
      /\ c.kind = "mark" => n.seen = TRUE
      /\ c.kind = "unread" => n.seen = FALSE
      /\ c.kind = "star" => n.flagged = c.value
      /\ c.kind # "remove" => n.gone = m.gone
      /\ c.kind \notin {"mark", "unread"} => n.seen = m.seen
      /\ c.kind # "star" => n.flagged = m.flagged
  BY <1>3, <1>4, AppliedFacts
<1> HIDE DEF n
<1>7. /\ mb \in [Opened -> Flags] /\ mb[u] = n /\ \A v \in Opened : v # u => mb[v] = mailbox[v]
  BY <1>1, <1>3, <1>6
<1> HIDE DEF mb
<1>8. got \in R!Detail \cup {None} /\ (c.kind = "load" => got = R!DetailOf(u))
  BY <1>5
<1> HIDE DEF got
<1>9. /\ d \in CallSet /\ d.page = c.page /\ d.kind = c.kind /\ d.value = c.value /\ d.served = TRUE
      /\ d.got = got
  BY <1>3, <1>8 DEF CallSet
<1> HIDE DEF d
<1>10. CallOk(pages, d)
  BY <1>3, <1>5, <1>8, <1>9 DEF CallOk
<1>11. CallsOk(cs, pages)
  BY <1>1, <1>10 DEF CallsOk
<1>12. ASSUME alone PROVE Coherent(mb, cache, pages, cs)
  <2>1. Coherent(mailbox, cache, pages, calls)
    BY <1>1, <1>12 DEF Kept
  <2>2. calls = {c} /\ cs = {d}
    BY <2>1 DEF Coherent
  <2>3. StillTrue(n, d)
    BY <1>4, <1>5, <1>6, <1>8, <1>9 DEF StillTrue
  <2>4. ASSUME NEW e \in Elems(cache) PROVE Agrees(mb[e.uid], pages, {d}, e)
    <3>1. e.uid \in Opened
      BY <1>1, EntryType DEF EntriesOk, EntrySet
    <3>2. CASE e.uid # u
      <4>1. EntryTrue(mailbox[e.uid], e)
        BY <2>1, <3>2, OtherEntry
      <4> QED
        BY <1>7, <3>1, <3>2, <4>1 DEF Agrees, EntryTrue
    <3>3. CASE e.uid = u
      <4>1. Agrees(m, pages, {c}, e)
        BY <2>1, <2>2, <3>3 DEF Coherent
      <4>2. e.detail.seen = m.seen /\ (e.detail.flagged = m.flagged \/ c.kind = "star")
        BY <1>2, <4>1 DEF Agrees
      <4> QED
        BY <1>4, <1>6, <1>7, <1>9, <3>3, <4>2 DEF Agrees
    <3> QED
      BY <3>2, <3>3
  <2>5. \A x \in cs : StillTrue(mb[pages[x.page].uid], x)
    BY <1>7, <1>9, <2>2, <2>3
  <2> QED
    BY <2>2, <2>4, <2>5 DEF Coherent
<1> HIDE DEF cs
<1>13. Kept(mb, cache, pages, cs, alone')
  BY <1>1, <1>2, <1>11, <1>12 DEF Kept
<1>14. mailbox' \in [Opened -> Flags] /\ current' \in 0..Len(pages') /\ delays' \in BOOLEAN
  BY <1>1, <1>2, <1>7 DEF ReaderInv
<1>15. Kept(mailbox', cache', pages', calls', alone')
  BY <1>2, <1>13
<1> QED
  BY <1>14, <1>15, ReaderKept

LEMMA OtherKept ==
  ASSUME ReaderInv, NEW u \in Opened, R!Other(u)
  PROVE  ReaderInv'
<1>1. Kept(mailbox, cache, pages, calls, alone) /\ current \in 0..Len(pages)
      /\ mailbox \in [Opened -> Flags]
  BY DEF ReaderInv
<1>2. /\ alone' = FALSE /\ cache' = cache /\ pages' = pages /\ current' = current /\ calls' = calls
      /\ delays' = delays
  BY DEF R!Other
<1>3. PICK m \in {[mailbox[u] EXCEPT !.seen = ~@], [mailbox[u] EXCEPT !.flagged = ~@],
                  [mailbox[u] EXCEPT !.gone = TRUE]} : mailbox' = [mailbox EXCEPT ![u] = m]
  BY DEF R!Other
<1>4. mailbox[u] \in Flags
  BY <1>1
<1>5. m \in Flags
  <2>1. [mailbox[u] EXCEPT !.seen = ~@] \in Flags
    BY <1>4 DEF Flags
  <2>2. [mailbox[u] EXCEPT !.flagged = ~@] \in Flags
    BY <1>4 DEF Flags
  <2>3. [mailbox[u] EXCEPT !.gone = TRUE] \in Flags
    BY <1>4 DEF Flags
  <2> QED
    BY <1>3, <2>1, <2>2, <2>3
<1>6. mailbox' \in [Opened -> Flags]
  BY <1>1, <1>3, <1>5
<1>7. Kept(mailbox', cache, pages, calls, alone')
  BY <1>1, <1>2 DEF Kept
<1>8. current' \in 0..Len(pages') /\ delays' \in BOOLEAN
  BY <1>1, <1>2 DEF ReaderInv
<1>9. Kept(mailbox', cache', pages', calls', alone')
  BY <1>2, <1>7
<1> QED
  BY <1>6, <1>8, <1>9, ReaderKept

\* An answer, or the end of a request: the others go on.
LEMMA AnsweredKept ==
  ASSUME NEW sv, NEW ca, NEW cb, NEW ps, NEW qs, NEW cs, NEW al, Kept(sv, ca, ps, cs, al), NEW c \in cs,
         PagesOk(qs), SameUids(ps, qs), EntriesOk(cb, qs),
         al => \A e \in Elems(cb) : EntryTrue(sv[e.uid], e)
  PROVE  Kept(sv, cb, qs, cs \ {c}, al)
<1>1. CallsOk(cs, qs)
  BY SameCalls DEF Kept
<1>2. CallsOk(cs \ {c}, qs)
  BY <1>1, FewerCalls
<1>3. ASSUME al PROVE Coherent(sv, cb, qs, cs \ {c})
  <2>1. Coherent(sv, ca, ps, cs)
    BY <1>3 DEF Kept
  <2> QED
    BY <1>3, <2>1, AnsweredCoherent
<1> QED
  BY <1>2, <1>3 DEF Kept

\* What is read of the answers whose page and cache stay, or only forget.
LEMMA AnsweredEntries ==
  ASSUME NEW sv, NEW ca, NEW ps, NEW cs, Coherent(sv, ca, ps, cs), NEW c \in cs,
         NEW e \in Elems(ca), e.uid # ps[c.page].uid \/ c.kind \in {"load", "receipt", "copy", "redirect"}
  PROVE  EntryTrue(sv[e.uid], e)
<1>2. CASE e.uid # ps[c.page].uid
  BY <1>2, OtherEntry
<1>3. CASE c.kind \in {"load", "receipt", "copy", "redirect"}
  BY <1>3, OwnEntry DEF EntryTrue
<1> QED
  BY <1>2, <1>3

LEMMA InvParts ==
  ASSUME ReaderInv, NEW c \in calls
  PROVE  /\ Kept(mailbox, cache, pages, calls, alone) /\ PagesOk(pages) /\ current \in 0..Len(pages)
         /\ 0 \in 0..Len(pages)
         /\ EntriesOk(cache, pages) /\ CacheOk(cache) /\ CallsOk(calls, pages)
         /\ mailbox \in [Opened -> Flags] /\ delays \in BOOLEAN
         /\ c \in CallSet /\ c.kind \in R!CallKinds /\ (c.kind = "star" => c.value \in BOOLEAN)
         /\ c.page \in DOMAIN pages /\ pages[c.page] \in R!Page /\ pages[c.page].uid \in Opened
         /\ (c.kind = "load" /\ c.served => c.got \in R!Detail /\ c.got.uid = pages[c.page].uid)
<1>1. Kept(mailbox, cache, pages, calls, alone) /\ PagesOk(pages) /\ current \in 0..Len(pages)
      /\ EntriesOk(cache, pages) /\ CacheOk(cache) /\ CallsOk(calls, pages)
      /\ mailbox \in [Opened -> Flags] /\ delays \in BOOLEAN
  BY DEF ReaderInv, Kept, EntriesOk
<1>2. 0 \in 0..Len(pages)
  BY <1>1, SequenceFacts DEF PagesOk
<1> QED
  BY <1>1, <1>2, CallFacts

LEMMA LoadAnswersKept ==
  ASSUME ReaderInv, R!SizesAssumption, NEW c \in calls, R!LoadAnswers(c)
  PROVE  ReaderInv'
<1> DEFINE p == c.page
           u == pages[p].uid
           pg == [pages[p] EXCEPT !.shown = c.got, !.loading = FALSE,
                                    !.timer = pages[p].timer \/ (pages[p].shown = None /\ delays)]
           qs == [pages EXCEPT ![p] = pg]
           cb == R!Set(cache, u, c.got, p)
           cs == calls \ {c}
<1>1. Kept(mailbox, cache, pages, calls, alone) /\ PagesOk(pages) /\ current \in 0..Len(pages)
      /\ EntriesOk(cache, pages) /\ CacheOk(cache) /\ mailbox \in [Opened -> Flags]
      /\ delays \in BOOLEAN /\ p \in DOMAIN pages /\ pages[p] \in R!Page /\ u \in Opened
      /\ (c.kind = "load" /\ c.served => c.got \in R!Detail /\ c.got.uid = u)
  BY InvParts
<1>2. /\ c.kind = "load" /\ c.served /\ calls' = cs /\ cache' = cb /\ pages' = qs
      /\ mailbox' = mailbox /\ current' = current /\ delays' = delays /\ alone' = alone
  <2>1. pages' = qs
    BY DEF R!LoadAnswers
  <2>2. /\ c.kind = "load" /\ c.served /\ calls' = cs /\ cache' = cb
        /\ mailbox' = mailbox /\ current' = current /\ delays' = delays /\ alone' = alone
    BY DEF R!LoadAnswers, R!Answered
  <2> QED
    BY <2>1, <2>2
<1>3. c.got \in R!Detail /\ c.got.uid = u
  BY <1>1, <1>2
<1>5. pg \in R!Page /\ pg.uid = u /\ pg.shown = c.got
  BY <1>1, <1>3 DEF R!Page
<1> HIDE DEF pg
<1>6. /\ PagesOk(qs) /\ DOMAIN qs = DOMAIN pages /\ Len(qs) = Len(pages) /\ SameUids(pages, qs)
      /\ qs[p] = pg /\ \A q \in DOMAIN pages : q # p => qs[q] = pages[q]
  BY <1>1, <1>3, <1>5, PageWritten
<1> HIDE DEF qs
<1>7. p \in 0..MaxOpens /\ p # 0 /\ CacheSize \in Nat /\ MaxOpens \in Nat
  BY <1>1, PageType DEF R!SizesAssumption
<1>8. /\ CacheOk(cb)
      /\ \A e \in Elems(cb) :
           e = [uid |-> u, detail |-> c.got, page |-> p] \/ (e \in Elems(cache) /\ e.uid # u)
  BY <1>1, <1>3, <1>7, SetFacts
<1> HIDE DEF cb
<1>9. EntriesOk(cb, qs)
  <2> SUFFICES ASSUME NEW e \in Elems(cb) PROVE EntryOk(qs, e)
    BY <1>8 DEF EntriesOk
  <2>1. CASE e = [uid |-> u, detail |-> c.got, page |-> p]
    BY <1>1, <1>3, <1>5, <1>6, <2>1 DEF EntryOk
  <2>2. CASE e \in Elems(cache) /\ e.uid # u
    <3>1. EntryOk(pages, e)
      BY <1>1, <2>2 DEF EntriesOk
    <3> QED
      BY <1>1, <1>6, <1>7, <2>2, <3>1, OtherElsewhere
  <2> QED
    BY <1>8, <2>1, <2>2
<1>10. ASSUME alone, NEW e \in Elems(cb) PROVE EntryTrue(mailbox[e.uid], e)
  <2>1. CASE e = [uid |-> u, detail |-> c.got, page |-> p]
    <3>1. StillTrue(mailbox[u], c)
      BY <1>1, <1>10 DEF Kept, Coherent
    <3>2. e.uid = u /\ e.detail = c.got
      BY <2>1
    <3>3. mailbox[u].gone = FALSE /\ c.got.seen = mailbox[u].seen /\ c.got.flagged = mailbox[u].flagged
      BY <1>2, <3>1 DEF StillTrue
    <3> QED
      BY <3>2, <3>3 DEF EntryTrue
  <2>2. CASE e \in Elems(cache) /\ e.uid # u
    <3>1. Coherent(mailbox, cache, pages, calls)
      BY <1>1, <1>10 DEF Kept
    <3> QED
      BY <2>2, <3>1, AnsweredEntries
  <2> QED
    BY <1>8, <2>1, <2>2
<1>11. Kept(mailbox, cb, qs, cs, alone)
  BY <1>1, <1>6, <1>9, <1>10, AnsweredKept
<1> HIDE DEF cs
<1>12. mailbox' \in [Opened -> Flags] /\ current' \in 0..Len(pages') /\ delays' \in BOOLEAN
  BY <1>1, <1>2, <1>6
<1>13. Kept(mailbox', cache', pages', calls', alone')
  BY <1>2, <1>11
<1> QED
  BY <1>12, <1>13, ReaderKept

\* Patches of the flags: entries of the message become as it is, others stay.
LEMMA PatchedEntry ==
  ASSUME NEW ca, NEW ps, NEW qs, NEW p \in DOMAIN ps, PagesOk(ps), EntriesOk(ca, ps),
         DOMAIN qs = DOMAIN ps, \A q \in DOMAIN ps : q # p => qs[q] = ps[q],
         NEW e,
         \/ e \in Elems(ca) /\ e.uid # ps[p].uid
         \/ \E x \in Elems(ca) : x.uid = e.uid /\ e.page = 0 /\ e.detail.uid = x.detail.uid
  PROVE  EntryOk(qs, e)
<1>1. CASE e \in Elems(ca) /\ e.uid # ps[p].uid
  <2>1. EntryOk(ps, e) /\ p # 0
    BY <1>1, PageType DEF EntriesOk
  <2> QED
    BY <1>1, <2>1, OtherElsewhere
<1>2. CASE \E x \in Elems(ca) : x.uid = e.uid /\ e.page = 0 /\ e.detail.uid = x.detail.uid
  <2>1. PICK x \in Elems(ca) : x.uid = e.uid /\ e.page = 0 /\ e.detail.uid = x.detail.uid
    BY <1>2
  <2>2. EntryOk(ps, x)
    BY DEF EntriesOk
  <2> QED
    BY <2>1, <2>2 DEF EntryOk
<1> QED
  BY <1>1, <1>2

LEMMA PatchedEntries ==
  ASSUME NEW ca, NEW cb, NEW ps, NEW qs, NEW p \in DOMAIN ps, PagesOk(ps), EntriesOk(ca, ps), NEW b,
         DOMAIN qs = DOMAIN ps, \A q \in DOMAIN ps : q # p => qs[q] = ps[q],
         SeenTold(ca, cb, ps[p].uid, b) \/ FlagTold(ca, cb, ps[p].uid, b)
  PROVE  EntriesOk(cb, qs)
<1>1. CacheOk(cb)
  BY DEF SeenTold, FlagTold
<1>2. ASSUME NEW e \in Elems(cb) PROVE EntryOk(qs, e)
  <2>1. \/ e \in Elems(ca) /\ e.uid # ps[p].uid
        \/ \E x \in Elems(ca) : x.uid = e.uid /\ e.page = 0 /\ e.detail.uid = x.detail.uid
    BY DEF SeenTold, FlagTold
  <2> QED
    BY <2>1, PatchedEntry
<1> QED
  BY <1>1, <1>2 DEF EntriesOk

LEMMA SeenTrue ==
  ASSUME NEW sv, NEW ca, NEW cb, NEW ps, NEW cs, Coherent(sv, ca, ps, cs), NEW c \in cs, c.served, NEW b,
         \/ c.kind = "mark" /\ b = TRUE
         \/ c.kind = "unread" /\ b = FALSE,
         SeenTold(ca, cb, ps[c.page].uid, b), NEW e \in Elems(cb)
  PROVE  EntryTrue(sv[e.uid], e)
<1> DEFINE u == ps[c.page].uid
<1>1. CASE e \in Elems(ca) /\ e.uid # u
  BY <1>1, AnsweredEntries
<1>2. CASE ~(e \in Elems(ca) /\ e.uid # u)
  <2>1. PICK x \in Elems(ca) : /\ x.uid = u /\ e.uid = u
                               /\ e.detail.seen = b /\ e.detail.flagged = x.detail.flagged
    BY <1>2 DEF SeenTold
  <2>2. c.kind # "remove" /\ c.kind # "star"
    OBVIOUS
  <2>3. sv[u].gone = FALSE /\ x.detail.flagged = sv[u].flagged
    <3>1. (\A d \in cs : d = c) /\ Agrees(sv[x.uid], ps, cs, x)
      BY <2>1 DEF Coherent
    <3> QED
      BY <2>1, <2>2, <3>1 DEF Agrees
  <2>4. sv[u].seen = b
    BY DEF Coherent, StillTrue
  <2> QED
    BY <2>1, <2>3, <2>4 DEF EntryTrue
<1> QED
  BY <1>1, <1>2

LEMMA FlagTrue ==
  ASSUME NEW sv, NEW ca, NEW cb, NEW ps, NEW cs, Coherent(sv, ca, ps, cs), NEW c \in cs, c.served,
         c.kind = "star", FlagTold(ca, cb, ps[c.page].uid, c.value), NEW e \in Elems(cb)
  PROVE  EntryTrue(sv[e.uid], e)
<1> DEFINE u == ps[c.page].uid
<1>1. CASE e \in Elems(ca) /\ e.uid # u
  BY <1>1, AnsweredEntries
<1>2. CASE ~(e \in Elems(ca) /\ e.uid # u)
  <2>1. PICK x \in Elems(ca) : /\ x.uid = u /\ e.uid = u
                               /\ e.detail.flagged = c.value /\ e.detail.seen = x.detail.seen
    BY <1>2 DEF FlagTold
  <2>2. c.kind # "remove" /\ c.kind \notin {"mark", "unread"}
    OBVIOUS
  <2>3. sv[u].gone = FALSE /\ x.detail.seen = sv[u].seen
    <3>1. (\A d \in cs : d = c) /\ Agrees(sv[x.uid], ps, cs, x)
      BY <2>1 DEF Coherent
    <3> QED
      BY <2>1, <2>2, <3>1 DEF Agrees
  <2>4. sv[u].flagged = c.value
    BY DEF Coherent, StillTrue
  <2> QED
    BY <2>1, <2>3, <2>4 DEF EntryTrue
<1> QED
  BY <1>1, <1>2

LEMMA MarkAnswersKept ==
  ASSUME ReaderInv, R!SizesAssumption, NEW c \in calls, R!MarkAnswers(c)
  PROVE  ReaderInv'
<1> DEFINE p == c.page
           u == pages[p].uid
           shown == IF pages[p].shown = None THEN None ELSE [pages[p].shown EXCEPT !.seen = TRUE]
           pg == [pages[p] EXCEPT !.shown = shown]
           qs == [pages EXCEPT ![p] = pg]
           cb == R!SeenPatched(cache, u, TRUE)
           cs == calls \ {c}
<1>1. Kept(mailbox, cache, pages, calls, alone) /\ PagesOk(pages) /\ current \in 0..Len(pages)
      /\ EntriesOk(cache, pages) /\ CacheOk(cache) /\ mailbox \in [Opened -> Flags]
      /\ delays \in BOOLEAN /\ p \in DOMAIN pages /\ pages[p] \in R!Page /\ u \in Opened
      /\ CacheSize \in Nat /\ MaxOpens \in Nat
  BY InvParts DEF R!SizesAssumption
<1>2. /\ c.kind = "mark" /\ c.served /\ calls' = cs /\ cache' = cb /\ pages' = qs
      /\ mailbox' = mailbox /\ current' = current /\ delays' = delays /\ alone' = alone
  BY DEF R!MarkAnswers, R!Answered
<1>3. shown \in R!Detail \cup {None} /\ (shown # None => shown.uid = u)
  <2>1. CASE pages[p].shown = None
    BY <2>1
  <2>2. CASE pages[p].shown # None
    <3>1. pages[p].shown \in R!Detail /\ pages[p].shown.uid = u
      BY <1>1, <2>2 DEF R!Page, PagesOk
    <3> QED
      BY <2>2, <3>1 DEF R!Detail
  <2> QED
    BY <2>1, <2>2
<1> HIDE DEF shown
<1>4. pg \in R!Page /\ pg.uid = u /\ pg.shown = shown
  BY <1>1, <1>3 DEF R!Page
<1> HIDE DEF pg
<1>5. /\ PagesOk(qs) /\ DOMAIN qs = DOMAIN pages /\ Len(qs) = Len(pages) /\ SameUids(pages, qs)
      /\ qs[p] = pg /\ \A q \in DOMAIN pages : q # p => qs[q] = pages[q]
  BY <1>1, <1>3, <1>4, PageWritten
<1> HIDE DEF qs
<1>6. SeenTold(cache, cb, u, TRUE)
  <2>1. \A b \in BOOLEAN : SeenTold(cache, R!SeenPatched(cache, u, b), u, b)
    BY <1>1, SeenPatchedFacts
  <2> QED
    BY <2>1
<1> HIDE DEF cb
<1>8. EntriesOk(cb, qs)
  BY <1>1, <1>5, <1>6, PatchedEntries
<1>9. ASSUME alone, NEW e \in Elems(cb) PROVE EntryTrue(mailbox[e.uid], e)
  <2>1. Coherent(mailbox, cache, pages, calls)
    BY <1>1, <1>9 DEF Kept
  <2> QED
    BY <1>2, <1>6, <2>1, SeenTrue
<1>10. Kept(mailbox, cb, qs, cs, alone)
  BY <1>1, <1>5, <1>8, <1>9, AnsweredKept
<1> HIDE DEF cs
<1>11. mailbox' \in [Opened -> Flags] /\ current' \in 0..Len(pages') /\ delays' \in BOOLEAN
  BY <1>1, <1>2, <1>5
<1>12. Kept(mailbox', cache', pages', calls', alone')
  BY <1>2, <1>10
<1> QED
  BY <1>11, <1>12, ReaderKept

LEMMA StarAnswersKept ==
  ASSUME ReaderInv, R!SizesAssumption, NEW c \in calls, R!StarAnswers(c)
  PROVE  ReaderInv'
<1> DEFINE p == c.page
           u == pages[p].uid
           cb == R!FlagPatched(cache, u, c.value)
           cs == calls \ {c}
<1>1. Kept(mailbox, cache, pages, calls, alone) /\ PagesOk(pages) /\ current \in 0..Len(pages)
      /\ EntriesOk(cache, pages) /\ CacheOk(cache) /\ mailbox \in [Opened -> Flags]
      /\ delays \in BOOLEAN /\ p \in DOMAIN pages /\ u \in Opened
      /\ CacheSize \in Nat /\ MaxOpens \in Nat /\ (c.kind = "star" => c.value \in BOOLEAN)
  BY InvParts DEF R!SizesAssumption
<1>2. /\ c.kind = "star" /\ c.served /\ calls' = cs /\ cache' = cb /\ pages' = pages
      /\ mailbox' = mailbox /\ current' = current /\ delays' = delays /\ alone' = alone
  BY DEF R!StarAnswers, R!Answered
<1>3. c.value \in BOOLEAN
  BY <1>1, <1>2
<1>4. FlagTold(cache, cb, u, c.value)
  BY <1>1, <1>3, FlagPatchedFacts
<1> HIDE DEF cb
<1>6. EntriesOk(cb, pages)
  BY <1>1, <1>4, PatchedEntries
<1>7. ASSUME alone, NEW e \in Elems(cb) PROVE EntryTrue(mailbox[e.uid], e)
  <2>1. Coherent(mailbox, cache, pages, calls)
    BY <1>1, <1>7 DEF Kept
  <2> QED
    BY <1>2, <1>4, <2>1, FlagTrue
<1>8. SameUids(pages, pages)
  BY DEF SameUids
<1>9. Kept(mailbox, cb, pages, cs, alone)
  BY <1>1, <1>6, <1>7, <1>8, AnsweredKept
<1> HIDE DEF cs
<1>10. mailbox' \in [Opened -> Flags] /\ current' \in 0..Len(pages') /\ delays' \in BOOLEAN
  BY <1>1, <1>2
<1>11. Kept(mailbox', cache', pages', calls', alone')
  BY <1>2, <1>9
<1> QED
  BY <1>10, <1>11, ReaderKept

\* The answers that lead back to the list.
LEMMA GoneBack ==
  ASSUME ReaderInv, NEW c \in calls, R!GoesBack, pages' = R!Unmounted(pages), calls' = calls \ {c},
         mailbox' = mailbox, delays' = delays, alone' = alone, EntriesOk(cache', pages),
         alone => \A e \in Elems(cache') : EntryTrue(mailbox[e.uid], e)
  PROVE  ReaderInv'
<1> DEFINE us == R!Unmounted(pages)
           cs == calls \ {c}
<1>1. Kept(mailbox, cache, pages, calls, alone) /\ PagesOk(pages) /\ current \in 0..Len(pages)
      /\ 0 \in 0..Len(pages) /\ mailbox \in [Opened -> Flags] /\ delays \in BOOLEAN
  BY InvParts
<1>2. PagesOk(us) /\ Len(us) = Len(pages) /\ SamePages(pages, us)
  BY <1>1, UnmountedFacts
<1> HIDE DEF us
<1>3. EntriesOk(cache', us)
  BY <1>2, SameEntries
<1>4. SameUids(pages, us)
  BY <1>2, SamePagesUids
<1>5. Kept(mailbox, cache', us, cs, alone)
  BY <1>1, <1>2, <1>3, <1>4, AnsweredKept
<1> HIDE DEF cs
<1>6. pages' = us /\ calls' = cs /\ current' = 0
  BY DEF us, cs, R!GoesBack
<1>7. mailbox' \in [Opened -> Flags] /\ current' \in 0..Len(pages') /\ delays' \in BOOLEAN
  BY <1>1, <1>2, <1>6
<1>8. Kept(mailbox', cache', pages', calls', alone')
  BY <1>5, <1>6
<1> QED
  BY <1>7, <1>8, ReaderKept

LEMMA SameItself == \A ps : SameUids(ps, ps) /\ SamePages(ps, ps)
BY DEF SameUids, SamePages

LEMMA UnreadAnswersKept ==
  ASSUME ReaderInv, R!SizesAssumption, NEW c \in calls, R!UnreadAnswers(c)
  PROVE  ReaderInv'
<1> DEFINE p == c.page
           u == pages[p].uid
           cb == R!SeenPatched(cache, u, FALSE)
<1>1. Kept(mailbox, cache, pages, calls, alone) /\ PagesOk(pages) /\ EntriesOk(cache, pages) /\ CacheOk(cache)
      /\ p \in DOMAIN pages /\ u \in Opened /\ CacheSize \in Nat /\ MaxOpens \in Nat
  BY InvParts DEF R!SizesAssumption
<1>2. /\ c.kind = "unread" /\ c.served /\ calls' = calls \ {c} /\ cache' = cb /\ R!GoesBack
      /\ pages' = R!Unmounted(pages) /\ mailbox' = mailbox /\ delays' = delays /\ alone' = alone
  BY DEF R!UnreadAnswers, R!Answered
<1>3. SeenTold(cache, cb, u, FALSE)
  <2>1. \A b \in BOOLEAN : SeenTold(cache, R!SeenPatched(cache, u, b), u, b)
    BY <1>1, SeenPatchedFacts
  <2> QED
    BY <2>1
<1> HIDE DEF cb
<1>4. EntriesOk(cb, pages)
  BY <1>1, <1>3, PatchedEntries
<1>5. ASSUME alone, NEW e \in Elems(cb) PROVE EntryTrue(mailbox[e.uid], e)
  <2>1. Coherent(mailbox, cache, pages, calls)
    BY <1>1, <1>5 DEF Kept
  <2> QED
    BY <1>2, <1>3, <2>1, SeenTrue
<1>6. EntriesOk(cache', pages) /\ (alone => \A e \in Elems(cache') : EntryTrue(mailbox[e.uid], e))
  BY <1>2, <1>4, <1>5
<1> QED
  BY <1>2, <1>6, GoneBack

LEMMA WithoutEntries ==
  ASSUME NEW ca, NEW ps, NEW u, EntriesOk(ca, ps), CacheSize \in Nat
  PROVE  EntriesOk(R!Without(ca, u), ps) /\ \A e \in Elems(R!Without(ca, u)) : e \in Elems(ca) /\ e.uid # u
<1>1. CacheOk(ca)
  BY DEF EntriesOk
<1>2. CacheOk(R!Without(ca, u)) /\ \A e \in Elems(R!Without(ca, u)) : e \in Elems(ca) /\ e.uid # u
  BY <1>1, WithoutFacts
<1> QED
  BY <1>2 DEF EntriesOk

LEMMA RemoveAnswersKept ==
  ASSUME ReaderInv, R!SizesAssumption, NEW c \in calls, R!RemoveAnswers(c)
  PROVE  ReaderInv'
<1> DEFINE u == pages[c.page].uid
           cb == R!Without(cache, u)
<1>1. Kept(mailbox, cache, pages, calls, alone) /\ EntriesOk(cache, pages) /\ CacheSize \in Nat
  BY InvParts DEF R!SizesAssumption
<1>2. /\ calls' = calls \ {c} /\ cache' = cb /\ R!GoesBack
      /\ pages' = R!Unmounted(pages) /\ mailbox' = mailbox /\ delays' = delays /\ alone' = alone
  BY DEF R!RemoveAnswers
<1>3. EntriesOk(cb, pages) /\ \A e \in Elems(cb) : e \in Elems(cache) /\ e.uid # u
  BY <1>1, WithoutEntries
<1> HIDE DEF cb
<1>4. ASSUME alone, NEW e \in Elems(cb) PROVE EntryTrue(mailbox[e.uid], e)
  <2>1. Coherent(mailbox, cache, pages, calls)
    BY <1>1, <1>4 DEF Kept
  <2> QED
    BY <1>3, <2>1, AnsweredEntries
<1>5. EntriesOk(cache', pages) /\ (alone => \A e \in Elems(cache') : EntryTrue(mailbox[e.uid], e))
  BY <1>2, <1>3, <1>4
<1> QED
  BY <1>2, <1>5, GoneBack

LEMMA RedirectAnswersKept ==
  ASSUME ReaderInv, NEW c \in calls, R!RedirectAnswers(c)
  PROVE  ReaderInv'
<1>1. Kept(mailbox, cache, pages, calls, alone) /\ EntriesOk(cache, pages)
  BY InvParts
<1>2. /\ c.kind = "redirect" /\ calls' = calls \ {c} /\ cache' = cache /\ R!GoesBack
      /\ pages' = R!Unmounted(pages) /\ mailbox' = mailbox /\ delays' = delays /\ alone' = alone
  BY DEF R!RedirectAnswers
<1>3. ASSUME alone, NEW e \in Elems(cache) PROVE EntryTrue(mailbox[e.uid], e)
  <2>1. Coherent(mailbox, cache, pages, calls)
    BY <1>1, <1>3 DEF Kept
  <2> QED
    BY <1>2, <2>1, AnsweredEntries
<1>4. EntriesOk(cache', pages) /\ (alone => \A e \in Elems(cache') : EntryTrue(mailbox[e.uid], e))
  BY <1>1, <1>2, <1>3
<1> QED
  BY <1>2, <1>4, GoneBack

LEMMA CopyAnswersKept ==
  ASSUME ReaderInv, NEW c \in calls, R!CopyAnswers(c)
  PROVE  ReaderInv'
<1> DEFINE cs == calls \ {c}
<1>1. Kept(mailbox, cache, pages, calls, alone) /\ PagesOk(pages) /\ EntriesOk(cache, pages)
      /\ current \in 0..Len(pages) /\ mailbox \in [Opened -> Flags] /\ delays \in BOOLEAN
  BY InvParts
<1>2. /\ c.kind = "copy" /\ calls' = cs /\ cache' = cache /\ pages' = pages /\ mailbox' = mailbox
      /\ delays' = delays /\ alone' = alone /\ current' = current
  BY DEF R!CopyAnswers
<1>3. ASSUME alone, NEW e \in Elems(cache) PROVE EntryTrue(mailbox[e.uid], e)
  <2>1. Coherent(mailbox, cache, pages, calls)
    BY <1>1, <1>3 DEF Kept
  <2> QED
    BY <1>2, <2>1, AnsweredEntries
<1>4. Kept(mailbox, cache, pages, cs, alone)
  BY <1>1, <1>3, SameItself, AnsweredKept
<1> HIDE DEF cs
<1>5. mailbox' \in [Opened -> Flags] /\ current' \in 0..Len(pages') /\ delays' \in BOOLEAN
  BY <1>1, <1>2
<1>6. Kept(mailbox', cache', pages', calls', alone')
  BY <1>2, <1>4
<1> QED
  BY <1>5, <1>6, ReaderKept

LEMMA ReceiptAnswersKept ==
  ASSUME ReaderInv, R!SizesAssumption, NEW c \in calls, R!ReceiptAnswers(c)
  PROVE  ReaderInv'
<1> DEFINE p == c.page
           u == pages[p].uid
           pg == [pages[p] EXCEPT !.timer = FALSE, !.loading = TRUE, !.failed = FALSE]
           qs == [pages EXCEPT ![p] = pg]
           cb == R!Without(cache, u)
           cs == calls \ {c}
           ds == cs \cup {R!Call(p, "load", None)}
<1>1. Kept(mailbox, cache, pages, calls, alone) /\ PagesOk(pages) /\ EntriesOk(cache, pages)
      /\ current \in 0..Len(pages) /\ mailbox \in [Opened -> Flags] /\ delays \in BOOLEAN
      /\ p \in DOMAIN pages /\ pages[p] \in R!Page /\ CacheSize \in Nat /\ MaxOpens \in Nat
  BY InvParts DEF R!SizesAssumption
<1>2. /\ calls' = ds /\ cache' = cb /\ pages' = qs /\ mailbox' = mailbox /\ delays' = delays
      /\ alone' = alone /\ current' = current
  BY DEF R!ReceiptAnswers
<1>3. pg \in R!Page /\ pg.uid = u /\ pg.shown = pages[p].shown
  BY <1>1 DEF R!Page
<1> HIDE DEF pg
<1>4. PagesOk(qs) /\ DOMAIN qs = DOMAIN pages /\ Len(qs) = Len(pages) /\ SamePages(pages, qs)
  BY <1>1, <1>3, PageKept
<1> HIDE DEF qs
<1>5. EntriesOk(cb, pages) /\ \A e \in Elems(cb) : e \in Elems(cache) /\ e.uid # u
  BY <1>1, WithoutEntries
<1> HIDE DEF cb
<1>6. ASSUME alone, NEW e \in Elems(cb) PROVE EntryTrue(mailbox[e.uid], e)
  <2>1. Coherent(mailbox, cache, pages, calls)
    BY <1>1, <1>6 DEF Kept
  <2> QED
    BY <1>5, <2>1, AnsweredEntries
<1>7. EntriesOk(cb, qs) /\ SameUids(pages, qs)
  BY <1>4, <1>5, SameEntries, SamePagesUids
<1>8. Kept(mailbox, cb, qs, cs, alone)
  BY <1>1, <1>4, <1>6, <1>7, AnsweredKept
<1>10. Kept(mailbox, cb, qs, ds, alone)
  <2>1. CallsOk(ds, qs)
    BY <1>1, <1>4, <1>8, SentCalls DEF Kept, R!CallKinds
  <2>2. ASSUME alone PROVE Coherent(mailbox, cb, qs, ds)
    <3>1. Coherent(mailbox, cb, qs, cs) /\ cs = {}
      BY <1>1, <1>8, <2>2 DEF Kept, Coherent
    <3>2. Coherent(mailbox, cb, qs, {R!Call(p, "load", None)})
      BY <3>1, SentCoherent
    <3>3. ds = {R!Call(p, "load", None)}
      BY <3>1
    <3> QED
      BY <3>2, <3>3
  <2> QED
    BY <1>4, <1>7, <2>1, <2>2 DEF Kept
<1> HIDE DEF ds
<1>11. mailbox' \in [Opened -> Flags] /\ current' \in 0..Len(pages') /\ delays' \in BOOLEAN
  BY <1>1, <1>2, <1>4
<1>12. Kept(mailbox', cache', pages', calls', alone')
  BY <1>2, <1>10
<1> QED
  BY <1>11, <1>12, ReaderKept

\* A request that fails: its page is written or not, and so is the entry it shows.
LEMMA FailKept ==
  ASSUME ReaderInv, R!SizesAssumption, NEW c \in calls, R!Fail(c)
  PROVE  ReaderInv'
<1> DEFINE p == c.page
           pg == pages[p]
           cs == calls \ {c}
<1>1. Kept(mailbox, cache, pages, calls, alone) /\ PagesOk(pages) /\ EntriesOk(cache, pages)
      /\ current \in 0..Len(pages) /\ mailbox \in [Opened -> Flags] /\ delays \in BOOLEAN
      /\ p \in DOMAIN pages /\ pg \in R!Page /\ CallsOk(calls, pages) /\ (c.kind = "star" => c.value \in BOOLEAN)
  BY InvParts
<1>2. calls' = cs /\ alone' = FALSE /\ mailbox' = mailbox /\ current' = current /\ delays' = delays
  BY DEF R!Fail
<1>3. /\ PagesOk(pages') /\ Len(pages') = Len(pages) /\ SameUids(pages, pages')
      /\ EntriesOk(cache', pages')
  <2>1. CASE c.kind = "load"
    <3> DEFINE q == [pg EXCEPT !.shown = None, !.loading = FALSE, !.failed = pg.failed \/ faults' # faults]
               qs == [pages EXCEPT ![p] = q]
    <3>1. pages' = qs /\ cache' = cache
      BY <2>1 DEF R!Fail
    <3>2. q \in R!Page /\ q.uid = pg.uid /\ q.shown = None
      BY <1>1 DEF R!Page
    <3> HIDE DEF q
    <3>3. /\ PagesOk(qs) /\ DOMAIN qs = DOMAIN pages /\ Len(qs) = Len(pages) /\ SameUids(pages, qs)
          /\ qs[p] = q /\ \A r \in DOMAIN pages : r # p => qs[r] = pages[r]
      BY <1>1, <3>2, PageWritten
    <3> HIDE DEF qs
    <3>4. ASSUME NEW e \in Elems(cache) PROVE EntryOk(qs, e)
      <4>1. EntryOk(pages, e)
        BY <1>1 DEF EntriesOk
      <4>2. CASE e.page = p
        BY <3>2, <3>3, <4>1, <4>2 DEF EntryOk
      <4>3. CASE e.page # p
        BY <3>3, <4>1, <4>3, EntryElsewhere
      <4> QED
        BY <4>2, <4>3
    <3>5. EntriesOk(cache, qs)
      BY <1>1, <3>4 DEF EntriesOk
    <3> QED
      BY <3>1, <3>3, <3>5
  <2>2. CASE c.kind = "star" /\ pg.shown # None
    <3> DEFINE d == [pg.shown EXCEPT !.flagged = ~c.value]
               q == [pg EXCEPT !.shown = d]
               qs == [pages EXCEPT ![p] = q]
               cb == R!Written(cache, p, d)
    <3>1. pages' = qs /\ cache' = cb
      BY <2>2 DEF R!Fail
    <3>2. pg.shown \in R!Detail /\ pg.shown.uid = pg.uid /\ c.value \in BOOLEAN
      BY <1>1, <2>2 DEF R!Page, PagesOk
    <3>3. d \in R!Detail /\ d.uid = pg.uid
      BY <3>2, Toggled
    <3> HIDE DEF d
    <3>4. q \in R!Page /\ q.uid = pg.uid /\ q.shown = d
      BY <1>1, <3>3 DEF R!Page
    <3> HIDE DEF q
    <3>5. /\ PagesOk(qs) /\ DOMAIN qs = DOMAIN pages /\ Len(qs) = Len(pages) /\ SameUids(pages, qs)
          /\ qs[p] = q /\ \A r \in DOMAIN pages : r # p => qs[r] = pages[r]
      BY <1>1, <3>3, <3>4, PageWritten
    <3> HIDE DEF qs
    <3>6. EntriesOk(cb, qs)
      BY <1>1, <3>3, <3>4, <3>5, WrittenEntries
    <3> QED
      BY <3>1, <3>5, <3>6
  <2>3. CASE c.kind # "load" /\ ~(c.kind = "star" /\ pg.shown # None)
    <3>1. pages' = pages /\ cache' = cache
      BY <2>3 DEF R!Fail
    <3> QED
      BY <1>1, <3>1, SameItself
  <2> QED
    BY <2>1, <2>2, <2>3
<1>4. CallsOk(cs, pages')
  <2>1. CallsOk(calls, pages')
    BY <1>1, <1>3, SameCalls
  <2> QED
    BY <2>1, FewerCalls
<1> HIDE DEF cs
<1>5. Kept(mailbox, cache', pages', cs, alone')
  BY <1>2, <1>3, <1>4 DEF Kept
<1>6. mailbox' \in [Opened -> Flags] /\ current' \in 0..Len(pages') /\ delays' \in BOOLEAN
  BY <1>1, <1>2, <1>3
<1>7. Kept(mailbox', cache', pages', calls', alone')
  BY <1>2, <1>5
<1> QED
  BY <1>6, <1>7, ReaderKept

LEMMA ReaderInit ==
  ASSUME R!SizesAssumption, R!Init
  PROVE  ReaderInv
<1>1. /\ mailbox = [u \in Opened |-> [seen |-> FALSE, flagged |-> FALSE, gone |-> FALSE]]
      /\ cache = <<>> /\ pages = <<>> /\ current = 0 /\ calls = {} /\ delays \in BOOLEAN
      /\ CacheSize \in Nat /\ MaxOpens \in Nat
  BY DEF R!Init, R!SizesAssumption
<1>2. mailbox \in [Opened -> Flags]
  BY <1>1 DEF Flags
<1>3. cache \in Seq(EntrySet) /\ pages \in Seq(R!Page) /\ Len(cache) = 0 /\ Len(pages) = 0
      /\ DOMAIN cache = {} /\ DOMAIN pages = {}
  BY <1>1, EmptySeq
<1>4. CacheOk(cache) /\ Elems(cache) = {}
  BY <1>1, <1>3 DEF CacheOk, OnePerUid, Elems
<1>5. PagesOk(pages) /\ current \in 0..Len(pages)
  BY <1>1, <1>3 DEF PagesOk
<1>6. EntriesOk(cache, pages) /\ CallsOk(calls, pages) /\ Coherent(mailbox, cache, pages, calls)
  BY <1>1, <1>4 DEF EntriesOk, CallsOk, Coherent
<1> QED
  BY <1>1, <1>2, <1>5, <1>6 DEF ReaderInv, Kept

LEMMA ReaderStep ==
  ASSUME ReaderInv, R!SizesAssumption, [R!Next]_(R!vars)
  PROVE  ReaderInv'
<1>1. CASE UNCHANGED R!vars
  <2>1. /\ mailbox' = mailbox /\ cache' = cache /\ pages' = pages /\ current' = current /\ calls' = calls
        /\ delays' = delays /\ alone' = alone
    BY <1>1 DEF R!vars
  <2>2. mailbox' \in [Opened -> Flags] /\ current' \in 0..Len(pages') /\ delays' \in BOOLEAN
    BY <2>1 DEF ReaderInv
  <2>3. Kept(mailbox', cache', pages', calls', alone')
    BY <2>1 DEF ReaderInv
  <2> QED
    BY <2>2, <2>3, ReaderKept
<1>2. ASSUME NEW u \in Opened, R!Open(u) \/ R!Other(u) PROVE ReaderInv'
  BY <1>2, OpenKept, OtherKept
<1>3. CASE R!Back \/ R!Star \/ R!Retry
  BY <1>3, BackKept, StarKept, RetryKept
<1>4. ASSUME NEW kind \in R!Buttons, R!Ask(kind) PROVE ReaderInv'
  BY <1>4, AskKept
<1>5. ASSUME NEW p \in DOMAIN pages, R!TimerFires(p) PROVE ReaderInv'
  BY <1>5, TimerKept
<1>6. ASSUME NEW c \in calls, R!Serve(c) PROVE ReaderInv'
  BY <1>6, ServeKept
<1>7. ASSUME NEW c \in calls, R!Answers(c) PROVE ReaderInv'
  <2>1. CASE R!LoadAnswers(c)
    BY <2>1, LoadAnswersKept
  <2>2. CASE R!MarkAnswers(c)
    BY <2>2, MarkAnswersKept
  <2>3. CASE R!UnreadAnswers(c)
    BY <2>3, UnreadAnswersKept
  <2>4. CASE R!RemoveAnswers(c)
    BY <2>4, RemoveAnswersKept
  <2>5. CASE R!StarAnswers(c)
    BY <2>5, StarAnswersKept
  <2>6. CASE R!ReceiptAnswers(c)
    BY <2>6, ReceiptAnswersKept
  <2>7. CASE R!RedirectAnswers(c)
    BY <2>7, RedirectAnswersKept
  <2>8. CASE R!CopyAnswers(c)
    BY <2>8, CopyAnswersKept
  <2> QED
    BY <1>7, <2>1, <2>2, <2>3, <2>4, <2>5, <2>6, <2>7, <2>8 DEF R!Answers
<1>8. ASSUME NEW c \in calls, R!Fail(c) PROVE ReaderInv'
  BY <1>8, FailKept
<1>9. CASE R!Next
  BY <1>2, <1>3, <1>4, <1>5, <1>6, <1>7, <1>8, <1>9 DEF R!Next
<1> QED
  BY <1>1, <1>9

\* The types, and what the cache and the pages promise.
LEMMA ReaderInvSound ==
  ASSUME ReaderInv, R!SizesAssumption
  PROVE  R!TypeOK /\ R!ReaderConsistent
<1>1. /\ mailbox \in [Opened -> Flags] /\ PagesOk(pages) /\ current \in 0..Len(pages)
      /\ EntriesOk(cache, pages) /\ CacheOk(cache) /\ CallsOk(calls, pages)
      /\ (alone => Coherent(mailbox, cache, pages, calls))
      /\ cache \in Seq(EntrySet) /\ Len(cache) <= CacheSize
  BY DEF ReaderInv, Kept, EntriesOk, CacheOk
<1>2. R!TypeOK
  <2>1. \A c \in calls : c.page \in DOMAIN pages /\ c.kind \in R!CallKinds
    BY <1>1, CallFacts
  <2> QED
    BY <1>1, <2>1 DEF R!TypeOK, Flags, EntrySet, PagesOk
<1>3. R!DetailOfItsKey
  <2>1. ASSUME NEW k \in DOMAIN cache PROVE cache[k].detail.uid = cache[k].uid
    <3>1. cache[k] \in Elems(cache)
      BY DEF Elems
    <3> QED
      BY <1>1, <3>1 DEF EntriesOk, EntryOk
  <2> QED
    BY <1>1, <2>1 DEF R!DetailOfItsKey, PagesOk
<1>4. R!CacheTrue
  <2> SUFFICES ASSUME alone, calls = {}, NEW k \in DOMAIN cache
               PROVE  LET m == mailbox[cache[k].uid]
                      IN  ~m.gone /\ cache[k].detail.seen = m.seen /\ cache[k].detail.flagged = m.flagged
    BY DEF R!CacheTrue
  <2>1. cache[k] \in Elems(cache)
    BY DEF Elems
  <2>2. Agrees(mailbox[cache[k].uid], pages, {}, cache[k])
    BY <1>1, <2>1 DEF Coherent
  <2> QED
    BY <2>2 DEF Agrees
<1> QED
  BY <1>1, <1>2, <1>3, <1>4 DEF R!ReaderConsistent

\* A message is cached once, under its own key and with what the server says of it while requests come
\* one at a time; a page shows its own message (stores/cache.ts, pages/mail/[folder]/[uid].vue), for any
\* number of messages and pages and any size of the cache but zero.
THEOREM ReaderCorrect ==
  ASSUME R!SizesAssumption
  PROVE  R!Spec => []ReaderSound
<1>1. R!Init => ReaderInv
  BY ReaderInit
<1>2. ReaderInv /\ [R!Next]_(R!vars) => ReaderInv'
  BY ReaderStep
<1>3. ReaderInv => ReaderSound
  BY ReaderInvSound DEF ReaderSound
<1> QED
  BY <1>1, <1>2, <1>3, PTL DEF R!Spec
=============================================================================

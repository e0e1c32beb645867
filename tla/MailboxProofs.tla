--------------------------- MODULE MailboxProofs ---------------------------
(***************************************************************************)
(* Proofs about Mailbox, for any folders, messages and requests: the type  *)
(* invariant and MailboxSound, which the run of MCMail checks on a small   *)
(* instance.                                                               *)
(*                                                                         *)
(* A request holds a path and uids that it read before other commands took *)
(* place.  What keeps it right is that neither is ever given again: a path *)
(* is created once, and the uids of a folder only grow.  So Evolves, which *)
(* says of a step that the entries of a folder that stays are those it had *)
(* or have later uids, preserves what every other request counts on        *)
(* (RequestOk): that the uids of a request to mark messages are those of   *)
(* messages it was asked to mark, and that what is left in a folder about  *)
(* to be deleted is a stray.                                               *)
(***************************************************************************)
EXTENDS Mailbox, FiniteSetTheorems, SequenceTheorems, WellFoundedInduction, TLAPS

\* Folders hold finitely many entries, of uids given already.
BoxesInv ==
  \A p \in DOMAIN folder :
    IsFiniteSet(folder[p].box) /\ \A e \in folder[p].box : e.uid < folder[p].next

\* Requests that have been asked to mark the messages of their uids.
Marking(r) == req[r].kind \in {"flags", "open"} \/ At(r, "mark-read", "act")

\* What a request counts on, of the folder it names if that is still there.
UidsGiven(r) == \A u \in req[r].uids : u < folder[req[r].path].next

MarkedOk(r) ==
  Marking(r) => \A e \in folder[req[r].path].box : e.uid \in req[r].uids => e.msg \in marked

LeftAreStrays(r) ==
  req[r].kind = "rmdir" /\ req[r].pc \in {"check", "commit"} =>
    MsgsOf(folder[req[r].path].box) \subseteq strays

\* And what it has found out before.
Knows(r) ==
  /\ req[r].pc \notin Ended => req[r].path \in used
  /\ req[r].kind \in {"rename", "create"} => req[r].dest \in Paths
  /\ req[r].kind = "rename" => req[r].path \in Renameable
  /\ req[r].kind = "rmdir" =>
       /\ req[r].pc \in {"uids", "fetch", "act", "check", "commit"} /\ req[r].sure =>
            UserUse(req[r].path) = "none"
       /\ req[r].pc = "commit" => ServerUse(req[r].path) = "none"
  /\ At(r, "rename", "check") \/ At(r, "rename", "commit") => ServerUse(req[r].path) = "none"
  /\ At(r, "delete", "list") /\ req[r].dest # NoPath => req[r].dest = req[r].path
  /\ At(r, "delete", "list") /\ req[r].dest # NoPath /\ req[r].sure => mode = "permanent"
  /\ At(r, "delete", "act") /\ Permanent(r) /\ req[r].sure => ForGood(req[r].path)

RequestOk(r) ==
  /\ Knows(r)
  /\ req[r].pc \notin Ended /\ req[r].path \in DOMAIN folder =>
       UidsGiven(r) /\ MarkedOk(r) /\ LeftAreStrays(r)

\* What is always there.
SpecialThere == Special \subseteq DOMAIN folder

Inv ==
  /\ TypeOK /\ BoxesInv /\ NothingLost /\ UnreadUntilMarked /\ SpecialThere
  /\ \A r \in Requests : RequestOk(r)

----------------------------------------------------------------------------
(* What the commands make of folders and of entries.                       *)

LEMMA WithFacts ==
  ASSUME NEW D, NEW f \in [D -> Folder], NEW p \in D, NEW b \in SUBSET Entry
  PROVE  /\ With(f, p, b) \in [D -> Folder]
         /\ \A c \in D :
              /\ With(f, p, b)[c].box = IF c = p THEN b ELSE f[c].box
              /\ With(f, p, b)[c].next = f[c].next
              /\ With(f, p, b)[c].subscribed = f[c].subscribed
BY DEF Folder, With

Later(f, q, es) == f[q].next + Cardinality(es)

LEMMA PutFacts ==
  ASSUME NEW D, NEW f \in [D -> Folder], NEW q \in D, NEW es,
         Appended(q, es) \in SUBSET Entry, Later(f, q, es) \in 1..(MaxUid + 1)
  PROVE  /\ Put(f, q, es) \in [D -> Folder]
         /\ \A c \in D :
              /\ Put(f, q, es)[c].box =
                   IF c = q THEN f[c].box \union Appended(q, es) ELSE f[c].box
              /\ Put(f, q, es)[c].next = IF c = q THEN Later(f, q, es) ELSE f[c].next
              /\ Put(f, q, es)[c].subscribed = f[c].subscribed
<1> DEFINE n == Cardinality(es)
           b == f[q].box \union Appended(q, es)
           z == With(f, q, b)
<1>1. b \in SUBSET Entry
  BY DEF Folder
<1>2. z[q].next = f[q].next
  BY <1>1, WithFacts
<1>3. Put(f, q, es) = [z EXCEPT ![q].next = f[q].next + n]
  BY <1>2 DEF Put, With
<1> HIDE DEF b, n, z
<1>4. /\ z \in [D -> Folder]
      /\ \A c \in D :
           /\ z[c].box = IF c = q THEN b ELSE f[c].box
           /\ z[c].next = f[c].next /\ z[c].subscribed = f[c].subscribed
  BY <1>1, WithFacts DEF z
<1>5. Later(f, q, es) = f[q].next + n /\ f[q].next + n \in 1..(MaxUid + 1)
  BY DEF n, Later
<1>6. /\ Put(f, q, es) \in [D -> Folder]
      /\ \A c \in D :
           /\ Put(f, q, es)[c].box = z[c].box
           /\ Put(f, q, es)[c].next = IF c = q THEN f[q].next + n ELSE z[c].next
           /\ Put(f, q, es)[c].subscribed = z[c].subscribed
  BY <1>3, <1>4, <1>5 DEF Folder
<1> QED
  BY <1>4, <1>5, <1>6 DEF b

\* The new entries of a folder have the messages of the old ones, and later uids.
LEMMA AppendedFacts ==
  ASSUME TypeOK, NEW q \in DOMAIN folder, NEW es \in SUBSET Entry, IsFiniteSet(es),
         Fits(q, es)
  PROVE  /\ Cardinality(es) \in Nat
         /\ folder[q].next + Cardinality(es) \in 1..(MaxUid + 1)
         /\ IsFiniteSet(Appended(q, es)) /\ Appended(q, es) \subseteq Entry
         /\ \A e \in Appended(q, es) :
              /\ folder[q].next <= e.uid /\ e.uid < folder[q].next + Cardinality(es)
              /\ \E d \in es : d.msg = e.msg /\ d.seen = e.seen
         /\ \A d \in es : \E e \in Appended(q, es) : e.msg = d.msg
<1> DEFINE n == folder[q].next
           before(e) == Cardinality({d \in es : d.uid < e.uid})
           new(e) == [e EXCEPT !.uid = n + before(e)]
<1>1. n \in 1..(MaxUid + 1) /\ MaxUid \in Nat
  BY BoundsAssumption DEF TypeOK, Folder
<1>2. Cardinality(es) \in Nat
  BY FS_CardinalityType
<1>3. n + Cardinality(es) <= MaxUid + 1
  BY DEF Fits
<1>4. ASSUME NEW e \in es
      PROVE  before(e) \in Nat /\ before(e) < Cardinality(es)
  <2> DEFINE B == {d \in es : d.uid < e.uid}
  <2>1. e.uid \in Nat
    BY <1>1 DEF Entry
  <2>2. B \subseteq es /\ e \notin B
    BY <2>1
  <2> HIDE DEF B
  <2>3. IsFiniteSet(B) /\ Cardinality(B) <= Cardinality(es) /\ Cardinality(B) \in Nat
    BY <2>2, FS_Subset, FS_CardinalityType
  <2>4. Cardinality(B) # Cardinality(es)
    BY <2>2, FS_Subset
  <2>5. Cardinality(B) < Cardinality(es)
    BY <1>2, <2>3, <2>4
  <2> QED
    BY <2>3, <2>5 DEF B
<1>5. Appended(q, es) = {new(e) : e \in es}
  BY DEF Appended
<1> HIDE DEF n, before
<1>6. IsFiniteSet({new(e) : e \in es})
  <2> DEFINE T == {new(e) : e \in es}
             g == [e \in es |-> new(e)]
  <2>1. g \in [es -> T] /\ \A t \in T : \E e \in es : g[e] = t
    OBVIOUS
  <2> HIDE DEF g, T
  <2>2. g \in Surjection(es, T)
    BY <2>1 DEF Surjection
  <2>3. IsFiniteSet(T)
    BY <2>2, FS_Surjection
  <2> QED
    BY <2>3 DEF T
<1>7. ASSUME NEW e \in es
      PROVE  /\ new(e) \in Entry /\ new(e).msg = e.msg /\ new(e).seen = e.seen
             /\ n <= new(e).uid /\ new(e).uid < n + Cardinality(es)
  <2>1. n + before(e) \in 1..MaxUid
    BY <1>1, <1>2, <1>3, <1>4
  <2>2. new(e).uid = n + before(e)
    BY DEF Entry
  <2> QED
    BY <1>1, <1>2, <1>4, <2>1, <2>2 DEF Entry
<1>8. n + Cardinality(es) \in 1..(MaxUid + 1)
  BY <1>1, <1>2, <1>3
<1> QED
  BY <1>2, <1>5, <1>6, <1>7, <1>8 DEF n

----------------------------------------------------------------------------
(* Steps that change entries of the folders there are.                     *)

FoldersType ==
  /\ DOMAIN folder \subseteq Paths /\ folder \in [DOMAIN folder -> Folder]
  /\ used \in SUBSET Paths /\ DOMAIN folder \subseteq used
  /\ chosen \in TrashChoices
  /\ arrived \in SUBSET Msgs /\ removed \in SUBSET Msgs
  /\ strays \in SUBSET Msgs /\ marked \in SUBSET Msgs

FoldersInv == FoldersType /\ BoxesInv /\ NothingLost /\ UnreadUntilMarked /\ SpecialThere

\* The entries of a folder that stays are those it had, with new flags perhaps, or
\* have later uids; a folder being deleted notes them.
Evolves ==
  /\ used \subseteq used' /\ strays \subseteq strays' /\ marked \subseteq marked'
  /\ \A c \in used \intersect DOMAIN folder' :
       /\ c \in DOMAIN folder /\ folder[c].next <= folder'[c].next
       /\ \A e \in folder'[c].box :
            \/ \E d \in folder[c].box : d.uid = e.uid /\ d.msg = e.msg
            \/ folder[c].next <= e.uid /\ (Deleting(c) => e.msg \in strays')

\* The same for a step that keeps the folders, and what else such a step must see
\* to: no message gets lost, or read, by it.
SameFolders ==
  /\ folder' \in [DOMAIN folder -> Folder]
  /\ \A c \in DOMAIN folder :
       /\ IsFiniteSet(folder'[c].box)
       /\ folder[c].next <= folder'[c].next
  /\ used' = used /\ chosen' \in TrashChoices \union {chosen}

Origin ==
  \A c \in DOMAIN folder : \A e \in folder'[c].box :
    \/ \E d \in folder[c].box : d.uid = e.uid /\ d.msg = e.msg
    \/ /\ folder[c].next <= e.uid /\ e.uid < folder'[c].next
       /\ Deleting(c) => e.msg \in strays'

SeenBefore ==
  \A c \in DOMAIN folder' : \A e \in folder'[c].box :
    e.seen => \/ e.msg \in marked'
              \/ \E b \in DOMAIN folder : \E d \in folder[b].box : d.seen /\ d.msg = e.msg

StillThere ==
  \A b \in DOMAIN folder : \A d \in folder[b].box :
    \/ d.msg \in removed' \union strays'
    \/ \E c \in DOMAIN folder' : \E e \in folder'[c].box : e.msg = d.msg

Noted ==
  /\ removed \subseteq removed' /\ strays \subseteq strays' /\ marked \subseteq marked'
  /\ {removed', strays', marked', arrived'} \subseteq SUBSET Msgs
  /\ \A m \in arrived' : m \in arrived \/ \E c \in DOMAIN folder' : m \in MsgsOf(folder'[c].box)

LEMMA InvParts ==
  ASSUME Inv
  PROVE  TypeOK /\ FoldersInv
BY DEF Inv, FoldersInv, FoldersType, TypeOK

LEMMA NothingLostStep ==
  ASSUME NothingLost, StillThere, Noted
  PROVE  NothingLost'
<1> SUFFICES ASSUME NEW m \in arrived'
             PROVE  \/ \E c \in DOMAIN folder' : m \in MsgsOf(folder'[c].box)
                    \/ m \in removed' \union strays'
  BY DEF NothingLost, Kept, MsgsOf
<1>1. CASE m \in arrived
  <2>1. CASE m \in removed \union strays
    BY <2>1 DEF Noted
  <2>2. CASE \E b \in DOMAIN folder : m \in MsgsOf(folder[b].box)
    BY <2>2 DEF StillThere, MsgsOf
  <2> QED
    BY <1>1, <2>1, <2>2 DEF NothingLost, Kept
<1>2. CASE m \notin arrived
  BY <1>2 DEF Noted
<1> QED
  BY <1>1, <1>2

LEMMA UnreadStep ==
  ASSUME UnreadUntilMarked, SeenBefore, Noted
  PROVE  UnreadUntilMarked'
BY DEF UnreadUntilMarked, SeenBefore, Noted

LEMMA EntriesStep ==
  ASSUME Inv, SameFolders, Origin, SeenBefore, StillThere, Noted
  PROVE  FoldersInv' /\ Evolves
<1>1. FoldersInv
  BY InvParts
<1>2. DOMAIN folder' = DOMAIN folder
  BY DEF SameFolders
<1>3. FoldersType'
  BY <1>1, <1>2 DEF FoldersInv, FoldersType, SameFolders, Noted
<1>4. BoxesInv'
  <2> SUFFICES ASSUME NEW c \in DOMAIN folder, NEW e \in folder'[c].box
               PROVE  e.uid < folder'[c].next
    BY <1>2 DEF BoxesInv, SameFolders
  <2>1. /\ e \in Entry /\ e.uid \in Int
        /\ folder[c].next \in Int /\ folder'[c].next \in Int
    BY <1>1, BoundsAssumption DEF SameFolders, FoldersInv, FoldersType, Folder, Entry
  <2>2. CASE \E d \in folder[c].box : d.uid = e.uid /\ d.msg = e.msg
    <3>1. e.uid < folder[c].next
      BY <1>1, <2>2 DEF FoldersInv, BoxesInv
    <3> QED
      BY <2>1, <3>1 DEF SameFolders
  <2> QED
    BY <2>2 DEF Origin
<1>5. NothingLost' /\ UnreadUntilMarked'
  BY <1>1, NothingLostStep, UnreadStep DEF FoldersInv
<1>6. SpecialThere'
  BY <1>1, <1>2
     DEF FoldersInv, SpecialThere, SameFolders
<1>7. Evolves
  BY <1>2 DEF Evolves, SameFolders, Origin, Noted
<1> QED
  BY <1>3, <1>4, <1>5, <1>6, <1>7 DEF FoldersInv

\* The folders do not change.
LEMMA StayStep ==
  ASSUME Inv, UNCHANGED <<folder, used, arrived, removed>>,
         chosen' \in TrashChoices \union {chosen},
         marked \subseteq marked', marked' \subseteq Msgs,
         strays \subseteq strays', strays' \subseteq Msgs
  PROVE  FoldersInv' /\ Evolves
<1>1. FoldersInv
  BY InvParts
<1>2. SameFolders
  BY <1>1, BoundsAssumption DEF FoldersInv, FoldersType, BoxesInv, SameFolders, Folder
<1>3. Origin /\ SeenBefore /\ StillThere
  BY DEF Origin, SeenBefore, StillThere
<1>4. Noted
  BY <1>1 DEF Noted, FoldersInv, FoldersType
<1> QED
  BY <1>2, <1>3, <1>4, EntriesStep

LEMMA SelectedFacts ==
  ASSUME Inv, NEW p \in DOMAIN folder, NEW us
  PROVE  /\ Selected(p, us) \subseteq folder[p].box /\ Selected(p, us) \in SUBSET Entry
         /\ IsFiniteSet(Selected(p, us))
         /\ folder[p].box \in SUBSET Entry /\ IsFiniteSet(folder[p].box)
         /\ folder[p].next \in Nat /\ \A e \in folder[p].box : e.uid < folder[p].next
<1>1. folder[p] \in Folder /\ IsFiniteSet(folder[p].box)
  BY InvParts DEF FoldersInv, FoldersType, BoxesInv
<1>2. folder[p].box \in SUBSET Entry /\ folder[p].next \in Nat
  BY <1>1, BoundsAssumption DEF Folder
<1>3. Selected(p, us) \subseteq folder[p].box
  BY DEF Selected
<1>4. IsFiniteSet(Selected(p, us))
  BY <1>1, <1>3, FS_Subset
<1> QED
  BY <1>1, <1>2, <1>3, <1>4, InvParts DEF FoldersInv, BoxesInv

LEMMA MessagesOf ==
  ASSUME Inv, NEW es \in SUBSET Entry
  PROVE  MsgsOf(es) \subseteq Msgs
BY DEF MsgsOf, Entry

LEMMA NotesStray ==
  ASSUME Inv, NEW q, NEW es \in SUBSET Entry, NoteStray(q, es)
  PROVE  /\ strays \subseteq strays' /\ strays' \subseteq Msgs
         /\ Deleting(q) => MsgsOf(es) \subseteq strays'
<1>1. strays \subseteq Msgs
  BY DEF Inv, TypeOK
<1> QED
  BY <1>1, MessagesOf DEF NoteStray

\* Entries es are put into folder q, in folders z that have lost some of them.
LEMMA PutStep ==
  ASSUME Inv, NEW q \in DOMAIN folder, NEW es \in SUBSET Entry, IsFiniteSet(es), Fits(q, es),
         NoteStray(q, es), UNCHANGED <<used, chosen, removed, marked>>,
         NEW z \in [DOMAIN folder -> Folder], folder' = Put(z, q, es),
         \A c \in DOMAIN folder :
           /\ z[c].next = folder[c].next /\ z[c].subscribed = folder[c].subscribed
           /\ z[c].box \subseteq folder[c].box
           /\ \A d \in folder[c].box : d \in z[c].box \/ d \in es,
         \A e \in es : e.seen => \E a \in DOMAIN folder : e \in folder[a].box,
         arrived \subseteq arrived', arrived' \subseteq arrived \union MsgsOf(es)
  PROVE  FoldersInv' /\ Evolves
<1>1. FoldersInv /\ TypeOK
  BY InvParts
<1>2. /\ Cardinality(es) \in Nat
      /\ folder[q].next + Cardinality(es) \in 1..(MaxUid + 1)
      /\ IsFiniteSet(Appended(q, es)) /\ Appended(q, es) \in SUBSET Entry
      /\ \A e \in Appended(q, es) :
           /\ folder[q].next <= e.uid /\ e.uid < folder[q].next + Cardinality(es)
           /\ \E d \in es : d.msg = e.msg /\ d.seen = e.seen
      /\ \A d \in es : \E e \in Appended(q, es) : e.msg = d.msg
  BY <1>1, AppendedFacts
<1>3. /\ Later(z, q, es) = folder[q].next + Cardinality(es)
      /\ Later(z, q, es) \in 1..(MaxUid + 1)
  BY <1>2 DEF Later
<1>4. /\ folder' \in [DOMAIN folder -> Folder]
      /\ \A c \in DOMAIN folder :
           /\ folder'[c].box = IF c = q THEN z[c].box \union Appended(q, es) ELSE z[c].box
           /\ folder'[c].next = IF c = q THEN folder[q].next + Cardinality(es) ELSE folder[c].next
           /\ folder'[c].subscribed = z[c].subscribed
  <2> DEFINE g == Put(z, q, es)
  <2>1. /\ g \in [DOMAIN folder -> Folder]
        /\ \A c \in DOMAIN folder :
             /\ g[c].box = IF c = q THEN z[c].box \union Appended(q, es) ELSE z[c].box
             /\ g[c].next = IF c = q THEN Later(z, q, es) ELSE z[c].next
             /\ g[c].subscribed = z[c].subscribed
    <3>1. /\ z \in [DOMAIN folder -> Folder] /\ q \in DOMAIN folder
          /\ Appended(q, es) \in SUBSET Entry /\ Later(z, q, es) \in 1..(MaxUid + 1)
      BY <1>2, <1>3
    <3> QED
      BY ONLY <3>1, PutFacts
  <2>2. folder' = g
    OBVIOUS
  <2> HIDE DEF g
  <2> QED
    BY <1>3, <2>1, <2>2
<1>5. /\ strays \subseteq strays' /\ strays' \subseteq Msgs
      /\ Deleting(q) => MsgsOf(es) \subseteq strays'
  BY NotesStray
<1>6. SameFolders
  <2>1. ASSUME NEW c \in DOMAIN folder
        PROVE  IsFiniteSet(folder'[c].box) /\ folder[c].next <= folder'[c].next
    <3>1. folder[c].next \in Nat /\ IsFiniteSet(folder[c].box)
      BY SelectedFacts
    <3>2. IsFiniteSet(z[c].box)
      BY <3>1, FS_Subset
    <3>3. IsFiniteSet(z[c].box \union Appended(q, es))
      BY <1>2, <3>2, FS_Union
    <3>4. folder'[c].box \in {z[c].box \union Appended(q, es), z[c].box}
      BY <1>4
    <3>5. folder'[c].next \in {folder[c].next + Cardinality(es), folder[c].next}
      BY <1>4
    <3>6. folder[c].next <= folder'[c].next
      BY <1>2, <3>1, <3>5
    <3> QED
      BY <3>2, <3>3, <3>4, <3>6
  <2> QED
    BY <1>4, <2>1 DEF SameFolders
<1>7. Origin
  <2> SUFFICES ASSUME NEW c \in DOMAIN folder, NEW e \in folder'[c].box
               PROVE  \/ \E d \in folder[c].box : d.uid = e.uid /\ d.msg = e.msg
                      \/ /\ folder[c].next <= e.uid /\ e.uid < folder'[c].next
                         /\ Deleting(c) => e.msg \in strays'
    BY DEF Origin
  <2>1. CASE e \in z[c].box
    BY <2>1
  <2>2. CASE c = q /\ e \in Appended(q, es)
    <3>1. folder'[c].next = folder[q].next + Cardinality(es)
      BY <1>4, <2>2
    <3>2. e.msg \in MsgsOf(es)
      BY <1>2, <2>2 DEF MsgsOf
    <3> QED
      BY <1>2, <1>5, <2>2, <3>1, <3>2
  <2> QED
    BY <1>4, <2>1, <2>2
<1>8. SeenBefore
  <2> SUFFICES ASSUME NEW c \in DOMAIN folder, NEW e \in folder'[c].box, e.seen
               PROVE  \E a \in DOMAIN folder : \E d \in folder[a].box : d.seen /\ d.msg = e.msg
    BY <1>4 DEF SeenBefore
  <2>1. CASE e \in z[c].box
    BY <2>1
  <2>2. CASE c = q /\ e \in Appended(q, es)
    <3>1. PICK d \in es : d.msg = e.msg /\ d.seen = e.seen
      BY <1>2, <2>2
    <3> QED
      BY <3>1
  <2> QED
    BY <1>4, <2>1, <2>2
<1>9. ASSUME NEW d \in es
      PROVE  \E e \in folder'[q].box : e.msg = d.msg
  BY <1>2, <1>4
<1>10. StillThere
  <2> SUFFICES ASSUME NEW a \in DOMAIN folder, NEW d \in folder[a].box
               PROVE  \E c \in DOMAIN folder : \E e \in folder'[c].box : e.msg = d.msg
    BY <1>4 DEF StillThere
  <2>1. CASE d \in es
    BY <1>9, <2>1
  <2>2. CASE d \notin es
    BY <1>4, <2>2
  <2> QED
    BY <2>1, <2>2
<1>11. Noted
  <2>1. \A m \in MsgsOf(es) : m \in MsgsOf(folder'[q].box)
    BY <1>9 DEF MsgsOf
  <2>2. MsgsOf(es) \subseteq Msgs
    BY MessagesOf
  <2> QED
    BY <1>1, <1>4, <1>5, <2>1, <2>2 DEF Noted, FoldersInv, FoldersType
<1> QED
  BY <1>6, <1>7, <1>8, <1>10, <1>11, EntriesStep

LEMMA MovedStep ==
  ASSUME Inv, NEW p \in DOMAIN folder, NEW us, NEW q \in DOMAIN folder, Moved(p, us, q),
         UNCHANGED <<used, chosen, arrived, removed, marked>>
  PROVE  FoldersInv' /\ Evolves
<1> DEFINE es == Selected(p, us)
           z == With(folder, p, folder[p].box \ es)
<1>1. /\ es \subseteq folder[p].box /\ es \in SUBSET Entry /\ IsFiniteSet(es)
      /\ folder[p].box \ es \in SUBSET Entry /\ folder \in [DOMAIN folder -> Folder]
  BY SelectedFacts, InvParts DEF FoldersInv, FoldersType
<1>2. Fits(q, es) /\ NoteStray(q, es) /\ folder' = Put(z, q, es)
  BY DEF Moved
<1> HIDE DEF es
<1>3. /\ z \in [DOMAIN folder -> Folder]
      /\ \A c \in DOMAIN folder :
           /\ z[c].box = IF c = p THEN folder[p].box \ es ELSE folder[c].box
           /\ z[c].next = folder[c].next /\ z[c].subscribed = folder[c].subscribed
  BY <1>1, WithFacts
<1> HIDE DEF z
<1>4. \A c \in DOMAIN folder :
        /\ z[c].next = folder[c].next /\ z[c].subscribed = folder[c].subscribed
        /\ z[c].box \subseteq folder[c].box
        /\ \A d \in folder[c].box : d \in z[c].box \/ d \in es
  BY <1>3
<1>5. \A e \in es : e.seen => \E a \in DOMAIN folder : e \in folder[a].box
  BY <1>1
<1> QED
  BY <1>1, <1>2, <1>3, <1>4, <1>5, PutStep

LEMMA CopiedStep ==
  ASSUME Inv, NEW p \in DOMAIN folder, NEW us, NEW q \in DOMAIN folder, Copied(p, us, q),
         UNCHANGED <<used, chosen, arrived, removed, marked>>
  PROVE  FoldersInv' /\ Evolves
<1> DEFINE es == Selected(p, us)
<1>1. /\ es \subseteq folder[p].box /\ es \in SUBSET Entry /\ IsFiniteSet(es)
      /\ folder \in [DOMAIN folder -> Folder]
  BY SelectedFacts, InvParts DEF FoldersInv, FoldersType
<1>2. Fits(q, es) /\ NoteStray(q, es) /\ folder' = Put(folder, q, es)
  BY DEF Copied
<1> HIDE DEF es
<1>3. \A e \in es : e.seen => \E a \in DOMAIN folder : e \in folder[a].box
  BY <1>1
<1> QED
  BY <1>1, <1>2, <1>3, PutStep

LEMMA DeliverStep ==
  ASSUME Inv, NEW m \in Msgs, NEW p \in Paths, Deliver(m, p)
  PROVE  FoldersInv' /\ Evolves
<1> DEFINE es == {[uid |-> 1, msg |-> m, seen |-> FALSE]}
<1>1. /\ p \in DOMAIN folder /\ Fits(p, es) /\ NoteStray(p, es) /\ folder' = Put(folder, p, es)
      /\ arrived' = arrived \union {m} /\ UNCHANGED <<used, chosen, removed, marked>>
  BY DEF Deliver
<1>2. IsFiniteSet(es) /\ Cardinality(es) = 1 /\ MsgsOf(es) = {m}
  <2>1. MsgsOf(es) = {m}
    BY DEF MsgsOf
  <2> QED
    BY <2>1, FS_Singleton
<1>3. folder \in [DOMAIN folder -> Folder] /\ folder[p].next \in Nat
  BY <1>1, SelectedFacts, InvParts DEF FoldersInv, FoldersType
<1>4. MaxUid >= 1
  BY <1>1, <1>2, <1>3, BoundsAssumption, InvParts DEF Fits, FoldersInv, FoldersType, Folder
<1>5. es \in SUBSET Entry
  BY <1>4, BoundsAssumption DEF Entry
<1>6. \A e \in es : ~e.seen
  OBVIOUS
<1> HIDE DEF es
<1> QED
  BY <1>1, <1>2, <1>3, <1>5, <1>6, PutStep

\* Folder p has entries b, which are those it had with new flags, or some of them.
LEMMA WithStep ==
  ASSUME Inv, NEW p \in DOMAIN folder, NEW b \in SUBSET Entry, IsFiniteSet(b),
         folder' = With(folder, p, b), UNCHANGED <<used, chosen, arrived, strays, marked>>,
         removed \subseteq removed', removed' \subseteq Msgs,
         \A e \in b : \E d \in folder[p].box :
           d.uid = e.uid /\ d.msg = e.msg /\ (e.seen => d.seen \/ d.msg \in marked),
         \A d \in folder[p].box : d.msg \in removed' \/ \E e \in b : e.msg = d.msg
  PROVE  FoldersInv' /\ Evolves
<1>1. FoldersInv /\ folder \in [DOMAIN folder -> Folder]
  BY InvParts DEF FoldersInv, FoldersType
<1>2. /\ folder' \in [DOMAIN folder -> Folder]
      /\ \A c \in DOMAIN folder :
           /\ folder'[c].box = IF c = p THEN b ELSE folder[c].box
           /\ folder'[c].next = folder[c].next
           /\ folder'[c].subscribed = folder[c].subscribed
  BY <1>1, WithFacts
<1>3. SameFolders
  <2>1. \A c \in DOMAIN folder : IsFiniteSet(folder[c].box) /\ folder[c].next \in Nat
    BY SelectedFacts
  <2> QED
    BY <1>2, <2>1 DEF SameFolders
<1>4. Origin
  BY <1>2 DEF Origin
<1>5. SeenBefore
  <2> SUFFICES ASSUME NEW c \in DOMAIN folder, NEW e \in folder'[c].box, e.seen
               PROVE  \/ e.msg \in marked'
                      \/ \E a \in DOMAIN folder : \E d \in folder[a].box : d.seen /\ d.msg = e.msg
    BY <1>2 DEF SeenBefore
  <2>1. CASE c = p
    <3>1. PICK d \in folder[p].box : d.msg = e.msg /\ (d.seen \/ d.msg \in marked)
      BY <1>2, <2>1
    <3> QED
      BY <3>1
  <2>2. CASE c # p
    BY <1>2, <2>2
  <2> QED
    BY <2>1, <2>2
<1>6. StillThere
  <2> SUFFICES ASSUME NEW a \in DOMAIN folder, NEW d \in folder[a].box
               PROVE  \/ d.msg \in removed'
                      \/ \E c \in DOMAIN folder : \E e \in folder'[c].box : e.msg = d.msg
    BY <1>2 DEF StillThere
  <2>1. CASE a = p
    BY <1>2, <2>1
  <2>2. CASE a # p
    BY <1>2, <2>2
  <2> QED
    BY <2>1, <2>2
<1>7. Noted
  BY <1>1 DEF Noted, FoldersInv, FoldersType
<1> QED
  BY <1>3, <1>4, <1>5, <1>6, <1>7, EntriesStep

LEMMA ExpungedStep ==
  ASSUME Inv, NEW p \in DOMAIN folder, NEW us, Expunged(p, us),
         UNCHANGED <<used, chosen, arrived, strays, marked>>,
         removed' = removed \union MsgsOf(Selected(p, us))
  PROVE  FoldersInv' /\ Evolves
<1> DEFINE es == Selected(p, us)
           b == folder[p].box \ es
<1>1. /\ es \in SUBSET Entry /\ b \in SUBSET Entry /\ b \subseteq folder[p].box
      /\ IsFiniteSet(folder[p].box)
  BY SelectedFacts
<1>2. IsFiniteSet(b)
  BY <1>1, FS_Subset
<1>3. removed' = removed \union MsgsOf(es) /\ folder' = With(folder, p, b)
  BY DEF Expunged
<1> HIDE DEF es
<1>4. removed \subseteq Msgs /\ MsgsOf(es) \subseteq Msgs
  BY <1>1, MessagesOf DEF Inv, TypeOK
<1>5. \A d \in folder[p].box : d.msg \in removed' \/ \E e \in b : e.msg = d.msg
  BY <1>3 DEF MsgsOf
<1> HIDE DEF b
<1>6. \A e \in b : \E d \in folder[p].box :
        d.uid = e.uid /\ d.msg = e.msg /\ (e.seen => d.seen \/ d.msg \in marked)
  BY <1>1
<1> QED
  BY <1>1, <1>2, <1>3, <1>4, <1>5, <1>6, WithStep

LEMMA FlaggedStep ==
  ASSUME Inv, NEW p \in DOMAIN folder, NEW us, Flagged(p, us),
         UNCHANGED <<used, chosen, arrived, removed, strays, marked>>,
         \A e \in folder[p].box : e.uid \in us => e.msg \in marked
  PROVE  FoldersInv' /\ Evolves
<1> DEFINE box == folder[p].box
           new(e) == IF e.uid \in us THEN [e EXCEPT !.seen = TRUE] ELSE e
           b == {new(e) : e \in box}
<1>1. box \in SUBSET Entry /\ IsFiniteSet(box) /\ removed \subseteq Msgs
  BY SelectedFacts DEF Inv, TypeOK
<1>2. folder' = With(folder, p, b)
  BY DEF Flagged
<1>3. \A e \in box :
        /\ new(e) \in Entry /\ new(e).uid = e.uid /\ new(e).msg = e.msg
        /\ new(e).seen => e.seen \/ e.msg \in marked
  BY <1>1 DEF Entry
<1> HIDE DEF new
<1>4. IsFiniteSet(b)
  <2> DEFINE g == [e \in box |-> new(e)]
  <2>1. g \in [box -> b] /\ \A t \in b : \E e \in box : g[e] = t
    OBVIOUS
  <2> HIDE DEF g, b
  <2>2. g \in Surjection(box, b)
    BY <2>1 DEF Surjection
  <2> QED
    BY <1>1, <2>2, FS_Surjection
<1>5. /\ b \in SUBSET Entry
      /\ \A e \in b : \E d \in box :
           d.uid = e.uid /\ d.msg = e.msg /\ (e.seen => d.seen \/ d.msg \in marked)
      /\ \A d \in box : \E e \in b : e.msg = d.msg
  BY <1>3
<1> HIDE DEF b
<1> QED
  BY <1>1, <1>2, <1>4, <1>5, WithStep

----------------------------------------------------------------------------
(* Steps that change the folders.                                          *)

LEMMA UseFacts ==
  ASSUME NEW p \in Paths
  PROVE  /\ UserUse(p) = "trash" <=> p = TrashFolder
         /\ UserUse(p) = "none" => p # chosen
         /\ ServerUse(p) = "none" => p \notin Special
<1>1. ServerUse(p) = "trash" <=> p = Trash
  BY DEF ServerUse, Inbox, Trash, Junk
<1>2. UserUse(p) = "trash" <=> p = TrashFolder
  BY <1>1 DEF UserUse, TrashFolder
<1>3. ServerUse(p) = "none" => p \notin Special
  BY DEF ServerUse, Special
<1>4. UserUse(p) = "none" => p # chosen
  BY PathsAssumption DEF UserUse
<1> QED
  BY <1>2, <1>3, <1>4

LEMMA SubscribedStep ==
  ASSUME Inv, NEW p \in DOMAIN folder, NEW b \in BOOLEAN,
         folder' = [folder EXCEPT ![p].subscribed = b],
         UNCHANGED <<used, chosen, arrived, removed, strays, marked>>
  PROVE  FoldersInv' /\ Evolves
<1>1. FoldersInv /\ folder \in [DOMAIN folder -> Folder]
  BY InvParts DEF FoldersInv, FoldersType
<1>2. /\ folder' \in [DOMAIN folder -> Folder]
      /\ \A c \in DOMAIN folder :
           /\ folder'[c].box = folder[c].box
           /\ folder'[c].next = folder[c].next
           /\ folder'[c].subscribed = IF c = p THEN b ELSE folder[c].subscribed
  BY <1>1 DEF Folder
<1>3. SameFolders
  <2>1. \A c \in DOMAIN folder : IsFiniteSet(folder[c].box) /\ folder[c].next \in Nat
    BY SelectedFacts
  <2> QED
    BY <1>2, <2>1 DEF SameFolders
<1>4. Origin /\ SeenBefore /\ StillThere
  BY <1>2 DEF Origin, SeenBefore, StillThere
<1>5. Noted
  BY <1>1 DEF Noted, FoldersInv, FoldersType
<1> QED
  BY <1>3, <1>4, <1>5, EntriesStep

LEMMA DeletesStep ==
  ASSUME Inv, NEW p \in DOMAIN folder, p \notin Special,
         MsgsOf(folder[p].box) \subseteq strays,
         folder' = [c \in DOMAIN folder \ {p} |-> folder[c]],
         UNCHANGED <<used, chosen, arrived, removed, strays, marked>>
  PROVE  FoldersInv' /\ Evolves
<1>1. FoldersInv /\ folder \in [DOMAIN folder -> Folder]
  BY InvParts DEF FoldersInv, FoldersType
<1>2. /\ DOMAIN folder' = DOMAIN folder \ {p}
      /\ \A c \in DOMAIN folder' : folder'[c] = folder[c]
  OBVIOUS
<1>3. folder' \in [DOMAIN folder' -> Folder]
  BY <1>1
<1>4. FoldersType' /\ BoxesInv'
  BY <1>1, <1>2, <1>3 DEF FoldersInv, FoldersType, BoxesInv
<1>5. NothingLost'
  <2>1. \A c \in DOMAIN folder : c # p => MsgsOf(folder[c].box) = MsgsOf(folder'[c].box)
    BY <1>2
  <2> QED
    BY <1>1, <1>2, <2>1 DEF FoldersInv, NothingLost, Kept, MsgsOf
<1>6. UnreadUntilMarked'
  BY <1>1, <1>2 DEF FoldersInv, UnreadUntilMarked
<1>7. SpecialThere'
  BY <1>1, <1>2 DEF FoldersInv, SpecialThere
<1>8. Evolves
  <2>1. \A c \in DOMAIN folder : folder[c].next \in Nat
    BY SelectedFacts
  <2> QED
    BY <1>2, <2>1 DEF Evolves
<1> QED
  BY <1>4, <1>5, <1>6, <1>7, <1>8 DEF FoldersInv

LEMMA CreatesStep ==
  ASSUME Inv, NEW q \in Paths \ used,
         folder' = [p \in DOMAIN folder \union {q} |->
                      IF p = q THEN [NoFolder EXCEPT !.subscribed = FALSE] ELSE folder[p]],
         used' = used \union {q},
         UNCHANGED <<chosen, arrived, removed, strays, marked>>
  PROVE  FoldersInv' /\ Evolves
<1>1. FoldersInv /\ folder \in [DOMAIN folder -> Folder] /\ q \notin DOMAIN folder
  BY InvParts DEF FoldersInv, FoldersType
<1>2. /\ DOMAIN folder' = DOMAIN folder \union {q}
      /\ \A c \in DOMAIN folder : folder'[c] = folder[c]
      /\ folder'[q] = [NoFolder EXCEPT !.subscribed = FALSE]
  BY <1>1
<1>3. folder'[q].box = {} /\ folder'[q] \in Folder
  <2>1. folder'[q] = [box |-> {}, next |-> 1, subscribed |-> FALSE]
    BY <1>2 DEF NoFolder
  <2>2. 1 \in 1..(MaxUid + 1)
    BY BoundsAssumption
  <2> QED
    BY <2>1, <2>2 DEF Folder
<1>4. folder' \in [DOMAIN folder' -> Folder]
  BY <1>1, <1>2, <1>3
<1>5. FoldersType'
  BY <1>1, <1>2, <1>4 DEF FoldersInv, FoldersType
<1>6. BoxesInv'
  BY <1>1, <1>2, <1>3, FS_EmptySet DEF FoldersInv, BoxesInv
<1>7. NothingLost' /\ UnreadUntilMarked'
  BY <1>1, <1>2, <1>3 DEF FoldersInv, NothingLost, Kept, UnreadUntilMarked
<1>8. SpecialThere'
  BY <1>1, <1>2 DEF FoldersInv, SpecialThere
<1>9. Evolves
  <2>1. \A c \in DOMAIN folder : folder[c].next \in Nat
    BY SelectedFacts
  <2> QED
    BY <1>1, <1>2, <2>1 DEF Evolves
<1> QED
  BY <1>5, <1>6, <1>7, <1>8, <1>9 DEF FoldersInv

LEMMA RebasedInjective ==
  ASSUME NEW S, NEW p \in Seq(S), NEW q \in Seq(S), NEW c \in Seq(S), NEW d \in Seq(S),
         IsPrefix(p, c), IsPrefix(p, d), Rebased(c, p, q) = Rebased(d, p, q)
  PROVE  c = d
<1> DEFINE rest(e) == SubSeq(e, Len(p) + 1, Len(e))
           start(e) == SubSeq(e, 1, Len(p))
<1>1. ASSUME NEW e \in Seq(S), IsPrefix(p, e)
      PROVE  rest(e) \in Seq(S) /\ e = start(p) \o rest(e)
  <2>1. Len(p) \in Nat /\ Len(e) \in Nat /\ Len(p) <= Len(e)
    BY <1>1 DEF IsPrefix
  <2>2. /\ 1 \in 1..(Len(e) + 1) /\ Len(p) \in (1 - 1)..Len(e)
        /\ Len(e) \in Len(p)..Len(e)
    BY <2>1
  <2>3. start(e) \o rest(e) = SubSeq(e, 1, Len(e))
    BY <2>2, ConcatAdjacentSubSeq
  <2>4. start(e) = start(p)
    BY <1>1 DEF IsPrefix
  <2>5. SubSeq(e, 1, Len(e)) = e /\ rest(e) \in Seq(S)
    BY <2>1
  <2> HIDE DEF start, rest
  <2> QED
    BY <2>3, <2>4, <2>5, Zenon
<1>2. q \o rest(c) = q \o rest(d)
  BY DEF Rebased
<1> HIDE DEF rest, start
<1>3. rest(c) = rest(d)
  BY <1>1, <1>2, ConcatSimplifications
<1>4. c = start(p) \o rest(c) /\ d = start(p) \o rest(d)
  BY <1>1
<1> QED
  BY <1>3, <1>4

\* The provers do not know that the names of the special folders are strings.
Names == STRING \union {"INBOX", "Trash", "Junk"}

LEMMA PathFacts ==
  ASSUME NEW p \in Paths
  PROVE  p \in Seq(Names) /\ p # << >>
<1>1. \A n \in Names : <<n>> \in Seq(Names) /\ <<n>> # << >>
  OBVIOUS
<1>2. \A s \in Special : s \in Seq(Names) /\ s # << >>
  BY <1>1 DEF Special, Inbox, Trash, Junk, Names
<1>3. ASSUME NEW s \in Seq(STRING)
      PROVE  s \in Seq(Names)
  BY DEF Names
<1> QED
  BY <1>2, <1>3, PathsAssumption DEF Paths

\* No special folder is in the tree of another.
LEMMA TreeFacts ==
  ASSUME Inv, NEW p \in DOMAIN folder, p \notin Special
  PROVE  /\ Tree(p) \subseteq DOMAIN folder
         /\ p \in Seq(Names) /\ \A c \in Tree(p) : c \in Seq(Names) /\ IsPrefix(p, c)
         /\ Tree(p) \intersect Special = {}
<1>1. DOMAIN folder \subseteq Paths
  BY DEF Inv, TypeOK
<1>2. \A c \in Paths : c \in Seq(Names) /\ c # << >>
  BY PathFacts
<1>3. Tree(p) \subseteq DOMAIN folder
  BY DEF Tree, Under
<1>4. \A c \in Tree(p) : IsPrefix(p, c)
  <2>1. IsPrefix(p, p)
    BY <1>1, <1>2 DEF IsPrefix
  <2> QED
    BY <2>1 DEF Tree, Under, IsStrictPrefix
<1>6. ASSUME NEW c \in Special, c \in Tree(p)
      PROVE  FALSE
  <2>1. p \in Seq(Names) /\ c \in Seq(Names) /\ p # << >> /\ Len(c) = 1
    BY <1>1, <1>2, <1>6 DEF Special, Inbox, Trash, Junk, Paths
  <2>2. IsPrefix(p, c)
    BY <1>4, <1>6
  <2>3. Len(p) = 1
    BY <2>1, <2>2 DEF IsPrefix
  <2>4. SubSeq(p, 1, Len(p)) = SubSeq(c, 1, Len(p))
    BY <2>2 DEF IsPrefix
  <2>5. p[1] = c[1]
    BY <2>1, <2>3, <2>4
  <2>6. p = c
    BY <2>1, <2>3, <2>5, SeqEqual
  <2> QED
    BY <1>6, <2>6
<1> QED
  BY <1>1, <1>2, <1>3, <1>4, <1>6

LEMMA RenamedStep ==
  ASSUME Inv, NEW p \in DOMAIN folder, p \notin Special,
         NEW q \in Paths, Renamed(p, q), UNCHANGED <<chosen, arrived, removed, strays, marked>>
  PROVE  FoldersInv' /\ Evolves
<1> DEFINE T == Tree(p)
           new(c) == Rebased(c, p, q)
           N == {new(c) : c \in T}
<1>1. FoldersInv /\ folder \in [DOMAIN folder -> Folder] /\ DOMAIN folder \subseteq used
  BY InvParts DEF FoldersInv, FoldersType
<1>2. /\ T \subseteq DOMAIN folder /\ N \subseteq Paths \ used /\ used' = used \union N
      /\ T \intersect Special = {}
  BY TreeFacts DEF Renamed
<1>3. ASSUME NEW c \in T, NEW d \in T, new(c) = new(d)
      PROVE  c = d
  <2>1. q \in Seq(Names)
    BY PathFacts
  <2>2. /\ p \in Seq(Names) /\ c \in Seq(Names) /\ d \in Seq(Names)
        /\ IsPrefix(p, c) /\ IsPrefix(p, d)
    BY TreeFacts
  <2> QED
    BY <1>3, <2>1, <2>2, RebasedInjective
<1>4. folder' = [c \in (DOMAIN folder \ T) \union N |->
                   IF c \in DOMAIN folder THEN folder[c]
                   ELSE folder[CHOOSE d \in T : new(d) = c]]
  BY DEF Renamed
<1> HIDE DEF T, new
<1>5. DOMAIN folder' = (DOMAIN folder \ T) \union N /\ N \intersect used = {}
  BY <1>2, <1>4
<1>6. \A c \in DOMAIN folder \ T : folder'[c] = folder[c]
  BY <1>4
<1>7. ASSUME NEW d \in T
      PROVE  new(d) \in DOMAIN folder' /\ folder'[new(d)] = folder[d]
  <2>1. new(d) \in N /\ new(d) \notin DOMAIN folder
    BY <1>1, <1>5
  <2>2. folder'[new(d)] = folder[CHOOSE e \in T : new(e) = new(d)]
    BY <1>4, <2>1
  <2>3. (CHOOSE e \in T : new(e) = new(d)) = d
    <3> DEFINE a == CHOOSE e \in T : new(e) = new(d)
    <3>1. a \in T /\ new(a) = new(d)
      OBVIOUS
    <3> HIDE DEF a
    <3>2. a = d
      BY <1>3, <3>1
    <3> QED
      BY <3>2 DEF a
  <2> QED
    BY <1>5, <2>1, <2>2, <2>3
<1>8. \A c \in DOMAIN folder' : \E d \in DOMAIN folder : folder'[c] = folder[d]
  BY <1>2, <1>5, <1>6, <1>7
<1>9. \A d \in DOMAIN folder : \E c \in DOMAIN folder' : folder'[c] = folder[d]
  BY <1>5, <1>6, <1>7
<1>10. FoldersType'
  <2>1. folder' \in [DOMAIN folder' -> Folder]
    <3>1. \A c \in DOMAIN folder' : folder'[c] \in Folder
      BY <1>1, <1>8
    <3>2. folder' = [c \in DOMAIN folder' |-> folder'[c]]
      BY <1>4
    <3> QED
      BY <3>1, <3>2
  <2> QED
    BY <1>1, <1>2, <1>5, <2>1 DEF FoldersInv, FoldersType
<1>11. BoxesInv' /\ UnreadUntilMarked'
  BY <1>1, <1>8 DEF FoldersInv, BoxesInv, UnreadUntilMarked
<1>12. NothingLost'
  BY <1>1, <1>9 DEF FoldersInv, NothingLost, Kept, MsgsOf
<1>13. SpecialThere'
  BY <1>1, <1>2, <1>5, <1>6
     DEF FoldersInv, SpecialThere
<1>14. Evolves
  <2>1. \A c \in DOMAIN folder : folder[c].next \in Nat
    BY SelectedFacts
  <2>2. \A c \in used \intersect DOMAIN folder' : c \in DOMAIN folder /\ folder'[c] = folder[c]
    BY <1>5, <1>6
  <2> QED
    BY <1>2, <2>1, <2>2 DEF Evolves
<1> QED
  BY <1>10, <1>11, <1>12, <1>13, <1>14 DEF FoldersInv

----------------------------------------------------------------------------
(* What the other requests, and a request that goes on, count on.          *)

ReqType == mode \in Modes /\ req \in [Requests -> Request]
Others(r) == \A s \in Requests \ {r} : req'[s] = req[s]

\* Request r is x after the step, and the others are as before.
Becomes(r, x) == /\ req' \in [Requests -> Request] /\ Others(r)
                 /\ req'[r] = x

LEMMA GotoFacts ==
  ASSUME ReqType, NEW r \in Requests, NEW pc \in PCs, Goto(r, pc)
  PROVE  Becomes(r, [pc |-> pc, kind |-> req[r].kind, path |-> req[r].path,
                     uids |-> req[r].uids, dest |-> req[r].dest, sure |-> req[r].sure])
BY DEF ReqType, Request, Goto, Becomes, Others

LEMMA TakeFacts ==
  ASSUME ReqType, NEW r \in Requests, NEW pc \in PCs, NEW us \in SUBSET (1..MaxUid),
         Take(r, us, pc)
  PROVE  Becomes(r, [pc |-> pc, kind |-> req[r].kind, path |-> req[r].path,
                     uids |-> us, dest |-> req[r].dest, sure |-> req[r].sure])
<1> DEFINE z == [req EXCEPT ![r].uids = us]
<1>1. /\ z \in [Requests -> Request] /\ \A s \in Requests \ {r} : z[s] = req[s]
      /\ z[r] = [pc |-> req[r].pc, kind |-> req[r].kind, path |-> req[r].path,
                 uids |-> us, dest |-> req[r].dest, sure |-> req[r].sure]
  BY DEF ReqType, Request
<1>2. req' = [z EXCEPT ![r].pc = pc]
  BY DEF Take
<1> HIDE DEF z
<1> QED
  BY <1>1, <1>2 DEF Request, Becomes, Others

LEMMA AimFacts ==
  ASSUME ReqType, NEW r \in Requests, NEW pc \in PCs, NEW q \in Paths \union {NoPath},
         Aim(r, q, pc)
  PROVE  Becomes(r, [pc |-> pc, kind |-> req[r].kind, path |-> req[r].path,
                     uids |-> req[r].uids, dest |-> q, sure |-> req[r].sure])
<1> DEFINE z == [req EXCEPT ![r].dest = q]
<1>1. /\ z \in [Requests -> Request] /\ \A s \in Requests \ {r} : z[s] = req[s]
      /\ z[r] = [pc |-> req[r].pc, kind |-> req[r].kind, path |-> req[r].path,
                 uids |-> req[r].uids, dest |-> q, sure |-> req[r].sure]
  BY DEF ReqType, Request
<1>2. req' = [z EXCEPT ![r].pc = pc]
  BY DEF Aim
<1> HIDE DEF z
<1> QED
  BY <1>1, <1>2 DEF Request, Becomes, Others

LEMMA EndFacts ==
  ASSUME ReqType, NEW r \in Requests, End(r) \/ Fail(r)
  PROVE  /\ req' \in [Requests -> Request] /\ Others(r)
         /\ req'[r].pc \in Ended /\ req'[r].kind = "move"
<1> DEFINE x(pc) == [Idle EXCEPT !.pc = pc]
<1>1. Idle \in Request /\ Idle.kind = "move"
  BY DEF Idle, Request, Kinds, PCs
<1>2. ASSUME NEW pc \in Ended
      PROVE  x(pc) \in Request /\ x(pc).pc \in Ended /\ x(pc).kind = "move"
  BY <1>1 DEF Ended, Request, PCs
<1>3. "done" \in Ended /\ "failed" \in Ended
  BY DEF Ended
<1> HIDE DEF x
<1>4. req' = [req EXCEPT ![r] = x("done")] \/ req' = [req EXCEPT ![r] = x("failed")]
  BY DEF End, Fail, x
<1> QED
  BY <1>2, <1>3, <1>4 DEF ReqType, Others

\* A request whose uids are among those it had.
LEMMA GoesOn ==
  ASSUME Inv, FoldersInv', Evolves, NEW s \in Requests, Knows(s)',
         req'[s].path = req[s].path, req'[s].uids \subseteq req[s].uids,
         req'[s].pc \notin Ended => req[s].pc \notin Ended,
         Marking(s)' => Marking(s),
         req'[s].kind = "rmdir" /\ req'[s].pc \in {"check", "commit"} =>
           req[s].kind = "rmdir" /\ req[s].pc \in {"check", "commit"}
  PROVE  RequestOk(s)'
<1> DEFINE c == req[s].path
<1> SUFFICES ASSUME req'[s].pc \notin Ended, c \in DOMAIN folder'
             PROVE  UidsGiven(s)' /\ MarkedOk(s)' /\ LeftAreStrays(s)'
  BY DEF RequestOk
<1>1. RequestOk(s) /\ c \in used /\ req[s].pc \notin Ended
  BY DEF Inv, RequestOk, Knows
<1>2. /\ c \in DOMAIN folder /\ folder[c].next <= folder'[c].next
      /\ \A e \in folder'[c].box :
           \/ \E d \in folder[c].box : d.uid = e.uid /\ d.msg = e.msg
           \/ folder[c].next <= e.uid /\ (Deleting(c) => e.msg \in strays')
      /\ strays \subseteq strays' /\ marked \subseteq marked'
  <2>1. c \in used \intersect DOMAIN folder'
    BY <1>1
  <2> QED
    BY <2>1 DEF Evolves
<1>3. UidsGiven(s) /\ MarkedOk(s) /\ LeftAreStrays(s)
  BY <1>1, <1>2 DEF RequestOk
<1>4. /\ folder[c].next \in Int /\ folder'[c].next \in Int
      /\ \A u \in req[s].uids : u \in Int
      /\ \A e \in folder'[c].box : e.uid \in Int
  <2>1. folder[c] \in Folder /\ folder'[c] \in Folder
    BY <1>2 DEF FoldersInv, FoldersType, Inv, TypeOK
  <2> QED
    BY <2>1 DEF Folder, Entry, Inv, TypeOK, Request
<1>5. UidsGiven(s)'
  BY <1>2, <1>3, <1>4 DEF UidsGiven
<1>6. MarkedOk(s)'
  <2> SUFFICES ASSUME Marking(s)', NEW e \in folder'[c].box, e.uid \in req[s].uids
               PROVE  e.msg \in marked'
    BY DEF MarkedOk
  <2>1. ~(folder[c].next <= e.uid)
    BY <1>3, <1>4 DEF UidsGiven
  <2>2. PICK d \in folder[c].box : d.uid = e.uid /\ d.msg = e.msg
    BY <1>2, <2>1
  <2> QED
    BY <1>2, <1>3, <2>2 DEF MarkedOk
<1>7. LeftAreStrays(s)'
  <2> SUFFICES ASSUME req'[s].kind = "rmdir", req'[s].pc \in {"check", "commit"},
                      NEW e \in folder'[c].box
               PROVE  e.msg \in strays'
    BY DEF LeftAreStrays, MsgsOf
  <2>1. Deleting(c)
    BY DEF Deleting
  <2>2. CASE \E d \in folder[c].box : d.uid = e.uid /\ d.msg = e.msg
    BY <1>2, <1>3, <2>2 DEF LeftAreStrays, MsgsOf
  <2> QED
    BY <1>2, <2>1, <2>2
<1> QED
  BY <1>5, <1>6, <1>7

LEMMA UsesStay ==
  ASSUME UNCHANGED <<chosen, mode>>
  PROVE  /\ TrashFolder' = TrashFolder
         /\ \A p : UserUse(p)' = UserUse(p) /\ ForGood(p)' = ForGood(p)
BY DEF TrashFolder, UserUse, ForGood

LEMMA OthersGoOn ==
  ASSUME Inv, FoldersInv', Evolves, UNCHANGED <<chosen, mode>>,
         NEW s \in Requests, req'[s] = req[s]
  PROVE  RequestOk(s)'
<1>1. used \subseteq used' /\ Knows(s)
  BY DEF Evolves, Inv, RequestOk
<1>2. Knows(s)'
  <2>1. Permanent(s)' <=> Permanent(s)
    BY DEF Permanent
  <2> QED
    BY <1>1, <2>1, UsesStay DEF Knows, At
<1>3. Marking(s)' => Marking(s)
  BY DEF Marking, At
<1> QED
  BY <1>2, <1>3, GoesOn

LEMMA StepInv ==
  ASSUME Inv, FoldersInv', Evolves, UNCHANGED <<chosen, mode>>, NEW r \in Requests, NEW x,
         Becomes(r, x),
         RequestOk(r)'
  PROVE  Inv'
<1>1. \A s \in Requests : RequestOk(s)'
  <2> TAKE s \in Requests
  <2>1. CASE s # r
    BY <2>1, OthersGoOn DEF Becomes, Others
  <2> QED
    BY <2>1
<1>2. TypeOK'
  BY DEF Inv, TypeOK, FoldersInv, FoldersType, Becomes
<1> QED
  BY <1>1, <1>2 DEF Inv, FoldersInv

LEMMA WorldInv ==
  ASSUME Inv, FoldersInv', Evolves, UNCHANGED <<chosen, mode, req>>
  PROVE  Inv'
<1>1. \A s \in Requests : RequestOk(s)'
  BY OthersGoOn
<1>2. TypeOK'
  BY DEF Inv, TypeOK, FoldersInv, FoldersType
<1> QED
  BY <1>1, <1>2 DEF Inv, FoldersInv

LEMMA EndInv ==
  ASSUME Inv, FoldersInv', Evolves, UNCHANGED <<chosen, mode>>, NEW r \in Requests, End(r) \/ Fail(r)
  PROVE  Inv'
<1>1. ReqType
  BY DEF Inv, TypeOK, ReqType
<1>2. /\ Becomes(r, req'[r])
      /\ req'[r].pc \in Ended /\ req'[r].kind = "move"
  BY <1>1, EndFacts DEF Becomes
<1>3. RequestOk(r)'
  BY <1>2 DEF RequestOk, Knows, At, Ended
<1> QED
  BY <1>2, <1>3, StepInv

LEMMA GotoInv ==
  ASSUME Inv, FoldersInv', Evolves, UNCHANGED <<chosen, mode>>, NEW r \in Requests, NEW pc \in PCs,
         Goto(r, pc), Knows(r)', req[r].pc \notin Ended,
         req[r].kind = "mark-read" => pc # "act",
         req[r].kind = "rmdir" /\ pc \in {"check", "commit"} => req[r].pc \in {"check", "commit"}
  PROVE  Inv'
<1>1. Becomes(r, [pc |-> pc, kind |-> req[r].kind, path |-> req[r].path,
                  uids |-> req[r].uids, dest |-> req[r].dest, sure |-> req[r].sure])
  BY GotoFacts DEF Inv, TypeOK, ReqType
<1>2. /\ req'[r].pc = pc /\ req'[r].kind = req[r].kind /\ req'[r].path = req[r].path
      /\ req'[r].uids = req[r].uids
  BY <1>1 DEF Becomes
<1>3. Marking(r)' => Marking(r)
  BY <1>2 DEF Marking, At
<1>4. RequestOk(r)'
  BY <1>2, <1>3, GoesOn
<1> QED
  BY <1>1, <1>4, StepInv

----------------------------------------------------------------------------
(* The steps.                                                              *)

\* The first page of a folder is empty only when the folder is.
LEMMA FirstPageFacts ==
  ASSUME Inv, NEW p \in DOMAIN folder
  PROVE  /\ FirstPage(p) \in SUBSET (1..MaxUid)
         /\ \A u \in FirstPage(p) : u < folder[p].next
         /\ FirstPage(p) = {} => folder[p].box = {}
<1> DEFINE box == folder[p].box
           R == {ss \in Nat \X Nat : ss[1] < ss[2]}
           T == {MaxUid - e.uid : e \in box}
<1>1. box \in SUBSET Entry /\ \A e \in box : e.uid < folder[p].next
  BY SelectedFacts
<1>2. ASSUME box # {}
      PROVE  \E d \in box : \A c \in box : ~(c.uid > d.uid)
  <2>1. IsWellFoundedOn(R, Nat)
    BY NatLessThanWellFounded DEF OpToRel
  <2>2. T \subseteq Nat /\ T # {}
    BY <1>1, <1>2, BoundsAssumption DEF Entry
  <2> HIDE DEF R, T
  <2>3. PICK x \in T : \A y \in T : ~(<<y, x>> \in R)
    BY <2>1, <2>2, WFMin
  <2>4. PICK d \in box : x = MaxUid - d.uid
    BY DEF T
  <2>5. ASSUME NEW c \in box
        PROVE  ~(c.uid > d.uid)
    <3>1. MaxUid - c.uid \in T
      BY DEF T
    <3>2. ~(MaxUid - c.uid < MaxUid - d.uid)
      BY <2>2, <2>3, <2>4, <3>1 DEF R
    <3>3. c.uid \in Int /\ d.uid \in Int /\ MaxUid \in Int
      BY <1>1, BoundsAssumption DEF Entry
    <3> QED
      BY <3>2, <3>3
  <2> QED
    BY <2>5
<1>3. ASSUME FirstPage(p) = {}
      PROVE  box = {}
  <2> SUFFICES ASSUME box # {}
               PROVE  FALSE
    OBVIOUS
  <2>1. PICK d \in box : \A c \in box : ~(c.uid > d.uid)
    BY <1>2
  <2>2. {c \in box : c.uid > d.uid} = {}
    BY <2>1
  <2>3. Cardinality({c \in box : c.uid > d.uid}) < Batch
    <3>1. Cardinality({c \in box : c.uid > d.uid}) = 0
      BY <2>2, FS_EmptySet, Zenon
    <3> QED
      BY <3>1, BoundsAssumption
  <2>4. d.uid \in FirstPage(p)
    BY <2>3 DEF FirstPage
  <2> QED
    BY <1>3, <2>4
<1>4. \A u \in FirstPage(p) : \E e \in box : u = e.uid
  BY DEF FirstPage
<1>5. FirstPage(p) \in SUBSET (1..MaxUid) /\ \A u \in FirstPage(p) : u < folder[p].next
  BY <1>1, <1>4 DEF Entry
<1> QED
  BY <1>3, <1>5

LEMMA FoldersStay ==
  ASSUME Inv, UNCHANGED <<folder, used, chosen, mode, history>>
  PROVE  FoldersInv' /\ Evolves
<1>1. marked \in SUBSET Msgs /\ strays \in SUBSET Msgs
  BY DEF Inv, TypeOK
<1> QED
  BY <1>1, StayStep DEF history

LEMMA KnowsFacts ==
  ASSUME Inv, NEW r \in Requests
  PROVE  Knows(r) /\ ReqType /\ chosen \in TrashChoices /\ req[r] \in Request
BY DEF Inv, RequestOk, TypeOK, ReqType

\* A request is made on messages that are there.
LEMMA MakeInv ==
  ASSUME Inv, NEW r \in Requests, NEW kind \in Kinds, NEW p \in DOMAIN folder,
         NEW us \in SUBSET Uids(folder[p].box), NEW q \in Paths \union {NoPath},
         kind \in {"rename", "create"} => q \in Paths, kind = "rename" => p \in Renameable,
         kind = "delete" /\ q # NoPath => q = p /\ mode = "permanent",
         Make(r, kind, p, us, q)
  PROVE  Inv'
<1> DEFINE pc == CASE kind \in {"move", "copy", "flags"} -> "act"
                   [] kind \in {"open", "mark-read"} -> "uids"
                   [] OTHER -> "list"
           x == [kind |-> kind, path |-> p, uids |-> us, dest |-> q, sure |-> TRUE,
                 pc |-> pc]
<1>1. /\ ReqType /\ p \in Paths /\ p \in used
      /\ folder[p].box \in SUBSET Entry /\ \A e \in folder[p].box : e.uid < folder[p].next
  BY KnowsFacts, SelectedFacts DEF Inv, TypeOK
<1>2. us \in SUBSET (1..MaxUid) /\ \A u \in us : u < folder[p].next
  BY <1>1 DEF Uids, Entry
<1>3. pc \in {"act", "uids", "list"} /\ pc \in PCs
  BY DEF PCs
<1>4. pc = "act" <=> kind \in {"move", "copy", "flags"}
  OBVIOUS
<1>5. pc = "uids" <=> kind \in {"open", "mark-read"}
  OBVIOUS
<1>6. req' = [req EXCEPT ![r] = x]
  BY DEF Make
<1> HIDE DEF pc
<1>7. x \in Request
  BY <1>1, <1>2, <1>3 DEF Request
<1>8. Becomes(r, x)
  BY <1>1, <1>6, <1>7 DEF Becomes, Others, ReqType
<1>9. /\ UNCHANGED <<folder, used, chosen, mode, arrived, removed, strays>>
      /\ marked' = IF kind \in {"flags", "open"} THEN marked \union MsgsOf(Selected(p, us)) ELSE marked
  BY DEF Make
<1>10. marked \subseteq marked' /\ marked' \subseteq Msgs /\ strays \in SUBSET Msgs
  <2>1. /\ MsgsOf(Selected(p, us)) \subseteq Msgs
        /\ marked \subseteq Msgs /\ strays \subseteq Msgs
    BY SelectedFacts, MessagesOf DEF Inv, TypeOK
  <2> QED
    BY <1>9, <2>1
<1>11. FoldersInv' /\ Evolves
  BY <1>9, <1>10, StayStep
<1>12. /\ req'[r].pc = pc /\ req'[r].kind = kind /\ req'[r].path = p /\ req'[r].uids = us
       /\ req'[r].dest = q /\ folder' = folder /\ used' = used /\ mode' = mode
  BY <1>8, <1>9 DEF Becomes
<1>13. RequestOk(r)'
  <2>1. Knows(r)'
    BY <1>1, <1>3, <1>4, <1>5, <1>12 DEF Knows, At
  <2>2. UidsGiven(r)'
    BY <1>2, <1>12 DEF UidsGiven
  <2>3. MarkedOk(r)'
    <3> SUFFICES ASSUME Marking(r)', NEW e \in folder[p].box, e.uid \in us
                 PROVE  e.msg \in marked'
      BY <1>12 DEF MarkedOk
    <3>1. kind \in {"flags", "open"}
      BY <1>4, <1>12 DEF Marking, At
    <3>2. e.msg \in MsgsOf(Selected(p, us))
      BY DEF MsgsOf, Selected
    <3> QED
      BY <1>9, <3>1, <3>2
  <2>4. LeftAreStrays(r)'
    BY <1>3, <1>12 DEF LeftAreStrays
  <2> QED
    BY <2>1, <2>2, <2>3, <2>4 DEF RequestOk
<1> QED
  BY <1>8, <1>9, <1>11, <1>13, StepInv

LEMMA OnMessagesInv ==
  ASSUME Inv, NEW r \in Requests, OnMessages(r)
  PROVE  Inv'
<1>1. PICK p \in DOMAIN folder :
        \E us \in SUBSET Uids(folder[p].box) \ {{}} :
          \/ \E kind \in {"junk", "flags"} : Make(r, kind, p, us, NoPath)
          \/ Make(r, "delete", p, us, IF mode = "permanent" THEN p ELSE NoPath)
          \/ Make(r, "open", p, us, NoPath)
          \/ \E kind \in {"move", "copy"}, q \in DOMAIN folder \ {p} : Make(r, kind, p, us, q)
  BY DEF OnMessages
<1>2. DOMAIN folder \subseteq Paths
  BY DEF Inv, TypeOK
<1>3. PICK us \in SUBSET Uids(folder[p].box) \ {{}},
           kind \in {"delete", "junk", "flags", "open", "move", "copy"},
           q \in Paths \union {NoPath} :
        /\ Make(r, kind, p, us, q)
        /\ kind = "delete" /\ q # NoPath => q = p /\ mode = "permanent"
  BY <1>1, <1>2
<1>4. kind \in Kinds /\ kind \notin {"rename", "create"}
  BY DEF Kinds
<1> QED
  BY <1>3, <1>4, MakeInv

LEMMA OnFoldersInv ==
  ASSUME Inv, NEW r \in Requests, OnFolders(r)
  PROVE  Inv'
<1>1. PICK p \in DOMAIN folder :
        \/ \E kind \in {"empty", "mark-read", "rmdir"} : Make(r, kind, p, {}, NoPath)
        \/ \E q \in Paths \ used :
             (p \in Renameable /\ Make(r, "rename", p, {}, q)) \/ Make(r, "create", p, {}, q)
  BY DEF OnFolders
<1>2. PICK kind \in {"empty", "mark-read", "rmdir", "rename", "create"},
           q \in Paths \union {NoPath} :
        /\ Make(r, kind, p, {}, q)
        /\ kind = "rename" => p \in Renameable
        /\ kind \in {"rename", "create"} => q \in Paths
  BY <1>1
<1>3. kind \in Kinds /\ {} \in SUBSET Uids(folder[p].box)
  BY DEF Kinds
<1> QED
  BY <1>2, <1>3, MakeInv

LEMMA FailsInv ==
  ASSUME Inv, NEW r \in Requests, Fails(r)
  PROVE  Inv'
<1>1. Fail(r) /\ UNCHANGED <<folder, used, chosen, mode, history>>
  BY DEF Fails
<1> QED
  BY <1>1, FoldersStay, EndInv

LEMMA FindFacts ==
  ASSUME NEW ps, ps \subseteq Paths, NEW use
  PROVE  /\ Find(ps, use) \in Paths \union {NoPath}
         /\ use = "trash" /\ Find(ps, use) # NoPath => Find(ps, use) = TrashFolder
<1>1. CASE \E p \in ps : UserUse(p) = use
  <2> DEFINE q == CHOOSE p \in ps : UserUse(p) = use
  <2>1. q \in ps /\ UserUse(q) = use
    BY <1>1
  <2>2. Find(ps, use) = q
    BY <1>1 DEF Find
  <2> HIDE DEF q
  <2> QED
    BY <2>1, <2>2, UseFacts
<1>2. CASE ~\E p \in ps : UserUse(p) = use
  BY <1>2 DEF Find
<1> QED
  BY <1>1, <1>2

\* A deletion or a message to be put aside knows where it goes.
LEMMA AimedInv ==
  ASSUME Inv, UNCHANGED <<folder, used, chosen, mode, history>>, NEW r \in Requests,
         req[r].pc = "list", req[r].kind \in {"delete", "junk"},
         NEW q \in Paths \union {NoPath}, NEW b \in BOOLEAN,
         Becomes(r, [pc |-> "act", kind |-> req[r].kind, path |-> req[r].path,
                     uids |-> req[r].uids, dest |-> q, sure |-> b]),
         req[r].kind = "delete" /\ q = req[r].path /\ b => ForGood(req[r].path)
  PROVE  Inv'
<1>1. FoldersInv' /\ Evolves
  BY FoldersStay
<1>2. /\ req'[r].pc = "act" /\ req'[r].kind = req[r].kind /\ req'[r].path = req[r].path
      /\ req'[r].uids = req[r].uids /\ req'[r].dest = q /\ req'[r].sure = b
  BY DEF Becomes
<1>3. Knows(r)'
  <2>1. req[r].path \in used /\ used' = used
    BY KnowsFacts DEF Knows, Ended
  <2>2. Permanent(r)' <=> q = req[r].path
    BY <1>2 DEF Permanent
  <2>3. req[r].kind = "delete" /\ Permanent(r)' /\ b => ForGood(req[r].path)'
    BY <1>2, <2>2, UsesStay DEF ForGood
  <2> QED
    BY <1>2, <2>1, <2>3 DEF Knows, At
<1>4. RequestOk(r)'
  BY <1>1, <1>2, <1>3, GoesOn DEF Marking, At, Ended
<1> QED
  BY <1>1, <1>4, StepInv

LEMMA FindsDestinationInv ==
  ASSUME Inv, NEW r \in Requests, FindsDestination(r)
  PROVE  Inv'
<1> DEFINE use == IF req[r].kind = "junk" THEN "junk" ELSE "trash"
           q == Find(Listed, use)
<1>1. /\ req[r].pc = "list" /\ req[r].kind \in {"delete", "junk"}
      /\ UNCHANGED <<folder, used, chosen, mode, history>>
      /\ \/ Fail(r)
         \/ req' = [req EXCEPT ![r] = [@ EXCEPT !.dest = req[r].path, !.pc = "act", !.sure = FALSE]]
         \/ q # NoPath /\ Aim(r, q, "act")
         \/ req[r].dest # NoPath /\ Goto(r, "act")
  BY DEF FindsDestination
<1>2. Listed \subseteq Paths /\ "act" \in PCs
  BY DEF Inv, TypeOK, Listed, PCs
<1>3. /\ q \in Paths \union {NoPath}
      /\ req[r].kind = "delete" /\ q # NoPath => q = TrashFolder
  BY <1>2, FindFacts
<1> HIDE DEF q
<1>4. CASE Fail(r)
  BY <1>1, <1>4, FoldersStay, EndInv
<1>5. CASE req' = [req EXCEPT ![r] = [@ EXCEPT !.dest = req[r].path, !.pc = "act", !.sure = FALSE]]
  <2>1. /\ req \in [Requests -> Request] /\ req[r].path \in Paths \union {NoPath}
        /\ req[r] \in Request
    BY KnowsFacts DEF ReqType, Request
  <2>2. Becomes(r, [pc |-> "act", kind |-> req[r].kind, path |-> req[r].path,
                    uids |-> req[r].uids, dest |-> req[r].path, sure |-> FALSE])
    BY <1>2, <1>5, <2>1 DEF Request, Becomes, Others
  <2> QED
    BY <1>1, <2>1, <2>2, AimedInv
<1>6. CASE q # NoPath /\ Aim(r, q, "act")
  <2>1. Becomes(r, [pc |-> "act", kind |-> req[r].kind, path |-> req[r].path,
                    uids |-> req[r].uids, dest |-> q, sure |-> req[r].sure])
    BY <1>2, <1>3, <1>6, AimFacts, KnowsFacts
  <2>2. req[r].kind = "delete" /\ q = req[r].path => ForGood(req[r].path)
    BY <1>3, <1>6 DEF ForGood
  <2>3. req[r].sure \in BOOLEAN
    BY KnowsFacts DEF Request
  <2> QED
    BY <1>1, <1>3, <2>1, <2>2, <2>3, AimedInv
<1>7. CASE req[r].dest # NoPath /\ Goto(r, "act")
  <2>1. Becomes(r, [pc |-> "act", kind |-> req[r].kind, path |-> req[r].path,
                    uids |-> req[r].uids, dest |-> req[r].dest, sure |-> req[r].sure])
    BY <1>2, <1>7, GotoFacts, KnowsFacts
  <2>2. req[r].kind = "delete" /\ req[r].sure => ForGood(req[r].path)
    BY <1>1, <1>7, KnowsFacts DEF Knows, At, ForGood
  <2>3. req[r].dest \in Paths \union {NoPath} /\ req[r].sure \in BOOLEAN
    BY KnowsFacts DEF Request
  <2> QED
    BY <1>1, <2>1, <2>2, <2>3, AimedInv
<1> QED
  BY <1>1, <1>4, <1>5, <1>6, <1>7

LEMMA DeletesForGoodInv ==
  ASSUME Inv, NEW r \in Requests, DeletesForGood(r)
  PROVE  Inv'
<1> DEFINE p == req[r].path
           us == req[r].uids
<1>1. /\ At(r, "delete", "act") /\ Permanent(r) /\ p \in DOMAIN folder
      /\ Expunged(p, us) /\ End(r)
      /\ removed' = IF ForGood(p) \/ ~req[r].sure THEN removed \union MsgsOf(Selected(p, us))
                    ELSE removed
      /\ UNCHANGED <<used, chosen, mode, arrived, strays, marked>>
  BY DEF DeletesForGood
<1>2. ForGood(p) \/ ~req[r].sure
  BY <1>1, KnowsFacts DEF Knows
<1>3. FoldersInv' /\ Evolves
  BY <1>1, <1>2, ExpungedStep
<1> QED
  BY <1>1, <1>3, EndInv

LEMMA MovesInv ==
  ASSUME Inv, NEW r \in Requests, Moves(r)
  PROVE  Inv'
<1>1. /\ req[r].path \in DOMAIN folder /\ req[r].dest \in DOMAIN folder
      /\ Moved(req[r].path, req[r].uids, req[r].dest) /\ End(r)
      /\ UNCHANGED <<used, chosen, mode, arrived, removed, marked>>
  BY DEF Moves
<1> QED
  BY <1>1, MovedStep, EndInv

LEMMA CopiesInv ==
  ASSUME Inv, NEW r \in Requests, Copies(r)
  PROVE  Inv'
<1>1. /\ req[r].path \in DOMAIN folder /\ req[r].dest \in DOMAIN folder
      /\ Copied(req[r].path, req[r].uids, req[r].dest) /\ End(r)
      /\ UNCHANGED <<used, chosen, mode, arrived, removed, marked>>
  BY DEF Copies
<1> QED
  BY <1>1, CopiedStep, EndInv

LEMMA FlagsInv ==
  ASSUME Inv, NEW r \in Requests, Flags(r)
  PROVE  Inv'
<1>1. /\ req[r].kind \in {"flags", "open"} /\ req[r].pc = "act" /\ req[r].path \in DOMAIN folder
      /\ Flagged(req[r].path, req[r].uids) /\ End(r)
      /\ UNCHANGED <<used, chosen, mode, arrived, removed, strays, marked>>
  BY DEF Flags, history
<1>2. \A e \in folder[req[r].path].box : e.uid \in req[r].uids => e.msg \in marked
  BY <1>1 DEF Inv, RequestOk, Ended, MarkedOk, Marking
<1> QED
  BY <1>1, <1>2, FlaggedStep, EndInv

LEMMA OpensInv ==
  ASSUME Inv, NEW r \in Requests, Opens(r)
  PROVE  Inv'
<1>1. /\ At(r, "open", "uids") /\ (Goto(r, "act") \/ End(r))
      /\ UNCHANGED <<folder, used, chosen, mode, history>>
  BY DEF Opens
<1>2. FoldersInv' /\ Evolves
  BY <1>1, FoldersStay
<1>3. CASE End(r)
  BY <1>1, <1>2, <1>3, EndInv
<1>4. CASE Goto(r, "act")
  <2>1. "act" \in PCs
    BY DEF PCs
  <2>2. req'[r].kind = "open" /\ req'[r].path = req[r].path
    <3>1. Becomes(r, [pc |-> "act", kind |-> req[r].kind, path |-> req[r].path,
                      uids |-> req[r].uids, dest |-> req[r].dest, sure |-> req[r].sure])
      BY <1>4, <2>1, GotoFacts, KnowsFacts
    <3> QED
      BY <1>1, <3>1 DEF Becomes, At
  <2>3. req[r].path \in used /\ used' = used
    BY <1>1, KnowsFacts DEF Knows, At, Ended
  <2>4. Knows(r)'
    BY <2>2, <2>3 DEF Knows, At
  <2> QED
    BY <1>1, <1>2, <1>4, <2>1, <2>4, GotoInv DEF At, Ended
<1> QED
  BY <1>1, <1>3, <1>4

\* What a request knows when it goes to pc, if the folders and its fields stay.
LEMMA GotoKnows ==
  ASSUME Inv, NEW r \in Requests, NEW pc \in PCs, Goto(r, pc),
         UNCHANGED <<folder, used, chosen, mode, history>>, req[r].pc \notin Ended,
         req[r].kind \in {"empty", "rmdir", "rename", "create"},
         req[r].kind = "rmdir" =>
           /\ pc = "commit" /\ req[r].pc = "check"
           /\ ServerUse(req[r].path) = "none",
         req[r].kind = "rename" => ServerUse(req[r].path) = "none"
  PROVE  Inv'
<1>1. FoldersInv' /\ Evolves
  BY FoldersStay
<1>2. Becomes(r, [pc |-> pc, kind |-> req[r].kind, path |-> req[r].path,
                  uids |-> req[r].uids, dest |-> req[r].dest, sure |-> req[r].sure])
  BY GotoFacts, KnowsFacts
<1>3. /\ req'[r].pc = pc /\ req'[r].kind = req[r].kind /\ req'[r].path = req[r].path
      /\ req'[r].dest = req[r].dest /\ req'[r].sure = req[r].sure
  BY <1>2 DEF Becomes
<1>4. Knows(r)'
  <2>1. Knows(r) /\ used' = used
    BY KnowsFacts
  <2>2. req[r].kind = "rmdir" =>
          (req[r].sure => UserUse(req[r].path) = "none") /\ ServerUse(req[r].path) = "none"
    BY <2>1 DEF Knows
  <2>3. req[r].kind = "rename" => req[r].path \in Renameable
    BY <2>1 DEF Knows
  <2>4. req[r].path \in used /\ (req[r].kind \in {"rename", "create"} => req[r].dest \in Paths)
    BY <2>1 DEF Knows
  <2> QED
    BY <1>3, <2>1, <2>2, <2>3, <2>4, UsesStay DEF Knows, At
<1> QED
  BY <1>1, <1>4, GotoInv

LEMMA ChecksEmptyInv ==
  ASSUME Inv, NEW r \in Requests, ChecksEmpty(r)
  PROVE  Inv'
<1>1. /\ At(r, "empty", "list") /\ (Goto(r, "uids") \/ Fail(r))
      /\ UNCHANGED <<folder, used, chosen, mode, history>>
  BY DEF ChecksEmpty
<1>2. CASE Goto(r, "uids")
  <2>1. "uids" \in PCs /\ req[r].kind = "empty" /\ req[r].pc \notin Ended
    BY <1>1 DEF PCs, At, Ended
  <2> QED
    BY <1>1, <1>2, <2>1, GotoKnows
<1>3. CASE Fail(r)
  BY <1>1, <1>3, FoldersStay, EndInv
<1> QED
  BY <1>1, <1>2, <1>3

LEMMA ReadsUidsInv ==
  ASSUME Inv, NEW r \in Requests, ReadsUids(r)
  PROVE  Inv'
<1> DEFINE p == req[r].path
           us == Uids(folder[p].box)
<1>1. /\ req[r].pc = "uids" /\ req[r].kind \in {"empty", "mark-read"} /\ p \in DOMAIN folder
      /\ Take(r, us, "act")
      /\ marked' = IF req[r].kind = "mark-read" THEN marked \union MsgsOf(folder[p].box) ELSE marked
      /\ UNCHANGED <<folder, used, chosen, mode, arrived, removed, strays>>
  BY DEF ReadsUids
<1>2. /\ folder[p].box \in SUBSET Entry /\ \A e \in folder[p].box : e.uid < folder[p].next
  BY <1>1, SelectedFacts
<1>3. us \in SUBSET (1..MaxUid) /\ \A u \in us : u < folder[p].next
  BY <1>2 DEF Uids, Entry
<1>4. marked \subseteq marked' /\ marked' \subseteq Msgs /\ strays \subseteq Msgs
  BY <1>1, <1>2, MessagesOf DEF Inv, TypeOK
<1>5. FoldersInv' /\ Evolves
  BY <1>1, <1>4, StayStep
<1> HIDE DEF us
<1>6. Becomes(r, [pc |-> "act", kind |-> req[r].kind, path |-> p, uids |-> us, dest |-> req[r].dest, sure |-> req[r].sure])
  <2>1. "act" \in PCs
    BY DEF PCs
  <2> QED
    BY <1>1, <1>3, <2>1, TakeFacts, KnowsFacts
<1>7. /\ req'[r].pc = "act" /\ req'[r].kind = req[r].kind /\ req'[r].path = p
      /\ req'[r].uids = us /\ folder' = folder
  BY <1>1, <1>6 DEF Becomes
<1>8. RequestOk(r)'
  <2>1. Knows(r)'
    <3>1. p \in used /\ used' = used
      BY <1>1, KnowsFacts DEF Knows, Ended
    <3> QED
      BY <1>1, <1>7, <3>1 DEF Knows, At
  <2>2. UidsGiven(r)' /\ LeftAreStrays(r)'
    BY <1>1, <1>3, <1>7 DEF UidsGiven, LeftAreStrays
  <2>3. MarkedOk(r)'
    <3>1. Marking(r)' => req[r].kind = "mark-read"
      BY <1>1, <1>7 DEF Marking, At
    <3>2. \A e \in folder[p].box : e.msg \in MsgsOf(folder[p].box)
      BY DEF MsgsOf
    <3> QED
      BY <1>1, <1>7, <3>1, <3>2 DEF MarkedOk
  <2> QED
    BY <2>1, <2>2, <2>3 DEF RequestOk
<1> QED
  BY <1>1, <1>5, <1>6, <1>8, StepInv

LEMMA BatchesInv ==
  ASSUME Inv, NEW r \in Requests, Batches(r)
  PROVE  Inv'
<1> DEFINE p == req[r].path
           us == NextBatch(r)
<1>1. /\ req[r].pc = "act" /\ req[r].kind \in {"empty", "mark-read"}
      /\ UNCHANGED <<used, chosen, mode, arrived, strays, marked>>
  BY DEF Batches
<1>2. CASE req[r].uids = {}
  <2>1. End(r) /\ UNCHANGED <<folder, removed>>
    BY <1>2 DEF Batches
  <2>2. FoldersInv' /\ Evolves
    BY <1>1, <2>1, FoldersStay DEF history
  <2> QED
    BY <1>1, <2>1, <2>2, EndInv
<1>3. CASE req[r].uids # {}
  <2>1. /\ p \in DOMAIN folder /\ Take(r, req[r].uids \ us, "act")
        /\ IF req[r].kind = "empty"
           THEN Expunged(p, us) /\ removed' = removed \union MsgsOf(Selected(p, us))
           ELSE Flagged(p, us) /\ UNCHANGED removed
    BY <1>3 DEF Batches
  <2>2. us \subseteq req[r].uids /\ req[r].uids \in SUBSET (1..MaxUid)
    BY KnowsFacts DEF NextBatch, Request
  <2> HIDE DEF us
  <2>3. FoldersInv' /\ Evolves
    <3>1. CASE req[r].kind = "empty"
      BY <1>1, <2>1, <3>1, ExpungedStep
    <3>2. CASE req[r].kind = "mark-read"
      <4>1. \A e \in folder[p].box : e.uid \in us => e.msg \in marked
        BY <1>1, <2>1, <2>2, <3>2 DEF Inv, RequestOk, Ended, MarkedOk, Marking, At
      <4> QED
        BY <1>1, <2>1, <3>2, <4>1, FlaggedStep
    <3> QED
      BY <1>1, <3>1, <3>2
  <2>4. Becomes(r, [pc |-> "act", kind |-> req[r].kind, path |-> p,
                    uids |-> req[r].uids \ us, dest |-> req[r].dest, sure |-> req[r].sure])
    <3>1. "act" \in PCs /\ req[r].uids \ us \in SUBSET (1..MaxUid)
      BY <2>2 DEF PCs
    <3> QED
      BY <2>1, <3>1, TakeFacts, KnowsFacts
  <2>5. /\ req'[r].pc = "act" /\ req'[r].kind = req[r].kind /\ req'[r].path = p
        /\ req'[r].uids \subseteq req[r].uids
    BY <2>4 DEF Becomes
  <2>6. Knows(r)'
    <3>1. p \in used /\ used' = used
      BY <1>1, KnowsFacts DEF Knows, Ended
    <3> QED
      BY <1>1, <2>5, <3>1 DEF Knows, At
  <2>7. Marking(r)' => Marking(r)
    BY <1>1, <2>5 DEF Marking, At
  <2>8. RequestOk(r)'
    BY <1>1, <2>3, <2>5, <2>6, <2>7, GoesOn DEF Ended
  <2> QED
    BY <1>1, <2>3, <2>4, <2>8, StepInv
<1> QED
  BY <1>2, <1>3

\* A folder's deletion goes on with uids it has read, as a folder that is not
\* special.
LEMMA RmdirInv ==
  ASSUME Inv, FoldersInv', Evolves, UNCHANGED <<chosen, mode>>, NEW r \in Requests,
         req[r].kind = "rmdir", req[r].pc \notin Ended,
         req[r].sure => UserUse(req[r].path) = "none",
         NEW pc \in {"uids", "fetch", "act", "check"}, NEW us, NEW q,
         Becomes(r, [pc |-> pc, kind |-> req[r].kind, path |-> req[r].path,
                     uids |-> us, dest |-> q, sure |-> req[r].sure]),
         req[r].path \in DOMAIN folder' => \A u \in us : u < folder'[req[r].path].next,
         req[r].path \in DOMAIN folder' /\ pc = "check" =>
           MsgsOf(folder'[req[r].path].box) \subseteq strays'
  PROVE  Inv'
<1>1. /\ req'[r].pc = pc /\ req'[r].kind = "rmdir" /\ req'[r].path = req[r].path
      /\ req'[r].uids = us /\ req'[r].sure = req[r].sure
  BY DEF Becomes
<1>2. req[r].path \in used'
  BY KnowsFacts DEF Knows, Evolves
<1>3. Knows(r)'
  BY <1>1, <1>2, UsesStay DEF Knows, At
<1>4. RequestOk(r)'
  BY <1>1, <1>3 DEF RequestOk, UidsGiven, MarkedOk, Marking, At, LeftAreStrays
<1> QED
  BY <1>4, StepInv

LEMMA FindsTrashInv ==
  ASSUME Inv, NEW r \in Requests, FindsTrash(r)
  PROVE  Inv'
<1> DEFINE p == req[r].path
           q == Find(All, "trash")
           pc == IF q = NoPath THEN "check" ELSE "uids"
<1>1. /\ At(r, "rmdir", "list") /\ UNCHANGED <<folder, used, chosen, mode, history>>
      /\ \/ Fail(r)
         \/ /\ p \in DOMAIN folder /\ UserUse(p) = "none" /\ (q = NoPath => folder[p].box = {})
            /\ Aim(r, q, pc)
  BY DEF FindsTrash, All
<1>2. FoldersInv' /\ Evolves
  BY <1>1, FoldersStay
<1>3. CASE Fail(r)
  BY <1>1, <1>2, <1>3, EndInv
<1>4. CASE ~Fail(r)
  <2>1. All \subseteq Paths
    BY DEF Inv, TypeOK, All
  <2>2. q \in Paths \union {NoPath}
    BY <2>1, FindFacts
  <2>3. pc \in {"check", "uids"} /\ pc \in PCs /\ (pc = "check" => q = NoPath)
    BY DEF PCs
  <2>4. /\ p \in DOMAIN folder /\ UserUse(p) = "none" /\ (q = NoPath => folder[p].box = {})
        /\ Aim(r, q, pc)
    BY <1>1, <1>4
  <2> HIDE DEF q, pc
  <2>5. Becomes(r, [pc |-> pc, kind |-> req[r].kind, path |-> p,
                    uids |-> req[r].uids, dest |-> q, sure |-> req[r].sure])
    BY <2>2, <2>3, <2>4, AimFacts, KnowsFacts
  <2>6. \A u \in req[r].uids : u < folder[p].next
    BY <1>1, <2>4 DEF Inv, RequestOk, UidsGiven, At, Ended
  <2>7. pc = "check" => MsgsOf(folder[p].box) = {}
    BY <2>3, <2>4 DEF MsgsOf
  <2> QED
    BY <1>1, <1>2, <2>3, <2>4, <2>5, <2>6, <2>7, RmdirInv DEF At, Ended
<1> QED
  BY <1>1, <1>3, <1>4

LEMMA ReadsPageInv ==
  ASSUME Inv, NEW r \in Requests, ReadsPage(r)
  PROVE  Inv'
<1> DEFINE p == req[r].path
           us == FirstPage(p)
           pc == IF us = {} THEN "check" ELSE "fetch"
<1>1. /\ At(r, "rmdir", "uids") /\ p \in DOMAIN folder /\ Take(r, us, pc)
      /\ UNCHANGED <<folder, used, chosen, mode, history>>
  BY DEF ReadsPage
<1>2. FoldersInv' /\ Evolves
  BY <1>1, FoldersStay
<1>3. /\ us \in SUBSET (1..MaxUid) /\ \A u \in us : u < folder[p].next
      /\ us = {} => folder[p].box = {}
  BY <1>1, FirstPageFacts
<1>4. pc \in {"check", "fetch"} /\ pc \in PCs /\ (pc = "check" => us = {})
  BY DEF PCs
<1> HIDE DEF us, pc
<1>5. Becomes(r, [pc |-> pc, kind |-> req[r].kind, path |-> p, uids |-> us,
                  dest |-> req[r].dest, sure |-> req[r].sure])
  BY <1>1, <1>3, <1>4, TakeFacts, KnowsFacts
<1>6. pc = "check" => MsgsOf(folder[p].box) = {}
  BY <1>3, <1>4 DEF MsgsOf
<1>7. req[r].sure => UserUse(p) = "none"
  BY <1>1, KnowsFacts DEF Knows, At
<1> QED
  BY <1>1, <1>2, <1>3, <1>4, <1>5, <1>6, <1>7, RmdirInv DEF At, Ended

\* What is in the folder when a page is empty by mistake is noted.
LEMMA StrandsInv ==
  ASSUME Inv, NEW r \in Requests, PageRefused(r) \/ PageGone(r)
  PROVE  Inv'
<1> DEFINE p == req[r].path
           left == MsgsOf(folder[p].box)
<1>1. /\ req[r].kind = "rmdir" /\ req[r].pc \in {"uids", "fetch"} /\ p \in DOMAIN folder
      /\ strays' = strays \union left /\ Take(r, {}, "check")
      /\ UNCHANGED <<folder, used, chosen, mode, arrived, removed, marked>>
  BY DEF PageRefused, PageGone, Strands, At
<1>2. left \subseteq Msgs /\ strays \subseteq Msgs /\ marked \subseteq Msgs
  BY <1>1, SelectedFacts, MessagesOf DEF Inv, TypeOK
<1> HIDE DEF left
<1>3. FoldersInv' /\ Evolves
  BY <1>1, <1>2, StayStep
<1>4. Becomes(r, [pc |-> "check", kind |-> req[r].kind, path |-> p, uids |-> {},
                  dest |-> req[r].dest, sure |-> req[r].sure])
  <2>1. "check" \in PCs /\ {} \in SUBSET (1..MaxUid)
    BY DEF PCs
  <2> QED
    BY <1>1, <2>1, TakeFacts, KnowsFacts
<1>5. req[r].sure => UserUse(p) = "none"
  BY <1>1, KnowsFacts DEF Knows
<1>6. MsgsOf(folder'[p].box) \subseteq strays'
  BY <1>1 DEF left
<1> QED
  BY <1>1, <1>3, <1>4, <1>5, <1>6, RmdirInv DEF Ended

LEMMA FetchesPageInv ==
  ASSUME Inv, NEW r \in Requests, FetchesPage(r)
  PROVE  Inv'
<1> DEFINE p == req[r].path
           us == PageThere(r)
<1>1. /\ At(r, "rmdir", "fetch") /\ p \in DOMAIN folder /\ Take(r, us, "act")
      /\ UNCHANGED <<folder, used, chosen, mode, history>>
  BY DEF FetchesPage
<1>2. FoldersInv' /\ Evolves
  BY <1>1, FoldersStay
<1>3. us \in SUBSET (1..MaxUid) /\ \A u \in us : u < folder[p].next
  BY <1>1, KnowsFacts DEF PageThere, Request, Inv, RequestOk, UidsGiven, At, Ended
<1> HIDE DEF us
<1>4. Becomes(r, [pc |-> "act", kind |-> req[r].kind, path |-> p, uids |-> us,
                  dest |-> req[r].dest, sure |-> req[r].sure])
  <2>1. "act" \in PCs
    BY DEF PCs
  <2> QED
    BY <1>1, <1>3, <2>1, TakeFacts, KnowsFacts
<1>5. req[r].sure => UserUse(p) = "none"
  BY <1>1, KnowsFacts DEF Knows, At
<1> QED
  BY <1>1, <1>2, <1>3, <1>4, <1>5, RmdirInv DEF At, Ended

LEMMA MovesPageInv ==
  ASSUME Inv, NEW r \in Requests, MovesPage(r)
  PROVE  Inv'
<1> DEFINE p == req[r].path
<1>1. /\ At(r, "rmdir", "act") /\ p \in DOMAIN folder /\ req[r].dest \in DOMAIN folder
      /\ Moved(p, req[r].uids, req[r].dest) /\ Take(r, {}, "uids")
      /\ UNCHANGED <<used, chosen, mode, arrived, removed, marked>>
  BY DEF MovesPage
<1>2. FoldersInv' /\ Evolves
  BY <1>1, MovedStep
<1>3. Becomes(r, [pc |-> "uids", kind |-> req[r].kind, path |-> p, uids |-> {},
                  dest |-> req[r].dest, sure |-> req[r].sure])
  <2>1. "uids" \in PCs /\ {} \in SUBSET (1..MaxUid)
    BY DEF PCs
  <2> QED
    BY <1>1, <2>1, TakeFacts, KnowsFacts
<1>4. req[r].sure => UserUse(p) = "none"
  BY <1>1, KnowsFacts DEF Knows, At
<1> QED
  BY <1>1, <1>2, <1>3, <1>4, RmdirInv DEF At, Ended

LEMMA ChecksDeleteInv ==
  ASSUME Inv, NEW r \in Requests, ChecksDelete(r)
  PROVE  Inv'
<1>1. /\ At(r, "rmdir", "check") /\ UNCHANGED <<folder, used, chosen, mode, history>>
      /\ (ServerUse(req[r].path) = "none" /\ Goto(r, "commit")) \/ Fail(r)
  BY DEF ChecksDelete
<1>2. CASE ServerUse(req[r].path) = "none" /\ Goto(r, "commit")
  <2>1. "commit" \in PCs /\ req[r].kind = "rmdir" /\ req[r].pc = "check" /\ req[r].pc \notin Ended
    BY <1>1 DEF PCs, At, Ended
  <2> QED
    BY <1>1, <1>2, <2>1, GotoKnows
<1>3. CASE Fail(r)
  BY <1>1, <1>3, FoldersStay, EndInv
<1> QED
  BY <1>1, <1>2, <1>3

LEMMA DeletesInv ==
  ASSUME Inv, NEW r \in Requests, Deletes(r)
  PROVE  Inv'
<1> DEFINE p == req[r].path
<1>1. /\ At(r, "rmdir", "commit") /\ p \in DOMAIN folder /\ End(r)
      /\ folder' = [c \in DOMAIN folder \ {p} |-> folder[c]]
      /\ UNCHANGED <<used, chosen, mode, arrived, removed, strays, marked>>
  BY DEF Deletes, history
<1>2. ServerUse(p) = "none" /\ p \in Paths
  BY <1>1, KnowsFacts DEF Knows, At, Inv, TypeOK
<1>3. p \notin Special
  BY <1>2, UseFacts
<1>4. MsgsOf(folder[p].box) \subseteq strays
  BY <1>1 DEF At, Inv, RequestOk, Ended, LeftAreStrays
<1> QED
  BY <1>1, <1>3, <1>4, DeletesStep, EndInv

LEMMA ChecksRenameInv ==
  ASSUME Inv, NEW r \in Requests, ChecksRename(r)
  PROVE  Inv'
<1>1. /\ At(r, "rename", "list") /\ UNCHANGED <<folder, used, chosen, mode, history>>
      /\ (ServerUse(req[r].path) = "none" /\ Goto(r, "check")) \/ Fail(r)
  BY DEF ChecksRename
<1>2. CASE ServerUse(req[r].path) = "none" /\ Goto(r, "check")
  <2>1. "check" \in PCs /\ req[r].kind = "rename" /\ req[r].pc \notin Ended
    BY <1>1 DEF PCs, At, Ended
  <2> QED
    BY <1>1, <1>2, <2>1, GotoKnows
<1>3. CASE Fail(r)
  BY <1>1, <1>3, FoldersStay, EndInv
<1> QED
  BY <1>1, <1>2, <1>3

LEMMA ChecksAgainInv ==
  ASSUME Inv, NEW r \in Requests, ChecksAgain(r)
  PROVE  Inv'
<1>1. /\ At(r, "rename", "check") /\ UNCHANGED <<folder, used, chosen, mode, history>>
      /\ Goto(r, "commit") \/ Fail(r)
  BY DEF ChecksAgain
<1>2. CASE Goto(r, "commit")
  <2>1. "commit" \in PCs /\ req[r].kind = "rename" /\ req[r].pc \notin Ended
    BY <1>1 DEF PCs, At, Ended
  <2>2. ServerUse(req[r].path) = "none"
    BY <1>1, KnowsFacts DEF Knows
  <2> QED
    BY <1>1, <1>2, <2>1, <2>2, GotoKnows
<1>3. CASE Fail(r)
  BY <1>1, <1>3, FoldersStay, EndInv
<1> QED
  BY <1>1, <1>2, <1>3

LEMMA RenamesInv ==
  ASSUME Inv, NEW r \in Requests, Renames(r)
  PROVE  Inv'
<1> DEFINE p == req[r].path
           q == req[r].dest
<1>1. /\ At(r, "rename", "commit") /\ p \in DOMAIN folder /\ Renamed(p, q) /\ End(r)
      /\ UNCHANGED <<chosen, mode, arrived, removed, strays, marked>>
  BY DEF Renames, history
<1>2. p \in Renameable /\ ServerUse(p) = "none" /\ p \in Paths
  BY <1>1, KnowsFacts DEF Knows, At, Inv, TypeOK
<1>3. p \notin Special
  BY <1>2, UseFacts
<1>4. q \in Paths
  BY <1>1, KnowsFacts DEF Knows, At
<1>5. FoldersInv' /\ Evolves
  BY <1>1, <1>2, <1>3, <1>4, RenamedStep
<1> QED
  BY <1>1, <1>5, EndInv

LEMMA ChecksCreateInv ==
  ASSUME Inv, NEW r \in Requests, ChecksCreate(r)
  PROVE  Inv'
<1>1. /\ At(r, "create", "list") /\ UNCHANGED <<folder, used, chosen, mode, history>>
      /\ Goto(r, "commit") \/ Fail(r)
  BY DEF ChecksCreate
<1>2. CASE Goto(r, "commit")
  <2>1. "commit" \in PCs /\ req[r].kind = "create" /\ req[r].pc \notin Ended
    BY <1>1 DEF PCs, At, Ended
  <2> QED
    BY <1>1, <1>2, <2>1, GotoKnows
<1>3. CASE Fail(r)
  BY <1>1, <1>3, FoldersStay, EndInv
<1> QED
  BY <1>1, <1>2, <1>3

\* What a creation counts on is that its parent has existed.
LEMMA CreateGoesOn ==
  ASSUME Inv, FoldersInv', Evolves, UNCHANGED <<chosen, mode>>, NEW r \in Requests, NEW pc \in PCs,
         Goto(r, pc), req[r].kind = "create", req[r].pc \notin Ended
  PROVE  Inv'
<1>1. Becomes(r, [pc |-> pc, kind |-> req[r].kind, path |-> req[r].path,
                  uids |-> req[r].uids, dest |-> req[r].dest, sure |-> req[r].sure])
  BY GotoFacts, KnowsFacts
<1>2. /\ req'[r].pc = pc /\ req'[r].kind = "create" /\ req'[r].path = req[r].path
      /\ req'[r].dest = req[r].dest
  BY <1>1 DEF Becomes
<1>3. req[r].path \in used' /\ req[r].dest \in Paths
  BY KnowsFacts DEF Knows, Evolves
<1>4. Knows(r)'
  BY <1>2, <1>3 DEF Knows, At
<1> QED
  BY <1>4, GotoInv

LEMMA CreatesInv ==
  ASSUME Inv, NEW r \in Requests, Creates(r)
  PROVE  Inv'
<1> DEFINE q == req[r].dest
<1>1. /\ At(r, "create", "commit") /\ q \notin used /\ Goto(r, "subscribe")
      /\ folder' = [p \in DOMAIN folder \union {q} |->
                      IF p = q THEN [NoFolder EXCEPT !.subscribed = FALSE] ELSE folder[p]]
      /\ used' = used \union {q}
      /\ UNCHANGED <<chosen, mode, arrived, removed, strays, marked>>
  BY DEF Creates, history
<1>2. q \in Paths /\ "subscribe" \in PCs
  BY <1>1, KnowsFacts DEF Knows, At, PCs
<1> HIDE DEF q
<1>3. FoldersInv' /\ Evolves
  BY <1>1, <1>2, CreatesStep
<1> QED
  BY <1>1, <1>2, <1>3, CreateGoesOn DEF At, Ended

LEMMA SubscribesInv ==
  ASSUME Inv, NEW r \in Requests, Subscribes(r)
  PROVE  Inv'
<1> DEFINE q == req[r].dest
<1>1. /\ At(r, "create", "subscribe") /\ q \in DOMAIN folder /\ Goto(r, "confirm")
      /\ folder' = [folder EXCEPT ![q].subscribed = TRUE]
      /\ UNCHANGED <<used, chosen, mode, arrived, removed, strays, marked>>
  BY DEF Subscribes, history
<1>2. FoldersInv' /\ Evolves
  BY <1>1, SubscribedStep
<1>3. "confirm" \in PCs
  BY DEF PCs
<1> QED
  BY <1>1, <1>2, <1>3, CreateGoesOn DEF At, Ended

LEMMA ConfirmsInv ==
  ASSUME Inv, NEW r \in Requests, Confirms(r)
  PROVE  Inv'
<1>1. (End(r) \/ Fail(r)) /\ UNCHANGED <<folder, used, chosen, mode, history>>
  BY DEF Confirms
<1> QED
  BY <1>1, FoldersStay, EndInv

LEMMA DeliverInv ==
  ASSUME Inv, NEW m \in Msgs, NEW p \in Paths, Deliver(m, p)
  PROVE  Inv'
BY DeliverStep, WorldInv DEF Deliver

LEMMA SubscribeInv ==
  ASSUME Inv, NEW p \in Paths, NEW b \in BOOLEAN, Subscribe(p, b)
  PROVE  Inv'
<1>1. /\ p \in DOMAIN folder /\ folder' = [folder EXCEPT ![p].subscribed = b]
      /\ UNCHANGED <<used, chosen, mode, req, arrived, removed, strays, marked>>
  BY DEF Subscribe, history
<1> QED
  BY <1>1, SubscribedStep, WorldInv

\* The settings change: what a deletion in flight has read of them is no longer so.
LEMMA ChooseInv ==
  ASSUME Inv, NEW q \in TrashChoices, NEW m \in Modes, Choose(q, m)
  PROVE  Inv'
<1>1. /\ chosen' = q /\ mode' = m /\ UNCHANGED <<folder, used, arrived, removed, strays, marked>>
      /\ req' = [r \in Requests |->
           IF req[r].kind \in {"delete", "rmdir"} THEN [req[r] EXCEPT !.sure = FALSE] ELSE req[r]]
  BY DEF Choose, history
<1>2. marked \in SUBSET Msgs /\ strays \in SUBSET Msgs
  BY DEF Inv, TypeOK
<1>3. FoldersInv' /\ Evolves
  BY <1>1, <1>2, StayStep
<1>4. ASSUME NEW s \in Requests
      PROVE  /\ req'[s] \in Request /\ req'[s].pc = req[s].pc /\ req'[s].kind = req[s].kind
             /\ req'[s].path = req[s].path /\ req'[s].uids = req[s].uids
             /\ req'[s].dest = req[s].dest
             /\ req[s].kind \in {"delete", "rmdir"} => ~req'[s].sure
  BY <1>1, KnowsFacts DEF Request
<1>5. ASSUME NEW s \in Requests
      PROVE  RequestOk(s)'
  <2>1. Knows(s) /\ used' = used
    BY <1>1, KnowsFacts
  <2>2. Knows(s)'
    <3>1. ServerUse(req[s].path)' = ServerUse(req[s].path)
      BY <1>4 DEF ServerUse
    <3> QED
      BY <1>4, <2>1, <3>1 DEF Knows, At
  <2>3. Marking(s)' => Marking(s)
    BY <1>4 DEF Marking, At
  <2> QED
    BY <1>3, <1>4, <2>2, <2>3, GoesOn
<1>6. TypeOK'
  BY <1>1, <1>3, <1>4 DEF FoldersInv, FoldersType, TypeOK
<1> QED
  BY <1>3, <1>5, <1>6 DEF Inv, FoldersInv

----------------------------------------------------------------------------
(* The invariant, and the theorems.                                        *)

LEMMA InitInv ==
  ASSUME Init
  PROVE  Inv
<1>1. /\ DOMAIN folder = Special \union Existing /\ used = Special \union Existing
      /\ \A p \in DOMAIN folder : folder[p] = NoFolder
      /\ chosen \in TrashChoices /\ mode \in Modes /\ req = [r \in Requests |-> Idle]
      /\ arrived = {} /\ removed = {} /\ strays = {} /\ marked = {}
  BY DEF Init
<1>2. NoFolder \in Folder /\ NoFolder.box = {} /\ NoFolder.subscribed
  <2>1. 1 \in 1..(MaxUid + 1)
    BY BoundsAssumption
  <2> QED
    BY <2>1 DEF NoFolder, Folder
<1>3. Idle \in Request
  BY DEF Idle, Request, PCs, Kinds
<1>4. TypeOK
  <2>1. folder \in [DOMAIN folder -> Folder]
    BY <1>1, <1>2 DEF Init
  <2>2. Special \union Existing \subseteq Paths
    BY PathsAssumption DEF Paths
  <2> QED
    BY <1>1, <1>3, <2>1, <2>2 DEF TypeOK
<1>5. BoxesInv
  BY <1>1, <1>2, FS_EmptySet DEF BoxesInv
<1>6. NothingLost /\ UnreadUntilMarked
  BY <1>1, <1>2 DEF NothingLost, UnreadUntilMarked
<1>7. SpecialThere
  BY <1>1 DEF SpecialThere
<1>8. ASSUME NEW r \in Requests
      PROVE  RequestOk(r)
  BY <1>1 DEF Idle, RequestOk, Knows, At, Ended
<1> QED
  BY <1>4, <1>5, <1>6, <1>7, <1>8 DEF Inv

LEMMA NextInv ==
  ASSUME Inv, [Next]_vars
  PROVE  Inv'
<1>1. CASE \E m \in Msgs, p \in Paths : Deliver(m, p)
  BY <1>1, DeliverInv
<1>2. CASE \E p \in Paths, b \in BOOLEAN : Subscribe(p, b)
  BY <1>2, SubscribeInv
<1>7. CASE \E q \in TrashChoices, m \in Modes : Choose(q, m)
  BY <1>7, ChooseInv
<1>3. ASSUME NEW r \in Requests,
             \/ OnMessages(r) \/ OnFolders(r) \/ Fails(r)
             \/ FindsDestination(r) \/ DeletesForGood(r) \/ Moves(r) \/ Copies(r)
             \/ Flags(r) \/ Opens(r)
      PROVE  Inv'
  BY <1>3, OnMessagesInv, OnFoldersInv, FailsInv, FindsDestinationInv, DeletesForGoodInv,
     MovesInv, CopiesInv, FlagsInv, OpensInv
<1>4. ASSUME NEW r \in Requests,
             \/ ChecksEmpty(r) \/ ReadsUids(r) \/ Batches(r)
             \/ FindsTrash(r) \/ ReadsPage(r) \/ PageRefused(r) \/ FetchesPage(r) \/ PageGone(r)
             \/ MovesPage(r) \/ ChecksDelete(r) \/ Deletes(r)
      PROVE  Inv'
  BY <1>4, ChecksEmptyInv, ReadsUidsInv, BatchesInv, FindsTrashInv, ReadsPageInv, StrandsInv,
     FetchesPageInv, MovesPageInv, ChecksDeleteInv, DeletesInv
<1>5. ASSUME NEW r \in Requests,
             \/ ChecksRename(r) \/ ChecksAgain(r) \/ Renames(r)
             \/ ChecksCreate(r) \/ Creates(r) \/ Subscribes(r) \/ Confirms(r)
      PROVE  Inv'
  BY <1>5, ChecksRenameInv, ChecksAgainInv, RenamesInv, ChecksCreateInv, CreatesInv,
     SubscribesInv, ConfirmsInv
<1>6. CASE UNCHANGED vars
  <2>1. UNCHANGED <<folder, used, chosen, mode, req, history>>
    BY <1>6 DEF vars, history
  <2> QED
    BY <2>1, FoldersStay, WorldInv
<1> QED
  BY <1>1, <1>2, <1>3, <1>4, <1>5, <1>6, <1>7 DEF Next

LEMMA InvHolds == Spec => []Inv
<1>1. Init => Inv
  BY InitInv
<1>2. Inv /\ [Next]_vars => Inv'
  BY NextInv
<1> QED
  BY <1>1, <1>2, PTL DEF Spec

\* The state of Mailbox has its types: among them, that uids stay within their
\* bound and that a folder that exists was created once.
THEOREM TypeCorrect == Spec => []TypeOK
<1>1. Inv => TypeOK
  BY DEF Inv
<1> QED
  BY <1>1, InvHolds, PTL

\* Whatever the folders, the messages, the settings and the requests in flight: no
\* message of an account is lost, but those removed on purpose, without a trash or
\* under settings that had just changed, and those of a folder whose deletion had
\* seen an empty page; none is marked as read that was not asked for; and the
\* special folders are never deleted, nor the one that is chosen as the trash.
THEOREM MailboxIsSound == Spec => []MailboxSound
<1>1. ASSUME Inv
      PROVE  MailboxSound
  <2>1. ASSUME NEW r \in Requests, At(r, "rmdir", "commit"), req[r].sure
        PROVE  req[r].path \notin Special \union {chosen}
    <3>1. req[r].path \in Paths /\ UserUse(req[r].path) = "none" /\ ServerUse(req[r].path) = "none"
      BY <1>1, <2>1, KnowsFacts DEF Knows, At, Ended, Inv, TypeOK
    <3> QED
      BY <3>1, UseFacts
  <2>2. SpecialKept
    BY <1>1, <2>1 DEF Inv, SpecialThere, SpecialKept
  <2> QED
    BY <1>1, <2>2 DEF Inv, MailboxSound
<1> QED
  BY <1>1, InvHolds, PTL
=============================================================================

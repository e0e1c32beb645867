---------------------------- MODULE AddressBook ----------------------------
(***************************************************************************)
(* The address book of the webmail's database: contacts with their primary *)
(* and secondary addresses (server/lib/store/contacts.ts), groups          *)
(* (contact-groups.ts), and everything that writes them: the routes of     *)
(* api/contacts and api/contact-groups, the recipients collected by a send,*)
(* the .vcf / .csv import, the page that creates a contact with two        *)
(* requests, and the Roundcube importer (scripts/lib/roundcube.mjs), which *)
(* repeats the rules of the store in SQL of its own.                       *)
(*                                                                         *)
(* node:sqlite is synchronous, so a route is one step; an import writes    *)
(* record after record without a transaction, so a record that is refused  *)
(* leaves the earlier ones, and its own row, in place.                     *)
(***************************************************************************)
EXTENDS Naturals, Sequences, SequencesExt, FiniteSets, FiniteSetsExt, Functions

CONSTANTS
  Owners,       \* accounts; an owner is the address of the account
  Addresses,    \* addresses of the contacts, which may be those of owners
  Names,        \* the names a contact may be given, and
  NoName,       \*   the empty one
  Groups,       \* names of groups
  Files,        \* files to import: sequences of records
  MaxEmails,    \* contactDetailInputSchema: addresses of a card (20)
  MaxContacts,  \* bound: contacts ever created
  MaxSteps      \* bound: requests

VARIABLES
  book,      \* contacts and contact_emails: [cards, next]
  groups,    \* contact_groups: the pairs <<owner, name>>, UNIQUE in the table
  members,   \* contact_group_members: the triples <<owner, name, contact id>>
  forms,     \* the page: contacts created whose second request is not sent
  did,       \* the last request: its kind and the account it was made for
  steps

vars == <<book, groups, members, forms, did, steps>>

Card == [owner : Owners, email : Addresses, name : Names, parts : Names,
         display : Names, manual : BOOLEAN, emails : Seq(Addresses)]

Kinds == {"none", "add", "rename", "edit", "delete", "collect", "import",
          "roundcube", "group"}

Init ==
  /\ book = [cards |-> <<>>, next |-> 1]
  /\ groups = {} /\ members = {} /\ forms = {}
  /\ did = [kind |-> "none", owner |-> CHOOSE o \in Owners : TRUE]
  /\ steps = 0

----------------------------------------------------------------------------
(* The store. A book is a function of the state, so that the two imports   *)
(* are folds over the records of a file.                                   *)

Owned(b, o) == {i \in DOMAIN b.cards : b.cards[i].owner = o}

Knows(card, a) == card.email = a \/ a \in ToSet(card.emails)

\* The UNION of the two selects is sorted: LIMIT 1 keeps the smallest id.
Find(b, o, a) ==
  LET ids == {i \in Owned(b, o) : Knows(b.cards[i], a)}
  IN  IF ids = {} THEN 0 ELSE Min(ids)

\* The first address of a record that some card has decides which card it is.
FindAny(b, o, es) ==
  LET known == {k \in DOMAIN es : Find(b, o, es[k]) # 0}
  IN  IF known = {} THEN 0 ELSE Find(b, o, es[Min(known)])

Inserted(b, card) ==
  [cards |-> [i \in DOMAIN b.cards \cup {b.next} |->
                IF i = b.next THEN card ELSE b.cards[i]],
   next |-> b.next + 1]

Changed(b, i, card) == [b EXCEPT !.cards[i] = card]

\* A contact created with one address, whose row has position 0.
NewCard(o, a, n, m) ==
  [owner |-> o, email |-> a, name |-> n, parts |-> NoName,
   display |-> NoName, manual |-> m, emails |-> <<a>>]

Or(n, other) == IF n # NoName THEN n ELSE other

Added(b, o, a, n) ==
  LET i == Find(b, o, a)
  IN  IF i = 0 THEN Inserted(b, NewCard(o, a, n, TRUE))
      ELSE Changed(b, i, [b.cards[i] EXCEPT !.manual = TRUE, !.name = Or(n, @)])

\* Another card of the owner has that primary address: 409.
Conflicts(b, i, a) ==
  \E j \in Owned(b, b.cards[i].owner) \ {i} : b.cards[j].email = a

\* updateContactDetail, once the schema has accepted the input.
Replaced(b, i, es, parts, display) ==
  IF Conflicts(b, i, es[1]) THEN b
  ELSE Changed(b, i, [b.cards[i] EXCEPT !.email = es[1], !.emails = es,
                        !.parts = parts, !.display = display,
                        !.name = Or(display, parts)])

\* recordRecipients for one recipient: not the owner's own address, and the
\* name of the message only when the contact has none.
Collected(b, o, a, n) ==
  LET i == Find(b, o, a)
  IN  IF a = o THEN b
      ELSE IF i = 0 THEN Inserted(b, NewCard(o, a, n, FALSE))
      ELSE Changed(b, i, [b.cards[i] EXCEPT !.name = Or(@, n)])

\* The addresses getContactDetail shows: the primary one when there are no rows.
ShownEmails(card) == IF card.emails = <<>> THEN <<card.email>> ELSE card.emails

Merged(es, more) == es \o SelectSeq(more, LAMBDA a : a \notin ToSet(es))

Refused(es) == Len(es) > MaxEmails

\* mergeImportedContact for one record: [b, ok]. A new contact is inserted
\* before its card is validated.
WebMerge(b, o, r) ==
  LET i     == FindAny(b, o, r.emails)
      shown == Or(r.display, r.parts)
      card  == b.cards[i]
      es    == Merged(ShownEmails(card), r.emails)
      bare  == [NewCard(o, r.emails[1], shown, TRUE) EXCEPT !.emails = <<>>]
  IN  IF i # 0
      THEN IF Refused(es) THEN [b |-> b, ok |-> FALSE]
           ELSE [b |-> LET c == Replaced(b, i, es, Or(card.parts, r.parts),
                                         Or(card.display, shown))
                       IN  Changed(c, i, [c.cards[i] EXCEPT !.manual = TRUE]),
                 ok |-> TRUE]
      ELSE IF Refused(r.emails) THEN [b |-> Inserted(b, bare), ok |-> FALSE]
      ELSE [b |-> Replaced(Inserted(b, bare), b.next, r.emails, r.parts, r.display),
            ok |-> TRUE]

\* The route stops at the first record that throws.
WebImported(b, o, file) ==
  FoldLeft(LAMBDA acc, r : IF acc.ok THEN WebMerge(acc.b, o, r) ELSE acc,
           [b |-> b, ok |-> TRUE], file).b

\* applyContactImport for one record: no limit on the addresses, no schema,
\* and the name of the contact stays when there is one.
RoundcubeMerge(b, o, r) ==
  LET i     == FindAny(b, o, r.emails)
      shown == Or(r.display, r.parts)
      card  == b.cards[i]
      es    == Merged(card.emails, r.emails)
  IN  IF i = 0
      THEN Inserted(b, [NewCard(o, r.emails[1], shown, TRUE) EXCEPT
                          !.emails = r.emails, !.parts = r.parts, !.display = r.display])
      ELSE Changed(b, i, [card EXCEPT
             !.email = es[1], !.emails = es, !.manual = TRUE,
             !.parts = Or(@, r.parts), !.display = Or(@, shown),
             !.name = Or(@, Or(card.display, shown))])

RoundcubeImported(b, o, file) ==
  FoldLeft(LAMBDA acc, r : RoundcubeMerge(acc, o, r), b, file)

----------------------------------------------------------------------------
(* Requests.                                                               *)

\* Every request: its kind and account, and the bounds of the model.
Request(kind, o) ==
  /\ steps < MaxSteps /\ steps' = steps + 1
  /\ did' = [kind |-> kind, owner |-> o]

Write(kind, o, b) ==
  /\ Request(kind, o)
  /\ b.next <= MaxContacts + 1
  /\ book' = b

\* POST /api/contacts: the quick addition from a message or the directory.
Add(o, a, n) ==
  /\ Write("add", o, Added(book, o, a, n))
  /\ UNCHANGED <<groups, members, forms>>

\* The page creates a contact: POST first, then PUT on the id of the answer,
\* which is an existing contact when the address was known.
CreateFirst(o, a, n) ==
  /\ Write("add", o, Added(book, o, a, n))
  /\ forms' = forms \cup {[id |-> Find(book', o, a), owner |-> o, email |-> a, name |-> n]}
  /\ UNCHANGED <<groups, members>>

CreateSecond(f) ==
  /\ forms' = forms \ {f}
  /\ Write("edit", f.owner,
           IF f.id \in DOMAIN book.cards
           THEN Replaced(book, f.id, <<f.email>>, NoName, f.name) ELSE book)
  /\ UNCHANGED <<groups, members>>

\* PATCH /api/contacts/:id
Rename(o, i, n) ==
  /\ Write("rename", o, Changed(book, i, [book.cards[i] EXCEPT !.name = n]))
  /\ UNCHANGED <<groups, members, forms>>

\* PUT /api/contacts/:id: the panel saves the whole card.
Edit(o, i, es, n) ==
  /\ ~Refused(es)
  /\ Write("edit", o, Replaced(book, i, es, book.cards[i].parts, n))
  /\ UNCHANGED <<groups, members, forms>>

Cascade(is) == {m \in members : m[3] \notin is}

\* DELETE /api/contacts/:id: the rows of the card and of the groups follow.
Delete(o, i) ==
  /\ Write("delete", o, [book EXCEPT !.cards = Restrict(@, DOMAIN @ \ {i})])
  /\ members' = Cascade({i})
  /\ UNCHANGED <<groups, forms>>

\* The recipients of a message that was sent, in one transaction.
Collect(o, as, n) ==
  /\ Write("collect", o, FoldLeft(LAMBDA b, a : Collected(b, o, a, n), book, as))
  /\ UNCHANGED <<groups, members, forms>>

\* POST /api/contacts/import
Import(o, file) ==
  /\ Write("import", o, WebImported(book, o, file))
  /\ UNCHANGED <<groups, members, forms>>

\* import-roundcube.mjs --apply, for one user: one transaction, his contacts,
\* then a group with all of them.
ImportRoundcube(o, file, g) ==
  /\ Write("roundcube", o, RoundcubeImported(book, o, file))
  /\ groups' = groups \cup {<<o, g>>}
  /\ members' = members \cup
       {<<o, g, FindAny(book', o, file[k].emails)>> : k \in DOMAIN file}
  /\ UNCHANGED forms

CreateGroup(o, g) ==
  /\ <<o, g>> \notin groups
  /\ Request("group", o)
  /\ groups' = groups \cup {<<o, g>>}
  /\ UNCHANGED <<book, members, forms>>

\* The name is the key of the model: a renamed group keeps its members.
RenameGroup(o, g, h) ==
  /\ <<o, g>> \in groups /\ <<o, h>> \notin groups
  /\ Request("group", o)
  /\ groups' = (groups \ {<<o, g>>}) \cup {<<o, h>>}
  /\ members' = {IF <<m[1], m[2]>> = <<o, g>> THEN <<o, h, m[3]>> ELSE m : m \in members}
  /\ UNCHANGED <<book, forms>>

DeleteGroup(o, g) ==
  /\ <<o, g>> \in groups
  /\ Request("group", o)
  /\ groups' = groups \ {<<o, g>>}
  /\ members' = {m \in members : <<m[1], m[2]>> # <<o, g>>}
  /\ UNCHANGED <<book, forms>>

\* The ids the owner has: the others are ignored.
Addable(o, is) == is \cap Owned(book, o)

AddMembers(o, g, is) ==
  /\ <<o, g>> \in groups
  /\ Request("group", o)
  /\ members' = members \cup {<<o, g, i>> : i \in Addable(o, is)}
  /\ UNCHANGED <<book, groups, forms>>

RemoveMembers(o, g, is) ==
  /\ <<o, g>> \in groups
  /\ Request("group", o)
  /\ members' = members \ {<<o, g, i>> : i \in is}
  /\ UNCHANGED <<book, groups, forms>>

\* A form of the page or the list of recipients: one or two addresses.
Lists == UNION {{s \in [1..k -> Addresses] : Cardinality(Range(s)) = k} : k \in 1..2}

Next ==
  \/ \E o \in Owners, a \in Addresses, n \in Names :
       Add(o, a, n) \/ CreateFirst(o, a, n)
  \/ \E f \in forms : CreateSecond(f)
  \/ \E o \in Owners, n \in Names :
       \/ \E i \in Owned(book, o) :
            \/ Rename(o, i, n) \/ Delete(o, i)
            \/ \E es \in Lists : Edit(o, i, es, n)
       \/ \E as \in Lists : Collect(o, as, n)
  \/ \E o \in Owners, file \in Files :
       \/ Import(o, file)
       \/ \E g \in Groups : ImportRoundcube(o, file, g)
  \/ \E o \in Owners, g \in Groups :
       \/ CreateGroup(o, g) \/ DeleteGroup(o, g)
       \/ \E h \in Groups : RenameGroup(o, g, h)
       \/ \E is \in SUBSET DOMAIN book.cards \ {{}} :
            AddMembers(o, g, is) \/ RemoveMembers(o, g, is)

Spec == Init /\ [][Next]_vars

----------------------------------------------------------------------------
(* Properties.                                                             *)

\* Types; ids are never used twice.
TypeOK ==
  /\ DOMAIN book.cards \subseteq 1..(book.next - 1)
  /\ \A i \in DOMAIN book.cards : book.cards[i] \in Card
  /\ groups \subseteq Owners \X Groups
  /\ members \subseteq Owners \X Groups \X (1..(book.next - 1))
  /\ did \in [kind : Kinds, owner : Owners]

\* contacts.email and the first row of contact_emails, two copies of one fact,
\* never disagree; a card without rows is one whose import was refused.
PrimaryFirst ==
  \A i \in DOMAIN book.cards :
    LET card == book.cards[i]
    IN  card.emails # <<>> => card.emails[1] = card.email

\* UNIQUE (owner, email): no path relies on the constraint to fail.
PrimaryUnique ==
  \A i, j \in DOMAIN book.cards :
    (book.cards[i].owner = book.cards[j].owner /\ book.cards[i].email = book.cards[j].email)
      => i = j

\* A group holds contacts that exist and belong to its owner.
MembersOwned ==
  \A m \in members :
    <<m[1], m[2]>> \in groups /\ m[3] \in Owned(book, m[1])

\* docs/guide/contacts.md: importing the same file again creates no contact,
\* with either importer, whatever the book was and whatever was refused.  (Asked
\* for the account of the last request: the others' books are as they were.)
ReimportAddsNobody ==
  did.kind # "group" => \A file \in Files :
    LET o   == did.owner
        web == WebImported(book, o, file)
        rc  == RoundcubeImported(book, o, file)
    IN  /\ WebImported(web, o, file).next = web.next
        /\ RoundcubeImported(rc, o, file).next = rc.next
        /\ WebImported(rc, o, file).next = rc.next

\* The tables of the book agree with each other, and imports can be repeated.
BookConsistent == PrimaryFirst /\ PrimaryUnique /\ MembersOwned /\ ReimportAddsNobody

\* What arrives by itself or in bulk never takes a contact or an address away,
\* and what a send or a Roundcube import brings never replaces a name.
AddsOnly ==
  /\ did'.kind \in {"add", "collect", "import", "roundcube"} =>
       \A i \in DOMAIN book.cards :
         /\ i \in DOMAIN book'.cards
         /\ \A a \in Addresses : Knows(book.cards[i], a) => Knows(book'.cards[i], a)
  /\ did'.kind \in {"collect", "roundcube"} =>
       \A i \in DOMAIN book.cards :
         book.cards[i].name # NoName => book'.cards[i].name = book.cards[i].name

\* A contact the user has added never becomes a collected one again.
StaysManual ==
  \A i \in DOMAIN book.cards \cap DOMAIN book'.cards :
    book.cards[i].manual => book'.cards[i].manual

\* A request for one account leaves the contacts and groups of the others.
OthersUntouched ==
  \A o \in Owners \ {did'.owner} :
    /\ Owned(book', o) = Owned(book, o)
    /\ \A i \in Owned(book, o) : book'.cards[i] = book.cards[i]
    /\ {m \in members : m[1] = o} = {m \in members' : m[1] = o}

\* What no request does to the contacts that were there.
CardsKept == [][AddsOnly /\ StaysManual /\ OthersUntouched]_vars

\* contacts.ts, mergeImportedContact: "on complète les champs vides, on ne
\* remplace jamais un champ déjà renseigné par l'utilisateur".
ImportKeepsNames ==
  [][did'.kind = "import" =>
       \A i \in DOMAIN book.cards :
         book.cards[i].name # NoName => book'.cards[i].name = book.cards[i].name]_vars
=============================================================================

----------------------------- MODULE MCCompose -----------------------------
(* Two instances of Compose in one run of TLC, on the same variables:         *)
(* "careful" has two messages, three calls, a user who waits for the requests *)
(* in flight, and no failure; "hasty" has one message and two calls, at any   *)
(* time, with failed requests, lost answers and late cancels.  `instance'     *)
(* names the one that runs.  There is a temporal property, hence no symmetry. *)
(* A third part is the page of the contacts (ContactsPage), a fourth their    *)
(* address book in the database (AddressBook).                                *)
EXTENDS Compose

CONSTANTS m1, m2, k1, k2, k3, e1, e2, e3, o2, n1, NoName, g1, g2

VARIABLES
  instance,
  cards, members, view, rows, listing, lists, selected, pane, contact, form,  \* ContactsPage
  gets, change, dialog, late, crossed, steps,
  book, groups, circles, forms, did, requests                                 \* AddressBook

Tidy == INSTANCE Compose WITH
  Msgs <- {m1, m2}, Calls <- {k1, k2, k3}, MaxUid <- 4, Careful <- TRUE, Faults <- {}

pagePart == <<cards, members, view, rows, listing, lists, selected, pane, contact, form,
              gets, change, dialog, late, crossed, steps>>

Page == INSTANCE ContactsPage WITH
  Ids <- 1..3, Existing <- 1..2, Groups <- {"family"}, None <- NoMsg, Sent <- m1,
  Refused <- k1, MaxSteps <- 2

bookPart == <<book, groups, circles, forms, did, requests>>

Record(es, parts, display) == [emails |-> es, parts |-> parts, display |-> display]

Book == INSTANCE AddressBook WITH
  Owners <- {e3, o2}, Addresses <- {e1, e2, e3}, Names <- {n1, NoName}, Groups <- {g1, g2},
  MaxEmails <- 2, MaxContacts <- 3, MaxSteps <- 3, members <- circles, steps <- requests,
  Files <- {<<Record(<<e1>>, NoName, NoName)>>,
            <<Record(<<e2, e1>>, n1, NoName), Record(<<e3, e2>>, NoName, n1)>>,
            <<Record(<<e1, e2, e3>>, NoName, n1)>>}

all == <<instance, vars, pagePart, bookPart>>

MCInit ==
  /\ Page!Init /\ Book!Init
  /\ \/ instance = "careful" /\ Tidy!Init
     \/ instance \in {"hasty", "contacts", "book"} /\ Init

MCNext ==
  /\ UNCHANGED instance
  /\ \/ instance = "careful" /\ Tidy!Next /\ UNCHANGED <<pagePart, bookPart>>
     \/ instance = "hasty" /\ Next /\ UNCHANGED <<pagePart, bookPart>>
     \/ instance = "contacts" /\ Page!Next /\ UNCHANGED <<vars, bookPart>>
     \/ instance = "book" /\ Book!Next /\ UNCHANGED <<vars, pagePart>>

\* The fairness of Compose, for the instance with a temporal property.
MCFairness ==
  /\ WF_vars(instance = "hasty" /\ AutosaveTimeout)
  /\ \A k \in {k1, k2} : WF_vars(instance = "hasty" /\ CallStep(k))

MCSpec == MCInit /\ [][MCNext]_all /\ MCFairness

----------------------------------------------------------------------------

MCTypeOK ==
  CASE instance = "careful" -> Tidy!TypeOK [] instance = "hasty" -> TypeOK
    [] instance = "contacts" -> Page!TypeOK [] instance = "book" -> Book!TypeOK

\* The types, and that ComposeSound holds of both instances (the run checks it of
\* "hasty" by its own name).  And the list of the contacts and the card that is shown or edited are
\* those of the server: ContactsPage.  Cards, addresses and groups agree, and an
\* import can be repeated: AddressBook.
WritingKept ==
  /\ MCTypeOK
  /\ instance = "careful" => Tidy!ComposeSound
  /\ instance = "contacts" => Page!PanelSound /\ Page!ListTrue
  /\ instance = "book" => Book!BookConsistent

\* SendsEnd: whatever fails, a submitted message is delivered or its form opened
\* again (compose.ts:394-429).  And the form of a contact stays open until it is
\* saved, cancelled or left: ContactsPage.  And no step of the address book loses what
\* a card says, or touches the cards of another account.
SendsEnd ==
  /\ \A k \in {k1, k2} :
       []<>(instance = "hasty" => call[k].step \notin {"pending", "sending"})
  /\ Page!FormKept
  /\ Book!CardsKept

=============================================================================

----------------------------- MODULE FiltersPage -----------------------------
(* The pages of the filters: the list of rules and the sets of a user         *)
(* (FiltersSettings.vue), the dialog that makes or edits one rule             *)
(* (FilterDialog.vue), the one that asks for a password or a code             *)
(* (ConfirmIdentityDialog.vue), and the short cache they share                *)
(* (stores/sieve.ts).  What the server does with a request is in SieveFilters: *)
(* here a request is applied or refused in one step, by a server nobody else   *)
(* uses.                                                                    *)
EXTENDS Naturals, FiniteSets, SequencesExt

CONSTANTS
  Names,       \* of sets
  Colombe,     \* the one that is created when a rule needs a set
  Servers,     \* where the server may begin: [active, sets]
  New,         \* the identity of a rule made in the dialog
  MaxOps,      \* of the user
  Sent, None

VARIABLES
  server,      \* [active, sets]: sets[n] is None, or a sequence of rules [id, on]
  status,      \* the store: the summary it holds, or None
  pending,     \* its request: None, Sent, or the summary on its way
  view,        \* the page: [status, rules, selected, draft]
  loads,       \* load() under way: [at, status, and the set to select then]
  reads,       \* loadSelectedSet() under way: [name, load, and the set to select then]
  ops,         \* operations under way
  confirm,     \* of each page, the operation whose promise its dialog holds, and if it is open
  form,        \* the rule in the dialog, or None
  n,           \* operations so far
  mixed,       \* an operation began under another request, or ended under a load, or lost
               \* its answer; or a set was selected under a read of another one
  missed,      \* the server changed and the page was not told, or did not get its answer:
               \*   what it shows may be of another set than it says
  lost,        \* rules that left a set unasked
  misplaced    \* a script that was written to another set than it was read from

vars == <<server, status, pending, view, loads, reads, ops, confirm, form, n, mixed, missed, lost, misplaced>>

Ids(rules) == {rules[i].id : i \in DOMAIN rules}
Present == {s \in Names : server.sets[s] # None}
Summary == [active |-> server.active, names |-> Present]

Blank == [status |-> None, rules |-> << >>, selected |-> None, draft |-> None]
Free == [open |-> FALSE, op |-> 0]

Init ==
  /\ server \in Servers
  /\ status = None /\ pending = Sent
  /\ view = Blank /\ loads = {[at |-> "status", status |-> None, then |-> None]} /\ reads = {}
  /\ ops = {} /\ confirm = [p \in {"page", "filter"} |-> Free] /\ form = None
  /\ n = 0 /\ mixed = FALSE /\ missed = FALSE /\ lost = {} /\ misplaced = FALSE

Loading == loads # {} \/ \E r \in reads : r.load
Modal == form # None \/ \E p \in DOMAIN confirm : confirm[p].open

----------------------------------------------------------------------------
(* The store: one request for all who ask while it is under way, its answer  *)
(* is kept for a minute or until a write.                                   *)

\* What asks for the status goes on at once, or waits for the request.
Asks(load, then) ==
  /\ pending' = IF status' = None /\ pending = None THEN Sent ELSE pending
  /\ loads' = loads \union
       IF ~load THEN {}
       ELSE {[at |-> IF status' = None THEN "status" ELSE "rules", status |-> status', then |-> then]}

Serve ==
  /\ pending = Sent
  /\ pending' = Summary
  /\ UNCHANGED <<server, status, view, loads, reads, ops, confirm, form, n, mixed, missed, lost, misplaced>>

\* What comes after the status in the dialog: the set in use, or a new one.
Chosen(o, s) ==
  IF s.active = None THEN [o EXCEPT !.at = "create", !.name = Colombe]
  ELSE [o EXCEPT !.at = "get", !.name = s.active]

Answered ==
  /\ pending \notin {None, Sent}
  /\ pending' = None /\ status' = pending
  /\ loads' = {IF l.at = "status" THEN [l EXCEPT !.at = "rules", !.status = pending] ELSE l : l \in loads}
  /\ ops' = {IF o.at = "status" THEN Chosen(o, pending) ELSE o : o \in ops}
  /\ UNCHANGED <<server, view, reads, confirm, form, n, mixed, missed, lost, misplaced>>

Expires ==
  /\ status # None
  /\ status' = None
  /\ UNCHANGED <<server, pending, view, loads, reads, ops, confirm, form, n, mixed, missed, lost, misplaced>>

----------------------------------------------------------------------------
(* load(): the status, the rules of the active set, then the set selected,   *)
(* which the watcher of the selection reads too.                            *)

Rules(name) == IF name = None \/ server.sets[name] = None THEN << >> ELSE server.sets[name]
FirstOf(s) == IF s.active # None THEN s.active
              ELSE IF s.names = {} THEN None ELSE SetToSeq(s.names)[1]

Reading(name, load, then) == [name |-> name, load |-> load, then |-> then]
Selected(v, name) == [v EXCEPT !.selected = name, !.draft = IF name = None THEN None ELSE @]
Watched(v, name) == IF name \in {v.selected, None} THEN {} ELSE {Reading(name, FALSE, None)}

LoadStatus(l) ==
  /\ l.at = "rules"
  /\ loads' = (loads \ {l}) \union {[l EXCEPT !.at = "list"]}
  /\ view' = [view EXCEPT !.status = l.status]
  /\ UNCHANGED <<server, status, pending, reads, ops, confirm, form, n, mixed, missed, lost, misplaced>>

LoadRules(l) ==
  /\ l.at = "list"
  /\ l.status.active # None => server.sets[l.status.active] # None
  /\ loads' = loads \ {l}
  /\ LET first == FirstOf(l.status)
         name == IF first = None THEN l.then ELSE first
     IN  /\ view' = Selected([view EXCEPT !.rules = Rules(l.status.active)], name)
         /\ reads' = reads \union Watched(view, name)
                       \union (IF first = None THEN {} ELSE {Reading(first, TRUE, l.then)})
  /\ UNCHANGED <<server, status, pending, ops, confirm, form, n, mixed, missed, lost, misplaced>>

\* The set selected when a load or a read ends: the one just created, or the same.
Follows(then) == IF then = None THEN view.selected ELSE then

\* The request of the folders or that of the rules fails: the page has its new
\* status by then, and keeps the rules of the old one under it.
LoadFails(l) ==
  /\ l.at = "list"
  /\ loads' = loads \ {l}
  /\ view' = Selected(view, Follows(l.then))
  /\ reads' = reads \union Watched(view, l.then)
  /\ missed' = TRUE
  /\ UNCHANGED <<server, status, pending, ops, confirm, form, n, mixed, lost, misplaced>>

\* An answer shows its set, whatever is selected by now; a failed one leaves the
\* script of the set that was shown.
ReadEnds(r, shown) ==
  /\ reads' = (reads \ {r}) \union Watched(view, Follows(r.then))
  /\ view' = Selected(shown, Follows(r.then))
  /\ mixed' = (mixed \/ (r.then # None /\ reads # {r}))
  /\ UNCHANGED <<server, status, pending, loads, ops, confirm, form, n, lost, misplaced>>
ReadAnswered(r) ==
  /\ server.sets[r.name] # None
  /\ ReadEnds(r, [view EXCEPT !.draft = [of |-> r.name, rules |-> server.sets[r.name]]])
  /\ UNCHANGED missed
ReadFails(r) == ReadEnds(r, view) /\ missed' = TRUE

\* The request of the status fails: a load ends, the dialog gives up.
Fails ==
  /\ pending # None
  /\ pending' = None
  /\ loads' = {l \in loads : l.at # "status"}
  /\ ops' = {o \in ops : o.at # "status"}
  /\ missed' = (missed \/ loads' # loads)
  /\ LET then == {l.then : l \in loads \ loads'} \ {None}
     IN  IF then = {} THEN UNCHANGED <<view, reads>>
         ELSE \E s \in then : view' = Selected(view, s) /\ reads' = reads \union Watched(view, s)
  /\ UNCHANGED <<server, status, confirm, form, n, mixed, lost, misplaced>>

\* The user selects a set, which is hasty while another one is read.
Select ==
  /\ n < MaxOps /\ n' = n + 1
  /\ view.status # None /\ ~Loading /\ ~Modal
  /\ \E s \in view.status.names \ {view.selected} :
       /\ view' = Selected(view, s)
       /\ reads' = reads \union Watched(view, s)
  /\ mixed' = (mixed \/ reads # {} \/ ops # {})
  /\ UNCHANGED <<server, status, pending, loads, ops, confirm, form, missed, lost, misplaced>>

\* The page is left and opened again, or the whole application is loaded anew
\* after a reauthentication elsewhere, which forgets what was to be confirmed.
Enter ==
  /\ n < MaxOps /\ n' = n + 1
  /\ \/ ops = {} /\ form = None /\ UNCHANGED <<status, ops, confirm, form>> /\ reads' = {} /\ view' = Blank
        /\ LET at == IF status = None THEN "status" ELSE "rules"
           IN  loads' = {[at |-> at, status |-> status, then |-> None]}
        /\ pending' = IF status = None /\ pending = None THEN Sent ELSE pending
     \/ /\ \E p \in DOMAIN confirm : confirm[p].open
        /\ status' = None /\ pending' = Sent /\ loads' = {[at |-> "status", status |-> None, then |-> None]}
        /\ reads' = {} /\ view' = Blank /\ ops' = {} /\ form' = None
        /\ confirm' = [p \in DOMAIN confirm |-> Free]
  /\ missed' = FALSE
  /\ UNCHANGED <<server, mixed, lost, misplaced>>

----------------------------------------------------------------------------
(* Operations of the page and of the dialog.                               *)

Op(kind, page, at, name, rules) ==
  [id |-> n + 1, kind |-> kind, page |-> page, at |-> at, name |-> name, rules |-> rules,
   gone |-> {}, code |-> FALSE]

Starts(op) ==
  /\ n < MaxOps /\ n' = n + 1
  /\ ops' = ops \union {op}
  /\ mixed' = (mixed \/ ops # {} \/ (op.kind # "form" /\ (pending # None \/ reads # {})))

\* toggleEnabled, deleteRule and moveRule write the list the page shows.
EditList ==
  /\ view.status # None /\ view.status.active # None /\ ~Loading /\ ~Modal
  /\ \E i \in DOMAIN view.rules :
       \/ Starts(Op("rules", "page", "call", view.status.active, [view.rules EXCEPT ![i].on = ~@]))
       \/ Starts([Op("rules", "page", "call", view.status.active, RemoveAt(view.rules, i))
                    EXCEPT !.gone = {view.rules[i].id}])
       \/ i > 1 /\ Starts(Op("rules", "page", "call", view.status.active,
                            [view.rules EXCEPT ![i] = view.rules[i - 1], ![i - 1] = view.rules[i]]))
  /\ UNCHANGED <<server, status, pending, view, loads, reads, confirm, form, missed, lost, misplaced>>

\* The buttons of the advanced mode; a script or an import is what the user likes.
EditSets ==
  /\ view.status # None /\ ~Loading /\ ~Modal
  /\ \/ \E s \in Names, from \in Present \union {None} :
          Starts(Op("create", "page", "call", s, Rules(from)))
     \/ \E s \in Names : Starts(Op("import", "page", "call", s, << >>))
     \/ /\ view.selected # None
        /\ \E k \in {"activate", "delete"} : Starts(Op(k, "page", "call", view.selected, << >>))
     \/ /\ view.selected # None /\ view.draft # None
        /\ Starts(Op("script", "page", "call", None, << >>))
  /\ UNCHANGED <<server, status, pending, view, loads, reads, confirm, form, missed, lost, misplaced>>

\* The vacation and the forward have forms of their own, which are loaded with
\* the page and stay beside it.
SaveSettings ==
  /\ view.status # None /\ ~Modal
  /\ Starts(Op("settings", "page", "call", None, << >>))
  /\ UNCHANGED <<server, status, pending, view, loads, reads, confirm, form, missed, lost, misplaced>>

\* The dialog is opened on a rule of the list, or on a new one from anywhere.
OpenForm ==
  /\ ~Modal
  /\ \/ form' = [id |-> New, on |-> TRUE]
     \/ ~Loading /\ \E i \in DOMAIN view.rules : form' = view.rules[i]
  /\ status' = status /\ Asks(FALSE, None)
  /\ n < MaxOps
  /\ mixed' = (mixed \/ ops # {})
  /\ UNCHANGED <<server, view, reads, ops, confirm, n, missed, lost, misplaced>>
CloseForm ==
  /\ form # None /\ \A p \in DOMAIN confirm : ~confirm[p].open
  /\ form' = None
  /\ UNCHANGED <<server, status, pending, view, loads, reads, ops, confirm, n, mixed, missed, lost, misplaced>>

SaveForm ==
  /\ form # None /\ ~\E o \in ops : o.kind = "form"
  /\ \A p \in DOMAIN confirm : ~confirm[p].open
  /\ LET o == Op("form", "filter", "status", None, <<form>>)
     IN  Starts(IF status = None THEN o ELSE Chosen(o, status))
  /\ status' = status /\ Asks(FALSE, None)
  /\ UNCHANGED <<server, view, reads, confirm, form, missed, lost, misplaced>>

Goes(o, next) == ops' = (ops \ {o}) \union {next}
Ends(o) == ops' = ops \ {o}

\* The rules the dialog writes: those the set has, with its own.
WithRule(rules, rule) ==
  IF rule.id \in Ids(rules)
    THEN [i \in DOMAIN rules |-> IF rules[i].id = rule.id THEN rule ELSE rules[i]]
    ELSE Append(rules, rule)

\* The rule that is written is the one the dialog has by then: another one's, if it
\* was opened on that since.
Written(o) == IF form = None THEN o.rules[1] ELSE form

FormGets(o) ==
  /\ o.at = "get"
  /\ IF server.sets[o.name] = None THEN Ends(o)
     ELSE Goes(o, [o EXCEPT !.at = "call", !.rules = WithRule(server.sets[o.name], Written(o))])
  /\ UNCHANGED <<server, status, pending, view, loads, reads, confirm, form, n, mixed, missed, lost, misplaced>>

\* A set of that name that is not active is refused: the dialog gives up.
FormCreates(o) ==
  /\ o.at = "create"
  /\ IF server.sets[Colombe] # None THEN Ends(o) /\ UNCHANGED <<server, missed>>
     ELSE /\ server' = [server EXCEPT !.sets[Colombe] = << >>]
          /\ Goes(o, [o EXCEPT !.at = "activate"]) /\ missed' = TRUE
  /\ UNCHANGED <<status, pending, view, loads, reads, confirm, form, n, mixed, lost, misplaced>>
FormActivates(o) ==
  /\ o.at = "activate"
  /\ IF server.sets[Colombe] = None THEN Ends(o) /\ UNCHANGED <<server, status>>
     ELSE /\ server' = [server EXCEPT !.active = Colombe]
          /\ status' = None
          /\ Goes(o, [o EXCEPT !.at = "call", !.rules = <<Written(o)>>])
  /\ UNCHANGED <<pending, view, loads, reads, confirm, form, n, mixed, missed, lost, misplaced>>

----------------------------------------------------------------------------
(* A request that writes: refused, refused until the user confirms, or       *)
(* applied; and what its page does with the answer.                         *)

\* What a request is about: the closure of saveScript reads the selection and
\* the script each time it is called, the others keep what they began with.
Target(o) == IF o.kind = "script" THEN view.selected ELSE o.name
Content(o) ==
  IF o.kind # "script" THEN o.rules
  ELSE IF view.draft = None THEN << >> ELSE view.draft.rules
ReadFromTarget(o) == view.draft # None /\ view.draft.of = Target(o)

Possible(o) ==
  CASE o.kind = "create" -> server.sets[o.name] = None
    [] o.kind = "delete" -> server.sets[o.name] # None /\ server.active # o.name
    [] o.kind \in {"import", "settings"} -> TRUE
    [] OTHER -> Target(o) # None /\ server.sets[Target(o)] # None

Applied(o) ==
  CASE o.kind = "activate" -> [server EXCEPT !.active = o.name]
    [] o.kind = "delete" -> [server EXCEPT !.sets[o.name] = None]
    [] o.kind = "settings" ->
         IF server.active # None THEN server
         ELSE [active |-> Colombe, sets |-> [server.sets EXCEPT ![Colombe] = << >>]]
    [] OTHER -> [server EXCEPT !.sets[Target(o)] = Content(o)]

\* Rules that are not in the set any more though nobody removed them.  A list
\* that was not told of a change writes without it: left out.
Dropped(o) ==
  IF o.kind = "form" \/ (o.kind \in {"rules", "script"} /\ ~missed) 
    THEN Ids(Rules(Target(o))) \ (Ids(Content(o)) \union o.gone)
  ELSE {}

\* invalidateStatus(), load() for what may have changed the sets, and the rules
\* of the answer in the list; the dialog tells the list and closes.
Reports(o) ==
  /\ status' = None
  /\ Asks(o.kind \notin {"rules", "settings"}, IF o.kind = "create" THEN o.name ELSE None)
  /\ view' = IF o.kind = "rules" THEN [view EXCEPT !.rules = o.rules] ELSE view
  /\ form' = IF o.kind = "form" THEN None ELSE form
  /\ missed' = IF o.kind = "settings" THEN missed \/ server.active = None
               ELSE IF o.kind = "rules" THEN missed ELSE FALSE

Call(o) ==
  /\ o.at = "call" /\ Possible(o)
  /\ o.kind \in {"script", "import"} => o.code
  /\ server' = Applied(o)
  /\ lost' = lost \union Dropped(o)
  /\ misplaced' = (misplaced \/ (o.kind = "script" /\ ~ReadFromTarget(o) /\ ~missed))
  /\ Ends(o)
  /\ \/ Reports(o) /\ mixed' = (mixed \/ loads # {} \/ reads # {})
     \/ mixed' = TRUE /\ UNCHANGED <<status, pending, loads, view, form, missed>>
  /\ UNCHANGED <<reads, confirm, n>>

Refuse(o) ==
  /\ o.at = "call"
  /\ Ends(o)
  /\ UNCHANGED <<server, status, pending, view, loads, reads, confirm, form, n, mixed, missed, lost, misplaced>>

\* 403: request() asks whether a second factor is set before it opens the dialog.
Ask(o) ==
  /\ o.at = "call" /\ Possible(o) /\ o.kind \in {"rules", "script", "import", "form", "settings"}
  /\ Goes(o, [o EXCEPT !.at = "asked", !.code = FALSE])
  /\ UNCHANGED <<server, status, pending, view, loads, reads, confirm, form, n, mixed, missed, lost, misplaced>>
OpenDialog(o) ==
  /\ o.at = "asked"
  /\ confirm' = [confirm EXCEPT ![o.page] = [open |-> TRUE, op |-> o.id]]
  /\ Goes(o, [o EXCEPT !.at = "confirm"])
  /\ UNCHANGED <<server, status, pending, view, loads, reads, form, n, mixed, missed, lost, misplaced>>

\* The promise the dialog holds is fulfilled or rejected.
Submit(o) ==
  /\ confirm[o.page] = [open |-> TRUE, op |-> o.id]
  /\ confirm' = [confirm EXCEPT ![o.page] = Free]
  /\ \/ Goes(o, [o EXCEPT !.at = "call", !.code = TRUE])
     \/ Ends(o)
  /\ UNCHANGED <<server, status, pending, view, loads, reads, form, n, mixed, missed, lost, misplaced>>

Next ==
  \/ Serve \/ Answered \/ Fails \/ Expires \/ Select \/ Enter
  \/ EditList \/ EditSets \/ SaveSettings \/ OpenForm \/ CloseForm \/ SaveForm
  \/ \E l \in loads : LoadStatus(l) \/ LoadRules(l) \/ LoadFails(l)
  \/ \E r \in reads : ReadAnswered(r) \/ ReadFails(r)
  \/ \E o \in ops :
       \/ FormGets(o) \/ FormCreates(o) \/ FormActivates(o)
       \/ Call(o) \/ Refuse(o) \/ Ask(o) \/ OpenDialog(o) \/ Submit(o)

Spec == Init /\ [][Next]_vars

----------------------------------------------------------------------------
(* Properties.                                                             *)

TypeOK ==
  /\ server.active \in Present \union {None}
  /\ pending \in {None, Sent} \union [active : Names \union {None}, names : SUBSET Names]
  /\ view.selected \in Names \union {None}
  /\ \A o \in ops : o.at \in {"status", "get", "create", "activate", "call", "asked", "confirm"}
  /\ n \in 0..MaxOps

\* With one operation at a time, and once all is answered, the page and the
\* store show the sets and the rules of the server.  Left out: the dialog that
\* created a set and was not confirmed, and a vacation that activated one, which
\* do not tell the list (FilterDialog.vue:268, VacationSettings.vue:70).
PageCurrent ==
  ~mixed /\ ~missed /\ ops = {} /\ loads = {} /\ pending = None /\ view.status # None =>
    /\ view.status = Summary
    /\ view.rules = Rules(server.active)
    /\ status \in {None, Summary}

\* With one operation at a time no rule leaves its set unasked, and a script is
\* saved to the set it was read from.
RulesKept == ~mixed => lost = {} /\ ~misplaced

\* With one operation at a time, the dialog holds the promise of whoever waits
\* for it.  A second request forgets the first, whose page saves for ever.
AskedIsHeld ==
  ~mixed => \A o \in ops : o.at = "confirm" => confirm[o.page] = [open |-> TRUE, op |-> o.id]

PageSound == PageCurrent /\ RulesKept /\ AskedIsHeld
=============================================================================

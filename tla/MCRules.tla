------------------------------ MODULE MCRules ------------------------------
(* What is written for other programs and read from them, in one run of TLC: the *)
(* scripts that rules become (SieveScripts), the filter sets of an account with   *)
(* two sessions (SieveFilters), the files of a Roundcube and the import of its     *)
(* tables (Roundcube).  They share no state: `which` names the part that moves,    *)
(* the others stay where they begin.                                               *)
EXTENDS SieveScripts, TLC

CONSTANTS P, Q, colombe, other, Absent, Unknown

VARIABLES
  which,
  scripts, active, conn, cache, call, calls, faults, confirmed, foreign, owed,  \* SieveFilters
  file, rest, mode, clean, result,                                               \* Roundcube, its files
  saved, run, tx, past, runs, errors, edits                                      \* Roundcube, the import

filterPart == <<scripts, active, conn, cache, call, calls, faults, confirmed, foreign, owed>>
filePart == <<file, rest, mode, clean, result>>
importPart == <<saved, run, tx, past, runs, errors, edits>>

----------------------------------------------------------------------------
(* Rules, vacations, forwards, messages and scripts written by hand.       *)

ann == Address("Ann", "ann", "univ")
bob == Address("Bob", "bob", "univ")
eve == Address("Eve", "eve", "else")

Condition(field, op, part, value) == [field |-> field, op |-> op, part |-> part, value |-> value]

TextConditions ==
    {Condition("from", op, "all", <<"ann", "@", "univ">>) : op \in {"contains", "is", "is-not"}}
    \union {Condition("from", op, "domain", <<"univ">>) : op \in {"is", "not-contains"}}
    \union {Condition("to-cc", op, "localpart", <<"bob">>) : op \in {"contains", "is-not"}}
    \union {Condition("subject", op, "all", <<"exam">>) : op \in {"contains", "not-contains", "starts-with"}}
    \union {Condition("subject", "matches", "all", <<"*", "exam">>)}
    \union {Condition("body", op, "all", <<"hello">>) : op \in {"contains", "not-contains"}}

MCConditions ==
    TextConditions
    \union {Condition("size", op, "all", 2) : op \in {"over", "under"}}
    \union {Condition("date", op, "all", 2) : op \in {"before", "after"}}
    \union {Condition("spam", "over", "all", 5)}

Move(f) == [type |-> "move", folder |-> f]
Copy(f) == [type |-> "copy", folder |-> f]
Just(type) == [type |-> type]
Redirect(a, keep) == [type |-> "redirect", address |-> a, keepCopy |-> keep]
Notify(a) == [type |-> "notify", address |-> a]

ActionLists ==
    {<<Move("F")>>, <<Copy("F"), Just("mark-read")>>, <<Just("delete")>>, <<Just("delete"), Move("F")>>,
     <<Redirect(bob, TRUE)>>, <<Redirect(bob, FALSE), Just("stop")>>, <<Redirect(eve, TRUE)>>,
     <<Just("flag"), Notify(bob), Just("stop"), Just("delete")>>, <<Just("reject")>>}

R(enabled, match, conditions, actions) ==
    [enabled |-> enabled, match |-> match, conditions |-> conditions, actions |-> actions]

One == {R(TRUE, "all", <<c>>, a) : c \in MCConditions, a \in ActionLists}

Two == {R(TRUE, m, <<Condition("subject", "contains", "all", <<"exam">>), c>>, <<Just("delete")>>) :
           m \in {"all", "any"}, c \in MCConditions}

Few == {R(e, "all", c, a) : e \in BOOLEAN, a \in ActionLists,
           c \in {<<>>, <<Condition("from", "is", "domain", <<"univ">>)>>}}

Few2 == {r \in Few : r.enabled /\ r.conditions # <<>>}

MCRuleLists ==
    {<<>>} \union {<<r>> : r \in One \union Two} \union {<<q, r>> : q \in Few, r \in Few2}

V(enabled, from, until, incoming, address) ==
    [enabled |-> enabled, from |-> from, until |-> until, incoming |-> incoming, address |-> address]

MCVacations ==
    {V(FALSE, None, None, "keep", None), V(TRUE, 2, 3, "keep", None), V(TRUE, 3, None, "discard", None),
     V(TRUE, None, 2, "copy", bob), V(TRUE, None, 1, "redirect", bob)}

F(enabled, address, keep) == [enabled |-> enabled, address |-> address, keepCopy |-> keep]
MCForwards == {F(FALSE, bob, TRUE), F(TRUE, bob, TRUE), F(TRUE, bob, FALSE)}

M(from, to, cc, subject, body, size, day, score) ==
    [from |-> from, to |-> to, cc |-> cc, subject |-> subject, body |-> body,
     size |-> size, day |-> day, score |-> score]

MCMessages ==
    {M(ann, <<bob>>, <<>>, <<"exam">>, <<"hello">>, 1, 2, 0),
     M(eve, <<bob, ann>>, <<>>, <<"re", "exam">>, <<"spam">>, 3, 1, 9),
     M(bob, <<ann>>, <<bob>>, <<"exam", "tomorrow">>, <<"hello", "bob">>, 2, 3, 5)}

MCCapabilities ==
    LET all == {"fileinto", "copy", "imap4flags", "reject", "enotify", "body", "date", "spamtest",
                "relational", "vacation"}
    IN  {all, all \ {"copy", "body"}}

(* Commands of a script by hand: the tokens, and what they do. *)
Redirecting(a) == [tokens |-> <<Ident("redirect"), Text(a), Sign("semicolon")>>,
                   does |-> <<Command("redirect", FALSE, a)>>]
Copying(a) == [tokens |-> <<Ident("redirect"), Tag("copy"), Text(a), Sign("semicolon")>>,
               does |-> <<Command("redirect", TRUE, a)>>]
Noting(a) == [tokens |-> <<Ident("notify"), Tag("message"), Text(bob), Text(a), Sign("semicolon")>>,
              does |-> <<Command("notify", TRUE, a)>>]
NotingFrom(a) == [tokens |-> <<Ident("notify"), Tag("options"), Sign("list-start"), Text(bob), Sign("comma"),
                               Text(bob), Sign("list-end"), Tag("from"), Text(bob), Text(a), Sign("semicolon")>>,
                  does |-> <<Command("notify", TRUE, a)>>]
Testing(a) == [tokens |-> <<Ident("if"), Ident("header"), Sign("list-start"), Text(ann), Sign("list-end"),
                            Sign("block-start"), Ident("redirect"), Text(a), Sign("semicolon"), Sign("block-end")>>,
               does |-> <<Command("redirect", FALSE, a)>>]
Away(from) == [tokens |-> <<Ident("vacation"), Tag("from"), Text(from), Text(bob), Sign("semicolon")>>,
               does |-> <<Command("vacation", TRUE, from)>>]

HandCommands == {c[a] : c \in {[a \in {bob, eve} |-> Redirecting(a)], [a \in {bob, eve} |-> Copying(a)],
                               [a \in {bob, eve} |-> Noting(a)], [a \in {bob, eve} |-> NotingFrom(a)],
                               [a \in {bob, eve} |-> Testing(a)]}, a \in {bob, eve}}
                \union {Away(ann), Away(eve)}

MCHandScripts == {<<c>> : c \in HandCommands} \union {<<c, d>> : c, d \in HandCommands}
MCLogin == ann
----------------------------------------------------------------------------

(* The files of a Roundcube: statements and comments of its configuration, and *)
(* the rows of an export.                                                      *)

Str(t) == [kind |-> "string", text |-> t]
Word(t) == [kind |-> "word", text |-> <<t>>]
Arr(items) == [kind |-> "array", items |-> items]
Item(k, v) == [key |-> k, value |-> v]
Set(key, v, quote, open, note) == [key |-> key, value |-> v, quote |-> quote, open |-> open, note |-> note]
Note(sign, text) == [key |-> None, note |-> [sign |-> sign, text |-> text]]
Hosts ==
  {Set("imap_host=", Str(t), q, "[", n) :
     t \in {<<"ssl:", "//", "mail", ":993">>, <<"mail", ";", ":143">>, <<"#">>, <<"it", "'", "s", "\"">>, <<"\\">>, <<"/*", ")">>},
     q \in {"'", "\""}, n \in {None, [sign |-> "//", text |-> <<"'">>]}}
Others ==
  {Set("default_host=", Str(<<"tls:", "//", "old">>), "'", "[", None),
   Set("imap_host=", Arr(<<Item(None, Str(<<"a", ":143">>)), Item(None, Str(<<"b">>))>>), "'", "array(", None),
   Set("imap_host=", Arr(<<Item(<<"x", ";">>, Str(<<"a">>)), Item(<<"y">>, Str(<<"b">>))>>), "'", "[", None),
   Note("//", <<"imap_host=", "'", "c", "'", ";">>), Note("#", <<"'", "*/">>),
   Note("/*", <<"newline", "imap_host=", "'", "c", ";">>)}
  \union {Set("imap_conn_options=",
              Arr(<<Item(<<"ssl">>, Arr(<<Item(<<"verify_peer">>, Word(w)), Item(<<"cafile">>, Str(<<"/*", "]">>))>>))>>),
              "'", o, None) : w \in {"true", "false"}, o \in {"[", "array("}}
MCFiles ==
  {<<p>> : p \in Hosts \union Others} \union {<<p, q>> : p \in Others, q \in Hosts \union Others}
  \union {<<p, q>> : p \in Hosts, q \in Others}
Fields == {None, <<>>, <<"x">>, <<"tab", "newline">>, <<"\\", "N">>, <<"\\">>, <<"n">>}
MCExports == {<<<<a, b>>>> : a, b \in Fields} \union {<<<<a, b>>, <<b, c>>>> : a, b, c \in Fields}

(* The tables of a Roundcube: two users with a group each and one without an    *)
(* owner; two users of one owner; a contact that joins two others.              *)

Contact(user, id, emails, del) == [user |-> user, id |-> id, emails |-> emails, del |-> del]
Group(user, id, name) == [user |-> user, id |-> id, name |-> name, del |-> FALSE]
Identity(user, name, text, standard) == [user |-> user, name |-> name, text |-> text, standard |-> standard, del |-> FALSE]
Response(user, name, text) == [user |-> user, name |-> name, text |-> text, del |-> FALSE]
MCTables ==
  {[users |-> <<"o1", "o2", Absent>>,
    contacts |-> <<Contact(1, 1, <<"e1", "e2">>, FALSE), Contact(1, 2, <<"e2">>, FALSE), Contact(2, 3, <<"e1">>, FALSE),
                   Contact(2, 4, <<"e2">>, TRUE), Contact(3, 5, <<"e3">>, FALSE), Contact(1, 6, << >>, FALSE)>>,
    groups |-> <<Group(1, 1, "g"), Group(2, 2, "g"), Group(1, 3, "g")>>,
    members |-> {<<1, 1>>, <<3, 2>>, <<2, 3>>, <<2, 4>>, <<1, 3>>, <<1, 6>>},
    identities |-> <<Identity(1, "a", "x", FALSE), Identity(1, "b", "x", TRUE), Identity(2, "a", "x", TRUE),
                     Identity(1, "c", "x", FALSE), Identity(1, "a", "y", FALSE)>>,
    responses |-> <<Response(1, "r", "x"), Response(2, "r", "x"), Response(2, "r", "y"), Response(2, "s", "x")>>],
   [users |-> <<"o1", "o1">>,
    contacts |-> <<Contact(1, 1, <<"e1">>, FALSE), Contact(2, 2, <<"e2">>, FALSE), Contact(1, 3, <<"e1", "e2">>, FALSE)>>,
    groups |-> <<Group(1, 1, "g"), Group(2, 2, "g")>>, members |-> {<<1, 1>>, <<2, 2>>, <<1, 2>>},
    identities |-> <<Identity(1, "a", "x", FALSE), Identity(2, "a", "y", TRUE)>>, responses |-> None],
   [users |-> <<"o1">>,
    contacts |-> <<Contact(1, 1, <<"e1">>, FALSE), Contact(1, 2, <<"e2">>, FALSE), Contact(1, 3, <<"e1", "e2">>, FALSE)>>,
    groups |-> <<Group(1, 1, "g")>>, members |-> {<<1, 2>>}, identities |-> <<>>, responses |-> <<>>]}

Old == INSTANCE Roundcube WITH Files <- MCFiles, Exports <- MCExports, Tables <- MCTables,
         NoOwner <- Absent, MaxIdentities <- 2, MaxResponses <- 1, MaxRuns <- 2, MaxErrors <- 1, MaxEdits <- 1
----------------------------------------------------------------------------

\* Texts without a header, and with one that says other destinations than the blocks.
Edited(managed, rules, vacation, sends) ==
  [managed |-> managed, rules |-> rules, vacation |-> vacation, forward |-> None, sends |-> sends]
MCTexts ==
  {Edited(FALSE, None, [on |-> FALSE, to |-> None], {q}) : q \in Q}
  \union {Edited(TRUE, q, [on |-> TRUE, to |-> q], Q \ {q}) : q \in Q}

Filters == INSTANCE SieveFilters WITH Sids <- P, Names <- {colombe, other}, Default <- colombe,
             Targets <- Q, Texts <- MCTexts, MaxCalls <- 2, MaxFaults <- 1

ASSUME FilterNames == Filters!NamesAssumption

\* The part that does not move has one of its scripts.
Still ==
  /\ pc = "done" /\ input = None /\ message = None
  /\ script = <<>> /\ block = 1 /\ out = None /\ place = None

RulesInit ==
  /\ which \in {"scripts", "filters", "files", "import"}
  /\ IF which = "scripts" THEN Init ELSE Still
  /\ Filters!Init
  /\ which # "filters" => active = None /\ \A s \in P : conn[s] = "none"
  /\ IF which = "files" THEN Old!ReadInit ELSE file = None /\ rest = <<>> /\ mode = "code" /\ clean = <<>> /\ result = None
  /\ Old!ImportInit

RulesNext ==
  /\ UNCHANGED which
  /\ \/ which = "scripts" /\ Next /\ UNCHANGED <<filterPart, filePart, importPart>>
     \/ which = "filters" /\ Filters!Next /\ UNCHANGED <<vars, filePart, importPart>>
     \/ which = "files" /\ Old!ReadNext /\ UNCHANGED <<vars, filterPart, importPart>>
     \/ which = "import" /\ Old!ImportNext /\ UNCHANGED <<vars, filterPart, filePart>>

RulesSpec == RulesInit /\ [][RulesNext]_<<which, vars, filterPart, filePart, importPart>>

Symmetry == Permutations(P) \union Permutations(Q)

----------------------------------------------------------------------------
(* Properties: those of the modules, each for the part that moves.         *)

\* Every destination of a redirection was confirmed by a user, and what a session
\* keeps of the scripts is what it has written (SieveFilters).
FiltersSound == Filters!TypeOK /\ Filters!ConfirmedRedirects /\ Filters!OwnCacheTrue

\* A change of a redirection is followed by an alert, and none is added by a call
\* that is about something else (SieveFilters).
ChangesTold == Filters!AlertsUnlessBroken /\ Filters!NothingAddedSilently

\* A script does to a message what its rules say, sends nothing to a place that is
\* not allowed, and « apply » chooses as the script does (SieveScripts).  The files
\* of a Roundcube are read as they are meant, and what an import commits is whole
\* users, and sound (Roundcube).
ScriptsSound ==
  CASE which = "scripts" -> TypeOK /\ DoesWhatIsAsked /\ SendsOnlyToAllowed /\ SelectsAsScript
    [] which = "files" -> Old!TypeOK /\ Old!ConfigAsPhp /\ Old!TablesAsExported
    [] which = "import" -> Old!TypeOK /\ Old!WholeUsers /\ Old!DatabaseSound
    [] which = "filters" -> TRUE

\* A dry run tells what the import does, and an import is repeated without effect
\* (Roundcube).
ImportsForetold == Old!DryRunForetells /\ Old!RerunAddsNothing
=============================================================================

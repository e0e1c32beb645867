------------------------------ MODULE Roundcube ------------------------------
(* The scripts that take over a Roundcube.  They read its config.inc.php           *)
(* (lib/roundcube.mjs), whose comments are taken out, whose last assignment of a   *)
(* key is found and whose value is parsed, and the tables of an export: a text is  *)
(* a sequence of the marks these readers stop at, and of words.  And they copy the *)
(* tables into the database of Colombe (import-roundcube.mjs), one transaction for *)
(* each user, rolled back in a dry run, after an error, or when the process is     *)
(* killed; the script is run again, and owners change their data between two runs. *)
(* A card is its addresses here: the rest of a merge is in AddressBook.            *)
EXTENDS Naturals, Sequences, SequencesExt, FiniteSets, FiniteSetsExt, Functions

CONSTANTS
  Files,          \* configurations: sequences of the statements and comments below
  Exports,        \* tables: sequences of rows of fields, which are texts or None
  Tables,         \* what Roundcube may have: [users, contacts, groups, members,
                  \*   identities, responses], `responses` = None before 1.5
  NoOwner,        \* of a username without @, when there is no --domain
  None,
  MaxIdentities, MaxResponses,  \* 20 and 100 in the code
  MaxRuns, MaxErrors, MaxEdits  \* bounds of the model

VARIABLES
  file,    \* the file that is read: of Files, or of Exports
  rest,    \* what is left to read
  mode,    \* "code", the quote of the string, the comment that is read, or "table"
  clean,   \* the text without its comments
  result,  \* None, or what was read
  saved,   \* the database, as committed
  run,     \* None, or the run: [apply, only, data, left, before, report]
  tx,      \* None, or the transaction: [user, phase, db, cards, groups, stats]
  past,    \* None, or the last run that ended, with `after' the database and
           \*   `alone': nothing failed or changed since (history)
  runs, errors, edits

readVars == <<file, rest, mode, clean, result>>
importVars == <<saved, run, tx, past, runs, errors, edits>>

Quotes == {"'", "\""}
Opening == {"array(", "["}
Closing == {")", "]"}

\* Values: a string or a word [kind, text], or an array of items [key, value],
\* whose key is a string or None.
Scalar(kind, text) == [kind |-> kind, text |-> text]
Array(items) == [kind |-> "array", items |-> items]

----------------------------------------------------------------------------
(* A file as it is written in PHP, and a table as it is exported.          *)

Escaped(text, quote) ==
  FoldLeft(LAMBDA a, c : IF c \in {quote, "\\"} THEN a \o <<"\\", c>> ELSE Append(a, c), <<>>, text)

RECURSIVE Php(_, _, _)
Php(v, quote, open) ==
  LET item(i) == (IF i.key = None THEN <<>> ELSE <<quote>> \o i.key \o <<quote, "=>">>)
                 \o Php(i.value, quote, open) \o <<",">>
  IN  CASE v.kind = "string" -> <<quote>> \o Escaped(v.text, quote) \o <<quote>>
        [] v.kind = "word" -> v.text
        [] v.kind = "array" -> <<open>> \o FlattenSeq([i \in DOMAIN v.items |-> item(v.items[i])])
                               \o <<IF open = "[" THEN "]" ELSE ")">>

Comment(c) == <<c.sign>> \o c.text \o <<IF c.sign = "/*" THEN "*/" ELSE "newline">>
Statement(s) ==
  IF s.key = None THEN Comment(s.note)
  ELSE <<s.key>> \o (IF s.note = None THEN <<>> ELSE Comment(s.note))
       \o Php(s.value, s.quote, s.open) \o <<";", "newline">>
Written(f) == FlattenSeq([i \in DOMAIN f |-> Statement(f[i])])

Exported(field) ==
  IF field = None THEN <<"\\", "N">>
  ELSE FlattenSeq([i \in DOMAIN field |->
         CASE field[i] = "newline" -> <<"\\", "n">> [] field[i] = "tab" -> <<"\\", "t">>
           [] field[i] = "\\" -> <<"\\", "\\">> [] OTHER -> <<field[i]>>])
Line(row) == FlattenSeq([i \in DOMAIN row |-> Exported(row[i]) \o IF i = Len(row) THEN <<"newline">> ELSE <<"tab">>])
Dump(rows) == FlattenSeq([i \in DOMAIN rows |-> Line(rows[i])])

ReadInit ==
  /\ \/ file \in Files /\ rest = Written(file) /\ mode = "code"
     \/ file \in Exports /\ rest = Dump(file) /\ mode = "table"
  /\ clean = <<>> /\ result = None

----------------------------------------------------------------------------
(* stripPhpComments, one mark at a time.                                   *)

Take(n) == clean' = clean \o SubSeq(rest, 1, n) /\ rest' = SubSeq(rest, n + 1, Len(rest))
Drop == rest' = Tail(rest) /\ UNCHANGED clean

InString ==
  /\ mode \in Quotes /\ rest # <<>>
  /\ IF Head(rest) = "\\" THEN Take(2) /\ UNCHANGED mode
     ELSE Take(1) /\ mode' = IF Head(rest) = mode THEN "code" ELSE mode
  /\ UNCHANGED <<file, result>>

InCode ==
  /\ mode = "code" /\ rest # <<>>
  /\ IF Head(rest) \in {"//", "#", "/*"} THEN Drop /\ mode' = Head(rest)
     ELSE Take(1) /\ mode' = IF Head(rest) \in Quotes THEN Head(rest) ELSE mode
  /\ UNCHANGED <<file, result>>

\* The end of a line is code again, the end of a block is dropped with it.
InComment ==
  /\ mode \in {"//", "#", "/*"} /\ rest # <<>>
  /\ IF mode # "/*" /\ Head(rest) = "newline" THEN UNCHANGED <<rest, clean>> /\ mode' = "code"
     ELSE Drop /\ mode' = IF mode = "/*" /\ Head(rest) = "*/" THEN "code" ELSE mode
  /\ UNCHANGED <<file, result>>

----------------------------------------------------------------------------
(* extractPhpAssignment and parsePhpLiteral.                               *)

\* The text from the last assignment of a key to its semicolon.
Assignment(text, key) ==
  LET at == {i \in DOMAIN text : text[i] = key}
      next(a, c) ==
        IF a.over THEN a
        ELSE IF a.skip THEN [a EXCEPT !.skip = FALSE, !.text = Append(@, c)]
        ELSE IF a.quote # None
             THEN [a EXCEPT !.text = Append(@, c), !.skip = c = "\\", !.quote = IF c = @ THEN None ELSE @]
        ELSE IF c = ";" /\ a.depth = 0 THEN [a EXCEPT !.over = TRUE]
        ELSE [a EXCEPT !.text = Append(@, c), !.quote = IF c \in Quotes THEN c ELSE None,
                       !.depth = IF c \in Opening THEN @ + 1 ELSE IF c \in Closing THEN @ - 1 ELSE @]
  IN  IF at = {} THEN None
      ELSE LET last == CHOOSE i \in at : \A j \in at : j <= i
           IN  FoldLeft(next, [text |-> <<>>, quote |-> None, depth |-> 0, skip |-> FALSE, over |-> FALSE],
                        SubSeq(text, last + 1, Len(text))).text

RECURSIVE SkipBlank(_)
SkipBlank(s) == IF s # <<>> /\ Head(s) = "newline" THEN SkipBlank(Tail(s)) ELSE s

\* [text, rest] of a string, after its opening quote.
RECURSIVE ReadString(_, _, _)
ReadString(s, quote, text) ==
  IF s = <<>> \/ Head(s) = quote THEN [text |-> text, rest |-> IF s = <<>> THEN s ELSE Tail(s)]
  ELSE IF Head(s) = "\\" /\ Len(s) > 1 /\ s[2] \in {quote, "\\"}
    THEN ReadString(SubSeq(s, 3, Len(s)), quote, Append(text, s[2]))
  ELSE ReadString(Tail(s), quote, Append(text, Head(s)))

\* [value, rest] of a value, [items, rest] of the items of an array.
RECURSIVE ReadValue(_), ReadItems(_, _, _)
ReadValue(blank) ==
  LET s == SkipBlank(blank)
      stops == {i \in DOMAIN s : s[i] \in {",", "array("} \union Closing \union Opening}
      to == IF stops = {} THEN Len(s) ELSE (CHOOSE i \in stops : \A j \in stops : i <= j) - 1
      str == ReadString(Tail(s), Head(s), <<>>)
      arr == ReadItems(Tail(s), IF Head(s) = "[" THEN "]" ELSE ")", <<>>)
  IN  CASE s # <<>> /\ Head(s) \in Quotes -> [value |-> Scalar("string", str.text), rest |-> str.rest]
        [] s # <<>> /\ Head(s) \in Opening -> [value |-> Array(arr.items), rest |-> arr.rest]
        [] OTHER -> [value |-> Scalar("word", SubSeq(s, 1, to)), rest |-> SubSeq(s, to + 1, Len(s))]

\* Once an item has a key, those without are forgotten.
Kept(items) ==
  IF \E i \in DOMAIN items : items[i].key # None THEN SelectSeq(items, LAMBDA i : i.key # None) ELSE items
ReadItems(blank, close, items) ==
  LET s == SkipBlank(blank)
      first == ReadValue(s)
      then == SkipBlank(first.rest)
      keyed == then # <<>> /\ Head(then) = "=>"
      second == ReadValue(Tail(then))
      item == IF keyed THEN [key |-> first.value.text, value |-> second.value] ELSE [key |-> None, value |-> first.value]
      after == SkipBlank(IF keyed THEN second.rest ELSE then)
  IN  IF s = <<>> \/ Head(s) = close THEN [items |-> Kept(items), rest |-> IF s = <<>> THEN s ELSE Tail(s)]
      ELSE ReadItems(IF after # <<>> /\ Head(after) = "," THEN Tail(after) ELSE after, close, Append(items, item))

ReadKey(text, key) == IF Assignment(text, key) = None THEN None ELSE ReadValue(Assignment(text, key)).value

----------------------------------------------------------------------------
(* parseRoundcubeMainConfig.                                               *)

\* parseHostUri: schemes and ports are words of their own.
HostUri(text) ==
  LET schemed == Len(text) > 2 /\ text[1] \in {"ssl:", "tls:", "tcp:"} /\ text[2] = "//"
      rest1 == IF schemed THEN SubSeq(text, 3, Len(text)) ELSE text
      ported == rest1 # <<>> /\ Last(rest1) \in {":993", ":143"}
  IN  [scheme |-> IF schemed THEN text[1] ELSE None, port |-> IF ported THEN Last(rest1) ELSE None,
       host |-> IF ported THEN Front(rest1) ELSE rest1]

\* The host key, or else that of the old style; of an array, its first value.
ResolveHost(text) ==
  LET own == ReadKey(text, "imap_host=")
      value == IF own = None THEN ReadKey(text, "default_host=") ELSE own
      first == IF value.kind = "array" THEN value.items[1].value ELSE value
  IN  IF value = None THEN None ELSE IF first.kind = "string" THEN HostUri(first.text) ELSE None

RECURSIVE HasVerifyPeerFalse(_)
HasVerifyPeerFalse(v) ==
  v.kind = "array" /\ \E i \in DOMAIN v.items :
    \/ v.items[i].key = <<"verify_peer">> /\ v.items[i].value = Scalar("word", <<"false">>)
    \/ HasVerifyPeerFalse(v.items[i].value)

ReadConfig ==
  /\ mode # "table" /\ rest = <<>> /\ result = None
  /\ LET options == ReadKey(clean, "imap_conn_options=")
     IN  result' = [imap |-> ResolveHost(clean), warned |-> options # None /\ HasVerifyPeerFalse(options)]
  /\ UNCHANGED <<file, rest, mode, clean>>

----------------------------------------------------------------------------
(* parseTsvContent.                                                        *)

Split(text, mark) ==
  FoldLeft(LAMBDA a, c : IF c = mark THEN Append(a, <<>>) ELSE [a EXCEPT ![Len(a)] = Append(@, c)], <<<<>>>>, text)
Unescape(field) ==
  IF field = <<"\\", "N">> THEN None
  ELSE FoldLeft(LAMBDA a, c :
         IF a.skip THEN [skip |-> FALSE, text |-> Append(a.text, CASE c = "n" -> "newline" [] c = "t" -> "tab" [] OTHER -> c)]
         ELSE IF c = "\\" THEN [a EXCEPT !.skip = TRUE] ELSE [a EXCEPT !.text = Append(@, c)],
         [skip |-> FALSE, text |-> <<>>], field).text

ReadTable ==
  /\ mode = "table" /\ result = None
  /\ LET lines == SelectSeq(Split(rest, "newline"), LAMBDA l : l # <<>>)
     IN  result' = [i \in DOMAIN lines |-> LET fields == Split(lines[i], "tab") IN [j \in DOMAIN fields |-> Unescape(fields[j])]]
  /\ UNCHANGED <<file, rest, mode, clean>>

ReadNext == InString \/ InCode \/ InComment \/ ReadConfig \/ ReadTable

Owners == UNION {Range(t.users) : t \in Tables} \ {NoOwner}

ImportInit ==
  /\ saved = [cards |-> <<>>, groups |-> <<>>, members |-> {}, identities |-> <<>>, responses |-> <<>>]
  /\ run = None /\ tx = None /\ past = None
  /\ runs = 0 /\ errors = 0 /\ edits = 0

----------------------------------------------------------------------------
(* The rows of a user, in the database db of owner o.                      *)

Of(rows, user) == SelectSeq(rows, LAMBDA r : r.user = user /\ ~r.del)
Count(stats, what) == [stats EXCEPT ![what] = @ + 1]
NoStats == [w \in {"created", "merged", "skipped", "group", "same", "identity", "updated",
                   "response", "rewritten", "full"} |-> 0]
Mine(rows, o) == SelectSeq(rows, LAMBDA r : r.owner = o)
Named(rows, o, name) == {i \in DOMAIN rows : rows[i].owner = o /\ rows[i].name = name}

\* A card with the first of the addresses that one has; of several, SQLite's
\* UNION gives the oldest.
Holding(cards, o, e) == {i \in DOMAIN cards : cards[i].owner = o /\ e \in ToSet(cards[i].emails)}
Match(cards, o, emails) ==
  LET known == SelectSeq(emails, LAMBDA e : Holding(cards, o, e) # {})
  IN  IF known = <<>> THEN 0 ELSE Min(Holding(cards, o, known[1]))

ContactRow(t, o, r) ==
  LET i == Match(t.db.cards, o, r.emails)
      others == SelectSeq(r.emails, LAMBDA e : e \notin ToSet(t.db.cards[i].emails))
      n == Len(t.db.cards) + 1
  IN  IF r.emails = <<>> THEN [t EXCEPT !.stats = Count(@, "skipped")]
      ELSE IF i = 0
        THEN [t EXCEPT !.db.cards = Append(@, [owner |-> o, emails |-> r.emails]),
                       !.cards = [k \in DOMAIN @ \union {r.id} |-> IF k = r.id THEN n ELSE @[k]],
                       !.stats = Count(@, "created")]
        ELSE [t EXCEPT !.db.cards[i].emails = @ \o others,
                       !.cards = [k \in DOMAIN @ \union {r.id} |-> IF k = r.id THEN i ELSE @[k]],
                       !.stats = Count(@, "merged")]

GroupRow(t, o, r) ==
  LET same == Named(t.db.groups, o, r.name)
      n == IF same = {} THEN Len(t.db.groups) + 1 ELSE Min(same)
  IN  [t EXCEPT !.db.groups = IF same = {} THEN Append(@, [owner |-> o, name |-> r.name]) ELSE @,
                !.groups = [k \in DOMAIN @ \union {r.id} |-> IF k = r.id THEN n ELSE @[k]],
                !.stats = Count(@, IF same = {} THEN "group" ELSE "same")]

\* The rows of every user are looked at: the maps hold those of this one.
MemberRows(t, members) ==
  [t EXCEPT !.db.members = @ \union
     {<<t.groups[m[1]], t.cards[m[2]]>> :
        m \in {n \in members : n[1] \in DOMAIN t.groups /\ n[2] \in DOMAIN t.cards}}]

\* The first identity is the default one, or the standard one when there is none.
IdentityRow(t, o, r) ==
  LET same == Named(t.db.identities, o, r.name)
      mine == Mine(t.db.identities, o)
      default == mine = <<>> \/ (r.standard /\ ~\E i \in DOMAIN mine : mine[i].default)
  IN  IF same # {}
        THEN [t EXCEPT !.db.identities[Min(same)].text = r.text, !.stats = Count(@, "updated")]
      ELSE IF Len(mine) >= MaxIdentities THEN [t EXCEPT !.stats = Count(@, "full")]
      ELSE [t EXCEPT !.db.identities =
                       Append(@, [owner |-> o, name |-> r.name, text |-> r.text, default |-> default]),
                     !.stats = Count(@, "identity")]

ResponseRow(t, o, r) ==
  LET same == Named(t.db.responses, o, r.name)
  IN  IF same # {}
        THEN [t EXCEPT !.db.responses[Min(same)].text = r.text, !.stats = Count(@, "rewritten")]
      ELSE IF Len(Mine(t.db.responses, o)) >= MaxResponses THEN [t EXCEPT !.stats = Count(@, "full")]
      ELSE [t EXCEPT !.db.responses = Append(@, [owner |-> o, name |-> r.name, text |-> r.text]),
                     !.stats = Count(@, "response")]

Phases == <<"contacts", "groups", "members", "identities", "responses", "end">>

\* One table of importOneUser.
Copied(t, data) ==
  LET o == data.users[t.user]
      done == CASE t.phase = "contacts" -> FoldLeft(LAMBDA a, r : ContactRow(a, o, r), t, Of(data.contacts, t.user))
                [] t.phase = "groups" -> FoldLeft(LAMBDA a, r : GroupRow(a, o, r), t, Of(data.groups, t.user))
                [] t.phase = "members" -> MemberRows(t, data.members)
                [] t.phase = "identities" -> FoldLeft(LAMBDA a, r : IdentityRow(a, o, r), t, Of(data.identities, t.user))
                [] t.phase = "responses" ->
                     IF data.responses = None THEN t
                     ELSE FoldLeft(LAMBDA a, r : ResponseRow(a, o, r), t, Of(data.responses, t.user))
  IN  [done EXCEPT !.phase = Phases[CHOOSE k \in 2..6 : Phases[k - 1] = t.phase]]

Begun(user, db) ==
  [user |-> user, phase |-> "contacts", db |-> db, cards |-> << >>, groups |-> << >>, stats |-> NoStats]

----------------------------------------------------------------------------
(* A run.                                                                  *)

\* The users with an owner, of those asked for, in the order of their table.
Chosen(data, only) ==
  SelectSeq(SetToSortSeq(DOMAIN data.users, <),
            LAMBDA u : data.users[u] # NoOwner /\ (only = {} \/ data.users[u] \in only))

Start(apply, only, data) ==
  /\ run = None /\ runs < MaxRuns /\ runs' = runs + 1
  /\ run' = [apply |-> apply, only |-> only, data |-> data, left |-> Chosen(data, only),
             before |-> saved, report |-> <<>>]
  /\ UNCHANGED <<saved, tx, past, errors, edits>>

BeginUser ==
  /\ run # None /\ tx = None /\ run.left # <<>>
  /\ tx' = Begun(Head(run.left), saved)
  /\ run' = [run EXCEPT !.left = Tail(@)]
  /\ UNCHANGED <<saved, past, runs, errors, edits>>

CopyTable ==
  /\ tx # None /\ tx.phase # "end"
  /\ tx' = Copied(tx, run.data)
  /\ UNCHANGED <<saved, run, past, runs, errors, edits>>

Reported(stats) == [run EXCEPT !.report = Append(@, [user |-> tx.user, stats |-> stats])]

\* Fault: a dry run commits.
EndUserCommits ==
  /\ tx # None /\ tx.phase = "end"
  /\ saved' = tx.db
  /\ run' = Reported(tx.stats) /\ tx' = None
  /\ UNCHANGED <<past, runs, errors, edits>>

EndUser ==
  /\ tx # None /\ tx.phase = "end"
  /\ saved' = IF run.apply THEN tx.db ELSE saved
  /\ run' = Reported(tx.stats) /\ tx' = None
  /\ UNCHANGED <<past, runs, errors, edits>>

\* A statement fails: the user is rolled back, and the next one begins.
RowFails ==
  /\ tx # None /\ errors < MaxErrors /\ errors' = errors + 1
  /\ run' = Reported(None) /\ tx' = None
  /\ UNCHANGED <<saved, past, runs, edits>>

EndRun ==
  /\ run # None /\ tx = None /\ run.left = <<>>
  /\ past' = [run |-> run, after |-> saved, alone |-> TRUE] /\ run' = None
  /\ UNCHANGED <<saved, tx, runs, errors, edits>>

\* The process is stopped: SQLite forgets the transaction that was open.
Killed ==
  /\ run # None /\ errors < MaxErrors /\ errors' = errors + 1
  /\ run' = None /\ tx' = None /\ past' = None
  /\ UNCHANGED <<saved, runs, edits>>

\* Colombe is started again, and an owner edits a text or adds a card.
Edit(o) ==
  /\ run = None /\ edits < MaxEdits /\ edits' = edits + 1
  /\ past' = IF past = None THEN None ELSE [past EXCEPT !.alone = FALSE]
  /\ \/ \E i \in DOMAIN saved.responses :
          /\ saved.responses[i].owner = o
          /\ saved' = [saved EXCEPT !.responses[i].text = "mine"]
     \/ saved' = [saved EXCEPT !.cards = Append(@, [owner |-> o, emails |-> <<"e1">>])]
        /\ Holding(saved.cards, o, "e1") = {}
     \/ saved' = [saved EXCEPT !.identities =
                    Append(@, [owner |-> o, name |-> "mine", text |-> "mine", default |-> Mine(@, o) = <<>>])]
        /\ Named(saved.identities, o, "mine") = {} /\ Len(Mine(saved.identities, o)) < MaxIdentities
  /\ UNCHANGED <<run, tx, runs, errors>>

ImportNext ==
  \/ \E apply \in BOOLEAN, only \in {{}} \union {{o} : o \in Owners}, data \in Tables : Start(apply, only, data)
  \/ BeginUser \/ CopyTable \/ EndUser \/ RowFails \/ EndRun \/ Killed
  \/ \E o \in Owners : Edit(o)

----------------------------------------------------------------------------
(* The scripts.                                                            *)

Init == ReadInit /\ ImportInit

Next ==
  \/ ReadNext /\ UNCHANGED importVars
  \/ ImportNext /\ UNCHANGED readVars

Spec == Init /\ [][Next]_<<readVars, importVars>>

----------------------------------------------------------------------------
(* Properties.                                                             *)

TypeOK ==
  /\ mode \in Quotes \union {"code", "//", "#", "/*", "table"} /\ Len(clean) + Len(rest) <= 200
  /\ DOMAIN saved = {"cards", "groups", "members", "identities", "responses"}
  /\ runs \in 0..MaxRuns /\ errors \in 0..MaxErrors /\ edits \in 0..MaxEdits
  /\ tx # None => run # None

\* What PHP would make of the file: the value of the last statement of a key.
Meant(key) ==
  LET of == {i \in DOMAIN file : file[i].key = key}
  IN  IF of = {} THEN None ELSE file[CHOOSE i \in of : \A j \in of : j <= i].value
RECURSIVE Inside(_)
Inside(v) == {v} \union IF v.kind = "array" THEN UNION {Inside(v.items[i].value) : i \in DOMAIN v.items} ELSE {}
MeantUri ==
  LET v == IF Meant("imap_host=") = None THEN Meant("default_host=") ELSE Meant("imap_host=")
  IN  IF v = None THEN None ELSE (IF v.kind = "array" THEN v.items[1].value ELSE v).text
Uri(h) ==
  (IF h.scheme = None THEN <<>> ELSE <<h.scheme, "//">>) \o h.host \o (IF h.port = None THEN <<>> ELSE <<h.port>>)

\* The server that setup deduces, and its warning about certificates, are those
\* of the configuration as PHP reads it: whatever is in comments, strings (the
\* // of a URI, a semicolon, an escaped quote) and statements that were redone.
ConfigAsPhp ==
  mode # "table" /\ result # None =>
    /\ IF result.imap = None THEN MeantUri = None
       ELSE Uri(result.imap) = MeantUri /\ "//" \notin ToSet(result.imap.host)
    /\ result.warned <=>
         LET v == Meant("imap_conn_options=")
         IN  v # None /\ \E a \in Inside(v) : a.kind = "array" /\
               \E i \in DOMAIN a.items :
                 a.items[i] = [key |-> <<"verify_peer">>, value |-> Scalar("word", <<"false">>)]

\* Every field of a table comes back as it was in the database: with its tabs,
\* its ends of line and its backslashes, and NULL apart from the text \N.
TablesAsExported == mode = "table" /\ result # None => result = file

\* importOneUser as a whole.
Imported(db, user, data) ==
  FoldLeft(LAMBDA t, k : Copied(t, data), Begun(user, db), <<1, 2, 3, 4, 5>>)

\* What is committed is the whole import of each user that was reported with his
\* counts, in the order of the report, and nothing of the others; a dry run
\* commits nothing.
WholeUsers ==
  run # None =>
    LET done == SelectSeq(run.report, LAMBDA l : l.stats # None)
    IN  /\ saved = IF run.apply
                   THEN FoldLeft(LAMBDA db, l : Imported(db, l.user, run.data).db, run.before, done)
                   ELSE run.before
        /\ run.only # {} => \A i \in DOMAIN done : run.data.users[done[i].user] \in run.only

\* Whatever failed: a group has contacts of its owner only, an owner has one
\* default identity, and no more identities and responses than the pages allow.
DatabaseSound ==
  /\ \A m \in saved.members : saved.groups[m[1]].owner = saved.cards[m[2]].owner
  /\ \A o \in Owners :
       LET mine == Mine(saved.identities, o)
       IN  /\ mine # <<>> => Cardinality({i \in DOMAIN mine : mine[i].default}) = 1
           /\ Len(mine) <= MaxIdentities /\ Len(Mine(saved.responses, o)) <= MaxResponses

Failed(r) == \E i \in DOMAIN r.report : r.report[i].stats = None
Again(r, p) == p # None /\ p.alone /\ r.data = p.run.data /\ r.only = p.run.only /\ ~Failed(r) /\ ~Failed(p.run)
OneUserEach(data) == \A u, v \in DOMAIN data.users : u # v /\ data.users[u] # NoOwner => data.users[u] # data.users[v]

\* What a dry run counts is what the import that follows it does.  Left out: two
\* Roundcube users of one owner (two servers, or a name with and without its
\* domain): each is counted in a database that does not have the other.
DryRunForetells ==
  [][run # None /\ run' = None /\ tx = None /\ run.left = <<>> /\ run.apply /\ past' # None
     /\ Again(run, past) /\ ~past.run.apply /\ OneUserEach(run.data)
     => run.report = past.run.report]_importVars

\* No contact joins two others that have no address in common: what it brings is
\* added to the card of one, which is then found for the other, and takes its
\* place in the groups.
Apart(data) ==
  \A i, j, k \in DOMAIN data.contacts :
    LET joins(m) == ToSet(data.contacts[i].emails) \intersect ToSet(data.contacts[m].emails)
    IN  joins(j) # {} /\ joins(k) # {}
        => ToSet(data.contacts[j].emails) \intersect ToSet(data.contacts[k].emails) # {}

\* « Ré-exécutable sans doublons » (import-roundcube.mjs:9): an import that
\* follows another one of the same tables creates nothing and changes nothing.
RerunAddsNothing ==
  [][run # None /\ run' = None /\ tx = None /\ run.left = <<>> /\ run.apply /\ past' # None
     /\ Again(run, past) /\ past.run.apply /\ Apart(run.data)
     => /\ saved = past.after
        /\ \A i \in DOMAIN run.report : \A w \in {"created", "group", "identity", "response"} :
             run.report[i].stats[w] = 0]_importVars

\* Refuted: what an owner has changed since in a response is overwritten by the
\* next import, which only fills what is empty in a card (roundcube.mjs:637).
EditsSurvive ==
  [][\A i \in DOMAIN saved.responses : saved.responses[i].text = "mine" => saved'.responses[i].text = "mine"]_importVars
=============================================================================

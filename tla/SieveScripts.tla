---- MODULE SieveScripts ----
(***************************************************************************)
(* What becomes of the filters of a user: the script that is generated     *)
(* from them (server/lib/sieve/generate.ts), the scan of a script that is  *)
(* written by hand (scan.ts), the selection and the actions of « apply to  *)
(* the messages that are there » (apply-match.ts, apply.post.ts), and the  *)
(* mail server that runs a script on a message, after RFC 5228.            *)
(*                                                                         *)
(* A text is a sequence of atoms; an atom stands for characters that the   *)
(* conditions never split.  Case and the comparators are left out.         *)
(***************************************************************************)
EXTENDS Naturals, SequencesExt

CONSTANTS
    RuleLists,      \* the lists of rules that a user may save
    Vacations, Forwards,
    Capabilities,   \* the sets of extensions that a server may announce
    Messages,       \* messages that arrive, or that are in the inbox
    HandScripts,    \* scripts written by hand, sequences of commands
    Today,          \* the day on which a script runs
    Allowed,        \* allowed domains, MAIL_FORWARD_DOMAINS
    Login,          \* the address of the account
    HasTrash,       \* whether a trash is found, and used to delete
    None

VARIABLES
    pc,         \* "new", "run", "apply" or "done"
    input,      \* the rules, the vacation and the forward
    message,    \* the message the script or the rule is applied to
    script,     \* what the server runs
    block,      \* the block it runs next
    out,        \* what has happened to the message
    place       \* where « apply » has put it

vars == <<pc, input, message, script, block, out, place>>

Address(name, local, domain) == [name |-> name, local |-> local, domain |-> domain]

\* isAllowedForwardTarget().
IsAllowed(address) == address # None /\ address.domain \in Allowed

(***************************************************************************)
(* Texts.  A pattern holds one « * » at most.                              *)
(***************************************************************************)
HasWithin(text, value) ==
    \E i \in 0..Len(text) - Len(value) : SubSeq(text, i + 1, i + Len(value)) = value

Like(text, pattern) ==
    IF \E i \in DOMAIN pattern : pattern[i] = "*"
    THEN LET star == CHOOSE i \in DOMAIN pattern : pattern[i] = "*"
             head == SubSeq(pattern, 1, star - 1)
             tail == SubSeq(pattern, star + 1, Len(pattern))
         IN  /\ Len(text) >= Len(head) + Len(tail)
             /\ IsPrefix(head, text) /\ IsSuffix(tail, text)
    ELSE text = pattern

(***************************************************************************)
(* The tests of a script.                                                  *)
(***************************************************************************)
\* matchTest(): the match type of an operator, and whether the test is negated.
MatchType(op) ==
    CASE op \in {"contains", "not-contains"} -> "contains"
      [] op \in {"is", "is-not"} -> "is"
      [] OTHER -> "matches"

Negates(op) == op \in {"not-contains", "is-not"}

\* buildCondition(), for the tests that a server can read.
BuildCondition(c) ==
    CASE c.field \in {"size", "spam"} ->
           [test |-> c.field, match |-> c.op, negated |-> FALSE, part |-> "all", key |-> c.value]
      [] OTHER ->
           [test |-> c.field, match |-> MatchType(c.op), negated |-> Negates(c.op),
            part |-> c.part, key |-> c.value]

\* No server reads the other ones: the test `date` gets two of its three arguments, and
\* « starts with » puts its star behind the closing quote of the string.
Unreadable(c) == c.field = "date" \/ c.op = "starts-with"

\* A server that follows the standard refuses these too: the comparator of `spamtest` is
\* not required, and the test of `not` stands in parentheses, as a list does.
Loose(c) == c.field = "spam" \/ Negates(c.op)

\* buildTest(): the test of a rule without a condition is `true`, an empty allof.
BuildTest(rule) ==
    [any |-> rule.match = "any" /\ Len(rule.conditions) > 1,
     tests |-> [i \in DOMAIN rule.conditions |-> BuildCondition(rule.conditions[i])]]

\* The part of an address that the `address` test of Sieve looks at.
Part(a, part) ==
    CASE part = "localpart" -> <<a.local>>
      [] part = "domain" -> <<a.domain>>
      [] OTHER -> <<a.local, "@", a.domain>>

Tested(t, m) ==
    CASE t.test = "from" -> {Part(m.from, t.part)}
      [] t.test = "to-cc" -> {Part(a, t.part) : a \in Range(m.to) \union Range(m.cc)}
      [] t.test = "subject" -> {m.subject}
      [] t.test = "body" -> {m.body}

\* The mail server evaluates one test.
Holds(t, m) ==
    CASE t.test = "size" -> IF t.match = "under" THEN m.size < t.key ELSE m.size > t.key
      [] t.test = "spam" -> m.score >= t.key
      [] t.test = "currentdate" -> IF t.match = "ge" THEN Today >= t.key ELSE Today <= t.key
      [] OTHER ->
           LET found == \E text \in Tested(t, m) :
                            CASE t.match = "contains" -> HasWithin(text, t.key)
                              [] t.match = "is" -> text = t.key
                              [] t.match = "matches" -> Like(text, t.key)
           IN  found # t.negated

Passes(test, m) ==
    IF test.any THEN \E i \in DOMAIN test.tests : Holds(test.tests[i], m)
                ELSE \A i \in DOMAIN test.tests : Holds(test.tests[i], m)

(***************************************************************************)
(* The commands of a script.                                               *)
(***************************************************************************)
Command(cmd, copy, arg) == [cmd |-> cmd, copy |-> copy, arg |-> arg]

\* buildActions(): one command for each action, in their order.
BuildAction(a) ==
    CASE a.type = "move" -> Command("fileinto", FALSE, a.folder)
      [] a.type = "copy" -> Command("fileinto", TRUE, a.folder)
      [] a.type = "mark-read" -> Command("addflag", TRUE, "Seen")
      [] a.type = "flag" -> Command("addflag", TRUE, "Flagged")
      [] a.type = "delete" -> Command("discard", FALSE, None)
      [] a.type = "stop" -> Command("stop", TRUE, None)
      [] a.type = "redirect" -> Command("redirect", a.keepCopy, a.address)
      [] a.type = "reject" -> Command("reject", FALSE, None)
      [] a.type = "notify" -> Command("notify", TRUE, a.address)

BuildRule(rule) ==
    [test |-> BuildTest(rule),
     commands |-> [i \in DOMAIN rule.actions |-> BuildAction(rule.actions[i])]]

\* buildVacationBlock(): the period is two tests on the current date.  They compare by
\* value, which takes the extension `relational`: only a condition on spam requires it.
Period(v) ==
    [any |-> FALSE,
     tests |-> (IF v.from = None THEN <<>> ELSE <<[test |-> "currentdate", match |-> "ge", key |-> v.from]>>)
            \o (IF v.until = None THEN <<>> ELSE <<[test |-> "currentdate", match |-> "le", key |-> v.until]>>)]

VacationCommands(v) ==
    <<Command("vacation", TRUE, Login)>>
    \o CASE v.incoming = "discard" -> <<Command("discard", FALSE, None)>>
         [] v.incoming = "redirect" -> <<Command("redirect", FALSE, v.address)>>
         [] v.incoming = "copy" -> <<Command("redirect", TRUE, v.address)>>
         [] OTHER -> <<>>

True == [any |-> FALSE, tests |-> <<>>]

BuildVacation(v) == [test |-> Period(v), commands |-> VacationCommands(v)]

BuildForward(f) == [test |-> True, commands |-> <<Command("redirect", f.keepCopy, f.address)>>]

\* Emitter.require(): the extensions the script names.
Requires(type) ==
    CASE type = "move" -> {"fileinto"}
      [] type = "copy" -> {"fileinto", "copy"}
      [] type \in {"mark-read", "flag"} -> {"imap4flags"}
      [] type = "reject" -> {"reject"}
      [] type = "notify" -> {"enotify"}
      [] OTHER -> {}

RuleRequires(rule) ==
    UNION {Requires(rule.actions[i].type)
           \union (IF rule.actions[i].type = "redirect" /\ rule.actions[i].keepCopy
                   THEN {"copy"} ELSE {}) : i \in DOMAIN rule.actions}
    \union UNION {CASE rule.conditions[i].field = "body" -> {"body"}
                    [] rule.conditions[i].field = "date" -> {"date"}
                    [] rule.conditions[i].field = "spam" -> {"spamtest", "relational"}
                    [] OTHER -> {} : i \in DOMAIN rule.conditions}

VacationRequires(v) ==
    {"vacation"} \union (IF v.from # None \/ v.until # None THEN {"date"} ELSE {})
                 \union (IF v.incoming = "copy" THEN {"copy"} ELSE {})

Enabled(rules) == SelectSeq(rules, LAMBDA r : r.enabled)

RuleTargets(rule) ==
    {rule.actions[i].address : i \in {j \in DOMAIN rule.actions :
                                        rule.actions[j].type \in {"redirect", "notify"}}}

Forwarded(v) == IF v.incoming \in {"redirect", "copy"} THEN {v.address} ELSE {}

\* The errors of generateScript(): an extension is missing, a target is not allowed.
Refused(in, capabilities) ==
    LET rules == Range(Enabled(in.rules))
        vacation == {v \in {in.vacation} : v.enabled}
        forward == {f \in {in.forward} : f.enabled}
    IN  \/ ~(UNION {RuleRequires(r) : r \in rules}
             \union UNION {VacationRequires(v) : v \in vacation}
             \union (IF \E f \in forward : f.keepCopy THEN {"copy"} ELSE {})
             \subseteq capabilities)
        \/ \E a \in UNION {RuleTargets(r) : r \in rules}
                    \union UNION {Forwarded(v) : v \in vacation}
                    \union {f.address : f \in forward} : ~IsAllowed(a)

\* Mutant: the forward comes before the vacation, and the rules.
BlocksForwardFirst(in) ==
    LET rules == Enabled(in.rules) IN
    (IF in.forward.enabled THEN <<BuildForward(in.forward)>> ELSE <<>>)
    \o [i \in DOMAIN rules |-> BuildRule(rules[i])]
    \o (IF in.vacation.enabled THEN <<BuildVacation(in.vacation)>> ELSE <<>>)

\* generateScript(): the rules that are enabled, the vacation, the forward.
Blocks(in) ==
    LET rules == Enabled(in.rules) IN
    [i \in DOMAIN rules |-> BuildRule(rules[i])]
    \o (IF in.vacation.enabled THEN <<BuildVacation(in.vacation)>> ELSE <<>>)
    \o (IF in.forward.enabled THEN <<BuildForward(in.forward)>> ELSE <<>>)

Conditions(in) ==
    UNION {Range(r.conditions) : r \in Range(Enabled(in.rules))}

\* CHECKSCRIPT: whether the server can read the script, and whether it must.
Readable(in) == \A c \in Conditions(in) : ~Unreadable(c)

WellFormed(in) ==
    /\ Readable(in)
    /\ \A c \in Conditions(in) : ~Loose(c)
    /\ in.vacation.enabled => in.vacation.from = None /\ in.vacation.until = None

(***************************************************************************)
(* The scan of a script written by hand, token by token.  A command of the *)
(* script says by `sends` and `from` what it does when it runs.            *)
(***************************************************************************)
Ident(name) == [kind |-> "ident", value |-> name]
Tag(name) == [kind |-> "tag", value |-> name]
Text(value) == [kind |-> "string", value |-> value]
Sign(kind) == [kind |-> kind, value |-> None]

Directives == {"redirect", "notify", "vacation"}

\* Whether the token at j is in a list that opens after i.
InList(tokens, i, j) ==
    Cardinality({k \in i..j : tokens[k].kind = "list-start"})
    > Cardinality({k \in i..j : tokens[k].kind = "list-end"})

\* The arguments of the command at i end before a semicolon or a block.
ArgsEnd(tokens, i) ==
    LET ends == {j \in i + 1..Len(tokens) :
                   /\ tokens[j].kind \in {"semicolon", "block-start"}
                   /\ ~InList(tokens, i, j)}
    IN  IF ends = {} THEN Len(tokens) ELSE (CHOOSE j \in ends : \A k \in ends : j <= k) - 1

Strings(args) == SelectSeq(args, LAMBDA t : t.kind = "string")

\* The strings that the tags of `notify` take are not its target.
NotifyStrings(args) ==
    {i \in DOMAIN args :
       /\ args[i].kind = "string" /\ ~InList(args, 1, i)
       /\ ~(i > 1 /\ args[i - 1].kind = "tag" /\ args[i - 1].value \in {"from", "importance", "message"})}

Target(command, args) ==
    CASE command = "redirect" -> IF Strings(args) = <<>> THEN None ELSE Head(Strings(args)).value
      [] command = "notify" ->
           IF NotifyStrings(args) = {} THEN None
           ELSE args[CHOOSE i \in NotifyStrings(args) : \A j \in NotifyStrings(args) : j <= i].value
      [] command = "vacation" ->
           LET i == CHOOSE k \in DOMAIN args : args[k] = Tag("from")
           IN  IF i < Len(args) /\ args[i + 1].kind = "string" THEN args[i + 1].value ELSE None

\* findRedirectTargets(): what it finds from token i on.
FindTargets(tokens) ==
    LET found[i \in 1..Len(tokens) + 1] ==
          CASE i > Len(tokens) -> {}
            [] i <= Len(tokens) /\ tokens[i].kind = "ident" /\ tokens[i].value \in Directives ->
                 LET end == ArgsEnd(tokens, i)
                     args == SubSeq(tokens, i + 1, end)
                 IN  found[end + 1] \union
                     (IF tokens[i].value = "vacation" /\ ~\E k \in DOMAIN args : args[k] = Tag("from")
                      THEN {}
                      ELSE {[command |-> tokens[i].value, target |-> Target(tokens[i].value, args)]})
            [] OTHER -> found[i + 1]
    IN  found[1]

\* findForbiddenDirectives().
Forbidden(tokens) ==
    \E f \in FindTargets(tokens) :
        IF f.command = "vacation" THEN f.target # Login ELSE ~IsAllowed(f.target)

Tokens(commands) == FlattenSeq([i \in DOMAIN commands |-> commands[i].tokens])

(***************************************************************************)
(* « Apply to the messages that are there ».                               *)
(***************************************************************************)
\* addressText(): the name comes with the address.
AddressText(a, part) ==
    IF part \in {"localpart", "domain"} THEN Part(a, part)
    ELSE <<a.name, "<", a.local, "@", a.domain, ">">>

\* textTest().
TextTest(op, value, text) ==
    CASE op = "contains" -> HasWithin(text, value)
      [] op = "not-contains" -> ~HasWithin(text, value)
      [] op = "is" -> text = value
      [] op = "is-not" -> text # value
      [] op = "starts-with" -> IsPrefix(value, text)
      [] op = "matches" -> Like(text, value)

\* toCcText(): the summaries of messages have no Cc.
ToText(to, part) ==
    FlattenSeq([i \in DOMAIN to |->
                  (IF i = 1 THEN <<>> ELSE <<";">>) \o AddressText(to[i], part)])

\* needsBodySearch(): the server searches for the first text that a condition asks for.
Needle(rule) ==
    LET searched == SelectSeq(rule.conditions, LAMBDA c : c.field = "body"
                                                    /\ c.op \in {"contains", "not-contains"})
    IN  IF searched = <<>> THEN None ELSE Head(searched).value

\* evaluateCondition().
Evaluates(c, m, needle) ==
    CASE c.field = "from" -> TextTest(c.op, c.value, AddressText(m.from, c.part))
      [] c.field = "to-cc" -> TextTest(c.op, c.value, ToText(m.to, c.part))
      [] c.field = "subject" -> TextTest(c.op, c.value, m.subject)
      [] c.field = "size" -> IF c.op = "under" THEN m.size < c.value ELSE m.size > c.value
      [] c.field = "date" -> IF c.op = "before" THEN m.day < c.value ELSE m.day > c.value
      [] c.field = "body" /\ c.op \in {"contains", "not-contains"} ->
           HasWithin(m.body, needle) = (c.op = "contains")
      [] OTHER -> FALSE

\* matchesRule().
MatchesRule(rule, m) ==
    \/ rule.conditions = <<>>
    \/ IF rule.match = "any"
       THEN \E i \in DOMAIN rule.conditions : Evaluates(rule.conditions[i], m, Needle(rule))
       ELSE \A i \in DOMAIN rule.conditions : Evaluates(rule.conditions[i], m, Needle(rule))

Flags == {"mark-read", "flag"}
Locations == {"move", "copy", "delete"}

(***************************************************************************)
(* The steps.                                                              *)
(***************************************************************************)
Untouched == [filed |-> {}, flags |-> {}, sent |-> {}, keep |-> TRUE,
              rejected |-> FALSE, replied |-> FALSE, stopped |-> FALSE]

Init ==
    /\ pc = "new"
    /\ input \in [rules : RuleLists, vacation : Vacations, forward : Forwards, hand : {<<>>}]
             \union [rules : {<<>>}, vacation : {CHOOSE v \in Vacations : ~v.enabled},
                     forward : {CHOOSE f \in Forwards : ~f.enabled}, hand : HandScripts]
    /\ message \in Messages
    /\ script = <<>> /\ block = 1 /\ out = Untouched
    /\ place = [folder |-> "INBOX", copies |-> {}, flags |-> {}]

\* The rules, the vacation and the forward are saved: the server accepts the script, or
\* there is an error, of generateScript() or of the server.
Save ==
    /\ pc = "new" /\ input.hand = <<>>
    /\ \E capabilities \in Capabilities :
         \/ /\ ~Refused(input, capabilities) /\ Readable(input)
            /\ pc' = "run" /\ script' = Blocks(input)
         \/ /\ Refused(input, capabilities) \/ ~WellFormed(input)
            /\ pc' = "done" /\ UNCHANGED script
    /\ UNCHANGED <<input, message, block, out, place>>

\* A script written by hand is saved, or refused.
SaveByHand ==
    /\ pc = "new" /\ input.hand # <<>>
    /\ IF Forbidden(Tokens(input.hand))
       THEN pc' = "done" /\ UNCHANGED script
       ELSE /\ pc' = "run"
            /\ script' = [i \in DOMAIN input.hand |-> [test |-> True, commands |-> input.hand[i].does]]
    /\ UNCHANGED <<input, message, block, out, place>>

\* The mail server executes a command.
Do(o, c) ==
    IF o.stopped THEN o
    ELSE LET kept == [o EXCEPT !.keep = @ /\ c.copy] IN
         CASE c.cmd = "fileinto" -> [kept EXCEPT !.filed = @ \union {c.arg}]
           [] c.cmd \in {"redirect", "notify"} -> [kept EXCEPT !.sent = @ \union {c.arg}]
           [] c.cmd = "addflag" -> [o EXCEPT !.flags = @ \union {c.arg}]
           [] c.cmd = "discard" -> kept
           [] c.cmd = "reject" -> [kept EXCEPT !.rejected = TRUE]
           [] c.cmd = "vacation" -> [o EXCEPT !.replied = TRUE]
           [] c.cmd = "stop" -> [o EXCEPT !.stopped = TRUE]

\* A message arrives: the server runs the blocks one after the other.
Run ==
    /\ pc = "run" /\ block <= Len(script)
    /\ out' = IF Passes(script[block].test, message)
              THEN FoldLeft(Do, out, script[block].commands) ELSE out
    /\ block' = block + 1
    /\ UNCHANGED <<pc, input, message, script, place>>

Delivered ==
    /\ pc = "run" /\ block > Len(script)
    /\ pc' = "done"
    /\ UNCHANGED <<input, message, script, block, out, place>>

(***************************************************************************)
(* POST /api/filters/apply with one rule: the flags of the message, then   *)
(* one action after the other, as long as it is in the inbox.              *)
(***************************************************************************)
Rule == input.rules[1]

Actions(types) == SelectSeq(Rule.actions, LAMBDA a : a.type \in types)

Select ==
    /\ pc = "new" /\ Len(input.rules) = 1
    /\ Actions(Flags \union Locations) # <<>>
    /\ MatchesRule(Rule, message)
    /\ pc' = "apply"
    /\ place' = [place EXCEPT !.flags = {a.type : a \in Range(Actions(Flags))}]
    /\ UNCHANGED <<input, message, script, block, out>>

Applied(p, a) ==
    IF p.folder # "INBOX" THEN p
    ELSE CASE a.type = "copy" -> [p EXCEPT !.copies = @ \union {a.folder}]
           [] a.type = "move" -> [p EXCEPT !.folder = a.folder]
           [] a.type = "delete" -> [p EXCEPT !.folder = IF HasTrash THEN "Trash" ELSE "gone"]

Apply ==
    /\ pc = "apply"
    /\ IF block <= Len(Actions(Locations))
       THEN /\ place' = Applied(place, Actions(Locations)[block])
            /\ block' = block + 1 /\ UNCHANGED pc
       ELSE pc' = "done" /\ UNCHANGED <<place, block>>
    /\ UNCHANGED <<input, message, script, out>>

Next == Save \/ SaveByHand \/ Run \/ Delivered \/ Select \/ Apply

Spec == Init /\ [][Next]_vars

(***************************************************************************)
(* What the user means, in the words of the dialog: a rule that is on acts *)
(* on the messages for which its conditions are true, in their order,      *)
(* until one says to stop; then the vacation, then the forward.            *)
(***************************************************************************)
IsTrue(c, m) ==
    LET texts == CASE c.field = "from" -> {Part(m.from, c.part)}
                   [] c.field = "to-cc" -> {Part(a, c.part) : a \in Range(m.to \o m.cc)}
                   [] c.field = "subject" -> {m.subject}
                   [] c.field = "body" -> {m.body}
                   [] OTHER -> {}
    IN  CASE c.op = "contains" -> \E t \in texts : HasWithin(t, c.value)
          [] c.op = "not-contains" -> \A t \in texts : ~HasWithin(t, c.value)
          [] c.op = "is" -> c.value \in texts
          [] c.op = "is-not" -> c.value \notin texts
          [] c.op = "starts-with" -> \E t \in texts : IsPrefix(c.value, t)
          [] c.op = "matches" -> \E t \in texts : Like(t, c.value)
          [] c.op = "under" -> m.size < c.value
          [] c.op = "before" -> m.day < c.value
          [] c.op = "after" -> m.day > c.value
          [] c.field = "spam" -> m.score >= c.value
          [] OTHER -> m.size > c.value

Means(rule, m) ==
    LET true == {i \in DOMAIN rule.conditions : IsTrue(rule.conditions[i], m)}
    IN  true = DOMAIN rule.conditions \/ (rule.match = "any" /\ true # {})

\* The settings as actions.
VacationActions(v) ==
    IF ~v.enabled \/ (v.from # None /\ v.from > Today) \/ (v.until # None /\ v.until < Today)
    THEN <<>>
    ELSE <<[type |-> "reply"]>>
         \o CASE v.incoming = "discard" -> <<[type |-> "delete"]>>
              [] v.incoming \in {"redirect", "copy"} ->
                   <<[type |-> "redirect", address |-> v.address, keepCopy |-> v.incoming = "copy"]>>
              [] OTHER -> <<>>

Asked(in, m) ==
    LET acting == SelectSeq(in.rules, LAMBDA r : r.enabled /\ Means(r, m))
        all == FlattenSeq([i \in DOMAIN acting |-> acting[i].actions])
               \o VacationActions(in.vacation)
               \o (IF in.forward.enabled
                   THEN <<[type |-> "redirect", address |-> in.forward.address,
                           keepCopy |-> in.forward.keepCopy]>> ELSE <<>>)
    IN  {all[i] : i \in {j \in DOMAIN all : \A k \in 1..j : all[k].type # "stop"}}

TakesAway(a) ==
    a.type \in {"move", "delete", "reject"} \/ (a.type = "redirect" /\ ~a.keepCopy)

(***************************************************************************)
(* Properties.                                                             *)
(***************************************************************************)
TypeOK ==
    /\ pc \in {"new", "run", "apply", "done"}
    /\ block \in 1..Len(script) + Len(input.rules) + 4
    /\ out.flags \subseteq {"Seen", "Flagged"}
    /\ place.flags \subseteq Flags

\* A script that is generated, and that the server accepts, does to a message what the
\* filters, the vacation and the forward say: all of it, in their order, and nothing else.
DoesWhatIsAsked ==
    pc = "done" /\ script # <<>> /\ input.hand = <<>> =>
        LET asked == Asked(input, message) IN
        /\ out.filed = {a.folder : a \in {b \in asked : b.type \in {"move", "copy"}}}
        /\ out.sent = {a.address : a \in {b \in asked : b.type \in {"redirect", "notify"}}}
        /\ out.keep = (\A a \in asked : ~TakesAway(a))
        /\ out.rejected = (\E a \in asked : a.type = "reject")
        /\ out.replied = (\E a \in asked : a.type = "reply")
        /\ out.flags = {IF a.type = "flag" THEN "Flagged" ELSE "Seen" :
                          a \in {b \in asked : b.type \in Flags}}

\* Mail is sent to allowed domains only, by a script that is generated as by one that is
\* written by hand and that the scan has let pass.
SendsOnlyToAllowed == \A a \in out.sent : IsAllowed(a)

\* Conditions that « apply » can evaluate on the summary of a message.
Exact(c, m) ==
    \/ c.field \in {"subject", "size", "date"}
    \/ c.field = "from" /\ c.part # "all"
    \/ c.field = "to-cc" /\ c.part # "all" /\ Len(m.to) = 1 /\ m.cc = <<>>

\* With such conditions « apply » takes the messages that the rule means, which are those
\* that its script takes, where it has one that a server can read.
SelectsAsScript ==
    pc = "apply" /\ (\A i \in DOMAIN Rule.conditions : Exact(Rule.conditions[i], message)) =>
        /\ Means(Rule, message)
        /\ (\A i \in DOMAIN Rule.conditions : ~Unreadable(Rule.conditions[i])) =>
               Passes(BuildTest(Rule), message)

\* What apply-match.ts says: no action that destroys is applied on the strength of an
\* approximation.  « is not » and « does not contain » are true of texts that the summary
\* of a message shows otherwise, or does not show.
DestroysOnlyMatching ==
    pc = "apply" /\ place.folder # "INBOX" => Means(Rule, message)
====

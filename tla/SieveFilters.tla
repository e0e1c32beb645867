---- MODULE SieveFilters ----
(***************************************************************************)
(* The filter sets of one account, as the routes /api/filters/* change     *)
(* them (server/lib/sieve/service.ts) through one ManageSieve connection   *)
(* per session, with the cache of scripts that the pool keeps beside it    *)
(* (server/lib/session/sieve-pool.ts).                                     *)
(*                                                                         *)
(* A step is a ManageSieve command with the code that runs until the next  *)
(* one.  The calls of a session run one at a time (SievePool proves it);   *)
(* two sessions of the account interleave.  A script is what the code      *)
(* tells apart in it: what can be read back from its header, of which the  *)
(* rules, the vacation and the forward may send mail, and where its blocks *)
(* send mail, which is another matter in a text that a user has edited.    *)
(***************************************************************************)
EXTENDS Naturals, FiniteSets

CONSTANTS
    Sids,       \* sessions of the account
    Names,      \* names of filter sets
    Default,    \* the name `colombe`
    Targets,    \* allowed destinations of a redirection
    Texts,      \* scripts that a user edits or imports, and that the scan lets pass
    None,       \* no destination, no set
    Absent,     \* no such script
    Unknown,    \* not in the cache
    MaxCalls,   \* bound: calls of all sessions together
    MaxFaults   \* bound: connections that break

VARIABLES
    scripts,    \* server: the scripts by name
    active,     \* server: the active set
    conn,       \* by session: its pooled connection, "none", "up" or "dead"
    cache,      \* by session: PooledSieve.scripts
    call,       \* by session: the call that runs
    calls, faults,  \* what is used of the bounds
    confirmed,  \* history: destinations that a user has named in a request he confirmed
    foreign,    \* history: by session, the scripts others changed since it knew them
    owed        \* history: by session, confirmed changes written without an alert sent yet

vars == <<scripts, active, conn, cache, call, calls, faults, confirmed, foreign, owed>>
server == <<scripts, active>>
ghosts == <<confirmed, foreign, owed>>

Destinations == Targets \union {None}

\* A vacation keeps its destination while it is disabled; one without a destination sends
\* nothing on, enabled or not.
Replies == {v \in [on : BOOLEAN, to : Destinations] : v.to = None => ~v.on}

Off == [on |-> FALSE, to |-> None]

Script(managed, rules, vacation, forward, sends) ==
    [managed |-> managed, rules |-> rules, vacation |-> vacation, forward |-> forward,
     sends |-> sends]

Scripts == [managed : BOOLEAN, rules : Destinations, vacation : Replies,
            forward : Destinations, sends : SUBSET Targets]

\* The values that stand for nothing are none of the others; the module is used through
\* instances, which prove or check it.
NamesAssumption ==
    /\ Default \in Names /\ None \notin Names /\ None \notin Targets
    /\ Absent \notin Scripts /\ Unknown \notin Scripts
    /\ Texts \subseteq Scripts

\* Where the blocks of a script send mail, and the destinations that it names, in its
\* blocks or in its header.
Redirects(content) == content.sends

Mentions(content) ==
    content.sends \union ({content.rules, content.vacation.to, content.forward} \ {None})

\* The blocks of generateScript(): those of the settings that are on.
Blocks(rules, vacation, forward) ==
    ({rules, forward} \union (IF vacation.on THEN {vacation.to} ELSE {})) \ {None}

Generated(rules, vacation, forward) ==
    Script(TRUE, rules, vacation, forward, Blocks(rules, vacation, forward))

Empty == Generated(None, Off, None)

\* readManagedData(): nothing is read back from a script without a header.
Data(content) == IF content.managed THEN content ELSE Empty

Reads == {"status", "get", "export"}
Settings == {"vacation", "forward"}
Writes == {"create", "rules", "script", "import"} \union Settings
Ops == Reads \union Writes \union {"activate", "deactivate", "delete"}

(***************************************************************************)
(* A call.  `from` is the set that a new one copies, `value` what the user *)
(* asks for, a destination, a vacation or a text, `confirm` how he         *)
(* confirms it.                                                            *)
(***************************************************************************)
NewCall(op, name, from, value, confirm) ==
    [op |-> op, name |-> name, from |-> from, value |-> value, confirm |-> confirm,
     at |-> "start", first |-> TRUE, spent |-> FALSE, broke |-> FALSE,
     todo |-> {}, write |-> Empty, sensitive |-> FALSE]

Idle == [NewCall("none", None, None, None, None) EXCEPT !.at = "idle"]

Requests ==
    {NewCall(op, None, None, None, "password") : op \in {"status", "deactivate"}}
    \union {NewCall(op, n, None, None, "password") :
              op \in {"get", "export", "activate", "delete"}, n \in Names}
    \union {NewCall("create", n, f, None, "password") : n \in Names, f \in Names \union {None}}
    \union {NewCall(op, n, None, v, c) :
              op \in {"script", "import"}, n \in Names, v \in Texts, c \in {"password", "code"}}
    \union {NewCall("rules", n, None, v, c) :
              n \in Names, v \in Destinations, c \in {"password", "code"}}
    \union {NewCall("vacation", None, None, v, c) : v \in Replies, c \in {"password", "code"}}
    \union {NewCall("forward", None, None, v, c) : v \in Destinations, c \in {"password", "code"}}

\* The account as the program finds it: nothing yet, the set that an older session left, or
\* the script of another program.  A session may have listed and read the scripts before.
Init ==
    /\ \/ scripts = [n \in Names |-> Absent] /\ active = None
       \/ \E rules \in Destinations, v \in Replies :
            /\ scripts = [n \in Names |-> IF n = Default THEN Generated(rules, v, None) ELSE Absent]
            /\ active = Default
       \/ \E other \in Names \ {Default}, v \in Destinations :
            /\ scripts = [n \in Names |-> IF n = other THEN Script(FALSE, None, Off, None, {v} \ {None})
                                          ELSE Absent]
            /\ active = other
    /\ \E warm \in SUBSET Sids :
         /\ conn = [s \in Sids |-> IF s \in warm THEN "up" ELSE "none"]
         /\ cache = [s \in Sids |-> [n \in Names |->
                       IF s \in warm /\ scripts[n] # Absent THEN scripts[n] ELSE Unknown]]
    /\ call = [s \in Sids |-> Idle]
    /\ calls = 0 /\ faults = 0
    /\ confirmed = UNION {Mentions(scripts[n]) : n \in {m \in Names : scripts[m] # Absent}}
    /\ foreign = [s \in Sids |-> {}]
    /\ owed = [s \in Sids |-> FALSE]

Forget(s) == [cache EXCEPT ![s] = [n \in Names |-> Unknown]]

Ended(s) == [call EXCEPT ![s] = Idle]

(***************************************************************************)
(* withSessionOrUnavailable() and SievePool.run(): the call takes the      *)
(* connection of its session, or opens one.                                *)
(***************************************************************************)
Call(s) ==
    /\ call[s] = Idle
    /\ calls < MaxCalls
    /\ \E r \in Requests : call' = [call EXCEPT ![s] = r]
    /\ calls' = calls + 1
    /\ conn' = [conn EXCEPT ![s] = IF @ = "none" THEN "up" ELSE @]
    /\ owed' = [owed EXCEPT ![s] = FALSE]
    /\ UNCHANGED <<server, cache, faults, confirmed, foreign>>

\* The next command of a call, which needs a connection that is up.
Ready(s, op, at) ==
    /\ call[s].op \in op
    /\ call[s].at = at
    /\ conn[s] = "up"

\* assertConfirmed(): a code is good once, so that a call that runs again is refused.
Confirms(s) == ~(call[s].confirm = "code" /\ call[s].spent)

\* The destinations that the user names in his request, and confirms with it.
Asks(c) ==
    CASE c.op \in {"script", "import"} -> Mentions(c.value)
      [] c.op = "vacation" -> {c.value.to} \ {None}
      [] c.op \in {"rules", "forward"} -> {c.value} \ {None}
      [] OTHER -> {}

(***************************************************************************)
(* What a call decides when it has read what it needs: to refuse, or to    *)
(* write `content` under `name`, confirmed or not.                         *)
(***************************************************************************)
Goes(s, name, content, sensitive) ==
    LET next == [call[s] EXCEPT !.at = "put", !.name = name, !.write = content,
                                !.sensitive = sensitive, !.spent = @ \/ sensitive]
    IN  \/ /\ sensitive => Confirms(s)
           /\ call' = [call EXCEPT ![s] = next]
           /\ confirmed' = IF sensitive THEN confirmed \union Asks(call[s]) ELSE confirmed
        \/ sensitive /\ call' = Ended(s) /\ UNCHANGED confirmed

Refuses(s) == call' = Ended(s) /\ UNCHANGED confirmed

\* needsVacationConfirmation(): whether the vacation is, or was, enabled does not matter.
NeedsConfirmation(previous, next) == next.to # None /\ previous.to # next.to

\* updateFilterSetRules(): the blocks that the rules do not concern come from the script read.
WritesRules(s, content) ==
    IF content.managed
    THEN Goes(s, call[s].name, Generated(call[s].value, content.vacation, content.forward),
              call[s].value # None)
    ELSE Refuses(s)

\* updateFilterSetScript() and importFilterSet(): the text as it is.  The scan passes over
\* its header, which is a comment.
WritesText(s) == Goes(s, call[s].name, call[s].value, TRUE)

\* putVacation() and putForward(): in the active set, in the default one when there is none.
WritesSetting(s, name, content) ==
    LET data == Data(content)
        foreignText == name # None /\ ~content.managed
    IN
    CASE foreignText -> Refuses(s)
      [] ~foreignText /\ call[s].op = "vacation" ->
           Goes(s, IF name = None THEN Default ELSE name,
                Generated(data.rules, call[s].value, data.forward),
                NeedsConfirmation(data.vacation, call[s].value))
      [] OTHER ->
           Goes(s, IF name = None THEN Default ELSE name,
                Generated(data.rules, data.vacation, call[s].value), call[s].value # None)

\* createFilterSet() with `copyFrom`: the rules of a set of ours, the text of another one.
WritesCopy(s, content) ==
    Goes(s, call[s].name,
         IF content.managed THEN Generated(content.rules, Off, None) ELSE content, FALSE)

(***************************************************************************)
(* LISTSCRIPTS, the first command of most calls.                           *)
(***************************************************************************)
Reading(s, names) ==
    /\ call' = [call EXCEPT ![s].at = "read", ![s].todo = names]
    /\ UNCHANGED confirmed

Goto(s, at) == call' = [call EXCEPT ![s].at = at] /\ UNCHANGED confirmed

Listed == {n \in Names : scripts[n] # Absent}

Listing(s) ==
    LET c == call[s] IN
    CASE c.op = "status" /\ Listed # {} -> Reading(s, Listed)
      [] c.op = "create" /\ c.name \notin Listed /\ c.from = None -> Goes(s, c.name, Empty, FALSE)
      [] c.op = "create" /\ c.name \notin Listed /\ c.from \in Listed -> Reading(s, {c.from})
      [] c.op \in Settings /\ active = None -> WritesSetting(s, None, Empty)
      [] c.op \in Settings /\ active # None -> Reading(s, {active})
      [] c.op \in {"get", "rules"} /\ c.name \in Listed -> Reading(s, {c.name})
      [] c.op = "script" /\ c.name \in Listed -> WritesText(s)
      [] c.op = "activate" /\ c.name \in Listed -> Goto(s, "activate")
      [] c.op = "delete" /\ c.name \in Listed /\ active # c.name -> Goto(s, "delete")
      [] OTHER -> Refuses(s)

List(s) ==
    /\ Ready(s, Ops \ {"deactivate", "export", "import"}, "start")
    /\ Listing(s)
    /\ UNCHANGED <<server, conn, cache, calls, faults, foreign, owed>>

\* exportFilterSet(), deactivateFilters() and importFilterSet() do not list the sets.
Skip(s) ==
    /\ call[s].at = "start"
    /\ \/ call[s].op = "export" /\ Reading(s, {call[s].name})
       \/ call[s].op = "deactivate" /\ Goto(s, "activate")
       \/ call[s].op = "import"
          /\ WritesText(s)
    /\ UNCHANGED <<server, conn, cache, calls, faults, foreign, owed>>

(***************************************************************************)
(* readScript(): the cache answers for the script, else GETSCRIPT does.    *)
(***************************************************************************)
Known(s, n) == IF cache[s][n] # Unknown THEN cache[s][n] ELSE scripts[n]

Answers(s, n) ==
    LET c == call[s] IN
    CASE c.todo # {n} -> Reading(s, c.todo \ {n})
      [] c.todo = {n} /\ c.op \in Reads -> Refuses(s)
      [] c.todo = {n} /\ c.op = "rules" -> WritesRules(s, Known(s, n))
      [] c.todo = {n} /\ c.op \in Settings -> WritesSetting(s, n, Known(s, n))
      [] c.todo = {n} /\ c.op = "create" -> WritesCopy(s, Known(s, n))

Read(s) ==
    /\ call[s].at = "read"
    /\ \E n \in call[s].todo :
         /\ cache[s][n] = Unknown => conn[s] = "up"
         /\ IF Known(s, n) = Absent
            THEN Refuses(s) /\ UNCHANGED <<cache, foreign>>
            ELSE /\ Answers(s, n)
                 /\ cache' = [cache EXCEPT ![s][n] = Known(s, n)]
                 /\ foreign' = IF cache[s][n] = Unknown
                               THEN [foreign EXCEPT ![s] = @ \ {n}] ELSE foreign
    /\ UNCHANGED <<server, conn, calls, faults, owed>>

(***************************************************************************)
(* What the commands that write do on the server.                          *)
(***************************************************************************)
Touched(s, n) ==
    [t \in Sids |-> IF t = s THEN foreign[t] \ {n} ELSE foreign[t] \union {n}]

Put(s) ==
    /\ scripts' = [scripts EXCEPT ![call[s].name] = call[s].write]
    /\ foreign' = Touched(s, call[s].name)
    /\ owed' = [owed EXCEPT ![s] = @ \/ call[s].sensitive]
    /\ UNCHANGED active

SetActive(s) ==
    /\ active' = IF call[s].op = "deactivate" THEN None ELSE call[s].name
    /\ UNCHANGED <<scripts, foreign, owed>>

DeleteScript(s) ==
    /\ scripts' = [scripts EXCEPT ![call[s].name] = Absent]
    /\ foreign' = Touched(s, call[s].name)
    /\ UNCHANGED <<active, owed>>

\* The commands the server refuses.
Possible(s) ==
    CASE call[s].at = "activate" -> call[s].op # "deactivate" => scripts[call[s].name] # Absent
      [] call[s].at = "delete" -> scripts[call[s].name] # Absent /\ active # call[s].name
      [] OTHER -> TRUE

Effect(s) ==
    CASE call[s].at = "put" -> Put(s)
      [] call[s].at = "activate" -> SetActive(s)
      [] call[s].at = "delete" -> DeleteScript(s)

Writing(s) == call[s].at \in {"put", "activate", "delete"}

\* Mutant: the cache does not learn what was written.
CachedOnRead(s) == IF call[s].at = "activate" THEN Forget(s) ELSE cache

(***************************************************************************)
(* checkThenPut(), setActive() and deleteScript() with what follows: the   *)
(* cache learns what was written, or forgets.                              *)
(***************************************************************************)
Cached(s) ==
    CASE call[s].at = "put" -> [cache EXCEPT ![s][call[s].name] = call[s].write]
      [] call[s].at = "activate" -> Forget(s)
      [] call[s].at = "delete" -> [cache EXCEPT ![s][call[s].name] = Unknown]

\* putVacation() and putForward() activate the set that they have written.
Activates(s) == call[s].at = "put" /\ call[s].op \in Settings

\* Mutant: the alert is forgotten where the set is activated.
AfterWriteNoAlert(s) ==
    CASE Activates(s) -> [call EXCEPT ![s].at = "activate"]
      [] ~Activates(s) /\ call[s].sensitive /\ call[s].at = "put" -> [call EXCEPT ![s].at = "alert"]
      [] OTHER -> Ended(s)

AfterWrite(s) ==
    CASE Activates(s) -> [call EXCEPT ![s].at = "activate"]
      [] ~Activates(s) /\ call[s].sensitive -> [call EXCEPT ![s].at = "alert"]
      [] OTHER -> Ended(s)

Write(s) ==
    /\ Writing(s) /\ conn[s] = "up"
    /\ \/ Possible(s) /\ Effect(s) /\ cache' = Cached(s) /\ call' = AfterWrite(s)
       \/ ~Possible(s) /\ call' = Ended(s) /\ UNCHANGED <<server, cache, foreign, owed>>
    /\ UNCHANGED <<conn, calls, faults, confirmed>>

\* CHECKSCRIPT finds an error in a script.
Invalid(s) ==
    /\ call[s].op \in Writes /\ call[s].at = "put" /\ conn[s] = "up"
    /\ call' = Ended(s)
    /\ UNCHANGED <<server, conn, cache, calls, faults, ghosts>>

\* onForwardingChanged(): the alert is sent, or its failure is logged.
Alert(s) ==
    /\ call[s].at = "alert"
    /\ call' = Ended(s)
    /\ \E sent \in BOOLEAN : owed' = [owed EXCEPT ![s] = ~sent /\ @]
    /\ UNCHANGED <<server, conn, cache, calls, faults, confirmed, foreign>>

(***************************************************************************)
(* The connection breaks under a command, which the server may have        *)
(* executed.  The pool forgets the connection with its cache and runs the  *)
(* call again from its beginning, once.                                    *)
(***************************************************************************)
Commands(s) ==
    /\ \/ call[s].at = "start" /\ call[s].op \notin {"export", "deactivate", "import"}
       \/ call[s].at = "read" /\ \E n \in call[s].todo : cache[s][n] = Unknown
       \/ Writing(s)

Again(s) ==
    [NewCall(call[s].op, IF call[s].op \in Settings THEN None ELSE call[s].name,
             call[s].from, call[s].value, call[s].confirm)
       EXCEPT !.first = FALSE, !.spent = call[s].spent, !.broke = TRUE]

Retries(s) ==
    IF call[s].first
    THEN /\ cache' = Forget(s)
         /\ \/ conn' = [conn EXCEPT ![s] = "up"] /\ call' = [call EXCEPT ![s] = Again(s)]
            \/ conn' = [conn EXCEPT ![s] = "none"] /\ call' = Ended(s)
    ELSE /\ conn' = [conn EXCEPT ![s] = "dead"]
         /\ call' = Ended(s)
         /\ UNCHANGED cache

Break(s) ==
    /\ Commands(s)
    /\ \/ /\ conn[s] = "up" /\ faults < MaxFaults /\ faults' = faults + 1
          /\ \/ Writing(s) /\ Possible(s) /\ Effect(s)
             \/ UNCHANGED <<server, foreign, owed>>
       \/ conn[s] = "dead" /\ UNCHANGED <<server, foreign, owed, faults>>
    /\ Retries(s)
    /\ UNCHANGED <<calls, confirmed>>

\* The idle timer closes the connection: SievePool.delete().
Drop(s) ==
    /\ call[s] = Idle /\ conn[s] # "none"
    /\ conn' = [conn EXCEPT ![s] = "none"]
    /\ cache' = Forget(s)
    /\ UNCHANGED <<server, call, calls, faults, ghosts>>

Next ==
    \E s \in Sids :
        \/ Call(s) \/ List(s) \/ Skip(s) \/ Read(s) \/ Write(s) \/ Invalid(s)
        \/ Alert(s) \/ Break(s) \/ Drop(s)

Spec == Init /\ [][Next]_vars
(***************************************************************************)
(* Properties.                                                             *)
(***************************************************************************)
TypeOK ==
    /\ scripts \in [Names -> Scripts \union {Absent}]
    /\ active \in Names \union {None}
    /\ active # None => scripts[active] # Absent
    /\ conn \in [Sids -> {"none", "up", "dead"}]
    /\ cache \in [Sids -> [Names -> Scripts \union {Unknown}]]
    /\ \A s \in Sids : conn[s] = "none" => call[s] = Idle /\ \A n \in Names : cache[s][n] = Unknown

\* Whatever the sessions do, in any order and with commands executed twice, a script sends
\* mail only where a user has once confirmed a request that names this destination: the parts
\* that a call copies from a script it read, from the server or from the cache, were named in
\* a confirmed request.  It need not have been the one that starts the mail: the destination
\* of a vacation is confirmed while it is disabled, and that of a header with its text.
ConfirmedRedirects ==
    \A n \in Names : scripts[n] # Absent => Mentions(scripts[n]) \subseteq confirmed

\* The cache of a session that is connected is wrong about a script only when another
\* session has changed it since: not after a call that was refused, broke, or ran twice.
OwnCacheTrue ==
    \A s \in Sids : conn[s] = "up" =>
        \A n \in Names \ foreign[s] : cache[s][n] \in {Unknown, scripts[n]}

\* A call that ends with a confirmed change written and no alert sent had its connection
\* break, or the set it wrote was deleted before it could be activated, or the alert was
\* tried and failed.
AlertsUnlessBroken ==
    [][\A s \in Sids :
         owed'[s] /\ call'[s] = Idle /\ call[s] # Idle =>
            \/ call[s].broke \/ faults' # faults \/ conn[s] = "dead"
            \/ scripts[call[s].name] = Absent \/ call[s].at = "alert"]_vars

\* What is written without a confirmation names no destination that the script did not name,
\* except where the session was wrong about the script, which another one had changed.  So
\* mail may start to leave unasked, but only to a destination that lay dormant in the header:
\* that of a disabled vacation, or those of a text whose header says more than its blocks do.
NothingAddedSilently ==
    [][\A s \in Sids : \A n \in Names :
         /\ call'[s] # call[s] /\ scripts'[n] # scripts[n] /\ scripts'[n] # Absent
         /\ call[s].op \in Settings \union {"rules"} /\ call[s].at = "put"
         /\ call[s].name = n /\ ~call[s].sensitive /\ n \notin foreign[s]
         => Mentions(scripts'[n]) \subseteq
              (IF scripts[n] = Absent THEN {} ELSE Mentions(scripts[n]))]_vars

\* What docs/guide/filtres.md says: a confirmed change of a redirection is followed by an
\* alert.  The alert may fail; a call that runs again after its connection broke may be
\* refused, or may find nothing to confirm any more, with the redirection in place.
AlertsEveryChange == \A s \in Sids : call[s] = Idle => ~owed[s]

\* What docs/dev/PLAN-v4.md says: the settings live in the active set, which is created when
\* there is none.  So they never take the rules of a set away, unless another session has
\* changed it meanwhile; the code writes the default set anew, though it may exist.
SettingsKeepRules ==
    [][\A s \in Sids : \A n \in Names :
         /\ call[s].op \in Settings /\ call[s].at = "put" /\ call'[s] # call[s]
         /\ call[s].name = n /\ n \notin foreign[s]
         /\ scripts[n] # Absent /\ scripts'[n] # scripts[n]
         => scripts'[n].rules = scripts[n].rules]_vars
====

--------------------------- MODULE MCSieveClient ---------------------------
(* The two ends of the filters in one run of TLC: the connection to the server  *)
(* of the scripts (SieveClient), the pages of the filters (FiltersPage), the    *)
(* form of a rule, and those of the vacation and of the forward (SieveForms).   *)
(* They share no state: `which` names the part that moves, the others stay      *)
(* where they begin.                                                            *)
EXTENDS SieveClient

CONSTANTS colombe, other, None, Sent, Empty

VARIABLES
  which,
  server, status, pending, view, loads, reads, ops, confirm, form, n,
  mixed, missed, lost, misplaced,                                        \* FiltersPage
  mode, draft, classifyOpen, archive, sending, saved, excused, steps,    \* SieveForms, a rule
  kept, cache, shared, asking, shown, fields, saving, edited, blank, crossed \* its other forms

pagePart == <<server, status, pending, view, loads, reads, ops, confirm, form, n,
              mixed, missed, lost, misplaced>>
formPart == <<mode, draft, classifyOpen, archive, sending, saved, excused>>
settingsPart == <<kept, cache, shared, asking, shown, fields, saving, edited, blank, crossed>>

----------------------------------------------------------------------------
(* Servers with one set in use, with two, with an unused one, and with none.   *)

Stored(id) == [id |-> id, on |-> TRUE]
Server(name, inOther, inColombe) ==
  [active |-> name, sets |-> [s \in {colombe, other} |-> IF s = other THEN inOther ELSE inColombe]]
MCServers ==
  {Server(other, <<Stored(1), Stored(2)>>, None), Server(other, <<Stored(1)>>, <<Stored(2)>>),
   Server(None, None, <<Stored(1)>>), Server(None, None, None)}

Page == INSTANCE FiltersPage WITH Names <- {colombe, other}, Colombe <- colombe,
          Servers <- MCServers, New <- 9, MaxOps <- 2

Written(match, conditions, actions) == [match |-> match, conditions |-> conditions, actions |-> actions]
Does(type, arg, keep) == [type |-> type, arg |-> arg, keep |-> keep]
About(field, op) == [field |-> field, op |-> op, value |-> "w"]
MCEdited ==
  {Written("all", <<About("from", "contains")>>, <<Does("redirect", "x", FALSE), Does("move", "F", TRUE)>>),
   Written("all", <<About("body", "not-contains"), About("body", "contains")>>,
           <<Does("move", "archive", TRUE), Does("flag", Empty, TRUE)>>),
   Written("all", <<About("from", "is")>>, <<Does("flag", Empty, TRUE)>>),
   Written("any", <<About("from", "contains")>>, <<Does("copy", "F", TRUE)>>)}

Vacation(enabled, incoming) ==
  [enabled |-> enabled, addresses |-> "one", incoming |-> incoming, address |-> "x"]
Forward(enabled, keepCopy) == [enabled |-> enabled, address |-> "x", keepCopy |-> keepCopy]
MCKept ==
  {[vacation |-> [Vacation(FALSE, "keep") EXCEPT !.addresses = "none", !.address = None],
    forward |-> [Forward(FALSE, TRUE) EXCEPT !.address = None]],
   [vacation |-> Vacation(TRUE, "copy"), forward |-> Forward(TRUE, FALSE)],
   [vacation |-> Vacation(FALSE, "keep"), forward |-> Forward(FALSE, TRUE)]}

Forms == INSTANCE SieveForms WITH Folders <- <<"F", "archive">>, Archive <- "archive",
           Fallback <- "Archives", Capabilities <- {"fileinto", "body", "imap4flags"}, Rules <- MCEdited,
           Words <- {"w"}, Addresses <- {"x"}, Kept <- MCKept, Address <- "x", MaxSteps <- 3,
           pending <- asking, page <- shown, form <- fields

----------------------------------------------------------------------------

ClientInit ==
  /\ which \in {"wire", "page", "form", "settings"}
  /\ Init /\ Page!Init /\ Forms!Init
  /\ which # "wire" => startTls = FALSE /\ \A i \in DOMAIN wire : wire[i].kind # "no"
  /\ which # "page" => server = Server(None, None, None)
  /\ which # "settings" => kept.forward.enabled

ClientNext ==
  /\ UNCHANGED which
  /\ \/ which = "wire" /\ Next /\ UNCHANGED <<pagePart, formPart, settingsPart, steps>>
     \/ which = "page" /\ Page!Next /\ UNCHANGED <<vars, formPart, settingsPart, steps>>
     \/ which = "form" /\ Forms!RuleNext /\ UNCHANGED <<vars, pagePart, settingsPart>>
     \/ which = "settings" /\ Forms!PagesNext /\ UNCHANGED <<vars, pagePart, formPart>>

\* The fairness of SieveClient: it is about its variables, which only move with it.
ClientSpec == ClientInit /\ [][ClientNext]_<<which, vars, pagePart, formPart, settingsPart, steps>> /\ Fairness

----------------------------------------------------------------------------
(* Properties: those of the modules, each for the part that moves.         *)

\* The pages of the filters show what the server has, drop no
\* rule and wait for no confirmation that nobody can give; the form of a rule
\* hides nothing of it in its simple mode; the forms of the settings show what the
\* server holds but for what was edited.
PagesSound ==
  CASE which = "page" -> Page!TypeOK /\ Page!PageSound
    [] which = "form" -> Forms!TypeOK /\ Forms!NothingHidden /\ Forms!SimpleIsAccepted
    [] which = "settings" -> Forms!TypeOK /\ Forms!FormIsKept /\ Forms!CacheIsKept
    [] which = "wire" -> TRUE

\* Every command ends, answered or not (CommandsEnd); in the form of a rule a
\* control changes nothing but what it shows, and what the server holds changes by
\* the save of that form only.
CommandsSettle == CommandsEnd /\ Forms!EditsAreLocal /\ Forms!SavesAreOwn
=============================================================================

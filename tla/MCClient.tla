------------------------------ MODULE MCClient ------------------------------
(* Three parts of the page in one run of TLC: the list of a folder (MailView), *)
(* what is ticked in it (MessageSelection) and the reader of a message         *)
(* (Reader).  They share no state here: `which` names the one that moves, the  *)
(* others stay where they begin.  Some properties are temporal, hence no       *)
(* symmetry.                                                                   *)
EXTENDS MailView

VARIABLE which

readerPart == <<mailbox, cache, pages, current, calls, delays, alone, acts, faults, others>>
selectPart == <<store, folder, page, data, loading, failed, reads, selected, anchor,
                focused, hidden, box, asks, unseen, stale, spent>>

ClientInit ==
  /\ which \in {"list", "selection", "reader"}
  /\ Init /\ R!Init /\ T!Init
  /\ which # "selection" => folder = "junk"
  /\ which # "reader" => delays = FALSE

ClientNext ==
  /\ UNCHANGED which
  /\ \/ which = "list" /\ Next /\ UNCHANGED <<readerPart, selectPart>>
     \/ which = "reader" /\ R!Next /\ UNCHANGED <<vars, selectPart>>
     \/ which = "selection" /\ T!Next /\ UNCHANGED <<vars, readerPart>>

\* The fairness of those that wait for something, each for the part that moves.
ClientSpec ==
  /\ ClientInit /\ [][ClientNext]_<<which, vars, readerPart, selectPart>>
  /\ WF_vars(which = "list" /\ FoldersServed) /\ WF_vars(which = "list" /\ FoldersAnswered)
  /\ WF_vars(which = "list" /\ Interval) /\ WF_vars(which = "list" /\ OnChange)
  /\ WF_vars(which = "list" /\ LoadServed) /\ WF_vars(which = "list" /\ LoadAnswered)
  /\ WF_vars(which = "list" /\ ActServed) /\ WF_vars(which = "list" /\ ActAnswered)
  /\ \A j \in Removals :
       WF_vars(which = "list" /\ (RemovalTimer(j) \/ RemovalServed(j) \/ RemovalAnswered(j)))
  /\ WF_readerPart(which = "reader" /\ \E c \in calls : R!Settles(c))
  /\ WF_readerPart(which = "reader" /\ \E p \in DOMAIN pages : R!TimerFires(p))

----------------------------------------------------------------------------
(* Properties: those of the three modules, each for the part that moves.   *)

\* The rows of the list are true once everything is answered.  The constants are as
\* the proofs assume them.
ViewSound ==
  CASE which = "selection" -> T!ValuesAssumption /\ T!TypeOK /\ T!RowsTrue
    [] which = "reader" -> R!SizesAssumption
    [] which = "list" -> TRUE

\* The list comes to show the folder as it is, and a page ends its requests.
ViewSettles ==
  []<>(CASE which = "list" -> Current [] which = "reader" -> R!Settled
         [] which = "selection" -> TRUE)
=============================================================================

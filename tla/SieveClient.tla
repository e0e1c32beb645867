---------------------------- MODULE SieveClient ----------------------------
(***************************************************************************)
(* The ManageSieve client, server/lib/sieve/client.ts: how the lines that  *)
(* the server sends are matched with the commands that await them.         *)
(*                                                                         *)
(* Nothing in the protocol names the command that a line answers.  The     *)
(* client hands each line to the first of `waiters', or keeps it in        *)
(* `lineQueue'; a reader that got a data line asks for the next one in a   *)
(* microtask, after the whole chunk has been handed out.  The greeting of  *)
(* the server and the capabilities it announces after STARTTLS are read as *)
(* the answers of commands that were not written.                          *)
(*                                                                         *)
(* An action is a macrotask (a call, a timer, an event of the socket) or   *)
(* one microtask; no macrotask runs while microtasks are left.  The server *)
(* is external: it answers commands in order, by data lines and a final    *)
(* line, cut into chunks anywhere, or not at all.                          *)
(***************************************************************************)
EXTENDS Naturals, Sequences

CONSTANTS
  Commands,   \* commands of the callers, each issued at most once
  MaxData     \* bound on the data lines of an answer

ASSUME MaxDataAssumption == MaxData \in Nat
ASSUME CommandsAssumption ==
  Commands \cap {"greeting", "starttls", "capabilities", "authenticate", "logout"} = {}

VARIABLES
  phase,      \* where connect() is: the answer it awaits, "tls", or how it ended
  startTls,   \* the server offers STARTTLS
  closed,     \* the flag of the client
  socket,     \* the socket is open
  asked,      \* commands written that the server has not answered
  wire,       \* lines on their way to the client
  lineQueue,  \* lines received before anybody waited for them
  waiters,    \* readers that wait for a line, in order
  micro,      \* readers whose line, or its absence, has been resolved, in order
  step,       \* step[c]: "off", "reading", "done" or "error"
  got,        \* got[c]: the lines that the reader of c has taken
  disturbed   \* what has happened of: "timeout", a reader timed out; "logout",
              \* LOGOUT was written under one; "malformed", such a line came (history)

vars == <<phase, startTls, closed, socket, asked, wire, lineQueue, waiters, micro,
          step, got, disturbed>>
serverVars == <<asked, wire>>
readVars == <<lineQueue, waiters, micro, step, got>>
connVars == <<phase, startTls>>

Handshake == {"greeting", "starttls", "capabilities", "authenticate"}
Readers == Handshake \union Commands \union {"logout"}

\* Of the tokens of a line: the command it answers, its place in the answer,
\* and whether it is data, final (OK, NO) or malformed.
Line == [of : Readers, n : Nat, kind : {"data", "ok", "no", "bad"}]
NoLine == [of |-> "logout", n |-> 0, kind |-> "none"]

Final(line) == line.kind \in {"ok", "no"}

TypeOK ==
  /\ phase \in Handshake \union {"tls", "ready", "failed"}
  /\ startTls \in BOOLEAN
  /\ closed \in BOOLEAN
  /\ socket \in BOOLEAN
  /\ asked \in Seq(Readers)
  /\ wire \in Seq(Line)
  /\ lineQueue \in Seq(Line)
  /\ waiters \in Seq(Readers)
  /\ micro \in Seq([reader : Readers, line : Line \union {NoLine}])
  /\ step \in [Readers -> {"off", "reading", "done", "error"}]
  /\ got \in [Readers -> Seq(Line)]
  /\ disturbed \subseteq {"timeout", "logout", "malformed"}

----------------------------------------------------------------------------
(* The server.                                                             *)

Data(c, n) == [i \in 1..n |-> [of |-> c, n |-> i, kind |-> "data"]]
Answer(c, n, kind) == Append(Data(c, n), [of |-> c, n |-> n + 1, kind |-> kind])

\* The greeting is sent unasked, and awaited by connect().
Init ==
  /\ phase = "greeting"
  /\ startTls \in BOOLEAN
  /\ closed = FALSE /\ socket = TRUE
  /\ asked = <<>>
  /\ wire \in {Answer("greeting", MaxData, kind) : kind \in {"ok", "no"}}
  /\ lineQueue = <<>>
  /\ waiters = <<"greeting">>
  /\ micro = <<>>
  /\ step = [c \in Readers |-> IF c = "greeting" THEN "reading" ELSE "off"]
  /\ got = [c \in Readers |-> <<>>]
  /\ disturbed = {}

\* The steps of connect() and of logout() that follow an answer run at once.
Busy ==
  \/ micro # <<>>
  \/ phase \in Handshake /\ step[phase] \in {"done", "error"}
  \/ step["logout"] \in {"done", "error"} /\ ~closed

\* The server answers the first command.  A refused token is a challenge, a data
\* line that awaits the client's abort, which is answered by NO.
Serve ==
  /\ ~Busy
  /\ socket /\ asked # <<>>
  /\ LET c == Head(asked) IN
       \/ /\ c \in Commands
          /\ \E n \in 0..MaxData, kind \in {"ok", "no"} : wire' = wire \o Answer(c, n, kind)
       \/ /\ c \notin Commands
          /\ \E kind \in {"ok", "no"} :
               /\ got[c] # <<>> => kind = "no"
               /\ wire' = Append(wire, [of |-> c, n |-> Len(got[c]) + 1, kind |-> kind])
       \/ /\ c = "authenticate" /\ got[c] = <<>>
          /\ wire' = wire \o Data(c, 1)
       \/ /\ c \in Commands
          /\ wire' = Append(wire, [of |-> c, n |-> 1, kind |-> "bad"])
  /\ asked' = Tail(asked)
  /\ UNCHANGED <<connVars, closed, socket, readVars, disturbed>>

----------------------------------------------------------------------------
(* Reading lines.                                                          *)

\* nextLine(), after which the microtasks are m: take a line that has come, fail
\* on a closed client, or wait.
NextLine(c, m) ==
  \/ /\ lineQueue # <<>>
     /\ lineQueue' = Tail(lineQueue)
     /\ micro' = Append(m, [reader |-> c, line |-> Head(lineQueue)])
     /\ step' = [step EXCEPT ![c] = "reading"]
     /\ UNCHANGED waiters
  \/ /\ lineQueue = <<>> /\ closed
     /\ step' = [step EXCEPT ![c] = "error"]
     /\ micro' = m
     /\ UNCHANGED <<lineQueue, waiters>>
  \/ /\ lineQueue = <<>> /\ ~closed
     /\ waiters' = Append(waiters, c)
     /\ step' = [step EXCEPT ![c] = "reading"]
     /\ micro' = m
     /\ UNCHANGED lineQueue

\* command(): write, which fails on a closed client, and read.
Command(c) ==
  \/ /\ closed
     /\ step' = [step EXCEPT ![c] = "error"]
     /\ UNCHANGED <<asked, lineQueue, waiters, micro>>
  \/ /\ ~closed
     /\ asked' = Append(asked, c)
     /\ NextLine(c, micro)

\* Fault: the readers are forgotten.
FlushedSilently == waiters' = <<>> /\ UNCHANGED micro

\* flushWaiters(): every reader gets the absence of a line.
Flushed ==
  /\ micro' = micro \o [i \in 1..Len(waiters) |-> [reader |-> waiters[i], line |-> NoLine]]
  /\ waiters' = <<>>

\* drain(): the n first lines on the wire have come in one chunk.
Receive(n) ==
  LET k == IF n < Len(waiters) THEN n ELSE Len(waiters) IN
    /\ ~Busy
    /\ socket /\ ~closed /\ phase # "tls"
    /\ \A i \in 1..n : wire[i].kind # "bad"
    /\ micro' = [i \in 1..k |-> [reader |-> waiters[i], line |-> wire[i]]]
    /\ waiters' = SubSeq(waiters, k + 1, Len(waiters))
    /\ lineQueue' = lineQueue \o SubSeq(wire, k + 1, n)
    /\ wire' = SubSeq(wire, n + 1, Len(wire))
    /\ UNCHANGED <<connVars, closed, socket, asked, step, got, disturbed>>

\* A line that cannot be parsed: the flag is set, the socket left open.
ReceiveMalformed ==
  /\ ~Busy
  /\ socket /\ ~closed
  /\ wire # <<>> /\ Head(wire).kind = "bad"
  /\ closed' = TRUE
  /\ Flushed
  /\ wire' = Tail(wire)
  /\ disturbed' = disturbed \union {"malformed"}
  /\ UNCHANGED <<connVars, socket, asked, lineQueue, step, got>>

\* Fault: the absence of a line is taken for a data line.
ContinueUnchecked ==
  /\ micro # <<>>
  /\ LET c == Head(micro).reader
         line == Head(micro).line
     IN
       /\ got' = [got EXCEPT ![c] = Append(@, line)]
       /\ IF Final(line)
            THEN /\ step' = [step EXCEPT ![c] = "done"]
                 /\ micro' = Tail(micro)
                 /\ UNCHANGED <<lineQueue, waiters>>
            ELSE NextLine(c, Tail(micro))
  /\ UNCHANGED <<connVars, closed, socket, serverVars, disturbed>>

\* readResponse(): the reader takes its line; on a data line it asks for the
\* next one, and authenticate() writes its abort first.
Continue ==
  /\ micro # <<>>
  /\ LET c == Head(micro).reader
         line == Head(micro).line
     IN
       /\ got' = [got EXCEPT ![c] = IF line = NoLine THEN @ ELSE Append(@, line)]
       /\ \/ /\ line = NoLine
             /\ step' = [step EXCEPT ![c] = "error"]
             /\ micro' = Tail(micro)
             /\ UNCHANGED <<asked, lineQueue, waiters>>
          \/ /\ line # NoLine /\ Final(line)
             /\ step' = [step EXCEPT ![c] = "done"]
             /\ micro' = Tail(micro)
             /\ UNCHANGED <<asked, lineQueue, waiters>>
          \/ /\ line # NoLine /\ ~Final(line)
             /\ NextLine(c, Tail(micro))
             /\ asked' = IF c = "authenticate" /\ got[c] = <<>> /\ ~closed
                           THEN Append(asked, c) ELSE asked
  /\ UNCHANGED <<connVars, closed, socket, wire, disturbed>>

\* Nothing came for COMMAND_TIMEOUT_MS: the reader gives up, its place in
\* `waiters' is gone, the answer may still come.
Timeout(c) ==
  /\ ~Busy
  /\ \E i \in 1..Len(waiters) :
       /\ waiters[i] = c
       /\ waiters' = SubSeq(waiters, 1, i - 1) \o SubSeq(waiters, i + 1, Len(waiters))
  /\ step' = [step EXCEPT ![c] = "error"]
  /\ disturbed' = disturbed \union {"timeout"}
  /\ UNCHANGED <<connVars, closed, socket, serverVars, lineQueue, micro, got>>

\* The socket is closed by the server, or broken.
SocketClosed ==
  /\ ~Busy
  /\ socket /\ phase # "tls"
  /\ socket' = FALSE
  /\ closed' = TRUE
  /\ Flushed
  /\ UNCHANGED <<connVars, serverVars, lineQueue, step, got, disturbed>>

\* destroy(): nothing on a client that is closed already.
Destroy ==
  /\ closed' = TRUE
  /\ socket' = (socket /\ closed)
  /\ IF closed THEN UNCHANGED <<micro, waiters>> ELSE Flushed

----------------------------------------------------------------------------
(* connect().                                                              *)

Status(c) == got[c][Len(got[c])].kind
Refused(c) == step[c] = "error" \/ (step[c] = "done" /\ Status(c) # "ok")

\* Any failure destroys the client, and so does a remote server (as opposed to one
\* on the same host) that does not offer STARTTLS.
ConnectFails ==
  /\ micro = <<>>
  /\ phase \in Handshake /\ step[phase] \in {"done", "error"}
  /\ Refused(phase) \/ (phase = "greeting" /\ ~startTls)
  /\ Destroy
  /\ phase' = "failed"
  /\ UNCHANGED <<startTls, serverVars, lineQueue, step, got, disturbed>>

Answered(c) == micro = <<>> /\ phase = c /\ step[c] = "done" /\ ~Refused(c)

Greeted ==
  /\ Answered("greeting")
  /\ phase' = IF startTls THEN "starttls" ELSE "authenticate"
  /\ Command(phase')
  /\ UNCHANGED <<startTls, closed, socket, wire, got, disturbed>>

\* starttls(): the socket is taken over by the TLS layer, what was read before
\* is dropped.
StartTls ==
  /\ Answered("starttls")
  /\ phase' = "tls"
  /\ lineQueue' = <<>>
  /\ UNCHANGED <<startTls, closed, socket, serverVars, waiters, micro, step, got, disturbed>>

\* Fault: the capabilities are not read.
SecuredUnread ==
  /\ phase = "tls"
  /\ phase' = "authenticate"
  /\ wire' = wire \o Answer("capabilities", MaxData, "ok")
  /\ Command("authenticate")
  /\ UNCHANGED <<startTls, closed, socket, got, disturbed>>

\* The server announces its capabilities, unasked; they are read.
Secured ==
  /\ phase = "tls"
  /\ phase' = "capabilities"
  /\ wire' = wire \o Answer("capabilities", MaxData, "ok")
  /\ NextLine("capabilities", micro)
  /\ UNCHANGED <<startTls, closed, socket, asked, got, disturbed>>

TlsFails ==
  /\ phase = "tls"
  /\ phase' = "failed"
  /\ closed' = TRUE /\ socket' = FALSE
  /\ UNCHANGED <<startTls, serverVars, readVars, disturbed>>

Announced ==
  /\ Answered("capabilities")
  /\ phase' = "authenticate"
  /\ Command("authenticate")
  /\ UNCHANGED <<startTls, closed, socket, wire, got, disturbed>>

LoggedIn ==
  /\ Answered("authenticate")
  /\ phase' = "ready"
  /\ UNCHANGED <<startTls, closed, socket, serverVars, readVars, disturbed>>

----------------------------------------------------------------------------
(* The callers: the pool runs one command after the other, and goes on     *)
(* with a client that has timed out when it was the one of a second try    *)
(* (server/lib/session/sieve-pool.ts:85-89).  It closes the client at any  *)
(* time, for it does so outside its queue (140-150).                       *)

Reading == {c \in Readers : step[c] = "reading"}

Issue(c) ==
  /\ ~Busy
  /\ phase = "ready" /\ step["logout"] = "off"
  /\ step[c] = "off"
  /\ Reading = {}
  /\ Command(c)
  /\ UNCHANGED <<connVars, closed, socket, wire, got, disturbed>>

\* close(): LOGOUT ...
Logout ==
  /\ ~Busy
  /\ phase = "ready" /\ step["logout"] = "off"
  /\ Command("logout")
  /\ disturbed' = disturbed \union (IF Reading # {} THEN {"logout"} ELSE {})
  /\ UNCHANGED <<connVars, closed, socket, wire, got>>

\* ... and destroy(), whatever the answer, some microtasks later.
LogoutEnds ==
  /\ step["logout"] \in {"done", "error"} /\ ~closed
  /\ Destroy
  /\ UNCHANGED <<connVars, serverVars, lineQueue, step, got, disturbed>>

----------------------------------------------------------------------------

Microtask ==
  Continue \/ ConnectFails \/ Greeted \/ StartTls \/ Announced \/ LoggedIn \/ LogoutEnds

Macrotask ==
  \/ Serve \/ ReceiveMalformed \/ SocketClosed \/ Secured \/ TlsFails \/ Logout
  \/ \E n \in 1..Len(wire) : Receive(n)
  \/ \E c \in Readers : Timeout(c)
  \/ \E c \in Commands : Issue(c)

Next == Microtask \/ Macrotask

Spec == Init /\ [][Next]_vars

\* Microtasks run, and the timer of a reader that waits fires.  The server and
\* the network need not do anything.
Fairness ==
  /\ WF_vars(Microtask)
  /\ \A c \in Readers : WF_vars(Timeout(c))

FairSpec == Spec /\ Fairness

----------------------------------------------------------------------------
(* Properties.                                                             *)

\* What a reader has got is the answer to its command, from the first line to
\* the final one.
Own(c) == \A i \in 1..Len(got[c]) : got[c][i].of = c /\ got[c][i].n = i

\* However the lines are cut into chunks, and through the handshake, the lines
\* that a command gets are those of its answer, all of them and in order, as
\* long as no reader timed out and LOGOUT was not written under one: the client
\* neither loses nor keeps a line.
AnswersMatch ==
  disturbed \cap {"timeout", "logout"} = {} => \A c \in Readers : Own(c)

\* A command that succeeds has got the answer to that command.
AnswersAreOwn == \A c \in Commands : step[c] = "done" => Own(c)

\* Nobody waits for a line of a closed client: closing it wakes up every reader,
\* and no reader starts to wait afterwards.
NoWaitWhenClosed == closed => waiters = <<>>

\* Once close() has ended, or connect() has failed, the socket is closed, except
\* after a malformed line, which makes destroy() take it for closed.
Ended == phase = "failed" \/ (step["logout"] \in {"done", "error"} /\ ~Busy)
SocketReleased == Ended /\ "malformed" \notin disturbed => ~socket

\* Every command ends, be the server silent: by its answer, by the end of the
\* connection, or by its timer.
CommandsEnd == (\E c \in Readers : step[c] = "reading") ~> (\A c \in Readers : step[c] # "reading")

\* A closed client lets nobody wait, and gives its socket back
\* (client.ts:320-372, 552-572).
ClosedIsFinal == NoWaitWhenClosed /\ SocketReleased

\* A command gets its own answer and nothing else, and nothing more is to be had
\* of a closed client.
WireSound == AnswersMatch /\ ClosedIsFinal

=============================================================================

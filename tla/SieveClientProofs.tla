------------------------- MODULE SieveClientProofs --------------------------
(***************************************************************************)
(* Proofs about SieveClient, for every set of commands, every number of    *)
(* data lines and every way of cutting the answers into chunks.            *)
(*                                                                         *)
(* During the handshake, and as long as nothing disturbs the commands, at  *)
(* most one reader is reading, and it either waits or has its line         *)
(* (OneReader); a step of connect() that has not begun has read nothing    *)
(* (Unread).  A closed client has no waiter, and but for a malformed line  *)
(* no socket (ClosedInv): this is what ClosedIsFinal says of its end.      *)
(* AnswersMatch needs to know where the answer of the one that reads is:   *)
(* not served yet, or its next line on the wire, in the queue or in a      *)
(* microtask, the lines in these three being, in that order, exactly what  *)
(* is left of it; and when nobody reads, that there is nothing left        *)
(* (StreamInv).                                                            *)
(***************************************************************************)
EXTENDS SieveClient, SequenceTheorems, TLAPS

Micro == [reader : Readers, line : Line \union {NoLine}]

\* Nobody timed out, and LOGOUT was not written under a command.
Undisturbed == disturbed \cap {"timeout", "logout"} = {}

\* The reader c, and nobody else, is reading; during the handshake it is the one
\* that connect() awaits.
ReadingOnly(c) == \A d \in Readers : step[d] = "reading" <=> d = c
Alone(c) ==
  /\ ReadingOnly(c)
  /\ phase # "ready" => phase \in Handshake /\ c = phase

Nobody ==
  waiters = <<>> /\ micro = <<>> /\ \A d \in Readers : step[d] # "reading"

Waits(c) == Len(waiters) = 1 /\ waiters[1] = c /\ micro = <<>>
Takes(c) == waiters = <<>> /\ Len(micro) = 1 /\ micro[1].reader = c

\* One reader at a time: always during the handshake, and as long as nothing
\* disturbs the commands.
Calm == phase # "ready" \/ Undisturbed
OneReader ==
  Calm => Nobody \/ \E c \in Readers : Alone(c) /\ (Waits(c) \/ Takes(c))

\* A step of connect() or of a command that has not begun has read nothing.
Unread ==
  /\ \A c \in Readers : step[c] = "off" => got[c] = <<>>
  /\ phase # "ready" => \A c \in Commands \union {"logout"} : step[c] = "off"
  /\ phase \in {"greeting", "starttls", "tls"} => step["capabilities"] = "off"
  /\ phase \in {"greeting", "starttls", "tls", "capabilities"} => step["authenticate"] = "off"
  /\ phase = "greeting" => step["starttls"] = "off"
  /\ step["logout"] # "off" /\ Undisturbed => \A c \in Readers \ {"logout"} : step[c] # "reading"

\* Malformed lines apart, a closed client has closed its socket.
ClosedInv ==
  /\ closed /\ "malformed" \notin disturbed => ~socket
  /\ phase = "failed" => closed
  /\ closed => waiters = <<>>

\* The lines S are what is left of the answer of c after its first k lines; a
\* challenge of AUTHENTICATE is the only data line that is the last.
Challenge(c, k) == c = "authenticate" /\ k = 0
Rest(c, k, S) ==
  /\ S # <<>>
  /\ \A i \in 1..Len(S) :
       /\ S[i].of = c /\ S[i].n = k + i
       /\ i < Len(S) => S[i].kind = "data"
  /\ S[Len(S)].kind = "data" => Challenge(c, k) /\ Len(S) = 1
  /\ S[1].kind = "data" /\ Challenge(c, k) => Len(S) = 1

\* Where the answer of c is: the server has not answered; it is on the wire; its
\* next line is being taken.
Unanswered(c) ==
  /\ Waits(c) /\ lineQueue = <<>> /\ wire = <<>> /\ asked = <<c>>
  /\ c \notin {"greeting", "capabilities"}
  /\ got[c] # <<>> => c = "authenticate" /\ Len(got[c]) = 1
Coming(c) ==
  /\ Waits(c) /\ lineQueue = <<>> /\ asked = <<>>
  /\ Rest(c, Len(got[c]), wire)
Taken(c) ==
  /\ Takes(c) /\ asked = <<>>
  /\ micro[1].line.kind \notin {"bad", "none"}
  /\ \A i \in 1..Len(lineQueue) : lineQueue[i].kind # "bad"
  /\ Rest(c, Len(got[c]), <<micro[1].line>> \o (lineQueue \o wire))
Quiet == Nobody /\ lineQueue = <<>> /\ wire = <<>> /\ asked = <<>>

StreamOpen == Quiet \/ \E c \in Readers : Alone(c) /\ (Unanswered(c) \/ Coming(c) \/ Taken(c))
Absent == [reader : Readers, line : {NoLine}]
StreamClosed == lineQueue = <<>> /\ micro \in Seq(Absent)
AllOwn == \A c \in Readers : Own(c)
StreamInv ==
  Undisturbed => AllOwn /\ (IF closed THEN StreamClosed ELSE StreamOpen)

\* The data lines of an answer are lines.
LEMMA DataType ==
  ASSUME NEW c \in Readers, NEW n \in Nat
  PROVE  Data(c, n) \in Seq(Line) /\ Len(Data(c, n)) = n
<1>1. \A i \in 1..n : [of |-> c, n |-> i, kind |-> "data"] \in Line
  BY DEF Line
<1> QED
  BY <1>1, IsASeq DEF Data

\* So are all its lines.
LEMMA AnswerType ==
  ASSUME NEW c \in Readers, NEW n \in Nat, NEW kind \in {"ok", "no"}
  PROVE  Answer(c, n, kind) \in Seq(Line)
<1>1. [of |-> c, n |-> n + 1, kind |-> kind] \in Line
  BY DEF Line
<1> QED
  BY <1>1, DataType, AppendProperties DEF Answer

\* What nextLine() leaves has its type.
LEMMA NextLineType ==
  ASSUME TypeOK, NEW c \in Readers, NEW m \in Seq(Micro), NextLine(c, m)
  PROVE  /\ lineQueue' \in Seq(Line)
         /\ waiters' \in Seq(Readers)
         /\ micro' \in Seq(Micro)
         /\ step' \in [Readers -> {"off", "reading", "done", "error"}]
<1> USE DEF TypeOK
<1>1. CASE lineQueue # <<>> /\ micro' = Append(m, [reader |-> c, line |-> Head(lineQueue)])
  <2>1. Head(lineQueue) \in Line /\ Tail(lineQueue) \in Seq(Line)
    BY <1>1, HeadTailProperties
  <2>2. [reader |-> c, line |-> Head(lineQueue)] \in Micro
    BY <2>1 DEF Micro
  <2> QED
    BY <1>1, <2>1, <2>2, AppendProperties DEF NextLine
<1>2. CASE micro' = m /\ UNCHANGED lineQueue
  <2>1. waiters' = waiters \/ waiters' = Append(waiters, c)
    BY <1>1, <1>2 DEF NextLine
  <2>2. waiters \in Seq(Readers) /\ Append(waiters, c) \in Seq(Readers)
    BY AppendProperties
  <2>3. step' = [step EXCEPT ![c] = "reading"] \/ step' = [step EXCEPT ![c] = "error"]
    BY DEF NextLine
  <2>4. step' \in [Readers -> {"off", "reading", "done", "error"}]
    BY <2>3
  <2> QED
    BY <1>2, <2>1, <2>2, <2>4
<1> QED
  BY <1>1, <1>2 DEF NextLine

\* So does what flushWaiters() leaves.
LEMMA FlushedType ==
  ASSUME TypeOK, Flushed
  PROVE  waiters' \in Seq(Readers) /\ micro' \in Seq(Micro)
<1> DEFINE woken == [i \in 1..Len(waiters) |-> [reader |-> waiters[i], line |-> NoLine]]
<1>1. waiters \in Seq(Readers) /\ micro \in Seq(Micro)
  BY DEF TypeOK, Micro
<1>2. \A i \in 1..Len(waiters) : [reader |-> waiters[i], line |-> NoLine] \in Micro
  BY <1>1 DEF Micro
<1>3. woken \in Seq(Micro)
  BY <1>1, <1>2, IsASeq
<1> QED
  BY <1>1, <1>3, ConcatProperties, EmptySeq DEF Flushed

\* And what the writing of a command leaves.
LEMMA CommandType ==
  ASSUME TypeOK, NEW c \in Readers, Command(c)
  PROVE  /\ asked' \in Seq(Readers)
         /\ lineQueue' \in Seq(Line)
         /\ waiters' \in Seq(Readers)
         /\ micro' \in Seq(Micro)
         /\ step' \in [Readers -> {"off", "reading", "done", "error"}]
<1>1. CASE closed /\ step' = [step EXCEPT ![c] = "error"]
           /\ UNCHANGED <<asked, lineQueue, waiters, micro>>
  BY <1>1 DEF TypeOK, Micro
<1>2. CASE asked' = Append(asked, c) /\ NextLine(c, micro)
  <2>1. asked \in Seq(Readers) /\ Append(asked, c) \in Seq(Readers)
    BY AppendProperties DEF TypeOK
  <2>2. micro \in Seq(Micro)
    BY DEF TypeOK, Micro
  <2> QED
    BY <1>2, <2>1, <2>2, NextLineType
<1> QED
  BY <1>1, <1>2 DEF Command

\* Every line taken, received or sent is a line.
LEMMA ContinueType == ASSUME TypeOK, Continue PROVE TypeOK'
<1> DEFINE c == Head(micro).reader
           line == Head(micro).line
<1>1. micro \in Seq(Micro) /\ micro # <<>> /\ Head(micro) \in Micro /\ Tail(micro) \in Seq(Micro)
  BY HeadTailProperties DEF TypeOK, Micro, Continue
<1>2. c \in Readers /\ line \in Line \union {NoLine}
  BY <1>1 DEF Micro
<1>3. got' \in [Readers -> Seq(Line)]
  <2>1. got' = [got EXCEPT ![c] = IF line = NoLine THEN got[c] ELSE Append(got[c], line)]
    BY DEF Continue
  <2>2. got[c] \in Seq(Line) /\ (line # NoLine => Append(got[c], line) \in Seq(Line))
    BY <1>2, AppendProperties DEF TypeOK
  <2> QED
    BY <1>2, <2>1, <2>2 DEF TypeOK
<1>4. asked' \in Seq(Readers)
  <2>1. asked' = asked \/ asked' = Append(asked, c)
    BY DEF Continue
  <2>2. asked \in Seq(Readers) /\ Append(asked, c) \in Seq(Readers)
    BY <1>2, AppendProperties DEF TypeOK
  <2> QED
    BY <2>1, <2>2
<1>5. /\ lineQueue' \in Seq(Line)
      /\ waiters' \in Seq(Readers)
      /\ micro' \in Seq(Micro)
      /\ step' \in [Readers -> {"off", "reading", "done", "error"}]
  <2>1. CASE NextLine(c, Tail(micro))
    BY <1>1, <1>2, <2>1, NextLineType
  <2>2. CASE /\ step' = [step EXCEPT ![c] = "error"] \/ step' = [step EXCEPT ![c] = "done"]
             /\ micro' = Tail(micro) /\ UNCHANGED <<lineQueue, waiters>>
    BY <1>1, <2>2 DEF TypeOK
  <2> QED
    BY <2>1, <2>2 DEF Continue
<1> QED
  BY <1>3, <1>4, <1>5 DEF Continue, TypeOK, Micro, connVars

\* The server answers with lines.
LEMMA ServeType == ASSUME TypeOK, Serve PROVE TypeOK'
<1> DEFINE c == Head(asked)
<1>1. c \in Readers /\ Tail(asked) \in Seq(Readers) /\ wire \in Seq(Line)
  BY HeadTailProperties DEF TypeOK, Serve
<1>2. got[c] \in Seq(Line) /\ Len(got[c]) \in Nat
  BY <1>1 DEF TypeOK
<1>3. wire' \in Seq(Line)
  <2>1. CASE \E n \in 0..MaxData, kind \in {"ok", "no"} : wire' = wire \o Answer(c, n, kind)
    <3>1. PICK n \in 0..MaxData, kind \in {"ok", "no"} : wire' = wire \o Answer(c, n, kind)
      BY <2>1
    <3>2. n \in Nat
      BY MaxDataAssumption
    <3>3. Answer(c, n, kind) \in Seq(Line)
      BY <1>1, <3>2, AnswerType
    <3> QED
      BY <1>1, <3>1, <3>3, ConcatProperties
  <2>2. CASE \E kind \in {"ok", "no"} :
               wire' = Append(wire, [of |-> c, n |-> Len(got[c]) + 1, kind |-> kind])
    <3>1. PICK kind \in {"ok", "no"} :
               wire' = Append(wire, [of |-> c, n |-> Len(got[c]) + 1, kind |-> kind])
      BY <2>2
    <3>2. [of |-> c, n |-> Len(got[c]) + 1, kind |-> kind] \in Line
      BY <1>1, <1>2 DEF Line
    <3> QED
      BY <1>1, <3>1, <3>2, AppendProperties
  <2>3. CASE wire' = wire \o Data(c, 1)
    BY <1>1, <2>3, DataType, ConcatProperties
  <2>4. CASE wire' = Append(wire, [of |-> c, n |-> 1, kind |-> "bad"])
    <3>1. [of |-> c, n |-> 1, kind |-> "bad"] \in Line
      BY <1>1 DEF Line
    <3> QED
      BY <1>1, <2>4, <3>1, AppendProperties
  <2> QED
    BY <2>1, <2>2, <2>3, <2>4 DEF Serve
<1> QED
  BY <1>1, <1>3 DEF Serve, TypeOK, connVars, readVars

\* A chunk is a part of the lines sent.
LEMMA ReceiveType == ASSUME TypeOK, NEW n \in 1..Len(wire), Receive(n) PROVE TypeOK'
<1> DEFINE k == IF n < Len(waiters) THEN n ELSE Len(waiters)
<1>1. /\ waiters \in Seq(Readers) /\ wire \in Seq(Line) /\ lineQueue \in Seq(Line)
      /\ Len(waiters) \in Nat /\ Len(wire) \in Nat /\ k \in 0..Len(waiters) /\ k <= n /\ n \in Nat
  BY DEF TypeOK
<1>2. micro' \in Seq(Micro)
  <2>1. \A i \in 1..k : [reader |-> waiters[i], line |-> wire[i]] \in Micro
    BY <1>1, ElementOfSeq DEF Micro
  <2>2. micro' = [i \in 1..k |-> [reader |-> waiters[i], line |-> wire[i]]]
    BY DEF Receive
  <2> QED
    BY <1>1, <2>1, <2>2, IsASeq
<1>3. waiters' \in Seq(Readers)
  <2>1. \A i \in k + 1 .. Len(waiters) : waiters[i] \in Readers
    BY <1>1, ElementOfSeq
  <2> QED
    BY <1>1, <2>1, SubSeqProperties DEF Receive
<1>4. wire' \in Seq(Line)
  <2>1. \A i \in n + 1 .. Len(wire) : wire[i] \in Line
    BY <1>1, ElementOfSeq
  <2> QED
    BY <1>1, <2>1, SubSeqProperties DEF Receive
<1>5. lineQueue' \in Seq(Line)
  <2>1. \A i \in k + 1 .. n : wire[i] \in Line
    BY <1>1, ElementOfSeq
  <2>2. SubSeq(wire, k + 1, n) \in Seq(Line)
    BY <1>1, <2>1, SubSeqProperties
  <2> QED
    BY <1>1, <2>2, ConcatProperties DEF Receive
<1> QED
  BY <1>2, <1>3, <1>4, <1>5 DEF Receive, TypeOK, Micro, connVars

\* A timer that fires removes a waiter.
LEMMA TimeoutType == ASSUME TypeOK, NEW c \in Readers, Timeout(c) PROVE TypeOK'
<1>1. PICK i \in 1..Len(waiters) :
        waiters' = SubSeq(waiters, 1, i - 1) \o SubSeq(waiters, i + 1, Len(waiters))
  BY DEF Timeout
<1>2. waiters \in Seq(Readers) /\ Len(waiters) \in Nat
  BY DEF TypeOK
<1>3. SubSeq(waiters, 1, i - 1) \in Seq(Readers)
  <2>1. \A j \in 1 .. i - 1 : waiters[j] \in Readers
    BY <1>2, ElementOfSeq
  <2> QED
    BY <1>2, <2>1, SubSeqProperties
<1>4. SubSeq(waiters, i + 1, Len(waiters)) \in Seq(Readers)
  <2>1. \A j \in i + 1 .. Len(waiters) : waiters[j] \in Readers
    BY <1>2, ElementOfSeq
  <2> QED
    BY <1>2, <2>1, SubSeqProperties
<1>5. waiters' \in Seq(Readers)
  BY <1>1, <1>3, <1>4, ConcatProperties
<1>6. disturbed' \subseteq {"timeout", "logout", "malformed"}
  BY DEF Timeout, TypeOK
<1>7. step' \in [Readers -> {"off", "reading", "done", "error"}]
  BY DEF Timeout, TypeOK
<1> QED
  BY <1>5, <1>6, <1>7 DEF Timeout, TypeOK, connVars, serverVars

\* Every step keeps the types.
LEMMA TypeStep == TypeOK /\ [Next]_vars => TypeOK'
<1> SUFFICES ASSUME TypeOK, [Next]_vars PROVE TypeOK'
  OBVIOUS
<1> USE DEF connVars, serverVars, readVars
<1>1. Handshake \subseteq Readers /\ "logout" \in Readers /\ Commands \subseteq Readers
  BY DEF Handshake, Readers
<1>2. CASE Serve
  BY <1>2, ServeType
<1>3. ASSUME NEW n \in 1..Len(wire), Receive(n) PROVE TypeOK'
  BY <1>3, ReceiveType
<1>4. CASE ReceiveMalformed
  <2>1. wire' \in Seq(Line)
    BY <1>4, HeadTailProperties DEF ReceiveMalformed, TypeOK
  <2>2. waiters' \in Seq(Readers) /\ micro' \in Seq(Micro)
    BY <1>4, FlushedType DEF ReceiveMalformed
  <2> QED
    BY <1>4, <2>1, <2>2 DEF ReceiveMalformed, TypeOK, Micro
<1>5. CASE Continue
  BY <1>5, ContinueType
<1>6. ASSUME NEW c \in Readers, Timeout(c) PROVE TypeOK'
  BY <1>6, TimeoutType
<1>7. CASE SocketClosed
  <2>1. waiters' \in Seq(Readers) /\ micro' \in Seq(Micro)
    BY <1>7, FlushedType DEF SocketClosed
  <2> QED
    BY <1>7, <2>1 DEF SocketClosed, TypeOK, Micro
<1>8. ASSUME Destroy PROVE /\ closed' \in BOOLEAN /\ socket' \in BOOLEAN
                           /\ waiters' \in Seq(Readers) /\ micro' \in Seq(Micro)
  BY <1>8, FlushedType DEF Destroy, TypeOK, Micro
<1>9. CASE ConnectFails
  BY <1>8, <1>9 DEF ConnectFails, TypeOK, Micro
<1>10. CASE Greeted
  <2>1. phase' \in {"starttls", "authenticate"} /\ phase' \in Readers /\ Command(phase')
    BY <1>1, <1>10 DEF Greeted, Handshake
  <2>2. phase' \in Handshake
    BY <2>1 DEF Handshake
  <2> QED
    BY <1>10, <2>1, <2>2, CommandType DEF Greeted, TypeOK, Micro
<1>11. CASE StartTls
  BY <1>11 DEF StartTls, TypeOK
<1>12. CASE Secured
  <2>1. "capabilities" \in Readers /\ "capabilities" \in Handshake
    BY <1>1 DEF Handshake
  <2>2. wire' \in Seq(Line)
    BY <1>12, <2>1, AnswerType, MaxDataAssumption, ConcatProperties DEF Secured, TypeOK
  <2>3. NextLine("capabilities", micro) /\ micro \in Seq(Micro)
    BY <1>12 DEF Secured, TypeOK, Micro
  <2> QED
    BY <1>12, <2>1, <2>2, <2>3, NextLineType DEF Secured, TypeOK, Micro
<1>13. CASE TlsFails
  BY <1>13 DEF TlsFails, TypeOK
<1>14. CASE Announced
  <2>1. phase' = "authenticate" /\ phase' \in Handshake /\ phase' \in Readers /\ Command(phase')
    BY <1>1, <1>14 DEF Announced, Handshake
  <2> QED
    BY <1>14, <2>1, CommandType DEF Announced, TypeOK, Micro
<1>15. CASE LoggedIn
  BY <1>15 DEF LoggedIn, TypeOK
<1>16. ASSUME NEW c \in Commands, Issue(c) PROVE TypeOK'
  BY <1>1, <1>16, CommandType DEF Issue, TypeOK, Micro
<1>17. CASE Logout
  <2>1. disturbed' \subseteq {"timeout", "logout", "malformed"}
    BY <1>17 DEF Logout, TypeOK
  <2> QED
    BY <1>1, <1>17, <2>1, CommandType DEF Logout, TypeOK, Micro
<1>18. CASE LogoutEnds
  BY <1>8, <1>18 DEF LogoutEnds, TypeOK, Micro
<1>19. CASE UNCHANGED vars
  BY <1>19 DEF vars, TypeOK
<1> QED
  BY <1>2, <1>3, <1>4, <1>5, <1>6, <1>7, <1>9, <1>10, <1>11, <1>12, <1>13, <1>14, <1>15,
     <1>16, <1>17, <1>18, <1>19 DEF Next, Microtask, Macrotask

\* The first state has them.
LEMMA TypeInit == Init => TypeOK
<1> SUFFICES ASSUME Init PROVE TypeOK
  OBVIOUS
<1>1. "greeting" \in Readers /\ "greeting" \in Handshake
  BY DEF Readers, Handshake
<1>2. wire \in Seq(Line)
  BY <1>1, AnswerType, MaxDataAssumption DEF Init
<1>3. waiters \in Seq(Readers)
  BY <1>1 DEF Init
<1>4. asked \in Seq(Readers) /\ lineQueue \in Seq(Line)
      /\ micro \in Seq([reader : Readers, line : Line \union {NoLine}])
  BY DEF Init
<1>5. step \in [Readers -> {"off", "reading", "done", "error"}]
  BY DEF Init
<1>6. got \in [Readers -> Seq(Line)]
  BY DEF Init
<1> QED
  BY <1>1, <1>2, <1>3, <1>4, <1>5, <1>6 DEF Init, TypeOK

\* The state of the client and of the connection always has its type.
THEOREM TypeCorrect == Spec => []TypeOK
BY TypeInit, TypeStep, PTL DEF Spec

----------------------------------------------------------------------------
(* One reader at a time.                                                   *)

\* The first reader to ask for a line gets it, waits for it, or fails.
LEMMA NextLineAlone ==
  ASSUME TypeOK, NEW c \in Readers, NextLine(c, <<>>), waiters = <<>>,
         \A d \in Readers : step[d] = "reading" => d = c
  PROVE  Nobody' \/ (ReadingOnly(c)' /\ (Waits(c)' \/ Takes(c)'))
<1> USE DEF Nobody, ReadingOnly, Waits, Takes
<1>1. CASE /\ lineQueue # <<>>
           /\ micro' = Append(<<>>, [reader |-> c, line |-> Head(lineQueue)])
           /\ step' = [step EXCEPT ![c] = "reading"]
           /\ UNCHANGED waiters
  <2>1. [reader |-> c, line |-> Head(lineQueue)] \in Micro
    BY <1>1, HeadTailProperties DEF Micro, TypeOK
  <2>2. Len(micro') = 1 /\ micro'[1] = [reader |-> c, line |-> Head(lineQueue)]
    BY <1>1, <2>1, AppendProperties, EmptySeq
  <2>3. ReadingOnly(c)'
    BY <1>1 DEF TypeOK
  <2> QED
    BY <1>1, <2>2, <2>3
<1>2. CASE step' = [step EXCEPT ![c] = "error"] /\ micro' = <<>> /\ UNCHANGED waiters
  BY <1>2 DEF TypeOK
<1>3. CASE /\ waiters' = Append(waiters, c)
           /\ step' = [step EXCEPT ![c] = "reading"]
           /\ micro' = <<>>
  <2>1. Len(waiters') = 1 /\ waiters'[1] = c
    BY <1>3, AppendProperties, EmptySeq
  <2>2. ReadingOnly(c)'
    BY <1>3 DEF TypeOK
  <2> QED
    BY <1>3, <2>1, <2>2
<1> QED
  BY <1>1, <1>2, <1>3 DEF NextLine

\* So does the first command.
LEMMA CommandAlone ==
  ASSUME TypeOK, NEW c \in Readers, Command(c), Nobody
  PROVE  Nobody' \/ (ReadingOnly(c)' /\ (Waits(c)' \/ Takes(c)'))
<1>1. CASE step' = [step EXCEPT ![c] = "error"] /\ UNCHANGED <<waiters, micro>>
  BY <1>1 DEF Nobody, TypeOK
<1>2. CASE NextLine(c, <<>>)
  BY <1>2, NextLineAlone DEF Nobody
<1> QED
  BY <1>1, <1>2 DEF Command, Nobody

\* flushWaiters() wakes up the one who waits.
LEMMA FlushedAlone ==
  ASSUME TypeOK, Flushed, UNCHANGED step
  PROVE  /\ Nobody => Nobody'
         /\ \A c \in Readers : Waits(c) \/ Takes(c) => Takes(c)'
<1> DEFINE woken == [i \in 1..Len(waiters) |-> [reader |-> waiters[i], line |-> NoLine]]
<1>1. waiters \in Seq(Readers) /\ micro \in Seq(Micro) /\ Len(waiters) \in Nat
  BY DEF TypeOK, Micro
<1>2. woken \in Seq(Micro) /\ Len(woken) = Len(waiters)
  <2>1. \A i \in 1..Len(waiters) : [reader |-> waiters[i], line |-> NoLine] \in Micro
    BY <1>1 DEF Micro
  <2> QED
    BY <1>1, <2>1, IsASeq
<1>3. micro' = micro \o woken /\ waiters' = <<>>
  BY DEF Flushed
<1>4. ASSUME waiters = <<>> PROVE micro' = micro
  <2>1. woken = <<>>
    BY <1>2, <1>4, EmptySeq
  <2> QED
    BY <1>1, <1>3, <2>1, ConcatEmptySeq
<1>5. ASSUME NEW c \in Readers, Waits(c) PROVE Takes(c)'
  <2>1. Len(micro) = 0 /\ Len(woken) = 1 /\ woken[1].reader = c
    BY <1>2, <1>5, EmptySeq DEF Waits
  <2>2. micro = <<>>
    BY <1>5 DEF Waits
  <2>3. micro' = woken
    BY <1>2, <1>3, <2>2, ConcatEmptySeq
  <2> QED
    BY <1>3, <2>1, <2>3 DEF Takes
<1> QED
  BY <1>3, <1>4, <1>5 DEF Nobody, Takes

\* After the answer that connect() awaits, nobody is reading.
LEMMA AnsweredIsAlone ==
  ASSUME OneReader, phase \in Handshake, step[phase] # "reading"
  PROVE  Nobody
BY DEF OneReader, Calm, Alone, ReadingOnly, Handshake, Readers

\* The part of a step that the readers see.
LEMMA ReceiveAlone ==
  ASSUME TypeOK, NEW n \in 1..Len(wire), Receive(n)
  PROVE  /\ Nobody => Nobody'
         /\ \A c \in Readers : Waits(c) => Takes(c)' /\ micro'[1].line = wire[1]
<1> DEFINE k == IF n < Len(waiters) THEN n ELSE Len(waiters)
<1>1. waiters \in Seq(Readers) /\ Len(waiters) \in Nat /\ n \in Nat /\ n >= 1
  BY DEF TypeOK
<1>2. /\ micro' = [i \in 1..k |-> [reader |-> waiters[i], line |-> wire[i]]]
      /\ waiters' = SubSeq(waiters, k + 1, Len(waiters))
      /\ UNCHANGED step
  BY DEF Receive
<1>3. CASE Nobody
  <2>1. k = 0 /\ Len(waiters) = 0
    BY <1>1, <1>3, EmptySeq DEF Nobody
  <2>2. micro' = <<>>
    BY <1>2, <2>1
  <2>3. waiters' = <<>>
    BY <1>2, <2>1, SubSeqEmpty
  <2> QED
    BY <1>2, <1>3, <2>2, <2>3 DEF Nobody, Waits
<1>4. ASSUME NEW c \in Readers, Waits(c) PROVE Takes(c)' /\ micro'[1].line = wire[1]
  <2>1. k = 1 /\ Len(waiters) = 1 /\ waiters[1] = c
    BY <1>1, <1>4 DEF Waits
  <2>2. micro' = [i \in 1..1 |-> [reader |-> waiters[i], line |-> wire[i]]]
    BY <1>2, <2>1
  <2>3. Len(micro') = 1 /\ micro'[1] = [reader |-> c, line |-> wire[1]]
    BY <2>1, <2>2
  <2>4. waiters' = <<>>
    BY <1>2, <2>1, SubSeqEmpty
  <2> QED
    BY <2>3, <2>4 DEF Takes
<1> QED
  BY <1>3, <1>4

\* Continue, when the reader c is alone.
LEMMA ContinueAlone ==
  ASSUME TypeOK, NEW c \in Readers, ReadingOnly(c), Takes(c), Continue
  PROVE  Nobody' \/ (ReadingOnly(c)' /\ (Waits(c)' \/ Takes(c)'))
<1>1. micro \in Seq(Micro) /\ Head(micro).reader = c /\ Tail(micro) = <<>> /\ waiters = <<>>
  <2>1. micro \in Seq(Micro) /\ Len(micro) = 1
    BY DEF TypeOK, Micro, Takes
  <2>2. micro # <<>>
    BY <2>1, EmptySeq
  <2>3. Tail(micro) \in Seq(Micro) /\ Len(Tail(micro)) = Len(micro) - 1
    BY <2>1, <2>2, HeadTailProperties
  <2>4. Len(Tail(micro)) = 0
    BY <2>1, <2>3
  <2>5. Tail(micro) = <<>>
    BY <2>3, <2>4, EmptySeq
  <2>6. Head(micro) = micro[1]
    BY <2>1
  <2> QED
    BY <2>1, <2>5, <2>6 DEF Takes
<1>2. CASE NextLine(c, Tail(micro))
  BY <1>1, <1>2, NextLineAlone DEF ReadingOnly
<1>3. CASE /\ step' = [step EXCEPT ![c] = "error"] \/ step' = [step EXCEPT ![c] = "done"]
           /\ micro' = Tail(micro) /\ UNCHANGED waiters
  BY <1>1, <1>3 DEF ReadingOnly, Nobody, TypeOK
<1> QED
  BY <1>1, <1>2, <1>3 DEF Continue

\* Timeout, when the reader c is alone.
LEMMA TimeoutAlone ==
  ASSUME TypeOK, NEW c \in Readers, ReadingOnly(c), Waits(c), NEW d \in Readers, Timeout(d)
  PROVE  Nobody'
<1>1. PICK i \in 1..Len(waiters) :
        /\ waiters[i] = d
        /\ waiters' = SubSeq(waiters, 1, i - 1) \o SubSeq(waiters, i + 1, Len(waiters))
  BY DEF Timeout
<1>2. Len(waiters) = 1 /\ i = 1 /\ d = c
  BY <1>1 DEF Waits
<1>3. SubSeq(waiters, 1, 0) = <<>> /\ SubSeq(waiters, 2, 1) = <<>>
  BY SubSeqEmpty
<1>4. waiters' = <<>>
  BY <1>1, <1>2, <1>3, ConcatEmptySeq, EmptySeq
<1>5. step' = [step EXCEPT ![c] = "error"]
  BY <1>2 DEF Timeout
<1> QED
  BY <1>4, <1>5 DEF Timeout, Waits, Nobody, ReadingOnly, TypeOK

\* The handshake does not come back, and what was disturbed stays so.
LEMMA CalmBefore == [Next]_vars => (Undisturbed' => Undisturbed) /\ (Calm' => Calm)
<1> SUFFICES ASSUME [Next]_vars
             PROVE  disturbed \subseteq disturbed' /\ (phase = "ready" => phase' = "ready")
  BY DEF Calm, Undisturbed
<1> USE DEF connVars
<1>1. CASE Microtask
  BY <1>1 DEF Microtask, Continue, ConnectFails, Greeted, StartTls, Announced, LoggedIn,
              LogoutEnds, Answered, Handshake
<1>2. CASE Macrotask
  BY <1>2 DEF Macrotask, Serve, ReceiveMalformed, SocketClosed, Secured, TlsFails, Logout,
              Receive, Timeout, Issue
<1> QED
  BY <1>1, <1>2 DEF Next, vars

\* No step makes a second reader, in the calm.
LEMMA OneReaderStep ==
  TypeOK /\ OneReader /\ Unread /\ [Next]_vars => OneReader'
<1> SUFFICES ASSUME TypeOK, OneReader, Unread, [Next]_vars, Calm' PROVE
               Nobody' \/ \E c \in Readers : Alone(c)' /\ (Waits(c)' \/ Takes(c)')
  BY DEF OneReader
<1> DEFINE Goal == Nobody' \/ \E c \in Readers : Alone(c)' /\ (Waits(c)' \/ Takes(c)')
<1>n. Handshake \subseteq Readers /\ "logout" \in Readers /\ Commands \subseteq Readers
  BY DEF Handshake, Readers
<1>1. Calm
  BY CalmBefore
<1>2. Nobody \/ \E c \in Readers : Alone(c) /\ (Waits(c) \/ Takes(c))
  BY <1>1 DEF OneReader
<1>3. ASSUME phase' = phase, NEW c \in Readers, Alone(c),
             Nobody' \/ (ReadingOnly(c)' /\ (Waits(c)' \/ Takes(c)'))
      PROVE  Goal
  BY <1>3 DEF Alone
<1>4. ASSUME UNCHANGED <<waiters, micro, step, phase>> PROVE Goal
  BY <1>2, <1>4 DEF Nobody, Alone, ReadingOnly, Waits, Takes
<1>5. CASE Serve
  BY <1>4, <1>5 DEF Serve, readVars, connVars
<1>6. ASSUME NEW n \in 1..Len(wire), Receive(n) PROVE Goal
  <2>1. phase' = phase /\ step' = step /\ micro = <<>>
    BY <1>6 DEF Receive, connVars, Busy
  <2>2. ASSUME NEW c \in Readers, Alone(c), Waits(c) \/ Takes(c) PROVE Goal
    <3>1. Waits(c)
      BY <2>1, <2>2, EmptySeq DEF Takes
    <3>2. Takes(c)' /\ ReadingOnly(c)'
      BY <1>6, <2>1, <2>2, <3>1, ReceiveAlone DEF Alone, ReadingOnly
    <3> QED
      BY <1>3, <2>1, <2>2, <3>2
  <2> QED
    BY <1>2, <1>6, <2>2, ReceiveAlone
<1>7. ASSUME Flushed, UNCHANGED <<phase, step>> PROVE Goal
  <2>1. ASSUME NEW c \in Readers, Alone(c), Waits(c) \/ Takes(c) PROVE Goal
    <3>1. Takes(c)' /\ ReadingOnly(c)'
      BY <1>7, <2>1, FlushedAlone DEF Alone, ReadingOnly
    <3> QED
      BY <1>3, <1>7, <2>1, <3>1
  <2> QED
    BY <1>2, <1>7, <2>1, FlushedAlone
<1>8. CASE ReceiveMalformed \/ SocketClosed
  BY <1>7, <1>8 DEF ReceiveMalformed, SocketClosed, connVars
<1>9. CASE Continue
  <2>1. micro # <<>> /\ phase' = phase
    BY <1>9 DEF Continue, connVars
  <2>2. ASSUME NEW c \in Readers, Alone(c), Waits(c) \/ Takes(c) PROVE Goal
    <3>1. Takes(c) /\ ReadingOnly(c)
      BY <2>1, <2>2 DEF Waits, Alone
    <3> QED
      BY <1>3, <1>9, <2>1, <2>2, <3>1, ContinueAlone
  <2> QED
    BY <1>2, <2>1, <2>2 DEF Nobody
<1>10. ASSUME NEW d \in Readers, Timeout(d) PROVE Goal
  <2>1. micro = <<>> /\ Len(waiters) # 0
    BY <1>10 DEF Timeout, Busy
  <2>2. ASSUME NEW c \in Readers, Alone(c), Waits(c) \/ Takes(c) PROVE Goal
    <3>1. Waits(c)
      BY <2>1, <2>2, EmptySeq DEF Takes
    <3> QED
      BY <1>10, <2>2, <3>1, TimeoutAlone DEF Alone
  <2> QED
    BY <1>2, <2>1, <2>2, EmptySeq DEF Nobody
<1>11. CASE ConnectFails
  <2>1. Nobody /\ step' = step
    BY <1>11, AnsweredIsAlone DEF ConnectFails
  <2>2. Nobody'
    BY <1>11, <2>1, FlushedAlone DEF ConnectFails, Destroy, Nobody
  <2> QED
    BY <2>2
<1>12. ASSUME NEW c \in Readers, Nobody, Command(c),
              phase' # "ready" => phase' \in Handshake /\ c = phase'
       PROVE  Goal
  BY <1>12, CommandAlone DEF Alone
<1>13. CASE Greeted
  <2>1. phase' \in {"starttls", "authenticate"} /\ Command(phase') /\ phase = "greeting"
    BY <1>13 DEF Greeted, Answered
  <2>2. phase' \in Handshake /\ phase' \in Readers
    BY <1>n, <2>1 DEF Handshake
  <2>3. Nobody
    BY <1>13, <2>1, AnsweredIsAlone DEF Greeted, Answered, Handshake
  <2> QED
    BY <1>12, <2>1, <2>2, <2>3
<1>14. CASE Announced
  <2>1. phase' = "authenticate" /\ Command(phase') /\ phase' \in Handshake /\ phase' \in Readers
    BY <1>n, <1>14 DEF Announced, Handshake
  <2>2. Nobody
    BY <1>14, AnsweredIsAlone DEF Announced, Answered, Handshake
  <2> QED
    BY <1>12, <2>1, <2>2
<1>15. CASE StartTls \/ LoggedIn
  <2>1. Nobody
    BY <1>15, AnsweredIsAlone DEF StartTls, LoggedIn, Answered, Handshake
  <2>2. UNCHANGED <<waiters, micro, step>>
    BY <1>15 DEF StartTls, LoggedIn, readVars
  <2> QED
    BY <2>1, <2>2 DEF Nobody
<1>16. CASE Secured \/ TlsFails
  <2>1. phase = "tls" /\ Nobody
    BY <1>2, <1>16 DEF Secured, TlsFails, Alone, Handshake
  <2>2. CASE TlsFails
    BY <2>1, <2>2 DEF TlsFails, readVars, Nobody
  <2>3. CASE Secured
    <3>1. phase' = "capabilities" /\ "capabilities" \in Handshake /\ "capabilities" \in Readers
      BY <1>n, <2>3 DEF Secured, Handshake
    <3>2. NextLine("capabilities", <<>>) /\ waiters = <<>>
      BY <2>1, <2>3 DEF Secured, Nobody
    <3>3. Nobody' \/ (ReadingOnly("capabilities")' /\ (Waits("capabilities")' \/ Takes("capabilities")'))
      BY <2>1, <3>1, <3>2, NextLineAlone DEF Nobody
    <3> QED
      BY <3>1, <3>3 DEF Alone
  <2> QED
    BY <1>16, <2>2, <2>3
<1>17. ASSUME NEW c \in Commands, Issue(c) PROVE Goal
  <2>1. phase = "ready" /\ phase' = "ready" /\ Reading = {} /\ Command(c)
    BY <1>17 DEF Issue, connVars
  <2>2. Nobody
    BY <1>2, <2>1 DEF Reading, Alone, ReadingOnly
  <2> QED
    BY <1>n, <1>12, <2>1, <2>2
<1>18. CASE Logout
  <2>1. phase = "ready" /\ phase' = "ready" /\ Command("logout")
    BY <1>18 DEF Logout, connVars
  <2>2. Undisturbed'
    BY <2>1 DEF Calm
  <2>3. Reading = {}
    BY <1>18, <2>2 DEF Logout, Undisturbed
  <2>4. Nobody
    BY <1>2, <2>3 DEF Reading, Alone, ReadingOnly
  <2> QED
    BY <1>n, <1>12, <2>1, <2>4
<1>19. CASE LogoutEnds
  BY <1>7, <1>19 DEF LogoutEnds, Destroy, connVars
<1>20. CASE UNCHANGED vars
  BY <1>4, <1>20 DEF vars
<1> QED
  BY <1>5, <1>6, <1>8, <1>9, <1>10, <1>11, <1>13, <1>14, <1>15, <1>16, <1>17, <1>18,
     <1>19, <1>20 DEF Next, Microtask, Macrotask

----------------------------------------------------------------------------
(* What has not begun has read nothing.                                    *)

\* The phases in which a step of connect() begins.
Begins == {<<"greeting", "starttls">>, <<"greeting", "authenticate">>,
           <<"tls", "capabilities">>, <<"capabilities", "authenticate">>}

\* One reader begins, goes on or ends.
LEMMA UnreadMove ==
  ASSUME TypeOK, Unread, NEW c \in Readers, NEW v \in {"reading", "done", "error"},
         step' = [step EXCEPT ![c] = v],
         \A d \in Readers \ {c} : got'[d] = got[d],
         phase' = phase \/ <<phase, phase'>> \in Begins,
         phase' # "ready" => phase' \in Handshake /\ c = phase',
         Undisturbed' => Undisturbed,
         Undisturbed' => \/ step[c] = "reading"
                         \/ Reading = {} /\ (c = "logout" \/ step["logout"] = "off")
  PROVE  Unread'
<1>1. Handshake \subseteq Readers /\ "logout" \in Readers /\ Commands \subseteq Readers
  BY DEF Handshake, Readers
<1>2. \A d \in Readers : step'[d] = IF d = c THEN v ELSE step[d]
  BY DEF TypeOK
<1>3. \A d \in Readers : step'[d] = "off" => got'[d] = <<>>
  BY <1>2 DEF Unread
<1>4. ASSUME phase' # "ready", NEW d \in Commands \union {"logout"} PROVE step'[d] = "off"
  <2>1. d # c /\ phase # "ready"
    BY <1>4, CommandsAssumption DEF Handshake, Begins
  <2> QED
    BY <1>1, <1>2, <1>4, <2>1 DEF Unread
<1>5. /\ phase' \in {"greeting", "starttls", "tls"} => step'["capabilities"] = "off"
      /\ phase' \in {"greeting", "starttls", "tls", "capabilities"} => step'["authenticate"] = "off"
      /\ phase' = "greeting" => step'["starttls"] = "off"
  BY <1>1, <1>2 DEF Unread, Begins, Handshake
<1>6. ASSUME step'["logout"] # "off", Undisturbed', NEW d \in Readers \ {"logout"}
      PROVE  step'[d] # "reading"
  BY <1>1, <1>2, <1>6 DEF Unread, Reading
<1> QED
  BY <1>3, <1>4, <1>5, <1>6 DEF Unread

\* Nobody reads; connect() ends or takes the socket over.
LEMMA UnreadStay ==
  ASSUME Unread, UNCHANGED <<step, got>>, Undisturbed' => Undisturbed,
         phase' = phase \/ phase' \in {"ready", "failed"} \/ (phase = "starttls" /\ phase' = "tls"),
         phase = "ready" => phase' = "ready"
  PROVE  Unread'
BY DEF Unread

\* nextLine() and command() move one reader.
LEMMA CommandMoves ==
  ASSUME NEW c \in Readers, NEW m, NextLine(c, m) \/ Command(c)
  PROVE  \E v \in {"reading", "done", "error"} : step' = [step EXCEPT ![c] = v]
BY DEF NextLine, Command

\* What has not begun goes on having read nothing.
LEMMA UnreadStep == TypeOK /\ OneReader /\ Unread /\ [Next]_vars => Unread'
<1> SUFFICES ASSUME TypeOK, OneReader, Unread, [Next]_vars PROVE Unread'
  OBVIOUS
<1>1. Handshake \subseteq Readers /\ "logout" \in Readers /\ Commands \subseteq Readers
  BY DEF Handshake, Readers
<1>2. (Undisturbed' => Undisturbed) /\ (phase = "ready" => phase' = "ready")
  BY CalmBefore DEF Calm, Next, Microtask, Macrotask, Serve, Receive, ReceiveMalformed, Continue,
         Timeout, SocketClosed, ConnectFails, Greeted, StartTls, Secured, TlsFails,
         Announced, LoggedIn, Issue, Logout, LogoutEnds, vars, connVars, Answered, Handshake
<1>3. CASE Serve \/ (\E n \in 1..Len(wire) : Receive(n)) \/ ReceiveMalformed \/ SocketClosed
           \/ TlsFails \/ LogoutEnds \/ ConnectFails \/ StartTls \/ LoggedIn \/ UNCHANGED vars
  <2>1. UNCHANGED <<step, got>>
    BY <1>3 DEF Serve, Receive, ReceiveMalformed, SocketClosed, TlsFails, LogoutEnds,
                ConnectFails, StartTls, LoggedIn, vars, readVars
  <2>2. phase' = phase \/ phase' \in {"ready", "failed"} \/ (phase = "starttls" /\ phase' = "tls")
    BY <1>3 DEF Serve, Receive, ReceiveMalformed, SocketClosed, TlsFails, LogoutEnds,
                ConnectFails, StartTls, LoggedIn, vars, connVars, Answered
  <2> QED
    BY <1>2, <2>1, <2>2, UnreadStay
<1>5. CASE Continue
  <2> DEFINE c == Head(micro).reader
  <2>1. micro \in Seq(Micro) /\ micro # <<>> /\ c \in Readers /\ c = micro[1].reader
    <3>1. micro \in Seq(Micro) /\ micro # <<>>
      BY <1>5 DEF Continue, TypeOK, Micro
    <3>2. Head(micro) \in Micro
      BY <3>1, HeadTailProperties
    <3>3. Head(micro) = micro[1]
      BY <3>1
    <3> QED
      BY <3>1, <3>2, <3>3 DEF Micro
  <2>2. PICK v \in {"reading", "done", "error"} : step' = [step EXCEPT ![c] = v]
    BY <1>5, <2>1, CommandMoves DEF Continue
  <2>3. phase' = phase /\ \A d \in Readers \ {c} : got'[d] = got[d]
    BY <1>5, <2>1 DEF Continue, connVars, TypeOK
  <2>4. ASSUME Calm PROVE Alone(c)
    BY <2>1, <2>4 DEF OneReader, Nobody, Waits, Takes
  <2> QED
    BY <1>2, <2>1, <2>2, <2>3, <2>4, UnreadMove DEF Calm, Alone, ReadingOnly
<1>6. ASSUME NEW c \in Readers, Timeout(c) PROVE Unread'
  <2>1. step' = [step EXCEPT ![c] = "error"] /\ phase' = phase /\ got' = got /\ ~Undisturbed'
    BY <1>6 DEF Timeout, Undisturbed, connVars
  <2>2. ASSUME Calm PROVE Alone(c)
    <3>1. PICK i \in 1..Len(waiters) : waiters[i] = c
      BY <1>6 DEF Timeout
    <3>2. waiters # <<>>
      BY <3>1, EmptySeq
    <3> QED
      BY <2>2, <3>1, <3>2 DEF OneReader, Nobody, Waits, Takes
  <2> QED
    BY <2>1, <2>2, UnreadMove DEF Calm, Alone
<1>7. CASE Greeted
  <2>1. /\ phase = "greeting" /\ phase' \in {"starttls", "authenticate"} /\ Command(phase')
        /\ got' = got
    BY <1>7 DEF Greeted, Answered
  <2>2. phase' \in Handshake /\ phase' \in Readers
    BY <1>1, <2>1 DEF Handshake
  <2>3. Nobody
    BY <1>7, <2>1, AnsweredIsAlone DEF Greeted, Answered, Handshake
  <2>4. PICK v \in {"reading", "done", "error"} : step' = [step EXCEPT ![phase'] = v]
    BY <2>1, <2>2, CommandMoves
  <2>5. Reading = {} /\ step["logout"] = "off"
    BY <2>1, <2>3 DEF Nobody, Reading, Unread
  <2>6. <<phase, phase'>> \in Begins
    BY <2>1 DEF Begins
  <2> QED
    BY <1>2, <2>1, <2>2, <2>4, <2>5, <2>6, UnreadMove
<1>8. CASE Announced
  <2>1. phase = "capabilities" /\ phase' = "authenticate" /\ Command("authenticate") /\ got' = got
    BY <1>8 DEF Announced, Answered
  <2>2. "authenticate" \in Handshake /\ "authenticate" \in Readers
    BY <1>1 DEF Handshake
  <2>3. Nobody
    BY <1>8, <2>1, AnsweredIsAlone DEF Announced, Answered, Handshake
  <2>4. PICK v \in {"reading", "done", "error"} : step' = [step EXCEPT !["authenticate"] = v]
    BY <2>1, <2>2, CommandMoves
  <2>5. Reading = {} /\ step["logout"] = "off"
    BY <2>1, <2>3 DEF Nobody, Reading, Unread
  <2>6. <<phase, phase'>> \in Begins
    BY <2>1 DEF Begins
  <2> QED
    BY <1>2, <2>1, <2>2, <2>4, <2>5, <2>6, UnreadMove
<1>9. CASE Secured
  <2>1. phase = "tls" /\ phase' = "capabilities" /\ NextLine("capabilities", micro) /\ got' = got
    BY <1>9 DEF Secured
  <2>2. "capabilities" \in Handshake /\ "capabilities" \in Readers
    BY <1>1 DEF Handshake
  <2>3. Nobody
    BY <2>1 DEF OneReader, Calm, Alone, Handshake
  <2>4. PICK v \in {"reading", "done", "error"} : step' = [step EXCEPT !["capabilities"] = v]
    BY <2>1, <2>2, CommandMoves
  <2>5. Reading = {} /\ step["logout"] = "off"
    BY <2>1, <2>3 DEF Nobody, Reading, Unread
  <2>6. <<phase, phase'>> \in Begins
    BY <2>1 DEF Begins
  <2> QED
    BY <1>2, <2>1, <2>2, <2>4, <2>5, <2>6, UnreadMove
<1>10. ASSUME NEW c \in Commands, Issue(c) PROVE Unread'
  <2>1. /\ phase = "ready" /\ phase' = phase /\ Command(c) /\ got' = got
        /\ Reading = {} /\ step["logout"] = "off"
    BY <1>10 DEF Issue, connVars
  <2>2. PICK v \in {"reading", "done", "error"} : step' = [step EXCEPT ![c] = v]
    BY <1>1, <2>1, CommandMoves
  <2> QED
    BY <1>1, <1>2, <2>1, <2>2, UnreadMove
<1>11. CASE Logout
  <2>1. /\ phase = "ready" /\ phase' = phase /\ Command("logout") /\ got' = got
        /\ Undisturbed' => Reading = {}
    BY <1>11 DEF Logout, connVars, Undisturbed
  <2>2. PICK v \in {"reading", "done", "error"} : step' = [step EXCEPT !["logout"] = v]
    BY <1>1, <2>1, CommandMoves
  <2> QED
    BY <1>1, <1>2, <2>1, <2>2, UnreadMove
<1> QED
  BY <1>3, <1>5, <1>6, <1>7, <1>8, <1>9, <1>10, <1>11 DEF Next, Microtask, Macrotask

----------------------------------------------------------------------------
(* The end of a client.                                                    *)

\* Only a client that is not closed lets a reader wait.
LEMMA WaitsWhenOpen ==
  ASSUME NEW c, NEW m, NextLine(c, m) \/ Command(c), closed, waiters = <<>>
  PROVE  waiters' = <<>>
BY DEF NextLine, Command

\* A closed client stays without a waiter and without its socket.
LEMMA ClosedStep == TypeOK /\ OneReader /\ ClosedInv /\ [Next]_vars => ClosedInv'
<1> SUFFICES ASSUME TypeOK, OneReader, ClosedInv, [Next]_vars PROVE ClosedInv'
  OBVIOUS
<1> USE DEF connVars, readVars
<1>1. ASSUME UNCHANGED <<closed, socket, disturbed>>, phase' = phase \/ phase' # "failed",
             closed => waiters' = <<>>
      PROVE  ClosedInv'
  BY <1>1 DEF ClosedInv
<1>2. CASE Serve \/ StartTls \/ LoggedIn \/ UNCHANGED vars
  BY <1>1, <1>2 DEF ClosedInv, Serve, StartTls, LoggedIn, vars
<1>3. ASSUME NEW n \in 1..Len(wire), Receive(n) PROVE ClosedInv'
  BY <1>3 DEF ClosedInv, Receive
<1>4. CASE ReceiveMalformed
  BY <1>4 DEF ClosedInv, ReceiveMalformed, Flushed
<1>5. CASE SocketClosed
  BY <1>5 DEF ClosedInv, SocketClosed, Flushed
<1>6. CASE Continue
  <2>1. UNCHANGED <<closed, socket, disturbed, phase>>
    BY <1>6 DEF Continue
  <2>2. waiters' = waiters \/ NextLine(Head(micro).reader, Tail(micro))
    BY <1>6 DEF Continue
  <2>3. closed => waiters' = <<>>
    BY <2>2, WaitsWhenOpen DEF ClosedInv
  <2> QED
    BY <1>1, <2>1, <2>3
<1>7. ASSUME NEW c \in Readers, Timeout(c) PROVE ClosedInv'
  <2>1. waiters # <<>>
    BY <1>7, EmptySeq DEF Timeout
  <2> QED
    BY <1>7, <2>1 DEF ClosedInv, Timeout
<1>8. CASE ConnectFails \/ LogoutEnds
  <2>1. Destroy /\ disturbed' = disturbed
    BY <1>8 DEF ConnectFails, LogoutEnds
  <2>2. closed' /\ waiters' = <<>> /\ ("malformed" \notin disturbed => ~socket')
    BY <2>1 DEF Destroy, Flushed, ClosedInv, TypeOK
  <2> QED
    BY <2>1, <2>2 DEF ClosedInv
<1>9. ASSUME NEW c \in Readers, NEW m, NextLine(c, m) \/ Command(c),
             UNCHANGED <<closed, socket>>, disturbed \subseteq disturbed',
             phase' = phase \/ phase' # "failed"
      PROVE  ClosedInv'
  BY <1>9, WaitsWhenOpen DEF ClosedInv
<1>10. CASE Greeted \/ Announced
  <2>1. phase' \in {"starttls", "authenticate"} /\ Command(phase')
    BY <1>10 DEF Greeted, Announced
  <2>2. phase' \in Readers
    BY <2>1 DEF Readers, Handshake
  <2> QED
    BY <1>9, <1>10, <2>1, <2>2 DEF Greeted, Announced
<1>11. CASE Secured
  <2>1. "capabilities" \in Readers
    BY DEF Readers, Handshake
  <2> QED
    BY <1>9, <1>11, <2>1 DEF Secured
<1>12. CASE TlsFails
  <2>1. phase = "tls" /\ Nobody
    BY <1>12 DEF TlsFails, OneReader, Calm, Alone, Handshake
  <2> QED
    BY <1>12, <2>1 DEF TlsFails, ClosedInv, Nobody
<1>13. ASSUME NEW c \in Commands, Issue(c) PROVE ClosedInv'
  <2>1. c \in Readers
    BY DEF Readers
  <2> QED
    BY <1>9, <1>13, <2>1 DEF Issue
<1>14. CASE Logout
  <2>1. "logout" \in Readers /\ disturbed \subseteq disturbed'
    BY <1>14 DEF Readers, Logout
  <2> QED
    BY <1>9, <1>14, <2>1 DEF Logout
<1> QED
  BY <1>2, <1>3, <1>4, <1>5, <1>6, <1>7, <1>8, <1>10, <1>11, <1>12, <1>13, <1>14
     DEF Next, Microtask, Macrotask

ReaderInv == TypeOK /\ OneReader /\ Unread /\ ClosedInv

\* The four invariants hold in the first state.
LEMMA ReaderInit == Init => ReaderInv
<1> SUFFICES ASSUME Init PROVE OneReader /\ Unread /\ ClosedInv
  BY TypeInit DEF ReaderInv
<1>1. "greeting" \in Readers /\ "greeting" \in Handshake
  BY DEF Readers, Handshake
<1>2. OneReader
  <2>1. Alone("greeting") /\ Waits("greeting")
    BY <1>1 DEF Init, Alone, ReadingOnly, Waits
  <2> QED
    BY <1>1, <2>1 DEF OneReader
<1>3. Unread
  BY CommandsAssumption DEF Init, Unread, Readers, Handshake
<1> QED
  BY <1>2, <1>3 DEF Init, ClosedInv

\* And every step keeps them.
LEMMA ReaderStep == ReaderInv /\ [Next]_vars => ReaderInv'
BY TypeStep, OneReaderStep, UnreadStep, ClosedStep DEF ReaderInv

\* They say what is to be known of a closed client.
LEMMA ReaderImpliesFinal == ReaderInv => ClosedIsFinal
BY DEF ReaderInv, ClosedInv, ClosedIsFinal, NoWaitWhenClosed, SocketReleased, Ended, Busy, TypeOK

\* A closed client lets nobody wait, and gives its socket back (client.ts:320-372,
\* 552-572), for every set of commands and however the server behaves.
THEOREM ClosedClientIsFinal == Spec => []ClosedIsFinal
BY ReaderInit, ReaderStep, ReaderImpliesFinal, PTL DEF Spec

----------------------------------------------------------------------------
(* The lines of an answer.                                                 *)

\* The first line left of an answer is the next one, and the last if it is final.
LEMMA RestHead ==
  ASSUME NEW c \in Readers, NEW k \in Nat, NEW L, NEW S \in Seq(L), Rest(c, k, S)
  PROVE  /\ S[1].of = c /\ S[1].n = k + 1
         /\ S[1].kind # "data" => Len(S) = 1
         /\ Challenge(c, k) => Len(S) = 1
<1>1. Len(S) \in Nat /\ Len(S) >= 1
  BY EmptySeq DEF Rest
<1>2. ASSUME S[1].kind # "data" PROVE Len(S) = 1
  BY <1>1, <1>2 DEF Rest
<1> QED
  BY <1>1, <1>2 DEF Rest

\* After a data line that is no challenge, the rest is one line shorter.
LEMMA RestTail ==
  ASSUME NEW c \in Readers, NEW k \in Nat, NEW L, NEW S \in Seq(L), Rest(c, k, S),
         S[1].kind = "data", ~Challenge(c, k)
  PROVE  Rest(c, k + 1, Tail(S))
<1>1. Len(S) \in Nat /\ Len(S) >= 2
  <2>1. PICK n \in Nat : n = Len(S) /\ n >= 1
    BY EmptySeq DEF Rest
  <2>2. n # 1
    BY <2>1 DEF Rest
  <2> QED
    BY <2>1, <2>2
<1>2. /\ Tail(S) \in Seq(L) /\ Len(Tail(S)) = Len(S) - 1
      /\ \A i \in 1..Len(Tail(S)) : Tail(S)[i] = S[i + 1]
  BY HeadTailProperties DEF Rest
<1>3. Tail(S) # <<>>
  BY <1>1, <1>2, EmptySeq
<1>4. ASSUME NEW i \in 1..Len(Tail(S))
      PROVE  /\ Tail(S)[i].of = c /\ Tail(S)[i].n = (k + 1) + i
             /\ i < Len(Tail(S)) => Tail(S)[i].kind = "data"
  <2>1. i + 1 \in 1..Len(S) /\ i \in Nat
    BY <1>1, <1>2
  <2>2. S[i + 1].of = c /\ S[i + 1].n = k + (i + 1) /\ (i + 1 < Len(S) => S[i + 1].kind = "data")
    BY <2>1 DEF Rest
  <2> QED
    BY <1>1, <1>2, <2>1, <2>2
<1>5. Tail(S)[Len(Tail(S))].kind # "data"
  <2>1. Len(Tail(S)) \in 1..Len(Tail(S)) /\ Len(Tail(S)) + 1 = Len(S)
    BY <1>1, <1>2
  <2>2. Tail(S)[Len(Tail(S))] = S[Len(S)]
    BY <1>2, <2>1
  <2> QED
    BY <2>2 DEF Rest
<1>6. ~Challenge(c, k + 1)
  BY DEF Challenge
<1> QED
  BY <1>3, <1>4, <1>5, <1>6 DEF Rest

\* A whole answer.
LEMMA RestAnswer ==
  ASSUME NEW c \in Readers \ {"authenticate"}, NEW n \in Nat, NEW kind \in {"ok", "no"}
  PROVE  Rest(c, 0, Answer(c, n, kind))
<1> DEFINE last == [of |-> c, n |-> n + 1, kind |-> kind]
           S == Answer(c, n, kind)
<1>1. Data(c, n) \in Seq(Line) /\ Len(Data(c, n)) = n
  BY DataType
<1>n. last \in Line
  BY DEF Line
<1>2. /\ S # <<>> /\ Len(S) = n + 1 /\ S[n + 1] = last
      /\ \A i \in 1..n : S[i] = Data(c, n)[i]
  BY <1>1, <1>n, AppendProperties DEF Answer
<1>3. \A i \in 1..n : Data(c, n)[i] = [of |-> c, n |-> i, kind |-> "data"]
  BY DEF Data
<1>4. ASSUME NEW i \in 1..Len(S)
      PROVE  S[i].of = c /\ S[i].n = 0 + i /\ (i < Len(S) => S[i].kind = "data")
  <2>1. CASE i \in 1..n
    <3>1. S[i] = [of |-> c, n |-> i, kind |-> "data"]
      BY <1>2, <1>3, <2>1
    <3> QED
      BY <2>1, <3>1
  <2>2. CASE i = n + 1
    BY <1>2, <2>2
  <2> QED
    BY <1>2, <2>1, <2>2
<1>5. S[Len(S)].kind # "data"
  BY <1>2
<1> QED
  BY <1>2, <1>4, <1>5 DEF Rest, Challenge

\* An answer of one line.
LEMMA RestSingle ==
  ASSUME NEW c \in Readers, NEW k \in Nat, NEW S, Len(S) = 1, S # <<>>,
         S[1].of = c, S[1].n = k + 1, S[1].kind = "data" => Challenge(c, k)
  PROVE  Rest(c, k, S)
BY DEF Rest

----------------------------------------------------------------------------
(* The stream of lines.                                                    *)

\* nextLine(), when nobody reads.
LEMMA NextLineTakes ==
  ASSUME TypeOK, NEW c \in Readers, NextLine(c, <<>>), waiters = <<>>, lineQueue # <<>>
  PROVE  Takes(c)' /\ micro'[1].line = lineQueue[1] /\ lineQueue' = Tail(lineQueue)
<1>1. [reader |-> c, line |-> Head(lineQueue)] \in Micro
  BY HeadTailProperties DEF Micro, TypeOK
<1>2. micro' = Append(<<>>, [reader |-> c, line |-> Head(lineQueue)])
  BY DEF NextLine
<1>3. Len(micro') = 1 /\ micro'[1] = [reader |-> c, line |-> Head(lineQueue)]
  BY <1>1, <1>2, AppendProperties, EmptySeq
<1>4. Head(lineQueue) = lineQueue[1]
  BY DEF TypeOK
<1> QED
  BY <1>3, <1>4 DEF NextLine, Takes

\* It waits when there is no line.
LEMMA NextLineWaits ==
  ASSUME TypeOK, NEW c \in Readers, NextLine(c, <<>>), waiters = <<>>, lineQueue = <<>>, ~closed
  PROVE  Waits(c)' /\ lineQueue' = <<>> /\ step' = [step EXCEPT ![c] = "reading"]
<1>1. waiters' = Append(<<>>, c) /\ micro' = <<>>
  BY DEF NextLine
<1>2. Len(waiters') = 1 /\ waiters'[1] = c
  BY <1>1, AppendProperties, EmptySeq
<1> QED
  BY <1>1, <1>2 DEF NextLine, Waits

\* A command that is written waits for its answer.
LEMMA CommandStream ==
  ASSUME TypeOK, NEW c \in Readers \ {"greeting", "capabilities"}, Command(c),
         got[c] = <<>>, UNCHANGED <<closed, wire, got>>, Nobody,
         IF closed THEN StreamClosed ELSE Quiet,
         phase' # "ready" => phase' \in Handshake /\ c = phase'
  PROVE  IF closed' THEN StreamClosed' ELSE StreamOpen'
<1>1. CASE closed
  BY <1>1 DEF Command, StreamClosed
<1>2. CASE ~closed
  <2>1. NextLine(c, <<>>) /\ asked' = Append(<<>>, c)
    BY <1>2 DEF Command, Nobody, Quiet
  <2>2. Waits(c)' /\ lineQueue' = <<>> /\ step' = [step EXCEPT ![c] = "reading"]
    BY <1>2, <2>1, NextLineWaits DEF Quiet, Nobody
  <2>3. asked' = <<c>>
    BY <2>1
  <2>4. Unanswered(c)'
    BY <1>2, <2>2, <2>3 DEF Unanswered, Quiet
  <2>5. Alone(c)'
    BY <2>2 DEF Alone, ReadingOnly, Nobody, TypeOK
  <2> QED
    BY <1>2, <2>4, <2>5 DEF StreamOpen
<1> QED
  BY <1>1, <1>2

\* flushWaiters(): whoever waits gets the absence of a line.
LEMMA FlushedStream ==
  ASSUME TypeOK, Flushed, micro \in Seq(Absent)
  PROVE  micro' \in Seq(Absent)
<1> DEFINE woken == [i \in 1..Len(waiters) |-> [reader |-> waiters[i], line |-> NoLine]]
<1>1. waiters \in Seq(Readers) /\ Len(waiters) \in Nat
  BY DEF TypeOK
<1>2. woken \in Seq(Absent)
  <2>1. \A i \in 1..Len(waiters) : [reader |-> waiters[i], line |-> NoLine] \in Absent
    BY <1>1 DEF Absent
  <2> QED
    BY <1>1, <2>1, IsASeq
<1> QED
  BY <1>2, ConcatProperties DEF Flushed

\* A sequence without its first element, and that element put before it.
LEMMA ConsTail ==
  ASSUME NEW L, NEW x \in L, NEW T \in Seq(L)
  PROVE  /\ <<x>> \o T \in Seq(L) /\ (<<x>> \o T)[1] = x
         /\ Len(<<x>> \o T) = Len(T) + 1 /\ Tail(<<x>> \o T) = T
<1> DEFINE S == <<x>> \o T
<1>1. <<x>> \in Seq(L) /\ Len(<<x>>) = 1 /\ <<x>>[1] = x
  OBVIOUS
<1>2. Len(T) \in Nat
  OBVIOUS
<1>3. /\ S \in Seq(L) /\ Len(S) = 1 + Len(T)
      /\ \A i \in 1..1 + Len(T) : S[i] = IF i <= 1 THEN <<x>>[i] ELSE T[i - 1]
  BY <1>1, ConcatProperties
<1>4. S[1] = x
  BY <1>1, <1>2, <1>3
<1>5. S # <<>>
  BY <1>2, <1>3, EmptySeq
<1>6. /\ Tail(S) \in Seq(L) /\ Len(Tail(S)) = Len(S) - 1
      /\ \A i \in 1..Len(Tail(S)) : Tail(S)[i] = S[i + 1]
  BY <1>3, <1>5, HeadTailProperties
<1>7. Len(Tail(S)) = Len(T)
  BY <1>2, <1>3, <1>6
<1>8. ASSUME NEW i \in 1..Len(Tail(S)) PROVE Tail(S)[i] = T[i]
  <2>1. Tail(S)[i] = S[i + 1]
    BY <1>6
  <2>2. i + 1 \in 1..1 + Len(T) /\ ~(i + 1 <= 1) /\ (i + 1) - 1 = i
    BY <1>2, <1>7
  <2> QED
    BY <1>3, <2>1, <2>2
<1>9. Tail(S) = T
  BY <1>6, <1>7, <1>8, SeqEqual
<1> QED
  BY <1>2, <1>3, <1>4, <1>9

\* The same, of its first lines.
LEMMA ConsHead ==
  ASSUME NEW L, NEW S \in Seq(L), S # <<>>
  PROVE  <<S[1]>> \o Tail(S) = S
<1>1. Len(S) \in Nat /\ Len(S) >= 1
  BY EmptySeq
<1>2. SubSeq(S, 1, Len(S)) = <<S[1]>> \o SubSeq(S, 1 + 1, Len(S))
  BY <1>1, SubSeqRecursiveFirst
<1>3. SubSeq(S, 1, Len(S)) = S /\ Tail(S) = SubSeq(S, 2, Len(S))
  BY SubSeqFull, TailIsSubSeq
<1> QED
  BY <1>2, <1>3

\* A chunk of n lines: the first, the others, and what is left on the wire.
LEMMA ChunkOf ==
  ASSUME NEW L, NEW S \in Seq(L), NEW n \in 1..Len(S)
  PROVE  <<S[1]>> \o (SubSeq(S, 2, n) \o SubSeq(S, n + 1, Len(S))) = S
<1>1. Len(S) \in Nat /\ S # <<>>
  BY EmptySeq
<1>2. SubSeq(S, 2, n) \o SubSeq(S, n + 1, Len(S)) = SubSeq(S, 2, Len(S))
  <2>1. 2 \in 1..Len(S) + 1 /\ n \in (2 - 1)..Len(S) /\ Len(S) \in n..Len(S)
    BY <1>1
  <2> QED
    BY <2>1, ConcatAdjacentSubSeq
<1> QED
  BY <1>1, <1>2, TailIsSubSeq, ConsHead

\* With nobody reading, no line is left; with no microtask left, none is queued.
LEMMA StreamRest ==
  ASSUME TypeOK, StreamInv, Undisturbed
  PROVE  /\ Nobody => IF closed THEN StreamClosed ELSE Quiet
         /\ micro = <<>> => lineQueue = <<>>
<1>1. CASE closed
  BY <1>1 DEF StreamInv, StreamClosed
<1>2. CASE ~closed
  BY <1>2, EmptySeq DEF StreamInv, StreamOpen, Quiet, Nobody, Unanswered, Coming, Taken, Waits, Takes
<1> QED
  BY <1>1, <1>2

\* The client is closed: whoever waits gets the absence of a line, and no other line is left.
LEMMA StreamEnds ==
  ASSUME TypeOK, StreamInv, Undisturbed, micro = <<>>, closed',
         Flushed \/ UNCHANGED micro, UNCHANGED lineQueue
  PROVE  StreamClosed'
<1>1. micro \in Seq(Absent) /\ lineQueue = <<>>
  BY StreamRest, EmptySeq
<1> QED
  BY <1>1, FlushedStream DEF StreamClosed, Absent

\* The server answers the one that waits.
LEMMA ServeStream ==
  ASSUME TypeOK, NEW c \in Readers, Alone(c), Unanswered(c), Serve
  PROVE  Alone(c)' /\ Coming(c)'
<1>1. Head(asked) = c /\ asked' = <<>>
  BY DEF Unanswered, Serve
<1>2. /\ Waits(c)' /\ Alone(c)' /\ lineQueue' = <<>> /\ got' = got
  BY DEF Serve, Unanswered, Alone, ReadingOnly, Waits, readVars, connVars
<1>3. got[c] \in Seq(Line) /\ Len(got[c]) \in Nat /\ (c # "authenticate" => Len(got[c]) = 0)
  BY EmptySeq DEF TypeOK, Unanswered
<1>4. ASSUME c \in Commands, NEW n \in 0..MaxData, NEW kind \in {"ok", "no"},
             wire' = wire \o Answer(c, n, kind)
      PROVE  Rest(c, Len(got[c]), wire')
  <2>a. n \in Nat
    BY MaxDataAssumption
  <2>b. c # "authenticate"
    BY <1>4, CommandsAssumption
  <2>1. n \in Nat /\ c # "authenticate" /\ Answer(c, n, kind) \in Seq(Line)
    BY <2>a, <2>b, AnswerType
  <2>2. wire' = Answer(c, n, kind)
    BY <1>4, <2>1, ConcatEmptySeq DEF Unanswered
  <2> QED
    BY <1>3, <2>1, <2>2, RestAnswer
<1>5. ASSUME NEW l \in Line, wire' = <<l>>, l.of = c, l.n = Len(got[c]) + 1,
             l.kind = "data" => Challenge(c, Len(got[c]))
      PROVE  Rest(c, Len(got[c]), wire')
  <2>1. wire' # <<>> /\ Len(wire') = 1 /\ wire'[1] = l
    BY <1>5, EmptySeq
  <2> QED
    BY <1>3, <1>5, <2>1, RestSingle
<1>6. ASSUME NEW kind \in {"ok", "no", "bad"},
             wire' = Append(wire, [of |-> c, n |-> Len(got[c]) + 1, kind |-> kind])
      PROVE  Rest(c, Len(got[c]), wire')
  <2>1. [of |-> c, n |-> Len(got[c]) + 1, kind |-> kind] \in Line
    BY <1>3 DEF Line
  <2>2. wire' = <<[of |-> c, n |-> Len(got[c]) + 1, kind |-> kind]>>
    BY <1>6 DEF Unanswered
  <2> QED
    BY <1>5, <2>1, <2>2
<1>7. ASSUME c = "authenticate", got[c] = <<>>, wire' = wire \o Data(c, 1)
      PROVE  Rest(c, Len(got[c]), wire')
  <2>1. [of |-> c, n |-> 1, kind |-> "data"] \in Line
    BY DEF Line
  <2>2. Data(c, 1) \in Seq(Line) /\ Data(c, 1) = <<[of |-> c, n |-> 1, kind |-> "data"]>>
    BY DataType DEF Data
  <2>3. wire' = <<[of |-> c, n |-> 1, kind |-> "data"]>>
    BY <1>7, <2>2, ConcatEmptySeq DEF Unanswered
  <2>4. Len(got[c]) = 0
    BY <1>7, EmptySeq
  <2>5. Challenge(c, Len(got[c])) /\ Len(got[c]) + 1 = 1
    BY <1>7, <2>4 DEF Challenge
  <2>6. PICK l \in Line : l = [of |-> c, n |-> 1, kind |-> "data"]
    BY <2>1
  <2> QED
    BY <1>5, <2>3, <2>5, <2>6
<1>8. Rest(c, Len(got[c]), wire')
  <2>1. \/ c \in Commands /\ \E n \in 0..MaxData, kind \in {"ok", "no"} : wire' = wire \o Answer(c, n, kind)
        \/ \E kind \in {"ok", "no"} : wire' = Append(wire, [of |-> c, n |-> Len(got[c]) + 1, kind |-> kind])
        \/ c = "authenticate" /\ got[c] = <<>> /\ wire' = wire \o Data(c, 1)
        \/ c \in Commands /\ wire' = Append(wire, [of |-> c, n |-> 1, kind |-> "bad"])
    BY <1>1 DEF Serve
  <2>2. CASE c \in Commands /\ wire' = Append(wire, [of |-> c, n |-> 1, kind |-> "bad"])
    <3>1. Len(got[c]) + 1 = 1
      BY <1>3, <2>2, CommandsAssumption
    <3> QED
      BY <1>6, <2>2, <3>1
  <2>3. CASE \E kind \in {"ok", "no"} : wire' = Append(wire, [of |-> c, n |-> Len(got[c]) + 1, kind |-> kind])
    BY <1>6, <2>3
  <2> QED
    BY <1>4, <1>7, <2>1, <2>2, <2>3
<1> QED
  BY <1>1, <1>2, <1>8 DEF Coming

\* A chunk gives it its line, and queues the others.
LEMMA ReceiveStream ==
  ASSUME TypeOK, NEW c \in Readers, Alone(c), Coming(c), NEW n \in 1..Len(wire), Receive(n)
  PROVE  Alone(c)' /\ Taken(c)'
<1>1. wire \in Seq(Line) /\ Len(wire) \in Nat /\ n \in Nat /\ n >= 1 /\ n <= Len(wire)
  BY DEF TypeOK
<1>2. Takes(c)' /\ micro'[1].line = wire[1]
  BY ReceiveAlone DEF Coming
<1>3. Alone(c)' /\ asked' = <<>> /\ got' = got
  BY DEF Receive, Coming, Alone, ReadingOnly, connVars
<1>4. lineQueue' = SubSeq(wire, 2, n) /\ wire' = SubSeq(wire, n + 1, Len(wire))
  <2>1. (IF n < Len(waiters) THEN n ELSE Len(waiters)) = 1
    BY <1>1 DEF Coming, Waits
  <2>2. lineQueue' = <<>> \o SubSeq(wire, 2, n)
    <3>1. lineQueue' = lineQueue \o SubSeq(wire, (IF n < Len(waiters) THEN n ELSE Len(waiters)) + 1, n)
      BY DEF Receive
    <3>2. 1 + 1 = 2
      OBVIOUS
    <3> QED
      BY <2>1, <3>1, <3>2 DEF Coming
  <2>3. SubSeq(wire, 2, n) \in Seq(Line)
    <3>1. \A i \in 2..n : wire[i] \in Line
      BY <1>1, ElementOfSeq
    <3> QED
      BY <1>1, <3>1, SubSeqProperties
  <2> QED
    BY <2>2, <2>3, ConcatEmptySeq DEF Receive
<1>5. ASSUME NEW i \in 1..Len(lineQueue') PROVE lineQueue'[i].kind # "bad"
  <2>1. \A j \in 2..n : wire[j] \in Line
    BY <1>1, ElementOfSeq
  <2>2. /\ Len(SubSeq(wire, 2, n)) = IF 2 <= n THEN n - 2 + 1 ELSE 0
        /\ \A j \in 1..n - 2 + 1 : SubSeq(wire, 2, n)[j] = wire[2 + j - 1]
    BY <1>1, <2>1, SubSeqProperties
  <2>3. i \in 1..n - 2 + 1 /\ 2 + i - 1 \in 1..n
    BY <1>1, <1>4, <1>5, <2>2
  <2>4. lineQueue'[i] = wire[2 + i - 1]
    BY <1>4, <2>2, <2>3
  <2> QED
    BY <2>3, <2>4 DEF Receive
<1>6. wire[1].kind \notin {"bad", "none"}
  <2>1. wire[1] \in Line /\ 1 \in 1..n
    BY <1>1, ElementOfSeq
  <2> QED
    BY <2>1 DEF Receive, Line
<1>7. <<wire[1]>> \o (lineQueue' \o wire') = wire
  BY <1>1, <1>4, ChunkOf
<1> QED
  BY <1>2, <1>3, <1>5, <1>6, <1>7 DEF Taken, Coming

\* The reader that takes its line goes on with the rest of its answer.
LEMMA ContinueStream ==
  ASSUME TypeOK, NEW c \in Readers, Alone(c), Taken(c), Continue, ~closed, AllOwn
  PROVE  AllOwn' /\ StreamOpen'
<1> DEFINE line == micro[1].line
           k == Len(got[c])
<1>1. /\ micro \in Seq(Micro) /\ Head(micro) = micro[1] /\ Tail(micro) = <<>>
      /\ waiters = <<>> /\ micro[1].reader = c
  <2>1. micro \in Seq(Micro) /\ Len(micro) = 1
    BY DEF TypeOK, Micro, Taken, Takes
  <2>2. micro # <<>>
    BY <2>1
  <2>3. Tail(micro) \in Seq(Micro) /\ Len(Tail(micro)) = Len(micro) - 1
    BY <2>1, <2>2, HeadTailProperties
  <2>4. Len(Tail(micro)) = 0
    BY <2>1, <2>3
  <2>5. Tail(micro) = <<>>
    BY <2>3, <2>4, EmptySeq
  <2>6. Head(micro) = micro[1]
    BY <2>1
  <2> QED
    BY <2>1, <2>5, <2>6 DEF Taken, Takes
<1>2. line \in Line /\ line # NoLine /\ line.kind \notin {"bad", "none"}
  <2>1. Len(micro) = 1 /\ line.kind \notin {"bad", "none"}
    BY DEF Taken, Takes
  <2>2. micro[1] \in Micro
    BY <1>1, <2>1, ElementOfSeq
  <2> QED
    BY <2>1, <2>2 DEF Micro, NoLine
<1>3. lineQueue \in Seq(Line) /\ wire \in Seq(Line) /\ lineQueue \o wire \in Seq(Line)
  BY ConcatProperties DEF TypeOK
<1> DEFINE S == <<line>> \o (lineQueue \o wire)
<1>4. /\ S \in Seq(Line) /\ S[1] = line
      /\ Len(S) = Len(lineQueue \o wire) + 1 /\ Tail(S) = lineQueue \o wire
  BY <1>2, <1>3, ConsTail
<1>5. got[c] \in Seq(Line) /\ k \in Nat /\ (k = 0 <=> got[c] = <<>>)
  BY EmptySeq DEF TypeOK
<1>6. Rest(c, k, S)
  BY DEF Taken
<1>7. /\ line.of = c /\ line.n = k + 1
      /\ line.kind # "data" => Len(S) = 1
      /\ Challenge(c, k) => Len(S) = 1
  <2> HIDE DEF S, line, k
  <2>1. /\ S[1].of = c /\ S[1].n = k + 1
        /\ S[1].kind # "data" => Len(S) = 1
        /\ Challenge(c, k) => Len(S) = 1
    <3>1. S \in Seq(Line)
      BY <1>4
    <3>2. k \in Nat
      BY <1>5
    <3> QED
      BY <1>6, <3>1, <3>2, RestHead, Zenon
  <2> QED
    BY <1>4, <2>1
<1>8. Len(S) = 1 => lineQueue = <<>> /\ wire = <<>>
  <2>1. Len(lineQueue \o wire) \in Nat /\ Len(lineQueue \o wire) = Len(lineQueue) + Len(wire)
    BY <1>3, ConcatProperties
  <2>2. Len(lineQueue) \in Nat /\ Len(wire) \in Nat
    BY <1>3
  <2>3. ASSUME Len(S) = 1 PROVE Len(lineQueue) = 0 /\ Len(wire) = 0
    BY <1>4, <2>1, <2>2, <2>3
  <2> QED
    BY <1>3, <2>3, EmptySeq
<1>9. got' = [got EXCEPT ![c] = Append(got[c], line)] /\ wire' = wire /\ phase' = phase /\ closed' = closed
  BY <1>1, <1>2 DEF Continue, connVars
<1>10. /\ got'[c] = Append(got[c], line) /\ got'[c] \in Seq(Line) /\ Len(got'[c]) = k + 1
       /\ \A i \in 1..k : got'[c][i] = got[c][i]
       /\ got'[c][k + 1] = line
  <2>1. got'[c] = Append(got[c], line)
    BY <1>9 DEF TypeOK
  <2> QED
    BY <1>2, <1>5, <2>1, AppendProperties
<1>11. AllOwn'
  <2>1. Own(c)'
    <3>1. ASSUME NEW i \in 1..Len(got'[c]) PROVE got'[c][i].of = c /\ got'[c][i].n = i
      <4>1. i \in 1..k \/ i = k + 1
        BY <1>5, <1>10
      <4> QED
        BY <1>7, <1>10, <4>1 DEF AllOwn, Own
    <3> QED
      BY <3>1 DEF Own
  <2>2. ASSUME NEW d \in Readers, d # c PROVE Own(d)'
    <3>1. got'[d] = got[d]
      BY <1>9, <2>2 DEF TypeOK
    <3> QED
      BY <3>1 DEF AllOwn, Own
  <2> QED
    BY <2>1, <2>2 DEF AllOwn
<1>12. \/ /\ Final(line) /\ step' = [step EXCEPT ![c] = "done"]
          /\ micro' = <<>> /\ UNCHANGED <<asked, lineQueue, waiters>>
       \/ /\ ~Final(line) /\ NextLine(c, <<>>)
          /\ asked' = IF c = "authenticate" /\ got[c] = <<>> THEN Append(asked, c) ELSE asked
  BY <1>1, <1>2 DEF Continue
<1>13. CASE Final(line)
  <2>1. step' = [step EXCEPT ![c] = "done"] /\ micro' = <<>> /\ UNCHANGED <<asked, lineQueue, waiters>>
    BY <1>12, <1>13
  <2>2. Nobody'
    BY <1>1, <2>1 DEF Nobody, Alone, ReadingOnly, TypeOK
  <2>3. lineQueue = <<>> /\ wire = <<>>
    BY <1>7, <1>8, <1>13 DEF Final
  <2> QED
    BY <1>9, <1>11, <2>1, <2>2, <2>3 DEF StreamOpen, Quiet, Taken
<1>14. CASE ~Final(line)
  <2>1. /\ line.kind = "data" /\ NextLine(c, <<>>)
        /\ asked' = IF c = "authenticate" /\ got[c] = <<>> THEN Append(asked, c) ELSE asked
    BY <1>2, <1>12, <1>14 DEF Final, Line
  <2>2. ASSUME step' = [step EXCEPT ![c] = "reading"] PROVE Alone(c)'
    BY <1>9, <2>2 DEF Alone, ReadingOnly, TypeOK
  <2>3. CASE lineQueue = <<>>
    <3>1. Waits(c)' /\ lineQueue' = <<>> /\ Alone(c)'
      BY <1>1, <2>1, <2>2, <2>3, NextLineWaits
    <3>2. CASE Challenge(c, k)
      <4>1. wire' = <<>> /\ asked' = <<c>>
        BY <1>5, <1>7, <1>8, <1>9, <2>1, <3>2 DEF Challenge, Taken
      <4>2. Len(got'[c]) = 1 /\ c = "authenticate"
        BY <1>10, <3>2 DEF Challenge
      <4> QED
        BY <1>11, <3>1, <4>1, <4>2 DEF StreamOpen, Unanswered
    <3>3. CASE ~Challenge(c, k)
      <4>1. asked' = <<>>
        BY <1>5, <2>1, <3>3 DEF Challenge, Taken
      <4>2. Rest(c, k + 1, wire)
        <5>1. Rest(c, k + 1, Tail(S))
          <6> HIDE DEF S, line, k
          <6> QED
            BY <1>4, <1>5, <1>6, <2>1, <3>3, RestTail
        <5>2. Tail(S) = wire
          BY <1>3, <1>4, <2>3, ConcatEmptySeq
        <5> QED
          BY <5>1, <5>2
      <4> QED
        BY <1>9, <1>10, <1>11, <3>1, <4>1, <4>2 DEF StreamOpen, Coming
    <3> QED
      BY <3>2, <3>3
  <2>4. CASE lineQueue # <<>>
    <3>1. Takes(c)' /\ micro'[1].line = lineQueue[1] /\ lineQueue' = Tail(lineQueue)
      BY <1>1, <2>1, <2>4, NextLineTakes
    <3>2. Alone(c)'
      BY <2>1, <2>2, <2>4 DEF NextLine
    <3>3. ~Challenge(c, k)
      BY <1>7, <1>8, <2>4
    <3>4. asked' = <<>>
      BY <1>5, <2>1, <3>3 DEF Challenge, Taken
    <3>5. Rest(c, k + 1, lineQueue \o wire)
      BY <1>4, <1>5, <1>6, <2>1, <3>3, RestTail
    <3>6. <<lineQueue[1]>> \o (Tail(lineQueue) \o wire) = lineQueue \o wire
      <4>1. lineQueue[1] \in Line
        BY <1>3, <2>4, EmptySeq, ElementOfSeq
      <4>2. <<lineQueue[1]>> \in Seq(Line) /\ Tail(lineQueue) \in Seq(Line)
        BY <1>3, <2>4, <4>1, HeadTailProperties
      <4>3. <<lineQueue[1]>> \o Tail(lineQueue) = lineQueue
        BY <1>3, <2>4, ConsHead
      <4> QED
        BY <1>3, <4>2, <4>3, ConcatAssociative
    <3>7. lineQueue[1].kind \notin {"bad", "none"}
      <4>1. 1 \in 1..Len(lineQueue)
        BY <1>3, <2>4, EmptySeq
      <4>2. lineQueue[1] \in Line
        BY <1>3, <4>1, ElementOfSeq
      <4> QED
        BY <4>1, <4>2 DEF Taken, Line
    <3>8. ASSUME NEW i \in 1..Len(lineQueue') PROVE lineQueue'[i].kind # "bad"
      <4>1. /\ Len(Tail(lineQueue)) = Len(lineQueue) - 1 /\ Len(lineQueue) \in Nat
            /\ \A j \in 1..Len(Tail(lineQueue)) : Tail(lineQueue)[j] = lineQueue[j + 1]
        BY <1>3, <2>4, HeadTailProperties
      <4>2. i + 1 \in 1..Len(lineQueue) /\ lineQueue'[i] = lineQueue[i + 1]
        BY <3>1, <4>1
      <4> QED
        BY <4>2 DEF Taken
    <3> QED
      BY <1>9, <1>10, <1>11, <3>1, <3>2, <3>4, <3>5, <3>6, <3>7, <3>8 DEF StreamOpen, Taken
  <2> QED
    BY <2>3, <2>4
<1> QED
  BY <1>13, <1>14

\* Every step keeps the answer of the one that reads where it is expected.
LEMMA StreamStep ==
  TypeOK /\ OneReader /\ Unread /\ ClosedInv /\ StreamInv /\ [Next]_vars => StreamInv'
<1> SUFFICES ASSUME TypeOK, OneReader, Unread, ClosedInv, StreamInv, [Next]_vars, Undisturbed'
             PROVE  AllOwn' /\ (IF closed' THEN StreamClosed' ELSE StreamOpen')
  BY DEF StreamInv
<1> DEFINE Goal == AllOwn' /\ (IF closed' THEN StreamClosed' ELSE StreamOpen')
<1>n. Handshake \subseteq Readers /\ "logout" \in Readers /\ Commands \subseteq Readers
  BY DEF Handshake, Readers
<1>u. Undisturbed /\ Calm
  BY CalmBefore DEF Calm
<1>o. AllOwn /\ (IF closed THEN StreamClosed ELSE StreamOpen)
  BY <1>u DEF StreamInv
<1>r. /\ Nobody => IF closed THEN StreamClosed ELSE Quiet
      /\ micro = <<>> => lineQueue = <<>>
  BY <1>u, StreamRest
<1>g. ASSUME got' = got PROVE AllOwn'
  BY <1>o, <1>g DEF AllOwn, Own
<1>b. ASSUME phase \in Handshake, step[phase] # "reading" PROVE Nobody
  BY <1>b, AnsweredIsAlone
<1>e. ASSUME micro = <<>>, closed', Flushed \/ UNCHANGED micro, UNCHANGED <<lineQueue, got>>
      PROVE  Goal
  <2>1. StreamClosed'
    BY <1>e, <1>u, StreamEnds
  <2> QED
    BY <1>e, <1>g, <2>1
<1>c. ASSUME NEW c \in Readers \ {"greeting", "capabilities"}, Command(c), got[c] = <<>>,
             UNCHANGED <<closed, wire, got>>, Nobody,
             phase' # "ready" => phase' \in Handshake /\ c = phase'
      PROVE  Goal
  BY <1>c, <1>g, <1>r, CommandStream
<1>s. ASSUME Nobody, UNCHANGED <<closed, wire, got, asked, waiters, micro, step>>,
             lineQueue' = lineQueue \/ lineQueue' = <<>>
      PROVE  Goal
  BY <1>s, <1>g, <1>r DEF StreamClosed, StreamOpen, Quiet, Nobody, Absent
<1>1. CASE Serve
  <2>1. UNCHANGED <<closed, got, lineQueue, micro>> /\ AllOwn'
    BY <1>1, <1>g DEF Serve, readVars
  <2>2. CASE closed
    BY <1>o, <2>1, <2>2 DEF StreamClosed, Absent
  <2>3. CASE ~closed
    <3>1. PICK c \in Readers : Alone(c) /\ Unanswered(c)
      BY <1>1, <1>o, <2>3 DEF StreamOpen, Quiet, Coming, Taken, Serve
    <3>2. Alone(c)' /\ Coming(c)'
      BY <1>1, <3>1, ServeStream
    <3> QED
      BY <2>1, <2>3, <3>2 DEF StreamOpen
  <2> QED
    BY <2>2, <2>3
<1>2. ASSUME NEW n \in 1..Len(wire), Receive(n) PROVE Goal
  <2>1. ~closed /\ ~closed' /\ got' = got /\ micro = <<>> /\ wire # <<>>
    BY <1>2 DEF Receive, Busy
  <2>2. PICK c \in Readers : Alone(c) /\ Coming(c)
    BY <1>o, <2>1, EmptySeq DEF StreamOpen, Quiet, Unanswered, Taken, Takes
  <2>3. Alone(c)' /\ Taken(c)'
    BY <1>2, <2>2, ReceiveStream
  <2> QED
    BY <1>g, <2>1, <2>3 DEF StreamOpen
<1>3. CASE ReceiveMalformed \/ SocketClosed
  BY <1>3, <1>e DEF ReceiveMalformed, SocketClosed, Busy
<1>4. CASE Continue
  <2>1. micro # <<>> /\ closed' = closed
    BY <1>4 DEF Continue
  <2>2. CASE ~closed
    <3>1. PICK c \in Readers : Alone(c) /\ Taken(c)
      BY <1>o, <2>1, <2>2 DEF StreamOpen, Quiet, Nobody, Unanswered, Coming, Waits
    <3> QED
      BY <1>4, <1>o, <2>1, <2>2, <3>1, ContinueStream
  <2>3. CASE closed
    <3>1. micro \in Seq(Absent) /\ lineQueue = <<>>
      BY <1>o, <2>3 DEF StreamClosed
    <3>2. Head(micro) \in Absent /\ Tail(micro) \in Seq(Absent)
      BY <2>1, <3>1, HeadTailProperties
    <3>3. Head(micro).line = NoLine /\ Head(micro).reader \in Readers
      BY <3>2 DEF Absent
    <3>4. micro' = Tail(micro) /\ lineQueue' = lineQueue /\ got' = [got EXCEPT ![Head(micro).reader] = @]
      BY <1>4, <3>3 DEF Continue
    <3>5. got' = got
      BY <3>3, <3>4 DEF TypeOK
    <3> QED
      BY <1>g, <2>1, <2>3, <3>1, <3>2, <3>4, <3>5 DEF StreamClosed, Absent
  <2> QED
    BY <2>2, <2>3
<1>5. ASSUME NEW c \in Readers, Timeout(c) PROVE Goal
  BY <1>5 DEF Timeout, Undisturbed
<1>6. CASE ConnectFails
  BY <1>6, <1>e DEF ConnectFails, Destroy
<1>7. CASE Greeted
  <2>1. phase' \in {"starttls", "authenticate"} /\ Command(phase') /\ phase = "greeting"
    BY <1>7 DEF Greeted, Answered
  <2>2. Nobody /\ phase' \in Readers \ {"greeting", "capabilities"} /\ phase' \in Handshake
    BY <1>b, <1>n, <1>7, <2>1 DEF Greeted, Answered, Handshake
  <2>3. got[phase'] = <<>>
    BY <2>1, <2>2 DEF Unread
  <2> QED
    BY <1>c, <1>7, <2>1, <2>2, <2>3 DEF Greeted
<1>8. CASE Announced
  <2>1. phase' = "authenticate" /\ Command(phase') /\ phase = "capabilities"
    BY <1>8 DEF Announced, Answered
  <2>2. Nobody /\ phase' \in Readers \ {"greeting", "capabilities"} /\ phase' \in Handshake
    BY <1>b, <1>n, <1>8, <2>1 DEF Announced, Answered, Handshake
  <2>3. got[phase'] = <<>>
    BY <2>1, <2>2 DEF Unread
  <2> QED
    BY <1>c, <1>8, <2>1, <2>2, <2>3 DEF Announced
<1>9. CASE StartTls \/ LoggedIn
  <2>1. Nobody
    BY <1>b, <1>9 DEF StartTls, LoggedIn, Answered, Handshake
  <2> QED
    BY <1>s, <1>9, <2>1 DEF StartTls, LoggedIn, readVars, serverVars
<1>10. CASE Secured
  <2>1. phase = "tls" /\ phase' = "capabilities" /\ UNCHANGED <<closed, asked, got>>
    BY <1>10 DEF Secured
  <2>2. Nobody
    BY <1>u, <2>1 DEF OneReader, Alone, Handshake
  <2>3. NextLine("capabilities", <<>>) /\ waiters = <<>> /\ lineQueue = <<>>
    BY <1>r, <1>10, <2>2 DEF Secured, Nobody
  <2>4. CASE closed
    <3>1. micro' = <<>> /\ lineQueue' = <<>>
      BY <2>3, <2>4 DEF NextLine
    <3> QED
      BY <1>g, <2>1, <2>4, <3>1, EmptySeq DEF StreamClosed, Absent
  <2>5. CASE ~closed
    <3>1. "capabilities" \in Readers \ {"authenticate"} /\ "capabilities" \in Handshake
      BY <1>n DEF Handshake
    <3>2. /\ Waits("capabilities")' /\ lineQueue' = <<>>
          /\ step' = [step EXCEPT !["capabilities"] = "reading"]
      BY <2>3, <2>5, <3>1, NextLineWaits
    <3>3. Alone("capabilities")'
      BY <2>1, <2>2, <3>1, <3>2 DEF Alone, ReadingOnly, Nobody, TypeOK
    <3>4. wire' = Answer("capabilities", MaxData, "ok")
      <4>1. Answer("capabilities", MaxData, "ok") \in Seq(Line)
        BY <3>1, AnswerType, MaxDataAssumption
      <4> QED
        BY <1>r, <1>10, <2>2, <2>5, <4>1, ConcatEmptySeq DEF Secured, Quiet
    <3>5. Rest("capabilities", 0, wire')
      BY <3>1, <3>4, RestAnswer, MaxDataAssumption
    <3>6. Len(got'["capabilities"]) = 0
      BY <2>1, <3>1 DEF Unread
    <3>7. asked' = <<>>
      BY <1>r, <2>1, <2>2, <2>5 DEF Quiet
    <3> QED
      BY <1>g, <2>1, <2>5, <3>1, <3>2, <3>3, <3>5, <3>6, <3>7 DEF StreamOpen, Coming
  <2> QED
    BY <2>4, <2>5
<1>11. CASE TlsFails
  <2>1. Nobody
    BY <1>u, <1>11 DEF TlsFails, OneReader, Alone, Handshake
  <2> QED
    BY <1>e, <1>11, <2>1 DEF TlsFails, readVars, Nobody
<1>12. ASSUME NEW c \in Commands, Issue(c) PROVE Goal
  <2>1. phase' = "ready" /\ Reading = {} /\ Command(c) /\ step[c] = "off"
    BY <1>12 DEF Issue, connVars
  <2>2. Nobody
    BY <1>u, <2>1 DEF OneReader, Reading, Alone, ReadingOnly
  <2>3. c \in Readers \ {"greeting", "capabilities"} /\ got[c] = <<>>
    BY <1>n, <2>1, CommandsAssumption DEF Unread
  <2> QED
    BY <1>c, <1>12, <2>1, <2>2, <2>3 DEF Issue
<1>13. CASE Logout
  <2>1. phase' = "ready" /\ Command("logout") /\ step["logout"] = "off"
    BY <1>13 DEF Logout, connVars
  <2>2. Reading = {}
    BY <1>13 DEF Logout, Undisturbed
  <2>3. Nobody
    BY <1>u, <2>2 DEF OneReader, Reading, Alone, ReadingOnly
  <2>4. got["logout"] = <<>>
    BY <1>n, <2>1 DEF Unread
  <2> QED
    BY <1>c, <1>n, <1>13, <2>1, <2>3, <2>4 DEF Logout
<1>14. CASE LogoutEnds
  <2>1. \A d \in Readers : step[d] # "reading"
    BY <1>u, <1>14 DEF LogoutEnds, Unread
  <2>2. Nobody
    BY <1>u, <2>1 DEF OneReader, Alone, ReadingOnly
  <2> QED
    BY <1>e, <1>14, <2>2 DEF LogoutEnds, Destroy, Nobody
<1>15. CASE UNCHANGED vars
  <2>1. AllOwn' /\ closed' = closed /\ (StreamClosed => StreamClosed')
    BY <1>g, <1>15 DEF vars, StreamClosed, Absent
  <2>2. Quiet => Quiet'
    BY <1>15 DEF vars, Quiet, Nobody
  <2>3. ASSUME NEW c \in Readers
        PROVE  (Alone(c) => Alone(c)') /\ (Unanswered(c) => Unanswered(c)')
    BY <1>15 DEF vars, Alone, ReadingOnly, Unanswered, Waits
  <2>4. ASSUME NEW c \in Readers PROVE Coming(c) => Coming(c)'
    BY <1>15 DEF vars, Coming, Waits
  <2>5. ASSUME NEW c \in Readers PROVE Taken(c) => Taken(c)'
    BY <1>15 DEF vars, Taken, Takes
  <2> QED
    BY <1>o, <2>1, <2>2, <2>3, <2>4, <2>5 DEF StreamOpen
<1> QED
  BY <1>1, <1>2, <1>3, <1>4, <1>5, <1>6, <1>7, <1>8, <1>9, <1>10, <1>11, <1>12, <1>13, <1>14,
     <1>15 DEF Next, Microtask, Macrotask

StreamSound == ReaderInv /\ StreamInv

\* The answers are where they should be in the first state.
LEMMA StreamInit == Init => StreamSound
<1> SUFFICES ASSUME Init PROVE StreamInv
  BY ReaderInit DEF StreamSound
<1>1. "greeting" \in Readers \ {"authenticate"} /\ "greeting" \in Handshake
  BY DEF Readers, Handshake
<1>2. AllOwn
  <2>1. \A c \in Readers : Len(got[c]) = 0
    BY DEF Init
  <2> QED
    BY <2>1 DEF AllOwn, Own
<1>3. Alone("greeting") /\ Waits("greeting") /\ lineQueue = <<>> /\ asked = <<>> /\ ~closed
  BY <1>1 DEF Init, Alone, ReadingOnly, Waits
<1>4. Rest("greeting", Len(got["greeting"]), wire)
  <2>1. Len(got["greeting"]) = 0
    BY <1>1 DEF Init
  <2>2. PICK kind \in {"ok", "no"} : wire = Answer("greeting", MaxData, kind)
    BY DEF Init
  <2> QED
    BY <1>1, <2>1, <2>2, RestAnswer, MaxDataAssumption
<1> QED
  BY <1>1, <1>2, <1>3, <1>4 DEF StreamInv, StreamOpen, Coming

\* And they stay so.
LEMMA StreamSoundStep == StreamSound /\ [Next]_vars => StreamSound'
BY ReaderStep, StreamStep DEF StreamSound, ReaderInv

\* What a reader has got is then its own answer.
LEMMA StreamImpliesMatch == StreamSound => AnswersMatch
BY DEF StreamSound, StreamInv, Undisturbed, AllOwn, AnswersMatch

\* Whatever the commands, the cuts of the chunks and the server's answers, every
\* command gets the lines of its own answer, in order, as long as no reader timed
\* out and LOGOUT was not written under one (client.ts:320-372, 418-468).
THEOREM AnswersAlwaysMatch == Spec => []AnswersMatch
BY StreamInit, StreamSoundStep, StreamImpliesMatch, PTL DEF Spec

\* What the run of MCSieveClient checks of the connection.
THEOREM WireIsSound == Spec => []WireSound
BY AnswersAlwaysMatch, ClosedClientIsFinal, PTL DEF WireSound

=============================================================================

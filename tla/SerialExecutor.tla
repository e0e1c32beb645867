--------------------------- MODULE SerialExecutor ---------------------------
(***************************************************************************)
(* What the filters handlers rely on when they call SievePool.run: each    *)
(* call is executed once, and the calls of a session one after the other,  *)
(* in the order in which they were made, while sessions do not wait for    *)
(* each other.  Connections, errors and retries are none of its business.  *)
(***************************************************************************)

CONSTANTS
  Sids,    \* sessions
  Tasks    \* calls

VARIABLES
  sidOf,     \* sidOf[t]: the session of t
  earlier,   \* earlier[t]: the calls made before t
  status     \* status[t]: "unmade", "queued", "active" or "over"

vars == <<sidOf, earlier, status>>

Init ==
  /\ sidOf \in [Tasks -> Sids]
  /\ earlier = [t \in Tasks |-> {}]
  /\ status = [t \in Tasks |-> "unmade"]

Submit(t) ==
  /\ status[t] = "unmade"
  /\ status' = [status EXCEPT ![t] = "queued"]
  /\ earlier' = [earlier EXCEPT ![t] = {u \in Tasks : status[u] # "unmade"}]
  /\ UNCHANGED sidOf

Begin(t) ==
  /\ status[t] = "queued"
  /\ \A u \in earlier[t] : sidOf[u] = sidOf[t] => status[u] = "over"
  /\ status' = [status EXCEPT ![t] = "active"]
  /\ UNCHANGED <<sidOf, earlier>>

End(t) ==
  /\ status[t] = "active"
  /\ status' = [status EXCEPT ![t] = "over"]
  /\ UNCHANGED <<sidOf, earlier>>

Next == \E t \in Tasks : Submit(t) \/ Begin(t) \/ End(t)

Spec == Init /\ [][Next]_vars

=============================================================================

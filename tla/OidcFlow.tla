------------------------------ MODULE OidcFlow ------------------------------
(***************************************************************************)
(* Login and reauthentication at the identity provider: the routes start   *)
(* and callback of server/api/auth/oidc/, the flow kept in a cookie        *)
(* (server/lib/auth/oidc/flow.ts), and the confirmation of a sensitive     *)
(* action by a recent reauthentication (server/lib/sieve/).                *)
(*                                                                         *)
(* One browser with several tabs.  Its two cookies are sent with a request *)
(* and change when a response arrives, so that two callbacks in flight may *)
(* carry the same flow, and the answer of one may erase the flow of a      *)
(* later demand.  The provider hands out one code per flow and accepts a   *)
(* code once; the URL of a callback can be opened again.                   *)
(***************************************************************************)
EXTENDS Integers

CONSTANTS
  Flows,      \* demands, each started once
  Callbacks,  \* requests of the callback route
  Sids,       \* identifiers of sessions
  Users,      \* the addresses the provider may answer
  Nobody,     \* none of them
  TwoFactor,  \* those that have a second factor here
  FlowTtl,    \* FLOW_TTL_S
  Skew,       \* CLOCK_SKEW_MS
  Window,     \* SSO_REAUTH_WINDOW_MS
  Latency,    \* bound on the exchange of a code (HTTP_TIMEOUT_S)
  Never,      \* a time before every other
  MaxTime     \* bound on the clock

VARIABLES
  now,       \* the clock
  flowJar,   \* the flow cookie of the browser: a set of at most one flow
  jar,       \* its session cookie: a session, a pending login, or neither
  flow,      \* flow[f]: whether it is started, when, and for a reauthentication
  code,      \* code[f]: who was identified for f, when, and what became of the code
  idp,       \* the session of the browser at the provider
  call,      \* call[c]: the state of a request of the callback route
  session,   \* session[s]: owner, flow and last reauthentication of a session
  pending    \* flows whose login awaits a second factor

vars == <<now, flowJar, jar, flow, code, idp, call, session, pending>>

\* Times are numbers; the module is used through instances, which prove or check it.
BoundsAssumption == {FlowTtl, Skew, Window, Latency, MaxTime} \subseteq Nat

Times == 0..MaxTime
NoCookie == [kind |-> "none"]
Cookie == {NoCookie} \union [kind : {"session"}, sid : Sids] \union [kind : {"pending"}, flow : Flows]

\* A request of the callback route that is over, or has not begun.
NoCall(pc) == [pc |-> pc]

Call ==
  {NoCall("idle"), NoCall("done")}
    \union [pc : {"exchange"}, url : Flows, flow : Flows, jar : Cookie, since : Times]
    \union [pc : {"verify"}, flow : Flows]
    \union [pc : {"reply"}, set : SUBSET Cookie]

TypeOK ==
  /\ now \in Times
  /\ flowJar \in SUBSET Flows /\ \A f, g \in flowJar : f = g
  /\ jar \in Cookie
  /\ flow \in [Flows -> [started : BOOLEAN, at : Times, reauth : BOOLEAN]]
  /\ code \in [Flows -> [state : {"none", "issued", "used", "refused"}, user : Users \union {Nobody}, at : Times]]
  /\ idp \in [user : Users \union {Nobody}, at : Times]
  /\ call \in [Callbacks -> Call]
  /\ session \in [Sids -> [state : {"none", "live", "gone"}, user : Users \union {Nobody},
                           flow : SUBSET Flows, reauthAt : Times \union {Never}]]
  /\ pending \in SUBSET Flows

Init ==
  /\ now = 0 /\ flowJar = {} /\ jar = NoCookie
  /\ flow = [f \in Flows |-> [started |-> FALSE, at |-> 0, reauth |-> FALSE]]
  /\ code = [f \in Flows |-> [state |-> "none", user |-> Nobody, at |-> 0]]
  /\ idp = [user |-> Nobody, at |-> 0]
  /\ call = [c \in Callbacks |-> NoCall("idle")]
  /\ session = [s \in Sids |-> [state |-> "none", user |-> Nobody, flow |-> {}, reauthAt |-> Never]]
  /\ pending = {}

Tick ==
  /\ now < MaxTime
  /\ \A c \in Callbacks : call[c].pc = "exchange" => now - call[c].since < Latency
  /\ now' = now + 1
  /\ UNCHANGED <<flowJar, jar, flow, code, idp, call, session, pending>>

\* The request start: a reauthentication is only for a session opened here.
Start(f, reauth) ==
  /\ ~flow[f].started
  /\ flow' = [flow EXCEPT ![f] = [started |-> TRUE, at |-> now, reauth |-> reauth /\ jar.kind = "session"]]
  /\ flowJar' = {f}
  /\ UNCHANGED <<now, jar, code, idp, call, session, pending>>

\* The provider identifies the user, asked for it or not.
Identify(f, u) ==
  /\ flow[f].started /\ code[f].state = "none"
  /\ idp' = [user |-> u, at |-> now]
  /\ code' = [code EXCEPT ![f] = [state |-> "issued", user |-> u, at |-> now]]
  /\ UNCHANGED <<now, flowJar, jar, flow, call, session, pending>>

\* It answers from its own session, as it may for a login; some ignore prompt=login.
Remember(f) ==
  /\ flow[f].started /\ code[f].state = "none" /\ idp.user # Nobody
  /\ code' = [code EXCEPT ![f] = [state |-> "issued", user |-> idp.user, at |-> idp.at]]
  /\ UNCHANGED <<now, flowJar, jar, flow, idp, call, session, pending>>

\* The user gives up: error=access_denied.
Cancel(f) ==
  /\ flow[f].started /\ code[f].state = "none"
  /\ code' = [code EXCEPT ![f].state = "refused"]
  /\ UNCHANGED <<now, flowJar, jar, flow, idp, call, session, pending>>

\* takeFlow() of the cookies of a request.
Taken == {f \in flowJar : now - flow[f].at <= FlowTtl}

\* A request answers with the session cookie of ks, or none.
Reply(c, ks) == call' = [call EXCEPT ![c] = [pc |-> "reply", set |-> ks]]

\* The callback route is called on the URL of flow f, whatever the cookie says.
Callback(c, f) ==
  /\ call[c].pc = "idle" /\ code[f].state # "none"
  /\ \/ Taken = {} /\ Reply(c, {})
     \/ Taken # {} /\ code[f].state = "refused" /\ Reply(c, {})
     \/ /\ code[f].state # "refused"
        /\ \E g \in Taken : call' = [call EXCEPT ![c] =
             [pc |-> "exchange", url |-> f, flow |-> g, jar |-> jar, since |-> now]]
  /\ UNCHANGED <<now, flowJar, jar, flow, code, idp, session, pending>>

\* exchangeCode() succeeds: state, nonce and PKCE of the cookie against the URL, and a
\* code the provider accepts once.
Matches(c) == call[c].url = call[c].flow /\ code[call[c].flow].state = "issued"

\* The state or the code is refused, the provider does not answer, or the limit of
\* failures of the address is reached.
ExchangeFails(c) ==
  /\ call[c].pc = "exchange"
  /\ Reply(c, {})
  /\ \/ UNCHANGED code
     \/ Matches(c) /\ code' = [code EXCEPT ![call[c].flow].state = "used"]
  /\ UNCHANGED <<now, flowJar, jar, flow, idp, session, pending>>

\* Whether the user was identified for this demand.
Recent(f) == code[f].at >= flow[f].at - Skew

\* sameUser, for cookie k of the request.
SameUser(k, f) == k.kind = "session" /\ session[k.sid].user = code[f].user

\* The code of a reauthentication is exchanged: markReauth() and updateOAuth().
Reauthenticate(c) ==
  /\ call[c].pc = "exchange" /\ Matches(c) /\ flow[call[c].flow].reauth
  /\ LET f == call[c].flow
         k == call[c].jar
     IN  /\ code' = [code EXCEPT ![f].state = "used"]
         /\ session' = IF SameUser(k, f) /\ Recent(f) /\ session[k.sid].state = "live"
                       THEN [session EXCEPT ![k.sid].reauthAt = now]
                       ELSE session
  /\ Reply(c, {})
  /\ UNCHANGED <<now, flowJar, jar, flow, idp, pending>>

\* The code of a login is exchanged; the mailbox of the user is tried next.
Login(c) ==
  /\ call[c].pc = "exchange" /\ Matches(c) /\ ~flow[call[c].flow].reauth
  /\ code' = [code EXCEPT ![call[c].flow].state = "used"]
  /\ call' = [call EXCEPT ![c] = [pc |-> "verify", flow |-> call[c].flow]]
  /\ UNCHANGED <<now, flowJar, jar, flow, idp, session, pending>>

\* A session of the user of flow f is created.
Open(s, f) ==
  /\ session[s].state = "none"
  /\ session' = [session EXCEPT ![s] = [state |-> "live", user |-> code[f].user, flow |-> {f}, reauthAt |-> Never]]

\* The mailbox accepts the user: a session, or a login that awaits a second factor.
Accepted(c) ==
  /\ call[c].pc = "verify"
  /\ LET f == call[c].flow IN
       \/ /\ code[f].user \notin TwoFactor
          /\ \E s \in Sids : Open(s, f) /\ Reply(c, {[kind |-> "session", sid |-> s]})
          /\ UNCHANGED pending
       \/ /\ code[f].user \in TwoFactor
          /\ pending' = pending \union {f}
          /\ Reply(c, {[kind |-> "pending", flow |-> f]})
          /\ UNCHANGED session
  /\ UNCHANGED <<now, flowJar, jar, flow, code, idp>>

\* The mailbox refuses the user, or does not answer.
Refused(c) ==
  /\ call[c].pc = "verify"
  /\ Reply(c, {})
  /\ UNCHANGED <<now, flowJar, jar, flow, code, idp, session, pending>>

\* A response arrives and changes the cookies, or is lost with the tab that awaited it.
Respond(c) ==
  /\ call[c].pc = "reply"
  /\ call' = [call EXCEPT ![c] = NoCall("done")]
  /\ \/ /\ flowJar' = {}
        /\ IF call[c].set = {} THEN UNCHANGED jar ELSE jar' \in call[c].set
     \/ UNCHANGED <<flowJar, jar>>
  /\ UNCHANGED <<now, flow, code, idp, session, pending>>

\* Fault: the pending login is not consumed.
SecondFactorKept ==
  /\ jar.kind = "pending" /\ jar.flow \in pending
  /\ \E s \in Sids :
       /\ Open(s, jar.flow)
       /\ \/ jar' = [kind |-> "session", sid |-> s]
          \/ UNCHANGED jar
  /\ UNCHANGED <<now, flowJar, flow, code, idp, call, pending>>

\* The second factor is given (2fa.post.ts); the answer may be lost.
SecondFactor ==
  /\ jar.kind = "pending" /\ jar.flow \in pending
  /\ pending' = pending \ {jar.flow}
  /\ \E s \in Sids :
       /\ Open(s, jar.flow)
       /\ \/ jar' = [kind |-> "session", sid |-> s]
          \/ UNCHANGED jar
  /\ UNCHANGED <<now, flowJar, flow, code, idp, call>>

\* The session of the browser ends: a logout, or the limits of its lifetime.
Logout ==
  /\ jar.kind = "session" /\ session[jar.sid].state = "live"
  /\ session' = [session EXCEPT ![jar.sid].state = "gone"]
  /\ \/ jar' = NoCookie
     \/ UNCHANGED jar
  /\ UNCHANGED <<now, flowJar, flow, code, idp, call, pending>>

Next ==
  \/ Tick \/ SecondFactor \/ Logout
  \/ \E f \in Flows :
       \/ \E reauth \in BOOLEAN : Start(f, reauth)
       \/ \E u \in Users : Identify(f, u)
       \/ Remember(f) \/ Cancel(f)
       \/ \E c \in Callbacks : Callback(c, f)
  \/ \E c \in Callbacks :
       ExchangeFails(c) \/ Reauthenticate(c) \/ Login(c) \/ Accepted(c) \/ Refused(c) \/ Respond(c)

Spec == Init /\ [][Next]_vars

----------------------------------------------------------------------------
\* hasRecentSsoReauth(): a sensitive action of session s is allowed without a password.
Confirmed(s) ==
  /\ session[s].state = "live" /\ session[s].reauthAt # Never
  /\ session[s].reauthAt <= now /\ now - session[s].reauthAt < Window

(* A code opens one session, however often its callback is called, whether *)
(* answers are lost, and with a second factor in between.                  *)
OneSessionPerCode ==
  \A s, t \in Sids : session[s].flow \intersect session[t].flow # {} => s = t

(* While the actions of a session are confirmed, its owner was identified  *)
(* by the provider not long ago: the window, the life of a demand, the     *)
(* tolerance between the clocks and the exchange of the code bound how     *)
(* long, even where the provider answers from memory or the session was    *)
(* left for another user's.                                                *)
ConfirmedByOwner ==
  \A s \in Sids : Confirmed(s) =>
    \E f \in Flows :
      /\ flow[f].reauth /\ code[f].state = "used" /\ code[f].user = session[s].user
      /\ now - code[f].at < Window + FlowTtl + Skew + Latency
=============================================================================

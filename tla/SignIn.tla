-------------------------------- MODULE SignIn --------------------------------
(***************************************************************************)
(* Signing in with GitHub: the server's oauth_logins, cli_login_codes and  *)
(* sessions, the browsers in between, and `sotto login` with its loopback  *)
(* listener and keychain.  Each statement of a handler commits alone, so a *)
(* callback and an exchange may stop between consuming what they were      *)
(* given and answering.                                                    *)
(*                                                                         *)
(* A flow is one run of `sotto login`, named by the random cli_state it    *)
(* made; "web" stands for a login begun on the web site, whose callback    *)
(* sets a cookie at once.  (Command lines older than login codes are       *)
(* answered like the web and not shown apart.)  Whatever runs out of time  *)
(* is removed: no handler tells an expired row from a missing one.         *)
(***************************************************************************)
EXTENDS Naturals, FiniteSets

CONSTANTS
    Users,              \* accounts at the provider
    Flows,              \* runs of `sotto login`
    MaxIds              \* bound on login rows, codes and sessions together

ASSUME FlowsAssumption == "web" \notin Flows

VARIABLES
    ids,                \* identifiers handed out so far
    logins,             \* oauth_logins: [id, flow]
    codes,              \* cli_login_codes: [id, login, flow, user]
    sessions,           \* sessions ever issued: [id, login, flow, user, live]
    requests,           \* handlers that consumed their row: [do, login, flow, user]
    redirects,          \* what browsers were told: [code, flow]
    flow,               \* each run of `sotto login`: [at, code, token]
    stored              \* the keychain's server-session, 0 when empty

serverVars == <<ids, logins, codes, sessions, requests>>
signInVars == <<serverVars, redirects, flow, stored>>

Become(f, at) == flow' = [flow EXCEPT ![f].at = at]

LiveSession(s) == s \in sessions /\ s.live

SessionOf(token) == {s \in sessions : s.id = token /\ s.live}

SignInInit ==
    /\ ids = 0
    /\ logins = {}
    /\ codes = {}
    /\ sessions = {}
    /\ requests = {}
    /\ redirects = {}
    /\ flow = [f \in Flows |-> [at |-> "idle", code |-> 0, token |-> 0]]
    /\ stored = 0

-----------------------------------------------------------------------------
(* The server *)

Fresh == ids < MaxIds /\ ids' = ids + 1

(* GET /auth/github/login, each time a browser opens the address: also      *)
(* again, and also after the run that printed it has ended.                 *)
Login(f) ==
    /\ Fresh
    /\ f # "web" => flow[f].at # "idle"
    /\ logins' = logins \cup {[id |-> ids + 1, flow |-> f]}
    /\ UNCHANGED <<codes, sessions, requests, redirects, flow, stored>>

(* A slip the runs notice: the callback only looks the row up.              *)
KeptLogins(r) == logins

(* The callback deletes the row it answers.                                 *)
UsedUp(r) == logins \ {r}

(* GET /auth/github/callback takes the row of its state.  A browser may     *)
(* come back any number of times, as any user of the provider.              *)
Callback(r, u) ==
    /\ logins' = UsedUp(r)
    /\ requests' = requests \cup
           {[do |-> "callback", login |-> r.id, flow |-> r.flow, user |-> u]}
    /\ UNCHANGED <<ids, codes, sessions, redirects, flow, stored>>

Answer(q) == requests' = requests \ {q}

NewSession(q) ==
    /\ Fresh
    /\ sessions' = sessions \cup
           {[id |-> ids + 1, login |-> q.login, flow |-> q.flow,
             user |-> q.user, live |-> TRUE]}

(* The provider confirmed the user and the login came from the site.        *)
IssueCookie(q) ==
    /\ q.do = "callback"
    /\ q.flow = "web"
    /\ NewSession(q)
    /\ Answer(q)
    /\ UNCHANGED <<logins, codes, redirects, flow, stored>>

(* Or from a command line: a code bound to its cli_state goes out in the    *)
(* redirect; the session waits for the exchange.                            *)
MintCode(q) ==
    /\ q.do = "callback"
    /\ q.flow # "web"
    /\ Fresh
    /\ codes' = codes \cup {[id |-> ids + 1, login |-> q.login,
                             flow |-> q.flow, user |-> q.user]}
    /\ redirects' = redirects \cup {[code |-> ids + 1, flow |-> q.flow]}
    /\ Answer(q)
    /\ UNCHANGED <<logins, sessions, flow, stored>>

(* POST /auth/github/exchange deletes the code if the caller's state is the *)
(* one it was minted for ...                                                *)
Matching(code, f) == {c \in codes : c.id = code /\ c.flow = f}

TakeCode(f, c) ==
    /\ c \in Matching(flow[f].code, f)
    /\ codes' = codes \ {c}
    /\ requests' = requests \cup
           {[do |-> "exchange", login |-> c.login, flow |-> f, user |-> c.user]}
    /\ UNCHANGED <<ids, logins, sessions, redirects, stored>>

(* ... and then issues the session; the answer may not reach the caller.    *)
IssueToken(q, heard) ==
    /\ q.do = "exchange"
    /\ NewSession(q)
    /\ Answer(q)
    /\ IF heard /\ flow[q.flow].at = "exchange"
       THEN flow' = [flow EXCEPT ![q.flow].at = "verify",
                                 ![q.flow].token = ids + 1]
       ELSE UNCHANGED flow
    /\ UNCHANGED <<logins, codes, redirects, stored>>

(* The provider refuses or does not answer, or the server stops.            *)
GiveUp(q) ==
    /\ Answer(q)
    /\ UNCHANGED <<ids, logins, codes, sessions, redirects, flow, stored>>

(* Ten minutes pass for a login, the code's lifetime for a code.            *)
Expire ==
    /\ \/ \E r \in logins : logins' = logins \ {r} /\ UNCHANGED codes
       \/ \E c \in codes : codes' = codes \ {c} /\ UNCHANGED logins
    /\ UNCHANGED <<ids, sessions, requests, redirects, flow, stored>>

(* POST /auth/logout of a session, or its thirty days are over.             *)
Revoke(s) ==
    /\ LiveSession(s)
    /\ sessions' = (sessions \ {s}) \cup {[s EXCEPT !.live = FALSE]}
    /\ UNCHANGED <<ids, logins, codes, requests, redirects, flow, stored>>

-----------------------------------------------------------------------------
(* `sotto login` and `sotto logout` *)

Authorize(f) ==
    /\ flow[f].at = "idle"
    /\ Become(f, "waiting")
    /\ UNCHANGED <<serverVars, redirects, stored>>

(* A redirect reaches the listener of f: as the system hands ports out      *)
(* again, it may be one meant for an earlier run.  parse_callback takes it  *)
(* only with the state of f; anything else is answered 400 and the listener *)
(* waits on.                                                                *)
ParseCallback(f, r) ==
    /\ flow[f].at = "waiting"
    /\ r.flow = f
    /\ flow' = [flow EXCEPT ![f].at = "code", ![f].code = r.code]
    /\ UNCHANGED <<serverVars, redirects, stored>>

ExchangeCode(f) ==
    /\ flow[f].at = "code"
    /\ Become(f, "exchange")
    /\ \E c \in codes : TakeCode(f, c)

(* GET /auth/me under the new token, before it is kept.                     *)
Verify(f) ==
    /\ flow[f].at = "verify"
    /\ SessionOf(flow[f].token) # {}
    /\ Become(f, "store")
    /\ UNCHANGED <<serverVars, redirects, stored>>

StoreSession(f) ==
    /\ flow[f].at = "store"
    /\ stored' = flow[f].token
    /\ Become(f, "done")
    /\ UNCHANGED <<serverVars, redirects>>

(* Five minutes without a callback.                                         *)
TimeOut(f) ==
    /\ flow[f].at = "waiting"
    /\ Become(f, "timed out")
    /\ UNCHANGED <<serverVars, redirects, stored>>

(* Any other error, or the end of the process.                              *)
Fail(f) ==
    /\ flow[f].at \in {"waiting", "code", "exchange", "verify", "store"}
    /\ Become(f, "failed")
    /\ UNCHANGED <<serverVars, redirects, stored>>

(* `sotto logout` empties the keychain and does not call the server.        *)
Logout ==
    /\ stored # 0
    /\ stored' = 0
    /\ UNCHANGED <<serverVars, redirects, flow>>

-----------------------------------------------------------------------------

ServerStep ==
    \/ \E f \in Flows \cup {"web"} : Login(f)
    \/ \E r \in logins, u \in Users : Callback(r, u)
    \/ \E q \in requests :
          \/ IssueCookie(q)
          \/ MintCode(q)
          \/ \E heard \in BOOLEAN : IssueToken(q, heard)
          \/ GiveUp(q)
    \/ Expire
    \/ \E s \in sessions : Revoke(s)

CommandStep(f) ==
    \/ Authorize(f)
    \/ \E r \in redirects : ParseCallback(f, r)
    \/ ExchangeCode(f)
    \/ Verify(f)
    \/ StoreSession(f)
    \/ TimeOut(f)
    \/ Fail(f)

SignInNext == ServerStep \/ Logout \/ \E f \in Flows : CommandStep(f)

-----------------------------------------------------------------------------
(* Properties *)

(* One login gives one session at most, however often a browser comes back  *)
(* to the callback and wherever a handler stops; a run that gave up waiting *)
(* leaves none behind; and what a run keeps was issued to itself, though    *)
(* redirects of other runs reach its listener.                              *)
LoginOnce ==
    /\ \A s, t \in sessions : s.login = t.login => s.id = t.id
    /\ \A s \in sessions :
          s.flow \in Flows => flow[s.flow].at \notin {"idle", "timed out"}
    /\ \A f \in Flows, s \in sessions : flow[f].token = s.id => s.flow = f

=============================================================================

------------------------------ MODULE AuthSession ------------------------------
(***************************************************************************)
(* Signing in and out (src/features/auth): the cookie endpoints over the     *)
(* AuthService of the idm crate, the access tokens and the audit events.      *)
(*                                                                         *)
(* Requests of several browsers run at the same time.  Each awaits the idm    *)
(* call, for admin_login the call that closes the session again, and the      *)
(* write of its audit event; it can be dropped at any await (timeout, client   *)
(* gone).  Every idm call is one step.  A session is its number; it has one    *)
(* refresh token and one access token, which nobody looks up any more: it is   *)
(* good until it expires.                                                     *)
(***************************************************************************)
EXTENDS Naturals, FiniteSets, Sequences

CONSTANTS
    Users,
    Browsers,
    Handlers,       \* requests in flight at a time
    Ttl, Leeway,    \* lifetime of an access token, grace of its verification
    MaxSessions,    \* bound: sessions ever opened
    MaxAccepted,    \* bound: requests that reach a handler
    MaxTime         \* bound: ticks of the clock

ASSUME SessionAssumption ==
    /\ Ttl \in Nat /\ Leeway \in Nat
    /\ MaxSessions \in Nat /\ MaxAccepted \in Nat /\ MaxTime \in Nat

None == 0

Opening == {"register", "login", "admin_login", "refresh"}
RevokingAll == {"logout_all", "delete_me", "change_password"}
Protected == RevokingAll \cup {"me"}
Ops == Opening \cup Protected \cup {"logout"}

EventOf == [op \in Ops \ {"me"} |->
    CASE op = "register"                 -> "registered"
      [] op \in {"login", "admin_login"} -> "login_succeeded"
      [] op = "refresh"                  -> "refreshed"
      [] op = "logout"                   -> "logged_out"
      [] op = "delete_me"                -> "account_deleted"
      [] op = "change_password"          -> "password_changed"
      [] OTHER                           -> op]

\* The events of one session, and those of a user or of an unknown caller.
SessionEvents == {EventOf[op] : op \in Opening \cup {"logout"}}
OtherEvents == {EventOf[op] : op \in RevokingAll} \cup {"login_failed", "admin_access_denied"}

VARIABLES
    account,    \* account[u]: "absent", "live" or "deleted"
    sessions,   \* sessions[n]: what idm holds of session n, and its ancestor
    jar,        \* jar[b]: the two cookies of browser b
    held,       \* held[b]: access tokens b was given, usable as Bearer
    req,        \* req[h]: the request handler h serves
    events,     \* the auth events in idm.outbox
    clock,
    accepted,   \* requests let in so far
    unaudited,  \* history: sessions whose event could not be written
    denied,     \* history: sessions of an admin_login without admin:login,
    refused,    \*   and those it has answered 403 for
    cut         \* history: cut[u]: the last revocation of all sessions of u

idm == <<account, sessions>>
client == <<jar, held>>
history == <<unaudited, denied, refused, cut>>
vars == <<idm, client, req, events, clock, accepted, history>>

Tokens == 1..Len(sessions)

\* root is the sign-in a chain of refreshes began with.
Session == [user : Users, door : Opening, root : 1..MaxSessions,
            opened : 0..MaxTime, live : BOOLEAN]

Live(s) == sessions[s].live

Idle == [phase |-> "idle"]

NoCookies == [access |-> None, refresh |-> None]

Init ==
    /\ account \in [Users -> {"absent", "live"}]
    /\ sessions = << >>
    /\ jar = [b \in Browsers |-> NoCookies]
    /\ held = [b \in Browsers |-> {}]
    /\ req = [h \in Handlers |-> Idle]
    /\ events = {}
    /\ clock = 0
    /\ accepted = 0
    /\ unaudited = {}
    /\ denied = {}
    /\ refused = {}
    /\ cut = [u \in Users |-> [upTo |-> 0, at |-> 0]]

-------------------------------------------------------------------------------
(* Tokens and cookies.                                                       *)

\* Mutant: verification without exp.
VerifiesForEver(s) == TRUE

\* verify_with_scope: a signature of ours and exp, within the leeway; neither
\* the session nor the account is looked at.
Verifies(s) == clock <= sessions[s].opened + Ttl + Leeway

\* authenticate: the access cookie, even a useless one, and only without it a
\* Bearer token.
Identities(b) ==
    LET presented == IF jar[b].access # None THEN {jar[b].access} ELSE held[b] \cup {None}
    IN  {IF s # None /\ Verifies(s) THEN s ELSE None : s \in presented}

\* Both cookies of one outcome, in one response.
SetCookies(b, s) ==
    /\ jar' = [jar EXCEPT ![b] = [access |-> s, refresh |-> s]]
    /\ held' = [held EXCEPT ![b] = @ \cup {s}]

ClearCookies(b) ==
    /\ jar' = [jar EXCEPT ![b] = NoCookies]
    /\ UNCHANGED held

\* The browser drops the access cookie at its Max-Age.
Tick ==
    /\ clock < MaxTime
    /\ clock' = clock + 1
    /\ jar' = [b \in Browsers |->
                IF jar[b].access # None /\ clock' >= sessions[jar[b].access].opened + Ttl
                THEN [jar[b] EXCEPT !.access = None]
                ELSE jar[b]]
    /\ UNCHANGED <<idm, held, req, events, accepted, history>>

-------------------------------------------------------------------------------
(* The handlers.                                                             *)

At(h, phase) == req[h].phase = phase

Goto(h, phase) == req' = [req EXCEPT ![h].phase = phase]

Finish(h) == req' = [req EXCEPT ![h] = Idle]

\* The extractors: what of the cookies an operation reads, and whether it is
\* turned away (401) without it.  An access token is accepted at its time.
Wanted(op, b) ==
    CASE op \in Protected          -> [token : Identities(b) \ {None}, refresh : {None}]
      [] op = "refresh"            -> [token : {None}, refresh : {jar[b].refresh} \ {None}]
      [] op = "logout"             -> [token : {None}, refresh : {jar[b].refresh}]
      [] OTHER                     -> [token : {None}, refresh : {None}]

Receive(h, b, op) ==
    /\ At(h, "idle")
    /\ accepted < MaxAccepted
    /\ accepted' = accepted + 1
    /\ \E given \in Wanted(op, b), u \in Users :
        /\ given.token # None => u = sessions[given.token].user
        /\ req' = [req EXCEPT ![h] =
            [phase |-> "call", op |-> op, browser |-> b, user |-> u, token |-> given.token,
             refresh |-> given.refresh, session |-> None,
             at |-> IF given.token = None THEN 0 ELSE clock]]
    /\ UNCHANGED <<idm, client, events, clock, history>>

\* A sign-in starts a chain.
NewSession(u, door, root) ==
    [user |-> u, door |-> door,
     root |-> IF root = None THEN Len(sessions) + 1 ELSE root,
     opened |-> clock, live |-> TRUE]

OpenAfter(others, u, door, root) ==
    /\ Len(sessions) < MaxSessions
    /\ sessions' = Append(others, NewSession(u, door, root))

End(S) == [s \in Tokens |-> [sessions[s] EXCEPT !.live = @ /\ s \notin S]]

\* The session is there; what follows waits for the audit event, for
\* admin_login first for the gate.
Opened(h) == req' = [req EXCEPT ![h].session = Len(sessions) + 1,
                                ![h].phase = IF req[h].op = "admin_login" THEN "gate" ELSE "emit"]

Register(h) ==
    /\ At(h, "call") /\ req[h].op = "register"
    /\ account[req[h].user] = "absent"
    /\ account' = [account EXCEPT ![req[h].user] = "live"]
    /\ OpenAfter(sessions, req[h].user, "register", None)
    /\ Opened(h)
    /\ UNCHANGED <<client, events, clock, accepted, history>>

Login(h) ==
    /\ At(h, "call") /\ req[h].op \in {"login", "admin_login"}
    /\ account[req[h].user] = "live"
    /\ OpenAfter(sessions, req[h].user, req[h].op, None)
    /\ Opened(h)
    /\ UNCHANGED <<account, client, events, clock, accepted, history>>

\* Rotation: the old session ends as the new one opens.
Refresh(h) ==
    LET old == req[h].refresh
    IN  /\ At(h, "call") /\ req[h].op = "refresh"
        /\ Live(old)
        /\ account[sessions[old].user] = "live"
        /\ OpenAfter(End({old}), sessions[old].user, "refresh", sessions[old].root)
        /\ Opened(h)
        /\ UNCHANGED <<account, client, events, clock, accepted, history>>

\* Mutant: every logout with a cookie is audited, and ends no session any more.
LogoutTrusting(h) ==
    LET s == req[h].refresh
    IN  /\ At(h, "call") /\ req[h].op = "logout"
        /\ IF s # None THEN req' = [req EXCEPT ![h].session = s, ![h].phase = "emit"]
                       ELSE Goto(h, "respond")
        /\ UNCHANGED <<idm, client, events, clock, accepted, history>>

\* Mutant: the logout is audited without looking for the session it has ended.
LogoutBlind(h) ==
    LET s == req[h].refresh
        ended == IF s # None /\ Live(s) THEN {s} ELSE {}
    IN  /\ At(h, "call") /\ req[h].op = "logout"
        /\ sessions' = End(ended)
        /\ req' = [req EXCEPT ![h].session = IF ended = {} THEN None ELSE s, ![h].phase = "emit"]
        /\ UNCHANGED <<account, client, events, clock, accepted, history>>

\* Some(session) is audited; without a cookie or an active session the answer is
\* the same and there is no event.
Logout(h) ==
    LET s == req[h].refresh
    IN  /\ At(h, "call") /\ req[h].op = "logout"
        /\ IF s # None /\ Live(s)
           THEN /\ sessions' = End({s})
                /\ req' = [req EXCEPT ![h].session = s, ![h].phase = "emit"]
           ELSE Goto(h, "respond") /\ UNCHANGED sessions
        /\ UNCHANGED <<account, client, events, clock, accepted, history>>

\* logout_all, change_password and delete_me with the right password.
RevokeAll(h) ==
    LET u == req[h].user
    IN  /\ At(h, "call") /\ req[h].op \in RevokingAll
        /\ req[h].op # "logout_all" => account[u] = "live"
        /\ sessions' = End({s \in Tokens : sessions[s].user = u})
        /\ account' = IF req[h].op = "delete_me" THEN [account EXCEPT ![u] = "deleted"] ELSE account
        /\ cut' = [cut EXCEPT ![u] = [upTo |-> Len(sessions), at |-> clock]]
        /\ req' = [req EXCEPT ![h].token = None, ![h].at = 0, ![h].phase = "emit"]
        /\ UNCHANGED <<client, events, clock, accepted, unaudited, denied, refused>>

\* get_me, update_me: no session changes.
Me(h) ==
    /\ At(h, "call") /\ req[h].op = "me"
    /\ Finish(h)
    /\ UNCHANGED <<idm, client, events, clock, accepted, history>>

\* Wrong credentials at one of the logins are audited.
LoginFails(h) ==
    /\ At(h, "call") /\ req[h].op \in {"login", "admin_login"}
    /\ Goto(h, "deny")
    /\ UNCHANGED <<idm, client, events, clock, accepted, history>>

\* A wrong password elsewhere, a taken name, a dead refresh token, an error of the
\* store: answered without cookies and without an event.
CallFails(h) ==
    /\ At(h, "call")
    /\ Finish(h)
    /\ UNCHANGED <<idm, client, events, clock, accepted, history>>

-------------------------------------------------------------------------------
(* admin_login behind the password.                                          *)

\* perms_for(outcome.user.roles), the roles just read, has admin:login.
GatePasses(h) ==
    /\ At(h, "gate")
    /\ Goto(h, "emit")
    /\ UNCHANGED <<idm, client, events, clock, accepted, history>>

\* Mutant: the denied session is forgotten.
GateForgets(h) ==
    /\ At(h, "gate")
    /\ denied' = denied \cup {req[h].session}
    /\ Goto(h, "deny")
    /\ UNCHANGED <<idm, client, events, clock, accepted, unaudited, refused, cut>>

GateDenies(h) ==
    /\ At(h, "gate")
    /\ denied' = denied \cup {req[h].session}
    /\ Goto(h, "close")
    /\ UNCHANGED <<idm, client, events, clock, accepted, unaudited, refused, cut>>

Close(h) ==
    /\ At(h, "close")
    /\ sessions' = End({req[h].session})
    /\ Goto(h, "deny")
    /\ UNCHANGED <<account, client, events, clock, accepted, history>>

Denial(h) ==
    [type |-> IF req[h].session = None THEN "login_failed" ELSE "admin_access_denied",
     session |-> None]

\* The event of a refusal names no session, its write may fail; 401 or 403 without
\* cookies.
Deny(h) ==
    /\ At(h, "deny")
    /\ events' \in {events, events \cup {Denial(h)}}
    /\ refused' = refused \cup ({req[h].session} \ {None})
    /\ Finish(h)
    /\ UNCHANGED <<idm, client, clock, accepted, unaudited, denied, cut>>

-------------------------------------------------------------------------------
(* The audit event and the answer.                                           *)

Event(h) == [type |-> EventOf[req[h].op], session |-> req[h].session]

Emit(h) ==
    /\ At(h, "emit")
    /\ events' = events \cup {Event(h)}
    /\ Goto(h, "respond")
    /\ UNCHANGED <<idm, client, clock, accepted, history>>

\* No outbox, or its write fails: a warning, and the request goes on.
EmitFails(h) ==
    /\ At(h, "emit")
    /\ unaudited' = unaudited \cup ({req[h].session} \ {None})
    /\ Goto(h, "respond")
    /\ UNCHANGED <<idm, client, events, clock, accepted, denied, refused, cut>>

Respond(h) ==
    /\ At(h, "respond")
    /\ IF req[h].op \in Opening THEN SetCookies(req[h].browser, req[h].session)
                                ELSE ClearCookies(req[h].browser)
    /\ Finish(h)
    /\ UNCHANGED <<idm, events, clock, accepted, history>>

\* Dropped at an await (timeout, client gone), the call that closes the session
\* fails, or the answer does not arrive.
Abort(h) ==
    /\ ~At(h, "idle")
    /\ Finish(h)
    /\ UNCHANGED <<idm, client, events, clock, accepted, history>>

-------------------------------------------------------------------------------
Handle(h) ==
    \/ Register(h) \/ Login(h) \/ Refresh(h) \/ Logout(h) \/ RevokeAll(h) \/ Me(h)
    \/ LoginFails(h) \/ CallFails(h)
    \/ GatePasses(h) \/ GateDenies(h) \/ Close(h) \/ Deny(h)
    \/ Emit(h) \/ EmitFails(h) \/ Respond(h)
    \/ Abort(h)

Next ==
    \/ Tick
    \/ \E h \in Handlers :
        \/ Handle(h)
        \/ \E b \in Browsers, op \in Ops : Receive(h, b, op)

Spec == Init /\ [][Next]_vars

-------------------------------------------------------------------------------
Requests ==
    [phase : {"call", "gate", "close", "deny", "emit", "respond"}, op : Ops,
     browser : Browsers, user : Users, token : 0..MaxSessions, refresh : 0..MaxSessions,
     session : 0..MaxSessions, at : 0..MaxTime]

\* Types; a handler holds only tokens that exist.  The events of one session name
\* it, whatever other requests have done to it meanwhile, and no other event does.
TypeOK ==
    /\ account \in [Users -> {"absent", "live", "deleted"}]
    /\ sessions \in Seq(Session) /\ Len(sessions) <= MaxSessions
    /\ jar \in [Browsers -> [access : {None} \cup Tokens, refresh : {None} \cup Tokens]]
    /\ held \in [Browsers -> SUBSET Tokens]
    /\ req \in [Handlers -> Requests \cup {Idle}]
    /\ \A h \in Handlers : ~At(h, "idle") =>
        {req[h].token, req[h].refresh, req[h].session} \subseteq {None} \cup Tokens
    /\ events \subseteq [type : SessionEvents, session : Tokens]
                 \cup [type : OtherEvents, session : {None}]
    /\ clock \in 0..MaxTime
    /\ accepted \in 0..MaxAccepted
    /\ unaudited \subseteq Tokens
    /\ refused \subseteq denied /\ denied \subseteq Tokens
    /\ cut \in [Users -> [upTo : 0..Len(sessions), at : 0..MaxTime]]

\* The comments of admin_login promise no token, no cookie and no orphan session
\* for somebody without admin:login.  The session that was opened to find out
\* reaches no browser and no success event, and once the 403 is answered it is
\* closed, whatever other requests of the user do meanwhile.  (Only a handler
\* that failed in between, and answered something else, leaves it open.)
DeniedLeavesNothing ==
    \A s \in denied :
        /\ \A b \in Browsers : s \notin held[b] /\ s # jar[b].access /\ s # jar[b].refresh
        /\ \A e \in events : e.session # s
        /\ s \in refused => ~Live(s)

\* The audit trail (emit.rs): a browser never holds a session whose opening was
\* not written, unless that very write failed; an opening is written with the
\* event of the door it came through, and a logout only of a session that is
\* over.
AuditTruthful ==
    /\ \A b \in Browsers : \A s \in held[b] \ unaudited :
        [type |-> EventOf[sessions[s].door], session |-> s] \in events
    /\ \A e \in events : e.type \in SessionEvents =>
        IF e.type = "logged_out" THEN ~Live(e.session)
                                 ELSE e.type = EventOf[sessions[e.session].door]

\* An access token outlives its session (token.rs: exp is its only end), but not
\* by more than its lifetime: no request is let in with a token that goes back,
\* through any refreshes, to a sign-in before all sessions of the user were
\* revoked, when that is longer ago.
RevocationBites ==
    \A h \in Handlers : (~At(h, "idle") /\ req[h].token # None) =>
        LET s == sessions[req[h].token]
        IN  s.root <= cut[s.user].upTo => req[h].at <= cut[s.user].at + Ttl + Leeway
===============================================================================

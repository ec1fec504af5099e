--------------------------- MODULE AuthSession_proofs ---------------------------
(***************************************************************************)
(* Proofs about AuthSession for every set of users, browsers and handlers,     *)
(* every lifetime of the tokens and every number of sessions and requests.     *)
(***************************************************************************)
EXTENDS AuthSession, SequenceTheorems, TLAPS

-------------------------------------------------------------------------------
(* The inductive invariant.                                                 *)

Busy(h) == ~At(h, "idle")

\* A browser holds what it was given.
Cookies ==
    \A b \in Browsers :
        /\ {jar[b].access, jar[b].refresh} \subseteq {None} \cup held[b]
        /\ held[b] \cap denied = {}

\* Nothing is from the future, and what goes back to before a revocation is over
\* and was opened before it.
Chains ==
    \A s \in Tokens :
        LET n == sessions[s]
        IN  /\ n.opened <= clock
            /\ n.live => n.root > cut[n.user].upTo
            /\ n.root <= cut[n.user].upTo => n.opened <= cut[n.user].at

\* What the phase of a request says of its session.
Phased ==
    \A h \in Handlers : Busy(h) =>
        LET r == req[h]
        IN  /\ r.at <= clock
            /\ r.phase = "call" => r.session = None
            /\ r.phase \in {"gate", "close"} => r.op = "admin_login"
            /\ r.phase = "deny" => r.op \in {"login", "admin_login"}
            /\ (r.phase \notin {"call", "deny"} /\ r.op \in Opening) => r.session # None
            /\ (r.phase = "emit" /\ r.op = "logout") => r.session # None
            /\ r.op \in Protected => r.session = None
            /\ r.phase # "call" => r.op # "me"
            /\ (r.op \in Opening /\ r.session # None) => sessions[r.session].door = r.op
            /\ (r.op = "logout" /\ r.session # None) => ~Live(r.session) /\ r.session = r.refresh
            /\ (r.phase = "deny" /\ r.session # None) => ~Live(r.session)
            /\ r.op = "refresh" => r.refresh # None

\* Whom the gate has denied.
Gated ==
    \A h \in Handlers : Busy(h) =>
        /\ {req[h].token, req[h].refresh} \cap denied = {}
        /\ req[h].phase \notin {"close", "deny"} => req[h].session \notin denied
        /\ req[h].phase \in {"close", "deny"} => req[h].session \in denied \cup {None}

\* The session a handler has opened is known to nobody else before it answers, and
\* to no event before the gate is passed.
Private ==
    \A h \in Handlers : (Busy(h) /\ req[h].op \in Opening /\ req[h].session # None) =>
        /\ \A b \in Browsers : req[h].session \notin held[b]
        /\ \A g \in Handlers : Busy(g) =>
            /\ req[h].session \notin {req[g].token, req[g].refresh}
            /\ g # h => req[h].session # req[g].session
        /\ req[h].phase \in {"gate", "close", "deny"} => \A e \in events : e.session # req[h].session

\* What is about to be answered was audited, or could not be.
Audited ==
    \A h \in Handlers : (At(h, "respond") /\ req[h].op \in Opening) =>
        \/ req[h].session \in unaudited
        \/ [type |-> EventOf[req[h].op], session |-> req[h].session] \in events

State == TypeOK /\ Cookies /\ Phased /\ Gated /\ Private

IInv == /\ State /\ Chains /\ Audited
        /\ DeniedLeavesNothing /\ AuditTruthful /\ RevocationBites

\* The invariant holds at the start: there is no session.
LEMMA InitInv == Init => IInv
<1> SUFFICES ASSUME Init PROVE IInv
  OBVIOUS
<1> USE SessionAssumption DEF Init
<1>1. \A h \in Handlers : ~Busy(h) /\ At(h, "idle")
  BY DEF Busy, At, Idle
<1>2. TypeOK
  BY <1>1 DEF TypeOK, NoCookies, Idle, None, Tokens
<1>3. Cookies /\ Chains
  BY DEF Cookies, Chains, NoCookies, Tokens
<1>4. Phased /\ Gated /\ Private
  BY <1>1 DEF Phased, Gated, Private
<1>5. Audited
  BY DEF Audited, At, Idle
<1>6. DeniedLeavesNothing /\ AuditTruthful
  BY DEF DeniedLeavesNothing, AuditTruthful
<1>7. RevocationBites
  BY <1>1 DEF RevocationBites
<1> QED
  BY <1>2, <1>3, <1>4, <1>5, <1>6, <1>7 DEF IInv, State

-------------------------------------------------------------------------------
(* Sessions.                                                                *)

\* What no step changes of a session that was opened.
Keeps(rows) ==
    /\ rows \in Seq(Session)
    /\ Len(sessions) <= Len(rows) /\ Len(rows) <= MaxSessions
    /\ \A s \in Tokens :
        /\ rows[s].user = sessions[s].user /\ rows[s].door = sessions[s].door
        /\ rows[s].root = sessions[s].root /\ rows[s].opened = sessions[s].opened
        /\ rows[s].live => sessions[s].live

\* A session.
LEMMA SessionType ==
    ASSUME TypeOK, NEW s \in Tokens
    PROVE  /\ sessions[s] \in Session /\ s \in 1..MaxSessions /\ s \in Nat /\ s # None
           /\ Len(sessions) \in Nat /\ s <= Len(sessions)
<1>1. sessions \in Seq(Session) /\ Len(sessions) <= MaxSessions /\ MaxSessions \in Nat
  BY SessionAssumption DEF TypeOK
<1>2. sessions[s] \in Session
  BY <1>1, ElementOfSeq DEF Tokens
<1> QED
  BY <1>1, <1>2 DEF Tokens, None

\* Ending sessions keeps what they are.
LEMMA Ending ==
    ASSUME TypeOK, NEW S
    PROVE  /\ Keeps(End(S)) /\ Len(End(S)) = Len(sessions)
           /\ \A s \in Tokens : End(S)[s].live <=> sessions[s].live /\ s \notin S
<1>1. sessions \in Seq(Session) /\ Len(sessions) \in Nat /\ Len(sessions) <= MaxSessions
  BY DEF TypeOK
<1>2. ASSUME NEW s \in Tokens
      PROVE  /\ End(S)[s] \in Session
             /\ End(S)[s].user = sessions[s].user /\ End(S)[s].door = sessions[s].door
             /\ End(S)[s].root = sessions[s].root /\ End(S)[s].opened = sessions[s].opened
             /\ End(S)[s].live <=> sessions[s].live /\ s \notin S
  <2>1. sessions[s] \in Session
    BY SessionType
  <2>2. End(S)[s] = [sessions[s] EXCEPT !.live = sessions[s].live /\ s \notin S]
    BY DEF End
  <2> QED
    BY <2>1, <2>2 DEF Session
<1>3. End(S) \in [1..Len(sessions) -> Session]
  BY <1>2 DEF End, Tokens
<1>4. End(S) \in Seq(Session) /\ Len(End(S)) = Len(sessions)
  BY <1>1, <1>3
<1>5. \A s \in Tokens : End(S)[s].live <=> sessions[s].live /\ s \notin S
  BY <1>2
<1>6. Len(sessions) <= Len(End(S)) /\ Len(End(S)) <= MaxSessions
  BY <1>1, <1>4
<1> HIDE DEF End
<1>7. Keeps(End(S))
  BY <1>2, <1>4, <1>6 DEF Keeps
<1> QED
  BY <1>4, <1>5, <1>7

\* A session is opened.
LEMMA Opening1 ==
    ASSUME TypeOK, NEW others, Keeps(others), Len(others) = Len(sessions),
           NEW u \in Users, NEW door \in Opening, NEW root \in {None} \cup 1..MaxSessions,
           OpenAfter(others, u, door, root)
    PROVE  /\ Keeps(sessions') /\ Len(sessions') = Len(sessions) + 1
           /\ Len(sessions) + 1 \in Tokens' /\ Len(sessions) + 1 \notin Tokens
           /\ Len(sessions) + 1 \in 1..MaxSessions
           /\ sessions'[Len(sessions) + 1] = NewSession(u, door, root)
           /\ \A s \in Tokens : sessions'[s] = others[s]
<1> DEFINE n == NewSession(u, door, root)
<1>1. Len(sessions) \in Nat /\ MaxSessions \in Nat /\ others \in Seq(Session) /\ sessions \in Seq(Session)
  BY SessionAssumption DEF TypeOK, Keeps
<1>2. sessions' = Append(others, n) /\ Len(sessions) < MaxSessions
  BY DEF OpenAfter
<1>3. n \in Session
  BY <1>1, <1>2 DEF NewSession, Session, TypeOK
<1> HIDE DEF n
<1>4. sessions' \in Seq(Session) /\ Len(sessions') = Len(sessions) + 1
  BY <1>1, <1>2, <1>3
<1>5. sessions'[Len(sessions) + 1] = n /\ \A s \in Tokens : sessions'[s] = others[s]
  BY <1>1, <1>2 DEF Tokens
<1>6. Keeps(sessions')
  <2>1. Len(sessions) <= Len(sessions') /\ Len(sessions') <= MaxSessions
    BY <1>1, <1>2, <1>4
  <2> QED
    BY <2>1, <1>4, <1>5 DEF Keeps
<1>7. Len(sessions) + 1 \in Tokens' /\ Len(sessions) + 1 \notin Tokens /\ Len(sessions) + 1 \in 1..MaxSessions
  BY <1>1, <1>2, <1>4 DEF Tokens
<1> QED
  BY <1>4, <1>5, <1>6, <1>7 DEF n

-------------------------------------------------------------------------------
(* Requests.                                                                *)

Same(h) ==
    /\ req'[h].op = req[h].op /\ req'[h].browser = req[h].browser /\ req'[h].user = req[h].user
    /\ req'[h].refresh = req[h].refresh
    /\ req'[h].at = req[h].at \/ (req'[h].token = None /\ req'[h].at = 0)

Next1 == Len(sessions) + 1

\* The moves of a request.
OpensSession(h) ==
    /\ Register(h) \/ Login(h) \/ Refresh(h)
    /\ req[h].phase = "call" /\ req[h].op \in Opening
    /\ req'[h].session = Next1 /\ req'[h].token = req[h].token
    /\ req'[h].phase = IF req[h].op = "admin_login" THEN "gate" ELSE "emit"

LogsOut(h) ==
    /\ Logout(h)
    /\ req[h].phase = "call" /\ req[h].op = "logout" /\ req'[h].token = req[h].token
    /\ \/ /\ req'[h].phase = "emit" /\ req[h].refresh # None
          /\ req'[h].session = req[h].refresh
       \/ req'[h].phase = "respond" /\ req'[h].session = req[h].session

Revokes(h) ==
    /\ RevokeAll(h)
    /\ req[h].phase = "call" /\ req[h].op \in RevokingAll
    /\ req'[h].phase = "emit" /\ req'[h].session = req[h].session /\ req'[h].token = None

Passes(h) ==
    /\ \/ /\ LoginFails(h) /\ req[h].phase = "call" /\ req'[h].phase = "deny"
          /\ req[h].op \in {"login", "admin_login"}
       \/ GatePasses(h) /\ req[h].phase = "gate" /\ req'[h].phase = "emit"
       \/ GateDenies(h) /\ req[h].phase = "gate" /\ req'[h].phase = "close"
       \/ Close(h) /\ req[h].phase = "close" /\ req'[h].phase = "deny"
       \/ (Emit(h) \/ EmitFails(h)) /\ req[h].phase = "emit" /\ req'[h].phase = "respond"
    /\ req'[h].session = req[h].session /\ req'[h].token = req[h].token

\* What a handler that is not idle serves.
LEMMA BusyType ==
    ASSUME TypeOK, NEW h \in Handlers, Busy(h)
    PROVE  /\ req[h] \in Requests
           /\ {req[h].token, req[h].refresh, req[h].session} \subseteq {None} \cup Tokens
BY DEF TypeOK, Busy, At, Idle

\* One handler changes the phase of its request, and nothing else of it.
LEMMA Going ==
    ASSUME TypeOK, NEW h \in Handlers, Busy(h), NEW ph, Goto(h, ph),
           ph \in {"close", "deny", "emit", "respond"}
    PROVE  /\ \A g \in Handlers \ {h} : req'[g] = req[g]
           /\ req'[h] \in Requests /\ Same(h)
           /\ req'[h].phase = ph /\ req'[h].session = req[h].session /\ req'[h].token = req[h].token
<1>1. req' = [req EXCEPT ![h] = [req[h] EXCEPT !.phase = ph]] /\ req[h] \in Requests
  BY BusyType DEF Goto
<1>2. req'[h] = [req[h] EXCEPT !.phase = ph] /\ \A g \in Handlers \ {h} : req'[g] = req[g]
  BY <1>1 DEF TypeOK
<1> QED
  BY <1>1, <1>2 DEF Requests, Same

\* One handler is done.
LEMMA Done ==
    ASSUME TypeOK, NEW h \in Handlers, Finish(h)
    PROVE  req'[h] = Idle /\ \A g \in Handlers \ {h} : req'[g] = req[g]
BY DEF Finish, TypeOK

\* One handler moves.
LEMMA Moves ==
    ASSUME TypeOK, NEW h \in Handlers, Handle(h)
    PROVE  /\ Busy(h)
           /\ \A g \in Handlers \ {h} : req'[g] = req[g]
           /\ \/ req'[h] = Idle
              \/ /\ req'[h] \in Requests /\ Same(h)
                 /\ OpensSession(h) \/ LogsOut(h) \/ Revokes(h) \/ Passes(h)
<1> DEFINE Goal ==
           /\ Busy(h)
           /\ \A g \in Handlers \ {h} : req'[g] = req[g]
           /\ \/ req'[h] = Idle
              \/ /\ req'[h] \in Requests /\ Same(h)
                 /\ OpensSession(h) \/ LogsOut(h) \/ Revokes(h) \/ Passes(h)
<1>t. req \in [Handlers -> Requests \cup {Idle}] /\ Len(sessions) \in Nat /\ MaxSessions \in Nat
  BY SessionAssumption DEF TypeOK
<1>1. CASE Register(h) \/ Login(h) \/ Refresh(h)
  <2>1. /\ At(h, "call") /\ req[h].op \in Opening /\ Len(sessions) < MaxSessions
        /\ Opened(h)
    BY <1>1 DEF Register, Login, Refresh, OpenAfter, Opening
  <2>2. Busy(h) /\ req[h] \in Requests
    BY <2>1, BusyType DEF Busy, At
  <2> DEFINE ph == IF req[h].op = "admin_login" THEN "gate" ELSE "emit"
             q == [req[h] EXCEPT !.session = Next1]
             r == [q EXCEPT !.phase = ph]
  <2>3. q \in Requests /\ q.op = req[h].op /\ q.browser = req[h].browser /\ q.user = req[h].user
        /\ q.refresh = req[h].refresh /\ q.at = req[h].at /\ q.session = Next1 /\ q.token = req[h].token
    BY <1>t, <2>1, <2>2 DEF Requests, Next1
  <2>4. req'[h] = r /\ \A g \in Handlers \ {h} : req'[g] = req[g]
    BY <2>1, <1>t DEF Opened, Next1
  <2> HIDE DEF q
  <2>5. /\ r \in Requests /\ r.op = q.op /\ r.browser = q.browser /\ r.user = q.user
        /\ r.refresh = q.refresh /\ r.at = q.at /\ r.session = q.session /\ r.token = q.token
        /\ r.phase = ph
    BY <2>3 DEF Requests
  <2> HIDE DEF r
  <2> QED
    BY <1>1, <2>1, <2>2, <2>3, <2>4, <2>5 DEF OpensSession, Same, At
<1>2. CASE Logout(h)
  <2>1. At(h, "call") /\ req[h].op = "logout" /\ Busy(h) /\ req[h] \in Requests
    BY <1>2, BusyType DEF Logout, Busy, At
  <2>2. CASE req[h].refresh # None /\ Live(req[h].refresh)
    <3> DEFINE q == [req[h] EXCEPT !.session = req[h].refresh]
               r == [q EXCEPT !.phase = "emit"]
    <3>1. q \in Requests /\ q.op = req[h].op /\ q.browser = req[h].browser /\ q.user = req[h].user
          /\ q.refresh = req[h].refresh /\ q.at = req[h].at /\ q.session = req[h].refresh
          /\ q.token = req[h].token
      BY <2>1 DEF Requests
    <3>2. req'[h] = r /\ \A g \in Handlers \ {h} : req'[g] = req[g]
      BY <1>2, <2>2, <1>t DEF Logout
    <3> HIDE DEF q
    <3>3. /\ r \in Requests /\ r.op = q.op /\ r.browser = q.browser /\ r.user = q.user
          /\ r.refresh = q.refresh /\ r.at = q.at /\ r.session = q.session /\ r.token = q.token
          /\ r.phase = "emit"
      BY <3>1 DEF Requests
    <3> HIDE DEF r
    <3> QED
      BY <1>2, <2>1, <2>2, <3>1, <3>2, <3>3 DEF LogsOut, Same, At
  <2>3. CASE ~(req[h].refresh # None /\ Live(req[h].refresh))
    <3>1. Goto(h, "respond")
      BY <1>2, <2>3 DEF Logout
    <3> QED
      BY <3>1, <1>2, <2>1, Going DEF LogsOut, At
  <2> QED
    BY <2>2, <2>3
<1>3. CASE RevokeAll(h)
  <2>1. At(h, "call") /\ req[h].op \in RevokingAll /\ Busy(h) /\ req[h] \in Requests
    BY <1>3, BusyType DEF RevokeAll, Busy, At
  <2> DEFINE p == [req[h] EXCEPT !.token = None]
             q == [p EXCEPT !.at = 0]
             r == [q EXCEPT !.phase = "emit"]
  <2>5. p \in Requests /\ p.op = req[h].op /\ p.browser = req[h].browser /\ p.user = req[h].user
        /\ p.refresh = req[h].refresh /\ p.session = req[h].session /\ p.token = None
    BY <2>1, <1>t DEF Requests, None
  <2>3. req'[h] = r /\ \A g \in Handlers \ {h} : req'[g] = req[g]
    BY <1>3, <1>t DEF RevokeAll
  <2> HIDE DEF p
  <2>2. q \in Requests /\ q.op = p.op /\ q.browser = p.browser /\ q.user = p.user
        /\ q.refresh = p.refresh /\ q.at = 0 /\ q.session = p.session /\ q.token = p.token
    BY <2>5, SessionAssumption DEF Requests
  <2> HIDE DEF q
  <2>4. /\ r \in Requests /\ r.op = q.op /\ r.browser = q.browser /\ r.user = q.user
        /\ r.refresh = q.refresh /\ r.at = q.at /\ r.session = q.session /\ r.token = q.token
        /\ r.phase = "emit"
    BY <2>2 DEF Requests
  <2> HIDE DEF r
  <2> QED
    BY <1>3, <2>1, <2>2, <2>3, <2>4, <2>5 DEF Revokes, Same, At
<1>4. CASE GatePasses(h) \/ LoginFails(h)
  BY <1>4, Going DEF GatePasses, LoginFails, Passes, Busy, At
<1>5. CASE GateDenies(h)
  BY <1>5, Going DEF GateDenies, Passes, Busy, At
<1>6. CASE Close(h)
  BY <1>6, Going DEF Close, Passes, Busy, At
<1>7. CASE Emit(h) \/ EmitFails(h)
  <2>1. At(h, "emit") /\ Goto(h, "respond") /\ Busy(h)
    BY <1>7 DEF Emit, EmitFails, Busy, At
  <2> QED
    BY <1>7, <2>1, Going DEF Passes, At
<1>8. CASE Me(h) \/ CallFails(h) \/ Deny(h) \/ Respond(h) \/ Abort(h)
  <2>1. Finish(h) /\ Busy(h)
    BY <1>8 DEF Me, CallFails, Deny, Respond, Abort, Busy, At
  <2> QED
    BY <2>1, Done
<1> QED
  BY <1>1, <1>2, <1>3, <1>4, <1>5, <1>6, <1>7, <1>8 DEF Handle

\* A request arrives.
LEMMA Arrives ==
    ASSUME TypeOK, Cookies, NEW h \in Handlers, NEW b \in Browsers, NEW op \in Ops, Receive(h, b, op)
    PROVE  /\ ~Busy(h)
           /\ \A g \in Handlers \ {h} : req'[g] = req[g]
           /\ req'[h] \in Requests
           /\ req'[h].phase = "call" /\ req'[h].session = None
           /\ req'[h].at \in {0, clock} /\ (req'[h].token # None => req'[h].at = clock)
           /\ {req'[h].token, req'[h].refresh} \subseteq {None} \cup held[b]
           /\ req'[h].token # None => Verifies(req'[h].token)
           /\ req'[h].op = op /\ (op = "refresh" => req'[h].refresh # None)
           /\ UNCHANGED <<idm, client, events, clock, history>>
           /\ accepted < MaxAccepted /\ accepted' = accepted + 1
<1>t. /\ req \in [Handlers -> Requests \cup {Idle}] /\ MaxSessions \in Nat /\ clock \in 0..MaxTime
      /\ Len(sessions) \in Nat /\ Len(sessions) <= MaxSessions
      /\ held[b] \subseteq Tokens /\ jar[b].access \in {None} \cup held[b] /\ jar[b].refresh \in {None} \cup held[b]
  BY SessionAssumption DEF TypeOK, Cookies
<1>1. PICK given \in Wanted(op, b), u \in Users :
        req' = [req EXCEPT ![h] =
            [phase |-> "call", op |-> op, browser |-> b, user |-> u, token |-> given.token,
             refresh |-> given.refresh, session |-> None,
             at |-> IF given.token = None THEN 0 ELSE clock]]
  BY DEF Receive
<1> DEFINE time == IF given.token = None THEN 0 ELSE clock
<1>2. \A s \in Identities(b) : s \in {None} \cup held[b] /\ (s # None => Verifies(s))
  BY <1>t DEF Identities
<1>3. /\ given.token \in {None} \cup held[b] /\ given.refresh \in {None} \cup held[b]
      /\ given.token # None => Verifies(given.token)
      /\ op = "refresh" => given.refresh # None
  <2>1. CASE op \in Protected
    <3>1. given \in [token : Identities(b) \ {None}, refresh : {None}]
      BY <2>1 DEF Wanted, Protected, RevokingAll
    <3> QED
      BY <3>1, <1>2, <2>1 DEF Protected, RevokingAll
  <2>2. CASE op = "refresh" \/ op = "logout"
    <3>1. /\ given \in [token : {None}, refresh : {None} \cup {jar[b].refresh}]
          /\ op = "refresh" => given.refresh # None
      BY <2>2 DEF Wanted, Protected, RevokingAll
    <3> QED
      BY <3>1, <1>t
  <2>3. CASE op \notin Protected /\ op # "refresh" /\ op # "logout"
    <3>1. given \in [token : {None}, refresh : {None}]
      BY <2>3 DEF Wanted
    <3> QED
      BY <2>3, <3>1, <1>t
  <2> QED
    BY <2>1, <2>2, <2>3
<1>4. {given.token, given.refresh} \subseteq 0..MaxSessions
  BY <1>3, <1>t DEF Tokens, None
<1>5. req'[h] = [phase |-> "call", op |-> op, browser |-> b, user |-> u, token |-> given.token,
             refresh |-> given.refresh, session |-> None, at |-> time]
      /\ \A g \in Handlers \ {h} : req'[g] = req[g]
  BY <1>1, <1>t
<1>6. time \in 0..MaxTime /\ time \in {0, clock} /\ (given.token # None => time = clock)
  BY <1>t, SessionAssumption
<1> HIDE DEF time
<1>7. req'[h] \in Requests
  BY <1>4, <1>5, <1>6, <1>t DEF Requests, None
<1>8. req'[h].phase = "call" /\ req'[h].session = None /\ req'[h].op = op /\ req'[h].at = time
      /\ req'[h].token = given.token /\ req'[h].refresh = given.refresh
  BY <1>5
<1> QED
  BY <1>3, <1>5, <1>6, <1>7, <1>8 DEF Receive, Busy

-------------------------------------------------------------------------------
(* Sessions and accounts, step by step.                                     *)

\* What a session that is opened is like.
LEMMA NewOne ==
    ASSUME TypeOK, Phased, NEW h \in Handlers, Register(h) \/ Login(h) \/ Refresh(h)
    PROVE  /\ Keeps(sessions') /\ Len(sessions') = Len(sessions) + 1
           /\ Next1 \in Tokens' /\ Next1 \notin Tokens /\ Next1 \in 1..MaxSessions
           /\ \A s \in Tokens' : s \in Tokens \/ s = Next1
           /\ sessions'[Next1].door = req[h].op /\ sessions'[Next1].opened = clock
           /\ sessions'[Next1].user \in Users
           /\ \/ sessions'[Next1].root = Next1
              \/ \E old \in Tokens : /\ sessions[old].live
                                     /\ sessions'[Next1].root = sessions[old].root
                                     /\ sessions'[Next1].user = sessions[old].user
           /\ UNCHANGED <<client, events, clock, accepted, history>>
           /\ account' \in [Users -> {"absent", "live", "deleted"}]
<1>1. req[h] \in Requests /\ Busy(h) /\ req[h].phase = "call"
  BY BusyType DEF Register, Login, Refresh, Busy, At
<1>2. sessions \in Seq(Session) /\ Len(sessions) \in Nat /\ Len(sessions) <= MaxSessions
      /\ account \in [Users -> {"absent", "live", "deleted"}]
  BY DEF TypeOK
<1>3. Keeps(sessions)
  BY <1>2 DEF Keeps
<1>4. UNCHANGED <<client, events, clock, accepted, history>>
      /\ account' \in [Users -> {"absent", "live", "deleted"}]
  BY <1>1, <1>2 DEF Register, Login, Refresh, Requests
<1>5. CASE Register(h) \/ Login(h)
  <2>1. OpenAfter(sessions, req[h].user, req[h].op, None) /\ req[h].op \in Opening /\ req[h].user \in Users
    BY <1>1, <1>5 DEF Register, Login, Requests, Opening
  <2>2. /\ Keeps(sessions') /\ Len(sessions') = Len(sessions) + 1
        /\ Next1 \in Tokens' /\ Next1 \notin Tokens /\ Next1 \in 1..MaxSessions
        /\ sessions'[Next1] = NewSession(req[h].user, req[h].op, None)
    BY <2>1, <1>3, Opening1 DEF Next1
  <2>3. \A s \in Tokens' : s \in Tokens \/ s = Next1
    BY <2>2, <1>2 DEF Tokens, Next1
  <2> QED
    BY <1>4, <2>1, <2>2, <2>3 DEF NewSession, Next1
<1>6. CASE Refresh(h)
  <2> DEFINE old == req[h].refresh
  <2>1. /\ req[h].op = "refresh" /\ Live(old)
        /\ OpenAfter(End({old}), sessions[old].user, "refresh", sessions[old].root)
    BY <1>6 DEF Refresh
  <2>2. old \in Tokens /\ old # None
    BY <1>1, <2>1, BusyType DEF Phased
  <2>3. sessions[old] \in Session
    BY <2>2, SessionType
  <2>4. Keeps(End({old})) /\ Len(End({old})) = Len(sessions)
    BY Ending
  <2>5. /\ sessions[old].user \in Users /\ sessions[old].root \in 1..MaxSessions /\ "refresh" \in Opening
        /\ sessions[old].root # None
    BY <2>3 DEF Session, Opening, None
  <2>6. /\ Keeps(sessions') /\ Len(sessions') = Len(sessions) + 1
        /\ Next1 \in Tokens' /\ Next1 \notin Tokens /\ Next1 \in 1..MaxSessions
        /\ sessions'[Next1] = NewSession(sessions[old].user, "refresh", sessions[old].root)
    <3> DEFINE others == End({old})
               u == sessions[old].user
               root == sessions[old].root
    <3>1. /\ Keeps(others) /\ Len(others) = Len(sessions) /\ u \in Users
          /\ root \in {None} \cup 1..MaxSessions /\ "refresh" \in Opening
          /\ OpenAfter(others, u, "refresh", root)
      BY <2>1, <2>4, <2>5
    <3> HIDE DEF others, u, root
    <3>2. /\ Keeps(sessions') /\ Len(sessions') = Len(sessions) + 1
          /\ Len(sessions) + 1 \in Tokens' /\ Len(sessions) + 1 \notin Tokens
          /\ Len(sessions) + 1 \in 1..MaxSessions
          /\ sessions'[Len(sessions) + 1] = NewSession(u, "refresh", root)
      BY <3>1, Opening1
    <3> QED
      BY <3>2 DEF Next1, u, root
  <2>7. \A s \in Tokens' : s \in Tokens \/ s = Next1
    BY <2>6, <1>2 DEF Tokens, Next1
  <2> QED
    BY <1>4, <2>1, <2>2, <2>5, <2>6, <2>7 DEF NewSession, Live
<1> QED
  BY <1>5, <1>6

\* Which handler steps change what.
LEMMA HandleKeeps ==
    ASSUME NEW h \in Handlers, Handle(h)
    PROVE  /\ clock' = clock /\ accepted' = accepted
           /\ (jar' = jar /\ held' = held) \/ Respond(h)
           /\ events' = events \/ Emit(h) \/ (Deny(h) /\ events' = events \cup {Denial(h)})
           /\ unaudited' = unaudited \/ EmitFails(h)
           /\ denied' = denied \/ GateDenies(h)
           /\ refused' = refused \/ Deny(h)
           /\ (cut' = cut /\ account' = account) \/ RevokeAll(h) \/ (Register(h) /\ cut' = cut)
           /\ \/ sessions' = sessions
              \/ Register(h) \/ Login(h) \/ Refresh(h) \/ Logout(h) \/ RevokeAll(h) \/ Close(h)
<1> USE DEF idm, client, history
<1>1. CASE Register(h) \/ Login(h) \/ Refresh(h)
  BY <1>1 DEF Register, Login, Refresh
<1>2. CASE Logout(h) \/ RevokeAll(h)
  BY <1>2 DEF Logout, RevokeAll
<1>3. CASE Me(h) \/ LoginFails(h) \/ CallFails(h) \/ GatePasses(h) \/ GateDenies(h) \/ Close(h) \/ Deny(h)
  BY <1>3 DEF Me, LoginFails, CallFails, GatePasses, GateDenies, Close, Deny
<1>4. CASE Emit(h) \/ EmitFails(h) \/ Respond(h) \/ Abort(h)
  BY <1>4 DEF Emit, EmitFails, Respond, Abort
<1> QED
  BY <1>1, <1>2, <1>3, <1>4 DEF Handle

\* Sessions are only added, and only end.
LEMMA SessionsStep ==
    ASSUME TypeOK, Phased, [Next]_vars
    PROVE  Keeps(sessions') /\ account' \in [Users -> {"absent", "live", "deleted"}]
<1>1. Keeps(sessions) /\ account \in [Users -> {"absent", "live", "deleted"}]
  BY DEF Keeps, TypeOK
<1>2. ASSUME NEW h \in Handlers, Logout(h) \/ RevokeAll(h) \/ Close(h)
      PROVE  Keeps(sessions') /\ account' \in [Users -> {"absent", "live", "deleted"}]
  <2>1. sessions' = sessions \/ \E S : sessions' = End(S)
    BY <1>2 DEF Logout, RevokeAll, Close
  <2>2. account' \in [Users -> {"absent", "live", "deleted"}]
    BY <1>1, <1>2 DEF Logout, RevokeAll, Close
  <2> QED
    BY <2>1, <2>2, <1>1, Ending
<1>3. ASSUME NEW h \in Handlers, Handle(h)
      PROVE  Keeps(sessions') /\ account' \in [Users -> {"absent", "live", "deleted"}]
  BY <1>1, <1>2, <1>3, NewOne, HandleKeeps
<1>4. ASSUME Tick \/ UNCHANGED vars \/ \E h \in Handlers, b \in Browsers, op \in Ops : Receive(h, b, op)
      PROVE  UNCHANGED <<sessions, account>>
  BY <1>4 DEF Tick, Receive, idm, vars
<1> QED
  BY <1>1, <1>3, <1>4 DEF Next

\* What the tokens become.
LEMMA Grows ==
    ASSUME TypeOK, Keeps(sessions')
    PROVE  /\ Tokens \subseteq Tokens' /\ Tokens \subseteq Nat /\ None \notin Tokens' /\ None \notin Tokens
           /\ Next1 \notin Tokens /\ Next1 # None
           /\ 0..Len(sessions) \subseteq 0..Len(sessions')
<1>1. Len(sessions) \in Nat /\ Len(sessions') \in Nat /\ Len(sessions) <= Len(sessions')
  BY DEF TypeOK, Keeps
<1> QED
  BY <1>1 DEF Tokens, None, Next1

-------------------------------------------------------------------------------
(* The browsers.                                                            *)

\* What a browser is given by an answer.
LEMMA Answers ==
    ASSUME TypeOK, Phased, Gated, NEW h \in Handlers, Respond(h)
    PROVE  /\ \/ /\ req[h].op \in Opening /\ req[h].session \in Tokens \ denied
                 /\ SetCookies(req[h].browser, req[h].session)
              \/ ClearCookies(req[h].browser)
           /\ req[h].browser \in Browsers
           /\ UNCHANGED <<idm, events, clock, accepted, history>>
<1>1. At(h, "respond") /\ Busy(h) /\ req[h] \in Requests
      /\ req[h].session \in {None} \cup Tokens
  BY BusyType DEF Respond, Busy, At
<1>2. req[h].browser \in Browsers
  BY <1>1 DEF Requests
<1>3. req[h].op \in Opening => req[h].session # None
  BY <1>1 DEF Phased, At
<1>4. req[h].session \notin denied
  BY <1>1 DEF Gated, At
<1> QED
  BY <1>1, <1>2, <1>3, <1>4 DEF Respond

\* Cookies and tokens keep their types.
LEMMA CookieTypes ==
    ASSUME TypeOK, Phased, Gated, Keeps(sessions'), [Next]_vars
    PROVE  /\ jar' \in [Browsers -> [access : {None} \cup Tokens', refresh : {None} \cup Tokens']]
           /\ held' \in [Browsers -> SUBSET Tokens']
<1>1. /\ jar \in [Browsers -> [access : {None} \cup Tokens, refresh : {None} \cup Tokens]]
      /\ held \in [Browsers -> SUBSET Tokens] /\ Tokens \subseteq Tokens'
  BY Grows DEF TypeOK
<1>2. CASE UNCHANGED <<jar, held>>
  BY <1>1, <1>2
<1>3. CASE Tick
  <2>1. held' = held
    BY <1>3 DEF Tick
  <2>2. jar' = [b \in Browsers |-> IF jar[b].access # None /\ clock' >= sessions[jar[b].access].opened + Ttl
                THEN [jar[b] EXCEPT !.access = None] ELSE jar[b]]
    BY <1>3 DEF Tick
  <2>3. \A b \in Browsers : jar'[b] \in {jar[b], [jar[b] EXCEPT !.access = None]}
    BY <2>2
  <2>4. \A b \in Browsers : jar[b] \in [access : {None} \cup Tokens, refresh : {None} \cup Tokens]
    BY <1>1
  <2>5. \A b \in Browsers : jar'[b] \in [access : {None} \cup Tokens', refresh : {None} \cup Tokens']
    BY <2>3, <2>4, <1>1
  <2> QED
    BY <2>1, <2>2, <2>5, <1>1
<1>4. ASSUME NEW h \in Handlers, Respond(h)
      PROVE  /\ jar' \in [Browsers -> [access : {None} \cup Tokens', refresh : {None} \cup Tokens']]
             /\ held' \in [Browsers -> SUBSET Tokens']
  <2>1. CASE ClearCookies(req[h].browser)
    BY <1>1, <2>1 DEF ClearCookies, NoCookies
  <2>2. CASE req[h].session \in Tokens \ denied /\ SetCookies(req[h].browser, req[h].session)
    <3> DEFINE k == req[h].browser
               s == req[h].session
    <3>1. /\ jar' = [jar EXCEPT ![k] = [access |-> s, refresh |-> s]]
          /\ held' = [held EXCEPT ![k] = held[k] \cup {s}] /\ s \in Tokens
      BY <2>2 DEF SetCookies
    <3> HIDE DEF k, s
    <3>2. [access |-> s, refresh |-> s] \in [access : {None} \cup Tokens', refresh : {None} \cup Tokens']
      BY <3>1, <1>1
    <3> QED
      BY <3>1, <3>2, <1>1
  <2> QED
    BY <2>1, <2>2, <1>4, Answers
<1>5. ASSUME NEW h \in Handlers, Handle(h) PROVE UNCHANGED <<jar, held>> \/ Respond(h)
  BY <1>5, HandleKeeps
<1>6. ASSUME NEW h \in Handlers, NEW b \in Browsers, NEW op \in Ops, Receive(h, b, op)
      PROVE  UNCHANGED <<jar, held>>
  BY <1>6 DEF Receive, client
<1>7. CASE UNCHANGED vars
  BY <1>2, <1>7 DEF vars, client
<1> QED
  BY <1>2, <1>3, <1>4, <1>5, <1>6, <1>7 DEF Next

\* Cookies hold what the browser was given, and nothing denied.
LEMMA CookiesStep ==
    ASSUME State, Keeps(sessions'), [Next]_vars
    PROVE  Cookies'
<1>t. TypeOK /\ Cookies /\ Phased /\ Gated /\ Private
  BY DEF State
<1>1. /\ jar \in [Browsers -> [access : {None} \cup Tokens, refresh : {None} \cup Tokens]]
      /\ held \in [Browsers -> SUBSET Tokens] /\ denied \subseteq Tokens
  BY <1>t DEF TypeOK
<1>2. CASE UNCHANGED <<jar, held, denied>>
  BY <1>2, <1>t DEF Cookies
<1>3. CASE Tick
  <2>1. held' = held /\ denied' = denied
    BY <1>3 DEF Tick, history
  <2>2. jar' = [b \in Browsers |-> IF jar[b].access # None /\ clock' >= sessions[jar[b].access].opened + Ttl
                THEN [jar[b] EXCEPT !.access = None] ELSE jar[b]]
    BY <1>3 DEF Tick
  <2>3. \A b \in Browsers : jar'[b] \in {jar[b], [jar[b] EXCEPT !.access = None]}
    BY <2>2
  <2>4. \A b \in Browsers : jar[b] \in [access : {None} \cup Tokens, refresh : {None} \cup Tokens]
    BY <1>1
  <2>5. \A b \in Browsers : {jar'[b].access, jar'[b].refresh} \subseteq {None, jar[b].access, jar[b].refresh}
    BY <2>3, <2>4
  <2> QED
    BY <2>1, <2>5, <1>t DEF Cookies
<1>4. ASSUME NEW h \in Handlers, Respond(h) PROVE Cookies'
  <2>1. denied' = denied
    BY <1>4 DEF Respond, history
  <2>2. CASE ClearCookies(req[h].browser)
    BY <1>1, <2>1, <2>2, <1>t DEF ClearCookies, NoCookies, Cookies
  <2>3. CASE req[h].session \in Tokens \ denied /\ SetCookies(req[h].browser, req[h].session)
    <3> DEFINE k == req[h].browser
               s == req[h].session
    <3>1. /\ jar' = [jar EXCEPT ![k] = [access |-> s, refresh |-> s]]
          /\ held' = [held EXCEPT ![k] = held[k] \cup {s}] /\ s \notin denied
      BY <2>3 DEF SetCookies
    <3> HIDE DEF k, s
    <3>2. ASSUME NEW b \in Browsers
          PROVE  {jar'[b].access, jar'[b].refresh} \subseteq {None} \cup held'[b] /\ held'[b] \cap denied' = {}
      <4>1. CASE b = k
        BY <4>1, <3>1, <2>1, <1>1, <1>t DEF Cookies
      <4>2. CASE b # k
        BY <4>2, <3>1, <2>1, <1>1, <1>t DEF Cookies
      <4> QED
        BY <4>1, <4>2
    <3> QED
      BY <3>2 DEF Cookies
  <2> QED
    BY <2>2, <2>3, <1>4, <1>t, Answers
<1>5. ASSUME NEW h \in Handlers, GateDenies(h) PROVE Cookies'
  <2>1. UNCHANGED <<jar, held>> /\ denied' = denied \cup {req[h].session}
    BY <1>5 DEF GateDenies, client
  <2>2. Busy(h) /\ req[h].op \in Opening /\ req[h].session # None
    BY <1>5, <1>t DEF GateDenies, At, Busy, Phased, Opening
  <2>3. \A b \in Browsers : req[h].session \notin held[b]
    BY <2>2, <1>t DEF Private
  <2> QED
    BY <2>1, <2>3, <1>t DEF Cookies
<1>6. ASSUME NEW h \in Handlers, Handle(h)
      PROVE  UNCHANGED <<jar, held, denied>> \/ Respond(h) \/ GateDenies(h)
  BY <1>6, HandleKeeps
<1>7. ASSUME NEW h \in Handlers, NEW b \in Browsers, NEW op \in Ops, Receive(h, b, op)
      PROVE  UNCHANGED <<jar, held, denied>>
  BY <1>7 DEF Receive, client, history
<1>8. CASE UNCHANGED vars
  BY <1>2, <1>8 DEF vars, client, history
<1> QED
  BY <1>2, <1>3, <1>4, <1>5, <1>6, <1>7, <1>8 DEF Next

-------------------------------------------------------------------------------
(* The requests.                                                            *)

\* The clock, and what is not known of a step but that it is not the handlers'.
LEMMA Elsewhere ==
    ASSUME TypeOK, Tick \/ UNCHANGED vars
    PROVE  /\ UNCHANGED <<idm, held, req, events, accepted, history>>
           /\ clock' \in 0..MaxTime /\ clock \in 0..MaxTime /\ clock <= clock'
<1>1. clock \in 0..MaxTime /\ MaxTime \in Nat
  BY SessionAssumption DEF TypeOK
<1>2. CASE Tick
  BY <1>1, <1>2 DEF Tick
<1>3. CASE UNCHANGED vars
  BY <1>1, <1>3 DEF vars, idm, client, history
<1> QED
  BY <1>2, <1>3

\* What the answer of a denied admin_login, of a logout and of an opening leave of
\* the session.
LEMMA PhasedStep ==
    ASSUME TypeOK, Cookies, Phased, Keeps(sessions'), [Next]_vars
    PROVE  Phased'
<1> DEFINE P(g) ==
        LET r == req'[g]
        IN  /\ r.at <= clock'
            /\ r.phase = "call" => r.session = None
            /\ r.phase \in {"gate", "close"} => r.op = "admin_login"
            /\ r.phase = "deny" => r.op \in {"login", "admin_login"}
            /\ (r.phase \notin {"call", "deny"} /\ r.op \in Opening) => r.session # None
            /\ (r.phase = "emit" /\ r.op = "logout") => r.session # None
            /\ r.op \in Protected => r.session = None
            /\ r.phase # "call" => r.op # "me"
            /\ (r.op \in Opening /\ r.session # None) => sessions'[r.session].door = r.op
            /\ (r.op = "logout" /\ r.session # None) => ~sessions'[r.session].live /\ r.session = r.refresh
            /\ (r.phase = "deny" /\ r.session # None) => ~sessions'[r.session].live
            /\ r.op = "refresh" => r.refresh # None
<1>1. ASSUME NEW g \in Handlers, Busy(g), req'[g] = req[g], clock <= clock', clock' \in Nat PROVE P(g)
  <2>1. req[g] \in Requests /\ req[g].session \in {None} \cup Tokens
    BY <1>1, BusyType
  <2>2. clock \in Nat /\ clock' \in Nat /\ req[g].at \in Nat
    BY <2>1, <1>1 DEF TypeOK, Requests
  <2> QED
    BY <1>1, <2>1, <2>2 DEF Phased, Keeps, Live, Opening
<1>2. ASSUME NEW h \in Handlers, NEW b \in Browsers, NEW op \in Ops, Receive(h, b, op) PROVE P(h)
  <2>1. clock \in Nat /\ clock' = clock
    BY <1>2, Arrives DEF TypeOK
  <2> QED
    BY <1>2, <2>1, Arrives
<1>3. ASSUME NEW h \in Handlers, Handle(h), req'[h] # Idle PROVE P(h)
  <2>1. /\ Busy(h) /\ Same(h) /\ req[h] \in Requests /\ req[h].session \in {None} \cup Tokens
        /\ req[h].refresh \in {None} \cup Tokens
        /\ OpensSession(h) \/ LogsOut(h) \/ Revokes(h) \/ Passes(h)
    BY <1>3, Moves, BusyType
  <2>2. clock' = clock /\ req'[h].at <= clock'
    BY <2>1, <1>3, HandleKeeps, SessionAssumption DEF Phased, Same, TypeOK
  <2>3. req'[h].op = "refresh" => req'[h].refresh # None
    BY <2>1 DEF Phased, Same
  <2>4. CASE OpensSession(h)
    <3>1. sessions'[Next1].door = req[h].op /\ Next1 # None
      BY <2>4, NewOne, Grows DEF OpensSession
    <3> QED
      BY <3>1, <2>1, <2>2, <2>3, <2>4 DEF OpensSession, Same, Opening, Protected, RevokingAll
  <2>5. CASE LogsOut(h)
    <3>1. req[h].session = None /\ req[h].phase = "call" /\ req[h].op = "logout"
      BY <2>1, <2>5 DEF LogsOut, Phased
    <3>2. CASE req'[h].phase = "respond" /\ req'[h].session = req[h].session
      BY <3>1, <3>2, <2>1, <2>2 DEF Same, Opening, Protected, RevokingAll
    <3>3. CASE req'[h].phase = "emit" /\ req[h].refresh # None /\ req'[h].session = req[h].refresh
      <4>1. ~sessions'[req[h].refresh].live
        <5>1. CASE Live(req[h].refresh)
          <6>1. sessions' = End({req[h].refresh})
            BY <5>1, <3>3, <2>5 DEF LogsOut, Logout
          <6>2. req[h].refresh \in Tokens
            BY <2>1, <3>3
          <6> HIDE DEF P
          <6>3. \A s \in Tokens : End({req[h].refresh})[s].live <=> sessions[s].live /\ s \notin {req[h].refresh}
            BY Ending
          <6> QED
            BY <6>1, <6>2, <6>3
        <5>2. CASE ~Live(req[h].refresh)
          BY <5>2, <2>1, <3>3 DEF Keeps, Live
        <5> QED
          BY <5>1, <5>2
      <4> QED
        BY <4>1, <3>1, <3>3, <2>1, <2>2 DEF Same, Opening, Protected, RevokingAll
    <3> QED
      BY <3>2, <3>3, <2>5 DEF LogsOut
  <2>6. CASE Revokes(h)
    <3>1. req[h].session = None
      BY <2>1, <2>6 DEF Revokes, Phased
    <3> QED
      BY <3>1, <2>1, <2>2, <2>3, <2>6 DEF Revokes, Same, Opening, Protected, RevokingAll
  <2>7. CASE Passes(h) /\ req[h].phase # "call"
    <3>1. /\ req'[h].session = req[h].session /\ req[h].phase \in {"gate", "close", "emit"}
          /\ req'[h].phase \in {"emit", "close", "deny", "respond"}
          /\ req'[h].phase \in {"close", "deny"} => req[h].phase \in {"gate", "close"}
          /\ req'[h].phase = "deny" => Close(h) /\ req[h].phase = "close"
          /\ req'[h].phase = "emit" => req[h].phase = "gate"
      BY <2>7 DEF Passes
    <3>2. req'[h].phase = "deny" => ~sessions'[req[h].session].live
      <4> SUFFICES ASSUME req'[h].phase = "deny" PROVE ~sessions'[req[h].session].live
        OBVIOUS
      <4>1. sessions' = End({req[h].session}) /\ req[h].session \in Tokens
        BY <3>1, <2>1 DEF Close, Phased, Opening
      <4>2. \A s \in Tokens : End({req[h].session})[s].live <=> sessions[s].live /\ s \notin {req[h].session}
        BY Ending
      <4> QED
        BY <4>1, <4>2
    <3>3. (req[h].op \in Opening /\ req[h].session # None) => sessions'[req[h].session].door = req[h].op
      BY <2>1 DEF Phased, Keeps
    <3>4. (req[h].op = "logout" /\ req[h].session # None) =>
            ~sessions'[req[h].session].live /\ req[h].session = req[h].refresh
      BY <2>1 DEF Phased, Keeps, Live
    <3>5. /\ req[h].op \in Opening => req[h].session # None
          /\ req[h].op \in Protected => req[h].session = None
          /\ req[h].op # "me"
          /\ req[h].phase \in {"gate", "close"} => req[h].op = "admin_login"
      BY <2>1, <3>1 DEF Phased
    <3> QED
      BY <3>1, <3>2, <3>3, <3>4, <3>5, <2>1, <2>2, <2>3 DEF Same
  <2>8. CASE Passes(h) /\ req[h].phase = "call"
    <3>1. /\ req'[h].session = None /\ req'[h].phase = "deny"
          /\ req[h].op \in {"login", "admin_login"}
      BY <2>1, <2>8 DEF Passes, Phased
    <3> QED
      BY <3>1, <2>1, <2>2, <2>3 DEF Same, Opening, Protected, RevokingAll
  <2> QED
    BY <2>1, <2>4, <2>5, <2>6, <2>7, <2>8
<1>4. ASSUME NEW g \in Handlers, req'[g].phase # "idle" PROVE P(g)
  <2>t. clock \in Nat
    BY DEF TypeOK
  <2>1. CASE Tick \/ UNCHANGED vars
    <3>1. req' = req /\ clock' \in Nat /\ clock <= clock'
      BY <2>1, Elsewhere
    <3> QED
      BY <3>1, <1>4, <1>1 DEF Busy, At
  <2>2. ASSUME NEW h \in Handlers, Handle(h) PROVE P(g)
    <3>1. clock' = clock
      BY <2>2, HandleKeeps
    <3>2. CASE g = h
      BY <3>2, <2>2, <1>3, <1>4 DEF Idle
    <3>3. CASE g # h
      <4>1. req'[g] = req[g] /\ Busy(g)
        BY <3>3, <2>2, Moves, <1>4 DEF Busy, At
      <4> QED
        BY <4>1, <3>1, <2>t, <1>1
    <3> QED
      BY <3>2, <3>3
  <2>3. ASSUME NEW h \in Handlers, NEW b \in Browsers, NEW op \in Ops, Receive(h, b, op) PROVE P(g)
    <3>1. clock' = clock
      BY <2>3, Arrives
    <3>2. CASE g = h
      BY <3>2, <2>3, <1>2
    <3>3. CASE g # h
      <4>1. req'[g] = req[g] /\ Busy(g)
        BY <3>3, <2>3, Arrives, <1>4 DEF Busy, At
      <4> QED
        BY <4>1, <3>1, <2>t, <1>1
    <3> QED
      BY <3>2, <3>3
  <2> HIDE DEF P
  <2> QED
    BY <2>1, <2>2, <2>3 DEF Next
<1> QED
  BY <1>4 DEF Phased, Busy, At, Live

\* Whom the gate has denied stays with the handler that denied it.
LEMMA GatedStep ==
    ASSUME State, Keeps(sessions'), [Next]_vars
    PROVE  Gated'
<1> DEFINE P(g) ==
        /\ {req'[g].token, req'[g].refresh} \cap denied' = {}
        /\ req'[g].phase \notin {"close", "deny"} => req'[g].session \notin denied'
        /\ req'[g].phase \in {"close", "deny"} => req'[g].session \in denied' \cup {None}
<1>t. TypeOK /\ Cookies /\ Phased /\ Gated /\ Private
  BY DEF State
<1>d. denied \subseteq Tokens /\ None \notin denied /\ Next1 \notin denied
  BY <1>t, Grows DEF TypeOK
<1>1. ASSUME NEW g \in Handlers, Busy(g), req'[g] = req[g], denied' = denied PROVE P(g)
  BY <1>1, <1>t DEF Gated
<1>2. ASSUME NEW h \in Handlers, NEW b \in Browsers, NEW op \in Ops, Receive(h, b, op) PROVE P(h)
  <2>1. denied' = denied
    BY <1>2, <1>t, Arrives DEF history
  <2>2. {req'[h].token, req'[h].refresh} \subseteq {None} \cup held[b] /\ req'[h].phase = "call"
        /\ req'[h].session = None
    BY <1>2, <1>t, Arrives
  <2> QED
    BY <2>1, <2>2, <1>d, <1>t DEF Cookies
<1>3. ASSUME NEW h \in Handlers, Handle(h), req'[h] # Idle PROVE P(h)
  <2>1. /\ Busy(h) /\ Same(h)
        /\ OpensSession(h) \/ LogsOut(h) \/ Revokes(h) \/ Passes(h)
    BY <1>3, <1>t, Moves
  <2>2. /\ {req[h].token, req[h].refresh} \cap denied = {}
        /\ req[h].phase \notin {"close", "deny"} => req[h].session \notin denied
        /\ req[h].phase \in {"close", "deny"} => req[h].session \in denied \cup {None}
    BY <2>1, <1>t DEF Gated
  <2>3. denied' = denied \/ (GateDenies(h) /\ denied' = denied \cup {req[h].session})
    BY <1>3, HandleKeeps DEF GateDenies
  <2>4. CASE OpensSession(h) \/ LogsOut(h) \/ Revokes(h)
    <3>1. req[h].phase = "call"
      BY <2>4 DEF OpensSession, LogsOut, Revokes
    <3>2. denied' = denied
      BY <2>3, <3>1 DEF GateDenies, At
    <3> QED
      BY <3>1, <3>2, <2>4, <2>1, <2>2, <1>d DEF OpensSession, LogsOut, Revokes, Same
  <2>5. CASE Passes(h)
    <3>1. CASE GateDenies(h) /\ req[h].phase = "gate" /\ req'[h].phase = "close"
      <4>1. req[h].op \in Opening /\ req[h].session # None
        BY <3>1, <2>1, <1>t DEF Phased, Opening
      <4>2. req[h].session \notin {req[h].token, req[h].refresh}
        BY <4>1, <2>1, <1>t DEF Private
      <4>3. denied' = denied \cup {req[h].session}
        BY <3>1 DEF GateDenies
      <4> QED
        BY <4>2, <4>3, <3>1, <2>1, <2>2, <2>5 DEF Passes, Same
    <3>2. CASE ~(GateDenies(h) /\ req[h].phase = "gate" /\ req'[h].phase = "close")
      <4>1. denied' = denied
        BY <2>3, <2>5, <3>2 DEF Passes, LoginFails, GateDenies, GatePasses, Close, Emit, EmitFails, history, At
      <4>2. req[h].phase = "call" => req[h].session = None
        BY <2>1, <1>t DEF Phased
      <4> QED
        BY <4>1, <4>2, <3>2, <2>1, <2>2, <2>5 DEF Passes, Same
    <3> QED
      BY <3>1, <3>2
  <2> QED
    BY <2>1, <2>4, <2>5
<1>4. ASSUME NEW h \in Handlers, Handle(h), NEW g \in Handlers, g # h, Busy(g) PROVE P(g)
  <2>1. req'[g] = req[g] /\ Busy(h)
    BY <1>4, <1>t, Moves
  <2>2. CASE denied' = denied
    BY <2>1, <2>2, <1>1, <1>4
  <2>3. CASE GateDenies(h)
    <3>1. denied' = denied \cup {req[h].session} /\ req[h].phase = "gate"
      BY <2>3 DEF GateDenies, At
    <3>2. req[h].op \in Opening /\ req[h].session # None
      BY <3>1, <2>1, <1>t DEF Phased, Opening
    <3>3. req[h].session \notin {req[g].token, req[g].refresh} /\ req[h].session # req[g].session
      BY <3>2, <2>1, <1>4, <1>t DEF Private
    <3> QED
      BY <3>1, <3>3, <2>1, <1>4, <1>t DEF Gated
  <2> QED
    BY <2>2, <2>3, <1>4, HandleKeeps
<1>5. ASSUME NEW g \in Handlers, req'[g].phase # "idle" PROVE P(g)
  <2>1. CASE Tick \/ UNCHANGED vars
    <3>1. req' = req /\ denied' = denied
      BY <2>1, <1>t, Elsewhere DEF history
    <3> QED
      BY <3>1, <1>5, <1>1 DEF Busy, At
  <2>2. ASSUME NEW h \in Handlers, Handle(h) PROVE P(g)
    <3>1. CASE g = h
      BY <3>1, <2>2, <1>3, <1>5 DEF Idle
    <3>2. CASE g # h
      <4>1. Busy(g)
        BY <3>2, <2>2, <1>t, Moves, <1>5 DEF Busy, At
      <4> QED
        BY <4>1, <3>2, <2>2, <1>4
    <3> QED
      BY <3>1, <3>2
  <2>3. ASSUME NEW h \in Handlers, NEW b \in Browsers, NEW op \in Ops, Receive(h, b, op) PROVE P(g)
    <3>1. CASE g = h
      BY <3>1, <2>3, <1>2
    <3>2. CASE g # h
      <4>1. req'[g] = req[g] /\ Busy(g) /\ denied' = denied
        BY <3>2, <2>3, <1>t, Arrives, <1>5 DEF Busy, At, history
      <4> QED
        BY <4>1, <1>1
    <3> QED
      BY <3>1, <3>2
  <2> HIDE DEF P
  <2> QED
    BY <2>1, <2>2, <2>3 DEF Next
<1> QED
  BY <1>5 DEF Gated, Busy, At

\* What a handler that is not idle after a step was doing, and names, before it.
LEMMA Others ==
    ASSUME State, Keeps(sessions'), [Next]_vars, NEW g \in Handlers, req'[g].phase # "idle"
    PROVE  \/ req'[g] = req[g] /\ Busy(g)
           \/ \E b \in Browsers, op \in Ops : Receive(g, b, op)
           \/ /\ Handle(g) /\ Busy(g) /\ Same(g)
              /\ OpensSession(g) \/ LogsOut(g) \/ Revokes(g) \/ Passes(g)
<1>t. TypeOK /\ Cookies
  BY DEF State
<1>1. CASE Tick \/ UNCHANGED vars
  BY <1>1, <1>t, Elsewhere DEF Busy, At
<1>2. ASSUME NEW h \in Handlers, Handle(h)
      PROVE  \/ req'[g] = req[g] /\ Busy(g)
             \/ /\ Handle(g) /\ Busy(g) /\ Same(g)
                /\ OpensSession(g) \/ LogsOut(g) \/ Revokes(g) \/ Passes(g)
  <2>1. CASE g = h
    BY <2>1, <1>2, <1>t, Moves DEF Idle
  <2>2. CASE g # h
    BY <2>2, <1>2, <1>t, Moves DEF Busy, At
  <2> QED
    BY <2>1, <2>2
<1>3. ASSUME NEW h \in Handlers, NEW b \in Browsers, NEW op \in Ops, Receive(h, b, op)
      PROVE  \/ req'[g] = req[g] /\ Busy(g)
             \/ Receive(g, b, op)
  BY <1>3, <1>t, Arrives DEF Busy, At
<1> QED
  BY <1>1, <1>2, <1>3 DEF Next

\* What a handler has opened stays its own.
LEMMA PrivateStep ==
    ASSUME State, Keeps(sessions'), [Next]_vars
    PROVE  Private'
<1>t. TypeOK /\ Cookies /\ Phased /\ Gated /\ Private
  BY DEF State
<1>h. /\ held \in [Browsers -> SUBSET Tokens] /\ Next1 \notin Tokens /\ None \notin Tokens /\ Next1 # None
      /\ \A e \in events : e.session \in {None} \cup Tokens
  BY <1>t, Grows DEF TypeOK
<1> SUFFICES ASSUME NEW h \in Handlers, req'[h].phase # "idle", req'[h].op \in Opening, req'[h].session # None
    PROVE  /\ \A b \in Browsers : req'[h].session \notin held'[b]
           /\ \A g \in Handlers : req'[g].phase # "idle" =>
                /\ req'[h].session \notin {req'[g].token, req'[g].refresh}
                /\ g # h => req'[h].session # req'[g].session
           /\ req'[h].phase \in {"gate", "close", "deny"} => \A e \in events' : e.session # req'[h].session
  BY DEF Private, Busy, At
<1> DEFINE s == req'[h].session
<1>r. ASSUME NEW b \in Browsers, NEW op \in Ops PROVE ~Receive(h, b, op)
  BY <1>t, Arrives
\* The handler has only now opened it.
<1>1. CASE Handle(h) /\ OpensSession(h)
  <2>1. s = Next1 /\ events' = events /\ held' = held /\ Busy(h)
    BY <1>1, <1>t, NewOne, Moves DEF OpensSession, client
  <2>2. ASSUME NEW g \in Handlers, req'[g].phase # "idle"
        PROVE  {req'[g].token, req'[g].refresh} \subseteq {None} \cup Tokens
               /\ (g # h => req'[g].session \in {None} \cup Tokens)
    <3>1. g # h => req'[g] = req[g] /\ Busy(g)
      BY <1>1, <1>t, <2>2, Moves DEF Busy, At
    <3>2. {req[h].token, req[h].refresh} \subseteq {None} \cup Tokens
      BY <2>1, <1>t, BusyType
    <3>3. req'[h].token = req[h].token /\ req'[h].refresh = req[h].refresh
      BY <1>1, <1>t, Moves DEF OpensSession, Same, Idle
    <3>4. g # h => {req'[g].token, req'[g].refresh, req'[g].session} \subseteq {None} \cup Tokens
      BY <3>1, <1>t, BusyType
    <3> QED
      BY <3>2, <3>3, <3>4
  <2> QED
    BY <2>1, <2>2, <1>h
\* It had it before.
<1>2. CASE (req'[h] = req[h] /\ Busy(h)) \/ (Handle(h) /\ Busy(h) /\ Same(h) /\ Passes(h))
  <2>1. /\ s = req[h].session /\ req[h].op \in Opening /\ Busy(h)
        /\ s \in Tokens
    <3>1. s = req[h].session /\ req[h].op \in Opening /\ Busy(h)
      BY <1>2 DEF Passes, Same
    <3> QED
      BY <3>1, <1>t, BusyType
  <2>2. /\ \A b \in Browsers : s \notin held[b]
        /\ \A g \in Handlers : Busy(g) =>
            /\ s \notin {req[g].token, req[g].refresh}
            /\ g # h => s # req[g].session
        /\ req[h].phase \in {"gate", "close", "deny"} => \A e \in events : e.session # s
    BY <2>1, <1>t DEF Private
  <2>3. \A b \in Browsers : s \notin held'[b]
    <3>1. CASE held' = held
      BY <3>1, <2>2
    <3>2. ASSUME NEW k \in Handlers, Respond(k) PROVE \A b \in Browsers : s \notin held'[b]
      <4>1. Busy(k) /\ req'[k] = Idle
        BY <3>2, <1>t, Done DEF Respond, Busy, At
      <4>2. k # h /\ req[k].session # s
        BY <4>1, <2>2 DEF Idle
      <4>3. CASE ClearCookies(req[k].browser)
        BY <4>3, <2>2 DEF ClearCookies
      <4>4. CASE SetCookies(req[k].browser, req[k].session)
        BY <4>2, <4>4, <2>2, <1>h DEF SetCookies
      <4> QED
        BY <4>3, <4>4, <3>2, <1>t, Answers
    <3>3. CASE Tick \/ UNCHANGED vars
      BY <3>3, <3>1, <1>t, Elsewhere
    <3>4. ASSUME NEW k \in Handlers, NEW b \in Browsers, NEW op \in Ops, Receive(k, b, op) PROVE held' = held
      BY <3>4, <1>t, Arrives DEF client
    <3>5. ASSUME NEW k \in Handlers, Handle(k) PROVE held' = held \/ Respond(k)
      BY <3>5, HandleKeeps
    <3> QED
      BY <3>1, <3>2, <3>3, <3>4, <3>5 DEF Next
  <2>4. ASSUME NEW g \in Handlers, req'[g].phase # "idle"
        PROVE  s \notin {req'[g].token, req'[g].refresh} /\ (g # h => s # req'[g].session)
    <3>1. CASE req'[g] = req[g] /\ Busy(g)
      BY <3>1, <2>2
    <3>2. ASSUME NEW b \in Browsers, NEW op \in Ops, Receive(g, b, op)
          PROVE  s \notin {req'[g].token, req'[g].refresh} /\ s # req'[g].session
      <4>1. {req'[g].token, req'[g].refresh} \subseteq {None} \cup held[b] /\ req'[g].session = None
        BY <3>2, <1>t, Arrives
      <4> QED
        BY <4>1, <2>2, <2>1, <1>h
    <3>3. CASE Handle(g) /\ Busy(g) /\ Same(g) /\ (OpensSession(g) \/ LogsOut(g) \/ Revokes(g) \/ Passes(g))
      <4>1. s \notin {req[g].token, req[g].refresh} /\ (g # h => s # req[g].session) /\ s # None /\ s # Next1
        BY <3>3, <2>1, <2>2, <1>h
      <4>2. req'[g].token \in {req[g].token, None} /\ req'[g].refresh = req[g].refresh
        BY <3>3 DEF OpensSession, LogsOut, Revokes, Passes, Same
      <4>3. req'[g].session \in {req[g].session, req[g].refresh, Next1}
        BY <3>3 DEF OpensSession, LogsOut, Revokes, Passes, Same
      <4> QED
        BY <4>1, <4>2, <4>3
    <3> HIDE DEF s
    <3> QED
      BY <3>1, <3>2, <3>3, <2>4, Others
  <2>5. ASSUME req'[h].phase \in {"gate", "close", "deny"} PROVE \A e \in events' : e.session # s
    <3>1. req[h].phase \in {"gate", "close", "deny"}
      <4>1. req[h].phase # "call" /\ s # None
        BY <2>1, <1>t, <1>h DEF Phased
      <4> QED
        BY <4>1, <1>2, <2>5 DEF Passes
    <3>2. \A e \in events : e.session # s
      BY <3>1, <2>2
    <3>3. ASSUME NEW k \in Handlers, Emit(k) PROVE \A e \in events' : e.session # s
      <4>1. Busy(k) /\ req[k].phase = "emit"
        BY <3>3 DEF Emit, At, Busy
      <4>2. k # h
        BY <4>1, <3>1
      <4>3. req[k].session # s
        BY <4>1, <4>2, <2>2
      <4> QED
        BY <3>2, <3>3, <4>3 DEF Emit, Event
    <3>4. ASSUME NEW k \in Handlers, Handle(k)
          PROVE  events' = events \/ Emit(k) \/ events' = events \cup {Denial(k)}
      BY <3>4, HandleKeeps
    <3>7. \A k \in Handlers : Denial(k).session # s
      BY <2>1, <1>h DEF Denial
    <3>5. ASSUME NEW k \in Handlers, NEW b \in Browsers, NEW op \in Ops, Receive(k, b, op) PROVE events' = events
      BY <3>5, <1>t, Arrives
    <3>6. CASE Tick \/ UNCHANGED vars
      BY <3>6, <3>2, <1>t, Elsewhere
    <3> QED
      BY <3>2, <3>3, <3>4, <3>5, <3>6, <3>7 DEF Next
  <2> QED
    BY <2>3, <2>4, <2>5
<1>3. ~(LogsOut(h) /\ Same(h)) /\ ~(Revokes(h) /\ Same(h))
  BY DEF LogsOut, Revokes, Same, Opening, RevokingAll
<1> HIDE DEF s
<1> QED
  BY <1>1, <1>2, <1>3, <1>r, Others DEF s

\* What is about to be answered was audited.
LEMMA AuditedStep ==
    ASSUME State, Audited, Keeps(sessions'), [Next]_vars
    PROVE  Audited'
<1>t. TypeOK /\ Phased
  BY DEF State
<1>1. events \subseteq events' /\ unaudited \subseteq unaudited'
  <2>1. ASSUME NEW k \in Handlers, Handle(k) PROVE events \subseteq events' /\ unaudited \subseteq unaudited'
    BY <2>1, HandleKeeps DEF Emit, EmitFails
  <2>2. ASSUME NEW k \in Handlers, NEW b \in Browsers, NEW op \in Ops, Receive(k, b, op)
        PROVE  events \subseteq events' /\ unaudited \subseteq unaudited'
    BY <2>2 DEF Receive, history
  <2>3. CASE Tick \/ UNCHANGED vars
    BY <2>3, <1>t, Elsewhere DEF history
  <2> QED
    BY <2>1, <2>2, <2>3 DEF Next
<1> SUFFICES ASSUME NEW h \in Handlers, req'[h].phase = "respond", req'[h].op \in Opening
    PROVE  \/ req'[h].session \in unaudited'
           \/ [type |-> EventOf[req'[h].op], session |-> req'[h].session] \in events'
  BY DEF Audited, At
<1>2. CASE req'[h] = req[h]
  BY <1>1, <1>2 DEF Audited, At
<1>3. CASE Handle(h) /\ Busy(h) /\ Same(h) /\ Passes(h)
  <2>1. /\ Emit(h) \/ EmitFails(h)
        /\ req[h].phase = "emit" /\ req[h].op \in Opening /\ req'[h].op = req[h].op
        /\ req'[h].session = req[h].session
    BY <1>3 DEF Passes, Same
  <2>2. req[h].session # None
    BY <2>1, <1>3, <1>t DEF Phased
  <2> QED
    BY <2>1, <2>2 DEF Emit, EmitFails, Event
<1>4. ~(OpensSession(h) \/ (LogsOut(h) /\ Same(h)) \/ Revokes(h))
  BY DEF OpensSession, LogsOut, Revokes, Same, Opening
<1>5. ASSUME NEW b \in Browsers, NEW op \in Ops PROVE ~Receive(h, b, op)
  BY <1>t, Arrives DEF State
<1> QED
  BY <1>2, <1>3, <1>4, <1>5, Others

-------------------------------------------------------------------------------
(* Types, revocations and the trail.                                        *)

\* The events of one session name one of S, the others none.
EventsNaming(S) == [type : SessionEvents, session : S] \cup [type : OtherEvents, session : {None}]

\* Types.
LEMMA TypesStep ==
    ASSUME State, [Next]_vars
    PROVE  TypeOK' /\ Keeps(sessions')
<1>t. TypeOK /\ Cookies /\ Phased /\ Gated
  BY DEF State
<1>k. Keeps(sessions') /\ account' \in [Users -> {"absent", "live", "deleted"}]
  BY <1>t, SessionsStep
<1>g. /\ Tokens \subseteq Tokens' /\ Next1 \in Nat
      /\ 0..Len(sessions) \subseteq 0..Len(sessions')
      /\ sessions' \in Seq(Session) /\ Len(sessions') <= MaxSessions
  BY <1>t, <1>k, Grows DEF Keeps, TypeOK, Next1
<1>1. /\ jar' \in [Browsers -> [access : {None} \cup Tokens', refresh : {None} \cup Tokens']]
      /\ held' \in [Browsers -> SUBSET Tokens']
  BY <1>t, <1>k, CookieTypes
<1>2. req' \in [Handlers -> Requests \cup {Idle}]
  <2>1. req \in [Handlers -> Requests \cup {Idle}]
    BY <1>t DEF TypeOK
  <2>2. CASE req' = req
    BY <2>1, <2>2
  <2>3. ASSUME NEW h \in Handlers, Handle(h) \/ \E b \in Browsers, op \in Ops : Receive(h, b, op)
        PROVE  req' \in [Handlers -> Requests \cup {Idle}]
    <3>1. /\ \A g \in Handlers \ {h} : req'[g] = req[g]
          /\ req'[h] \in Requests \cup {Idle}
      BY <2>3, <1>t, Moves, Arrives
    <3>2. \E r : req' = [req EXCEPT ![h] = r]
      BY <2>3 DEF Handle, Receive, Register, Login, Refresh, Logout, RevokeAll, Me, LoginFails, CallFails,
           GatePasses, GateDenies, Close, Deny, Emit, EmitFails, Respond, Abort, Opened, Goto, Finish
    <3> QED
      BY <3>1, <3>2, <2>1
  <2> QED
    BY <2>2, <2>3, <1>t, Elsewhere DEF Next
<1>3. \A g \in Handlers : req'[g].phase # "idle" =>
        {req'[g].token, req'[g].refresh, req'[g].session} \subseteq {None} \cup Tokens'
  <2> SUFFICES ASSUME NEW g \in Handlers, req'[g].phase # "idle"
      PROVE  {req'[g].token, req'[g].refresh, req'[g].session} \subseteq {None} \cup Tokens'
    OBVIOUS
  <2>1. Busy(g) => {req[g].token, req[g].refresh, req[g].session} \subseteq {None} \cup Tokens
    BY <1>t, BusyType
  <2>2. CASE req'[g] = req[g] /\ Busy(g)
    BY <2>1, <2>2, <1>g
  <2>3. ASSUME NEW b \in Browsers, NEW op \in Ops, Receive(g, b, op)
        PROVE  {req'[g].token, req'[g].refresh, req'[g].session} \subseteq {None} \cup Tokens'
    <3>1. held[b] \subseteq Tokens
      BY <1>t DEF TypeOK
    <3>2. {req'[g].token, req'[g].refresh} \subseteq {None} \cup held[b] /\ req'[g].session = None
      BY <2>3, <1>t, Arrives
    <3> QED
      BY <3>1, <3>2, <1>g
  <2>4. CASE Handle(g) /\ Busy(g) /\ Same(g) /\ (OpensSession(g) \/ LogsOut(g) \/ Revokes(g) \/ Passes(g))
    <3>1. /\ req'[g].token \in {req[g].token, None} /\ req'[g].refresh = req[g].refresh
          /\ req'[g].session \in {req[g].session, req[g].refresh} \/ OpensSession(g)
      BY <2>4 DEF OpensSession, LogsOut, Revokes, Passes, Same
    <3>2. OpensSession(g) => req'[g].session = Next1 /\ Next1 \in Tokens'
      BY <1>t, NewOne DEF OpensSession
    <3> QED
      BY <3>1, <3>2, <2>1, <2>4, <1>g
  <2> QED
    BY <2>2, <2>3, <2>4, <1>k, Others
<1>4. events' \subseteq EventsNaming(Tokens')
  <2>1. events \subseteq EventsNaming(Tokens')
    BY <1>t, <1>g DEF TypeOK, EventsNaming
  <2>2. CASE events' = events
    BY <2>1, <2>2
  <2>3. ASSUME NEW h \in Handlers, Emit(h)
        PROVE  events' \subseteq EventsNaming(Tokens')
    <3>1. Busy(h) /\ req[h].phase = "emit" /\ req[h] \in Requests
          /\ req[h].session \in {None} \cup Tokens
      BY <2>3, <1>t, BusyType DEF Emit, At, Busy
    <3>2. /\ req[h].op \in Ops \ {"me"}
          /\ req[h].op \in Opening \cup {"logout"} => req[h].session # None
          /\ req[h].op \in RevokingAll => req[h].session = None
      BY <3>1, <1>t DEF Phased, Requests, Protected
    <3>3. CASE req[h].op \in Opening \cup {"logout"}
      <4>1. EventOf[req[h].op] \in SessionEvents
        BY <3>3 DEF SessionEvents
      <4> QED
        BY <4>1, <3>1, <3>2, <3>3, <2>1, <2>3, <1>g DEF Emit, Event, EventsNaming
    <3>4. CASE req[h].op \in RevokingAll
      <4>1. EventOf[req[h].op] \in OtherEvents
        BY <3>4 DEF OtherEvents
      <4> QED
        BY <4>1, <3>1, <3>2, <3>4, <2>1, <2>3 DEF Emit, Event, EventsNaming
    <3> QED
      BY <3>2, <3>3, <3>4 DEF Ops, Protected
  <2>4. ASSUME NEW h \in Handlers, Handle(h)
        PROVE  events' = events \/ Emit(h) \/ events' = events \cup {Denial(h)}
    BY <2>4, HandleKeeps
  <2>5. \A h \in Handlers : Denial(h) \in EventsNaming(Tokens')
    BY DEF Denial, EventsNaming, OtherEvents
  <2>6. ASSUME NEW h \in Handlers, NEW b \in Browsers, NEW op \in Ops, Receive(h, b, op) PROVE events' = events
    BY <2>6, <1>t, Arrives
  <2> QED
    BY <2>1, <2>2, <2>3, <2>4, <2>5, <2>6, <1>t, Elsewhere DEF Next
<1>5. clock' \in 0..MaxTime /\ accepted' \in 0..MaxAccepted
  <2>1. clock \in 0..MaxTime /\ accepted \in 0..MaxAccepted /\ MaxAccepted \in Nat
    BY <1>t, SessionAssumption DEF TypeOK
  <2>2. ASSUME NEW h \in Handlers, Handle(h) PROVE clock' = clock /\ accepted' = accepted
    BY <2>2, HandleKeeps
  <2>3. ASSUME NEW h \in Handlers, NEW b \in Browsers, NEW op \in Ops, Receive(h, b, op)
        PROVE  clock' = clock /\ accepted' = accepted + 1 /\ accepted < MaxAccepted
    BY <2>3, <1>t, Arrives
  <2> QED
    BY <2>1, <2>2, <2>3, <1>t, Elsewhere DEF Next
<1>6. /\ unaudited' \subseteq Tokens'
      /\ refused' \subseteq denied' /\ denied' \subseteq Tokens'
      /\ cut' \in [Users -> [upTo : 0..Len(sessions'), at : 0..MaxTime]]
  <2>1. /\ unaudited \subseteq Tokens /\ refused \subseteq denied /\ denied \subseteq Tokens
        /\ cut \in [Users -> [upTo : 0..Len(sessions'), at : 0..MaxTime]]
    BY <1>t, <1>g DEF TypeOK
  <2>2. CASE history' = history
    BY <2>1, <2>2, <1>g DEF history
  <2>3. ASSUME NEW h \in Handlers, Handle(h)
        PROVE  /\ unaudited' \subseteq Tokens'
               /\ refused' \subseteq denied' /\ denied' \subseteq Tokens'
               /\ cut' \in [Users -> [upTo : 0..Len(sessions'), at : 0..MaxTime]]
    <3>1. Busy(h) /\ req[h] \in Requests /\ req[h].session \in {None} \cup Tokens
      BY <2>3, <1>t, Moves, BusyType
    <3>2. unaudited' \subseteq Tokens'
      BY <2>1, <2>3, <3>1, <1>g, HandleKeeps DEF EmitFails
    <3>3. denied' \subseteq Tokens' /\ denied \subseteq denied'
      <4>1. GateDenies(h) => req[h].session # None
        BY <3>1, <1>t DEF GateDenies, At, Phased, Opening
      <4> QED
        BY <2>1, <2>3, <3>1, <4>1, <1>g, HandleKeeps DEF GateDenies
    <3>4. refused' \subseteq denied'
      <4>1. Deny(h) => req[h].session \in denied \cup {None}
        BY <3>1, <1>t DEF Deny, At, Gated
      <4> QED
        BY <2>1, <2>3, <3>3, <4>1, HandleKeeps DEF Deny
    <3>5. cut' \in [Users -> [upTo : 0..Len(sessions'), at : 0..MaxTime]]
      <4>1. CASE cut' = cut
        BY <4>1, <2>1
      <4>2. CASE RevokeAll(h)
        <5>1. cut' = [cut EXCEPT ![req[h].user] = [upTo |-> Len(sessions), at |-> clock]]
          BY <4>2 DEF RevokeAll
        <5>2. Len(sessions) \in 0..Len(sessions') /\ clock \in 0..MaxTime
          BY <1>t, <1>g DEF TypeOK
        <5> QED
          BY <5>1, <5>2, <2>1
      <4> QED
        BY <4>1, <4>2, <2>3, HandleKeeps
    <3> QED
      BY <3>2, <3>3, <3>4, <3>5
  <2>4. ASSUME NEW h \in Handlers, NEW b \in Browsers, NEW op \in Ops, Receive(h, b, op) PROVE history' = history
    BY <2>4, <1>t, Arrives
  <2> QED
    BY <2>2, <2>3, <2>4, <1>t, Elsewhere DEF Next
<1> QED
  BY <1>k, <1>g, <1>1, <1>2, <1>3, <1>4, <1>5, <1>6 DEF TypeOK, At, EventsNaming

\* A session whose sign-in a revocation has cut off is over.
LEMMA ChainsStep ==
    ASSUME State, Chains, Keeps(sessions'), [Next]_vars
    PROVE  Chains'
<1> DEFINE P(s) ==
        LET n == sessions'[s]
        IN  /\ n.opened <= clock'
            /\ n.live => n.root > cut'[n.user].upTo
            /\ n.root <= cut'[n.user].upTo => n.opened <= cut'[n.user].at
<1>t. TypeOK /\ Phased
  BY DEF State
<1>c. /\ clock \in Nat /\ Len(sessions) \in Nat
      /\ cut \in [Users -> [upTo : 0..Len(sessions), at : 0..MaxTime]]
  BY <1>t DEF TypeOK
<1>s. \A s \in Tokens : sessions[s].opened \in Nat /\ sessions[s].user \in Users /\ sessions[s].root \in Nat
  BY <1>t, SessionType, SessionAssumption DEF Session
<1>u. \A u \in Users : cut[u].upTo \in 0..Len(sessions) /\ cut[u].at \in Nat
  BY <1>c, SessionAssumption
\* A session that was there, while no revocation comes.
<1>1. ASSUME NEW s \in Tokens, cut' = cut, clock' \in Nat, clock <= clock' PROVE P(s)
  <2>1. /\ sessions'[s].user = sessions[s].user /\ sessions'[s].root = sessions[s].root
        /\ sessions'[s].opened = sessions[s].opened /\ (sessions'[s].live => sessions[s].live)
    BY DEF Keeps
  <2>2. /\ sessions[s].opened <= clock
        /\ sessions[s].live => sessions[s].root > cut[sessions[s].user].upTo
        /\ sessions[s].root <= cut[sessions[s].user].upTo => sessions[s].opened <= cut[sessions[s].user].at
    BY DEF Chains
  <2> QED
    BY <1>1, <2>1, <2>2, <1>c, <1>s
<1>2. ASSUME NEW h \in Handlers, Register(h) \/ Login(h) \/ Refresh(h) PROVE P(Next1)
  <2>1. clock' = clock /\ cut' = cut
    BY <1>2, <1>t, NewOne DEF history
  <2> DEFINE n == sessions'[Next1]
  <2>2. /\ n.opened = clock /\ n.user \in Users
        /\ \/ n.root = Next1
           \/ \E old \in Tokens : /\ sessions[old].live /\ n.root = sessions[old].root
                                  /\ n.user = sessions[old].user
    BY <1>2, <1>t, NewOne DEF Live
  <2> HIDE DEF n
  <2>3. cut[n.user].upTo \in 0..Len(sessions)
    BY <2>2, <1>u
  <2>4. n.root > cut[n.user].upTo /\ ~(n.root <= cut[n.user].upTo)
    <3>1. CASE n.root = Next1
      BY <3>1, <2>3, <1>c DEF Next1
    <3>2. ASSUME NEW old \in Tokens, sessions[old].live, n.root = sessions[old].root,
                 n.user = sessions[old].user
          PROVE  n.root > cut[n.user].upTo /\ ~(n.root <= cut[n.user].upTo)
      <4>1. sessions[old].root > cut[sessions[old].user].upTo /\ sessions[old].root \in Nat
        BY <3>2, <1>s DEF Chains
      <4> QED
        BY <4>1, <3>2, <2>3
    <3> QED
      BY <3>1, <3>2, <2>2
  <2> QED
    BY <2>1, <2>2, <2>4, <1>c DEF n
<1>3. ASSUME NEW h \in Handlers, RevokeAll(h), NEW s \in Tokens PROVE P(s)
  <2> DEFINE u == req[h].user
             S == {x \in Tokens : sessions[x].user = u}
  <2>1. /\ sessions' = End(S) /\ clock' = clock
        /\ cut' = [cut EXCEPT ![u] = [upTo |-> Len(sessions), at |-> clock]]
    BY <1>3 DEF RevokeAll
  <2>2. \A x \in Tokens : End(S)[x].live <=> sessions[x].live /\ x \notin S
    BY <1>t, Ending
  <2>3. /\ sessions'[s].user = sessions[s].user /\ sessions'[s].root = sessions[s].root
        /\ sessions'[s].opened = sessions[s].opened /\ (sessions'[s].live => sessions[s].live)
    BY DEF Keeps
  <2>4. u \in Users
    <3>1. Busy(h)
      BY <1>3 DEF RevokeAll, Busy, At
    <3> QED
      BY <3>1, <1>t, BusyType DEF Requests
  <2>5. CASE sessions[s].user = u
    <3>1. ~sessions'[s].live
      BY <2>1, <2>2, <2>5
    <3>2. cut'[u].at = clock
      BY <2>1, <2>4, <1>c
    <3>3. sessions[s].opened <= clock
      BY DEF Chains
    <3> HIDE DEF u, S
    <3> QED
      BY <3>1, <3>2, <3>3, <2>1, <2>3, <2>5
  <2>6. CASE sessions[s].user # u
    <3>1. cut'[sessions[s].user] = cut[sessions[s].user]
      BY <2>1, <2>6, <1>c, <1>s
    <3>2. /\ sessions[s].opened <= clock
          /\ sessions[s].live => sessions[s].root > cut[sessions[s].user].upTo
          /\ sessions[s].root <= cut[sessions[s].user].upTo => sessions[s].opened <= cut[sessions[s].user].at
      BY DEF Chains
    <3> HIDE DEF u, S
    <3> QED
      BY <3>1, <3>2, <2>1, <2>3
  <2> QED
    BY <2>5, <2>6
<1>4. ASSUME NEW h \in Handlers, Handle(h), NEW s \in Tokens' PROVE P(s)
  <2>1. clock' = clock /\ (cut' = cut \/ RevokeAll(h))
    BY <1>4, HandleKeeps
  <2>2. CASE Register(h) \/ Login(h) \/ Refresh(h)
    <3>1. cut' = cut /\ (s \in Tokens \/ s = Next1)
      BY <2>2, <1>t, <1>4, NewOne DEF history
    <3> HIDE DEF P
    <3>2. s \in Tokens => P(s)
      BY <3>1, <2>1, <1>1, <1>c
    <3> QED
      BY <3>1, <3>2, <2>2, <1>2
  <2>3. CASE ~(Register(h) \/ Login(h) \/ Refresh(h))
    <3>1. s \in Tokens
      <4>1. sessions' = sessions \/ \E S : sessions' = End(S)
        BY <2>3, <1>4, HandleKeeps DEF Logout, RevokeAll, Close
      <4>2. Len(sessions') = Len(sessions)
        BY <4>1, <1>t, Ending
      <4> QED
        BY <4>2, <1>4 DEF Tokens
    <3> HIDE DEF P
    <3> QED
      BY <3>1, <2>1, <1>1, <1>3, <1>c
  <2> QED
    BY <2>2, <2>3
<1>5. CASE Tick \/ UNCHANGED vars \/ \E h \in Handlers, b \in Browsers, op \in Ops : Receive(h, b, op)
  <2>1. sessions' = sessions /\ cut' = cut /\ clock' \in Nat /\ clock <= clock'
    <3>1. CASE Tick \/ UNCHANGED vars
      BY <3>1, <1>t, Elsewhere, SessionAssumption DEF idm, history
    <3>2. ASSUME NEW h \in Handlers, NEW b \in Browsers, NEW op \in Ops, Receive(h, b, op)
          PROVE  sessions' = sessions /\ cut' = cut /\ clock' \in Nat /\ clock <= clock'
      BY <3>2, <1>c DEF Receive, idm, history
    <3> QED
      BY <3>1, <3>2, <1>5
  <2>2. Tokens' = Tokens
    BY <2>1 DEF Tokens
  <2>3. \A s \in Tokens' : P(s)
    <3> HIDE DEF P
    <3> QED
      BY <2>1, <2>2, <1>1
  <2> QED
    BY <2>3 DEF Chains
<1> QED
  <2>1. CASE \E h \in Handlers : Handle(h)
    <3>1. \A s \in Tokens' : P(s)
      <4> HIDE DEF P
      <4> QED
        BY <2>1, <1>4
    <3> QED
      BY <3>1 DEF Chains
  <2> QED
    BY <2>1, <1>5 DEF Next

-------------------------------------------------------------------------------
(* The properties.                                                          *)

\* Somebody who was denied holds nothing, and the session is over by the 403.
LEMMA DeniedStep ==
    ASSUME State, DeniedLeavesNothing, Keeps(sessions'), TypeOK', Cookies', [Next]_vars
    PROVE  DeniedLeavesNothing'
<1>t. TypeOK /\ Phased /\ Gated /\ Private
  BY DEF State
<1>g. denied \subseteq Tokens /\ refused \subseteq denied
  BY <1>t DEF TypeOK
<1> SUFFICES ASSUME NEW s \in denied'
    PROVE  /\ \A b \in Browsers : s \notin held'[b] /\ s # jar'[b].access /\ s # jar'[b].refresh
           /\ \A e \in events' : e.session # s
           /\ s \in refused' => ~sessions'[s].live
  BY DEF DeniedLeavesNothing, Live
<1>1. \A b \in Browsers : s \notin held'[b] /\ s # jar'[b].access /\ s # jar'[b].refresh
  <2>1. s \in Tokens'
    BY DEF TypeOK
  <2>2. s # None
    BY <2>1, <1>t, Grows
  <2> QED
    BY <2>2 DEF Cookies
<1>2. CASE Tick \/ UNCHANGED vars \/ \E h \in Handlers, b \in Browsers, op \in Ops : Receive(h, b, op)
  <2>1. sessions' = sessions /\ events' = events /\ denied' = denied /\ refused' = refused
    <3>1. CASE Tick \/ UNCHANGED vars
      BY <3>1, <1>t, Elsewhere DEF idm, history
    <3>2. ASSUME NEW h \in Handlers, NEW b \in Browsers, NEW op \in Ops, Receive(h, b, op)
          PROVE  sessions' = sessions /\ events' = events /\ denied' = denied /\ refused' = refused
      BY <3>2 DEF Receive, idm, history
    <3> QED
      BY <3>1, <3>2, <1>2
  <2> QED
    BY <1>1, <2>1 DEF DeniedLeavesNothing, Live
<1>3. ASSUME NEW h \in Handlers, Handle(h)
      PROVE  /\ \A e \in events' : e.session # s
             /\ s \in refused' => ~sessions'[s].live
  <2>1. Busy(h)
    BY <1>3, <1>t, Moves
  <2>2. CASE s \in denied
    <3>1. /\ \A e \in events : e.session # s
          /\ s \in refused => ~sessions[s].live
          /\ s \in Tokens
      BY <2>2, <1>g DEF DeniedLeavesNothing, Live
    <3>2. \A e \in events' : e.session # s
      <4>1. Emit(h) => req[h].session \notin denied
        BY <2>1, <1>t DEF Emit, At, Gated
      <4>2. Emit(h) => \A e \in events' : e \in events \/ e.session = req[h].session
        BY DEF Emit, Event
      <4>3. Denial(h).session # s
        BY <3>1, <1>t, Grows DEF Denial
      <4> QED
        BY <3>1, <4>1, <4>2, <4>3, <2>2, <1>3, HandleKeeps
    <3>3. s \in refused' => ~sessions'[s].live
      <4>1. ~sessions[s].live => ~sessions'[s].live
        BY <3>1 DEF Keeps
      <4>2. Deny(h) => /\ refused' = refused \cup ({req[h].session} \ {None})
                       /\ req[h].session # None => ~sessions[req[h].session].live
        BY <2>1, <1>t DEF Deny, At, Phased, Live
      <4> QED
        BY <3>1, <4>1, <4>2, <1>3, HandleKeeps
    <3> QED
      BY <3>2, <3>3
  <2>3. CASE s \notin denied
    <3>1. GateDenies(h) /\ s = req[h].session
      BY <2>3, <1>3, HandleKeeps DEF GateDenies
    <3>2. events' = events /\ refused' = refused /\ req[h].phase = "gate"
      BY <3>1 DEF GateDenies, At
    <3>3. req[h].op \in Opening /\ req[h].session # None
      BY <3>2, <2>1, <1>t DEF Phased, Opening
    <3>4. \A e \in events : e.session # s
      BY <3>1, <3>2, <3>3, <2>1, <1>t DEF Private
    <3> QED
      BY <2>3, <3>2, <3>4, <1>g
  <2> QED
    BY <2>2, <2>3
<1> QED
  BY <1>1, <1>2, <1>3 DEF Next

LEMMA EventsApart ==
    /\ SessionEvents \cap OtherEvents = {}
    /\ EventOf["logout"] = "logged_out"
    /\ \A op \in Opening : EventOf[op] # "logged_out"
BY DEF SessionEvents, OtherEvents, EventOf, Ops, Opening, Protected, RevokingAll

\* The trail says what happened.
LEMMA AuditStep ==
    ASSUME State, Audited, AuditTruthful, Keeps(sessions'), [Next]_vars
    PROVE  AuditTruthful'
<1>t. TypeOK /\ Phased /\ Gated /\ Cookies
  BY DEF State
<1>g. /\ held \in [Browsers -> SUBSET Tokens]
      /\ \A e \in events : e.type \in SessionEvents => e.session \in Tokens
      /\ SessionEvents \cap OtherEvents = {}
  BY <1>t, EventsApart DEF TypeOK
<1>1. CASE Tick \/ UNCHANGED vars \/ \E h \in Handlers, b \in Browsers, op \in Ops : Receive(h, b, op)
  <2>1. sessions' = sessions /\ events' = events /\ held' = held /\ unaudited' = unaudited
    <3>1. CASE Tick \/ UNCHANGED vars
      BY <3>1, <1>t, Elsewhere DEF idm, history
    <3>2. ASSUME NEW h \in Handlers, NEW b \in Browsers, NEW op \in Ops, Receive(h, b, op)
          PROVE  sessions' = sessions /\ events' = events /\ held' = held /\ unaudited' = unaudited
      BY <3>2 DEF Receive, idm, client, history
    <3> QED
      BY <3>1, <3>2, <1>1
  <2> QED
    BY <2>1 DEF AuditTruthful, Live
<1>2. ASSUME NEW h \in Handlers, Handle(h)
      PROVE  AuditTruthful'
  <2>0. Busy(h) /\ req[h] \in Requests /\ req[h].session \in {None} \cup Tokens
    BY <1>2, <1>t, Moves, BusyType
  <2>1. events \subseteq events' /\ unaudited \subseteq unaudited'
    BY <1>2, HandleKeeps DEF Emit, EmitFails
  <2>2. ASSUME NEW b \in Browsers, NEW s \in held'[b] \ unaudited'
        PROVE  [type |-> EventOf[sessions'[s].door], session |-> s] \in events'
    <3>1. CASE s \in held[b]
      <4>1. [type |-> EventOf[sessions[s].door], session |-> s] \in events
        BY <3>1, <2>1, <2>2 DEF AuditTruthful
      <4>2. sessions'[s].door = sessions[s].door
        BY <3>1, <1>g DEF Keeps
      <4> QED
        BY <4>1, <4>2, <2>1
    <3>2. CASE s \notin held[b]
      <4>1. Respond(h) /\ req[h].op \in Opening /\ s = req[h].session
        <5>1. Respond(h)
          BY <3>2, <2>2, <1>2, HandleKeeps
        <5> QED
          BY <5>1, <3>2, <2>2, <1>g DEF Respond, SetCookies, ClearCookies
      <4>2. /\ s \in unaudited \/ [type |-> EventOf[req[h].op], session |-> s] \in events
            /\ unaudited' = unaudited /\ events' = events /\ sessions' = sessions
        BY <4>1 DEF Audited, Respond, history, idm
      <4>3. sessions[s].door = req[h].op
        BY <4>1, <2>0, <1>t DEF Phased, Respond, At
      <4> QED
        BY <4>2, <4>3, <2>2
    <3> QED
      BY <3>1, <3>2
  <2>3. ASSUME NEW e \in events', e.type \in SessionEvents
        PROVE  IF e.type = "logged_out" THEN ~sessions'[e.session].live
                                        ELSE e.type = EventOf[sessions'[e.session].door]
    <3>1. CASE e \in events
      <4>1. e.session \in Tokens
        BY <3>1, <2>3, <1>g
      <4>2. IF e.type = "logged_out" THEN ~sessions[e.session].live
                                     ELSE e.type = EventOf[sessions[e.session].door]
        BY <3>1, <2>3 DEF AuditTruthful, Live
      <4> QED
        BY <4>1, <4>2 DEF Keeps
    <3>2. CASE e \notin events
      <4>1. Emit(h)
        <5>1. e # Denial(h)
          BY <2>3, <1>g DEF Denial, OtherEvents
        <5> QED
          BY <5>1, <3>2, <2>3, <1>2, HandleKeeps
      <4>2. /\ e = [type |-> EventOf[req[h].op], session |-> req[h].session]
            /\ req[h].phase = "emit" /\ sessions' = sessions
        BY <4>1, <3>2, <2>3 DEF Emit, Event, At, idm
      <4>7. req[h].op \notin Protected
        <5>1. req[h].op # "me"
          BY <4>2, <2>0, <1>t DEF Phased
        <5>2. req[h].op \in RevokingAll => e.type \in OtherEvents
          BY <4>2 DEF OtherEvents
        <5> QED
          BY <5>1, <5>2, <2>3, <1>g DEF Protected
      <4>8. req[h].session # None
        BY <4>2, <4>7, <2>0, <1>t DEF Phased, Requests, Ops
      <4>3. /\ req[h].op \in Opening => sessions[req[h].session].door = req[h].op
            /\ req[h].op = "logout" => ~sessions[req[h].session].live
        BY <4>2, <4>8, <2>0, <1>t DEF Phased, Live
      <4>4. req[h].op \in Opening \/ req[h].op = "logout"
        BY <4>7, <2>0 DEF Requests, Ops
      <4>5. CASE req[h].op = "logout"
        <5>1. EventOf["logout"] = "logged_out"
          BY EventsApart
        <5> QED
          BY <5>1, <4>2, <4>3, <4>5
      <4>6. CASE req[h].op \in Opening
        <5>1. \A op \in Opening : EventOf[op] # "logged_out"
          BY EventsApart
        <5> QED
          BY <5>1, <4>2, <4>3, <4>6
      <4> QED
        BY <4>4, <4>5, <4>6
    <3> QED
      BY <3>1, <3>2
  <2> QED
    BY <2>2, <2>3 DEF AuditTruthful, Live
<1> QED
  BY <1>1, <1>2 DEF Next

\* A request that was let in before a revocation stays one of before.
LEMMA BitesStep ==
    ASSUME State, Chains, RevocationBites, Keeps(sessions'), [Next]_vars
    PROVE  RevocationBites'
<1>t. TypeOK /\ Cookies /\ Phased
  BY DEF State
<1>c. /\ clock \in Nat /\ Len(sessions) \in Nat /\ Ttl \in Nat /\ Leeway \in Nat
      /\ cut \in [Users -> [upTo : 0..Len(sessions), at : 0..MaxTime]]
  BY <1>t, SessionAssumption DEF TypeOK
<1>u. \A u \in Users : cut[u].upTo \in 0..Len(sessions) /\ cut[u].at \in Nat
  BY <1>c, SessionAssumption
<1> DEFINE P(g) ==
        LET s == sessions'[req'[g].token]
        IN  s.root <= cut'[s.user].upTo => req'[g].at <= cut'[s.user].at + Ttl + Leeway
<1>1. ASSUME NEW g \in Handlers, Busy(g), req[g].token # None,
             req'[g].token = req[g].token, req'[g].at = req[g].at, cut' = cut
      PROVE  P(g)
  <2>1. req[g].token \in Tokens
    BY <1>1, <1>t, BusyType
  <2> DEFINE s == sessions[req[g].token]
  <2>2. sessions'[req[g].token].root = s.root /\ sessions'[req[g].token].user = s.user
    BY <2>1 DEF Keeps
  <2>3. s.root <= cut[s.user].upTo => req[g].at <= cut[s.user].at + Ttl + Leeway
    BY <1>1 DEF RevocationBites, Busy
  <2> HIDE DEF s
  <2> QED
    BY <1>1, <2>2, <2>3
<1>2. ASSUME NEW g \in Handlers, NEW b \in Browsers, NEW op \in Ops, Receive(g, b, op), req'[g].token # None
      PROVE  P(g)
  <2> DEFINE k == req'[g].token
             s == sessions[k]
  <2>1. k \in held[b] /\ Verifies(k) /\ req'[g].at = clock /\ sessions' = sessions /\ cut' = cut
    BY <1>2, <1>t, Arrives DEF idm, history
  <2>2. k \in Tokens
    BY <2>1, <1>t DEF TypeOK
  <2>3. clock <= s.opened + Ttl + Leeway /\ (s.root <= cut[s.user].upTo => s.opened <= cut[s.user].at)
    BY <2>1, <2>2 DEF Verifies, Chains
  <2>4. s \in Session
    BY <2>2, <1>t, SessionType
  <2>5. s.opened \in Nat /\ cut[s.user].at \in Nat
    BY <2>4, <1>u, SessionAssumption DEF Session
  <2> HIDE DEF k, s
  <2>6. s.root <= cut[s.user].upTo => clock <= cut[s.user].at + Ttl + Leeway
    BY <2>3, <2>5, <1>c
  <2> QED
    BY <2>1, <2>6 DEF k, s
<1>3. ASSUME NEW h \in Handlers, RevokeAll(h), NEW g \in Handlers, Busy(g), req[g].token # None,
             req'[g].token = req[g].token, req'[g].at = req[g].at
      PROVE  P(g)
  <2> DEFINE u == req[h].user
             s == sessions[req[g].token]
  <2>1. cut' = [cut EXCEPT ![u] = [upTo |-> Len(sessions), at |-> clock]]
    BY <1>3 DEF RevokeAll
  <2>2. req[g].token \in Tokens /\ req[g] \in Requests
    BY <1>3, <1>t, BusyType
  <2>3. sessions'[req[g].token].root = s.root /\ sessions'[req[g].token].user = s.user
    BY <2>2 DEF Keeps
  <2>4. s.root <= cut[s.user].upTo => req[g].at <= cut[s.user].at + Ttl + Leeway
    BY <1>3 DEF RevocationBites, Busy
  <2>5. req[g].at <= clock /\ req[g].at \in Nat
    BY <1>3, <1>t, <2>2, SessionAssumption DEF Phased, Requests
  <2>6. s.user \in Users
    BY <2>2, <1>t, SessionType DEF Session
  <2> HIDE DEF u, s
  <2>7. CASE s.user = u
    <3>1. cut'[s.user].at = clock
      BY <2>1, <2>6, <2>7, <1>c
    <3>2. req[g].at <= clock + Ttl + Leeway
      BY <2>5, <1>c
    <3> QED
      BY <3>1, <3>2, <2>3, <1>3
  <2>8. CASE s.user # u
    <3>1. cut'[s.user] = cut[s.user]
      BY <2>1, <2>6, <2>8, <1>c
    <3> QED
      BY <3>1, <2>3, <2>4, <1>3
  <2> QED
    BY <2>7, <2>8
<1>4. ASSUME NEW g \in Handlers, req'[g].phase # "idle", req'[g].token # None PROVE P(g)
  <2>1. \/ \E b \in Browsers, op \in Ops : Receive(g, b, op)
        \/ Busy(g) /\ req'[g].token = req[g].token /\ req'[g].at = req[g].at
    BY <1>4, Others DEF OpensSession, LogsOut, Revokes, Passes, Same
  <2>2. cut' = cut \/ \E h \in Handlers : RevokeAll(h)
    <3>1. ASSUME NEW h \in Handlers, Handle(h) PROVE cut' = cut \/ RevokeAll(h)
      BY <3>1, HandleKeeps
    <3>2. ASSUME NEW h \in Handlers, NEW b \in Browsers, NEW op \in Ops, Receive(h, b, op) PROVE cut' = cut
      BY <3>2, <1>t, Arrives DEF history
    <3>3. CASE Tick \/ UNCHANGED vars
      BY <3>3, <1>t, Elsewhere DEF history
    <3> QED
      BY <3>1, <3>2, <3>3 DEF Next
  <2> HIDE DEF P
  <2> QED
    BY <2>1, <2>2, <1>1, <1>2, <1>3, <1>4
<1> QED
  BY <1>4 DEF RevocationBites, At

\* Every step keeps the invariant.
LEMMA Inductive == IInv /\ [Next]_vars => IInv'
<1> SUFFICES ASSUME IInv, [Next]_vars PROVE IInv'
  OBVIOUS
<1>1. State /\ Chains /\ Audited /\ DeniedLeavesNothing /\ AuditTruthful /\ RevocationBites
      /\ TypeOK /\ Cookies /\ Phased
  BY DEF IInv, State
<1>2. TypeOK' /\ Keeps(sessions')
  BY <1>1, TypesStep
<1>3. Cookies' /\ Phased' /\ Gated' /\ Private'
  BY <1>1, <1>2, CookiesStep, PhasedStep, GatedStep, PrivateStep
<1>4. Chains' /\ Audited' /\ DeniedLeavesNothing' /\ AuditTruthful' /\ RevocationBites'
  BY <1>1, <1>2, <1>3, ChainsStep, AuditedStep, DeniedStep, AuditStep, BitesStep
<1> QED
  BY <1>2, <1>3, <1>4 DEF IInv, State

\* The invariant holds for ever.
LEMMA Invariant == Spec => []IInv
BY InitInv, Inductive, PTL DEF Spec

\* Types: a handler, a browser and an event name only sessions that exist; the events
\* of one session name it, and no other event does.
THEOREM TypeCorrect == Spec => []TypeOK
<1>1. IInv => TypeOK
  BY DEF IInv, State
<1> QED
  BY <1>1, Invariant, PTL

\* An admin_login without admin:login leaves no cookie, no token, no success event
\* and, once it is answered, no open session (auth/routes.rs admin_login).
THEOREM DeniedSessionsLeaveNothing == Spec => []DeniedLeavesNothing
<1>1. IInv => DeniedLeavesNothing
  BY DEF IInv
<1> QED
  BY <1>1, Invariant, PTL

\* Every session a browser holds was announced under the name of its door, unless
\* the write failed, and no logout was announced of a session that lives (emit.rs).
THEOREM AuditIsTruthful == Spec => []AuditTruthful
<1>1. IInv => AuditTruthful
  BY DEF IInv
<1> QED
  BY <1>1, Invariant, PTL

\* Revoking all sessions of a user ends, within the lifetime of an access token,
\* all that goes back to the sign-ins before it, through refreshes too (token.rs).
THEOREM RevocationIsEffective == Spec => []RevocationBites
<1>1. IInv => RevocationBites
  BY DEF IInv
<1> QED
  BY <1>1, Invariant, PTL
===============================================================================

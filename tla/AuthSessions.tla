---------------------------- MODULE AuthSessions ----------------------------
(***************************************************************************)
(* Sessions and refresh tokens: Login, Refresh, Logout and LogoutAll of    *)
(* the identity service over two PostgreSQL tables and the revocation keys *)
(* in Redis, and the Authenticate check in front of Logout and LogoutAll.  *)
(* One action is one database statement or Redis command.  No statement    *)
(* shares a transaction with another and, after a call's first reads, most *)
(* errors are ignored: such an action has an outcome ok that says whether  *)
(* its statement took effect, and the call goes on either way.  Users are  *)
(* never changed, so reads of them are part of the next action.            *)
(*                                                                         *)
(* torn and missed are history variables: no program reads them.           *)
(***************************************************************************)
EXTENDS Integers, FiniteSets

CONSTANTS
    Users,
    Sessions, Tokens,   \* uuids and token values that can be generated (bounds)
    Callers,            \* goroutines serving calls of AuthService
    None,               \* an absent id
    NilUUID,            \* the id of a token that was never stored
    SessionTTL,         \* 7 days
    AccessTTL,          \* 15 minutes
    MaxTime,            \* bound on the clock
    MaxFaults           \* bound on failed statements and commands, and crashes

ASSUME SessionsAssumption ==
    /\ None \notin Users \cup Sessions \cup Tokens
    /\ NilUUID \notin Tokens \cup {None}
    /\ {SessionTTL, AccessTTL, MaxTime, MaxFaults} \subseteq Nat
    /\ SessionTTL > 0

VARIABLES
    session,    \* auth_sessions, by id
    token,      \* refresh_tokens, by id (or by token hash)
    marked,     \* sessions with a key revoked_session:{id}; it lives until expires_at
    access,     \* access[s]: the latest expiry of an access token of s, 0 if none
    held,       \* refresh tokens that were returned to clients
    now,        \* the clock
    faults,     \* failures and crashes so far
    call,       \* call[c]: the local variables of goroutine c
    torn,       \* history: sessions whose calls overlapped, failed or crashed
    missed      \* history: sessions that nobody will mark in Redis any more

authVars == <<session, token, marked, access, held, now, faults, call, torn, missed>>

RowState == {"none", "live", "revoked"}     \* revoked_at is NULL when live

Session == [state: RowState, user: Users \cup {None}, expiresAt: Nat]

Token == [state: RowState, session: Sessions \cup {None}, expiresAt: Nat,
          replacedBy: Tokens \cup {None, NilUUID}]

\* pc names the next statement; list: the sessions still to mark in Redis
Call == [pc: {"idle", "firstToken", "session", "revokeOld", "createNew", "markReplacement",
              "find", "revokeSession", "revokeSessionTokens", "list", "revokeAll",
              "revokeUserTokens", "mark"},
         user: Users \cup {None}, session: Sessions \cup {None},
         old: Tokens \cup {None}, new: Tokens \cup {None}, stored: BOOLEAN,
         list: SUBSET Sessions]

Begin(pc, u, s, t, L) == [pc |-> pc, user |-> u, session |-> s, old |-> t, new |-> None,
                          stored |-> FALSE, list |-> L]

Idle == Begin("idle", None, None, None, {})

Init ==
    /\ session = [s \in Sessions |-> [state |-> "none", user |-> None, expiresAt |-> 0]]
    /\ token = [t \in Tokens |-> [state |-> "none", session |-> None, expiresAt |-> 0,
                                  replacedBy |-> None]]
    /\ marked = {}
    /\ access = [s \in Sessions |-> 0]
    /\ held = {}
    /\ now = 0
    /\ faults = 0
    /\ call = [c \in Callers |-> Idle]
    /\ torn = {}
    /\ missed = {}
-----------------------------------------------------------------------------
\* revoked_at IS NULL AND expires_at > now
Active(s) == session[s].state = "live" /\ session[s].expiresAt > now

SessionsOf(u) == {s \in Sessions : session[s].user = u}

UserOf(t) == session[token[t].session].user

\* A statement or command takes effect, or fails
Outcome(ok) ==
    \/ ok /\ UNCHANGED faults
    \/ ~ok /\ faults < MaxFaults /\ faults' = faults + 1

\* Authenticate: the JWT has not expired and Redis holds no key for its
\* session; an error of the EXISTS command counts as no key
Authenticate(s, ok) ==
    /\ now < access[s]
    /\ ok => ~(s \in marked /\ now < session[s].expiresAt)
    /\ Outcome(ok)

\* GenerateRefreshToken: a value that was never generated before
Fresh(t) ==
    /\ token[t].state = "none"
    /\ t \notin held
    /\ \A c \in Callers : call[c].new # t

\* Bound: a new call that needs a token value can have one
TokensLeft ==
    Cardinality({c \in Callers : call[c].pc \in {"firstToken", "session", "revokeOld", "createNew"}})
        < Cardinality({t \in Tokens : Fresh(t)})

Return(c) == call' = [call EXCEPT ![c] = Idle]

Goto(c, pc) == call' = [call EXCEPT ![c].pc = pc]

\* GenerateAccessToken: the expiry of a JWT signed now
AccessExpiry == now + AccessTTL

\* The answer carries a refresh token and an access token
Answer(c, t, s) ==
    /\ Return(c)
    /\ held' = held \cup {t}
    /\ access' = [access EXCEPT ![s] = IF @ < AccessExpiry THEN AccessExpiry ELSE @]

\* History: c makes a step for user u that may meet another call of u, or fails
Overlap(c, u) == \E d \in Callers \ {c} : call[d].user = u

Tear(c, u, more, ok) ==
    torn' = IF Overlap(c, u) \/ ~ok THEN torn \cup SessionsOf(u) \cup more ELSE torn
-----------------------------------------------------------------------------
(* Login *)

\* FindByEmail, the password, then sessionRepo.Create; before it nothing is
\* written, so a call that is refused or fails changes nothing
Login(c, u, s) ==
    /\ call[c].pc = "idle"
    /\ session[s].state = "none"
    /\ TokensLeft
    /\ session' = [session EXCEPT ![s] = [state |-> "live", user |-> u,
                                          expiresAt |-> now + SessionTTL]]
    /\ call' = [call EXCEPT ![c] = Begin("firstToken", u, s, None, {})]
    /\ Tear(c, u, {s}, TRUE)
    /\ UNCHANGED <<token, marked, access, held, now, faults, missed>>

StoreToken(t, s, expiresAt) ==
    token' = [token EXCEPT ![t] = [state |-> "live", session |-> s, expiresAt |-> expiresAt,
                                   replacedBy |-> None]]

\* refreshRepo.Create; its error is the caller's error, the session stays
FirstToken(c) ==
    LET s == call[c].session
    IN  /\ call[c].pc = "firstToken"
        /\ \/ \E t \in Tokens :
                /\ Fresh(t)
                /\ StoreToken(t, s, session[s].expiresAt)
                /\ Answer(c, t, s)
                /\ UNCHANGED <<faults, torn>>
           \/ /\ Outcome(FALSE)
              /\ Return(c)
              /\ Tear(c, call[c].user, {}, FALSE)
              /\ UNCHANGED <<token, held, access>>
        /\ UNCHANGED <<session, marked, now, missed>>
-----------------------------------------------------------------------------
(* Refresh *)

\* FindByTokenHash.  A revoked token is taken for reuse and LogoutAll follows;
\* a token that is unknown or expired is refused without any write.
Refresh(c, t) ==
    /\ call[c].pc = "idle"
    /\ t \in held
    /\ \/ token[t].state = "revoked"
       \/ token[t].state = "live" /\ token[t].expiresAt >= now /\ TokensLeft
    /\ call' = [call EXCEPT ![c] =
                  IF token[t].state = "revoked"
                  THEN Begin("list", UserOf(t), None, None, {})
                  ELSE Begin("session", UserOf(t), token[t].session, t, {})]
    /\ Tear(c, UserOf(t), {}, TRUE)
    /\ UNCHANGED <<session, token, marked, access, held, now, faults, missed>>

\* FindActiveByID and FindByID
FindSession(c) ==
    /\ call[c].pc = "session"
    /\ \/ Active(call[c].session) /\ Goto(c, "revokeOld") /\ UNCHANGED faults
       \/ ~Active(call[c].session) /\ Return(c) /\ UNCHANGED faults
       \/ Outcome(FALSE) /\ Return(c)
    /\ UNCHANGED <<session, token, marked, access, held, now, torn, missed>>

\* RevokeByID of the token presented, whatever became of it since it was read
RevokeOld(c, ok) ==
    /\ call[c].pc = "revokeOld"
    /\ Outcome(ok)
    /\ token' = IF ok THEN [token EXCEPT ![call[c].old].state = "revoked"] ELSE token
    /\ Goto(c, "createNew")
    /\ Tear(c, call[c].user, {}, ok)
    /\ UNCHANGED <<session, marked, access, held, now, missed>>

\* Mutant: the lifetime is not added
ExpiryWithoutTTL(s) == now

\* The new token expires in SessionTTL, but not after its session
NewExpiry(s) ==
    IF now + SessionTTL > session[s].expiresAt THEN session[s].expiresAt ELSE now + SessionTTL

CreateNew(c, ok) ==
    LET s == call[c].session
    IN  /\ call[c].pc = "createNew"
        /\ Outcome(ok)
        /\ \E t \in Tokens :
             /\ Fresh(t)
             /\ IF ok THEN StoreToken(t, s, NewExpiry(s)) ELSE UNCHANGED token
             /\ call' = [call EXCEPT ![c] = [@ EXCEPT !.pc = "markReplacement", !.new = t,
                                                      !.stored = ok]]
        /\ Tear(c, call[c].user, {}, ok)
        /\ UNCHANGED <<session, marked, access, held, now, missed>>

\* Mutant: replaced_by gets the id of the session
ReplacedBySession(q) == q.session

Replacement(q) == IF q.stored THEN q.new ELSE NilUUID

\* Mutant: the row that was read is saved back, revoked_at still NULL in it
SaveReplacement(c, ok) ==
    LET q == call[c]
    IN  /\ q.pc = "markReplacement"
        /\ Outcome(ok)
        /\ token' = IF ok THEN [token EXCEPT ![q.old] =
                                  [@ EXCEPT !.state = "live", !.replacedBy = Replacement(q)]]
                         ELSE token
        /\ Answer(c, q.new, q.session)
        /\ Tear(c, q.user, {}, ok)
        /\ UNCHANGED <<session, marked, now, missed>>

\* MarkReplacement sets revoked_at again and replaced_by, then the answer,
\* which carries the new token even when it could not be stored
MarkReplacement(c, ok) ==
    LET q == call[c]
    IN  /\ q.pc = "markReplacement"
        /\ Outcome(ok)
        /\ token' = IF ok THEN [token EXCEPT ![q.old] =
                                  [@ EXCEPT !.state = "revoked", !.replacedBy = Replacement(q)]]
                         ELSE token
        /\ Answer(c, q.new, q.session)
        /\ Tear(c, q.user, {}, ok)
        /\ UNCHANGED <<session, marked, now, missed>>
-----------------------------------------------------------------------------
(* Logout *)

Logout(c, s, ok) ==
    /\ call[c].pc = "idle"
    /\ Authenticate(s, ok)
    /\ call' = [call EXCEPT ![c] = Begin("find", session[s].user, s, None, {})]
    /\ Tear(c, session[s].user, {}, TRUE)
    /\ UNCHANGED <<session, token, marked, access, held, now, missed>>

\* FindActiveByID: a session that is not active, or an error, is a success
\* without effect
FindActive(c) ==
    LET s == call[c].session
    IN  /\ call[c].pc = "find"
        /\ \/ /\ Active(s)
              /\ call' = [call EXCEPT ![c] = Begin("revokeSession", session[s].user, s, None, {s})]
              /\ UNCHANGED faults
           \/ ~Active(s) /\ Return(c) /\ UNCHANGED faults
           \/ Outcome(FALSE) /\ Return(c)
        /\ UNCHANGED <<session, token, marked, access, held, now, torn, missed>>

RevokeSession(c, ok) ==
    /\ call[c].pc = "revokeSession"
    /\ Outcome(ok)
    /\ session' = IF ok THEN [session EXCEPT ![call[c].session].state = "revoked"] ELSE session
    /\ Goto(c, "revokeSessionTokens")
    /\ Tear(c, call[c].user, {}, ok)
    /\ UNCHANGED <<token, marked, access, held, now, missed>>

\* WHERE ... AND revoked_at IS NULL
RevokeTokens(T) ==
    token' = [t \in Tokens |-> IF t \in T /\ token[t].state = "live"
                               THEN [token[t] EXCEPT !.state = "revoked"] ELSE token[t]]

RevokeSessionTokens(c, ok) ==
    /\ call[c].pc = "revokeSessionTokens"
    /\ Outcome(ok)
    /\ IF ok THEN RevokeTokens({t \in Tokens : token[t].session = call[c].session})
             ELSE UNCHANGED token
    /\ Goto(c, "mark")
    /\ Tear(c, call[c].user, {}, ok)
    /\ UNCHANGED <<session, marked, access, held, now, missed>>

\* Mutant: the loop over the sessions returns after the first
MarkFirstOnly(c, s, ok) ==
    /\ call[c].pc = "mark"
    /\ s \in call[c].list
    /\ Outcome(ok)
    /\ marked' = IF ok /\ session[s].expiresAt > now THEN marked \cup {s} ELSE marked
    /\ missed' = IF ok THEN missed ELSE missed \cup {s}
    /\ Return(c)
    /\ UNCHANGED <<session, token, access, held, now, torn>>

\* MarkRevoked, once for each session of the list; a session that has expired
\* is skipped
MarkRevoked(c, s, ok) ==
    LET q == call[c]
    IN  /\ q.pc = "mark"
        /\ s \in q.list
        /\ Outcome(ok)
        /\ marked' = IF ok /\ session[s].expiresAt > now THEN marked \cup {s} ELSE marked
        /\ missed' = IF ok THEN missed ELSE missed \cup {s}
        /\ IF q.list = {s} THEN Return(c)
                           ELSE call' = [call EXCEPT ![c].list = @ \ {s}]
        /\ UNCHANGED <<session, token, access, held, now, torn>>
-----------------------------------------------------------------------------
(* LogoutAll, called by a user or by the reuse of a revoked token *)

LogoutAll(c, s, ok) ==
    /\ call[c].pc = "idle"
    /\ Authenticate(s, ok)
    /\ call' = [call EXCEPT ![c] = Begin("list", session[s].user, None, None, {})]
    /\ Tear(c, session[s].user, {}, TRUE)
    /\ UNCHANGED <<session, token, marked, access, held, now, missed>>

\* ListActiveByUserID; its error ends the call
ListActive(c) ==
    /\ call[c].pc = "list"
    /\ \/ call' = [call EXCEPT ![c] = Begin("revokeAll", @.user, None, None,
                                           {s \in SessionsOf(@.user) : Active(s)})]
          /\ UNCHANGED faults
       \/ Outcome(FALSE) /\ Return(c)
    /\ UNCHANGED <<session, token, marked, access, held, now, torn, missed>>

\* RevokeAllByUserID: also the sessions opened since the list was read, which
\* nobody will mark
RevokeAll(c, ok) ==
    LET live == {s \in SessionsOf(call[c].user) : session[s].state = "live"}
    IN  /\ call[c].pc = "revokeAll"
        /\ Outcome(ok)
        /\ session' = IF ok THEN [s \in Sessions |->
                                    IF s \in live THEN [session[s] EXCEPT !.state = "revoked"]
                                                  ELSE session[s]]
                            ELSE session
        /\ missed' = IF ok THEN missed \cup (live \ call[c].list) ELSE missed
        /\ Goto(c, "revokeUserTokens")
        /\ Tear(c, call[c].user, {}, ok)
        /\ UNCHANGED <<token, marked, access, held, now>>

RevokeUserTokens(c, ok) ==
    LET q == call[c]
    IN  /\ q.pc = "revokeUserTokens"
        /\ Outcome(ok)
        /\ IF ok THEN RevokeTokens({t \in Tokens : token[t].session \in SessionsOf(q.user)})
                 ELSE UNCHANGED token
        /\ IF q.list = {} THEN Return(c) ELSE Goto(c, "mark")
        /\ Tear(c, q.user, {}, ok)
        /\ UNCHANGED <<session, marked, access, held, now, missed>>
-----------------------------------------------------------------------------
Tick ==
    /\ now < MaxTime
    /\ now' = now + 1
    /\ UNCHANGED <<session, token, marked, access, held, faults, call, torn, missed>>

\* The API process dies with all its calls; nothing is replayed
APICrash ==
    /\ Outcome(FALSE)
    /\ \E c \in Callers : call[c].pc # "idle"
    /\ call' = [c \in Callers |-> Idle]
    /\ torn' = torn \cup {s \in Sessions : \E c \in Callers : session[s].user # None
                                                     /\ call[c].user = session[s].user}
    /\ missed' = missed \cup UNION {call[c].list : c \in Callers}
    /\ UNCHANGED <<session, token, marked, access, held, now>>

CallStep(c) ==
    \/ FirstToken(c) \/ FindSession(c) \/ FindActive(c) \/ ListActive(c)
    \/ \E ok \in BOOLEAN :
         \/ RevokeOld(c, ok) \/ CreateNew(c, ok) \/ MarkReplacement(c, ok)
         \/ RevokeSession(c, ok) \/ RevokeSessionTokens(c, ok)
         \/ RevokeAll(c, ok) \/ RevokeUserTokens(c, ok)
         \/ \E s \in Sessions : MarkRevoked(c, s, ok)

Next ==
    \/ \E c \in Callers :
         \/ \E u \in Users, s \in Sessions : Login(c, u, s)
         \/ \E t \in Tokens : Refresh(c, t)
         \/ \E s \in Sessions, ok \in BOOLEAN : Logout(c, s, ok) \/ LogoutAll(c, s, ok)
         \/ CallStep(c)
    \/ Tick
    \/ APICrash

Spec == Init /\ [][Next]_authVars
-----------------------------------------------------------------------------
TypeOK ==
    /\ session \in [Sessions -> Session]
    /\ token \in [Tokens -> Token]
    /\ marked \subseteq Sessions
    /\ access \in [Sessions -> Nat]
    /\ held \subseteq Tokens
    /\ now \in Nat
    /\ faults \in Nat
    /\ call \in [Callers -> Call]
    /\ torn \subseteq Sessions
    /\ missed \subseteq Sessions

Usable(t) ==
    /\ token[t].state = "live"
    /\ token[t].expiresAt >= now
    /\ Active(token[t].session)

Lifetime == INSTANCE SessionLifetime WITH
    opened <- {s \in Sessions : session[s].state # "none"},
    active <- {s \in Sessions : Active(s)},
    owner  <- [t \in Tokens |-> token[t].session],
    usable <- {t \in Tokens : token[t].session # None /\ Usable(t)}

(* The identity service implements SessionLifetime whatever overlaps,      *)
(* fails or crashes (auth_service.go:68-224): no interleaving of a         *)
(* rotation with a logout and no ignored error brings a session or a       *)
(* refresh token back, and a token created by a refresh that a logout      *)
(* overtook is dead when it is stored.                                     *)
ImplementsLifetime == Lifetime!Spec

(* A session whose calls never overlapped, failed or crashed has exactly   *)
(* one usable refresh token while it is active and no call of its user is  *)
(* under way (auth_service.go:97-110, 173-176): a rotation neither leaves  *)
(* the client without a token nor with two, and every token before the     *)
(* last names its successor in replaced_by.                                *)
UndisturbedChain ==
    \A s \in Sessions \ torn :
        Active(s) /\ (\A c \in Callers : call[c].user # session[s].user) =>
            LET chain == {t \in Tokens : token[t].session = s}
            IN  /\ \E last \in chain : {t \in chain : Usable(t)} = {last}
                /\ \A t \in chain : Usable(t) <=> token[t].replacedBy \notin chain

(* Every session revoked in PostgreSQL is marked in Redis, or is about to  *)
(* be by a call under way, unless that call lost a Redis command, died, or *)
(* revoked a session opened after it listed the user's sessions            *)
(* (auth_service.go:201-205, 211-221).  Conversely only a session revoked  *)
(* in PostgreSQL is marked, unless that statement's error was ignored.     *)
RevokedIsMarked ==
    \A s \in Sessions :
        /\ session[s].state = "revoked" /\ session[s].expiresAt > now =>
             s \in marked \cup missed \/ \E c \in Callers : s \in call[c].list
        /\ s \in marked => session[s].state = "revoked" \/ s \in torn
=============================================================================

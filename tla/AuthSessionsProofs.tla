------------------------- MODULE AuthSessionsProofs -------------------------
(***************************************************************************)
(* Proofs about AuthSessions, for every value of its constants: type       *)
(* correctness, RevokedIsMarked, and that the identity service implements  *)
(* SessionLifetime.                                                        *)
(***************************************************************************)
EXTENDS AuthSessions, TLAPS

\* The time limits of the provers
USE SMTT(30), ZenonT(30)

HasSession == {"firstToken", "session", "revokeOld", "createNew", "markReplacement",
               "revokeSession", "revokeSessionTokens"}

HasOld == {"session", "revokeOld", "createNew", "markReplacement"}

HasNoList == {"idle", "firstToken", "session", "revokeOld", "createNew", "markReplacement", "find",
              "list"}

HasRevoked == {"revokeSessionTokens", "revokeUserTokens", "mark"}

\* What holds of the local variables q of a call, given the two tables and torn
CallOK(q, ss, tk, tr) ==
    /\ q.pc \in HasSession => q.session \in Sessions /\ ss[q.session].state # "none"
    /\ q.pc = "find" => q.session \in Sessions
    /\ q.pc \in HasOld => q.old \in Tokens /\ tk[q.old].state # "none"
    /\ q.pc = "markReplacement" => q.new \in Tokens
    /\ q.pc \in HasNoList => q.list = {}
    /\ q.pc \in {"revokeSession", "revokeSessionTokens"} => q.list = {q.session}
    /\ \A s \in q.list : s \in Sessions /\ ss[s].state # "none" /\ ss[s].user = q.user
    /\ q.pc \in HasRevoked => \A s \in q.list : ss[s].state = "revoked" \/ s \in tr

CallsOK == \A c \in Callers : CallOK(call[c], session, token, torn)

\* A token row names the session it was created for
TokenOK(r, ss) ==
    IF r.state = "none" THEN r.session = None
                        ELSE r.session \in Sessions /\ ss[r.session].state # "none"

TokensOK == \A t \in Tokens : TokenOK(token[t], session)

IInv == TypeOK /\ CallsOK /\ TokensOK /\ RevokedIsMarked

\* Session rows are opened once and then only fade
SessionsFade(ss, ss2) ==
    \A s \in Sessions : ss[s].state # "none" =>
        /\ ss2[s].state # "none"
        /\ ss2[s].user = ss[s].user
        /\ ss[s].state = "revoked" => ss2[s].state = "revoked"

TokensStay(tk, tk2) ==
    \A t \in Tokens : tk[t].state # "none" => tk2[t].state # "none" /\ tk2[t].session = tk[t].session

-----------------------------------------------------------------------------
(* What holds of a call is kept by the steps of others: rows stay, their   *)
(* owners do not change, and a revoked session stays revoked.              *)
LEMMA CallKept ==
    ASSUME NEW q, NEW ss, NEW ss2, NEW tk, NEW tk2, NEW tr, NEW tr2,
           CallOK(q, ss, tk, tr), SessionsFade(ss, ss2), TokensStay(tk, tk2), tr \subseteq tr2
    PROVE  CallOK(q, ss2, tk2, tr2)
BY DEF CallOK, SessionsFade, TokensStay

(* One call moves on: the others are kept.                                 *)
LEMMA CallsKept ==
    ASSUME NEW c \in Callers, NEW q, CallsOK, call \in [Callers -> Call],
           SessionsFade(session, session'), TokensStay(token, token'), torn \subseteq torn',
           call' = [call EXCEPT ![c] = q], CallOK(q, session', token', torn')
    PROVE  CallsOK'
<1> SUFFICES ASSUME NEW d \in Callers PROVE CallOK(call'[d], session', token', torn')
    BY DEF CallsOK
<1>1. CASE d = c
    BY <1>1
<1>2. CASE d # c
    <2>1. call'[d] = call[d]
        BY <1>2
    <2>2. CallOK(call[d], session, token, torn)
        BY DEF CallsOK
    <2>3. CallOK(call[d], session', token', torn')
        BY <2>2, CallKept
    <2> QED BY <2>1, <2>3
<1> QED BY <1>1, <1>2

(* The tables and torn are left alone by a step that names none of them.   *)
LEMMA NothingFades ==
    ASSUME NEW ss, NEW tk PROVE SessionsFade(ss, ss) /\ TokensStay(tk, tk)
BY DEF SessionsFade, TokensStay

(* Token rows keep naming their sessions while sessions stay.              *)
LEMMA TokensKept ==
    ASSUME TokensOK, SessionsFade(session, session'), token' = token
    PROVE  TokensOK'
BY DEF TokensOK, TokenOK, SessionsFade

(* RevokedIsMarked is kept by a step that revokes and marks nothing and    *)
(* drops nothing from a list.                                              *)
LEMMA MarkedKept ==
    ASSUME NEW c \in Callers, NEW q, RevokedIsMarked, call \in [Callers -> Call],
           session' = session, marked' = marked, missed' = missed, now' = now, torn \subseteq torn',
           call' = [call EXCEPT ![c] = q], call[c].list \subseteq q.list
    PROVE  RevokedIsMarked'
<1> SUFFICES ASSUME NEW s \in Sessions
             PROVE  /\ session[s].state = "revoked" /\ session[s].expiresAt > now =>
                         s \in marked \cup missed \/ \E d \in Callers : s \in call'[d].list
                    /\ s \in marked => session[s].state = "revoked" \/ s \in torn'
    BY DEF RevokedIsMarked
<1>1. ASSUME NEW d \in Callers, s \in call[d].list PROVE s \in call'[d].list
    BY <1>1
<1> QED BY <1>1 DEF RevokedIsMarked

-----------------------------------------------------------------------------
(* One lemma for each action: it keeps the inductive invariant.            *)

LEMMA LoginInv ==
    ASSUME IInv, NEW c \in Callers, NEW u \in Users, NEW s \in Sessions, Login(c, u, s)
    PROVE  IInv'
<1> DEFINE q == Begin("firstToken", u, s, None, {})
<1>0. TypeOK /\ CallsOK /\ TokensOK /\ RevokedIsMarked
    BY DEF IInv
<1>1. call' = [call EXCEPT ![c] = q] /\ q \in Call
    BY DEF Login, Begin, Call
<1>2. SessionsFade(session, session') /\ token' = token /\ TokensStay(token, token')
    BY <1>0 DEF Login, SessionsFade, TokensStay, TypeOK, Session
<1>3. torn \subseteq torn' /\ torn' \subseteq Sessions
    BY <1>0 DEF Login, Tear, SessionsOf, TypeOK
<1>4. TypeOK'
    <2>1. session' \in [Sessions -> Session]
        BY <1>0, SessionsAssumption DEF Login, TypeOK, Session, RowState
    <2> QED BY <1>0, <1>1, <1>3, <2>1 DEF Login, TypeOK
<1>5. CallOK(q, session', token', torn')
    BY <1>0 DEF CallOK, HasSession, HasOld, HasNoList, HasRevoked, Login, TypeOK, Begin
<1>6. CallsOK'
    BY <1>0, <1>1, <1>2, <1>3, <1>5, CallsKept, Zenon DEF TypeOK
<1>7. TokensOK'
    BY <1>0, <1>2, TokensKept
<1>8. RevokedIsMarked'
    <2>1. call[c].list = {}
        BY <1>0 DEF CallsOK, CallOK, HasNoList, Login
    <2>2. ASSUME NEW d \in Callers PROVE call[d].list \subseteq call'[d].list
        BY <1>0, <1>1, <2>1 DEF TypeOK
    <2>3. ASSUME NEW x \in Sessions, session'[x].state = "revoked"
          PROVE  x # s /\ session'[x] = session[x]
        BY <1>0, <2>3 DEF Login, TypeOK
    <2>4. s \notin marked \/ s \in torn'
        BY <1>0, <1>3 DEF RevokedIsMarked, Login
    <2>5. ASSUME NEW x \in Sessions, x # s PROVE session'[x] = session[x]
        BY <1>0, <2>5 DEF Login, TypeOK
    <2> QED BY <1>0, <1>3, <2>2, <2>3, <2>4, <2>5 DEF RevokedIsMarked, Login
<1> QED BY <1>4, <1>6, <1>7, <1>8 DEF IInv

(* A step that leaves the session table, the keys in Redis and the clock   *)
(* alone keeps the invariant, if its own call and the token table are as   *)
(* they should be.                                                         *)
LEMMA QuietStep ==
    ASSUME IInv, NEW c \in Callers, NEW q \in Call,
           UNCHANGED <<session, marked, now, missed>>,
           call' = [call EXCEPT ![c] = q], call[c].list \subseteq q.list,
           torn \subseteq torn', torn' \subseteq Sessions,
           CallOK(q, session, token', torn'),
           token' \in [Tokens -> Token], TokensStay(token, token'), TokensOK',
           access' \in [Sessions -> Nat], held' \subseteq Tokens, faults' \in Nat
    PROVE  IInv'
<1>0. TypeOK /\ CallsOK /\ TokensOK /\ RevokedIsMarked
    BY DEF IInv
<1>1. TypeOK'
    BY <1>0 DEF TypeOK
<1>2. CallsOK'
    <2>1. SessionsFade(session, session')
        BY NothingFades
    <2> QED BY <1>0, <2>1, CallsKept, Zenon DEF TypeOK
<1>3. RevokedIsMarked'
    BY <1>0, MarkedKept, Zenon DEF TypeOK
<1> QED BY <1>1, <1>2, <1>3 DEF IInv

(* Revoking tokens, and naming their successors, keeps their rows.         *)
LEMMA TokensRevoked ==
    ASSUME TokensOK, session' = session,
           \A t \in Tokens : /\ token'[t].session = token[t].session
                             /\ token'[t].state = "none" <=> token[t].state = "none"
    PROVE  TokensStay(token, token') /\ TokensOK'
BY DEF TokensOK, TokenOK, TokensStay

(* So does the insertion of a fresh token for a session that was opened.   *)
LEMMA TokenStored ==
    ASSUME TokensOK, session' = session, token \in [Tokens -> Token],
           NEW t \in Tokens, NEW s \in Sessions, NEW e \in Nat,
           token[t].state = "none", session[s].state # "none", StoreToken(t, s, e)
    PROVE  TokensStay(token, token') /\ TokensOK' /\ token' \in [Tokens -> Token]
<1> DEFINE r == [state |-> "live", session |-> s, expiresAt |-> e, replacedBy |-> None]
<1>1. token' = [token EXCEPT ![t] = r] /\ r \in Token
    BY DEF StoreToken, Token, RowState
<1>2. r.state = "live" /\ r.session = s
    OBVIOUS
<1> HIDE DEF r
<1>3. ASSUME NEW x \in Tokens PROVE token'[x] = IF x = t THEN r ELSE token[x]
    BY <1>1
<1> QED BY <1>1, <1>2, <1>3 DEF TokensOK, TokenOK, TokensStay

LEMMA RefreshInv ==
    ASSUME IInv, NEW c \in Callers, NEW t \in Tokens, Refresh(c, t)
    PROVE  IInv'
<1> DEFINE q == IF token[t].state = "revoked"
                THEN Begin("list", UserOf(t), None, None, {})
                ELSE Begin("session", UserOf(t), token[t].session, t, {})
<1>0. TypeOK /\ CallsOK /\ TokensOK
    BY DEF IInv
<1>1. token[t].state # "none" /\ token[t].session \in Sessions
      /\ session[token[t].session].state # "none"
    BY <1>0 DEF Refresh, TokensOK, TokenOK
<1>2. UserOf(t) \in Users \cup {None}
    BY <1>0, <1>1 DEF UserOf, TypeOK, Session
<1>3. q \in Call /\ call' = [call EXCEPT ![c] = q]
    BY <1>1, <1>2 DEF Refresh, Begin, Call
<1>4. CallOK(q, session, token, torn')
    BY <1>1, Zenon DEF CallOK, HasSession, HasOld, HasNoList, HasRevoked, Begin
<1>5. torn \subseteq torn' /\ torn' \subseteq Sessions
    BY <1>0 DEF Refresh, Tear, SessionsOf, TypeOK
<1>6. call[c].list = {}
    BY <1>0 DEF CallsOK, CallOK, HasNoList, Refresh
<1>7. UNCHANGED <<session, token, marked, access, held, now, faults, missed>>
    BY DEF Refresh
<1>8. TokensStay(token, token') /\ TokensOK'
    BY <1>0, <1>7, TokensRevoked
<1> HIDE DEF q
<1> QED BY <1>0, <1>3, <1>4, <1>5, <1>6, <1>7, <1>8, QuietStep, Zenon DEF TypeOK

LEMMA LogoutInv ==
    ASSUME IInv, NEW c \in Callers, NEW s \in Sessions, NEW ok \in BOOLEAN, Logout(c, s, ok)
    PROVE  IInv'
<1> DEFINE q == Begin("find", session[s].user, s, None, {})
<1>0. TypeOK /\ CallsOK /\ TokensOK
    BY DEF IInv
<1>1. q \in Call /\ call' = [call EXCEPT ![c] = q]
    BY <1>0 DEF Logout, Begin, Call, TypeOK, Session
<1>2. CallOK(q, session, token, torn')
    BY DEF CallOK, HasSession, HasOld, HasNoList, HasRevoked, Begin
<1>3. torn \subseteq torn' /\ torn' \subseteq Sessions
    BY <1>0 DEF Logout, Tear, SessionsOf, TypeOK
<1>4. call[c].list = {}
    BY <1>0 DEF CallsOK, CallOK, HasNoList, Logout
<1>5. UNCHANGED <<session, token, marked, access, held, now, missed>> /\ faults' \in Nat
    BY <1>0 DEF Logout, Authenticate, Outcome, TypeOK
<1>6. TokensStay(token, token') /\ TokensOK'
    BY <1>0, <1>5, TokensRevoked
<1> HIDE DEF q
<1> QED BY <1>0, <1>1, <1>2, <1>3, <1>4, <1>5, <1>6, QuietStep, Zenon DEF TypeOK

LEMMA LogoutAllInv ==
    ASSUME IInv, NEW c \in Callers, NEW s \in Sessions, NEW ok \in BOOLEAN, LogoutAll(c, s, ok)
    PROVE  IInv'
<1> DEFINE q == Begin("list", session[s].user, None, None, {})
<1>0. TypeOK /\ CallsOK /\ TokensOK
    BY DEF IInv
<1>1. q \in Call /\ call' = [call EXCEPT ![c] = q]
    BY <1>0 DEF LogoutAll, Begin, Call, TypeOK, Session
<1>2. CallOK(q, session, token, torn')
    BY DEF CallOK, HasSession, HasOld, HasNoList, HasRevoked, Begin
<1>3. torn \subseteq torn' /\ torn' \subseteq Sessions
    BY <1>0 DEF LogoutAll, Tear, SessionsOf, TypeOK
<1>4. call[c].list = {}
    BY <1>0 DEF CallsOK, CallOK, HasNoList, LogoutAll
<1>5. UNCHANGED <<session, token, marked, access, held, now, missed>> /\ faults' \in Nat
    BY <1>0 DEF LogoutAll, Authenticate, Outcome, TypeOK
<1>6. TokensStay(token, token') /\ TokensOK'
    BY <1>0, <1>5, TokensRevoked
<1> HIDE DEF q
<1> QED BY <1>0, <1>1, <1>2, <1>3, <1>4, <1>5, <1>6, QuietStep, Zenon DEF TypeOK

(* What a call that returned, and one that went on to its next statement,  *)
(* looks like.                                                             *)
LEMMA IdleCall ==
    ASSUME NEW ss, NEW tk, NEW tr
    PROVE  Idle \in Call /\ CallOK(Idle, ss, tk, tr) /\ Idle.list = {} /\ Idle.user = None
BY DEF Idle, Begin, Call, CallOK, HasSession, HasOld, HasNoList, HasRevoked

PCs == {"idle", "firstToken", "session", "revokeOld", "createNew", "markReplacement",
        "find", "revokeSession", "revokeSessionTokens", "list", "revokeAll", "revokeUserTokens", "mark"}

Moved(q, pc) == [q EXCEPT !.pc = pc]

LEMMA GotoCall ==
    ASSUME NEW c \in Callers, NEW pc \in PCs, call \in [Callers -> Call], Goto(c, pc)
    PROVE  /\ call' = [call EXCEPT ![c] = Moved(call[c], pc)]
           /\ Moved(call[c], pc) \in Call
           /\ Moved(call[c], pc).pc = pc
           /\ Moved(call[c], pc).user = call[c].user
           /\ Moved(call[c], pc).session = call[c].session
           /\ Moved(call[c], pc).old = call[c].old
           /\ Moved(call[c], pc).list = call[c].list
BY DEF Goto, Moved, Call, PCs

LEMMA FindSessionInv ==
    ASSUME IInv, NEW c \in Callers, FindSession(c)
    PROVE  IInv'
<1>0. TypeOK /\ CallsOK /\ TokensOK
    BY DEF IInv
<1>1. UNCHANGED <<session, token, marked, access, held, now, torn, missed>> /\ faults' \in Nat
    BY <1>0 DEF FindSession, Outcome, TypeOK
<1>2. TokensStay(token, token') /\ TokensOK'
    BY <1>0, <1>1, TokensRevoked
<1>3. call[c].list = {} /\ CallOK(call[c], session, token, torn) /\ call[c].pc = "session"
    BY <1>0 DEF CallsOK, CallOK, HasNoList, FindSession
<1>4. CASE Return(c)
    <2>1. Idle \in Call /\ CallOK(Idle, session, token', torn')
        BY IdleCall
    <2> QED BY <1>0, <1>1, <1>2, <1>3, <1>4, <2>1, QuietStep, Zenon DEF TypeOK, Return
<1>5. CASE Goto(c, "revokeOld")
    <2> DEFINE q == Moved(call[c], "revokeOld")
    <2>1. /\ call' = [call EXCEPT ![c] = q] /\ q \in Call /\ q.pc = "revokeOld"
          /\ q.session = call[c].session /\ q.old = call[c].old /\ q.list = call[c].list
        BY <1>0, <1>5, GotoCall DEF TypeOK, PCs
    <2> HIDE DEF q
    <2>2. CallOK(q, session, token', torn')
        BY <1>1, <1>3, <2>1 DEF CallOK, HasSession, HasOld, HasNoList, HasRevoked
    <2> QED BY <1>0, <1>1, <1>2, <1>3, <2>1, <2>2, QuietStep, Zenon DEF TypeOK
<1> QED BY <1>4, <1>5, Zenon DEF FindSession

LEMMA FindActiveInv ==
    ASSUME IInv, NEW c \in Callers, FindActive(c)
    PROVE  IInv'
<1>0. TypeOK /\ CallsOK /\ TokensOK
    BY DEF IInv
<1>1. UNCHANGED <<session, token, marked, access, held, now, torn, missed>> /\ faults' \in Nat
    BY <1>0 DEF FindActive, Outcome, TypeOK
<1>2. TokensStay(token, token') /\ TokensOK'
    BY <1>0, <1>1, TokensRevoked
<1>3. call[c].list = {} /\ call[c].session \in Sessions
    BY <1>0 DEF CallsOK, CallOK, HasNoList, FindActive
<1>4. CASE Return(c)
    <2>1. Idle \in Call /\ CallOK(Idle, session, token', torn')
        BY IdleCall
    <2> QED BY <1>0, <1>1, <1>2, <1>3, <1>4, <2>1, QuietStep, Zenon DEF TypeOK, Return
<1>5. CASE ~Return(c)
    <2>1. PICK s \in Sessions : s = call[c].session
        BY <1>3
    <2> DEFINE q == Begin("revokeSession", session[s].user, s, None, {s})
    <2>2. session[s].state = "live" /\ session[s].user \in Users \cup {None}
        BY <1>0, <1>5, <2>1, Zenon DEF FindActive, Active, TypeOK, Session
    <2>3. q \in Call /\ call' = [call EXCEPT ![c] = q]
        BY <1>5, <2>1, <2>2, Zenon DEF FindActive, Begin, Call
    <2>4. CallOK(q, session, token', torn')
        BY <2>2, Zenon DEF CallOK, HasSession, HasOld, HasNoList, HasRevoked, Begin
    <2> HIDE DEF q
    <2> QED BY <1>0, <1>1, <1>2, <1>3, <2>3, <2>4, QuietStep, Zenon DEF TypeOK
<1> QED BY <1>4, <1>5

LEMMA ListActiveInv ==
    ASSUME IInv, NEW c \in Callers, ListActive(c)
    PROVE  IInv'
<1>0. TypeOK /\ CallsOK /\ TokensOK
    BY DEF IInv
<1>1. UNCHANGED <<session, token, marked, access, held, now, torn, missed>> /\ faults' \in Nat
    BY <1>0 DEF ListActive, Outcome, TypeOK
<1>2. TokensStay(token, token') /\ TokensOK'
    BY <1>0, <1>1, TokensRevoked
<1>3. call[c].list = {} /\ CallOK(call[c], session, token, torn) /\ call[c].pc = "list"
    BY <1>0, Zenon DEF CallsOK, CallOK, HasNoList, ListActive
<1>4. CASE Return(c)
    <2>1. Idle \in Call /\ CallOK(Idle, session, token', torn')
        BY IdleCall
    <2> QED BY <1>0, <1>1, <1>2, <1>3, <1>4, <2>1, QuietStep, Zenon DEF TypeOK, Return
<1> DEFINE L == {s \in SessionsOf(call[c].user) : Active(s)}
           q == Begin("revokeAll", call[c].user, None, None, L)
<1>5. CASE call' = [call EXCEPT ![c] = q]
    <2>1. L \subseteq Sessions /\ \A s \in L : session[s].state = "live" /\ session[s].user = call[c].user
        BY DEF SessionsOf, Active
    <2> HIDE DEF L
    <2>2. q \in Call /\ q.pc = "revokeAll" /\ q.list = L /\ q.user = call[c].user
        BY <1>0, <2>1 DEF TypeOK, Call, Begin
    <2> HIDE DEF q
    <2>3. CallOK(q, session, token', torn')
        BY <2>1, <2>2 DEF CallOK, HasSession, HasOld, HasNoList, HasRevoked
    <2> QED BY <1>0, <1>1, <1>2, <1>3, <1>5, <2>2, <2>3, QuietStep, Zenon DEF TypeOK
<1> QED BY <1>4, <1>5, Zenon DEF ListActive

LEMMA RevokeOldInv ==
    ASSUME IInv, NEW c \in Callers, NEW ok \in BOOLEAN, RevokeOld(c, ok)
    PROVE  IInv'
<1>0. TypeOK /\ CallsOK /\ TokensOK
    BY DEF IInv
<1>1. UNCHANGED <<session, marked, access, held, now, missed>> /\ faults' \in Nat
    BY <1>0 DEF RevokeOld, Outcome, TypeOK
<1>2. /\ CallOK(call[c], session, token, torn) /\ call[c].pc = "revokeOld"
      /\ call[c].old \in Tokens /\ token[call[c].old].state # "none"
    BY <1>0 DEF CallsOK, CallOK, HasOld, RevokeOld
<1>3. token' \in [Tokens -> Token] /\ \A t \in Tokens :
        token'[t].session = token[t].session /\ (token'[t].state = "none" <=> token[t].state = "none")
    BY <1>0, <1>2 DEF RevokeOld, TypeOK, Token, RowState
<1>4. TokensStay(token, token') /\ TokensOK'
    BY <1>0, <1>1, <1>3, TokensRevoked
<1>5. torn \subseteq torn' /\ torn' \subseteq Sessions
    BY <1>0 DEF RevokeOld, Tear, SessionsOf, TypeOK
<1> DEFINE q == Moved(call[c], "createNew")
<1>6. /\ call' = [call EXCEPT ![c] = q] /\ q \in Call /\ q.pc = "createNew"
      /\ q.session = call[c].session /\ q.old = call[c].old /\ q.list = call[c].list
    BY <1>0, GotoCall DEF TypeOK, PCs, RevokeOld
<1> HIDE DEF q
<1>7. CallOK(q, session, token', torn')
    BY <1>2, <1>4, <1>6, Zenon DEF CallOK, HasSession, HasOld, HasNoList, HasRevoked, TokensStay
<1> QED BY <1>0, <1>1, <1>3, <1>4, <1>5, <1>6, <1>7, QuietStep, Zenon DEF TypeOK

(* Answering returns the call and hands out a token and an access token.   *)
LEMMA AnswerType ==
    ASSUME TypeOK, NEW c \in Callers, NEW t \in Tokens, NEW s \in Sessions, Answer(c, t, s)
    PROVE  held' \subseteq Tokens /\ access' \in [Sessions -> Nat] /\ call' = [call EXCEPT ![c] = Idle]
BY SessionsAssumption DEF Answer, AccessExpiry, Return, TypeOK

LEMMA FirstTokenInv ==
    ASSUME IInv, NEW c \in Callers, FirstToken(c)
    PROVE  IInv'
<1> DEFINE s == call[c].session
<1>0. TypeOK /\ CallsOK /\ TokensOK
    BY DEF IInv
<1>1. UNCHANGED <<session, marked, now, missed>>
    BY DEF FirstToken
<1>2. call[c].list = {} /\ s \in Sessions /\ session[s].state # "none" /\ session[s].expiresAt \in Nat
    BY <1>0, Zenon DEF CallsOK, CallOK, HasNoList, HasSession, FirstToken, TypeOK, Session
<1>3. Idle \in Call /\ CallOK(Idle, session, token', torn')
    BY IdleCall
<1>4. CASE \E t \in Tokens : Fresh(t) /\ StoreToken(t, s, session[s].expiresAt)
                             /\ Answer(c, t, s) /\ UNCHANGED <<faults, torn>>
    <2>1. PICK t \in Tokens : Fresh(t) /\ StoreToken(t, s, session[s].expiresAt)
                              /\ Answer(c, t, s) /\ UNCHANGED <<faults, torn>>
        BY <1>4
    <2>2. TokensStay(token, token') /\ TokensOK' /\ token' \in [Tokens -> Token]
        BY <1>0, <1>1, <1>2, <2>1, TokenStored, Zenon DEF TypeOK, Fresh
    <2>3. held' \subseteq Tokens /\ access' \in [Sessions -> Nat] /\ call' = [call EXCEPT ![c] = Idle]
        BY <1>0, <1>2, <2>1, AnswerType, Zenon
    <2> QED BY <1>0, <1>1, <1>2, <1>3, <2>1, <2>2, <2>3, QuietStep, Zenon DEF TypeOK
<1>5. CASE Outcome(FALSE) /\ Return(c) /\ Tear(c, call[c].user, {}, FALSE)
           /\ UNCHANGED <<token, held, access>>
    <2>1. torn \subseteq torn' /\ torn' \subseteq Sessions /\ faults' \in Nat
        BY <1>0, <1>5 DEF Tear, SessionsOf, TypeOK, Outcome
    <2>2. TokensStay(token, token') /\ TokensOK'
        BY <1>0, <1>1, <1>5, TokensRevoked
    <2> QED BY <1>0, <1>1, <1>2, <1>3, <1>5, <2>1, <2>2, QuietStep, Zenon DEF TypeOK, Return
<1> QED BY <1>4, <1>5, Zenon DEF FirstToken

LEMMA CreateNewInv ==
    ASSUME IInv, NEW c \in Callers, NEW ok \in BOOLEAN, CreateNew(c, ok)
    PROVE  IInv'
<1> DEFINE s == call[c].session
<1>0. TypeOK /\ CallsOK /\ TokensOK
    BY DEF IInv
<1>1. UNCHANGED <<session, marked, access, held, now, missed>> /\ faults' \in Nat
    BY <1>0 DEF CreateNew, Outcome, TypeOK
<1>2. /\ call[c].list = {} /\ s \in Sessions /\ session[s].state # "none"
      /\ call[c].old \in Tokens /\ token[call[c].old].state # "none"
    BY <1>0 DEF CallsOK, CallOK, HasNoList, HasSession, HasOld, CreateNew
<1>3. NewExpiry(s) \in Nat
    BY <1>0, <1>2, SessionsAssumption DEF NewExpiry, TypeOK, Session
<1>4. torn \subseteq torn' /\ torn' \subseteq Sessions
    BY <1>0 DEF CreateNew, Tear, SessionsOf, TypeOK
<1>5. PICK t \in Tokens :
         /\ Fresh(t)
         /\ IF ok THEN StoreToken(t, s, NewExpiry(s)) ELSE UNCHANGED token
         /\ call' = [call EXCEPT ![c] = [@ EXCEPT !.pc = "markReplacement", !.new = t,
                                                  !.stored = ok]]
    BY Zenon DEF CreateNew
<1>6. TokensStay(token, token') /\ TokensOK' /\ token' \in [Tokens -> Token]
    <2>1. CASE ok
        BY <1>0, <1>1, <1>2, <1>3, <1>5, <2>1, TokenStored DEF TypeOK, Fresh
    <2>2. CASE ~ok
        BY <1>0, <1>1, <1>5, <2>2, TokensRevoked DEF TypeOK
    <2> QED BY <2>1, <2>2
<1> DEFINE q == [call[c] EXCEPT !.pc = "markReplacement", !.new = t, !.stored = ok]
<1>7. /\ call' = [call EXCEPT ![c] = q] /\ q \in Call /\ q.pc = "markReplacement" /\ q.new = t
      /\ q.session = s /\ q.old = call[c].old /\ q.list = call[c].list
    BY <1>0, <1>5, Zenon DEF TypeOK, Call
<1> HIDE DEF q
<1>8. CallOK(q, session, token', torn')
    BY <1>2, <1>6, <1>7, Zenon DEF CallOK, HasSession, HasOld, HasNoList, HasRevoked, TokensStay
<1> QED BY <1>0, <1>1, <1>2, <1>4, <1>6, <1>7, <1>8, QuietStep, Zenon DEF TypeOK

LEMMA ReplacedRow ==
    ASSUME NEW r \in Token, NEW x \in Tokens \cup {None, NilUUID}
    PROVE  /\ [r EXCEPT !.state = "revoked", !.replacedBy = x] \in Token
           /\ [r EXCEPT !.state = "revoked", !.replacedBy = x].session = r.session
           /\ [r EXCEPT !.state = "revoked", !.replacedBy = x].state = "revoked"
           /\ [r EXCEPT !.state = "revoked", !.replacedBy = x].expiresAt = r.expiresAt
BY Zenon DEF Token, RowState

LEMMA MarkReplacementInv ==
    ASSUME IInv, NEW c \in Callers, NEW ok \in BOOLEAN, MarkReplacement(c, ok)
    PROVE  IInv'
<1> DEFINE q == call[c]
<1>0. TypeOK /\ CallsOK /\ TokensOK
    BY DEF IInv
<1>1. UNCHANGED <<session, marked, now, missed>> /\ faults' \in Nat
    BY <1>0 DEF MarkReplacement, Outcome, TypeOK
<1>2. /\ q.list = {} /\ q.session \in Sessions /\ q.new \in Tokens
      /\ q.old \in Tokens /\ token[q.old].state # "none"
    BY <1>0 DEF CallsOK, CallOK, HasNoList, HasSession, HasOld, MarkReplacement
<1>3. Replacement(q) \in Tokens \cup {None, NilUUID}
    BY <1>2 DEF Replacement
<1>4. token' \in [Tokens -> Token] /\ \A t \in Tokens :
        token'[t].session = token[t].session /\ (token'[t].state = "none" <=> token[t].state = "none")
    <2> DEFINE r == [token[q.old] EXCEPT !.state = "revoked", !.replacedBy = Replacement(q)]
    <2>1. r \in Token /\ r.session = token[q.old].session /\ r.state = "revoked"
        BY <1>0, <1>2, <1>3, ReplacedRow, Zenon DEF TypeOK
    <2>2. token' = IF ok THEN [token EXCEPT ![q.old] = r] ELSE token
        BY DEF MarkReplacement
    <2> HIDE DEF r
    <2> QED BY <1>0, <1>2, <2>1, <2>2, Zenon DEF TypeOK
<1>5. TokensStay(token, token') /\ TokensOK'
    BY <1>0, <1>1, <1>4, TokensRevoked
<1>6. torn \subseteq torn' /\ torn' \subseteq Sessions
    BY <1>0 DEF MarkReplacement, Tear, SessionsOf, TypeOK
<1>7. held' \subseteq Tokens /\ access' \in [Sessions -> Nat] /\ call' = [call EXCEPT ![c] = Idle]
    BY <1>0, <1>2, AnswerType DEF MarkReplacement
<1>8. Idle \in Call /\ CallOK(Idle, session, token', torn')
    BY IdleCall
<1> QED BY <1>0, <1>1, <1>2, <1>4, <1>5, <1>6, <1>7, <1>8, QuietStep, Zenon DEF TypeOK

LEMMA RevokeTokensType ==
    ASSUME TypeOK, TokensOK, session' = session, NEW T, RevokeTokens(T) \/ UNCHANGED token
    PROVE  token' \in [Tokens -> Token] /\ TokensStay(token, token') /\ TokensOK'
<1>1. token' \in [Tokens -> Token] /\ \A t \in Tokens :
        token'[t].session = token[t].session /\ (token'[t].state = "none" <=> token[t].state = "none")
    BY DEF RevokeTokens, TypeOK, Token, RowState
<1> QED BY <1>1, TokensRevoked

LEMMA RevokeSessionTokensInv ==
    ASSUME IInv, NEW c \in Callers, NEW ok \in BOOLEAN, RevokeSessionTokens(c, ok)
    PROVE  IInv'
<1>0. TypeOK /\ CallsOK /\ TokensOK
    BY DEF IInv
<1>1. UNCHANGED <<session, marked, access, held, now, missed>> /\ faults' \in Nat
    BY <1>0 DEF RevokeSessionTokens, Outcome, TypeOK
<1>2. token' \in [Tokens -> Token] /\ TokensStay(token, token') /\ TokensOK'
    BY <1>0, <1>1, RevokeTokensType DEF RevokeSessionTokens
<1>3. torn \subseteq torn' /\ torn' \subseteq Sessions
    BY <1>0, Zenon DEF RevokeSessionTokens, Tear, SessionsOf, TypeOK
<1>4. CallOK(call[c], session, token, torn) /\ call[c].pc = "revokeSessionTokens"
    BY <1>0, Zenon DEF CallsOK, RevokeSessionTokens
<1> DEFINE q == Moved(call[c], "mark")
<1>5. /\ call' = [call EXCEPT ![c] = q] /\ q \in Call /\ q.pc = "mark"
      /\ q.user = call[c].user /\ q.list = call[c].list
    BY <1>0, GotoCall, Zenon DEF TypeOK, PCs, RevokeSessionTokens
<1> HIDE DEF q
<1>6. CallOK(q, session, token', torn')
    BY <1>3, <1>4, <1>5, Zenon DEF CallOK, HasSession, HasOld, HasNoList, HasRevoked
<1> QED BY <1>0, <1>1, <1>2, <1>3, <1>5, <1>6, QuietStep, Zenon DEF TypeOK

LEMMA RevokeUserTokensInv ==
    ASSUME IInv, NEW c \in Callers, NEW ok \in BOOLEAN, RevokeUserTokens(c, ok)
    PROVE  IInv'
<1>0. TypeOK /\ CallsOK /\ TokensOK
    BY DEF IInv
<1>1. UNCHANGED <<session, marked, access, held, now, missed>> /\ faults' \in Nat
    BY <1>0 DEF RevokeUserTokens, Outcome, TypeOK
<1>2. token' \in [Tokens -> Token] /\ TokensStay(token, token') /\ TokensOK'
    BY <1>0, <1>1, RevokeTokensType DEF RevokeUserTokens
<1>3. torn \subseteq torn' /\ torn' \subseteq Sessions
    BY <1>0, Zenon DEF RevokeUserTokens, Tear, SessionsOf, TypeOK
<1>4. CallOK(call[c], session, token, torn) /\ call[c].pc = "revokeUserTokens"
    BY <1>0 DEF CallsOK, RevokeUserTokens
<1>5. CASE call[c].list = {} /\ Return(c)
    <2>1. Idle \in Call /\ CallOK(Idle, session, token', torn')
        BY IdleCall
    <2> QED BY <1>0, <1>1, <1>2, <1>3, <1>5, <2>1, QuietStep, Zenon DEF TypeOK, Return
<1>6. CASE Goto(c, "mark")
    <2> DEFINE q == Moved(call[c], "mark")
    <2>1. /\ call' = [call EXCEPT ![c] = q] /\ q \in Call /\ q.pc = "mark"
          /\ q.user = call[c].user /\ q.list = call[c].list
        BY <1>0, <1>6, GotoCall, Zenon DEF TypeOK, PCs
    <2> HIDE DEF q
    <2>2. CallOK(q, session, token', torn')
        BY <1>3, <1>4, <2>1, Zenon DEF CallOK, HasSession, HasOld, HasNoList, HasRevoked
    <2> QED BY <1>0, <1>1, <1>2, <1>3, <2>1, <2>2, QuietStep, Zenon DEF TypeOK
<1> QED BY <1>5, <1>6, Zenon DEF RevokeUserTokens
-----------------------------------------------------------------------------
(* The steps that revoke or mark sessions, time, and a crash.              *)

LEMMA RevokeSessionInv ==
    ASSUME IInv, NEW c \in Callers, NEW ok \in BOOLEAN, RevokeSession(c, ok)
    PROVE  IInv'
<1> DEFINE q == Moved(call[c], "revokeSessionTokens")
           s == call[c].session
<1>0. TypeOK /\ CallsOK /\ TokensOK /\ RevokedIsMarked
    BY DEF IInv
<1>1. UNCHANGED <<token, marked, access, held, now, missed>> /\ faults' \in Nat
    BY <1>0 DEF RevokeSession, Outcome, TypeOK
<1>2. /\ s \in Sessions /\ session[s].state # "none"
      /\ call[c].list = {s} /\ session[s].user = call[c].user
    BY <1>0 DEF CallsOK, CallOK, HasSession, RevokeSession
<1>3. /\ session' \in [Sessions -> Session]
      /\ \A x \in Sessions : x # s => session'[x] = session[x]
      /\ session'[s].state # "none" /\ session'[s].user = session[s].user
      /\ session'[s].expiresAt = session[s].expiresAt
      /\ ok => session'[s].state = "revoked"
      /\ session[s].state = "revoked" => session'[s].state = "revoked"
    BY <1>0, <1>2 DEF RevokeSession, TypeOK, Session, RowState
<1>4. SessionsFade(session, session') /\ TokensStay(token, token')
    BY <1>1, <1>3, Zenon DEF SessionsFade, TokensStay
<1>5. torn \subseteq torn' /\ torn' \subseteq Sessions /\ (ok \/ s \in torn')
    BY <1>0, <1>2 DEF RevokeSession, Tear, SessionsOf, TypeOK
<1>6. /\ call' = [call EXCEPT ![c] = q] /\ q \in Call /\ q.pc = "revokeSessionTokens"
      /\ q.user = call[c].user /\ q.list = call[c].list /\ q.session = s
    BY <1>0, GotoCall DEF TypeOK, PCs, RevokeSession
<1> HIDE DEF q
<1>7. CallsOK'
    <2>1. CallOK(q, session', token', torn')
        BY <1>2, <1>3, <1>5, <1>6, Zenon DEF CallOK, HasSession, HasOld, HasNoList, HasRevoked
    <2> QED BY <1>0, <1>4, <1>5, <1>6, <2>1, CallsKept, Zenon DEF TypeOK
<1>8. TokensOK'
    BY <1>0, <1>1, <1>4, TokensKept
<1>9. RevokedIsMarked'
    <2>1. ASSUME NEW d \in Callers PROVE call'[d].list = call[d].list
        BY <1>0, <1>6 DEF TypeOK
    <2> QED BY <1>0, <1>1, <1>2, <1>3, <1>5, <2>1, Zenon DEF RevokedIsMarked
<1>10. TypeOK'
    BY <1>0, <1>1, <1>3, <1>5, <1>6, Zenon DEF TypeOK
<1> QED BY <1>7, <1>8, <1>9, <1>10 DEF IInv

LEMMA RevokeAllInv ==
    ASSUME IInv, NEW c \in Callers, NEW ok \in BOOLEAN, RevokeAll(c, ok)
    PROVE  IInv'
<1> DEFINE q == Moved(call[c], "revokeUserTokens")
           live == {s \in SessionsOf(call[c].user) : session[s].state = "live"}
<1>0. TypeOK /\ CallsOK /\ TokensOK /\ RevokedIsMarked
    BY DEF IInv
<1>1. UNCHANGED <<token, marked, access, held, now>> /\ faults' \in Nat
    BY <1>0 DEF RevokeAll, Outcome, TypeOK
<1>2. CallOK(call[c], session, token, torn)
    BY <1>0 DEF CallsOK
<1>3. /\ session' \in [Sessions -> Session]
      /\ \A x \in Sessions :
           /\ session'[x].user = session[x].user /\ session'[x].expiresAt = session[x].expiresAt
           /\ session'[x].state = IF ok /\ x \in live THEN "revoked" ELSE session[x].state
    BY <1>0 DEF RevokeAll, TypeOK, Session, RowState
<1>4. SessionsFade(session, session') /\ TokensStay(token, token')
    BY <1>1, <1>3 DEF SessionsFade, TokensStay
<1>5. torn \subseteq torn' /\ torn' \subseteq Sessions /\ (ok \/ SessionsOf(call[c].user) \subseteq torn')
    BY <1>0 DEF RevokeAll, Tear, SessionsOf, TypeOK
<1>6. /\ call' = [call EXCEPT ![c] = q] /\ q \in Call /\ q.pc = "revokeUserTokens"
      /\ q.user = call[c].user /\ q.list = call[c].list
    BY <1>0, GotoCall DEF TypeOK, PCs, RevokeAll
<1> HIDE DEF q
<1>7. \A x \in call[c].list : x \in SessionsOf(call[c].user)
                              /\ (session[x].state = "revoked" \/ x \in live)
    BY <1>0, <1>2, Zenon DEF CallOK, SessionsOf, TypeOK, Session, RowState
<1>8. CallsOK'
    <2>1. \A x \in q.list : /\ x \in Sessions /\ session'[x].state # "none"
                            /\ session'[x].user = q.user
        BY <1>2, <1>3, <1>6 DEF CallOK
    <2>2. \A x \in q.list : session'[x].state = "revoked" \/ x \in torn'
        BY <1>3, <1>5, <1>6, <1>7, Zenon DEF SessionsOf
    <2>3. CallOK(q, session', token', torn')
        BY <1>6, <2>1, <2>2, Zenon DEF CallOK, HasSession, HasOld, HasNoList, HasRevoked
    <2> QED BY <1>0, <1>4, <1>5, <1>6, <2>3, CallsKept, Zenon DEF TypeOK
<1>9. TokensOK'
    BY <1>0, <1>1, <1>4, TokensKept
<1>10. missed \subseteq missed' /\ missed' \subseteq Sessions
       /\ (ok => live \subseteq missed' \cup call[c].list)
    BY <1>0 DEF RevokeAll, SessionsOf, TypeOK
<1>11. RevokedIsMarked'
    <2>1. ASSUME NEW d \in Callers PROVE call'[d].list = call[d].list
        BY <1>0, <1>6 DEF TypeOK
    <2> HIDE DEF live
    <2> QED BY <1>0, <1>1, <1>3, <1>5, <1>10, <2>1, Zenon DEF RevokedIsMarked
<1>12. TypeOK'
    BY <1>0, <1>1, <1>3, <1>5, <1>6, <1>10, Zenon DEF TypeOK
<1> QED BY <1>8, <1>9, <1>11, <1>12 DEF IInv

LEMMA MarkRevokedInv ==
    ASSUME IInv, NEW c \in Callers, NEW s \in Sessions, NEW ok \in BOOLEAN, MarkRevoked(c, s, ok)
    PROVE  IInv'
<1>0. TypeOK /\ CallsOK /\ TokensOK /\ RevokedIsMarked
    BY DEF IInv
<1>1. UNCHANGED <<session, token, access, held, now, torn>> /\ faults' \in Nat
    BY <1>0 DEF MarkRevoked, Outcome, TypeOK
<1>2. CallOK(call[c], session, token, torn) /\ call[c].pc = "mark" /\ s \in call[c].list
    BY <1>0 DEF CallsOK, MarkRevoked
<1>3. session[s].state = "revoked" \/ s \in torn
    BY <1>2, Zenon DEF CallOK, HasRevoked
<1>4. /\ marked \subseteq marked' /\ marked' \subseteq marked \cup {s}
      /\ missed \subseteq missed' /\ missed' \subseteq Sessions
      /\ session[s].expiresAt > now => s \in marked' \cup missed'
    BY <1>0 DEF MarkRevoked, TypeOK
<1>5. PICK q \in Call : /\ call' = [call EXCEPT ![c] = q] /\ call[c].list \ {s} \subseteq q.list
                        /\ CallOK(q, session, token, torn)
    <2>1. CASE call[c].list = {s} /\ Return(c)
        <3>1. Idle \in Call /\ CallOK(Idle, session, token, torn)
            BY IdleCall, Zenon
        <3>2. call' = [call EXCEPT ![c] = Idle] /\ call[c].list \ {s} \subseteq Idle.list
            BY <2>1 DEF Return
        <3> QED BY <3>1, <3>2, Zenon
    <2>2. CASE call' = [call EXCEPT ![c].list = @ \ {s}]
        <3> DEFINE r == [call[c] EXCEPT !.list = @ \ {s}]
        <3>1. /\ call' = [call EXCEPT ![c] = r] /\ r \in Call
              /\ r.pc = call[c].pc /\ r.user = call[c].user /\ r.list = call[c].list \ {s}
            BY <1>0, <2>2 DEF TypeOK, Call
        <3> HIDE DEF r
        <3>2. CallOK(r, session, token, torn)
            BY <1>2, <3>1, Zenon DEF CallOK, HasSession, HasOld, HasNoList, HasRevoked
        <3> QED BY <3>1, <3>2, Zenon
    <2> QED BY <2>1, <2>2 DEF MarkRevoked
<1>6. SessionsFade(session, session') /\ TokensStay(token, token')
    BY <1>1, NothingFades
<1>7. CallsOK'
    BY <1>0, <1>1, <1>5, <1>6, CallsKept, Zenon DEF TypeOK
<1>8. TokensOK'
    BY <1>0, <1>1, <1>6, TokensKept
<1>9. RevokedIsMarked'
    <2>1. ASSUME NEW d \in Callers PROVE call[d].list \ {s} \subseteq call'[d].list
        BY <1>0, <1>5, Zenon DEF TypeOK
    <2> QED BY <1>0, <1>1, <1>3, <1>4, <2>1, Zenon DEF RevokedIsMarked
<1>10. TypeOK'
    BY <1>0, <1>1, <1>4, <1>5, Zenon DEF TypeOK
<1> QED BY <1>7, <1>8, <1>9, <1>10 DEF IInv

LEMMA TickInv ==
    ASSUME IInv, Tick PROVE IInv'
<1>0. TypeOK /\ CallsOK /\ TokensOK /\ RevokedIsMarked
    BY DEF IInv
<1>1. TypeOK' /\ CallsOK' /\ TokensOK'
    BY <1>0 DEF Tick, TypeOK, CallsOK, TokensOK
<1>2. ASSUME NEW s \in Sessions, session[s].expiresAt > now' PROVE session[s].expiresAt > now
    BY <1>0, <1>2 DEF Tick, TypeOK, Session
<1>3. RevokedIsMarked'
    BY <1>0, <1>2, Zenon DEF RevokedIsMarked, Tick
<1> QED BY <1>1, <1>3 DEF IInv

LEMMA APICrashInv ==
    ASSUME IInv, APICrash PROVE IInv'
<1>0. TypeOK /\ CallsOK /\ TokensOK /\ RevokedIsMarked
    BY DEF IInv
<1>1. UNCHANGED <<session, token, marked, access, held, now>> /\ faults' \in Nat
    BY <1>0 DEF APICrash, Outcome, TypeOK
<1>2. Idle \in Call /\ CallOK(Idle, session, token, torn')
    BY IdleCall
<1>3. call' = [c \in Callers |-> Idle]
    BY DEF APICrash
<1>4. torn \subseteq torn' /\ torn' \subseteq Sessions
    BY <1>0, Zenon DEF APICrash, TypeOK
<1>5. missed \subseteq missed' /\ missed' \subseteq Sessions
      /\ \A c \in Callers : call[c].list \subseteq missed'
    BY <1>0 DEF APICrash, TypeOK, Call
<1>6. TypeOK'
    BY <1>0, <1>1, <1>2, <1>3, <1>4, <1>5, Zenon DEF TypeOK
<1>7. CallsOK' /\ TokensOK'
    BY <1>0, <1>1, <1>2, <1>3 DEF CallsOK, TokensOK
<1>8. RevokedIsMarked'
    BY <1>0, <1>1, <1>4, <1>5, Zenon DEF RevokedIsMarked
<1> QED BY <1>6, <1>7, <1>8 DEF IInv

LEMMA InitInv == Init => IInv
<1> SUFFICES ASSUME Init PROVE IInv
    OBVIOUS
<1>1. Idle \in Call /\ CallOK(Idle, session, token, torn)
    BY IdleCall, Zenon
<1>2. TypeOK
    BY <1>1, Zenon DEF Init, TypeOK, Session, Token, RowState
<1>3. CallsOK
    BY <1>1, Zenon DEF Init, CallsOK
<1>4. TokensOK /\ RevokedIsMarked
    BY Zenon DEF Init, TokensOK, TokenOK, RevokedIsMarked
<1> QED BY <1>2, <1>3, <1>4 DEF IInv

LEMMA CallStepInv ==
    ASSUME IInv, NEW c \in Callers, CallStep(c) PROVE IInv'
BY FirstTokenInv, FindSessionInv, FindActiveInv, ListActiveInv, RevokeOldInv, CreateNewInv, MarkReplacementInv,
   RevokeSessionInv, RevokeSessionTokensInv, RevokeAllInv, RevokeUserTokensInv, MarkRevokedInv, Zenon
   DEF CallStep

LEMMA NextInv == IInv /\ [Next]_authVars => IInv'
<1> SUFFICES ASSUME IInv, [Next]_authVars PROVE IInv'
    OBVIOUS
<1>1. CASE Next
    BY <1>1, LoginInv, RefreshInv, LogoutInv, LogoutAllInv, CallStepInv, TickInv, APICrashInv DEF Next
<1>2. CASE UNCHANGED authVars
    BY <1>2, Zenon DEF authVars, IInv, TypeOK, CallsOK, TokensOK, RevokedIsMarked
<1> QED BY <1>1, <1>2

LEMMA Inductive == Spec => []IInv
BY InitInv, NextInv, PTL DEF Spec

(* Every variable keeps its type, for any number of users, sessions,       *)
(* tokens, callers and faults.                                             *)
THEOREM TypeCorrect == Spec => []TypeOK
<1>1. IInv => TypeOK
    BY DEF IInv
<1> QED BY <1>1, Inductive, PTL

(* A session revoked in PostgreSQL is marked in Redis or will be, unless   *)
(* a command was lost or the session was opened behind LogoutAll's list;   *)
(* and only a revoked session is marked, unless an error was ignored.      *)
THEOREM RevokedStaysMarked == Spec => []RevokedIsMarked
<1>1. IInv => RevokedIsMarked
    BY DEF IInv
<1> QED BY <1>1, Inductive, PTL
-----------------------------------------------------------------------------
(* The refinement: Login opens a session, FirstToken and CreateNew issue a *)
(* token, and every other step can only retire sessions and tokens.        *)

\* Sessions and tokens only fade, and the clock does not go back
Fades ==
    /\ \A s \in Sessions : /\ session'[s].expiresAt = session[s].expiresAt
                           /\ session'[s].state = "none" <=> session[s].state = "none"
                           /\ session'[s].state = "live" => session[s].state = "live"
    /\ \A t \in Tokens : /\ token'[t].session = token[t].session
                         /\ token'[t].expiresAt = token[t].expiresAt
                         /\ token'[t].state = "live" => token[t].state = "live"
    /\ now' \in Nat /\ now' >= now

LEMMA FadesRetires ==
    ASSUME TypeOK, Fades PROVE Lifetime!Retire
<1>1. ASSUME NEW s \in Sessions, Active(s)' PROVE Active(s)
    BY <1>1 DEF Fades, Active, TypeOK, Session
<1>2. ASSUME NEW t \in Tokens, token'[t].session # None, Usable(t)'
      PROVE  /\ token[t].session # None /\ Usable(t)
             /\ \E s \in Sessions : token[t].session = s /\ Active(s)'
    <2>1. PICK s \in Sessions : token[t].session = s /\ token'[t].session = s
        BY <1>2 DEF Fades, TypeOK, Token
    <2>2. Active(s)' /\ token'[t].state = "live" /\ token'[t].expiresAt >= now'
        BY <1>2, <2>1 DEF Usable, Active
    <2>3. token[t].state = "live" /\ token[t].expiresAt >= now
        BY <2>2 DEF Fades, TypeOK, Token
    <2>4. Active(s)
        BY <1>1, <2>2
    <2> QED BY <1>2, <2>1, <2>2, <2>3, <2>4, Zenon DEF Usable
<1>3. {s \in Sessions : session'[s].state # "none"} = {s \in Sessions : session[s].state # "none"}
    BY Zenon DEF Fades
<1>4. [t \in Tokens |-> token'[t].session] = [t \in Tokens |-> token[t].session]
    BY DEF Fades
<1> QED BY <1>1, <1>2, <1>3, <1>4, Zenon DEF Lifetime!Retire

LEMMA LoginOpens ==
    ASSUME IInv, NEW c \in Callers, NEW u \in Users, NEW s \in Sessions, Login(c, u, s)
    PROVE  Lifetime!Open(s)
<1>0. TypeOK /\ TokensOK
    BY DEF IInv
<1>1. session[s].state = "none" /\ token' = token /\ now' = now
    BY Zenon DEF Login
<1>2. session'[s].state = "live" /\ session'[s].expiresAt = now + SessionTTL
    BY <1>0, Zenon DEF Login, TypeOK
<1>3. \A x \in Sessions : x # s => session'[x] = session[x]
    BY <1>0, Zenon DEF Login, TypeOK
<1>4. Active(s)' /\ ~Active(s)
    BY <1>0, <1>1, <1>2, SessionsAssumption DEF Active, TypeOK
<1>5. \A x \in Sessions : x # s => (Active(x)' <=> Active(x))
    BY <1>1, <1>3, Zenon DEF Active
<1>6. ASSUME NEW t \in Tokens, token[t].session # None
      PROVE  Usable(t)' <=> Usable(t)
    <2>1. PICK x \in Sessions : token[t].session = x /\ x # s
        BY <1>0, <1>1, <1>6 DEF TokensOK, TokenOK
    <2>2. Active(x)' <=> Active(x)
        BY <1>5, <2>1
    <2> QED BY <1>1, <2>1, <2>2, Zenon DEF Usable, Active
<1> QED BY <1>1, <1>2, <1>3, <1>4, <1>5, <1>6, Zenon DEF Lifetime!Open

LEMMA StoreIssues ==
    ASSUME TypeOK, TokensOK, NEW t \in Tokens, NEW s \in Sessions, NEW e \in Nat,
           token[t].state = "none", session[s].state # "none",
           Active(s) => e >= now, StoreToken(t, s, e), session' = session, now' = now
    PROVE  Lifetime!Issue(t, s)
<1>1. token[t].session = None
    BY Zenon DEF TokensOK, TokenOK
<1>2. token'[t].session = s /\ token'[t].state = "live" /\ token'[t].expiresAt = e
    BY Zenon DEF StoreToken, TypeOK
<1>3. \A x \in Tokens : x # t => token'[x] = token[x]
    BY Zenon DEF StoreToken, TypeOK
<1>4. \A x \in Sessions : Active(x)' <=> Active(x)
    BY Zenon DEF Active
<1>5. Usable(t)' <=> Active(s)
    BY <1>2, Zenon DEF Usable, Active, TypeOK, Session
<1>6. ASSUME NEW x \in Tokens, x # t, token[x].session # None PROVE Usable(x)' <=> Usable(x)
    BY <1>3, <1>6, Zenon DEF Usable, Active
<1>7. [x \in Tokens |-> token'[x].session] = [[x \in Tokens |-> token[x].session] EXCEPT ![t] = s]
    BY <1>2, <1>3, Zenon
<1>8. s # None
    BY SessionsAssumption, Zenon
<1> QED BY <1>1, <1>2, <1>3, <1>4, <1>5, <1>6, <1>7, <1>8 DEF Lifetime!Issue

LEMMA UnchangedFades ==
    ASSUME TypeOK, UNCHANGED <<session, token, now>> PROVE Fades
BY DEF Fades, TypeOK

LEMMA TokensFade ==
    ASSUME IInv, NEW c \in Callers, NEW ok \in BOOLEAN,
           \/ RevokeOld(c, ok) \/ MarkReplacement(c, ok)
           \/ RevokeSessionTokens(c, ok) \/ RevokeUserTokens(c, ok)
    PROVE  Fades
<1>0. TypeOK /\ CallOK(call[c], session, token, torn)
    BY DEF IInv, CallsOK
<1>1. session' = session /\ now' = now /\ now \in Nat
    BY <1>0 DEF RevokeOld, MarkReplacement, RevokeSessionTokens, RevokeUserTokens, TypeOK
<1>2. \A t \in Tokens : /\ token'[t].session = token[t].session
                        /\ token'[t].expiresAt = token[t].expiresAt
                        /\ token'[t].state = "live" => token[t].state = "live"
    <2>1. CASE RevokeOld(c, ok)
        <3>1. call[c].old \in Tokens
            BY <1>0, <2>1 DEF CallOK, HasOld, RevokeOld
        <3> QED BY <1>0, <2>1, <3>1 DEF RevokeOld, TypeOK, Token
    <2>2. CASE MarkReplacement(c, ok)
        <3> DEFINE o == call[c].old
                   r == [token[o] EXCEPT !.state = "revoked", !.replacedBy = Replacement(call[c])]
        <3>1. o \in Tokens /\ call[c].new \in Tokens
            BY <1>0, <2>2 DEF CallOK, HasOld, MarkReplacement
        <3>2. Replacement(call[c]) \in Tokens \cup {None, NilUUID}
            BY <3>1, Zenon DEF Replacement
        <3>3. r.session = token[o].session /\ r.state = "revoked" /\ r.expiresAt = token[o].expiresAt
            BY <1>0, <3>1, <3>2, ReplacedRow, Zenon DEF TypeOK
        <3>4. token' = IF ok THEN [token EXCEPT ![o] = r] ELSE token
            BY <2>2 DEF MarkReplacement
        <3> HIDE DEF r
        <3> QED BY <1>0, <3>1, <3>3, <3>4, Zenon DEF TypeOK
    <2>3. ASSUME NEW T, RevokeTokens(T) \/ UNCHANGED token
          PROVE  \A t \in Tokens : /\ token'[t].session = token[t].session
                                   /\ token'[t].expiresAt = token[t].expiresAt
                                   /\ token'[t].state = "live" => token[t].state = "live"
        BY <1>0, <2>3 DEF RevokeTokens, TypeOK, Token
    <2>4. CASE RevokeSessionTokens(c, ok)
        BY <2>3, <2>4, Zenon DEF RevokeSessionTokens
    <2>5. CASE RevokeUserTokens(c, ok)
        BY <2>3, <2>5, Zenon DEF RevokeUserTokens
    <2> QED BY <2>1, <2>2, <2>4, <2>5, Zenon
<1> QED BY <1>1, <1>2 DEF Fades

LEMMA SessionsEnd ==
    ASSUME IInv, NEW c \in Callers, NEW ok \in BOOLEAN, RevokeSession(c, ok) \/ RevokeAll(c, ok)
    PROVE  Fades
<1>0. TypeOK /\ CallOK(call[c], session, token, torn)
    BY DEF IInv, CallsOK
<1>1. token' = token /\ now' = now /\ now \in Nat
    BY <1>0 DEF RevokeSession, RevokeAll, TypeOK
<1>2. \A s \in Sessions : /\ session'[s].expiresAt = session[s].expiresAt
                          /\ session'[s].state = "none" <=> session[s].state = "none"
                          /\ session'[s].state = "live" => session[s].state = "live"
    <2>1. CASE RevokeSession(c, ok)
        <3>1. call[c].session \in Sessions /\ session[call[c].session].state # "none"
            BY <1>0, <2>1 DEF CallOK, HasSession, RevokeSession
        <3> QED BY <1>0, <2>1, <3>1 DEF RevokeSession, TypeOK, Session
    <2>2. CASE RevokeAll(c, ok)
        BY <1>0, <2>2 DEF RevokeAll, TypeOK, Session, SessionsOf
    <2> QED BY <2>1, <2>2, Zenon
<1> QED BY <1>1, <1>2 DEF Fades

LEMMA FirstTokenIssues ==
    ASSUME IInv, NEW c \in Callers, FirstToken(c)
    PROVE  Fades \/ \E t \in Tokens, s \in Sessions : Lifetime!Issue(t, s)
<1>0. TypeOK /\ TokensOK /\ CallOK(call[c], session, token, torn)
    BY DEF IInv, CallsOK
<1>1. PICK s \in Sessions :
        s = call[c].session /\ session[s].state # "none" /\ session[s].expiresAt \in Nat
    BY <1>0, Zenon DEF CallOK, HasSession, FirstToken, TypeOK, Session
<1>2. Active(s) => session[s].expiresAt >= now
    BY <1>0, <1>1 DEF Active, TypeOK
<1>3. CASE \E t \in Tokens : Fresh(t) /\ StoreToken(t, s, session[s].expiresAt)
    <2>1. PICK t \in Tokens : Fresh(t) /\ StoreToken(t, s, session[s].expiresAt)
        BY <1>3
    <2>2. Lifetime!Issue(t, s)
        BY <1>0, <1>1, <1>2, <2>1, StoreIssues, Zenon DEF FirstToken, Fresh
    <2> QED BY <1>1, <2>2, Zenon
<1>4. CASE UNCHANGED token
    BY <1>0, <1>4, UnchangedFades, Zenon DEF FirstToken
<1> QED BY <1>1, <1>3, <1>4, Zenon DEF FirstToken

LEMMA CreateNewIssues ==
    ASSUME IInv, NEW c \in Callers, NEW ok \in BOOLEAN, CreateNew(c, ok)
    PROVE  Fades \/ \E t \in Tokens, s \in Sessions : Lifetime!Issue(t, s)
<1>0. TypeOK /\ TokensOK /\ CallOK(call[c], session, token, torn)
    BY DEF IInv, CallsOK
<1>1. PICK s \in Sessions :
        s = call[c].session /\ session[s].state # "none" /\ session[s].expiresAt \in Nat
    BY <1>0 DEF CallOK, HasSession, CreateNew, TypeOK, Session
<1>2. NewExpiry(s) \in Nat /\ (Active(s) => NewExpiry(s) >= now)
    BY <1>0, <1>1, SessionsAssumption DEF Active, TypeOK, NewExpiry
<1>3. CASE ok
    <2>1. PICK t \in Tokens : Fresh(t) /\ StoreToken(t, s, NewExpiry(s))
        BY <1>1, <1>3 DEF CreateNew
    <2>2. Lifetime!Issue(t, s)
        BY <1>0, <1>1, <1>2, <2>1, StoreIssues DEF CreateNew, Fresh
    <2> QED BY <1>1, <2>2, Zenon
<1>4. CASE ~ok
    BY <1>0, <1>4, UnchangedFades DEF CreateNew
<1> QED BY <1>3, <1>4

LEMMA CallStepSimulates ==
    ASSUME IInv, NEW c \in Callers, CallStep(c)
    PROVE  Fades \/ \E t \in Tokens, s \in Sessions : Lifetime!Issue(t, s)
<1>0. TypeOK
    BY DEF IInv
<1>1. CASE FindSession(c) \/ FindActive(c) \/ ListActive(c)
    BY <1>0, <1>1, UnchangedFades, Zenon DEF FindSession, FindActive, ListActive
<1>2. ASSUME NEW ok \in BOOLEAN, NEW s \in Sessions, MarkRevoked(c, s, ok) PROVE Fades
    BY <1>0, <1>2, UnchangedFades DEF MarkRevoked
<1> QED BY <1>1, <1>2, FirstTokenIssues, CreateNewIssues, TokensFade, SessionsEnd, Zenon DEF CallStep

LEMMA NextSimulates == IInv /\ [Next]_authVars => [Lifetime!Next]_(Lifetime!vars)
<1> SUFFICES ASSUME IInv, [Next]_authVars PROVE Lifetime!Next
    OBVIOUS
<1>0. TypeOK
    BY DEF IInv
<1>1. ASSUME Fades PROVE Lifetime!Next
    BY <1>0, <1>1, FadesRetires DEF Lifetime!Next
<1>2. ASSUME NEW c \in Callers, NEW u \in Users, NEW s \in Sessions, Login(c, u, s)
      PROVE  Lifetime!Next
    BY <1>2, LoginOpens DEF Lifetime!Next
<1>3. ASSUME NEW c \in Callers, NEW t \in Tokens, Refresh(c, t) PROVE Fades
    BY <1>0, <1>3, UnchangedFades, Zenon DEF Refresh
<1>4. ASSUME NEW c \in Callers, NEW s \in Sessions, NEW ok \in BOOLEAN,
             Logout(c, s, ok) \/ LogoutAll(c, s, ok)
      PROVE  Fades
    BY <1>0, <1>4, UnchangedFades, Zenon DEF Logout, LogoutAll
<1>5. ASSUME NEW c \in Callers, CallStep(c) PROVE Lifetime!Next
    BY <1>1, <1>5, CallStepSimulates DEF Lifetime!Next
<1>6. CASE Tick
    BY <1>0, <1>1, <1>6 DEF Tick, Fades, TypeOK
<1>7. CASE APICrash
    BY <1>0, <1>1, <1>7, UnchangedFades DEF APICrash
<1>8. CASE UNCHANGED authVars
    BY <1>0, <1>1, <1>8, UnchangedFades DEF authVars
<1> QED BY <1>1, <1>2, <1>3, <1>4, <1>5, <1>6, <1>7, <1>8 DEF Next

LEMMA InitSimulates == Init => Lifetime!Init
BY DEF Init, Lifetime!Init, Active, Usable

(* The identity service implements SessionLifetime, for any number of      *)
(* users, sessions, tokens, concurrent calls and failures: no ended        *)
(* session and no spent refresh token comes back.                          *)
THEOREM SessionsRefineLifetime == Spec => ImplementsLifetime
BY Inductive, InitSimulates, NextSimulates, PTL DEF Spec, ImplementsLifetime, Lifetime!Spec
=============================================================================

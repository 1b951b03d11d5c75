------------------------- MODULE SessionChainProofs -------------------------
(***************************************************************************)
(* The proof that a session whose calls never overlapped, failed or        *)
(* crashed has exactly one usable refresh token whenever no call of its    *)
(* user is under way, for every value of the constants.  The predicates    *)
(* take the tables they speak of as parameters: ss the sessions, tk the    *)
(* tokens, cl the calls.                                                   *)
(***************************************************************************)
EXTENDS AuthSessionsProofs

\* The time limits of the provers
USE SMTT(30), ZenonT(30)

\* Token x of s was rotated: it is revoked and names its successor
Spent(x, s, tk) ==
    /\ tk[x].state = "revoked"
    /\ tk[x].replacedBy \in Tokens
    /\ tk[tk[x].replacedBy].session = s

\* Every token of s but t and r was rotated
SpentBut(s, t, r, tk) == \A x \in Tokens \ {t, r} : tk[x].session = s => Spent(x, s, tk)

\* Token t of s is live and was not rotated
Last(t, s, tk) ==
    /\ t \in Tokens
    /\ tk[t].session = s /\ tk[t].state = "live" /\ tk[t].replacedBy = None

HasLast(s, tk) == \E t \in Tokens : Last(t, s, tk) /\ SpentBut(s, t, t, tk)

\* Token t of s is being rotated
Turning(t, s, tk) ==
    /\ t \in Tokens
    /\ tk[t].session = s /\ tk[t].state = "revoked" /\ tk[t].replacedBy = None

\* The program counters between the statements that change a chain
Rotating == {"firstToken", "createNew", "markReplacement"}

\* What call q, at work on s, has done to the chain of s
ChainOf(q, s, tk) ==
    /\ q.pc = "firstToken" => \A x \in Tokens : tk[x].session # s
    /\ q.pc \in {"session", "revokeOld"} => Last(q.old, s, tk)
    /\ q.pc = "createNew" => Turning(q.old, s, tk) /\ SpentBut(s, q.old, q.old, tk)
    /\ q.pc = "markReplacement" => /\ Turning(q.old, s, tk) /\ Last(q.new, s, tk)
                                   /\ q.stored
                                   /\ SpentBut(s, q.old, q.new, tk)

\* Call q of the owner of s leaves s as it should be
Fits(q, s, tk) ==
    /\ q.pc # "revokeUserTokens"
    /\ q.session = s => ChainOf(q, s, tk)

\* The chain of a session s of u that nothing disturbed
Undisturbed(s, u, tk, cl) ==
    /\ \A c, d \in Callers : cl[c].user = u /\ cl[d].user = u => c = d
    /\ \A c \in Callers : cl[c].user = u => Fits(cl[c], s, tk)
    /\ (\A c \in Callers : ~(cl[c].user = u /\ cl[c].session = s /\ cl[c].pc \in Rotating))
          => HasLast(s, tk)

\* A call works on a session of its user; an idle goroutine has no user
CallUser(q, ss, tk) ==
    /\ q.pc = "idle" => q.user = None
    /\ q.pc = "find" => ss[q.session].state # "none"
    /\ q.pc \in HasSession \cup {"find"} => q.user = ss[q.session].user
    /\ q.pc \in HasOld => tk[q.old].session = q.session

CallUsers == \A c \in Callers : CallUser(call[c], session, token)

SessionTimes ==
    \A s \in Sessions : session[s].state # "none" =>
        session[s].user \in Users /\ session[s].expiresAt <= now + SessionTTL

\* A token expires with its session
TokenTimes ==
    \A t \in Tokens : token[t].state # "none" => token[t].expiresAt = session[token[t].session].expiresAt

Chains ==
    \A s \in Sessions \ torn :
        session[s].state = "live" => Undisturbed(s, session[s].user, token, call)

\* Access tokens are issued for sessions that were opened
Opened == \A s \in Sessions : access[s] # 0 => session[s].state # "none"

Frame == CallUsers /\ SessionTimes /\ TokenTimes /\ Opened

ChainInv == IInv /\ Frame /\ Chains
-----------------------------------------------------------------------------
(* The call of the only goroutine at work for the owner of s.              *)
LEMMA Lone ==
    ASSUME NEW s, NEW u, NEW tk, NEW cl \in [Callers -> Call], NEW c \in Callers, NEW q \in Call,
           \A d \in Callers \ {c} : cl[d].user # u,
           q.user = u => Fits(q, s, tk),
           ~(q.user = u /\ q.session = s /\ q.pc \in Rotating) => HasLast(s, tk)
    PROVE  Undisturbed(s, u, tk, [cl EXCEPT ![c] = q])
<1> DEFINE cl2 == [cl EXCEPT ![c] = q]
<1>1. cl2[c] = q /\ \A d \in Callers \ {c} : cl2[d].user # u
    OBVIOUS
<1> HIDE DEF cl2
<1> QED BY <1>1 DEF Undisturbed

(* A call of another user, which leaves the tokens of s alone.             *)
LEMMA Other ==
    ASSUME NEW s, NEW u, NEW tk, NEW tk2, NEW cl \in [Callers -> Call], NEW c \in Callers, NEW q \in Call,
           Undisturbed(s, u, tk, cl), cl[c].user # u, q.user # u,
           \A x \in Tokens : tk[x].session = s => tk2[x] = tk[x],
           \A x \in Tokens : tk2[x].session = s => tk[x].session = s
    PROVE  Undisturbed(s, u, tk2, [cl EXCEPT ![c] = q])
<1> DEFINE cl2 == [cl EXCEPT ![c] = q]
<1>1. cl2[c].user # u /\ \A d \in Callers \ {c} : cl2[d] = cl[d]
    OBVIOUS
<1> HIDE DEF cl2
<1>2. \A x, y \in Tokens : SpentBut(s, x, y, tk) => SpentBut(s, x, y, tk2)
    BY DEF SpentBut, Spent
<1>3. \A x : Last(x, s, tk) => Last(x, s, tk2)
    BY DEF Last
<1>4. \A x : Turning(x, s, tk) => Turning(x, s, tk2)
    BY DEF Turning
<1>5. HasLast(s, tk) => HasLast(s, tk2)
    BY <1>2, <1>3 DEF HasLast
<1>6. \A p \in Call : Fits(p, s, tk) => Fits(p, s, tk2)
    <2> SUFFICES ASSUME NEW p \in Call, ChainOf(p, s, tk) PROVE ChainOf(p, s, tk2)
        BY DEF Fits
    <2>1. p.pc = "firstToken" => \A x \in Tokens : tk2[x].session # s
        BY DEF ChainOf
    <2>2. p.pc = "createNew" => p.old \in Tokens
        BY DEF ChainOf, Turning
    <2>3. p.pc = "markReplacement" => p.old \in Tokens /\ p.new \in Tokens
        BY DEF ChainOf, Turning, Last
    <2> QED BY <1>2, <1>3, <1>4, <2>1, <2>2, <2>3 DEF ChainOf
<1>7. \A d \in Callers : cl2[d].user = u => Fits(cl2[d], s, tk2)
    BY <1>1, <1>6 DEF Undisturbed
<1> QED BY <1>1, <1>5, <1>7 DEF Undisturbed

(* The steps of the frame: rows are added and never removed, and keep      *)
(* their owners and expiries.                                              *)
RowsGrow ==
    /\ \A s \in Sessions :
         IF session[s].state = "none"
         THEN session'[s].state # "none" => /\ session'[s].user \in Users
                                            /\ session'[s].expiresAt <= now + SessionTTL
         ELSE /\ session'[s].state # "none"
              /\ session'[s].user = session[s].user
              /\ session'[s].expiresAt = session[s].expiresAt
    /\ \A t \in Tokens :
         IF token[t].state = "none"
         THEN token'[t].state # "none" =>
                token'[t].expiresAt = session'[token'[t].session].expiresAt
         ELSE /\ token'[t].state # "none"
              /\ token'[t].session = token[t].session
              /\ token'[t].expiresAt = token[t].expiresAt
    /\ \A s \in Sessions : access'[s] # access[s] => session'[s].state # "none"

LEMMA TimesKept ==
    ASSUME TypeOK, TokensOK, SessionTimes, TokenTimes, Opened, RowsGrow, now' \in Nat, now' >= now,
           session' \in [Sessions -> Session]
    PROVE  SessionTimes' /\ TokenTimes' /\ Opened'
<1>1. SessionTimes'
    <2> SUFFICES ASSUME NEW s \in Sessions, session'[s].state # "none"
                 PROVE  session'[s].user \in Users /\ session'[s].expiresAt <= now' + SessionTTL
        BY DEF SessionTimes
    <2>1. session'[s].user \in Users /\ session'[s].expiresAt <= now + SessionTTL
        BY DEF RowsGrow, SessionTimes
    <2>2. session'[s].expiresAt \in Nat /\ now \in Nat /\ SessionTTL \in Nat
        BY SessionsAssumption DEF Session, TypeOK
    <2> QED BY <2>1, <2>2
<1>2. TokenTimes'
    BY DEF RowsGrow, TokenTimes, TokensOK, TokenOK
<1>3. Opened'
    BY DEF RowsGrow, Opened
<1> QED BY <1>1, <1>2, <1>3

LEMMA UsersKept ==
    ASSUME TypeOK, CallsOK, CallUsers, RowsGrow, NEW c \in Callers, NEW q \in Call,
           call' = [call EXCEPT ![c] = q], CallUser(q, session', token')
    PROVE  CallUsers'
<1> SUFFICES ASSUME NEW d \in Callers PROVE CallUser(call'[d], session', token')
    BY DEF CallUsers
<1>1. CASE d = c
    BY <1>1 DEF TypeOK
<1>2. CASE d # c
    <2>1. call'[d] = call[d] /\ CallUser(call[d], session, token) /\ CallOK(call[d], session, token, torn)
        BY <1>2 DEF TypeOK, CallUsers, CallsOK
    <2>2. call[d].pc \in HasSession \cup {"find"} =>
            call[d].session \in Sessions /\ session[call[d].session].state # "none"
        BY <2>1 DEF CallOK, CallUser
    <2>3. call[d].pc \in HasOld => call[d].old \in Tokens /\ token[call[d].old].state # "none"
        BY <2>1 DEF CallOK
    <2>4. call[d].pc \in HasSession \cup {"find"} =>
            /\ session'[call[d].session].state # "none"
            /\ session'[call[d].session].user = session[call[d].session].user
        BY <2>2 DEF RowsGrow
    <2>5. call[d].pc \in HasOld => token'[call[d].old].session = token[call[d].old].session
        BY <2>3 DEF RowsGrow
    <2> QED BY <2>1, <2>4, <2>5 DEF CallUser
<1> QED BY <1>1, <1>2

(* A step of goroutine c keeps the frame.                                  *)
LEMMA FrameKept ==
    ASSUME ChainInv, IInv', RowsGrow, now' = now, NEW c \in Callers, NEW q \in Call,
           call' = [call EXCEPT ![c] = q], CallUser(q, session', token')
    PROVE  Frame'
<1>0. TypeOK /\ CallsOK /\ TokensOK /\ CallUsers /\ SessionTimes /\ TokenTimes /\ Opened
    BY DEF ChainInv, IInv, Frame
<1>1. session' \in [Sessions -> Session] /\ now' \in Nat /\ now' >= now
    BY <1>0 DEF IInv, TypeOK
<1>2. CallUsers'
    BY <1>0, UsersKept, Zenon
<1>3. SessionTimes' /\ TokenTimes' /\ Opened'
    BY <1>0, <1>1, TimesKept
<1> QED BY <1>2, <1>3 DEF Frame

(* A step that changes no row keeps them.                                  *)
LEMMA NoRows ==
    ASSUME UNCHANGED <<session, token, access>> PROVE RowsGrow
BY DEF RowsGrow

LEMMA IdleUser ==
    ASSUME NEW ss, NEW tk PROVE CallUser(Idle, ss, tk) /\ Idle.user = None /\ Idle \in Call
<1>1. Idle.pc = "idle" /\ Idle.user = None /\ Idle \in Call
    BY DEF Idle, Begin, Call
<1> QED BY <1>1 DEF CallUser, HasSession, HasOld
-----------------------------------------------------------------------------
(* Steps of a call that is under way.                                      *)

\* What is left to show of a session of the user for whom c makes its step
OwnChain(q, s, u, tk) ==
    /\ q.user = u => Fits(q, s, tk)
    /\ ~(q.user = u /\ q.session = s /\ q.pc \in Rotating) => HasLast(s, tk)

\* Only tokens of sessions of u change
OnlyTokensOf(u) ==
    \A x \in Tokens :
        \/ token'[x] = token[x]
        \/ \E r \in Sessions : /\ session[r].user = u
                               /\ token'[x].session = r
                               /\ token[x].session \in {r, None}

LEMMA ChainStep ==
    ASSUME ChainInv, NEW c \in Callers, NEW q \in Call, call' = [call EXCEPT ![c] = q],
           q.user \in {call[c].user, None}, torn \subseteq torn',
           \A s \in Sessions : session'[s].state = "live" => session'[s] = session[s],
           OnlyTokensOf(call[c].user),
           \A s \in Sessions \ torn' :
              /\ session'[s].state = "live" /\ session[s].user = call[c].user
              /\ Undisturbed(s, session[s].user, token, call)
              => OwnChain(q, s, session[s].user, token')
    PROVE  Chains'
<1> SUFFICES ASSUME NEW s \in Sessions, s \notin torn', session'[s].state = "live"
             PROVE  Undisturbed(s, session'[s].user, token', call')
    BY Zenon DEF Chains
<1>0. TypeOK /\ SessionTimes /\ Chains
    BY DEF ChainInv, IInv, Frame
<1>1. PICK u \in Users : u = session[s].user
    BY <1>0 DEF SessionTimes
<1>2. session'[s].user = u /\ Undisturbed(s, u, token, call)
    BY <1>0, <1>1 DEF Chains
<1>3. u # None /\ call \in [Callers -> Call]
    BY <1>0, SessionsAssumption DEF TypeOK
<1>4. CASE call[c].user = u
    <2>1. OwnChain(q, s, u, token')
        BY <1>1, <1>2, <1>4
    <2>2. \A d \in Callers \ {c} : call[d].user # u
        BY <1>2, <1>4 DEF Undisturbed
    <2> QED BY <1>2, <1>3, <2>1, <2>2, Lone, Zenon DEF OwnChain
<1>5. CASE call[c].user # u
    <2>1. \A x \in Tokens : token[x].session = s => token'[x] = token[x]
        BY <1>1, <1>5, SessionsAssumption DEF OnlyTokensOf
    <2>2. \A x \in Tokens : token'[x].session = s => token[x].session = s
        BY <1>1, <1>5 DEF OnlyTokensOf
    <2>3. q.user # u
        BY <1>3, <1>5
    <2> QED BY <1>2, <1>3, <1>5, <2>1, <2>2, <2>3, Other, Zenon
<1> QED BY <1>4, <1>5

(* The only call of the owner of s, if it is not changing the chain of s,  *)
(* found it complete.                                                      *)
LEMMA OwnLast ==
    ASSUME NEW s, NEW u, NEW tk, NEW cl \in [Callers -> Call], NEW c \in Callers,
           Undisturbed(s, u, tk, cl), cl[c].user = u, ~(cl[c].session = s /\ cl[c].pc \in Rotating)
    PROVE  HasLast(s, tk)
BY DEF Undisturbed

(* A chain whose tokens stay as they are stays complete.                   *)
LEMMA LastKept ==
    ASSUME NEW s, NEW tk, NEW tk2, HasLast(s, tk),
           \A x \in Tokens : tk[x].session = s => tk2[x] = tk[x],
           \A x \in Tokens : tk2[x].session = s => tk[x].session = s
    PROVE  HasLast(s, tk2)
<1>1. PICK t \in Tokens : Last(t, s, tk) /\ SpentBut(s, t, t, tk)
    BY DEF HasLast
<1>2. Last(t, s, tk2)
    BY <1>1 DEF Last
<1>3. SpentBut(s, t, t, tk2)
    BY <1>1 DEF SpentBut, Spent
<1> QED BY <1>2, <1>3 DEF HasLast

(* A step that fails disturbs every session of its user.                   *)
LEMMA FailureTears ==
    ASSUME NEW c, NEW u, NEW ok \in BOOLEAN, Tear(c, u, {}, ok)
    PROVE  torn \subseteq torn' /\ (ok \/ \A s \in Sessions : session[s].user = u => s \in torn')
BY DEF Tear, SessionsOf

(* A step that reads, or writes neither table, away from the rotation.     *)
LEMMA QuietChain ==
    ASSUME ChainInv, NEW c \in Callers, NEW q \in Call, call' = [call EXCEPT ![c] = q],
           q.user \in {call[c].user, None}, torn \subseteq torn', token' = token,
           \A s \in Sessions : session'[s].state = "live" => session'[s] = session[s],
           call[c].pc \notin Rotating, q.pc \notin Rotating, q.pc # "revokeUserTokens",
           q.pc \in {"session", "revokeOld"} =>
              call[c].pc = "session" /\ q.old = call[c].old /\ q.session = call[c].session
    PROVE  Chains'
<1>0. call \in [Callers -> Call]
    BY DEF ChainInv, IInv, TypeOK
<1>1. OnlyTokensOf(call[c].user)
    BY DEF OnlyTokensOf
<1>2. ASSUME NEW s \in Sessions, session[s].user = call[c].user,
             Undisturbed(s, session[s].user, token, call)
      PROVE  OwnChain(q, s, session[s].user, token')
    <2>1. HasLast(s, token)
        BY <1>0, <1>2, OwnLast
    <2>2. q.session = s => ChainOf(q, s, token)
        BY <1>2 DEF ChainOf, Undisturbed, Fits, Rotating
    <2> QED BY <2>1, <2>2 DEF OwnChain, Fits
<1> QED BY <1>1, <1>2, ChainStep, Zenon

LEMMA FindSessionChain ==
    ASSUME ChainInv, NEW c \in Callers, FindSession(c) PROVE ChainInv'
<1>0. IInv /\ TypeOK /\ CallUser(call[c], session, token)
    BY DEF ChainInv, IInv, Frame, CallUsers
<1>1. IInv'
    BY <1>0, FindSessionInv
<1>2. UNCHANGED <<session, token, access, now, torn>> /\ call[c].pc = "session"
    BY DEF FindSession
<1>3. RowsGrow
    BY <1>2, NoRows
<1>4. PICK q \in Call : /\ call' = [call EXCEPT ![c] = q]
                        /\ q = Idle \/ /\ q.pc = "revokeOld" /\ q.user = call[c].user
                                       /\ q.session = call[c].session /\ q.old = call[c].old
    <2>1. CASE Return(c)
        BY <2>1, IdleUser, Zenon DEF Return
    <2>2. CASE Goto(c, "revokeOld")
        BY <1>0, <2>2, GotoCall DEF TypeOK, PCs
    <2> QED BY <2>1, <2>2, Zenon DEF FindSession
<1>5. CallUser(q, session', token') /\ q.user \in {call[c].user, None}
    <2>1. CASE q = Idle
        BY <2>1, IdleUser
    <2>2. CASE q # Idle
        BY <1>0, <1>2, <1>4, <2>2 DEF CallUser, HasSession, HasOld
    <2> QED BY <2>1, <2>2
<1>6. Chains'
    <2>1. q.pc \in {"idle", "revokeOld"}
        BY <1>4 DEF Idle, Begin
    <2> QED BY <1>2, <1>4, <1>5, <2>1, QuietChain, Zenon DEF Rotating, Idle, Begin
<1>7. Frame'
    BY <1>1, <1>2, <1>3, <1>4, <1>5, FrameKept, Zenon
<1> QED BY <1>1, <1>6, <1>7 DEF ChainInv

LEMMA FindActiveChain ==
    ASSUME ChainInv, NEW c \in Callers, FindActive(c) PROVE ChainInv'
<1>0. IInv /\ TypeOK /\ CallUser(call[c], session, token) /\ CallOK(call[c], session, token, torn)
    BY DEF ChainInv, IInv, Frame, CallUsers, CallsOK
<1>1. IInv'
    BY <1>0, FindActiveInv
<1>2. UNCHANGED <<session, token, access, now, torn>> /\ call[c].pc = "find"
    BY DEF FindActive
<1>3. RowsGrow
    BY <1>2, NoRows
<1>4. call[c].session \in Sessions /\ call[c].user = session[call[c].session].user
    BY <1>0, <1>2 DEF CallOK, CallUser
<1>5. PICK q \in Call : /\ call' = [call EXCEPT ![c] = q]
                        /\ q = Idle \/ /\ q.pc = "revokeSession" /\ q.user = call[c].user
                                       /\ q.session = call[c].session
    <2>1. CASE Return(c)
        BY <2>1, IdleUser, Zenon DEF Return
    <2>2. CASE ~Return(c)
        <3> DEFINE s == call[c].session
                   r == Begin("revokeSession", session[s].user, s, None, {s})
        <3>1. call' = [call EXCEPT ![c] = r]
            BY <2>2, Zenon DEF FindActive
        <3>2. r \in Call /\ r.pc = "revokeSession" /\ r.user = call[c].user /\ r.session = call[c].session
            BY <1>0, <1>4, Zenon DEF Begin, Call, TypeOK
        <3> HIDE DEF r
        <3> QED BY <3>1, <3>2, Zenon
    <2> QED BY <2>1, <2>2
<1>6. CallUser(q, session', token') /\ q.user \in {call[c].user, None}
    <2>1. CASE q = Idle
        BY <2>1, IdleUser
    <2>2. CASE q # Idle
        BY <1>2, <1>4, <1>5, <2>2 DEF CallUser, HasSession, HasOld
    <2> QED BY <2>1, <2>2
<1>7. Chains'
    <2>1. q.pc \in {"idle", "revokeSession"}
        BY <1>5 DEF Idle, Begin
    <2> QED BY <1>2, <1>5, <1>6, <2>1, QuietChain, Zenon DEF Rotating
<1>8. Frame'
    BY <1>1, <1>2, <1>3, <1>5, <1>6, FrameKept, Zenon
<1> QED BY <1>1, <1>7, <1>8 DEF ChainInv

LEMMA ListActiveChain ==
    ASSUME ChainInv, NEW c \in Callers, ListActive(c) PROVE ChainInv'
<1>0. IInv /\ TypeOK
    BY DEF ChainInv, IInv
<1>1. IInv'
    BY <1>0, ListActiveInv
<1>2. UNCHANGED <<session, token, access, now, torn>> /\ call[c].pc = "list"
    BY DEF ListActive
<1>3. RowsGrow
    BY <1>2, NoRows
<1>4. PICK q \in Call : /\ call' = [call EXCEPT ![c] = q]
                        /\ q = Idle \/ (q.pc = "revokeAll" /\ q.user = call[c].user)
    <2>1. CASE Return(c)
        BY <2>1, IdleUser, Zenon DEF Return
    <2> DEFINE L == {s \in SessionsOf(call[c].user) : Active(s)}
               r == Begin("revokeAll", call[c].user, None, None, L)
    <2>2. CASE call' = [call EXCEPT ![c] = r]
        <3>1. L \subseteq Sessions
            BY DEF SessionsOf
        <3> HIDE DEF L
        <3>2. r \in Call /\ r.pc = "revokeAll" /\ r.user = call[c].user
            BY <1>0, <3>1 DEF Begin, Call, TypeOK
        <3> HIDE DEF r
        <3> QED BY <2>2, <3>2, Zenon
    <2> QED BY <2>1, <2>2, Zenon DEF ListActive
<1>5. /\ q.pc \in {"idle", "revokeAll"} /\ (q.pc = "idle" => q.user = None)
      /\ q.user \in {call[c].user, None}
    BY <1>4 DEF Idle, Begin
<1>6. CallUser(q, session', token')
    BY <1>5 DEF CallUser, HasSession, HasOld
<1>7. Chains'
    BY <1>2, <1>4, <1>5, <1>6, QuietChain, Zenon DEF Rotating
<1>8. Frame'
    BY <1>1, <1>2, <1>3, <1>4, <1>6, FrameKept, Zenon
<1> QED BY <1>1, <1>7, <1>8 DEF ChainInv

LEMMA MarkRevokedChain ==
    ASSUME ChainInv, NEW c \in Callers, NEW s \in Sessions, NEW ok \in BOOLEAN, MarkRevoked(c, s, ok)
    PROVE  ChainInv'
<1>0. IInv /\ TypeOK
    BY DEF ChainInv, IInv
<1>1. IInv'
    BY <1>0, MarkRevokedInv
<1>2. UNCHANGED <<session, token, access, now, torn>> /\ call[c].pc = "mark"
    BY DEF MarkRevoked
<1>3. RowsGrow
    BY <1>2, NoRows
<1>4. PICK q \in Call : /\ call' = [call EXCEPT ![c] = q]
                        /\ q = Idle \/ (q.pc = "mark" /\ q.user = call[c].user)
    <2>1. CASE Return(c)
        BY <2>1, IdleUser, Zenon DEF Return
    <2> DEFINE r == [call[c] EXCEPT !.list = @ \ {s}]
    <2>2. CASE call' = [call EXCEPT ![c].list = @ \ {s}]
        <3>1. call' = [call EXCEPT ![c] = r] /\ r \in Call /\ r.pc = "mark" /\ r.user = call[c].user
            BY <1>0, <1>2, <2>2 DEF Call, TypeOK
        <3> HIDE DEF r
        <3> QED BY <3>1, Zenon
    <2> QED BY <2>1, <2>2 DEF MarkRevoked
<1>5. /\ q.pc \in {"idle", "mark"} /\ (q.pc = "idle" => q.user = None)
      /\ q.user \in {call[c].user, None}
    BY <1>4 DEF Idle, Begin
<1>6. CallUser(q, session', token')
    BY <1>5 DEF CallUser, HasSession, HasOld
<1>7. Chains'
    BY <1>2, <1>4, <1>5, <1>6, QuietChain, Zenon DEF Rotating
<1>8. Frame'
    BY <1>1, <1>2, <1>3, <1>4, <1>6, FrameKept, Zenon
<1> QED BY <1>1, <1>7, <1>8 DEF ChainInv

LEMMA RevokeSessionChain ==
    ASSUME ChainInv, NEW c \in Callers, NEW ok \in BOOLEAN, RevokeSession(c, ok) PROVE ChainInv'
<1> DEFINE s == call[c].session
<1>0. IInv /\ TypeOK /\ CallUser(call[c], session, token) /\ CallOK(call[c], session, token, torn)
    BY DEF ChainInv, IInv, Frame, CallUsers, CallsOK
<1>1. IInv'
    BY <1>0, RevokeSessionInv
<1>2. UNCHANGED <<token, access, now>> /\ call[c].pc = "revokeSession" /\ torn \subseteq torn'
    BY FailureTears DEF RevokeSession
<1>3. s \in Sessions /\ session[s].state # "none" /\ call[c].user = session[s].user
    BY <1>0, <1>2 DEF CallOK, CallUser, HasSession
<1>4. /\ \A x \in Sessions : x # s => session'[x] = session[x]
      /\ session'[s] = session[s] \/ session'[s].state = "revoked"
      /\ session'[s].user = session[s].user
      /\ session'[s].expiresAt = session[s].expiresAt
    BY <1>0, <1>3, Zenon DEF RevokeSession, TypeOK, Session
<1>5. RowsGrow
    BY <1>2, <1>3, <1>4 DEF RowsGrow
<1>6. PICK q \in Call : /\ call' = [call EXCEPT ![c] = q] /\ q.pc = "revokeSessionTokens"
                        /\ q.user = call[c].user /\ q.session = s
    BY <1>0, GotoCall DEF TypeOK, PCs, RevokeSession
<1>7. CallUser(q, session', token')
    BY <1>3, <1>4, <1>6 DEF CallUser, HasSession, HasOld
<1>8. Chains'
    <2>1. \A x \in Sessions : session'[x].state = "live" => session'[x] = session[x]
        BY <1>4
    <2> QED BY <1>2, <1>6, <2>1, QuietChain, Zenon DEF Rotating
<1>9. Frame'
    BY <1>1, <1>2, <1>5, <1>6, <1>7, FrameKept, Zenon
<1> QED BY <1>1, <1>8, <1>9 DEF ChainInv

LEMMA RevokeAllChain ==
    ASSUME ChainInv, NEW c \in Callers, NEW ok \in BOOLEAN, RevokeAll(c, ok) PROVE ChainInv'
<1>0. IInv /\ TypeOK
    BY DEF ChainInv, IInv
<1>1. IInv'
    BY <1>0, RevokeAllInv
<1>2. /\ UNCHANGED <<token, access, now>> /\ torn \subseteq torn'
      /\ ok \/ \A s \in Sessions : session[s].user = call[c].user => s \in torn'
    BY FailureTears DEF RevokeAll
<1>3. \A x \in Sessions :
        /\ session'[x].user = session[x].user /\ session'[x].expiresAt = session[x].expiresAt
        /\ session'[x] = session[x] \/ (session[x].state = "live" /\ session'[x].state = "revoked")
        /\ ok /\ session[x].user = call[c].user => session'[x].state # "live"
    BY <1>0 DEF RevokeAll, TypeOK, Session, SessionsOf
<1>4. RowsGrow
    BY <1>2, <1>3 DEF RowsGrow
<1>5. PICK q \in Call : /\ call' = [call EXCEPT ![c] = q] /\ q.pc = "revokeUserTokens"
                        /\ q.user = call[c].user
    BY <1>0, GotoCall DEF TypeOK, PCs, RevokeAll
<1>6. CallUser(q, session', token')
    BY <1>5 DEF CallUser, HasSession, HasOld
<1>7. Chains'
    <2>1. OnlyTokensOf(call[c].user)
        BY <1>2 DEF OnlyTokensOf
    <2>2. \A x \in Sessions : session'[x].state = "live" => session'[x] = session[x]
        BY <1>3
    <2>3. \A x \in Sessions \ torn' : ~(session'[x].state = "live" /\ session[x].user = call[c].user)
        BY <1>2, <1>3
    <2> QED BY <1>2, <1>5, <2>1, <2>2, <2>3, ChainStep, Zenon
<1>8. Frame'
    BY <1>1, <1>2, <1>4, <1>5, <1>6, FrameKept, Zenon
<1> QED BY <1>1, <1>7, <1>8 DEF ChainInv
-----------------------------------------------------------------------------
(* The statements on refresh tokens.                                       *)

(* Revoking tokens, or naming their successors, keeps the rows.            *)
LEMMA TokenRows ==
    ASSUME IInv, session' = session,
           \A s \in Sessions : access'[s] # access[s] => session[s].state # "none",
           \A x \in Tokens : /\ token'[x].session = token[x].session
                             /\ token'[x].expiresAt = token[x].expiresAt
                             /\ token[x].state = "none" <=> token'[x].state = "none"
    PROVE  RowsGrow
BY DEF RowsGrow

(* A token that is not rotated and not the last of its chain does not      *)
(* exist.                                                                  *)
LEMMA OneLast ==
    ASSUME NEW s, NEW tk, HasLast(s, tk), NEW t \in Tokens,
           tk[t].session = s, tk[t].state = "live"
    PROVE  Last(t, s, tk) /\ SpentBut(s, t, t, tk)
BY DEF HasLast, SpentBut, Spent

LEMMA RevokeOldChain ==
    ASSUME ChainInv, NEW c \in Callers, NEW ok \in BOOLEAN, RevokeOld(c, ok) PROVE ChainInv'
<1> DEFINE o == call[c].old
           s == call[c].session
<1>0. IInv /\ TypeOK /\ CallUser(call[c], session, token) /\ CallOK(call[c], session, token, torn)
    BY DEF ChainInv, IInv, Frame, CallUsers, CallsOK
<1>1. IInv'
    BY <1>0, RevokeOldInv
<1>2. /\ UNCHANGED <<session, access, now>> /\ call[c].pc = "revokeOld" /\ torn \subseteq torn'
      /\ ok \/ \A x \in Sessions : session[x].user = call[c].user => x \in torn'
    BY FailureTears, Zenon DEF RevokeOld
<1>3. /\ o \in Tokens /\ token[o].session = s /\ token[o].state # "none"
      /\ s \in Sessions /\ call[c].user = session[s].user
    BY <1>0, <1>2 DEF CallOK, CallUser, HasSession, HasOld
<1>4. /\ \A x \in Tokens : x # o => token'[x] = token[x]
      /\ token'[o].session = s /\ token'[o].expiresAt = token[o].expiresAt
      /\ token'[o].replacedBy = token[o].replacedBy
      /\ token'[o].state # "none" /\ (ok => token'[o].state = "revoked")
    BY <1>0, <1>3, Zenon DEF RevokeOld, TypeOK, Token
<1>5. RowsGrow
    BY <1>0, <1>2, <1>3, <1>4, TokenRows
<1>6. PICK q \in Call : /\ call' = [call EXCEPT ![c] = q] /\ q.pc = "createNew"
                        /\ q.user = call[c].user /\ q.session = s /\ q.old = o
    BY <1>0, GotoCall DEF TypeOK, PCs, RevokeOld
<1>7. CallUser(q, session', token')
    BY <1>2, <1>3, <1>4, <1>6 DEF CallUser, HasSession, HasOld
<1>8. Chains'
    <2>1. OnlyTokensOf(call[c].user)
        BY <1>3, <1>4 DEF OnlyTokensOf
    <2>2. ASSUME NEW x \in Sessions, x \notin torn', session[x].user = call[c].user,
                 Undisturbed(x, session[x].user, token, call)
          PROVE  OwnChain(q, x, session[x].user, token')
        <3>1. HasLast(x, token)
            BY <1>0, <1>2, <2>2, OwnLast, Zenon DEF TypeOK, Rotating
        <3>2. CASE x = s
            <4>1. Last(o, s, token) /\ ok
                BY <1>2, <2>2, <3>2, Zenon DEF Undisturbed, Fits, ChainOf
            <4>2. SpentBut(s, o, o, token)
                BY <1>3, <3>1, <3>2, <4>1, OneLast, Zenon DEF Last
            <4>3. Turning(o, s, token')
                BY <1>3, <1>4, <4>1, Zenon DEF Last, Turning
            <4>4. SpentBut(s, o, o, token')
                BY <1>4, <4>2 DEF SpentBut, Spent
            <4>5. ChainOf(q, s, token')
                BY <1>6, <4>3, <4>4 DEF ChainOf
            <4> QED BY <1>6, <2>2, <3>2, <4>5, Zenon DEF OwnChain, Fits, Rotating
        <3>3. CASE x # s
            <4>1. HasLast(x, token')
                BY <1>3, <1>4, <3>1, <3>3, LastKept
            <4> QED BY <1>6, <3>3, <4>1, Zenon DEF OwnChain, Fits
        <3> QED BY <3>2, <3>3, Zenon
    <2> QED BY <1>2, <1>6, <2>1, <2>2, ChainStep, Zenon
<1>9. Frame'
    BY <1>1, <1>2, <1>5, <1>6, <1>7, FrameKept, Zenon
<1> QED BY <1>1, <1>8, <1>9 DEF ChainInv

(* A fresh token is stored for s with the expiry of s.                     *)
LEMMA StoreRows ==
    ASSUME ChainInv, session' = session, NEW t \in Tokens, NEW s \in Sessions, token[t].state = "none",
           session[s].state # "none", StoreToken(t, s, session[s].expiresAt),
           \A x \in Sessions : access'[x] # access[x] => session[x].state # "none"
    PROVE  /\ RowsGrow
           /\ OnlyTokensOf(session[s].user)
           /\ \A x \in Tokens : x # t => token'[x] = token[x]
           /\ token[t].session = None
           /\ Last(t, s, token')
           /\ \A x \in Sessions : x # s /\ HasLast(x, token) => HasLast(x, token')
<1>0. TypeOK /\ TokensOK
    BY DEF ChainInv, IInv
<1>1. /\ \A x \in Tokens : x # t => token'[x] = token[x]
      /\ token'[t].state = "live" /\ token'[t].session = s /\ token'[t].replacedBy = None
      /\ token'[t].expiresAt = session[s].expiresAt
    BY <1>0 DEF StoreToken, TypeOK
<1>2. token[t].session = None
    BY <1>0 DEF TokensOK, TokenOK
<1>3. RowsGrow
    BY <1>1 DEF RowsGrow
<1>4. OnlyTokensOf(session[s].user)
    BY <1>1, <1>2 DEF OnlyTokensOf
<1>5. ASSUME NEW x \in Sessions, x # s, HasLast(x, token) PROVE HasLast(x, token')
    <2>1. x # None
        BY SessionsAssumption
    <2>2. \A y \in Tokens : token[y].session = x => token'[y] = token[y]
        BY <1>1, <1>2, <2>1
    <2>3. \A y \in Tokens : token'[y].session = x => token[y].session = x
        BY <1>1, <1>5
    <2> QED BY <1>5, <2>2, <2>3, LastKept
<1> QED BY <1>1, <1>2, <1>3, <1>4, <1>5 DEF Last

LEMMA AnswerAccess ==
    ASSUME TypeOK, NEW c \in Callers, NEW t, NEW s \in Sessions, Answer(c, t, s)
    PROVE  \A x \in Sessions : access'[x] # access[x] => x = s
BY DEF Answer, TypeOK

LEMMA FirstTokenChain ==
    ASSUME ChainInv, NEW c \in Callers, FirstToken(c) PROVE ChainInv'
<1>0. IInv /\ TypeOK /\ CallUser(call[c], session, token) /\ CallOK(call[c], session, token, torn)
    BY DEF ChainInv, IInv, Frame, CallUsers, CallsOK
<1>1. IInv'
    BY <1>0, FirstTokenInv
<1>2. UNCHANGED <<session, now>> /\ call[c].pc = "firstToken"
    BY Zenon DEF FirstToken
<1>3. PICK s \in Sessions : /\ s = call[c].session /\ session[s].state # "none"
                            /\ call[c].user = session[s].user
    BY <1>0, <1>2 DEF CallOK, CallUser, HasSession
<1>4. CallUser(Idle, session', token') /\ Idle.user = None /\ Idle \in Call
    BY IdleUser
<1>5. call' = [call EXCEPT ![c] = Idle]
    BY Zenon DEF FirstToken, Answer, Return
<1>6. RowsGrow /\ Chains'
    <2>1. CASE \E t \in Tokens : Fresh(t) /\ StoreToken(t, s, session[s].expiresAt)
                                 /\ Answer(c, t, s) /\ UNCHANGED torn
        <3>1. PICK t \in Tokens : Fresh(t) /\ StoreToken(t, s, session[s].expiresAt)
                                  /\ Answer(c, t, s) /\ UNCHANGED torn
            BY <2>1, Zenon
        <3>2. \A x \in Sessions : access'[x] # access[x] => session[x].state # "none"
            BY <1>0, <1>3, <3>1, AnswerAccess, Zenon
        <3>3. /\ RowsGrow /\ OnlyTokensOf(call[c].user)
              /\ \A x \in Tokens : x # t => token'[x] = token[x]
              /\ Last(t, s, token')
              /\ \A x \in Sessions : x # s /\ HasLast(x, token) => HasLast(x, token')
            BY <1>2, <1>3, <3>1, <3>2, StoreRows DEF Fresh
        <3>4. ASSUME NEW x \in Sessions, session[x].state = "live", session[x].user = call[c].user,
                     Undisturbed(x, session[x].user, token, call)
              PROVE  OwnChain(Idle, x, session[x].user, token')
            <4>1. HasLast(x, token')
                <5>1. CASE x = s
                    <6>1. \A y \in Tokens : token[y].session # s
                        BY <1>2, <1>3, <3>4, <5>1 DEF Undisturbed, Fits, ChainOf
                    <6>2. SpentBut(s, t, t, token')
                        BY <3>3, <6>1 DEF SpentBut
                    <6> QED BY <3>3, <5>1, <6>2, Zenon DEF HasLast
                <5>2. CASE x # s
                    <6>1. HasLast(x, token)
                        BY <1>0, <1>3, <3>4, <5>2, OwnLast, Zenon DEF TypeOK
                    <6> QED BY <3>3, <5>2, <6>1, Zenon
                <5> QED BY <5>1, <5>2
            <4>2. session[x].user # None
                BY <3>4, SessionsAssumption DEF ChainInv, Frame, SessionTimes
            <4> QED BY <1>4, <4>1, <4>2 DEF OwnChain
        <3> QED BY <1>2, <1>4, <1>5, <3>1, <3>3, <3>4, ChainStep, Zenon
    <2>2. CASE Tear(c, call[c].user, {}, FALSE) /\ UNCHANGED <<token, access>>
        <3>1. torn \subseteq torn' /\ \A x \in Sessions : session[x].user = call[c].user => x \in torn'
            BY <2>2, FailureTears, Zenon
        <3>2. OnlyTokensOf(call[c].user)
            BY <2>2 DEF OnlyTokensOf
        <3>3. RowsGrow
            BY <1>2, <2>2, NoRows
        <3> QED BY <1>2, <1>4, <1>5, <3>1, <3>2, <3>3, ChainStep, Zenon
    <2> QED BY <1>3, <2>1, <2>2, Zenon DEF FirstToken
<1>7. Frame'
    BY <1>1, <1>2, <1>4, <1>5, <1>6, FrameKept, Zenon
<1> QED BY <1>1, <1>6, <1>7, Zenon DEF ChainInv

LEMMA CreateNewChain ==
    ASSUME ChainInv, NEW c \in Callers, NEW ok \in BOOLEAN, CreateNew(c, ok) PROVE ChainInv'
<1>0. IInv /\ TypeOK /\ CallUser(call[c], session, token) /\ CallOK(call[c], session, token, torn)
    BY DEF ChainInv, IInv, Frame, CallUsers, CallsOK
<1>1. IInv'
    BY <1>0, CreateNewInv
<1>2. /\ UNCHANGED <<session, access, now>> /\ call[c].pc = "createNew" /\ torn \subseteq torn'
      /\ ok \/ \A x \in Sessions : session[x].user = call[c].user => x \in torn'
    BY FailureTears, Zenon DEF CreateNew
<1>3. PICK s \in Sessions : /\ s = call[c].session /\ session[s].state # "none"
                            /\ call[c].user = session[s].user
    BY <1>0, <1>2, Zenon DEF CallOK, CallUser, HasSession
<1>4. PICK o \in Tokens : o = call[c].old /\ token[o].session = s /\ token[o].state # "none"
    BY <1>0, <1>2, <1>3 DEF CallOK, CallUser, HasOld
<1>5. NewExpiry(s) = session[s].expiresAt
    <2>1. session[s].expiresAt <= now + SessionTTL
        BY <1>3 DEF ChainInv, Frame, SessionTimes
    <2>2. session[s].expiresAt \in Nat /\ now \in Nat /\ SessionTTL \in Nat
        BY <1>0, SessionsAssumption DEF TypeOK, Session
    <2> QED BY <2>1, <2>2 DEF NewExpiry
<1>6. PICK t \in Tokens :
         /\ token[t].state = "none"
         /\ IF ok THEN StoreToken(t, s, session[s].expiresAt) ELSE UNCHANGED token
         /\ call' = [call EXCEPT ![c] = [@ EXCEPT !.pc = "markReplacement", !.new = t,
                                                  !.stored = ok]]
    BY <1>3, <1>5, Zenon DEF CreateNew, Fresh
<1>7. PICK q \in Call : /\ call' = [call EXCEPT ![c] = q] /\ q.pc = "markReplacement" /\ q.new = t
                        /\ q.session = s /\ q.old = o /\ q.user = call[c].user /\ (q.stored <=> ok)
    <2> DEFINE r == [call[c] EXCEPT !.pc = "markReplacement", !.new = t, !.stored = ok]
    <2>1. /\ call' = [call EXCEPT ![c] = r] /\ r \in Call /\ r.pc = "markReplacement" /\ r.new = t
          /\ r.session = s /\ r.old = o /\ r.user = call[c].user /\ r.stored = ok
        BY <1>0, <1>3, <1>4, <1>6, ZenonT(30) DEF TypeOK, Call
    <2> HIDE DEF r
    <2> QED BY <2>1, Zenon
<1>8. RowsGrow /\ Chains' /\ token'[o].session = s
    <2>1. CASE ok
        <3>1. /\ RowsGrow /\ OnlyTokensOf(call[c].user)
              /\ \A x \in Tokens : x # t => token'[x] = token[x]
              /\ token[t].session = None /\ Last(t, s, token')
              /\ \A x \in Sessions : x # s /\ HasLast(x, token) => HasLast(x, token')
            BY <1>2, <1>3, <1>6, <2>1, StoreRows
        <3>2. ASSUME NEW x \in Sessions, session[x].user = call[c].user,
                     Undisturbed(x, session[x].user, token, call)
              PROVE  OwnChain(q, x, session[x].user, token')
            <4>1. CASE x = s
                <5>1. Turning(o, s, token) /\ SpentBut(s, o, o, token)
                    BY <1>2, <1>3, <1>4, <3>2, <4>1, Zenon DEF Undisturbed, Fits, ChainOf
                <5>2. Turning(o, s, token')
                    BY <1>4, <1>6, <3>1, <5>1 DEF Turning
                <5>3. s # None
                    BY SessionsAssumption, Zenon
                <5>4. SpentBut(s, o, t, token')
                    <6> SUFFICES ASSUME NEW y \in Tokens \ {o, t}, token'[y].session = s
                                 PROVE  Spent(y, s, token')
                        BY Zenon DEF SpentBut
                    <6>1. Spent(y, s, token) /\ token'[y] = token[y]
                        BY <3>1, <5>1, Zenon DEF SpentBut
                    <6>2. \A z \in Tokens : token[z].session = s => token'[z] = token[z]
                        BY <3>1, <5>3, Zenon
                    <6> QED BY <6>1, <6>2, Zenon DEF Spent
                <5>5. ChainOf(q, s, token')
                    BY <1>7, <2>1, <3>1, <5>2, <5>4, Zenon DEF ChainOf
                <5> QED BY <1>7, <3>2, <4>1, <5>5, Zenon DEF OwnChain, Fits, Rotating
            <4>2. CASE x # s
                <5>1. HasLast(x, token)
                    BY <1>0, <1>3, <3>2, <4>2, OwnLast DEF TypeOK
                <5> QED BY <1>7, <3>1, <4>2, <5>1, Zenon DEF OwnChain, Fits
            <4> QED BY <4>1, <4>2
        <3>3. token'[o].session = s
            BY <1>4, <1>6, <3>1
        <3> QED BY <1>2, <1>7, <3>1, <3>2, <3>3, ChainStep, Zenon
    <2>2. CASE ~ok
        <3>1. OnlyTokensOf(call[c].user) /\ token' = token
            BY <1>6, <2>2 DEF OnlyTokensOf
        <3>2. RowsGrow
            BY <1>2, <3>1, NoRows, Zenon
        <3> QED BY <1>2, <1>4, <1>7, <2>2, <3>1, <3>2, ChainStep, Zenon
    <2> QED BY <2>1, <2>2
<1>9. CallUser(q, session', token')
    BY <1>2, <1>3, <1>7, <1>8 DEF CallUser, HasSession, HasOld
<1>10. Frame'
    BY <1>1, <1>2, <1>7, <1>8, <1>9, FrameKept, Zenon
<1> QED BY <1>1, <1>8, <1>10 DEF ChainInv

LEMMA MarkReplacementChain ==
    ASSUME ChainInv, NEW c \in Callers, NEW ok \in BOOLEAN, MarkReplacement(c, ok) PROVE ChainInv'
<1>0. IInv /\ TypeOK /\ CallUser(call[c], session, token) /\ CallOK(call[c], session, token, torn)
    BY DEF ChainInv, IInv, Frame, CallUsers, CallsOK
<1>1. IInv'
    BY <1>0, MarkReplacementInv
<1>2. /\ UNCHANGED <<session, now>> /\ call[c].pc = "markReplacement" /\ torn \subseteq torn'
      /\ ok \/ \A x \in Sessions : session[x].user = call[c].user => x \in torn'
    BY FailureTears, Zenon DEF MarkReplacement
<1>3. PICK s \in Sessions : /\ s = call[c].session /\ session[s].state # "none"
                            /\ call[c].user = session[s].user
    BY <1>0, <1>2, Zenon DEF CallOK, CallUser, HasSession
<1>4. PICK o \in Tokens : o = call[c].old /\ token[o].session = s /\ token[o].state # "none"
    BY <1>0, <1>2, <1>3, Zenon DEF CallOK, CallUser, HasOld
<1>5. PICK n \in Tokens : n = call[c].new
    BY <1>0, <1>2 DEF CallOK
<1>6. PICK p \in Tokens \cup {None, NilUUID} :
        p = Replacement(call[c]) /\ (call[c].stored => p = n)
    BY <1>5, Zenon DEF Replacement
<1>7. /\ \A x \in Tokens : x # o => token'[x] = token[x]
      /\ token'[o].session = s /\ token'[o].expiresAt = token[o].expiresAt
      /\ token'[o].state # "none"
      /\ ok => token'[o].state = "revoked" /\ token'[o].replacedBy = p
    <2> DEFINE r == [token[o] EXCEPT !.state = "revoked", !.replacedBy = p]
    <2>1. r.session = s /\ r.state = "revoked" /\ r.expiresAt = token[o].expiresAt /\ r.replacedBy = p
        BY <1>0, <1>4 DEF TypeOK, Token
    <2>2. token' = IF ok THEN [token EXCEPT ![o] = r] ELSE token
        BY <1>4, <1>6, Zenon DEF MarkReplacement
    <2> HIDE DEF r
    <2> QED BY <1>0, <1>4, <2>1, <2>2 DEF TypeOK
<1>8. RowsGrow
    <2>1. \A x \in Sessions : access'[x] # access[x] => session[x].state # "none"
        BY <1>0, <1>3, AnswerAccess DEF MarkReplacement
    <2> QED BY <1>0, <1>2, <1>4, <1>7, <2>1, TokenRows
<1>9. CallUser(Idle, session', token') /\ Idle.user = None /\ Idle \in Call
    BY IdleUser
<1>10. call' = [call EXCEPT ![c] = Idle]
    BY DEF MarkReplacement, Answer, Return
<1>11. Chains'
    <2>1. OnlyTokensOf(call[c].user)
        BY <1>3, <1>4, <1>7, Zenon DEF OnlyTokensOf
    <2>2. ASSUME NEW x \in Sessions, x \notin torn', session[x].user = call[c].user,
                 session[x].state = "live", Undisturbed(x, session[x].user, token, call)
          PROVE  OwnChain(Idle, x, session[x].user, token')
        <3>1. HasLast(x, token')
            <4>1. CASE x = s
                <5>1. /\ ok /\ Turning(o, s, token) /\ Last(n, s, token) /\ call[c].stored
                      /\ SpentBut(s, o, n, token)
                    BY <1>2, <1>3, <1>4, <1>5, <2>2, <4>1, Zenon DEF Undisturbed, Fits, ChainOf
                <5>2. n # o
                    BY <5>1, Zenon DEF Turning, Last
                <5>3. Last(n, s, token')
                    BY <1>7, <5>1, <5>2, Zenon DEF Last
                <5>4. Spent(o, s, token')
                    BY <1>6, <1>7, <5>1, <5>3 DEF Spent, Last
                <5>5. SpentBut(s, n, n, token')
                    <6> SUFFICES ASSUME NEW y \in Tokens \ {n}, token'[y].session = s, y # o
                                 PROVE  Spent(y, s, token')
                        BY <5>4, Zenon DEF SpentBut
                    <6>1. Spent(y, s, token) /\ token'[y] = token[y]
                        BY <1>7, <5>1 DEF SpentBut
                    <6>2. \A z \in Tokens : token[z].session = s => token'[z].session = s
                        BY <1>7, Zenon
                    <6> QED BY <6>1, <6>2 DEF Spent
                <5> QED BY <4>1, <5>3, <5>5, Zenon DEF HasLast
            <4>2. CASE x # s
                <5>1. HasLast(x, token)
                    BY <1>0, <1>3, <2>2, <4>2, OwnLast, Zenon DEF TypeOK
                <5> QED BY <1>4, <1>7, <4>2, <5>1, LastKept
            <4> QED BY <4>1, <4>2
        <3>2. session[x].user # None
            BY <2>2, SessionsAssumption DEF ChainInv, Frame, SessionTimes
        <3> QED BY <1>9, <3>1, <3>2 DEF OwnChain
    <2> QED BY <1>2, <1>9, <1>10, <2>1, <2>2, ChainStep, Zenon
<1>12. Frame'
    BY <1>1, <1>2, <1>8, <1>9, <1>10, FrameKept, Zenon
<1> QED BY <1>1, <1>11, <1>12 DEF ChainInv

LEMMA RevokedRows ==
    ASSUME TypeOK, NEW T, RevokeTokens(T) \/ UNCHANGED token
    PROVE  \A x \in Tokens : /\ x \notin T => token'[x] = token[x]
                             /\ token'[x].session = token[x].session
                             /\ token'[x].expiresAt = token[x].expiresAt
                             /\ token[x].state = "none" <=> token'[x].state = "none"
BY DEF RevokeTokens, TypeOK, Token

LEMMA RevokeSessionTokensChain ==
    ASSUME ChainInv, NEW c \in Callers, NEW ok \in BOOLEAN, RevokeSessionTokens(c, ok) PROVE ChainInv'
<1>0. IInv /\ TypeOK /\ CallUser(call[c], session, token) /\ CallOK(call[c], session, token, torn)
    BY DEF ChainInv, IInv, Frame, CallUsers, CallsOK
<1>1. IInv'
    BY <1>0, RevokeSessionTokensInv
<1>2. /\ UNCHANGED <<session, access, now>> /\ call[c].pc = "revokeSessionTokens"
      /\ torn \subseteq torn'
    BY FailureTears, Zenon DEF RevokeSessionTokens
<1>3. PICK s \in Sessions : s = call[c].session /\ call[c].user = session[s].user
    BY <1>0, <1>2, Zenon DEF CallOK, CallUser, HasSession
<1>4. session[s].state = "revoked" \/ s \in torn
    BY <1>0, <1>2, <1>3, Zenon DEF CallOK, HasRevoked
<1>5. \A x \in Tokens : /\ token[x].session # s => token'[x] = token[x]
                        /\ token'[x].session = token[x].session
                        /\ token'[x].expiresAt = token[x].expiresAt
                        /\ token[x].state = "none" <=> token'[x].state = "none"
    <2> DEFINE T == {x \in Tokens : token[x].session = s}
    <2>1. RevokeTokens(T) \/ UNCHANGED token
        BY <1>3 DEF RevokeSessionTokens
    <2>2. \A x \in Tokens : token[x].session # s => x \notin T
        BY Zenon
    <2> HIDE DEF T
    <2> QED BY <1>0, <2>1, <2>2, RevokedRows, ZenonT(30)
<1>6. RowsGrow
    BY <1>0, <1>2, <1>5, TokenRows
<1>7. PICK q \in Call : /\ call' = [call EXCEPT ![c] = q] /\ q.pc = "mark"
                        /\ q.user = call[c].user /\ q.session = s
    <2> DEFINE r == Moved(call[c], "mark")
    <2>1. /\ call' = [call EXCEPT ![c] = r] /\ r \in Call /\ r.pc = "mark"
          /\ r.user = call[c].user /\ r.session = call[c].session
        BY <1>0, GotoCall, Zenon DEF TypeOK, PCs, RevokeSessionTokens
    <2> HIDE DEF r
    <2> QED BY <1>3, <2>1, Zenon
<1>8. CallUser(q, session', token')
    BY <1>7 DEF CallUser, HasSession, HasOld
<1>9. Chains'
    <2>1. OnlyTokensOf(call[c].user)
        BY <1>3, <1>5, Zenon DEF OnlyTokensOf
    <2>2. ASSUME NEW x \in Sessions, x \notin torn', session[x].user = call[c].user,
                 session[x].state = "live", Undisturbed(x, session[x].user, token, call)
          PROVE  OwnChain(q, x, session[x].user, token')
        <3>1. x # s
            BY <1>2, <1>4, <2>2, Zenon
        <3>2. HasLast(x, token)
            BY <1>0, <1>3, <2>2, <3>1, OwnLast DEF TypeOK
        <3>3. HasLast(x, token')
            <4>1. \A y \in Tokens : token[y].session = x => token'[y] = token[y]
                BY <1>5, <3>1
            <4>2. \A y \in Tokens : token'[y].session = x => token[y].session = x
                BY <1>5
            <4> QED BY <3>2, <4>1, <4>2, LastKept
        <3> QED BY <1>7, <3>1, <3>3 DEF OwnChain, Fits
    <2> QED BY <1>2, <1>7, <2>1, <2>2, ChainStep, Zenon
<1>10. Frame'
    BY <1>1, <1>2, <1>6, <1>7, <1>8, FrameKept, Zenon
<1> QED BY <1>1, <1>9, <1>10, Zenon DEF ChainInv

LEMMA RevokeUserTokensChain ==
    ASSUME ChainInv, NEW c \in Callers, NEW ok \in BOOLEAN, RevokeUserTokens(c, ok) PROVE ChainInv'
<1>0. IInv /\ TypeOK /\ TokensOK
    BY DEF ChainInv, IInv
<1>1. IInv'
    BY <1>0, RevokeUserTokensInv, Zenon
<1>2. UNCHANGED <<session, access, now>> /\ call[c].pc = "revokeUserTokens" /\ torn \subseteq torn'
    BY FailureTears DEF RevokeUserTokens
<1>3. \A x \in Tokens : /\ token[x].session \notin SessionsOf(call[c].user) => token'[x] = token[x]
                        /\ token'[x].session = token[x].session
                        /\ token'[x].expiresAt = token[x].expiresAt
                        /\ token[x].state = "none" <=> token'[x].state = "none"
    <2> DEFINE T == {x \in Tokens : token[x].session \in SessionsOf(call[c].user)}
    <2>1. RevokeTokens(T) \/ UNCHANGED token
        BY DEF RevokeUserTokens
    <2>2. \A x \in Tokens : token[x].session \notin SessionsOf(call[c].user) => x \notin T
        BY Zenon
    <2> HIDE DEF T
    <2> QED BY <1>0, <2>1, <2>2, RevokedRows, ZenonT(30)
<1>4. RowsGrow
    BY <1>0, <1>2, <1>3, TokenRows, Zenon
<1>5. PICK q \in Call : /\ call' = [call EXCEPT ![c] = q]
                        /\ q = Idle \/ (q.pc = "mark" /\ q.user = call[c].user)
    <2>1. CASE Return(c)
        BY <2>1, IdleUser, Zenon DEF Return
    <2>2. CASE Goto(c, "mark")
        BY <1>0, <2>2, GotoCall DEF TypeOK, PCs
    <2> QED BY <2>1, <2>2 DEF RevokeUserTokens
<1>6. q.pc \in {"idle", "mark"} /\ (q.pc = "idle" => q.user = None) /\ q.user \in {call[c].user, None}
    BY <1>5 DEF Idle, Begin
<1>7. CallUser(q, session', token')
    BY <1>6 DEF CallUser, HasSession, HasOld
<1>8. Chains'
    <2>1. OnlyTokensOf(call[c].user)
        BY <1>3, Zenon DEF OnlyTokensOf, SessionsOf
    <2>2. \A x \in Sessions : session[x].user = call[c].user =>
            ~Undisturbed(x, session[x].user, token, call)
        BY <1>2 DEF Undisturbed, Fits
    <2> QED BY <1>2, <1>5, <1>6, <2>1, <2>2, ChainStep, Zenon
<1>9. Frame'
    BY <1>1, <1>2, <1>4, <1>5, <1>7, FrameKept, ZenonT(30)
<1> QED BY <1>1, <1>8, <1>9 DEF ChainInv
-----------------------------------------------------------------------------
(* The first step of a call.                                               *)

(* A call begins: a session of its user stays undisturbed only if no other *)
(* call of the user is under way, and then its chain is complete.          *)
LEMMA BeginStep ==
    ASSUME ChainInv, NEW c \in Callers, NEW q \in Call, call' = [call EXCEPT ![c] = q],
           call[c].pc = "idle", NEW more, Tear(c, q.user, more, TRUE), token' = token,
           NEW s \in Sessions, s \notin torn', session[s].state = "live",
           q.session = s => q.pc \notin Rotating,
           session[s].user = q.user /\ HasLast(s, token) => Fits(q, s, token)
    PROVE  Undisturbed(s, session[s].user, token', call')
<1>0. TypeOK /\ SessionTimes /\ Chains /\ CallUser(call[c], session, token)
    BY Zenon DEF ChainInv, IInv, Frame, CallUsers
<1>1. PICK u \in Users : u = session[s].user
    BY <1>0, Zenon DEF SessionTimes
<1>2. s \notin torn /\ call \in [Callers -> Call] /\ call[c].user # u
    BY <1>0, SessionsAssumption DEF Tear, TypeOK, CallUser
<1>3. Undisturbed(s, u, token, call)
    BY <1>0, <1>1, <1>2, Zenon DEF Chains
<1>4. CASE q.user = u
    <2>1. \A d \in Callers \ {c} : call[d].user # u
        BY <1>1, <1>4, Zenon DEF Tear, Overlap, SessionsOf
    <2>2. HasLast(s, token)
        BY <1>2, <1>3, <2>1 DEF Undisturbed
    <2> QED BY <1>1, <1>2, <1>4, <2>1, <2>2, Lone, ZenonT(30)
<1>5. CASE q.user # u
    BY <1>1, <1>2, <1>3, <1>5, Other, Zenon
<1> QED BY <1>4, <1>5, Zenon

LEMMA LoginChain ==
    ASSUME ChainInv, NEW c \in Callers, NEW u \in Users, NEW s \in Sessions, Login(c, u, s)
    PROVE  ChainInv'
<1>0. IInv /\ TypeOK /\ TokensOK /\ CallUser(call[c], session, token)
    BY DEF ChainInv, IInv, Frame, CallUsers
<1>1. IInv'
    BY <1>0, LoginInv
<1>2. UNCHANGED <<token, access, now>> /\ call[c].pc = "idle" /\ session[s].state = "none"
      /\ Tear(c, u, {s}, TRUE)
    BY Zenon DEF Login
<1>3. /\ \A x \in Sessions : x # s => session'[x] = session[x]
      /\ session'[s].state = "live" /\ session'[s].user = u
      /\ session'[s].expiresAt = now + SessionTTL
    BY <1>0, Zenon DEF Login, TypeOK
<1>4. now + SessionTTL <= now + SessionTTL
    <2>1. now \in Nat /\ SessionTTL \in Nat
        BY <1>0, SessionsAssumption, Zenon DEF TypeOK
    <2> QED BY <2>1
<1>5. RowsGrow
    BY <1>2, <1>3, <1>4 DEF RowsGrow
<1>6. PICK q \in Call : /\ call' = [call EXCEPT ![c] = q] /\ q.pc = "firstToken"
                        /\ q.user = u /\ q.session = s
    <2> DEFINE r == Begin("firstToken", u, s, None, {})
    <2>1. /\ call' = [call EXCEPT ![c] = r] /\ r \in Call /\ r.pc = "firstToken"
          /\ r.user = u /\ r.session = s
        BY Zenon DEF Login, Begin, Call
    <2> HIDE DEF r
    <2> QED BY <2>1, Zenon
<1>7. CallUser(q, session', token')
    BY <1>3, <1>6 DEF CallUser, HasSession, HasOld
<1>8. Chains'
    <2> SUFFICES ASSUME NEW x \in Sessions, x \notin torn', session'[x].state = "live"
                 PROVE  Undisturbed(x, session'[x].user, token', call')
        BY Zenon DEF Chains
    <2>1. CASE x = s
        <3>1. \A d \in Callers \ {c} : call[d].user # u
            BY <1>2, <2>1, Zenon DEF Tear, Overlap
        <3>2. \A y \in Tokens : token[y].session # s
            BY <1>0, <1>2, SessionsAssumption, Zenon DEF TokensOK, TokenOK
        <3>3. Fits(q, s, token')
            BY <1>2, <1>6, <3>2, Zenon DEF Fits, ChainOf
        <3>4. q.pc \in Rotating /\ call \in [Callers -> Call]
            BY <1>0, <1>6 DEF Rotating, TypeOK
        <3>5. Undisturbed(s, u, token', [call EXCEPT ![c] = q])
            BY <1>6, <3>1, <3>3, <3>4, Lone, ZenonT(30)
        <3> QED BY <1>3, <1>6, <2>1, <3>5, Zenon
    <2>2. CASE x # s
        <3>1. Fits(q, x, token) /\ session[x].state = "live"
            BY <1>3, <1>6, <2>2, Zenon DEF Fits
        <3>2. Undisturbed(x, session[x].user, token', call')
            BY <1>2, <1>6, <2>2, <3>1, BeginStep, Zenon
        <3> QED BY <1>3, <2>2, <3>2, Zenon
    <2> QED BY <2>1, <2>2, ZenonT(30)
<1>9. Frame'
    BY <1>1, <1>2, <1>5, <1>6, <1>7, FrameKept, Zenon
<1> QED BY <1>1, <1>8, <1>9 DEF ChainInv

LEMMA RefreshChain ==
    ASSUME ChainInv, NEW c \in Callers, NEW t \in Tokens, Refresh(c, t) PROVE ChainInv'
<1>0. IInv /\ TypeOK /\ TokensOK
    BY DEF ChainInv, IInv
<1>1. IInv'
    BY <1>0, RefreshInv
<1>2. UNCHANGED <<session, token, access, now>> /\ call[c].pc = "idle" /\ Tear(c, UserOf(t), {}, TRUE)
    BY ZenonT(30) DEF Refresh
<1>3. PICK s \in Sessions : s = token[t].session /\ session[s].user = UserOf(t)
    BY <1>0, Zenon DEF Refresh, TokensOK, TokenOK, UserOf
<1>4. UserOf(t) \in Users \cup {None}
    BY <1>0, <1>3 DEF TypeOK, Session
<1>5. PICK q \in Call : /\ call' = [call EXCEPT ![c] = q] /\ q.user = UserOf(t)
                        /\ \/ q.pc = "list"
                           \/ /\ q.pc = "session" /\ q.session = s /\ q.old = t
                              /\ token[t].state = "live"
    <2>1. CASE token[t].state = "revoked"
        <3> DEFINE r == Begin("list", UserOf(t), None, None, {})
        <3>1. r \in Call /\ call' = [call EXCEPT ![c] = r] /\ r.pc = "list" /\ r.user = UserOf(t)
            BY <1>4, <2>1, Zenon DEF Refresh, Begin, Call
        <3> HIDE DEF r
        <3> QED BY <3>1, ZenonT(30)
    <2>2. CASE token[t].state = "live"
        <3> DEFINE r == Begin("session", UserOf(t), s, t, {})
        <3>1. /\ r \in Call /\ call' = [call EXCEPT ![c] = r] /\ r.pc = "session"
              /\ r.user = UserOf(t) /\ r.session = s /\ r.old = t
            BY <1>3, <1>4, <2>2, ZenonT(30) DEF Refresh, Begin, Call
        <3> HIDE DEF r
        <3> QED BY <2>2, <3>1, Zenon
    <2> QED BY <2>1, <2>2, Zenon DEF Refresh
<1>6. CallUser(q, session', token')
    BY <1>2, <1>3, <1>5 DEF CallUser, HasSession, HasOld
<1>7. Chains'
    <2> SUFFICES ASSUME NEW x \in Sessions, x \notin torn', session[x].state = "live"
                 PROVE  Undisturbed(x, session[x].user, token', call')
        BY <1>2, ZenonT(30) DEF Chains
    <2>1. ASSUME HasLast(x, token) PROVE Fits(q, x, token)
        <3>1. q.pc = "session" /\ q.session = x => Last(t, x, token)
            BY <1>3, <1>5, <2>1, OneLast
        <3> QED BY <1>5, <3>1, Zenon DEF Fits, ChainOf
    <2> QED BY <1>2, <1>5, <2>1, BeginStep, ZenonT(30) DEF Rotating
<1>8. Frame'
    BY <1>1, <1>2, <1>5, <1>6, NoRows, FrameKept, Zenon
<1> QED BY <1>1, <1>7, <1>8 DEF ChainInv

LEMMA LogoutChain ==
    ASSUME ChainInv, NEW c \in Callers, NEW s \in Sessions, NEW ok \in BOOLEAN,
           Logout(c, s, ok) \/ LogoutAll(c, s, ok)
    PROVE  ChainInv'
<1>0. IInv /\ TypeOK
    BY DEF ChainInv, IInv
<1>1. IInv'
    BY <1>0, LogoutInv, LogoutAllInv
<1>2. /\ UNCHANGED <<session, token, access, now>> /\ call[c].pc = "idle"
      /\ Tear(c, session[s].user, {}, TRUE) /\ now < access[s]
    BY Zenon DEF Logout, LogoutAll, Authenticate
<1>3. session[s].state # "none"
    <2>1. access[s] # 0
        BY <1>0, <1>2 DEF TypeOK
    <2> QED BY <2>1 DEF ChainInv, Frame, Opened
<1>4. PICK q \in Call : /\ call' = [call EXCEPT ![c] = q] /\ q.user = session[s].user
                        /\ q.pc = "list" \/ (q.pc = "find" /\ q.session = s)
    <2>1. CASE Logout(c, s, ok)
        <3> DEFINE r == Begin("find", session[s].user, s, None, {})
        <3>1. /\ r \in Call /\ call' = [call EXCEPT ![c] = r] /\ r.pc = "find"
              /\ r.user = session[s].user /\ r.session = s
            BY <1>0, <2>1, Zenon DEF Logout, Begin, Call, TypeOK, Session
        <3> HIDE DEF r
        <3> QED BY <3>1, Zenon
    <2>2. CASE LogoutAll(c, s, ok)
        <3> DEFINE r == Begin("list", session[s].user, None, None, {})
        <3>1. r \in Call /\ call' = [call EXCEPT ![c] = r] /\ r.pc = "list" /\ r.user = session[s].user
            BY <1>0, <2>2, ZenonT(30) DEF LogoutAll, Begin, Call, TypeOK, Session
        <3> HIDE DEF r
        <3> QED BY <3>1, Zenon
    <2> QED BY <2>1, <2>2
<1>5. CallUser(q, session', token')
    BY <1>2, <1>3, <1>4 DEF CallUser, HasSession, HasOld
<1>6. Chains'
    <2> SUFFICES ASSUME NEW x \in Sessions, x \notin torn', session[x].state = "live"
                 PROVE  Undisturbed(x, session[x].user, token', call')
        BY <1>2, ZenonT(30) DEF Chains
    <2>1. Fits(q, x, token)
        BY <1>4, Zenon DEF Fits, ChainOf
    <2> QED BY <1>2, <1>4, <2>1, BeginStep, Zenon DEF Rotating
<1>7. Frame'
    BY <1>1, <1>2, <1>4, <1>5, NoRows, FrameKept, Zenon
<1> QED BY <1>1, <1>6, <1>7 DEF ChainInv
-----------------------------------------------------------------------------
(* Time, a crash, and the theorem.                                         *)

LEMMA TickChain ==
    ASSUME ChainInv, Tick PROVE ChainInv'
<1>0. IInv /\ TypeOK /\ TokensOK /\ CallUsers /\ SessionTimes /\ TokenTimes /\ Opened /\ Chains
    BY DEF ChainInv, IInv, Frame
<1>1. UNCHANGED <<session, token, access, call, torn>> /\ now' \in Nat /\ now' >= now
    BY <1>0 DEF Tick, TypeOK
<1>2. IInv'
    BY <1>0, TickInv
<1>3. SessionTimes' /\ TokenTimes' /\ Opened'
    BY <1>0, <1>1, NoRows, TimesKept, Zenon DEF TypeOK
<1>4. CallUsers' /\ Chains'
    BY <1>0, <1>1 DEF CallUsers, Chains
<1> QED BY <1>2, <1>3, <1>4 DEF ChainInv, Frame

LEMMA APICrashChain ==
    ASSUME ChainInv, APICrash PROVE ChainInv'
<1>0. IInv /\ TypeOK /\ TokensOK /\ SessionTimes /\ TokenTimes /\ Opened /\ Chains
    BY DEF ChainInv, IInv, Frame
<1>1. UNCHANGED <<session, token, access, now>> /\ call' = [c \in Callers |-> Idle]
    BY DEF APICrash
<1>2. IInv'
    BY <1>0, APICrashInv
<1>3. now' \in Nat /\ now' >= now
    BY <1>0, <1>1 DEF TypeOK
<1>4. SessionTimes' /\ TokenTimes' /\ Opened'
    BY <1>0, <1>1, <1>3, NoRows, TimesKept DEF TypeOK
<1>5. \A c \in Callers : call'[c].user = None /\ CallUser(call'[c], session', token')
    BY <1>1, IdleUser, Zenon
<1>6. Chains'
    <2> SUFFICES ASSUME NEW s \in Sessions, s \notin torn', session[s].state = "live"
                 PROVE  Undisturbed(s, session[s].user, token, call')
        BY <1>1, Zenon DEF Chains
    <2>1. s \notin torn /\ session[s].user # None
        BY <1>0, SessionsAssumption, Zenon DEF APICrash, SessionTimes
    <2>2. \A c \in Callers : call[c].user # session[s].user
        BY <2>1, Zenon DEF APICrash
    <2>3. HasLast(s, token)
        BY <1>0, <2>1, <2>2 DEF Chains, Undisturbed
    <2> QED BY <1>5, <2>1, <2>3, Zenon DEF Undisturbed
<1> QED BY <1>2, <1>4, <1>5, <1>6 DEF ChainInv, Frame, CallUsers

LEMMA InitChain == Init => ChainInv
<1> SUFFICES ASSUME Init PROVE ChainInv
    OBVIOUS
<1>1. IInv
    BY InitInv, Zenon
<1>2. CallUsers
    BY IdleUser, Zenon DEF Init, CallUsers
<1>3. SessionTimes /\ TokenTimes /\ Opened /\ Chains
    BY Zenon DEF Init, SessionTimes, TokenTimes, Opened, Chains
<1> QED BY <1>1, <1>2, <1>3, Zenon DEF ChainInv, Frame

LEMMA CallStepChain ==
    ASSUME ChainInv, NEW c \in Callers, CallStep(c) PROVE ChainInv'
BY FirstTokenChain, FindSessionChain, FindActiveChain, ListActiveChain, RevokeOldChain, CreateNewChain,
   MarkReplacementChain, RevokeSessionChain, RevokeSessionTokensChain, RevokeAllChain,
   RevokeUserTokensChain, MarkRevokedChain, Zenon
   DEF CallStep

LEMMA NextChain == ChainInv /\ [Next]_authVars => ChainInv'
<1> SUFFICES ASSUME ChainInv, [Next]_authVars PROVE ChainInv'
    OBVIOUS
<1>1. CASE Next
    BY <1>1, LoginChain, RefreshChain, LogoutChain, CallStepChain, TickChain, APICrashChain DEF Next
<1>2. CASE UNCHANGED authVars
    <2>1. IInv'
        BY <1>2, NextInv, Zenon DEF ChainInv
    <2>2. Frame' /\ Chains'
        BY <1>2, Zenon DEF authVars, ChainInv, Frame, CallUsers, SessionTimes, TokenTimes, Opened, Chains
    <2> QED BY <2>1, <2>2 DEF ChainInv
<1> QED BY <1>1, <1>2

LEMMA ChainInvSuffices == ChainInv => UndisturbedChain
<1> SUFFICES ASSUME ChainInv, NEW s \in Sessions, s \notin torn, Active(s),
                    \A c \in Callers : call[c].user # session[s].user
             PROVE  LET chain == {t \in Tokens : token[t].session = s}
                    IN  /\ \E last \in chain : {t \in chain : Usable(t)} = {last}
                        /\ \A t \in chain : Usable(t) <=> token[t].replacedBy \notin chain
    BY DEF UndisturbedChain
<1> DEFINE chain == {t \in Tokens : token[t].session = s}
<1>0. TypeOK /\ TokenTimes /\ Chains
    BY Zenon DEF ChainInv, IInv, Frame
<1>1. HasLast(s, token)
    BY <1>0 DEF Chains, Undisturbed, Active
<1>2. PICK t \in Tokens : Last(t, s, token) /\ SpentBut(s, t, t, token)
    BY <1>1 DEF HasLast
<1>3. token[t].session = s /\ token[t].state = "live" /\ token[t].replacedBy = None
    BY <1>2 DEF Last
<1>4. Usable(t)
    <2>1. token[t].expiresAt = session[s].expiresAt
        BY <1>0, <1>3 DEF TokenTimes
    <2>2. token[t].expiresAt >= now
        <3>1. session[s].expiresAt \in Nat /\ now \in Nat
            BY <1>0, Zenon DEF TypeOK, Session
        <3> QED BY <1>0, <2>1, <3>1 DEF Active
    <2> QED BY <1>3, <2>2 DEF Usable
<1>5. \A x \in chain : x # t => Spent(x, s, token)
    BY <1>2 DEF SpentBut
<1>6. \A x \in chain : x # t => ~Usable(x) /\ token[x].replacedBy \in chain
    BY <1>5 DEF Spent, Usable
<1>7. None \notin chain
    BY SessionsAssumption
<1>8. t \in chain /\ {x \in chain : Usable(x)} = {t}
    BY <1>3, <1>4, <1>6
<1> QED BY <1>3, <1>4, <1>6, <1>7, <1>8, Zenon

(* A session that no overlap, failure or crash disturbed has exactly one   *)
(* usable refresh token between calls, and every earlier token of it names *)
(* its successor, for any number of sessions, tokens and goroutines and    *)
(* however often it was rotated.                                           *)
THEOREM OneUsableToken == Spec => []UndisturbedChain
BY InitChain, NextChain, ChainInvSuffices, PTL DEF Spec
=============================================================================

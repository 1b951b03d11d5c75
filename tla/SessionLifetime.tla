--------------------------- MODULE SessionLifetime ---------------------------
(***************************************************************************)
(* What the identity service promises about sessions and refresh tokens,   *)
(* whatever overlaps, fails or crashes: a session that has ended never     *)
(* comes back, a refresh token that stopped being usable never becomes     *)
(* usable again, and only tokens of active sessions are usable.            *)
(***************************************************************************)
CONSTANTS Sessions, Tokens, None

VARIABLES
    opened,     \* sessions that were ever opened
    active,     \* sessions a refresh or a logout still finds
    owner,      \* owner[t]: the session token t was issued for, or None
    usable      \* tokens a refresh would accept

vars == <<opened, active, owner, usable>>

Init ==
    /\ opened = {}
    /\ active = {}
    /\ owner = [t \in Tokens |-> None]
    /\ usable = {}

Open(s) ==
    /\ s \notin opened
    /\ opened' = opened \cup {s}
    /\ active' = active \cup {s}
    /\ UNCHANGED <<owner, usable>>

\* A token issued for a session that has ended meanwhile is never usable
Issue(t, s) ==
    /\ owner[t] = None
    /\ s \in opened
    /\ owner' = [owner EXCEPT ![t] = s]
    /\ usable' = usable \cup (IF s \in active THEN {t} ELSE {})
    /\ UNCHANGED <<opened, active>>

\* Any number of sessions end and of tokens are spent, by a call or by time
Retire ==
    /\ active' \subseteq active
    /\ usable' \subseteq {t \in usable : owner[t] \in active'}
    /\ UNCHANGED <<opened, owner>>

Next ==
    \/ \E s \in Sessions : Open(s)
    \/ \E t \in Tokens, s \in Sessions : Issue(t, s)
    \/ Retire

Spec == Init /\ [][Next]_vars
=============================================================================

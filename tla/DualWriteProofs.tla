--------------------------- MODULE DualWriteProofs ---------------------------
(***************************************************************************)
(* The proof that Redis and PostgreSQL agree about every server that has   *)
(* no actor at work and no disturbed history (UndisturbedInSync), for any  *)
(* number of servers, requests, instances and workers and with every       *)
(* fault.  The inductive invariant says, for a server that is not          *)
(* disturbed, that at most one actor is at work on it and what the two     *)
(* stores hold when that actor is at each of its program counters.         *)
(***************************************************************************)
EXTENDS ServerSystemProofs

\* The time limits of the provers
USE SMTT(30), ZenonT(30)

RowAs(id, ipv4, status, failures) ==
    /\ id \in DOMAIN rows
    /\ rows[id].ipv4 = ipv4 /\ rows[id].status = status /\ rows[id].failures = failures

HashAs(id, ipv4, status, retry) ==
    /\ id \in DOMAIN hash
    /\ hash[id].ipv4 = ipv4 /\ hash[id].status = status /\ hash[id].retry = retry

\* A request alone on its server: the stores agree until it writes the row;
\* then the row holds what it will write to Redis
RequestQuiet(r) ==
    LET q == req[r]
    IN  /\ q.pc \in {"update", "delete"} => InSync(q.id)
        /\ q.pc \in {"hset", "sadd"} => RowAs(q.id, q.ipv4, q.status, q.failures)
        /\ q.pc = "sadd" => HashAs(q.id, q.ipv4, q.status, q.failures)
        /\ q.pc \in {"del", "srem"} => q.id \notin DOMAIN rows

\* A worker alone on its server: the stores agree until it writes Redis;
\* then Redis holds what it will write to the row
WorkerQuiet(w) ==
    LET q == wk[w]
    IN  /\ q.pc \in {"ping", "get", "set"} => InSync(q.id)
        /\ q.pc = "set" /\ ~q.pg /\ q.id \in DOMAIN rows =>
             /\ q.status = rows[q.id].status
             /\ q.status = "ONLINE" => q.retry = 0
        /\ q.pc = "pg" =>
             /\ q.id \in DOMAIN rows <=> q.id \in allIds
             /\ q.id \in DOMAIN rows => HashAs(q.id, rows[q.id].ipv4, q.status, q.retry)

Quiet(id) ==
    /\ \A a, b \in users[id] : a = b
    /\ users[id] = {} => InSync(id)
    /\ \A r \in Requests : req[r].id = id => RequestQuiet(r)
    /\ \A w \in Workers : wk[w].id = id => WorkerQuiet(w)

\* users is what the local variables say
UsersOK ==
    \A id \in Servers :
        /\ \A r \in Requests : r \in users[id] <=> req[r].id = id
        /\ \A w \in Workers : w \in users[id] <=> wk[w].id = id

QuietInv == TypeInv /\ UsersOK /\ \A id \in issued \ disturbed : Quiet(id)
-----------------------------------------------------------------------------
\* A step changes nothing that Quiet(id) reads
Untouched(id) ==
    /\ id \in issued' => id \in issued
    /\ id \in disturbed => id \in disturbed'
    /\ users'[id] = users[id]
    /\ id \in DOMAIN rows' <=> id \in DOMAIN rows
    /\ id \in DOMAIN rows => rows'[id] = rows[id]
    /\ id \in DOMAIN hash' <=> id \in DOMAIN hash
    /\ id \in DOMAIN hash => hash'[id] = hash[id]
    /\ id \in allIds' <=> id \in allIds
    /\ \A r \in Requests : req'[r].id = id => req'[r] = req[r]
    /\ \A w \in Workers : wk'[w].id = id => wk'[w] = wk[w]

LEMMA InSyncFrame ==
    ASSUME NEW id, Untouched(id), InSync(id)
    PROVE  InSync(id)'
  BY DEF Untouched, InSync

\* Quiet(id) survives a step that leaves id alone
LEMMA QuietFrame ==
    ASSUME NEW id \in issued' \ disturbed', Untouched(id), id \in issued \ disturbed => Quiet(id)
    PROVE  Quiet(id)'
<1>1. Quiet(id)
    BY DEF Untouched
<1>2. \A a, b \in users'[id] : a = b
    BY <1>1 DEF Untouched, Quiet
<1>3. users'[id] = {} => InSync(id)'
    BY <1>1, InSyncFrame, Zenon DEF Untouched, Quiet
<1>4. ASSUME NEW r \in Requests, req'[r].id = id PROVE RequestQuiet(r)'
  <2>1. RequestQuiet(r) /\ req'[r] = req[r] /\ req[r].id = id
      BY <1>1, <1>4 DEF Untouched, Quiet
  <2>2. InSync(id) => InSync(id)'
      BY InSyncFrame
  <2>3. req'[r].pc \in {"update", "delete"} => InSync(req[r].id)'
      BY <1>4, <2>1, <2>2 DEF RequestQuiet, InSync
  <2> QED
      BY <2>1, <2>3 DEF RequestQuiet, RowAs, HashAs, Untouched
<1>5. ASSUME NEW w \in Workers, wk'[w].id = id PROVE WorkerQuiet(w)'
  <2>1. WorkerQuiet(w) /\ wk'[w] = wk[w] /\ wk[w].id = id
      BY <1>1, <1>5 DEF Untouched, Quiet
  <2>2. InSync(id) => InSync(id)'
      BY InSyncFrame
  <2>3. wk'[w].pc \in {"ping", "get", "set"} => InSync(wk[w].id)'
      BY <1>5, <2>1, <2>2 DEF WorkerQuiet, InSync
  <2> QED
      BY <2>1, <2>3 DEF WorkerQuiet, HashAs, Untouched
<1> QED
    BY <1>2, <1>3, <1>4, <1>5 DEF Quiet

\* A step that touches one server at most, and leaves that one quiet
LEMMA OneServer ==
    ASSUME QuietInv, TypeInv', UsersOK', NEW d,
           \A x \in Servers \ {d} : Untouched(x),
           d \in issued' \ disturbed' => Quiet(d)'
    PROVE  QuietInv'
<1>1. ASSUME NEW x \in issued' \ disturbed' PROVE Quiet(x)'
  <2>1. x \in Servers
      BY DEF TypeInv, StoresFit, HistoryFits
  <2>2. CASE x # d
      BY <2>1, <2>2, QuietFrame DEF QuietInv
  <2>3. CASE x = d
    <3>1. Quiet(d)'
        BY <2>3
    <3> QED
        BY <2>3, <3>1 DEF Quiet, InSync
  <2> QED
      BY <2>2, <2>3
<1> QED
    BY <1>1 DEF QuietInv

\* A request that is alone when it settles its server
LEMMA SettledAlone ==
    ASSUME UsersOK, NEW r \in Requests, NEW d \in Servers, req[r].id = d, Settle(r, d),
           d \notin disturbed', users' = users
    PROVE  users'[d] = {r}
BY DEF Settle, Alone, UsersOK

\* A passed check changes only what is left to check
LEMMA ChecksKept ==
    ASSUME req \in [Requests -> Locals], NEW r \in Requests, NEW checks,
           req' = [req EXCEPT ![r].checks = checks]
    PROVE  /\ \A q \in Requests : q # r => req'[q] = req[q]
           /\ \A f \in {"id", "pc", "ipv4", "status", "failures"} : req'[r][f] = req[r][f]
BY DEF Locals

\* The three ways a step of request r changes the server it is at work on
LEMMA RequestUsers ==
    ASSUME TypeInv, UsersOK, NEW r \in Requests, NEW d \in Servers, UNCHANGED wk,
           \A q \in Requests : q # r => req'[q] = req[q],
           \/ req'[r].id = req[r].id /\ users' = users
           \/ req[r].id = None /\ req'[r].id = d /\ users' = [users EXCEPT ![d] = @ \cup {r}]
           \/ req[r].id = d /\ req'[r].id = None /\ users' = [users EXCEPT ![d] = @ \ {r}]
    PROVE  UsersOK'
<1> USE StoresAssumption, ActorsDisjoint DEF TypeInv, StoresFit, HistoryFits
<1>1. ASSUME NEW x \in Servers, NEW q \in Requests PROVE q \in users'[x] <=> req'[q].id = x
  <2>1. CASE q = r
      BY <2>1 DEF UsersOK
  <2>2. CASE q # r
      BY <2>2 DEF UsersOK
  <2> QED BY <2>1, <2>2
<1>2. ASSUME NEW x \in Servers, NEW w \in Workers PROVE w \in users'[x] <=> wk'[w].id = x
  <2>1. w # r
      OBVIOUS
  <2> QED BY <2>1 DEF UsersOK
<1> QED
    BY <1>1, <1>2 DEF UsersOK

LEMMA WorkerUsers ==
    ASSUME TypeInv, UsersOK, NEW w \in Workers, NEW d \in Servers, UNCHANGED req,
           \A v \in Workers : v # w => wk'[v] = wk[v],
           \/ wk'[w].id = wk[w].id /\ users' = users
           \/ wk[w].id = None /\ wk'[w].id = d /\ users' = [users EXCEPT ![d] = @ \cup {w}]
           \/ wk[w].id = d /\ wk'[w].id = None /\ users' = [users EXCEPT ![d] = @ \ {w}]
    PROVE  UsersOK'
<1> USE StoresAssumption, ActorsDisjoint DEF TypeInv, StoresFit, HistoryFits
<1>1. ASSUME NEW x \in Servers, NEW v \in Workers PROVE v \in users'[x] <=> wk'[v].id = x
  <2>1. CASE v = w
      BY <2>1 DEF UsersOK
  <2>2. CASE v # w
      BY <2>2 DEF UsersOK
  <2> QED BY <2>1, <2>2
<1>2. ASSUME NEW x \in Servers, NEW q \in Requests PROVE q \in users'[x] <=> req'[q].id = x
  <2>1. q # w
      OBVIOUS
  <2> QED BY <2>1 DEF UsersOK
<1> QED
    BY <1>1, <1>2 DEF UsersOK

\* What makes a server quiet when only request r, or only worker w, is on it
LEMMA QuietOfRequest ==
    ASSUME UsersOK', NEW d \in Servers, NEW r \in Requests, users'[d] \subseteq {r},
           users'[d] = {} => InSync(d)', req'[r].id = d => RequestQuiet(r)'
    PROVE  Quiet(d)'
<1>1. ASSUME NEW q \in Requests, req'[q].id = d PROVE RequestQuiet(q)'
  <2>1. q = r
      BY <1>1 DEF UsersOK
  <2> QED BY <1>1, <2>1
<1>2. ASSUME NEW w \in Workers, wk'[w].id = d PROVE FALSE
    BY <1>2, ActorsDisjoint DEF UsersOK
<1> QED
    BY <1>1, <1>2 DEF Quiet

LEMMA QuietOfWorker ==
    ASSUME UsersOK', NEW d \in Servers, NEW w \in Workers, users'[d] \subseteq {w},
           users'[d] = {} => InSync(d)', wk'[w].id = d => WorkerQuiet(w)'
    PROVE  Quiet(d)'
<1>1. ASSUME NEW v \in Workers, wk'[v].id = d PROVE WorkerQuiet(v)'
  <2>1. v = w
      BY <1>1 DEF UsersOK
  <2> QED BY <1>1, <2>1
<1>2. ASSUME NEW q \in Requests, req'[q].id = d PROVE FALSE
    BY <1>2, ActorsDisjoint DEF UsersOK
<1> QED
    BY <1>1, <1>2 DEF Quiet

\* An actor at work on a quiet server is alone there
LEMMA RequestAlone ==
    ASSUME QuietInv, NEW r \in Requests, NEW d \in issued \ disturbed, req[r].id = d
    PROVE  users[d] = {r} /\ RequestQuiet(r)
<1>1. d \in Servers /\ Quiet(d)
    BY DEF QuietInv, TypeInv, StoresFit, HistoryFits
<1>2. r \in users[d]
    BY <1>1 DEF QuietInv, UsersOK
<1> QED
    BY <1>1, <1>2 DEF Quiet

LEMMA WorkerAlone ==
    ASSUME QuietInv, NEW w \in Workers, NEW d \in issued \ disturbed, wk[w].id = d
    PROVE  users[d] = {w} /\ WorkerQuiet(w)
<1>1. d \in Servers /\ Quiet(d)
    BY DEF QuietInv, TypeInv, StoresFit, HistoryFits
<1>2. w \in users[d]
    BY <1>1 DEF QuietInv, UsersOK
<1> QED
    BY <1>1, <1>2 DEF Quiet

\* What the steps below use of QuietInv
LEMMA QuietStores == QuietInv => issued \subseteq Servers /\ None \notin Servers /\ DOMAIN rows \subseteq issued
  BY StoresAssumption DEF QuietInv, TypeInv, StoresFit, RowsFit

LEMMA QuietUsers ==
    QuietInv => TypeInv /\ UsersOK /\ users \in [Servers -> SUBSET (Requests \cup Workers)]
  BY DEF QuietInv, TypeInv, HistoryFits

LEMMA QuietRequests ==
    QuietInv => req \in [Requests -> Locals] /\ \A r \in Requests : LocalsFit(req[r], issued)
  BY DEF QuietInv, TypeInv, RequestsFit

LEMMA QuietWorkers ==
    QuietInv => wk \in [Workers -> WorkerLocals] /\ \A w \in Workers : WorkerFits(wk[w], issued)
  BY DEF QuietInv, TypeInv, WorkersFit

LEMMA QuietServers == QuietInv => \A x \in issued \ disturbed : Quiet(x)
  BY DEF QuietInv
-----------------------------------------------------------------------------
\* A request that returns before its first write
LEMMA RequestGivesUp ==
    ASSUME QuietInv, TypeInv', NEW r \in Requests, UNCHANGED <<rows, hash, allIds, issued, wk>>,
           req[r].pc \in {"create", "update", "delete"}, Return(r), LeaveUnwritten(r)
    PROVE  QuietInv'
<1>d. PICK d : d = req[r].id
    OBVIOUS
<1> USE <1>d
<1>0. /\ req'[r] = Idle /\ Idle.id = None /\ Idle.pc = "idle"
      /\ \A q \in Requests : q # r => req'[q] = req[q]
    BY QuietRequests DEF Return, Idle
<1>1. CASE d = None
  <2>1. UNCHANGED <<users, disturbed>>
      BY <1>1 DEF LeaveUnwritten
  <2>2. \A q \in Requests : req'[q].id = req[q].id
      BY <1>0, <1>1, Zenon
  <2>3. UsersOK'
      BY <2>1, <2>2, QuietUsers DEF UsersOK
  <2>4. ASSUME NEW x \in Servers PROVE Untouched(x)
    <3>1. \A q \in Requests : req'[q].id = x => req'[q] = req[q]
        BY <1>0, QuietStores
    <3> QED
        BY <2>1, <3>1 DEF Untouched
  <2> QED
      BY <2>1, <2>3, <2>4, OneServer, <1>1, QuietStores
<1>2. CASE d # None
  <2>1. d \in issued /\ d \in Servers /\ req[r].pc \in {"update", "delete"}
      BY <1>2, QuietStores, QuietRequests DEF LocalsFit
  <2>2. users' = [users EXCEPT ![d] = @ \ {r}] /\ UNCHANGED disturbed
      BY <1>2 DEF LeaveUnwritten, Leave
  <2>3. UsersOK'
      BY <1>0, <2>1, <2>2, RequestUsers, QuietUsers, Zenon
  <2>4. \A x \in Servers \ {d} : Untouched(x)
      BY <1>0, <2>2, QuietStores DEF Untouched
  <2>5. ASSUME d \notin disturbed PROVE Quiet(d)'
    <3>1. users[d] = {r} /\ RequestQuiet(r)
        BY <2>1, <2>5, RequestAlone
    <3>2. InSync(d)
        BY <2>1, <3>1, Zenon DEF RequestQuiet
    <3>3. InSync(d)'
        BY <3>2 DEF InSync
    <3>4. users'[d] = {}
        BY <2>1, <2>2, <3>1, QuietUsers
    <3> QED
        BY <1>0, <2>1, <2>3, <3>3, <3>4, QuietOfRequest, QuietStores
  <2> QED
      BY <2>2, <2>3, <2>4, <2>5, OneServer
<1> QED
    BY <1>1, <1>2

\* A request that reads the row of a server it was not at work on
LEMMA RequestEnters ==
    ASSUME QuietInv, TypeInv', NEW r \in Requests, NEW d \in DOMAIN rows,
           UNCHANGED <<rows, hash, allIds, issued, wk>>, req[r].id = None,
           \A q \in Requests : q # r => req'[q] = req[q],
           req'[r].id = d, req'[r].pc \in {"update", "delete"}, Enter(r, d)
    PROVE  QuietInv'
<1>1. d \in Servers /\ d \in issued /\ users' = [users EXCEPT ![d] = @ \cup {r}]
    BY QuietStores DEF Enter
<1>2. UsersOK'
    BY <1>1, RequestUsers, QuietUsers, Zenon
<1>3. \A x \in Servers \ {d} : Untouched(x)
    BY <1>1 DEF Untouched, Enter
<1>4. ASSUME d \notin disturbed' PROVE Quiet(d)'
  <2>1. d \notin disturbed /\ users[d] \subseteq {r}
      BY <1>1, <1>4 DEF Enter, Alone
  <2>2. r \notin users[d]
      BY <1>1, QuietStores, QuietUsers DEF UsersOK
  <2>3. InSync(d)
      BY <1>1, <2>1, <2>2, QuietServers DEF Quiet
  <2>4. InSync(d)'
      BY <2>3 DEF InSync
  <2>5. RequestQuiet(r)'
    <3>1. InSync(req[r].id)'
        BY <2>4 DEF InSync
    <3> QED
        BY <3>1 DEF RequestQuiet
  <2> QED
      BY <1>1, <1>2, <2>1, <2>4, <2>5, QuietOfRequest
<1> QED
    BY <1>2, <1>3, <1>4, OneServer

\* A request that reads PostgreSQL and goes on
LEMMA RequestReads ==
    ASSUME QuietInv, TypeInv', NEW r \in Requests, UNCHANGED <<storeVars, wk>>,
           \A q \in Requests : q # r => req'[q] = req[q],
           \A f \in {"id", "pc", "ipv4", "status", "failures"} : req'[r][f] = req[r][f]
    PROVE  QuietInv'
<1> USE DEF storeVars
<1>1. UsersOK'
    BY QuietUsers DEF UsersOK
<1>2. ASSUME NEW x \in issued \ disturbed PROVE Quiet(x)'
  <2>1. Quiet(x)
      BY QuietServers, Zenon
  <2>2. ASSUME NEW q \in Requests, req'[q].id = x PROVE RequestQuiet(q)'
    <3>1. RequestQuiet(q) /\ req'[q].pc = req[q].pc /\ req'[q].id = req[q].id
          /\ req'[q].ipv4 = req[q].ipv4 /\ req'[q].status = req[q].status
          /\ req'[q].failures = req[q].failures
        BY <2>1, <2>2, Zenon DEF Quiet
    <3>2. InSync(req[q].id) => InSync(req[q].id)'
        BY <3>1, Zenon DEF InSync
    <3> QED
        BY <3>1, <3>2, Zenon DEF RequestQuiet, RowAs, HashAs
  <2>3. ASSUME NEW w \in Workers, wk'[w].id = x PROVE WorkerQuiet(w)'
    <3>1. WorkerQuiet(w)
        BY <2>1, <2>3, Zenon DEF Quiet
    <3>2. InSync(wk[w].id) => InSync(wk[w].id)'
        BY Zenon DEF InSync
    <3> QED
        BY <3>1, <3>2, Zenon DEF WorkerQuiet, HashAs
  <2>4. users'[x] = {} => InSync(x)'
      BY <2>1 DEF Quiet, InSync
  <2> QED
      BY <2>1, <2>2, <2>3, <2>4 DEF Quiet
<1> QED
    BY <1>1, <1>2 DEF QuietInv

LEMMA CreateRowQuiet ==
    ASSUME QuietInv, TypeInv', NEW r \in Requests, CreateRow(r), UNCHANGED wk
    PROVE  QuietInv'
<1>0. req[r].pc = "create" /\ req[r].id = None /\ req[r].failures = 0 /\ req[r] \in Locals
    BY QuietRequests, Zenon DEF CreateRow, LocalsFit
<1>1. CASE ~UniqueIndexes(None, req[r].name, req[r].ipv4)
  <2>1. Return(r) /\ UNCHANGED <<rows, hash, allIds, issued, users, disturbed>>
      BY <1>1 DEF CreateRow
  <2>2. LeaveUnwritten(r)
      BY <1>0, <2>1 DEF LeaveUnwritten
  <2> QED
      BY <1>0, <2>1, <2>2, RequestGivesUp
<1>2. CASE UniqueIndexes(None, req[r].name, req[r].ipv4)
  <2>1. PICK d \in Servers \ issued :
          /\ Insert(d, req[r].name, req[r].ipv4)
          /\ Enter(r, d)
          /\ req' = [req EXCEPT ![r] = [@ EXCEPT !.pc = "hset", !.id = d, !.status = "ONLINE"]]
          /\ UNCHANGED <<hash, allIds>>
      BY <1>2, Zenon DEF CreateRow
  <2>2. /\ req'[r].pc = "hset" /\ req'[r].id = d /\ req'[r].status = "ONLINE"
        /\ req'[r].ipv4 = req[r].ipv4 /\ req'[r].failures = 0
        /\ \A q \in Requests : q # r => req'[q] = req[q]
      BY <1>0, <2>1, QuietRequests DEF Locals
  <2>3. users' = [users EXCEPT ![d] = @ \cup {r}]
      BY <2>1 DEF Enter
  <2>4. UsersOK'
      BY <1>0, <2>1, <2>2, <2>3, RequestUsers, QuietUsers, Zenon
  <2>5. /\ DOMAIN rows' = DOMAIN rows \cup {d}
        /\ rows'[d].ipv4 = req[r].ipv4 /\ rows'[d].status = "ONLINE" /\ rows'[d].failures = 0
        /\ \A x \in DOMAIN rows : x # d => rows'[x] = rows[x]
        /\ issued' = issued \cup {d}
      BY <2>1 DEF Insert, Put
  <2>6. \A x \in Servers \ {d} : Untouched(x)
      BY <2>1, <2>2, <2>3, <2>5 DEF Untouched, Enter
  <2>7. ASSUME d \notin disturbed' PROVE Quiet(d)'
    <3>1. users'[d] = {r}
        BY <2>1, <2>3, <2>7, QuietUsers, Zenon DEF Enter, Alone
    <3>2. RequestQuiet(r)'
        BY <2>2, <2>5 DEF RequestQuiet, RowAs
    <3> QED
        BY <2>1, <2>4, <3>1, <3>2, QuietOfRequest, Zenon
  <2> QED
      BY <2>4, <2>6, <2>7, OneServer
<1> QED
    BY <1>1, <1>2

LEMMA UpdateServerRowQuiet ==
    ASSUME QuietInv, TypeInv', NEW r \in Requests, UpdateServerRow(r), UNCHANGED wk
    PROVE  QuietInv'
<1>d. PICK d : d = req[r].id
    BY Zenon
<1>0. req[r].pc = "update" /\ d \in issued /\ d \in Servers /\ d # None /\ req[r] \in Locals
    BY <1>d, QuietStores, QuietRequests, Zenon DEF UpdateServerRow, LocalsFit
<1>1. CASE ~(d \in DOMAIN rows /\ UniqueIndexes(d, req[r].name, req[r].ipv4))
  <2>1. Return(r) /\ Leave(r, d) /\ UNCHANGED <<rows, hash, allIds, issued>>
      BY <1>d, <1>1, Zenon DEF UpdateServerRow
  <2>2. LeaveUnwritten(r)
      BY <1>d, <1>0, <2>1 DEF LeaveUnwritten
  <2> QED
      BY <1>0, <2>1, <2>2, RequestGivesUp, Zenon
<1>2. CASE d \in DOMAIN rows /\ UniqueIndexes(d, req[r].name, req[r].ipv4)
  <2>1. /\ UpdateRow(d, [name |-> req[r].name, ipv4 |-> req[r].ipv4,
                         status |-> req[r].status, failures |-> req[r].failures])
        /\ Settle(r, d) /\ Goto(r, "hset")
        /\ UNCHANGED <<hash, allIds, issued, users>>
      BY <1>d, <1>2 DEF UpdateServerRow
  <2>2. /\ req'[r].pc = "hset" /\ req'[r].id = d /\ req'[r].status = req[r].status
        /\ req'[r].ipv4 = req[r].ipv4 /\ req'[r].failures = req[r].failures
        /\ \A q \in Requests : q # r => req'[q] = req[q]
      BY <1>d, <1>0, <2>1, QuietRequests, Zenon DEF Goto, Locals
  <2>3. UsersOK'
      BY <1>d, <1>0, <2>1, <2>2, RequestUsers, QuietUsers, Zenon
  <2>4. /\ DOMAIN rows' = DOMAIN rows \cup {d}
        /\ rows'[d].ipv4 = req[r].ipv4 /\ rows'[d].status = req[r].status
        /\ rows'[d].failures = req[r].failures
        /\ \A x \in DOMAIN rows : x # d => rows'[x] = rows[x]
      BY <2>1, Zenon DEF UpdateRow, Put
  <2>5. \A x \in Servers \ {d} : Untouched(x)
      BY <2>1, <2>2, <2>4, ZenonT(30) DEF Untouched, Settle
  <2>6. ASSUME d \notin disturbed' PROVE Quiet(d)'
    <3>1. users'[d] = {r}
        BY <1>d, <1>0, <2>1, <2>6, QuietUsers, SettledAlone, Zenon
    <3>2. RequestQuiet(r)'
        BY <2>2, <2>4 DEF RequestQuiet, RowAs
    <3> QED
        BY <1>0, <2>3, <3>1, <3>2, QuietOfRequest, Zenon
  <2> QED
      BY <2>3, <2>5, <2>6, OneServer, Zenon
<1> QED
    BY <1>1, <1>2

LEMMA DeleteServerRowQuiet ==
    ASSUME QuietInv, TypeInv', NEW r \in Requests, DeleteServerRow(r), UNCHANGED wk
    PROVE  QuietInv'
<1>d. PICK d : d = req[r].id
    OBVIOUS
<1>0. req[r].pc = "delete" /\ d \in issued /\ d \in Servers /\ d # None /\ req[r] \in Locals
    BY <1>d, QuietStores, QuietRequests, Zenon DEF DeleteServerRow, LocalsFit
<1>1. CASE d \notin DOMAIN rows
  <2>1. Return(r) /\ Leave(r, d) /\ UNCHANGED <<rows, hash, allIds, issued>>
      BY <1>d, <1>1 DEF DeleteServerRow
  <2>2. LeaveUnwritten(r)
      BY <1>d, <1>0, <2>1, Zenon DEF LeaveUnwritten
  <2> QED
      BY <1>0, <2>1, <2>2, RequestGivesUp, Zenon
<1>2. CASE d \in DOMAIN rows
  <2>1. DeleteRow(d) /\ Settle(r, d) /\ Goto(r, "del") /\ UNCHANGED <<hash, allIds, issued, users>>
      BY <1>d, <1>2 DEF DeleteServerRow
  <2>2. /\ req'[r].pc = "del" /\ req'[r].id = d
        /\ \A q \in Requests : q # r => req'[q] = req[q]
      BY <1>d, <1>0, <2>1, QuietRequests, Zenon DEF Goto, Locals
  <2>3. UsersOK'
      BY <1>d, <1>0, <2>1, <2>2, RequestUsers, QuietUsers
  <2>4. /\ DOMAIN rows' = DOMAIN rows \ {d}
        /\ \A x \in DOMAIN rows : x # d => rows'[x] = rows[x]
      BY <2>1, Zenon DEF DeleteRow, Drop, Restrict
  <2>5. \A x \in Servers \ {d} : Untouched(x)
      BY <2>1, <2>2, <2>4 DEF Untouched, Settle
  <2>6. ASSUME d \notin disturbed' PROVE Quiet(d)'
    <3>1. users'[d] = {r}
        BY <1>d, <1>0, <2>1, <2>6, QuietUsers DEF Settle, Alone, UsersOK
    <3>2. RequestQuiet(r)'
        BY <2>2, <2>4 DEF RequestQuiet
    <3> QED
        BY <1>0, <2>3, <3>1, <3>2, QuietOfRequest, Zenon
  <2> QED
      BY <2>3, <2>5, <2>6, OneServer
<1> QED
    BY <1>1, <1>2, Zenon
-----------------------------------------------------------------------------
\* The cache half of a dual write: the request at one of its four commands
LEMMA CacheStepQuiet ==
    ASSUME QuietInv, TypeInv', NEW r \in Requests, UNCHANGED wk,
           UpsertHSet(r) \/ UpsertSAdd(r) \/ CacheDel(r) \/ CacheSRem(r)
    PROVE  QuietInv'
<1>d. PICK d : d = req[r].id
    BY Zenon
<1>0. d \in issued /\ d \in Servers /\ d # None /\ req[r] \in Locals
    BY <1>d, QuietStores, QuietRequests, Zenon DEF UpsertHSet, UpsertSAdd, CacheDel, CacheSRem, LocalsFit
<1>a. ASSUME d \notin disturbed PROVE users[d] = {r} /\ RequestQuiet(r)
    BY <1>d, <1>0, <1>a, RequestAlone
<1>1. CASE UpsertHSet(r)
  <2>1. /\ req[r].pc = "hset" /\ CacheHSet(d, req[r].ipv4, req[r].status, req[r].failures)
        /\ UNCHANGED <<rows, allIds, issued, users, disturbed>>
      BY <1>d, <1>1 DEF UpsertHSet
  <2>2. /\ req'[r].pc = "sadd" /\ req'[r].id = d /\ req'[r].status = req[r].status
        /\ req'[r].ipv4 = req[r].ipv4 /\ req'[r].failures = req[r].failures
        /\ \A q \in Requests : q # r => req'[q] = req[q]
      BY <1>d, <1>0, <1>1, QuietRequests, Zenon DEF UpsertHSet, Goto, Locals
  <2>3. UsersOK'
      BY <1>d, <1>0, <2>1, <2>2, RequestUsers, QuietUsers, Zenon
  <2>4. /\ DOMAIN hash' = DOMAIN hash \cup {d}
        /\ hash'[d].ipv4 = req[r].ipv4 /\ hash'[d].status = req[r].status
        /\ hash'[d].retry = req[r].failures
        /\ \A x \in DOMAIN hash : x # d => hash'[x] = hash[x]
      BY <2>1, Zenon DEF CacheHSet, Put
  <2>5. \A x \in Servers \ {d} : Untouched(x)
      BY <2>1, <2>2, <2>4, Zenon DEF Untouched
  <2>6. ASSUME d \notin disturbed' PROVE Quiet(d)'
    <3>1. users'[d] = {r} /\ RequestQuiet(r)
        BY <1>a, <2>1, <2>6, Zenon
    <3>2. RequestQuiet(r)'
        BY <1>d, <2>1, <2>2, <2>4, <3>1, ZenonT(30) DEF RequestQuiet, RowAs, HashAs
    <3> QED
        BY <1>0, <2>3, <3>1, <3>2, QuietOfRequest, Zenon
  <2> QED
      BY <2>3, <2>5, <2>6, OneServer, Zenon
<1>2. CASE CacheDel(r)
  <2>1. /\ req[r].pc = "del" /\ hash' = Drop(hash, d)
        /\ UNCHANGED <<rows, allIds, issued, users, disturbed>>
      BY <1>d, <1>2, Zenon DEF CacheDel
  <2>2. /\ req'[r].pc = "srem" /\ req'[r].id = d
        /\ \A q \in Requests : q # r => req'[q] = req[q]
      BY <1>d, <1>0, <1>2, QuietRequests, Zenon DEF CacheDel, Goto, Locals
  <2>3. UsersOK'
      BY <1>d, <1>0, <2>1, <2>2, RequestUsers, QuietUsers
  <2>4. /\ DOMAIN hash' = DOMAIN hash \ {d}
        /\ \A x \in DOMAIN hash : x # d => hash'[x] = hash[x]
      BY <2>1, Zenon DEF Drop, Restrict
  <2>5. \A x \in Servers \ {d} : Untouched(x)
      BY <2>1, <2>2, <2>4, Zenon DEF Untouched
  <2>6. ASSUME d \notin disturbed' PROVE Quiet(d)'
    <3>1. users'[d] = {r} /\ RequestQuiet(r)
        BY <1>a, <2>1, <2>6, ZenonT(30)
    <3>2. RequestQuiet(r)'
        BY <1>d, <2>1, <2>2, <3>1 DEF RequestQuiet
    <3> QED
        BY <1>0, <2>3, <3>1, <3>2, QuietOfRequest
  <2> QED
      BY <2>3, <2>5, <2>6, OneServer
<1>3. CASE UpsertSAdd(r) \/ CacheSRem(r)
  <2>1. /\ req'[r] = Idle /\ Idle.id = None
        /\ \A q \in Requests : q # r => req'[q] = req[q]
      BY <1>3, QuietRequests, ZenonT(30) DEF UpsertSAdd, CacheSRem, Return, Idle
  <2>2. /\ users' = [users EXCEPT ![d] = @ \ {r}]
        /\ UNCHANGED <<rows, hash, issued, disturbed>>
        /\ \A x \in Servers \ {d} : x \in allIds' <=> x \in allIds
      BY <1>d, <1>3 DEF UpsertSAdd, CacheSRem, Leave
  <2>3. UsersOK'
      BY <1>d, <1>0, <2>1, <2>2, RequestUsers, QuietUsers, ZenonT(30)
  <2>4. \A x \in Servers \ {d} : Untouched(x)
      BY <2>1, <2>2, QuietStores DEF Untouched
  <2>5. ASSUME d \notin disturbed' PROVE Quiet(d)'
    <3>1. users[d] = {r} /\ RequestQuiet(r)
        BY <1>a, <2>2, <2>5
    <3>2. users'[d] = {}
        BY <1>0, <2>2, <3>1, QuietUsers
    <3>3. InSync(d)'
      <4>1. CASE UpsertSAdd(r)
          BY <1>d, <2>2, <3>1, <4>1, ZenonT(30) DEF UpsertSAdd, RequestQuiet, RowAs, HashAs, InSync
      <4>2. CASE CacheSRem(r)
          BY <1>d, <2>2, <3>1, <4>2, Zenon DEF CacheSRem, RequestQuiet, InSync
      <4> QED BY <1>3, <4>1, <4>2, Zenon
    <3> QED
        BY <1>0, <2>1, <2>3, <3>2, <3>3, QuietOfRequest
  <2> QED
      BY <2>3, <2>4, <2>5, OneServer
<1> QED
    BY <1>1, <1>2, <1>3

LEMMA RedisErrorQuiet ==
    ASSUME QuietInv, TypeInv', NEW r \in Requests, UNCHANGED wk, RedisError(r)
    PROVE  QuietInv'
<1>d. PICK d : d = req[r].id
    BY Zenon
<1>0. d \in issued /\ d \in Servers
    BY <1>d, QuietStores, QuietRequests, ZenonT(30) DEF RedisError, LocalsFit
<1>1. /\ req'[r] = Idle /\ Idle.id = None
      /\ \A q \in Requests : q # r => req'[q] = req[q]
    BY QuietRequests, Zenon DEF RedisError, Return, Idle
<1>2. /\ users' = [users EXCEPT ![d] = @ \ {r}] /\ disturbed' = disturbed \cup {d}
      /\ UNCHANGED <<rows, hash, allIds, issued>>
    BY <1>d DEF RedisError, LeaveTorn
<1>3. UsersOK'
    BY <1>d, <1>0, <1>1, <1>2, RequestUsers, QuietUsers, Zenon
<1>4. \A x \in Servers \ {d} : Untouched(x)
    BY <1>1, <1>2, QuietStores DEF Untouched
<1> QED
    BY <1>2, <1>3, <1>4, OneServer

\* A crash of the API: its requests vanish; what they were writing is torn
LEMMA APICrashQuiet ==
    ASSUME QuietInv, TypeInv', UNCHANGED wk, APICrash
    PROVE  QuietInv'
<1>1. /\ \A r \in Requests : req'[r].id = None
      /\ \A x \in Servers : users'[x] = users[x] \ Requests
      /\ UNCHANGED <<rows, hash, allIds, issued>>
      /\ disturbed \subseteq disturbed'
      /\ \A r \in Requests : req[r].pc \in {"hset", "sadd", "del", "srem"} => req[r].id \in disturbed'
    BY Zenon DEF APICrash, Idle
<1>2. UsersOK'
    BY <1>1, ActorsDisjoint, QuietStores, QuietUsers DEF UsersOK
<1>3. ASSUME NEW x \in issued \ disturbed' PROVE Quiet(x)'
  <2>1. Quiet(x) /\ x \in Servers
      BY <1>1, QuietStores, QuietServers, Zenon
  <2>2. \A a, b \in users'[x] : a = b
      BY <1>1, <2>1 DEF Quiet
  <2>3. users'[x] = {} => InSync(x)'
    <3> SUFFICES ASSUME users'[x] = {} PROVE InSync(x)
        BY <1>1, Zenon DEF InSync
    <3>1. CASE users[x] = {}
        BY <2>1, <3>1, Zenon DEF Quiet
    <3>2. ASSUME NEW a \in users[x] PROVE InSync(x)
      <4>1. a \in Requests /\ req[a].id = x
          BY <1>1, <2>1, <3>2, QuietUsers DEF UsersOK
      <4>2. req[a].pc \notin {"hset", "sadd", "del", "srem"} /\ req[a] \in Locals
          BY <1>1, <1>3, <4>1, QuietRequests, Zenon
      <4>3. req[a].pc \in {"update", "delete"}
          BY <2>1, <4>1, <4>2, QuietStores, QuietRequests, Zenon DEF LocalsFit, Locals
      <4> QED
          BY <2>1, <4>1, <4>3, Zenon DEF Quiet, RequestQuiet
    <3> QED
        BY <3>1, <3>2, Zenon
  <2>4. ASSUME NEW w \in Workers, wk'[w].id = x PROVE WorkerQuiet(w)'
    <3>1. WorkerQuiet(w)
        BY <2>1, <2>4, Zenon DEF Quiet
    <3>2. InSync(wk[w].id) => InSync(wk[w].id)'
        BY <1>1, Zenon DEF InSync
    <3> QED
        BY <1>1, <3>1, <3>2, Zenon DEF WorkerQuiet, HashAs
  <2> QED
      BY <1>1, <2>1, <2>2, <2>3, <2>4, QuietStores, Zenon DEF Quiet
<1> QED
    BY <1>1, <1>2, <1>3, Zenon DEF QuietInv
-----------------------------------------------------------------------------
LEMMA RequestQuietStep ==
    ASSUME QuietInv, TypeInv', UNCHANGED monOwnVars, NEW r \in Requests,
           \/ \E name \in Names, ipv4 \in IPs : CreateServer(r, name, ipv4)
           \/ \E id \in Servers, name \in Names, ipv4 \in IPs : UpdateServer(r, id, name, ipv4)
           \/ \E id \in Servers : DeleteServer(r, id)
           \/ RequestStep(r) \/ DBError(r) \/ RedisError(r)
    PROVE  QuietInv'
<1>0. UNCHANGED wk
    BY DEF monOwnVars
<1>1. ASSUME NEW name \in Names, NEW ipv4 \in IPs, CreateServer(r, name, ipv4) PROVE QuietInv'
  <2>1. /\ UNCHANGED storeVars /\ req[r].id = None /\ req'[r].id = None
        /\ \A q \in Requests : q # r => req'[q] = req[q]
      BY <1>1, QuietRequests, ZenonT(30) DEF CreateServer, LocalsFit, Idle
  <2>2. UsersOK'
    <3>1. users' = users /\ \A q \in Requests : req'[q].id = req[q].id
        BY <2>1, ZenonT(30) DEF storeVars
    <3> QED
        BY <1>0, <3>1, QuietUsers, ZenonT(30) DEF UsersOK
  <2>3. \A x \in Servers : Untouched(x)
      BY <1>0, <2>1, QuietStores, ZenonT(30) DEF Untouched, storeVars
  <2>4. None \notin issued'
      BY <2>1, StoresAssumption, QuietStores, ZenonT(30) DEF storeVars
  <2> QED
      BY <2>2, <2>3, <2>4, OneServer
<1>2. ASSUME NEW id \in Servers, NEW name \in Names, NEW ipv4 \in IPs, UpdateServer(r, id, name, ipv4)
      PROVE  QuietInv'
  <2>1. /\ UNCHANGED <<rows, hash, allIds, issued>> /\ req[r].id = None /\ id \in DOMAIN rows
        /\ req'[r].id = id /\ req'[r].pc = "update" /\ Enter(r, id)
        /\ \A q \in Requests : q # r => req'[q] = req[q]
      BY <1>2, QuietRequests, ZenonT(30) DEF UpdateServer, LocalsFit
  <2> QED
      BY <1>0, <2>1, RequestEnters, Zenon
<1>3. ASSUME NEW id \in Servers, DeleteServer(r, id) PROVE QuietInv'
  <2>1. /\ UNCHANGED <<rows, hash, allIds, issued>> /\ req[r].id = None /\ id \in DOMAIN rows
        /\ req'[r].id = id /\ req'[r].pc = "delete" /\ Enter(r, id)
        /\ \A q \in Requests : q # r => req'[q] = req[q]
      BY <1>3, QuietRequests, Zenon DEF DeleteServer, LocalsFit, Idle
  <2> QED
      BY <1>0, <2>1, RequestEnters, Zenon
<1>4. ASSUME CheckName(r) \/ CheckIPv4(r) PROVE QuietInv'
  <2>1. UNCHANGED <<rows, hash, allIds, issued>> /\ req[r].pc \in {"create", "update"} /\ req[r] \in Locals
      BY <1>4, QuietRequests, Zenon DEF CheckName, CheckIPv4
  <2>2. CASE Return(r) /\ LeaveUnwritten(r)
      BY <1>0, <2>1, <2>2, RequestGivesUp, Zenon
  <2>3. ASSUME NEW checks, req' = [req EXCEPT ![r].checks = checks], UNCHANGED <<users, disturbed>>
        PROVE  QuietInv'
    <3>1. /\ \A q \in Requests : q # r => req'[q] = req[q]
          /\ \A f \in {"id", "pc", "ipv4", "status", "failures"} : req'[r][f] = req[r][f]
        BY <2>1, <2>3, QuietRequests, ChecksKept, Zenon
    <3> QED
        BY <1>0, <2>1, <2>3, <3>1, RequestReads DEF storeVars
  <2> QED
      BY <1>4, <2>2, <2>3 DEF CheckName, CheckIPv4
<1>5. ASSUME DBError(r) PROVE QuietInv'
    BY <1>0, <1>5, RequestGivesUp DEF DBError
<1> QED
    BY <1>0, <1>1, <1>2, <1>3, <1>4, <1>5, CreateRowQuiet, UpdateServerRowQuiet, DeleteServerRowQuiet,
       CacheStepQuiet, RedisErrorQuiet, Zenon DEF RequestStep
-----------------------------------------------------------------------------
(* The steps of the monitor *)

\* A step of the monitor that leaves the stores and the workers alone
LEMMA CycleStepQuiet ==
    ASSUME QuietInv, TypeInv', UNCHANGED <<storeVars, req, wk>>
    PROVE  QuietInv'
<1>1. UsersOK'
    BY DEF QuietInv, UsersOK, storeVars
<1>2. \A x \in Servers : Untouched(x)
    BY DEF Untouched, storeVars
<1> QED
    BY <1>1, <1>2, StoresAssumption, OneServer DEF TypeInv, StoresFit, HistoryFits, storeVars

LEMMA TakeServerQuiet ==
    ASSUME QuietInv, TypeInv', NEW w \in Workers, UNCHANGED req, TakeServer(w)
    PROVE  QuietInv'
<1>1. PICK d \in idChan[w[1]] :
        /\ wk[w].pc = "idle"
        /\ IF d \in DOMAIN hash /\ hash[d].ipv4 # None
           THEN /\ wk' = [wk EXCEPT ![w] = [Resting EXCEPT !.pc = "ping", !.id = d]]
                /\ Enter(w, d)
           ELSE UNCHANGED <<wk, users, disturbed>>
        /\ UNCHANGED <<rows, hash, allIds, issued>>
    BY Zenon DEF TakeServer
<1>2. w[1] \in Instances
    BY DEF Workers
<1>3. d \in issued /\ d \in Servers /\ wk[w].id = None
  <2>1. d \in issued
      BY <1>2, QuietUsers DEF TypeInv, CyclesFit
  <2>2. wk[w].id = None
      BY <1>1, QuietWorkers DEF WorkerFits
  <2> QED
      BY <2>1, <2>2, QuietStores
<1>4. CASE UNCHANGED <<wk, users, disturbed>>
  <2>1. UNCHANGED <<storeVars, req, wk>>
      BY <1>1, <1>4 DEF storeVars
  <2> QED
      BY <2>1, CycleStepQuiet
<1>5. CASE wk' = [wk EXCEPT ![w] = [Resting EXCEPT !.pc = "ping", !.id = d]] /\ Enter(w, d)
  <2>1. /\ wk'[w].pc = "ping" /\ wk'[w].id = d
        /\ \A v \in Workers : v # w => wk'[v] = wk[v]
      BY <1>5, QuietWorkers DEF Resting
  <2>2. users' = [users EXCEPT ![d] = @ \cup {w}]
      BY <1>5 DEF Enter
  <2>3. UsersOK'
      BY <1>3, <2>1, <2>2, WorkerUsers, QuietUsers, Zenon
  <2>4. \A x \in Servers \ {d} : Untouched(x)
      BY <1>1, <1>5, <2>1, <2>2 DEF Untouched, Enter
  <2>5. ASSUME d \notin disturbed' PROVE Quiet(d)'
    <3>1. d \notin disturbed /\ users[d] \subseteq {w} /\ w \notin users[d]
        BY <1>3, <1>5, <2>5, QuietStores, QuietUsers DEF Enter, Alone, UsersOK
    <3>2. InSync(d)
        BY <1>3, <3>1, QuietServers DEF Quiet
    <3>3. InSync(d)'
        BY <1>1, <3>2 DEF InSync
    <3>4. InSync(wk[w].id)'
        BY <2>1, <3>3 DEF InSync
    <3>5. WorkerQuiet(w)'
        BY <2>1, <3>4 DEF WorkerQuiet
    <3> QED
        BY <1>3, <2>2, <2>3, <3>1, <3>3, <3>5, QuietOfWorker
  <2> QED
      BY <2>3, <2>4, <2>5, OneServer
<1> QED
    BY <1>1, <1>4, <1>5

\* A worker that is done with its server before it wrote anything
LEMMA WorkerGivesUp ==
    ASSUME QuietInv, TypeInv', NEW w \in Workers, UNCHANGED <<rows, hash, allIds, issued, req>>,
           wk[w].pc \in {"ping", "get", "set"}, Rest(w), Leave(w, wk[w].id)
    PROVE  QuietInv'
<1>d. PICK d : d = wk[w].id
    OBVIOUS
<1>0. d \in issued /\ d \in Servers /\ d # None
    BY <1>d, QuietStores, QuietWorkers DEF WorkerFits
<1>1. /\ wk'[w] = Resting /\ Resting.id = None
      /\ \A v \in Workers : v # w => wk'[v] = wk[v]
    BY QuietWorkers DEF Rest, Resting
<1>2. users' = [users EXCEPT ![d] = @ \ {w}] /\ UNCHANGED disturbed
    BY <1>d DEF Leave
<1>3. UsersOK'
    BY <1>d, <1>0, <1>1, <1>2, WorkerUsers, QuietUsers, Zenon
<1>4. \A x \in Servers \ {d} : Untouched(x)
    BY <1>1, <1>2, QuietStores DEF Untouched
<1>5. ASSUME d \notin disturbed' PROVE Quiet(d)'
  <2>1. users[d] = {w} /\ WorkerQuiet(w)
      BY <1>d, <1>0, <1>2, <1>5, WorkerAlone
  <2>2. InSync(d)
      BY <1>d, <2>1 DEF Quiet, WorkerQuiet
  <2>3. InSync(d)'
      BY <2>2 DEF InSync
  <2>4. users'[d] = {}
      BY <1>0, <1>2, <2>1, QuietUsers
  <2> QED
      BY <1>0, <1>1, <1>3, <2>3, <2>4, QuietOfWorker
<1> QED
    BY <1>3, <1>4, <1>5, OneServer

\* When the state machine does not go to PostgreSQL, the status stays and
\* an ONLINE server has its counter at zero
LEMMA NoWrite ==
    ASSUME NEW status \in Status, NEW retry \in Nat, NEW ok \in BOOLEAN,
           ~WritesPostgres(status, NextState(status, retry, ok), ok)
    PROVE  /\ NextState(status, retry, ok).status = status
           /\ status = "ONLINE" => NextState(status, retry, ok).retry = 0
<1>1. NextState(status, retry, ok).status = status
    BY DEF WritesPostgres
<1>2. ASSUME status = "ONLINE" PROVE NextState(status, retry, ok).retry = 0
  <2>1. CASE ok
      BY <2>1 DEF NextState
  <2>2. CASE ~ok
      BY <1>2, <2>2, NextStateType DEF WritesPostgres
  <2> QED BY <2>1, <2>2
<1> QED
    BY <1>1, <1>2

LEMMA PingQuiet ==
    ASSUME QuietInv, TypeInv', NEW w \in Workers, NEW ok \in BOOLEAN, UNCHANGED req, Ping(w, ok)
    PROVE  QuietInv'
<1>d. PICK d : d = wk[w].id
    OBVIOUS
<1>0. d \in issued /\ d \in Servers /\ d # None /\ wk[w] \in WorkerLocals /\ wk[w].pc = "ping"
    BY <1>d, QuietStores, QuietWorkers DEF WorkerFits, Ping
<1>1. /\ wk'[w].pc = "get" /\ wk'[w].id = d
      /\ \A v \in Workers : v # w => wk'[v] = wk[v]
    BY <1>d, <1>0, QuietWorkers DEF Ping, WorkerLocals
<1>2. UNCHANGED <<rows, hash, allIds, issued, users, disturbed>>
    BY DEF Ping, storeVars
<1>3. UsersOK'
    BY <1>d, <1>0, <1>1, <1>2, WorkerUsers, QuietUsers
<1>4. \A x \in Servers \ {d} : Untouched(x)
    BY <1>1, <1>2 DEF Untouched
<1>5. ASSUME d \notin disturbed' PROVE Quiet(d)'
  <2>1. users[d] = {w} /\ WorkerQuiet(w)
      BY <1>d, <1>0, <1>2, <1>5, WorkerAlone
  <2>2. InSync(d)
      BY <1>d, <1>0, <2>1 DEF Quiet, WorkerQuiet
  <2>3. InSync(d)'
      BY <1>2, <2>2 DEF InSync
  <2>4. InSync(wk[w].id)'
      BY <1>1, <2>3 DEF InSync
  <2>5. WorkerQuiet(w)'
      BY <1>1, <2>4 DEF WorkerQuiet
  <2> QED
      BY <1>0, <1>2, <1>3, <2>1, <2>3, <2>5, QuietOfWorker
<1> QED
    BY <1>3, <1>4, <1>5, OneServer

LEMMA GetServerStateQuiet ==
    ASSUME QuietInv, TypeInv', NEW w \in Workers, UNCHANGED req, GetServerState(w)
    PROVE  QuietInv'
<1>d. PICK d : d = wk[w].id
    OBVIOUS
<1>0. d \in issued /\ d \in Servers /\ d # None /\ wk[w] \in WorkerLocals /\ wk[w].pc = "get"
    BY <1>d, QuietStores, QuietWorkers DEF WorkerFits, GetServerState
<1>1. CASE d \notin DOMAIN hash
  <2>1. Rest(w) /\ Leave(w, wk[w].id) /\ UNCHANGED <<rows, hash, allIds, issued>>
      BY <1>d, <1>1 DEF GetServerState
  <2> QED
      BY <1>0, <2>1, WorkerGivesUp
<1>2. CASE d \in DOMAIN hash
  <2>1. PICK next, pg :
          /\ next = NextState(hash[d].status, hash[d].retry, wk[w].ok)
          /\ pg = WritesPostgres(hash[d].status, next, wk[w].ok)
      OBVIOUS
  <2>2. wk' = [wk EXCEPT ![w] = [@ EXCEPT !.pc = "set", !.status = next.status,
                                           !.retry = next.retry, !.pg = pg]]
      BY <1>d, <1>2, <2>1 DEF GetServerState
  <2>3. UNCHANGED <<rows, hash, allIds, issued, users, disturbed>>
      BY <1>d, <1>2 DEF GetServerState
  <2>4. /\ wk'[w].pc = "set" /\ wk'[w].id = d /\ wk'[w].status = next.status
        /\ wk'[w].retry = next.retry /\ wk'[w].pg = pg
        /\ \A v \in Workers : v # w => wk'[v] = wk[v]
      BY <1>d, <1>0, <2>2, QuietWorkers DEF WorkerLocals
  <2>5. UsersOK'
      BY <1>d, <1>0, <2>3, <2>4, WorkerUsers, QuietUsers, Zenon
  <2>6. \A x \in Servers \ {d} : Untouched(x)
      BY <2>3, <2>4 DEF Untouched
  <2>7. ASSUME d \notin disturbed' PROVE Quiet(d)'
    <3>1. users[d] = {w} /\ WorkerQuiet(w)
        BY <1>d, <1>0, <2>3, <2>7, WorkerAlone
    <3>2. InSync(d)
        BY <1>d, <1>0, <3>1 DEF Quiet, WorkerQuiet
    <3>3. InSync(d)'
        BY <2>3, <3>2 DEF InSync
    <3>4. InSync(wk[w].id)'
        BY <2>4, <3>3 DEF InSync
    <3>5. ASSUME ~pg, d \in DOMAIN rows
          PROVE  next.status = rows[d].status /\ (next.status = "ONLINE" => next.retry = 0)
      <4>1. hash[d].status \in Status /\ hash[d].retry \in Nat /\ wk[w].ok \in BOOLEAN
          BY <1>0, <1>2, QuietUsers, Zenon DEF Hash, WorkerLocals, TypeInv, StoresFit, HashFit
      <4>2. next.status = hash[d].status /\ (hash[d].status = "ONLINE" => next.retry = 0)
          BY <2>1, <3>5, <4>1, NoWrite, Zenon
      <4> QED
          BY <3>2, <3>5, <4>2 DEF InSync
    <3>6. WorkerQuiet(w)'
        BY <2>3, <2>4, <3>4, <3>5 DEF WorkerQuiet
    <3> QED
        BY <1>0, <2>3, <2>5, <3>1, <3>3, <3>6, QuietOfWorker, Zenon
  <2> QED
      BY <2>5, <2>6, <2>7, OneServer
<1> QED
    BY <1>1, <1>2

LEMMA SetStateQuiet ==
    ASSUME QuietInv, TypeInv', NEW w \in Workers, UNCHANGED req, SetState(w)
    PROVE  QuietInv'
<1>d. PICK d : d = wk[w].id
    OBVIOUS
<1>0. d \in issued /\ d \in Servers /\ d # None /\ wk[w] \in WorkerLocals /\ wk[w].pc = "set"
    BY <1>d, QuietStores, QuietWorkers DEF WorkerFits, SetState
<1>1. /\ SetServerState(d, wk[w].status, wk[w].retry)
      /\ UNCHANGED <<rows, allIds, issued>>
      /\ IF wk[w].pg
         THEN wk' = [wk EXCEPT ![w].pc = "pg"] /\ UNCHANGED <<users, disturbed>>
         ELSE Rest(w) /\ Leave(w, d)
    BY <1>d DEF SetState
<1>2. /\ DOMAIN hash' = DOMAIN hash \cup {d}
      /\ hash'[d].status = wk[w].status /\ hash'[d].retry = wk[w].retry
      /\ d \in DOMAIN hash => hash'[d].ipv4 = hash[d].ipv4
      /\ \A x \in DOMAIN hash : x # d => hash'[x] = hash[x]
    BY <1>1 DEF SetServerState, CacheHSet, Put
<1>a. ASSUME d \notin disturbed PROVE users[d] = {w} /\ WorkerQuiet(w)
    BY <1>d, <1>0, <1>a, WorkerAlone
<1>3. CASE wk[w].pg
  <2>1. /\ wk'[w].pc = "pg" /\ wk'[w].id = d /\ wk'[w].status = wk[w].status
        /\ wk'[w].retry = wk[w].retry
        /\ \A v \in Workers : v # w => wk'[v] = wk[v]
      BY <1>d, <1>0, <1>1, <1>3, QuietWorkers DEF WorkerLocals
  <2>2. UNCHANGED <<users, disturbed>>
      BY <1>1, <1>3
  <2>3. UsersOK'
      BY <1>d, <1>0, <2>1, <2>2, WorkerUsers, QuietUsers
  <2>4. \A x \in Servers \ {d} : Untouched(x)
      BY <1>1, <1>2, <2>1, <2>2 DEF Untouched
  <2>5. ASSUME d \notin disturbed' PROVE Quiet(d)'
    <3>1. users'[d] = {w} /\ InSync(d)
        BY <1>a, <1>d, <1>0, <2>2, <2>5 DEF WorkerQuiet
    <3>2. WorkerQuiet(w)'
        BY <1>1, <1>2, <2>1, <3>1 DEF WorkerQuiet, HashAs, InSync
    <3> QED
        BY <1>0, <2>3, <3>1, <3>2, QuietOfWorker
  <2> QED
      BY <2>3, <2>4, <2>5, OneServer
<1>4. CASE ~wk[w].pg
  <2>1. /\ wk'[w] = Resting /\ Resting.id = None
        /\ \A v \in Workers : v # w => wk'[v] = wk[v]
      BY <1>1, <1>4, QuietWorkers DEF Rest, Resting
  <2>2. users' = [users EXCEPT ![d] = @ \ {w}] /\ UNCHANGED disturbed
      BY <1>1, <1>4 DEF Leave
  <2>3. UsersOK'
      BY <1>d, <1>0, <2>1, <2>2, WorkerUsers, QuietUsers, Zenon
  <2>4. \A x \in Servers \ {d} : Untouched(x)
      BY <1>1, <1>2, <2>1, <2>2, QuietStores DEF Untouched
  <2>5. ASSUME d \notin disturbed' PROVE Quiet(d)'
    <3>1. users[d] = {w} /\ InSync(d)
        BY <1>a, <1>d, <1>0, <2>2, <2>5, Zenon DEF WorkerQuiet
    <3>2. d \in DOMAIN rows => /\ wk[w].status = rows[d].status
                               /\ wk[w].status = "ONLINE" => wk[w].retry = 0
        BY <1>a, <1>d, <1>0, <1>4, <2>2, <2>5, Zenon DEF WorkerQuiet
    <3>3. InSync(d)'
        BY <1>1, <1>2, <3>1, <3>2 DEF InSync
    <3>4. users'[d] = {}
        BY <1>0, <2>2, <3>1, QuietUsers, Zenon
    <3> QED
        BY <1>0, <2>1, <2>3, <3>3, <3>4, QuietOfWorker, Zenon
  <2> QED
      BY <2>3, <2>4, <2>5, OneServer
<1> QED
    BY <1>3, <1>4

LEMMA WritePostgresQuiet ==
    ASSUME QuietInv, TypeInv', NEW w \in Workers, UNCHANGED req, WritePostgres(w)
    PROVE  QuietInv'
<1>d. PICK d : d = wk[w].id
    OBVIOUS
<1>0. d \in issued /\ d \in Servers /\ d # None /\ wk[w].pc = "pg"
    BY <1>d, QuietStores, QuietWorkers DEF WorkerFits, WritePostgres
<1>1. /\ UpdateServerStatus(d, wk[w].status, wk[w].retry)
      /\ Rest(w) /\ Leave(w, d) /\ UNCHANGED <<hash, allIds, issued>>
    BY <1>d DEF WritePostgres
<1>2. /\ DOMAIN rows' = DOMAIN rows
      /\ d \in DOMAIN rows => /\ rows'[d].status = wk[w].status /\ rows'[d].failures = wk[w].retry
                              /\ rows'[d].ipv4 = rows[d].ipv4
      /\ \A x \in DOMAIN rows : x # d => rows'[x] = rows[x]
    BY <1>1 DEF UpdateServerStatus, Row, TypeInv, StoresFit, RowsFit
<1>3. /\ wk'[w] = Resting /\ Resting.id = None
      /\ \A v \in Workers : v # w => wk'[v] = wk[v]
    BY <1>1, QuietWorkers DEF Rest, Resting
<1>4. users' = [users EXCEPT ![d] = @ \ {w}] /\ UNCHANGED disturbed
    BY <1>1 DEF Leave
<1>5. UsersOK'
    BY <1>d, <1>0, <1>3, <1>4, WorkerUsers, QuietUsers, Zenon
<1>6. \A x \in Servers \ {d} : Untouched(x)
  <2>1. \A x \in Servers \ {d} : users'[x] = users[x]
      BY <1>4, QuietUsers, Zenon
  <2>2. \A v \in Workers, x \in Servers : wk'[v].id = x => wk'[v] = wk[v]
      BY <1>3, QuietStores, Zenon
  <2> QED
      BY <1>1, <1>2, <1>4, <2>1, <2>2, ZenonT(30) DEF Untouched
<1>7. ASSUME d \notin disturbed' PROVE Quiet(d)'
  <2>1. users[d] = {w} /\ WorkerQuiet(w)
      BY <1>d, <1>0, <1>4, <1>7, WorkerAlone, Zenon
  <2>2. InSync(d)'
      BY <1>d, <1>0, <1>1, <1>2, <2>1 DEF WorkerQuiet, HashAs, InSync
  <2>3. users'[d] = {}
      BY <1>0, <1>4, <2>1, QuietUsers
  <2> QED
      BY <1>0, <1>3, <1>5, <2>2, <2>3, QuietOfWorker, Zenon
<1> QED
    BY <1>5, <1>6, <1>7, OneServer

LEMMA EvaluateDBErrorQuiet ==
    ASSUME QuietInv, TypeInv', NEW w \in Workers, UNCHANGED req, EvaluateDBError(w)
    PROVE  QuietInv'
<1>d. PICK d : d = wk[w].id
    OBVIOUS
<1>0. d \in issued /\ d \in Servers
    BY <1>d, QuietStores, QuietWorkers DEF EvaluateDBError, WorkerFits
<1>1. /\ wk'[w] = Resting /\ Resting.id = None
      /\ \A v \in Workers : v # w => wk'[v] = wk[v]
    BY QuietWorkers DEF EvaluateDBError, Rest, Resting
<1>2. /\ users' = [users EXCEPT ![d] = @ \ {w}] /\ disturbed' = disturbed \cup {d}
      /\ UNCHANGED <<rows, hash, allIds, issued>>
    BY <1>d DEF EvaluateDBError, LeaveTorn
<1>3. UsersOK'
    BY <1>d, <1>0, <1>1, <1>2, WorkerUsers, QuietUsers, Zenon
<1>4. \A x \in Servers \ {d} : Untouched(x)
    BY <1>1, <1>2, QuietStores DEF Untouched
<1> QED
    BY <1>2, <1>3, <1>4, OneServer

\* A crash of an instance: its workers vanish; a status that was still to
\* be written to PostgreSQL is torn
LEMMA MonitorCrashQuiet ==
    ASSUME QuietInv, TypeInv', UNCHANGED req, NEW i \in Instances, MonitorCrash(i)
    PROVE  QuietInv'
<1> DEFINE Dead == {i} \X Slots
<1>0. /\ \A w \in Workers : w \in Dead <=> w[1] = i
      /\ Dead \subseteq Workers
    BY DEF Workers
<1>1. /\ \A w \in Workers : IF w \in Dead THEN wk'[w].id = None ELSE wk'[w] = wk[w]
      /\ \A x \in Servers : users'[x] = users[x] \ Dead
      /\ UNCHANGED <<rows, hash, allIds, issued>>
      /\ disturbed \subseteq disturbed'
      /\ \A w \in Dead : wk[w].pc = "pg" => wk[w].id \in disturbed'
  <2>1. /\ wk' = [w \in Workers |-> IF w[1] = i THEN Resting ELSE wk[w]]
        /\ users' = [x \in Servers |-> users[x] \ Dead]
        /\ disturbed' = disturbed \cup {wk[w].id : w \in {v \in Dead : wk[v].pc = "pg"}}
        /\ UNCHANGED <<rows, hash, allIds, issued>>
      BY Zenon DEF MonitorCrash
  <2>2. Resting.id = None
      BY DEF Resting
  <2> HIDE DEF Dead
  <2>3. \A w \in Workers : IF w \in Dead THEN wk'[w].id = None ELSE wk'[w] = wk[w]
      BY <1>0, <2>1, <2>2, Zenon
  <2> QED
      BY <2>1, <2>3, Zenon
<1> HIDE DEF Dead
<1>2. UsersOK'
    BY <1>0, <1>1, ActorsDisjoint, QuietStores, QuietUsers DEF UsersOK
<1>3. ASSUME NEW x \in issued \ disturbed' PROVE Quiet(x)'
  <2>1. Quiet(x) /\ x \in Servers
      BY <1>1, QuietStores, QuietServers
  <2>2. \A a, b \in users'[x] : a = b
      BY <1>1, <2>1 DEF Quiet
  <2>3. users'[x] = {} => InSync(x)'
    <3> SUFFICES ASSUME users'[x] = {} PROVE InSync(x)
        BY <1>1, Zenon DEF InSync
    <3>1. CASE users[x] = {}
        BY <2>1, <3>1 DEF Quiet
    <3>2. ASSUME NEW a \in users[x] PROVE InSync(x)
      <4>0. a \in Dead /\ a \in Workers
          BY <1>0, <1>1, <2>1, <3>2, Zenon
      <4>1. a \in Dead /\ a \in Workers /\ wk[a].id = x
          BY <2>1, <3>2, <4>0, QuietUsers, Zenon DEF UsersOK
      <4>2. wk[a].pc # "pg" /\ wk[a].pc # "idle" /\ wk[a] \in WorkerLocals
          BY <1>1, <1>3, <2>1, <4>1, QuietStores, QuietWorkers, Zenon DEF WorkerFits
      <4>3. wk[a].pc \in {"ping", "get", "set"}
          BY <4>2, Zenon DEF WorkerLocals
      <4> QED
          BY <2>1, <4>1, <4>3 DEF Quiet, WorkerQuiet
    <3> QED
        BY <3>1, <3>2, Zenon
  <2>4. ASSUME NEW w \in Workers, wk'[w].id = x PROVE WorkerQuiet(w)'
    <3>1. wk'[w] = wk[w]
        BY <1>1, <2>1, <2>4, QuietStores
    <3>2. WorkerQuiet(w)
        BY <2>1, <2>4, <3>1, Zenon DEF Quiet
    <3>3. InSync(wk[w].id) => InSync(wk[w].id)'
        BY <1>1, <3>1, Zenon DEF InSync
    <3> QED
        BY <1>1, <3>1, <3>2, <3>3, Zenon DEF WorkerQuiet, HashAs
  <2>5. ASSUME NEW r \in Requests, req'[r].id = x PROVE RequestQuiet(r)'
    <3>1. RequestQuiet(r)
        BY <2>1, <2>5, ZenonT(30) DEF Quiet
    <3>2. InSync(req[r].id) => InSync(req[r].id)'
        BY <1>1 DEF InSync
    <3> QED
        BY <1>1, <3>1, <3>2 DEF RequestQuiet, RowAs, HashAs
  <2> QED
      BY <2>2, <2>3, <2>4, <2>5 DEF Quiet
<1> QED
    BY <1>1, <1>2, <1>3 DEF QuietInv
-----------------------------------------------------------------------------
LEMMA MonitorQuietStep ==
    ASSUME QuietInv, TypeInv', UNCHANGED req, MonNext
    PROVE  QuietInv'
<1>1. ASSUME NEW i \in Instances, CycleStep(i) \/ FetchIDsError(i) PROVE UNCHANGED <<storeVars, req, wk>>
    BY <1>1 DEF CycleStep, AcquireLock, FetchIDs, FetchIDsError, CycleDone
<1>2. ASSUME LockExpires PROVE UNCHANGED <<storeVars, req, wk>>
    BY <1>2, Zenon DEF LockExpires
<1>3. ASSUME NEW w \in Workers, EvaluateRedisError(w) PROVE QuietInv'
    BY <1>3, WorkerGivesUp DEF EvaluateRedisError
<1>4. ASSUME NEW w \in Workers, WorkerStep(w) PROVE QuietInv'
    BY <1>4, TakeServerQuiet, PingQuiet, GetServerStateQuiet, SetStateQuiet, WritePostgresQuiet, Zenon
       DEF WorkerStep
<1>5. ASSUME NEW w \in Workers, SkipServer(w) PROVE UNCHANGED <<storeVars, req, wk>>
    BY <1>5 DEF SkipServer
<1> QED
    BY <1>1, <1>2, <1>3, <1>4, <1>5, CycleStepQuiet, MonitorCrashQuiet, EvaluateDBErrorQuiet, ZenonT(30)
       DEF MonNext

\* QuietInv is inductive
LEMMA NextQuietInv == QuietInv /\ [Next]_vars => QuietInv'
<1> SUFFICES ASSUME QuietInv, [Next]_vars PROVE QuietInv'
    OBVIOUS
<1>0. TypeInv'
    BY NextTypeInv DEF QuietInv
<1>1. CASE MgmtNext /\ UNCHANGED monOwnVars
    BY <1>0, <1>1, RequestQuietStep, APICrashQuiet DEF MgmtNext, monOwnVars
<1>2. CASE MonNext /\ UNCHANGED req
    BY <1>0, <1>2, MonitorQuietStep
<1>3. CASE UNCHANGED vars
  <2>1. UNCHANGED <<storeVars, req, wk>>
      BY <1>3 DEF vars, storeVars
  <2> QED
      BY <1>0, <2>1, CycleStepQuiet
<1> QED
    BY <1>1, <1>2, <1>3 DEF Next

(* The dual write keeps Redis and PostgreSQL in agreement about every      *)
(* server on which no actors overlapped and none was cut short, and the    *)
(* next write of an actor that is alone restores agreement about the       *)
(* others (server_service.go, server_cache.go, monitoring_service.go).     *)
THEOREM UndisturbedInSyncHolds == Spec => []UndisturbedInSync
<1>1. Init => QuietInv
  <2> SUFFICES ASSUME Init PROVE QuietInv
      OBVIOUS
  <2>1. TypeInv
      BY InitTypeInv
  <2>2. UsersOK /\ issued = {}
      BY StoresAssumption, Zenon DEF Init, StoresInit, MgmtInit, MonInit, Idle, Resting, UsersOK
  <2> QED
      BY <2>1, <2>2 DEF QuietInv
<1>2. QuietInv => UndisturbedInSync
    BY DEF QuietInv, Quiet, UndisturbedInSync
<1> QED
    BY <1>1, <1>2, NextQuietInv, PTL DEF Spec
=============================================================================

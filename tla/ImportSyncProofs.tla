--------------------------- MODULE ImportSyncProofs ---------------------------
(***************************************************************************)
(* The proof that Redis and PostgreSQL agree about every server that has   *)
(* no actor at work and no disturbed history (UndisturbedInSync), when     *)
(* imports store servers in batches beside creations and deletions.  The   *)
(* inductive invariant says, for a server that is not disturbed, that at   *)
(* most one request or import is at work on it, and what the two stores    *)
(* hold at each command of its dual write or of the batch's pipeline.      *)
(***************************************************************************)
EXTENDS ServerImportProofs

\* The time limits of the provers
USE SMTT(30), ZenonT(30)

RowAs(id, ipv4, status, failures) ==
    /\ id \in DOMAIN rows
    /\ rows[id].ipv4 = ipv4 /\ rows[id].status = status /\ rows[id].failures = failures

HashAs(id, ipv4, status, retry) ==
    /\ id \in DOMAIN hash
    /\ hash[id].ipv4 = ipv4 /\ hash[id].status = status /\ hash[id].retry = retry

\* A request alone on its server: the stores agree until it writes the row;
\* then the row holds what it will write to Redis
RequestQuiet(r) ==
    LET q == req[r]
    IN  /\ q.pc = "delete" => InSync(q.id)
        /\ q.pc \in {"hset", "sadd"} => RowAs(q.id, q.ipv4, q.status, q.failures)
        /\ q.pc = "sadd" => HashAs(q.id, q.ipv4, q.status, q.failures)
        /\ q.pc \in {"del", "srem"} => q.id \notin DOMAIN rows

\* The HSET of line k's server was sent, its SADD was not
HalfSent(i, k) == imp[i].pc = "sadd" /\ k = Sending(i)

\* An import alone on the server of line k: the row holds what the pipeline
\* will write to Redis
ItemQuiet(i, k) ==
    LET item == imp[i].items[k]
    IN  /\ RowAs(item.id, item.ipv4, "ONLINE", 0)
        /\ HalfSent(i, k) => HashAs(item.id, item.ipv4, "ONLINE", 0)

Quiet(id) ==
    /\ \A a, b \in users[id] : a = b
    /\ users[id] = {} => InSync(id)
    /\ \A r \in Requests : req[r].id = id => RequestQuiet(r)
    /\ \A i \in Importers : \A k \in DOMAIN imp[i].items :
         imp[i].items[k].id = id => ItemQuiet(i, k)

\* users is what the local variables say
UsersOK ==
    \A id \in Servers :
        /\ \A r \in Requests : r \in users[id] <=> req[r].id = id
        /\ \A i \in Importers : i \in users[id] <=> id \in ItemIds(i)

\* A pipeline has one item for each of its servers
OnceIn(i) ==
    \A j, k \in DOMAIN imp[i].items : imp[i].items[j].id = imp[i].items[k].id => j = k

ItemsOnce == \A i \in Importers : OnceIn(i)

QuietInv == ImportInv /\ UsersOK /\ ItemsOnce /\ \A id \in issued \ disturbed : Quiet(id)

LEMMA NewRowHas ==
    \A l : NewRow(l).ipv4 = l.ipv4 /\ NewRow(l).status = "ONLINE" /\ NewRow(l).failures = 0
  BY DEF NewRow
-----------------------------------------------------------------------------
(* What a step leaves alone *)

\* A step keeps the items that import i has for server id
KeepsItems(i, id) ==
    \A k \in DOMAIN imp'[i].items :
        imp'[i].items[k].id = id =>
            /\ k \in DOMAIN imp[i].items
            /\ imp'[i].items[k] = imp[i].items[k]
            /\ HalfSent(i, k)' => HalfSent(i, k)

\* A step changes nothing that Quiet(id) reads
Untouched(id) ==
    /\ id \in issued' => id \in issued
    /\ id \in disturbed => id \in disturbed'
    /\ users'[id] = users[id]
    /\ id \in DOMAIN rows' <=> id \in DOMAIN rows
    /\ id \in DOMAIN rows => rows'[id] = rows[id]
    /\ id \in DOMAIN hash' <=> id \in DOMAIN hash
    /\ id \in DOMAIN hash => hash'[id] = hash[id]
    /\ id \in allIds' <=> id \in allIds
    /\ \A r \in Requests : req'[r].id = id => req'[r] = req[r]
    /\ \A i \in Importers : KeepsItems(i, id)

LEMMA InSyncFrame ==
    ASSUME NEW id, Untouched(id), InSync(id)
    PROVE  InSync(id)'
  BY DEF Untouched, InSync

\* Quiet(id) survives a step that leaves id alone
LEMMA QuietFrame ==
    ASSUME NEW id \in issued' \ disturbed', Untouched(id), id \in issued \ disturbed => Quiet(id)
    PROVE  Quiet(id)'
<1>1. Quiet(id)
    BY DEF Untouched
<1>2. \A a, b \in users'[id] : a = b
    BY <1>1 DEF Untouched, Quiet
<1>3. users'[id] = {} => InSync(id)'
    BY <1>1, InSyncFrame, Zenon DEF Untouched, Quiet
<1>4. ASSUME NEW r \in Requests, req'[r].id = id PROVE RequestQuiet(r)'
  <2>1. RequestQuiet(r) /\ req'[r] = req[r] /\ req[r].id = id
      BY <1>1, <1>4 DEF Untouched, Quiet
  <2>2. InSync(id) => InSync(id)'
      BY InSyncFrame
  <2>3. req'[r].pc = "delete" => InSync(req[r].id)'
      BY <1>4, <2>1, <2>2, ZenonT(30) DEF RequestQuiet, InSync
  <2> QED
      BY <2>1, <2>3 DEF RequestQuiet, RowAs, HashAs, Untouched
<1>5. ASSUME NEW i \in Importers, NEW k \in DOMAIN imp'[i].items, imp'[i].items[k].id = id
      PROVE  ItemQuiet(i, k)'
  <2>1. /\ k \in DOMAIN imp[i].items /\ imp'[i].items[k] = imp[i].items[k]
        /\ HalfSent(i, k)' => HalfSent(i, k)
      BY <1>5, Zenon DEF Untouched, KeepsItems
  <2>2. ItemQuiet(i, k) /\ imp[i].items[k].id = id
      BY <1>1, <1>5, <2>1 DEF Quiet
  <2> QED
      BY <2>1, <2>2 DEF ItemQuiet, RowAs, HashAs, Untouched
<1> QED
    BY <1>2, <1>3, <1>4, <1>5, Zenon DEF Quiet

\* A step that touches the servers of D at most, and leaves those quiet
LEMMA SomeServers ==
    ASSUME QuietInv, ImportInv', UsersOK', ItemsOnce', NEW D,
           \A x \in Servers \ D : Untouched(x),
           \A x \in D : x \in issued' \ disturbed' => Quiet(x)'
    PROVE  QuietInv'
<1>1. ASSUME NEW x \in issued' \ disturbed' PROVE Quiet(x)'
  <2>1. x \in Servers
      BY DEF ImportInv, StoresFit
  <2>2. CASE x \notin D
      BY <2>1, <2>2, QuietFrame DEF QuietInv
  <2>3. CASE x \in D
      BY <2>3
  <2> QED
      BY <2>2, <2>3
<1> QED
    BY <1>1 DEF QuietInv

LEMMA OneServer ==
    ASSUME QuietInv, ImportInv', UsersOK', ItemsOnce', NEW d,
           \A x \in Servers \ {d} : Untouched(x),
           d \in issued' \ disturbed' => Quiet(d)'
    PROVE  QuietInv'
<1>1. ASSUME NEW x \in {d}, x \in issued' \ disturbed' PROVE Quiet(x)'
  <2>1. x = d
      OBVIOUS
  <2>2. Quiet(d)'
      BY <1>1
  <2> QED
      BY <2>1, <2>2 DEF Quiet, InSync
<1> QED
    BY <1>1, SomeServers, ZenonT(30)

\* An import that takes no step keeps its items
LEMMA OtherImport ==
    ASSUME NEW i, imp'[i] = imp[i]
    PROVE  /\ \A x : KeepsItems(i, x)
           /\ ItemIds(i)' = ItemIds(i)
           /\ OnceIn(i) => OnceIn(i)'
  BY DEF KeepsItems, HalfSent, Sending, ItemIds, OnceIn

\* A request's step leaves the imports and their items alone
LEMMA ItemsStay ==
    ASSUME UNCHANGED imp
    PROVE  /\ \A x : \A i \in Importers : KeepsItems(i, x)
           /\ \A i \in Importers : ItemIds(i)' = ItemIds(i)
           /\ ItemsOnce => ItemsOnce'
  BY OtherImport DEF ItemsOnce

\* A step that nobody starts or ends work with
LEMMA UsersStay ==
    ASSUME UsersOK, UNCHANGED <<imp, users>>, \A q \in Requests : req'[q].id = req[q].id
    PROVE  UsersOK'
  BY ItemsStay DEF UsersOK

\* The three ways a step of request r changes the server it is at work on
LEMMA RequestUsers ==
    ASSUME ImportInv, UsersOK, NEW r \in Requests, NEW d \in Servers, UNCHANGED imp,
           \A q \in Requests : q # r => req'[q] = req[q],
           \/ req'[r].id = req[r].id /\ users' = users
           \/ req[r].id = None /\ req'[r].id = d /\ users' = [users EXCEPT ![d] = @ \cup {r}]
           \/ req[r].id = d /\ req'[r].id = None /\ users' = [users EXCEPT ![d] = @ \ {r}]
    PROVE  UsersOK'
<1>0. users \in [Servers -> SUBSET (Requests \cup Importers)] /\ None \notin Servers
    BY StoresAssumption DEF ImportInv, HistoryFits
<1>1. ASSUME NEW x \in Servers, NEW q \in Requests PROVE q \in users'[x] <=> req'[q].id = x
  <2>1. CASE q = r
      BY <1>0, <2>1 DEF UsersOK
  <2>2. CASE q # r
      BY <1>0, <2>2 DEF UsersOK
  <2> QED BY <2>1, <2>2
<1>2. ASSUME NEW x \in Servers, NEW i \in Importers PROVE i \in users'[x] <=> x \in ItemIds(i)'
  <2>1. i # r
      BY ImportAssumption
  <2>2. ItemIds(i)' = ItemIds(i)
      BY ItemsStay
  <2>3. i \in users[x] <=> x \in ItemIds(i)
      BY Zenon DEF UsersOK
  <2>4. i \in users'[x] <=> i \in users[x]
      BY <1>0, <2>1
  <2> QED BY <2>2, <2>3, <2>4
<1> QED
    BY <1>1, <1>2 DEF UsersOK

\* What makes a server quiet when only request r is on it
LEMMA QuietOfRequest ==
    ASSUME UsersOK', NEW d \in Servers, NEW r \in Requests, users'[d] \subseteq {r},
           users'[d] = {} => InSync(d)', req'[r].id = d => RequestQuiet(r)'
    PROVE  Quiet(d)'
<1>1. ASSUME NEW q \in Requests, req'[q].id = d PROVE RequestQuiet(q)'
  <2>1. q = r
      BY <1>1 DEF UsersOK
  <2> QED BY <1>1, <2>1
<1>2. ASSUME NEW i \in Importers, NEW k \in DOMAIN imp'[i].items, imp'[i].items[k].id = d PROVE FALSE
  <2>1. d \in ItemIds(i)'
      BY <1>2 DEF ItemIds
  <2>2. i \in users'[d]
      BY <2>1, Zenon DEF UsersOK
  <2> QED BY <2>2, ImportAssumption
<1> QED
    BY <1>1, <1>2 DEF Quiet

\* What makes a server quiet when only import i is on it
LEMMA QuietOfImport ==
    ASSUME UsersOK', ItemsOnce', NEW d \in Servers, NEW i \in Importers, users'[d] \subseteq {i},
           users'[d] = {} => InSync(d)', NEW k,
           k \in DOMAIN imp'[i].items /\ imp'[i].items[k].id = d => ItemQuiet(i, k)',
           d \in ItemIds(i)' => k \in DOMAIN imp'[i].items /\ imp'[i].items[k].id = d
    PROVE  Quiet(d)'
<1>1. ASSUME NEW q \in Requests, req'[q].id = d PROVE FALSE
  <2>1. q \in users'[d]
      BY <1>1 DEF UsersOK
  <2> QED BY <2>1, ImportAssumption
<1>2. ASSUME NEW j \in Importers, NEW l \in DOMAIN imp'[j].items, imp'[j].items[l].id = d
      PROVE  ItemQuiet(j, l)'
  <2>1. d \in ItemIds(j)'
      BY <1>2 DEF ItemIds
  <2>2. j \in users'[d]
      BY <2>1, Zenon DEF UsersOK
  <2>3. j = i
      BY <2>2
  <2>4. k \in DOMAIN imp'[i].items /\ imp'[i].items[k].id = d
      BY <2>1, <2>3
  <2>5. l = k
      BY <1>2, <2>3, <2>4, Zenon DEF ItemsOnce, OnceIn
  <2> QED BY <2>3, <2>4, <2>5, ZenonT(30)
<1> QED
    BY <1>1, <1>2 DEF Quiet

\* What the steps below use of QuietInv
LEMMA QuietStores ==
    QuietInv => issued \subseteq Servers /\ None \notin Servers /\ DOMAIN rows \subseteq issued
  BY StoresAssumption DEF QuietInv, ImportInv, StoresFit, RowsFit

LEMMA QuietUsers ==
    QuietInv => /\ ImportInv /\ UsersOK /\ ItemsOnce
                /\ users \in [Servers -> SUBSET (Requests \cup Importers)]
  BY DEF QuietInv, ImportInv, HistoryFits

LEMMA QuietRequests ==
    QuietInv => req \in [Requests -> Locals] /\ \A r \in Requests : LocalsFit(req[r], issued)
  BY DEF QuietInv, ImportInv, RequestsFit

LEMMA QuietServers == QuietInv => \A x \in issued \ disturbed : Quiet(x)
  BY DEF QuietInv
-----------------------------------------------------------------------------
(* Requests *)

\* A request's step touches one server at most
LEMMA RequestServer ==
    ASSUME QuietInv, ImportInv', UsersOK', UNCHANGED imp, NEW d,
           \A x \in Servers \ {d} : Untouched(x),
           d \in issued' \ disturbed' => Quiet(d)'
    PROVE  QuietInv'
<1>1. ItemsOnce'
    BY ItemsStay, QuietUsers
<1> QED
    BY <1>1, OneServer

\* An actor at work on a quiet server is alone there
LEMMA RequestAlone ==
    ASSUME QuietInv, NEW r \in Requests, NEW d \in issued \ disturbed, req[r].id = d
    PROVE  users[d] = {r} /\ RequestQuiet(r)
<1>1. d \in Servers /\ Quiet(d)
    BY DEF QuietInv, ImportInv, StoresFit
<1>2. r \in users[d]
    BY <1>1 DEF QuietInv, UsersOK
<1> QED
    BY <1>1, <1>2 DEF Quiet

\* A passed check changes only what is left to check
LEMMA ChecksKept ==
    ASSUME req \in [Requests -> Locals], NEW r \in Requests, NEW checks,
           req' = [req EXCEPT ![r].checks = checks]
    PROVE  /\ \A q \in Requests : q # r => req'[q] = req[q]
           /\ \A f \in {"id", "pc", "ipv4", "status", "failures"} : req'[r][f] = req[r][f]
BY DEF Locals

\* A request that returns before its first write
LEMMA RequestGivesUp ==
    ASSUME QuietInv, ImportInv', NEW r \in Requests, UNCHANGED <<rows, hash, allIds, issued, imp>>,
           req[r].pc \in {"create", "delete"}, Return(r), LeaveUnwritten(r)
    PROVE  QuietInv'
<1>d. PICK d : d = req[r].id
    OBVIOUS
<1> USE <1>d
<1>0. /\ req'[r] = Idle /\ Idle.id = None /\ Idle.pc = "idle"
      /\ \A q \in Requests : q # r => req'[q] = req[q]
    BY QuietRequests DEF Return, Idle
<1>1. CASE d = None
  <2>1. UNCHANGED <<users, disturbed>>
      BY <1>1 DEF LeaveUnwritten
  <2>2. \A q \in Requests : req'[q].id = req[q].id
      BY <1>0, <1>1, Zenon
  <2>3. UsersOK'
      BY <2>1, <2>2, QuietUsers, UsersStay
  <2>4. ASSUME NEW x \in Servers PROVE Untouched(x)
    <3>1. \A q \in Requests : req'[q].id = x => req'[q] = req[q]
        BY <1>0, QuietStores
    <3> QED
        BY <2>1, <3>1, ItemsStay, ZenonT(30) DEF Untouched
  <2> QED
      BY <2>1, <2>3, <2>4, RequestServer, <1>1, QuietStores, ZenonT(30)
<1>2. CASE d # None
  <2>1. d \in issued /\ d \in Servers /\ req[r].pc = "delete"
      BY <1>2, QuietStores, QuietRequests, ZenonT(30) DEF LocalsFit
  <2>2. users' = [users EXCEPT ![d] = @ \ {r}] /\ UNCHANGED disturbed
      BY <1>2 DEF LeaveUnwritten, Leave
  <2>3. UsersOK'
      BY <1>0, <2>1, <2>2, RequestUsers, QuietUsers, ZenonT(30)
  <2>4. \A x \in Servers \ {d} : Untouched(x)
      BY <1>0, <2>2, QuietStores, ItemsStay DEF Untouched
  <2>5. ASSUME d \notin disturbed PROVE Quiet(d)'
    <3>1. users[d] = {r} /\ RequestQuiet(r)
        BY <2>1, <2>5, RequestAlone
    <3>2. InSync(d)
        BY <2>1, <3>1, ZenonT(30) DEF RequestQuiet
    <3>3. InSync(d)'
        BY <3>2 DEF InSync
    <3>4. users'[d] = {}
        BY <2>1, <2>2, <3>1, QuietUsers, ZenonT(30)
    <3> QED
        BY <1>0, <2>1, <2>3, <3>3, <3>4, QuietOfRequest, QuietStores, ZenonT(30)
  <2> QED
      BY <2>2, <2>3, <2>4, <2>5, RequestServer, ZenonT(30)
<1> QED
    BY <1>1, <1>2

\* A request that reads the row of a server it was not at work on
LEMMA RequestEnters ==
    ASSUME QuietInv, ImportInv', NEW r \in Requests, NEW d \in DOMAIN rows,
           UNCHANGED <<rows, hash, allIds, issued, imp>>, req[r].id = None,
           \A q \in Requests : q # r => req'[q] = req[q],
           req'[r].id = d, req'[r].pc = "delete", Enter(r, d)
    PROVE  QuietInv'
<1>1. d \in Servers /\ d \in issued /\ users' = [users EXCEPT ![d] = @ \cup {r}]
    BY QuietStores DEF Enter
<1>2. UsersOK'
    BY <1>1, RequestUsers, QuietUsers, Zenon
<1>3. \A x \in Servers \ {d} : Untouched(x)
    BY <1>1, ItemsStay DEF Untouched, Enter
<1>4. ASSUME d \notin disturbed' PROVE Quiet(d)'
  <2>1. d \notin disturbed /\ users[d] \subseteq {r}
      BY <1>1, <1>4, ZenonT(30) DEF Enter, Alone
  <2>2. r \notin users[d]
      BY <1>1, QuietStores, QuietUsers, ZenonT(30) DEF UsersOK
  <2>3. InSync(d)
      BY <1>1, <2>1, <2>2, QuietServers DEF Quiet
  <2>4. InSync(d)'
      BY <2>3 DEF InSync
  <2>5. RequestQuiet(r)'
    <3>1. InSync(req[r].id)'
        BY <2>4, ZenonT(30) DEF InSync
    <3> QED
        BY <3>1 DEF RequestQuiet
  <2> QED
      BY <1>1, <1>2, <2>1, <2>4, <2>5, QuietOfRequest
<1> QED
    BY <1>2, <1>3, <1>4, RequestServer, ZenonT(30)

\* A request that reads PostgreSQL and goes on
LEMMA RequestReads ==
    ASSUME QuietInv, ImportInv', NEW r \in Requests, UNCHANGED <<storeVars, imp>>,
           \A q \in Requests : q # r => req'[q] = req[q],
           \A f \in {"id", "pc", "ipv4", "status", "failures"} : req'[r][f] = req[r][f]
    PROVE  QuietInv'
<1> USE DEF storeVars
<1>1. UsersOK'
    BY QuietUsers, UsersStay
<1>2. ASSUME NEW x \in issued \ disturbed PROVE Quiet(x)'
  <2>1. Quiet(x)
      BY QuietServers, Zenon
  <2>2. ASSUME NEW q \in Requests, req'[q].id = x PROVE RequestQuiet(q)'
    <3>1. RequestQuiet(q) /\ req'[q].pc = req[q].pc /\ req'[q].id = req[q].id
          /\ req'[q].ipv4 = req[q].ipv4 /\ req'[q].status = req[q].status
          /\ req'[q].failures = req[q].failures
        BY <2>1, <2>2, Zenon DEF Quiet
    <3>2. InSync(req[q].id) => InSync(req[q].id)'
        BY <3>1, Zenon DEF InSync
    <3> QED
        BY <3>1, <3>2, Zenon DEF RequestQuiet, RowAs, HashAs
  <2>3. ASSUME NEW i \in Importers, NEW k \in DOMAIN imp'[i].items, imp'[i].items[k].id = x
        PROVE  ItemQuiet(i, k)'
    <3>1. ItemQuiet(i, k) /\ (HalfSent(i, k)' => HalfSent(i, k))
        BY <2>1, <2>3, ZenonT(30) DEF Quiet, HalfSent, Sending
    <3> QED
        BY <3>1, Zenon DEF ItemQuiet, RowAs, HashAs
  <2>4. users'[x] = {} => InSync(x)'
      BY <2>1 DEF Quiet, InSync
  <2> QED
      BY <2>1, <2>2, <2>3, <2>4, ZenonT(30) DEF Quiet
<1> QED
    BY <1>1, <1>2, ItemsStay, ZenonT(30) DEF QuietInv

LEMMA CreateRowQuiet ==
    ASSUME QuietInv, ImportInv', NEW r \in Requests, CreateRow(r), UNCHANGED imp
    PROVE  QuietInv'
<1>0. req[r].pc = "create" /\ req[r].id = None /\ req[r].failures = 0 /\ req[r] \in Locals
    BY QuietRequests, Zenon DEF CreateRow, LocalsFit
<1>1. CASE ~UniqueIndexes(None, req[r].name, req[r].ipv4)
  <2>1. Return(r) /\ UNCHANGED <<rows, hash, allIds, issued, users, disturbed>>
      BY <1>1 DEF CreateRow
  <2>2. LeaveUnwritten(r)
      BY <1>0, <2>1 DEF LeaveUnwritten
  <2> QED
      BY <1>0, <2>1, <2>2, RequestGivesUp, ZenonT(30)
<1>2. CASE UniqueIndexes(None, req[r].name, req[r].ipv4)
  <2>1. PICK d \in Servers \ issued :
          /\ Insert(d, req[r].name, req[r].ipv4)
          /\ Enter(r, d)
          /\ req' = [req EXCEPT ![r] = [@ EXCEPT !.pc = "hset", !.id = d, !.status = "ONLINE"]]
          /\ UNCHANGED <<hash, allIds>>
      BY <1>2, Zenon DEF CreateRow
  <2>2. /\ req'[r].pc = "hset" /\ req'[r].id = d /\ req'[r].status = "ONLINE"
        /\ req'[r].ipv4 = req[r].ipv4 /\ req'[r].failures = 0
        /\ \A q \in Requests : q # r => req'[q] = req[q]
      BY <1>0, <2>1, QuietRequests DEF Locals
  <2>3. users' = [users EXCEPT ![d] = @ \cup {r}]
      BY <2>1 DEF Enter
  <2>4. UsersOK'
      BY <1>0, <2>1, <2>2, <2>3, RequestUsers, QuietUsers, ZenonT(30)
  <2>5. /\ DOMAIN rows' = DOMAIN rows \cup {d}
        /\ rows'[d].ipv4 = req[r].ipv4 /\ rows'[d].status = "ONLINE" /\ rows'[d].failures = 0
        /\ \A x \in DOMAIN rows : x # d => rows'[x] = rows[x]
        /\ issued' = issued \cup {d}
      BY <2>1 DEF Insert, Put
  <2>6. \A x \in Servers \ {d} : Untouched(x)
      BY <2>1, <2>2, <2>3, <2>5, ItemsStay DEF Untouched, Enter
  <2>7. ASSUME d \notin disturbed' PROVE Quiet(d)'
    <3>1. users'[d] = {r}
        BY <2>1, <2>3, <2>7, QuietUsers, ZenonT(30) DEF Enter, Alone
    <3>2. RequestQuiet(r)'
        BY <2>2, <2>5 DEF RequestQuiet, RowAs
    <3> QED
        BY <2>1, <2>4, <3>1, <3>2, QuietOfRequest, Zenon
  <2> QED
      BY <2>4, <2>6, <2>7, RequestServer, ZenonT(30)
<1> QED
    BY <1>1, <1>2

LEMMA DeleteServerRowQuiet ==
    ASSUME QuietInv, ImportInv', NEW r \in Requests, DeleteServerRow(r), UNCHANGED imp
    PROVE  QuietInv'
<1>d. PICK d : d = req[r].id
    OBVIOUS
<1>0. req[r].pc = "delete" /\ d \in issued /\ d \in Servers /\ d # None /\ req[r] \in Locals
    BY <1>d, QuietStores, QuietRequests, Zenon DEF DeleteServerRow, LocalsFit
<1>1. CASE d \notin DOMAIN rows
  <2>1. Return(r) /\ Leave(r, d) /\ UNCHANGED <<rows, hash, allIds, issued>>
      BY <1>d, <1>1 DEF DeleteServerRow
  <2>2. LeaveUnwritten(r)
      BY <1>d, <1>0, <2>1, Zenon DEF LeaveUnwritten
  <2> QED
      BY <1>0, <2>1, <2>2, RequestGivesUp, ZenonT(30)
<1>2. CASE d \in DOMAIN rows
  <2>1. DeleteRow(d) /\ Settle(r, d) /\ Goto(r, "del") /\ UNCHANGED <<hash, allIds, issued, users>>
      BY <1>d, <1>2 DEF DeleteServerRow
  <2>2. /\ req'[r].pc = "del" /\ req'[r].id = d
        /\ \A q \in Requests : q # r => req'[q] = req[q]
      BY <1>d, <1>0, <2>1, QuietRequests, ZenonT(30) DEF Goto, Locals
  <2>3. UsersOK'
      BY <1>d, <1>0, <2>1, <2>2, RequestUsers, QuietUsers, ZenonT(30)
  <2>4. /\ DOMAIN rows' = DOMAIN rows \ {d}
        /\ \A x \in DOMAIN rows : x # d => rows'[x] = rows[x]
      BY <2>1, Zenon DEF DeleteRow, Drop, Restrict
  <2>5. \A x \in Servers \ {d} : Untouched(x)
      BY <2>1, <2>2, <2>4, ItemsStay, ZenonT(30) DEF Untouched, Settle
  <2>6. ASSUME d \notin disturbed' PROVE Quiet(d)'
    <3>1. users'[d] = {r}
        BY <1>d, <1>0, <2>1, <2>6, QuietUsers DEF Settle, Alone, UsersOK
    <3>2. RequestQuiet(r)'
        BY <2>2, <2>4 DEF RequestQuiet
    <3> QED
        BY <1>0, <2>3, <3>1, <3>2, QuietOfRequest, ZenonT(30)
  <2> QED
      BY <2>3, <2>5, <2>6, RequestServer, ZenonT(30)
<1> QED
    BY <1>1, <1>2, Zenon

\* The cache half of a dual write: the request at one of its four commands
LEMMA CacheStepQuiet ==
    ASSUME QuietInv, ImportInv', NEW r \in Requests, UNCHANGED imp,
           UpsertHSet(r) \/ UpsertSAdd(r) \/ CacheDel(r) \/ CacheSRem(r)
    PROVE  QuietInv'
<1>d. PICK d : d = req[r].id
    BY Zenon
<1>0. d \in issued /\ d \in Servers /\ d # None /\ req[r] \in Locals
    BY <1>d, QuietStores, QuietRequests, ZenonT(30) DEF UpsertHSet, UpsertSAdd, CacheDel, CacheSRem, LocalsFit
<1>a. ASSUME d \notin disturbed PROVE users[d] = {r} /\ RequestQuiet(r)
    BY <1>d, <1>0, <1>a, RequestAlone, ZenonT(30)
<1>1. CASE UpsertHSet(r)
  <2>1. /\ req[r].pc = "hset" /\ CacheHSet(d, req[r].ipv4, req[r].status, req[r].failures)
        /\ UNCHANGED <<rows, allIds, issued, users, disturbed>>
      BY <1>d, <1>1 DEF UpsertHSet
  <2>2. /\ req'[r].pc = "sadd" /\ req'[r].id = d /\ req'[r].status = req[r].status
        /\ req'[r].ipv4 = req[r].ipv4 /\ req'[r].failures = req[r].failures
        /\ \A q \in Requests : q # r => req'[q] = req[q]
      BY <1>d, <1>0, <1>1, QuietRequests, Zenon DEF UpsertHSet, Goto, Locals
  <2>3. UsersOK'
      BY <1>d, <1>0, <2>1, <2>2, RequestUsers, QuietUsers, ZenonT(30)
  <2>4. /\ DOMAIN hash' = DOMAIN hash \cup {d}
        /\ hash'[d].ipv4 = req[r].ipv4 /\ hash'[d].status = req[r].status
        /\ hash'[d].retry = req[r].failures
        /\ \A x \in DOMAIN hash : x # d => hash'[x] = hash[x]
      BY <2>1, Zenon DEF CacheHSet, Put
  <2>5. \A x \in Servers \ {d} : Untouched(x)
      BY <2>1, <2>2, <2>4, Zenon, ItemsStay DEF Untouched
  <2>6. ASSUME d \notin disturbed' PROVE Quiet(d)'
    <3>1. users'[d] = {r} /\ RequestQuiet(r)
        BY <1>a, <2>1, <2>6, Zenon
    <3>2. RequestQuiet(r)'
        BY <1>d, <2>1, <2>2, <2>4, <3>1, ZenonT(30) DEF RequestQuiet, RowAs, HashAs
    <3> QED
        BY <1>0, <2>3, <3>1, <3>2, QuietOfRequest, ZenonT(30)
  <2> QED
      BY <2>3, <2>5, <2>6, RequestServer, ZenonT(30)
<1>2. CASE CacheDel(r)
  <2>1. /\ req[r].pc = "del" /\ hash' = Drop(hash, d)
        /\ UNCHANGED <<rows, allIds, issued, users, disturbed>>
      BY <1>d, <1>2, Zenon DEF CacheDel
  <2>2. /\ req'[r].pc = "srem" /\ req'[r].id = d
        /\ \A q \in Requests : q # r => req'[q] = req[q]
      BY <1>d, <1>0, <1>2, QuietRequests, ZenonT(30) DEF CacheDel, Goto, Locals
  <2>3. UsersOK'
      BY <1>d, <1>0, <2>1, <2>2, RequestUsers, QuietUsers, ZenonT(30)
  <2>4. /\ DOMAIN hash' = DOMAIN hash \ {d}
        /\ \A x \in DOMAIN hash : x # d => hash'[x] = hash[x]
      BY <2>1, Zenon DEF Drop, Restrict
  <2>5. \A x \in Servers \ {d} : Untouched(x)
      BY <2>1, <2>2, <2>4, ZenonT(30), ItemsStay DEF Untouched
  <2>6. ASSUME d \notin disturbed' PROVE Quiet(d)'
    <3>1. users'[d] = {r} /\ RequestQuiet(r)
        BY <1>a, <2>1, <2>6, ZenonT(30)
    <3>2. RequestQuiet(r)'
        BY <1>d, <2>1, <2>2, <3>1, ZenonT(30) DEF RequestQuiet
    <3> QED
        BY <1>0, <2>3, <3>1, <3>2, QuietOfRequest, ZenonT(30)
  <2> QED
      BY <2>3, <2>5, <2>6, RequestServer, ZenonT(30)
<1>3. CASE UpsertSAdd(r) \/ CacheSRem(r)
  <2>1. /\ req'[r] = Idle /\ Idle.id = None
        /\ \A q \in Requests : q # r => req'[q] = req[q]
      BY <1>3, QuietRequests, ZenonT(30) DEF UpsertSAdd, CacheSRem, Return, Idle
  <2>2. /\ users' = [users EXCEPT ![d] = @ \ {r}]
        /\ UNCHANGED <<rows, hash, issued, disturbed>>
        /\ \A x \in Servers \ {d} : x \in allIds' <=> x \in allIds
      BY <1>d, <1>3 DEF UpsertSAdd, CacheSRem, Leave
  <2>3. UsersOK'
      BY <1>d, <1>0, <2>1, <2>2, RequestUsers, QuietUsers, ZenonT(30)
  <2>4. \A x \in Servers \ {d} : Untouched(x)
      BY <2>1, <2>2, QuietStores, ItemsStay DEF Untouched
  <2>5. ASSUME d \notin disturbed' PROVE Quiet(d)'
    <3>1. users[d] = {r} /\ RequestQuiet(r)
        BY <1>a, <2>2, <2>5, ZenonT(30)
    <3>2. users'[d] = {}
        BY <1>0, <2>2, <3>1, QuietUsers, ZenonT(30)
    <3>3. InSync(d)'
      <4>1. CASE UpsertSAdd(r)
          BY <1>d, <2>2, <3>1, <4>1, ZenonT(30) DEF UpsertSAdd, RequestQuiet, RowAs, HashAs, InSync
      <4>2. CASE CacheSRem(r)
          BY <1>d, <2>2, <3>1, <4>2, ZenonT(30) DEF CacheSRem, RequestQuiet, InSync
      <4> QED BY <1>3, <4>1, <4>2, Zenon
    <3> QED
        BY <1>0, <2>1, <2>3, <3>2, <3>3, QuietOfRequest, ZenonT(30)
  <2> QED
      BY <2>3, <2>4, <2>5, RequestServer
<1> QED
    BY <1>1, <1>2, <1>3

LEMMA RedisErrorQuiet ==
    ASSUME QuietInv, ImportInv', NEW r \in Requests, UNCHANGED imp, RedisError(r)
    PROVE  QuietInv'
<1>d. PICK d : d = req[r].id
    BY Zenon
<1>0. d \in issued /\ d \in Servers
    BY <1>d, QuietStores, QuietRequests, ZenonT(30) DEF RedisError, LocalsFit
<1>1. /\ req'[r] = Idle /\ Idle.id = None
      /\ \A q \in Requests : q # r => req'[q] = req[q]
    BY QuietRequests, Zenon DEF RedisError, Return, Idle
<1>2. /\ users' = [users EXCEPT ![d] = @ \ {r}] /\ disturbed' = disturbed \cup {d}
      /\ UNCHANGED <<rows, hash, allIds, issued>>
    BY <1>d DEF RedisError, LeaveTorn
<1>3. UsersOK'
    BY <1>d, <1>0, <1>1, <1>2, RequestUsers, QuietUsers, ZenonT(30)
<1>4. \A x \in Servers \ {d} : Untouched(x)
    BY <1>1, <1>2, QuietStores, ItemsStay DEF Untouched
<1> QED
    BY <1>2, <1>3, <1>4, RequestServer, ZenonT(30)
-----------------------------------------------------------------------------
(* Imports *)

\* Outside its pipeline an import has no items
LEMMA NoItems ==
    ASSUME ImportInv, NEW i \in Importers
    PROVE  imp[i] \in ImportLocals /\ (imp[i].pc \notin {"hset", "sadd"} => DOMAIN imp[i].items = {})
<1>1. LinesFit(imp[i], issued)
    BY DEF ImportInv, ImportsFit, ImportFits
<1> QED BY <1>1 DEF LinesFit

\* The items of import i and the users of its servers change together
LEMMA ImportUsers ==
    ASSUME QuietInv, NEW i \in Importers, UNCHANGED req,
           \A j \in Importers : j # i => imp'[j] = imp[j], OnceIn(i)',
           \A x \in Servers : \A a : a # i => (a \in users'[x] <=> a \in users[x]),
           \A x \in Servers : i \in users'[x] <=> x \in ItemIds(i)'
    PROVE  UsersOK' /\ ItemsOnce'
<1>1. ASSUME NEW j \in Importers PROVE OnceIn(j)'
  <2>1. CASE j = i
      BY <2>1, ZenonT(30)
  <2>2. CASE j # i
      BY <2>2, OtherImport, QuietUsers, ZenonT(30) DEF ItemsOnce
  <2> QED BY <2>1, <2>2
<1>2. ASSUME NEW x \in Servers, NEW j \in Importers PROVE j \in users'[x] <=> x \in ItemIds(j)'
  <2>1. CASE j = i
      BY <2>1
  <2>2. CASE j # i
    <3>1. ItemIds(j)' = ItemIds(j)
        BY <2>2, OtherImport, ZenonT(30)
    <3>2. j \in users'[x] <=> j \in users[x]
        BY <2>2, ZenonT(30)
    <3>3. j \in users[x] <=> x \in ItemIds(j)
        BY QuietUsers DEF UsersOK
    <3> QED BY <3>1, <3>2, <3>3, ZenonT(30)
  <2> QED BY <2>1, <2>2, ZenonT(30)
<1>3. ASSUME NEW x \in Servers, NEW r \in Requests PROVE r \in users'[x] <=> req'[r].id = x
  <2>1. r # i
      BY ImportAssumption
  <2> QED BY <2>1, QuietUsers, Zenon DEF UsersOK
<1> QED BY <1>1, <1>2, <1>3, ZenonT(30) DEF UsersOK, ItemsOnce

\* An import that reads PostgreSQL or returns has no items before or after
LEMMA ImportReads ==
    ASSUME QuietInv, ImportInv', NEW i \in Importers, UNCHANGED <<storeVars, req>>,
           NEW v, imp' = [imp EXCEPT ![i] = v],
           imp[i].pc \notin {"hset", "sadd"}, v.pc \notin {"hset", "sadd"}
    PROVE  QuietInv'
<1>0. /\ UNCHANGED <<rows, hash, allIds, issued, users, disturbed>>
      /\ imp'[i].pc \notin {"hset", "sadd"}
      /\ \A j \in Importers : j # i => imp'[j] = imp[j]
  <2>1. imp \in [Importers -> ImportLocals]
      BY QuietUsers DEF ImportInv, ImportsFit
  <2> QED BY <2>1 DEF storeVars
<1>1. DOMAIN imp[i].items = {} /\ DOMAIN imp'[i].items = {}
  <2>1. LinesFit(imp'[i], issued')
      BY DEF ImportInv, ImportsFit, ImportFits
  <2>2. DOMAIN imp'[i].items = {}
      BY <1>0, <2>1, ZenonT(30) DEF LinesFit
  <2> QED BY <2>2, NoItems, QuietUsers, ZenonT(30)
<1>2. ItemIds(i) = {} /\ ItemIds(i)' = {} /\ OnceIn(i)'
    BY <1>1, ZenonT(30) DEF ItemIds, OnceIn
<1>3. \A x \in Servers : i \in users'[x] <=> x \in ItemIds(i)'
    BY <1>0, <1>2, QuietUsers, ZenonT(30) DEF UsersOK
<1>4. UsersOK' /\ ItemsOnce'
    BY <1>0, <1>2, <1>3, ImportUsers, ZenonT(30)
<1>5. ASSUME NEW x \in Servers PROVE Untouched(x)
  <2>1. ASSUME NEW j \in Importers PROVE KeepsItems(j, x)
    <3>1. CASE j = i
        BY <1>1, <3>1, ZenonT(30) DEF KeepsItems
    <3>2. CASE j # i
        BY <1>0, <3>2, OtherImport, ZenonT(30)
    <3> QED BY <3>1, <3>2, ZenonT(30)
  <2> QED BY <1>0, <2>1, ZenonT(30) DEF Untouched
<1>6. None \notin issued' /\ \A x \in Servers \ {None} : Untouched(x)
    BY <1>0, <1>5, QuietStores
<1> QED BY <1>4, <1>6, OneServer, Zenon

\* Nobody is at work on a server that has no id yet
LEMMA NobodyYet ==
    ASSUME QuietInv, NEW x \in Servers \ issued
    PROVE  users[x] = {}
<1>1. ASSUME NEW r \in Requests PROVE r \notin users[x]
    BY QuietStores, QuietUsers, QuietRequests DEF UsersOK, LocalsFit
<1>2. ASSUME NEW i \in Importers PROVE i \notin users[x]
  <2>1. x \notin ItemIds(i)
      BY BatchIds, QuietUsers, ZenonT(30) DEF ItemIds
  <2> QED BY <2>1, QuietUsers DEF UsersOK
<1> QED BY <1>1, <1>2, QuietUsers

\* An import at work on a quiet server is alone there
LEMMA ImportAlone ==
    ASSUME QuietInv, NEW i \in Importers, NEW k \in DOMAIN imp[i].items, imp[i].items[k].id \notin disturbed
    PROVE  users[imp[i].items[k].id] = {i} /\ ItemQuiet(i, k)
<1> DEFINE d == imp[i].items[k].id
<1>1. d \in issued /\ d \in Servers
    BY BatchIds, QuietStores, QuietUsers, Zenon
<1>2. Quiet(d)
    BY <1>1, QuietServers, ZenonT(30)
<1>3. d \in ItemIds(i)
    BY DEF ItemIds
<1> HIDE DEF d
<1>4. i \in users[d]
    BY <1>1, <1>3, QuietUsers, ZenonT(30) DEF UsersOK
<1>5. \A a, b \in users[d] : a = b
    BY <1>2 DEF Quiet
<1>6. users[d] = {i}
    BY <1>4, <1>5
<1>7. ItemQuiet(i, k)
    BY <1>2, Zenon DEF Quiet, d
<1> QED BY <1>6, <1>7 DEF d

LEMMA BatchHSetQuiet ==
    ASSUME QuietInv, ImportInv', NEW i \in Importers, BatchHSet(i)
    PROVE  QuietInv'
<1>k. PICK k : k = Sending(i)
    OBVIOUS
<1>d. PICK d : d = imp[i].items[k].id
    OBVIOUS
<1>e. PICK ipv4 : ipv4 = imp[i].items[k].ipv4
    OBVIOUS
<1>0. /\ imp[i].pc = "hset" /\ imp' = [imp EXCEPT ![i].pc = "sadd"]
      /\ hash' = Put(hash, d, [ipv4 |-> ipv4, status |-> "ONLINE", retry |-> 0])
      /\ UNCHANGED <<rows, allIds, issued, users, disturbed, req>>
    BY <1>k, <1>d, <1>e, ZenonT(30) DEF BatchHSet, CacheHSet
<1>1. k \in DOMAIN imp[i].items /\ d \in issued /\ d \in Servers
    BY <1>k, <1>d, <1>0, SendingIn, QuietUsers, ZenonT(30)
<1>2. imp \in [Importers -> ImportLocals]
    BY QuietUsers DEF ImportInv, ImportsFit
<1>3. /\ \A j \in Importers : j # i => imp'[j] = imp[j]
      /\ imp'[i].items = imp[i].items
    BY <1>0, <1>2, ZenonT(30) DEF ImportLocals
<1>4. ItemIds(i)' = ItemIds(i) /\ OnceIn(i)' /\ Sending(i)' = k
    BY <1>k, <1>3, QuietUsers, ZenonT(30) DEF ItemIds, ItemsOnce, OnceIn, Sending
<1>5. UsersOK' /\ ItemsOnce'
  <2>1. \A x \in Servers : i \in users'[x] <=> x \in ItemIds(i)'
      BY <1>0, <1>4, QuietUsers DEF UsersOK
  <2> QED BY <1>0, <1>3, <1>4, <2>1, ImportUsers, ZenonT(30)
<1>6. /\ DOMAIN hash' = DOMAIN hash \cup {d}
      /\ hash'[d].ipv4 = ipv4 /\ hash'[d].status = "ONLINE" /\ hash'[d].retry = 0
      /\ \A x \in DOMAIN hash : x # d => hash'[x] = hash[x]
    BY <1>0, Zenon DEF Put
<1>7. ASSUME NEW x \in Servers \ {d} PROVE Untouched(x)
  <2>1. ASSUME NEW j \in Importers PROVE KeepsItems(j, x)
    <3>1. CASE j = i
        BY <1>d, <1>3, <1>4, <3>1, ZenonT(30) DEF KeepsItems, HalfSent
    <3>2. CASE j # i
        BY <1>3, <3>2, OtherImport, ZenonT(30)
    <3> QED BY <3>1, <3>2, ZenonT(30)
  <2> QED BY <1>0, <1>6, <2>1, ZenonT(30) DEF Untouched
<1>8. ASSUME d \notin disturbed' PROVE Quiet(d)'
  <2>1. users[d] = {i} /\ ItemQuiet(i, k)
      BY <1>d, <1>0, <1>1, <1>8, ImportAlone, ZenonT(30)
  <2>2. RowAs(d, ipv4, "ONLINE", 0)
      BY <1>d, <1>e, <2>1, Zenon DEF ItemQuiet
  <2>3. RowAs(d, ipv4, "ONLINE", 0)' /\ HashAs(d, ipv4, "ONLINE", 0)'
      BY <1>0, <1>6, <2>2, ZenonT(30) DEF RowAs, HashAs
  <2>4. imp'[i].items[k].id = d /\ imp'[i].items[k].ipv4 = ipv4 /\ k \in DOMAIN imp'[i].items
      BY <1>d, <1>e, <1>1, <1>3, ZenonT(30)
  <2>5. ItemQuiet(i, k)'
      BY <2>3, <2>4 DEF ItemQuiet, RowAs, HashAs
  <2>6. users'[d] = {i}
      BY <1>0, <2>1
  <2> QED BY <1>1, <1>5, <2>4, <2>5, <2>6, QuietOfImport, ZenonT(30)
<1> QED BY <1>0, <1>5, <1>7, <1>8, OneServer, ZenonT(30)

LEMMA BatchSAddQuiet ==
    ASSUME QuietInv, ImportInv', NEW i \in Importers, BatchSAdd(i)
    PROVE  QuietInv'
<1>k. PICK k : k = Sending(i)
    OBVIOUS
<1>d. PICK d : d = imp[i].items[k].id
    OBVIOUS
<1>0. /\ imp[i].pc = "sadd" /\ allIds' = allIds \cup {d}
      /\ users' = [users EXCEPT ![d] = @ \ {i}]
      /\ UNCHANGED <<rows, hash, issued, disturbed, req>>
    BY <1>k, <1>d, Zenon DEF BatchSAdd, Leave
<1>1. k \in DOMAIN imp[i].items /\ d \in issued /\ d \in Servers
    BY <1>k, <1>d, <1>0, SendingIn, QuietUsers, ZenonT(30)
<1>2. imp \in [Importers -> ImportLocals]
    BY QuietUsers DEF ImportInv, ImportsFit
<1>3. /\ \A j \in Importers : j # i => imp'[j] = imp[j]
      /\ imp'[i].pc # "sadd"
      /\ imp'[i].items = Drop(imp[i].items, k)
  <2> DEFINE left == Drop(imp[i].items, k)
  <2>1. imp' = [imp EXCEPT ![i] = [imp[i] EXCEPT !.pc = IF DOMAIN left = {} THEN "find" ELSE "hset",
                                                 !.items = left]]
      BY <1>k, Zenon DEF BatchSAdd, NextItem
  <2> HIDE DEF left
  <2>2. /\ imp'[i].pc = (IF DOMAIN left = {} THEN "find" ELSE "hset") /\ imp'[i].items = left
        /\ \A j \in Importers : j # i => imp'[j] = imp[j]
      BY <1>2, <2>1, ZenonT(30) DEF ImportLocals
  <2> QED BY <2>2 DEF left
<1>4. /\ DOMAIN imp'[i].items = DOMAIN imp[i].items \ {k}
      /\ \A j \in DOMAIN imp[i].items \ {k} : imp'[i].items[j] = imp[i].items[j]
    BY <1>3 DEF Drop, Restrict
<1>5. \A j \in DOMAIN imp[i].items \ {k} : imp[i].items[j].id # d
    BY <1>d, <1>1, QuietUsers, ZenonT(30) DEF ItemsOnce, OnceIn
<1>6. OnceIn(i)'
  <2>1. OnceIn(i)
      BY QuietUsers, ZenonT(30) DEF ItemsOnce
  <2> QED BY <1>4, <2>1, ZenonT(30) DEF OnceIn
<1>7. \A x \in Servers : x \in ItemIds(i)' <=> x \in ItemIds(i) /\ x # d
    BY <1>d, <1>4, <1>5, ZenonT(30) DEF ItemIds
<1>8. UsersOK' /\ ItemsOnce'
  <2>1. \A x \in Servers : i \in users[x] <=> x \in ItemIds(i)
      BY QuietUsers, ZenonT(30) DEF UsersOK
  <2>2. \A x \in Servers : i \in users'[x] <=> x \in ItemIds(i)'
      BY <1>0, <1>1, <1>7, <2>1, QuietUsers, ZenonT(30)
  <2>3. \A x \in Servers : \A a : a # i => (a \in users'[x] <=> a \in users[x])
      BY <1>0, <1>1, QuietUsers, ZenonT(30)
  <2> QED BY <1>0, <1>3, <1>6, <2>2, <2>3, ImportUsers, ZenonT(30)
<1>9. ASSUME NEW x \in Servers \ {d} PROVE Untouched(x)
  <2>1. ASSUME NEW j \in Importers PROVE KeepsItems(j, x)
    <3>1. CASE j = i
        BY <1>3, <1>4, <3>1, ZenonT(30) DEF KeepsItems, HalfSent
    <3>2. CASE j # i
        BY <1>3, <3>2, OtherImport, ZenonT(30)
    <3> QED BY <3>1, <3>2
  <2>2. users'[x] = users[x]
      BY <1>0, QuietUsers, ZenonT(30)
  <2> QED BY <1>0, <2>1, <2>2, ZenonT(30) DEF Untouched
<1>10. ASSUME d \notin disturbed' PROVE Quiet(d)'
  <2>1. users[d] = {i} /\ ItemQuiet(i, k) /\ HalfSent(i, k)
      BY <1>k, <1>d, <1>0, <1>1, <1>10, ImportAlone, ZenonT(30) DEF HalfSent
  <2>2. /\ RowAs(d, imp[i].items[k].ipv4, "ONLINE", 0)
        /\ HashAs(d, imp[i].items[k].ipv4, "ONLINE", 0)
      BY <1>d, <2>1, ZenonT(30) DEF ItemQuiet
  <2>3. InSync(d)'
      BY <1>0, <2>2, ZenonT(30) DEF RowAs, HashAs, InSync
  <2>4. users'[d] = {} /\ d \notin ItemIds(i)'
      BY <1>0, <1>1, <1>7, <2>1, QuietUsers, ZenonT(30)
  <2> QED BY <1>1, <1>4, <1>8, <2>3, <2>4, QuietOfImport, ZenonT(30)
<1> QED BY <1>0, <1>8, <1>9, <1>10, OneServer, ZenonT(30)

\* The import adds its lines as rows of new servers; it is alone on each
LEMMA StoreBatchQuiet ==
    ASSUME QuietInv, ImportInv', NEW i \in Importers, imp[i].pc = "create", StoreBatch(i),
           UNCHANGED <<hash, allIds, disturbed, req>>
    PROVE  QuietInv'
<1> DEFINE valid == imp[i].valid
           K == DOMAIN valid
<1>1. PICK ids \in Injection(K, Servers \ issued) :
        /\ InsertAll(ids, valid)
        /\ users' = [x \in Servers |-> IF x \in Range(ids) THEN users[x] \cup {i} ELSE users[x]]
        /\ imp' = [imp EXCEPT ![i] =
                    [imp[i] EXCEPT !.pc = "hset", !.valid = Nothing,
                              !.items = [k \in K |-> [id |-> ids[k], ipv4 |-> valid[k].ipv4]]]]
    BY ZenonT(30) DEF StoreBatch
<1>2. /\ RowsFit(rows, issued) /\ valid \in [K -> [name: Names, ipv4: IPs]]
      /\ imp \in [Importers -> ImportLocals] /\ DOMAIN imp[i].items = {}
  <2>1. valid \in [K -> [name: Names, ipv4: IPs]]
      BY BatchIds, QuietUsers, ZenonT(30)
  <2>2. DOMAIN imp[i].items = {}
      BY NoItems, QuietUsers
  <2> QED BY <2>1, <2>2, QuietUsers, ZenonT(30) DEF ImportInv, StoresFit, ImportsFit
<1> HIDE DEF K, valid
<1>3. Added(K, ids, valid)
    BY <1>1, <1>2, InsertAllRows, ZenonT(30)
<1>4. issued' = issued \cup Range(ids) /\ Range(ids) \subseteq Servers \ issued
  <2>1. issued' = issued \cup Range(ids)
      BY <1>1, ZenonT(30) DEF InsertAll
  <2> QED BY <1>3, <2>1 DEF Added
<1>5. \A j, k \in K : ids[j] = ids[k] => j = k
    BY DEF Injection, IsInjective
<1>6. /\ \A j \in Importers : j # i => imp'[j] = imp[j]
      /\ imp'[i].pc = "hset" /\ DOMAIN imp'[i].items = K
      /\ \A k \in K : imp'[i].items[k].id = ids[k] /\ imp'[i].items[k].ipv4 = valid[k].ipv4
  <2> DEFINE items == [k \in K |-> [id |-> ids[k], ipv4 |-> valid[k].ipv4]]
  <2>1. imp' = [imp EXCEPT ![i] = [imp[i] EXCEPT !.pc = "hset", !.valid = Nothing, !.items = items]]
      BY <1>1, ZenonT(30)
  <2>2. DOMAIN items = K /\ \A k \in K : items[k].id = ids[k] /\ items[k].ipv4 = valid[k].ipv4
      BY ZenonT(30)
  <2> HIDE DEF items
  <2>3. /\ imp'[i].pc = "hset" /\ imp'[i].items = items
        /\ \A j \in Importers : j # i => imp'[j] = imp[j]
      BY <1>2, <2>1, ZenonT(30) DEF ImportLocals
  <2> QED BY <2>2, <2>3, ZenonT(30)
<1>7. OnceIn(i)' /\ \A x \in Servers : x \in ItemIds(i)' <=> x \in Range(ids)
  <2>1. OnceIn(i)'
    <3>1. ASSUME NEW j \in K, NEW k \in K, imp'[i].items[j].id = imp'[i].items[k].id PROVE j = k
      <4>1. imp'[i].items[j].id = ids[j] /\ imp'[i].items[k].id = ids[k]
          BY <1>6, ZenonT(30)
      <4>2. ids[j] = ids[k]
          BY <3>1, <4>1, ZenonT(30)
      <4> QED BY <1>5, <4>2, ZenonT(30)
    <3> QED BY <1>6, <3>1, ZenonT(30) DEF OnceIn
  <2>2. \A x \in Servers : x \in ItemIds(i)' <=> \E k \in K : x = ids[k]
      BY <1>6 DEF ItemIds
  <2>3. /\ \A x \in Range(ids) : \E k \in K : ids[k] = x
        /\ \A k \in K : ids[k] \in Range(ids)
      BY <1>3, ZenonT(30) DEF Added
  <2> QED BY <2>1, <2>2, <2>3, ZenonT(30)
<1>8. \A x \in Servers : i \notin users[x]
  <2>1. ItemIds(i) = {}
      BY <1>2 DEF ItemIds
  <2> QED BY <2>1, QuietUsers, ZenonT(30) DEF UsersOK
<1>9. UsersOK' /\ ItemsOnce'
  <2>1. \A x \in Servers : i \in users'[x] <=> x \in ItemIds(i)'
      BY <1>1, <1>7, <1>8, ZenonT(30)
  <2>2. \A x \in Servers : \A a : a # i => (a \in users'[x] <=> a \in users[x])
      BY <1>1, ZenonT(30)
  <2> QED BY <1>6, <1>7, <2>1, <2>2, ImportUsers, ZenonT(30)
<1>10. ASSUME NEW x \in Servers \ Range(ids) PROVE Untouched(x)
  <2>1. ASSUME NEW j \in Importers PROVE KeepsItems(j, x)
    <3>1. CASE j = i
      <4>1. \A k \in K : ids[k] # x
          BY <1>3, ZenonT(30) DEF Added
      <4> QED BY <1>6, <3>1, <4>1, Zenon DEF KeepsItems
    <3>2. CASE j # i
        BY <1>6, <3>2, OtherImport, ZenonT(30)
    <3> QED BY <3>1, <3>2
  <2>2. users'[x] = users[x]
      BY <1>1, ZenonT(30)
  <2>3. (x \in DOMAIN rows' <=> x \in DOMAIN rows) /\ (x \in DOMAIN rows => rows'[x] = rows[x])
      BY <1>3, ZenonT(30) DEF Added
  <2> QED BY <1>4, <2>1, <2>2, <2>3, ZenonT(30) DEF Untouched
<1>11. ASSUME NEW x \in Range(ids) PROVE Quiet(x)'
  <2>1. PICK k \in K : ids[k] = x
      BY <1>3, Zenon DEF Added
  <2>2. x \in Servers \ issued
      BY <1>4
  <2>3. users'[x] = {i}
      BY <1>1, <2>2, NobodyYet, ZenonT(30)
  <2>a. PICK ipv4 : ipv4 = valid[k].ipv4
      OBVIOUS
  <2>4. RowAs(x, ipv4, "ONLINE", 0)'
    <3>1. x \in DOMAIN rows' /\ rows'[x] = NewRow(valid[k])
        BY <1>3, <2>1, ZenonT(30) DEF Added
    <3>2. rows'[x].ipv4 = ipv4 /\ rows'[x].status = "ONLINE" /\ rows'[x].failures = 0
        BY <2>a, <3>1, NewRowHas, ZenonT(30)
    <3> QED BY <3>1, <3>2, Zenon DEF RowAs
  <2>5. k \in DOMAIN imp'[i].items /\ imp'[i].items[k].id = x /\ imp'[i].items[k].ipv4 = ipv4
      BY <1>6, <2>1, <2>a, ZenonT(30)
  <2>6. ItemQuiet(i, k)'
      BY <1>6, <2>4, <2>5, ZenonT(30) DEF ItemQuiet, HalfSent, RowAs
  <2> QED BY <1>9, <2>2, <2>3, <2>5, <2>6, QuietOfImport, ZenonT(30)
<1> QED BY <1>9, <1>10, <1>11, SomeServers, ZenonT(30)

\* The connection breaks: every server the batch did not finish is disturbed
LEMMA PipelineErrorQuiet ==
    ASSUME QuietInv, ImportInv', NEW i \in Importers, PipelineError(i)
    PROVE  QuietInv'
<1>1. /\ imp' = [imp EXCEPT ![i] = [imp[i] EXCEPT !.pc = "find", !.items = Nothing]]
      /\ users' = [x \in Servers |-> users[x] \ {i}] /\ disturbed' = disturbed \cup ItemIds(i)
      /\ UNCHANGED <<rows, hash, allIds, issued, req>>
    BY Zenon DEF PipelineError
<1>2. imp \in [Importers -> ImportLocals]
    BY QuietUsers DEF ImportInv, ImportsFit
<1>3. /\ \A j \in Importers : j # i => imp'[j] = imp[j]
      /\ DOMAIN imp'[i].items = {}
  <2>1. imp'[i].items = Nothing /\ \A j \in Importers : j # i => imp'[j] = imp[j]
      BY <1>1, <1>2, ZenonT(30) DEF ImportLocals
  <2> QED BY <2>1, NothingFits
<1>4. ItemIds(i)' = {} /\ OnceIn(i)'
    BY <1>3 DEF ItemIds, OnceIn
<1>5. UsersOK' /\ ItemsOnce'
  <2>1. \A x \in Servers : i \in users'[x] <=> x \in ItemIds(i)'
      BY <1>1, <1>4
  <2>2. \A x \in Servers : \A a : a # i => (a \in users'[x] <=> a \in users[x])
      BY <1>1, ZenonT(30)
  <2> QED BY <1>1, <1>3, <1>4, <2>1, <2>2, ImportUsers, ZenonT(30)
<1>6. ASSUME NEW x \in Servers \ ItemIds(i) PROVE Untouched(x)
  <2>1. ASSUME NEW j \in Importers PROVE KeepsItems(j, x)
    <3>1. CASE j = i
        BY <1>3, <3>1, ZenonT(30) DEF KeepsItems
    <3>2. CASE j # i
        BY <1>3, <3>2, OtherImport, ZenonT(30)
    <3> QED BY <3>1, <3>2, ZenonT(30)
  <2>2. i \notin users[x]
      BY QuietUsers, Zenon DEF UsersOK
  <2>3. users'[x] = users[x]
      BY <1>1, <2>2, ZenonT(30)
  <2> QED BY <1>1, <2>1, <2>3, ZenonT(30) DEF Untouched
<1> QED BY <1>1, <1>5, <1>6, SomeServers, ZenonT(30)

\* A crash of the API: a server is left in agreement unless its dual write
\* was cut short
LEMMA CrashQuiet ==
    ASSUME QuietInv, ImportInv', Crash
    PROVE  QuietInv'
<1>1. /\ \A r \in Requests : req'[r].id = None
      /\ \A i \in Importers : imp'[i].items = Nothing
      /\ \A x \in Servers : users'[x] = {}
      /\ UNCHANGED <<rows, hash, allIds, issued>>
    BY Zenon DEF Crash, Idle, NotImporting
<1>2. /\ disturbed \subseteq disturbed'
      /\ \A i \in Importers : ItemIds(i) \subseteq disturbed'
      /\ \A r \in Requests : req[r].pc \in {"hset", "sadd", "del", "srem"} => req[r].id \in disturbed'
  <2> DEFINE A == UNION {ItemIds(i) : i \in Importers}
             B == {req[r].id : r \in {q \in Requests : req[q].pc \in {"hset", "sadd", "del", "srem"}}}
  <2>1. disturbed' = disturbed \cup A \cup B
      BY Zenon DEF Crash
  <2>2. \A i \in Importers : ItemIds(i) \subseteq A
      OBVIOUS
  <2>3. \A r \in Requests : req[r].pc \in {"hset", "sadd", "del", "srem"} => req[r].id \in B
      OBVIOUS
  <2> HIDE DEF A, B
  <2> QED BY <2>1, <2>2, <2>3, ZenonT(30)
<1>3. \A i \in Importers : DOMAIN imp'[i].items = {} /\ ItemIds(i)' = {} /\ OnceIn(i)'
  <2>1. \A i \in Importers : DOMAIN imp'[i].items = {}
      BY <1>1, NothingFits
  <2> QED BY <2>1 DEF ItemIds, OnceIn
<1>4. UsersOK' /\ ItemsOnce'
  <2>1. UsersOK'
      BY <1>1, <1>3, QuietStores, ZenonT(30) DEF UsersOK
  <2> QED BY <1>3, <2>1, ZenonT(30) DEF ItemsOnce
<1>5. ASSUME NEW x \in issued \ disturbed' PROVE Quiet(x)'
  <2>1. Quiet(x) /\ x \in Servers
      BY <1>2, QuietStores, QuietServers, Zenon
  <2>2. InSync(x)
    <3>1. CASE users[x] = {}
        BY <2>1, <3>1 DEF Quiet
    <3>2. ASSUME NEW a \in users[x] PROVE InSync(x)
      <4>1. a \notin Importers
          BY <1>2, <1>5, <2>1, <3>2, QuietUsers, ZenonT(30) DEF UsersOK
      <4>2. a \in Requests /\ req[a].id = x
          BY <2>1, <3>2, <4>1, QuietUsers, ZenonT(30) DEF UsersOK
      <4>3. req[a].pc \notin {"hset", "sadd", "del", "srem"} /\ LocalsFit(req[a], issued)
          BY <1>2, <1>5, <4>2, QuietRequests, ZenonT(30)
      <4>4. req[a].pc = "delete"
          BY <2>1, <4>2, <4>3, QuietStores, ZenonT(30) DEF LocalsFit, Locals
      <4> QED BY <2>1, <4>2, <4>4, ZenonT(30) DEF Quiet, RequestQuiet
    <3> QED BY <3>1, <3>2, ZenonT(30)
  <2>3. InSync(x)'
      BY <1>1, <2>2 DEF InSync
  <2> QED BY <1>1, <1>3, <2>1, <2>3, QuietStores, ZenonT(30) DEF Quiet
<1> QED BY <1>1, <1>4, <1>5, ZenonT(30) DEF QuietInv
-----------------------------------------------------------------------------
LEMMA ImportServersQuiet ==
    ASSUME QuietInv, ImportInv', NEW i \in Importers, NEW file \in Files, ImportServers(i, file)
    PROVE  QuietInv'
<1> DEFINE v == [NotImporting EXCEPT !.pc = "find", !.rest = file]
<1>1. v.pc = "find"
    BY DEF NotImporting
<1>2. UNCHANGED <<storeVars, req>> /\ imp[i].pc = "idle" /\ imp' = [imp EXCEPT ![i] = v]
    BY Zenon DEF ImportServers
<1> HIDE DEF v
<1> QED BY <1>1, <1>2, ImportReads, ZenonT(30)

LEMMA FinishQuiet ==
    ASSUME QuietInv, ImportInv', NEW i \in Importers, Finish(i), UNCHANGED <<storeVars, req>>,
           imp[i].pc \in {"find", "create"}
    PROVE  QuietInv'
<1>1. NotImporting.pc = "idle"
    BY DEF NotImporting
<1>2. imp' = [imp EXCEPT ![i] = NotImporting]
    BY DEF Finish
<1> QED BY <1>1, <1>2, ImportReads, ZenonT(30)

LEMMA FindExistingQuiet ==
    ASSUME QuietInv, ImportInv', NEW i \in Importers, FindExisting(i)
    PROVE  QuietInv'
<1>1. UNCHANGED <<storeVars, req>> /\ imp[i].pc = "find"
    BY Zenon DEF FindExisting
<1>2. CASE imp[i].rest = <<>>
  <2>1. Finish(i)
      BY <1>2 DEF FindExisting
  <2> QED BY <1>1, <2>1, FinishQuiet
<1>3. CASE imp[i].rest # <<>>
  <2> DEFINE rest  == imp[i].rest
             n     == LinesOfBatch(rest)
             batch == ValidLines(rest, n)
             kept  == SelectNew(rest, batch, FindByNamesOrIPv4s({rest[k] : k \in batch}))
             pc    == IF kept = {} THEN "find" ELSE "create"
             v     == [imp[i] EXCEPT !.pc = pc,
                                     !.rest = SubSeq(rest, n + 1, Len(rest)),
                                     !.valid = [k \in kept |-> rest[k]],
                                     !.success = imp[i].success + Cardinality(kept),
                                     !.fail = imp[i].fail + n - Cardinality(kept)]
  <2>1. imp' = [imp EXCEPT ![i] = v]
      BY <1>3, Zenon DEF FindExisting
  <2>2. pc \in {"find", "create"}
      OBVIOUS
  <2> HIDE DEF pc
  <2>3. v.pc = pc
      BY NoItems, QuietUsers, Zenon DEF ImportLocals
  <2> HIDE DEF v
  <2>4. v.pc \notin {"hset", "sadd"} /\ imp[i].pc \notin {"hset", "sadd"}
      BY <1>1, <2>2, <2>3, ZenonT(30)
  <2> QED BY <1>1, <2>1, <2>4, ImportReads, ZenonT(30)
<1> QED BY <1>2, <1>3

LEMMA BatchCreateQuiet ==
    ASSUME QuietInv, ImportInv', NEW i \in Importers, BatchCreate(i)
    PROVE  QuietInv'
<1>1. imp[i].pc = "create" /\ UNCHANGED <<hash, allIds, disturbed, req>>
    BY ZenonT(30) DEF BatchCreate
<1>2. CASE InsertAllowed(imp[i].valid)
    BY <1>1, <1>2, StoreBatchQuiet, ZenonT(30) DEF BatchCreate
<1>3. CASE ~InsertAllowed(imp[i].valid)
  <2>1. Finish(i) /\ UNCHANGED <<storeVars, req>>
      BY <1>3 DEF BatchCreate, storeVars
  <2> QED BY <1>1, <2>1, FinishQuiet, ZenonT(30)
<1> QED BY <1>2, <1>3, ZenonT(30)

LEMMA ImportStepQuiet ==
    ASSUME QuietInv, ImportInv', NEW i \in Importers, ImportStep(i)
    PROVE  QuietInv'
<1>1. CASE ImportDBError(i)
    BY <1>1, FinishQuiet DEF ImportDBError
<1> QED
    BY <1>1, FindExistingQuiet, BatchCreateQuiet, BatchHSetQuiet, BatchSAddQuiet, PipelineErrorQuiet,
       ZenonT(30)
       DEF ImportStep

LEMMA RequestQuietStep ==
    ASSUME QuietInv, ImportInv', NEW r \in Requests, Request(r)
    PROVE  QuietInv'
<1>0. UNCHANGED imp /\ LocalsFit(req[r], issued) /\ req \in [Requests -> Locals]
    BY QuietRequests DEF Request
<1>1. ASSUME NEW name \in Names, NEW ipv4 \in IPs, CreateServer(r, name, ipv4) PROVE QuietInv'
  <2> DEFINE q == [Idle EXCEPT !.pc = "create", !.checks = {"name", "ipv4"}, !.name = name, !.ipv4 = ipv4]
  <2>1. /\ q.id = None /\ req[r].pc = "idle" /\ UNCHANGED storeVars
        /\ req' = [req EXCEPT ![r] = q]
      BY <1>1, ZenonT(30) DEF CreateServer, Idle
  <2> HIDE DEF q
  <2>2. req[r].id = None /\ req'[r].id = None /\ \A x \in Requests : x # r => req'[x] = req[x]
      BY <1>0, <2>1, ZenonT(30) DEF LocalsFit
  <2>3. UsersOK'
    <3>1. UNCHANGED <<imp, users>>
        BY <1>0, <2>1, ZenonT(30) DEF storeVars
    <3>2. \A x \in Requests : req'[x].id = req[x].id
        BY <2>2, ZenonT(30)
    <3> QED BY <3>1, <3>2, QuietUsers, UsersStay, ZenonT(30)
  <2>4. ASSUME NEW x \in Servers PROVE Untouched(x)
      BY <1>0, <2>1, <2>2, QuietStores, ItemsStay, ZenonT(30) DEF Untouched, storeVars
  <2>5. None \notin issued'
      BY <2>1, QuietStores DEF storeVars
  <2> QED BY <1>0, <2>3, <2>4, <2>5, RequestServer, ZenonT(30)
<1>2. ASSUME NEW d \in Servers, DeleteServer(r, d) PROVE QuietInv'
  <2>1. /\ d \in DOMAIN rows /\ Enter(r, d) /\ UNCHANGED <<rows, hash, allIds, issued>>
        /\ req[r].pc = "idle" /\ req' = [req EXCEPT ![r] = [Idle EXCEPT !.pc = "delete", !.id = d]]
      BY <1>2, Zenon DEF DeleteServer
  <2>2. /\ req[r].id = None /\ req'[r].id = d /\ req'[r].pc = "delete"
        /\ \A x \in Requests : x # r => req'[x] = req[x]
      BY <1>0, <2>1, ZenonT(30) DEF LocalsFit, Idle
  <2> QED BY <1>0, <2>1, <2>2, RequestEnters, ZenonT(30)
<1>3. CASE CheckName(r)
  <2>1. CASE NameTaken(req[r].name, req[r].id)
      BY <1>0, <1>3, <2>1, RequestGivesUp, ZenonT(30) DEF CheckName, LocalsFit
  <2>2. CASE ~NameTaken(req[r].name, req[r].id)
    <3>1. req' = [req EXCEPT ![r].checks = req[r].checks \ {"name"}] /\ UNCHANGED storeVars
        BY <1>3, <2>2, ZenonT(30) DEF CheckName, storeVars
    <3> QED BY <1>0, <3>1, ChecksKept, RequestReads, Zenon
  <2> QED BY <2>1, <2>2
<1>4. CASE CheckIPv4(r)
  <2>1. CASE IPv4Taken(req[r].ipv4, req[r].id)
      BY <1>0, <1>4, <2>1, RequestGivesUp, ZenonT(30) DEF CheckIPv4, LocalsFit
  <2>2. CASE ~IPv4Taken(req[r].ipv4, req[r].id)
    <3>1. req' = [req EXCEPT ![r].checks = {}] /\ UNCHANGED storeVars
        BY <1>4, <2>2, ZenonT(30) DEF CheckIPv4, storeVars
    <3> QED BY <1>0, <3>1, ChecksKept, RequestReads, Zenon
  <2> QED BY <2>1, <2>2
<1>5. CASE DBError(r)
    BY <1>0, <1>5, RequestGivesUp, ZenonT(30) DEF DBError, LocalsFit
<1>6. ~UpdateServerRow(r)
    BY <1>0, ZenonT(30) DEF LocalsFit, UpdateServerRow
<1>7. CASE RequestStep(r)
    BY <1>0, <1>3, <1>4, <1>6, <1>7, CreateRowQuiet, DeleteServerRowQuiet, CacheStepQuiet, ZenonT(30)
       DEF RequestStep
<1> QED
    BY <1>0, <1>1, <1>2, <1>5, <1>7, RedisErrorQuiet, ZenonT(30) DEF Request

\* QuietInv is inductive
LEMMA NextQuietInv == QuietInv /\ ImportInv' /\ [ImportNext]_importVars => QuietInv'
<1> SUFFICES ASSUME QuietInv, ImportInv', [ImportNext]_importVars PROVE QuietInv'
    OBVIOUS
<1>1. ASSUME NEW i \in Importers, NEW file \in Files, ImportServers(i, file) PROVE QuietInv'
    BY <1>1, ImportServersQuiet, ZenonT(30)
<1>2. ASSUME NEW i \in Importers, ImportStep(i) PROVE QuietInv'
    BY <1>2, ImportStepQuiet, ZenonT(30)
<1>3. ASSUME NEW r \in Requests, Request(r) PROVE QuietInv'
    BY <1>3, RequestQuietStep, ZenonT(30)
<1>4. CASE UNCHANGED importVars
  <2>1. UNCHANGED <<rows, hash, allIds, issued, users, disturbed, req, imp>>
      BY <1>4 DEF importVars, storeVars
  <2>2. UsersOK'
    <3>1. UNCHANGED <<imp, users>> /\ \A r \in Requests : req'[r].id = req[r].id
        BY <2>1
    <3> QED BY <3>1, QuietUsers, UsersStay, ZenonT(30)
  <2>3. ASSUME NEW x \in Servers PROVE Untouched(x)
      BY <2>1, ItemsStay, ZenonT(30) DEF Untouched
  <2>4. None \notin issued'
      BY <2>1, QuietStores
  <2> QED BY <2>1, <2>2, <2>3, <2>4, RequestServer, ZenonT(30)
<1> QED
    BY <1>1, <1>2, <1>3, <1>4, CrashQuiet, ZenonT(30) DEF ImportNext

(* An import, and the creations and deletions beside it, leave Redis and   *)
(* PostgreSQL in agreement about every server on which no actors           *)
(* overlapped and whose dual write was not cut short, for any number of    *)
(* imports, lines and batches (import_export.go:100-183,                   *)
(* server_cache.go, server_service.go).                                    *)
THEOREM ImportedInSync == Spec => []UndisturbedInSync
<1>1. Init => QuietInv
  <2> SUFFICES ASSUME Init PROVE QuietInv
      OBVIOUS
  <2>1. ImportInv
      BY ImportInitial
  <2>2. \A i \in Importers : DOMAIN imp[i].items = {}
    <3>1. \A i \in Importers : imp[i].items = Nothing
        BY Zenon DEF Init, ImportInit, NotImporting
    <3> QED BY <3>1, NothingFits
  <2>3. \A i \in Importers : ItemIds(i) = {} /\ OnceIn(i)
      BY <2>2 DEF ItemIds, OnceIn
  <2>4. \A r \in Requests : req[r].id = None
      BY Zenon DEF Init, MgmtInit, Idle
  <2>5. issued = {} /\ \A x \in Servers : users[x] = {}
      BY ZenonT(30) DEF Init, StoresInit
  <2>6. UsersOK /\ ItemsOnce
      BY <2>3, <2>4, <2>5, StoresAssumption, ZenonT(30) DEF UsersOK, ItemsOnce
  <2> QED BY <2>1, <2>5, <2>6, ZenonT(30) DEF QuietInv
<1>2. QuietInv => UndisturbedInSync
    BY DEF QuietInv, Quiet, UndisturbedInSync
<1> QED
    BY <1>1, <1>2, ImportInductive, NextQuietInv, PTL DEF Spec
=============================================================================

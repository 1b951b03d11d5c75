------------------------- MODULE ServerSystemProofs -------------------------
(***************************************************************************)
(* Proofs about ServerSystem, for any sets of servers, requests, instances *)
(* and workers, any Threshold, and any combination of the faults: types,   *)
(* the unique indexes, deletions, the exclusion of monitoring cycles, and  *)
(* the threshold of failed pings.                                          *)
(***************************************************************************)
EXTENDS ServerSystem, TLAPS

\* The time limits of the provers
USE SMTT(30), ZenonT(30)

LEMMA StreakIsNat == \A n \in 0..Threshold : n \in Nat /\ 0 <= n
  BY MonitoringAssumption

\* What the state machine makes of a counter that is at most n
LEMMA NextCount ==
    ASSUME NEW n \in 0..Threshold, NEW k \in Nat,
           NEW m, m = IF n < Threshold THEN n + 1 ELSE n
    PROVE  /\ k <= n + 1 /\ k <= Threshold => k <= m
           /\ n + 1 >= Threshold => m = Threshold
BY MonitoringAssumption

\* The local variables q of a request, when ids are the ids generated so far
LocalsFit(q, ids) ==
    /\ q \in Locals
    /\ q.id \in ids \cup {None}
    /\ q.pc \in {"idle", "create"} <=> q.id = None
    /\ q.pc \in {"create", "update", "hset", "sadd"} => q.name \in Names /\ q.ipv4 \in IPs
    /\ q.pc \in {"update", "hset", "sadd"} => q.status \in Status
    /\ q.pc = "create" => q.failures = 0

\* The local variables v of a worker
WorkerFits(v, ids) ==
    /\ v \in WorkerLocals
    /\ v.id \in ids \cup {None}
    /\ v.pc = "idle" <=> v.id = None

RowsFit(f, ids) == DOMAIN f \subseteq ids /\ \A x \in DOMAIN f : f[x] \in Row

HashFit(f, ids) == DOMAIN f \subseteq ids /\ \A x \in DOMAIN f : f[x] \in Hash

HistoryFits ==
    /\ users \in [Servers -> SUBSET (Requests \cup Workers)]
    /\ disturbed \subseteq Servers

StoresFit ==
    /\ RowsFit(rows, issued)
    /\ HashFit(hash, issued)
    /\ allIds \subseteq issued
    /\ issued \subseteq Servers

RequestsFit ==
    /\ req \in [Requests -> Locals]
    /\ \A r \in Requests : LocalsFit(req[r], issued)

WorkersFit ==
    /\ wk \in [Workers -> WorkerLocals]
    /\ \A w \in Workers : WorkerFits(wk[w], issued)

CyclesFit ==
    /\ lock \in BOOLEAN
    /\ phase \in [Instances -> {"idle", "locked", "running"}]
    /\ idChan \in [Instances -> SUBSET issued]
    /\ streak \in [Servers -> 0..Threshold]

\* TypeOK, and what the local variables hold at each program counter
TypeInv == StoresFit /\ HistoryFits /\ RequestsFit /\ WorkersFit /\ CyclesFit

LEMMA TypeInvTypes == TypeInv => TypeOK
<1> SUFFICES ASSUME TypeInv PROVE TypeOK
    OBVIOUS
<1>1. StoresTypeOK(Requests \cup Workers)
    BY DEF TypeInv, StoresFit, HistoryFits, RowsFit, HashFit, StoresTypeOK
<1>2. MgmtTypeOK
    BY DEF TypeInv, RequestsFit, MgmtTypeOK
<1>3. idChan \in [Instances -> SUBSET Servers]
    BY DEF TypeInv, StoresFit, CyclesFit
<1>4. MonTypeOK
    BY <1>3 DEF TypeInv, WorkersFit, CyclesFit, MonTypeOK
<1> QED
    BY <1>1, <1>2, <1>4 DEF TypeOK
-----------------------------------------------------------------------------
\* The local variables of a request after each kind of assignment
LEMMA IdleFits == ASSUME NEW ids PROVE LocalsFit(Idle, ids)
  BY DEF LocalsFit, Idle, Locals

LEMMA GotoFits ==
    ASSUME NEW ids, NEW q, LocalsFit(q, ids), NEW pc \in {"hset", "sadd", "del", "srem"},
           q.pc \notin {"idle", "create"},
           pc \in {"hset", "sadd"} => q.pc \in {"update", "hset"}
    PROVE  LocalsFit([q EXCEPT !.pc = pc], ids)
  BY DEF LocalsFit, Locals

LEMMA ChecksFit ==
    ASSUME NEW ids, NEW q, LocalsFit(q, ids), NEW c \in SUBSET {"name", "ipv4"}
    PROVE  LocalsFit([q EXCEPT !.checks = c], ids)
  BY DEF LocalsFit, Locals

LEMMA CreatedFits ==
    ASSUME NEW ids, NEW q, LocalsFit(q, ids), q.pc = "create", NEW id \in Servers
    PROVE  LocalsFit([q EXCEPT !.pc = "hset", !.id = id, !.status = "ONLINE"], ids \cup {id})
  BY StoresAssumption, Zenon DEF LocalsFit, Locals, Status

LEMMA CreatingFits ==
    ASSUME NEW ids, NEW name \in Names, NEW ipv4 \in IPs
    PROVE  LocalsFit([Idle EXCEPT !.pc = "create", !.checks = {"name", "ipv4"},
                                  !.name = name, !.ipv4 = ipv4], ids)
  BY Zenon DEF LocalsFit, Locals, Idle

LEMMA DeletingFits ==
    ASSUME NEW ids, NEW id \in Servers, id \in ids
    PROVE  LocalsFit([Idle EXCEPT !.pc = "delete", !.id = id], ids)
  BY StoresAssumption, Zenon DEF LocalsFit, Locals, Idle

LEMMA UpdatingFits ==
    ASSUME NEW ids, NEW id \in Servers, id \in ids, NEW name \in Names, NEW ipv4 \in IPs,
           NEW c \in SUBSET {"name", "ipv4"}, NEW row \in Row
    PROVE  LocalsFit([pc |-> "update", id |-> id, name |-> name, ipv4 |-> ipv4, checks |-> c,
                      status |-> row.status, failures |-> row.failures], ids)
  BY StoresAssumption DEF LocalsFit, Locals, Row

LEMMA RestingFits == ASSUME NEW ids PROVE WorkerFits(Resting, ids)
  BY DEF WorkerFits, Resting, WorkerLocals, Status
-----------------------------------------------------------------------------
\* Put and Drop on the partial functions that model the two stores
LEMMA PutRow ==
    ASSUME NEW f, NEW ids, RowsFit(f, ids), NEW id, NEW row \in Row
    PROVE  RowsFit(Put(f, id, row), ids \cup {id})
  BY DEF RowsFit, Put

LEMMA DropRow ==
    ASSUME NEW f, NEW ids, RowsFit(f, ids), NEW id
    PROVE  RowsFit(Drop(f, id), ids)
  BY DEF RowsFit, Drop, Restrict

LEMMA StatusFits ==
    ASSUME NEW row \in Row, NEW status \in Status, NEW failures \in Nat
    PROVE  [row EXCEPT !.status = status, !.failures = failures] \in Row
  BY Zenon DEF Row

LEMMA PutHash ==
    ASSUME NEW f, NEW ids, HashFit(f, ids), NEW id \in ids, NEW info \in Hash
    PROVE  HashFit(Put(f, id, info), ids)
  BY DEF HashFit, Put

LEMMA DropHash ==
    ASSUME NEW f, NEW ids, HashFit(f, ids), NEW id
    PROVE  HashFit(Drop(f, id), ids)
  BY DEF HashFit, Drop, Restrict

LEMMA HistoryStep ==
    ASSUME HistoryFits, NEW a \in Requests \cup Workers, NEW id \in Servers,
           \/ Enter(a, id) \/ Leave(a, id) \/ LeaveTorn(a, id)
           \/ Settle(a, id) /\ UNCHANGED users
           \/ UNCHANGED <<users, disturbed>>
    PROVE  HistoryFits'
<1>1. users' \in [Servers -> SUBSET (Requests \cup Workers)]
    BY DEF HistoryFits, Enter, Leave, LeaveTorn
<1>2. disturbed' \subseteq Servers
    BY DEF HistoryFits, Enter, Leave, LeaveTorn, Settle
<1> QED
    BY <1>1, <1>2 DEF HistoryFits
-----------------------------------------------------------------------------
\* One request assigns its local variables; the stores keep their types
LEMMA RequestChange ==
    ASSUME TypeInv, NEW r \in Requests, NEW q, req' = [req EXCEPT ![r] = q],
           LocalsFit(q, issued'), issued \subseteq issued', StoresFit', HistoryFits',
           UNCHANGED monOwnVars
    PROVE  TypeInv'
<1>1. RequestsFit'
  <2>1. req' \in [Requests -> Locals]
      BY DEF TypeInv, RequestsFit, LocalsFit
  <2>2. \A x \in Requests : LocalsFit(req[x], issued')
      BY DEF TypeInv, RequestsFit, LocalsFit
  <2> QED
      BY <2>1, <2>2 DEF TypeInv, RequestsFit
<1>2. WorkersFit'
  <2>1. \A w \in Workers : WorkerFits(wk[w], issued')
      BY DEF TypeInv, WorkersFit, WorkerFits
  <2> QED
      BY <2>1 DEF TypeInv, WorkersFit, monOwnVars
<1>3. CyclesFit'
    BY DEF TypeInv, CyclesFit, monOwnVars
<1> QED
    BY <1>1, <1>2, <1>3 DEF TypeInv

\* ... and leaves the stores alone
LEMMA RequestOnly ==
    ASSUME TypeInv, NEW r \in Requests, NEW q, req' = [req EXCEPT ![r] = q],
           LocalsFit(q, issued), UNCHANGED <<rows, hash, allIds, issued>>, HistoryFits',
           UNCHANGED monOwnVars
    PROVE  TypeInv'
<1>1. StoresFit'
    BY DEF TypeInv, StoresFit
<1> QED
    BY <1>1, RequestChange, Zenon

\* A request at work has an id, and may return before it wrote anything
LEMMA RequestIds ==
    ASSUME TypeInv, NEW r \in Requests
    PROVE  /\ LocalsFit(req[r], issued)
           /\ req[r].pc \notin {"idle", "create"} => req[r].id \in issued /\ req[r].id \in Servers
           /\ req[r].id # None => req[r].id \in Servers
           /\ LeaveUnwritten(r) => HistoryFits'
<1>1. LocalsFit(req[r], issued) /\ issued \subseteq Servers
    BY DEF TypeInv, RequestsFit, StoresFit
<1>2. req[r].id # None => req[r].id \in Servers
    BY <1>1 DEF LocalsFit
<1>3. LeaveUnwritten(r) => HistoryFits'
    BY <1>2, HistoryStep DEF LeaveUnwritten, TypeInv, HistoryFits
<1> QED
    BY <1>1, <1>2, <1>3 DEF LocalsFit

LEMMA CreateRowType ==
    ASSUME TypeInv, NEW r \in Requests, CreateRow(r), UNCHANGED monOwnVars
    PROVE  TypeInv'
<1>0. LocalsFit(req[r], issued) /\ req[r].pc = "create"
    BY RequestIds, Zenon DEF CreateRow
<1>1. CASE UniqueIndexes(None, req[r].name, req[r].ipv4)
  <2>1. PICK id \in Servers \ issued :
          /\ Insert(id, req[r].name, req[r].ipv4)
          /\ Enter(r, id)
          /\ req' = [req EXCEPT ![r] = [req[r] EXCEPT !.pc = "hset", !.id = id, !.status = "ONLINE"]]
      BY <1>1, Zenon DEF CreateRow
  <2> DEFINE row == [name |-> req[r].name, ipv4 |-> req[r].ipv4, status |-> "ONLINE", failures |-> 0]
             q == [req[r] EXCEPT !.pc = "hset", !.id = id, !.status = "ONLINE"]
  <2>2. rows' = Put(rows, id, row) /\ issued' = issued \cup {id} /\ UNCHANGED <<hash, allIds>>
      BY <2>1, Zenon DEF Insert, CreateRow
  <2>3. row \in Row
      BY <1>0 DEF LocalsFit, Row, Status
  <2>4. LocalsFit(q, issued')
      BY <1>0, <2>2, CreatedFits, Zenon
  <2>5. req' = [req EXCEPT ![r] = q]
      BY <2>1
  <2> HIDE DEF row, q
  <2>6. RowsFit(rows, issued)'
      BY <2>2, <2>3, PutRow DEF TypeInv, StoresFit
  <2>7. StoresFit'
      BY <2>2, <2>6 DEF TypeInv, StoresFit, HashFit
  <2>8. HistoryFits'
      BY <2>1, HistoryStep DEF TypeInv
  <2> QED
      BY <2>2, <2>4, <2>5, <2>7, <2>8, RequestChange, Zenon
<1>2. CASE ~UniqueIndexes(None, req[r].name, req[r].ipv4)
  <2>1. HistoryFits'
      BY <1>2 DEF CreateRow, TypeInv, HistoryFits
  <2> QED
      BY <1>2, <2>1, IdleFits, RequestOnly DEF CreateRow, Return
<1> QED
    BY <1>1, <1>2

LEMMA UpdateServerRowType ==
    ASSUME TypeInv, NEW r \in Requests, UpdateServerRow(r), UNCHANGED monOwnVars
    PROVE  TypeInv'
<1>0. /\ LocalsFit(req[r], issued) /\ req[r].pc = "update"
      /\ req[r].id \in issued /\ req[r].id \in Servers /\ HistoryFits
    BY RequestIds DEF UpdateServerRow, TypeInv
<1> DEFINE Found == req[r].id \in DOMAIN rows /\ UniqueIndexes(req[r].id, req[r].name, req[r].ipv4)
<1>1. CASE Found
  <2> DEFINE row == [name |-> req[r].name, ipv4 |-> req[r].ipv4,
                     status |-> req[r].status, failures |-> req[r].failures]
             q == [req[r] EXCEPT !.pc = "hset"]
  <2>1. rows' = Put(rows, req[r].id, row) /\ UNCHANGED <<hash, allIds, issued>>
      BY <1>1 DEF UpdateServerRow, UpdateRow
  <2>2. row \in Row
      BY <1>0 DEF LocalsFit, Locals, Row
  <2>3. LocalsFit(q, issued')
      BY <1>0, <2>1, GotoFits, Zenon
  <2>4. req' = [req EXCEPT ![r] = q]
      BY <1>1 DEF UpdateServerRow, Goto
  <2> HIDE DEF row, q
  <2>5. RowsFit(rows', issued \cup {req[r].id}) /\ issued \cup {req[r].id} = issued'
      BY <1>0, <2>1, <2>2, PutRow DEF TypeInv, StoresFit
  <2>6. StoresFit'
      BY <2>1, <2>5 DEF TypeInv, StoresFit
  <2>7. HistoryFits'
      BY <1>0, <1>1, HistoryStep DEF UpdateServerRow
  <2> QED
      BY <2>1, <2>3, <2>4, <2>6, <2>7, RequestChange, Zenon
<1>2. CASE ~Found
  <2>1. Return(r) /\ Leave(r, req[r].id) /\ UNCHANGED <<rows, hash, allIds, issued>>
      BY <1>2 DEF UpdateServerRow
  <2> QED
      BY <1>0, <2>1, IdleFits, HistoryStep, RequestOnly, Zenon DEF Return
<1> QED
    BY <1>1, <1>2

LEMMA DeleteServerRowType ==
    ASSUME TypeInv, NEW r \in Requests, DeleteServerRow(r), UNCHANGED monOwnVars
    PROVE  TypeInv'
<1>0. /\ LocalsFit(req[r], issued) /\ req[r].pc = "delete"
      /\ req[r].id \in issued /\ req[r].id \in Servers /\ HistoryFits
    BY RequestIds DEF DeleteServerRow, TypeInv
<1>1. CASE req[r].id \in DOMAIN rows
  <2>1. /\ rows' = Drop(rows, req[r].id) /\ UNCHANGED <<hash, allIds, issued, users>>
        /\ Settle(r, req[r].id) /\ req' = [req EXCEPT ![r] = [req[r] EXCEPT !.pc = "del"]]
      BY <1>1 DEF DeleteServerRow, DeleteRow, Goto
  <2>2. StoresFit'
      BY <2>1, DropRow DEF TypeInv, StoresFit
  <2>3. LocalsFit([req[r] EXCEPT !.pc = "del"], issued')
      BY <1>0, <2>1, GotoFits, Zenon
  <2>4. HistoryFits'
      BY <1>0, <2>1, HistoryStep
  <2> QED
      BY <2>1, <2>2, <2>3, <2>4, RequestChange, Zenon
<1>2. CASE req[r].id \notin DOMAIN rows
  <2>1. Return(r) /\ Leave(r, req[r].id) /\ UNCHANGED <<rows, hash, allIds, issued>>
      BY <1>2 DEF DeleteServerRow
  <2> QED
      BY <1>0, <2>1, IdleFits, HistoryStep, RequestOnly, Zenon DEF Return
<1> QED
    BY <1>1, <1>2

LEMMA RequestTypeStep ==
    ASSUME TypeInv, NEW r \in Requests, RequestStep(r), UNCHANGED monOwnVars
    PROVE  TypeInv'
<1>0. LocalsFit(req[r], issued) /\ HistoryFits
    BY RequestIds DEF TypeInv
<1>1. CASE CheckName(r)
  <2>1. CASE NameTaken(req[r].name, req[r].id)
      BY <1>1, <2>1, IdleFits, RequestIds, RequestOnly, Zenon DEF CheckName, Return
  <2>2. CASE ~NameTaken(req[r].name, req[r].id)
    <3>1. /\ req' = [req EXCEPT ![r] = [req[r] EXCEPT !.checks = req[r].checks \ {"name"}]]
          /\ UNCHANGED <<rows, hash, allIds, issued, users, disturbed>>
        BY <1>1, <2>2 DEF CheckName
    <3>2. LocalsFit([req[r] EXCEPT !.checks = req[r].checks \ {"name"}], issued)
      <4>1. req[r].checks \ {"name"} \in SUBSET {"name", "ipv4"}
          BY <1>0 DEF LocalsFit, Locals
      <4> QED
          BY <1>0, <4>1, ChecksFit, Zenon
    <3>3. HistoryFits'
        BY <1>0, <3>1 DEF HistoryFits
    <3> QED
        BY <3>1, <3>2, <3>3, RequestOnly, Zenon
  <2> QED
      BY <2>1, <2>2
<1>2. CASE CheckIPv4(r)
  <2>1. CASE IPv4Taken(req[r].ipv4, req[r].id)
      BY <1>2, <2>1, IdleFits, RequestIds, RequestOnly, Zenon DEF CheckIPv4, Return
  <2>2. CASE ~IPv4Taken(req[r].ipv4, req[r].id)
    <3>1. /\ req' = [req EXCEPT ![r] = [req[r] EXCEPT !.checks = {}]]
          /\ UNCHANGED <<rows, hash, allIds, issued, users, disturbed>>
        BY <1>2, <2>2 DEF CheckIPv4
    <3>2. LocalsFit([req[r] EXCEPT !.checks = {}], issued)
        BY <1>0, ChecksFit, Zenon
    <3>3. HistoryFits'
        BY <1>0, <3>1 DEF HistoryFits
    <3> QED
        BY <3>1, <3>2, <3>3, RequestOnly, Zenon
  <2> QED
      BY <2>1, <2>2
<1>3. CASE UpsertHSet(r)
  <2> DEFINE info == [ipv4 |-> req[r].ipv4, status |-> req[r].status, retry |-> req[r].failures]
  <2>1. /\ hash' = Put(hash, req[r].id, info) /\ req[r].pc = "hset"
        /\ req' = [req EXCEPT ![r] = [req[r] EXCEPT !.pc = "sadd"]]
        /\ UNCHANGED <<rows, allIds, issued, users, disturbed>>
      BY <1>3 DEF UpsertHSet, CacheHSet, Goto
  <2>2. info \in Hash /\ req[r].id \in issued
      BY <1>0, <2>1, RequestIds DEF LocalsFit, Locals, Hash
  <2> HIDE DEF info
  <2>3. StoresFit'
      BY <2>1, <2>2, PutHash DEF TypeInv, StoresFit
  <2>4. LocalsFit([req[r] EXCEPT !.pc = "sadd"], issued')
      BY <1>0, <2>1, GotoFits, Zenon
  <2>5. HistoryFits'
      BY <1>0, <2>1 DEF HistoryFits
  <2> QED
      BY <2>1, <2>3, <2>4, <2>5, RequestChange, Zenon
<1>4. CASE UpsertSAdd(r) \/ CacheSRem(r)
  <2>1. /\ req[r].pc \in {"sadd", "srem"} /\ Return(r) /\ Leave(r, req[r].id)
        /\ allIds' \subseteq allIds \cup {req[r].id}
        /\ UNCHANGED <<rows, hash, issued>>
      BY <1>4 DEF UpsertSAdd, CacheSRem
  <2>2. req[r].id \in issued /\ req[r].id \in Servers
      BY <2>1, RequestIds
  <2>3. StoresFit'
      BY <2>1, <2>2 DEF TypeInv, StoresFit
  <2>4. HistoryFits'
      BY <1>0, <2>1, <2>2, HistoryStep
  <2> QED
      BY <2>1, <2>3, <2>4, IdleFits, RequestChange, Zenon DEF Return
<1>5. CASE CacheDel(r)
  <2>1. /\ hash' = Drop(hash, req[r].id) /\ req[r].pc = "del"
        /\ req' = [req EXCEPT ![r] = [req[r] EXCEPT !.pc = "srem"]]
        /\ UNCHANGED <<rows, allIds, issued, users, disturbed>>
      BY <1>5 DEF CacheDel, Goto
  <2>2. StoresFit'
      BY <2>1, DropHash DEF TypeInv, StoresFit
  <2>3. LocalsFit([req[r] EXCEPT !.pc = "srem"], issued')
      BY <1>0, <2>1, GotoFits, Zenon
  <2>4. HistoryFits'
      BY <1>0, <2>1 DEF HistoryFits
  <2> QED
      BY <2>1, <2>2, <2>3, <2>4, RequestChange, Zenon
<1> QED
    BY <1>1, <1>2, <1>3, <1>4, <1>5, CreateRowType, UpdateServerRowType, DeleteServerRowType
       DEF RequestStep

\* A request begins, or ends with an error; the API process dies
LEMMA RequestBoundaryType ==
    ASSUME TypeInv, UNCHANGED monOwnVars,
           \/ \E r \in Requests :
                \/ \E name \in Names, ipv4 \in IPs : CreateServer(r, name, ipv4)
                \/ \E id \in Servers, name \in Names, ipv4 \in IPs : UpdateServer(r, id, name, ipv4)
                \/ \E id \in Servers : DeleteServer(r, id)
                \/ DBError(r)
                \/ RedisError(r)
           \/ APICrash
    PROVE  TypeInv'
<1>1. ASSUME NEW r \in Requests, NEW name \in Names, NEW ipv4 \in IPs, CreateServer(r, name, ipv4)
      PROVE  TypeInv'
  <2>1. HistoryFits' /\ UNCHANGED <<rows, hash, allIds, issued>>
      BY <1>1, Zenon DEF CreateServer, storeVars, TypeInv, HistoryFits
  <2> QED
      BY <1>1, <2>1, CreatingFits, RequestOnly, Zenon DEF CreateServer
<1>2. ASSUME NEW r \in Requests, NEW id \in Servers, NEW name \in Names, NEW ipv4 \in IPs,
             UpdateServer(r, id, name, ipv4)
      PROVE  TypeInv'
  <2> DEFINE c == (IF name # rows[id].name THEN {"name"} ELSE {}) \cup
                  (IF ipv4 # rows[id].ipv4 THEN {"ipv4"} ELSE {})
             row == rows[id]
             q == [pc |-> "update", id |-> id, name |-> name, ipv4 |-> ipv4, checks |-> c,
                   status |-> row.status, failures |-> row.failures]
  <2>1. row \in Row /\ id \in issued
      BY <1>2 DEF UpdateServer, TypeInv, StoresFit, RowsFit
  <2>2. c \in SUBSET {"name", "ipv4"}
      OBVIOUS
  <2>3. req' = [req EXCEPT ![r] = q] /\ Enter(r, id) /\ UNCHANGED <<rows, hash, allIds, issued>>
      BY <1>2, Zenon DEF UpdateServer
  <2> HIDE DEF c, row
  <2>4. LocalsFit(q, issued)
      BY <2>1, <2>2, UpdatingFits, Zenon
  <2> HIDE DEF q
  <2>5. HistoryFits'
      BY <2>3, HistoryStep DEF TypeInv
  <2> QED
      BY <2>3, <2>4, <2>5, RequestOnly, Zenon
<1>3. ASSUME NEW r \in Requests, NEW id \in Servers, DeleteServer(r, id) PROVE TypeInv'
  <2>1. /\ id \in issued /\ Enter(r, id) /\ UNCHANGED <<rows, hash, allIds, issued>>
        /\ req' = [req EXCEPT ![r] = [Idle EXCEPT !.pc = "delete", !.id = id]]
      BY <1>3, Zenon DEF DeleteServer, TypeInv, StoresFit, RowsFit
  <2>2. HistoryFits'
      BY <2>1, HistoryStep DEF TypeInv
  <2> QED
      BY <2>1, <2>2, DeletingFits, RequestOnly, Zenon
<1>4. ASSUME NEW r \in Requests, DBError(r) PROVE TypeInv'
    BY <1>4, IdleFits, RequestIds, RequestOnly, Zenon DEF DBError, Return
<1>5. ASSUME NEW r \in Requests, RedisError(r) PROVE TypeInv'
  <2>1. HistoryFits'
      BY <1>5, RequestIds, HistoryStep DEF RedisError, TypeInv
  <2> QED
      BY <1>5, <2>1, IdleFits, RequestOnly, Zenon DEF RedisError, Return
<1>6. CASE APICrash
  <2>1. RequestsFit'
      BY <1>6, IdleFits, Zenon DEF APICrash, RequestsFit, LocalsFit
  <2>2. disturbed' \subseteq Servers
      BY <1>6, RequestIds DEF APICrash, TypeInv, HistoryFits
  <2>3. HistoryFits'
      BY <1>6, <2>2, Zenon DEF APICrash, TypeInv, HistoryFits
  <2>4. StoresFit' /\ WorkersFit' /\ CyclesFit'
      BY <1>6 DEF APICrash, TypeInv, StoresFit, WorkersFit, CyclesFit, monOwnVars
  <2> QED
      BY <2>1, <2>3, <2>4 DEF TypeInv
<1> QED
    BY <1>1, <1>2, <1>3, <1>4, <1>5, <1>6
-----------------------------------------------------------------------------
\* One worker assigns its local variables; issued ids stay the same
LEMMA WorkerChange ==
    ASSUME TypeInv, NEW w \in Workers, NEW v, wk' = [wk EXCEPT ![w] = v],
           WorkerFits(v, issued), StoresFit', HistoryFits', CyclesFit', UNCHANGED <<issued, req>>
    PROVE  TypeInv'
<1>1. WorkersFit'
    BY DEF TypeInv, WorkersFit, WorkerFits
<1>2. RequestsFit'
    BY DEF TypeInv, RequestsFit
<1> QED
    BY <1>1, <1>2 DEF TypeInv

\* ... and leaves the stores and the cycle alone
LEMMA WorkerOnly ==
    ASSUME TypeInv, NEW w \in Workers, NEW v, wk' = [wk EXCEPT ![w] = v],
           WorkerFits(v, issued), HistoryFits',
           UNCHANGED <<rows, hash, allIds, issued, lock, phase, idChan, streak, req>>
    PROVE  TypeInv'
<1>1. StoresFit' /\ CyclesFit'
    BY DEF TypeInv, StoresFit, CyclesFit
<1> QED
    BY <1>1, WorkerChange, Zenon

LEMMA WorkerIds ==
    ASSUME TypeInv, NEW w \in Workers
    PROVE  /\ WorkerFits(wk[w], issued)
           /\ wk[w].pc # "idle" => wk[w].id \in issued /\ wk[w].id \in Servers
           /\ w[1] \in Instances
<1>1. WorkerFits(wk[w], issued) /\ issued \subseteq Servers
    BY DEF TypeInv, WorkersFit, StoresFit
<1>2. w[1] \in Instances
    BY DEF Workers
<1> QED
    BY <1>1, <1>2 DEF WorkerFits

\* The local variables of a worker after each kind of assignment
LEMMA TakenFits ==
    ASSUME NEW ids, NEW id \in Servers, id \in ids
    PROVE  WorkerFits([Resting EXCEPT !.pc = "ping", !.id = id], ids)
  BY StoresAssumption, Zenon DEF WorkerFits, Resting, WorkerLocals, Status

LEMMA PingedFits ==
    ASSUME NEW ids, NEW v, WorkerFits(v, ids), v.pc = "ping", NEW ok \in BOOLEAN
    PROVE  WorkerFits([v EXCEPT !.pc = "get", !.ok = ok], ids)
  BY Zenon DEF WorkerFits, WorkerLocals

LEMMA EvaluatedFits ==
    ASSUME NEW ids, NEW v, WorkerFits(v, ids), v.pc = "get",
           NEW status \in Status, NEW retry \in Nat, NEW pg \in BOOLEAN
    PROVE  WorkerFits([v EXCEPT !.pc = "set", !.status = status, !.retry = retry, !.pg = pg], ids)
  BY Zenon DEF WorkerFits, WorkerLocals

LEMMA SavedFits ==
    ASSUME NEW ids, NEW v, WorkerFits(v, ids), v.pc = "set"
    PROVE  WorkerFits([v EXCEPT !.pc = "pg"], ids)
  BY Zenon DEF WorkerFits, WorkerLocals

\* The state machine of Evaluate returns a status and a counter
LEMMA NextStateType ==
    ASSUME NEW status \in Status, NEW retry \in Nat, NEW ok \in BOOLEAN
    PROVE  /\ NextState(status, retry, ok).status \in Status
           /\ NextState(status, retry, ok).retry \in Nat
<1>1. CASE ok
    BY <1>1 DEF NextState, Status
<1>2. CASE ~ok /\ status = "ONLINE"
    BY <1>2, MonitoringAssumption DEF NextState, Status
<1>3. CASE ~ok /\ status = "OFFLINE"
    BY <1>3, MonitoringAssumption DEF NextState, Status
<1> QED
    BY <1>1, <1>2, <1>3 DEF Status

\* The steps of runCycle, and an instance that dies
LEMMA CycleTypeStep ==
    ASSUME TypeInv, UNCHANGED req,
           \/ LockExpires
           \/ \E i \in Instances : CycleStep(i) \/ FetchIDsError(i) \/ MonitorCrash(i)
           \/ \E w \in Workers : SkipServer(w)
    PROVE  TypeInv'
<1>1. ASSUME UNCHANGED <<wk, streak, storeVars>>, CyclesFit' PROVE TypeInv'
    BY <1>1 DEF TypeInv, StoresFit, HistoryFits, RequestsFit, WorkersFit, storeVars
<1>2. CASE LockExpires
    BY <1>1, <1>2, Zenon DEF LockExpires, storeVars, TypeInv, CyclesFit
<1>3. ASSUME NEW i \in Instances, AcquireLock(i) \/ FetchIDsError(i) \/ CycleDone(i) PROVE TypeInv'
  <2>1. CyclesFit'
      BY <1>3, Zenon DEF AcquireLock, FetchIDsError, CycleDone, storeVars, TypeInv, CyclesFit
  <2> QED
      BY <1>1, <1>3, <2>1 DEF AcquireLock, FetchIDsError, CycleDone
<1>4. ASSUME NEW i \in Instances, FetchIDs(i) PROVE TypeInv'
  <2>1. CyclesFit'
      BY <1>4 DEF FetchIDs, storeVars, TypeInv, CyclesFit, StoresFit
  <2> QED
      BY <1>1, <1>4, <2>1 DEF FetchIDs
<1>5. ASSUME NEW w \in Workers, SkipServer(w) PROVE TypeInv'
  <2>1. w[1] \in Instances
      BY ZenonT(30) DEF Workers
  <2>2. CyclesFit'
      BY <1>5, <2>1 DEF SkipServer, storeVars, TypeInv, CyclesFit
  <2> QED
      BY <1>1, <1>5, <2>2, Zenon DEF SkipServer
<1>6. ASSUME NEW i \in Instances, MonitorCrash(i) PROVE TypeInv'
  <2>1. \A w \in Workers : WorkerFits(wk'[w], issued) /\ wk'[w] \in WorkerLocals
      BY <1>6, RestingFits, Zenon DEF MonitorCrash, TypeInv, WorkersFit, WorkerFits
  <2>2. WorkersFit'
      BY <1>6, <2>1, Zenon DEF MonitorCrash, WorkersFit
  <2>3. CyclesFit'
      BY <1>6, Zenon DEF MonitorCrash, TypeInv, CyclesFit
  <2>4. disturbed' \subseteq Servers
      BY <1>6, WorkerIds, Zenon DEF MonitorCrash, TypeInv, HistoryFits, Workers
  <2>5. HistoryFits'
      BY <1>6, <2>4, Zenon DEF MonitorCrash, TypeInv, HistoryFits
  <2>6. StoresFit' /\ RequestsFit'
      BY <1>6 DEF MonitorCrash, TypeInv, StoresFit, RequestsFit
  <2> QED
      BY <2>2, <2>3, <2>5, <2>6 DEF TypeInv
<1> QED
    BY <1>2, <1>3, <1>4, <1>5, <1>6 DEF CycleStep

LEMMA WorkerTypeStep ==
    ASSUME TypeInv, UNCHANGED req, NEW w \in Workers,
           WorkerStep(w) \/ EvaluateRedisError(w) \/ EvaluateDBError(w)
    PROVE  TypeInv'
<1>0. WorkerFits(wk[w], issued) /\ HistoryFits /\ w[1] \in Instances
    BY WorkerIds DEF TypeInv
<1>1. CASE TakeServer(w)
  <2>1. PICK id \in idChan[w[1]] :
          /\ idChan' = [idChan EXCEPT ![w[1]] = @ \ {id}]
          /\ IF id \in DOMAIN hash /\ hash[id].ipv4 # None
             THEN /\ wk' = [wk EXCEPT ![w] = [Resting EXCEPT !.pc = "ping", !.id = id]]
                  /\ Enter(w, id)
             ELSE UNCHANGED <<wk, users, disturbed>>
          /\ UNCHANGED <<lock, phase, streak, rows, hash, allIds, issued>>
      BY <1>1, Zenon DEF TakeServer
  <2>2. id \in issued /\ id \in Servers
      BY <1>0 DEF TypeInv, CyclesFit, StoresFit
  <2>3. CyclesFit'
      BY <1>0, <2>1 DEF TypeInv, CyclesFit
  <2>4. StoresFit'
      BY <2>1 DEF TypeInv, StoresFit
  <2>5. CASE id \in DOMAIN hash /\ hash[id].ipv4 # None
    <3>1. HistoryFits'
        BY <1>0, <2>1, <2>2, <2>5, HistoryStep
    <3> QED
        BY <2>1, <2>2, <2>3, <2>4, <2>5, <3>1, TakenFits, WorkerChange, Zenon
  <2>6. CASE ~(id \in DOMAIN hash /\ hash[id].ipv4 # None)
      BY <2>1, <2>3, <2>4, <2>6 DEF TypeInv, HistoryFits, WorkersFit, RequestsFit
  <2> QED
      BY <2>5, <2>6
<1>2. ASSUME NEW ok \in BOOLEAN, Ping(w, ok) PROVE TypeInv'
  <2>1. HistoryFits' /\ UNCHANGED <<rows, hash, allIds, issued>>
      BY <1>0, <1>2, Zenon DEF Ping, storeVars, HistoryFits
  <2> QED
      BY <1>0, <1>2, <2>1, PingedFits, WorkerOnly, Zenon DEF Ping
<1>3. CASE GetServerState(w)
  <2>1. wk[w].pc = "get" /\ wk[w].id \in Servers /\ wk[w].ok \in BOOLEAN
      BY <1>0, <1>3, WorkerIds DEF GetServerState, WorkerFits, WorkerLocals
  <2>2. CASE wk[w].id \in DOMAIN hash
    <3> DEFINE next == NextState(hash[wk[w].id].status, hash[wk[w].id].retry, wk[w].ok)
               pg == WritesPostgres(hash[wk[w].id].status, next, wk[w].ok)
               v == [wk[w] EXCEPT !.pc = "set", !.status = next.status, !.retry = next.retry, !.pg = pg]
    <3>1. /\ wk' = [wk EXCEPT ![w] = v] /\ UNCHANGED <<users, disturbed>>
          /\ UNCHANGED <<lock, phase, idChan, streak, rows, hash, allIds, issued>>
        BY <1>3, <2>2, Zenon DEF GetServerState
    <3>2. hash[wk[w].id].status \in Status /\ hash[wk[w].id].retry \in Nat
        BY <2>2, Zenon DEF TypeInv, StoresFit, HashFit, Hash
    <3>3. next.status \in Status /\ next.retry \in Nat
        BY <2>1, <3>2, NextStateType
    <3>4. pg \in BOOLEAN
        BY DEF WritesPostgres
    <3> HIDE DEF next, pg
    <3>5. WorkerFits(v, issued)
        BY <1>0, <2>1, <3>3, <3>4, EvaluatedFits, Zenon
    <3> HIDE DEF v
    <3>6. HistoryFits'
        BY <1>0, <3>1 DEF HistoryFits
    <3> QED
        BY <3>1, <3>5, <3>6, WorkerOnly, Zenon
  <2>3. CASE wk[w].id \notin DOMAIN hash
    <3>1. Rest(w) /\ Leave(w, wk[w].id) /\ UNCHANGED <<lock, phase, idChan, streak, rows, hash, allIds, issued>>
        BY <1>3, <2>3 DEF GetServerState
    <3> QED
        BY <1>0, <2>1, <3>1, HistoryStep, RestingFits, WorkerOnly, Zenon DEF Rest
  <2> QED
      BY <2>2, <2>3
<1>4. CASE SetState(w)
  <2>1. wk[w].pc = "set" /\ wk[w].id \in issued /\ wk[w].id \in Servers
      BY <1>4, WorkerIds DEF SetState
  <2> DEFINE addr == IF wk[w].id \in DOMAIN hash THEN hash[wk[w].id].ipv4 ELSE None
             info == [ipv4 |-> addr, status |-> wk[w].status, retry |-> wk[w].retry]
  <2>2. addr \in IPs \cup {None}
      BY DEF TypeInv, StoresFit, HashFit, Hash
  <2>3. hash' = Put(hash, wk[w].id, info)
      BY <1>4, Zenon DEF SetState, SetServerState, CacheHSet
  <2> HIDE DEF addr
  <2>4. info \in Hash
      BY <1>0, <2>2 DEF WorkerFits, WorkerLocals, Hash
  <2>5. UNCHANGED <<lock, phase, idChan, rows, allIds, issued>>
      BY <1>4, Zenon DEF SetState
  <2> HIDE DEF info
  <2>6. StoresFit'
      BY <2>1, <2>3, <2>4, <2>5, PutHash DEF TypeInv, StoresFit
  <2>7. streak' \in [Servers -> 0..Threshold]
      BY <1>4, <2>1, MonitoringAssumption DEF SetState, TypeInv, CyclesFit
  <2>8. CyclesFit'
      BY <2>5, <2>7 DEF TypeInv, CyclesFit
  <2>9. CASE wk[w].pg
    <3>1. wk' = [wk EXCEPT ![w] = [wk[w] EXCEPT !.pc = "pg"]] /\ UNCHANGED <<users, disturbed>>
        BY <1>4, <2>9 DEF SetState
    <3>2. HistoryFits'
        BY <1>0, <3>1 DEF HistoryFits
    <3> QED
        BY <1>0, <2>1, <2>5, <2>6, <2>8, <3>1, <3>2, SavedFits, WorkerChange, Zenon
  <2>10. CASE ~wk[w].pg
    <3>1. Rest(w) /\ Leave(w, wk[w].id)
        BY <1>4, <2>10, Zenon DEF SetState
    <3>2. HistoryFits'
        BY <1>0, <2>1, <3>1, HistoryStep
    <3> QED
        BY <2>5, <2>6, <2>8, <3>1, <3>2, RestingFits, WorkerChange, Zenon DEF Rest
  <2> QED
      BY <2>9, <2>10
<1>5. CASE WritePostgres(w)
  <2>1. /\ wk[w].pc = "pg" /\ wk[w].id \in Servers /\ Rest(w) /\ Leave(w, wk[w].id)
        /\ UNCHANGED <<lock, phase, idChan, streak, hash, allIds, issued>>
      BY <1>5, WorkerIds DEF WritePostgres
  <2>2. RowsFit(rows', issued)
    <3>1. CASE wk[w].id \in DOMAIN rows
      <4>1. rows' = [rows EXCEPT ![wk[w].id] = [rows[wk[w].id] EXCEPT !.status = wk[w].status,
                                                                     !.failures = wk[w].retry]]
          BY <1>5, <3>1 DEF WritePostgres, UpdateServerStatus
      <4>2. [rows[wk[w].id] EXCEPT !.status = wk[w].status, !.failures = wk[w].retry] \in Row
        <5>1. rows[wk[w].id] \in Row /\ wk[w].status \in Status /\ wk[w].retry \in Nat
            BY <1>0, <3>1 DEF TypeInv, StoresFit, RowsFit, WorkerFits, WorkerLocals
        <5> QED
            BY <5>1, StatusFits, Zenon
      <4> QED
          BY <4>1, <4>2 DEF TypeInv, StoresFit, RowsFit
    <3>2. CASE wk[w].id \notin DOMAIN rows
        BY <1>5, <3>2, Zenon DEF WritePostgres, UpdateServerStatus, TypeInv, StoresFit
    <3> QED
        BY <3>1, <3>2
  <2>3. StoresFit' /\ CyclesFit'
      BY <2>1, <2>2, Zenon DEF TypeInv, StoresFit, CyclesFit
  <2>4. HistoryFits'
      BY <1>0, <2>1, HistoryStep, Zenon
  <2> QED
      BY <2>1, <2>3, <2>4, RestingFits, WorkerChange, Zenon DEF Rest
<1>6. CASE EvaluateRedisError(w) \/ EvaluateDBError(w)
  <2>1. /\ wk[w].pc # "idle" /\ Rest(w) /\ (Leave(w, wk[w].id) \/ LeaveTorn(w, wk[w].id))
        /\ UNCHANGED <<lock, phase, idChan, streak, rows, hash, allIds, issued>>
      BY <1>6, Zenon DEF EvaluateRedisError, EvaluateDBError
  <2>2. HistoryFits'
      BY <1>0, <2>1, WorkerIds, HistoryStep
  <2> QED
      BY <2>1, <2>2, RestingFits, WorkerOnly, ZenonT(30) DEF Rest
<1> QED
    BY <1>1, <1>2, <1>3, <1>4, <1>5, <1>6, ZenonT(30) DEF WorkerStep

LEMMA InitTypeInv == Init => TypeInv
<1> SUFFICES ASSUME Init PROVE TypeInv
    OBVIOUS
<1>1. StoresFit /\ HistoryFits
    BY DEF Init, StoresInit, StoresFit, HistoryFits, RowsFit, HashFit
<1>2. RequestsFit
    BY IdleFits DEF Init, MgmtInit, RequestsFit, LocalsFit
<1>3. WorkersFit
    BY RestingFits DEF Init, MonInit, WorkersFit, WorkerFits
<1>4. CyclesFit
  <2>1. 0 \in 0..Threshold
      BY MonitoringAssumption
  <2>2. MonInit
      BY DEF Init
  <2> QED
      BY <2>1, <2>2, Zenon DEF MonInit, CyclesFit
<1> QED
    BY <1>1, <1>2, <1>3, <1>4 DEF TypeInv

\* Every step of the system preserves TypeInv
LEMMA NextTypeInv == TypeInv /\ [Next]_vars => TypeInv'
<1> SUFFICES ASSUME TypeInv, [Next]_vars PROVE TypeInv'
    OBVIOUS
<1>1. CASE MgmtNext /\ UNCHANGED monOwnVars
    BY <1>1, RequestTypeStep, RequestBoundaryType, Zenon DEF MgmtNext
<1>2. CASE MonNext /\ UNCHANGED req
    BY <1>2, CycleTypeStep, WorkerTypeStep, Zenon DEF MonNext
<1>3. CASE UNCHANGED vars
    BY <1>3 DEF vars, TypeInv, StoresFit, HistoryFits, RequestsFit, WorkersFit, CyclesFit
<1> QED
    BY <1>1, <1>2, <1>3 DEF Next

LEMMA TypeInvHolds == Spec => []TypeInv
  BY InitTypeInv, NextTypeInv, PTL DEF Spec

(* Every variable keeps its type: in particular Redis never holds a hash   *)
(* or an id that no creation generated, and an actor never works on one    *)
(* (whatever was deleted, or failed, or crashed in between).               *)
THEOREM TypeCorrect == Spec => []TypeOK
  BY TypeInvHolds, TypeInvTypes, PTL
-----------------------------------------------------------------------------
\* What a step can do to the rows: nothing, store one the unique indexes
\* accept under a new or a stored id, delete one, or change a status.
RowsStep ==
    \/ rows' = rows
    \/ \E id \in Servers, row \in Row :
         /\ id \in issued => id \in DOMAIN rows
         /\ UniqueIndexes(id, row.name, row.ipv4)
         /\ rows' = Put(rows, id, row)
    \/ \E id \in Servers : rows' = Drop(rows, id)
    \/ \E id \in DOMAIN rows, status \in Status, failures \in Nat :
         rows' = [rows EXCEPT ![id] = [@ EXCEPT !.status = status, !.failures = failures]]

LEMMA RequestRowsStep ==
    ASSUME TypeInv, NEW r \in Requests, RequestStep(r)
    PROVE  RowsStep
<1>0. LocalsFit(req[r], issued) /\ DOMAIN rows \subseteq issued /\ issued \subseteq Servers
    BY DEF TypeInv, RequestsFit, StoresFit, RowsFit
<1>1. CASE CheckName(r) \/ CheckIPv4(r) \/ UpsertHSet(r) \/ UpsertSAdd(r) \/ CacheDel(r) \/ CacheSRem(r)
    BY <1>1, Zenon DEF CheckName, CheckIPv4, UpsertHSet, UpsertSAdd, CacheDel, CacheSRem, RowsStep
<1>2. CASE CreateRow(r)
  <2> DEFINE written == [name |-> req[r].name, ipv4 |-> req[r].ipv4,
                         status |-> "ONLINE", failures |-> 0]
  <2>1. CASE UniqueIndexes(None, req[r].name, req[r].ipv4)
    <3>1. PICK id \in Servers \ issued : Insert(id, req[r].name, req[r].ipv4)
        BY <1>2, <2>1, Zenon DEF CreateRow
    <3>2. rows' = Put(rows, id, written)
        BY <3>1 DEF Insert
    <3>3. written \in Row
        BY <1>0, <1>2, Zenon DEF CreateRow, LocalsFit, Row, Status
    <3>4. UniqueIndexes(id, written.name, written.ipv4)
        BY <1>0, <2>1, <3>1, StoresAssumption DEF UniqueIndexes, NameTaken, IPv4Taken
    <3> HIDE DEF written
    <3> QED
        BY <3>1, <3>2, <3>3, <3>4, Zenon DEF RowsStep
  <2>2. CASE ~UniqueIndexes(None, req[r].name, req[r].ipv4)
      BY <1>2, <2>2 DEF CreateRow, RowsStep
  <2> QED
      BY <2>1, <2>2
<1>3. CASE UpdateServerRow(r)
  <2> DEFINE id == req[r].id
             written == [name |-> req[r].name, ipv4 |-> req[r].ipv4,
                         status |-> req[r].status, failures |-> req[r].failures]
  <2>1. CASE id \in DOMAIN rows /\ UniqueIndexes(id, req[r].name, req[r].ipv4)
    <3>1. rows' = Put(rows, id, written)
        BY <1>3, <2>1, Zenon DEF UpdateServerRow, UpdateRow
    <3>2. written \in Row
        BY <1>0, <1>3, ZenonT(30) DEF UpdateServerRow, Locals, LocalsFit, Row
    <3>3. UniqueIndexes(id, written.name, written.ipv4) /\ id \in Servers
        BY <1>0, <2>1
    <3> HIDE DEF written
    <3> QED
        BY <2>1, <3>1, <3>2, <3>3, Zenon DEF RowsStep
  <2>2. CASE ~(id \in DOMAIN rows /\ UniqueIndexes(id, req[r].name, req[r].ipv4))
      BY <1>3, <2>2, Zenon DEF UpdateServerRow, RowsStep
  <2> QED
      BY <2>1, <2>2
<1>4. CASE DeleteServerRow(r)
    BY <1>0, <1>4, Zenon DEF DeleteServerRow, DeleteRow, RowsStep
<1> QED
    BY <1>1, <1>2, <1>3, <1>4 DEF RequestStep

LEMMA NextRowsStep == TypeInv /\ [Next]_vars => RowsStep
<1> SUFFICES ASSUME TypeInv, [Next]_vars PROVE RowsStep
    OBVIOUS
<1>1. ASSUME NEW r \in Requests, RequestStep(r) PROVE RowsStep
    BY <1>1, RequestRowsStep
<1>2. CASE APICrash \/ UNCHANGED vars
    BY <1>2, Zenon DEF APICrash, vars, RowsStep
<1>3. ASSUME NEW r \in Requests, NEW id \in Servers, NEW name \in Names, NEW ipv4 \in IPs,
             UpdateServer(r, id, name, ipv4)
      PROVE  RowsStep
    BY <1>3 DEF UpdateServer, RowsStep
<1>4. ASSUME NEW w \in Workers, WritePostgres(w) PROVE RowsStep
  <2>1. wk[w].status \in Status /\ wk[w].retry \in Nat
      BY WorkerIds DEF WorkerFits, WorkerLocals
  <2> QED
      BY <1>4, <2>1, Zenon DEF WritePostgres, UpdateServerStatus, RowsStep
<1>5. ASSUME MonNext, \A w \in Workers : ~WritePostgres(w) PROVE RowsStep
    BY <1>5, Zenon DEF MonNext, CycleStep, WorkerStep, LockExpires, AcquireLock, FetchIDs, FetchIDsError,
                CycleDone, MonitorCrash, TakeServer, SkipServer, Ping, GetServerState, SetState,
                EvaluateRedisError, EvaluateDBError, storeVars, RowsStep
<1>6. CASE MgmtNext
  <2>1. ASSUME NEW r \in Requests, NEW name \in Names, NEW ipv4 \in IPs, CreateServer(r, name, ipv4)
        PROVE  RowsStep
      BY <2>1 DEF CreateServer, storeVars, RowsStep
  <2>2. ASSUME NEW r \in Requests, NEW id \in Servers, DeleteServer(r, id) PROVE RowsStep
      BY <2>2 DEF DeleteServer, RowsStep
  <2>3. ASSUME NEW r \in Requests, DBError(r) \/ RedisError(r) PROVE RowsStep
      BY <2>3, Zenon DEF DBError, RedisError, RowsStep
  <2> QED
      BY <1>1, <1>2, <1>3, <1>6, <2>1, <2>2, <2>3 DEF MgmtNext
<1> QED
    BY <1>2, <1>4, <1>5, <1>6 DEF Next

(* No two rows share a name or an address, however the uniqueness reads    *)
(* and the writes of concurrent requests interleave: the unique indexes    *)
(* decide, not the GetByName and GetByIPv4 of server_service.go.           *)
THEOREM UniqueServersHolds == Spec => []UniqueServers
<1>1. Init => UniqueServers
    BY DEF Init, StoresInit, UniqueServers
<1>2. TypeInv /\ UniqueServers /\ [Next]_vars => UniqueServers'
  <2> SUFFICES ASSUME TypeInv, UniqueServers, RowsStep PROVE UniqueServers'
      BY NextRowsStep
  <2>1. CASE rows' = rows
      BY <2>1 DEF UniqueServers
  <2>2. ASSUME NEW id \in Servers, NEW row \in Row, UniqueIndexes(id, row.name, row.ipv4),
               rows' = Put(rows, id, row)
        PROVE  UniqueServers'
      BY <2>2 DEF UniqueServers, UniqueIndexes, NameTaken, IPv4Taken, Put
  <2>3. ASSUME NEW id \in Servers, rows' = Drop(rows, id) PROVE UniqueServers'
      BY <2>3 DEF UniqueServers, Drop, Restrict
  <2>4. ASSUME NEW id \in DOMAIN rows, NEW status \in Status, NEW failures \in Nat,
               rows' = [rows EXCEPT ![id] = [@ EXCEPT !.status = status, !.failures = failures]]
        PROVE  UniqueServers'
    <3>1. DOMAIN rows' = DOMAIN rows
        BY <2>4
    <3>2. \A x \in DOMAIN rows : rows'[x].name = rows[x].name /\ rows'[x].ipv4 = rows[x].ipv4
        BY <2>4 DEF TypeInv, StoresFit, RowsFit, Row
    <3> QED
        BY <3>1, <3>2 DEF UniqueServers
  <2> QED
      BY <2>1, <2>2, <2>3, <2>4, Zenon DEF RowsStep
<1> QED
    BY <1>1, <1>2, TypeInvHolds, PTL DEF Spec

(* No step gives a deleted server a row again: an Update, or a status      *)
(* written by the monitor, that comes after the DELETE changes nothing.    *)
THEOREM DeletedStaysDeletedHolds == Spec => DeletedStaysDeleted
<1> DEFINE Kept == \A id \in issued \ DOMAIN rows : id \notin DOMAIN rows'
<1>1. TypeInv /\ [Next]_vars => [Kept]_storeVars
  <2> SUFFICES ASSUME TypeInv, RowsStep PROVE Kept
      BY NextRowsStep
  <2>1. ASSUME NEW id \in Servers, NEW row \in Row, id \in issued => id \in DOMAIN rows,
               rows' = Put(rows, id, row)
        PROVE  Kept
      BY <2>1 DEF Put
  <2>2. ASSUME NEW id \in Servers, rows' = Drop(rows, id) PROVE Kept
      BY <2>2 DEF Drop, Restrict
  <2> QED
      BY <2>1, <2>2, Zenon DEF RowsStep
<1> QED
    BY <1>1, TypeInvHolds, PTL DEF Spec, DeletedStaysDeleted
-----------------------------------------------------------------------------
\* The owner of a cycle holds the lock
CycleInv == ExclusiveCycles /\ \A i \in Instances : phase[i] # "idle" => lock

LEMMA NextCycleInv ==
    ASSUME ~CycleMayOutliveLock, TypeInv, CycleInv, [Next]_vars
    PROVE  CycleInv'
<1> USE DEF TypeInv, CyclesFit, CycleInv, ExclusiveCycles
<1>1. ASSUME NEW i \in Instances, AcquireLock(i) PROVE CycleInv'
    BY <1>1 DEF AcquireLock
<1>2. CASE LockExpires
    BY <1>2 DEF LockExpires
<1>3. ASSUME NEW i \in Instances, FetchIDs(i) \/ FetchIDsError(i) \/ CycleDone(i) \/ MonitorCrash(i)
      PROVE  CycleInv'
    BY <1>3 DEF FetchIDs, FetchIDsError, CycleDone, MonitorCrash
<1>4. ASSUME NEW w \in Workers,
             WorkerStep(w) \/ SkipServer(w) \/ EvaluateRedisError(w) \/ EvaluateDBError(w)
      PROVE  UNCHANGED <<lock, phase>>
    BY <1>4, Zenon DEF WorkerStep, TakeServer, SkipServer, Ping, GetServerState, SetState, WritePostgres,
                EvaluateRedisError, EvaluateDBError
<1>5. CASE UNCHANGED <<lock, phase>>
    BY <1>5
<1> QED
    BY <1>1, <1>2, <1>3, <1>4, <1>5 DEF Next, MonNext, CycleStep, monOwnVars, vars

LEMMA InitCycleInv == Init => CycleInv
  BY DEF Init, MonInit, CycleInv, ExclusiveCycles

(* As long as no cycle outlives the lock's TTL, no two monitoring          *)
(* processes are in a cycle at the same time, however many there are and   *)
(* wherever they crash (app/monitoring/app.go:151-165).                    *)
THEOREM ExclusiveCyclesHolds ==
    ASSUME ~CycleMayOutliveLock
    PROVE  Spec => []ExclusiveCycles
<1>1. TypeInv /\ CycleInv /\ [Next]_vars => CycleInv'
    BY NextCycleInv
<1> QED
    BY <1>1, InitCycleInv, TypeInvHolds, PTL DEF Spec, CycleInv

(***************************************************************************)
(* A server goes OFFLINE only on the Threshold-th failed ping in a row,    *)
(* when no server is updated and no cycle outlives the lock: for any       *)
(* Threshold, any number of instances and workers, and any errors and      *)
(* crashes of both processes.  The argument needs that a server is with    *)
(* one worker at most, so that nothing changes its hash between the read   *)
(* and the write of Evaluate.                                              *)
(***************************************************************************)

\* A server is in the channel of the running cycle or with one worker
PoolOK ==
    /\ \A i \in Instances : phase[i] # "running" => idChan[i] = {}
    /\ \A w \in Workers : wk[w].id # None =>
         /\ phase[w[1]] = "running"
         /\ wk[w].id \notin idChan[w[1]]
         /\ \A v \in Workers : wk[v].id = wk[w].id => v = w

\* The monitor has not heard of the server: ids is server:all_ids, ch the
\* channels and ws the local variables of the workers
Unseen(id, ids, ch, ws) ==
    /\ id \notin ids
    /\ \A i \in Instances : id \notin ch[i]
    /\ \A w \in Workers : ws[w].id # id

Upserting(q) == q.pc \in {"hset", "sadd"}

\* Only creations write the hash, once for each id
CreatesOK ==
    /\ \A r \in Requests : req[r].pc # "update"
    /\ \A r \in Requests : req[r].pc = "hset" =>
         req[r].status = "ONLINE" /\ req[r].failures = 0 /\ Unseen(req[r].id, allIds, idChan, wk)
    /\ \A r, s \in Requests :
         Upserting(req[r]) /\ Upserting(req[s]) /\ req[r].id = req[s].id => r = s

\* The counter of an ONLINE server counts failed pings in a row
CountOK == \A id \in DOMAIN hash : hash[id].status = "ONLINE" => hash[id].retry <= streak[id]

\* What a worker with local variables v is about to write, given the hashes h
\* and the streaks st
Pending(v, h, st) ==
    v.pc = "set" =>
        /\ v.ok => v.status = "ONLINE" /\ v.retry = 0
        /\ ~v.ok /\ v.status = "ONLINE" => v.retry <= st[v.id] + 1 /\ v.retry <= Threshold
        /\ ~v.ok /\ v.status = "OFFLINE" /\ v.id \in DOMAIN h /\ h[v.id].status = "ONLINE"
             => st[v.id] + 1 >= Threshold

PendingOK == \A w \in Workers : Pending(wk[w], hash, streak)

ThresholdInv == TypeInv /\ CycleInv /\ PoolOK /\ CreatesOK /\ CountOK /\ PendingOK

\* The action of OfflineNeedsThreshold
DownOnThreshold ==
    \A id \in DOMAIN hash \cap DOMAIN hash' :
        hash[id].status = "ONLINE" /\ hash'[id].status = "OFFLINE" => streak'[id] = Threshold

\* What is shown of every step
StepOK == PoolOK' /\ CreatesOK' /\ CountOK' /\ PendingOK' /\ DownOnThreshold
-----------------------------------------------------------------------------
(* Hashes are dropped at most, and no worker moves.                        *)
LEMMA HashShrinks ==
    ASSUME CountOK, PendingOK, UNCHANGED <<streak, wk>>,
           \A id \in DOMAIN hash' : id \in DOMAIN hash /\ hash'[id] = hash[id]
    PROVE  CountOK' /\ PendingOK' /\ DownOnThreshold
<1>1. CountOK'
    BY ZenonT(30) DEF CountOK
<1>2. PendingOK'
    BY DEF PendingOK, Pending
<1>3. DownOnThreshold
    BY DEF DownOnThreshold
<1> QED BY <1>1, <1>2, <1>3

(* A request that is not at its first cache command, or goes on from it.   *)
LEMMA RequestCreates ==
    ASSUME CreatesOK, req \in [Requests -> Locals], NEW r \in Requests, NEW q,
           req' = [req EXCEPT ![r] = q], UNCHANGED <<idChan, wk>>,
           q.pc \notin {"update", "hset"},
           q.pc = "sadd" => req[r].pc = "hset" /\ q.id = req[r].id,
           allIds' \subseteq allIds \cup (IF req[r].pc = "sadd" THEN {req[r].id} ELSE {})
    PROVE  CreatesOK'
<1>1. req'[r] = q /\ \A s \in Requests : s # r => req'[s] = req[s]
    OBVIOUS
<1>2. \A s \in Requests : req'[s].pc # "update"
    BY <1>1, ZenonT(30) DEF CreatesOK
<1>3. ASSUME NEW s \in Requests, req'[s].pc = "hset"
      PROVE  req'[s].status = "ONLINE" /\ req'[s].failures = 0 /\ Unseen(req'[s].id, allIds', idChan', wk')
    <2>1. s # r /\ req'[s] = req[s] /\ req[s].pc = "hset"
        BY <1>1, <1>3
    <2>2. Unseen(req[s].id, allIds, idChan, wk) /\ req[s].status = "ONLINE" /\ req[s].failures = 0
        BY <2>1 DEF CreatesOK
    <2>3. req[r].pc = "sadd" => req[s].id # req[r].id
        BY <2>1 DEF CreatesOK, Upserting
    <2>4. req'[s].id \notin allIds'
        BY <2>1, <2>2, <2>3 DEF Unseen
    <2> QED BY <2>1, <2>2, <2>4 DEF Unseen
<1>4. ASSUME NEW a \in Requests, NEW b \in Requests, Upserting(req'[a]), Upserting(req'[b]),
             req'[a].id = req'[b].id
      PROVE  a = b
    <2>1. \A s \in Requests : Upserting(req'[s]) => Upserting(req[s]) /\ req'[s].id = req[s].id
        BY <1>1, ZenonT(30) DEF Upserting
    <2> QED BY <1>4, <2>1 DEF CreatesOK
<1> QED BY <1>2, <1>3, <1>4 DEF CreatesOK

(* The monitor takes servers from server:all_ids to a channel and from     *)
(* there to a worker: it never meets one that is being created.            *)
LEMMA MonitorCreates ==
    ASSUME TypeInv, CreatesOK, UNCHANGED <<req, allIds>>,
           \A i \in Instances : idChan'[i] \subseteq idChan[i] \cup allIds,
           \A w \in Workers : wk'[w].id \in {wk[w].id, None} \cup idChan[w[1]]
    PROVE  CreatesOK'
<1>1. ASSUME NEW r \in Requests, req[r].pc = "hset" PROVE Unseen(req[r].id, allIds', idChan', wk')
    <2>1. Unseen(req[r].id, allIds, idChan, wk)
        BY <1>1, ZenonT(30) DEF CreatesOK
    <2>2. req[r].id # None
        BY <1>1, RequestIds DEF LocalsFit
    <2>3. \A w \in Workers : w[1] \in Instances
        BY ZenonT(30) DEF Workers
    <2>4. \A i \in Instances : req[r].id \notin idChan'[i]
        BY <2>1 DEF Unseen
    <2>5. \A w \in Workers : wk'[w].id # req[r].id
        BY <2>1, <2>2, <2>3 DEF Unseen
    <2> QED BY <2>1, <2>4, <2>5, ZenonT(30) DEF Unseen
<1> QED BY <1>1, ZenonT(30) DEF CreatesOK
-----------------------------------------------------------------------------
(* The API.                                                                *)

LEMMA CreateRowStep ==
    ASSUME ThresholdInv, NEW r \in Requests, CreateRow(r), UNCHANGED monOwnVars
    PROVE  CreatesOK'
<1>0. TypeInv /\ CreatesOK /\ req \in [Requests -> Locals] /\ UNCHANGED <<idChan, wk, allIds>>
    BY Zenon DEF ThresholdInv, TypeInv, RequestsFit, monOwnVars, CreateRow
<1>1. CASE ~UniqueIndexes(None, req[r].name, req[r].ipv4)
    <2>1. req' = [req EXCEPT ![r] = Idle] /\ Idle.pc = "idle"
        BY <1>1, ZenonT(30) DEF CreateRow, Return, Idle
    <2> QED BY <1>0, <2>1, RequestCreates, Zenon
<1>2. CASE UniqueIndexes(None, req[r].name, req[r].ipv4)
    <2>1. PICK id \in Servers \ issued :
            req' = [req EXCEPT ![r] = [req[r] EXCEPT !.pc = "hset", !.id = id, !.status = "ONLINE"]]
        BY <1>2, Zenon DEF CreateRow
    <2>2. LocalsFit(req[r], issued) /\ req[r].pc = "create" /\ req[r].failures = 0
        BY <1>0, RequestIds, Zenon DEF CreateRow, LocalsFit
    <2>3. PICK q : /\ req' = [req EXCEPT ![r] = q] /\ q.pc = "hset" /\ q.id = id
                   /\ q.status = "ONLINE" /\ q.failures = 0
        <3> DEFINE p == [req[r] EXCEPT !.pc = "hset", !.id = id, !.status = "ONLINE"]
        <3>1. p.pc = "hset" /\ p.id = id /\ p.status = "ONLINE" /\ p.failures = 0
            BY <1>0, <2>2 DEF Locals
        <3>2. req' = [req EXCEPT ![r] = p]
            BY <2>1
        <3> HIDE DEF p
        <3> QED BY <3>1, <3>2, Zenon
    <2>4. req'[r] = q /\ \A s \in Requests : s # r => req'[s] = req[s]
        BY <1>0, <2>3
    <2>5. Unseen(id, allIds, idChan, wk)
        <3>1. id \notin allIds /\ \A i \in Instances : id \notin idChan[i]
            BY <1>0 DEF TypeInv, StoresFit, CyclesFit
        <3>2. \A w \in Workers : wk[w].id # id
            BY <1>0, StoresAssumption DEF TypeInv, WorkersFit, WorkerFits
        <3> QED BY <3>1, <3>2 DEF Unseen
    <2>6. \A s \in Requests : req[s].id # id
        BY <1>0, StoresAssumption DEF TypeInv, RequestsFit, LocalsFit
    <2>7. \A s \in Requests : req'[s].pc # "update"
        BY <1>0, <2>3, <2>4 DEF CreatesOK
    <2>8. \A s \in Requests : req'[s].pc = "hset" =>
            /\ req'[s].status = "ONLINE" /\ req'[s].failures = 0
            /\ Unseen(req'[s].id, allIds', idChan', wk')
        BY <1>0, <2>3, <2>4, <2>5 DEF CreatesOK
    <2>9. \A a, b \in Requests :
            Upserting(req'[a]) /\ Upserting(req'[b]) /\ req'[a].id = req'[b].id => a = b
        BY <1>0, <2>3, <2>4, <2>6 DEF CreatesOK
    <2> QED BY <2>7, <2>8, <2>9 DEF CreatesOK
<1> QED BY <1>1, <1>2, Zenon

LEMMA UpsertHSetStep ==
    ASSUME ThresholdInv, NEW r \in Requests, UpsertHSet(r), UNCHANGED monOwnVars
    PROVE  CountOK' /\ PendingOK' /\ DownOnThreshold
<1>0. TypeInv /\ CreatesOK /\ CountOK /\ PendingOK /\ UNCHANGED <<wk, streak>>
    BY ZenonT(30) DEF ThresholdInv, monOwnVars
<1>1. PICK id \in Servers : id = req[r].id /\ \A w \in Workers : wk[w].id # id
    BY <1>0, RequestIds, ZenonT(30) DEF UpsertHSet, CreatesOK, Unseen
<1>2. /\ DOMAIN hash' = DOMAIN hash \cup {id}
      /\ hash'[id].status = "ONLINE" /\ hash'[id].retry = 0
      /\ \A x \in DOMAIN hash : x # id => hash'[x] = hash[x]
    BY <1>0, <1>1, ZenonT(30) DEF UpsertHSet, CreatesOK, CacheHSet, Put
<1>3. streak[id] \in 0..Threshold
    BY <1>0 DEF TypeInv, CyclesFit
<1>4. CountOK'
    <2>1. 0 <= streak'[id] /\ streak' = streak
        BY <1>0, <1>3, StreakIsNat, ZenonT(30)
    <2> QED BY <1>0, <1>2, <2>1, ZenonT(30) DEF CountOK
<1>5. PendingOK'
    BY <1>0, <1>1, <1>2 DEF PendingOK, Pending
<1>6. DownOnThreshold
    BY <1>2 DEF DownOnThreshold
<1> QED BY <1>4, <1>5, <1>6

\* The steps of a request that write no hash, or drop one
LEMMA RequestOther ==
    ASSUME ThresholdInv, "update" \notin Operations, NEW r \in Requests, UNCHANGED monOwnVars,
           \/ \E name \in Names, ipv4 \in IPs : CreateServer(r, name, ipv4)
           \/ \E id \in Servers : DeleteServer(r, id)
           \/ CheckName(r) \/ CheckIPv4(r) \/ DeleteServerRow(r)
           \/ UpsertHSet(r) \/ UpsertSAdd(r) \/ CacheDel(r) \/ CacheSRem(r)
           \/ DBError(r) \/ RedisError(r)
    PROVE  CreatesOK'
<1>0. TypeInv /\ CreatesOK /\ req \in [Requests -> Locals] /\ UNCHANGED <<idChan, wk>>
    BY ZenonT(30) DEF ThresholdInv, TypeInv, RequestsFit, monOwnVars
<1>1. Idle.pc = "idle" /\ req[r].pc # "update"
    BY <1>0 DEF Idle, CreatesOK
<1>2. CASE Return(r) /\ allIds' \subseteq allIds \cup (IF req[r].pc = "sadd" THEN {req[r].id} ELSE {})
    BY <1>0, <1>1, <1>2, RequestCreates, Zenon DEF Return
<1>3. ASSUME NEW pc \in {"sadd", "del", "srem"}, pc = "sadd" => req[r].pc = "hset",
             Goto(r, pc), allIds' = allIds
      PROVE  CreatesOK'
    <2> DEFINE q == [req[r] EXCEPT !.pc = pc]
    <2>1. req' = [req EXCEPT ![r] = q] /\ q.pc = pc /\ q.id = req[r].id
        BY <1>0, <1>3 DEF Goto, Locals
    <2> HIDE DEF q
    <2> QED BY <1>0, <1>3, <2>1, RequestCreates, Zenon
<1>4. ASSUME NEW c \in SUBSET {"name", "ipv4"}, req' = [req EXCEPT ![r].checks = c],
             req[r].pc \in {"create", "update"}, allIds' = allIds
      PROVE  CreatesOK'
    <2> DEFINE q == [req[r] EXCEPT !.checks = c]
    <2>1. req' = [req EXCEPT ![r] = q] /\ q.pc = "create"
        BY <1>0, <1>1, <1>4 DEF Locals
    <2> HIDE DEF q
    <2> QED BY <1>0, <1>4, <2>1, RequestCreates, Zenon
<1>5. ASSUME NEW name \in Names, NEW ipv4 \in IPs, CreateServer(r, name, ipv4) PROVE CreatesOK'
    <2> DEFINE q == [Idle EXCEPT !.pc = "create", !.checks = {"name", "ipv4"},
                                 !.name = name, !.ipv4 = ipv4]
    <2>1. req' = [req EXCEPT ![r] = q] /\ q.pc = "create" /\ allIds' = allIds
        BY <1>5, Zenon DEF CreateServer, Idle, storeVars
    <2> HIDE DEF q
    <2> QED BY <1>0, <2>1, RequestCreates, Zenon
<1>6. ASSUME NEW id \in Servers, DeleteServer(r, id) PROVE CreatesOK'
    <2> DEFINE q == [Idle EXCEPT !.pc = "delete", !.id = id]
    <2>1. req' = [req EXCEPT ![r] = q] /\ q.pc = "delete" /\ allIds' = allIds
        BY <1>6, Zenon DEF DeleteServer, Idle
    <2> HIDE DEF q
    <2> QED BY <1>0, <2>1, RequestCreates, Zenon
<1>7. CASE CheckName(r) \/ CheckIPv4(r)
    <2>1. allIds' = allIds /\ req[r].pc \in {"create", "update"}
        BY <1>7 DEF CheckName, CheckIPv4
    <2>2. \/ Return(r)
          \/ \E c \in SUBSET {"name", "ipv4"} : req' = [req EXCEPT ![r].checks = c]
        <3>1. req[r].checks \ {"name"} \in SUBSET {"name", "ipv4"}
            BY <1>0 DEF Locals
        <3>2. CASE CheckName(r)
            BY <3>1, <3>2, Zenon DEF CheckName
        <3>3. CASE CheckIPv4(r)
            BY <3>3, Zenon DEF CheckIPv4
        <3> QED BY <1>7, <3>2, <3>3
    <2> QED BY <1>2, <1>4, <2>1, <2>2
<1>8. CASE DeleteServerRow(r)
    BY <1>2, <1>3, <1>8, Zenon DEF DeleteServerRow
<1>9. CASE UpsertHSet(r) \/ CacheDel(r)
    BY <1>3, <1>9, Zenon DEF UpsertHSet, CacheDel
<1>10. CASE UpsertSAdd(r) \/ CacheSRem(r)
    BY <1>2, <1>10, Zenon DEF UpsertSAdd, CacheSRem
<1>11. CASE DBError(r) \/ RedisError(r)
    BY <1>2, <1>11, ZenonT(30) DEF DBError, RedisError
<1> QED BY <1>5, <1>6, <1>7, <1>8, <1>9, <1>10, <1>11, ZenonT(30)

LEMMA ManagementStep ==
    ASSUME ThresholdInv, "update" \notin Operations, MgmtNext, UNCHANGED monOwnVars
    PROVE  StepOK
<1>0. PoolOK /\ CreatesOK /\ CountOK /\ PendingOK /\ UNCHANGED <<phase, idChan, wk, streak>>
    BY ZenonT(30) DEF ThresholdInv, monOwnVars
<1>1. PoolOK'
    BY <1>0, ZenonT(30) DEF PoolOK
<1>2. CASE APICrash
    <2>1. CreatesOK'
        <3>1. \A r \in Requests : req'[r].pc = "idle"
            BY <1>2, ZenonT(30) DEF APICrash, Idle
        <3> QED BY <3>1, ZenonT(30) DEF CreatesOK, Upserting
    <2>2. CountOK' /\ PendingOK' /\ DownOnThreshold
        BY <1>0, <1>2, HashShrinks, ZenonT(30) DEF APICrash
    <2> QED BY <1>1, <2>1, <2>2, ZenonT(30) DEF StepOK
<1>3. ASSUME NEW r \in Requests,
             \/ \E name \in Names, ipv4 \in IPs : CreateServer(r, name, ipv4)
             \/ \E id \in Servers : DeleteServer(r, id)
             \/ CheckName(r) \/ CheckIPv4(r) \/ CreateRow(r) \/ DeleteServerRow(r)
             \/ UpsertSAdd(r) \/ CacheDel(r) \/ CacheSRem(r)
             \/ DBError(r) \/ RedisError(r)
      PROVE  StepOK
    <2>1. CreatesOK'
        BY <1>3, CreateRowStep, RequestOther, Zenon
    <2>2. \A id \in DOMAIN hash' : id \in DOMAIN hash /\ hash'[id] = hash[id]
        BY <1>3, Zenon DEF CreateServer, DeleteServer, CheckName, CheckIPv4, CreateRow, DeleteServerRow,
                    UpsertSAdd, CacheDel, CacheSRem, DBError, RedisError, storeVars, Drop, Restrict
    <2> QED BY <1>0, <1>1, <2>1, <2>2, HashShrinks DEF StepOK
<1>4. ASSUME NEW r \in Requests, UpsertHSet(r) PROVE StepOK
    BY <1>1, <1>4, UpsertHSetStep, RequestOther, Zenon DEF StepOK
<1>5. ASSUME NEW r \in Requests, NEW id \in Servers, NEW name \in Names, NEW ipv4 \in IPs
      PROVE  ~UpdateServer(r, id, name, ipv4) /\ ~UpdateServerRow(r)
    BY <1>0, ZenonT(30) DEF UpdateServer, UpdateServerRow, CreatesOK
<1>6. ASSUME NEW r \in Requests PROVE ~UpdateServerRow(r)
    BY <1>0, Zenon DEF UpdateServerRow, CreatesOK
<1> QED BY <1>2, <1>3, <1>4, <1>5, <1>6 DEF MgmtNext, RequestStep
-----------------------------------------------------------------------------
(* runCycle.                                                               *)

LEMMA CycleSteps ==
    ASSUME ThresholdInv, UNCHANGED req,
           \/ LockExpires
           \/ \E i \in Instances : CycleStep(i) \/ FetchIDsError(i) \/ MonitorCrash(i)
           \/ \E w \in Workers : SkipServer(w)
    PROVE  StepOK
<1>0. /\ TypeInv /\ PoolOK /\ CreatesOK /\ CountOK /\ PendingOK /\ ExclusiveCycles
      /\ phase \in [Instances -> {"idle", "locked", "running"}]
      /\ idChan \in [Instances -> SUBSET issued]
      /\ wk \in [Workers -> WorkerLocals]
    BY DEF ThresholdInv, CycleInv, TypeInv, CyclesFit, WorkersFit
<1>1. \A w \in Workers : w[1] \in Instances
    BY DEF Workers
<1>2. CASE LockExpires \/ \E i \in Instances : AcquireLock(i) \/ FetchIDsError(i)
    <2>1. /\ UNCHANGED <<idChan, wk, streak, hash, allIds>>
          /\ \A i \in Instances : phase'[i] # phase[i] => phase[i] # "running" /\ phase'[i] # "running"
        BY <1>0, <1>2, Zenon DEF LockExpires, AcquireLock, FetchIDsError, storeVars
    <2>2. PoolOK'
        BY <1>0, <1>1, <2>1, Zenon DEF PoolOK
    <2>3. CreatesOK'
        BY <1>0, <2>1, MonitorCreates
    <2> QED BY <1>0, <2>1, <2>2, <2>3, HashShrinks, Zenon DEF StepOK
<1>3. ASSUME NEW i \in Instances, FetchIDs(i) PROVE StepOK
    <2>1. /\ UNCHANGED <<wk, streak, hash, allIds>> /\ phase[i] = "locked"
          /\ phase' = [phase EXCEPT ![i] = IF allIds = {} THEN "idle" ELSE "running"]
          /\ idChan' = [idChan EXCEPT ![i] = allIds]
        BY <1>3 DEF FetchIDs, storeVars
    <2>2. \A w \in Workers : wk[w].id = None
        <3> SUFFICES ASSUME NEW w \in Workers, wk[w].id # None PROVE FALSE
            OBVIOUS
        <3>1. phase[w[1]] = "running"
            BY <1>0, ZenonT(30) DEF PoolOK
        <3> QED BY <1>0, <1>1, <2>1, <3>1 DEF ExclusiveCycles
    <2>3. PoolOK'
        BY <1>0, <2>1, <2>2 DEF PoolOK
    <2>4. \A j \in Instances : idChan'[j] \subseteq idChan[j] \cup allIds
        BY <1>0, <2>1
    <2>5. CreatesOK'
        BY <1>0, <2>1, <2>4, MonitorCreates
    <2> QED BY <1>0, <2>1, <2>3, <2>5, HashShrinks, ZenonT(30) DEF StepOK
<1>4. ASSUME NEW i \in Instances, CycleDone(i) PROVE StepOK
    <2>1. /\ UNCHANGED <<idChan, wk, streak, hash, allIds>> /\ idChan[i] = {}
          /\ phase' = [phase EXCEPT ![i] = "idle"]
          /\ \A k \in Slots : wk[<<i, k>>].pc = "idle"
        BY <1>4, ZenonT(30) DEF CycleDone, storeVars
    <2>2. ASSUME NEW w \in Workers, w[1] = i PROVE wk[w].id = None
        <3>1. PICK k \in Slots : w = <<i, k>>
            BY <2>2 DEF Workers
        <3>2. wk[w].pc = "idle"
            BY <2>1, <3>1
        <3> QED BY <1>0, <3>2, WorkerIds, ZenonT(30) DEF WorkerFits
    <2>3. PoolOK'
        BY <1>0, <1>1, <2>1, <2>2, ZenonT(30) DEF PoolOK
    <2>4. CreatesOK'
        BY <1>0, <2>1, MonitorCreates
    <2> QED BY <1>0, <2>1, <2>3, <2>4, HashShrinks, Zenon DEF StepOK
<1>5. ASSUME NEW i \in Instances, MonitorCrash(i) PROVE StepOK
    <2>1. /\ UNCHANGED <<streak, hash, allIds>>
          /\ phase' = [phase EXCEPT ![i] = "idle"]
          /\ idChan' = [idChan EXCEPT ![i] = {}]
          /\ wk' = [w \in Workers |-> IF w[1] = i THEN Resting ELSE wk[w]]
        BY <1>5 DEF MonitorCrash
    <2>2. Resting.id = None /\ Resting.pc = "idle"
        BY ZenonT(30) DEF Resting
    <2>3. \A w \in Workers : wk'[w] = IF w[1] = i THEN Resting ELSE wk[w]
        BY <2>1, ZenonT(30)
    <2>4. PoolOK'
        BY <1>0, <1>1, <2>1, <2>2, <2>3 DEF PoolOK
    <2>5. \A j \in Instances : idChan'[j] \subseteq idChan[j] \cup allIds
        BY <1>0, <2>1, ZenonT(30)
    <2>6. CreatesOK'
        BY <1>0, <2>1, <2>2, <2>3, <2>5, MonitorCreates
    <2>7. CountOK' /\ DownOnThreshold
        BY <1>0, <2>1, Zenon DEF CountOK, DownOnThreshold
    <2>8. PendingOK'
        BY <1>0, <2>1, <2>2, <2>3, ZenonT(30) DEF PendingOK, Pending
    <2> QED BY <2>4, <2>6, <2>7, <2>8, Zenon DEF StepOK
<1>6. ASSUME NEW w \in Workers, SkipServer(w) PROVE StepOK
    <2>1. PICK id : /\ UNCHANGED <<phase, wk, streak, hash, allIds>>
                    /\ idChan' = [idChan EXCEPT ![w[1]] = @ \ {id}]
        BY <1>6, Zenon DEF SkipServer, storeVars
    <2>2. \A j \in Instances : idChan'[j] \subseteq idChan[j]
        BY <1>0, <2>1, ZenonT(30)
    <2>3. PoolOK'
        BY <1>0, <1>1, <2>1, <2>2 DEF PoolOK
    <2>4. CreatesOK'
        BY <1>0, <2>1, <2>2, MonitorCreates
    <2> QED BY <1>0, <2>1, <2>3, <2>4, HashShrinks, Zenon DEF StepOK
<1> QED BY <1>2, <1>3, <1>4, <1>5, <1>6, ZenonT(30) DEF CycleStep
-----------------------------------------------------------------------------
(* The workers.                                                            *)

\* A worker goes on with its server, or leaves it
LEMMA WorkerMoves ==
    ASSUME ThresholdInv, UNCHANGED <<req, phase, idChan, allIds>>, NEW w \in Workers, NEW v,
           wk' = [wk EXCEPT ![w] = v], v.id \in {wk[w].id, None}
    PROVE  PoolOK' /\ CreatesOK'
<1>0. TypeInv /\ PoolOK /\ CreatesOK /\ wk \in [Workers -> WorkerLocals]
    BY DEF ThresholdInv, TypeInv, WorkersFit
<1>1. \A u \in Workers : wk'[u].id \in {wk[u].id, None}
    BY <1>0, ZenonT(30)
<1>2. PoolOK'
    BY <1>0, <1>1 DEF PoolOK
<1>3. CreatesOK'
    BY <1>0, <1>1, MonitorCreates
<1> QED BY <1>2, <1>3

\* ... without a write to the hash
LEMMA WorkerReads ==
    ASSUME ThresholdInv, UNCHANGED <<req, phase, idChan, allIds, hash, streak>>,
           NEW w \in Workers, NEW v,
           wk' = [wk EXCEPT ![w] = v], v.id \in {wk[w].id, None}, Pending(v, hash, streak)
    PROVE  StepOK
<1>0. CountOK /\ PendingOK /\ wk \in [Workers -> WorkerLocals]
    BY ZenonT(30) DEF ThresholdInv, TypeInv, WorkersFit
<1>1. CountOK' /\ DownOnThreshold
    BY <1>0 DEF CountOK, DownOnThreshold
<1>2. \A u \in Workers : wk'[u] = IF u = w THEN v ELSE wk[u]
    BY <1>0
<1>3. PendingOK'
    BY <1>0, <1>2 DEF PendingOK
<1> QED BY <1>1, <1>3, WorkerMoves, Zenon DEF StepOK

LEMMA RestReads ==
    ASSUME ThresholdInv, UNCHANGED <<req, phase, idChan, allIds, hash, streak>>,
           NEW w \in Workers, Rest(w)
    PROVE  StepOK
<1>1. Resting.id = None /\ Pending(Resting, hash, streak)
    BY DEF Resting, Pending
<1> QED BY <1>1, WorkerReads, Zenon DEF Rest

LEMMA TakeServerStep ==
    ASSUME ThresholdInv, UNCHANGED req, NEW w \in Workers, TakeServer(w)
    PROVE  StepOK
<1>0. /\ TypeInv /\ PoolOK /\ CreatesOK /\ CountOK /\ PendingOK /\ ExclusiveCycles
      /\ phase \in [Instances -> {"idle", "locked", "running"}]
      /\ idChan \in [Instances -> SUBSET issued]
      /\ wk \in [Workers -> WorkerLocals]
    BY DEF ThresholdInv, CycleInv, TypeInv, CyclesFit, WorkersFit
<1>1. \A u \in Workers : u[1] \in Instances
    BY DEF Workers
<1>2. PICK id \in idChan[w[1]] :
        /\ UNCHANGED <<phase, streak, hash, allIds>>
        /\ idChan' = [idChan EXCEPT ![w[1]] = @ \ {id}]
        /\ \/ wk' = [wk EXCEPT ![w] = [Resting EXCEPT !.pc = "ping", !.id = id]]
           \/ wk' = wk
    BY Zenon DEF TakeServer
<1>3. /\ idChan'[w[1]] = idChan[w[1]] \ {id}
      /\ \A j \in Instances : idChan'[j] \subseteq idChan[j]
    BY <1>0, <1>1, <1>2
<1>4. CASE wk' = wk
    <2>1. PoolOK'
        BY <1>0, <1>1, <1>2, <1>3, <1>4 DEF PoolOK
    <2>2. CreatesOK'
        BY <1>0, <1>2, <1>3, <1>4, MonitorCreates
    <2> QED BY <1>0, <1>2, <1>4, <2>1, <2>2, HashShrinks DEF StepOK
<1>5. CASE wk' = [wk EXCEPT ![w] = [Resting EXCEPT !.pc = "ping", !.id = id]]
    <2>1. PICK v : wk' = [wk EXCEPT ![w] = v] /\ v.id = id /\ v.pc = "ping"
        <3> DEFINE p == [Resting EXCEPT !.pc = "ping", !.id = id]
        <3>1. p.id = id /\ p.pc = "ping"
            BY DEF Resting
        <3>2. wk' = [wk EXCEPT ![w] = p]
            BY <1>5
        <3> HIDE DEF p
        <3> QED BY <3>1, <3>2, Zenon
    <2>2. \A u \in Workers : wk'[u] = IF u = w THEN v ELSE wk[u]
        BY <1>0, <2>1, ZenonT(30)
    <2>3. phase[w[1]] = "running"
        BY <1>0, <1>1, ZenonT(30) DEF PoolOK
    <2>4. ASSUME NEW u \in Workers, wk[u].id # None PROVE wk[u].id # id
        <3>1. phase[u[1]] = "running" /\ wk[u].id \notin idChan[u[1]]
            BY <1>0, <2>4 DEF PoolOK
        <3>2. u[1] = w[1]
            BY <1>0, <1>1, <2>3, <3>1 DEF ExclusiveCycles
        <3> QED BY <3>1, <3>2, ZenonT(30)
    <2>5. id # None
        BY <1>0, <1>1, StoresAssumption DEF TypeInv, StoresFit
    <2>6. \A i \in Instances : phase'[i] # "running" => idChan'[i] = {}
        BY <1>0, <1>2, <1>3, ZenonT(30) DEF PoolOK
    <2>7. ASSUME NEW u \in Workers, wk'[u].id # None
          PROVE  /\ phase'[u[1]] = "running"
                 /\ wk'[u].id \notin idChan'[u[1]]
                 /\ \A t \in Workers : wk'[t].id = wk'[u].id => t = u
        <3>1. CASE u = w
            BY <1>2, <1>3, <2>1, <2>2, <2>3, <2>4, <2>5, <3>1
        <3>2. CASE u # w
            <4>1. wk'[u] = wk[u] /\ wk[u].id # None /\ wk[u].id # id
                BY <2>2, <2>4, <2>7, <3>2, ZenonT(30)
            <4>2. /\ phase[u[1]] = "running" /\ wk[u].id \notin idChan[u[1]]
                  /\ \A t \in Workers : wk[t].id = wk[u].id => t = u
                BY <1>0, <4>1, ZenonT(30) DEF PoolOK
            <4>3. phase'[u[1]] = "running" /\ wk'[u].id \notin idChan'[u[1]]
                BY <1>1, <1>2, <1>3, <4>1, <4>2
            <4>4. ASSUME NEW t \in Workers, wk'[t].id = wk'[u].id PROVE t = u
                BY <2>1, <2>2, <4>1, <4>2, <4>4, ZenonT(30)
            <4> QED BY <4>3, <4>4, ZenonT(30)
        <3> QED BY <3>1, <3>2
    <2>8. PoolOK'
        BY <2>6, <2>7 DEF PoolOK
    <2>9. CreatesOK'
        BY <1>0, <1>2, <1>3, <2>1, <2>2, MonitorCreates
    <2>10. CountOK' /\ DownOnThreshold
        BY <1>0, <1>2 DEF CountOK, DownOnThreshold
    <2>11. PendingOK'
        BY <1>0, <1>2, <2>1, <2>2 DEF PendingOK, Pending
    <2> QED BY <2>8, <2>9, <2>10, <2>11 DEF StepOK
<1> QED BY <1>2, <1>4, <1>5, ZenonT(30)

LEMMA PingStep ==
    ASSUME ThresholdInv, UNCHANGED req, NEW w \in Workers, NEW ok \in BOOLEAN, Ping(w, ok)
    PROVE  StepOK
<1> DEFINE v == [wk[w] EXCEPT !.pc = "get", !.ok = ok]
<1>1. wk' = [wk EXCEPT ![w] = v] /\ UNCHANGED <<req, phase, idChan, allIds, hash, streak>>
    BY DEF Ping, storeVars
<1>2. v.id = wk[w].id /\ v.pc = "get"
    BY DEF ThresholdInv, TypeInv, WorkersFit, WorkerLocals
<1> HIDE DEF v
<1>3. Pending(v, hash, streak)
    BY <1>2 DEF Pending
<1> QED BY <1>1, <1>2, <1>3, WorkerReads, Zenon

LEMMA NextStateCounts ==
    ASSUME NEW status \in Status, NEW retry \in Nat, NEW ok \in BOOLEAN, NEW n \in Nat,
           status = "ONLINE" => retry <= n
    PROVE  LET next == NextState(status, retry, ok)
           IN  /\ ok => next.status = "ONLINE" /\ next.retry = 0
               /\ ~ok /\ next.status = "ONLINE" => next.retry <= n + 1 /\ next.retry <= Threshold
               /\ ~ok /\ next.status = "OFFLINE" /\ status = "ONLINE" => n + 1 >= Threshold
<1>1. CASE ok
    BY <1>1 DEF NextState
<1>2. CASE ~ok /\ status = "ONLINE"
    BY <1>2, MonitoringAssumption DEF NextState
<1>3. CASE ~ok /\ status = "OFFLINE"
    BY <1>3 DEF NextState
<1> QED BY <1>1, <1>2, <1>3 DEF Status

LEMMA GetServerStateStep ==
    ASSUME ThresholdInv, UNCHANGED req, NEW w \in Workers, GetServerState(w)
    PROVE  StepOK
<1>0. TypeInv /\ CountOK /\ wk[w] \in WorkerLocals /\ wk[w].pc = "get"
      /\ UNCHANGED <<req, phase, idChan, allIds, hash, streak>>
    BY ZenonT(30) DEF ThresholdInv, TypeInv, WorkersFit, GetServerState
<1>1. CASE wk[w].id \notin DOMAIN hash
    <2>1. Rest(w)
        BY <1>1, Zenon DEF GetServerState
    <2> QED BY <1>0, <2>1, RestReads
<1>2. CASE wk[w].id \in DOMAIN hash
    <2>1. PICK id \in DOMAIN hash : id = wk[w].id
        BY <1>2, ZenonT(30)
    <2>2. hash[id].status \in Status /\ hash[id].retry \in Nat /\ streak[id] \in Nat
        <3>1. hash[id] \in Hash
            BY <1>0, ZenonT(30) DEF TypeInv, StoresFit, HashFit
        <3>2. streak \in [Servers -> 0..Threshold] /\ id \in Servers
            BY <1>0, ZenonT(30) DEF TypeInv, CyclesFit, StoresFit, HashFit
        <3> QED BY <3>1, <3>2, StreakIsNat DEF Hash
    <2>3. PICK next : next = NextState(hash[id].status, hash[id].retry, wk[w].ok)
        BY Zenon
    <2>4. PICK pg : wk' = [wk EXCEPT ![w] = [wk[w] EXCEPT !.pc = "set", !.status = next.status,
                                                          !.retry = next.retry, !.pg = pg]]
        BY <1>2, <2>1, <2>3, Zenon DEF GetServerState
    <2> DEFINE v == [wk[w] EXCEPT !.pc = "set", !.status = next.status, !.retry = next.retry, !.pg = pg]
    <2>5. v.id = id /\ v.status = next.status /\ v.retry = next.retry /\ v.ok = wk[w].ok
        BY <1>0, <2>1 DEF WorkerLocals
    <2>6. wk' = [wk EXCEPT ![w] = v]
        BY <2>4, ZenonT(30)
    <2> HIDE DEF v
    <2>7. hash[id].status = "ONLINE" => hash[id].retry <= streak[id]
        BY <1>0, ZenonT(30) DEF CountOK
    <2>8. wk[w].ok \in BOOLEAN
        BY <1>0, Zenon DEF WorkerLocals
    <2>9. /\ v.ok => v.status = "ONLINE" /\ v.retry = 0
          /\ ~v.ok /\ v.status = "ONLINE" => v.retry <= streak[id] + 1 /\ v.retry <= Threshold
          /\ ~v.ok /\ v.status = "OFFLINE" /\ hash[id].status = "ONLINE" => streak[id] + 1 >= Threshold
        BY <2>2, <2>3, <2>5, <2>7, <2>8, NextStateCounts, ZenonT(30)
    <2>10. Pending(v, hash, streak)
        BY <2>5, <2>9, ZenonT(30) DEF Pending
    <2> QED BY <1>0, <2>1, <2>5, <2>6, <2>10, WorkerReads, Zenon
<1> QED BY <1>1, <1>2

\* The write of Evaluate: nobody touched the server since the read
LEMMA SetStateStep ==
    ASSUME ThresholdInv, UNCHANGED req, NEW w \in Workers, SetState(w)
    PROVE  StepOK
<1>0. /\ TypeInv /\ PoolOK /\ CountOK /\ PendingOK /\ wk \in [Workers -> WorkerLocals]
      /\ wk[w].pc = "set" /\ UNCHANGED <<req, phase, idChan, allIds>>
      /\ streak \in [Servers -> 0..Threshold]
    BY DEF ThresholdInv, TypeInv, WorkersFit, CyclesFit, SetState
<1>1. PICK id \in Servers : id = wk[w].id /\ id # None
    BY <1>0, WorkerIds, StoresAssumption, ZenonT(30)
<1>2. PICK v : wk' = [wk EXCEPT ![w] = v] /\ v.id \in {id, None} /\ v.pc # "set"
    <2>1. CASE wk[w].pg
        <3> DEFINE p == [wk[w] EXCEPT !.pc = "pg"]
        <3>1. wk' = [wk EXCEPT ![w] = p]
            BY <2>1 DEF SetState
        <3>2. p.id = id /\ p.pc = "pg"
            BY <1>0, <1>1 DEF WorkerLocals
        <3> HIDE DEF p
        <3> QED BY <3>1, <3>2, Zenon
    <2>2. CASE ~wk[w].pg
        <3>1. wk' = [wk EXCEPT ![w] = Resting]
            BY <2>2, ZenonT(30) DEF SetState, Rest
        <3>2. Resting.id = None /\ Resting.pc = "idle"
            BY DEF Resting
        <3> QED BY <3>1, <3>2, Zenon
    <2> QED BY <2>1, <2>2
<1>3. PoolOK' /\ CreatesOK'
    BY <1>0, <1>1, <1>2, WorkerMoves, Zenon
<1>4. /\ DOMAIN hash' = DOMAIN hash \cup {id}
      /\ hash'[id].status = wk[w].status /\ hash'[id].retry = wk[w].retry
      /\ \A x \in DOMAIN hash : x # id => hash'[x] = hash[x]
    BY <1>1 DEF SetState, SetServerState, CacheHSet, Put
<1>5. /\ streak' = [streak EXCEPT ![id] = IF wk[w].ok THEN 0
                                          ELSE IF streak[id] < Threshold THEN streak[id] + 1 ELSE streak[id]]
      /\ streak[id] \in 0..Threshold
    BY <1>0, <1>1 DEF SetState
<1>6. \A x \in Servers : x # id => streak'[x] = streak[x]
    BY <1>0, <1>5
<1>7. Pending(wk[w], hash, streak)
    BY <1>0, ZenonT(30) DEF PendingOK
<1>8. /\ wk[w].ok => wk[w].status = "ONLINE" /\ wk[w].retry = 0 /\ streak'[id] = 0
      /\ ~wk[w].ok /\ wk[w].status = "ONLINE" => wk[w].retry <= streak'[id]
      /\ wk[w].status = "OFFLINE" /\ id \in DOMAIN hash /\ hash[id].status = "ONLINE"
           => streak'[id] = Threshold
    <2>1. wk[w].retry \in Nat
        BY <1>0, Zenon DEF WorkerLocals
    <2>2. CASE wk[w].ok
        BY <1>0, <1>1, <1>5, <1>7, <2>2, ZenonT(30) DEF Pending
    <2>3. CASE ~wk[w].ok
        <3>1. streak'[id] = IF streak[id] < Threshold THEN streak[id] + 1 ELSE streak[id]
            BY <1>0, <1>5, <2>3
        <3>2. /\ wk[w].status = "ONLINE" => wk[w].retry <= streak[id] + 1 /\ wk[w].retry <= Threshold
              /\ wk[w].status = "OFFLINE" /\ id \in DOMAIN hash /\ hash[id].status = "ONLINE"
                   => streak[id] + 1 >= Threshold
            BY <1>0, <1>1, <1>7, <2>3, Zenon DEF Pending
        <3> QED BY <1>5, <2>1, <2>3, <3>1, <3>2, NextCount, Zenon
    <2> QED BY <2>2, <2>3
<1>9. DOMAIN hash \subseteq Servers
    BY <1>0, Zenon DEF TypeInv, StoresFit, HashFit
<1>10. CountOK'
    <2>1. ASSUME NEW x \in DOMAIN hash', x # id, hash'[x].status = "ONLINE"
          PROVE  hash'[x].retry <= streak'[x]
        BY <1>0, <1>4, <1>6, <1>9, <2>1, ZenonT(30) DEF CountOK
    <2>2. hash'[id].status = "ONLINE" => hash'[id].retry <= streak'[id]
        BY <1>4, <1>8
    <2> QED BY <2>1, <2>2, ZenonT(30) DEF CountOK
<1>11. DownOnThreshold
    BY <1>4, <1>8, Zenon DEF DownOnThreshold
<1>12. PendingOK'
    <2> SUFFICES ASSUME NEW u \in Workers, wk'[u].pc = "set" PROVE Pending(wk'[u], hash', streak')
        BY DEF PendingOK, Pending
    <2>1. u # w /\ wk'[u] = wk[u] /\ wk[u].pc = "set"
        BY <1>0, <1>2, Zenon
    <2>2. wk[u].id # id /\ wk[u].id \in Servers
        BY <1>0, <1>1, <2>1, WorkerIds, Zenon DEF PoolOK
    <2>3. Pending(wk[u], hash, streak)
        BY <1>0, ZenonT(30) DEF PendingOK
    <2> QED BY <1>4, <1>6, <2>1, <2>2, <2>3, Zenon DEF Pending
<1> QED BY <1>3, <1>10, <1>11, <1>12 DEF StepOK

LEMMA WorkerSteps ==
    ASSUME ThresholdInv, UNCHANGED req, NEW w \in Workers,
           WorkerStep(w) \/ EvaluateRedisError(w) \/ EvaluateDBError(w)
    PROVE  StepOK
<1>1. CASE WritePostgres(w) \/ EvaluateRedisError(w) \/ EvaluateDBError(w)
    BY <1>1, RestReads, Zenon DEF WritePostgres, EvaluateRedisError, EvaluateDBError
<1> QED BY <1>1, TakeServerStep, PingStep, GetServerStateStep, SetStateStep, Zenon DEF WorkerStep
-----------------------------------------------------------------------------
LEMMA NextStepOK ==
    ASSUME "update" \notin Operations, ThresholdInv, [Next]_vars
    PROVE  StepOK
<1>1. CASE MgmtNext /\ UNCHANGED monOwnVars
    BY <1>1, ManagementStep
<1>2. CASE MonNext /\ UNCHANGED req
    BY <1>2, CycleSteps, WorkerSteps DEF MonNext
<1>3. CASE UNCHANGED vars
    <2>1. PoolOK'
        BY <1>3, Zenon DEF ThresholdInv, PoolOK, vars
    <2>2. CreatesOK'
        BY <1>3, ZenonT(30) DEF ThresholdInv, CreatesOK, vars
    <2> QED BY <1>3, <2>1, <2>2, HashShrinks, Zenon DEF StepOK, ThresholdInv, vars
<1> QED BY <1>1, <1>2, <1>3 DEF Next

LEMMA InitThresholdInv == Init => ThresholdInv
<1> SUFFICES ASSUME Init PROVE ThresholdInv
    OBVIOUS
<1>1. \A w \in Workers : wk[w].id = None /\ wk[w].pc = "idle"
    BY DEF Init, MonInit, Resting
<1>2. \A r \in Requests : req[r].pc = "idle"
    BY DEF Init, MgmtInit, Idle
<1>3. PoolOK
    BY <1>1, Zenon DEF Init, MonInit, PoolOK
<1>4. CreatesOK
    BY <1>2 DEF CreatesOK, Upserting
<1>5. CountOK
    BY Zenon DEF Init, StoresInit, CountOK
<1>6. PendingOK
    BY <1>1 DEF PendingOK, Pending
<1> QED BY <1>3, <1>4, <1>5, <1>6, InitTypeInv, InitCycleInv, ZenonT(30) DEF ThresholdInv

(* While no cycle outlives the lock's TTL and clients do not update        *)
(* servers, a server goes from ONLINE to OFFLINE in Redis only on the      *)
(* Threshold-th failed ping in a row (monitoring_service.go:65-71), with   *)
(* any number of monitoring processes and workers, through deletions       *)
(* between the read and the write of Evaluate, failed Redis calls and      *)
(* crashes.  Without the conditions an update puts an old counter back     *)
(* (the run stale_counter), and two cycles ping a server at once (the run  *)
(* lock_expiry), so that one writes what it computed before the other's.   *)
THEOREM OfflineNeedsThresholdHolds ==
    ASSUME ~CycleMayOutliveLock, "update" \notin Operations
    PROVE  Spec => OfflineNeedsThreshold
<1>1. ThresholdInv /\ [Next]_vars => ThresholdInv' /\ DownOnThreshold
    <2> SUFFICES ASSUME ThresholdInv, [Next]_vars PROVE ThresholdInv' /\ DownOnThreshold
        OBVIOUS
    <2>1. StepOK
        BY NextStepOK
    <2>2. TypeInv' /\ CycleInv'
        BY NextTypeInv, NextCycleInv DEF ThresholdInv
    <2> QED BY <2>1, <2>2 DEF StepOK, ThresholdInv
<1>2. DownOnThreshold => [\A id \in DOMAIN hash \cap DOMAIN hash' :
          hash[id].status = "ONLINE" /\ hash'[id].status = "OFFLINE"
          => streak'[id] = Threshold]_<<hash, streak>>
    BY DEF DownOnThreshold
<1> QED
    BY <1>1, <1>2, InitThresholdInv, PTL DEF Spec, OfflineNeedsThreshold
=============================================================================

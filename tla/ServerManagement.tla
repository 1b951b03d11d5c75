-------------------------- MODULE ServerManagement --------------------------
(***************************************************************************)
(* The write path of the server-management service: CreateServer,          *)
(* UpdateServer and DeleteServer, each run by a goroutine of the API       *)
(* server.  One action is one call to PostgreSQL or Redis together with    *)
(* the local code up to the next call.                                     *)
(***************************************************************************)
EXTENDS ServerStores

CONSTANTS
    Requests,       \* goroutines serving server-management calls
    Operations,     \* the operations clients call, of "create", "update", "delete"
    DBMayFail,      \* a PostgreSQL call of a request may return an error
    RedisMayFail,   \* a Redis call of a request may return an error
    APIMayCrash     \* the API process may die and restart

ASSUME ManagementAssumption ==
    /\ Operations \subseteq {"create", "update", "delete"}
    /\ {DBMayFail, RedisMayFail, APIMayCrash} \subseteq BOOLEAN

VARIABLE req    \* req[r]: the local variables of goroutine r

mgmtVars == <<rows, hash, allIds, issued, users, disturbed, req>>

\* pc names the call to make next; checks are the uniqueness reads still to
\* do before the write; the other fields are the *domain.Server being built.
Locals == [pc: {"idle", "create", "update", "delete", "hset", "sadd", "del", "srem"},
           checks: SUBSET {"name", "ipv4"},
           id: Servers \cup {None}, name: Names \cup {None}, ipv4: IPs \cup {None},
           status: Status \cup {None}, failures: Nat]

Idle == [pc |-> "idle", checks |-> {}, id |-> None, name |-> None,
         ipv4 |-> None, status |-> None, failures |-> 0]

MgmtInit == req = [r \in Requests |-> Idle]

Return(r) == req' = [req EXCEPT ![r] = Idle]

Goto(r, pc) == req' = [req EXCEPT ![r].pc = pc]
-----------------------------------------------------------------------------
\* Bound: no more concurrent creations than ids are left.
IdsLeft ==
    Cardinality({r \in Requests : req[r].pc = "create"}) < Cardinality(Servers \ issued)

\* CreateServer is called
CreateServer(r, name, ipv4) ==
    /\ "create" \in Operations
    /\ req[r].pc = "idle"
    /\ IdsLeft
    /\ req' = [req EXCEPT ![r] = [Idle EXCEPT !.pc = "create",
                                              !.checks = {"name", "ipv4"},
                                              !.name = name, !.ipv4 = ipv4]]
    /\ UNCHANGED storeVars

\* UpdateServer reads the row; the reads of the name and of the address are
\* made only for what the caller changes.
UpdateServer(r, id, name, ipv4) ==
    /\ "update" \in Operations
    /\ req[r].pc = "idle"
    /\ id \in DOMAIN rows       \* otherwise ErrServerNotFound
    /\ req' = [req EXCEPT ![r] =
                [pc |-> "update", id |-> id, name |-> name, ipv4 |-> ipv4,
                 checks |-> (IF name # rows[id].name THEN {"name"} ELSE {}) \cup
                            (IF ipv4 # rows[id].ipv4 THEN {"ipv4"} ELSE {}),
                 status |-> rows[id].status, failures |-> rows[id].failures]]
    /\ Enter(r, id)
    /\ UNCHANGED <<rows, hash, allIds, issued>>

DeleteServer(r, id) ==
    /\ "delete" \in Operations
    /\ req[r].pc = "idle"
    /\ id \in DOMAIN rows       \* otherwise ErrServerNotFound
    /\ req' = [req EXCEPT ![r] = [Idle EXCEPT !.pc = "delete", !.id = id]]
    /\ Enter(r, id)
    /\ UNCHANGED <<rows, hash, allIds, issued>>

\* What a request leaves behind when it returns before any write
LeaveUnwritten(r) ==
    IF req[r].id = None THEN UNCHANGED <<users, disturbed>> ELSE Leave(r, req[r].id)

\* GetByName, first of the two checks; ErrNameExists
CheckName(r) ==
    /\ req[r].pc \in {"create", "update"}
    /\ "name" \in req[r].checks
    /\ IF NameTaken(req[r].name, req[r].id)
       THEN Return(r) /\ LeaveUnwritten(r)
       ELSE /\ req' = [req EXCEPT ![r].checks = @ \ {"name"}]
            /\ UNCHANGED <<users, disturbed>>
    /\ UNCHANGED <<rows, hash, allIds, issued>>

\* GetByIPv4; ErrIPv4Exists
CheckIPv4(r) ==
    /\ req[r].pc \in {"create", "update"}
    /\ req[r].checks = {"ipv4"}
    /\ IF IPv4Taken(req[r].ipv4, req[r].id)
       THEN Return(r) /\ LeaveUnwritten(r)
       ELSE /\ req' = [req EXCEPT ![r].checks = {}]
            /\ UNCHANGED <<users, disturbed>>
    /\ UNCHANGED <<rows, hash, allIds, issued>>
-----------------------------------------------------------------------------
\* repo.Create stores the row under a new id, or hits a unique index
CreateRow(r) ==
    /\ req[r].pc = "create"
    /\ req[r].checks = {}
    /\ IF UniqueIndexes(None, req[r].name, req[r].ipv4)
       THEN \E id \in Servers \ issued :
              /\ Insert(id, req[r].name, req[r].ipv4)
              /\ Enter(r, id)
              /\ req' = [req EXCEPT ![r] = [@ EXCEPT !.pc = "hset", !.id = id, !.status = "ONLINE"]]
       ELSE /\ Return(r)
            /\ UNCHANGED <<rows, issued, users, disturbed>>
    /\ UNCHANGED <<hash, allIds>>

\* Mutant: Save instead of Updates, which inserts a row that is not there
SaveServerRow(r) ==
    LET q == req[r]
    IN  /\ q.pc = "update"
        /\ q.checks = {}
        /\ IF UniqueIndexes(q.id, q.name, q.ipv4)
           THEN /\ UpdateRow(q.id, [name |-> q.name, ipv4 |-> q.ipv4,
                                    status |-> q.status, failures |-> q.failures])
                /\ Settle(r, q.id)
                /\ Goto(r, "hset")
                /\ UNCHANGED users
           ELSE Return(r) /\ Leave(r, q.id) /\ UNCHANGED rows
        /\ UNCHANGED <<hash, allIds, issued>>

\* repo.Update writes the four columns, status and failures as they were
\* read; a row that is gone is ErrNotFound, a unique index an error
UpdateServerRow(r) ==
    LET q == req[r]
    IN  /\ q.pc = "update"
        /\ q.checks = {}
        /\ IF q.id \in DOMAIN rows /\ UniqueIndexes(q.id, q.name, q.ipv4)
           THEN /\ UpdateRow(q.id, [name |-> q.name, ipv4 |-> q.ipv4,
                                    status |-> q.status, failures |-> q.failures])
                /\ Settle(r, q.id)
                /\ Goto(r, "hset")
                /\ UNCHANGED users
           ELSE Return(r) /\ Leave(r, q.id) /\ UNCHANGED rows
        /\ UNCHANGED <<hash, allIds, issued>>

\* repo.Delete; a row that is gone is ErrServerNotFound
DeleteServerRow(r) ==
    LET id == req[r].id
    IN  /\ req[r].pc = "delete"
        /\ IF id \in DOMAIN rows
           THEN /\ DeleteRow(id)
                /\ Settle(r, id)
                /\ Goto(r, "del")
                /\ UNCHANGED users
           ELSE Return(r) /\ Leave(r, id) /\ UNCHANGED rows
        /\ UNCHANGED <<hash, allIds, issued>>
-----------------------------------------------------------------------------
\* Mutant: the HSET leaves the address out
UpsertWithoutAddress(r) ==
    /\ req[r].pc = "hset"
    /\ SetServerState(req[r].id, req[r].status, req[r].failures)
    /\ Goto(r, "sadd")
    /\ UNCHANGED <<rows, allIds, issued, users, disturbed>>

\* Mutant: the SADD is missing
UpsertWithoutSAdd(r) ==
    /\ req[r].pc = "sadd"
    /\ Return(r)
    /\ Leave(r, req[r].id)
    /\ UNCHANGED <<rows, hash, allIds, issued>>

\* cache.Upsert: HSET, then SADD
UpsertHSet(r) ==
    /\ req[r].pc = "hset"
    /\ CacheHSet(req[r].id, req[r].ipv4, req[r].status, req[r].failures)
    /\ Goto(r, "sadd")
    /\ UNCHANGED <<rows, allIds, issued, users, disturbed>>

UpsertSAdd(r) ==
    /\ req[r].pc = "sadd"
    /\ allIds' = allIds \cup {req[r].id}
    /\ Return(r)
    /\ Leave(r, req[r].id)
    /\ UNCHANGED <<rows, hash, issued>>

\* cache.Delete: DEL, then SREM
CacheDel(r) ==
    /\ req[r].pc = "del"
    /\ hash' = Drop(hash, req[r].id)
    /\ Goto(r, "srem")
    /\ UNCHANGED <<rows, allIds, issued, users, disturbed>>

CacheSRem(r) ==
    /\ req[r].pc = "srem"
    /\ allIds' = allIds \ {req[r].id}
    /\ Return(r)
    /\ Leave(r, req[r].id)
    /\ UNCHANGED <<rows, hash, issued>>
-----------------------------------------------------------------------------
\* A read or write of PostgreSQL returns an error: the request ends with it
DBError(r) ==
    /\ DBMayFail
    /\ req[r].pc \in {"create", "update", "delete"}
    /\ Return(r)
    /\ LeaveUnwritten(r)
    /\ UNCHANGED <<rows, hash, allIds, issued>>

\* A Redis command returns an error: it is logged, the rest of the cache
\* update is skipped and the caller is told the operation succeeded
RedisError(r) ==
    /\ RedisMayFail
    /\ req[r].pc \in {"hset", "sadd", "del", "srem"}
    /\ Return(r)
    /\ LeaveTorn(r, req[r].id)
    /\ UNCHANGED <<rows, hash, allIds, issued>>

\* The API process dies with all its goroutines; nothing is replayed
APICrash ==
    /\ APIMayCrash
    /\ \E r \in Requests : req[r].pc # "idle"
    /\ req' = [r \in Requests |-> Idle]
    /\ users' = [id \in Servers |-> users[id] \ Requests]
    /\ disturbed' = disturbed \cup
         {req[r].id : r \in {q \in Requests : req[q].pc \in {"hset", "sadd", "del", "srem"}}}
    /\ UNCHANGED <<rows, hash, allIds, issued>>

RequestStep(r) ==
    \/ CheckName(r) \/ CheckIPv4(r)
    \/ CreateRow(r) \/ UpdateServerRow(r) \/ DeleteServerRow(r)
    \/ UpsertHSet(r) \/ UpsertSAdd(r) \/ CacheDel(r) \/ CacheSRem(r)

MgmtNext ==
    \/ \E r \in Requests :
         \/ \E name \in Names, ipv4 \in IPs : CreateServer(r, name, ipv4)
         \/ \E id \in Servers, name \in Names, ipv4 \in IPs : UpdateServer(r, id, name, ipv4)
         \/ \E id \in Servers : DeleteServer(r, id)
         \/ RequestStep(r)
         \/ DBError(r)
         \/ RedisError(r)
    \/ APICrash

MgmtSpec == StoresInit /\ MgmtInit /\ [][MgmtNext]_mgmtVars

MgmtTypeOK == req \in [Requests -> Locals]
=============================================================================

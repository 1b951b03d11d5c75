---------------------------- MODULE ServerStores ----------------------------
(***************************************************************************)
(* The two stores that hold a server: its row in PostgreSQL (the source of *)
(* truth) and its copy in Redis, a hash server:info:{id} and the set       *)
(* server:all_ids the monitoring cycle starts from.  Every operator below  *)
(* is ONE database statement or ONE Redis command: the services that use   *)
(* them never open a transaction, so other actors run between any two.     *)
(*                                                                         *)
(* users and disturbed are history variables: no program reads them.       *)
(* users[id] is the set of actors (API requests, ping workers) between     *)
(* their first and their last access to server id.  disturbed is the set   *)
(* of servers whose actors overlapped, or were cut short by an error or a  *)
(* crash, since the last write to the row made by an actor that was alone. *)
(***************************************************************************)
EXTENDS Integers, FiniteSets, Functions

CONSTANTS
    Servers,    \* the ids gen_random_uuid() can return (bounds the creations)
    Names,      \* server names
    IPs,        \* IPv4 addresses
    None        \* an absent id, name, address or status

ASSUME StoresAssumption ==
    /\ None \notin Servers
    /\ None \notin Names
    /\ None \notin IPs

VARIABLES
    rows,       \* management_schema.servers: a function on the stored ids
    hash,       \* server:info:{id}: a function on the ids that have a hash
    allIds,     \* server:all_ids
    issued,     \* ids already generated: a uuid is never generated twice
    users,      \* history: actors at work on each server
    disturbed   \* history: servers whose copy may differ from their row

storeVars == <<rows, hash, allIds, issued, users, disturbed>>

Status == {"ONLINE", "OFFLINE"}

\* domain.Server, the columns the services read or write
Row == [name: Names, ipv4: IPs, status: Status, failures: Nat]

\* A hash written by SetServerState alone has no ipv4 field (None here).
Hash == [ipv4: IPs \cup {None}, status: Status, retry: Nat]

StoresInit ==
    /\ rows = [id \in {} |-> None]
    /\ hash = [id \in {} |-> None]
    /\ allIds = {}
    /\ issued = {}
    /\ users = [id \in Servers |-> {}]
    /\ disturbed = {}

Put(f, k, v) == [x \in DOMAIN f \cup {k} |-> IF x = k THEN v ELSE f[x]]

Drop(f, k) == Restrict(f, DOMAIN f \ {k})
-----------------------------------------------------------------------------
(* PostgreSQL: GormServerRepository and gormMonitoringRepository *)

\* GetByName / GetByIPv4 find a row other than id
NameTaken(name, id) == \E x \in DOMAIN rows \ {id} : rows[x].name = name

IPv4Taken(ipv4, id) == \E x \in DOMAIN rows \ {id} : rows[x].ipv4 = ipv4

\* Mutant: the table has no unique indexes
NoUniqueIndexes(id, name, ipv4) == TRUE

\* The unique indexes reject a statement that would store a second row with
\* the name or the address.
UniqueIndexes(id, name, ipv4) == ~NameTaken(name, id) /\ ~IPv4Taken(ipv4, id)

\* Mutant: the status column has no default
InsertWithoutDefault(id, name, ipv4) ==
    /\ rows' = Put(rows, id, [name |-> name, ipv4 |-> ipv4,
                              status |-> None, failures |-> 0])
    /\ issued' = issued \cup {id}

\* repo.Create: the columns that were not given take their defaults
Insert(id, name, ipv4) ==
    /\ rows' = Put(rows, id, [name |-> name, ipv4 |-> ipv4,
                              status |-> "ONLINE", failures |-> 0])
    /\ issued' = issued \cup {id}

\* repo.Update: all four selected columns
UpdateRow(id, row) == rows' = Put(rows, id, row)

DeleteRow(id) == rows' = Drop(rows, id)

\* UpdateServerStatus: no error when the row is gone
UpdateServerStatus(id, status, failures) ==
    rows' = IF id \in DOMAIN rows
            THEN [rows EXCEPT ![id] = [@ EXCEPT !.status = status, !.failures = failures]]
            ELSE rows
-----------------------------------------------------------------------------
(* Redis: ServerCache and RedisServerStateStore *)

\* The HSET of Upsert and BatchUpsert
CacheHSet(id, ipv4, status, retry) ==
    hash' = Put(hash, id, [ipv4 |-> ipv4, status |-> status, retry |-> retry])

\* The HSET of SetServerState: the other field keeps its value
SetServerState(id, status, retry) ==
    LET ipv4 == IF id \in DOMAIN hash THEN hash[id].ipv4 ELSE None
    IN  CacheHSet(id, ipv4, status, retry)
-----------------------------------------------------------------------------
(* History bookkeeping *)

Alone(a, id) == users[id] \subseteq {a}

\* a makes its first access to id
Enter(a, id) ==
    /\ users' = [users EXCEPT ![id] = @ \cup {a}]
    /\ disturbed' = IF Alone(a, id) THEN disturbed ELSE disturbed \cup {id}

\* a has made its last access to id
Leave(a, id) ==
    /\ users' = [users EXCEPT ![id] = @ \ {a}]
    /\ UNCHANGED disturbed

\* a stops between two writes that belong together
LeaveTorn(a, id) ==
    /\ users' = [users EXCEPT ![id] = @ \ {a}]
    /\ disturbed' = disturbed \cup {id}

\* a writes the row of id; what it writes next to Redis is what it wrote here
Settle(a, id) ==
    disturbed' = IF Alone(a, id) THEN disturbed \ {id} ELSE disturbed \cup {id}
-----------------------------------------------------------------------------
StoresTypeOK(Actors) ==
    /\ DOMAIN rows \subseteq issued
    /\ \A id \in DOMAIN rows : rows[id] \in Row
    /\ DOMAIN hash \subseteq issued
    /\ \A id \in DOMAIN hash : hash[id] \in Hash
    /\ allIds \subseteq issued
    /\ issued \subseteq Servers
    /\ users \in [Servers -> SUBSET Actors]
    /\ disturbed \subseteq Servers

(* The unique indexes on server_name and ipv4 hold whatever the services   *)
(* checked before they wrote (domain/server.go:24-25): two requests that   *)
(* both passed GetByName and GetByIPv4 cannot both store the value.        *)
UniqueServers ==
    \A x, y \in DOMAIN rows :
        x # y => rows[x].name # rows[y].name /\ rows[x].ipv4 # rows[y].ipv4

(* What the dual write promises for one server: it is in server:all_ids    *)
(* exactly when it has a row, its hash has the row's address and status,   *)
(* and while it is ONLINE the counter in Redis is the row's, or zero       *)
(* because a successful ping reset Redis and not PostgreSQL.               *)
InSync(id) ==
    /\ id \in DOMAIN rows <=> id \in allIds
    /\ id \in DOMAIN rows =>
         /\ id \in DOMAIN hash
         /\ hash[id].ipv4 = rows[id].ipv4
         /\ hash[id].status = rows[id].status
         /\ rows[id].status = "ONLINE" => hash[id].retry \in {0, rows[id].failures}

(* Redis and PostgreSQL disagree about a server only while an actor is at  *)
(* work on it, or after two actors overlapped on it or an error or crash   *)
(* cut a dual write short (server_service.go:80-90, 129-139, 156-169 and   *)
(* monitoring_service.go:78-100): a single dual write, in the order the    *)
(* code does it, always ends in agreement, and repairs an earlier          *)
(* disagreement.                                                           *)
UndisturbedInSync ==
    \A id \in issued \ disturbed : users[id] = {} => InSync(id)

(* The claim of docs/ARCHITECTURE.md:417, "This ensures the Monitoring      *)
(* Worker always reads the freshest data": when nobody is at work on a     *)
(* server, the address the worker will read is the address of its row.     *)
FreshestAddress ==
    \A id \in issued : users[id] = {} =>
        /\ id \in DOMAIN rows <=> id \in allIds
        /\ id \in DOMAIN rows \cap DOMAIN hash => hash[id].ipv4 = rows[id].ipv4

(* A deleted server never gets a row again: an UPDATE that lost the race   *)
(* with the DELETE affects no row (server_repository_impl.go:87-93,        *)
(* monitoring_repository_impl.go:22-29).                                   *)
DeletedStaysDeleted ==
    [][\A id \in issued \ DOMAIN rows : id \notin DOMAIN rows']_storeVars
=============================================================================

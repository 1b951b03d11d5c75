----------------------------- MODULE Monitoring -----------------------------
(***************************************************************************)
(* The monitoring worker: instances of cmd/monitoring-worker that take the *)
(* Redis lock, read server:all_ids and hand the ids to a pool of workers;  *)
(* a worker reads the address of a server, pings it and evaluates the      *)
(* ONLINE/OFFLINE state machine, in Redis first and then in PostgreSQL.    *)
(* One action is one Redis or PostgreSQL call, or one ping.                *)
(***************************************************************************)
EXTENDS ServerStores

CONSTANTS
    Instances,              \* running monitoring-worker processes
    Slots,                  \* goroutines of one pool (worker concurrency)
    Threshold,              \* failureThreshold
    MaxRetry,               \* bound: the counter of an OFFLINE server saturates here
    CycleMayOutliveLock,    \* a cycle may take longer than the lock's TTL
    MonDBMayFail,           \* UpdateServerStatus may return an error
    MonRedisMayFail,        \* a Redis call of the monitor may return an error
    MonMayCrash             \* an instance may die and restart

ASSUME MonitoringAssumption ==
    /\ Threshold \in Nat \ {0}
    /\ MaxRetry \in Nat /\ Threshold <= MaxRetry
    /\ {CycleMayOutliveLock, MonDBMayFail, MonRedisMayFail, MonMayCrash} \subseteq BOOLEAN

Workers == Instances \X Slots

VARIABLES
    lock,       \* the key lock:monitoring_worker exists
    phase,      \* phase[i]: where runCycle of instance i is
    idChan,     \* idChan[i]: ids its workers have still to receive
    wk,         \* wk[w]: the local variables of worker w
    streak      \* history: failed pings in a row, as applied to Redis, up to Threshold

monOwnVars == <<lock, phase, idChan, wk, streak>>

monVars == <<rows, hash, allIds, issued, users, disturbed, lock, phase, idChan, wk, streak>>

\* status and retry are what Evaluate writes, pg whether PostgreSQL is next
WorkerLocals == [pc: {"idle", "ping", "get", "set", "pg"}, id: Servers \cup {None},
                 ok: BOOLEAN, status: Status, retry: Nat, pg: BOOLEAN]

Resting == [pc |-> "idle", id |-> None, ok |-> FALSE,
            status |-> "ONLINE", retry |-> 0, pg |-> FALSE]

MonInit ==
    /\ lock = FALSE
    /\ phase = [i \in Instances |-> "idle"]
    /\ idChan = [i \in Instances |-> {}]
    /\ wk = [w \in Workers |-> Resting]
    /\ streak = [id \in Servers |-> 0]
-----------------------------------------------------------------------------
(* runCycle *)

\* Mutant: SET without NX
SetLock(i) ==
    /\ phase[i] = "idle"
    /\ lock' = TRUE
    /\ phase' = [phase EXCEPT ![i] = "locked"]
    /\ UNCHANGED <<idChan, wk, streak, storeVars>>

\* SETNX on the lock key; a lock that is held ends the cycle
AcquireLock(i) ==
    /\ phase[i] = "idle"
    /\ ~lock
    /\ lock' = TRUE
    /\ phase' = [phase EXCEPT ![i] = "locked"]
    /\ UNCHANGED <<idChan, wk, streak, storeVars>>

\* The key expires. No code deletes it: the instance keeps its window.
LockExpires ==
    /\ lock
    /\ CycleMayOutliveLock \/ \A i \in Instances : phase[i] = "idle"
    /\ lock' = FALSE
    /\ UNCHANGED <<phase, idChan, wk, streak, storeVars>>

\* Pool.Run reads server:all_ids; an empty set ends the cycle
FetchIDs(i) ==
    /\ phase[i] = "locked"
    /\ phase' = [phase EXCEPT ![i] = IF allIds = {} THEN "idle" ELSE "running"]
    /\ idChan' = [idChan EXCEPT ![i] = allIds]
    /\ UNCHANGED <<lock, wk, streak, storeVars>>

FetchIDsError(i) ==
    /\ MonRedisMayFail
    /\ phase[i] = "locked"
    /\ phase' = [phase EXCEPT ![i] = "idle"]
    /\ UNCHANGED <<lock, idChan, wk, streak, storeVars>>

\* wg.Wait returns when the channel is drained and every worker is done
CycleDone(i) ==
    /\ phase[i] = "running"
    /\ idChan[i] = {}
    /\ \A k \in Slots : wk[<<i, k>>].pc = "idle"
    /\ phase' = [phase EXCEPT ![i] = "idle"]
    /\ UNCHANGED <<lock, idChan, wk, streak, storeVars>>
-----------------------------------------------------------------------------
(* processServer *)

Rest(w) == wk' = [wk EXCEPT ![w] = Resting]

\* A worker receives an id and reads the server's address; without one it
\* is done with the server
TakeServer(w) ==
    \E id \in idChan[w[1]] :
        /\ wk[w].pc = "idle"
        /\ idChan' = [idChan EXCEPT ![w[1]] = @ \ {id}]
        /\ IF id \in DOMAIN hash /\ hash[id].ipv4 # None
           THEN /\ wk' = [wk EXCEPT ![w] = [Resting EXCEPT !.pc = "ping", !.id = id]]
                /\ Enter(w, id)
           ELSE UNCHANGED <<wk, users, disturbed>>
        /\ UNCHANGED <<lock, phase, streak, rows, hash, allIds, issued>>

\* The address cannot be read: the server is left out of this cycle
SkipServer(w) ==
    \E id \in idChan[w[1]] :
        /\ MonRedisMayFail
        /\ wk[w].pc = "idle"
        /\ idChan' = [idChan EXCEPT ![w[1]] = @ \ {id}]
        /\ UNCHANGED <<lock, phase, wk, streak, storeVars>>

\* One ICMP echo: answered, or not within the timeout
Ping(w, ok) ==
    /\ wk[w].pc = "ping"
    /\ wk' = [wk EXCEPT ![w] = [@ EXCEPT !.pc = "get", !.ok = ok]]
    /\ UNCHANGED <<lock, phase, idChan, streak, storeVars>>
-----------------------------------------------------------------------------
(* Evaluate *)

\* Mutant: a success while ONLINE does not reset the counter
NextStateNoReset(status, retry, ok) ==
    CASE ok -> [status |-> "ONLINE", retry |-> IF status = "ONLINE" THEN retry ELSE 0]
      [] ~ok /\ status = "ONLINE" ->
           IF retry + 1 >= Threshold THEN [status |-> "OFFLINE", retry |-> 0]
                                     ELSE [status |-> "ONLINE", retry |-> retry + 1]
      [] ~ok /\ status = "OFFLINE" ->
           [status |-> "OFFLINE", retry |-> IF retry < MaxRetry THEN retry + 1 ELSE retry]

\* Mutant: one success is not enough to recover
NextStateNoRecovery(status, retry, ok) ==
    CASE ok -> [status |-> status, retry |-> 0]
      [] ~ok /\ status = "ONLINE" ->
           IF retry + 1 >= Threshold THEN [status |-> "OFFLINE", retry |-> 0]
                                     ELSE [status |-> "ONLINE", retry |-> retry + 1]
      [] ~ok /\ status = "OFFLINE" ->
           [status |-> "OFFLINE", retry |-> IF retry < MaxRetry THEN retry + 1 ELSE retry]

\* The state machine: the status and counter after a ping
NextState(status, retry, ok) ==
    CASE ok -> [status |-> "ONLINE", retry |-> 0]
      [] ~ok /\ status = "ONLINE" ->
           IF retry + 1 >= Threshold THEN [status |-> "OFFLINE", retry |-> 0]
                                     ELSE [status |-> "ONLINE", retry |-> retry + 1]
      [] ~ok /\ status = "OFFLINE" ->
           [status |-> "OFFLINE", retry |-> IF retry < MaxRetry THEN retry + 1 ELSE retry]

\* Mutant: PostgreSQL hears of recoveries only
WritesRecoveries(status, next, ok) == next.status # status /\ ok

\* PostgreSQL is written on a change of status and on a failed ping of a
\* server that stays ONLINE
WritesPostgres(status, next, ok) ==
    next.status # status \/ (next.retry > 0 /\ ~ok /\ status = "ONLINE")

\* GetServerState, then the state machine; no hash is ErrServerStateNotFound
GetServerState(w) ==
    LET id == wk[w].id
    IN  /\ wk[w].pc = "get"
        /\ IF id \in DOMAIN hash
           THEN LET next == NextState(hash[id].status, hash[id].retry, wk[w].ok)
                IN  /\ wk' = [wk EXCEPT ![w] =
                                [@ EXCEPT !.pc = "set", !.status = next.status, !.retry = next.retry,
                                          !.pg = WritesPostgres(hash[id].status, next, wk[w].ok)]]
                    /\ UNCHANGED <<users, disturbed>>
           ELSE Rest(w) /\ Leave(w, id)
        /\ UNCHANGED <<lock, phase, idChan, streak, rows, hash, allIds, issued>>

SetState(w) ==
    LET id == wk[w].id
    IN  /\ wk[w].pc = "set"
        /\ SetServerState(id, wk[w].status, wk[w].retry)
        /\ streak' = [streak EXCEPT ![id] = IF wk[w].ok THEN 0
                                            ELSE IF @ < Threshold THEN @ + 1 ELSE @]
        /\ IF wk[w].pg
           THEN wk' = [wk EXCEPT ![w].pc = "pg"] /\ UNCHANGED <<users, disturbed>>
           ELSE Rest(w) /\ Leave(w, id)
        /\ UNCHANGED <<lock, phase, idChan, rows, allIds, issued>>

WritePostgres(w) ==
    /\ wk[w].pc = "pg"
    /\ UpdateServerStatus(wk[w].id, wk[w].status, wk[w].retry)
    /\ Rest(w)
    /\ Leave(w, wk[w].id)
    /\ UNCHANGED <<lock, phase, idChan, streak, hash, allIds, issued>>

\* A Redis call of Evaluate fails: the ping is lost
EvaluateRedisError(w) ==
    /\ MonRedisMayFail
    /\ wk[w].pc \in {"get", "set"}
    /\ Rest(w)
    /\ Leave(w, wk[w].id)
    /\ UNCHANGED <<lock, phase, idChan, streak, rows, hash, allIds, issued>>

\* UpdateServerStatus fails after Redis was written; it is not retried
EvaluateDBError(w) ==
    /\ MonDBMayFail
    /\ wk[w].pc = "pg"
    /\ Rest(w)
    /\ LeaveTorn(w, wk[w].id)
    /\ UNCHANGED <<lock, phase, idChan, streak, rows, hash, allIds, issued>>

\* An instance dies in the middle of a cycle; the lock stays until it expires
MonitorCrash(i) ==
    /\ MonMayCrash
    /\ phase[i] # "idle"
    /\ phase' = [phase EXCEPT ![i] = "idle"]
    /\ idChan' = [idChan EXCEPT ![i] = {}]
    /\ wk' = [w \in Workers |-> IF w[1] = i THEN Resting ELSE wk[w]]
    /\ users' = [id \in Servers |-> users[id] \ ({i} \X Slots)]
    /\ disturbed' = disturbed \cup {wk[w].id : w \in {v \in {i} \X Slots : wk[v].pc = "pg"}}
    /\ UNCHANGED <<lock, streak, rows, hash, allIds, issued>>
-----------------------------------------------------------------------------
WorkerStep(w) ==
    \/ TakeServer(w)
    \/ \E ok \in BOOLEAN : Ping(w, ok)
    \/ GetServerState(w) \/ SetState(w) \/ WritePostgres(w)

CycleStep(i) == AcquireLock(i) \/ FetchIDs(i) \/ CycleDone(i)

MonNext ==
    \/ LockExpires
    \/ \E i \in Instances : CycleStep(i) \/ FetchIDsError(i) \/ MonitorCrash(i)
    \/ \E w \in Workers : \/ WorkerStep(w) \/ SkipServer(w)
                          \/ EvaluateRedisError(w) \/ EvaluateDBError(w)

MonTypeOK ==
    /\ lock \in BOOLEAN
    /\ phase \in [Instances -> {"idle", "locked", "running"}]
    /\ idChan \in [Instances -> SUBSET Servers]
    /\ wk \in [Workers -> WorkerLocals]
    /\ streak \in [Servers -> 0..Threshold]

(* The lock keeps two monitoring processes from running a cycle at the     *)
(* same time (app/monitoring/app.go:151-165).                              *)
ExclusiveCycles ==
    \A i, j \in Instances : phase[i] # "idle" /\ phase[j] # "idle" => i = j

(* A server goes from ONLINE to OFFLINE in Redis only on the Threshold-th  *)
(* failed ping in a row (monitoring_service.go:65-71; the claim of         *)
(* monitoring_service_test.go:70, "Second consecutive failure crosses      *)
(* threshold (Online -> Offline)").                                        *)
OfflineNeedsThreshold ==
    [][\A id \in DOMAIN hash \cap DOMAIN hash' :
          hash[id].status = "ONLINE" /\ hash'[id].status = "OFFLINE"
          => streak'[id] = Threshold]_<<hash, streak>>

(* The claim of docs/ARCHITECTURE.md:418, "only updates the Postgres DB if *)
(* and only if the server actually changes state".                         *)
PostgresOnlyOnChange ==
    [][\A w \in Workers : WritePostgres(w) /\ wk[w].id \in DOMAIN rows
           => rows'[wk[w].id].status # rows[wk[w].id].status]_rows

(* A server whose pings all fail from some point on is OFFLINE in          *)
(* PostgreSQL for good (monitoring_service.go:56-100), as long as it has a *)
(* row and is not disturbed: clients go on updating it, between its pings, *)
(* and an earlier overlap or failed write was repaired by a later update.  *)
(* Without that condition the claim is false of the code: an update that   *)
(* overlaps an evaluation, or a failed write to PostgreSQL, can leave the  *)
(* row ONLINE for good.                                                    *)
DownIsReported ==
    \A id \in Servers :
        <>[](streak[id] > 0 /\ id \in DOMAIN rows \ disturbed)
        => <>[](id \in DOMAIN rows /\ rows[id].status = "OFFLINE")

(* The cycle comes back to every server that has a row and whose           *)
(* registration was not disturbed (pool.go:40-71 over the ids that         *)
(* CreateServer put in server:all_ids).                                    *)
KeepsBeingPinged ==
    \A id \in Servers :
        id \in DOMAIN rows \ disturbed
        ~> \/ id \in disturbed \/ id \notin DOMAIN rows
           \/ \E w \in Workers : wk[w].id = id /\ wk[w].pc = "ping"

(* A server whose pings all succeed from some point on is ONLINE for good, *)
(* under the same condition (monitoring_service.go:56-100): successes      *)
(* write nothing while Redis says ONLINE, whatever the row says.           *)
UpIsReported ==
    \A id \in Servers :
        <>[](streak[id] = 0 /\ id \in DOMAIN rows \ disturbed)
        => <>[](id \in DOMAIN rows /\ rows[id].status = "ONLINE")
=============================================================================

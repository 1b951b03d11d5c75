---------------------------- MODULE ServerSystem ----------------------------
(***************************************************************************)
(* The API server's write path and the monitoring worker over the stores   *)
(* they share.  Neither knows of the other's accesses: there is no lock    *)
(* and no transaction around a dual write.                                 *)
(***************************************************************************)
EXTENDS ServerManagement, Monitoring

ASSUME ActorsDisjoint == Requests \cap Workers = {}

vars == <<rows, hash, allIds, issued, users, disturbed, req, lock, phase, idChan, wk, streak>>

Init == StoresInit /\ MgmtInit /\ MonInit

Next == (MgmtNext /\ UNCHANGED monOwnVars) \/ (MonNext /\ UNCHANGED req)

Spec == Init /\ [][Next]_vars

(* Requests run to their return, cycles start at every tick, workers and   *)
(* expiring keys make progress: Redis calls and pings have timeouts, and   *)
(* PostgreSQL is assumed to answer.  No fairness is assumed of clients, of *)
(* the outcome of pings, of errors or of crashes.                          *)
Fairness ==
    /\ \A r \in Requests : WF_vars(RequestStep(r) /\ UNCHANGED monOwnVars)
    /\ \A i \in Instances : WF_vars(CycleStep(i) /\ UNCHANGED req)
    /\ \A w \in Workers : WF_vars(WorkerStep(w) /\ UNCHANGED req)
    /\ WF_vars(LockExpires /\ UNCHANGED req)

FairSpec == Spec /\ Fairness

TypeOK ==
    /\ StoresTypeOK(Requests \cup Workers)
    /\ MgmtTypeOK
    /\ MonTypeOK
=============================================================================

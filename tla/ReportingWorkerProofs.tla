------------------------ MODULE ReportingWorkerProofs ------------------------
(***************************************************************************)
(* Proofs about ReportingWorker, for any number of reports, handlers and   *)
(* workers, any queue size and any number of failures: a report is in one  *)
(* place at most, and its row and its mails follow that place.             *)
(***************************************************************************)
EXTENDS ReportingWorker, TLAPS

\* The time limits of the provers
USE SMTT(30), ZenonT(30)

InQueue(r) == \E i \in 1..Len(queue) : queue[i] = r

InWorker(r) == \E w \in Workers : wk[w].report = r

InHandler(r) == \E h \in Handlers : job[h] = r

\* What the row of r says of its mails
RowOK(r) ==
    /\ status[r] = None => mails[r] = 0 /\ r \notin dropped
    /\ status[r] = "PENDING" => mails[r] = 0
    /\ mails[r] <= 1
    /\ status[r] = "COMPLETED" => mails[r] = 1

\* A handler holds a report that is nowhere else
HandlerOK(h) ==
    job[h] # None =>
        /\ status[job[h]] \in {None, "PENDING"} /\ job[h] \notin dropped
        /\ ~InQueue(job[h]) /\ ~InWorker(job[h])
        /\ \A g \in Handlers : job[g] = job[h] => g = h

QueueOK(i) ==
    /\ status[queue[i]] = "PENDING" /\ queue[i] \notin dropped
    /\ ~InWorker(queue[i])
    /\ \A j \in 1..Len(queue) : queue[j] = queue[i] => j = i

WorkerOK(w) ==
    LET r == wk[w].report
    IN  r # None =>
          /\ r \notin dropped
          /\ \A v \in Workers : wk[v].report = r => v = w
          /\ wk[w].pc = "start" => status[r] = "PENDING"
          /\ wk[w].pc \in {"compute", "send", "finish"} => status[r] = "PROCESSING"
          /\ wk[w].pc \in {"compute", "send"} => mails[r] = 0
          /\ wk[w].pc = "finish" => /\ wk[w].outcome \in Settled
                                    /\ wk[w].outcome = "COMPLETED" => mails[r] = 1

\* The queue is open until the workers are stopped, after the handlers of the API
ProcessOK ==
    /\ closed => phase \in {"stopping", "exited"}
    /\ phase = "stopping" => closed
    /\ kind = "api" /\ ~forced /\ phase \in {"serversDown", "stopping", "exited"} =>
         \A h \in Handlers : job[h] = None

Places ==
    /\ \A r \in Reports : RowOK(r)
    /\ \A h \in Handlers : HandlerOK(h)
    /\ \A i \in 1..Len(queue) : QueueOK(i)
    /\ \A w \in Workers : WorkerOK(w)

HeldOK ==
    \A r \in Reports : status[r] \in {"PENDING", "PROCESSING"} =>
        InHandler(r) \/ InQueue(r) \/ InWorker(r) \/ r \in dropped

IInv == TypeOK /\ Places /\ HeldOK /\ ProcessOK
-----------------------------------------------------------------------------
LEMMA HeldInFlight == HeldOK => UnsettledIsHeld
BY DEF HeldOK, UnsettledIsHeld, InFlight, InHandler, InQueue, InWorker

LEMMA OutcomeType ==
    ASSUME NEW ok, NEW done, faults \in Nat, Outcome(ok, done) PROVE faults' \in Nat
BY DEF Outcome

(* The process moves on between its start and its exit.                    *)
LEMMA ShutdownInv ==
    ASSUME IInv, Signal \/ StopScheduler \/ StopServers \/ StopWorkers \/ Restart PROVE IInv'
<1>0. TypeOK /\ Places /\ HeldOK /\ ProcessOK
    BY DEF IInv
<1>1. UNCHANGED <<kind, status, job, queue, wk, faults, mails, dropped>>
    BY Zenon DEF Signal, StopScheduler, StopServers, StopWorkers, Restart
<1>2. /\ phase' \in {"running", "draining", "serversDown", "stopping", "exited"}
      /\ cancelled' \in BOOLEAN /\ closed' \in BOOLEAN /\ forced' \in BOOLEAN
    BY <1>0, Zenon DEF Signal, StopScheduler, StopServers, StopWorkers, Restart, TypeOK
<1>3. TypeOK'
    BY <1>0, <1>1, <1>2 DEF TypeOK
<1>4. Places' /\ HeldOK'
    BY <1>0, <1>1 DEF Places, HeldOK, RowOK, HandlerOK, QueueOK, WorkerOK, InQueue, InWorker, InHandler
<1>5. ProcessOK'
    <2>1. CASE Signal
        BY <1>0, <2>1 DEF ProcessOK, Signal, TypeOK
    <2>2. CASE StopServers
        BY <1>0, <2>2 DEF ProcessOK, StopServers, TypeOK
    <2>3. CASE StopWorkers
        BY <1>0, <2>3 DEF ProcessOK, StopWorkers, TypeOK
    <2>4. CASE Restart
        BY <1>0, <2>4 DEF ProcessOK, Restart, TypeOK
    <2>5. CASE StopScheduler
        BY <1>0, <2>5 DEF ProcessOK, StopScheduler, TypeOK
    <2> QED BY <2>1, <2>2, <2>3, <2>4, <2>5
<1> QED BY <1>3, <1>4, <1>5 DEF IInv

(* The process ends: what it held is dropped.                              *)
LEMMA ExitInv ==
    ASSUME IInv, Exit, UNCHANGED <<kind, cancelled, status, closed, mails, forced>>, faults' \in Nat
    PROVE  IInv'
<1>0. TypeOK /\ Places /\ HeldOK /\ ProcessOK
    BY DEF IInv
<1>1. Waiting \in WorkerLocals /\ Waiting.report = None /\ Waiting.pc = "receive"
    BY DEF Waiting, WorkerLocals
<1>2. /\ job' = [h \in Handlers |-> None] /\ queue' = <<>> /\ wk' = [w \in Workers |-> Waiting]
      /\ phase' = "exited"
    BY DEF Exit
<1>3. dropped' = dropped \cup {r \in InFlight \ {None} : status[r] # None}
    BY DEF Exit
<1>4. dropped \subseteq dropped' /\ dropped' \subseteq Reports
      /\ \A r \in dropped' : r \in dropped \/ status[r] # None
    <2>1. InFlight \subseteq Reports \cup {None}
        BY <1>0 DEF InFlight, TypeOK, WorkerLocals
    <2> QED BY <1>0, <1>3, <2>1 DEF TypeOK
<1>5. TypeOK'
    BY <1>0, <1>1, <1>2, <1>4 DEF TypeOK
<1>6. \A r \in Reports : RowOK(r)'
    BY <1>0, <1>4 DEF Places, RowOK
<1>7. Places'
    BY <1>1, <1>2, <1>6 DEF Places, HandlerOK, QueueOK, WorkerOK
<1>8. HeldOK'
    <2>1. ASSUME NEW r \in Reports, status[r] \in {"PENDING", "PROCESSING"} PROVE r \in dropped'
        <3>1. r \in InFlight \cup dropped
            BY <1>0, <2>1, HeldInFlight DEF UnsettledIsHeld
        <3>2. r # None /\ status[r] # None
            BY <2>1, ReportingAssumption
        <3> QED BY <1>3, <3>1, <3>2
    <2> QED BY <2>1 DEF HeldOK
<1>9. ProcessOK'
    BY <1>0, <1>2 DEF ProcessOK
<1> QED BY <1>5, <1>7, <1>8, <1>9 DEF IInv
-----------------------------------------------------------------------------
(* The steps of a handler.                                                 *)

LEMMA AcceptInv ==
    ASSUME IInv, NEW h \in Handlers, NEW r \in Reports, Accept(h, r) PROVE IInv'
<1>0. TypeOK /\ Places /\ HeldOK /\ ProcessOK
    BY DEF IInv
<1>1. /\ UNCHANGED <<processVars, status, queue, closed, wk, faults, mails, dropped>>
      /\ job[h] = None /\ status[r] = None /\ (\A g \in Handlers : job[g] # r)
      /\ job' = [job EXCEPT ![h] = r] /\ phase = "running"
    BY DEF Accept
<1>2. TypeOK'
    BY <1>0, <1>1 DEF TypeOK, processVars
<1>3. \A x \in Reports : (InQueue(x)' <=> InQueue(x)) /\ (InWorker(x)' <=> InWorker(x))
    BY <1>1 DEF InQueue, InWorker
<1>4. ~InQueue(r) /\ ~InWorker(r) /\ r \notin dropped
    <2>1. ~InQueue(r)
        BY <1>0, <1>1, ReportingAssumption DEF Places, QueueOK, InQueue
    <2>2. ~InWorker(r)
        BY <1>0, <1>1, ReportingAssumption DEF Places, WorkerOK, InWorker, TypeOK, WorkerLocals
    <2> QED BY <1>0, <1>1, <2>1, <2>2 DEF Places, RowOK
<1>5. ASSUME NEW g \in Handlers PROVE HandlerOK(g)'
    <2>1. \A f \in Handlers : job'[f] = IF f = h THEN r ELSE job[f]
        BY <1>0, <1>1 DEF TypeOK
    <2>2. CASE g = h
        BY <1>1, <1>3, <1>4, <2>1, <2>2 DEF HandlerOK
    <2>3. CASE g # h
        BY <1>0, <1>1, <1>3, <2>1, <2>3 DEF HandlerOK, Places, TypeOK
    <2> QED BY <2>2, <2>3
<1>6. Places'
    BY <1>0, <1>1, <1>5 DEF Places, RowOK, QueueOK, WorkerOK, InQueue, InWorker
<1>7. HeldOK'
    <2>1. \A x \in Reports : InHandler(x) => InHandler(x)'
        BY <1>0, <1>1, ReportingAssumption DEF InHandler, TypeOK
    <2> QED BY <1>0, <1>1, <1>3, <2>1 DEF HeldOK
<1>8. ProcessOK'
    BY <1>0, <1>1 DEF ProcessOK, processVars
<1> QED BY <1>2, <1>6, <1>7, <1>8 DEF IInv

(* A handler h lets go of its report, which is dropped if its row exists,  *)
(* or the row of its report appears.                                       *)
LEMMA CreateReportRequestInv ==
    ASSUME IInv, NEW h \in Handlers, NEW ok \in BOOLEAN, CreateReportRequest(h, ok) PROVE IInv'
<1>0. TypeOK /\ Places /\ HeldOK /\ ProcessOK
    BY DEF IInv
<1>1. PICK r \in Reports : /\ r = job[h] /\ r # None /\ status[r] = None
                          /\ UNCHANGED <<processVars, queue, closed, wk, mails>>
                          /\ faults' \in Nat
    BY <1>0 DEF CreateReportRequest, Outcome, TypeOK
<1>2. /\ status' \in [Reports -> Status]
      /\ \A x \in Reports : x # r => status'[x] = status[x]
      /\ status'[r] \in {None, "PENDING"}
    BY <1>0, <1>1 DEF CreateReportRequest, SetStatus, TypeOK, Status
<1>3. /\ job' \in [Handlers -> Reports \cup {None}]
      /\ \A g \in Handlers : g # h => job'[g] = job[g]
      /\ job'[h] = IF ok THEN r ELSE None
    BY <1>0, <1>1 DEF CreateReportRequest, TypeOK
<1>4. /\ dropped \subseteq dropped' /\ dropped' \subseteq dropped \cup {r} /\ dropped' \subseteq Reports
      /\ ok => dropped' = dropped
      /\ ~ok => (r \in dropped' <=> status'[r] # None)
    <2>1. r \notin dropped
        BY <1>0, <1>1 DEF Places, RowOK
    <2> QED BY <1>0, <1>1, <2>1 DEF CreateReportRequest, TypeOK
<1>5. \A x \in Reports : (InQueue(x)' <=> InQueue(x)) /\ (InWorker(x)' <=> InWorker(x))
    BY <1>1 DEF InQueue, InWorker
<1>6. HandlerOK(h)
    BY <1>0 DEF Places
<1>7. TypeOK'
    BY <1>0, <1>1, <1>2, <1>3, <1>4 DEF TypeOK, processVars
<1>8. \A x \in Reports : RowOK(x)'
    <2>1. mails[r] = 0 /\ r \notin dropped
        BY <1>0, <1>1 DEF Places, RowOK
    <2>2. RowOK(r)'
        BY <1>1, <1>2, <1>4, <2>1, ReportingAssumption DEF RowOK
    <2>3. ASSUME NEW x \in Reports, x # r PROVE RowOK(x)'
        BY <1>0, <1>1, <1>2, <1>4, <2>3 DEF RowOK, Places
    <2> QED BY <2>2, <2>3
<1>9. \A g \in Handlers : HandlerOK(g)'
    <2>1. HandlerOK(h)'
        BY <1>1, <1>2, <1>3, <1>4, <1>5, <1>6 DEF HandlerOK
    <2>2. ASSUME NEW g \in Handlers, g # h PROVE HandlerOK(g)'
        <3>1. HandlerOK(g) /\ job[g] # r
            BY <1>0, <1>1, <1>6, <2>2 DEF Places, HandlerOK
        <3> QED BY <1>0, <1>1, <1>2, <1>3, <1>4, <1>5, <2>2, <3>1 DEF HandlerOK, TypeOK
    <2> QED BY <2>1, <2>2
<1>10. \A i \in 1..Len(queue) : QueueOK(i)'
    <2>1. ASSUME NEW i \in 1..Len(queue) PROVE queue[i] # r /\ queue[i] \in Reports /\ QueueOK(i)
        BY <1>0, <1>1, <1>6 DEF HandlerOK, InQueue, Places, TypeOK
    <2> QED BY <1>1, <1>2, <1>4, <1>5, <2>1 DEF QueueOK, InWorker
<1>11. \A w \in Workers : WorkerOK(w)'
    <2>1. ASSUME NEW w \in Workers PROVE wk[w].report # r /\ wk[w].report \in Reports \cup {None}
        BY <1>0, <1>1, <1>6 DEF HandlerOK, InWorker, TypeOK, WorkerLocals
    <2> QED BY <1>0, <1>1, <1>2, <1>4, <2>1 DEF WorkerOK, Places
<1>12. Places'
    BY <1>1, <1>8, <1>9, <1>10, <1>11 DEF Places
<1>13. HeldOK'
    <2>1. \A x \in Reports : x # r /\ InHandler(x) => InHandler(x)'
        BY <1>1, <1>3 DEF InHandler
    <2>2. status'[r] = "PENDING" => InHandler(r)' \/ r \in dropped'
        BY <1>1, <1>3, <1>4, ReportingAssumption DEF InHandler
    <2> QED BY <1>0, <1>1, <1>2, <1>4, <1>5, <2>1, <2>2, ReportingAssumption DEF HeldOK
<1>14. ProcessOK'
    BY <1>0, <1>1, <1>3 DEF ProcessOK, processVars
<1> QED BY <1>7, <1>12, <1>13, <1>14 DEF IInv

LEMMA EnqueueReportInv ==
    ASSUME IInv, NEW h \in Handlers, EnqueueReport(h) PROVE IInv'
<1>0. TypeOK /\ Places /\ HeldOK /\ ProcessOK
    BY DEF IInv
<1>1. PICK r \in Reports :
        /\ r = job[h] /\ r # None /\ status[r] # None /\ queue' = Append(queue, r)
        /\ job' = [job EXCEPT ![h] = None]
        /\ UNCHANGED <<processVars, status, closed, wk, faults, mails, dropped>>
    BY <1>0 DEF EnqueueReport, Enqueueing, TypeOK
<1>2. HandlerOK(h) /\ status[r] = "PENDING" /\ r \notin dropped /\ ~InQueue(r) /\ ~InWorker(r)
      /\ \A g \in Handlers : job[g] = r => g = h
    BY <1>0, <1>1 DEF Places, HandlerOK
<1>3. /\ queue' \in Seq(Reports) /\ Len(queue') = Len(queue) + 1 /\ Len(queue) \in Nat
      /\ \A i \in 1..Len(queue) : queue'[i] = queue[i]
      /\ queue'[Len(queue) + 1] = r
    BY <1>0, <1>1 DEF TypeOK
<1>4. \A g \in Handlers : job'[g] = IF g = h THEN None ELSE job[g]
    BY <1>0, <1>1 DEF TypeOK
<1>5. \A x \in Reports : (InQueue(x)' <=> InQueue(x) \/ x = r) /\ (InWorker(x)' <=> InWorker(x))
    BY <1>1, <1>3 DEF InQueue, InWorker
<1>6. TypeOK'
    BY <1>0, <1>1, <1>3 DEF TypeOK, processVars
<1>7. \A x \in Reports : RowOK(x)'
    BY <1>0, <1>1 DEF Places, RowOK
<1>8. ASSUME NEW g \in Handlers PROVE HandlerOK(g)'
    <2>1. CASE g = h
        BY <1>4, <2>1 DEF HandlerOK
    <2>2. CASE g # h
        BY <1>0, <1>1, <1>2, <1>4, <1>5, <2>2 DEF HandlerOK, Places, TypeOK
    <2> QED BY <2>1, <2>2
<1>9. ASSUME NEW i \in 1..Len(queue') PROVE QueueOK(i)'
    <2>1. CASE i = Len(queue) + 1
        BY <1>1, <1>2, <1>3, <1>5, <2>1 DEF QueueOK, InQueue
    <2>2. CASE i \in 1..Len(queue)
        <3>1. QueueOK(i) /\ queue[i] # r /\ queue[i] \in Reports
            BY <1>0, <1>2, <2>2 DEF Places, InQueue, TypeOK
        <3> QED BY <1>1, <1>3, <1>5, <2>2, <3>1 DEF QueueOK
    <2> QED BY <1>3, <2>1, <2>2
<1>10. \A w \in Workers : WorkerOK(w)'
    BY <1>0, <1>1 DEF WorkerOK, Places
<1>11. HeldOK'
    <2>1. \A x \in Reports : x # r /\ InHandler(x) => InHandler(x)'
        BY <1>1, <1>4 DEF InHandler
    <2> QED BY <1>0, <1>1, <1>5, <2>1 DEF HeldOK
<1>12. ProcessOK'
    BY <1>0, <1>1, <1>4 DEF ProcessOK, processVars
<1> QED BY <1>6, <1>7, <1>8, <1>9, <1>10, <1>11, <1>12 DEF IInv, Places

LEMMA SendOnClosedQueueInv ==
    ASSUME IInv, NEW h \in Handlers, SendOnClosedQueue(h) PROVE IInv'
<1>0. TypeOK /\ Places /\ HeldOK /\ ProcessOK
    BY DEF IInv
<1>1. CASE Exit
    BY <1>0, <1>1, ExitInv DEF SendOnClosedQueue, TypeOK
<1>2. CASE ~Exit
    <2>1. PICK r \in Reports :
            /\ r = job[h] /\ r # None /\ status[r] # None
            /\ job' = [job EXCEPT ![h] = None] /\ dropped' = dropped \cup {r}
            /\ UNCHANGED <<processVars, status, closed, wk, faults, mails, queue>>
        BY <1>0, <1>2 DEF SendOnClosedQueue, Enqueueing, TypeOK, processVars
    <2>2. ~InQueue(r) /\ ~InWorker(r) /\ \A g \in Handlers : job[g] = r => g = h
        BY <1>0, <2>1 DEF Places, HandlerOK
    <2>3. \A g \in Handlers : job'[g] = IF g = h THEN None ELSE job[g]
        BY <1>0, <2>1 DEF TypeOK
    <2>4. \A x \in Reports : (InQueue(x)' <=> InQueue(x)) /\ (InWorker(x)' <=> InWorker(x))
        BY <2>1 DEF InQueue, InWorker
    <2>5. TypeOK'
        BY <1>0, <2>1 DEF TypeOK, processVars
    <2>6. \A x \in Reports : RowOK(x)'
        BY <1>0, <2>1 DEF Places, RowOK
    <2>7. ASSUME NEW g \in Handlers PROVE HandlerOK(g)'
        BY <1>0, <2>1, <2>2, <2>3, <2>4 DEF HandlerOK, Places, TypeOK
    <2>8. ASSUME NEW i \in 1..Len(queue') PROVE QueueOK(i)'
        <3>1. QueueOK(i) /\ queue[i] # r /\ queue[i] \in Reports
            BY <1>0, <2>1, <2>2, <2>8 DEF Places, InQueue, TypeOK
        <3> QED BY <2>1, <2>4, <3>1 DEF QueueOK
    <2>9. ASSUME NEW w \in Workers PROVE WorkerOK(w)'
        <3>1. WorkerOK(w) /\ wk[w].report # r
            BY <1>0, <2>2 DEF Places, InWorker
        <3> QED BY <2>1, <3>1 DEF WorkerOK
    <2>10. HeldOK'
        <3>1. \A x \in Reports : x # r /\ InHandler(x) => InHandler(x)'
            BY <2>1, <2>3 DEF InHandler
        <3> QED BY <1>0, <2>1, <2>4, <3>1 DEF HeldOK
    <2>11. ProcessOK'
        BY <1>0, <2>1, <2>3 DEF ProcessOK, processVars
    <2> QED BY <2>5, <2>6, <2>7, <2>8, <2>9, <2>10, <2>11 DEF IInv, Places
<1> QED BY <1>1, <1>2
-----------------------------------------------------------------------------
(* The steps of a worker.                                                  *)

(* A worker that changes only what concerns its own report keeps the       *)
(* invariant: nobody else holds that report.                               *)
LEMMA OwnReport ==
    ASSUME IInv, NEW w \in Workers, NEW r \in Reports, wk[w].report = r,
           NEW q \in WorkerLocals, wk' = [wk EXCEPT ![w] = q], q.report \in {r, None},
           q.report = None <=> q.pc \in {"receive", "done"},
           status' \in [Reports -> Status], \A x \in Reports : x # r => status'[x] = status[x],
           mails' \in [Reports -> Nat], \A x \in Reports : x # r => mails'[x] = mails[x],
           dropped \subseteq dropped', dropped' \subseteq dropped \cup {r},
           UNCHANGED <<processVars, job, queue, closed>>, faults' \in Nat,
           RowOK(r)', WorkerOK(w)',
           status'[r] \in {"PENDING", "PROCESSING"} => q.report = r \/ r \in dropped'
    PROVE  IInv'
<1>0. TypeOK /\ Places /\ HeldOK /\ ProcessOK
    BY DEF IInv
<1>1. r # None /\ InWorker(r)
    BY ReportingAssumption DEF InWorker
<1>2. \A v \in Workers : wk'[v] = IF v = w THEN q ELSE wk[v]
    BY <1>0 DEF TypeOK
<1>3. \A v \in Workers : v # w => wk[v].report # r
    BY <1>0, <1>1 DEF Places, WorkerOK
<1>4. \A x \in Reports : (InQueue(x)' <=> InQueue(x)) /\ (InWorker(x)' => InWorker(x))
                         /\ (InHandler(x)' <=> InHandler(x)) /\ (x # r /\ InWorker(x) => InWorker(x)')
    BY <1>1, <1>2, ReportingAssumption DEF InQueue, InWorker, InHandler
<1>5. TypeOK'
    BY <1>0, <1>2 DEF TypeOK, processVars
<1>6. ASSUME NEW x \in Reports PROVE RowOK(x)'
    BY <1>0 DEF Places, RowOK
<1>7. ASSUME NEW g \in Handlers PROVE HandlerOK(g)'
    <2>1. HandlerOK(g) /\ job[g] # r
        BY <1>0, <1>1 DEF Places, HandlerOK
    <2> QED BY <1>0, <1>4, <2>1 DEF HandlerOK, TypeOK
<1>8. ASSUME NEW i \in 1..Len(queue') PROVE QueueOK(i)'
    <2>1. QueueOK(i) /\ queue[i] # r /\ queue[i] \in Reports
        BY <1>0, <1>1 DEF Places, QueueOK, TypeOK
    <2> QED BY <1>4, <2>1, Zenon DEF QueueOK
<1>9. ASSUME NEW v \in Workers PROVE WorkerOK(v)'
    <2>1. CASE v # w
        <3>1. WorkerOK(v) /\ wk[v].report # r /\ wk'[v] = wk[v] /\ wk[v].report \in Reports \cup {None}
            BY <1>0, <1>2, <1>3, <2>1 DEF Places, TypeOK, WorkerLocals
        <3>2. \A u \in Workers : wk'[u].report = wk[v].report /\ wk[v].report # None => u = v
            BY <1>2, <3>1, ReportingAssumption DEF WorkerOK
        <3> QED BY <3>1, <3>2 DEF WorkerOK
    <2> QED BY <2>1
<1>10. HeldOK'
    <2>1. q.report = r => InWorker(r)'
        BY <1>2 DEF InWorker
    <2> QED BY <1>0, <1>4, <2>1 DEF HeldOK
<1>11. ProcessOK'
    BY <1>0 DEF ProcessOK, processVars
<1> QED BY <1>5, <1>6, <1>7, <1>8, <1>9, <1>10, <1>11 DEF IInv, Places

LEMMA WaitingWorker == Waiting \in WorkerLocals /\ Waiting.report = None /\ Waiting.pc = "receive"
BY DEF Waiting, WorkerLocals

\* What a worker w that holds r knows
LEMMA Holding ==
    ASSUME IInv, NEW w \in Workers, wk[w].pc \notin {"receive", "done"}
    PROVE  \E r \in Reports : /\ wk[w].report = r /\ r # None /\ r \notin dropped /\ RowOK(r)
                              /\ WorkerOK(w) /\ status[r] \in {"PENDING", "PROCESSING"}
BY ReportingAssumption DEF IInv, TypeOK, WorkerLocals, Places, WorkerOK

LEMMA StartReportInv ==
    ASSUME IInv, NEW w \in Workers, NEW ok \in BOOLEAN, StartReport(w, ok) PROVE IInv'
<1>0. TypeOK /\ wk[w].pc = "start"
    BY DEF IInv, StartReport
<1>1. PICK r \in Reports : /\ wk[w].report = r /\ r # None /\ r \notin dropped /\ RowOK(r)
                           /\ WorkerOK(w) /\ status[r] \in {"PENDING", "PROCESSING"}
    BY <1>0, Holding
<1>2. status[r] = "PENDING" /\ mails[r] = 0
    BY <1>0, <1>1 DEF WorkerOK, RowOK
<1>3. UNCHANGED <<processVars, job, queue, closed, mails>> /\ faults' \in Nat
    BY <1>0 DEF StartReport, Outcome, TypeOK
<1>4. /\ status' \in [Reports -> Status]
      /\ \A x \in Reports : x # r => status'[x] = status[x]
      /\ status'[r] \in {"PENDING", "PROCESSING"} /\ (ok => status'[r] = "PROCESSING")
    BY <1>0, <1>1, <1>2, Zenon DEF StartReport, SetStatus, TypeOK, Status
<1>5. dropped' = IF ok THEN dropped ELSE dropped \cup {r}
    BY <1>1 DEF StartReport
<1>6. RowOK(r)'
    BY <1>2, <1>3, <1>4, ReportingAssumption DEF RowOK
<1>7. mails \in [Reports -> Nat] /\ dropped \subseteq dropped' /\ dropped' \subseteq dropped \cup {r}
    BY <1>0, <1>5 DEF TypeOK
<1>8. CASE ok
    <2> DEFINE q == [wk[w] EXCEPT !.pc = "compute"]
    <2>1. q \in WorkerLocals /\ q.pc = "compute" /\ q.report = r
        BY <1>0, <1>1, Zenon DEF TypeOK, WorkerLocals
    <2>2. wk' = [wk EXCEPT ![w] = q]
        BY <1>8 DEF StartReport
    <2> HIDE DEF q
    <2>3. \A v \in Workers : wk'[v] = IF v = w THEN q ELSE wk[v]
        BY <1>0, <2>2 DEF TypeOK
    <2>4. WorkerOK(w)'
        BY <1>1, <1>2, <1>3, <1>4, <1>5, <1>8, <2>1, <2>3 DEF WorkerOK
    <2> QED BY <1>1, <1>3, <1>4, <1>6, <1>7, <2>1, <2>2, <2>4, OwnReport, Zenon
<1>9. CASE ~ok
    <2>1. wk' = [wk EXCEPT ![w] = Waiting]
        BY <1>9 DEF StartReport
    <2>2. WorkerOK(w)'
        BY <1>0, <2>1, WaitingWorker, Zenon DEF WorkerOK, TypeOK
    <2> QED BY <1>1, <1>3, <1>4, <1>5, <1>6, <1>7, <1>9, <2>1, <2>2, WaitingWorker, OwnReport, Zenon
<1> QED BY <1>8, <1>9

LEMMA ComputeInv ==
    ASSUME IInv, NEW w \in Workers, NEW ok \in BOOLEAN, Compute(w, ok) PROVE IInv'
<1>0. TypeOK /\ wk[w].pc = "compute"
    BY DEF IInv, Compute
<1>1. PICK r \in Reports : /\ wk[w].report = r /\ r # None /\ r \notin dropped /\ RowOK(r)
                           /\ WorkerOK(w) /\ status[r] \in {"PENDING", "PROCESSING"}
    BY <1>0, Holding
<1>2. status[r] = "PROCESSING" /\ mails[r] = 0
    BY <1>0, <1>1 DEF WorkerOK
<1>3. UNCHANGED <<processVars, status, job, queue, closed, mails, dropped>> /\ faults' \in Nat
    BY <1>0 DEF Compute, Outcome, TypeOK
<1>4. RowOK(r)'
    BY <1>1, <1>3 DEF RowOK
<1>5. mails \in [Reports -> Nat] /\ status \in [Reports -> Status]
    BY <1>0 DEF TypeOK
<1> DEFINE q == [wk[w] EXCEPT !.pc = IF ok THEN "send" ELSE "finish",
                              !.outcome = IF ok THEN None ELSE "FAILED"]
<1>6. wk' = [wk EXCEPT ![w] = q]
    BY DEF Compute
<1>7. /\ q \in WorkerLocals /\ q.report = r /\ q.pc \in {"send", "finish"}
      /\ q.pc = "finish" => q.outcome = "FAILED"
    BY <1>0, <1>1, ZenonT(30) DEF TypeOK, WorkerLocals, Settled
<1> HIDE DEF q
<1>8. \A v \in Workers : wk'[v] = IF v = w THEN q ELSE wk[v]
    BY <1>0, <1>6 DEF TypeOK
<1>9. WorkerOK(w)'
    BY <1>1, <1>2, <1>3, <1>7, <1>8 DEF WorkerOK, Settled
<1> QED BY <1>1, <1>3, <1>4, <1>5, <1>6, <1>7, <1>9, OwnReport, Zenon

LEMMA SendInv ==
    ASSUME IInv, NEW w \in Workers, NEW ok \in BOOLEAN, NEW accepted \in BOOLEAN,
           Send(w, ok, accepted)
    PROVE  IInv'
<1>0. TypeOK /\ wk[w].pc = "send"
    BY DEF IInv, Send
<1>1. PICK r \in Reports : /\ wk[w].report = r /\ r # None /\ r \notin dropped /\ RowOK(r)
                           /\ WorkerOK(w) /\ status[r] \in {"PENDING", "PROCESSING"}
    BY <1>0, Holding
<1>2. status[r] = "PROCESSING" /\ mails[r] = 0
    BY <1>0, <1>1 DEF WorkerOK
<1>3. UNCHANGED <<processVars, status, job, queue, closed, dropped>> /\ faults' \in Nat
    BY <1>0 DEF Send, Outcome, TypeOK
<1>4. /\ mails' \in [Reports -> Nat] /\ status \in [Reports -> Status]
      /\ \A x \in Reports : x # r => mails'[x] = mails[x]
      /\ mails'[r] = IF accepted THEN 1 ELSE 0
    BY <1>0, <1>1, <1>2 DEF Send, TypeOK
<1>5. RowOK(r)'
    BY <1>1, <1>2, <1>3, <1>4, ReportingAssumption DEF RowOK
<1> DEFINE q == [wk[w] EXCEPT !.pc = "finish", !.outcome = IF ok THEN "COMPLETED" ELSE "FAILED"]
<1>6. wk' = [wk EXCEPT ![w] = q] /\ (ok => accepted)
    BY DEF Send
<1>7. /\ q \in WorkerLocals /\ q.report = r /\ q.pc = "finish"
      /\ q.outcome \in Settled /\ (q.outcome = "COMPLETED" => ok)
    BY <1>0, <1>1, Zenon DEF TypeOK, WorkerLocals, Settled
<1> HIDE DEF q
<1>8. \A v \in Workers : wk'[v] = IF v = w THEN q ELSE wk[v]
    BY <1>0, <1>6 DEF TypeOK
<1>9. WorkerOK(w)'
    <2>1. wk'[w] = q /\ \A v \in Workers : wk'[v].report = r => v = w
        BY <1>1, <1>7, <1>8, Zenon DEF WorkerOK
    <2>2. status'[r] = "PROCESSING" /\ r \notin dropped'
        BY <1>1, <1>2, <1>3, Zenon
    <2>3. q.outcome = "COMPLETED" => mails'[r] = 1
        BY <1>4, <1>6, <1>7, Zenon
    <2> QED BY <1>7, <2>1, <2>2, <2>3, Zenon DEF WorkerOK
<1> QED BY <1>1, <1>3, <1>4, <1>5, <1>6, <1>7, <1>9, OwnReport, Zenon

LEMMA FinishReportInv ==
    ASSUME IInv, NEW w \in Workers, NEW ok \in BOOLEAN, FinishReport(w, ok) PROVE IInv'
<1>0. TypeOK /\ wk[w].pc = "finish"
    BY DEF IInv, FinishReport
<1>1. PICK r \in Reports : /\ wk[w].report = r /\ r # None /\ r \notin dropped /\ RowOK(r)
                           /\ WorkerOK(w) /\ status[r] \in {"PENDING", "PROCESSING"}
    BY <1>0, Holding
<1>2. /\ status[r] = "PROCESSING" /\ wk[w].outcome \in Settled
      /\ wk[w].outcome = "COMPLETED" => mails[r] = 1
    BY <1>0, <1>1 DEF WorkerOK
<1>3. UNCHANGED <<processVars, job, queue, closed, mails>> /\ faults' \in Nat
      /\ wk' = [wk EXCEPT ![w] = Waiting]
    BY <1>0 DEF FinishReport, Outcome, TypeOK
<1>4. /\ status' \in [Reports -> Status]
      /\ \A x \in Reports : x # r => status'[x] = status[x]
      /\ status'[r] \in {"PROCESSING", wk[w].outcome} /\ (ok => status'[r] = wk[w].outcome)
    BY <1>0, <1>1, <1>2, Zenon DEF FinishReport, SetStatus, TypeOK, Status
<1>5. dropped' = IF ok THEN dropped ELSE dropped \cup {r}
    BY <1>1, Zenon DEF FinishReport
<1>6. RowOK(r)'
    BY <1>1, <1>2, <1>3, <1>4, ReportingAssumption DEF RowOK, Settled
<1>7. mails \in [Reports -> Nat] /\ dropped \subseteq dropped' /\ dropped' \subseteq dropped \cup {r}
    BY <1>0, <1>5 DEF TypeOK
<1>8. WorkerOK(w)'
    BY <1>0, <1>3, WaitingWorker, Zenon DEF WorkerOK, TypeOK
<1>9. status'[r] \in {"PENDING", "PROCESSING"} => r \in dropped'
    BY <1>2, <1>4, <1>5 DEF Settled
<1> QED BY <1>1, <1>3, <1>4, <1>6, <1>7, <1>8, <1>9, WaitingWorker, OwnReport, Zenon

LEMMA TailFacts ==
    ASSUME NEW S, NEW s \in Seq(S), s # <<>>
    PROVE  /\ Head(s) = s[1] /\ Head(s) \in S /\ Tail(s) \in Seq(S)
           /\ Len(s) \in Nat \ {0} /\ Len(Tail(s)) = Len(s) - 1
           /\ \A i \in 1..Len(Tail(s)) : Tail(s)[i] = s[i + 1] /\ i + 1 \in 1..Len(s)
OBVIOUS

LEMMA ElementOf ==
    ASSUME NEW S, NEW s \in Seq(S), NEW i \in 1..Len(s) PROVE s[i] \in S
OBVIOUS

LEMMA IndexFacts ==
    ASSUME NEW n \in Nat \ {0}, NEW i \in 1..(n - 1), NEW j \in 1..(n - 1)
    PROVE  1 \in 1..n /\ i + 1 # 1 /\ (j + 1 = i + 1 => j = i)
OBVIOUS

LEMMA ReceiveInv ==
    ASSUME IInv, NEW w \in Workers, Receive(w) PROVE IInv'
<1>0. TypeOK /\ Places /\ HeldOK /\ ProcessOK
    BY DEF IInv
<1>1. UNCHANGED <<processVars, status, job, closed, faults, mails, dropped>>
      /\ wk[w].pc = "receive" /\ wk[w].report = None
    BY <1>0 DEF Receive, TypeOK
<1>2. CASE queue' = queue /\ wk' = [wk EXCEPT ![w].pc = "done"]
    <2> DEFINE q == [wk[w] EXCEPT !.pc = "done"]
    <2>1. wk' = [wk EXCEPT ![w] = q] /\ q \in WorkerLocals /\ q.pc = "done" /\ q.report = None
        BY <1>0, <1>1, <1>2, Zenon DEF TypeOK, WorkerLocals
    <2> HIDE DEF q
    <2>2. \A v \in Workers : wk'[v] = IF v = w THEN q ELSE wk[v]
        BY <1>0, <2>1 DEF TypeOK
    <2>3. \A v \in Workers : wk'[v].report = wk[v].report
        BY <1>1, <2>1, <2>2
    <2>4. TypeOK'
        BY <1>0, <1>1, <1>2, <2>1, <2>2, Zenon DEF TypeOK, processVars
    <2>5. \A v \in Workers : WorkerOK(v)'
        BY <1>0, <1>1, <2>1, <2>2, <2>3 DEF WorkerOK, Places
    <2>6. Places'
        BY <1>0, <1>1, <1>2, <2>3, <2>5 DEF Places, RowOK, HandlerOK, QueueOK, InQueue, InWorker
    <2>7. HeldOK' /\ ProcessOK'
        BY <1>0, <1>1, <1>2, <2>3 DEF HeldOK, ProcessOK, InHandler, InQueue, InWorker, processVars
    <2> QED BY <2>4, <2>6, <2>7 DEF IInv
<1>3. CASE queue # <<>> /\ queue' = Tail(queue) /\ wk' = [wk EXCEPT ![w] = Received(Head(queue))]
    <2>1. /\ Head(queue) = queue[1] /\ Head(queue) \in Reports /\ queue' \in Seq(Reports)
          /\ Len(queue) \in Nat \ {0} /\ Len(queue') = Len(queue) - 1
          /\ \A i \in 1..Len(queue') : queue'[i] = queue[i + 1] /\ i + 1 \in 1..Len(queue)
        BY <1>0, <1>3, TailFacts DEF TypeOK
    <2>2. PICK r \in Reports : r = Head(queue) /\ r = queue[1] /\ r # None
        BY <2>1, ReportingAssumption
    <2>3. Received(r) \in WorkerLocals /\ Received(r).pc = "start" /\ Received(r).report = r
        BY DEF Received, WorkerLocals
    <2>4. \A v \in Workers : wk'[v] = IF v = w THEN Received(r) ELSE wk[v]
        BY <1>0, <1>3, <2>2 DEF TypeOK
    <2>5. QueueOK(1)
        BY <1>0, <2>1 DEF Places
    <2>6. \A x \in Reports : InQueue(x) <=> InQueue(x)' \/ x = r
        <3>1. ASSUME NEW x \in Reports, InQueue(x) PROVE InQueue(x)' \/ x = r
            <4>1. PICK i \in 1..Len(queue) : queue[i] = x
                BY <3>1 DEF InQueue
            <4>2. CASE i = 1
                BY <2>2, <4>1, <4>2
            <4>3. CASE i # 1
                <5>1. i - 1 \in 1..Len(queue') /\ queue'[i - 1] = x
                    BY <2>1, <4>1, <4>3
                <5> QED BY <5>1 DEF InQueue
            <4> QED BY <4>2, <4>3
        <3>2. ASSUME NEW x \in Reports, InQueue(x)' PROVE InQueue(x)
            BY <2>1, <3>2 DEF InQueue
        <3>3. InQueue(r)
            BY <2>1, <2>2 DEF InQueue
        <3> QED BY <3>1, <3>2, <3>3
    <2>7. \A x \in Reports : InWorker(x)' <=> InWorker(x) \/ x = r
        BY <1>1, <2>3, <2>4, ReportingAssumption DEF InWorker
    <2>8. TypeOK'
        <3>1. wk' \in [Workers -> WorkerLocals]
            BY <1>0, <1>3, <2>2, <2>3 DEF TypeOK
        <3> QED BY <1>0, <1>1, <2>1, <2>2, <2>3, <2>4, <3>1, Zenon DEF TypeOK, processVars
    <2>9. \A x \in Reports : RowOK(x)'
        BY <1>0, <1>1, Zenon DEF Places, RowOK
    <2>10. ASSUME NEW g \in Handlers PROVE HandlerOK(g)'
        <3>1. HandlerOK(g) /\ (job[g] # None => job[g] # r /\ job[g] \in Reports)
            BY <1>0, <2>1, <2>2 DEF Places, HandlerOK, InQueue, TypeOK
        <3> QED BY <1>1, <2>6, <2>7, <3>1 DEF HandlerOK
    <2>11. ASSUME NEW i \in 1..Len(queue') PROVE QueueOK(i)'
        <3>0. Len(queue) \in Nat \ {0} /\ i \in 1..(Len(queue) - 1) /\ Len(queue') = Len(queue) - 1
            BY <2>1, Zenon
        <3>1. PICK k \in 1..Len(queue) : k = i + 1 /\ k # 1 /\ queue'[i] = queue[k]
            <4>1. i + 1 \in 1..Len(queue) /\ queue'[i] = queue[i + 1]
                BY <2>1, Zenon
            <4>2. i + 1 # 1
                BY <3>0, IndexFacts, Zenon
            <4> QED BY <4>1, <4>2, Zenon
        <3>2. QueueOK(k)
            BY <1>0, <3>1, Zenon DEF Places
        <3>3. queue[k] \in Reports
            BY <1>0, <3>1, ElementOf, Zenon DEF TypeOK
        <3>4. queue[k] # r
            <4>1. 1 \in 1..Len(queue)
                BY <3>0, IndexFacts, Zenon
            <4> QED BY <2>2, <3>1, <3>2, <4>1, Zenon DEF QueueOK
        <3>5. ASSUME NEW j \in 1..Len(queue'), queue'[j] = queue'[i] PROVE j = i
            <4>1. PICK l \in 1..Len(queue) : l = j + 1 /\ queue'[j] = queue[l]
                BY <2>1, Zenon
            <4>2. l = k
                BY <3>1, <3>2, <3>5, <4>1, Zenon DEF QueueOK
            <4>3. j \in 1..(Len(queue) - 1) /\ j + 1 = i + 1
                BY <3>0, <3>1, <4>1, <4>2, Zenon
            <4> QED BY <3>0, <4>3, IndexFacts, Zenon
        <3> QED BY <1>1, <2>7, <3>1, <3>2, <3>3, <3>4, <3>5, Zenon DEF QueueOK
    <2>12. ASSUME NEW v \in Workers PROVE WorkerOK(v)'
        <3>1. status[r] = "PENDING" /\ r \notin dropped /\ \A u \in Workers : wk[u].report # r
            BY <2>2, <2>5 DEF QueueOK, InWorker
        <3>2. CASE v = w
            BY <1>1, <2>3, <2>4, <3>1, <3>2 DEF WorkerOK
        <3>3. CASE v # w
            <4>1. WorkerOK(v) /\ wk[v].report # r
                BY <1>0, <3>1, Zenon DEF Places
            <4>2. wk'[v] = wk[v] /\ \A u \in Workers : wk'[u].report \in {wk[u].report, r}
                BY <2>3, <2>4, <3>3, Zenon
            <4>3. \A u \in Workers : wk'[u].report = wk[v].report => wk[u].report = wk[v].report
                BY <4>1, <4>2, Zenon
            <4> QED BY <1>1, <4>1, <4>2, <4>3, Zenon DEF WorkerOK
        <3> QED BY <3>2, <3>3
    <2>13. HeldOK' /\ ProcessOK'
        BY <1>0, <1>1, <2>6, <2>7, Zenon DEF HeldOK, ProcessOK, InHandler, processVars
    <2> QED BY <2>8, <2>9, <2>10, <2>11, <2>12, <2>13 DEF IInv, Places
<1> QED BY <1>2, <1>3 DEF Receive
-----------------------------------------------------------------------------
LEMMA InitInv == Init => IInv
<1> SUFFICES ASSUME Init PROVE IInv
    OBVIOUS
<1>1. TypeOK
    <2>1. {cancelled, closed, forced} \subseteq BOOLEAN
        BY Zenon DEF Init
    <2>2. /\ status \in [Reports -> Status] /\ mails \in [Reports -> Nat]
          /\ wk \in [Workers -> WorkerLocals] /\ job \in [Handlers -> Reports \cup {None}]
        BY WaitingWorker DEF Init, Status
    <2>3. \A w \in Workers : wk[w].report = None <=> wk[w].pc \in {"receive", "done"}
        BY WaitingWorker DEF Init
    <2> QED BY <2>1, <2>2, <2>3 DEF Init, TypeOK
<1>2. Places
    BY WaitingWorker, ReportingAssumption DEF Init, Places, RowOK, HandlerOK, QueueOK, WorkerOK
<1>3. HeldOK /\ ProcessOK
    BY ReportingAssumption DEF Init, HeldOK, ProcessOK
<1> QED BY <1>1, <1>2, <1>3 DEF IInv

LEMMA WorkerStepInv ==
    ASSUME IInv, NEW w \in Workers, WorkerStep(w) PROVE IInv'
BY ReceiveInv, StartReportInv, ComputeInv, FinishReportInv, SendInv DEF WorkerStep

LEMMA HandlerStepInv ==
    ASSUME IInv, NEW h \in Handlers, HandlerStep(h) PROVE IInv'
BY CreateReportRequestInv, EnqueueReportInv, SendOnClosedQueueInv DEF HandlerStep

LEMMA NextInv == IInv /\ [Next]_repVars => IInv'
<1> SUFFICES ASSUME IInv, [Next]_repVars PROVE IInv'
    OBVIOUS
<1>1. CASE ExitEarly \/ Stopped \/ Crash
    <2>1. faults' \in Nat
        BY <1>1 DEF IInv, TypeOK, ExitEarly, Stopped, Crash
    <2> QED BY <1>1, <2>1, ExitInv DEF ExitEarly, Stopped, Crash
<1>2. CASE Next
    BY <1>1, <1>2, WorkerStepInv, HandlerStepInv, AcceptInv, ShutdownInv DEF Next, RequestReport, DailyReport
<1>3. CASE UNCHANGED repVars
    <2>1. UNCHANGED <<kind, phase, cancelled, status, job, queue, closed, wk, faults, mails, dropped,
                      forced>>
        BY <1>3 DEF repVars
    <2>2. Places'
        BY <2>1, ZenonT(30) DEF IInv, Places, RowOK, HandlerOK, QueueOK, WorkerOK, InQueue, InWorker
    <2>3. TypeOK' /\ HeldOK' /\ ProcessOK'
        BY <2>1, Zenon DEF IInv, TypeOK, HeldOK, ProcessOK, InQueue, InWorker, InHandler
    <2> QED BY <2>2, <2>3 DEF IInv
<1> QED BY <1>2, <1>3

LEMMA Inductive == Spec => []IInv
BY InitInv, NextInv, PTL DEF Spec

(* Every goroutine's variables keep their types: in particular a worker    *)
(* holds a report exactly while it is at work on one.                      *)
THEOREM WorkersAreTyped == Spec => []TypeOK
<1>1. IInv => TypeOK
    BY DEF IInv
<1> QED BY <1>1, Inductive, PTL

(* No report is ever mailed twice, and a row that says COMPLETED was       *)
(* mailed: whatever the workers, the queue, the failures and the restarts. *)
THEOREM AtMostOneMail == Spec => []MailedOnce
<1>1. IInv => MailedOnce
    BY DEF IInv, Places, RowOK, MailedOnce
<1> QED BY <1>1, Inductive, PTL

(* A stored report that is not settled is held by a goroutine or was       *)
(* dropped by one of the named causes.                                     *)
THEOREM NothingIsLostSilently == Spec => []UnsettledIsHeld
<1>1. IInv => UnsettledIsHeld
    BY HeldInFlight DEF IInv
<1> QED BY <1>1, Inductive, PTL

(* The API server closes the queue only when no handler can send to it,    *)
(* unless its graceful stop timed out.                                     *)
THEOREM QueueClosedLast == Spec => []ClosedAfterHandlers
<1>1. IInv => ClosedAfterHandlers
    BY DEF IInv, ProcessOK, ClosedAfterHandlers
<1> QED BY <1>1, Inductive, PTL

\* A step of one report's row, forward
Forward(r) ==
    status'[r] # status[r] =>
        /\ r \notin dropped
        /\ \/ status[r] = None /\ status'[r] = "PENDING"
           \/ status[r] = "PENDING" /\ status'[r] = "PROCESSING"
           \/ status[r] = "PROCESSING" /\ status'[r] \in Settled

LEMMA StepForward ==
    ASSUME IInv, [Next]_repVars, NEW r \in Reports PROVE Forward(r)
<1>0. TypeOK /\ Places
    BY DEF IInv
<1>1. ASSUME NEW h \in Handlers, NEW ok \in BOOLEAN, CreateReportRequest(h, ok) PROVE Forward(r)
    BY <1>0, <1>1 DEF CreateReportRequest, SetStatus, TypeOK, Places, RowOK, Forward
<1>2. ASSUME NEW w \in Workers, NEW ok \in BOOLEAN, StartReport(w, ok) PROVE Forward(r)
    <2>1. PICK x \in Reports : wk[w].report = x /\ x # None /\ x \notin dropped /\ WorkerOK(w)
        BY <1>2, Holding DEF StartReport
    <2>2. status[x] = "PENDING"
        BY <1>2, <2>1 DEF StartReport, WorkerOK
    <2> QED BY <1>0, <1>2, <2>1, <2>2 DEF StartReport, SetStatus, TypeOK, Forward
<1>3. ASSUME NEW w \in Workers, NEW ok \in BOOLEAN, FinishReport(w, ok) PROVE Forward(r)
    <2>1. PICK x \in Reports : wk[w].report = x /\ x # None /\ x \notin dropped /\ WorkerOK(w)
        BY <1>3, Holding DEF FinishReport
    <2>2. status[x] = "PROCESSING" /\ wk[w].outcome \in Settled
        BY <1>3, <2>1 DEF FinishReport, WorkerOK
    <2> QED BY <1>0, <1>3, <2>1, <2>2 DEF FinishReport, SetStatus, TypeOK, Forward
<1>4. CASE UNCHANGED status
    BY <1>4 DEF Forward
<1>5. ASSUME NEW w \in Workers, WorkerStep(w) PROVE Forward(r)
    BY <1>2, <1>3, <1>4, <1>5, Zenon DEF WorkerStep, Receive, Compute, Send
<1>6. ASSUME NEW h \in Handlers, HandlerStep(h) PROVE Forward(r)
    BY <1>1, <1>4, <1>6 DEF HandlerStep, EnqueueReport, SendOnClosedQueue
<1>7. ASSUME NEW h \in Handlers, NEW x \in Reports, RequestReport(h, x) \/ DailyReport(h, x)
      PROVE  Forward(r)
    BY <1>4, <1>7 DEF RequestReport, DailyReport, Accept
<1>8. CASE Signal \/ StopScheduler \/ StopServers \/ StopWorkers \/ ExitEarly \/ Stopped \/ Crash \/ Restart
    BY <1>4, <1>8, Zenon DEF Signal, StopScheduler, StopServers, StopWorkers, ExitEarly, Stopped, Crash, Restart
<1>9. CASE UNCHANGED repVars
    BY <1>4, <1>9 DEF repVars
<1> QED BY <1>5, <1>6, <1>7, <1>8, <1>9 DEF Next

(* The status of every row only moves forward, and a dropped report keeps  *)
(* the status it had.                                                      *)
THEOREM RowsMoveForward == Spec => StatusMovesForward
<1>1. IInv /\ [Next]_repVars => [\A r \in Reports : Forward(r)]_repVars
    BY StepForward
<1>2. Spec => [][\A r \in Reports : Forward(r)]_repVars
    BY <1>1, Inductive, PTL DEF Spec
<1> QED BY <1>2 DEF StatusMovesForward, Forward
=============================================================================

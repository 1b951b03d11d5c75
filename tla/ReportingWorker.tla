--------------------------- MODULE ReportingWorker ---------------------------
(***************************************************************************)
(* Report requests: RequestReport stores a row and hands the report to a   *)
(* bounded in-memory queue, a pool of workers computes and mails it, and   *)
(* the row's status follows.  The same code runs in two processes: the API *)
(* server, whose workers run with the context that the shutdown signal     *)
(* cancels and whose handlers are awaited before the queue is closed, and  *)
(* the daily scheduler, whose workers are not cancelled and whose cron job *)
(* is not awaited.  Nothing is replayed after a restart.                   *)
(*                                                                         *)
(* mails and dropped are history variables: no program reads them.         *)
(***************************************************************************)
EXTENDS Integers, Sequences, FiniteSets

CONSTANTS
    Reports,        \* report ids that can be requested (bounds the requests)
    Handlers,       \* goroutines that can be in RequestReport
    Workers,        \* workerCount goroutines
    JobQueueSize,
    MaxFaults,      \* bound on failures of statements, of SMTP and crashes
    None            \* no report

ASSUME ReportingAssumption ==
    /\ None \notin Reports \cup {"PENDING", "PROCESSING", "COMPLETED", "FAILED"}
    /\ JobQueueSize \in Nat \ {0}
    /\ MaxFaults \in Nat

VARIABLES
    kind,       \* the process: "api" or "scheduler"
    phase,      \* where the process is between its start and its exit
    cancelled,  \* the context of the workers is cancelled
    status,     \* report_requests.status, None before the row is stored
    job,        \* job[h]: the report handler h stores and enqueues, or None
    queue,      \* jobQueue
    closed,     \* close(jobQueue) was called
    wk,         \* wk[w]: what worker w does next, its report, its outcome
    faults,     \* failures and crashes so far
    mails,      \* history: mails[r], the mails the SMTP server accepted
    dropped,    \* history: reports that no goroutine will work on any more
    forced      \* GracefulStop timed out: Stop cancelled the context of the calls

processVars == <<kind, phase, cancelled, forced>>

repVars == <<kind, phase, cancelled, status, job, queue, closed, wk, faults, mails, dropped, forced>>

Settled == {"COMPLETED", "FAILED"}

Status == {None, "PENDING", "PROCESSING"} \cup Settled

WorkerLocals == [pc: {"receive", "start", "compute", "send", "finish", "done"},
                 report: Reports \cup {None}, outcome: Settled \cup {None}]

Waiting == [pc |-> "receive", report |-> None, outcome |-> None]

Received(r) == [pc |-> "start", report |-> r, outcome |-> None]

Init ==
    /\ kind \in {"api", "scheduler"}
    /\ phase = "running"
    /\ cancelled = FALSE
    /\ status = [r \in Reports |-> None]
    /\ job = [h \in Handlers |-> None]
    /\ queue = <<>>
    /\ closed = FALSE
    /\ wk = [w \in Workers |-> Waiting]
    /\ faults = 0
    /\ mails = [r \in Reports |-> 0]
    /\ dropped = {}
    /\ forced = FALSE

\* A statement or call succeeds, or fails, as it does when its context is done
Outcome(ok, done) ==
    \/ ok /\ ~done /\ UNCHANGED faults
    \/ ~ok /\ done /\ UNCHANGED faults
    \/ ~ok /\ faults < MaxFaults /\ faults' = faults + 1

\* A statement that sets the status of r; a failed one may have taken effect
\* before its answer was lost
SetStatus(r, st, ok) ==
    \/ status' = [status EXCEPT ![r] = st]
    \/ ~ok /\ UNCHANGED status

Alive == phase # "exited"
-----------------------------------------------------------------------------
(* RequestReport *)

\* RequestReport of the service starts; a bad date or a blank address ends it
\* here.  Nothing is accepted after the signal.
Accept(h, r) ==
    /\ phase = "running"
    /\ job[h] = None
    /\ status[r] = None /\ \A g \in Handlers : job[g] # r
    /\ job' = [job EXCEPT ![h] = r]
    /\ UNCHANGED <<processVars, status, queue, closed, wk, faults, mails, dropped>>

\* A call of the API server
RequestReport(h, r) == kind = "api" /\ Accept(h, r)

\* The cron job of the scheduler
DailyReport(h, r) == kind = "scheduler" /\ Accept(h, r)

CreateReportRequest(h, ok) ==
    /\ Alive
    /\ job[h] # None /\ status[job[h]] = None
    /\ Outcome(ok, forced)
    /\ SetStatus(job[h], "PENDING", ok)
    /\ IF ok THEN UNCHANGED <<job, dropped>>
             ELSE /\ job' = [job EXCEPT ![h] = None]
                  /\ dropped' = dropped \cup {r \in {job[h]} : status'[r] # None}
    /\ UNCHANGED <<processVars, queue, closed, wk, mails>>

\* The row is stored and the handler sends to the queue
Enqueueing(h) == Alive /\ job[h] # None /\ status[job[h]] # None

\* Mutant: a select with a default case, which gives up on a full queue
EnqueueOrDrop(h) ==
    /\ Enqueueing(h)
    /\ ~closed
    /\ queue' = IF Len(queue) < JobQueueSize THEN Append(queue, job[h]) ELSE queue
    /\ job' = [job EXCEPT ![h] = None]
    /\ UNCHANGED <<processVars, status, closed, wk, faults, mails, dropped>>

\* Mutant: the queue is taken for full one report too early
EnqueueBelowBound(h) ==
    /\ Enqueueing(h)
    /\ ~closed
    /\ Len(queue) < JobQueueSize - 1
    /\ queue' = Append(queue, job[h])
    /\ job' = [job EXCEPT ![h] = None]
    /\ UNCHANGED <<processVars, status, closed, wk, faults, mails, dropped>>

\* The send blocks while the queue is full
EnqueueReport(h) ==
    /\ Enqueueing(h)
    /\ ~closed
    /\ Len(queue) < JobQueueSize
    /\ queue' = Append(queue, job[h])
    /\ job' = [job EXCEPT ![h] = None]
    /\ UNCHANGED <<processVars, status, closed, wk, faults, mails, dropped>>

InFlight ==
    {job[h] : h \in Handlers} \cup {queue[i] : i \in 1..Len(queue)} \cup {wk[w].report : w \in Workers}

\* The process ends: what it held in memory is gone
Exit ==
    /\ phase' = "exited"
    /\ dropped' = dropped \cup {r \in InFlight \ {None} : status[r] # None}
    /\ job' = [h \in Handlers |-> None]
    /\ queue' = <<>>
    /\ wk' = [w \in Workers |-> Waiting]

\* The send panics: RecoveryInterceptor answers an error in the API server,
\* nothing recovers the cron job of the scheduler
SendOnClosedQueue(h) ==
    /\ Enqueueing(h)
    /\ closed
    /\ IF kind = "api"
       THEN /\ job' = [job EXCEPT ![h] = None]
            /\ dropped' = dropped \cup {job[h]}
            /\ UNCHANGED <<phase, queue, wk>>
       ELSE Exit
    /\ UNCHANGED <<kind, cancelled, status, closed, faults, mails, forced>>
-----------------------------------------------------------------------------
(* The workers *)

\* Mutant: a receive in a plain loop, which yields nil from the closed queue
ReceiveNil(w) ==
    /\ Alive
    /\ wk[w].pc = "receive"
    /\ queue # <<>> \/ closed
    /\ wk' = [wk EXCEPT ![w] = Received(IF queue = <<>> THEN None ELSE Head(queue))]
    /\ queue' = IF queue = <<>> THEN queue ELSE Tail(queue)
    /\ UNCHANGED <<processVars, status, job, closed, faults, mails, dropped>>

\* range over the queue: a closed queue is drained before the loop ends
Receive(w) ==
    /\ Alive
    /\ wk[w].pc = "receive"
    /\ \/ /\ queue # <<>>
          /\ wk' = [wk EXCEPT ![w] = Received(Head(queue))]
          /\ queue' = Tail(queue)
       \/ /\ queue = <<>> /\ closed
          /\ wk' = [wk EXCEPT ![w].pc = "done"]
          /\ UNCHANGED queue
    /\ UNCHANGED <<processVars, status, job, closed, faults, mails, dropped>>

\* UpdateReportStatus to PROCESSING; its error drops the report
StartReport(w, ok) ==
    LET r == wk[w].report
    IN  /\ wk[w].pc = "start"
        /\ Outcome(ok, cancelled)
        /\ SetStatus(r, "PROCESSING", ok)
        /\ wk' = [wk EXCEPT ![w] = IF ok THEN [@ EXCEPT !.pc = "compute"] ELSE Waiting]
        /\ dropped' = IF ok THEN dropped ELSE dropped \cup {r}
        /\ UNCHANGED <<processVars, job, queue, closed, mails>>

\* The figures of the report; an error makes it FAILED without a mail
Compute(w, ok) ==
    /\ wk[w].pc = "compute"
    /\ Outcome(ok, cancelled)
    /\ wk' = [wk EXCEPT ![w] = [@ EXCEPT !.pc = IF ok THEN "send" ELSE "finish",
                                         !.outcome = IF ok THEN None ELSE "FAILED"]]
    /\ UNCHANGED <<processVars, status, job, queue, closed, mails, dropped>>

\* SMTPMailer.Send: an error after the server accepted the message, when the
\* session is closed with QUIT, is an error of the whole call.  A cancelled
\* context fails the dial.
Send(w, ok, accepted) ==
    /\ wk[w].pc = "send"
    /\ Outcome(ok, cancelled)
    /\ ok => accepted
    /\ cancelled => ~accepted
    /\ mails' = IF accepted THEN [mails EXCEPT ![wk[w].report] = @ + 1] ELSE mails
    /\ wk' = [wk EXCEPT ![w] = [@ EXCEPT !.pc = "finish",
                                         !.outcome = IF ok THEN "COMPLETED" ELSE "FAILED"]]
    /\ UNCHANGED <<processVars, status, job, queue, closed, dropped>>

\* Mutant: a failed update has the report done again
FinishOrRepeat(w, ok) ==
    /\ wk[w].pc = "finish"
    /\ Outcome(ok, cancelled)
    /\ SetStatus(wk[w].report, wk[w].outcome, ok)
    /\ wk' = [wk EXCEPT ![w] = IF ok THEN Waiting ELSE [@ EXCEPT !.pc = "compute", !.outcome = None]]
    /\ UNCHANGED <<processVars, job, queue, closed, mails, dropped>>

\* Mutant: the update is repeated until it succeeds
FinishUntilStored(w, ok) ==
    /\ wk[w].pc = "finish"
    /\ Outcome(ok, cancelled)
    /\ SetStatus(wk[w].report, wk[w].outcome, ok)
    /\ wk' = IF ok THEN [wk EXCEPT ![w] = Waiting] ELSE wk
    /\ UNCHANGED <<processVars, job, queue, closed, mails, dropped>>

\* UpdateReportStatus to the final status; its error is only logged
FinishReport(w, ok) ==
    LET r == wk[w].report
    IN  /\ wk[w].pc = "finish"
        /\ Outcome(ok, cancelled)
        /\ SetStatus(r, wk[w].outcome, ok)
        /\ dropped' = IF ok THEN dropped ELSE dropped \cup {r}
        /\ wk' = [wk EXCEPT ![w] = Waiting]
        /\ UNCHANGED <<processVars, job, queue, closed, mails>>
-----------------------------------------------------------------------------
(* Shutdown *)

\* Mutant: the queue is closed with the signal
SignalStopsWorkers ==
    /\ kind = "api" /\ phase = "running"
    /\ phase' = "draining"
    /\ cancelled' = TRUE
    /\ closed' = TRUE
    /\ UNCHANGED <<kind, status, job, queue, wk, faults, mails, dropped, forced>>

\* SIGINT or SIGTERM cancels the context of the API server's workers, and the
\* server stops accepting calls
Signal ==
    /\ kind = "api" /\ phase = "running"
    /\ phase' = "draining"
    /\ cancelled' = TRUE
    /\ UNCHANGED <<kind, status, job, queue, closed, wk, faults, mails, dropped, forced>>

\* The scheduler stops cron, which does not wait for a job, and closes the queue
StopScheduler ==
    /\ kind = "scheduler" /\ phase = "running"
    /\ phase' = "stopping"
    /\ closed' = TRUE
    /\ UNCHANGED <<kind, cancelled, status, job, queue, wk, faults, mails, dropped, forced>>

\* GracefulStop returns when every handler has returned, or the ten seconds
\* are over and Stop does not wait for them
StopServers ==
    /\ phase = "draining"
    /\ phase' = "serversDown"
    /\ forced' = \E h \in Handlers : job[h] # None
    /\ UNCHANGED <<kind, cancelled, status, job, queue, closed, wk, faults, mails, dropped>>

\* HTTPServer.Shutdown succeeded: ReportingWorker.Stop closes the queue
StopWorkers ==
    /\ phase = "serversDown"
    /\ phase' = "stopping"
    /\ closed' = TRUE
    /\ UNCHANGED <<kind, cancelled, status, job, queue, wk, faults, mails, dropped, forced>>

\* HTTPServer.Shutdown ran into the deadline: Shutdown returns its error
\* before it stops the workers, and the process exits
ExitEarly ==
    /\ phase = "serversDown"
    /\ Exit
    /\ UNCHANGED <<kind, cancelled, status, closed, faults, mails, forced>>

\* wg.Wait returns, and main after it
Stopped ==
    /\ phase = "stopping"
    /\ \A w \in Workers : wk[w].pc = "done"
    /\ Exit
    /\ UNCHANGED <<kind, cancelled, status, closed, faults, mails, forced>>

\* The process dies, or one of its listeners fails and Run returns the error
Crash ==
    /\ Alive
    /\ faults < MaxFaults
    /\ faults' = faults + 1
    /\ Exit
    /\ UNCHANGED <<kind, cancelled, status, closed, mails, forced>>

\* Mutant: a new process settles the rows it finds open
RestartSweep ==
    /\ phase = "exited"
    /\ phase' = "running"
    /\ cancelled' = FALSE
    /\ closed' = FALSE
    /\ forced' = FALSE
    /\ status' = [r \in Reports |-> IF status[r] = "PENDING" THEN "FAILED" ELSE status[r]]
    /\ UNCHANGED <<kind, job, queue, wk, faults, mails, dropped>>

\* A new process starts with an empty queue and reads no row
Restart ==
    /\ phase = "exited"
    /\ phase' = "running"
    /\ cancelled' = FALSE
    /\ closed' = FALSE
    /\ forced' = FALSE
    /\ UNCHANGED <<kind, status, job, queue, wk, faults, mails, dropped>>
-----------------------------------------------------------------------------
WorkerStep(w) ==
    \/ Receive(w)
    \/ \E ok \in BOOLEAN :
         \/ StartReport(w, ok) \/ Compute(w, ok) \/ FinishReport(w, ok)
         \/ \E accepted \in BOOLEAN : Send(w, ok, accepted)

HandlerStep(h) ==
    \/ \E ok \in BOOLEAN : CreateReportRequest(h, ok)
    \/ EnqueueReport(h) \/ SendOnClosedQueue(h)

Next ==
    \/ \E h \in Handlers : HandlerStep(h) \/ \E r \in Reports : RequestReport(h, r) \/ DailyReport(h, r)
    \/ \E w \in Workers : WorkerStep(w)
    \/ Signal \/ StopScheduler \/ StopServers \/ StopWorkers \/ ExitEarly \/ Stopped \/ Crash \/ Restart

Spec == Init /\ [][Next]_repVars

(* Goroutines are scheduled and a shutdown runs to its end; a channel      *)
(* serves its blocked senders in order, so a handler that can send again   *)
(* and again does.  That statements, counts and mails end is an assumption *)
(* about PostgreSQL, Elasticsearch and the mail server, as no deadline is  *)
(* set.  Nothing is assumed of callers, signals or failures.               *)
Fairness ==
    /\ \A h \in Handlers : SF_repVars(HandlerStep(h))
    /\ \A w \in Workers : WF_repVars(WorkerStep(w))
    /\ WF_repVars(StopServers \/ StopWorkers \/ ExitEarly \/ Stopped)

FairSpec == Spec /\ Fairness
-----------------------------------------------------------------------------
TypeOK ==
    /\ kind \in {"api", "scheduler"}
    /\ phase \in {"running", "draining", "serversDown", "stopping", "exited"}
    /\ {cancelled, closed, forced} \subseteq BOOLEAN
    /\ status \in [Reports -> Status]
    /\ job \in [Handlers -> Reports \cup {None}]
    /\ queue \in Seq(Reports)
    /\ wk \in [Workers -> WorkerLocals]
    /\ \A w \in Workers : wk[w].report = None <=> wk[w].pc \in {"receive", "done"}
    /\ faults \in Nat
    /\ mails \in [Reports -> Nat]
    /\ dropped \subseteq Reports

(* A report is mailed at most once, and what its row says of the mail is   *)
(* true: COMPLETED was mailed, PENDING was not (reporting_worker.go:87,    *)
(* 93-116).  Each report is in one place at most, so no two workers ever   *)
(* hold the same report, through shutdowns, crashes and restarts.          *)
MailedOnce ==
    \A r \in Reports :
        /\ mails[r] <= 1
        /\ status[r] = "COMPLETED" => mails[r] = 1
        /\ status[r] \in {None, "PENDING"} => mails[r] = 0

(* A row that is not settled belongs to a report that some goroutine still *)
(* holds, or that was dropped by a failed statement, a send on the closed  *)
(* queue, a shutdown or a crash (reporting_worker.go:75-116): the queue    *)
(* and its bound lose nothing by themselves.                               *)
UnsettledIsHeld ==
    \A r \in Reports : status[r] \in {"PENDING", "PROCESSING"} => r \in InFlight \cup dropped

(* While the queue is closed nobody is left to send to it, except a call   *)
(* that outlived the graceful stop of the API server or the cron job of    *)
(* the scheduler (run.go:89-115, scheduler/app.go:129-133): the handlers   *)
(* are awaited before ReportingWorker.Stop.                                *)
ClosedAfterHandlers ==
    closed /\ kind = "api" /\ ~forced => \A h \in Handlers : job[h] = None

(* The status of a row only moves forward, PENDING, PROCESSING, settled,   *)
(* and a dropped report keeps the status it had (reporting_worker.go:      *)
(* 96-115, service.go:51-57): no later process takes it up.                *)
StatusMovesForward ==
    [][\A r \in Reports :
         status'[r] # status[r] =>
           /\ r \notin dropped
           /\ \/ status[r] = None /\ status'[r] = "PENDING"
              \/ status[r] = "PENDING" /\ status'[r] = "PROCESSING"
              \/ status[r] = "PROCESSING" /\ status'[r] \in Settled]_repVars

(* Every stored report is settled or dropped in the end, however full the  *)
(* queue was (reporting_worker.go:80-91): no report waits for ever in the  *)
(* queue, in a worker, or in a handler blocked on the queue.  That the     *)
(* calls to PostgreSQL, Elasticsearch and SMTP return is assumed: the code *)
(* sets no deadline on them.                                               *)
RequestsEnd ==
    \A r \in Reports : status[r] = "PENDING" ~> status[r] \in Settled \/ r \in dropped

(* A shutdown that was begun ends, and the workers with it (run.go:83-119, *)
(* scheduler/app.go:129-134): wg.Wait does not wait for ever, provided the *)
(* calls that the workers are in return.                                   *)
ShutdownEnds == phase \in {"draining", "stopping"} ~> phase = "exited"
=============================================================================

-------------------------- MODULE ObservationLogger --------------------------
(***************************************************************************)
(* The way of an observation from the monitoring worker to Elasticsearch:  *)
(* the pool's goroutines ping and offer the outcome to a bounded channel   *)
(* without waiting, one flusher collects batches and writes each with at   *)
(* most RetryMax calls of the Elasticsearch client, and the shutdown of    *)
(* the worker closes the channel two seconds after the signal.             *)
(*                                                                         *)
(* One call of the client may be several requests: its transport sends the *)
(* body again, up to MaxRetries times, when the connection fails or the    *)
(* answer is 502, 503 or 504.                                              *)
(*                                                                         *)
(* offered, overflowed, abandoned, died and killed are history variables.  *)
(***************************************************************************)
EXTENDS Integers, Sequences, FiniteSets, Functions

CONSTANTS
    Observations,   \* pings whose outcome can be logged (bounds the cycles)
    Pingers,        \* goroutines of the worker pool
    ChannelSize, BatchSize, RetryMax,
    MaxRetries,     \* resends of the client's transport (3 unless configured)
    MaxFaults,      \* bound on failed bulk requests and crashes
    None            \* no observation

ASSUME LoggerAssumption ==
    /\ None \notin Observations
    /\ ChannelSize \in Nat \ {0} /\ BatchSize \in Nat \ {0} /\ RetryMax \in Nat \ {0}
    /\ MaxRetries \in Nat
    /\ MaxFaults \in Nat

VARIABLES
    phase,      \* the worker: "running", "sleeping" after the signal, "stopping", "exited"
    pinging,    \* pinging[p]: the observation goroutine p is about to make, or None
    ch,         \* the channel
    closed,     \* close(l.ch) was called
    flusher,    \* "select", "flush", "lastFlush" or "done"
    batch,      \* observations collected by the flusher; their order in the body is left out
    attempt,    \* calls of the client that failed for the batch
    resends,    \* requests of the present call that the transport gave up
    index,      \* index[o]: documents of o that Elasticsearch holds
    faults,     \* failed bulk requests and crashes so far
    offered,    \* history: observations LogObservation was called with
    overflowed, \* history: those the full channel refused
    abandoned,  \* history: those in a batch that was given up
    died,       \* history: those in memory when the process ended
    killed      \* history: a process was killed, or ended by a panic

historyVars == <<offered, overflowed, abandoned, died, killed>>

logVars == <<phase, pinging, ch, closed, flusher, batch, attempt, resends, index, faults, historyVars>>

Buffered == Range(ch) \cup batch

Started ==
    /\ phase = "running"
    /\ pinging = [p \in Pingers |-> None]
    /\ ch = <<>> /\ closed = FALSE
    /\ flusher = "select" /\ batch = {} /\ attempt = 0 /\ resends = 0

LogInit ==
    /\ Started
    /\ index = [o \in Observations |-> 0]
    /\ faults = 0
    /\ offered = {} /\ overflowed = {} /\ abandoned = {} /\ died = {}
    /\ killed = FALSE

\* The process ends with whatever is in its memory
Exit ==
    /\ phase' = "exited"
    /\ died' = died \cup Buffered
    /\ pinging' = [p \in Pingers |-> None]
    /\ ch' = <<>> /\ batch' = {} /\ attempt' = 0 /\ resends' = 0 /\ flusher' = "done"
-----------------------------------------------------------------------------
(* The pool's goroutines *)

\* processServer up to the ping; with the context cancelled HGET fails and
\* the server is skipped
StartPing(p, o) ==
    /\ phase = "running"
    /\ pinging[p] = None
    /\ o \notin offered /\ \A q \in Pingers : pinging[q] # o
    /\ pinging' = [pinging EXCEPT ![p] = o]
    /\ UNCHANGED <<phase, ch, closed, flusher, batch, attempt, resends, index, faults, historyVars>>

\* The send panics when the channel is closed, even in a select with a
\* default case, and nothing recovers the goroutine
LogObservation(p) ==
    LET o == pinging[p]
    IN  /\ o # None
        /\ IF closed
           THEN /\ Exit
                /\ killed' = TRUE
                /\ UNCHANGED <<offered, overflowed>>
           ELSE /\ offered' = offered \cup {o}
                /\ IF Len(ch) < ChannelSize
                   THEN ch' = Append(ch, o) /\ UNCHANGED overflowed
                   ELSE overflowed' = overflowed \cup {o} /\ UNCHANGED ch
                /\ pinging' = [pinging EXCEPT ![p] = None]
                /\ UNCHANGED <<phase, flusher, batch, attempt, resends, died, killed>>
        /\ UNCHANGED <<closed, index, faults, abandoned>>
-----------------------------------------------------------------------------
(* The flusher *)

\* Mutant: only the ticker flushes, so a batch grows past batchSize
CollectOnly ==
    /\ phase # "exited"
    /\ flusher = "select"
    /\ ch # <<>>
    /\ batch' = batch \cup {Head(ch)}
    /\ ch' = Tail(ch)
    /\ UNCHANGED <<phase, pinging, closed, flusher, attempt, resends, index, faults, historyVars>>

Collect ==
    /\ phase # "exited"
    /\ flusher = "select"
    /\ ch # <<>>
    /\ batch' = batch \cup {Head(ch)}
    /\ ch' = Tail(ch)
    /\ flusher' = IF Cardinality(batch') >= BatchSize THEN "flush" ELSE "select"
    /\ UNCHANGED <<phase, pinging, closed, attempt, resends, index, faults, historyVars>>

\* Mutant: the ticker, too, waits for a full batch
TickFullBatch ==
    /\ phase # "exited"
    /\ flusher = "select"
    /\ Cardinality(batch) >= BatchSize
    /\ flusher' = "flush"
    /\ UNCHANGED <<phase, pinging, ch, closed, batch, attempt, resends, index, faults, historyVars>>

\* The ticker; with an empty batch it does nothing
Tick ==
    /\ phase # "exited"
    /\ flusher = "select"
    /\ batch # {}
    /\ flusher' = "flush"
    /\ UNCHANGED <<phase, pinging, ch, closed, batch, attempt, resends, index, faults, historyVars>>

\* Mutant: the loop ends without flushing what is left
ReturnAtOnce ==
    /\ phase # "exited"
    /\ flusher = "select"
    /\ closed /\ ch = <<>>
    /\ flusher' = "done"
    /\ UNCHANGED <<phase, pinging, ch, closed, batch, attempt, resends, index, faults, historyVars>>

\* Mutant: the closed channel is not told from an empty one
SpinOnClosed ==
    /\ phase # "exited"
    /\ flusher = "select"
    /\ closed /\ ch = <<>>
    /\ UNCHANGED logVars

\* The closed channel is empty: what is left is flushed, and the loop ends
LastBatch ==
    /\ phase # "exited"
    /\ flusher = "select"
    /\ closed /\ ch = <<>>
    /\ flusher' = IF batch = {} THEN "done" ELSE "lastFlush"
    /\ UNCHANGED <<phase, pinging, ch, closed, batch, attempt, resends, index, faults, historyVars>>

\* The end of a call, and of the calls for the batch
Resent(outcome) == outcome = "lost" /\ resends < MaxRetries

GivenUp(outcome) == outcome # "ok" /\ ~Resent(outcome) /\ attempt + 1 = RetryMax

\* Mutant: the batch is kept when it was written
BulkKeepsBatch(outcome, A) ==
    /\ flusher \in {"flush", "lastFlush"}
    /\ A \subseteq batch
    /\ outcome = "ok" => A = batch
    /\ outcome = "ok" \/ faults < MaxFaults
    /\ faults' = IF outcome = "ok" THEN faults ELSE faults + 1
    /\ index' = [o \in Observations |-> IF o \in A THEN index[o] + 1 ELSE index[o]]
    /\ resends' = IF Resent(outcome) THEN resends + 1 ELSE 0
    /\ attempt' = IF outcome = "ok" \/ GivenUp(outcome) THEN 0
                  ELSE IF Resent(outcome) THEN attempt ELSE attempt + 1
    /\ batch' = IF GivenUp(outcome) THEN {} ELSE batch
    /\ flusher' = IF outcome # "ok" /\ ~GivenUp(outcome) THEN flusher
                  ELSE IF flusher = "flush" THEN "select" ELSE "done"
    /\ abandoned' = IF GivenUp(outcome) THEN abandoned \cup batch ELSE abandoned
    /\ UNCHANGED <<phase, pinging, ch, closed, offered, overflowed, died, killed>>

\* One bulk request, which indexes the documents of A: all of them when it is
\* "ok"; any of them when some documents had errors or the client returns
\* another error ("rejected"), and when the transport finds the connection
\* broken or a gateway's answer ("lost") and sends the body again.  The
\* documents have no ids, so a body that is sent again adds new ones.
Bulk(outcome, A) ==
    LET over == outcome = "ok" \/ GivenUp(outcome)
    IN  /\ flusher \in {"flush", "lastFlush"}
        /\ A \subseteq batch
        /\ outcome = "ok" => A = batch
        /\ outcome = "ok" \/ faults < MaxFaults
        /\ faults' = IF outcome = "ok" THEN faults ELSE faults + 1
        /\ index' = [o \in Observations |-> IF o \in A THEN index[o] + 1 ELSE index[o]]
        /\ resends' = IF Resent(outcome) THEN resends + 1 ELSE 0
        /\ attempt' = IF over THEN 0 ELSE IF Resent(outcome) THEN attempt ELSE attempt + 1
        /\ batch' = IF over THEN {} ELSE batch
        /\ flusher' = IF ~over THEN flusher ELSE IF flusher = "flush" THEN "select" ELSE "done"
        /\ abandoned' = IF GivenUp(outcome) THEN abandoned \cup batch ELSE abandoned
        /\ UNCHANGED <<phase, pinging, ch, closed, offered, overflowed, died, killed>>
-----------------------------------------------------------------------------
(* The end of the process *)

Signal ==
    /\ phase = "running"
    /\ phase' = "sleeping"
    /\ UNCHANGED <<pinging, ch, closed, flusher, batch, attempt, resends, index, faults, historyVars>>

\* Two seconds later; a ping may take three
Shutdown ==
    /\ phase = "sleeping"
    /\ phase' = "stopping"
    /\ closed' = TRUE
    /\ UNCHANGED <<pinging, ch, flusher, batch, attempt, resends, index, faults, historyVars>>

\* wg.Wait returns, and main after it
Stopped ==
    /\ phase = "stopping"
    /\ flusher = "done"
    /\ Exit
    /\ UNCHANGED <<closed, index, faults, offered, overflowed, abandoned, killed>>

\* SIGTERM is not among the signals the worker asks for: it ends the process
Kill ==
    /\ phase # "exited"
    /\ faults < MaxFaults
    /\ faults' = faults + 1
    /\ killed' = TRUE
    /\ Exit
    /\ UNCHANGED <<closed, index, offered, overflowed, abandoned>>

Restart ==
    /\ phase = "exited"
    /\ phase' = "running"
    /\ closed' = FALSE
    /\ flusher' = "select"
    /\ UNCHANGED <<pinging, ch, batch, attempt, resends, index, faults, historyVars>>
-----------------------------------------------------------------------------
Outcomes == {"ok", "rejected", "lost"}

FlushStep == \E outcome \in Outcomes, A \in SUBSET batch : Bulk(outcome, A)

LogNext ==
    \/ \E p \in Pingers : LogObservation(p) \/ \E o \in Observations : StartPing(p, o)
    \/ Collect \/ Tick \/ LastBatch \/ FlushStep
    \/ Signal \/ Shutdown \/ Stopped \/ Kill \/ Restart
-----------------------------------------------------------------------------
LogTypeOK ==
    /\ phase \in {"running", "sleeping", "stopping", "exited"}
    /\ pinging \in [Pingers -> Observations \cup {None}]
    /\ ch \in Seq(Observations) /\ Len(ch) <= ChannelSize
    /\ closed \in BOOLEAN
    /\ flusher \in {"select", "flush", "lastFlush", "done"}
    /\ batch \subseteq Observations /\ Cardinality(batch) <= BatchSize
    /\ attempt \in 0..RetryMax - 1 /\ resends \in 0..MaxRetries
    /\ index \in [Observations -> Nat]
    /\ faults \in Nat
    /\ offered \cup overflowed \cup abandoned \cup died \subseteq Observations
    /\ killed \in BOOLEAN

(* What the buffer loses is accounted for: an observation that was offered *)
(* and is in no buffer any more has a document, or the full channel        *)
(* refused it, its batch was given up after RetryMax calls, or it was      *)
(* in memory when a process was killed; a shutdown that runs to its end    *)
(* loses none (observation_logger.go:54-133).  A second document needs a   *)
(* failed request.                                                         *)
LossIsExplained ==
    /\ \A o \in offered \ Buffered : index[o] = 0 => o \in overflowed \cup abandoned \cup died
    /\ died # {} => killed
    /\ \A o \in Observations : index[o] > 1 => faults > 0

(* The shutdown of the worker ends (app/monitoring/app.go:131-143): the    *)
(* flusher sees the closed channel, and the number of its requests is      *)
(* bounded.  The requests themselves have no deadline: that they end is    *)
(* assumed.                                                                *)
WorkerStops == phase = "sleeping" ~> phase = "exited"

\* The requests that can be made for one batch
MaxCopies == RetryMax * (MaxRetries + 1)

Log == INSTANCE ObservationLog WITH
    stage <- [o \in Observations |-> IF o \in Buffered THEN "buffered"
                                     ELSE IF o \in offered THEN "settled" ELSE "new"],
    copies <- index

(* The logger does what ObservationLog promises: LogObservation never      *)
(* waits, a refused observation is never indexed, and a buffered one at    *)
(* most once for every request that its RetryMax calls of the client can   *)
(* make (observation_logger.go:54-133) ...                                 *)
ImplementsLog == Log!Spec

(* ... and none stays buffered for ever (observation_logger.go:79-98).     *)
BufferedSettles == Log!BufferedSettles
=============================================================================

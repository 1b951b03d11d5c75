---------------------------- MODULE UptimeReport ----------------------------
(***************************************************************************)
(* The uptime figure of a report, computed in another process from the     *)
(* documents that the observation logger writes at the same time: two      *)
(* counts, one after the other, of the documents in the report's period.   *)
(***************************************************************************)
EXTENDS ObservationLogger

CONSTANTS
    Up,         \* observations that found the server up (is_success)
    InPeriod    \* observations whose timestamp lies in the period

ASSUME UptimeAssumption ==
    /\ Up \subseteq Observations /\ InPeriod \subseteq Observations
    /\ IsFiniteSet(InPeriod)
    /\ None \notin {"Healthy", "Attention Recommended", "Action Required"}

VARIABLES
    calc,       \* the calculation: what it does next, and its two counts
    label,      \* healthLabel of the last figure, None before
    added       \* history: documents of the period indexed between the counts

uptimeVars == <<logVars, calc, label, added>>

NoCounts == [pc |-> "total", total |-> 0, success |-> 0]

Init == LogInit /\ calc = NoCounts /\ label = None /\ added = 0

\* The documents of S: o has one for every request that indexed it, a
\* request that the transport repeated included
Documents(S) == {d \in S \X (1..MaxCopies) : d[2] <= index[d[1]]}

\* Mutant: the query has no range on the timestamp
CountAll(S) == Cardinality(Documents(S))

\* The count of a query on the timestamp, and on is_success
Count(S) == Cardinality(Documents(S \cap InPeriod))

\* The label of the figure; the figure of no documents is 0
HealthLabel(success, total) ==
    IF total > 0 /\ 100 * success >= 99 * total THEN "Healthy"
    ELSE IF total > 0 /\ 100 * success >= 95 * total THEN "Attention Recommended"
    ELSE "Action Required"

Ready(success, total) ==
    /\ calc' = [pc |-> "ready", total |-> total, success |-> success]
    /\ label' = HealthLabel(success, total)

CountTotal ==
    /\ calc.pc \in {"total", "ready"}
    /\ LET n == Count(Observations)
       IN  IF n = 0 THEN Ready(0, 0)
                    ELSE calc' = [pc |-> "success", total |-> n, success |-> 0] /\ UNCHANGED label
    /\ added' = 0
    /\ UNCHANGED logVars

CountSuccess ==
    /\ calc.pc = "success"
    /\ Ready(Count(Up), calc.total)
    /\ UNCHANGED <<logVars, added>>

\* A failed count is an error of the calculation, and of the report
CountError ==
    /\ calc' = NoCounts
    /\ label' = None
    /\ added' = 0
    /\ UNCHANGED logVars

Logger ==
    /\ LogNext
    /\ added' = IF calc.pc = "success"
                THEN added + Cardinality(Documents(InPeriod)' \ Documents(InPeriod)) ELSE added
    /\ UNCHANGED <<calc, label>>

Next == Logger \/ CountTotal \/ CountSuccess \/ CountError

Spec == Init /\ [][Next]_uptimeVars

(* Goroutines are scheduled, pings end (they have a timeout), the ticker    *)
(* of the flusher ticks, and a shutdown runs to its end.  That bulk         *)
(* requests end is an assumption: Do is called with context.Background(),   *)
(* and no deadline is set (observation_logger.go:121).                      *)
FairSpec ==
    /\ Spec
    /\ \A p \in Pingers : WF_logVars(LogObservation(p))
    /\ WF_logVars(Collect \/ Tick \/ LastBatch \/ FlushStep)
    /\ WF_logVars(Shutdown \/ Stopped)
-----------------------------------------------------------------------------
TypeOK ==
    /\ LogTypeOK
    /\ calc \in [pc: {"total", "success", "ready"}, total: Nat, success: Nat]
    /\ label \in {None, "Healthy", "Attention Recommended", "Action Required"}
    /\ added \in Nat

(* The figure exceeds 100 % only by documents that were indexed between    *)
(* the two counts (uptime_calculator.go:33-84), and a report says Healthy  *)
(* only if some ping of the period found its server up: neither an empty   *)
(* index nor the documents of another period make it so.                   *)
FigureIsEarned ==
    /\ calc.pc = "ready" => calc.success <= calc.total + added
    /\ label = "Healthy" => \E o \in Up \cap InPeriod : index[o] > 0
=============================================================================

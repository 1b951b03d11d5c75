----------------------- MODULE ObservationLoggerProofs -----------------------
(***************************************************************************)
(* Proofs about ObservationLogger and UptimeReport, for any number of      *)
(* observations and goroutines, any sizes and any number of failures:      *)
(* LossIsExplained, that the logger implements ObservationLog, the bounds  *)
(* of its buffers, and FigureIsEarned.                                     *)
(***************************************************************************)
EXTENDS UptimeReport, FiniteSetTheorems, TLAPS

\* The time limits of the provers
USE SMTT(30), ZenonT(30)

InCh(o) == \E i \in 1..Len(ch) : ch[i] = o

LogTypes ==
    /\ phase \in {"running", "sleeping", "stopping", "exited"}
    /\ pinging \in [Pingers -> Observations \cup {None}]
    /\ ch \in Seq(Observations)
    /\ closed \in BOOLEAN
    /\ flusher \in {"select", "flush", "lastFlush", "done"}
    /\ batch \subseteq Observations
    /\ attempt \in Nat /\ attempt < RetryMax
    /\ resends \in Nat /\ resends <= MaxRetries
    /\ index \in [Observations -> Nat]
    /\ faults \in Nat
    /\ offered \subseteq Observations

\* An observation about to be offered was not offered yet, and by nobody else
PingOK(p) ==
    pinging[p] # None => /\ pinging[p] \notin offered
                         /\ \A q \in Pingers : pinging[q] = pinging[p] => q = p

\* An observation is once in the channel, not in the batch, and has no document
ChannelOK(i) ==
    /\ ch[i] \in offered /\ ch[i] \notin batch /\ index[ch[i]] = 0
    /\ \A j \in 1..Len(ch) : ch[j] = ch[i] => j = i

\* The requests made for the batch
Sent == attempt * (MaxRetries + 1) + resends

\* Each request of the batch indexes an observation at most once
IndexOK(o) ==
    /\ o \notin offered => index[o] = 0
    /\ o \in batch => o \in offered /\ index[o] <= Sent
    /\ index[o] <= MaxCopies
    /\ index[o] > 1 => faults > 0

\* The flusher is done only after the closed channel was emptied
FlusherOK ==
    /\ flusher \in {"select", "done"} => attempt = 0 /\ resends = 0
    /\ attempt > 0 \/ resends > 0 => faults > 0
    /\ flusher \in {"lastFlush", "done"} => ch = <<>>
    /\ flusher \in {"lastFlush", "done"} /\ phase # "exited" => closed
    /\ flusher = "done" => batch = {}
    /\ phase = "exited" => flusher = "done" /\ \A p \in Pingers : pinging[p] = None

LossOK ==
    /\ \A o \in offered : ~InCh(o) /\ o \notin batch /\ index[o] = 0 =>
                              o \in overflowed \cup abandoned \cup died
    /\ died # {} => killed

IInv ==
    /\ LogTypes
    /\ \A p \in Pingers : PingOK(p)
    /\ \A i \in 1..Len(ch) : ChannelOK(i)
    /\ \A o \in Observations : IndexOK(o)
    /\ FlusherOK
    /\ LossOK
-----------------------------------------------------------------------------
LEMMA RangeElements ==
    ASSUME NEW S, NEW s \in Seq(S)
    PROVE  \A x : x \in Range(s) <=> \E i \in 1..Len(s) : s[i] = x
BY DEF Range

LEMMA BufferedElements ==
    ASSUME ch \in Seq(Observations)
    PROVE  \A x : x \in Buffered <=> InCh(x) \/ x \in batch
BY RangeElements DEF Buffered, InCh

LEMMA AppendElements ==
    ASSUME NEW S, NEW s \in Seq(S), NEW e \in S
    PROVE  /\ Append(s, e) \in Seq(S) /\ Len(Append(s, e)) = Len(s) + 1 /\ Len(s) \in Nat
           /\ \A i \in 1..Len(s) : Append(s, e)[i] = s[i]
           /\ Append(s, e)[Len(s) + 1] = e
OBVIOUS

LEMMA HeadTail ==
    ASSUME NEW S, NEW s \in Seq(S), s # <<>>
    PROVE  /\ Head(s) = s[1] /\ Head(s) \in S /\ Tail(s) \in Seq(S)
           /\ Len(s) \in Nat \ {0} /\ Len(Tail(s)) = Len(s) - 1
           /\ \A i \in 1..Len(Tail(s)) : Tail(s)[i] = s[i + 1] /\ i + 1 \in 1..Len(s)
OBVIOUS

(* A batch has room for one more request, and a call that failed counts    *)
(* for all the requests it could have made.                                *)
LEMMA SentBounds ==
    ASSUME LogTypes
    PROVE  /\ Sent \in Nat /\ MaxCopies \in Nat /\ Sent + 1 <= MaxCopies
           /\ (attempt + 1) * (MaxRetries + 1) >= Sent + 1
           /\ Sent > 0 => attempt > 0 \/ resends > 0
<1> DEFINE m == MaxRetries + 1
<1>1. /\ attempt \in Nat /\ RetryMax \in Nat /\ attempt + 1 <= RetryMax
      /\ resends \in Nat /\ m \in Nat /\ resends + 1 <= m
    BY LoggerAssumption DEF LogTypes
<1>2. Sent = attempt * m + resends /\ MaxCopies = RetryMax * m
    BY DEF Sent, MaxCopies
<1> HIDE DEF m
<1>3. attempt * m \in Nat /\ (attempt + 1) * m = attempt * m + m
    BY <1>1
<1>4. (attempt + 1) * m <= RetryMax * m /\ RetryMax * m \in Nat
    BY <1>1
<1>5. 0 * m = 0
    BY <1>1
<1>6. Sent \in Nat /\ Sent + 1 <= (attempt + 1) * m
    BY <1>1, <1>2, <1>3
<1>7. Sent > 0 => attempt > 0 \/ resends > 0
    BY <1>1, <1>2, <1>5
<1>8. MaxCopies \in Nat /\ Sent + 1 <= MaxCopies
    BY <1>1, <1>2, <1>3, <1>4, <1>6
<1> QED BY <1>6, <1>7, <1>8 DEF m

LEMMA StartPingInv ==
    ASSUME IInv, NEW p \in Pingers, NEW o \in Observations, StartPing(p, o) PROVE IInv'
<1>1. /\ UNCHANGED <<phase, ch, closed, flusher, batch, attempt, resends, index, faults, offered, overflowed,
                     abandoned, died, killed>>
      /\ pinging' = [pinging EXCEPT ![p] = o] /\ phase = "running"
      /\ o \notin offered /\ \A q \in Pingers : pinging[q] # o
    BY DEF StartPing, historyVars
<1>2. pinging \in [Pingers -> Observations \cup {None}]
    BY DEF IInv, LogTypes
<1>3. \A q \in Pingers : pinging'[q] = IF q = p THEN o ELSE pinging[q]
    BY <1>1, <1>2
<1>4. \A q \in Pingers : PingOK(q)'
    BY <1>1, <1>3 DEF PingOK, IInv
<1>5. LogTypes'
    BY <1>1, <1>2 DEF LogTypes, IInv
<1>6. \A i \in 1..Len(ch') : ChannelOK(i)'
    BY <1>1 DEF IInv, ChannelOK
<1>7. \A x \in Observations : IndexOK(x)'
    BY <1>1 DEF IInv, IndexOK, Sent
<1>8. FlusherOK' /\ LossOK'
    BY <1>1 DEF IInv, FlusherOK, LossOK, InCh
<1> QED BY <1>4, <1>5, <1>6, <1>7, <1>8 DEF IInv

(* The process ends: with a killed process, or with empty buffers.         *)
LEMMA ExitInv ==
    ASSUME IInv, Exit, UNCHANGED <<closed, index, offered, overflowed, abandoned>>,
           faults' \in Nat, faults' >= faults, killed' \/ (killed' = killed /\ flusher = "done")
    PROVE  IInv'
<1>0. LogTypes /\ FlusherOK /\ LossOK
    BY DEF IInv
<1>1. /\ phase' = "exited" /\ died' = died \cup Buffered
      /\ pinging' = [p \in Pingers |-> None]
      /\ ch' = <<>> /\ batch' = {} /\ attempt' = 0 /\ resends' = 0 /\ flusher' = "done"
    BY DEF Exit
<1>2. \A x : x \in Buffered <=> InCh(x) \/ x \in batch
    BY <1>0, BufferedElements DEF LogTypes
<1>3. LogTypes'
    BY <1>0, <1>1, LoggerAssumption DEF LogTypes
<1>4. /\ \A p \in Pingers : PingOK(p)'
      /\ \A i \in 1..Len(ch') : ChannelOK(i)'
    BY <1>1 DEF PingOK, ChannelOK
<1>5. ASSUME NEW o \in Observations PROVE IndexOK(o)'
    <2>1. IndexOK(o) /\ index[o] \in Nat /\ faults \in Nat
        BY <1>0 DEF IInv, LogTypes
    <2> QED BY <1>1, <2>1 DEF IndexOK
<1>6. FlusherOK'
    BY <1>1 DEF FlusherOK
<1>7. LossOK'
    <2>1. flusher = "done" => Buffered = {}
        BY <1>0, <1>2 DEF FlusherOK, InCh
    <2>2. died' # {} => killed'
        BY <1>0, <1>1, <2>1 DEF LossOK
    <2>3. \A o \in offered : index[o] = 0 => o \in overflowed \cup abandoned \cup died'
        BY <1>0, <1>1, <1>2 DEF LossOK
    <2> QED BY <2>2, <2>3 DEF LossOK
<1> QED BY <1>3, <1>4, <1>5, <1>6, <1>7 DEF IInv

LEMMA EndInv ==
    ASSUME IInv, Stopped \/ Kill PROVE IInv'
<1>1. faults \in Nat
    BY DEF IInv, LogTypes
<1>2. CASE Stopped
    BY <1>1, <1>2, ExitInv DEF Stopped
<1>3. CASE Kill
    BY <1>1, <1>3, ExitInv DEF Kill
<1> QED BY <1>2, <1>3

LEMMA SignalsInv ==
    ASSUME IInv, Signal \/ Shutdown \/ Restart PROVE IInv'
<1>0. LogTypes /\ FlusherOK
    BY DEF IInv
<1>1. UNCHANGED <<pinging, ch, batch, attempt, resends, index, faults, offered, overflowed,
                  abandoned, died, killed>>
    BY DEF Signal, Shutdown, Restart, historyVars
<1>2. LogTypes'
    BY <1>0, <1>1, Zenon DEF LogTypes, Signal, Shutdown, Restart
<1>3. /\ \A p \in Pingers : PingOK(p)'
      /\ \A i \in 1..Len(ch') : ChannelOK(i)'
      /\ \A o \in Observations : IndexOK(o)'
    BY <1>1 DEF IInv, PingOK, ChannelOK, IndexOK, Sent
<1>4. FlusherOK'
    <2>1. CASE Signal
        BY <1>0, <2>1 DEF FlusherOK, Signal
    <2>2. CASE Shutdown
        BY <1>0, <2>2 DEF FlusherOK, Shutdown
    <2>3. CASE Restart
        BY <1>0, <2>3 DEF FlusherOK, Restart
    <2> QED BY <2>1, <2>2, <2>3
<1>5. LossOK'
    BY <1>1 DEF IInv, LossOK, InCh
<1> QED BY <1>2, <1>3, <1>4, <1>5 DEF IInv

LEMMA LogObservationInv ==
    ASSUME IInv, NEW p \in Pingers, LogObservation(p) PROVE IInv'
<1>0. LogTypes /\ FlusherOK /\ LossOK /\ PingOK(p)
    BY DEF IInv
<1>1. CASE closed
    <2>1. Exit /\ killed' /\ UNCHANGED <<closed, index, offered, overflowed, abandoned, faults>>
        BY <1>1 DEF LogObservation
    <2> QED BY <1>0, <2>1, ExitInv DEF LogTypes
<1>2. CASE ~closed
    <2>1. PICK o \in Observations :
            /\ o = pinging[p] /\ o # None /\ o \notin offered /\ offered' = offered \cup {o}
            /\ \A q \in Pingers : pinging[q] = o => q = p
            /\ IF Len(ch) < ChannelSize
               THEN ch' = Append(ch, o) /\ UNCHANGED overflowed
               ELSE overflowed' = overflowed \cup {o} /\ UNCHANGED ch
            /\ pinging' = [pinging EXCEPT ![p] = None]
            /\ UNCHANGED <<phase, flusher, batch, attempt, resends, died, killed, closed, index, faults,
                           abandoned>>
        BY <1>0, <1>2 DEF LogObservation, LogTypes, PingOK
    <2>2. IndexOK(o) /\ o \notin batch /\ index[o] = 0
        BY <2>1 DEF IInv, IndexOK
    <2>3. phase # "exited" /\ flusher \notin {"lastFlush", "done"}
        BY <1>0, <1>2, <2>1 DEF FlusherOK
    <2>4. \A q \in Pingers : pinging'[q] = IF q = p THEN None ELSE pinging[q]
        BY <1>0, <2>1 DEF LogTypes
    <2>5. \A q \in Pingers : PingOK(q)'
        BY <2>1, <2>4 DEF PingOK, IInv
    <2>6. \A x \in Observations : IndexOK(x)'
        BY <2>1, <2>2 DEF IndexOK, IInv, Sent
    <2>7. FlusherOK'
        BY <1>0, <2>1, <2>3 DEF FlusherOK
    <2>8. CASE Len(ch) < ChannelSize
        <3>1. /\ ch' \in Seq(Observations) /\ Len(ch') = Len(ch) + 1 /\ Len(ch) \in Nat
              /\ \A i \in 1..Len(ch) : ch'[i] = ch[i]
              /\ ch'[Len(ch) + 1] = o /\ overflowed' = overflowed
            <4>1. ch \in Seq(Observations) /\ ch' = Append(ch, o) /\ overflowed' = overflowed
                BY <1>0, <2>1, <2>8, Zenon DEF LogTypes
            <4>2. /\ Append(ch, o) \in Seq(Observations) /\ Len(Append(ch, o)) = Len(ch) + 1
                  /\ Len(ch) \in Nat /\ \A i \in 1..Len(ch) : Append(ch, o)[i] = ch[i]
                  /\ Append(ch, o)[Len(ch) + 1] = o
                BY <4>1, AppendElements
            <4> QED BY <4>1, <4>2, Zenon
        <3>2. \A x : InCh(x)' <=> InCh(x) \/ x = o
            <4>1. ASSUME NEW x, InCh(x)' PROVE InCh(x) \/ x = o
                <5>1. PICK i \in 1..Len(ch') : ch'[i] = x
                    BY <4>1, Zenon DEF InCh
                <5>2. i \in 1..Len(ch) \/ i = Len(ch) + 1
                    BY <3>1
                <5> QED BY <3>1, <5>1, <5>2, Zenon DEF InCh
            <4>2. 1..Len(ch) \subseteq 1..Len(ch') /\ Len(ch) + 1 \in 1..Len(ch')
                BY <3>1
            <4>3. ASSUME NEW x, InCh(x) PROVE InCh(x)'
                BY <3>1, <4>2, <4>3, Zenon DEF InCh
            <4>4. InCh(o)'
                BY <3>1, <4>2, Zenon DEF InCh
            <4> QED BY <4>1, <4>3, <4>4, Zenon
        <3>3. \A i \in 1..Len(ch) : ch[i] # o
            BY <2>1 DEF IInv, ChannelOK
        <3>4. ASSUME NEW i \in 1..Len(ch') PROVE ChannelOK(i)'
            <4>1. CASE i = Len(ch) + 1
                BY <2>1, <2>2, <3>1, <3>3, <4>1 DEF ChannelOK
            <4>2. CASE i \in 1..Len(ch)
                BY <2>1, <3>1, <3>3, <4>2 DEF ChannelOK, IInv
            <4> QED BY <3>1, <4>1, <4>2
        <3>5. LogTypes'
            BY <1>0, <2>1, <3>1 DEF LogTypes
        <3>6. LossOK'
            BY <1>0, <2>1, <3>1, <3>2 DEF LossOK
        <3> QED BY <2>5, <2>6, <2>7, <3>4, <3>5, <3>6 DEF IInv
    <2>9. CASE ~(Len(ch) < ChannelSize)
        <3>1. ch' = ch /\ overflowed' = overflowed \cup {o}
            BY <2>1, <2>9
        <3>2. \A i \in 1..Len(ch') : ChannelOK(i)'
            BY <2>1, <3>1 DEF ChannelOK, IInv
        <3>3. LogTypes'
            BY <1>0, <2>1, <3>1 DEF LogTypes
        <3>4. LossOK'
            BY <1>0, <2>1, <3>1 DEF LossOK, InCh
        <3> QED BY <2>5, <2>6, <2>7, <3>2, <3>3, <3>4 DEF IInv
    <2> QED BY <2>8, <2>9
<1> QED BY <1>1, <1>2

LEMMA CollectInv ==
    ASSUME IInv, Collect PROVE IInv'
<1>0. LogTypes /\ FlusherOK /\ LossOK
    BY DEF IInv
<1>1. /\ UNCHANGED <<phase, pinging, closed, attempt, resends, index, faults, offered, overflowed,
                     abandoned, died, killed>>
      /\ phase # "exited" /\ flusher = "select" /\ ch # <<>>
      /\ batch' = batch \cup {Head(ch)} /\ ch' = Tail(ch) /\ flusher' \in {"flush", "select"}
    BY DEF Collect, historyVars
<1>2. /\ Head(ch) = ch[1] /\ Head(ch) \in Observations /\ ch' \in Seq(Observations)
      /\ Len(ch) \in Nat \ {0} /\ Len(ch') = Len(ch) - 1
      /\ \A i \in 1..Len(ch') : ch'[i] = ch[i + 1] /\ i + 1 \in 1..Len(ch)
    BY <1>0, <1>1, HeadTail DEF LogTypes
<1>3. PICK o \in Observations : o = Head(ch) /\ o = ch[1]
    BY <1>2
<1>4. ChannelOK(1)
    BY <1>2 DEF IInv
<1>5. Sent' = Sent
    BY <1>1 DEF Sent
<1>a. Sent \in Nat
    BY <1>0, SentBounds
<1>6. LogTypes'
    BY <1>0, <1>1, <1>2 DEF LogTypes
<1>7. \A p \in Pingers : PingOK(p)'
    BY <1>1 DEF PingOK, IInv
<1>8. ASSUME NEW i \in 1..Len(ch') PROVE ChannelOK(i)'
    <2>1. i + 1 \in 1..Len(ch) /\ ch'[i] = ch[i + 1] /\ ChannelOK(i + 1)
        BY <1>2 DEF IInv
    <2>2. ch[i + 1] # o
        BY <1>2, <1>3, <1>4, <2>1 DEF ChannelOK
    <2>3. ASSUME NEW j \in 1..Len(ch'), ch'[j] = ch'[i] PROVE j = i
        <3>1. j + 1 \in 1..Len(ch) /\ ch[j + 1] = ch[i + 1]
            BY <1>2, <2>1, <2>3
        <3>2. j + 1 = i + 1
            BY <2>1, <3>1 DEF ChannelOK
        <3> QED BY <1>2, <3>2
    <2> QED BY <1>1, <1>3, <2>1, <2>2, <2>3 DEF ChannelOK
<1>9. ASSUME NEW x \in Observations PROVE IndexOK(x)'
    <2>1. IndexOK(x)
        BY DEF IInv
    <2>2. o \in offered /\ index[o] = 0
        BY <1>3, <1>4 DEF ChannelOK
    <2> QED BY <1>1, <1>3, <1>5, <1>a, <2>1, <2>2 DEF IndexOK
<1>10. FlusherOK'
    BY <1>0, <1>1 DEF FlusherOK
<1>11. LossOK'
    <2>1. ASSUME NEW x, InCh(x) PROVE InCh(x)' \/ x = o
        <3>1. PICK i \in 1..Len(ch) : ch[i] = x
            BY <2>1 DEF InCh
        <3>2. CASE i = 1
            BY <1>3, <3>1, <3>2
        <3>3. CASE i # 1
            <4>1. i - 1 \in 1..Len(ch') /\ ch'[i - 1] = x
                BY <1>2, <3>1, <3>3
            <4> QED BY <4>1 DEF InCh
        <3> QED BY <3>2, <3>3
    <2> QED BY <1>0, <1>1, <1>3, <2>1 DEF LossOK
<1> QED BY <1>6, <1>7, <1>8, <1>9, <1>10, <1>11 DEF IInv

LEMMA FlushBeginsInv ==
    ASSUME IInv, Tick \/ LastBatch PROVE IInv'
<1>0. LogTypes /\ FlusherOK /\ LossOK
    BY DEF IInv
<1>1. UNCHANGED <<phase, pinging, ch, closed, batch, attempt, resends, index, faults, offered, overflowed,
                  abandoned, died, killed>>
    BY DEF Tick, LastBatch, historyVars
<1>2. LogTypes'
    BY <1>0, <1>1 DEF LogTypes, Tick, LastBatch
<1>3. /\ \A p \in Pingers : PingOK(p)'
      /\ \A i \in 1..Len(ch') : ChannelOK(i)'
      /\ \A o \in Observations : IndexOK(o)'
    BY <1>1 DEF IInv, PingOK, ChannelOK, IndexOK, Sent
<1>4. FlusherOK'
    BY <1>0 DEF FlusherOK, Tick, LastBatch
<1>5. LossOK'
    BY <1>0, <1>1 DEF LossOK, InCh
<1> QED BY <1>2, <1>3, <1>4, <1>5 DEF IInv

LEMMA BulkInv ==
    ASSUME IInv, NEW outcome \in Outcomes, NEW A \in SUBSET batch, Bulk(outcome, A) PROVE IInv'
<1> DEFINE up == GivenUp(outcome)
           over == outcome = "ok" \/ up
           again == Resent(outcome)
<1>0. LogTypes /\ FlusherOK /\ LossOK
    BY DEF IInv
<1>1. /\ UNCHANGED <<phase, pinging, ch, closed, offered, overflowed, died, killed>>
      /\ flusher \in {"flush", "lastFlush"}
      /\ outcome = "ok" => A = batch
      /\ index' = [o \in Observations |-> IF o \in A THEN index[o] + 1 ELSE index[o]]
      /\ resends' = IF again THEN resends + 1 ELSE 0
      /\ attempt' = IF over THEN 0 ELSE IF again THEN attempt ELSE attempt + 1
      /\ batch' = IF over THEN {} ELSE batch
      /\ flusher' = IF ~over THEN flusher ELSE IF flusher = "flush" THEN "select" ELSE "done"
      /\ abandoned' = IF up THEN abandoned \cup batch ELSE abandoned
      /\ faults' = IF outcome = "ok" THEN faults ELSE faults + 1
    BY Zenon DEF Bulk
<1>a. /\ again => outcome # "ok" /\ ~up /\ resends < MaxRetries
      /\ ~over /\ ~again => attempt + 1 # RetryMax
    BY DEF Resent, GivenUp
<1> HIDE DEF up, again
<1>2. faults' \in Nat /\ faults' >= faults /\ (outcome # "ok" => faults' > 0)
    BY <1>0, <1>1 DEF LogTypes
<1>3. \A o \in Observations : index'[o] = IF o \in A THEN index[o] + 1 ELSE index[o]
    BY <1>1
<1>4. LogTypes'
    <2>1. attempt' \in Nat /\ attempt' < RetryMax /\ resends' \in Nat /\ resends' <= MaxRetries
        BY <1>0, <1>1, <1>a, LoggerAssumption DEF LogTypes
    <2>2. index' \in [Observations -> Nat]
        BY <1>0, <1>1 DEF LogTypes
    <2> QED BY <1>0, <1>1, <1>2, <2>1, <2>2 DEF LogTypes
<1>5. \A p \in Pingers : PingOK(p)'
    BY <1>1 DEF IInv, PingOK
<1>6. ASSUME NEW i \in 1..Len(ch') PROVE ChannelOK(i)'
    <2>1. ChannelOK(i) /\ ch[i] \in Observations
        BY <1>0, <1>1 DEF IInv, LogTypes
    <2> QED BY <1>1, <1>3, <2>1 DEF ChannelOK
<1>b. Sent \in Nat /\ MaxCopies \in Nat /\ Sent + 1 <= MaxCopies /\ (Sent > 0 => faults > 0)
    BY <1>0, SentBounds DEF FlusherOK
<1>c. ~over => Sent' >= Sent + 1
    <2>1. CASE again
        <3>1. ~over => attempt' = attempt /\ resends' = resends + 1
            BY <1>1, <2>1
        <3>2. ~over => Sent' = Sent + 1
            BY <1>0, <3>1, LoggerAssumption DEF Sent, LogTypes
        <3> QED BY <1>b, <3>2
    <2>2. CASE ~again
        <3>1. ~over => attempt' = attempt + 1 /\ resends' = 0
            BY <1>1, <2>2
        <3>2. (attempt + 1) * (MaxRetries + 1) >= Sent + 1
            BY <1>0, SentBounds
        <3>3. ~over => Sent' = (attempt + 1) * (MaxRetries + 1)
            BY <1>0, <3>1, LoggerAssumption DEF Sent, LogTypes
        <3> QED BY <3>2, <3>3
    <2> QED BY <2>1, <2>2
<1>d. Sent' \in Nat
    <2>1. attempt' \in Nat /\ resends' \in Nat /\ MaxRetries + 1 \in Nat
        BY <1>4, LoggerAssumption DEF LogTypes
    <2>2. attempt' * (MaxRetries + 1) \in Nat
        BY <2>1
    <2> QED BY <2>1, <2>2 DEF Sent
<1>7. ASSUME NEW o \in Observations PROVE IndexOK(o)'
    <2>1. IndexOK(o) /\ index[o] \in Nat /\ faults \in Nat
        BY <1>0 DEF IInv, LogTypes
    <2>2. CASE o \in A
        <3>1. o \in batch /\ o \in offered /\ index'[o] = index[o] + 1 /\ index[o] <= Sent
            BY <1>3, <2>1, <2>2 DEF IndexOK
        <3>2. index'[o] > 1 => faults' > 0
            BY <1>2, <1>b, <2>1, <3>1
        <3>3. index'[o] <= MaxCopies /\ (~over => index'[o] <= Sent')
            BY <1>b, <1>c, <1>d, <2>1, <3>1
        <3> QED BY <1>1, <3>1, <3>2, <3>3 DEF IndexOK
    <2>3. CASE o \notin A
        <3>1. index'[o] = index[o] /\ index'[o] <= MaxCopies /\ (index'[o] > 1 => faults' > 0)
            BY <1>2, <1>3, <2>1, <2>3 DEF IndexOK
        <3>2. o \in batch' => o \in batch /\ ~over
            BY <1>1
        <3>3. o \in batch' => index'[o] <= Sent'
            BY <1>b, <1>c, <1>d, <2>1, <3>1, <3>2 DEF IndexOK
        <3> QED BY <1>1, <2>1, <3>1, <3>2, <3>3 DEF IndexOK
    <2> QED BY <2>2, <2>3
<1>8. FlusherOK'
    <2>1. over => ~again
        BY <1>a
    <2> QED BY <1>0, <1>1, <1>2, <2>1 DEF FlusherOK, LogTypes
<1>9. LossOK'
    <2>1. ASSUME NEW o \in offered, ~InCh(o), o \notin batch', index'[o] = 0
          PROVE  o \in overflowed \cup abandoned' \cup died
        <3>1. o \in Observations /\ index[o] \in Nat
            BY <1>0 DEF LogTypes
        <3>2. o \notin A /\ index[o] = 0
            BY <1>3, <2>1, <3>1
        <3>3. CASE o \in batch
            BY <1>1, <2>1, <3>2, <3>3
        <3>4. CASE o \notin batch
            BY <1>0, <1>1, <2>1, <3>2, <3>4 DEF LossOK
        <3> QED BY <3>3, <3>4
    <2> QED BY <1>0, <1>1, <2>1 DEF LossOK, InCh
<1> QED BY <1>4, <1>5, <1>6, <1>7, <1>8, <1>9 DEF IInv

LEMMA InitInv == Init => IInv
<1> SUFFICES ASSUME Init PROVE IInv
    OBVIOUS
<1>1. /\ phase = "running" /\ pinging = [p \in Pingers |-> None]
      /\ ch = <<>> /\ closed = FALSE /\ flusher = "select" /\ batch = {} /\ attempt = 0 /\ resends = 0
      /\ index = [o \in Observations |-> 0] /\ faults = 0 /\ offered = {} /\ died = {}
    BY DEF Init, LogInit, Started
<1>2. LogTypes
    <2>1. closed \in BOOLEAN
        BY <1>1, Zenon
    <2>2. ch \in Seq(Observations) /\ attempt < RetryMax /\ resends <= MaxRetries
        BY <1>1, LoggerAssumption
    <2> QED BY <1>1, <2>1, <2>2 DEF LogTypes
<1>3. \A p \in Pingers : PingOK(p)
    BY <1>1 DEF PingOK
<1>4. /\ \A i \in 1..Len(ch) : ChannelOK(i)
      /\ \A o \in Observations : IndexOK(o)
    <2>1. MaxCopies \in Nat
        BY <1>2, SentBounds
    <2> QED BY <1>1, <2>1 DEF ChannelOK, IndexOK
<1>5. FlusherOK /\ LossOK
    BY <1>1 DEF FlusherOK, LossOK
<1> QED BY <1>2, <1>3, <1>4, <1>5 DEF IInv

LEMMA LogNextInv ==
    ASSUME IInv, LogNext PROVE IInv'
BY StartPingInv, LogObservationInv, CollectInv, FlushBeginsInv, BulkInv, SignalsInv, EndInv
   DEF LogNext, FlushStep

LEMMA UnchangedInv ==
    ASSUME IInv, UNCHANGED logVars PROVE IInv'
<1>1. UNCHANGED <<phase, pinging, ch, closed, flusher, batch, attempt, resends, index, faults, offered,
                  overflowed, abandoned, died, killed>>
    BY DEF logVars, historyVars
<1> QED BY <1>1 DEF IInv, LogTypes, PingOK, ChannelOK, IndexOK, Sent, FlusherOK, LossOK, InCh

LEMMA NextInv == IInv /\ [Next]_uptimeVars => IInv'
<1> SUFFICES ASSUME IInv, [Next]_uptimeVars PROVE IInv'
    OBVIOUS
<1>1. LogNext \/ UNCHANGED logVars
    BY DEF Next, Logger, CountTotal, CountSuccess, CountError, uptimeVars
<1> QED BY <1>1, LogNextInv, UnchangedInv

LEMMA Inductive == Spec => []IInv
BY InitInv, NextInv, PTL DEF Spec

(* Every observation that was offered and left no document was refused by  *)
(* the full channel, given up after RetryMax calls, or died with a killed  *)
(* process; a shutdown that runs to its end loses none.             *)
THEOREM LossesHaveCauses == Spec => []LossIsExplained
<1>1. ASSUME IInv PROVE LossIsExplained
    <2>1. \A x : x \in Buffered <=> InCh(x) \/ x \in batch
        BY <1>1, BufferedElements DEF IInv, LogTypes
    <2> QED BY <1>1, <2>1 DEF IInv, LossOK, IndexOK, LossIsExplained
<1> QED BY <1>1, Inductive, PTL
-----------------------------------------------------------------------------
(* The refinement: LogObservation offers one observation, and every other  *)
(* step indexes or settles buffered ones.                                  *)

Stage(o) == IF o \in Buffered THEN "buffered" ELSE IF o \in offered THEN "settled" ELSE "new"

\* Nothing is offered or buffered anew; only buffered observations are indexed
OnlyWrites ==
    /\ offered' = offered
    /\ \A o \in Observations :
         /\ o \in Buffered' => o \in Buffered
         /\ index'[o] # index[o] => o \in Buffered /\ index'[o] = index[o] + 1

LEMMA WritesWrite ==
    ASSUME IInv, IInv', OnlyWrites PROVE Log!Write
<1>1. \A o \in Observations : o \in Buffered => o \in offered
    <2>1. \A x : x \in Buffered <=> InCh(x) \/ x \in batch
        BY BufferedElements DEF IInv, LogTypes
    <2> QED BY <2>1 DEF IInv, InCh, ChannelOK, IndexOK
<1>2. \A o \in Observations : Stage(o)' # Stage(o) => Stage(o) = "buffered" /\ Stage(o)' = "settled"
    BY <1>1 DEF OnlyWrites, Stage
<1>3. [o \in Observations |-> Stage(o)'] \in [Observations -> Log!Stages]
    BY DEF Stage, Log!Stages
<1>4. index' \in [Observations -> 0..MaxCopies]
    <2>1. index' \in [Observations -> Nat] /\ \A o \in Observations : index'[o] <= MaxCopies
        BY DEF IInv, LogTypes, IndexOK, MaxCopies
    <2>2. \A o \in Observations : index'[o] \in 0..MaxCopies
        <3>1. MaxCopies \in Nat
            BY SentBounds DEF IInv
        <3> QED BY <2>1, <3>1
    <2> QED BY <2>1, <2>2
<1>5. \A o \in Observations : index'[o] # index[o] => Stage(o) = "buffered" /\ index'[o] = index[o] + 1
    BY DEF OnlyWrites, Stage
<1> QED BY <1>2, <1>3, <1>4, <1>5 DEF Log!Write, Stage

LEMMA OffersOffer ==
    ASSUME IInv, IInv', NEW p \in Pingers, LogObservation(p), ~closed
    PROVE  \E o \in Observations : Log!Offer(o)
<1>0. LogTypes /\ PingOK(p)
    BY DEF IInv
<1>1. PICK o \in Observations :
        /\ o \notin offered /\ offered' = offered \cup {o}
        /\ ch' = Append(ch, o) \/ ch' = ch
        /\ batch' = batch /\ index' = index
    BY <1>0 DEF LogObservation, LogTypes, PingOK
<1>2. \A x : x \in Buffered <=> InCh(x) \/ x \in batch
    BY <1>0, BufferedElements DEF LogTypes
<1>3. \A x : x \in Buffered' <=> (\E i \in 1..Len(ch') : ch'[i] = x) \/ x \in batch
    <2>1. ch' \in Seq(Observations)
        BY DEF IInv, LogTypes
    <2> QED BY <1>1, <2>1, RangeElements DEF Buffered
<1>4. o \notin Buffered
    BY <1>1, <1>2 DEF IInv, InCh, ChannelOK, IndexOK
<1>5. \A x \in Observations : x # o => (x \in Buffered' <=> x \in Buffered)
    <2>1. CASE ch' = ch
        BY <1>1, <1>2, <1>3, <2>1 DEF InCh
    <2>2. CASE ch' = Append(ch, o)
        <3>1. /\ Len(ch') = Len(ch) + 1 /\ Len(ch) \in Nat /\ ch'[Len(ch) + 1] = o
              /\ \A i \in 1..Len(ch) : ch'[i] = ch[i]
            BY <1>0, <2>2 DEF LogTypes
        <3> QED BY <1>1, <1>2, <1>3, <3>1 DEF InCh
    <2> QED BY <1>1, <2>1, <2>2
<1>6. \A x \in Observations : x # o => Stage(x)' = Stage(x)
    BY <1>1, <1>5 DEF Stage
<1>7. Stage(o) = "new" /\ Stage(o)' \in {"buffered", "settled"}
    BY <1>1, <1>4 DEF Stage
<1>8. PICK s \in {"buffered", "settled"} : s = Stage(o)'
    BY <1>7, Zenon
<1>9. [x \in Observations |-> Stage(x)'] = [[x \in Observations |-> Stage(x)] EXCEPT ![o] = s]
    BY <1>6, <1>8, Zenon
<1>10. Log!Offer(o)
    BY <1>1, <1>7, <1>8, <1>9, Zenon DEF Log!Offer, Stage
<1> QED BY <1>10

LEMMA QuietWrites ==
    ASSUME UNCHANGED <<ch, batch, index, offered>> PROVE OnlyWrites
BY DEF OnlyWrites, Buffered

LEMMA ExitWrites ==
    ASSUME Exit, UNCHANGED <<index, offered>> PROVE OnlyWrites
<1>1. ch' = <<>> /\ batch' = {}
    BY DEF Exit
<1>2. Buffered' = {}
    BY <1>1 DEF Buffered, Range
<1> QED BY <1>2 DEF OnlyWrites

LEMMA CollectWrites ==
    ASSUME IInv, Collect PROVE OnlyWrites
<1>0. LogTypes
    BY DEF IInv
<1>1. UNCHANGED <<index, offered>> /\ ch # <<>> /\ batch' = batch \cup {Head(ch)} /\ ch' = Tail(ch)
    BY DEF Collect, historyVars
<1>2. /\ Head(ch) = ch[1] /\ ch' \in Seq(Observations) /\ Len(ch) \in Nat \ {0}
      /\ \A i \in 1..Len(ch') : ch'[i] = ch[i + 1] /\ i + 1 \in 1..Len(ch)
    BY <1>0, <1>1, HeadTail DEF LogTypes
<1>3. \A x : x \in Buffered <=> InCh(x) \/ x \in batch
    BY <1>0, BufferedElements DEF LogTypes
<1>4. \A x : x \in Buffered' <=> (\E i \in 1..Len(ch') : ch'[i] = x) \/ x \in batch'
    BY <1>2, RangeElements DEF Buffered
<1>5. InCh(Head(ch))
    BY <1>2 DEF InCh
<1> QED BY <1>1, <1>2, <1>3, <1>4, <1>5 DEF OnlyWrites, InCh

LEMMA BulkWrites ==
    ASSUME IInv, NEW outcome \in Outcomes, NEW A \in SUBSET batch, Bulk(outcome, A) PROVE OnlyWrites
<1>1. /\ offered' = offered /\ ch' = ch /\ batch' \subseteq batch
      /\ index' = [o \in Observations |-> IF o \in A THEN index[o] + 1 ELSE index[o]]
    BY DEF Bulk
<1>2. \A o \in Observations : index'[o] = IF o \in A THEN index[o] + 1 ELSE index[o]
    BY <1>1
<1>3. batch \subseteq Buffered /\ Buffered' \subseteq Buffered
    BY <1>1 DEF Buffered
<1> QED BY <1>1, <1>2, <1>3 DEF OnlyWrites

LEMMA LogNextSimulates ==
    ASSUME IInv, LogNext \/ UNCHANGED logVars PROVE Log!Next
<1>0. IInv'
    BY LogNextInv, UnchangedInv
<1>1. ASSUME OnlyWrites PROVE Log!Next
    BY <1>0, <1>1, WritesWrite DEF Log!Next
<1>2. ASSUME NEW p \in Pingers, LogObservation(p) PROVE Log!Next
    <2>1. CASE closed
        BY <1>1, <1>2, <2>1, ExitWrites DEF LogObservation
    <2>2. CASE ~closed
        BY <1>0, <1>2, <2>2, OffersOffer DEF Log!Next
    <2> QED BY <2>1, <2>2
<1>3. ASSUME NEW p \in Pingers, NEW o \in Observations, StartPing(p, o) PROVE OnlyWrites
    BY <1>3, QuietWrites DEF StartPing, historyVars
<1>4. CASE Tick \/ LastBatch \/ Signal \/ Shutdown \/ Restart
    BY <1>1, <1>4, QuietWrites DEF Tick, LastBatch, Signal, Shutdown, Restart, historyVars
<1>5. CASE Stopped \/ Kill
    BY <1>1, <1>5, ExitWrites DEF Stopped, Kill
<1>6. CASE Collect \/ FlushStep
    BY <1>1, <1>6, CollectWrites, BulkWrites DEF FlushStep
<1>7. CASE UNCHANGED logVars
    BY <1>1, <1>7, QuietWrites DEF logVars, historyVars
<1> QED BY <1>1, <1>2, <1>3, <1>4, <1>5, <1>6, <1>7 DEF LogNext

LEMMA NextSimulates ==
    IInv /\ [Next]_uptimeVars =>
        [Log!Next]_<<[o \in Observations |-> IF o \in Buffered THEN "buffered"
                                             ELSE IF o \in offered THEN "settled" ELSE "new"], index>>
<1> SUFFICES ASSUME IInv, [Next]_uptimeVars PROVE Log!Next
    OBVIOUS
<1>1. LogNext \/ UNCHANGED logVars
    BY DEF Next, Logger, CountTotal, CountSuccess, CountError, uptimeVars
<1> QED BY <1>1, LogNextSimulates

LEMMA InitSimulates == Init => Log!Init
<1> SUFFICES ASSUME Init PROVE Log!Init
    OBVIOUS
<1>1. ch = <<>> /\ batch = {} /\ offered = {} /\ index = [o \in Observations |-> 0]
    BY DEF Init, LogInit, Started
<1>2. Buffered = {}
    BY <1>1 DEF Buffered, Range
<1> QED BY <1>1, <1>2 DEF Log!Init

(* The observation logger implements ObservationLog for all sizes and any  *)
(* number of failures: offers never wait, refused observations are never   *)
(* indexed and buffered ones at most RetryMax * (MaxRetries + 1) times,    *)
(* once for every request the calls of the client can make.                *)
THEOREM LoggerRefinesLog == Spec => ImplementsLog
BY Inductive, InitSimulates, NextSimulates, PTL DEF Spec, ImplementsLog, Log!Spec
-----------------------------------------------------------------------------
(* The sizes of the buffers *)

\* The flusher goes back to its select only with room in the batch
SizesOK ==
    /\ Len(ch) <= ChannelSize
    /\ IsFiniteSet(batch) /\ Cardinality(batch) <= BatchSize
    /\ flusher = "select" => Cardinality(batch) < BatchSize
    /\ overflowed \cup abandoned \cup died \subseteq Observations
    /\ killed \in BOOLEAN

LEMMA NoneBuffered ==
    ASSUME ch' = <<>>, batch' = {}, overflowed' \cup abandoned' \cup died' \subseteq Observations,
           killed' \in BOOLEAN
    PROVE  SizesOK'
BY FS_EmptySet, LoggerAssumption DEF SizesOK

LEMMA ExitSizes ==
    ASSUME IInv, SizesOK, Exit, UNCHANGED <<overflowed, abandoned>>, killed' \in BOOLEAN
    PROVE  SizesOK'
<1>1. \A x : x \in Buffered <=> InCh(x) \/ x \in batch
    BY BufferedElements DEF IInv, LogTypes
<1>2. Buffered \subseteq Observations
    BY <1>1 DEF IInv, LogTypes, InCh
<1>3. ch' = <<>> /\ batch' = {} /\ died' = died \cup Buffered
    BY DEF Exit
<1> QED BY <1>2, <1>3, NoneBuffered DEF SizesOK

LEMMA LogObservationSizes ==
    ASSUME IInv, SizesOK, NEW p \in Pingers, LogObservation(p) PROVE SizesOK'
<1>1. CASE closed
    BY <1>1, ExitSizes DEF LogObservation
<1>2. CASE ~closed
    <2>1. pinging[p] \in Observations /\ ch \in Seq(Observations)
        BY DEF LogObservation, IInv, LogTypes
    <2>2. /\ UNCHANGED <<flusher, batch, abandoned, died, killed>>
          /\ IF Len(ch) < ChannelSize
             THEN ch' = Append(ch, pinging[p]) /\ UNCHANGED overflowed
             ELSE overflowed' = overflowed \cup {pinging[p]} /\ UNCHANGED ch
        BY <1>2 DEF LogObservation
    <2>3. Len(ch') <= ChannelSize
        <3>1. Len(Append(ch, pinging[p])) = Len(ch) + 1 /\ Len(ch) \in Nat
            BY <2>1, AppendElements
        <3> QED BY <2>2, <3>1, LoggerAssumption DEF SizesOK
    <2>4. overflowed' \subseteq overflowed \cup Observations
        BY <2>1, <2>2, Zenon
    <2> QED BY <2>2, <2>3, <2>4, Zenon DEF SizesOK
<1> QED BY <1>1, <1>2

LEMMA CollectSizes ==
    ASSUME IInv, SizesOK, Collect PROVE SizesOK'
<1>1. /\ UNCHANGED <<overflowed, abandoned, died, killed>>
      /\ flusher = "select" /\ ch # <<>> /\ ch' = Tail(ch)
      /\ batch' = batch \cup {Head(ch)}
      /\ flusher' = IF Cardinality(batch') >= BatchSize THEN "flush" ELSE "select"
    BY DEF Collect, historyVars
<1>2. Len(ch') <= ChannelSize
    <2>1. Len(ch) \in Nat /\ Len(Tail(ch)) = Len(ch) - 1
        BY <1>1, HeadTail DEF IInv, LogTypes
    <2> QED BY <1>1, <2>1, LoggerAssumption DEF SizesOK
<1>3. Cardinality(batch) \in Nat
    BY FS_CardinalityType DEF SizesOK
<1>4. IsFiniteSet(batch') /\ Cardinality(batch') \in {Cardinality(batch), Cardinality(batch) + 1}
    BY <1>1, FS_AddElement, Zenon DEF SizesOK
<1>5. Cardinality(batch') <= BatchSize /\ (flusher' = "select" => Cardinality(batch') < BatchSize)
    BY <1>1, <1>3, <1>4, LoggerAssumption DEF SizesOK
<1> QED BY <1>1, <1>2, <1>4, <1>5, Zenon DEF SizesOK

LEMMA BulkSizes ==
    ASSUME IInv, SizesOK, NEW outcome \in Outcomes, NEW A \in SUBSET batch, Bulk(outcome, A) PROVE SizesOK'
<1>1. /\ UNCHANGED <<ch, overflowed, died, killed>>
      /\ flusher \in {"flush", "lastFlush"}
      /\ \/ batch' = {}
         \/ batch' = batch /\ flusher' = flusher
      /\ abandoned' \subseteq abandoned \cup batch
    BY DEF Bulk
<1>2. overflowed' \cup abandoned' \cup died' \subseteq Observations
    BY <1>1, Zenon DEF SizesOK, IInv, LogTypes
<1>3. CASE batch' = {}
    BY <1>1, <1>2, <1>3, FS_EmptySet, LoggerAssumption DEF SizesOK
<1>4. CASE batch' = batch /\ flusher' = flusher
    BY <1>1, <1>2, <1>4, Zenon DEF SizesOK
<1> QED BY <1>1, <1>3, <1>4

LEMMA OtherSizes ==
    ASSUME IInv, SizesOK, UNCHANGED <<ch, batch, overflowed, abandoned, died, killed>>,
           flusher' # "select" \/ flusher' = flusher \/ batch = {}
    PROVE  SizesOK'
<1>1. batch = {} => Cardinality(batch) < BatchSize
    BY FS_EmptySet, LoggerAssumption
<1> QED BY <1>1, Zenon DEF SizesOK

LEMMA LogNextSizes ==
    ASSUME IInv, SizesOK, LogNext \/ UNCHANGED logVars PROVE SizesOK'
<1>1. ASSUME NEW p \in Pingers, NEW o \in Observations, StartPing(p, o) PROVE SizesOK'
    BY <1>1, OtherSizes DEF StartPing, historyVars
<1>2. CASE Tick \/ LastBatch
    BY <1>2, OtherSizes DEF Tick, LastBatch, historyVars
<1>3. CASE Signal \/ Shutdown \/ UNCHANGED logVars
    BY <1>3, OtherSizes DEF Signal, Shutdown, logVars, historyVars
<1>4. CASE Restart
    <2>1. batch = {}
        BY <1>4 DEF Restart, IInv, FlusherOK
    <2> QED BY <1>4, <2>1, OtherSizes DEF Restart, historyVars
<1>5. CASE Stopped \/ Kill
    <2>1. killed' \in BOOLEAN
        BY <1>5, Zenon DEF Stopped, Kill, SizesOK
    <2> QED BY <1>5, <2>1, ExitSizes DEF Stopped, Kill
<1> QED BY <1>1, <1>2, <1>3, <1>4, <1>5, LogObservationSizes, CollectSizes, BulkSizes
        DEF LogNext, FlushStep
-----------------------------------------------------------------------------
(* The two counts *)

CalcTypes ==
    /\ calc \in [pc: {"total", "success", "ready"}, total: Nat, success: Nat]
    /\ label \in {None, "Healthy", "Attention Recommended", "Action Required"}
    /\ added \in Nat

\* What the first count missed was indexed after it
CountsOK ==
    /\ calc.pc = "success" => Cardinality(Documents(InPeriod)) <= calc.total + added
    /\ calc.pc = "ready" => calc.success <= calc.total + added

LabelOK == label = "Healthy" => \E o \in Up \cap InPeriod : index[o] > 0

FigureInv == IInv /\ SizesOK /\ CalcTypes /\ CountsOK /\ LabelOK

LEMMA DocumentsFinite ==
    ASSUME NEW S \in SUBSET InPeriod
    PROVE  /\ IsFiniteSet(Documents(S)) /\ IsFiniteSet(Documents(S)')
           /\ Cardinality(Documents(S)) \in Nat /\ Cardinality(Documents(S)') \in Nat
           /\ Cardinality(Documents(S)) <= Cardinality(Documents(InPeriod))
<1>1. IsFiniteSet(1..MaxCopies)
    <2>1. MaxCopies \in Nat
        BY LoggerAssumption DEF MaxCopies
    <2> QED BY <2>1, FS_Interval
<1>2. IsFiniteSet(InPeriod \X (1..MaxCopies))
    BY <1>1, FS_Product, UptimeAssumption, Zenon
<1>3. /\ Documents(InPeriod) \in SUBSET (InPeriod \X (1..MaxCopies))
      /\ Documents(S)' \in SUBSET (InPeriod \X (1..MaxCopies))
      /\ Documents(S) \in SUBSET Documents(InPeriod)
    BY DEF Documents
<1>4. IsFiniteSet(Documents(InPeriod)) /\ IsFiniteSet(Documents(S)')
    BY <1>2, <1>3, FS_Subset
<1>5. IsFiniteSet(Documents(S)) /\ Cardinality(Documents(S)) <= Cardinality(Documents(InPeriod))
    BY <1>3, <1>4, FS_Subset
<1> QED BY <1>4, <1>5, FS_CardinalityType

LEMMA IndexGrows ==
    ASSUME IInv, LogNext \/ UNCHANGED logVars
    PROVE  \A o \in Observations : index'[o] >= index[o]
<1>1. index \in [Observations -> Nat]
    BY DEF IInv, LogTypes
<1>2. ASSUME NEW outcome \in Outcomes, NEW A \in SUBSET batch, Bulk(outcome, A)
      PROVE  \A o \in Observations : index'[o] >= index[o]
    <2>1. index' = [o \in Observations |-> IF o \in A THEN index[o] + 1 ELSE index[o]]
        BY <1>2, Zenon DEF Bulk
    <2> QED BY <1>1, <2>1
<1>3. index' = index \/ FlushStep
    BY DEF LogNext, logVars, LogObservation, StartPing, Collect, Tick, LastBatch, Signal, Shutdown,
           Stopped, Kill, Restart
<1> QED BY <1>1, <1>2, <1>3 DEF FlushStep

LEMMA GrowthCounted ==
    Cardinality(Documents(InPeriod)') <=
        Cardinality(Documents(InPeriod)) + Cardinality(Documents(InPeriod)' \ Documents(InPeriod))
<1> DEFINE D == Documents(InPeriod)
           E == Documents(InPeriod)'
<1>1. IsFiniteSet(D) /\ IsFiniteSet(E) /\ Cardinality(D) \in Nat /\ Cardinality(E) \in Nat
    BY DocumentsFinite
<1>2. Cardinality(E \ D) = Cardinality(E) - Cardinality(E \cap D)
    BY <1>1, FS_Difference, Zenon
<1>3. Cardinality(E \cap D) <= Cardinality(D) /\ IsFiniteSet(E \cap D)
    BY <1>1, FS_Intersection
<1>4. Cardinality(E \cap D) \in Nat
    BY <1>3, FS_CardinalityType
<1> HIDE DEF D, E
<1>5. Cardinality(E) <= Cardinality(D) + Cardinality(E \ D)
    BY <1>1, <1>2, <1>3, <1>4
<1> QED BY <1>5 DEF D, E

LEMMA LoggerFigure ==
    ASSUME FigureInv, Logger PROVE CalcTypes' /\ CountsOK' /\ LabelOK'
<1>0. IInv /\ CalcTypes /\ CountsOK /\ LabelOK
    BY DEF FigureInv
<1>1. /\ UNCHANGED <<calc, label>> /\ LogNext
      /\ added' = IF calc.pc = "success"
                  THEN added + Cardinality(Documents(InPeriod)' \ Documents(InPeriod)) ELSE added
    BY DEF Logger
<1> DEFINE n == Cardinality(Documents(InPeriod)' \ Documents(InPeriod))
<1>2. n \in Nat /\ Cardinality(Documents(InPeriod)) \in Nat /\ Cardinality(Documents(InPeriod)') \in Nat
    <2>1. IsFiniteSet(Documents(InPeriod)' \ Documents(InPeriod))
        BY DocumentsFinite, FS_Difference, Zenon
    <2> QED BY <2>1, FS_CardinalityType, DocumentsFinite
<1>3. Cardinality(Documents(InPeriod)') <= Cardinality(Documents(InPeriod)) + n
    BY GrowthCounted
<1>4. added' = IF calc.pc = "success" THEN added + n ELSE added
    BY <1>1, Zenon
<1> HIDE DEF n
<1>5. CalcTypes'
    <2>1. added \in Nat /\ n \in Nat
        BY <1>0, <1>2, Zenon DEF CalcTypes
    <2>2. added' \in Nat
        BY <1>4, <2>1
    <2> QED BY <1>0, <1>1, <2>2, Zenon DEF CalcTypes
<1>6. CountsOK'
    <2>1. calc.total \in Nat /\ added \in Nat
        BY <1>0, Zenon DEF CalcTypes
    <2>2. calc.pc = "success" => Cardinality(Documents(InPeriod)') <= calc.total + added'
        BY <1>0, <1>2, <1>3, <1>4, <2>1 DEF CountsOK
    <2>3. Cardinality(Documents(InPeriod))' = Cardinality(Documents(InPeriod)')
        OBVIOUS
    <2>4. calc.pc = "ready" => calc.success <= calc.total + added'
        BY <1>0, <1>4 DEF CountsOK
    <2> QED BY <1>1, <2>2, <2>3, <2>4, Zenon DEF CountsOK
<1>7. LabelOK'
    <2>1. /\ \A o \in Observations : index'[o] >= index[o]
          /\ index \in [Observations -> Nat] /\ index' \in [Observations -> Nat]
        BY <1>0, <1>1, IndexGrows, LogNextInv DEF IInv, LogTypes
    <2>2. \A o \in Observations : index[o] > 0 => index'[o] > 0
        BY <2>1
    <2>3. Up \cap InPeriod \subseteq Observations
        BY UptimeAssumption, Zenon
    <2> QED BY <1>0, <1>1, <2>2, <2>3, Zenon DEF LabelOK
<1> QED BY <1>5, <1>6, <1>7
LEMMA CountTotalFigure ==
    ASSUME FigureInv, CountTotal PROVE CalcTypes' /\ CountsOK' /\ LabelOK'
<1>0. CalcTypes /\ LabelOK
    BY DEF FigureInv
<1> DEFINE n == Cardinality(Documents(InPeriod))
<1>1. Count(Observations) = n
    <2>1. Observations \cap InPeriod = InPeriod
        BY UptimeAssumption, Zenon
    <2> QED BY <2>1 DEF Count
<1>2. /\ added' = 0 /\ UNCHANGED logVars
      /\ IF n = 0 THEN Ready(0, 0)
                  ELSE calc' = [pc |-> "success", total |-> n, success |-> 0] /\ UNCHANGED label
    BY <1>1, Zenon DEF CountTotal
<1>3. n \in Nat /\ index' = index
    BY <1>2, DocumentsFinite DEF logVars
<1>4. Cardinality(Documents(InPeriod))' = n
    BY <1>3 DEF Documents
<1> HIDE DEF n
<1>5. CASE n = 0
    <2>1. calc' = [pc |-> "ready", total |-> 0, success |-> 0] /\ label' = "Action Required"
        <3>1. ~(0 > 0)
            OBVIOUS
        <3> QED BY <1>2, <1>5, <3>1, Zenon DEF Ready, HealthLabel
    <2>2. CalcTypes' /\ LabelOK'
        BY <1>2, <2>1, Zenon DEF CalcTypes, LabelOK
    <2>3. CountsOK'
        <3>1. calc'.pc = "ready" /\ calc'.success = 0 /\ calc'.total = 0 /\ added' = 0
            BY <1>2, <2>1, Zenon
        <3>2. 0 <= 0 + 0
            OBVIOUS
        <3> QED BY <3>1, <3>2, Zenon DEF CountsOK
    <2> QED BY <2>2, <2>3
<1>6. CASE n # 0
    <2>1. calc' = [pc |-> "success", total |-> n, success |-> 0] /\ label' = label
        BY <1>2, <1>6
    <2>2. CalcTypes'
        BY <1>0, <1>2, <1>3, <2>1, Zenon DEF CalcTypes
    <2>3. CountsOK'
        BY <1>2, <1>3, <1>4, <2>1 DEF CountsOK
    <2> QED BY <1>0, <1>3, <2>1, <2>2, <2>3, Zenon DEF LabelOK
<1> QED BY <1>5, <1>6

LEMMA SomeFoundUp ==
    ASSUME IInv, Count(Up) > 0
    PROVE  \E o \in Up \cap InPeriod : index[o] > 0
<1>1. IsFiniteSet(Documents(Up \cap InPeriod))
    BY DocumentsFinite
<1>2. Documents(Up \cap InPeriod) # {}
    BY FS_EmptySet DEF Count
<1>3. PICK d \in Documents(Up \cap InPeriod) : TRUE
    BY <1>2, Zenon
<1>4. d[1] \in Up \cap InPeriod /\ d[2] \in 1..MaxCopies /\ d[2] <= index[d[1]]
    BY <1>3 DEF Documents
<1>5. index[d[1]] \in Nat /\ MaxCopies \in Nat
    <2>1. d[1] \in Observations
        BY <1>4, UptimeAssumption, Zenon
    <2> QED BY <2>1, SentBounds DEF IInv, LogTypes
<1>6. index[d[1]] > 0
    BY <1>4, <1>5
<1> QED BY <1>4, <1>6, Zenon

LEMMA CountSuccessFigure ==
    ASSUME FigureInv, CountSuccess PROVE CalcTypes' /\ CountsOK' /\ LabelOK'
<1>0. IInv /\ CalcTypes /\ CountsOK
    BY DEF FigureInv
<1> DEFINE n == Count(Up)
<1>1. n \in Nat /\ n <= Cardinality(Documents(InPeriod)) /\ Cardinality(Documents(InPeriod)) \in Nat
    BY DocumentsFinite DEF Count
<1>2. /\ calc.pc = "success" /\ UNCHANGED <<index, added>>
      /\ calc' = [pc |-> "ready", total |-> calc.total, success |-> n]
      /\ label' = HealthLabel(n, calc.total)
    BY Zenon DEF CountSuccess, Ready, logVars
<1>3. n > 0 => \E o \in Up \cap InPeriod : index[o] > 0
    BY <1>0, SomeFoundUp
<1> HIDE DEF n
<1>4. calc.total \in Nat /\ added \in Nat
    BY <1>0, Zenon DEF CalcTypes
<1>5. label' \in {"Healthy", "Attention Recommended", "Action Required"} /\ (label' = "Healthy" => n > 0)
    <2>1. calc.total > 0 /\ 100 * n >= 99 * calc.total => n > 0
        BY <1>1, <1>4
    <2> QED BY <1>2, <2>1, ZenonT(30) DEF HealthLabel
<1>6. CalcTypes'
    BY <1>1, <1>2, <1>4, <1>5, Zenon DEF CalcTypes
<1>7. n <= calc.total + added
    BY <1>0, <1>1, <1>2, <1>4 DEF CountsOK
<1>8. CountsOK'
    BY <1>2, <1>7 DEF CountsOK
<1> QED BY <1>2, <1>3, <1>5, <1>6, <1>8, Zenon DEF LabelOK

LEMMA FigureInit == Init => FigureInv
<1> SUFFICES ASSUME Init PROVE FigureInv
    OBVIOUS
<1>1. /\ ch = <<>> /\ batch = {} /\ overflowed = {} /\ abandoned = {} /\ died = {} /\ killed = FALSE
      /\ calc = NoCounts /\ label = None /\ added = 0
    BY DEF Init, LogInit, Started
<1>2. SizesOK
    <2>1. killed \in BOOLEAN
        BY <1>1, Zenon
    <2> QED BY <1>1, <2>1, FS_EmptySet, LoggerAssumption DEF SizesOK
<1>3. CalcTypes /\ CountsOK
    BY <1>1 DEF CalcTypes, CountsOK, NoCounts
<1>4. LabelOK
    BY <1>1, UptimeAssumption DEF LabelOK
<1> QED BY <1>2, <1>3, <1>4, InitInv DEF FigureInv
LEMMA FigureNext == FigureInv /\ [Next]_uptimeVars => FigureInv'
<1> SUFFICES ASSUME FigureInv, [Next]_uptimeVars PROVE FigureInv'
    OBVIOUS
<1>1. LogNext \/ UNCHANGED logVars
    BY DEF Next, Logger, CountTotal, CountSuccess, CountError, uptimeVars
<1>2. IInv'
    BY NextInv DEF FigureInv
<1>3. SizesOK'
    BY <1>1, LogNextSizes DEF FigureInv
<1>4. CalcTypes' /\ CountsOK' /\ LabelOK'
    <2>1. CASE CountError
        <3>1. calc' = NoCounts /\ label' = None /\ added' = 0
            BY <2>1 DEF CountError
        <3> QED BY <3>1, UptimeAssumption, Zenon DEF CalcTypes, CountsOK, LabelOK, NoCounts
    <2>2. CASE UNCHANGED uptimeVars
        <3>1. UNCHANGED <<calc, label, added, index>>
            BY <2>2 DEF uptimeVars, logVars
        <3>2. CalcTypes /\ CountsOK /\ LabelOK
            BY DEF FigureInv
        <3> QED BY <3>1, <3>2, Zenon DEF CalcTypes, CountsOK, LabelOK, Documents
    <2> QED BY <2>1, <2>2, LoggerFigure, CountTotalFigure, CountSuccessFigure DEF Next
<1> QED BY <1>2, <1>3, <1>4 DEF FigureInv

LEMMA FigureInductive == Spec => []FigureInv
BY FigureInit, FigureNext, PTL DEF Spec

(* The channel never holds more than its capacity and a batch never more   *)
(* than BatchSize, whatever fails; the flusher collects only while there   *)
(* is room in the batch.                                                   *)
THEOREM BuffersAreBounded == Spec => []TypeOK
<1>1. ASSUME FigureInv PROVE TypeOK
    <2>1. attempt \in 0..RetryMax - 1 /\ resends \in 0..MaxRetries
        BY <1>1, LoggerAssumption DEF FigureInv, IInv, LogTypes
    <2>2. LogTypeOK
        BY <1>1, <2>1, Zenon DEF FigureInv, IInv, LogTypes, SizesOK, LogTypeOK
    <2> QED BY <1>1, <2>2, Zenon DEF FigureInv, CalcTypes, TypeOK
<1> QED BY <1>1, FigureInductive, PTL

(* However the logger writes while a report counts, the figure exceeds     *)
(* 100 % only by documents indexed between the two counts, and no report   *)
(* says Healthy unless a ping of its period found a server up.             *)
THEOREM FiguresAreEarned == Spec => []FigureIsEarned
<1>1. ASSUME FigureInv PROVE FigureIsEarned
    BY <1>1, Zenon DEF FigureInv, CountsOK, LabelOK, FigureIsEarned
<1> QED BY <1>1, FigureInductive, PTL
=============================================================================

---------------------------- MODULE ObservationLog ----------------------------
(***************************************************************************)
(* What the observation logger promises its caller: an offered observation *)
(* is buffered or refused at once, a buffered one is indexed at most       *)
(* MaxCopies times, and is settled in the end, after which nothing more    *)
(* happens to it.  A settled observation may have no document at all.      *)
(***************************************************************************)
EXTENDS Naturals

CONSTANTS Observations, MaxCopies

VARIABLES
    stage,      \* stage[o]: "new", "buffered" or "settled"
    copies      \* copies[o]: documents of o in the index

Stages == {"new", "buffered", "settled"}

Init ==
    /\ stage = [o \in Observations |-> "new"]
    /\ copies = [o \in Observations |-> 0]

Offer(o) ==
    /\ stage[o] = "new"
    /\ \E s \in {"buffered", "settled"} : stage' = [stage EXCEPT ![o] = s]
    /\ UNCHANGED copies

\* One request may index some buffered observations and settle some
Write ==
    /\ stage' \in [Observations -> Stages]
    /\ copies' \in [Observations -> 0..MaxCopies]
    /\ \A o \in Observations :
         /\ stage'[o] # stage[o] => stage[o] = "buffered" /\ stage'[o] = "settled"
         /\ copies'[o] # copies[o] => stage[o] = "buffered" /\ copies'[o] = copies[o] + 1

Next == Write \/ \E o \in Observations : Offer(o)

Spec == Init /\ [][Next]_<<stage, copies>>

(* A buffered observation does not stay buffered *)
BufferedSettles ==
    \A o \in Observations : (stage[o] = "buffered") ~> (stage[o] = "settled")
=============================================================================

------------------------------- MODULE Stats -------------------------------
(***************************************************************************)
(* The statistics idlestat keeps for one C-state or one frequency: how     *)
(* many intervals were recorded, their shortest, longest and total length. *)
(* Times are whole ticks of the trace clock, so the conversion to          *)
(* microseconds (USEC_PER_SEC) scales every value alike and is left out.   *)
(* avg_time is always duration / count and is left out too.                *)
(***************************************************************************)
EXTENDS Integers, FiniteSetsExt

CONSTANT DblMax     \* stands for DBL_MAX, the min_time of an empty record

ASSUME DblMaxAssumption == DblMax \in Nat \ {0}

NoStat == [count |-> 0, min |-> DblMax, max |-> 0, sum |-> 0]

\* One more interval of d ticks.
AddTo(st, d) ==
    [count |-> st.count + 1,
     min   |-> IF st.min < d THEN st.min ELSE d,
     max   |-> IF st.max > d THEN st.max ELSE d,
     sum   |-> st.sum + d]

StatType == [count: Nat, min: Nat, max: Nat, sum: Nat]

\* What any list of recorded intervals satisfies.
Coherent(st) ==
    IF st.count = 0
    THEN st = NoStat
    ELSE /\ 0 < st.min /\ st.min <= st.max
         /\ st.count * st.min <= st.sum
         /\ st.sum <= st.count * st.max

\* ... and a record whose min_time began as 0: the minimum stays 0, the rest
\* is that of some list of intervals.
CoherentButMin(st) ==
    st.min = 0 /\ \E m \in 1 .. DblMax : Coherent([st EXCEPT !.min = m])
=============================================================================

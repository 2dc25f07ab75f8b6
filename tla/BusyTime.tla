----------------------------- MODULE BusyTime ------------------------------
(***************************************************************************)
(* What the P-state table of a cluster promises when all its frequencies   *)
(* are added up: the time during which some CPU of it was running at a     *)
(* known frequency.                                                        *)
(***************************************************************************)
EXTENDS Integers

CONSTANTS Cpus, Clusters, CpusOf(_), MaxTime

VARIABLES
    running,    \* CPU |-> it runs at a known frequency
    busy,       \* cluster |-> busy time so far
    now

vars == <<running, busy, now>>

Init ==
    /\ running = [c \in Cpus |-> FALSE]
    /\ busy = [k \in Clusters |-> 0]
    /\ now = 0

\* Time passes up to t, then at most one CPU starts or stops.
Step(t) ==
    /\ t >= now
    /\ now' = t
    /\ busy' = [k \in Clusters |->
          busy[k] + (IF \E c \in CpusOf(k) : running[c] THEN t - now ELSE 0)]
    /\ \E c \in Cpus, b \in BOOLEAN : running' = [running EXCEPT ![c] = b]

Next == \E t \in 0 .. MaxTime : Step(t)

Spec == Init /\ [][Next]_vars
=============================================================================

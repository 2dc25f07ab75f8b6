----------------------------- MODULE Residency -----------------------------
(***************************************************************************)
(* What C-state statistics promise (idlestat.1): for every CPU the time it *)
(* spent in each C-state, and for a core or a cluster the time during      *)
(* which all its CPUs were idle, by the shallowest of their states.        *)
(***************************************************************************)
EXTENDS Integers, FiniteSetsExt

CONSTANTS Cpus, Units, State, CpusOf(_), MaxTime

VARIABLES
    idle,   \* CPU |-> its C-state, -1 when it runs
    total,  \* unit |-> C-state |-> time spent in it so far
    now

vars == <<idle, total, now>>

Shallowest(u) == Min({idle[c] : c \in CpusOf(u)})

Init ==
    /\ idle = [c \in Cpus |-> -1]
    /\ total = [u \in Units |-> [s \in State |-> 0]]
    /\ now = 0

\* Time passes up to t, then at most one CPU changes its state.
Step(t) ==
    /\ t >= now
    /\ now' = t
    /\ total' = [u \in Units |-> [s \in State |->
          total[u][s] + (IF Shallowest(u) = s THEN t - now ELSE 0)]]
    /\ \E c \in Cpus, s \in State \cup {-1} : idle' = [idle EXCEPT ![c] = s]

Next == \E t \in 0 .. MaxTime : Step(t)

Spec == Init /\ [][Next]_vars
=============================================================================

---------------------------- MODULE MCTraceLoad ----------------------------
(***************************************************************************)
(* Instances of TraceLoad for TLC.  The topology is one cluster with a     *)
(* two-thread core and a single-CPU core, or one cluster with two          *)
(* single-CPU cores, or one core with two threads.                         *)
(***************************************************************************)
EXTENDS TraceLoad

CONSTANTS c1, c2, c3, o1, o2, k1, k2

Cpus2 == {c1, c2}
Cpus3 == {c1, c2, c3}

\* c1 and c2 share a core, c3 has its own in the same cluster.
CoreOf3    == [c \in Cpus3 |-> IF c = c3 THEN o2 ELSE o1]
ClusterOf3 == [o \in {o1, o2} |-> k1]
LeadCpu3   == [u \in {o1, o2, k1} |-> IF u = o2 THEN c3 ELSE c1]

\* Two cores of one CPU, in one cluster.
CoreOf2    == [c \in Cpus2 |-> IF c = c1 THEN o1 ELSE o2]
ClusterOf2 == [o \in {o1, o2} |-> k1]
LeadCpu2   == [u \in {o1, o2, k1} |-> IF u = o2 THEN c2 ELSE c1]

\* One core of two threads.
CoreOfHT    == [c \in Cpus2 |-> o1]
ClusterOfHT == [o \in {o1} |-> k1]
LeadCpuHT   == [u \in {o1, k1} |-> c1]

\* A shallow state worth 2 ticks and a deep one worth 3, so that a stay can be
\* too short or too long; on c3, unknown.
Target3 == [c \in Cpus3 |-> [s \in State |-> IF c = c3 THEN -1 ELSE s + 2]]
Target2 == [c \in Cpus2 |-> [s \in State |-> s + 2]]

\* The last CPU's states have no names, as when it was off line while the names
\* were read: its core's states are not initialised, the cluster's are.
Named3 == [c \in Cpus3 |-> IF c = c3 THEN {} ELSE State]
Named2 == [c \in Cpus2 |-> IF c = c2 THEN {} ELSE State]
=============================================================================

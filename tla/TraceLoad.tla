----------------------------- MODULE TraceLoad -----------------------------
(***************************************************************************)
(* Loading a trace: the loop of load_text_data_lines hands each record to  *)
(* store_data (cpu_idle), cpu_change_pstate (cpu_frequency) or store_irq   *)
(* (irq_handler_entry, ipi_entry), and each handler updates the CPU it     *)
(* names and then the CPU's core and cluster.  One action is one record.   *)
(* The order of the records is what the kernel happened to write.          *)
(***************************************************************************)
EXTENDS CStates, PStates

CONSTANTS
    Cpus, Cores, Clusters,  \* the units of the topology
    CoreOf,                 \* CPU |-> its core
    ClusterOf,              \* core |-> its cluster
    LeadCpu,                \* core or cluster |-> the first CPU listed in it
    TargetResidency,        \* CPU |-> its C-states' target residencies
    Named,                  \* CPU |-> the C-states a name was found for
    FreqRange,              \* frequencies the records name
    Irqs,                   \* IRQs (id and name) the records name
    MaxTime,                \* bound: the last timestamp
    MaxRecords,             \* bound: records in the trace
    Backstep,               \* how far a timestamp may lie before the last one
    Native,                 \* the trace was written by idlestat_store, which
                            \* puts a frequency record for every CPU first
    Lossy                   \* the ring buffer lost records: a CPU may enter
                            \* or leave idle twice in a row

ASSUME TopologyAssumption ==
    /\ Cpus # {} /\ IsFiniteSet(Cpus)
    /\ Cpus \cap Cores = {} /\ Cpus \cap Clusters = {}
    /\ Cores \cap Clusters = {}
    /\ CoreOf \in [Cpus -> Cores]
    /\ ClusterOf \in [Cores -> Clusters]
    /\ \A o \in Cores : \E c \in Cpus : CoreOf[c] = o
    /\ \A k \in Clusters : \E o \in Cores : ClusterOf[o] = k

ASSUME LeadCpuAssumption ==
    /\ LeadCpu \in [Cores \cup Clusters -> Cpus]
    /\ \A o \in Cores : CoreOf[LeadCpu[o]] = o
    /\ \A k \in Clusters : ClusterOf[CoreOf[LeadCpu[k]]] = k

ASSUME InputAssumption ==
    /\ TargetResidency \in [Cpus -> [State -> Int]]
    /\ Named \in [Cpus -> SUBSET State]
    /\ IsFiniteSet(Irqs)
    /\ FreqRange \subseteq Nat \ {0}
    /\ MaxTime \in Nat /\ MaxRecords \in Nat /\ Backstep \in Nat
    /\ Lossy \in BOOLEAN /\ Native \in BOOLEAN

VARIABLES
    cst,        \* unit |-> struct cpuidle_cstates
    pst,        \* unit |-> struct cpufreq_pstates
    wake,       \* CPU |-> its wakeirq (charged or not) and wakeup_info
    now,        \* timestamp of the last record
    ended,      \* CPUs whose final, zero frequency record has been read
    entries,    \* CPU |-> idle entries read so far (history)
    records     \* records read so far

vars == <<cst, pst, wake, now, ended, entries, records>>

Groups == Cores \cup Clusters
Units  == Cpus \cup Groups

CpusOf(u) == {c \in Cpus : u = c \/ u = CoreOf[c] \/ u = ClusterOf[CoreOf[c]]}

\* The states of a unit that were initialised when it was made: create_states
\* copies those of a group's first CPU and skips the ones without a name.
Initialised(u) == IF u \in Cpus THEN State ELSE Named[LeadCpu[u]]

Target(u) ==
    IF u \in Cpus THEN TargetResidency[u]
    ELSE [s \in State |-> IF s \in Named[LeadCpu[u]]
                          THEN TargetResidency[LeadCpu[u]][s] ELSE 0]

IrqStat == [count: Nat, early: Nat, late: Nat]

TypeOK ==
    /\ cst \in [Units -> CStatesType]
    /\ pst \in [Units -> PStatesType]
    /\ wake \in [Cpus -> [charged: BOOLEAN, irq: [Irqs -> IrqStat]]]
    /\ now \in Int
    /\ ended \subseteq Cpus
    /\ entries \in [Cpus -> Nat]
    /\ records \in 0 .. MaxRecords

Init ==
    /\ cst = [u \in Units |-> NewCStates(Initialised(u))]
    /\ pst = [u \in Units |-> NewPStates]
    /\ wake = [c \in Cpus |-> [charged |-> FALSE,
                  irq |-> [i \in Irqs |-> [count |-> 0, early |-> 0, late |-> 0]]]]
    /\ now = 0
    /\ ended = {}
    /\ entries = [c \in Cpus |-> 0]
    /\ records = 0

-----------------------------------------------------------------------------
(* What a core or a cluster is told about its CPUs.                        *)

\* core_get_least_cstate, cluster_get_least_cstate
LeastCstate(cs, u) == Min({cs[c].cur : c \in CpusOf(u)})

(* Slip: idle CPUs of a cluster count too, as they do for a core. *)
HighestFreqOfAll(ps, u) == Max({0} \cup {OpenFreq(ps[c]) : c \in CpusOf(u)})

\* cluster_get_highest_freq skips the CPUs known to be idle,
\* core_get_highest_freq does not.
HighestFreq(ps, u) ==
    Max({0} \cup {OpenFreq(ps[c]) :
                    c \in {d \in CpusOf(u) : u \in Clusters => ps[d].idle <= 0}})

\* The core and the cluster of CPU c, recomputed from their CPUs.
CheckPstateComposite(ps, c, t) ==
    [u \in Units |-> IF u \in Groups /\ c \in CpusOf(u)
                     THEN RecordGroupFreq(ps[u], t, HighestFreq(ps, u))
                     ELSE ps[u]]

CpuPstateIdle(ps, c, t) ==
    CheckPstateComposite([ps EXCEPT ![c] = PstateIdle(@, t)], c, t)

CpuPstateRunning(ps, c, t) ==
    CheckPstateComposite([ps EXCEPT ![c] = PstateRunning(@, t)], c, t)

(* Slip: the core and cluster are only looked at while the CPU is idle. *)
CpuChangePstateNoComposite(ps, c, f, t) ==
    LET changed == [ps EXCEPT ![c] = ChangePstate(@, f, t)]
    IN  IF ps[c].idle # 1 THEN changed
        ELSE CheckPstateComposite(changed, c, t)

CpuChangePstate(ps, c, f, t) ==
    LET changed == [ps EXCEPT ![c] = ChangePstate(@, f, t)]
    IN  IF ps[c].idle = 1 THEN changed
        ELSE CheckPstateComposite(changed, c, t)

-----------------------------------------------------------------------------
(* Timestamps and the records a trace may hold next.                       *)

Timestamp(t) == t \in (now - Backstep) .. MaxTime /\ 0 <= t

NextRecord == records < MaxRecords /\ records' = records + 1

\* output_pstates has written the first frequency of every CPU.
Started == Native => \A c \in Cpus : pst[c].table # <<>>

\* A CPU enters idle when it is not idle and leaves it when it is; the
\* first record of a CPU may be either.
Alternates(c, s) ==
    IF s = -1 THEN cst[c].cur # -1 \/ cst[c].max = -1 ELSE cst[c].cur = -1

(* Slip: the core's state is updated but not the cluster's. *)
StoreCstateCoreOnly(cs, c, s, t) ==
    LET own == [cs EXCEPT ![c] = RecordCstateEvent(@, Target(c), t, s)]
    IN  [u \in Units |->
            IF u = CoreOf[c]
            THEN RecordCstateEvent(own[u], Target(u), t, LeastCstate(own, u))
            ELSE own[u]]

\* The CPU's own C-state, then its core's and cluster's.
StoreCstate(cs, c, s, t) ==
    LET own == [cs EXCEPT ![c] = RecordCstateEvent(@, Target(c), t, s)]
    IN  [u \in Units |->
            IF u \in Groups /\ c \in CpusOf(u)
            THEN RecordCstateEvent(own[u], Target(u), t, LeastCstate(own, u))
            ELSE own[u]]

\* A cpu_idle record: CPU c enters C-state s, or leaves idle (s = -1).
\* A closing state that comes first is ignored; P-states are told only
\* once a frequency is known.  wakeirq is reset by cstate_begin.
StoreData(c, s, t) ==
    /\ NextRecord /\ Started /\ ended = {} /\ Timestamp(t) /\ (Lossy \/ Alternates(c, s))
    /\ now' = t
    /\ IF s = -1 /\ cst[c].max = -1
       THEN UNCHANGED <<cst, pst, wake, entries>>
       ELSE /\ cst' = StoreCstate(cst, c, s, t)
            /\ pst' = IF pst[c].table = <<>> THEN pst
                      ELSE IF s = -1 THEN CpuPstateRunning(pst, c, t)
                                     ELSE CpuPstateIdle(pst, c, t)
            /\ wake' = [wake EXCEPT ![c].charged =
                            @ /\ (s = -1 \/ s = cst[c].cur)]
            /\ entries' = [entries EXCEPT ![c] = @ + (IF s = -1 THEN 0 ELSE 1)]
    /\ UNCHANGED ended

\* A cpu_frequency record.  A start-of-trace record of idlestat's own has
\* frequency 0 when the current frequency could not be read; these records
\* all carry the time tracing started, 0 here.
ChangeFreq(c, f, t) ==
    /\ NextRecord /\ ended = {} /\ Timestamp(t)
    /\ f = 0 => FreqRange # {} /\ pst[c].table = <<>>
    /\ Started \/ (pst[c].table = <<>> /\ t = now)
    /\ now' = t
    /\ pst' = CpuChangePstate(pst, c, f, t)
    /\ UNCHANGED <<cst, wake, ended, entries>>

\* The records idlestat_store appends: frequency 0 for every CPU, at the
\* time tracing stopped.
EndOfTrace(c, t) ==
    /\ NextRecord /\ FreqRange # {} /\ Started /\ c \notin ended /\ Timestamp(t)
    /\ ended # {} => t = now
    /\ now' = t
    /\ ended' = ended \cup {c}
    /\ pst' = CpuChangePstate(pst, c, 0, t)
    /\ UNCHANGED <<cst, wake, entries>>

(* Slip: every IRQ is charged, not only the first. *)
StoreIrqAlways(c, i) ==
    /\ NextRecord /\ Started /\ ended = {}
    /\ wake' = [wake EXCEPT ![c].charged = TRUE, ![c].irq[i].count = @ + 1]
    /\ UNCHANGED <<cst, pst, now, ended, entries>>

ChargeWakeup(w, i, residency) ==
    LET old == w.irq[i]
        new == [count |-> old.count + 1,
                early |-> old.early + (IF residency = "too_short" THEN 1 ELSE 0),
                late  |-> old.late  + (IF residency = "too_long"  THEN 1 ELSE 0)]
    IN  [charged |-> TRUE, irq |-> [w.irq EXCEPT ![i] = new]]

\* An interrupt on CPU c: charged if it is the first since the CPU last
\* entered a C-state, as early or late as the last C-state it left.
StoreIrq(c, i) ==
    /\ NextRecord /\ Started /\ ended = {} /\ ~wake[c].charged
    /\ wake' = [wake EXCEPT ![c] = ChargeWakeup(@, i, cst[c].residency)]
    /\ UNCHANGED <<cst, pst, now, ended, entries>>

Next ==
    \E c \in Cpus :
        \/ \E s \in State \cup {-1}, t \in 0 .. MaxTime : StoreData(c, s, t)
        \/ \E f \in FreqRange \cup {0}, t \in 0 .. MaxTime : ChangeFreq(c, f, t)
        \/ \E t \in 0 .. MaxTime : EndOfTrace(c, t)
        \/ \E i \in Irqs : StoreIrq(c, i)

Spec == Init /\ [][Next]_vars

-----------------------------------------------------------------------------
(* Properties.                                                             *)

\* A core or a cluster is in the least C-state of its CPUs after every
\* record, whatever order the records come in (store_data).
GroupCstateIsLeast == \A u \in Groups : cst[u].cur = LeastCstate(cst, u)

\* The statistics of every state and frequency are those of some list of
\* intervals that lasted, and no wake-up is counted both early and late
\* (cstate_end, close_current_pstate) -- but for the minimum of a core's or
\* cluster's state that has no name, which is 0 however long the shortest
\* stay was (create_states).
StatsCoherent ==
    \A u \in Units :
        /\ \A s \in State : CoherentRecord(cst[u].stat[s], s \in Initialised(u))
        /\ \A i \in DOMAIN pst[u].table : Coherent(pst[u].table[i].st)

\* The frequencies of a table increase, and `current' is one of its entries
\* or none: the index arithmetic of alloc_pstate over many insertions.
TablesSorted == \A u \in Units : TableSorted(pst[u])

\* Time is only ever charged to the frequency that was open before the
\* record, and no frequency leaves a table, although insertions move the
\* entries and `current' (alloc_pstate, close_current_pstate).
ChargesOpenFreqOnly ==
    [][\A u \in Units :
         /\ Freqs(pst[u]) \subseteq Freqs(pst'[u])
         /\ \A f \in Freqs(pst'[u]) :
              \/ StatOf(pst'[u], f) = StatOf(pst[u], f)
              \/ pst[u].cur # 0 /\ OpenFreq(pst[u]) = f]_vars

\* A cluster has an open frequency exactly while one of its CPUs is known
\* to run at one (check_pstate_composite is called wherever that changes).
ClusterOpenIffBusy ==
    \A k \in Clusters : pst[k].cur # 0 <=> HighestFreq(pst, k) > 0

\* A cluster's time is never charged below its highest frequency.
ClusterFreqNeverBelow ==
    \A k \in Clusters : OpenFreq(pst[k]) >= HighestFreq(pst, k)

\* What the comment of cpu_change_pstate says of check_pstate_composite:
\* the open frequency is the highest.  The code breaks it: record_group_freq
\* compares an index read before the insertion with one read after it.
ClusterFreqFollows ==
    \A k \in Clusters : OpenFreq(pst[k]) = HighestFreq(pst, k)

\* ... but only a frequency never seen before can put a cluster out of
\* step with its CPUs, and every later change puts it back.
OutOfStepByInsertionOnly ==
    [][\A k \in Clusters :
         \/ OpenFreq(pst'[k]) = HighestFreq(pst', k)
         \/ Len(pst'[k].table) > Len(pst[k].table)
         \/ pst'[k] = pst[k] /\ OpenFreq(pst[k]) # HighestFreq(pst, k)]_vars

TotalC(u) == MapThenSumSet(LAMBDA s : cst[u].stat[s].all.sum, State)
TotalP(u) == MapThenSumSet(LAMBDA i : pst[u].table[i].st.sum,
                           DOMAIN pst[u].table)

OpenC(u) == IF cst[u].cur = -1 THEN 0 ELSE now - cst[u].begin
OpenP(u) == IF pst[u].cur = 0 \/ pst[u].idle = 1 THEN 0 ELSE now - pst[u].enter

Accounted(c) == TotalC(c) + OpenC(c) + TotalP(c) + OpenP(c)

Forgets(c) == pst[c].idle = -1 /\ pst'[c].idle = -1 /\ pst'[c] # pst[c]

\* From its start record on, every moment of a CPU goes to exactly one C-state
\* or frequency, however C-state and frequency records alternate -- but for
\* one case: a second change of frequency before the first idle entry forgets
\* the time since the first, although the comment of cpu_change_pstate takes
\* it for the first (store_data, cpu_change_pstate; no lost records).
CpuTimeExact ==
    [][\A c \in Cpus : pst[c].table # <<>> =>
         Accounted(c)' = IF Forgets(c) THEN TotalC(c) + TotalP(c)
                         ELSE Accounted(c) + (now' - now)]_vars

\* In idlestat's own traces a cluster that is idle is not charged to any
\* frequency: C-state and P-state tables never overlap.
ClusterIdleOrBusy ==
    \A k \in Clusters : cst[k].cur # -1 => pst[k].cur = 0

Charged(c) == MapThenSumSet(LAMBDA i : wake[c].irq[i].count, Irqs)

\* An IRQ is charged at most once per idle entry, and once more before the
\* first; no wake-up is both early and late (store_irq, cstate_begin).
IrqOncePerEntry ==
    \A c \in Cpus :
        /\ Charged(c) <= entries[c] + 1
        /\ \A i \in Irqs : LET w == wake[c].irq[i]
                           IN  w.early + w.late <= w.count

-----------------------------------------------------------------------------
(* The C-state times are residencies, the cluster P-state times are busy   *)
(* times: what is recorded plus what is still open.                        *)

ResidencyOf ==
    INSTANCE Residency WITH
        idle  <- [c \in Cpus |-> cst[c].cur],
        total <- [u \in Units |-> [s \in State |->
                    cst[u].stat[s].all.sum
                      + (IF cst[u].cur = s THEN now - cst[u].begin ELSE 0)]]

\* Loading a trace computes the time every CPU, core and cluster spent in
\* each state, a group's state being the shallowest of its CPUs'.
ResidencySpec == ResidencyOf!Spec

BusyOf ==
    INSTANCE BusyTime WITH
        running <- [c \in Cpus |-> pst[c].idle <= 0 /\ OpenFreq(pst[c]) > 0],
        busy    <- [k \in Clusters |-> TotalP(k) + OpenP(k)]

\* ... and, over all frequencies, the time some CPU of a cluster was known
\* to run, though the split over frequencies may be wrong.
BusySpec == BusyOf!Spec
=============================================================================

------------------------------ MODULE Baseline ------------------------------
(***************************************************************************)
(* main() between the options and the report: the trace and the baseline   *)
(* are loaded, merge_pstates gives every CPU's two P-state tables the same *)
(* frequencies, and assign_baseline_in_topo lets every cluster, core and   *)
(* CPU of the trace point to its counterpart in the baseline.              *)
(*                                                                         *)
(* A loaded trace is a record: the tree (Topology), the number of CPUs,    *)
(* per CPU the P-states, C-states and charged IRQs, and the P-states and   *)
(* C-states of the clusters and cores.  A node of the tree is the path of  *)
(* positions that leads to it: <<k>> is the k-th cluster, <<k, o>> its     *)
(* o-th core, <<k, o, i>> that core's i-th CPU.                            *)
(***************************************************************************)
EXTENDS Options, CStates, PStates, Topology

CONSTANT Traces     \* what the files may hold

VARIABLES
    main,       \* the trace as it was loaded (history but for the tree)
    base,       \* the baseline as it was loaded
    mainP,      \* datas->pstates: CPU |-> P-states, merged or not
    baseP,      \* baseline->pstates
    cpu,        \* the loop of merge_pstates: the CPU,
    back,       \* which of the two inner loops,
    idx,        \* and its index
    baseOf      \* node |-> node of the baseline, once assigned

mergeVars  == <<mainP, baseP, cpu, back, idx>>
loadVars   == <<main, base, mergeVars, baseOf>>

ClusterNodes(topo) == {<<k>> : k \in DOMAIN topo.clusters}
CoreNodes(topo)  == UNION {{<<k, o>> : o \in DOMAIN topo.clusters[k].cores} :
                            k \in DOMAIN topo.clusters}
CpuList(topo, n) == topo.clusters[n[1]].cores[n[2]].cpus
CpuNodes(topo)   == UNION {{<<o[1], o[2], i>> : i \in DOMAIN CpuList(topo, o)} :
                            o \in CoreNodes(topo)}
Nodes(topo)    == ClusterNodes(topo) \cup CoreNodes(topo) \cup CpuNodes(topo)

CpuIds(trace) == 0 .. trace.nrcpus - 1
CpuAt(topo, n) == CpuList(topo, n)[n[3]].id

\* An entry of wakeinfo.  `name' stands for the number and the name that
\* find_irqinfo compares, so that there is one entry of each.
IrqEntry == [name : Int, stat : [count : Nat, early : Nat, late : Nat]]

OneEntryPerIrq(irqs) ==
    /\ irqs \in Seq(IrqEntry)
    /\ \A i, j \in DOMAIN irqs : irqs[i].name = irqs[j].name => i = j

\* What is proved of TraceLoad about the tables of every unit of every load: TypeOK,
\* TablesSorted, StatsCoherent.
LoadedTable(ps) ==
    /\ ps \in PStatesType /\ TableSorted(ps)
    /\ \A i \in DOMAIN ps.table : Coherent(ps.table[i].st)

\* The CPUs of the tree are among the nrcpus of the file.
UnitsOK(trace) ==
    /\ trace.topo \in TopoType
    /\ \A n \in CpuNodes(trace.topo) : LET c == CpuAt(trace.topo, n) IN
          c \in CpuIds(trace) /\ trace.cst[c] \in CStatesType /\ OneEntryPerIrq(trace.irqs[c])
    /\ \A n \in ClusterNodes(trace.topo) \cup CoreNodes(trace.topo) :
          LoadedTable(trace.groupP[n]) /\ trace.groupC[n] \in CStatesType

ASSUME TracesAssumption ==
    \A tr \in Traces :
        /\ tr.nrcpus \in Nat /\ UnitsOK(tr) /\ DOMAIN tr.pst = CpuIds(tr)
        /\ \A c \in CpuIds(tr) : LoadedTable(tr.pst[c])

NoTrace ==
    [topo |-> EmptyTopo, nrcpus |-> 0, pst |-> <<>>, cst |-> <<>>,
     groupP |-> <<>>, groupC |-> <<>>, irqs |-> <<>>]

BaselineInit ==
    /\ main = NoTrace /\ base = NoTrace /\ mainP = <<>> /\ baseP = <<>>
    /\ cpu = 0 /\ back = FALSE /\ idx = 1 /\ baseOf = <<>>

HasBaseline == options.names["baseline-trace"] = "good"

-----------------------------------------------------------------------------
\* get_report_ops, check_options and check_output, and the root check.  A
\* terminal narrower than 80 columns is no place for a table.
ReportPossible ==
    /\ options.style \in Styles
    /\ options.style = "comparison" => HasBaseline

MayRefuse ==
    \/ options.mode = "trace"
    \/ options.style # "csv" /\ options.names["output-file"] = "none"

CheckReport ==
    /\ phase = "check"
    /\ \/ ReportPossible /\ phase' = "load"
       \/ (~ReportPossible \/ MayRefuse) /\ phase' = "failed"
    /\ words' = <<>>
    /\ UNCHANGED <<options, loadVars>>

\* The tracing session, if there is one, and idlestat_load: the file may
\* hold any trace, or no trace that can be loaded.
LoadMain ==
    /\ phase = "load"
    /\ \/ phase' = "failed" /\ UNCHANGED <<main, mainP>>
       \/ \E trace \in Traces :
             /\ main' = trace /\ mainP' = trace.pst
             /\ phase' = IF HasBaseline THEN "load baseline" ELSE "open"
    /\ UNCHANGED <<optionVars, base, baseP, cpu, back, idx, baseOf>>

\* A baseline that is not loaded meets the assertion of merge_pstates.
LoadBaseline ==
    /\ phase = "load baseline"
    /\ \/ phase' = "aborted" /\ UNCHANGED <<base, baseP>>
       \/ \E trace \in Traces :
             base' = trace /\ baseP' = trace.pst /\ phase' = "merge"
    /\ UNCHANGED <<optionVars, main, mainP, cpu, back, idx, baseOf>>

-----------------------------------------------------------------------------
(* merge_pstates.                                                          *)

Merging == phase = "merge" /\ cpu < main.nrcpus

\* The number of CPUs is that of the main trace; the baseline's array may
\* be shorter.
MergePastBaseline ==
    /\ Merging /\ cpu >= base.nrcpus
    /\ phase' = "undefined" /\ UNCHANGED <<optionVars, loadVars>>

(* Slip: the first frequency of the trace is not looked at. *)
MergeIntoBaselineButFirst ==
    /\ Merging /\ cpu < base.nrcpus /\ ~back
    /\ idx <= Len(mainP[cpu].table)
    /\ baseP' = IF idx = 1 THEN baseP
                ELSE [baseP EXCEPT ![cpu] = AllocPstate(@, mainP[cpu].table[idx].freq)]
    /\ idx' = idx + 1
    /\ UNCHANGED <<phase, optionVars, main, base, mainP, cpu, back, baseOf>>

MergeIntoBaseline ==
    /\ Merging /\ cpu < base.nrcpus /\ ~back
    /\ idx <= Len(mainP[cpu].table)
    /\ baseP' = [baseP EXCEPT ![cpu] = AllocPstate(@, mainP[cpu].table[idx].freq)]
    /\ idx' = idx + 1
    /\ UNCHANGED <<phase, optionVars, main, base, mainP, cpu, back, baseOf>>

MergeTurn ==
    /\ Merging /\ cpu < base.nrcpus /\ ~back
    /\ idx > Len(mainP[cpu].table)
    /\ back' = TRUE /\ idx' = 1
    /\ UNCHANGED <<phase, optionVars, main, base, mainP, baseP, cpu, baseOf>>

(* Slip: the last frequency of the baseline is not looked at. *)
MergeIntoMainButLast ==
    /\ Merging /\ back /\ idx <= Len(baseP[cpu].table)
    /\ mainP' = IF idx = Len(baseP[cpu].table) THEN mainP
                ELSE [mainP EXCEPT ![cpu] = AllocPstate(@, baseP[cpu].table[idx].freq)]
    /\ idx' = idx + 1
    /\ UNCHANGED <<phase, optionVars, main, base, baseP, cpu, back, baseOf>>

MergeIntoMain ==
    /\ Merging /\ back /\ idx <= Len(baseP[cpu].table)
    /\ mainP' = [mainP EXCEPT ![cpu] = AllocPstate(@, baseP[cpu].table[idx].freq)]
    /\ idx' = idx + 1
    /\ UNCHANGED <<phase, optionVars, main, base, baseP, cpu, back, baseOf>>

MergeNextCpu ==
    /\ Merging /\ back /\ idx > Len(baseP[cpu].table)
    /\ cpu' = cpu + 1 /\ back' = FALSE /\ idx' = 1
    /\ UNCHANGED <<phase, optionVars, main, base, mainP, baseP, baseOf>>

MergeDone ==
    /\ phase = "merge" /\ cpu = main.nrcpus
    /\ phase' = "assign" /\ UNCHANGED <<optionVars, loadVars>>

Merge == MergePastBaseline \/ MergeIntoBaseline \/ MergeTurn
            \/ MergeIntoMain \/ MergeNextCpu \/ MergeDone

-----------------------------------------------------------------------------
(* assign_baseline_in_topo: the two trees are walked in step, by position. *)

(* Slip: the walk does not step to the next CPU of the baseline. *)
CounterpartFirstCpu(n) == IF Len(n) = 3 THEN <<n[1], n[2], 1>> ELSE n

Counterpart(n) == n

\* Behind the end of one of the baseline's lists is its head, which is no
\* cluster, core or CPU.
AssignBaseline ==
    /\ phase = "assign"
    /\ IF Nodes(main.topo) \subseteq Nodes(base.topo)
       THEN /\ baseOf' = [n \in Nodes(main.topo) |-> Counterpart(n)]
            /\ phase' = "open"
       ELSE phase' = "undefined" /\ UNCHANGED baseOf
    /\ UNCHANGED <<optionVars, main, base, mergeVars>>

ReadOptions == (\E w \in Words : ReadWord(w)) \/ EndOfOptions

BaselineNext ==
    \/ ReadOptions /\ UNCHANGED loadVars
    \/ CheckReport \/ LoadMain \/ LoadBaseline \/ Merge \/ AssignBaseline

-----------------------------------------------------------------------------
(* Properties.                                                             *)

FreqAt(ps) == [i \in DOMAIN ps.table |-> ps.table[i].freq]

\* Once merge_pstates has been through with a CPU, its two tables have the
\* same frequencies row by row, whatever each of them had before and
\* although each call of alloc_pstate moves the rows of the table that the
\* other loop walks.  The reports pair rows by their number.
MergedRowsAgree ==
    \A c \in CpuIds(main) : c < cpu => FreqAt(mainP[c]) = FreqAt(baseP[c])

Kept(ps, loaded) ==
    /\ Freqs(loaded) \subseteq Freqs(ps)
    /\ \A f \in Freqs(ps) : StatOf(ps, f) = StatOf(loaded, f)
    /\ OpenFreq(ps) = OpenFreq(loaded)

\* Merging adds rows without hits and changes nothing that was measured: a
\* frequency keeps its statistics, and `current' its frequency.
MergeKeepsMeasurements ==
    /\ \A c \in CpuIds(main) : Kept(mainP[c], main.pst[c])
    /\ \A c \in CpuIds(base) : Kept(baseP[c], base.pst[c])
=============================================================================

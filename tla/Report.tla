------------------------------- MODULE Report -------------------------------
(***************************************************************************)
(* The reports: main() asks for one table after the other,                 *)
(* dump_cpu_topo_info walks the tree, and display_cstates, display_pstates *)
(* and display_wakeup hand the rows of one unit to the report's            *)
(* operations.  The four styles differ in wording only, but for the        *)
(* comparison, which is told the baseline's row before the trace's.        *)
(*                                                                         *)
(* What is printed is a sequence of table headings, unit headings and      *)
(* rows.  A row, or a baseline row behind it, remembers the node it came   *)
(* from, which is not printed.                                             *)
(***************************************************************************)
EXTENDS Baseline

VARIABLES
    tables,     \* the tables still to come, the current one first
    todo,       \* the units still to come, the current one first
    row,        \* the loop of display_cstates and the others
    headed,     \* cpu_header: the unit's heading is out
    pending,    \* curr_cstate_baseline, curr_pstate_baseline: a row or none
    out         \* the report

reportVars == <<tables, todo, row, headed, pending, out>>
vars == <<phase, optionVars, loadVars, reportVars>>

ReportInit ==
    /\ tables = <<>> /\ todo = <<>> /\ row = 1 /\ headed = FALSE
    /\ pending = {} /\ out = <<>>

Init == OptionsInit /\ BaselineInit /\ ReportInit

Heading(t) == [event |-> "table", table |-> t]
UnitLine(n) == [event |-> "unit", node |-> n]
\* c and b are rows, or none: a row that is missing is printed as zero.
RowLine(c, b) == [event |-> "row", row |-> c, base |-> b]

-----------------------------------------------------------------------------
\* Cluster, core, CPUs, in the order of the tree; a core of one CPU is not
\* a unit of its own (is_ht).
Dumped(topo) ==
    LET core(k, o) ==
          LET cpus == topo.clusters[k].cores[o].cpus IN
          (IF Len(cpus) > 1 THEN <<<<k, o>>>> ELSE <<>>)
            \o [i \in DOMAIN cpus |-> <<k, o, i>>]
        cluster(k) ==
          <<<<k>>>> \o FlattenSeq([o \in DOMAIN topo.clusters[k].cores |-> core(k, o)])
    IN  FlattenSeq([k \in DOMAIN topo.clusters |-> cluster(k)])

\* The structures a node of a trace points to.
PstatesOf(trace, ps, n) ==
    IF Len(n) = 3 THEN ps[CpuAt(trace.topo, n)] ELSE trace.groupP[n]
CstatesOf(trace, n) ==
    IF Len(n) = 3 THEN trace.cst[CpuAt(trace.topo, n)] ELSE trace.groupC[n]
\* store_irq charges CPUs only, and an entry it makes has a hit.
IrqsOf(trace, n) ==
    IF Len(n) = 3 THEN trace.irqs[CpuAt(trace.topo, n)] ELSE <<>>

\* The rows of one unit in table t, as the display functions count them.
CstateRow(trace, n, i) ==
    LET st == CstatesOf(trace, n).stat[i - 1] IN
    [node |-> n, name |-> i - 1, stat |-> st, hits |-> st.all.count]
PstateRow(trace, ps, n, i) ==
    LET p == PstatesOf(trace, ps, n).table[i] IN
    [node |-> n, name |-> p.freq, stat |-> p.st, hits |-> p.st.count]
IrqRow(trace, n, i) ==
    LET irq == IrqsOf(trace, n)[i] IN
    [node |-> n, name |-> irq.name, stat |-> irq.stat, hits |-> irq.stat.count]

Rows(trace, ps, t, n) ==
    CASE t = "idle" -> [i \in 1 .. CstatesOf(trace, n).max + 1 |-> CstateRow(trace, n, i)]
      [] t = "frequency" -> [i \in DOMAIN PstatesOf(trace, ps, n).table |->
                                PstateRow(trace, ps, n, i)]
      [] t = "wakeup" -> [i \in DOMAIN IrqsOf(trace, n) |-> IrqRow(trace, n, i)]

\* The same row of the baseline.  Every C-state has one, entered or not; the
\* array of frequencies ends with its last one, and is NULL while it is empty.
BaseRow(t, n, i) ==
    CASE ~HasBaseline \/ t = "wakeup" -> {}
      [] HasBaseline /\ t = "idle" -> {CstateRow(base, baseOf[n], i)}
      [] HasBaseline /\ t = "frequency" ->
            IF i \in DOMAIN PstatesOf(base, baseP, baseOf[n]).table
            THEN {PstateRow(base, baseP, baseOf[n], i)} ELSE {}

BeyondBaseline(t, n, i) ==
    /\ HasBaseline /\ t = "frequency"
    /\ i > Len(PstatesOf(base, baseP, baseOf[n]).table) /\ i > 1

Hits(rows) == \E r \in rows : r.hits > 0
TakesBaseline == options.style = "comparison"

-----------------------------------------------------------------------------
(* The report's operations: what they do to pending and to the output.     *)

SoFar == [pending |-> pending, out |-> out]

\* compare_cstate_single_state, compare_pstate_single_freq; the other styles
\* have nothing pending.
SingleState(s, c) == [pending |-> {}, out |-> Append(s.out, RowLine(c, s.pending))]

Flush(s) == IF s.pending = {} THEN s ELSE SingleState(s, {})

\* compare_set_baseline_cstate, compare_set_baseline_pstate
SetBaseline(s, b) == [Flush(s) EXCEPT !.pending = b]

CpuHeader(s, n) == IF headed THEN s ELSE [s EXCEPT !.out = Append(@, UnitLine(n))]

Becomes(s) == pending' = s.pending /\ out' = s.out

-----------------------------------------------------------------------------
Reporting == phase = "report" /\ UNCHANGED <<optionVars, loadVars>>

\* The tables that were asked for, in the order main prints them.
AskedFor(t) == IF t \in options.display THEN <<t>> ELSE <<>>

OpenReport ==
    /\ phase = "open"
    /\ \/ phase' = "failed" /\ UNCHANGED reportVars
       \/ /\ phase' = "report"
          /\ tables' = AskedFor("idle") \o AskedFor("frequency") \o AskedFor("wakeup")
          /\ out' = <<Heading(Head(tables'))>> /\ todo' = Dumped(main.topo)
          /\ UNCHANGED <<row, headed, pending>>
    /\ UNCHANGED <<optionVars, loadVars>>

MainRows == Rows(main, mainP, Head(tables), Head(todo))

\* The baseline's row is read where the trace's has no hits, and handed on
\* where the report asks for it.
ReadsBaseRow == TakesBaseline \/ ~Hits({MainRows[row]})

(* Slip: a row is left out unless the trace has hits for it. *)
ShowRowIfHit ==
    /\ Reporting /\ todo # <<>> /\ row <= Len(MainRows)
    /\ LET n == Head(todo)
           c == {MainRows[row]}
           b == BaseRow(Head(tables), n, row)
       IN  IF Hits(c)
           THEN LET h == CpuHeader(SoFar, n)
                    s == IF TakesBaseline /\ b # {} THEN SetBaseline(h, b) ELSE h
                IN  Becomes(SingleState(s, c)) /\ headed' = TRUE
           ELSE UNCHANGED <<pending, out, headed>>
    /\ row' = row + 1
    /\ UNCHANGED <<phase, tables, todo>>

ShowRow ==
    /\ Reporting /\ todo # <<>> /\ row <= Len(MainRows)
    /\ ~(BeyondBaseline(Head(tables), Head(todo), row) /\ ReadsBaseRow)
    /\ LET n == Head(todo)
           c == {MainRows[row]}
           b == BaseRow(Head(tables), n, row)
       IN  IF Hits(c \cup b)
           THEN LET h == CpuHeader(SoFar, n)
                    s == IF TakesBaseline /\ b # {} THEN SetBaseline(h, b) ELSE h
                IN  Becomes(SingleState(s, c)) /\ headed' = TRUE
           ELSE UNCHANGED <<pending, out, headed>>
    /\ row' = row + 1
    /\ UNCHANGED <<phase, tables, todo>>

ShowWildRow ==
    /\ Reporting /\ todo # <<>> /\ row <= Len(MainRows)
    /\ BeyondBaseline(Head(tables), Head(todo), row) /\ ReadsBaseRow
    /\ phase' = "undefined" /\ UNCHANGED reportVars

\* compare_cstate_end_cpu and compare_pstate_end_cpu, and on to the next unit.
EndUnit ==
    /\ Reporting /\ todo # <<>> /\ row > Len(MainRows)
    /\ Becomes(IF headed THEN Flush(SoFar) ELSE SoFar)
    /\ todo' = Tail(todo) /\ row' = 1 /\ headed' = FALSE
    /\ UNCHANGED <<phase, tables>>

NextTable ==
    /\ Reporting /\ todo = <<>>
    /\ tables' = Tail(tables)
    /\ IF tables' = <<>>
       THEN phase' = "done" /\ UNCHANGED <<out, todo>>
       ELSE /\ out' = Append(out, Heading(Head(tables')))
            /\ todo' = Dumped(main.topo) /\ UNCHANGED phase
    /\ UNCHANGED <<row, headed, pending>>

Next ==
    \/ BaselineNext /\ UNCHANGED reportVars
    \/ OpenReport \/ ShowRow \/ ShowWildRow \/ EndUnit \/ NextTable

Spec == Init /\ [][Next]_vars

-----------------------------------------------------------------------------
(* Properties.                                                             *)

\* The places of the report's lines.
IsA(i, event) == out[i].event = event
TableAt(i) == out[Max({j \in 1 .. i : IsA(j, "table")})].table
LinesOf(t) == {i \in DOMAIN out : IsA(i, "row") /\ TableAt(i) = t}

\* The unit a reader takes a row to belong to: the last heading's.
UnitAt(i) == out[Max({j \in 1 .. i : IsA(j, "unit")})].node

\* csv-format.txt: a CPU belongs to a core or a cluster, a core to a
\* cluster, and only the order of the lines says to which.  A unit's line
\* follows its own cluster's, if that has one: one without hits has none.
UnderOwnCluster ==
    \A i \in DOMAIN out : IsA(i, "unit") =>
        LET before == {j \in 1 .. i : IsA(j, "unit") /\ Len(out[j].node) = 1
                                      /\ TableAt(j) = TableAt(i)}
            own    == {j \in before : out[j].node[1] = out[i].node[1]}
        IN  own # {} => Max(before) \in own

Shown(t, n, r) ==
    Cardinality({i \in LinesOf(t) : UnitAt(i) = n /\ out[i].row = {r}}) = 1

ShownAsBaseline(t, n, r) ==
    Cardinality({i \in LinesOf(t) : UnitAt(i) = n /\ out[i].base = {r}}) = 1

Measured(trace, t, n) ==
    {r \in ToSet(Rows(trace, trace.pst, t, n)) : r.hits > 0}

Compared(t, n) ==
    {r \in Measured(base, t, baseOf[n]) :
        \/ t = "idle" /\ r.name <= CstatesOf(main, n).max
        \/ t = "frequency" /\ Len(n) = 3
             /\ CpuAt(main.topo, n) = CpuAt(base.topo, n)}

\* Every row in which the trace has hits is in the report once, under its
\* own table and unit, with what was measured, merged or not; and so, in a
\* comparison, is every row in which only the baseline has hits, but for
\* C-states deeper than any the unit was in.
ReportComplete ==
    phase = "done" => \A t \in options.display, n \in ToSet(Dumped(main.topo)) :
        /\ \A r \in Measured(main, t, n) : Shown(t, n, r)
        /\ TakesBaseline => \A r \in Compared(t, n) : ShownAsBaseline(t, n, r)
        /\ \A i \in LinesOf(t) : UnitAt(i) = n => \A r \in out[i].row : r.node = n
        /\ UnderOwnCluster

UnitId(topo, n) == <<topo.clusters[n[1]].id,
                     IF Len(n) > 1 THEN topo.clusters[n[1]].cores[n[2]].id ELSE 0,
                     IF Len(n) > 2 THEN CpuAt(topo, n) ELSE 0>>

SameGroupFreqs(n) ==
    Len(n) < 3 => FreqAt(main.groupP[n]) = FreqAt(base.groupP[n])

\* Two machines are compared unit by unit and state by state: a row of a
\* CPU, core or cluster stands beside the same state of the same unit,
\* whatever either trace has seen.  Tables of cores and clusters that do
\* not have the same frequencies are another matter.
ComparedWithItself ==
    HasBaseline /\ SameTree(main.topo, base.topo) =>
        \A i \in DOMAIN out : IsA(i, "row") =>
            \A c \in out[i].row, b \in out[i].base :
                /\ UnitId(main.topo, c.node) = UnitId(base.topo, b.node)
                /\ TableAt(i) = "idle" \/ SameGroupFreqs(c.node) => c.name = b.name

\* What is read beside a row is a row of the baseline: a baseline with
\* fewer CPUs or another tree is outside what merge_pstates and
\* assign_baseline_in_topo can cope with, and after them only a core's or
\* cluster's table, or that of a CPU standing beside another one, is shorter.
NothingWildRead ==
    phase = "undefined" =>
        IF todo = <<>>
        THEN base.nrcpus < main.nrcpus \/ ~(Nodes(main.topo) \subseteq Nodes(base.topo))
        ELSE LET n == Head(todo) IN
             IF Len(n) = 3 THEN CpuAt(main.topo, n) # CpuAt(base.topo, n)
             ELSE Len(base.groupP[n].table) < Len(main.groupP[n].table)

\* merge_pstates: "the data ... exists in both trace results for all
\* frequencies used by either trace".  It merges the tables of the CPUs, and
\* the rows of a core's or a cluster's are paired by number all the same.
FrequenciesPaired ==
    \A i \in DOMAIN out : IsA(i, "row") /\ TableAt(i) = "frequency" =>
        \A c \in out[i].row, b \in out[i].base : c.name = b.name
=============================================================================

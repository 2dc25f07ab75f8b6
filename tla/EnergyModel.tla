----------------------------- MODULE EnergyModel -----------------------------
(***************************************************************************)
(* The energy model of energy_model.c: parse_energy_model reads its file   *)
(* line by line into a table with a row per P-state and C-state of every   *)
(* cluster, and calculate_energy_consumption charges what the clusters and *)
(* CPUs did in a trace with the powers of those rows.                      *)
(*                                                                         *)
(* Comments and blank lines change nothing and are left out, and a line    *)
(* that names a cluster is complete.  An energy is a whole number of       *)
(* microseconds times power.                                               *)
(***************************************************************************)
EXTENDS Integers, Sequences, FiniteSets, FiniteSetsExt

CONSTANTS
    Lines,      \* the lines a file is made of
    MaxLines,   \* bound on the length of a file
    Leftover,   \* what memory from realloc may hold
    Usage       \* cluster |-> what it and its CPUs did in the trace

LineKinds == {"clusters", "cluster", "P-states", "C-states", "wakeup",
              "speed row", "name row", "incomplete row"}

ASSUME EnergyModelAssumption ==
    /\ \A l \in Lines :
          /\ l.kind \in LineKinds
          /\ l.kind = "clusters" => l.n \in Nat
          /\ l.kind = "cluster" =>
                l.id \in Nat /\ l.caps \in Nat /\ l.cstates \in Nat
          /\ l.kind \in {"speed row", "name row"} =>
                l.cluster \in Nat /\ l.core \in Nat
    /\ MaxLines \in Nat
    /\ Leftover \subseteq Nat /\ Leftover # {}

\* The times of a unit's C-states and of its frequencies.
IsUnit(unit) ==
    \A times \in {unit.idle, unit.busy} :
        IsFiniteSet(DOMAIN times) /\ \A x \in DOMAIN times : times[x] \in Nat

ASSUME UsageAssumption ==
    \A k \in DOMAIN Usage :
        /\ k \in Nat /\ IsUnit(Usage[k].cluster)
        /\ IsFiniteSet(DOMAIN Usage[k].cpus)
        /\ \A i \in DOMAIN Usage[k].cpus : IsUnit(Usage[k].cpus[i])

VARIABLES
    clusters,   \* clusters_in_energy_file
    table,      \* cluster_energy_table
    current,    \* current_cluster, -1 before the first
    nextP,      \* current_pstate
    nextC,      \* current_cstate
    result,     \* "reading", "refused", "parsed", "reported", "undefined"
    energy,     \* what is reported: cluster |-> energy
    lines       \* the lines read so far (history)

vars == <<clusters, table, current, nextP, nextC, result, energy, lines>>

NoRow == [key |-> 0, cluster |-> 0, core |-> 0]
RowOf(line) == [key |-> line.key, cluster |-> line.cluster, core |-> line.core]
EmptyRows(n) == [i \in 0 .. n - 1 |-> NoRow]

\* An entry nobody has written yet: only its number_cap_states is looked at.
Unset(left) == [caps |-> left, cstates |-> 0, p |-> EmptyRows(0),
                c |-> EmptyRows(0), wakeup |-> <<0, 0>>, state |-> "unset"]

Init ==
    /\ clusters = 0 /\ table = [k \in {} |-> Unset(0)] /\ current = -1
    /\ nextP = 0 /\ nextC = 0 /\ result = "reading"
    /\ energy = [k \in {} |-> 0] /\ lines = <<>>

Here == table[current]

-----------------------------------------------------------------------------
(* parse_energy_model.                                                     *)

Fetch(kind, line) ==
    /\ result = "reading" /\ line.kind = kind
    /\ lines' = Append(lines, line)
    /\ UNCHANGED energy

Keep   == UNCHANGED <<clusters, table, current, nextP, nextC>>
Refuse == result' = "refused" /\ Keep

\* The table is made when its length is known, and not cleared.
ReadClusters(line) ==
    /\ Fetch("clusters", line)
    /\ \/ clusters # 0 /\ Refuse
       \/ /\ clusters = 0
          /\ clusters' = line.n
          /\ \E left \in [0 .. line.n - 1 -> Leftover] :
                table' = [k \in 0 .. line.n - 1 |-> Unset(left[k])]
          /\ UNCHANGED <<current, nextP, nextC, result>>

ReadCluster(line) ==
    /\ Fetch("cluster", line)
    /\ \/ line.id >= clusters /\ Refuse
       \/ line.id < clusters /\ table[line.id].caps # 0 /\ Refuse
       \/ /\ line.id < clusters /\ table[line.id].caps = 0
          /\ current' = line.id
          /\ table' = [table EXCEPT ![line.id] =
                [caps |-> line.caps, cstates |-> line.cstates,
                 p |-> EmptyRows(line.caps), c |-> EmptyRows(line.cstates),
                 wakeup |-> @.wakeup, state |-> "counts"]]
          /\ UNCHANGED <<clusters, nextP, nextC, result>>

(* Slip: the rows of a P-states section go behind those of the last one. *)
ReadPHeadingOn(line) ==
    /\ Fetch("P-states", line)
    /\ \/ current = -1 /\ Refuse
       \/ /\ current # -1
          /\ table' = [table EXCEPT ![current].state = "P-states"]
          /\ UNCHANGED <<clusters, current, nextP, nextC, result>>

\* A section needs a cluster; its rows are counted from 0.
ReadPHeading(line) ==
    /\ Fetch("P-states", line)
    /\ \/ current = -1 /\ Refuse
       \/ /\ current # -1
          /\ nextP' = 0
          /\ table' = [table EXCEPT ![current].state = "P-states"]
          /\ UNCHANGED <<clusters, current, nextC, result>>

ReadCHeading(line) ==
    /\ Fetch("C-states", line)
    /\ \/ current = -1 /\ Refuse
       \/ /\ current # -1
          /\ nextC' = 0
          /\ table' = [table EXCEPT ![current].state = "C-states"]
          /\ UNCHANGED <<clusters, current, nextP, result>>

ReadWakeup(line) ==
    /\ Fetch("wakeup", line)
    /\ \/ current = -1 /\ Refuse
       \/ /\ current # -1
          /\ table' = [table EXCEPT ![current].wakeup = <<line.cluster, line.core>>]
          /\ UNCHANGED <<clusters, current, nextP, nextC, result>>

Section == IF current = -1 THEN "none" ELSE Here.state

FetchRow(line) == \E kind \in {"speed row", "name row", "incomplete row"} :
                      Fetch(kind, line)

(* Slip: one row too many is taken. *)
ReadPRowPastEnd(line) ==
    /\ FetchRow(line) /\ Section = "P-states"
    /\ \/ (line.kind # "speed row" \/ nextP > Here.caps) /\ Refuse
       \/ /\ line.kind = "speed row" /\ nextP <= Here.caps
          /\ table' = [table EXCEPT ![current].p =
                [n \in DOMAIN @ |-> IF n = nextP THEN RowOf(line) ELSE @[n]]]
          /\ nextP' = nextP + 1
          /\ UNCHANGED <<clusters, current, nextC, result>>

\* A P-state's row has three numbers, and there is one more to come.
ReadPRow(line) ==
    /\ FetchRow(line) /\ Section = "P-states"
    /\ \/ (line.kind # "speed row" \/ nextP >= Here.caps) /\ Refuse
       \/ /\ line.kind = "speed row" /\ nextP < Here.caps
          /\ table' = [table EXCEPT ![current].p[nextP] = RowOf(line)]
          /\ nextP' = nextP + 1
          /\ UNCHANGED <<clusters, current, nextC, result>>

\* A C-state's row has any word and two numbers.
ReadCRow(line) ==
    /\ FetchRow(line) /\ Section = "C-states"
    /\ \/ (line.kind = "incomplete row" \/ nextC >= Here.cstates) /\ Refuse
       \/ /\ line.kind # "incomplete row" /\ nextC < Here.cstates
          /\ table' = [table EXCEPT ![current].c[nextC] = RowOf(line)]
          /\ nextC' = nextC + 1
          /\ UNCHANGED <<clusters, current, nextP, result>>

\* Between a cluster's line and its first section, rows are passed over.
ReadOtherRow(line) ==
    /\ FetchRow(line)
    /\ \/ Section = "none" /\ Refuse
       \/ Section = "counts" /\ Keep /\ UNCHANGED result

EndOfFile ==
    /\ result = "reading" /\ result' = "parsed"
    /\ UNCHANGED <<energy, lines>> /\ Keep

-----------------------------------------------------------------------------
(* calculate_energy_consumption.                                           *)

\* find_cstate_energy_info, find_pstate_energy_info: the first row that has
\* the key, if there is one.
FindRow(rows, key) ==
    {n \in DOMAIN rows : rows[n].key = key /\ \A m \in 0 .. n - 1 : rows[m].key # key}

\* Time spent in a state, times the power of its row.
Charge(rows, key, time, level) ==
    MapThenSumSet(LAMBDA n : time * rows[n][level], FindRow(rows, key))

(* Slip: time at an unknown frequency is charged like any other. *)
UnitEnergyOfAll(k, unit, level) ==
    MapThenSumSet(LAMBDA s : Charge(table[k].c, s, unit.idle[s], level), DOMAIN unit.idle)
    + MapThenSumSet(LAMBDA f : Charge(table[k].p, f \div 1000, unit.busy[f], level),
                    DOMAIN unit.busy)

\* A frequency in kHz is looked up in MHz; 0, which stands for an unknown one,
\* is passed over.
UnitEnergy(k, unit, level) ==
    MapThenSumSet(LAMBDA s : Charge(table[k].c, s, unit.idle[s], level), DOMAIN unit.idle)
    + MapThenSumSet(LAMBDA f : Charge(table[k].p, f \div 1000, unit.busy[f], level),
                    DOMAIN unit.busy \ {0})

ClusterEnergy(k) ==
    UnitEnergy(k, Usage[k].cluster, "cluster")
    + MapThenSumSet(LAMBDA i : UnitEnergy(k, Usage[k].cpus[i], "core"),
                    DOMAIN Usage[k].cpus)

\* The table is indexed by the cluster's id whatever its length, and an
\* entry is read whether it was written or not.
HasEntry(k) == k < clusters /\ table[k].state # "unset"

Account ==
    /\ result = "parsed"
    /\ IF \A k \in DOMAIN Usage : HasEntry(k)
       THEN /\ energy' = [k \in DOMAIN Usage |-> ClusterEnergy(k)]
            /\ result' = "reported"
       ELSE result' = "undefined" /\ UNCHANGED energy
    /\ UNCHANGED lines /\ Keep

ReadLine(line) ==
    \/ ReadClusters(line) \/ ReadCluster(line)
    \/ ReadPHeading(line) \/ ReadCHeading(line) \/ ReadWakeup(line)
    \/ ReadPRow(line) \/ ReadCRow(line) \/ ReadOtherRow(line)

Next ==
    \/ Len(lines) < MaxLines /\ \E line \in Lines : ReadLine(line)
    \/ EndOfFile
    \/ Account

Spec == Init /\ [][Next]_vars

-----------------------------------------------------------------------------
(* What a file says (energy-model-format.txt), by the places of its lines. *)

Kind(i) == lines[i].kind
IsRow(i) == Kind(i) \in {"speed row", "name row", "incomplete row"}

Latest(kinds, i) == Max({0} \cup {j \in 1 .. i - 1 : Kind(j) \in kinds})
SectionOf(i) == Latest({"cluster", "P-states", "C-states"}, i)
ClusterOf(i) == Latest({"cluster"}, i)
RowNumber(i) == Cardinality({j \in SectionOf(i) + 1 .. i : IsRow(j)})

ClusterLineFits(i) ==
    /\ \E j \in 1 .. i - 1 : Kind(j) = "clusters" /\ lines[i].id < lines[j].n
    /\ \A j \in 1 .. i - 1 :
          Kind(j) = "cluster" /\ lines[j].id = lines[i].id => lines[j].caps = 0

RowFits(i) ==
    CASE Kind(SectionOf(i)) = "cluster"  -> TRUE
      [] Kind(SectionOf(i)) = "P-states" ->
            Kind(i) = "speed row" /\ RowNumber(i) <= lines[ClusterOf(i)].caps
      [] Kind(SectionOf(i)) = "C-states" ->
            /\ Kind(i) # "incomplete row"
            /\ RowNumber(i) <= lines[ClusterOf(i)].cstates

LineFits(i) ==
    CASE Kind(i) = "clusters" ->
            \A j \in 1 .. i - 1 : Kind(j) = "clusters" => lines[j].n = 0
      [] Kind(i) = "cluster" -> ClusterLineFits(i)
      [] OTHER -> ClusterOf(i) # 0 /\ (IsRow(i) => RowFits(i))

LinesFit == \A i \in DOMAIN lines : LineFits(i)

\* The line that gives cluster k's n-th row of a section: the last one, when
\* the section is there more than once.
RowLines(k, section, n) ==
    LET own == Max({0} \cup {j \in DOMAIN lines :
                               Kind(j) = "cluster" /\ lines[j].id = k})
    IN  {i \in DOMAIN lines : /\ IsRow(i) /\ ClusterOf(i) = own
                              /\ Kind(SectionOf(i)) = section
                              /\ RowNumber(i) = n + 1}

RowWritten(k, section, n) ==
    IF RowLines(k, section, n) = {} THEN NoRow
    ELSE RowOf(lines[Max(RowLines(k, section, n))])

-----------------------------------------------------------------------------
(* Properties.                                                             *)

\* No row is ever stored behind the memory its section was given, however
\* clusters and sections follow one another: the two counters are shared by
\* all clusters, the lengths they are compared with are not.
RowsWithinAllocation ==
    /\ Section = "P-states" => nextP <= Here.caps
    /\ Section = "C-states" => nextC <= Here.cstates
    /\ \A k \in DOMAIN table : table[k].state # "unset" =>
          /\ DOMAIN table[k].p = 0 .. table[k].caps - 1
          /\ DOMAIN table[k].c = 0 .. table[k].cstates - 1

\* The last line was a cluster's first, but memory nobody wrote says that it
\* had one before.
TakenForSecond ==
    LET line == lines[Len(lines)] IN
    /\ line.kind = "cluster"
    /\ table[line.id].state = "unset" /\ table[line.id].caps # 0

\* A file is refused exactly when one of its lines does not fit those before
\* it, but for what the uncleared table does.  Clusters and rows too many are
\* such lines; clusters and rows too few are not noticed (CountsChecked).
RefusedIffLineMisfits ==
    /\ result # "refused" => LinesFit
    /\ result = "refused" /\ LinesFit => TakenForSecond

\* "Idlestat will check that the correct number of clusters are provided", and
\* of P-states and C-states in each (energy-model-format.txt).  The code
\* checks that there are not too many, and takes a file that ends early.
CountsChecked ==
    result = "parsed" =>
        /\ \A k \in 0 .. clusters - 1 :
              \E i \in DOMAIN lines : Kind(i) = "cluster" /\ lines[i].id = k
        /\ \A i \in DOMAIN lines : Kind(i) = "cluster" =>
              LET k == lines[i].id IN
              /\ \A n \in 0 .. lines[i].caps - 1 : RowLines(k, "P-states", n) # {}
              /\ \A n \in 0 .. lines[i].cstates - 1 : RowLines(k, "C-states", n) # {}

\* Every row of a file that was not refused is found under its own cluster
\* and section, a later section's in place of an earlier one's.
StoredAsWritten ==
    result # "refused" => \A k \in DOMAIN table : table[k].state # "unset" =>
        /\ \A n \in DOMAIN table[k].p : table[k].p[n] = RowWritten(k, "P-states", n)
        /\ \A n \in DOMAIN table[k].c : table[k].c[n] = RowWritten(k, "C-states", n)

\* What a cluster's energy is, row by row: the row's power times the time in
\* its state; a frequency's fraction of a MHz and rows that repeat an earlier
\* one's key do not count, nor does frequency 0, even for a row of 0 MHz.
Times(unit, section, key) ==
    IF section = "C-states"
    THEN MapThenSumSet(LAMBDA s : unit.idle[s], {s \in DOMAIN unit.idle : s = key})
    ELSE MapThenSumSet(LAMBDA f : unit.busy[f],
                       {f \in DOMAIN unit.busy \ {0} : f \div 1000 = key})

RowEnergy(k, section, n) ==
    LET row == RowWritten(k, section, n) IN
    IF \E m \in 0 .. n - 1 : RowWritten(k, section, m).key = row.key THEN 0
    ELSE row.cluster * Times(Usage[k].cluster, section, row.key)
         + row.core * MapThenSumSet(
               LAMBDA i : Times(Usage[k].cpus[i], section, row.key),
               DOMAIN Usage[k].cpus)

EnergyByRows ==
    result = "reported" => \A k \in DOMAIN Usage :
        energy[k] = MapThenSumSet(LAMBDA n : RowEnergy(k, "P-states", n),
                                  0 .. table[k].caps - 1)
                  + MapThenSumSet(LAMBDA n : RowEnergy(k, "C-states", n),
                                  0 .. table[k].cstates - 1)
=============================================================================

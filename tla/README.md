# A verification project for idlestat

idlestat (Linaro's tool, here in Colin King's fork) switches on a few ftrace
events, runs a command or sleeps, reads the trace back, and reports how long
every CPU, core and cluster stayed in each C-state (idle state) and P-state
(frequency), and which interrupts woke the CPUs. This directory holds TLA+
models of it, the TLC configurations that check them, and proofs about them
that the TLA+ proof system checks.

Run from this directory:

    tlc -config idle.cfg MCTraceLoad        # and the other .cfg files
    tlapm TraceLoad_proofs.tla              # and the other *_proofs modules

`PROJECT.json` names, for every definition that models code, the lines it models.


## 1. The system

idlestat is a single-threaded C program. Concurrency enters in three places:
the trace is the interleaving of what all CPUs did; ftrace is kernel state that
was there before idlestat and goes on after it; and `execute` runs a command as
a child process under an alarm.

| part | code | state | operations |
|---|---|---|---|
| C-state accounting | `idlestat.c:729-869` | `struct cpuidle_cstates` of every CPU, core and cluster: current and deepest state, per state count, min, max, total, early and late wake-ups | `cstate_begin`, `cstate_end`, `record_cstate_event`, `store_data`; `core_get_least_cstate`, `cluster_get_least_cstate` |
| P-state accounting | `idlestat.c:425-726` | `struct cpufreq_pstates` of every unit: the sorted table of frequencies, the index `current`, `idle` (unknown, running, idle), `time_enter` | `alloc_pstate`, `open_/close_current_pstate`, `record_group_freq`, `check_pstate_composite`, `cpu_change_pstate`, `cpu_pstate_idle`, `cpu_pstate_running`; `cluster_get_highest_freq`, `core_get_highest_freq` |
| Wake-up IRQs | `idlestat.c:871-964` | per CPU the last charged IRQ and its table of counts | `store_irq`; reset in `cstate_begin` |
| Trace loaders | `tracefile_*.c`, `idlestat.c:966-1050` | position in the file, CPU count, start and end time | magic checks, header parsing, `load_text_data_lines` |
| Topology | `topology.c` | the tree cluster / core / CPU | `add_topo_info`, reading sysfs or a trace header, lookups, group state |
| Tracing session | `main`, `execute`, `idlestat_store` in `idlestat.c`, `trace.c` | ftrace's control files, the saved options, the trace file, the child, the alarm | about thirty control-file writes in a fixed order with error paths |
| Baseline comparison | `merge_pstates` (`idlestat.c:686`), `assign_baseline_in_topo` (`topology.c:551`), `comparison_report.c` | a second set of tables, a pointer from each unit to its counterpart, the pending baseline row | padding P-state tables to a common set of frequencies, pairing units and rows |
| Energy model | `energy_model.c` | clusters with capacity, C-state and P-state power; a parser state | template, parser, energy sum |
| Reports | `display_cstates`, `display_pstates`, `display_wakeup`, `dump_cpu_topo_info`, `default_report.c`, `csv_report.c` | the unit's heading is out or not | a walk through the tree per table, a loop over the rows of a unit |
| Options, utilities | `getoptions`, `utils.c` | `struct program_options` | parsing, final checks, file helpers |
| Lists, operation tables | `list.h`, `ops_head.c`, `ops_tail.c` | - | - |

### How they interact

`main` in trace mode: stop tracing, save the settings, enlarge the buffer, choose
events, flush, start, wake all CPUs, `execute`, wake all CPUs, stop, `idlestat_store`,
restore. Then, in both modes: load the topology from the file's header, load the
records, load the baseline if any, merge the two, report. The loader's record loop
hands each record to one of three handlers (`store_data`, `cpu_change_pstate`,
`store_irq`); a handler updates the CPU it names, and then that CPU's core and
cluster by asking the topology for the least C-state or the highest frequency of
their CPUs. C-state records also start and stop the P-state clock of a CPU
(`cpu_pstate_running`, `cpu_pstate_idle`), and reset its wake-up IRQ. `idlestat_store`
brackets the kernel's records with records of its own: one frequency record per CPU
at the start, one of frequency 0 per CPU at the end.

### What is hard, and what correctness means

* **C-states.** The state of a group is recomputed from its CPUs after each record
  and is itself an interval that opens and closes. Correct: a group is in the least
  C-state of its CPUs, and the time recorded for every unit and state is exactly the
  time it spent there. Equal and backward timestamps must not spoil the minimum and
  the counts.
* **P-states.** A table grows by insertion in the middle while `current` is an index
  into it, held across calls and in a local variable. Correct: tables stay sorted,
  `current` stays on the frequency it meant, time goes to the frequency that was
  open, a group follows its busiest CPU, and no moment is charged twice, to two
  frequencies or to a frequency and a C-state.
* **IRQs.** One IRQ is charged per idle entry, the first; no wake-up is both early
  and late.
* **Session.** Kernel state must be put back on every path out, a failure that `main` is
  told of must reach the exit status, no record from before the run may reach the
  file, the child must not be left running, no signal may hit the wrong process, and
  the alarm must neither be lost nor kill idlestat.
* **Topology and headers.** Directories come in any order, and the header is read by
  nested loops that hand the line they do not know to the next reader. Correct: the
  tree is sorted and is the machine's, a written header reads back as the same tree or
  not at all, and no record is swallowed or header line taken for one.
* **Comparison and reports.** Rows are paired by number and units by position, so both
  must agree in number and in meaning; `alloc_pstate` inserts in the middle of the table
  that the next loop walks; the comparison keeps a baseline row until the trace's row
  arrives. Correct: after the merge a CPU's two tables have the same frequencies and
  nothing measured was lost, every row with hits is printed once under its own unit, and
  a row stands beside the same state of the same unit.
* **Options.** Words come in any order; some add up, some may be given once, of the others
  the last one counts. Correct: a command line means what its words say together.
* **Energy model.** A parser whose row counters are shared by all clusters and whose
  table is not cleared. Correct: rows stay within the memory of their section and are
  found where the file gives them; a file is refused exactly when a line does not fit
  those before it.

`PROJECT.json` lists each hazard at its line with the properties that watch it.


## 2. The modules

| module | models | lines of code it stands for |
|---|---|---|
| `Stats` | count, min, max, sum of one statistic | parts of `cstate_end`, `close_current_pstate` |
| `CStates` | one unit's C-states as a record and operators on it | `idlestat.c:729-830` |
| `PStates` | one unit's P-state table, `current`, `idle`, `time_enter` | `idlestat.c:425-726` |
| `TraceLoad` | all units, the group updates, the records of a trace: one action per record | handlers, `topology.c` group queries, loader loop |
| `Residency`, `BusyTime` | abstract specifications: time per C-state of each unit, busy time of each cluster | (what `idlestat.1` promises) |
| `MCTraceLoad` | three small topologies for TLC | |
| `Topology` | the tree as nested sorted lists, lookups, the header's lines (operators) | `topology.c:57-293` |
| `TraceFile` | scan of sysfs, the header `idlestat_store` writes, the three loaders up to the first record | `topology.c:295-529`, `tracefile_*.c`, `idlestat.c:926-1021`, `1259-1303` |
| `MCTraceFile` | all machines of three CPUs, ftrace headers | |
| `EnergyModel` | the energy model parser, one action per kind of line, and the energy sums | `energy_model.c:126-529` |
| `EnergyTemplate` | the template that is written for a machine, completed and read by `EnergyModel` | `energy_model.c:44-124` |
| `MCEnergyModel` | a small set of lines, what a small machine did, small machines | |
| `Options` | `getoptions`, one action per kind of word | `idlestat.c:64-86`, `1072-1229` |
| `Baseline` | `main` from the options to the report: both loads, `merge_pstates` call by call, `assign_baseline_in_topo` | `idlestat.c:676-706`, `1424-1567`, `topology.c:551-605` |
| `Report` | the tables, units and rows that are printed, over `Baseline` | `idlestat.c:118-215`, `1569-1604`, `topology.c:607-658`, `comparison_report.c` |
| `MCReport` | traces as `TraceLoad`'s operators load them, on five small machines, and command lines | |
| `Ftrace` | the control files and what a write to each does | `trace.c` |
| `Execute` | parent, child and SIGALRM | `idlestat.c:1344-1405` |
| `Session` | `main` over `Ftrace` and `Execute` | `main`, `idlestat_store`, `trace.c` |
| `DataLemmas` | facts about finite sets, sums over them, and sequences laid end to end | |
| `CStates_proofs`, `PStates_proofs`, `TraceLoad_proofs`, `TraceFile_proofs`, `EnergyModel_proofs`, `Session_proofs`, `Report_proofs` | theorems | |

`TraceLoad` composes `CStates`, `PStates` and `Stats`; `Session` composes `Ftrace` and
`Execute`; `TraceFile` uses `Topology`; `EnergyTemplate` drives `EnergyModel`; `Report`
extends `Baseline`, which extends `Options` and uses the operators of `PStates`,
`CStates` and `Topology`. Between the parts there are three seams. The traces that
`Baseline` takes as given are what `TraceLoad` makes: `MCReport` builds each by running
the handlers of `TraceLoad` over a list of records, and `TracesAssumption` asks of any
other only what holds of every load: tables of their types, sorted and coherent (proved of
`TraceLoad`), one entry per IRQ (`find_irqinfo`), and CPUs of the tree that are below the
file's number of CPUs. The tree is the one `TraceFile` shows to be the machine's. And `Session` has the phases from
the load on as steps that succeed or fail; `Baseline` and `Report` are their inside.

### How state and actions correspond to the code

`TraceLoad`: `cst[u]` and `pst[u]` are the `cpuidle_cstates` and `cpufreq_pstates`
that a CPU, core or cluster `u` points to; `wake[c]` is `wakeirq` and `wakeup_info`.
The handlers are operators from record to record (`CstateEnd`, `RecordGroupFreq`,
`ChangePstate`...), named as in the source, and the four actions `StoreData`,
`ChangeFreq`, `EndOfTrace` and `StoreIrq` are the whole handling of one record:
the CPU, then its core, then its cluster, then P-states, then the IRQ. A table is
1-based, so that index -1 of the source (`current` unknown, or group closed) is 0.
A time is a whole number of ticks. `Named` says for which C-states of a CPU a name was
found: `create_states` takes over those of a group's first CPU and skips the others, so
that in a core or cluster a state without a name keeps the zeros of `calloc`, in its
minimum and target residency too. `build_cstate_info` sets up all states of a CPU.

`Session`: `pc` is the next call of `main`; every control-file write is a step that
either happens or is a `Fault`, and each step's failure goes where the code's does
(`GiveUp`: exit 1 at once; `RestoreFirst`: the `err_restore_trace_options` label).
`Store` has a fault that nobody is told of as well: `idlestat_store` asks neither `fprintf`
nor `fclose` whether they succeeded, and takes a read error for the trace's end, so that
it returns 0 with part of the trace in the file.
`Execute` is composed with it by conjunction: `at` is the parent's place inside
`execute`, and child and alarm move between any two steps of the parent.

`TraceFile`: `phase` is the function the program is in, `file[pos]` the line in the
loader's one buffer, and `place` the variables of `read_cpu_topo_info` together with
which of its two loops it is in. What may happen to a file between its writing and its
reading is in `StoreHeader`: a comment in the topology, cores left out where each CPU is
its own, or a lost end (`idlestat_store` does not look at what `fprintf` and `fclose`
return). A line is a kind and a number; the twenty lines of a CPU's C-states are one.
`Abort` is a failed assertion of `add_topo_info`, which ends the program: in the scan for an
id the kernel gives as -1, in a loader for a cluster's letter that is read back negative.

`EnergyModel`: `table`, `current`, `nextP` and `nextC` are `cluster_energy_table`,
`current_cluster`, `current_pstate` and `current_cstate`; an entry's `state` is
`clustp->state`. The file is chosen line by line, and `lines` remembers it so that the
properties can say what it means without the parser. What `realloc` leaves in an entry's
`number_cap_states` is any value of `Leftover`.

`EnergyTemplate`: a machine is its clusters of cores of CPUs, each CPU with the
frequencies and C-states of its tables; a template is the sequence of lines that
`make_energy_model_template` prints, with each pair of question marks replaced. The code
describes a cluster by the last CPU of its last core (`LastCpu`) and letters it by its
position. `edited` says that the template's second line, the
one the parser refuses, was removed as well. `ReadLine` of `EnergyModel` reads it.

`Options`: `options` is `struct program_options`, `words` the words read so far, kept as
history until they have been checked. An option with its argument is one word; a file name
is good, bad (`bad_filename`) or was not given.

`Baseline`: `phase` is the place of `main`; `mainP[c]` and `baseP[c]` are `datas->pstates[c]`
and `baseline->pstates[c]`; `cpu`, `back` and `idx` are the loops of `merge_pstates`, each
call of `alloc_pstate` one step. A unit is the path of positions that leads to it in the
tree, because `assign_baseline_in_topo` goes by position; `baseOf` is its pointers
`base_cstates` and `base_pstates` together. A row, list or array read outside its end
sets `phase` to "undefined", after which nothing is promised.

`Report`: `todo` is what is left of the walk of `dump_cpu_topo_info`, `row` the loop of the
display functions, `headed` their `cpu_header`, and `pending` the report's
`curr_cstate_baseline` or `curr_pstate_baseline`. `out` is what has been printed: table
headings, unit headings, and rows, where a row carries the structure it was printed from.
The four styles do the same in different words, except that the comparison alone has
operations for the baseline's rows.

Definitions whose comment begins with "Slip" are not part of the specifications.
Each is a plausible mistake in the operator that follows it; replacing the operator
by its slip makes TLC find the property violated for which `PROJECT.json` names it.

### What the models leave out on purpose

Averages (always total / count), units and unit conversion; names of states,
frequencies' and IRQs' display; a C-state's list of past intervals, which the program
only ever reads through its last one; an event directory's own enable file, which only
summarises its events; the padding events and the wake-up of all CPUs, which only cause
records.


## 3. The runs

| run | question | bounds |
|---|---|---|
| `idle` | Are C-state times exact, for CPUs, cores and clusters, and IRQs charged once per stay? (`GroupCstateIsLeast`, `IrqOncePerEntry`; `TraceLoad` implements `Residency`) | 3 CPUs, a two-thread core and a one-CPU core, 2 C-states, 1 IRQ, lost records, 5 records, times 0..4 |
| `imported` | What remains true of tables, statistics and group frequencies when frequencies are discovered in any order? (`TypeOK`, `StatsCoherent`, `TablesSorted`, `ClusterOpenIffBusy`, `ClusterFreqNeverBelow`, `ChargesOpenFreqOnly`, `OutOfStepByInsertionOnly`) | 2 CPUs, 3 frequencies, 5 records, times 0..2, back by up to 1, no start records |
| `native` | In a trace idlestat wrote, where does each moment go? (`CpuTimeExact`, `ClusterIdleOrBusy`; `TraceLoad` implements `BusyTime`) | 2 CPUs, 2 frequencies, 1 C-state, 7 records (2 of them the start records), times 0..2 |
| `session` | Does every path through `main` keep its promises? (nine safety and action properties, two liveness properties) | up to 2 faults, 5 events, two initial settings, both modes, with and without command, duration and baseline |
| `tracefile` | Is the topology right, does it survive the file, do the loaders end at the first record? (`TreeIsMachine`, `LookupsAgree`, `HeaderReadBack`, `FirstRecordNext`, `NativeFileLoads`) | every machine of 3 CPUs with cluster ids 0 and 2, core ids 0 to 2, each CPU but the first on line, off line or unknown; machines with cluster ids -1, 0 and 63; every order of directories; one comment, any cores left out, or any end lost |
| `energy` | Is every file understood as written and nothing stored outside, and does the template fit the parser? (`RowsWithinAllocation`, `RefusedIffLineMisfits`, `StoredAsWritten`, `EnergyByRows`, `TemplateFits`) | files of up to 7 lines out of 14, up to 2 clusters, 2 P-states, 1 C-state; `Leftover` 0 or 1; 2 CPUs, 4 frequencies: two are 1 MHz in the file, one has no row, one is 0 although rows may have the key 0; templates of one-CPU machines, with a frequency 0, and of a machine of two clusters with two cores and with two CPUs that differ |
| `comparison` | Does a command line lead to the report it asks for? (`OptionsAsGiven`, `MergedRowsAgree`, `MergeKeepsMeasurements`, `ReportComplete`, `ComparedWithItself`, `NothingWildRead`) | up to 5 of 13 words; every pair of 20 traces: 5 machines of one and two CPUs, one of them with a CPU off line between, times 4 histories of up to 13 records |
| `stale_index` | finding 1 | as `imported` |
| `term_race` | finding 2 | no fault |
| `ftrace_header` | finding 3 | the kernel's header with one comment line behind the count |
| `mispaired_rows` | finding 4 | as `comparison` |
| `short_file` | finding 5 | as `energy`, files of up to 4 lines |

Why the bounds are enough to be interesting. Three CPUs in two cores is the smallest
topology in which core and cluster differ both from each other and from a CPU. Two
C-states are needed for a late wake-up and for the least of two states. With three
frequencies a new one can be inserted below, between or above known ones; five records
suffice for two CPUs to each change frequency twice with an idle record between them.
Seven records allow the two start records, a complete idle stay of each CPU and one
record more. Two faults make a restoration fail while another failure is being
handled. Three CPUs make every tree of one to three cores in one or two clusters, with a
gap in the ids, threads of one core that are not neighbours, and core ids that repeat
from cluster to cluster. Seven lines are enough for a second cluster's section to follow
the first's with a row in each, for a section to be given twice, and for one more row
than announced. Five words are the fewest that ask for a comparison of frequencies (mode, both
files, report, table); two CPUs make threads of a core, two cores and two clusters, so that
a baseline may have more, fewer or other units, and with the CPU between them off line a
CPU's number is not its position. The four histories give tables that are disjoint, nested,
empty on one side, and interleaved, C-states only one side entered, and a unit without
hits. `DblMax = 99` is larger than any interval and stands for `DBL_MAX`. `Target3`
gives one CPU unknown target residencies (-1), as on a trace without them; `Named3` and
`Named2` leave the last CPU's states without names, and with them those of its core.
63 is the first id whose letter, read into a signed char, is negative.
No symmetry set is used: `LeadCpu` tells the CPUs apart.

All runs set `CHECK_DEADLOCK FALSE`: a trace ends, a file is read to its end, and a run
of `main` exits.

### Inputs

A CPU alternates between entering and leaving idle unless `Lossy`. `Timestamp` lets
a record carry any time from `now - Backstep` on; the kernel's merged trace is
ordered (`Backstep = 0`), but text traces of old kernels may step back. In
a `Native` trace each CPU starts with a frequency record (with frequency 0 if it
could not be read) and ends with one of frequency 0.

### Fairness

Safety runs of `TraceLoad` need none. `Session` assumes that the process is scheduled
(weak fairness of `MainStep` and of the parent's steps in `execute`), that an armed
timer expires, and that a SIGTERM which has been sent and is not ignored ends the
child. All four are promises of the kernel. Nothing makes the command end by itself,
and nothing makes a step fail or succeed: `SessionEnds` therefore speaks of runs without
a command, or whose command has been sent SIGTERM and heeds it. The kernel
need never write a record.


## 4. Findings

1. **Stale index in `record_group_freq`** (`stale_index`). `cur = ps->current` is read
   before `alloc_pstate`, which moves `current` up when it inserts at or below it. A new
   frequency of which the index after insertion equals the old `cur` is then taken for
   "No effective change", and the cluster stays charged to its old frequency. The
   runs and proofs bound the damage: a cluster's open frequency is never
   *below* its CPUs' highest (`ClusterFreqNeverBelow`, proved), only a frequency never
   seen before can cause it and every other change mends it (`OutOfStepByInsertionOnly`, proved),
   and the cluster's total busy time is right all the same (`BusySpec`, proved).
2. **A SIGTERM that is never sent** (`term_race`). An alarm between `alarm()` and the
   blocking `waitpid` sets a flag nobody reads. `TermWhileWaiting` shows that an alarm
   which finds the parent waiting is acted on.
3. **Standard ftrace files are refused** (`ftrace_header`). `ftrace_load` reads the CPU
   count from every comment line and forgets it at the next one without; the test for
   "#P:" at the line's start (`strncmp` without `!`) does not help. The kernel's header
   goes on after the count.
4. **Rows of other frequencies compared** (`mispaired_rows`). `merge_pstates` pads the
   tables of the CPUs only. A core's or cluster's table is compared with its counterpart's
   as it was loaded, row number by row number, so the difference printed may be between two
   frequencies, and where the baseline's table is shorter the row is read behind its end.
   The other properties of the run bound it: CPUs' rows always agree (`MergedRowsAgree`,
   proved), C-states too, and on one machine nothing else than a core's or cluster's table
   with other frequencies is mispaired (`ComparedWithItself`, proved) or read past
   (`NothingWildRead`, proved).
5. **Counts that are not checked** (`short_file`). `energy-model-format.txt:11-12`, `:18`
   and `:41` (and `idlestat.1:137-138`, `:146`, `:171`) say that idlestat checks the number
   of clusters, P-states and C-states. The parser refuses one too many and does not notice
   one too few: a file that announces a cluster and ends is "parsed successfully", and the
   sums then use an entry nobody wrote. `RefusedIffLineMisfits` says what is
   checked, line by line.
6. **The template is refused by the parser** (`energy`). Each cluster's part of
   the template begins with a "C-states:" heading in front of the cluster's line, and a
   heading before the first cluster is an error (`energy_model.c:92`, `:221-226`), although
   all the template asks for is to "Replace ? with correct values" (`:60`). `TemplateFits`,
   proved for every machine, says that the template as written is never read to its end
   and that this line is
   all that is wrong with it: with the line removed the template is read whole, and has
   a row for every frequency and C-state of each cluster's last CPU. What only another CPU
   of the cluster was in has none, and energy is looked up by the cluster's id, which is the
   position that letters it only where the ids count from 0.

Also met, and watched by a passing run or described in `PROJECT.json` under hazards. A
second frequency change before a CPU's first idle record throws away the time run at the
first frequency: `cpu_change_pstate` takes `ps->idle == -1` for "the first update", and
`CpuTimeExact` names this as its only exception. The minimum of a core's or cluster's
C-state that has no name is 0 however long the shortest stay (`StatsCoherent` excepts it).
A full disk or a read error leaves a partial trace file and the exit status of a success
(`SuccessMeansDone` says what a success does mean). A cluster id from 63 to 190 is written as
a letter on which the loader's assertion ends the program (`NativeFileLoads` says so).
`core_get_highest_freq` counts idle
CPUs while its cluster counterpart does not; the events `idlestat_init_trace` enabled stay
enabled (`RestoreEvent` only ever enables); an energy model of which every line fits may be
refused for what uncleared memory holds (`RefusedIffLineMisfits` says exactly when); a header cut off
within the last CPU's C-states is loaded (`HeaderReadBack` says so); `merge_pstates` is
asserted on a baseline before the result of its load is looked at; C-states that only the
baseline was in, and deeper than any the trace was in, are missing from a comparison
(`ReportComplete` says so); a cluster without hits has no heading in the csv report, so
that its CPUs seem to belong to the cluster before it.


## 5. The proofs

Every safety property a passing run checks is proved for every value of the constants;
what is left to TLC alone is at the end of this section.

### Loading a trace

`TraceLoad_proofs` proves, for every finite topology, every number of C-states,
every set of frequencies and IRQs, any number of records, and, where no hypothesis is
named, with or without lost records, backward timestamps and start records:

| theorem | property | hypotheses |
|---|---|---|
| `TypeCorrect` | `TypeOK` | |
| `GroupsInLeastCstate` | `GroupCstateIsLeast` | |
| `StatisticsCoherent` | `StatsCoherent` | |
| `TablesStaySorted` | `TablesSorted` | |
| `ClustersFollow` | `ClusterOpenIffBusy` | |
| `ClustersNeverBelow` | `ClusterFreqNeverBelow` | |
| `ChargesOpenFrequency` | `ChargesOpenFreqOnly` | |
| `OutOfStepOnlyByInsertion` | `OutOfStepByInsertionOnly` | |
| `IrqsChargedOnce` | `IrqOncePerEntry` | |
| `ImplementsResidency` | `ResidencySpec` | `Backstep = 0` |
| `ImplementsBusyTime` | `BusySpec` | `Backstep = 0` |
| `IdleClustersNotCharged` | `ClusterIdleOrBusy` | `Native` |
| `CpuTimeIsExact` | `CpuTimeExact` | `Native`, `~Lossy`, `Backstep = 0` |

The hypotheses are those under which the runs check the property (`idle`, `native`), and
each is needed: an interval that ends before it begins is not recorded, so a timestamp
that goes back breaks every sum of times; before its start record a CPU's frequency is
unknown; and a record that was lost leaves a moment with two owners or none.

*The invariant.* The six state properties at the top are together the inductive
invariant `IInv`. None of them is inductive alone: `ClusterFreqNeverBelow` needs the
tables sorted (so that an equal index means an equal or lower frequency), and needs that a
closed cluster has no busy CPU, which is `ClusterOpenIffBusy`; both need the types, among
them that `current` is an index of the table; `GroupCstateIsLeast` needs the minimum of a
finite non-empty set to exist, hence the topology's assumptions; `StatsCoherent` needs
that an interval is only recorded if it lasted, and keeps apart the states that
were initialised and those that were not. Inside the proof `IInv` is regrouped by
unit (`GoodC`, `GoodP`, `GroupsLeast`, `ClustersOK`, `RestOK`), which says the same and
lets each operator have one lemma: `RecordCstateEvent` keeps a good unit good and leaves
it in the state it was given; `RecordGroupFreq` keeps a good table good and ends open
exactly if the new frequency is positive and never below it; and so on. The step lemma has
one case per action.

*Steps.* The lemma those about frequencies rest on is `AllocPstateGood` of
`PStates_proofs`: after an insertion the table is sorted, the returned index holds the
frequency, and `current` still means the frequency it meant. `ChargesOpenFrequency` is
about steps: each handler is a chain of insertions and at most one closing per unit, an
insertion changes no frequency's statistics (`AllocPstateAdds`), and a closing only those
of the open one (`CloseCharges`). `OutOfStepOnlyByInsertion` rests on
`RecordGroupFreqFollows`: without an insertion the index `record_group_freq` read before
is not stale, and the frequency open afterwards is the one it was asked for.
`IdleClustersNotCharged` uses that after the start records a CPU in a C-state always has a
table, so its P-states were told that it is idle (`IdleKnown`); a cluster in a C-state has
only such CPUs, none of which counts for its highest frequency, and `ClusterOpenIffBusy`
does the rest.

*Times.* A unit's time is a sum over its C-states and one over its table, and the table
grows in the middle. `TotalP` of a table after `alloc_pstate` is what it was, because the
new entry's time is 0 and the others only move; after `close_current_pstate` it has grown
by exactly what was open. So "recorded plus open" changes only with `now`, and only while
something is open (`Timed`: nothing was opened after now). That is a step of `Residency`
for C-states and of `BusyTime` for a cluster's frequencies, where *open* is read as *some
CPU runs* by `ClusterOpenIffBusy`: the refinement holds although the time may be charged to
the wrong frequency (finding 1). For `CpuTimeExact` the invariant adds that a CPU's two
tables agree about whether it is idle (`BothKnow`), so that exactly one of them is open.
`IrqOncePerEntry` is a sum as well, which an IRQ raises by one and only a new idle entry
lets an IRQ raise again.

### The tree and the header

`TraceFile_proofs` proves, for any number of CPUs, every machine, every order of the
directories, and a file of any of the three formats:

| theorem | property | assumes |
|---|---|---|
| `ScanIsRight` | `TreeIsMachine` | |
| `FirstRecordIsNext` | `FirstRecordNext` | |
| `NativeFileIsLoaded` | `NativeFileLoads` | |
| `HeaderIsReadBack` | `HeaderReadBack` | `ClustersHaveLetters` |
| `LookupsDoAgree` | `LookupsAgree` | `ClustersHaveLetters` |

A cluster's id is written as the character `'A' + id` and read back as a signed char
(`topology.c:269`, `:475`). `ClustersHaveLetters` says that all ids are at most 62, the
last one whose letter is not negative. Nothing in the code sees to it, and without it the
two theorems are false: an id from 63 to 190 comes back negative, on which an assertion of
`add_topo_info` ends the program, and a still higher one as another id.
`NativeFileIsLoaded` needs no such hypothesis because it names the case: a complete file is
loaded, or the loader is aborted and some cluster of the tree that was written has an id
that comes back negative. Behind that is that an abort needs a CPU's line under such a
letter (`AbortedIsNoLetter`): core and CPU numbers are written as numbers, and the tree that
was written has no negative ids because the scan has passed the same assertions.

*The tree.* `TreeOf(t, m, cpus)` says of a tree what it must contain and that every list is
in order, not how it came about. `AddedToTree` is the step: `add_topo_info` with a CPU that
is not in the tree makes of the tree of some CPUs the tree of these and that one, in each of
the cases (the cluster is there or not, the core is there or not, each inserted in front
of the first entry with a higher id, or last). It rests on `InsertAtProperties`: an entry
inserted at that place leaves the list in order and adds nothing else. For the scan this is
the invariant. `TreeUnique` is the converse: machine and CPUs determine the tree, because a
list of distinct ids in order is determined by their set. That turns the round trip into
two facts about contents: the tree that is read is *a* tree of the machine's CPUs, hence it
is *the* tree that was written.

*The text.* A header is flattened from the lists of clusters, cores and CPUs, with
comments put in, cores left out, or its end cut off. `HeaderText` says by positions what
all these have in common: two first lines; then lines each of which is a comment, a
cluster's, a core's or a CPU's, where the last cluster line above a CPU's line is that of
its cluster, the last core line between them that of its core (a CPU without one is its own
core), and the CPUs are those that are on line, in a file that is long enough all of them;
then the C-states' lines. A CPU that is named again changes nothing (`AddedAgain`).
`StoredHeader` shows it of what
`idlestat_store` writes, and `HeaderCommented`, `HeaderCut` that comments and a lost end keep it. The loader's
invariant says, at every line, that the tree read so far is that of the CPUs above this
line, and that the reader's registers (`place`) are the last cluster's and core's lines
above it, so that the next CPU goes where it was; a core that is carried from one cluster
to the next, as `is_ht` and `core_id` could be, would break that. At the end of the
topology there is no line but the C-states', which is why no line is left over and no
record swallowed; and a load fails only in a file that lost its end.

All this is about `AsRead(machine)`, the machine with the cluster ids that come back;
`ClustersHaveLetters` is used only in the last step, where it makes the two the same.

### The energy model

`EnergyModel_proofs` proves, for every file, every number of clusters and states, and
whatever the uncleared table held:

| theorem | property |
|---|---|
| `WithinAllocation` | `RowsWithinAllocation` |
| `StoresAsWritten` | `StoredAsWritten` |
| `RefusesMisfits` | `RefusedIffLineMisfits` |
| `EnergyIsByRows` | `EnergyByRows` |
| `TemplateIsFit` (of `TemplateSpec`) | `TemplateFits` |

For the first, the invariant says that the current cluster is one whose line was read,
that an entry whose line was read has sections of the announced lengths, and that the
counter of the section being read is within its length. The last part is not inductive
alone: the counters are not reset by a cluster's line, and it is the entry's `state`,
neither section after that line, that makes this harmless.

The next two relate the parser's few registers to the whole file, and share one
invariant, `MInv`: while a file is not refused, the registers are what the lines read so
far say (`ClustersMatch`: the number of clusters; `EntriesMatch`: an entry's sizes are
those of its cluster's last line; `SectionMatch`: the current cluster, its state and its
counter are those of the last line of a cluster and the section begun after it;
`RowsMatch`: what is stored is what the file gives), and every line fits those before it.
The file's meaning is given by looking backwards (the latest line of some kind before this
one), and the step lemmas say what that becomes with one line more: the earlier lines keep
theirs, and the new one's is read off the registers (`Decides`: the parser's guards hold
exactly if the line fits).

`EnergyIsByRows` exchanges two sums. The code goes over the states and frequencies of each
unit and looks up a row for each, leaving out the frequency 0; the property goes over the rows. A key that is given
twice counts once, and two frequencies may have one key (kHz are divided by 1000), so the
lookup is neither injective nor onto: `ChargesByRow` splits the times by the first row of
their key.

`TemplateIsFit` is about machines with any numbers of cores, CPUs, frequencies and C-states,
and up to `MaxClusters` clusters; of each cluster it speaks of the last CPU's, as the
code does. The template is flattened from the clusters' parts, and
`TemplateIs`, `NextLine` say which line of which part comes next. The invariant
`ReadUpTo(m, k, i)` says what the parser holds behind the i-th line of the k-th part: the
entries of the clusters before it are complete, the current one has the rows down to that
line and nothing further, the others have not been touched, and the two counters count
from the start of their section. That the heading in front of a cluster's line is charged
to the cluster before it does no harm: that cluster is already in its C-states section, and
no row follows before the next cluster's line. In the text as it is written the parser gets
no further than to the first of these headings (finding 6).

### From the command line to the report

`Report_proofs` proves, for any words, any two traces, any trees, any number of CPUs and
any tables:

| theorem | property |
|---|---|
| `OptionsMeanWhatIsGiven` | `OptionsAsGiven` |
| `MergeAgrees` | `MergedRowsAgree` |
| `MergeKeeps` | `MergeKeepsMeasurements` |
| `WildReadsAreThese` | `NothingWildRead` |
| `MachineComparedWithItself` | `ComparedWithItself` |
| `NothingLeftOut` | `ReportComplete` |

*Options.* `getoptions` keeps a register per option; the property says what the words mean
together (the last of a kind, the union of the tables). The invariant is that the registers
are the meaning of the words read so far, and that nothing among them is refused.

*Merging.* The invariant says of every CPU that both tables are sorted and have kept what
was loaded; and, of the CPU the loops are at, which of the one table's frequencies are in
the other already (`LoopsAt`): in the first loop those below the index, in the second all
of the trace's, and those of the baseline's below the index. When both loops are through,
the sets are equal, and two sorted tables of the same frequencies agree row by row
(`SameFreqsSameRows`: at the least row where they differed, one of the two would lack a
frequency). The steps of the report change neither table.

*Printing.* The walk is at a table, a unit and a row, and `Past` is the set of rows it has
been past. `ReportInv` says that every line of a row stands for a row in `Past`, under its
own table and unit (`Sound`), that no row has two lines (`Once`), that every row in
`Past` with hits has one (`AllShown`), and that within a table the units come cluster by
cluster (`InOrderOfClusters`). None of the four is kept alone: that the next line is the
first of its row needs `Sound`, that it stands under its unit needs to know which unit was
announced last (`AtUnit`), and that a unit is not printed twice needs the units and tables
still to come to be distinct and not yet in the output (`WalkOK`, `OutOK`). The units are
distinct and in order because of how the lists of clusters, cores and CPUs are laid end
to end, which is a fact about nested sequences proved by induction over their number. When
the walk is through, `Past` is everything. `ComparedWithItself` and `NothingWildRead`
follow from `Assigned` (every unit has its counterpart, and merging is through) with
`MergedRowsAgree`.

### The session

`Session_proofs` proves, for any number of control files that fail, any events enabled
before, and every place of the alarm and of the command's end:

| theorem | property |
|---|---|
| `TypeCorrect` | `TypeOK` |
| `RestoresOptions` | `OptionsRestored` |
| `StoresThisRun` | `StoredThisRunOnly` |
| `SuccessIsDone` | `SuccessMeansDone` |
| `ImportReads` | `ImportOnlyReads` |
| `NoCommandLeft` | `NoOrphan` |
| `AlarmAlwaysHandled` | `AlarmIsHandled` |
| `ReadsWhileStopped` | `ReadWhileStopped` |
| `SignalsOnlyItsChild` | `SignalsOwnChild` |

None of these is inductive: each speaks of a few places of `main`, and needs to know what
happened on the way there. The invariant is a conjunction of five: `PlacesOK` (types, and
what has been saved is the settings of the start), `ChildOK` (the command is alive or a
zombie exactly from `fork` to the return of `waitpid`, inside the call of `execute`, and the
alarm is armed only after its handler is set), `SettingsOK` (from which step on the
settings are saved, and, on the way out, which of them have been written back so far),
`FileOK` (from the flush to the store the ring holds this run's records only and
tracing is off where it is read), and `ImportOK` (an import has touched nothing).

### Assumptions

TLC evaluates each of these on every run of its module.

* `TopologyAssumption`: finite, non-empty CPUs; every core has a CPU and every cluster a
  core (the tree is built from CPUs). `LeadCpuAssumption`: a group's target residencies
  come from its own first CPU.
* `InputAssumption`: kinds of the inputs, and that a trace names finitely many IRQs.
  `NStates` and `DblMax` are positive.
* `EnergyModelAssumption`, `UsageAssumption`: the numbers of a file are natural numbers,
  and so are the times of a loaded trace; a machine has finitely many units, states and
  frequencies.
* `MachinesAssumption`: every cluster has a core and every core a CPU (as far as the last ones
  go); a machine has at least one cluster and at most `MaxClusters` = 63, so
  that `'A'` + number is a char that is read back (`energy_model.c:94`, `:181`); beyond that
  the parser would index in front of its table, which the model does not describe.
* `TraceFileAssumption`: there is a CPU; of every CPU the directories give whole numbers,
  and CPU 0 is on line; the kernel's header, if there is one, begins with `# tracer`.
* `OptionsAssumption`: kinds of the words; no style is called `none`, which stands for an
  option that is not given.
* `TracesAssumption`: what a file loads is tables that are sorted and coherent (proved of
  `TraceLoad`), a tree of its type, and CPUs of the tree that are below the number of CPUs
  the tables are allocated for, which the file gives as `_SC_NPROCESSORS_CONF`.
* `Session`'s constants are sets of events and a natural number.

### Sets, sums and sequences

`Min` and `Max` are `CHOOSE` expressions, sums and flattened sequences are defined by
recursion over data. `DataLemmas` proves what the above needs of them: that a finite
non-empty set of integers has a least and a greatest element; that a sum may be split,
changed at one point, and exchanged with another; where the elements of a flattened
sequence come from, in which order, and that they are distinct if the parts are
(`FlattenPlaces`: part k, line i is at some offset of part k, plus i); and what inserting
an entry into an ordered list gives. These are
inductions over the subsets of a finite set or over an interval, with the set of arguments
for which the fact holds in the place of a predicate. No module with theorems uses a
RECURSIVE operator.

### Model-checked only

* The liveness properties (`SessionEnds`, `TermWhileWaiting`): fairness and ENABLED are out
  of the proof system's reach.


## 6. What is not modelled

* How a report's row is laid out: boxes, columns, averages, units, and the subtraction that
  gives the comparison's second line.
* `-v`, `-I`, `-S` and `-e`, which set a number or a name; abbreviations of long options
  and options without their argument beyond "unknown".
* File helpers, except that a helper that fails is a `Fault`.
* `list.h` and the linker's operation tables: vendored, and without behaviour.
* How a record's line is scanned, and lines that cannot be; `sscanf` that stores only part of
  a cluster's line in an energy model.
* Memory exhaustion, and releasing memory.
* A record that names a CPU that does not exist, and the writes `write_int` does not
  check: outside the models' inputs.
* A SIGCHLD disposition inherited as "ignored", under which `waitpid` fails for ever.
* What happens after a read outside an array or a list: "undefined" ends the run.


## 7. Plan

Done: `Stats`, `CStates`, `PStates`, `TraceLoad`, `Residency`, `BusyTime` and the
invariant of `TraceLoad`; `Ftrace`, `Execute`, `Session` and its safety proved; `Topology`,
`TraceFile`; `EnergyModel`, `EnergyTemplate` and the proof that the parser stays within
its memory; `Options`, `Baseline`, `Report` and the merge proved; both refinements, the
times, the parser, the template, the report, the tree and the header proved.

Next, in this order:

1. The frequency of a core, which unlike a cluster's counts idle CPUs.
2. How a record's line is scanned: CPUs that do not exist, records cut short.
3. Cluster ids that have no letter in the energy model.

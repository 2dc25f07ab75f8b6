----------------------------- MODULE TraceFile ------------------------------
(***************************************************************************)
(* From the machine to a trace file and back: the scan of sysfs, the       *)
(* header idlestat_store writes, and the loaders' way through the header   *)
(* of each format to the first record.  A loader keeps one line in its     *)
(* buffer and reads the next when it is done with it; `pos' is that line.  *)
(***************************************************************************)
EXTENDS Topology, FiniteSets

CONSTANTS
    NrCpus,         \* configured CPUs, numbered from 0
    Machines,       \* the machines: CPU |-> [physical, core, online]
    FtraceHeaders,  \* headers of trace files written by the kernel
    Formats         \* formats of the trace file

Cpus == 0 .. NrCpus - 1

\* A line of a trace file: what it is, and the number in it.
LineKinds ==
    {"idlestat version", "# tracer", "version =", "cpus", "# entries", "#",
     "cluster", "core", "cpu", "cpuid", "states", "record"}
LineType == [kind : LineKinds, n : Int]

ASSUME TraceFileAssumption ==
    /\ NrCpus \in Nat \ {0}
    /\ \A m \in Machines :
          /\ m \in [Cpus -> [physical: Int, core: Int,
                             online: {"yes", "no", "unknown"}]]
          /\ m[0].online = "yes"
    /\ \A h \in FtraceHeaders :
          /\ h \in Seq(LineType)
          /\ h # <<>> => h[1].kind = "# tracer"
    /\ Formats \subseteq {"idlestat", "ftrace", "trace-cmd"}

VARIABLES
    machine,    \* this machine
    format,     \* the format of the trace file
    phase,      \* what is being done
    unread,     \* directories of CPUs the scan has not come to yet
    topo,       \* the topology read from sysfs
    written,    \* the topology whose header was written (history)
    file,       \* the lines of the trace file
    pos,        \* the line in the buffer, behind the last one at EOF
    nrcpus,     \* the loader's number of CPUs
    place,      \* read_cpu_topo_info: nesting level, cluster, core, is_ht
    read,       \* the topology read from the header
    nextCpu,    \* load_and_build_cstate_info: its loop
    known       \* CPUs whose C-states are as written

vars == <<machine, format, phase, unread, topo, written, file, pos, nrcpus,
          place, read, nextCpu, known>>

scanVars   == <<unread, topo>>
headerVars == <<place, read, nextCpu, known>>

Plain(kind)    == [kind |-> kind, n |-> 0]
Counted(kind, n) == [kind |-> kind, n |-> n]

Init ==
    /\ machine \in Machines /\ format \in Formats
    /\ unread = Cpus /\ topo = EmptyTopo /\ written = EmptyTopo
    /\ phase = IF format = "idlestat" THEN "scan" ELSE "magic"
    /\ file \in CASE format = "idlestat"  -> {<<>>}
                  [] format = "ftrace"    -> FtraceHeaders
                  [] format = "trace-cmd" ->
                       {<<Plain("version ="), Counted("cpus", NrCpus),
                          Plain("record")>>}
    /\ pos = 1 /\ nrcpus = 0
    /\ place = [level |-> "clusters", physical |-> 0, core |-> 0, ht |-> FALSE]
    /\ read = EmptyTopo /\ nextCpu = 0 /\ known = {}

Goto(p) == phase' = p

-----------------------------------------------------------------------------
(* topo_folder_scan: readdir returns the directories in any order.         *)

DirInfo(c) == [physical |-> machine[c].physical, core |-> machine[c].core, cpu |-> c]

ReadCpuDir(c) ==
    /\ phase = "scan" /\ c \in unread
    /\ machine[c].online = "yes" => NoNegativeId(DirInfo(c))
    /\ unread' = unread \ {c}
    /\ topo' = IF machine[c].online = "yes" THEN AddTopoInfo(topo, DirInfo(c)) ELSE topo
    /\ IF machine[c].online = "unknown" THEN Goto("failed") ELSE UNCHANGED phase
    /\ UNCHANGED <<machine, format, written, file, pos, nrcpus, headerVars>>

ScanEnds ==
    /\ phase = "scan" /\ unread = {}
    /\ Goto(IF format = "idlestat" THEN "store" ELSE "loaded")
    /\ UNCHANGED <<machine, format, scanVars, written, file, pos, nrcpus, headerVars>>

-----------------------------------------------------------------------------
(* idlestat_store.                                                         *)

\* output_cstate_info; "states" stands for the names and residencies.
CstateLines(t) ==
    FlattenSeq([i \in 1 .. NrCpus |->
        IF i - 1 \in t.online
        THEN <<Counted("cpuid", i - 1), Counted("states", i - 1)>>
        ELSE <<>>])

FirstLines == <<Plain("idlestat version"), Counted("cpus", NrCpus)>>
LastLines(t) == CstateLines(t) \o <<Plain("record")>>

Written(t) == FirstLines \o TopologyLines(t) \o LastLines(t)

\* Someone puts a comment into the topology.
Commented(t) ==
    {InsertAt(Written(t), i, Plain("#")) : i \in 3 .. Len(TopologyLines(t)) + 3}

\* Someone leaves out the cores in clusters where every CPU is its own core.
OwnCores(t) ==
    {k \in DOMAIN t.clusters : \A o \in DOMAIN t.clusters[k].cores :
        CpusOfCore(t.clusters[k].cores[o]) = {t.clusters[k].cores[o].id}}

FlatLines(k) ==
    <<[kind |-> "cluster", n |-> Letter(k.id)]>>
      \o [o \in DOMAIN k.cores |-> [kind |-> "cpu", n |-> k.cores[o].id]]

Flat(t) ==
    {FirstLines \o FlattenSeq([k \in DOMAIN t.clusters |->
                                  IF k \in flat THEN FlatLines(t.clusters[k])
                                                ELSE ClusterLines(t.clusters[k])])
                \o LastLines(t) : flat \in SUBSET OwnCores(t)}

\* The disk is full and the end of the file is lost, which no one notices.
CutShort(t) == {SubSeq(Written(t), 1, n) : n \in 0 .. Len(Written(t)) - 1}

StoreHeader ==
    /\ phase = "store" /\ Goto("magic")
    /\ written' = topo
    /\ file' \in Commented(topo) \cup Flat(topo) \cup CutShort(topo)
    /\ UNCHANGED <<machine, format, scanVars, pos, nrcpus, headerVars>>

-----------------------------------------------------------------------------
(* idlestat_load: the loader whose magic the first line has; then the      *)
(* loaders up to the topology.                                             *)

Line  == file[pos]
AtEnd == pos > Len(file)

\* fgets into the buffer, the failure of which is an error.
FetchLine == IF pos < Len(file) THEN pos' = pos + 1 /\ UNCHANGED phase
                                ELSE Goto("failed") /\ UNCHANGED pos

CheckMagic ==
    /\ phase = "magic"
    /\ Goto(IF AtEnd THEN "failed"
            ELSE CASE Line.kind = "idlestat version" -> "native head"
                   [] Line.kind = "# tracer"         -> "ftrace head"
                   [] Line.kind = "version ="        -> "trace-cmd head")
    /\ UNCHANGED <<machine, format, scanVars, written, file, pos, nrcpus, headerVars>>

(* Slip: the third line of a trace-cmd report is not fetched. *)
ReadHeadShort ==
    /\ phase \in {"native head", "trace-cmd head"}
    /\ IF Len(file) < 3
       THEN Goto("failed") /\ UNCHANGED <<pos, nrcpus>>
       ELSE /\ Goto(IF phase = "native head" THEN "topology" ELSE "scan")
            /\ pos' = (IF phase = "native head" THEN 3 ELSE 2)
            /\ nrcpus' = file[2].n
    /\ UNCHANGED <<machine, format, scanVars, written, file, headerVars>>

\* The second line has the number of CPUs, the third must exist.
ReadHead ==
    /\ phase \in {"native head", "trace-cmd head"}
    /\ IF Len(file) < 3
       THEN Goto("failed") /\ UNCHANGED <<pos, nrcpus>>
       ELSE /\ Goto(IF phase = "native head" THEN "topology" ELSE "scan")
            /\ pos' = 3 /\ nrcpus' = file[2].n
    /\ UNCHANGED <<machine, format, scanVars, written, file, headerVars>>

\* ftrace_load reads the number of CPUs from every comment line, also from
\* those that do not have it.
ReadFtraceComment ==
    /\ phase = "ftrace head" /\ Line.kind # "record"
    /\ nrcpus' = IF Line.kind = "# entries" THEN Line.n ELSE 0
    /\ FetchLine
    /\ UNCHANGED <<machine, format, scanVars, written, file, headerVars>>

FtraceHeadEnds ==
    /\ phase = "ftrace head" /\ Line.kind = "record"
    /\ Goto(IF nrcpus = 0 THEN "failed" ELSE "scan")
    /\ UNCHANGED <<machine, format, scanVars, written, file, pos, nrcpus, headerVars>>

-----------------------------------------------------------------------------
(* read_cpu_topo_info: an outer loop over clusters, an inner one over the  *)
(* lines of a cluster, which a line it does not know ends.                 *)

KeepReader == UNCHANGED <<machine, format, scanVars, written, file, nrcpus,
                          nextCpu, known>>

SkipComment ==
    /\ phase = "topology" /\ Line.kind = "#"
    /\ FetchLine /\ UNCHANGED <<place, read>> /\ KeepReader

(* Slip: is_ht is not reset. *)
ReadClusterOnly ==
    /\ phase = "topology" /\ place.level = "clusters" /\ Line.kind = "cluster"
    /\ place' = [place EXCEPT !.level = "cluster", !.physical = IdOf(Line.n)]
    /\ FetchLine /\ UNCHANGED read /\ KeepReader

ReadCluster ==
    /\ phase = "topology" /\ place.level = "clusters" /\ Line.kind = "cluster"
    /\ place' = [place EXCEPT !.level = "cluster", !.physical = IdOf(Line.n),
                              !.ht = FALSE]
    /\ FetchLine /\ UNCHANGED read /\ KeepReader

ReadCore ==
    /\ phase = "topology" /\ place.level = "cluster" /\ Line.kind = "core"
    /\ place' = [place EXCEPT !.core = Line.n, !.ht = TRUE]
    /\ FetchLine /\ UNCHANGED read /\ KeepReader

\* Without a core line in its cluster, a CPU is its own core.
LineInfo == [physical |-> place.physical,
             core |-> IF place.ht THEN place.core ELSE Line.n, cpu |-> Line.n]

AtCpuLine == phase = "topology" /\ place.level = "cluster" /\ Line.kind = "cpu"

ReadCpu ==
    /\ AtCpuLine /\ NoNegativeId(LineInfo)
    /\ place' = [place EXCEPT !.core = LineInfo.core]
    /\ read' = AddTopoInfo(read, LineInfo)
    /\ FetchLine /\ KeepReader

EndOfCluster ==
    /\ phase = "topology" /\ place.level = "cluster"
    /\ Line.kind \notin {"#", "core", "cpu"}
    /\ place' = [place EXCEPT !.level = "clusters"]
    /\ UNCHANGED <<phase, pos, read>> /\ KeepReader

EndOfTopology ==
    /\ phase = "topology" /\ place.level = "clusters"
    /\ Line.kind \notin {"#", "cluster"}
    /\ Goto("cstates")
    /\ UNCHANGED <<pos, place, read>> /\ KeepReader

ReadTopology == SkipComment \/ ReadCluster \/ ReadCore \/ ReadCpu
                  \/ EndOfCluster \/ EndOfTopology

-----------------------------------------------------------------------------
(* load_and_build_cstate_info: the blocks of the CPUs that are online, in  *)
(* order.  What fgets returns is not looked at: a block cut short leaves   *)
(* its CPU with states that are not the ones written.                      *)

BlockHere == ~AtEnd /\ Line = Counted("cpuid", nextCpu)

ReadBlock ==
    IF BlockHere
    THEN /\ known' = IF pos < Len(file) THEN known \cup {nextCpu} ELSE known
         /\ nextCpu' = nextCpu + 1 /\ pos' = pos + 2 /\ UNCHANGED phase
    ELSE Goto("failed") /\ UNCHANGED <<pos, nextCpu, known>>

(* Slip: offline CPUs are expected to have a block, too. *)
ReadCstatesOfAll ==
    /\ phase = "cstates"
    /\ \/ nextCpu = nrcpus /\ Goto("loaded") /\ UNCHANGED <<pos, nextCpu, known>>
       \/ nextCpu < nrcpus /\ ReadBlock
    /\ UNCHANGED <<machine, format, scanVars, written, file, nrcpus, place, read>>

(* Slip: a CPU without a block keeps the empty C-states it was given. *)
ReadCstatesThatExist ==
    /\ phase = "cstates"
    /\ \/ nextCpu = nrcpus /\ Goto("loaded") /\ UNCHANGED <<pos, nextCpu, known>>
       \/ nextCpu < nrcpus /\ BlockHere /\ ReadBlock
       \/ /\ nextCpu < nrcpus /\ ~BlockHere
          /\ nextCpu' = nextCpu + 1 /\ UNCHANGED <<phase, pos, known>>
    /\ UNCHANGED <<machine, format, scanVars, written, file, nrcpus, place, read>>

ReadCstates ==
    /\ phase = "cstates"
    /\ \/ nextCpu = nrcpus /\ Goto("loaded") /\ UNCHANGED <<pos, nextCpu, known>>
       \/ nextCpu < nrcpus /\ nextCpu \in read.online /\ ReadBlock
       \/ /\ nextCpu < nrcpus /\ nextCpu \notin read.online
          /\ nextCpu' = nextCpu + 1 /\ UNCHANGED <<phase, pos, known>>
    /\ UNCHANGED <<machine, format, scanVars, written, file, nrcpus, place, read>>

\* add_topo_info's assertions end the program, in the scan or in a loader.
Abort ==
    /\ \/ phase = "scan" /\ \E c \in unread : /\ machine[c].online = "yes"
                                              /\ ~NoNegativeId(DirInfo(c))
       \/ AtCpuLine /\ ~NoNegativeId(LineInfo)
    /\ Goto("aborted")
    /\ UNCHANGED <<machine, format, scanVars, written, file, pos, nrcpus, headerVars>>

Next ==
    \/ \E c \in Cpus : ReadCpuDir(c)
    \/ ScanEnds \/ StoreHeader \/ CheckMagic \/ ReadHead
    \/ ReadFtraceComment \/ FtraceHeadEnds \/ ReadTopology \/ ReadCstates
    \/ Abort

Spec == Init /\ [][Next]_vars

-----------------------------------------------------------------------------
(* Properties.                                                             *)

\* The topology that is loaded: the header's or, without one, sysfs'.
Loaded == IF format = "idlestat" THEN read ELSE topo

CpusRead == {c \in Cpus \ unread : machine[c].online = "yes"}

\* The CPUs of one cluster: each is under its core and enumerated once.
ClusterHolds(cluster, m, cpus) ==
    /\ InOrder(cluster.cores)
    /\ Ids(cluster.cores) = {m[c].core : c \in cpus}
    /\ IsInjective(cluster.enum) /\ ToSet(cluster.enum) = cpus
    /\ \A o \in DOMAIN cluster.cores :
          /\ InOrder(cluster.cores[o].cpus)
          /\ CpusOfCore(cluster.cores[o]) =
                {c \in cpus : m[c].core = cluster.cores[o].id}

TreeOf(t, m, cpus) ==
    /\ InOrder(t.clusters)
    /\ Ids(t.clusters) = {m[c].physical : c \in cpus}
    /\ t.online = cpus
    /\ \A k \in DOMAIN t.clusters :
          ClusterHolds(t.clusters[k], m,
                       {c \in cpus : m[c].physical = t.clusters[k].id})

\* However the directories are ordered, every CPU that is online is in the
\* tree once, under its own cluster and core, every list is in order, and
\* nothing else is in it (add_topo_info).
TreeIsMachine == TreeOf(topo, machine, CpusRead)

\* Whatever the machine, its CPUs are found where they are: the lookups
\* store_data and check_pstate_composite rely on agree with each other.
LookupsAgree ==
    phase = "loaded" => \A c \in Loaded.online :
        /\ CpuToCluster(Loaded, c).id = machine[c].physical
        /\ CpuToCore(Loaded, c).id = machine[c].core
        /\ CpuToCore(Loaded, c) \in ToSet(CpuToCluster(Loaded, c).cores)

\* A header that is loaded gives back the topology that was written,
\* comments and lost ends notwithstanding (outfile_topo_info,
\* read_cpu_topo_info), and, if there is anything behind it, the C-states of
\* every CPU; a file that ends in it can cost the last CPU's, no other's.
HeaderReadBack ==
    format = "idlestat" /\ phase = "loaded" =>
        /\ SameTree(read, written)
        /\ \A c \in written.online \ known :
              AtEnd /\ \A d \in written.online : d <= c

\* The first record is what the loader has in its buffer when it comes to
\* the records: no header line is taken for one, and none is swallowed.
FirstRecordNext ==
    phase = "loaded" /\ ~AtEnd => Line.kind = "record"

\* A complete file of idlestat's own is loaded, whichever CPUs were off line,
\* unless a cluster's letter comes back as a negative id, as those of the ids
\* 63 to 190 do: then the reader's assertion ends the program.
NativeFileLoads ==
    format = "idlestat" /\ file # <<>> =>
        /\ phase = "failed" => file[Len(file)].kind # "record"
        /\ phase = "aborted" =>
              \E k \in DOMAIN written.clusters : IdOf(Letter(written.clusters[k].id)) < 0

\* idlestat.1: "Idlestat can also import standard FTRACE format".
FtraceFileLoads ==
    phase = "failed" /\ format = "ftrace" =>
        \E c \in Cpus : machine[c].online = "unknown"
=============================================================================

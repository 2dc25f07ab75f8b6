------------------------------ MODULE MCReport ------------------------------
(***************************************************************************)
(* Instances of Report for TLC: the traces are what loading (TraceLoad)    *)
(* makes of a few records on machines of one and two CPUs.                 *)
(***************************************************************************)
EXTENDS Report

Word(o)    == [opt |-> o]
Arg(o, a)  == [opt |-> o, arg |-> a]

SmallWords ==
    {Word(o) : o \in {"trace", "import", "idle", "frequency", "wakeup", "help", "unknown"}}
      \cup {Arg("trace-file", "good"), Arg("baseline-trace", "good"),
            Arg("baseline-trace", "bad"), Arg("duration", 2),
            Arg("report-format", "csv"), Arg("report-format", "comparison")}

-----------------------------------------------------------------------------
\* The machine of which CPU i - 1 is in cluster and core places[i], or not
\* on line.
Machine(places) ==
    FoldLeft(LAMBDA topo, i :
                IF places[i] = <<>> THEN topo
                ELSE AddTopoInfo(topo, [physical |-> places[i][1],
                                        core |-> places[i][2], cpu |-> i - 1]),
             EmptyTopo, [i \in DOMAIN places |-> i])

Single      == <<<<0, 0>>>>
Threads     == <<<<0, 0>>, <<0, 0>>>>
TwoCores    == <<<<0, 0>>, <<0, 1>>>>
TwoClusters == <<<<0, 0>>, <<1, 0>>>>
Gap         == <<<<0, 0>>, <<>>, <<0, 1>>>>

Load(topo) ==
    INSTANCE TraceLoad WITH
        Cpus <- CpuNodes(topo), Cores <- CoreNodes(topo), Clusters <- ClusterNodes(topo),
        CoreOf <- [n \in CpuNodes(topo) |-> <<n[1], n[2]>>],
        ClusterOf <- [n \in CoreNodes(topo) |-> <<n[1]>>],
        LeadCpu <- [n \in CoreNodes(topo) \cup ClusterNodes(topo) |->
                       IF Len(n) = 2 THEN <<n[1], n[2], 1>> ELSE <<n[1], 1, 1>>],
        TargetResidency <- [n \in CpuNodes(topo) |-> [s \in State |-> s + 1]],
        Named <- [n \in CpuNodes(topo) |-> State],
        FreqRange <- {}, Irqs <- {}, MaxTime <- 0, MaxRecords <- 0, Backstep <- 0,
        Native <- FALSE, Lossy <- FALSE,
        cst <- <<>>, pst <- <<>>, wake <- <<>>, now <- 0, ended <- {},
        entries <- <<>>, records <- 0

NodeOf(topo, c) == CHOOSE n \in CpuNodes(topo) : CpuAt(topo, n) = c
OnLine(topo) == SetToSortSeq(topo.online, <)

\* What StoreData, ChangeFreq and StoreIrq do with a record of the r.cpu-th
\* CPU on line.
Take(topo, s, r) ==
    LET n == NodeOf(topo, OnLine(topo)[r.cpu + 1]) IN
    CASE r.kind = "freq" ->
           [s EXCEPT !.pst = Load(topo)!CpuChangePstate(@, n, r.value, r.t)]
      [] r.kind = "idle" ->
           IF r.value = -1 /\ s.cst[n].max = -1 THEN s
           ELSE [s EXCEPT !.cst = Load(topo)!StoreCstate(@, n, r.value, r.t),
                          !.pst = IF s.pst[n].table = <<>> THEN @
                                  ELSE IF r.value = -1
                                  THEN Load(topo)!CpuPstateRunning(@, n, r.t)
                                  ELSE Load(topo)!CpuPstateIdle(@, n, r.t)]
      [] r.kind = "irq" ->
           [s EXCEPT !.irqs[n] = Append(@,
               [name |-> r.value, stat |-> [count |-> 1, early |-> 0, late |-> 0]])]

Loaded(places, records) ==
    LET topo == Machine(places)
        mine == SelectSeq(records, LAMBDA r : r.cpu < Cardinality(topo.online))
        s    == FoldLeft(LAMBDA x, r : Take(topo, x, r),
                    [cst  |-> [n \in Nodes(topo) |-> NewCStates(State)],
                     pst  |-> [n \in Nodes(topo) |-> NewPStates],
                     irqs |-> [n \in CpuNodes(topo) |-> <<>>]], mine)
        cpus == 0 .. Len(places) - 1
        groups == Nodes(topo) \ CpuNodes(topo)
    IN  [topo |-> topo, nrcpus |-> Len(places),
         pst  |-> [c \in cpus |-> IF c \in topo.online THEN s.pst[NodeOf(topo, c)]
                                  ELSE NewPStates],
         cst  |-> [c \in topo.online |-> s.cst[NodeOf(topo, c)]],
         irqs |-> [c \in topo.online |-> s.irqs[NodeOf(topo, c)]],
         groupP |-> [n \in groups |-> s.pst[n]],
         groupC |-> [n \in groups |-> s.cst[n]]]

-----------------------------------------------------------------------------
Rec(kind, c, value, t) == [kind |-> kind, cpu |-> c, value |-> value, t |-> t]
Freq(c, f, t) == Rec("freq", c, f, t)
Idle(c, s, t) == Rec("idle", c, s, t)
Wake(c, t)    == Idle(c, -1, t)
Irq(c, i)     == Rec("irq", c, i, 0)

\* Both CPUs busy at two frequencies each, then idle together.
Busy == <<Freq(0, 2, 0), Freq(1, 2, 0), Idle(0, 0, 1), Wake(0, 2), Freq(0, 4, 3),
          Freq(1, 1, 3), Idle(0, 1, 4), Idle(1, 0, 4), Irq(1, 10), Wake(1, 5),
          Irq(0, 10), Irq(0, 11), Wake(0, 6)>>
\* Only CPU 1 did anything, at other frequencies, not as deep.
Other == <<Freq(1, 3, 0), Idle(1, 0, 1), Wake(1, 3), Freq(1, 2, 4), Idle(1, 0, 5)>>
\* CPU 0 runs at a high frequency and goes into the deep state only.
Deep == <<Freq(0, 5, 0), Freq(0, 3, 1), Idle(0, 1, 3), Wake(0, 6)>>
Quiet == <<>>

SmallTraces ==
    {Loaded(m, r) : m \in {Single, Threads, TwoCores, TwoClusters, Gap},
                    r \in {Busy, Other, Deep, Quiet}}
=============================================================================

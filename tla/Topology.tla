------------------------------ MODULE Topology ------------------------------
(***************************************************************************)
(* The tree of topology.c: clusters (cpu_physical), their cores, their     *)
(* CPUs, each list kept in the order of its ids.  An entry of a list is a  *)
(* record with an `id'.  `enum' is the cluster's second list of its CPUs,  *)
(* in the order they were added.  `online' is the online_cpus array.       *)
(***************************************************************************)
EXTENDS Integers, Sequences, SequencesExt

EmptyTopo == [clusters |-> <<>>, online |-> {}]

CoreType    == [id : Int, cpus : Seq([id : Int])]
ClusterType == [id : Int, cores : Seq(CoreType), enum : Seq(Int)]
TopoType    == [clusters : Seq(ClusterType), online : SUBSET Int]

Ids(list) == {list[i].id : i \in DOMAIN list}

InOrder(list) == \A i, j \in DOMAIN list : i < j => list[i].id < list[j].id

\* check_exist_from_head
IndexOf(list, id) == CHOOSE i \in DOMAIN list : list[i].id = id

(* Slip: a new entry goes to the head of the list. *)
PlaceAtHead(list, id) == 1

\* check_pos_from_head: in front of the first entry with a greater id.
Place(list, id) ==
    CHOOSE i \in 1 .. Len(list) + 1 :
        /\ i <= Len(list) => id < list[i].id
        /\ \A j \in 1 .. i - 1 : list[j].id <= id

\* The list with an entry for new.id, old or new.
WithEntry(list, new) ==
    IF new.id \in Ids(list) THEN list
    ELSE InsertAt(list, Place(list, new.id), new)

\* What add_topo_info asserts.
NoNegativeId(info) == info.physical >= 0 /\ info.core >= 0 /\ info.cpu >= 0

\* add_topo_info: the CPU's cluster and core are made when they are new.
AddTopoInfo(topo, info) ==
    LET clusters == WithEntry(topo.clusters,
                        [id |-> info.physical, cores |-> <<>>, enum |-> <<>>])
        k        == IndexOf(clusters, info.physical)
        cores    == WithEntry(clusters[k].cores, [id |-> info.core, cpus |-> <<>>])
        o        == IndexOf(cores, info.core)
        cpus     == WithEntry(cores[o].cpus, [id |-> info.cpu])
    IN  IF cpus = cores[o].cpus
        THEN [topo EXCEPT !.clusters = [clusters EXCEPT ![k].cores = cores]]
        ELSE [clusters |-> [clusters EXCEPT
                              ![k].cores = [cores EXCEPT ![o].cpus = cpus],
                              ![k].enum  = Append(@, info.cpu)],
              online   |-> topo.online \cup {info.cpu}]

-----------------------------------------------------------------------------
(* Lookups.                                                                *)

CpusOfCore(core) == Ids(core.cpus)

CoreList(topo) == FlattenSeq([k \in DOMAIN topo.clusters |-> topo.clusters[k].cores])

\* cpu_to_cluster searches the enumerations, cpu_to_core the tree.
CpuToCluster(topo, c) ==
    topo.clusters[SelectInSeq(topo.clusters, LAMBDA k : c \in ToSet(k.enum))]

CpuToCore(topo, c) ==
    CoreList(topo)[SelectInSeq(CoreList(topo), LAMBDA o : c \in CpusOfCore(o))]

-----------------------------------------------------------------------------
(* The header's lines: outfile_topo_info.                                  *)

\* A char, as %c writes and reads it: eight bits, signed.
Char(n) == LET b == n % 256 IN IF b < 128 THEN b ELSE b - 256
Letter(id) == Char(id + 65)
IdOf(letter) == letter - 65

CoreLines(core) ==
    <<[kind |-> "core", n |-> core.id]>>
      \o [i \in DOMAIN core.cpus |-> [kind |-> "cpu", n |-> core.cpus[i].id]]

ClusterLines(k) ==
    <<[kind |-> "cluster", n |-> Letter(k.id)]>>
      \o FlattenSeq([o \in DOMAIN k.cores |-> CoreLines(k.cores[o])])

TopologyLines(topo) ==
    FlattenSeq([k \in DOMAIN topo.clusters |-> ClusterLines(topo.clusters[k])])

\* The same CPUs in the same places; the enumerations may differ in order.
SameTree(a, b) ==
    /\ a.online = b.online
    /\ DOMAIN a.clusters = DOMAIN b.clusters
    /\ \A k \in DOMAIN a.clusters :
          /\ a.clusters[k].id = b.clusters[k].id
          /\ a.clusters[k].cores = b.clusters[k].cores
          /\ ToSet(a.clusters[k].enum) = ToSet(b.clusters[k].enum)
=============================================================================

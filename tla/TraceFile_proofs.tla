-------------------------- MODULE TraceFile_proofs --------------------------
(***************************************************************************)
(* The tree that add_topo_info builds is the machine, in whatever order    *)
(* its CPUs come; and so is the tree read back from a header, for every    *)
(* machine, wherever the file is commented or cut.                         *)
(***************************************************************************)
EXTENDS TraceFile, DataLemmas

(* Lists of entries that have an id.                                       *)
Entries(T) == \A e \in T : e.id \in Int

\* In a list in order an id is there once.
LEMMA OrderedDistinct ==
    ASSUME NEW T, Entries(T), NEW list \in Seq(T), InOrder(list),
           NEW i \in DOMAIN list, NEW j \in DOMAIN list, list[i].id = list[j].id
    PROVE  i = j
<1>1. i \in Int /\ j \in Int /\ list[i] \in T /\ list[j] \in T
  OBVIOUS
<1>2. list[i].id \in Int /\ list[j].id \in Int
  BY <1>1 DEF Entries
<1>3. i < j \/ j < i \/ i = j
  BY <1>1
<1> QED BY <1>2, <1>3 DEF InOrder

\* The place of an id is one where it is found.
LEMMA IndexOfIs ==
    ASSUME NEW list, NEW id \in Ids(list)
    PROVE  IndexOf(list, id) \in DOMAIN list /\ list[IndexOf(list, id)].id = id
<1>1. \E i \in DOMAIN list : list[i].id = id
  BY DEF Ids
<1> QED BY <1>1 DEF IndexOf

(* There is one place for a new entry: in front of the first entry with a  *)
(* greater id, or at the end (check_pos_from_head).                        *)
LEMMA PlaceIs ==
    ASSUME NEW T, Entries(T), NEW list \in Seq(T), NEW id \in Int
    PROVE  /\ Place(list, id) \in 1 .. Len(list) + 1
           /\ Place(list, id) <= Len(list) => id < list[Place(list, id)].id
           /\ \A j \in 1 .. Place(list, id) - 1 : list[j].id <= id
<1> DEFINE Here(i) == i = Len(list) + 1 \/ id < list[i].id
           P == {i \in 1 .. Len(list) + 1 : Here(i)}
<1>1. Len(list) \in Nat /\ \A i \in 1 .. Len(list) : list[i] \in T
  OBVIOUS
<1>2. P \in SUBSET Int /\ P # {} /\ IsFiniteSet(P)
  <2>1. P \subseteq 1 .. Len(list) + 1 /\ IsFiniteSet(1 .. Len(list) + 1)
    BY <1>1, FS_Interval
  <2>2. Len(list) + 1 \in P
    BY <1>1
  <2> QED BY <2>1, <2>2, FS_Subset
<1>3. PICK i \in P : \A y \in P : i <= y
  <2> HIDE DEF P
  <2> QED BY <1>2, LeastExists
<1>4. i <= Len(list) => id < list[i].id
  BY <1>1, <1>3
<1>5. ASSUME NEW j \in 1 .. i - 1
      PROVE  list[j].id <= id
  <2>1. j \in 1 .. Len(list) /\ j \notin P
    BY <1>1, <1>3
  <2>2. list[j].id \in Int
    BY <1>1, <2>1 DEF Entries
  <2> QED BY <2>1, <2>2
<1>6. \E n \in 1 .. Len(list) + 1 : /\ n <= Len(list) => id < list[n].id
                                    /\ \A j \in 1 .. n - 1 : list[j].id <= id
  BY <1>3, <1>4, <1>5
<1> QED BY <1>6 DEF Place

(* The list with an entry is in order, and has at most that entry more.    *)
LEMMA WithEntryIs ==
    ASSUME NEW T, Entries(T), NEW list \in Seq(T), NEW new \in T, InOrder(list)
    PROVE  /\ WithEntry(list, new) \in Seq(T)
           /\ InOrder(WithEntry(list, new))
           /\ Ids(WithEntry(list, new)) = Ids(list) \cup {new.id}
           /\ \A i \in DOMAIN WithEntry(list, new) :
                 \/ \E j \in DOMAIN list : WithEntry(list, new)[i] = list[j]
                 \/ WithEntry(list, new)[i] = new /\ new.id \notin Ids(list)
<1>1. new.id \in Int /\ Len(list) \in Nat /\ DOMAIN list = 1 .. Len(list)
  BY DEF Entries
<1>2. CASE new.id \in Ids(list)
  BY <1>2 DEF WithEntry
<1>3. CASE new.id \notin Ids(list)
  <2> DEFINE p == Place(list, new.id)
             L == InsertAt(list, p, new)
  <2>1. /\ p \in 1 .. Len(list) + 1
        /\ p <= Len(list) => new.id < list[p].id
        /\ \A j \in 1 .. p - 1 : list[j].id <= new.id
    BY <1>1, PlaceIs
  <2> HIDE DEF p
  <2>2. /\ L \in Seq(T) /\ Len(L) = Len(list) + 1
        /\ \A j \in 1 .. Len(list) + 1 : L[j] =
              IF j < p THEN list[j] ELSE IF j = p THEN new ELSE list[j - 1]
    BY <2>1, InsertAtProperties
  <2>3. WithEntry(list, new) = L
    BY <1>3 DEF WithEntry, p
  <2> HIDE DEF L
  <2>4. DOMAIN L = 1 .. Len(list) + 1
    BY <2>2
  <2>5. \A j \in 1 .. Len(list) : list[j].id \in Int /\ list[j].id # new.id
    <3>1. \A j \in 1 .. Len(list) : list[j] \in T
      OBVIOUS
    <3> QED BY <1>1, <1>3, <3>1 DEF Ids, Entries
  <2>6. \A i, j \in 1 .. Len(list) : i < j => list[i].id < list[j].id
    BY <1>1 DEF InOrder
  <2>7. \A j \in 1 .. Len(list) : IF j < p THEN list[j].id < new.id
                                           ELSE new.id < list[j].id
    <3> SUFFICES ASSUME NEW j \in 1 .. Len(list)
                 PROVE  IF j < p THEN list[j].id < new.id ELSE new.id < list[j].id
      OBVIOUS
    <3>1. CASE j < p
      <4>1. j \in 1 .. p - 1
        BY <1>1, <2>1, <3>1
      <4> QED BY <1>1, <2>1, <2>5, <3>1, <4>1
    <3>2. CASE j = p
      BY <1>1, <2>1, <3>2
    <3>3. CASE p < j
      <4>1. p \in 1 .. Len(list) /\ list[p].id < list[j].id
        BY <1>1, <2>1, <2>6, <3>3
      <4> QED BY <1>1, <2>1, <2>5, <3>3, <4>1
    <3> QED BY <1>1, <2>1, <3>1, <3>2, <3>3
  <2>8. InOrder(L)
    <3> SUFFICES ASSUME NEW i \in 1 .. Len(list) + 1, NEW j \in 1 .. Len(list) + 1, i < j
                 PROVE  L[i].id < L[j].id
      BY <2>4 DEF InOrder
    <3>1. CASE j < p
      BY <1>1, <2>1, <2>2, <2>6, <3>1
    <3>2. CASE j = p
      BY <1>1, <2>1, <2>2, <2>7, <3>2
    <3>3. CASE i < p /\ p < j
      <4>1. L[i] = list[i] /\ L[j] = list[j - 1] /\ i < j - 1
        BY <1>1, <2>1, <2>2, <3>3
      <4> QED BY <1>1, <2>1, <2>6, <3>3, <4>1
    <3>4. CASE i = p
      <4>1. L[i] = new /\ L[j] = list[j - 1] /\ j - 1 \in 1 .. Len(list) /\ ~(j - 1 < p)
        BY <1>1, <2>1, <2>2, <3>4
      <4> QED BY <2>7, <4>1
    <3>5. CASE p < i
      <4>1. L[i] = list[i - 1] /\ L[j] = list[j - 1] /\ i - 1 < j - 1
            /\ i - 1 \in 1 .. Len(list) /\ j - 1 \in 1 .. Len(list)
        BY <1>1, <2>1, <2>2, <3>5
      <4> QED BY <2>6, <4>1
    <3> QED BY <1>1, <2>1, <3>1, <3>2, <3>3, <3>4, <3>5
  <2>9. ASSUME NEW i \in 1 .. Len(list) + 1
        PROVE  L[i] = new \/ \E j \in 1 .. Len(list) : L[i] = list[j]
    <3>1. i < p \/ i = p \/ (p < i /\ i - 1 \in 1 .. Len(list))
      BY <1>1, <2>1
    <3>2. i < p => i \in 1 .. Len(list)
      BY <1>1, <2>1
    <3> QED BY <2>2, <3>1, <3>2
  <2>10. ASSUME NEW j \in 1 .. Len(list)
         PROVE  \E i \in 1 .. Len(list) + 1 : L[i] = list[j]
    <3>1. CASE j < p
      <4>1. j \in 1 .. Len(list) + 1
        BY <1>1
      <4> QED BY <2>2, <3>1, <4>1
    <3>2. CASE ~(j < p)
      <4>1. j + 1 \in 1 .. Len(list) + 1 /\ ~(j + 1 < p) /\ j + 1 # p
        BY <1>1, <2>1, <3>2
      <4>2. L[j + 1] = list[j + 1 - 1]
        BY <2>2, <4>1
      <4>3. j + 1 - 1 = j
        BY <1>1
      <4> QED BY <4>1, <4>2, <4>3
    <3> QED BY <3>1, <3>2
  <2>11. L[p] = new
    BY <2>1, <2>2
  <2>12. Ids(L) = Ids(list) \cup {new.id}
    <3>1. ASSUME NEW x \in Ids(L)
          PROVE  x \in Ids(list) \cup {new.id}
      <4>1. PICK i \in 1 .. Len(list) + 1 : x = L[i].id
        BY <2>4 DEF Ids
      <4> QED BY <1>1, <2>9, <4>1 DEF Ids
    <3>2. ASSUME NEW x \in Ids(list) \cup {new.id}
          PROVE  \E i \in 1 .. Len(list) + 1 : x = L[i].id
      <4>1. CASE x = new.id
        BY <2>1, <2>11, <4>1
      <4>2. CASE x \in Ids(list)
        <5>1. PICK j \in 1 .. Len(list) : x = list[j].id
          BY <1>1, <4>2 DEF Ids
        <5> QED BY <2>10, <5>1
      <4> QED BY <4>1, <4>2
    <3> QED BY <2>4, <3>1, <3>2 DEF Ids
  <2> QED BY <1>1, <1>3, <2>2, <2>3, <2>4, <2>8, <2>9, <2>12
<1> QED BY <1>2, <1>3

-----------------------------------------------------------------------------
(* add_topo_info.                                                          *)

\* Clusters, cores and CPUs are entries.
LEMMA EntryTypes == /\ Entries([id : Int]) /\ Entries(CoreType) /\ Entries(ClusterType)
BY DEF Entries, CoreType, ClusterType

(* A CPU is added to the cores of its cluster.                             *)
LEMMA ClusterGains ==
    ASSUME NEW cluster \in ClusterType, NEW m, NEW cpus,
           ClusterHolds(cluster, m, cpus),
           NEW c \in Int, c \notin cpus, m[c].core \in Int,
           NEW cores, NEW o, NEW list,
           cores = WithEntry(cluster.cores, [id |-> m[c].core, cpus |-> <<>>]),
           o = IndexOf(cores, m[c].core),
           list = WithEntry(cores[o].cpus, [id |-> c])
    PROVE  /\ o \in DOMAIN cores /\ list # cores[o].cpus
           /\ [cluster EXCEPT !.cores = [cores EXCEPT ![o].cpus = list],
                              !.enum = Append(@, c)] \in ClusterType
           /\ ClusterHolds([cluster EXCEPT !.cores = [cores EXCEPT ![o].cpus = list],
                                           !.enum = Append(@, c)], m, cpus \cup {c})
<1> DEFINE r   == m[c].core
           new == [id |-> r, cpus |-> <<>>]
           C   == [cores EXCEPT ![o].cpus = list]
           e   == Append(cluster.enum, c)
           k   == [cluster EXCEPT !.cores = C, !.enum = e]
<1>1. cluster.id \in Int /\ cluster.cores \in Seq(CoreType) /\ cluster.enum \in Seq(Int)

  BY DEF ClusterType
<1>2. new \in CoreType
  BY DEF CoreType
<1>3. /\ InOrder(cluster.cores)
      /\ Ids(cluster.cores) = {m[d].core : d \in cpus}
      /\ IsInjective(cluster.enum) /\ ToSet(cluster.enum) = cpus
      /\ \A i \in DOMAIN cluster.cores :
            /\ InOrder(cluster.cores[i].cpus)
            /\ CpusOfCore(cluster.cores[i]) = {d \in cpus : m[d].core = cluster.cores[i].id}
  BY DEF ClusterHolds
<1>4. /\ cores \in Seq(CoreType) /\ InOrder(cores)
      /\ Ids(cores) = Ids(cluster.cores) \cup {r}
      /\ \A i \in DOMAIN cores :
            \/ \E j \in DOMAIN cluster.cores : cores[i] = cluster.cores[j]
            \/ cores[i] = new /\ r \notin Ids(cluster.cores)
  <2>1. new.id = r /\ cores = WithEntry(cluster.cores, new)
    OBVIOUS
  <2> HIDE DEF r, new
  <2>2. /\ WithEntry(cluster.cores, new) \in Seq(CoreType)
        /\ InOrder(WithEntry(cluster.cores, new))
        /\ Ids(WithEntry(cluster.cores, new)) = Ids(cluster.cores) \cup {new.id}
        /\ \A i \in DOMAIN WithEntry(cluster.cores, new) :
              \/ \E j \in DOMAIN cluster.cores :
                    WithEntry(cluster.cores, new)[i] = cluster.cores[j]
              \/ WithEntry(cluster.cores, new)[i] = new /\ new.id \notin Ids(cluster.cores)
    BY <1>1, <1>2, <1>3, EntryTypes, WithEntryIs, Zenon
  <2> QED BY <2>1, <2>2, Zenon
<1>5. o \in DOMAIN cores /\ cores[o].id = r
  BY <1>4, IndexOfIs
<1> HIDE DEF r
<1>6. ASSUME NEW i \in DOMAIN cores
      PROVE  /\ cores[i] \in CoreType
             /\ InOrder(cores[i].cpus)
             /\ CpusOfCore(cores[i]) = {d \in cpus : m[d].core = cores[i].id}
  <2>1. cores[i] \in CoreType
    BY <1>4
  <2>2. CASE \E j \in DOMAIN cluster.cores : cores[i] = cluster.cores[j]
    BY <1>3, <2>1, <2>2
  <2>3. CASE cores[i] = new /\ r \notin Ids(cluster.cores)
    <3>1. cores[i].cpus = <<>> /\ cores[i].id = r
      BY <2>3
    <3>2. InOrder(cores[i].cpus) /\ CpusOfCore(cores[i]) = {}
      BY <3>1 DEF InOrder, CpusOfCore, Ids
    <3>3. \A d \in cpus : m[d].core # r
      BY <1>3, <2>3
    <3> QED BY <2>1, <3>1, <3>2, <3>3
  <2> QED BY <1>4, <2>2, <2>3
<1>7. /\ list \in Seq([id : Int]) /\ InOrder(list)
      /\ Ids(list) = CpusOfCore(cores[o]) \cup {c}
      /\ list # cores[o].cpus
  <2> DEFINE one == [id |-> c]
             OneCpu == [id : Int]
             old == cores[o].cpus
  <2>1. cores[o].cpus \in Seq([id : Int]) /\ InOrder(cores[o].cpus)
    BY <1>5, <1>6 DEF CoreType
  <2>2. /\ one \in OneCpu /\ one.id = c /\ list = WithEntry(old, one)
        /\ old \in Seq(OneCpu) /\ Entries(OneCpu) /\ InOrder(old)
    BY <2>1, EntryTypes
  <2> HIDE DEF one, OneCpu, old
  <2>3. /\ list \in Seq([id : Int]) /\ InOrder(list)
        /\ Ids(list) = Ids(old) \cup {c}
    <3>1. /\ WithEntry(old, one) \in Seq(OneCpu)
          /\ InOrder(WithEntry(old, one))
          /\ Ids(WithEntry(old, one)) = Ids(old) \cup {one.id}
      BY ONLY <2>2, WithEntryIs
    <3> QED BY <2>2, <3>1, Zenon DEF OneCpu
  <2>4. c \notin CpusOfCore(cores[o])
    BY <1>5, <1>6
  <2> QED BY <2>3, <2>4 DEF CpusOfCore, old
<1>8. /\ C \in Seq(CoreType) /\ DOMAIN C = DOMAIN cores
      /\ \A i \in DOMAIN cores : C[i] = IF i = o THEN [cores[o] EXCEPT !.cpus = list]
                                                 ELSE cores[i]
  <2>1. [cores[o] EXCEPT !.cpus = list] \in CoreType
    BY <1>5, <1>6, <1>7 DEF CoreType
  <2> QED BY <1>4, <1>5, <2>1
<1> HIDE DEF C
<1>9. \A i \in DOMAIN cores : C[i].id = cores[i].id
  <2>1. [cores[o] EXCEPT !.cpus = list].id = cores[o].id
    BY <1>5, <1>6 DEF CoreType
  <2> QED BY <1>8, <2>1
<1>10. e \in Seq(Int) /\ IsInjective(e) /\ ToSet(e) = cpus \cup {c}
  <2> DEFINE n == Len(cluster.enum)
  <2>1. /\ e \in Seq(Int) /\ DOMAIN e = 1 .. n + 1 /\ n \in Nat
        /\ DOMAIN cluster.enum = 1 .. n
        /\ \A i \in 1 .. n : e[i] = cluster.enum[i]
        /\ e[n + 1] = c
    BY <1>1, AppendProperties
  <2>2. \A i \in 1 .. n : cluster.enum[i] \in cpus
    BY <1>3, <2>1 DEF ToSet
  <2> HIDE DEF n, e
  <2>3. \A i \in 1 .. n + 1 : i \in 1 .. n \/ i = n + 1
    BY <2>1
  <2>4. IsInjective(e)
    BY <1>3, <2>1, <2>2, <2>3 DEF IsInjective
  <2>5. ToSet(e) \subseteq cpus \cup {c}
    BY <2>1, <2>2, <2>3 DEF ToSet
  <2>6. \A i \in 1 .. n : i \in 1 .. n + 1
    BY <2>1
  <2>7. cpus \cup {c} \subseteq ToSet(e)
    <3>1. \A d \in cpus : \E i \in 1 .. n : d = cluster.enum[i]
      BY <1>3, <2>1 DEF ToSet
    <3>2. n + 1 \in 1 .. n + 1
      BY <2>1
    <3> QED BY <2>1, <2>6, <3>1, <3>2 DEF ToSet
  <2> QED BY <2>1, <2>4, <2>5, <2>7
<1>11. InOrder(C) /\ Ids(C) = {m[d].core : d \in cpus \cup {c}}
  <2> HIDE DEF C
  <2>1. InOrder(C)
    BY <1>4, <1>8, <1>9 DEF InOrder
  <2>2. Ids(C) = Ids(cores)
    BY <1>8, <1>9 DEF Ids
  <2> QED BY <1>3, <1>4, <2>1, <2>2 DEF r
<1>12. ASSUME NEW i \in DOMAIN C
       PROVE  /\ InOrder(C[i].cpus)
              /\ CpusOfCore(C[i]) = {d \in cpus \cup {c} : m[d].core = C[i].id}
  <2>1. CASE i = o
    <3>1. C[i].cpus = list /\ C[i].id = r
      <4>1. [cores[o] EXCEPT !.cpus = list].cpus = list
        BY <1>5, <1>6 DEF CoreType
      <4> HIDE DEF C
      <4> QED BY <1>5, <1>8, <1>9, <2>1, <4>1
    <3>2. CpusOfCore(C[i]) = {d \in cpus : m[d].core = r} \cup {c}
      <4> HIDE DEF C
      <4> QED BY <1>5, <1>6, <1>7, <3>1 DEF CpusOfCore
    <3> QED BY <1>7, <3>1, <3>2 DEF r
  <2>2. CASE i # o
    <3>1. C[i] = cores[i] /\ i \in DOMAIN cores
      BY <1>8, <2>2
    <3>2. cores[i].id # r
      BY <1>4, <1>5, <2>2, <3>1, EntryTypes, OrderedDistinct
    <3> QED BY <1>6, <3>1, <3>2 DEF r
  <2> QED BY <2>1, <2>2, Zenon
<1>13. k \in ClusterType /\ k.cores = C /\ k.enum = e
  <2> HIDE DEF e
  <2> QED BY <1>8, <1>10 DEF ClusterType
<1>15. ClusterHolds(k, m, cpus \cup {c})
  <2> HIDE DEF k, C, e
  <2> QED BY <1>10, <1>11, <1>12, <1>13 DEF ClusterHolds
<1> QED BY <1>5, <1>7, <1>13, <1>15 DEF C

(* A CPU that is not in the tree is added to it: its cluster, then its     *)
(* core, is made when it is new, and nothing else is touched.              *)
LEMMA AddedToTree ==
    ASSUME NEW t \in TopoType, NEW m, NEW cpus, TreeOf(t, m, cpus),
           NEW c \in Int, c \notin cpus,
           m[c].physical \in Int, m[c].core \in Int
    PROVE  LET info == [physical |-> m[c].physical, core |-> m[c].core, cpu |-> c]
           IN  /\ AddTopoInfo(t, info) \in TopoType
               /\ TreeOf(AddTopoInfo(t, info), m, cpus \cup {c})
<1> DEFINE info == [physical |-> m[c].physical, core |-> m[c].core, cpu |-> c]
           p    == m[c].physical
           new  == [id |-> p, cores |-> <<>>, enum |-> <<>>]
           L    == WithEntry(t.clusters, new)
           k    == IndexOf(L, p)
           cs   == WithEntry(L[k].cores, [id |-> m[c].core, cpus |-> <<>>])
           o    == IndexOf(cs, m[c].core)
           list == WithEntry(cs[o].cpus, [id |-> c])
           C    == [L[k] EXCEPT !.cores = [cs EXCEPT ![o].cpus = list],
                                !.enum = Append(@, c)]
           M    == [L EXCEPT ![k].cores = [cs EXCEPT ![o].cpus = list],
                             ![k].enum  = Append(@, c)]
           u    == [clusters |-> M, online |-> t.online \cup {c}]
           Of(S, id) == {d \in S : m[d].physical = id}
<1>1. t.clusters \in Seq(ClusterType) /\ t.online \in SUBSET Int
  BY DEF TopoType
<1>2. /\ InOrder(t.clusters)
      /\ Ids(t.clusters) = {m[d].physical : d \in cpus}
      /\ t.online = cpus
      /\ \A i \in DOMAIN t.clusters :
            ClusterHolds(t.clusters[i], m, Of(cpus, t.clusters[i].id))
  BY DEF TreeOf
<1>3. new \in ClusterType /\ new.id = p
  BY DEF ClusterType
<1>4. ClusterHolds(new, m, {})
  BY DEF ClusterHolds, InOrder, Ids, IsInjective, ToSet
<1>5. AddTopoInfo(t, info) =
        IF list = cs[o].cpus
        THEN [t EXCEPT !.clusters = [L EXCEPT ![k].cores = cs]]
        ELSE u
  BY ZenonT(40) DEF AddTopoInfo
<1> HIDE DEF new
<1>6. /\ L \in Seq(ClusterType) /\ InOrder(L)
      /\ Ids(L) = Ids(t.clusters) \cup {new.id}
      /\ \A i \in DOMAIN L :
            \/ \E j \in DOMAIN t.clusters : L[i] = t.clusters[j]
            \/ L[i] = new /\ new.id \notin Ids(t.clusters)
  BY ZenonT(40), <1>1, <1>2, <1>3, EntryTypes, WithEntryIs
<1> HIDE DEF L
<1>7. k \in DOMAIN L /\ L[k].id = p
  BY <1>3, <1>6, IndexOfIs
<1> HIDE DEF k
<1>8. ASSUME NEW i \in DOMAIN L
      PROVE  L[i] \in ClusterType /\ ClusterHolds(L[i], m, Of(cpus, L[i].id))
  <2>1. L[i] \in ClusterType
    BY <1>6
  <2>2. CASE \E j \in DOMAIN t.clusters : L[i] = t.clusters[j]
    <3>1. PICK j \in DOMAIN t.clusters : L[i] = t.clusters[j]
      BY <2>2
    <3> QED BY <1>2, <2>1, <3>1
  <2>3. CASE L[i] = new /\ new.id \notin Ids(t.clusters)
    <3>1. Of(cpus, p) = {}
      BY <1>2, <1>3, <2>3
    <3> HIDE DEF Of
    <3> QED BY <1>3, <1>4, <2>1, <2>3, <3>1
  <2> QED BY <1>6, <2>2, <2>3
<1>9. c \notin Of(cpus, p) /\ Of(cpus, p) \cup {c} = Of(cpus \cup {c}, p)
  OBVIOUS
<1>10. /\ list # cs[o].cpus
       /\ C \in ClusterType
       /\ ClusterHolds(C, m, Of(cpus, p) \cup {c})
  <2>1. L[k] \in ClusterType /\ ClusterHolds(L[k], m, Of(cpus, p))
    BY <1>7, <1>8
  <2> HIDE DEF Of
  <2> QED BY <1>9, <2>1, ClusterGains
<1>11. C.id = p
  <2>1. L[k] \in ClusterType
    BY <1>7, <1>8
  <2> QED BY <1>7, <2>1 DEF ClusterType
<1>12. /\ M \in Seq(ClusterType) /\ DOMAIN M = DOMAIN L
       /\ \A i \in DOMAIN L : M[i] = IF i = k THEN C ELSE L[i]
  <2> DEFINE both == [cs EXCEPT ![o].cpus = list]
  <2> HIDE DEF cs, both
  <2>1. M = [L EXCEPT ![k] = C]
    BY <1>6, <1>7 DEF both
  <2> HIDE DEF M, C
  <2> QED BY <1>6, <1>7, <1>10, <2>1
<1> HIDE DEF M, C
<1>13. \A i \in DOMAIN L : M[i].id = L[i].id
  BY <1>7, <1>11, <1>12
<1>14. InOrder(M) /\ Ids(M) = {m[d].physical : d \in cpus \cup {c}}
  <2>1. InOrder(M)
    BY <1>6, <1>12, <1>13 DEF InOrder
  <2>2. Ids(M) = Ids(L)
    BY <1>12, <1>13 DEF Ids
  <2> QED BY <1>2, <1>3, <1>6, <2>1, <2>2
<1>15. ASSUME NEW i \in DOMAIN M
       PROVE  ClusterHolds(M[i], m, Of(cpus \cup {c}, M[i].id))
  <2>1. CASE i = k
    <3> HIDE DEF Of
    <3> QED BY <1>7, <1>9, <1>10, <1>11, <1>12, <2>1
  <2>2. CASE i # k
    <3>1. M[i] = L[i] /\ i \in DOMAIN L
      BY <1>12, <2>2
    <3>2. L[i].id # p
      BY <1>6, <1>7, <2>2, <3>1, EntryTypes, OrderedDistinct
    <3>3. Of(cpus \cup {c}, L[i].id) = Of(cpus, L[i].id)
      BY <3>2
    <3> HIDE DEF Of
    <3> QED BY <1>8, <3>1, <3>3
  <2> QED BY <2>1, <2>2, Zenon
<1>16. u \in TopoType
  BY <1>1, <1>12 DEF TopoType
<1>17. u.clusters = M /\ u.online = cpus \cup {c}
  BY <1>2
<1>18. TreeOf(u, m, cpus \cup {c})
  <2> HIDE DEF u
  <2> QED BY <1>14, <1>15, <1>17 DEF TreeOf
<1>19. AddTopoInfo(t, info) = u
  <2> HIDE DEF u, list, info
  <2> QED BY <1>5, <1>10
<1> HIDE DEF u
<1> QED BY <1>16, <1>18, <1>19

-----------------------------------------------------------------------------
(* There is one tree of a machine.                                         *)

(* A list in order is determined by the ids in it: no position is the      *)
(* first at which two such lists differ.                                   *)
LEMMA OrderedUnique ==
    ASSUME NEW T, Entries(T), NEW a \in Seq(T), NEW b \in Seq(T),
           InOrder(a), InOrder(b), Ids(a) = Ids(b)
    PROVE  Len(a) = Len(b) /\ \A i \in 1 .. Len(a) : a[i].id = b[i].id
<1>1. Len(a) \in Nat /\ Len(b) \in Nat
  OBVIOUS
<1>d. DOMAIN a = 1 .. Len(a) /\ DOMAIN b = 1 .. Len(b)
  OBVIOUS
<1>i. /\ \A i \in 1 .. Len(a) : a[i].id \in Int
      /\ \A i \in 1 .. Len(b) : b[i].id \in Int
  <2>1. (\A i \in 1 .. Len(a) : a[i] \in T) /\ (\A i \in 1 .. Len(b) : b[i] \in T)
    OBVIOUS
  <2> QED BY <2>1 DEF Entries
<1>2. /\ \A i, j \in 1 .. Len(a) : i < j => a[i].id < a[j].id
      /\ \A i, j \in 1 .. Len(b) : i < j => b[i].id < b[j].id
  BY <1>d DEF InOrder
<1>3. /\ \A i \in 1 .. Len(a) : \E j \in 1 .. Len(b) : a[i].id = b[j].id
      /\ \A j \in 1 .. Len(b) : \E i \in 1 .. Len(a) : a[i].id = b[j].id
  <2>1. \A i \in 1 .. Len(a) : a[i].id \in Ids(a)
    BY <1>d DEF Ids
  <2>2. \A i \in 1 .. Len(b) : b[i].id \in Ids(b)
    BY <1>d DEF Ids
  <2>3. \A x \in Ids(b) : \E j \in 1 .. Len(b) : x = b[j].id
    BY <1>d DEF Ids
  <2>4. \A x \in Ids(a) : \E j \in 1 .. Len(a) : x = a[j].id
    BY <1>d DEF Ids
  <2> QED BY <2>1, <2>2, <2>3, <2>4
<1> DEFINE Alike(i) == i \in 1 .. Len(a) /\ i \in 1 .. Len(b) /\ a[i].id = b[i].id
           n == IF Len(a) <= Len(b) THEN Len(a) ELSE Len(b)
           G == {k \in 0 .. n : \A i \in 1 .. k : Alike(i)}
<1>n. /\ n \in Nat /\ n <= Len(a) /\ n <= Len(b)
      /\ Len(a) <= Len(b) => n = Len(a)
      /\ Len(b) <= Len(a) => n = Len(b)
  <2>1. Len(a) \in Nat /\ Len(b) \in Nat
    BY <1>1
  <2>2. CASE Len(a) <= Len(b)
    BY <2>1, <2>2
  <2>3. CASE ~(Len(a) <= Len(b))
    BY <2>1, <2>3
  <2> QED BY <2>2, <2>3
<1> HIDE DEF n
<1>4. ASSUME NEW k \in 0 .. n - 1, k \in G
      PROVE  k + 1 \in G
  <2>1. /\ k + 1 \in 1 .. Len(a) /\ k + 1 \in 1 .. Len(b) /\ k + 1 \in 0 .. n
    BY <1>1, <1>n
  <2>2. \A i \in 1 .. k : Alike(i)
    BY <1>4
  <2>3. b[k + 1].id <= a[k + 1].id
    <3>1. PICK j \in 1 .. Len(b) : a[k + 1].id = b[j].id
      BY <1>3, <2>1
    <3>2. CASE j \in 1 .. k
      <4>1. a[j].id = b[j].id /\ a[j].id < a[k + 1].id
        BY <1>2, <2>1, <2>2, <3>2
      <4> QED BY <1>1, <1>i, <2>1, <3>1, <4>1
    <3>3. CASE j = k + 1
      BY <1>1, <1>i, <2>1, <3>1, <3>3
    <3>4. CASE k + 1 < j
      BY <1>1, <1>i, <1>2, <2>1, <3>1, <3>4
    <3> QED BY <1>1, <3>2, <3>3, <3>4
  <2>4. a[k + 1].id <= b[k + 1].id
    <3>1. PICK j \in 1 .. Len(a) : a[j].id = b[k + 1].id
      BY <1>3, <2>1
    <3>2. CASE j \in 1 .. k
      <4>1. a[j].id = b[j].id /\ b[j].id < b[k + 1].id
        BY <1>2, <2>1, <2>2, <3>2
      <4> QED BY <1>1, <1>i, <2>1, <3>1, <4>1
    <3>3. CASE j = k + 1
      BY <1>1, <1>i, <2>1, <3>1, <3>3
    <3>4. CASE k + 1 < j
      BY <1>1, <1>i, <1>2, <2>1, <3>1, <3>4
    <3> QED BY <1>1, <3>2, <3>3, <3>4
  <2>5. Alike(k + 1)
    BY <1>1, <1>i, <2>1, <2>3, <2>4
  <2>6. \A i \in 1 .. k + 1 : i \in 1 .. k \/ i = k + 1
    BY <1>1
  <2> HIDE DEF Alike
  <2> QED BY <2>1, <2>2, <2>5, <2>6
<1>5. \A i \in 1 .. n : Alike(i)
  <2>1. 0 \in G /\ n \in Nat
    BY <1>n
  <2>2. \A k \in 0 .. n : k \in G
    <3> HIDE DEF G
    <3> QED BY <1>4, <2>1, IntervalInduction
  <2>3. n \in G
    <3> HIDE DEF G
    <3> QED BY <2>1, <2>2
  <2> QED BY <2>3
<1>6. ~(Len(a) < Len(b))
  <2> SUFFICES ASSUME Len(a) < Len(b)
               PROVE  FALSE
    OBVIOUS
  <2>1. n = Len(a) /\ Len(b) \in 1 .. Len(b)
    BY <1>1, <1>n
  <2>2. PICK i \in 1 .. Len(a) : a[i].id = b[Len(b)].id
    BY <1>3, <2>1
  <2>3. a[i].id = b[i].id /\ i \in 1 .. Len(b) /\ i < Len(b)
    BY <1>1, <1>5, <2>1
  <2>4. b[i].id < b[Len(b)].id
    BY <1>2, <2>1, <2>3
  <2>5. b[i].id \in Int
    BY <1>i, <2>3
  <2> QED BY <2>2, <2>3, <2>4, <2>5
<1>7. ~(Len(b) < Len(a))
  <2> SUFFICES ASSUME Len(b) < Len(a)
               PROVE  FALSE
    OBVIOUS
  <2>1. n = Len(b) /\ Len(a) \in 1 .. Len(a)
    BY <1>1, <1>n
  <2>2. PICK i \in 1 .. Len(b) : a[Len(a)].id = b[i].id
    BY <1>3, <2>1
  <2>3. a[i].id = b[i].id /\ i \in 1 .. Len(a) /\ i < Len(a)
    BY <1>1, <1>5, <2>1
  <2>4. a[i].id < a[Len(a)].id
    BY <1>2, <2>1, <2>3
  <2>5. a[i].id \in Int
    BY <1>i, <2>3
  <2> QED BY <2>2, <2>3, <2>4, <2>5
<1>8. Len(a) = Len(b) /\ n = Len(a)
  BY <1>1, <1>n, <1>6, <1>7
<1> QED BY <1>5, <1>8

\* Two records of the same cluster of a machine have the same cores and CPUs.
LEMMA ClusterUnique ==
    ASSUME NEW a \in ClusterType, NEW b \in ClusterType, NEW m, NEW cpus,
           ClusterHolds(a, m, cpus), ClusterHolds(b, m, cpus)
    PROVE  a.cores = b.cores /\ ToSet(a.enum) = ToSet(b.enum)
<1>1. /\ a.cores \in Seq(CoreType) /\ b.cores \in Seq(CoreType)
      /\ InOrder(a.cores) /\ InOrder(b.cores) /\ Ids(a.cores) = Ids(b.cores)
      /\ ToSet(a.enum) = ToSet(b.enum)
  BY DEF ClusterHolds, ClusterType
<1>2. Len(a.cores) = Len(b.cores)
      /\ \A o \in 1 .. Len(a.cores) : a.cores[o].id = b.cores[o].id
  BY <1>1, EntryTypes, OrderedUnique
<1>3. ASSUME NEW o \in 1 .. Len(a.cores)
      PROVE  a.cores[o] = b.cores[o]
  <2> DEFINE x == a.cores[o]
             y == b.cores[o]
  <2>1. x \in CoreType /\ y \in CoreType /\ o \in DOMAIN a.cores /\ o \in DOMAIN b.cores
    BY <1>1, <1>2
  <2>2. x.id = y.id
    BY <1>2
  <2>3. InOrder(x.cpus) /\ InOrder(y.cpus) /\ Ids(x.cpus) = Ids(y.cpus)
    <3>1. InOrder(x.cpus) /\ Ids(x.cpus) = {c \in cpus : m[c].core = x.id}
      BY <2>1 DEF ClusterHolds, CpusOfCore
    <3>2. InOrder(y.cpus) /\ Ids(y.cpus) = {c \in cpus : m[c].core = y.id}
      BY <2>1 DEF ClusterHolds, CpusOfCore
    <3> HIDE DEF x, y
    <3> QED BY <2>2, <3>1, <3>2
  <2> HIDE DEF x, y
  <2>4. x.cpus \in Seq([id : Int]) /\ y.cpus \in Seq([id : Int])
    BY <2>1 DEF CoreType
  <2>5. Len(x.cpus) = Len(y.cpus) /\ \A i \in 1 .. Len(x.cpus) : x.cpus[i].id = y.cpus[i].id
    <3> DEFINE OneCpu == [id : Int]
    <3>1. Entries(OneCpu) /\ x.cpus \in Seq(OneCpu) /\ y.cpus \in Seq(OneCpu)
      BY <2>4, EntryTypes
    <3> HIDE DEF OneCpu
    <3> QED BY <2>3, <3>1, OrderedUnique
  <2>6. ASSUME NEW i \in 1 .. Len(x.cpus)
        PROVE  x.cpus[i] = y.cpus[i]
    <3>1. x.cpus[i] \in [id : Int] /\ y.cpus[i] \in [id : Int]
      <4>1. i \in 1 .. Len(y.cpus)
        BY <2>5
      <4> QED BY <2>4, <4>1, ElementOfSeq
    <3>2. \A e \in [id : Int] : e = [id |-> e.id]
      OBVIOUS
    <3> QED BY <2>5, <3>1, <3>2
  <2>7. x.cpus = y.cpus
    BY <2>4, <2>5, <2>6, SeqEqual
  <2>8. \A e \in CoreType : e = [id |-> e.id, cpus |-> e.cpus]
    BY DEF CoreType
  <2>9. x = [id |-> x.id, cpus |-> x.cpus] /\ y = [id |-> y.id, cpus |-> y.cpus]
    BY <2>1, <2>8
  <2>10. x = y
    BY <2>2, <2>7, <2>9
  <2> QED BY <2>10 DEF x, y
<1>4. a.cores = b.cores
  BY <1>1, <1>2, <1>3, SeqEqual
<1> QED BY <1>1, <1>4

(* Two trees of the same CPUs are the same tree.                           *)
LEMMA TreeUnique ==
    ASSUME NEW a \in TopoType, NEW b \in TopoType, NEW m, NEW cpus,
           TreeOf(a, m, cpus), TreeOf(b, m, cpus)
    PROVE  SameTree(a, b)
<1>1. /\ a.clusters \in Seq(ClusterType) /\ b.clusters \in Seq(ClusterType)
      /\ InOrder(a.clusters) /\ InOrder(b.clusters)
      /\ Ids(a.clusters) = Ids(b.clusters) /\ a.online = b.online
  BY DEF TreeOf, TopoType
<1>2. /\ Len(a.clusters) = Len(b.clusters)
      /\ \A k \in 1 .. Len(a.clusters) : a.clusters[k].id = b.clusters[k].id
  BY <1>1, EntryTypes, OrderedUnique
<1>3. DOMAIN a.clusters = 1 .. Len(a.clusters) /\ DOMAIN b.clusters = 1 .. Len(a.clusters)
  BY <1>1, <1>2
<1>4. ASSUME NEW k \in DOMAIN a.clusters
      PROVE  /\ a.clusters[k].cores = b.clusters[k].cores
             /\ ToSet(a.clusters[k].enum) = ToSet(b.clusters[k].enum)
  <2>1. a.clusters[k] \in ClusterType /\ b.clusters[k] \in ClusterType
    BY <1>1, <1>3
  <2> DEFINE own == {c \in cpus : m[c].physical = a.clusters[k].id}
  <2>2. ClusterHolds(a.clusters[k], m, own) /\ ClusterHolds(b.clusters[k], m, own)
    <3>1. ClusterHolds(a.clusters[k], m, {c \in cpus : m[c].physical = a.clusters[k].id})
      BY DEF TreeOf
    <3>2. ClusterHolds(b.clusters[k], m, {c \in cpus : m[c].physical = b.clusters[k].id})
      BY <1>3 DEF TreeOf
    <3>3. a.clusters[k].id = b.clusters[k].id
      BY <1>2, <1>3
    <3> QED BY <3>1, <3>2, <3>3
  <2> HIDE DEF own
  <2> QED BY <2>1, <2>2, ClusterUnique
<1> QED BY <1>1, <1>2, <1>3, <1>4 DEF SameTree

-----------------------------------------------------------------------------
(* Both lookups find a CPU where its machine has it.                       *)

\* A CPU has its machine's cluster and core, and the core is one of the cluster's.
LEMMA LookupsFind ==
    ASSUME NEW t \in TopoType, NEW m, NEW cpus, TreeOf(t, m, cpus), NEW c \in cpus
    PROVE  /\ CpuToCluster(t, c).id = m[c].physical
           /\ CpuToCore(t, c).id = m[c].core
           /\ CpuToCore(t, c) \in ToSet(CpuToCluster(t, c).cores)
<1> DEFINE Of(k)  == {d \in cpus : m[d].physical = t.clusters[k].id}
           list   == CoreList(t)
           Here   == {k \in 1 .. Len(t.clusters) : c \in ToSet(t.clusters[k].enum)}
           There  == {n \in 1 .. Len(list) : c \in CpusOfCore(list[n])}
           seqs   == [k \in DOMAIN t.clusters |-> t.clusters[k].cores]
<1>1. /\ t.clusters \in Seq(ClusterType) /\ Len(t.clusters) \in Nat
      /\ DOMAIN t.clusters = 1 .. Len(t.clusters)
      /\ \A k \in DOMAIN t.clusters : t.clusters[k].cores \in Seq(CoreType)
  <2>1. t.clusters \in Seq(ClusterType)
    BY DEF TopoType
  <2>2. \A k \in DOMAIN t.clusters : t.clusters[k] \in ClusterType
    BY <2>1
  <2> QED BY <2>1, <2>2 DEF ClusterType
<1>2. \A k \in DOMAIN t.clusters : ClusterHolds(t.clusters[k], m, Of(k))
  BY DEF TreeOf
<1>3. PICK k \in DOMAIN t.clusters : t.clusters[k].id = m[c].physical
  <2>1. m[c].physical \in Ids(t.clusters)
    BY DEF TreeOf
  <2> QED BY <2>1 DEF Ids
<1>4. c \in ToSet(t.clusters[k].enum)
  BY <1>2, <1>3 DEF ClusterHolds
<1>5. \A i \in DOMAIN t.clusters : t.clusters[i].id = m[c].physical => i = k
  BY <1>1, <1>3, EntryTypes, OrderedDistinct DEF TreeOf
<1>6. CpuToCluster(t, c) = t.clusters[k]
  <2>1. \A i \in Here : i = k
    BY <1>1, <1>2, <1>5, SMTT(30) DEF ClusterHolds
  <2>2. Here = {k}
    BY <1>1, <1>4, <2>1
  <2>3. Here \in SUBSET Int /\ IsFiniteSet(Here) /\ Here # {}
    <3>1. k \in Int
      BY <1>1
    <3> HIDE DEF Here
    <3> QED BY <2>2, <3>1, FS_Singleton
  <2>4. Min(Here) = k
    <3> HIDE DEF Here
    <3> QED BY <2>2, <2>3, MinIsLeast
  <2>5. SelectInSeq(t.clusters, LAMBDA x : c \in ToSet(x.enum)) = k
    <3>1. SelectInSeq(t.clusters, LAMBDA x : c \in ToSet(x.enum))
            = IF Here # {} THEN Min(Here) ELSE 0
      BY DEF SelectInSeq
    <3> HIDE DEF Here
    <3> QED BY <2>3, <2>4, <3>1
  <2> QED BY <2>5 DEF CpuToCluster
<1>7. /\ seqs \in Seq(Seq(CoreType)) /\ list = FlattenSeq(seqs)
      /\ DOMAIN seqs = DOMAIN t.clusters
      /\ \A i \in DOMAIN t.clusters : seqs[i] = t.clusters[i].cores
  BY <1>1 DEF CoreList
<1> HIDE DEF seqs, list
<1>8. list \in Seq(CoreType) /\ Flattened(list, seqs, Len(seqs))
  BY <1>7, FlattenInSeq, FlattenKeepsOrder
<1>9. There # {}
  <2>1. PICK o \in DOMAIN t.clusters[k].cores : t.clusters[k].cores[o].id = m[c].core
    <3>1. m[c].core \in Ids(t.clusters[k].cores)
      BY <1>2, <1>3 DEF ClusterHolds
    <3> QED BY <3>1 DEF Ids
  <2>2. c \in CpusOfCore(t.clusters[k].cores[o])
    BY <1>2, <1>3, <2>1 DEF ClusterHolds
  <2>3. k \in 1 .. Len(seqs) /\ o \in DOMAIN seqs[k]
    BY <1>1, <1>7, <2>1
  <2>4. PICK a \in DOMAIN list : list[a] = seqs[k][o]
    BY <1>8, <2>3 DEF Flattened
  <2>5. a \in 1 .. Len(list) /\ list[a] = t.clusters[k].cores[o]
    BY <1>7, <1>8, <2>4
  <2> QED BY <2>2, <2>5
<1>10. PICK n \in There : CpuToCore(t, c) = list[n]
  <2>1. There \in SUBSET Int /\ IsFiniteSet(There)
    <3>1. There \subseteq 1 .. Len(list) /\ IsFiniteSet(1 .. Len(list)) /\ Len(list) \in Nat
      BY <1>8, FS_Interval
    <3> QED BY <3>1, FS_Subset
  <2>2. Min(There) \in There
    <3> HIDE DEF There
    <3> QED BY <1>9, <2>1, MinIsLeast
  <2>3. SelectInSeq(list, LAMBDA x : c \in CpusOfCore(x)) = Min(There)
    <3>1. SelectInSeq(list, LAMBDA x : c \in CpusOfCore(x))
            = IF There # {} THEN Min(There) ELSE 0
      BY DEF SelectInSeq
    <3> HIDE DEF There
    <3> QED BY <1>9, <3>1
  <2>4. CpuToCore(t, c) = list[Min(There)]
    BY <2>3 DEF CpuToCore, list
  <2> QED BY <2>2, <2>4
<1>11. n \in DOMAIN list /\ c \in CpusOfCore(list[n])
  BY <1>8
<1>12. PICK i, o : At(list, seqs, n, i, o)
  BY <1>8, <1>11 DEF Flattened
<1>13. i \in DOMAIN t.clusters /\ o \in DOMAIN t.clusters[i].cores
       /\ list[n] = t.clusters[i].cores[o]
  BY <1>7, <1>12 DEF At
<1>14. /\ c \in Of(i) /\ m[c].core = list[n].id
  BY <1>2, <1>11, <1>13 DEF ClusterHolds
<1>15. i = k
  BY <1>5, <1>13, <1>14
<1>16. list[n] \in ToSet(t.clusters[k].cores)
  BY <1>13, <1>15 DEF ToSet
<1> QED BY <1>3, <1>6, <1>10, <1>14, <1>16

-----------------------------------------------------------------------------
(* The text of a header.                                                   *)

\* Between two lines none is of a kind.
None(f, kind, q, p) == \A x \in q + 1 .. p - 1 : f[x].kind # kind

(* What the reader takes for the core of CPU c when it comes to line p of  *)
(* a cluster that begins at line q: the last core line's or c itself.      *)
UnderCore(f, q, p, core, c) ==
    \/ core = c /\ None(f, "core", q, p)
    \/ \E r \in q + 1 .. p - 1 :
          f[r].kind = "core" /\ f[r].n = core /\ None(f, "core", r, p)

(* The text of one cluster, by hand or by outfile_topo_info.               *)
ClusterText(s, m, id, cpus) ==
    /\ s \in Seq(LineType) /\ Len(s) >= 1
    /\ s[1].kind = "cluster" /\ s[1].n = Letter(id)
    /\ \A j \in 2 .. Len(s) :
          /\ s[j].kind \in {"core", "cpu"}
          /\ s[j].kind = "cpu" =>
                s[j].n \in cpus /\ UnderCore(s, 1, j, m[s[j].n].core, s[j].n)
    /\ \A c \in cpus : \E j \in 2 .. Len(s) : s[j].kind = "cpu" /\ s[j].n = c

(* A letter is a char; it gives back its cluster up to the last one a      *)
(* char can hold.                                                          *)
LEMMA LetterIsRead ==
    ASSUME NEW id \in Int
    PROVE  /\ Letter(id) \in Int /\ IdOf(Letter(id)) \in Int
           /\ id \in 0 .. 62 => IdOf(Letter(id)) = id
<1>1. (id + 65) % 256 \in 0 .. 255
  OBVIOUS
<1>2. Letter(id) \in Int
  BY <1>1 DEF Letter, Char
<1>3. ASSUME id \in 0 .. 62
      PROVE  IdOf(Letter(id)) = id
  <2>1. (id + 65) % 256 = id + 65
    BY <1>3
  <2>2. Letter(id) = id + 65
    BY <1>3, <2>1 DEF Letter, Char
  <2> QED BY <2>2 DEF IdOf
<1> QED BY <1>2, <1>3 DEF IdOf

(* A line of text.                                                         *)
LEMMA LineOfKind ==
    ASSUME NEW kind \in LineKinds, NEW n \in Int
    PROVE  [kind |-> kind, n |-> n] \in LineType
BY DEF LineType

(* outfile_topo_info's text of a core.                                     *)
LEMMA CoreLinesAre ==
    ASSUME NEW core \in CoreType
    PROVE  /\ CoreLines(core) \in Seq(LineType)
           /\ Len(CoreLines(core)) = 1 + Len(core.cpus) /\ Len(core.cpus) \in Nat
           /\ CoreLines(core)[1] = [kind |-> "core", n |-> core.id]
           /\ \A i \in 1 .. Len(core.cpus) :
                 CoreLines(core)[i + 1] = [kind |-> "cpu", n |-> core.cpus[i].id]
<1> DEFINE head == [kind |-> "core", n |-> core.id]
           tail == [i \in DOMAIN core.cpus |-> [kind |-> "cpu", n |-> core.cpus[i].id]]
<1>1. core.id \in Int /\ core.cpus \in Seq([id : Int])
  BY DEF CoreType
<1>2. Len(core.cpus) \in Nat /\ DOMAIN core.cpus = 1 .. Len(core.cpus)
  BY <1>1
<1>3. \A i \in 1 .. Len(core.cpus) : core.cpus[i].id \in Int
  <2>1. \A i \in 1 .. Len(core.cpus) : core.cpus[i] \in [id : Int]
    BY <1>1, ElementOfSeq
  <2> QED BY <2>1
<1>4. head \in LineType
  <2>1. "core" \in LineKinds
    BY DEF LineKinds
  <2> QED BY <1>1, <2>1, LineOfKind
<1>5. tail \in [1 .. Len(core.cpus) -> LineType]
  <2>1. \A i \in 1 .. Len(core.cpus) : [kind |-> "cpu", n |-> core.cpus[i].id] \in LineType
    <3>1. "cpu" \in LineKinds
      BY DEF LineKinds
    <3> QED BY <1>3, <3>1, LineOfKind
  <2> QED BY <1>2, <2>1
<1>6. \A i \in 1 .. Len(core.cpus) : tail[i] = [kind |-> "cpu", n |-> core.cpus[i].id]
  BY <1>2
<1>7. CoreLines(core) = <<head>> \o tail
  BY DEF CoreLines
<1>8. head = [kind |-> "core", n |-> core.id]
  OBVIOUS
<1> HIDE DEF head, tail
<1>9. tail \in Seq(LineType) /\ Len(tail) = Len(core.cpus)
  BY <1>2, <1>5, FunctionIsSeq
<1>10. /\ <<head>> \o tail \in Seq(LineType)
       /\ Len(<<head>> \o tail) = 1 + Len(tail)
       /\ (<<head>> \o tail)[1] = head
       /\ \A i \in 1 .. Len(tail) : (<<head>> \o tail)[i + 1] = tail[i]
  BY <1>4, <1>9, Prefixed
<1> QED BY <1>2, <1>6, <1>7, <1>8, <1>9, <1>10

(* outfile_topo_info's text of a cluster.                                  *)
LEMMA ClusterLinesText ==
    ASSUME NEW cluster \in ClusterType, NEW m, NEW cpus,
           ClusterHolds(cluster, m, cpus)
    PROVE  ClusterText(ClusterLines(cluster), m, cluster.id, cpus)
<1> DEFINE head == [kind |-> "cluster", n |-> Letter(cluster.id)]
           seqs == [o \in DOMAIN cluster.cores |-> CoreLines(cluster.cores[o])]
           F    == FlattenSeq(seqs)
           s    == <<head>> \o F
           core(o) == cluster.cores[o]
<1>1. cluster.cores \in Seq(CoreType)
  BY DEF ClusterType
<1>2. /\ DOMAIN cluster.cores = 1 .. Len(cluster.cores) /\ Len(cluster.cores) \in Nat
      /\ \A o \in 1 .. Len(cluster.cores) : core(o) \in CoreType
  BY <1>1
<1>3. /\ seqs \in Seq(Seq(LineType)) /\ Len(seqs) = Len(cluster.cores)
      /\ \A o \in 1 .. Len(cluster.cores) : seqs[o] = CoreLines(core(o))
  <2>1. seqs \in [1 .. Len(cluster.cores) -> Seq(LineType)]
    BY <1>2, CoreLinesAre
  <2>2. \A o \in 1 .. Len(cluster.cores) : seqs[o] = CoreLines(core(o))
    BY <1>2
  <2> DEFINE Lines == Seq(LineType)
  <2> HIDE DEF seqs, Lines
  <2>3. seqs \in Seq(Lines) /\ Len(seqs) = Len(cluster.cores)
    BY <1>2, <2>1, FunctionIsSeq DEF Lines
  <2> QED BY <2>2, <2>3 DEF Lines
<1>4. ClusterLines(cluster) = s
  BY DEF ClusterLines
<1>5. head \in LineType /\ head = [kind |-> "cluster", n |-> Letter(cluster.id)]
  <2>1. "cluster" \in LineKinds
    BY DEF LineKinds
  <2>2. cluster.id \in Int
    BY DEF ClusterType
  <2> QED BY <2>1, <2>2, LetterIsRead, LineOfKind
<1> HIDE DEF seqs, head
<1>6. F \in Seq(LineType) /\ Len(F) \in Nat
  <2>1. F \in Seq(LineType)
    BY <1>3, FlattenInSeq
  <2> HIDE DEF F
  <2> QED BY <2>1
<1>7. PICK off : Places(F, seqs, off)
  BY <1>3, FlattenPlaces
<1> HIDE DEF F
<1>8. /\ s \in Seq(LineType) /\ Len(s) = 1 + Len(F) /\ s[1] = head
      /\ \A p \in 1 .. Len(F) : s[p + 1] = F[p]
  BY <1>5, <1>6, Prefixed
<1> HIDE DEF s
<1>9. ASSUME NEW o \in 1 .. Len(cluster.cores)
      PROVE  /\ off[o] \in Nat
             /\ off[o] + 2 \in 2 .. Len(s)
             /\ s[off[o] + 2] = [kind |-> "core", n |-> core(o).id]
             /\ \A i \in 1 .. Len(core(o).cpus) :
                   /\ off[o] + i + 2 \in 2 .. Len(s)
                   /\ s[off[o] + i + 2] = [kind |-> "cpu", n |-> core(o).cpus[i].id]
  <2>1. /\ seqs[o] = CoreLines(core(o)) /\ Len(seqs[o]) = 1 + Len(core(o).cpus)
        /\ Len(core(o).cpus) \in Nat
        /\ seqs[o][1] = [kind |-> "core", n |-> core(o).id]
        /\ \A i \in 1 .. Len(core(o).cpus) :
              seqs[o][i + 1] = [kind |-> "cpu", n |-> core(o).cpus[i].id]
    BY SMTT(30), <1>2, <1>3, CoreLinesAre
  <2>2. off[o] \in Nat /\ \A j \in 1 .. Len(seqs[o]) :
              off[o] + j \in 1 .. Len(F) /\ F[off[o] + j] = seqs[o][j]
    <3>1. o \in 1 .. Len(seqs)
      BY <1>3
    <3>2. o \in 1 .. Len(seqs) + 1
      BY <1>2, <1>3
    <3>3. off[o] \in Nat
      BY <1>7, <3>2 DEF Places
    <3> QED BY <1>7, <3>1, <3>3 DEF Places
  <2>3. ASSUME NEW j \in 1 .. Len(seqs[o])
        PROVE  off[o] + j + 1 \in 2 .. Len(s) /\ s[off[o] + j + 1] = seqs[o][j]
    <3>1. off[o] + j \in 1 .. Len(F) /\ F[off[o] + j] = seqs[o][j]
      BY <2>2
    <3>2. \A p \in 1 .. Len(F) : p + 1 \in 2 .. Len(s) /\ s[p + 1] = F[p]
      BY <1>6, <1>8
    <3> QED BY <3>1, <3>2
  <2>4. off[o] + 2 \in 2 .. Len(s) /\ s[off[o] + 2] = [kind |-> "core", n |-> core(o).id]
    <3>1. 1 \in 1 .. Len(seqs[o]) /\ off[o] + 1 + 1 = off[o] + 2
      BY <2>1, <2>2
    <3> QED BY <2>1, <2>3, <3>1
  <2>5. ASSUME NEW i \in 1 .. Len(core(o).cpus)
        PROVE  /\ off[o] + i + 2 \in 2 .. Len(s)
               /\ s[off[o] + i + 2] = [kind |-> "cpu", n |-> core(o).cpus[i].id]
    <3>1. i + 1 \in 1 .. Len(seqs[o])
      BY <2>1
    <3>2. off[o] + (i + 1) + 1 = off[o] + i + 2
      <4>1. off[o] \in Int /\ i \in Int
        BY <2>2
      <4> QED BY <4>1
    <3>3. seqs[o][i + 1] = [kind |-> "cpu", n |-> core(o).cpus[i].id]
      BY <2>1
    <3> HIDE DEF core
    <3>4. off[o] + (i + 1) + 1 \in 2 .. Len(s) /\ s[off[o] + (i + 1) + 1] = seqs[o][i + 1]
      BY <2>3, <3>1
    <3> QED BY <3>2, <3>3, <3>4
  <2> QED BY <2>2, <2>4, <2>5
<1>10. ASSUME NEW j \in 2 .. Len(s)
       PROVE  \E o \in 1 .. Len(cluster.cores) :
                 \/ j = off[o] + 2
                 \/ \E i \in 1 .. Len(core(o).cpus) : j = off[o] + i + 2
  <2>1. j - 1 \in 1 .. Len(F)
    BY <1>6, <1>8
  <2>2. PICK o \in 1 .. Len(seqs) : j - 1 - off[o] \in 1 .. Len(seqs[o])
    BY <1>7, <2>1 DEF Places
  <2>3. o \in 1 .. Len(cluster.cores) /\ off[o] \in Nat
        /\ Len(seqs[o]) = 1 + Len(core(o).cpus) /\ Len(core(o).cpus) \in Nat
    BY <1>2, <1>3, <1>9, <2>2, CoreLinesAre
  <2>4. CASE j - 1 - off[o] = 1
    <3>1. j = off[o] + 2
      BY <2>3, <2>4
    <3> QED BY <2>3, <3>1
  <2>5. CASE j - 1 - off[o] # 1
    <3>1. j - 2 - off[o] \in 1 .. Len(core(o).cpus) /\ j = off[o] + (j - 2 - off[o]) + 2
      <4>1. \A a, n \in Nat : \A x \in Int :
               x - 1 - a \in 1 .. 1 + n /\ x - 1 - a # 1
                 => x - 2 - a \in 1 .. n /\ x = a + (x - 2 - a) + 2
        OBVIOUS
      <4>2. j \in Int /\ j - 1 - off[o] \in 1 .. 1 + Len(core(o).cpus)
        BY <2>2, <2>3
      <4> HIDE DEF core
      <4> QED BY <2>3, <2>5, <4>1, <4>2
    <3> QED BY <2>3, <3>1
  <2> QED BY <2>4, <2>5
<1>11. \A o \in 1 .. Len(cluster.cores) :
          CpusOfCore(core(o)) = {c \in cpus : m[c].core = core(o).id}
  BY <1>2 DEF ClusterHolds
<1>12. ASSUME NEW j \in 2 .. Len(s)
       PROVE  /\ s[j].kind \in {"core", "cpu"}
              /\ s[j].kind = "cpu" =>
                    s[j].n \in cpus /\ UnderCore(s, 1, j, m[s[j].n].core, s[j].n)
  <2>1. PICK o \in 1 .. Len(cluster.cores) :
                 \/ j = off[o] + 2
                 \/ \E i \in 1 .. Len(core(o).cpus) : j = off[o] + i + 2
    BY <1>10
  <2>2. CASE j = off[o] + 2
    <3>1. s[j] = [kind |-> "core", n |-> core(o).id]
      BY <1>9, <2>2
    <3>2. s[j].kind = "core"
      BY <3>1
    <3> QED BY <3>2
  <2>3. CASE \E i \in 1 .. Len(core(o).cpus) : j = off[o] + i + 2
    <3>1. PICK i \in 1 .. Len(core(o).cpus) : j = off[o] + i + 2
      BY <2>3
    <3> DEFINE c == core(o).cpus[i].id
               r == off[o] + 2
    <3>2. s[j].kind = "cpu" /\ s[j].n = c /\ off[o] \in Nat
      <4>1. s[off[o] + i + 2] = [kind |-> "cpu", n |-> c] /\ off[o] \in Nat
        BY <1>9
      <4> HIDE DEF c
      <4>2. s[j] = [kind |-> "cpu", n |-> c]
        BY <3>1, <4>1
      <4> QED BY <4>1, <4>2
    <3>3. c \in CpusOfCore(core(o))
      <4>1. i \in DOMAIN core(o).cpus
        BY <1>2 DEF CoreType
      <4> QED BY <4>1 DEF CpusOfCore, Ids
    <3>4. c \in cpus /\ m[c].core = core(o).id
      BY <1>11, <3>3
    <3> HIDE DEF c
    <3>5. r \in 1 + 1 .. j - 1 /\ s[r].kind = "core" /\ s[r].n = m[c].core
      <4>1. s[r] = [kind |-> "core", n |-> core(o).id]
        BY <1>9
      <4>2. r \in Int /\ r >= 2 /\ r <= j - 1
        <5>1. off[o] \in Nat /\ i \in Int /\ i >= 1
          BY <3>2
        <5> QED BY SMTT(30), <3>1, <5>1
      <4> HIDE DEF core, r
      <4> QED BY <3>4, <4>1, <4>2
    <3>6. None(s, "core", r, j)
      <4> SUFFICES ASSUME NEW x \in r + 1 .. j - 1
                   PROVE  s[x].kind # "core"
        BY DEF None
      <4>1. x - 2 - off[o] \in 1 .. Len(core(o).cpus) /\ x = off[o] + (x - 2 - off[o]) + 2
        <5>1. Len(core(o).cpus) \in Nat
          BY <1>2, CoreLinesAre
        <5>2. \A a, n \in Nat : \A k \in 1 .. n : \A y \in a + 2 + 1 .. a + k + 2 - 1 :
                 y - 2 - a \in 1 .. n /\ y = a + (y - 2 - a) + 2
          OBVIOUS
        <5>3. x \in off[o] + 2 + 1 .. off[o] + i + 2 - 1
          <6>1. x \in r + 1 .. j - 1 /\ r = off[o] + 2
            OBVIOUS
          <6> HIDE DEF r, core
          <6>2. off[o] \in Int /\ i \in Int
            BY <3>2
          <6>3. j \in Int
            BY <3>1, <6>2
          <6>4. \A a, b, y, z \in Int : \A w \in a + 1 .. z - 1 :
                   a = b + 2 /\ z = b + y + 2 => w \in b + 2 + 1 .. b + y + 2 - 1
            OBVIOUS
          <6>5. r \in Int
            BY <6>1, <6>2
          <6> QED BY <3>1, <6>1, <6>2, <6>3, <6>4, <6>5
        <5> HIDE DEF core
        <5> QED BY <3>2, <5>1, <5>2, <5>3
      <4>2. s[x] = [kind |-> "cpu", n |-> core(o).cpus[x - 2 - off[o]].id]
        BY <1>9, <4>1
      <4> QED BY <4>2
    <3>7. UnderCore(s, 1, j, m[c].core, c)
      <4> HIDE DEF r
      <4> QED BY <3>5, <3>6 DEF UnderCore
    <3> QED BY <3>2, <3>4, <3>7
  <2> QED BY <2>1, <2>2, <2>3
<1>13. ASSUME NEW c \in cpus
       PROVE  \E j \in 2 .. Len(s) : s[j].kind = "cpu" /\ s[j].n = c
  <2>1. PICK o \in 1 .. Len(cluster.cores) : core(o).id = m[c].core
    <3>1. m[c].core \in Ids(cluster.cores)
      BY DEF ClusterHolds
    <3> QED BY <1>2, <3>1 DEF Ids
  <2>2. c \in CpusOfCore(core(o))
    BY <1>11, <2>1
  <2>3. PICK i \in 1 .. Len(core(o).cpus) : c = core(o).cpus[i].id
    <3>1. DOMAIN core(o).cpus = 1 .. Len(core(o).cpus)
      BY <1>2 DEF CoreType
    <3> QED BY <2>2, <3>1 DEF CpusOfCore, Ids
  <2>4. /\ off[o] + i + 2 \in 2 .. Len(s)
        /\ s[off[o] + i + 2] = [kind |-> "cpu", n |-> core(o).cpus[i].id]
    BY <1>9
  <2>5. s[off[o] + i + 2].kind = "cpu" /\ s[off[o] + i + 2].n = c
    BY <2>3, <2>4
  <2> QED BY <2>4, <2>5
<1>14. Len(s) >= 1 /\ s[1].kind = "cluster" /\ s[1].n = Letter(cluster.id)
  BY <1>5, <1>6, <1>8
<1>15. ClusterText(s, m, cluster.id, cpus)
  BY <1>8, <1>12, <1>13, <1>14 DEF ClusterText
<1> QED BY <1>4, <1>15

(* The text of a cluster without its cores, written by hand.               *)
LEMMA FlatLinesText ==
    ASSUME NEW cluster \in ClusterType, NEW m, NEW cpus,
           ClusterHolds(cluster, m, cpus),
           \A o \in DOMAIN cluster.cores :
              CpusOfCore(cluster.cores[o]) = {cluster.cores[o].id}
    PROVE  ClusterText(FlatLines(cluster), m, cluster.id, cpus)
<1> DEFINE head  == [kind |-> "cluster", n |-> Letter(cluster.id)]
           tail  == [o \in DOMAIN cluster.cores |->
                        [kind |-> "cpu", n |-> cluster.cores[o].id]]
           s     == <<head>> \o tail
           id(o) == cluster.cores[o].id
<1>1. cluster.id \in Int /\ cluster.cores \in Seq(CoreType)
  BY DEF ClusterType
<1>2. /\ DOMAIN cluster.cores = 1 .. Len(cluster.cores) /\ Len(cluster.cores) \in Nat
      /\ \A o \in 1 .. Len(cluster.cores) : id(o) \in Int
  <2>1. \A o \in 1 .. Len(cluster.cores) : cluster.cores[o] \in CoreType
    BY <1>1, ElementOfSeq
  <2>2. \A o \in 1 .. Len(cluster.cores) : id(o) \in Int
    BY <2>1 DEF CoreType
  <2> QED BY <1>1, <2>2
<1>3. "cluster" \in LineKinds /\ "cpu" \in LineKinds
  BY DEF LineKinds
<1>4. head \in LineType /\ head = [kind |-> "cluster", n |-> Letter(cluster.id)]
  BY <1>1, <1>3, LetterIsRead, LineOfKind
<1>5. tail \in [1 .. Len(cluster.cores) -> LineType]
  <2>1. \A o \in 1 .. Len(cluster.cores) :
           [kind |-> "cpu", n |-> cluster.cores[o].id] \in LineType
    BY <1>2, <1>3, LineOfKind
  <2> QED BY <1>2, <2>1
<1>6. \A o \in 1 .. Len(cluster.cores) : tail[o] = [kind |-> "cpu", n |-> id(o)]
  BY <1>2
<1>7. FlatLines(cluster) = s
  BY DEF FlatLines
<1> HIDE DEF head, tail
<1>8. tail \in Seq(LineType) /\ Len(tail) = Len(cluster.cores)
  BY <1>2, <1>5, FunctionIsSeq
<1>9. /\ s \in Seq(LineType) /\ Len(s) = 1 + Len(tail) /\ s[1] = head
      /\ \A o \in 1 .. Len(tail) : s[o + 1] = tail[o]
  BY <1>4, <1>8, Prefixed
<1> HIDE DEF s
<1>10. ASSUME NEW j \in 2 .. Len(s)
       PROVE  /\ j - 1 \in 1 .. Len(cluster.cores)
              /\ s[j].kind = "cpu" /\ s[j].n = id(j - 1)
  <2>1. j - 1 \in 1 .. Len(tail) /\ j - 1 + 1 = j
    BY <1>2, <1>8, <1>9
  <2>2. s[j] = [kind |-> "cpu", n |-> id(j - 1)]
    BY <1>6, <1>8, <1>9, <2>1
  <2> QED BY <1>8, <2>1, <2>2
<1>11. \A o \in 1 .. Len(cluster.cores) :
          {id(o)} = {c \in cpus : m[c].core = id(o)}
  BY <1>2 DEF ClusterHolds
<1>12. ASSUME NEW j \in 2 .. Len(s)
       PROVE  /\ s[j].kind = "cpu" /\ s[j].n \in cpus
              /\ UnderCore(s, 1, j, m[s[j].n].core, s[j].n)
  <2>1. s[j].n \in cpus /\ m[s[j].n].core = s[j].n
    BY <1>10, <1>11
  <2>2. None(s, "core", 1, j)
    <3> SUFFICES ASSUME NEW x \in 1 + 1 .. j - 1
                 PROVE  s[x].kind # "core"
      BY DEF None
    <3>1. x \in 2 .. Len(s)
      BY <1>2, <1>8, <1>9
    <3> QED BY <1>10, <3>1
  <2> QED BY <1>10, <2>1, <2>2 DEF UnderCore
<1>13. ASSUME NEW c \in cpus
       PROVE  \E j \in 2 .. Len(s) : s[j].kind = "cpu" /\ s[j].n = c
  <2>1. PICK o \in 1 .. Len(cluster.cores) : id(o) = m[c].core
    <3>1. m[c].core \in Ids(cluster.cores)
      BY DEF ClusterHolds
    <3> QED BY <1>2, <3>1 DEF Ids
  <2>2. c = id(o)
    BY <1>11, <2>1
  <2>3. o + 1 \in 2 .. Len(s) /\ o + 1 - 1 = o
    BY <1>2, <1>8, <1>9
  <2> QED BY <1>10, <2>2, <2>3
<1>14. Len(s) >= 1 /\ s[1].kind = "cluster" /\ s[1].n = Letter(cluster.id)
  BY <1>2, <1>4, <1>8, <1>9
<1>15. ClusterText(s, m, cluster.id, cpus)
  BY <1>9, <1>12, <1>13, <1>14 DEF ClusterText
<1> QED BY <1>7, <1>15

\* There is a CPU.
LEMMA CpusCounted == NrCpus \in Nat /\ NrCpus >= 1
<1>1. NrCpus \in Nat \ {0}
  BY TraceFileAssumption, Zenon
<1> QED BY <1>1

(* What is behind the topology: the blocks of C-states, CPU by CPU, and    *)
(* the first record.                                                       *)
CstateBlocks(t) ==
    [i \in 1 .. NrCpus |-> IF i - 1 \in t.online
                           THEN <<Counted("cpuid", i - 1), Counted("states", i - 1)>>
                           ELSE <<>>]

CstateOff(t) == CHOOSE off : Places(CstateLines(t), CstateBlocks(t), off)

\* How many of the lines are those of the CPUs below c.
LinesBelow(t, c) == CstateOff(t)[c + 1]

\* The C-states' lines are followed by one record, and hold none.
LEMMA LastLinesAre ==
    ASSUME NEW t
    PROVE  /\ LastLines(t) \in Seq(LineType)
           /\ LinesBelow(t, 0) = 0 /\ LinesBelow(t, NrCpus) \in Nat
           /\ Len(LastLines(t)) = LinesBelow(t, NrCpus) + 1
           /\ LastLines(t)[LinesBelow(t, NrCpus) + 1].kind = "record"
           /\ \A i \in 1 .. LinesBelow(t, NrCpus) :
                 LastLines(t)[i].kind \in {"cpuid", "states"}
           /\ \A c \in Cpus :
                 /\ LinesBelow(t, c) \in Nat
                 /\ c \notin t.online => LinesBelow(t, c + 1) = LinesBelow(t, c)
                 /\ c \in t.online =>
                       /\ LinesBelow(t, c + 1) = LinesBelow(t, c) + 2
                       /\ LinesBelow(t, c) + 1 \in 1 .. LinesBelow(t, NrCpus)
                       /\ LinesBelow(t, c) + 2 \in 1 .. LinesBelow(t, NrCpus)
                       /\ LastLines(t)[LinesBelow(t, c) + 1] = Counted("cpuid", c)
<1> DEFINE blocks == CstateBlocks(t)
           F      == CstateLines(t)
           off    == CstateOff(t)
           R      == Plain("record")
           two(c) == <<Counted("cpuid", c), Counted("states", c)>>
<1>0. NrCpus \in Nat /\ NrCpus >= 1
  BY CpusCounted
<1>1. \A kind \in {"cpuid", "states", "record"} : kind \in LineKinds
  BY DEF LineKinds
<1>2. R \in LineType /\ R.kind = "record"
  <2>1. [kind |-> "record", n |-> 0] \in LineType
    BY <1>1, LineOfKind
  <2> QED BY <2>1 DEF Plain
<1>3. \A c \in Cpus : /\ Counted("cpuid", c) \in LineType
                      /\ Counted("states", c) \in LineType
  <2> TAKE c \in Cpus
  <2>1. c \in Int
    BY <1>0 DEF Cpus
  <2>2. /\ [kind |-> "cpuid", n |-> c] \in LineType
        /\ [kind |-> "states", n |-> c] \in LineType
    BY <1>1, <2>1, LineOfKind
  <2> QED BY <2>2 DEF Counted
<1>4. \A c \in Cpus : /\ two(c) \in Seq(LineType) /\ Len(two(c)) = 2
                      /\ two(c)[1] = Counted("cpuid", c)
                      /\ two(c)[2] = Counted("states", c)
  BY <1>3
<1> HIDE DEF two
<1>5. \A i \in 1 .. NrCpus : blocks[i] = IF i - 1 \in t.online THEN two(i - 1) ELSE <<>>
  BY DEF CstateBlocks, two
<1>6. \A i \in 1 .. NrCpus : i - 1 \in Cpus
  BY <1>0 DEF Cpus
<1>7. blocks \in Seq(Seq(LineType)) /\ Len(blocks) = NrCpus
  <2> DEFINE Lines == Seq(LineType)
  <2>1. <<>> \in Lines
    OBVIOUS
  <2>2. \A i \in 1 .. NrCpus : two(i - 1) \in Lines
    BY <1>4, <1>6
  <2>3. \A i \in 1 .. NrCpus : blocks[i] \in Lines
    <3> HIDE DEF Lines, blocks
    <3> QED BY <1>5, <2>1, <2>2
  <2>4. blocks = [i \in 1 .. NrCpus |-> blocks[i]]
    BY DEF CstateBlocks
  <2> HIDE DEF blocks, Lines
  <2>5. blocks \in [1 .. NrCpus -> Lines]
    BY <2>3, <2>4
  <2>6. blocks \in Seq(Lines) /\ Len(blocks) = NrCpus
    BY <1>0, <2>5, FunctionIsSeq
  <2> QED BY <2>6 DEF Lines
<1>8. F = FlattenSeq(blocks)
  BY DEF CstateLines, CstateBlocks
<1> HIDE DEF blocks
<1>9. F \in Seq(LineType)
  BY <1>7, <1>8, FlattenInSeq
<1>10. Places(F, blocks, off)
  BY <1>7, <1>8, FlattenPlaces DEF CstateOff, blocks
<1> HIDE DEF F, off, R
<1>11. /\ Len(F) = off[NrCpus + 1] /\ off[1] = 0
       /\ \A i \in 1 .. NrCpus + 1 : off[i] \in Nat
  BY <1>7, <1>10 DEF Places
<1>12. /\ LastLines(t) = F \o <<R>>
       /\ \A c : LinesBelow(t, c) = off[c + 1]
  BY DEF LastLines, LinesBelow, F, off, R
<1>13. /\ F \o <<R>> \in Seq(LineType) /\ Len(F \o <<R>>) = Len(F) + 1 /\ Len(F) \in Nat
       /\ (F \o <<R>>)[Len(F) + 1] = R
       /\ \A i \in 1 .. Len(F) : (F \o <<R>>)[i] = F[i]
  BY <1>2, <1>9
<1>14. \A i \in 1 .. NrCpus : \A j \in 1 .. Len(blocks[i]) :
          /\ i - 1 \in t.online /\ Len(blocks[i]) = 2 /\ j \in 1 .. 2
          /\ blocks[i][j].kind \in {"cpuid", "states"}
  <2> SUFFICES ASSUME NEW i \in 1 .. NrCpus, NEW j \in 1 .. Len(blocks[i])
               PROVE  /\ i - 1 \in t.online /\ Len(blocks[i]) = 2 /\ j \in 1 .. 2
                      /\ blocks[i][j].kind \in {"cpuid", "states"}
    OBVIOUS
  <2>1. blocks[i] = two(i - 1) /\ i - 1 \in t.online
    <3>1. Len(<<>>) = 0 /\ ~ j \in 1 .. 0
      OBVIOUS
    <3>2. blocks[i] # <<>>
      BY <3>1
    <3> QED BY <1>5, <3>2
  <2>2. Len(blocks[i]) = 2 /\ j \in 1 .. 2
    BY <1>4, <1>6, <2>1
  <2>3. /\ blocks[i][1] = [kind |-> "cpuid", n |-> i - 1]
        /\ blocks[i][2] = [kind |-> "states", n |-> i - 1]
    BY <1>4, <1>6, <2>1 DEF Counted
  <2>4. blocks[i][1].kind = "cpuid" /\ blocks[i][2].kind = "states"
    BY <2>3
  <2>5. j = 1 \/ j = 2
    BY <2>2
  <2> QED BY <2>1, <2>2, <2>4, <2>5
<1>15. ASSUME NEW p \in 1 .. Len(F)
       PROVE  F[p].kind \in {"cpuid", "states"}
  <2>1. PICK i \in 1 .. NrCpus : p - off[i] \in 1 .. Len(blocks[i])
    BY <1>7, <1>10 DEF Places
  <2>2. F[off[i] + (p - off[i])] = blocks[i][p - off[i]]
    BY <1>7, <1>10, <2>1 DEF Places
  <2>3. off[i] + (p - off[i]) = p
    BY <1>0, <1>11, <1>13
  <2> QED BY <1>14, <2>1, <2>2, <2>3
<1>16. ASSUME NEW c \in Cpus
       PROVE  /\ off[c + 1] \in Nat
              /\ c \notin t.online => off[c + 1 + 1] = off[c + 1]
              /\ c \in t.online =>
                       /\ off[c + 1 + 1] = off[c + 1] + 2
                       /\ off[c + 1] + 1 \in 1 .. Len(F)
                       /\ off[c + 1] + 2 \in 1 .. Len(F)
                       /\ F[off[c + 1] + 1] = Counted("cpuid", c)
  <2>1. c + 1 \in 1 .. NrCpus /\ c + 1 \in 1 .. NrCpus + 1 /\ c + 1 - 1 = c
    BY <1>0 DEF Cpus
  <2>2. off[c + 1] \in Nat
    BY <1>11, <2>1
  <2>3. /\ off[c + 1 + 1] = off[c + 1] + Len(blocks[c + 1])
        /\ \A j \in 1 .. Len(blocks[c + 1]) :
              off[c + 1] + j \in 1 .. Len(F) /\ F[off[c + 1] + j] = blocks[c + 1][j]
    BY <1>7, <1>10, <2>1 DEF Places
  <2>4. blocks[c + 1] = IF c \in t.online THEN two(c) ELSE <<>>
    <3> DEFINE i == c + 1
    <3>1. i \in 1 .. NrCpus /\ i - 1 = c
      BY <1>0, <2>1 DEF Cpus
    <3> HIDE DEF i
    <3>2. blocks[i] = IF c \in t.online THEN two(c) ELSE <<>>
      BY <1>5, <3>1
    <3> QED BY <3>2 DEF i
  <2>5. CASE c \in t.online
    <3>1. 1 \in 1 .. Len(blocks[c + 1]) /\ 2 \in 1 .. Len(blocks[c + 1])
          /\ Len(blocks[c + 1]) = 2 /\ blocks[c + 1][1] = Counted("cpuid", c)
      BY <1>4, <2>4, <2>5
    <3> QED BY <2>2, <2>3, <2>5, <3>1
  <2>6. CASE c \notin t.online
    <3>1. Len(blocks[c + 1]) = 0
      BY <2>4, <2>6
    <3> QED BY <2>2, <2>3, <2>6, <3>1
  <2> QED BY <2>5, <2>6
<1>17. \A c \in Cpus : c \in t.online =>
          (F \o <<R>>)[off[c + 1] + 1] = Counted("cpuid", c)
  BY <1>13, <1>16
<1>18. off[NrCpus + 1] \in Nat /\ off[0 + 1] = 0
  BY <1>0, <1>11
<1>19. /\ LinesBelow(t, NrCpus) = off[NrCpus + 1] /\ LinesBelow(t, 0) = off[0 + 1]
       /\ \A c \in Cpus : /\ LinesBelow(t, c) = off[c + 1]
                          /\ LinesBelow(t, c + 1) = off[c + 1 + 1]
  BY <1>12
<1>20. /\ LastLines(t) \in Seq(LineType)
       /\ Len(LastLines(t)) = off[NrCpus + 1] + 1
       /\ LastLines(t)[off[NrCpus + 1] + 1].kind = "record"
       /\ \A i \in 1 .. off[NrCpus + 1] : LastLines(t)[i].kind \in {"cpuid", "states"}
  BY <1>2, <1>11, <1>12, <1>13, <1>15
<1>21. \A c \in Cpus : /\ off[c + 1] \in Nat
                       /\ c \notin t.online => off[c + 1 + 1] = off[c + 1]
                       /\ c \in t.online =>
                             /\ off[c + 1 + 1] = off[c + 1] + 2
                             /\ off[c + 1] + 1 \in 1 .. off[NrCpus + 1]
                             /\ off[c + 1] + 2 \in 1 .. off[NrCpus + 1]
                             /\ LastLines(t)[off[c + 1] + 1] = Counted("cpuid", c)
  BY <1>11, <1>12, <1>16, <1>17
<1> QED
  BY <1>18, <1>19, <1>20, <1>21, ZenonT(40)

(* Text that is embedded in other text: in the same order, and with        *)
(* comments at most between its lines.                                     *)
Embeds(s, f, n, up) ==
    /\ \A x \in 1 .. n : up[x] \in Nat /\ f[up[x]] = s[x]
    /\ \A x, y \in 1 .. n : x < y => up[x] < up[y]
    /\ \A x, y \in 1 .. n : \A z \in up[x] + 1 .. up[y] - 1 :
          f[z].kind = "#" \/ \E w \in x + 1 .. y - 1 : z = up[w]

\* Comments do not put a line of another kind between two lines.
LEMMA NoneKept ==
    ASSUME NEW s, NEW f, NEW n \in Nat, NEW up, Embeds(s, f, n, up),
           NEW q \in 1 .. n, NEW p \in 1 .. n,
           NEW kind, kind # "#", None(s, kind, q, p)
    PROVE  None(f, kind, up[q], up[p])
<1> SUFFICES ASSUME NEW z \in up[q] + 1 .. up[p] - 1
             PROVE  f[z].kind # kind
  BY DEF None
<1>1. CASE f[z].kind = "#"
  BY <1>1
<1>2. CASE \E w \in q + 1 .. p - 1 : z = up[w]
  <2>1. PICK w \in q + 1 .. p - 1 : z = up[w]
    BY <1>2
  <2>2. w \in 1 .. n
    OBVIOUS
  <2>3. f[z] = s[w]
    BY <2>1, <2>2 DEF Embeds
  <2> QED BY <2>3 DEF None
<1> QED BY <1>1, <1>2 DEF Embeds

\* A line is under the same core with comments as without.
LEMMA UnderCoreKept ==
    ASSUME NEW s, NEW f, NEW n \in Nat, NEW up, Embeds(s, f, n, up),
           NEW q \in 1 .. n, NEW p \in 1 .. n, NEW core, NEW c,
           UnderCore(s, q, p, core, c)
    PROVE  UnderCore(f, up[q], up[p], core, c)
<1>1. CASE core = c /\ None(s, "core", q, p)
  BY <1>1, NoneKept DEF UnderCore
<1>2. CASE \E r \in q + 1 .. p - 1 :
              s[r].kind = "core" /\ s[r].n = core /\ None(s, "core", r, p)
  <2>1. PICK r \in q + 1 .. p - 1 :
              s[r].kind = "core" /\ s[r].n = core /\ None(s, "core", r, p)
    BY <1>2
  <2>2. r \in 1 .. n /\ q < r /\ r < p
    OBVIOUS
  <2>3. None(f, "core", up[r], up[p])
    BY <2>1, <2>2, NoneKept
  <2>4. f[up[r]] = s[r] /\ up[q] < up[r] /\ up[r] < up[p]
        /\ up[q] \in Nat /\ up[r] \in Nat /\ up[p] \in Nat
    BY <2>2 DEF Embeds
  <2>5. up[r] \in up[q] + 1 .. up[p] - 1
    BY <2>4
  <2> QED BY <2>1, <2>3, <2>4, <2>5 DEF UnderCore
<1> QED BY <1>1, <1>2 DEF UnderCore

(* CPU c, at line p, is under its own cluster and core.                    *)
Placed(f, p, m, c) ==
    \E q \in 3 .. p - 1 :
       /\ f[q].kind = "cluster" /\ IdOf(f[q].n) = m[c].physical
       /\ None(f, "cluster", q, p) /\ UnderCore(f, q, p, m[c].core, c)

(* The topology of a header, in lines 3 to N, lists the CPUs that are on   *)
(* line, all of them unless the file ends before line N.                   *)
TopologyText(f, m, online, N) ==
    /\ \A p \in 3 .. N : p <= Len(f) =>
          /\ f[p].kind \in {"#", "cluster", "core", "cpu"}
          /\ f[p].kind \in {"core", "cpu"} => \E q \in 3 .. p - 1 : f[q].kind = "cluster"
          /\ f[p].kind = "cpu" => f[p].n \in online /\ Placed(f, p, m, f[p].n)
    /\ N <= Len(f) => \A c \in online : \E p \in 3 .. N : f[p].kind = "cpu" /\ f[p].n = c

HeaderText(f, m, t, N) ==
    /\ f \in Seq(LineType) /\ N \in Nat /\ N >= 2
    /\ Len(f) <= N + Len(LastLines(t))
    /\ \A i \in 1 .. 2 : i <= Len(f) => f[i] = FirstLines[i]
    /\ TopologyText(f, m, t.online, N)
    /\ \A i \in 1 .. Len(LastLines(t)) : N + i <= Len(f) => f[N + i] = LastLines(t)[i]

(* The machine as it is read back: a cluster is what its letter says.      *)
AsRead(m) ==
    [c \in Cpus |-> [physical |-> IdOf(Letter(m[c].physical)), core |-> m[c].core]]

(* A header made of the texts of the clusters.                             *)
LEMMA ClustersAreHeader ==
    ASSUME NEW t \in TopoType, NEW m, TreeOf(t, m, t.online), t.online \subseteq Cpus,
           NEW parts \in Seq(Seq(LineType)), Len(parts) = Len(t.clusters),
           \A k \in 1 .. Len(parts) :
              ClusterText(parts[k], m, t.clusters[k].id,
                          {c \in t.online : m[c].physical = t.clusters[k].id})
    PROVE  /\ HeaderText(FirstLines \o FlattenSeq(parts) \o LastLines(t), AsRead(m), t,
                         2 + Len(FlattenSeq(parts)))
           /\ Len(FirstLines \o FlattenSeq(parts) \o LastLines(t))
                = 2 + Len(FlattenSeq(parts)) + Len(LastLines(t))
           /\ Len(FlattenSeq(parts)) \in Nat
<1> DEFINE F == FlattenSeq(parts)
           L == LastLines(t)
           A == FirstLines
           f == A \o F \o L
           N == 2 + Len(F)
           id(k) == t.clusters[k].id
           Of(k) == {c \in t.online : m[c].physical = id(k)}
           am == AsRead(m)
<1>1. A \in Seq(LineType) /\ Len(A) = 2
  <2>1. /\ [kind |-> "idlestat version", n |-> 0] \in LineType
        /\ [kind |-> "cpus", n |-> NrCpus] \in LineType
    <3>1. "idlestat version" \in LineKinds /\ "cpus" \in LineKinds
      BY DEF LineKinds
    <3>2. NrCpus \in Int /\ 0 \in Int
      BY CpusCounted
    <3>3. [kind |-> "idlestat version", n |-> 0] \in LineType
      BY <3>1, <3>2, LineOfKind, Zenon
    <3>4. [kind |-> "cpus", n |-> NrCpus] \in LineType
      BY <3>1, <3>2, LineOfKind, Zenon
    <3> QED BY <3>3, <3>4
  <2>2. A = <<[kind |-> "idlestat version", n |-> 0], [kind |-> "cpus", n |-> NrCpus]>>
    BY DEF FirstLines, Plain, Counted
  <2>3. \A a, b \in LineType : <<a, b>> \in Seq(LineType) /\ Len(<<a, b>>) = 2
    OBVIOUS
  <2> QED BY <2>1, <2>2, <2>3, Zenon
<1>2. F \in Seq(LineType) /\ L \in Seq(LineType)
  BY FlattenInSeq, LastLinesAre
<1>3. PICK off : Places(F, parts, off)
  BY FlattenPlaces
<1> HIDE DEF A, F, L
<1>4. Len(F) \in Nat /\ Len(L) \in Nat /\ N \in Nat
  BY <1>2
<1>5. /\ f \in Seq(LineType) /\ Len(f) = Len(A) + Len(F) + Len(L)
      /\ \A i \in 1 .. Len(A) : f[i] = A[i]
      /\ \A i \in 1 .. Len(F) : f[Len(A) + i] = F[i]
      /\ \A i \in 1 .. Len(L) : f[Len(A) + Len(F) + i] = L[i]
  <2>1. A \in Seq(LineType) /\ F \in Seq(LineType) /\ L \in Seq(LineType)
    BY <1>1, <1>2
  <2> QED BY SMTT(30), <2>1, ThreeParts
<1> HIDE DEF f
<1>6. /\ f \in Seq(LineType) /\ Len(f) = N + Len(L)
      /\ \A i \in 1 .. Len(L) : f[N + i] = L[i]
  BY <1>1, <1>5
<1>7. \A i \in 1 .. 2 : f[i] = A[i]
  BY <1>1, <1>5
<1>8. \A p \in 1 .. Len(F) : f[p + 2] = F[p]
  <2> TAKE p \in 1 .. Len(F)
  <2>1. p + 2 = Len(A) + p
    BY <1>1, <1>4
  <2> QED BY <1>5, <2>1
<1> HIDE DEF N
<1>10. N = 2 + Len(F)
  BY DEF N
\* The lines of one cluster, embedded in the header.
<1> DEFINE up(k) == [x \in 1 .. Len(parts[k]) |-> off[k] + x + 2]
<1>11. ASSUME NEW k \in 1 .. Len(parts)
       PROVE  /\ ClusterText(parts[k], m, id(k), Of(k))
              /\ off[k] \in Nat /\ Len(parts[k]) \in Nat
              /\ \A x \in 1 .. Len(parts[k]) :
                    /\ up(k)[x] = off[k] + x + 2 /\ up(k)[x] \in 3 .. N
                    /\ f[up(k)[x]] = parts[k][x]
              /\ Embeds(parts[k], f, Len(parts[k]), up(k))
  <2>1. ClusterText(parts[k], m, id(k), Of(k))
    OBVIOUS
  <2>2. parts[k] \in Seq(LineType)
    BY <2>1 DEF ClusterText
  <2>3. Len(parts[k]) \in Nat
    BY <2>2
  <2>4. k \in 1 .. Len(parts) + 1
    OBVIOUS
  <2>5. off[k] \in Nat
    BY <1>3, <2>4 DEF Places
  <2>6. \A x \in 1 .. Len(parts[k]) :
           off[k] + x \in 1 .. Len(F) /\ F[off[k] + x] = parts[k][x]
    BY <1>3 DEF Places
  <2>7. ASSUME NEW x \in 1 .. Len(parts[k])
        PROVE  /\ up(k)[x] = off[k] + x + 2 /\ up(k)[x] \in 3 .. N
               /\ f[up(k)[x]] = parts[k][x]
    <3>1. up(k)[x] = off[k] + x + 2
      OBVIOUS
    <3>2. f[off[k] + x + 2] = parts[k][x]
      BY <1>8, <2>6
    <3>3. off[k] + x + 2 \in 3 .. N
      <4>1. off[k] + x \in 1 .. Len(F)
        BY <2>6
      <4> QED BY <1>4, <1>10, <4>1
    <3> QED BY <3>1, <3>2, <3>3
  <2>8. Embeds(parts[k], f, Len(parts[k]), up(k))
    <3>1. ASSUME NEW x \in 1 .. Len(parts[k]), NEW y \in 1 .. Len(parts[k])
          PROVE  x < y => up(k)[x] < up(k)[y]
      BY <2>5, <2>7
    <3>2. ASSUME NEW x \in 1 .. Len(parts[k]), NEW y \in 1 .. Len(parts[k]),
                 NEW z \in up(k)[x] + 1 .. up(k)[y] - 1
          PROVE  \E w \in x + 1 .. y - 1 : z = up(k)[w]
      <4>1. up(k)[x] = off[k] + x + 2 /\ up(k)[y] = off[k] + y + 2
        BY <2>7
      <4>2. z - 2 - off[k] \in x + 1 .. y - 1 /\ off[k] + (z - 2 - off[k]) + 2 = z
        <5>2. /\ x \in Int /\ y \in Int /\ off[k] \in Int
              /\ up(k)[x] \in Int /\ up(k)[y] \in Int
          BY SMTT(30), <2>5, <4>1
        <5> DEFINE u == up(k)[x]
                   v == up(k)[y]
                   a == off[k]
        <5>3. a \in Int /\ u \in Int /\ v \in Int /\ z \in u + 1 .. v - 1
              /\ u = a + x + 2 /\ v = a + y + 2
          BY <4>1, <5>2
        <5> HIDE DEF u, v, a
        <5>4. z - 2 - a \in x + 1 .. y - 1 /\ a + (z - 2 - a) + 2 = z
          BY <5>2, <5>3
        <5> QED BY <5>4 DEF a
      <4>3. z - 2 - off[k] \in 1 .. Len(parts[k])
        BY <2>3, <4>2
      <4>4. up(k)[z - 2 - off[k]] = z
        BY <2>7, <4>2, <4>3
      <4> QED BY <4>2, <4>4
    <3>3. \A x \in 1 .. Len(parts[k]) : up(k)[x] \in Nat /\ f[up(k)[x]] = parts[k][x]
      <4>1. \A z \in 3 .. N : z \in Nat
        OBVIOUS
      <4> QED BY <2>7, <4>1
    <3> HIDE DEF up
    <3> QED BY <3>1, <3>2, <3>3 DEF Embeds
  <2> QED BY <2>1, <2>3, <2>5, <2>7, <2>8
<1>12. ASSUME NEW p \in 3 .. N
       PROVE  \E k \in 1 .. Len(parts) : \E j \in 1 .. Len(parts[k]) : p = up(k)[j]
  <2>1. p - 2 \in 1 .. Len(F)
    BY <1>4, <1>10
  <2>2. PICK k \in 1 .. Len(parts) : p - 2 - off[k] \in 1 .. Len(parts[k])
    BY <1>3, <2>1 DEF Places
  <2>3. off[k] \in Nat /\ up(k)[p - 2 - off[k]] = off[k] + (p - 2 - off[k]) + 2
    BY <1>11, <2>2
  <2>4. off[k] + (p - 2 - off[k]) + 2 = p
    BY <2>3
  <2>5. p = up(k)[p - 2 - off[k]]
    BY <2>3, <2>4
  <2> QED BY <2>2, <2>5
<1> HIDE DEF up
<1>13. ASSUME NEW p \in 3 .. N
       PROVE  /\ f[p].kind \in {"#", "cluster", "core", "cpu"}
              /\ f[p].kind \in {"core", "cpu"} =>
                    \E q \in 3 .. p - 1 : f[q].kind = "cluster"
              /\ f[p].kind = "cpu" => f[p].n \in t.online /\ Placed(f, p, am, f[p].n)
  <2>1. PICK k \in 1 .. Len(parts) : \E j \in 1 .. Len(parts[k]) : p = up(k)[j]
    BY <1>12
  <2>2. PICK j \in 1 .. Len(parts[k]) : p = up(k)[j]
    BY <2>1
  <2> DEFINE s == parts[k]
             q == up(k)[1]
  <2>3. /\ ClusterText(s, m, id(k), Of(k)) /\ Len(s) \in Nat
        /\ Embeds(s, f, Len(s), up(k)) /\ f[p] = s[j]
    BY <1>11, <2>2
  <2>4. 1 \in 1 .. Len(s) /\ f[q] = s[1] /\ q \in 3 .. N
    BY <1>11, <2>3 DEF ClusterText
  <2>5. f[q].kind = "cluster" /\ f[q].n = Letter(id(k))
    BY <2>3, <2>4 DEF ClusterText
  <2>6. CASE j = 1
    <3>1. f[p].kind = "cluster"
      BY <2>2, <2>5, <2>6
    <3> QED BY <3>1
  <2>7. CASE j # 1
    <3>1. j \in 2 .. Len(s)
      BY <2>3, <2>7
    <3>2. q < p
      BY <2>2, <2>3, <2>4, <3>1 DEF Embeds
    <3>3. q \in 3 .. p - 1
      BY <2>4, <3>2
    <3>4. f[p].kind \in {"core", "cpu"}
      BY <2>3, <3>1 DEF ClusterText
    <3>5. ASSUME f[p].kind = "cpu"
          PROVE  f[p].n \in t.online /\ Placed(f, p, am, f[p].n)
      <4> DEFINE c == f[p].n
      <4>1. c \in Of(k) /\ UnderCore(s, 1, j, m[c].core, c)
        BY <2>3, <3>1, <3>5 DEF ClusterText
      <4>2. None(s, "cluster", 1, j)
        <5> SUFFICES ASSUME NEW x \in 1 + 1 .. j - 1
                     PROVE  s[x].kind # "cluster"
          BY DEF None
        <5>1. x \in 2 .. Len(s)
          BY <2>3
        <5> QED BY <2>3, <5>1 DEF ClusterText
      <4>3. None(f, "cluster", q, p)
        BY <2>2, <2>3, <2>4, <4>2, NoneKept
      <4>4. UnderCore(f, q, p, m[c].core, c)
        BY <2>2, <2>3, <2>4, <4>1, UnderCoreKept
      <4>5. c \in t.online /\ m[c].physical = id(k)
        BY <4>1
      <4>6. am[c].physical = IdOf(Letter(id(k))) /\ am[c].core = m[c].core
        BY <4>5 DEF AsRead
      <4> HIDE DEF c, q, am
      <4>7. Placed(f, p, am, c)
        BY <2>5, <3>3, <4>3, <4>4, <4>6 DEF Placed
      <4> QED BY <4>5, <4>7 DEF c
    <3> HIDE DEF q
    <3> QED BY <2>5, <3>3, <3>4, <3>5
  <2> QED BY <2>6, <2>7
<1>14. ASSUME NEW c \in t.online
       PROVE  \E p \in 3 .. N : f[p].kind = "cpu" /\ f[p].n = c
  <2>1. PICK k \in 1 .. Len(parts) : id(k) = m[c].physical
    <3>1. m[c].physical \in Ids(t.clusters)
      BY DEF TreeOf
    <3>2. DOMAIN t.clusters = 1 .. Len(parts)
      BY DEF TopoType
    <3> QED BY <3>1, <3>2 DEF Ids
  <2>2. c \in Of(k) /\ ClusterText(parts[k], m, id(k), Of(k)) /\ Len(parts[k]) \in Nat
    BY <1>11, <2>1
  <2>3. PICK j \in 2 .. Len(parts[k]) : parts[k][j].kind = "cpu" /\ parts[k][j].n = c
    BY <2>2 DEF ClusterText
  <2>4. j \in 1 .. Len(parts[k])
    BY <2>2
  <2> QED BY <1>11, <2>3, <2>4
<1>15. TopologyText(f, am, t.online, N)
  BY <1>13, <1>14 DEF TopologyText
<1>16. HeaderText(f, am, t, N)
  <2>1. N \in Nat /\ N >= 2
    BY <1>4, <1>10
  <2>2. Len(f) <= N + Len(L)
    BY <1>4, <1>6, <2>1
  <2> QED BY <1>6, <1>7, <1>15, <2>1, <2>2 DEF HeaderText, A, L
<1> QED BY <1>4, <1>6, <1>10, <1>16 DEF f, A, F, L

\* A CPU is in the same place with comments as without.
LEMMA PlacedKept ==
    ASSUME NEW s, NEW f, NEW n \in Nat, NEW up, Embeds(s, f, n, up),
           \A x \in 3 .. n : up[x] >= 3,
           NEW p \in 1 .. n, NEW m, NEW c, Placed(s, p, m, c)
    PROVE  Placed(f, up[p], m, c)
<1>1. PICK q \in 3 .. p - 1 :
         /\ s[q].kind = "cluster" /\ IdOf(s[q].n) = m[c].physical
         /\ None(s, "cluster", q, p) /\ UnderCore(s, q, p, m[c].core, c)
  BY DEF Placed
<1>2. q \in 1 .. n /\ q \in 3 .. n /\ q < p
  OBVIOUS
<1>3. /\ f[up[q]] = s[q] /\ up[q] < up[p] /\ up[q] >= 3
      /\ up[q] \in Nat /\ up[p] \in Nat
  BY <1>2 DEF Embeds
<1>4. None(f, "cluster", up[q], up[p]) /\ UnderCore(f, up[q], up[p], m[c].core, c)
  BY <1>1, <1>2, NoneKept, UnderCoreKept
<1>5. up[q] \in 3 .. up[p] - 1
  BY <1>3
<1> QED BY <1>1, <1>3, <1>4, <1>5 DEF Placed

(* A header that ends before its end is still one.                         *)
LEMMA HeaderCut ==
    ASSUME NEW f, NEW m, NEW t, NEW N, HeaderText(f, m, t, N),
           NEW n \in 0 .. Len(f)
    PROVE  HeaderText(SubSeq(f, 1, n), m, t, N)
<1> DEFINE g  == SubSeq(f, 1, n)
           up == [x \in 1 .. n |-> x]
<1>1. /\ f \in Seq(LineType) /\ N \in Nat /\ N >= 2
      /\ Len(f) <= N + Len(LastLines(t))
      /\ \A i \in 1 .. 2 : i <= Len(f) => f[i] = FirstLines[i]
      /\ \A i \in 1 .. Len(LastLines(t)) : N + i <= Len(f) => f[N + i] = LastLines(t)[i]
  BY DEF HeaderText
<1>2. Len(f) \in Nat /\ n \in Nat /\ n <= Len(f)
  BY <1>1
<1>3. g \in Seq(LineType) /\ Len(g) = n /\ \A x \in 1 .. n : g[x] = f[x]
  <2>1. f \in Seq(LineType)
    BY <1>1
  <2> QED BY <1>2, <2>1
<1> HIDE DEF g
<1>4. Len(LastLines(t)) \in Nat
  <2>1. LastLines(t) \in Seq(LineType)
    BY LastLinesAre
  <2> QED BY <2>1
<1>5. Embeds(f, g, n, up) /\ \A x \in 1 .. n : up[x] = x
  <2>1. \A x \in 1 .. n : up[x] = x
    OBVIOUS
  <2>2. ASSUME NEW x \in 1 .. n, NEW y \in 1 .. n, NEW z \in x + 1 .. y - 1
        PROVE  z \in 1 .. n
    BY <1>2
  <2> HIDE DEF up
  <2> QED BY <1>2, <1>3, <2>1, <2>2 DEF Embeds
<1> HIDE DEF up
<1>6. ASSUME NEW p \in 3 .. N, p <= n
      PROVE  /\ g[p].kind \in {"#", "cluster", "core", "cpu"}
             /\ g[p].kind \in {"core", "cpu"} =>
                   \E q \in 3 .. p - 1 : g[q].kind = "cluster"
             /\ g[p].kind = "cpu" => g[p].n \in t.online /\ Placed(g, p, m, g[p].n)
  <2>1. p \in 1 .. n /\ p <= Len(f) /\ g[p] = f[p] /\ up[p] = p
    BY <1>2, <1>3, <1>5, <1>6
  <2>2. /\ f[p].kind \in {"#", "cluster", "core", "cpu"}
        /\ f[p].kind \in {"core", "cpu"} =>
              \E q \in 3 .. p - 1 : f[q].kind = "cluster"
        /\ f[p].kind = "cpu" => f[p].n \in t.online /\ Placed(f, p, m, f[p].n)
    BY <2>1 DEF HeaderText, TopologyText
  <2>3. \A q \in 3 .. p - 1 : g[q] = f[q]
    BY <1>3, <2>1
  <2>4. ASSUME f[p].kind = "cpu"
        PROVE  Placed(g, p, m, f[p].n)
    <3>1. Placed(f, p, m, f[p].n) /\ \A x \in 3 .. n : up[x] >= 3
      BY <1>5, <2>2, <2>4
    <3>2. Placed(g, up[p], m, f[p].n)
      BY <1>2, <1>5, <2>1, <3>1, PlacedKept
    <3> QED BY <2>1, <3>2
  <2> QED BY <2>1, <2>2, <2>3, <2>4
<1>7. ASSUME N <= n, NEW c \in t.online
      PROVE  \E p \in 3 .. N : g[p].kind = "cpu" /\ g[p].n = c
  <2>1. N <= Len(f)
    BY <1>1, <1>2, <1>7
  <2>2. PICK p \in 3 .. N : f[p].kind = "cpu" /\ f[p].n = c
    BY <2>1 DEF HeaderText, TopologyText
  <2>3. g[p] = f[p]
    BY <1>1, <1>2, <1>3, <1>7
  <2> QED BY <2>2, <2>3
<1>8. TopologyText(g, m, t.online, N)
  BY <1>3, <1>6, <1>7 DEF TopologyText
<1>9. \A i \in 1 .. 2 : i <= n => g[i] = FirstLines[i]
  BY <1>1, <1>2, <1>3
<1>10. \A i \in 1 .. Len(LastLines(t)) : N + i <= n => g[N + i] = LastLines(t)[i]
  <2> SUFFICES ASSUME NEW i \in 1 .. Len(LastLines(t)), N + i <= n
               PROVE  g[N + i] = LastLines(t)[i]
    OBVIOUS
  <2>1. N + i \in 1 .. n /\ N + i <= Len(f)
    BY <1>1, <1>2, <1>4
  <2> QED BY <1>1, <1>3, <2>1
<1>11. n <= N + Len(LastLines(t))
  BY <1>1, <1>2, <1>4
<1>12. HeaderText(g, m, t, N)
  BY <1>1, <1>3, <1>8, <1>9, <1>10, <1>11 DEF HeaderText
<1> QED BY <1>12 DEF g

(* A comment in the topology makes it a line longer.                       *)
LEMMA HeaderCommented ==
    ASSUME NEW f, NEW m, NEW t, NEW N, HeaderText(f, m, t, N),
           Len(f) = N + Len(LastLines(t)), NEW i \in 3 .. N + 1
    PROVE  HeaderText(InsertAt(f, i, Plain("#")), m, t, N + 1)
<1> DEFINE g  == InsertAt(f, i, Plain("#"))
           L  == LastLines(t)
           up == [x \in 1 .. Len(f) |-> IF x < i THEN x ELSE x + 1]
<1>1. /\ f \in Seq(LineType) /\ N \in Nat /\ N >= 2
      /\ \A j \in 1 .. 2 : j <= Len(f) => f[j] = FirstLines[j]
      /\ \A j \in 1 .. Len(L) : N + j <= Len(f) => f[N + j] = L[j]
  BY DEF HeaderText
<1>2. L \in Seq(LineType) /\ Len(L) >= 1
  BY LastLinesAre, CpusCounted
<1> HIDE DEF L
<1>3. /\ Len(f) \in Nat /\ Len(L) \in Nat /\ Len(f) = N + Len(L)
      /\ i \in 1 .. Len(f) + 1
  <2>1. Len(f) \in Nat /\ Len(L) \in Nat
    BY <1>1, <1>2
  <2> QED BY <1>1, <1>2, <2>1 DEF L
<1>4. Plain("#") \in LineType /\ Plain("#").kind = "#"
  <2>1. "#" \in LineKinds
    BY DEF LineKinds
  <2>2. [kind |-> "#", n |-> 0] \in LineType
    BY <2>1, LineOfKind
  <2> QED BY <2>2 DEF Plain
<1>5. /\ g \in Seq(LineType) /\ Len(g) = Len(f) + 1
      /\ \A j \in 1 .. Len(f) + 1 :
            g[j] = IF j < i THEN f[j] ELSE IF j = i THEN Plain("#") ELSE f[j - 1]
  <2>1. f \in Seq(LineType) /\ i \in 1 .. Len(f) + 1 /\ Plain("#") \in LineType
    BY <1>1, <1>3, <1>4
  <2> DEFINE e == Plain("#")
  <2>2. e \in LineType
    BY <2>1
  <2> HIDE DEF e
  <2>3. /\ InsertAt(f, i, e) \in Seq(LineType)
        /\ Len(InsertAt(f, i, e)) = Len(f) + 1
        /\ \A j \in 1 .. Len(f) + 1 : InsertAt(f, i, e)[j] =
              IF j < i THEN f[j] ELSE IF j = i THEN e ELSE f[j - 1]
    <3> DEFINE T == LineType
    <3>1. f \in Seq(T) /\ i \in 1 .. Len(f) + 1 /\ e \in T
      BY <2>1, <2>2
    <3> HIDE DEF T
    <3>2. /\ InsertAt(f, i, e) \in Seq(T)
          /\ Len(InsertAt(f, i, e)) = Len(f) + 1
          /\ \A j \in 1 .. Len(f) + 1 : InsertAt(f, i, e)[j] =
                IF j < i THEN f[j] ELSE IF j = i THEN e ELSE f[j - 1]
      BY ONLY <3>1, InsertAtProperties
    <3> QED BY <3>2 DEF T
  <2> QED BY <2>3 DEF e
<1> HIDE DEF g
<1>6. \A x \in 1 .. Len(f) : /\ up[x] = IF x < i THEN x ELSE x + 1
                             /\ up[x] \in 1 .. Len(g) /\ g[up[x]] = f[x]
  BY <1>3, <1>5
<1> HIDE DEF up
<1>7. Embeds(f, g, Len(f), up)
  <2>1. \A x \in 1 .. Len(f) : up[x] \in Nat /\ g[up[x]] = f[x]
    BY <1>3, <1>5, <1>6
  <2>2. \A x, y \in 1 .. Len(f) : x < y => up[x] < up[y]
    BY <1>3, <1>6
  <2>3. ASSUME NEW x \in 1 .. Len(f), NEW y \in 1 .. Len(f),
               NEW z \in up[x] + 1 .. up[y] - 1
        PROVE  g[z].kind = "#" \/ \E w \in x + 1 .. y - 1 : z = up[w]
    <3>1. CASE z = i
      <4>1. g[i] = Plain("#")
        BY <1>3, <1>5
      <4> QED BY <1>4, <3>1, <4>1
    <3> DEFINE a == up[x]
               b == up[y]
    <3>4. /\ a \in Int /\ b \in Int /\ z \in a + 1 .. b - 1
          /\ a = IF x < i THEN x ELSE x + 1
          /\ b = IF y < i THEN y ELSE y + 1
      BY <1>6, <2>1
    <3> HIDE DEF a, b
    <3>2. CASE z < i
      <4>1. z \in x + 1 .. y - 1 /\ z \in 1 .. Len(f)
        BY <3>4, <3>2
      <4> QED BY <1>6, <3>2, <4>1
    <3>3. CASE z > i
      <4>1. z - 1 \in x + 1 .. y - 1 /\ z - 1 \in 1 .. Len(f) /\ ~ z - 1 < i
            /\ z - 1 + 1 = z
        BY <3>4, <3>3
      <4> QED BY <1>6, <4>1
    <3> QED BY <3>1, <3>2, <3>3
  <2> QED BY <2>1, <2>2, <2>3 DEF Embeds
<1>8. \A x \in 3 .. Len(f) : up[x] >= 3
  BY <1>3, <1>6
<1>9. ASSUME NEW p \in 3 .. N + 1
      PROVE  /\ g[p].kind \in {"#", "cluster", "core", "cpu"}
             /\ g[p].kind \in {"core", "cpu"} =>
                   \E q \in 3 .. p - 1 : g[q].kind = "cluster"
             /\ g[p].kind = "cpu" => g[p].n \in t.online /\ Placed(g, p, m, g[p].n)
  <2>1. CASE p = i
    <3>1. g[p].kind = "#"
      BY <1>3, <1>4, <1>5, <2>1
    <3> QED BY <3>1
  <2>2. CASE p # i
    <3> DEFINE x == IF p < i THEN p ELSE p - 1
    <3>1. x \in 3 .. N /\ x \in 1 .. Len(f) /\ x <= Len(f) /\ up[x] = p
      BY <1>1, <1>3, <1>6, <2>2
    <3> HIDE DEF x
    <3>2. g[p] = f[x]
      BY <1>6, <3>1
    <3>3. /\ f[x].kind \in {"#", "cluster", "core", "cpu"}
          /\ f[x].kind \in {"core", "cpu"} =>
                \E q \in 3 .. x - 1 : f[q].kind = "cluster"
          /\ f[x].kind = "cpu" => f[x].n \in t.online /\ Placed(f, x, m, f[x].n)
      BY <3>1 DEF HeaderText, TopologyText
    <3>4. ASSUME NEW q \in 3 .. x - 1
          PROVE  up[q] \in 3 .. p - 1 /\ g[up[q]] = f[q]
      <4>1. q \in 1 .. Len(f) /\ q < x
        BY <1>3, <3>1
      <4>2. /\ up[q] = IF q < i THEN q ELSE q + 1
            /\ p = IF x < i THEN x ELSE x + 1
            /\ g[up[q]] = f[q]
        BY <1>6, <3>1, <4>1
      <4>3. up[q] \in 3 .. p - 1
        BY <3>1, <4>1, <4>2
      <4> QED BY <4>2, <4>3
    <3>5. ASSUME f[x].kind = "cpu"
          PROVE  Placed(g, p, m, f[x].n)
      <4>1. Placed(g, up[x], m, f[x].n)
        BY <1>3, <1>7, <1>8, <3>1, <3>3, <3>5, PlacedKept
      <4> QED BY <3>1, <4>1
    <3> QED BY <3>2, <3>3, <3>4, <3>5
  <2> QED BY <2>1, <2>2
<1>10. ASSUME NEW c \in t.online
       PROVE  \E p \in 3 .. N + 1 : g[p].kind = "cpu" /\ g[p].n = c
  <2>1. N <= Len(f)
    BY <1>1, <1>3
  <2>2. PICK p \in 3 .. N : f[p].kind = "cpu" /\ f[p].n = c
    BY <2>1 DEF HeaderText, TopologyText
  <2>3. p \in 1 .. Len(f)
    BY <1>1, <1>3
  <2>4. up[p] = (IF p < i THEN p ELSE p + 1) /\ g[up[p]] = f[p]
    BY <1>6, <2>3
  <2>5. up[p] \in 3 .. N + 1
    BY <1>1, <2>4
  <2> QED BY <2>2, <2>4, <2>5
<1>11. TopologyText(g, m, t.online, N + 1)
  BY <1>9, <1>10 DEF TopologyText
<1>12. \A j \in 1 .. 2 : j <= Len(g) => g[j] = FirstLines[j]
  <2> TAKE j \in 1 .. 2
  <2>1. Len(f) >= 2
    BY <1>1, <1>2, <1>3
  <2>2. j \in 1 .. Len(f) + 1 /\ j < i /\ j <= Len(f)
    BY <1>3, <2>1
  <2> QED BY <1>1, <1>5, <2>2
<1>13. \A j \in 1 .. Len(L) : N + 1 + j <= Len(g) => g[N + 1 + j] = L[j]
  <2> TAKE j \in 1 .. Len(L)
  <2> HAVE N + 1 + j <= Len(g)
  <2> DEFINE p == N + j
  <2>1. p \in 1 .. Len(f) /\ p <= Len(f) /\ ~ p < i /\ p + 1 = N + 1 + j /\ p = N + j
    BY <1>1, <1>3, <1>5
  <2> HIDE DEF p
  <2>2. up[p] = p + 1 /\ g[up[p]] = f[p]
    BY <1>6, <2>1
  <2>3. f[N + j] = L[j]
    BY <1>1, <2>1
  <2> QED BY <2>1, <2>2, <2>3
<1>14. Len(g) <= N + 1 + Len(L) /\ N + 1 \in Nat /\ N + 1 >= 2
  BY <1>1, <1>3, <1>5
<1>15. HeaderText(g, m, t, N + 1)
  BY <1>5, <1>11, <1>12, <1>13, <1>14 DEF HeaderText, L
<1> QED BY <1>15 DEF g

(* Whatever idlestat_store leaves in the file, comments, clusters without  *)
(* their cores or a lost end included, is the header of the machine.       *)
LEMMA StoredHeader ==
    ASSUME NEW t \in TopoType, NEW m, TreeOf(t, m, t.online), t.online \subseteq Cpus,
           NEW f \in Commented(t) \cup Flat(t) \cup CutShort(t)
    PROVE  \E N : HeaderText(f, AsRead(m), t, N)
<1> DEFINE am == AsRead(m)
           n == Len(t.clusters)
           Of(k) == {c \in t.online : m[c].physical = t.clusters[k].id}
           head == FirstLines
           last == LastLines(t)
           Parts(flat) == [k \in DOMAIN t.clusters |->
                              IF k \in flat THEN FlatLines(t.clusters[k])
                                            ELSE ClusterLines(t.clusters[k])]
           Lines == Seq(LineType)
<1>1. n \in Nat /\ DOMAIN t.clusters = 1 .. n
  BY DEF TopoType
<1>2. \A k \in 1 .. n : t.clusters[k] \in ClusterType
  BY ElementOfSeq DEF TopoType
<1>3. \A k \in 1 .. n : ClusterHolds(t.clusters[k], m, Of(k))
  BY <1>1 DEF TreeOf
<1>4. \A k \in 1 .. n : ClusterText(ClusterLines(t.clusters[k]), m, t.clusters[k].id, Of(k))
  BY <1>2, <1>3, ClusterLinesText
<1>5. \A k \in OwnCores(t) :
         k \in 1 .. n /\ ClusterText(FlatLines(t.clusters[k]), m, t.clusters[k].id, Of(k))
  <2> TAKE k \in OwnCores(t)
  <2>1. k \in 1 .. n /\ \A o \in DOMAIN t.clusters[k].cores :
           CpusOfCore(t.clusters[k].cores[o]) = {t.clusters[k].cores[o].id}
    BY <1>1 DEF OwnCores
  <2> QED BY <1>2, <1>3, <2>1, FlatLinesText
<1>6. ASSUME NEW flat \in SUBSET OwnCores(t)
      PROVE  LET F == FlattenSeq(Parts(flat))
             IN  /\ HeaderText(head \o F \o last, am, t, 2 + Len(F))
                 /\ Len(head \o F \o last) = 2 + Len(F) + Len(last)
                 /\ Len(F) \in Nat
  <2> DEFINE parts == Parts(flat)
  <2>1. \A k \in 1 .. n : parts[k] = IF k \in flat THEN FlatLines(t.clusters[k])
                                                   ELSE ClusterLines(t.clusters[k])
    BY <1>1
  <2>2. DOMAIN parts = 1 .. n /\ parts = [k \in 1 .. n |-> parts[k]]
    BY <1>1
  <2> HIDE DEF parts, Parts
  <2>3. \A k \in 1 .. n : ClusterText(parts[k], m, t.clusters[k].id, Of(k))
    <3> TAKE k \in 1 .. n
    <3>1. CASE k \in flat
      <4>1. parts[k] = FlatLines(t.clusters[k])
        BY <2>1, <3>1
      <4> QED BY <1>5, <3>1, <4>1
    <3>2. CASE k \notin flat
      <4>1. parts[k] = ClusterLines(t.clusters[k])
        BY <2>1, <3>2
      <4> QED BY <1>4, <4>1
    <3> QED BY <3>1, <3>2
  <2>4. \A k \in 1 .. n : parts[k] \in Lines
    BY <2>3 DEF ClusterText
  <2>5. parts \in Seq(Lines) /\ Len(parts) = n
    <3> HIDE DEF n, Lines
    <3>1. parts \in [1 .. n -> Lines]
      BY <2>2, <2>4
    <3> QED BY <1>1, <3>1, FunctionIsSeq
  <2>6. \A k \in 1 .. Len(parts) :
           ClusterText(parts[k], m, t.clusters[k].id,
                       {c \in t.online : m[c].physical = t.clusters[k].id})
    BY <2>3, <2>5
  <2>7. /\ HeaderText(head \o FlattenSeq(parts) \o last, am, t, 2 + Len(FlattenSeq(parts)))
        /\ Len(head \o FlattenSeq(parts) \o last)
             = 2 + Len(FlattenSeq(parts)) + Len(last)
        /\ Len(FlattenSeq(parts)) \in Nat
    <3>1. parts \in Seq(Seq(LineType)) /\ Len(parts) = Len(t.clusters)
      BY <2>5
    <3> QED BY <2>6, <3>1, ClustersAreHeader
  <2> QED BY <2>7 DEF parts
<1> DEFINE F == TopologyLines(t)
           W == Written(t)
<1>7. /\ HeaderText(W, am, t, 2 + Len(F))
      /\ Len(W) = 2 + Len(F) + Len(last) /\ Len(F) \in Nat
  <2>1. F = FlattenSeq(Parts({}))
    <3>1. Parts({}) = [k \in DOMAIN t.clusters |-> ClusterLines(t.clusters[k])]
      OBVIOUS
    <3> HIDE DEF Parts
    <3> QED BY <3>1 DEF TopologyLines
  <2>2. W = head \o F \o last
    BY DEF Written
  <2> HIDE DEF Parts, F, W, head, last
  <2>3. {} \in SUBSET OwnCores(t)
    OBVIOUS
  <2> QED BY <1>6, <2>1, <2>2, <2>3
<1> HIDE DEF F, W, am, last, head
<1>8. CASE f \in Commented(t)
  <2>1. PICK i \in 3 .. Len(F) + 3 : f = InsertAt(W, i, Plain("#"))
    BY <1>8 DEF Commented, F, W
  <2>2. i \in 3 .. 2 + Len(F) + 1
    BY <1>7, <2>1
  <2>3. HeaderText(f, am, t, 2 + Len(F) + 1)
    BY <1>7, <2>1, <2>2, HeaderCommented DEF last
  <2> QED BY <2>3 DEF am
<1>9. CASE f \in Flat(t)
  <2>1. PICK flat \in SUBSET OwnCores(t) : f = head \o FlattenSeq(Parts(flat)) \o last
    BY <1>9 DEF Flat, head, last
  <2> HIDE DEF Parts
  <2>2. HeaderText(f, am, t, 2 + Len(FlattenSeq(Parts(flat))))
    BY <1>6, <2>1
  <2> QED BY <2>2 DEF am
<1>10. CASE f \in CutShort(t)
  <2>1. PICK k \in 0 .. Len(W) - 1 : f = SubSeq(W, 1, k)
    BY <1>10 DEF CutShort, W
  <2>2. k \in 0 .. Len(W)
    <3>1. W \in Seq(LineType)
      BY <1>7 DEF HeaderText
    <3>2. Len(W) \in Nat
      BY <3>1
    <3> QED BY <3>2
  <2>3. HeaderText(f, am, t, 2 + Len(F))
    BY <1>7, <2>1, <2>2, HeaderCut
  <2> QED BY <2>3 DEF am
<1> QED BY <1>8, <1>9, <1>10

(* A CPU that is in the tree already changes nothing.                      *)
LEMMA AddedAgain ==
    ASSUME NEW t \in TopoType, NEW m, NEW cpus, TreeOf(t, m, cpus), NEW c \in cpus
    PROVE  AddTopoInfo(t, [physical |-> m[c].physical, core |-> m[c].core, cpu |-> c]) = t
<1> DEFINE p    == m[c].physical
           r    == m[c].core
           info == [physical |-> p, core |-> r, cpu |-> c]
           cl   == t.clusters
           k    == IndexOf(cl, p)
           o    == IndexOf(cl[k].cores, r)
<1>1. cl \in Seq(ClusterType)
  BY DEF TopoType
<1>2. p \in Ids(cl)
  BY DEF TreeOf
<1> HIDE DEF cl, p
<1>3. k \in DOMAIN cl /\ cl[k].id = p
  BY <1>2, IndexOfIs
<1> HIDE DEF k
<1>4. cl[k] \in ClusterType
  BY <1>1, <1>3, ElementOfSeq
<1>5. ClusterHolds(cl[k], m, {d \in cpus : m[d].physical = p})
  BY <1>3 DEF TreeOf, cl
<1>6. c \in {d \in cpus : m[d].physical = p}
  BY DEF p
<1>7. r \in Ids(cl[k].cores)
  BY <1>5, <1>6 DEF ClusterHolds
<1> HIDE DEF r
<1>8. o \in DOMAIN cl[k].cores /\ cl[k].cores[o].id = r
  BY <1>7, IndexOfIs
<1> HIDE DEF o
<1>9. c \in CpusOfCore(cl[k].cores[o])
  BY <1>5, <1>6, <1>8 DEF ClusterHolds, r
<1>10. /\ WithEntry(cl, [id |-> p, cores |-> <<>>, enum |-> <<>>]) = cl
       /\ WithEntry(cl[k].cores, [id |-> r, cpus |-> <<>>]) = cl[k].cores
       /\ WithEntry(cl[k].cores[o].cpus, [id |-> c]) = cl[k].cores[o].cpus
  BY <1>2, <1>7, <1>9 DEF WithEntry, CpusOfCore
<1>11. info.physical = p /\ info.core = r /\ info.cpu = c
  OBVIOUS
<1> HIDE DEF info
<1>12. AddTopoInfo(t, info) = [t EXCEPT !.clusters = [cl EXCEPT ![k].cores = cl[k].cores]]
  <2> DEFINE c1 == WithEntry(t.clusters, [id |-> info.physical, cores |-> <<>>, enum |-> <<>>])
             k1 == IndexOf(c1, info.physical)
             c2 == WithEntry(c1[k1].cores, [id |-> info.core, cpus |-> <<>>])
             o1 == IndexOf(c2, info.core)
             c3 == WithEntry(c2[o1].cpus, [id |-> info.cpu])
  <2>1. c1 = cl
    BY <1>10, <1>11, Zenon DEF cl
  <2>2. k1 = k
    BY <1>11, <2>1, Zenon DEF k
  <2>3. c2 = cl[k].cores
    BY <1>10, <1>11, <2>1, <2>2, Zenon
  <2>4. o1 = o
    BY <1>11, <2>3, Zenon DEF o
  <2>5. c3 = c2[o1].cpus
    BY <1>10, <1>11, <2>3, <2>4, Zenon
  <2>6. AddTopoInfo(t, info) = [t EXCEPT !.clusters = [c1 EXCEPT ![k1].cores = c2]]
    <3> DEFINE other == [clusters |-> [c1 EXCEPT
                              ![k1].cores = [c2 EXCEPT ![o1].cpus = c3],
                              ![k1].enum  = Append(@, info.cpu)],
                         online   |-> t.online \cup {info.cpu}]
    <3>1. AddTopoInfo(t, info) = IF c3 = c2[o1].cpus
                                 THEN [t EXCEPT !.clusters = [c1 EXCEPT ![k1].cores = c2]]
                                 ELSE other
      BY DEF AddTopoInfo
    <3> HIDE DEF other
    <3> QED BY <2>5, <3>1, Zenon
  <2> HIDE DEF c1, k1, c2, o1, c3
  <2> QED BY <2>1, <2>2, <2>3, <2>6
<1>13. [cl[k] EXCEPT !.cores = cl[k].cores] = cl[k]
  BY <1>4 DEF ClusterType
<1>14. [cl EXCEPT ![k].cores = cl[k].cores] = cl
  <2>1. [cl EXCEPT ![k].cores = cl[k].cores] = [cl EXCEPT ![k] = [cl[k] EXCEPT !.cores = cl[k].cores]]
    OBVIOUS
  <2>2. [cl EXCEPT ![k] = cl[k]] = cl
    BY <1>1, <1>3
  <2> QED BY <1>13, <2>1, <2>2
<1>15. [t EXCEPT !.clusters = cl] = t
  BY DEF TopoType, cl
<1>16. AddTopoInfo(t, info) = t
  BY <1>12, <1>14, <1>15
<1> QED BY <1>16 DEF info, p, r

-----------------------------------------------------------------------------
(* The inductive invariant.                                                *)

\* The CPUs in the lines before line p.
CpusAbove(f, p) == {f[x].n : x \in {y \in 3 .. p - 1 : f[y].kind = "cpu"}}

PlaceType == [level : {"clusters", "cluster"}, physical : Int, core : Int, ht : BOOLEAN]

\* Within a cluster the reader knows the last cluster line and the last core
\* line after it.
InCluster(f, p, pl) ==
    \E q \in 3 .. p - 1 :
       /\ f[q].kind = "cluster" /\ IdOf(f[q].n) = pl.physical /\ None(f, "cluster", q, p)
       /\ \/ ~pl.ht /\ None(f, "core", q, p)
          \/ /\ pl.ht
             /\ \E r \in q + 1 .. p - 1 :
                   f[r].kind = "core" /\ f[r].n = pl.core /\ None(f, "core", r, p)

\* Outside, no cluster has begun or the one before has ended.
BetweenClusters(f, p) ==
    \/ \A q \in 3 .. p - 1 : f[q].kind # "cluster"
    \/ f[p].kind \notin {"#", "core", "cpu"}

InTopology(N) ==
    /\ pos \in 3 .. Len(file) /\ pos <= N + 1
    /\ read \in TopoType /\ TreeOf(read, AsRead(machine), CpusAbove(file, pos))
    /\ place.level = "cluster" => InCluster(file, pos, place)
    /\ place.level = "clusters" => BetweenClusters(file, pos)
    /\ nextCpu = 0 /\ known = {}

\* A CPU the C-states of which are not known is the last so far, and the end
\* of the file has been reached.
InCstates(N) ==
    /\ read \in TopoType /\ TreeOf(read, AsRead(machine), written.online)
    /\ nextCpu \in 0 .. NrCpus /\ N < Len(file)
    /\ pos = N + 1 + LinesBelow(written, nextCpu)
    /\ \A c \in written.online \ known : c < nextCpu =>
          pos > Len(file) /\ \A d \in written.online : d < nextCpu => d <= c

\* A CPU's cluster comes back with a negative id.
NoLetter(t) == \E c \in t.online : IdOf(Letter(machine[c].physical)) < 0

\* Before idlestat's own file is written, and after.
BeforeStore ==
    /\ phase \in {"scan", "store", "failed", "aborted"}
    /\ file = <<>> /\ pos = 1 /\ read = EmptyTopo /\ nextCpu = 0 /\ known = {}
    /\ place.level = "clusters"

AfterStore(N) ==
    /\ phase \in {"magic", "native head", "topology", "cstates", "loaded", "failed",
                  "aborted"}
    /\ written = topo /\ HeaderText(file, AsRead(machine), written, N)
    /\ phase \in {"magic", "native head"} =>
          /\ pos = 1 /\ read = EmptyTopo /\ nextCpu = 0 /\ known = {}
          /\ place.level = "clusters"
    /\ phase = "native head" => Len(file) >= 1
    /\ phase \in {"topology", "cstates", "loaded"} => nrcpus = NrCpus
    /\ phase = "topology" => InTopology(N)
    /\ phase \in {"cstates", "loaded"} => InCstates(N)
    /\ phase = "loaded" => nextCpu = NrCpus
    /\ phase = "failed" => Len(file) < N + Len(LastLines(written))
    /\ phase = "aborted" => NoLetter(written)

\* A trace of someone else's.
FtraceFile ==
    /\ file \in FtraceHeaders
    /\ phase \in {"magic", "ftrace head", "scan", "loaded", "failed", "aborted"}

TraceCmdFile ==
    /\ file = <<Plain("version ="), Counted("cpus", NrCpus), Plain("record")>>
    /\ phase \in {"magic", "trace-cmd head", "scan", "loaded", "failed", "aborted"}

ForeignFile ==
    /\ \/ format = "ftrace" /\ FtraceFile
       \/ format = "trace-cmd" /\ TraceCmdFile
    /\ phase = "magic" => pos = 1
    /\ phase \in {"scan", "loaded"} => file[pos].kind = "record"

ScanInv ==
    /\ machine \in Machines /\ unread \in SUBSET Cpus
    /\ topo \in TopoType /\ TreeIsMachine
    /\ \A c \in CpusRead : NoNegativeId(DirInfo(c))

LoadInv ==
    /\ place \in PlaceType
    /\ \/ format = "idlestat" /\ BeforeStore
       \/ format = "idlestat" /\ \E N : AfterStore(N)
       \/ ForeignFile

Inv == ScanInv /\ LoadInv

\* The ids of a machine are numbers.
LEMMA MachineIs ==
    ASSUME NEW m \in Machines
    PROVE  \A c \in Cpus : m[c].physical \in Int /\ m[c].core \in Int
<1>1. m \in [Cpus -> [physical: Int, core: Int, online: {"yes", "no", "unknown"}]]
  BY TraceFileAssumption
<1> QED BY <1>1

\* The empty tree is the tree of no CPUs.
LEMMA NoTree ==
    ASSUME NEW m
    PROVE  EmptyTopo \in TopoType /\ TreeOf(EmptyTopo, m, {})
<1> DEFINE e == <<>>
<1>1. e \in Seq(ClusterType) /\ DOMAIN e = {}
  OBVIOUS
<1>2. EmptyTopo = [clusters |-> e, online |-> {}]
  BY DEF EmptyTopo
<1> HIDE DEF e
<1>3. EmptyTopo.clusters = e /\ EmptyTopo.online = {}
  BY <1>2
<1>4. EmptyTopo \in TopoType
  BY <1>1, <1>2 DEF TopoType
<1>5. InOrder(e) /\ Ids(e) = {}
  BY <1>1 DEF InOrder, Ids
<1>6. TreeOf(EmptyTopo, m, {})
  BY <1>1, <1>3, <1>5 DEF TreeOf
<1> QED BY <1>4, <1>6

\* Every step but the reading of a CPU's directory leaves the scan alone.
LEMMA OtherSteps ==
    ASSUME [Next]_vars, \A c \in Cpus : ~ReadCpuDir(c)
    PROVE  UNCHANGED <<machine, format, unread, topo>>
BY DEF Next, vars, scanVars, headerVars, ScanEnds, StoreHeader, CheckMagic, ReadHead,
       ReadFtraceComment, FtraceHeadEnds, ReadTopology, SkipComment, ReadCluster,
       ReadCore, ReadCpu, EndOfCluster, EndOfTopology, ReadCstates, KeepReader, Abort

\* Every step keeps the tree that of the directories read so far.
LEMMA ScanStep ==
    ASSUME ScanInv, [Next]_vars
    PROVE  ScanInv'
<1>1. CASE \E c \in Cpus : ReadCpuDir(c)
  <2>1. PICK c \in Cpus : ReadCpuDir(c)
    BY <1>1
  <2> DEFINE info == [physical |-> machine[c].physical,
                      core |-> machine[c].core, cpu |-> c]
  <2>2. /\ machine' = machine /\ c \in unread /\ unread' = unread \ {c}
        /\ topo' = IF machine[c].online = "yes" THEN AddTopoInfo(topo, info) ELSE topo
        /\ machine[c].online = "yes" => NoNegativeId(DirInfo(c))
    BY <2>1 DEF ReadCpuDir, DirInfo
  <2>3. /\ machine \in Machines /\ unread \in SUBSET Cpus /\ topo \in TopoType
        /\ TreeOf(topo, machine, CpusRead)
        /\ \A d \in CpusRead : NoNegativeId(DirInfo(d))
    BY DEF ScanInv, TreeIsMachine
  <2>6. \A d : DirInfo(d)' = DirInfo(d)
    BY <2>2 DEF DirInfo
  <2>4. CASE machine[c].online = "yes"
    <3>1. c \notin CpusRead /\ CpusRead' = CpusRead \cup {c}
      BY <2>2, <2>3, <2>4 DEF CpusRead
    <3>2. /\ machine[c].physical \in Int /\ machine[c].core \in Int
          /\ c \in Int
      <4>1. machine[c].physical \in Int /\ machine[c].core \in Int
        BY <2>2, <2>3, MachineIs
      <4>2. c \in Int
        BY CpusCounted DEF Cpus
      <4> QED BY <4>1, <4>2
    <3>3. /\ AddTopoInfo(topo, info) \in TopoType
          /\ TreeOf(AddTopoInfo(topo, info), machine, CpusRead \cup {c})
      BY <2>3, <3>1, <3>2, AddedToTree
    <3>4. topo' = AddTopoInfo(topo, info)
      BY <2>2, <2>4
    <3> HIDE DEF info
    <3>5. TreeIsMachine'
      BY <2>2, <3>1, <3>3, <3>4 DEF TreeIsMachine
    <3>6. (\A d \in CpusRead : NoNegativeId(DirInfo(d)))'
      BY <2>2, <2>3, <2>4, <2>6, <3>1 DEF NoNegativeId
    <3> QED BY <2>2, <2>3, <3>3, <3>4, <3>5, <3>6 DEF ScanInv
  <2>5. CASE machine[c].online # "yes"
    <3>1. CpusRead' = CpusRead /\ topo' = topo
      BY <2>2, <2>3, <2>5 DEF CpusRead
    <3>2. TreeIsMachine'
      BY <2>2, <2>3, <3>1 DEF TreeIsMachine
    <3>3. (\A d \in CpusRead : NoNegativeId(DirInfo(d)))'
      BY <2>3, <2>6, <3>1 DEF NoNegativeId
    <3> QED BY <2>2, <2>3, <3>1, <3>2, <3>3 DEF ScanInv
  <2> QED BY <2>4, <2>5
<1>2. CASE \A c \in Cpus : ~ReadCpuDir(c)
  <2>1. UNCHANGED <<machine, format, unread, topo>>
    BY <1>2, OtherSteps
  <2> QED BY <2>1 DEF ScanInv, TreeIsMachine, CpusRead, DirInfo, NoNegativeId
<1> QED BY <1>1, <1>2

\* Before the scan that tree is empty.
LEMMA ScanInit == Init => ScanInv
<1> SUFFICES ASSUME Init
             PROVE  ScanInv
  OBVIOUS
<1>1. machine \in Machines /\ unread = Cpus /\ topo = EmptyTopo
  BY DEF Init
<1>2. CpusRead = {}
  BY <1>1 DEF CpusRead
<1>3. topo \in TopoType /\ TreeOf(topo, machine, {})
  BY <1>1, NoTree
<1> QED BY <1>1, <1>2, <1>3 DEF ScanInv, TreeIsMachine

(* However readdir orders the directories of the CPUs, topo_folder_scan    *)
(* leaves every CPU that is on line in the tree once, under its cluster    *)
(* and core, every list in the order of its ids, and nothing else.         *)
THEOREM ScanIsRight == Spec => []TreeIsMachine
<1>1. ScanInv /\ [Next]_vars => ScanInv'
  BY ScanStep
<1>2. ScanInv => TreeIsMachine
  BY DEF ScanInv
<1> QED BY ScanInit, <1>1, <1>2, PTL DEF Spec

\* Before a file is written the loader is at its beginning.
LEMMA LoadInit == Init => LoadInv
<1> SUFFICES ASSUME Init
             PROVE  LoadInv
  OBVIOUS
<1>1. /\ format \in Formats /\ pos = 1 /\ read = EmptyTopo /\ nextCpu = 0 /\ known = {}
      /\ place = [level |-> "clusters", physical |-> 0, core |-> 0, ht |-> FALSE]
      /\ phase = IF format = "idlestat" THEN "scan" ELSE "magic"
  BY DEF Init
<1>2. place \in PlaceType /\ place.level = "clusters"
  BY <1>1 DEF PlaceType
<1>3. format = "idlestat" \/ format = "ftrace" \/ format = "trace-cmd"
  <2>1. Formats \subseteq {"idlestat", "ftrace", "trace-cmd"}
    BY TraceFileAssumption
  <2> QED BY <1>1, <2>1
<1>4. CASE format = "idlestat"
  <2>1. file = <<>>
    BY <1>4 DEF Init
  <2>2. BeforeStore
    BY <1>1, <1>2, <1>4, <2>1 DEF BeforeStore
  <2> QED BY <1>2, <1>4, <2>2 DEF LoadInv
<1>5. CASE format = "ftrace"
  <2>1. file \in FtraceHeaders
    BY <1>5 DEF Init
  <2>2. phase = "magic"
    BY <1>1, <1>5
  <2>3. ForeignFile
    BY <1>1, <1>5, <2>1, <2>2 DEF ForeignFile, FtraceFile
  <2> QED BY <1>2, <2>3 DEF LoadInv
<1>6. CASE format = "trace-cmd"
  <2>1. file = <<Plain("version ="), Counted("cpus", NrCpus), Plain("record")>>
    BY <1>6 DEF Init
  <2>2. phase = "magic"
    BY <1>1, <1>6
  <2>3. ForeignFile
    BY <1>1, <1>6, <2>1, <2>2 DEF ForeignFile, TraceCmdFile
  <2> QED BY <1>2, <2>3 DEF LoadInv
<1> QED BY <1>3, <1>4, <1>5, <1>6

\* In these phases idlestat's own file has not been written.
LEMMA NotStored ==
    ASSUME LoadInv, phase \in {"scan", "store"}
    PROVE  \/ format = "idlestat" /\ BeforeStore
           \/ ForeignFile /\ phase = "scan"
<1>1. ASSUME NEW N
      PROVE  ~AfterStore(N)
  BY DEF AfterStore
<1>2. ForeignFile => phase # "store"
  BY DEF ForeignFile, FtraceFile, TraceCmdFile
<1> QED BY <1>1, <1>2 DEF LoadInv

\* The scan of sysfs does not disturb the loader.
LEMMA ScanActions ==
    ASSUME LoadInv, (\E c \in Cpus : ReadCpuDir(c)) \/ ScanEnds
    PROVE  LoadInv'
<1>1. /\ phase = "scan" /\ UNCHANGED <<format, file, pos, nrcpus, headerVars>>
      /\ \/ phase' \in {"scan", "failed"}
         \/ phase' = IF format = "idlestat" THEN "store" ELSE "loaded"
  BY DEF ReadCpuDir, ScanEnds, Goto
<1>2. UNCHANGED <<place, read, nextCpu, known>> /\ place \in PlaceType
  BY <1>1 DEF headerVars, LoadInv
<1>3. CASE format = "idlestat" /\ BeforeStore
  <2>1. BeforeStore'
    BY <1>1, <1>2, <1>3 DEF BeforeStore
  <2> QED BY <1>1, <1>2, <1>3, <2>1 DEF LoadInv
<1>4. CASE ForeignFile
  <2>1. format # "idlestat"
    BY <1>4 DEF ForeignFile
  <2>2. phase' \in {"scan", "loaded", "failed"}
    BY <1>1, <2>1
  <2>3. ForeignFile'
    BY <1>1, <1>4, <2>2 DEF ForeignFile, FtraceFile, TraceCmdFile
  <2> QED BY <1>2, <2>3 DEF LoadInv
<1> QED BY <1>1, <1>3, <1>4, NotStored

\* idlestat_store writes the header of the tree, in one of the forms it may have.
LEMMA StoreAction ==
    ASSUME ScanInv, LoadInv, StoreHeader
    PROVE  LoadInv'
<1>1. /\ phase = "store" /\ phase' = "magic" /\ written' = topo
      /\ file' \in Commented(topo) \cup Flat(topo) \cup CutShort(topo)
      /\ UNCHANGED <<machine, format, topo, pos, place, read, nextCpu, known>>
  BY DEF StoreHeader, Goto, scanVars, headerVars
<1>2. format = "idlestat" /\ BeforeStore /\ place \in PlaceType
  BY <1>1, NotStored DEF LoadInv
<1>3. topo \in TopoType /\ TreeOf(topo, machine, topo.online) /\ topo.online \subseteq Cpus
  <2>1. topo.online = CpusRead /\ CpusRead \subseteq Cpus
    BY DEF ScanInv, TreeIsMachine, TreeOf, CpusRead
  <2> QED BY <2>1 DEF ScanInv, TreeIsMachine
<1>4. PICK N : HeaderText(file', AsRead(machine), topo, N)
  BY <1>1, <1>3, StoredHeader
<1>5. HeaderText(file', AsRead(machine'), written', N)
  BY <1>1, <1>4
<1>6. AfterStore(N)'
  BY <1>1, <1>2, <1>5 DEF AfterStore, BeforeStore
<1> QED BY <1>1, <1>2, <1>6 DEF LoadInv

\* In these phases it has.
LEMMA Stored ==
    ASSUME LoadInv, phase \in {"native head", "topology", "cstates"}
    PROVE  format = "idlestat" /\ \E N : AfterStore(N)
BY DEF LoadInv, BeforeStore, ForeignFile, FtraceFile, TraceCmdFile

\* What every header begins with, and where it can be read.
LEMMA HeaderLines ==
    ASSUME NEW f, NEW m, NEW t, NEW N, HeaderText(f, m, t, N)
    PROVE  /\ f \in Seq(LineType) /\ Len(f) \in Nat /\ N \in Nat /\ N >= 2
           /\ Len(LastLines(t)) \in Nat /\ Len(LastLines(t)) >= 1
           /\ Len(f) >= 1 => f[1].kind = "idlestat version"
           /\ Len(f) >= 2 => f[2].n = NrCpus
<1>1. /\ f \in Seq(LineType) /\ N \in Nat /\ N >= 2
      /\ \A i \in 1 .. 2 : i <= Len(f) => f[i] = FirstLines[i]
  BY DEF HeaderText
<1>2. Len(f) \in Nat
  BY <1>1
<1>3. Len(LastLines(t)) = LinesBelow(t, NrCpus) + 1 /\ LinesBelow(t, NrCpus) \in Nat
  BY LastLinesAre
<1>4. FirstLines[1].kind = "idlestat version" /\ FirstLines[2].n = NrCpus
  BY DEF FirstLines, Plain, Counted
<1>5. \A i \in 1 .. 2 : i <= Len(f) => f[i] = FirstLines[i]
  BY <1>1
<1>6. Len(f) >= 1 => f[1].kind = "idlestat version"
  <2>1. 1 \in 1 .. 2
    OBVIOUS
  <2> QED BY <1>2, <1>4, <1>5, <2>1
<1>7. Len(f) >= 2 => f[2].n = NrCpus
  <2>1. 2 \in 1 .. 2
    OBVIOUS
  <2> QED BY <1>2, <1>4, <1>5, <2>1
<1>8. f \in Seq(LineType) /\ N \in Nat /\ N >= 2
  BY <1>1
<1>9. Len(LastLines(t)) \in Nat /\ Len(LastLines(t)) >= 1
  BY <1>3
<1> QED BY <1>2, <1>6, <1>7, <1>8, <1>9, Zenon

\* The first line decides which loader reads on.
LEMMA MagicAction ==
    ASSUME LoadInv, CheckMagic
    PROVE  LoadInv'
<1>1. /\ phase = "magic"
      /\ phase' = (IF AtEnd THEN "failed"
                   ELSE CASE Line.kind = "idlestat version" -> "native head"
                          [] Line.kind = "# tracer"         -> "ftrace head"
                          [] Line.kind = "version ="        -> "trace-cmd head")
      /\ UNCHANGED <<machine, format, topo, written, file, pos, nrcpus,
                     place, read, nextCpu, known>>
  BY DEF CheckMagic, Goto, scanVars, headerVars
<1>2. place' \in PlaceType
  BY <1>1 DEF LoadInv
<1>3. ASSUME format = "idlestat", NEW N, AfterStore(N)
      PROVE  LoadInv'
  <2>1. pos = 1 /\ HeaderText(file, AsRead(machine), written, N)
    BY <1>1, <1>3 DEF AfterStore
  <2>2. /\ Len(file) \in Nat /\ N \in Nat /\ N >= 2
        /\ Len(LastLines(written)) \in Nat /\ Len(LastLines(written)) >= 1
        /\ Len(file) >= 1 => file[1].kind = "idlestat version"
    BY <2>1, HeaderLines
  <2>5. Len(file) \in Nat /\ (AtEnd <=> Len(file) = 0)
    <3>1. Len(file) \in Nat /\ pos = 1
      BY <2>1, <2>2
    <3>2. AtEnd <=> 1 > Len(file)
      BY <3>1 DEF AtEnd
    <3> QED BY <3>1, <3>2
  <2>3. CASE AtEnd
    <3>1. phase' = "failed" /\ Len(file) < N + Len(LastLines(written))
      BY <1>1, <2>2, <2>3, <2>5
    <3>2. AfterStore(N)'
      BY <1>1, <1>3, <3>1 DEF AfterStore
    <3> QED BY <1>1, <1>2, <1>3, <3>2 DEF LoadInv
  <2>4. CASE ~AtEnd
    <3>1. Len(file) >= 1 /\ Line.kind = "idlestat version"
      <4>1. Len(file) >= 1
        BY <2>4, <2>5
      <4> QED BY <2>1, <2>2, <4>1 DEF Line
    <3>2. phase' = "native head"
      BY <1>1, <2>4, <3>1
    <3>3. AfterStore(N)'
      BY <1>1, <1>3, <3>1, <3>2 DEF AfterStore
    <3> QED BY <1>1, <1>2, <1>3, <3>3 DEF LoadInv
  <2> QED BY <2>3, <2>4
<1>4. CASE ForeignFile
  <2>1. pos = 1
    BY <1>1, <1>4 DEF ForeignFile
  <2>2. CASE format = "ftrace" /\ FtraceFile
    <3>1. phase' \in {"ftrace head", "failed"}
      <4>1. CASE AtEnd
        BY <1>1, <4>1
      <4>2. CASE ~AtEnd
        <5>1. file # <<>>
          BY <2>1, <4>2 DEF AtEnd
        <5>2. file \in FtraceHeaders
          BY <2>2 DEF FtraceFile
        <5>3. file[1].kind = "# tracer"
          BY <5>1, <5>2, TraceFileAssumption
        <5>4. Line.kind = "# tracer"
          BY <2>1, <5>3 DEF Line
        <5> QED BY <1>1, <4>2, <5>4
      <4> QED BY <4>1, <4>2
    <3>2. ForeignFile'
      BY <1>1, <2>2, <3>1 DEF ForeignFile, FtraceFile
    <3> QED BY <1>2, <3>2 DEF LoadInv
  <2>3. CASE format = "trace-cmd" /\ TraceCmdFile
    <3>1. Line.kind = "version ="
      BY <2>1, <2>3 DEF TraceCmdFile, Line, Plain
    <3>2. phase' \in {"trace-cmd head", "failed"}
      BY <1>1, <3>1
    <3>3. ForeignFile'
      BY <1>1, <2>3, <3>2 DEF ForeignFile, TraceCmdFile
    <3> QED BY <1>2, <3>3 DEF LoadInv
  <2> QED BY <1>4, <2>2, <2>3 DEF ForeignFile
<1> QED BY <1>1, <1>3, <1>4 DEF LoadInv, BeforeStore

\* The second line gives the number of CPUs; the third is fetched.
LEMMA HeadAction ==
    ASSUME LoadInv, ReadHead
    PROVE  LoadInv'
<1>1. /\ phase \in {"native head", "trace-cmd head"}
      /\ UNCHANGED <<machine, format, topo, written, file, place, read, nextCpu, known>>
      /\ \/ Len(file) < 3 /\ phase' = "failed"
         \/ /\ ~ Len(file) < 3 /\ pos' = 3 /\ nrcpus' = file[2].n
            /\ phase' = IF phase = "native head" THEN "topology" ELSE "scan"
  BY DEF ReadHead, Goto, scanVars, headerVars
<1>2. place' \in PlaceType
  BY <1>1 DEF LoadInv
<1>3. CASE phase = "native head"
  <2>1. format = "idlestat" /\ \E N : AfterStore(N)
    BY <1>3, Stored
  <2>2. PICK N : AfterStore(N)
    BY <2>1
  <2>3. HeaderText(file, AsRead(machine), written, N)
    BY <2>2 DEF AfterStore
  <2>4. /\ Len(file) \in Nat /\ N \in Nat /\ N >= 2
        /\ Len(LastLines(written)) \in Nat /\ Len(LastLines(written)) >= 1
        /\ Len(file) >= 2 => file[2].n = NrCpus
    BY <2>3, HeaderLines
  <2>5. CASE Len(file) < 3 /\ phase' = "failed"
    <3>1. Len(file) < N + Len(LastLines(written))
      BY <2>4, <2>5
    <3>2. AfterStore(N)'
      BY <1>1, <2>2, <2>5, <3>1 DEF AfterStore
    <3> QED BY <1>1, <1>2, <2>1, <3>2 DEF LoadInv
  <2>6. CASE ~ Len(file) < 3 /\ pos' = 3 /\ nrcpus' = file[2].n /\ phase' = "topology"
    <3>1. pos' \in 3 .. Len(file) /\ pos' <= N + 1 /\ nrcpus' = NrCpus
      BY <2>4, <2>6
    <3>2. /\ read' = EmptyTopo /\ nextCpu' = 0 /\ known' = {}
          /\ place'.level = "clusters"
      BY <1>1, <1>3, <2>2 DEF AfterStore
    <3>3. CpusAbove(file, 3) = {} /\ BetweenClusters(file, 3)
      BY DEF CpusAbove, BetweenClusters
    <3>4. InTopology(N)'
      <4>1. read' \in TopoType /\ TreeOf(read', AsRead(machine'), CpusAbove(file', pos'))
        BY <1>1, <2>6, <3>2, <3>3, NoTree
      <4>2. BetweenClusters(file', pos')
        BY <1>1, <2>6, <3>3
      <4> QED BY <1>1, <3>1, <3>2, <4>1, <4>2 DEF InTopology
    <3>5. AfterStore(N)'
      BY <1>1, <2>2, <2>6, <3>1, <3>4 DEF AfterStore
    <3> QED BY <1>1, <1>2, <2>1, <3>5 DEF LoadInv
  <2> QED BY <1>1, <1>3, <2>5, <2>6
<1>4. CASE phase = "trace-cmd head"
  <2>1. format = "trace-cmd" /\ TraceCmdFile
    BY <1>4 DEF LoadInv, BeforeStore, AfterStore, ForeignFile, FtraceFile
  <2>2. \/ phase' = "failed"
        \/ phase' = "scan" /\ file'[pos'].kind = "record"
    <3>1. file[3].kind = "record"
      BY <2>1 DEF TraceCmdFile, Plain
    <3> QED BY <1>1, <1>4, <3>1
  <2>3. TraceCmdFile'
    BY <1>1, <2>1, <2>2 DEF TraceCmdFile
  <2>4. ForeignFile'
    BY <1>1, <2>1, <2>2, <2>3 DEF ForeignFile
  <2> QED BY <1>2, <2>4 DEF LoadInv
<1> QED BY <1>1, <1>3, <1>4

\* The header of a file of the kernel's ends at its first record.
LEMMA FtraceActions ==
    ASSUME LoadInv, ReadFtraceComment \/ FtraceHeadEnds
    PROVE  LoadInv'
<1>1. /\ phase = "ftrace head"
      /\ UNCHANGED <<format, file, place>>
      /\ \/ phase' \in {"ftrace head", "failed"}
         \/ phase' = "scan" /\ Line.kind = "record" /\ pos' = pos
  BY DEF ReadFtraceComment, FtraceHeadEnds, FetchLine, Goto, headerVars
<1>2. place' \in PlaceType
  BY <1>1 DEF LoadInv
<1>3. format = "ftrace" /\ FtraceFile
  BY <1>1 DEF LoadInv, BeforeStore, AfterStore, ForeignFile, TraceCmdFile
<1>4. FtraceFile'
  BY <1>1, <1>3 DEF FtraceFile
<1>5. ForeignFile'
  BY <1>1, <1>3, <1>4 DEF ForeignFile, Line
<1> QED BY <1>2, <1>5 DEF LoadInv

-----------------------------------------------------------------------------
(* The reader's steps through the topology.                                *)

\* The state in which it takes them.
LEMMA InTopologyFacts ==
    ASSUME ScanInv, LoadInv, phase = "topology", NEW N, AfterStore(N)
    PROVE  /\ HeaderText(file, AsRead(machine), written, N) /\ InTopology(N)
           /\ place \in PlaceType /\ nrcpus = NrCpus
           /\ Len(file) \in Nat /\ N \in Nat /\ N >= 2
           /\ Len(LastLines(written)) \in Nat /\ Len(LastLines(written)) >= 1
           /\ pos \in Nat /\ pos >= 3 /\ pos <= Len(file) /\ pos <= N + 1
           /\ written.online \subseteq Cpus
<1>1. HeaderText(file, AsRead(machine), written, N) /\ InTopology(N) /\ nrcpus = NrCpus
  BY DEF AfterStore
<1>2. place \in PlaceType
  BY DEF LoadInv
<1>3. /\ Len(file) \in Nat /\ N \in Nat /\ N >= 2
      /\ Len(LastLines(written)) \in Nat /\ Len(LastLines(written)) >= 1
  BY <1>1, HeaderLines
<1>4. pos \in 3 .. Len(file) /\ pos <= N + 1
  BY <1>1 DEF InTopology
<1>5. pos \in Nat /\ pos >= 3 /\ pos <= Len(file)
  BY <1>3, <1>4
<1>6. written.online \subseteq Cpus
  BY DEF AfterStore, ScanInv, TreeIsMachine, TreeOf, CpusRead
<1> QED BY <1>1, <1>2, <1>3, <1>4, <1>5, <1>6

\* Behind the topology there is no line of it.
LEMMA TopologyEnds ==
    ASSUME NEW f, NEW m, NEW t, NEW N, HeaderText(f, m, t, N), N + 1 <= Len(f)
    PROVE  f[N + 1].kind \in {"cpuid", "states", "record"}
<1> DEFINE L == LastLines(t)
           n == LinesBelow(t, NrCpus)
<1>1. /\ n \in Nat /\ Len(L) = n + 1 /\ L[n + 1].kind = "record"
      /\ \A i \in 1 .. n : L[i].kind \in {"cpuid", "states"}
  BY LastLinesAre
<1>2. 1 \in 1 .. Len(L)
  BY <1>1
<1>3. f[N + 1] = L[1]
  BY <1>2 DEF HeaderText
<1> HIDE DEF L, n
<1>4. CASE n = 0
  BY <1>1, <1>3, <1>4
<1>5. CASE n # 0
  <2>1. 1 \in 1 .. n
    BY <1>1, <1>5
  <2> QED BY <1>1, <1>3, <2>1
<1> QED BY <1>4, <1>5

\* One line more, of another kind.
LEMMA NoneExtends ==
    ASSUME NEW f, NEW kind, NEW q \in Int, NEW p \in Int, None(f, kind, q, p),
           f[p].kind # kind
    PROVE  None(f, kind, q, p + 1)
<1> SUFFICES ASSUME NEW x \in q + 1 .. p + 1 - 1
             PROVE  f[x].kind # kind
  BY DEF None
<1>1. x = p \/ x \in q + 1 .. p - 1
  OBVIOUS
<1> QED BY <1>1 DEF None

\* Right behind a line there is nothing in between.
LEMMA NoneYet ==
    ASSUME NEW f, NEW kind, NEW p \in Int
    PROVE  None(f, kind, p, p + 1)
<1> SUFFICES ASSUME NEW x \in p + 1 .. p + 1 - 1
             PROVE  FALSE
  BY DEF None
<1> QED OBVIOUS

\* The last line of a kind is the last.
LEMMA LastIsUnique ==
    ASSUME NEW f, NEW kind, NEW p \in Int,
           NEW a \in Int, NEW b \in Int, a < p, b < p,
           f[a].kind = kind, None(f, kind, a, p), f[b].kind = kind, None(f, kind, b, p)
    PROVE  a = b
<1>1. ~ a < b
  <2>1. a < b => b \in a + 1 .. p - 1
    OBVIOUS
  <2> QED BY <2>1 DEF None
<1>2. ~ b < a
  <2>1. b < a => a \in b + 1 .. p - 1
    OBVIOUS
  <2> QED BY <2>1 DEF None
<1> QED BY <1>1, <1>2

\* The CPUs above the next line are those above this one and this line's own.
LEMMA CpusAboveNext ==
    ASSUME NEW f, NEW p \in Nat, p >= 3
    PROVE  CpusAbove(f, p + 1) = IF f[p].kind = "cpu" THEN CpusAbove(f, p) \cup {f[p].n}
                                                      ELSE CpusAbove(f, p)
<1> DEFINE lines(q) == {y \in 3 .. q - 1 : f[y].kind = "cpu"}
<1>1. 3 .. p + 1 - 1 = (3 .. p - 1) \cup {p}
  OBVIOUS
<1>2. lines(p + 1) = IF f[p].kind = "cpu" THEN lines(p) \cup {p} ELSE lines(p)
  BY <1>1
<1> QED BY <1>2 DEF CpusAbove

\* A line of the topology is within it.
LEMMA WithinTopology ==
    ASSUME ScanInv, LoadInv, phase = "topology", NEW N, AfterStore(N),
           Line.kind \in {"#", "cluster", "core", "cpu"}
    PROVE  pos <= N
<1>1. /\ HeaderText(file, AsRead(machine), written, N)
      /\ Len(file) \in Nat /\ N \in Nat
      /\ pos \in Nat /\ pos <= Len(file) /\ pos <= N + 1
  BY InTopologyFacts
<1>2. pos # N + 1
  <2> SUFFICES ASSUME pos = N + 1
               PROVE  FALSE
    OBVIOUS
  <2>1. N + 1 <= Len(file)
    BY <1>1
  <2>2. file[N + 1].kind \in {"cpuid", "states", "record"}
    BY <1>1, <2>1, TopologyEnds
  <2> QED BY <2>2 DEF Line
<1> QED BY <1>1, <1>2

\* It is left behind, or is the last of the file.
LEMMA FetchInTopology ==
    ASSUME ScanInv, LoadInv, phase = "topology", NEW N, AfterStore(N),
           Line.kind \in {"#", "cluster", "core", "cpu"}, FetchLine,
           UNCHANGED <<machine, format, topo, written, file, nrcpus, nextCpu, known>>,
           place' \in PlaceType,
           pos' = pos + 1 => InTopology(N)'
    PROVE  LoadInv'
<1>1. /\ HeaderText(file, AsRead(machine), written, N) /\ nrcpus = NrCpus
      /\ Len(file) \in Nat /\ N \in Nat
      /\ Len(LastLines(written)) \in Nat /\ Len(LastLines(written)) >= 1
      /\ pos \in Nat /\ pos <= Len(file) /\ pos <= N + 1
  BY InTopologyFacts
<1>2. pos <= N
  BY WithinTopology
<1>3. \/ phase' = "topology"
      \/ phase' = "failed" /\ ~ pos < Len(file)
  BY DEF FetchLine, Goto
<1>7. phase' = "topology" => InTopology(N)'
  BY DEF FetchLine, Goto
<1>4. phase' = "failed" => Len(file) < N + Len(LastLines(written))
  BY <1>1, <1>2, <1>3
<1>5. AfterStore(N)'
  BY <1>1, <1>3, <1>4, <1>7 DEF AfterStore
<1>6. format = "idlestat"
  BY Stored
<1> QED BY <1>5, <1>6 DEF LoadInv

\* Where the reader is after it.
LEMMA NextLine ==
    ASSUME ScanInv, LoadInv, phase = "topology", NEW N, AfterStore(N),
           Line.kind \in {"#", "cluster", "core", "cpu"}, FetchLine, pos' = pos + 1
    PROVE  /\ pos + 1 \in 3 .. Len(file) /\ pos + 1 <= N + 1 /\ pos \in 3 .. N
           /\ CpusAbove(file, pos + 1) =
                 IF Line.kind = "cpu" THEN CpusAbove(file, pos) \cup {Line.n}
                                      ELSE CpusAbove(file, pos)
<1>1. /\ Len(file) \in Nat /\ N \in Nat
      /\ pos \in Nat /\ pos >= 3
  BY InTopologyFacts
<1>2. pos <= N
  BY WithinTopology
<1>3. pos < Len(file)
  BY <1>1 DEF FetchLine
<1>4. CpusAbove(file, pos + 1) =
         IF Line.kind = "cpu" THEN CpusAbove(file, pos) \cup {Line.n}
                              ELSE CpusAbove(file, pos)
  BY <1>1, CpusAboveNext DEF Line
<1> QED BY <1>1, <1>2, <1>3, <1>4

\* Inside a cluster, lines that are not of its structure change nothing.
LEMMA InClusterExtends ==
    ASSUME NEW f, NEW p \in Int, NEW pl, InCluster(f, p, pl),
           f[p].kind \notin {"cluster", "core"}
    PROVE  InCluster(f, p + 1, pl)
<1>1. PICK q \in 3 .. p - 1 :
         /\ f[q].kind = "cluster" /\ IdOf(f[q].n) = pl.physical /\ None(f, "cluster", q, p)
         /\ \/ ~pl.ht /\ None(f, "core", q, p)
            \/ /\ pl.ht
               /\ \E r \in q + 1 .. p - 1 :
                     f[r].kind = "core" /\ f[r].n = pl.core /\ None(f, "core", r, p)
  BY DEF InCluster
<1>2. q \in 3 .. p + 1 - 1 /\ None(f, "cluster", q, p + 1)
  BY <1>1, NoneExtends
<1>3. CASE ~pl.ht /\ None(f, "core", q, p)
  <2>1. None(f, "core", q, p + 1)
    BY <1>3, NoneExtends
  <2> QED BY <1>1, <1>2, <1>3, <2>1 DEF InCluster
<1>4. CASE /\ pl.ht
           /\ \E r \in q + 1 .. p - 1 :
                 f[r].kind = "core" /\ f[r].n = pl.core /\ None(f, "core", r, p)
  <2>1. PICK r \in q + 1 .. p - 1 :
           f[r].kind = "core" /\ f[r].n = pl.core /\ None(f, "core", r, p)
    BY <1>4
  <2>2. r \in q + 1 .. p + 1 - 1 /\ None(f, "core", r, p + 1)
    BY <2>1, NoneExtends
  <2> QED BY <1>1, <1>2, <1>4, <2>1, <2>2 DEF InCluster
<1> QED BY <1>1, <1>3, <1>4

\* A comment is passed over.
LEMMA CommentAction ==
    ASSUME ScanInv, LoadInv, SkipComment
    PROVE  LoadInv'
<1>1. /\ phase = "topology" /\ Line.kind = "#" /\ FetchLine
      /\ UNCHANGED <<machine, format, topo, written, file, nrcpus, nextCpu, known,
                     place, read>>
  BY DEF SkipComment, KeepReader, scanVars
<1>2. PICK N : AfterStore(N)
  BY <1>1, Stored
<1>3. InTopology(N) /\ place \in PlaceType /\ pos \in Nat
  BY <1>1, <1>2, InTopologyFacts
<1>4. ASSUME pos' = pos + 1
      PROVE  InTopology(N)'
  <2>1. /\ pos + 1 \in 3 .. Len(file) /\ pos + 1 <= N + 1 /\ pos \in 3 .. N
        /\ CpusAbove(file, pos + 1) = CpusAbove(file, pos)
    BY <1>1, <1>2, <1>4, NextLine
  <2>2. read \in TopoType /\ TreeOf(read, AsRead(machine), CpusAbove(file, pos + 1))
    BY <1>3, <2>1 DEF InTopology
  <2>3. place.level = "cluster" => InCluster(file, pos + 1, place)
    BY <1>1, <1>3, InClusterExtends DEF InTopology, Line
  <2>4. place.level = "clusters" => BetweenClusters(file, pos + 1)
    <3> SUFFICES ASSUME place.level = "clusters"
                 PROVE  BetweenClusters(file, pos + 1)
      OBVIOUS
    <3>1. \A q \in 3 .. pos - 1 : file[q].kind # "cluster"
      BY <1>1, <1>3 DEF InTopology, BetweenClusters, Line
    <3>3. file[pos].kind # "cluster"
      BY <1>1 DEF Line
    <3> DEFINE p == pos + 1
    <3>4. \A q \in 3 .. p - 1 : file[q].kind # "cluster"
      <4> TAKE q \in 3 .. p - 1
      <4>1. q = pos \/ q \in 3 .. pos - 1
        BY <1>3
      <4> QED BY <3>1, <3>3, <4>1, Zenon
    <3> HIDE DEF p
    <3>5. BetweenClusters(file, p)
      BY <3>4 DEF BetweenClusters
    <3> QED BY <3>5 DEF p
  <2>5. nextCpu = 0 /\ known = {}
    BY <1>3 DEF InTopology
  <2> QED BY <1>1, <1>4, <2>1, <2>2, <2>3, <2>4, <2>5 DEF InTopology
<1> QED BY <1>1, <1>2, <1>3, <1>4, FetchInTopology

\* A cluster's line opens the inner loop.
LEMMA ClusterAction ==
    ASSUME ScanInv, LoadInv, ReadCluster
    PROVE  LoadInv'
<1>1. /\ phase = "topology" /\ Line.kind = "cluster" /\ FetchLine
      /\ place' = [place EXCEPT !.level = "cluster", !.physical = IdOf(Line.n),
                                !.ht = FALSE]
      /\ UNCHANGED <<machine, format, topo, written, file, nrcpus, nextCpu, known,
                     read>>
  BY DEF ReadCluster, KeepReader, scanVars
<1>2. PICK N : AfterStore(N)
  BY <1>1, Stored
<1>3. /\ InTopology(N) /\ place \in PlaceType /\ pos \in Nat /\ pos <= Len(file)
      /\ pos >= 3 /\ HeaderText(file, AsRead(machine), written, N)
      /\ Len(file) \in Nat
  BY <1>1, <1>2, InTopologyFacts
<1>4. IdOf(Line.n) \in Int
  <2>1. file \in Seq(LineType)
    BY <1>3 DEF HeaderText
  <2>2. file[pos] \in LineType
    BY <1>3, <2>1
  <2> QED BY <2>2 DEF LineType, Line, IdOf
<1>5. place' \in PlaceType
  BY <1>1, <1>3, <1>4 DEF PlaceType
<1>6. place'.level = "cluster" /\ place'.physical = IdOf(Line.n) /\ place'.ht = FALSE
  BY <1>1, <1>3 DEF PlaceType
<1>7. ASSUME pos' = pos + 1
      PROVE  InTopology(N)'
  <2>1. /\ pos + 1 \in 3 .. Len(file) /\ pos + 1 <= N + 1 /\ pos \in 3 .. N
        /\ CpusAbove(file, pos + 1) = CpusAbove(file, pos)
    BY <1>1, <1>2, <1>7, NextLine
  <2>2. read \in TopoType /\ TreeOf(read, AsRead(machine), CpusAbove(file, pos + 1))
    BY <1>3, <2>1 DEF InTopology
  <2>3. InCluster(file, pos + 1, place')
    <3>1. pos \in 3 .. pos + 1 - 1
      BY <1>3
    <3>2. None(file, "cluster", pos, pos + 1) /\ None(file, "core", pos, pos + 1)
      BY <1>3, NoneYet
    <3>3. file[pos].kind = "cluster" /\ IdOf(file[pos].n) = place'.physical
      BY <1>1, <1>6 DEF Line
    <3> QED BY <1>6, <3>1, <3>2, <3>3 DEF InCluster
  <2>4. nextCpu = 0 /\ known = {}
    BY <1>3 DEF InTopology
  <2> QED BY <1>1, <1>6, <1>7, <2>1, <2>2, <2>3, <2>4 DEF InTopology
<1> QED BY <1>1, <1>2, <1>5, <1>7, FetchInTopology

\* A core's line is remembered for the CPUs under it.
LEMMA CoreAction ==
    ASSUME ScanInv, LoadInv, ReadCore
    PROVE  LoadInv'
<1>1. /\ phase = "topology" /\ place.level = "cluster" /\ Line.kind = "core" /\ FetchLine
      /\ place' = [place EXCEPT !.core = Line.n, !.ht = TRUE]
      /\ UNCHANGED <<machine, format, topo, written, file, nrcpus, nextCpu, known,
                     read>>
  BY DEF ReadCore, KeepReader, scanVars
<1>2. PICK N : AfterStore(N)
  BY <1>1, Stored
<1>3. /\ InTopology(N) /\ place \in PlaceType /\ pos \in Nat /\ pos <= Len(file)
      /\ pos >= 3 /\ HeaderText(file, AsRead(machine), written, N)
      /\ Len(file) \in Nat
  BY <1>1, <1>2, InTopologyFacts
<1>4. Line.n \in Int
  <2>1. file \in Seq(LineType)
    BY <1>3 DEF HeaderText
  <2>2. file[pos] \in LineType
    BY <1>3, <2>1
  <2> QED BY <2>2 DEF LineType, Line
<1>5. place' \in PlaceType
  BY <1>1, <1>3, <1>4 DEF PlaceType
<1>6. /\ place'.level = "cluster" /\ place'.physical = place.physical
      /\ place'.core = Line.n /\ place'.ht = TRUE
  BY <1>1, <1>3 DEF PlaceType
<1>7. ASSUME pos' = pos + 1
      PROVE  InTopology(N)'
  <2>1. /\ pos + 1 \in 3 .. Len(file) /\ pos + 1 <= N + 1 /\ pos \in 3 .. N
        /\ CpusAbove(file, pos + 1) = CpusAbove(file, pos)
    BY <1>1, <1>2, <1>7, NextLine
  <2>2. read \in TopoType /\ TreeOf(read, AsRead(machine), CpusAbove(file, pos + 1))
    BY <1>3, <2>1 DEF InTopology
  <2>3. InCluster(file, pos + 1, place')
    <3>1. PICK q \in 3 .. pos - 1 :
             /\ file[q].kind = "cluster" /\ IdOf(file[q].n) = place.physical
             /\ None(file, "cluster", q, pos)
      BY <1>1, <1>3 DEF InTopology, InCluster
    <3>2. q \in 3 .. pos + 1 - 1 /\ pos \in q + 1 .. pos + 1 - 1 /\ q \in Int
      BY <1>3
    <3>3. file[pos].kind = "core" /\ file[pos].n = place'.core
      BY <1>1, <1>6 DEF Line
    <3>4. None(file, "cluster", q, pos + 1)
      BY <1>3, <3>1, <3>2, <3>3, NoneExtends
    <3>5. None(file, "core", pos, pos + 1)
      BY <1>3, NoneYet
    <3> QED BY <1>6, <3>1, <3>2, <3>3, <3>4, <3>5 DEF InCluster
  <2>4. nextCpu = 0 /\ known = {}
    BY <1>3 DEF InTopology
  <2> QED BY <1>1, <1>6, <1>7, <2>1, <2>2, <2>3, <2>4 DEF InTopology
<1> QED BY <1>1, <1>2, <1>5, <1>7, FetchInTopology

(* The core under which the reader puts a CPU is the machine's.            *)
LEMMA RightPlace ==
    ASSUME NEW f, NEW p \in Int, NEW pl \in PlaceType, InCluster(f, p, pl),
           NEW m, NEW c, Placed(f, p, m, c)
    PROVE  /\ pl.physical = m[c].physical
           /\ m[c].core = IF pl.ht THEN pl.core ELSE c
<1>1. PICK q \in 3 .. p - 1 :
         /\ f[q].kind = "cluster" /\ IdOf(f[q].n) = pl.physical /\ None(f, "cluster", q, p)
         /\ \/ ~pl.ht /\ None(f, "core", q, p)
            \/ /\ pl.ht
               /\ \E r \in q + 1 .. p - 1 :
                     f[r].kind = "core" /\ f[r].n = pl.core /\ None(f, "core", r, p)
  BY DEF InCluster
<1>2. PICK s \in 3 .. p - 1 :
         /\ f[s].kind = "cluster" /\ IdOf(f[s].n) = m[c].physical
         /\ None(f, "cluster", s, p) /\ UnderCore(f, s, p, m[c].core, c)
  BY DEF Placed
<1>3. q = s
  <2>1. q \in Int /\ s \in Int /\ q < p /\ s < p
    OBVIOUS
  <2> QED BY <1>1, <1>2, <2>1, LastIsUnique
<1>4. pl.physical = m[c].physical
  BY <1>1, <1>2, <1>3
<1>5. pl.ht \in BOOLEAN
  BY DEF PlaceType
<1>6. CASE ~pl.ht
  <2>1. None(f, "core", q, p)
    BY <1>1, <1>6
  <2>2. \A r \in q + 1 .. p - 1 : f[r].kind # "core"
    BY <2>1 DEF None
  <2>3. m[c].core = c
    BY <1>2, <1>3, <2>2 DEF UnderCore
  <2> QED BY <1>4, <1>6, <2>3
<1>7. CASE pl.ht
  <2>1. PICK r \in q + 1 .. p - 1 :
           f[r].kind = "core" /\ f[r].n = pl.core /\ None(f, "core", r, p)
    BY <1>1, <1>7
  <2>2. ~None(f, "core", s, p)
    BY <1>3, <2>1 DEF None
  <2>3. PICK o \in s + 1 .. p - 1 :
           f[o].kind = "core" /\ f[o].n = m[c].core /\ None(f, "core", o, p)
    BY <1>2, <2>2 DEF UnderCore
  <2>4. r = o
    <3>1. r \in Int /\ o \in Int /\ r < p /\ o < p
      OBVIOUS
    <3> QED BY <2>1, <2>3, <3>1, LastIsUnique
  <2> QED BY <1>4, <1>7, <2>1, <2>3, <2>4
<1> QED BY <1>5, <1>6, <1>7

\* A CPU's line adds it to the tree, under the core and cluster it stands under.
LEMMA CpuAction ==
    ASSUME ScanInv, LoadInv, ReadCpu
    PROVE  LoadInv'
<1> DEFINE c == Line.n
           am == AsRead(machine)
           new == AddTopoInfo(read, LineInfo)
<1>1. /\ phase = "topology" /\ place.level = "cluster" /\ Line.kind = "cpu" /\ FetchLine
      /\ place' = [place EXCEPT !.core = IF place.ht THEN @ ELSE c]
      /\ read' = new
      /\ UNCHANGED <<machine, format, topo, written, file, nrcpus, nextCpu, known>>
  BY DEF ReadCpu, AtCpuLine, LineInfo, KeepReader, scanVars
<1> HIDE DEF new
<1>2. PICK N : AfterStore(N)
  BY <1>1, Stored
<1>3. /\ InTopology(N) /\ place \in PlaceType /\ pos \in Nat /\ pos <= Len(file)
      /\ pos >= 3 /\ HeaderText(file, am, written, N) /\ Len(file) \in Nat
      /\ written.online \subseteq Cpus /\ N \in Nat
  BY <1>1, <1>2, InTopologyFacts
<1>4. c \in written.online /\ Placed(file, pos, am, c)
  <2>1. pos <= N
    BY <1>1, <1>2, WithinTopology
  <2>2. pos \in 3 .. N
    BY <1>3, <2>1
  <2>3. TopologyText(file, am, written.online, N)
    BY <1>3 DEF HeaderText
  <2> HIDE DEF am
  <2> QED BY <1>1, <1>3, <2>2, <2>3 DEF TopologyText, Line
<1>5. c \in Cpus /\ c \in Int
  BY <1>3, <1>4, CpusCounted DEF Cpus
<1>6. InCluster(file, pos, place)
  BY <1>1, <1>3 DEF InTopology
<1>7. /\ place.physical = am[c].physical
      /\ am[c].core = IF place.ht THEN place.core ELSE c
  <2> HIDE DEF am, c
  <2>1. pos \in Int
    BY <1>3
  <2> QED BY <1>3, <1>4, <1>6, <2>1, RightPlace
<1>8. /\ place' \in PlaceType /\ place'.level = "cluster"
      /\ place'.physical = place.physical /\ place'.ht = place.ht
      /\ place'.core = IF place.ht THEN place.core ELSE c
  BY <1>1, <1>3, <1>5 DEF PlaceType
<1>9. new = AddTopoInfo(read, [physical |-> am[c].physical, core |-> am[c].core, cpu |-> c])
  BY <1>7 DEF new, LineInfo
<1>10. am[c].physical \in Int /\ am[c].core \in Int
  <2>1. machine \in Machines
    BY DEF ScanInv
  <2>2. machine[c].physical \in Int /\ machine[c].core \in Int
    BY <1>5, <2>1, MachineIs
  <2>3. am[c] = [physical |-> IdOf(Letter(machine[c].physical)), core |-> machine[c].core]
    BY <1>5 DEF AsRead
  <2>4. IdOf(Letter(machine[c].physical)) \in Int
    BY <2>2, LetterIsRead
  <2> QED BY <2>2, <2>3, <2>4
<1>11. read \in TopoType /\ TreeOf(read, am, CpusAbove(file, pos))
  BY <1>3 DEF InTopology
<1>12. new \in TopoType /\ TreeOf(new, am, CpusAbove(file, pos) \cup {c})
  <2> HIDE DEF am, c
  <2>1. CASE c \in CpusAbove(file, pos)
    <3>1. new = read
      BY <1>9, <1>11, <2>1, AddedAgain
    <3>2. CpusAbove(file, pos) \cup {c} = CpusAbove(file, pos)
      BY <2>1
    <3> QED BY <1>11, <3>1, <3>2
  <2>2. CASE c \notin CpusAbove(file, pos)
    BY <1>5, <1>9, <1>10, <1>11, <2>2, AddedToTree
  <2> QED BY <2>1, <2>2
<1>13. ASSUME pos' = pos + 1
       PROVE  InTopology(N)'
  <2>1. /\ pos + 1 \in 3 .. Len(file) /\ pos + 1 <= N + 1 /\ pos \in 3 .. N
        /\ CpusAbove(file, pos + 1) = CpusAbove(file, pos) \cup {c}
    BY <1>1, <1>2, <1>13, NextLine
  <2>2. InCluster(file, pos + 1, place')
    <3>1. InCluster(file, pos + 1, place)
      BY <1>1, <1>3, <1>6, InClusterExtends DEF Line
    <3> QED BY <1>3, <1>8, <3>1 DEF InCluster, PlaceType
  <2>3. nextCpu = 0 /\ known = {}
    BY <1>3 DEF InTopology
  <2> HIDE DEF c
  <2> QED BY <1>1, <1>8, <1>12, <1>13, <2>1, <2>2, <2>3 DEF InTopology
<1> HIDE DEF c, am
<1> QED BY <1>1, <1>2, <1>8, <1>13, FetchInTopology

\* add_topo_info's assertions fail for a file of idlestat's own only when a
\* cluster has no letter: the ids it was written from passed them before.
LEMMA AbortAction ==
    ASSUME ScanInv, LoadInv, Abort
    PROVE  LoadInv'
<1> DEFINE am == AsRead(machine)
<1>1. /\ phase' = "aborted"
      /\ UNCHANGED <<machine, format, topo, written, file, pos, place, read, nextCpu, known>>
      /\ phase = "scan" \/ (AtCpuLine /\ ~NoNegativeId(LineInfo))
  BY DEF Abort, Goto, scanVars, headerVars
<1>2. place' \in PlaceType
  BY <1>1 DEF LoadInv
<1>3. CASE phase = "scan"
  <2>1. CASE format = "idlestat" /\ BeforeStore
    <3>1. BeforeStore'
      BY <1>1, <2>1 DEF BeforeStore
    <3> QED BY <1>1, <1>2, <2>1, <3>1 DEF LoadInv
  <2>2. CASE ForeignFile
    <3>1. ForeignFile'
      BY <1>1, <2>2 DEF ForeignFile, FtraceFile, TraceCmdFile
    <3> QED BY <1>2, <3>1 DEF LoadInv
  <2> QED BY <1>3, <2>1, <2>2, NotStored
<1>4. CASE AtCpuLine /\ ~NoNegativeId(LineInfo)
  <2> DEFINE c == Line.n
  <2>1. phase = "topology" /\ place.level = "cluster" /\ Line.kind = "cpu"
    BY <1>4 DEF AtCpuLine
  <2>2. PICK N : AfterStore(N)
    BY <2>1, Stored
  <2>3. format = "idlestat"
    BY <2>1, Stored
  <2>4. /\ InTopology(N) /\ place \in PlaceType /\ pos \in Nat /\ pos >= 3
        /\ pos <= Len(file) /\ Len(file) \in Nat
        /\ HeaderText(file, am, written, N) /\ N \in Nat /\ written.online \subseteq Cpus
    BY <2>1, <2>2, InTopologyFacts
  <2>5. pos <= N
    BY <2>1, <2>2, WithinTopology
  <2>6. c \in written.online /\ Placed(file, pos, am, c)
    <3>1. pos \in 3 .. N
      BY <2>4, <2>5
    <3>2. TopologyText(file, am, written.online, N)
      BY <2>4 DEF HeaderText
    <3> HIDE DEF am
    <3> QED BY <2>1, <2>4, <3>1, <3>2 DEF TopologyText, Line
  <2>7. InCluster(file, pos, place)
    BY <2>1, <2>4 DEF InTopology
  <2>8. /\ place.physical = am[c].physical
        /\ am[c].core = IF place.ht THEN place.core ELSE c
    <3> HIDE DEF am, c
    <3>1. pos \in Int
      BY <2>4
    <3> QED BY <2>4, <2>6, <2>7, <3>1, RightPlace
  <2>9. NoNegativeId(DirInfo(c)) /\ c \in Cpus
    <3>1. written.online = CpusRead
      BY <2>2 DEF AfterStore, ScanInv, TreeIsMachine, TreeOf
    <3> QED BY <2>4, <2>6, <3>1 DEF ScanInv
  <2>10. am[c] = [physical |-> IdOf(Letter(machine[c].physical)), core |-> machine[c].core]
    BY <2>9 DEF AsRead
  <2>11. machine[c].physical \in Int /\ machine[c].core \in Int /\ c \in Int
    <3>1. machine \in Machines
      BY DEF ScanInv
    <3>2. c \in Int
      BY <2>9, CpusCounted DEF Cpus
    <3> QED BY <2>9, <3>1, <3>2, MachineIs
  <2>12. IdOf(Letter(machine[c].physical)) < 0
    <3> HIDE DEF c, am
    <3>1. machine[c].core >= 0 /\ c >= 0
      BY <2>9 DEF NoNegativeId, DirInfo
    <3>2. /\ am[c].physical = IdOf(Letter(machine[c].physical))
          /\ am[c].core = machine[c].core
      BY <2>10
    <3>3. LineInfo = [physical |-> am[c].physical, core |-> am[c].core, cpu |-> c]
      BY <2>8 DEF LineInfo, c
    <3>4. ~(am[c].physical >= 0 /\ am[c].core >= 0 /\ c >= 0)
      BY <1>4, <3>3 DEF NoNegativeId
    <3>5. IdOf(Letter(machine[c].physical)) \in Int
      BY <2>11, LetterIsRead
    <3> QED BY ONLY <3>1, <3>2, <3>4, <3>5
  <2>13. NoLetter(written)
    BY <2>6, <2>12 DEF NoLetter
  <2>14. NoLetter(written)'
    BY <1>1, <2>13 DEF NoLetter
  <2>15. AfterStore(N)'
    <3>1. written' = topo' /\ HeaderText(file', AsRead(machine'), written', N)
      BY <1>1, <2>2 DEF AfterStore
    <3> QED BY <1>1, <2>14, <3>1 DEF AfterStore
  <2> QED BY <1>1, <1>2, <2>3, <2>15 DEF LoadInv
<1> QED BY <1>1, <1>3, <1>4

\* A line the inner loop does not know is left to the outer one.
LEMMA ClusterEnds ==
    ASSUME ScanInv, LoadInv, EndOfCluster
    PROVE  LoadInv'
<1>1. /\ phase = "topology" /\ Line.kind \notin {"#", "core", "cpu"}
      /\ place' = [place EXCEPT !.level = "clusters"]
      /\ UNCHANGED <<machine, format, topo, written, file, nrcpus, nextCpu, known,
                     phase, pos, read>>
  BY DEF EndOfCluster, KeepReader, scanVars
<1>2. PICK N : AfterStore(N)
  BY <1>1, Stored
<1>3. InTopology(N) /\ place \in PlaceType
  BY <1>1, <1>2, InTopologyFacts
<1>4. place' \in PlaceType /\ place'.level = "clusters"
  BY <1>1, <1>3 DEF PlaceType
<1>5. BetweenClusters(file, pos)
  BY <1>1 DEF BetweenClusters, Line
<1>6. InTopology(N)'
  BY <1>1, <1>3, <1>4, <1>5 DEF InTopology
<1>7. AfterStore(N)'
  BY <1>1, <1>2, <1>6 DEF AfterStore
<1>8. format = "idlestat"
  BY <1>1, Stored
<1> QED BY <1>1, <1>4, <1>7, <1>8 DEF LoadInv

\* A line the outer loop does not know is left to the C-states' reader.
LEMMA TopologyDone ==
    ASSUME ScanInv, LoadInv, EndOfTopology
    PROVE  LoadInv'
<1> DEFINE am == AsRead(machine)
<1>1. /\ phase = "topology" /\ place.level = "clusters"
      /\ Line.kind \notin {"#", "cluster"} /\ phase' = "cstates"
      /\ UNCHANGED <<machine, format, topo, written, file, nrcpus, nextCpu, known,
                     pos, place, read>>
  BY DEF EndOfTopology, KeepReader, scanVars, Goto
<1>2. PICK N : AfterStore(N)
  BY <1>1, Stored
<1>3. /\ HeaderText(file, am, written, N) /\ InTopology(N)
      /\ place \in PlaceType /\ nrcpus = NrCpus
      /\ Len(file) \in Nat /\ N \in Nat /\ N >= 2
      /\ pos \in Nat /\ pos >= 3 /\ pos <= Len(file) /\ pos <= N + 1
      /\ written.online \subseteq Cpus
  BY <1>1, <1>2, InTopologyFacts
<1>4. TopologyText(file, am, written.online, N)
  BY <1>3 DEF HeaderText
<1>5. read \in TopoType /\ TreeOf(read, am, CpusAbove(file, pos))
      /\ nextCpu = 0 /\ known = {} /\ BetweenClusters(file, pos)
  BY <1>1, <1>3 DEF InTopology
<1> HIDE DEF am
<1>6. pos = N + 1
  <2> SUFFICES ASSUME pos <= N
               PROVE  FALSE
    BY <1>3
  <2>1. pos \in 3 .. N
    BY <1>3
  <2>2. /\ file[pos].kind \in {"#", "cluster", "core", "cpu"}
        /\ file[pos].kind \in {"core", "cpu"} =>
              \E q \in 3 .. pos - 1 : file[q].kind = "cluster"
    BY <1>3, <1>4, <2>1 DEF TopologyText
  <2>3. file[pos].kind \in {"core", "cpu"}
    BY <1>1, <2>2 DEF Line
  <2>4. \E q \in 3 .. pos - 1 : file[q].kind = "cluster"
    BY <2>2, <2>3
  <2> QED BY <1>5, <2>3, <2>4 DEF BetweenClusters
<1>7. CpusAbove(file, pos) = written.online
  <2>1. ASSUME NEW c \in CpusAbove(file, pos)
        PROVE  c \in written.online
    <3>1. PICK x \in 3 .. pos - 1 : file[x].kind = "cpu" /\ file[x].n = c
      BY DEF CpusAbove
    <3>2. x \in 3 .. N /\ x <= Len(file)
      BY <1>3, <1>6
    <3> QED BY <1>4, <3>1, <3>2 DEF TopologyText
  <2>2. ASSUME NEW c \in written.online
        PROVE  c \in CpusAbove(file, pos)
    <3>1. N <= Len(file)
      BY <1>3, <1>6
    <3>2. PICK x \in 3 .. N : file[x].kind = "cpu" /\ file[x].n = c
      BY <1>4, <3>1 DEF TopologyText
    <3>3. x \in 3 .. pos - 1
      BY <1>3, <1>6
    <3> QED BY <3>2, <3>3 DEF CpusAbove
  <2> QED BY <2>1, <2>2
<1>8. N < Len(file)
  BY <1>3, <1>6
<1>9. pos = N + 1 + LinesBelow(written, nextCpu)
  <2>1. LinesBelow(written, 0) = 0
    BY LastLinesAre
  <2> QED BY <1>3, <1>5, <1>6, <2>1
<1>10. \A c \in written.online : ~ c < nextCpu
  <2>1. \A c \in Cpus : ~ c < 0
    BY DEF Cpus
  <2> QED BY <1>3, <1>5, <2>1
<1>11. InCstates(N)
  <2>1. nextCpu \in 0 .. NrCpus
    BY <1>5, CpusCounted
  <2> QED BY <1>5, <1>7, <1>8, <1>9, <1>10, <2>1 DEF InCstates, am
<1>12. InCstates(N)'
  BY <1>1, <1>11 DEF InCstates
<1>13. AfterStore(N)'
  BY <1>1, <1>2, <1>3, <1>12 DEF AfterStore
<1>14. format = "idlestat"
  BY <1>1, Stored
<1> QED BY <1>1, <1>3, <1>13, <1>14 DEF LoadInv

-----------------------------------------------------------------------------
(* Its steps through the C-states.                                         *)

\* A CPU's C-states are read, or found not to be there.
LEMMA CstatesAction ==
    ASSUME ScanInv, LoadInv, ReadCstates
    PROVE  LoadInv'
<1> DEFINE t == written
           B(c) == LinesBelow(t, c)
<1>1. /\ phase = "cstates"
      /\ UNCHANGED <<machine, format, topo, written, file, nrcpus, place, read>>
  BY DEF ReadCstates, scanVars
<1>2. PICK N : AfterStore(N)
  BY <1>1, Stored
<1>3. HeaderText(file, AsRead(machine), t, N) /\ InCstates(N) /\ nrcpus = NrCpus
  BY <1>1, <1>2 DEF AfterStore
<1>4. format = "idlestat" /\ place' \in PlaceType
  BY <1>1, Stored DEF LoadInv
<1>5. /\ Len(file) \in Nat /\ N \in Nat
  BY <1>3, HeaderLines
<1>6. /\ read \in TopoType /\ TreeOf(read, AsRead(machine), t.online)
      /\ nextCpu \in 0 .. NrCpus /\ N < Len(file)
      /\ pos = N + 1 + B(nextCpu)
  BY <1>3 DEF InCstates
<1>7. \A c \in t.online \ known : c < nextCpu =>
         pos > Len(file) /\ \A d \in t.online : d < nextCpu => d <= c
  BY <1>3 DEF InCstates
<1>8. read.online = t.online
  BY <1>6 DEF TreeOf
<1>9. t.online \subseteq Cpus
  BY <1>2 DEF AfterStore, ScanInv, TreeIsMachine, TreeOf, CpusRead
<1>10. \A c \in Cpus : c \in Int
  BY CpusCounted DEF Cpus
<1>11. NrCpus \in Nat /\ nextCpu \in Int /\ nextCpu + 1 \in Int
  BY <1>6, CpusCounted
<1>12. nextCpu # NrCpus => nextCpu \in Cpus /\ nextCpu + 1 \in 0 .. NrCpus
  BY <1>6, <1>11 DEF Cpus
<1>13. /\ B(NrCpus) \in Nat /\ Len(LastLines(t)) = B(NrCpus) + 1
       /\ \A c \in Cpus :
             /\ B(c) \in Nat
             /\ c \notin t.online => B(c + 1) = B(c)
             /\ c \in t.online =>
                   /\ B(c + 1) = B(c) + 2
                   /\ B(c) + 1 \in 1 .. B(NrCpus)
                   /\ LastLines(t)[B(c) + 1] = Counted("cpuid", c)
  BY LastLinesAre
<1> HIDE DEF t, B
\* It is enough to know where the reader is.
<1>14. ASSUME phase' = "cstates" \/ (phase' = "loaded" /\ nextCpu' = NrCpus),
              InCstates(N)'
       PROVE  LoadInv'
  <2>1. AfterStore(N)'
    BY <1>1, <1>2, <1>3, <1>14 DEF AfterStore, t
  <2> QED BY <1>1, <1>4, <2>1 DEF LoadInv
<1>15. CASE nextCpu = nrcpus /\ phase' = "loaded" /\ UNCHANGED <<pos, nextCpu, known>>
  <2>1. InCstates(N)'
    BY <1>1, <1>3, <1>15 DEF InCstates
  <2> QED BY <1>3, <1>14, <1>15, <2>1
<1>16. CASE nextCpu < nrcpus /\ nextCpu \in read.online /\ ReadBlock
  <2>1. nextCpu \in Cpus /\ nextCpu \in t.online /\ nextCpu + 1 \in 0 .. NrCpus
    BY <1>3, <1>8, <1>11, <1>12, <1>16
  <2>2. /\ B(nextCpu) \in Nat /\ B(nextCpu + 1) = B(nextCpu) + 2
        /\ B(nextCpu) + 1 \in 1 .. B(NrCpus)
        /\ LastLines(t)[B(nextCpu) + 1] = Counted("cpuid", nextCpu)
    BY <1>13, <2>1
  <2>3. CASE BlockHere
    <3>1. /\ known' = IF pos < Len(file) THEN known \cup {nextCpu} ELSE known
          /\ nextCpu' = nextCpu + 1 /\ pos' = pos + 2 /\ UNCHANGED phase
      BY <1>16, <2>3 DEF ReadBlock
    <3>2. pos <= Len(file) /\ pos \in Nat
      BY <1>5, <1>6, <2>2, <2>3 DEF BlockHere, AtEnd
    <3>3. pos' = N + 1 + B(nextCpu')
      BY <1>5, <1>6, <2>2, <3>1
    <3>4. ASSUME NEW c \in t.online \ known', c < nextCpu'
          PROVE  pos' > Len(file) /\ \A d \in t.online : d < nextCpu' => d <= c
      <4>1. c \in Int /\ c \notin known /\ known \subseteq known'
        BY <1>9, <1>10, <3>1
      <4>2. ~ c < nextCpu
        BY <1>5, <1>7, <3>2, <4>1
      <4>3. c = nextCpu
        BY <1>11, <3>1, <3>4, <4>1, <4>2
      <4>4. ~ pos < Len(file)
        BY <3>1, <4>3
      <4>5. pos' > Len(file)
        BY <1>5, <3>1, <3>2, <4>4
      <4>6. ASSUME NEW d \in t.online, d < nextCpu'
            PROVE  d <= c
        <5>1. d \in Int
          BY <1>9, <1>10
        <5> QED BY <1>11, <3>1, <4>3, <4>6, <5>1
      <4> QED BY <4>5, <4>6
    <3>5. InCstates(N)'
      BY <1>1, <1>6, <2>1, <3>1, <3>3, <3>4 DEF InCstates, t, B
    <3> QED BY <1>1, <1>14, <3>1, <3>5
  <2>4. CASE ~BlockHere
    <3>1. phase' = "failed"
      BY <1>16, <2>4 DEF ReadBlock, Goto
    <3>2. pos > Len(file)
      <4> SUFFICES ASSUME pos <= Len(file)
                   PROVE  FALSE
        BY <1>5, <1>6, <2>2
      <4> DEFINE i == B(nextCpu) + 1
      <4>1. i \in 1 .. Len(LastLines(t)) /\ N + i = pos
        BY SMTT(30), <1>5, <1>6, <1>13, <2>2
      <4> HIDE DEF i
      <4>2. file[N + i] = LastLines(t)[i]
        BY <1>3, <4>1 DEF HeaderText
      <4>3. file[pos] = Counted("cpuid", nextCpu)
        BY <2>2, <4>1, <4>2 DEF i
      <4>4. ~AtEnd
        BY <1>5, <1>6, <2>2 DEF AtEnd
      <4> QED BY <2>4, <4>3, <4>4 DEF BlockHere, Line
    <3>3. Len(file) < N + Len(LastLines(t))
      BY SMTT(30), <1>5, <1>6, <1>13, <2>2, <3>2
    <3>4. AfterStore(N)'
      BY <1>1, <1>2, <3>1, <3>3 DEF AfterStore, t
    <3> QED BY <1>1, <1>4, <3>4 DEF LoadInv
  <2> QED BY <2>3, <2>4
<1>17. CASE /\ nextCpu < nrcpus /\ nextCpu \notin read.online
            /\ nextCpu' = nextCpu + 1 /\ UNCHANGED <<phase, pos, known>>
  <2>1. nextCpu \in Cpus /\ nextCpu \notin t.online /\ nextCpu + 1 \in 0 .. NrCpus
    BY <1>3, <1>8, <1>11, <1>12, <1>17
  <2>2. B(nextCpu') = B(nextCpu)
    BY <1>13, <1>17, <2>1
  <2>3. \A c \in t.online : c < nextCpu' => c < nextCpu
    <3> TAKE c \in t.online
    <3>1. c \in Int /\ c # nextCpu
      BY <1>9, <1>10, <2>1
    <3>2. nextCpu' = nextCpu + 1
      BY <1>17
    <3> QED BY <1>11, <3>1, <3>2
  <2>4. \A c \in t.online \ known' : c < nextCpu' =>
           pos' > Len(file) /\ \A d \in t.online : d < nextCpu' => d <= c
    BY <1>7, <1>17, <2>3
  <2>5. InCstates(N)'
    BY <1>1, <1>6, <1>17, <2>1, <2>2, <2>4 DEF InCstates, t, B
  <2> QED BY <1>1, <1>14, <1>17, <2>5
<1> QED BY <1>15, <1>16, <1>17 DEF ReadCstates, Goto

-----------------------------------------------------------------------------
(* The theorems.                                                           *)

\* Every step keeps the loader where its file says.
LEMMA LoadStep ==
    ASSUME ScanInv, LoadInv, [Next]_vars
    PROVE  LoadInv'
<1>1. CASE Next
  <2>1. CASE \E c \in Cpus : ReadCpuDir(c)
    BY <2>1, ScanActions
  <2>2. CASE ScanEnds
    BY <2>2, ScanActions
  <2>3. CASE StoreHeader
    BY <2>3, StoreAction
  <2>4. CASE CheckMagic
    BY <2>4, MagicAction
  <2>5. CASE ReadHead
    BY <2>5, HeadAction
  <2>6. CASE ReadFtraceComment \/ FtraceHeadEnds
    BY <2>6, FtraceActions
  <2>7. CASE ReadTopology
    BY <2>7, CommentAction, ClusterAction, CoreAction, CpuAction, ClusterEnds,
       TopologyDone DEF ReadTopology
  <2>8. CASE ReadCstates
    BY <2>8, CstatesAction
  <2>9. CASE Abort
    BY <2>9, AbortAction
  <2> QED BY <1>1, <2>1, <2>2, <2>3, <2>4, <2>5, <2>6, <2>7, <2>8, <2>9 DEF Next
<1>2. CASE UNCHANGED vars
  <2>1. UNCHANGED <<machine, format, phase, topo, written, file, pos, nrcpus, place,
                    read, nextCpu, known>>
    BY <1>2 DEF vars
  <2>2. BeforeStore => BeforeStore'
    BY <2>1 DEF BeforeStore
  <2>3. ASSUME NEW N, AfterStore(N)
        PROVE  AfterStore(N)'
    BY <2>1, <2>3 DEF AfterStore, InTopology, InCstates, NoLetter
  <2>4. ForeignFile => ForeignFile'
    BY <2>1 DEF ForeignFile, FtraceFile, TraceCmdFile
  <2> QED BY <2>1, <2>2, <2>3, <2>4 DEF LoadInv
<1> QED BY <1>1, <1>2

\* Every state of a run of the scan, the store and the loaders is as ScanInv and
\* LoadInv say: the tree is that of the directories read, and the reader's variables
\* are what the lines behind it make them.
THEOREM InvHolds == Spec => []Inv
<1>1. Init => Inv
  BY ScanInit, LoadInit DEF Inv
<1>2. Inv /\ [Next]_vars => Inv'
  BY ScanStep, LoadStep DEF Inv
<1> QED BY <1>1, <1>2, PTL DEF Spec

\* When a file of idlestat's own is loaded, it is behind the C-states.
LEMMA NativeLoaded ==
    ASSUME Inv, phase = "loaded", format = "idlestat"
    PROVE  \E N : /\ HeaderText(file, AsRead(machine), written, N) /\ InCstates(N)
                  /\ nextCpu = NrCpus /\ written = topo
<1>1. PICK N : AfterStore(N)
  BY DEF Inv, LoadInv, BeforeStore, ForeignFile
<1> QED BY <1>1 DEF AfterStore

(* The loaders of all formats come to the records with the first one in    *)
(* their buffer: of the header they leave no line and swallow none.        *)
THEOREM FirstRecordIsNext == Spec => []FirstRecordNext
<1>1. ASSUME Inv
      PROVE  FirstRecordNext
  <2> SUFFICES ASSUME phase = "loaded", ~AtEnd
               PROVE  file[pos].kind = "record"
    BY DEF FirstRecordNext, Line
  <2>1. CASE ForeignFile
    BY <2>1 DEF ForeignFile
  <2>2. CASE format = "idlestat"
    <3> DEFINE L == LastLines(written)
               n == LinesBelow(written, NrCpus)
    <3>1. PICK N : /\ HeaderText(file, AsRead(machine), written, N) /\ InCstates(N)
                   /\ nextCpu = NrCpus
      BY <1>1, <2>2, NativeLoaded
    <3>2. n \in Nat /\ Len(L) = n + 1 /\ L[n + 1].kind = "record"
      BY LastLinesAre
    <3>3. pos = N + 1 + n
      BY <3>1 DEF InCstates
    <3>4. N \in Nat /\ Len(file) \in Nat
      BY <3>1, HeaderLines
    <3>5. \A i \in 1 .. Len(L) : N + i <= Len(file) => file[N + i] = L[i]
      BY <3>1 DEF HeaderText
    <3> HIDE DEF L, n
    <3>6. n + 1 \in 1 .. Len(L) /\ N + (n + 1) = pos /\ N + (n + 1) <= Len(file)
      BY <3>2, <3>3, <3>4 DEF AtEnd
    <3>7. file[N + (n + 1)] = L[n + 1]
      BY <3>5, <3>6
    <3> QED BY <3>2, <3>6, <3>7
  <2> QED BY <1>1, <2>1, <2>2 DEF Inv, LoadInv
<1> QED BY <1>1, InvHolds, PTL

\* The assertions fail only where a cluster has no letter.
LEMMA AbortedIsNoLetter ==
    ASSUME Inv, format = "idlestat", phase = "aborted", file # <<>>
    PROVE  \E k \in DOMAIN written.clusters : IdOf(Letter(written.clusters[k].id)) < 0
<1>1. PICK N : AfterStore(N)
  BY DEF Inv, LoadInv, BeforeStore, ForeignFile
<1>2. written = topo /\ NoLetter(written)
  BY <1>1 DEF AfterStore
<1>3. PICK c \in written.online : IdOf(Letter(machine[c].physical)) < 0
  BY <1>2 DEF NoLetter
<1>4. TreeOf(written, machine, CpusRead)
  BY <1>2 DEF Inv, ScanInv, TreeIsMachine
<1>5. c \in CpusRead /\ Ids(written.clusters) = {machine[d].physical : d \in CpusRead}
  BY <1>3, <1>4 DEF TreeOf
<1>6. machine[c].physical \in Ids(written.clusters)
  BY <1>5
<1>7. PICK k \in DOMAIN written.clusters : written.clusters[k].id = machine[c].physical
  BY <1>6 DEF Ids
<1> QED BY <1>3, <1>7

(* A file of idlestat's own that is complete, that is, ends in a record,   *)
(* is loaded whichever CPUs were off line, on every machine the clusters   *)
(* of which have letters that come back as ids; on the others the reader   *)
(* ends in an assertion.                                                   *)
THEOREM NativeFileIsLoaded == Spec => []NativeFileLoads
<1>1. ASSUME Inv
      PROVE  NativeFileLoads
  <2> SUFFICES ASSUME format = "idlestat", phase = "failed", file # <<>>
               PROVE  file[Len(file)].kind # "record"
    <3>1. format = "idlestat" /\ phase = "aborted" /\ file # <<>> =>
             \E k \in DOMAIN written.clusters : IdOf(Letter(written.clusters[k].id)) < 0
      BY <1>1, AbortedIsNoLetter
    <3> QED BY <3>1, Zenon DEF NativeFileLoads
  <2> DEFINE L == LastLines(written)
             n == LinesBelow(written, NrCpus)
             l == Len(file)
  <2>1. PICK N : AfterStore(N)
    BY <1>1 DEF Inv, LoadInv, BeforeStore, ForeignFile
  <2>2. HeaderText(file, AsRead(machine), written, N) /\ l < N + Len(L)
    BY <2>1 DEF AfterStore
  <2>3. n \in Nat /\ Len(L) = n + 1
        /\ \A i \in 1 .. n : L[i].kind \in {"cpuid", "states"}
    BY LastLinesAre
  <2>4. N \in Nat /\ N >= 2 /\ file \in Seq(LineType) /\ l \in Nat
    BY <2>2, HeaderLines
  <2>5. l >= 1
    BY <2>4
  <2>6. \A i \in 1 .. Len(L) : N + i <= l => file[N + i] = L[i]
    BY <2>2 DEF HeaderText
  <2>7. \A i \in 1 .. 2 : i <= l => file[i] = FirstLines[i]
    BY <2>2 DEF HeaderText
  <2>8. \A p \in 3 .. N : p <= l => file[p].kind \in {"#", "cluster", "core", "cpu"}
    BY <2>2 DEF HeaderText, TopologyText
  <2> HIDE DEF L, n, l
  <2>9. N \in Nat /\ l \in Nat
    BY <2>4
  <2>10. CASE l <= 2
    <3>1. l \in 1 .. 2 /\ l <= l
      BY <2>5, <2>9, <2>10
    <3>2. file[l] = FirstLines[l]
      BY <2>7, <3>1
    <3>3. \A i \in 1 .. 2 : FirstLines[i].kind # "record"
      <4>1. FirstLines[1].kind = "idlestat version" /\ FirstLines[2].kind = "cpus"
        BY DEF FirstLines, Plain, Counted
      <4>2. \A i \in 1 .. 2 : i = 1 \/ i = 2
        OBVIOUS
      <4> QED BY <4>1, <4>2
    <3> QED BY <3>1, <3>2, <3>3 DEF l
  <2>11. CASE 3 <= l /\ l <= N
    <3>1. l \in 3 .. N /\ l <= l
      BY <2>9, <2>11
    <3> QED BY <2>8, <3>1 DEF l
  <2>12. CASE N < l
    <3> DEFINE i == l - N
    <3>1. i \in 1 .. n /\ i \in 1 .. Len(L) /\ N + i = l /\ N + i <= l
      BY <2>2, <2>3, <2>9, <2>12 DEF L, l
    <3> HIDE DEF i
    <3>2. file[l] = L[i]
      BY <2>6, <3>1
    <3> QED BY <2>3, <3>1, <3>2 DEF l
  <2> QED BY <2>9, <2>10, <2>11, <2>12
<1> QED BY <1>1, InvHolds, PTL

\* A tree is the same for two machines that number its CPUs alike.
LEMMA TreeOfBoth ==
    ASSUME NEW t, NEW a, NEW b, NEW cpus, TreeOf(t, a, cpus),
           \A c \in cpus : a[c].physical = b[c].physical /\ a[c].core = b[c].core
    PROVE  TreeOf(t, b, cpus)
<1>1. ASSUME NEW k \in DOMAIN t.clusters
      PROVE  ClusterHolds(t.clusters[k], b,
                          {c \in cpus : b[c].physical = t.clusters[k].id})
  <2> DEFINE cl == t.clusters[k]
             S  == {c \in cpus : a[c].physical = cl.id}
  <2>1. {c \in cpus : b[c].physical = cl.id} = S
    OBVIOUS
  <2>2. ClusterHolds(cl, a, S)
    BY DEF TreeOf
  <2>3. S \subseteq cpus
    OBVIOUS
  <2> HIDE DEF cl, S
  <2>4. {a[c].core : c \in S} = {b[c].core : c \in S}
    BY <2>3
  <2>5. \A o \in DOMAIN cl.cores :
           {c \in S : a[c].core = cl.cores[o].id} = {c \in S : b[c].core = cl.cores[o].id}
    BY <2>3
  <2>6. ClusterHolds(cl, b, S)
    BY <2>2, <2>4, <2>5 DEF ClusterHolds
  <2> QED BY <2>1, <2>6 DEF cl
<1>2. {a[c].physical : c \in cpus} = {b[c].physical : c \in cpus}
  OBVIOUS
<1> QED BY <1>1, <1>2 DEF TreeOf

(* The letter of a cluster is a char: 'A' for cluster 0, and 127, the      *)
(* greatest there is, for cluster 62.  From 63 on it gives back another    *)
(* number.                                                                 *)
ClustersHaveLetters == \A m \in Machines : \A c \in Cpus : m[c].physical <= 62

\* With letters for all clusters, the tree that was read is the machine's.
LEMMA ReadIsMachine ==
    ASSUME ClustersHaveLetters, Inv, NEW N, InCstates(N), written = topo
    PROVE  /\ read \in TopoType /\ TreeOf(read, machine, written.online)
           /\ topo \in TopoType /\ TreeOf(topo, machine, written.online)
           /\ written.online \subseteq Cpus
<1>1. machine \in Machines /\ topo \in TopoType /\ TreeOf(topo, machine, CpusRead)
  BY DEF Inv, ScanInv, TreeIsMachine
<1>2. written.online = CpusRead /\ CpusRead \subseteq Cpus
  BY <1>1 DEF TreeOf, CpusRead
<1>3. read \in TopoType /\ TreeOf(read, AsRead(machine), written.online)
  BY DEF InCstates
<1>4. ASSUME NEW c \in written.online
      PROVE  /\ AsRead(machine)[c].physical = machine[c].physical
             /\ AsRead(machine)[c].core = machine[c].core
  <2>1. c \in Cpus
    BY <1>2
  <2>5. NoNegativeId(DirInfo(c))
    BY <1>2 DEF Inv, ScanInv
  <2>2. machine[c].physical \in 0 .. 62
    BY <1>1, <2>1, <2>5, MachineIs DEF ClustersHaveLetters, NoNegativeId, DirInfo
  <2>3. IdOf(Letter(machine[c].physical)) = machine[c].physical
    BY <2>2, LetterIsRead
  <2>4. AsRead(machine)[c] = [physical |-> IdOf(Letter(machine[c].physical)),
                              core |-> machine[c].core]
    BY <2>1 DEF AsRead
  <2> QED BY <2>3, <2>4
<1>5. TreeOf(read, machine, written.online)
  BY <1>3, <1>4, TreeOfBoth
<1> QED BY <1>1, <1>2, <1>3, <1>5

(* A header that is loaded gives back the topology that was written, with  *)
(* comments in it or without its cores, and if there is anything behind    *)
(* it, the C-states of every CPU that is on line.                          *)
THEOREM HeaderIsReadBack ==
    ASSUME ClustersHaveLetters
    PROVE  Spec => []HeaderReadBack
<1>1. ASSUME Inv
      PROVE  HeaderReadBack
  <2> SUFFICES ASSUME format = "idlestat", phase = "loaded"
               PROVE  /\ SameTree(read, written)
                      /\ \A c \in written.online \ known :
                            AtEnd /\ \A d \in written.online : d <= c
    BY DEF HeaderReadBack
  <2>1. PICK N : InCstates(N) /\ nextCpu = NrCpus /\ written = topo
    BY <1>1, NativeLoaded
  <2>2. /\ read \in TopoType /\ TreeOf(read, machine, written.online)
        /\ written \in TopoType /\ TreeOf(written, machine, written.online)
        /\ written.online \subseteq Cpus
    BY <1>1, <2>1, ReadIsMachine
  <2>3. SameTree(read, written)
    BY <2>2, TreeUnique
  <2>4. \A c \in written.online : c < nextCpu
    BY <2>1, <2>2, CpusCounted DEF Cpus
  <2>5. \A c \in written.online \ known : c < nextCpu =>
           pos > Len(file) /\ \A d \in written.online : d < nextCpu => d <= c
    BY <2>1 DEF InCstates
  <2> QED BY <2>3, <2>4, <2>5 DEF AtEnd
<1> QED BY <1>1, InvHolds, PTL

(* In the topology that is loaded, the cluster of a CPU and its core are   *)
(* the machine's, and the core is one of the cluster's: the searches of    *)
(* cpu_to_cluster and cpu_to_core agree.                                   *)
THEOREM LookupsDoAgree ==
    ASSUME ClustersHaveLetters
    PROVE  Spec => []LookupsAgree
<1>1. ASSUME Inv
      PROVE  LookupsAgree
  <2> SUFFICES ASSUME phase = "loaded", NEW c \in Loaded.online
               PROVE  /\ CpuToCluster(Loaded, c).id = machine[c].physical
                      /\ CpuToCore(Loaded, c).id = machine[c].core
                      /\ CpuToCore(Loaded, c) \in ToSet(CpuToCluster(Loaded, c).cores)
    BY DEF LookupsAgree
  <2>1. CASE format = "idlestat"
    <3>1. PICK N : InCstates(N) /\ written = topo
      BY <1>1, <2>1, NativeLoaded
    <3>2. read \in TopoType /\ TreeOf(read, machine, written.online)
      BY <1>1, <3>1, ReadIsMachine
    <3>3. Loaded = read
      BY <2>1 DEF Loaded
    <3>4. c \in written.online
      BY <3>2, <3>3 DEF TreeOf
    <3> QED BY <3>2, <3>3, <3>4, LookupsFind
  <2>2. CASE format # "idlestat"
    <3>1. topo \in TopoType /\ TreeOf(topo, machine, CpusRead)
      BY <1>1 DEF Inv, ScanInv, TreeIsMachine
    <3>2. Loaded = topo
      BY <2>2 DEF Loaded
    <3>3. c \in CpusRead
      BY <3>1, <3>2 DEF TreeOf
    <3> QED BY <3>1, <3>2, <3>3, LookupsFind
  <2> QED BY <2>1, <2>2
<1> QED BY <1>1, InvHolds, PTL
=============================================================================

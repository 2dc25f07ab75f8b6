-------------------------- MODULE TraceLoad_proofs --------------------------
(***************************************************************************)
(* Safety of loading a trace, for every topology, every number of C-states *)
(* and every set of frequencies: types, sorted tables, coherent            *)
(* statistics, groups in the least state of their CPUs, and clusters with  *)
(* a frequency open exactly while one of their CPUs runs at one.           *)
(***************************************************************************)
EXTENDS TraceLoad, PStates_proofs

(* A cluster's open frequency against those of its CPUs.                   *)
ClusterOK(ps, k) ==
    /\ ps[k].cur # 0 <=> HighestFreq(ps, k) > 0
    /\ OpenFreq(ps[k]) >= HighestFreq(ps, k)

GoodC(cs) == cs \in [Units -> CStatesType] /\ \A u \in Units : GoodCStates(cs[u], Initialised(u))
GoodP(ps) == ps \in [Units -> PStatesType] /\ \A u \in Units : GoodPStates(ps[u])

GroupsLeast(cs) == \A u \in Groups : cs[u].cur = LeastCstate(cs, u)
ClustersOK(ps)  == \A k \in Clusters : ClusterOK(ps, k)

(* The inductive invariant.  Each part needs the others' types: a least    *)
(* state exists because states are integers, an open frequency because     *)
(* `current' is an entry of the table.                                     *)
IInv ==
    /\ TypeOK
    /\ TablesSorted
    /\ StatsCoherent
    /\ GroupCstateIsLeast
    /\ ClusterOpenIffBusy
    /\ ClusterFreqNeverBelow

(* IInv says of every unit that its two records are well formed.           *)
LEMMA IInvParts ==
    IInv <=> /\ TypeOK
             /\ GoodC(cst) /\ GroupsLeast(cst)
             /\ GoodP(pst) /\ ClustersOK(pst)
BY DEF IInv, TypeOK, TablesSorted, StatsCoherent, GroupCstateIsLeast,
       ClusterOpenIffBusy, ClusterFreqNeverBelow, GoodC, GoodP, GroupsLeast,
       ClustersOK, ClusterOK, GoodCStates, GoodPStates

-----------------------------------------------------------------------------
(* Every unit has a CPU, and finitely many.                                *)
LEMMA CpusOfUnit ==
    ASSUME NEW u \in Units
    PROVE  CpusOf(u) \subseteq Cpus /\ CpusOf(u) # {} /\ IsFiniteSet(CpusOf(u))
<1>1. CpusOf(u) \subseteq Cpus
  BY DEF CpusOf
<1>2. IsFiniteSet(CpusOf(u))
  BY <1>1, TopologyAssumption, FS_Subset
<1>3. CpusOf(u) # {}
  BY TopologyAssumption DEF CpusOf, Units, Groups
<1> QED BY <1>1, <1>2, <1>3

(* Units are CPUs or groups, never both, and a CPU is a unit.              *)
LEMMA UnitsDisjoint ==
    /\ Cpus \cap Groups = {} /\ Cpus \subseteq Units /\ Groups \subseteq Units
    /\ Clusters \subseteq Groups
    /\ \A c \in Cpus : CoreOf[c] \in Groups /\ ClusterOf[CoreOf[c]] \in Groups
BY TopologyAssumption DEF Units, Groups

(* A group's least C-state is a C-state or -1.                             *)
LEMMA LeastCstateType ==
    ASSUME NEW cs, GoodC(cs), NEW u \in Units
    PROVE  LeastCstate(cs, u) \in State \cup {-1}
<1> DEFINE f == [c \in Cpus |-> cs[c].cur]
           S == {f[c] : c \in CpusOf(u)}
<1>1. CpusOf(u) \subseteq Cpus /\ CpusOf(u) # {} /\ IsFiniteSet(CpusOf(u))
  BY CpusOfUnit
<1>2. \A c \in Cpus : f[c] \in State \cup {-1}
  BY UnitsDisjoint DEF GoodC, CStatesType
<1>3. S = {cs[c].cur : c \in CpusOf(u)}
  BY <1>1
<1>4. IsFiniteSet(S)
  <2> HIDE DEF f
  <2> QED BY <1>1, FiniteImage
<1>5. S \subseteq State \cup {-1} /\ S # {}
  BY <1>1, <1>2
<1>6. S \in SUBSET Int
  BY <1>5, NStatesAssumption DEF State
<1>7. Min(S) \in S
  <2> HIDE DEF S
  <2> QED BY <1>4, <1>5, <1>6, MinIsLeast
<1> HIDE DEF S
<1> QED BY <1>3, <1>5, <1>7 DEF LeastCstate

(* A well-formed record's open frequency is a natural number.              *)
LEMMA OpenFreqType ==
    ASSUME NEW ps, GoodPStates(ps)
    PROVE  OpenFreq(ps) \in Nat
<1>1. ps.table \in Seq(PRecordType) /\ ps.cur \in 0 .. Len(ps.table)
  BY DEF GoodPStates, PStatesType, TableSorted
<1>2. Len(ps.table) \in Nat
  BY <1>1, LenProperties
<1>3. CASE ps.cur = 0
  BY <1>3 DEF OpenFreq
<1>4. CASE ps.cur # 0
  <2>1. ps.cur \in 1 .. Len(ps.table)
    BY <1>1, <1>2, <1>4
  <2>2. ps.table[ps.cur] \in PRecordType
    BY <1>1, <2>1, ElementOfSeq
  <2> QED BY <1>4, <2>2 DEF OpenFreq, PRecordType
<1> QED BY <1>3, <1>4

(* A group's highest frequency is a natural number, and not 0 if a CPU     *)
(* that counts has one.                                                    *)
LEMMA HighestFreqType ==
    ASSUME NEW ps, GoodP(ps), NEW u \in Units
    PROVE  /\ HighestFreq(ps, u) \in Nat
           /\ HighestFreq(ps, u) > 0 <=>
                \E c \in CpusOf(u) : /\ u \in Clusters => ps[c].idle <= 0
                                     /\ OpenFreq(ps[c]) > 0
<1> DEFINE A == {d \in CpusOf(u) : u \in Clusters => ps[d].idle <= 0}
           f == [c \in Cpus |-> OpenFreq(ps[c])]
           F == {f[c] : c \in A}
           S == {0} \cup F
<1>1. A \subseteq CpusOf(u) /\ A \subseteq Cpus /\ IsFiniteSet(A)
  <2>1. A \subseteq CpusOf(u)
    OBVIOUS
  <2> HIDE DEF A
  <2> QED BY <2>1, CpusOfUnit, FS_Subset
<1>2. \A c \in Cpus : f[c] \in Nat
  <2>1. \A c \in Cpus : GoodPStates(ps[c])
    BY UnitsDisjoint DEF GoodP
  <2> QED BY <2>1, OpenFreqType
<1>3. F = {OpenFreq(ps[c]) : c \in A}
  <2> HIDE DEF A
  <2> QED BY <1>1
<1>4. IsFiniteSet(F)
  <2> HIDE DEF f, A
  <2> QED BY <1>1, FiniteImage
<1>5. F \subseteq Nat
  <2> HIDE DEF f, A
  <2> QED BY <1>1, <1>2
<1>6. IsFiniteSet(S) /\ S \in SUBSET Int /\ S # {} /\ S \subseteq Nat
  <2>1. IsFiniteSet(F \cup {0})
    <3> HIDE DEF F
    <3> QED BY <1>4, FS_AddElement
  <2> HIDE DEF F
  <2>2. S = F \cup {0}
    OBVIOUS
  <2> QED BY <1>5, <2>1, <2>2
<1>7. Max(S) \in S /\ \A x \in S : Max(S) >= x
  <2> HIDE DEF S
  <2> QED BY <1>6, MaxIsGreatest
<1>8. HighestFreq(ps, u) = Max(S)
  <2> HIDE DEF f
  <2> QED BY <1>3 DEF HighestFreq
<1>9. Max(S) > 0 <=> \E x \in F : x > 0
  <2> HIDE DEF F
  <2>1. S = {0} \cup F
    OBVIOUS
  <2> HIDE DEF S
  <2>2. Max(S) \in Nat
    BY <1>6, <1>7
  <2>3. Max(S) > 0 => Max(S) \in F
    BY <1>7, <2>1, <2>2
  <2>4. ASSUME NEW x \in F, x > 0
        PROVE  Max(S) > 0
    BY <1>5, <1>7, <2>1, <2>2, <2>4
  <2> QED BY <2>3, <2>4
<1>10. (\E x \in F : x > 0) <=> \E c \in A : OpenFreq(ps[c]) > 0
  <2> HIDE DEF f, A
  <2> QED BY <1>3
<1> HIDE DEF S, F
<1> QED BY <1>6, <1>7, <1>8, <1>9, <1>10

-----------------------------------------------------------------------------
(* A group's least C-state depends on its CPUs' records only.              *)
LEMMA LeastCstateOfCpus ==
    ASSUME NEW cs, NEW ds, NEW u \in Units,
           \A c \in CpusOf(u) : cs[c].cur = ds[c].cur
    PROVE  LeastCstate(cs, u) = LeastCstate(ds, u)
<1>1. {cs[c].cur : c \in CpusOf(u)} = {ds[c].cur : c \in CpusOf(u)}
  OBVIOUS
<1> QED BY <1>1 DEF LeastCstate

(* A group's highest frequency depends on which of its CPUs are idle and   *)
(* on the open frequencies of those that count.                            *)
LEMMA HighestFreqOfCpus ==
    ASSUME NEW ps, NEW qs, NEW u \in Units,
           \A c \in CpusOf(u) : ps[c].idle = qs[c].idle,
           \A c \in CpusOf(u) : (u \in Clusters => ps[c].idle <= 0) =>
                OpenFreq(ps[c]) = OpenFreq(qs[c])
    PROVE  HighestFreq(ps, u) = HighestFreq(qs, u)
<1> DEFINE A == {d \in CpusOf(u) : u \in Clusters => ps[d].idle <= 0}
           B == {d \in CpusOf(u) : u \in Clusters => qs[d].idle <= 0}
<1>1. A = B
  OBVIOUS
<1>2. \A c \in A : OpenFreq(ps[c]) = OpenFreq(qs[c])
  OBVIOUS
<1> HIDE DEF A, B
<1>3. {OpenFreq(ps[c]) : c \in A} = {OpenFreq(qs[c]) : c \in B}
  BY <1>1, <1>2
<1> QED BY <1>3 DEF HighestFreq, A, B

(* store_data: the C-state records stay well formed, and every core and    *)
(* cluster is in the least state of its CPUs afterwards - those of the CPU *)
(* because they are told it, the others because none of theirs changed.    *)
LEMMA StoreCstateGood ==
    ASSUME NEW cs, GoodC(cs), GroupsLeast(cs), NEW c \in Cpus,
           NEW s \in State \cup {-1}, NEW t \in Int
    PROVE  GoodC(StoreCstate(cs, c, s, t)) /\ GroupsLeast(StoreCstate(cs, c, s, t))
<1> DEFINE ev  == RecordCstateEvent(cs[c], Target(c), t, s)
           own == [cs EXCEPT ![c] = ev]
           res == StoreCstate(cs, c, s, t)
<1>1. cs \in [Units -> CStatesType] /\ \A u \in Units : GoodCStates(cs[u], Initialised(u))
  BY DEF GoodC
<1>2. GoodCStates(ev, Initialised(c))
  BY <1>1, UnitsDisjoint, RecordCstateEventGood
<1>3. own \in [Units -> CStatesType] /\ \A u \in Units : GoodCStates(own[u], Initialised(u))
  <2> HIDE DEF ev
  <2> QED BY <1>1, <1>2, UnitsDisjoint DEF GoodCStates
<1>4. GoodC(own)
  BY <1>3 DEF GoodC
<1>5. \A u \in Units : u # c => own[u] = cs[u]
  BY <1>1
<1>6. res = [u \in Units |->
               IF u \in Groups /\ c \in CpusOf(u)
               THEN RecordCstateEvent(own[u], Target(u), t, LeastCstate(own, u))
               ELSE own[u]]
  BY DEF StoreCstate
<1> HIDE DEF ev, own, res
<1>7. ASSUME NEW u \in Units
      PROVE  GoodCStates(res[u], Initialised(u))
  <2>1. CASE u \in Groups /\ c \in CpusOf(u)
    <3>1. res[u] = RecordCstateEvent(own[u], Target(u), t, LeastCstate(own, u))
      BY <1>6, <2>1
    <3> QED BY <1>3, <1>4, <3>1, LeastCstateType, RecordCstateEventGood
  <2>2. CASE ~(u \in Groups /\ c \in CpusOf(u))
    BY <1>3, <1>6, <2>2
  <2> QED BY <2>1, <2>2
<1>8. GoodC(res)
  BY <1>6, <1>7 DEF GoodC, GoodCStates
<1>9. \A d \in Cpus : res[d] = own[d]
  BY <1>6, UnitsDisjoint
<1>10. ASSUME NEW u \in Groups
       PROVE  res[u].cur = LeastCstate(res, u)
  <2>1. u \in Units /\ CpusOf(u) \subseteq Cpus /\ u # c
    BY UnitsDisjoint, CpusOfUnit
  <2>2. LeastCstate(res, u) = LeastCstate(own, u)
    <3>1. \A d \in CpusOf(u) : res[d].cur = own[d].cur
      BY <1>9, <2>1
    <3> QED BY <2>1, <3>1, LeastCstateOfCpus
  <2>3. CASE c \in CpusOf(u)
    <3>1. res[u] = RecordCstateEvent(own[u], Target(u), t, LeastCstate(own, u))
      BY <1>6, <2>1, <2>3
    <3>2. res[u].cur = LeastCstate(own, u)
      BY <1>3, <1>4, <2>1, <3>1, LeastCstateType, RecordCstateEventGood
    <3> QED BY <2>2, <3>2
  <2>4. CASE c \notin CpusOf(u)
    <3>1. res[u] = cs[u]
      BY <1>5, <1>6, <2>1, <2>4
    <3>2. \A d \in CpusOf(u) : own[d].cur = cs[d].cur
      BY <1>5, <2>1, <2>4, UnitsDisjoint
    <3>3. LeastCstate(own, u) = LeastCstate(cs, u)
      BY <2>1, <3>2, LeastCstateOfCpus
    <3> QED BY <2>2, <3>1, <3>3 DEF GroupsLeast
  <2> QED BY <2>3, <2>4
<1> QED BY <1>8, <1>10 DEF GroupsLeast, res

(* check_pstate_composite after a change to CPU c alone: the records stay  *)
(* well formed and every cluster follows its CPUs - c's because it is      *)
(* recomputed, the others because none of theirs changed.                  *)
LEMMA CompositeGood ==
    ASSUME NEW ps, GoodP(ps), ClustersOK(ps), NEW c \in Cpus, NEW t \in Int,
           NEW new, GoodPStates(new)
    PROVE  LET res == CheckPstateComposite([ps EXCEPT ![c] = new], c, t)
           IN  GoodP(res) /\ ClustersOK(res)
<1> DEFINE own == [ps EXCEPT ![c] = new]
           res == CheckPstateComposite(own, c, t)
<1>1. ps \in [Units -> PStatesType] /\ \A u \in Units : GoodPStates(ps[u])
  BY DEF GoodP
<1>2. own \in [Units -> PStatesType] /\ \A u \in Units : GoodPStates(own[u])
  BY <1>1, UnitsDisjoint DEF GoodPStates
<1>3. GoodP(own)
  BY <1>2 DEF GoodP
<1>4. \A u \in Units : u # c => own[u] = ps[u]
  BY <1>1
<1>5. res = [u \in Units |-> IF u \in Groups /\ c \in CpusOf(u)
                             THEN RecordGroupFreq(own[u], t, HighestFreq(own, u))
                             ELSE own[u]]
  BY DEF CheckPstateComposite
<1> HIDE DEF own, res
<1>6. ASSUME NEW u \in Units
      PROVE  GoodPStates(res[u])
  <2>1. CASE u \in Groups /\ c \in CpusOf(u)
    <3>1. res[u] = RecordGroupFreq(own[u], t, HighestFreq(own, u))
      BY <1>5, <2>1
    <3>2. HighestFreq(own, u) \in Nat
      BY <1>3, HighestFreqType
    <3> QED BY <1>2, <3>1, <3>2, RecordGroupFreqGood
  <2>2. CASE ~(u \in Groups /\ c \in CpusOf(u))
    BY <1>2, <1>5, <2>2
  <2> QED BY <2>1, <2>2
<1>7. GoodP(res)
  BY <1>5, <1>6 DEF GoodP, GoodPStates
<1>8. \A d \in Cpus : res[d] = own[d]
  BY <1>5, UnitsDisjoint
<1>9. ASSUME NEW k \in Clusters
      PROVE  ClusterOK(res, k)
  <2>1. k \in Units /\ k \in Groups /\ CpusOf(k) \subseteq Cpus /\ k # c
    BY UnitsDisjoint, CpusOfUnit
  <2>2. HighestFreq(res, k) = HighestFreq(own, k)
    <3>1. \A d \in CpusOf(k) : res[d] = own[d]
      BY <1>8, <2>1
    <3> QED BY <2>1, <3>1, HighestFreqOfCpus
  <2>3. CASE c \in CpusOf(k)
    <3>1. res[k] = RecordGroupFreq(own[k], t, HighestFreq(own, k))
      BY <1>5, <2>1, <2>3
    <3>2. HighestFreq(own, k) \in Nat
      BY <1>3, <2>1, HighestFreqType
    <3>3. /\ res[k].cur # 0 <=> HighestFreq(own, k) > 0
          /\ OpenFreq(res[k]) >= HighestFreq(own, k)
      BY <1>2, <2>1, <3>1, <3>2, RecordGroupFreqGood
    <3> QED BY <2>2, <3>3 DEF ClusterOK
  <2>4. CASE c \notin CpusOf(k)
    <3>1. res[k] = ps[k]
      BY <1>4, <1>5, <2>1, <2>4
    <3>2. \A d \in CpusOf(k) : own[d] = ps[d]
      BY <1>4, <2>1, <2>4, UnitsDisjoint
    <3>3. HighestFreq(own, k) = HighestFreq(ps, k)
      BY <2>1, <3>2, HighestFreqOfCpus
    <3> QED BY <2>2, <3>1, <3>3 DEF ClusterOK, ClustersOK
  <2> QED BY <2>3, <2>4
<1> QED BY <1>7, <1>9 DEF ClustersOK, res, own

-----------------------------------------------------------------------------
(* The P-state half of every handler keeps the records well formed and     *)
(* the clusters with their CPUs.                                           *)
LEMMA CpuPstateIdleGood ==
    ASSUME NEW ps, GoodP(ps), ClustersOK(ps), NEW c \in Cpus, NEW t \in Int
    PROVE  GoodP(CpuPstateIdle(ps, c, t)) /\ ClustersOK(CpuPstateIdle(ps, c, t))
<1>1. GoodPStates(PstateIdle(ps[c], t))
  BY UnitsDisjoint, PstateIdleGood DEF GoodP
<1>2. CpuPstateIdle(ps, c, t) =
        CheckPstateComposite([ps EXCEPT ![c] = PstateIdle(ps[c], t)], c, t)
  BY DEF CpuPstateIdle
<1> QED BY <1>1, <1>2, CompositeGood

LEMMA CpuPstateRunningGood ==
    ASSUME NEW ps, GoodP(ps), ClustersOK(ps), NEW c \in Cpus, NEW t \in Int
    PROVE  GoodP(CpuPstateRunning(ps, c, t)) /\ ClustersOK(CpuPstateRunning(ps, c, t))
<1>1. GoodPStates(PstateRunning(ps[c], t))
  BY UnitsDisjoint, PstateRunningGood DEF GoodP
<1>2. CpuPstateRunning(ps, c, t) =
        CheckPstateComposite([ps EXCEPT ![c] = PstateRunning(ps[c], t)], c, t)
  BY DEF CpuPstateRunning
<1> QED BY <1>1, <1>2, CompositeGood

(* An idle CPU's frequency change does not reach the cluster, and need not: *)
(* a cluster's highest frequency skips idle CPUs.                          *)
LEMMA CpuChangePstateGood ==
    ASSUME NEW ps, GoodP(ps), ClustersOK(ps), NEW c \in Cpus, NEW f \in Nat,
           NEW t \in Int
    PROVE  /\ GoodP(CpuChangePstate(ps, c, f, t))
           /\ ClustersOK(CpuChangePstate(ps, c, f, t))
<1> DEFINE new     == ChangePstate(ps[c], f, t)
           changed == [ps EXCEPT ![c] = new]
<1>1. GoodPStates(ps[c]) /\ GoodPStates(new) /\ new.idle = ps[c].idle
  <2>1. GoodPStates(ps[c])
    BY UnitsDisjoint DEF GoodP
  <2> QED BY <2>1, ChangePstateGood
<1>2. CpuChangePstate(ps, c, f, t) =
        IF ps[c].idle = 1 THEN changed ELSE CheckPstateComposite(changed, c, t)
  BY DEF CpuChangePstate
<1> HIDE DEF new
<1>3. CASE ps[c].idle # 1
  BY <1>1, <1>2, <1>3, CompositeGood
<1>4. CASE ps[c].idle = 1
  <2>1. ps \in [Units -> PStatesType] /\ \A u \in Units : GoodPStates(ps[u])
    BY DEF GoodP
  <2>2. changed \in [Units -> PStatesType] /\ \A u \in Units : GoodPStates(changed[u])
    BY <1>1, <2>1, UnitsDisjoint DEF GoodPStates
  <2>3. changed[c] = new /\ \A u \in Units : u # c => changed[u] = ps[u]
    BY <2>1, UnitsDisjoint
  <2> HIDE DEF changed
  <2>4. ASSUME NEW k \in Clusters
        PROVE  ClusterOK(changed, k)
    <3>1. k \in Units /\ CpusOf(k) \subseteq Cpus /\ k # c /\ Cpus \subseteq Units
      BY UnitsDisjoint, CpusOfUnit
    <3>2. \A d \in CpusOf(k) : changed[d].idle = ps[d].idle
      BY <1>1, <2>3, <3>1
    <3>3. \A d \in CpusOf(k) : (k \in Clusters => changed[d].idle <= 0) =>
            OpenFreq(changed[d]) = OpenFreq(ps[d])
      BY <1>4, <2>3, <3>1, <3>2
    <3>4. HighestFreq(changed, k) = HighestFreq(ps, k)
      BY <3>1, <3>2, <3>3, HighestFreqOfCpus
    <3> QED BY <2>3, <3>1, <3>4 DEF ClusterOK, ClustersOK
  <2> QED BY <1>2, <1>4, <2>2, <2>4 DEF GoodP, ClustersOK
<1> QED BY <1>3, <1>4

-----------------------------------------------------------------------------
(* The bookkeeping half of TypeOK.                                         *)
RestOK ==
    /\ wake \in [Cpus -> [charged: BOOLEAN, irq: [Irqs -> IrqStat]]]
    /\ now \in Int
    /\ ended \subseteq Cpus
    /\ entries \in [Cpus -> Nat]
    /\ records \in 0 .. MaxRecords

Inv ==
    /\ GoodC(cst) /\ GroupsLeast(cst)
    /\ GoodP(pst) /\ ClustersOK(pst)
    /\ RestOK

LEMMA InvIsIInv == Inv <=> IInv
BY IInvParts DEF Inv, RestOK, TypeOK, GoodC, GoodP

(* Nothing is idle and no frequency known in the initial state.            *)
LEMMA InitInv == Init => Inv
<1> SUFFICES ASSUME Init
             PROVE  Inv
  OBVIOUS
<1>1. GoodC(cst) /\ \A u \in Units : cst[u].cur = -1
  BY NewCStatesGood DEF Init, GoodC, GoodCStates
<1>2. GoodP(pst) /\ \A u \in Units : pst[u] = NewPStates
  BY NewPStatesGood DEF Init, GoodP, GoodPStates
<1>3. GroupsLeast(cst)
  <2> SUFFICES ASSUME NEW u \in Groups
               PROVE  cst[u].cur = LeastCstate(cst, u)
    BY DEF GroupsLeast
  <2>1. u \in Units /\ CpusOf(u) \subseteq Units /\ CpusOf(u) # {}
    BY CpusOfUnit, UnitsDisjoint
  <2>2. {cst[c].cur : c \in CpusOf(u)} = {-1}
    BY <1>1, <2>1
  <2>3. Min({-1}) = -1
    BY DEF Min
  <2> QED BY <1>1, <2>1, <2>2, <2>3 DEF LeastCstate
<1>4. ClustersOK(pst)
  <2> SUFFICES ASSUME NEW k \in Clusters
               PROVE  ClusterOK(pst, k)
    BY DEF ClustersOK
  <2>1. k \in Units /\ CpusOf(k) \subseteq Units
    BY CpusOfUnit, UnitsDisjoint
  <2>2. OpenFreq(NewPStates) = 0 /\ NewPStates.cur = 0
    BY DEF OpenFreq, NewPStates
  <2> DEFINE A == {d \in CpusOf(k) : k \in Clusters => pst[d].idle <= 0}
  <2>3. {0} \cup {OpenFreq(pst[c]) : c \in A} = {0}
    BY <1>2, <2>1, <2>2
  <2>4. Max({0}) = 0
    BY DEF Max
  <2>5. HighestFreq(pst, k) = 0
    BY <2>3, <2>4 DEF HighestFreq
  <2> QED BY <1>2, <2>1, <2>2, <2>5 DEF ClusterOK
<1>5. RestOK
  BY InputAssumption DEF Init, RestOK, IrqStat
<1> QED BY <1>1, <1>2, <1>3, <1>4, <1>5 DEF Inv

(* A cpu_idle record.                                                      *)
LEMMA StoreDataInv ==
    ASSUME Inv, NEW c \in Cpus, NEW s \in State \cup {-1}, NEW t \in 0 .. MaxTime,
           StoreData(c, s, t)
    PROVE  Inv'
<1>1. t \in Int /\ now' = t /\ ended' = ended /\ records' \in 0 .. MaxRecords
  BY InputAssumption DEF StoreData, NextRecord, Inv, RestOK
<1>2. CASE s = -1 /\ cst[c].max = -1
  <2>1. UNCHANGED <<cst, pst, wake, entries>>
    BY <1>2 DEF StoreData
  <2>2. GoodC(cst') /\ GroupsLeast(cst') /\ GoodP(pst') /\ ClustersOK(pst')
    BY <2>1 DEF Inv
  <2>3. RestOK'
    BY <1>1, <2>1 DEF Inv, RestOK
  <2> QED BY <2>2, <2>3 DEF Inv
<1>3. CASE ~(s = -1 /\ cst[c].max = -1)
  <2>1. GoodC(cst') /\ GroupsLeast(cst')
    <3>1. cst' = StoreCstate(cst, c, s, t)
      BY <1>3 DEF StoreData
    <3> QED BY <1>1, <3>1, StoreCstateGood DEF Inv
  <2>2. GoodP(pst') /\ ClustersOK(pst')
    <3>1. pst' = IF pst[c].table = <<>> THEN pst
                 ELSE IF s = -1 THEN CpuPstateRunning(pst, c, t)
                                ELSE CpuPstateIdle(pst, c, t)
      BY <1>3 DEF StoreData
    <3> QED BY <1>1, <3>1, CpuPstateRunningGood, CpuPstateIdleGood DEF Inv
  <2>3. RestOK'
    <3>1. /\ wake' = [wake EXCEPT ![c].charged =
                        wake[c].charged /\ (s = -1 \/ s = cst[c].cur)]
          /\ entries' = [entries EXCEPT ![c] = @ + (IF s = -1 THEN 0 ELSE 1)]
      BY <1>3 DEF StoreData
    <3>2. wake' \in [Cpus -> [charged: BOOLEAN, irq: [Irqs -> IrqStat]]]
      BY <3>1 DEF Inv, RestOK
    <3>3. entries' \in [Cpus -> Nat]
      BY <3>1 DEF Inv, RestOK
    <3> QED BY <1>1, <3>2, <3>3 DEF Inv, RestOK
  <2> QED BY <2>1, <2>2, <2>3 DEF Inv
<1> QED BY <1>2, <1>3

(* A cpu_frequency record.                                                 *)
LEMMA ChangeFreqInv ==
    ASSUME Inv, NEW c \in Cpus, NEW f \in FreqRange \cup {0}, NEW t \in 0 .. MaxTime,
           ChangeFreq(c, f, t)
    PROVE  Inv'
<1>1. /\ t \in Int /\ now' = t /\ f \in Nat /\ records' \in 0 .. MaxRecords
      /\ UNCHANGED <<cst, wake, ended, entries>>
      /\ pst' = CpuChangePstate(pst, c, f, t)
  <2>1. f \in Nat /\ t \in Int
    BY InputAssumption
  <2>2. /\ now' = t /\ UNCHANGED <<cst, wake, ended, entries>>
        /\ pst' = CpuChangePstate(pst, c, f, t)
    BY DEF ChangeFreq
  <2>3. records < MaxRecords /\ records' = records + 1 /\ records \in 0 .. MaxRecords
    BY DEF ChangeFreq, NextRecord, Inv, RestOK
  <2>4. records' \in 0 .. MaxRecords
    BY <2>3, InputAssumption
  <2> QED BY <2>1, <2>2, <2>4
<1>2. GoodP(pst') /\ ClustersOK(pst')
  BY <1>1, CpuChangePstateGood DEF Inv
<1>3. GoodC(cst') /\ GroupsLeast(cst')
  BY <1>1 DEF Inv
<1>4. RestOK'
  BY <1>1 DEF Inv, RestOK
<1> QED BY <1>2, <1>3, <1>4 DEF Inv

(* A final record.                                                         *)
LEMMA EndOfTraceInv ==
    ASSUME Inv, NEW c \in Cpus, NEW t \in 0 .. MaxTime, EndOfTrace(c, t)
    PROVE  Inv'
<1>1. /\ t \in Int /\ now' = t /\ records' \in 0 .. MaxRecords
      /\ UNCHANGED <<cst, wake, entries>> /\ ended' = ended \cup {c}
      /\ pst' = CpuChangePstate(pst, c, 0, t)
  BY InputAssumption DEF EndOfTrace, NextRecord, Inv, RestOK
<1>2. GoodP(pst') /\ ClustersOK(pst')
  BY <1>1, CpuChangePstateGood DEF Inv
<1>3. GoodC(cst') /\ GroupsLeast(cst')
  BY <1>1 DEF Inv
<1>4. RestOK'
  BY <1>1 DEF Inv, RestOK
<1> QED BY <1>2, <1>3, <1>4 DEF Inv

(* An interrupt.                                                           *)
LEMMA StoreIrqInv ==
    ASSUME Inv, NEW c \in Cpus, NEW i \in Irqs, StoreIrq(c, i)
    PROVE  Inv'
<1> DEFINE w == ChargeWakeup(wake[c], i, cst[c].residency)
<1>1. /\ UNCHANGED <<cst, pst, now, ended, entries>> /\ records' \in 0 .. MaxRecords
      /\ wake' = [wake EXCEPT ![c] = w]
  BY InputAssumption DEF StoreIrq, NextRecord, Inv, RestOK
<1>2. wake[c] \in [charged: BOOLEAN, irq: [Irqs -> IrqStat]]
  BY DEF Inv, RestOK
<1>3. w \in [charged: BOOLEAN, irq: [Irqs -> IrqStat]]
  BY <1>2 DEF IrqStat, ChargeWakeup
<1> HIDE DEF w
<1>4. wake' \in [Cpus -> [charged: BOOLEAN, irq: [Irqs -> IrqStat]]]
  BY <1>1, <1>3 DEF Inv, RestOK
<1>5. GoodC(cst') /\ GroupsLeast(cst') /\ GoodP(pst') /\ ClustersOK(pst')
  BY <1>1 DEF Inv
<1> QED BY <1>1, <1>4, <1>5 DEF Inv, RestOK

-----------------------------------------------------------------------------
LEMMA InvStep ==
    ASSUME Inv, Next
    PROVE  Inv'
<1> PICK c \in Cpus :
      \/ \E s \in State \cup {-1}, t \in 0 .. MaxTime : StoreData(c, s, t)
      \/ \E f \in FreqRange \cup {0}, t \in 0 .. MaxTime : ChangeFreq(c, f, t)
      \/ \E t \in 0 .. MaxTime : EndOfTrace(c, t)
      \/ \E i \in Irqs : StoreIrq(c, i)
  BY DEF Next
<1> QED BY StoreDataInv, ChangeFreqInv, EndOfTraceInv, StoreIrqInv

(* IInv holds in every state of every trace.                               *)
THEOREM Invariance == Spec => []IInv
<1>1. Init => Inv
  BY InitInv
<1>2. Inv /\ [Next]_vars => Inv'
  <2> SUFFICES ASSUME Inv, [Next]_vars
               PROVE  Inv'
    OBVIOUS
  <2>1. CASE Next
    BY <2>1, InvStep
  <2>2. CASE UNCHANGED vars
    BY <2>2 DEF vars, Inv, RestOK, GoodC, GoodP, GroupsLeast, ClustersOK,
                ClusterOK, LeastCstate, HighestFreq
  <2> QED BY <2>1, <2>2
<1>3. Inv => IInv
  BY InvIsIInv
<1> QED BY <1>1, <1>2, <1>3, PTL DEF Spec

(* Every variable keeps its type (the structures of idlestat.h).           *)
THEOREM TypeCorrect == Spec => []TypeOK
<1>1. IInv => TypeOK
  BY DEF IInv
<1> QED BY <1>1, Invariance, PTL

(* A core or a cluster is always in the least C-state of its CPUs          *)
(* (store_data).                                                           *)
THEOREM GroupsInLeastCstate == Spec => []GroupCstateIsLeast
<1>1. IInv => GroupCstateIsLeast
  BY DEF IInv
<1> QED BY <1>1, Invariance, PTL

(* Tables stay sorted and `current' inside them (alloc_pstate).            *)
THEOREM TablesStaySorted == Spec => []TablesSorted
<1>1. IInv => TablesSorted
  BY DEF IInv
<1> QED BY <1>1, Invariance, PTL

(* Every record is that of some list of intervals (cstate_end,             *)
(* close_current_pstate), but for the minimum of the unnamed states of a   *)
(* core or cluster (create_states).                                        *)
THEOREM StatisticsCoherent == Spec => []StatsCoherent
<1>1. IInv => StatsCoherent
  BY DEF IInv
<1> QED BY <1>1, Invariance, PTL

(* A cluster has a frequency open exactly while a CPU of it is known to    *)
(* run at one (check_pstate_composite).                                    *)
THEOREM ClustersFollow == Spec => []ClusterOpenIffBusy
<1>1. IInv => ClusterOpenIffBusy
  BY DEF IInv
<1> QED BY <1>1, Invariance, PTL

(* A cluster's open frequency is never below its CPUs' highest: the stale  *)
(* index of record_group_freq errs upwards only.                           *)
THEOREM ClustersNeverBelow == Spec => []ClusterFreqNeverBelow
<1>1. IInv => ClusterFreqNeverBelow
  BY DEF IInv
<1> QED BY <1>1, Invariance, PTL

-----------------------------------------------------------------------------
(* Charges.                                                                *)

AllChargeOpen(ps, qs) == \A u \in Units : ChargesOpen(ps[u], qs[u])

(* A CPU's record and those of its core and cluster are changed by the     *)
(* functions on records only, each of them once.                           *)
LEMMA CompositeCharges ==
    ASSUME NEW ps, GoodP(ps), NEW c \in Cpus, NEW t \in Int,
           NEW new, GoodPStates(new), ChargesOpen(ps[c], new)
    PROVE  AllChargeOpen(ps, CheckPstateComposite([ps EXCEPT ![c] = new], c, t))
<1> DEFINE own == [ps EXCEPT ![c] = new]
           res == CheckPstateComposite(own, c, t)
<1>1. ps \in [Units -> PStatesType] /\ \A u \in Units : GoodPStates(ps[u])
  BY DEF GoodP
<1>2. own \in [Units -> PStatesType] /\ \A u \in Units : GoodPStates(own[u])
  BY <1>1, UnitsDisjoint DEF GoodPStates
<1>3. own[c] = new /\ \A u \in Units : u # c => own[u] = ps[u]
  BY <1>1, UnitsDisjoint
<1>4. res = [u \in Units |-> IF u \in Groups /\ c \in CpusOf(u)
                             THEN RecordGroupFreq(own[u], t, HighestFreq(own, u))
                             ELSE own[u]]
  BY DEF CheckPstateComposite
<1>5. GoodP(own)
  BY <1>2 DEF GoodP
<1> HIDE DEF own, res
<1>6. ASSUME NEW u \in Units
      PROVE  ChargesOpen(ps[u], res[u])
  <2>1. CASE u \in Groups /\ c \in CpusOf(u)
    <3>1. res[u] = RecordGroupFreq(ps[u], t, HighestFreq(own, u))
      BY <1>3, <1>4, <2>1, UnitsDisjoint
    <3>2. HighestFreq(own, u) \in Nat
      BY <1>5, HighestFreqType
    <3> QED BY <1>1, <3>1, <3>2, FunctionsChargeOpen
  <2>2. CASE ~(u \in Groups /\ c \in CpusOf(u))
    <3>1. res[u] = own[u] /\ ChargesOpen(ps[u], ps[u])
      BY <1>4, <2>2 DEF ChargesOpen
    <3> QED BY <1>3, <3>1
  <2> QED BY <2>1, <2>2
<1> QED BY <1>6 DEF AllChargeOpen, own, res

LEMMA HandlersCharge ==
    ASSUME NEW ps, GoodP(ps), NEW c \in Cpus, NEW f \in Nat, NEW t \in Int
    PROVE  /\ AllChargeOpen(ps, ps)
           /\ AllChargeOpen(ps, CpuPstateIdle(ps, c, t))
           /\ AllChargeOpen(ps, CpuPstateRunning(ps, c, t))
           /\ AllChargeOpen(ps, CpuChangePstate(ps, c, f, t))
<1>1. ps \in [Units -> PStatesType] /\ \A u \in Units : GoodPStates(ps[u])
  BY DEF GoodP
<1>2. GoodPStates(ps[c])
  BY <1>1, UnitsDisjoint
<1>3. AllChargeOpen(ps, ps)
  BY DEF AllChargeOpen, ChargesOpen
<1>4. AllChargeOpen(ps, CpuPstateIdle(ps, c, t))
  <2>1. GoodPStates(PstateIdle(ps[c], t)) /\ ChargesOpen(ps[c], PstateIdle(ps[c], t))
    BY <1>2, PstateIdleGood, FunctionsChargeOpen
  <2>2. CpuPstateIdle(ps, c, t) =
          CheckPstateComposite([ps EXCEPT ![c] = PstateIdle(ps[c], t)], c, t)
    BY DEF CpuPstateIdle
  <2> QED BY <2>1, <2>2, CompositeCharges
<1>5. AllChargeOpen(ps, CpuPstateRunning(ps, c, t))
  <2>1. GoodPStates(PstateRunning(ps[c], t)) /\ ChargesOpen(ps[c], PstateRunning(ps[c], t))
    BY <1>2, PstateRunningGood, FunctionsChargeOpen
  <2>2. CpuPstateRunning(ps, c, t) =
          CheckPstateComposite([ps EXCEPT ![c] = PstateRunning(ps[c], t)], c, t)
    BY DEF CpuPstateRunning
  <2> QED BY <2>1, <2>2, CompositeCharges
<1>6. AllChargeOpen(ps, CpuChangePstate(ps, c, f, t))
  <2> DEFINE new     == ChangePstate(ps[c], f, t)
             changed == [ps EXCEPT ![c] = new]
  <2>1. GoodPStates(new) /\ ChargesOpen(ps[c], new)
    BY <1>2, ChangePstateGood, FunctionsChargeOpen
  <2>2. CpuChangePstate(ps, c, f, t) =
          IF ps[c].idle = 1 THEN changed ELSE CheckPstateComposite(changed, c, t)
    BY DEF CpuChangePstate
  <2>3. AllChargeOpen(ps, CheckPstateComposite(changed, c, t))
    <3> HIDE DEF new
    <3> QED BY <2>1, CompositeCharges
  <2>4. AllChargeOpen(ps, changed)
    <3> HIDE DEF new
    <3>1. \A u \in Units : changed[u] = IF u = c THEN new ELSE ps[u]
      BY <1>1
    <3> QED BY <1>3, <2>1, <3>1 DEF AllChargeOpen
  <2> QED BY <2>2, <2>3, <2>4
<1> QED BY <1>3, <1>4, <1>5, <1>6

(* No frequency leaves a table, and time is charged only to the one that   *)
(* was open before the record (alloc_pstate, close_current_pstate).        *)
THEOREM ChargesOpenFrequency == Spec => ChargesOpenFreqOnly
<1> DEFINE A == \A u \in Units :
                  /\ Freqs(pst[u]) \subseteq Freqs(pst'[u])
                  /\ \A f \in Freqs(pst'[u]) :
                        \/ StatOf(pst'[u], f) = StatOf(pst[u], f)
                        \/ pst[u].cur # 0 /\ OpenFreq(pst[u]) = f
<1>1. IInv /\ [Next]_vars => [A]_vars
  <2> SUFFICES ASSUME IInv, Next
               PROVE  A
    OBVIOUS
  <2>1. GoodP(pst)
    BY InvIsIInv DEF Inv
  <2>2. AllChargeOpen(pst, pst')
    <3> PICK c \in Cpus :
          \/ \E s \in State \cup {-1}, t \in 0 .. MaxTime : StoreData(c, s, t)
          \/ \E f \in FreqRange \cup {0}, t \in 0 .. MaxTime : ChangeFreq(c, f, t)
          \/ \E t \in 0 .. MaxTime : EndOfTrace(c, t)
          \/ \E i \in Irqs : StoreIrq(c, i)
      BY DEF Next
    <3>1. \A f \in FreqRange \cup {0} : f \in Nat
      BY InputAssumption
    <3>2. \A t \in 0 .. MaxTime : t \in Int
      OBVIOUS
    <3>3. 0 \in Nat /\ pst = pst
      OBVIOUS
    <3>4. CASE \E s \in State \cup {-1}, t \in 0 .. MaxTime : StoreData(c, s, t)
      <4> PICK s \in State \cup {-1}, t \in 0 .. MaxTime : StoreData(c, s, t)
        BY <3>4
      <4>1. \/ pst' = pst
            \/ pst' = CpuPstateRunning(pst, c, t) \/ pst' = CpuPstateIdle(pst, c, t)
        BY DEF StoreData
      <4> QED BY <2>1, <3>2, <3>3, <4>1, HandlersCharge
    <3>5. CASE \E f \in FreqRange \cup {0}, t \in 0 .. MaxTime : ChangeFreq(c, f, t)
      BY <2>1, <3>1, <3>2, <3>5, HandlersCharge DEF ChangeFreq
    <3>6. CASE \E t \in 0 .. MaxTime : EndOfTrace(c, t)
      BY <2>1, <3>2, <3>3, <3>6, HandlersCharge DEF EndOfTrace
    <3>7. CASE \E i \in Irqs : StoreIrq(c, i)
      <4>1. pst' = pst
        BY <3>7 DEF StoreIrq
      <4> QED BY <2>1, <4>1 DEF AllChargeOpen, ChargesOpen
    <3> QED BY <3>4, <3>5, <3>6, <3>7
  <2> QED BY <2>2 DEF AllChargeOpen, ChargesOpen
<1> QED BY <1>1, Invariance, PTL DEF Spec, ChargesOpenFreqOnly
-----------------------------------------------------------------------------
(* Clusters and the CPUs they follow.                                      *)

AllFollow(ps, qs) ==
    \A k \in Clusters :
        \/ OpenFreq(qs[k]) = HighestFreq(qs, k)
        \/ Len(qs[k].table) > Len(ps[k].table)
        \/ qs[k] = ps[k] /\ OpenFreq(ps[k]) # HighestFreq(ps, k)

(* A cluster none of whose CPUs that count has changed is in or out of     *)
(* step as it was before.                                                  *)
LEMMA UntouchedFollows ==
    ASSUME NEW ps, NEW qs, NEW k \in Clusters, qs[k] = ps[k],
           \A d \in CpusOf(k) : qs[d].idle = ps[d].idle,
           \A d \in CpusOf(k) : qs[d].idle <= 0 => OpenFreq(qs[d]) = OpenFreq(ps[d])
    PROVE  \/ OpenFreq(qs[k]) = HighestFreq(qs, k)
           \/ OpenFreq(ps[k]) # HighestFreq(ps, k)
<1>1. k \in Units
  BY UnitsDisjoint
<1>2. HighestFreq(qs, k) = HighestFreq(ps, k)
  BY <1>1, HighestFreqOfCpus
<1> QED BY <1>2

(* check_pstate_composite after a change to CPU c alone.                   *)
LEMMA CompositeFollows ==
    ASSUME NEW ps, GoodP(ps), NEW c \in Cpus, NEW t \in Int,
           NEW new, GoodPStates(new)
    PROVE  AllFollow(ps, CheckPstateComposite([ps EXCEPT ![c] = new], c, t))
<1> DEFINE own == [ps EXCEPT ![c] = new]
           res == CheckPstateComposite(own, c, t)
<1>1. ps \in [Units -> PStatesType] /\ \A u \in Units : GoodPStates(ps[u])
  BY DEF GoodP
<1>2. own \in [Units -> PStatesType] /\ \A u \in Units : GoodPStates(own[u])
  BY <1>1, UnitsDisjoint DEF GoodPStates
<1>3. \A u \in Units : u # c => own[u] = ps[u]
  BY <1>1
<1>4. res = [u \in Units |-> IF u \in Groups /\ c \in CpusOf(u)
                             THEN RecordGroupFreq(own[u], t, HighestFreq(own, u))
                             ELSE own[u]]
  BY DEF CheckPstateComposite
<1>5. GoodP(own)
  BY <1>2 DEF GoodP
<1> HIDE DEF own, res
<1>6. \A d \in Cpus : res[d] = own[d]
  BY <1>4, UnitsDisjoint
<1>7. ASSUME NEW k \in Clusters
      PROVE  \/ OpenFreq(res[k]) = HighestFreq(res, k)
             \/ Len(res[k].table) > Len(ps[k].table)
             \/ res[k] = ps[k] /\ OpenFreq(ps[k]) # HighestFreq(ps, k)
  <2>1. k \in Units /\ k \in Groups /\ CpusOf(k) \subseteq Cpus /\ k # c
    BY UnitsDisjoint, CpusOfUnit
  <2>2. CASE c \in CpusOf(k)
    <3>1. res[k] = RecordGroupFreq(ps[k], t, HighestFreq(own, k))
      BY <1>3, <1>4, <2>1, <2>2
    <3>2. HighestFreq(own, k) \in Nat
      BY <1>5, <2>1, HighestFreqType
    <3>3. OpenFreq(res[k]) = HighestFreq(own, k) \/ Len(res[k].table) > Len(ps[k].table)
      BY <1>1, <2>1, <3>1, <3>2, RecordGroupFreqFollows
    <3>4. HighestFreq(res, k) = HighestFreq(own, k)
      <4>1. \A d \in CpusOf(k) : res[d] = own[d]
        BY <1>6, <2>1
      <4> QED BY <2>1, <4>1, HighestFreqOfCpus
    <3> QED BY <3>3, <3>4
  <2>3. CASE c \notin CpusOf(k)
    <3>1. res[k] = ps[k]
      BY <1>3, <1>4, <2>1, <2>3
    <3>2. \A d \in CpusOf(k) : res[d] = ps[d]
      BY <1>3, <1>6, <2>1, <2>3, UnitsDisjoint
    <3> QED BY <3>1, <3>2, UntouchedFollows
  <2> QED BY <2>2, <2>3
<1> QED BY <1>7 DEF AllFollow, own, res

(* Every handler, the change of an idle CPU's frequency included, which    *)
(* leaves its cluster alone.                                               *)
LEMMA HandlersFollow ==
    ASSUME NEW ps, GoodP(ps), NEW c \in Cpus, NEW f \in Nat, NEW t \in Int
    PROVE  /\ AllFollow(ps, ps)
           /\ AllFollow(ps, CpuPstateIdle(ps, c, t))
           /\ AllFollow(ps, CpuPstateRunning(ps, c, t))
           /\ AllFollow(ps, CpuChangePstate(ps, c, f, t))
<1>1. ps \in [Units -> PStatesType] /\ \A u \in Units : GoodPStates(ps[u])
  BY DEF GoodP
<1>2. GoodPStates(ps[c])
  BY <1>1, UnitsDisjoint
<1>3. AllFollow(ps, ps)
  BY DEF AllFollow
<1>4. AllFollow(ps, CpuPstateIdle(ps, c, t))
  <2>1. GoodPStates(PstateIdle(ps[c], t))
    BY <1>2, PstateIdleGood
  <2>2. CpuPstateIdle(ps, c, t) =
          CheckPstateComposite([ps EXCEPT ![c] = PstateIdle(ps[c], t)], c, t)
    BY DEF CpuPstateIdle
  <2> QED BY <2>1, <2>2, CompositeFollows
<1>5. AllFollow(ps, CpuPstateRunning(ps, c, t))
  <2>1. GoodPStates(PstateRunning(ps[c], t))
    BY <1>2, PstateRunningGood
  <2>2. CpuPstateRunning(ps, c, t) =
          CheckPstateComposite([ps EXCEPT ![c] = PstateRunning(ps[c], t)], c, t)
    BY DEF CpuPstateRunning
  <2> QED BY <2>1, <2>2, CompositeFollows
<1>6. AllFollow(ps, CpuChangePstate(ps, c, f, t))
  <2> DEFINE new     == ChangePstate(ps[c], f, t)
             changed == [ps EXCEPT ![c] = new]
  <2>1. GoodPStates(new) /\ new.idle = ps[c].idle
    BY <1>2, ChangePstateGood
  <2>2. CpuChangePstate(ps, c, f, t) =
          IF ps[c].idle = 1 THEN changed ELSE CheckPstateComposite(changed, c, t)
    BY DEF CpuChangePstate
  <2> HIDE DEF new
  <2>3. AllFollow(ps, CheckPstateComposite(changed, c, t))
    BY <2>1, CompositeFollows
  <2>4. ASSUME ps[c].idle = 1
        PROVE  AllFollow(ps, changed)
    <3>1. changed[c] = new /\ \A u \in Units : u # c => changed[u] = ps[u]
      BY <1>1, UnitsDisjoint
    <3> HIDE DEF changed
    <3>2. ASSUME NEW k \in Clusters
          PROVE  /\ changed[k] = ps[k]
                 /\ OpenFreq(changed[k]) = HighestFreq(changed, k)
                    \/ OpenFreq(ps[k]) # HighestFreq(ps, k)
      <4>1. k \in Units /\ CpusOf(k) \subseteq Cpus /\ k # c /\ Cpus \subseteq Units
        BY UnitsDisjoint, CpusOfUnit
      <4>2. changed[k] = ps[k]
        BY <3>1, <4>1
      <4>3. \A d \in CpusOf(k) : changed[d].idle = ps[d].idle
        BY <2>1, <3>1, <4>1
      <4>4. \A d \in CpusOf(k) : changed[d].idle <= 0 =>
              OpenFreq(changed[d]) = OpenFreq(ps[d])
        BY <2>4, <3>1, <4>1, <4>3
      <4> QED BY <4>2, <4>3, <4>4, UntouchedFollows
    <3> QED BY <3>2 DEF AllFollow
  <2> QED BY <2>2, <2>3, <2>4
<1> QED BY <1>3, <1>4, <1>5, <1>6

(* Only a frequency never seen before puts a cluster out of step with its  *)
(* CPUs, and any later change of its frequency puts it back                *)
(* (record_group_freq).                                                    *)
THEOREM OutOfStepOnlyByInsertion == Spec => OutOfStepByInsertionOnly
<1> DEFINE A == \A k \in Clusters :
                  \/ OpenFreq(pst'[k]) = HighestFreq(pst', k)
                  \/ Len(pst'[k].table) > Len(pst[k].table)
                  \/ pst'[k] = pst[k] /\ OpenFreq(pst[k]) # HighestFreq(pst, k)
<1>1. IInv /\ [Next]_vars => [A]_vars
  <2> SUFFICES ASSUME IInv, Next
               PROVE  A
    OBVIOUS
  <2>1. GoodP(pst)
    BY InvIsIInv DEF Inv
  <2>2. AllFollow(pst, pst')
    <3> PICK c \in Cpus :
          \/ \E s \in State \cup {-1}, t \in 0 .. MaxTime : StoreData(c, s, t)
          \/ \E f \in FreqRange \cup {0}, t \in 0 .. MaxTime : ChangeFreq(c, f, t)
          \/ \E t \in 0 .. MaxTime : EndOfTrace(c, t)
          \/ \E i \in Irqs : StoreIrq(c, i)
      BY DEF Next
    <3>1. \A f \in FreqRange \cup {0} : f \in Nat
      BY InputAssumption
    <3>2. \A t \in 0 .. MaxTime : t \in Int
      OBVIOUS
    <3>3. 0 \in Nat
      OBVIOUS
    <3>4. CASE \E s \in State \cup {-1}, t \in 0 .. MaxTime : StoreData(c, s, t)
      <4> PICK s \in State \cup {-1}, t \in 0 .. MaxTime : StoreData(c, s, t)
        BY <3>4
      <4>1. \/ pst' = pst
            \/ pst' = CpuPstateRunning(pst, c, t) \/ pst' = CpuPstateIdle(pst, c, t)
        BY DEF StoreData
      <4> QED BY <2>1, <3>2, <3>3, <4>1, HandlersFollow
    <3>5. CASE \E f \in FreqRange \cup {0}, t \in 0 .. MaxTime : ChangeFreq(c, f, t)
      BY <2>1, <3>1, <3>2, <3>5, HandlersFollow DEF ChangeFreq
    <3>6. CASE \E t \in 0 .. MaxTime : EndOfTrace(c, t)
      BY <2>1, <3>2, <3>3, <3>6, HandlersFollow DEF EndOfTrace
    <3>7. CASE \E i \in Irqs : StoreIrq(c, i)
      <4>1. pst' = pst
        BY <3>7 DEF StoreIrq
      <4> QED BY <4>1 DEF AllFollow
    <3> QED BY <3>4, <3>5, <3>6, <3>7
  <2>3. A <=> AllFollow(pst, pst')
    BY DEF AllFollow
  <2> QED BY <2>2, <2>3
<1> QED BY <1>1, Invariance, PTL DEF Spec, OutOfStepByInsertionOnly

-----------------------------------------------------------------------------
(* Idle clusters.                                                          *)

(* A CPU in a C-state is known by its P-states to be idle.                 *)
IdleKnown == \A c \in Cpus : cst[c].cur # -1 => pst[c].idle = 1

(* The composite leaves what is known of the CPUs alone, its own excepted. *)
LEMMA CompositeKeepsIdle ==
    ASSUME NEW ps, GoodP(ps), NEW c \in Cpus, NEW t \in Int, NEW new,
           NEW d \in Cpus
    PROVE  CheckPstateComposite([ps EXCEPT ![c] = new], c, t)[d].idle =
               IF d = c THEN new.idle ELSE ps[d].idle
BY UnitsDisjoint DEF CheckPstateComposite, GoodP

(* What each handler tells the CPU's P-states (cpu_pstate_idle,            *)
(* cpu_pstate_running, cpu_change_pstate).                                 *)
LEMMA HandlersIdle ==
    ASSUME NEW ps, GoodP(ps), NEW c \in Cpus, NEW f \in Nat, NEW t \in Int,
           NEW d \in Cpus
    PROVE  /\ CpuPstateIdle(ps, c, t)[d].idle = IF d = c THEN 1 ELSE ps[d].idle
           /\ d # c => CpuPstateRunning(ps, c, t)[d].idle = ps[d].idle
           /\ CpuChangePstate(ps, c, f, t)[d].idle = ps[d].idle
<1>1. ps \in [Units -> PStatesType] /\ GoodPStates(ps[c]) /\ c \in Units /\ d \in Units
  BY UnitsDisjoint DEF GoodP
<1>2. CpuPstateIdle(ps, c, t) =
        CheckPstateComposite([ps EXCEPT ![c] = PstateIdle(ps[c], t)], c, t)
  BY DEF CpuPstateIdle
<1>3. CpuPstateRunning(ps, c, t) =
        CheckPstateComposite([ps EXCEPT ![c] = PstateRunning(ps[c], t)], c, t)
  BY DEF CpuPstateRunning
<1> DEFINE new     == ChangePstate(ps[c], f, t)
           changed == [ps EXCEPT ![c] = new]
<1>4. CpuChangePstate(ps, c, f, t) =
        IF ps[c].idle = 1 THEN changed ELSE CheckPstateComposite(changed, c, t)
  BY DEF CpuChangePstate
<1>5. new.idle = ps[c].idle
  BY <1>1, ChangePstateGood
<1> HIDE DEF new
<1>6. changed[d].idle = ps[d].idle
  BY <1>1, <1>5
<1>7. CheckPstateComposite(changed, c, t)[d].idle = ps[d].idle
  BY <1>5, CompositeKeepsIdle
<1> HIDE DEF changed
<1>8. CpuChangePstate(ps, c, f, t)[d].idle = ps[d].idle
  BY <1>4, <1>6, <1>7
<1>9. CpuPstateIdle(ps, c, t)[d].idle = IF d = c THEN 1 ELSE ps[d].idle
  <2> DEFINE idle == PstateIdle(ps[c], t)
  <2>1. idle.idle = 1
    BY <1>1, PstateIdleGood
  <2>2. CpuPstateIdle(ps, c, t) = CheckPstateComposite([ps EXCEPT ![c] = idle], c, t)
    BY <1>2
  <2> HIDE DEF idle
  <2>3. CpuPstateIdle(ps, c, t)[d].idle = IF d = c THEN idle.idle ELSE ps[d].idle
    BY <2>2, CompositeKeepsIdle
  <2> QED BY <2>1, <2>3
<1>10. d # c => CpuPstateRunning(ps, c, t)[d].idle = ps[d].idle
  BY <1>3, CompositeKeepsIdle
<1> QED BY <1>8, <1>9, <1>10

(* A CPU's C-state after a cpu_idle record.                                *)
LEMMA StoreCstateCpus ==
    ASSUME NEW cs, GoodC(cs), NEW c \in Cpus, NEW s \in State \cup {-1},
           NEW t \in Int, NEW d \in Cpus
    PROVE  StoreCstate(cs, c, s, t)[d].cur = IF d = c THEN s ELSE cs[d].cur
<1> DEFINE ev  == RecordCstateEvent(cs[c], Target(c), t, s)
           own == [cs EXCEPT ![c] = ev]
<1>1. cs \in [Units -> CStatesType] /\ GoodCStates(cs[c], Initialised(c)) /\ c \in Units /\ d \in Units
  BY UnitsDisjoint DEF GoodC
<1>2. ev.cur = s
  BY <1>1, RecordCstateEventGood
<1>3. StoreCstate(cs, c, s, t)[d] = own[d]
  BY <1>1, UnitsDisjoint DEF StoreCstate
<1> HIDE DEF ev
<1> QED BY <1>1, <1>2, <1>3

(* In a trace that starts with the frequencies, no record breaks IdleKnown: *)
(* a CPU's table is never empty when it goes idle, so that store_data tells *)
(* both halves.                                                            *)
LEMMA IdleKnownStep ==
    ASSUME Native, Inv, IdleKnown, Next
    PROVE  IdleKnown'
<1>1. GoodC(cst) /\ GoodP(pst)
  BY DEF Inv
<1> PICK c \in Cpus :
      \/ \E s \in State \cup {-1}, t \in 0 .. MaxTime : StoreData(c, s, t)
      \/ \E f \in FreqRange \cup {0}, t \in 0 .. MaxTime : ChangeFreq(c, f, t)
      \/ \E t \in 0 .. MaxTime : EndOfTrace(c, t)
      \/ \E i \in Irqs : StoreIrq(c, i)
  BY DEF Next
<1>2. \A f \in FreqRange \cup {0} : f \in Nat
  BY InputAssumption
<1>3. CASE \E s \in State \cup {-1}, t \in 0 .. MaxTime : StoreData(c, s, t)
  <2> PICK s \in State \cup {-1}, t \in 0 .. MaxTime : StoreData(c, s, t)
    BY <1>3
  <2>1. CASE s = -1 /\ cst[c].max = -1
    BY <2>1 DEF StoreData, IdleKnown
  <2>2. CASE ~(s = -1 /\ cst[c].max = -1)
    <3>1. /\ cst' = StoreCstate(cst, c, s, t)
          /\ pst' = IF s = -1 THEN CpuPstateRunning(pst, c, t)
                              ELSE CpuPstateIdle(pst, c, t)
      BY <2>2 DEF StoreData, Started
    <3> SUFFICES ASSUME NEW d \in Cpus, cst'[d].cur # -1
                 PROVE  pst'[d].idle = 1
      BY DEF IdleKnown
    <3>2. cst'[d].cur = IF d = c THEN s ELSE cst[d].cur
      BY <1>1, <3>1, StoreCstateCpus
    <3>3. d # c => pst[d].idle = 1
      BY <3>2 DEF IdleKnown
    <3>4. t \in Int /\ 0 \in Nat
      OBVIOUS
    <3>5. CASE s = -1
      BY <1>1, <3>1, <3>2, <3>3, <3>4, <3>5, HandlersIdle
    <3>6. CASE s # -1
      BY <1>1, <3>1, <3>3, <3>4, <3>6, HandlersIdle
    <3> QED BY <3>5, <3>6
  <2> QED BY <2>1, <2>2
<1>4. CASE \E f \in FreqRange \cup {0}, t \in 0 .. MaxTime : ChangeFreq(c, f, t)
  BY <1>1, <1>2, <1>4, HandlersIdle DEF ChangeFreq, IdleKnown
<1>5. CASE \E t \in 0 .. MaxTime : EndOfTrace(c, t)
  BY <1>1, <1>5, HandlersIdle DEF EndOfTrace, IdleKnown
<1>6. CASE \E i \in Irqs : StoreIrq(c, i)
  BY <1>6 DEF StoreIrq, IdleKnown
<1> QED BY <1>3, <1>4, <1>5, <1>6

(* A cluster in a C-state has no CPU that counts for its frequency, hence  *)
(* none open.                                                              *)
LEMMA IdleClusters ==
    ASSUME Inv, IdleKnown
    PROVE  ClusterIdleOrBusy
<1> SUFFICES ASSUME NEW k \in Clusters, cst[k].cur # -1
             PROVE  pst[k].cur = 0
  BY DEF ClusterIdleOrBusy
<1>1. k \in Groups /\ k \in Units /\ Cpus \subseteq Units
  BY UnitsDisjoint
<1>2. CpusOf(k) \subseteq Cpus /\ CpusOf(k) # {} /\ IsFiniteSet(CpusOf(k))
  BY <1>1, CpusOfUnit
<1> DEFINE cur == [c \in CpusOf(k) |-> cst[c].cur]
           S   == {cur[c] : c \in CpusOf(k)}
<1>3. \A c \in CpusOf(k) : cur[c] \in Int /\ cur[c] >= -1
  BY <1>1, <1>2 DEF Inv, GoodC, CStatesType, State
<1>4. cst[k].cur = Min(S)
  BY <1>1 DEF Inv, GroupsLeast, LeastCstate
<1>5. IsFiniteSet(S) /\ S # {} /\ S \subseteq Int
  <2>1. IsFiniteSet(S)
    <3> HIDE DEF cur
    <3> QED BY <1>2, FiniteImage
  <2> QED BY <1>2, <1>3, <2>1
<1>6. \A x \in S : Min(S) <= x
  <2> HIDE DEF S
  <2> QED BY <1>5, MinIsLeast
<1>7. \A x \in S : x # -1
  <2>1. Min(S) \in S
    <3> HIDE DEF S
    <3> QED BY <1>5, MinIsLeast
  <2>2. Min(S) \in Int /\ Min(S) >= -1
    BY <1>3, <2>1
  <2> QED BY <1>3, <1>4, <1>6, <2>2
<1>8. \A c \in CpusOf(k) : pst[c].idle = 1
  BY <1>2, <1>7 DEF IdleKnown
<1>9. HighestFreq(pst, k) = 0
  <2>1. {d \in CpusOf(k) : k \in Clusters => pst[d].idle <= 0} = {}
    BY <1>8
  <2> DEFINE A == {d \in CpusOf(k) : k \in Clusters => pst[d].idle <= 0}
  <2>2. {0} \cup {OpenFreq(pst[c]) : c \in A} = {0}
    <3> HIDE DEF A
    <3> QED BY <2>1 DEF A
  <2>3. Max({0}) = 0
    BY DEF Max
  <2> QED BY <2>2, <2>3 DEF HighestFreq
<1> QED BY <1>9 DEF Inv, ClustersOK, ClusterOK

(* In a trace idlestat wrote, no cluster is charged to a frequency while   *)
(* all of its CPUs are idle (store_data, cluster_get_highest_freq).        *)
THEOREM IdleClustersNotCharged ==
    ASSUME Native
    PROVE  Spec => []ClusterIdleOrBusy
<1>1. Init => IdleKnown
  BY UnitsDisjoint DEF Init, IdleKnown, NewCStates
<1>2. Inv /\ IdleKnown /\ [Next]_vars => IdleKnown'
  <2> SUFFICES ASSUME Inv, IdleKnown, [Next]_vars
               PROVE  IdleKnown'
    OBVIOUS
  <2>1. CASE Next
    BY <2>1, IdleKnownStep
  <2>2. CASE UNCHANGED vars
    BY <2>2 DEF vars, IdleKnown
  <2> QED BY <2>1, <2>2
<1>3. IInv => Inv
  BY InvIsIInv
<1>4. Inv /\ IdleKnown => ClusterIdleOrBusy
  BY IdleClusters
<1> QED BY <1>1, <1>2, <1>3, <1>4, Invariance, PTL DEF Spec

-----------------------------------------------------------------------------
(* C-state times are residencies: TraceLoad implements Residency.          *)

(* Times between the first and the last timestamp, and no state opened     *)
(* later than now.                                                         *)
TimesOK ==
    /\ now \in 0 .. MaxTime
    /\ \A u \in Units : OpenedBy(cst[u], now)

(* A cpu_idle record changes no unit's times: every unit is told of it at  *)
(* most once, a group after its CPU.                                       *)
LEMMA StoreCstateTime ==
    ASSUME NEW cs, GoodC(cs), NEW c \in Cpus, NEW s \in State \cup {-1}, NEW t \in Int,
           \A u \in Units : OpenedBy(cs[u], t)
    PROVE  \A u \in Units :
               /\ OpenedBy(StoreCstate(cs, c, s, t)[u], t)
               /\ \A q \in State :
                    Spent(StoreCstate(cs, c, s, t)[u], q, t) = Spent(cs[u], q, t)
<1> DEFINE ev  == RecordCstateEvent(cs[c], Target(c), t, s)
           own == [cs EXCEPT ![c] = ev]
           res == StoreCstate(cs, c, s, t)
<1>1. /\ cs \in [Units -> CStatesType] /\ c \in Units /\ c \notin Groups
      /\ \A u \in Units : GoodCStates(cs[u], Initialised(u))
  BY UnitsDisjoint DEF GoodC
<1>2. GoodCStates(ev, Initialised(c)) /\ OpenedBy(ev, t) /\ \A q \in State : Spent(ev, q, t) = Spent(cs[c], q, t)
  <2>1. GoodCStates(cs[c], Initialised(c)) /\ OpenedBy(cs[c], t)
    BY <1>1
  <2>2. GoodCStates(ev, Initialised(c))
    BY <2>1, RecordCstateEventGood
  <2>3. ASSUME NEW q \in State
        PROVE  OpenedBy(ev, t) /\ Spent(ev, q, t) = Spent(cs[c], q, t)
    BY <2>1, RecordCstateEventTime
  <2>4. 0 \in State
    BY NStatesAssumption DEF State
  <2> HIDE DEF ev
  <2> QED BY <2>2, <2>3, <2>4
<1>3. res = [u \in Units |->
               IF u \in Groups /\ c \in CpusOf(u)
               THEN RecordCstateEvent(own[u], Target(u), t, LeastCstate(own, u))
               ELSE own[u]]
  BY DEF StoreCstate
<1> HIDE DEF ev, res
<1>4. own[c] = ev /\ \A u \in Units : u # c => own[u] = cs[u]
  BY <1>1
<1>5. GoodC(own)
  BY <1>1, <1>2 DEF GoodC, GoodCStates
<1> HIDE DEF own
<1>6. ASSUME NEW u \in Units
      PROVE  OpenedBy(res[u], t) /\ \A q \in State : Spent(res[u], q, t) = Spent(cs[u], q, t)
  <2>1. CASE u \in Groups /\ c \in CpusOf(u)
    <3>1. res[u] = RecordCstateEvent(cs[u], Target(u), t, LeastCstate(own, u))
      BY <1>1, <1>3, <1>4, <2>1
    <3> DEFINE r == RecordCstateEvent(cs[u], Target(u), t, LeastCstate(own, u))
    <3>2. LeastCstate(own, u) \in State \cup {-1}
      BY <1>5, LeastCstateType
    <3>3. GoodCStates(cs[u], Initialised(u)) /\ OpenedBy(cs[u], t)
      BY <1>1
    <3>4. ASSUME NEW q \in State
          PROVE  OpenedBy(r, t) /\ Spent(r, q, t) = Spent(cs[u], q, t)
      BY <3>2, <3>3, RecordCstateEventTime
    <3>5. 0 \in State
      BY NStatesAssumption DEF State
    <3> HIDE DEF r
    <3>6. OpenedBy(r, t) /\ \A q \in State : Spent(r, q, t) = Spent(cs[u], q, t)
      BY <3>4, <3>5
    <3> QED BY <3>1, <3>6 DEF r
  <2>2. CASE ~(u \in Groups /\ c \in CpusOf(u))
    <3>1. res[u] = own[u]
      BY <1>3, <2>2
    <3> QED BY <1>2, <1>4, <3>1
  <2> QED BY <2>1, <2>2
<1> QED BY <1>6 DEF res

(* What every step does to the C-states, when timestamps do not go back.   *)
LEMMA CstateStep ==
    ASSUME Backstep = 0, Inv, TimesOK, Next
    PROVE  /\ now' \in 0 .. MaxTime /\ now' >= now
           /\ \/ cst' = cst
              \/ \E c \in Cpus, s \in State \cup {-1} :
                    cst' = StoreCstate(cst, c, s, now')
<1> PICK c \in Cpus :
      \/ \E s \in State \cup {-1}, t \in 0 .. MaxTime : StoreData(c, s, t)
      \/ \E f \in FreqRange \cup {0}, t \in 0 .. MaxTime : ChangeFreq(c, f, t)
      \/ \E t \in 0 .. MaxTime : EndOfTrace(c, t)
      \/ \E i \in Irqs : StoreIrq(c, i)
  BY DEF Next
<1>1. CASE \E s \in State \cup {-1}, t \in 0 .. MaxTime : StoreData(c, s, t)
  <2> PICK s \in State \cup {-1}, t \in 0 .. MaxTime : StoreData(c, s, t)
    BY <1>1
  <2>1. now' = t /\ t >= now
    BY InputAssumption DEF StoreData, Timestamp, TimesOK
  <2>2. cst' = cst \/ cst' = StoreCstate(cst, c, s, t)
    BY DEF StoreData
  <2> QED BY <2>1, <2>2
<1>2. CASE \E f \in FreqRange \cup {0}, t \in 0 .. MaxTime : ChangeFreq(c, f, t)
  BY <1>2, InputAssumption DEF ChangeFreq, Timestamp, TimesOK
<1>3. CASE \E t \in 0 .. MaxTime : EndOfTrace(c, t)
  BY <1>3, InputAssumption DEF EndOfTrace, Timestamp, TimesOK
<1>4. CASE \E i \in Irqs : StoreIrq(c, i)
  BY <1>4, InputAssumption DEF StoreIrq, TimesOK
<1> QED BY <1>1, <1>2, <1>3, <1>4

LEMMA TimesAlwaysOK ==
    ASSUME Backstep = 0
    PROVE  Spec => []TimesOK
<1>1. Init => TimesOK
  BY InputAssumption DEF Init, TimesOK, OpenedBy, NewCStates
<1>2. ASSUME Inv, TimesOK, Next
      PROVE  TimesOK'
  <2>1. CASE cst' = cst
    BY <1>2, <2>1, CstateStep DEF TimesOK, OpenedBy, Inv, GoodC, CStatesType
  <2>2. CASE \E c \in Cpus, s \in State \cup {-1} : cst' = StoreCstate(cst, c, s, now')
    <3> PICK c \in Cpus, s \in State \cup {-1} : cst' = StoreCstate(cst, c, s, now')
      BY <2>2
    <3>1. now' \in 0 .. MaxTime /\ now' >= now /\ now' \in Int /\ now \in Int
      BY <1>2, CstateStep DEF TimesOK
    <3>2. \A u \in Units : OpenedBy(cst[u], now')
      BY <1>2, <3>1 DEF TimesOK, OpenedBy, Inv, GoodC, CStatesType
    <3>3. GoodC(cst)
      BY <1>2 DEF Inv
    <3> QED BY <3>1, <3>2, <3>3, StoreCstateTime DEF TimesOK
  <2> QED BY <1>2, <2>1, <2>2, CstateStep
<1>3. UNCHANGED vars /\ TimesOK => TimesOK'
  BY DEF vars, TimesOK
<1>4. IInv => Inv
  BY InvIsIInv
<1> QED BY <1>1, <1>2, <1>3, <1>4, Invariance, PTL DEF Spec

(* A record that comes at t changes no time up to t.                       *)
LEMMA SpentKept ==
    ASSUME Backstep = 0, Inv, TimesOK, Next
    PROVE  \A u \in Units, q \in State : Spent(cst'[u], q, now') = Spent(cst[u], q, now')
<1>1. now' \in Int /\ now \in Int /\ now' >= now
  BY CstateStep DEF TimesOK
<1>2. \A u \in Units : OpenedBy(cst[u], now')
  BY <1>1 DEF TimesOK, OpenedBy, Inv, GoodC, CStatesType
<1>3. CASE cst' = cst
  BY <1>3
<1>4. CASE \E c \in Cpus, s \in State \cup {-1} : cst' = StoreCstate(cst, c, s, now')
  BY <1>1, <1>2, <1>4, StoreCstateTime DEF Inv
<1> QED BY <1>3, <1>4, CstateStep

(* Every unit is in the shallowest state of its CPUs.                      *)
LEMMA ShallowestState ==
    ASSUME Inv, NEW u \in Units
    PROVE  ResidencyOf!Shallowest(u) = cst[u].cur
<1>1. ResidencyOf!Shallowest(u) = LeastCstate(cst, u)
  <2>1. \A c \in CpusOf(u) : [d \in Cpus |-> cst[d].cur][c] = cst[c].cur
    BY CpusOfUnit
  <2>2. {[d \in Cpus |-> cst[d].cur][c] : c \in CpusOf(u)} = {cst[c].cur : c \in CpusOf(u)}
    BY <2>1
  <2> QED BY <2>2 DEF ResidencyOf!Shallowest, ResidencyOf!Min, LeastCstate, Min
<1>2. CASE u \in Groups
  BY <1>1, <1>2 DEF Inv, GroupsLeast
<1>3. CASE u \in Cpus
  <2>1. CpusOf(u) = {u}
    BY <1>3, TopologyAssumption DEF CpusOf
  <2>2. LeastCstate(cst, u) = Min({cst[u].cur})
    BY <2>1 DEF LeastCstate
  <2>3. cst[u].cur \in Int
    BY DEF Inv, GoodC, CStatesType, State
  <2>4. Min({cst[u].cur}) = cst[u].cur
    BY <2>3 DEF Min
  <2> QED BY <1>1, <2>2, <2>4
<1> QED BY <1>2, <1>3 DEF Units

(* Loading a trace whose timestamps do not go back computes the time every *)
(* CPU, core and cluster spent in each state: every record is a step of    *)
(* Residency, or changes nothing it knows of (store_data).                 *)
THEOREM ImplementsResidency ==
    ASSUME Backstep = 0
    PROVE  Spec => ResidencySpec
<1> DEFINE idle  == [c \in Cpus |-> cst[c].cur]
           total == [u \in Units |-> [s \in State |->
                        cst[u].stat[s].all.sum
                          + (IF cst[u].cur = s THEN now - cst[u].begin ELSE 0)]]
<1>1. Init => ResidencyOf!Init
  <2> SUFFICES ASSUME Init
               PROVE  ResidencyOf!Init
    OBVIOUS
  <2>1. \A u \in Units : cst[u] = NewCStates(Initialised(u))
    BY DEF Init
  <2>2. idle = [c \in Cpus |-> -1]
    <3>1. \A c \in Cpus : cst[c].cur = -1
      BY <2>1, NewCStatesGood, UnitsDisjoint
    <3> QED BY <3>1
  <2>3. \A u \in Units : \A s \in State : cst[u].stat[s].all.sum = 0 /\ cst[u].cur # s
    <3>1. \A u \in Units, s \in State : NewCStates(Initialised(u)).stat[s].all.sum = 0
      BY DEF NewCStates, NoStat
    <3>2. \A u \in Units, s \in State : NewCStates(Initialised(u)).cur # s
      BY DEF NewCStates, State
    <3> QED BY <2>1, <3>1, <3>2
  <2>4. total = [u \in Units |-> [s \in State |-> 0]]
    BY <2>3
  <2> QED BY <2>2, <2>4 DEF ResidencyOf!Init, Init
<1>2. ASSUME Inv, TimesOK, Next
      PROVE  [ResidencyOf!Next]_(ResidencyOf!vars)
  <2>1. now' \in 0 .. MaxTime /\ now' >= now /\ now' \in Int /\ now \in Int
    BY <1>2, CstateStep DEF TimesOK
  <2>2. \A u \in Units : GoodCStates(cst[u], Initialised(u)) /\ OpenedBy(cst[u], now')
    BY <1>2, <2>1 DEF TimesOK, OpenedBy, Inv, GoodC, GoodCStates, CStatesType
  <2>3. \A u \in Units, q \in State : Spent(cst'[u], q, now') = Spent(cst[u], q, now')
    BY <1>2, SpentKept
  <2>4. \A u \in Units, q \in State :
          Spent(cst[u], q, now') = Spent(cst[u], q, now)
            + (IF ResidencyOf!Shallowest(u) = q THEN now' - now ELSE 0)
    <3> TAKE u \in Units, q \in State
    <3>1. ResidencyOf!Shallowest(u) = cst[u].cur
      BY <1>2, ShallowestState
    <3>2. cst[u].begin \in Int /\ cst[u].stat[q].all.sum \in Int
      BY <2>2 DEF GoodCStates, CStatesType, CStatsType, StatType
    <3> QED BY <2>1, <3>1, <3>2 DEF Spent
  <2>5. total = [u \in Units |-> [q \in State |-> Spent(cst[u], q, now)]]
    BY DEF Spent
  <2>6. total' = [u \in Units |-> [q \in State |-> Spent(cst'[u], q, now')]]
    BY DEF Spent
  <2>7. total' = [u \in Units |-> [s \in State |->
          total[u][s] + (IF ResidencyOf!Shallowest(u) = s THEN now' - now ELSE 0)]]
    <3> HIDE DEF total
    <3> QED BY <2>3, <2>4, <2>5, <2>6
  <2>8. \E c \in Cpus, s \in State \cup {-1} : idle' = [idle EXCEPT ![c] = s]
    <3>1. CASE cst' = cst
      <4>1. PICK c \in Cpus : TRUE
        BY TopologyAssumption
      <4>2. idle' = [idle EXCEPT ![c] = cst[c].cur]
        BY <3>1
      <4>3. cst[c].cur \in State \cup {-1}
        BY <2>2, UnitsDisjoint DEF GoodCStates, CStatesType
      <4> QED BY <4>2, <4>3
    <3>2. CASE \E c \in Cpus, s \in State \cup {-1} : cst' = StoreCstate(cst, c, s, now')
      <4> PICK c \in Cpus, s \in State \cup {-1} : cst' = StoreCstate(cst, c, s, now')
        BY <3>2
      <4>1. \A d \in Cpus : cst'[d].cur = IF d = c THEN s ELSE cst[d].cur
        BY <1>2, <2>1, StoreCstateCpus DEF Inv
      <4>2. idle' = [idle EXCEPT ![c] = s]
        BY <4>1
      <4> QED BY <4>2
    <3> QED BY <1>2, <3>1, <3>2, CstateStep
  <2>9. PICK t \in 0 .. MaxTime : t = now'
    BY <2>1
  <2>10. ResidencyOf!Step(t)
    BY ZenonT(60), <2>1, <2>7, <2>8, <2>9 DEF ResidencyOf!Step
  <2> QED BY <2>10 DEF ResidencyOf!Next
<1>3. UNCHANGED vars => UNCHANGED ResidencyOf!vars
  BY DEF vars, ResidencyOf!vars
<1>4. IInv => Inv
  BY InvIsIInv
<1> QED BY <1>1, <1>2, <1>3, <1>4, Invariance, TimesAlwaysOK, PTL
      DEF Spec, ResidencySpec, ResidencyOf!Spec

-----------------------------------------------------------------------------
(* IRQs.                                                                   *)

(* While the wake-up of a CPU's current idle stay is not charged yet, no   *)
(* more IRQs are charged than it has entered idle; no IRQ woke it up both  *)
(* early and late.                                                         *)
IrqsCounted ==
    \A c \in Cpus :
        /\ Charged(c) <= entries[c] + (IF wake[c].charged THEN 1 ELSE 0)
        /\ \A i \in Irqs :
             wake[c].irq[i].early + wake[c].irq[i].late <= wake[c].irq[i].count

(* Charging one more IRQ adds one to the sum (store_irq).                  *)
LEMMA ChargeAddsOne ==
    ASSUME NEW w \in [charged: BOOLEAN, irq: [Irqs -> IrqStat]], NEW a \in Irqs,
           NEW residency
    PROVE  LET v == ChargeWakeup(w, a, residency)
           IN  /\ SumFunctionOnSet([i \in Irqs |-> v.irq[i].count], Irqs) =
                    SumFunctionOnSet([i \in Irqs |-> w.irq[i].count], Irqs) + 1
               /\ v.charged
               /\ v.irq[a].early + v.irq[a].late <= w.irq[a].early + w.irq[a].late + 1
               /\ v.irq[a].count = w.irq[a].count + 1
               /\ \A i \in Irqs : i # a => v.irq[i] = w.irq[i]
<1> DEFINE v == ChargeWakeup(w, a, residency)
           h == [i \in Irqs |-> w.irq[i].count]
           g == [i \in Irqs |-> v.irq[i].count]
<1>1. w.irq \in [Irqs -> IrqStat] /\ \A i \in Irqs : w.irq[i].count \in Nat
  BY DEF IrqStat
<1>2. /\ v.charged = TRUE
      /\ v.irq[a].count = w.irq[a].count + 1
      /\ v.irq[a].early + v.irq[a].late <= w.irq[a].early + w.irq[a].late + 1
      /\ \A i \in Irqs : i # a => v.irq[i] = w.irq[i]
  BY <1>1 DEF ChargeWakeup, IrqStat
<1> HIDE DEF v
<1>3. /\ \A i \in Irqs : h[i] \in Int
      /\ g[a] = h[a] + 1 /\ \A i \in Irqs : i # a => g[i] = h[i]
  BY <1>1, <1>2
<1> HIDE DEF g, h
<1>4. SumFunctionOnSet(g, Irqs) = SumFunctionOnSet(h, Irqs) + (g[a] - h[a])
  <2>1. g[a] \in Int
    BY <1>3
  <2> QED BY <1>3, <2>1, InputAssumption, SumChangeAt
<1>5. SumFunctionOnSet(g, Irqs) = SumFunctionOnSet(h, Irqs) + 1
  <2>1. SumFunctionOnSet(h, Irqs) \in Int
    BY <1>3, InputAssumption, SumInt
  <2> QED BY <1>3, <1>4, <2>1
<1> QED BY <1>2, <1>5 DEF g, h, v

(* Charged(c) as a sum the lemmas speak of.                                *)
LEMMA ChargedSum ==
    ASSUME NEW c \in Cpus
    PROVE  /\ Charged(c) =
                SumFunctionOnSet([i \in Irqs |-> wake[c].irq[i].count], Irqs)
           /\ Charged(c)' =
                SumFunctionOnSet([i \in Irqs |-> wake'[c].irq[i].count], Irqs)
<1>1. Charged(c) = SumFunctionOnSet([i \in Irqs |-> wake[c].irq[i].count], Irqs)
  BY DEF Charged, MapThenSumSet, MapThenFoldSet, SumFunctionOnSet, FoldFunctionOnSet
<1>2. Charged(c)' = SumFunctionOnSet([i \in Irqs |-> wake'[c].irq[i].count], Irqs)
  BY DEF Charged, MapThenSumSet, MapThenFoldSet, SumFunctionOnSet, FoldFunctionOnSet
<1> QED BY <1>1, <1>2

LEMMA IrqsCountedStep ==
    ASSUME Inv, IrqsCounted, Next
    PROVE  IrqsCounted'
<1> PICK c \in Cpus :
      \/ \E s \in State \cup {-1}, t \in 0 .. MaxTime : StoreData(c, s, t)
      \/ \E f \in FreqRange \cup {0}, t \in 0 .. MaxTime : ChangeFreq(c, f, t)
      \/ \E t \in 0 .. MaxTime : EndOfTrace(c, t)
      \/ \E i \in Irqs : StoreIrq(c, i)
  BY DEF Next
<1>1. /\ wake \in [Cpus -> [charged: BOOLEAN, irq: [Irqs -> IrqStat]]]
      /\ entries \in [Cpus -> Nat]
  BY DEF Inv, RestOK
<1>2. ASSUME \A d \in Cpus : wake'[d].irq = wake[d].irq
      PROVE  \A d \in Cpus : Charged(d)' = Charged(d)
  BY <1>2, ChargedSum
<1>3. \A d \in Cpus : Charged(d) \in Int
  <2> TAKE d \in Cpus
  <2> DEFINE h == [i \in Irqs |-> wake[d].irq[i].count]
  <2>1. \A i \in Irqs : h[i] \in Int
    BY <1>1 DEF IrqStat
  <2> HIDE DEF h
  <2>2. SumFunctionOnSet(h, Irqs) \in Int
    BY <2>1, InputAssumption, SumInt
  <2> QED BY <2>2, ChargedSum DEF h
<1>4. CASE UNCHANGED <<wake, entries>>
  <2>1. \A d \in Cpus : Charged(d)' = Charged(d)
    BY <1>2, <1>4
  <2> QED BY <1>4, <2>1 DEF IrqsCounted
<1>5. CASE \E s \in State \cup {-1}, t \in 0 .. MaxTime : StoreData(c, s, t)
  <2> PICK s \in State \cup {-1}, t \in 0 .. MaxTime : StoreData(c, s, t)
    BY <1>5
  <2>1. CASE ~(s = -1 /\ cst[c].max = -1)
    <3>1. /\ wake' = [wake EXCEPT ![c].charged =
                        wake[c].charged /\ (s = -1 \/ s = cst[c].cur)]
          /\ entries' = [entries EXCEPT ![c] = @ + (IF s = -1 THEN 0 ELSE 1)]
      BY <2>1 DEF StoreData
    <3>2. \A d \in Cpus : wake'[d].irq = wake[d].irq
      BY <1>1, <3>1
    <3>3. \A d \in Cpus : Charged(d)' = Charged(d)
      BY <1>2, <3>2
    <3>4. /\ s = -1 => wake'[c].charged = wake[c].charged
          /\ \A d \in Cpus : d # c => wake'[d].charged = wake[d].charged
      BY <1>1, <3>1
    <3>5. \A d \in Cpus : Charged(d) <= entries'[d] + (IF wake'[d].charged THEN 1 ELSE 0)
      <4> TAKE d \in Cpus
      <4>1. Charged(d) <= entries[d] + (IF wake[d].charged THEN 1 ELSE 0)
        BY DEF IrqsCounted
      <4>2. CASE d # c
        BY <1>1, <3>1, <3>4, <4>1, <4>2
      <4>3. CASE d = c /\ s = -1
        BY <1>1, <3>1, <3>4, <4>1, <4>3
      <4>4. CASE d = c /\ s # -1
        <5>1. entries'[d] = entries[d] + 1 /\ entries[d] \in Nat
          BY <1>1, <3>1, <4>4
        <5> QED BY <1>3, <4>1, <5>1
      <4> QED BY <4>2, <4>3, <4>4
    <3> QED BY <3>2, <3>3, <3>5 DEF IrqsCounted
  <2>2. CASE s = -1 /\ cst[c].max = -1
    BY <1>4, <2>2 DEF StoreData
  <2> QED BY <2>1, <2>2
<1>6. CASE \E i \in Irqs : StoreIrq(c, i)
  <2> PICK a \in Irqs : StoreIrq(c, a)
    BY <1>6
  <2> DEFINE v == ChargeWakeup(wake[c], a, cst[c].residency)
  <2>1. ~wake[c].charged /\ wake' = [wake EXCEPT ![c] = v] /\ entries' = entries
    BY DEF StoreIrq
  <2>2. /\ SumFunctionOnSet([i \in Irqs |-> v.irq[i].count], Irqs) =
             SumFunctionOnSet([i \in Irqs |-> wake[c].irq[i].count], Irqs) + 1
        /\ v.charged
        /\ v.irq[a].early + v.irq[a].late <= wake[c].irq[a].early + wake[c].irq[a].late + 1
        /\ v.irq[a].count = wake[c].irq[a].count + 1
        /\ \A i \in Irqs : i # a => v.irq[i] = wake[c].irq[i]
    <3>1. wake[c] \in [charged: BOOLEAN, irq: [Irqs -> IrqStat]]
      BY <1>1
    <3> QED BY <3>1, ChargeAddsOne
  <2> HIDE DEF v
  <2>3. wake'[c] = v /\ \A d \in Cpus : d # c => wake'[d] = wake[d]
    BY <1>1, <2>1
  <2>4. \A d \in Cpus : Charged(d)' = Charged(d) + (IF d = c THEN 1 ELSE 0)
    <3> TAKE d \in Cpus
    <3>1. CASE d = c
      <4>1. Charged(d)' = SumFunctionOnSet([i \in Irqs |-> v.irq[i].count], Irqs)
        BY <2>3, <3>1, ChargedSum
      <4>2. Charged(d) = SumFunctionOnSet([i \in Irqs |-> wake[c].irq[i].count], Irqs)
        BY <3>1, ChargedSum
      <4> QED BY <2>2, <3>1, <4>1, <4>2
    <3>2. CASE d # c
      <4>1. Charged(d)' = SumFunctionOnSet([i \in Irqs |-> wake[d].irq[i].count], Irqs)
        BY <2>3, <3>2, ChargedSum
      <4>2. Charged(d) = SumFunctionOnSet([i \in Irqs |-> wake[d].irq[i].count], Irqs)
        BY ChargedSum
      <4>3. Charged(d)' = Charged(d) /\ Charged(d) \in Int
        BY <1>3, <4>1, <4>2
      <4> QED BY <3>2, <4>3
    <3> QED BY <3>1, <3>2
  <2>5. \A d \in Cpus : Charged(d)' <= entries'[d] + (IF wake'[d].charged THEN 1 ELSE 0)
    BY <1>1, <1>3, <2>1, <2>2, <2>3, <2>4 DEF IrqsCounted
  <2>6. \A d \in Cpus, i \in Irqs :
          wake'[d].irq[i].early + wake'[d].irq[i].late <= wake'[d].irq[i].count
    <3> TAKE d \in Cpus, i \in Irqs
    <3>1. /\ wake[d].irq[i].early + wake[d].irq[i].late <= wake[d].irq[i].count
          /\ wake[d].irq[i] \in IrqStat
      BY <1>1 DEF IrqsCounted
    <3>2. CASE d = c /\ i = a
      <4>1. wake'[d].irq[i] = v.irq[a]
        BY <2>3, <3>2
      <4>2. /\ wake[c].irq[a].early \in Nat /\ wake[c].irq[a].late \in Nat
            /\ wake[c].irq[a].count \in Nat
            /\ wake[c].irq[a].early + wake[c].irq[a].late <= wake[c].irq[a].count
        BY <3>1, <3>2 DEF IrqStat
      <4>3. /\ v.irq[a].early \in Nat /\ v.irq[a].late \in Nat
        BY <4>2 DEF v, ChargeWakeup, IrqStat
      <4> QED BY <2>2, <4>1, <4>2, <4>3
    <3>3. CASE ~(d = c /\ i = a)
      BY <2>2, <2>3, <3>1, <3>3
    <3> QED BY <3>2, <3>3
  <2> QED BY <2>5, <2>6 DEF IrqsCounted
<1>7. CASE \E f \in FreqRange \cup {0}, t \in 0 .. MaxTime : ChangeFreq(c, f, t)
  BY <1>4, <1>7 DEF ChangeFreq
<1>8. CASE \E t \in 0 .. MaxTime : EndOfTrace(c, t)
  BY <1>4, <1>8 DEF EndOfTrace
<1> QED BY <1>5, <1>6, <1>7, <1>8

(* An IRQ is charged at most once per idle entry, and once more before the *)
(* first; no wake-up is both early and late (store_irq, cstate_begin).     *)
THEOREM IrqsChargedOnce == Spec => []IrqOncePerEntry
<1>1. Init => IrqsCounted
  <2> SUFFICES ASSUME Init, NEW c \in Cpus
               PROVE  /\ Charged(c) = 0
                      /\ entries[c] = 0
                      /\ \A i \in Irqs : wake[c].irq[i] = [count |-> 0, early |-> 0, late |-> 0]
    BY DEF IrqsCounted, Init
  <2> DEFINE h == [i \in Irqs |-> wake[c].irq[i].count]
             S == {T \in SUBSET Irqs : SumFunctionOnSet(h, T) = 0}
  <2>1. \A i \in Irqs : h[i] = 0
    BY DEF Init
  <2>2. SumFunctionOnSet(h, Irqs) = 0
    <3> HIDE DEF h
    <3> QED BY <2>1, InputAssumption, SumZero
  <2> QED BY <2>2, ChargedSum DEF Init
<1>2. Inv /\ IrqsCounted /\ [Next]_vars => IrqsCounted'
  <2> SUFFICES ASSUME Inv, IrqsCounted, [Next]_vars
               PROVE  IrqsCounted'
    OBVIOUS
  <2>1. CASE Next
    BY <2>1, IrqsCountedStep
  <2>2. CASE UNCHANGED vars
    <3>1. wake' = wake /\ entries' = entries
      BY <2>2 DEF vars
    <3>2. \A c \in Cpus : Charged(c)' = Charged(c)
      BY <3>1, ChargedSum
    <3> QED BY <3>1, <3>2 DEF IrqsCounted
  <2> QED BY <2>1, <2>2
<1>3. IInv => Inv
  BY InvIsIInv
<1>4. Inv /\ IrqsCounted => IrqOncePerEntry
  <2> SUFFICES ASSUME Inv, IrqsCounted, NEW c \in Cpus
               PROVE  /\ Charged(c) <= entries[c] + 1
                      /\ \A i \in Irqs : wake[c].irq[i].early + wake[c].irq[i].late
                                           <= wake[c].irq[i].count
    BY DEF IrqOncePerEntry
  <2>1. Charged(c) \in Int /\ entries[c] \in Nat
    <3> DEFINE h == [i \in Irqs |-> wake[c].irq[i].count]
    <3>1. \A i \in Irqs : h[i] \in Int
      BY DEF Inv, RestOK, IrqStat
    <3> HIDE DEF h
    <3>2. SumFunctionOnSet(h, Irqs) \in Int
      BY <3>1, InputAssumption, SumInt
    <3> QED BY <3>2, ChargedSum DEF h, Inv, RestOK
  <2> QED BY <2>1 DEF IrqsCounted
<1> QED BY <1>1, <1>2, <1>3, <1>4, Invariance, PTL DEF Spec

-----------------------------------------------------------------------------
(* P-state times: what a record charges, and to whom.                      *)

(* A handler's change to the record of the CPU itself.                     *)
OwnChanges(p, t) ==
    {PstateIdle(p, t), PstateRunning(p, t)} \cup {ChangePstate(p, f, t) : f \in Nat}

(* No interval starts after t, and a core or a cluster is never idle.      *)
Timed(ps, t) ==
    \A u \in Units : /\ ps[u].enter <= t
                     /\ u \in Groups => ps[u].idle # 1

LEMMA OwnChangeGood ==
    ASSUME NEW p, GoodPStates(p), NEW t \in Int, p.enter <= t,
           NEW new \in OwnChanges(p, t)
    PROVE  GoodPStates(new) /\ new.enter <= t
<1>1. CASE new = PstateIdle(p, t)
  BY <1>1, PstateIdleGood, PstateIdleTime
<1>2. CASE new = PstateRunning(p, t)
  BY <1>2, PstateRunningGood, PstateRunningTime
<1>3. CASE \E f \in Nat : new = ChangePstate(p, f, t)
  BY <1>3, ChangePstateGood, ChangePstateTime
<1> QED BY <1>1, <1>2, <1>3 DEF OwnChanges

(* Whatever happens to CPU c, no core nor cluster gains or loses time.     *)
WithComposite(ps, c, new, t) == CheckPstateComposite([ps EXCEPT ![c] = new], c, t)

LEMMA CompositeTime ==
    ASSUME NEW ps, GoodP(ps), NEW c \in Cpus, NEW t \in Int, Timed(ps, t),
           NEW new, GoodPStates(new), new.enter <= t
    PROVE  LET res == WithComposite(ps, c, new, t)
           IN  /\ Timed(res, t)
               /\ \A u \in Groups : Busy(res[u], t) = Busy(ps[u], t)
               /\ res[c] = new
               /\ \A d \in Cpus : d # c => res[d] = ps[d]
<1> DEFINE own == [ps EXCEPT ![c] = new]
           res == CheckPstateComposite(own, c, t)
<1>1. ps \in [Units -> PStatesType] /\ \A u \in Units : GoodPStates(ps[u])
  BY DEF GoodP
<1>2. own \in [Units -> PStatesType] /\ own[c] = new
  BY <1>1, UnitsDisjoint DEF GoodPStates
<1>3. GoodP(own)
  BY <1>1, <1>2 DEF GoodP
<1>4. \A u \in Units : u # c => own[u] = ps[u]
  BY <1>1
<1>5. res = [u \in Units |-> IF u \in Groups /\ c \in CpusOf(u)
                             THEN RecordGroupFreq(own[u], t, HighestFreq(own, u))
                             ELSE own[u]]
  BY DEF CheckPstateComposite
<1> HIDE DEF own, res
<1>6. \A d \in Cpus : res[d] = own[d]
  BY <1>5, UnitsDisjoint
<1>7. ASSUME NEW u \in Groups
      PROVE  Busy(res[u], t) = Busy(ps[u], t) /\ res[u].enter <= t /\ res[u].idle # 1
  <2>1. u \in Units /\ own[u] = ps[u] /\ ps[u].idle # 1 /\ ps[u].enter <= t
    BY <1>4, UnitsDisjoint DEF Timed
  <2>2. HighestFreq(own, u) \in Nat
    BY <1>3, <2>1, HighestFreqType
  <2>3. CASE c \in CpusOf(u)
    <3>1. res[u] = RecordGroupFreq(ps[u], t, HighestFreq(own, u))
      BY <1>5, <2>1, <2>3
    <3>2. GoodPStates(ps[u])
      BY <1>1, <2>1
    <3> QED BY <2>1, <2>2, <3>1, <3>2, RecordGroupFreqTime, RecordGroupFreqGood
  <2>4. CASE c \notin CpusOf(u)
    BY <1>5, <2>1, <2>4
  <2> QED BY <2>3, <2>4
<1>8. \A d \in Cpus : res[d].enter <= t /\ d \notin Groups
  BY <1>2, <1>4, <1>6, UnitsDisjoint DEF Timed
<1>9. Timed(res, t)
  BY <1>7, <1>8 DEF Timed, Units
<1> QED BY <1>2, <1>4, <1>6, <1>7, <1>9, UnitsDisjoint DEF res, own, WithComposite

(* A record leaves the P-states alone, or changes the CPU it names and     *)
(* then that CPU's core and cluster; a change of frequency does not reach  *)
(* these while the CPU is idle.                                            *)
PstatesBy(c, new, t) ==
    \/ pst' = WithComposite(pst, c, new, t)
    \/ /\ pst[c].idle = 1 /\ new.idle = 1
       /\ pst' = [pst EXCEPT ![c] = new]

LEMMA PstatesStep ==
    ASSUME Inv, Next
    PROVE  \/ pst' = pst
           \/ \E c \in Cpus : \E new \in OwnChanges(pst[c], now') :
                 PstatesBy(c, new, now')
<1> PICK c \in Cpus :
      \/ \E s \in State \cup {-1}, t \in 0 .. MaxTime : StoreData(c, s, t)
      \/ \E f \in FreqRange \cup {0}, t \in 0 .. MaxTime : ChangeFreq(c, f, t)
      \/ \E t \in 0 .. MaxTime : EndOfTrace(c, t)
      \/ \E i \in Irqs : StoreIrq(c, i)
  BY DEF Next
<1>1. CASE \E s \in State \cup {-1}, t \in 0 .. MaxTime : StoreData(c, s, t)
  <2>1. /\ PstateIdle(pst[c], now') \in OwnChanges(pst[c], now')
        /\ PstateRunning(pst[c], now') \in OwnChanges(pst[c], now')
    BY DEF OwnChanges
  <2>2. \/ pst' = pst
        \/ pst' = CpuPstateRunning(pst, c, now')
        \/ pst' = CpuPstateIdle(pst, c, now')
    BY <1>1 DEF StoreData
  <2>3. CASE pst' = CpuPstateRunning(pst, c, now')
    <3>1. PstatesBy(c, PstateRunning(pst[c], now'), now')
      BY <2>3 DEF CpuPstateRunning, PstatesBy, WithComposite
    <3> QED BY <2>1, <3>1
  <2>4. CASE pst' = CpuPstateIdle(pst, c, now')
    <3>1. PstatesBy(c, PstateIdle(pst[c], now'), now')
      BY <2>4 DEF CpuPstateIdle, PstatesBy, WithComposite
    <3> QED BY <2>1, <3>1
  <2> QED BY <2>2, <2>3, <2>4
<1>2. ASSUME NEW f \in Nat, pst' = CpuChangePstate(pst, c, f, now')
      PROVE  \E new \in OwnChanges(pst[c], now') : PstatesBy(c, new, now')
  <2> DEFINE new == ChangePstate(pst[c], f, now')
  <2>1. new \in OwnChanges(pst[c], now')
    BY DEF OwnChanges
  <2>2. pst' = IF pst[c].idle = 1 THEN [pst EXCEPT ![c] = new]
               ELSE CheckPstateComposite([pst EXCEPT ![c] = new], c, now')
    BY <1>2 DEF CpuChangePstate
  <2>3. GoodPStates(pst[c]) /\ now' \in Int
    <3>1. now' \in Int
      BY InputAssumption DEF Next, StoreData, ChangeFreq, EndOfTrace, StoreIrq, Inv, RestOK
    <3> QED BY <3>1, UnitsDisjoint DEF Inv, GoodP
  <2>4. new.idle = pst[c].idle
    BY <2>3, ChangePstateGood
  <2> HIDE DEF new
  <2>5. PstatesBy(c, new, now')
    BY <2>2, <2>4 DEF PstatesBy, WithComposite
  <2> QED BY <2>1, <2>5
<1>3. CASE \E f \in FreqRange \cup {0}, t \in 0 .. MaxTime : ChangeFreq(c, f, t)
  <2>1. \A f \in FreqRange \cup {0} : f \in Nat
    BY InputAssumption
  <2> QED BY <1>2, <1>3, <2>1 DEF ChangeFreq
<1>4. CASE \E t \in 0 .. MaxTime : EndOfTrace(c, t)
  BY <1>2, <1>4 DEF EndOfTrace
<1>5. CASE \E i \in Irqs : StoreIrq(c, i)
  BY <1>5 DEF StoreIrq
<1> QED BY <1>1, <1>3, <1>4, <1>5

(* A record that comes at t changes no core's nor cluster's time up to t.  *)
LEMMA GroupTimesStep ==
    ASSUME Backstep = 0, Inv, TimesOK, Timed(pst, now), Next
    PROVE  /\ Timed(pst', now')
           /\ \A u \in Groups : Busy(pst'[u], now') = Busy(pst[u], now')
<1>1. now' \in Int /\ now \in Int /\ now' >= now
  BY CstateStep DEF TimesOK
<1>2. GoodP(pst) /\ \A u \in Units : GoodPStates(pst[u]) /\ pst[u].enter \in Int
  BY DEF Inv, GoodP, PStatesType
<1>3. Timed(pst, now')
  BY <1>1, <1>2 DEF Timed
<1>4. CASE pst' = pst
  BY <1>3, <1>4
<1>5. ASSUME NEW c \in Cpus, NEW new \in OwnChanges(pst[c], now'),
             PstatesBy(c, new, now')
      PROVE  /\ Timed(pst', now')
             /\ \A u \in Groups : Busy(pst'[u], now') = Busy(pst[u], now')
  <2>1. c \in Units /\ c \notin Groups /\ pst[c].enter <= now'
    BY <1>3, UnitsDisjoint DEF Timed
  <2>2. GoodPStates(new) /\ new.enter <= now'
    BY <1>1, <1>2, <2>1, OwnChangeGood
  <2>3. CASE pst' = WithComposite(pst, c, new, now')
    <3> DEFINE res == WithComposite(pst, c, new, now')
    <3>1. /\ Timed(res, now')
          /\ \A u \in Groups : Busy(res[u], now') = Busy(pst[u], now')
      BY <1>1, <1>2, <1>3, <2>2, CompositeTime
    <3>2. pst' = res
      BY <2>3
    <3> HIDE DEF res
    <3> QED BY <3>1, <3>2
  <2>4. CASE pst' = [pst EXCEPT ![c] = new]
    <3>1. \A u \in Units : pst'[u] = IF u = c THEN new ELSE pst[u]
      BY <1>2, <2>4 DEF GoodP
    <3> QED BY <1>3, <2>1, <2>2, <3>1, UnitsDisjoint DEF Timed
  <2> QED BY <1>5, <2>3, <2>4 DEF PstatesBy
<1> QED BY <1>4, <1>5, PstatesStep

LEMMA TimedAlways ==
    ASSUME Backstep = 0
    PROVE  Spec => []Timed(pst, now)
<1>1. Init => Timed(pst, now)
  <2> SUFFICES ASSUME Init
               PROVE  Timed(pst, now)
    OBVIOUS
  <2>1. now = 0 /\ \A u \in Units : pst[u] = NewPStates
    BY DEF Init
  <2> QED BY <2>1 DEF Timed, NewPStates
<1>2. Inv /\ TimesOK /\ Timed(pst, now) /\ [Next]_vars => Timed(pst, now)'
  <2> SUFFICES ASSUME Inv, TimesOK, Timed(pst, now), [Next]_vars
               PROVE  Timed(pst', now')
    OBVIOUS
  <2> QED BY GroupTimesStep DEF vars
<1>3. IInv => Inv
  BY InvIsIInv
<1> QED BY <1>1, <1>2, <1>3, Invariance, TimesAlwaysOK, PTL DEF Spec

(* What TotalP adds up is the time of the table.                           *)
LEMMA TotalPIsTableTime ==
    ASSUME NEW u
    PROVE  TotalP(u) = TableTime(pst[u].table) /\ TotalP(u)' = TableTime(pst'[u].table)
BY DEF TotalP, TableTime, MapThenSumSet, MapThenFoldSet, SumFunctionOnSet,
       FoldFunctionOnSet

(* A cluster is busy exactly while one of its CPUs is known to run.        *)
Runs(ps, c) == ps[c].idle <= 0 /\ OpenFreq(ps[c]) > 0

LEMMA ClusterBusy ==
    ASSUME Inv, NEW k \in Clusters
    PROVE  pst[k].cur # 0 <=> \E c \in CpusOf(k) : Runs(pst, c)
<1>1. GoodP(pst) /\ k \in Units /\ ClusterOK(pst, k)
  BY UnitsDisjoint DEF Inv, ClustersOK
<1>2. HighestFreq(pst, k) > 0 <=> \E c \in CpusOf(k) : Runs(pst, c)
  BY <1>1, HighestFreqType DEF Runs
<1> QED BY <1>1, <1>2 DEF ClusterOK

(* Loading a trace whose timestamps do not go back computes, over all its  *)
(* frequencies, the time some CPU of a cluster was known to run: every     *)
(* record is a step of BusyTime, or changes nothing it knows of, although  *)
(* the time may go to the wrong frequency (check_pstate_composite).        *)
THEOREM ImplementsBusyTime ==
    ASSUME Backstep = 0
    PROVE  Spec => BusySpec
<1> DEFINE running == [c \in Cpus |-> pst[c].idle <= 0 /\ OpenFreq(pst[c]) > 0]
           busy    == [k \in Clusters |-> TotalP(k) + OpenP(k)]
<1>1. Init => BusyOf!Init
  <2> SUFFICES ASSUME Init
               PROVE  BusyOf!Init
    OBVIOUS
  <2>1. now = 0 /\ \A u \in Units : pst[u] = NewPStates
    BY DEF Init
  <2>2. OpenFreq(NewPStates) = 0
    BY DEF OpenFreq, NewPStates
  <2>3. running = [c \in Cpus |-> FALSE]
    <3>1. \A c \in Cpus : ~(OpenFreq(pst[c]) > 0)
      BY <2>1, <2>2, UnitsDisjoint
    <3> QED BY <3>1
  <2>4. ASSUME NEW k \in Clusters
        PROVE  TotalP(k) + OpenP(k) = 0
    <3>1. pst[k] = NewPStates
      BY <2>1, UnitsDisjoint
    <3>2. TableTime(<<>>) = 0
      <4> DEFINE h == [i \in {} |-> (<<>>)[i].st.sum]
      <4>1. SumFunctionOnSet(h, {}) = 0
        BY SumEmpty
      <4>2. DOMAIN <<>> = {}
        OBVIOUS
      <4> QED BY <4>1, <4>2 DEF TableTime
    <3>3. TotalP(k) = 0
      BY <3>1, <3>2, TotalPIsTableTime DEF NewPStates
    <3>4. OpenP(k) = 0
      BY <3>1 DEF OpenP, NewPStates
    <3> QED BY <3>3, <3>4
  <2>5. busy = [k \in Clusters |-> 0]
    BY <2>4
  <2> QED BY <2>1, <2>3, <2>5 DEF BusyOf!Init
<1>2. ASSUME Inv, TimesOK, Timed(pst, now), Next
      PROVE  [BusyOf!Next]_(BusyOf!vars)
  <2>1. now' \in 0 .. MaxTime /\ now' >= now /\ now' \in Int /\ now \in Int
    BY <1>2, CstateStep DEF TimesOK
  <2>2. \A k \in Clusters : /\ k \in Units /\ k \in Groups /\ GoodPStates(pst[k])
                            /\ pst[k].idle # 1 /\ pst[k].enter \in Int
    BY <1>2, UnitsDisjoint DEF Timed, Inv, GoodP, PStatesType
  <2>3. \A k \in Clusters : TotalP(k) + OpenP(k) = Busy(pst[k], now)
    BY TotalPIsTableTime DEF OpenP, Busy, Elapsed
  <2>4. \A k \in Clusters : (TotalP(k) + OpenP(k))' = Busy(pst'[k], now')
    BY TotalPIsTableTime DEF OpenP, Busy, Elapsed
  <2>5. \A k \in Clusters :
          Busy(pst'[k], now') = Busy(pst[k], now)
            + (IF \E c \in CpusOf(k) : Runs(pst, c) THEN now' - now ELSE 0)
    <3> TAKE k \in Clusters
    <3>1. pst[k].cur # 0 <=> \E c \in CpusOf(k) : Runs(pst, c)
      BY <1>2, ClusterBusy
    <3>2. TableTime(pst[k].table) \in Int
      BY <2>2, TableTimeType
    <3>3. Busy(pst[k], now') = Busy(pst[k], now)
            + (IF pst[k].cur # 0 THEN now' - now ELSE 0)
      BY <2>1, <2>2, <3>2 DEF Busy, Elapsed
    <3>4. Busy(pst'[k], now') = Busy(pst[k], now')
      BY <1>2, <2>2, GroupTimesStep
    <3> QED BY <3>1, <3>3, <3>4
  <2>6. busy' = [k \in Clusters |->
          busy[k] + (IF \E c \in CpusOf(k) : running[c] THEN now' - now ELSE 0)]
    <3>1. ASSUME NEW k \in Clusters
          PROVE  (\E c \in CpusOf(k) : Runs(pst, c)) <=> \E c \in CpusOf(k) : running[c]
      <4>1. CpusOf(k) \subseteq Cpus
        BY <2>2, CpusOfUnit
      <4> QED BY <4>1 DEF Runs
    <3> HIDE DEF running
    <3> QED BY <2>3, <2>4, <2>5, <3>1
  <2>7. \E c \in Cpus, b \in BOOLEAN : running' = [running EXCEPT ![c] = b]
    <3>1. ASSUME NEW c \in Cpus, \A d \in Cpus : d # c => pst'[d] = pst[d]
          PROVE  \E b \in BOOLEAN : running' = [running EXCEPT ![c] = b]
      <4>1. PICK b \in BOOLEAN : b = (pst'[c].idle <= 0 /\ OpenFreq(pst'[c]) > 0)
        OBVIOUS
      <4>2. \A d \in Cpus : running'[d] = IF d = c THEN b ELSE running[d]
        BY <3>1, <4>1
      <4>3. running' = [running EXCEPT ![c] = b]
        BY <4>2
      <4> QED BY <4>3
    <3>2. CASE pst' = pst
      BY <3>1, <3>2, TopologyAssumption
    <3>3. ASSUME NEW c \in Cpus, NEW new \in OwnChanges(pst[c], now'),
                 PstatesBy(c, new, now')
          PROVE  \A d \in Cpus : d # c => pst'[d] = pst[d]
      BY <1>2, <3>3, UnitsDisjoint
         DEF PstatesBy, WithComposite, CheckPstateComposite, Inv, GoodP
    <3> QED BY <1>2, <3>1, <3>2, <3>3, PstatesStep
  <2>8. PICK t \in 0 .. MaxTime : t = now'
    BY <2>1
  <2>9. BusyOf!Step(t)
    BY <2>1, <2>6, <2>7, <2>8 DEF BusyOf!Step
  <2> QED BY <2>9 DEF BusyOf!Next
<1>3. UNCHANGED vars => UNCHANGED BusyOf!vars
  <2> SUFFICES ASSUME UNCHANGED vars
               PROVE  UNCHANGED BusyOf!vars
    OBVIOUS
  <2>1. pst' = pst /\ now' = now
    BY DEF vars
  <2>2. \A k \in Clusters : (TotalP(k) + OpenP(k))' = TotalP(k) + OpenP(k)
    BY <2>1, TotalPIsTableTime DEF OpenP
  <2> QED BY <2>1, <2>2 DEF BusyOf!vars
<1>4. IInv => Inv
  BY InvIsIInv
<1> QED BY <1>1, <1>2, <1>3, <1>4, Invariance, TimesAlwaysOK, TimedAlways, PTL
      DEF Spec, BusySpec, BusyOf!Spec

-----------------------------------------------------------------------------
(* The time of a CPU: C-states and P-states together.                      *)

(* The P-states of a CPU that has them are never without a frequency, and  *)
(* know that it is idle exactly while it is in a C-state.                  *)
BothKnow ==
    \A c \in Cpus : /\ pst[c].table # <<>> => pst[c].cur # 0
                    /\ pst[c].idle = 1 <=> cst[c].cur # -1

(* What each handler does to the P-states of the CPUs themselves.          *)
LEMMA HandlersOwn ==
    ASSUME NEW ps, GoodP(ps), NEW c \in Cpus, NEW f \in Nat, NEW t \in Int,
           NEW d \in Cpus
    PROVE  /\ CpuPstateIdle(ps, c, t)[d] = IF d = c THEN PstateIdle(ps[c], t) ELSE ps[d]
           /\ CpuPstateRunning(ps, c, t)[d] =
                IF d = c THEN PstateRunning(ps[c], t) ELSE ps[d]
           /\ CpuChangePstate(ps, c, f, t)[d] =
                IF d = c THEN ChangePstate(ps[c], f, t) ELSE ps[d]
<1>1. ps \in [Units -> PStatesType] /\ c \in Units /\ d \in Units /\ d \notin Groups
  BY UnitsDisjoint DEF GoodP
<1>2. ASSUME NEW new
      PROVE  /\ [ps EXCEPT ![c] = new][d] = IF d = c THEN new ELSE ps[d]
             /\ CheckPstateComposite([ps EXCEPT ![c] = new], c, t)[d] =
                  IF d = c THEN new ELSE ps[d]
  BY <1>1 DEF CheckPstateComposite
<1> QED BY <1>2 DEF CpuPstateIdle, CpuPstateRunning, CpuChangePstate

(* Without lost records every record that changes a CPU's P-states finds   *)
(* them as the C-states are: an idle entry finds it running, an idle exit  *)
(* finds it idle, and neither comes before the CPU's first frequency.      *)
CpuStep(c) ==
    \/ pst'[c] = pst[c] /\ cst'[c].cur = cst[c].cur
    \/ /\ pst[c].table # <<>> /\ cst[c].cur = -1 /\ cst'[c].cur # -1
       /\ pst'[c] = PstateIdle(pst[c], now')
    \/ /\ pst[c].table # <<>> /\ cst[c].cur # -1 /\ cst'[c].cur = -1
       /\ pst'[c] = PstateRunning(pst[c], now')
    \/ /\ cst'[c] = cst[c]
       /\ \E f \in Nat : pst'[c] = ChangePstate(pst[c], f, now')

LEMMA EveryStepIsCpuStep ==
    ASSUME Native, ~Lossy, Inv, Next, NEW d \in Cpus
    PROVE  CpuStep(d)
<1>1. GoodC(cst) /\ GoodP(pst) /\ 0 \in Nat
  BY DEF Inv
<1> PICK c \in Cpus :
      \/ \E s \in State \cup {-1}, t \in 0 .. MaxTime : StoreData(c, s, t)
      \/ \E f \in FreqRange \cup {0}, t \in 0 .. MaxTime : ChangeFreq(c, f, t)
      \/ \E t \in 0 .. MaxTime : EndOfTrace(c, t)
      \/ \E i \in Irqs : StoreIrq(c, i)
  BY DEF Next
<1>2. CASE \E s \in State \cup {-1}, t \in 0 .. MaxTime : StoreData(c, s, t)
  <2> PICK s \in State \cup {-1}, t \in 0 .. MaxTime : StoreData(c, s, t)
    BY <1>2
  <2>1. CASE s = -1 /\ cst[c].max = -1
    BY <2>1 DEF StoreData, CpuStep
  <2>2. CASE ~(s = -1 /\ cst[c].max = -1)
    <3>1. /\ cst' = StoreCstate(cst, c, s, t) /\ now' = t /\ t \in Int
          /\ pst' = IF s = -1 THEN CpuPstateRunning(pst, c, t)
                              ELSE CpuPstateIdle(pst, c, t)
          /\ pst[c].table # <<>>
          /\ IF s = -1 THEN cst[c].cur # -1 ELSE cst[c].cur = -1
      BY <2>2 DEF StoreData, Started, Alternates
    <3>2. cst'[d].cur = IF d = c THEN s ELSE cst[d].cur
      <4>1. StoreCstate(cst, c, s, t)[d].cur = IF d = c THEN s ELSE cst[d].cur
        BY <1>1, <3>1, StoreCstateCpus
      <4> QED BY <3>1, <4>1
    <3>3. pst'[d] = IF d # c THEN pst[d]
                    ELSE IF s = -1 THEN PstateRunning(pst[c], t) ELSE PstateIdle(pst[c], t)
      BY <1>1, <3>1, HandlersOwn
    <3> QED BY <3>1, <3>2, <3>3 DEF CpuStep
  <2> QED BY <2>1, <2>2
<1>3. ASSUME NEW f \in Nat, now' \in Int, pst' = CpuChangePstate(pst, c, f, now'), cst' = cst
      PROVE  CpuStep(d)
  <2>1. pst'[d] = IF d = c THEN ChangePstate(pst[c], f, now') ELSE pst[d]
    BY <1>1, <1>3, HandlersOwn
  <2> QED BY <1>3, <2>1 DEF CpuStep
<1>4. CASE \E f \in FreqRange \cup {0}, t \in 0 .. MaxTime : ChangeFreq(c, f, t)
  <2>1. \A f \in FreqRange \cup {0} : f \in Nat
    BY InputAssumption
  <2> QED BY <1>3, <1>4, <2>1 DEF ChangeFreq
<1>5. CASE \E t \in 0 .. MaxTime : EndOfTrace(c, t)
  BY <1>1, <1>3, <1>5 DEF EndOfTrace
<1>6. CASE \E i \in Irqs : StoreIrq(c, i)
  BY <1>6 DEF StoreIrq, CpuStep
<1> QED BY <1>2, <1>4, <1>5, <1>6

LEMMA BothKnowStep ==
    ASSUME Native, ~Lossy, Backstep = 0, Inv, TimesOK, Timed(pst, now), BothKnow, Next
    PROVE  BothKnow'
<1> SUFFICES ASSUME NEW c \in Cpus
             PROVE  /\ pst'[c].table # <<>> => pst'[c].cur # 0
                    /\ pst'[c].idle = 1 <=> cst'[c].cur # -1
  BY DEF BothKnow
<1>1. now' \in Int /\ now \in Int /\ now' >= now
  BY CstateStep DEF TimesOK
<1>2. /\ GoodPStates(pst[c]) /\ pst[c].enter <= now'
      /\ pst[c].table # <<>> => pst[c].cur # 0
      /\ pst[c].idle = 1 <=> cst[c].cur # -1
  <2>1. GoodPStates(pst[c]) /\ pst[c].enter <= now /\ pst[c].enter \in Int
    BY UnitsDisjoint DEF Inv, GoodP, Timed, PStatesType
  <2> QED BY <1>1, <2>1 DEF BothKnow
<1>3. CpuStep(c)
  BY EveryStepIsCpuStep
<1>4. CASE pst'[c] = pst[c] /\ cst'[c].cur = cst[c].cur
  BY <1>2, <1>4
<1>5. CASE /\ pst[c].table # <<>> /\ cst[c].cur = -1 /\ cst'[c].cur # -1
           /\ pst'[c] = PstateIdle(pst[c], now')
  <2>1. PstateIdle(pst[c], now').idle = 1
    BY <1>1, <1>2, PstateIdleGood
  <2>2. PstateIdle(pst[c], now').cur = pst[c].cur
    BY <1>1, <1>2, PstateIdleTime
  <2> QED BY <1>2, <1>5, <2>1, <2>2
<1>6. CASE /\ pst[c].table # <<>> /\ cst[c].cur # -1 /\ cst'[c].cur = -1
           /\ pst'[c] = PstateRunning(pst[c], now')
  <2>1. PstateRunning(pst[c], now').idle = 0
    BY <1>1, <1>2, PstateRunningGood
  <2>2. PstateRunning(pst[c], now').cur = pst[c].cur
    BY <1>1, <1>2, PstateRunningTime
  <2> QED BY <1>2, <1>6, <2>1, <2>2
<1>7. CASE /\ cst'[c] = cst[c]
           /\ \E f \in Nat : pst'[c] = ChangePstate(pst[c], f, now')
  BY <1>1, <1>2, <1>7, ChangePstateGood, ChangePstateTime
<1> QED BY <1>3, <1>4, <1>5, <1>6, <1>7 DEF CpuStep

(* The time all C-states of a unit account for.                            *)
IdleTime(x, t) == SumFunctionOnSet([q \in State |-> Spent(x, q, t)], State)

RecordedIdle(x) == SumFunctionOnSet([q \in State |-> x.stat[q].all.sum], State)

LEMMA IdleTimeSplit ==
    ASSUME NEW x, NEW D, GoodCStates(x, D), NEW t \in Int
    PROVE  /\ IdleTime(x, t) = RecordedIdle(x) + (IF x.cur = -1 THEN 0 ELSE t - x.begin)
           /\ RecordedIdle(x) \in Int /\ x.begin \in Int
<1> DEFINE h == [q \in State |-> x.stat[q].all.sum]
           g == [q \in State |-> Spent(x, q, t)]
<1>1. IsFiniteSet(State)
  <2>1. NStates - 1 \in Int
    BY NStatesAssumption
  <2> QED BY <2>1, FS_Interval DEF State
<1>2. /\ x.cur \in State \cup {-1} /\ x.begin \in Int
      /\ \A q \in State : x.stat[q].all.sum \in Int
  BY DEF GoodCStates, CStatesType, CStatsType, StatType
<1>3. /\ \A q \in State : h[q] \in Int
      /\ \A q \in State : g[q] = h[q] + (IF x.cur = q THEN t - x.begin ELSE 0)
  BY <1>2 DEF Spent
<1> HIDE DEF h, g
<1>4. SumFunctionOnSet(h, State) \in Int
  BY <1>1, <1>3, SumInt
<1>5. CASE x.cur = -1
  <2>1. \A q \in State : g[q] = h[q]
    BY <1>3, <1>5 DEF State
  <2>2. SumFunctionOnSet(g, State) = SumFunctionOnSet(h, State)
    BY <1>1, <2>1, SumSame
  <2> QED BY <1>2, <1>4, <1>5, <2>2 DEF IdleTime, RecordedIdle, g, h
<1>6. CASE x.cur # -1
  <2>1. x.cur \in State /\ \A q \in State : q # x.cur => g[q] = h[q]
    BY <1>2, <1>3, <1>6
  <2>2. g[x.cur] = h[x.cur] + (t - x.begin) /\ g[x.cur] \in Int /\ h[x.cur] \in Int
    BY <1>2, <1>3, <2>1
  <2>3. SumFunctionOnSet(g, State) = SumFunctionOnSet(h, State) + (g[x.cur] - h[x.cur])
    BY <1>1, <1>3, <2>1, <2>2, SumChangeAt
  <2> QED BY <1>2, <1>4, <1>6, <2>2, <2>3 DEF IdleTime, RecordedIdle, g, h
<1> QED BY <1>5, <1>6

LEMMA TotalCIsSum ==
    ASSUME NEW u
    PROVE  TotalC(u) = RecordedIdle(cst[u]) /\ TotalC(u)' = RecordedIdle(cst'[u])
<1>1. TotalC(u) = RecordedIdle(cst[u])
  BY DEF TotalC, RecordedIdle, MapThenSumSet, MapThenFoldSet, SumFunctionOnSet,
         FoldFunctionOnSet
<1>2. TotalC(u)' = RecordedIdle(cst'[u])
  BY DEF TotalC, RecordedIdle, MapThenSumSet, MapThenFoldSet, SumFunctionOnSet,
         FoldFunctionOnSet
<1> QED BY <1>1, <1>2

(* From its start record on, every moment of a CPU goes to exactly one     *)
(* C-state or frequency, except that a second change of frequency before   *)
(* the first idle entry forgets what was open (store_data,                 *)
(* cpu_change_pstate), in a trace of idlestat's own that lost no record    *)
(* and whose timestamps do not go back.                                    *)
THEOREM CpuTimeIsExact ==
    ASSUME Native, ~Lossy, Backstep = 0
    PROVE  Spec => CpuTimeExact
<1> DEFINE A == \A c \in Cpus : pst[c].table # <<>> =>
                  Accounted(c)' = IF Forgets(c) THEN TotalC(c) + TotalP(c)
                                  ELSE Accounted(c) + (now' - now)
<1>1. Init => BothKnow
  BY UnitsDisjoint DEF Init, BothKnow, NewPStates, NewCStates
<1>2. ASSUME Inv, TimesOK, Timed(pst, now), BothKnow, Next, NEW c \in Cpus,
             pst[c].table # <<>>
      PROVE  Accounted(c)' = IF Forgets(c) THEN TotalC(c) + TotalP(c)
                             ELSE Accounted(c) + (now' - now)
  <2>1. now' \in Int /\ now \in Int /\ now' >= now
    BY <1>2, CstateStep DEF TimesOK
  <2>2. /\ GoodPStates(pst[c]) /\ pst[c].enter <= now' /\ pst[c].enter \in Int
        /\ pst[c].cur # 0
        /\ pst[c].idle = 1 <=> cst[c].cur # -1
        /\ GoodCStates(cst[c], Initialised(c)) /\ GoodCStates(cst'[c], Initialised(c)) /\ c \in Units
    <3>1. GoodPStates(pst[c]) /\ pst[c].enter <= now /\ pst[c].enter \in Int
      BY <1>2, UnitsDisjoint DEF Inv, GoodP, Timed, PStatesType
    <3>2. Inv'
      BY <1>2, InvStep
    <3>3. GoodCStates(cst[c], Initialised(c)) /\ GoodCStates(cst'[c], Initialised(c)) /\ c \in Units
      BY <1>2, <3>2, UnitsDisjoint DEF Inv, GoodC
    <3> QED BY <1>2, <2>1, <3>1, <3>3 DEF BothKnow
  <2>3. /\ Accounted(c) = IdleTime(cst[c], now) + Busy(pst[c], now)
        /\ Accounted(c)' = IdleTime(cst'[c], now') + Busy(pst'[c], now')
    <3>1. TotalC(c) + OpenC(c) = IdleTime(cst[c], now)
      BY <2>1, <2>2, IdleTimeSplit, TotalCIsSum DEF OpenC
    <3>2. TotalC(c)' + OpenC(c)' = IdleTime(cst'[c], now')
      BY <2>1, <2>2, IdleTimeSplit, TotalCIsSum DEF OpenC
    <3>3. TotalP(c) = TableTime(pst[c].table) /\ TotalP(c)' = TableTime(pst'[c].table)
      BY TotalPIsTableTime
    <3>4. OpenP(c) = Elapsed(pst[c], now) /\ OpenP(c)' = Elapsed(pst'[c], now')
      BY DEF OpenP, Elapsed
    <3>5. /\ TotalC(c) \in Int /\ TotalC(c)' \in Int
          /\ OpenC(c) \in Int /\ OpenC(c)' \in Int
      BY <2>1, <2>2, IdleTimeSplit, TotalCIsSum DEF OpenC
    <3>6. /\ TotalP(c) \in Int /\ TotalP(c)' \in Int
          /\ OpenP(c) \in Int /\ OpenP(c)' \in Int
      <4>1. GoodPStates(pst'[c])
        BY <1>2, <2>2, InvStep DEF Inv, GoodP
      <4>2. TotalP(c) \in Int /\ TotalP(c)' \in Int
        BY <2>2, <4>1, TableTimeType, TotalPIsTableTime
      <4>3. pst[c].enter \in Int /\ pst'[c].enter \in Int
        BY <2>2, <4>1 DEF GoodPStates, PStatesType
      <4>4. OpenP(c) \in Int /\ OpenP(c)' \in Int
        BY <2>1, <4>3 DEF OpenP
      <4> QED BY <4>2, <4>4
    <3>7. /\ Accounted(c) = (TotalC(c) + OpenC(c)) + (TotalP(c) + OpenP(c))
          /\ Accounted(c)' = (TotalC(c)' + OpenC(c)') + (TotalP(c)' + OpenP(c)')
      BY <3>5, <3>6 DEF Accounted
    <3> QED BY <3>1, <3>2, <3>3, <3>4, <3>7 DEF Busy
  <2>4. IdleTime(cst'[c], now') = IdleTime(cst[c], now')
    BY <1>2, <2>2, SpentKept DEF IdleTime
  <2>5. /\ IdleTime(cst[c], now) \in Int
        /\ IdleTime(cst[c], now') =
             IdleTime(cst[c], now) + (IF cst[c].cur = -1 THEN 0 ELSE now' - now)
    BY <2>1, <2>2, IdleTimeSplit
  <2>6. /\ Busy(pst[c], now) \in Int
        /\ Busy(pst[c], now') =
             Busy(pst[c], now) + (IF pst[c].idle = 1 THEN 0 ELSE now' - now)
    <3>1. TableTime(pst[c].table) \in Int
      BY <2>2, TableTimeType
    <3> QED BY <2>1, <2>2, <3>1 DEF Busy, Elapsed
  <2>7. IdleTime(cst[c], now') + Busy(pst[c], now') = Accounted(c) + (now' - now)
    BY <2>1, <2>2, <2>3, <2>5, <2>6
  <2>8. CASE ~Forgets(c) /\ Busy(pst'[c], now') = Busy(pst[c], now')
    BY <2>3, <2>4, <2>7, <2>8
  <2>9. CASE pst'[c] = pst[c]
    BY <2>8, <2>9 DEF Forgets
  <2>10. CASE /\ cst[c].cur = -1
              /\ pst'[c] = PstateIdle(pst[c], now')
    <3>1. pst'[c].idle = 1
      BY <2>1, <2>2, <2>10, PstateIdleGood
    <3>2. Busy(pst'[c], now') = Busy(pst[c], now')
      BY <2>1, <2>2, <2>10, PstateIdleTime
    <3> QED BY <2>8, <3>1, <3>2 DEF Forgets
  <2>11. CASE /\ cst[c].cur # -1
              /\ pst'[c] = PstateRunning(pst[c], now')
    <3>1. pst'[c].idle = 0
      BY <2>1, <2>2, <2>11, PstateRunningGood
    <3>2. Busy(pst'[c], now') = Busy(pst[c], now')
      BY <2>1, <2>2, <2>11, PstateRunningTime
    <3> QED BY <2>8, <3>1, <3>2 DEF Forgets
  <2>12. ASSUME cst'[c] = cst[c], NEW f \in Nat, pst'[c] = ChangePstate(pst[c], f, now')
         PROVE  Accounted(c)' = IF Forgets(c) THEN TotalC(c) + TotalP(c)
                                ELSE Accounted(c) + (now' - now)
    <3>1. /\ pst[c].idle # -1 => Busy(pst'[c], now') = Busy(pst[c], now')
          /\ pst[c].idle = -1 => Busy(pst'[c], now') = TableTime(pst[c].table)
          /\ pst'[c].idle = pst[c].idle
      <4> DEFINE p == pst[c]
                 t == now'
                 r == ChangePstate(p, f, t)
      <4>1. GoodPStates(p) /\ t \in Int /\ p.enter <= t
        BY <2>1, <2>2
      <4>2. pst'[c] = r
        BY <2>12
      <4> HIDE DEF p, t
      <4>3. r.idle = p.idle
        BY <4>1, ChangePstateGood
      <4>4. /\ p.idle # -1 => Busy(r, t) = Busy(p, t)
            /\ p.idle = -1 => Busy(r, t) = TableTime(p.table)
        BY <4>1, ChangePstateTime
      <4> HIDE DEF r
      <4> QED BY <4>2, <4>3, <4>4 DEF p, t
    <3>2. CASE Forgets(c)
      <4>1. cst[c].cur = -1 /\ pst[c].idle = -1
        BY <2>2, <3>2 DEF Forgets
      <4>2. IdleTime(cst[c], now') = TotalC(c)
        BY <2>1, <2>2, <4>1, IdleTimeSplit, TotalCIsSum
      <4>3. TableTime(pst[c].table) = TotalP(c)
        BY TotalPIsTableTime
      <4> QED BY <2>3, <2>4, <3>1, <3>2, <4>1, <4>2, <4>3
    <3>3. CASE ~Forgets(c)
      <4>1. pst[c].idle # -1 \/ pst'[c] = pst[c]
        BY <3>1, <3>3 DEF Forgets
      <4> QED BY <2>8, <2>9, <3>1, <3>3, <4>1
    <3> QED BY <3>2, <3>3
  <2>13. CpuStep(c)
    BY <1>2, EveryStepIsCpuStep
  <2> QED BY <2>9, <2>10, <2>11, <2>12, <2>13 DEF CpuStep
<1>3. Inv /\ TimesOK /\ Timed(pst, now) /\ BothKnow /\ [Next]_vars => BothKnow'
  <2>1. UNCHANGED vars /\ BothKnow => BothKnow'
    BY DEF vars, BothKnow
  <2> QED BY <2>1, BothKnowStep
<1>4. Inv /\ TimesOK /\ Timed(pst, now) /\ BothKnow /\ Next => A
  BY <1>2
<1>5. IInv => Inv
  BY InvIsIInv
<1> QED BY <1>1, <1>3, <1>4, <1>5, Invariance, TimesAlwaysOK, TimedAlways, PTL
      DEF Spec, CpuTimeExact
=============================================================================

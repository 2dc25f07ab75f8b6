---------------------------- MODULE Report_proofs ----------------------------
(***************************************************************************)
(* From the command line to the printed report, for any words, any two     *)
(* traces and any number of CPUs and frequencies.  The options are what    *)
(* the words ask for.  merge_pstates gives the two tables of a CPU the     *)
(* same frequencies row by row and changes nothing that was measured.  The *)
(* report that is printed lacks nothing that was asked for, pairs the rows *)
(* of a unit compared with itself, and reads behind an array only where a  *)
(* core's or cluster's table is shorter in the baseline.                   *)
(***************************************************************************)
EXTENDS Report, PStates_proofs

-----------------------------------------------------------------------------
(* Increasing sequences.                                                   *)

Increasing(a) == \A i, j \in DOMAIN a : i < j => a[i] < a[j]
Values(a) == {a[i] : i \in DOMAIN a}

(* Of two increasing sequences, one without values of its own is, at the   *)
(* first place where they may differ, not below the other.                 *)
LEMMA NotBelow ==
    ASSUME NEW a \in Seq(Nat), NEW b \in Seq(Nat), Increasing(a), Increasing(b),
           Values(a) \subseteq Values(b),
           NEW i \in DOMAIN a,
           \A j \in 1 .. i - 1 : j \in DOMAIN a /\ j \in DOMAIN b /\ a[j] = b[j]
    PROVE  i \in DOMAIN b /\ b[i] <= a[i]
<1>1. /\ DOMAIN a = 1 .. Len(a) /\ DOMAIN b = 1 .. Len(b)
      /\ Len(a) \in Nat /\ Len(b) \in Nat
      /\ \A k \in 1 .. Len(a) : a[k] \in Nat
      /\ \A k \in 1 .. Len(b) : b[k] \in Nat
  BY LenProperties, ElementOfSeq
<1>2. PICK k \in DOMAIN b : b[k] = a[i]
  BY DEF Values
<1>3. ~(k < i)
  <2> SUFFICES ASSUME k < i
               PROVE  FALSE
    OBVIOUS
  <2>1. k \in 1 .. i - 1
    BY <1>1
  <2>2. a[k] < a[i] /\ b[k] = a[k]
    BY <2>1 DEF Increasing
  <2> QED BY <1>1, <1>2, <2>2
<1>4. i \in DOMAIN b
  BY <1>1, <1>3
<1>5. b[i] <= b[k]
  <2>1. CASE i = k
    BY <1>1, <1>4, <2>1
  <2>2. CASE i < k
    BY <1>1, <1>4, <2>2 DEF Increasing
  <2> QED BY <1>1, <1>3, <2>1, <2>2
<1> QED BY <1>2, <1>4, <1>5

(* Increasing sequences with the same values are the same.                 *)
LEMMA SameValuesSameSequence ==
    ASSUME NEW a \in Seq(Nat), NEW b \in Seq(Nat), Increasing(a), Increasing(b),
           Values(a) = Values(b)
    PROVE  a = b
<1> DEFINE Differ == {i \in DOMAIN a \cup DOMAIN b :
                        ~(i \in DOMAIN a /\ i \in DOMAIN b /\ a[i] = b[i])}
<1>1. /\ DOMAIN a = 1 .. Len(a) /\ DOMAIN b = 1 .. Len(b)
      /\ Len(a) \in Nat /\ Len(b) \in Nat
      /\ \A k \in 1 .. Len(a) : a[k] \in Nat
      /\ \A k \in 1 .. Len(b) : b[k] \in Nat
  BY LenProperties, ElementOfSeq
<1>2. Differ = {}
  <2> SUFFICES ASSUME Differ # {}
               PROVE  FALSE
    OBVIOUS
  <2>1. Differ \in SUBSET Int
    BY <1>1
  <2>2. IsFiniteSet(Differ)
    <3>1. IsFiniteSet(1 .. Len(a)) /\ IsFiniteSet(1 .. Len(b))
      BY <1>1, FS_Interval
    <3>2. IsFiniteSet(DOMAIN a \cup DOMAIN b)
      BY <1>1, <3>1, FS_Union
    <3> QED BY <3>2, FS_Subset
  <2>3. PICK i \in Differ : \A j \in Differ : i <= j
    <3> HIDE DEF Differ
    <3> QED BY <2>1, <2>2, LeastExists
  <2>4. ASSUME NEW j \in 1 .. i - 1
        PROVE  j \in DOMAIN a /\ j \in DOMAIN b /\ a[j] = b[j]
    <3>1. j \notin Differ
      <4> HIDE DEF Differ
      <4>1. i \in Int /\ ~(i <= j)
        BY <2>1
      <4> QED BY <2>3, <4>1
    <3>2. j \in DOMAIN a \cup DOMAIN b
      BY <1>1
    <3> QED BY <3>1, <3>2
  <2>5. i \in DOMAIN a => i \in DOMAIN b /\ b[i] <= a[i]
    <3> SUFFICES ASSUME i \in DOMAIN a
                 PROVE  i \in DOMAIN b /\ b[i] <= a[i]
      OBVIOUS
    <3> HIDE DEF Differ
    <3> QED BY <2>4, NotBelow
  <2>6. i \in DOMAIN b => i \in DOMAIN a /\ a[i] <= b[i]
    <3> SUFFICES ASSUME i \in DOMAIN b
                 PROVE  i \in DOMAIN a /\ a[i] <= b[i]
      OBVIOUS
    <3>1. \A j \in 1 .. i - 1 : j \in DOMAIN b /\ j \in DOMAIN a /\ b[j] = a[j]
      BY <2>4
    <3> HIDE DEF Differ
    <3> QED BY <3>1, NotBelow
  <2>7. i \in DOMAIN a /\ i \in DOMAIN b /\ a[i] = b[i]
    BY <1>1, <2>5, <2>6
  <2> QED BY <2>7
<1>3. DOMAIN a = DOMAIN b /\ \A i \in DOMAIN a : a[i] = b[i]
  BY <1>2
<1>4. Len(a) = Len(b)
  <2>1. ~(Len(a) < Len(b))
    <3>1. Len(a) < Len(b) => Len(b) \in DOMAIN b /\ Len(b) \notin DOMAIN a
      BY <1>1
    <3> QED BY <1>3, <3>1
  <2>2. ~(Len(b) < Len(a))
    <3>1. Len(b) < Len(a) => Len(a) \in DOMAIN a /\ Len(a) \notin DOMAIN b
      BY <1>1
    <3> QED BY <1>3, <3>1
  <2>3. Len(a) \in Nat /\ Len(b) \in Nat
    BY <1>1
  <2> QED BY <2>1, <2>2, <2>3
<1> QED BY <1>1, <1>3, <1>4, SeqEqual

-----------------------------------------------------------------------------
(* The invariant.                                                          *)

(* A loaded trace is one of Traces, or none yet.                           *)
GoodTrace(tr) ==
    /\ tr.nrcpus \in Nat
    /\ \A c \in CpuIds(tr) : GoodPStates(tr.pst[c])

(* The P-states of a trace while they are merged.                          *)
GoodTables(tr, ps) ==
    /\ DOMAIN ps = CpuIds(tr)
    /\ \A c \in CpuIds(tr) : GoodPStates(ps[c]) /\ Kept(ps[c], tr.pst[c])

(* The first n rows of a record have frequencies of the other's.           *)
RowsFound(ps, n, other) ==
    \A i \in DOMAIN ps.table : i <= n => ps.table[i].freq \in Freqs(other)

(* Where the loops are.  The table an inner loop walks is not the one it   *)
(* adds to, so the rows behind it stay found; and the second loop adds     *)
(* only frequencies the baseline has, so it cannot undo the first.         *)
LoopsAt ==
    /\ idx \in Nat \ {0} /\ cpu \in Nat /\ back \in BOOLEAN
    /\ \A c \in CpuIds(main) : c < cpu =>
          c \in CpuIds(base) /\ Freqs(mainP[c]) = Freqs(baseP[c])
    /\ cpu \in CpuIds(main) \cap CpuIds(base) =>
          IF back
          THEN /\ Freqs(mainP[cpu]) \subseteq Freqs(baseP[cpu])
               /\ RowsFound(baseP[cpu], idx - 1, mainP[cpu])
          ELSE RowsFound(mainP[cpu], idx - 1, baseP[cpu])
    /\ back => cpu \in CpuIds(base)

Before == {"options", "check", "load", "load baseline"}

(* The traces are loaded before the loops start.                           *)
AtStart == cpu = 0 /\ back = FALSE /\ idx = 1

Inv ==
    /\ GoodTrace(main) /\ GoodTrace(base)
    /\ GoodTables(main, mainP) /\ GoodTables(base, baseP)
    /\ LoopsAt
    /\ phase \in Before => AtStart

(* A trace as it was loaded is as it was loaded.                           *)
LEMMA KeptItself ==
    ASSUME NEW ps
    PROVE  Kept(ps, ps)
BY DEF Kept

(* One more call of alloc_pstate keeps what was measured.                  *)
LEMMA AllocPstateKept ==
    ASSUME NEW ps, NEW loaded, GoodPStates(ps), Kept(ps, loaded), NEW f \in Nat
    PROVE  Kept(AllocPstate(ps, f), loaded)
<1> DEFINE al == AllocPstate(ps, f)
<1>1. /\ Freqs(al) = Freqs(ps) \cup {f}
      /\ \A g \in Freqs(al) : StatOf(al, g) = StatOf(ps, g)
  BY AllocPstateAdds
<1>2. OpenFreq(al) = OpenFreq(ps)
  BY AllocPstateGood
<1> HIDE DEF al
<1>3. ASSUME NEW g \in Freqs(al)
      PROVE  StatOf(ps, g) = StatOf(loaded, g)
  <2>1. CASE g \in Freqs(ps)
    BY <2>1 DEF Kept
  <2>2. CASE g \notin Freqs(ps)
    <3>1. g \notin Freqs(loaded)
      BY <2>2 DEF Kept
    <3> QED BY <2>2, <3>1 DEF StatOf
  <2> QED BY <2>1, <2>2
<1>4. Freqs(loaded) \subseteq Freqs(al)
  BY <1>1 DEF Kept
<1> QED BY <1>1, <1>2, <1>3, <1>4 DEF Kept, al

(* Sorted tables with the same frequencies have them row by row.           *)
LEMMA SameFreqsSameRows ==
    ASSUME NEW p, NEW q, GoodPStates(p), GoodPStates(q), Freqs(p) = Freqs(q)
    PROVE  FreqAt(p) = FreqAt(q)
<1>1. ASSUME NEW ps, GoodPStates(ps)
      PROVE  /\ FreqAt(ps) \in Seq(Nat) /\ Increasing(FreqAt(ps))
             /\ Values(FreqAt(ps)) = Freqs(ps)
  <2>1. /\ Len(ps.table) \in Nat /\ DOMAIN ps.table = 1 .. Len(ps.table)
        /\ \A i \in 1 .. Len(ps.table) : ps.table[i].freq \in Nat
        /\ \A i, j \in 1 .. Len(ps.table) :
              i < j => ps.table[i].freq < ps.table[j].freq
    BY <1>1, TableFacts
  <2>2. FreqAt(ps) = [i \in 1 .. Len(ps.table) |-> ps.table[i].freq]
    BY <2>1 DEF FreqAt
  <2>3. FreqAt(ps) \in [1 .. Len(ps.table) -> Nat]
    BY <2>1, <2>2
  <2>4. FreqAt(ps) \in Seq(Nat)
    BY <2>1, <2>3
  <2>5. Increasing(FreqAt(ps))
    BY <2>1, <2>2 DEF Increasing
  <2>6. Values(FreqAt(ps)) = Freqs(ps)
    BY <2>1, <2>2 DEF Values, Freqs
  <2> QED BY <2>4, <2>5, <2>6
<1> QED BY <1>1, SameValuesSameSequence

-----------------------------------------------------------------------------
(* Its proof.                                                              *)

(* The traces that can be loaded are well formed, and nothing is merged    *)
(* yet (idlestat_load).                                                    *)
LEMMA LoadedGood ==
    ASSUME NEW tr \in Traces
    PROVE  GoodTrace(tr) /\ GoodTables(tr, tr.pst)
<1>1. /\ tr.nrcpus \in Nat /\ DOMAIN tr.pst = CpuIds(tr)
      /\ \A c \in CpuIds(tr) : GoodPStates(tr.pst[c])
  BY TracesAssumption DEF GoodPStates, LoadedTable
<1> QED BY <1>1, KeptItself DEF GoodTrace, GoodTables

LEMMA InitInv == Init => Inv
<1> SUFFICES ASSUME Init
             PROVE  Inv
  OBVIOUS
<1>1. /\ main = NoTrace /\ base = NoTrace /\ mainP = <<>> /\ baseP = <<>>
      /\ cpu = 0 /\ back = FALSE /\ idx = 1
  BY DEF Init, BaselineInit
<1>2. NoTrace.nrcpus = 0 /\ CpuIds(NoTrace) = {} /\ DOMAIN <<>> = {}
  BY DEF NoTrace, CpuIds
<1>3. GoodTrace(NoTrace) /\ GoodTables(NoTrace, <<>>)
  BY <1>2 DEF GoodTrace, GoodTables
<1>4. LoopsAt
  <2>1. \A c : c \notin CpuIds(main) /\ c \notin CpuIds(main) \cap CpuIds(base)
    BY <1>1, <1>2
  <2>2. idx \in Nat \ {0} /\ cpu \in Nat
    BY <1>1
  <2>3. back \in BOOLEAN /\ ~back
    BY <1>1, Zenon
  <2> QED BY <2>1, <2>2, <2>3, Zenon DEF LoopsAt
<1> QED BY <1>1, <1>3, <1>4 DEF Inv, AtStart

(* Steps that leave the traces and the loops alone.                        *)
LEMMA ElsewhereInv ==
    ASSUME Inv, UNCHANGED <<main, base, mergeVars>>,
           phase' \in Before => phase \in Before
    PROVE  Inv'
<1>1. GoodTrace(main)' /\ GoodTrace(base)'
  BY DEF Inv, GoodTrace, CpuIds
<1>2. GoodTables(main, mainP)' /\ GoodTables(base, baseP)'
  BY DEF Inv, GoodTables, CpuIds, mergeVars
<1>3. LoopsAt' /\ (phase' \in Before => AtStart')
  BY DEF Inv, LoopsAt, AtStart, CpuIds, mergeVars, RowsFound
<1> QED BY <1>1, <1>2, <1>3 DEF Inv

(* Before the loops start the trace and the baseline may be any.           *)
LEMMA StartedInv ==
    ASSUME AtStart', GoodTrace(main)', GoodTrace(base)',
           GoodTables(main, mainP)', GoodTables(base, baseP)'
    PROVE  Inv'
<1>1. cpu' = 0 /\ back' = FALSE /\ idx' = 1
  BY DEF AtStart
<1>2. \A c \in CpuIds(main)' : ~(c < cpu')
  BY <1>1 DEF GoodTrace, CpuIds
<1>3. cpu' \in CpuIds(main)' =>
        \A i \in DOMAIN mainP'[cpu'].table : ~(i <= idx' - 1)
  <2> SUFFICES ASSUME cpu' \in CpuIds(main)'
               PROVE  \A i \in DOMAIN mainP'[cpu'].table : ~(i <= idx' - 1)
    OBVIOUS
  <2>1. GoodPStates(mainP'[cpu'])
    BY DEF GoodTables
  <2> QED BY <1>1, <2>1, TableFacts
<1>4. /\ idx' \in Nat \ {0} /\ cpu' \in Nat
      /\ back' \in BOOLEAN /\ ~back'
  <2>1. idx' \in Nat \ {0} /\ cpu' \in Nat
    BY <1>1
  <2>2. back' \in BOOLEAN /\ ~back'
    BY <1>1, Zenon
  <2> QED BY <2>1, <2>2
<1>5. LoopsAt'
  BY <1>2, <1>3, <1>4 DEF LoopsAt, RowsFound
<1> QED BY <1>5 DEF Inv

LEMMA LoadMainInv == Inv /\ LoadMain => Inv'
<1> SUFFICES ASSUME Inv, LoadMain
             PROVE  Inv'
  OBVIOUS
<1>1. CASE phase' = "failed" /\ UNCHANGED <<main, mainP>>
  BY <1>1, ElsewhereInv DEF LoadMain, Before, mergeVars
<1>2. CASE \E trace \in Traces : main' = trace /\ mainP' = trace.pst
  <2>1. GoodTrace(main)' /\ GoodTables(main, mainP)'
    BY <1>2, LoadedGood
  <2>2. AtStart' /\ base' = base /\ baseP' = baseP
    BY DEF LoadMain, Inv, Before, AtStart
  <2>3. GoodTrace(base)' /\ GoodTables(base, baseP)'
    BY <2>2 DEF Inv
  <2> QED BY <2>1, <2>2, <2>3, StartedInv
<1> QED BY <1>1, <1>2 DEF LoadMain

LEMMA LoadBaselineInv == Inv /\ LoadBaseline => Inv'
<1> SUFFICES ASSUME Inv, LoadBaseline
             PROVE  Inv'
  OBVIOUS
<1>1. CASE phase' = "aborted" /\ UNCHANGED <<base, baseP>>
  BY <1>1, ElsewhereInv DEF LoadBaseline, Before, mergeVars
<1>2. CASE \E trace \in Traces : base' = trace /\ baseP' = trace.pst
  <2>1. GoodTrace(base)' /\ GoodTables(base, baseP)'
    BY <1>2, LoadedGood
  <2>2. AtStart' /\ main' = main /\ mainP' = mainP
    BY DEF LoadBaseline, Inv, Before, AtStart
  <2>3. GoodTrace(main)' /\ GoodTables(main, mainP)'
    BY <2>2 DEF Inv
  <2> QED BY <2>1, <2>2, <2>3, StartedInv
<1> QED BY <1>1, <1>2 DEF LoadBaseline

(* One call of alloc_pstate on the table of the loops' CPU.                *)
LEMMA AllocInTable ==
    ASSUME NEW tr, NEW ps, GoodTables(tr, ps), NEW c \in CpuIds(tr), NEW f \in Nat,
           NEW new, DOMAIN new = DOMAIN ps, new[c] = AllocPstate(ps[c], f),
           \A d \in DOMAIN ps : d # c => new[d] = ps[d]
    PROVE  /\ GoodTables(tr, new)
           /\ \A d \in CpuIds(tr) : d # c => new[d] = ps[d]
           /\ Freqs(new[c]) = Freqs(ps[c]) \cup {f}
<1>1. DOMAIN ps = CpuIds(tr) /\ GoodPStates(ps[c]) /\ Kept(ps[c], tr.pst[c])
  BY DEF GoodTables
<1>2. /\ DOMAIN new = CpuIds(tr) /\ new[c] = AllocPstate(ps[c], f)
      /\ \A d \in CpuIds(tr) : d # c => new[d] = ps[d]
  BY <1>1
<1>3. /\ GoodPStates(AllocPstate(ps[c], f))
      /\ Kept(AllocPstate(ps[c], f), tr.pst[c])
      /\ Freqs(AllocPstate(ps[c], f)) = Freqs(ps[c]) \cup {f}
  BY <1>1, AllocPstateGood, AllocPstateKept, AllocPstateAdds
<1>4. \A d \in CpuIds(tr) : GoodPStates(new[d]) /\ Kept(new[d], tr.pst[d])
  BY <1>2, <1>3 DEF GoodTables
<1>5. GoodTables(tr, new)
  BY <1>2, <1>4 DEF GoodTables
<1> QED BY <1>2, <1>3, <1>5

(* A step of merge_pstates leaves the loaded traces alone.                 *)
LEMMA MergedInv ==
    ASSUME Inv, UNCHANGED <<phase, main, base>>, phase = "merge",
           GoodTables(main, mainP'), GoodTables(base, baseP'), LoopsAt'
    PROVE  Inv'
<1>1. GoodTrace(main)' /\ GoodTrace(base)'
  BY DEF Inv, GoodTrace, CpuIds
<1>2. GoodTables(main, mainP)' /\ GoodTables(base, baseP)'
  BY DEF GoodTables, CpuIds
<1>3. phase' \notin Before
  BY DEF Before
<1> QED BY <1>1, <1>2, <1>3 DEF Inv

(* The first loop: the trace's frequency goes into the baseline's table.   *)
LEMMA MergeIntoBaselineInv == Inv /\ MergeIntoBaseline => Inv'
<1> SUFFICES ASSUME Inv, MergeIntoBaseline
             PROVE  Inv'
  OBVIOUS
<1> DEFINE T == mainP[cpu].table
           f == T[idx].freq
<1>1. /\ cpu \in CpuIds(main) /\ cpu \in CpuIds(base) /\ ~back
      /\ idx \in Nat \ {0} /\ cpu \in Nat /\ idx <= Len(T)
  BY DEF Inv, LoopsAt, MergeIntoBaseline, Merging, CpuIds, GoodTrace
<1>2. /\ UNCHANGED <<phase, main, base, mainP, cpu, back>> /\ idx' = idx + 1
      /\ baseP' = [baseP EXCEPT ![cpu] = AllocPstate(@, f)]
  BY DEF MergeIntoBaseline
<1>3. /\ DOMAIN T = 1 .. Len(T) /\ Len(T) \in Nat /\ f \in Nat
      /\ idx \in DOMAIN T
  <2>1. GoodPStates(mainP[cpu])
    BY <1>1 DEF Inv, GoodTables
  <2>2. DOMAIN T = 1 .. Len(T) /\ Len(T) \in Nat
    BY <2>1, TableFacts
  <2>3. idx \in 1 .. Len(T)
    BY <1>1, <2>2
  <2> QED BY <2>1, <2>2, <2>3, TableFacts
<1> HIDE DEF f
<1>4. /\ GoodTables(base, baseP')
      /\ \A d \in CpuIds(base) : d # cpu => baseP'[d] = baseP[d]
      /\ Freqs(baseP'[cpu]) = Freqs(baseP[cpu]) \cup {f}
  <2>1. GoodTables(base, baseP)
    BY DEF Inv
  <2>2. /\ DOMAIN baseP' = DOMAIN baseP
        /\ baseP'[cpu] = AllocPstate(baseP[cpu], f)
        /\ \A d \in DOMAIN baseP : d # cpu => baseP'[d] = baseP[d]
    BY <1>1, <1>2, <2>1 DEF GoodTables
  <2> QED BY <1>1, <1>3, <2>1, <2>2, AllocInTable
<1>5. RowsFound(mainP[cpu], idx, baseP'[cpu])
  <2> SUFFICES ASSUME NEW i \in DOMAIN T, i <= idx
               PROVE  T[i].freq \in Freqs(baseP'[cpu])
    BY DEF RowsFound
  <2>1. CASE i = idx
    BY <1>4, <2>1 DEF f
  <2>2. CASE i # idx
    <3>1. i <= idx - 1
      BY <1>1, <1>3, <2>2
    <3>2. T[i].freq \in Freqs(baseP[cpu])
      BY <1>1, <3>1 DEF Inv, LoopsAt, RowsFound
    <3> QED BY <1>4, <3>2
  <2> QED BY <2>1, <2>2
<1>6. \A c \in CpuIds(main) : c < cpu =>
         c \in CpuIds(base) /\ Freqs(mainP[c]) = Freqs(baseP'[c])
  <2> SUFFICES ASSUME NEW c \in CpuIds(main), c < cpu
               PROVE  c \in CpuIds(base) /\ Freqs(mainP[c]) = Freqs(baseP'[c])
    OBVIOUS
  <2>1. c \in CpuIds(base) /\ Freqs(mainP[c]) = Freqs(baseP[c])
    BY DEF Inv, LoopsAt
  <2>2. c # cpu
    BY <1>1
  <2> QED BY <1>4, <2>1, <2>2
<1>7. idx' \in Nat \ {0} /\ idx' - 1 = idx
  BY <1>1, <1>2
<1>8. RowsFound(mainP[cpu], idx - 1, baseP[cpu])'
  BY <1>2, <1>5, <1>7 DEF RowsFound
<1>9. /\ CpuIds(main)' = CpuIds(main) /\ CpuIds(base)' = CpuIds(base)
      /\ mainP' = mainP /\ cpu' = cpu /\ back' = back
  BY <1>2 DEF CpuIds
<1>10. LoopsAt'
  BY <1>1, <1>6, <1>7, <1>8, <1>9, Zenon DEF LoopsAt, Inv
<1>11. phase = "merge" /\ GoodTables(main, mainP')
  BY <1>2 DEF MergeIntoBaseline, Merging, Inv
<1> QED BY <1>2, <1>4, <1>10, <1>11, MergedInv

(* The second loop: the baseline's frequency goes into the trace's table.  *)
LEMMA MergeIntoMainInv == Inv /\ MergeIntoMain => Inv'
<1> SUFFICES ASSUME Inv, MergeIntoMain
             PROVE  Inv'
  OBVIOUS
<1> DEFINE T == baseP[cpu].table
           f == T[idx].freq
<1>1. /\ cpu \in CpuIds(main) /\ cpu \in CpuIds(base) /\ back
      /\ idx \in Nat \ {0} /\ cpu \in Nat /\ idx <= Len(T)
  BY DEF Inv, LoopsAt, MergeIntoMain, Merging, CpuIds, GoodTrace
<1>2. /\ UNCHANGED <<phase, main, base, baseP, cpu, back>> /\ idx' = idx + 1
      /\ mainP' = [mainP EXCEPT ![cpu] = AllocPstate(@, f)]
  BY DEF MergeIntoMain
<1>3. /\ DOMAIN T = 1 .. Len(T) /\ Len(T) \in Nat /\ f \in Nat
      /\ idx \in DOMAIN T
  <2>1. GoodPStates(baseP[cpu])
    BY <1>1 DEF Inv, GoodTables
  <2>2. DOMAIN T = 1 .. Len(T) /\ Len(T) \in Nat
    BY <2>1, TableFacts
  <2>3. idx \in 1 .. Len(T)
    BY <1>1, <2>2
  <2> QED BY <2>1, <2>2, <2>3, TableFacts
<1>4. f \in Freqs(baseP[cpu])
  BY <1>3 DEF Freqs
<1> HIDE DEF f
<1>5. /\ GoodTables(main, mainP')
      /\ \A d \in CpuIds(main) : d # cpu => mainP'[d] = mainP[d]
      /\ Freqs(mainP'[cpu]) = Freqs(mainP[cpu]) \cup {f}
  <2>1. GoodTables(main, mainP)
    BY DEF Inv
  <2>2. /\ DOMAIN mainP' = DOMAIN mainP
        /\ mainP'[cpu] = AllocPstate(mainP[cpu], f)
        /\ \A d \in DOMAIN mainP : d # cpu => mainP'[d] = mainP[d]
    BY <1>1, <1>2, <2>1 DEF GoodTables
  <2> QED BY <1>1, <1>3, <2>1, <2>2, AllocInTable
<1>6. Freqs(mainP'[cpu]) \subseteq Freqs(baseP[cpu])
  <2>1. Freqs(mainP[cpu]) \subseteq Freqs(baseP[cpu])
    BY <1>1 DEF Inv, LoopsAt
  <2> QED BY <1>4, <1>5, <2>1
<1>7. RowsFound(baseP[cpu], idx, mainP'[cpu])
  <2> SUFFICES ASSUME NEW i \in DOMAIN T, i <= idx
               PROVE  T[i].freq \in Freqs(mainP'[cpu])
    BY DEF RowsFound
  <2>1. CASE i = idx
    BY <1>5, <2>1 DEF f
  <2>2. CASE i # idx
    <3>1. i <= idx - 1
      BY <1>1, <1>3, <2>2
    <3>2. T[i].freq \in Freqs(mainP[cpu])
      BY <1>1, <3>1 DEF Inv, LoopsAt, RowsFound
    <3> QED BY <1>5, <3>2
  <2> QED BY <2>1, <2>2
<1>8. \A c \in CpuIds(main) : c < cpu =>
         c \in CpuIds(base) /\ Freqs(mainP'[c]) = Freqs(baseP[c])
  <2> SUFFICES ASSUME NEW c \in CpuIds(main), c < cpu
               PROVE  c \in CpuIds(base) /\ Freqs(mainP'[c]) = Freqs(baseP[c])
    OBVIOUS
  <2>1. c \in CpuIds(base) /\ Freqs(mainP[c]) = Freqs(baseP[c])
    BY DEF Inv, LoopsAt
  <2>2. c # cpu
    BY <1>1
  <2> QED BY <1>5, <2>1, <2>2
<1>9. idx' \in Nat \ {0} /\ idx' - 1 = idx
  BY <1>1, <1>2
<1>10. RowsFound(baseP[cpu], idx - 1, mainP[cpu])'
  BY <1>2, <1>7, <1>9 DEF RowsFound
<1>11. /\ CpuIds(main)' = CpuIds(main) /\ CpuIds(base)' = CpuIds(base)
       /\ baseP' = baseP /\ cpu' = cpu /\ back' = back
  BY <1>2 DEF CpuIds
<1>12. LoopsAt'
  BY <1>1, <1>6, <1>8, <1>9, <1>10, <1>11, Zenon DEF LoopsAt, Inv
<1>13. phase = "merge" /\ GoodTables(base, baseP')
  BY <1>2 DEF MergeIntoMain, Merging, Inv
<1> QED BY <1>2, <1>5, <1>12, <1>13, MergedInv

(* Between the loops: all of the trace's frequencies are in the baseline's *)
(* table.                                                                  *)
LEMMA MergeTurnInv == Inv /\ MergeTurn => Inv'
<1> SUFFICES ASSUME Inv, MergeTurn
             PROVE  Inv'
  OBVIOUS
<1>1. /\ cpu \in CpuIds(main) /\ cpu \in CpuIds(base) /\ ~back
      /\ idx \in Nat \ {0} /\ cpu \in Nat /\ idx > Len(mainP[cpu].table)
  BY DEF Inv, LoopsAt, MergeTurn, Merging, CpuIds, GoodTrace
<1>2. /\ UNCHANGED <<phase, main, base, mainP, baseP, cpu>>
      /\ back' = TRUE /\ idx' = 1 /\ phase = "merge"
  BY DEF MergeTurn, Merging
<1>3. GoodPStates(mainP[cpu]) /\ GoodPStates(baseP[cpu])
  BY <1>1 DEF Inv, GoodTables
<1>4. Freqs(mainP[cpu]) \subseteq Freqs(baseP[cpu])
  <2>1. \A i \in DOMAIN mainP[cpu].table : i <= idx - 1
    BY <1>1, <1>3, TableFacts
  <2>2. RowsFound(mainP[cpu], idx - 1, baseP[cpu])
    BY <1>1 DEF Inv, LoopsAt
  <2> QED BY <2>1, <2>2 DEF RowsFound, Freqs
<1>5. RowsFound(baseP[cpu], idx - 1, mainP[cpu])'
  <2>1. \A i \in DOMAIN baseP[cpu].table : ~(i <= 0)
    BY <1>3, TableFacts
  <2> QED BY <1>2, <2>1 DEF RowsFound
<1>6. /\ CpuIds(main)' = CpuIds(main) /\ CpuIds(base)' = CpuIds(base)
      /\ idx' \in Nat \ {0} /\ mainP' = mainP /\ baseP' = baseP /\ cpu' = cpu
  BY <1>2 DEF CpuIds
<1>7. LoopsAt'
  BY <1>1, <1>2, <1>4, <1>5, <1>6, Zenon DEF LoopsAt, Inv
<1> QED BY <1>2, <1>7, MergedInv DEF Inv

(* After the loops: the frequencies are the same.                          *)
LEMMA MergeNextCpuInv == Inv /\ MergeNextCpu => Inv'
<1> SUFFICES ASSUME Inv, MergeNextCpu
             PROVE  Inv'
  OBVIOUS
<1>1. /\ cpu \in CpuIds(main) /\ cpu \in CpuIds(base) /\ back
      /\ idx \in Nat \ {0} /\ cpu \in Nat /\ idx > Len(baseP[cpu].table)
  BY DEF Inv, LoopsAt, MergeNextCpu, Merging, CpuIds, GoodTrace
<1>2. /\ UNCHANGED <<phase, main, base, mainP, baseP>>
      /\ cpu' = cpu + 1 /\ back' = FALSE /\ idx' = 1 /\ phase = "merge"
  BY DEF MergeNextCpu, Merging
<1>3. Freqs(mainP[cpu]) = Freqs(baseP[cpu])
  <2>1. GoodPStates(baseP[cpu])
    BY <1>1 DEF Inv, GoodTables
  <2>2. \A i \in DOMAIN baseP[cpu].table : i <= idx - 1
    BY <1>1, <2>1, TableFacts
  <2>3. /\ Freqs(mainP[cpu]) \subseteq Freqs(baseP[cpu])
        /\ RowsFound(baseP[cpu], idx - 1, mainP[cpu])
    BY <1>1 DEF Inv, LoopsAt
  <2>4. Freqs(baseP[cpu]) \subseteq Freqs(mainP[cpu])
    BY <2>2, <2>3 DEF RowsFound, Freqs
  <2> QED BY <2>3, <2>4
<1>4. \A c \in CpuIds(main) : c < cpu' =>
         c \in CpuIds(base) /\ Freqs(mainP[c]) = Freqs(baseP[c])
  <2> SUFFICES ASSUME NEW c \in CpuIds(main), c < cpu'
               PROVE  c \in CpuIds(base) /\ Freqs(mainP[c]) = Freqs(baseP[c])
    OBVIOUS
  <2>1. c < cpu \/ c = cpu
    BY <1>1, <1>2 DEF Inv, GoodTrace, CpuIds
  <2> QED BY <1>1, <1>3, <2>1 DEF Inv, LoopsAt
<1>5. cpu' \in CpuIds(main) => RowsFound(mainP[cpu], idx - 1, baseP[cpu])'
  <2> SUFFICES ASSUME cpu' \in CpuIds(main)
               PROVE  RowsFound(mainP[cpu], idx - 1, baseP[cpu])'
    OBVIOUS
  <2>1. GoodPStates(mainP[cpu'])
    BY DEF Inv, GoodTables
  <2>2. \A i \in DOMAIN mainP[cpu'].table : ~(i <= 0)
    BY <2>1, TableFacts
  <2> QED BY <1>2, <2>2 DEF RowsFound
<1>6. /\ CpuIds(main)' = CpuIds(main) /\ CpuIds(base)' = CpuIds(base)
      /\ idx' \in Nat \ {0} /\ cpu' \in Nat /\ mainP' = mainP /\ baseP' = baseP
  BY <1>1, <1>2 DEF CpuIds
<1>7. back' \in BOOLEAN /\ ~back'
  BY <1>2, Zenon
<1>8. LoopsAt'
  BY <1>4, <1>5, <1>6, <1>7, Zenon DEF LoopsAt
<1> QED BY <1>2, <1>8, MergedInv DEF Inv

-----------------------------------------------------------------------------
(* The command line.  Reading a word changes what the words say together   *)
(* in what that word is about, and in nothing else.                        *)

\* What the words read so far say, before the defaults.
ReadSoFar ==
    [mode     |-> LastMode,
     style    |-> LastOf({"report-format"}, "none"),
     display  |-> {words[i].opt : i \in WordsOf(Tables)},
     duration |-> LastOf({"duration"}, 0),
     names    |-> [n \in Names |-> LastOf({n}, "none")]]

StyleOnce == \A i, j \in WordsOf({"report-format"}) : i = j

OptionsInv ==
    /\ words \in Seq(Words)
    /\ phase = "options" =>
          /\ options = ReadSoFar
          /\ WordsOf({"unknown"}) = {} /\ StyleOnce
    /\ OptionsAsGiven

WordRead(w) == w \in Words /\ words \in Seq(Words) /\ words' = Append(words, w)

LEMMA WordsOfFacts ==
    ASSUME words \in Seq(Words), NEW opts
    PROVE  /\ WordsOf(opts) \subseteq 1 .. Len(words) /\ Len(words) \in Nat
           /\ IsFiniteSet(WordsOf(opts)) /\ WordsOf(opts) \in SUBSET Int
           /\ WordsOf(opts) # {} =>
                 /\ Max(WordsOf(opts)) \in WordsOf(opts)
                 /\ words[Max(WordsOf(opts))] \in Words
                 /\ words[Max(WordsOf(opts))].opt \in opts
<1>1. /\ WordsOf(opts) \subseteq 1 .. Len(words) /\ Len(words) \in Nat
      /\ WordsOf(opts) \in SUBSET Int
  BY DEF WordsOf
<1>2. IsFiniteSet(WordsOf(opts))
  <2>1. IsFiniteSet(1 .. Len(words))
    BY <1>1, FS_Interval
  <2> QED BY <1>1, <2>1, FS_Subset
<1>3. ASSUME WordsOf(opts) # {}
      PROVE  /\ Max(WordsOf(opts)) \in WordsOf(opts)
             /\ words[Max(WordsOf(opts))] \in Words
             /\ words[Max(WordsOf(opts))].opt \in opts
  <2>1. Max(WordsOf(opts)) \in WordsOf(opts)
    BY <1>1, <1>2, <1>3, MaxIsGreatest
  <2>2. \A i \in WordsOf(opts) : words[i] \in Words /\ words[i].opt \in opts
    BY DEF WordsOf
  <2> QED BY <2>1, <2>2
<1> QED BY <1>1, <1>2, <1>3

LEMMA WordsOfNext ==
    ASSUME NEW w, WordRead(w), NEW opts
    PROVE  /\ w.opt \in opts =>
                 WordsOf(opts)' = WordsOf(opts) \cup {Len(words) + 1}
           /\ w.opt \notin opts => WordsOf(opts)' = WordsOf(opts)
           /\ words'[Len(words) + 1] = w
           /\ \A i \in WordsOf(opts) : words'[i] = words[i]
<1>1. /\ DOMAIN words' = 1 .. Len(words) + 1 /\ DOMAIN words = 1 .. Len(words)
      /\ Len(words) \in Nat /\ words'[Len(words) + 1] = w
      /\ \A i \in 1 .. Len(words) : words'[i] = words[i]
  BY DEF WordRead
<1>2. DOMAIN words' = DOMAIN words \cup {Len(words) + 1}
  BY <1>1
<1>3. WordsOf(opts)' = {i \in DOMAIN words' : words'[i].opt \in opts}
  BY DEF WordsOf
<1>4. \A i \in DOMAIN words : words'[i] = words[i]
  BY <1>1
<1> QED BY <1>1, <1>2, <1>3, <1>4, Zenon DEF WordsOf

(* The last word of some kinds is the new one if it is of these kinds, and *)
(* else the one it was.                                                    *)
LEMMA LastNext ==
    ASSUME NEW w, WordRead(w), NEW opts
    PROVE  /\ w.opt \in opts => WordsOf(opts)' # {} /\ words'[Max(WordsOf(opts)')] = w
           /\ w.opt \notin opts =>
                 /\ WordsOf(opts)' = WordsOf(opts)
                 /\ WordsOf(opts) # {} =>
                      words'[Max(WordsOf(opts)')] = words[Max(WordsOf(opts))]
<1>1. /\ WordsOf(opts) \subseteq 1 .. Len(words) /\ Len(words) \in Nat
      /\ IsFiniteSet(WordsOf(opts))
      /\ WordsOf(opts) # {} => Max(WordsOf(opts)) \in WordsOf(opts)
  BY WordsOfFacts DEF WordRead
<1>2. ASSUME w.opt \in opts
      PROVE  WordsOf(opts)' # {} /\ words'[Max(WordsOf(opts)')] = w
  <2> DEFINE n == Len(words) + 1
             S == WordsOf(opts) \cup {n}
  <2>1. WordsOf(opts)' = S /\ words'[n] = w
    BY <1>2, WordsOfNext
  <2>2. S \in SUBSET Int /\ IsFiniteSet(S) /\ n \in S /\ \A y \in S : y <= n
    BY <1>1, FS_AddElement
  <2>3. Max(S) = n
    <3> HIDE DEF S, n
    <3> QED BY <2>2, MaxIs
  <2> QED BY <2>1, <2>3
<1>3. ASSUME w.opt \notin opts
      PROVE  /\ WordsOf(opts)' = WordsOf(opts)
             /\ WordsOf(opts) # {} =>
                  words'[Max(WordsOf(opts)')] = words[Max(WordsOf(opts))]
  BY <1>1, <1>3, WordsOfNext
<1> QED BY <1>2, <1>3

LEMMA LastOfNext ==
    ASSUME NEW w, WordRead(w), NEW opts, NEW default
    PROVE  /\ w.opt \in opts => LastOf(opts, default)' = w.arg
           /\ w.opt \notin opts => LastOf(opts, default)' = LastOf(opts, default)
BY LastNext DEF LastOf

LEMMA LastModeNext ==
    ASSUME NEW w, WordRead(w)
    PROVE  /\ w.opt \in Modes => LastMode' = w.opt
           /\ w.opt \notin Modes => LastMode' = LastMode
<1> HIDE DEF Modes
<1> QED BY LastNext DEF LastMode

LEMMA DisplayNext ==
    ASSUME NEW w, WordRead(w)
    PROVE  LET shown == {words[i].opt : i \in WordsOf(Tables)}
           IN  /\ w.opt \in Tables => shown' = shown \cup {w.opt}
               /\ w.opt \notin Tables => shown' = shown
<1> HIDE DEF Tables
<1> DEFINE shown == {words[i].opt : i \in WordsOf(Tables)}
<1>1. \A i \in WordsOf(Tables) : words'[i] = words[i]
  BY WordsOfNext
<1>2. shown' = {words'[i].opt : i \in WordsOf(Tables)'}
  OBVIOUS
<1>3. words'[Len(words) + 1] = w
  BY WordsOfNext
<1>4. CASE w.opt \in Tables
  <2>1. WordsOf(Tables)' = WordsOf(Tables) \cup {Len(words) + 1}
    BY <1>4, WordsOfNext
  <2>2. shown' = {words'[i].opt : i \in WordsOf(Tables)} \cup {words'[Len(words) + 1].opt}
    BY <1>2, <2>1
  <2> QED BY <1>1, <1>3, <1>4, <2>2
<1>5. CASE w.opt \notin Tables
  BY <1>1, <1>2, <1>5, WordsOfNext
<1> QED BY <1>4, <1>5

LEMMA NamesNext ==
    ASSUME NEW w, WordRead(w)
    PROVE  LET names == [n \in Names |-> LastOf({n}, "none")]
           IN  /\ w.opt \in Names => names' = [names EXCEPT ![w.opt] = w.arg]
               /\ w.opt \notin Names => names' = names
<1> HIDE DEF Names
<1> DEFINE names == [n \in Names |-> LastOf({n}, "none")]
<1>1. names' = [n \in Names |-> LastOf({n}, "none")']
  OBVIOUS
<1>2. ASSUME NEW n \in Names, n = w.opt
      PROVE  LastOf({n}, "none")' = w.arg
  BY <1>2, LastOfNext
<1>3. ASSUME NEW n \in Names, n # w.opt
      PROVE  LastOf({n}, "none")' = LastOf({n}, "none")
  BY <1>3, LastOfNext
<1>4. ASSUME w.opt \in Names
      PROVE  names' = [names EXCEPT ![w.opt] = w.arg]
  BY <1>1, <1>2, <1>3, <1>4
<1>5. ASSUME w.opt \notin Names
      PROVE  names' = names
  BY <1>1, <1>3, <1>5
<1> QED BY <1>4, <1>5

(* A word is about one thing.                                              *)
LEMMA Kinds ==
    /\ Modes \cap Tables = {} /\ Modes \cap Names = {} /\ Tables \cap Names = {}
    /\ \A o \in {"duration", "report-format", "help", "unknown"} :
          o \notin Modes \cup Tables \cup Names
BY DEF Modes, Tables, Names

LEMMA ReadWordInv ==
    ASSUME OptionsInv, NEW w \in Words, ReadWord(w)
    PROVE  OptionsInv'
<1>1. /\ WordRead(w) /\ phase = "options" /\ words' \in Seq(Words)
      /\ options = ReadSoFar /\ WordsOf({"unknown"}) = {} /\ StyleOnce
  BY DEF OptionsInv, ReadWord, WordRead
<1>2. CASE ReadTable(w)
  <2>1. /\ w.opt \in Tables /\ options' = [options EXCEPT !.display = @ \cup {w.opt}]
        /\ phase' = "options"
    BY <1>1, <1>2 DEF ReadTable, SetOption
  <2>2. /\ w.opt \notin Modes /\ w.opt \notin Names /\ w.opt # "duration"
        /\ w.opt # "report-format" /\ w.opt # "unknown"
    BY <2>1, Kinds
  <2>3. options' = ReadSoFar'
    <3>1. LastMode' = LastMode
      BY <1>1, <2>2, LastModeNext
    <3>2. /\ LastOf({"report-format"}, "none")' = LastOf({"report-format"}, "none")
          /\ LastOf({"duration"}, 0)' = LastOf({"duration"}, 0)
      BY <1>1, <2>2, LastOfNext
    <3>3. [n \in Names |-> LastOf({n}, "none")]' = [n \in Names |-> LastOf({n}, "none")]
      BY <1>1, <2>2, NamesNext
    <3>4. {words[i].opt : i \in WordsOf(Tables)}'
            = {words[i].opt : i \in WordsOf(Tables)} \cup {w.opt}
      BY <1>1, <2>1, DisplayNext
    <3> QED BY <1>1, <2>1, <3>1, <3>2, <3>3, <3>4 DEF ReadSoFar
  <2>4. WordsOf({"unknown"})' = {} /\ WordsOf({"report-format"})' = WordsOf({"report-format"})
    BY <1>1, <2>2, WordsOfNext
  <2> QED BY <1>1, <2>1, <2>3, <2>4 DEF OptionsInv, OptionsAsGiven, StyleOnce
<1>3. CASE ReadStyle(w)
  <2>1. /\ w.opt = "report-format" /\ w.arg # "none"
        /\ w.opt \notin Modes /\ w.opt \notin Names /\ w.opt \notin Tables
        /\ w.opt # "duration" /\ w.opt # "unknown"
    BY <1>3, Kinds, OptionsAssumption DEF ReadStyle
  <2>2. WordsOf({"report-format"})' = WordsOf({"report-format"}) \cup {Len(words) + 1}
    BY <1>1, <2>1, WordsOfNext
  <2>3. options.style = LastOf({"report-format"}, "none")
    BY <1>1 DEF ReadSoFar
  <2>4. /\ WordsOf({"report-format"}) \subseteq 1 .. Len(words) /\ Len(words) \in Nat
        /\ WordsOf({"report-format"}) # {} =>
              /\ words[Max(WordsOf({"report-format"}))] \in Words
              /\ words[Max(WordsOf({"report-format"}))].opt = "report-format"
    BY <1>1, WordsOfFacts DEF WordRead
  <2>5. options.style = "none" <=> WordsOf({"report-format"}) = {}
    BY <2>3, <2>4, OptionsAssumption DEF LastOf
  <2>6. CASE options.style = "none"
    <3>1. options' = [options EXCEPT !.style = w.arg] /\ phase' = "options"
      BY <1>1, <1>3, <2>6 DEF ReadStyle, SetOption
    <3>2. options' = ReadSoFar'
      <4>1. LastMode' = LastMode
        BY <1>1, <2>1, LastModeNext
      <4>2. /\ LastOf({"report-format"}, "none")' = w.arg
            /\ LastOf({"duration"}, 0)' = LastOf({"duration"}, 0)
        BY <1>1, <2>1, LastOfNext
      <4>3. [n \in Names |-> LastOf({n}, "none")]' = [n \in Names |-> LastOf({n}, "none")]
        BY <1>1, <2>1, NamesNext
      <4>4. {words[i].opt : i \in WordsOf(Tables)}' = {words[i].opt : i \in WordsOf(Tables)}
        BY <1>1, <2>1, DisplayNext
      <4> QED BY <1>1, <3>1, <4>1, <4>2, <4>3, <4>4 DEF ReadSoFar
    <3>3. WordsOf({"unknown"})' = {} /\ StyleOnce'
      <4>1. WordsOf({"unknown"})' = {}
        BY <1>1, <2>1, WordsOfNext
      <4>2. WordsOf({"report-format"})' = {Len(words) + 1}
        BY <2>2, <2>5, <2>6
      <4> QED BY <4>1, <4>2 DEF StyleOnce
    <3> QED BY <1>1, <3>1, <3>2, <3>3 DEF OptionsInv, OptionsAsGiven
  <2>7. CASE options.style # "none"
    <3>1. phase' = "refused"
      BY <1>3, <2>7 DEF ReadStyle, EndWith
    <3>2. PICK i \in WordsOf({"report-format"}) : i # Len(words) + 1
      BY <2>4, <2>5, <2>7
    <3>3. ~Acceptable'
      BY <2>2, <3>2 DEF Acceptable
    <3> QED BY <1>1, <3>1, <3>3 DEF OptionsInv, OptionsAsGiven
  <2> QED BY <2>6, <2>7
<1>4. CASE w.opt \in Modes /\ SetOption([options EXCEPT !.mode = w.opt])
  <2>1. options' = [options EXCEPT !.mode = w.opt] /\ phase' = "options"
    BY <1>1, <1>4 DEF SetOption
  <2>2. /\ w.opt \notin Tables /\ w.opt \notin Names /\ w.opt # "duration"
        /\ w.opt # "report-format" /\ w.opt # "unknown"
    BY <1>4, Kinds
  <2>3. options' = ReadSoFar'
    <3>1. LastMode' = w.opt
      BY <1>1, <1>4, LastModeNext
    <3>2. /\ LastOf({"report-format"}, "none")' = LastOf({"report-format"}, "none")
          /\ LastOf({"duration"}, 0)' = LastOf({"duration"}, 0)
      BY <1>1, <2>2, LastOfNext
    <3>3. [n \in Names |-> LastOf({n}, "none")]' = [n \in Names |-> LastOf({n}, "none")]
      BY <1>1, <2>2, NamesNext
    <3>4. {words[i].opt : i \in WordsOf(Tables)}' = {words[i].opt : i \in WordsOf(Tables)}
      BY <1>1, <2>2, DisplayNext
    <3> QED BY <1>1, <2>1, <3>1, <3>2, <3>3, <3>4 DEF ReadSoFar
  <2>4. WordsOf({"unknown"})' = {} /\ WordsOf({"report-format"})' = WordsOf({"report-format"})
    BY <1>1, <2>2, WordsOfNext
  <2> QED BY <1>1, <2>1, <2>3, <2>4 DEF OptionsInv, OptionsAsGiven, StyleOnce
<1>5. CASE w.opt \in Names /\ SetOption([options EXCEPT !.names[w.opt] = w.arg])
  <2>1. options' = [options EXCEPT !.names[w.opt] = w.arg] /\ phase' = "options"
    BY <1>1, <1>5 DEF SetOption
  <2>2. /\ w.opt \notin Tables /\ w.opt \notin Modes /\ w.opt # "duration"
        /\ w.opt # "report-format" /\ w.opt # "unknown"
    BY <1>5, Kinds
  <2>3. options' = ReadSoFar'
    <3>1. LastMode' = LastMode
      BY <1>1, <2>2, LastModeNext
    <3>2. /\ LastOf({"report-format"}, "none")' = LastOf({"report-format"}, "none")
          /\ LastOf({"duration"}, 0)' = LastOf({"duration"}, 0)
      BY <1>1, <2>2, LastOfNext
    <3>3. [n \in Names |-> LastOf({n}, "none")]'
             = [[n \in Names |-> LastOf({n}, "none")] EXCEPT ![w.opt] = w.arg]
      BY <1>1, <1>5, NamesNext
    <3>4. {words[i].opt : i \in WordsOf(Tables)}' = {words[i].opt : i \in WordsOf(Tables)}
      BY <1>1, <2>2, DisplayNext
    <3>5. options' = [options EXCEPT !.names = [@ EXCEPT ![w.opt] = w.arg]]
      BY <2>1
    <3> QED BY <1>1, <3>1, <3>2, <3>3, <3>4, <3>5 DEF ReadSoFar
  <2>4. WordsOf({"unknown"})' = {} /\ WordsOf({"report-format"})' = WordsOf({"report-format"})
    BY <1>1, <2>2, WordsOfNext
  <2> QED BY <1>1, <2>1, <2>3, <2>4 DEF OptionsInv, OptionsAsGiven, StyleOnce
<1>6. CASE w.opt = "duration" /\ SetOption([options EXCEPT !.duration = w.arg])
  <2>1. options' = [options EXCEPT !.duration = w.arg] /\ phase' = "options"
    BY <1>1, <1>6 DEF SetOption
  <2>2. /\ w.opt \notin Tables /\ w.opt \notin Modes /\ w.opt \notin Names
        /\ w.opt # "report-format" /\ w.opt # "unknown"
    BY <1>6, Kinds
  <2>3. options' = ReadSoFar'
    <3>1. LastMode' = LastMode
      BY <1>1, <2>2, LastModeNext
    <3>2. /\ LastOf({"report-format"}, "none")' = LastOf({"report-format"}, "none")
          /\ LastOf({"duration"}, 0)' = w.arg
      BY <1>1, <1>6, <2>2, LastOfNext
    <3>3. [n \in Names |-> LastOf({n}, "none")]' = [n \in Names |-> LastOf({n}, "none")]
      BY <1>1, <2>2, NamesNext
    <3>4. {words[i].opt : i \in WordsOf(Tables)}' = {words[i].opt : i \in WordsOf(Tables)}
      BY <1>1, <2>2, DisplayNext
    <3> QED BY <1>1, <2>1, <3>1, <3>2, <3>3, <3>4 DEF ReadSoFar
  <2>4. WordsOf({"unknown"})' = {} /\ WordsOf({"report-format"})' = WordsOf({"report-format"})
    BY <1>1, <2>2, WordsOfNext
  <2> QED BY <1>1, <2>1, <2>3, <2>4 DEF OptionsInv, OptionsAsGiven, StyleOnce
<1>7. CASE w.opt = "help" /\ EndWith("quit")
  BY <1>1, <1>7 DEF OptionsInv, OptionsAsGiven, EndWith
<1>8. CASE w.opt = "unknown" /\ EndWith("refused")
  <2>1. WordsOf({"unknown"})' # {}
    BY <1>1, <1>8, LastNext
  <2> QED BY <1>1, <1>8, <2>1 DEF OptionsInv, OptionsAsGiven, EndWith, Acceptable
<1> QED BY <1>2, <1>3, <1>4, <1>5, <1>6, <1>7, <1>8 DEF ReadWord, ReadSetting

(* The defaults are for what no word is about.                             *)
LEMMA SetDefaults ==
    ASSUME NEW mode, NEW style, NEW display, NEW duration, NEW names
    PROVE  WithDefaults([mode |-> mode, style |-> style, display |-> display,
                         duration |-> duration, names |-> names])
             = [mode |-> mode, style |-> IF style = "none" THEN "default" ELSE style,
                display |-> IF display = {} THEN {"idle"} ELSE display,
                duration |-> duration, names |-> names]
<1> DEFINE o == [mode |-> mode, style |-> style, display |-> display,
                 duration |-> duration, names |-> names]
           s == IF style = "none" THEN "default" ELSE style
           d == IF display = {} THEN {"idle"} ELSE display
<1>1. WithDefaults(o) = [o EXCEPT !.style = s, !.display = d]
  <2>1. o.style = style /\ o.display = display
    OBVIOUS
  <2> HIDE DEF o
  <2> QED BY <2>1, Zenon DEF WithDefaults
<1>2. [o EXCEPT !.style = s, !.display = d] =
        [mode |-> mode, style |-> s, display |-> d, duration |-> duration, names |-> names]
  <2> DEFINE o1 == [mode |-> mode, style |-> s, display |-> display,
                    duration |-> duration, names |-> names]
  <2>1. [o EXCEPT !.style = s] = o1
    <3> HIDE DEF s
    <3> QED OBVIOUS
  <2>2. [o1 EXCEPT !.display = d] =
        [mode |-> mode, style |-> s, display |-> d, duration |-> duration, names |-> names]
    <3> HIDE DEF s, d
    <3> QED OBVIOUS
  <2>3. [o EXCEPT !.style = s, !.display = d] = [[o EXCEPT !.style = s] EXCEPT !.display = d]
    <3> HIDE DEF s, d, o
    <3> QED OBVIOUS
  <2> QED BY <2>1, <2>2, <2>3, Zenon
<1> QED BY <1>1, <1>2, Zenon

LEMMA MeaningOfWords ==
    ASSUME words \in Seq(Words)
    PROVE  WithDefaults(ReadSoFar) = Meaning
<1>1. /\ WordsOf({"report-format"}) # {} =>
            LastOf({"report-format"}, "none") # "none"
      /\ WordsOf({"report-format"}) = {} =>
            LastOf({"report-format"}, "none") = "none"
  BY WordsOfFacts, OptionsAssumption DEF LastOf
<1>2. LastOf({"report-format"}, "default") =
        IF LastOf({"report-format"}, "none") = "none" THEN "default"
        ELSE LastOf({"report-format"}, "none")
  BY <1>1 DEF LastOf
<1> DEFINE shown == {words[i].opt : i \in WordsOf(Tables)}
           names == [n \in Names |-> LastOf({n}, "none")]
           style == LastOf({"report-format"}, "none")
           duration == LastOf({"duration"}, 0)
           o == [mode |-> LastMode, style |-> style, display |-> shown,
                 duration |-> duration, names |-> names]
<1>3. shown = {} <=> WordsOf(Tables) = {}
  OBVIOUS
<1>4. /\ ReadSoFar = o
      /\ Meaning = [mode |-> LastMode,
                    style |-> IF style = "none" THEN "default" ELSE style,
                    display |-> IF shown = {} THEN {"idle"} ELSE shown,
                    duration |-> duration, names |-> names]
  BY <1>2, <1>3, Zenon DEF ReadSoFar, Meaning
<1>5. WithDefaults(o) = [mode |-> LastMode,
                    style |-> IF style = "none" THEN "default" ELSE style,
                    display |-> IF shown = {} THEN {"idle"} ELSE shown,
                    duration |-> duration, names |-> names]
  <2> HIDE DEF shown, names, style, duration
  <2> QED BY SetDefaults
<1> QED BY <1>4, <1>5, Zenon

LEMMA EndOfOptionsInv == OptionsInv /\ EndOfOptions => OptionsInv'
<1> SUFFICES ASSUME OptionsInv, EndOfOptions
             PROVE  OptionsInv'
  OBVIOUS
<1>1. /\ options = ReadSoFar /\ WordsOf({"unknown"}) = {} /\ StyleOnce
      /\ words \in Seq(Words) /\ words' = words
      /\ options' = WithDefaults(options)
      /\ phase' = IF Usable(options) THEN "check" ELSE "refused"
  BY DEF OptionsInv, EndOfOptions
<1>2. options' = Meaning
  BY <1>1, MeaningOfWords
<1>3. Usable(Meaning) <=> Usable(options)
  <2>1. /\ Meaning.mode = options.mode /\ Meaning.names = options.names
        /\ Meaning.duration = options.duration
    <3> DEFINE r == ReadSoFar
    <3>1. r = [r EXCEPT !.style = r.style]
      BY DEF ReadSoFar
    <3>2. Meaning = WithDefaults(r)
      BY <1>1, <1>2
    <3> HIDE DEF r
    <3>3. /\ WithDefaults(r).mode = r.mode /\ WithDefaults(r).names = r.names
          /\ WithDefaults(r).duration = r.duration
      BY <3>1 DEF WithDefaults
    <3> QED BY <1>1, <3>2, <3>3 DEF r
  <2> QED BY <2>1 DEF Usable
<1>4. Acceptable <=> Usable(options)
  BY <1>1, <1>3 DEF Acceptable, StyleOnce
<1>5. /\ Meaning' = Meaning /\ (Acceptable' <=> Acceptable)
      /\ phase' # "options"
  BY <1>1 DEF Meaning, Acceptable, LastOf, LastMode, WordsOf, Usable
<1> QED BY <1>1, <1>2, <1>4, <1>5 DEF OptionsInv, OptionsAsGiven

\* No step after the options ends in a place that speaks of them.
LEMMA OptionsNextInv == OptionsInv /\ [Next]_vars => OptionsInv'
<1> SUFFICES ASSUME OptionsInv, [Next]_vars
             PROVE  OptionsInv'
  OBVIOUS
<1>1. CASE ReadOptions
  <2>1. CASE EndOfOptions
    BY <2>1, EndOfOptionsInv
  <2>2. CASE \E w \in Words : ReadWord(w)
    <3>1. PICK w \in Words : ReadWord(w)
      BY <2>2
    <3> QED BY <3>1, ReadWordInv
  <2> QED BY <1>1, <2>1, <2>2 DEF ReadOptions
<1>2. ASSUME phase' \notin {"options", "check", "refused"},
             words' = words \/ words' = <<>>
      PROVE  OptionsInv'
  <2>1. words' \in Seq(Words)
    <3>1. words \in Seq(Words) /\ <<>> \in Seq(Words)
      BY DEF OptionsInv
    <3> QED BY <1>2, <3>1
  <2>2. phase' # "options" /\ phase' # "check" /\ phase' # "refused"
    BY <1>2
  <2> QED BY <2>1, <2>2 DEF OptionsInv, OptionsAsGiven
<1>3. CASE CheckReport
  BY <1>2, <1>3 DEF CheckReport
<1>4. CASE LoadMain \/ LoadBaseline
  BY <1>2, <1>4 DEF LoadMain, LoadBaseline, optionVars
<1>5. CASE Merge
  BY <1>2, <1>5 DEF Merge, Merging, MergePastBaseline, MergeIntoBaseline, MergeTurn,
                    MergeIntoMain, MergeNextCpu, MergeDone, optionVars
<1>6. CASE AssignBaseline
  BY <1>2, <1>6 DEF AssignBaseline, optionVars
<1>7. CASE OpenReport \/ ShowRow \/ ShowWildRow \/ EndUnit \/ NextTable
  BY <1>2, <1>7 DEF OpenReport, ShowRow, ShowWildRow, EndUnit, NextTable, Reporting,
                    optionVars
<1>8. CASE UNCHANGED vars
  <2>1. words' = words /\ phase' = phase /\ options' = options
    BY <1>8 DEF vars, optionVars
  <2>2. /\ ReadSoFar' = ReadSoFar /\ Meaning' = Meaning /\ StyleOnce' = StyleOnce
        /\ \A opts : WordsOf(opts)' = WordsOf(opts)
    BY <2>1 DEF ReadSoFar, StyleOnce, Meaning, LastOf, LastMode, WordsOf
  <2>3. Acceptable' = Acceptable
    BY <2>1 DEF Acceptable, Meaning, LastOf, LastMode, WordsOf, Usable
  <2> QED BY <2>1, <2>2, <2>3 DEF OptionsInv, OptionsAsGiven
<1> QED BY <1>1, <1>3, <1>4, <1>5, <1>6, <1>7, <1>8 DEF Next, BaselineNext

LEMMA OptionsInitInv == Init => OptionsInv
<1> SUFFICES ASSUME Init
             PROVE  OptionsInv
  OBVIOUS
<1>1. words = <<>> /\ options = NoOptions /\ phase = "options"
  BY DEF Init, OptionsInit
<1>2. \A opts : WordsOf(opts) = {}
  BY <1>1 DEF WordsOf
<1>3. /\ LastMode = "none" /\ LastOf({"report-format"}, "none") = "none"
      /\ LastOf({"duration"}, 0) = 0 /\ \A n \in Names : LastOf({n}, "none") = "none"
  BY <1>2 DEF LastOf, LastMode
<1>4. {words[i].opt : i \in WordsOf(Tables)} = {}
  BY <1>2
<1>5. [n \in Names |-> LastOf({n}, "none")] = [n \in Names |-> "none"]
  BY <1>3
<1>6. options = ReadSoFar
  BY <1>1, <1>3, <1>4, <1>5, Zenon DEF ReadSoFar, NoOptions
<1>7. words \in Seq(Words)
  BY <1>1
<1> QED BY <1>1, <1>2, <1>6, <1>7 DEF OptionsInv, OptionsAsGiven, StyleOnce

(* However many words a command line has, and whatever their order,        *)
(* getoptions accepts it exactly when they make sense as a whole, and      *)
(* takes it to mean what they say together.                                *)
THEOREM OptionsMeanWhatIsGiven == Spec => []OptionsAsGiven
<1>1. OptionsInv => OptionsAsGiven
  BY DEF OptionsInv
<1> QED BY <1>1, OptionsInitInv, OptionsNextInv, PTL DEF Spec

-----------------------------------------------------------------------------
(* The steps together, and the theorems.                                   *)

LEMMA NextInv == Inv /\ [Next]_vars => Inv'
<1> SUFFICES ASSUME Inv, [Next]_vars
             PROVE  Inv'
  OBVIOUS
<1>1. CASE ReadOptions /\ UNCHANGED loadVars
  <2>1. phase \in Before
    BY <1>1 DEF ReadOptions, ReadWord, EndOfOptions, Before
  <2> QED BY <1>1, <2>1, ElsewhereInv DEF loadVars
<1>2. CASE CheckReport
  <2>1. phase \in Before /\ UNCHANGED <<main, base, mergeVars>>
    BY <1>2 DEF CheckReport, Before, loadVars
  <2> QED BY <2>1, ElsewhereInv
<1>3. CASE MergePastBaseline \/ MergeDone
  <2>1. UNCHANGED <<main, base, mergeVars>>
    BY <1>3 DEF MergePastBaseline, MergeDone, loadVars
  <2>2. phase' \notin Before
    BY <1>3 DEF MergePastBaseline, MergeDone, Before
  <2> QED BY <2>1, <2>2, ElsewhereInv
<1>4. CASE AssignBaseline
  <2>1. UNCHANGED <<main, base, mergeVars>> /\ phase' \notin Before
    BY <1>4 DEF AssignBaseline, Before
  <2> QED BY <2>1, ElsewhereInv
<1>5. CASE OpenReport \/ ShowRow \/ ShowWildRow \/ EndUnit \/ NextTable
  <2>1. UNCHANGED <<main, base, mergeVars>>
    BY <1>5 DEF OpenReport, ShowRow, ShowWildRow, EndUnit, NextTable, Reporting,
                loadVars
  <2>2. phase' \notin Before
    BY <1>5 DEF OpenReport, ShowRow, ShowWildRow, EndUnit, NextTable, Reporting,
                Before
  <2> QED BY <2>1, <2>2, ElsewhereInv
<1>6. CASE UNCHANGED vars
  BY <1>6, ElsewhereInv DEF vars, loadVars
<1> QED BY <1>1, <1>2, <1>3, <1>4, <1>5, <1>6, LoadMainInv, LoadBaselineInv,
           MergeIntoBaselineInv, MergeTurnInv, MergeIntoMainInv, MergeNextCpuInv
        DEF Next, BaselineNext, Merge

(* The invariant holds throughout.                                         *)
LEMMA ReportInvariance == Spec => []Inv
BY InitInv, NextInv, PTL DEF Spec

(* However many CPUs and frequencies two traces have, the tables of a CPU  *)
(* that merge_pstates has been through agree row by row.                   *)
THEOREM MergeAgrees == Spec => []MergedRowsAgree
<1>1. Inv => MergedRowsAgree
  <2> SUFFICES ASSUME Inv, NEW c \in CpuIds(main), c < cpu
               PROVE  FreqAt(mainP[c]) = FreqAt(baseP[c])
    BY DEF MergedRowsAgree
  <2>1. c \in CpuIds(base) /\ Freqs(mainP[c]) = Freqs(baseP[c])
    BY DEF Inv, LoopsAt
  <2>2. GoodPStates(mainP[c]) /\ GoodPStates(baseP[c])
    BY <2>1 DEF Inv, GoodTables
  <2> QED BY <2>1, <2>2, SameFreqsSameRows
<1> QED BY <1>1, ReportInvariance, PTL

(* merge_pstates adds rows without hits: what either trace measured at a   *)
(* frequency, and the frequency it ended at, stay what they were.          *)
THEOREM MergeKeeps == Spec => []MergeKeepsMeasurements
<1>1. Inv => MergeKeepsMeasurements
  BY DEF Inv, GoodTables, MergeKeepsMeasurements
<1> QED BY <1>1, ReportInvariance, PTL

-----------------------------------------------------------------------------
(* The walk through the tree.                                              *)

DumpedCore(topo, k, o) ==
    (IF Len(topo.clusters[k].cores[o].cpus) > 1 THEN <<<<k, o>>>> ELSE <<>>)
      \o [i \in DOMAIN topo.clusters[k].cores[o].cpus |-> <<k, o, i>>]

DumpedCores(topo, k) ==
    FlattenSeq([o \in DOMAIN topo.clusters[k].cores |-> DumpedCore(topo, k, o)])

LEMMA DumpedIs ==
    ASSUME NEW topo
    PROVE  Dumped(topo) = FlattenSeq([k \in DOMAIN topo.clusters |->
                                         <<<<k>>>> \o DumpedCores(topo, k)])
BY Zenon DEF Dumped, DumpedCores, DumpedCore

LEMMA TreeFacts ==
    ASSUME NEW topo \in TopoType
    PROVE  /\ topo.clusters \in Seq(ClusterType)
           /\ \A k \in DOMAIN topo.clusters :
                 /\ topo.clusters[k] \in ClusterType
                 /\ topo.clusters[k].cores \in Seq(CoreType)
                 /\ \A o \in DOMAIN topo.clusters[k].cores :
                       /\ topo.clusters[k].cores[o] \in CoreType
                       /\ topo.clusters[k].cores[o].cpus \in Seq([id : Int])
<1>1. topo.clusters \in Seq(ClusterType)
  BY DEF TopoType
<1>2. ASSUME NEW k \in DOMAIN topo.clusters
      PROVE  topo.clusters[k] \in ClusterType
  BY <1>1
<1>3. ASSUME NEW c \in ClusterType
      PROVE  /\ c.cores \in Seq(CoreType)
             /\ \A o \in DOMAIN c.cores : c.cores[o] \in CoreType
  BY DEF ClusterType
<1>4. \A c \in CoreType : c.cpus \in Seq([id : Int])
  BY DEF CoreType
<1> QED BY <1>1, <1>2, <1>3, <1>4

\* A unit of core o, in cluster k.
OfCore(n, k, o) == n[1] = k /\ n[2] = o /\ Len(n) \in {2, 3}

LEMMA NodeParts ==
    ASSUME NEW a, NEW b, NEW c
    PROVE  /\ Len(<<a>>) = 1 /\ <<a>>[1] = a
           /\ Len(<<a, b>>) = 2 /\ <<a, b>>[1] = a /\ <<a, b>>[2] = b
           /\ Len(<<a, b, c>>) = 3
           /\ <<a, b, c>>[1] = a /\ <<a, b, c>>[2] = b /\ <<a, b, c>>[3] = c
OBVIOUS

LEMMA CoreDumped ==
    ASSUME NEW topo \in TopoType, NEW k \in DOMAIN topo.clusters,
           NEW o \in DOMAIN topo.clusters[k].cores
    PROVE  /\ DumpedCore(topo, k, o) \in Seq(Nodes(topo))
           /\ Distinct(DumpedCore(topo, k, o))
           /\ \A p \in DOMAIN DumpedCore(topo, k, o) : OfCore(DumpedCore(topo, k, o)[p], k, o)
<1> DEFINE cpus == topo.clusters[k].cores[o].cpus
           head == IF Len(cpus) > 1 THEN <<<<k, o>>>> ELSE <<>>
           tail == [i \in DOMAIN cpus |-> <<k, o, i>>]
           d == head \o tail
<1>1. cpus \in Seq([id : Int]) /\ k \in Nat /\ o \in Nat
  BY TreeFacts
<1>2. Len(cpus) \in Nat /\ DOMAIN cpus = 1 .. Len(cpus)
  <2> HIDE DEF cpus
  <2> QED BY <1>1
<1>3. <<k, o>> \in CoreNodes(topo)
  BY DEF CoreNodes
<1>4. ASSUME NEW i \in DOMAIN cpus
      PROVE  <<k, o, i>> \in CpuNodes(topo)
  <2>1. CpuList(topo, <<k, o>>) = cpus
    BY DEF CpuList
  <2>2. <<k, o, i>> \in {<<c[1], c[2], j>> : c \in {<<k, o>>}, j \in DOMAIN cpus}
    BY <1>4
  <2> QED BY <1>3, <2>1, <2>2 DEF CpuNodes
<1>5. <<k, o>> \in Nodes(topo) /\ \A i \in 1 .. Len(cpus) : <<k, o, i>> \in Nodes(topo)
  BY <1>2, <1>3, <1>4 DEF Nodes
<1>6. /\ tail \in Seq(Nodes(topo)) /\ Len(tail) = Len(cpus)
      /\ \A i \in 1 .. Len(cpus) : tail[i] = <<k, o, i>>
  <2> HIDE DEF cpus
  <2>1. tail = [i \in 1 .. Len(cpus) |-> <<k, o, i>>]
    BY <1>2
  <2>2. tail \in [1 .. Len(cpus) -> Nodes(topo)]
    BY <1>5, <2>1
  <2> QED BY <1>2, <2>1, <2>2
<1>7. /\ head \in Seq(Nodes(topo)) /\ Len(head) \in {0, 1}
      /\ Len(head) = 1 => head[1] = <<k, o>>
  BY <1>5
<1> HIDE DEF cpus, head, tail
<1> DEFINE h == Len(head)
<1>8. /\ d \in Seq(Nodes(topo)) /\ DOMAIN d = 1 .. h + Len(cpus)
      /\ h = 1 => d[1] = <<k, o>>
      /\ \A p \in 1 .. h + Len(cpus) :
            p > h => /\ d[p] = <<k, o, p - h>>
                     /\ p - h \in 1 .. Len(cpus)
  BY <1>2, <1>6, <1>7
<1>81. h \in Nat /\ (h = 0 \/ h = 1) /\ Len(cpus) \in Nat
  BY <1>2, <1>7
<1> HIDE DEF d, h
<1>82. ASSUME NEW p \in DOMAIN d
       PROVE  /\ p > h => Len(d[p]) = 3 /\ d[p][1] = k /\ d[p][2] = o /\ d[p][3] = p - h
              /\ ~(p > h) => /\ p = 1 /\ h = 1
                             /\ Len(d[p]) = 2 /\ d[p][1] = k /\ d[p][2] = o
  <2>1. CASE p > h
    <3>1. d[p] = <<k, o, p - h>>
      BY <1>8, <2>1
    <3>2. /\ Len(<<k, o, p - h>>) = 3 /\ <<k, o, p - h>>[1] = k
          /\ <<k, o, p - h>>[2] = o /\ <<k, o, p - h>>[3] = p - h
      BY NodeParts
    <3> QED BY <2>1, <3>1, <3>2
  <2>2. CASE ~(p > h)
    <3>1. p \in 1 .. h + Len(cpus)
      BY <1>8
    <3>2. p = 1 /\ h = 1
      BY <1>81, <2>2, <3>1
    <3>3. d[p] = <<k, o>>
      BY <1>8, <3>2
    <3>4. Len(<<k, o>>) = 2 /\ <<k, o>>[1] = k /\ <<k, o>>[2] = o
      BY NodeParts
    <3> QED BY <2>2, <3>2, <3>3, <3>4
  <2> QED BY <2>1, <2>2
<1>9. ASSUME NEW p \in DOMAIN d
      PROVE  OfCore(d[p], k, o)
  BY <1>82 DEF OfCore
<1>10. ASSUME NEW p \in DOMAIN d, NEW q \in DOMAIN d, d[p] = d[q]
       PROVE  p = q
  <2>1. CASE p > h /\ q > h
    <3>1. p - h = q - h /\ p \in Int /\ q \in Int
      BY <1>8, <1>81, <1>82, <1>10, <2>1
    <3> QED BY <1>81, <3>1
  <2>2. CASE ~(p > h) /\ ~(q > h)
    BY <1>82, <2>2
  <2> QED BY <1>10, <1>82, <2>1, <2>2
<1>11. Distinct(d)
  BY <1>10 DEF Distinct
<1> QED BY <1>8, <1>9, <1>11 DEF DumpedCore, cpus, head, tail, d

\* A unit below cluster k.
Below(n, k) == n[1] = k /\ Len(n) \in {2, 3}

LEMMA CoresDumped ==
    ASSUME NEW topo \in TopoType, NEW k \in DOMAIN topo.clusters
    PROVE  /\ DumpedCores(topo, k) \in Seq(Nodes(topo)) /\ Distinct(DumpedCores(topo, k))
           /\ \A p \in DOMAIN DumpedCores(topo, k) : Below(DumpedCores(topo, k)[p], k)
<1> DEFINE N == Nodes(topo)
           cores == topo.clusters[k].cores
           seqs == [o \in DOMAIN cores |-> DumpedCore(topo, k, o)]
           F == FlattenSeq(seqs)
<1>1. /\ cores \in Seq(CoreType) /\ k \in Nat
      /\ Len(cores) \in Nat /\ DOMAIN cores = 1 .. Len(cores)
  <2>1. cores \in Seq(CoreType) /\ k \in Nat
    BY TreeFacts
  <2> HIDE DEF cores
  <2> QED BY <2>1
<1>2. \A o \in DOMAIN cores :
         /\ DumpedCore(topo, k, o) \in Seq(N) /\ Distinct(DumpedCore(topo, k, o))
         /\ \A p \in DOMAIN DumpedCore(topo, k, o) : OfCore(DumpedCore(topo, k, o)[p], k, o)
  BY CoreDumped
<1> HIDE DEF N, cores
<1>3. seqs \in Seq(Seq(N)) /\ DOMAIN seqs = DOMAIN cores
  <2>1. seqs \in [1 .. Len(cores) -> Seq(N)]
    BY <1>1, <1>2
  <2> QED BY <1>1, <2>1
<1>4. \A o \in DOMAIN seqs : /\ Distinct(seqs[o])
                             /\ \A p \in DOMAIN seqs[o] : OfCore(seqs[o][p], k, o)
  BY <1>2
<1> HIDE DEF seqs
<1>5. \A i, j \in DOMAIN seqs : i # j =>
         \A p \in DOMAIN seqs[i], q \in DOMAIN seqs[j] : seqs[i][p] # seqs[j][q]
  BY <1>4 DEF OfCore
<1>6. F \in Seq(N) /\ Distinct(F) /\ Flattened(F, seqs, Len(seqs))
  BY <1>3, <1>4, <1>5, FlattenInSeq, FlattenDistinct, FlattenKeepsOrder
<1> HIDE DEF F
<1>7. ASSUME NEW a \in DOMAIN F
      PROVE  Below(F[a], k)
  <2>1. PICK i \in 1 .. Len(seqs), p \in Nat : At(F, seqs, a, i, p)
    BY <1>6 DEF Flattened
  <2>2. i \in DOMAIN seqs /\ p \in DOMAIN seqs[i] /\ F[a] = seqs[i][p]
    BY <2>1 DEF At
  <2> QED BY <1>4, <2>2 DEF OfCore, Below
<1>8. F = DumpedCores(topo, k)
  BY DEF F, seqs, cores, DumpedCores
<1> QED BY <1>6, <1>7, <1>8 DEF N

LEMMA ClusterDumped ==
    ASSUME NEW topo \in TopoType, NEW k \in DOMAIN topo.clusters
    PROVE  LET d == <<<<k>>>> \o DumpedCores(topo, k)
           IN  /\ d \in Seq(Nodes(topo)) /\ Distinct(d)
               /\ \A p \in DOMAIN d : d[p][1] = k
<1> DEFINE F == DumpedCores(topo, k)
           d == <<<<k>>>> \o F
<1>1. F \in Seq(Nodes(topo)) /\ Distinct(F) /\ \A p \in DOMAIN F : Below(F[p], k)
  BY CoresDumped
<1>2. <<k>> \in Nodes(topo)
  BY DEF Nodes, ClusterNodes
<1> HIDE DEF F
<1>3. Len(F) \in Nat /\ DOMAIN F = 1 .. Len(F)
  BY <1>1
<1>4. /\ d \in Seq(Nodes(topo)) /\ DOMAIN d = 1 .. Len(F) + 1 /\ d[1] = <<k>>
      /\ \A p \in 1 .. Len(F) + 1 : p > 1 => p - 1 \in DOMAIN F /\ d[p] = F[p - 1]
  BY <1>1, <1>2, <1>3
<1> HIDE DEF d
<1>5. Len(d[1]) = 1 /\ d[1][1] = k
  BY <1>4, NodeParts
<1>6. \A p \in DOMAIN d : p > 1 => d[p][1] = k /\ Len(d[p]) \in {2, 3}
  BY <1>1, <1>4 DEF Below
<1>7. \A p \in DOMAIN d : p \in Int /\ (p = 1 \/ p > 1)
  BY <1>3, <1>4
<1>8. ASSUME NEW p \in DOMAIN d, NEW q \in DOMAIN d, d[p] = d[q]
      PROVE  p = q
  <2>1. CASE p > 1 /\ q > 1
    <3>1. F[p - 1] = F[q - 1] /\ p - 1 \in DOMAIN F /\ q - 1 \in DOMAIN F
      BY <1>4, <1>8, <2>1
    <3>2. p - 1 = q - 1
      BY <1>1, <3>1 DEF Distinct
    <3> QED BY <1>7, <3>2
  <2> QED BY <1>5, <1>6, <1>7, <1>8, <2>1
<1>9. Distinct(d)
  BY <1>8 DEF Distinct
<1>10. \A p \in DOMAIN d : d[p][1] = k
  BY <1>5, <1>6, <1>7
<1> QED BY <1>4, <1>9, <1>10 DEF d, F

(* The walk goes to units of the tree, to none twice, and cluster by       *)
(* cluster.                                                                *)
LEMMA DumpedFacts ==
    ASSUME NEW topo \in TopoType
    PROVE  /\ Dumped(topo) \in Seq(Nodes(topo)) /\ Distinct(Dumped(topo))
           /\ \A a, b \in DOMAIN Dumped(topo) :
                 a < b => Dumped(topo)[a][1] <= Dumped(topo)[b][1]
           /\ \A a \in DOMAIN Dumped(topo) : Dumped(topo)[a][1] \in Nat
<1> DEFINE N == Nodes(topo)
           cl == topo.clusters
           seqs == [k \in DOMAIN cl |-> <<<<k>>>> \o DumpedCores(topo, k)]
           F == FlattenSeq(seqs)
<1>1. Len(cl) \in Nat /\ DOMAIN cl = 1 .. Len(cl)
  <2>1. cl \in Seq(ClusterType)
    BY TreeFacts
  <2> HIDE DEF cl
  <2> QED BY <2>1
<1>2. \A k \in DOMAIN cl : /\ seqs[k] \in Seq(N) /\ Distinct(seqs[k])
                           /\ \A p \in DOMAIN seqs[k] : seqs[k][p][1] = k
  <2> SUFFICES ASSUME NEW k \in DOMAIN cl
               PROVE  /\ seqs[k] \in Seq(N) /\ Distinct(seqs[k])
                      /\ \A p \in DOMAIN seqs[k] : seqs[k][p][1] = k
    OBVIOUS
  <2>1. seqs[k] = <<<<k>>>> \o DumpedCores(topo, k)
    OBVIOUS
  <2> HIDE DEF seqs
  <2> QED BY <2>1, ClusterDumped
<1> HIDE DEF N, cl
<1>3. DOMAIN seqs = 1 .. Len(cl)
  BY <1>1
<1>4. seqs \in Seq(Seq(N))
  <2>1. seqs = [k \in 1 .. Len(cl) |-> seqs[k]]
    BY <1>3
  <2> HIDE DEF seqs
  <2>2. seqs \in [1 .. Len(cl) -> Seq(N)]
    BY <1>1, <1>2, <2>1
  <2> QED BY <1>1, <2>2
<1> HIDE DEF seqs
<1>5. \A i, j \in DOMAIN seqs : i # j =>
         \A p \in DOMAIN seqs[i], q \in DOMAIN seqs[j] : seqs[i][p] # seqs[j][q]
  BY <1>1, <1>2, <1>3
<1>6. F \in Seq(N) /\ Distinct(F) /\ Flattened(F, seqs, Len(seqs))
  BY <1>1, <1>2, <1>3, <1>4, <1>5, FlattenInSeq, FlattenDistinct, FlattenKeepsOrder
<1> HIDE DEF F
<1>7. \A a \in DOMAIN F : \A i, p : At(F, seqs, a, i, p) => F[a][1] = i /\ i \in Nat
  BY <1>1, <1>2, <1>3 DEF At
<1>8. ASSUME NEW a \in DOMAIN F
      PROVE  F[a][1] \in Nat
  <2>1. PICK i \in 1 .. Len(seqs), p \in Nat : At(F, seqs, a, i, p)
    BY <1>6 DEF Flattened
  <2> QED BY <1>7, <2>1
<1>9. ASSUME NEW a \in DOMAIN F, NEW b \in DOMAIN F, a < b
      PROVE  F[a][1] <= F[b][1]
  <2>1. PICK i \in 1 .. Len(seqs), j \in 1 .. Len(seqs), p \in Nat, q \in Nat :
              /\ At(F, seqs, a, i, p) /\ At(F, seqs, b, j, q)
              /\ i < j \/ (i = j /\ p < q)
    BY <1>6, <1>9 DEF Flattened
  <2>2. F[a][1] = i /\ F[b][1] = j /\ i \in Nat /\ j \in Nat
    BY <1>7, <2>1
  <2> QED BY <2>1, <2>2
<1>10. F = Dumped(topo)
  BY DumpedIs DEF F, seqs, cl
<1> QED BY <1>6, <1>8, <1>9, <1>10 DEF N

-----------------------------------------------------------------------------
(* The rows of a unit.                                                     *)

LEMMA NodeKinds ==
    ASSUME NEW topo, NEW n \in Nodes(topo)
    PROVE  \/ Len(n) = 3 /\ n \in CpuNodes(topo)
           \/ Len(n) # 3 /\ n \in ClusterNodes(topo) \cup CoreNodes(topo)
<1>1. CASE n \in CpuNodes(topo)
  <2>1. PICK o \in CoreNodes(topo) : n \in {<<o[1], o[2], i>> : i \in DOMAIN CpuList(topo, o)}
    BY <1>1 DEF CpuNodes
  <2>2. PICK i : n = <<o[1], o[2], i>>
    BY <2>1
  <2>3. Len(<<o[1], o[2], i>>) = 3
    BY NodeParts
  <2> QED BY <1>1, <2>2, <2>3
<1>2. CASE n \in CoreNodes(topo)
  <2>1. PICK k, o : n = <<k, o>>
    BY <1>2 DEF CoreNodes
  <2>2. Len(<<k, o>>) = 2
    BY NodeParts
  <2> QED BY <1>2, <2>1, <2>2
<1>3. CASE n \in ClusterNodes(topo)
  <2>1. PICK k : n = <<k>>
    BY <1>3 DEF ClusterNodes
  <2>2. Len(<<k>>) = 1
    BY NodeParts
  <2> QED BY <1>3, <2>1, <2>2
<1> QED BY <1>1, <1>2, <1>3 DEF Nodes

\* What a trace has of its CPUs, merged or not.
GoodCpus(trace, ps) == \A c \in CpuIds(trace) : GoodPStates(ps[c])

LEMMA UnitFacts ==
    ASSUME NEW trace, UnitsOK(trace), NEW ps, GoodCpus(trace, ps),
           NEW n \in Nodes(trace.topo)
    PROVE  /\ GoodPStates(PstatesOf(trace, ps, n))
           /\ CstatesOf(trace, n) \in CStatesType
           /\ OneEntryPerIrq(IrqsOf(trace, n))
           /\ Len(n) = 3 => CpuAt(trace.topo, n) \in CpuIds(trace)
<1>1. CASE Len(n) = 3 /\ n \in CpuNodes(trace.topo)
  <2>1. /\ CpuAt(trace.topo, n) \in CpuIds(trace)
        /\ trace.cst[CpuAt(trace.topo, n)] \in CStatesType
        /\ OneEntryPerIrq(trace.irqs[CpuAt(trace.topo, n)])
    BY <1>1, Zenon DEF UnitsOK
  <2> QED BY <1>1, <2>1 DEF GoodCpus, PstatesOf, CstatesOf, IrqsOf
<1>2. CASE Len(n) # 3 /\ n \in ClusterNodes(trace.topo) \cup CoreNodes(trace.topo)
  <2>1. trace.groupC[n] \in CStatesType /\ LoadedTable(trace.groupP[n])
    BY <1>2, Zenon DEF UnitsOK
  <2>2. OneEntryPerIrq(<<>>)
    BY DEF OneEntryPerIrq
  <2> QED BY <1>2, <2>1, <2>2
          DEF PstatesOf, CstatesOf, IrqsOf, GoodPStates, LoadedTable
<1> QED BY <1>1, <1>2, NodeKinds

LEMMA IdleRows ==
    ASSUME NEW trace, NEW ps, NEW n, CstatesOf(trace, n) \in CStatesType
    PROVE  LET R == Rows(trace, ps, "idle", n)
           IN  /\ Len(R) = CstatesOf(trace, n).max + 1 /\ Len(R) \in Nat
               /\ \A k \in 1 .. Len(R) : /\ R[k] = CstateRow(trace, n, k)
                                         /\ R[k].node = n /\ R[k].name = k - 1
<1> DEFINE m == CstatesOf(trace, n).max + 1
           R == Rows(trace, ps, "idle", n)
<1>1. m \in Nat
  BY NStatesAssumption DEF CStatesType, State
<1>2. R = [k \in 1 .. m |-> CstateRow(trace, n, k)]
  BY DEF Rows
<1> HIDE DEF m, R
<1>3. Len(R) = m /\ \A k \in 1 .. m : R[k] = CstateRow(trace, n, k)
  BY <1>1, <1>2
<1>4. \A k : CstateRow(trace, n, k).node = n /\ CstateRow(trace, n, k).name = k - 1
  BY DEF CstateRow
<1> QED BY <1>1, <1>3, <1>4 DEF m, R

LEMMA FrequencyRows ==
    ASSUME NEW trace, NEW ps, NEW n, GoodPStates(PstatesOf(trace, ps, n))
    PROVE  LET R == Rows(trace, ps, "frequency", n)
               table == PstatesOf(trace, ps, n).table
           IN  /\ Len(R) = Len(table) /\ Len(R) \in Nat /\ DOMAIN table = 1 .. Len(R)
               /\ \A k \in 1 .. Len(R) : /\ R[k] = PstateRow(trace, ps, n, k)
                                         /\ R[k].node = n /\ R[k].name = table[k].freq
                                         /\ R[k].stat = table[k].st
                                         /\ R[k].hits = table[k].st.count
<1> DEFINE table == PstatesOf(trace, ps, n).table
           R == Rows(trace, ps, "frequency", n)
<1>1. Len(table) \in Nat /\ DOMAIN table = 1 .. Len(table)
  BY TableFacts
<1>2. R = [k \in DOMAIN table |-> PstateRow(trace, ps, n, k)]
  BY DEF Rows
<1>3. \A k : /\ PstateRow(trace, ps, n, k).node = n
             /\ PstateRow(trace, ps, n, k).name = table[k].freq
             /\ PstateRow(trace, ps, n, k).stat = table[k].st
             /\ PstateRow(trace, ps, n, k).hits = table[k].st.count
  BY DEF PstateRow
<1> HIDE DEF table, R
<1>4. Len(R) = Len(table) /\ \A k \in 1 .. Len(table) : R[k] = PstateRow(trace, ps, n, k)
  BY <1>1, <1>2
<1> QED BY <1>1, <1>3, <1>4 DEF table, R

LEMMA WakeupRows ==
    ASSUME NEW trace, NEW ps, NEW n, OneEntryPerIrq(IrqsOf(trace, n))
    PROVE  LET R == Rows(trace, ps, "wakeup", n)
               irqs == IrqsOf(trace, n)
           IN  /\ Len(R) \in Nat /\ DOMAIN irqs = 1 .. Len(R)
               /\ \A k \in 1 .. Len(R) : /\ R[k] = IrqRow(trace, n, k)
                                         /\ R[k].node = n /\ R[k].name = irqs[k].name
<1> DEFINE irqs == IrqsOf(trace, n)
           R == Rows(trace, ps, "wakeup", n)
<1>1. Len(irqs) \in Nat /\ DOMAIN irqs = 1 .. Len(irqs)
  <2>1. irqs \in Seq(IrqEntry)
    BY DEF OneEntryPerIrq
  <2> HIDE DEF irqs
  <2> QED BY <2>1
<1>2. R = [k \in DOMAIN irqs |-> IrqRow(trace, n, k)]
  BY DEF Rows
<1>3. \A k : IrqRow(trace, n, k).node = n /\ IrqRow(trace, n, k).name = irqs[k].name
  BY DEF IrqRow
<1> HIDE DEF irqs, R
<1>4. Len(R) = Len(irqs) /\ \A k \in 1 .. Len(irqs) : R[k] = IrqRow(trace, n, k)
  BY <1>1, <1>2
<1> QED BY <1>1, <1>3, <1>4 DEF irqs, R

(* The rows of a unit carry its node, and different names.                 *)
LEMMA RowFacts ==
    ASSUME NEW trace, UnitsOK(trace), NEW ps, GoodCpus(trace, ps),
           NEW n \in Nodes(trace.topo), NEW t \in Tables
    PROVE  LET R == Rows(trace, ps, t, n)
           IN  /\ Len(R) \in Nat
               /\ \A k \in 1 .. Len(R) : R[k].node = n
               /\ \A j, k \in 1 .. Len(R) : R[j].name = R[k].name => j = k
<1>1. /\ GoodPStates(PstatesOf(trace, ps, n)) /\ CstatesOf(trace, n) \in CStatesType
      /\ OneEntryPerIrq(IrqsOf(trace, n))
  BY UnitFacts
<1>2. CASE t = "idle"
  <2> DEFINE R == Rows(trace, ps, "idle", n)
  <2>1. /\ Len(R) \in Nat
        /\ \A k \in 1 .. Len(R) : R[k].node = n /\ R[k].name = k - 1
    BY <1>1, IdleRows
  <2> HIDE DEF R
  <2>2. \A j, k \in 1 .. Len(R) : R[j].name = R[k].name => j = k
    BY <2>1
  <2> QED BY <1>2, <2>1, <2>2 DEF R
<1>3. CASE t = "frequency"
  <2> DEFINE R == Rows(trace, ps, "frequency", n)
             table == PstatesOf(trace, ps, n).table
  <2>1. /\ Len(R) \in Nat /\ DOMAIN table = 1 .. Len(R) /\ Len(R) = Len(table)
        /\ \A k \in 1 .. Len(R) : R[k].node = n /\ R[k].name = table[k].freq
    BY <1>1, FrequencyRows
  <2>2. /\ \A i \in 1 .. Len(table) : table[i].freq \in Nat
        /\ \A i, j \in 1 .. Len(table) : i < j => table[i].freq < table[j].freq
    BY <1>1, TableFacts
  <2> HIDE DEF R, table
  <2>3. \A j, k \in 1 .. Len(R) : R[j].name = R[k].name => j = k
    BY <2>1, <2>2
  <2> QED BY <1>3, <2>1, <2>3 DEF R
<1>4. CASE t = "wakeup"
  <2> DEFINE R == Rows(trace, ps, "wakeup", n)
             irqs == IrqsOf(trace, n)
  <2>1. /\ Len(R) \in Nat /\ DOMAIN irqs = 1 .. Len(R)
        /\ \A k \in 1 .. Len(R) : R[k].node = n /\ R[k].name = irqs[k].name
    BY <1>1, WakeupRows
  <2>2. \A i, j \in DOMAIN irqs : irqs[i].name = irqs[j].name => i = j
    BY <1>1 DEF OneEntryPerIrq
  <2> HIDE DEF R, irqs
  <2>3. \A j, k \in 1 .. Len(R) : R[j].name = R[k].name => j = k
    BY <2>1, <2>2
  <2> QED BY <1>4, <2>1, <2>3 DEF R
<1> QED BY <1>2, <1>3, <1>4 DEF Tables

-----------------------------------------------------------------------------
(* The lines of the report.                                                *)

IsSeq(s) == \E S : s \in Seq(S)

\* What the lines of a report are under, as TableAt and UnitAt say of out.
LatestIn(s, event, i) == Max({j \in 1 .. i : s[j].event = event})
TableIn(s, i) == s[LatestIn(s, "table", i)].table
UnitIn(s, i)  == s[LatestIn(s, "unit", i)].node
HasUnit(s, i) == \E j \in 1 .. i : s[j].event = "unit"

LEMMA AppendLine ==
    ASSUME NEW s, IsSeq(s), NEW l
    PROVE  /\ IsSeq(Append(s, l)) /\ Append(s, l) # <<>>
           /\ Len(s) \in Nat /\ DOMAIN s = 1 .. Len(s)
           /\ Len(Append(s, l)) = Len(s) + 1
           /\ DOMAIN Append(s, l) = 1 .. Len(s) + 1
           /\ Append(s, l)[Len(s) + 1] = l
           /\ \A i \in 1 .. Len(s) : Append(s, l)[i] = s[i]
<1>1. PICK S : s \in Seq(S)
  BY DEF IsSeq
<1> DEFINE T == S \cup {l}
<1>2. s \in Seq(T) /\ l \in T
  BY <1>1
<1> HIDE DEF T
<1>3. Append(s, l) \in Seq(T)
  BY <1>2
<1>4. IsSeq(Append(s, l))
  BY <1>3 DEF IsSeq
<1> QED BY <1>2, <1>4

(* The last line of a kind, seen from a line that was there before, stays  *)
(* the same; seen from the new line it is that line, if it is of the kind, *)
(* and else the one it was.                                                *)
LEMMA LatestLine ==
    ASSUME NEW s, IsSeq(s), NEW l, NEW event
    PROVE  LET z == Append(s, l)
               n == Len(s)
           IN  /\ \A i \in 1 .. n :
                     LatestIn(z, event, i) = LatestIn(s, event, i)
               /\ l.event = event => LatestIn(z, event, n + 1) = n + 1
               /\ l.event # event => LatestIn(z, event, n + 1) = LatestIn(s, event, n)
<1> DEFINE z == Append(s, l)
           n == Len(s)
           L(x, i) == {j \in 1 .. i : x[j].event = event}
<1>1. /\ n \in Nat /\ z[n + 1] = l /\ \A i \in 1 .. n : z[i] = s[i]
  BY AppendLine
<1> HIDE DEF z, n
<1>2. ASSUME NEW i \in 1 .. n
      PROVE  LatestIn(z, event, i) = LatestIn(s, event, i)
  <2>1. \A j \in 1 .. i : z[j] = s[j]
    BY <1>1
  <2>2. L(z, i) = L(s, i)
    BY <2>1
  <2> QED BY <2>2 DEF LatestIn
<1>3. ASSUME l.event = event
      PROVE  LatestIn(z, event, n + 1) = n + 1
  <2>1. n + 1 \in L(z, n + 1) /\ L(z, n + 1) \in SUBSET Int
    BY <1>1, <1>3
  <2>2. IsFiniteSet(L(z, n + 1))
    <3>1. IsFiniteSet(1 .. n + 1) /\ L(z, n + 1) \subseteq 1 .. n + 1
      BY <1>1, FS_Interval
    <3> QED BY <3>1, FS_Subset
  <2>3. \A y \in L(z, n + 1) : y <= n + 1
    BY <1>1
  <2>4. Max(L(z, n + 1)) = n + 1
    <3> HIDE DEF L
    <3> QED BY <2>1, <2>2, <2>3, MaxIs
  <2> QED BY <2>4 DEF LatestIn
<1>4. ASSUME l.event # event
      PROVE  LatestIn(z, event, n + 1) = LatestIn(s, event, n)
  <2>1. 1 .. n + 1 = 1 .. n \cup {n + 1}
    BY <1>1
  <2>2. L(z, n + 1) = L(s, n)
    BY <1>1, <1>4, <2>1
  <2> QED BY <2>2 DEF LatestIn
<1> QED BY <1>2, <1>3, <1>4 DEF z, n

(* So it is for what a line is under.                                      *)
LEMMA LatestThere ==
    ASSUME NEW s, NEW event, NEW i \in Nat, \E j \in 1 .. i : s[j].event = event
    PROVE  LatestIn(s, event, i) \in 1 .. i /\ s[LatestIn(s, event, i)].event = event
<1> DEFINE L == {j \in 1 .. i : s[j].event = event}
<1>1. L # {} /\ L \in SUBSET Int
  OBVIOUS
<1>2. IsFiniteSet(L)
  <2>1. IsFiniteSet(1 .. i) /\ L \subseteq 1 .. i
    BY FS_Interval
  <2> QED BY <2>1, FS_Subset
<1>3. Max(L) \in L
  <2> HIDE DEF L
  <2> QED BY <1>1, <1>2, MaxIsGreatest
<1> QED BY <1>3 DEF LatestIn

LEMMA UnderAppended ==
    ASSUME NEW s, IsSeq(s), s # <<>>, s[1].event = "table", NEW l
    PROVE  LET z == Append(s, l)
               n == Len(s)
           IN  /\ \A i \in 1 .. n : /\ TableIn(z, i) = TableIn(s, i)
                                    /\ HasUnit(s, i) => /\ HasUnit(z, i)
                                                        /\ UnitIn(z, i) = UnitIn(s, i)
               /\ l.event = "table" => TableIn(z, n + 1) = l.table
               /\ l.event # "table" => TableIn(z, n + 1) = TableIn(s, n)
               /\ l.event = "unit" => HasUnit(z, n + 1) /\ UnitIn(z, n + 1) = l.node
               /\ l.event # "unit" /\ HasUnit(s, n) =>
                     HasUnit(z, n + 1) /\ UnitIn(z, n + 1) = UnitIn(s, n)
<1> DEFINE z == Append(s, l)
           n == Len(s)
<1>1. /\ n \in Nat \ {0} /\ z[n + 1] = l /\ \A i \in 1 .. n : z[i] = s[i]
  <2>1. n # 0
    BY DEF IsSeq
  <2> QED BY <2>1, AppendLine
<1>2. \A event : /\ \A i \in 1 .. n : LatestIn(z, event, i) = LatestIn(s, event, i)
                 /\ l.event = event => LatestIn(z, event, n + 1) = n + 1
                 /\ l.event # event => LatestIn(z, event, n + 1) = LatestIn(s, event, n)
  BY LatestLine
<1> HIDE DEF z, n
<1>3. ASSUME NEW i \in 1 .. n
      PROVE  z[LatestIn(s, "table", i)] = s[LatestIn(s, "table", i)]
  <2>1. LatestIn(s, "table", i) \in 1 .. i
    <3>1. 1 \in 1 .. i /\ i \in Nat
      BY <1>1
    <3> QED BY <3>1, LatestThere
  <2> QED BY <1>1, <2>1
<1>4. ASSUME NEW i \in 1 .. n, HasUnit(s, i)
      PROVE  z[LatestIn(s, "unit", i)] = s[LatestIn(s, "unit", i)]
  <2>1. LatestIn(s, "unit", i) \in 1 .. i
    <3>1. i \in Nat
      BY <1>1
    <3> QED BY <1>4, <3>1, LatestThere DEF HasUnit
  <2> QED BY <1>1, <2>1
<1>5. \A i \in 1 .. n : HasUnit(s, i) => HasUnit(z, i) /\ HasUnit(z, n + 1)
  BY <1>1 DEF HasUnit
<1>6. n \in 1 .. n /\ n + 1 \in 1 .. n + 1
  BY <1>1
<1>7. \A i \in 1 .. n : TableIn(z, i) = TableIn(s, i)
  BY <1>2, <1>3 DEF TableIn
<1>8. \A i \in 1 .. n : HasUnit(s, i) => HasUnit(z, i) /\ UnitIn(z, i) = UnitIn(s, i)
  BY <1>2, <1>4, <1>5 DEF UnitIn
<1>9. /\ l.event = "table" => TableIn(z, n + 1) = l.table
      /\ l.event # "table" => TableIn(z, n + 1) = TableIn(s, n)
  BY <1>1, <1>2, <1>3, <1>6 DEF TableIn
<1>10. l.event = "unit" => HasUnit(z, n + 1) /\ UnitIn(z, n + 1) = l.node
  BY <1>1, <1>2, <1>6 DEF UnitIn, HasUnit
<1>11. l.event # "unit" /\ HasUnit(s, n) =>
          HasUnit(z, n + 1) /\ UnitIn(z, n + 1) = UnitIn(s, n)
  BY <1>2, <1>4, <1>5, <1>6 DEF UnitIn
<1> QED BY <1>7, <1>8, <1>9, <1>10, <1>11 DEF z, n

-----------------------------------------------------------------------------
(* What is printed: its invariant.                                         *)

\* Row k of a unit, what is printed for it, and whether it is printed.
NRows(t, n)    == Len(Rows(main, mainP, t, n))
RowOf(t, n, k) == Rows(main, mainP, t, n)[k]
LineOf(t, n, k) ==
    RowLine({RowOf(t, n, k)}, IF TakesBaseline THEN BaseRow(t, n, k) ELSE {})
Shows(t, n, k) == Hits({RowOf(t, n, k)} \cup BaseRow(t, n, k))

Units == ToSet(Dumped(main.topo))

\* The rows the walk has been past when it is at row r of the first of the
\* units td, in the first of the tables ts.
Past(ts, td, r) ==
    {p \in Tables \X Units \X (Nat \ {0}) :
        \/ p[1] \notin ToSet(ts)
        \/ p[1] = Head(ts) /\ p[2] \notin ToSet(td)
        \/ p[1] = Head(ts) /\ p[2] = Head(td) /\ p[3] < r}

IsFor(s, i, t, n, k) ==
    /\ s[i] = LineOf(t, n, k) /\ TableIn(s, i) = t
    /\ HasUnit(s, i) /\ UnitIn(s, i) = n

\* Every row that was printed is one of those in P,
Sound(s, P) ==
    \A i \in DOMAIN s : s[i].event = "row" =>
        \E t \in Tables, n \in Units : \E k \in 1 .. NRows(t, n) :
            <<t, n, k>> \in P /\ IsFor(s, i, t, n, k)

\* each of them once,
Once(s) ==
    \A i, j \in DOMAIN s :
        /\ s[i].event = "row" /\ s[j] = s[i]
        /\ TableIn(s, i) = TableIn(s, j) /\ UnitIn(s, i) = UnitIn(s, j)
        => i = j

\* and all of P that have hits.
AllShown(s, P) ==
    \A t \in options.display, n \in Units : \A k \in 1 .. NRows(t, n) :
        <<t, n, k>> \in P /\ Shows(t, n, k) => \E i \in DOMAIN s : IsFor(s, i, t, n, k)

\* Within a table the units come cluster by cluster.
InOrderOfClusters(s) ==
    /\ \A i \in DOMAIN s : s[i].event = "unit" => s[i].node[1] \in Nat
    /\ \A i, j \in DOMAIN s :
          /\ j <= i /\ s[i].event = "unit" /\ s[j].event = "unit"
          /\ TableIn(s, j) = TableIn(s, i)
          => s[j].node[1] <= s[i].node[1]

Lines(s, ts, td, r) ==
    /\ Sound(s, Past(ts, td, r)) /\ Once(s) /\ AllShown(s, Past(ts, td, r))
    /\ InOrderOfClusters(s)

\* The walk: what is still to come is in order, and has not been printed.
TablesOK(ts) == ts \in Seq(Tables) /\ ts # <<>> /\ Distinct(ts)

WalkOK(td, r) ==
    /\ td \in Seq(Units) /\ Distinct(td)
    /\ \A a, b \in DOMAIN td : a < b => td[a][1] <= td[b][1]
    /\ r \in Nat \ {0} /\ (td = <<>> => r = 1)

IsReport(s) == IsSeq(s) /\ s # <<>> /\ s[1].event = "table"

OutOK(s, ts, td) ==
    /\ IsReport(s) /\ TableIn(s, Len(s)) = Head(ts)
    /\ \A i \in DOMAIN s : TableIn(s, i) \notin ToSet(Tail(ts))
    /\ \A i \in DOMAIN s, a \in DOMAIN td :
          s[i].event = "unit" /\ TableIn(s, i) = Head(ts) => s[i].node[1] <= td[a][1]

AtUnit(s, td) == td # <<>> /\ HasUnit(s, Len(s)) /\ UnitIn(s, Len(s)) = Head(td)

\* Every unit of the trace has its counterpart, and every CPU's tables are
\* merged.
Assigned ==
    HasBaseline =>
        /\ Nodes(main.topo) \subseteq Nodes(base.topo)
        /\ baseOf = [n \in Nodes(main.topo) |-> n]
        /\ cpu = main.nrcpus

Going == {"check", "load", "load baseline", "merge", "assign", "open", "report", "done"}

ReportInv ==
    /\ UnitsOK(main) /\ UnitsOK(base)
    /\ phase \in Going => options.display \in (SUBSET Tables) \ {{}}
    /\ phase \in Going \ {"check"} => ReportPossible
    /\ phase = "assign" => cpu = main.nrcpus
    /\ phase \in {"open", "report", "done"} \/ out # <<>> => Assigned
    /\ phase = "undefined" => NothingWildRead
    /\ pending = {}
    /\ phase \notin {"report", "undefined", "done"} => out = <<>>
    /\ out = <<>> => todo = <<>> /\ row = 1 /\ headed = FALSE /\ phase \notin {"report", "done"}
    /\ out # <<>> => IsReport(out) /\ Lines(out, tables, todo, row)
    /\ phase = "report" =>
          /\ TablesOK(tables) /\ WalkOK(todo, row) /\ OutOK(out, tables, todo)
          /\ headed => AtUnit(out, todo)
    /\ phase = "done" => tables = <<>> /\ todo = <<>> /\ row = 1

-----------------------------------------------------------------------------
(* What a further line does to the report.                                 *)

LEMMA ForAppended ==
    ASSUME NEW s, IsReport(s), NEW l
    PROVE  LET z == Append(s, l)
           IN  /\ IsReport(z) /\ DOMAIN s = 1 .. Len(s) /\ Len(s) \in Nat \ {0}
               /\ DOMAIN z = 1 .. Len(s) + 1 /\ Len(z) = Len(s) + 1
               /\ z[Len(s) + 1] = l
               /\ \A i \in DOMAIN s :
                     /\ i \in DOMAIN z /\ z[i] = s[i] /\ TableIn(z, i) = TableIn(s, i)
                     /\ HasUnit(s, i) => HasUnit(z, i) /\ UnitIn(z, i) = UnitIn(s, i)
                     /\ \A t, n, k : IsFor(s, i, t, n, k) => IsFor(z, i, t, n, k)
<1> DEFINE z == Append(s, l)
<1>1. /\ IsSeq(z) /\ z # <<>> /\ Len(s) \in Nat /\ DOMAIN s = 1 .. Len(s)
      /\ Len(z) = Len(s) + 1 /\ DOMAIN z = 1 .. Len(s) + 1
      /\ z[Len(s) + 1] = l /\ \A i \in 1 .. Len(s) : z[i] = s[i]
  BY AppendLine DEF IsReport
<1>2. Len(s) # 0
  BY DEF IsReport, IsSeq
<1>3. \A i \in 1 .. Len(s) : /\ TableIn(z, i) = TableIn(s, i)
                             /\ HasUnit(s, i) => HasUnit(z, i) /\ UnitIn(z, i) = UnitIn(s, i)
  BY UnderAppended DEF IsReport
<1> HIDE DEF z
<1>4. IsReport(z)
  BY <1>1, <1>2 DEF IsReport
<1>5. \A i \in DOMAIN s : \A t, n, k : IsFor(s, i, t, n, k) => IsFor(z, i, t, n, k)
  BY <1>1, <1>3 DEF IsFor
<1> QED BY <1>1, <1>2, <1>3, <1>4, <1>5 DEF z

\* A heading does nothing to the rows.
LEMMA HeadingAdded ==
    ASSUME NEW s, IsReport(s), NEW l, l.event # "row", NEW P
    PROVE  /\ Sound(s, P) => Sound(Append(s, l), P)
           /\ Sound(s, P) /\ Once(s) => Once(Append(s, l))
           /\ AllShown(s, P) => AllShown(Append(s, l), P)
<1> DEFINE z == Append(s, l)
<1>1. /\ DOMAIN s = 1 .. Len(s) /\ Len(s) \in Nat \ {0}
      /\ DOMAIN z = 1 .. Len(s) + 1 /\ z[Len(s) + 1] = l
      /\ \A i \in DOMAIN s :
            /\ i \in DOMAIN z /\ z[i] = s[i] /\ TableIn(z, i) = TableIn(s, i)
            /\ HasUnit(s, i) => HasUnit(z, i) /\ UnitIn(z, i) = UnitIn(s, i)
            /\ \A t, n, k : IsFor(s, i, t, n, k) => IsFor(z, i, t, n, k)
  BY ForAppended
<1> HIDE DEF z
<1>2. \A i \in DOMAIN z : z[i].event = "row" => i \in DOMAIN s /\ s[i].event = "row"
  BY <1>1
<1>3. ASSUME Sound(s, P)
      PROVE  Sound(z, P)
  BY <1>1, <1>2, <1>3 DEF Sound
<1>4. ASSUME Sound(s, P), Once(s)
      PROVE  Once(z)
  <2>1. \A i \in DOMAIN s : s[i].event = "row" => HasUnit(s, i)
    BY <1>4 DEF Sound, IsFor
  <2> SUFFICES ASSUME NEW i \in DOMAIN z, NEW j \in DOMAIN z,
                      z[i].event = "row", z[j] = z[i],
                      TableIn(z, i) = TableIn(z, j), UnitIn(z, i) = UnitIn(z, j)
               PROVE  i = j
    BY DEF Once
  <2>2. i \in DOMAIN s /\ j \in DOMAIN s /\ s[i].event = "row" /\ s[j].event = "row"
    BY <1>2
  <2>3. TableIn(s, i) = TableIn(s, j) /\ UnitIn(s, i) = UnitIn(s, j) /\ s[j] = s[i]
    BY <1>1, <2>1, <2>2
  <2> QED BY <1>4, <2>2, <2>3 DEF Once
<1>5. ASSUME AllShown(s, P)
      PROVE  AllShown(z, P)
  <2> SUFFICES ASSUME NEW t \in options.display, NEW n \in Units, NEW k \in 1 .. NRows(t, n),
                      <<t, n, k>> \in P, Shows(t, n, k)
               PROVE  \E i \in DOMAIN z : IsFor(z, i, t, n, k)
    BY DEF AllShown
  <2>1. PICK i \in DOMAIN s : IsFor(s, i, t, n, k)
    BY <1>5 DEF AllShown
  <2>2. i \in DOMAIN z /\ IsFor(z, i, t, n, k)
    BY <1>1, <2>1
  <2> QED BY <2>2
<1> QED BY <1>3, <1>4, <1>5 DEF z

\* The trace's rows can be told apart.
RowsDiffer ==
    \A t \in Tables, n \in Units : \A j, k \in 1 .. NRows(t, n) :
        LineOf(t, n, j) = LineOf(t, n, k) => j = k

LEMMA RowsDo ==
    ASSUME UnitsOK(main), GoodCpus(main, mainP)
    PROVE  RowsDiffer /\ \A t \in Tables, n \in Units : NRows(t, n) \in Nat
<1>1. \A n \in Units : n \in Nodes(main.topo)
  <2>1. Dumped(main.topo) \in Seq(Nodes(main.topo))
    BY DumpedFacts DEF UnitsOK
  <2> QED BY <2>1 DEF Units, ToSet
<1>2. ASSUME NEW t \in Tables, NEW n \in Units
      PROVE  /\ NRows(t, n) \in Nat
             /\ \A j, k \in 1 .. NRows(t, n) : RowOf(t, n, j).name = RowOf(t, n, k).name => j = k
  BY <1>1, RowFacts DEF NRows, RowOf
<1>3. \A t, n, k : LineOf(t, n, k).row = {RowOf(t, n, k)}
  BY DEF LineOf, RowLine
<1>4. \A t, n, j, k : LineOf(t, n, j) = LineOf(t, n, k) => RowOf(t, n, j) = RowOf(t, n, k)
  <2> SUFFICES ASSUME NEW t, NEW n, NEW j, NEW k, LineOf(t, n, j) = LineOf(t, n, k)
               PROVE  RowOf(t, n, j) = RowOf(t, n, k)
    OBVIOUS
  <2>1. {RowOf(t, n, j)} = {RowOf(t, n, k)}
    BY <1>3
  <2> QED BY <2>1
<1>5. RowsDiffer
  <2> SUFFICES ASSUME NEW t \in Tables, NEW n \in Units,
                      NEW j \in 1 .. NRows(t, n), NEW k \in 1 .. NRows(t, n),
                      LineOf(t, n, j) = LineOf(t, n, k)
               PROVE  j = k
    BY DEF RowsDiffer
  <2>1. RowOf(t, n, j) = RowOf(t, n, k)
    BY <1>4
  <2> QED BY <1>2, <2>1
<1> QED BY <1>2, <1>5

\* A row is printed under the unit it is of.
LEMMA RowAdded ==
    ASSUME RowsDiffer, NEW s, IsReport(s), NEW P, NEW Q,
           NEW t \in Tables, NEW n \in Units, NEW k \in 1 .. NRows(t, n),
           TableIn(s, Len(s)) = t, HasUnit(s, Len(s)), UnitIn(s, Len(s)) = n,
           <<t, n, k>> \notin P, <<t, n, k>> \in Q, \A p \in P : p \in Q,
           \A p \in Q : p \in P \/ p = <<t, n, k>>,
           Sound(s, P), Once(s), AllShown(s, P)
    PROVE  LET z == Append(s, LineOf(t, n, k))
           IN  Sound(z, Q) /\ Once(z) /\ AllShown(z, Q)
<1> DEFINE l == LineOf(t, n, k)
           z == Append(s, l)
           m == Len(s) + 1
<1>0. l.event = "row"
  BY DEF LineOf, RowLine
<1>1. /\ DOMAIN s = 1 .. Len(s) /\ Len(s) \in Nat \ {0}
      /\ DOMAIN z = 1 .. m /\ z[m] = l
      /\ \A i \in DOMAIN s :
            /\ i \in DOMAIN z /\ z[i] = s[i] /\ TableIn(z, i) = TableIn(s, i)
            /\ HasUnit(s, i) => HasUnit(z, i) /\ UnitIn(z, i) = UnitIn(s, i)
            /\ \A u, v, w : IsFor(s, i, u, v, w) => IsFor(z, i, u, v, w)
  BY ForAppended
<1>2. TableIn(z, m) = t /\ HasUnit(z, m) /\ UnitIn(z, m) = n
  <2>1. l.event # "table" /\ l.event # "unit"
    BY <1>0
  <2> HIDE DEF l
  <2> QED BY <2>1, UnderAppended DEF IsReport
<1> HIDE DEF z, l
<1>3. IsFor(z, m, t, n, k) /\ m \in DOMAIN z
  BY <1>1, <1>2 DEF IsFor, l
<1>4. \A i \in DOMAIN z : i \in DOMAIN s \/ i = m
  BY <1>1
<1>5. Sound(z, Q)
  <2> SUFFICES ASSUME NEW i \in DOMAIN z, z[i].event = "row"
               PROVE  \E u \in Tables, v \in Units : \E w \in 1 .. NRows(u, v) :
                        <<u, v, w>> \in Q /\ IsFor(z, i, u, v, w)
    BY DEF Sound
  <2>1. CASE i = m
    BY <1>3, <2>1
  <2>2. CASE i \in DOMAIN s
    BY <1>1, <2>2 DEF Sound
  <2> QED BY <1>4, <2>1, <2>2
<1>6. ASSUME NEW i \in DOMAIN s, s[i].event = "row"
      PROVE  HasUnit(s, i) /\ (z[i] = l => TableIn(z, i) # t \/ UnitIn(z, i) # n)
  <2>1. PICK u \in Tables, v \in Units : \E w \in 1 .. NRows(u, v) :
              <<u, v, w>> \in P /\ IsFor(s, i, u, v, w)
    BY <1>6 DEF Sound
  <2>2. PICK w \in 1 .. NRows(u, v) : <<u, v, w>> \in P /\ IsFor(s, i, u, v, w)
    BY <2>1
  <2>3. HasUnit(s, i) /\ TableIn(z, i) = u /\ UnitIn(z, i) = v /\ z[i] = LineOf(u, v, w)
    BY <1>1, <2>2 DEF IsFor
  <2>4. z[i] = l /\ u = t /\ v = n => w = k
    BY <2>3 DEF RowsDiffer, l
  <2>5. ~(u = t /\ v = n /\ w = k)
    BY <2>2
  <2> QED BY <2>3, <2>4, <2>5
<1>7. Once(z)
  <2> SUFFICES ASSUME NEW i \in DOMAIN z, NEW j \in DOMAIN z,
                      z[i].event = "row", z[j] = z[i],
                      TableIn(z, i) = TableIn(z, j), UnitIn(z, i) = UnitIn(z, j)
               PROVE  i = j
    BY DEF Once
  <2>1. CASE i \in DOMAIN s /\ j \in DOMAIN s
    <3>1. s[i].event = "row" /\ s[j].event = "row" /\ s[j] = s[i]
      BY <1>1, <2>1
    <3>2. TableIn(s, i) = TableIn(s, j) /\ UnitIn(s, i) = UnitIn(s, j)
      BY <1>1, <1>6, <2>1, <3>1
    <3> QED BY <2>1, <3>1, <3>2 DEF Once
  <2>2. CASE i = m /\ j \in DOMAIN s
    <3>1. s[j].event = "row" /\ z[j] = l
      BY <1>1, <2>2
    <3> QED BY <1>2, <1>6, <2>2, <3>1
  <2>3. CASE i \in DOMAIN s /\ j = m
    <3>1. s[i].event = "row" /\ z[i] = l
      BY <1>1, <2>3
    <3> QED BY <1>2, <1>6, <2>3, <3>1
  <2> QED BY <1>4, <2>1, <2>2, <2>3
<1>8. AllShown(z, Q)
  <2> SUFFICES ASSUME NEW u \in options.display, NEW v \in Units, NEW w \in 1 .. NRows(u, v),
                      <<u, v, w>> \in Q, Shows(u, v, w)
               PROVE  \E i \in DOMAIN z : IsFor(z, i, u, v, w)
    BY DEF AllShown
  <2>1. CASE <<u, v, w>> = <<t, n, k>>
    BY <1>3, <2>1
  <2>2. CASE <<u, v, w>> \in P
    <3>1. PICK i \in DOMAIN s : IsFor(s, i, u, v, w)
      BY <2>2 DEF AllShown
    <3>2. i \in DOMAIN z /\ IsFor(z, i, u, v, w)
      BY <1>1, <3>1
    <3> QED BY <3>2
  <2> QED BY <2>1, <2>2
<1> QED BY <1>5, <1>7, <1>8 DEF z, l

-----------------------------------------------------------------------------
(* The walk: where it has been.                                            *)

LEMMA Seqs ==
    ASSUME NEW S, NEW s \in Seq(S), s # <<>>
    PROVE  /\ Tail(s) \in Seq(S) /\ Head(s) = s[1] /\ Head(s) \in S
           /\ Len(s) \in Nat \ {0} /\ DOMAIN s = 1 .. Len(s)
           /\ DOMAIN Tail(s) = 1 .. Len(s) - 1
           /\ \A i \in 1 .. Len(s) - 1 : Tail(s)[i] = s[i + 1]
           /\ ToSet(s) = {Head(s)} \cup ToSet(Tail(s))
<1>1. /\ Tail(s) \in Seq(S) /\ Head(s) = s[1]
      /\ Len(s) \in Nat \ {0} /\ DOMAIN s = 1 .. Len(s)
      /\ DOMAIN Tail(s) = 1 .. Len(s) - 1
      /\ \A i \in 1 .. Len(s) - 1 : Tail(s)[i] = s[i + 1]
  BY HeadTailProperties
<1>2. Head(s) \in S
  BY <1>1
<1>3. ASSUME NEW x \in ToSet(s)
      PROVE  x \in {Head(s)} \cup ToSet(Tail(s))
  <2>1. PICK i \in 1 .. Len(s) : x = s[i]
    BY <1>1 DEF ToSet
  <2>2. CASE i = 1
    BY <1>1, <2>1, <2>2
  <2>3. CASE i # 1
    <3>1. i - 1 \in DOMAIN Tail(s) /\ Tail(s)[i - 1] = x
      BY <1>1, <2>1, <2>3
    <3> QED BY <3>1 DEF ToSet
  <2> QED BY <2>2, <2>3
<1>4. ASSUME NEW x \in {Head(s)} \cup ToSet(Tail(s))
      PROVE  x \in ToSet(s)
  <2>1. CASE x = Head(s)
    <3>1. 1 \in DOMAIN s /\ x = s[1]
      BY <1>1, <2>1
    <3> QED BY <3>1 DEF ToSet
  <2>2. CASE x \in ToSet(Tail(s))
    <3>1. PICK i \in DOMAIN Tail(s) : x = Tail(s)[i]
      BY <2>2 DEF ToSet
    <3>2. i + 1 \in DOMAIN s /\ x = s[i + 1]
      BY <1>1, <3>1
    <3> QED BY <3>2 DEF ToSet
  <2> QED BY <2>1, <2>2
<1>5. ToSet(s) = {Head(s)} \cup ToSet(Tail(s))
  BY <1>3, <1>4
<1> QED BY <1>1, <1>2, <1>5

LEMMA TailDistinct ==
    ASSUME NEW S, NEW s \in Seq(S), s # <<>>, Distinct(s)
    PROVE  Distinct(Tail(s)) /\ Head(s) \notin ToSet(Tail(s))
<1>1. /\ Head(s) = s[1] /\ Len(s) \in Nat \ {0} /\ DOMAIN s = 1 .. Len(s)
      /\ DOMAIN Tail(s) = 1 .. Len(s) - 1
      /\ \A i \in 1 .. Len(s) - 1 : Tail(s)[i] = s[i + 1]
  BY Seqs
<1>2. Distinct(Tail(s))
  <2> SUFFICES ASSUME NEW a \in DOMAIN Tail(s), NEW b \in DOMAIN Tail(s),
                      Tail(s)[a] = Tail(s)[b]
               PROVE  a = b
    BY DEF Distinct
  <2>1. a + 1 \in DOMAIN s /\ b + 1 \in DOMAIN s /\ s[a + 1] = s[b + 1]
    BY <1>1
  <2>2. a + 1 = b + 1
    BY <2>1 DEF Distinct
  <2> QED BY <1>1, <2>2
<1>3. Head(s) \notin ToSet(Tail(s))
  <2> SUFFICES ASSUME Head(s) \in ToSet(Tail(s))
               PROVE  FALSE
    OBVIOUS
  <2>1. PICK i \in DOMAIN Tail(s) : Head(s) = Tail(s)[i]
    BY DEF ToSet
  <2>2. 1 \in DOMAIN s /\ i + 1 \in DOMAIN s /\ s[1] = s[i + 1] /\ i # 0
    BY <1>1, <2>1
  <2>3. 1 = i + 1
    BY <2>2 DEF Distinct
  <2> QED BY <1>1, <2>2, <2>3
<1> QED BY <1>2, <1>3

LEMMA PastIs ==
    ASSUME NEW ts, NEW td, NEW r, NEW t \in Tables, NEW n \in Units, NEW k \in Nat \ {0}
    PROVE  <<t, n, k>> \in Past(ts, td, r) <=>
              \/ t \notin ToSet(ts)
              \/ t = Head(ts) /\ n \notin ToSet(td)
              \/ t = Head(ts) /\ n = Head(td) /\ k < r
<1> DEFINE p == <<t, n, k>>
<1>1. p[1] = t /\ p[2] = n /\ p[3] = k
  BY NodeParts
<1>2. p \in Tables \X Units \X (Nat \ {0})
  OBVIOUS
<1> HIDE DEF p
<1>3. p \in Past(ts, td, r) <=>
              \/ p[1] \notin ToSet(ts)
              \/ p[1] = Head(ts) /\ p[2] \notin ToSet(td)
              \/ p[1] = Head(ts) /\ p[2] = Head(td) /\ p[3] < r
  BY <1>2 DEF Past
<1> QED BY <1>1, <1>3 DEF p

LEMMA PastParts ==
    ASSUME NEW ts, NEW td, NEW r, NEW p \in Past(ts, td, r)
    PROVE  \E t \in Tables, n \in Units, k \in Nat \ {0} : p = <<t, n, k>>
BY DEF Past

\* One row further.
LEMMA RowPast ==
    ASSUME NEW ts, TablesOK(ts), NEW td, NEW r, WalkOK(td, r), td # <<>>
    PROVE  LET P == Past(ts, td, r)
               Q == Past(ts, td, r + 1)
               p == <<Head(ts), Head(td), r>>
           IN  p \notin P /\ p \in Q /\ (\A q \in P : q \in Q) /\ \A q \in Q : q \in P \/ q = p
<1> DEFINE P == Past(ts, td, r)
           Q == Past(ts, td, r + 1)
           p == <<Head(ts), Head(td), r>>
<1>1. /\ Head(ts) \in Tables /\ Head(ts) \in ToSet(ts)
      /\ Head(td) \in Units /\ Head(td) \in ToSet(td) /\ r \in Nat \ {0}
  BY Seqs DEF TablesOK, WalkOK
<1>2. p \notin P /\ p \in Q
  <2>1. r < r + 1 /\ ~(r < r)
    BY <1>1
  <2> QED BY <1>1, <2>1, PastIs
<1>3. ASSUME NEW q \in P
      PROVE  q \in Q
  <2>1. PICK t \in Tables, n \in Units, k \in Nat \ {0} : q = <<t, n, k>>
    BY PastParts
  <2>2. k < r => k < r + 1
    BY <1>1
  <2> QED BY <1>3, <2>1, <2>2, PastIs
<1>4. ASSUME NEW q \in Q
      PROVE  q \in P \/ q = p
  <2>1. PICK t \in Tables, n \in Units, k \in Nat \ {0} : q = <<t, n, k>>
    BY PastParts
  <2>2. k < r + 1 => k < r \/ k = r
    BY <1>1
  <2> QED BY <1>4, <2>1, <2>2, PastIs
<1> QED BY <1>2, <1>3, <1>4

\* One unit further: no row was left.
LEMMA UnitPast ==
    ASSUME NEW ts, TablesOK(ts), NEW td, NEW r, WalkOK(td, r), td # <<>>,
           NEW t \in Tables, NEW n \in Units, NEW k \in Nat \ {0}
    PROVE  <<t, n, k>> \in Past(ts, Tail(td), 1) <=>
              <<t, n, k>> \in Past(ts, td, r) \/ (t = Head(ts) /\ n = Head(td))
<1>1. /\ ToSet(td) = {Head(td)} \cup ToSet(Tail(td)) /\ Head(td) \notin ToSet(Tail(td))
      /\ Tail(td) \in Seq(Units)
  BY Seqs, TailDistinct DEF WalkOK
<1>2. <<t, n, k>> \in Past(ts, Tail(td), 1) <=>
        t \notin ToSet(ts) \/ (t = Head(ts) /\ n \notin ToSet(Tail(td)))
  <2>1. ~(k < 1)
    OBVIOUS
  <2> QED BY <2>1, PastIs
<1>3. <<t, n, k>> \in Past(ts, td, r) <=>
              \/ t \notin ToSet(ts)
              \/ t = Head(ts) /\ n \notin ToSet(td)
              \/ t = Head(ts) /\ n = Head(td) /\ k < r
  BY PastIs
<1> QED BY <1>1, <1>2, <1>3

\* One table further: no unit was left.
LEMMA TablePast ==
    ASSUME NEW ts, TablesOK(ts), NEW r,
           NEW t \in Tables, NEW n \in Units, NEW k \in Nat \ {0}
    PROVE  /\ <<t, n, k>> \in Past(ts, <<>>, r) <=>
                 <<t, n, k>> \in Past(Tail(ts), Dumped(main.topo), 1)
           /\ Tail(ts) = <<>> => /\ <<t, n, k>> \in Past(ts, <<>>, r)
                                 /\ <<t, n, k>> \in Past(Tail(ts), <<>>, 1)
<1>1. /\ ToSet(ts) = {Head(ts)} \cup ToSet(Tail(ts)) /\ Head(ts) \notin ToSet(Tail(ts))
      /\ Tail(ts) \in Seq(Tables)
  BY Seqs, TailDistinct DEF TablesOK
<1>2. ~(k < 1) /\ n \in ToSet(Dumped(main.topo)) /\ ToSet(<<>>) = {}
  BY DEF Units, ToSet
<1>3. <<t, n, k>> \in Past(ts, <<>>, r) <=> t \notin ToSet(Tail(ts))
  BY <1>1, <1>2, PastIs
<1>4. <<t, n, k>> \in Past(Tail(ts), Dumped(main.topo), 1) <=> t \notin ToSet(Tail(ts))
  BY <1>1, <1>2, PastIs
<1>5. Tail(ts) = <<>> => t \notin ToSet(Tail(ts)) /\ <<t, n, k>> \in Past(Tail(ts), <<>>, 1)
  BY <1>1, <1>2, PastIs
<1> QED BY <1>3, <1>4, <1>5

\* What is said of P is said of what is in a report's rows only.
LEMMA SamePast ==
    ASSUME NEW s, NEW P, NEW Q, \A t \in Tables, n \in Units : NRows(t, n) \in Nat,
           options.display \subseteq Tables
    PROVE  /\ Sound(s, P) /\ (\A t \in Tables, n \in Units : \A k \in 1 .. NRows(t, n) :
                                 <<t, n, k>> \in P => <<t, n, k>> \in Q) => Sound(s, Q)
           /\ AllShown(s, P) /\ (\A t \in Tables, n \in Units : \A k \in 1 .. NRows(t, n) :
                                    <<t, n, k>> \in Q /\ Shows(t, n, k) => <<t, n, k>> \in P)
                => AllShown(s, Q)
<1>1. ASSUME Sound(s, P), \A t \in Tables, n \in Units : \A k \in 1 .. NRows(t, n) :
                             <<t, n, k>> \in P => <<t, n, k>> \in Q
      PROVE  Sound(s, Q)
  BY <1>1, Zenon DEF Sound
<1>2. ASSUME AllShown(s, P), \A t \in Tables, n \in Units : \A k \in 1 .. NRows(t, n) :
                             <<t, n, k>> \in Q /\ Shows(t, n, k) => <<t, n, k>> \in P
      PROVE  AllShown(s, Q)
  <2> SUFFICES ASSUME NEW t \in options.display, NEW n \in Units, NEW k \in 1 .. NRows(t, n),
                      <<t, n, k>> \in Q, Shows(t, n, k)
               PROVE  \E i \in DOMAIN s : IsFor(s, i, t, n, k)
    BY DEF AllShown
  <2>1. t \in Tables
    OBVIOUS
  <2>2. <<t, n, k>> \in P
    BY <1>2, <2>1
  <2> QED BY <1>2, <2>2 DEF AllShown
<1> QED BY <1>1, <1>2

-----------------------------------------------------------------------------
(* The walk: what it prints on its way.                                    *)

Ready == UnitsOK(main) /\ GoodCpus(main, mainP) /\ options.display \subseteq Tables

LEMMA Dumps ==
    ASSUME Ready
    PROVE  /\ WalkOK(Dumped(main.topo), 1) /\ Units \subseteq Nodes(main.topo)
           /\ \A n \in Units : n[1] \in Nat
           /\ RowsDiffer /\ \A t \in Tables, n \in Units : NRows(t, n) \in Nat
<1> DEFINE d == Dumped(main.topo)
<1>1. /\ d \in Seq(Nodes(main.topo)) /\ Distinct(d)
      /\ \A a, b \in DOMAIN d : a < b => d[a][1] <= d[b][1]
      /\ \A a \in DOMAIN d : d[a][1] \in Nat
  BY DumpedFacts DEF Ready, UnitsOK
<1> HIDE DEF d
<1>2. Len(d) \in Nat /\ DOMAIN d = 1 .. Len(d)
  BY <1>1
<1>3. d \in Seq(ToSet(d))
  <2>1. \A a \in 1 .. Len(d) : d[a] \in ToSet(d)
    BY <1>2 DEF ToSet
  <2>2. d = [a \in 1 .. Len(d) |-> d[a]]
    BY <1>1
  <2>3. d \in [1 .. Len(d) -> ToSet(d)]
    BY <2>1, <2>2
  <2> QED BY <1>2, <2>3
<1>4. Units = ToSet(d)
  BY DEF Units, d
<1>5. WalkOK(d, 1)
  BY <1>1, <1>3, <1>4 DEF WalkOK
<1>6. Units \subseteq Nodes(main.topo) /\ \A n \in Units : n[1] \in Nat
  BY <1>1, <1>2, <1>4 DEF ToSet
<1> QED BY <1>5, <1>6, RowsDo DEF Ready, d

\* Lines that are no units and head no table leave the order as it is.
LEMMA OtherLine ==
    ASSUME NEW s, NEW ts, NEW td, OutOK(s, ts, td), InOrderOfClusters(s),
           NEW l, l.event = "row"
    PROVE  LET z == Append(s, l) IN OutOK(z, ts, td) /\ InOrderOfClusters(z)
<1> DEFINE z == Append(s, l)
           m == Len(s) + 1
<1>1. /\ IsReport(z) /\ DOMAIN s = 1 .. Len(s) /\ Len(s) \in Nat \ {0}
      /\ DOMAIN z = 1 .. m /\ Len(z) = m /\ z[m] = l
      /\ \A i \in DOMAIN s : z[i] = s[i] /\ TableIn(z, i) = TableIn(s, i)
  BY ForAppended DEF OutOK
<1>2. TableIn(z, m) = TableIn(s, Len(s))
  BY UnderAppended DEF OutOK, IsReport
<1> HIDE DEF z
<1>3. \A i \in DOMAIN z : i \in DOMAIN s \/ (i = m /\ z[i].event # "unit")
  BY <1>1
<1>4. InOrderOfClusters(z)
  BY <1>1, <1>3 DEF InOrderOfClusters
<1>5. OutOK(z, ts, td)
  <2>1. TableIn(z, Len(z)) = Head(ts)
    BY <1>1, <1>2 DEF OutOK
  <2>2. \A i \in DOMAIN z : TableIn(z, i) \notin ToSet(Tail(ts))
    <3>1. Len(s) \in DOMAIN s
      BY <1>1
    <3> QED BY <1>1, <1>2, <1>3, <3>1 DEF OutOK
  <2>3. \A i \in DOMAIN z, a \in DOMAIN td :
          z[i].event = "unit" /\ TableIn(z, i) = Head(ts) => z[i].node[1] <= td[a][1]
    BY <1>1, <1>3 DEF OutOK
  <2> QED BY <1>1, <2>1, <2>2, <2>3 DEF OutOK
<1> QED BY <1>4, <1>5 DEF z

LEMMA PrintsRow ==
    ASSUME Ready, NEW ts, TablesOK(ts), NEW td, NEW r, WalkOK(td, r), td # <<>>,
           r <= NRows(Head(ts), Head(td)),
           NEW s, OutOK(s, ts, td), Lines(s, ts, td, r), AtUnit(s, td)
    PROVE  LET z == Append(s, LineOf(Head(ts), Head(td), r))
           IN  OutOK(z, ts, td) /\ Lines(z, ts, td, r + 1) /\ AtUnit(z, td)
<1> DEFINE t == Head(ts)
           n == Head(td)
           l == LineOf(t, n, r)
           z == Append(s, l)
           P == Past(ts, td, r)
           Q == Past(ts, td, r + 1)
<1>1. /\ t \in Tables /\ n \in Units /\ r \in Nat \ {0}
  BY Seqs DEF TablesOK, WalkOK
<1>2. RowsDiffer /\ NRows(t, n) \in Nat
  BY <1>1, Dumps
<1>3. r \in 1 .. NRows(t, n)
  BY <1>1, <1>2
<1>4. TableIn(s, Len(s)) = t /\ HasUnit(s, Len(s)) /\ UnitIn(s, Len(s)) = n
  BY DEF OutOK, AtUnit
<1>5. /\ <<t, n, r>> \notin P /\ <<t, n, r>> \in Q /\ (\A p \in P : p \in Q)
      /\ \A p \in Q : p \in P \/ p = <<t, n, r>>
  BY RowPast
<1>6. IsReport(s) /\ Sound(s, P) /\ Once(s) /\ AllShown(s, P) /\ InOrderOfClusters(s)
  BY DEF OutOK, Lines
<1>7. l.event = "row"
  BY DEF LineOf, RowLine
<1>8. Sound(z, Q) /\ Once(z) /\ AllShown(z, Q)
  <2> HIDE DEF t, n, P, Q
  <2> QED BY <1>1, <1>2, <1>3, <1>4, <1>5, <1>6, RowAdded
<1> HIDE DEF l
<1>9. OutOK(z, ts, td) /\ InOrderOfClusters(z)
  BY <1>6, <1>7, OtherLine
<1>10. AtUnit(z, td)
  <2>1. Len(z) = Len(s) + 1
    BY <1>6, ForAppended
  <2>2. HasUnit(z, Len(s) + 1) /\ UnitIn(z, Len(s) + 1) = UnitIn(s, Len(s))
    BY <1>4, <1>6, <1>7, UnderAppended DEF IsReport
  <2> QED BY <1>4, <2>1, <2>2 DEF AtUnit
<1> QED BY <1>8, <1>9, <1>10 DEF Lines, l

\* The first row with hits is behind the unit's heading.
LEMMA PrintsUnit ==
    ASSUME Ready, NEW ts, TablesOK(ts), NEW td, NEW r, WalkOK(td, r), td # <<>>,
           NEW s, OutOK(s, ts, td), Lines(s, ts, td, r)
    PROVE  LET z == Append(s, UnitLine(Head(td)))
           IN  OutOK(z, ts, td) /\ Lines(z, ts, td, r) /\ AtUnit(z, td)
<1> DEFINE n == Head(td)
           l == UnitLine(n)
           z == Append(s, l)
           m == Len(s) + 1
           P == Past(ts, td, r)
<1>1. l.event = "unit" /\ l.node = n
  BY DEF UnitLine
<1>2. /\ n = td[1] /\ n \in Units /\ DOMAIN td = 1 .. Len(td) /\ Len(td) \in Nat \ {0}
  BY Seqs DEF WalkOK
<1>3. n[1] \in Nat /\ \A a \in DOMAIN td : n[1] <= td[a][1]
  <2>1. n[1] \in Nat
    BY <1>2, Dumps
  <2>2. \A a \in DOMAIN td : a = 1 \/ n[1] <= td[a][1]
    BY <1>2 DEF WalkOK
  <2> QED BY <1>2, <2>1, <2>2
<1> HIDE DEF l, P
<1>4. Sound(z, P) /\ Once(z) /\ AllShown(z, P)
  <2>1. IsReport(s) /\ l.event # "row" /\ Sound(s, P) /\ Once(s) /\ AllShown(s, P)
    BY <1>1 DEF OutOK, Lines, P
  <2> QED BY <2>1, HeadingAdded
<1>5. /\ IsReport(z) /\ DOMAIN s = 1 .. Len(s) /\ Len(s) \in Nat \ {0}
      /\ DOMAIN z = 1 .. m /\ Len(z) = m /\ z[m] = l
      /\ \A i \in DOMAIN s : z[i] = s[i] /\ TableIn(z, i) = TableIn(s, i)
  BY ForAppended DEF OutOK
<1>6. /\ TableIn(z, m) = TableIn(s, Len(s))
      /\ HasUnit(z, m) /\ UnitIn(z, m) = n
  BY <1>1, UnderAppended DEF OutOK, IsReport
<1> HIDE DEF z, n
<1>7. \A i \in DOMAIN z : i \in DOMAIN s \/ i = m
  BY <1>5
<1>8. TableIn(z, m) = Head(ts)
  BY <1>6 DEF OutOK
<1>9. InOrderOfClusters(z)
  <2> SUFFICES ASSUME NEW i \in DOMAIN z, NEW j \in DOMAIN z, j <= i,
                      z[i].event = "unit", z[j].event = "unit",
                      TableIn(z, j) = TableIn(z, i)
               PROVE  z[j].node[1] <= z[i].node[1]
    <3>1. \A i \in DOMAIN z : z[i].event = "unit" => z[i].node[1] \in Nat
      BY <1>1, <1>3, <1>5, <1>7 DEF Lines, InOrderOfClusters
    <3> QED BY <3>1 DEF InOrderOfClusters
  <2>1. CASE i \in DOMAIN s /\ j \in DOMAIN s
    BY <1>5, <2>1 DEF Lines, InOrderOfClusters
  <2>2. CASE i = m /\ j \in DOMAIN s
    <3>1. s[j].event = "unit" /\ TableIn(s, j) = Head(ts)
      BY <1>5, <1>8, <2>2
    <3>2. s[j].node[1] <= td[1][1]
      BY <1>2, <3>1, <2>2 DEF OutOK
    <3> QED BY <1>1, <1>2, <1>5, <2>2, <3>2
  <2>3. CASE i = m /\ j = m
    BY <1>1, <1>3, <1>5, <2>3
  <2>4. ~(i \in DOMAIN s /\ j = m)
    BY <1>5
  <2> QED BY <1>7, <2>1, <2>2, <2>3, <2>4
<1>10. OutOK(z, ts, td)
  <2>1. \A i \in DOMAIN z : TableIn(z, i) \notin ToSet(Tail(ts))
    <3>1. Len(s) \in DOMAIN s
      BY <1>5
    <3> QED BY <1>5, <1>6, <1>7, <3>1 DEF OutOK
  <2>2. \A i \in DOMAIN z, a \in DOMAIN td :
          z[i].event = "unit" /\ TableIn(z, i) = Head(ts) => z[i].node[1] <= td[a][1]
    BY <1>1, <1>3, <1>5, <1>7 DEF OutOK
  <2> QED BY <1>5, <1>8, <2>1, <2>2 DEF OutOK
<1>11. AtUnit(z, td)
  BY <1>5, <1>6 DEF AtUnit, n
<1> QED BY <1>4, <1>9, <1>10, <1>11 DEF Lines, P, z, l, n

\* A row without hits is left out.
LEMMA SkipsRow ==
    ASSUME Ready, NEW ts, TablesOK(ts), NEW td, NEW r, WalkOK(td, r), td # <<>>,
           ~Shows(Head(ts), Head(td), r), NEW s, Lines(s, ts, td, r)
    PROVE  Lines(s, ts, td, r + 1)
<1> DEFINE P == Past(ts, td, r)
           Q == Past(ts, td, r + 1)
           p == <<Head(ts), Head(td), r>>
<1>1. (\A q \in P : q \in Q) /\ \A q \in Q : q \in P \/ q = p
  BY RowPast
<1>2. Sound(s, P) /\ AllShown(s, P) /\ Once(s) /\ InOrderOfClusters(s)
  BY DEF Lines
<1> HIDE DEF P, Q
<1>3. \A t \in Tables, n \in Units : \A k \in 1 .. NRows(t, n) :
         <<t, n, k>> \in Q /\ Shows(t, n, k) => <<t, n, k>> \in P
  <2> SUFFICES ASSUME NEW t \in Tables, NEW n \in Units, NEW k \in 1 .. NRows(t, n),
                      <<t, n, k>> \in Q, Shows(t, n, k), <<t, n, k>> \notin P
               PROVE  FALSE
    OBVIOUS
  <2>1. t = Head(ts) /\ n = Head(td) /\ k = r
    BY <1>1
  <2> QED BY <2>1
<1>4. Sound(s, Q) /\ AllShown(s, Q)
  <2>1. \A t \in Tables, n \in Units : NRows(t, n) \in Nat
    BY Dumps
  <2>2. options.display \subseteq Tables
    BY DEF Ready
  <2> QED BY <1>1, <1>2, <1>3, <2>1, <2>2, SamePast
<1> QED BY <1>2, <1>4 DEF Lines, Q

\* Behind its last row a unit has had all its rows.
LEMMA LeavesUnit ==
    ASSUME Ready, NEW ts, TablesOK(ts), NEW td, NEW r, WalkOK(td, r), td # <<>>,
           r > NRows(Head(ts), Head(td)),
           NEW s, OutOK(s, ts, td), Lines(s, ts, td, r)
    PROVE  WalkOK(Tail(td), 1) /\ OutOK(s, ts, Tail(td)) /\ Lines(s, ts, Tail(td), 1)
<1>1. /\ Tail(td) \in Seq(Units) /\ DOMAIN td = 1 .. Len(td) /\ Len(td) \in Nat \ {0}
      /\ DOMAIN Tail(td) = 1 .. Len(td) - 1
      /\ \A i \in 1 .. Len(td) - 1 : Tail(td)[i] = td[i + 1]
      /\ Head(td) \in Units /\ Head(ts) \in Tables /\ Distinct(Tail(td))
  BY Seqs, TailDistinct DEF WalkOK, TablesOK
<1>2. WalkOK(Tail(td), 1)
  <2>1. \A a, b \in DOMAIN Tail(td) : a < b => Tail(td)[a][1] <= Tail(td)[b][1]
    <3> SUFFICES ASSUME NEW a \in DOMAIN Tail(td), NEW b \in DOMAIN Tail(td), a < b
                 PROVE  Tail(td)[a][1] <= Tail(td)[b][1]
      OBVIOUS
    <3>1. a + 1 \in DOMAIN td /\ b + 1 \in DOMAIN td /\ a + 1 < b + 1
      BY <1>1
    <3>2. td[a + 1][1] <= td[b + 1][1]
      BY <3>1 DEF WalkOK
    <3> QED BY <1>1, <3>2
  <2> QED BY <1>1, <2>1 DEF WalkOK
<1>3. OutOK(s, ts, Tail(td))
  <2>1. \A i \in DOMAIN s, a \in DOMAIN Tail(td) :
          s[i].event = "unit" /\ TableIn(s, i) = Head(ts) => s[i].node[1] <= Tail(td)[a][1]
    <3> SUFFICES ASSUME NEW i \in DOMAIN s, NEW a \in DOMAIN Tail(td),
                        s[i].event = "unit", TableIn(s, i) = Head(ts)
                 PROVE  s[i].node[1] <= Tail(td)[a][1]
      OBVIOUS
    <3>1. a + 1 \in DOMAIN td /\ Tail(td)[a] = td[a + 1]
      BY <1>1
    <3> QED BY <3>1 DEF OutOK
  <2> QED BY <2>1 DEF OutOK
<1>4. Lines(s, ts, Tail(td), 1)
  <2> DEFINE P == Past(ts, td, r)
             Q == Past(ts, Tail(td), 1)
  <2>1. \A t \in Tables, n \in Units : NRows(t, n) \in Nat
    BY Dumps
  <2>2. \A t \in Tables, n \in Units : \A k \in 1 .. NRows(t, n) :
           <<t, n, k>> \in P <=> <<t, n, k>> \in Q
    <3> SUFFICES ASSUME NEW t \in Tables, NEW n \in Units, NEW k \in 1 .. NRows(t, n)
                 PROVE  <<t, n, k>> \in P <=> <<t, n, k>> \in Q
      OBVIOUS
    <3>1. k \in Nat \ {0}
      BY <2>1
    <3>2. <<t, n, k>> \in Q <=>
             <<t, n, k>> \in P \/ (t = Head(ts) /\ n = Head(td))
      BY <3>1, UnitPast
    <3>3. t = Head(ts) /\ n = Head(td) => <<t, n, k>> \in P
      <4> SUFFICES ASSUME t = Head(ts), n = Head(td)
                   PROVE  <<t, n, k>> \in P
        OBVIOUS
      <4>1. k < r
        <5>1. NRows(t, n) \in Nat /\ r \in Nat /\ r > NRows(t, n)
          BY <2>1 DEF WalkOK
        <5> QED BY <5>1
      <4> QED BY <3>1, <4>1, PastIs
    <3> QED BY <3>2, <3>3
  <2>3. Sound(s, P) /\ AllShown(s, P) /\ Once(s) /\ InOrderOfClusters(s)
    BY DEF Lines
  <2> HIDE DEF P, Q
  <2>4. Sound(s, Q) /\ AllShown(s, Q)
    <3>1. options.display \subseteq Tables
      BY DEF Ready
    <3> QED BY <2>1, <2>2, <2>3, <3>1, SamePast
  <2> QED BY <2>3, <2>4 DEF Lines, Q
<1> QED BY <1>2, <1>3, <1>4

\* Behind the last unit a table has had all its units.
LEMMA LeavesTable ==
    ASSUME Ready, NEW ts, TablesOK(ts), NEW r, NEW s, OutOK(s, ts, <<>>), Lines(s, ts, <<>>, r)
    PROVE  LET z == Append(s, Heading(Head(Tail(ts))))
               d == Dumped(main.topo)
           IN  /\ Tail(ts) = <<>> => Lines(s, <<>>, <<>>, 1)
               /\ Tail(ts) # <<>> => /\ TablesOK(Tail(ts)) /\ WalkOK(d, 1)
                                     /\ OutOK(z, Tail(ts), d) /\ Lines(z, Tail(ts), d, 1)
<1> DEFINE d == Dumped(main.topo)
           P == Past(ts, <<>>, r)
           Q == Past(Tail(ts), d, 1)
           R == Past(Tail(ts), <<>>, 1)
<1>1. \A t \in Tables, n \in Units : NRows(t, n) \in Nat
  BY Dumps
<1>2. ASSUME NEW t \in Tables, NEW n \in Units, NEW k \in 1 .. NRows(t, n)
      PROVE  /\ <<t, n, k>> \in P <=> <<t, n, k>> \in Q
             /\ Tail(ts) = <<>> => <<t, n, k>> \in P /\ <<t, n, k>> \in R
  <2>1. k \in Nat \ {0}
    BY <1>1
  <2> QED BY <2>1, TablePast
<1>3. Sound(s, P) /\ AllShown(s, P) /\ Once(s) /\ InOrderOfClusters(s) /\ IsReport(s)
  BY DEF Lines, OutOK
<1> HIDE DEF P, Q, R, d
<1>4. options.display \subseteq Tables
  BY DEF Ready
<1>5. ASSUME Tail(ts) = <<>>
      PROVE  Lines(s, <<>>, <<>>, 1)
  <2>1. \A t \in Tables, n \in Units : \A k \in 1 .. NRows(t, n) :
           <<t, n, k>> \in P /\ <<t, n, k>> \in R
    BY <1>2, <1>5
  <2>2. Sound(s, R) /\ AllShown(s, R)
    BY <1>1, <1>3, <1>4, <2>1, SamePast
  <2> QED BY <1>3, <1>5, <2>2 DEF Lines, R
<1>6. ASSUME Tail(ts) # <<>>
      PROVE  LET z == Append(s, Heading(Head(Tail(ts))))
             IN  /\ TablesOK(Tail(ts)) /\ WalkOK(d, 1)
                 /\ OutOK(z, Tail(ts), d) /\ Lines(z, Tail(ts), d, 1)
  <2> DEFINE t == Head(Tail(ts))
             l == Heading(t)
             z == Append(s, l)
             m == Len(s) + 1
  <2>1. /\ TablesOK(Tail(ts)) /\ t \in ToSet(Tail(ts)) /\ t \notin ToSet(Tail(Tail(ts)))
        /\ ToSet(Tail(Tail(ts))) \subseteq ToSet(Tail(ts))
    <3>1. Tail(ts) \in Seq(Tables) /\ Distinct(Tail(ts))
      BY Seqs, TailDistinct DEF TablesOK
    <3>2. TablesOK(Tail(ts))
      BY <1>6, <3>1 DEF TablesOK
    <3>3. /\ t \in ToSet(Tail(ts)) /\ t \notin ToSet(Tail(Tail(ts)))
          /\ ToSet(Tail(Tail(ts))) \subseteq ToSet(Tail(ts))
      <4> DEFINE u == Tail(ts)
      <4>1. u \in Seq(Tables) /\ u # <<>> /\ Distinct(u)
        BY <1>6, <3>1
      <4> HIDE DEF u
      <4>2. ToSet(u) = {Head(u)} \cup ToSet(Tail(u))
        BY <4>1, Seqs
      <4>3. Head(u) \notin ToSet(Tail(u))
        BY <4>1, TailDistinct
      <4> QED BY <4>2, <4>3 DEF u
    <3> QED BY <3>2, <3>3
  <2>2. WalkOK(d, 1)
    BY Dumps DEF d
  <2>3. l.event = "table" /\ l.table = t
    BY DEF Heading
  <2> HIDE DEF l, t
  <2>4. Sound(z, Q) /\ Once(z) /\ AllShown(z, Q)
    <3>1. Sound(s, Q) /\ AllShown(s, Q)
      BY <1>1, <1>2, <1>3, <1>4, SamePast
    <3> QED BY <1>3, <2>3, <3>1, HeadingAdded
  <2>5. /\ IsReport(z) /\ DOMAIN s = 1 .. Len(s) /\ Len(s) \in Nat \ {0}
        /\ DOMAIN z = 1 .. m /\ Len(z) = m /\ z[m] = l
        /\ \A i \in DOMAIN s : z[i] = s[i] /\ TableIn(z, i) = TableIn(s, i)
    BY <1>3, ForAppended
  <2>6. TableIn(z, m) = t
    BY <1>3, <2>3, UnderAppended DEF IsReport
  <2> HIDE DEF z
  <2>7. \A i \in DOMAIN z : i \in DOMAIN s \/ (i = m /\ z[i].event # "unit")
    BY <2>3, <2>5
  <2>8. InOrderOfClusters(z)
    BY <1>3, <2>5, <2>7 DEF InOrderOfClusters
  <2>9. \A i \in DOMAIN s : TableIn(z, i) \notin ToSet(Tail(ts))
    BY <2>5 DEF OutOK
  <2>10. OutOK(z, Tail(ts), d)
    <3>1. \A i \in DOMAIN z : TableIn(z, i) \notin ToSet(Tail(Tail(ts)))
      BY <2>1, <2>6, <2>7, <2>9
    <3>2. \A i \in DOMAIN z : ~(z[i].event = "unit" /\ TableIn(z, i) = t)
      BY <2>1, <2>7, <2>9
    <3> QED BY <2>5, <2>6, <3>1, <3>2 DEF OutOK, t
  <2> QED BY <2>1, <2>2, <2>4, <2>8, <2>10 DEF Lines, Q, z, l, t
<1> QED BY <1>5, <1>6 DEF d

\* The first heading has nothing above it.
LEMMA FirstLine ==
    ASSUME Ready, NEW ts, TablesOK(ts), options.display \subseteq ToSet(ts)
    PROVE  LET z == <<Heading(Head(ts))>>
               d == Dumped(main.topo)
           IN  WalkOK(d, 1) /\ OutOK(z, ts, d) /\ Lines(z, ts, d, 1)
<1> DEFINE l == Heading(Head(ts))
           z == <<l>>
           d == Dumped(main.topo)
           P == Past(ts, d, 1)
<1>1. l.event = "table" /\ l.table = Head(ts)
  BY DEF Heading
<1> HIDE DEF l
<1>2. Len(z) = 1 /\ DOMAIN z = {1} /\ z[1] = l /\ z # <<>>
  OBVIOUS
<1>3. IsReport(z)
  <2>1. z \in Seq({l})
    OBVIOUS
  <2> QED BY <1>1, <1>2, <2>1 DEF IsReport, IsSeq
<1> HIDE DEF z, P, d
<1>4. TableIn(z, 1) = Head(ts)
  <2>1. LatestIn(z, "table", 1) \in 1 .. 1
    <3>1. 1 \in 1 .. 1 /\ z[1].event = "table"
      BY <1>1, <1>2
    <3> QED BY <3>1, LatestThere
  <2>2. LatestIn(z, "table", 1) = 1
    BY <2>1
  <2> QED BY <1>1, <1>2, <2>2 DEF TableIn
<1>5. WalkOK(d, 1)
  BY Dumps DEF d
<1>6. OutOK(z, ts, d)
  <2>1. Head(ts) \notin ToSet(Tail(ts))
    BY TailDistinct DEF TablesOK
  <2> QED BY <1>1, <1>2, <1>3, <1>4, <2>1 DEF OutOK
<1>7. Sound(z, P) /\ Once(z) /\ InOrderOfClusters(z)
  BY <1>1, <1>2 DEF Sound, Once, InOrderOfClusters
<1>8. AllShown(z, P)
  <2> SUFFICES ASSUME NEW t \in options.display, NEW n \in Units, NEW k \in 1 .. NRows(t, n),
                      <<t, n, k>> \in P
               PROVE  FALSE
    BY DEF AllShown
  <2>1. t \in Tables /\ NRows(t, n) \in Nat
    BY Dumps DEF Ready
  <2>2. k \in Nat \ {0} /\ ~(k < 1) /\ n \in ToSet(d) /\ t \in ToSet(ts)
    BY <2>1 DEF Units, d
  <2> QED BY <2>1, <2>2, PastIs DEF P
<1> QED BY <1>5, <1>6, <1>7, <1>8 DEF Lines, P, z, l, d

-----------------------------------------------------------------------------
(* The steps of the report.                                                *)

\* While it is printed, what is printed stays.
LEMMA NothingElseMoves ==
    ASSUME UNCHANGED <<options, main, base, mainP, baseP, baseOf>>
    PROVE  /\ Units' = Units /\ Ready' = Ready
           /\ \A t, n : NRows(t, n)' = NRows(t, n)
           /\ \A t, n, k : LineOf(t, n, k)' = LineOf(t, n, k) /\ Shows(t, n, k)' = Shows(t, n, k)
           /\ \A td, r : WalkOK(td, r)' = WalkOK(td, r)
           /\ \A ts, td, r : Past(ts, td, r)' = Past(ts, td, r)
           /\ \A s, ts, td, r : Lines(s, ts, td, r)' = Lines(s, ts, td, r)
<1>1. Units' = Units /\ Ready' = Ready
  BY DEF Units, Ready, UnitsOK, GoodCpus, CpuIds
<1>2. \A t, n : Rows(main, mainP, t, n)' = Rows(main, mainP, t, n)
  BY DEF Rows
<1>3. \A t, n, k : BaseRow(t, n, k)' = BaseRow(t, n, k)
  BY DEF BaseRow, HasBaseline
<1>4. \A t, n : NRows(t, n)' = NRows(t, n)
  BY <1>2 DEF NRows
<1>5. \A t, n, k : LineOf(t, n, k)' = LineOf(t, n, k) /\ Shows(t, n, k)' = Shows(t, n, k)
  BY <1>2, <1>3 DEF LineOf, RowOf, TakesBaseline, Shows
<1>6. \A td, r : WalkOK(td, r)' = WalkOK(td, r)
  BY <1>1 DEF WalkOK
<1>7. \A ts, td, r : Past(ts, td, r)' = Past(ts, td, r)
  BY <1>1 DEF Past
<1>8. \A s, P : Sound(s, P)' = Sound(s, P) /\ AllShown(s, P)' = AllShown(s, P)
  BY <1>1, <1>4, <1>5 DEF Sound, AllShown, IsFor
<1>9. \A s, ts, td, r : Lines(s, ts, td, r)' = Lines(s, ts, td, r)
  BY <1>7, <1>8 DEF Lines
<1> QED BY <1>1, <1>4, <1>5, <1>6, <1>7, <1>9

LEMMA AtReport ==
    ASSUME Inv, ReportInv, phase = "report"
    PROVE  /\ Ready /\ TablesOK(tables) /\ WalkOK(todo, row) /\ OutOK(out, tables, todo)
           /\ Lines(out, tables, todo, row) /\ (headed => AtUnit(out, todo))
           /\ pending = {} /\ Assigned
<1>1. GoodCpus(main, mainP)
  BY DEF Inv, GoodTables, GoodCpus
<1>2. options.display \subseteq Tables /\ UnitsOK(main)
  BY DEF ReportInv, Going
<1>3. out # <<>>
  BY DEF ReportInv
<1> QED BY <1>1, <1>2, <1>3 DEF ReportInv, Ready

LEMMA StillPossible ==
    ASSUME ReportInv, phase \in Going \ {"check"}, options' = options
    PROVE  ReportPossible'
<1>1. ReportPossible
  BY DEF ReportInv
<1> QED BY <1>1 DEF ReportPossible, HasBaseline

LEMMA ReportGoesOn ==
    ASSUME Inv, ReportInv, phase = "report", phase' = "report",
           UNCHANGED <<optionVars, loadVars>>, pending' = {},
           TablesOK(tables'), WalkOK(todo', row'), OutOK(out', tables', todo'),
           Lines(out', tables', todo', row'), headed' => AtUnit(out', todo')
    PROVE  ReportInv'
<1>1. UNCHANGED <<options, main, base, mainP, baseP, baseOf, cpu>>
  BY DEF optionVars, loadVars, mergeVars
<1>2. WalkOK(todo, row)' /\ Lines(out, tables, todo, row)'
  BY <1>1, NothingElseMoves
<1>3. Assigned'
  BY <1>1, AtReport DEF Assigned, HasBaseline
<1>4. UnitsOK(main)' /\ UnitsOK(base)' /\ options'.display \in (SUBSET Tables) \ {{}}
  BY <1>1 DEF ReportInv, Going, UnitsOK, CpuIds
<1>6. ReportPossible'
  BY <1>1, StillPossible DEF Going
<1>5. out' # <<>> /\ IsReport(out')
  BY DEF OutOK, IsReport
<1> QED BY <1>2, <1>3, <1>4, <1>5, <1>6 DEF ReportInv

\* What a row with hits adds.
LEMMA RowPrinted ==
    ASSUME pending = {}, NEW t, NEW n, NEW k, NEW s,
           LET c == {RowOf(t, n, k)}
               b == BaseRow(t, n, k)
               h == CpuHeader(SoFar, n)
           IN  s = SingleState(IF TakesBaseline /\ b # {} THEN SetBaseline(h, b) ELSE h, c)
    PROVE  /\ s.pending = {}
           /\ s.out = Append(IF headed THEN out ELSE Append(out, UnitLine(n)), LineOf(t, n, k))
<1> DEFINE c == {RowOf(t, n, k)}
           b == BaseRow(t, n, k)
           h == CpuHeader(SoFar, n)
           o == IF headed THEN out ELSE Append(out, UnitLine(n))
           u == IF TakesBaseline /\ b # {} THEN SetBaseline(h, b) ELSE h
<1>1. h = [pending |-> {}, out |-> o]
  <2>1. SoFar = [pending |-> {}, out |-> out]
    BY DEF SoFar
  <2> QED BY <2>1 DEF CpuHeader
<1> HIDE DEF h, o
<1>2. u.out = o /\ u.pending = (IF TakesBaseline THEN b ELSE {})
  <2>1. Flush(h) = h
    BY <1>1 DEF Flush
  <2>2. SetBaseline(h, b) = [pending |-> b, out |-> o]
    BY <1>1, <2>1 DEF SetBaseline
  <2> HIDE DEF b
  <2> QED BY <1>1, <2>2
<1>3. s = SingleState(u, c)
  BY DEF h
<1> HIDE DEF u
<1>4. s.pending = {} /\ s.out = Append(u.out, RowLine(c, u.pending))
  BY <1>3 DEF SingleState
<1> QED BY <1>2, <1>4 DEF o, LineOf

LEMMA ShowRowInv == Inv /\ ReportInv /\ ShowRow => ReportInv'
<1> SUFFICES ASSUME Inv, ReportInv, ShowRow
             PROVE  ReportInv'
  OBVIOUS
<1> DEFINE t == Head(tables)
           n == Head(todo)
           l == LineOf(t, n, row)
<1>1. /\ phase = "report" /\ phase' = "report" /\ UNCHANGED <<optionVars, loadVars>>
      /\ todo # <<>> /\ row <= NRows(t, n) /\ row' = row + 1
      /\ tables' = tables /\ todo' = todo
  BY DEF ShowRow, Reporting, MainRows, NRows
<1>2. /\ Ready /\ TablesOK(tables) /\ WalkOK(todo, row) /\ OutOK(out, tables, todo)
      /\ Lines(out, tables, todo, row) /\ (headed => AtUnit(out, todo)) /\ pending = {}
  BY <1>1, AtReport
<1>3. WalkOK(todo', row')
  BY <1>1, <1>2 DEF WalkOK
<1>4. MainRows[row] = RowOf(t, n, row)
  BY DEF MainRows, RowOf
<1>5. CASE Shows(t, n, row)
  <2> DEFINE o == IF headed THEN out ELSE Append(out, UnitLine(n))
  <2>1. pending' = {} /\ out' = Append(o, l) /\ headed' = TRUE
    <3> DEFINE c == {RowOf(t, n, row)}
               b == BaseRow(t, n, row)
               h == CpuHeader(SoFar, n)
               s == SingleState(IF TakesBaseline /\ b # {} THEN SetBaseline(h, b) ELSE h, c)
    <3>1. Hits(c \cup b)
      BY <1>5 DEF Shows
    <3>2. Becomes(s) /\ headed' = TRUE
      BY <1>4, <3>1 DEF ShowRow
    <3>3. s.pending = {} /\ s.out = Append(o, l)
      BY <1>2, RowPrinted
    <3> HIDE DEF s
    <3> QED BY <3>2, <3>3 DEF Becomes
  <2>2. OutOK(o, tables, todo) /\ Lines(o, tables, todo, row) /\ AtUnit(o, todo)
    BY <1>1, <1>2, PrintsUnit
  <2> HIDE DEF o
  <2>3. LET z == Append(o, l)
        IN  OutOK(z, tables, todo) /\ Lines(z, tables, todo, row + 1) /\ AtUnit(z, todo)
    BY <1>1, <1>2, <2>2, PrintsRow
  <2> HIDE DEF l
  <2> QED BY <1>1, <1>2, <1>3, <2>1, <2>3, ReportGoesOn
<1>6. CASE ~Shows(t, n, row)
  <2>1. UNCHANGED <<pending, out, headed>>
    <3>1. ~Hits({RowOf(t, n, row)} \cup BaseRow(t, n, row))
      BY <1>6 DEF Shows
    <3> QED BY <1>4, <3>1 DEF ShowRow
  <2>2. Lines(out, tables, todo, row + 1)
    BY <1>1, <1>2, <1>6, SkipsRow
  <2> QED BY <1>1, <1>2, <1>3, <2>1, <2>2, ReportGoesOn
<1> QED BY <1>5, <1>6

LEMMA EndUnitInv == Inv /\ ReportInv /\ EndUnit => ReportInv'
<1> SUFFICES ASSUME Inv, ReportInv, EndUnit
             PROVE  ReportInv'
  OBVIOUS
<1>1. /\ phase = "report" /\ phase' = "report" /\ UNCHANGED <<optionVars, loadVars>>
      /\ todo # <<>> /\ row > NRows(Head(tables), Head(todo)) /\ row' = 1 /\ headed' = FALSE
      /\ tables' = tables /\ todo' = Tail(todo)
  BY DEF EndUnit, Reporting, MainRows, NRows
<1>2. /\ Ready /\ TablesOK(tables) /\ WalkOK(todo, row) /\ OutOK(out, tables, todo)
      /\ Lines(out, tables, todo, row) /\ pending = {}
  BY <1>1, AtReport
<1>3. pending' = {} /\ out' = out
  <2>1. Flush(SoFar) = SoFar /\ SoFar.pending = {} /\ SoFar.out = out
    BY <1>2 DEF Flush, SoFar
  <2>2. Becomes(IF headed THEN Flush(SoFar) ELSE SoFar)
    BY DEF EndUnit
  <2> QED BY <2>1, <2>2 DEF Becomes
<1>4. WalkOK(Tail(todo), 1) /\ OutOK(out, tables, Tail(todo)) /\ Lines(out, tables, Tail(todo), 1)
  BY <1>1, <1>2, LeavesUnit
<1> QED BY <1>1, <1>2, <1>3, <1>4, ReportGoesOn

LEMMA NextTableInv == Inv /\ ReportInv /\ NextTable => ReportInv'
<1> SUFFICES ASSUME Inv, ReportInv, NextTable
             PROVE  ReportInv'
  OBVIOUS
<1>1. /\ phase = "report" /\ UNCHANGED <<optionVars, loadVars>>
      /\ todo = <<>> /\ tables' = Tail(tables) /\ row' = row /\ headed' = headed
      /\ pending' = pending
  BY DEF NextTable, Reporting
<1>2. /\ Ready /\ TablesOK(tables) /\ WalkOK(<<>>, row) /\ OutOK(out, tables, <<>>)
      /\ Lines(out, tables, <<>>, row) /\ pending = {} /\ ~headed /\ Assigned
  BY <1>1, AtReport DEF AtUnit
<1>3. row = 1
  BY <1>2 DEF WalkOK
<1>4. CASE tables' # <<>>
  <2>1. /\ out' = Append(out, Heading(Head(Tail(tables))))
        /\ todo' = Dumped(main.topo) /\ phase' = "report"
    BY <1>1, <1>4 DEF NextTable
  <2>2. /\ TablesOK(tables') /\ WalkOK(todo', 1) /\ OutOK(out', tables', todo')
        /\ Lines(out', tables', todo', 1)
    BY <1>1, <1>2, <1>4, <2>1, LeavesTable
  <2> QED BY <1>1, <1>2, <1>3, <2>1, <2>2, ReportGoesOn
<1>5. CASE tables' = <<>>
  <2>1. phase' = "done" /\ out' = out /\ todo' = <<>>
    BY <1>1, <1>5 DEF NextTable
  <2>2. UNCHANGED <<options, main, base, mainP, baseP, baseOf, cpu>>
    BY <1>1 DEF optionVars, loadVars, mergeVars
  <2>3. Lines(out, tables, todo, row)'
    <3>1. Lines(out', tables', todo', row')
      BY <1>1, <1>2, <1>3, <1>5, <2>1, LeavesTable
    <3> QED BY <2>2, <3>1, NothingElseMoves
  <2>4. Assigned'
    BY <1>2, <2>2 DEF Assigned, HasBaseline
  <2>5. UnitsOK(main)' /\ UnitsOK(base)'
    BY <2>2 DEF ReportInv, UnitsOK, CpuIds
  <2>6. out' # <<>> /\ IsReport(out')
    BY <1>2, <2>1 DEF OutOK, IsReport
  <2>7. options'.display \in (SUBSET Tables) \ {{}}
    BY <1>1, <2>2 DEF ReportInv, Going
  <2>8. ReportPossible'
    BY <1>1, <2>2, StillPossible DEF Going
  <2> QED BY <1>1, <1>2, <1>3, <1>5, <2>1, <2>3, <2>4, <2>5, <2>6, <2>7, <2>8 DEF ReportInv
<1> QED BY <1>4, <1>5

\* The tables of a CPU that merge_pstates has been through.
LEMMA MergedTables ==
    ASSUME Inv, HasBaseline, Assigned, NEW c \in CpuIds(main)
    PROVE  /\ c \in CpuIds(base) /\ FreqAt(mainP[c]) = FreqAt(baseP[c])
           /\ GoodPStates(mainP[c]) /\ GoodPStates(baseP[c])
           /\ Len(mainP[c].table) = Len(baseP[c].table)
<1>1. c < cpu
  <2>1. cpu = main.nrcpus /\ main.nrcpus \in Nat
    BY DEF Assigned, Inv, GoodTrace
  <2> QED BY <2>1 DEF CpuIds
<1>2. c \in CpuIds(base) /\ Freqs(mainP[c]) = Freqs(baseP[c])
  BY <1>1 DEF Inv, LoopsAt
<1>3. GoodPStates(mainP[c]) /\ GoodPStates(baseP[c])
  BY <1>2 DEF Inv, GoodTables
<1>4. FreqAt(mainP[c]) = FreqAt(baseP[c])
  BY <1>2, <1>3, SameFreqsSameRows
<1>5. \A ps : GoodPStates(ps) => /\ Len(ps.table) \in Nat
                                 /\ DOMAIN FreqAt(ps) = 1 .. Len(ps.table)
  BY TableFacts DEF FreqAt
<1>6. Len(mainP[c].table) = Len(baseP[c].table)
  <2>1. 1 .. Len(mainP[c].table) = 1 .. Len(baseP[c].table)
    BY <1>3, <1>4, <1>5
  <2>2. Len(mainP[c].table) \in Nat /\ Len(baseP[c].table) \in Nat
    BY <1>3, <1>5
  <2> QED BY <2>1, <2>2
<1> QED BY <1>2, <1>3, <1>4, <1>6

\* What a step of the report may find behind the baseline's table.
LEMMA ShowWildRowInv == Inv /\ ReportInv /\ ShowWildRow => ReportInv'
<1> SUFFICES ASSUME Inv, ReportInv, ShowWildRow
             PROVE  ReportInv'
  OBVIOUS
<1> DEFINE n == Head(todo)
<1>1. /\ phase = "report" /\ phase' = "undefined" /\ UNCHANGED <<optionVars, loadVars, reportVars>>
      /\ todo # <<>> /\ row <= NRows(Head(tables), n) /\ BeyondBaseline(Head(tables), n, row)
  BY DEF ShowWildRow, Reporting, MainRows, NRows
<1>2. /\ Ready /\ WalkOK(todo, row) /\ OutOK(out, tables, todo)
      /\ Lines(out, tables, todo, row) /\ pending = {} /\ Assigned
  BY <1>1, AtReport
<1>3. UNCHANGED <<options, main, base, mainP, baseP, baseOf, cpu, tables, todo, row, headed,
                  pending, out>>
  BY <1>1 DEF optionVars, loadVars, mergeVars, reportVars
<1>4. n \in Nodes(main.topo)
  BY <1>1, <1>2, Dumps, Seqs DEF WalkOK
<1>5. HasBaseline /\ Head(tables) = "frequency" /\ baseOf[n] = n
  BY <1>1, <1>2, <1>4 DEF BeyondBaseline, Assigned
<1>6. GoodPStates(PstatesOf(main, mainP, n))
  BY <1>2, <1>4, UnitFacts DEF Ready
<1>7. /\ row <= Len(PstatesOf(main, mainP, n).table)
      /\ row > Len(PstatesOf(base, baseP, n).table)
  <2>1. row <= Len(PstatesOf(main, mainP, n).table)
    BY <1>1, <1>5, <1>6, FrequencyRows DEF NRows
  <2> QED BY <1>1, <1>5, <2>1 DEF BeyondBaseline
<1>8. row \in Nat
  BY <1>2 DEF WalkOK
<1>9. ASSUME Len(n) = 3
      PROVE  NothingWildRead'
  <2>1. CpuAt(main.topo, n) \in CpuIds(main)
    BY <1>2, <1>4, <1>9, UnitFacts DEF Ready
  <2>2. CpuAt(main.topo, n) # CpuAt(base.topo, n)
    <3> SUFFICES ASSUME CpuAt(main.topo, n) = CpuAt(base.topo, n)
                 PROVE  FALSE
      OBVIOUS
    <3> DEFINE c == CpuAt(main.topo, n)
    <3>1. PstatesOf(main, mainP, n) = mainP[c] /\ PstatesOf(base, baseP, n) = baseP[c]
      BY <1>9 DEF PstatesOf
    <3>2. Len(mainP[c].table) = Len(baseP[c].table) /\ GoodPStates(mainP[c])
      BY <1>2, <1>5, <2>1, MergedTables
    <3>3. Len(mainP[c].table) \in Nat
      BY <3>2, TableFacts
    <3> HIDE DEF c
    <3> QED BY <1>7, <1>8, <3>1, <3>2, <3>3
  <2> QED BY <1>1, <1>3, <1>9, <2>2 DEF NothingWildRead
<1>10. ASSUME Len(n) # 3
       PROVE  NothingWildRead'
  <2>1. PstatesOf(main, mainP, n) = main.groupP[n] /\ PstatesOf(base, baseP, n) = base.groupP[n]
    BY <1>10 DEF PstatesOf
  <2>2. GoodPStates(PstatesOf(base, baseP, n))
    <3>1. GoodCpus(base, baseP) /\ UnitsOK(base)
      BY DEF Inv, GoodTables, GoodCpus, ReportInv
    <3>2. n \in Nodes(base.topo)
      BY <1>2, <1>4, <1>5 DEF Assigned
    <3> QED BY <3>1, <3>2, UnitFacts
  <2>3. Len(main.groupP[n].table) \in Nat /\ Len(base.groupP[n].table) \in Nat
    BY <1>6, <2>1, <2>2, TableFacts
  <2>4. Len(base.groupP[n].table) < Len(main.groupP[n].table)
    BY <1>7, <1>8, <2>1, <2>3
  <2> QED BY <1>1, <1>3, <1>10, <2>4 DEF NothingWildRead
<1>11. NothingWildRead'
  BY <1>9, <1>10
<1>12. Lines(out, tables, todo, row)'
  BY <1>2, <1>3, NothingElseMoves
<1>13. Assigned' /\ UnitsOK(main)' /\ UnitsOK(base)'
  BY <1>2, <1>3 DEF Assigned, HasBaseline, ReportInv, UnitsOK, CpuIds
<1>14. out' # <<>> /\ IsReport(out') /\ pending' = {}
  BY <1>2, <1>3 DEF OutOK, IsReport
<1> QED BY <1>1, <1>11, <1>12, <1>13, <1>14 DEF ReportInv, Going

\* One more table, if it was asked for.
LEMMA OneMoreTable ==
    ASSUME NEW s \in Seq(Tables), Distinct(s), NEW t \in Tables, t \notin ToSet(s)
    PROVE  LET z == s \o AskedFor(t)
           IN  /\ z \in Seq(Tables) /\ Distinct(z)
               /\ ToSet(z) = ToSet(s) \cup ({t} \cap options.display)
<1> DEFINE z == s \o AskedFor(t)
<1>1. CASE t \notin options.display
  <2>1. AskedFor(t) = <<>>
    BY <1>1 DEF AskedFor
  <2>2. z = s
    BY <2>1
  <2>3. {t} \cap options.display = {}
    BY <1>1
  <2> HIDE DEF z
  <2>4. ToSet(z) = ToSet(s) \cup ({t} \cap options.display)
    BY <2>2, <2>3
  <2> QED BY <2>2, <2>4 DEF z
<1>2. CASE t \in options.display
  <2>1. AskedFor(t) = <<t>>
    BY <1>2 DEF AskedFor
  <2>2. /\ z \in Seq(Tables) /\ Len(s) \in Nat /\ DOMAIN s = 1 .. Len(s)
        /\ DOMAIN z = 1 .. Len(s) + 1 /\ z[Len(s) + 1] = t
        /\ \A i \in 1 .. Len(s) : z[i] = s[i]
    BY <2>1
  <2> HIDE DEF z
  <2>3. \A i \in DOMAIN s : s[i] # t
    BY DEF ToSet
  <2>4. Distinct(z)
    <3> SUFFICES ASSUME NEW a \in DOMAIN z, NEW b \in DOMAIN z, z[a] = z[b]
                 PROVE  a = b
      BY DEF Distinct
    <3>1. a \in DOMAIN s \/ a = Len(s) + 1
      BY <2>2
    <3>2. b \in DOMAIN s \/ b = Len(s) + 1
      BY <2>2
    <3> QED BY <2>2, <2>3, <3>1, <3>2 DEF Distinct
  <2>5. ToSet(z) = ToSet(s) \cup {t}
    <3>1. ASSUME NEW x \in ToSet(z)
          PROVE  x \in ToSet(s) \cup {t}
      BY <2>2 DEF ToSet
    <3>2. ASSUME NEW x \in ToSet(s)
          PROVE  x \in ToSet(z)
      BY <2>2 DEF ToSet
    <3>3. t \in ToSet(z)
      <4>1. Len(s) + 1 \in DOMAIN z
        BY <2>2
      <4> QED BY <2>2, <4>1 DEF ToSet
    <3> QED BY <3>1, <3>2, <3>3
  <2> QED BY <1>2, <2>2, <2>4, <2>5 DEF z
<1> QED BY <1>1, <1>2

LEMMA AskedTables ==
    ASSUME options.display \in (SUBSET Tables) \ {{}}
    PROVE  LET ts == AskedFor("idle") \o AskedFor("frequency") \o AskedFor("wakeup")
           IN  TablesOK(ts) /\ options.display \subseteq ToSet(ts)
<1> DEFINE a == <<>> \o AskedFor("idle")
           b == a \o AskedFor("frequency")
           c == b \o AskedFor("wakeup")
<1>1. <<>> \in Seq(Tables) /\ Distinct(<<>>) /\ ToSet(<<>>) = {}
  BY DEF Distinct, ToSet
<1>2. /\ "idle" \in Tables /\ "frequency" \in Tables /\ "wakeup" \in Tables
      /\ "idle" # "frequency" /\ "idle" # "wakeup" /\ "frequency" # "wakeup"
  BY DEF Tables
<1>3. /\ a \in Seq(Tables) /\ Distinct(a)
      /\ ToSet(a) = {} \cup ({"idle"} \cap options.display)
  BY <1>1, <1>2, OneMoreTable
<1> HIDE DEF a
<1>4. /\ b \in Seq(Tables) /\ Distinct(b)
      /\ ToSet(b) = ToSet(a) \cup ({"frequency"} \cap options.display)
  BY <1>2, <1>3, OneMoreTable
<1> HIDE DEF b
<1>5. /\ c \in Seq(Tables) /\ Distinct(c)
      /\ ToSet(c) = ToSet(b) \cup ({"wakeup"} \cap options.display)
  BY <1>2, <1>3, <1>4, OneMoreTable
<1> HIDE DEF c
<1>6. options.display \subseteq ToSet(c)
  BY <1>3, <1>4, <1>5 DEF Tables
<1>7. c # <<>>
  <2>1. ToSet(c) # {}
    BY <1>6
  <2> QED BY <1>1, <2>1
<1>8. c = AskedFor("idle") \o AskedFor("frequency") \o AskedFor("wakeup")
  <2>1. AskedFor("idle") \in Seq(Tables)
    BY <1>2 DEF AskedFor
  <2>2. a = AskedFor("idle")
    BY <2>1 DEF a
  <2> QED BY <2>2 DEF b, c
<1> QED BY <1>5, <1>6, <1>7, <1>8 DEF TablesOK

LEMMA OpenReportInv == Inv /\ ReportInv /\ OpenReport => ReportInv'
<1> SUFFICES ASSUME Inv, ReportInv, OpenReport
             PROVE  ReportInv'
  OBVIOUS
<1>1. /\ phase = "open" /\ UNCHANGED <<optionVars, loadVars>>
      /\ UNCHANGED <<options, main, base, mainP, baseP, baseOf, cpu>>
  BY DEF OpenReport, optionVars, loadVars, mergeVars
<1>2. /\ out = <<>> /\ todo = <<>> /\ row = 1 /\ ~headed /\ pending = {} /\ Assigned
      /\ UnitsOK(main) /\ UnitsOK(base) /\ options.display \in (SUBSET Tables) \ {{}}
  BY <1>1 DEF ReportInv, Going
<1>3. UnitsOK(main)' /\ UnitsOK(base)' /\ Assigned'
  BY <1>1, <1>2 DEF UnitsOK, CpuIds, Assigned, HasBaseline
<1>6. ReportPossible'
  BY <1>1, StillPossible DEF Going
<1>4. CASE phase' = "failed" /\ UNCHANGED reportVars
  BY <1>2, <1>3, <1>4 DEF ReportInv, Going, reportVars
<1>5. CASE phase' = "report"
  <2> DEFINE ts == AskedFor("idle") \o AskedFor("frequency") \o AskedFor("wakeup")
  <2>1. /\ tables' = ts /\ out' = <<Heading(Head(tables'))>> /\ todo' = Dumped(main.topo)
        /\ UNCHANGED <<row, headed, pending>>
    BY <1>5 DEF OpenReport
  <2>2. TablesOK(ts) /\ options.display \subseteq ToSet(ts)
    BY <1>2, AskedTables
  <2> HIDE DEF ts
  <2>3. Ready
    BY <1>2 DEF Ready, Inv, GoodTables, GoodCpus
  <2>4. /\ WalkOK(todo', row') /\ OutOK(out', tables', todo')
        /\ Lines(out', tables', todo', row')
    BY <1>2, <2>1, <2>2, <2>3, FirstLine
  <2>5. WalkOK(todo, row)' /\ Lines(out, tables, todo, row)'
    BY <1>1, <2>4, NothingElseMoves
  <2>6. out' # <<>> /\ IsReport(out')
    BY <2>4 DEF OutOK, IsReport
  <2>7. options'.display \in (SUBSET Tables) \ {{}}
    BY <1>1, <1>2
  <2> QED BY <1>2, <1>3, <1>5, <1>6, <2>1, <2>2, <2>4, <2>5, <2>6, <2>7 DEF ReportInv
<1> QED BY <1>4, <1>5 DEF OpenReport

-----------------------------------------------------------------------------
(* The steps before the report.                                            *)

LEMMA BeforeReport ==
    ASSUME ReportInv, phase \notin {"report", "undefined", "done"},
           phase' \notin {"report", "done"}, UNCHANGED reportVars,
           UnitsOK(main)', UnitsOK(base)',
           phase' \in Going => options'.display \in (SUBSET Tables) \ {{}},
           phase' \in Going \ {"check"} => ReportPossible',
           phase' = "assign" => cpu' = main'.nrcpus,
           phase' = "open" => Assigned', phase' = "undefined" => NothingWildRead'
    PROVE  ReportInv'
<1>1. /\ pending' = {} /\ out' = <<>> /\ todo' = <<>> /\ row' = 1 /\ headed' = FALSE
  BY DEF ReportInv, reportVars
<1> QED BY <1>1 DEF ReportInv

\* The options say which tables are asked for, and there is one.
LEMMA SomethingAsked ==
    ASSUME OptionsInv', phase' = "check"
    PROVE  options'.display \in (SUBSET Tables) \ {{}}
<1> DEFINE asked == {i \in DOMAIN words' : words'[i].opt \in Tables}
<1>1. options' = Meaning'
  BY DEF OptionsInv, OptionsAsGiven
<1>2. options'.display = IF asked = {} THEN {"idle"} ELSE {words'[i].opt : i \in asked}
  BY <1>1 DEF Meaning, WordsOf
<1>3. \A i \in asked : words'[i].opt \in Tables
  OBVIOUS
<1> HIDE DEF asked
<1> QED BY <1>2, <1>3 DEF Tables

LEMMA LoadInv ==
    ASSUME Inv, ReportInv, OptionsInv', BaselineNext, UNCHANGED reportVars
    PROVE  ReportInv'
<1>1. CASE ReadOptions /\ UNCHANGED loadVars
  <2>1. phase = "options" /\ phase' \in {"options", "quit", "refused", "check"}
    BY <1>1 DEF ReadOptions, ReadWord, ReadTable, ReadStyle, ReadSetting, EndOfOptions,
                SetOption, EndWith
  <2>2. phase' = "check" => options'.display \in (SUBSET Tables) \ {{}}
    BY SomethingAsked
  <2>3. UnitsOK(main)' /\ UnitsOK(base)'
    BY <1>1 DEF loadVars, ReportInv, UnitsOK, CpuIds
  <2> QED BY <2>1, <2>2, <2>3, BeforeReport DEF Going
<1>2. CASE CheckReport
  <2>1. phase = "check" /\ phase' \in {"load", "failed"} /\ UNCHANGED <<options, main, base>>
    BY <1>2 DEF CheckReport, loadVars
  <2>2. UnitsOK(main)' /\ UnitsOK(base)' /\ options'.display \in (SUBSET Tables) \ {{}}
    BY <2>1 DEF ReportInv, UnitsOK, CpuIds, Going
  <2>3. phase' = "load" => ReportPossible'
    BY <1>2, <2>1 DEF CheckReport, ReportPossible, HasBaseline
  <2> QED BY <2>1, <2>2, <2>3, BeforeReport DEF Going
<1>3. CASE LoadMain
  <2>1. /\ phase = "load" /\ phase' \in {"failed", "load baseline", "open"}
        /\ options' = options /\ base' = base
        /\ phase' = "open" => ~HasBaseline
    BY <1>3 DEF LoadMain, optionVars
  <2>2. UnitsOK(main)' /\ UnitsOK(base)' /\ options'.display \in (SUBSET Tables) \ {{}}
    <3>1. main' = main \/ main' \in Traces
      BY <1>3 DEF LoadMain
    <3>2. UnitsOK(main')
      BY <3>1, TracesAssumption DEF ReportInv
    <3> QED BY <2>1, <3>2 DEF ReportInv, UnitsOK, CpuIds, Going
  <2>3. phase' = "open" => Assigned'
    BY <2>1 DEF Assigned, HasBaseline
  <2>4. ReportPossible'
    BY <2>1, StillPossible DEF Going
  <2> QED BY <2>1, <2>2, <2>3, <2>4, BeforeReport
<1>4. CASE LoadBaseline
  <2>1. /\ phase = "load baseline" /\ phase' \in {"aborted", "merge"}
        /\ options' = options /\ main' = main
    BY <1>4 DEF LoadBaseline, optionVars
  <2>2. UnitsOK(main)' /\ UnitsOK(base)' /\ options'.display \in (SUBSET Tables) \ {{}}
    <3>1. base' = base \/ base' \in Traces
      BY <1>4 DEF LoadBaseline
    <3>2. UnitsOK(base')
      BY <3>1, TracesAssumption DEF ReportInv
    <3> QED BY <2>1, <3>2 DEF ReportInv, UnitsOK, CpuIds, Going
  <2>3. ReportPossible'
    BY <2>1, StillPossible DEF Going
  <2> QED BY <2>1, <2>2, <2>3, BeforeReport
<1>5. CASE Merge
  <2>1. /\ phase = "merge" /\ phase' \in {"merge", "undefined", "assign"}
        /\ UNCHANGED <<options, main, base>>
        /\ phase' = "undefined" => cpu < main.nrcpus /\ cpu >= base.nrcpus
        /\ phase' = "assign" => cpu' = cpu /\ cpu = main.nrcpus
    BY <1>5 DEF Merge, Merging, MergePastBaseline, MergeIntoBaseline, MergeTurn, MergeIntoMain,
                MergeNextCpu, MergeDone, optionVars, loadVars, mergeVars
  <2>2. UnitsOK(main)' /\ UnitsOK(base)' /\ options'.display \in (SUBSET Tables) \ {{}}
    BY <2>1 DEF ReportInv, UnitsOK, CpuIds, Going
  <2>3. phase' = "undefined" => NothingWildRead'
    <3>1. cpu \in Nat /\ main.nrcpus \in Nat /\ base.nrcpus \in Nat
      BY DEF Inv, LoopsAt, GoodTrace
    <3>2. todo' = <<>>
      BY <2>1 DEF ReportInv, reportVars
    <3>3. phase' = "undefined" => base.nrcpus < main.nrcpus
      BY <2>1, <3>1
    <3> QED BY <2>1, <3>2, <3>3 DEF NothingWildRead
  <2>4. ReportPossible'
    BY <2>1, StillPossible DEF Going
  <2> QED BY <2>1, <2>2, <2>3, <2>4, BeforeReport
<1>6. CASE AssignBaseline
  <2>1. /\ phase = "assign" /\ phase' \in {"open", "undefined"}
        /\ UNCHANGED <<options, main, base, cpu>>
        /\ phase' = "open" => /\ Nodes(main.topo) \subseteq Nodes(base.topo)
                              /\ baseOf' = [n \in Nodes(main.topo) |-> n]
        /\ phase' = "undefined" => ~(Nodes(main.topo) \subseteq Nodes(base.topo))
    BY <1>6 DEF AssignBaseline, optionVars, mergeVars, Counterpart
  <2>2. UnitsOK(main)' /\ UnitsOK(base)' /\ options'.display \in (SUBSET Tables) \ {{}}
    BY <2>1 DEF ReportInv, UnitsOK, CpuIds, Going
  <2>3. phase' = "open" => Assigned'
    BY <2>1 DEF Assigned, HasBaseline, ReportInv
  <2>4. phase' = "undefined" => NothingWildRead'
    <3>1. todo' = <<>>
      BY <2>1 DEF ReportInv, reportVars
    <3> QED BY <2>1, <3>1 DEF NothingWildRead
  <2>5. ReportPossible'
    BY <2>1, StillPossible DEF Going
  <2> QED BY <2>1, <2>2, <2>3, <2>4, <2>5, BeforeReport
<1> QED BY <1>1, <1>2, <1>3, <1>4, <1>5, <1>6 DEF BaselineNext

LEMMA InitReportInv == Init => ReportInv
<1> SUFFICES ASSUME Init
             PROVE  ReportInv
  OBVIOUS
<1>1. /\ main = NoTrace /\ base = NoTrace /\ phase = "options" /\ pending = {} /\ out = <<>>
      /\ todo = <<>> /\ row = 1 /\ headed = FALSE
  BY DEF Init, OptionsInit, BaselineInit, ReportInit
<1>2. UnitsOK(NoTrace)
  <2> DEFINE topo == NoTrace.topo
  <2>1. topo.clusters = <<>> /\ topo = [clusters |-> <<>>, online |-> {}]
    BY DEF NoTrace, EmptyTopo
  <2>2. topo \in TopoType
    BY <2>1 DEF TopoType
  <2>3. ClusterNodes(topo) = {} /\ CoreNodes(topo) = {}
    BY <2>1 DEF ClusterNodes, CoreNodes
  <2>4. CpuNodes(topo) = {}
    BY <2>3 DEF CpuNodes
  <2> QED BY <2>2, <2>3, <2>4 DEF UnitsOK
<1> QED BY <1>1, <1>2 DEF ReportInv, Going

LEMMA ReportNextInv == Inv /\ ReportInv /\ OptionsInv' /\ [Next]_vars => ReportInv'
<1> SUFFICES ASSUME Inv, ReportInv, OptionsInv', [Next]_vars
             PROVE  ReportInv'
  OBVIOUS
<1>1. CASE BaselineNext /\ UNCHANGED reportVars
  BY <1>1, LoadInv
<1>2. CASE UNCHANGED vars
  <2>1. UNCHANGED <<phase, options, main, base, mainP, baseP, baseOf, cpu>> /\ UNCHANGED reportVars
    BY <1>2 DEF vars, optionVars, loadVars, mergeVars
  <2>2. UNCHANGED <<tables, todo, row, headed, pending, out>>
    BY <2>1 DEF reportVars
  <2>3. /\ WalkOK(todo, row)' = WalkOK(todo, row)
        /\ Lines(out, tables, todo, row)' = Lines(out, tables, todo, row)
    BY <2>1, <2>2, NothingElseMoves
  <2>4. Assigned' = Assigned /\ UnitsOK(main)' = UnitsOK(main) /\ UnitsOK(base)' = UnitsOK(base)
    BY <2>1 DEF Assigned, HasBaseline, UnitsOK, CpuIds
  <2>5. NothingWildRead' = NothingWildRead
    BY <2>1, <2>2 DEF NothingWildRead
  <2>6. ReportPossible' = ReportPossible
    BY <2>1 DEF ReportPossible, HasBaseline
  <2> QED BY <2>1, <2>2, <2>3, <2>4, <2>5, <2>6 DEF ReportInv
<1> QED BY <1>1, <1>2, OpenReportInv, ShowRowInv, ShowWildRowInv, EndUnitInv, NextTableInv
        DEF Next

LEMMA ReportsInvariance == Spec => []ReportInv
<1>1. Init /\ [][Next]_vars => []Inv
  BY ReportInvariance DEF Spec
<1>2. Init /\ [][Next]_vars => []OptionsInv
  BY OptionsInitInv, OptionsNextInv, PTL
<1> QED BY <1>1, <1>2, InitReportInv, ReportNextInv, PTL DEF Spec

(* Whatever is read beside a row of a loaded trace is a row of the         *)
(* baseline, for any two traces, but for the cases it names.               *)
THEOREM WildReadsAreThese == Spec => []NothingWildRead
<1>1. ReportInv => NothingWildRead
  BY DEF ReportInv, NothingWildRead
<1> QED BY <1>1, ReportsInvariance, PTL

-----------------------------------------------------------------------------
(* What is printed: the theorems.                                          *)

LEMMA PrintedFacts ==
    ASSUME Inv, ReportInv
    PROVE  /\ UnitsOK(main) /\ UnitsOK(base)
           /\ GoodCpus(main, mainP) /\ GoodCpus(base, baseP)
           /\ Units \subseteq Nodes(main.topo)
           /\ out # <<>> => Assigned /\ Lines(out, tables, todo, row)
<1>1. UnitsOK(main) /\ UnitsOK(base) /\ GoodCpus(main, mainP) /\ GoodCpus(base, baseP)
  BY DEF Inv, GoodTables, GoodCpus, ReportInv
<1>2. Units \subseteq Nodes(main.topo)
  <2>1. Dumped(main.topo) \in Seq(Nodes(main.topo))
    BY <1>1, DumpedFacts DEF UnitsOK
  <2> QED BY <2>1 DEF Units, ToSet
<1> QED BY <1>1, <1>2 DEF ReportInv

\* The counterpart of a unit is the unit in the same place.
LEMMA BaseRows ==
    ASSUME Inv, ReportInv, HasBaseline, Assigned, NEW n \in Units, NEW k
    PROVE  /\ n \in Nodes(base.topo)
           /\ GoodPStates(PstatesOf(base, baseP, n)) /\ CstatesOf(base, n) \in CStatesType
           /\ BaseRow("idle", n, k) = {CstateRow(base, n, k)}
           /\ BaseRow("wakeup", n, k) = {}
           /\ BaseRow("frequency", n, k) =
                 IF k \in DOMAIN PstatesOf(base, baseP, n).table
                 THEN {PstateRow(base, baseP, n, k)} ELSE {}
<1>1. n \in Nodes(main.topo)
  BY PrintedFacts
<1>2. n \in Nodes(base.topo) /\ baseOf[n] = n
  BY <1>1 DEF Assigned
<1>3. GoodPStates(PstatesOf(base, baseP, n)) /\ CstatesOf(base, n) \in CStatesType
  BY <1>2, PrintedFacts, UnitFacts
<1>4. BaseRow("idle", n, k) = {CstateRow(base, n, k)}
  BY <1>2 DEF BaseRow
<1>5. BaseRow("wakeup", n, k) = {}
  BY DEF BaseRow
<1>6. BaseRow("frequency", n, k) =
                 IF k \in DOMAIN PstatesOf(base, baseP, n).table
                 THEN {PstateRow(base, baseP, n, k)} ELSE {}
  BY <1>2 DEF BaseRow
<1> QED BY <1>2, <1>3, <1>4, <1>5, <1>6

\* In the same tree the same place is the same unit.
LEMMA SamePlace ==
    ASSUME NEW a, NEW b, SameTree(a, b), NEW n \in Nodes(a)
    PROVE  UnitId(a, n) = UnitId(b, n) /\ (Len(n) = 3 => CpuAt(a, n) = CpuAt(b, n))
<1>1. n[1] \in DOMAIN a.clusters
  <2>1. CASE n \in ClusterNodes(a)
    <3>1. PICK k \in DOMAIN a.clusters : n = <<k>>
      BY <2>1 DEF ClusterNodes
    <3>2. <<k>>[1] = k
      BY NodeParts
    <3> QED BY <3>1, <3>2
  <2>2. ASSUME NEW m \in CoreNodes(a)
        PROVE  m[1] \in DOMAIN a.clusters
    <3>1. PICK k \in DOMAIN a.clusters : m \in {<<k, o>> : o \in DOMAIN a.clusters[k].cores}
      BY <2>2 DEF CoreNodes
    <3>2. PICK o : m = <<k, o>>
      BY <3>1
    <3>3. <<k, o>>[1] = k
      BY NodeParts
    <3> QED BY <3>2, <3>3
  <2>3. CASE n \in CpuNodes(a)
    <3>1. PICK m \in CoreNodes(a) : n \in {<<m[1], m[2], i>> : i \in DOMAIN CpuList(a, m)}
      BY <2>3 DEF CpuNodes
    <3>2. PICK i : n = <<m[1], m[2], i>>
      BY <3>1
    <3>3. <<m[1], m[2], i>>[1] = m[1]
      BY NodeParts
    <3> QED BY <2>2, <3>2, <3>3
  <2> QED BY <2>1, <2>2, <2>3 DEF Nodes
<1>2. /\ a.clusters[n[1]].id = b.clusters[n[1]].id
      /\ a.clusters[n[1]].cores = b.clusters[n[1]].cores
  BY <1>1 DEF SameTree
<1>3. CpuAt(a, n) = CpuAt(b, n)
  BY <1>2 DEF CpuAt, CpuList
<1> QED BY <1>2, <1>3 DEF UnitId

LEMMA NodeLength ==
    ASSUME NEW topo, NEW n \in Nodes(topo)
    PROVE  Len(n) = 3 \/ Len(n) < 3
<1>1. CASE n \in ClusterNodes(topo)
  <2>1. PICK k : n = <<k>>
    BY <1>1 DEF ClusterNodes
  <2> QED BY <2>1, NodeParts
<1>2. CASE n \in CoreNodes(topo)
  <2>1. PICK k, o : n = <<k, o>>
    BY <1>2 DEF CoreNodes
  <2> QED BY <2>1, NodeParts
<1>3. CASE n \in CpuNodes(topo)
  <2>1. PICK k, o, i : n = <<k, o, i>>
    BY <1>3 DEF CpuNodes
  <2> QED BY <2>1, NodeParts
<1> QED BY <1>1, <1>2, <1>3 DEF Nodes

LEMMA TableAtIs ==
    ASSUME NEW i
    PROVE  TableAt(i) = TableIn(out, i) /\ UnitAt(i) = UnitIn(out, i)
BY DEF TableAt, UnitAt, TableIn, UnitIn, LatestIn, IsA

(* In the report of any two traces of the same machine, a row stands       *)
(* beside the same state of the same unit.                                 *)
THEOREM MachineComparedWithItself == Spec => []ComparedWithItself
<1>1. Inv /\ ReportInv => ComparedWithItself
  <2> SUFFICES ASSUME Inv, ReportInv, HasBaseline, SameTree(main.topo, base.topo),
                      NEW i \in DOMAIN out, IsA(i, "row"),
                      NEW c \in out[i].row, NEW b \in out[i].base
               PROVE  /\ UnitId(main.topo, c.node) = UnitId(base.topo, b.node)
                      /\ TableAt(i) = "idle" \/ SameGroupFreqs(c.node) => c.name = b.name
    BY DEF ComparedWithItself
  <2>1. out # <<>>
    OBVIOUS
  <2>2. Assigned /\ Sound(out, Past(tables, todo, row))
    BY <2>1, PrintedFacts DEF Lines
  <2>3. PICK t \in Tables, n \in Units : \E k \in 1 .. NRows(t, n) : IsFor(out, i, t, n, k)
    BY <2>2 DEF Sound, IsA
  <2>4. PICK k \in 1 .. NRows(t, n) : IsFor(out, i, t, n, k)
    BY <2>3
  <2>5. TableAt(i) = t /\ out[i] = LineOf(t, n, k)
    BY <2>4, TableAtIs DEF IsFor
  <2>6. c = RowOf(t, n, k) /\ b \in BaseRow(t, n, k)
    BY <2>5 DEF LineOf, RowLine
  <2>7. n \in Nodes(main.topo) /\ UnitsOK(main) /\ GoodCpus(main, mainP)
    BY PrintedFacts
  <2>8. /\ GoodPStates(PstatesOf(main, mainP, n)) /\ CstatesOf(main, n) \in CStatesType
        /\ Len(n) = 3 => CpuAt(main.topo, n) \in CpuIds(main)
    BY <2>7, UnitFacts
  <2>9. UnitId(main.topo, n) = UnitId(base.topo, n)
    BY <2>7, SamePlace
  <2>10. CASE t = "idle"
    <3>1. c.node = n /\ c.name = k - 1
      BY <2>6, <2>8, <2>10, IdleRows DEF RowOf, NRows
    <3>2. b = CstateRow(base, n, k)
      BY <2>2, <2>6, <2>10, BaseRows
    <3>3. b.node = n /\ b.name = k - 1
      BY <3>2 DEF CstateRow
    <3> QED BY <2>9, <3>1, <3>3
  <2>11. CASE t = "frequency"
    <3> DEFINE p == PstatesOf(main, mainP, n)
               q == PstatesOf(base, baseP, n)
    <3>1. c.node = n /\ c.name = p.table[k].freq /\ k \in DOMAIN p.table
      BY <2>6, <2>8, <2>11, FrequencyRows DEF RowOf, NRows
    <3>2. k \in DOMAIN q.table /\ b = PstateRow(base, baseP, n, k)
      BY <2>2, <2>6, <2>11, BaseRows
    <3>3. b.node = n /\ b.name = q.table[k].freq
      BY <3>2 DEF PstateRow
    <3>4. ASSUME SameGroupFreqs(n)
          PROVE  FreqAt(p) = FreqAt(q)
      <4>1. CASE Len(n) = 3
        <5>1. CpuAt(main.topo, n) = CpuAt(base.topo, n) /\ CpuAt(main.topo, n) \in CpuIds(main)
          BY <2>7, <2>8, <4>1, SamePlace
        <5>2. p = mainP[CpuAt(main.topo, n)] /\ q = baseP[CpuAt(main.topo, n)]
          BY <4>1, <5>1 DEF PstatesOf
        <5> QED BY <2>2, <5>1, <5>2, MergedTables
      <4>2. CASE Len(n) # 3
        <5>1. Len(n) < 3
          <6>1. n \in Nodes(main.topo)
            BY <2>7
          <6>2. Len(n) = 3 \/ Len(n) < 3
            BY <6>1, NodeLength
          <6> QED BY <4>2, <6>2, Zenon
        <5>2. p = main.groupP[n] /\ q = base.groupP[n]
          BY <4>2 DEF PstatesOf
        <5> QED BY <3>4, <5>1, <5>2 DEF SameGroupFreqs
      <4> QED BY <4>1, <4>2
    <3>5. FreqAt(p)[k] = p.table[k].freq /\ FreqAt(q)[k] = q.table[k].freq
      BY <3>1, <3>2 DEF FreqAt
    <3>6. SameGroupFreqs(n) => c.name = b.name
      BY <3>1, <3>3, <3>4, <3>5
    <3> QED BY <2>5, <2>9, <2>11, <3>1, <3>3, <3>6
  <2>12. CASE t = "wakeup"
    BY <2>2, <2>6, <2>12, BaseRows
  <2> QED BY <2>10, <2>11, <2>12 DEF Tables
<1> QED BY <1>1, ReportInvariance, ReportsInvariance, PTL

LEMMA StatAtRow ==
    ASSUME NEW ps, GoodPStates(ps), NEW i \in DOMAIN ps.table
    PROVE  /\ ps.table[i].freq \in Freqs(ps)
           /\ StatOf(ps, ps.table[i].freq) = ps.table[i].st
<1> DEFINE f == ps.table[i].freq
           at == CHOOSE j \in DOMAIN ps.table : ps.table[j].freq = f
<1>1. /\ DOMAIN ps.table = 1 .. Len(ps.table) /\ Len(ps.table) \in Nat
      /\ \A j \in 1 .. Len(ps.table) : ps.table[j].freq \in Nat
      /\ \A j, k \in 1 .. Len(ps.table) : j < k => ps.table[j].freq < ps.table[k].freq
  BY TableFacts
<1>2. f \in Freqs(ps)
  BY DEF Freqs
<1>3. at \in DOMAIN ps.table /\ ps.table[at].freq = f
  <2>1. \E j \in DOMAIN ps.table : ps.table[j].freq = f
    OBVIOUS
  <2> QED BY <2>1, Zenon
<1> HIDE DEF at
<1>4. at = i
  <2>1. ~(at < i) /\ ~(i < at)
    BY <1>1, <1>3
  <2> QED BY <1>1, <1>3, <2>1
<1>5. StatOf(ps, f) = ps.table[at].st
  BY <1>2, Zenon DEF StatOf, at
<1> QED BY <1>2, <1>4, <1>5

LEMMA RowDomain ==
    ASSUME NEW trace, NEW ps, NEW n, NEW t \in Tables,
           GoodPStates(PstatesOf(trace, ps, n)), CstatesOf(trace, n) \in CStatesType,
           OneEntryPerIrq(IrqsOf(trace, n))
    PROVE  DOMAIN Rows(trace, ps, t, n) = 1 .. Len(Rows(trace, ps, t, n))
<1>2. CASE t = "idle"
  <2> DEFINE m == CstatesOf(trace, n).max + 1
  <2>1. m \in Nat
    BY NStatesAssumption DEF CStatesType, State
  <2>2. Rows(trace, ps, t, n) = [k \in 1 .. m |-> CstateRow(trace, n, k)]
    BY <1>2 DEF Rows
  <2> HIDE DEF m
  <2> QED BY <2>1, <2>2
<1>3. CASE t = "frequency"
  <2> DEFINE table == PstatesOf(trace, ps, n).table
  <2>1. Len(table) \in Nat /\ DOMAIN table = 1 .. Len(table)
    BY TableFacts
  <2>2. Rows(trace, ps, t, n) = [k \in DOMAIN table |-> PstateRow(trace, ps, n, k)]
    BY <1>3 DEF Rows
  <2> HIDE DEF table
  <2> QED BY <2>1, <2>2
<1>4. CASE t = "wakeup"
  <2> DEFINE irqs == IrqsOf(trace, n)
  <2>1. Len(irqs) \in Nat /\ DOMAIN irqs = 1 .. Len(irqs)
    <3>1. irqs \in Seq(IrqEntry)
      BY DEF OneEntryPerIrq
    <3> HIDE DEF irqs
    <3> QED BY <3>1
  <2>2. Rows(trace, ps, t, n) = [k \in DOMAIN irqs |-> IrqRow(trace, n, k)]
    BY <1>4 DEF Rows
  <2> HIDE DEF irqs
  <2> QED BY <2>1, <2>2
<1> QED BY <1>2, <1>3, <1>4 DEF Tables

\* What was measured at a loaded unit is in its row of the merged table.
RowsKept(trace, ps, t, n) ==
    \A r \in ToSet(Rows(trace, trace.pst, t, n)) :
        \E k \in 1 .. Len(Rows(trace, ps, t, n)) : Rows(trace, ps, t, n)[k] = r

LEMMA MeasuredKept ==
    ASSUME NEW trace, UnitsOK(trace), NEW ps, GoodTables(trace, ps), GoodTrace(trace),
           NEW n \in Nodes(trace.topo), NEW t \in Tables
    PROVE  RowsKept(trace, ps, t, n)
<1> DEFINE L == Rows(trace, trace.pst, t, n)
           R == Rows(trace, ps, t, n)
<1> SUFFICES ASSUME NEW r \in ToSet(L)
             PROVE  \E k \in 1 .. Len(R) : R[k] = r
  BY DEF RowsKept
<1>1. GoodCpus(trace, trace.pst) /\ GoodCpus(trace, ps)
  BY DEF GoodTables, GoodTrace, GoodCpus
<1>2. Len(n) = 3 => CpuAt(trace.topo, n) \in CpuIds(trace)
  BY <1>1, UnitFacts
<1>3. CASE L = R
  <2>1. Len(R) \in Nat
    BY <1>1, RowFacts
  <2>2. PICK k \in DOMAIN R : R[k] = r
    BY <1>3 DEF ToSet
  <2>3. DOMAIN R = 1 .. Len(R)
    <3>1. /\ GoodPStates(PstatesOf(trace, ps, n)) /\ CstatesOf(trace, n) \in CStatesType
          /\ OneEntryPerIrq(IrqsOf(trace, n))
      BY <1>1, UnitFacts
    <3> QED BY <3>1, RowDomain
  <2> QED BY <2>2, <2>3
<1>4. CASE t # "frequency" \/ Len(n) # 3
  <2>1. L = R
    BY <1>4 DEF Rows, PstateRow, PstatesOf, Tables
  <2> QED BY <1>3, <2>1
<1>5. CASE t = "frequency" /\ Len(n) = 3
  <2> DEFINE c == CpuAt(trace.topo, n)
             old == trace.pst[c]
             new == ps[c]
  <2>1. /\ c \in CpuIds(trace) /\ GoodPStates(old) /\ GoodPStates(new) /\ Kept(new, old)
        /\ PstatesOf(trace, trace.pst, n) = old /\ PstatesOf(trace, ps, n) = new
    BY <1>2, <1>5 DEF GoodTables, GoodTrace, PstatesOf
  <2> HIDE DEF c, old, new
  <2>2. PICK i \in DOMAIN old.table : r = PstateRow(trace, trace.pst, n, i)
    <3>1. L = [i \in DOMAIN old.table |-> PstateRow(trace, trace.pst, n, i)]
      BY <1>5, <2>1 DEF Rows
    <3> QED BY <3>1 DEF ToSet
  <2> DEFINE f == old.table[i].freq
  <2>3. f \in Freqs(old) /\ StatOf(old, f) = old.table[i].st
    BY <2>1, StatAtRow
  <2>4. PICK k \in DOMAIN new.table : new.table[k].freq = f
    BY <2>1, <2>3 DEF Kept, Freqs
  <2>5. new.table[k].st = old.table[i].st
    <3>1. StatOf(new, new.table[k].freq) = new.table[k].st /\ f \in Freqs(new)
      BY <2>1, <2>4, StatAtRow
    <3>2. StatOf(new, f) = StatOf(old, f)
      BY <2>1, <3>1 DEF Kept
    <3> QED BY <2>3, <2>4, <3>1, <3>2
  <2>6. PstateRow(trace, ps, n, k) = r
    BY <2>1, <2>2, <2>4, <2>5 DEF PstateRow
  <2>7. k \in 1 .. Len(R) /\ R[k] = PstateRow(trace, ps, n, k)
    BY <1>5, <2>1, <2>4, FrequencyRows
  <2> QED BY <2>6, <2>7
<1> QED BY <1>4, <1>5

\* Exactly one line.
LEMMA ExactlyOne ==
    ASSUME NEW S, NEW i \in S, \A j \in S : j = i
    PROVE  Cardinality(S) = 1
<1>1. S = {i}
  OBVIOUS
<1> QED BY <1>1, FS_Singleton

\* The lines of a finished report that are under one unit of one table.
LEMMA LinesOfUnit ==
    ASSUME Inv, ReportInv, phase = "done", NEW t \in options.display, NEW n \in Units
    PROVE  /\ t \in Tables /\ Assigned /\ NRows(t, n) \in Nat
           /\ \A k \in 1 .. NRows(t, n) :
                 Shows(t, n, k) => \E i \in LinesOf(t) : UnitAt(i) = n /\ out[i] = LineOf(t, n, k)
           /\ \A i \in LinesOf(t) : UnitAt(i) = n =>
                 \E k \in 1 .. NRows(t, n) : out[i] = LineOf(t, n, k)
           /\ \A i, j \in LinesOf(t) : UnitAt(i) = n /\ UnitAt(j) = n /\ out[i] = out[j] => i = j
<1> DEFINE P == Past(<<>>, <<>>, 1)
<1>1. /\ out # <<>> /\ tables = <<>> /\ todo = <<>> /\ row = 1 /\ options.display \subseteq Tables
  BY DEF ReportInv, Going
<1>2. Assigned /\ Sound(out, P) /\ Once(out) /\ AllShown(out, P)
  BY <1>1, PrintedFacts DEF Lines
<1>3. \A u \in Tables, v \in Units : NRows(u, v) \in Nat
  BY PrintedFacts, RowsDo
<1>4. \A k \in 1 .. NRows(t, n) : <<t, n, k>> \in P
  <2>1. \A k \in 1 .. NRows(t, n) : k \in Nat \ {0}
    BY <1>1, <1>3
  <2>2. t \notin ToSet(<<>>)
    BY DEF ToSet
  <2> QED BY <1>1, <2>1, <2>2, PastIs
<1> HIDE DEF P
<1>5. \A i : i \in LinesOf(t) <=>
               i \in DOMAIN out /\ out[i].event = "row" /\ TableIn(out, i) = t
  BY TableAtIs DEF LinesOf, IsA
<1>6. \A i : UnitAt(i) = UnitIn(out, i)
  BY TableAtIs
<1>7. ASSUME NEW k \in 1 .. NRows(t, n), Shows(t, n, k)
      PROVE  \E i \in LinesOf(t) : UnitAt(i) = n /\ out[i] = LineOf(t, n, k)
  <2>1. PICK i \in DOMAIN out : IsFor(out, i, t, n, k)
    BY <1>2, <1>4, <1>7 DEF AllShown
  <2>2. out[i].event = "row"
    BY <2>1 DEF IsFor, LineOf, RowLine
  <2> QED BY <1>5, <1>6, <2>1, <2>2 DEF IsFor
<1>8. ASSUME NEW i \in LinesOf(t), UnitAt(i) = n
      PROVE  \E k \in 1 .. NRows(t, n) : out[i] = LineOf(t, n, k)
  <2>1. PICK u \in Tables, v \in Units : \E k \in 1 .. NRows(u, v) : IsFor(out, i, u, v, k)
    BY <1>2, <1>5 DEF Sound
  <2>2. PICK k \in 1 .. NRows(u, v) : IsFor(out, i, u, v, k)
    BY <2>1
  <2>3. u = t /\ v = n
    BY <1>5, <1>6, <1>8, <2>2 DEF IsFor
  <2> QED BY <2>2, <2>3 DEF IsFor
<1>9. \A i, j \in LinesOf(t) : UnitAt(i) = n /\ UnitAt(j) = n /\ out[i] = out[j] => i = j
  BY <1>2, <1>5, <1>6 DEF Once
<1> QED BY <1>1, <1>2, <1>3, <1>7, <1>8, <1>9

LEMMA MeasuredAreRows ==
    ASSUME Inv, ReportInv, NEW t \in Tables, NEW n \in Nodes(main.topo)
    PROVE  \A r \in ToSet(Rows(main, main.pst, t, n)) :
              \E k \in 1 .. NRows(t, n) : RowOf(t, n, k) = r
<1>1. GoodTrace(main) /\ GoodTables(main, mainP) /\ UnitsOK(main)
  BY PrintedFacts DEF Inv
<1>2. RowsKept(main, mainP, t, n)
  BY <1>1, MeasuredKept
<1> QED BY <1>2 DEF RowsKept, NRows, RowOf

\* What the trace measured is in the report once.
LEMMA TraceShown ==
    ASSUME Inv, ReportInv, phase = "done", NEW t \in options.display, NEW n \in Units,
           NEW r \in Measured(main, t, n)
    PROVE  Shown(t, n, r)
<1>1. /\ t \in Tables /\ NRows(t, n) \in Nat
      /\ \A k \in 1 .. NRows(t, n) :
            Shows(t, n, k) => \E i \in LinesOf(t) : UnitAt(i) = n /\ out[i] = LineOf(t, n, k)
      /\ \A i \in LinesOf(t) : UnitAt(i) = n =>
            \E k \in 1 .. NRows(t, n) : out[i] = LineOf(t, n, k)
      /\ \A i, j \in LinesOf(t) : UnitAt(i) = n /\ UnitAt(j) = n /\ out[i] = out[j] => i = j
  BY LinesOfUnit
<1>2. n \in Nodes(main.topo) /\ UnitsOK(main) /\ GoodCpus(main, mainP)
  BY PrintedFacts
<1>3. r \in ToSet(Rows(main, main.pst, t, n)) /\ r.hits > 0
  BY DEF Measured
<1>4. PICK k \in 1 .. NRows(t, n) : RowOf(t, n, k) = r
  <2>1. t \in Tables
    BY <1>1
  <2> QED BY <1>2, <1>3, <2>1, MeasuredAreRows
<1>5. \A j, l \in 1 .. NRows(t, n) : RowOf(t, n, j) = RowOf(t, n, l) => j = l
  BY <1>1, <1>2, RowFacts DEF NRows, RowOf
<1>6. Shows(t, n, k)
  BY <1>3, <1>4 DEF Shows, Hits
<1>7. PICK i \in LinesOf(t) : UnitAt(i) = n /\ out[i] = LineOf(t, n, k)
  BY <1>1, <1>6
<1> DEFINE S == {x \in LinesOf(t) : UnitAt(x) = n /\ out[x].row = {r}}
<1>8. \A l : LineOf(t, n, l).row = {RowOf(t, n, l)}
  BY DEF LineOf, RowLine
<1>9. i \in S
  BY <1>4, <1>7, <1>8
<1>10. ASSUME NEW j \in S
       PROVE  j = i
  <2>1. PICK l \in 1 .. NRows(t, n) : out[j] = LineOf(t, n, l)
    BY <1>1
  <2>2. {RowOf(t, n, l)} = {r}
    BY <1>8, <2>1
  <2>3. RowOf(t, n, l) = r
    BY <2>2
  <2>4. l = k
    BY <1>4, <1>5, <2>3
  <2> QED BY <1>1, <1>7, <2>1, <2>4
<1>11. Cardinality(S) = 1
  <2> HIDE DEF S
  <2> QED BY <1>9, <1>10, ExactlyOne
<1> QED BY <1>11 DEF Shown

\* What only the baseline may have measured is beside a row of the trace once.
LEMMA BaselineShown ==
    ASSUME Inv, ReportInv, phase = "done", TakesBaseline,
           NEW t \in options.display, NEW n \in Units, NEW r \in Compared(t, n)
    PROVE  ShownAsBaseline(t, n, r)
<1>1. /\ t \in Tables /\ Assigned /\ NRows(t, n) \in Nat
      /\ \A k \in 1 .. NRows(t, n) :
            Shows(t, n, k) => \E i \in LinesOf(t) : UnitAt(i) = n /\ out[i] = LineOf(t, n, k)
      /\ \A i \in LinesOf(t) : UnitAt(i) = n =>
            \E k \in 1 .. NRows(t, n) : out[i] = LineOf(t, n, k)
      /\ \A i, j \in LinesOf(t) : UnitAt(i) = n /\ UnitAt(j) = n /\ out[i] = out[j] => i = j
  BY LinesOfUnit
<1>2. HasBaseline
  BY DEF ReportInv, Going, ReportPossible, TakesBaseline
<1>3. n \in Nodes(main.topo) /\ UnitsOK(main) /\ UnitsOK(base) /\ GoodCpus(main, mainP)
  BY PrintedFacts
<1>4. n \in Nodes(base.topo) /\ baseOf[n] = n
  BY <1>1, <1>2, <1>3 DEF Assigned
<1>5. /\ GoodPStates(PstatesOf(base, baseP, n)) /\ CstatesOf(base, n) \in CStatesType
      /\ \A k : /\ BaseRow("idle", n, k) = {CstateRow(base, n, k)}
                /\ BaseRow("frequency", n, k) =
                      IF k \in DOMAIN PstatesOf(base, baseP, n).table
                      THEN {PstateRow(base, baseP, n, k)} ELSE {}
  BY <1>1, <1>2, BaseRows
<1>6. /\ GoodPStates(PstatesOf(main, mainP, n)) /\ CstatesOf(main, n) \in CStatesType
      /\ Len(n) = 3 => CpuAt(main.topo, n) \in CpuIds(main)
  BY <1>3, UnitFacts
<1>7. r \in ToSet(Rows(base, base.pst, t, n)) /\ r.hits > 0
  BY <1>4 DEF Compared, Measured
\* Its row, and that it is the row's only one.
<1>8. PICK k \in 1 .. NRows(t, n) :
         /\ BaseRow(t, n, k) = {r}
         /\ \A l \in 1 .. NRows(t, n) : BaseRow(t, n, l) = {r} => l = k
  <2>1. CASE t = "idle"
    <3>1. /\ Len(Rows(base, base.pst, "idle", n)) \in Nat
          /\ \A k \in 1 .. Len(Rows(base, base.pst, "idle", n)) :
                Rows(base, base.pst, "idle", n)[k] = CstateRow(base, n, k)
      BY <1>5, IdleRows
    <3>2. DOMAIN Rows(base, base.pst, "idle", n) = 1 .. Len(Rows(base, base.pst, "idle", n))
      <4> DEFINE m == CstatesOf(base, n).max + 1
      <4>1. m \in Nat
        BY <1>5, NStatesAssumption DEF CStatesType, State
      <4>2. Rows(base, base.pst, "idle", n) = [k \in 1 .. m |-> CstateRow(base, n, k)]
        BY DEF Rows
      <4> HIDE DEF m
      <4> QED BY <4>1, <4>2
    <3>3. PICK k \in DOMAIN Rows(base, base.pst, "idle", n) :
             r = Rows(base, base.pst, "idle", n)[k]
      BY <1>7, <2>1 DEF ToSet
    <3>4. r = CstateRow(base, n, k) /\ k \in Nat \ {0}
      BY <3>1, <3>2, <3>3
    <3>5. \A l : CstateRow(base, n, l).name = l - 1
      BY DEF CstateRow
    <3>6. k - 1 <= CstatesOf(main, n).max
      BY <2>1, <3>4, <3>5 DEF Compared
    <3>7. NRows(t, n) = CstatesOf(main, n).max + 1 /\ CstatesOf(main, n).max \in Int
      <4>1. CstatesOf(main, n).max \in Int
        BY <1>6, NStatesAssumption DEF CStatesType, State
      <4> QED BY <1>6, <2>1, <4>1, IdleRows DEF NRows
    <3>8. k \in 1 .. NRows(t, n)
      BY <3>4, <3>6, <3>7
    <3>9. \A l : BaseRow(t, n, l) = {CstateRow(base, n, l)}
      BY <1>5, <2>1
    <3>10. ASSUME NEW l \in 1 .. NRows(t, n), BaseRow(t, n, l) = {r}
           PROVE  l = k
      <4>1. {CstateRow(base, n, l)} = {r}
        BY <3>9, <3>10
      <4>2. CstateRow(base, n, l) = r
        BY <4>1
      <4>3. l - 1 = k - 1
        BY <3>4, <3>5, <4>2
      <4> QED BY <3>4, <4>3
    <3> QED BY <3>4, <3>8, <3>9, <3>10
  <2>2. CASE t = "frequency"
    <3> DEFINE p == PstatesOf(main, mainP, n)
               q == PstatesOf(base, baseP, n)
    <3>1. Len(n) = 3 /\ CpuAt(main.topo, n) = CpuAt(base.topo, n)
      BY <2>2 DEF Compared
    <3>2. Len(p.table) = Len(q.table)
      <4>1. p = mainP[CpuAt(main.topo, n)] /\ q = baseP[CpuAt(main.topo, n)]
        BY <3>1 DEF PstatesOf
      <4>2. CpuAt(main.topo, n) \in CpuIds(main)
        BY <1>6, <3>1
      <4> QED BY <1>1, <1>2, <4>1, <4>2, MergedTables
    <3>3. NRows(t, n) = Len(p.table)
      BY <1>6, <2>2, FrequencyRows DEF NRows
    <3>4. /\ Len(Rows(base, baseP, "frequency", n)) = Len(q.table)
          /\ DOMAIN q.table = 1 .. Len(q.table)
          /\ \A k \in 1 .. Len(q.table) :
                /\ Rows(base, baseP, "frequency", n)[k] = PstateRow(base, baseP, n, k)
                /\ PstateRow(base, baseP, n, k).name = q.table[k].freq
      <4>1. /\ Len(Rows(base, baseP, "frequency", n)) = Len(q.table)
            /\ \A k \in 1 .. Len(q.table) :
                  Rows(base, baseP, "frequency", n)[k] = PstateRow(base, baseP, n, k)
        BY <1>5, FrequencyRows
      <4>2. \A k : PstateRow(base, baseP, n, k).name = q.table[k].freq
        BY DEF PstateRow
      <4> QED BY <1>5, <4>1, <4>2, TableFacts
    <3>5. PICK k \in 1 .. Len(q.table) : r = PstateRow(base, baseP, n, k)
      <4>1. GoodTrace(base) /\ GoodTables(base, baseP)
        BY DEF Inv
      <4>2. "frequency" \in Tables
        BY DEF Tables
      <4>3. \A x \in ToSet(Rows(base, base.pst, "frequency", n)) :
               \E k \in 1 .. Len(Rows(base, baseP, "frequency", n)) :
                  Rows(base, baseP, "frequency", n)[k] = x
        <5>1. RowsKept(base, baseP, "frequency", n)
          BY <1>3, <1>4, <4>1, <4>2, MeasuredKept
        <5> QED BY <5>1 DEF RowsKept
      <4>4. r \in ToSet(Rows(base, base.pst, "frequency", n))
        BY <1>7, <2>2
      <4> QED BY <3>4, <4>3, <4>4
    <3>6. \A l \in 1 .. NRows(t, n) : BaseRow(t, n, l) = {PstateRow(base, baseP, n, l)}
      BY <1>5, <2>2, <3>2, <3>3, <3>4
    <3>7. \A i, j \in 1 .. Len(q.table) : q.table[i].freq = q.table[j].freq => i = j
      <4>1. /\ Len(q.table) \in Nat /\ \A i \in 1 .. Len(q.table) : q.table[i].freq \in Nat
            /\ \A i, j \in 1 .. Len(q.table) : i < j => q.table[i].freq < q.table[j].freq
        BY <1>5, TableFacts
      <4> HIDE DEF q
      <4> QED BY <4>1
    <3>8. ASSUME NEW l \in 1 .. NRows(t, n), BaseRow(t, n, l) = {r}
          PROVE  l = k
      <4>1. {PstateRow(base, baseP, n, l)} = {r}
        BY <3>6, <3>8
      <4>2. PstateRow(base, baseP, n, l) = r
        BY <4>1
      <4>3. l \in 1 .. Len(q.table) /\ q.table[l].freq = q.table[k].freq
        BY <3>2, <3>3, <3>4, <3>5, <4>2
      <4> QED BY <3>5, <3>7, <4>3
    <3>9. k \in 1 .. NRows(t, n) /\ BaseRow(t, n, k) = {r}
      BY <3>2, <3>3, <3>5, <3>6
    <3> QED BY <3>8, <3>9
  <2>3. t # "wakeup"
    BY DEF Compared
  <2> QED BY <1>1, <2>1, <2>2, <2>3 DEF Tables
<1>9. Shows(t, n, k)
  BY <1>7, <1>8 DEF Shows, Hits
<1>10. PICK i \in LinesOf(t) : UnitAt(i) = n /\ out[i] = LineOf(t, n, k)
  BY <1>1, <1>9
<1> DEFINE S == {x \in LinesOf(t) : UnitAt(x) = n /\ out[x].base = {r}}
<1>11. \A l : LineOf(t, n, l).base = BaseRow(t, n, l)
  BY DEF LineOf, RowLine
<1>12. i \in S
  BY <1>8, <1>10, <1>11
<1>13. ASSUME NEW j \in S
       PROVE  j = i
  <2>1. PICK l \in 1 .. NRows(t, n) : out[j] = LineOf(t, n, l)
    BY <1>1
  <2>2. l = k
    BY <1>8, <1>11, <2>1
  <2> QED BY <1>1, <1>10, <2>1, <2>2
<1>14. Cardinality(S) = 1
  <2> HIDE DEF S
  <2> QED BY <1>12, <1>13, ExactlyOne
<1> QED BY <1>14 DEF ShownAsBaseline

\* Nothing comes between a cluster and its units.
LEMMA ClusterByCluster ==
    ASSUME IsReport(out), InOrderOfClusters(out)
    PROVE  UnderOwnCluster
<1> SUFFICES ASSUME NEW i \in DOMAIN out, IsA(i, "unit")
             PROVE  LET before == {j \in 1 .. i : IsA(j, "unit") /\ Len(out[j].node) = 1
                                                  /\ TableAt(j) = TableAt(i)}
                        own    == {j \in before : out[j].node[1] = out[i].node[1]}
                    IN  own # {} => Max(before) \in own
  BY DEF UnderOwnCluster
<1> DEFINE before == {j \in 1 .. i : IsA(j, "unit") /\ Len(out[j].node) = 1
                                     /\ TableAt(j) = TableAt(i)}
           own    == {j \in before : out[j].node[1] = out[i].node[1]}
           m      == Max(before)
<1>1. DOMAIN out = 1 .. Len(out) /\ Len(out) \in Nat /\ i \in Nat
  <2>1. DOMAIN out = 1 .. Len(out) /\ Len(out) \in Nat
    BY DEF IsReport, IsSeq
  <2> QED BY <2>1
<1> SUFFICES ASSUME NEW o \in own
             PROVE  m \in own
  BY Zenon
<1>2. before \in SUBSET Int /\ IsFiniteSet(before)
  <2>1. IsFiniteSet(1 .. i) /\ before \subseteq 1 .. i
    BY <1>1, FS_Interval
  <2> QED BY <1>1, <2>1, FS_Subset
<1>3. m \in before /\ o <= m
  <2>1. before # {} /\ o \in before
    OBVIOUS
  <2> HIDE DEF before
  <2>2. Max(before) \in before /\ \A x \in before : Max(before) >= x
    BY <1>2, <2>1, MaxIsGreatest
  <2>3. Max(before) \in Int /\ o \in Int
    BY <1>2, <2>1, <2>2
  <2> QED BY <2>1, <2>2, <2>3
<1> HIDE DEF m
<1>4. \A x \in before : /\ x \in DOMAIN out /\ out[x].event = "unit" /\ x <= i
                        /\ TableIn(out, x) = TableIn(out, i)
  BY <1>1, TableAtIs DEF IsA
<1>5. o \in before /\ out[o].node[1] = out[i].node[1]
  OBVIOUS
<1> HIDE DEF before
<1>6. out[o].node[1] <= out[m].node[1] /\ out[m].node[1] <= out[i].node[1]
  BY <1>3, <1>4, <1>5 DEF InOrderOfClusters, IsA
<1>7. out[m].node[1] \in Nat /\ out[i].node[1] \in Nat
  BY <1>3, <1>4 DEF InOrderOfClusters, IsA
<1> QED BY <1>3, <1>5, <1>6, <1>7

(* A finished report has every row in which the trace has hits, once and   *)
(* under its table and unit, with what was measured, however the tables    *)
(* were merged; and in a comparison the baseline's too.                    *)
THEOREM NothingLeftOut == Spec => []ReportComplete
<1>1. Inv /\ ReportInv => ReportComplete
  <2> SUFFICES ASSUME Inv, ReportInv, phase = "done",
                      NEW t \in options.display, NEW n \in Units
               PROVE  /\ \A r \in Measured(main, t, n) : Shown(t, n, r)
                      /\ TakesBaseline => \A r \in Compared(t, n) : ShownAsBaseline(t, n, r)
                      /\ \A i \in LinesOf(t) : UnitAt(i) = n => \A r \in out[i].row : r.node = n
                      /\ UnderOwnCluster
    BY DEF ReportComplete, Units
  <2>1. ASSUME NEW i \in LinesOf(t), UnitAt(i) = n, NEW r \in out[i].row
        PROVE  r.node = n
    <3>1. PICK k \in 1 .. NRows(t, n) : out[i] = LineOf(t, n, k)
      BY <2>1, LinesOfUnit
    <3>2. r = RowOf(t, n, k)
      BY <2>1, <3>1 DEF LineOf, RowLine
    <3>3. t \in Tables /\ n \in Nodes(main.topo) /\ UnitsOK(main) /\ GoodCpus(main, mainP)
      BY LinesOfUnit, PrintedFacts
    <3> QED BY <3>2, <3>3, RowFacts DEF RowOf, NRows
  <2>2. UnderOwnCluster
    <3>1. out # <<>>
      BY DEF ReportInv
    <3>2. IsReport(out) /\ InOrderOfClusters(out)
      BY <3>1 DEF ReportInv, Lines
    <3> QED BY <3>2, ClusterByCluster
  <2> QED BY <2>1, <2>2, TraceShown, BaselineShown
<1> QED BY <1>1, ReportInvariance, ReportsInvariance, PTL
=============================================================================

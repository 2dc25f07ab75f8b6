------------------------- MODULE EnergyModel_proofs -------------------------
(***************************************************************************)
(* parse_energy_model for every file and whatever the memory it allocates  *)
(* held before: it stays within that memory, keeps every row as it is      *)
(* written, refuses the files it ought to and no other, and the energies   *)
(* are the sums over the rows of the file.  And for every machine: the     *)
(* template written for it is an energy model, but for its first heading.  *)
(***************************************************************************)
EXTENDS EnergyTemplate, DataLemmas

EntryStates == {"unset", "counts", "P-states", "C-states"}

Fields(e) == e = [caps |-> e.caps, cstates |-> e.cstates, p |-> e.p, c |-> e.c,
                  wakeup |-> e.wakeup, state |-> e.state]

\* An entry of the table; what its rows hold does not matter here.
IsEntry(e) ==
    /\ Fields(e)
    /\ e.caps \in Nat /\ e.cstates \in Nat /\ e.state \in EntryStates
    /\ e.state # "unset" => /\ DOMAIN e.p = 0 .. e.caps - 1
                            /\ DOMAIN e.c = 0 .. e.cstates - 1

TableOK == /\ clusters \in Nat
           /\ table = [k \in 0 .. clusters - 1 |-> table[k]]
           /\ \A k \in 0 .. clusters - 1 : IsEntry(table[k])

\* Only a cluster whose line has been read is the current one.
CurrentOK == /\ current \in {-1} \cup 0 .. clusters - 1
             /\ current # -1 => table[current].state # "unset"

CountersOK ==
    /\ nextP \in Nat /\ nextC \in Nat
    /\ current # -1 /\ table[current].state = "P-states" =>
          nextP <= table[current].caps
    /\ current # -1 /\ table[current].state = "C-states" =>
          nextC <= table[current].cstates

IInv == TableOK /\ CurrentOK /\ CountersOK

-----------------------------------------------------------------------------

\* Writing one entry keeps the others.
LEMMA OneEntry ==
    ASSUME TableOK, NEW k \in 0 .. clusters - 1, NEW e, IsEntry(e),
           table' = [table EXCEPT ![k] = e], clusters' = clusters
    PROVE  /\ TableOK' /\ table'[k] = e
           /\ \A j \in 0 .. clusters - 1 : j # k => table'[j] = table[j]
<1>1. /\ DOMAIN table = 0 .. clusters - 1
      /\ DOMAIN table' = 0 .. clusters - 1
      /\ table' = [j \in 0 .. clusters - 1 |-> IF j = k THEN e ELSE table[j]]
  BY DEF TableOK
<1>2. /\ table'[k] = e
      /\ \A j \in 0 .. clusters - 1 : j # k => table'[j] = table[j]
  BY <1>1
<1>3. \A j \in 0 .. clusters - 1 : IsEntry(table'[j])
  BY <1>2 DEF TableOK
<1>4. table' = [j \in 0 .. clusters - 1 |-> table'[j]]
  BY <1>1
<1> QED  BY <1>2, <1>3, <1>4 DEF TableOK

\* What each handler makes of an entry is an entry again.
LEMMA StateUpdate ==
    ASSUME NEW e, IsEntry(e), e.state # "unset",
           NEW s \in EntryStates \ {"unset"}, NEW f, f = [e EXCEPT !.state = s]
    PROVE  IsEntry(f) /\ f.state = s /\ f.caps = e.caps /\ f.cstates = e.cstates
<1>1. DOMAIN e = {"caps", "cstates", "p", "c", "wakeup", "state"}
  BY DEF IsEntry, Fields
<1>2. f.state = s /\ f.caps = e.caps /\ f.cstates = e.cstates
        /\ f.p = e.p /\ f.c = e.c /\ f.wakeup = e.wakeup
  BY <1>1
<1>3. Fields(f)
  BY <1>1, <1>2 DEF Fields
<1> QED  BY <1>2, <1>3 DEF IsEntry

LEMMA WakeupUpdate ==
    ASSUME NEW e, IsEntry(e), NEW w, NEW f, f = [e EXCEPT !.wakeup = w]
    PROVE  /\ IsEntry(f) /\ f.state = e.state
           /\ f.caps = e.caps /\ f.cstates = e.cstates
<1>1. DOMAIN e = {"caps", "cstates", "p", "c", "wakeup", "state"}
  BY DEF IsEntry, Fields
<1>2. f.state = e.state /\ f.caps = e.caps /\ f.cstates = e.cstates
        /\ f.p = e.p /\ f.c = e.c /\ f.wakeup = w
  BY <1>1
<1>3. Fields(f)
  BY <1>1, <1>2 DEF Fields
<1> QED  BY <1>2, <1>3 DEF IsEntry

LEMMA PRowUpdate ==
    ASSUME NEW e, IsEntry(e), NEW rows, DOMAIN rows = DOMAIN e.p,
           NEW f, f = [e EXCEPT !.p = rows]
    PROVE  IsEntry(f) /\ f.state = e.state /\ f.caps = e.caps
<1>1. DOMAIN e = {"caps", "cstates", "p", "c", "wakeup", "state"}
  BY DEF IsEntry, Fields
<1>2. f.state = e.state /\ f.caps = e.caps /\ f.cstates = e.cstates
        /\ f.p = rows /\ f.c = e.c /\ f.wakeup = e.wakeup
  BY <1>1
<1>3. Fields(f)
  BY <1>1, <1>2 DEF Fields
<1> QED  BY <1>2, <1>3 DEF IsEntry

LEMMA CRowUpdate ==
    ASSUME NEW e, IsEntry(e), NEW rows, DOMAIN rows = DOMAIN e.c,
           NEW f, f = [e EXCEPT !.c = rows]
    PROVE  IsEntry(f) /\ f.state = e.state /\ f.cstates = e.cstates
<1>1. DOMAIN e = {"caps", "cstates", "p", "c", "wakeup", "state"}
  BY DEF IsEntry, Fields
<1>2. f.state = e.state /\ f.caps = e.caps /\ f.cstates = e.cstates
        /\ f.c = rows /\ f.p = e.p /\ f.wakeup = e.wakeup
  BY <1>1
<1>3. Fields(f)
  BY <1>1, <1>2 DEF Fields
<1> QED  BY <1>2, <1>3 DEF IsEntry

-----------------------------------------------------------------------------

LEMMA InitHolds == Init => IInv
  BY DEF Init, IInv, TableOK, CurrentOK, CountersOK, Unset

LEMMA CurrentEntry ==
    ASSUME IInv, current # -1
    PROVE  /\ current \in 0 .. clusters - 1
           /\ IsEntry(table[current]) /\ table[current].state # "unset"
  BY DEF IInv, TableOK, CurrentOK

\* Nothing the invariant speaks of changes when a line is refused or passed
\* over.
LEMMA KeepHolds == IInv /\ Keep => IInv'
  BY DEF Keep, IInv, TableOK, CurrentOK, CountersOK

LEMMA ReadClustersHolds ==
    ASSUME IInv, NEW line \in Lines, ReadClusters(line)
    PROVE  IInv'
<1>1. CASE Refuse
  BY <1>1, KeepHolds DEF Refuse
<1>2. CASE clusters = 0 /\ ~Refuse
  <2>1. clusters' = line.n /\ line.n \in Nat
    BY <1>2, EnergyModelAssumption DEF ReadClusters, Fetch
  <2>2. PICK left \in [0 .. line.n - 1 -> Leftover] :
            table' = [k \in 0 .. line.n - 1 |-> Unset(left[k])]
    BY <1>2 DEF ReadClusters
  <2>3. \A k \in 0 .. line.n - 1 : left[k] \in Nat
    BY <2>2, EnergyModelAssumption
  <2>4. ASSUME NEW x \in Nat PROVE IsEntry(Unset(x))
    BY <2>4 DEF IsEntry, Fields, Unset, EntryStates
  <2>5. \A k \in 0 .. line.n - 1 : table'[k] = Unset(left[k])
    BY <2>2
  <2>6. \A k \in 0 .. line.n - 1 : IsEntry(table'[k])
    BY <2>3, <2>4, <2>5
  <2>7. table' = [k \in 0 .. line.n - 1 |-> table'[k]]
    BY <2>2
  <2>8. current = -1 /\ current' = current /\ nextP' = nextP /\ nextC' = nextC
    BY <1>2 DEF ReadClusters, IInv, CurrentOK
  <2> QED
    BY <2>1, <2>6, <2>7, <2>8 DEF IInv, TableOK, CurrentOK, CountersOK
<1> QED  BY <1>1, <1>2 DEF ReadClusters

LEMMA ReadClusterHolds ==
    ASSUME IInv, NEW line \in Lines, ReadCluster(line)
    PROVE  IInv'
<1>1. CASE Refuse
  BY <1>1, KeepHolds DEF Refuse
<1>2. CASE ~Refuse
  <2> DEFINE e == [caps |-> line.caps, cstates |-> line.cstates,
                   p |-> EmptyRows(line.caps), c |-> EmptyRows(line.cstates),
                   wakeup |-> table[line.id].wakeup, state |-> "counts"]
  <2>1. line.id \in Nat /\ line.caps \in Nat /\ line.cstates \in Nat
    BY EnergyModelAssumption DEF ReadCluster, Fetch
  <2>2. /\ line.id < clusters /\ current' = line.id
        /\ table' = [table EXCEPT ![line.id] = e]
        /\ clusters' = clusters /\ nextP' = nextP /\ nextC' = nextC
    BY <1>2 DEF ReadCluster
  <2>3. IsEntry(e) /\ e.state = "counts"
    BY <2>1 DEF IsEntry, Fields, EntryStates, EmptyRows
  <2>4. clusters \in Nat /\ line.id \in 0 .. clusters - 1
    BY <2>1, <2>2 DEF IInv, TableOK
  <2> HIDE DEF e
  <2>5. TableOK' /\ table'[line.id] = e
    BY <2>2, <2>3, <2>4, OneEntry DEF IInv
  <2> QED
    BY <2>1, <2>2, <2>3, <2>4, <2>5 DEF IInv, CurrentOK, CountersOK
<1> QED  BY <1>1, <1>2

\* A section starts with its first row to come.
LEMMA ReadHeadingHolds ==
    ASSUME IInv, NEW line \in Lines, ReadPHeading(line) \/ ReadCHeading(line)
    PROVE  IInv'
<1>1. CASE Refuse
  BY <1>1, KeepHolds DEF Refuse
<1>2. ASSUME ~Refuse, NEW s \in {"P-states", "C-states"}, current # -1,
             table' = [table EXCEPT ![current].state = s],
             clusters' = clusters, current' = current,
             s = "P-states" => nextP' = 0 /\ nextC' = nextC,
             s = "C-states" => nextC' = 0 /\ nextP' = nextP
      PROVE  IInv'
  <2> DEFINE e == [table[current] EXCEPT !.state = s]
  <2>1. /\ current \in 0 .. clusters - 1
        /\ IsEntry(table[current]) /\ table[current].state # "unset"
    BY <1>2, CurrentEntry
  <2>2. s \in EntryStates \ {"unset"}
    BY DEF EntryStates
  <2>3. IsEntry(e) /\ e.state = s
    BY <2>1, <2>2, StateUpdate
  <2>4. table' = [table EXCEPT ![current] = e]
    BY <1>2
  <2> HIDE DEF e
  <2>5. TableOK' /\ table'[current] = e
    BY <1>2, <2>1, <2>3, <2>4, OneEntry DEF IInv
  <2>6. e.caps \in Nat /\ e.cstates \in Nat
    BY <2>3 DEF IsEntry
  <2>7. CurrentOK'
    BY <1>2, <2>1, <2>2, <2>3, <2>5 DEF CurrentOK
  <2>8. CASE s = "P-states"
    <3>1. nextP' = 0 /\ nextC' = nextC /\ nextC \in Nat /\ 0 <= e.caps
      BY <1>2, <2>6, <2>8 DEF IInv, CountersOK
    <3>2. CountersOK'
      BY <1>2, <2>3, <2>5, <2>8, <3>1 DEF CountersOK
    <3> QED  BY <2>5, <2>7, <3>2 DEF IInv
  <2>9. CASE s = "C-states"
    <3>1. nextC' = 0 /\ nextP' = nextP /\ nextP \in Nat /\ 0 <= e.cstates
      BY <1>2, <2>6, <2>9 DEF IInv, CountersOK
    <3>2. CountersOK'
      BY <1>2, <2>3, <2>5, <2>9, <3>1 DEF CountersOK
    <3> QED  BY <2>5, <2>7, <3>2 DEF IInv
  <2> QED  BY <2>8, <2>9
<1>3. CASE ReadPHeading(line) /\ ~Refuse
  BY <1>2, <1>3 DEF ReadPHeading
<1>4. CASE ReadCHeading(line) /\ ~Refuse
  BY <1>2, <1>4 DEF ReadCHeading
<1> QED  BY <1>1, <1>3, <1>4

LEMMA ReadWakeupHolds ==
    ASSUME IInv, NEW line \in Lines, ReadWakeup(line)
    PROVE  IInv'
<1>1. CASE Refuse
  BY <1>1, KeepHolds DEF Refuse
<1>2. CASE ~Refuse
  <2> DEFINE w == <<line.cluster, line.core>>
             e == [table[current] EXCEPT !.wakeup = w]
  <2>1. /\ current # -1
        /\ table' = [table EXCEPT ![current] = e]
        /\ UNCHANGED <<clusters, current, nextP, nextC>>
    BY <1>2 DEF ReadWakeup
  <2>2. /\ current \in 0 .. clusters - 1
        /\ IsEntry(table[current]) /\ table[current].state # "unset"
    BY <2>1, CurrentEntry
  <2> HIDE DEF w
  <2>3. /\ IsEntry(e) /\ e.state = table[current].state
        /\ e.caps = table[current].caps /\ e.cstates = table[current].cstates
    BY <2>2, WakeupUpdate
  <2> HIDE DEF e
  <2>4. TableOK' /\ table'[current] = e
    BY <2>1, <2>2, <2>3, OneEntry DEF IInv
  <2> QED
    BY <2>1, <2>2, <2>3, <2>4 DEF IInv, CurrentOK, CountersOK
<1> QED  BY <1>1, <1>2

\* A row is stored only while there is one more to come.
LEMMA ReadRowHolds ==
    ASSUME IInv, NEW line \in Lines, ReadPRow(line) \/ ReadCRow(line)
    PROVE  IInv'
<1>1. CASE Refuse
  BY <1>1, KeepHolds DEF Refuse
<1>2. current # -1 /\ current \in 0 .. clusters - 1
        /\ IsEntry(table[current]) /\ table[current].state # "unset"
  BY CurrentEntry DEF ReadPRow, ReadCRow, Section
<1>3. CASE ReadPRow(line) /\ ~Refuse
  <2> DEFINE rows == [table[current].p EXCEPT ![nextP] = RowOf(line)]
             e    == [table[current] EXCEPT !.p = rows]
  <2>1. /\ nextP < table[current].caps /\ table[current].state = "P-states"
        /\ table' = [table EXCEPT ![current] = e]
        /\ nextP' = nextP + 1 /\ UNCHANGED <<clusters, current, nextC>>
    BY <1>2, <1>3 DEF ReadPRow, Here, Section
  <2>2. /\ IsEntry(e) /\ e.state = table[current].state
        /\ e.caps = table[current].caps
    <3>1. DOMAIN rows = DOMAIN table[current].p
      OBVIOUS
    <3> HIDE DEF rows
    <3> QED  BY <1>2, <3>1, PRowUpdate
  <2> HIDE DEF e
  <2>3. TableOK' /\ table'[current] = e
    BY <1>2, <2>1, <2>2, OneEntry DEF IInv
  <2>4. e.caps \in Nat /\ nextP \in Nat /\ nextC \in Nat
    BY <2>2 DEF IsEntry, IInv, CountersOK
  <2> QED
    BY <1>2, <2>1, <2>2, <2>3, <2>4 DEF IInv, CurrentOK, CountersOK
<1>4. CASE ReadCRow(line) /\ ~Refuse
  <2> DEFINE rows == [table[current].c EXCEPT ![nextC] = RowOf(line)]
             e    == [table[current] EXCEPT !.c = rows]
  <2>1. /\ nextC < table[current].cstates /\ table[current].state = "C-states"
        /\ table' = [table EXCEPT ![current] = e]
        /\ nextC' = nextC + 1 /\ UNCHANGED <<clusters, current, nextP>>
    BY <1>2, <1>4 DEF ReadCRow, Here, Section
  <2>2. /\ IsEntry(e) /\ e.state = table[current].state
        /\ e.cstates = table[current].cstates
    <3>1. DOMAIN rows = DOMAIN table[current].c
      OBVIOUS
    <3> HIDE DEF rows
    <3> QED  BY <1>2, <3>1, CRowUpdate
  <2> HIDE DEF e
  <2>3. TableOK' /\ table'[current] = e
    BY <1>2, <2>1, <2>2, OneEntry DEF IInv
  <2>4. e.cstates \in Nat /\ nextC \in Nat /\ nextP \in Nat
    BY <2>2 DEF IsEntry, IInv, CountersOK
  <2> QED
    BY <1>2, <2>1, <2>2, <2>3, <2>4 DEF IInv, CurrentOK, CountersOK
<1> QED  BY <1>1, <1>3, <1>4

LEMMA ReadLineHolds ==
    ASSUME IInv, NEW line \in Lines, ReadLine(line)
    PROVE  IInv'
<1>1. CASE ReadOtherRow(line)
  BY <1>1, KeepHolds DEF ReadOtherRow, Refuse
<1> QED
  BY <1>1, ReadClustersHolds, ReadClusterHolds, ReadHeadingHolds,
     ReadWakeupHolds, ReadRowHolds DEF ReadLine

LEMMA NextHolds == IInv /\ [Next]_vars => IInv'
<1> SUFFICES ASSUME IInv, [Next]_vars PROVE IInv'
  OBVIOUS
<1>1. ASSUME NEW line \in Lines, ReadLine(line) PROVE IInv'
  BY <1>1, ReadLineHolds
<1>2. CASE EndOfFile
  BY <1>2, KeepHolds DEF EndOfFile
<1>3. CASE Account
  BY <1>3, KeepHolds DEF Account
<1>4. CASE UNCHANGED vars
  BY <1>4, KeepHolds DEF vars, Keep
<1> QED  BY <1>1, <1>2, <1>3, <1>4 DEF Next

LEMMA IInvImplies == IInv => RowsWithinAllocation
<1> SUFFICES ASSUME IInv PROVE RowsWithinAllocation
  OBVIOUS
<1>1. Section = "P-states" => nextP <= Here.caps
  BY DEF IInv, CountersOK, Section, Here
<1>2. Section = "C-states" => nextC <= Here.cstates
  BY DEF IInv, CountersOK, Section, Here
<1>3. DOMAIN table = 0 .. clusters - 1
  BY DEF IInv, TableOK
<1>4. \A k \in DOMAIN table : IsEntry(table[k])
  BY <1>3 DEF IInv, TableOK
<1> QED  BY <1>1, <1>2, <1>4 DEF RowsWithinAllocation, IsEntry

(* energy_model.c never writes a row behind the memory it allocated for the *)
(* section, for every energy model file.                                    *)
THEOREM WithinAllocation == Spec => []RowsWithinAllocation
<1>1. Spec => []IInv
  BY InitHolds, NextHolds, PTL DEF Spec
<1> QED  BY <1>1, IInvImplies, PTL

-----------------------------------------------------------------------------
(* What a file says, as functions of its lines s: the definitions of       *)
(* EnergyModel for the lines read so far and for one line more.            *)

IsRowIn(s, i) == s[i].kind \in {"speed row", "name row", "incomplete row"}

LatestIn(s, kinds, i) == Max({0} \cup {j \in 1 .. i - 1 : s[j].kind \in kinds})
SectionIn(s, i) == LatestIn(s, {"cluster", "P-states", "C-states"}, i)
ClusterIn(s, i) == LatestIn(s, {"cluster"}, i)

\* The rows among the lines after line b, up to line i.
RowsIn(s, b, i) == Cardinality({j \in b + 1 .. i : IsRowIn(s, j)})

OwnIn(s, k) == Max({0} \cup {j \in DOMAIN s : s[j].kind = "cluster" /\ s[j].id = k})

RowLinesIn(s, k, section, n) ==
    {i \in DOMAIN s : /\ IsRowIn(s, i) /\ ClusterIn(s, i) = OwnIn(s, k)
                      /\ s[SectionIn(s, i)].kind = section
                      /\ RowsIn(s, SectionIn(s, i), i) = n + 1}

RowWrittenIn(s, k, section, n) ==
    IF RowLinesIn(s, k, section, n) = {} THEN NoRow
    ELSE RowOf(s[Max(RowLinesIn(s, k, section, n))])

LEMMA AppendFacts ==
    ASSUME NEW s \in Seq(Lines), NEW l \in Lines
    PROVE  /\ Append(s, l) \in Seq(Lines)
           /\ Len(Append(s, l)) = Len(s) + 1 /\ Len(s) \in Nat
           /\ Append(s, l)[Len(s) + 1] = l
           /\ \A i \in 1 .. Len(s) : Append(s, l)[i] = s[i]
           /\ DOMAIN Append(s, l) = 1 .. Len(s) + 1 /\ DOMAIN s = 1 .. Len(s)
OBVIOUS

(* The latest line of some kinds before line i: it is one, and no line     *)
(* between is.                                                             *)
LEMMA LatestFacts ==
    ASSUME NEW s, NEW kinds, NEW i \in Nat
    PROVE  LET x == LatestIn(s, kinds, i)
           IN  /\ x \in Nat
               /\ x # 0 => x \in 1 .. i - 1 /\ s[x].kind \in kinds
               /\ \A j \in 1 .. i - 1 : s[j].kind \in kinds => j <= x
<1> DEFINE F == {j \in 1 .. i - 1 : s[j].kind \in kinds}
           S == {0} \cup F
<1>1. S \in SUBSET Int /\ S # {} /\ IsFiniteSet(S) /\ S \subseteq 0 .. i
  <2>1. S \subseteq 0 .. i
    OBVIOUS
  <2>2. IsFiniteSet(0 .. i)
    BY FS_Interval
  <2> HIDE DEF F
  <2>3. IsFiniteSet(S)
    BY <2>1, <2>2, FS_Subset
  <2> QED BY <2>1, <2>3
<1>2. Max(S) \in S /\ \A y \in S : Max(S) >= y
  <2> HIDE DEF S
  <2> QED BY <1>1, MaxIsGreatest
<1>3. LatestIn(s, kinds, i) = Max(S)
  BY DEF LatestIn
<1> QED BY <1>1, <1>2, <1>3

LEMMA LatestIs ==
    ASSUME NEW s, NEW kinds, NEW i \in Nat, NEW x \in Nat,
           x # 0 => x \in 1 .. i - 1 /\ s[x].kind \in kinds,
           \A j \in 1 .. i - 1 : s[j].kind \in kinds => j <= x
    PROVE  LatestIn(s, kinds, i) = x
<1> DEFINE y == LatestIn(s, kinds, i)
<1>1. /\ y \in Nat
      /\ y # 0 => y \in 1 .. i - 1 /\ s[y].kind \in kinds
      /\ \A j \in 1 .. i - 1 : s[j].kind \in kinds => j <= y
  BY LatestFacts
<1> HIDE DEF y
<1>2. x # 0 => x <= y
  BY <1>1
<1>3. y # 0 => y <= x
  BY <1>1
<1> QED BY <1>1, <1>2, <1>3 DEF y

(* One line more: what was said of the lines before stays ...              *)
LEMMA LatestPrefix ==
    ASSUME NEW s \in Seq(Lines), NEW l \in Lines, NEW kinds, NEW i \in 1 .. Len(s) + 1
    PROVE  LatestIn(Append(s, l), kinds, i) = LatestIn(s, kinds, i)
<1>1. \A j \in 1 .. i - 1 : Append(s, l)[j] = s[j]
  BY AppendFacts
<1>2. {j \in 1 .. i - 1 : Append(s, l)[j].kind \in kinds} = {j \in 1 .. i - 1 : s[j].kind \in kinds}
  BY <1>1
<1> QED BY <1>2 DEF LatestIn

(* ... and it is the latest of its kind.                                   *)
LEMMA LatestStep ==
    ASSUME NEW s \in Seq(Lines), NEW l \in Lines, NEW kinds
    PROVE  LatestIn(Append(s, l), kinds, Len(s) + 2) =
             IF l.kind \in kinds THEN Len(s) + 1 ELSE LatestIn(s, kinds, Len(s) + 1)
<1> DEFINE a == Append(s, l)
           n == Len(s)
           y == LatestIn(s, kinds, n + 1)
<1>1. /\ n \in Nat /\ a[n + 1] = l /\ \A i \in 1 .. n : a[i] = s[i]
  BY AppendFacts
<1>2. /\ y \in Nat
      /\ y # 0 => y \in 1 .. n /\ s[y].kind \in kinds
      /\ \A j \in 1 .. n : s[j].kind \in kinds => j <= y
  <2>1. n + 1 \in Nat /\ (n + 1) - 1 = n
    BY <1>1
  <2> QED BY <2>1, LatestFacts
<1> HIDE DEF a, y, n
<1>3. CASE l.kind \in kinds
  <2>1. LatestIn(a, kinds, n + 2) = n + 1
    BY <1>1, <1>3, LatestIs
  <2> QED BY <1>3, <2>1 DEF a, n
<1>4. CASE l.kind \notin kinds
  <2>1. y # 0 => y \in 1 .. (n + 2) - 1 /\ a[y].kind \in kinds
    BY <1>1, <1>2
  <2>2. ASSUME NEW j \in 1 .. (n + 2) - 1, a[j].kind \in kinds
        PROVE  j <= y
    <3>1. j # n + 1
      BY <1>1, <1>4, <2>2
    <3>2. j \in 1 .. n
      BY <1>1, <3>1
    <3> QED BY <1>1, <1>2, <2>2, <3>2
  <2>3. LatestIn(a, kinds, n + 2) = y
    BY <1>1, <1>2, <2>1, <2>2, LatestIs
  <2> QED BY <1>4, <2>3 DEF a, n, y
<1> QED BY <1>3, <1>4

LEMMA SectionFollowsCluster ==
    ASSUME NEW s, NEW i \in Nat
    PROVE  /\ ClusterIn(s, i) \in Nat /\ SectionIn(s, i) \in Nat
           /\ ClusterIn(s, i) <= SectionIn(s, i)
           /\ ClusterIn(s, i) # 0 =>
                /\ ClusterIn(s, i) \in 1 .. i - 1 /\ SectionIn(s, i) \in 1 .. i - 1
                /\ s[ClusterIn(s, i)].kind = "cluster"
                /\ s[SectionIn(s, i)].kind \in {"cluster", "P-states", "C-states"}
<1> DEFINE x == ClusterIn(s, i)
           y == SectionIn(s, i)
<1>1. /\ x \in Nat
      /\ x # 0 => x \in 1 .. i - 1 /\ s[x].kind \in {"cluster"}
  BY LatestFacts DEF ClusterIn
<1>2. /\ y \in Nat
      /\ y # 0 => y \in 1 .. i - 1 /\ s[y].kind \in {"cluster", "P-states", "C-states"}
      /\ \A j \in 1 .. i - 1 : s[j].kind \in {"cluster", "P-states", "C-states"} => j <= y
  BY LatestFacts DEF SectionIn
<1> HIDE DEF x, y
<1> QED BY <1>1, <1>2 DEF x, y

LEMMA RowsFacts ==
    ASSUME NEW s \in Seq(Lines), NEW l \in Lines, NEW b \in 0 .. Len(s)
    PROVE  /\ RowsIn(s, b, Len(s)) \in Nat
           /\ RowsIn(Append(s, l), b, Len(s) + 1) =
                RowsIn(s, b, Len(s)) + (IF IsRowIn(Append(s, l), Len(s) + 1) THEN 1 ELSE 0)
           /\ \A i \in 1 .. Len(s) : RowsIn(Append(s, l), b, i) = RowsIn(s, b, i)
           /\ RowsIn(s, Len(s), Len(s)) = 0
<1> DEFINE a == Append(s, l)
           n == Len(s)
           R == {j \in b + 1 .. n : IsRowIn(s, j)}
           Q == {j \in b + 1 .. n + 1 : IsRowIn(a, j)}
<1>1. /\ n \in Nat /\ a[n + 1] = l /\ \A i \in 1 .. n : a[i] = s[i]
  BY AppendFacts
<1>2. \A j \in 1 .. n : IsRowIn(a, j) <=> IsRowIn(s, j)
  BY <1>1 DEF IsRowIn
<1>3. IsFiniteSet(R) /\ Cardinality(R) \in Nat
  <2>1. IsFiniteSet(b + 1 .. n)
    BY <1>1, FS_Interval
  <2>2. R \subseteq b + 1 .. n
    OBVIOUS
  <2> HIDE DEF R
  <2> QED BY <2>1, <2>2, FS_Subset, FS_CardinalityType
<1>4. RowsIn(a, b, n + 1) = RowsIn(s, b, n) + (IF IsRowIn(a, n + 1) THEN 1 ELSE 0)
  <2>1. CASE IsRowIn(a, n + 1)
    <3>1. Q = R \cup {n + 1}
      <4> HIDE DEF a, n
      <4> QED BY <1>1, <1>2, <2>1 DEF n
    <3>2. n + 1 \notin R
      <4> HIDE DEF a, n
      <4> QED BY <1>1
    <3>3. Cardinality(Q) = Cardinality(R) + 1
      <4> HIDE DEF Q, R, n
      <4> QED BY <1>3, <3>1, <3>2, FS_AddElement
    <3>4. RowsIn(a, b, n + 1) = Cardinality(Q) /\ RowsIn(s, b, n) = Cardinality(R)
      BY DEF RowsIn
    <3> HIDE DEF Q, R, a, n
    <3> QED BY <2>1, <3>3, <3>4
  <2>2. CASE ~IsRowIn(a, n + 1)
    <3>1. Q = R
      <4> HIDE DEF a, n
      <4> QED BY <1>1, <1>2, <2>2 DEF n
    <3>2. RowsIn(a, b, n + 1) = Cardinality(Q) /\ RowsIn(s, b, n) = Cardinality(R)
      BY DEF RowsIn
    <3> HIDE DEF Q, R, a, n
    <3> QED BY <1>3, <2>2, <3>1, <3>2
  <2> QED BY <2>1, <2>2
<1>5. ASSUME NEW i \in 1 .. n
      PROVE  RowsIn(a, b, i) = RowsIn(s, b, i)
  <2>1. {j \in b + 1 .. i : IsRowIn(a, j)} = {j \in b + 1 .. i : IsRowIn(s, j)}
    <3> HIDE DEF a
    <3> QED BY <1>1, <1>2
  <2> QED BY <2>1 DEF RowsIn
<1>6. RowsIn(s, n, n) = 0
  <2>1. {j \in n + 1 .. n : IsRowIn(s, j)} = {}
    BY <1>1
  <2>2. Cardinality({}) = 0
    BY FS_EmptySet
  <2> QED BY <2>1, <2>2 DEF RowsIn
<1> QED BY <1>3, <1>4, <1>5, <1>6 DEF RowsIn

(* The last line of cluster k.                                             *)
LEMMA OwnFacts ==
    ASSUME NEW s \in Seq(Lines), NEW k
    PROVE  LET x == OwnIn(s, k)
           IN  /\ x \in 0 .. Len(s)
               /\ x # 0 => s[x].kind = "cluster" /\ s[x].id = k
               /\ \A j \in 1 .. Len(s) : s[j].kind = "cluster" /\ s[j].id = k => j <= x
<1> DEFINE n == Len(s)
           F == {j \in DOMAIN s : s[j].kind = "cluster" /\ s[j].id = k}
           S == {0} \cup F
<1>1. DOMAIN s = 1 .. n /\ n \in Nat
  OBVIOUS
<1>2. S \in SUBSET Int /\ S # {} /\ IsFiniteSet(S) /\ S \subseteq 0 .. n
  <2>1. S \subseteq 0 .. n
    BY <1>1
  <2>2. IsFiniteSet(0 .. n)
    BY <1>1, FS_Interval
  <2> HIDE DEF F, n
  <2>3. IsFiniteSet(S)
    BY <2>1, <2>2, FS_Subset
  <2> QED BY <1>1, <2>1, <2>3
<1>3. Max(S) \in S /\ \A y \in S : Max(S) >= y
  <2> HIDE DEF S
  <2> QED BY <1>2, MaxIsGreatest
<1>4. OwnIn(s, k) = Max(S)
  BY DEF OwnIn
<1> QED BY <1>1, <1>2, <1>3, <1>4

LEMMA OwnStep ==
    ASSUME NEW s \in Seq(Lines), NEW l \in Lines, NEW k
    PROVE  OwnIn(Append(s, l), k) =
             IF l.kind = "cluster" /\ l.id = k THEN Len(s) + 1 ELSE OwnIn(s, k)
<1> DEFINE a == Append(s, l)
           n == Len(s)
           x == OwnIn(s, k)
           y == OwnIn(a, k)
<1>1. /\ n \in Nat /\ a[n + 1] = l /\ \A i \in 1 .. n : a[i] = s[i]
      /\ a \in Seq(Lines) /\ Len(a) = n + 1
  BY AppendFacts
<1>2. /\ x \in 0 .. n
      /\ x # 0 => s[x].kind = "cluster" /\ s[x].id = k
      /\ \A j \in 1 .. n : s[j].kind = "cluster" /\ s[j].id = k => j <= x
  BY OwnFacts
<1>3. /\ y \in 0 .. n + 1
      /\ y # 0 => a[y].kind = "cluster" /\ a[y].id = k
      /\ \A j \in 1 .. n + 1 : a[j].kind = "cluster" /\ a[j].id = k => j <= y
  <2> HIDE DEF a, n
  <2> QED BY <1>1, OwnFacts
<1> HIDE DEF a, n, x, y
<1>4. CASE l.kind = "cluster" /\ l.id = k
  <2>1. y >= n + 1
    BY <1>1, <1>3, <1>4
  <2> QED BY <1>1, <1>3, <1>4, <2>1 DEF a, n, y
<1>5. CASE ~(l.kind = "cluster" /\ l.id = k)
  <2>1. y # n + 1
    BY <1>1, <1>3, <1>5
  <2>2. y \in 0 .. n
    BY <1>1, <1>3, <2>1
  <2>3. y # 0 => y <= x
    BY <1>1, <1>2, <1>3, <2>2
  <2>4. x # 0 => x <= y
    BY <1>1, <1>2, <1>3
  <2>5. x = y
    BY <1>1, <1>2, <2>2, <2>3, <2>4
  <2> QED BY <1>5, <2>5 DEF a, x, y
<1> QED BY <1>4, <1>5

(* The lines that give a row: a line more is one of them if it is a row of *)
(* the section that its cluster is in ...                                  *)
LEMMA RowLinesStep ==
    ASSUME NEW s \in Seq(Lines), NEW l \in Lines, NEW k, NEW sec, NEW n,
           ~(l.kind = "cluster" /\ l.id = k), OwnIn(s, k) # 0
    PROVE  LET a == Append(s, l)
               L == Len(s)
               here == /\ IsRowIn(a, L + 1)
                       /\ ClusterIn(s, L + 1) = OwnIn(s, k)
                       /\ s[SectionIn(s, L + 1)].kind = sec
                       /\ RowsIn(s, SectionIn(s, L + 1), L) + 1 = n + 1
           IN  RowLinesIn(a, k, sec, n) =
                 RowLinesIn(s, k, sec, n) \cup (IF here THEN {L + 1} ELSE {})
<1> DEFINE a == Append(s, l)
           L == Len(s)
           In(t, i) == /\ IsRowIn(t, i) /\ ClusterIn(t, i) = OwnIn(t, k)
                       /\ t[SectionIn(t, i)].kind = sec
                       /\ RowsIn(t, SectionIn(t, i), i) = n + 1
           here == /\ IsRowIn(a, L + 1)
                   /\ ClusterIn(s, L + 1) = OwnIn(s, k)
                   /\ s[SectionIn(s, L + 1)].kind = sec
                   /\ RowsIn(s, SectionIn(s, L + 1), L) + 1 = n + 1
<1>1. /\ L \in Nat /\ a[L + 1] = l /\ \A i \in 1 .. L : a[i] = s[i]
      /\ DOMAIN a = 1 .. L + 1 /\ DOMAIN s = 1 .. L
  BY AppendFacts
<1>2. OwnIn(a, k) = OwnIn(s, k)
  BY OwnStep
<1>3. ASSUME NEW i \in 1 .. L + 1
      PROVE  ClusterIn(a, i) = ClusterIn(s, i) /\ SectionIn(a, i) = SectionIn(s, i)
  BY LatestPrefix DEF ClusterIn, SectionIn
<1>4. ASSUME NEW i \in 1 .. L + 1, ClusterIn(s, i) = OwnIn(s, k)
      PROVE  SectionIn(s, i) \in 1 .. i - 1 /\ a[SectionIn(s, i)] = s[SectionIn(s, i)]
  <2>1. i \in Nat /\ ClusterIn(s, i) # 0
    BY <1>1, <1>4
  <2>2. SectionIn(s, i) \in 1 .. i - 1
    BY <2>1, SectionFollowsCluster
  <2> HIDE DEF a, L
  <2> QED BY <1>1, <2>2
<1>5. ASSUME NEW i \in 1 .. L
      PROVE  In(a, i) <=> In(s, i)
  <2>1. IsRowIn(a, i) <=> IsRowIn(s, i)
    BY <1>1 DEF IsRowIn
  <2>2. ClusterIn(a, i) = ClusterIn(s, i) /\ SectionIn(a, i) = SectionIn(s, i)
    BY <1>1, <1>3
  <2>3. ASSUME ClusterIn(s, i) = OwnIn(s, k)
        PROVE  /\ a[SectionIn(s, i)] = s[SectionIn(s, i)]
               /\ RowsIn(a, SectionIn(s, i), i) = RowsIn(s, SectionIn(s, i), i)
    <3>1. SectionIn(s, i) \in 1 .. i - 1 /\ a[SectionIn(s, i)] = s[SectionIn(s, i)]
      BY <1>1, <1>4, <2>3
    <3>2. SectionIn(s, i) \in 0 .. L
      BY <1>1, <3>1
    <3> QED BY <3>1, <3>2, RowsFacts
  <2> HIDE DEF a, L
  <2> QED BY <1>2, <2>1, <2>2, <2>3
<1>6. In(a, L + 1) <=> here
  <2>1. L + 1 \in 1 .. L + 1
    BY <1>1
  <2>2. ClusterIn(a, L + 1) = ClusterIn(s, L + 1) /\ SectionIn(a, L + 1) = SectionIn(s, L + 1)
    BY <1>3, <2>1
  <2>3. ASSUME ClusterIn(s, L + 1) = OwnIn(s, k), IsRowIn(a, L + 1)
        PROVE  /\ a[SectionIn(s, L + 1)] = s[SectionIn(s, L + 1)]
               /\ RowsIn(a, SectionIn(s, L + 1), L + 1) = RowsIn(s, SectionIn(s, L + 1), L) + 1
    <3>1. SectionIn(s, L + 1) \in 1 .. (L + 1) - 1 /\ a[SectionIn(s, L + 1)] = s[SectionIn(s, L + 1)]
      BY <1>4, <2>1, <2>3
    <3>2. SectionIn(s, L + 1) \in 0 .. L
      BY <1>1, <3>1
    <3> QED BY <2>3, <3>1, <3>2, RowsFacts
  <2> HIDE DEF a, L
  <2> QED BY <1>2, <2>2, <2>3 DEF L
<1>7. /\ RowLinesIn(a, k, sec, n) = {i \in 1 .. L + 1 : In(a, i)}
      /\ RowLinesIn(s, k, sec, n) = {i \in 1 .. L : In(s, i)}
  BY <1>1 DEF RowLinesIn
<1>8. 1 .. L + 1 = (1 .. L) \cup {L + 1}
  BY <1>1
<1> HIDE DEF In, a, L, here
<1>9. RowLinesIn(a, k, sec, n) = RowLinesIn(s, k, sec, n) \cup (IF here THEN {L + 1} ELSE {})
  BY <1>5, <1>6, <1>7, <1>8
<1> QED BY <1>9 DEF a, L, here

(* ... and a cluster that begins has none yet.                             *)
LEMMA NewClusterHasNoRows ==
    ASSUME NEW s \in Seq(Lines), NEW l \in Lines, l.kind = "cluster", NEW sec, NEW n
    PROVE  RowLinesIn(Append(s, l), l.id, sec, n) = {}
<1> DEFINE a == Append(s, l)
<1>1. OwnIn(a, l.id) = Len(s) + 1
  BY OwnStep
<1>2. DOMAIN a = 1 .. Len(s) + 1 /\ Len(s) \in Nat
  BY AppendFacts
<1> HIDE DEF a
<1>3. ASSUME NEW i \in 1 .. Len(s) + 1
      PROVE  ClusterIn(a, i) # Len(s) + 1
  <2>1. i \in Nat
    BY <1>2
  <2>2. ClusterIn(a, i) # 0 => ClusterIn(a, i) \in 1 .. i - 1
    BY <2>1, SectionFollowsCluster
  <2> QED BY <1>2, <2>2
<1> QED BY <1>1, <1>2, <1>3 DEF RowLinesIn, a

(* So a row is the one line's, or what it was.                             *)
LEMMA RowWrittenStep ==
    ASSUME NEW s \in Seq(Lines), NEW l \in Lines, NEW k, NEW sec, NEW n,
           ~(l.kind = "cluster" /\ l.id = k), OwnIn(s, k) # 0
    PROVE  LET a == Append(s, l)
               L == Len(s)
               here == /\ IsRowIn(a, L + 1)
                       /\ ClusterIn(s, L + 1) = OwnIn(s, k)
                       /\ s[SectionIn(s, L + 1)].kind = sec
                       /\ RowsIn(s, SectionIn(s, L + 1), L) + 1 = n + 1
           IN  RowWrittenIn(a, k, sec, n) =
                 IF here THEN RowOf(l) ELSE RowWrittenIn(s, k, sec, n)
<1> DEFINE a == Append(s, l)
           L == Len(s)
           here == /\ IsRowIn(a, L + 1)
                   /\ ClusterIn(s, L + 1) = OwnIn(s, k)
                   /\ s[SectionIn(s, L + 1)].kind = sec
                   /\ RowsIn(s, SectionIn(s, L + 1), L) + 1 = n + 1
           R == RowLinesIn(s, k, sec, n)
           Q == RowLinesIn(a, k, sec, n)
<1>1. /\ L \in Nat /\ a[L + 1] = l /\ \A i \in 1 .. L : a[i] = s[i]
      /\ DOMAIN s = 1 .. L
  BY AppendFacts
<1>2. Q = R \cup (IF here THEN {L + 1} ELSE {})
  BY RowLinesStep
<1>3. R \subseteq 1 .. L /\ IsFiniteSet(R)
  <2>1. R \subseteq 1 .. L
    BY <1>1 DEF RowLinesIn
  <2>2. IsFiniteSet(1 .. L)
    BY <1>1, FS_Interval
  <2> HIDE DEF R, L
  <2> QED BY <2>1, <2>2, FS_Subset
<1>4. /\ RowWrittenIn(a, k, sec, n) = IF Q = {} THEN NoRow ELSE RowOf(a[Max(Q)])
      /\ RowWrittenIn(s, k, sec, n) = IF R = {} THEN NoRow ELSE RowOf(s[Max(R)])
  BY DEF RowWrittenIn
<1> HIDE DEF a, L, here, R, Q
<1>5. CASE here
  <2>1. Q = R \cup {L + 1}
    BY <1>2, <1>5
  <2>2. /\ Q \in SUBSET Int /\ IsFiniteSet(Q) /\ L + 1 \in Q
        /\ \A y \in Q : y <= L + 1
    BY <1>1, <1>3, <2>1, FS_AddElement
  <2>3. Max(Q) = L + 1
    BY <2>2, MaxIs
  <2> QED BY <1>1, <1>4, <1>5, <2>2, <2>3 DEF a, L, here
<1>6. CASE ~here
  <2>1. Q = R
    BY <1>2, <1>6
  <2>2. R # {} => Max(R) \in R
    BY <1>1, <1>3, MaxIsGreatest
  <2>3. RowWrittenIn(a, k, sec, n) = RowWrittenIn(s, k, sec, n)
    BY <1>1, <1>3, <1>4, <2>1, <2>2
  <2> QED BY <1>6, <2>3 DEF a, L, here
<1> QED BY <1>5, <1>6

-----------------------------------------------------------------------------
(* Whether line i fits those before it.                                    *)
FitsIn(s, i) ==
    /\ s[i].kind = "clusters" =>
          \A j \in 1 .. i - 1 : s[j].kind = "clusters" => s[j].n = 0
    /\ s[i].kind = "cluster" =>
          /\ \E j \in 1 .. i - 1 : s[j].kind = "clusters" /\ s[i].id < s[j].n
          /\ \A j \in 1 .. i - 1 :
                s[j].kind = "cluster" /\ s[j].id = s[i].id => s[j].caps = 0
    /\ s[i].kind \notin {"clusters", "cluster"} => ClusterIn(s, i) # 0
    /\ IsRowIn(s, i) /\ s[SectionIn(s, i)].kind = "P-states" =>
          /\ s[i].kind = "speed row"
          /\ RowsIn(s, SectionIn(s, i), i) <= s[ClusterIn(s, i)].caps
    /\ IsRowIn(s, i) /\ s[SectionIn(s, i)].kind = "C-states" =>
          /\ s[i].kind # "incomplete row"
          /\ RowsIn(s, SectionIn(s, i), i) <= s[ClusterIn(s, i)].cstates

(* The parser's variables are what the lines it has read say.  The number  *)
(* of clusters is the only one given that is not 0.                        *)
ClustersMatch ==
    /\ \A j \in 1 .. Len(lines) : lines[j].kind = "clusters" => lines[j].n \in {0, clusters}
    /\ clusters # 0 =>
          \E j \in 1 .. Len(lines) : lines[j].kind = "clusters" /\ lines[j].n = clusters
    /\ \A j \in 1 .. Len(lines) : lines[j].kind = "cluster" => lines[j].id < clusters

(* An entry is that of its cluster's last line, and only that one may have *)
(* given it P-states.                                                      *)
EntriesMatch ==
    \A k \in 0 .. clusters - 1 :
        /\ table[k].state = "unset" <=> OwnIn(lines, k) = 0
        /\ OwnIn(lines, k) # 0 =>
              /\ table[k].caps = lines[OwnIn(lines, k)].caps
              /\ table[k].cstates = lines[OwnIn(lines, k)].cstates
        /\ \A j \in 1 .. Len(lines) :
              lines[j].kind = "cluster" /\ lines[j].id = k =>
                  j = OwnIn(lines, k) \/ lines[j].caps = 0

(* The current cluster is that of the last line that names one, its state  *)
(* the section last begun, and its counter counts that section's rows.     *)
SectionMatch ==
    LET own == ClusterIn(lines, Len(lines) + 1)
        b   == SectionIn(lines, Len(lines) + 1)
    IN  /\ current = -1 <=> own = 0
        /\ own # 0 =>
              /\ current = lines[own].id /\ OwnIn(lines, current) = own
              /\ table[current].state =
                    IF lines[b].kind = "cluster" THEN "counts" ELSE lines[b].kind
              /\ lines[b].kind = "P-states" => nextP = RowsIn(lines, b, Len(lines))
              /\ lines[b].kind = "C-states" => nextC = RowsIn(lines, b, Len(lines))

RowsMatch ==
    \A k \in 0 .. clusters - 1 : table[k].state # "unset" =>
        /\ \A n \in DOMAIN table[k].p :
              table[k].p[n] = RowWrittenIn(lines, k, "P-states", n)
        /\ \A n \in DOMAIN table[k].c :
              table[k].c[n] = RowWrittenIn(lines, k, "C-states", n)

FileFits == \A i \in 1 .. Len(lines) : FitsIn(lines, i)

Match == /\ ClustersMatch /\ EntriesMatch /\ SectionMatch /\ RowsMatch
         /\ FileFits

MInv == /\ IInv /\ lines \in Seq(Lines)
        /\ result # "refused" => Match
        /\ result = "refused" => (FileFits => TakenForSecond)

-----------------------------------------------------------------------------
(* One line more leaves what the earlier ones say, and fits by what they   *)
(* say at their end.                                                       *)
LineFitsAfter(s, l) ==
    LET n == Len(s)
        b == SectionIn(s, n + 1)
        own == ClusterIn(s, n + 1)
        row == l.kind \in {"speed row", "name row", "incomplete row"}
    IN  /\ l.kind = "clusters" =>
              \A j \in 1 .. n : s[j].kind = "clusters" => s[j].n = 0
        /\ l.kind = "cluster" =>
              /\ \E j \in 1 .. n : s[j].kind = "clusters" /\ l.id < s[j].n
              /\ \A j \in 1 .. n : s[j].kind = "cluster" /\ s[j].id = l.id => s[j].caps = 0
        /\ l.kind \notin {"clusters", "cluster"} => own # 0
        /\ row /\ s[b].kind = "P-states" =>
              /\ l.kind = "speed row"
              /\ RowsIn(s, b, n) + 1 <= s[own].caps
        /\ row /\ s[b].kind = "C-states" =>
              /\ l.kind # "incomplete row"
              /\ RowsIn(s, b, n) + 1 <= s[own].cstates

LEMMA FitsPrefix ==
    ASSUME NEW s \in Seq(Lines), NEW l \in Lines, NEW i \in 1 .. Len(s)
    PROVE  FitsIn(Append(s, l), i) <=> FitsIn(s, i)
<1> DEFINE a == Append(s, l)
           x == ClusterIn(s, i)
           b == SectionIn(s, i)
<1>1. \A j \in 1 .. i : a[j] = s[j]
  BY AppendFacts
<1>2. IsRowIn(a, i) <=> IsRowIn(s, i)
  BY <1>1 DEF IsRowIn
<1>3. ClusterIn(a, i) = x /\ SectionIn(a, i) = b
  BY LatestPrefix DEF ClusterIn, SectionIn
<1>4. x # 0 => /\ x \in 1 .. i - 1 /\ b \in 1 .. i - 1
               /\ a[x] = s[x] /\ a[b] = s[b]
  BY <1>1, SectionFollowsCluster
<1>5. x # 0 => RowsIn(a, b, i) = RowsIn(s, b, i)
  <2>1. x # 0 => b \in 0 .. Len(s)
    BY <1>4
  <2> QED BY <2>1, RowsFacts
<1>6. IsRowIn(s, i) => s[i].kind \notin {"clusters", "cluster"}
  BY DEF IsRowIn
<1>7. \A j \in 1 .. i - 1 : a[j] = s[j]
  BY <1>1
<1>8. a[i] = s[i]
  BY <1>1
<1> HIDE DEF a, x, b
<1>9. CASE x = 0 /\ s[i].kind \notin {"clusters", "cluster"}
  BY <1>3, <1>8, <1>9 DEF FitsIn, a, x
<1>10. CASE x # 0 /\ s[i].kind \notin {"clusters", "cluster"}
  BY <1>2, <1>3, <1>4, <1>5, <1>8, <1>10 DEF FitsIn, a, x, b
<1>11. CASE s[i].kind \in {"clusters", "cluster"}
  <2>1. ~IsRowIn(s, i) /\ ~IsRowIn(a, i)
    BY <1>2, <1>6, <1>11
  <2> QED BY <1>7, <1>8, <1>11, <2>1 DEF FitsIn, a
<1> QED BY <1>9, <1>10, <1>11

LEMMA FitsLast ==
    ASSUME NEW s \in Seq(Lines), NEW l \in Lines
    PROVE  FitsIn(Append(s, l), Len(s) + 1) <=> LineFitsAfter(s, l)
<1> DEFINE a == Append(s, l)
           n == Len(s)
           x == ClusterIn(s, n + 1)
           b == SectionIn(s, n + 1)
<1>1. n \in Nat /\ a[n + 1] = l /\ \A j \in 1 .. n : a[j] = s[j]
  BY AppendFacts
<1>2. IsRowIn(a, n + 1) <=> l.kind \in {"speed row", "name row", "incomplete row"}
  BY <1>1 DEF IsRowIn
<1>3. ClusterIn(a, n + 1) = x /\ SectionIn(a, n + 1) = b
  <2>1. n + 1 \in 1 .. Len(s) + 1
    BY <1>1
  <2> QED BY <2>1, LatestPrefix DEF ClusterIn, SectionIn
<1>4. x # 0 => /\ x \in 1 .. n /\ b \in 1 .. n
               /\ a[x] = s[x] /\ a[b] = s[b]
  <2>1. n + 1 \in Nat /\ (n + 1) - 1 = n
    BY <1>1
  <2>2. x # 0 => x \in 1 .. n /\ b \in 1 .. n
    BY <2>1, SectionFollowsCluster
  <2> HIDE DEF a, x, b, n
  <2> QED BY <1>1, <2>2
<1>5. x # 0 /\ IsRowIn(a, n + 1) => RowsIn(a, b, n + 1) = RowsIn(s, b, n) + 1
  <2>1. x # 0 => b \in 0 .. Len(s)
    BY <1>1, <1>4
  <2> QED BY <2>1, RowsFacts
<1>6. (n + 1) - 1 = n
  BY <1>1
<1> HIDE DEF a, x, b, n
<1>9. CASE x = 0 /\ l.kind \notin {"clusters", "cluster"}
  BY <1>1, <1>3, <1>9 DEF FitsIn, LineFitsAfter, a, x, n
<1>10. CASE x # 0 /\ l.kind \notin {"clusters", "cluster"}
  BY <1>1, <1>2, <1>3, <1>4, <1>5, <1>10 DEF FitsIn, LineFitsAfter, a, x, b, n
<1>11. CASE l.kind \in {"clusters", "cluster"}
  <2>1. ~IsRowIn(a, n + 1)
    BY <1>2, <1>11
  <2>2. \A j \in 1 .. (n + 1) - 1 : a[j] = s[j]
    BY <1>1, <1>6
  <2>3. FitsIn(a, n + 1) <=>
          /\ l.kind = "clusters" =>
                \A j \in 1 .. n : s[j].kind = "clusters" => s[j].n = 0
          /\ l.kind = "cluster" =>
                /\ \E j \in 1 .. n : s[j].kind = "clusters" /\ l.id < s[j].n
                /\ \A j \in 1 .. n : s[j].kind = "cluster" /\ s[j].id = l.id => s[j].caps = 0
    BY <1>1, <1>6, <1>11, <2>1, <2>2 DEF FitsIn
  <2> QED BY <1>11, <2>3 DEF LineFitsAfter, a, n
<1> QED BY <1>9, <1>10, <1>11 DEF a, n

LEMMA FileFitsStep ==
    ASSUME lines \in Seq(Lines), NEW line \in Lines, lines' = Append(lines, line)
    PROVE  FileFits' <=> FileFits /\ LineFitsAfter(lines, line)
<1> DEFINE a == Append(lines, line)
           n == Len(lines)
<1>1. Len(a) = n + 1 /\ n \in Nat
  BY AppendFacts
<1>2. FileFits' <=> \A i \in 1 .. n + 1 : FitsIn(a, i)
  BY <1>1 DEF FileFits
<1>3. FileFits <=> \A i \in 1 .. n : FitsIn(lines, i)
  BY DEF FileFits
<1>4. \A i \in 1 .. n : FitsIn(a, i) <=> FitsIn(lines, i)
  BY FitsPrefix
<1>5. FitsIn(a, n + 1) <=> LineFitsAfter(lines, line)
  BY FitsLast
<1> HIDE DEF a, n
<1> QED BY <1>1, <1>2, <1>3, <1>4, <1>5

LEMMA LineTypes ==
    ASSUME lines \in Seq(Lines)
    PROVE  /\ Len(lines) \in Nat
           /\ \A j \in 1 .. Len(lines) :
                 /\ lines[j] \in Lines
                 /\ lines[j].kind = "clusters" => lines[j].n \in Nat
                 /\ lines[j].kind = "cluster" =>
                       lines[j].id \in Nat /\ lines[j].caps \in Nat /\ lines[j].cstates \in Nat
<1>1. Len(lines) \in Nat /\ \A j \in 1 .. Len(lines) : lines[j] \in Lines
  OBVIOUS
<1> QED BY <1>1, EnergyModelAssumption

(* The clusters a file may name are those below the number it gave.        *)
LEMMA ClusterKnown ==
    ASSUME IInv, lines \in Seq(Lines), ClustersMatch, NEW id \in Nat
    PROVE  id < clusters <=>
              \E j \in 1 .. Len(lines) : lines[j].kind = "clusters" /\ id < lines[j].n
<1>1. clusters \in Nat
  BY DEF IInv, TableOK
<1>2. \A j \in 1 .. Len(lines) : lines[j].kind = "clusters" =>
          lines[j].n = clusters \/ lines[j].n = 0
  BY DEF ClustersMatch
<1>3. clusters # 0 =>
          \E j \in 1 .. Len(lines) : lines[j].kind = "clusters" /\ lines[j].n = clusters
  BY DEF ClustersMatch
<1> QED BY <1>1, <1>2, <1>3

LEMMA ReadClustersDecides ==
    ASSUME IInv, lines \in Seq(Lines), Match, NEW line \in Lines, ReadClusters(line)
    PROVE  result' = "refused" <=> ~LineFitsAfter(lines, line)
<1>1. line.kind = "clusters" /\ result = "reading"
  BY DEF ReadClusters, Fetch
<1>2. result' = "refused" <=> clusters # 0
  BY <1>1 DEF ReadClusters, Refuse
<1>3. LineFitsAfter(lines, line) <=>
         \A j \in 1 .. Len(lines) : lines[j].kind = "clusters" => lines[j].n = 0
  BY <1>1 DEF LineFitsAfter
<1> QED BY <1>2, <1>3 DEF Match, ClustersMatch

LEMMA ReadClusterDecides ==
    ASSUME IInv, lines \in Seq(Lines), Match, NEW line \in Lines, ReadCluster(line)
    PROVE  /\ result' # "refused" => LineFitsAfter(lines, line)
           /\ result' = "refused" /\ LineFitsAfter(lines, line) => TakenForSecond'
<1>1. line.kind = "cluster" /\ result = "reading" /\ lines' = Append(lines, line)
      /\ line.id \in Nat
  BY EnergyModelAssumption DEF ReadCluster, Fetch
<1> DEFINE own == OwnIn(lines, line.id)
           known == \E j \in 1 .. Len(lines) : lines[j].kind = "clusters" /\ line.id < lines[j].n
           empty == \A j \in 1 .. Len(lines) :
                       lines[j].kind = "cluster" /\ lines[j].id = line.id => lines[j].caps = 0
<1>2. LineFitsAfter(lines, line) <=> known /\ empty
  BY <1>1 DEF LineFitsAfter
<1>3. known <=> line.id < clusters
  BY <1>1, ClusterKnown DEF Match
<1>7. clusters \in Nat
  BY DEF IInv, TableOK
<1>4. result' = "refused" <=> line.id >= clusters \/ table[line.id].caps # 0
  <2>1. line.id >= clusters <=> ~(line.id < clusters)
    BY <1>1, <1>7
  <2> QED BY <1>1, <2>1 DEF ReadCluster, Refuse
<1>5. result' = "refused" => table' = table
  BY <1>1 DEF ReadCluster, Refuse, Keep
<1>6. lines'[Len(lines')] = line
  BY <1>1, AppendFacts
<1> HIDE DEF known
<1>8. CASE line.id < clusters
  <2>1. line.id \in 0 .. clusters - 1
    BY <1>1, <1>7, <1>8
  <2>2. /\ table[line.id].state = "unset" <=> own = 0
        /\ own # 0 => table[line.id].caps = lines[own].caps
        /\ \A j \in 1 .. Len(lines) :
              lines[j].kind = "cluster" /\ lines[j].id = line.id =>
                  j = own \/ lines[j].caps = 0
    BY <2>1 DEF Match, EntriesMatch
  <2>3. /\ own \in 0 .. Len(lines)
        /\ own # 0 => lines[own].kind = "cluster" /\ lines[own].id = line.id
        /\ \A j \in 1 .. Len(lines) : lines[j].kind = "cluster" /\ lines[j].id = line.id => j <= own
    BY OwnFacts
  <2>4. Len(lines) \in Nat
    BY LineTypes
  <2> HIDE DEF own
  <2>5. CASE own = 0
    <3>1. empty
      BY <2>3, <2>4, <2>5
    <3>2. result' = "refused" => TakenForSecond'
      <4> SUFFICES ASSUME result' = "refused" PROVE TakenForSecond'
        OBVIOUS
      <4>1. table[line.id].caps # 0
        BY <1>1, <1>4, <1>7, <1>8
      <4>2. table' = table
        BY <1>5
      <4> QED BY <1>1, <1>6, <2>2, <2>5, <4>1, <4>2 DEF TakenForSecond
    <3> QED BY <1>2, <1>3, <1>8, <3>1, <3>2
  <2>6. CASE own # 0
    <3>1. own \in 1 .. Len(lines)
      BY <2>3, <2>4, <2>6
    <3>2. empty <=> lines[own].caps = 0
      BY <2>2, <2>3, <2>6, <3>1
    <3>3. result' = "refused" <=> lines[own].caps # 0
      BY <1>1, <1>4, <1>7, <1>8, <2>2, <2>6
    <3> HIDE DEF empty
    <3> QED BY <1>2, <1>3, <1>8, <3>2, <3>3
  <2> QED BY <2>5, <2>6
<1>9. CASE ~(line.id < clusters)
  <2> HIDE DEF empty
  <2>1. result' = "refused" /\ ~LineFitsAfter(lines, line)
    BY <1>1, <1>2, <1>3, <1>4, <1>7, <1>9
  <2> QED BY <2>1
<1> QED BY <1>8, <1>9

(* What the parser's state says of the lines read so far.                  *)
LEMMA InSection ==
    ASSUME IInv, lines \in Seq(Lines), Match
    PROVE  LET n == Len(lines)
               own == ClusterIn(lines, n + 1)
               b == SectionIn(lines, n + 1)
           IN  /\ n \in Nat /\ (current = -1 <=> own = 0)
               /\ Section = "none" <=> own = 0
               /\ own # 0 =>
                     /\ own \in 1 .. n /\ b \in 1 .. n /\ own <= b
                     /\ lines[own].kind = "cluster" /\ OwnIn(lines, current) = own
                     /\ current = lines[own].id /\ current \in 0 .. clusters - 1
                     /\ table[current].caps = lines[own].caps
                     /\ table[current].cstates = lines[own].cstates
                     /\ Here = table[current] /\ Section = table[current].state
                     /\ lines[b].kind \in {"cluster", "P-states", "C-states"}
                     /\ Section = "P-states" <=> lines[b].kind = "P-states"
                     /\ Section = "C-states" <=> lines[b].kind = "C-states"
                     /\ Section = "counts" <=> lines[b].kind = "cluster"
                     /\ Section = "P-states" => nextP = RowsIn(lines, b, n)
                     /\ Section = "C-states" => nextC = RowsIn(lines, b, n)
<1> DEFINE n == Len(lines)
           own == ClusterIn(lines, n + 1)
           b == SectionIn(lines, n + 1)
<1>1. n \in Nat /\ n + 1 \in Nat /\ (n + 1) - 1 = n
  BY LineTypes
<1>2. /\ own <= b
      /\ own # 0 => /\ own \in 1 .. n /\ b \in 1 .. n
                    /\ lines[own].kind = "cluster"
                    /\ lines[b].kind \in {"cluster", "P-states", "C-states"}
  BY <1>1, SectionFollowsCluster
<1>3. /\ current = -1 <=> own = 0
      /\ own # 0 =>
              /\ current = lines[own].id /\ OwnIn(lines, current) = own
              /\ table[current].state =
                    IF lines[b].kind = "cluster" THEN "counts" ELSE lines[b].kind
              /\ lines[b].kind = "P-states" => nextP = RowsIn(lines, b, Len(lines))
              /\ lines[b].kind = "C-states" => nextC = RowsIn(lines, b, Len(lines))
  BY DEF Match, SectionMatch
<1>4. current # -1 => current \in 0 .. clusters - 1 /\ table[current].state \in EntryStates
  BY CurrentEntry DEF IsEntry
<1>5. current # -1 /\ OwnIn(lines, current) # 0 =>
              /\ table[current].caps = lines[OwnIn(lines, current)].caps
              /\ table[current].cstates = lines[OwnIn(lines, current)].cstates
  BY <1>4 DEF Match, EntriesMatch
<1>6. Section = IF current = -1 THEN "none" ELSE table[current].state
  BY DEF Section, Here
<1> HIDE DEF own, b, n
<1>7. Section = "none" <=> own = 0
  BY <1>3, <1>4, <1>6 DEF EntryStates
<1>8. ASSUME own # 0
      PROVE  /\ Here = table[current] /\ Section = table[current].state
             /\ Section = "P-states" <=> lines[b].kind = "P-states"
             /\ Section = "C-states" <=> lines[b].kind = "C-states"
             /\ Section = "counts" <=> lines[b].kind = "cluster"
  BY <1>2, <1>3, <1>6, <1>8 DEF Here
<1>9. ASSUME own # 0
      PROVE  /\ table[current].caps = lines[own].caps
             /\ table[current].cstates = lines[own].cstates
             /\ current \in 0 .. clusters - 1
  BY <1>3, <1>4, <1>5, <1>9
<1> QED BY <1>1, <1>2, <1>3, <1>7, <1>8, <1>9 DEF own, b, n

LEMMA HeadingDecides ==
    ASSUME IInv, lines \in Seq(Lines), Match, NEW line \in Lines,
           ReadPHeading(line) \/ ReadCHeading(line) \/ ReadWakeup(line)
    PROVE  result' = "refused" <=> ~LineFitsAfter(lines, line)
<1> DEFINE own == ClusterIn(lines, Len(lines) + 1)
<1>1. line.kind \in {"P-states", "C-states", "wakeup"} /\ result = "reading"
  BY DEF ReadPHeading, ReadCHeading, ReadWakeup, Fetch
<1>2. result' = "refused" <=> current = -1
  BY <1>1 DEF ReadPHeading, ReadCHeading, ReadWakeup, Refuse
<1>3. LineFitsAfter(lines, line) <=> own # 0
  BY <1>1 DEF LineFitsAfter
<1>4. current = -1 <=> own = 0
  BY InSection
<1> QED BY <1>2, <1>3, <1>4

LEMMA RowDecides ==
    ASSUME IInv, lines \in Seq(Lines), Match, NEW line \in Lines,
           ReadPRow(line) \/ ReadCRow(line) \/ ReadOtherRow(line)
    PROVE  result' = "refused" <=> ~LineFitsAfter(lines, line)
<1> DEFINE n == Len(lines)
           own == ClusterIn(lines, n + 1)
           b == SectionIn(lines, n + 1)
<1>1. line.kind \in {"speed row", "name row", "incomplete row"} /\ result = "reading"
  BY DEF ReadPRow, ReadCRow, ReadOtherRow, FetchRow, Fetch
<1>2. LineFitsAfter(lines, line) <=>
         /\ own # 0
         /\ lines[b].kind = "P-states" =>
              line.kind = "speed row" /\ RowsIn(lines, b, n) + 1 <= lines[own].caps
         /\ lines[b].kind = "C-states" =>
              line.kind # "incomplete row" /\ RowsIn(lines, b, n) + 1 <= lines[own].cstates
  BY <1>1 DEF LineFitsAfter
<1>3. /\ Section = "none" <=> own = 0
      /\ own # 0 =>
           /\ own \in 1 .. n /\ lines[own].kind = "cluster"
           /\ Here.caps = lines[own].caps /\ Here.cstates = lines[own].cstates
           /\ Section = "P-states" <=> lines[b].kind = "P-states"
           /\ Section = "C-states" <=> lines[b].kind = "C-states"
           /\ Section = "counts" <=> lines[b].kind = "cluster"
           /\ Section = "P-states" => nextP = RowsIn(lines, b, n)
           /\ Section = "C-states" => nextC = RowsIn(lines, b, n)
  <2> HIDE DEF n
  <2> QED BY InSection DEF n
<1>4. own # 0 => lines[own].caps \in Nat /\ lines[own].cstates \in Nat
  BY <1>3, LineTypes
<1>5. nextP \in Nat /\ nextC \in Nat
  BY DEF IInv, CountersOK
<1> HIDE DEF own, b, n
<1>6. CASE ReadPRow(line)
  <2>1. Section = "P-states" /\ own # 0 /\ lines[b].kind = "P-states"
    BY <1>3, <1>6 DEF ReadPRow
  <2>2. result' = "refused" <=> line.kind # "speed row" \/ nextP >= Here.caps
    <3>1. nextP >= Here.caps <=> ~(nextP < Here.caps)
      BY <1>3, <1>4, <1>5, <2>1
    <3> QED BY <1>1, <1>6, <3>1 DEF ReadPRow, Refuse
  <2>3. nextP >= Here.caps <=> ~(RowsIn(lines, b, n) + 1 <= lines[own].caps)
    BY <1>3, <1>4, <1>5, <2>1
  <2> QED BY <1>2, <2>1, <2>2, <2>3
<1>7. CASE ReadCRow(line)
  <2>1. Section = "C-states" /\ own # 0 /\ lines[b].kind = "C-states"
    BY <1>3, <1>7 DEF ReadCRow
  <2>2. result' = "refused" <=> line.kind = "incomplete row" \/ nextC >= Here.cstates
    <3>1. nextC >= Here.cstates <=> ~(nextC < Here.cstates)
      BY <1>3, <1>4, <1>5, <2>1
    <3> QED BY <1>1, <1>7, <3>1 DEF ReadCRow, Refuse
  <2>3. nextC >= Here.cstates <=> ~(RowsIn(lines, b, n) + 1 <= lines[own].cstates)
    BY <1>3, <1>4, <1>5, <2>1
  <2> QED BY <1>2, <2>1, <2>2, <2>3
<1>8. CASE ReadOtherRow(line)
  <2>1. /\ Section = "none" \/ Section = "counts"
        /\ result' = "refused" <=> Section = "none"
    BY <1>1, <1>8 DEF ReadOtherRow, Refuse
  <2>2. Section = "counts" => own # 0 /\ lines[b].kind = "cluster"
    BY <1>3
  <2> QED BY <1>2, <1>3, <2>1, <2>2
<1> QED BY <1>6, <1>7, <1>8

LEMMA Decides ==
    ASSUME IInv, lines \in Seq(Lines), Match, NEW line \in Lines, ReadLine(line)
    PROVE  /\ lines' = Append(lines, line) /\ result = "reading"
           /\ result' # "refused" => LineFitsAfter(lines, line)
           /\ result' = "refused" => (LineFitsAfter(lines, line) => TakenForSecond')
<1>1. lines' = Append(lines, line) /\ result = "reading"
  BY DEF ReadLine, ReadClusters, ReadCluster, ReadPHeading, ReadCHeading, ReadWakeup,
         ReadPRow, ReadCRow, ReadOtherRow, FetchRow, Fetch
<1> QED BY <1>1, ReadClustersDecides, ReadClusterDecides, HeadingDecides, RowDecides
        DEF ReadLine

-----------------------------------------------------------------------------
(* A line that is taken keeps the match.                                   *)
Takes(line) == /\ IInv /\ lines \in Seq(Lines) /\ Match
               /\ line \in Lines /\ lines' = Append(lines, line)

LEMMA HereStep ==
    ASSUME NEW line, Takes(line)
    PROVE  LET n == Len(lines)
               b == SectionIn(lines, n + 1)
               d == SectionIn(lines', Len(lines') + 1)
           IN  /\ n \in Nat /\ Len(lines') = n + 1 /\ lines' \in Seq(Lines)
               /\ lines'[n + 1] = line /\ \A j \in 1 .. n : lines'[j] = lines[j]
               /\ ClusterIn(lines', Len(lines') + 1) =
                    IF line.kind = "cluster" THEN n + 1 ELSE ClusterIn(lines, n + 1)
               /\ d = IF line.kind \in {"cluster", "P-states", "C-states"}
                      THEN n + 1 ELSE b
               /\ d = n + 1 => RowsIn(lines', d, Len(lines')) = 0
               /\ ClusterIn(lines, n + 1) # 0 /\ d # n + 1 =>
                    RowsIn(lines', d, Len(lines')) =
                      RowsIn(lines, b, n) +
                        (IF line.kind \in {"speed row", "name row", "incomplete row"} THEN 1 ELSE 0)
<1> DEFINE n == Len(lines)
           b == SectionIn(lines, n + 1)
<1>1. lines \in Seq(Lines) /\ line \in Lines /\ lines' = Append(lines, line)
  BY DEF Takes
<1>2. /\ n \in Nat /\ Len(lines') = n + 1 /\ lines' \in Seq(Lines)
      /\ lines'[n + 1] = line /\ \A j \in 1 .. n : lines'[j] = lines[j]
  BY <1>1, AppendFacts
<1>3. Len(lines') + 1 = Len(lines) + 2
  BY <1>2
<1>4. ClusterIn(lines', Len(lines') + 1) =
         IF line.kind = "cluster" THEN n + 1 ELSE ClusterIn(lines, n + 1)
  BY <1>1, <1>3, LatestStep DEF ClusterIn
<1>5. SectionIn(lines', Len(lines') + 1) =
         IF line.kind \in {"cluster", "P-states", "C-states"} THEN n + 1 ELSE b
  <2> DEFINE kinds == {"cluster", "P-states", "C-states"}
  <2>1. /\ SectionIn(lines', Len(lines') + 1) = LatestIn(lines', kinds, Len(lines) + 2)
        /\ b = LatestIn(lines, kinds, n + 1)
    BY <1>3 DEF SectionIn
  <2> HIDE DEF kinds
  <2>2. LatestIn(Append(lines, line), kinds, Len(lines) + 2) =
          IF line.kind \in kinds THEN Len(lines) + 1 ELSE LatestIn(lines, kinds, Len(lines) + 1)
    BY <1>1, LatestStep
  <2>3. SectionIn(lines', Len(lines') + 1) = IF line.kind \in kinds THEN n + 1 ELSE b
    BY <1>1, <2>1, <2>2
  <2> QED BY <2>3 DEF kinds
<1>6. RowsIn(lines', n + 1, Len(lines')) = 0
  <2>1. Len(lines') \in 0 .. Len(lines')
    BY <1>2
  <2> QED BY <1>1, <1>2, <2>1, RowsFacts
<1>7. IsRowIn(lines', n + 1) <=> line.kind \in {"speed row", "name row", "incomplete row"}
  BY <1>2 DEF IsRowIn
<1>8. ClusterIn(lines, n + 1) # 0 => b \in 0 .. n
  <2>1. n + 1 \in Nat /\ (n + 1) - 1 = n
    BY <1>2
  <2> QED BY <1>2, <2>1, SectionFollowsCluster
<1>9. ClusterIn(lines, n + 1) # 0 =>
         RowsIn(lines', b, Len(lines')) = RowsIn(lines, b, n) +
            (IF line.kind \in {"speed row", "name row", "incomplete row"} THEN 1 ELSE 0)
  <2> SUFFICES ASSUME b \in 0 .. n
               PROVE  RowsIn(lines', b, n + 1) = RowsIn(lines, b, n) +
                         (IF IsRowIn(lines', n + 1) THEN 1 ELSE 0)
    BY <1>2, <1>7, <1>8
  <2> HIDE DEF b
  <2> QED BY <1>1, RowsFacts
<1> HIDE DEF n, b
<1> QED BY <1>2, <1>4, <1>5, <1>6, <1>9 DEF n, b

(* A line of a cluster's description leaves what was said of clusters.     *)
LEMMA ClustersKept ==
    ASSUME NEW line, Takes(line), line.kind \notin {"clusters", "cluster"},
           clusters' = clusters,
           \A k \in 0 .. clusters - 1 :
              /\ table'[k].caps = table[k].caps /\ table'[k].cstates = table[k].cstates
              /\ table'[k].state = "unset" <=> table[k].state = "unset"
    PROVE  ClustersMatch' /\ EntriesMatch'
<1> DEFINE n == Len(lines)
<1>1. /\ n \in Nat /\ Len(lines') = n + 1
      /\ lines'[n + 1] = line /\ \A j \in 1 .. n : lines'[j] = lines[j]
  BY HereStep
<1>2. lines \in Seq(Lines) /\ line \in Lines /\ lines' = Append(lines, line)
      /\ ClustersMatch /\ EntriesMatch
  BY DEF Takes, Match
<1>3. \A k : OwnIn(lines', k) = OwnIn(lines, k)
  BY <1>2, OwnStep
<1>4. \A k : /\ OwnIn(lines, k) \in 0 .. n
             /\ OwnIn(lines, k) # 0 => lines'[OwnIn(lines, k)] = lines[OwnIn(lines, k)]
  <2> SUFFICES ASSUME NEW k
               PROVE  /\ OwnIn(lines, k) \in 0 .. n
                      /\ OwnIn(lines, k) # 0 => lines'[OwnIn(lines, k)] = lines[OwnIn(lines, k)]
    OBVIOUS
  <2>1. OwnIn(lines, k) \in 0 .. n
    BY <1>2, OwnFacts
  <2> HIDE DEF n
  <2> QED BY <1>1, <2>1
<1> HIDE DEF n
<1>5. \A j \in 1 .. n + 1 : lines'[j].kind \in {"clusters", "cluster"} =>
          j \in 1 .. n /\ lines'[j] = lines[j]
  BY <1>1
<1>6. ClustersMatch'
  <2>1. \A j \in 1 .. n : lines[j].kind = "clusters" => lines[j].n \in {0, clusters}
    BY <1>2 DEF ClustersMatch, n
  <2>2. clusters # 0 =>
          \E j \in 1 .. n : lines[j].kind = "clusters" /\ lines[j].n = clusters
    BY <1>2 DEF ClustersMatch, n
  <2>3. \A j \in 1 .. n : lines[j].kind = "cluster" => lines[j].id < clusters
    BY <1>2 DEF ClustersMatch, n
  <2>4. \A j \in 1 .. n + 1 : lines'[j].kind = "clusters" => lines'[j].n \in {0, clusters}
    BY <1>5, <2>1
  <2>5. clusters # 0 =>
          \E j \in 1 .. n + 1 : lines'[j].kind = "clusters" /\ lines'[j].n = clusters
    BY <1>1, <2>2
  <2>6. \A j \in 1 .. n + 1 : lines'[j].kind = "cluster" => lines'[j].id < clusters
    BY <1>5, <2>3
  <2> QED BY <1>1, <2>4, <2>5, <2>6 DEF ClustersMatch
<1>7. EntriesMatch'
  <2> SUFFICES ASSUME NEW k \in 0 .. clusters - 1
               PROVE  /\ table'[k].state = "unset" <=> OwnIn(lines', k) = 0
                      /\ OwnIn(lines', k) # 0 =>
                            /\ table'[k].caps = lines'[OwnIn(lines', k)].caps
                            /\ table'[k].cstates = lines'[OwnIn(lines', k)].cstates
                      /\ \A j \in 1 .. Len(lines') :
                            lines'[j].kind = "cluster" /\ lines'[j].id = k =>
                                j = OwnIn(lines', k) \/ lines'[j].caps = 0
    BY DEF EntriesMatch
  <2> DEFINE own == OwnIn(lines, k)
  <2>1. /\ table[k].state = "unset" <=> own = 0
        /\ own # 0 => table[k].caps = lines[own].caps /\ table[k].cstates = lines[own].cstates
        /\ \A j \in 1 .. n :
              lines[j].kind = "cluster" /\ lines[j].id = k => j = own \/ lines[j].caps = 0
    BY <1>2 DEF EntriesMatch, n
  <2>2. OwnIn(lines', k) = own /\ (own # 0 => lines'[own] = lines[own])
    BY <1>3, <1>4
  <2> HIDE DEF own
  <2>3. \A j \in 1 .. n + 1 : lines'[j].kind = "cluster" /\ lines'[j].id = k =>
            j = own \/ lines'[j].caps = 0
    BY <1>5, <2>1
  <2> QED BY <1>1, <2>1, <2>2, <2>3
<1> QED BY <1>6, <1>7

(* Rows are stored in the current cluster's section; a line that is not    *)
(* one, or of another section, leaves them.                                *)
LEMMA RowStep ==
    ASSUME NEW line, Takes(line), line.kind \notin {"clusters", "cluster"},
           NEW k \in 0 .. clusters - 1, table[k].state # "unset",
           NEW sec \in {"P-states", "C-states"}, NEW n \in Nat
    PROVE  RowWrittenIn(lines', k, sec, n) =
             IF /\ line.kind \in {"speed row", "name row", "incomplete row"}
                /\ Section = sec /\ k = current
                /\ n = RowsIn(lines, SectionIn(lines, Len(lines) + 1), Len(lines))
             THEN RowOf(line) ELSE RowWrittenIn(lines, k, sec, n)
<1> DEFINE L == Len(lines)
           own == ClusterIn(lines, L + 1)
           b == SectionIn(lines, L + 1)
           r == RowsIn(lines, b, L)
           here == /\ IsRowIn(lines', L + 1) /\ own = OwnIn(lines, k)
                   /\ lines[b].kind = sec /\ r + 1 = n + 1
<1>1. lines \in Seq(Lines) /\ line \in Lines /\ lines' = Append(lines, line)
      /\ IInv /\ Match
  BY DEF Takes
<1>2. OwnIn(lines, k) # 0
  BY <1>1 DEF Match, EntriesMatch
<1>3. RowWrittenIn(lines', k, sec, n) =
        IF here THEN RowOf(line) ELSE RowWrittenIn(lines, k, sec, n)
  BY <1>1, <1>2, RowWrittenStep
<1>4. IsRowIn(lines', L + 1) <=> line.kind \in {"speed row", "name row", "incomplete row"}
  BY HereStep DEF IsRowIn
<1>5. /\ L \in Nat
      /\ Section = "none" <=> own = 0
      /\ own # 0 => /\ own \in 1 .. L /\ b \in 1 .. L /\ OwnIn(lines, current) = own
                    /\ current = lines[own].id
                    /\ Section = "P-states" <=> lines[b].kind = "P-states"
                    /\ Section = "C-states" <=> lines[b].kind = "C-states"
  <2> HIDE DEF L
  <2> QED BY <1>1, InSection DEF L
<1>6. own # 0 => r \in Nat
  <2>1. own # 0 => b \in 0 .. L
    BY <1>5
  <2> QED BY <1>1, <2>1, RowsFacts
<1>7. OwnIn(lines, k) # 0 => lines[OwnIn(lines, k)].id = k
  BY <1>1, OwnFacts
<1>8. own = OwnIn(lines, k) <=> own # 0 /\ k = current
  BY <1>2, <1>5, <1>7
<1>9. own # 0 => (lines[b].kind = sec <=> Section = sec)
  BY <1>5
<1>10. own # 0 => (r + 1 = n + 1 <=> n = r)
  BY <1>6
<1>11. Section = sec => own # 0
  BY <1>5
<1> HIDE DEF L, own, b, r
<1>12. here <=> /\ line.kind \in {"speed row", "name row", "incomplete row"}
                /\ Section = sec /\ k = current /\ n = r
  BY <1>4, <1>8, <1>9, <1>10, <1>11
<1> HIDE DEF here
<1> QED BY <1>3, <1>12 DEF L, b, r

RowKinds == {"speed row", "name row", "incomplete row"}

LEMMA SectionKept ==
    ASSUME NEW line, Takes(line), line.kind \notin {"clusters", "cluster"}, current # -1,
           current' = current,
           table'[current].state = IF line.kind \in {"P-states", "C-states"} THEN line.kind
                                   ELSE table[current].state,
           line.kind = "P-states" => nextP' = 0,
           line.kind = "C-states" => nextC' = 0,
           line.kind \notin {"P-states", "C-states"} /\ Section = "P-states" =>
              nextP' = IF line.kind \in RowKinds THEN nextP + 1 ELSE nextP,
           line.kind \notin {"P-states", "C-states"} /\ Section = "C-states" =>
              nextC' = IF line.kind \in RowKinds THEN nextC + 1 ELSE nextC
    PROVE  SectionMatch'
<1> DEFINE L == Len(lines)
           own == ClusterIn(lines, L + 1)
           b == SectionIn(lines, L + 1)
           d == SectionIn(lines', Len(lines') + 1)
           own2 == ClusterIn(lines', Len(lines') + 1)
<1>1. lines \in Seq(Lines) /\ line \in Lines /\ lines' = Append(lines, line)
      /\ IInv /\ Match
  BY DEF Takes
<1>2. /\ L \in Nat /\ Len(lines') = L + 1
      /\ lines'[L + 1] = line /\ \A j \in 1 .. L : lines'[j] = lines[j]
      /\ own2 = own
      /\ d = IF line.kind \in {"P-states", "C-states"} THEN L + 1 ELSE b
      /\ d = L + 1 => RowsIn(lines', d, Len(lines')) = 0
      /\ own # 0 /\ d # L + 1 =>
            RowsIn(lines', d, Len(lines')) =
               RowsIn(lines, b, L) + (IF line.kind \in RowKinds THEN 1 ELSE 0)
  BY HereStep DEF RowKinds
<1>3. /\ own # 0 /\ own \in 1 .. L /\ b \in 1 .. L
      /\ current = lines[own].id /\ OwnIn(lines, current) = own
      /\ Section = table[current].state
      /\ lines[b].kind \in {"cluster", "P-states", "C-states"}
      /\ Section = "P-states" <=> lines[b].kind = "P-states"
  BY <1>1, InSection
<1>4. /\ Section = "C-states" <=> lines[b].kind = "C-states"
      /\ Section = "counts" <=> lines[b].kind = "cluster"
      /\ Section = "P-states" => nextP = RowsIn(lines, b, L)
      /\ Section = "C-states" => nextC = RowsIn(lines, b, L)
  BY <1>1, <1>3, InSection
<1>5. OwnIn(lines', current) = OwnIn(lines, current)
  BY <1>1, OwnStep
<1>6. RowsIn(lines, b, L) \in Nat
  <2>1. b \in 0 .. L
    BY <1>3
  <2> QED BY <1>1, <2>1, RowsFacts
<1>7. lines'[own] = lines[own] /\ lines'[b] = lines[b]
  <2> HIDE DEF own, b, L
  <2> QED BY <1>2, <1>3
<1> HIDE DEF L, own, b, d, own2
<1>8. CASE line.kind \in {"P-states", "C-states"}
  <2>1. d = L + 1 /\ lines'[d] = line /\ RowsIn(lines', d, Len(lines')) = 0
    BY <1>2, <1>8
  <2>2. /\ current' = -1 <=> own2 = 0
        /\ own2 # 0
        /\ current' = lines'[own2].id /\ OwnIn(lines', current') = own2
        /\ table'[current'].state = IF lines'[d].kind = "cluster" THEN "counts" ELSE lines'[d].kind
        /\ lines'[d].kind = "P-states" => nextP' = RowsIn(lines', d, Len(lines'))
        /\ lines'[d].kind = "C-states" => nextC' = RowsIn(lines', d, Len(lines'))
    BY <1>2, <1>3, <1>5, <1>7, <1>8, <2>1
  <2> QED BY <2>2 DEF SectionMatch, d, own2
<1>9. CASE line.kind \notin {"P-states", "C-states"}
  <2>1. d = b /\ d # L + 1 /\ lines'[d] = lines[b]
    BY <1>2, <1>3, <1>7, <1>9
  <2>2. RowsIn(lines', d, Len(lines')) =
           IF line.kind \in RowKinds THEN RowsIn(lines, b, L) + 1 ELSE RowsIn(lines, b, L)
    BY <1>2, <1>3, <1>6, <2>1
  <2>3. /\ current' = -1 <=> own2 = 0
        /\ own2 # 0
        /\ current' = lines'[own2].id /\ OwnIn(lines', current') = own2
    BY <1>2, <1>3, <1>5, <1>7
  <2>4. table'[current'].state = IF lines'[d].kind = "cluster" THEN "counts" ELSE lines'[d].kind
    BY <1>3, <1>4, <1>9, <2>1
  <2>5. /\ lines'[d].kind = "P-states" => nextP' = RowsIn(lines', d, Len(lines'))
        /\ lines'[d].kind = "C-states" => nextC' = RowsIn(lines', d, Len(lines'))
    BY <1>3, <1>4, <1>9, <2>1, <2>2
  <2> QED BY <2>3, <2>4, <2>5 DEF SectionMatch, d, own2
<1> QED BY <1>8, <1>9

LEMMA RowsKept ==
    ASSUME NEW line, Takes(line), line.kind \notin {"clusters", "cluster"},
           line.kind \notin RowKinds \/ Section \notin {"P-states", "C-states"},
           clusters' = clusters,
           \A k \in 0 .. clusters - 1 :
              /\ table'[k].p = table[k].p /\ table'[k].c = table[k].c
              /\ table'[k].state = "unset" <=> table[k].state = "unset"
    PROVE  RowsMatch'
<1> SUFFICES ASSUME NEW k \in 0 .. clusters - 1, table[k].state # "unset"
             PROVE  /\ \A n \in DOMAIN table[k].p :
                          table[k].p[n] = RowWrittenIn(lines', k, "P-states", n)
                    /\ \A n \in DOMAIN table[k].c :
                          table[k].c[n] = RowWrittenIn(lines', k, "C-states", n)
  BY DEF RowsMatch
<1>1. /\ \A n \in DOMAIN table[k].p :
            table[k].p[n] = RowWrittenIn(lines, k, "P-states", n)
      /\ \A n \in DOMAIN table[k].c :
            table[k].c[n] = RowWrittenIn(lines, k, "C-states", n)
  BY DEF Takes, Match, RowsMatch
<1>2. DOMAIN table[k].p \subseteq Nat /\ DOMAIN table[k].c \subseteq Nat
  <2>1. IsEntry(table[k])
    BY DEF Takes, IInv, TableOK
  <2> QED BY <2>1 DEF IsEntry
<1>3. ASSUME NEW sec \in {"P-states", "C-states"}, NEW n \in Nat
      PROVE  RowWrittenIn(lines', k, sec, n) = RowWrittenIn(lines, k, sec, n)
  <2>1. ~(line.kind \in {"speed row", "name row", "incomplete row"} /\ Section = sec)
    BY DEF RowKinds
  <2> QED BY <2>1, RowStep
<1> QED BY <1>1, <1>2, <1>3

(* Writing the current entry, or one of its fields.                        *)
LEMMA EntryWritten ==
    ASSUME IInv, NEW k \in 0 .. clusters - 1, NEW e, table' = [table EXCEPT ![k] = e]
    PROVE  table'[k] = e /\ \A j \in 0 .. clusters - 1 : j # k => table'[j] = table[j]
<1>1. DOMAIN table = 0 .. clusters - 1
  BY DEF IInv, TableOK
<1> QED BY <1>1

LEMMA FieldWritten ==
    ASSUME NEW e, Fields(e), NEW x
    PROVE  /\ LET f == [e EXCEPT !.state = x]
              IN  /\ f.state = x /\ f.caps = e.caps /\ f.cstates = e.cstates
                  /\ f.p = e.p /\ f.c = e.c /\ f.wakeup = e.wakeup
           /\ LET f == [e EXCEPT !.wakeup = x]
              IN  /\ f.state = e.state /\ f.caps = e.caps /\ f.cstates = e.cstates
                  /\ f.p = e.p /\ f.c = e.c
           /\ LET f == [e EXCEPT !.p = x]
              IN  /\ f.state = e.state /\ f.caps = e.caps /\ f.cstates = e.cstates
                  /\ f.p = x /\ f.c = e.c
           /\ LET f == [e EXCEPT !.c = x]
              IN  /\ f.state = e.state /\ f.caps = e.caps /\ f.cstates = e.cstates
                  /\ f.p = e.p /\ f.c = x
<1>1. DOMAIN e = {"caps", "cstates", "p", "c", "wakeup", "state"}
  BY DEF Fields
<1> QED BY <1>1

Matched == ClustersMatch /\ EntriesMatch /\ SectionMatch /\ RowsMatch

LEMMA HeadingMatched ==
    ASSUME NEW line, Takes(line), ReadPHeading(line) \/ ReadCHeading(line),
           result' # "refused"
    PROVE  Matched'
<1> DEFINE e == [table[current] EXCEPT !.state = line.kind]
<1>1. line.kind \in {"P-states", "C-states"}
  BY DEF ReadPHeading, ReadCHeading, Fetch
<1>2. /\ current # -1 /\ current' = current /\ clusters' = clusters
      /\ line.kind = "P-states" => nextP' = 0
      /\ line.kind = "C-states" => nextC' = 0
      /\ table' = [table EXCEPT ![current] = e]
  BY DEF ReadPHeading, ReadCHeading, Fetch, Refuse
<1>3. /\ current \in 0 .. clusters - 1 /\ IInv
      /\ Fields(table[current]) /\ table[current].state # "unset"
  BY <1>2, CurrentEntry DEF Takes, IsEntry
<1>4. /\ e.state = line.kind /\ e.caps = table[current].caps /\ e.cstates = table[current].cstates
      /\ e.p = table[current].p /\ e.c = table[current].c
  BY <1>3, FieldWritten
<1> HIDE DEF e
<1>5. table'[current] = e /\ \A j \in 0 .. clusters - 1 : j # current => table'[j] = table[j]
  BY <1>2, <1>3, EntryWritten
<1>6. ASSUME NEW k \in 0 .. clusters - 1
      PROVE  /\ table'[k].caps = table[k].caps /\ table'[k].cstates = table[k].cstates
             /\ table'[k].p = table[k].p /\ table'[k].c = table[k].c
             /\ table'[k].state = "unset" <=> table[k].state = "unset"
  BY <1>1, <1>3, <1>4, <1>5
<1>7. ClustersMatch' /\ EntriesMatch'
  BY <1>1, <1>2, <1>6, ClustersKept
<1>8. RowsMatch'
  BY <1>1, <1>2, <1>6, RowsKept DEF RowKinds
<1>9. SectionMatch'
  BY <1>1, <1>2, <1>4, <1>5, SectionKept
<1> QED BY <1>7, <1>8, <1>9 DEF Matched

LEMMA WakeupMatched ==
    ASSUME NEW line, Takes(line), ReadWakeup(line), result' # "refused"
    PROVE  Matched'
<1> DEFINE w == <<line.cluster, line.core>>
           e == [table[current] EXCEPT !.wakeup = w]
<1>1. line.kind = "wakeup"
  BY DEF ReadWakeup, Fetch
<1>2. /\ current # -1 /\ current' = current /\ clusters' = clusters
      /\ nextP' = nextP /\ nextC' = nextC
      /\ table' = [table EXCEPT ![current] = e]
  BY DEF ReadWakeup, Refuse
<1>3. /\ current \in 0 .. clusters - 1 /\ IInv
      /\ Fields(table[current]) /\ table[current].state # "unset"
  BY <1>2, CurrentEntry DEF Takes, IsEntry
<1> HIDE DEF w
<1>4. /\ e.state = table[current].state
      /\ e.caps = table[current].caps /\ e.cstates = table[current].cstates
      /\ e.p = table[current].p /\ e.c = table[current].c
  BY <1>3, FieldWritten
<1> HIDE DEF e
<1>5. table'[current] = e /\ \A j \in 0 .. clusters - 1 : j # current => table'[j] = table[j]
  BY <1>2, <1>3, EntryWritten
<1>6. ASSUME NEW k \in 0 .. clusters - 1
      PROVE  /\ table'[k].caps = table[k].caps /\ table'[k].cstates = table[k].cstates
             /\ table'[k].p = table[k].p /\ table'[k].c = table[k].c
             /\ table'[k].state = "unset" <=> table[k].state = "unset"
  BY <1>3, <1>4, <1>5
<1>7. ClustersMatch' /\ EntriesMatch'
  BY <1>1, <1>2, <1>6, ClustersKept
<1>8. RowsMatch'
  BY <1>1, <1>2, <1>6, RowsKept DEF RowKinds
<1>9. SectionMatch'
  BY <1>1, <1>2, <1>4, <1>5, SectionKept DEF RowKinds
<1> QED BY <1>7, <1>8, <1>9 DEF Matched

(* A row between a cluster's line and its first section.                   *)
LEMMA OtherRowMatched ==
    ASSUME NEW line, Takes(line), ReadOtherRow(line), result' # "refused"
    PROVE  Matched'
<1>1. line.kind \in RowKinds
  BY DEF ReadOtherRow, FetchRow, Fetch, RowKinds
<1>2. /\ current' = current /\ clusters' = clusters /\ table' = table
      /\ Section = "counts"
  BY DEF ReadOtherRow, Refuse, Keep
<1>3. current # -1
  BY <1>2 DEF Section
<1>4. line.kind \notin {"clusters", "cluster", "P-states", "C-states"}
  BY <1>1 DEF RowKinds
<1>7. ClustersMatch' /\ EntriesMatch'
  BY <1>2, <1>4, ClustersKept
<1>8. RowsMatch'
  BY <1>2, <1>4, RowsKept
<1>9. SectionMatch'
  BY <1>2, <1>3, <1>4, SectionKept
<1> QED BY <1>7, <1>8, <1>9 DEF Matched

(* A row that is stored is the one its line gives.                         *)
LEMMA PRowMatched ==
    ASSUME NEW line, Takes(line), ReadPRow(line), result' # "refused"
    PROVE  Matched'
<1> DEFINE row  == RowOf(line)
           rows == [table[current].p EXCEPT ![nextP] = row]
           e    == [table[current] EXCEPT !.p = rows]
<1>1. line.kind \in RowKinds /\ Section = "P-states"
  BY DEF ReadPRow, FetchRow, Fetch, RowKinds
<1>2. /\ current' = current /\ clusters' = clusters
      /\ nextP' = nextP + 1 /\ nextC' = nextC
      /\ table' = [table EXCEPT ![current] = e]
  BY DEF ReadPRow, Refuse
<1>3. current # -1
  BY <1>1 DEF Section
<1>4. /\ current \in 0 .. clusters - 1 /\ IInv
      /\ Fields(table[current]) /\ table[current].state # "unset"
  BY <1>3, CurrentEntry DEF Takes, IsEntry
<1> HIDE DEF rows
<1>5. /\ e.state = table[current].state
      /\ e.caps = table[current].caps /\ e.cstates = table[current].cstates
      /\ e.p = rows /\ e.c = table[current].c
  BY <1>4, FieldWritten
<1> HIDE DEF e
<1>6. table'[current] = e /\ \A j \in 0 .. clusters - 1 : j # current => table'[j] = table[j]
  BY <1>2, <1>4, EntryWritten
<1>7. ASSUME NEW k \in 0 .. clusters - 1
      PROVE  /\ table'[k].caps = table[k].caps /\ table'[k].cstates = table[k].cstates
             /\ table'[k].state = table[k].state /\ table'[k].c = table[k].c
             /\ k # current => table'[k].p = table[k].p
  BY <1>4, <1>5, <1>6
<1>8. line.kind \notin {"clusters", "cluster", "P-states", "C-states"}
  BY <1>1 DEF RowKinds
<1>9. ClustersMatch' /\ EntriesMatch'
  BY <1>2, <1>7, <1>8, ClustersKept
<1>10. SectionMatch'
  BY <1>1, <1>2, <1>3, <1>7, <1>4, <1>8, SectionKept
<1>11. RowsMatch'
  <2> SUFFICES ASSUME NEW k \in 0 .. clusters - 1, table[k].state # "unset"
               PROVE  /\ \A n \in DOMAIN table'[k].p :
                            table'[k].p[n] = RowWrittenIn(lines', k, "P-states", n)
                      /\ \A n \in DOMAIN table'[k].c :
                            table'[k].c[n] = RowWrittenIn(lines', k, "C-states", n)
    BY <1>2, <1>7 DEF RowsMatch
  <2>1. /\ \A n \in DOMAIN table[k].p :
              table[k].p[n] = RowWrittenIn(lines, k, "P-states", n)
        /\ \A n \in DOMAIN table[k].c :
              table[k].c[n] = RowWrittenIn(lines, k, "C-states", n)
    BY DEF Takes, Match, RowsMatch
  <2>2. DOMAIN table[k].p \subseteq Nat /\ DOMAIN table[k].c \subseteq Nat
    <3>1. IsEntry(table[k])
      BY DEF Takes, IInv, TableOK
    <3> QED BY <3>1 DEF IsEntry
  <2>3. nextP = RowsIn(lines, SectionIn(lines, Len(lines) + 1), Len(lines))
    BY <1>1, InSection DEF Takes
  <2>4. ASSUME NEW n \in Nat
        PROVE  RowWrittenIn(lines', k, "C-states", n) = RowWrittenIn(lines, k, "C-states", n)
    BY <1>1, <1>8, RowStep
  <2>5. ASSUME NEW n \in Nat
        PROVE  RowWrittenIn(lines', k, "P-states", n) =
                 IF k = current /\ n = nextP THEN row ELSE RowWrittenIn(lines, k, "P-states", n)
    BY <1>1, <1>8, <2>3, RowStep DEF RowKinds
  <2>6. CASE k = current
    <3>1. table'[k].p = rows
      BY <1>5, <1>6, <2>6
    <3>2. \A n \in DOMAIN rows : rows[n] = IF n = nextP THEN row ELSE table[k].p[n]
      BY <2>6 DEF rows
    <3>3. DOMAIN rows = DOMAIN table[k].p
      BY <2>6 DEF rows
    <3> HIDE DEF row
    <3> QED BY <1>7, <2>1, <2>2, <2>4, <2>5, <2>6, <3>1, <3>2, <3>3
  <2>7. CASE k # current
    BY <1>7, <2>1, <2>2, <2>4, <2>5, <2>7
  <2> QED BY <2>6, <2>7
<1> QED BY <1>9, <1>10, <1>11 DEF Matched

LEMMA CRowMatched ==
    ASSUME NEW line, Takes(line), ReadCRow(line), result' # "refused"
    PROVE  Matched'
<1> DEFINE row  == RowOf(line)
           rows == [table[current].c EXCEPT ![nextC] = row]
           e    == [table[current] EXCEPT !.c = rows]
<1>1. line.kind \in RowKinds /\ Section = "C-states"
  BY DEF ReadCRow, FetchRow, Fetch, RowKinds
<1>2. /\ current' = current /\ clusters' = clusters
      /\ nextC' = nextC + 1 /\ nextP' = nextP
      /\ table' = [table EXCEPT ![current] = e]
  BY DEF ReadCRow, Refuse
<1>3. current # -1
  BY <1>1 DEF Section
<1>4. /\ current \in 0 .. clusters - 1 /\ IInv
      /\ Fields(table[current]) /\ table[current].state # "unset"
  BY <1>3, CurrentEntry DEF Takes, IsEntry
<1> HIDE DEF rows
<1>5. /\ e.state = table[current].state
      /\ e.caps = table[current].caps /\ e.cstates = table[current].cstates
      /\ e.c = rows /\ e.p = table[current].p
  BY <1>4, FieldWritten
<1> HIDE DEF e
<1>6. table'[current] = e /\ \A j \in 0 .. clusters - 1 : j # current => table'[j] = table[j]
  BY <1>2, <1>4, EntryWritten
<1>7. ASSUME NEW k \in 0 .. clusters - 1
      PROVE  /\ table'[k].caps = table[k].caps /\ table'[k].cstates = table[k].cstates
             /\ table'[k].state = table[k].state /\ table'[k].p = table[k].p
             /\ k # current => table'[k].c = table[k].c
  BY <1>4, <1>5, <1>6
<1>8. line.kind \notin {"clusters", "cluster", "C-states", "P-states"}
  BY <1>1 DEF RowKinds
<1>9. ClustersMatch' /\ EntriesMatch'
  BY <1>2, <1>7, <1>8, ClustersKept
<1>10. SectionMatch'
  BY <1>1, <1>2, <1>3, <1>7, <1>4, <1>8, SectionKept
<1>11. RowsMatch'
  <2> SUFFICES ASSUME NEW k \in 0 .. clusters - 1, table[k].state # "unset"
               PROVE  /\ \A n \in DOMAIN table'[k].c :
                            table'[k].c[n] = RowWrittenIn(lines', k, "C-states", n)
                      /\ \A n \in DOMAIN table'[k].p :
                            table'[k].p[n] = RowWrittenIn(lines', k, "P-states", n)
    BY <1>2, <1>7 DEF RowsMatch
  <2>1. /\ \A n \in DOMAIN table[k].c :
              table[k].c[n] = RowWrittenIn(lines, k, "C-states", n)
        /\ \A n \in DOMAIN table[k].p :
              table[k].p[n] = RowWrittenIn(lines, k, "P-states", n)
    BY DEF Takes, Match, RowsMatch
  <2>2. DOMAIN table[k].c \subseteq Nat /\ DOMAIN table[k].p \subseteq Nat
    <3>1. IsEntry(table[k])
      BY DEF Takes, IInv, TableOK
    <3> QED BY <3>1 DEF IsEntry
  <2>3. nextC = RowsIn(lines, SectionIn(lines, Len(lines) + 1), Len(lines))
    BY <1>1, InSection DEF Takes
  <2>4. ASSUME NEW n \in Nat
        PROVE  RowWrittenIn(lines', k, "P-states", n) = RowWrittenIn(lines, k, "P-states", n)
    BY <1>1, <1>8, RowStep
  <2>5. ASSUME NEW n \in Nat
        PROVE  RowWrittenIn(lines', k, "C-states", n) =
                 IF k = current /\ n = nextC THEN row ELSE RowWrittenIn(lines, k, "C-states", n)
    BY <1>1, <1>8, <2>3, RowStep DEF RowKinds
  <2>6. CASE k = current
    <3>1. table'[k].c = rows
      BY <1>5, <1>6, <2>6
    <3>2. \A n \in DOMAIN rows : rows[n] = IF n = nextC THEN row ELSE table[k].c[n]
      BY <2>6 DEF rows
    <3>3. DOMAIN rows = DOMAIN table[k].c
      BY <2>6 DEF rows
    <3> HIDE DEF row
    <3> QED BY <1>7, <2>1, <2>2, <2>4, <2>5, <2>6, <3>1, <3>2, <3>3
  <2>7. CASE k # current
    BY <1>7, <2>1, <2>2, <2>4, <2>5, <2>7
  <2> QED BY <2>6, <2>7
<1> QED BY <1>9, <1>10, <1>11 DEF Matched

LEMMA ReadClustersMatched ==
    ASSUME NEW line, Takes(line), ReadClusters(line), result' # "refused"
    PROVE  Matched'
<1> DEFINE n == Len(lines)
<1>1. line.kind = "clusters" /\ line.n \in Nat
  BY EnergyModelAssumption DEF ReadClusters, Fetch, Takes
<1>2. /\ clusters = 0 /\ clusters' = line.n /\ current' = current
      /\ \E left \in [0 .. line.n - 1 -> Leftover] :
            table' = [k \in 0 .. line.n - 1 |-> Unset(left[k])]
  BY DEF ReadClusters, Refuse
<1>3. \A k \in 0 .. line.n - 1 : table'[k].state = "unset"
  BY <1>2 DEF Unset
<1>4. /\ n \in Nat /\ Len(lines') = n + 1
      /\ lines'[n + 1] = line /\ \A j \in 1 .. n : lines'[j] = lines[j]
      /\ ClusterIn(lines', Len(lines') + 1) = ClusterIn(lines, n + 1)
  BY <1>1, HereStep
<1>5. lines \in Seq(Lines) /\ IInv /\ Match /\ line \in Lines /\ lines' = Append(lines, line)
  BY DEF Takes
<1>6. \A j \in 1 .. n : lines[j].kind # "cluster"
  <2> SUFFICES ASSUME NEW j \in 1 .. n, lines[j].kind = "cluster" PROVE FALSE
    OBVIOUS
  <2>1. lines[j].id \in Nat
    BY <1>5, LineTypes
  <2>2. lines[j].id < clusters
    BY <1>5 DEF Match, ClustersMatch
  <2> QED BY <1>2, <2>1, <2>2
<1>7. \A j \in 1 .. n + 1 : lines'[j].kind # "cluster"
  <2> HIDE DEF n
  <2> QED BY <1>1, <1>4, <1>6
<1>8. \A k : OwnIn(lines', k) = 0
  <2> SUFFICES ASSUME NEW k PROVE OwnIn(lines', k) = 0
    OBVIOUS
  <2>1. OwnIn(lines', k) = OwnIn(lines, k)
    BY <1>1, <1>5, OwnStep
  <2>2. /\ OwnIn(lines, k) \in 0 .. n
        /\ OwnIn(lines, k) # 0 => lines[OwnIn(lines, k)].kind = "cluster"
    BY <1>5, OwnFacts
  <2> HIDE DEF n
  <2> QED BY <1>4, <1>6, <2>1, <2>2
<1>9. \A j \in 1 .. n : lines[j].kind = "clusters" => lines[j].n = 0
  BY <1>2, <1>5 DEF Match, ClustersMatch
<1> HIDE DEF n
<1>10. ClustersMatch'
  <2>1. \A j \in 1 .. n + 1 : lines'[j].kind = "clusters" => lines'[j].n \in {0, clusters'}
    BY <1>2, <1>4, <1>9
  <2>2. n + 1 \in 1 .. n + 1 /\ lines'[n + 1].kind = "clusters" /\ lines'[n + 1].n = clusters'
    BY <1>1, <1>2, <1>4
  <2> QED BY <1>4, <1>7, <2>1, <2>2 DEF ClustersMatch
<1>11. EntriesMatch'
  BY <1>2, <1>3, <1>4, <1>7, <1>8 DEF EntriesMatch
<1>12. SectionMatch'
  <2>1. current = -1
    <3>1. current \in {-1} \cup 0 .. clusters - 1
      BY <1>5 DEF IInv, CurrentOK
    <3> QED BY <1>2, <3>1
  <2>2. ClusterIn(lines, n + 1) = 0
    BY <1>5, <2>1, InSection DEF n
  <2> QED BY <1>2, <1>4, <2>1, <2>2 DEF SectionMatch
<1>13. RowsMatch'
  BY <1>2, <1>3 DEF RowsMatch
<1> QED BY <1>10, <1>11, <1>12, <1>13 DEF Matched

LEMMA ReadClusterMatched ==
    ASSUME NEW line, Takes(line), ReadCluster(line), result' # "refused"
    PROVE  Matched'
<1> DEFINE L == Len(lines)
           id == line.id
           e == [caps |-> line.caps, cstates |-> line.cstates,
                 p |-> EmptyRows(line.caps), c |-> EmptyRows(line.cstates),
                 wakeup |-> table[line.id].wakeup, state |-> "counts"]
<1>1. line.kind = "cluster" /\ id \in Nat /\ line.caps \in Nat /\ line.cstates \in Nat
  BY EnergyModelAssumption DEF ReadCluster, Fetch, Takes
<1>2. lines \in Seq(Lines) /\ IInv /\ Match /\ line \in Lines /\ lines' = Append(lines, line)
  BY DEF Takes
<1>3. /\ id < clusters /\ table[id].caps = 0
      /\ current' = id /\ clusters' = clusters
      /\ table' = [table EXCEPT ![id] = e]
  BY DEF ReadCluster, Refuse
<1>4. clusters \in Nat /\ id \in 0 .. clusters - 1
  <2>1. clusters \in Nat
    BY <1>2 DEF IInv, TableOK
  <2> QED BY <1>1, <1>3, <2>1
<1>5. /\ e.caps = line.caps /\ e.cstates = line.cstates /\ e.state = "counts"
      /\ e.p = EmptyRows(line.caps) /\ e.c = EmptyRows(line.cstates)
  OBVIOUS
<1> HIDE DEF e
<1>6. table'[id] = e /\ \A j \in 0 .. clusters - 1 : j # id => table'[j] = table[j]
  <2> HIDE DEF id
  <2> QED BY <1>2, <1>3, <1>4, EntryWritten
<1>7. /\ L \in Nat /\ Len(lines') = L + 1
      /\ lines'[L + 1] = line /\ \A j \in 1 .. L : lines'[j] = lines[j]
      /\ ClusterIn(lines', Len(lines') + 1) = L + 1
      /\ SectionIn(lines', Len(lines') + 1) = L + 1
  BY <1>1, HereStep
<1>8. /\ OwnIn(lines', id) = L + 1
      /\ \A k : k # id => OwnIn(lines', k) = OwnIn(lines, k)
  <2>1. OwnIn(lines', id) = L + 1
    BY <1>1, <1>2, OwnStep
  <2>2. \A k : k # id => OwnIn(lines', k) = OwnIn(lines, k)
    BY <1>1, <1>2, OwnStep
  <2> QED BY <2>1, <2>2
<1>9. \A k : /\ OwnIn(lines, k) \in 0 .. L
             /\ OwnIn(lines, k) # 0 => lines'[OwnIn(lines, k)] = lines[OwnIn(lines, k)]
  <2> SUFFICES ASSUME NEW k
               PROVE  /\ OwnIn(lines, k) \in 0 .. L
                      /\ OwnIn(lines, k) # 0 => lines'[OwnIn(lines, k)] = lines[OwnIn(lines, k)]
    OBVIOUS
  <2>1. OwnIn(lines, k) \in 0 .. L
    BY <1>2, OwnFacts
  <2> HIDE DEF L
  <2> QED BY <1>7, <2>1
<1>10. \A j \in 1 .. L : lines[j].kind = "cluster" /\ lines[j].id = id => lines[j].caps = 0
  <2>1. /\ OwnIn(lines, id) # 0 => table[id].caps = lines[OwnIn(lines, id)].caps
        /\ \A j \in 1 .. L : lines[j].kind = "cluster" /\ lines[j].id = id =>
               j = OwnIn(lines, id) \/ lines[j].caps = 0
    BY <1>2, <1>4 DEF Match, EntriesMatch
  <2>2. \A j \in 1 .. L : j # 0
    BY <1>7
  <2> HIDE DEF L, id
  <2> QED BY <1>3, <2>1, <2>2
<1>11. ClustersMatch'
  <2>1. /\ \A j \in 1 .. L : lines[j].kind = "clusters" => lines[j].n \in {0, clusters}
        /\ clusters # 0 =>
             \E j \in 1 .. L : lines[j].kind = "clusters" /\ lines[j].n = clusters
        /\ \A j \in 1 .. L : lines[j].kind = "cluster" => lines[j].id < clusters
    BY <1>2 DEF Match, ClustersMatch
  <2> HIDE DEF L
  <2>2. \A j \in 1 .. L + 1 : lines'[j].kind = "clusters" => lines'[j].n \in {0, clusters}
    BY <1>1, <1>7, <2>1
  <2>3. clusters # 0 =>
          \E j \in 1 .. L + 1 : lines'[j].kind = "clusters" /\ lines'[j].n = clusters
    BY <1>7, <2>1
  <2>4. \A j \in 1 .. L + 1 : lines'[j].kind = "cluster" => lines'[j].id < clusters
    BY <1>3, <1>7, <2>1
  <2> QED BY <1>3, <1>7, <2>2, <2>3, <2>4 DEF ClustersMatch
<1>12. EntriesMatch'
  <2> SUFFICES ASSUME NEW k \in 0 .. clusters - 1
               PROVE  /\ table'[k].state = "unset" <=> OwnIn(lines', k) = 0
                      /\ OwnIn(lines', k) # 0 =>
                            /\ table'[k].caps = lines'[OwnIn(lines', k)].caps
                            /\ table'[k].cstates = lines'[OwnIn(lines', k)].cstates
                      /\ \A j \in 1 .. Len(lines') :
                            lines'[j].kind = "cluster" /\ lines'[j].id = k =>
                                j = OwnIn(lines', k) \/ lines'[j].caps = 0
    BY <1>3 DEF EntriesMatch
  <2>1. CASE k = id
    <3>1. table'[k] = e /\ OwnIn(lines', k) = L + 1
      BY <1>6, <1>8, <2>1
    <3>2. \A j \in 1 .. L + 1 : lines'[j].kind = "cluster" /\ lines'[j].id = k =>
              j = L + 1 \/ lines'[j].caps = 0
      <4> HIDE DEF L, id
      <4> QED BY <1>7, <1>10, <2>1
    <3> HIDE DEF L, id
    <3> QED BY <1>5, <1>7, <3>1, <3>2
  <2>2. CASE k # id
    <3> DEFINE own == OwnIn(lines, k)
    <3>1. table'[k] = table[k] /\ OwnIn(lines', k) = own
      BY <1>6, <1>8, <2>2
    <3>2. /\ table[k].state = "unset" <=> own = 0
          /\ own # 0 => table[k].caps = lines[own].caps /\ table[k].cstates = lines[own].cstates
          /\ \A j \in 1 .. L :
                lines[j].kind = "cluster" /\ lines[j].id = k => j = own \/ lines[j].caps = 0
      BY <1>2 DEF Match, EntriesMatch
    <3>3. own # 0 => lines'[own] = lines[own]
      BY <1>9
    <3> HIDE DEF L, own
    <3>4. \A j \in 1 .. L + 1 : lines'[j].kind = "cluster" /\ lines'[j].id = k =>
              j = own \/ lines'[j].caps = 0
      BY <1>7, <2>2, <3>2
    <3> QED BY <1>7, <3>1, <3>2, <3>3, <3>4
  <2> QED BY <2>1, <2>2
<1>13. SectionMatch'
  <2>1. L + 1 # 0 /\ current' # -1
    BY <1>1, <1>3, <1>7
  <2>2. table'[current'].state = "counts"
    BY <1>3, <1>5, <1>6
  <2> HIDE DEF L
  <2> QED BY <1>1, <1>3, <1>7, <1>8, <2>1, <2>2 DEF SectionMatch
<1>14. RowsMatch'
  <2> SUFFICES ASSUME NEW k \in 0 .. clusters - 1, table'[k].state # "unset"
               PROVE  /\ \A n \in DOMAIN table'[k].p :
                            table'[k].p[n] = RowWrittenIn(lines', k, "P-states", n)
                      /\ \A n \in DOMAIN table'[k].c :
                            table'[k].c[n] = RowWrittenIn(lines', k, "C-states", n)
    BY <1>3 DEF RowsMatch
  <2>1. CASE k = id
    <3>1. \A sec, n : RowWrittenIn(lines', k, sec, n) = NoRow
      <4>1. \A sec, n : RowLinesIn(lines', k, sec, n) = {}
        BY <1>1, <1>2, <2>1, NewClusterHasNoRows
      <4> QED BY <4>1 DEF RowWrittenIn
    <3>2. table'[k].p = EmptyRows(line.caps) /\ table'[k].c = EmptyRows(line.cstates)
      BY <1>5, <1>6, <2>1
    <3>3. \A x, n : n \in DOMAIN EmptyRows(x) => EmptyRows(x)[n] = NoRow
      BY DEF EmptyRows
    <3> QED BY <3>1, <3>2, <3>3
  <2>2. CASE k # id
    <3>1. table'[k] = table[k]
      BY <1>6, <2>2
    <3>2. /\ \A n \in DOMAIN table[k].p :
                table[k].p[n] = RowWrittenIn(lines, k, "P-states", n)
          /\ \A n \in DOMAIN table[k].c :
                table[k].c[n] = RowWrittenIn(lines, k, "C-states", n)
      BY <1>2, <3>1 DEF Match, RowsMatch
    <3>3. OwnIn(lines, k) # 0
      BY <1>2, <3>1 DEF Match, EntriesMatch
    <3>4. \A j : IsRowIn(lines', j) => lines'[j].kind # "cluster"
      BY DEF IsRowIn
    <3>5. ~IsRowIn(lines', L + 1)
      BY <1>1, <1>7, <3>4
    <3>6. \A sec, n : RowWrittenIn(lines', k, sec, n) = RowWrittenIn(lines, k, sec, n)
      BY <1>2, <2>2, <3>3, <3>5, RowWrittenStep
    <3> QED BY <3>1, <3>2, <3>6
  <2> QED BY <2>1, <2>2
<1> QED BY <1>11, <1>12, <1>13, <1>14 DEF Matched

-----------------------------------------------------------------------------
LEMMA InitMatches == Init => MInv
<1> SUFFICES ASSUME Init PROVE MInv
  OBVIOUS
<1>1. IInv
  BY InitHolds
<1>2. /\ lines = <<>> /\ clusters = 0 /\ current = -1 /\ result = "reading"
  BY DEF Init
<1>3. lines \in Seq(Lines) /\ Len(lines) = 0 /\ 1 .. Len(lines) = {}
  BY <1>2
<1>4. ClustersMatch /\ EntriesMatch /\ RowsMatch /\ FileFits
  BY <1>2, <1>3 DEF ClustersMatch, EntriesMatch, RowsMatch, FileFits
<1>5. SectionMatch
  <2>1. ClusterIn(lines, Len(lines) + 1) # 0 => ClusterIn(lines, Len(lines) + 1) \in 1 .. Len(lines)
    <3>1. Len(lines) + 1 \in Nat /\ (Len(lines) + 1) - 1 = Len(lines)
      BY <1>3
    <3> QED BY <3>1, SectionFollowsCluster
  <2> QED BY <1>2, <1>3, <2>1 DEF SectionMatch
<1> QED BY <1>1, <1>2, <1>3, <1>4, <1>5 DEF MInv, Match

LEMMA LineMatches ==
    ASSUME MInv, NEW line \in Lines, ReadLine(line)
    PROVE  MInv'
<1>1. result = "reading"
  BY DEF ReadLine, ReadClusters, ReadCluster, ReadPHeading, ReadCHeading, ReadWakeup,
         ReadPRow, ReadCRow, ReadOtherRow, FetchRow, Fetch
<1>2. IInv /\ lines \in Seq(Lines) /\ Match
  BY <1>1 DEF MInv
<1>3. /\ lines' = Append(lines, line)
      /\ result' # "refused" => LineFitsAfter(lines, line)
      /\ result' = "refused" => (LineFitsAfter(lines, line) => TakenForSecond')
  BY <1>2, Decides
<1>4. Takes(line)
  BY <1>2, <1>3 DEF Takes
<1>5. IInv'
  BY <1>2, ReadLineHolds
<1>6. lines' \in Seq(Lines)
  BY <1>4, HereStep
<1>7. FileFits' <=> LineFitsAfter(lines, line)
  BY <1>2, <1>3, FileFitsStep DEF Match
<1>8. result' # "refused" => Matched'
  BY <1>4, ReadClustersMatched, ReadClusterMatched, HeadingMatched, WakeupMatched,
     PRowMatched, CRowMatched, OtherRowMatched DEF ReadLine
<1> QED BY <1>3, <1>5, <1>6, <1>7, <1>8 DEF MInv, Match, Matched

\* Nothing that is read or stored changes once the file ends.
LEMMA KeepMatches ==
    ASSUME MInv, Keep, lines' = lines, result' = "refused" <=> result = "refused"
    PROVE  MInv'
<1>1. IInv'
  BY KeepHolds DEF MInv
<1>2. /\ clusters' = clusters /\ table' = table /\ current' = current
      /\ nextP' = nextP /\ nextC' = nextC
  BY DEF Keep
<1>3. /\ ClustersMatch' <=> ClustersMatch
      /\ EntriesMatch' <=> EntriesMatch
      /\ SectionMatch' <=> SectionMatch
      /\ RowsMatch' <=> RowsMatch
      /\ FileFits' <=> FileFits
      /\ TakenForSecond' <=> TakenForSecond
  BY <1>2 DEF ClustersMatch, EntriesMatch, SectionMatch, RowsMatch, FileFits, TakenForSecond
<1>4. Match' <=> Match
  BY <1>3 DEF Match
<1> QED BY <1>1, <1>3, <1>4 DEF MInv

LEMMA NextMatches == MInv /\ [Next]_vars => MInv'
<1> SUFFICES ASSUME MInv, [Next]_vars PROVE MInv'
  OBVIOUS
<1>1. ASSUME NEW line \in Lines, ReadLine(line) PROVE MInv'
  BY <1>1, LineMatches
<1>2. CASE EndOfFile
  BY <1>2, KeepMatches DEF EndOfFile
<1>3. CASE Account
  BY <1>3, KeepMatches DEF Account
<1>4. CASE UNCHANGED vars
  BY <1>4, KeepMatches DEF vars, Keep
<1> QED BY <1>1, <1>2, <1>3, <1>4 DEF Next

(* The definitions of EnergyModel are those above, for the lines read.     *)
LEMMA SameWords ==
    /\ \A i : IsRow(i) <=> IsRowIn(lines, i)
    /\ \A i : ClusterOf(i) = ClusterIn(lines, i) /\ SectionOf(i) = SectionIn(lines, i)
    /\ \A b, i : Cardinality({j \in b + 1 .. i : IsRow(j)}) = RowsIn(lines, b, i)
    /\ \A k, sec, n : RowWritten(k, sec, n) = RowWrittenIn(lines, k, sec, n)
<1>1. \A i : IsRow(i) <=> IsRowIn(lines, i)
  BY DEF IsRow, IsRowIn, Kind
<1>2. \A i : ClusterOf(i) = ClusterIn(lines, i) /\ SectionOf(i) = SectionIn(lines, i)
  BY DEF ClusterOf, ClusterIn, SectionOf, SectionIn, Latest, LatestIn, Kind
<1>3. \A b, i : Cardinality({j \in b + 1 .. i : IsRow(j)}) = RowsIn(lines, b, i)
  <2> SUFFICES ASSUME NEW b, NEW i
               PROVE  Cardinality({j \in b + 1 .. i : IsRow(j)}) = RowsIn(lines, b, i)
    OBVIOUS
  <2>1. {j \in b + 1 .. i : IsRow(j)} = {j \in b + 1 .. i : IsRowIn(lines, j)}
    BY <1>1
  <2> QED BY <2>1 DEF RowsIn
<1>4. \A i : RowNumber(i) = RowsIn(lines, SectionIn(lines, i), i)
  BY <1>2, <1>3 DEF RowNumber
<1>5. \A k, sec, n : RowLines(k, sec, n) = RowLinesIn(lines, k, sec, n)
  <2> SUFFICES ASSUME NEW k, NEW sec, NEW n
               PROVE  RowLines(k, sec, n) = RowLinesIn(lines, k, sec, n)
    OBVIOUS
  <2>1. Max({0} \cup {j \in DOMAIN lines : Kind(j) = "cluster" /\ lines[j].id = k}) = OwnIn(lines, k)
    BY DEF OwnIn, Kind
  <2>2. RowLines(k, sec, n) =
          {i \in DOMAIN lines : /\ IsRow(i) /\ ClusterOf(i) = OwnIn(lines, k)
                                /\ Kind(SectionOf(i)) = sec
                                /\ RowNumber(i) = n + 1}
    BY <2>1 DEF RowLines
  <2> QED BY <1>1, <1>2, <1>4, <2>2 DEF RowLinesIn, Kind
<1>6. \A k, sec, n : RowWritten(k, sec, n) = RowWrittenIn(lines, k, sec, n)
  BY <1>5 DEF RowWritten, RowWrittenIn
<1> QED BY <1>1, <1>2, <1>3, <1>6

LEMMA SameFits ==
    ASSUME lines \in Seq(Lines), NEW i \in 1 .. Len(lines)
    PROVE  LineFits(i) <=> FitsIn(lines, i)
<1> DEFINE own == ClusterIn(lines, i)
           b == SectionIn(lines, i)
<1>0. i \in Nat /\ lines[i] \in Lines
  OBVIOUS
<1>1. i \in Nat /\ lines[i] \in Lines /\ lines[i].kind \in LineKinds
  BY <1>0, EnergyModelAssumption
<1>2. /\ IsRow(i) <=> IsRowIn(lines, i)
      /\ ClusterOf(i) = own /\ SectionOf(i) = b
      /\ RowNumber(i) = RowsIn(lines, b, i)
  BY SameWords DEF RowNumber
<1>3. own # 0 => lines[b].kind \in {"cluster", "P-states", "C-states"}
  BY <1>1, SectionFollowsCluster
<1> HIDE DEF own, b
<1>4. IsRowIn(lines, i) <=> lines[i].kind \in RowKinds
  BY DEF IsRowIn, RowKinds
<1>5. CASE lines[i].kind = "clusters"
  <2>1. ~IsRowIn(lines, i)
    BY <1>4, <1>5 DEF RowKinds
  <2> QED BY <1>5, <2>1 DEF LineFits, FitsIn, Kind
<1>6. CASE lines[i].kind = "cluster"
  <2>1. ~IsRowIn(lines, i)
    BY <1>4, <1>6 DEF RowKinds
  <2>2. LineFits(i) <=> ClusterLineFits(i)
    BY <1>6 DEF LineFits, Kind
  <2> QED BY <1>6, <2>1, <2>2 DEF ClusterLineFits, FitsIn, Kind
<1>7. CASE lines[i].kind \notin {"clusters", "cluster"}
  <2>1. LineFits(i) <=> own # 0 /\ (IsRow(i) => RowFits(i))
    BY <1>2, <1>7 DEF LineFits, Kind
  <2>2. FitsIn(lines, i) <=>
          /\ own # 0
          /\ IsRowIn(lines, i) /\ lines[b].kind = "P-states" =>
               lines[i].kind = "speed row" /\ RowsIn(lines, b, i) <= lines[own].caps
          /\ IsRowIn(lines, i) /\ lines[b].kind = "C-states" =>
               lines[i].kind # "incomplete row" /\ RowsIn(lines, b, i) <= lines[own].cstates
    BY <1>7 DEF FitsIn, own, b
  <2>3. ASSUME own # 0
        PROVE  RowFits(i) <=>
          /\ lines[b].kind = "P-states" =>
               lines[i].kind = "speed row" /\ RowsIn(lines, b, i) <= lines[own].caps
          /\ lines[b].kind = "C-states" =>
               lines[i].kind # "incomplete row" /\ RowsIn(lines, b, i) <= lines[own].cstates
    <3>1. CASE lines[b].kind = "cluster"
      BY <1>2, <3>1 DEF RowFits, Kind
    <3>2. CASE lines[b].kind = "P-states"
      BY <1>2, <3>2 DEF RowFits, Kind
    <3>3. CASE lines[b].kind = "C-states"
      BY <1>2, <3>3 DEF RowFits, Kind
    <3> QED BY <1>3, <2>3, <3>1, <3>2, <3>3
  <2> QED BY <1>2, <2>1, <2>2, <2>3
<1> QED BY <1>5, <1>6, <1>7

LEMMA MInvImplies == MInv => StoredAsWritten /\ RefusedIffLineMisfits
<1> SUFFICES ASSUME MInv PROVE StoredAsWritten /\ RefusedIffLineMisfits
  OBVIOUS
<1>1. LinesFit <=> FileFits
  <2>1. lines \in Seq(Lines) /\ DOMAIN lines = 1 .. Len(lines)
    BY DEF MInv
  <2> QED BY <2>1, SameFits DEF LinesFit, FileFits
<1>2. RefusedIffLineMisfits
  BY <1>1 DEF RefusedIffLineMisfits, MInv, Match
<1>3. DOMAIN table = 0 .. clusters - 1
  BY DEF MInv, IInv, TableOK
<1>4. StoredAsWritten
  <2> SUFFICES ASSUME result # "refused", NEW k \in 0 .. clusters - 1, table[k].state # "unset"
               PROVE  /\ \A n \in DOMAIN table[k].p : table[k].p[n] = RowWritten(k, "P-states", n)
                      /\ \A n \in DOMAIN table[k].c : table[k].c[n] = RowWritten(k, "C-states", n)
    BY <1>3 DEF StoredAsWritten
  <2> QED BY SameWords DEF MInv, Match, RowsMatch
<1> QED BY <1>2, <1>4

(* parse_energy_model stores every row of a file it takes under the cluster *)
(* and section the row stands in.                                           *)
THEOREM StoresAsWritten == Spec => []StoredAsWritten
<1>1. Spec => []MInv
  BY InitMatches, NextMatches, PTL DEF Spec
<1> QED  BY <1>1, MInvImplies, PTL

(* parse_energy_model refuses a file exactly when a line of it does not fit *)
(* those before it, but for an entry of the table nobody has cleared.       *)
THEOREM RefusesMisfits == Spec => []RefusedIffLineMisfits
<1>1. Spec => []MInv
  BY InitMatches, NextMatches, PTL DEF Spec
<1> QED  BY <1>1, MInvImplies, PTL

-----------------------------------------------------------------------------
(* Energy.  A row has a weight: its power, unless a row before it has its  *)
(* key.                                                                    *)
First(rows, n) == \A m \in 0 .. n - 1 : rows[m].key # rows[n].key

Weight(rows, level, n) == IF First(rows, n) THEN rows[n][level] ELSE 0

\* The time under one key of what has the keys "key".
TimeUnder(t, key, k) == SumFunctionOnSet(t, {x \in DOMAIN t : key[x] = k})

LEMMA ChargeIs ==
    ASSUME NEW rows, NEW key, NEW time, NEW level
    PROVE  Charge(rows, key, time, level) =
             SumFunctionOnSet([n \in FindRow(rows, key) |-> time * rows[n][level]],
                              FindRow(rows, key))
BY DEF Charge, MapThenSumSet, MapThenFoldSet, SumFunctionOnSet, FoldFunctionOnSet

MHz(f) == f \div 1000

\* The frequencies that are charged.
BusyAt(unit) == DOMAIN unit.busy \ {0}

LEMMA UnitEnergyIs ==
    ASSUME NEW k, NEW unit, NEW level
    PROVE  UnitEnergy(k, unit, level) =
             SumFunctionOnSet([s \in DOMAIN unit.idle |->
                                 Charge(table[k].c, s, unit.idle[s], level)], DOMAIN unit.idle)
             + SumFunctionOnSet([f \in BusyAt(unit) |->
                                   Charge(table[k].p, MHz(f), unit.busy[f], level)],
                                BusyAt(unit))
<1>1. MapThenSumSet(LAMBDA s : Charge(table[k].c, s, unit.idle[s], level), DOMAIN unit.idle) =
        SumFunctionOnSet([s \in DOMAIN unit.idle |->
                            Charge(table[k].c, s, unit.idle[s], level)], DOMAIN unit.idle)
  BY DEF MapThenSumSet, MapThenFoldSet, SumFunctionOnSet, FoldFunctionOnSet
<1>2. MapThenSumSet(LAMBDA f : Charge(table[k].p, MHz(f), unit.busy[f], level), BusyAt(unit)) =
        SumFunctionOnSet([f \in BusyAt(unit) |->
                            Charge(table[k].p, MHz(f), unit.busy[f], level)], BusyAt(unit))
  BY DEF MapThenSumSet, MapThenFoldSet, SumFunctionOnSet, FoldFunctionOnSet
<1>3. UnitEnergy(k, unit, level) =
        MapThenSumSet(LAMBDA s : Charge(table[k].c, s, unit.idle[s], level), DOMAIN unit.idle)
        + MapThenSumSet(LAMBDA f : Charge(table[k].p, MHz(f), unit.busy[f], level), BusyAt(unit))
  BY DEF UnitEnergy, MHz, BusyAt
<1> QED BY <1>1, <1>2, <1>3

LEMMA ClusterEnergyIs ==
    ASSUME NEW k
    PROVE  ClusterEnergy(k) =
             UnitEnergy(k, Usage[k].cluster, "cluster")
             + SumFunctionOnSet([i \in DOMAIN Usage[k].cpus |->
                                   UnitEnergy(k, Usage[k].cpus[i], "core")],
                                DOMAIN Usage[k].cpus)
<1>1. MapThenSumSet(LAMBDA i : UnitEnergy(k, Usage[k].cpus[i], "core"), DOMAIN Usage[k].cpus) =
        SumFunctionOnSet([i \in DOMAIN Usage[k].cpus |->
                            UnitEnergy(k, Usage[k].cpus[i], "core")], DOMAIN Usage[k].cpus)
  BY DEF MapThenSumSet, MapThenFoldSet, SumFunctionOnSet, FoldFunctionOnSet
<1> QED BY <1>1 DEF ClusterEnergy

LEMMA TimesIs ==
    ASSUME NEW unit, NEW key
    PROVE  /\ Times(unit, "C-states", key) =
                SumFunctionOnSet(unit.idle, {s \in DOMAIN unit.idle : s = key})
           /\ Times(unit, "P-states", key) =
                SumFunctionOnSet(unit.busy, {f \in BusyAt(unit) : MHz(f) = key})
<1>1. Times(unit, "C-states", key) =
        MapThenSumSet(LAMBDA s : unit.idle[s], {s \in DOMAIN unit.idle : s = key})
  BY DEF Times
<1>2. Times(unit, "P-states", key) =
        MapThenSumSet(LAMBDA f : unit.busy[f], {f \in BusyAt(unit) : MHz(f) = key})
  BY DEF Times, MHz, BusyAt
<1> QED BY <1>1, <1>2 DEF MapThenSumSet, MapThenFoldSet, SumFunctionOnSet, FoldFunctionOnSet

AllCharges(rows, t, key, level) ==
    SumFunctionOnSet([x \in DOMAIN t |-> Charge(rows, key[x], t[x], level)], DOMAIN t)

RowCharges(rows, size, t, key, level) ==
    SumFunctionOnSet([n \in 0 .. size - 1 |->
                        Weight(rows, level, n) * TimeUnder(t, key, rows[n].key)],
                     0 .. size - 1)

(* What is charged for all the keys of a table of times, row by row.       *)
LEMMA ChargesByRow ==
    ASSUME NEW rows, NEW size \in Nat, DOMAIN rows = 0 .. size - 1, NEW level,
           \A n \in DOMAIN rows : rows[n][level] \in Int,
           NEW t, IsFiniteSet(DOMAIN t), \A x \in DOMAIN t : t[x] \in Int, NEW key
    PROVE  AllCharges(rows, t, key, level) = RowCharges(rows, size, t, key, level)
<1> DEFINE N == 0 .. size - 1
           X == DOMAIN t
           F == [x \in X |-> [n \in N |-> IF rows[n].key = key[x]
                                          THEN Weight(rows, level, n) * t[x] ELSE 0]]
<1>1. IsFiniteSet(N) /\ IsFiniteSet(X)
  BY FS_Interval
<1>2. \A n \in N : Weight(rows, level, n) \in Int
  BY DEF Weight
<1>3. \A x \in X : \A n \in N : F[x][n] \in Int
  <2> SUFFICES ASSUME NEW x \in X, NEW n \in N PROVE F[x][n] \in Int
    OBVIOUS
  <2>1. t[x] \in Int /\ Weight(rows, level, n) \in Int
    BY <1>2
  <2>2. Weight(rows, level, n) * t[x] \in Int
    BY <2>1
  <2> QED BY <2>2
<1>4. \A x \in X : Charge(rows, key[x], t[x], level) = SumFunctionOnSet(F[x], N)
  <2> SUFFICES ASSUME NEW x \in X
               PROVE  Charge(rows, key[x], t[x], level) = SumFunctionOnSet(F[x], N)
    OBVIOUS
  <2> DEFINE R == FindRow(rows, key[x])
             g == [n \in R |-> t[x] * rows[n][level]]
             h == F[x]
  <2>1. R = {n \in N : rows[n].key = key[x] /\ First(rows, n)}
    BY DEF FindRow, First
  <2>2. \A n \in N : h[n] = IF rows[n].key = key[x] THEN Weight(rows, level, n) * t[x] ELSE 0
    OBVIOUS
  <2>3. \A n \in N : h[n] \in Int
    BY <1>3
  <2>4. \A n \in R : g[n] = h[n]
    <3> SUFFICES ASSUME NEW n \in R PROVE t[x] * rows[n][level] = h[n]
      OBVIOUS
    <3>1. n \in N /\ rows[n].key = key[x] /\ Weight(rows, level, n) = rows[n][level]
      BY <2>1 DEF Weight
    <3>2. t[x] \in Int /\ rows[n][level] \in Int
      BY <3>1
    <3>3. h[n] = rows[n][level] * t[x]
      BY <2>2, <3>1
    <3> HIDE DEF h, R
    <3> QED BY <3>2, <3>3
  <2>5. \A n \in N \ R : h[n] = 0
    <3> SUFFICES ASSUME NEW n \in N \ R PROVE h[n] = 0
      OBVIOUS
    <3>1. rows[n].key # key[x] \/ Weight(rows, level, n) = 0
      BY <2>1 DEF Weight
    <3>2. t[x] \in Int
      OBVIOUS
    <3> HIDE DEF h, R
    <3> QED BY <2>2, <3>1, <3>2
  <2>6. R \in SUBSET N
    BY <2>1
  <2> HIDE DEF R, g, h, F
  <2>7. SumFunctionOnSet(h, N) = SumFunctionOnSet(g, R)
    <3> HIDE DEF N
    <3> QED BY <1>1, <2>3, <2>4, <2>5, <2>6, SumWhere
  <2>8. Charge(rows, key[x], t[x], level) = SumFunctionOnSet(g, R)
    BY ChargeIs DEF g, R
  <2> QED BY <2>7, <2>8 DEF h
<1>5. [x \in X |-> Charge(rows, key[x], t[x], level)] = [x \in X |-> SumFunctionOnSet(F[x], N)]
  <2> HIDE DEF F, N
  <2> QED BY <1>4
<1>6. SumFunctionOnSet([x \in X |-> SumFunctionOnSet(F[x], N)], X) =
      SumFunctionOnSet([n \in N |-> SumFunctionOnSet([x \in X |-> F[x][n]], X)], N)
  <2> HIDE DEF F, N, X
  <2> QED BY <1>1, <1>3, SumSwap
<1>7. ASSUME NEW n \in N
      PROVE  SumFunctionOnSet([x \in X |-> F[x][n]], X) =
             Weight(rows, level, n) * TimeUnder(t, key, rows[n].key)
  <2> DEFINE w == Weight(rows, level, n)
             Y == {x \in X : key[x] = rows[n].key}
             f == [x \in X |-> F[x][n]]
             h == [x \in X |-> IF key[x] = rows[n].key THEN t[x] ELSE 0]
  <2>1. w \in Int /\ \A x \in X : h[x] \in Int
    BY <1>2
  <2>2. \A x \in X : f[x] = w * h[x]
    <3> SUFFICES ASSUME NEW x \in X PROVE f[x] = w * h[x]
      OBVIOUS
    <3>1. f[x] = IF rows[n].key = key[x] THEN w * t[x] ELSE 0
      OBVIOUS
    <3>2. h[x] = IF rows[n].key = key[x] THEN t[x] ELSE 0
      OBVIOUS
    <3>3. w * 0 = 0
      BY <2>1
    <3> HIDE DEF f, h, w
    <3> QED BY <3>1, <3>2, <3>3
  <2>3. SumFunctionOnSet(f, X) = w * SumFunctionOnSet(h, X)
    <3> HIDE DEF f, h, w
    <3> QED BY <1>1, <2>1, <2>2, SumFactor
  <2>4. SumFunctionOnSet(h, X) = SumFunctionOnSet(t, Y)
    <3>1. Y \in SUBSET X /\ (\A x \in Y : t[x] = h[x]) /\ (\A x \in X \ Y : h[x] = 0)
      OBVIOUS
    <3> HIDE DEF h, Y
    <3> QED BY <1>1, <2>1, <3>1, SumWhere
  <2> HIDE DEF f, h, w
  <2>5. SumFunctionOnSet(f, X) = w * SumFunctionOnSet(t, Y)
    BY <2>3, <2>4
  <2> QED BY <2>5 DEF TimeUnder, f, w
<1>8. [n \in N |-> SumFunctionOnSet([x \in X |-> F[x][n]], X)] =
      [n \in N |-> Weight(rows, level, n) * TimeUnder(t, key, rows[n].key)]
  <2> HIDE DEF F, N, X
  <2> QED BY <1>7
<1> HIDE DEF F
<1> QED BY <1>5, <1>6, <1>8 DEF AllCharges, RowCharges

WeightedSum(N, p, a) == SumFunctionOnSet([n \in N |-> p[n] * a[n]], N)
WeightedSums(I, N, q, b) == SumFunctionOnSet([i \in I |-> WeightedSum(N, q, b[i])], I)
SumAt(I, b, n) == SumFunctionOnSet([i \in I |-> b[i][n]], I)

(* The rows' charges for a cluster and for its CPUs.                       *)
LEMMA WeightedRows ==
    ASSUME NEW N, NEW I, IsFiniteSet(N), IsFiniteSet(I), NEW a, NEW b, NEW p, NEW q, NEW e,
           \A n \in N : a[n] \in Int /\ p[n] \in Int /\ q[n] \in Int,
           \A i \in I : \A n \in N : b[i][n] \in Int,
           \A n \in N : e[n] = p[n] * a[n] + q[n] * SumAt(I, b, n)
    PROVE  WeightedSum(N, p, a) + WeightedSums(I, N, q, b) = SumFunctionOnSet(e, N)
<1> DEFINE F == [i \in I |-> [n \in N |-> q[n] * b[i][n]]]
           h == [n \in N |-> p[n] * a[n]]
           g == [n \in N |-> SumFunctionOnSet([i \in I |-> F[i][n]], I)]
<1>1. \A i \in I : \A n \in N : F[i][n] = q[n] * b[i][n] /\ F[i][n] \in Int
  <2> SUFFICES ASSUME NEW i \in I, NEW n \in N PROVE q[n] * b[i][n] \in Int
    OBVIOUS
  <2>1. q[n] \in Int /\ b[i][n] \in Int
    OBVIOUS
  <2> QED BY <2>1
<1>2. [i \in I |-> WeightedSum(N, q, b[i])] = [i \in I |-> SumFunctionOnSet(F[i], N)]
  BY DEF WeightedSum
<1>3. SumFunctionOnSet([i \in I |-> SumFunctionOnSet(F[i], N)], I) = SumFunctionOnSet(g, N)
  <2> HIDE DEF F
  <2> QED BY <1>1, SumSwap
<1>4. ASSUME NEW n \in N
      PROVE  /\ g[n] = q[n] * SumAt(I, b, n)
             /\ g[n] \in Int
  <2> DEFINE f == [i \in I |-> F[i][n]]
             c == [i \in I |-> b[i][n]]
  <2>1. \A i \in I : c[i] \in Int /\ f[i] = q[n] * c[i]
    BY <1>1
  <2>2. q[n] \in Int
    OBVIOUS
  <2>3. g[n] = SumFunctionOnSet(f, I)
    OBVIOUS
  <2> HIDE DEF f, c, g, F
  <2>4. SumFunctionOnSet(f, I) = q[n] * SumFunctionOnSet(c, I)
    BY <2>1, <2>2, SumFactor
  <2>5. SumFunctionOnSet(c, I) \in Int
    BY <2>1, SumInt
  <2>6. g[n] = q[n] * SumFunctionOnSet(c, I) /\ g[n] \in Int
    BY <2>2, <2>3, <2>4, <2>5
  <2> QED BY <2>6 DEF c, SumAt
<1>5. \A n \in N : h[n] = p[n] * a[n] /\ h[n] \in Int
  <2> SUFFICES ASSUME NEW n \in N PROVE p[n] * a[n] \in Int
    OBVIOUS
  <2>1. p[n] \in Int /\ a[n] \in Int
    OBVIOUS
  <2> QED BY <2>1
<1>6. \A n \in N : h[n] \in Int /\ g[n] \in Int /\ e[n] = h[n] + g[n]
  <2> HIDE DEF h, g
  <2> QED BY <1>4, <1>5
<1> HIDE DEF g, F
<1>7. SumFunctionOnSet(e, N) = SumFunctionOnSet(h, N) + SumFunctionOnSet(g, N)
  <2> HIDE DEF h
  <2> QED BY <1>6, SumAdd
<1>8. WeightedSum(N, p, a) = SumFunctionOnSet(h, N)
  BY DEF WeightedSum
<1> HIDE DEF h
<1> QED BY <1>2, <1>3, <1>7, <1>8 DEF WeightedSums

\* One section's charges for one unit.
SectionCharge(rows, size, section, unit, level) ==
    SumFunctionOnSet([n \in 0 .. size - 1 |->
                        Weight(rows, level, n) * Times(unit, section, rows[n].key)],
                     0 .. size - 1)

IsRows(rows, size) ==
    /\ size \in Nat /\ DOMAIN rows = 0 .. size - 1
    /\ \A n \in 0 .. size - 1 : rows[n].cluster \in Int /\ rows[n].core \in Int

LEMMA TimesType ==
    ASSUME NEW unit, IsUnit(unit), NEW section \in {"P-states", "C-states"}, NEW key
    PROVE  Times(unit, section, key) \in Int
<1>1. /\ IsFiniteSet(DOMAIN unit.idle) /\ \A x \in DOMAIN unit.idle : unit.idle[x] \in Int
      /\ IsFiniteSet(DOMAIN unit.busy) /\ \A x \in DOMAIN unit.busy : unit.busy[x] \in Int
  BY DEF IsUnit
<1>2. ASSUME NEW t, IsFiniteSet(DOMAIN t), \A x \in DOMAIN t : t[x] \in Int,
             NEW Y \in SUBSET DOMAIN t
      PROVE  SumFunctionOnSet(t, Y) \in Int
  <2>1. IsFiniteSet(Y)
    BY <1>2, FS_Subset
  <2> QED BY <1>2, <2>1, SumInt
<1>3. Times(unit, "C-states", key) \in Int
  <2> DEFINE Y == {s \in DOMAIN unit.idle : s = key}
  <2>1. Times(unit, "C-states", key) = SumFunctionOnSet(unit.idle, Y)
    BY TimesIs
  <2> QED BY <1>1, <1>2, <2>1
<1>4. Times(unit, "P-states", key) \in Int
  <2> DEFINE Y == {f \in BusyAt(unit) : MHz(f) = key}
  <2>1. Times(unit, "P-states", key) = SumFunctionOnSet(unit.busy, Y)
    BY TimesIs
  <2>2. Y \in SUBSET DOMAIN unit.busy
    BY DEF BusyAt
  <2> QED BY <1>1, <1>2, <2>1, <2>2
<1> QED BY <1>3, <1>4

LEMMA UnitByRow ==
    ASSUME NEW k, NEW unit, IsUnit(unit), NEW level \in {"cluster", "core"},
           IsRows(table[k].c, table[k].cstates), IsRows(table[k].p, table[k].caps)
    PROVE  UnitEnergy(k, unit, level) =
             SectionCharge(table[k].c, table[k].cstates, "C-states", unit, level)
             + SectionCharge(table[k].p, table[k].caps, "P-states", unit, level)
<1>1. /\ IsFiniteSet(DOMAIN unit.idle) /\ \A x \in DOMAIN unit.idle : unit.idle[x] \in Int
      /\ IsFiniteSet(DOMAIN unit.busy) /\ \A x \in DOMAIN unit.busy : unit.busy[x] \in Int
  BY DEF IsUnit
<1>2. SumFunctionOnSet([s \in DOMAIN unit.idle |->
                          Charge(table[k].c, s, unit.idle[s], level)], DOMAIN unit.idle)
      = SectionCharge(table[k].c, table[k].cstates, "C-states", unit, level)
  <2> DEFINE t == unit.idle
             rows == table[k].c
             size == table[k].cstates
             key == [s \in DOMAIN t |-> s]
  <2>1. /\ size \in Nat /\ DOMAIN rows = 0 .. size - 1
        /\ \A n \in DOMAIN rows : rows[n][level] \in Int
    BY DEF IsRows
  <2>2. [s \in DOMAIN t |-> Charge(rows, s, t[s], level)] =
        [s \in DOMAIN t |-> Charge(rows, key[s], t[s], level)]
    OBVIOUS
  <2>3. \A n : TimeUnder(t, key, rows[n].key) = Times(unit, "C-states", rows[n].key)
    <3> TAKE n
    <3> DEFINE K == rows[n].key
    <3>1. {x \in DOMAIN t : key[x] = K} = {s \in DOMAIN t : s = K}
      OBVIOUS
    <3>2. Times(unit, "C-states", K) =
            SumFunctionOnSet(unit.idle, {s \in DOMAIN unit.idle : s = K})
      <4> HIDE DEF K, t, key, rows, size
      <4> QED BY TimesIs, ZenonT(30)
    <3> HIDE DEF key, t, K
    <3>4. TimeUnder(t, key, K) = SumFunctionOnSet(t, {x \in DOMAIN t : key[x] = K})
      BY DEF TimeUnder
    <3>3. Times(unit, "C-states", K) = TimeUnder(t, key, K)
      BY <3>1, <3>2, <3>4 DEF t
    <3> QED BY <3>3 DEF K
  <2>7. IsFiniteSet(DOMAIN t) /\ \A x \in DOMAIN t : t[x] \in Int
    BY <1>1
  <2> HIDE DEF key, rows, size, t
  <2>4. AllCharges(rows, t, key, level) = RowCharges(rows, size, t, key, level)
    BY <2>1, <2>7, ChargesByRow
  <2>5. [n \in 0 .. size - 1 |-> Weight(rows, level, n) * TimeUnder(t, key, rows[n].key)] =
        [n \in 0 .. size - 1 |-> Weight(rows, level, n) * Times(unit, "C-states", rows[n].key)]
    BY <2>3
  <2>6. SumFunctionOnSet([s \in DOMAIN t |-> Charge(rows, s, t[s], level)], DOMAIN t) =
        SectionCharge(rows, size, "C-states", unit, level)
    BY <2>2, <2>4, <2>5 DEF SectionCharge, AllCharges, RowCharges
  <2> QED BY <2>6 DEF t, rows, size
<1>3. SumFunctionOnSet([f \in BusyAt(unit) |->
                          Charge(table[k].p, MHz(f), unit.busy[f], level)], BusyAt(unit))
      = SectionCharge(table[k].p, table[k].caps, "P-states", unit, level)
  <2> DEFINE t == [f \in BusyAt(unit) |-> unit.busy[f]]
             rows == table[k].p
             size == table[k].caps
             key == [f \in DOMAIN t |-> MHz(f)]
  <2>1. /\ size \in Nat /\ DOMAIN rows = 0 .. size - 1
        /\ \A n \in DOMAIN rows : rows[n][level] \in Int
    BY DEF IsRows
  <2>2. [f \in DOMAIN t |-> Charge(rows, MHz(f), t[f], level)] =
        [f \in DOMAIN t |-> Charge(rows, key[f], t[f], level)]
    OBVIOUS
  <2>8. [f \in BusyAt(unit) |-> Charge(rows, MHz(f), unit.busy[f], level)] =
        [f \in DOMAIN t |-> Charge(rows, MHz(f), t[f], level)]
    OBVIOUS
  <2>9. DOMAIN t = BusyAt(unit)
    OBVIOUS
  <2>3. \A n : TimeUnder(t, key, rows[n].key) = Times(unit, "P-states", rows[n].key)
    <3> TAKE n
    <3> DEFINE K == rows[n].key
    <3>1. {x \in DOMAIN t : key[x] = K} = {f \in DOMAIN t : MHz(f) = K}
      OBVIOUS
    <3>2. Times(unit, "P-states", K) = SumFunctionOnSet(t, {f \in DOMAIN t : MHz(f) = K})
      <4> DEFINE Y == {f \in DOMAIN t : MHz(f) = K}
      <4>1. Y = {f \in BusyAt(unit) : MHz(f) = K}
        OBVIOUS
      <4>2. Times(unit, "P-states", K) = SumFunctionOnSet(unit.busy, Y)
        BY <4>1, TimesIs
      <4>3. Y \subseteq DOMAIN t /\ \A f \in DOMAIN t : t[f] = unit.busy[f]
        OBVIOUS
      <4>4. IsFiniteSet(Y)
        BY <1>1, FS_Subset DEF BusyAt
      <4> HIDE DEF Y, t, K
      <4>5. SumFunctionOnSet(unit.busy, Y) = SumFunctionOnSet(t, Y)
        BY <4>3, <4>4, SumSame
      <4> QED BY <4>2, <4>5 DEF Y
    <3> HIDE DEF key, t, K
    <3>3. Times(unit, "P-states", K) = TimeUnder(t, key, K)
      BY <3>1, <3>2 DEF TimeUnder
    <3> QED BY <3>3 DEF K
  <2>7. IsFiniteSet(DOMAIN t) /\ \A x \in DOMAIN t : t[x] \in Int
    BY <1>1, FS_Subset DEF BusyAt
  <2> HIDE DEF key, rows, size, t
  <2>4. AllCharges(rows, t, key, level) = RowCharges(rows, size, t, key, level)
    BY <2>1, <2>7, ChargesByRow
  <2>5. [n \in 0 .. size - 1 |-> Weight(rows, level, n) * TimeUnder(t, key, rows[n].key)] =
        [n \in 0 .. size - 1 |-> Weight(rows, level, n) * Times(unit, "P-states", rows[n].key)]
    BY <2>3
  <2>6. SumFunctionOnSet([f \in DOMAIN t |-> Charge(rows, MHz(f), t[f], level)], DOMAIN t) =
        SectionCharge(rows, size, "P-states", unit, level)
    BY <2>2, <2>4, <2>5 DEF SectionCharge, AllCharges, RowCharges
  <2> QED BY <2>6, <2>8, <2>9 DEF rows, size
<1> QED BY <1>2, <1>3, UnitEnergyIs

LEMMA RowEnergyIs ==
    ASSUME NEW k, NEW section, NEW n
    PROVE  LET row == RowWritten(k, section, n)
               cpus == Usage[k].cpus
           IN  RowEnergy(k, section, n) =
                 IF \E m \in 0 .. n - 1 : RowWritten(k, section, m).key = row.key THEN 0
                 ELSE row.cluster * Times(Usage[k].cluster, section, row.key)
                      + row.core * SumFunctionOnSet(
                           [i \in DOMAIN cpus |-> Times(cpus[i], section, row.key)], DOMAIN cpus)
<1> DEFINE row == RowWritten(k, section, n)
           cpus == Usage[k].cpus
<1>1. MapThenSumSet(LAMBDA i : Times(Usage[k].cpus[i], section, row.key), DOMAIN Usage[k].cpus) =
        SumFunctionOnSet([i \in DOMAIN cpus |-> Times(cpus[i], section, row.key)], DOMAIN cpus)
  <2> HIDE DEF row
  <2> QED BY DEF MapThenSumSet, MapThenFoldSet, SumFunctionOnSet, FoldFunctionOnSet
<1> QED BY <1>1 DEF RowEnergy

CpuCharges(k, section, rows, size) ==
    SumFunctionOnSet([i \in DOMAIN Usage[k].cpus |->
                        SectionCharge(rows, size, section, Usage[k].cpus[i], "core")],
                     DOMAIN Usage[k].cpus)

RowEnergies(k, section, size) ==
    SumFunctionOnSet([n \in 0 .. size - 1 |-> RowEnergy(k, section, n)], 0 .. size - 1)

LEMMA SectionByRow ==
    ASSUME NEW k \in DOMAIN Usage, NEW section \in {"P-states", "C-states"},
           NEW rows, NEW size, IsRows(rows, size),
           \A n \in 0 .. size - 1 : rows[n] = RowWritten(k, section, n)
    PROVE  SectionCharge(rows, size, section, Usage[k].cluster, "cluster")
             + CpuCharges(k, section, rows, size)
           = RowEnergies(k, section, size)
<1> DEFINE N == 0 .. size - 1
           cpus == Usage[k].cpus
           I == DOMAIN cpus
           a == [n \in N |-> Times(Usage[k].cluster, section, rows[n].key)]
           b == [i \in I |-> [n \in N |-> Times(cpus[i], section, rows[n].key)]]
           p == [n \in N |-> Weight(rows, "cluster", n)]
           q == [n \in N |-> Weight(rows, "core", n)]
           e == [n \in N |-> RowEnergy(k, section, n)]
<1>1. IsFiniteSet(N) /\ IsFiniteSet(I) /\ size \in Nat
  BY FS_Interval, UsageAssumption DEF IsRows
<1>2. \A n \in N : a[n] \in Int
  BY TimesType, UsageAssumption
<1>3. \A i \in I : \A n \in N : b[i][n] \in Int
  BY TimesType, UsageAssumption
<1>4. \A n \in N : p[n] \in Int /\ q[n] \in Int
  BY DEF Weight, IsRows
<1>5. ASSUME NEW n \in N
      PROVE  e[n] = p[n] * a[n] + q[n] * SumAt(I, b, n)
  <2> DEFINE s == SumFunctionOnSet([i \in I |-> Times(cpus[i], section, rows[n].key)], I)
  <2>1. rows[n] = RowWritten(k, section, n)
        /\ \A m \in 0 .. n - 1 : rows[m] = RowWritten(k, section, m)
    BY <1>1
  <2>2. e[n] = IF First(rows, n)
               THEN rows[n].cluster * a[n] + rows[n].core * s
               ELSE 0
    BY <2>1, RowEnergyIs DEF First
  <2>3. [i \in I |-> b[i][n]] = [i \in I |-> Times(cpus[i], section, rows[n].key)]
    OBVIOUS
  <2>4. s \in Int
    <3> DEFINE f == [i \in I |-> Times(cpus[i], section, rows[n].key)]
    <3>1. \A i \in I : f[i] \in Int
      BY TimesType, UsageAssumption
    <3> HIDE DEF f
    <3>2. SumFunctionOnSet(f, I) \in Int
      BY <1>1, <3>1, SumInt
    <3> QED BY <3>2 DEF f
  <2>5. /\ p[n] = IF First(rows, n) THEN rows[n].cluster ELSE 0
        /\ q[n] = IF First(rows, n) THEN rows[n].core ELSE 0
    BY DEF Weight
  <2>6. SumAt(I, b, n) = s
    BY <2>3 DEF SumAt
  <2>7. a[n] \in Int /\ 0 * a[n] = 0 /\ 0 * s = 0
    BY <1>2, <2>4
  <2> HIDE DEF s, a, b, p, q, e
  <2> QED BY <2>2, <2>4, <2>5, <2>6, <2>7
<1>6. /\ SectionCharge(rows, size, section, Usage[k].cluster, "cluster") =
           WeightedSum(N, p, a)
      /\ \A i \in I : SectionCharge(rows, size, section, cpus[i], "core") =
           WeightedSum(N, q, b[i])
  <2>1. [n \in N |-> Weight(rows, "cluster", n) * Times(Usage[k].cluster, section, rows[n].key)]
        = [n \in N |-> p[n] * a[n]]
    OBVIOUS
  <2>2. \A i \in I :
          [n \in N |-> Weight(rows, "core", n) * Times(cpus[i], section, rows[n].key)]
          = [n \in N |-> q[n] * b[i][n]]
    OBVIOUS
  <2> HIDE DEF p, q, a, b
  <2> QED BY <2>1, <2>2 DEF SectionCharge, WeightedSum
<1> HIDE DEF N, I, a, b, p, q, e
<1>7. WeightedSum(N, p, a) + WeightedSums(I, N, q, b) = SumFunctionOnSet(e, N)
  BY <1>1, <1>2, <1>3, <1>4, <1>5, WeightedRows
<1>8. [i \in I |-> SectionCharge(rows, size, section, cpus[i], "core")] =
      [i \in I |-> WeightedSum(N, q, b[i])]
  BY <1>6
<1> QED BY <1>6, <1>7, <1>8 DEF e, N, I, WeightedSums, CpuCharges, RowEnergies

(* A row of a file that was taken has two powers.                          *)
LEMMA RowsTyped ==
    ASSUME lines \in Seq(Lines), FileFits, NEW k,
           NEW section \in {"P-states", "C-states"}, NEW n
    PROVE  LET row == RowWrittenIn(lines, k, section, n)
           IN  row.cluster \in Int /\ row.core \in Int
<1> DEFINE R == RowLinesIn(lines, k, section, n)
<1>1. CASE R = {}
  BY <1>1 DEF RowWrittenIn, NoRow
<1>2. CASE R # {}
  <2> DEFINE x == Max(R)
  <2>1. Len(lines) \in Nat /\ DOMAIN lines = 1 .. Len(lines)
        /\ \A i \in 1 .. Len(lines) : lines[i] \in Lines
    OBVIOUS
  <2>2. R \subseteq 1 .. Len(lines) /\ IsFiniteSet(R)
    <3>1. R \subseteq 1 .. Len(lines)
      BY <2>1 DEF RowLinesIn
    <3>2. IsFiniteSet(1 .. Len(lines))
      BY <2>1, FS_Interval
    <3> HIDE DEF R
    <3> QED BY <3>1, <3>2, FS_Subset
  <2>3. x \in R
    <3>1. R \in SUBSET Int
      BY <2>1, <2>2
    <3> HIDE DEF R
    <3> QED BY <1>2, <2>2, <3>1, MaxIsGreatest
  <2>4. IsRowIn(lines, x) /\ lines[SectionIn(lines, x)].kind = section /\ x \in 1 .. Len(lines)
    <3> HIDE DEF x
    <3> QED BY <2>2, <2>3 DEF RowLinesIn
  <2>5. FitsIn(lines, x)
    BY <2>4 DEF FileFits
  <2> HIDE DEF x
  <2>6. lines[x].kind \in {"speed row", "name row"}
    BY <2>4, <2>5 DEF FitsIn, IsRowIn
  <2>7. lines[x].cluster \in Nat /\ lines[x].core \in Nat
    BY <2>1, <2>4, <2>6, EnergyModelAssumption
  <2>8. RowWrittenIn(lines, k, section, n) = RowOf(lines[x])
    BY <1>2 DEF RowWrittenIn, x
  <2> QED BY <2>7, <2>8 DEF RowOf
<1> QED BY <1>1, <1>2

LEMMA EntryRows ==
    ASSUME MInv, result # "refused", NEW k \in 0 .. clusters - 1, table[k].state # "unset"
    PROVE  /\ IsRows(table[k].c, table[k].cstates) /\ IsRows(table[k].p, table[k].caps)
           /\ \A n \in 0 .. table[k].cstates - 1 : table[k].c[n] = RowWritten(k, "C-states", n)
           /\ \A n \in 0 .. table[k].caps - 1 : table[k].p[n] = RowWritten(k, "P-states", n)
<1>1. IsEntry(table[k])
  BY DEF MInv, IInv, TableOK
<1>2. /\ table[k].caps \in Nat /\ table[k].cstates \in Nat
      /\ DOMAIN table[k].p = 0 .. table[k].caps - 1
      /\ DOMAIN table[k].c = 0 .. table[k].cstates - 1
  BY <1>1 DEF IsEntry
<1>3. /\ \A n \in DOMAIN table[k].p : table[k].p[n] = RowWrittenIn(lines, k, "P-states", n)
      /\ \A n \in DOMAIN table[k].c : table[k].c[n] = RowWrittenIn(lines, k, "C-states", n)
  BY DEF MInv, Match, RowsMatch
<1>4. lines \in Seq(Lines) /\ FileFits
  BY DEF MInv, Match
<1>5. ASSUME NEW section \in {"P-states", "C-states"}, NEW n
      PROVE  /\ RowWrittenIn(lines, k, section, n).cluster \in Int
             /\ RowWrittenIn(lines, k, section, n).core \in Int
  BY <1>4, RowsTyped
<1>6. IsRows(table[k].c, table[k].cstates)
  BY <1>2, <1>3, <1>5 DEF IsRows
<1>7. IsRows(table[k].p, table[k].caps)
  BY <1>2, <1>3, <1>5 DEF IsRows
<1>8. \A sec, n : RowWritten(k, sec, n) = RowWrittenIn(lines, k, sec, n)
  BY SameWords
<1> QED BY <1>2, <1>3, <1>6, <1>7, <1>8

LEMMA ChargeType ==
    ASSUME NEW rows, NEW size, IsRows(rows, size), NEW unit, IsUnit(unit),
           NEW section \in {"P-states", "C-states"}, NEW level \in {"cluster", "core"}
    PROVE  SectionCharge(rows, size, section, unit, level) \in Int
<1> DEFINE N == 0 .. size - 1
           f == [n \in N |-> Weight(rows, level, n) * Times(unit, section, rows[n].key)]
<1>1. IsFiniteSet(N)
  <2>1. 0 \in Int /\ size - 1 \in Int
    BY DEF IsRows
  <2> QED BY <2>1, FS_Interval
<1>2. \A n \in N : f[n] \in Int
  <2> SUFFICES ASSUME NEW n \in N
               PROVE  Weight(rows, level, n) * Times(unit, section, rows[n].key) \in Int
    OBVIOUS
  <2>1. Weight(rows, level, n) \in Int
    BY DEF Weight, IsRows
  <2>2. Times(unit, section, rows[n].key) \in Int
    BY TimesType
  <2> QED BY <2>1, <2>2
<1> HIDE DEF f, N
<1>3. SumFunctionOnSet(f, N) \in Int
  BY <1>1, <1>2, SumInt
<1> QED BY <1>3 DEF SectionCharge, f, N

LEMMA RowSumIs ==
    ASSUME NEW k, NEW section, NEW size
    PROVE  MapThenSumSet(LAMBDA n : RowEnergy(k, section, n), 0 .. size - 1) =
           RowEnergies(k, section, size)
BY DEF RowEnergies, MapThenSumSet, MapThenFoldSet, SumFunctionOnSet, FoldFunctionOnSet

(* A cluster's energy is the sum of its rows'.                             *)
LEMMA ClusterByRow ==
    ASSUME MInv, result # "refused", NEW k \in DOMAIN Usage, HasEntry(k)
    PROVE  ClusterEnergy(k) =
             MapThenSumSet(LAMBDA n : RowEnergy(k, "P-states", n), 0 .. table[k].caps - 1)
             + MapThenSumSet(LAMBDA n : RowEnergy(k, "C-states", n), 0 .. table[k].cstates - 1)
<1> DEFINE cpus == Usage[k].cpus
           I == DOMAIN cpus
           c == table[k].c
           cn == table[k].cstates
           p == table[k].p
           pn == table[k].caps
           C0 == SectionCharge(c, cn, "C-states", Usage[k].cluster, "cluster")
           P0 == SectionCharge(p, pn, "P-states", Usage[k].cluster, "cluster")
           C1 == [i \in I |-> SectionCharge(c, cn, "C-states", cpus[i], "core")]
           P1 == [i \in I |-> SectionCharge(p, pn, "P-states", cpus[i], "core")]
           U  == [i \in I |-> UnitEnergy(k, cpus[i], "core")]
<1>1. k \in 0 .. clusters - 1 /\ table[k].state # "unset"
  BY UsageAssumption DEF HasEntry, MInv, IInv, TableOK
<1>2. /\ IsRows(c, cn) /\ IsRows(p, pn)
      /\ \A n \in 0 .. cn - 1 : c[n] = RowWritten(k, "C-states", n)
      /\ \A n \in 0 .. pn - 1 : p[n] = RowWritten(k, "P-states", n)
  BY <1>1, EntryRows
<1>3. /\ IsUnit(Usage[k].cluster) /\ IsFiniteSet(I) /\ \A i \in I : IsUnit(cpus[i])
  BY UsageAssumption
<1>4. C0 + SumFunctionOnSet(C1, I) =
        MapThenSumSet(LAMBDA n : RowEnergy(k, "C-states", n), 0 .. table[k].cstates - 1)
  <2>1. C0 + CpuCharges(k, "C-states", c, cn) = RowEnergies(k, "C-states", cn)
    <3> HIDE DEF c, cn
    <3> QED BY <1>2, SectionByRow
  <2>2. SumFunctionOnSet(C1, I) = CpuCharges(k, "C-states", c, cn)
    BY DEF CpuCharges
  <2>3. MapThenSumSet(LAMBDA n : RowEnergy(k, "C-states", n), 0 .. table[k].cstates - 1) =
          RowEnergies(k, "C-states", cn)
    BY RowSumIs
  <2> QED BY <2>1, <2>2, <2>3
<1>5. P0 + SumFunctionOnSet(P1, I) =
        MapThenSumSet(LAMBDA n : RowEnergy(k, "P-states", n), 0 .. table[k].caps - 1)
  <2>1. P0 + CpuCharges(k, "P-states", p, pn) = RowEnergies(k, "P-states", pn)
    <3> HIDE DEF p, pn
    <3> QED BY <1>2, SectionByRow
  <2>2. SumFunctionOnSet(P1, I) = CpuCharges(k, "P-states", p, pn)
    BY DEF CpuCharges
  <2>3. MapThenSumSet(LAMBDA n : RowEnergy(k, "P-states", n), 0 .. table[k].caps - 1) =
          RowEnergies(k, "P-states", pn)
    BY RowSumIs
  <2> QED BY <2>1, <2>2, <2>3
<1>6. UnitEnergy(k, Usage[k].cluster, "cluster") = C0 + P0
  BY <1>2, <1>3, UnitByRow
<1>7. \A i \in I : U[i] = C1[i] + P1[i] /\ C1[i] \in Int /\ P1[i] \in Int
  BY <1>2, <1>3, UnitByRow, ChargeType
<1>8. C0 \in Int /\ P0 \in Int
  BY <1>2, <1>3, ChargeType
<1>9. ClusterEnergy(k) = UnitEnergy(k, Usage[k].cluster, "cluster") + SumFunctionOnSet(U, I)
  BY ClusterEnergyIs
<1> HIDE DEF I, C0, P0, C1, P1, U
<1>10. SumFunctionOnSet(U, I) = SumFunctionOnSet(C1, I) + SumFunctionOnSet(P1, I)
  BY <1>3, <1>7, SumAdd
<1>11. SumFunctionOnSet(C1, I) \in Int /\ SumFunctionOnSet(P1, I) \in Int
  BY <1>3, <1>7, SumInt
<1> DEFINE x == SumFunctionOnSet(C1, I)
           y == SumFunctionOnSet(P1, I)
           v == MapThenSumSet(LAMBDA n : RowEnergy(k, "C-states", n), 0 .. table[k].cstates - 1)
           w == MapThenSumSet(LAMBDA n : RowEnergy(k, "P-states", n), 0 .. table[k].caps - 1)
<1>12. C0 + x = v /\ P0 + y = w /\ ClusterEnergy(k) = (C0 + P0) + (x + y)
  BY <1>4, <1>5, <1>6, <1>9, <1>10
<1> HIDE DEF x, y, v, w
<1>13. ClusterEnergy(k) = w + v
  BY <1>8, <1>11, <1>12 DEF x, y
<1> QED BY <1>13 DEF v, w

(* The sum, as a function of the table.                                    *)
UnitEnergyOf(entry, unit, level) ==
    MapThenSumSet(LAMBDA s : Charge(entry.c, s, unit.idle[s], level), DOMAIN unit.idle)
    + MapThenSumSet(LAMBDA f : Charge(entry.p, f \div 1000, unit.busy[f], level),
                    DOMAIN unit.busy \ {0})

ClusterEnergyOf(entries, k) ==
    UnitEnergyOf(entries[k], Usage[k].cluster, "cluster")
    + MapThenSumSet(LAMBDA i : UnitEnergyOf(entries[k], Usage[k].cpus[i], "core"),
                    DOMAIN Usage[k].cpus)

LEMMA SameEnergy == \A k : ClusterEnergy(k) = ClusterEnergyOf(table, k)
BY DEF ClusterEnergy, UnitEnergy, ClusterEnergyOf, UnitEnergyOf

(* The energies were summed from the table as it is.                       *)
EInv == /\ MInv
        /\ result = "reported" =>
              /\ \A k \in DOMAIN Usage : HasEntry(k)
              /\ energy = [k \in DOMAIN Usage |-> ClusterEnergyOf(table, k)]

LEMMA AccountSums == EInv /\ [Next]_vars => EInv'
<1> SUFFICES ASSUME EInv, [Next]_vars PROVE EInv'
  OBVIOUS
<1>1. MInv'
  BY NextMatches DEF EInv
<1>2. CASE \E line \in Lines : ReadLine(line)
  <2>1. result' \in {"reading", "refused"}
    BY <1>2 DEF ReadLine, ReadClusters, ReadCluster, ReadPHeading, ReadCHeading, ReadWakeup,
                ReadPRow, ReadCRow, ReadOtherRow, FetchRow, Fetch, Refuse
  <2> QED BY <1>1, <2>1 DEF EInv
<1>3. CASE EndOfFile
  BY <1>1, <1>3 DEF EInv, EndOfFile
<1>4. ASSUME table' = table, clusters' = clusters
      PROVE  \A k : HasEntry(k)' <=> HasEntry(k)
  BY <1>4 DEF HasEntry
<1>5. CASE Account
  <2>1. table' = table /\ clusters' = clusters
    BY <1>5 DEF Account, Keep
  <2>2. result' = "reported" => /\ \A k \in DOMAIN Usage : HasEntry(k)
                                /\ energy' = [k \in DOMAIN Usage |-> ClusterEnergyOf(table, k)]
    BY <1>5, SameEnergy DEF Account
  <2> QED BY <1>1, <1>4, <2>1, <2>2 DEF EInv
<1>6. CASE UNCHANGED vars
  <2>1. table' = table /\ clusters' = clusters /\ result' = result /\ energy' = energy
    BY <1>6 DEF vars
  <2> QED BY <1>1, <1>4, <2>1 DEF EInv
<1> QED BY <1>2, <1>3, <1>5, <1>6 DEF Next

(* calculate_energy_consumption charges for every row of the file the row's *)
(* powers times what the cluster and its CPUs spent in the row's state.     *)
THEOREM EnergyIsByRows == Spec => []EnergyByRows
<1>1. Init => EInv
  BY InitMatches DEF Init, EInv
<1>2. EInv => EnergyByRows
  <2> SUFFICES ASSUME EInv, result = "reported", NEW k \in DOMAIN Usage
               PROVE  energy[k] =
                        MapThenSumSet(LAMBDA n : RowEnergy(k, "P-states", n),
                                      0 .. table[k].caps - 1)
                        + MapThenSumSet(LAMBDA n : RowEnergy(k, "C-states", n),
                                        0 .. table[k].cstates - 1)
    BY DEF EnergyByRows
  <2>1. MInv /\ HasEntry(k) /\ energy[k] = ClusterEnergy(k) /\ result # "refused"
    BY SameEnergy DEF EInv
  <2> QED BY <2>1, ClusterByRow
<1> QED BY <1>1, <1>2, AccountSums, PTL DEF Spec

-----------------------------------------------------------------------------
(* The template that idlestat writes for a machine (EnergyTemplate), read  *)
(* line by line.                                                           *)

\* The lines a template is made of.
TemplateLine ==
    {[kind |-> "C-states"], [kind |-> "P-states"]}
      \cup {[kind |-> "clusters", n |-> n] : n \in Nat}
      \cup {[kind |-> "cluster", id |-> x[1], caps |-> x[2], cstates |-> x[3]] :
              x \in Nat \X Nat \X Nat}
      \cup {FilledIn("speed row", key) : key \in Int}
      \cup {FilledIn("name row", s) : s \in Names}

(* What the template of a machine gives, cluster by cluster.               *)
Speeds(m, k)    == Known(LastCpu(m, k).freqs)
SpeedRow(m, k, i) == FilledIn("speed row", Speeds(m, k)[i] \div 1000)
NameRow(m, k, i)  == FilledIn("name row", LastCpu(m, k).cstates[i])
CapsOf(m, k)    == Len(Speeds(m, k))
CstatesOf(m, k) == Len(LastCpu(m, k).cstates)
PartLen(m, k)   == 4 + CapsOf(m, k) + CstatesOf(m, k)

\* A cluster's entry when p rows of its P-states and c of its C-states are read.
EntryWith(m, k, section, p, c) ==
    [caps |-> CapsOf(m, k), cstates |-> CstatesOf(m, k),
     p |-> [n \in 0 .. CapsOf(m, k) - 1 |->
               IF n < p THEN RowOf(SpeedRow(m, k, n + 1))
               ELSE NoRow],
     c |-> [n \in 0 .. CstatesOf(m, k) - 1 |->
               IF n < c THEN RowOf(NameRow(m, k, n + 1))
               ELSE NoRow],
     wakeup |-> <<0, 0>>, state |-> section]

\* The entry when i >= 2 lines of the cluster's part are read: the heading that
\* belongs to the cluster before, the cluster's line, a heading, the P-states'
\* rows, a heading, the C-states' rows.
EntryAfter(m, k, i) ==
    IF i = 2 THEN EntryWith(m, k, "counts", 0, 0)
    ELSE IF i <= 3 + CapsOf(m, k) THEN EntryWith(m, k, "P-states", i - 3, 0)
    ELSE EntryWith(m, k, "C-states", CapsOf(m, k), i - 4 - CapsOf(m, k))

\* The parser is behind the i-th line of the k-th cluster's part.
ReadUpTo(m, k, i) ==
    /\ clusters = Len(m) /\ table = [x \in 0 .. Len(m) - 1 |-> table[x]]
    /\ \A j \in 1 .. k - 1 : table[j - 1] = EntryAfter(m, j, PartLen(m, j))
    /\ i >= 2 => table[k - 1] = EntryAfter(m, k, i)
    /\ \A j \in (IF i = 1 THEN k ELSE k + 1) .. Len(m) :
          \E left \in Leftover : table[j - 1] = Unset(left)
    /\ current = IF i = 1 THEN k - 2 ELSE k - 1
    /\ i \in 3 .. 3 + CapsOf(m, k) => nextP = i - 3
    /\ i >= 4 + CapsOf(m, k) => nextC = i - 4 - CapsOf(m, k)

Parts(m) == [k \in DOMAIN m |-> ClusterTemplate(m, k)]
PartOff(m) == CHOOSE off : Places(FlattenSeq(Parts(m)), Parts(m), off)

\* The parser is somewhere in the clusters' parts, which follow the first line.
\* Unless the heading in front of the first cluster was removed, it gets no
\* further than to that heading.
ReadSoFar(m) ==
    \E k \in 1 .. Len(m) : \E i \in 1 .. PartLen(m, k) :
       /\ Len(lines) = PartOff(m)[k] + i
       /\ ReadUpTo(m, k, i)
       /\ ~edited => k = 1 /\ i = 1 /\ lines = <<Template(m)[1]>>

TemplateInv(m) ==
    /\ result \in {"reading", "refused", "parsed"} /\ lines \in Seq(TemplateLine)
    /\ result = "reading" =>
         \/ lines = <<>> /\ clusters = 0 /\ current = -1
         \/ ReadSoFar(m)
    /\ result = "refused" =>
          IF edited THEN TakenForSecond ELSE lines = SubSeq(Template(m), 1, 2)
    /\ result = "parsed" =>
          /\ edited
          /\ \A k \in 1 .. Len(m) : table[k - 1] = EntryAfter(m, k, PartLen(m, k))

-----------------------------------------------------------------------------
(* The text.                                                               *)

(* The frequencies that are known are those that are not 0.                *)
LEMMA KnownIs ==
    ASSUME NEW freqs \in Seq(Nat)
    PROVE  /\ Known(freqs) \in Seq(Nat)
           /\ \A f \in ToSet(freqs) \ {0} :
                 \E i \in 1 .. Len(Known(freqs)) : Known(freqs)[i] = f
           /\ \A i \in 1 .. Len(Known(freqs)) : Known(freqs)[i] \in ToSet(freqs) \ {0}
<1> DEFINE seqs == [i \in DOMAIN freqs |-> IF freqs[i] = 0 THEN <<>> ELSE <<freqs[i]>>]
           F == FlattenSeq(seqs)
<1>1. DOMAIN freqs = 1 .. Len(freqs) /\ Len(freqs) \in Nat
      /\ \A i \in 1 .. Len(freqs) : freqs[i] \in Nat
  OBVIOUS
<1>2. seqs \in Seq(Seq(Nat)) /\ Len(seqs) = Len(freqs)
  <2>1. \A f \in Nat : <<>> \in Seq(Nat) /\ <<f>> \in Seq(Nat)
    OBVIOUS
  <2>2. seqs \in [1 .. Len(freqs) -> Seq(Nat)]
    BY <1>1, <2>1
  <2> HIDE DEF seqs
  <2> QED BY <1>1, <2>2, FunctionIsSeq
<1>3. \A i \in 1 .. Len(freqs) : freqs[i] # 0 => seqs[i] = <<freqs[i]>>
  BY <1>1
<1>4. F = Known(freqs)
  BY DEF Known
<1> HIDE DEF seqs
<1>5. F \in Seq(Nat)
  BY <1>2, FlattenInSeq
<1>6. PICK off : Places(F, seqs, off)
  BY <1>2, FlattenPlaces
<1>8. F \in Seq(ToSet(freqs) \ {0})
  <2> DEFINE K == ToSet(freqs) \ {0}
  <2>1. \A i \in 1 .. Len(freqs) : freqs[i] # 0 => freqs[i] \in K
    BY <1>1 DEF ToSet
  <2>2. \A i \in 1 .. Len(freqs) : seqs[i] = IF freqs[i] = 0 THEN <<>> ELSE <<freqs[i]>>
    BY <1>1 DEF seqs
  <2> HIDE DEF K
  <2>3. ASSUME NEW i \in 1 .. Len(freqs)
        PROVE  seqs[i] \in Seq(K)
    <3>1. CASE freqs[i] = 0
      <4>1. seqs[i] = <<>>
        BY <2>2, <3>1
      <4> QED BY ONLY <4>1
    <3>2. CASE freqs[i] # 0
      <4>1. seqs[i] = <<freqs[i]>> /\ freqs[i] \in K
        BY <2>1, <2>2, <3>2
      <4> QED BY ONLY <4>1
    <3> QED BY <3>1, <3>2
  <2>4. seqs \in [1 .. Len(freqs) -> Seq(K)]
    BY <1>2, <2>3
  <2>5. seqs \in Seq(Seq(K))
    BY <1>1, <2>4, FunctionIsSeq
  <2> QED BY <2>5, FlattenInSeq DEF K
<1> HIDE DEF F
<1>9. \A i \in 1 .. Len(F) : F[i] \in ToSet(freqs) \ {0}
  BY <1>8
<1>7. ASSUME NEW f \in ToSet(freqs) \ {0}
      PROVE  \E i \in 1 .. Len(F) : F[i] = f
  <2>1. PICK i \in 1 .. Len(freqs) : freqs[i] = f
    BY <1>1 DEF ToSet
  <2>2. seqs[i] = <<f>> /\ i \in 1 .. Len(seqs)
    BY <1>2, <1>3, <2>1
  <2>3. 1 \in 1 .. Len(seqs[i]) /\ seqs[i][1] = f
    BY <2>2
  <2>4. off[i] + 1 \in 1 .. Len(F) /\ F[off[i] + 1] = f
    BY <1>6, <2>2, <2>3 DEF Places
  <2> QED BY <2>4
<1> QED BY <1>4, <1>5, <1>7, <1>9



(* What a machine consists of.                                             *)
LEMMA MachineTypes ==
    ASSUME NEW m \in Machines
    PROVE  /\ DOMAIN m = 1 .. Len(m) /\ Len(m) \in Nat
           /\ m # <<>> => Len(m) >= 1
           /\ \A k \in 1 .. Len(m) :
                 /\ LastCpu(m, k).freqs \in Seq(Nat) /\ LastCpu(m, k).cstates \in Seq(Names)
                 /\ Speeds(m, k) \in Seq(Nat)
                 /\ CapsOf(m, k) \in Nat /\ CstatesOf(m, k) \in Nat
<1>1. /\ m \in Seq(Seq(Seq([freqs : Seq(Nat), cstates : Seq(Names)])))
      /\ \A k \in DOMAIN m : m[k] # <<>> /\ Last(m[k]) # <<>>
  BY MachinesAssumption
<1>2. \A k \in 1 .. Len(m) : LastCpu(m, k).freqs \in Seq(Nat) /\ LastCpu(m, k).cstates \in Seq(Names)
  <2> DEFINE S == [freqs : Seq(Nat), cstates : Seq(Names)]
  <2>1. \A c \in S : c.freqs \in Seq(Nat) /\ c.cstates \in Seq(Names)
    OBVIOUS
  <2>2. m \in Seq(Seq(Seq(S))) /\ \A k \in 1 .. Len(m) : m[k] # <<>> /\ Last(m[k]) # <<>>
    BY <1>1
  <2> HIDE DEF S
  <2>3. ASSUME NEW T, NEW s \in Seq(T), s # <<>>
        PROVE  Last(s) \in T
    <3>1. Len(s) \in 1 .. Len(s)
      BY <2>3
    <3> QED BY <3>1, <2>3 DEF Last
  <2>4. ASSUME NEW k \in 1 .. Len(m)
        PROVE  LastCpu(m, k) \in S
    <3>1. m[k] \in Seq(Seq(S)) /\ m[k] # <<>> /\ Last(m[k]) # <<>>
      BY <2>2
    <3>2. Last(m[k]) \in Seq(S)
      BY ONLY <2>3, <3>1
    <3>3. Last(Last(m[k])) \in S
      BY ONLY <2>3, <3>1, <3>2
    <3> QED BY <3>3 DEF LastCpu
  <2> QED BY <2>1, <2>4
<1>3. \A k \in 1 .. Len(m) : Speeds(m, k) \in Seq(Nat)
  BY <1>2, KnownIs DEF Speeds
<1>4. \A k \in 1 .. Len(m) : CapsOf(m, k) \in Nat /\ CstatesOf(m, k) \in Nat
  BY <1>2, <1>3 DEF CapsOf, CstatesOf
<1>5. DOMAIN m = 1 .. Len(m) /\ Len(m) \in Nat /\ (m # <<>> => Len(m) >= 1)
  BY <1>1
<1> QED BY <1>2, <1>3, <1>4, <1>5

(* A cluster's part, line by line.                                         *)
LEMMA PartIs ==
    ASSUME NEW m \in Machines, NEW k \in 1 .. Len(m)
    PROVE  LET part == ClusterTemplate(m, k)
           IN  /\ part \in Seq(TemplateLine) /\ Len(part) = PartLen(m, k)
               /\ part[1] = [kind |-> "C-states"]
               /\ part[2] = [kind |-> "cluster", id |-> k - 1, caps |-> CapsOf(m, k),
                             cstates |-> CstatesOf(m, k)]
               /\ part[3] = [kind |-> "P-states"]
               /\ \A i \in 1 .. CapsOf(m, k) :
                     part[3 + i] = SpeedRow(m, k, i)
               /\ part[4 + CapsOf(m, k)] = [kind |-> "C-states"]
               /\ \A i \in 1 .. CstatesOf(m, k) :
                     part[4 + CapsOf(m, k) + i] = NameRow(m, k, i)
<1> DEFINE np == CapsOf(m, k)
           nc == CstatesOf(m, k)
           c2 == [kind |-> "cluster", id |-> k - 1, caps |-> np, cstates |-> nc]
           h  == [kind |-> "C-states"]
           h3 == [kind |-> "P-states"]
           A  == <<h, c2, h3>>
           P  == [i \in DOMAIN Speeds(m, k) |->
                     SpeedRow(m, k, i)]
           D  == <<h>>
           N  == [i \in DOMAIN LastCpu(m, k).cstates |-> NameRow(m, k, i)]
           B  == A \o P \o D
           T  == TemplateLine
<1>1. /\ np \in Nat /\ nc \in Nat /\ k - 1 \in Nat
      /\ DOMAIN Speeds(m, k) = 1 .. np /\ DOMAIN LastCpu(m, k).cstates = 1 .. nc
      /\ \A i \in 1 .. np : Speeds(m, k)[i] \in Nat
      /\ \A i \in 1 .. nc : LastCpu(m, k).cstates[i] \in Names
  <2>1. /\ LastCpu(m, k).cstates \in Seq(Names) /\ Speeds(m, k) \in Seq(Nat)
        /\ np \in Nat /\ nc \in Nat /\ Len(m) \in Nat
    BY MachineTypes
  <2> QED BY <2>1 DEF CapsOf, CstatesOf
<1>2. ClusterTemplate(m, k) = B \o N
  BY DEF ClusterTemplate, Speeds, CapsOf, CstatesOf, SpeedRow, NameRow
<1>3. h \in T /\ h3 \in T /\ c2 \in T
  <2>1. h \in T /\ h3 \in T
    BY DEF TemplateLine
  <2> DEFINE x == <<k - 1, np, nc>>
  <2>2. x \in Nat \X Nat \X Nat /\ x[1] = k - 1 /\ x[2] = np /\ x[3] = nc
    BY <1>1
  <2> HIDE DEF x
  <2>3. c2 = [kind |-> "cluster", id |-> x[1], caps |-> x[2], cstates |-> x[3]]
    BY <2>2
  <2>4. c2 \in T
    BY <2>2, <2>3 DEF TemplateLine
  <2> QED BY <2>1, <2>4
<1>4. /\ P \in Seq(T) /\ Len(P) = np
      /\ \A i \in 1 .. np : P[i] = SpeedRow(m, k, i)
  <2>1. \A key \in Int : FilledIn("speed row", key) \in T
    BY Zenon DEF TemplateLine
  <2> HIDE DEF T
  <2>2. P \in [1 .. np -> T]
    <3>1. ASSUME NEW i \in 1 .. np
          PROVE  SpeedRow(m, k, i) \in T
      <4>1. Speeds(m, k)[i] \in Nat
        BY <1>1
      <4>2. Speeds(m, k)[i] \div 1000 \in Int
        BY <4>1
      <4> QED BY <2>1, <4>2, ZenonT(40) DEF SpeedRow
    <3>2. DOMAIN Speeds(m, k) = 1 .. np
      BY <1>1
    <3> QED BY ONLY <3>1, <3>2 DEF P
  <2>3. \A i \in 1 .. np : P[i] = SpeedRow(m, k, i)
    BY <1>1
  <2> HIDE DEF P, np
  <2> QED BY <1>1, <2>2, <2>3, FunctionIsSeq
<1>5. /\ N \in Seq(T) /\ Len(N) = nc
      /\ \A i \in 1 .. nc : N[i] = NameRow(m, k, i)
  <2>1. \A s \in Names : FilledIn("name row", s) \in T
    BY Zenon DEF TemplateLine
  <2> HIDE DEF T
  <2>2. N \in [1 .. nc -> T]
    <3>1. \A i \in 1 .. nc : NameRow(m, k, i) \in T
      BY <1>1, <2>1, Zenon DEF NameRow
    <3>2. DOMAIN LastCpu(m, k).cstates = 1 .. nc
      BY <1>1
    <3> QED BY ONLY <3>1, <3>2 DEF N
  <2>3. \A i \in 1 .. nc : N[i] = NameRow(m, k, i)
    BY <1>1
  <2> HIDE DEF N, nc
  <2> QED BY <1>1, <2>2, <2>3, FunctionIsSeq
<1> HIDE DEF T, P, N, h, h3, c2
<1>6. /\ A \in Seq(T) /\ Len(A) = 3 /\ A[1] = h /\ A[2] = c2 /\ A[3] = h3
      /\ D \in Seq(T) /\ Len(D) = 1 /\ D[1] = h
  BY <1>3
<1> HIDE DEF A, D, np, nc
<1>7. /\ B \in Seq(T) /\ Len(B) = Len(A) + Len(P) + Len(D)
      /\ \A i \in 1 .. Len(A) : B[i] = A[i]
      /\ \A i \in 1 .. Len(P) : B[Len(A) + i] = P[i]
      /\ \A i \in 1 .. Len(D) : B[Len(A) + Len(P) + i] = D[i]
  <2>1. A \in Seq(T) /\ P \in Seq(T) /\ D \in Seq(T)
    BY <1>4, <1>6
  <2> QED BY ONLY SMTT(40), <2>1, ThreeParts
<1> HIDE DEF B
<1>15. np \in Nat /\ nc \in Nat
  BY <1>1
<1>8. /\ Len(B) = 4 + np /\ B \in Seq(T)
      /\ B[1] = h /\ B[2] = c2 /\ B[3] = h3
      /\ \A i \in 1 .. np : B[3 + i] = P[i]
      /\ B[4 + np] = h
  <2>1. Len(A) = 3 /\ Len(P) = np /\ Len(D) = 1
    BY <1>4, <1>6
  <2>2. B[3 + np + 1] = h /\ 3 + np + 1 = 4 + np
    BY <1>15, <1>6, <1>7, <2>1
  <2>3. Len(B) = 4 + np
    BY <1>15, <1>7, <2>1
  <2>4. B[1] = h /\ B[2] = c2 /\ B[3] = h3
    BY <1>6, <1>7, <2>1
  <2> QED BY <1>7, <2>1, <2>2, <2>3, <2>4
<1> DEFINE F == B \o N
<1>9. /\ F \in Seq(T) /\ Len(F) = Len(B) + Len(N)
      /\ \A i \in 1 .. Len(B) + Len(N) :
            F[i] = IF i <= Len(B) THEN B[i] ELSE N[i - Len(B)]
  <2>1. B \in Seq(T) /\ N \in Seq(T)
    BY <1>5, <1>8
  <2> QED BY ONLY <2>1, ConcatProperties
<1>10. F = ClusterTemplate(m, k)
  BY <1>2
<1> HIDE DEF F
<1>16. Len(B) = 4 + np /\ Len(N) = nc
  BY <1>5, <1>8
<1>11. Len(F) = 4 + np + nc
  BY <1>16, <1>9
<1>12. F[1] = h /\ F[2] = c2 /\ F[3] = h3 /\ F[4 + np] = h
  BY <1>15, <1>16, <1>8, <1>9
<1>13. \A i \in 1 .. np : F[3 + i] = P[i]
  <2> TAKE i \in 1 .. np
  <2>1. 3 + i \in 1 .. Len(B) + Len(N) /\ 3 + i <= Len(B)
    BY <1>15, <1>16
  <2> QED BY <1>8, <1>9, <2>1
<1>14. \A i \in 1 .. nc : F[4 + np + i] = N[i]
  <2> TAKE i \in 1 .. nc
  <2>1. np \in Nat /\ i \in Nat /\ i >= 1 /\ i <= Len(N) /\ Len(B) = 4 + np /\ Len(N) \in Nat
    BY <1>15, <1>16
  <2> DEFINE p == 4 + np + i
  <2>2. p \in 1 .. Len(B) + Len(N) /\ ~ p <= Len(B) /\ p - Len(B) = i /\ p = 4 + np + i
    BY ONLY <2>1
  <2> HIDE DEF p
  <2>3. F[p] = N[p - Len(B)]
    BY <1>9, <2>2
  <2> QED BY <2>2, <2>3
<1>17. Len(F) = PartLen(m, k)
  BY <1>11 DEF PartLen, np, nc
<1>18. /\ \A i \in 1 .. np : F[3 + i] = SpeedRow(m, k, i)
       /\ \A i \in 1 .. nc : F[4 + np + i] = NameRow(m, k, i)
  BY ONLY <1>4, <1>5, <1>13, <1>14, Zenon
<1> QED BY ONLY <1>9, <1>10, <1>12, <1>17, <1>18, Zenon DEF np, nc, h, h3, c2, T

(* The template: the number of clusters, and the parts behind one another. *)
LEMMA TemplateIs ==
    ASSUME NEW m \in Machines, m # <<>>
    PROVE  LET off == PartOff(m)
               end == PartOff(m)[Len(m) + 1]
           IN  /\ Template(m) \in Seq(TemplateLine) /\ Len(Template(m)) = 1 + end
               /\ Template(m)[1] = [kind |-> "clusters", n |-> Len(m)]
               /\ end \in Nat /\ off[1] = 0
               /\ \A k \in 1 .. Len(m) :
                     /\ off[k] \in Nat /\ off[k + 1] = off[k] + PartLen(m, k)
                     /\ \A i \in 1 .. PartLen(m, k) :
                           /\ off[k] + i <= end
                           /\ Template(m)[off[k] + i + 1] = ClusterTemplate(m, k)[i]
<1> DEFINE parts == Parts(m)
           F == FlattenSeq(parts)
           off == PartOff(m)
           n == Len(m)
           head == [kind |-> "clusters", n |-> Len(m)]
<1>1. DOMAIN m = 1 .. n /\ n \in Nat /\ n >= 1
  BY MachineTypes
<1>2. \A k \in 1 .. n : /\ ClusterTemplate(m, k) \in Seq(TemplateLine)
                        /\ Len(ClusterTemplate(m, k)) = PartLen(m, k)
  BY PartIs
<1>3. /\ parts \in Seq(Seq(TemplateLine)) /\ Len(parts) = n
      /\ \A k \in 1 .. n : parts[k] = ClusterTemplate(m, k)
  <2>1. \A k \in 1 .. n : parts[k] = ClusterTemplate(m, k)
    BY <1>1 DEF Parts
  <2>2. parts \in [1 .. n -> Seq(TemplateLine)]
    BY <1>1, <1>2 DEF Parts
  <2> HIDE DEF parts, n
  <2> QED BY <1>1, <2>1, <2>2, FunctionIsSeq
<1>4. F \in Seq(TemplateLine)
  BY <1>3, FlattenInSeq
<1>5. Places(F, parts, off)
  <2>1. \E o : Places(F, parts, o)
    BY <1>3, FlattenPlaces
  <2> QED BY <2>1 DEF PartOff
<1>6. head \in TemplateLine
  BY <1>1 DEF TemplateLine
<1>7. Template(m) = <<head>> \o F
  BY DEF Template, Parts
<1> HIDE DEF F, parts, off, head
<1>8. /\ Template(m) \in Seq(TemplateLine)
      /\ Len(Template(m)) = 1 + Len(F) /\ Len(F) \in Nat
      /\ Template(m)[1] = head
      /\ \A i \in 1 .. Len(F) : Template(m)[i + 1] = F[i]
  BY <1>4, <1>6, <1>7, Prefixed
<1>9. /\ off[1] = 0 /\ Len(F) = off[n + 1]
      /\ \A k \in 1 .. n + 1 : off[k] \in Nat
      /\ \A k \in 1 .. n : off[k + 1] = off[k] + Len(parts[k])
      /\ \A k \in 1 .. n : \A j \in 1 .. Len(parts[k]) :
            off[k] + j \in 1 .. Len(F) /\ F[off[k] + j] = parts[k][j]
  BY <1>3, <1>5 DEF Places
<1>10. ASSUME NEW k \in 1 .. n
       PROVE  /\ off[k] \in Nat /\ off[k + 1] = off[k] + PartLen(m, k)
              /\ \A i \in 1 .. PartLen(m, k) :
                    /\ off[k] + i <= off[n + 1]
                    /\ Template(m)[off[k] + i + 1] = ClusterTemplate(m, k)[i]
  <2>1. parts[k] = ClusterTemplate(m, k) /\ Len(parts[k]) = PartLen(m, k)
    BY <1>2, <1>3
  <2>2. k \in 1 .. n + 1
    BY <1>1
  <2>3. off[k] \in Nat /\ off[k + 1] = off[k] + PartLen(m, k)
    BY <1>9, <2>1, <2>2
  <2>4. ASSUME NEW i \in 1 .. PartLen(m, k)
        PROVE  /\ off[k] + i <= off[n + 1]
               /\ Template(m)[off[k] + i + 1] = ClusterTemplate(m, k)[i]
    <3> DEFINE p == off[k] + i
    <3>1. p \in 1 .. Len(F) /\ F[p] = ClusterTemplate(m, k)[i]
      BY <1>9, <2>1
    <3>2. off[k] + i + 1 = p + 1
      OBVIOUS
    <3> HIDE DEF p
    <3>3. Template(m)[p + 1] = F[p] /\ p <= Len(F)
      BY <1>8, <3>1
    <3> QED BY <1>9, <3>1, <3>2, <3>3 DEF p
  <2> QED BY <2>3, <2>4
<1>11. off[n + 1] \in Nat
  BY <1>8, <1>9
<1> QED BY ONLY <1>8, <1>9, <1>10, <1>11, Zenon DEF off, n, head

(* The file: the template, or the template without its second line.        *)
LEMMA FileIs ==
    ASSUME NEW m \in Machines, m # <<>>, machine = m
    PROVE  LET end == PartOff(m)[Len(m) + 1]
           IN  /\ ~edited => File = Template(m)
               /\ edited => /\ Len(File) = end /\ File[1] = Template(m)[1]
                            /\ \A p \in 2 .. end : File[p] = Template(m)[p + 1]
<1> DEFINE T == Template(m)
           end == PartOff(m)[Len(m) + 1]
           a == SubSeq(T, 1, 1)
           b == SubSeq(T, 3, Len(T))
           S == TemplateLine
<1>1. T \in Seq(S) /\ Len(T) = 1 + end /\ end \in Nat /\ end >= 1
  <2>1. /\ T \in Seq(S) /\ Len(T) = 1 + end /\ end \in Nat
    BY TemplateIs
  <2>2. 1 \in 1 .. Len(m) /\ 1 \in 1 .. PartLen(m, 1)
    BY MachineTypes DEF PartLen
  <2>3. PartOff(m)[1] + 1 <= end /\ PartOff(m)[1] = 0
    BY <2>2, TemplateIs
  <2> QED BY <2>1, <2>3
<1>2. ASSUME edited
      PROVE  File = a \o b
  BY <1>2 DEF File, RemoveAt
<1>3. ~edited => File = T
  BY DEF File
<1> HIDE DEF T, end, S
<1>4. /\ a \in Seq(S) /\ Len(a) = 1 /\ a[1] = T[1]
      /\ b \in Seq(S) /\ Len(b) = end - 1
      /\ \A i \in 1 .. end - 1 : b[i] = T[i + 2]
  BY <1>1
<1> HIDE DEF a, b
<1>5. /\ Len(a \o b) = Len(a) + Len(b)
      /\ \A i \in 1 .. Len(a) + Len(b) :
            (a \o b)[i] = IF i <= Len(a) THEN a[i] ELSE b[i - Len(a)]
  BY <1>4, ConcatProperties
<1>6. Len(a \o b) = end /\ (a \o b)[1] = T[1]
  BY <1>1, <1>4, <1>5
<1>7. ASSUME NEW p \in 2 .. end
      PROVE  (a \o b)[p] = T[p + 1]
  <2>1. /\ p \in 1 .. Len(a) + Len(b) /\ ~ p <= Len(a) /\ p - Len(a) = p - 1
        /\ p - 1 \in 1 .. end - 1 /\ p - 1 + 2 = p + 1
    BY <1>1, <1>4
  <2>2. (a \o b)[p] = b[p - 1]
    BY <1>5, <2>1
  <2> QED BY <1>4, <2>1, <2>2
<1> QED BY <1>2, <1>3, <1>6, <1>7 DEF T, end

(* The line behind the i-th of the k-th cluster's part.                    *)
LEMMA NextLine ==
    ASSUME NEW m \in Machines, m # <<>>, machine = m, edited,
           NEW k \in 1 .. Len(m), NEW i \in 1 .. PartLen(m, k),
           Len(lines) = PartOff(m)[k] + i
    PROVE  /\ i < PartLen(m, k) =>
                 /\ Len(lines) < Len(File)
                 /\ File[Len(lines) + 1] = ClusterTemplate(m, k)[i + 1]
           /\ i = PartLen(m, k) /\ k < Len(m) =>
                 /\ File[Len(lines) + 1] = ClusterTemplate(m, k + 1)[1]
                 /\ PartOff(m)[k + 1] + 1 = Len(lines) + 1
           /\ Len(lines) = Len(File) <=> i = PartLen(m, k) /\ k = Len(m)
<1> DEFINE off == PartOff(m)
           end == off[Len(m) + 1]
           n == Len(m)
           L == Len(lines)
<1>1. n \in Nat /\ \A j \in 1 .. n : PartLen(m, j) \in Nat /\ PartLen(m, j) >= 4
  <2>1. n \in Nat /\ \A j \in 1 .. n : CapsOf(m, j) \in Nat /\ CstatesOf(m, j) \in Nat
    BY MachineTypes, Zenon
  <2> QED BY <2>1 DEF PartLen
<1>2. /\ end \in Nat
      /\ \A j \in 1 .. n :
            /\ off[j] \in Nat /\ off[j + 1] = off[j] + PartLen(m, j)
            /\ \A x \in 1 .. PartLen(m, j) :
                  /\ off[j] + x <= end
                  /\ Template(m)[off[j] + x + 1] = ClusterTemplate(m, j)[x]
  BY TemplateIs
<1>3. Len(File) = end /\ \A p \in 2 .. end : File[p] = Template(m)[p + 1]
  BY FileIs
<1>4. L = off[k] + i /\ off[k] \in Nat /\ i \in Nat /\ i >= 1
  BY <1>1, <1>2
<1> HIDE DEF L, off, end, n
<1>5. ASSUME i < PartLen(m, k)
      PROVE  L < end /\ File[L + 1] = ClusterTemplate(m, k)[i + 1]
  <2>1. i + 1 \in 1 .. PartLen(m, k) /\ k \in 1 .. n
    BY <1>1, <1>5 DEF n
  <2>2. /\ off[k] + (i + 1) <= end
        /\ Template(m)[off[k] + (i + 1) + 1] = ClusterTemplate(m, k)[i + 1]
    BY <1>2, <2>1
  <2> DEFINE a == off[k]
  <2>4. a \in Nat /\ L = a + i /\ i \in Nat /\ i >= 1 /\ a + (i + 1) <= end /\ end \in Nat
    BY <1>2, <1>4, <2>2
  <2> HIDE DEF a
  <2>5. L + 1 \in 2 .. end /\ a + (i + 1) + 1 = (L + 1) + 1 /\ L < end
    BY ONLY <2>4
  <2> QED BY <1>3, <2>2, <2>5 DEF a
<1>6. ASSUME i = PartLen(m, k), k < n
      PROVE  /\ File[L + 1] = ClusterTemplate(m, k + 1)[1]
             /\ off[k + 1] + 1 = L + 1 /\ L < end
  <2>1. /\ k \in 1 .. n /\ k + 1 \in 1 .. n
    BY <1>1, <1>6 DEF n
  <2>2. 1 \in 1 .. PartLen(m, k + 1)
    BY <1>1, <2>1
  <2>3. off[k + 1] = L /\ off[k + 1] \in Nat
    BY <1>2, <1>4, <1>6, <2>1
  <2>4. off[k + 1] + 1 <= end
        /\ Template(m)[off[k + 1] + 1 + 1] = ClusterTemplate(m, k + 1)[1]
    BY <1>2, <2>1, <2>2
  <2>5. L + 1 \in 2 .. end /\ off[k + 1] + 1 + 1 = (L + 1) + 1 /\ L < end
    BY SMTT(40), <1>2, <1>4, <2>3, <2>4
  <2> QED BY <1>3, <2>3, <2>4, <2>5
<1>7. ASSUME i = PartLen(m, k), k = n
      PROVE  L = end
  BY <1>2, <1>4, <1>7 DEF end, n
<1>8. k <= n /\ i <= PartLen(m, k) /\ k \in Int /\ n \in Int /\ PartLen(m, k) \in Int
  BY <1>1 DEF n
<1>9. L = end => i = PartLen(m, k) /\ k = n
  BY <1>2, <1>4, <1>5, <1>6, <1>8
<1> QED BY <1>3, <1>5, <1>6, <1>7, <1>9 DEF L, off, n

(* The entries.                                                            *)
LEMMA EntryAfterIs ==
    ASSUME NEW m \in Machines, NEW k \in 1 .. Len(m), NEW i \in 2 .. PartLen(m, k)
    PROVE  /\ i = 2 => EntryAfter(m, k, i) = EntryWith(m, k, "counts", 0, 0)
           /\ i \in 3 .. 3 + CapsOf(m, k) =>
                 EntryAfter(m, k, i) = EntryWith(m, k, "P-states", i - 3, 0)
           /\ i >= 4 + CapsOf(m, k) =>
                 EntryAfter(m, k, i) = EntryWith(m, k, "C-states", CapsOf(m, k),
                                                 i - 4 - CapsOf(m, k))
<1> DEFINE np == CapsOf(m, k)
<1>1. np \in Nat /\ i \in Int
  BY MachineTypes
<1> HIDE DEF np
<1>2. /\ i \in 3 .. 3 + np => i # 2 /\ i <= 3 + np
      /\ i >= 4 + np => i # 2 /\ ~ i <= 3 + np
  BY <1>1
<1> QED BY <1>2, Zenon DEF EntryAfter, np

(* A heading changes no more than the section.                             *)
LEMMA EntryFields ==
    ASSUME NEW m, NEW k, NEW s, NEW p, NEW c
    PROVE  LET e == EntryWith(m, k, s, p, c)
           IN  /\ e.caps = CapsOf(m, k) /\ e.cstates = CstatesOf(m, k)
               /\ e.state = s
               /\ \A t : [e EXCEPT !.state = t] = EntryWith(m, k, t, p, c)
<1> DEFINE P == [n \in 0 .. CapsOf(m, k) - 1 |->
                   IF n < p THEN RowOf(SpeedRow(m, k, n + 1)) ELSE NoRow]
           C == [n \in 0 .. CstatesOf(m, k) - 1 |->
                   IF n < c THEN RowOf(NameRow(m, k, n + 1)) ELSE NoRow]
<1>1. \A t : EntryWith(m, k, t, p, c) =
                [caps |-> CapsOf(m, k), cstates |-> CstatesOf(m, k), p |-> P, c |-> C,
                 wakeup |-> <<0, 0>>, state |-> t]
  BY DEF EntryWith
<1> HIDE DEF P, C
<1> QED BY <1>1

\* An entry in which one row was stored.
SpeedStored(e, n, row) == [e EXCEPT !.p[n] = row]
NameStored(e, n, row)  == [e EXCEPT !.c[n] = row]

(* One row more.                                                           *)
LEMMA OneSpeedMore ==
    ASSUME NEW m, NEW k, NEW s, NEW c, NEW p \in Nat, p < CapsOf(m, k),
           CapsOf(m, k) \in Nat, NEW e, e = EntryWith(m, k, s, p, c)
    PROVE  SpeedStored(e, p, RowOf(SpeedRow(m, k, p + 1)))
              = EntryWith(m, k, s, p + 1, c)
<1> DEFINE np == CapsOf(m, k)
           P(q) == [n \in 0 .. np - 1 |->
                      IF n < q THEN RowOf(SpeedRow(m, k, n + 1)) ELSE NoRow]
           C == [n \in 0 .. CstatesOf(m, k) - 1 |->
                   IF n < c THEN RowOf(NameRow(m, k, n + 1)) ELSE NoRow]
           P0 == P(p)
           P1 == P(p + 1)
           row == RowOf(SpeedRow(m, k, p + 1))
<1>1. /\ EntryWith(m, k, s, p, c) =
            [caps |-> np, cstates |-> CstatesOf(m, k), p |-> P0, c |-> C,
             wakeup |-> <<0, 0>>, state |-> s]
      /\ EntryWith(m, k, s, p + 1, c) =
            [caps |-> np, cstates |-> CstatesOf(m, k), p |-> P1, c |-> C,
             wakeup |-> <<0, 0>>, state |-> s]
  BY DEF EntryWith
<1>2. [P0 EXCEPT ![p] = row] = P1
  <2>1. \A n \in 0 .. np - 1 :
           P1[n] = IF n = p THEN row ELSE P0[n]
    <3> TAKE n \in 0 .. np - 1
    <3>1. CASE n = p
      BY <3>1
    <3>2. CASE n < p
      BY <3>2
    <3>3. CASE n > p
      BY <3>3
    <3> QED BY <3>1, <3>2, <3>3
  <2>2. /\ DOMAIN P0 = 0 .. np - 1
        /\ P1 = [n \in 0 .. np - 1 |-> P1[n]] /\ P0 = [n \in 0 .. np - 1 |-> P0[n]]
    OBVIOUS
  <2> HIDE DEF P0, P1, row, np, P
  <2> QED BY <2>1, <2>2
<1> HIDE DEF P0, P1, C, row
<1> QED BY <1>1, <1>2 DEF row, SpeedStored

(* And one row more of the C-states.                                       *)
LEMMA OneNameMore ==
    ASSUME NEW m, NEW k, NEW s, NEW p, NEW c \in Nat, c < CstatesOf(m, k),
           CstatesOf(m, k) \in Nat, NEW e, e = EntryWith(m, k, s, p, c)
    PROVE  NameStored(e, c, RowOf(NameRow(m, k, c + 1)))
              = EntryWith(m, k, s, p, c + 1)
<1> DEFINE nc == CstatesOf(m, k)
           P == [n \in 0 .. CapsOf(m, k) - 1 |->
                      IF n < p THEN RowOf(SpeedRow(m, k, n + 1)) ELSE NoRow]
           C(q) == [n \in 0 .. nc - 1 |->
                   IF n < q THEN RowOf(NameRow(m, k, n + 1)) ELSE NoRow]
           C0 == C(c)
           C1 == C(c + 1)
           row == RowOf(NameRow(m, k, c + 1))
<1>1. /\ EntryWith(m, k, s, p, c) =
            [caps |-> CapsOf(m, k), cstates |-> nc, p |-> P, c |-> C0,
             wakeup |-> <<0, 0>>, state |-> s]
      /\ EntryWith(m, k, s, p, c + 1) =
            [caps |-> CapsOf(m, k), cstates |-> nc, p |-> P, c |-> C1,
             wakeup |-> <<0, 0>>, state |-> s]
  BY DEF EntryWith
<1>2. [C0 EXCEPT ![c] = row] = C1
  <2>1. \A n \in 0 .. nc - 1 :
           C1[n] = IF n = c THEN row ELSE C0[n]
    <3> TAKE n \in 0 .. nc - 1
    <3>1. CASE n = c
      BY <3>1
    <3>2. CASE n < c
      BY <3>2
    <3>3. CASE n > c
      BY <3>3
    <3> QED BY <3>1, <3>2, <3>3
  <2>2. /\ DOMAIN C0 = 0 .. nc - 1
        /\ C1 = [n \in 0 .. nc - 1 |-> C1[n]] /\ C0 = [n \in 0 .. nc - 1 |-> C0[n]]
    OBVIOUS
  <2> HIDE DEF C0, C1, row, nc, C
  <2> QED BY <2>1, <2>2
<1> HIDE DEF C0, C1, P, row
<1> QED BY <1>1, <1>2 DEF row, NameStored

-----------------------------------------------------------------------------
(* The steps of the parser through a part.                                 *)

\* The kind of a line decides what is done with it.
LEMMA ActionOfLine ==
    ASSUME NEW line, ReadLine(line)
    PROVE  /\ result = "reading" /\ lines' = Append(lines, line)
           /\ line.kind = "clusters" => ReadClusters(line)
           /\ line.kind = "cluster" => ReadCluster(line)
           /\ line.kind = "P-states" => ReadPHeading(line)
           /\ line.kind = "C-states" => ReadCHeading(line)
           /\ line.kind \in {"speed row", "name row"} =>
                 ReadPRow(line) \/ ReadCRow(line) \/ ReadOtherRow(line)
BY DEF ReadLine, ReadClusters, ReadCluster, ReadPHeading, ReadCHeading, ReadWakeup,
       ReadPRow, ReadCRow, ReadOtherRow, FetchRow, Fetch

\* The entry of the cluster at hand gets one line further, the others stay.
LEMMA PartGoesOn ==
    ASSUME NEW m \in Machines, NEW k \in 1 .. Len(m), NEW i \in 1 .. PartLen(m, k) - 1,
           ReadUpTo(m, k, i),
           table' = [table EXCEPT ![k - 1] = EntryAfter(m, k, i + 1)],
           clusters' = clusters, current' = k - 1,
           i + 1 \in 3 .. 3 + CapsOf(m, k) => nextP' = i + 1 - 3,
           i + 1 >= 4 + CapsOf(m, k) => nextC' = i + 1 - 4 - CapsOf(m, k)
    PROVE  ReadUpTo(m, k, i + 1)'
<1> DEFINE e == EntryAfter(m, k, i + 1)
           n == Len(m)
<1>1. /\ n \in Nat /\ k \in 1 .. n /\ i + 1 >= 2 /\ i + 1 # 1 /\ i \in Int
      /\ k - 1 \in 0 .. n - 1
  <2>1. Len(m) \in Nat
    BY MachineTypes
  <2> QED BY <2>1
<1>2. /\ clusters = n /\ table = [x \in 0 .. n - 1 |-> table[x]]
      /\ \A j \in 1 .. k - 1 : table[j - 1] = EntryAfter(m, j, PartLen(m, j))
      /\ \A j \in (IF i = 1 THEN k ELSE k + 1) .. n :
            \E left \in Leftover : table[j - 1] = Unset(left)
  BY DEF ReadUpTo
<1> HIDE DEF e
<1>3. table' = [x \in 0 .. n - 1 |-> IF x = k - 1 THEN e ELSE table[x]]
  <2>1. table' = [table EXCEPT ![k - 1] = e]
    BY DEF e
  <2> HIDE DEF n
  <2> QED BY <1>1, <1>2, <2>1
<1> HIDE DEF n
<1>4. table' = [x \in 0 .. n - 1 |-> table'[x]]
  BY <1>3
<1>5. table'[k - 1] = e
  BY <1>1, <1>3
<1>6. ASSUME NEW j \in 1 .. n, j # k
      PROVE  table'[j - 1] = table[j - 1]
  <2>1. j - 1 \in 0 .. n - 1 /\ j - 1 # k - 1
    BY <1>1, <1>6
  <2> QED BY <1>3, <2>1
<1>7. \A j \in 1 .. k - 1 : table'[j - 1] = EntryAfter(m, j, PartLen(m, j))
  <2> TAKE j \in 1 .. k - 1
  <2>1. j \in 1 .. n /\ j # k
    BY <1>1
  <2> QED BY <1>2, <1>6, <2>1
<1>8. \A j \in k + 1 .. n : \E left \in Leftover : table'[j - 1] = Unset(left)
  <2> TAKE j \in k + 1 .. n
  <2>1. j \in 1 .. n /\ j # k /\ j \in k .. n
    BY <1>1
  <2>2. \E left \in Leftover : table[j - 1] = Unset(left)
    BY <1>2, <2>1
  <2> QED BY <1>6, <2>1, <2>2
<1>9. clusters' = n /\ current' = k - 1
  BY <1>2
<1> QED BY SMTT(40), <1>1, <1>4, <1>5, <1>7, <1>8, <1>9 DEF ReadUpTo, n, e

\* What ReadUpTo says of the cluster at hand.
LEMMA AtCluster ==
    ASSUME NEW m \in Machines, NEW k \in 1 .. Len(m), NEW i \in 1 .. PartLen(m, k),
           ReadUpTo(m, k, i)
    PROVE  /\ CapsOf(m, k) \in Nat /\ CstatesOf(m, k) \in Nat
           /\ Len(m) \in Nat /\ k \in Int /\ i \in Int
           /\ DOMAIN table = 0 .. Len(m) - 1
           /\ i >= 2 => /\ current = k - 1 /\ current # -1
                        /\ Here = EntryAfter(m, k, i)
           /\ i = 1 => /\ current = k - 2
                       /\ \E left \in Leftover : table[k - 1] = Unset(left)
<1>1. /\ CapsOf(m, k) \in Nat /\ CstatesOf(m, k) \in Nat /\ Len(m) \in Nat
  BY MachineTypes
<1>2. k \in Int /\ i \in Int /\ k >= 1 /\ k - 1 # -1 /\ (i >= 2 => i # 1)
  BY <1>1
<1>3. DOMAIN table = 0 .. Len(m) - 1
  BY Zenon DEF ReadUpTo
<1>4. ASSUME i >= 2
      PROVE  current = k - 1 /\ table[k - 1] = EntryAfter(m, k, i)
  BY <1>2, <1>4 DEF ReadUpTo
<1>5. ASSUME i = 1
      PROVE  /\ current = k - 2
             /\ \E left \in Leftover : table[k - 1] = Unset(left)
  <2>1. k \in k .. Len(m)
    BY <1>1
  <2>2. \A j \in k .. Len(m) : \E left \in Leftover : table[j - 1] = Unset(left)
    BY <1>5 DEF ReadUpTo
  <2> QED BY <1>5, <2>1, <2>2 DEF ReadUpTo
<1> QED BY <1>1, <1>2, <1>3, <1>4, <1>5 DEF Here

\* The headings among a part's lines.
LEMMA PartHeadings ==
    ASSUME NEW m \in Machines, NEW k \in 1 .. Len(m)
    PROVE  /\ ClusterTemplate(m, k)[1].kind = "C-states"
           /\ ClusterTemplate(m, k)[3].kind = "P-states"
           /\ ClusterTemplate(m, k)[4 + CapsOf(m, k)].kind = "C-states"
<1>1. /\ ClusterTemplate(m, k)[1] = [kind |-> "C-states"]
      /\ ClusterTemplate(m, k)[3] = [kind |-> "P-states"]
      /\ ClusterTemplate(m, k)[4 + CapsOf(m, k)] = [kind |-> "C-states"]
  BY PartIs, Zenon
<1> QED BY <1>1

\* The cluster's own line.
LEMMA ClusterLineRead ==
    ASSUME NEW m \in Machines, NEW k \in 1 .. Len(m), ReadUpTo(m, k, 1),
           lines \in Seq(TemplateLine),
           ReadLine(ClusterTemplate(m, k)[2])
    PROVE  \/ result' = "reading" /\ ReadUpTo(m, k, 2)'
           \/ result' = "refused" /\ TakenForSecond'
<1> DEFINE line == [kind |-> "cluster", id |-> k - 1, caps |-> CapsOf(m, k),
                    cstates |-> CstatesOf(m, k)]
<1>1. ClusterTemplate(m, k)[2] = line /\ line \in TemplateLine
  <2>1. ClusterTemplate(m, k)[2] = line
    BY PartIs
  <2>2. ClusterTemplate(m, k) \in Seq(TemplateLine) /\ Len(ClusterTemplate(m, k)) >= 2
    <3>1. CapsOf(m, k) \in Nat /\ CstatesOf(m, k) \in Nat
      BY MachineTypes
    <3>2. /\ ClusterTemplate(m, k) \in Seq(TemplateLine)
          /\ Len(ClusterTemplate(m, k)) = PartLen(m, k)
      BY PartIs, Zenon
    <3>3. PartLen(m, k) >= 2
      BY <3>1 DEF PartLen
    <3> QED BY <3>2, <3>3
  <2> QED BY <2>1, <2>2
<1>2. /\ line.kind = "cluster" /\ line.id = k - 1 /\ line.caps = CapsOf(m, k)
      /\ line.cstates = CstatesOf(m, k)
  OBVIOUS
<1> HIDE DEF line
<1>3. result = "reading" /\ lines' = Append(lines, line) /\ ReadCluster(line)
  BY <1>1, <1>2, ActionOfLine
<1>4. /\ CapsOf(m, k) \in Nat /\ CstatesOf(m, k) \in Nat /\ Len(m) \in Nat
      /\ 1 \in 1 .. PartLen(m, k) /\ 1 \in 1 .. PartLen(m, k) - 1
  <2>1. CapsOf(m, k) \in Nat /\ CstatesOf(m, k) \in Nat /\ Len(m) \in Nat
    BY MachineTypes
  <2> QED BY <2>1 DEF PartLen
<1>5. PICK left \in Leftover : table[k - 1] = Unset(left)
  BY <1>4, AtCluster
<1>6. clusters = Len(m) /\ line.id < clusters /\ DOMAIN table = 0 .. Len(m) - 1
  <2>1. clusters = Len(m) /\ DOMAIN table = 0 .. Len(m) - 1
    BY Zenon DEF ReadUpTo
  <2> QED BY <1>2, <1>4, <2>1
<1>7. CASE left # 0
  <2>1. table[line.id].caps # 0 /\ table[line.id].state = "unset"
    BY <1>2, <1>5, <1>7 DEF Unset
  <2>2. result' = "refused" /\ table' = table
    BY <1>3, <1>6, <2>1 DEF ReadCluster, Refuse, Keep
  <2>3. lines'[Len(lines')] = line
    BY <1>1, <1>3
  <2> QED BY <1>2, <2>1, <2>2, <2>3 DEF TakenForSecond
<1>8. CASE left = 0
  <2> DEFINE e == EntryWith(m, k, "counts", 0, 0)
  <2>1. table[line.id].caps = 0 /\ table[line.id].wakeup = <<0, 0>>
    BY <1>2, <1>5, <1>8 DEF Unset
  <2>2. /\ current' = line.id /\ clusters' = clusters /\ result' = result
        /\ table' = [table EXCEPT ![line.id] =
                [caps |-> line.caps, cstates |-> line.cstates,
                 p |-> EmptyRows(line.caps), c |-> EmptyRows(line.cstates),
                 wakeup |-> @.wakeup, state |-> "counts"]]
    <3>1. ~ line.id >= clusters
      BY <1>2, <1>4, <1>6
    <3> QED BY <1>3, <2>1, <3>1, Zenon DEF ReadCluster
  <2>3. e = [caps |-> line.caps, cstates |-> line.cstates,
             p |-> EmptyRows(line.caps), c |-> EmptyRows(line.cstates),
             wakeup |-> table[line.id].wakeup, state |-> "counts"]
    <3>1. /\ [n \in 0 .. CapsOf(m, k) - 1 |->
                 IF n < 0 THEN RowOf(SpeedRow(m, k, n + 1)) ELSE NoRow]
               = EmptyRows(CapsOf(m, k))
          /\ [n \in 0 .. CstatesOf(m, k) - 1 |->
                 IF n < 0 THEN RowOf(NameRow(m, k, n + 1)) ELSE NoRow]
               = EmptyRows(CstatesOf(m, k))
      BY <1>4 DEF EmptyRows
    <3> QED BY <1>2, <2>1, <3>1 DEF EntryWith
  <2>4. e = EntryAfter(m, k, 1 + 1)
    <3>1. 1 + 1 = 2 /\ e = EntryAfter(m, k, 2)
      BY DEF EntryAfter
    <3> QED BY <3>1
  <2> HIDE DEF e
  <2>5. table' = [table EXCEPT ![k - 1] = EntryAfter(m, k, 1 + 1)]
    BY <1>2, <2>2, <2>3, <2>4
  <2>6. ~ 1 + 1 \in 3 .. 3 + CapsOf(m, k) /\ ~ 1 + 1 >= 4 + CapsOf(m, k)
    BY <1>4
  <2>7. ReadUpTo(m, k, 1 + 1)'
    BY <1>2, <1>4, <2>2, <2>5, <2>6, PartGoesOn
  <2> QED BY <1>3, <2>2, <2>7
<1> QED BY <1>7, <1>8

\* A heading.
LEMMA HeadingRead ==
    ASSUME NEW m \in Machines, NEW k \in 1 .. Len(m), NEW i \in 2 .. PartLen(m, k) - 1,
           i = 2 \/ i = 3 + CapsOf(m, k), ReadUpTo(m, k, i),
           ReadLine(ClusterTemplate(m, k)[i + 1])
    PROVE  result' = "reading" /\ ReadUpTo(m, k, i + 1)'
<1> DEFINE line == ClusterTemplate(m, k)[i + 1]
           np == CapsOf(m, k)
<1>1. /\ np \in Nat /\ CstatesOf(m, k) \in Nat
      /\ current = k - 1 /\ current # -1 /\ Here = EntryAfter(m, k, i)
      /\ DOMAIN table = 0 .. Len(m) - 1 /\ k - 1 \in 0 .. Len(m) - 1
      /\ i \in 1 .. PartLen(m, k) - 1 /\ i \in 2 .. PartLen(m, k)
      /\ i + 1 \in 2 .. PartLen(m, k)
  <2>1. np \in Nat /\ CstatesOf(m, k) \in Nat /\ Len(m) \in Nat
    BY MachineTypes
  <2>2. PartLen(m, k) \in Nat
    BY <2>1 DEF PartLen
  <2>3. /\ i \in 1 .. PartLen(m, k) /\ i >= 2 /\ i \in 1 .. PartLen(m, k) - 1
        /\ i \in 2 .. PartLen(m, k) /\ i + 1 \in 2 .. PartLen(m, k)
        /\ k - 1 \in 0 .. Len(m) - 1
    BY <2>1, <2>2
  <2> QED BY <2>1, <2>3, AtCluster
<1>2. result = "reading"
  BY ActionOfLine
<1>3. CASE i = 2
  <2>1. line.kind = "P-states"
    <3>1. i + 1 = 3 /\ ClusterTemplate(m, k)[3].kind = "P-states"
      BY <1>3, PartHeadings
    <3> QED BY <3>1
  <2>2. ReadPHeading(line)
    BY <2>1, ActionOfLine
  <2>3. /\ nextP' = 0 /\ table' = [table EXCEPT ![current].state = "P-states"]
        /\ UNCHANGED <<clusters, current, nextC, result>>
    BY <1>1, <2>2 DEF ReadPHeading
  <2> DEFINE e == EntryAfter(m, k, i + 1)
  <2>4. i + 1 = 3 /\ 3 \in 3 .. 3 + np /\ ~ i + 1 >= 4 + np /\ i + 1 - 3 = 0
    BY <1>1, <1>3
  <2>5. /\ EntryAfter(m, k, i) = EntryWith(m, k, "counts", 0, 0)
        /\ e = EntryWith(m, k, "P-states", 0, 0)
    BY <1>1, <1>3, <2>4, EntryAfterIs
  <2> HIDE DEF e
  <2>6. [Here EXCEPT !.state = "P-states"] = e
    BY <1>1, <2>5, EntryFields
  <2>7. table' = [table EXCEPT ![k - 1] = e]
    BY <1>1, <2>3, <2>6 DEF Here
  <2>8. ReadUpTo(m, k, i + 1)'
    BY <1>1, <2>3, <2>4, <2>7, PartGoesOn DEF e
  <2> QED BY <1>2, <2>3, <2>8
<1>4. CASE i = 3 + np
  <2>1. line.kind = "C-states"
    <3>1. i + 1 = 4 + np
      BY <1>1, <1>4
    <3>2. ClusterTemplate(m, k)[4 + np].kind = "C-states"
      BY PartHeadings
    <3> QED BY <3>1, <3>2
  <2>2. ReadCHeading(line)
    BY <2>1, ActionOfLine
  <2>3. /\ nextC' = 0 /\ table' = [table EXCEPT ![current].state = "C-states"]
        /\ UNCHANGED <<clusters, current, nextP, result>>
    BY <1>1, <2>2 DEF ReadCHeading
  <2> DEFINE e == EntryAfter(m, k, i + 1)
  <2>4. /\ i \in 3 .. 3 + np /\ i - 3 = np /\ i + 1 >= 4 + np /\ i + 1 - 4 - np = 0
        /\ ~ i + 1 \in 3 .. 3 + np
    BY SMTT(40), <1>1, <1>4
  <2>5. /\ EntryAfter(m, k, i) = EntryWith(m, k, "P-states", np, 0)
        /\ e = EntryWith(m, k, "C-states", np, 0)
    BY <1>1, <2>4, EntryAfterIs
  <2> HIDE DEF e
  <2>6. [Here EXCEPT !.state = "C-states"] = e
    BY <1>1, <2>5, EntryFields
  <2>7. table' = [table EXCEPT ![k - 1] = e]
    BY <1>1, <2>3, <2>6 DEF Here
  <2>8. ReadUpTo(m, k, i + 1)'
    BY <1>1, <2>3, <2>4, <2>7, PartGoesOn DEF e
  <2> QED BY <1>2, <2>3, <2>8
<1> QED BY <1>3, <1>4

\* A row of the P-states.
LEMMA SpeedRowRead ==
    ASSUME NEW m \in Machines, NEW k \in 1 .. Len(m),
           NEW i \in 3 .. 2 + CapsOf(m, k), ReadUpTo(m, k, i),
           ReadLine(ClusterTemplate(m, k)[i + 1])
    PROVE  result' = "reading" /\ ReadUpTo(m, k, i + 1)'
<1> DEFINE line == ClusterTemplate(m, k)[i + 1]
           np == CapsOf(m, k)
<1>1. /\ np \in Nat /\ current = k - 1 /\ current # -1 /\ Here = EntryAfter(m, k, i)
      /\ DOMAIN table = 0 .. Len(m) - 1 /\ k - 1 \in 0 .. Len(m) - 1
      /\ i \in 1 .. PartLen(m, k) - 1 /\ i \in 2 .. PartLen(m, k)
      /\ i + 1 \in 2 .. PartLen(m, k) /\ i - 3 \in Nat /\ i - 3 < np
  <2>1. np \in Nat /\ CstatesOf(m, k) \in Nat /\ Len(m) \in Nat
    BY MachineTypes
  <2>2. PartLen(m, k) = 4 + np + CstatesOf(m, k)
    BY DEF PartLen
  <2>3. /\ i \in 1 .. PartLen(m, k) /\ i >= 2 /\ i \in 1 .. PartLen(m, k) - 1
        /\ i \in 2 .. PartLen(m, k) /\ i + 1 \in 2 .. PartLen(m, k)
        /\ k - 1 \in 0 .. Len(m) - 1 /\ i - 3 \in Nat /\ i - 3 < np
    BY <2>1, <2>2
  <2> QED BY <2>1, <2>3, AtCluster
<1>2. /\ line = SpeedRow(m, k, i - 3 + 1) /\ line.kind = "speed row"
  <2> DEFINE x == i - 2
  <2>1. x \in 1 .. np /\ i + 1 = 3 + x /\ i - 3 + 1 = x
    BY <1>1
  <2> HIDE DEF x
  <2>2. ClusterTemplate(m, k)[3 + x] = SpeedRow(m, k, x)
    BY <2>1, PartIs
  <2>3. SpeedRow(m, k, x).kind = "speed row"
    BY DEF SpeedRow, FilledIn
  <2> QED BY <2>1, <2>2, <2>3
<1> HIDE DEF line
<1>3. /\ i \in 3 .. 3 + np /\ nextP = i - 3 /\ i + 1 \in 3 .. 3 + np
      /\ i + 1 - 3 = i - 3 + 1 /\ ~ i + 1 >= 4 + np
  <2>1. /\ i \in 3 .. 3 + np /\ i + 1 \in 3 .. 3 + np
        /\ i + 1 - 3 = i - 3 + 1 /\ ~ i + 1 >= 4 + np
    BY <1>1
  <2> QED BY <2>1 DEF ReadUpTo
<1>4. /\ EntryAfter(m, k, i) = EntryWith(m, k, "P-states", i - 3, 0)
      /\ EntryAfter(m, k, i + 1) = EntryWith(m, k, "P-states", i - 3 + 1, 0)
  BY <1>1, <1>3, EntryAfterIs
<1>5. Section = "P-states" /\ Here.caps = np
  BY <1>1, <1>4, EntryFields DEF Section
<1>6. ReadLine(line) /\ result = "reading"
      /\ (ReadPRow(line) \/ ReadCRow(line) \/ ReadOtherRow(line))
  BY <1>2, ActionOfLine DEF line
<1>7. /\ table' = [table EXCEPT ![current].p[nextP] = RowOf(line)]
      /\ nextP' = nextP + 1 /\ UNCHANGED <<clusters, current, nextC, result>>
  <2>1. ReadPRow(line)
    BY <1>5, <1>6 DEF ReadCRow, ReadOtherRow
  <2>2. ~ (line.kind # "speed row" \/ nextP >= Here.caps)
    <3>1. np \in Nat /\ nextP \in Nat /\ nextP < np /\ Here.caps = np
      BY <1>1, <1>3, <1>5
    <3>2. ~ nextP >= Here.caps
      BY ONLY <3>1
    <3> QED BY ONLY <1>2, <3>2
  <2> QED BY <2>1, <2>2 DEF ReadPRow
<1> DEFINE e == EntryAfter(m, k, i + 1)
<1>8. [Here EXCEPT !.p[i - 3] = RowOf(line)] = e
  <2>1. PICK q \in Nat : q = i - 3
    BY <1>1
  <2> DEFINE old == Here
  <2>2. /\ q < np /\ old = EntryWith(m, k, "P-states", q, 0)
        /\ e = EntryWith(m, k, "P-states", q + 1, 0)
        /\ line = SpeedRow(m, k, q + 1)
    BY <1>1, <1>2, <1>4, <2>1
  <2> HIDE DEF old, e
  <2>3. SpeedStored(old, q, RowOf(SpeedRow(m, k, q + 1)))
          = EntryWith(m, k, "P-states", q + 1, 0)
    <3>1. q \in Nat /\ q < CapsOf(m, k) /\ CapsOf(m, k) \in Nat
      BY <1>1, <2>1, <2>2
    <3>2. old = EntryWith(m, k, "P-states", q, 0)
      BY <2>2
    <3>3. \A ent : ent = EntryWith(m, k, "P-states", q, 0) =>
             SpeedStored(ent, q, RowOf(SpeedRow(m, k, q + 1)))
               = EntryWith(m, k, "P-states", q + 1, 0)
      BY ONLY <3>1, OneSpeedMore, Zenon
    <3> QED BY ONLY <3>2, <3>3, Zenon
  <2> QED BY <2>1, <2>2, <2>3 DEF old, SpeedStored
<1> HIDE DEF e
<1>9. table' = [table EXCEPT ![k - 1] = e]
  BY <1>1, <1>3, <1>7, <1>8 DEF Here
<1>10. ReadUpTo(m, k, i + 1)'
  BY <1>1, <1>3, <1>7, <1>9, PartGoesOn DEF e
<1> QED BY <1>6, <1>7, <1>10

\* A row of the C-states.
LEMMA NameRowRead ==
    ASSUME NEW m \in Machines, NEW k \in 1 .. Len(m),
           NEW i \in 4 + CapsOf(m, k) .. PartLen(m, k) - 1, ReadUpTo(m, k, i),
           ReadLine(ClusterTemplate(m, k)[i + 1])
    PROVE  result' = "reading" /\ ReadUpTo(m, k, i + 1)'
<1> DEFINE line == ClusterTemplate(m, k)[i + 1]
           np == CapsOf(m, k)
           nc == CstatesOf(m, k)
           c  == i - 4 - np
<1>1. /\ np \in Nat /\ nc \in Nat
      /\ current = k - 1 /\ current # -1 /\ Here = EntryAfter(m, k, i)
      /\ DOMAIN table = 0 .. Len(m) - 1 /\ k - 1 \in 0 .. Len(m) - 1
      /\ i \in 1 .. PartLen(m, k) - 1 /\ i \in 2 .. PartLen(m, k)
      /\ i + 1 \in 2 .. PartLen(m, k) /\ c \in Nat /\ c < nc
  <2>1. np \in Nat /\ nc \in Nat /\ Len(m) \in Nat
    BY MachineTypes
  <2>2. PartLen(m, k) = 4 + np + nc
    BY DEF PartLen
  <2>3. /\ i \in 1 .. PartLen(m, k) /\ i >= 2 /\ i \in 1 .. PartLen(m, k) - 1
        /\ i \in 2 .. PartLen(m, k) /\ i + 1 \in 2 .. PartLen(m, k)
        /\ k - 1 \in 0 .. Len(m) - 1 /\ c \in Nat /\ c < nc
    BY <2>1, <2>2
  <2> QED BY <2>1, <2>3, AtCluster
<1>2. /\ line = NameRow(m, k, c + 1) /\ line.kind = "name row"
  <2>1. c + 1 \in 1 .. nc /\ i + 1 = 4 + np + (c + 1)
    BY SMTT(40), <1>1
  <2> DEFINE x == c + 1
  <2>2. x \in 1 .. nc /\ i + 1 = 4 + np + x /\ x = c + 1
    BY <2>1
  <2> HIDE DEF x
  <2>3. ClusterTemplate(m, k)[4 + np + x] = NameRow(m, k, x)
    BY <2>2, PartIs
  <2>4. NameRow(m, k, x).kind = "name row"
    BY DEF NameRow, FilledIn
  <2> QED BY <2>2, <2>3, <2>4
<1> HIDE DEF line
<1>3. /\ i >= 4 + np /\ nextC = c /\ i + 1 >= 4 + np
      /\ i + 1 - 4 - np = c + 1 /\ ~ i + 1 \in 3 .. 3 + np
  <2>1. /\ i >= 4 + np /\ i + 1 >= 4 + np
        /\ i + 1 - 4 - np = c + 1 /\ ~ i + 1 \in 3 .. 3 + np
    BY <1>1
  <2> QED BY <2>1 DEF ReadUpTo
<1>4. /\ EntryAfter(m, k, i) = EntryWith(m, k, "C-states", np, c)
      /\ EntryAfter(m, k, i + 1) = EntryWith(m, k, "C-states", np, c + 1)
  BY SMTT(40), <1>1, <1>3, EntryAfterIs
<1> HIDE DEF c
<1>5. Section = "C-states" /\ Here.cstates = nc
  BY <1>1, <1>4, EntryFields DEF Section
<1>6. ReadLine(line) /\ result = "reading"
      /\ (ReadPRow(line) \/ ReadCRow(line) \/ ReadOtherRow(line))
  BY <1>2, ActionOfLine DEF line
<1>7. /\ table' = [table EXCEPT ![current].c[nextC] = RowOf(line)]
      /\ nextC' = nextC + 1 /\ UNCHANGED <<clusters, current, nextP, result>>
  <2>1. ReadCRow(line)
    BY <1>5, <1>6 DEF ReadPRow, ReadOtherRow
  <2>2. ~ (line.kind = "incomplete row" \/ nextC >= Here.cstates)
    <3>1. nc \in Nat /\ nextC \in Nat /\ nextC < nc /\ Here.cstates = nc
      BY <1>1, <1>3, <1>5
    <3>2. ~ nextC >= Here.cstates
      BY ONLY <3>1
    <3>3. line.kind # "incomplete row"
      BY ONLY <1>2
    <3> QED BY ONLY <3>2, <3>3
  <2> QED BY <2>1, <2>2 DEF ReadCRow
<1> DEFINE e == EntryAfter(m, k, i + 1)
<1>8. [Here EXCEPT !.c[c] = RowOf(line)] = e
  <2>1. /\ c \in Nat /\ c < nc /\ nc \in Nat
        /\ Here = EntryWith(m, k, "C-states", np, c)
        /\ e = EntryWith(m, k, "C-states", np, c + 1)
        /\ line = NameRow(m, k, c + 1)
    BY <1>1, <1>2, <1>4
  <2> HIDE DEF e
  <2> DEFINE old == Here
  <2>3. old = EntryWith(m, k, "C-states", np, c)
    BY <2>1
  <2> HIDE DEF old
  <2>2. NameStored(old, c, RowOf(NameRow(m, k, c + 1)))
          = EntryWith(m, k, "C-states", np, c + 1)
    BY <2>1, <2>3, OneNameMore, Zenon
  <2> QED BY <2>1, <2>2 DEF old, NameStored
<1> HIDE DEF e
<1>9. table' = [table EXCEPT ![k - 1] = e]
  BY <1>1, <1>3, <1>7, <1>8 DEF Here
<1>10. ReadUpTo(m, k, i + 1)'
  BY <1>1, <1>3, <1>7, <1>9, PartGoesOn DEF e
<1> QED BY <1>6, <1>7, <1>10

\* The heading in front of the next cluster's line goes to this cluster.
LEMMA NextPartRead ==
    ASSUME NEW m \in Machines, NEW k \in 1 .. Len(m) - 1,
           ReadUpTo(m, k, PartLen(m, k)),
           ReadLine(ClusterTemplate(m, k + 1)[1])
    PROVE  result' = "reading" /\ ReadUpTo(m, k + 1, 1)'
<1> DEFINE line == ClusterTemplate(m, k + 1)[1]
           np == CapsOf(m, k)
           i == PartLen(m, k)
           n == Len(m)
           e == EntryAfter(m, k, i)
<1>1. /\ np \in Nat /\ CstatesOf(m, k) \in Nat /\ n \in Nat
      /\ k \in 1 .. n /\ k + 1 \in 1 .. n /\ k - 1 \in 0 .. n - 1
      /\ i \in 1 .. PartLen(m, k) /\ i \in 2 .. PartLen(m, k)
      /\ i >= 4 + np /\ i >= 2 /\ i # 1
  <2>1. n \in Nat
    BY MachineTypes
  <2>2. k \in 1 .. n /\ k + 1 \in 1 .. n /\ k - 1 \in 0 .. n - 1
    BY <2>1
  <2>3. np \in Nat /\ CstatesOf(m, k) \in Nat
    BY <2>2, MachineTypes
  <2>4. i = 4 + np + CstatesOf(m, k)
    BY DEF PartLen
  <2> HIDE DEF i
  <2>5. i \in Nat /\ i >= 4 + np /\ i >= 2 /\ i # 1
    BY <2>3, <2>4
  <2> QED BY <2>1, <2>2, <2>3, <2>5 DEF i
<1>2. current = k - 1 /\ current # -1 /\ Here = e /\ DOMAIN table = 0 .. n - 1
  BY <1>1, AtCluster
<1>3. ReadCHeading(line) /\ result = "reading"
  <2>1. line.kind = "C-states"
    BY <1>1, PartHeadings
  <2> QED BY <2>1, ActionOfLine
<1> HIDE DEF line
<1>4. /\ nextC' = 0 /\ table' = [table EXCEPT ![current].state = "C-states"]
      /\ UNCHANGED <<clusters, current, nextP, result>>
  BY <1>2, <1>3 DEF ReadCHeading
<1>5. [Here EXCEPT !.state = "C-states"] = e
  <2>1. e = EntryWith(m, k, "C-states", np, i - 4 - np)
    BY <1>1, EntryAfterIs
  <2> QED BY <1>2, <2>1, EntryFields
<1> HIDE DEF e
<1>6. table = [x \in 0 .. n - 1 |-> table[x]]
  BY Zenon DEF ReadUpTo
<1>7. table' = table
  <2>1. table' = [table EXCEPT ![k - 1] = e]
    BY <1>2, <1>4, <1>5 DEF Here
  <2>2. table[k - 1] = e
    BY <1>2 DEF Here
  <2> HIDE DEF n
  <2> QED BY <1>1, <1>6, <2>1, <2>2
<1>8. /\ clusters = n
      /\ \A j \in 1 .. k - 1 : table[j - 1] = EntryAfter(m, j, PartLen(m, j))
      /\ \A j \in k + 1 .. n : \E left \in Leftover : table[j - 1] = Unset(left)
  BY <1>1 DEF ReadUpTo
<1>9. \A j \in 1 .. k + 1 - 1 : table[j - 1] = EntryAfter(m, j, PartLen(m, j))
  <2> TAKE j \in 1 .. k + 1 - 1
  <2>1. j = k \/ j \in 1 .. k - 1
    BY <1>1
  <2>2. table[k - 1] = EntryAfter(m, k, PartLen(m, k))
    BY <1>2 DEF Here, e
  <2> QED BY <1>8, <2>1, <2>2
<1>10. ~ 1 >= 2 /\ ~ 1 \in 3 .. 3 + CapsOf(m, k + 1) /\ ~ 1 >= 4 + CapsOf(m, k + 1)
       /\ k + 1 - 2 = k - 1
  <2>1. CapsOf(m, k + 1) \in Nat
    BY <1>1, MachineTypes
  <2> QED BY <1>1, <2>1
<1>11. ReadUpTo(m, k + 1, 1)'
  <2>1. clusters' = n /\ table' = [x \in 0 .. n - 1 |-> table'[x]]
    BY <1>4, <1>6, <1>7, <1>8
  <2>2. \A j \in 1 .. k + 1 - 1 : table'[j - 1] = EntryAfter(m, j, PartLen(m, j))
    BY <1>7, <1>9, Zenon
  <2>3. \A j \in (IF 1 = 1 THEN k + 1 ELSE k + 1 + 1) .. n :
           \E left \in Leftover : table'[j - 1] = Unset(left)
    BY <1>7, <1>8
  <2>4. current' = IF 1 = 1 THEN k + 1 - 2 ELSE k + 1 - 1
    BY <1>2, <1>4, <1>10
  <2> QED BY <1>10, <2>1, <2>2, <2>3, <2>4 DEF ReadUpTo, n
<1> QED BY <1>3, <1>4, <1>11

\* A line is read, and it is one of a template.
LEMMA LineAdded ==
    ASSUME lines \in Seq(TemplateLine), NEW line \in TemplateLine, ReadLine(line)
    PROVE  /\ lines' \in Seq(TemplateLine) /\ Len(lines') = Len(lines) + 1
           /\ result = "reading"
<1>1. result = "reading" /\ lines' = Append(lines, line)
  BY ActionOfLine
<1> QED BY <1>1

\* Any line of a part but the first.
LEMMA PartLineRead ==
    ASSUME NEW m \in Machines, NEW k \in 1 .. Len(m), NEW i \in 1 .. PartLen(m, k),
           i < PartLen(m, k), lines \in Seq(TemplateLine),
           ReadUpTo(m, k, i), ReadLine(ClusterTemplate(m, k)[i + 1])
    PROVE  \/ result' = "reading" /\ ReadUpTo(m, k, i + 1)'
           \/ result' = "refused" /\ TakenForSecond'
<1> DEFINE np == CapsOf(m, k)
           nc == CstatesOf(m, k)
           len == PartLen(m, k)
<1>1. np \in Nat /\ nc \in Nat
  BY MachineTypes
<1>2. len = 4 + np + nc
  BY DEF PartLen
<1> HIDE DEF np, nc, len
<1>3. /\ i \in Int /\ i < len /\ len \in Nat
      /\ \/ i = 1
         \/ i \in 2 .. len - 1 /\ (i = 2 \/ i = 3 + np)
         \/ i \in 3 .. 2 + np
         \/ i \in 4 + np .. len - 1
  BY <1>1, <1>2 DEF len
<1>4. CASE i = 1
  <2>1. i + 1 = 2
    BY <1>4
  <2>2. ReadUpTo(m, k, 1) /\ ReadLine(ClusterTemplate(m, k)[2])
    BY <1>4, <2>1
  <2>3. \/ result' = "reading" /\ ReadUpTo(m, k, 2)'
        \/ result' = "refused" /\ TakenForSecond'
    BY <2>2, ClusterLineRead
  <2> QED BY <2>1, <2>3
<1>5. CASE i \in 2 .. len - 1 /\ (i = 2 \/ i = 3 + np)
  BY <1>5, HeadingRead DEF len, np
<1>6. CASE i \in 3 .. 2 + np
  BY <1>6, SpeedRowRead DEF np
<1>7. CASE i \in 4 + np .. len - 1
  BY <1>7, NameRowRead DEF len, np
<1> QED BY <1>3, <1>4, <1>5, <1>6, <1>7

\* One line of the edited template.
LEMMA EditedGoesOn ==
    ASSUME NEW m \in Machines, m # <<>>, machine = m, edited,
           lines \in Seq(TemplateLine), NEW k \in 1 .. Len(m),
           NEW i \in 1 .. PartLen(m, k), Len(lines) = PartOff(m)[k] + i,
           ReadUpTo(m, k, i), ReadTemplate
    PROVE  /\ lines' \in Seq(TemplateLine)
           /\ \/ result' = "reading" /\ ReadSoFar(m)'
              \/ result' = "refused" /\ TakenForSecond'
<1>1. /\ Len(m) \in Nat /\ k \in Int /\ Len(lines) < Len(File)
      /\ ReadLine(File[Len(lines) + 1]) /\ edited' = edited /\ i \in Int
  <2>1. Len(m) \in Nat
    BY MachineTypes
  <2>2. i \in Int
    OBVIOUS
  <2> QED BY <2>1, <2>2 DEF ReadTemplate
<1>2. \A j \in 1 .. Len(m) :
         /\ PartOff(m)[j] \in Nat /\ PartLen(m, j) \in Nat /\ PartLen(m, j) >= 4
         /\ \A x \in 1 .. PartLen(m, j) : ClusterTemplate(m, j)[x] \in TemplateLine
  <2> TAKE j \in 1 .. Len(m)
  <2>1. CapsOf(m, j) \in Nat /\ CstatesOf(m, j) \in Nat
    BY MachineTypes
  <2>2. PartLen(m, j) \in Nat /\ PartLen(m, j) >= 4
    BY <2>1 DEF PartLen
  <2>3. ClusterTemplate(m, j) \in Seq(TemplateLine)
        /\ Len(ClusterTemplate(m, j)) = PartLen(m, j)
    BY PartIs, Zenon
  <2>4. PartOff(m)[j] \in Nat
    BY TemplateIs
  <2> QED BY <2>2, <2>3, <2>4
<1>3. CASE i < PartLen(m, k)
  <2> DEFINE line == ClusterTemplate(m, k)[i + 1]
  <2>1. File[Len(lines) + 1] = line
    BY <1>3, NextLine
  <2>2. i + 1 \in 1 .. PartLen(m, k) /\ i + 1 # 1
    BY <1>1, <1>2, <1>3
  <2>3. line \in TemplateLine
    BY <1>2, <2>2
  <2>4. \/ result' = "reading" /\ ReadUpTo(m, k, i + 1)'
        \/ result' = "refused" /\ TakenForSecond'
    BY <1>1, <1>3, <2>1, PartLineRead
  <2> HIDE DEF line
  <2>5. lines' \in Seq(TemplateLine) /\ Len(lines') = Len(lines) + 1
    BY <1>1, <2>1, <2>3, LineAdded
  <2>6. Len(lines') = PartOff(m)[k] + (i + 1)
    <3> DEFINE a == PartOff(m)[k]
               L == Len(lines)
    <3>1. a \in Nat /\ L = a + i /\ Len(lines') = L + 1 /\ i \in Int
      BY <1>1, <1>2, <2>5
    <3> HIDE DEF a, L
    <3>2. L + 1 = a + (i + 1)
      BY ONLY <3>1
    <3> QED BY <3>1, <3>2 DEF a
  <2>7. ASSUME ReadUpTo(m, k, i + 1)'
        PROVE  ReadSoFar(m)'
    BY <1>1, <2>2, <2>6, <2>7, Zenon DEF ReadSoFar
  <2> QED BY <2>4, <2>5, <2>7
<1>4. CASE i = PartLen(m, k) /\ k < Len(m)
  <2> DEFINE line == ClusterTemplate(m, k + 1)[1]
  <2>1. File[Len(lines) + 1] = line /\ PartOff(m)[k + 1] + 1 = Len(lines) + 1
    BY <1>4, NextLine
  <2>2. k \in 1 .. Len(m) - 1 /\ k + 1 \in 1 .. Len(m)
    BY <1>1, <1>4
  <2>3. 1 \in 1 .. PartLen(m, k + 1)
    BY <1>2, <2>2
  <2>4. line \in TemplateLine
    BY <1>2, <2>2, <2>3
  <2>5. result' = "reading" /\ ReadUpTo(m, k + 1, 1)'
    <3>1. ReadUpTo(m, k, PartLen(m, k)) /\ ReadLine(line)
      BY <1>1, <1>4, <2>1
    <3> QED BY <2>2, <3>1, NextPartRead
  <2> HIDE DEF line
  <2>6. lines' \in Seq(TemplateLine) /\ Len(lines') = Len(lines) + 1
    BY <1>1, <2>1, <2>4, LineAdded
  <2>7. ReadSoFar(m)'
    BY <1>1, <2>1, <2>2, <2>3, <2>5, <2>6, Zenon DEF ReadSoFar
  <2> QED BY <2>5, <2>6, <2>7
<1>5. CASE i = PartLen(m, k) /\ k = Len(m)
  <2>1. Len(lines) = Len(File)
    BY <1>5, NextLine
  <2>2. Len(lines) \in Nat
    OBVIOUS
  <2> QED BY <1>1, <2>1, <2>2
<1>6. PartLen(m, k) \in Nat
  BY <1>2
<1> QED BY <1>1, <1>3, <1>4, <1>5, <1>6

\* The length of the file.
LEMMA FileStarts ==
    ASSUME NEW m \in Machines, m # <<>>, machine = m
    PROVE  /\ Len(File) \in Nat /\ Len(File) >= 1 /\ (~edited => Len(File) >= 2)
           /\ File[1] = [kind |-> "clusters", n |-> Len(m)]
           /\ Template(m)[1] = [kind |-> "clusters", n |-> Len(m)]
           /\ Template(m)[2] = [kind |-> "C-states"]
           /\ Template(m) \in Seq(TemplateLine) /\ Len(Template(m)) >= 2
           /\ ~edited => File = Template(m)
           /\ PartOff(m)[1] = 0 /\ 1 \in 1 .. Len(m) /\ 1 \in 1 .. PartLen(m, 1)
<1> DEFINE end == PartOff(m)[Len(m) + 1]
<1>1. 1 \in 1 .. Len(m) /\ 1 \in 1 .. PartLen(m, 1)
  <2>1. Len(m) \in Nat /\ Len(m) >= 1
    BY MachineTypes
  <2>2. 1 \in 1 .. Len(m)
    BY <2>1
  <2>3. CapsOf(m, 1) \in Nat /\ CstatesOf(m, 1) \in Nat
    BY <2>2, MachineTypes
  <2>4. 1 \in 1 .. PartLen(m, 1)
    BY <2>3 DEF PartLen
  <2> QED BY <2>2, <2>4
<1>2. /\ Template(m) \in Seq(TemplateLine) /\ Len(Template(m)) = 1 + end
      /\ Template(m)[1] = [kind |-> "clusters", n |-> Len(m)]
      /\ end \in Nat /\ PartOff(m)[1] = 0
  BY TemplateIs
<1>3. PartOff(m)[1] + 1 <= end /\ Template(m)[PartOff(m)[1] + 1 + 1] = ClusterTemplate(m, 1)[1]
  BY <1>1, TemplateIs
<1>4. ClusterTemplate(m, 1)[1] = [kind |-> "C-states"]
  BY <1>1, PartIs, Zenon
<1>5. /\ ~edited => File = Template(m)
      /\ edited => Len(File) = end /\ File[1] = Template(m)[1]
  BY FileIs
<1> HIDE DEF end
<1>6. end >= 1 /\ Template(m)[2] = [kind |-> "C-states"]
  BY <1>2, <1>3, <1>4
<1> QED BY <1>1, <1>2, <1>5, <1>6

\* The first line.
LEMMA FirstLineRead ==
    ASSUME NEW m \in Machines, m # <<>>, machine = m, lines = <<>>, clusters = 0,
           current = -1, ReadTemplate
    PROVE  /\ lines' \in Seq(TemplateLine) /\ result' = "reading" /\ ReadSoFar(m)'
<1> DEFINE head == [kind |-> "clusters", n |-> Len(m)]
           n == Len(m)
<1>1. File[Len(lines) + 1] = head /\ head = Template(m)[1]
  <2>1. Len(lines) + 1 = 1
    OBVIOUS
  <2> QED BY <2>1, FileStarts
<1>2. head.kind = "clusters" /\ head.n = n /\ n \in Nat
  BY MachineTypes
<1>3. ReadLine(head) /\ edited' = edited
  BY <1>1 DEF ReadTemplate
<1> HIDE DEF head, n
<1>4. result = "reading" /\ lines' = Append(lines, head) /\ ReadClusters(head)
  BY <1>2, <1>3, ActionOfLine
<1>5. /\ lines' = <<Template(m)[1]>> /\ Len(lines') = 1
      /\ lines' \in Seq(TemplateLine)
  <2>2. Template(m) \in Seq(TemplateLine) /\ Len(Template(m)) >= 2
    BY FileStarts
  <2>1. head \in TemplateLine
    BY <1>1, <2>2
  <2> QED BY <1>1, <1>4, <2>1
<1>6. /\ clusters' = n /\ current' = -1 /\ result' = "reading"
  BY <1>2, <1>4 DEF ReadClusters
<1>7. PICK left \in [0 .. n - 1 -> Leftover] : table' = [x \in 0 .. n - 1 |-> Unset(left[x])]
  BY <1>2, <1>4 DEF ReadClusters
<1>8. table' = [x \in 0 .. n - 1 |-> table'[x]]
  BY <1>7
<1>9. \A j \in 1 .. n : \E l \in Leftover : table'[j - 1] = Unset(l)
  <2> TAKE j \in 1 .. n
  <2>1. j - 1 \in 0 .. n - 1
    BY <1>2
  <2> QED BY <1>7, <2>1
<1>10. ReadUpTo(m, 1, 1)'
  <2>1. CapsOf(m, 1) \in Nat
    BY FileStarts, MachineTypes
  <2>2. /\ ~ 1 >= 2 /\ 1 .. 1 - 1 = {} /\ ~ 1 \in 3 .. 3 + CapsOf(m, 1)
        /\ ~ 1 >= 4 + CapsOf(m, 1) /\ 1 - 2 = -1
    BY <2>1
  <2> QED BY <1>6, <1>8, <1>9, <2>2 DEF ReadUpTo, n
<1>11. PartOff(m)[1] + 1 = 1 /\ 1 \in 1 .. Len(m) /\ 1 \in 1 .. PartLen(m, 1)
  <2>1. PartOff(m)[1] = 0 /\ 1 \in 1 .. Len(m) /\ 1 \in 1 .. PartLen(m, 1)
    BY FileStarts, Zenon
  <2> QED BY <2>1
<1>12. ReadSoFar(m)'
  BY <1>5, <1>10, <1>11, Zenon DEF ReadSoFar
<1> QED BY <1>5, <1>6, <1>12

\* The second line, when the heading is still there.
LEMMA HeadingRefused ==
    ASSUME NEW m \in Machines, m # <<>>, machine = m, ~edited,
           lines = <<Template(m)[1]>>, ReadUpTo(m, 1, 1), ReadTemplate
    PROVE  /\ lines' \in Seq(TemplateLine) /\ result' = "refused"
           /\ lines' = SubSeq(Template(m), 1, 2)
<1> DEFINE T == Template(m)
<1>1. /\ T \in Seq(TemplateLine) /\ Len(T) >= 2 /\ T[2] = [kind |-> "C-states"]
      /\ File = T
  BY FileStarts
<1>2. ReadLine(T[2])
  <2>1. Len(lines) + 1 = 2
    OBVIOUS
  <2> QED BY <1>1, <2>1 DEF ReadTemplate
<1>3. lines' = Append(lines, T[2]) /\ ReadCHeading(T[2])
  BY <1>1, <1>2, ActionOfLine
<1>4. current = -1
  BY DEF ReadUpTo
<1>5. result' = "refused"
  BY <1>3, <1>4 DEF ReadCHeading, Refuse
<1> HIDE DEF T
<1>6. lines = <<T[1]>>
  BY DEF T
<1>7. lines' = SubSeq(T, 1, 2) /\ lines' \in Seq(TemplateLine)
  BY <1>1, <1>3, <1>6
<1> QED BY <1>5, <1>7 DEF T

\* The end of the file: every part has been read.
LEMMA EndRead ==
    ASSUME NEW m \in Machines, m # <<>>, machine = m, TemplateInv(m), TemplateEnds
    PROVE  TemplateInv(m)'
<1>1. /\ result = "reading" /\ Len(lines) = Len(File) /\ result' = "parsed"
      /\ lines' = lines /\ table' = table /\ edited' = edited
  BY DEF TemplateEnds, EndOfFile, Keep
<1>2. lines \in Seq(TemplateLine) /\ Len(File) >= 1 /\ Len(File) \in Nat
      /\ (~edited => Len(File) >= 2)
  <2>1. lines \in Seq(TemplateLine)
    BY DEF TemplateInv
  <2>2. Len(File) >= 1 /\ Len(File) \in Nat /\ (~edited => Len(File) >= 2)
    BY FileStarts, Zenon
  <2> QED BY <2>1, <2>2
<1>3. lines # <<>> /\ Len(lines) # 0
  BY <1>1, <1>2
<1>4. ReadSoFar(m)
  BY <1>1, <1>3 DEF TemplateInv, ReadSoFar
<1>10. PICK k \in 1 .. Len(m) : \E i \in 1 .. PartLen(m, k) :
         /\ Len(lines) = PartOff(m)[k] + i
         /\ ReadUpTo(m, k, i)
         /\ ~edited => k = 1 /\ i = 1 /\ lines = <<Template(m)[1]>>
  BY <1>4 DEF ReadSoFar
<1>5. PICK i \in 1 .. PartLen(m, k) :
         /\ Len(lines) = PartOff(m)[k] + i
         /\ ReadUpTo(m, k, i)
         /\ ~edited => k = 1 /\ i = 1 /\ lines = <<Template(m)[1]>>
  BY <1>10
<1>6. edited
  <2> SUFFICES ASSUME ~edited
               PROVE  FALSE
    OBVIOUS
  <2>1. Len(lines) = 1
    BY <1>5
  <2> QED BY <1>1, <1>2, <2>1
<1>7. i = PartLen(m, k) /\ k = Len(m)
  BY <1>1, <1>5, <1>6, NextLine
<1>8. Len(m) \in Nat /\ i >= 2
  <2>1. Len(m) \in Nat /\ CapsOf(m, k) \in Nat /\ CstatesOf(m, k) \in Nat
    BY MachineTypes
  <2> QED BY <1>7, <2>1 DEF PartLen
<1>9. \A j \in 1 .. Len(m) : table[j - 1] = EntryAfter(m, j, PartLen(m, j))
  <2> TAKE j \in 1 .. Len(m)
  <2>1. j = k \/ j \in 1 .. k - 1
    BY <1>7, <1>8
  <2>2. CASE j = k
    BY <1>5, <1>7, <1>8, <2>2 DEF ReadUpTo
  <2>3. CASE j \in 1 .. k - 1
    BY <1>5, <2>3 DEF ReadUpTo
  <2> QED BY <2>1, <2>2, <2>3
<1> QED BY <1>1, <1>2, <1>6, <1>9 DEF TemplateInv

\* A line of the file.
LEMMA TemplateLineRead ==
    ASSUME NEW m \in Machines, m # <<>>, machine = m, TemplateInv(m), ReadTemplate
    PROVE  TemplateInv(m)'
<1>1. result = "reading" /\ edited' = edited
  <2>1. ReadLine(File[Len(lines) + 1]) /\ edited' = edited
    BY DEF ReadTemplate
  <2> QED BY <2>1, ActionOfLine
<1>2. CASE lines = <<>> /\ clusters = 0 /\ current = -1
  <2>1. lines' \in Seq(TemplateLine) /\ result' = "reading" /\ ReadSoFar(m)'
    BY <1>2, FirstLineRead
  <2> QED BY <2>1 DEF TemplateInv, ReadSoFar
<1>3. CASE ReadSoFar(m)
  <2>4. PICK k \in 1 .. Len(m) : \E i \in 1 .. PartLen(m, k) :
           /\ Len(lines) = PartOff(m)[k] + i
           /\ ReadUpTo(m, k, i)
           /\ ~edited => k = 1 /\ i = 1 /\ lines = <<Template(m)[1]>>
    BY <1>3 DEF ReadSoFar
  <2>1. PICK i \in 1 .. PartLen(m, k) :
           /\ Len(lines) = PartOff(m)[k] + i
           /\ ReadUpTo(m, k, i)
           /\ ~edited => k = 1 /\ i = 1 /\ lines = <<Template(m)[1]>>
    BY <2>4
  <2>2. CASE edited
    <3>1. lines \in Seq(TemplateLine)
      BY DEF TemplateInv
    <3>2. /\ lines' \in Seq(TemplateLine)
          /\ \/ result' = "reading" /\ ReadSoFar(m)'
             \/ result' = "refused" /\ TakenForSecond'
      BY <2>1, <2>2, <3>1, EditedGoesOn
    <3> QED BY <1>1, <2>2, <3>2 DEF TemplateInv, ReadSoFar
  <2>3. CASE ~edited
    <3>1. ReadUpTo(m, 1, 1) /\ lines = <<Template(m)[1]>>
      BY <2>1, <2>3
    <3>2. /\ lines' \in Seq(TemplateLine) /\ result' = "refused"
          /\ lines' = SubSeq(Template(m), 1, 2)
      BY <2>3, <3>1, HeadingRefused
    <3> QED BY <1>1, <2>3, <3>2 DEF TemplateInv
  <2> QED BY <2>2, <2>3
<1> QED BY <1>1, <1>2, <1>3 DEF TemplateInv, ReadSoFar

\* The entry of a cluster whose part was read to its end.
LEMMA EntryOfPart ==
    ASSUME NEW m \in Machines, NEW k \in 1 .. Len(m)
    PROVE  LET e == EntryAfter(m, k, PartLen(m, k))
           IN  /\ DOMAIN e.p = 0 .. CapsOf(m, k) - 1
               /\ \A n \in 0 .. CapsOf(m, k) - 1 : e.p[n] = RowOf(SpeedRow(m, k, n + 1))
               /\ DOMAIN e.c = 0 .. CstatesOf(m, k) - 1
               /\ \A n \in 0 .. CstatesOf(m, k) - 1 : e.c[n] = RowOf(NameRow(m, k, n + 1))
<1> DEFINE np == CapsOf(m, k)
           nc == CstatesOf(m, k)
           len == PartLen(m, k)
<1>1. np \in Nat /\ nc \in Nat
  BY MachineTypes
<1>2. len = 4 + np + nc
  BY DEF PartLen
<1> HIDE DEF np, nc, len
<1>3. len \in 2 .. len /\ len >= 4 + np /\ len - 4 - np = nc
  BY <1>1, <1>2
<1>4. EntryAfter(m, k, len) = EntryWith(m, k, "C-states", np, nc)
  BY <1>3, EntryAfterIs DEF len, np
<1> DEFINE P == [n \in 0 .. np - 1 |->
                   IF n < np THEN RowOf(SpeedRow(m, k, n + 1)) ELSE NoRow]
           C == [n \in 0 .. nc - 1 |->
                   IF n < nc THEN RowOf(NameRow(m, k, n + 1)) ELSE NoRow]
<1>5. EntryWith(m, k, "C-states", np, nc) =
         [caps |-> np, cstates |-> nc, p |-> P, c |-> C,
          wakeup |-> <<0, 0>>, state |-> "C-states"]
  BY DEF EntryWith, np, nc
<1>6. /\ DOMAIN P = 0 .. np - 1 /\ DOMAIN C = 0 .. nc - 1
      /\ \A n \in 0 .. np - 1 : P[n] = RowOf(SpeedRow(m, k, n + 1))
      /\ \A n \in 0 .. nc - 1 : C[n] = RowOf(NameRow(m, k, n + 1))
  BY <1>1
<1> HIDE DEF P, C
<1>7. EntryAfter(m, k, len).p = P /\ EntryAfter(m, k, len).c = C
  BY <1>4, <1>5
<1> QED BY <1>6, <1>7 DEF len, np, nc

\* The frequencies and C-states of a cluster's last CPU have rows, no others.
RowsFound(m, k) ==
    /\ Keys(table[k - 1].c) = ToSet(LastCpu(m, k).cstates)
    /\ Keys(table[k - 1].p) = {f \div 1000 : f \in ToSet(LastCpu(m, k).freqs) \ {0}}

(* So they have when the cluster's part was read to its end.               *)
LEMMA RowsOfPart ==
    ASSUME NEW m \in Machines, NEW k \in 1 .. Len(m),
           table[k - 1] = EntryAfter(m, k, PartLen(m, k))
    PROVE  RowsFound(m, k)
<1> DEFINE P == table[k - 1].p
           C == table[k - 1].c
           np == CapsOf(m, k)
           nc == CstatesOf(m, k)
           freqs == LastCpu(m, k).freqs
           names == LastCpu(m, k).cstates
           speeds == Speeds(m, k)
<1>1. /\ np \in Nat /\ nc \in Nat /\ freqs \in Seq(Nat) /\ names \in Seq(Names)
      /\ Len(speeds) = np /\ Len(names) = nc /\ speeds = Known(freqs)
  BY MachineTypes DEF CapsOf, CstatesOf, Speeds
<1>2. /\ DOMAIN P = 0 .. np - 1 /\ DOMAIN C = 0 .. nc - 1
      /\ \A n \in 0 .. np - 1 : P[n] = RowOf(SpeedRow(m, k, n + 1))
      /\ \A n \in 0 .. nc - 1 : C[n] = RowOf(NameRow(m, k, n + 1))
  BY EntryOfPart
<1>3. \A n : /\ RowOf(SpeedRow(m, k, n)).key = speeds[n] \div 1000
             /\ RowOf(NameRow(m, k, n)).key = names[n]
  BY DEF RowOf, SpeedRow, NameRow, FilledIn
<1> HIDE DEF P, C, freqs, names, speeds, np, nc
<1>4. /\ \A i \in 1 .. np : i - 1 \in 0 .. np - 1 /\ i - 1 + 1 = i
      /\ \A i \in 1 .. nc : i - 1 \in 0 .. nc - 1 /\ i - 1 + 1 = i
      /\ \A n \in 0 .. np - 1 : n + 1 \in 1 .. np
      /\ \A n \in 0 .. nc - 1 : n + 1 \in 1 .. nc
  BY <1>1
<1>5. Keys(C) = ToSet(names)
  <2>1. \A n \in 0 .. nc - 1 : C[n].key = names[n + 1]
    BY <1>2, <1>3
  <2>2. ToSet(names) = {names[i] : i \in 1 .. nc}
    <3>1. DOMAIN names = 1 .. nc
      BY <1>1
    <3> QED BY <3>1 DEF ToSet
  <2>3. Keys(C) = {C[n].key : n \in 0 .. nc - 1}
    BY <1>2 DEF Keys
  <2>4. ASSUME NEW i \in 1 .. nc PROVE \E n \in 0 .. nc - 1 : C[n].key = names[i]
    BY <1>4, <2>1
  <2>5. ASSUME NEW n \in 0 .. nc - 1 PROVE \E i \in 1 .. nc : C[n].key = names[i]
    BY <1>4, <2>1
  <2>6. \A s \in ToSet(names) : s \in Keys(C)
    BY ONLY <2>2, <2>3, <2>4
  <2>7. \A key \in Keys(C) : key \in ToSet(names)
    BY ONLY <2>2, <2>3, <2>5
  <2> QED BY ONLY <2>6, <2>7
<1>6. Keys(P) = {f \div 1000 : f \in ToSet(freqs) \ {0}}
  <2> DEFINE F == ToSet(freqs) \ {0}
  <2>1. \A n \in 0 .. np - 1 : P[n].key = speeds[n + 1] \div 1000
    BY <1>2, <1>3
  <2>2. /\ \A f \in F : \E i \in 1 .. np : speeds[i] = f
        /\ \A i \in 1 .. np : speeds[i] \in F
    BY <1>1, KnownIs
  <2>3. Keys(P) = {P[n].key : n \in 0 .. np - 1}
    BY <1>2 DEF Keys
  <2> HIDE DEF F
  <2>4. ASSUME NEW f \in F
        PROVE  \E n \in 0 .. np - 1 : P[n].key = f \div 1000
    <3>1. PICK i \in 1 .. np : speeds[i] = f
      BY <2>2
    <3>2. i - 1 \in 0 .. np - 1 /\ i - 1 + 1 = i
      BY <1>4
    <3>3. P[i - 1].key = speeds[i] \div 1000
      BY <2>1, <3>2
    <3> QED BY <3>1, <3>2, <3>3
  <2>5. ASSUME NEW n \in 0 .. np - 1
        PROVE  \E f \in F : P[n].key = f \div 1000
    <3>1. speeds[n + 1] \in F
      BY <1>4, <2>2
    <3> QED BY <2>1, <3>1
  <2>6. \A f \in F : f \div 1000 \in Keys(P)
    BY ONLY <2>3, <2>4
  <2>7. \A key \in Keys(P) : \E f \in F : key = f \div 1000
    BY ONLY <2>3, <2>5
  <2> QED BY ONLY <2>6, <2>7 DEF F
<1> QED BY <1>5, <1>6 DEF P, C, RowsFound, freqs, names

\* Of whatever machine the template is.
TemplateIInv == machine # <<>> => \E m \in Machines : m = machine /\ TemplateInv(m)

(* However many clusters, frequencies and C-states the machine has, its    *)
(* template is refused for the heading at its start; without that heading, *)
(* the parser either takes it, with rows for the C-states and frequencies  *)
(* of every cluster's last CPU and no others, or it met memory of the      *)
(* table that nobody has cleared.                                          *)
THEOREM TemplateIsFit == TemplateSpec => []TemplateFits
<1>1. TemplateInit => TemplateIInv
  <2> SUFFICES ASSUME TemplateInit, machine # <<>>
               PROVE  \E m \in Machines : m = machine /\ TemplateInv(m)
    BY DEF TemplateIInv
  <2>1. /\ machine \in Machines /\ clusters = 0 /\ current = -1
        /\ result = "reading" /\ lines = <<>>
    BY DEF TemplateInit, Init
  <2>2. PICK m \in Machines : m = machine
    BY <2>1
  <2>3. lines \in Seq(TemplateLine)
    BY <2>1
  <2>4. TemplateInv(m)
    BY <2>1, <2>3 DEF TemplateInv
  <2> QED BY <2>2, <2>4
<1>2. TemplateIInv /\ [ReadTemplate \/ TemplateEnds \/ ReadOther]_templateVars => TemplateIInv'
  <2> SUFFICES ASSUME TemplateIInv, machine' # <<>>,
                      [ReadTemplate \/ TemplateEnds \/ ReadOther]_templateVars
               PROVE  \E m \in Machines : m = machine' /\ TemplateInv(m)'
    BY DEF TemplateIInv
  <2>1. machine' = machine
    BY DEF ReadTemplate, TemplateEnds, ReadOther, templateVars
  <2>2. PICK m \in Machines : m = machine /\ TemplateInv(m)
    BY <2>1 DEF TemplateIInv
  <2>3. CASE ReadTemplate
    BY <2>1, <2>2, <2>3, TemplateLineRead
  <2>4. CASE TemplateEnds
    BY <2>1, <2>2, <2>4, EndRead
  <2>5. CASE ReadOther
    BY <2>1, <2>5 DEF ReadOther
  <2>6. CASE UNCHANGED templateVars
    <3>1. UNCHANGED <<clusters, table, current, nextP, nextC, result, lines, edited>>
      BY <2>6 DEF templateVars, vars
    <3>2. TemplateInv(m)'
      <4>1. ReadSoFar(m) => ReadSoFar(m)'
        BY SMTT(40), <3>1 DEF ReadSoFar, ReadUpTo
      <4>2. TakenForSecond' <=> TakenForSecond
        BY <3>1 DEF TakenForSecond
      <4> QED BY <2>2, <3>1, <4>1, <4>2 DEF TemplateInv
    <3> QED BY <2>1, <2>2, <3>2
  <2> QED BY <2>3, <2>4, <2>5, <2>6
<1>3. TemplateIInv => TemplateFits
  <2> SUFFICES ASSUME TemplateIInv, machine # <<>>
               PROVE  /\ result = "refused" =>
                            IF edited THEN TakenForSecond
                            ELSE lines = SubSeq(Template(machine), 1, 2)
                      /\ result = "parsed" => edited
                      /\ result = "parsed" =>
                            \A k \in DOMAIN machine : RowsFound(machine, k)
    BY Zenon DEF TemplateFits, RowsFound
  <2>1. PICK m \in Machines : m = machine /\ TemplateInv(m)
    BY DEF TemplateIInv
  <2>2. result = "refused" => IF edited THEN TakenForSecond
                              ELSE lines = SubSeq(Template(machine), 1, 2)
    BY <2>1 DEF TemplateInv
  <2>3. result = "parsed" => edited
    BY <2>1 DEF TemplateInv
  <2>4. ASSUME result = "parsed", NEW k \in DOMAIN machine
        PROVE  RowsFound(machine, k)
    <3>1. k \in 1 .. Len(m)
      BY <2>1, MachineTypes
    <3>2. table[k - 1] = EntryAfter(m, k, PartLen(m, k))
      BY <2>1, <2>4, <3>1 DEF TemplateInv
    <3>3. RowsFound(m, k)
      BY <3>1, <3>2, RowsOfPart
    <3> QED BY <2>1, <3>3
  <2> QED BY <2>2, <2>3, <2>4, Zenon
<1> QED BY <1>1, <1>2, <1>3, PTL DEF TemplateSpec
=============================================================================

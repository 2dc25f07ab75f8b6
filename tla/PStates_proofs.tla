--------------------------- MODULE PStates_proofs ---------------------------
(***************************************************************************)
(* Lemmas about the P-state operators of PStates: the index arithmetic of  *)
(* alloc_pstate keeps a table sorted and `current' on its entry, and every *)
(* function keeps a unit's record well formed, for any frequencies, times  *)
(* and number of entries.                                                  *)
(***************************************************************************)
EXTENDS PStates, CStates_proofs, DataLemmas

(* A unit's record is well formed: typed, its table sorted, `current' in   *)
(* it, and its statistics those of some list of intervals.                 *)
GoodPStates(ps) ==
    /\ ps \in PStatesType
    /\ TableSorted(ps)
    /\ \A i \in DOMAIN ps.table : Coherent(ps.table[i].st)

(* An empty table is well formed (build_pstate_info).                      *)
LEMMA NewPStatesGood == GoodPStates(NewPStates)
BY DEF GoodPStates, NewPStates, PStatesType, TableSorted

(* The scan of alloc_pstate ends: at the first entry that is not below f,  *)
(* or at the end of the table.                                             *)
LEMMA PositionProperties ==
    ASSUME NEW table \in Seq(PRecordType), NEW f \in Nat
    PROVE  /\ Position(table, f) \in 1 .. Len(table) + 1
           /\ Position(table, f) <= Len(table) => f <= table[Position(table, f)].freq
           /\ \A j \in 1 .. Position(table, f) - 1 : table[j].freq < f
<1> DEFINE I == {i \in 1 .. Len(table) + 1 : i <= Len(table) => f <= table[i].freq}
<1>1. Len(table) \in Nat /\ \A i \in 1 .. Len(table) : table[i].freq \in Nat
  <2>1. Len(table) \in Nat /\ \A i \in 1 .. Len(table) : table[i] \in PRecordType
    BY ElementOfSeq, LenProperties
  <2> QED BY <2>1 DEF PRecordType
<1>2. I \in SUBSET Int /\ Len(table) + 1 \in I
  BY <1>1
<1>3. IsFiniteSet(I)
  <2>1. IsFiniteSet(1 .. Len(table) + 1)
    BY <1>1, FS_Interval
  <2> QED BY <2>1, FS_Subset
<1>4. PICK n \in I : \A j \in I : n <= j
  <2> HIDE DEF I
  <2> QED BY <1>2, <1>3, LeastExists
<1>5. \A j \in 1 .. n - 1 : table[j].freq < f
  <2> SUFFICES ASSUME NEW j \in 1 .. n - 1
               PROVE  table[j].freq < f
    OBVIOUS
  <2>1. j \notin I /\ j \in 1 .. Len(table)
    BY <1>1, <1>4
  <2> QED BY <1>1, <2>1
<1>6. n \in 1 .. Len(table) + 1 /\ (n <= Len(table) => f <= table[n].freq)
  BY <1>4
<1> QED BY <1>5, <1>6 DEF Position

-----------------------------------------------------------------------------
(* alloc_pstate keeps a record well formed.  The index it returns is f's   *)
(* in the new table, and `current' follows its entry: the open frequency   *)
(* does not change, and none is opened or closed.                          *)
LEMMA AllocPstateGood ==
    ASSUME NEW ps, GoodPStates(ps), NEW f \in Nat
    PROVE  LET al == AllocPstate(ps, f)
               n  == Position(ps.table, f)
           IN  /\ GoodPStates(al)
               /\ n \in 1 .. Len(al.table) /\ al.table[n].freq = f
               /\ al.cur = 0 <=> ps.cur = 0
               /\ OpenFreq(al) = OpenFreq(ps)
               /\ al.idle = ps.idle /\ al.enter = ps.enter
<1> DEFINE al == AllocPstate(ps, f)
           T  == ps.table
           n  == Position(T, f)
           e  == [freq |-> f, st |-> NoStat]
           N  == InsertAt(T, n, e)
<1>1. /\ ps \in PStatesType /\ T \in Seq(PRecordType) /\ Len(T) \in Nat
      /\ DOMAIN T = 1 .. Len(T)
      /\ \A i \in 1 .. Len(T) : T[i] \in PRecordType /\ T[i].freq \in Nat
      /\ ps.cur \in 0 .. Len(T)
      /\ \A i, j \in 1 .. Len(T) : i < j => T[i].freq < T[j].freq
      /\ \A i \in 1 .. Len(T) : Coherent(T[i].st)
  <2>1. T \in Seq(PRecordType) /\ ps \in PStatesType
    BY DEF GoodPStates, PStatesType
  <2>2. Len(T) \in Nat /\ DOMAIN T = 1 .. Len(T)
    BY <2>1, LenProperties
  <2>3. \A i \in 1 .. Len(T) : T[i] \in PRecordType
    BY <2>1, ElementOfSeq
  <2> QED BY <2>1, <2>2, <2>3 DEF GoodPStates, TableSorted, PRecordType
<1>2. /\ n \in 1 .. Len(T) + 1
      /\ n <= Len(T) => f <= T[n].freq
      /\ \A j \in 1 .. n - 1 : T[j].freq < f
  BY <1>1, PositionProperties
<1>3. CASE HasFreq(T, n, f)
  BY <1>1, <1>2, <1>3 DEF AllocPstate, HasFreq
<1>4. CASE ~HasFreq(T, n, f)
  <2>1. e \in PRecordType /\ e.freq = f /\ e.st = NoStat
    BY NoStatGood DEF PRecordType
  <2>2. /\ N \in Seq(PRecordType) /\ Len(N) = Len(T) + 1
        /\ \A j \in 1 .. Len(T) + 1 : N[j] =
              IF j < n THEN T[j] ELSE IF j = n THEN e ELSE T[j - 1]
    <3>1. T \in Seq(PRecordType) /\ n \in 1 .. Len(T) + 1 /\ e \in PRecordType
      BY <1>1, <1>2, <2>1
    <3> HIDE DEF T, n, e
    <3>2. InsertAt(T, n, e) \in Seq(PRecordType)
      BY <3>1, InsertAtProperties
    <3>3. Len(InsertAt(T, n, e)) = Len(T) + 1
      BY <3>1, InsertAtProperties
    <3>4. \A j \in 1 .. Len(T) + 1 : InsertAt(T, n, e)[j] =
              IF j < n THEN T[j] ELSE IF j = n THEN e ELSE T[j - 1]
      BY <3>1, InsertAtProperties
    <3> QED BY <3>2, <3>3, <3>4
  <2>3. al = [ps EXCEPT !.table = N, !.cur = IF @ >= n THEN @ + 1 ELSE @]
    BY <1>4 DEF AllocPstate
  <2>4. /\ al.table = N /\ al.idle = ps.idle /\ al.enter = ps.enter
        /\ al.cur = (IF ps.cur >= n THEN ps.cur + 1 ELSE ps.cur)
        /\ al \in PStatesType
    <3>1. /\ ps = [table |-> T, cur |-> ps.cur, idle |-> ps.idle, enter |-> ps.enter]
          /\ ps.cur \in Nat /\ ps.idle \in {-1, 0, 1} /\ ps.enter \in Int
      BY <1>1 DEF PStatesType
    <3> DEFINE c == IF ps.cur >= n THEN ps.cur + 1 ELSE ps.cur
    <3>2. al = [table |-> N, cur |-> c, idle |-> ps.idle, enter |-> ps.enter]
      <4> HIDE DEF al, N, n
      <4> QED BY <2>3, <3>1
    <3>3. c \in Nat
      BY <3>1
    <3> HIDE DEF al, N, n, c
    <3>4. al \in PStatesType
      BY <2>2, <3>1, <3>2, <3>3 DEF PStatesType
    <3> QED BY <3>2, <3>4 DEF c
  <2>5. al.cur \in 0 .. Len(N) /\ (al.cur = 0 <=> ps.cur = 0)
    BY <1>1, <1>2, <2>2, <2>4
  <2> HIDE DEF al, N, T, n, e
  <2>6. DOMAIN N = 1 .. Len(N)
    BY <2>2, LenProperties
  <2>7. n <= Len(T) => f < T[n].freq
    BY <1>1, <1>2, <1>4 DEF HasFreq
  <2>8. ASSUME NEW i \in DOMAIN N, NEW j \in DOMAIN N, i < j
        PROVE  N[i].freq < N[j].freq
    <3>1. i \in 1 .. Len(T) + 1 /\ j \in 1 .. Len(T) + 1
      BY <2>2, <2>6
    <3>2. CASE j < n
      BY <1>1, <1>2, <2>2, <2>8, <3>1, <3>2
    <3>3. CASE j = n
      BY <1>1, <1>2, <2>1, <2>2, <2>8, <3>1, <3>3
    <3>4. CASE j > n /\ i < n
      <4>1. N[j] = T[j - 1] /\ N[i] = T[i] /\ i < j - 1 /\ j - 1 \in 1 .. Len(T)
        BY <1>1, <1>2, <2>2, <2>8, <3>1, <3>4
      <4> QED BY <1>1, <1>2, <3>1, <3>4, <4>1
    <3>5. CASE j > n /\ i = n
      <4>1. N[j] = T[j - 1] /\ N[i] = e /\ j - 1 \in 1 .. Len(T)
        BY <1>1, <1>2, <2>2, <3>1, <3>5
      <4>2. f < T[j - 1].freq
        <5>1. n \in 1 .. Len(T) /\ n <= j - 1
          BY <1>1, <1>2, <3>1, <3>5
        <5>2. CASE n = j - 1
          BY <2>7, <5>1, <5>2
        <5>3. CASE n < j - 1
          <6>1. T[n].freq < T[j - 1].freq
            BY <1>1, <4>1, <5>1, <5>3
          <6>2. f < T[n].freq
            BY <2>7, <5>1
          <6>3. T[n].freq \in Nat /\ T[j - 1].freq \in Nat
            BY <1>1, <4>1, <5>1
          <6> QED BY <6>1, <6>2, <6>3
        <5> QED BY <3>1, <5>1, <5>2, <5>3
      <4> QED BY <2>1, <4>1, <4>2
    <3>6. CASE i > n
      <4>1. /\ N[j] = T[j - 1] /\ N[i] = T[i - 1] /\ i - 1 < j - 1
            /\ i - 1 \in 1 .. Len(T) /\ j - 1 \in 1 .. Len(T)
        BY <1>1, <1>2, <2>2, <2>8, <3>1, <3>6
      <4> QED BY <1>1, <4>1
    <3> QED BY <1>2, <2>8, <3>1, <3>2, <3>3, <3>4, <3>5, <3>6
  <2>9. \A i \in DOMAIN N : Coherent(N[i].st)
    <3> SUFFICES ASSUME NEW i \in DOMAIN N
                 PROVE  Coherent(N[i].st)
      OBVIOUS
    <3>1. i \in 1 .. Len(T) + 1
      BY <2>2, <2>6
    <3>2. CASE i < n
      BY <1>1, <1>2, <2>2, <3>1, <3>2
    <3>3. CASE i = n
      BY <2>1, <2>2, <3>1, <3>3, NoStatGood
    <3>4. CASE i > n
      <4>1. N[i] = T[i - 1] /\ i - 1 \in 1 .. Len(T)
        BY <1>1, <1>2, <2>2, <3>1, <3>4
      <4> QED BY <1>1, <4>1
    <3> QED BY <1>2, <3>1, <3>2, <3>3, <3>4
  <2>10. GoodPStates(al)
    BY <2>4, <2>5, <2>8, <2>9 DEF GoodPStates, TableSorted
  <2>11. OpenFreq(al) = OpenFreq(ps)
    <3>1. CASE ps.cur = 0
      BY <2>5, <3>1 DEF OpenFreq
    <3>2. CASE ps.cur # 0 /\ ps.cur < n
      BY <1>1, <1>2, <2>2, <2>4, <2>5, <3>2 DEF OpenFreq, T
    <3>3. CASE ps.cur # 0 /\ ps.cur >= n
      <4>1. /\ al.cur = ps.cur + 1 /\ al.cur \in 1 .. Len(T) + 1
            /\ al.cur > n /\ al.cur - 1 = ps.cur
        BY <1>1, <1>2, <2>4, <3>3
      <4>2. N[al.cur] = T[ps.cur]
        BY <1>2, <2>2, <4>1
      <4> QED BY <2>4, <2>5, <3>3, <4>2 DEF OpenFreq, T
    <3> QED BY <1>1, <1>2, <3>1, <3>2, <3>3
  <2>12. n \in 1 .. Len(N) /\ N[n].freq = f
    BY <1>1, <1>2, <2>1, <2>2
  <2> QED BY <2>4, <2>5, <2>10, <2>11, <2>12 DEF al, n, T
<1> QED BY <1>3, <1>4 DEF al

-----------------------------------------------------------------------------
(* Opening an entry of the table, or none, keeps the record well formed.   *)
LEMMA OpenGood ==
    ASSUME NEW ps, GoodPStates(ps), NEW i \in 0 .. Len(ps.table), NEW t \in Int
    PROVE  /\ GoodPStates(OpenNextPstate(ps, i, t))
           /\ OpenNextPstate(ps, i, t).table = ps.table
           /\ OpenNextPstate(ps, i, t).cur = i
           /\ OpenNextPstate(ps, i, t).idle = ps.idle
           /\ GoodPStates([ps EXCEPT !.cur = i])
           /\ GoodPStates(OpenCurrentPstate(ps, t))
<1>1. /\ ps \in PStatesType
      /\ ps.table \in Seq(PRecordType) /\ ps.cur \in 0 .. Len(ps.table)
      /\ ps.idle \in {-1, 0, 1} /\ ps.enter \in Int
  BY DEF GoodPStates, PStatesType, TableSorted
<1>2. Len(ps.table) \in Nat
  BY <1>1, LenProperties
<1>3. ASSUME NEW c \in 0 .. Len(ps.table), NEW en \in Int
      PROVE  GoodPStates([table |-> ps.table, cur |-> c, idle |-> ps.idle,
                          enter |-> en])
  BY <1>1, <1>2, <1>3 DEF GoodPStates, PStatesType, TableSorted
<1>4. [ps EXCEPT !.cur = i] =
        [table |-> ps.table, cur |-> i, idle |-> ps.idle, enter |-> ps.enter]
  BY <1>1 DEF PStatesType
<1>5. OpenCurrentPstate(ps, t) =
        [table |-> ps.table, cur |-> ps.cur, idle |-> ps.idle, enter |-> t]
  BY <1>1 DEF PStatesType, OpenCurrentPstate
<1>6. OpenNextPstate(ps, i, t) =
        [table |-> ps.table, cur |-> i, idle |-> ps.idle, enter |-> t]
  <2> DEFINE q == [ps EXCEPT !.cur = i]
  <2>1. OpenNextPstate(ps, i, t) = [q EXCEPT !.enter = t]
    BY DEF OpenNextPstate, OpenCurrentPstate
  <2>2. q = [table |-> ps.table, cur |-> i, idle |-> ps.idle, enter |-> ps.enter]
    BY <1>4
  <2> HIDE DEF q
  <2> QED BY <2>1, <2>2
<1>7. /\ GoodPStates(OpenNextPstate(ps, i, t))
      /\ GoodPStates([ps EXCEPT !.cur = i])
      /\ GoodPStates(OpenCurrentPstate(ps, t))
  BY <1>1, <1>3, <1>4, <1>5, <1>6, Zenon
<1> QED BY <1>6, <1>7

(* Marking a CPU idle or running keeps its record well formed.             *)
LEMMA SetIdleGood ==
    ASSUME NEW ps, GoodPStates(ps), NEW b \in {0, 1}
    PROVE  /\ GoodPStates([ps EXCEPT !.idle = b])
           /\ OpenFreq([ps EXCEPT !.idle = b]) = OpenFreq(ps)
BY DEF GoodPStates, PStatesType, TableSorted, OpenFreq

(* Charging the open interval keeps the record well formed: no frequency   *)
(* moves, and the interval is only charged if it lasted                    *)
(* (close_current_pstate).                                                 *)
LEMMA ClosePstateGood ==
    ASSUME NEW ps, GoodPStates(ps), ps.cur # 0, NEW t \in Int
    PROVE  LET cl == CloseCurrentPstate(ps, t)
           IN  /\ GoodPStates(cl)
               /\ cl.cur = ps.cur /\ cl.idle = ps.idle
               /\ Len(cl.table) = Len(ps.table)
               /\ \A i \in 1 .. Len(ps.table) : cl.table[i].freq = ps.table[i].freq
<1> DEFINE cl == CloseCurrentPstate(ps, t)
           T  == ps.table
           c  == ps.cur
           d  == t - ps.enter
           e  == [T[c] EXCEPT !.st = AddTo(@, d)]
           N  == [T EXCEPT ![c] = e]
<1>1. /\ ps \in PStatesType /\ T \in Seq(PRecordType) /\ Len(T) \in Nat
      /\ DOMAIN T = 1 .. Len(T)
      /\ \A i \in 1 .. Len(T) : T[i] \in PRecordType
      /\ c \in 1 .. Len(T) /\ d \in Int
      /\ \A i \in 1 .. Len(T) : Coherent(T[i].st)
  <2>1. T \in Seq(PRecordType) /\ ps \in PStatesType /\ d \in Int
    BY DEF GoodPStates, PStatesType
  <2>2. Len(T) \in Nat /\ DOMAIN T = 1 .. Len(T)
    BY <2>1, LenProperties
  <2>3. \A i \in 1 .. Len(T) : T[i] \in PRecordType
    BY <2>1, ElementOfSeq
  <2> QED BY <2>1, <2>2, <2>3 DEF GoodPStates, TableSorted
<1>2. CASE d <= 0
  BY <1>2 DEF CloseCurrentPstate
<1>3. CASE ~(d <= 0)
  <2>1. d \in Nat \ {0} /\ T[c] \in PRecordType /\ Coherent(T[c].st)
    BY <1>1, <1>3
  <2>2. T[c].st \in StatType
    BY <2>1 DEF PRecordType
  <2>3. AddTo(T[c].st, d) \in StatType /\ Coherent(AddTo(T[c].st, d))
    <3> HIDE DEF T, c, d
    <3> QED BY <2>1, <2>2, AddToType, AddToCoherent
  <2>4. e \in PRecordType /\ e.freq = T[c].freq /\ Coherent(e.st)
    BY <2>1, <2>3 DEF PRecordType
  <2>5. /\ N \in Seq(PRecordType) /\ Len(N) = Len(T) /\ N[c] = e
        /\ \A i \in 1 .. Len(T) : i # c => N[i] = T[i]
    <3> HIDE DEF T, c, e
    <3> QED BY <1>1, <2>4, ExceptSeq
  <2>6. cl = [ps EXCEPT !.table = N]
    BY <1>3 DEF CloseCurrentPstate
  <2> HIDE DEF cl, N, e
  <2>7. /\ cl.table = N /\ cl.cur = c /\ cl.idle = ps.idle
        /\ cl \in PStatesType
    BY <1>1, <2>5, <2>6 DEF PStatesType
  <2>8. /\ \A i \in 1 .. Len(T) : N[i].freq = T[i].freq /\ Coherent(N[i].st)
        /\ DOMAIN N = 1 .. Len(T)
    BY <1>1, <2>4, <2>5, LenProperties
  <2>9. GoodPStates(cl)
    <3>1. \A i, j \in 1 .. Len(T) : i < j => T[i].freq < T[j].freq
      BY <1>1 DEF GoodPStates, TableSorted
    <3> QED BY <1>1, <2>5, <2>7, <2>8, <3>1 DEF GoodPStates, TableSorted
  <2> QED BY <2>5, <2>7, <2>8, <2>9 DEF cl
<1> QED BY <1>1, <1>2, <1>3

(* A core's or cluster's record stays well formed.  It has a frequency     *)
(* open after the call exactly if there is one to open, and that one is    *)
(* never below the one asked for: the index read too early can only        *)
(* confuse a new entry with the next higher one (record_group_freq).       *)
LEMMA RecordGroupFreqGood ==
    ASSUME NEW ps, GoodPStates(ps), NEW t \in Int, NEW f \in Nat
    PROVE  LET r == RecordGroupFreq(ps, t, f)
           IN  /\ GoodPStates(r)
               /\ r.cur # 0 <=> f > 0
               /\ OpenFreq(r) >= f
               /\ r.idle = ps.idle
<1> DEFINE cur    == ps.cur
           al     == IF f > 0 THEN AllocPstate(ps, f) ELSE ps
           next   == IF f > 0 THEN Position(ps.table, f) ELSE 0
           closed == CloseCurrentPstate(al, t)
           r      == RecordGroupFreq(ps, t, f)
<1>1. /\ GoodPStates(al) /\ next \in 0 .. Len(al.table)
      /\ next = 0 <=> f = 0
      /\ f > 0 => al.table[next].freq = f
      /\ al.cur = 0 <=> cur = 0
      /\ OpenFreq(al) = OpenFreq(ps) /\ al.idle = ps.idle
  <2>1. CASE f > 0
    <3>1. al = AllocPstate(ps, f) /\ next = Position(ps.table, f)
      BY <2>1
    <3>2. next \in 1 .. Len(al.table)
      BY <3>1, AllocPstateGood
    <3>3. Len(al.table) \in Nat
      <4>1. GoodPStates(al)
        BY <3>1, AllocPstateGood
      <4> QED BY <4>1, LenProperties DEF GoodPStates, PStatesType
    <3>4. next # 0 /\ next \in 0 .. Len(al.table)
      BY <3>2, <3>3
    <3>5. /\ GoodPStates(al) /\ al.table[next].freq = f
          /\ al.cur = 0 <=> cur = 0
          /\ OpenFreq(al) = OpenFreq(ps) /\ al.idle = ps.idle
      BY <3>1, AllocPstateGood
    <3> QED BY <2>1, <3>4, <3>5
  <2>2. CASE f = 0
    <3>1. Len(ps.table) \in Nat
      BY LenProperties DEF GoodPStates, PStatesType
    <3> QED BY <2>2, <3>1
  <2> QED BY <2>1, <2>2
<1>2. r = IF cur = next THEN al
          ELSE IF cur = 0 THEN OpenNextPstate(al, next, t)
          ELSE IF next = 0 THEN [closed EXCEPT !.cur = 0]
          ELSE OpenNextPstate(closed, next, t)
  BY DEF RecordGroupFreq
<1>3. CASE cur = next
  <2>1. OpenFreq(ps) >= f
    <3>1. CASE f = 0
      <4>1. OpenFreq(ps) = 0
        BY <1>1, <1>3, <3>1 DEF OpenFreq
      <4> QED BY <3>1, <4>1
    <3>2. CASE f > 0
      <4>1. ps.table \in Seq(PRecordType) /\ cur \in 0 .. Len(ps.table)
        BY DEF GoodPStates, PStatesType, TableSorted
      <4>2. cur = Position(ps.table, f) /\ cur # 0
        BY <1>1, <1>3, <3>2
      <4>3. Len(ps.table) \in Nat
        BY <4>1, LenProperties
      <4>4. cur <= Len(ps.table)
        BY <4>1, <4>3
      <4>5. f <= ps.table[cur].freq
        BY <4>1, <4>2, <4>4, PositionProperties
      <4>6. OpenFreq(ps) = ps.table[cur].freq
        BY <4>2 DEF OpenFreq
      <4>7. ps.table[cur].freq \in Nat
        <5>1. cur \in 1 .. Len(ps.table)
          BY <4>1, <4>2, <4>3
        <5>2. ps.table[cur] \in PRecordType
          BY <4>1, <5>1, ElementOfSeq
        <5> QED BY <5>2 DEF PRecordType
      <4> QED BY <4>5, <4>6, <4>7
    <3> QED BY <3>1, <3>2
  <2> HIDE DEF al, next, r
  <2> QED BY <1>1, <1>2, <1>3, <2>1 DEF r
<1>4. CASE cur # next /\ cur = 0
  <2>1. r = OpenNextPstate(al, next, t) /\ next # 0
    BY <1>2, <1>4
  <2> HIDE DEF al, next, r, cur
  <2>2. /\ GoodPStates(r) /\ r.cur = next /\ r.table = al.table
        /\ r.idle = al.idle
    BY <1>1, <2>1, OpenGood
  <2> QED BY <1>1, <2>1, <2>2 DEF OpenFreq, r
<1>5. CASE cur # next /\ cur # 0
  <2>1. /\ GoodPStates(closed) /\ closed.idle = al.idle
        /\ Len(closed.table) = Len(al.table)
        /\ \A i \in 1 .. Len(al.table) : closed.table[i].freq = al.table[i].freq
    <3> HIDE DEF al
    <3> QED BY <1>1, <1>5, ClosePstateGood
  <2>2. Len(closed.table) \in Nat
    BY <2>1, LenProperties DEF GoodPStates, PStatesType
  <2>3. r = IF next = 0 THEN [closed EXCEPT !.cur = 0]
                        ELSE OpenNextPstate(closed, next, t)
    BY <1>2, <1>5
  <2> HIDE DEF al, next, closed, r, cur
  <2>4. CASE next = 0
    <3>1. r = [closed EXCEPT !.cur = 0]
      BY <2>3, <2>4
    <3>2. GoodPStates(r)
      BY <2>1, <2>2, <3>1, OpenGood
    <3>3. r.cur = 0 /\ r.idle = closed.idle
      BY <2>1, <3>1 DEF GoodPStates, PStatesType
    <3> QED BY <1>1, <2>1, <2>4, <3>2, <3>3 DEF OpenFreq, r
  <2>5. CASE next # 0
    <3>1. r = OpenNextPstate(closed, next, t)
      BY <2>3, <2>5
    <3>2. next \in 0 .. Len(closed.table)
      BY <1>1, <2>1
    <3>3. /\ GoodPStates(r) /\ r.cur = next /\ r.table = closed.table
          /\ r.idle = closed.idle
      BY <2>1, <3>1, <3>2, OpenGood
    <3>4. next \in 1 .. Len(al.table)
      BY <1>1, <2>5
    <3> QED BY <1>1, <2>1, <2>5, <3>3, <3>4 DEF OpenFreq, r
  <2> QED BY <2>4, <2>5
<1> QED BY <1>3, <1>4, <1>5

-----------------------------------------------------------------------------
(* A CPU that goes idle or starts to run keeps its record well formed      *)
(* (cpu_pstate_idle, cpu_pstate_running).                                  *)
LEMMA PstateIdleGood ==
    ASSUME NEW ps, GoodPStates(ps), NEW t \in Int
    PROVE  GoodPStates(PstateIdle(ps, t)) /\ PstateIdle(ps, t).idle = 1
<1> DEFINE q == IF ps.cur # 0 THEN CloseCurrentPstate(ps, t) ELSE ps
<1>1. GoodPStates(q)
  BY ClosePstateGood
<1>2. PstateIdle(ps, t) = [q EXCEPT !.idle = 1]
  BY DEF PstateIdle
<1> HIDE DEF q
<1>3. [q EXCEPT !.idle = 1].idle = 1
  BY <1>1 DEF GoodPStates, PStatesType
<1> QED BY <1>1, <1>2, <1>3, SetIdleGood

LEMMA PstateRunningGood ==
    ASSUME NEW ps, GoodPStates(ps), NEW t \in Int
    PROVE  GoodPStates(PstateRunning(ps, t)) /\ PstateRunning(ps, t).idle = 0
<1> DEFINE q == IF ps.cur # 0 THEN OpenCurrentPstate(ps, t) ELSE ps
<1>1. GoodPStates(q)
  <2>1. ps.cur \in 0 .. Len(ps.table)
    BY DEF GoodPStates, TableSorted
  <2> QED BY <2>1, OpenGood
<1>2. PstateRunning(ps, t) = [q EXCEPT !.idle = 0]
  BY DEF PstateRunning
<1> HIDE DEF q
<1>3. [q EXCEPT !.idle = 0].idle = 0
  BY <1>1 DEF GoodPStates, PStatesType
<1> QED BY <1>1, <1>2, <1>3, SetIdleGood

(* A CPU's frequency change keeps its record well formed, whether it is    *)
(* idle, running, or not yet known to be either (cpu_change_pstate).       *)
LEMMA ChangePstateGood ==
    ASSUME NEW ps, GoodPStates(ps), NEW f \in Nat, NEW t \in Int
    PROVE  /\ GoodPStates(ChangePstate(ps, f, t))
           /\ ChangePstate(ps, f, t).idle = ps.idle
<1> DEFINE al   == AllocPstate(ps, f)
           next == Position(ps.table, f)
           q    == IF al.cur # 0 THEN CloseCurrentPstate(al, t) ELSE al
<1>1. GoodPStates(al) /\ al.idle = ps.idle /\ next \in 1 .. Len(al.table)
  BY AllocPstateGood
<1>2. Len(al.table) \in Nat /\ next \in 0 .. Len(al.table)
  <2>1. Len(al.table) \in Nat
    BY <1>1, LenProperties DEF GoodPStates, PStatesType
  <2> QED BY <1>1, <2>1
<1>3. GoodPStates(q) /\ q.idle = ps.idle /\ Len(q.table) = Len(al.table)
  <2> HIDE DEF al
  <2> QED BY <1>1, ClosePstateGood
<1>4. ps.idle \in {-1, 0, 1}
  BY DEF GoodPStates, PStatesType
<1>5. CASE ps.idle = 1
  <2>1. ChangePstate(ps, f, t) = [al EXCEPT !.cur = next]
    BY <1>5 DEF ChangePstate
  <2> HIDE DEF al, next
  <2>2. [al EXCEPT !.cur = next].idle = al.idle
    BY <1>1 DEF GoodPStates, PStatesType
  <2> QED BY <1>1, <1>2, <2>1, <2>2, OpenGood
<1>6. CASE ps.idle = -1
  <2>1. ChangePstate(ps, f, t) = OpenNextPstate(al, next, t)
    BY <1>6 DEF ChangePstate
  <2> HIDE DEF al, next, q
  <2>2. /\ GoodPStates(OpenNextPstate(al, next, t))
        /\ OpenNextPstate(al, next, t).idle = al.idle
    BY <1>1, <1>2, OpenGood
  <2> QED BY <1>1, <2>1, <2>2
<1>7. CASE ps.idle = 0
  <2>1. ChangePstate(ps, f, t) = OpenNextPstate(q, next, t)
    BY <1>7 DEF ChangePstate
  <2> HIDE DEF al, next, q
  <2>2. next \in 0 .. Len(q.table)
    BY <1>2, <1>3
  <2>3. /\ GoodPStates(OpenNextPstate(q, next, t))
        /\ OpenNextPstate(q, next, t).idle = q.idle
    BY <1>3, <2>2, OpenGood
  <2> QED BY <1>3, <2>1, <2>3
<1> QED BY <1>4, <1>5, <1>6, <1>7

-----------------------------------------------------------------------------
(* What the functions do to the statistics.                                *)

(* What GoodPStates says of a record's table.                              *)
LEMMA TableFacts ==
    ASSUME NEW ps, GoodPStates(ps)
    PROVE  /\ ps.table \in Seq(PRecordType) /\ Len(ps.table) \in Nat
           /\ DOMAIN ps.table = 1 .. Len(ps.table)
           /\ \A i \in 1 .. Len(ps.table) :
                 ps.table[i] \in PRecordType /\ ps.table[i].freq \in Nat
           /\ \A i, j \in 1 .. Len(ps.table) :
                 i < j => ps.table[i].freq < ps.table[j].freq
<1>1. ps.table \in Seq(PRecordType)
  BY DEF GoodPStates, PStatesType
<1>2. Len(ps.table) \in Nat /\ DOMAIN ps.table = 1 .. Len(ps.table)
  BY <1>1, LenProperties
<1>3. \A i \in 1 .. Len(ps.table) : ps.table[i] \in PRecordType
  BY <1>1, ElementOfSeq
<1> QED BY <1>1, <1>2, <1>3 DEF GoodPStates, TableSorted, PRecordType

(* A frequency has one row, so its statistics are that row's.              *)
LEMMA StatOfRow ==
    ASSUME NEW ps, GoodPStates(ps), NEW i \in DOMAIN ps.table
    PROVE  StatOf(ps, ps.table[i].freq) = ps.table[i].st
<1> DEFINE T == ps.table
           k == CHOOSE j \in DOMAIN T : T[j].freq = T[i].freq
<1>1. k \in DOMAIN T /\ T[k].freq = T[i].freq
  OBVIOUS
<1>2. k = i
  <2> HIDE DEF k
  <2>1. i \in 1 .. Len(T) /\ k \in 1 .. Len(T) /\ Len(T) \in Nat
    BY <1>1, TableFacts
  <2>2. ~(k < i) /\ ~(i < k)
    BY <1>1, <2>1, TableFacts
  <2> QED BY <2>1, <2>2
<1>3. T[i].freq \in Freqs(ps)
  BY DEF Freqs
<1> QED BY <1>2, <1>3 DEF StatOf

(* The table after the call: the same, or with a row for f inserted.       *)
LEMMA AllocPstateTable ==
    ASSUME NEW ps, GoodPStates(ps), NEW f \in Nat
    PROVE  LET T == ps.table
               N == AllocPstate(ps, f).table
               n == Position(T, f)
           IN  \/ N = T /\ f \in Freqs(ps)
               \/ /\ n \in 1 .. Len(T) + 1 /\ Len(N) = Len(T) + 1
                  /\ f \notin Freqs(ps)
                  /\ \A j \in 1 .. Len(T) + 1 : N[j] =
                        IF j < n THEN T[j]
                        ELSE IF j = n THEN [freq |-> f, st |-> NoStat]
                        ELSE T[j - 1]
<1> DEFINE T == ps.table
           N == AllocPstate(ps, f).table
           n == Position(T, f)
           e == [freq |-> f, st |-> NoStat]
<1>1. /\ T \in Seq(PRecordType) /\ Len(T) \in Nat /\ DOMAIN T = 1 .. Len(T)
      /\ \A i \in 1 .. Len(T) : T[i].freq \in Nat
      /\ \A i, j \in 1 .. Len(T) : i < j => T[i].freq < T[j].freq
  BY TableFacts
<1>2. /\ n \in 1 .. Len(T) + 1
      /\ n <= Len(T) => f <= T[n].freq
      /\ \A j \in 1 .. n - 1 : T[j].freq < f
  BY <1>1, PositionProperties
<1>3. CASE HasFreq(T, n, f)
  <2>1. N = T
    BY <1>3 DEF AllocPstate
  <2>2. n \in DOMAIN T /\ T[n].freq = f
    BY <1>1, <1>2, <1>3 DEF HasFreq
  <2> QED BY <2>1, <2>2 DEF Freqs
<1>4. CASE ~HasFreq(T, n, f)
  <2>1. e \in PRecordType
    BY NoStatGood DEF PRecordType
  <2>2. N = InsertAt(T, n, e)
    <3>1. ps \in PStatesType
      BY DEF GoodPStates
    <3> QED BY <1>4, <3>1 DEF AllocPstate, PStatesType
  <2> HIDE DEF T, N, n, e
  <2>3. /\ Len(InsertAt(T, n, e)) = Len(T) + 1
        /\ \A j \in 1 .. Len(T) + 1 : InsertAt(T, n, e)[j] =
              IF j < n THEN T[j] ELSE IF j = n THEN e ELSE T[j - 1]
    <3>1. Len(InsertAt(T, n, e)) = Len(T) + 1
      BY <1>1, <1>2, <2>1, InsertAtProperties
    <3>2. \A j \in 1 .. Len(T) + 1 : InsertAt(T, n, e)[j] =
              IF j < n THEN T[j] ELSE IF j = n THEN e ELSE T[j - 1]
      BY <1>1, <1>2, <2>1, InsertAtProperties
    <3> QED BY <3>1, <3>2
  <2>4. ASSUME NEW j \in 1 .. Len(T)
        PROVE  T[j].freq # f
    <3>1. CASE j < n
      BY <1>1, <1>2, <3>1
    <3>2. CASE j = n
      BY <1>4, <3>2 DEF HasFreq
    <3>3. CASE n < j
      <4>1. n \in 1 .. Len(T) /\ T[n].freq < T[j].freq /\ f <= T[n].freq
        BY <1>1, <1>2, <3>3
      <4>2. T[n].freq \in Nat /\ T[j].freq \in Nat
        BY <1>1, <4>1
      <4> QED BY <4>1, <4>2
    <3> QED BY <1>2, <3>1, <3>2, <3>3
  <2>5. f \notin Freqs(ps)
    BY <1>1, <2>4 DEF Freqs, T
  <2> QED BY <1>2, <2>2, <2>3, <2>5 DEF T, N, n, e
<1> QED BY <1>3, <1>4

(* The call adds f to the frequencies and nothing else; what was measured  *)
(* at any frequency stays, and f starts without hits.                      *)
LEMMA AllocPstateAdds ==
    ASSUME NEW ps, GoodPStates(ps), NEW f \in Nat
    PROVE  /\ Freqs(AllocPstate(ps, f)) = Freqs(ps) \cup {f}
           /\ \A g \in Freqs(AllocPstate(ps, f)) :
                 StatOf(AllocPstate(ps, f), g) = StatOf(ps, g)
<1> DEFINE al == AllocPstate(ps, f)
           T  == ps.table
           N  == al.table
           n  == Position(T, f)
           e  == [freq |-> f, st |-> NoStat]
<1>1. GoodPStates(al)
  BY AllocPstateGood
<1>2. /\ Len(T) \in Nat /\ DOMAIN T = 1 .. Len(T)
      /\ Len(N) \in Nat /\ DOMAIN N = 1 .. Len(N)
  <2> HIDE DEF al
  <2> QED BY <1>1, TableFacts
<1>3. CASE N = T /\ f \in Freqs(ps)
  <2> HIDE DEF al
  <2>1. Freqs(al) = Freqs(ps)
    BY <1>3 DEF Freqs
  <2>2. \A g : StatOf(al, g) = StatOf(ps, g)
    BY <1>3, <2>1 DEF StatOf
  <2> QED BY <1>3, <2>1, <2>2 DEF al
<1>4. CASE /\ n \in 1 .. Len(T) + 1 /\ Len(N) = Len(T) + 1
           /\ f \notin Freqs(ps)
           /\ \A j \in 1 .. Len(T) + 1 : N[j] =
                 IF j < n THEN T[j] ELSE IF j = n THEN e ELSE T[j - 1]
  <2>1. e.freq = f /\ e.st = NoStat
    OBVIOUS
  <2>2. StatOf(ps, f) = NoStat
    BY <1>4 DEF StatOf
  <2> HIDE DEF al, T, N, n, e
  <2>3. ASSUME NEW j \in DOMAIN N
        PROVE  \/ N[j] = e
               \/ \E i \in DOMAIN T : N[j] = T[i]
    <3>1. CASE j < n
      BY <1>2, <1>4, <3>1
    <3>2. CASE j = n
      BY <1>2, <1>4, <3>2
    <3>3. CASE n < j
      <4>1. j - 1 \in DOMAIN T /\ N[j] = T[j - 1]
        BY <1>2, <1>4, <3>3
      <4> QED BY <4>1
    <3> QED BY <1>2, <1>4, <3>1, <3>2, <3>3
  <2>4. ASSUME NEW i \in DOMAIN T
        PROVE  \E j \in DOMAIN N : N[j] = T[i]
    <3>1. CASE i < n
      BY <1>2, <1>4, <3>1
    <3>2. CASE n <= i
      <4>1. i + 1 \in DOMAIN N /\ N[i + 1] = T[i]
        BY <1>2, <1>4, <3>2
      <4> QED BY <4>1
    <3> QED BY <1>2, <1>4, <3>1, <3>2
  <2>5. n \in DOMAIN N /\ N[n] = e
    BY <1>2, <1>4
  <2>6. Freqs(al) = Freqs(ps) \cup {f}
    <3>1. Freqs(al) = {N[j].freq : j \in DOMAIN N} /\ Freqs(ps) = {T[i].freq : i \in DOMAIN T}
      BY DEF Freqs, N, T
    <3>2. Freqs(al) \subseteq Freqs(ps) \cup {f}
      BY <2>1, <2>3, <3>1
    <3>3. Freqs(ps) \subseteq Freqs(al)
      BY <2>4, <3>1
    <3>4. f \in Freqs(al)
      BY <2>1, <2>5, <3>1
    <3> QED BY <3>2, <3>3, <3>4
  <2>7. ASSUME NEW g \in Freqs(al)
        PROVE  StatOf(al, g) = StatOf(ps, g)
    <3>1. PICK j \in DOMAIN N : g = N[j].freq
      BY DEF Freqs, N
    <3>2. StatOf(al, g) = N[j].st
      BY <1>1, <3>1, StatOfRow DEF N
    <3>3. CASE N[j] = e
      BY <2>1, <2>2, <3>1, <3>2, <3>3
    <3>4. CASE \E i \in DOMAIN T : N[j] = T[i]
      <4>1. PICK i \in DOMAIN T : N[j] = T[i]
        BY <3>4
      <4>2. StatOf(ps, T[i].freq) = T[i].st
        BY StatOfRow DEF T
      <4> QED BY <3>1, <3>2, <4>1, <4>2
    <3> QED BY <2>3, <3>3, <3>4
  <2> QED BY <2>6, <2>7 DEF al
<1> QED BY <1>3, <1>4, AllocPstateTable

(* From p to q no frequency is lost, and only the one that is open in p    *)
(* may have been charged.                                                  *)
ChargesOpen(p, q) ==
    /\ Freqs(p) \subseteq Freqs(q)
    /\ \A f \in Freqs(q) : \/ StatOf(q, f) = StatOf(p, f)
                           \/ p.cur # 0 /\ OpenFreq(p) = f

(* Frequencies and statistics are those of the table.                      *)
LEMMA SameTable ==
    ASSUME NEW p, NEW q, p.table = q.table
    PROVE  Freqs(p) = Freqs(q) /\ \A f : StatOf(p, f) = StatOf(q, f)
BY DEF Freqs, StatOf

(* close_current_pstate charges the open frequency.                        *)
LEMMA CloseCharges ==
    ASSUME NEW ps, GoodPStates(ps), ps.cur # 0, NEW t \in Int
    PROVE  LET cl == CloseCurrentPstate(ps, t)
           IN  /\ Freqs(cl) = Freqs(ps)
               /\ \A f \in Freqs(cl) : StatOf(cl, f) = StatOf(ps, f) \/ OpenFreq(ps) = f
<1> DEFINE cl == CloseCurrentPstate(ps, t)
           T  == ps.table
           C  == cl.table
<1>1. /\ GoodPStates(cl) /\ Len(C) = Len(T)
      /\ \A i \in 1 .. Len(T) : C[i].freq = T[i].freq
  BY ClosePstateGood
<1>2. DOMAIN T = 1 .. Len(T) /\ DOMAIN C = 1 .. Len(T)
  <2>1. DOMAIN C = 1 .. Len(C)
    <3> HIDE DEF cl
    <3> QED BY <1>1, TableFacts
  <2> QED BY <1>1, <2>1, TableFacts
<1>3. \A i \in DOMAIN T : i # ps.cur => C[i] = T[i]
  <2>1. CASE t - ps.enter <= 0
    BY <2>1 DEF CloseCurrentPstate
  <2>2. CASE ~(t - ps.enter <= 0)
    <3>1. C = [T EXCEPT ![ps.cur].st = AddTo(@, t - ps.enter)]
      BY <2>2 DEF CloseCurrentPstate, GoodPStates, PStatesType
    <3> HIDE DEF C, T
    <3> QED BY <3>1
  <2> QED BY <2>1, <2>2
<1> HIDE DEF cl
<1>4. Freqs(cl) = Freqs(ps)
  BY <1>1, <1>2 DEF Freqs
<1>5. ASSUME NEW f \in Freqs(cl)
      PROVE  StatOf(cl, f) = StatOf(ps, f) \/ OpenFreq(ps) = f
  <2>1. PICK i \in DOMAIN C : f = C[i].freq
    BY DEF Freqs
  <2>2. StatOf(cl, f) = C[i].st /\ StatOf(ps, f) = T[i].st /\ f = T[i].freq
    <3>1. StatOf(cl, f) = C[i].st
      BY <1>1, <2>1, StatOfRow
    <3>2. i \in DOMAIN T /\ f = T[i].freq
      BY <1>1, <1>2, <2>1
    <3> QED BY <3>1, <3>2, StatOfRow
  <2>3. CASE i = ps.cur
    BY <2>2, <2>3 DEF OpenFreq
  <2>4. CASE i # ps.cur
    BY <1>2, <1>3, <2>2, <2>4
  <2> QED BY <2>3, <2>4
<1> QED BY <1>4, <1>5 DEF cl

(* What every function on a record comes to: perhaps alloc_pstate, perhaps *)
(* close_current_pstate, and then only `current', `enter' or `idle'.       *)
LEMMA AllocCloseCharges ==
    ASSUME NEW ps, GoodPStates(ps), NEW t \in Int, NEW f \in Nat,
           NEW al, al = ps \/ al = AllocPstate(ps, f),
           NEW q, \/ q.table = al.table
                  \/ al.cur # 0 /\ q.table = CloseCurrentPstate(al, t).table
    PROVE  ChargesOpen(ps, q)
<1>1. /\ GoodPStates(al) /\ Freqs(ps) \subseteq Freqs(al)
      /\ \A g \in Freqs(al) : StatOf(al, g) = StatOf(ps, g)
      /\ OpenFreq(al) = OpenFreq(ps) /\ (al.cur = 0 <=> ps.cur = 0)
  <2>1. CASE al = ps
    BY <2>1
  <2>2. CASE al = AllocPstate(ps, f)
    BY <2>2, AllocPstateGood, AllocPstateAdds
  <2> QED BY <2>1, <2>2
<1>2. CASE q.table = al.table
  <2>1. Freqs(q) = Freqs(al) /\ \A g : StatOf(q, g) = StatOf(al, g)
    BY <1>2, SameTable
  <2> QED BY <1>1, <2>1 DEF ChargesOpen
<1>3. CASE al.cur # 0 /\ q.table = CloseCurrentPstate(al, t).table
  <2> DEFINE cl == CloseCurrentPstate(al, t)
  <2>1. /\ Freqs(cl) = Freqs(al)
        /\ \A g \in Freqs(cl) : StatOf(cl, g) = StatOf(al, g) \/ OpenFreq(al) = g
    BY <1>1, <1>3, CloseCharges
  <2>2. Freqs(q) = Freqs(cl) /\ \A g : StatOf(q, g) = StatOf(cl, g)
    BY <1>3, SameTable
  <2> HIDE DEF cl
  <2> QED BY <1>1, <1>3, <2>1, <2>2 DEF ChargesOpen
<1> QED BY <1>2, <1>3

(* ... and so do they all.                                                 *)
LEMMA FunctionsChargeOpen ==
    ASSUME NEW ps, GoodPStates(ps), NEW t \in Int, NEW f \in Nat
    PROVE  /\ ChargesOpen(ps, ps)
           /\ ChargesOpen(ps, PstateIdle(ps, t))
           /\ ChargesOpen(ps, PstateRunning(ps, t))
           /\ ChargesOpen(ps, ChangePstate(ps, f, t))
           /\ ChargesOpen(ps, RecordGroupFreq(ps, t, f))
<1> DEFINE al == AllocPstate(ps, f)
<1>1. ps \in PStatesType /\ al \in PStatesType
  BY AllocPstateGood DEF GoodPStates
<1>2. ASSUME NEW p \in PStatesType, NEW x
      PROVE  /\ [p EXCEPT !.idle = x].table = p.table
             /\ [p EXCEPT !.cur = x].table = p.table
             /\ OpenCurrentPstate(p, x).table = p.table
  BY DEF OpenCurrentPstate, PStatesType
<1>3. ASSUME NEW p \in PStatesType, NEW i
      PROVE  OpenNextPstate(p, i, t).table = p.table
  BY DEF OpenNextPstate, OpenCurrentPstate, PStatesType
<1>4. ASSUME NEW p, GoodPStates(p), p.cur # 0
      PROVE  CloseCurrentPstate(p, t) \in PStatesType
  BY <1>4, ClosePstateGood DEF GoodPStates
<1>5. ChargesOpen(ps, PstateIdle(ps, t))
  <2>1. \/ PstateIdle(ps, t).table = ps.table
        \/ ps.cur # 0 /\ PstateIdle(ps, t).table = CloseCurrentPstate(ps, t).table
    BY <1>1, <1>2, <1>4 DEF PstateIdle
  <2> QED BY <2>1, AllocCloseCharges
<1>6. ChargesOpen(ps, PstateRunning(ps, t))
  <2>1. PstateRunning(ps, t).table = ps.table
    BY <1>1, <1>2 DEF PstateRunning, OpenCurrentPstate, PStatesType
  <2> QED BY <2>1, AllocCloseCharges
<1>7. GoodPStates(al)
  BY AllocPstateGood
<1>8. ChargesOpen(ps, ChangePstate(ps, f, t))
  <2>1. \/ ChangePstate(ps, f, t).table = al.table
        \/ al.cur # 0 /\ ChangePstate(ps, f, t).table = CloseCurrentPstate(al, t).table
    <3>1. ps.idle \in {-1, 0, 1}
      BY <1>1 DEF PStatesType
    <3> DEFINE next == Position(ps.table, f)
    <3> HIDE DEF al, next
    <3> QED BY <1>1, <1>2, <1>3, <1>4, <1>7, <3>1 DEF ChangePstate, al, next
  <2> QED BY <2>1, AllocCloseCharges
<1>9. ChargesOpen(ps, RecordGroupFreq(ps, t, f))
  <2> DEFINE a == IF f > 0 THEN al ELSE ps
             r == RecordGroupFreq(ps, t, f)
  <2>1. GoodPStates(a) /\ (a.cur = 0 <=> ps.cur = 0) /\ a \in PStatesType
    BY <1>1, <1>7, AllocPstateGood
  <2>2. r.table = a.table \/ (a.cur # 0 /\ r.table = CloseCurrentPstate(a, t).table)
    <3> DEFINE next   == IF f > 0 THEN Position(ps.table, f) ELSE 0
               closed == CloseCurrentPstate(a, t)
    <3>1. r = IF ps.cur = next THEN a
              ELSE IF ps.cur = 0 THEN OpenNextPstate(a, next, t)
              ELSE IF next = 0 THEN [closed EXCEPT !.cur = 0]
              ELSE OpenNextPstate(closed, next, t)
      BY DEF RecordGroupFreq
    <3>2. a.cur # 0 => closed \in PStatesType
      <4> HIDE DEF a
      <4> QED BY <1>4, <2>1
    <3> HIDE DEF a, r, next, closed
    <3> QED BY <1>2, <1>3, <2>1, <3>1, <3>2 DEF closed
  <2> QED BY <2>2, AllocCloseCharges
<1>10. ChargesOpen(ps, ps)
  BY DEF ChargesOpen
<1> QED BY <1>5, <1>6, <1>8, <1>9, <1>10

(* Without an insertion the frequency open afterwards is the one asked     *)
(* for: the early index is right as long as nothing moves.                 *)
LEMMA RecordGroupFreqFollows ==
    ASSUME NEW ps, GoodPStates(ps), NEW t \in Int, NEW f \in Nat
    PROVE  LET r == RecordGroupFreq(ps, t, f)
           IN  OpenFreq(r) = f \/ Len(r.table) > Len(ps.table)
<1> DEFINE cur    == ps.cur
           al     == AllocPstate(ps, f)
           next   == Position(ps.table, f)
           closed == CloseCurrentPstate(al, t)
           r      == RecordGroupFreq(ps, t, f)
<1>1. CASE f = 0
  <2>1. r.cur = 0
    BY <1>1, RecordGroupFreqGood
  <2> QED BY <1>1, <2>1 DEF OpenFreq
<1>2. CASE f > 0
  <2>1. /\ GoodPStates(al) /\ next \in 1 .. Len(al.table)
        /\ al.table[next].freq = f
        /\ al.cur = 0 <=> cur = 0
        /\ OpenFreq(al) = OpenFreq(ps)
    BY AllocPstateGood
  <2>2. Len(al.table) = Len(ps.table) + 1 \/ al.table = ps.table
    BY AllocPstateTable
  <2>3. Len(ps.table) \in Nat /\ Len(al.table) \in Nat /\ next # 0
    BY <2>1, TableFacts
  <2>4. r = IF cur = next THEN al
            ELSE IF cur = 0 THEN OpenNextPstate(al, next, t)
            ELSE OpenNextPstate(closed, next, t)
    BY <1>2, <2>3 DEF RecordGroupFreq
  <2>5. CASE cur = next
    <3>1. r = al
      BY <2>4, <2>5
    <3>2. OpenFreq(ps) = ps.table[cur].freq
      BY <2>3, <2>5 DEF OpenFreq
    <3> HIDE DEF al, next, r, cur
    <3>3. CASE al.table = ps.table
      BY <2>1, <2>5, <3>1, <3>2, <3>3 DEF r
    <3> QED BY <2>2, <2>3, <3>1, <3>3 DEF r
  <2>6. CASE cur # next
    <3>1. CASE cur = 0
      <4> HIDE DEF al, next, closed, r, cur
      <4>1. r = OpenNextPstate(al, next, t) /\ next \in 0 .. Len(al.table)
        BY <2>1, <2>3, <2>4, <2>6, <3>1
      <4>2. r.cur = next /\ r.table = al.table
        BY <2>1, <4>1, OpenGood
      <4> QED BY <2>1, <2>3, <4>2 DEF OpenFreq, r
    <3>2. CASE cur # 0
      <4>1. al.cur # 0
        BY <2>1, <3>2
      <4> HIDE DEF al, next, r, cur
      <4>2. /\ GoodPStates(closed) /\ Len(closed.table) = Len(al.table)
            /\ closed.table[next].freq = al.table[next].freq
        BY <2>1, <4>1, ClosePstateGood
      <4> HIDE DEF closed
      <4>3. r = OpenNextPstate(closed, next, t) /\ next \in 0 .. Len(closed.table)
        BY <2>1, <2>3, <2>4, <2>6, <3>2, <4>2
      <4>4. r.cur = next /\ r.table = closed.table
        BY <4>2, <4>3, OpenGood
      <4> QED BY <2>1, <2>3, <4>2, <4>4 DEF OpenFreq, r
    <3> QED BY <3>1, <3>2
  <2> QED BY <2>5, <2>6
<1> QED BY <1>1, <1>2

-----------------------------------------------------------------------------
(* The time a record accounts for: what all frequencies were charged, and  *)
(* what is still open at time t.                                           *)
TableTime(table) ==
    SumFunctionOnSet([i \in DOMAIN table |-> table[i].st.sum], DOMAIN table)

Elapsed(ps, t) == IF ps.cur = 0 \/ ps.idle = 1 THEN 0 ELSE t - ps.enter

Busy(ps, t) == TableTime(ps.table) + Elapsed(ps, t)

LEMMA TableTimeType ==
    ASSUME NEW ps, GoodPStates(ps)
    PROVE  /\ TableTime(ps.table) \in Nat
           /\ IsFiniteSet(DOMAIN ps.table)
           /\ \A i \in DOMAIN ps.table : ps.table[i].st.sum \in Nat
<1> DEFINE T == ps.table
           h == [i \in DOMAIN T |-> T[i].st.sum]
<1>1. \A i \in DOMAIN T : T[i].st.sum \in Nat
  BY TableFacts DEF PRecordType, StatType
<1>2. IsFiniteSet(DOMAIN T)
  <2>1. DOMAIN T = 1 .. Len(T) /\ Len(T) \in Nat
    BY TableFacts
  <2> QED BY <2>1, FS_Interval
<1>3. \A i \in DOMAIN T : h[i] \in Nat
  BY <1>1
<1>4. SumFunctionOnSet(h, DOMAIN T) \in Nat
  <2> HIDE DEF h, T
  <2> QED BY <1>2, <1>3, SumNat
<1> QED BY <1>1, <1>2, <1>4 DEF TableTime

(* A row inserted for a new frequency has no time; the others are only     *)
(* renumbered (alloc_pstate).                                              *)
LEMMA AllocPstateKeepsTime ==
    ASSUME NEW ps, GoodPStates(ps), NEW f \in Nat
    PROVE  TableTime(AllocPstate(ps, f).table) = TableTime(ps.table)
<1> DEFINE al == AllocPstate(ps, f)
           T  == ps.table
           N  == al.table
           n  == Position(T, f)
           h  == [i \in DOMAIN T |-> T[i].st.sum]
           g  == [i \in DOMAIN N |-> N[i].st.sum]
           m  == [i \in DOMAIN T |-> IF i < n THEN i ELSE i + 1]
<1>1. CASE N = T
  BY <1>1
<1>2. CASE /\ n \in 1 .. Len(T) + 1 /\ Len(N) = Len(T) + 1
           /\ \A j \in 1 .. Len(T) + 1 : N[j] =
                 IF j < n THEN T[j]
                 ELSE IF j = n THEN [freq |-> f, st |-> NoStat] ELSE T[j - 1]
  <2>1. GoodPStates(al)
    BY AllocPstateGood
  <2>2. DOMAIN T = 1 .. Len(T) /\ Len(T) \in Nat
    BY TableFacts
  <2>3. DOMAIN N = 1 .. Len(T) + 1
    <3> HIDE DEF al
    <3> QED BY <1>2, <2>1, TableFacts
  <2>4. /\ IsFiniteSet(DOMAIN T) /\ \A i \in DOMAIN T : h[i] \in Int
        /\ IsFiniteSet(DOMAIN N) /\ \A i \in DOMAIN N : g[i] \in Int
    <3> HIDE DEF al
    <3> QED BY <2>1, TableTimeType
  <2>5. n \in DOMAIN N /\ g[n] = 0
    <3>1. n \in DOMAIN N /\ N[n] = [freq |-> f, st |-> NoStat]
      BY <1>2, <2>2, <2>3
    <3> QED BY <3>1 DEF NoStat
  <2>6. \A i \in DOMAIN T : g[m[i]] = h[i]
    <3> TAKE i \in DOMAIN T
    <3>1. CASE i < n
      <4>1. m[i] = i /\ i \in 1 .. Len(T) + 1
        BY <2>2, <3>1
      <4>2. N[i] = T[i]
        BY <1>2, <3>1, <4>1
      <4> QED BY <2>3, <4>1, <4>2
    <3>2. CASE ~(i < n)
      <4>1. m[i] = i + 1 /\ i + 1 \in 1 .. Len(T) + 1 /\ ~(i + 1 < n) /\ i + 1 # n
        BY <1>2, <2>2, <3>2
      <4>2. N[i + 1] = T[(i + 1) - 1] /\ (i + 1) - 1 = i
        BY <1>2, <2>2, <4>1
      <4> QED BY <2>3, <4>1, <4>2
    <3> QED BY <3>1, <3>2
  <2>7. \A x, y \in DOMAIN T : m[x] = m[y] => x = y
    BY <1>2, <2>2
  <2>8. {m[x] : x \in DOMAIN T} = DOMAIN N \ {n}
    <3>1. \A x \in DOMAIN T : m[x] \in DOMAIN N \ {n}
      BY <1>2, <2>2, <2>3
    <3>2. ASSUME NEW y \in DOMAIN N \ {n}
          PROVE  \E x \in DOMAIN T : m[x] = y
      <4>1. CASE y < n
        <5>1. y \in DOMAIN T /\ m[y] = y
          BY <1>2, <2>2, <2>3, <4>1
        <5> QED BY <5>1
      <4>2. CASE ~(y < n)
        <5>1. y - 1 \in DOMAIN T /\ ~(y - 1 < n) /\ (y - 1) + 1 = y
          BY <1>2, <2>2, <2>3, <4>2
        <5>2. m[y - 1] = y
          BY <5>1
        <5> QED BY <5>1, <5>2
      <4> QED BY <4>1, <4>2
    <3> HIDE DEF m, N, n, T
    <3> QED BY <3>1, <3>2
  <2> HIDE DEF h, g, m, T, N, n
  <2>9. SumFunctionOnSet(g, {m[x] : x \in DOMAIN T}) = SumFunctionOnSet(h, DOMAIN T)
    BY <2>4, <2>6, <2>7, SumRenumbered
  <2>10. SumFunctionOnSet(g, DOMAIN N) = g[n] + SumFunctionOnSet(g, DOMAIN N \ {n})
    BY <2>4, <2>5, SumTakeOut
  <2>11. SumFunctionOnSet(h, DOMAIN T) \in Int
    BY <2>4, SumInt
  <2>12. SumFunctionOnSet(g, DOMAIN N) = SumFunctionOnSet(h, DOMAIN T)
    BY <2>5, <2>8, <2>9, <2>10, <2>11
  <2> QED BY <2>12 DEF TableTime, g, h, N, T
<1> QED BY <1>1, <1>2, AllocPstateTable

(* The open interval is added once, to one row (close_current_pstate).     *)
LEMMA ClosePstateTime ==
    ASSUME NEW ps, GoodPStates(ps), ps.cur # 0, NEW t \in Int, ps.enter <= t
    PROVE  LET cl == CloseCurrentPstate(ps, t)
           IN  /\ TableTime(cl.table) = TableTime(ps.table) + (t - ps.enter)
               /\ cl.enter = ps.enter
<1> DEFINE cl == CloseCurrentPstate(ps, t)
           T  == ps.table
           c  == ps.cur
           d  == t - ps.enter
           N  == [T EXCEPT ![c].st = AddTo(@, d)]
           h  == [i \in DOMAIN T |-> T[i].st.sum]
           g  == [i \in DOMAIN N |-> N[i].st.sum]
<1>1. /\ ps \in PStatesType /\ ps.enter \in Int /\ d \in Nat
      /\ c \in DOMAIN T
  <2>1. ps \in PStatesType /\ ps.enter \in Int
    BY DEF GoodPStates, PStatesType
  <2>2. DOMAIN T = 1 .. Len(T) /\ c \in 1 .. Len(T)
    BY TableFacts DEF GoodPStates, TableSorted
  <2> QED BY <2>1, <2>2
<1>2. TableTime(T) \in Nat /\ IsFiniteSet(DOMAIN T) /\ \A i \in DOMAIN T : T[i].st.sum \in Nat
  BY TableTimeType
<1>3. CASE d <= 0
  <2>1. cl = ps /\ d = 0
    BY <1>1, <1>3 DEF CloseCurrentPstate
  <2> QED BY <1>2, <2>1
<1>4. CASE ~(d <= 0)
  <2>1. cl.table = N /\ cl.enter = ps.enter
    BY <1>1, <1>4 DEF CloseCurrentPstate, PStatesType
  <2>2. DOMAIN N = DOMAIN T
    OBVIOUS
  <2>3. \A i \in DOMAIN T : i # c => N[i] = T[i]
    OBVIOUS
  <2>4. N[c].st.sum = T[c].st.sum + d
    <3>1. T[c] \in PRecordType
      BY <1>1, TableFacts
    <3>2. N[c].st = AddTo(T[c].st, d)
      BY <1>1, <3>1 DEF PRecordType
    <3> QED BY <3>2 DEF AddTo
  <2>5. /\ \A i \in DOMAIN T : h[i] \in Int
        /\ \A i \in DOMAIN T : i # c => g[i] = h[i]
        /\ g[c] = h[c] + d /\ g[c] \in Int
    <3>1. \A i \in DOMAIN T : h[i] = T[i].st.sum /\ g[i] = N[i].st.sum
      BY <2>2
    <3> HIDE DEF h, g, N, T, c, d
    <3> QED BY <1>1, <1>2, <2>3, <2>4, <3>1
  <2>6. TableTime(N) = SumFunctionOnSet(g, DOMAIN T) /\ TableTime(T) = SumFunctionOnSet(h, DOMAIN T)
    BY <2>2 DEF TableTime
  <2> HIDE DEF h, g, N, T, c
  <2>7. SumFunctionOnSet(g, DOMAIN T) = SumFunctionOnSet(h, DOMAIN T) + (g[c] - h[c])
    BY <1>1, <1>2, <2>5, SumChangeAt
  <2>8. h[c] \in Int
    BY <1>1, <2>5
  <2> QED BY <1>1, <1>2, <2>1, <2>5, <2>6, <2>7, <2>8 DEF T
<1> QED BY <1>3, <1>4

(* What the functions on a record do to its time, when the clock has not   *)
(* gone back.  A core or a cluster gains and loses nothing                 *)
(* (record_group_freq).                                                    *)
LEMMA RecordGroupFreqTime ==
    ASSUME NEW ps, GoodPStates(ps), ps.idle # 1, NEW t \in Int, ps.enter <= t,
           NEW f \in Nat
    PROVE  /\ Busy(RecordGroupFreq(ps, t, f), t) = Busy(ps, t)
           /\ RecordGroupFreq(ps, t, f).enter <= t
<1> DEFINE cur    == ps.cur
           al     == IF f > 0 THEN AllocPstate(ps, f) ELSE ps
           next   == IF f > 0 THEN Position(ps.table, f) ELSE 0
           closed == CloseCurrentPstate(al, t)
           r      == RecordGroupFreq(ps, t, f)
<1>1. /\ GoodPStates(al) /\ al \in PStatesType
      /\ al.cur = 0 <=> cur = 0
      /\ al.idle = ps.idle /\ al.enter = ps.enter
  BY AllocPstateGood DEF GoodPStates
<1>2. TableTime(al.table) = TableTime(ps.table) /\ TableTime(ps.table) \in Int
  BY AllocPstateKeepsTime, TableTimeType
<1>3. ps.enter \in Int
  BY DEF GoodPStates, PStatesType
<1>4. r = IF cur = next THEN al
          ELSE IF cur = 0 THEN OpenNextPstate(al, next, t)
          ELSE IF next = 0 THEN [closed EXCEPT !.cur = 0]
          ELSE OpenNextPstate(closed, next, t)
  BY DEF RecordGroupFreq
<1> HIDE DEF al, next, r
<1>5. cur # 0 => /\ TableTime(closed.table) = TableTime(ps.table) + (t - ps.enter)
                 /\ closed.enter = ps.enter /\ closed.idle = ps.idle
                 /\ closed \in PStatesType
  BY <1>1, <1>2, ClosePstateTime, ClosePstateGood DEF GoodPStates
<1> HIDE DEF closed
<1>6. CASE cur = next
  BY <1>1, <1>2, <1>4, <1>6 DEF Busy, Elapsed, r
<1>7. CASE cur # next /\ cur = 0
  <2>1. /\ r.table = al.table /\ r.idle = ps.idle
        /\ r.enter = t
    BY <1>1, <1>4, <1>7 DEF OpenNextPstate, OpenCurrentPstate, PStatesType
  <2> QED BY <1>2, <1>7, <2>1 DEF Busy, Elapsed, r
<1>8. CASE cur # next /\ cur # 0 /\ next = 0
  <2>1. r.table = closed.table /\ r.cur = 0 /\ r.enter = ps.enter
    BY <1>4, <1>5, <1>8 DEF PStatesType
  <2> QED BY <1>2, <1>3, <1>5, <1>8, <2>1 DEF Busy, Elapsed, r
<1>9. CASE cur # next /\ cur # 0 /\ next # 0
  <2>1. r.table = closed.table /\ r.idle = ps.idle /\ r.enter = t
    BY <1>4, <1>5, <1>9 DEF OpenNextPstate, OpenCurrentPstate, PStatesType
  <2> QED BY <1>2, <1>3, <1>5, <1>9, <2>1 DEF Busy, Elapsed, r
<1> QED BY <1>6, <1>7, <1>8, <1>9

(* Nor does a CPU that enters idle while not idle (cpu_pstate_idle) ...    *)
LEMMA PstateIdleTime ==
    ASSUME NEW ps, GoodPStates(ps), NEW t \in Int, ps.enter <= t
    PROVE  /\ ps.idle # 1 => Busy(PstateIdle(ps, t), t) = Busy(ps, t)
           /\ PstateIdle(ps, t).enter = ps.enter /\ PstateIdle(ps, t).cur = ps.cur
<1> DEFINE q == IF ps.cur # 0 THEN CloseCurrentPstate(ps, t) ELSE ps
           r == PstateIdle(ps, t)
<1>1. TableTime(ps.table) \in Int /\ ps.enter \in Int
  BY TableTimeType DEF GoodPStates, PStatesType
<1>2. /\ q \in PStatesType /\ q.enter = ps.enter /\ q.cur = ps.cur
      /\ ps.cur # 0 => TableTime(q.table) = TableTime(ps.table) + (t - ps.enter)
      /\ ps.cur = 0 => q = ps
  BY ClosePstateTime, ClosePstateGood DEF GoodPStates
<1>3. r = [q EXCEPT !.idle = 1]
  BY DEF PstateIdle
<1> HIDE DEF q, r
<1>4. r.table = q.table /\ r.idle = 1 /\ r.enter = q.enter /\ r.cur = q.cur
  BY <1>2, <1>3 DEF PStatesType
<1> QED BY <1>1, <1>2, <1>4 DEF Busy, Elapsed, r

(* ... or leaves it while idle (cpu_pstate_running).                       *)
LEMMA PstateRunningTime ==
    ASSUME NEW ps, GoodPStates(ps), NEW t \in Int, ps.enter <= t
    PROVE  /\ ps.idle = 1 => Busy(PstateRunning(ps, t), t) = Busy(ps, t)
           /\ PstateRunning(ps, t).enter <= t /\ PstateRunning(ps, t).cur = ps.cur
<1> DEFINE q == IF ps.cur # 0 THEN OpenCurrentPstate(ps, t) ELSE ps
           r == PstateRunning(ps, t)
<1>1. TableTime(ps.table) \in Int /\ ps \in PStatesType
  BY TableTimeType DEF GoodPStates
<1>2. /\ q \in PStatesType /\ q.cur = ps.cur /\ q.table = ps.table
      /\ ps.cur # 0 => q.enter = t
      /\ ps.cur = 0 => q = ps
  BY <1>1 DEF OpenCurrentPstate, PStatesType
<1>3. r = [q EXCEPT !.idle = 0]
  BY DEF PstateRunning
<1> HIDE DEF q, r
<1>4. r.table = q.table /\ r.idle = 0 /\ r.enter = q.enter /\ r.cur = q.cur
  BY <1>2, <1>3 DEF PStatesType
<1> QED BY <1>1, <1>2, <1>4 DEF Busy, Elapsed, r

(* A change of frequency keeps the time of a CPU whose idleness is known;  *)
(* of another one it forgets what is open (cpu_change_pstate).             *)
LEMMA ChangePstateTime ==
    ASSUME NEW ps, GoodPStates(ps), NEW f \in Nat, NEW t \in Int, ps.enter <= t
    PROVE  LET r == ChangePstate(ps, f, t)
           IN  /\ ps.idle # -1 => Busy(r, t) = Busy(ps, t)
               /\ ps.idle = -1 => Busy(r, t) = TableTime(ps.table)
               /\ r.enter <= t /\ r.cur # 0 /\ r.table # <<>>
<1> DEFINE al   == AllocPstate(ps, f)
           next == Position(ps.table, f)
           q    == IF al.cur # 0 THEN CloseCurrentPstate(al, t) ELSE al
           r    == ChangePstate(ps, f, t)
<1>1. /\ GoodPStates(al) /\ al \in PStatesType
      /\ next \in 1 .. Len(al.table)
      /\ al.cur = 0 <=> ps.cur = 0
      /\ al.idle = ps.idle /\ al.enter = ps.enter
      /\ ps.idle \in {-1, 0, 1}
  BY AllocPstateGood DEF GoodPStates, PStatesType
<1>2. TableTime(al.table) = TableTime(ps.table) /\ TableTime(ps.table) \in Int
  BY AllocPstateKeepsTime, TableTimeType
<1>3. ps.enter \in Int
  BY DEF GoodPStates, PStatesType
<1>4. r = CASE ps.idle = 1  -> [al EXCEPT !.cur = next]
            [] ps.idle = -1 -> OpenNextPstate(al, next, t)
            [] ps.idle = 0  -> OpenNextPstate(q, next, t)
  BY DEF ChangePstate
<1> HIDE DEF al, next, r
<1>5. /\ q \in PStatesType /\ q.enter = ps.enter /\ q.idle = ps.idle
      /\ Len(q.table) = Len(al.table)
      /\ ps.cur # 0 => TableTime(q.table) = TableTime(ps.table) + (t - ps.enter)
      /\ ps.cur = 0 => q = al
  BY <1>1, <1>2, ClosePstateTime, ClosePstateGood DEF GoodPStates
<1> HIDE DEF q
<1>6. \A x \in {al, q} :
         /\ OpenNextPstate(x, next, t).table = x.table
         /\ OpenNextPstate(x, next, t).idle = x.idle
         /\ OpenNextPstate(x, next, t).enter = t
         /\ OpenNextPstate(x, next, t).cur = next
  BY <1>1, <1>5 DEF OpenNextPstate, OpenCurrentPstate, PStatesType
<1>7. next # 0 /\ al.table # <<>> /\ q.table # <<>>
  <2>1. Len(al.table) \in Nat
    BY <1>1, TableFacts
  <2> QED BY <1>1, <1>5, <2>1
<1>8. CASE ps.idle = 1
  <2>1. r.table = al.table /\ r.cur = next /\ r.idle = 1 /\ r.enter = ps.enter
    BY <1>1, <1>4, <1>8 DEF PStatesType
  <2> QED BY <1>2, <1>7, <1>8, <2>1 DEF Busy, Elapsed, r
<1>9. CASE ps.idle = -1
  <2>1. r = OpenNextPstate(al, next, t)
    BY <1>4, <1>9
  <2> QED BY <1>1, <1>2, <1>6, <1>7, <1>9, <2>1 DEF Busy, Elapsed, r
<1>10. CASE ps.idle = 0
  <2>1. r = OpenNextPstate(q, next, t)
    BY <1>4, <1>10
  <2>2. Busy(r, t) = TableTime(q.table)
    <3>1. r.enter = t /\ t - t = 0 /\ TableTime(q.table) \in Int
      BY <1>1, <1>2, <1>3, <1>5, <1>6, <2>1
    <3> QED BY <1>6, <2>1, <3>1 DEF Busy, Elapsed
  <2>3. Busy(ps, t) = TableTime(q.table)
    BY <1>1, <1>2, <1>3, <1>5, <1>10 DEF Busy, Elapsed
  <2> QED BY <1>6, <1>7, <1>10, <2>1, <2>2, <2>3 DEF r
<1> QED BY <1>1, <1>8, <1>9, <1>10
=============================================================================

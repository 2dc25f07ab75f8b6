--------------------------- MODULE CStates_proofs ---------------------------
(***************************************************************************)
(* Lemmas about the statistics of Stats and the C-state operators of       *)
(* CStates: what cstate_begin, cstate_end and record_cstate_event keep of  *)
(* a unit's record, for any number of C-states and any target residencies. *)
(***************************************************************************)
EXTENDS CStates, TLAPS

(* A unit's record is well formed: typed, and its statistics are those of  *)
(* some list of intervals, those of the states outside D, which were not   *)
(* initialised, but for the minimum.                                       *)
GoodCStates(x, D) ==
    /\ x \in CStatesType
    /\ \A s \in State : CoherentRecord(x.stat[s], s \in D)

(* An empty record is typed and coherent (build_cstate_info).              *)
LEMMA NoStatGood == NoStat \in StatType /\ Coherent(NoStat)
BY DblMaxAssumption DEF NoStat, StatType, Coherent

(* Adding an interval keeps a record typed.                                *)
LEMMA AddToType ==
    ASSUME NEW st \in StatType, NEW d \in Nat
    PROVE  AddTo(st, d) \in StatType
BY DEF AddTo, StatType

(* Adding an interval that lasted keeps a record coherent: the shortest    *)
(* and the longest still bound the total (cstate_end, close_current_pstate). *)
LEMMA AddToCoherent ==
    ASSUME NEW st \in StatType, Coherent(st), NEW d \in Nat \ {0}
    PROVE  Coherent(AddTo(st, d))
<1> DEFINE n == st.count
           m == IF st.min < d THEN st.min ELSE d
           M == IF st.max > d THEN st.max ELSE d
<1>1. /\ n \in Nat /\ st.min \in Nat /\ st.max \in Nat /\ st.sum \in Nat
      /\ m \in Nat /\ M \in Nat
  BY DEF StatType
<1>2. 0 < m /\ m <= d /\ d <= M
  BY DblMaxAssumption, <1>1 DEF Coherent, NoStat, StatType
<1>3. (n + 1) * m <= st.sum + d
  <2>1. n * m <= st.sum
    <3>1. CASE n = 0
      BY <1>1, <3>1
    <3>2. CASE n # 0
      <4>1. n * st.min <= st.sum
        BY <3>2 DEF Coherent
      <4>2. m <= st.min
        BY <1>1
      <4>3. \A a, b, c \in Nat : b <= c => a * b <= a * c
        BY SMT
      <4> HIDE DEF n, m
      <4>4. n * m <= n * st.min
        BY <1>1, <4>2, <4>3
      <4>5. \A a, b, c \in Nat : a * b \in Nat
        BY SMT
      <4> QED BY <1>1, <4>1, <4>4, <4>5
    <3> QED BY <3>1, <3>2
  <2>2. \A a, b \in Nat : (a + 1) * b = a * b + b
    BY SMT
  <2> HIDE DEF n, m
  <2>3. n * m \in Int
    BY <1>1
  <2>4. (n + 1) * m = n * m + m
    BY <1>1, <2>2
  <2> QED BY <1>1, <1>2, <2>1, <2>3, <2>4
<1>4. st.sum + d <= (n + 1) * M
  <2>1. st.sum <= n * M
    <3>1. CASE n = 0
      <4>1. st.sum = 0
        BY <3>1 DEF Coherent, NoStat
      <4> QED BY <1>1, <3>1, <4>1
    <3>2. CASE n # 0
      <4>1. st.sum <= n * st.max
        BY <3>2 DEF Coherent
      <4>2. st.max <= M
        BY <1>1
      <4>3. \A a, b, c \in Nat : b <= c => a * b <= a * c
        BY SMT
      <4> HIDE DEF n, M
      <4>4. n * st.max <= n * M
        BY <1>1, <4>2, <4>3
      <4>5. n * st.max \in Int /\ n * M \in Int
        BY <1>1
      <4> QED BY <1>1, <4>1, <4>4, <4>5
    <3> QED BY <3>1, <3>2
  <2>2. \A a, b \in Nat : (a + 1) * b = a * b + b
    BY SMT
  <2> HIDE DEF n, M
  <2>3. n * M \in Int
    BY <1>1
  <2>4. (n + 1) * M = n * M + M
    BY <1>1, <2>2
  <2> QED BY <1>1, <1>2, <2>1, <2>3, <2>4
<1>5. AddTo(st, d) = [count |-> n + 1, min |-> m, max |-> M, sum |-> st.sum + d]
  BY DEF AddTo
<1>6. n + 1 # 0 /\ m <= M
  BY <1>1, <1>2
<1> HIDE DEF n, m, M
<1> QED BY <1>2, <1>3, <1>4, <1>5, <1>6 DEF Coherent

-----------------------------------------------------------------------------
(* A new unit's record is well formed (build_cstate_info).                 *)
LEMMA NewCStatesGood ==
    ASSUME NEW D
    PROVE  GoodCStates(NewCStates(D), D) /\ NewCStates(D).cur = -1
<1> DEFINE none == [NoStat EXCEPT !.min = 0]
<1>1. none \in StatType /\ CoherentButMin(none)
  <2>1. none \in StatType /\ none.min = 0
    BY NoStatGood DEF NoStat, StatType
  <2>2. none = [count |-> 0, min |-> 0, max |-> 0, sum |-> 0]
    BY DEF NoStat
  <2> HIDE DEF none
  <2>3. [none EXCEPT !.min = DblMax] = NoStat
    BY <2>2 DEF NoStat
  <2>4. DblMax \in 1 .. DblMax
    BY DblMaxAssumption
  <2> QED BY <2>1, <2>3, <2>4, NoStatGood DEF CoherentButMin
<1> DEFINE new(s) == [all |-> IF s \in D THEN NoStat ELSE none, early |-> 0, late |-> 0]
<1>2. \A s \in State : new(s) \in CStatsType /\ CoherentRecord(new(s), s \in D)
  <2> HIDE DEF none
  <2>1. NoStat.count = 0 /\ none.count = 0
    BY DEF NoStat, none
  <2> QED BY <1>1, <2>1, NoStatGood DEF CStatsType, CoherentRecord
<1>3. NewCStates(D) = [cur |-> -1, max |-> -1, begin |-> 0, residency |-> "as_expected",
                       stat |-> [s \in State |-> new(s)]]
  BY DEF NewCStates
<1> HIDE DEF new
<1> QED BY <1>2, <1>3 DEF GoodCStates, CStatesType, Residency

(* Adding an interval to a record whose minimum began as 0 leaves it 0 and *)
(* keeps the rest (cstate_end).                                            *)
LEMMA AddToCoherentButMin ==
    ASSUME NEW st \in StatType, CoherentButMin(st), NEW d \in Nat \ {0}
    PROVE  CoherentButMin(AddTo(st, d))
<1>1. PICK m \in 1 .. DblMax : Coherent([st EXCEPT !.min = m])
  BY DEF CoherentButMin
<1> DEFINE y == [st EXCEPT !.min = m]
           n == AddTo(y, d)
<1>2. st.min = 0 /\ y \in StatType /\ y.min = m /\ m \in Nat /\ 0 < m /\ m <= DblMax
  BY <1>1, DblMaxAssumption DEF CoherentButMin, StatType
<1>3. Coherent(n)
  <2> HIDE DEF y
  <2> QED BY <1>1, <1>2, AddToCoherent DEF y
<1>4. n.min \in 1 .. DblMax
  <2> HIDE DEF y
  <2> QED BY <1>2, DblMaxAssumption DEF AddTo
<1>5. AddTo(st, d).min = 0
  BY <1>2 DEF AddTo
<1>6. [AddTo(st, d) EXCEPT !.min = n.min] = n
  BY DEF AddTo, StatType
<1> HIDE DEF n
<1> QED BY <1>3, <1>4, <1>5, <1>6 DEF CoherentButMin

(* The verdict on a stay is one of the three the code knows.               *)
LEMMA VerdictType ==
    ASSUME NEW x, NEW tr, NEW d
    PROVE  Verdict(x, tr, d) \in Residency
BY DEF Verdict, Residency

(* Recording a stay keeps a C-state's record well formed.                  *)
LEMMA RecordGood ==
    ASSUME NEW st \in CStatsType, NEW i, CoherentRecord(st, i), NEW d \in Nat \ {0},
           NEW v \in Residency
    PROVE  Record(st, d, v) \in CStatsType /\ CoherentRecord(Record(st, d, v), i)
<1>1. st.all \in StatType /\ IF i THEN Coherent(st.all) ELSE CoherentButMin(st.all)
  BY DEF CStatsType, CoherentRecord
<1>2. /\ AddTo(st.all, d) \in StatType
      /\ IF i THEN Coherent(AddTo(st.all, d)) ELSE CoherentButMin(AddTo(st.all, d))
  BY <1>1, AddToType, AddToCoherent, AddToCoherentButMin
<1>3. AddTo(st.all, d).count = st.all.count + 1 /\ st.all.count \in Nat
  BY <1>1 DEF AddTo, StatType
<1>4. /\ st.early \in Nat /\ st.late \in Nat
      /\ st.early + st.late <= st.all.count
  BY DEF CStatsType, CoherentRecord
<1> DEFINE a == AddTo(st.all, d)
           e == IF v = "too_short" THEN 1 ELSE 0
           l == IF v = "too_long" THEN 1 ELSE 0
<1>5. Record(st, d, v) = [all |-> a, early |-> st.early + e, late |-> st.late + l]
  BY DEF Record
<1>6. e \in {0, 1} /\ l \in {0, 1} /\ e + l <= 1
  OBVIOUS
<1> HIDE DEF a, e, l
<1>7. st.early + e \in Nat /\ st.late + l \in Nat
  BY <1>4, <1>6
<1>8. st.early + e + (st.late + l) <= st.all.count + 1
  BY <1>3, <1>4, <1>6
<1> QED BY <1>2, <1>3, <1>5, <1>7, <1>8 DEF CStatsType, CoherentRecord, a

(* Ending the open C-state keeps the record well formed and leaves no      *)
(* state open, whether or not the stay is recorded (cstate_end).           *)
LEMMA CstateEndGood ==
    ASSUME NEW x, NEW D, GoodCStates(x, D), x.cur # -1, NEW tr, NEW t \in Int
    PROVE  /\ GoodCStates(CstateEnd(x, tr, t), D)
           /\ CstateEnd(x, tr, t).cur = -1
           /\ CstateEnd(x, tr, t).max = x.max
<1> DEFINE d == t - x.begin
           v == Verdict(x, tr, d)
           r == Record(x.stat[x.cur], d, v)
<1>1. /\ x \in CStatesType /\ x.cur \in State /\ d \in Int
      /\ \A s \in State : x.stat[s] \in CStatsType /\ CoherentRecord(x.stat[s], s \in D)
  BY DEF GoodCStates, CStatesType
<1>2. v \in Residency
  BY VerdictType
<1>3. CASE d <= 0
  BY <1>1, <1>3 DEF CstateEnd, GoodCStates, CStatesType
<1>4. CASE ~(d <= 0)
  <2>1. d \in Nat \ {0}
    BY <1>1, <1>4
  <2>2. r \in CStatsType /\ CoherentRecord(r, x.cur \in D)
    <3> HIDE DEF d, v
    <3> QED BY <1>1, <1>2, <2>1, RecordGood
  <2>3. CstateEnd(x, tr, t) =
          [x EXCEPT !.cur = -1, !.residency = v, !.stat[x.cur] = r]
    BY <1>4 DEF CstateEnd
  <2> DEFINE y == CstateEnd(x, tr, t)
  <2> HIDE DEF d, v, r
  <2> DEFINE stat == [x.stat EXCEPT ![x.cur] = r]
  <2>4. stat \in [State -> CStatsType]
    BY <1>1, <2>2 DEF CStatesType
  <2>5. y = [cur |-> -1, max |-> x.max, begin |-> x.begin, residency |-> v,
             stat |-> stat]
    BY <1>1, <2>3 DEF CStatesType
  <2> HIDE DEF y, stat
  <2>6. y \in CStatesType /\ y.cur = -1 /\ y.max = x.max /\ y.stat = stat
    BY <1>1, <1>2, <2>4, <2>5 DEF CStatesType
  <2>7. \A s \in State : CoherentRecord(y.stat[s], s \in D)
    BY <1>1, <2>2, <2>6 DEF CStatesType, stat
  <2> QED BY <1>1, <2>6, <2>7 DEF GoodCStates, y
<1> QED BY <1>3, <1>4

(* Entering a C-state keeps the record well formed (cstate_begin).         *)
LEMMA CstateBeginGood ==
    ASSUME NEW x, NEW D, GoodCStates(x, D), NEW t \in Int, NEW s \in State
    PROVE  GoodCStates(CstateBegin(x, t, s), D) /\ CstateBegin(x, t, s).cur = s
BY DEF GoodCStates, CstateBegin, CStatesType

(* After record_cstate_event the record is well formed and the unit is in  *)
(* the state the event says.                                               *)
LEMMA RecordCstateEventGood ==
    ASSUME NEW x, NEW D, GoodCStates(x, D), NEW tr, NEW t \in Int, NEW s \in State \cup {-1}
    PROVE  /\ GoodCStates(RecordCstateEvent(x, tr, t, s), D)
           /\ RecordCstateEvent(x, tr, t, s).cur = s
<1> DEFINE closed == IF x.cur = -1 THEN x ELSE CstateEnd(x, tr, t)
<1>1. GoodCStates(closed, D) /\ closed.cur = -1
  BY CstateEndGood
<1>2. CASE s = x.cur
  BY <1>2 DEF RecordCstateEvent
<1>3. CASE s # x.cur /\ s = -1
  BY <1>1, <1>3 DEF RecordCstateEvent
<1>4. CASE s # x.cur /\ s # -1
  <2>1. s \in State
    BY <1>4
  <2>2. RecordCstateEvent(x, tr, t, s) = CstateBegin(closed, t, s)
    BY <1>4 DEF RecordCstateEvent
  <2> HIDE DEF closed
  <2> QED BY <1>1, <2>1, <2>2, CstateBeginGood
<1> QED BY <1>2, <1>3, <1>4

-----------------------------------------------------------------------------
(* Times.                                                                  *)

(* What a unit spent in C-state q up to time t: what is recorded and what  *)
(* is still open.                                                          *)
Spent(x, q, t) == x.stat[q].all.sum + (IF x.cur = q THEN t - x.begin ELSE 0)

(* A record that is open was opened by time t.                             *)
OpenedBy(x, t) == x.cur # -1 => x.begin <= t

LEMMA SpentType ==
    ASSUME NEW x, NEW D, GoodCStates(x, D), NEW q \in State, NEW t \in Int
    PROVE  Spent(x, q, t) \in Int
BY DEF Spent, GoodCStates, CStatesType, CStatsType, StatType

(* Closing a state adds to it what was open, the states that did not last  *)
(* included, which are not recorded: they lasted nothing (cstate_end).     *)
LEMMA CstateEndTime ==
    ASSUME NEW x, NEW D, GoodCStates(x, D), x.cur # -1, NEW tr, NEW t \in Int, x.begin <= t,
           NEW q \in State
    PROVE  Spent(CstateEnd(x, tr, t), q, t) = Spent(x, q, t)
<1> DEFINE d == t - x.begin
           v == Verdict(x, tr, d)
           r == CstateEnd(x, tr, t)
<1>1. /\ x \in CStatesType /\ x.cur \in State /\ x.begin \in Int
      /\ -1 \notin State
  BY DEF GoodCStates, CStatesType, State
<1>2. d \in Nat
  BY <1>1
<1>3. CASE d <= 0
  <2>1. r = [x EXCEPT !.cur = -1] /\ d = 0
    BY <1>2, <1>3 DEF CstateEnd
  <2>2. r.stat = x.stat /\ r.cur = -1
    BY <1>1, <2>1 DEF CStatesType
  <2>3. x.stat[q].all.sum \in Int
    BY <1>1 DEF CStatesType, CStatsType, StatType
  <2> HIDE DEF r
  <2>4. Spent(r, q, t) = Spent(x, q, t)
    BY <1>1, <2>1, <2>2, <2>3 DEF Spent
  <2> QED BY <2>4 DEF r
<1>4. CASE d > 0
  <2>1. r = [x EXCEPT !.cur = -1, !.residency = v,
                      !.stat[x.cur] = Record(@, d, v)]
    BY <1>2, <1>4 DEF CstateEnd
  <2> HIDE DEF v, d
  <2>2. r.cur = -1 /\ r.stat = [x.stat EXCEPT ![x.cur] = Record(x.stat[x.cur], d, v)]
    BY <1>1, <2>1 DEF CStatesType
  <2>3. x.stat \in [State -> CStatsType]
    BY <1>1 DEF CStatesType
  <2>4. Record(x.stat[x.cur], d, v).all.sum = x.stat[x.cur].all.sum + d
    BY DEF Record, AddTo
  <2>5. x.stat[q].all.sum \in Int
    BY <2>3 DEF CStatsType, StatType
  <2> HIDE DEF r, d
  <2>6. r.stat[q].all.sum = x.stat[q].all.sum + (IF x.cur = q THEN d ELSE 0)
    BY <1>1, <1>2, <2>2, <2>3, <2>4, <2>5
  <2>7. Spent(r, q, t) = Spent(x, q, t)
    BY <1>1, <2>2, <2>5, <2>6 DEF Spent, d
  <2> QED BY <2>7 DEF r
<1> QED BY <1>2, <1>3, <1>4

(* An event leaves what was spent in every state as it is, and opens the   *)
(* next state at its own time (record_cstate_event).                       *)
LEMMA RecordCstateEventTime ==
    ASSUME NEW x, NEW D, GoodCStates(x, D), NEW tr, NEW t \in Int, OpenedBy(x, t),
           NEW s \in State \cup {-1}, NEW q \in State
    PROVE  /\ OpenedBy(RecordCstateEvent(x, tr, t, s), t)
           /\ Spent(RecordCstateEvent(x, tr, t, s), q, t) = Spent(x, q, t)
<1> DEFINE closed == IF x.cur = -1 THEN x ELSE CstateEnd(x, tr, t)
<1>1. GoodCStates(closed, D) /\ closed.cur = -1
  BY CstateEndGood
<1>2. Spent(closed, q, t) = Spent(x, q, t)
  BY CstateEndTime DEF OpenedBy
<1>3. CASE s = x.cur
  BY <1>3 DEF RecordCstateEvent
<1>4. CASE s # x.cur /\ s = -1
  <2>1. RecordCstateEvent(x, tr, t, s) = closed
    BY <1>4 DEF RecordCstateEvent
  <2> HIDE DEF closed
  <2> QED BY <1>1, <1>2, <2>1 DEF OpenedBy
<1>5. CASE s # x.cur /\ s # -1
  <2> DEFINE r == RecordCstateEvent(x, tr, t, s)
  <2>1. r = CstateBegin(closed, t, s)
    BY <1>5 DEF RecordCstateEvent
  <2> HIDE DEF closed
  <2>2. r.cur = s /\ r.begin = t /\ r.stat = closed.stat
    BY <1>1, <2>1 DEF CstateBegin, GoodCStates, CStatesType
  <2>3. closed.stat[q].all.sum \in Int
    BY <1>1 DEF GoodCStates, CStatesType, CStatsType, StatType
  <2>4. Spent(r, q, t) = Spent(closed, q, t)
    <3> HIDE DEF r
    <3>1. closed.cur # q
      BY <1>1 DEF State
    <3> QED BY <2>2, <2>3, <3>1 DEF Spent
  <2> QED BY <1>2, <2>2, <2>4 DEF OpenedBy
<1> QED BY <1>3, <1>4, <1>5
=============================================================================

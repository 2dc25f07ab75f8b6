------------------------------ MODULE CStates ------------------------------
(***************************************************************************)
(* struct cpuidle_cstates of idlestat.h and the functions of idlestat.c    *)
(* that change it: the C-state statistics of one unit (a CPU, a core or a  *)
(* cluster).  A C-state is its index, -1 is "not idle".  cstate[s].data,   *)
(* the list of intervals, is only ever used through its last, open entry:  *)
(* `begin' is that entry's start.                                          *)
(***************************************************************************)
EXTENDS Stats

CONSTANT NStates    \* MAXCSTATE: the number of C-states

ASSUME NStatesAssumption == NStates \in Nat \ {0}

State     == 0 .. NStates - 1
Residency == {"as_expected", "too_long", "too_short"}

CStatsType == [all: StatType, early: Nat, late: Nat]

CStatesType ==
    [cur: State \cup {-1}, max: State \cup {-1}, begin: Int,
     residency: Residency, stat: [State -> CStatsType]]

\* No stay was both too short and too long.
CoherentRecord(st, initialised) ==
    /\ IF initialised THEN Coherent(st.all) ELSE CoherentButMin(st.all)
    /\ st.early + st.late <= st.all.count

\* build_cstate_info initialises every state of a CPU, create_states those of
\* a core's or cluster's that have a name; the others are as calloc left them.
NewCStates(initialised) ==
    [cur |-> -1, max |-> -1, begin |-> 0, residency |-> "as_expected",
     stat |-> [s \in State |->
                 [all |-> IF s \in initialised THEN NoStat
                          ELSE [NoStat EXCEPT !.min = 0],
                  early |-> 0, late |-> 0]]]

CstateBegin(x, t, s) ==
    [x EXCEPT !.begin = t, !.cur = s, !.max = IF @ > s THEN @ ELSE s]

\* How long the unit stayed, against the target residencies tr of its
\* state and of the next deeper state that was ever entered.
Verdict(x, tr, d) ==
    LET next == x.cur + 1 IN
    IF d < tr[x.cur] THEN "too_short"
    ELSE IF next <= x.max /\ tr[next] > 0 /\ d >= tr[next] THEN "too_long"
    ELSE "as_expected"

Record(st, d, verdict) ==
    [all   |-> AddTo(st.all, d),
     early |-> st.early + (IF verdict = "too_short" THEN 1 ELSE 0),
     late  |-> st.late  + (IF verdict = "too_long"  THEN 1 ELSE 0)]

(* Slip: an interval of no or negative length is recorded too. *)
CstateEndKeepsAll(x, tr, t) ==
    LET d == t - x.begin
        v == Verdict(x, tr, d)
    IN  [x EXCEPT !.cur = -1, !.residency = v,
                  !.stat[x.cur] = Record(@, d, v)]

\* An interval that did not last is not recorded, the state still ends.
CstateEnd(x, tr, t) ==
    LET d == t - x.begin
        v == Verdict(x, tr, d)
    IN  IF d <= 0
        THEN [x EXCEPT !.cur = -1]
        ELSE [x EXCEPT !.cur = -1, !.residency = v,
                       !.stat[x.cur] = Record(@, d, v)]

(* Slip: a state that is left for another one is not closed first. *)
RecordCstateEventNoClose(x, tr, t, s) ==
    IF s = x.cur THEN x
    ELSE IF s = -1 THEN CstateEnd(x, tr, t)
    ELSE CstateBegin(x, t, s)

RecordCstateEvent(x, tr, t, s) ==
    LET closed == IF x.cur = -1 THEN x ELSE CstateEnd(x, tr, t)
    IN  IF s = x.cur THEN x
        ELSE IF s = -1 THEN closed
        ELSE CstateBegin(closed, t, s)
=============================================================================

------------------------------ MODULE PStates ------------------------------
(***************************************************************************)
(* struct cpufreq_pstates of idlestat.h and the functions of idlestat.c    *)
(* that change it: the P-state (frequency) statistics of one unit.  The    *)
(* table is an array of frequency records; it is 1-based here, so that the *)
(* `current' index -1 of the source ("unknown", or "closed" for a core or  *)
(* a cluster) is 0.  A record's id is its index and is left out.           *)
(***************************************************************************)
EXTENDS Stats, Sequences, SequencesExt

PRecordType == [freq: Nat, st: StatType]

PStatesType ==
    [table: Seq(PRecordType), cur: Nat, idle: {-1, 0, 1}, enter: Int]

\* build_pstate_info: nothing known of frequency nor idleness.
NewPStates == [table |-> <<>>, cur |-> 0, idle |-> -1, enter |-> 0]

Freqs(ps)   == {ps.table[i].freq : i \in DOMAIN ps.table}
OpenFreq(ps) == IF ps.cur = 0 THEN 0 ELSE ps.table[ps.cur].freq

\* What was measured at frequency f.
StatOf(ps, f) ==
    IF f \in Freqs(ps)
    THEN ps.table[CHOOSE i \in DOMAIN ps.table : ps.table[i].freq = f].st
    ELSE NoStat

\* The frequencies increase, and `current' is an entry or none.
TableSorted(ps) ==
    /\ \A i, j \in DOMAIN ps.table :
          i < j => ps.table[i].freq < ps.table[j].freq
    /\ ps.cur \in 0 .. Len(ps.table)

-----------------------------------------------------------------------------
(* alloc_pstate: the index of f, found or inserted in increasing order.    *)

(* Slip: a new frequency goes to the end of the table. *)
PositionAtEnd(table, f) ==
    IF \E i \in DOMAIN table : table[i].freq = f
    THEN CHOOSE i \in DOMAIN table : table[i].freq = f
    ELSE Len(table) + 1

\* Where the scan "freq >= pstate[i].freq" ends.
Position(table, f) ==
    CHOOSE i \in 1 .. Len(table) + 1 :
        /\ i <= Len(table) => f <= table[i].freq
        /\ \A j \in 1 .. i - 1 : table[j].freq < f

HasFreq(table, i, f) == i <= Len(table) /\ table[i].freq = f

(* Slip: `current' is not moved along with the shifted entries. *)
AllocPstateKeepsCurrent(ps, f) ==
    LET next == Position(ps.table, f) IN
    IF HasFreq(ps.table, next, f) THEN ps
    ELSE [ps EXCEPT !.table = InsertAt(@, next, [freq |-> f, st |-> NoStat])]

\* In the code "current >= next" with indices from 0 and -1 for none.
AllocPstate(ps, f) ==
    LET next == Position(ps.table, f) IN
    IF HasFreq(ps.table, next, f) THEN ps
    ELSE [ps EXCEPT !.table = InsertAt(@, next, [freq |-> f, st |-> NoStat]),
                    !.cur = IF @ >= next THEN @ + 1 ELSE @]

-----------------------------------------------------------------------------
OpenCurrentPstate(ps, t) == [ps EXCEPT !.enter = t]

OpenNextPstate(ps, i, t) == OpenCurrentPstate([ps EXCEPT !.cur = i], t)

\* Charges the time since enter to the current frequency.
CloseCurrentPstate(ps, t) ==
    IF t - ps.enter <= 0
    THEN ps
    ELSE [ps EXCEPT !.table[ps.cur].st = AddTo(@, t - ps.enter)]

(* Slip: a group whose frequency changes is not closed first. *)
RecordGroupFreqNoClose(ps, t, f) ==
    LET cur  == ps.cur
        al   == IF f > 0 THEN AllocPstate(ps, f) ELSE ps
        next == IF f > 0 THEN Position(ps.table, f) ELSE 0
    IN  IF cur = next THEN al
        ELSE IF next = 0 THEN [al EXCEPT !.cur = 0]
        ELSE OpenNextPstate(al, next, t)

\* A core's or cluster's highest frequency is now f, 0 for none.  cur is
\* read before alloc_pstate, which may move ps.cur; next is an index of
\* the table after the insertion.
RecordGroupFreq(ps, t, f) ==
    LET cur    == ps.cur
        al     == IF f > 0 THEN AllocPstate(ps, f) ELSE ps
        next   == IF f > 0 THEN Position(ps.table, f) ELSE 0
        closed == CloseCurrentPstate(al, t)
    IN  IF cur = next THEN al
        ELSE IF cur = 0 THEN OpenNextPstate(al, next, t)
        ELSE IF next = 0 THEN [closed EXCEPT !.cur = 0]
        ELSE OpenNextPstate(closed, next, t)

-----------------------------------------------------------------------------
(* The per-CPU halves of cpu_pstate_idle, cpu_pstate_running and           *)
(* cpu_change_pstate: what they do to the CPU's own record, before the     *)
(* core and the cluster are looked at.                                     *)

PstateIdle(ps, t) ==
    [(IF ps.cur # 0 THEN CloseCurrentPstate(ps, t) ELSE ps) EXCEPT !.idle = 1]

(* Slip: the clock is not restarted, so idle time counts as running. *)
PstateRunningNoReopen(ps, t) == [ps EXCEPT !.idle = 0]

PstateRunning(ps, t) ==
    [(IF ps.cur # 0 THEN OpenCurrentPstate(ps, t) ELSE ps) EXCEPT !.idle = 0]

ChangePstate(ps, f, t) ==
    LET al   == AllocPstate(ps, f)
        next == Position(ps.table, f)
    IN  CASE ps.idle = 1  -> [al EXCEPT !.cur = next]
          [] ps.idle = -1 -> OpenNextPstate(al, next, t)
          [] ps.idle = 0  ->
               OpenNextPstate(IF al.cur # 0 THEN CloseCurrentPstate(al, t)
                                            ELSE al, next, t)
=============================================================================

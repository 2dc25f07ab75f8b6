------------------------------- MODULE Ftrace -------------------------------
(***************************************************************************)
(* The kernel's ftrace control files as trace.c uses them, and what each   *)
(* write to them does.  An event's enable file stands for itself: a        *)
(* directory's reads 1 exactly when all its events are enabled, so saving  *)
(* and rewriting it changes nothing more.                                  *)
(***************************************************************************)
EXTENDS Naturals, Sequences

CONSTANTS OtherEvents   \* events idlestat has no use for

\* In the order idlestat_init_trace enables them.
WantedEvents == <<"cpu_idle", "cpu_frequency", "irq_handler_entry", "ipi_entry">>

Wanted == {WantedEvents[i] : i \in DOMAIN WantedEvents}
Events == Wanted \cup OtherEvents

ASSUME EventsAssumption == OtherEvents \cap Wanted = {}

\* tracing_on, buffer_size_kb, the enable files, and whose records are in
\* the ring buffer: left over from before, or of this run.
FtraceType ==
    [on: BOOLEAN, buffer: {"original", "enlarged"},
     events: SUBSET Events, ring: SUBSET {"old", "run"}]

TraceEnable(ft, b) == [ft EXCEPT !.on = b]
FlushTrace(ft)     == [ft EXCEPT !.ring = {}]
EnlargeBuffer(ft)  == [ft EXCEPT !.buffer = "enlarged"]
DisableAll(ft)     == [ft EXCEPT !.events = {}]
EnableEvent(ft, e) == [ft EXCEPT !.events = @ \cup {e}]

\* A record is written only while tracing is on and some event enabled.
Records(ft) == [ft EXCEPT !.ring = IF ft.on /\ ft.events # {}
                                   THEN @ \cup {"run"} ELSE @]

\* What idlestat_store_trace_options keeps of it.
StoreOptions(ft) == [buffer |-> ft.buffer, events |-> ft.events]
=============================================================================

------------------------------ MODULE Session -------------------------------
(***************************************************************************)
(* main(): one run of idlestat.  In trace mode it saves the kernel's       *)
(* ftrace settings, installs its own, records while the command (Execute)  *)
(* or a sleep lasts, stores the trace file and puts the settings back; in  *)
(* either mode it then loads the file and reports.  Every write to a       *)
(* control file (Ftrace) is a step of its own and may fail.                *)
(***************************************************************************)
EXTENDS Ftrace, Execute, Integers

CONSTANTS
    EnabledAtStart, \* the sets of events someone may have enabled before
    MaxFaults       \* bound: control files that cannot be opened or read

ASSUME SessionAssumption ==
    EnabledAtStart \subseteq SUBSET Events /\ MaxFaults \in Nat

None == [buffer |-> "none", events |-> {}]

VARIABLES
    pc,         \* where main is
    mode,       \* --trace or --import
    command,    \* a command follows the options
    baseline,   \* a baseline trace is given
    root,       \* run by root
    ft,         \* the kernel's ftrace state
    original,   \* ft when idlestat started (history)
    saved,      \* struct trace_options
    todo,       \* enable files not yet written back
    undone,     \* a write of the restoration failed
    file,       \* the trace file, -f
    stored,     \* whose records the trace file has
    code,       \* exit status, -1 while running
    faults      \* faults so far

mainVars == <<pc, mode, command, baseline, root, ft, original, saved, todo,
              undone, file, stored, code, faults>>
vars == <<mainVars, execVars>>

Options == <<mode, command, baseline, root, original>>

InitSteps == {"buffer", "total", "disable"} \cup Wanted

Places == {"options", "stop_first", "save", "flush", "start_ts", "start",
           "wake_first", "execute", "command", "wake_last", "stop", "end_ts",
           "store", "restore", "restore_events", "load", "load_baseline", "report",
           "exit", "abort"} \cup InitSteps

TypeOK ==
    /\ pc \in Places
    /\ mode \in {"trace", "import"}
    /\ {command, baseline, root, undone} \subseteq BOOLEAN
    /\ ft \in FtraceType /\ original \in FtraceType
    /\ saved = None \/ saved = StoreOptions(original)
    /\ todo \subseteq Events
    /\ file \in {"before", "no_records", "partial", "trace"}
    /\ stored \subseteq {"old", "run"}
    /\ code \in {-1, 0, 1}
    /\ faults \in 0 .. MaxFaults
    /\ ExecTypeOK

Init ==
    /\ pc = "options"
    /\ mode \in {"trace", "import"} /\ root \in BOOLEAN
    /\ command \in BOOLEAN /\ baseline \in BOOLEAN
    /\ timed \in BOOLEAN /\ (mode = "trace" => timed)
    /\ original \in [on: BOOLEAN, buffer: {"original"},
                     events: EnabledAtStart, ring: SUBSET {"old"}]
    /\ ft = original
    /\ saved = None /\ todo = {} /\ undone = FALSE
    /\ file = "before" /\ stored = {}
    /\ code = -1 /\ faults = 0
    /\ ExecInit

-----------------------------------------------------------------------------
\* A control file cannot be opened (never without root), or a call fails.
Fault ==
    \/ ~root /\ UNCHANGED faults
    \/ root /\ faults < MaxFaults /\ faults' = faults + 1

Goto(p) == pc' = p
Exit(n) == pc' = "exit" /\ code' = n

\* write_int: the new ftrace state, or -1 (Fails).
Write(new, ok) == root /\ ft' = new /\ Goto(ok) /\ UNCHANGED <<todo, code, faults>>

\* A call that leaves ftrace alone, and succeeds.
Done(ok) == Goto(ok) /\ UNCHANGED <<ft, todo, code, faults>>

Fails(handled) == Fault /\ handled /\ UNCHANGED ft

(* Slip: main returns -1, which the shell sees as 255. *)
GiveUpMinusOne == Exit(255) /\ UNCHANGED todo

\* The two ways main gives up: exit at once, or restore first.
GiveUp       == Exit(1) /\ UNCHANGED todo
RestoreFirst == Goto("restore") /\ todo' = saved.events /\ code' = 1

Keep == UNCHANGED <<Options, saved, undone, file, stored, execVars>>

(* Slip: a duration is enough to make idlestat trace. *)
ReadOptionsDuration ==
    /\ pc = "options"
    /\ \/ Exit(1)
       \/ /\ mode = "trace" => root
          /\ Goto(IF mode = "trace" \/ command \/ timed THEN "stop_first" ELSE "load")
          /\ UNCHANGED code
    /\ UNCHANGED <<ft, todo, faults>> /\ Keep

\* getoptions, the root check, and the report's own set-up.
ReadOptions ==
    /\ pc = "options"
    /\ \/ Exit(1)
       \/ /\ mode = "trace" => root
          /\ Goto(IF mode = "trace" \/ command THEN "stop_first" ELSE "load")
          /\ UNCHANGED code
    /\ UNCHANGED <<ft, todo, faults>> /\ Keep

StopFirst == pc = "stop_first" /\ Keep
             /\ (Write(TraceEnable(ft, FALSE), "save") \/ Fails(GiveUp))

StoreTraceOptions ==
    /\ pc = "save"
    /\ \/ saved' = StoreOptions(ft) /\ Goto("buffer")
          /\ UNCHANGED <<code, faults>>
       \/ Fault /\ Exit(1) /\ UNCHANGED saved
    /\ UNCHANGED <<Options, ft, todo, undone, file, stored, execVars>>

\* idlestat_init_trace; a missing ipi_entry is ignored.
NextWanted(e) ==
    IF e = "ipi_entry" THEN "flush"
    ELSE WantedEvents[1 + CHOOSE i \in DOMAIN WantedEvents : WantedEvents[i] = e]

IgnoreFault == Goto("flush") /\ UNCHANGED <<todo, code>>

InitTrace ==
    /\ \/ pc = "buffer" /\ (Write(EnlargeBuffer(ft), "total") \/ Fails(RestoreFirst))
       \/ pc = "total" /\ (Done("disable") \/ Fails(RestoreFirst))
       \/ /\ pc = "disable"
          /\ Write(DisableAll(ft), WantedEvents[1]) \/ Fails(RestoreFirst)
       \/ /\ pc \in Wanted \ {"ipi_entry"}
          /\ (Write(EnableEvent(ft, pc), NextWanted(pc)) \/ Fails(RestoreFirst))
       \/ pc = "ipi_entry" /\ (Write(EnableEvent(ft, pc), "flush") \/ Fails(IgnoreFault))
    /\ Keep

(* Slip: the buffer is not flushed. *)
FlushSkipped ==
    /\ pc = "flush" /\ (Done("start_ts") \/ Fails(RestoreFirst)) /\ Keep

Flush ==
    /\ pc = "flush" /\ (Write(FlushTrace(ft), "start_ts") \/ Fails(RestoreFirst))
    /\ Keep

(* Slip: a start that fails exits at once. *)
StartGivesUp ==
    /\ pc = "start" /\ (Write(TraceEnable(ft, TRUE), "wake_first") \/ Fails(GiveUp))
    /\ Keep

Start ==
    /\ pc = "start" /\ (Write(TraceEnable(ft, TRUE), "wake_first") \/ Fails(RestoreFirst))
    /\ Keep

\* get_trace_ts and idlestat_wake_all
Calls ==
    /\ \/ pc = "start_ts" /\ (Done("start") \/ Fails(RestoreFirst))
       \/ pc = "wake_first" /\ (Done("execute") \/ Fails(RestoreFirst))
       \/ pc = "wake_last" /\ (Done("stop") \/ Fails(RestoreFirst))
       \/ pc = "end_ts" /\ (Done("store") \/ Fails(RestoreFirst))
    /\ Keep

\* execute: without a command, sleep until the duration is over.
CallExecute ==
    /\ pc = "execute"
    /\ IF command THEN Goto("command") /\ at' = "fork"
                  ELSE Goto("wake_last") /\ UNCHANGED at
    /\ UNCHANGED <<Options, ft, saved, todo, undone, file, stored, code, faults,
                   timed, child, status, deaf, armed, handler, sigalrm, termSent>>

ExecuteReturns ==
    /\ pc = "command" /\ at \in {"ok", "failed"}
    /\ IF at = "ok" THEN Goto("wake_last") /\ UNCHANGED <<todo, code>>
                    ELSE RestoreFirst
    /\ UNCHANGED <<Options, ft, saved, undone, file, stored, faults, execVars>>

(* Slip: tracing is left on. *)
StopSkipped == pc = "stop" /\ (Done("end_ts") \/ Fails(RestoreFirst)) /\ Keep

Stop ==
    /\ pc = "stop" /\ (Write(TraceEnable(ft, FALSE), "end_ts") \/ Fails(RestoreFirst))
    /\ Keep

(* Slip: a store that fails is not noticed. *)
StoreUnchecked ==
    /\ pc = "store"
    /\ \/ file' = "trace" /\ stored' = ft.ring /\ UNCHANGED faults
       \/ Fault /\ file' = "partial" /\ stored' \in SUBSET ft.ring
       \/ Fault /\ file' \in {file, "no_records"} /\ UNCHANGED stored
    /\ Goto("restore") /\ todo' = saved.events /\ code' = 0
    /\ UNCHANGED <<Options, ft, saved, undone, execVars>>

\* idlestat_store.  Everything is written; or a write of the file or a read
\* of the trace fails, which fprintf, fclose and fgets tell and nobody asks;
\* or the file cannot be opened; or the trace cannot, when the file is already
\* truncated and its header written.
Store ==
    /\ pc = "store" /\ Goto("restore") /\ todo' = saved.events
    /\ \/ file' = "trace" /\ stored' = ft.ring /\ code' = 0 /\ UNCHANGED faults
       \/ Fault /\ file' = "partial" /\ stored' \in SUBSET ft.ring /\ code' = 0
       \/ Fault /\ file' \in {file, "no_records"} /\ code' = 1 /\ UNCHANGED stored
    /\ UNCHANGED <<Options, ft, saved, undone, execVars>>

\* idlestat_restore_trace_options: the buffer size, then the enable files
\* that read 1.  A failure is remembered, the rest is written all the same.
RestoreBuffer ==
    /\ pc = "restore" /\ Goto("restore_events")
    /\ \/ ft' = [ft EXCEPT !.buffer = saved.buffer]
          /\ UNCHANGED <<undone, faults>>
       \/ Fault /\ undone' = TRUE /\ UNCHANGED ft
    /\ UNCHANGED <<Options, saved, todo, file, stored, code, execVars>>

RestoreEvent(e) ==
    /\ pc = "restore_events" /\ e \in todo
    /\ todo' = todo \ {e}
    /\ \/ ft' = EnableEvent(ft, e) /\ UNCHANGED <<undone, faults>>
       \/ Fault /\ undone' = TRUE /\ UNCHANGED ft
    /\ UNCHANGED <<pc, Options, saved, file, stored, code, execVars>>

\* code tells main's two calls apart: 0 after the store, 1 on the way out.
RestoreReturns ==
    /\ pc = "restore_events" /\ todo = {}
    /\ IF code = 0 /\ ~undone THEN Goto("load") /\ code' = -1 ELSE Exit(1)
    /\ UNCHANGED <<Options, ft, saved, todo, undone, file, stored, faults, execVars>>

\* idlestat_load of the trace, then of the baseline; merge_pstates asserts
\* that the baseline was loaded before main looks at the result.
Load ==
    /\ pc = "load"
    /\ \/ Goto(IF baseline THEN "load_baseline" ELSE "report") /\ UNCHANGED code
       \/ Exit(1)
    /\ UNCHANGED <<ft, todo, faults>> /\ Keep

LoadBaseline ==
    /\ pc = "load_baseline"
    /\ Goto("report") \/ Goto("abort")
    /\ UNCHANGED <<ft, todo, code, faults>> /\ Keep

Report ==
    /\ pc = "report" /\ (Exit(0) \/ Exit(1))
    /\ UNCHANGED <<ft, todo, faults>> /\ Keep

Main == ReadOptions \/ StopFirst \/ StoreTraceOptions \/ InitTrace \/ Flush
          \/ Start \/ Calls \/ CallExecute \/ ExecuteReturns \/ Stop \/ Store
          \/ RestoreBuffer \/ (\E e \in Events : RestoreEvent(e))
          \/ RestoreReturns \/ Load \/ LoadBaseline \/ Report

\* Inside execute() the parent is the same process as main.
Running == pc \notin {"exit", "abort"} /\ at # "killed"

KernelRecords == Running /\ ft' = Records(ft) /\ ft' # ft
                 /\ UNCHANGED <<pc, Options, saved, todo, undone, file, stored,
                                code, faults, execVars>>

MainStep == Running /\ Main
ExecStep == Running /\ (Parent \/ AlarmFires \/ ChildEnds \/ ChildTakesTerm)
              /\ UNCHANGED mainVars

Next == MainStep \/ ExecStep \/ KernelRecords

\* idlestat is scheduled; the timer expires; SIGTERM is delivered.
Fairness ==
    /\ WF_vars(MainStep)
    /\ WF_vars(Running /\ Parent /\ UNCHANGED mainVars)
    /\ WF_vars(Running /\ AlarmFires /\ UNCHANGED mainVars)
    /\ WF_vars(Running /\ ChildTakesTerm /\ UNCHANGED mainVars)

Spec == Init /\ [][Next]_vars /\ Fairness

-----------------------------------------------------------------------------
(* Properties.                                                             *)

Ended == pc \in {"exit", "abort"}

\* Whatever goes wrong once the options are saved, idlestat does not exit
\* before it has put the buffer size and the enabled events back, unless
\* putting them back is what failed (main's error paths, trace.c).
OptionsRestored ==
    pc = "exit" /\ saved # None /\ ~undone =>
        /\ ft.buffer = original.buffer
        /\ original.events \subseteq ft.events

\* The trace file never holds records from before the run, although the
\* kernel may have been tracing when idlestat started (stop, flush, start).
StoredThisRunOnly == stored \subseteq {"run"}

\* The trace is only read once tracing is off (Stop before idlestat_store).
ReadWhileStopped == [][file' # file => ~ft.on]_vars

\* A run that traced and reports success has read the kernel's trace into its file
\* and has put the settings back: no failure that main is told of is lost on
\* its way through the restoration, the load and the report.  What it is not
\* told of, a full disk or a read error, may leave part of the trace out
\* (idlestat_store).
SuccessMeansDone ==
    pc = "exit" /\ code = 0 /\ (mode = "trace" \/ command) =>
        /\ file \in {"partial", "trace"}
        /\ ft.buffer = original.buffer /\ original.events \subseteq ft.events

\* Importing a trace changes neither the trace file nor the kernel's
\* settings, unless words behind the options are taken for a command.
ImportOnlyReads ==
    mode = "import" /\ ~command =>
        file = "before" /\ [ft EXCEPT !.ring = original.ring] = original

\* main never goes on while the command runs or is a zombie (execute).
NoOrphan == pc # "command" => child \in {"none", "reaped"}

\* SIGTERM goes to the command, never to a process id already given back.
SignalsOwnChild ==
    [][termSent' # termSent => child \in {"running", "zombie"}]_vars

\* idlestat is not killed by its own alarm, although SA_RESETHAND removes
\* the handler and a command killed early leaves the alarm armed.
AlarmIsHandled == at # "killed"

\* An alarm that finds the parent waiting ends in SIGTERM, or the command
\* has ended.
TermWhileWaiting ==
    (at = "blocked" /\ armed) ~> (termSent \/ child # "running")

\* idlestat.1: a command that is still running when the time is over is sent
\* SIGTERM.  An alarm just before the call of waitpid is lost.
TermOnTimeout ==
    (at = "waitpid" /\ armed) ~> (termSent \/ child # "running")

\* Without a command, or once a command that heeds SIGTERM has been sent
\* one, idlestat comes to an end.
SessionEnds == (~command \/ (termSent /\ ~deaf)) ~> Ended
=============================================================================

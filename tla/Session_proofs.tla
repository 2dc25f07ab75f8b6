--------------------------- MODULE Session_proofs ---------------------------
(***************************************************************************)
(* Safety of a run of idlestat, for any events the kernel has and any that *)
(* were enabled, and for any number of faults: the kernel's settings are   *)
(* put back, the trace file holds this run only, an import only reads, and *)
(* no command is left behind or signalled when it is gone.                 *)
(***************************************************************************)
EXTENDS Session, TLAPS

(* What each write to a control file does to the settings it is not about. *)
SameBut(f, g, fields) ==
    \A x \in {"on", "buffer", "events", "ring"} \ fields : f[x] = g[x]

LEMMA FtraceOps ==
    ASSUME NEW f \in FtraceType
    PROVE  /\ \A b \in BOOLEAN :
                /\ TraceEnable(f, b) \in FtraceType
                /\ SameBut(TraceEnable(f, b), f, {"on"})
                /\ TraceEnable(f, b).on = b
           /\ FlushTrace(f) \in FtraceType
           /\ SameBut(FlushTrace(f), f, {"ring"}) /\ FlushTrace(f).ring = {}
           /\ EnlargeBuffer(f) \in FtraceType
           /\ SameBut(EnlargeBuffer(f), f, {"buffer"})
           /\ DisableAll(f) \in FtraceType /\ SameBut(DisableAll(f), f, {"events"})
           /\ \A e \in Events :
                /\ EnableEvent(f, e) \in FtraceType
                /\ SameBut(EnableEvent(f, e), f, {"events"})
                /\ EnableEvent(f, e).events = f.events \cup {e}
           /\ Records(f) \in FtraceType /\ SameBut(Records(f), f, {"ring"})
           /\ Records(f).ring \subseteq f.ring \cup {"run"}
<1>1. /\ f = [on |-> f.on, buffer |-> f.buffer, events |-> f.events, ring |-> f.ring]
      /\ f.buffer \in {"original", "enlarged"} /\ f.events \subseteq Events
      /\ f.ring \subseteq {"old", "run"}
  BY DEF FtraceType
<1>2. f.on \in BOOLEAN
  BY Zenon DEF FtraceType
<1>3. ASSUME NEW b \in BOOLEAN
      PROVE  /\ TraceEnable(f, b) \in FtraceType
             /\ SameBut(TraceEnable(f, b), f, {"on"})
             /\ TraceEnable(f, b).on = b
  BY DEF TraceEnable, FtraceType, SameBut
<1>4. /\ FlushTrace(f) \in FtraceType
      /\ SameBut(FlushTrace(f), f, {"ring"}) /\ FlushTrace(f).ring = {}
  BY DEF FlushTrace, FtraceType, SameBut
<1>5. /\ EnlargeBuffer(f) \in FtraceType
      /\ SameBut(EnlargeBuffer(f), f, {"buffer"})
  BY DEF EnlargeBuffer, FtraceType, SameBut
<1>6. DisableAll(f) \in FtraceType /\ SameBut(DisableAll(f), f, {"events"})
  BY DEF DisableAll, FtraceType, SameBut
<1>7. ASSUME NEW e \in Events
      PROVE  /\ EnableEvent(f, e) \in FtraceType
             /\ SameBut(EnableEvent(f, e), f, {"events"})
             /\ EnableEvent(f, e).events = f.events \cup {e}
  BY DEF EnableEvent, FtraceType, SameBut
<1>8. /\ Records(f) \in FtraceType /\ SameBut(Records(f), f, {"ring"})
      /\ Records(f).ring \subseteq f.ring \cup {"run"}
  BY DEF Records, FtraceType, SameBut
<1> QED BY <1>3, <1>4, <1>5, <1>6, <1>7, <1>8

(* idlestat_init_trace enables the four events one after the other.        *)
LEMMA WantedNames ==
    /\ Wanted = {"cpu_idle", "cpu_frequency", "irq_handler_entry", "ipi_entry"}
    /\ Wanted \subseteq Events
    /\ WantedEvents[1] \in Wanted
    /\ \A e \in Wanted : NextWanted(e) \in Wanted \cup {"flush"}
<1>1. Wanted = {"cpu_idle", "cpu_frequency", "irq_handler_entry", "ipi_entry"}
  BY DEF Wanted, WantedEvents
<1>2. DOMAIN WantedEvents = 1 .. 4 /\ WantedEvents[4] = "ipi_entry"
  BY DEF WantedEvents
<1>3. \A i \in 1 .. 4 : WantedEvents[i] \in Wanted
  BY <1>2 DEF Wanted
<1>4. ASSUME NEW e \in Wanted
      PROVE  NextWanted(e) \in Wanted \cup {"flush"}
  <2>1. CASE e = "ipi_entry"
    BY <2>1 DEF NextWanted
  <2>2. CASE e # "ipi_entry"
    <3> DEFINE n == CHOOSE i \in DOMAIN WantedEvents : WantedEvents[i] = e
    <3>1. n \in 1 .. 4 /\ WantedEvents[n] = e
      BY <1>2 DEF Wanted
    <3>2. NextWanted(e) = WantedEvents[1 + n]
      BY <2>2 DEF NextWanted
    <3> HIDE DEF n
    <3>3. n # 4
      BY <1>2, <2>2, <3>1
    <3>4. 1 + n \in 1 .. 4
      BY <3>1, <3>3
    <3> QED BY <1>3, <3>2, <3>4
  <2> QED BY <2>1, <2>2
<1> QED BY <1>1, <1>3, <1>4 DEF Events

-----------------------------------------------------------------------------
(* The invariant.                                                          *)

Unsaved   == {"options", "stop_first", "save"}
Finishing == {"load", "load_baseline", "report", "exit", "abort"}
Prepared  == {"start_ts", "start", "wake_first", "execute"}
Recorded  == {"command", "wake_last", "stop", "end_ts", "store"}
Restoring == {"restore", "restore_events"}

(* What is out of main's reach while the session is under way.             *)
PlacesOK ==
    /\ pc \in Places
    /\ ft \in FtraceType /\ original \in FtraceType
    /\ saved = None \/ saved = StoreOptions(original)
    /\ todo \subseteq Events /\ faults \in 0 .. MaxFaults

(* The command is alive or a zombie exactly between fork and waitpid's     *)
(* return, which is inside the call of execute; and the alarm is armed     *)
(* only once its handler is there.                                         *)
ChildOK ==
    /\ at \in {"none", "fork", "status", "ok", "failed"} => child \in {"none", "reaped"}
    /\ at \in {"sigaction", "alarm", "waitpid", "blocked", "eintr"} =>
          child \in {"running", "zombie"}
    /\ at \in {"none", "fork", "sigaction", "alarm", "waitpid", "blocked", "eintr",
               "status", "ok", "failed"}
    /\ armed => /\ handler = "sighandler"
                /\ at \notin {"none", "fork", "sigaction", "alarm"}
    /\ at = "alarm" => handler = "sighandler"
    /\ pc # "command" => at \in {"none", "ok", "failed"}
    /\ pc \in Unsaved \cup InitSteps \cup {"flush"} \cup Prepared => at = "none"

Restored == ft.buffer = original.buffer /\ original.events \subseteq ft.events

(* The settings are those of the start until they are saved, and again     *)
(* once they have been written back.                                       *)
SettingsOK ==
    /\ pc \in Unsaved => saved = None /\ ft.buffer = original.buffer
                                      /\ ft.events = original.events
    /\ pc \in InitSteps \cup {"flush"} \cup Prepared \cup Recorded \cup Restoring =>
          saved = StoreOptions(original)
    /\ pc = "restore" => todo = original.events
    /\ pc = "restore_events" /\ ~undone =>
          /\ ft.buffer = original.buffer
          /\ original.events \subseteq ft.events \cup todo
    /\ pc \in Finishing /\ saved # None /\ ~undone => Restored

(* A run that goes on after the session has opened the kernel's trace and  *)
(* its file, and has put the settings back.                                *)
Stored == file \in {"partial", "trace"}
DoneOK == Stored /\ saved # None /\ ~undone

(* The buffer has been flushed before the command runs, tracing is off     *)
(* before the file is written, and a run that goes on has written it.      *)
FileOK ==
    /\ pc \in Prepared \cup Recorded => ft.ring \subseteq {"run"}
    /\ stored \subseteq {"run"}
    /\ pc = "end_ts" \/ pc = "store" => ft.on = FALSE
    /\ pc \in Restoring /\ code = 0 => Stored
    /\ pc \in {"load", "load_baseline", "report"} /\ (mode = "trace" \/ command) => DoneOK
    /\ pc = "exit" /\ code = 0 /\ (mode = "trace" \/ command) => DoneOK

ImportOK ==
    mode = "import" /\ ~command =>
        /\ pc \in {"options"} \cup Finishing /\ file = "before"
        /\ SameBut(ft, original, {"ring"})

Inv == PlacesOK /\ ChildOK /\ SettingsOK /\ FileOK /\ ImportOK

LEMMA InitInv == Init => Inv
<1> SUFFICES ASSUME Init
             PROVE  Inv
  OBVIOUS
<1>1. PlacesOK
  <2>1. original \in FtraceType
    BY SessionAssumption DEF Init, FtraceType
  <2> QED BY <2>1, SessionAssumption DEF Init, PlacesOK, Places
<1>2. ChildOK
  BY DEF Init, ExecInit, ChildOK
<1>3. SettingsOK
  BY WantedNames DEF Init, SettingsOK, Unsaved, InitSteps, Prepared, Recorded, Restoring, Finishing
<1>4. FileOK
  BY DEF Init, FileOK, Prepared, Recorded, Restoring
<1>5. ImportOK
  BY DEF Init, ImportOK, SameBut
<1> QED BY <1>1, <1>2, <1>3, <1>4, <1>5 DEF Inv

-----------------------------------------------------------------------------
(* Steps of execute(), of the signal and of the command.                   *)

LEMMA ExecStepInv == Inv /\ ExecStep => Inv'
<1> SUFFICES ASSUME Inv, ExecStep
             PROVE  Inv'
  OBVIOUS
<1>1. UNCHANGED mainVars
  BY DEF ExecStep
<1>2. PlacesOK' /\ SettingsOK' /\ FileOK' /\ ImportOK'
  BY <1>1 DEF Inv, mainVars, PlacesOK, SettingsOK, FileOK, Stored, DoneOK, ImportOK, Restored
<1>3. ChildOK'
  <2>1. ChildOK /\ pc' = pc
    BY <1>1 DEF Inv, mainVars
  <2> USE <2>1 DEF ChildOK
  <2>2. CASE ForkFails
    BY <2>2 DEF ForkFails
  <2>3. CASE Fork
    BY <2>3 DEF Fork
  <2>4. CASE SetHandler
    BY <2>4 DEF SetHandler
  <2>5. CASE SetAlarm
    BY <2>5 DEF SetAlarm
  <2>6. CASE Waitpid
    BY <2>6 DEF Waitpid
  <2>7. CASE Interrupted
    BY <2>7 DEF Interrupted
  <2>8. CASE CheckStatus
    BY <2>8 DEF CheckStatus
  <2>9. CASE AlarmFires
    BY <2>9 DEF AlarmFires
  <2>10. CASE ChildEnds
    BY <2>10 DEF ChildEnds
  <2>11. CASE ChildTakesTerm
    BY <2>11 DEF ChildTakesTerm
  <2> QED BY <2>2, <2>3, <2>4, <2>5, <2>6, <2>7, <2>8, <2>9, <2>10, <2>11
          DEF ExecStep, Parent
<1> QED BY <1>2, <1>3 DEF Inv

(* The kernel writes records.                                              *)
LEMMA KernelRecordsInv == Inv /\ KernelRecords => Inv'
<1> SUFFICES ASSUME Inv, KernelRecords
             PROVE  Inv'
  OBVIOUS
<1>1. /\ UNCHANGED <<pc, Options, saved, todo, undone, file, stored, code, faults,
                     execVars>>
      /\ ft' = Records(ft) /\ ft \in FtraceType
  BY DEF KernelRecords, Inv, PlacesOK
<1>2. /\ ft' \in FtraceType /\ SameBut(ft', ft, {"ring"})
      /\ ft'.ring \subseteq ft.ring \cup {"run"}
  BY <1>1, FtraceOps
<1>3. PlacesOK' /\ ChildOK'
  BY <1>1, <1>2 DEF Inv, PlacesOK, ChildOK, Options, execVars
<1>4. SettingsOK' /\ FileOK' /\ ImportOK'
  BY <1>1, <1>2 DEF Inv, SettingsOK, FileOK, Stored, DoneOK, ImportOK, Restored, SameBut, Options
<1> QED BY <1>3, <1>4 DEF Inv

-----------------------------------------------------------------------------
(* Steps of main.                                                          *)

(* The sets of places that the invariant speaks of, spelled out.           *)
LEMMA PlaceSets ==
    /\ InitSteps = {"buffer", "total", "disable"} \cup Wanted
    /\ Wanted = {"cpu_idle", "cpu_frequency", "irq_handler_entry", "ipi_entry"}
    /\ InitSteps \subseteq Places /\ "flush" \in Places
BY WantedNames DEF InitSteps, Places

(* While main is not in execute, the command and the alarm are not its     *)
(* concern.                                                                *)
LEMMA ElsewhereChild ==
    ASSUME ChildOK, UNCHANGED execVars, pc # "command", pc' # "command",
           pc' \in Unsaved \cup InitSteps \cup {"flush"} \cup Prepared =>
                pc \in Unsaved \cup InitSteps \cup {"flush"} \cup Prepared
    PROVE  ChildOK'
BY DEF ChildOK, execVars

LEMMA ReadOptionsInv == Inv /\ ReadOptions => Inv'
<1> SUFFICES ASSUME Inv, ReadOptions
             PROVE  Inv'
  OBVIOUS
<1>1. /\ UNCHANGED <<Options, ft, saved, todo, undone, file, stored, faults, execVars>>
      /\ pc = "options"
      /\ \/ pc' = "exit" /\ code' = 1
         \/ /\ code' = code
            /\ pc' = IF mode = "trace" \/ command THEN "stop_first" ELSE "load"
  BY DEF ReadOptions, Keep, Exit, Goto
<1>2. PlacesOK'
  BY <1>1 DEF Inv, PlacesOK, Places, Options
<1>3. ChildOK'
  BY <1>1, ElsewhereChild, PlaceSets DEF Inv, Unsaved, Prepared
<1>4. SettingsOK' /\ FileOK' /\ ImportOK'
  BY <1>1, PlaceSets DEF Inv, SettingsOK, FileOK, Stored, DoneOK, ImportOK, Restored, Options,
        Unsaved, Finishing, Prepared, Recorded, Restoring
<1> QED BY <1>2, <1>3, <1>4 DEF Inv

(* MaxFaults bounds the faults.                                            *)
LEMMA FaultsBounded ==
    ASSUME Inv, Fault \/ UNCHANGED faults
    PROVE  faults' \in 0 .. MaxFaults
BY SessionAssumption DEF Inv, PlacesOK, Fault

LEMMA StopFirstInv == Inv /\ StopFirst => Inv'
<1> SUFFICES ASSUME Inv, StopFirst
             PROVE  Inv'
  OBVIOUS
<1>1. UNCHANGED <<Options, saved, todo, undone, file, stored, execVars>> /\ pc = "stop_first"
  BY DEF StopFirst, Keep, Write, Fails, GiveUp
<1>2. pc' = "save" \/ (pc' = "exit" /\ code' = 1)
  BY DEF StopFirst, Write, Fails, GiveUp, Exit, Goto
<1>3. Fault \/ UNCHANGED faults
  BY DEF StopFirst, Write, Fails
<1>4. ft' \in FtraceType /\ SameBut(ft', ft, {"on"})
  <2>1. ft \in FtraceType /\ FALSE \in BOOLEAN
    BY DEF Inv, PlacesOK
  <2>2. TraceEnable(ft, FALSE) \in FtraceType /\ SameBut(TraceEnable(ft, FALSE), ft, {"on"})
    BY <2>1, FtraceOps, Zenon
  <2>3. ft' = TraceEnable(ft, FALSE) \/ ft' = ft
    BY DEF StopFirst, Write, Fails
  <2> QED BY <2>1, <2>2, <2>3, Zenon DEF SameBut
<1>5. PlacesOK'
  BY <1>1, <1>2, <1>3, <1>4, FaultsBounded DEF Inv, PlacesOK, Places, Options
<1>6. ChildOK'
  BY <1>1, <1>2, ElsewhereChild, PlaceSets DEF Inv, Unsaved, Prepared
<1>7. SettingsOK' /\ FileOK' /\ ImportOK'
  BY <1>1, <1>2, <1>4, PlaceSets DEF Inv, SettingsOK, FileOK, Stored, DoneOK, ImportOK, Restored, Options,
        Unsaved, Finishing, Prepared, Recorded, Restoring, SameBut
<1> QED BY <1>5, <1>6, <1>7 DEF Inv

LEMMA StoreTraceOptionsInv == Inv /\ StoreTraceOptions => Inv'
<1> SUFFICES ASSUME Inv, StoreTraceOptions
             PROVE  Inv'
  OBVIOUS
<1>1. /\ UNCHANGED <<Options, ft, todo, undone, file, stored, execVars>>
      /\ pc = "save"
      /\ \/ saved' = StoreOptions(ft) /\ pc' = "buffer" /\ UNCHANGED <<code, faults>>
         \/ Fault /\ pc' = "exit" /\ code' = 1 /\ UNCHANGED saved
  BY DEF StoreTraceOptions, Exit, Goto
<1>2. StoreOptions(ft) = StoreOptions(original)
  BY <1>1 DEF Inv, SettingsOK, Unsaved, StoreOptions
<1>3. PlacesOK'
  <2>1. faults' \in 0 .. MaxFaults
    BY <1>1, FaultsBounded
  <2> QED BY <1>1, <1>2, <2>1, PlaceSets DEF Inv, PlacesOK, Places, Options
<1>4. ChildOK'
  BY <1>1, ElsewhereChild, PlaceSets DEF Inv, Unsaved, Prepared
<1>5. SettingsOK' /\ FileOK' /\ ImportOK'
  BY <1>1, <1>2, PlaceSets DEF Inv, SettingsOK, FileOK, Stored, DoneOK, ImportOK, Restored, Options,
        Unsaved, Finishing, Prepared, Recorded, Restoring
<1> QED BY <1>3, <1>4, <1>5 DEF Inv

(* A step of the session proper, from the first setting to the end of the  *)
(* recording: it writes one control file or makes one call, or it fails,   *)
(* and then the settings are put back.                                     *)
Underway == InitSteps \cup {"flush"} \cup Prepared \cup {"wake_last", "stop", "end_ts"}

Advances(new, next) == ft' = new /\ pc' = next /\ UNCHANGED <<todo, code, faults>>
Retreats == UNCHANGED ft /\ Fault /\ pc' = "restore" /\ todo' = saved.events /\ code' = 1

LEMMA RetreatsInv ==
    ASSUME Inv, Keep, pc \in Underway, Retreats
    PROVE  Inv'
<1>1. UNCHANGED <<Options, ft, saved, undone, file, stored, execVars>>
  BY DEF Keep, Retreats
<1>2. saved = StoreOptions(original) /\ todo' = original.events
      /\ pc' = "restore" /\ code' = 1
  BY DEF Inv, SettingsOK, Underway, Retreats, StoreOptions, Recorded
<1>3. PlacesOK'
  <2>1. faults' \in 0 .. MaxFaults
    BY FaultsBounded DEF Retreats
  <2>2. original.events \subseteq Events
    BY DEF Inv, PlacesOK, FtraceType
  <2> QED BY <1>1, <1>2, <2>1, <2>2 DEF Inv, PlacesOK, Places, Options
<1>4. ChildOK'
  BY <1>1, <1>2, ElsewhereChild, PlaceSets DEF Inv, Unsaved, Prepared, Underway
<1>5. SettingsOK' /\ FileOK' /\ ImportOK'
  BY <1>1, <1>2, PlaceSets DEF Inv, SettingsOK, FileOK, Stored, DoneOK, ImportOK, Restored, Options,
        Unsaved, Finishing, Prepared, Recorded, Restoring, Underway
<1> QED BY <1>3, <1>4, <1>5 DEF Inv

LEMMA AdvancesInv ==
    ASSUME Inv, Keep, NEW new \in FtraceType, NEW next \in Underway \cup {"store"},
           pc \in Underway, Advances(new, next),
           next \in Unsaved \cup InitSteps \cup {"flush"} \cup Prepared =>
                pc \in Unsaved \cup InitSteps \cup {"flush"} \cup Prepared,
           next \in Prepared \cup Recorded => new.ring \subseteq {"run"},
           next \in {"end_ts", "store"} => new.on = FALSE
    PROVE  Inv'
<1>1. /\ UNCHANGED <<Options, saved, undone, file, stored, todo, code, faults, execVars>>
      /\ ft' = new /\ pc' = next
  BY DEF Keep, Advances
<1>2. PlacesOK'
  BY <1>1, PlaceSets DEF Inv, PlacesOK, Options, Underway, Prepared, Places
<1>3. ChildOK'
  BY <1>1, ElsewhereChild, PlaceSets DEF Inv, Unsaved, Prepared, Underway
<1>4. SettingsOK'
  BY <1>1, PlaceSets DEF Inv, SettingsOK, Options,
        Unsaved, Finishing, Prepared, Recorded, Restoring, Underway
<1>5. FileOK' /\ ImportOK'
  BY <1>1, PlaceSets DEF Inv, FileOK, Stored, DoneOK, ImportOK, Options,
        Unsaved, Finishing, Prepared, Recorded, Restoring, Underway
<1> QED BY <1>2, <1>3, <1>4, <1>5 DEF Inv

LEMMA InitTraceInv == Inv /\ InitTrace => Inv'
<1> SUFFICES ASSUME Inv, InitTrace
             PROVE  Inv'
  OBVIOUS
<1>1. ft \in FtraceType /\ Keep /\ pc \in InitSteps
  BY PlaceSets DEF Inv, PlacesOK, InitTrace
<1>2. CASE Retreats
  BY <1>1, <1>2, RetreatsInv DEF Underway
<1>3. CASE \E new \in FtraceType, next \in InitSteps \cup {"flush"} : Advances(new, next)
  <2>1. PICK new \in FtraceType, next \in InitSteps \cup {"flush"} : Advances(new, next)
    BY <1>3
  <2>2. next \notin Prepared \cup Recorded \cup {"end_ts", "store"}
    BY PlaceSets DEF Prepared, Recorded
  <2> QED BY <1>1, <2>1, <2>2, AdvancesInv DEF Underway
<1>4. CASE pc = "ipi_entry" /\ UNCHANGED ft /\ Fault /\ IgnoreFault
  <2>1. UNCHANGED <<Options, ft, saved, undone, file, stored, todo, code, execVars>>
        /\ pc' = "flush" /\ faults' \in 0 .. MaxFaults
    BY <1>1, <1>4, SessionAssumption DEF Keep, IgnoreFault, Goto, Fault, Inv, PlacesOK
  <2>2. PlacesOK'
    BY <2>1, PlaceSets DEF Inv, PlacesOK, Options, Places
  <2>3. ChildOK'
    BY <1>1, <2>1, ElsewhereChild, PlaceSets DEF Inv, Unsaved, Prepared
  <2>4. SettingsOK' /\ FileOK' /\ ImportOK'
    BY <1>1, <2>1, PlaceSets DEF Inv, SettingsOK, FileOK, Stored, DoneOK, ImportOK, Options,
          Unsaved, Finishing, Prepared, Recorded, Restoring
  <2> QED BY <2>2, <2>3, <2>4 DEF Inv
<1>5. CASE pc = "buffer"
  <2>1. Advances(EnlargeBuffer(ft), "total") \/ Retreats
    BY <1>5, PlaceSets DEF InitTrace, Write, Fails, RestoreFirst, Goto, Advances, Retreats
  <2> QED BY <1>1, <1>2, <1>3, <2>1, FtraceOps, PlaceSets
<1>6. CASE pc = "total"
  <2>1. Advances(ft, "disable") \/ Retreats
    BY <1>6, PlaceSets DEF InitTrace, Done, Fails, RestoreFirst, Goto, Advances, Retreats
  <2> QED BY <1>1, <1>2, <1>3, <2>1, PlaceSets
<1>7. CASE pc = "disable"
  <2>1. Advances(DisableAll(ft), WantedEvents[1]) \/ Retreats
    BY <1>7, PlaceSets DEF InitTrace, Write, Fails, RestoreFirst, Goto, Advances, Retreats
  <2>2. WantedEvents[1] \in InitSteps
    BY WantedNames, PlaceSets
  <2> QED BY <1>1, <1>2, <1>3, <2>1, <2>2, FtraceOps
<1>8. CASE pc \in Wanted
  <2>1. \/ Advances(EnableEvent(ft, pc), NextWanted(pc)) \/ Retreats
        \/ Advances(EnableEvent(ft, pc), "flush")
        \/ pc = "ipi_entry" /\ UNCHANGED ft /\ Fault /\ IgnoreFault
    BY <1>8, PlaceSets DEF InitTrace, Write, Fails, RestoreFirst, Goto, Advances, Retreats
  <2>2. NextWanted(pc) \in InitSteps \cup {"flush"} /\ pc \in Events
    BY <1>8, WantedNames, PlaceSets
  <2>3. EnableEvent(ft, pc) \in FtraceType
    BY <1>1, <2>2, FtraceOps
  <2> QED BY <1>2, <1>3, <1>4, <2>1, <2>2, <2>3
<1> QED BY <1>1, <1>5, <1>6, <1>7, <1>8, PlaceSets

LEMMA FlushInv == Inv /\ Flush => Inv'
<1> SUFFICES ASSUME Inv, Flush
             PROVE  Inv'
  OBVIOUS
<1>1. Keep /\ pc = "flush" /\ ft \in FtraceType
  BY DEF Flush, Inv, PlacesOK
<1>2. Advances(FlushTrace(ft), "start_ts") \/ Retreats
  BY DEF Flush, Write, Fails, RestoreFirst, Goto, Advances, Retreats
<1>3. FlushTrace(ft) \in FtraceType /\ FlushTrace(ft).ring = {}
  BY <1>1, FtraceOps
<1>4. "flush" \in Underway /\ "start_ts" \in Underway
  BY DEF Underway, Prepared
<1> QED BY <1>1, <1>2, <1>3, <1>4, RetreatsInv, AdvancesInv

LEMMA StartInv == Inv /\ Start => Inv'
<1> SUFFICES ASSUME Inv, Start
             PROVE  Inv'
  OBVIOUS
<1> DEFINE new == TraceEnable(ft, TRUE)
<1>1. Keep /\ pc = "start" /\ ft \in FtraceType
  BY DEF Start, Inv, PlacesOK
<1>2. Advances(new, "wake_first") \/ Retreats
  BY DEF Start, Write, Fails, RestoreFirst, Goto, Advances, Retreats
<1>3. new \in FtraceType /\ new.ring = ft.ring
  <2>1. new \in FtraceType /\ SameBut(new, ft, {"on"})
    BY <1>1, FtraceOps, Zenon
  <2> HIDE DEF new
  <2> QED BY <2>1 DEF SameBut
<1>4. ft.ring \subseteq {"run"}
  BY <1>1 DEF Inv, FileOK, Prepared
<1>5. pc \in Underway /\ "wake_first" \in Underway /\ pc \in Prepared
  BY <1>1 DEF Underway, Prepared
<1> HIDE DEF new
<1> QED BY <1>1, <1>2, <1>3, <1>4, <1>5, RetreatsInv, AdvancesInv

LEMMA StopInv == Inv /\ Stop => Inv'
<1> SUFFICES ASSUME Inv, Stop
             PROVE  Inv'
  OBVIOUS
<1> DEFINE new == TraceEnable(ft, FALSE)
<1>1. Keep /\ pc = "stop" /\ ft \in FtraceType
  BY DEF Stop, Inv, PlacesOK
<1>2. Advances(new, "end_ts") \/ Retreats
  BY DEF Stop, Write, Fails, RestoreFirst, Goto, Advances, Retreats
<1>3. new \in FtraceType /\ new.ring = ft.ring /\ new.on = FALSE
  <2>1. new \in FtraceType /\ SameBut(new, ft, {"on"}) /\ new.on = FALSE
    BY <1>1, FtraceOps, Zenon
  <2> HIDE DEF new
  <2> QED BY <2>1 DEF SameBut
<1>4. ft.ring \subseteq {"run"}
  BY <1>1 DEF Inv, FileOK, Recorded
<1>5. /\ pc \in Underway /\ "end_ts" \in Underway
      /\ "end_ts" \notin Unsaved \cup InitSteps \cup {"flush"} \cup Prepared
  BY <1>1, PlaceSets DEF Underway, Prepared, Unsaved
<1> HIDE DEF new
<1> QED BY <1>1, <1>2, <1>3, <1>4, <1>5, RetreatsInv, AdvancesInv

LEMMA CallsInv == Inv /\ Calls => Inv'
<1> SUFFICES ASSUME Inv, Calls
             PROVE  Inv'
  OBVIOUS
<1>1. /\ Keep /\ ft \in FtraceType
      /\ pc \in {"start_ts", "wake_first", "wake_last", "end_ts"}
  BY DEF Calls, Inv, PlacesOK
<1>2. /\ pc \in Underway /\ pc \in Prepared \cup Recorded
      /\ ft.ring \subseteq {"run"} /\ (pc = "end_ts" => ft.on = FALSE)
  BY <1>1 DEF Underway, Prepared, Recorded, Inv, FileOK
<1>3. CASE Retreats
  BY <1>1, <1>2, <1>3, RetreatsInv
<1>4. CASE \/ pc = "start_ts" /\ Advances(ft, "start")
           \/ pc = "wake_first" /\ Advances(ft, "execute")
  <2>1. \E next \in Prepared : Advances(ft, next)
    BY <1>4 DEF Prepared
  <2>2. \A next \in Prepared : next \in Underway /\ next \notin {"end_ts", "store"}
    BY DEF Prepared, Underway
  <2>3. pc \in Prepared
    BY <1>4 DEF Prepared
  <2> QED BY <1>1, <1>2, <2>1, <2>2, <2>3, AdvancesInv
<1>5. CASE pc = "wake_last" /\ Advances(ft, "stop")
  <2>1. /\ "stop" \in Underway
        /\ "stop" \notin Unsaved \cup InitSteps \cup {"flush"} \cup Prepared
    BY PlaceSets DEF Underway, Unsaved, Prepared
  <2> QED BY <1>1, <1>2, <1>5, <2>1, AdvancesInv
<1>6. CASE pc = "end_ts" /\ Advances(ft, "store")
  <2>1. "store" \notin Unsaved \cup InitSteps \cup {"flush"} \cup Prepared
    BY PlaceSets DEF Unsaved, Prepared
  <2> QED BY <1>1, <1>2, <1>6, <2>1, AdvancesInv
<1> QED BY <1>3, <1>4, <1>5, <1>6
        DEF Calls, Done, Fails, RestoreFirst, Goto, Advances, Retreats

LEMMA CallExecuteInv == Inv /\ CallExecute => Inv'
<1> SUFFICES ASSUME Inv, CallExecute
             PROVE  Inv'
  OBVIOUS
<1>1. /\ UNCHANGED <<Options, ft, saved, todo, undone, file, stored, code, faults,
                     child, armed, handler>>
      /\ pc = "execute"
      /\ \/ pc' = "command" /\ at' = "fork"
         \/ pc' = "wake_last" /\ at' = at
  BY DEF CallExecute, Goto
<1>2. PlacesOK'
  BY <1>1 DEF Inv, PlacesOK, Places, Options
<1>3. ChildOK'
  BY <1>1, PlaceSets DEF Inv, ChildOK, Unsaved, Prepared
<1>4. SettingsOK' /\ FileOK' /\ ImportOK'
  BY <1>1, PlaceSets DEF Inv, SettingsOK, FileOK, Stored, DoneOK, ImportOK, Options,
        Unsaved, Finishing, Prepared, Recorded, Restoring
<1> QED BY <1>2, <1>3, <1>4 DEF Inv

LEMMA ExecuteReturnsInv == Inv /\ ExecuteReturns => Inv'
<1> SUFFICES ASSUME Inv, ExecuteReturns
             PROVE  Inv'
  OBVIOUS
<1>1. /\ UNCHANGED <<Options, ft, saved, undone, file, stored, faults, execVars>>
      /\ pc = "command" /\ at \in {"ok", "failed"}
      /\ \/ pc' = "wake_last" /\ UNCHANGED <<todo, code>>
         \/ pc' = "restore" /\ todo' = saved.events /\ code' = 1
  BY DEF ExecuteReturns, RestoreFirst, Goto
<1>2. saved.events = original.events /\ original.events \subseteq Events
  BY <1>1 DEF Inv, SettingsOK, Recorded, StoreOptions, PlacesOK, FtraceType
<1>3. PlacesOK'
  BY <1>1, <1>2 DEF Inv, PlacesOK, Places, Options
<1>4. ChildOK'
  BY <1>1, PlaceSets DEF Inv, ChildOK, Unsaved, Prepared, execVars
<1>5. SettingsOK' /\ FileOK' /\ ImportOK'
  BY <1>1, <1>2, PlaceSets DEF Inv, SettingsOK, FileOK, Stored, DoneOK, ImportOK, Options,
        Unsaved, Finishing, Prepared, Recorded, Restoring
<1> QED BY <1>3, <1>4, <1>5 DEF Inv

LEMMA StoreInv == Inv /\ Store => Inv'
<1> SUFFICES ASSUME Inv, Store
             PROVE  Inv'
  OBVIOUS
<1>1. /\ UNCHANGED <<Options, ft, saved, undone, execVars>>
      /\ pc = "store" /\ pc' = "restore" /\ todo' = saved.events
      /\ \/ file' = "trace" /\ stored' = ft.ring /\ code' = 0 /\ UNCHANGED faults
         \/ Fault /\ file' = "partial" /\ stored' \subseteq ft.ring /\ code' = 0
         \/ Fault /\ code' = 1 /\ UNCHANGED stored
  BY DEF Store, Goto
<1>2. /\ saved.events = original.events /\ original.events \subseteq Events
      /\ ft.ring \subseteq {"run"}
  BY <1>1 DEF Inv, SettingsOK, FileOK, Recorded, StoreOptions, PlacesOK, FtraceType
<1>3. PlacesOK'
  BY <1>1, <1>2, FaultsBounded DEF Inv, PlacesOK, Places, Options
<1>4. ChildOK'
  BY <1>1, ElsewhereChild, PlaceSets DEF Inv, Unsaved, Prepared
<1>5. SettingsOK'
  BY <1>1, <1>2, PlaceSets DEF Inv, SettingsOK, Options,
        Unsaved, Finishing, Prepared, Recorded, Restoring
<1>6. FileOK'
  <2>1. stored' \subseteq ft.ring \/ stored' = stored
    BY <1>1
  <2>2. stored' \subseteq {"run"}
    BY <1>2, <2>1 DEF Inv, FileOK
  <2>3. code' = 0 => Stored'
    BY <1>1 DEF Stored
  <2> QED BY <1>1, <2>2, <2>3 DEF FileOK, Prepared, Recorded, Restoring
<1>7. ImportOK'
  BY <1>1 DEF Inv, ImportOK, Options, Finishing
<1> QED BY <1>3, <1>4, <1>5, <1>6, <1>7 DEF Inv

-----------------------------------------------------------------------------
(* The restoration, and what follows it.                                   *)

LEMMA RestoreBufferInv == Inv /\ RestoreBuffer => Inv'
<1> SUFFICES ASSUME Inv, RestoreBuffer
             PROVE  Inv'
  OBVIOUS
<1>1. /\ UNCHANGED <<Options, saved, todo, file, stored, code, execVars>>
      /\ pc = "restore" /\ pc' = "restore_events"
      /\ \/ ft' = [ft EXCEPT !.buffer = saved.buffer] /\ UNCHANGED <<undone, faults>>
         \/ Fault /\ undone' = TRUE /\ UNCHANGED ft
  BY DEF RestoreBuffer, Goto
<1>2. /\ saved.buffer = original.buffer /\ todo = original.events
      /\ ft \in FtraceType /\ original \in FtraceType
  BY <1>1, PlaceSets DEF Inv, SettingsOK, Restoring, StoreOptions, PlacesOK
<1>3. CASE Fault /\ undone' = TRUE /\ UNCHANGED ft
  <2>1. PlacesOK'
    BY <1>1, <1>3, FaultsBounded DEF Inv, PlacesOK, Places, Options
  <2>2. ChildOK'
    BY <1>1, ElsewhereChild, PlaceSets DEF Inv, Unsaved, Prepared
  <2>3. SettingsOK' /\ FileOK' /\ ImportOK'
    BY <1>1, <1>3, PlaceSets DEF Inv, SettingsOK, FileOK, Stored, DoneOK, ImportOK, Options,
          Unsaved, Finishing, Prepared, Recorded, Restoring
  <2> QED BY <2>1, <2>2, <2>3 DEF Inv
<1>4. CASE ft' = [ft EXCEPT !.buffer = saved.buffer] /\ UNCHANGED <<undone, faults>>
  <2>1. ft' \in FtraceType /\ ft'.buffer = original.buffer
    BY <1>2, <1>4 DEF FtraceType
  <2>2. PlacesOK'
    BY <1>1, <1>4, <2>1 DEF Inv, PlacesOK, Places, Options
  <2>3. ChildOK'
    BY <1>1, ElsewhereChild, PlaceSets DEF Inv, Unsaved, Prepared
  <2>4. SettingsOK' /\ FileOK' /\ ImportOK'
    BY <1>1, <1>2, <2>1, PlaceSets DEF Inv, SettingsOK, FileOK, Stored, DoneOK, ImportOK, Options,
          Unsaved, Finishing, Prepared, Recorded, Restoring
  <2> QED BY <2>2, <2>3, <2>4 DEF Inv
<1> QED BY <1>1, <1>3, <1>4

(* Every event still to be written back stays on the list until it is.     *)
LEMMA RestoreEventInv == Inv /\ (\E e \in Events : RestoreEvent(e)) => Inv'
<1> SUFFICES ASSUME Inv, NEW e \in Events, RestoreEvent(e)
             PROVE  Inv'
  OBVIOUS
<1>1. /\ UNCHANGED <<pc, Options, saved, file, stored, code, execVars>>
      /\ pc = "restore_events" /\ todo' = todo \ {e}
      /\ \/ ft' = EnableEvent(ft, e) /\ UNCHANGED <<undone, faults>>
         \/ Fault /\ undone' = TRUE /\ UNCHANGED ft
  BY DEF RestoreEvent
<1>2. ft \in FtraceType
  BY DEF Inv, PlacesOK
<1>3. CASE Fault /\ undone' = TRUE /\ UNCHANGED ft
  <2>1. PlacesOK'
    BY <1>1, <1>3, FaultsBounded DEF Inv, PlacesOK, Places, Options
  <2>2. ChildOK'
    BY <1>1, ElsewhereChild, PlaceSets DEF Inv, Unsaved, Prepared
  <2>3. SettingsOK' /\ FileOK' /\ ImportOK'
    BY <1>1, <1>3, PlaceSets DEF Inv, SettingsOK, FileOK, Stored, DoneOK, ImportOK, Options,
          Unsaved, Finishing, Prepared, Recorded, Restoring
  <2> QED BY <2>1, <2>2, <2>3 DEF Inv
<1>4. CASE ft' = EnableEvent(ft, e) /\ UNCHANGED <<undone, faults>>
  <2>1. /\ ft' \in FtraceType /\ ft'.buffer = ft.buffer
        /\ ft'.events = ft.events \cup {e}
    <3>1. /\ ft' \in FtraceType /\ SameBut(ft', ft, {"events"})
          /\ ft'.events = ft.events \cup {e}
      BY <1>2, <1>4, FtraceOps
    <3> QED BY <3>1 DEF SameBut
  <2>2. PlacesOK'
    BY <1>1, <1>4, <2>1 DEF Inv, PlacesOK, Places, Options
  <2>3. ChildOK'
    BY <1>1, ElsewhereChild, PlaceSets DEF Inv, Unsaved, Prepared
  <2>4. SettingsOK' /\ FileOK' /\ ImportOK'
    BY <1>1, <1>4, <2>1, PlaceSets DEF Inv, SettingsOK, FileOK, Stored, DoneOK, ImportOK, Options,
          Unsaved, Finishing, Prepared, Recorded, Restoring
  <2> QED BY <2>2, <2>3, <2>4 DEF Inv
<1> QED BY <1>1, <1>3, <1>4

LEMMA RestoreReturnsInv == Inv /\ RestoreReturns => Inv'
<1> SUFFICES ASSUME Inv, RestoreReturns
             PROVE  Inv'
  OBVIOUS
<1>1. /\ UNCHANGED <<Options, ft, saved, todo, undone, file, stored, faults, execVars>>
      /\ pc = "restore_events" /\ todo = {}
      /\ \/ code = 0 /\ ~undone /\ pc' = "load"
         \/ pc' = "exit" /\ code' = 1
  BY DEF RestoreReturns, Goto, Exit
<1>2. PlacesOK'
  BY <1>1 DEF Inv, PlacesOK, Places, Options
<1>3. ChildOK'
  BY <1>1, ElsewhereChild, PlaceSets DEF Inv, Unsaved, Prepared
<1>4. SettingsOK' /\ ImportOK'
  BY <1>1, PlaceSets DEF Inv, SettingsOK, ImportOK, Options, Restored,
        Unsaved, Finishing, Prepared, Recorded, Restoring
<1>5. saved # None
  <2>1. saved.buffer = original.buffer /\ original.buffer # "none"
    BY <1>1 DEF Inv, SettingsOK, PlacesOK, Restoring, StoreOptions, FtraceType
  <2> QED BY <2>1 DEF None
<1>6. FileOK'
  BY <1>1, <1>5, PlaceSets DEF Inv, FileOK, Stored, DoneOK, Options,
        Prepared, Recorded, Restoring
<1> QED BY <1>2, <1>3, <1>4, <1>6 DEF Inv

LEMMA FinishInv == Inv /\ (Load \/ LoadBaseline \/ Report) => Inv'
<1> SUFFICES ASSUME Inv, Load \/ LoadBaseline \/ Report
             PROVE  Inv'
  OBVIOUS
<1>1. /\ UNCHANGED <<Options, ft, saved, todo, undone, file, stored, faults, execVars>>
      /\ pc \in {"load", "load_baseline", "report"} /\ pc' \in Finishing
      /\ pc' = "exit" => pc = "report" \/ code' = 1
  BY DEF Load, LoadBaseline, Report, Keep, Goto, Exit, Finishing
<1>2. PlacesOK'
  BY <1>1 DEF Inv, PlacesOK, Places, Options, Finishing
<1>3. ChildOK'
  BY <1>1, ElsewhereChild, PlaceSets DEF Inv, Unsaved, Prepared, Finishing
<1>4. SettingsOK' /\ FileOK' /\ ImportOK'
  BY <1>1, PlaceSets DEF Inv, SettingsOK, FileOK, Stored, DoneOK, ImportOK, Options, Restored,
        Unsaved, Finishing, Prepared, Recorded, Restoring
<1> QED BY <1>2, <1>3, <1>4 DEF Inv

LEMMA NextInv == Inv /\ [Next]_vars => Inv'
<1> SUFFICES ASSUME Inv, [Next]_vars
             PROVE  Inv'
  OBVIOUS
<1>1. CASE UNCHANGED vars
  <2>1. UNCHANGED <<mainVars, execVars>>
    BY <1>1 DEF vars
  <2>2. PlacesOK' /\ ChildOK'
    BY <2>1 DEF mainVars, execVars, Inv, PlacesOK, ChildOK
  <2>3. SettingsOK' /\ FileOK' /\ ImportOK'
    BY <2>1 DEF mainVars, Inv, SettingsOK, FileOK, Stored, DoneOK, ImportOK, Restored
  <2> QED BY <2>2, <2>3 DEF Inv
<1>2. CASE MainStep
  BY <1>2, ReadOptionsInv, StopFirstInv, StoreTraceOptionsInv, InitTraceInv, FlushInv,
     StartInv, CallsInv, CallExecuteInv, ExecuteReturnsInv, StopInv, StoreInv,
     RestoreBufferInv, RestoreEventInv, RestoreReturnsInv, FinishInv
     DEF MainStep, Main
<1> QED BY <1>1, <1>2, ExecStepInv, KernelRecordsInv DEF Next

-----------------------------------------------------------------------------
(* The theorems.                                                           *)

LEMMA Invariance == Spec => []Inv
BY InitInv, NextInv, PTL DEF Spec

(* Whatever fails once the options are saved, main does not exit before    *)
(* the buffer size and the enabled events are put back, unless putting     *)
(* them back is what failed.                                               *)
THEOREM RestoresOptions == Spec => []OptionsRestored
<1>1. Inv => OptionsRestored
  BY DEF Inv, SettingsOK, OptionsRestored, Restored, Finishing
<1> QED BY <1>1, Invariance, PTL

(* The trace file holds no record from before the run (stop, flush, start).*)
THEOREM StoresThisRun == Spec => []StoredThisRunOnly
<1>1. Inv => StoredThisRunOnly
  BY DEF Inv, FileOK, StoredThisRunOnly
<1> QED BY <1>1, Invariance, PTL

(* A run that traced and reports success has read the kernel's trace into  *)
(* its file and put the settings back (main, idlestat_store).              *)
THEOREM SuccessIsDone == Spec => []SuccessMeansDone
<1>1. Inv => SuccessMeansDone
  BY DEF Inv, FileOK, Stored, DoneOK, SettingsOK, Restored, Finishing, SuccessMeansDone
<1> QED BY <1>1, Invariance, PTL

(* An import without a command changes neither the trace file nor the      *)
(* kernel's settings (main).                                               *)
THEOREM ImportReads == Spec => []ImportOnlyReads
<1>1. Inv => ImportOnlyReads
  <2> SUFFICES ASSUME Inv, mode = "import" /\ ~command
               PROVE  /\ file = "before"
                      /\ [ft EXCEPT !.ring = original.ring] = original
    BY DEF ImportOnlyReads
  <2>1. file = "before" /\ SameBut(ft, original, {"ring"})
    BY DEF Inv, ImportOK
  <2>2. ft.on = original.on /\ ft.buffer = original.buffer /\ ft.events = original.events
    BY <2>1 DEF SameBut
  <2>3. ft \in FtraceType /\ original \in FtraceType
    BY DEF Inv, PlacesOK
  <2> QED BY <2>1, <2>2, <2>3 DEF FtraceType
<1> QED BY <1>1, Invariance, PTL

(* main never goes on while the command runs or is a zombie (execute).     *)
THEOREM NoCommandLeft == Spec => []NoOrphan
<1>1. Inv => NoOrphan
  BY DEF Inv, ChildOK, NoOrphan
<1> QED BY <1>1, Invariance, PTL

(* idlestat is not killed by its own alarm, also not by one that is still  *)
(* armed when the command is gone.                                         *)
THEOREM AlarmAlwaysHandled == Spec => []AlarmIsHandled
<1>1. Inv => AlarmIsHandled
  BY DEF Inv, ChildOK, AlarmIsHandled
<1> QED BY <1>1, Invariance, PTL

(* The trace is only read once tracing is off.                             *)
THEOREM ReadsWhileStopped == Spec => ReadWhileStopped
<1>1. Inv /\ [Next]_vars => [file' # file => ~ft.on]_vars
  <2> SUFFICES ASSUME Inv, Next, file' # file
               PROVE  ~ft.on
    OBVIOUS
  <2>1. MainStep /\ Main
    BY DEF Next, MainStep, ExecStep, KernelRecords, mainVars
  <2>2. Store
    BY <2>1 DEF Main, ReadOptions, StopFirst, StoreTraceOptions, InitTrace, Flush, Start,
       Calls, CallExecute, ExecuteReturns, Stop, RestoreBuffer, RestoreEvent,
       RestoreReturns, Load, LoadBaseline, Report, Keep
  <2>3. ft.on = FALSE
    BY <2>2 DEF Store, Inv, FileOK
  <2> QED BY <2>3
<1> QED BY <1>1, Invariance, PTL DEF Spec, ReadWhileStopped

(* SIGTERM goes to the command while it runs or is a zombie, never to a    *)
(* process id given back (execute, sighandler).                            *)
THEOREM SignalsOnlyItsChild == Spec => SignalsOwnChild
<1>1. Inv /\ [Next]_vars => [termSent' # termSent => child \in {"running", "zombie"}]_vars
  <2> SUFFICES ASSUME Inv, Next, termSent' # termSent
               PROVE  child \in {"running", "zombie"}
    OBVIOUS
  <2>1. ~MainStep /\ ~KernelRecords
    BY DEF MainStep, Main, ReadOptions, StopFirst, StoreTraceOptions, InitTrace, Flush,
       Start, Calls, CallExecute, ExecuteReturns, Stop, Store, RestoreBuffer, RestoreEvent,
       RestoreReturns, Load, LoadBaseline, Report, Keep, KernelRecords, execVars
  <2>2. Interrupted
    BY <2>1 DEF Next, ExecStep, Parent, ForkFails, Fork, SetHandler, SetAlarm, Waitpid,
       CheckStatus, AlarmFires, ChildEnds, ChildTakesTerm
  <2> QED BY <2>2 DEF Interrupted, Inv, ChildOK
<1> QED BY <1>1, Invariance, PTL DEF Spec, SignalsOwnChild

-----------------------------------------------------------------------------
(* Types.                                                                  *)

CodesOK ==
    /\ mode \in {"trace", "import"} /\ file \in {"before", "no_records", "partial", "trace"}
    /\ code \in {-1, 0, 1}
    /\ child \in {"none", "running", "zombie", "reaped"}
    /\ status \in {"none", "exited", "sigterm", "othersignal"}
    /\ handler \in {"default", "sighandler"}

FlagsOK ==
    /\ command \in BOOLEAN /\ baseline \in BOOLEAN /\ root \in BOOLEAN
    /\ undone \in BOOLEAN /\ timed \in BOOLEAN /\ deaf \in BOOLEAN
    /\ armed \in BOOLEAN /\ sigalrm \in BOOLEAN /\ termSent \in BOOLEAN

LEMMA CodesInv == CodesOK /\ [Next]_vars => CodesOK'
<1> SUFFICES ASSUME CodesOK, [Next]_vars
             PROVE  CodesOK'
  OBVIOUS
<1>1. CASE UNCHANGED vars
  BY <1>1 DEF vars, mainVars, execVars, CodesOK
<1>2. CASE KernelRecords
  BY <1>2 DEF KernelRecords, Options, execVars, CodesOK
<1>3. CASE ExecStep
  BY <1>3 DEF ExecStep, mainVars, CodesOK, Parent, ForkFails, Fork, SetHandler, SetAlarm,
     Waitpid, Interrupted, CheckStatus, AlarmFires, ChildEnds, ChildTakesTerm
<1>4. CASE MainStep
  BY <1>4 DEF MainStep, Main, ReadOptions, StopFirst, StoreTraceOptions, InitTrace, Flush,
     Start, Calls, CallExecute, ExecuteReturns, Stop, Store, RestoreBuffer, RestoreEvent,
     RestoreReturns, Load, LoadBaseline, Report, Keep, Write, Fails, Done, Exit, GiveUp,
     RestoreFirst, IgnoreFault, Options, execVars, CodesOK
<1> QED BY <1>1, <1>2, <1>3, <1>4 DEF Next

LEMMA FlagsInv == FlagsOK /\ [Next]_vars => FlagsOK'
<1> SUFFICES ASSUME FlagsOK, [Next]_vars
             PROVE  FlagsOK'
  OBVIOUS
<1>1. CASE UNCHANGED <<Options, execVars>> /\ undone' \in {undone, TRUE}
  BY <1>1, Zenon DEF Options, execVars, FlagsOK
<1>2. CASE UNCHANGED vars \/ KernelRecords
  BY <1>1, <1>2, Zenon DEF vars, mainVars, KernelRecords, Options
<1>3. CASE CallExecute
  BY <1>3, Zenon DEF CallExecute, Options, FlagsOK
<1>4. CASE MainStep /\ ~CallExecute
  <2>1. UNCHANGED <<Options, execVars>> /\ undone' \in {undone, TRUE}
    BY <1>4 DEF MainStep, Main, ReadOptions, StopFirst, StoreTraceOptions, InitTrace,
       Flush, Start, Calls, ExecuteReturns, Stop, Store, RestoreBuffer, RestoreEvent,
       RestoreReturns, Load, LoadBaseline, Report, Keep
  <2> QED BY <1>1, <2>1
<1>5. CASE ExecStep
  <2>1. UNCHANGED <<command, baseline, root, undone>> /\ timed' = timed
    BY <1>5 DEF ExecStep, mainVars, Options, Parent, ForkFails, Fork, SetHandler,
       SetAlarm, Waitpid, Interrupted, CheckStatus, AlarmFires, ChildEnds, ChildTakesTerm
  <2>2. deaf' = deaf \/ deaf' \in BOOLEAN
    BY <1>5, Zenon DEF ExecStep, Parent, ForkFails, Fork, SetHandler,
       SetAlarm, Waitpid, Interrupted, CheckStatus, AlarmFires, ChildEnds, ChildTakesTerm
  <2>3. armed' = armed \/ armed' = timed \/ armed' = (armed /\ status # "exited") \/ armed' = FALSE
    BY <1>5, Zenon DEF ExecStep, Parent, ForkFails, Fork, SetHandler,
       SetAlarm, Waitpid, Interrupted, CheckStatus, AlarmFires, ChildEnds, ChildTakesTerm
  <2>4. sigalrm' = sigalrm \/ sigalrm' = (sigalrm \/ handler = "sighandler")
    BY <1>5, Zenon DEF ExecStep, Parent, ForkFails, Fork, SetHandler,
       SetAlarm, Waitpid, Interrupted, CheckStatus, AlarmFires, ChildEnds, ChildTakesTerm
  <2>5. termSent' = termSent \/ termSent' = (termSent \/ sigalrm)
    BY <1>5, Zenon DEF ExecStep, Parent, ForkFails, Fork, SetHandler,
       SetAlarm, Waitpid, Interrupted, CheckStatus, AlarmFires, ChildEnds, ChildTakesTerm
  <2> QED BY <2>1, <2>2, <2>3, <2>4, <2>5, Zenon DEF FlagsOK
<1> QED BY <1>2, <1>3, <1>4, <1>5 DEF Next

(* Every variable keeps its type.                                          *)
THEOREM TypeCorrect == Spec => []TypeOK
<1>1. Init => CodesOK /\ FlagsOK
  <2>1. Init => CodesOK
    BY DEF Init, ExecInit, CodesOK
  <2>2. Init => FlagsOK
    BY Zenon DEF Init, ExecInit, FlagsOK
  <2> QED BY <2>1, <2>2
<1>2. Inv /\ CodesOK /\ FlagsOK => TypeOK
  <2> SUFFICES ASSUME Inv, CodesOK, FlagsOK
               PROVE  TypeOK
    OBVIOUS
  <2>1. {command, baseline, root, undone} \subseteq BOOLEAN
    BY Zenon DEF FlagsOK
  <2>2. ExecTypeOK
    <3>1. {timed, deaf, armed, sigalrm, termSent} \subseteq BOOLEAN
      BY Zenon DEF FlagsOK
    <3> QED BY <3>1 DEF ExecTypeOK, Inv, ChildOK, CodesOK
  <2>3. stored \subseteq {"old", "run"}
    BY DEF Inv, FileOK
  <2> QED BY <2>1, <2>2, <2>3 DEF TypeOK, Inv, PlacesOK, CodesOK
<1> QED BY <1>1, <1>2, CodesInv, FlagsInv, Invariance, PTL DEF Spec
=============================================================================

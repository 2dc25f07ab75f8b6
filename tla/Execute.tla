------------------------------ MODULE Execute -------------------------------
(***************************************************************************)
(* execute() of idlestat.c: fork the command, arm an alarm for the tracing *)
(* duration, wait for the child, and ask it to terminate when the alarm    *)
(* interrupts the wait.  The parent, the child, and the signal are three   *)
(* actors; a signal may be delivered between any two steps of the parent.  *)
(***************************************************************************)
EXTENDS Naturals

VARIABLES
    timed,      \* options->duration > 0
    at,         \* where the parent is in execute()
    child,      \* the forked command
    status,     \* how the child ended, for waitpid
    deaf,       \* the command ignores SIGTERM
    armed,      \* alarm() is pending
    handler,    \* disposition of SIGALRM
    sigalrm,    \* the flag sighandler sets
    termSent    \* SIGTERM has been sent to the child

execVars == <<timed, at, child, status, deaf, armed, handler, sigalrm, termSent>>

ExecTypeOK ==
    /\ at \in {"none", "fork", "sigaction", "alarm", "waitpid", "blocked", "eintr",
               "status", "ok", "failed", "killed"}
    /\ child \in {"none", "running", "zombie", "reaped"}
    /\ status \in {"none", "exited", "sigterm", "othersignal"}
    /\ handler \in {"default", "sighandler"}
    /\ {timed, deaf, armed, sigalrm, termSent} \subseteq BOOLEAN

ExecInit ==
    /\ at = "none" /\ child = "none" /\ status = "none"
    /\ handler = "default"
    /\ deaf = FALSE /\ armed = FALSE /\ sigalrm = FALSE /\ termSent = FALSE

-----------------------------------------------------------------------------
(* The parent.                                                             *)

ForkFails ==
    /\ at = "fork" /\ at' = "failed"
    /\ UNCHANGED <<timed, child, status, deaf, armed, handler, sigalrm, termSent>>

Fork ==
    /\ at = "fork" /\ at' = "sigaction"
    /\ child' = "running" /\ deaf' \in BOOLEAN
    /\ UNCHANGED <<timed, status, armed, handler, sigalrm, termSent>>

(* Slip: the handler is installed only after the alarm is armed. *)
SetHandlerLate ==
    /\ \/ at = "sigaction" /\ at' = "alarm" /\ armed' = timed
          /\ UNCHANGED handler
       \/ at = "alarm" /\ at' = "waitpid" /\ handler' = "sighandler"
          /\ UNCHANGED armed
    /\ UNCHANGED <<timed, child, status, deaf, sigalrm, termSent>>

SetHandler ==
    /\ at = "sigaction" /\ at' = "alarm"
    /\ handler' = "sighandler"
    /\ UNCHANGED <<timed, child, status, deaf, armed, sigalrm, termSent>>

SetAlarm ==
    /\ at = "alarm" /\ at' = "waitpid"
    /\ armed' = timed        \* alarm(0) arms nothing
    /\ UNCHANGED <<timed, child, status, deaf, handler, sigalrm, termSent>>

(* Slip: only a signal ends the wait, as with pause(). *)
WaitForSignal ==
    /\ \/ /\ at = "waitpid" /\ child = "zombie"
          /\ at' = "status" /\ child' = "reaped"
       \/ /\ at = "waitpid" /\ child # "zombie"
          /\ at' = "blocked" /\ UNCHANGED child
    /\ UNCHANGED <<timed, status, deaf, armed, handler, sigalrm, termSent>>

\* The call of waitpid, and the return of one that blocked: a child that
\* has ended is reaped, otherwise the parent sleeps in the call.
Waitpid ==
    /\ \/ /\ at \in {"waitpid", "blocked"} /\ child = "zombie"
          /\ at' = "status" /\ child' = "reaped"
       \/ /\ at = "waitpid" /\ child # "zombie"
          /\ at' = "blocked" /\ UNCHANGED child
    /\ UNCHANGED <<timed, status, deaf, armed, handler, sigalrm, termSent>>

(* Slip: the wait is given up once the child has been told to end. *)
InterruptedGivesUp ==
    /\ at = "eintr" /\ at' = "ok"
    /\ termSent' = (termSent \/ sigalrm)
    /\ UNCHANGED <<timed, child, status, deaf, armed, handler, sigalrm>>

(* Slip: the flag is not looked at and no signal sent. *)
InterruptedNoKill ==
    /\ at = "eintr" /\ at' = "waitpid"
    /\ UNCHANGED <<timed, child, status, deaf, armed, handler, sigalrm, termSent>>

\* waitpid failed with EINTR: send SIGTERM if it was the alarm, wait again.
Interrupted ==
    /\ at = "eintr" /\ at' = "waitpid"
    /\ termSent' = (termSent \/ sigalrm)
    /\ UNCHANGED <<timed, child, status, deaf, armed, handler, sigalrm>>

\* The child's status decides; only a normal exit cancels the alarm.
CheckStatus ==
    /\ at = "status"
    /\ at' = IF status \in {"exited", "sigterm"} THEN "ok" ELSE "failed"
    /\ armed' = (armed /\ status # "exited")
    /\ UNCHANGED <<timed, child, status, deaf, handler, sigalrm, termSent>>

Parent == ForkFails \/ Fork \/ SetHandler \/ SetAlarm \/ Waitpid
            \/ Interrupted \/ CheckStatus

-----------------------------------------------------------------------------
(* The signal and the child.                                               *)

(* Slip: the handler itself signals the child, reaped or not. *)
AlarmFiresAndKills ==
    /\ armed /\ armed' = FALSE /\ handler' = "default"
    /\ sigalrm' = TRUE /\ termSent' = TRUE
    /\ at' = IF at = "blocked" THEN "eintr" ELSE at
    /\ UNCHANGED <<timed, child, status, deaf>>

\* SIGALRM: sighandler sets the flag, SA_RESETHAND puts the default back.
\* Only a wait already in progress is interrupted.
AlarmFires ==
    /\ armed /\ armed' = FALSE
    /\ handler' = "default"
    /\ sigalrm' = (sigalrm \/ handler = "sighandler")
    /\ at' = CASE handler = "default" -> "killed"
               [] handler = "sighandler" /\ at = "blocked" -> "eintr"
               [] OTHER -> at
    /\ UNCHANGED <<timed, child, status, deaf, termSent>>

\* The command ends by itself (an exec that fails exits too), or is killed
\* by someone else's signal.
ChildEnds ==
    /\ child = "running" /\ child' = "zombie"
    /\ status' \in {"exited", "sigterm", "othersignal"}
    /\ UNCHANGED <<timed, at, deaf, armed, handler, sigalrm, termSent>>

ChildTakesTerm ==
    /\ termSent /\ ~deaf /\ child = "running"
    /\ child' = "zombie" /\ status' = "sigterm"
    /\ UNCHANGED <<timed, at, deaf, armed, handler, sigalrm, termSent>>
=============================================================================

------------------------------- MODULE Options -------------------------------
(***************************************************************************)
(* getoptions() of idlestat.c: the words of the command line, in any       *)
(* order, become struct program_options.  An option that takes an argument *)
(* is one word here, and a name is good, bad (bad_filename) or not given.  *)
(* Options that only set a number nobody but the tracing side reads (-v,   *)
(* -I, -S, -e) are left out.                                               *)
(***************************************************************************)
EXTENDS Integers, Sequences, FiniteSetsExt

CONSTANTS
    Words,      \* the options a command line is made of
    MaxWords    \* bound on their number

Tables == {"idle", "frequency", "wakeup"}
Modes  == {"trace", "import"}
Names  == {"trace-file", "baseline-trace", "output-file"}
Styles == {"default", "boxless", "csv", "comparison"}

ASSUME OptionsAssumption ==
    /\ \A w \in Words :
          /\ w.opt \in Tables \cup Modes \cup Names
                \cup {"duration", "report-format", "help", "unknown"}
          /\ w.opt \in Names => w.arg \in {"good", "bad"}
          /\ w.opt = "duration" => w.arg \in Int
          /\ w.opt = "report-format" => w.arg # "none"
    /\ MaxWords \in Nat

VARIABLES
    phase,      \* where main is
    options,    \* struct program_options
    words       \* the options read so far (history), until they are checked

optionVars == <<options, words>>

NoOptions ==
    [mode |-> "none", style |-> "none", display |-> {}, duration |-> 0,
     names |-> [n \in Names |-> "none"]]

OptionsInit == phase = "options" /\ options = NoOptions /\ words = <<>>

-----------------------------------------------------------------------------
SetOption(new) == options' = new /\ UNCHANGED phase
EndWith(p)     == phase' = p /\ UNCHANGED options

(* Slip: the last of -c, -p and -w wins. *)
ReadTableOnly(w) ==
    /\ w.opt \in Tables /\ SetOption([options EXCEPT !.display = {w.opt}])

\* -c, -p and -w add up.
ReadTable(w) ==
    /\ w.opt \in Tables /\ SetOption([options EXCEPT !.display = @ \cup {w.opt}])

\* -r, -C and -B name the report once.
ReadStyle(w) ==
    /\ w.opt = "report-format"
    /\ IF options.style = "none"
       THEN SetOption([options EXCEPT !.style = w.arg])
       ELSE EndWith("refused")

\* Of the others the last one counts.
ReadSetting(w) ==
    \/ w.opt \in Modes /\ SetOption([options EXCEPT !.mode = w.opt])
    \/ w.opt \in Names /\ SetOption([options EXCEPT !.names[w.opt] = w.arg])
    \/ w.opt = "duration" /\ SetOption([options EXCEPT !.duration = w.arg])
    \/ w.opt = "help" /\ EndWith("quit")
    \/ w.opt = "unknown" /\ EndWith("refused")

ReadWord(w) ==
    /\ phase = "options" /\ Len(words) < MaxWords
    /\ words' = Append(words, w)
    /\ ReadTable(w) \/ ReadStyle(w) \/ ReadSetting(w)

WithDefaults(o) ==
    [o EXCEPT !.style   = IF @ = "none" THEN "default" ELSE @,
              !.display = IF @ = {} THEN {"idle"} ELSE @]

\* What getoptions asks of the options once all are read.
Usable(o) ==
    /\ o.mode # "none"
    /\ o.names["trace-file"] = "good"
    /\ o.names["baseline-trace"] # "bad" /\ o.names["output-file"] # "bad"
    /\ o.mode = "trace" => o.duration > 0

EndOfOptions ==
    /\ phase = "options"
    /\ options' = WithDefaults(options)
    /\ phase' = IF Usable(options) THEN "check" ELSE "refused"
    /\ UNCHANGED words

-----------------------------------------------------------------------------
(* Properties.                                                             *)

WordsOf(opts) == {i \in DOMAIN words : words[i].opt \in opts}

LastOf(opts, default) ==
    IF WordsOf(opts) = {} THEN default ELSE words[Max(WordsOf(opts))].arg

LastMode ==
    IF WordsOf(Modes) = {} THEN "none" ELSE words[Max(WordsOf(Modes))].opt

\* The tables asked for together, the report asked for once, and the last of
\* everything else, whatever the order of the words (idlestat.1, getoptions).
Meaning ==
    [mode     |-> LastMode,
     style    |-> LastOf({"report-format"}, "default"),
     display  |-> IF WordsOf(Tables) = {} THEN {"idle"}
                  ELSE {words[i].opt : i \in WordsOf(Tables)},
     duration |-> LastOf({"duration"}, 0),
     names    |-> [n \in Names |-> LastOf({n}, "none")]]

Acceptable ==
    /\ WordsOf({"unknown"}) = {}
    /\ \A i, j \in WordsOf({"report-format"}) : i = j
    /\ Usable(Meaning)

\* A command line is refused exactly when its words do not make sense as a
\* whole, and otherwise means what they say together.
OptionsAsGiven ==
    /\ phase = "check" => Acceptable /\ options = Meaning
    /\ phase = "refused" => ~Acceptable
=============================================================================

--------------------------- MODULE EnergyTemplate ---------------------------
(***************************************************************************)
(* make_energy_model_template of energy_model.c: when the energy model's   *)
(* file does not exist and a trace is imported, idlestat writes one for    *)
(* the trace's machine, to be completed by hand and read by the parser     *)
(* (EnergyModel) in the next run.  Comments are left out as they are there. *)
(***************************************************************************)
EXTENDS EnergyModel, SequencesExt

CONSTANTS
    Names,      \* of C-states
    Machines    \* a machine: clusters of cores of CPUs, each CPU with its
                \* frequencies (kHz) and the names of its C-states

\* A cluster's name is 'A' + its position, written and read as a char: the
\* last one that comes back is 127.
MaxClusters == 63

\* The CPU whose frequencies and C-states are taken for its cluster's.
LastCpu(m, k) == Last(Last(m[k]))

ASSUME MachinesAssumption ==
    \A m \in Machines :
        /\ m \in Seq(Seq(Seq([freqs : Seq(Nat), cstates : Seq(Names)])))
        /\ Len(m) \in 1 .. MaxClusters
        /\ \A k \in DOMAIN m : m[k] # <<>> /\ Last(m[k]) # <<>>

VARIABLES
    machine,    \* whose template is read; <<>>: any other file
    edited      \* the line that makes the template unfit has been removed

templateVars == <<machine, edited, vars>>

TemplateInit ==
    /\ Init
    /\ \/ machine = <<>> /\ edited = FALSE
       \/ machine \in Machines /\ edited \in BOOLEAN

\* A row whose two question marks have been replaced.
FilledIn(kind, key) == [kind |-> kind, key |-> key, cluster |-> 1, core |-> 1]

Known(freqs) ==
    FlattenSeq([i \in DOMAIN freqs |-> IF freqs[i] = 0 THEN <<>> ELSE <<freqs[i]>>])

(* Slip: frequency 0 gets a row, although it is not counted. *)
ClusterTemplateAllRows(m, k) ==
    LET cpu == LastCpu(m, k) IN
       <<[kind |-> "C-states"],
         [kind |-> "cluster", id |-> k - 1, caps |-> Len(Known(cpu.freqs)),
          cstates |-> Len(cpu.cstates)],
         [kind |-> "P-states"]>>
        \o [i \in DOMAIN cpu.freqs |-> FilledIn("speed row", cpu.freqs[i] \div 1000)]
        \o <<[kind |-> "C-states"]>>
        \o [i \in DOMAIN cpu.cstates |-> FilledIn("name row", cpu.cstates[i])]

\* A cluster is lettered by its position and described by its last CPU alone;
\* frequency 0, which stands for an unknown one, has no row.
ClusterTemplate(m, k) ==
    LET cpu   == LastCpu(m, k)
        freqs == Known(cpu.freqs)
    IN  <<[kind |-> "C-states"],
          [kind |-> "cluster", id |-> k - 1, caps |-> Len(freqs),
           cstates |-> Len(cpu.cstates)],
          [kind |-> "P-states"]>>
        \o [i \in DOMAIN freqs |-> FilledIn("speed row", freqs[i] \div 1000)]
        \o <<[kind |-> "C-states"]>>
        \o [i \in DOMAIN cpu.cstates |-> FilledIn("name row", cpu.cstates[i])]

Template(m) ==
    <<[kind |-> "clusters", n |-> Len(m)]>>
      \o FlattenSeq([k \in DOMAIN m |-> ClusterTemplate(m, k)])

File == IF edited THEN RemoveAt(Template(machine), 2) ELSE Template(machine)

ReadTemplate ==
    /\ machine # <<>> /\ Len(lines) < Len(File)
    /\ ReadLine(File[Len(lines) + 1])
    /\ UNCHANGED <<machine, edited>>

TemplateEnds ==
    /\ machine # <<>> /\ Len(lines) = Len(File) /\ EndOfFile
    /\ UNCHANGED <<machine, edited>>

ReadOther == machine = <<>> /\ Next /\ UNCHANGED <<machine, edited>>

TemplateSpec ==
    TemplateInit /\ [][ReadTemplate \/ TemplateEnds \/ ReadOther]_templateVars

-----------------------------------------------------------------------------
(* Properties.                                                             *)

\* The keys that have a row.
Keys(rows) == {rows[n].key : n \in DOMAIN rows}

\* "Replace ? with correct values" is all the template says of what is to be
\* done, but the parser refuses it at the heading in front of the first
\* cluster.  Without that line it takes what the template's writer makes of
\* any machine, unless the table that is not cleared gets in the way.
\* Under the letter of a cluster's position there are then rows for
\* the frequencies and C-states of the cluster's last CPU, and no others:
\* what only its other CPUs have is missing, and energy is looked up by the
\* cluster's id, which is its position only where ids count from 0.
TemplateFits ==
    machine # <<>> =>
        /\ result = "refused" =>
              IF edited THEN TakenForSecond ELSE lines = SubSeq(Template(machine), 1, 2)
        /\ result = "parsed" =>
              /\ edited
              /\ \A k \in DOMAIN machine :
                    LET cpu == LastCpu(machine, k) IN
                    /\ Keys(table[k - 1].c) = ToSet(cpu.cstates)
                    /\ Keys(table[k - 1].p) = {f \div 1000 : f \in ToSet(cpu.freqs) \ {0}}
=============================================================================

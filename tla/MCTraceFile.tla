---------------------------- MODULE MCTraceFile ----------------------------
(***************************************************************************)
(* Instances of TraceFile for TLC: all machines of three CPUs in up to two *)
(* clusters, of which the ids have a gap, and up to three cores, and some  *)
(* with cluster ids that the kernel does not know or that have no letter.  *)
(***************************************************************************)
EXTENDS TraceFile

AllMachines ==
    {m \in [Cpus -> [physical: {0, 2}, core: {0, 1, 2},
                     online: {"yes", "no", "unknown"}]] : m[0].online = "yes"}
      \cup
    {m \in [Cpus -> [physical: {-1, 0, 63}, core: {0}, online: {"yes", "no"}]] :
        m[0].online = "yes"}

\* The kernel counts the CPUs in a line of its own and explains the columns
\* of the records after it.
StandardHeader ==
    <<Plain("# tracer"), Plain("#"), Counted("# entries", NrCpus), Plain("#"),
      Plain("record")>>

\* The same with the explanation taken out, and what may be left of that.
ShortHeader ==
    <<Plain("# tracer"), Counted("# entries", NrCpus), Plain("record")>>

StandardHeaders == {StandardHeader}
ShortHeaders    == {ShortHeader, SubSeq(ShortHeader, 1, 2), SubSeq(ShortHeader, 1, 1)}
=============================================================================

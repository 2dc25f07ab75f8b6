---------------------------- MODULE MCEnergyModel ----------------------------
(***************************************************************************)
(* Instances of EnergyModel for TLC: files for up to two clusters with up  *)
(* to two P-states and one C-state each, and the templates of machines     *)
(* with one and two clusters.                                              *)
(***************************************************************************)
EXTENDS EnergyTemplate

CONSTANTS C1, C6    \* names of C-states

Line(kind) == [kind |-> kind]
Row(kind, key, power) ==
    [kind |-> kind, key |-> key, cluster |-> power, core |-> power + 1]

SmallLines ==
    {[kind |-> "clusters", n |-> n] : n \in 0 .. 2}
      \cup {[kind |-> "cluster", id |-> 0, caps |-> 2, cstates |-> 1],
            [kind |-> "cluster", id |-> 0, caps |-> 0, cstates |-> 1],
            [kind |-> "cluster", id |-> 1, caps |-> 1, cstates |-> 1]}
      \cup {Line("P-states"), Line("C-states"), Line("incomplete row"),
            [kind |-> "wakeup", cluster |-> 1, core |-> 2]}
      \cup {Row("speed row", 1, 10), Row("speed row", 0, 20),
            Row("name row", C1, 30), Row("name row", C6, 50)}

\* One cluster with two CPUs; two of its frequencies are 1 MHz when looked up,
\* one is unknown, one has no row.
Unit(a, b, c, d, e) == [idle |-> (C1 :> a @@ C6 :> b),
                        busy |-> (0 :> 2 @@ 1000 :> c @@ 1500 :> d @@ 2000 :> e)]
OneCluster ==
    0 :> [cluster |-> Unit(1, 2, 3, 5, 7),
          cpus    |-> <<Unit(1, 3, 4, 6, 8), Unit(2, 1, 9, 0, 4)>>]

\* Machines of one CPU, and one whose first cluster has two cores and whose
\* second has a core of two CPUs, which differ.
Cpu(freqs, cstates) == [freqs |-> freqs, cstates |-> cstates]

SmallMachines ==
    {<< << <<Cpu(freqs, cstates)>> >> >> :
        freqs \in {<<>>, <<0, 1000>>, <<1000, 2000>>}, cstates \in {<<>>, <<C1, C6>>}}
      \cup {<< << <<Cpu(<<5000>>, <<C6>>)>>, <<Cpu(<<1000>>, <<C1>>)>> >>,
               << <<Cpu(<<>>, <<>>), Cpu(<<2000, 3000>>, <<C1, C6>>)>> >> >>}
=============================================================================

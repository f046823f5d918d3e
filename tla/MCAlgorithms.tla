---------------------------- MODULE MCAlgorithms ----------------------------
\* Two clients of different ranges, two requesters, two stacks of two chains to log,
\* a stack of four to heat and two stacks of two to store.
EXTENDS Algorithms

MCJobTypeRange == ("wA" :> <<0, 11>>) @@ ("wB" :> <<2, 3>>)
MCSubmissions ==
    << [requester |-> "rA", id |-> 0, jobTypes |-> <<10, 2>>, data |-> <<14, 26>>],
       [requester |-> "rB", id |-> 0, jobTypes |-> <<2>>, data |-> <<33>>],
       [requester |-> "rA", id |-> 0, jobTypes |-> <<10>>, data |-> <<33, 41>>] >>
MCNumbers == 0..30

MCWorkers == <<"wA", "wB">>
MCTypesOf == ("wA" :> {0, 1}) @@ ("wB" :> {0})

\* Intervals of widths 1, 2, 3 and 7, on either side of zero.
MCBounds == {<<0, 1>>, <<-3, 4>>, <<2, 5>>, <<-2, 0>>}

\* Beyond the caps on either side.
MCEstimates == {-1, 3}

MCEnergy == [x \in {0, 12} |-> x]

\* Ladders that rise strictly, steeper and less steep.
MCRising == {1, 3}

\* One chain that grows, between chains that have one state each: two appends, and a
\* flush that finds caches of different sizes.
MCMaxLength == (0 :> 3) @@ (1 :> 1) @@ (2 :> 1) @@ (3 :> 1)
=============================================================================

------------------------------ MODULE MCEngine ------------------------------
EXTENDS Engine, TLC

CONSTANTS c1, c2, c3, c4, c5

MCClient == {c1, c2, c3, c4}
MCUserOf == [c \in MCClient |-> c]
MCSymmetry == Permutations(MCClient)

MCWaiters1 == {c1}
MCClient5 == MCClient \cup {c5}
MCUserOf5 == [c \in MCClient5 |-> c]
MCSymmetry5 == Permutations(MCClient5)

\* Two ranks: each seat holds a 3 and a 2.
MCDeals2 == { (0 :> {0, 4} @@ 1 :> {1, 5} @@ 2 :> {2, 6} @@ 3 :> {3, 7}) }
\* Four ranks: a four of a kind, a triple beside a single, a single beside a
\* triple, all the 2s; the lists split each hand in a few ways.
MCDeals4 == { (0 :> {0, 1, 2, 3} @@ 1 :> {4, 5, 6, 8} @@ 2 :> {7, 9, 10, 11} @@ 3 :> {12, 13, 14, 15}) }
MCLists4 ==
  { <<0, 0>>, <<0>>, <<1>>, <<2, 3>>, <<3, 2, 1, 0>>, <<4, 5, 6>>, <<8>>, <<7, 8>>,
    <<7>>, <<9, 10, 11>>, <<9>>, <<10, 11>>, <<12>>, <<12, 13>>, <<15, 13, 14>> }
MCLists1 == {<<a>> : a \in 0..7}
MCLists3 == {<<0>>, <<4>>}
=============================================================================

---------------------------- MODULE MCBotPlayer ----------------------------
EXTENDS BotPlayer, TLC

CONSTANTS b1, b2, b3, h

\* A bot room: three bots and a human.
MCClient == {b1, b2, b3, h}
MCUserOf == [c \in MCClient |-> c]
MCBot == {b1, b2, b3}
MCSymmetry == Permutations(MCBot)

MCEasy == [b \in MCBot |-> "EASY"]

\* One bot among three humans.
MCOneBot == {b1}
MCOneEasy == (b1 :> "EASY")

\* Two ranks, a 3 and a 2 to each seat.
MCDealsMixed == { (0 :> {0, 4} @@ 1 :> {1, 5} @@ 2 :> {2, 6} @@ 3 :> {3, 7}) }
\* The highest cards at the first seat, the lowest at the second.
MCDealsHigh == { (0 :> {6, 7} @@ 1 :> {0, 1} @@ 2 :> {2, 3} @@ 3 :> {4, 5}) }
\* Pairs: whoever leads has won.
MCDealsPairs == { (0 :> {2, 3} @@ 1 :> {4, 5} @@ 2 :> {6, 7} @@ 3 :> {0, 1}) }

MCLists == {<<a>> : a \in 0..7} \cup {<<0, 1>>, <<2, 3>>, <<4, 5>>, <<6, 7>>}

\* One card of a human's, to keep the game with time-outs small.
MCLow == {<<4>>}
=============================================================================

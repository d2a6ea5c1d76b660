------------------------------- MODULE Rules -------------------------------
(***************************************************************************)
(* The rules of play as README.md:152-170 words them, on sets of cards:    *)
(* what validator.go, which works on sorted lists, is checked against.     *)
(***************************************************************************)
EXTENDS Cards, FiniteSetsExt

Ranks(S) == {RankOf(c) : c \in S}
Consecutive(R) == R = Min(R) .. Max(R)
EachRank(S, n) == \A r \in Ranks(S) : Cardinality({c \in S : RankOf(c) = r}) = n
OneRank(S) == Cardinality(Ranks(S)) = 1

Documented(S) ==
  {k \in Combo :
     CASE k = "SINGLE"   -> Cardinality(S) = 1
       [] k = "PAIR"     -> Cardinality(S) = 2 /\ OneRank(S)
       [] k = "TRIPLE"   -> Cardinality(S) = 3 /\ OneRank(S)
       [] k = "FOUR"     -> Cardinality(S) = 4 /\ OneRank(S)
       [] k = "SEQUENCE" ->
            /\ Cardinality(S) >= 3 /\ Two \notin Ranks(S)
            /\ EachRank(S, 1) /\ Consecutive(Ranks(S))
       [] OTHER ->
            /\ Cardinality(S) >= 6 /\ Two \notin Ranks(S)
            /\ EachRank(S, 2) /\ Consecutive(Ranks(S))}

\* Higher: rank first, suit second, between the best cards of both.
Higher(S, T) ==
  \E c \in S : \A d \in T :
    \/ RankOf(c) > RankOf(d)
    \/ RankOf(c) = RankOf(d) /\ c % 4 > d % 4

DocumentedBeats(t, S) ==
  LET kind == CHOOSE k \in Documented(S) : TRUE IN
  \/ t = NoPlay
  \/ kind = t.combo /\ Cardinality(S) = Cardinality(t.cards) /\ Higher(S, t.cards)
  \/ /\ t.combo = "SINGLE" /\ Ranks(t.cards) = {Two}
     /\ kind = "FOUR" \/ (kind = "DOUBLE_SEQUENCE" /\ Cardinality(S) >= 6)
  \/ /\ t.combo = "PAIR" /\ Ranks(t.cards) = {Two}
     /\ kind = "DOUBLE_SEQUENCE" /\ Cardinality(S) >= 8
=============================================================================

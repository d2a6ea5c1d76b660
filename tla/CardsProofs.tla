---------------------------- MODULE CardsProofs ----------------------------
(***************************************************************************)
(* Lemmas about the operators of the rules and of the bots' strategy, with *)
(* any number of ranks: lists that are sorted, the kinds of combinations,  *)
(* the finders, the plays they find, and taking a hand apart.              *)
(***************************************************************************)
EXTENDS Rules, BotStrategy, FiniteSetTheorems, TLAPS

----------------------------------------------------------------------------
(* Cards and ranks. *)

LEMMA CardsAreNumbers ==
  /\ Card \subseteq Nat /\ IsFiniteSet(Card)
  /\ \A c \in Card : RankOf(c) \in Rank
  /\ \A c, d \in Nat : c <= d => RankOf(c) <= RankOf(d)
<1>1. Card \subseteq Nat /\ IsFiniteSet(Card)
  BY RankCountAssumption, FS_Interval DEF Card
<1> QED BY <1>1, RankCountAssumption DEF Card, Rank, RankOf

\* A set of cards has a first and a last one.
LEMMA LowestExists ==
  ASSUME NEW S, S \subseteq Nat, S # {}
  PROVE  \E c \in S : \A d \in S : c <= d
<1> DEFINE Below(k) == {j \in Nat : j < k}
           B == {Below(k) : k \in S}
<1>1. \A k \in S : Below(k) \in FiniteSubsetsOf(Nat)
  <2> SUFFICES ASSUME NEW k \in S PROVE IsFiniteSet(Below(k))
    BY DEF FiniteSubsetsOf
  <2> QED BY FS_BoundedSetOfNaturals
<1>2. PICK b \in B : \A c \in B : <<c, b>> \notin StrictSubsetOrdering(Nat)
  <2>1. B \subseteq FiniteSubsetsOf(Nat) /\ B # {} BY <1>1
  <2> HIDE DEF B
  <2> QED BY <2>1, FS_StrictSubsetOrderingWellFounded, WFMin
<1>3. PICK k \in S : b = Below(k) OBVIOUS
<1>4. ASSUME NEW j \in S PROVE k <= j
  <2> SUFFICES ASSUME j < k PROVE FALSE
    OBVIOUS
  <2>1. Below(j) \subseteq Below(k) /\ j \in Below(k) /\ j \notin Below(j)
    OBVIOUS
  <2>2. Below(j) \in B OBVIOUS
  <2>3. <<Below(j), Below(k)>> \in StrictSubsetOrdering(Nat) BY <2>1 DEF StrictSubsetOrdering
  <2> QED BY <2>2, <2>3, <1>2, <1>3
<1> QED BY <1>4

LEMMA HighestExists ==
  ASSUME NEW S, S \subseteq Card, S # {}
  PROVE  Highest(S) \in S /\ \A d \in S : d <= Highest(S)
<1> DEFINE top == 4 * RankCount
           M == {top - c : c \in S}
<1>1. \A c \in S : c \in Nat /\ c < top
  BY RankCountAssumption DEF Card
<1>2. M \subseteq Nat /\ M # {} BY <1>1, RankCountAssumption
<1>3. PICK m \in M : \A k \in M : m <= k
  <2> HIDE DEF M
  <2> QED BY <1>2, LowestExists
<1>4. PICK c \in S : m = top - c OBVIOUS
<1>5. \A d \in S : d <= c
  <2> SUFFICES ASSUME NEW d \in S PROVE d <= c OBVIOUS
  <2>1. top - c <= top - d BY <1>3, <1>4
  <2>2. top \in Nat BY RankCountAssumption
  <2> HIDE DEF top
  <2> QED BY <1>1, <2>1, <2>2
<1> QED BY <1>5 DEF Highest

\* The sorted list of a set of cards: increasing, and of these cards.
LEMMA Sorted ==
  ASSUME NEW S, S \subseteq Card
  PROVE  LET n == Cardinality(S)
             s == SortCards(S)
         IN  /\ IsFiniteSet(S) /\ n \in Nat
             /\ s \in [1 .. n -> S]
             /\ \A i, j \in 1 .. n : i < j <=> s[i] < s[j]
             /\ \A c \in S : \E i \in 1 .. n : s[i] = c
             /\ \A i \in 1 .. n : Cardinality({d \in S : d < s[i]}) = i - 1
<1> DEFINE n == Cardinality(S)
           s == SortCards(S)
           B(c) == {d \in S : d < c}
           pos == [c \in S |-> Cardinality(B(c)) + 1]
<1>1. IsFiniteSet(S) /\ n \in Nat /\ S \subseteq Nat
  BY CardsAreNumbers, FS_Subset, FS_CardinalityType
<1>2. ASSUME NEW c \in S
      PROVE  IsFiniteSet(B(c)) /\ Cardinality(B(c)) \in 0 .. n - 1
  <2>1. B(c) \subseteq S /\ c \notin B(c) BY <1>1
  <2>2. IsFiniteSet(B(c)) /\ Cardinality(B(c)) <= n /\ Cardinality(B(c)) # n
    BY <1>1, <2>1, FS_Subset
  <2> QED BY <1>1, <2>2, FS_CardinalityType
<1>3. ASSUME NEW c \in S, NEW d \in S, c < d
      PROVE  Cardinality(B(c)) < Cardinality(B(d))
  <2>1. \A e \in S : e < c => e < d BY <1>1, <1>3
  <2>2. B(c) \subseteq B(d) /\ c \in B(d) /\ c \notin B(c)
    <3>1. ~(c < c) BY <1>1
    <3>2. B(c) \subseteq B(d) BY <2>1
    <3>3. c \in B(d) BY <1>3
    <3>4. c \notin B(c) BY <3>1
    <3> QED BY <3>2, <3>3, <3>4
  <2>3. Cardinality(B(c)) <= Cardinality(B(d)) /\ Cardinality(B(c)) # Cardinality(B(d))
    BY <1>2, <2>2, FS_Subset
  <2>4. Cardinality(B(c)) \in Nat /\ Cardinality(B(d)) \in Nat BY <1>1, <1>2
  <2> QED BY <2>3, <2>4
<1>4. /\ pos \in [S -> 1 .. n]
      /\ \A c \in S : pos[c] = Cardinality(B(c)) + 1 /\ Cardinality(B(c)) \in Nat
  BY <1>1, <1>2
<1>5. \A c, d \in S : c < d <=> pos[c] < pos[d]
  <2> HIDE DEF B, pos
  <2>1. \A c, d \in S : c < d => pos[c] < pos[d] BY <1>3, <1>4
  <2>2. \A c, d \in S : c = d \/ c < d \/ d < c BY <1>1
  <2>3. \A c \in S : pos[c] \in Nat BY <1>4
  <2> QED BY <2>1, <2>2, <2>3
<1>6. pos \in Injection(S, 1 .. n)
  <2> HIDE DEF B, pos
  <2>1. \A c, d \in S : pos[c] = pos[d] => c = d
    <3>1. \A c \in S : pos[c] \in Nat BY <1>4
    <3>2. \A c, d \in S : c = d \/ c < d \/ d < c BY <1>1
    <3> QED BY <1>5, <3>1, <3>2
  <2> QED BY <1>4, <2>1 DEF Injection, IsInjective
<1>7. pos \in Surjection(S, 1 .. n)
  <2>1. IsFiniteSet(1 .. n) /\ Cardinality(1 .. n) = n BY <1>1, FS_Interval
  <2> QED BY <1>6, <2>1, FS_Injection
<1>8. \A i \in 1 .. n : \E c \in S : pos[c] = i
  BY <1>7 DEF Surjection
<1>9. s = [i \in 1 .. n |-> CHOOSE c \in S : Cardinality(B(c)) = i - 1]
  BY DEF SortCards
<1>10. ASSUME NEW i \in 1 .. n
       PROVE  s[i] \in S /\ pos[s[i]] = i /\ Cardinality(B(s[i])) = i - 1
  <2>1. \E c \in S : Cardinality(B(c)) = i - 1
    <3>1. PICK c \in S : pos[c] = i BY <1>8
    <3>2. pos[c] = Cardinality(B(c)) + 1 /\ Cardinality(B(c)) \in Nat BY <1>4
    <3> HIDE DEF B, pos
    <3> QED BY <3>1, <3>2
  <2>2. s[i] \in S /\ Cardinality(B(s[i])) = i - 1
    <3> HIDE DEF B, pos, s
    <3> QED BY <1>9, <2>1
  <2>3. pos[s[i]] = Cardinality(B(s[i])) + 1 BY <2>2, <1>4
  <2> HIDE DEF B, pos, s
  <2> QED BY <1>1, <2>2, <2>3
<1> HIDE DEF B, pos, s, n
<1>11. s \in [1 .. n -> S] BY <1>9, <1>10
<1>12. \A i, j \in 1 .. n : i < j <=> s[i] < s[j]
  BY <1>5, <1>10
<1>13. \A c \in S : s[pos[c]] = c
  <2> SUFFICES ASSUME NEW c \in S PROVE s[pos[c]] = c OBVIOUS
  <2>1. pos[c] \in 1 .. n BY <1>4
  <2>2. s[pos[c]] \in S /\ pos[s[pos[c]]] = pos[c] BY <2>1, <1>10
  <2>3. pos[c] \in Nat BY <1>1, <2>1
  <2>4. \A d \in S : c = d \/ c < d \/ d < c BY <1>1
  <2> QED BY <2>2, <2>3, <2>4, <1>5
<1> QED BY <1>1, <1>4, <1>10, <1>11, <1>12, <1>13 DEF n, s, B

\* The ranks of the sorted list.
LEMMA SortedRanks ==
  ASSUME NEW S, S \subseteq Card
  PROVE  LET n == Cardinality(S)
             s == SortCards(S)
         IN  /\ Len(s) = n /\ DOMAIN s = 1 .. n
             /\ \A i \in 1 .. n : RankOf(s[i]) \in Rank
             /\ \A i, j \in 1 .. n : i <= j => RankOf(s[i]) <= RankOf(s[j])
             /\ \A i \in 1 .. n : RankOf(s[i]) \in Ranks(S)
             /\ \A r \in Ranks(S) : \E i \in 1 .. n : RankOf(s[i]) = r
             /\ HasTwo(s) <=> Two \in Ranks(S)
             /\ Ranks(S) \subseteq Rank
<1> DEFINE n == Cardinality(S)
           s == SortCards(S)
<1>1. /\ n \in Nat /\ s \in [1 .. n -> S]
      /\ \A i, j \in 1 .. n : i < j <=> s[i] < s[j]
      /\ \A c \in S : \E i \in 1 .. n : s[i] = c
  BY Sorted
<1> HIDE DEF n, s
<1>2. Len(s) = n /\ DOMAIN s = 1 .. n
  BY <1>1
<1>3. \A i \in 1 .. n : s[i] \in Card /\ s[i] \in Nat /\ RankOf(s[i]) \in Rank
  BY <1>1, CardsAreNumbers
<1>4. ASSUME NEW i \in 1 .. n, NEW j \in 1 .. n, i <= j
      PROVE  RankOf(s[i]) <= RankOf(s[j])
  <2>1. i = j \/ s[i] < s[j] BY <1>1, <1>4
  <2>2. s[i] <= s[j] BY <1>3, <2>1
  <2> QED BY <1>3, <2>2, CardsAreNumbers
<1>5. \A i \in 1 .. n : RankOf(s[i]) \in Ranks(S) BY <1>1 DEF Ranks
<1>6. \A r \in Ranks(S) : \E i \in 1 .. n : RankOf(s[i]) = r BY <1>1 DEF Ranks
<1>7. HasTwo(s) <=> Two \in Ranks(S) BY <1>2, <1>5, <1>6 DEF HasTwo
<1>8. Ranks(S) \subseteq Rank BY CardsAreNumbers DEF Ranks
<1> QED BY <1>2, <1>3, <1>4, <1>5, <1>6, <1>7, <1>8 DEF n, s

\* The same, in one place, of a set that is not empty.
LEMMA ListFacts ==
  ASSUME NEW S, S \subseteq Card, S # {}
  PROVE  LET n == Cardinality(S)
             s == SortCards(S)
             rk(i) == RankOf(s[i])
         IN  /\ n \in Nat /\ n >= 1 /\ Len(s) = n
             /\ \A i \in 1 .. n : rk(i) \in Nat /\ rk(i) \in Ranks(S) /\ s[i] \in S /\ s[i] \in Nat
             /\ \A i, j \in 1 .. n : i <= j => rk(i) <= rk(j)
             /\ \A i, j \in 1 .. n : i < j <=> s[i] < s[j]
             /\ \A r \in Ranks(S) : \E i \in 1 .. n : rk(i) = r
             /\ \A c \in S : \E i \in 1 .. n : s[i] = c
<1> DEFINE n == Cardinality(S)
           s == SortCards(S)
           rk(i) == RankOf(s[i])
<1>1. IsFiniteSet(S) /\ n \in Nat /\ n # 0 BY Sorted, FS_EmptySet
<1>2. \A i \in 1 .. n : s[i] \in S BY Sorted
<1>3. \A i \in 1 .. n : s[i] \in Nat BY <1>2, CardsAreNumbers
<1>4. \A i \in 1 .. n : rk(i) \in Nat BY SortedRanks, RankCountAssumption DEF Rank
<1>5. \A i \in 1 .. n : rk(i) \in Ranks(S) BY SortedRanks
<1>6. \A i, j \in 1 .. n : i <= j => rk(i) <= rk(j) BY SortedRanks
<1>7. \A i, j \in 1 .. n : i < j <=> s[i] < s[j] BY Sorted
<1>8. \A r \in Ranks(S) : \E i \in 1 .. n : rk(i) = r BY SortedRanks
<1>9. \A c \in S : \E i \in 1 .. n : s[i] = c BY Sorted
<1>10. Len(s) = n BY SortedRanks
<1> HIDE DEF n, s, rk
<1>11. n >= 1 BY <1>1
<1> QED BY <1>1, <1>2, <1>3, <1>4, <1>5, <1>6, <1>7, <1>8, <1>9, <1>10, <1>11 DEF n, s, rk

\* The cards of one rank of a sorted list are next to each other.
LEMMA SameRankBetween ==
  ASSUME NEW S, S \subseteq Card,
         NEW i \in 1 .. Cardinality(S), NEW j \in 1 .. Cardinality(S), NEW k \in 1 .. Cardinality(S),
         i <= j, j <= k, RankOf(SortCards(S)[i]) = RankOf(SortCards(S)[k])
  PROVE  RankOf(SortCards(S)[j]) = RankOf(SortCards(S)[i])
<1> DEFINE rk(m) == RankOf(SortCards(S)[m])
<1>1. rk(i) <= rk(j) /\ rk(j) <= rk(k) BY SortedRanks
<1>2. rk(i) \in Rank /\ rk(j) \in Rank /\ rk(i) = rk(k) BY SortedRanks
<1> HIDE DEF rk
<1>3. rk(j) = rk(i) BY <1>1, <1>2, RankCountAssumption DEF Rank
<1> QED BY <1>3 DEF rk

LEMMA OneRankShape ==
  ASSUME NEW S, S \subseteq Card, Cardinality(S) \in 2 .. 4
  PROVE  SameRank(SortCards(S)) <=> OneRank(S)
<1> DEFINE n == Cardinality(S)
           s == SortCards(S)
<1>1. /\ Len(s) = n
      /\ \A i \in 1 .. n : RankOf(s[i]) \in Ranks(S)
      /\ \A r \in Ranks(S) : \E i \in 1 .. n : RankOf(s[i]) = r
      /\ Ranks(S) \subseteq Rank
  BY SortedRanks
<1>2. OneRank(S) <=> \E r : Ranks(S) = {r}
  <2>1. IsFiniteSet(Rank) BY RankCountAssumption, FS_Interval DEF Rank
  <2> QED BY <1>1, <2>1, FS_Subset, FS_Singleton DEF OneRank
<1> HIDE DEF n, s
<1>3. ASSUME SameRank(s) PROVE \A i \in 1 .. n : RankOf(s[i]) = RankOf(s[1])
  <2>1. n = 2 \/ n = 3 \/ n = 4 BY DEF n
  <2>2. RankOf(s[2]) = RankOf(s[1]) BY <1>1, <1>3, <2>1 DEF SameRank
  <2>3. n >= 3 => RankOf(s[3]) = RankOf(s[2]) BY <1>1, <1>3, <2>1 DEF SameRank
  <2>4. n >= 4 => RankOf(s[4]) = RankOf(s[3]) BY <1>1, <1>3, <2>1 DEF SameRank
  <2>5. \A i \in 1 .. n : i \in {1, 2} \/ (i = 3 /\ n >= 3) \/ (i = 4 /\ n >= 4)
    BY <2>1
  <2> SUFFICES ASSUME NEW i \in 1 .. n PROVE RankOf(s[i]) = RankOf(s[1]) OBVIOUS
  <2>6. CASE i \in {1, 2} BY <2>2, <2>6
  <2>7. CASE i = 3 /\ n >= 3 BY <2>2, <2>3, <2>7
  <2>8. CASE i = 4 /\ n >= 4
    <3>1. RankOf(s[4]) = RankOf(s[3]) /\ RankOf(s[3]) = RankOf(s[2]) BY <2>1, <2>3, <2>4, <2>8
    <3> QED BY <2>2, <2>8, <3>1
  <2> QED BY <2>5, <2>6, <2>7, <2>8
<1>4. 1 \in 1 .. n BY DEF n
<1>5. SameRank(s) => Ranks(S) = {RankOf(s[1])} BY <1>1, <1>3, <1>4
<1>6. ASSUME NEW r, Ranks(S) = {r} PROVE SameRank(s)
  <2>1. \A i \in 2 .. n : i \in 1 .. n /\ i - 1 \in 1 .. n BY DEF n
  <2> QED BY <1>1, <1>6, <2>1 DEF SameRank
<1> QED BY <1>2, <1>5, <1>6 DEF s

\* The lowest and the highest rank are the first and the last of the list.
LEMMA EndRanks ==
  ASSUME NEW S, S \subseteq Card, S # {}
  PROVE  /\ Cardinality(S) >= 1
         /\ Min(Ranks(S)) = RankOf(SortCards(S)[1])
         /\ Max(Ranks(S)) = RankOf(SortCards(S)[Cardinality(S)])
<1> DEFINE n == Cardinality(S)
           rk(i) == RankOf(SortCards(S)[i])
<1>1. n \in Nat /\ n >= 1
  BY Sorted, FS_EmptySet
<1>2. /\ \A i \in 1 .. n : rk(i) \in Nat /\ rk(i) \in Ranks(S)
      /\ \A i, j \in 1 .. n : i <= j => rk(i) <= rk(j)
      /\ \A r \in Ranks(S) : \E i \in 1 .. n : rk(i) = r
  BY SortedRanks, RankCountAssumption DEF Rank
<1> HIDE DEF n, rk
<1>3. 1 \in 1 .. n /\ n \in 1 .. n /\ \A i \in 1 .. n : 1 <= i /\ i <= n BY <1>1
<1>4. rk(1) \in Ranks(S) /\ \A r \in Ranks(S) : rk(1) <= r BY <1>2, <1>3
<1>5. rk(n) \in Ranks(S) /\ \A r \in Ranks(S) : rk(n) >= r BY <1>2, <1>3
<1>6. Ranks(S) \subseteq Nat BY <1>2
<1>7. Min(Ranks(S)) = rk(1) BY <1>4, <1>6 DEF Min
<1>8. Max(Ranks(S)) = rk(n) BY <1>5, <1>6 DEF Max
<1> QED BY <1>1, <1>7, <1>8 DEF n, rk

\* Between neighbours of a list with consecutive ranks none is missing.
LEMMA NoGap ==
  ASSUME NEW S, S \subseteq Card, S # {}, Consecutive(Ranks(S)),
         NEW i \in 2 .. Cardinality(S)
  PROVE  RankOf(SortCards(S)[i]) <= RankOf(SortCards(S)[i - 1]) + 1
<1> DEFINE n == Cardinality(S)
           rk(k) == RankOf(SortCards(S)[k])
<1>1. /\ n \in Nat
      /\ \A k \in 1 .. n : rk(k) \in Nat /\ rk(k) \in Ranks(S)
      /\ \A k, l \in 1 .. n : k <= l => rk(k) <= rk(l)
      /\ \A r \in Ranks(S) : \E k \in 1 .. n : rk(k) = r
  BY Sorted, SortedRanks, RankCountAssumption DEF Rank
<1>2. Ranks(S) = rk(1) .. rk(n) BY EndRanks DEF Consecutive
<1> HIDE DEF rk
<1>3. i \in 1 .. n /\ i - 1 \in 1 .. n /\ 1 \in 1 .. n /\ n \in 1 .. n BY <1>1
<1> SUFFICES ASSUME rk(i) > rk(i - 1) + 1 PROVE FALSE BY <1>1, <1>3 DEF rk
<1>4. rk(i - 1) + 1 \in Ranks(S)
  <2>1. rk(1) <= rk(i - 1) /\ rk(i) <= rk(n) BY <1>1, <1>3
  <2> QED BY <1>1, <1>2, <1>3, <2>1
<1>5. PICK k \in 1 .. n : rk(k) = rk(i - 1) + 1 BY <1>1, <1>4
<1>6. CASE k <= i - 1 BY <1>1, <1>3, <1>5, <1>6
<1>7. CASE k >= i BY <1>1, <1>3, <1>5, <1>7
<1> QED BY <1>3, <1>6, <1>7

----------------------------------------------------------------------------
(* Sequences. *)

OfRank(S, r) == {c \in S : RankOf(c) = r}

LEMMA EachRankOnce ==
  ASSUME NEW S, S \subseteq Card
  PROVE  EachRank(S, 1) <=> \A c, d \in S : RankOf(c) = RankOf(d) => c = d
<1>1. \A r : OfRank(S, r) \subseteq S /\ IsFiniteSet(OfRank(S, r))
  BY Sorted, FS_Subset DEF OfRank
<1>2. \A r : Cardinality(OfRank(S, r)) = 1 <=> \E x : OfRank(S, r) = {x}
  BY <1>1, FS_Singleton
<1>3. EachRank(S, 1) <=> \A r \in Ranks(S) : \E x : OfRank(S, r) = {x}
  BY <1>2 DEF EachRank, OfRank
<1> QED BY <1>3 DEF Ranks, OfRank

LEMMA SequenceShape ==
  ASSUME NEW S, S \subseteq Card, Cardinality(S) >= 3
  PROVE  IsSequence(SortCards(S)) <=>
           Two \notin Ranks(S) /\ EachRank(S, 1) /\ Consecutive(Ranks(S))
<1> DEFINE n == Cardinality(S)
           s == SortCards(S)
           rk(i) == RankOf(s[i])
<1>2. S # {} BY FS_EmptySet
<1>1. /\ n \in Nat /\ n >= 3 /\ Len(s) = n
      /\ \A i \in 1 .. n : rk(i) \in Nat /\ rk(i) \in Ranks(S) /\ s[i] \in S /\ s[i] \in Nat
      /\ \A i, j \in 1 .. n : i <= j => rk(i) <= rk(j)
      /\ \A i, j \in 1 .. n : i < j <=> s[i] < s[j]
      /\ \A r \in Ranks(S) : \E i \in 1 .. n : rk(i) = r
      /\ \A c \in S : \E i \in 1 .. n : s[i] = c
  BY <1>2, ListFacts
<1>0. HasTwo(s) <=> Two \in Ranks(S) BY SortedRanks
<1>3. Consecutive(Ranks(S)) <=> Ranks(S) = rk(1) .. rk(n) BY <1>2, EndRanks DEF Consecutive
<1>4. \A i \in 2 .. n : i \in 1 .. n /\ i - 1 \in 1 .. n BY <1>1
<1>5. Consecutive(Ranks(S)) => \A i \in 2 .. n : rk(i) <= rk(i - 1) + 1 BY <1>2, NoGap
<1>6. ASSUME IsSequence(s)
      PROVE  EachRank(S, 1) /\ Consecutive(Ranks(S))
  <2>1. \A i \in 2 .. n : rk(i) = rk(i - 1) + 1 BY <1>1, <1>6 DEF IsSequence
  <2> HIDE DEF rk, n
  <2>2. \A i \in 1 .. n : rk(i) = rk(1) + i - 1
    <3> DEFINE Wrong == {i \in 1 .. n : rk(i) # rk(1) + i - 1}
    <3> SUFFICES ASSUME Wrong # {} PROVE FALSE OBVIOUS
    <3>1. PICK i \in Wrong : \A j \in Wrong : i <= j
      <4>1. Wrong \subseteq Nat BY <1>1
      <4> HIDE DEF Wrong
      <4> QED BY <4>1, LowestExists
    <3>2. i # 1 BY <1>1, <3>1
    <3>3. i \in 2 .. n /\ i - 1 \notin Wrong BY <1>1, <3>1, <3>2
    <3>4. rk(i - 1) = rk(1) + (i - 1) - 1 BY <1>4, <3>3
    <3>5. rk(i) = rk(i - 1) + 1 BY <2>1, <3>3
    <3>6. rk(1) \in Nat /\ i \in Nat BY <1>1, <3>1
    <3>7. rk(i) = rk(1) + i - 1 BY <3>4, <3>5, <3>6
    <3> QED BY <3>1, <3>7
  <2>0. rk(1) \in Nat /\ \A i \in 1 .. n : i \in Nat BY <1>1
  <2>3. \A i, j \in 1 .. n : rk(i) = rk(j) => i = j
    <3> SUFFICES ASSUME NEW i \in 1 .. n, NEW j \in 1 .. n, rk(i) = rk(j) PROVE i = j OBVIOUS
    <3>1. rk(i) = rk(1) + i - 1 /\ rk(j) = rk(1) + j - 1 BY <2>2
    <3>2. rk(1) + i - 1 = rk(1) + j - 1 BY <3>1
    <3>3. rk(1) \in Nat /\ i \in Nat /\ j \in Nat BY <2>0
    <3> HIDE DEF n
    <3> QED BY <3>2, <3>3
  <2>4. \A c, d \in S : RankOf(c) = RankOf(d) => c = d
    <3> SUFFICES ASSUME NEW c \in S, NEW d \in S, RankOf(c) = RankOf(d) PROVE c = d OBVIOUS
    <3>1. PICK i \in 1 .. n, j \in 1 .. n : s[i] = c /\ s[j] = d BY <1>1
    <3> QED BY <2>3, <3>1 DEF rk
  <2>5. EachRank(S, 1) BY <2>4, EachRankOnce
  <2>6. 1 \in 1 .. n /\ n \in 1 .. n BY <1>1
  <2>7. \A r \in Ranks(S) : r \in rk(1) .. rk(n) BY <1>1, <2>6
  <2>8. \A r \in rk(1) .. rk(n) : r \in Ranks(S)
    <3> SUFFICES ASSUME NEW r \in rk(1) .. rk(n) PROVE r \in Ranks(S) OBVIOUS
    <3>4. rk(n) = rk(1) + n - 1 BY <2>2, <2>6
    <3>0. r \in Int /\ rk(1) <= r /\ r <= rk(1) + n - 1
      <4>1. rk(1) \in Nat /\ rk(n) \in Nat BY <1>1, <2>6
      <4> QED BY <3>4, <4>1
    <3> DEFINE i == r - rk(1) + 1
    <3>1. i \in 1 .. n
      <4>1. n \in Nat /\ rk(1) \in Nat BY <1>1, <2>0
      <4> QED BY <3>0, <4>1
    <3>2. rk(i) = rk(1) + i - 1 BY <2>2, <3>1
    <3>3. rk(1) + i - 1 = r BY <2>0, <3>0
    <3> QED BY <1>1, <3>1, <3>2, <3>3
  <2> QED BY <1>3, <2>5, <2>7, <2>8
<1>7. ASSUME Two \notin Ranks(S), EachRank(S, 1), Consecutive(Ranks(S))
      PROVE  IsSequence(s)
  <2>1. \A c, d \in S : RankOf(c) = RankOf(d) => c = d BY <1>7, EachRankOnce
  <2>2. ASSUME NEW i \in 2 .. n PROVE rk(i) = rk(i - 1) + 1
    <3>1. rk(i - 1) <= rk(i) /\ rk(i) <= rk(i - 1) + 1 BY <1>1, <1>4, <1>5, <1>7
    <3>2. s[i - 1] # s[i]
      <4>1. i - 1 \in 1 .. n /\ i \in 1 .. n /\ i - 1 < i BY <1>4
      <4>2. s[i - 1] \in Nat /\ s[i] \in Nat /\ s[i - 1] < s[i] BY <1>1, <4>1
      <4> QED BY <4>2
    <3>3. rk(i - 1) # rk(i) BY <1>1, <1>4, <2>1, <3>2
    <3>4. rk(i - 1) \in Nat /\ rk(i) \in Nat BY <1>1, <1>4
    <3> HIDE DEF rk
    <3> QED BY <3>1, <3>3, <3>4
  <2> QED BY <1>0, <1>1, <1>7, <2>2 DEF IsSequence
<1> QED BY <1>0, <1>6, <1>7 DEF IsSequence

----------------------------------------------------------------------------
(* Double sequences. *)

LEMMA TwoElements ==
  ASSUME NEW T, IsFiniteSet(T)
  PROVE  Cardinality(T) = 2 <=> \E x, y : x # y /\ T = {x, y}
<1>1. ASSUME NEW x, NEW y, x # y, T = {x, y} PROVE Cardinality(T) = 2
  <2>1. IsFiniteSet({x}) /\ Cardinality({x}) = 1 BY FS_Singleton
  <2>2. Cardinality({x} \cup {y}) = 2 BY <1>1, <2>1, FS_AddElement
  <2>3. T = {x} \cup {y} BY <1>1
  <2> QED BY <2>2, <2>3
<1>2. ASSUME Cardinality(T) = 2 PROVE \E x, y : x # y /\ T = {x, y}
  <2>1. T # {} BY <1>2, FS_EmptySet
  <2>2. PICK x : x \in T BY <2>1
  <2>3. IsFiniteSet(T \ {x}) /\ Cardinality(T \ {x}) = 1 BY <1>2, <2>2, FS_RemoveElement
  <2>4. PICK y : T \ {x} = {y} BY <2>3, FS_Singleton
  <2> QED BY <2>2, <2>4
<1> QED BY <1>1, <1>2

LEMMA EachRankTwice ==
  ASSUME NEW S, S \subseteq Card
  PROVE  EachRank(S, 2) <=> \A r \in Ranks(S) : \E x, y : x # y /\ OfRank(S, r) = {x, y}
<1>1. \A r : OfRank(S, r) \subseteq S /\ IsFiniteSet(OfRank(S, r))
  BY Sorted, FS_Subset DEF OfRank
<1>2. \A r : Cardinality(OfRank(S, r)) = 2 <=> \E x, y : x # y /\ OfRank(S, r) = {x, y}
  BY <1>1, TwoElements
<1> QED BY <1>2 DEF EachRank, OfRank

Odd(i) == i % 2 = 1

\* The list consists of pairs of one rank, each a rank above the one before.
PairsInARow(S) ==
  LET n == Cardinality(S)
      rk(i) == RankOf(SortCards(S)[i])
  IN  /\ n % 2 = 0
      /\ \A i \in 1 .. n : Odd(i) =>
           /\ i + 1 <= n /\ rk(i + 1) = rk(i)
           /\ i > 1 => rk(i) = rk(i - 2) + 1

LEMMA PairsAscend ==
  ASSUME NEW S, S \subseteq Card, S # {}, PairsInARow(S)
  PROVE  /\ \A i \in 1 .. Cardinality(S) :
              RankOf(SortCards(S)[i]) = RankOf(SortCards(S)[1]) + (i - 1) \div 2
         /\ EachRank(S, 2) /\ Consecutive(Ranks(S))
         /\ Cardinality(S) = 2 * Cardinality(Ranks(S))
<1> DEFINE n == Cardinality(S)
           s == SortCards(S)
           rk(i) == RankOf(s[i])
<1>1. /\ n \in Nat /\ n >= 1
      /\ \A i \in 1 .. n : rk(i) \in Nat /\ rk(i) \in Ranks(S) /\ s[i] \in S /\ s[i] \in Nat
      /\ \A i, j \in 1 .. n : i < j <=> s[i] < s[j]
      /\ \A r \in Ranks(S) : \E i \in 1 .. n : rk(i) = r
      /\ \A c \in S : \E i \in 1 .. n : s[i] = c
  BY ListFacts
<1>2. /\ n % 2 = 0
      /\ \A i \in 1 .. n : Odd(i) =>
           /\ i + 1 \in 1 .. n /\ rk(i + 1) = rk(i)
           /\ i > 1 => i - 2 \in 1 .. n /\ rk(i) = rk(i - 2) + 1
  <2>1. \A i \in 1 .. n : Odd(i) /\ i > 1 => i - 2 \in 1 .. n BY <1>1 DEF Odd
  <2> QED BY <1>1, <2>1 DEF PairsInARow
<1>3. Consecutive(Ranks(S)) <=> Ranks(S) = rk(1) .. rk(n) BY EndRanks DEF Consecutive
<1> HIDE DEF rk, n
<1>4. 1 \in 1 .. n /\ n \in 1 .. n BY <1>1
<1>5. \A i \in 1 .. n : rk(i) = rk(1) + (i - 1) \div 2
  <2> DEFINE Wrong == {i \in 1 .. n : rk(i) # rk(1) + (i - 1) \div 2}
  <2> SUFFICES ASSUME Wrong # {} PROVE FALSE OBVIOUS
  <2>1. PICK i \in Wrong : \A j \in Wrong : i <= j
    <3>1. Wrong \subseteq Nat BY <1>1
    <3> HIDE DEF Wrong
    <3> QED BY <3>1, LowestExists
  <2>2. \A j \in 1 .. n : j < i => rk(j) = rk(1) + (j - 1) \div 2 BY <1>1, <2>1
  <2>3. i \in 1 .. n /\ i # 1 BY <1>1, <1>4, <2>1
  <2>4. CASE Odd(i)
    <3>1. i - 2 \in 1 .. n /\ rk(i) = rk(i - 2) + 1 BY <1>1, <1>2, <2>3, <2>4
    <3>2. i - 2 < i /\ (i - 2) - 1 = i - 3 BY <1>1, <2>3
    <3>3. rk(i - 2) = rk(1) + (i - 3) \div 2 BY <2>2, <3>1, <3>2
    <3>4. (i - 1) \div 2 = (i - 3) \div 2 + 1 /\ (i - 3) \div 2 \in Int
      <4> DEFINE j == i - 3
      <4>1. j \in Nat /\ i - 1 = j + 2 BY <1>1, <2>3, <3>1
      <4>2. (j + 2) \div 2 = j \div 2 + 1 /\ j \div 2 \in Int BY <4>1
      <4> QED BY <4>1, <4>2
    <3>5. rk(1) \in Nat BY <1>1, <1>4
    <3>6. rk(i) = rk(1) + (i - 1) \div 2 BY <3>1, <3>3, <3>4, <3>5
    <3> QED BY <2>1, <3>6
  <2>5. CASE ~Odd(i)
    <3>1. i - 1 \in 1 .. n /\ Odd(i - 1)
      <4>1. n \in Nat /\ i \in 2 .. n BY <1>1, <2>3
      <4>2. i % 2 # 1 BY <2>5 DEF Odd
      <4>3. (i - 1) % 2 = 1 BY <4>1, <4>2
      <4> QED BY <4>1, <4>3 DEF Odd
    <3>0. i - 1 < i /\ (i - 1) + 1 = i /\ (i - 1) - 1 = i - 2 BY <1>1, <2>3
    <3>2. rk(i) = rk(i - 1) BY <1>2, <3>0, <3>1
    <3>3. rk(i - 1) = rk(1) + (i - 2) \div 2 BY <2>2, <3>0, <3>1
    <3>4. (i - 1) \div 2 = (i - 2) \div 2 BY <2>3, <2>5 DEF Odd
    <3> QED BY <2>1, <3>2, <3>3, <3>4
  <2> QED BY <2>4, <2>5
<1>6. rk(n) = rk(1) + n \div 2 - 1
  <2>1. rk(n) = rk(1) + (n - 1) \div 2 /\ rk(1) \in Nat BY <1>1, <1>4, <1>5
  <2>2. (n - 1) \div 2 = n \div 2 - 1 /\ n \div 2 \in Nat BY <1>1, <1>2
  <2> QED BY <2>1, <2>2
<1>7. Ranks(S) = rk(1) .. rk(n)
  <2>1. \A r \in Ranks(S) : r \in rk(1) .. rk(n)
    <3> SUFFICES ASSUME NEW i \in 1 .. n PROVE rk(i) \in rk(1) .. rk(n) BY <1>1
    <3>1. rk(i) = rk(1) + (i - 1) \div 2 BY <1>5
    <3> QED BY <1>1, <1>2, <1>4, <1>6, <3>1
  <2>2. \A r \in rk(1) .. rk(n) : r \in Ranks(S)
    <3> SUFFICES ASSUME NEW r \in rk(1) .. rk(n) PROVE r \in Ranks(S) OBVIOUS
    <3> DEFINE i == 2 * (r - rk(1)) + 1
    <3>1. rk(1) \in Nat BY <1>1, <1>4
    <3>2. i \in 1 .. n BY <1>1, <1>2, <1>6, <3>1
    <3>3. rk(i) = rk(1) + (i - 1) \div 2 BY <1>5, <3>2
    <3>4. rk(i) = r BY <3>1, <3>3
    <3> QED BY <1>1, <3>2, <3>4
  <2> QED BY <2>1, <2>2
<1>8. Cardinality(Ranks(S)) = n \div 2
  <2>1. rk(1) \in Nat BY <1>1, <1>4
  <2> QED BY <1>1, <1>2, <1>6, <1>7, <2>1, FS_Interval
<1>9. n = 2 * Cardinality(Ranks(S)) BY <1>1, <1>2, <1>8
<1>10. EachRank(S, 2)
  <2> SUFFICES ASSUME NEW i \in 1 .. n
               PROVE  \E x, y : x # y /\ OfRank(S, rk(i)) = {x, y}
    BY <1>1, EachRankTwice
  <2> DEFINE o == IF Odd(i) THEN i ELSE i - 1
  <2>1. o \in 1 .. n /\ o + 1 \in 1 .. n /\ \A j \in 1 .. n : (j - 1) \div 2 = (i - 1) \div 2 <=> j \in {o, o + 1}
    BY <1>1, <1>2 DEF Odd
  <2>2. \A j \in 1 .. n : rk(j) = rk(i) <=> j \in {o, o + 1}
    <3> HIDE DEF o
    <3> SUFFICES ASSUME NEW j \in 1 .. n PROVE rk(j) = rk(i) <=> (j - 1) \div 2 = (i - 1) \div 2
      BY <2>1
    <3>1. rk(j) = rk(1) + (j - 1) \div 2 /\ rk(i) = rk(1) + (i - 1) \div 2 /\ rk(1) \in Nat
      BY <1>1, <1>4, <1>5
    <3> QED BY <3>1
  <2> HIDE DEF o
  <2>3. s[o] \in S /\ s[o + 1] \in S /\ s[o] # s[o + 1]
    <3>1. o < o + 1 BY <1>1, <2>1
    <3>2. s[o] < s[o + 1] /\ s[o] \in Nat BY <1>1, <2>1, <3>1
    <3> QED BY <1>1, <2>1, <3>2
  <2>4. OfRank(S, rk(i)) = {s[o], s[o + 1]} BY <1>1, <2>1, <2>2 DEF OfRank, rk
  <2> QED BY <2>3, <2>4
<1> QED BY <1>3, <1>5, <1>7, <1>9, <1>10 DEF rk, n

LEMMA PairsFromRanks ==
  ASSUME NEW S, S \subseteq Card, S # {}, EachRank(S, 2), Consecutive(Ranks(S))
  PROVE  PairsInARow(S)
<1> DEFINE n == Cardinality(S)
           s == SortCards(S)
           rk(i) == RankOf(s[i])
           Good(i) == i + 1 <= n /\ rk(i + 1) = rk(i) /\ (i > 1 => rk(i) = rk(i - 2) + 1)
<1>1. /\ n \in Nat /\ n >= 1
      /\ \A i \in 1 .. n : rk(i) \in Nat /\ rk(i) \in Ranks(S) /\ s[i] \in S /\ s[i] \in Nat
      /\ \A i, j \in 1 .. n : i <= j => rk(i) <= rk(j)
      /\ \A i, j \in 1 .. n : i < j <=> s[i] < s[j]
      /\ \A c \in S : \E i \in 1 .. n : s[i] = c
  BY ListFacts
<1>2. \A i \in 2 .. n : rk(i) <= rk(i - 1) + 1 BY NoGap
<1>3. \A i, j, k \in 1 .. n : i <= j /\ j <= k /\ rk(i) = rk(k) => rk(j) = rk(i)
  BY SameRankBetween
<1>4. ASSUME NEW i \in 1 .. n
      PROVE  \E j \in 1 .. n : j # i /\ rk(j) = rk(i) /\ \A k \in 1 .. n : rk(k) = rk(i) => k \in {i, j}
  <2>1. rk(i) \in Ranks(S) BY <1>1
  <2>2. PICK x, y : x # y /\ OfRank(S, rk(i)) = {x, y} BY <2>1, EachRankTwice
  <2>3. s[i] \in {x, y} BY <1>1, <2>2 DEF OfRank
  <2>4. PICK z : z # s[i] /\ OfRank(S, rk(i)) = {s[i], z} BY <2>2, <2>3
  <2>5. z \in S /\ RankOf(z) = rk(i) BY <2>4 DEF OfRank
  <2>6. PICK j \in 1 .. n : s[j] = z BY <1>1, <2>5
  <2>7. ASSUME NEW k \in 1 .. n, rk(k) = rk(i) PROVE k \in {i, j}
    <3>1. s[k] \in OfRank(S, rk(i)) BY <1>1, <2>7 DEF OfRank
    <3>2. s[k] = s[i] \/ s[k] = s[j] BY <2>4, <2>6, <3>1
    <3>3. \A l, m \in 1 .. n : s[l] = s[m] => l = m
      <4> SUFFICES ASSUME NEW l \in 1 .. n, NEW m \in 1 .. n, s[l] = s[m] PROVE l = m OBVIOUS
      <4>1. ~(l < m) /\ ~(m < l) BY <1>1
      <4>2. l \in Nat /\ m \in Nat BY <1>1
      <4> HIDE DEF s, n
      <4> QED BY <4>1, <4>2
    <3> QED BY <3>2, <3>3
  <2>8. rk(j) = rk(i) /\ j # i BY <2>4, <2>5, <2>6
  <2> QED BY <2>7, <2>8
<1>5. \A i \in 1 .. n : Odd(i) => Good(i)
  <2> DEFINE Wrong == {i \in 1 .. n : Odd(i) /\ ~Good(i)}
  <2> SUFFICES ASSUME Wrong # {} PROVE FALSE OBVIOUS
  <2>1. PICK i \in Wrong : \A j \in Wrong : i <= j
    <3>1. Wrong \subseteq Nat BY <1>1
    <3> HIDE DEF Wrong
    <3> QED BY <3>1, LowestExists
  <2>2. i \in 1 .. n /\ Odd(i) /\ i \in Nat /\ n \in Nat BY <1>1, <2>1
  <2> SUFFICES Good(i) BY <2>1
  <2>3. PICK j \in 1 .. n : j # i /\ rk(j) = rk(i) /\ \A k \in 1 .. n : rk(k) = rk(i) => k \in {i, j}
    BY <1>4, <2>2
  <2>4. \A k \in 1 .. n : k < i /\ Odd(k) => Good(k)
    <3> SUFFICES ASSUME NEW k \in 1 .. n, k < i, Odd(k), ~Good(k) PROVE FALSE OBVIOUS
    <3>1. k \in Wrong OBVIOUS
    <3>2. i <= k /\ k \in Nat BY <1>1, <2>1, <3>1
    <3> QED BY <2>2, <3>2
  <2> HIDE DEF Wrong, n, rk, Good
  <2>5. CASE i = 1
    <3>1. 2 \in 1 .. n /\ i <= 2 /\ 2 <= j BY <2>2, <2>3, <2>5
    <3>2. rk(2) = rk(1) BY <1>3, <2>2, <2>3, <2>5, <3>1
    <3> QED BY <2>2, <2>5, <3>1, <3>2 DEF Good
  <2>6. CASE i # 1
    <3>1. i - 2 \in 1 .. n /\ i - 2 < i /\ Odd(i - 2) /\ (i - 2) + 1 = i - 1
      BY <2>2, <2>6 DEF Odd
    <3>2. rk(i - 1) = rk(i - 2) BY <2>4, <3>1 DEF Good
    <3>3. i - 1 \in 1 .. n /\ i \in 2 .. n /\ i - 1 # i - 2 /\ i - 1 # i /\ i - 2 # i /\ i - 1 <= i
      BY <2>2, <2>6
    <3>4. rk(i) # rk(i - 1) BY <2>3, <3>1, <3>2, <3>3
    <3>5. rk(i - 1) <= rk(i) /\ rk(i) <= rk(i - 1) + 1 BY <1>1, <1>2, <2>2, <3>3
    <3>6. rk(i) \in Nat /\ rk(i - 1) \in Nat BY <1>1, <2>2, <3>3
    <3>7. rk(i) = rk(i - 1) + 1 BY <3>4, <3>5, <3>6
    <3>8. ~(j <= i - 1)
      <4> SUFFICES ASSUME j <= i - 1 PROVE FALSE OBVIOUS
      <4>1. rk(j) <= rk(i - 1) BY <1>1, <3>3
      <4> QED BY <2>3, <3>6, <3>7, <4>1
    <3>9. i <= i + 1 /\ i + 1 <= j /\ i + 1 \in 1 .. n BY <2>2, <2>3, <3>8
    <3>10. rk(i + 1) = rk(i) BY <1>3, <2>2, <2>3, <3>9
    <3> QED BY <2>2, <3>2, <3>7, <3>9, <3>10 DEF Good
  <2> QED BY <2>5, <2>6
<1>6. n % 2 = 0
  <2> SUFFICES ASSUME n % 2 # 0 PROVE FALSE OBVIOUS
  <2>1. n \in Nat /\ n \in 1 .. n BY <1>1
  <2>2. n % 2 = 1 BY <2>1
  <2>3. n + 1 <= n BY <1>5, <2>1, <2>2 DEF Odd
  <2> HIDE DEF n
  <2> QED BY <2>1, <2>3
<1> QED BY <1>5, <1>6 DEF PairsInARow

LEMMA DoubleSequenceShape ==
  ASSUME NEW S, S \subseteq Card, Cardinality(S) >= 6
  PROVE  IsDoubleSequence(SortCards(S)) <=>
           Two \notin Ranks(S) /\ EachRank(S, 2) /\ Consecutive(Ranks(S))
<1> DEFINE n == Cardinality(S)
           s == SortCards(S)
           rk(i) == RankOf(s[i])
<1>1. S # {} BY FS_EmptySet
<1>2. n \in Nat /\ Len(s) = n BY <1>1, ListFacts
<1>3. HasTwo(s) <=> Two \in Ranks(S) BY SortedRanks
<1>4. IsDoubleSequence(s) <=> ~HasTwo(s) /\ PairsInARow(S)
  <2>1. n % 2 = 0 => \A i \in 1 .. n : Odd(i) => i + 1 <= n
    <3> SUFFICES ASSUME NEW i \in 1 .. n, n % 2 = 0, i % 2 = 1 PROVE i + 1 <= n BY DEF Odd
    <3> HIDE DEF n
    <3> QED BY <1>2
  <2>2. \A i : i \in {k \in 1 .. Len(s) : k % 2 = 1} <=> i \in 1 .. n /\ Odd(i) BY <1>2 DEF Odd
  <2> QED BY <1>2, <2>1, <2>2 DEF IsDoubleSequence, PairsInARow
<1>5. PairsInARow(S) <=> EachRank(S, 2) /\ Consecutive(Ranks(S))
  BY <1>1, PairsAscend, PairsFromRanks
<1> QED BY <1>3, <1>4, <1>5

----------------------------------------------------------------------------
(* The kinds. *)

LEMMA KindsExclude ==
  ASSUME NEW S, S \subseteq Card, S # {}
  PROVE  /\ ~(EachRank(S, 1) /\ EachRank(S, 2))
         /\ OneRank(S) /\ EachRank(S, 1) => Cardinality(S) = 1
<1>1. Ranks(S) # {} BY DEF Ranks
<1>2. ~(EachRank(S, 1) /\ EachRank(S, 2))
  <2>1. PICK r : r \in Ranks(S) BY <1>1
  <2>2. \A k : EachRank(S, k) => Cardinality(OfRank(S, r)) = k BY <2>1 DEF EachRank, OfRank
  <2>3. EachRank(S, 1) /\ EachRank(S, 2) => 1 = 2 BY <2>2
  <2> QED BY <2>3
<1>3. ASSUME OneRank(S), EachRank(S, 1) PROVE Cardinality(S) = 1
  <2>0. IsFiniteSet(Rank) BY RankCountAssumption, FS_Interval DEF Rank
  <2>1. Ranks(S) \subseteq Rank /\ IsFiniteSet(Rank) BY <2>0, SortedRanks
  <2>2. PICK r : Ranks(S) = {r} BY <1>3, <2>1, FS_Subset, FS_Singleton DEF OneRank
  <2>3. \A c, d \in S : c = d BY <1>3, <2>2, EachRankOnce DEF Ranks
  <2>4. PICK c : c \in S OBVIOUS
  <2>5. S = {c} BY <2>3, <2>4
  <2> QED BY <2>5, FS_Singleton
<1> QED BY <1>2, <1>3

\* What the code finds, in terms of the ranks.
LEMMA Classification ==
  ASSUME NEW S, S \subseteq Card
  PROVE  LET n == Cardinality(S)
             kind == ClassifyCombination(S)
         IN  /\ kind \in Combo \cup {Invalid}
             /\ kind = "SINGLE" <=> n = 1
             /\ kind = "PAIR" <=> n = 2 /\ OneRank(S)
             /\ kind = "TRIPLE" <=> n = 3 /\ OneRank(S)
             /\ kind = "FOUR" <=> n = 4 /\ OneRank(S)
             /\ kind = "SEQUENCE" <=>
                  n >= 3 /\ Two \notin Ranks(S) /\ EachRank(S, 1) /\ Consecutive(Ranks(S))
             /\ kind = "DOUBLE_SEQUENCE" <=>
                  n >= 6 /\ Two \notin Ranks(S) /\ EachRank(S, 2) /\ Consecutive(Ranks(S))
<1> DEFINE n == Cardinality(S)
           s == SortCards(S)
           One == OneRank(S)
           Seq1 == Two \notin Ranks(S) /\ EachRank(S, 1) /\ Consecutive(Ranks(S))
           Seq2 == Two \notin Ranks(S) /\ EachRank(S, 2) /\ Consecutive(Ranks(S))
<1>1. n \in Nat /\ IsFiniteSet(S) BY Sorted
<1>2. n \in 2 .. 4 => (SameRank(s) <=> One) BY OneRankShape
<1>3. n >= 3 => (IsSequence(s) <=> Seq1) BY SequenceShape
<1>4. n >= 6 => (IsDoubleSequence(s) <=> Seq2) BY DoubleSequenceShape
<1>5. n >= 3 => ~(Seq1 /\ Seq2) /\ ~(Seq1 /\ One)
  <2>1. n >= 3 => S # {} BY FS_EmptySet
  <2> QED BY <1>1, <2>1, KindsExclude
<1>6. IsDoubleSequence(s) => n >= 6
  <2>1. Len(s) = n BY SortedRanks
  <2> QED BY <2>1 DEF IsDoubleSequence
<1>7. ClassifyCombination(S) =
        CASE n = 1                           -> "SINGLE"
          [] n = 2 /\ SameRank(s)            -> "PAIR"
          [] n = 3 /\ SameRank(s)            -> "TRIPLE"
          [] n = 4 /\ SameRank(s)            -> "FOUR"
          [] n >= 3 /\ IsSequence(s)         -> "SEQUENCE"
          [] n >= 4 /\ IsDoubleSequence(s)   -> "DOUBLE_SEQUENCE"
          [] OTHER                           -> Invalid
  BY DEF ClassifyCombination
<1> HIDE DEF n, s, One, Seq1, Seq2
<1>8. ClassifyCombination(S) =
        CASE n = 1            -> "SINGLE"
          [] n = 2 /\ One     -> "PAIR"
          [] n = 3 /\ One     -> "TRIPLE"
          [] n = 4 /\ One     -> "FOUR"
          [] n >= 3 /\ Seq1   -> "SEQUENCE"
          [] n >= 6 /\ Seq2   -> "DOUBLE_SEQUENCE"
          [] OTHER            -> Invalid
  BY <1>1, <1>2, <1>3, <1>4, <1>6, <1>7
<1> QED BY <1>1, <1>5, <1>8 DEF Combo, Invalid, n, One, Seq1, Seq2

LEMMA KindDocumented ==
  ASSUME NEW S, S \subseteq Card
  PROVE  LET kind == ClassifyCombination(S)
         IN  Documented(S) = IF kind = Invalid THEN {} ELSE {kind}
<1> DEFINE n == Cardinality(S)
           kind == ClassifyCombination(S)
           One == OneRank(S)
           Seq1 == Two \notin Ranks(S) /\ EachRank(S, 1) /\ Consecutive(Ranks(S))
           Seq2 == Two \notin Ranks(S) /\ EachRank(S, 2) /\ Consecutive(Ranks(S))
<1>1. /\ kind \in Combo \cup {Invalid}
      /\ kind = "SINGLE" <=> n = 1
      /\ kind = "PAIR" <=> n = 2 /\ One
      /\ kind = "TRIPLE" <=> n = 3 /\ One
      /\ kind = "FOUR" <=> n = 4 /\ One
      /\ kind = "SEQUENCE" <=> n >= 3 /\ Seq1
      /\ kind = "DOUBLE_SEQUENCE" <=> n >= 6 /\ Seq2
  BY Classification
<1>2. /\ "SINGLE" \in Documented(S) <=> n = 1
      /\ "PAIR" \in Documented(S) <=> n = 2 /\ One
      /\ "TRIPLE" \in Documented(S) <=> n = 3 /\ One
      /\ "FOUR" \in Documented(S) <=> n = 4 /\ One
      /\ "SEQUENCE" \in Documented(S) <=> n >= 3 /\ Seq1
      /\ "DOUBLE_SEQUENCE" \in Documented(S) <=> n >= 6 /\ Seq2
  BY DEF Documented, Combo
<1>3. Documented(S) \subseteq Combo BY DEF Documented
<1> HIDE DEF n, kind, One, Seq1, Seq2
<1>4. \A k \in Combo : k \in Documented(S) <=> kind = k
  BY <1>1, <1>2 DEF Combo
<1>5. Invalid \notin Combo BY DEF Invalid, Combo
<1>6. Documented(S) = IF kind = Invalid THEN {} ELSE {kind}
  BY <1>1, <1>3, <1>4, <1>5
<1> QED BY <1>6 DEF kind

LEMMA ValidIsNotEmpty ==
  ASSUME NEW S, S \subseteq Card, ClassifyCombination(S) # Invalid
  PROVE  S # {}
<1>1. ClassifyCombination(S) \in Combo BY Classification
<1>2. Cardinality(S) # 0 BY <1>1, Classification DEF Combo
<1> QED BY <1>2, FS_EmptySet

\* Comparing the highest cards is comparing ranks first and suits second.
LEMMA HighestIsHigher ==
  ASSUME NEW S, NEW T, S \subseteq Card, T \subseteq Card, S # {}, T # {}
  PROVE  Highest(S) > Highest(T) <=> Higher(S, T)
<1> DEFINE a == Highest(S)
           b == Highest(T)
<1>1. a \in S /\ b \in T /\ (\A c \in S : c <= a) /\ (\A d \in T : d <= b)
  BY HighestExists
<1>2. S \subseteq Nat /\ T \subseteq Nat BY CardsAreNumbers
<1>3. \A c, d \in Nat : c > d <=> RankOf(c) > RankOf(d) \/ (RankOf(c) = RankOf(d) /\ c % 4 > d % 4)
  BY DEF RankOf
<1>4. Higher(S, T) <=> \E c \in S : \A d \in T : c > d BY <1>2, <1>3 DEF Higher
<1> HIDE DEF a, b
<1>5. a > b => \A d \in T : a > d BY <1>1, <1>2
<1>6. \A c \in S : c > b => a > b BY <1>1, <1>2
<1> QED BY <1>1, <1>4, <1>5, <1>6 DEF a, b

----------------------------------------------------------------------------
(* The finders. *)

LEMMA SameRankedKind ==
  ASSUME NEW H, H \subseteq Card, NEW k \in 2 .. 4, NEW S \in SameRanked(H, k)
  PROVE  /\ S \subseteq H /\ S # {} /\ Cardinality(S) = k
         /\ ClassifyCombination(S) = IF k = 2 THEN "PAIR" ELSE IF k = 3 THEN "TRIPLE" ELSE "FOUR"
<1>1. S \subseteq H /\ S \subseteq Card /\ Cardinality(S) = k
      /\ \A c, d \in S : RankOf(c) = RankOf(d)
  BY DEF SameRanked
<1>2. S # {} BY <1>1, FS_EmptySet
<1>3. OneRank(S)
  <2>1. PICK c : c \in S BY <1>2
  <2>2. Ranks(S) = {RankOf(c)} BY <1>1, <2>1 DEF Ranks
  <2> QED BY <2>2, FS_Singleton DEF OneRank
<1> QED BY <1>1, <1>2, <1>3, Classification

\* What classifies as n of a kind is among the sets of n that are tried.
LEMMA KindSameRanked ==
  ASSUME NEW H, H \subseteq Card, NEW S, S \subseteq H
  PROVE  /\ ClassifyCombination(S) = "PAIR" => S \in FindPairs(H)
         /\ ClassifyCombination(S) = "TRIPLE" => S \in FindTriples(H)
         /\ ClassifyCombination(S) = "FOUR" => S \in FindFourOfAKinds(H)
<1>1. S \subseteq Card OBVIOUS
<1>2. OneRank(S) => \A c, d \in S : RankOf(c) = RankOf(d)
  <2> SUFFICES ASSUME OneRank(S) PROVE \A c, d \in S : RankOf(c) = RankOf(d) OBVIOUS
  <2>0. IsFiniteSet(Rank) BY RankCountAssumption, FS_Interval DEF Rank
  <2>1. Ranks(S) \subseteq Rank BY <1>1, SortedRanks
  <2>2. IsFiniteSet(Ranks(S)) BY <2>0, <2>1, FS_Subset
  <2>3. PICK r : Ranks(S) = {r} BY <2>2, FS_Singleton DEF OneRank
  <2> QED BY <2>3 DEF Ranks
<1>3. \A k : OneRank(S) /\ Cardinality(S) = k => S \in SameRanked(H, k) BY <1>2 DEF SameRanked
<1> QED BY <1>1, <1>3, Classification DEF FindPairs, FindTriples, FindFourOfAKinds

\* The n lowest of at least n cards are n.
LEMMA LowestSize ==
  ASSUME NEW G, G \subseteq Card, NEW k \in Nat, k <= Cardinality(G)
  PROVE  LowestOf(G, k) \subseteq G /\ Cardinality(LowestOf(G, k)) = k
<1> DEFINE n == Cardinality(G)
           s == SortCards(G)
           f == [i \in 1 .. k |-> s[i]]
           L == LowestOf(G, k)
<1>1. /\ n \in Nat /\ s \in [1 .. n -> G]
      /\ \A i, j \in 1 .. n : i < j <=> s[i] < s[j]
      /\ \A c \in G : \E i \in 1 .. n : s[i] = c
      /\ \A i \in 1 .. n : Cardinality({d \in G : d < s[i]}) = i - 1
  BY Sorted
<1>2. \A i \in 1 .. n : s[i] \in L <=> i <= k
  <2> SUFFICES ASSUME NEW i \in 1 .. n PROVE s[i] \in L <=> i - 1 < k BY <1>1
  <2> QED BY <1>1 DEF LowestOf
<1>3. L \subseteq G BY DEF LowestOf
<1> HIDE DEF n, s, L
<1>4. 1 .. k \subseteq 1 .. n BY <1>1 DEF n
<1>5. f \in [1 .. k -> L] BY <1>1, <1>2, <1>4
<1>6. \A i, j \in 1 .. k : f[i] = f[j] => i = j
  <2> SUFFICES ASSUME NEW i \in 1 .. k, NEW j \in 1 .. k, s[i] = s[j] PROVE i = j OBVIOUS
  <2>1. i \in 1 .. n /\ j \in 1 .. n BY <1>4
  <2>2. s[i] \in Nat BY <1>1, <2>1, CardsAreNumbers
  <2>3. ~(i < j) /\ ~(j < i) BY <1>1, <2>1, <2>2
  <2> QED BY <2>3
<1>7. \A c \in L : \E i \in 1 .. k : f[i] = c
  <2> SUFFICES ASSUME NEW c \in L PROVE \E i \in 1 .. k : s[i] = c OBVIOUS
  <2>1. PICK i \in 1 .. n : s[i] = c BY <1>1, <1>3
  <2>2. i <= k BY <1>2, <2>1
  <2> QED BY <1>1, <2>1, <2>2
<1>8. f \in Bijection(1 .. k, L)
  BY <1>5, <1>6, <1>7 DEF Bijection, Injection, Surjection, IsInjective
<1>9. ExistsBijection(1 .. k, L) BY <1>8 DEF ExistsBijection
<1> QED BY <1>3, <1>9, FS_CountingElements DEF L

\* The cards a finder takes for a run of ranks.
RunCards(H, R, k) == {c \in H : RankOf(c) \in R /\ c \in LowestOf(Group(H, RankOf(c)), k)}

\* They are k of each rank, and of no other.
LEMMA RunShape ==
  ASSUME NEW H, H \subseteq Card, NEW k \in Nat \ {0}, NEW len \in Nat \ {0},
         NEW R \in Runs(RanksWith(H, k), len)
  PROVE  LET T == RunCards(H, R, k)
         IN  /\ T \subseteq H /\ T # {} /\ Ranks(T) = R
             /\ EachRank(T, k) /\ Two \notin R /\ Consecutive(R)
             /\ IsFiniteSet(R) /\ Cardinality(R) \in Nat /\ Cardinality(R) >= len
             /\ R = Min(R) .. (Min(R) + Cardinality(R) - 1) /\ Min(R) \in Nat
<1> DEFINE T == RunCards(H, R, k)
<1>1. PICK a \in Rank \ {Two}, b \in Rank \ {Two} : R = a .. b BY DEF Runs
<1>2. R \subseteq RanksWith(H, k) /\ Cardinality(R) >= len BY DEF Runs
<1>3. a \in Nat /\ b \in Nat /\ a < Two /\ b < Two /\ Two \in Nat
  BY RankCountAssumption DEF Rank, Two
<1>4. IsFiniteSet(R) /\ Cardinality(R) = (IF a > b THEN 0 ELSE b - a + 1)
  BY <1>1, <1>3, FS_Interval
<1>5. a <= b /\ Cardinality(R) = b - a + 1
  <2>1. len >= 1 BY RankCountAssumption
  <2> QED BY <1>2, <1>3, <1>4, <2>1
<1>6. Min(R) = a /\ Max(R) = b
  <2>1. a \in R /\ b \in R /\ \A r \in R : a <= r /\ r <= b /\ r \in Nat BY <1>1, <1>3, <1>5
  <2>2. Min(R) = a BY <2>1 DEF Min
  <2>3. Max(R) = b BY <2>1 DEF Max
  <2> QED BY <2>2, <2>3
<1>7. Two \notin R BY <1>1, <1>3
<1>8. T \subseteq H BY DEF RunCards
<1>9. ASSUME NEW r \in R
      PROVE  OfRank(T, r) = LowestOf(Group(H, r), k) /\ Cardinality(OfRank(T, r)) = k
  <2>1. Group(H, r) \subseteq Card /\ Cardinality(Group(H, r)) >= k
    BY <1>2 DEF Group, RanksWith
  <2>2. /\ LowestOf(Group(H, r), k) \subseteq Group(H, r)
        /\ Cardinality(LowestOf(Group(H, r), k)) = k
    <3>1. Cardinality(Group(H, r)) \in Nat BY <2>1, Sorted
    <3> QED BY <2>1, <3>1, LowestSize
  <2>3. OfRank(T, r) = LowestOf(Group(H, r), k) BY <2>2 DEF OfRank, RunCards, Group
  <2> QED BY <2>2, <2>3
<1>10. \A r \in R : \E c \in T : RankOf(c) = r
  <2> SUFFICES ASSUME NEW r \in R PROVE OfRank(T, r) # {} BY DEF OfRank
  <2> QED BY <1>9, FS_EmptySet
<1>11. Ranks(T) = R BY <1>10 DEF Ranks, RunCards
<1>12. T # {} BY <1>5, <1>10, <1>1, <1>3
<1>13. EachRank(T, k) BY <1>9, <1>11 DEF EachRank, OfRank
<1>14. Cardinality(R) \in Nat /\ R = Min(R) .. (Min(R) + Cardinality(R) - 1) BY <1>1, <1>3, <1>5, <1>6
<1>15. Consecutive(R) BY <1>1, <1>6 DEF Consecutive
<1> QED BY <1>2, <1>3, <1>4, <1>6, <1>7, <1>8, <1>11, <1>12, <1>13, <1>14, <1>15

\* As many cards as ranks when each rank has one.
LEMMA OnceCounted ==
  ASSUME NEW T, T \subseteq Card, EachRank(T, 1)
  PROVE  Cardinality(T) = Cardinality(Ranks(T))
<1> DEFINE f == [c \in T |-> RankOf(c)]
<1>1. f \in [T -> Ranks(T)] BY DEF Ranks
<1>2. \A c, d \in T : f[c] = f[d] => c = d BY EachRankOnce
<1>3. \A r \in Ranks(T) : \E c \in T : f[c] = r BY DEF Ranks
<1>4. f \in Bijection(T, Ranks(T))
  BY <1>1, <1>2, <1>3 DEF Bijection, Injection, Surjection, IsInjective
<1>5. IsFiniteSet(T) BY Sorted
<1>6. ExistsBijection(T, Ranks(T)) BY <1>4 DEF ExistsBijection
<1> QED BY <1>5, <1>6, FS_Bijection

LEMMA FoundSequence ==
  ASSUME NEW H, H \subseteq Card, NEW len \in Nat, len >= 3, NEW T \in FindSequences(H, len)
  PROVE  T \subseteq H /\ T # {} /\ ClassifyCombination(T) = "SEQUENCE"
<1>1. PICK R \in Runs(RanksWith(H, 1), len) : T = RunCards(H, R, 1)
  BY DEF FindSequences, RunCards
<1>2. /\ T \subseteq H /\ T # {} /\ Ranks(T) = R
      /\ EachRank(T, 1) /\ Two \notin R /\ Consecutive(R)
      /\ Cardinality(R) \in Nat /\ Cardinality(R) >= len
  BY <1>1, RunShape
<1>3. T \subseteq Card BY <1>2
<1>4. Cardinality(T) >= 3 BY <1>2, <1>3, OnceCounted
<1> QED BY <1>2, <1>3, <1>4, Classification

LEMMA FoundDoubleSequence ==
  ASSUME NEW H, H \subseteq Card, NEW T \in FindDoubleSequences(H)
  PROVE  /\ T \subseteq H /\ T # {} /\ ClassifyCombination(T) = "DOUBLE_SEQUENCE"
         /\ Cardinality(T) \in Nat /\ Cardinality(T) >= 6
<1>1. PICK R \in Runs(RanksWith(H, 2), 3) : T = RunCards(H, R, 2)
  BY DEF FindDoubleSequences, RunCards
<1>2. /\ T \subseteq H /\ T # {} /\ Ranks(T) = R
      /\ EachRank(T, 2) /\ Two \notin R /\ Consecutive(R)
      /\ Cardinality(R) \in Nat /\ Cardinality(R) >= 3
  BY <1>1, RunShape
<1>3. T \subseteq Card BY <1>2
<1>4. Cardinality(T) = 2 * Cardinality(R) BY <1>2, <1>3, PairsFromRanks, PairsAscend
<1>5. Cardinality(T) >= 6 /\ Cardinality(T) \in Nat BY <1>2, <1>4
<1> QED BY <1>2, <1>3, <1>5, Classification

\* Where there is a double sequence, one as long is found.
LEMMA DoubleSequenceFound ==
  ASSUME NEW H, H \subseteq Card, NEW S, S \subseteq H,
         ClassifyCombination(S) = "DOUBLE_SEQUENCE"
  PROVE  \E T \in FindDoubleSequences(H) : Cardinality(T) = Cardinality(S)
<1> DEFINE R == Ranks(S)
           T == RunCards(H, R, 2)
<1>1. S \subseteq Card OBVIOUS
<1>2. S # {} BY <1>1, ValidIsNotEmpty DEF Invalid
<1>3. Cardinality(S) >= 6 /\ Two \notin R /\ EachRank(S, 2) /\ Consecutive(R)
  BY <1>1, Classification
<1>4. Cardinality(S) = 2 * Cardinality(R) BY <1>1, <1>2, <1>3, PairsFromRanks, PairsAscend
<1>5. R \subseteq Rank /\ IsFiniteSet(R) /\ Cardinality(R) \in Nat
  <2>1. IsFiniteSet(Rank) BY RankCountAssumption, FS_Interval DEF Rank
  <2> QED BY <1>1, <2>1, SortedRanks, FS_Subset, FS_CardinalityType
<1>6. Cardinality(R) >= 3 BY <1>3, <1>4, <1>5
<1>7. R \subseteq RanksWith(H, 2)
  <2> SUFFICES ASSUME NEW r \in R PROVE Cardinality(Group(H, r)) >= 2 BY <1>5 DEF RanksWith
  <2>1. Cardinality(OfRank(S, r)) = 2 BY <1>3 DEF EachRank, OfRank
  <2>2. OfRank(S, r) \subseteq Group(H, r) /\ Group(H, r) \subseteq Card
    BY DEF OfRank, Group
  <2>3. IsFiniteSet(Group(H, r)) /\ Cardinality(Group(H, r)) \in Nat BY <2>2, Sorted
  <2>4. Cardinality(OfRank(S, r)) <= Cardinality(Group(H, r)) BY <2>2, <2>3, FS_Subset
  <2> QED BY <2>1, <2>3, <2>4
<1>8. Min(R) \in R /\ Max(R) \in R
  <2>1. Cardinality(S) \in Nat /\ Cardinality(S) >= 1 BY <1>1, <1>2, ListFacts
  <2>2. 1 \in 1 .. Cardinality(S) /\ Cardinality(S) \in 1 .. Cardinality(S) BY <2>1
  <2> QED BY <1>1, <1>2, <2>2, EndRanks, ListFacts
<1>9. R \in Runs(RanksWith(H, 2), 3)
  <2>1. R = Min(R) .. Max(R) BY <1>3 DEF Consecutive
  <2>2. Min(R) \in Rank \ {Two} /\ Max(R) \in Rank \ {Two} BY <1>3, <1>5, <1>8
  <2> HIDE DEF R
  <2>3. \E a, b \in Rank \ {Two} : R = a .. b BY <2>1, <2>2
  <2> QED BY <1>6, <1>7, <2>3 DEF Runs
<1>10. T \in FindDoubleSequences(H) BY <1>9 DEF FindDoubleSequences, RunCards
<1>11. T \subseteq H /\ T # {} /\ Ranks(T) = R /\ EachRank(T, 2) /\ Consecutive(R)
  BY <1>9, RunShape
<1>12. T \subseteq Card BY <1>11
<1>13. Cardinality(T) = 2 * Cardinality(R) BY <1>11, <1>12, PairsFromRanks, PairsAscend
<1> QED BY <1>4, <1>10, <1>13

----------------------------------------------------------------------------
(* Answers. *)

\* A play the engine accepts: cards of the hand, of the kind it says.
Proper(H, p) ==
  /\ p.cards \subseteq H /\ p.cards # {}
  /\ p.combo \in Combo /\ ClassifyCombination(p.cards) = p.combo

\* A play that lies on a table.
Lies(t) ==
  /\ t.cards \subseteq Card /\ t.cards # {}
  /\ t.combo \in Combo /\ t.combo = ClassifyCombination(t.cards)

LEMMA TriesAreProper ==
  ASSUME NEW H, H \subseteq Card, NEW t, Lies(t), NEW T \in Tries(H, t)
  PROVE  T \subseteq H /\ T # {} /\ ClassifyCombination(T) = t.combo
<1>1. H \subseteq Card OBVIOUS
<1>2. t.combo \in Combo /\ t.combo = ClassifyCombination(t.cards)
      /\ t.cards \subseteq Card
  BY DEF Lies
<1>3. CASE t.combo = "SINGLE"
  <2>1. PICK c \in H : T = {c} BY <1>3 DEF Tries
  <2> QED BY <1>1, <1>3, <2>1, FS_Singleton, Classification
<1>4. CASE t.combo = "PAIR" BY <1>1, <1>4, SameRankedKind DEF Tries, FindPairs
<1>5. CASE t.combo = "TRIPLE" BY <1>1, <1>5, SameRankedKind DEF Tries, FindTriples
<1>6. CASE t.combo = "FOUR" BY <1>1, <1>6, SameRankedKind DEF Tries, FindFourOfAKinds
<1>7. CASE t.combo = "SEQUENCE"
  <2>1. Cardinality(t.cards) >= 3 BY <1>2, <1>7, Classification
  <2>2. Cardinality(t.cards) \in Nat BY <1>2, Sorted
  <2>3. T \in FindSequences(H, Cardinality(t.cards)) BY <1>7 DEF Tries
  <2> QED BY <1>1, <1>7, <2>1, <2>2, <2>3, FoundSequence
<1>8. CASE t.combo = "DOUBLE_SEQUENCE" BY <1>1, <1>8, FoundDoubleSequence DEF Tries
<1> QED BY <1>2, <1>3, <1>4, <1>5, <1>6, <1>7, <1>8 DEF Combo

LEMMA BeatingPlays ==
  ASSUME NEW H, H \subseteq Card, NEW t, Lies(t), NEW p \in FindBeatingPlays(H, t)
  PROVE  Proper(H, p) /\ CanBeat(t, p.cards, p.combo)
<1> DEFINE onTwo == \A c \in t.cards : RankOf(c) = Two
<1>1. H \subseteq Card /\ t.combo \in Combo BY DEF Lies
<1>2. CASE \E T \in Tries(H, t) : CanBeat(t, T, t.combo) /\ p = PlayOf(T, t.combo)
  <2>1. PICK T \in Tries(H, t) : CanBeat(t, T, t.combo) /\ p = PlayOf(T, t.combo)
    BY <1>2
  <2>2. p.cards = T /\ p.combo = t.combo BY <2>1 DEF PlayOf
  <2> QED BY <1>1, <2>1, <2>2, TriesAreProper DEF Proper
<1>3. CASE onTwo /\ t.combo = "SINGLE" /\ p \in FindChopPlays(H)
  <2>1. CASE \E S \in FindFourOfAKinds(H) : p = PlayOf(S, "FOUR")
    <3>1. PICK S \in FindFourOfAKinds(H) : p = PlayOf(S, "FOUR") BY <2>1
    <3>2. p.cards = S /\ p.combo = "FOUR" BY <3>1 DEF PlayOf
    <3>3. S \subseteq H /\ S # {} /\ ClassifyCombination(S) = "FOUR"
      BY <1>1, SameRankedKind DEF FindFourOfAKinds
    <3> QED BY <1>3, <3>2, <3>3 DEF Proper, Combo, CanBeat, Chops
  <2>2. CASE \E S \in FindDoubleSequences(H) : p = PlayOf(S, "DOUBLE_SEQUENCE")
    <3>1. PICK S \in FindDoubleSequences(H) : p = PlayOf(S, "DOUBLE_SEQUENCE") BY <2>2
    <3>2. p.cards = S /\ p.combo = "DOUBLE_SEQUENCE" BY <3>1 DEF PlayOf
    <3>3. S \subseteq H /\ S # {} /\ ClassifyCombination(S) = "DOUBLE_SEQUENCE" /\ Cardinality(S) >= 6
      BY <1>1, FoundDoubleSequence
    <3> QED BY <1>3, <3>2, <3>3 DEF Proper, Combo, CanBeat, Chops
  <2> QED BY <1>3, <2>1, <2>2 DEF FindChopPlays
<1>4. CASE onTwo /\ t.combo = "PAIR" /\ p \in ChopsOnPair(H, t)
  <2>1. PICK S \in FindDoubleSequences(H) : Cardinality(S) >= 8 /\ p = PlayOf(S, "DOUBLE_SEQUENCE")
    BY <1>4 DEF ChopsOnPair
  <2>2. p.cards = S /\ p.combo = "DOUBLE_SEQUENCE" BY <2>1 DEF PlayOf
  <2>3. S \subseteq H /\ S # {} /\ ClassifyCombination(S) = "DOUBLE_SEQUENCE"
    BY <1>1, FoundDoubleSequence
  <2> QED BY <1>4, <2>1, <2>2, <2>3 DEF Proper, Combo, CanBeat, Chops
<1> QED BY <1>2, <1>3, <1>4 DEF FindBeatingPlays

\* What answers a table is a pass or one of the plays that beat it.
LEMMA AnswersBeat ==
  ASSUME NEW H, NEW t, NEW diff \in Difficulty, NEW p \in ChooseBeat(H, t, diff)
  PROVE  p = PassTurn \/ p \in FindBeatingPlays(H, t)
<1> DEFINE candidates == FindBeatingPlays(H, t)
<1>1. CASE candidates = {} BY <1>1 DEF ChooseBeat
<1>2. CASE candidates # {} /\ diff = "EASY" BY <1>2 DEF ChooseBeat
<1>3. CASE candidates # {} /\ diff = "MEDIUM" BY <1>3 DEF ChooseBeat, Weakest
<1>4. CASE candidates # {} /\ diff = "HARD"
  <2> HIDE DEF candidates
  <2>1. p \in PickSmartBeat(H, candidates) BY <1>4 DEF ChooseBeat, candidates
  <2>2. \A P : Weakest(P) \subseteq P /\ Strongest(P) \subseteq P BY DEF Weakest, Strongest
  <2>3. p = PassTurn \/ p \in candidates BY <2>1, <2>2 DEF PickSmartBeat
  <2> QED BY <2>3 DEF candidates
<1> QED BY <1>1, <1>2, <1>3, <1>4 DEF Difficulty

----------------------------------------------------------------------------
(* Taking plays apart, greedily. *)

\* Whatever the order of preference, some of the sets of a finite collection can
\* be taken so that they are apart and every other meets a preferred one.  (Of
\* the initial parts of the collection for which this can be done one is
\* longest, and if it is not all of it the next set makes it longer.)
LEMMA GreedyChoice ==
  ASSUME NEW F, IsFiniteSet(F), NEW m \in [F -> Nat]
  PROVE  \E T \in SUBSET F :
           Apart(T) /\ \A s \in F \ T : \E t \in T : m[t] <= m[s] /\ s \cap t # {}
<1> DEFINE Chosen(D, T) ==
             Apart(T) /\ \A s \in D \ T : \E t \in T : m[t] <= m[s] /\ s \cap t # {}
           Part(D) == /\ \A x \in D, y \in F \ D : m[x] <= m[y]
                      /\ \E T \in SUBSET D : Chosen(D, T)
           Rests == {F \ D : D \in {E \in SUBSET F : Part(E)}}
<1>1. Part({})
  <2>1. Chosen({}, {}) BY DEF Apart
  <2> QED BY <2>1
<1>2. PICK D \in SUBSET F : Part(D) /\ \A E \in SUBSET F : Part(E) => ~(F \ E \subseteq F \ D /\ F \ E # F \ D)
  <2>1. F \ {} \in Rests BY <1>1
  <2>2. Rests \subseteq FiniteSubsetsOf(F)
    <3>1. \A E \in SUBSET F : F \ E \in SUBSET F /\ IsFiniteSet(F \ E) BY FS_Difference
    <3> QED BY <3>1 DEF FiniteSubsetsOf
  <2>3. PICK rest \in Rests : \A r \in Rests : <<r, rest>> \notin StrictSubsetOrdering(F)
    <3>1. Rests # {} BY <2>1
    <3> HIDE DEF Rests
    <3> QED BY <2>2, <3>1, FS_StrictSubsetOrderingWellFounded, WFMin
  <2>4. PICK D \in SUBSET F : Part(D) /\ rest = F \ D BY <2>3
  <2>5. ASSUME NEW E \in SUBSET F, Part(E), F \ E \subseteq F \ D, F \ E # F \ D PROVE FALSE
    <3>1. F \ E \in Rests BY <2>5
    <3>2. <<F \ E, F \ D>> \in StrictSubsetOrdering(F) BY <2>5 DEF StrictSubsetOrdering
    <3> QED BY <2>3, <2>4, <3>1, <3>2
  <2> HIDE DEF Part
  <2> QED BY <2>4, <2>5
<1>3. PICK T \in SUBSET D : Chosen(D, T) BY <1>2
<1>4. CASE D = F BY <1>3, <1>4
<1>5. CASE D # F
  <2> DEFINE M == {m[y] : y \in F \ D}
  <2>1. PICK y \in F \ D : \A z \in F \ D : m[y] <= m[z]
    <3>1. M \subseteq Nat /\ M # {} BY <1>5
    <3>2. PICK k \in M : \A l \in M : k <= l
      <4> HIDE DEF M
      <4> QED BY <3>1, LowestExists
    <3> QED BY <3>2
  <2> DEFINE E == D \cup {y}
  <2>2. E \in SUBSET F /\ F \ E \subseteq F \ D /\ F \ E # F \ D BY <2>1
  <2>3. \A x \in E, z \in F \ E : m[x] <= m[z]
    <3>1. \A x \in D, z \in F \ D : m[x] <= m[z] BY <1>2
    <3> QED BY <2>1, <3>1
  <2>4. \A t \in T : m[t] <= m[y] BY <1>2, <2>1
  <2>5. \E U \in SUBSET E : Chosen(E, U)
    <3>1. CASE \E t \in T : y \cap t # {}
      <4>1. Chosen(E, T) BY <1>3, <2>4, <3>1
      <4> QED BY <4>1
    <3>2. CASE \A t \in T : y \cap t = {}
      <4> DEFINE U == T \cup {y}
      <4>1. Apart(U) BY <1>3, <3>2 DEF Apart
      <4>2. Chosen(E, U) BY <1>3, <4>1
      <4> QED BY <4>2
    <3> QED BY <3>1, <3>2
  <2>6. Part(E) BY <2>3, <2>5
  <2> HIDE DEF Part, E
  <2> QED BY <1>2, <2>2, <2>6
<1> QED BY <1>4, <1>5

LEMMA FinitelyMany ==
  ASSUME NEW H, H \subseteq Card
  PROVE  /\ IsFiniteSet(FindDoubleSequences(H))
         /\ IsFiniteSet(FindSequences(H, 3))
<1>1. IsFiniteSet(SUBSET H) BY Sorted, FS_SUBSET
<1>2. FindDoubleSequences(H) \subseteq SUBSET H BY FoundDoubleSequence
<1>3. FindSequences(H, 3) \subseteq SUBSET H BY FoundSequence
<1> QED BY <1>1, <1>2, <1>3, FS_Subset

\* The longest sequences can be taken first.
LEMMA SequencesTaken ==
  ASSUME NEW H, H \subseteq Card
  PROVE  TakenSequences(H) # {}
<1> DEFINE F == FindSequences(H, 3)
           top == Cardinality(H)
           m == [s \in F |-> top - Cardinality(s)]
<1>1. \A s \in F : Cardinality(s) \in Nat /\ Cardinality(s) <= top /\ top \in Nat
  <2> SUFFICES ASSUME NEW s \in F PROVE Cardinality(s) \in Nat /\ Cardinality(s) <= top /\ top \in Nat
    OBVIOUS
  <2>1. s \subseteq H BY FoundSequence
  <2>2. IsFiniteSet(H) /\ top \in Nat BY Sorted
  <2> QED BY <2>1, <2>2, FS_Subset, FS_CardinalityType
<1>2. IsFiniteSet(F) BY FinitelyMany
<1> HIDE DEF F, top
<1>3. m \in [F -> Nat] BY <1>1
<1>4. PICK T \in SUBSET F :
        Apart(T) /\ \A s \in F \ T : \E t \in T : m[t] <= m[s] /\ s \cap t # {}
  <2> HIDE DEF m
  <2> QED BY <1>2, <1>3, GreedyChoice
<1>5. \A s, t \in F : m[t] <= m[s] => Cardinality(t) >= Cardinality(s) BY <1>1
<1>6. \A s \in F \ T : \E t \in T : Cardinality(t) >= Cardinality(s) /\ s \cap t # {}
  BY <1>4, <1>5
<1> QED BY <1>4, <1>6 DEF TakenSequences, F

First(S) == CHOOSE c \in S : \A d \in S : c <= d

LEMMA FirstIsLowest ==
  ASSUME NEW S, S \subseteq Card, S # {}
  PROVE  /\ First(S) \in S /\ First(S) \in Nat /\ \A d \in S : First(S) <= d
         /\ LowestOf(S, 1) = {First(S)}
<1>1. S \subseteq Nat /\ IsFiniteSet(S) BY CardsAreNumbers, Sorted
<1>2. PICK l : l = First(S) OBVIOUS
<1>3. l \in S /\ \A d \in S : l <= d BY <1>1, <1>2, LowestExists DEF First
<1>4. ASSUME NEW c \in S PROVE Cardinality({d \in S : d < c}) < 1 <=> c = l
  <2> DEFINE B == {d \in S : d < c}
  <2>1. IsFiniteSet(B) /\ Cardinality(B) \in Nat BY <1>1, FS_Subset, FS_CardinalityType
  <2>2. Cardinality(B) = 0 <=> B = {} BY <2>1, FS_EmptySet
  <2>3. c # l => l \in B BY <1>1, <1>3
  <2>0. \A d \in S : d \in Nat /\ l \in Nat /\ l <= d BY <1>1, <1>3
  <2>7. \A d \in S : ~(d < l) BY <2>0
  <2>4. c = l => B = {} BY <2>7
  <2> HIDE DEF B
  <2>5. Cardinality(B) < 1 <=> B = {} BY <2>1, <2>2
  <2>6. Cardinality(B) < 1 <=> c = l BY <2>3, <2>4, <2>5
  <2> QED BY <2>6 DEF B
<1>5. LowestOf(S, 1) = {l} BY <1>3, <1>4 DEF LowestOf
<1> QED BY <1>1, <1>2, <1>3, <1>5

\* Before orders the double sequences of a hand by first card and length, and
\* no two of them agree in both.
LEMMA BeforeOrders ==
  ASSUME NEW H, H \subseteq Card,
         NEW S \in FindDoubleSequences(H), NEW T \in FindDoubleSequences(H)
  PROVE  /\ First(S) \in Nat /\ Cardinality(S) \in Nat
         /\ Before(S, T) <=> First(S) < First(T) \/ (First(S) = First(T) /\ Cardinality(S) < Cardinality(T))
         /\ First(S) = First(T) /\ Cardinality(S) = Cardinality(T) => S = T
<1>1. S \subseteq Card /\ S # {} /\ T \subseteq Card /\ T # {} BY FoundDoubleSequence
<1>2. First(S) \in Nat /\ First(T) \in Nat /\ Cardinality(S) \in Nat
  BY <1>1, FirstIsLowest, FoundDoubleSequence
<1>3. Before(S, T) <=> First(S) < First(T) \/ (First(S) = First(T) /\ Cardinality(S) < Cardinality(T))
  <2>1. LowestOf(S, 1) = {First(S)} /\ LowestOf(T, 1) = {First(T)} BY <1>1, FirstIsLowest
  <2>2. Before(S, T) <=> IF LowestOf(S, 1) = LowestOf(T, 1)
                         THEN Cardinality(S) < Cardinality(T)
                         ELSE \E c \in LowestOf(S, 1), d \in LowestOf(T, 1) : c < d
    BY DEF Before
  <2>3. \A c, d : {c} = {d} <=> c = d OBVIOUS
  <2>4. CASE First(S) = First(T)
    <3>1. LowestOf(S, 1) = LowestOf(T, 1) BY <2>1, <2>4
    <3>2. ~(First(S) < First(T)) BY <1>2, <2>4
    <3> QED BY <2>2, <2>4, <3>1, <3>2
  <2>5. CASE First(S) # First(T)
    <3>1. LowestOf(S, 1) # LowestOf(T, 1) BY <2>1, <2>3, <2>5
    <3>2. (\E c \in LowestOf(S, 1), d \in LowestOf(T, 1) : c < d) <=> First(S) < First(T)
      BY <2>1
    <3> QED BY <2>2, <2>5, <3>1, <3>2
  <2> QED BY <2>4, <2>5
<1>4. ASSUME NEW U \in FindDoubleSequences(H)
      PROVE  \E R : /\ U = RunCards(H, R, 2)
                    /\ R = RankOf(First(U)) .. (RankOf(First(U)) + (Cardinality(U) \div 2) - 1)
  <2>1. PICK R \in Runs(RanksWith(H, 2), 3) : U = RunCards(H, R, 2)
    BY DEF FindDoubleSequences, RunCards
  <2>2. /\ U \subseteq H /\ U # {} /\ Ranks(U) = R /\ EachRank(U, 2) /\ Consecutive(R)
        /\ Cardinality(R) \in Nat
        /\ R = Min(R) .. (Min(R) + Cardinality(R) - 1) /\ Min(R) \in Nat
    BY <2>1, RunShape
  <2>3. U \subseteq Card BY <2>2
  <2>4. Cardinality(U) = 2 * Cardinality(R) BY <2>2, <2>3, PairsFromRanks, PairsAscend
  <2>5. Cardinality(R) = Cardinality(U) \div 2 BY <2>2, <2>4
  <2>6. Min(R) = RankOf(First(U))
    <3>1. First(U) \in U /\ \A d \in U : First(U) <= d BY <2>2, <2>3, FirstIsLowest
    <3>2. U \subseteq Nat BY <2>3, CardsAreNumbers
    <3>3. RankOf(First(U)) \in R BY <2>2, <3>1 DEF Ranks
    <3>4. \A d \in U : RankOf(First(U)) <= RankOf(d) BY <3>1, <3>2, CardsAreNumbers
    <3>5. \A r \in R : RankOf(First(U)) <= r BY <2>2, <3>4 DEF Ranks
    <3>6. \A r \in R : r \in Nat /\ Min(R) <= r BY <2>2
    <3>7. Min(R) \in R
      <4>1. \E r \in R : TRUE BY <3>3
      <4> QED BY <2>2, <4>1
    <3>8. Min(R) <= RankOf(First(U)) /\ RankOf(First(U)) <= Min(R) /\ RankOf(First(U)) \in Nat
      BY <3>3, <3>5, <3>6, <3>7
    <3> QED BY <2>2, <3>8
  <2> QED BY <2>1, <2>2, <2>5, <2>6
<1>5. First(S) = First(T) /\ Cardinality(S) = Cardinality(T) => S = T BY <1>4
<1> QED BY <1>2, <1>3, <1>5

\* The double sequences that are free can be taken as they are found.
LEMMA DoubleSequencesTaken ==
  ASSUME NEW H, H \subseteq Card, NEW used
  PROVE  /\ TakenDoubleSequences(H, used) \subseteq FindDoubleSequences(H)
         /\ \A s \in TakenDoubleSequences(H, used) : s \cap used = {}
         /\ Apart(TakenDoubleSequences(H, used))
<1> DEFINE F == {s \in FindDoubleSequences(H) : s \cap used = {}}
           Lower(s) == {t \in F : Before(t, s)}
           m == [s \in F |-> Cardinality(Lower(s))]
           Right(T) == Apart(T) /\ \A s \in F \ T : \E t \in T : Before(t, s) /\ s \cap t # {}
<1>1. IsFiniteSet(F) BY FinitelyMany, FS_Subset
<1>2. \A s \in F : IsFiniteSet(Lower(s)) /\ Cardinality(Lower(s)) \in Nat
  BY <1>1, FS_Subset, FS_CardinalityType
<1>3. m \in [F -> Nat] BY <1>2
<1>4. \A s \in F : ~Before(s, s)
  BY BeforeOrders
<1>5. \A s, t \in F : s = t \/ Before(s, t) \/ Before(t, s)
  <2> SUFFICES ASSUME NEW s \in F, NEW t \in F PROVE s = t \/ Before(s, t) \/ Before(t, s) OBVIOUS
  <2>1. First(s) \in Nat /\ First(t) \in Nat /\ Cardinality(s) \in Nat /\ Cardinality(t) \in Nat
    BY BeforeOrders
  <2>2. /\ Before(s, t) <=> First(s) < First(t) \/ (First(s) = First(t) /\ Cardinality(s) < Cardinality(t))
        /\ Before(t, s) <=> First(t) < First(s) \/ (First(t) = First(s) /\ Cardinality(t) < Cardinality(s))
        /\ First(s) = First(t) /\ Cardinality(s) = Cardinality(t) => s = t
    BY BeforeOrders
  <2> QED BY <2>1, <2>2
<1>6. \A s, t, u \in F : Before(s, t) /\ Before(t, u) => Before(s, u)
  <2> SUFFICES ASSUME NEW s \in F, NEW t \in F, NEW u \in F, Before(s, t), Before(t, u)
               PROVE  Before(s, u)
    OBVIOUS
  <2>1. /\ First(s) \in Nat /\ First(t) \in Nat /\ First(u) \in Nat
        /\ Cardinality(s) \in Nat /\ Cardinality(t) \in Nat /\ Cardinality(u) \in Nat
    BY BeforeOrders
  <2>2. /\ First(s) < First(t) \/ (First(s) = First(t) /\ Cardinality(s) < Cardinality(t))
        /\ First(t) < First(u) \/ (First(t) = First(u) /\ Cardinality(t) < Cardinality(u))
        /\ Before(s, u) <=> First(s) < First(u) \/ (First(s) = First(u) /\ Cardinality(s) < Cardinality(u))
    BY BeforeOrders
  <2> QED BY <2>1, <2>2
<1>7. ASSUME NEW s \in F, NEW t \in F, Before(s, t)
      PROVE  m[s] < m[t]
  <2>1. Lower(s) \subseteq Lower(t) /\ s \in Lower(t) /\ s \notin Lower(s) BY <1>4, <1>6, <1>7
  <2>2. Cardinality(Lower(s)) <= Cardinality(Lower(t)) /\ Cardinality(Lower(s)) # Cardinality(Lower(t))
    BY <1>2, <2>1, FS_Subset
  <2>3. Cardinality(Lower(s)) \in Nat /\ Cardinality(Lower(t)) \in Nat BY <1>2
  <2> QED BY <2>2, <2>3
<1> HIDE DEF Lower
<1>8. \A s, t \in F : s # t /\ m[t] <= m[s] => Before(t, s)
  <2> SUFFICES ASSUME NEW s \in F, NEW t \in F, Before(s, t), m[t] <= m[s] PROVE FALSE BY <1>5
  <2>1. m[s] < m[t] BY <1>7
  <2> HIDE DEF m, F
  <2>2. m[s] \in Nat /\ m[t] \in Nat BY <1>3
  <2> QED BY <2>1, <2>2
<1>9. \E T \in SUBSET F : Right(T)
  <2>1. PICK T \in SUBSET F :
          Apart(T) /\ \A s \in F \ T : \E t \in T : m[t] <= m[s] /\ s \cap t # {}
    <3> HIDE DEF m, F
    <3> QED BY <1>1, <1>3, GreedyChoice
  <2>2. \A s \in F \ T : \E t \in T : Before(t, s) /\ s \cap t # {}
    <3> HIDE DEF m, F
    <3> QED BY <1>8, <2>1
  <2> QED BY <2>1, <2>2
<1>10. TakenDoubleSequences(H, used) = CHOOSE T \in SUBSET F : Right(T) BY DEF TakenDoubleSequences
<1>11. TakenDoubleSequences(H, used) \in SUBSET F /\ Apart(TakenDoubleSequences(H, used))
  <2> HIDE DEF F
  <2> QED BY <1>9, <1>10
<1> QED BY <1>11

\* What is left of one rank is a single, a pair, a triple or a four.
LEMMA LeftoverGroup ==
  ASSUME NEW rest, rest \subseteq Card, NEW r \in RanksWith(rest, 1)
  PROVE  LET G == Group(rest, r)
         IN  /\ G \subseteq rest /\ G # {}
             /\ ClassifyCombination(G) = SizeCombo[Cardinality(G)]
             /\ ClassifyCombination(G) \in Combo
<1> DEFINE G == Group(rest, r)
<1>1. G \subseteq rest /\ G \subseteq Card /\ \A c \in G : RankOf(c) = r BY DEF Group
<1>2. r \in Rank /\ Cardinality(G) >= 1 BY DEF RanksWith
<1>3. IsFiniteSet(G) /\ Cardinality(G) \in Nat BY <1>1, Sorted
<1>4. G # {} BY <1>2, FS_EmptySet
<1>5. Cardinality(G) <= 4
  <2>1. r \in Nat BY <1>2, RankCountAssumption DEF Rank
  <2>2. IsFiniteSet(4 * r .. 4 * r + 3) /\ Cardinality(4 * r .. 4 * r + 3) = 4
    <3>1. 4 * r \in Int /\ 4 * r + 3 \in Int /\ ~(4 * r > 4 * r + 3) /\ 4 * r + 3 - 4 * r + 1 = 4 BY <2>1
    <3> QED BY <3>1, FS_Interval
  <2>3. \A c \in G : c \in 4 * r .. 4 * r + 3
    <3> SUFFICES ASSUME NEW c \in Nat, c \div 4 = r PROVE c \in 4 * r .. 4 * r + 3
      BY <1>1, CardsAreNumbers DEF RankOf
    <3> QED BY <2>1
  <2>4. Cardinality(G) <= Cardinality(4 * r .. 4 * r + 3)
    <3>1. G \subseteq 4 * r .. 4 * r + 3 BY <2>3
    <3> QED BY <2>2, <3>1, FS_Subset
  <2> QED BY <2>2, <2>4
<1>6. OneRank(G)
  <2>1. PICK c : c \in G BY <1>4
  <2>2. Ranks(G) = {r} BY <1>1, <2>1 DEF Ranks
  <2> QED BY <2>2, FS_Singleton DEF OneRank
<1> DEFINE n == Cardinality(G)
<1>7. n = 1 \/ n = 2 \/ n = 3 \/ n = 4
  <2> HIDE DEF G
  <2> QED BY <1>2, <1>3, <1>5
<1>8. SizeCombo[1] = "SINGLE" /\ SizeCombo[2] = "PAIR" /\ SizeCombo[3] = "TRIPLE" /\ SizeCombo[4] = "FOUR"
  BY DEF SizeCombo
<1>9. /\ n = 1 => ClassifyCombination(G) = "SINGLE"
      /\ n = 2 => ClassifyCombination(G) = "PAIR"
      /\ n = 3 => ClassifyCombination(G) = "TRIPLE"
      /\ n = 4 => ClassifyCombination(G) = "FOUR"
  BY <1>1, <1>6, Classification
<1> HIDE DEF G
<1>10. ClassifyCombination(G) = SizeCombo[n] /\ ClassifyCombination(G) \in Combo
  BY <1>7, <1>8, <1>9 DEF Combo
<1> QED BY <1>1, <1>4, <1>10 DEF G

\* decomposeHand deals the hand out into plays the engine accepts.
LEMMA Decomposition ==
  ASSUME NEW H, H \subseteq Card, NEW D \in DecomposeHand(H)
  PROVE  /\ \A p \in D : Proper(H, p)
         /\ UNION {p.cards : p \in D} = H
         /\ \A p, q \in D : p # q => p.cards \cap q.cards = {}
<1>1. PICK seqs \in TakenSequences(H) :
        LET used == UNION seqs
            dseqs == TakenDoubleSequences(H, used)
            rest == H \ (used \cup UNION dseqs)
        IN  D = {PlayOf(s, ClassifyCombination(s)) : s \in seqs \cup dseqs}
                  \cup {PlayOf(Group(rest, r), SizeCombo[Cardinality(Group(rest, r))]) :
                          r \in RanksWith(rest, 1)}
  BY DEF DecomposeHand
<1> DEFINE used == UNION seqs
           dseqs == TakenDoubleSequences(H, used)
           runs == seqs \cup dseqs
           rest == H \ (used \cup UNION dseqs)
           ofRun(s) == PlayOf(s, ClassifyCombination(s))
           ofRank(r) == PlayOf(Group(rest, r), SizeCombo[Cardinality(Group(rest, r))])
<1>2. D = {ofRun(s) : s \in runs} \cup {ofRank(r) : r \in RanksWith(rest, 1)} BY <1>1
<1>3. seqs \subseteq FindSequences(H, 3) /\ Apart(seqs) BY DEF TakenSequences
<1>4. dseqs \subseteq FindDoubleSequences(H) /\ Apart(dseqs) /\ \A s \in dseqs : s \cap used = {}
  BY DoubleSequencesTaken
<1>5. ASSUME NEW s \in runs
      PROVE  s \subseteq H /\ s # {} /\ ClassifyCombination(s) \in Combo
  <2>1. CASE s \in seqs BY <1>3, <2>1, FoundSequence DEF Combo
  <2>2. CASE s \in dseqs BY <1>4, <2>2, FoundDoubleSequence DEF Combo
  <2> QED BY <2>1, <2>2
<1>6. ASSUME NEW s \in runs, NEW t \in runs, s # t PROVE s \cap t = {}
  <2>1. CASE s \in seqs /\ t \in seqs BY <1>3, <1>6, <2>1 DEF Apart
  <2>2. CASE s \in dseqs /\ t \in dseqs BY <1>4, <1>6, <2>2 DEF Apart
  <2>3. CASE s \in seqs /\ t \in dseqs BY <1>4, <2>3
  <2>4. CASE s \in dseqs /\ t \in seqs BY <1>4, <2>4
  <2> QED BY <2>1, <2>2, <2>3, <2>4
<1>7. UNION runs \subseteq H BY <1>5
<1>8. rest = H \ UNION runs /\ rest \subseteq Card OBVIOUS
<1> HIDE DEF runs, rest, dseqs, used
<1>9. \A s \in runs : ofRun(s).cards = s /\ ofRun(s).combo = ClassifyCombination(s)
  BY DEF PlayOf
<1>10. \A r \in RanksWith(rest, 1) :
         ofRank(r).cards = Group(rest, r) /\ ofRank(r).combo = SizeCombo[Cardinality(Group(rest, r))]
  BY DEF PlayOf
<1>11. \A r \in RanksWith(rest, 1) :
         /\ Group(rest, r) \subseteq rest /\ Group(rest, r) # {}
         /\ ClassifyCombination(Group(rest, r)) = SizeCombo[Cardinality(Group(rest, r))]
         /\ ClassifyCombination(Group(rest, r)) \in Combo
  BY <1>8, LeftoverGroup
<1> HIDE DEF ofRun, ofRank
<1>12. ASSUME NEW p \in D PROVE Proper(H, p)
  <2>1. CASE \E s \in runs : p = ofRun(s)
    <3>1. PICK s \in runs : p = ofRun(s) BY <2>1
    <3> QED BY <1>5, <1>9, <3>1 DEF Proper
  <2>2. CASE \E r \in RanksWith(rest, 1) : p = ofRank(r)
    <3>1. PICK r \in RanksWith(rest, 1) : p = ofRank(r) BY <2>2
    <3>2. Group(rest, r) \subseteq H BY <1>8, <1>11
    <3> QED BY <1>10, <1>11, <3>1, <3>2 DEF Proper
  <2> QED BY <1>2, <2>1, <2>2
<1>13. \A c \in rest : RankOf(c) \in RanksWith(rest, 1) /\ c \in Group(rest, RankOf(c))
  <2> SUFFICES ASSUME NEW c \in rest
               PROVE  RankOf(c) \in RanksWith(rest, 1) /\ c \in Group(rest, RankOf(c))
    OBVIOUS
  <2>1. c \in Group(rest, RankOf(c)) /\ Group(rest, RankOf(c)) \subseteq Card BY <1>8 DEF Group
  <2>2. Cardinality(Group(rest, RankOf(c))) >= 1 BY <2>1, ListFacts
  <2>3. RankOf(c) \in Rank BY <1>8, CardsAreNumbers
  <2> QED BY <2>1, <2>2, <2>3 DEF RanksWith
<1>14. UNION {p.cards : p \in D} = H
  <2>1. ASSUME NEW c \in H PROVE \E p \in D : c \in p.cards
    <3>1. CASE c \in UNION runs BY <1>2, <1>9, <3>1
    <3>2. CASE c \notin UNION runs
      <4>1. c \in rest BY <1>8, <3>2
      <4>2. ofRank(RankOf(c)) \in D /\ c \in ofRank(RankOf(c)).cards BY <1>2, <1>10, <1>13, <4>1
      <4> QED BY <4>2
    <3> QED BY <3>1, <3>2
  <2>2. \A p \in D : p.cards \subseteq H BY <1>12 DEF Proper
  <2> QED BY <2>1, <2>2
<1>15. ASSUME NEW p \in D, NEW q \in D, p # q PROVE p.cards \cap q.cards = {}
  <2>1. CASE \E s \in runs, t \in runs : p = ofRun(s) /\ q = ofRun(t)
    BY <1>6, <1>9, <1>15, <2>1
  <2>0. \A s \in runs, r \in RanksWith(rest, 1) : ofRun(s).cards \cap ofRank(r).cards = {}
    <3> SUFFICES ASSUME NEW s \in runs, NEW r \in RanksWith(rest, 1) PROVE s \cap Group(rest, r) = {}
      BY <1>9, <1>10
    <3>1. Group(rest, r) \subseteq rest BY <1>11
    <3> QED BY <1>8, <3>1
  <2>2. CASE \/ \E s \in runs, r \in RanksWith(rest, 1) : p = ofRun(s) /\ q = ofRank(r)
             \/ \E s \in runs, r \in RanksWith(rest, 1) : q = ofRun(s) /\ p = ofRank(r)
    <3> HIDE DEF ofRun, ofRank
    <3> QED BY <2>0, <2>2
  <2>3. CASE \E r, q2 \in RanksWith(rest, 1) : p = ofRank(r) /\ q = ofRank(q2)
    <3>1. PICK r \in RanksWith(rest, 1), u \in RanksWith(rest, 1) : p = ofRank(r) /\ q = ofRank(u)
      BY <2>3
    <3>2. r # u BY <1>15, <3>1
    <3>3. Group(rest, r) \cap Group(rest, u) = {} BY <3>2 DEF Group
    <3> QED BY <1>10, <3>1, <3>3
  <2> QED BY <1>2, <2>1, <2>2, <2>3
<1> QED BY <1>12, <1>14, <1>15

LEMMA WeakestExists ==
  ASSUME NEW H, H \subseteq Card, NEW P, P # {}, \A p \in P : Proper(H, p)
  PROVE  Weakest(P) # {}
<1> DEFINE M == {Strength(p) : p \in P}
<1>1. \A p \in P : Strength(p) \in Nat
  <2> SUFFICES ASSUME NEW p \in P PROVE Highest(p.cards) \in Nat BY DEF Strength
  <2>1. p.cards \subseteq Card /\ p.cards # {} BY DEF Proper
  <2> QED BY <2>1, HighestExists, CardsAreNumbers
<1>2. PICK k \in M : \A l \in M : k <= l
  <2>1. M \subseteq Nat /\ M # {} BY <1>1
  <2> HIDE DEF M
  <2> QED BY <2>1, LowestExists
<1>3. PICK p \in P : \A q \in P : Strength(p) <= Strength(q) BY <1>2
<1> QED BY <1>3 DEF Weakest

\* An empty table is always answered with a play of the hand.
LEMMA Openings ==
  ASSUME NEW H, H \subseteq Card, H # {}, NEW diff \in Difficulty
  PROVE  /\ ChooseOpening(H, diff) # {}
         /\ \A p \in ChooseOpening(H, diff) : Proper(H, p)
<1> DEFINE choices(combos) ==
             CASE diff = "EASY"   -> combos
               [] diff = "MEDIUM" -> Weakest(combos)
               [] diff = "HARD"   -> PickSmartOpening(combos)
<1>1. ChooseOpening(H, diff) = UNION {choices(combos) : combos \in DecomposeHand(H)}
  BY DEF ChooseOpening
<1>2. ASSUME NEW combos \in DecomposeHand(H)
      PROVE  choices(combos) # {} /\ \A p \in choices(combos) : Proper(H, p)
  <2>1. combos # {} /\ \A p \in combos : Proper(H, p) BY <1>2, Decomposition
  <2>2. \A P : Weakest(P) \subseteq P BY DEF Weakest
  <2>3. \A P : P \subseteq combos /\ P # {} => Weakest(P) # {} BY <2>1, WeakestExists
  <2>4. PickSmartOpening(combos) \subseteq combos /\ PickSmartOpening(combos) # {}
    <3> DEFINE R == {p \in combos : IsRun(p)}
    <3>1. CASE \E p \in combos : IsRun(p)
      <4>1. R # {} /\ R \subseteq combos /\ PickSmartOpening(combos) = Weakest(R)
        BY <3>1 DEF PickSmartOpening
      <4> HIDE DEF R
      <4>2. Weakest(R) \subseteq R BY <2>2
      <4> QED BY <2>3, <4>1, <4>2
    <3>2. CASE ~\E p \in combos : IsRun(p)
      <4>1. PickSmartOpening(combos) = Weakest(combos) BY <3>2 DEF PickSmartOpening
      <4> QED BY <2>1, <2>2, <2>3, <4>1
    <3> QED BY <3>1, <3>2
  <2> QED BY <2>1, <2>2, <2>3, <2>4 DEF Difficulty
<1>3. DecomposeHand(H) # {}
  <2>1. PICK seqs : seqs \in TakenSequences(H) BY SequencesTaken
  <2> DEFINE plays(taken) ==
               LET used == UNION taken
                   dseqs == TakenDoubleSequences(H, used)
                   rest == H \ (used \cup UNION dseqs)
               IN  {PlayOf(s, ClassifyCombination(s)) : s \in taken \cup dseqs}
                     \cup {PlayOf(Group(rest, r), SizeCombo[Cardinality(Group(rest, r))]) :
                             r \in RanksWith(rest, 1)}
  <2>2. DecomposeHand(H) = {plays(taken) : taken \in TakenSequences(H)} BY DEF DecomposeHand
  <2> HIDE DEF plays
  <2>3. plays(seqs) \in DecomposeHand(H) BY <2>1, <2>2
  <2> QED BY <2>3
<1> HIDE DEF choices
<1> QED BY <1>1, <1>2, <1>3

LEMMA PassIsNoPlay ==
  \A H, p : Proper(H, p) => p # PassTurn /\ p # Panic
  BY DEF Proper, PassTurn, Panic, PlayOf

\* A bot with cards leads with a play, and answers with one that beats the table
\* or with a pass.
LEMMA ChoiceOfPlay ==
  ASSUME NEW H, H \subseteq Card, NEW t, t = NoPlay \/ Lies(t), NEW diff \in Difficulty,
         NEW p \in ChoosePlay(H, t, diff)
  PROVE  \/ p = PassTurn /\ t # NoPlay
         \/ p = Panic /\ H = {} /\ t = NoPlay
         \/ Proper(H, p) /\ CanBeat(t, p.cards, p.combo)
<1>1. CASE t = NoPlay
  <2>1. p \in ChooseOpening(H, diff) BY <1>1 DEF ChoosePlay
  <2>2. CASE H = {} BY <1>1, <2>1, <2>2 DEF ChooseOpening
  <2>3. CASE H # {} BY <1>1, <2>1, <2>3, Openings DEF CanBeat
  <2> QED BY <2>2, <2>3
<1>2. CASE t # NoPlay
  <2>1. p \in ChooseBeat(H, t, diff) BY <1>2 DEF ChoosePlay
  <2> QED BY <1>2, <2>1, AnswersBeat, BeatingPlays
<1> QED BY <1>1, <1>2
=============================================================================

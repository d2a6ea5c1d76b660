------------------------------- MODULE Cards -------------------------------
(***************************************************************************)
(* The cards of Tien Len and the rules of play, translated from            *)
(* internal/models/card.go and internal/game/validator.go.                 *)
(*                                                                         *)
(* A card is its Value(): rank * 4 + suit.  The program has 13 ranks; the  *)
(* number of ranks is a parameter so that small decks can be checked, and  *)
(* a deck of N ranks is dealt N cards to each of the four seats.  The      *)
(* lowest rank is Three, the highest is Two.                               *)
(*                                                                         *)
(* A combination is a set of cards.  The program handles lists, but every  *)
(* list it classifies has passed PlayerOwnsCards (the one operator here    *)
(* that takes a list, since it is the one that refuses repetitions) and is *)
(* sorted before it is read, so a list of distinct cards and the set of    *)
(* its cards are the same thing to the rules.                              *)
(***************************************************************************)
EXTENDS Naturals, FiniteSets, Sequences

CONSTANT RankCount      \* number of ranks: 13 in the program

ASSUME RankCountAssumption == RankCount \in Nat /\ RankCount >= 2

Seat == 0..3

Card == 0 .. (4 * RankCount - 1)
Rank == 0 .. (RankCount - 1)

RankOf(c) == c \div 4
Two == RankCount - 1
ThreeOfSpades == 0
HandSize == RankCount

Combo == {"SINGLE", "PAIR", "TRIPLE", "SEQUENCE", "DOUBLE_SEQUENCE", "FOUR"}
Invalid == "INVALID"

----------------------------------------------------------------------------
(* Lists and hands. *)

SortCards(cards) ==
  [i \in 1 .. Cardinality(cards) |->
     CHOOSE c \in cards : Cardinality({d \in cards : d < c}) = i - 1]

\* Mistake: one owned card is enough.
OwnsSomeCards(hand, played) ==
  \E i \in DOMAIN played : played[i] \in hand

\* PlayerOwnsCards counts each card it meets down in a map of the hand: a
\* card that is not in the hand, or that is listed twice, is refused.
PlayerOwnsCards(hand, played) ==
  /\ \A i \in DOMAIN played : played[i] \in hand
  /\ \A i, j \in DOMAIN played : played[i] = played[j] => i = j

Highest(cards) == CHOOSE c \in cards : \A d \in cards : d <= c

\* Mistake: a card is left in the hand.
RemoveAllButHighest(hand, cards) == hand \ (cards \ {Highest(cards)})

RemoveCards(hand, cards) == hand \ cards

CountTwos(hand) == Cardinality({c \in hand : RankOf(c) = Two})

----------------------------------------------------------------------------
(* Classification of a combination, on the sorted list the code works on. *)

SameRank(s) == \A i \in 2 .. Len(s) : RankOf(s[i]) = RankOf(s[i - 1])

HasTwo(s) == \E i \in DOMAIN s : RankOf(s[i]) = Two

IsSequence(s) ==
  /\ Len(s) >= 3
  /\ ~HasTwo(s)
  /\ \A i \in 2 .. Len(s) : RankOf(s[i]) = RankOf(s[i - 1]) + 1

\* Mistake: two pairs are enough.
IsShortDoubleSequence(s) ==
  /\ Len(s) >= 4
  /\ Len(s) % 2 = 0
  /\ ~HasTwo(s)
  /\ \A i \in {k \in 1 .. Len(s) : k % 2 = 1} :
       /\ RankOf(s[i]) = RankOf(s[i + 1])
       /\ i > 1 => RankOf(s[i]) = RankOf(s[i - 2]) + 1

IsDoubleSequence(s) ==
  /\ Len(s) >= 6
  /\ Len(s) % 2 = 0
  /\ ~HasTwo(s)
  /\ \A i \in {k \in 1 .. Len(s) : k % 2 = 1} :
       /\ RankOf(s[i]) = RankOf(s[i + 1])
       /\ i > 1 => RankOf(s[i]) = RankOf(s[i - 2]) + 1

ClassifyCombination(cards) ==
  LET n == Cardinality(cards)
      s == SortCards(cards)
  IN  CASE n = 1                           -> "SINGLE"
        [] n = 2 /\ SameRank(s)            -> "PAIR"
        [] n = 3 /\ SameRank(s)            -> "TRIPLE"
        [] n = 4 /\ SameRank(s)            -> "FOUR"
        [] n >= 3 /\ IsSequence(s)         -> "SEQUENCE"
        [] n >= 4 /\ IsDoubleSequence(s)   -> "DOUBLE_SEQUENCE"
        [] OTHER                           -> Invalid

----------------------------------------------------------------------------
(* Beating what lies on the table. *)

NoPlay == [owner |-> 4, cards |-> {}, combo |-> Invalid]    \* TablePlay = nil
TablePlay == [owner : Seat, cards : SUBSET Card, combo : Combo]

\* Mistake: three pairs beat a pair of 2s as they beat a single 2.
ChopsAlike(table, cards, combo) ==
  /\ \A c \in table.cards : RankOf(c) = Two
  /\ table.combo \in {"SINGLE", "PAIR"}
  /\ combo \in {"FOUR", "DOUBLE_SEQUENCE"}

\* The special "chop" rules: what may be thrown on a single 2 or a pair of 2s.
Chops(table, cards, combo) ==
  /\ \A c \in table.cards : RankOf(c) = Two
  /\ \/ /\ table.combo = "SINGLE"
        /\ \/ combo = "FOUR"
           \/ combo = "DOUBLE_SEQUENCE" /\ Cardinality(cards) >= 6
     \/ /\ table.combo = "PAIR"
        /\ combo = "DOUBLE_SEQUENCE" /\ Cardinality(cards) >= 8

CanBeat(table, cards, combo) ==
  \/ table = NoPlay
  \/ Chops(table, cards, combo)
  \/ /\ combo = table.combo
     /\ Cardinality(cards) = Cardinality(table.cards)
     /\ Highest(cards) > Highest(table.cards)
=============================================================================

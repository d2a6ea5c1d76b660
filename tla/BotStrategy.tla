---------------------------- MODULE BotStrategy ----------------------------
(***************************************************************************)
(* How a bot chooses what to play (internal/bot/strategy.go).  Hands are   *)
(* sets; the code sorts them before it relies on an order.  Where it draws *)
(* a random number, walks a map, or sorts plays of the same strength, any  *)
(* of the outcomes may come out: the operators return the set of them.     *)
(***************************************************************************)
EXTENDS Cards

Difficulty == {"EASY", "MEDIUM", "HARD"}

PlayOf(cards, combo) == [cards |-> cards, combo |-> combo]
PassTurn == PlayOf({}, "PASS")          \* a nil Play
Panic    == PlayOf({}, "PANIC")         \* an index out of range

----------------------------------------------------------------------------
(* The finders. *)

Group(hand, r) == {c \in hand : RankOf(c) = r}
RanksWith(hand, n) == {r \in Rank : Cardinality(Group(hand, r)) >= n}

\* The n lowest of a set of cards, the first n of a sorted group.
LowestOf(cards, n) == {c \in cards : Cardinality({d \in cards : d < c}) < n}

SameRanked(hand, n) ==
  {S \in SUBSET hand : Cardinality(S) = n /\ \A c, d \in S : RankOf(c) = RankOf(d)}

FindPairs(hand) == SameRanked(hand, 2)
FindTriples(hand) == SameRanked(hand, 3)
FindFourOfAKinds(hand) == SameRanked(hand, 4)

\* Runs of at least n ranks without the 2.
Runs(ranks, n) ==
  {R \in {a..b : a, b \in Rank \ {Two}} : R \subseteq ranks /\ Cardinality(R) >= n}

\* One card of each rank of a run, always the lowest.
FindSequences(hand, minLen) ==
  {{c \in hand : RankOf(c) \in R /\ c \in LowestOf(Group(hand, RankOf(c)), 1)} :
     R \in Runs(RanksWith(hand, 1), minLen)}

FindDoubleSequences(hand) ==
  {{c \in hand : RankOf(c) \in R /\ c \in LowestOf(Group(hand, RankOf(c)), 2)} :
     R \in Runs(RanksWith(hand, 2), 3)}

----------------------------------------------------------------------------
(* Leading. *)

Apart(plays) == \A S, T \in plays : S # T => S \cap T = {}

\* The longest sequences first, each taken when its cards are unused; equally
\* long ones come in any order.
TakenSequences(hand) ==
  LET seqs == FindSequences(hand, 3) IN
  {T \in SUBSET seqs :
     /\ Apart(T)
     /\ \A s \in seqs \ T : \E t \in T :
          Cardinality(t) >= Cardinality(s) /\ s \cap t # {}}

\* Double sequences in the order in which they are found, by their lowest
\* card and then by length.
Before(s, t) ==
  LET a == LowestOf(s, 1)
      b == LowestOf(t, 1)
  IN  IF a = b THEN Cardinality(s) < Cardinality(t)
               ELSE \E c \in a, d \in b : c < d

\* Mistake: the cards are not marked as used.
AllDoubleSequences(hand, used) == FindDoubleSequences(hand)

TakenDoubleSequences(hand, used) ==
  LET free == {s \in FindDoubleSequences(hand) : s \cap used = {}} IN
  CHOOSE T \in SUBSET free :
    /\ Apart(T)
    /\ \A s \in free \ T : \E t \in T : Before(t, s) /\ s \cap t # {}

SizeCombo == <<"SINGLE", "PAIR", "TRIPLE", "FOUR">>

\* decomposeHand: the sequences, the double sequences, and what is left by rank.
DecomposeHand(hand) ==
  { LET used == UNION seqs
        dseqs == TakenDoubleSequences(hand, used)
        rest == hand \ (used \cup UNION dseqs)
    IN  {PlayOf(s, ClassifyCombination(s)) : s \in seqs \cup dseqs}
          \cup {PlayOf(Group(rest, r), SizeCombo[Cardinality(Group(rest, r))]) :
                  r \in RanksWith(rest, 1)}
    : seqs \in TakenSequences(hand) }

\* comboStrength is the value of the highest card.
Strength(play) == Highest(play.cards)
Weakest(plays) == {p \in plays : \A q \in plays : Strength(p) <= Strength(q)}
Strongest(plays) == {p \in plays : \A q \in plays : Strength(p) >= Strength(q)}

IsRun(play) == play.combo \in {"SEQUENCE", "DOUBLE_SEQUENCE"}

PickSmartOpening(combos) ==
  IF \E p \in combos : IsRun(p) THEN Weakest({p \in combos : IsRun(p)}) ELSE Weakest(combos)

\* Mistake: a single card is no hand to lead from.
ChooseOpeningOfMany(hand, diff) ==
  IF Cardinality(hand) <= 1 THEN {Panic}
  ELSE UNION { CASE diff = "EASY"   -> combos
                 [] diff = "MEDIUM" -> Weakest(combos)
                 [] diff = "HARD"   -> PickSmartOpening(combos)
               : combos \in DecomposeHand(hand) }

\* An empty hand has no combination, and no lowest card either.
ChooseOpening(hand, diff) ==
  IF hand = {} THEN {Panic}
  ELSE UNION { CASE diff = "EASY"   -> combos
                 [] diff = "MEDIUM" -> Weakest(combos)
                 [] diff = "HARD"   -> PickSmartOpening(combos)
               : combos \in DecomposeHand(hand) }

----------------------------------------------------------------------------
(* Answering. *)

\* Mistake: double sequences are forgotten.
FindFourChops(hand) == {PlayOf(S, "FOUR") : S \in FindFourOfAKinds(hand)}

FindChopPlays(hand) ==
  {PlayOf(S, "FOUR") : S \in FindFourOfAKinds(hand)}
    \cup {PlayOf(S, "DOUBLE_SEQUENCE") : S \in FindDoubleSequences(hand)}

\* Mistake: three pairs are thrown on a pair of 2s, too.
ChopsAnyPair(hand, table) ==
  {PlayOf(S, "DOUBLE_SEQUENCE") : S \in FindDoubleSequences(hand)}

ChopsOnPair(hand, table) ==
  {PlayOf(S, "DOUBLE_SEQUENCE") : S \in {T \in FindDoubleSequences(hand) : Cardinality(T) >= 8}}

\* What of the hand is tried on a table of the same combination.
Tries(hand, table) ==
  CASE table.combo = "SINGLE"          -> {{c} : c \in hand}
    [] table.combo = "PAIR"            -> FindPairs(hand)
    [] table.combo = "TRIPLE"          -> FindTriples(hand)
    [] table.combo = "SEQUENCE"        -> FindSequences(hand, Cardinality(table.cards))
    [] table.combo = "DOUBLE_SEQUENCE" -> FindDoubleSequences(hand)
    [] table.combo = "FOUR"            -> FindFourOfAKinds(hand)

FindBeatingPlays(hand, table) ==
  LET onTwo == \A c \in table.cards : RankOf(c) = Two IN
  {PlayOf(S, table.combo) : S \in {T \in Tries(hand, table) : CanBeat(table, T, table.combo)}}
    \cup (IF onTwo /\ table.combo = "SINGLE" THEN FindChopPlays(hand) ELSE {})
    \cup (IF onTwo /\ table.combo = "PAIR" THEN ChopsOnPair(hand, table) ELSE {})

SpendsTwo(play) == \E c \in play.cards : RankOf(c) = Two

\* Mistake: the cheapest play, 2s or not.
PickCheapestBeat(hand, candidates) == Weakest(candidates)

\* With few cards left the strongest play; else the weakest without a 2; and
\* the 2s only when the hand is short.
PickSmartBeat(hand, candidates) ==
  LET saving == {p \in candidates : ~SpendsTwo(p)} IN
  CASE Cardinality(hand) <= 3 -> Strongest(candidates)
    [] Cardinality(hand) > 3 /\ saving # {} -> Weakest(saving)
    [] Cardinality(hand) \in 4..5 /\ saving = {} -> Weakest(candidates)
    [] OTHER -> {PassTurn}

ChooseBeat(hand, table, diff) ==
  LET candidates == FindBeatingPlays(hand, table) IN
  IF candidates = {} THEN {PassTurn}
  ELSE CASE diff = "EASY"   -> candidates
         [] diff = "MEDIUM" -> Weakest(candidates)
         [] diff = "HARD"   -> PickSmartBeat(hand, candidates)

\* A table of NoPlay stands for a nil TableState.
ChoosePlay(hand, table, diff) ==
  IF table = NoPlay THEN ChooseOpening(hand, diff) ELSE ChooseBeat(hand, table, diff)
=============================================================================

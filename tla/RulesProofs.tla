---------------------------- MODULE RulesProofs ----------------------------
(***************************************************************************)
(* Theorems about the rules and the bots' choices: with any number of      *)
(* ranks, and for every hand and every play on the table.                  *)
(***************************************************************************)
EXTENDS MCRules, CardsProofs

\* Hands and tables are what they can be.
Seen ==
  /\ hand \subseteq Card
  /\ table = NoPlay \/ \E S \in Combinations : table = Play(S)

\* A play that can lie on the table.
LEMMA OnTable ==
  ASSUME Seen, table # NoPlay
  PROVE  Lies(table)
<1>1. PICK S \in Combinations : table = Play(S) BY DEF Seen
<1>2. S \subseteq Card /\ ClassifyCombination(S) # Invalid
  BY <1>1, CardsAssumption DEF Combinations
<1>3. table.cards = S /\ table.combo = ClassifyCombination(S) BY <1>1 DEF Play
<1> QED BY <1>2, <1>3, ValidIsNotEmpty, Classification DEF Lies

LEMMA InvStep == Seen /\ [Next]_vars => Seen'
<1> SUFFICES ASSUME Seen, [Next]_vars PROVE Seen' OBVIOUS
<1>1. CASE Draw BY <1>1, CardsAssumption DEF Draw, Seen
<1>2. CASE Meet BY <1>2 DEF Meet, Seen
<1>3. CASE UNCHANGED vars BY <1>3 DEF vars, Seen
<1> QED BY <1>1, <1>2, <1>3 DEF Next

----------------------------------------------------------------------------
(* The rules. *)

\* Hands and tables are made of cards, and a table holds a combination.
THEOREM RulesInvariance == Spec => []Seen
<1>1. Init => Seen BY DEF Init, Seen
<1> QED BY <1>1, InvStep, PTL DEF Spec

\* ClassifyCombination (validator.go) finds the one kind README.md:152-163 gives
\* a set of cards, and refuses a set it gives none: for every hand, with any
\* number of ranks, although the code reads sorted lists and the rules speak of
\* sets.
THEOREM Classified == Spec => []ClassifiedAsDocumented
<1>1. Seen => ClassifiedAsDocumented BY KindDocumented DEF Seen, ClassifiedAsDocumented
<1> QED BY <1>1, RulesInvariance, PTL

\* CanBeat (validator.go) allows exactly what README.md:164-170 allows, chops
\* included.
THEOREM Beaten == Spec => []BeatsAsDocumented
<1>1. ASSUME Seen PROVE BeatsAsDocumented
  <2> DEFINE kind == ClassifyCombination(hand)
  <2> SUFFICES ASSUME kind # Invalid
               PROVE  CanBeat(table, hand, kind) <=> DocumentedBeats(table, hand)
    BY DEF BeatsAsDocumented
  <2>1. hand \subseteq Card /\ hand # {} BY <1>1, ValidIsNotEmpty DEF Seen
  <2>2. (CHOOSE k \in Documented(hand) : TRUE) = kind
    <3>1. Documented(hand) = {kind} BY <2>1, KindDocumented
    <3> QED BY <3>1
  <2>3. CASE table = NoPlay BY <2>3 DEF CanBeat, DocumentedBeats
  <2>4. CASE table # NoPlay
    <3>1. /\ table.cards \subseteq Card /\ table.cards # {}
          /\ table.combo \in Combo
      BY <1>1, <2>4, OnTable DEF Lies
    <3>2. Highest(hand) > Highest(table.cards) <=> Higher(hand, table.cards)
      BY <2>1, <3>1, HighestIsHigher
    <3>3. (\A c \in table.cards : RankOf(c) = Two) <=> Ranks(table.cards) = {Two}
      BY <3>1 DEF Ranks
    <3> HIDE DEF kind
    <3> QED BY <2>2, <2>4, <3>2, <3>3 DEF CanBeat, Chops, DocumentedBeats
  <2> QED BY <2>3, <2>4
<1> QED BY <1>1, RulesInvariance, PTL

\* Of two plays at most one beats the other (validator.go:110-151).
BeatsOneWay ==
  table # NoPlay /\ CanBeat(table, hand, ClassifyCombination(hand))
                 /\ ClassifyCombination(hand) # Invalid
    => ~CanBeat(Play(hand), table.cards, table.combo)

\* No two plays beat each other: the chop rules cut across the kinds, but not in
\* circles.
THEOREM OneWay == Spec => []BeatsOneWay
<1>1. ASSUME Seen PROVE BeatsOneWay
  <2> DEFINE kind == ClassifyCombination(hand)
  <2> SUFFICES ASSUME table # NoPlay, kind # Invalid, CanBeat(table, hand, kind),
                      CanBeat(Play(hand), table.cards, table.combo)
               PROVE  FALSE
    BY DEF BeatsOneWay
  <2>1. /\ hand \subseteq Card /\ hand # {}
        /\ table.cards \subseteq Card /\ table.cards # {}
    BY <1>1, OnTable, ValidIsNotEmpty DEF Seen, Lies
  <2>2. Highest(hand) \in Nat /\ Highest(table.cards) \in Nat
    BY <2>1, HighestExists, CardsAreNumbers
  <2>3. Play(hand) # NoPlay /\ Play(hand).cards = hand /\ Play(hand).combo = kind
    <3>1. Play(hand).owner = 0 /\ NoPlay.owner = 4 BY DEF Play, NoPlay
    <3> QED BY <3>1 DEF Play
  <2>4. kind = table.combo /\ Highest(hand) > Highest(table.cards) BY <2>3 DEF CanBeat, Chops
  <2>5. Highest(table.cards) > Highest(hand) BY <2>3, <2>4 DEF CanBeat, Chops
  <2> QED BY <2>2, <2>4, <2>5
<1> QED BY <1>1, RulesInvariance, PTL

----------------------------------------------------------------------------
(* Choices. *)

LEMMA ChoicesAreAccepted == Seen => ChoiceAccepted
<1> SUFFICES ASSUME Seen, NEW diff \in Difficulty
             PROVE  /\ table = NoPlay => ChoosePlay(hand, table, diff) # {}
                    /\ \A p \in ChoosePlay(hand, table, diff) :
                         \/ p = PassTurn /\ table # NoPlay
                         \/ p = Panic /\ table = NoPlay /\ hand = {}
                         \/ Proper(hand, p) /\ CanBeat(table, p.cards, p.combo)
  BY DEF ChoiceAccepted, Proper
<1>1. hand \subseteq Card /\ (table = NoPlay \/ Lies(table)) BY OnTable DEF Seen
<1>2. ASSUME table = NoPlay PROVE ChoosePlay(hand, table, diff) # {}
  <2>1. ChoosePlay(hand, table, diff) = ChooseOpening(hand, diff) BY <1>2 DEF ChoosePlay
  <2>2. CASE hand = {} BY <2>1, <2>2 DEF ChooseOpening
  <2>3. CASE hand # {} BY <1>1, <2>1, <2>3, Openings
  <2> QED BY <2>2, <2>3
<1> QED BY <1>1, <1>2, ChoiceOfPlay

LEMMA HandsArePartitioned == Seen => DecompositionIsPartition
  BY Decomposition DEF Seen, DecompositionIsPartition, Proper

LEMMA TwosAreSaved == Seen => HardSavesTwos
<1> SUFFICES ASSUME Seen, table # NoPlay, Cardinality(hand) > 5,
                    NEW p \in ChoosePlay(hand, table, "HARD")
             PROVE  /\ ~SpendsTwo(p)
                    /\ p = PassTurn =>
                         \A other \in ChoosePlay(hand, table, "MEDIUM") :
                           other = PassTurn \/ SpendsTwo(other)
  BY DEF HardSavesTwos
<1> DEFINE candidates == FindBeatingPlays(hand, table)
           saving == {q \in candidates : ~SpendsTwo(q)}
<1>1. \A q \in candidates : q # PassTurn BY OnTable, BeatingPlays, PassIsNoPlay DEF Seen
<1>2. ~SpendsTwo(PassTurn) BY DEF SpendsTwo, PassTurn, PlayOf
<1>3. Cardinality(hand) \in Nat BY Sorted DEF Seen
<1>4. /\ p \in ChooseBeat(hand, table, "HARD")
      /\ ChoosePlay(hand, table, "MEDIUM") = ChooseBeat(hand, table, "MEDIUM")
  BY DEF ChoosePlay
<1>5. \A P : Weakest(P) \subseteq P BY DEF Weakest
<1> HIDE DEF candidates
<1>6. CASE candidates = {}
  <2>1. p = PassTurn /\ ChooseBeat(hand, table, "MEDIUM") = {PassTurn}
    BY <1>4, <1>6 DEF ChooseBeat, candidates
  <2> QED BY <1>2, <1>4, <2>1
<1>7. CASE candidates # {} /\ saving # {}
  <2>1. p \in PickSmartBeat(hand, candidates) BY <1>4, <1>7 DEF ChooseBeat, candidates
  <2>2. p \in Weakest(saving) BY <1>3, <1>7, <2>1 DEF PickSmartBeat
  <2>3. p \in candidates /\ ~SpendsTwo(p) BY <1>5, <2>2
  <2> QED BY <1>1, <2>3
<1>8. CASE candidates # {} /\ saving = {}
  <2>1. p \in PickSmartBeat(hand, candidates) BY <1>4, <1>8 DEF ChooseBeat, candidates
  <2>2. p = PassTurn BY <1>3, <1>8, <2>1 DEF PickSmartBeat
  <2>3. ChooseBeat(hand, table, "MEDIUM") = Weakest(candidates)
    BY <1>8 DEF ChooseBeat, candidates
  <2>4. \A q \in candidates : SpendsTwo(q) BY <1>8
  <2> QED BY <1>2, <1>4, <1>5, <2>2, <2>3, <2>4
<1> QED BY <1>6, <1>7, <1>8

LEMMA BeatsAreFound == Seen => FindsABeatingPlay
<1> SUFFICES ASSUME Seen, table # NoPlay, table.combo \notin {"SEQUENCE", "DOUBLE_SEQUENCE"},
                    NEW S \in SUBSET hand, ClassifyCombination(S) # Invalid,
                    CanBeat(table, S, ClassifyCombination(S))
             PROVE  \E p : p \in FindBeatingPlays(hand, table)
  BY DEF FindsABeatingPlay
<1>1. hand \subseteq Card /\ S \subseteq Card BY DEF Seen
<1>2. table.combo \in {"SINGLE", "PAIR", "TRIPLE", "FOUR"} BY OnTable DEF Lies, Combo
<1>3. CASE Chops(table, S, ClassifyCombination(S))
  <2>1. CASE ClassifyCombination(S) = "FOUR"
    <3>1. S \in FindFourOfAKinds(hand) BY <1>1, <2>1, KindSameRanked
    <3>2. table.combo = "SINGLE" /\ \A c \in table.cards : RankOf(c) = Two
      BY <1>3, <2>1 DEF Chops
    <3>3. PlayOf(S, "FOUR") \in FindChopPlays(hand) BY <3>1 DEF FindChopPlays
    <3> QED BY <3>2, <3>3 DEF FindBeatingPlays
  <2>2. CASE ClassifyCombination(S) = "DOUBLE_SEQUENCE"
    <3>1. PICK T \in FindDoubleSequences(hand) : Cardinality(T) = Cardinality(S)
      BY <1>1, <2>2, DoubleSequenceFound
    <3>2. CASE table.combo = "SINGLE"
      <4>1. PlayOf(T, "DOUBLE_SEQUENCE") \in FindChopPlays(hand) BY <3>1 DEF FindChopPlays
      <4> QED BY <1>3, <3>2, <4>1 DEF FindBeatingPlays, Chops
    <3>3. CASE table.combo = "PAIR"
      <4>1. Cardinality(T) >= 8 BY <1>3, <3>1, <3>3 DEF Chops
      <4>2. PlayOf(T, "DOUBLE_SEQUENCE") \in ChopsOnPair(hand, table)
        BY <3>1, <4>1 DEF ChopsOnPair
      <4> QED BY <1>3, <3>3, <4>2 DEF FindBeatingPlays, Chops
    <3> QED BY <1>3, <3>2, <3>3 DEF Chops
  <2> QED BY <1>3, <2>1, <2>2 DEF Chops
<1>4. CASE ~Chops(table, S, ClassifyCombination(S))
  <2>1. ClassifyCombination(S) = table.combo BY <1>4 DEF CanBeat
  <2>2. S \in Tries(hand, table)
    <3>1. CASE table.combo = "SINGLE"
      <4>1. IsFiniteSet(S) /\ Cardinality(S) = 1 BY <1>1, <2>1, <3>1, Classification, Sorted
      <4>2. PICK c : S = {c} BY <4>1, FS_Singleton
      <4> QED BY <3>1, <4>2 DEF Tries
    <3>2. CASE table.combo = "PAIR" BY <1>1, <2>1, <3>2, KindSameRanked DEF Tries
    <3>3. CASE table.combo = "TRIPLE" BY <1>1, <2>1, <3>3, KindSameRanked DEF Tries
    <3>4. CASE table.combo = "FOUR" BY <1>1, <2>1, <3>4, KindSameRanked DEF Tries
    <3> QED BY <1>2, <3>1, <3>2, <3>3, <3>4
  <2>3. PlayOf(S, table.combo) \in FindBeatingPlays(hand, table)
    BY <2>1, <2>2 DEF FindBeatingPlays
  <2> QED BY <2>3
<1> QED BY <1>3, <1>4

\* Whatever a bot of any difficulty chooses (ChoosePlay of strategy.go) are
\* cards of its hand, of the kind it says, that beat the table: the engine
\* (handlePlayCards of engine.go) accepts it.  On an empty table it leads,
\* for the hand can always be taken apart, and something of it is chosen.
THEOREM BotsPlayByTheRules == Spec => []ChoiceAccepted
  BY RulesInvariance, ChoicesAreAccepted, PTL

\* decomposeHand of strategy.go deals out the whole hand, each card once, in
\* combinations the rules know.
THEOREM HandsDealtOut == Spec => []DecompositionIsPartition
  BY RulesInvariance, HandsArePartitioned, PTL

\* With more than five cards the hard bot spends no 2 on an answer, and passes
\* only when the medium one would have passed or spent one.
THEOREM TwosSaved == Spec => []HardSavesTwos
  BY RulesInvariance, TwosAreSaved, PTL

\* On a table that is no run, findBeatingPlays of strategy.go finds a play
\* whenever some cards of the hand beat the table, chops included.
THEOREM NoBeatMissed == Spec => []FindsABeatingPlay
  BY RulesInvariance, BeatsAreFound, PTL
=============================================================================

------------------------------ MODULE MCRules ------------------------------
(***************************************************************************)
(* Every hand that can be drawn from some cards of a small deck meets      *)
(* every play that can lie on the table.  The hand as a whole is offered   *)
(* to the rules, and a bot chooses from it.                                *)
(***************************************************************************)
EXTENDS Rules, BotStrategy

CONSTANTS
  Held,     \* the cards that may be in the hand
  Laid      \* the cards that may lie on the table

ASSUME CardsAssumption == Held \subseteq Card /\ Laid \subseteq Card

VARIABLES hand, table
vars == <<hand, table>>

Play(S) == [owner |-> 0, cards |-> S, combo |-> ClassifyCombination(S)]

Combinations == {S \in SUBSET Laid : ClassifyCombination(S) # Invalid}

Init == hand = {} /\ table = NoPlay

Draw ==
  /\ table = NoPlay
  /\ \E c \in Held : (\A d \in hand : d < c) /\ hand' = hand \cup {c}
  /\ UNCHANGED table

\* Another player lays cards.
Meet ==
  /\ table = NoPlay /\ hand # {}
  /\ \E S \in Combinations : table' = Play(S)
  /\ UNCHANGED hand

Next == Draw \/ Meet
Spec == Init /\ [][Next]_vars

----------------------------------------------------------------------------
(* The rules. *)

\* The order in which ClassifyCombination tries the combinations does not
\* matter: a set of cards is of at most one kind, the one the code finds, and
\* it is refused when it is of none.
ClassifiedAsDocumented ==
  LET kind == ClassifyCombination(hand)
  IN  Documented(hand) = IF kind = Invalid THEN {} ELSE {kind}

\* CanBeat allows exactly what the rules allow.
BeatsAsDocumented ==
  ClassifyCombination(hand) # Invalid =>
    (CanBeat(table, hand, ClassifyCombination(hand)) <=> DocumentedBeats(table, hand))

----------------------------------------------------------------------------
(* The bots' choices. *)

\* The strategy has its own finders for combinations and for chops; the
\* engine has its own rules.  Whatever a bot chooses, the engine accepts it
\* (handlePlayCards: owned, a combination, and one that beats the table);
\* otherwise the bot would sit out its 30 seconds.  It passes only when there
\* is a table to pass on, panics only when it has nothing to lead with, and on
\* an empty table it always has something to lead with.
ChoiceAccepted ==
  \A diff \in Difficulty :
    /\ table = NoPlay => ChoosePlay(hand, table, diff) # {}
    /\ \A play \in ChoosePlay(hand, table, diff) :
         \/ play = PassTurn /\ table # NoPlay
         \/ play = Panic /\ table = NoPlay /\ hand = {}
         \/ /\ play.cards # {} /\ play.cards \subseteq hand
            /\ ClassifyCombination(play.cards) = play.combo
            /\ CanBeat(table, play.cards, play.combo)

\* decomposeHand deals out the whole hand, each card once, although the
\* sequences, the double sequences and the groups are found independently.
DecompositionIsPartition ==
  \A combos \in DecomposeHand(hand) :
    /\ UNION {p.cards : p \in combos} = hand
    /\ \A p, q \in combos : p # q => p.cards \cap q.cards = {}
    /\ \A p \in combos : ClassifyCombination(p.cards) = p.combo

\* README.md:186, "Hard (strategic with 2s conservation)": with more than
\* five cards the hard bot answers without a 2 whenever a medium one could
\* have done so, and passes rather than spend one.
HardSavesTwos ==
  table # NoPlay /\ Cardinality(hand) > 5 =>
    \A play \in ChoosePlay(hand, table, "HARD") :
      /\ ~SpendsTwo(play)
      /\ play = PassTurn =>
           \A other \in ChoosePlay(hand, table, "MEDIUM") : other = PassTurn \/ SpendsTwo(other)

\* On a table that is no run, findBeatingPlays finds a play that beats it when
\* the hand has one, chops included.  This is less than strategy.go:116,
\* "findBeatingPlays enumerates all subsets of hand that can beat the table":
\* of runs only those of the lowest cards are tried, and one that beats the
\* table by its higher last card is missed.
FindsABeatingPlay ==
  table # NoPlay /\ table.combo \notin {"SEQUENCE", "DOUBLE_SEQUENCE"}
    => \A S \in SUBSET hand :
         ClassifyCombination(S) # Invalid /\ CanBeat(table, S, ClassifyCombination(S))
           => FindBeatingPlays(hand, table) # {}
=============================================================================

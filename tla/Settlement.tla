----------------------------- MODULE Settlement -----------------------------
(***************************************************************************)
(* What a finished game is worth: the pure part of endGame and             *)
(* deadPigMultiplier of internal/game/engine.go.  Hands are given as a     *)
(* function from seats to sets of cards; the winner's is empty.            *)
(***************************************************************************)
EXTENDS Cards, Integers

CONSTANT Ante       \* AnteAmount: the rooms are created with these three

ASSUME AnteAssumption == Ante \in {100, 500, 1000}

\* Mistake: a full hand is looked at before the four 2s.
DeadPigFullHandFirst(cards, count) ==
  IF count = HandSize THEN 3
  ELSE IF CountTwos(cards) = 4 THEN 4
  ELSE IF CountTwos(cards) > 0 THEN 2
  ELSE 1

\* The highest penalty that applies; penalties do not stack.
DeadPigMultiplier(cards, count) ==
  IF CountTwos(cards) = 4 THEN 4
  ELSE IF count = HandSize THEN 3
  ELSE IF CountTwos(cards) > 0 THEN 2
  ELSE 1

\* hands and counts are the seats' Hand and CardCount.
LoserPays(hands, counts, win, i) ==
  IF i = win THEN 0 ELSE Ante * DeadPigMultiplier(hands[i], counts[i])

TotalPot(hands, counts, win) ==
  LoserPays(hands, counts, win, 0) + LoserPays(hands, counts, win, 1)
    + LoserPays(hands, counts, win, 2) + LoserPays(hands, counts, win, 3)

ServerFee(pot) == pot \div 10

GoldDelta(hands, counts, win, i) ==
  LET pot == TotalPot(hands, counts, win)
  IN  IF i = win THEN pot - ServerFee(pot)
                 ELSE -LoserPays(hands, counts, win, i)
=============================================================================

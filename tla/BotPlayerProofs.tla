-------------------------- MODULE BotPlayerProofs --------------------------
(***************************************************************************)
(* Theorems about a room with bots (BotPlayer), for every number of bots   *)
(* and humans, every deal and every list a human may send.                 *)
(***************************************************************************)
EXTENDS BotPlayer, EngineProofs, CardsProofs, SequenceTheorems

----------------------------------------------------------------------------
(* The inductive invariant.                                                *)

\* What a channel carries.
Laid == {t \in TablePlay : Lies(t)}

Message ==
  [type : {"DEALT"}, cards : SUBSET Card, turn : Seat]
    \cup [type : {"MOVE"}, play : Laid]
    \cup [type : {"TURN"}, turn : Seat, clear : BOOLEAN]
    \cup [type : {"SETTLED"}]

Request ==
  {o \in [client : Bot, kind : {"READY", "PASS", "PLAY"}, cards : SUBSET Card] :
     o.kind = "PLAY" <=> o.cards # {}}

BotTypes ==
  /\ inbox \in [Bot -> Seq(Message)]
  /\ view \in [Bot -> SUBSET Card]
  /\ last \in [Bot -> Laid \cup {NoPlay}]
  /\ readying \in [Bot -> Nat]
  /\ queue \in Seq(Request)
  /\ crashed \in BOOLEAN
  /\ thinking = [b \in Bot |-> thinking[b]]
  /\ \A b \in Bot : DOMAIN thinking[b] \subseteq Laid \cup {NoPlay}

\* A bot has one seat from the moment it is added.
BotSeated(b) ==
  IF inRoom[b] THEN \E i \in Seat : SeatsOf(UserOf[b]) = {i} ELSE SeatsOf(UserOf[b]) = {}

\* A list in which x does not occur, and one in which it does not occur twice.
Lacks(q, x) == \A k \in DOMAIN q : q[k] # x
AtMostOnce(q, x) == \A j, k \in DOMAIN q : q[j] = x /\ q[k] = x => j = k

\* What makes a bot send "ready", or is the message itself: the settlement it
\* has not read yet, the goroutine, the message.  There is at most one of
\* them, and none when a game runs or the bot is ready.
ReadyOf(b) == [client |-> b, kind |-> "READY", cards |-> {}]

NothingPending(b) ==
  readying[b] = 0 /\ Lacks(queue, ReadyOf(b)) /\ Lacks(inbox[b], Settled)

OnePending(b) ==
  \/ readying[b] = 1 /\ Lacks(queue, ReadyOf(b)) /\ Lacks(inbox[b], Settled)
  \/ readying[b] = 0 /\ AtMostOnce(queue, ReadyOf(b)) /\ Lacks(inbox[b], Settled)
  \/ readying[b] = 0 /\ Lacks(queue, ReadyOf(b)) /\ AtMostOnce(inbox[b], Settled)

IsReadyOrBusy(b) ==
  \/ ~inRoom[b] \/ phase = "PLAYING"
  \/ phase = "LOBBY" /\ \E i \in SeatsOf(UserOf[b]) : ready[i]

ReadyOnce(b) == OnePending(b) /\ (IsReadyOrBusy(b) => NothingPending(b))

\* The last deal in a channel, 0 when there is none; and the cards of seat s
\* that have been announced as played after it.
LastDeal(q, k) ==
  /\ k \in 0 .. Len(q) /\ (k > 0 => q[k].type = "DEALT")
  /\ \A j \in k + 1 .. Len(q) : q[j].type # "DEALT"

OwnPlay(q, s, k) == q[k].type = "MOVE" /\ q[k].play.owner = s
PlaysAfter(q, s, k) == {j \in k + 1 .. Len(q) : OwnPlay(q, s, j)}

\* A hand dealt, less the plays, is the hand held.
Follows(q, s, k, dealt, held) ==
  /\ dealt = held \cup UNION {q[j].play.cards : j \in PlaysAfter(q, s, k)}
  /\ \A j \in PlaysAfter(q, s, k) : q[j].play.cards \cap held = {}
  /\ \A i, j \in PlaysAfter(q, s, k) : i # j => q[i].play.cards \cap q[j].play.cards = {}
  /\ \A j \in k + 1 .. Len(q) : q[j].type # "SETTLED"

\* So a bot at seat s that believes in v will, with its channel q read, hold it.
Tracks(q, s, v, held) ==
  \A k \in 0 .. Len(q) :
    LastDeal(q, k) => Follows(q, s, k, IF k = 0 THEN v ELSE q[k].cards, held)

HandTracked(b) ==
  phase = "PLAYING" /\ inRoom[b]
    => \A s \in SeatsOf(UserOf[b]) : Tracks(inbox[b], s, view[b], hand[s])

\* A bot that is not in the room has been told nothing.
Outside(b) == ~inRoom[b] => inbox[b] = << >> /\ DOMAIN thinking[b] = {}

BInv ==
  /\ IInv /\ BotTypes
  /\ \A b \in Bot : BotSeated(b) /\ ReadyOnce(b) /\ HandTracked(b) /\ Outside(b)

----------------------------------------------------------------------------
(* Channels. *)

LEMMA AppendFacts ==
  ASSUME NEW S, NEW q \in Seq(S), NEW e \in S
  PROVE  /\ Append(q, e) \in Seq(S) /\ Len(Append(q, e)) = Len(q) + 1 /\ Len(q) \in Nat
         /\ \A k \in 1 .. Len(q) : Append(q, e)[k] = q[k]
         /\ Append(q, e)[Len(q) + 1] = e
         /\ DOMAIN Append(q, e) = 1 .. Len(q) + 1 /\ DOMAIN q = 1 .. Len(q)
  BY AppendProperties, LenProperties

LEMMA TailFacts ==
  ASSUME NEW S, NEW q \in Seq(S), q # << >>
  PROVE  /\ Tail(q) \in Seq(S) /\ Head(q) \in S /\ Head(q) = q[1]
         /\ Len(q) \in Nat \ {0} /\ Len(Tail(q)) = Len(q) - 1
         /\ \A k \in 1 .. Len(q) - 1 : Tail(q)[k] = q[k + 1]
         /\ DOMAIN Tail(q) = 1 .. Len(q) - 1 /\ DOMAIN q = 1 .. Len(q)
<1>1. Len(q) \in Nat /\ Len(q) # 0 BY EmptySeq, LenProperties
<1> QED BY <1>1, HeadTailProperties, LenProperties, ElementOfSeq

\* The two messages of a play, or of a pass, are sent one after the other.
LEMMA TwoMessages ==
  ASSUME NEW S, NEW q \in Seq(S), NEW m \in S, NEW n \in S
  PROVE  q \o <<m, n>> = Append(Append(q, m), n)
  OBVIOUS

LEMMA LacksAppend ==
  ASSUME NEW S, NEW q \in Seq(S), NEW e \in S, NEW x, Lacks(q, x)
  PROVE  /\ e # x => Lacks(Append(q, e), x)
         /\ AtMostOnce(Append(q, e), x)
  BY AppendFacts DEF Lacks, AtMostOnce

LEMMA OnceAppend ==
  ASSUME NEW S, NEW q \in Seq(S), NEW e \in S, NEW x, e # x, AtMostOnce(q, x)
  PROVE  AtMostOnce(Append(q, e), x)
  BY AppendFacts DEF AtMostOnce

LEMMA LacksTail ==
  ASSUME NEW S, NEW q \in Seq(S), q # << >>, NEW x
  PROVE  /\ Lacks(q, x) => Lacks(Tail(q), x) /\ Head(q) # x
         /\ AtMostOnce(q, x) => AtMostOnce(Tail(q), x)
         /\ AtMostOnce(q, x) /\ Head(q) = x => Lacks(Tail(q), x)
<1>1. ASSUME NEW k \in DOMAIN Tail(q) PROVE k + 1 \in DOMAIN q /\ 1 \in DOMAIN q /\ k + 1 # 1 /\ Tail(q)[k] = q[k + 1]
  BY TailFacts
<1>2. Lacks(q, x) => Lacks(Tail(q), x) /\ Head(q) # x
  BY <1>1, TailFacts DEF Lacks
<1>3. AtMostOnce(q, x) => AtMostOnce(Tail(q), x)
  <2> SUFFICES ASSUME AtMostOnce(q, x), NEW j \in DOMAIN Tail(q), NEW k \in DOMAIN Tail(q),
                      Tail(q)[j] = x, Tail(q)[k] = x
               PROVE  j = k
    BY DEF AtMostOnce
  <2>1. j + 1 = k + 1 BY <1>1 DEF AtMostOnce
  <2>2. j \in Nat /\ k \in Nat BY TailFacts
  <2> QED BY <2>1, <2>2
<1>4. AtMostOnce(q, x) /\ Head(q) = x => Lacks(Tail(q), x)
  BY <1>1, TailFacts DEF Lacks, AtMostOnce
<1> QED BY <1>2, <1>3, <1>4

----------------------------------------------------------------------------
(* What a channel says about a hand. *)

LEMMA FollowsPointwise ==
  ASSUME NEW q, NEW s, NEW k, NEW dealt, NEW held
  PROVE  dealt = held \cup UNION {q[j].play.cards : j \in PlaysAfter(q, s, k)}
           <=> \A c : c \in dealt <=> c \in held \/ \E j \in PlaysAfter(q, s, k) : c \in q[j].play.cards
  OBVIOUS

\* A hand that has just been dealt.
LEMMA TracksDeal ==
  ASSUME NEW q \in Seq(Message), NEW s, NEW v, NEW held \in SUBSET Card, NEW t \in Seat
  PROVE  Tracks(Append(q, Dealt(held, t)), s, v, held)
<1> DEFINE n == Len(q)
           p == Append(q, Dealt(held, t))
<1>1. Dealt(held, t) \in Message BY DEF Dealt, Message
<1>2. n \in Nat /\ Len(p) = n + 1 /\ p[n + 1] = Dealt(held, t) BY <1>1, AppendFacts
<1>3. p[n + 1].type = "DEALT" /\ p[n + 1].cards = held BY <1>2 DEF Dealt
<1> HIDE DEF n, p
<1>4. ASSUME NEW k \in 0 .. Len(p), LastDeal(p, k)
      PROVE  Follows(p, s, k, IF k = 0 THEN v ELSE p[k].cards, held)
  <2>1. k = n + 1
    <3>1. n + 1 \notin k + 1 .. Len(p) BY <1>2, <1>3, <1>4 DEF LastDeal
    <3> QED BY <1>2, <3>1
  <2>2. k + 1 .. Len(p) = {} BY <1>2, <2>1
  <2>3. PlaysAfter(p, s, k) = {} BY <2>2 DEF PlaysAfter
  <2>4. k # 0 BY <1>2, <2>1
  <2> QED BY <1>3, <2>1, <2>2, <2>3, <2>4 DEF Follows
<1> QED BY <1>4 DEF Tracks, p

\* A play of its own is one more that the bot has yet to read about.
LEMMA TracksMore ==
  ASSUME NEW q \in Seq(Message), NEW m \in Message, m.type \in {"MOVE", "TURN"},
         NEW s, NEW v, NEW held, NEW lost,
         lost = IF m.type = "MOVE" /\ m.play.owner = s THEN m.play.cards ELSE {},
         lost \subseteq held, Tracks(q, s, v, held)
  PROVE  Tracks(Append(q, m), s, v, held \ lost)
<1> DEFINE n == Len(q)
           p == Append(q, m)
<1>1. n \in Nat /\ Len(p) = n + 1 /\ p[n + 1] = m /\ \A k \in 1 .. n : p[k] = q[k] BY AppendFacts
<1> HIDE DEF n, p
<1>2. ASSUME NEW k \in 0 .. Len(p), LastDeal(p, k)
      PROVE  Follows(p, s, k, IF k = 0 THEN v ELSE p[k].cards, held \ lost)
  <2> DEFINE dealt == IF k = 0 THEN v ELSE p[k].cards
             P == PlaysAfter(q, s, k)
             new == PlaysAfter(p, s, k)
  <2>1. k \in 0 .. n /\ k + 1 .. Len(p) = (k + 1 .. n) \cup {n + 1} /\ n + 1 \notin k + 1 .. n
    <3>1. k # n + 1 BY <1>1, <1>2 DEF LastDeal
    <3> QED BY <1>1, <3>1
  <2>2. \A j \in k + 1 .. n : p[j] = q[j] BY <1>1, <2>1
  <2>3. k > 0 => p[k] = q[k] BY <1>1, <2>1
  <2>4. LastDeal(q, k) BY <1>2, <2>1, <2>2, <2>3 DEF LastDeal, n
  <2>5. Follows(q, s, k, dealt, held)
    <3>1. Follows(q, s, k, IF k = 0 THEN v ELSE q[k].cards, held) BY <2>1, <2>4 DEF Tracks, n
    <3>2. k = 0 \/ k > 0 BY <2>1
    <3> QED BY <2>3, <3>1, <3>2
  <2> HIDE DEF dealt
  <2>6. new = P \cup {j \in {n + 1} : OwnPlay(p, s, j)}
    <3>1. \A j \in k + 1 .. n : OwnPlay(p, s, j) <=> OwnPlay(q, s, j) BY <2>2 DEF OwnPlay
    <3>2. P = {j \in k + 1 .. n : OwnPlay(q, s, j)} BY DEF PlaysAfter, n
    <3> HIDE DEF P
    <3>3. new = {j \in k + 1 .. Len(p) : OwnPlay(p, s, j)} BY DEF PlaysAfter
    <3> HIDE DEF new
    <3> QED BY <2>1, <3>1, <3>2, <3>3
  <2>7. P \subseteq k + 1 .. n BY DEF PlaysAfter, n
  <2>8. OwnPlay(p, s, n + 1) <=> m.type = "MOVE" /\ m.play.owner = s BY <1>1 DEF OwnPlay
  <2>9. /\ \A c : c \in dealt <=> c \in held \/ \E j \in P : c \in q[j].play.cards
        /\ \A j \in P : q[j].play.cards \cap held = {}
        /\ \A i, j \in P : i # j => q[i].play.cards \cap q[j].play.cards = {}
        /\ \A j \in k + 1 .. n : q[j].type # "SETTLED"
    BY <2>5, FollowsPointwise DEF Follows, n
  <2> HIDE DEF P, new
  <2>10. \A j \in P : p[j].play.cards = q[j].play.cards BY <2>2, <2>7
  <2>11. \A j \in k + 1 .. Len(p) : p[j].type # "SETTLED" BY <1>1, <2>1, <2>2, <2>9
  <2>12. CASE OwnPlay(p, s, n + 1)
    <3>1. new = P \cup {n + 1} /\ n + 1 \notin P BY <2>1, <2>6, <2>7, <2>12
    <3>2. p[n + 1].play.cards = lost BY <1>1, <2>8, <2>12
    <3>3. \A c : c \in dealt <=> c \in held \ lost \/ \E j \in new : c \in p[j].play.cards
      BY <2>9, <2>10, <3>1, <3>2
    <3>4. \A j \in new : p[j].play.cards \cap (held \ lost) = {} BY <2>9, <2>10, <3>1, <3>2
    <3>5. \A i, j \in new : i # j => p[i].play.cards \cap p[j].play.cards = {}
      BY <2>9, <2>10, <3>1, <3>2
    <3> QED BY <2>11, <3>3, <3>4, <3>5, FollowsPointwise DEF Follows, new, dealt
  <2>13. CASE ~OwnPlay(p, s, n + 1)
    <3>1. new = P /\ lost = {} BY <2>6, <2>8, <2>13
    <3>2. \A c : c \in dealt <=> c \in held \ lost \/ \E j \in new : c \in p[j].play.cards
      BY <2>9, <2>10, <3>1
    <3> QED BY <2>9, <2>10, <2>11, <3>1, <3>2, FollowsPointwise DEF Follows, new, dealt
  <2> QED BY <2>12, <2>13
<1> QED BY <1>2 DEF Tracks, p

\* Counting from the second message on.
LEMMA FollowsTail ==
  ASSUME NEW q \in Seq(Message), q # << >>, NEW s, NEW k \in Nat, NEW dealt, NEW held,
         Follows(q, s, k + 1, dealt, held)
  PROVE  Follows(Tail(q), s, k, dealt, held)
<1> DEFINE n == Len(q)
           p == Tail(q)
<1>1. n \in Nat \ {0} /\ Len(p) = n - 1 /\ \A j \in 1 .. n - 1 : p[j] = q[j + 1] BY TailFacts
<1> HIDE DEF n, p
<1>2. \A j \in k + 1 .. Len(p) : j + 1 \in (k + 1) + 1 .. n /\ p[j] = q[j + 1] BY <1>1
<1>3. \A i \in (k + 1) + 1 .. n : i - 1 \in k + 1 .. Len(p) /\ p[i - 1] = q[i] BY <1>1
<1>4. \A j \in PlaysAfter(p, s, k) : j + 1 \in PlaysAfter(q, s, k + 1) /\ p[j] = q[j + 1]
  BY <1>2 DEF PlaysAfter, OwnPlay, n
<1>5. \A i \in PlaysAfter(q, s, k + 1) : i - 1 \in PlaysAfter(p, s, k) /\ p[i - 1] = q[i]
  BY <1>3 DEF PlaysAfter, OwnPlay, n
<1>6. \A c : c \in dealt <=> c \in held \/ \E j \in PlaysAfter(p, s, k) : c \in p[j].play.cards
  <2>1. \A c : c \in dealt <=> c \in held \/ \E i \in PlaysAfter(q, s, k + 1) : c \in q[i].play.cards
    BY FollowsPointwise DEF Follows
  <2> QED BY <1>4, <1>5, <2>1
<1>7. \A j \in PlaysAfter(p, s, k) : p[j].play.cards \cap held = {} BY <1>4 DEF Follows
<1>8. \A i, j \in PlaysAfter(p, s, k) : i # j => p[i].play.cards \cap p[j].play.cards = {}
  <2> SUFFICES ASSUME NEW i \in PlaysAfter(p, s, k), NEW j \in PlaysAfter(p, s, k), i # j
               PROVE  p[i].play.cards \cap p[j].play.cards = {}
    OBVIOUS
  <2>1. i \in Int /\ j \in Int BY <1>1 DEF PlaysAfter
  <2>2. i + 1 # j + 1 BY <2>1
  <2> QED BY <1>4, <2>2 DEF Follows
<1>9. \A j \in k + 1 .. Len(p) : p[j].type # "SETTLED" BY <1>2 DEF Follows, n
<1>10. dealt = held \cup UNION {p[j].play.cards : j \in PlaysAfter(p, s, k)}
  BY <1>6, FollowsPointwise
<1>11. Follows(p, s, k, dealt, held) BY <1>7, <1>8, <1>9, <1>10 DEF Follows
<1> QED BY <1>11 DEF p

\* The bot reads the first message, which is not a deal.
LEMMA FollowsRead ==
  ASSUME NEW q \in Seq(Message), q # << >>, NEW s, NEW v, NEW held, Follows(q, s, 0, v, held)
  PROVE  /\ Follows(q, s, 1, IF OwnPlay(q, s, 1) THEN v \ q[1].play.cards ELSE v, held)
         /\ q[1].type # "SETTLED"
<1> DEFINE n == Len(q)
           P == PlaysAfter(q, s, 0)
           rest == PlaysAfter(q, s, 1)
           left == IF OwnPlay(q, s, 1) THEN v \ q[1].play.cards ELSE v
<1>1. n \in Nat \ {0} /\ 0 + 1 .. n = {1} \cup (1 + 1 .. n) /\ 1 \notin 1 + 1 .. n BY TailFacts
<1>2. P = {j \in {1} : OwnPlay(q, s, j)} \cup rest /\ 1 \notin rest
  <2>1. P = {j \in 0 + 1 .. n : OwnPlay(q, s, j)} /\ rest = {j \in 1 + 1 .. n : OwnPlay(q, s, j)}
    BY DEF PlaysAfter
  <2> HIDE DEF P, rest, n
  <2> QED BY <1>1, <2>1
<1>3. /\ \A c : c \in v <=> c \in held \/ \E j \in P : c \in q[j].play.cards
      /\ \A j \in P : q[j].play.cards \cap held = {}
      /\ \A i, j \in P : i # j => q[i].play.cards \cap q[j].play.cards = {}
      /\ \A j \in 0 + 1 .. n : q[j].type # "SETTLED"
  BY FollowsPointwise DEF Follows
<1> HIDE DEF P, rest, n
<1>4. \A c : c \in left <=> c \in held \/ \E j \in rest : c \in q[j].play.cards
  BY <1>2, <1>3
<1> HIDE DEF left
<1>5. /\ \A j \in rest : q[j].play.cards \cap held = {}
      /\ \A i, j \in rest : i # j => q[i].play.cards \cap q[j].play.cards = {}
      /\ \A j \in 1 + 1 .. n : q[j].type # "SETTLED"
      /\ q[1].type # "SETTLED"
  BY <1>1, <1>2, <1>3
<1> QED BY <1>4, <1>5, FollowsPointwise DEF Follows, rest, n, left

\* What the bot believes in after a message (player.go's three handlers).
LEMMA TracksRead ==
  ASSUME NEW q \in Seq(Message), q # << >>, NEW s, NEW v, NEW held, Tracks(q, s, v, held), NEW w,
         q[1].type = "DEALT" => w = q[1].cards,
         OwnPlay(q, s, 1) => w = v \ q[1].play.cards,
         q[1].type \notin {"DEALT", "SETTLED"} /\ ~OwnPlay(q, s, 1) => w = v
  PROVE  Tracks(Tail(q), s, w, held)
<1> DEFINE n == Len(q)
           p == Tail(q)
<1>1. n \in Nat \ {0} /\ Len(p) = n - 1 /\ \A j \in 1 .. n - 1 : p[j] = q[j + 1] BY TailFacts
<1> HIDE DEF n, p
<1>2. ASSUME NEW k \in 0 .. Len(p), LastDeal(p, k)
      PROVE  Follows(p, s, k, IF k = 0 THEN w ELSE p[k].cards, held)
  <2>1. k \in Nat /\ k + 1 \in 0 .. n /\ (k > 0 => p[k] = q[k + 1]) BY <1>1
  <2>2. \A j \in (k + 1) + 1 .. n : q[j].type # "DEALT"
    <3> SUFFICES ASSUME NEW j \in (k + 1) + 1 .. n PROVE q[j].type # "DEALT" OBVIOUS
    <3>1. j - 1 \in k + 1 .. Len(p) /\ p[j - 1] = q[j] BY <1>1
    <3> QED BY <1>2, <3>1 DEF LastDeal
  <2>3. CASE k > 0
    <3>1. q[k + 1].type = "DEALT" BY <1>2, <2>1, <2>3 DEF LastDeal
    <3>2. LastDeal(q, k + 1) BY <2>1, <2>2, <3>1 DEF LastDeal, n
    <3>3. Follows(q, s, k + 1, q[k + 1].cards, held)
      <4>1. k + 1 # 0 BY <2>1
      <4> QED BY <2>1, <3>2, <4>1 DEF Tracks, n
    <3>4. Follows(p, s, k, q[k + 1].cards, held) BY <2>1, <3>3, FollowsTail DEF p
    <3> QED BY <2>1, <2>3, <3>4
  <2>4. CASE k = 0 /\ q[1].type = "DEALT"
    <3>1. LastDeal(q, 1) BY <1>1, <2>2, <2>4 DEF LastDeal, n
    <3>2. Follows(q, s, 0 + 1, w, held) BY <1>1, <2>4, <3>1 DEF Tracks, n
    <3>3. Follows(p, s, 0, w, held) BY <3>2, FollowsTail DEF p
    <3> QED BY <2>4, <3>3
  <2>5. CASE k = 0 /\ q[1].type # "DEALT"
    <3>1. LastDeal(q, 0)
      <4>1. \A j \in 0 + 1 .. n : j = 1 \/ j \in (k + 1) + 1 .. n BY <2>5
      <4> QED BY <1>1, <2>2, <2>5, <4>1 DEF LastDeal, n
    <3>2. Follows(q, s, 0, v, held) BY <1>1, <3>1 DEF Tracks, n
    <3>3. Follows(q, s, 1, w, held) BY <2>5, <3>2, FollowsRead
    <3>4. Follows(q, s, 0 + 1, w, held) BY <3>3
    <3>5. Follows(p, s, 0, w, held) BY <3>4, FollowsTail DEF p
    <3> QED BY <2>5, <3>5
  <2> QED BY <2>1, <2>3, <2>4, <2>5
<1> QED BY <1>2 DEF Tracks, p

----------------------------------------------------------------------------
(* To the room a bot is a client like any other. *)

RoomStep == Next \/ \E b \in Bot, S \in SUBSET Card : HandlePlayCards(b, SortCards(S))

LEMMA SortedList ==
  ASSUME NEW S \in SUBSET Card
  PROVE  /\ SortCards(S) \in Seq(Card)
         /\ {SortCards(S)[k] : k \in DOMAIN SortCards(S)} = S
<1> DEFINE n == Cardinality(S)
           s == SortCards(S)
<1>1. n \in Nat /\ s \in [1 .. n -> S] /\ \A c \in S : \E i \in 1 .. n : s[i] = c
  BY Sorted
<1> HIDE DEF n, s
<1>2. s \in [1 .. n -> Card] BY <1>1
<1>3. s \in Seq(Card) BY <1>1, <1>2, IsASeq
<1>4. {s[k] : k \in DOMAIN s} = S BY <1>1
<1> QED BY <1>3, <1>4 DEF s

\* Only the lobby has an empty seat: where the manager seats a bot, join_room
\* would have.
LEMMA AddedInLobby ==
  ASSUME IInv, NEW b \in Bot, AddBot(b)
  PROVE  phase = "LOBBY" /\ HandleJoinRoom(b) /\ b \in Client
<1>1. phase = "LOBBY" BY DEF AddBot, EmptySeats, IInv, RoomInv, SeatedWhilePlaying
<1> QED BY <1>1, BotAssumption DEF AddBot, HandleJoinRoom

LEMMA BotsStepTheRoom == IInv /\ BotTypes /\ [BotNext]_allVars => [RoomStep]_vars
<1> SUFFICES ASSUME IInv, BotTypes, [BotNext]_allVars PROVE RoomStep \/ UNCHANGED vars
  OBVIOUS
<1>1. Bot \subseteq Client /\ Human \subseteq Client BY BotAssumption DEF Human
<1>2. CASE UNCHANGED allVars BY <1>2 DEF allVars
<1>3. ASSUME NEW c \in Human, HumanMove(c) \/ HumanReady(c) \/ HumanPass(c) PROVE RoomStep
  BY <1>1, <1>3 DEF HumanMove, HumanReady, HumanPass, RoomStep, Next
<1>4. ASSUME NEW c \in Human, NEW list \in Lists, HumanPlay(c, list) PROVE RoomStep
  BY <1>1, <1>4 DEF HumanPlay, RoomStep, Next
<1>5. ASSUME Expire \/ Reset \/ \E i \in Seat : Timeout(i) PROVE RoomStep
  BY <1>5 DEF Expire, Reset, Timeout, RoomStep, Next
<1>6. ASSUME Handle PROVE RoomStep \/ UNCHANGED vars
  <2> DEFINE m == Head(queue)
  <2>1. m \in Request BY <1>6, TailFacts DEF Handle, BotTypes
  <2>2. m.client \in Bot /\ m.client \in Client /\ m.cards \in SUBSET Card BY <1>1, <2>1 DEF Request
  <2>3. \/ UNCHANGED vars
        \/ HandleReady(m.client) \/ HandlePassTurn(m.client)
        \/ HandlePlayCards(m.client, SortCards(m.cards))
    BY <1>6 DEF Handle
  <2> HIDE DEF m
  <2> QED BY <2>2, <2>3 DEF RoomStep, Next
<1>7. ASSUME NEW b \in Bot, AddBot(b) PROVE RoomStep BY <1>7, AddedInLobby DEF RoomStep, Next
<1>8. ASSUME NEW b \in Bot, HandleMessage(b) \/ PlayTurn(b) \/ SendReady(b) PROVE UNCHANGED vars
  BY <1>8 DEF HandleMessage, PlayTurn, SendReady
<1> QED BY <1>2, <1>3, <1>4, <1>5, <1>6, <1>7, <1>8 DEF BotNext, Background

LEMMA RoomStepInv ==
  ASSUME IInv, [RoomStep]_vars
  PROVE  IInv'
<1>1. CASE [Next]_vars BY <1>1, StepInv
<1>2. ASSUME NEW b \in Bot, NEW S \in SUBSET Card, HandlePlayCards(b, SortCards(S)) PROVE IInv'
  <2>1. b \in Client BY BotAssumption
  <2>2. RoomInv' BY <1>2, <2>1, SortedList, PlayInGame DEF IInv
  <2>3. UNCHANGED <<spectators, inRoom, pick>> BY <1>2 DEF HandlePlayCards
  <2> QED BY <2>2, <2>3 DEF IInv, TypeOK, RoomInv
<1> QED BY <1>1, <1>2 DEF RoomStep

----------------------------------------------------------------------------
(* The steps of a room with bots, sorted by what the bots hear of them.    *)

Unmoved == UNCHANGED <<view, last, thinking, readying, crashed>>
QueueMoves == queue' = queue \/ (queue # << >> /\ queue' = Tail(queue))

ReadyMade(c) ==
  /\ HandleReady(c) /\ AfterReady /\ Unmoved
  /\ \/ c \notin Bot /\ queue' = queue
     \/ c \in Bot /\ queue # << >> /\ Head(queue) = ReadyOf(c) /\ queue' = Tail(queue)

PlayMade(c, list) ==
  /\ HandlePlayCards(c, list) /\ AfterPlay({list[k] : k \in DOMAIN list})
  /\ Unmoved /\ QueueMoves

PassMade ==
  /\ phase = "PLAYING" /\ Pass /\ UNCHANGED <<playerVars, inRoom>>
  /\ AfterPass /\ Unmoved /\ QueueMoves

Unheard ==
  /\ \/ UNCHANGED vars \/ TimerExpires \/ ResetRoom
     \/ \E i \in Seat : TurnTimeout(i) /\ ~(phase = "PLAYING" /\ turn = i)
     \/ \E c \in Human : HandleJoinRoom(c) \/ HandleLeaveRoom(c)
  /\ inbox' = inbox /\ Unmoved /\ QueueMoves

ByABot(b) == AddBot(b) \/ HandleMessage(b) \/ PlayTurn(b) \/ SendReady(b)

LEMMA Events ==
  ASSUME BotTypes, BotNext
  PROVE  \/ \E c \in Client : ReadyMade(c)
         \/ \E c \in Client, list \in Seq(Card) : PlayMade(c, list)
         \/ PassMade \/ Unheard
         \/ \E b \in Bot : ByABot(b)
<1>1. Bot \subseteq Client /\ Human \subseteq Client /\ \A c \in Human : c \notin Bot
  BY BotAssumption DEF Human
<1>2. ASSUME NEW c \in Human, HumanReady(c) PROVE ReadyMade(c)
  BY <1>1, <1>2 DEF HumanReady, ReadyMade, RestOfBots, Unmoved
<1>3. ASSUME NEW c \in Human, NEW list \in Lists, HumanPlay(c, list)
      PROVE  list \in Seq(Card) /\ PlayMade(c, list)
  BY <1>3, ListAssumption DEF HumanPlay, PlayMade, RestOfBots, Unmoved, QueueMoves
<1>4. ASSUME NEW c \in Human, HumanPass(c) PROVE PassMade
  BY <1>4 DEF HumanPass, HandlePassTurn, PassMade, RestOfBots, Unmoved, QueueMoves
<1>5. ASSUME NEW c \in Human, HumanMove(c) PROVE Unheard
  BY <1>5 DEF HumanMove, Unheard, botVars, Unmoved, QueueMoves
<1>6. ASSUME Expire \/ Reset PROVE Unheard
  BY <1>6 DEF Expire, Reset, Unheard, botVars, Unmoved, QueueMoves
<1>7. ASSUME NEW i \in Seat, Timeout(i) PROVE PassMade \/ Unheard
  <2>1. CASE phase = "PLAYING" /\ turn = i
    BY <1>7, <2>1 DEF Timeout, TurnTimeout, PassMade, RestOfBots, Unmoved, QueueMoves
  <2>2. CASE ~(phase = "PLAYING" /\ turn = i)
    BY <1>7, <2>2 DEF Timeout, Unheard, RestOfBots, Unmoved, QueueMoves
  <2> QED BY <2>1, <2>2
<1>8. ASSUME Handle
      PROVE  \/ \E c \in Client : ReadyMade(c)
             \/ \E c \in Client, list \in Seq(Card) : PlayMade(c, list)
             \/ PassMade \/ Unheard
  <2> DEFINE m == Head(queue)
  <2>1. m \in Request /\ queue # << >> /\ queue' = Tail(queue) /\ Unmoved /\ QueueMoves
    BY <1>8, TailFacts DEF Handle, BotTypes, Unmoved, QueueMoves
  <2>2. m.client \in Bot /\ m.client \in Client /\ m.cards \in SUBSET Card BY <1>1, <2>1 DEF Request
  <2>3. CASE UNCHANGED <<vars, inbox>> BY <2>1, <2>3 DEF Unheard
  <2>4. CASE m.kind = "READY" /\ HandleReady(m.client) /\ AfterReady
    <3>1. m = ReadyOf(m.client) BY <2>1, <2>4 DEF Request, ReadyOf
    <3> QED BY <2>1, <2>2, <2>4, <3>1 DEF ReadyMade
  <2>5. CASE HandlePassTurn(m.client) /\ AfterPass
    BY <2>1, <2>5 DEF PassMade, HandlePassTurn
  <2>6. CASE HandlePlayCards(m.client, SortCards(m.cards)) /\ AfterPlay(m.cards)
    <3>1. /\ SortCards(m.cards) \in Seq(Card)
          /\ {SortCards(m.cards)[k] : k \in DOMAIN SortCards(m.cards)} = m.cards
      BY <2>2, SortedList
    <3>2. PlayMade(m.client, SortCards(m.cards)) BY <2>1, <2>6, <3>1 DEF PlayMade
    <3> QED BY <2>2, <3>1, <3>2
  <2>7. \/ UNCHANGED <<vars, inbox>>
        \/ m.kind = "READY" /\ HandleReady(m.client) /\ AfterReady
        \/ HandlePassTurn(m.client) /\ AfterPass
        \/ HandlePlayCards(m.client, SortCards(m.cards)) /\ AfterPlay(m.cards)
    BY <1>8 DEF Handle
  <2> QED BY <2>3, <2>4, <2>5, <2>6, <2>7
<1> QED BY <1>1, <1>2, <1>3, <1>4, <1>5, <1>6, <1>7, <1>8 DEF BotNext, Background, ByABot

----------------------------------------------------------------------------
(* Seats. *)

Placed(b) == inRoom'[b] = inRoom[b] /\ SeatsOf(UserOf[b])' = SeatsOf(UserOf[b])

\* Nobody else's coming and going moves a bot: bots share their user with nobody.
LEMMA OthersMove ==
  ASSUME IInv, NEW b \in Bot, NEW c \in Client, c # b, HandleJoinRoom(c) \/ HandleLeaveRoom(c)
  PROVE  Placed(b)
<1>1. b \in Client /\ UserOf[c] # UserOf[b] BY BotAssumption
<1>2. UserOf[c] \in User /\ UserOf[b] \in User /\ UserOf[b] # Nobody BY <1>1, UserAssumption
<1>3. inRoom \in [Client -> BOOLEAN] /\ seat \in [Seat -> User \cup {Nobody}]
  BY DEF IInv, TypeOK, RoomTypeOK
<1>4. inRoom'[b] = inRoom[b] BY <1>1, <1>3 DEF HandleJoinRoom, HandleLeaveRoom
<1>5. CASE EmptySeats # {} /\ TakeSeat(UserOf[c])
  <2>1. SeatsOf(UserOf[b])' = SeatsOf(UserOf[b]) BY <1>1, <1>2, <1>5, TakeSeatEffect
  <2> QED BY <1>4, <2>1 DEF Placed
<1>6. CASE seat' = seat BY <1>4, <1>6 DEF Placed, SeatsOf
<1>7. ASSUME NEW i \in SeatsOf(UserOf[c]), Vacate(i) PROVE Placed(b)
  <2>1. i \in Seat /\ seat[i] # UserOf[b] BY <1>1 DEF SeatsOf
  <2>2. seat' = [seat EXCEPT ![i] = Nobody] BY <1>7 DEF Vacate
  <2>3. SeatsOf(UserOf[b])' = SeatsOf(UserOf[b]) BY <1>2, <1>3, <2>1, <2>2 DEF SeatsOf
  <2> QED BY <1>4, <2>3 DEF Placed
<1> QED BY <1>5, <1>6, <1>7 DEF HandleJoinRoom, HandleLeaveRoom, HandlePlayerLeave, playerVars

LEMMA SeatsStep ==
  ASSUME IInv, BotTypes, BotNext, NEW b \in Bot, BotSeated(b)
  PROVE  /\ BotSeated(b)'
         /\ Placed(b) \/ (AddBot(b) /\ ~inRoom[b] /\ inRoom'[b])
<1>1. b \in Client /\ UserOf[b] \in User BY BotAssumption, UserAssumption
<1>2. ASSUME UNCHANGED <<seat, inRoom>> PROVE Placed(b) BY <1>2 DEF Placed, SeatsOf
<1>3. ASSUME NEW c \in Client, ReadyMade(c) PROVE Placed(b)
  BY <1>2, <1>3 DEF ReadyMade, HandleReady
<1>4. ASSUME NEW c \in Client, NEW list \in Seq(Card), PlayMade(c, list) PROVE Placed(b)
  BY <1>2, <1>4 DEF PlayMade, HandlePlayCards
<1>5. ASSUME PassMade PROVE Placed(b) BY <1>2, <1>5 DEF PassMade, playerVars
<1>6. ASSUME Unheard PROVE Placed(b)
  <2>1. CASE UNCHANGED vars \/ TimerExpires \/ ResetRoom \/ \E i \in Seat : TurnTimeout(i)
    BY <1>2, <2>1 DEF vars, playerVars, TimerExpires, ResetRoom, TurnTimeout
  <2>2. ASSUME NEW c \in Human, HandleJoinRoom(c) \/ HandleLeaveRoom(c) PROVE Placed(b)
    BY <2>2, OthersMove DEF Human
  <2> QED BY <1>6, <2>1, <2>2 DEF Unheard
<1>7. ASSUME NEW c \in Bot, c # b, ByABot(c) PROVE Placed(b)
  <2>1. CASE UNCHANGED vars BY <1>2, <2>1 DEF vars, playerVars
  <2>2. CASE AddBot(c) BY <1>7, <2>2, AddedInLobby, OthersMove
  <2> QED BY <1>7, <2>1, <2>2 DEF ByABot, HandleMessage, PlayTurn, SendReady
<1>8. CASE AddBot(b)
  <2>1. ~inRoom[b] /\ inRoom' = [inRoom EXCEPT ![b] = TRUE] /\ EmptySeats # {} /\ TakeSeat(UserOf[b])
    BY <1>8 DEF AddBot
  <2>2. inRoom'[b] BY <1>1, <2>1 DEF IInv, TypeOK
  <2>3. PICK i \in Seat : SeatsOf(UserOf[b])' = SeatsOf(UserOf[b]) \cup {i}
    BY <1>1, <2>1, TakeSeatEffect
  <2>4. SeatsOf(UserOf[b])' = {i} BY <2>1, <2>3 DEF BotSeated
  <2> QED BY <1>8, <2>1, <2>2, <2>4 DEF BotSeated
<1>9. ASSUME HandleMessage(b) \/ PlayTurn(b) \/ SendReady(b) PROVE Placed(b)
  BY <1>2, <1>9 DEF HandleMessage, PlayTurn, SendReady, vars, playerVars
<1>10. Placed(b) => BotSeated(b)' BY DEF Placed, BotSeated
<1> QED BY <1>3, <1>4, <1>5, <1>6, <1>7, <1>8, <1>9, <1>10, Events DEF ByABot

----------------------------------------------------------------------------
(* What is announced. *)

ToldTwo(b, m, n) ==
  inbox'[b] = IF inRoom[b] THEN Append(Append(inbox[b], m), n) ELSE inbox[b]

LEMMA Telling ==
  ASSUME BotTypes, NEW m \in Message, NEW n \in Message, Tell(<<m, n>>)
  PROVE  inbox' \in [Bot -> Seq(Message)] /\ \A b \in Bot : ToldTwo(b, m, n)
<1>1. \A b \in Bot : inbox[b] \in Seq(Message) BY DEF BotTypes
<1>2. ASSUME NEW b \in Bot PROVE ToldTwo(b, m, n)
  <2>1. inbox[b] \o <<m, n>> = Append(Append(inbox[b], m), n) BY <1>1, TwoMessages
  <2> QED BY <2>1 DEF Tell, ToldTwo
<1>3. \A b \in Bot : Append(Append(inbox[b], m), n) \in Seq(Message) BY <1>1, AppendFacts
<1>4. inbox' = [b \in Bot |-> inbox'[b]] BY DEF Tell
<1> QED BY <1>1, <1>2, <1>3, <1>4 DEF ToldTwo

LEMMA PlayTold ==
  ASSUME IInv, BotTypes, NEW c \in Client, NEW list \in Seq(Card), PlayMade(c, list)
  PROVE  /\ phase = "PLAYING" /\ phase' \in {"PLAYING", "SETTLEMENT"}
         /\ \E m, n \in Message :
              /\ m.type = "MOVE" /\ m.play.owner = turn /\ m.play.cards \subseteq hand[turn]
              /\ hand' = [hand EXCEPT ![turn] = hand[turn] \ m.play.cards]
              /\ IF phase' = "SETTLEMENT" THEN n = Settled ELSE n.type = "TURN"
              /\ Tell(<<m, n>>)
<1> DEFINE cards == {list[k] : k \in DOMAIN list}
           combo == ClassifyCombination(cards)
           m == Moved(turn, cards, combo)
           n == IF phase' = "SETTLEMENT" THEN Settled ELSE TurnChanged
<1>1. /\ phase = "PLAYING" /\ combo # Invalid /\ PlayerOwnsCards(hand[turn], list)
      /\ hand' = [hand EXCEPT ![turn] = hand[turn] \ cards]
      /\ Tell(<<m, n>>)
  BY DEF PlayMade, HandlePlayCards, RemoveCards, AfterPlay
<1>2. RoomInv' /\ PlayEffect BY PlayInGame DEF IInv, PlayMade
<1>3. phase' \in {"PLAYING", "SETTLEMENT"} BY <1>2 DEF PlayEffect
<1>4. turn \in Seat /\ turn' \in Seat /\ hand[turn] \in SUBSET Card
  BY <1>2 DEF IInv, TypeOK, RoomInv, RoomTypeOK
<1>5. cards \subseteq hand[turn] /\ cards \in SUBSET Card BY <1>1, <1>4 DEF PlayerOwnsCards
<1>6. cards # {} /\ combo \in Combo BY <1>1, <1>5, ClassifyNonEmpty, ClassifyType
<1> HIDE DEF cards
<1>7. m \in Message /\ m.type = "MOVE" /\ m.play.owner = turn /\ m.play.cards = cards
  <2>1. [owner |-> turn, cards |-> cards, combo |-> combo] \in Laid
    BY <1>4, <1>5, <1>6 DEF Laid, TablePlay, Lies
  <2> HIDE DEF combo
  <2> QED BY <2>1 DEF Moved, Message
<1>8. n \in Message /\ IF phase' = "SETTLEMENT" THEN n = Settled ELSE n.type = "TURN"
  <2>1. (table' = NoPlay) \in BOOLEAN OBVIOUS
  <2> QED BY <1>4, <2>1 DEF TurnChanged, Turn, Settled, Message
<1> HIDE DEF m, n
<1> QED BY <1>1, <1>3, <1>5, <1>7, <1>8

LEMMA PassTold ==
  ASSUME IInv, BotTypes, PassMade
  PROVE  /\ phase = "PLAYING" /\ phase' = "PLAYING" /\ hand' = hand
         /\ \E m, n \in Message : m.type = "TURN" /\ n.type = "TURN" /\ Tell(<<m, n>>)
<1>1. phase = "PLAYING" /\ phase' = "PLAYING" /\ turn' \in Seat /\ hand' = hand
  BY PassInGame DEF IInv, PassMade, playerVars
<1>2. PassNotice \in Message /\ PassNotice.type = "TURN" BY DEF PassNotice, Turn, Message, Seat
<1>3. TurnChanged \in Message /\ TurnChanged.type = "TURN"
  <2>1. (table' = NoPlay) \in BOOLEAN OBVIOUS
  <2> QED BY <1>1, <2>1 DEF TurnChanged, Turn, Message
<1>4. Tell(<<PassNotice, TurnChanged>>) BY DEF PassMade, AfterPass
<1> QED BY <1>1, <1>2, <1>3, <1>4

\* Getting ready starts the game, or changes the readiness of one client.
LEMMA ReadyTold ==
  ASSUME IInv, BotTypes, NEW c \in Client, ReadyMade(c)
  PROVE  LET i == Lowest(SeatsOf(UserOf[c])) IN
         /\ phase = "LOBBY" /\ inRoom[c] /\ i \in SeatsOf(UserOf[c])
         /\ UNCHANGED <<seat, inRoom, resets>>
         /\ \/ /\ phase' = "LOBBY" /\ inbox' = inbox
               /\ ready' = [ready EXCEPT ![i] = ~ready[i]]
            \/ /\ phase' = "PLAYING" /\ Deal
               /\ \A j \in Seat \ {i} : seat[j] # Nobody /\ ready[j]
<1> DEFINE i == Lowest(SeatsOf(UserOf[c]))
           toggled == [ready EXCEPT ![i] = ~ready[i]]
<1>1. /\ phase = "LOBBY" /\ inRoom[c] /\ SeatsOf(UserOf[c]) # {} /\ UNCHANGED <<seat, inRoom, resets>>
      /\ \/ AllPlayersReady(toggled) /\ StartGame
         \/ ready' = toggled /\ phase' = phase
  BY DEF ReadyMade, HandleReady
<1>2. i \in SeatsOf(UserOf[c]) /\ ready \in [Seat -> BOOLEAN]
  BY <1>1, LowestSeat DEF SeatsOf, IInv, TypeOK, RoomTypeOK
<1> HIDE DEF i
<1>3. CASE ready' = toggled /\ phase' = phase
  BY <1>1, <1>2, <1>3 DEF ReadyMade, AfterReady, i
<1>4. CASE AllPlayersReady(toggled) /\ StartGame
  <2>1. phase' = "PLAYING" BY <1>4 DEF StartGame
  <2>2. \A j \in Seat \ {i} : seat[j] # Nobody /\ ready[j] BY <1>2, <1>4 DEF AllPlayersReady
  <2> QED BY <1>1, <1>2, <2>1, <2>2 DEF ReadyMade, AfterReady, i
<1> QED BY <1>1, <1>3, <1>4

----------------------------------------------------------------------------
(* Types. *)

LEMMA BagFacts ==
  \A B, t : /\ DOMAIN (B (+) SetToBag({t})) = DOMAIN B \cup {t}
            /\ DOMAIN (B (-) SetToBag({t})) \subseteq DOMAIN B
            /\ BagToSet(B) = DOMAIN B
  BY DEF (+), (-), SetToBag, BagToSet

\* What the bot's goroutine starts to think about.
LEMMA ThinkingTypes ==
  ASSUME BotTypes, NEW b \in Bot, NEW t \in Laid \cup {NoPlay}, StartThinking(b, t)
  PROVE  /\ thinking' = [a \in Bot |-> thinking'[a]]
         /\ \A a \in Bot : DOMAIN thinking'[a] \subseteq Laid \cup {NoPlay}
<1>1. /\ thinking = [a \in Bot |-> thinking[a]]
      /\ thinking' = [thinking EXCEPT ![b] = thinking[b] (+) SetToBag({t})]
      /\ \A a \in Bot : DOMAIN thinking[a] \subseteq Laid \cup {NoPlay}
  BY DEF BotTypes, StartThinking
<1>2. PICK B : B = thinking[b] (+) SetToBag({t}) OBVIOUS
<1>3. DOMAIN B \subseteq Laid \cup {NoPlay}
  <2>1. DOMAIN (thinking[b] (+) SetToBag({t})) = DOMAIN thinking[b] \cup {t} BY BagFacts
  <2> QED BY <1>1, <1>2, <2>1
<1>4. thinking' = [a \in Bot |-> IF a = b THEN B ELSE thinking[a]] BY <1>1, <1>2
<1> QED BY <1>1, <1>3, <1>4

LEMMA ReadTypes ==
  ASSUME BotTypes, NEW b \in Bot, HandleMessage(b)
  PROVE  BotTypes'
<1> DEFINE m == Head(inbox[b])
           Started == /\ thinking' = [a \in Bot |-> thinking'[a]]
                      /\ \A a \in Bot : DOMAIN thinking'[a] \subseteq Laid \cup {NoPlay}
<1>1. /\ inbox \in [Bot -> Seq(Message)] /\ view \in [Bot -> SUBSET Card]
      /\ last \in [Bot -> Laid \cup {NoPlay}] /\ readying \in [Bot -> Nat]
      /\ queue' \in Seq(Request) /\ crashed' \in BOOLEAN
  BY DEF BotTypes, HandleMessage
<1>2. inbox[b] # << >> /\ m \in Message /\ Tail(inbox[b]) \in Seq(Message)
  BY <1>1, TailFacts DEF HandleMessage
<1>3. inbox' \in [Bot -> Seq(Message)] BY <1>1, <1>2 DEF HandleMessage
<1>5. \/ m.type = "DEALT" /\ OnCardDealt(b, m)
      \/ m.type = "MOVE" /\ OnMovePlayed(b, m)
      \/ m.type = "TURN" /\ OnTurnChange(b, m)
      \/ m.type = "SETTLED" /\ OnSettlement(b)
  BY DEF HandleMessage
<1>6. /\ m.type = "DEALT" => m.cards \in SUBSET Card
      /\ m.type = "MOVE" => m.play \in Laid
  BY <1>2 DEF Message
<1> HIDE DEF m
<1>7. Started
  <2>1. ASSUME UNCHANGED thinking PROVE Started BY <2>1 DEF BotTypes
  <2>2. ASSUME NEW t \in Laid \cup {NoPlay}, StartThinking(b, t) PROVE Started
    BY <2>2, ThinkingTypes
  <2>3. last[b] \in Laid \cup {NoPlay} BY <1>1
  <2>4. CASE m.type = "TURN" /\ OnTurnChange(b, m)
    BY <2>1, <2>2, <2>3, <2>4 DEF OnTurnChange
  <2> QED BY <1>5, <2>1, <2>2, <2>4 DEF OnCardDealt, OnMovePlayed, OnSettlement
<1>8. view' \in [Bot -> SUBSET Card]
  <2>1. view[b] \in SUBSET Card BY <1>1
  <2> QED BY <1>1, <1>5, <1>6, <2>1 DEF OnCardDealt, OnMovePlayed, OnTurnChange, OnSettlement, RemoveCards
<1>9. last' \in [Bot -> Laid \cup {NoPlay}]
  BY <1>1, <1>5, <1>6 DEF OnCardDealt, OnMovePlayed, OnTurnChange, OnSettlement
<1>10. readying' \in [Bot -> Nat]
  <2>1. readying[b] + 1 \in Nat BY <1>1
  <2> QED BY <1>1, <1>5, <2>1 DEF OnCardDealt, OnMovePlayed, OnTurnChange, OnSettlement
<1> QED BY <1>1, <1>3, <1>7, <1>8, <1>9, <1>10 DEF BotTypes

\* What a bot sends is a play of cards it believes in, or a pass, or "ready".
LEMMA PlayTurnTypes ==
  ASSUME BotTypes, NEW b \in Bot, PlayTurn(b)
  PROVE  BotTypes' /\ \/ queue' = queue
                      \/ \E o \in Request : o.kind # "READY" /\ queue' = Append(queue, o)
<1>0. PICK t \in BagToSet(thinking[b]) :
        /\ thinking' = [thinking EXCEPT ![b] = thinking[b] (-) SetToBag({t})]
        /\ \E p \in ChoosePlay(view[b], t, DiffOf[b]) :
             IF p = Panic THEN crashed' = TRUE /\ UNCHANGED queue
                          ELSE SendPlay(b, p) /\ UNCHANGED crashed
  BY DEF PlayTurn
<1>1. PICK p \in ChoosePlay(view[b], t, DiffOf[b]) :
        IF p = Panic THEN crashed' = TRUE /\ UNCHANGED queue
                     ELSE SendPlay(b, p) /\ UNCHANGED crashed
  BY <1>0
<1>2. /\ thinking = [a \in Bot |-> thinking[a]] /\ view[b] \subseteq Card
      /\ \A a \in Bot : DOMAIN thinking[a] \subseteq Laid \cup {NoPlay}
      /\ queue \in Seq(Request) /\ crashed \in BOOLEAN
      /\ inbox' \in [Bot -> Seq(Message)] /\ view' \in [Bot -> SUBSET Card]
      /\ last' \in [Bot -> Laid \cup {NoPlay}] /\ readying' \in [Bot -> Nat]
  BY DEF BotTypes, PlayTurn
<1>3. t = NoPlay \/ Lies(t) BY <1>0, <1>2, BagFacts DEF Laid
<1>4. p = PassTurn \/ p = Panic \/ Proper(view[b], p)
  <2>1. DiffOf[b] \in Difficulty BY BotAssumption
  <2> QED BY <1>1, <1>2, <1>3, <2>1, ChoiceOfPlay
<1>5. /\ thinking' = [a \in Bot |-> thinking'[a]]
      /\ \A a \in Bot : DOMAIN thinking'[a] \subseteq Laid \cup {NoPlay}
  <2>1. PICK B : B = thinking[b] (-) SetToBag({t}) OBVIOUS
  <2>2. DOMAIN B \subseteq DOMAIN thinking[b] BY <2>1, BagFacts
  <2>3. thinking' = [a \in Bot |-> IF a = b THEN B ELSE thinking[a]] BY <1>0, <1>2, <2>1
  <2> QED BY <1>2, <2>2, <2>3
<1>6. queue' = queue \/ \E o \in Request : o.kind # "READY" /\ queue' = Append(queue, o)
  <2>1. CASE p = Panic BY <1>1, <2>1
  <2>2. CASE p # Panic
    <3> DEFINE o == [client |-> b, kind |-> IF p = PassTurn THEN "PASS" ELSE "PLAY", cards |-> p.cards]
    <3>1. queue' = Append(queue, o) BY <1>1, <2>2 DEF SendPlay, Send
    <3>2. CASE p = PassTurn
      <4>1. o = [client |-> b, kind |-> "PASS", cards |-> {}] BY <3>2 DEF PassTurn, PlayOf
      <4> QED BY <3>1, <4>1 DEF Request
    <3>3. CASE p # PassTurn
      <4>1. Proper(view[b], p) BY <1>4, <2>2, <3>3
      <4>2. p.cards \in SUBSET Card /\ p.cards # {} BY <1>2, <4>1 DEF Proper
      <4> QED BY <3>1, <3>3, <4>2 DEF Request
    <3> QED BY <3>2, <3>3
  <2> QED BY <2>1, <2>2
<1>7. queue' \in Seq(Request)
  <2>1. \A o \in Request : Append(queue, o) \in Seq(Request) BY <1>2, AppendFacts
  <2> QED BY <1>2, <1>6, <2>1
<1>8. crashed' \in BOOLEAN BY <1>1, <1>2
<1> QED BY <1>2, <1>5, <1>6, <1>7, <1>8 DEF BotTypes

LEMMA TypesStep ==
  ASSUME IInv, BotTypes, \A b \in Bot : BotSeated(b), BotNext, IInv'
  PROVE  BotTypes'
<1>1. ASSUME Unmoved, QueueMoves, inbox' \in [Bot -> Seq(Message)] PROVE BotTypes'
  <2>1. queue' \in Seq(Request) BY <1>1, TailFacts DEF QueueMoves, BotTypes
  <2> QED BY <1>1, <2>1 DEF Unmoved, BotTypes
<1>2. ASSUME NEW c \in Client, ReadyMade(c) PROVE BotTypes'
  <2>1. Unmoved /\ QueueMoves BY <1>2 DEF ReadyMade, QueueMoves
  <2>2. CASE inbox' = inbox BY <1>1, <2>1, <2>2 DEF BotTypes
  <2>3. CASE Deal
    <3>1. hand' \in [Seat -> SUBSET Card] /\ turn' \in Seat BY DEF IInv, TypeOK, RoomTypeOK
    <3>2. ASSUME NEW b \in Bot, inRoom[b]
          PROVE  Append(inbox[b], Dealt(hand'[SeatOf(b)], turn')) \in Seq(Message)
      <4>1. SeatOf(b) \in Seat BY <3>2, LowestSeat DEF BotSeated, SeatOf, SeatsOf
      <4>2. Dealt(hand'[SeatOf(b)], turn') \in Message BY <3>1, <4>1 DEF Dealt, Message
      <4>3. inbox[b] \in Seq(Message) BY DEF BotTypes
      <4> QED BY <4>2, <4>3, AppendFacts
    <3>3. \A b \in Bot : inbox[b] \in Seq(Message) BY DEF BotTypes
    <3>4. inbox' \in [Bot -> Seq(Message)] BY <2>3, <3>2, <3>3 DEF Deal
    <3> QED BY <1>1, <2>1, <3>4
  <2> QED BY <1>2, <2>2, <2>3, ReadyTold
<1>3. ASSUME NEW c \in Client, NEW list \in Seq(Card), PlayMade(c, list) PROVE BotTypes'
  <2>1. PICK m \in Message, n \in Message : Tell(<<m, n>>) BY <1>3, PlayTold
  <2> QED BY <1>1, <1>3, <2>1, Telling DEF PlayMade
<1>4. ASSUME PassMade PROVE BotTypes'
  <2>1. PICK m \in Message, n \in Message : Tell(<<m, n>>) BY <1>4, PassTold
  <2> QED BY <1>1, <1>4, <2>1, Telling DEF PassMade
<1>5. ASSUME Unheard PROVE BotTypes' BY <1>1, <1>5 DEF Unheard, BotTypes
<1>6. ASSUME NEW b \in Bot, AddBot(b) PROVE BotTypes' BY <1>6 DEF AddBot, BotTypes
<1>7. ASSUME NEW b \in Bot, SendReady(b) PROVE BotTypes'
  <2>1. [client |-> b, kind |-> "READY", cards |-> {}] \in Request BY DEF Request
  <2>2. queue' \in Seq(Request) BY <1>7, <2>1, AppendFacts DEF SendReady, Send, BotTypes
  <2>3. readying' \in [Bot -> Nat] BY <1>7 DEF SendReady, BotTypes
  <2> QED BY <1>7, <2>2, <2>3 DEF SendReady, BotTypes
<1> QED BY <1>2, <1>3, <1>4, <1>5, <1>6, <1>7, Events, ReadTypes, PlayTurnTypes DEF ByABot

----------------------------------------------------------------------------
(* "ready". *)

\* q became p, and x did not come into it.
Keeps(q, p, x) == (Lacks(q, x) => Lacks(p, x)) /\ (AtMostOnce(q, x) => AtMostOnce(p, x))

LEMMA KeepsTwo ==
  ASSUME NEW q \in Seq(Message), NEW m \in Message, NEW n \in Message, NEW x, m # x, n # x
  PROVE  Keeps(q, Append(q, m), x) /\ Keeps(q, Append(Append(q, m), n), x)
<1>1. Append(q, m) \in Seq(Message) BY AppendFacts
<1>2. \A p \in Seq(Message), e \in Message : e # x => Keeps(p, Append(p, e), x)
  BY LacksAppend, OnceAppend DEF Keeps
<1>3. Keeps(q, Append(q, m), x) /\ Keeps(Append(q, m), Append(Append(q, m), n), x) BY <1>1, <1>2
<1> QED BY <1>3 DEF Keeps

LEMMA KeepsQueue ==
  ASSUME BotTypes, QueueMoves, NEW x
  PROVE  Keeps(queue, queue', x)
<1>1. queue \in Seq(Request) BY DEF BotTypes
<1>2. CASE queue' = queue BY <1>2 DEF Keeps
<1>3. CASE queue # << >> /\ queue' = Tail(queue)
  <2>1. Keeps(queue, Tail(queue), x) BY <1>1, <1>3, LacksTail DEF Keeps
  <2> QED BY <1>3, <2>1
<1> QED BY <1>2, <1>3 DEF QueueMoves

LEMMA NothingIsOne == \A b \in Bot : NothingPending(b) => OnePending(b)
  BY DEF NothingPending, OnePending, Lacks, AtMostOnce

LEMMA PendingKept ==
  ASSUME NEW b \in Bot, readying'[b] = readying[b],
         Keeps(queue, queue', ReadyOf(b)), Keeps(inbox[b], inbox'[b], Settled)
  PROVE  /\ OnePending(b) => OnePending(b)'
         /\ NothingPending(b) => NothingPending(b)'
<1>1. ReadyOf(b)' = ReadyOf(b) /\ Settled' = Settled BY DEF ReadyOf, Settled
<1> HIDE DEF ReadyOf, Settled
<1> QED BY <1>1 DEF Keeps, OnePending, NothingPending, Lacks, AtMostOnce

LEMMA BusyKept ==
  ASSUME NEW b \in Bot, Placed(b),
         \/ phase' = phase /\ \A j \in SeatsOf(UserOf[b]) : ready'[j] => ready[j]
         \/ phase' = "LOBBY" /\ \A j \in Seat : ~ready'[j]
  PROVE  IsReadyOrBusy(b)' => IsReadyOrBusy(b)
<1>1. SeatsOf(UserOf[b])' \subseteq Seat BY DEF SeatsOf
<1> QED BY <1>1 DEF Placed, IsReadyOrBusy

\* Every bot in the room is dealt the cards of its one seat.
LEMMA DealTold ==
  ASSUME IInv', BotTypes, Deal, NEW b \in Bot, BotSeated(b)
  PROVE  IF inRoom[b]
         THEN \E s \in Seat :
                /\ SeatsOf(UserOf[b]) = {s} /\ hand'[s] \in SUBSET Card /\ turn' \in Seat
                /\ Dealt(hand'[s], turn') \in Message
                /\ inbox'[b] = Append(inbox[b], Dealt(hand'[s], turn'))
         ELSE inbox'[b] = inbox[b]
<1>1. hand' \in [Seat -> SUBSET Card] /\ turn' \in Seat BY DEF IInv, TypeOK, RoomTypeOK
<1>2. CASE inRoom[b]
  <2>1. PICK s \in Seat : SeatsOf(UserOf[b]) = {s} BY <1>2 DEF BotSeated
  <2>2. SeatOf(b) = s BY <2>1, LowestSeat DEF SeatOf
  <2>3. hand'[s] \in SUBSET Card BY <1>1
  <2>4. Dealt(hand'[s], turn') \in Message BY <1>1, <2>3 DEF Dealt, Message
  <2>5. inbox'[b] = Append(inbox[b], Dealt(hand'[s], turn')) BY <1>2, <2>2 DEF Deal
  <2> QED BY <1>1, <1>2, <2>1, <2>3, <2>4, <2>5
<1>3. CASE ~inRoom[b] BY <1>3 DEF Deal
<1> QED BY <1>2, <1>3

\* "ready" is handled: the bot that sent it has sent nothing else, and when a
\* game starts every bot was ready.
LEMMA ReadyMadeOnce ==
  ASSUME IInv, IInv', BotTypes, NEW b \in Bot, BotSeated(b), ReadyOnce(b), Placed(b),
         NEW c \in Client, ReadyMade(c)
  PROVE  ReadyOnce(b)'
<1> DEFINE i == Lowest(SeatsOf(UserOf[c]))
<1>1. /\ phase = "LOBBY" /\ inRoom[c] /\ i \in SeatsOf(UserOf[c])
      /\ UNCHANGED <<seat, inRoom, resets>>
      /\ \/ /\ phase' = "LOBBY" /\ inbox' = inbox
            /\ ready' = [ready EXCEPT ![i] = ~ready[i]]
         \/ /\ phase' = "PLAYING" /\ Deal
            /\ \A j \in Seat \ {i} : seat[j] # Nobody /\ ready[j]
  BY ReadyTold
<1> HIDE DEF i
<1>2. readying'[b] = readying[b] /\ QueueMoves BY DEF ReadyMade, Unmoved, QueueMoves
<1>3. Keeps(queue, queue', ReadyOf(b)) BY <1>2, KeepsQueue
<1>4. Keeps(inbox[b], inbox'[b], Settled)
  <2>1. CASE inbox'[b] = inbox[b] BY <2>1 DEF Keeps
  <2>2. ASSUME NEW h, NEW t, Dealt(h, t) \in Message, inbox'[b] = Append(inbox[b], Dealt(h, t))
        PROVE  Keeps(inbox[b], inbox'[b], Settled)
    <3>1. Dealt(h, t) # Settled /\ inbox[b] \in Seq(Message) BY DEF Dealt, Settled, BotTypes
    <3> QED BY <2>2, <3>1, KeepsTwo
  <2> QED BY <1>1, <2>1, <2>2, DealTold
<1>5. CASE c # b
  <2>1. UserOf[c] # UserOf[b] BY <1>5, BotAssumption
  <2>2. i \notin SeatsOf(UserOf[b]) BY <1>1, <2>1 DEF SeatsOf
  <2>3. CASE phase' = "LOBBY" /\ ready' = [ready EXCEPT ![i] = ~ready[i]]
    <3>1. \A j \in SeatsOf(UserOf[b]) : ready'[j] = ready[j]
      BY <2>2, <2>3 DEF IInv, TypeOK, RoomTypeOK, SeatsOf
    <3>2. IsReadyOrBusy(b)' => IsReadyOrBusy(b) BY <1>1, <2>3, <3>1, BusyKept
    <3> QED BY <1>2, <1>3, <1>4, <3>2, PendingKept DEF ReadyOnce
  <2>4. CASE \A j \in Seat \ {i} : seat[j] # Nobody /\ ready[j]
    <3>1. IsReadyOrBusy(b)
      <4>1. CASE ~inRoom[b] BY <4>1 DEF IsReadyOrBusy
      <4>2. CASE inRoom[b]
        <5>1. PICK s \in Seat : SeatsOf(UserOf[b]) = {s} BY <4>2 DEF BotSeated
        <5>2. ready[s] BY <2>2, <2>4, <5>1
        <5> QED BY <1>1, <5>1, <5>2 DEF IsReadyOrBusy
      <4> QED BY <4>1, <4>2
    <3>2. NothingPending(b)' BY <1>2, <1>3, <1>4, <3>1, PendingKept DEF ReadyOnce
    <3>3. OnePending(b)' BY <3>2 DEF NothingPending, OnePending, Lacks, AtMostOnce
    <3> QED BY <3>2, <3>3 DEF ReadyOnce
  <2> QED BY <1>1, <2>3, <2>4
<1>6. CASE c = b
  <2>1. queue # << >> /\ Head(queue) = ReadyOf(b) /\ queue' = Tail(queue) BY <1>6 DEF ReadyMade
  <2>2. queue \in Seq(Request) BY DEF BotTypes
  <2>3. ~Lacks(queue, ReadyOf(b)) BY <2>1, <2>2, LacksTail
  <2>4. readying[b] = 0 /\ AtMostOnce(queue, ReadyOf(b)) /\ Lacks(inbox[b], Settled)
    BY <2>3 DEF ReadyOnce, OnePending
  <2>5. Lacks(queue', ReadyOf(b)) BY <2>1, <2>2, <2>4, LacksTail
  <2>6. Lacks(inbox'[b], Settled) BY <1>4, <2>4 DEF Keeps
  <2>7. NothingPending(b)'
    <3>1. ReadyOf(b)' = ReadyOf(b) /\ Settled' = Settled BY DEF ReadyOf, Settled
    <3> QED BY <1>2, <2>4, <2>5, <2>6, <3>1 DEF NothingPending, Lacks
  <2>8. OnePending(b)' BY <2>7 DEF NothingPending, OnePending, Lacks, AtMostOnce
  <2> QED BY <2>7, <2>8 DEF ReadyOnce
<1> QED BY <1>5, <1>6

\* The bot reads its channel: a settlement is what makes it get ready.
LEMMA ReadOnce ==
  ASSUME BotTypes, NEW b \in Bot, ReadyOnce(b), Placed(b), HandleMessage(b)
  PROVE  ReadyOnce(b)'
<1> DEFINE m == Head(inbox[b])
<1>1. /\ UNCHANGED <<vars, queue>> /\ inbox[b] # << >> /\ inbox'[b] = Tail(inbox[b])
      /\ inbox[b] \in Seq(Message) /\ m \in Message
  BY TailFacts DEF HandleMessage, BotTypes
<1>2. /\ m.type = "SETTLED" => readying' = [readying EXCEPT ![b] = readying[b] + 1]
      /\ m.type # "SETTLED" => readying' = readying
  BY DEF HandleMessage, OnCardDealt, OnMovePlayed, OnTurnChange, OnSettlement
<1>3. m = Settled <=> m.type = "SETTLED" BY <1>1 DEF Message, Settled
<1> HIDE DEF m
<1>4. IsReadyOrBusy(b)' => IsReadyOrBusy(b) BY <1>1, BusyKept DEF vars, playerVars
<1>5. CASE m # Settled
  <2>1. Keeps(inbox[b], inbox'[b], Settled) BY <1>1, LacksTail DEF Keeps
  <2>2. Keeps(queue, queue', ReadyOf(b)) BY <1>1 DEF Keeps
  <2>3. readying'[b] = readying[b] BY <1>2, <1>3, <1>5
  <2> QED BY <1>4, <2>1, <2>2, <2>3, PendingKept DEF ReadyOnce
<1>6. CASE m = Settled
  <2>1. ~Lacks(inbox[b], Settled) BY <1>1, <1>6, LacksTail DEF m
  <2>2. readying[b] = 0 /\ Lacks(queue, ReadyOf(b)) /\ AtMostOnce(inbox[b], Settled)
    BY <2>1 DEF ReadyOnce, OnePending
  <2>3. Lacks(inbox'[b], Settled) BY <1>1, <1>6, <2>2, LacksTail DEF m
  <2>4. readying'[b] = 1 BY <1>2, <1>3, <1>6, <2>2 DEF BotTypes
  <2>5. Lacks(queue', ReadyOf(b)) BY <1>1, <2>2
  <2>6. OnePending(b)'
    <3>1. ReadyOf(b)' = ReadyOf(b) /\ Settled' = Settled BY DEF ReadyOf, Settled
    <3> QED BY <2>3, <2>4, <2>5, <3>1 DEF OnePending
  <2>7. ~IsReadyOrBusy(b)' BY <1>4, <2>1 DEF ReadyOnce, NothingPending
  <2> QED BY <2>6, <2>7 DEF ReadyOnce
<1> QED BY <1>5, <1>6

LEMMA ReadyStep ==
  ASSUME IInv, IInv', BotTypes, BotNext, NEW b \in Bot, BotSeated(b), ReadyOnce(b)
  PROVE  ReadyOnce(b)'
<1>1. /\ BotSeated(b)' /\ inbox[b] \in Seq(Message) /\ queue \in Seq(Request)
      /\ Placed(b) \/ (AddBot(b) /\ ~inRoom[b] /\ inRoom'[b])
  BY SeatsStep DEF BotTypes
<1>2. ASSUME readying'[b] = readying[b], Keeps(queue, queue', ReadyOf(b)),
             Keeps(inbox[b], inbox'[b], Settled), IsReadyOrBusy(b)' => IsReadyOrBusy(b)
      PROVE  ReadyOnce(b)'
  BY <1>2, PendingKept DEF ReadyOnce
<1>3. \A q, x : Keeps(q, q, x) BY DEF Keeps
<1>4. QueueMoves => Keeps(queue, queue', ReadyOf(b)) BY KeepsQueue
<1>5. ASSUME NEW c \in Client, ReadyMade(c) PROVE ReadyOnce(b)'
  <2>1. Placed(b)
    <3>1. inRoom' = inRoom BY <1>5, ReadyTold
    <3> QED BY <1>1, <3>1
  <2> QED BY <1>5, <2>1, ReadyMadeOnce
<1>6. ASSUME NEW c \in Client, NEW list \in Seq(Card), PlayMade(c, list) PROVE ReadyOnce(b)'
  <2>1. PICK m \in Message, n \in Message :
          /\ m.type = "MOVE"
          /\ IF phase' = "SETTLEMENT" THEN n = Settled ELSE n.type = "TURN"
          /\ Tell(<<m, n>>)
    BY <1>6, PlayTold
  <2>2. phase = "PLAYING" /\ phase' \in {"PLAYING", "SETTLEMENT"} BY <1>6, PlayTold
  <2>3. ToldTwo(b, m, n) /\ m # Settled BY <2>1, Telling DEF Settled
  <2>4. readying'[b] = readying[b] /\ inRoom' = inRoom /\ QueueMoves
    BY <1>6 DEF PlayMade, Unmoved, HandlePlayCards
  <2>5. NothingPending(b) BY <2>2 DEF ReadyOnce, IsReadyOrBusy
  <2>6. CASE inbox'[b] = inbox[b]
    BY <1>2, <1>3, <1>4, <2>2, <2>4, <2>5, <2>6, PendingKept, NothingIsOne DEF IsReadyOrBusy, ReadyOnce
  <2>7. CASE inbox'[b] = Append(Append(inbox[b], m), n) /\ n # Settled
    <3>1. Keeps(inbox[b], inbox'[b], Settled) BY <1>1, <2>3, <2>7, KeepsTwo
    <3> QED BY <1>2, <1>4, <2>2, <2>4, <3>1 DEF IsReadyOrBusy
  <2>8. CASE inRoom[b] /\ inbox'[b] = Append(Append(inbox[b], m), n) /\ n = Settled
    <3>1. phase' = "SETTLEMENT" BY <2>1, <2>8 DEF Settled
    <3>2. ~IsReadyOrBusy(b)' BY <2>4, <2>8, <3>1 DEF IsReadyOrBusy
    <3>3. Lacks(inbox[b], Settled) /\ Lacks(queue, ReadyOf(b)) /\ readying[b] = 0
      BY <2>5 DEF NothingPending
    <3>4. Append(inbox[b], m) \in Seq(Message) /\ Lacks(Append(inbox[b], m), Settled)
      BY <1>1, <2>3, <3>3, AppendFacts, LacksAppend
    <3>5. AtMostOnce(inbox'[b], Settled) BY <2>8, <3>4, LacksAppend
    <3>6. Lacks(queue', ReadyOf(b)) BY <1>4, <2>4, <3>3 DEF Keeps
    <3>7. ReadyOf(b)' = ReadyOf(b) /\ Settled' = Settled BY DEF ReadyOf, Settled
    <3>8. OnePending(b)' BY <2>4, <3>3, <3>5, <3>6, <3>7 DEF OnePending
    <3> QED BY <3>2, <3>8 DEF ReadyOnce
  <2> QED BY <2>3, <2>6, <2>7, <2>8 DEF ToldTwo
<1>7. ASSUME PassMade PROVE ReadyOnce(b)'
  <2>1. PICK m \in Message, n \in Message : m.type = "TURN" /\ n.type = "TURN" /\ Tell(<<m, n>>)
    BY <1>7, PassTold
  <2>2. phase = "PLAYING" BY <1>7, PassTold
  <2>3. ToldTwo(b, m, n) /\ m # Settled /\ n # Settled BY <2>1, Telling DEF Settled
  <2>4. Keeps(inbox[b], inbox'[b], Settled) BY <1>1, <1>3, <2>3, KeepsTwo DEF ToldTwo
  <2>5. readying'[b] = readying[b] /\ QueueMoves BY <1>7 DEF PassMade, Unmoved
  <2> QED BY <1>2, <1>4, <2>2, <2>4, <2>5 DEF IsReadyOrBusy
<1>8. ASSUME Unheard PROVE ReadyOnce(b)'
  <2>1. readying'[b] = readying[b] /\ QueueMoves /\ inbox'[b] = inbox[b] BY <1>8 DEF Unheard, Unmoved
  <2>2. SeatsOf(UserOf[b]) \subseteq Seat /\ ready \in [Seat -> BOOLEAN]
    BY DEF SeatsOf, IInv, TypeOK, RoomTypeOK
  <2>3. Placed(b) BY <1>1, <1>8 DEF Unheard, AddBot, Unmoved, BotTypes
  <2>4. ASSUME phase' = phase, ready' = ready PROVE IsReadyOrBusy(b)' => IsReadyOrBusy(b)
    BY <2>3, <2>4, BusyKept
  <2>5. ASSUME ResetRoom PROVE IsReadyOrBusy(b)' => IsReadyOrBusy(b)
    BY <2>3, <2>5, BusyKept DEF ResetRoom
  <2>6. ASSUME NEW c \in Human, HandleJoinRoom(c) PROVE IsReadyOrBusy(b)' => IsReadyOrBusy(b)
    <3>1. ASSUME TakeSeat(UserOf[c]) PROVE \A j \in Seat : ready'[j] => ready[j]
      BY <2>2, <3>1 DEF TakeSeat
    <3>2. phase' = phase /\ \A j \in Seat : ready'[j] => ready[j]
      BY <2>6, <3>1 DEF HandleJoinRoom, playerVars
    <3> QED BY <2>2, <2>3, <3>2, BusyKept
  <2>7. ASSUME NEW c \in Human, HandleLeaveRoom(c) PROVE IsReadyOrBusy(b)' => IsReadyOrBusy(b)
    <3>1. ASSUME NEW i \in Seat, Vacate(i)
          PROVE  \/ phase' = phase /\ \A j \in Seat : ready'[j] => ready[j]
                 \/ phase' = "LOBBY" /\ \A j \in Seat : ~ready'[j]
      BY <2>2, <3>1 DEF Vacate
    <3>2. \/ phase' = phase /\ \A j \in Seat : ready'[j] => ready[j]
          \/ phase' = "LOBBY" /\ \A j \in Seat : ~ready'[j]
      BY <2>7, <3>1 DEF HandleLeaveRoom, HandlePlayerLeave, SeatsOf, playerVars
    <3> QED BY <2>2, <2>3, <3>2, BusyKept
  <2>8. ASSUME UNCHANGED vars \/ TimerExpires \/ \E i \in Seat : TurnTimeout(i) /\ ~(phase = "PLAYING" /\ turn = i)
        PROVE  phase' = phase /\ ready' = ready
    BY <2>8 DEF vars, TimerExpires, TurnTimeout, playerVars
  <2>9. IsReadyOrBusy(b)' => IsReadyOrBusy(b)
    BY <1>8, <2>4, <2>5, <2>6, <2>7, <2>8 DEF Unheard
  <2> QED BY <1>2, <1>3, <1>4, <2>1, <2>9
<1>9. ASSUME NEW c \in Bot, AddBot(c), c # b PROVE ReadyOnce(b)'
  <2>1. Placed(b) BY <1>9, AddedInLobby, OthersMove
  <2>2. phase' = phase /\ TakeSeat(UserOf[c]) BY <1>9 DEF AddBot
  <2>3. \A j \in SeatsOf(UserOf[b]) : ready'[j] => ready[j]
    BY <2>2 DEF TakeSeat, SeatsOf, IInv, TypeOK, RoomTypeOK
  <2>4. IsReadyOrBusy(b)' => IsReadyOrBusy(b) BY <2>1, <2>2, <2>3, BusyKept
  <2>5. readying'[b] = readying[b] /\ queue' = queue /\ inbox' = inbox
    BY <1>9 DEF AddBot, BotTypes
  <2> QED BY <1>2, <1>3, <2>4, <2>5
<1>10. ASSUME AddBot(b) PROVE ReadyOnce(b)'
  <2>1. ~inRoom[b] /\ queue' = queue /\ inbox' = inbox BY <1>10 DEF AddBot
  <2>2. readying[b] = 0 /\ Lacks(queue, ReadyOf(b)) /\ Lacks(inbox[b], Settled)
    BY <2>1 DEF ReadyOnce, IsReadyOrBusy, NothingPending
  <2>3. readying'[b] = 1 BY <1>10, <2>2 DEF AddBot, BotTypes
  <2>4. ReadyOf(b)' = ReadyOf(b) /\ Settled' = Settled BY DEF ReadyOf, Settled
  <2>5. OnePending(b)' BY <2>1, <2>2, <2>3, <2>4 DEF OnePending
  <2>6. phase = "LOBBY" /\ phase' = phase BY <1>10, AddedInLobby DEF AddBot
  <2>7. inRoom'[b]
    <3>1. b \in Client BY BotAssumption
    <3> QED BY <1>10, <3>1 DEF AddBot, IInv, TypeOK
  <2>8. \A j \in SeatsOf(UserOf[b])' : ~ready'[j]
    <3>1. SeatsOf(UserOf[b]) = {} BY <2>1 DEF BotSeated
    <3>2. ready \in [Seat -> BOOLEAN] /\ seat \in [Seat -> User \cup {Nobody}]
      BY DEF IInv, TypeOK, RoomTypeOK
    <3> DEFINE i == Lowest(EmptySeats)
    <3>3. seat' = [seat EXCEPT ![i] = UserOf[b]] /\ ready' = [ready EXCEPT ![i] = FALSE]
      BY <1>10 DEF AddBot, TakeSeat
    <3> HIDE DEF i
    <3> QED BY <3>1, <3>2, <3>3 DEF SeatsOf
  <2>9. ~IsReadyOrBusy(b)' BY <2>6, <2>7, <2>8 DEF IsReadyOrBusy
  <2> QED BY <2>5, <2>9 DEF ReadyOnce
<1>11. ASSUME UNCHANGED vars PROVE Placed(b) /\ (IsReadyOrBusy(b)' => IsReadyOrBusy(b))
  <2>1. Placed(b) BY <1>11 DEF vars, playerVars, Placed, SeatsOf
  <2>2. phase' = phase /\ ready' = ready BY <1>11 DEF vars, playerVars
  <2> QED BY <2>1, <2>2, BusyKept
<1>12. ASSUME NEW c \in Bot, HandleMessage(c), c # b PROVE ReadyOnce(b)'
  <2>1. UNCHANGED vars /\ queue' = queue /\ inbox'[b] = inbox[b] /\ readying'[b] = readying[b]
    BY <1>12 DEF HandleMessage, OnCardDealt, OnMovePlayed, OnTurnChange, OnSettlement, BotTypes
  <2> QED BY <1>2, <1>3, <1>11, <2>1
<1>13. ASSUME HandleMessage(b) PROVE ReadyOnce(b)'
  <2>1. Placed(b) BY <1>11, <1>13 DEF HandleMessage
  <2> QED BY <1>13, <2>1, ReadOnce
<1>14. ASSUME NEW c \in Bot, PlayTurn(c) PROVE ReadyOnce(b)'
  <2>1. UNCHANGED vars /\ inbox' = inbox /\ readying' = readying BY <1>14 DEF PlayTurn
  <2>2. Keeps(queue, queue', ReadyOf(b))
    <3>1. CASE queue' = queue BY <1>3, <3>1
    <3>2. ASSUME NEW o \in Request, o.kind # "READY", queue' = Append(queue, o)
          PROVE  Keeps(queue, queue', ReadyOf(b))
      <4>1. o # ReadyOf(b) BY <3>2 DEF ReadyOf
      <4> QED BY <1>1, <3>2, <4>1, LacksAppend, OnceAppend DEF Keeps
    <3> QED BY <1>14, <3>1, <3>2, PlayTurnTypes
  <2> QED BY <1>2, <1>3, <1>11, <2>1, <2>2
<1>15. ASSUME NEW c \in Bot, SendReady(c) PROVE ReadyOnce(b)'
  <2>1. /\ UNCHANGED vars /\ inbox' = inbox /\ readying[c] > 0
        /\ readying' = [readying EXCEPT ![c] = readying[c] - 1]
        /\ queue' = Append(queue, ReadyOf(c)) /\ readying \in [Bot -> Nat]
    BY <1>15 DEF SendReady, Send, ReadyOf, BotTypes
  <2>2. ReadyOf(c) \in Request BY DEF ReadyOf, Request
  <2>3. CASE c # b
    <3>1. ReadyOf(c) # ReadyOf(b) BY <2>3 DEF ReadyOf
    <3>2. Keeps(queue, queue', ReadyOf(b)) BY <1>1, <2>1, <2>2, <3>1, LacksAppend, OnceAppend DEF Keeps
    <3>3. readying'[b] = readying[b] BY <2>1, <2>3
    <3> QED BY <1>2, <1>3, <1>11, <2>1, <3>2, <3>3
  <2>4. CASE c = b
    <3>1. readying[b] = 1 /\ Lacks(queue, ReadyOf(b)) /\ Lacks(inbox[b], Settled)
      BY <2>1, <2>4 DEF ReadyOnce, OnePending
    <3>2. ~IsReadyOrBusy(b)' BY <1>11, <2>1, <3>1 DEF ReadyOnce, NothingPending
    <3>3. AtMostOnce(queue', ReadyOf(b)) BY <1>1, <2>1, <2>2, <2>4, <3>1, LacksAppend
    <3>4. readying'[b] = 0 BY <2>1, <2>4, <3>1
    <3>5. ReadyOf(b)' = ReadyOf(b) /\ Settled' = Settled BY DEF ReadyOf, Settled
    <3>6. OnePending(b)' BY <2>1, <3>1, <3>3, <3>4, <3>5 DEF OnePending
    <3> QED BY <3>2, <3>6 DEF ReadyOnce
  <2> QED BY <2>3, <2>4
<1> QED BY <1>5, <1>6, <1>7, <1>8, <1>9, <1>10, <1>12, <1>13, <1>14, <1>15, Events DEF ByABot

----------------------------------------------------------------------------
(* Hands. *)

\* Steps that say nothing to the bot and leave the cards alone.
LEMMA TrackedStill ==
  ASSUME NEW b \in Bot, HandTracked(b), Placed(b),
         inbox'[b] = inbox[b], view'[b] = view[b],
         phase' = "PLAYING" => phase = "PLAYING" /\ hand' = hand
  PROVE  HandTracked(b)'
BY DEF HandTracked, Placed

\* Two messages after a play or a pass.
LEMMA TrackedTwo ==
  ASSUME BotTypes, NEW b \in Bot, HandTracked(b), Placed(b), view'[b] = view[b],
         NEW m \in Message, NEW n \in Message, ToldTwo(b, m, n), phase = "PLAYING",
         m.type \in {"MOVE", "TURN"}, n.type = "TURN",
         \A s \in Seat :
           LET lost == IF m.type = "MOVE" /\ m.play.owner = s THEN m.play.cards ELSE {}
           IN  lost \subseteq hand[s] /\ hand'[s] = hand[s] \ lost
  PROVE  HandTracked(b)'
<1> SUFFICES ASSUME inRoom'[b], NEW s \in SeatsOf(UserOf[b])'
             PROVE  Tracks(inbox'[b], s, view'[b], hand'[s])
  BY DEF HandTracked
<1>1. inRoom[b] /\ s \in SeatsOf(UserOf[b]) /\ s \in Seat BY DEF Placed, SeatsOf
<1>2. Tracks(inbox[b], s, view[b], hand[s]) BY <1>1 DEF HandTracked
<1>3. inbox[b] \in Seq(Message) /\ inbox'[b] = Append(Append(inbox[b], m), n)
  BY <1>1 DEF BotTypes, ToldTwo
<1> DEFINE lost == IF m.type = "MOVE" /\ m.play.owner = s THEN m.play.cards ELSE {}
<1>4. lost \subseteq hand[s] /\ hand'[s] = hand[s] \ lost BY <1>1
<1>5. Tracks(Append(inbox[b], m), s, view[b], hand[s] \ lost) BY <1>2, <1>3, <1>4, TracksMore
<1>6. Append(inbox[b], m) \in Seq(Message) BY <1>3, AppendFacts
<1> HIDE DEF lost
<1>7. Tracks(Append(Append(inbox[b], m), n), s, view[b], (hand[s] \ lost) \ {})
  BY <1>5, <1>6, TracksMore
<1>8. (hand[s] \ lost) \ {} = hand'[s] BY <1>4
<1> QED BY <1>3, <1>7, <1>8

\* The bot reads its channel.
LEMMA TrackedRead ==
  ASSUME BotTypes, NEW b \in Bot, BotSeated(b), HandTracked(b), HandleMessage(b)
  PROVE  HandTracked(b)'
<1> DEFINE q == inbox[b]
           m == Head(q)
<1>1. /\ UNCHANGED vars /\ q # << >> /\ inbox'[b] = Tail(q)
      /\ q \in Seq(Message) /\ m \in Message /\ m = q[1]
  BY TailFacts DEF HandleMessage, BotTypes
<1>2. \/ m.type = "DEALT" /\ OnCardDealt(b, m)
      \/ m.type = "MOVE" /\ OnMovePlayed(b, m)
      \/ m.type = "TURN" /\ OnTurnChange(b, m)
      \/ m.type = "SETTLED" /\ OnSettlement(b)
  BY DEF HandleMessage
<1>3. view \in [Bot -> SUBSET Card] BY DEF BotTypes
<1> HIDE DEF m, q
<1> SUFFICES ASSUME phase = "PLAYING", inRoom[b], NEW s \in SeatsOf(UserOf[b])
             PROVE  Tracks(Tail(q), s, view'[b], hand[s])
  BY <1>1 DEF HandTracked, vars, playerVars, SeatsOf
<1>4. SeatOf(b) = s /\ s \in Seat
  <2>1. SeatsOf(UserOf[b]) = {s} /\ s \in Seat BY DEF BotSeated, SeatsOf
  <2> QED BY <2>1, LowestSeat DEF SeatOf
<1>5. Tracks(q, s, view[b], hand[s]) BY DEF HandTracked, q
<1>6. m.type = "DEALT" => view'[b] = m.cards BY <1>2, <1>3 DEF OnCardDealt
<1>7. OwnPlay(q, s, 1) => view'[b] = view[b] \ m.play.cards
  BY <1>1, <1>2, <1>3, <1>4 DEF OwnPlay, OnMovePlayed, RemoveCards
<1>8. m.type \notin {"DEALT", "SETTLED"} /\ ~OwnPlay(q, s, 1) => view'[b] = view[b]
  BY <1>1, <1>2, <1>4 DEF OwnPlay, OnMovePlayed, OnTurnChange
<1> QED BY <1>1, <1>5, <1>6, <1>7, <1>8, TracksRead

LEMMA TrackedStep ==
  ASSUME IInv, IInv', BotTypes, BotNext, NEW b \in Bot, BotSeated(b), HandTracked(b)
  PROVE  HandTracked(b)'
<1>1. /\ BotSeated(b)' /\ inbox[b] \in Seq(Message)
      /\ Placed(b) \/ (AddBot(b) /\ ~inRoom[b] /\ inRoom'[b])
  BY SeatsStep DEF BotTypes
<1>2. \A c \in Bot : AddBot(c) => phase = "LOBBY" /\ phase' = phase
  BY AddedInLobby DEF AddBot
<1>3. ASSUME phase' # "PLAYING" PROVE HandTracked(b)' BY <1>3 DEF HandTracked
<1>4. ASSUME NEW c \in Client, ReadyMade(c) PROVE HandTracked(b)'
  <2>1. CASE phase' # "PLAYING" BY <1>3, <2>1
  <2>2. CASE phase' = "PLAYING"
    <3>1. Deal /\ inRoom' = inRoom /\ seat' = seat BY <1>4, <2>2, ReadyTold
    <3> SUFFICES ASSUME inRoom'[b], NEW s \in SeatsOf(UserOf[b])'
                 PROVE  Tracks(inbox'[b], s, view'[b], hand'[s])
      BY DEF HandTracked
    <3>2. inRoom[b] /\ s \in SeatsOf(UserOf[b]) BY <3>1 DEF SeatsOf
    <3>3. /\ hand'[s] \in SUBSET Card /\ turn' \in Seat
          /\ inbox'[b] = Append(inbox[b], Dealt(hand'[s], turn'))
      BY <3>1, <3>2, DealTold
    <3> QED BY <1>1, <3>3, TracksDeal
  <2> QED BY <2>1, <2>2
<1>5. ASSUME NEW c \in Client, NEW list \in Seq(Card), PlayMade(c, list) PROVE HandTracked(b)'
  <2>1. CASE phase' # "PLAYING" BY <1>3, <2>1
  <2>2. CASE phase' = "PLAYING"
    <3>1. PICK m \in Message, n \in Message :
            /\ m.type = "MOVE" /\ m.play.owner = turn /\ m.play.cards \subseteq hand[turn]
            /\ hand' = [hand EXCEPT ![turn] = hand[turn] \ m.play.cards]
            /\ n.type = "TURN"
            /\ Tell(<<m, n>>)
      BY <1>5, <2>2, PlayTold
    <3>2. phase = "PLAYING" BY <1>5, PlayTold
    <3>3. ToldTwo(b, m, n) BY <3>1, Telling
    <3>4. hand \in [Seat -> SUBSET Card] /\ turn \in Seat BY DEF IInv, TypeOK, RoomTypeOK
    <3>5. \A s \in Seat :
            LET lost == IF m.type = "MOVE" /\ m.play.owner = s THEN m.play.cards ELSE {}
            IN  lost \subseteq hand[s] /\ hand'[s] = hand[s] \ lost
      BY <3>1, <3>4
    <3>6. view'[b] = view[b] /\ Placed(b) BY <1>1, <1>2, <1>5, <3>2 DEF PlayMade, Unmoved
    <3> QED BY <3>1, <3>2, <3>3, <3>5, <3>6, TrackedTwo
  <2> QED BY <2>1, <2>2
<1>6. ASSUME PassMade PROVE HandTracked(b)'
  <2>1. PICK m \in Message, n \in Message : m.type = "TURN" /\ n.type = "TURN" /\ Tell(<<m, n>>)
    BY <1>6, PassTold
  <2>2. phase = "PLAYING" /\ hand' = hand BY <1>6, PassTold
  <2>3. ToldTwo(b, m, n) BY <2>1, Telling
  <2>4. view'[b] = view[b] /\ Placed(b) BY <1>1, <1>2, <1>6, <2>2 DEF PassMade, Unmoved
  <2>5. \A s \in Seat :
          LET lost == IF m.type = "MOVE" /\ m.play.owner = s THEN m.play.cards ELSE {}
          IN  lost \subseteq hand[s] /\ hand'[s] = hand[s] \ lost
    BY <2>1, <2>2
  <2> QED BY <2>1, <2>2, <2>3, <2>4, <2>5, TrackedTwo
<1>7. ASSUME Unheard PROVE HandTracked(b)'
  <2>1. inbox'[b] = inbox[b] /\ view'[b] = view[b] BY <1>7 DEF Unheard, Unmoved
  <2>2. phase' = "PLAYING" => phase = "PLAYING" /\ hand' = hand
    <3>1. \A c \in Human : HandleJoinRoom(c) /\ phase # "LOBBY" => hand' = hand /\ phase' = phase
      BY DEF HandleJoinRoom, playerVars
    <3>2. \A c \in Human : HandleJoinRoom(c) => phase' = phase BY DEF HandleJoinRoom
    <3>3. ASSUME NEW c \in Human, HandleLeaveRoom(c) PROVE phase' = "LOBBY" \/ (phase' = phase /\ hand' = hand)
      BY <3>3 DEF HandleLeaveRoom, HandlePlayerLeave, Vacate, playerVars
    <3>4. ResetRoom => phase' = "LOBBY" BY DEF ResetRoom
    <3>5. UNCHANGED vars \/ TimerExpires => phase' = phase /\ hand' = hand
      BY DEF vars, TimerExpires, playerVars
    <3>6. ASSUME NEW i \in Seat, TurnTimeout(i), ~(phase = "PLAYING" /\ turn = i)
          PROVE  phase' = phase /\ hand' = hand
      BY <3>6 DEF TurnTimeout, playerVars
    <3> QED BY <1>7, <3>1, <3>2, <3>3, <3>4, <3>5, <3>6 DEF Unheard
  <2>3. CASE Placed(b) BY <2>1, <2>2, <2>3, TrackedStill
  <2>4. CASE AddBot(b)
    <3>1. phase' # "PLAYING" BY <1>2, <2>4
    <3> QED BY <1>3, <3>1
  <2> QED BY <1>1, <2>3, <2>4
<1>8. ASSUME NEW c \in Bot, AddBot(c) PROVE HandTracked(b)'
  <2>1. phase' # "PLAYING" BY <1>2, <1>8
  <2> QED BY <1>3, <2>1
<1>9. ASSUME NEW c \in Bot, HandleMessage(c) PROVE HandTracked(b)'
  <2>1. CASE c = b BY <1>9, <2>1, TrackedRead
  <2>2. CASE c # b
    <3>1. UNCHANGED vars /\ inbox'[b] = inbox[b] /\ view'[b] = view[b]
      BY <1>9, <2>2 DEF HandleMessage, OnCardDealt, OnMovePlayed, OnTurnChange, OnSettlement, BotTypes
    <3>2. Placed(b) BY <3>1 DEF vars, playerVars, Placed, SeatsOf
    <3> QED BY <3>1, <3>2, TrackedStill DEF vars, playerVars
  <2> QED BY <2>1, <2>2
<1>10. ASSUME NEW c \in Bot, PlayTurn(c) \/ SendReady(c) PROVE HandTracked(b)'
  <2>1. UNCHANGED vars /\ inbox' = inbox /\ view' = view BY <1>10 DEF PlayTurn, SendReady
  <2>2. Placed(b) BY <2>1 DEF vars, playerVars, Placed, SeatsOf
  <2> QED BY <2>1, <2>2, TrackedStill DEF vars, playerVars
<1> QED BY <1>4, <1>5, <1>6, <1>7, <1>8, <1>9, <1>10, Events DEF ByABot

----------------------------------------------------------------------------
(* Bots that have not been seated. *)

LEMMA OutsideStep ==
  ASSUME IInv, IInv', BotTypes, BotNext, NEW b \in Bot, BotSeated(b), Outside(b)
  PROVE  Outside(b)'
<1>1. Placed(b) \/ inRoom'[b] BY SeatsStep
<1> SUFFICES ASSUME ~inRoom'[b]
             PROVE  inbox'[b] = << >> /\ DOMAIN (thinking'[b]) = {}
  BY DEF Outside
<1>2. ~inRoom[b] /\ inbox[b] = << >> /\ DOMAIN (thinking[b]) = {} BY <1>1 DEF Placed, Outside
<1>3. thinking = [c \in Bot |-> thinking[c]] BY DEF BotTypes
<1>4. ASSUME inbox'[b] = inbox[b], thinking'[b] = thinking[b]
      PROVE  inbox'[b] = << >> /\ DOMAIN (thinking'[b]) = {}
  BY <1>2, <1>4
<1>5. ASSUME NEW c \in Client, ReadyMade(c) PROVE inbox'[b] = inbox[b] /\ thinking'[b] = thinking[b]
  <2>1. inbox' = inbox \/ Deal BY <1>5, ReadyTold
  <2>2. Deal => inbox'[b] = inbox[b] BY <1>2, DealTold
  <2> QED BY <1>5, <2>1, <2>2 DEF ReadyMade, Unmoved
<1>6. ASSUME NEW m \in Message, NEW n \in Message, Tell(<<m, n>>) PROVE inbox'[b] = inbox[b]
  BY <1>2, <1>6, Telling DEF ToldTwo
<1>7. ASSUME NEW c \in Client, NEW list \in Seq(Card), PlayMade(c, list)
      PROVE  inbox'[b] = inbox[b] /\ thinking'[b] = thinking[b]
  <2>1. PICK m \in Message, n \in Message : Tell(<<m, n>>) BY <1>7, PlayTold
  <2> QED BY <1>6, <1>7, <2>1 DEF PlayMade, Unmoved
<1>8. ASSUME PassMade PROVE inbox'[b] = inbox[b] /\ thinking'[b] = thinking[b]
  <2>1. PICK m \in Message, n \in Message : Tell(<<m, n>>) BY <1>8, PassTold
  <2> QED BY <1>6, <1>8, <2>1 DEF PassMade, Unmoved
<1>9. ASSUME Unheard \/ \E c \in Bot : AddBot(c) \/ SendReady(c)
      PROVE  inbox'[b] = inbox[b] /\ thinking'[b] = thinking[b]
  BY <1>9 DEF Unheard, Unmoved, AddBot, SendReady
<1>10. ASSUME NEW c \in Bot, HandleMessage(c)
       PROVE  inbox'[b] = inbox[b] /\ thinking'[b] = thinking[b]
  <2>1. c # b BY <1>2, <1>10 DEF HandleMessage
  <2>2. inbox'[b] = inbox[b] BY <1>10, <2>1 DEF HandleMessage, BotTypes
  <2>3. ASSUME NEW t, StartThinking(c, t) PROVE thinking'[b] = thinking[b]
    BY <1>3, <2>1, <2>3 DEF StartThinking
  <2>4. thinking'[b] = thinking[b]
    BY <1>10, <2>3 DEF HandleMessage, OnCardDealt, OnMovePlayed, OnTurnChange, OnSettlement
  <2> QED BY <2>2, <2>4
<1>11. ASSUME NEW c \in Bot, PlayTurn(c)
       PROVE  inbox'[b] = inbox[b] /\ thinking'[b] = thinking[b]
  <2>1. PICK t \in BagToSet(thinking[c]) :
          thinking' = [thinking EXCEPT ![c] = thinking[c] (-) SetToBag({t})]
    BY <1>11 DEF PlayTurn
  <2>2. c # b BY <1>2, <2>1, BagFacts
  <2>3. thinking'[b] = thinking[b] BY <1>3, <2>1, <2>2
  <2> QED BY <1>11, <2>3 DEF PlayTurn
<1> QED BY <1>4, <1>5, <1>7, <1>8, <1>9, <1>10, <1>11, Events DEF ByABot

----------------------------------------------------------------------------
(* The invariant. *)

LEMMA BotInitInv == BotInit => BInv
<1> SUFFICES ASSUME BotInit PROVE BInv OBVIOUS
<1>1. Init /\ IInv BY InitInv DEF BotInit
<1>2. /\ inbox = [b \in Bot |-> << >>] /\ view = [b \in Bot |-> {}]
      /\ last = [b \in Bot |-> NoPlay] /\ thinking = [b \in Bot |-> EmptyBag]
      /\ readying = [b \in Bot |-> 0] /\ queue = << >> /\ crashed = FALSE
  BY DEF BotInit
<1>3. DOMAIN EmptyBag = {} BY DEF EmptyBag, SetToBag
<1>4. BotTypes
  <2>1. thinking = [b \in Bot |-> thinking[b]] BY <1>2
  <2>2. \A b \in Bot : DOMAIN thinking[b] \subseteq Laid \cup {NoPlay} BY <1>2, <1>3
  <2>3. << >> \in Seq(Message) /\ << >> \in Seq(Request) OBVIOUS
  <2> QED BY <1>2, <2>1, <2>2, <2>3 DEF BotTypes
<1>5. ASSUME NEW b \in Bot PROVE BotSeated(b) /\ ReadyOnce(b) /\ HandTracked(b) /\ Outside(b)
  <2>1. b \in Client /\ UserOf[b] # Nobody BY BotAssumption, UserAssumption
  <2>2. ~inRoom[b] /\ SeatsOf(UserOf[b]) = {} /\ phase = "LOBBY"
    BY <1>1, <2>1 DEF Init, SeatsOf
  <2>3. readying[b] = 0 /\ inbox[b] = << >> /\ thinking[b] = EmptyBag BY <1>2
  <2>4. Lacks(queue, ReadyOf(b)) /\ Lacks(inbox[b], Settled) BY <1>2, <2>3 DEF Lacks
  <2>5. NothingPending(b) BY <2>3, <2>4 DEF NothingPending
  <2>6. ReadyOnce(b) BY <2>5, NothingIsOne DEF ReadyOnce
  <2> QED BY <1>3, <2>2, <2>3, <2>6 DEF BotSeated, HandTracked, Outside
<1> QED BY <1>1, <1>4, <1>5 DEF BInv

LEMMA BotStepInv ==
  ASSUME BInv, [BotNext]_allVars
  PROVE  BInv'
<1>1. IInv' BY BotsStepTheRoom, RoomStepInv DEF BInv
<1>2. CASE BotNext
  BY <1>1, <1>2, TypesStep, SeatsStep, ReadyStep, TrackedStep, OutsideStep DEF BInv
<1>3. CASE UNCHANGED allVars
  <2>1. UNCHANGED <<phase, seat, ready, hand, inRoom>> /\ UNCHANGED botVars
    BY <1>3 DEF allVars, vars, playerVars
  <2>2. BotTypes' BY <2>1 DEF BInv, BotTypes, botVars
  <2>3. ASSUME NEW b \in Bot PROVE (BotSeated(b) /\ ReadyOnce(b) /\ HandTracked(b) /\ Outside(b))'
    <3>1. SeatsOf(UserOf[b])' = SeatsOf(UserOf[b]) BY <2>1 DEF SeatsOf
    <3>2. BotSeated(b)' BY <2>1, <3>1 DEF BInv, BotSeated
    <3>3. ReadyOf(b)' = ReadyOf(b) /\ Settled' = Settled BY DEF ReadyOf, Settled
    <3>4. ReadyOnce(b)'
      BY <2>1, <3>1, <3>3 DEF BInv, ReadyOnce, OnePending, NothingPending, IsReadyOrBusy, botVars
    <3>5. (HandTracked(b) /\ Outside(b))'
      BY <2>1, <3>1 DEF BInv, HandTracked, Outside, botVars
    <3> QED BY <3>2, <3>4, <3>5
  <2> QED BY <1>1, <2>2, <2>3 DEF BInv
<1> QED BY <1>2, <1>3

LEMMA BotsInvariance == BotSpec => []BInv
BY BotInitInv, BotStepInv, PTL DEF BotSpec

----------------------------------------------------------------------------
(* Theorems: the room. *)

\* To the room a bot is a client like any other (bot/manager.go seats it
\* without the hub, bot/player.go sends through the hub's channel): every step
\* of a room with bots is one of the room.
THEOREM BotsAreClients == BotSpec => RoomWithBots
<1>1. BInv /\ [BotNext]_allVars
        => [Next \/ \E b \in Bot, S \in SUBSET Card : HandlePlayCards(b, SortCards(S))]_vars
  BY BotsStepTheRoom DEF BInv, RoomStep
<1>2. BotInit => Init BY DEF BotInit
<1> QED BY BotsInvariance, <1>1, <1>2, PTL DEF BotSpec, RoomWithBots

\* So what the engine promises a room of humans (internal/game/engine.go) it
\* keeps when any of the clients are bots, whatever they are told and however
\* late they answer.
THEOREM SafeWithBots ==
  BotSpec => [](/\ TypeOK /\ SeatedWhilePlaying /\ TurnFollowsPlay /\ TurnHasTimer
                /\ CardsConserved /\ WinnerEmptied /\ CleanLobby /\ SettlementAsDocumented
                /\ MembershipAgrees)
<1>1. BInv => /\ TypeOK /\ SeatedWhilePlaying /\ TurnFollowsPlay /\ TurnHasTimer
              /\ CardsConserved /\ WinnerEmptied /\ CleanLobby /\ SettlementAsDocumented
  BY SettlementAddsUp DEF BInv, IInv, RoomInv
<1>2. BInv /\ MInv /\ [BotNext]_allVars => MInv'
  <2> SUFFICES ASSUME BInv, MInv, [RoomStep]_vars PROVE MInv'
    BY BotsStepTheRoom DEF BInv
  <2>1. CASE [Next]_vars BY <2>1, PlacesStep DEF BInv
  <2>2. ASSUME NEW b \in Bot, NEW S \in SUBSET Card, HandlePlayCards(b, SortCards(S)) PROVE MInv'
    BY <2>2 DEF HandlePlayCards, MInv, OnePlace, Once, Absent, SeatsOf, SpectatorEntries
  <2> QED BY <2>1, <2>2 DEF RoomStep
<1>3. BotInit => MInv BY PlacesInit DEF BotInit
<1> QED BY BotsInvariance, PlacesAgree, <1>1, <1>2, <1>3, PTL DEF BotSpec

LEMMA BotStepEffects ==
  ASSUME BInv, [BotNext]_allVars
  PROVE  Quiet \/ Abandon \/ Begin \/ PlayEffect \/ PassEffect
<1>1. IInv /\ [RoomStep]_vars BY BotsStepTheRoom DEF BInv
<1>2. CASE [Next]_vars BY <1>1, <1>2, StepEffects
<1>3. ASSUME NEW b \in Bot, NEW S \in SUBSET Card, HandlePlayCards(b, SortCards(S)) PROVE PlayEffect
  <2>1. b \in Client BY BotAssumption
  <2> QED BY <1>1, <1>3, <2>1, SortedList, PlayInGame DEF IInv
<1> QED BY <1>1, <1>2, <1>3 DEF RoomStep

\* A game with bots in it goes its rounds as the abstract one does: three
\* passes clear a round, the last to play leads the next one, and only the
\* player whose turn it is lays cards (engine.go, README.md:172).
THEOREM RefinementWithBots == BotSpec => ImplementsRound
<1>1. BInv /\ [BotNext]_allVars => [Round!Next]_(Round!vars)
  BY BotStepEffects, EffectsRefine
<1>2. BotInit => Round!Init BY InitRefines DEF BotInit
<1> QED BY BotsInvariance, <1>1, <1>2, PTL DEF BotSpec, ImplementsRound, Round!Spec

\* No bot, and nobody in its presence, throws a running game away, clears a
\* round for anybody but the last to play, or lays cards that are not his.
THEOREM GamesWithBots ==
  BotSpec => RoundGoesToLastPlayer /\ GameNotThrownAway /\ PlaysComeFromHands
<1>1. BInv /\ [BotNext]_allVars
        => [ phase = "PLAYING" /\ phase' = "PLAYING" /\ table # NoPlay /\ table' = NoPlay
               => turn' = table.owner /\ passCount = 2 /\ hand' = hand ]_vars
  BY BotStepEffects DEF Quiet, Abandon, Begin, PlayEffect, PassEffect
<1>2. BInv /\ [BotNext]_allVars
        => [ phase = "PLAYING" /\ phase' # "PLAYING"
               => \/ phase' = "SETTLEMENT" /\ cardCount'[turn] = 0
                  \/ \E i \in Seat : seat'[i] = Nobody
                  \/ resets' < resets ]_vars
  BY BotStepEffects DEF Quiet, Abandon, Begin, PlayEffect, PassEffect
<1>3. BInv /\ [BotNext]_allVars
        => [ phase = "PLAYING" /\ phase' # "LOBBY" /\ hand' # hand
               => /\ hand' = [hand EXCEPT ![turn] = hand'[turn]]
                  /\ table'.owner = turn
                  /\ hand[turn] = hand'[turn] \cup table'.cards ]_vars
  BY BotStepEffects DEF Quiet, Abandon, Begin, PlayEffect, PassEffect
<1> QED
  BY BotsInvariance, <1>1, <1>2, <1>3, PTL
  DEF BotSpec, RoundGoesToLastPlayer, GameNotThrownAway, PlaysComeFromHands

----------------------------------------------------------------------------
(* Theorems: the bots. *)

\* What a bot holds, thinks about and sends is what player.go's fields can
\* hold: a message is a play of cards, a pass or "ready".
THEOREM BotTypeCorrect == BotSpec => []BotTypeOK
<1>1. ASSUME BInv PROVE BotTypeOK
  <2>1. Laid \subseteq TablePlay BY DEF Laid
  <2>2. ASSUME NEW b \in Bot PROVE BagToSet(thinking[b]) \subseteq TablePlay \cup {NoPlay}
    BY <1>1, <2>1, BagFacts DEF BInv, BotTypes
  <2>3. ASSUME NEW k \in DOMAIN queue PROVE queue[k] \in Request
    BY <1>1, <2>3, ElementOfSeq, LenProperties DEF BInv, BotTypes
  <2> QED BY <1>1, <2>1, <2>2, <2>3 DEF BInv, BotTypes, BotTypeOK, Request
<1> QED BY BotsInvariance, <1>1, PTL

LEMMA HandKnown ==
  ASSUME BInv
  PROVE  BotKnowsItsHand
<1> SUFFICES ASSUME phase = "PLAYING", NEW b \in Bot, inRoom[b],
                    \A k \in DOMAIN inbox[b] : inbox[b][k].type # "DEALT"
             PROVE  view[b] = hand[SeatOf(b)] \cup UnreadPlays(b)
  BY DEF BotKnowsItsHand
<1> DEFINE q == inbox[b]
           s == SeatOf(b)
<1>1. q \in Seq(Message) /\ BotSeated(b) /\ HandTracked(b) BY DEF BInv, BotTypes
<1>2. s \in SeatsOf(UserOf[b])
  <2>1. PICK i \in Seat : SeatsOf(UserOf[b]) = {i} BY <1>1 DEF BotSeated
  <2> QED BY <2>1, LowestSeat DEF SeatOf
<1>3. Tracks(q, s, view[b], hand[s]) BY <1>1, <1>2 DEF HandTracked
<1> HIDE DEF q, s
<1>4. Len(q) \in Nat /\ DOMAIN q = 1 .. Len(q) /\ DOMAIN q = 0 + 1 .. Len(q) BY <1>1, LenProperties
<1>5. LastDeal(q, 0) BY <1>4 DEF LastDeal, q
<1>6. Follows(q, s, 0, view[b], hand[s]) BY <1>3, <1>4, <1>5 DEF Tracks
<1>7. PlaysAfter(q, s, 0) = {j \in DOMAIN q : q[j].type = "MOVE" /\ q[j].play.owner = s}
  BY <1>4 DEF PlaysAfter, OwnPlay
<1> QED BY <1>6, <1>7 DEF Follows, UnreadPlays, q, s

\* A bot that has read that it was dealt its hand holds what the server says
\* it holds, and the cards of the plays it has yet to read about: player.go
\* keeps its own books and never asks.
THEOREM BotsKnow == BotSpec => []BotKnowsItsHand
BY BotsInvariance, HandKnown, PTL

\* "ready" is a toggle (engine.go:149) and the goroutines of the bots send it
\* blindly: none is ever sent to a bot that is ready.
THEOREM ReadyStays == BotSpec => ReadyNotWithdrawn
<1>1. ASSUME BInv, [BotNext]_allVars, phase = "LOBBY", phase' = "LOBBY", resets' = resets,
             NEW b \in Bot, NEW i \in Seat, seat[i] = UserOf[b], ready[i]
      PROVE  ready'[i]
  <2>1. /\ IInv /\ BotTypes /\ BotSeated(b) /\ ReadyOnce(b) BY <1>1 DEF BInv
  <2>2. ready \in [Seat -> BOOLEAN] BY <2>1 DEF IInv, TypeOK, RoomTypeOK
  <2>3. i \in SeatsOf(UserOf[b]) /\ inRoom[b] BY <1>1, <2>1 DEF SeatsOf, BotSeated
  <2>4. NothingPending(b) BY <1>1, <2>1, <2>3 DEF ReadyOnce, IsReadyOrBusy
  <2>5. b \in Client /\ UserOf[b] # Nobody BY BotAssumption, UserAssumption
  <2>6. ASSUME NEW u, TakeSeat(u), EmptySeats # {} PROVE ready'[i]
    <3> DEFINE j == Lowest(EmptySeats)
    <3>1. j \in EmptySeats BY <2>6, LowestSeat DEF EmptySeats
    <3>2. j # i BY <1>1, <2>5, <3>1 DEF EmptySeats
    <3>3. ready' = [ready EXCEPT ![j] = FALSE] BY <2>6 DEF TakeSeat
    <3> HIDE DEF j
    <3> QED BY <1>1, <2>2, <3>2, <3>3
  <2>7. ASSUME NEW c \in Client, ReadyMade(c) PROVE ready'[i]
    <3> DEFINE j == Lowest(SeatsOf(UserOf[c]))
    <3>1. j \in SeatsOf(UserOf[c]) /\ ready' = [ready EXCEPT ![j] = ~ready[j]]
      BY <1>1, <2>1, <2>7, ReadyTold
    <3> HIDE DEF j
    <3>2. c # b
      <4>1. c = b => queue # << >> /\ Head(queue) = ReadyOf(b)
        BY <1>1, <2>7 DEF ReadyMade
      <4>2. queue \in Seq(Request) /\ Lacks(queue, ReadyOf(b)) BY <2>1, <2>4 DEF BotTypes, NothingPending
      <4> QED BY <4>1, <4>2, LacksTail
    <3>3. UserOf[c] # UserOf[b] BY <3>2, BotAssumption
    <3>4. j # i BY <1>1, <3>1, <3>3 DEF SeatsOf
    <3> QED BY <1>1, <2>2, <3>1, <3>4
  <2>8. ~\E c \in Client, list \in Seq(Card) : PlayMade(c, list)
    BY <1>1 DEF PlayMade, HandlePlayCards
  <2>9. ~PassMade BY <1>1 DEF PassMade
  <2>10. ASSUME Unheard PROVE ready'[i]
    <3>1. CASE UNCHANGED vars \/ TimerExpires
      BY <1>1, <3>1 DEF vars, playerVars, TimerExpires
    <3>2. ~ResetRoom
      <4>1. resets \in Nat BY <2>1, BoundAssumption DEF IInv, TypeOK, RoomTypeOK
      <4> QED BY <1>1, <4>1 DEF ResetRoom
    <3>3. ASSUME NEW k \in Seat, TurnTimeout(k), ~(phase = "PLAYING" /\ turn = k) PROVE ready'[i]
      BY <1>1, <3>3 DEF TurnTimeout, playerVars
    <3>4. ASSUME NEW c \in Human, HandleJoinRoom(c) PROVE ready'[i]
      BY <1>1, <2>6, <3>4 DEF HandleJoinRoom, playerVars
    <3>5. ASSUME NEW c \in Human, HandleLeaveRoom(c) PROVE ready'[i]
      <4>1. c \in Client /\ UserOf[c] # UserOf[b] BY BotAssumption DEF Human
      <4>2. CASE UNCHANGED playerVars BY <1>1, <4>2 DEF playerVars
      <4>3. ASSUME NEW k \in SeatsOf(UserOf[c]), Vacate(k) PROVE ready'[i]
        <5>1. k # i BY <1>1, <4>1 DEF SeatsOf
        <5>2. ready' = [ready EXCEPT ![k] = FALSE] BY <1>1, <4>3 DEF Vacate
        <5> QED BY <1>1, <2>2, <5>1, <5>2
      <4> QED BY <3>5, <4>2, <4>3 DEF HandleLeaveRoom, HandlePlayerLeave
    <3> QED BY <2>10, <3>1, <3>2, <3>3, <3>4, <3>5 DEF Unheard
  <2>11. ASSUME NEW c \in Bot, ByABot(c) PROVE ready'[i]
    <3>1. CASE UNCHANGED vars BY <1>1, <3>1 DEF vars, playerVars
    <3>2. CASE AddBot(c) BY <2>6, <3>2 DEF AddBot
    <3> QED BY <2>11, <3>1, <3>2 DEF ByABot, HandleMessage, PlayTurn, SendReady
  <2>12. CASE UNCHANGED allVars BY <1>1, <2>12 DEF allVars, vars, playerVars
  <2> QED BY <1>1, <2>1, <2>7, <2>8, <2>9, <2>10, <2>11, <2>12, Events
<1>2. BInv /\ [BotNext]_allVars
        => [ phase = "LOBBY" /\ phase' = "LOBBY" /\ resets' = resets
               => \A b \in Bot, i \in Seat : seat[i] = UserOf[b] /\ ready[i] => ready'[i] ]_allVars
  BY <1>1
<1> QED BY BotsInvariance, <1>2, PTL DEF BotSpec, ReadyNotWithdrawn

\* While its game runs a bot always finds a play to lead with (strategy.go:38,
\* player.go:184), however long its goroutine slept: its hand is not empty
\* before it has a new one in its channel.
THEOREM NoPanic == BotSpec => NoPanicInGame
<1>1. ASSUME BInv, BotNext, ~crashed, crashed'
      PROVE  \E b \in Bot :
               /\ view[b] = {}
               /\ phase # "PLAYING" \/ \E k \in DOMAIN inbox[b] : inbox[b][k].type = "DEALT"
  <2>1. IInv /\ BotTypes BY <1>1 DEF BInv
  <2>2. PICK b \in Bot : PlayTurn(b)
    <3>1. ASSUME NEW c \in Bot, AddBot(c) \/ HandleMessage(c) \/ SendReady(c) PROVE FALSE
      BY <1>1, <3>1 DEF AddBot, HandleMessage, SendReady
    <3>2. Unmoved => FALSE BY <1>1 DEF Unmoved
    <3> QED
      BY <1>1, <2>1, <3>1, <3>2, Events DEF ReadyMade, PlayMade, PassMade, Unheard, ByABot
  <2>3. PICK t \in BagToSet(thinking[b]) : Panic \in ChoosePlay(view[b], t, DiffOf[b])
    BY <1>1, <2>2 DEF PlayTurn
  <2>4. view[b] = {}
    <3>1. t = NoPlay \/ Lies(t) BY <2>1, <2>3, BagFacts DEF BotTypes, Laid
    <3>2. view[b] \subseteq Card /\ DiffOf[b] \in Difficulty BY <2>1, BotAssumption DEF BotTypes
    <3>3. Panic # PassTurn BY DEF Panic, PassTurn, PlayOf
    <3>4. ~Proper(view[b], Panic) BY PassIsNoPlay
    <3> QED BY <2>3, <3>1, <3>2, <3>3, <3>4, ChoiceOfPlay
  <2>5. inRoom[b] BY <1>1, <2>3, BagFacts DEF BInv, Outside
  <2>6. ASSUME phase = "PLAYING", \A k \in DOMAIN inbox[b] : inbox[b][k].type # "DEALT" PROVE FALSE
    <3>1. view[b] = hand[SeatOf(b)] \cup UnreadPlays(b) BY <1>1, <2>5, <2>6, HandKnown DEF BotKnowsItsHand
    <3>2. SeatOf(b) \in Seat
      <4>1. PICK i \in Seat : SeatsOf(UserOf[b]) = {i} BY <1>1, <2>5 DEF BInv, BotSeated
      <4> QED BY <4>1, LowestSeat DEF SeatOf
    <3>3. Cardinality(hand[SeatOf(b)]) > 0
      BY <2>1, <2>6, <3>2 DEF IInv, RoomInv, SeatedWhilePlaying, CardsConserved
    <3>4. hand[SeatOf(b)] # {} BY <3>3, FS_EmptySet
    <3> QED BY <2>4, <3>1, <3>4
  <2> QED BY <2>4, <2>6
<1>2. BInv /\ [BotNext]_allVars
        => [ ~crashed /\ crashed'
               => \E b \in Bot :
                    /\ view[b] = {}
                    /\ phase # "PLAYING" \/ \E k \in DOMAIN inbox[b] : inbox[b][k].type = "DEALT" ]_allVars
  BY <1>1
<1> QED BY BotsInvariance, <1>2, PTL DEF BotSpec, NoPanicInGame
=============================================================================

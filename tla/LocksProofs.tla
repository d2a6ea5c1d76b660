---------------------------- MODULE LocksProofs ----------------------------
(***************************************************************************)
(* Theorems about the locks, for any rooms and any number of callbacks and *)
(* of requests for the list of rooms.                                      *)
(***************************************************************************)
EXTENDS Locks, SequenceTheorems, TLAPS

Acquires == {"RLock", "Lock"}
Releases == {"RUnlock", "Unlock"}
Partner(kind) == IF kind = "RLock" THEN "RUnlock" ELSE "Unlock"

\* Step k takes a lock; the next step on that lock is its counterpart.
GivenBack(s, k) ==
  \E j \in k + 1 .. Len(s) :
    /\ s[j] = [kind |-> Partner(s[k].kind), lock |-> s[k].lock]
    /\ \A i \in k + 1 .. j - 1 : s[i].lock # s[k].lock

\* Step k gives a lock back; if there is another step on that lock, the next
\* one takes it.
FreeAfter(s, k) ==
  \A j \in k + 1 .. Len(s) :
    s[j].lock = s[k].lock /\ (\A i \in k + 1 .. j - 1 : s[i].lock # s[k].lock)
      => s[j].kind \in Acquires

\* What is left of an operation: true of every rest of one that it is true of.
Sound(s) ==
  /\ s \in Seq(OpRecord)
  /\ \A k \in 1 .. Len(s) :
       /\ s[k].kind \in Acquires => GivenBack(s, k)
       /\ s[k].kind \in Releases => FreeAfter(s, k)

\* A whole operation takes every lock before it gives it back.
Whole(s) ==
  \A k \in 1 .. Len(s) :
    s[k].kind \in Releases =>
      \E i \in 1 .. k - 1 : s[i].lock = s[k].lock

\* Whoever takes a lock at step k while a later step gives back another one,
\* taken before, takes the hub's and holds a room's.
Ordered(s) ==
  \A k, j \in 1 .. Len(s) :
    /\ k < j /\ s[k].kind \in Acquires /\ s[j].kind \in Releases
    /\ \A i \in k .. j - 1 : s[i].lock # s[j].lock
    => s[k].lock = HubLock /\ s[j].lock # HubLock

Mentions(s, l) == \E k \in 1 .. Len(s) : s[k].lock = l

LocksTypeOK ==
  /\ readers \in [Lock -> SUBSET Thread]
  /\ writing \in [Lock -> Thread \cup {Free}]
  /\ exclusive \in [Lock -> BOOLEAN]

\* Who has called Lock() and does not hold the lock yet is still at that call.
Announced ==
  \A l \in Lock :
    IF exclusive[l] THEN writing[l] # Free
    ELSE writing[l] # Free =>
           rest[writing[l]] # << >> /\ Head(rest[writing[l]]) = [kind |-> "Lock", lock |-> l]

IInv ==
  /\ LocksTypeOK /\ LocksOK /\ Announced
  /\ \A t \in Thread : Sound(rest[t])
  /\ \A t \in Thread \ Listers : Ordered(rest[t])

----------------------------------------------------------------------------
(* The operations are whole, sound and, but for the list of rooms, ordered. *)

Good(s) == Sound(s) /\ Whole(s)

LEMMA GoodNothing == Good(Nothing) /\ Ordered(Nothing)
  BY DEF Good, Sound, Whole, Ordered, Nothing

LEMMA GoodConcat ==
  ASSUME NEW s, NEW t, Good(s), Good(t) PROVE Good(s \o t)
<1> DEFINE w == s \o t
<1>1. s \in Seq(OpRecord) /\ t \in Seq(OpRecord) BY DEF Good, Sound
<1>2. /\ w \in Seq(OpRecord) /\ Len(w) = Len(s) + Len(t)
      /\ \A k \in 1 .. Len(s) : w[k] = s[k]
      /\ \A k \in Len(s) + 1 .. Len(w) : k - Len(s) \in 1 .. Len(t) /\ w[k] = t[k - Len(s)]
  BY <1>1, ConcatProperties
<1>3. Len(s) \in Nat /\ Len(t) \in Nat BY <1>1
<1> HIDE DEF w
<1>4. Whole(w)
  <2> SUFFICES ASSUME NEW k \in 1 .. Len(w), w[k].kind \in Releases
               PROVE  \E i \in 1 .. k - 1 : w[i].lock = w[k].lock
    BY DEF Whole
  <2>1. CASE k <= Len(s)
    <3>1. PICK i \in 1 .. k - 1 : s[i].lock = s[k].lock BY <1>2, <1>3, <2>1 DEF Good, Whole
    <3> QED BY <1>2, <1>3, <2>1, <3>1
  <2>2. CASE k > Len(s)
    <3>1. k - Len(s) \in 1 .. Len(t) /\ t[k - Len(s)] = w[k] BY <1>2, <1>3, <2>2
    <3>2. PICK i \in 1 .. k - Len(s) - 1 : t[i].lock = w[k].lock
      BY <3>1 DEF Good, Whole
    <3>3. Len(s) + i \in Len(s) + 1 .. Len(w) /\ Len(s) + i \in 1 .. k - 1
      BY <1>2, <1>3, <3>1, <3>2
    <3>4. w[Len(s) + i] = t[i] BY <1>2, <1>3, <3>2, <3>3
    <3> QED BY <3>2, <3>3, <3>4
  <2> QED BY <1>3, <2>1, <2>2
<1>5. ASSUME NEW k \in 1 .. Len(w), w[k].kind \in Acquires PROVE GivenBack(w, k)
  <2>1. CASE k <= Len(s)
    <3>1. k \in 1 .. Len(s) /\ w[k] = s[k] BY <1>2, <1>3, <2>1
    <3>2. PICK j \in k + 1 .. Len(s) :
            /\ s[j] = [kind |-> Partner(s[k].kind), lock |-> s[k].lock]
            /\ \A i \in k + 1 .. j - 1 : s[i].lock # s[k].lock
      BY <1>5, <3>1 DEF Good, Sound, GivenBack
    <3>3. j \in k + 1 .. Len(w) BY <1>2, <1>3, <3>1, <3>2
    <3>4. \A i \in k .. j : i \in 1 .. Len(s) BY <1>3, <3>1, <3>2
    <3>5. w[j] = s[j] /\ \A i \in k + 1 .. j - 1 : w[i] = s[i]
      BY <1>2, <3>2, <3>4
    <3> QED BY <3>1, <3>2, <3>3, <3>5 DEF GivenBack
  <2>2. CASE k > Len(s)
    <3> DEFINE n == Len(s)
               m == k - n
    <3>1. m \in 1 .. Len(t) /\ w[k] = t[m] BY <1>2, <1>3, <2>2
    <3>2. PICK j \in m + 1 .. Len(t) :
            /\ t[j] = [kind |-> Partner(t[m].kind), lock |-> t[m].lock]
            /\ \A i \in m + 1 .. j - 1 : t[i].lock # t[m].lock
      BY <1>5, <3>1 DEF Good, Sound, GivenBack
    <3>3. n + j \in k + 1 .. Len(w) BY <1>2, <1>3, <3>1, <3>2
    <3>4. w[n + j] = t[j] BY <1>2, <1>3, <3>2, <3>3, <3>1
    <3>5. ASSUME NEW i \in k + 1 .. n + j - 1 PROVE w[i].lock # w[k].lock
      <4>1. i - n \in m + 1 .. j - 1 /\ i \in n + 1 .. Len(w) BY <1>2, <1>3, <3>1, <3>2, <2>2
      <4>2. w[i] = t[i - n] BY <1>2, <4>1
      <4> QED BY <3>1, <3>2, <4>1, <4>2
    <3> QED BY <3>1, <3>2, <3>3, <3>4, <3>5 DEF GivenBack
  <2> QED BY <1>3, <2>1, <2>2
<1>6. ASSUME NEW k \in 1 .. Len(w), w[k].kind \in Releases PROVE FreeAfter(w, k)
  <2> SUFFICES ASSUME NEW j \in k + 1 .. Len(w), w[j].lock = w[k].lock,
                      \A i \in k + 1 .. j - 1 : w[i].lock # w[k].lock
               PROVE  w[j].kind \in Acquires
    BY DEF FreeAfter
  <2>1. CASE j <= Len(s)
    <3>1. k \in 1 .. Len(s) /\ j \in k + 1 .. Len(s) /\ \A i \in k .. j : w[i] = s[i]
      BY <1>2, <1>3, <2>1
    <3>2. FreeAfter(s, k) BY <1>6, <3>1 DEF Good, Sound
    <3>3. w[k] = s[k] /\ w[j] = s[j] /\ \A i \in k + 1 .. j - 1 : w[i] = s[i] BY <3>1
    <3> QED BY <3>1, <3>2, <3>3 DEF FreeAfter
  <2>2. CASE k > Len(s)
    <3> DEFINE n == Len(s)
    <3>1. /\ k - n \in 1 .. Len(t) /\ j - n \in (k - n) + 1 .. Len(t)
          /\ w[k] = t[k - n] /\ w[j] = t[j - n]
      BY <1>2, <1>3, <2>2
    <3>2. FreeAfter(t, k - n) BY <1>6, <3>1 DEF Good, Sound
    <3>3. ASSUME NEW i \in (k - n) + 1 .. (j - n) - 1 PROVE t[i].lock # t[k - n].lock
      <4>1. n + i \in k + 1 .. j - 1 /\ n + i \in n + 1 .. Len(w) /\ (n + i) - n = i
        BY <1>2, <1>3, <2>2, <3>1
      <4>2. w[n + i] = t[i] BY <1>2, <4>1
      <4> QED BY <3>1, <4>1, <4>2
    <3> QED BY <3>1, <3>2, <3>3 DEF FreeAfter
  <2>3. CASE k <= Len(s) /\ j > Len(s)
    <3> DEFINE n == Len(s)
    <3>1. j - n \in 1 .. Len(t) /\ w[j] = t[j - n] BY <1>2, <1>3, <2>3
    <3>2. ASSUME t[j - n].kind \in Releases PROVE FALSE
      <4>1. PICK i \in 1 .. (j - n) - 1 : t[i].lock = t[j - n].lock
        BY <3>1, <3>2 DEF Good, Whole
      <4>2. n + i \in k + 1 .. j - 1 /\ n + i \in n + 1 .. Len(w) /\ (n + i) - n = i
        BY <1>2, <1>3, <2>3, <3>1, <4>1
      <4> QED BY <1>2, <3>1, <4>1, <4>2
    <3>3. t[j - n] \in OpRecord BY <1>1, <3>1
    <3> QED BY <3>1, <3>2, <3>3 DEF OpRecord, Acquires, Releases
  <2> QED BY <1>3, <2>1, <2>2, <2>3
<1> QED BY <1>2, <1>4, <1>5, <1>6 DEF Good, Sound, w

\* w is s between a lock operation and its counterpart.
Framed(w, a, l, s) ==
  /\ w \in Seq(OpRecord) /\ Len(w) = Len(s) + 2
  /\ w[1] = [kind |-> a, lock |-> l]
  /\ w[Len(s) + 2] = [kind |-> Partner(a), lock |-> l]
  /\ \A k \in 2 .. Len(s) + 1 : k - 1 \in 1 .. Len(s) /\ w[k] = s[k - 1]

LEMMA Wrapped ==
  ASSUME NEW l \in Lock, NEW a \in Acquires, NEW s \in Seq(OpRecord)
  PROVE  \E w : w = Op(a, l) \o s \o Op(Partner(a), l) /\ Framed(w, a, l, s)
<1> DEFINE first == [kind |-> a, lock |-> l]
           last == [kind |-> Partner(a), lock |-> l]
           v == <<first>> \o s
           w == v \o <<last>>
<1>1. first \in OpRecord /\ last \in OpRecord BY DEF OpRecord, Acquires, Partner
<1> HIDE DEF first, last
<1>2. <<first>> \in Seq(OpRecord) /\ <<last>> \in Seq(OpRecord) /\ Len(<<first>>) = 1 /\ Len(<<last>>) = 1
  BY <1>1
<1>3. Len(s) \in Nat OBVIOUS
<1>4. /\ v \in Seq(OpRecord) /\ Len(v) = Len(s) + 1 /\ v[1] = first
      /\ \A k \in 2 .. Len(s) + 1 : v[k] = s[k - 1]
  <2>1. /\ v \in Seq(OpRecord) /\ Len(v) = 1 + Len(s)
        /\ \A k \in 1 .. 1 + Len(s) : v[k] = IF k <= 1 THEN <<first>>[k] ELSE s[k - 1]
    BY <1>2, ConcatProperties
  <2> HIDE DEF v
  <2> QED BY <1>3, <2>1
<1>5. /\ w \in Seq(OpRecord) /\ Len(w) = Len(s) + 2 /\ w[Len(s) + 2] = last
      /\ \A k \in 1 .. Len(s) + 1 : w[k] = v[k]
  <2> HIDE DEF v
  <2>1. /\ w \in Seq(OpRecord) /\ Len(w) = Len(v) + 1
        /\ \A k \in 1 .. Len(v) + 1 : w[k] = IF k <= Len(v) THEN v[k] ELSE <<last>>[k - Len(v)]
    BY <1>2, <1>4, ConcatProperties
  <2> HIDE DEF w
  <2> QED BY <1>3, <1>4, <2>1
<1>6. w = Op(a, l) \o s \o Op(Partner(a), l) BY DEF Op, first, last
<1> HIDE DEF v, w
<1>7. w[1] = first /\ \A k \in 2 .. Len(s) + 1 : k - 1 \in 1 .. Len(s) /\ w[k] = s[k - 1]
  BY <1>3, <1>4, <1>5
<1> WITNESS w
<1> QED BY <1>3, <1>5, <1>6, <1>7 DEF first, last, Framed

LEMMA GoodWrap ==
  ASSUME NEW l \in Lock, NEW a \in Acquires, NEW s, Good(s), ~Mentions(s, l)
  PROVE  Good(Op(a, l) \o s \o Op(Partner(a), l))
<1> DEFINE n == Len(s)
<1>1. s \in Seq(OpRecord) /\ n \in Nat BY DEF Good, Sound
<1>0. PICK w : w = Op(a, l) \o s \o Op(Partner(a), l) /\ Framed(w, a, l, s) BY <1>1, Wrapped
<1>2. /\ w \in Seq(OpRecord) /\ Len(w) = n + 2
      /\ w[1] = [kind |-> a, lock |-> l]
      /\ w[n + 2] = [kind |-> Partner(a), lock |-> l]
      /\ \A k \in 2 .. n + 1 : k - 1 \in 1 .. n /\ w[k] = s[k - 1]
  BY <1>0 DEF Framed
<1>3. \A k \in 2 .. n + 1 : w[k].lock # l BY <1>2 DEF Mentions
<1>4. w[1].kind \in Acquires /\ w[1].kind \notin Releases BY <1>2 DEF Acquires, Releases
<1>5. Whole(w)
  <2> SUFFICES ASSUME NEW k \in 1 .. n + 2, w[k].kind \in Releases
               PROVE  \E i \in 1 .. k - 1 : w[i].lock = w[k].lock
    BY <1>2 DEF Whole
  <2>1. CASE k = 1 BY <1>4, <2>1
  <2>2. CASE k = n + 2 
    <3>1. 1 \in 1 .. k - 1 BY <1>1, <2>2
    <3> QED BY <1>2, <2>2, <3>1
  <2>3. CASE k \in 2 .. n + 1
    <3>1. k - 1 \in 1 .. n /\ w[k] = s[k - 1] BY <1>2, <2>3
    <3>2. PICK i \in 1 .. (k - 1) - 1 : s[i].lock = s[k - 1].lock BY <3>1 DEF Good, Whole
    <3>3. i + 1 \in 1 .. k - 1 /\ i + 1 \in 2 .. n + 1 /\ (i + 1) - 1 = i BY <1>1, <3>1, <3>2
    <3>4. w[i + 1] = s[i] BY <1>2, <3>3
    <3> QED BY <3>1, <3>2, <3>3, <3>4
  <2> QED BY <1>1, <2>1, <2>2, <2>3
<1>6. ASSUME NEW k \in 1 .. n + 2, w[k].kind \in Acquires PROVE GivenBack(w, k)
  <2>1. CASE k = 1
    <3>1. n + 2 \in k + 1 .. Len(w) /\ \A i \in k + 1 .. (n + 2) - 1 : i \in 2 .. n + 1
      BY <1>1, <1>2, <2>1
    <3> QED BY <1>2, <1>3, <2>1, <3>1 DEF GivenBack
  <2>2. CASE k = n + 2
    BY <1>2, <1>6, <2>2 DEF Partner, Acquires
  <2>3. CASE k \in 2 .. n + 1
    <3> DEFINE m == k - 1
    <3>1. m \in 1 .. n /\ w[k] = s[m] /\ k = m + 1 BY <1>1, <1>2, <2>3
    <3>2. PICK j \in m + 1 .. n :
            /\ s[j] = [kind |-> Partner(s[m].kind), lock |-> s[m].lock]
            /\ \A i \in m + 1 .. j - 1 : s[i].lock # s[m].lock
      BY <1>6, <3>1 DEF Good, Sound, GivenBack
    <3> HIDE DEF m
    <3>3. j + 1 \in k + 1 .. Len(w) /\ j + 1 \in 2 .. n + 1 /\ (j + 1) - 1 = j BY <1>1, <1>2, <3>1, <3>2
    <3>4. w[j + 1] = s[j] BY <1>2, <3>3
    <3>5. ASSUME NEW i \in k + 1 .. (j + 1) - 1 PROVE w[i].lock # w[k].lock
      <4>1. i - 1 \in m + 1 .. j - 1 /\ i \in 2 .. n + 1 BY <1>1, <3>1, <3>2
      <4>2. w[i] = s[i - 1] BY <1>2, <4>1
      <4> QED BY <3>1, <3>2, <4>1, <4>2
    <3> QED BY <3>1, <3>2, <3>3, <3>4, <3>5 DEF GivenBack
  <2> QED BY <1>1, <2>1, <2>2, <2>3
<1>7. ASSUME NEW k \in 1 .. n + 2, w[k].kind \in Releases PROVE FreeAfter(w, k)
  <2> SUFFICES ASSUME NEW j \in k + 1 .. n + 2, w[j].lock = w[k].lock,
                      \A i \in k + 1 .. j - 1 : w[i].lock # w[k].lock
               PROVE  w[j].kind \in Acquires
    BY <1>2 DEF FreeAfter
  <2>1. k # 1 BY <1>4, <1>7
  <2>2. k \in 2 .. n + 1 BY <1>1, <2>1
  <2>3. j # n + 2 BY <1>2, <1>3, <2>2
  <2>4. /\ k - 1 \in 1 .. n /\ j \in 2 .. n + 1 /\ j - 1 \in (k - 1) + 1 .. n
        /\ w[k] = s[k - 1] /\ w[j] = s[j - 1]
    <3>1. j \in 2 .. n + 1 /\ k - 1 \in 1 .. n /\ j - 1 \in (k - 1) + 1 .. n BY <1>1, <2>2, <2>3
    <3> QED BY <1>2, <2>2, <3>1
  <2>5. FreeAfter(s, k - 1) BY <1>7, <2>4 DEF Good, Sound
  <2>6. ASSUME NEW i \in (k - 1) + 1 .. (j - 1) - 1 PROVE s[i].lock # s[k - 1].lock
    <3>1. i + 1 \in k + 1 .. j - 1 /\ i + 1 \in 2 .. n + 1 /\ (i + 1) - 1 = i BY <1>1, <2>2, <2>4
    <3>2. w[i + 1] = s[i] BY <1>2, <3>1
    <3> QED BY <2>4, <3>1, <3>2
  <2> QED BY <2>4, <2>5, <2>6 DEF FreeAfter
<1> QED BY <1>0, <1>2, <1>5, <1>6, <1>7 DEF Good, Sound

LEMMA OrderedConcat ==
  ASSUME NEW s, NEW t, Good(s), Good(t), Ordered(s), Ordered(t) PROVE Ordered(s \o t)
<1> DEFINE w == s \o t
           n == Len(s)
<1>1. s \in Seq(OpRecord) /\ t \in Seq(OpRecord) /\ n \in Nat /\ Len(t) \in Nat BY DEF Good, Sound
<1>2. /\ Len(w) = n + Len(t)
      /\ \A k \in 1 .. n : w[k] = s[k]
      /\ \A k \in n + 1 .. n + Len(t) : k - n \in 1 .. Len(t) /\ w[k] = t[k - n]
  BY <1>1, ConcatProperties
<1> HIDE DEF w
<1> SUFFICES ASSUME NEW k \in 1 .. n + Len(t), NEW j \in 1 .. n + Len(t),
                    k < j, w[k].kind \in Acquires, w[j].kind \in Releases,
                    \A i \in k .. j - 1 : w[i].lock # w[j].lock
             PROVE  w[k].lock = HubLock /\ w[j].lock # HubLock
  BY <1>2 DEF Ordered, w
<1>3. CASE j <= n
  <2>1. k \in 1 .. n /\ j \in 1 .. n /\ \A i \in k .. j : i \in 1 .. n BY <1>1, <1>3
  <2>2. w[k] = s[k] /\ w[j] = s[j] /\ \A i \in k .. j - 1 : w[i] = s[i] BY <1>2, <2>1
  <2> QED BY <2>1, <2>2 DEF Ordered
<1>4. CASE k > n
  <2>1. /\ k - n \in 1 .. Len(t) /\ j - n \in 1 .. Len(t) /\ k - n < j - n
        /\ w[k] = t[k - n] /\ w[j] = t[j - n]
    BY <1>1, <1>2, <1>4
  <2>2. ASSUME NEW i \in k - n .. (j - n) - 1 PROVE t[i].lock # t[j - n].lock
    <3>1. n + i \in k .. j - 1 /\ n + i \in n + 1 .. n + Len(t) /\ (n + i) - n = i
      BY <1>1, <1>4, <2>1
    <3>2. w[n + i] = t[i] BY <1>2, <3>1
    <3> QED BY <2>1, <3>1, <3>2
  <2> QED BY <2>1, <2>2 DEF Ordered
<1>5. CASE k <= n /\ j > n
  <2>1. j - n \in 1 .. Len(t) /\ w[j] = t[j - n] BY <1>1, <1>2, <1>5
  <2>2. PICK i \in 1 .. (j - n) - 1 : t[i].lock = t[j - n].lock BY <2>1 DEF Good, Whole
  <2>3. n + i \in k .. j - 1 /\ n + i \in n + 1 .. n + Len(t) /\ (n + i) - n = i
    BY <1>1, <1>5, <2>1, <2>2
  <2>4. w[n + i] = t[i] BY <1>2, <2>3
  <2> QED BY <2>1, <2>2, <2>3, <2>4
<1> QED BY <1>1, <1>3, <1>4, <1>5

LEMMA OrderedWrap ==
  ASSUME NEW l \in Lock, NEW a \in Acquires, NEW s, Good(s), Ordered(s), ~Mentions(s, l),
         \A k \in 1 .. Len(s) : s[k].lock = HubLock /\ l # HubLock
  PROVE  Ordered(Op(a, l) \o s \o Op(Partner(a), l))
<1> DEFINE n == Len(s)
<1>1. s \in Seq(OpRecord) /\ n \in Nat BY DEF Good, Sound
<1>0. PICK w : w = Op(a, l) \o s \o Op(Partner(a), l) /\ Framed(w, a, l, s) BY <1>1, Wrapped
<1>2. /\ w \in Seq(OpRecord) /\ Len(w) = n + 2
      /\ w[1] = [kind |-> a, lock |-> l]
      /\ w[n + 2] = [kind |-> Partner(a), lock |-> l]
      /\ \A k \in 2 .. n + 1 : k - 1 \in 1 .. n /\ w[k] = s[k - 1]
  BY <1>0 DEF Framed
<1> SUFFICES ASSUME NEW k \in 1 .. n + 2, NEW j \in 1 .. n + 2,
                    k < j, w[k].kind \in Acquires, w[j].kind \in Releases,
                    \A i \in k .. j - 1 : w[i].lock # w[j].lock
             PROVE  w[k].lock = HubLock /\ w[j].lock # HubLock
  BY <1>0, <1>2 DEF Ordered
<1>3. CASE j = n + 2
  <2>1. k # 1 BY <1>1, <1>2, <1>3
  <2>2. k \in 2 .. n + 1 BY <1>1, <1>3, <2>1
  <2> QED BY <1>2, <1>3, <2>2
<1>4. CASE j \in 2 .. n + 1
  <2>1. j - 1 \in 1 .. n /\ w[j] = s[j - 1] BY <1>2, <1>4
  <2>2. PICK h \in 1 .. (j - 1) - 1 : s[h].lock = s[j - 1].lock BY <2>1 DEF Good, Whole
  <2>3. CASE k = 1
    <3>1. h + 1 \in k .. j - 1 /\ h + 1 \in 2 .. n + 1 /\ (h + 1) - 1 = h BY <1>1, <2>1, <2>2, <2>3
    <3>2. w[h + 1] = s[h] BY <1>2, <3>1
    <3> QED BY <2>1, <2>2, <3>1, <3>2
  <2>4. CASE k # 1
    <3>1. k \in 2 .. n + 1 BY <1>1, <1>4, <2>4
    <3>2. k - 1 \in 1 .. n /\ w[k] = s[k - 1] /\ k - 1 < j - 1 BY <1>1, <1>2, <1>4, <3>1
    <3>3. ASSUME NEW i \in k - 1 .. (j - 1) - 1 PROVE s[i].lock # s[j - 1].lock
      <4>1. i + 1 \in k .. j - 1 /\ i + 1 \in 2 .. n + 1 /\ (i + 1) - 1 = i BY <1>1, <1>4, <3>1
      <4>2. w[i + 1] = s[i] BY <1>2, <4>1
      <4> QED BY <2>1, <4>1, <4>2
    <3> QED BY <2>1, <3>2, <3>3 DEF Ordered
  <2> QED BY <2>3, <2>4
<1>5. j # 1 BY <1>1
<1> QED BY <1>1, <1>3, <1>4, <1>5

LEMMA MentionsConcat ==
  ASSUME NEW s, NEW t, NEW l, Good(s), Good(t), ~Mentions(s, l), ~Mentions(t, l)
  PROVE  ~Mentions(s \o t, l)
<1>1. s \in Seq(OpRecord) /\ t \in Seq(OpRecord) BY DEF Good, Sound
<1> QED BY <1>1, ConcatProperties DEF Mentions

\* What takes l and gives it back again around s.
LEMMA Around ==
  ASSUME NEW l \in Lock, NEW s, Good(s), ~Mentions(s, l)
  PROVE  /\ Good(Reading(l, s)) /\ Good(Writing(l, s))
         /\ Ordered(s) /\ (\A k \in 1 .. Len(s) : s[k].lock = HubLock /\ l # HubLock)
              => Ordered(Reading(l, s)) /\ Ordered(Writing(l, s))
<1>1. /\ "RLock" \in Acquires /\ Partner("RLock") = "RUnlock"
      /\ "Lock" \in Acquires /\ Partner("Lock") = "Unlock"
  BY DEF Acquires, Partner
<1>2. Good(Reading(l, s)) BY <1>1, GoodWrap DEF Reading
<1>3. Good(Writing(l, s)) BY <1>1, GoodWrap DEF Writing
<1>4. ASSUME Ordered(s), \A k \in 1 .. Len(s) : s[k].lock = HubLock /\ l # HubLock
      PROVE  Ordered(Reading(l, s)) /\ Ordered(Writing(l, s))
  BY <1>1, <1>4, OrderedWrap DEF Reading, Writing
<1> QED BY <1>2, <1>3, <1>4

\* What takes one lock for a moment.
LEMMA Brief ==
  ASSUME NEW l \in Lock
  PROVE  /\ Good(Reading(l, Nothing)) /\ Ordered(Reading(l, Nothing))
         /\ Good(Writing(l, Nothing)) /\ Ordered(Writing(l, Nothing))
         /\ \A k \in 1 .. Len(Reading(l, Nothing)) : Reading(l, Nothing)[k].lock = l
<1>1. ~Mentions(Nothing, l) /\ Nothing \in Seq(OpRecord) /\ Len(Nothing) = 0 BY DEF Mentions, Nothing
<1>2. PICK w : w = Reading(l, Nothing) /\ Framed(w, "RLock", l, Nothing)
  BY <1>1, Wrapped DEF Acquires, Partner, Reading
<1>3. \A k \in 1 .. Len(w) : w[k].lock = l
  <2>1. Len(w) = 2 /\ w[1].lock = l /\ w[2].lock = l BY <1>1, <1>2 DEF Framed
  <2> QED BY <2>1
<1>4. \A k \in 1 .. Len(Nothing) : Nothing[k].lock = HubLock /\ l # HubLock BY <1>1
<1> QED BY <1>1, <1>2, <1>3, <1>4, GoodNothing, Around

\* A lookup in the hub, alone or under a room's lock.
LEMMA LookUps ==
  /\ Good(LookUp) /\ Ordered(LookUp)
  /\ \A r \in Room : Good(Writing(r, LookUp)) /\ Ordered(Writing(r, LookUp))
<1>1. HubLock \in Lock /\ \A r \in Room : r \in Lock /\ r # HubLock BY LockAssumption DEF Lock
<1>2. Good(LookUp) /\ Ordered(LookUp) /\ \A k \in 1 .. Len(LookUp) : LookUp[k].lock = HubLock
  BY <1>1, Brief DEF LookUp
<1>3. \A r \in Room : ~Mentions(LookUp, r) BY <1>1, <1>2 DEF Mentions
<1> QED BY <1>1, <1>2, <1>3, Around

\* Both of two.
LEMMA InTurn ==
  ASSUME NEW s, NEW t, Good(s) /\ Ordered(s), Good(t) /\ Ordered(t)
  PROVE  Good(s \o t) /\ Ordered(s \o t)
  BY GoodConcat, OrderedConcat

LEMMA OperationsGood ==
  ASSUME NEW t \in Thread, NEW s \in Operations(t)
  PROVE  Good(s) /\ (t \notin Listers => Ordered(s))
<1>1. HubLock \in Lock /\ \A r \in Room : r \in Lock /\ r # HubLock BY LockAssumption DEF Lock
<1>2. \A l \in Lock : /\ Good(Reading(l, Nothing)) /\ Ordered(Reading(l, Nothing))
                      /\ Good(Writing(l, Nothing)) /\ Ordered(Writing(l, Nothing))
  BY Brief
<1>3. Good(Register) /\ Ordered(Register) BY <1>1, <1>2 DEF Register
<1>4. ASSUME NEW r \in Room PROVE Good(Unregister(r)) /\ Ordered(Unregister(r))
  <2>1. Good(Writing(HubLock, Nothing) \o LookUp) /\ Ordered(Writing(HubLock, Nothing) \o LookUp)
    BY <1>1, <1>2, LookUps, InTurn
  <2> QED BY <2>1, LookUps, InTurn DEF Unregister, BroadcastHeld
<1>5. ASSUME NEW r \in Room PROVE Good(Handler(r)) /\ Ordered(Handler(r))
  BY LookUps, InTurn DEF Handler, BroadcastHeld
<1>6. ASSUME NEW r \in Room PROVE Good(Chat(r)) /\ Ordered(Chat(r))
  <2>1. Good(LookUp \o Reading(r, Nothing)) /\ Ordered(LookUp \o Reading(r, Nothing))
    BY <1>1, <1>2, LookUps, InTurn
  <2> QED BY <2>1, LookUps, InTurn DEF Chat
<1>7. ASSUME NEW r \in Room PROVE Good(SeatWaiters(r)) /\ Ordered(SeatWaiters(r))
  BY <1>1, <1>2, InTurn DEF SeatWaiters
<1>8. ASSUME NEW r \in Room PROVE Good(FillRoom(r)) /\ Ordered(FillRoom(r))
  <2> DEFINE u == Reading(r, Nothing) \o Writing(r, Nothing)
             v == u \o Writing(HubLock, Nothing)
  <2>1. Good(u) /\ Ordered(u) BY <1>1, <1>2, InTurn
  <2> HIDE DEF u
  <2>2. Good(v) /\ Ordered(v) BY <1>1, <1>2, <2>1, InTurn
  <2> HIDE DEF v
  <2>3. Good(v \o Writing(r, Nothing)) /\ Ordered(v \o Writing(r, Nothing))
    BY <1>1, <1>2, <2>2, InTurn
  <2> QED BY <2>3 DEF FillRoom, u, v
<1>9. ASSUME s \in ListRooms PROVE Good(s)
  <2>1. PICK q \in Room \X Room :
          s = Reading(HubLock, Reading(q[1], Nothing) \o Reading(q[2], Nothing))
    BY <1>9 DEF ListRooms
  <2> DEFINE u == Reading(q[1], Nothing) \o Reading(q[2], Nothing)
  <2>2. q[1] \in Room /\ q[2] \in Room BY <2>1
  <2>3. \A r \in Room : Good(Reading(r, Nothing)) /\ ~Mentions(Reading(r, Nothing), HubLock)
    <3> SUFFICES ASSUME NEW r \in Room
                 PROVE  Good(Reading(r, Nothing)) /\ ~Mentions(Reading(r, Nothing), HubLock)
      OBVIOUS
    <3> QED BY <1>1, Brief DEF Mentions
  <2>4. Good(u) /\ ~Mentions(u, HubLock) BY <2>2, <2>3, GoodConcat, MentionsConcat
  <2> HIDE DEF u
  <2>5. Good(Reading(HubLock, u)) BY <1>1, <2>4, Around
  <2> QED BY <2>1, <2>5 DEF u
<1>10. CASE t = HubLoop /\ s \in {Register} \cup UNION {{Unregister(r), Handler(r), Chat(r)} : r \in Room}
  BY <1>3, <1>4, <1>5, <1>6, <1>10
<1>11. CASE t \in Callbacks /\ s \in {Handler(r) : r \in Room} BY <1>5, <1>11
<1>12. CASE t = Matchmaker /\ s \in {SeatWaiters(r) : r \in Room} BY <1>7, <1>12
<1>13. CASE t = Manager /\ s \in {FillRoom(r) : r \in Room} BY <1>8, <1>13
<1>14. CASE t \in Listers /\ s \in ListRooms BY <1>9, <1>14
<1> QED BY <1>10, <1>11, <1>12, <1>13, <1>14 DEF Operations
----------------------------------------------------------------------------
(* What is left after the first step. *)

\* The next step of s on l is of this kind.
NextGives(s, l, kind) ==
  \E k \in 1 .. Len(s) :
    /\ s[k] = [kind |-> kind, lock |-> l]
    /\ \A j \in 1 .. k - 1 : s[j].lock # l

LEMMA TailProperties ==
  ASSUME NEW s \in Seq(OpRecord), s # << >>
  PROVE  /\ Head(s) \in OpRecord /\ Head(s) = s[1] /\ Len(s) \in Nat /\ Len(s) >= 1
         /\ Tail(s) \in Seq(OpRecord) /\ Len(Tail(s)) = Len(s) - 1
         /\ \A k \in 1 .. Len(s) - 1 : Tail(s)[k] = s[k + 1]
<1>1. Len(s) \in Nat /\ Len(s) # 0 /\ Head(s) = s[1] BY EmptySeq
<1>2. 1 \in 1 .. Len(s) BY <1>1
<1> QED BY <1>1, <1>2, HeadTailProperties

LEMMA SoundTail ==
  ASSUME NEW s, Sound(s), s # << >>
  PROVE  Sound(Tail(s)) /\ (Ordered(s) => Ordered(Tail(s)))
<1>1. s \in Seq(OpRecord) BY DEF Sound
<1> DEFINE n == Len(s)
<1>2. PICK r : r = Tail(s) OBVIOUS
<1>3. /\ n \in Nat /\ n >= 1 /\ r \in Seq(OpRecord) /\ Len(r) = n - 1
      /\ \A k \in 1 .. n - 1 : r[k] = s[k + 1]
  BY <1>1, <1>2, TailProperties
<1>4. ASSUME NEW k \in 1 .. n - 1, r[k].kind \in Acquires PROVE GivenBack(r, k)
  <2>1. k + 1 \in 1 .. n /\ s[k + 1] = r[k] BY <1>3
  <2>2. PICK j \in k + 2 .. n :
          /\ s[j] = [kind |-> Partner(r[k].kind), lock |-> r[k].lock]
          /\ \A i \in k + 2 .. j - 1 : s[i].lock # r[k].lock
    <3>1. GivenBack(s, k + 1) BY <1>4, <2>1 DEF Sound
    <3>2. (k + 1) + 1 = k + 2 BY <1>3
    <3> QED BY <2>1, <3>1, <3>2 DEF GivenBack
  <2>3. j - 1 \in k + 1 .. n - 1 /\ j - 1 \in 1 .. n - 1 /\ (j - 1) + 1 = j BY <1>3, <2>2
  <2>4. r[j - 1] = s[j] BY <1>3, <2>3
  <2>5. ASSUME NEW i \in k + 1 .. (j - 1) - 1 PROVE r[i].lock # r[k].lock
    <3>1. i + 1 \in k + 2 .. j - 1 /\ i \in 1 .. n - 1 BY <1>3, <2>2
    <3>2. r[i] = s[i + 1] BY <1>3, <3>1
    <3> QED BY <2>2, <3>1, <3>2
  <2> QED BY <1>3, <2>2, <2>3, <2>4, <2>5 DEF GivenBack
<1>5. ASSUME NEW k \in 1 .. n - 1, r[k].kind \in Releases PROVE FreeAfter(r, k)
  <2>1. k + 1 \in 1 .. n /\ s[k + 1] = r[k] /\ (k + 1) + 1 = k + 2 BY <1>3
  <2> SUFFICES ASSUME NEW j \in k + 1 .. n - 1, r[j].lock = r[k].lock,
                      \A i \in k + 1 .. j - 1 : r[i].lock # r[k].lock
               PROVE  r[j].kind \in Acquires
    BY <1>3 DEF FreeAfter
  <2>2. j + 1 \in k + 2 .. n /\ j \in 1 .. n - 1 BY <1>3
  <2>3. r[j] = s[j + 1] BY <1>3, <2>2
  <2>4. ASSUME NEW i \in k + 2 .. (j + 1) - 1 PROVE s[i].lock # s[k + 1].lock
    <3>1. i - 1 \in k + 1 .. j - 1 /\ i - 1 \in 1 .. n - 1 /\ (i - 1) + 1 = i BY <1>3, <2>2
    <3>2. r[i - 1] = s[i] BY <1>3, <3>1
    <3> QED BY <2>1, <3>1, <3>2
  <2>5. FreeAfter(s, k + 1) BY <1>5, <2>1 DEF Sound
  <2> QED BY <2>1, <2>2, <2>3, <2>4, <2>5 DEF FreeAfter
<1>6. ASSUME Ordered(s) PROVE Ordered(r)
  <2> SUFFICES ASSUME NEW k \in 1 .. n - 1, NEW j \in 1 .. n - 1,
                      k < j, r[k].kind \in Acquires, r[j].kind \in Releases,
                      \A i \in k .. j - 1 : r[i].lock # r[j].lock
               PROVE  r[k].lock = HubLock /\ r[j].lock # HubLock
    BY <1>3 DEF Ordered
  <2>1. /\ k + 1 \in 1 .. n /\ j + 1 \in 1 .. n /\ k + 1 < j + 1
        /\ r[k] = s[k + 1] /\ r[j] = s[j + 1]
    BY <1>3
  <2>2. ASSUME NEW i \in k + 1 .. (j + 1) - 1 PROVE s[i].lock # s[j + 1].lock
    <3>1. i - 1 \in k .. j - 1 /\ i - 1 \in 1 .. n - 1 /\ (i - 1) + 1 = i BY <1>3
    <3>2. r[i - 1] = s[i] BY <1>3, <3>1
    <3> QED BY <2>1, <3>1, <3>2
  <2> QED BY <1>6, <2>1, <2>2 DEF Ordered
<1> QED BY <1>2, <1>3, <1>4, <1>5, <1>6 DEF Sound

\* There is one next step on a lock.
LEMMA OneNext ==
  ASSUME NEW s \in Seq(OpRecord), NEW l, NEW a, NEW b,
         NextGives(s, l, a), NextGives(s, l, b)
  PROVE  a = b
<1>1. PICK j \in 1 .. Len(s) :
        s[j] = [kind |-> a, lock |-> l] /\ \A i \in 1 .. j - 1 : s[i].lock # l
  BY DEF NextGives
<1>2. PICK k \in 1 .. Len(s) :
        s[k] = [kind |-> b, lock |-> l] /\ \A i \in 1 .. k - 1 : s[i].lock # l
  BY DEF NextGives
<1>3. s[j].lock = l /\ s[k].lock = l /\ s[j].kind = a /\ s[k].kind = b BY <1>1, <1>2
<1>4. ~(j < k) /\ ~(k < j) BY <1>1, <1>2, <1>3
<1>5. j = k BY <1>4
<1> QED BY <1>3, <1>5

LEMMA NextIsHead ==
  ASSUME NEW s \in Seq(OpRecord), s # << >> PROVE NextGives(s, Head(s).lock, Head(s).kind)
<1>1. Head(s) \in OpRecord /\ Head(s) = s[1] /\ 1 \in 1 .. Len(s) BY TailProperties
<1>2. s[1] = [kind |-> Head(s).kind, lock |-> Head(s).lock] BY <1>1 DEF OpRecord
<1> QED BY <1>1, <1>2 DEF NextGives

\* A step on another lock changes nothing ...
LEMMA NextOnOther ==
  ASSUME NEW s \in Seq(OpRecord), s # << >>, NEW l, l # Head(s).lock, NEW kind
  PROVE  NextGives(Tail(s), l, kind) <=> NextGives(s, l, kind)
<1> DEFINE n == Len(s)
<1>1. PICK r : r = Tail(s) OBVIOUS
<1>2. /\ n \in Nat /\ n >= 1 /\ Len(r) = n - 1 /\ s[1].lock # l
      /\ \A k \in 1 .. n - 1 : r[k] = s[k + 1]
  BY <1>1, TailProperties
<1>3. ASSUME NextGives(r, l, kind) PROVE NextGives(s, l, kind)
  <2>1. PICK k \in 1 .. n - 1 :
          r[k] = [kind |-> kind, lock |-> l] /\ \A j \in 1 .. k - 1 : r[j].lock # l
    BY <1>2, <1>3 DEF NextGives
  <2>2. k + 1 \in 1 .. n /\ s[k + 1] = r[k] BY <1>2
  <2>3. ASSUME NEW j \in 1 .. (k + 1) - 1 PROVE s[j].lock # l
    <3>1. CASE j = 1 BY <1>2, <3>1
    <3>2. CASE j # 1
      <4>1. j - 1 \in 1 .. k - 1 /\ j - 1 \in 1 .. n - 1 /\ (j - 1) + 1 = j BY <1>2, <3>2
      <4>2. r[j - 1] = s[j] BY <1>2, <4>1
      <4> QED BY <2>1, <4>1, <4>2
    <3> QED BY <3>1, <3>2
  <2> QED BY <2>1, <2>2, <2>3 DEF NextGives
<1>4. ASSUME NextGives(s, l, kind) PROVE NextGives(r, l, kind)
  <2>1. PICK k \in 1 .. n :
          s[k] = [kind |-> kind, lock |-> l] /\ \A j \in 1 .. k - 1 : s[j].lock # l
    BY <1>2, <1>4 DEF NextGives
  <2>2. k # 1 BY <1>2, <2>1
  <2>3. k - 1 \in 1 .. n - 1 /\ (k - 1) + 1 = k BY <1>2, <2>2
  <2>4. r[k - 1] = s[k] BY <1>2, <2>3
  <2>5. ASSUME NEW j \in 1 .. (k - 1) - 1 PROVE r[j].lock # l
    <3>1. j + 1 \in 1 .. k - 1 /\ j \in 1 .. n - 1 BY <1>2, <2>3
    <3>2. r[j] = s[j + 1] BY <1>2, <3>1
    <3> QED BY <2>1, <3>1, <3>2
  <2> QED BY <1>2, <2>1, <2>3, <2>4, <2>5 DEF NextGives
<1> QED BY <1>1, <1>3, <1>4

\* ... one that takes a lock is followed by the one that gives it back ...
LEMMA NextAfterTaking ==
  ASSUME NEW s, Sound(s), s # << >>, Head(s).kind \in Acquires
  PROVE  NextGives(Tail(s), Head(s).lock, Partner(Head(s).kind))
<1> DEFINE n == Len(s)
<1>1. PICK r : r = Tail(s) OBVIOUS
<1>2. /\ n \in Nat /\ n >= 1 /\ Len(r) = n - 1 /\ s[1] = Head(s) /\ 1 \in 1 .. n
      /\ \A k \in 1 .. n - 1 : r[k] = s[k + 1]
  BY <1>1, TailProperties DEF Sound
<1>3. GivenBack(s, 1) BY <1>2 DEF Sound
<1>4. 1 + 1 = 2 OBVIOUS
<1>5. PICK j \in 2 .. n : /\ s[j] = [kind |-> Partner(Head(s).kind), lock |-> Head(s).lock]
                         /\ \A i \in 2 .. j - 1 : s[i].lock # Head(s).lock
  BY <1>2, <1>3, <1>4 DEF GivenBack
<1>6. j - 1 \in 1 .. n - 1 /\ (j - 1) + 1 = j BY <1>2
<1>7. r[j - 1] = s[j] BY <1>2, <1>6
<1>8. ASSUME NEW i \in 1 .. (j - 1) - 1 PROVE r[i].lock # Head(s).lock
  <2>1. i + 1 \in 2 .. j - 1 /\ i \in 1 .. n - 1 BY <1>2, <1>6
  <2>2. r[i] = s[i + 1] BY <1>2, <2>1
  <2> QED BY <1>5, <2>1, <2>2
<1> QED BY <1>1, <1>2, <1>5, <1>6, <1>7, <1>8 DEF NextGives

\* ... and one that gives it back by none that does.
LEMMA NextAfterGiving ==
  ASSUME NEW s, Sound(s), s # << >>, Head(s).kind \in Releases, NEW kind \in Releases
  PROVE  ~NextGives(Tail(s), Head(s).lock, kind)
<1> DEFINE n == Len(s)
<1>1. PICK r : r = Tail(s) OBVIOUS
<1>2. /\ n \in Nat /\ n >= 1 /\ Len(r) = n - 1 /\ s[1] = Head(s) /\ 1 \in 1 .. n
      /\ \A k \in 1 .. n - 1 : r[k] = s[k + 1]
  BY <1>1, TailProperties DEF Sound
<1>3. FreeAfter(s, 1) BY <1>2 DEF Sound
<1> SUFFICES ASSUME NextGives(r, Head(s).lock, kind) PROVE FALSE
  BY <1>1
<1>4. PICK k \in 1 .. n - 1 : /\ r[k] = [kind |-> kind, lock |-> Head(s).lock]
                             /\ \A j \in 1 .. k - 1 : r[j].lock # Head(s).lock
  BY <1>2 DEF NextGives
<1>5. k + 1 \in 1 + 1 .. n /\ s[k + 1] = r[k] BY <1>2
<1>6. ASSUME NEW i \in 1 + 1 .. (k + 1) - 1 PROVE s[i].lock # Head(s).lock
  <2>1. i - 1 \in 1 .. k - 1 /\ i - 1 \in 1 .. n - 1 /\ (i - 1) + 1 = i BY <1>2
  <2>2. r[i - 1] = s[i] BY <1>2, <2>1
  <2> QED BY <1>4, <2>1, <2>2
<1>7. s[k + 1].kind = kind /\ s[k + 1].lock = s[1].lock BY <1>2, <1>4, <1>5
<1>8. kind \in Acquires BY <1>2, <1>3, <1>5, <1>6, <1>7 DEF FreeAfter
<1> QED BY <1>8 DEF Acquires, Releases
----------------------------------------------------------------------------
(* The invariant. *)

\* What LocksOK says of one thread and one lock.
Agrees(t, l) ==
  /\ t \in readers[l] <=> NextGives(rest[t], l, "RUnlock")
  /\ (writing[l] = t /\ exclusive[l]) <=> NextGives(rest[t], l, "Unlock")

RestTypeOK == rest \in [Thread -> Seq(OpRecord)]
Alone == \A l \in Lock : exclusive[l] => readers[l] = {}

LEMMA LocksOKAgrees ==
  LocksOK <=> RestTypeOK /\ Alone /\ \A t \in Thread, l \in Lock : Agrees(t, l)
<1> SUFFICES ASSUME RestTypeOK
             PROVE  \A t \in Thread, l \in Lock, kind \in Releases : GivesBack(t, l, kind) <=> NextGives(rest[t], l, kind)
  BY DEF LocksOK, RestTypeOK, Alone, Agrees, Releases
<1> SUFFICES ASSUME NEW t \in Thread PROVE DOMAIN rest[t] = 1 .. Len(rest[t])
  BY DEF GivesBack, NextGives
<1>1. rest[t] \in Seq(OpRecord) BY DEF RestTypeOK
<1> QED BY <1>1

\* The thread that takes a step, and what is left of its operation.
LEMMA AtHead ==
  ASSUME IInv, NEW t \in Thread, rest[t] # << >>
  PROVE  /\ rest[t] \in Seq(OpRecord) /\ TheLock(t) \in Lock
         /\ Tail(rest[t]) \in Seq(OpRecord)
         /\ Sound(rest[t]) /\ Sound(Tail(rest[t]))
         /\ t \notin Listers => Ordered(Tail(rest[t]))
         /\ NextGives(rest[t], TheLock(t), Head(rest[t]).kind)
<1>1. rest[t] \in Seq(OpRecord) /\ Sound(rest[t]) BY LocksOKAgrees DEF IInv, RestTypeOK
<1>2. Head(rest[t]) \in OpRecord /\ Tail(rest[t]) \in Seq(OpRecord) BY <1>1, TailProperties
<1>3. TheLock(t) \in Lock BY <1>2 DEF TheLock, OpRecord
<1>4. Sound(Tail(rest[t])) /\ (t \notin Listers => Ordered(Tail(rest[t])))
  BY <1>1, SoundTail DEF IInv
<1> QED BY <1>1, <1>2, <1>3, <1>4, NextIsHead DEF TheLock

\* What every step of an operation does to rest, and what it leaves to show.
LEMMA AStep ==
  ASSUME IInv, NEW t \in Thread, rest[t] # << >>, Done(t),
         NEW l, l = TheLock(t),
         LocksTypeOK', Announced', Alone',
         \A m \in Lock \ {l} :
           readers'[m] = readers[m] /\ writing'[m] = writing[m] /\ exclusive'[m] = exclusive[m],
         \A u \in Thread \ {t} :
           /\ u \in readers'[l] <=> u \in readers[l]
           /\ (writing'[l] = u /\ exclusive'[l]) <=> (writing[l] = u /\ exclusive[l]),
         t \in readers'[l] <=> NextGives(Tail(rest[t]), l, "RUnlock"),
         (writing'[l] = t /\ exclusive'[l]) <=> NextGives(Tail(rest[t]), l, "Unlock")
  PROVE  IInv'
<1>1. /\ RestTypeOK /\ l \in Lock /\ rest[t] \in Seq(OpRecord)
      /\ \A u \in Thread, m \in Lock : Agrees(u, m)
  BY AtHead, LocksOKAgrees DEF IInv
<1>2. /\ rest'[t] = Tail(rest[t]) /\ \A u \in Thread \ {t} : rest'[u] = rest[u]
      /\ RestTypeOK'
  BY <1>1, AtHead DEF Done, RestTypeOK
<1>3. ASSUME NEW u \in Thread, NEW m \in Lock PROVE Agrees(u, m)'
  <2>1. CASE u # t /\ m # l BY <1>1, <1>2, <2>1 DEF Agrees
  <2>2. CASE u # t /\ m = l BY <1>1, <1>2, <2>2 DEF Agrees
  <2>3. CASE u = t /\ m # l
    <3>1. \A kind : NextGives(Tail(rest[t]), m, kind) <=> NextGives(rest[t], m, kind)
      BY <1>1, <2>3, NextOnOther DEF TheLock
    <3> QED BY <1>1, <1>2, <2>3, <3>1 DEF Agrees
  <2>4. CASE u = t /\ m = l BY <1>2, <2>4 DEF Agrees
  <2> QED BY <2>1, <2>2, <2>3, <2>4
<1>4. LocksOK'
  <2>1. \A u \in Thread : DOMAIN rest'[u] = 1 .. Len(rest'[u]) BY <1>2 DEF RestTypeOK
  <2>2. \A u \in Thread, m \in Lock, kind \in Releases :
          GivesBack(u, m, kind)' <=> NextGives(rest'[u], m, kind)
    BY <2>1 DEF GivesBack, NextGives
  <2> QED BY <1>2, <1>3, <2>2 DEF LocksOK, RestTypeOK, Alone, Agrees, Releases
<1>5. \A u \in Thread : Sound(rest'[u]) BY <1>2, AtHead DEF IInv
<1>6. \A u \in Thread \ Listers : Ordered(rest'[u]) BY <1>2, AtHead DEF IInv
<1> QED BY <1>4, <1>5, <1>6 DEF IInv

\* Between Lock() and its return, who waits is at that call.
LEMMA WaitsAtHead ==
  ASSUME IInv, NEW t \in Thread, NEW m \in Lock, writing[m] = t, ~exclusive[m]
  PROVE  rest[t] # << >> /\ Head(rest[t]).kind = "Lock" /\ TheLock(t) = m
<1>1. t # Free BY LockAssumption
<1>2. rest[t] # << >> /\ Head(rest[t]) = [kind |-> "Lock", lock |-> m]
  BY <1>1 DEF IInv, Announced
<1> QED BY <1>2 DEF TheLock

LEMMA RLockStep ==
  ASSUME IInv, NEW t \in Thread, RLock(t) PROVE IInv'
<1> DEFINE l == TheLock(t)
<1>1. /\ rest[t] # << >> /\ Head(rest[t]).kind = "RLock" /\ writing[l] = Free
      /\ readers' = [readers EXCEPT ![l] = @ \cup {t}]
      /\ Done(t) /\ writing' = writing /\ exclusive' = exclusive
  BY DEF RLock, Now
<1>2. /\ l \in Lock /\ rest[t] \in Seq(OpRecord) /\ Sound(rest[t])
      /\ Tail(rest[t]) \in Seq(OpRecord)
  BY <1>1, AtHead
<1>3. LocksTypeOK /\ Announced /\ Alone /\ t # Free BY LocksOKAgrees, LockAssumption DEF IInv
<1>4. ~exclusive[l] BY <1>1, <1>2, <1>3 DEF Announced
<1>5. NextGives(Tail(rest[t]), l, "RUnlock")
  BY <1>1, <1>2, NextAfterTaking DEF Acquires, Partner, TheLock
<1>6. ~NextGives(Tail(rest[t]), l, "Unlock") BY <1>2, <1>5, OneNext
<1>7. /\ t \in readers'[l] /\ \A m \in Lock \ {l} : readers'[m] = readers[m]
      /\ \A u \in Thread \ {t} : u \in readers'[l] <=> u \in readers[l]
  BY <1>1, <1>2, <1>3 DEF LocksTypeOK
<1>8. LocksTypeOK' BY <1>1, <1>2, <1>3 DEF LocksTypeOK
<1>9. Alone' BY <1>1, <1>3, <1>4, <1>7 DEF Alone
<1>10. Announced'
  <2> SUFFICES ASSUME NEW m \in Lock
               PROVE  IF exclusive'[m] THEN writing'[m] # Free
                      ELSE writing'[m] # Free =>
                             /\ rest'[writing'[m]] # << >>
                             /\ Head(rest'[writing'[m]]) = [kind |-> "Lock", lock |-> m]
    BY DEF Announced
  <2>1. CASE writing[m] = t /\ ~exclusive[m] BY <1>1, <2>1, WaitsAtHead
  <2>2. CASE writing[m] # t
    <3>1. writing[m] # Free => rest'[writing[m]] = rest[writing[m]]
      BY <1>1, <1>3, <2>2, LocksOKAgrees DEF IInv, Done, RestTypeOK, LocksTypeOK
    <3> QED BY <1>1, <1>3, <3>1 DEF Announced
  <2>3. CASE exclusive[m] BY <1>1, <1>3, <2>3 DEF Announced
  <2> QED BY <2>1, <2>2, <2>3
<1> HIDE DEF l
<1> QED BY <1>1, <1>2, <1>3, <1>4, <1>5, <1>6, <1>7, <1>8, <1>9, <1>10, AStep DEF l

LEMMA RUnlockStep ==
  ASSUME IInv, NEW t \in Thread, RUnlock(t) PROVE IInv'
<1> DEFINE l == TheLock(t)
<1>1. /\ rest[t] # << >> /\ Head(rest[t]).kind = "RUnlock"
      /\ readers' = [readers EXCEPT ![l] = @ \ {t}]
      /\ Done(t) /\ writing' = writing /\ exclusive' = exclusive
  BY DEF RUnlock, Now
<1>2. /\ l \in Lock /\ rest[t] \in Seq(OpRecord) /\ Sound(rest[t])
      /\ NextGives(rest[t], l, "RUnlock")
  BY <1>1, AtHead
<1>3. LocksTypeOK /\ Announced /\ Alone /\ t # Free /\ Agrees(t, l)
  BY <1>2, LocksOKAgrees, LockAssumption DEF IInv
<1>4. ~exclusive[l]
  <2>1. t \in readers[l] BY <1>2, <1>3 DEF Agrees
  <2> QED BY <1>2, <1>3, <2>1 DEF Alone
<1>5. ~NextGives(Tail(rest[t]), l, "RUnlock") /\ ~NextGives(Tail(rest[t]), l, "Unlock")
  BY <1>1, <1>2, NextAfterGiving DEF Releases, TheLock
<1>6. /\ t \notin readers'[l] /\ \A m \in Lock \ {l} : readers'[m] = readers[m]
      /\ \A u \in Thread \ {t} : u \in readers'[l] <=> u \in readers[l]
  BY <1>1, <1>2, <1>3 DEF LocksTypeOK
<1>7. LocksTypeOK' BY <1>1, <1>2, <1>3 DEF LocksTypeOK
<1>8. Alone' BY <1>1, <1>3, <1>4, <1>6 DEF Alone
<1>9. Announced'
  <2> SUFFICES ASSUME NEW m \in Lock
               PROVE  IF exclusive'[m] THEN writing'[m] # Free
                      ELSE writing'[m] # Free =>
                             /\ rest'[writing'[m]] # << >>
                             /\ Head(rest'[writing'[m]]) = [kind |-> "Lock", lock |-> m]
    BY DEF Announced
  <2>1. CASE writing[m] = t /\ ~exclusive[m] BY <1>1, <2>1, WaitsAtHead
  <2>2. CASE writing[m] # t
    <3>1. writing[m] # Free => rest'[writing[m]] = rest[writing[m]]
      BY <1>1, <1>3, <2>2, LocksOKAgrees DEF IInv, Done, RestTypeOK, LocksTypeOK
    <3> QED BY <1>1, <1>3, <3>1 DEF Announced
  <2>3. CASE exclusive[m] BY <1>1, <1>3, <2>3 DEF Announced
  <2> QED BY <2>1, <2>2, <2>3
<1> HIDE DEF l
<1> QED BY <1>1, <1>2, <1>4, <1>5, <1>6, <1>7, <1>8, <1>9, AStep DEF l

LEMMA AnnounceStep ==
  ASSUME IInv, NEW t \in Thread, Announce(t) PROVE IInv'
<1> DEFINE l == TheLock(t)
<1>1. /\ rest[t] # << >> /\ Head(rest[t]).kind = "Lock" /\ writing[l] = Free
      /\ writing' = [writing EXCEPT ![l] = t]
      /\ rest' = rest /\ readers' = readers /\ exclusive' = exclusive
  BY DEF Announce, Now
<1>2. l \in Lock /\ rest[t] \in Seq(OpRecord) BY <1>1, AtHead
<1>3. /\ LocksTypeOK /\ Announced /\ Alone /\ RestTypeOK
      /\ \A u \in Thread, m \in Lock : Agrees(u, m)
  BY LocksOKAgrees DEF IInv
<1>4. ~exclusive[l] BY <1>1, <1>2, <1>3 DEF Announced
<1>5. Head(rest[t]) = [kind |-> "Lock", lock |-> l]
  <2>1. Head(rest[t]) \in OpRecord BY <1>1, <1>2, TailProperties
  <2> QED BY <1>1, <2>1 DEF OpRecord, TheLock
<1>6. /\ writing'[l] = t /\ \A m \in Lock \ {l} : writing'[m] = writing[m]
      /\ LocksTypeOK'
  BY <1>1, <1>2, <1>3 DEF LocksTypeOK
<1>7. Announced' BY <1>1, <1>3, <1>4, <1>5, <1>6 DEF Announced
<1>8. \A u \in Thread, m \in Lock :
        (writing'[m] = u /\ exclusive'[m]) <=> (writing[m] = u /\ exclusive[m])
  BY <1>1, <1>4, <1>6
<1>9. LocksOK'
  <2>1. \A u \in Thread, m \in Lock, kind \in Releases : GivesBack(u, m, kind)' <=> GivesBack(u, m, kind)
    BY <1>1 DEF GivesBack
  <2> HIDE DEF l
  <2>2. LocksOK BY DEF IInv
  <2> QED BY <1>1, <1>8, <2>1, <2>2 DEF LocksOK, Releases
<1> QED BY <1>1, <1>6, <1>7, <1>9 DEF IInv

LEMMA AcquireStep ==
  ASSUME IInv, NEW t \in Thread, Acquire(t) PROVE IInv'
<1> DEFINE l == TheLock(t)
<1>1. /\ rest[t] # << >> /\ Head(rest[t]).kind = "Lock" /\ writing[l] = t /\ readers[l] = {}
      /\ exclusive' = [exclusive EXCEPT ![l] = TRUE]
      /\ Done(t) /\ writing' = writing /\ readers' = readers
  BY DEF Acquire, Now
<1>2. /\ l \in Lock /\ rest[t] \in Seq(OpRecord) /\ Sound(rest[t])
      /\ Tail(rest[t]) \in Seq(OpRecord)
  BY <1>1, AtHead
<1>3. LocksTypeOK /\ Announced /\ Alone /\ t # Free BY LocksOKAgrees, LockAssumption DEF IInv
<1>4. NextGives(Tail(rest[t]), l, "Unlock")
  BY <1>1, <1>2, NextAfterTaking DEF Acquires, Partner, TheLock
<1>5. ~NextGives(Tail(rest[t]), l, "RUnlock") BY <1>2, <1>4, OneNext
<1>6. /\ exclusive'[l] /\ \A m \in Lock \ {l} : exclusive'[m] = exclusive[m]
      /\ LocksTypeOK'
  BY <1>1, <1>2, <1>3 DEF LocksTypeOK
<1>7. Alone' BY <1>1, <1>3, <1>6 DEF Alone
<1>8. Announced'
  <2> SUFFICES ASSUME NEW m \in Lock
               PROVE  IF exclusive'[m] THEN writing'[m] # Free
                      ELSE writing'[m] # Free =>
                             /\ rest'[writing'[m]] # << >>
                             /\ Head(rest'[writing'[m]]) = [kind |-> "Lock", lock |-> m]
    BY DEF Announced
  <2>1. CASE m = l BY <1>1, <1>3, <1>6, <2>1
  <2>2. CASE m # l /\ writing[m] = t /\ ~exclusive[m] BY <2>2, WaitsAtHead
  <2>3. CASE m # l /\ writing[m] # t
    <3>1. writing[m] # Free => rest'[writing[m]] = rest[writing[m]]
      BY <1>1, <1>3, <2>3, LocksOKAgrees DEF IInv, Done, RestTypeOK, LocksTypeOK
    <3> QED BY <1>1, <1>3, <1>6, <2>3, <3>1 DEF Announced
  <2>4. CASE m # l /\ exclusive[m] BY <1>1, <1>3, <1>6, <2>4 DEF Announced
  <2> QED BY <2>1, <2>2, <2>3, <2>4
<1>9. \A u \in Thread \ {t} : (writing'[l] = u /\ exclusive'[l]) <=> (writing[l] = u /\ exclusive[l])
  BY <1>1
<1> HIDE DEF l
<1>10. t \in readers'[l] <=> NextGives(Tail(rest[t]), l, "RUnlock") BY <1>1, <1>5
<1>11. (writing'[l] = t /\ exclusive'[l]) <=> NextGives(Tail(rest[t]), l, "Unlock") BY <1>1, <1>4, <1>6
<1>12. \A m \in Lock \ {l} :
         readers'[m] = readers[m] /\ writing'[m] = writing[m] /\ exclusive'[m] = exclusive[m]
  BY <1>1, <1>6
<1>13. \A u \in Thread \ {t} :
         /\ u \in readers'[l] <=> u \in readers[l]
         /\ (writing'[l] = u /\ exclusive'[l]) <=> (writing[l] = u /\ exclusive[l])
  BY <1>1, <1>9
<1>14. rest[t] # << >> /\ Done(t) /\ LocksTypeOK' BY <1>1, <1>6
<1> QED BY <1>7, <1>8, <1>10, <1>11, <1>12, <1>13, <1>14, AStep DEF l

LEMMA UnlockStep ==
  ASSUME IInv, NEW t \in Thread, Unlock(t) PROVE IInv'
<1> DEFINE l == TheLock(t)
<1>1. /\ rest[t] # << >> /\ Head(rest[t]).kind = "Unlock"
      /\ writing' = [writing EXCEPT ![l] = Free]
      /\ exclusive' = [exclusive EXCEPT ![l] = FALSE]
      /\ Done(t) /\ readers' = readers
  BY DEF Unlock, Now
<1>2. /\ l \in Lock /\ rest[t] \in Seq(OpRecord) /\ Sound(rest[t])
      /\ NextGives(rest[t], l, "Unlock")
  BY <1>1, AtHead
<1>3. LocksTypeOK /\ Announced /\ Alone /\ Free \notin Thread /\ Agrees(t, l)
  BY <1>2, LocksOKAgrees, LockAssumption DEF IInv
<1>4. writing[l] = t /\ exclusive[l] BY <1>2, <1>3 DEF Agrees
<1>5. ~NextGives(Tail(rest[t]), l, "RUnlock") /\ ~NextGives(Tail(rest[t]), l, "Unlock")
  BY <1>1, <1>2, NextAfterGiving DEF Releases, TheLock
<1>6. /\ ~exclusive'[l] /\ writing'[l] = Free
      /\ \A m \in Lock \ {l} : exclusive'[m] = exclusive[m] /\ writing'[m] = writing[m]
      /\ LocksTypeOK'
  BY <1>1, <1>2, <1>3 DEF LocksTypeOK
<1>7. Alone' BY <1>1, <1>3, <1>6 DEF Alone
<1>8. Announced'
  <2> SUFFICES ASSUME NEW m \in Lock
               PROVE  IF exclusive'[m] THEN writing'[m] # Free
                      ELSE writing'[m] # Free =>
                             /\ rest'[writing'[m]] # << >>
                             /\ Head(rest'[writing'[m]]) = [kind |-> "Lock", lock |-> m]
    BY DEF Announced
  <2>1. CASE m = l BY <1>6, <2>1
  <2>2. CASE m # l /\ writing[m] = t /\ ~exclusive[m] BY <1>1, <2>2, WaitsAtHead
  <2>3. CASE m # l /\ writing[m] # t
    <3>1. writing[m] # Free => rest'[writing[m]] = rest[writing[m]]
      BY <1>1, <1>3, <2>3, LocksOKAgrees DEF IInv, Done, RestTypeOK, LocksTypeOK
    <3> QED BY <1>3, <1>6, <2>3, <3>1 DEF Announced
  <2>4. CASE m # l /\ exclusive[m] BY <1>3, <1>6, <2>4 DEF Announced
  <2> QED BY <2>1, <2>2, <2>3, <2>4
<1>9. \A u \in Thread \ {t} : (writing'[l] = u /\ exclusive'[l]) <=> (writing[l] = u /\ exclusive[l])
  BY <1>4, <1>6
<1>10. t \notin readers[l] BY <1>2, <1>3, <1>4 DEF Alone
<1> HIDE DEF l
<1> QED BY <1>1, <1>2, <1>5, <1>6, <1>7, <1>8, <1>9, <1>10, AStep DEF l

LEMMA BeginStep ==
  ASSUME IInv, NEW t \in Thread, Begin(t) PROVE IInv'
<1>1. PICK s \in Operations(t) : rest' = [rest EXCEPT ![t] = s] BY DEF Begin
<1>2. /\ rest[t] = << >> /\ readers' = readers /\ writing' = writing /\ exclusive' = exclusive
  BY DEF Begin
<1>3. /\ LocksTypeOK /\ Announced /\ Alone /\ RestTypeOK
      /\ \A u \in Thread, m \in Lock : Agrees(u, m)
  BY LocksOKAgrees DEF IInv
<1>4. Good(s) /\ s \in Seq(OpRecord) /\ (t \notin Listers => Ordered(s))
  BY OperationsGood DEF Good, Sound
<1>5. /\ rest'[t] = s /\ \A u \in Thread \ {t} : rest'[u] = rest[u]
      /\ RestTypeOK'
  BY <1>1, <1>3, <1>4 DEF RestTypeOK
<1>6. ASSUME NEW m, NEW kind \in Releases PROVE ~NextGives(s, m, kind)
  <2> SUFFICES ASSUME NEW k \in 1 .. Len(s), s[k] = [kind |-> kind, lock |-> m],
                      \A j \in 1 .. k - 1 : s[j].lock # m
               PROVE  FALSE
    BY DEF NextGives
  <2>1. s[k].kind = kind /\ s[k].lock = m OBVIOUS
  <2> QED BY <1>4, <2>1 DEF Good, Whole
<1>7. ASSUME NEW m, NEW kind PROVE ~NextGives(rest[t], m, kind)
  <2>1. Len(rest[t]) = 0 BY <1>2
  <2> QED BY <2>1 DEF NextGives
<1>8. ASSUME NEW u \in Thread, NEW m \in Lock PROVE Agrees(u, m)'
  <2>1. CASE u = t BY <1>2, <1>3, <1>5, <1>6, <1>7, <2>1 DEF Agrees, Releases
  <2>2. CASE u # t BY <1>2, <1>3, <1>5, <2>2 DEF Agrees
  <2> QED BY <2>1, <2>2
<1>9. LocksOK'
  <2>1. \A u \in Thread : DOMAIN rest'[u] = 1 .. Len(rest'[u]) BY <1>5 DEF RestTypeOK
  <2>2. \A u \in Thread, m \in Lock, kind \in Releases :
          GivesBack(u, m, kind)' <=> NextGives(rest'[u], m, kind)
    BY <2>1 DEF GivesBack, NextGives
  <2>3. Alone' BY <1>2, <1>3 DEF Alone
  <2> QED BY <1>5, <1>8, <2>2, <2>3 DEF LocksOK, RestTypeOK, Alone, Agrees, Releases
<1>10. Announced'
  <2>1. \A m \in Lock : ~exclusive[m] /\ writing[m] # Free =>
          writing[m] \in Thread \ {t}
    BY <1>2, <1>3 DEF Announced, LocksTypeOK
  <2> QED BY <1>2, <1>3, <1>5, <2>1 DEF Announced
<1>11. \A u \in Thread : Sound(rest'[u]) BY <1>4, <1>5 DEF IInv, Good
<1>12. \A u \in Thread \ Listers : Ordered(rest'[u]) BY <1>4, <1>5 DEF IInv
<1>13. LocksTypeOK' BY <1>2, <1>3 DEF LocksTypeOK
<1> QED BY <1>9, <1>10, <1>11, <1>12, <1>13 DEF IInv

LEMMA InitIInv == Init => IInv
<1> SUFFICES ASSUME Init PROVE IInv OBVIOUS
<1>1. LocksTypeOK /\ Announced BY DEF Init, LocksTypeOK, Announced
<1>2. \A t \in Thread : rest[t] = << >> BY DEF Init
<1>3. \A t \in Thread : Sound(rest[t]) /\ Ordered(rest[t])
  BY <1>2, GoodNothing DEF Good, Nothing
<1>4. LocksOK
  <2>1. RestTypeOK /\ Alone BY DEF Init, RestTypeOK, Alone
  <2>2. \A t \in Thread, l \in Lock, kind \in Releases : ~NextGives(rest[t], l, kind) BY <1>2 DEF NextGives
  <2>3. \A t \in Thread, l \in Lock : Agrees(t, l) BY <2>2 DEF Init, Agrees, Releases
  <2> QED BY <2>1, <2>3, LocksOKAgrees
<1> QED BY <1>1, <1>3, <1>4 DEF IInv

\* The inductive invariant: the locks and what is left of every operation fit
\* together, and what is left is sound and, but for the list of rooms, ordered.
THEOREM LocksInvariance == Spec => []IInv
<1>1. ASSUME IInv, [Next]_vars PROVE IInv'
  <2>1. CASE UNCHANGED vars
    BY <1>1, <2>1 DEF vars, IInv, LocksTypeOK, LocksOK, GivesBack, Announced
  <2>2. CASE Next
    <3>1. PICK t \in Thread : Begin(t) \/ Step(t) BY <2>2 DEF Next
    <3> QED BY <1>1, <3>1, BeginStep, RLockStep, RUnlockStep, AnnounceStep, AcquireStep, UnlockStep
          DEF Step
  <2> QED BY <1>1, <2>1, <2>2
<1> QED BY InitIInv, <1>1, PTL DEF Spec

\* A thread holds exactly the locks it still gives back (no early return of a
\* handler of hub.go or engine.go keeps one), and a writer is alone.
THEOREM LocksRight == Spec => []LocksOK
<1>1. IInv => LocksOK BY DEF IInv
<1> QED BY <1>1, LocksInvariance, PTL

\* Who holds the hub's lock waits for none, and who waits while it holds a
\* room's waits for the hub's: with any number of rooms and callbacks, no circle
\* of waiting threads can close, but for GET /api/rooms.
THEOREM HubLockInner == Spec => []HubLockIsInner
<1>1. ASSUME IInv PROVE HubLockIsInner
  <2> SUFFICES ASSUME NEW t \in Thread \ Listers, NEW l \in Lock, NEW m \in Lock,
                      Holds(t, l), WaitsFor(t, m)
               PROVE  l # HubLock /\ m = HubLock
    BY DEF HubLockIsInner
  <2>1. /\ rest[t] \in Seq(OpRecord) /\ Ordered(rest[t]) /\ Agrees(t, l)
        /\ rest[t] # << >> /\ Head(rest[t]).kind \in Acquires /\ TheLock(t) = m
    BY <1>1, LocksOKAgrees DEF IInv, RestTypeOK, WaitsFor, Now, Acquires
  <2>2. PICK kind \in Releases : NextGives(rest[t], l, kind)
    BY <2>1 DEF Holds, Agrees, Releases
  <2> DEFINE s == rest[t]
  <2>3. Head(s) = s[1] /\ Len(s) \in Nat /\ 1 \in 1 .. Len(s) BY <2>1, TailProperties
  <2>4. PICK j \in 1 .. Len(s) :
          s[j] = [kind |-> kind, lock |-> l] /\ \A i \in 1 .. j - 1 : s[i].lock # l
    BY <2>2 DEF NextGives
  <2>5. s[j].kind = kind /\ s[j].lock = l BY <2>4
  <2>6. j # 1 BY <2>1, <2>3, <2>5 DEF Acquires, Releases
  <2>7. 1 < j BY <2>3, <2>6
  <2>8. s[1].lock = HubLock /\ s[j].lock # HubLock BY <2>1, <2>3, <2>4, <2>5, <2>7 DEF Ordered
  <2> QED BY <2>1, <2>3, <2>5, <2>8 DEF TheLock
<1> QED BY <1>1, LocksInvariance, PTL
=============================================================================

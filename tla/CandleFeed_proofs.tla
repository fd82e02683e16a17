--------------------------- MODULE CandleFeed_proofs ---------------------------
(***************************************************************************)
(* Proofs about CandleFeed, for any length of the history, of an answer    *)
(* and of a candle: the history is in order and never goes back, and its   *)
(* holes are counted, however confirmations and answers overlap.           *)
(***************************************************************************)
EXTENDS CandleFeed, SequenceTheorems, TLAPS

Candle == [open : Int, final : BOOLEAN]

\* Candles in order, each at least one candle after the one before.  It implies InOrder
\* and says of any two what an append needs to know of the first and the last.
Spaced(s) ==
  /\ s \in Seq(Candle)
  /\ \A i, j \in 1..Len(s) : i <= j => s[j].open - s[i].open >= j - i

-----------------------------------------------------------------------------
(* Sequences.                                                              *)

LEMMA MaxOfTwo ==
  ASSUME NEW a \in Int, NEW b \in Int
  PROVE  Max({a, b}) = IF a >= b THEN a ELSE b
  BY DEF Max

LEMMA MinOfTwo ==
  ASSUME NEW a \in Int, NEW b \in Int
  PROVE  Min({a, b}) = IF a <= b THEN a ELSE b
  BY DEF Min

\* The last n: the sequence without its first k.
LEMMA RecentDrops ==
  ASSUME NEW s \in Seq(Candle), NEW n \in Nat \ {0}
  PROVE  \E k \in 0..Len(s) :
           /\ k = 0 \/ (k < Len(s) /\ k = Len(s) - n)
           /\ Recent(s, n) \in Seq(Candle) /\ Len(Recent(s, n)) = Len(s) - k
           /\ \A i \in 1..(Len(s) - k) : Recent(s, n)[i] = s[i + k]
<1>1. Len(s) \in Nat
  OBVIOUS
<1>2. Max({1, Len(s) - n + 1}) = IF 1 >= Len(s) - n + 1 THEN 1 ELSE Len(s) - n + 1
  BY <1>1, MaxOfTwo
<1>3. CASE 1 >= Len(s) - n + 1
  <2>1. Recent(s, n) = SubSeq(s, 1, Len(s))
    BY <1>2, <1>3 DEF Recent
  <2>2. Recent(s, n) = s
    BY <2>1, SubSeqFull
  <2>3. \A i \in 1..(Len(s) - 0) : s[i] = s[i + 0]
    BY <1>1
  <2> QED
    BY <1>1, <2>2, <2>3
<1>4. CASE ~(1 >= Len(s) - n + 1)
  <2> DEFINE k == Len(s) - n
  <2>a. k \in 1..(Len(s) - 1) /\ Len(s) - n + 1 = k + 1
    BY <1>1, <1>4
  <2>b. Max({1, Len(s) - n + 1}) = k + 1
    BY <1>2, <1>4, <2>a
  <2>1. k \in 1..(Len(s) - 1) /\ Recent(s, n) = SubSeq(s, k + 1, Len(s))
    BY <2>a, <2>b DEF Recent
  <2> HIDE DEF k
  <2>2. k + 1 \in Int /\ Len(s) \in Int /\ k + 1 <= Len(s)
        /\ \A i \in (k + 1)..Len(s) : s[i] \in Candle
    BY <1>1, <2>1, ElementOfSeq
  <2>3. /\ SubSeq(s, k + 1, Len(s)) \in Seq(Candle)
        /\ Len(SubSeq(s, k + 1, Len(s))) = Len(s) - (k + 1) + 1
        /\ \A i \in 1..(Len(s) - (k + 1) + 1) : SubSeq(s, k + 1, Len(s))[i] = s[(k + 1) + i - 1]
    BY <2>2, SubSeqProperties
  <2>4. /\ Len(Recent(s, n)) = Len(s) - k
        /\ \A i \in 1..(Len(s) - k) : Recent(s, n)[i] = s[i + k]
    BY <1>1, <2>1, <2>3
  <2>5. k \in 0..Len(s) /\ k < Len(s) /\ k = Len(s) - n
    BY <1>1, <2>1 DEF k
  <2>6. Recent(s, n) \in Seq(Candle)
    BY <2>1, <2>3
  <2> QED
    BY <2>4, <2>5, <2>6
<1> QED
  BY <1>3, <1>4

\* Dropping old candles keeps the order and the last candle, and opens no hole.
LEMMA RecentSpaced ==
  ASSUME NEW s, Spaced(s), NEW n \in Nat \ {0}
  PROVE  /\ Spaced(Recent(s, n))
         /\ s # << >> => Recent(s, n) # << >> /\ Last(Recent(s, n)) = Last(s)
         /\ Holes(Recent(s, n)) <= Holes(s)
<1> DEFINE r == Recent(s, n)
<1>0. s \in Seq(Candle) /\ Len(s) \in Nat
  BY DEF Spaced
<1>1. PICK k \in 0..Len(s) :
         /\ k = 0 \/ (k < Len(s) /\ k = Len(s) - n)
         /\ r \in Seq(Candle) /\ Len(r) = Len(s) - k
         /\ \A i \in 1..(Len(s) - k) : r[i] = s[i + k]
  BY <1>0, RecentDrops
<1> HIDE DEF r
<1>2. Spaced(r)
  <2> SUFFICES ASSUME NEW i \in 1..Len(r), NEW j \in 1..Len(r), i <= j
               PROVE  r[j].open - r[i].open >= j - i
    BY <1>1 DEF Spaced
  <2>1. i + k \in 1..Len(s) /\ j + k \in 1..Len(s) /\ i + k <= j + k /\ (j + k) - (i + k) = j - i
    BY <1>0, <1>1
  <2>2. r[i] = s[i + k] /\ r[j] = s[j + k]
    BY <1>0, <1>1
  <2>3. s[j + k].open - s[i + k].open >= (j + k) - (i + k)
    BY <2>1 DEF Spaced
  <2> QED
    BY <2>1, <2>2, <2>3
<1>3. ASSUME s # << >> PROVE r # << >> /\ Last(r) = Last(s)
  BY <1>0, <1>1, <1>3 DEF Last
<1>4. Holes(r) <= Holes(s)
  <2>1. CASE s = << >>
    BY <1>0, <1>1, <2>1 DEF Holes
  <2>2. CASE s # << >>
    <3>1. Head(r) = s[k + 1] /\ Head(s) = s[1]
      <4>1. Len(s) > 0 /\ 1 \in 1..(Len(s) - k) /\ 1 + k = k + 1
        BY <1>0, <1>1, <2>2, EmptySeq
      <4>2. Head(r) = r[1] /\ Head(s) = s[1]
        OBVIOUS
      <4> QED
        BY <1>1, <4>1, <4>2
    <3>2. s[k + 1].open - s[1].open >= k /\ s[k + 1].open \in Int /\ s[1].open \in Int
          /\ Last(s).open \in Int
      <4>1. Len(s) > 0 /\ 1 \in 1..Len(s) /\ k + 1 \in 1..Len(s) /\ 1 <= k + 1
            /\ Len(s) \in 1..Len(s) /\ (k + 1) - 1 = k
        BY <1>0, <1>1, <2>2, EmptySeq
      <4>2. s[1] \in Candle /\ s[k + 1] \in Candle /\ s[Len(s)] \in Candle
        BY <1>0, <4>1, ElementOfSeq
      <4>3. s[k + 1].open - s[1].open >= (k + 1) - 1
        BY <4>1 DEF Spaced
      <4>4. s[k + 1].open \in Int /\ s[1].open \in Int /\ s[Len(s)].open \in Int
        BY <4>2 DEF Candle
      <4>5. s[k + 1].open - s[1].open >= k /\ Last(s) = s[Len(s)]
        BY <4>1, <4>3 DEF Last
      <4>6. Last(s).open \in Int
        BY <4>4, <4>5, Zenon
      <4> QED
        BY <4>4, <4>5, <4>6, Zenon
    <3> DEFINE x == Last(s).open
               y == s[1].open
               z == s[k + 1].open
               l == Len(s)
    <3>3. Holes(s) = x - y + 1 - l /\ Holes(r) = x - z + 1 - (l - k)
      BY <1>1, <1>3, <2>2, <3>1 DEF Holes
    <3>4. x \in Int /\ y \in Int /\ z \in Int /\ l \in Nat /\ k \in Int /\ z - y >= k
      BY <1>0, <1>1, <3>2
    <3> HIDE DEF x, y, z, l
    <3>5. x - z + 1 - (l - k) <= x - y + 1 - l
      BY <3>4
    <3> QED
      BY <3>3, <3>5
  <2> QED
    BY <2>1, <2>2
<1> QED
  BY <1>2, <1>3, <1>4 DEF r

\* All but the last.
LEMMA FrontProperties ==
  ASSUME NEW S, NEW s \in Seq(S), NEW n \in Nat \ {0}, Len(s) = n
  PROVE  /\ Front(s) \in Seq(S) /\ Len(Front(s)) = n - 1
         /\ \A i \in 1..(n - 1) : Front(s)[i] = s[i]
<1>1. Front(s) = SubSeq(s, 1, n - 1)
  BY DEF Front
<1>2. 1 \in Int /\ n - 1 \in Int /\ \A i \in 1..(n - 1) : s[i] \in S
  BY ElementOfSeq
<1>3. /\ SubSeq(s, 1, n - 1) \in Seq(S)
      /\ Len(SubSeq(s, 1, n - 1)) = IF 1 <= n - 1 THEN n - 1 - 1 + 1 ELSE 0
      /\ \A i \in 1..(n - 1 - 1 + 1) : SubSeq(s, 1, n - 1)[i] = s[1 + i - 1]
  BY <1>2, SubSeqProperties
<1>4. \A i \in 1..(n - 1) : i \in 1..(n - 1 - 1 + 1) /\ 1 + i - 1 = i
  OBVIOUS
<1> DEFINE f == Len(SubSeq(s, 1, n - 1))
<1>5. f = IF 1 <= n - 1 THEN n - 1 - 1 + 1 ELSE 0
  BY <1>3
<1> HIDE DEF f
<1>6. f = n - 1
  BY <1>5
<1>7. \A i \in 1..(n - 1) : SubSeq(s, 1, n - 1)[i] = s[i]
  BY <1>3, <1>4
<1> QED
  BY <1>1, <1>3, <1>6, <1>7 DEF f

\* What the order says of the first and the last candle.
LEMMA SpacedEnds ==
  ASSUME NEW s, Spaced(s), s # << >>
  PROVE  /\ Len(s) \in Nat /\ Len(s) > 0
         /\ s[1] \in Candle /\ Last(s) \in Candle /\ Last(s) = s[Len(s)]
         /\ Holes(s) = s[Len(s)].open - s[1].open + 1 - Len(s) /\ Holes(s) \in Nat
<1>1. Len(s) \in Nat /\ Len(s) > 0 /\ 1 \in 1..Len(s) /\ Len(s) \in 1..Len(s)
  BY EmptySeq DEF Spaced
<1>2. s[1] \in Candle /\ s[Len(s)] \in Candle
  BY <1>1, ElementOfSeq DEF Spaced
<1>3. s[Len(s)].open - s[1].open >= Len(s) - 1
  BY <1>1 DEF Spaced
<1>4. Last(s) = s[Len(s)] /\ Head(s) = s[1]
  BY DEF Last
<1>5. Holes(s) = s[Len(s)].open - s[1].open + 1 - Len(s)
  BY <1>4 DEF Holes
<1> QED
  BY <1>1, <1>2, <1>3, <1>4, <1>5 DEF Candle

\* A newer candle at the end opens the hole between it and the last one.
LEMMA AppendSpaced ==
  ASSUME NEW s, Spaced(s), NEW o \in Int, s = << >> \/ Last(s).open < o
  PROVE  /\ Spaced(Append(s, Final(o))) /\ Append(s, Final(o)) # << >>
         /\ Last(Append(s, Final(o))).open = o
         /\ Holes(Append(s, Final(o)))
              = IF s = << >> THEN 0 ELSE Holes(s) + (o - Last(s).open - 1)
<1> DEFINE e == Final(o)
           r == Append(s, e)
<1>1. e \in Candle /\ e.open = o
  BY DEF Final, Candle
<1>2. s \in Seq(Candle) /\ Len(s) \in Nat
  BY DEF Spaced
<1>3. /\ r \in Seq(Candle) /\ r # << >> /\ Len(r) = Len(s) + 1
      /\ \A i \in 1..Len(s) : r[i] = s[i]
      /\ r[Len(r)] = e
  BY <1>1, <1>2, AppendProperties
<1> HIDE DEF e, r
<1>4. ASSUME NEW i \in 1..Len(s) PROVE s[i].open \in Int /\ o - s[i].open >= Len(s) + 1 - i
  <2>1. s # << >> /\ Len(s) \in 1..Len(s) /\ i <= Len(s)
    BY <1>2, EmptySeq
  <2>2. s[i] \in Candle /\ s[Len(s)] \in Candle
    BY <1>2, <2>1, ElementOfSeq
  <2>3. s[Len(s)].open - s[i].open >= Len(s) - i /\ s[Len(s)].open < o
    BY <2>1, SpacedEnds DEF Spaced
  <2> QED
    BY <1>2, <2>2, <2>3 DEF Candle
<1>5. Spaced(r)
  <2> SUFFICES ASSUME NEW i \in 1..Len(r), NEW j \in 1..Len(r), i <= j
               PROVE  r[j].open - r[i].open >= j - i
    BY <1>3 DEF Spaced
  <2>1. CASE j \in 1..Len(s)
    <3>1. i \in 1..Len(s)
      BY <1>2, <2>1
    <3> QED
      BY <1>3, <2>1, <3>1 DEF Spaced
  <2>2. CASE j = Len(s) + 1 /\ i \in 1..Len(s)
    <3>1. o - s[i].open >= Len(s) + 1 - i
      BY <1>4, <2>2
    <3> QED
      BY <1>1, <1>3, <2>2, <3>1
  <2>3. CASE j = Len(s) + 1 /\ i = j
    BY <1>1, <1>3, <2>3
  <2> QED
    BY <1>2, <1>3, <2>1, <2>2, <2>3
<1>6. Last(r) = e
  BY <1>3 DEF Last
<1>7. Holes(r) = IF s = << >> THEN 0 ELSE Holes(s) + (o - Last(s).open - 1)
  <2>1. Len(r) > 0 /\ Holes(r) = r[Len(r)].open - r[1].open + 1 - Len(r)
    BY <1>3, <1>5, SpacedEnds
  <2>2. CASE s = << >>
    <3>1. Len(s) = 0
      BY <2>2
    <3> QED
      BY <1>1, <1>3, <2>1, <2>2, <3>1
  <2>3. CASE s # << >>
    <3>1. Len(s) > 0 /\ s[1] \in Candle /\ Last(s) \in Candle
          /\ Holes(s) = Last(s).open - s[1].open + 1 - Len(s)
      BY <2>3, SpacedEnds
    <3>2. r[1] = s[1]
      BY <1>2, <1>3, <3>1
    <3>3. r[Len(r)].open = o /\ s[1].open \in Int /\ Last(s).open \in Int
      BY <1>1, <1>3, <3>1 DEF Candle
    <3>4. Holes(r) = o - s[1].open + 1 - (Len(s) + 1)
      BY <1>3, <2>1, <3>2, <3>3
    <3>5. Holes(r) = Holes(s) + (o - Last(s).open - 1)
      <4> DEFINE x == Last(s).open
                 y == s[1].open
                 h == Holes(s)
      <4>1. x \in Int /\ y \in Int /\ Len(s) \in Int /\ h = x - y + 1 - Len(s)
        BY <1>2, <3>1, <3>3
      <4>2. Holes(r) = o - y + 1 - (Len(s) + 1)
        BY <3>4
      <4> HIDE DEF x, y, h
      <4>3. Holes(r) = h + (o - x - 1)
        BY <4>1, <4>2
      <4> QED
        BY <4>3 DEF x, h
    <3> QED
      BY <2>3, <3>5
  <2> QED
    BY <2>2, <2>3
<1> QED
  BY <1>1, <1>3, <1>5, <1>6, <1>7 DEF e, r

\* The last candle may be put in anew.
LEMMA ReplaceSpaced ==
  ASSUME NEW s, Spaced(s), s # << >>
  PROVE  LET r == Front(s) \o <<Final(Last(s).open)>>
         IN  /\ Spaced(r) /\ r # << >> /\ Last(r).open = Last(s).open /\ Holes(r) = Holes(s)
<1> DEFINE e == Final(Last(s).open)
           r == Front(s) \o <<e>>
<1>1. /\ s \in Seq(Candle) /\ Len(s) \in Nat /\ Len(s) > 0
      /\ s[1] \in Candle /\ Last(s) \in Candle /\ Last(s) = s[Len(s)]
      /\ Holes(s) = s[Len(s)].open - s[1].open + 1 - Len(s)
  BY SpacedEnds DEF Spaced
<1>2. e \in Candle /\ e.open = s[Len(s)].open
  BY <1>1 DEF Final, Candle
<1>3. /\ Front(s) \in Seq(Candle) /\ Len(Front(s)) = Len(s) - 1
      /\ \A i \in 1..(Len(s) - 1) : Front(s)[i] = s[i]
  BY <1>1, FrontProperties
<1>4. /\ r \in Seq(Candle) /\ Len(r) = Len(s)
      /\ \A i \in 1..(Len(s) - 1) : r[i] = s[i]
      /\ r[Len(s)] = e
  <2>1. <<e>> \in Seq(Candle) /\ Len(<<e>>) = 1 /\ <<e>>[1] = e
    BY <1>2
  <2>2. /\ r \in Seq(Candle) /\ Len(r) = Len(Front(s)) + Len(<<e>>)
        /\ \A i \in 1..(Len(Front(s)) + Len(<<e>>)) :
             r[i] = IF i <= Len(Front(s)) THEN Front(s)[i] ELSE <<e>>[i - Len(Front(s))]
    BY <1>3, <2>1, ConcatProperties
  <2> QED
    BY <1>1, <1>3, <2>1, <2>2
<1> HIDE DEF e, r
<1>5. \A i \in 1..Len(s) : r[i].open = s[i].open
  BY <1>1, <1>2, <1>4
<1>6. Spaced(r)
  BY <1>4, <1>5 DEF Spaced
<1>7. r # << >>
  BY <1>1, <1>4, EmptySeq
<1>8. Last(r).open = Last(s).open
  BY <1>1, <1>2, <1>4 DEF Last
<1>9. Holes(r) = Holes(s)
  <2>1. Holes(r) = r[Len(r)].open - r[1].open + 1 - Len(r)
    BY <1>6, <1>7, SpacedEnds
  <2> QED
    BY <1>1, <1>4, <1>5, <2>1
<1> QED
  BY <1>6, <1>7, <1>8, <1>9 DEF e, r

\* An answer has no holes and ends with the last candle that has ended by the clock.
LEMMA AnswerSpaced ==
  ASSUME taken \in Nat \ {0}, clock \in Nat, taken - 1 <= clock
  PROVE  /\ Spaced(Answer) /\ Holes(Answer) = 0
         /\ Answer = << >> => taken = 1 /\ clock = 0
         /\ Answer # << >> => Last(Answer).open = IF taken < clock THEN taken ELSE clock - 1
<1> DEFINE m == Min({Limit, taken + 1})
           l == IF taken < clock THEN m ELSE IF taken - 1 < clock THEN m - 1 ELSE m - 2
<1>1. m \in Nat /\ m > 1 /\ m <= taken + 1 /\ (m = 2 => taken = 1)
  BY FeedAssumption, MinOfTwo
<1>2. Rows = [i \in 1..m |-> taken + i - m]
  BY DEF Rows
<1> HIDE DEF m
<1>3. Rows \in Seq(Int) /\ Len(Rows) = m /\ \A i \in 1..m : Rows[i] = taken + i - m
  BY <1>1, <1>2, IsASeq
<1>4. /\ Front(Rows) \in Seq(Int) /\ Len(Front(Rows)) = m - 1
      /\ \A i \in 1..(m - 1) : Front(Rows)[i] = taken + i - m
  BY <1>1, <1>3, FrontProperties
<1>5. /\ Front(Front(Rows)) \in Seq(Int) /\ Len(Front(Front(Rows))) = m - 2
      /\ \A i \in 1..(m - 2) : Front(Front(Rows))[i] = taken + i - m
  <2>1. m - 1 \in Nat \ {0} /\ (m - 1) - 1 = m - 2
    BY <1>1
  <2>2. /\ Front(Front(Rows)) \in Seq(Int) /\ Len(Front(Front(Rows))) = (m - 1) - 1
        /\ \A i \in 1..((m - 1) - 1) : Front(Front(Rows))[i] = Front(Rows)[i]
    BY <1>4, <2>1, FrontProperties
  <2> QED
    BY <1>1, <1>4, <2>1, <2>2
<1> DEFINE rows == IF Confirmed(taken) THEN Rows
                   ELSE IF Confirmed(taken - 1) THEN Front(Rows) ELSE Front(Front(Rows))
<1>6. /\ rows \in Seq(Int) /\ Len(rows) = l /\ l \in Nat
      /\ \A i \in 1..l : rows[i] = taken + i - m
  BY <1>1, <1>3, <1>4, <1>5 DEF Confirmed
<1>7. DOMAIN rows = 1..l
  BY <1>6
<1>8. Answer = [i \in 1..l |-> [open |-> rows[i], final |-> rows[i] < taken]]
  BY <1>7 DEF Answer
<1>9. /\ taken + l - m = IF taken < clock THEN taken ELSE clock - 1
      /\ l = 0 => taken = 1 /\ clock = 0
  BY <1>1
<1> HIDE DEF rows, l
<1>10. \A i \in 1..l : [open |-> rows[i], final |-> rows[i] < taken] \in Candle
  BY <1>1, <1>6 DEF Candle
<1>11. /\ Answer \in Seq(Candle) /\ Len(Answer) = l
       /\ \A i \in 1..l : Answer[i].open = taken + i - m
  BY <1>6, <1>8, <1>10, IsASeq
<1>12. Spaced(Answer)
  BY <1>1, <1>6, <1>11 DEF Spaced
<1>13. Answer = << >> => l = 0 /\ Holes(Answer) = 0
  BY <1>11 DEF Holes
<1>14. ASSUME Answer # << >>
       PROVE  Holes(Answer) = 0 /\ Last(Answer).open = taken + l - m
  <2>1. /\ Holes(Answer) = Answer[Len(Answer)].open - Answer[1].open + 1 - Len(Answer)
        /\ Last(Answer) = Answer[Len(Answer)] /\ l > 0
    BY <1>11, <1>12, <1>14, SpacedEnds
  <2>2. Answer[l].open = taken + l - m /\ Answer[1].open = taken + 1 - m
    BY <1>6, <1>11, <2>1
  <2> QED
    BY <1>1, <1>6, <1>11, <2>1, <2>2
<1> QED
  BY <1>9, <1>12, <1>13, <1>14

-----------------------------------------------------------------------------
(* The inductive invariant.                                                *)

LEMMA Constants ==
  /\ TicksPerCandle \in Nat \ {0} /\ MaxHistory \in Nat \ {0}
  /\ MaxMissing \in Nat /\ MaxAge \in Nat /\ Flight \in Nat
  /\ Flight < TicksPerCandle /\ None \notin Int
  BY FeedAssumption

Clock == /\ closed \in Nat \ {0} /\ told \in 0..closed
         /\ phase \in 0..(TicksPerCandle - 1) /\ flight \in 0..Flight
         /\ clock \in {closed - 1, closed, closed + 1}
         /\ clock = closed + 1 => phase = TicksPerCandle - 1

\* At most one candle closes while an answer is on its way.
Prompt ==
  loop = "taken" => /\ taken \in 1..closed
                    /\ closed # taken => closed = taken + 1 /\ phase < flight

\* No candle is in the history before it is closed, at the exchange or by the clock.
Stored ==
  /\ Spaced(history) /\ gaps \in Nat /\ Holes(history) <= gaps
  /\ history # << >> => Last(history).open < closed \/ Last(history).open < clock

\* The thread knows the last candle of the history it took hold of.
Held ==
  thread # None =>
    /\ thread \in [open : Int, last : Int \cup {None}, orphan : BOOLEAN]
    /\ thread.open < closed
    /\ ~thread.orphan => thread.last = LastOpen

\* The counter only grows while a cycle works on its copy.
Copied ==
  /\ loop \in {"holds", "judged"} => Spaced(seen) /\ Holes(seen) <= gaps
  /\ JudgedOnWhole

FeedInv == Clock /\ Prompt /\ Stored /\ Held /\ Copied

LEMMA EmptySpaced == Spaced(<< >>) /\ Holes(<< >>) = 0
  BY EmptySeq DEF Spaced, Holes

LEMMA LastOpenType ==
  ASSUME Spaced(history)
  PROVE  /\ history = << >> => LastOpen = None
         /\ history # << >> => LastOpen = Last(history).open /\ LastOpen \in Int /\ LastOpen # None
<1>1. history = << >> => LastOpen = None
  BY DEF LastOpen
<1>2. ASSUME history # << >>
      PROVE  LastOpen = Last(history).open /\ LastOpen \in Int /\ LastOpen # None
  <2>1. Last(history) \in Candle
    BY <1>2, SpacedEnds
  <2>2. LastOpen = Last(history).open
    BY <1>2 DEF LastOpen
  <2> QED
    BY <2>1, <2>2, Constants DEF Candle
<1> QED
  BY <1>1, <1>2

LEMMA FeedInit == Init => FeedInv
<1> SUFFICES ASSUME Init PROVE FeedInv
  OBVIOUS
<1>1. Clock
  BY Constants DEF Init, Clock
<1>2. Prompt /\ Held /\ Copied
  BY DEF Init, Prompt, Held, Copied, JudgedOnWhole
<1>3. Stored
  BY EmptySpaced DEF Init, Stored
<1> QED
  BY <1>1, <1>2, <1>3 DEF FeedInv

LEMMA FeedTick ==
  ASSUME FeedInv, Tick
  PROVE  FeedInv'
<1>1. /\ closed \in Nat \ {0} /\ told \in 0..closed /\ flight \in 0..Flight
      /\ phase \in 0..(TicksPerCandle - 1)
      /\ flight' = IF loop = "idle" THEN 0 ELSE flight + 1
      /\ phase' = (phase + 1) % TicksPerCandle
      /\ closed' = IF phase' = 0 THEN closed + 1 ELSE closed
      /\ UNCHANGED <<interval, told, thread, store, loop, taken, seen>>
  BY DEF FeedInv, Clock, Tick
<1>2. phase' = IF phase + 1 = TicksPerCandle THEN 0 ELSE phase + 1
  BY <1>1, Constants
<1>3. closed' \in Nat \ {0} /\ closed <= closed'
  BY <1>1
<1>a. clock \in {closed, closed + 1} /\ (clock = closed + 1 => phase = TicksPerCandle - 1)
  BY <1>1 DEF FeedInv, Clock, Tick
<1>b. clock' = clock \/ (clock' = closed' /\ clock <= closed')
  <2>1. Max({clock, closed'}) = IF clock >= closed' THEN clock ELSE closed'
    BY <1>1, <1>3, <1>a, MaxOfTwo
  <2>2. clock' \in {Max({clock, closed'})} \cup {clock}
    BY DEF Tick
  <2> QED
    BY <1>1, <1>3, <1>a, <2>1, <2>2
<1>c. clock' \in {closed' - 1, closed', closed' + 1} /\ clock <= clock'
      /\ (clock' = closed' + 1 => phase' = TicksPerCandle - 1)
  BY <1>1, <1>2, <1>3, <1>a, <1>b, Constants
<1>d. flight' \in 0..Flight
  BY <1>1, Constants DEF Tick
<1>4. Clock'
  BY <1>1, <1>2, <1>3, <1>c, <1>d, Constants DEF Clock
<1>5. Prompt'
  <2> SUFFICES ASSUME loop = "taken" PROVE Prompt'
    BY <1>1 DEF Prompt
  <2>1. taken \in 1..closed /\ (closed # taken => closed = taken + 1 /\ phase < flight)
    BY DEF FeedInv, Prompt
  <2>2. flight < Flight /\ flight' = flight + 1 /\ taken' = taken
    BY <1>1 DEF Tick
  <2>3. CASE closed = taken
    <3>1. taken' \in 1..closed'
      BY <1>1, <1>3, <2>1, <2>2
    <3>2. closed' # taken' => closed' = taken' + 1 /\ phase' < flight'
      BY <1>1, <2>2, <2>3
    <3> QED
      BY <3>1, <3>2 DEF Prompt
  <2>4. CASE closed # taken
    <3>1. phase < flight /\ phase + 1 # TicksPerCandle
      BY <1>1, <2>1, <2>2, <2>4, Constants
    <3>2. phase' = phase + 1 /\ closed' = closed
      BY <1>1, <1>2, <3>1
    <3> QED
      BY <1>1, <2>1, <2>2, <2>4, <3>1, <3>2 DEF Prompt
  <2> QED
    BY <2>3, <2>4
<1>6. Stored'
  <2>1. history' = history /\ gaps' = gaps
    BY <1>1 DEF store
  <2>2. history # << >> => /\ Last(history).open \in Int
                           /\ Last(history).open < closed \/ Last(history).open < clock
    BY SpacedEnds DEF FeedInv, Stored, Candle
  <2>3. history # << >> => Last(history).open < closed' \/ Last(history).open < clock'
    BY <1>1, <1>3, <1>a, <1>c, <2>2
  <2> QED
    BY <2>1, <2>3 DEF FeedInv, Stored
<1>7. Held'
  BY <1>1, <1>3 DEF FeedInv, Held, LastOpen, store
<1>8. Copied'
  BY <1>1 DEF FeedInv, Copied, JudgedOnWhole, Tick, store
<1> QED
  BY <1>4, <1>5, <1>6, <1>7, <1>8 DEF FeedInv

\* The three ways in which the thread ends: with the same last candle, or with a newer one.
LEMMA FeedWrites ==
  ASSUME FeedInv, ThreadWrites
  PROVE  /\ Stored' /\ gaps <= gaps' /\ Held'
         /\ history # << >> => /\ history' # << >>
                               /\ Last(history').open >= Last(history).open
<1>1. /\ Spaced(history) /\ gaps \in Nat /\ Holes(history) <= gaps
      /\ closed \in Nat /\ closed' = closed /\ clock' = clock
      /\ history # << >> => /\ Last(history).open \in Int
                            /\ Last(history).open < closed \/ Last(history).open < clock
  BY SpacedEnds DEF FeedInv, Clock, Stored, ThreadWrites, time, Candle
<1>2. /\ thread # None /\ thread' = None
      /\ thread.open \in Int /\ thread.last \in Int \cup {None} /\ thread.open < closed
      /\ ~thread.orphan => thread.last = LastOpen
  BY DEF FeedInv, Held, ThreadWrites
<1>3. Held'
  BY <1>2 DEF Held
<1>4. CASE UNCHANGED history /\ gaps <= gaps' /\ gaps' \in Nat
  <2>1. Holes(history) \in Int
    BY <1>1, SpacedEnds, EmptySpaced
  <2>2. Stored'
    BY <1>1, <1>4, <2>1 DEF Stored
  <2> QED
    BY <1>1, <1>3, <1>4, <2>2
<1>5. CASE ThreadRepeats
  <2>1. CASE thread.orphan
    BY <1>1, <1>4, <1>5, <2>1 DEF ThreadRepeats
  <2>2. CASE ~thread.orphan
    <3> DEFINE r == Front(history) \o <<Final(Last(history).open)>>
    <3>1. history # << >> /\ Last(history).open = thread.open
      BY <1>1, <1>2, <1>5, <2>2, LastOpenType DEF ThreadRepeats, Repeats
    <3>2. history' = r /\ gaps' = gaps
      BY <1>5, <2>2, <3>1 DEF ThreadRepeats
    <3>3. Spaced(r) /\ r # << >> /\ Last(r).open = Last(history).open /\ Holes(r) = Holes(history)
      BY <1>1, <3>1, ReplaceSpaced
    <3> HIDE DEF r
    <3>4. Stored'
      BY <1>1, <3>1, <3>2, <3>3 DEF Stored
    <3> QED
      BY <1>1, <1>3, <3>1, <3>2, <3>3, <3>4
  <2> QED
    BY <2>1, <2>2
<1>6. CASE ThreadIgnores
  BY <1>1, <1>4, <1>6 DEF ThreadIgnores, store
<1>7. CASE ThreadAdds
  <2>1. /\ ~Repeats /\ ~IsStale /\ gaps' = gaps + Max({0, Skipped})
        /\ history' = IF thread.orphan THEN history
                      ELSE Recent(Append(history, Final(thread.open)), MaxHistory)
    BY <1>7 DEF ThreadAdds
  <2>2. Skipped \in Int
    BY <1>2 DEF Skipped
  <2>3. Max({0, Skipped}) = IF 0 >= Skipped THEN 0 ELSE Skipped
    BY <2>2, MaxOfTwo
  <2>4. gaps' \in Nat /\ gaps <= gaps' /\ Skipped <= gaps' - gaps
    BY <1>1, <2>1, <2>2, <2>3
  <2>5. CASE thread.orphan
    BY <1>4, <2>1, <2>4, <2>5
  <2>6. CASE ~thread.orphan
    <3> DEFINE a == Append(history, Final(thread.open))
    <3>1. history = << >> \/ Last(history).open < thread.open
      BY <1>1, <1>2, <2>1, <2>6, LastOpenType DEF Repeats, IsStale
    <3>2. /\ Spaced(a) /\ a # << >> /\ Last(a).open = thread.open
          /\ Holes(a) = IF history = << >> THEN 0
                        ELSE Holes(history) + (thread.open - Last(history).open - 1)
      BY <1>1, <1>2, <3>1, AppendSpaced
    <3>3. Holes(a) <= gaps' /\ Holes(a) \in Int
      <4>1. CASE history = << >>
        BY <2>4, <3>2, <4>1
      <4>2. CASE history # << >>
        <5>1. Skipped = thread.open - Last(history).open - 1
          BY <1>1, <1>2, <2>6, <4>2, LastOpenType DEF Skipped
        <5>2. Holes(history) \in Nat
          BY <1>1, <4>2, SpacedEnds
        <5> QED
          BY <1>1, <1>2, <2>2, <2>4, <3>2, <4>2, <5>1, <5>2
      <4> QED
        BY <4>1, <4>2
    <3> HIDE DEF a
    <3>4. history' = Recent(a, MaxHistory)
      BY <2>1, <2>6 DEF a
    <3>5. /\ Spaced(history') /\ history' # << >> /\ Last(history') = Last(a)
          /\ Holes(history') <= Holes(a)
      BY <3>2, <3>4, RecentSpaced, Constants
    <3>6. Holes(history') <= gaps'
      <4>1. Holes(history') \in Nat
        BY <3>5, SpacedEnds
      <4> QED
        BY <2>4, <3>3, <3>5, <4>1
    <3>7. Stored'
      BY <1>1, <1>2, <2>4, <3>2, <3>5, <3>6 DEF Stored
    <3> QED
      BY <1>1, <1>2, <1>3, <2>4, <3>1, <3>2, <3>5, <3>7
  <2> QED
    BY <2>5, <2>6
<1> QED
  BY <1>5, <1>6, <1>7 DEF ThreadWrites

\* An answer replaces the history by one that ends with the last closed candle, or where
\* the clock has not seen that one close, with the candle before.
LEMMA FeedAnswered ==
  ASSUME FeedInv, Answered
  PROVE  /\ Stored' /\ Held'
         /\ \A k \in Nat :
              Reaches(k) => Reaches(k)' \/ (clock <= k /\ (k > 0 => Reaches(k - 1)'))
<1>1. /\ loop = "taken" /\ taken \in 1..closed
      /\ closed \in Nat \ {0} /\ closed' = closed /\ clock' = clock
      /\ closed # taken => closed = taken + 1 /\ phase < flight
      /\ clock \in {closed - 1, closed, closed + 1}
      /\ clock = closed + 1 => phase = TicksPerCandle - 1
      /\ flight \in 0..Flight
      /\ history # << >> => /\ Last(history).open \in Int
                            /\ Last(history).open < closed \/ Last(history).open < clock
  BY SpacedEnds DEF FeedInv, Clock, Prompt, Stored, Answered, time, Candle
<1>a. clock = closed + 1 => closed = taken
  BY <1>1, Constants
<1>2. /\ Spaced(Answer) /\ Holes(Answer) = 0
      /\ Answer = << >> => taken = 1 /\ clock = 0
      /\ Answer # << >> => Last(Answer).open = IF taken < clock THEN taken ELSE clock - 1
  BY <1>1, AnswerSpaced
<1>3. Answer # << >> => Last(Answer).open = clock - 1
  BY <1>1, <1>2, <1>a
<1>4. history' = Recent(Answer, MaxHistory) /\ gaps' = 0
  BY <1>2 DEF Answered, Seed
<1>5. /\ Spaced(history') /\ Holes(history') <= 0
      /\ Answer # << >> => history' # << >> /\ Last(history') = Last(Answer)
  BY <1>2, <1>4, RecentSpaced, Constants
<1>b. Answer = << >> => history' = << >>
  <2> SUFFICES ASSUME Answer = << >> PROVE history' = << >>
    OBVIOUS
  <2>1. Len(Answer) = 0 /\ Answer \in Seq(Candle)
    BY <1>2 DEF Spaced
  <2> DEFINE a == Answer
  <2>a. a \in Seq(Candle) /\ MaxHistory \in Nat \ {0}
    BY <2>1, Constants
  <2> HIDE DEF a
  <2>2. PICK k \in 0..Len(a) : /\ k = 0 \/ (k < Len(a) /\ k = Len(a) - MaxHistory)
                               /\ Recent(a, MaxHistory) \in Seq(Candle)
                               /\ Len(Recent(a, MaxHistory)) = Len(a) - k
    BY <2>a, RecentDrops
  <2>3. Len(history') = 0 /\ history' \in Seq(Candle)
    BY <1>4, <2>1, <2>2 DEF a
  <2> QED
    BY <2>3, EmptySeq
<1>c. history' # << >> => Last(history').open = clock - 1
  BY <1>3, <1>5, <1>b
<1>6. Stored'
  BY <1>1, <1>4, <1>5, <1>c DEF Stored
<1>7. Held'
  <2> SUFFICES ASSUME thread' # None
               PROVE  /\ thread' \in [open : Int, last : Int \cup {None}, orphan : BOOLEAN]
                      /\ thread'.open < closed'
                      /\ thread'.orphan = TRUE
    BY DEF Held
  <2>1. thread # None /\ thread' = [thread EXCEPT !.orphan = TRUE]
    BY DEF Answered, Seed
  <2>2. thread \in [open : Int, last : Int \cup {None}, orphan : BOOLEAN] /\ thread.open < closed
    BY <2>1 DEF FeedInv, Held
  <2> QED
    BY <1>1, <2>1, <2>2
<1>8. ASSUME NEW k \in Nat, Reaches(k), ~(clock - 1 >= k /\ history' # << >>)
      PROVE  clock <= k /\ (k > 0 => history' # << >> /\ clock - 1 >= k - 1)
  <2>1. history # << >> /\ Last(history).open >= k
    BY <1>8 DEF Reaches
  <2>2. k < closed \/ k < clock
    BY <1>1, <2>1
  <2>3. history' = << >> => taken = 1 /\ clock = 0
    BY <1>2, <1>5
  <2>4. history' = << >> => k = 0
    BY <1>1, <2>2, <2>3
  <2> QED
    BY <1>1, <1>8, <2>2, <2>3, <2>4
<1>9. ASSUME NEW k \in Nat, Reaches(k)
      PROVE  Reaches(k)' \/ (clock <= k /\ (k > 0 => Reaches(k - 1)'))
  BY <1>1, <1>8, <1>9, <1>c DEF Reaches
<1> QED
  BY <1>6, <1>7, <1>9

LEMMA FeedNext == FeedInv /\ [Next]_vars => FeedInv'
<1> SUFFICES ASSUME FeedInv, [Next]_vars PROVE FeedInv'
  OBVIOUS
<1>1. /\ closed \in Nat \ {0} /\ told \in 0..closed /\ flight \in 0..Flight
      /\ phase \in 0..(TicksPerCandle - 1) /\ Flight \in Nat
      /\ clock \in {closed - 1, closed, closed + 1}
      /\ clock = closed + 1 => phase = TicksPerCandle - 1
  BY Constants DEF FeedInv, Clock
<1>2. CASE Tick
  BY <1>2, FeedTick
<1>3. CASE ConfirmationArrives
  <2>1. /\ thread' = [open |-> told, last |-> LastOpen, orphan |-> FALSE]
        /\ told < closed /\ told' = told + 1
        /\ UNCHANGED <<interval, closed, phase, clock, history, gaps, loop, taken, flight, seen>>
    BY <1>3 DEF ConfirmationArrives, time, store, cycle
  <2>2. LastOpen \in Int \cup {None} /\ LastOpen' = LastOpen
    BY <2>1, LastOpenType DEF FeedInv, Stored, LastOpen
  <2>3. Held'
    BY <1>1, <2>1, <2>2 DEF Held
  <2>4. Clock'
    BY <1>1, <2>1 DEF Clock
  <2>5. Prompt' /\ Stored' /\ Copied'
    BY <2>1 DEF FeedInv, Prompt, Stored, Copied, JudgedOnWhole
  <2> QED
    BY <2>3, <2>4, <2>5 DEF FeedInv
<1>4. CASE ThreadWrites
  <2>1. UNCHANGED <<interval, closed, phase, clock, told, loop, taken, flight, seen>>
    BY <1>4 DEF ThreadWrites, time, cycle
  <2>2. Stored' /\ gaps <= gaps' /\ Held'
    BY <1>4, FeedWrites
  <2>3. Clock' /\ Prompt'
    BY <2>1 DEF FeedInv, Clock, Prompt
  <2>4. Copied'
    <3>1. ASSUME loop \in {"holds", "judged"} PROVE Spaced(seen) /\ Holes(seen) <= gaps'
      <4>1. Spaced(seen) /\ Holes(seen) <= gaps /\ Holes(seen) \in Int
        BY <3>1, SpacedEnds, EmptySpaced DEF FeedInv, Copied
      <4> QED
        BY <2>2, <4>1 DEF FeedInv, Stored
    <3> QED
      BY <2>1, <3>1 DEF FeedInv, Copied, JudgedOnWhole
  <2> QED
    BY <2>2, <2>3, <2>4 DEF FeedInv
<1>5. CASE TickArrives
  BY <1>5 DEF TickArrives, FeedInv, Clock, Prompt, Stored, Held, Copied, JudgedOnWhole, LastOpen,
             time, cycle
<1>6. CASE ConfirmationLost
  <2>1. /\ told < closed /\ told' = told + 1
        /\ UNCHANGED <<interval, closed, phase, clock, thread, history, gaps, loop, taken, flight, seen>>
    BY <1>6 DEF ConfirmationLost, time, store, cycle
  <2>2. Clock'
    BY <1>1, <2>1 DEF Clock
  <2>3. Prompt' /\ Stored' /\ Held' /\ Copied'
    BY <2>1 DEF FeedInv, Prompt, Stored, Held, Copied, JudgedOnWhole, LastOpen
  <2> QED
    BY <2>2, <2>3 DEF FeedInv
<1>7. CASE Answered
  <2>1. /\ UNCHANGED <<interval, closed, phase, clock, told, seen>>
        /\ loop' = "answered" /\ flight' = 0
    BY <1>7 DEF Answered, GoesTo, time
  <2>2. Clock' /\ Prompt' /\ Copied'
    BY <1>1, <2>1 DEF Clock, Prompt, Copied, JudgedOnWhole
  <2> QED
    BY <1>7, <2>2, FeedAnswered DEF FeedInv
<1>8. CASE LoopSteps
  <2>1. UNCHANGED <<interval, closed, phase, clock, told, thread, history, gaps>>
    BY <1>8 DEF LoopSteps, time, store
  <2>2. Stored' /\ Held'
    BY <2>1 DEF FeedInv, Stored, Held, LastOpen
  <2>3. CASE SnapshotTaken
    <3>1. loop' = "taken" /\ taken' = closed /\ flight' = flight
      BY <2>3 DEF SnapshotTaken
    <3>2. Clock' /\ Prompt' /\ Copied'
      BY <1>1, <2>1, <3>1 DEF Clock, Prompt, Copied, JudgedOnWhole
    <3> QED
      BY <2>2, <3>2 DEF FeedInv
  <2>4. CASE Copies
    <3>1. loop' = "holds" /\ flight' = 0 /\ seen' = history
      BY <2>4 DEF Copies, GoesTo
    <3>2. Clock' /\ Prompt'
      BY <1>1, <2>1, <3>1 DEF Clock, Prompt
    <3>3. Copied'
      BY <2>1, <3>1 DEF FeedInv, Stored, Copied, JudgedOnWhole
    <3> QED
      BY <2>2, <3>2, <3>3 DEF FeedInv
  <2>5. CASE Judges
    <3>1. loop = "holds" /\ GoodData /\ loop' = "judged" /\ flight' = 0 /\ seen' = seen
      BY <2>5 DEF Judges, GoesTo
    <3>2. Clock' /\ Prompt'
      BY <1>1, <2>1, <3>1 DEF Clock, Prompt
    <3>3. Spaced(seen) /\ Holes(seen) <= gaps /\ Holes(seen) \in Int
      BY <3>1, SpacedEnds, EmptySpaced DEF FeedInv, Copied
    <3>4. interval = "1" => Holes(seen) <= MaxMissing
      BY <3>1, <3>3, Constants DEF GoodData, FeedInv, Stored
    <3>5. Copied'
      BY <2>1, <3>1, <3>3, <3>4 DEF Copied, JudgedOnWhole
    <3> QED
      BY <2>2, <3>2, <3>5 DEF FeedInv
  <2>6. CASE Refreshes \/ RefreshesForGaps \/ ScannerRefreshes \/ CycleEnds \/ RequestFails
    <3>1. loop' \in {"asks", "idle"} /\ flight' = 0
      BY <2>6 DEF Refreshes, RefreshesForGaps, ScannerRefreshes, CycleEnds, RequestFails, GoesTo
    <3>2. Clock' /\ Prompt' /\ Copied'
      BY <1>1, <2>1, <3>1 DEF Clock, Prompt, Copied, JudgedOnWhole
    <3> QED
      BY <2>2, <3>2 DEF FeedInv
  <2> QED
    BY <1>8, <2>3, <2>4, <2>5, <2>6 DEF LoopSteps
<1>10. CASE ClockTurns
  <2>1. /\ UNCHANGED <<interval, closed, phase, told, thread, history, gaps>>
        /\ UNCHANGED <<loop, taken, flight, seen>>
        /\ clock' = clock + 1
        /\ clock < closed \/ (phase = TicksPerCandle - 1 /\ clock = closed)
    BY <1>10 DEF ClockTurns, store, cycle
  <2>2. Clock'
    BY <1>1, <2>1 DEF Clock
  <2>3. Stored'
    <3>1. history # << >> => /\ Last(history).open \in Int
                             /\ Last(history).open < closed \/ Last(history).open < clock
      BY SpacedEnds DEF FeedInv, Stored, Candle
    <3> QED
      BY <1>1, <2>1, <3>1 DEF FeedInv, Stored
  <2>4. Prompt' /\ Held' /\ Copied'
    BY <2>1 DEF FeedInv, Prompt, Held, Copied, JudgedOnWhole, LastOpen
  <2> QED
    BY <2>2, <2>3, <2>4 DEF FeedInv
<1>9. CASE UNCHANGED vars
  BY <1>9 DEF vars, FeedInv, Clock, Prompt, Stored, Held, Copied, JudgedOnWhole, LastOpen,
             time, store, cycle
<1> QED
  BY <1>2, <1>3, <1>4, <1>5, <1>6, <1>7, <1>8, <1>9, <1>10 DEF Next

LEMMA FeedAlways == Spec => []FeedInv
  BY FeedInit, FeedNext, PTL DEF Spec

-----------------------------------------------------------------------------

\* InOrder: whichever of a confirmation and an answer comes first, the history that an
\* entry is judged on (CandleStore._confirmed) is in the order of time.
THEOREM HistoryInOrder == Spec => []InOrder
<1>1. FeedInv => InOrder
  <2> SUFFICES ASSUME FeedInv, NEW i \in DOMAIN history, NEW j \in DOMAIN history, i < j
               PROVE  history[i].open < history[j].open
    BY DEF InOrder
  <2>1. /\ history \in Seq(Candle) /\ Len(history) \in Nat
        /\ i \in 1..Len(history) /\ j \in 1..Len(history) /\ i <= j /\ j - i > 0
    BY DEF FeedInv, Stored, Spaced
  <2>2. history[i] \in Candle /\ history[j] \in Candle
    BY <2>1, ElementOfSeq
  <2>3. history[j].open - history[i].open >= j - i
    BY <2>1 DEF FeedInv, Stored, Spaced
  <2> QED
    BY <2>1, <2>2, <2>3 DEF Candle
<1> QED
  BY <1>1, FeedAlways, PTL

\* HolesCounted: CandleStore._gaps, which the data guard reads, never misses a hole.
THEOREM HolesAreCounted == Spec => []HolesCounted
<1>1. FeedInv => HolesCounted
  BY DEF FeedInv, Stored, HolesCounted
<1> QED
  BY <1>1, FeedAlways, PTL

\* JudgedOnWhole: the copy that DataQualityGuard lets an entry be judged on misses at most
\* max_missing_candles.
THEOREM EntriesJudgedOnWhole == Spec => []JudgedOnWhole
<1>1. FeedInv => JudgedOnWhole
  BY DEF FeedInv, Copied
<1> QED
  BY <1>1, FeedAlways, PTL

\* NeverGoesBack: an answer taken before a close and applied after it (seed) does not undo
\* the confirmation that came in between, if a request is shorter than a candle -- unless
\* the clock by which get_kline judges the rows lags behind the close, and then it undoes
\* that one candle and no other.
THEOREM LastCandleNeverGoesBack == Spec => NeverGoesBack
<1> DEFINE Back(k) == Reaches(k) => Reaches(k)' \/ (clock <= k /\ (k > 0 => Reaches(k - 1)'))
<1>1. FeedInv /\ [Next]_vars => [\A k \in Numbers : Back(k)]_vars
  <2> SUFFICES ASSUME FeedInv, Next, NEW k \in Nat PROVE Back(k)
    BY FeedAssumption DEF Numbers
  <2>1. CASE ThreadWrites
    <3>1. history # << >> => /\ history' # << >>
                             /\ Last(history').open >= Last(history).open
                            /\ Last(history').open \in Int /\ Last(history).open \in Int
      BY <2>1, FeedWrites, SpacedEnds DEF FeedInv, Stored, Candle
    <3> QED
      BY <3>1 DEF Reaches
  <2>2. CASE Answered
    BY <2>2, FeedAnswered
  <2>3. CASE ~ThreadWrites /\ ~Answered
    <3>1. history' = history
      BY <2>3 DEF Next, Tick, ClockTurns, ConfirmationArrives, TickArrives, ConfirmationLost,
                  LoopSteps, store
    <3> QED
      BY <3>1 DEF Reaches
  <2> QED
    BY <2>1, <2>2, <2>3
<1> QED
  BY <1>1, FeedAlways, PTL DEF Spec, NeverGoesBack
=============================================================================

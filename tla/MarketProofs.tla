---------------------------- MODULE MarketProofs -----------------------------
(***************************************************************************)
(* Proofs about the parts that make and read market data (MCMarket.tla),   *)
(* for any candles, windows, limits, builders, services and instruments:   *)
(* types, the swings and zones of both structure engines, the premium      *)
(* engine's trend and recovery, the shared candles and the chain's lock.   *)
(***************************************************************************)
EXTENDS MCMarket, SequenceTheorems, FiniteSetTheorems, WellFoundedInduction, TLAPS

-----------------------------------------------------------------------------
(* Sequences.                                                              *)

LEMMA IsSequence ==
  ASSUME NEW S, NEW n \in Nat, NEW m \in [1..n -> S]
  PROVE  m \in Seq(S) /\ Len(m) = n /\ DOMAIN m = 1..n
<1>1. m \in Seq(S)
  BY SeqDef
<1>2. QED
  BY <1>1, LenProperties

-----------------------------------------------------------------------------
(* Swings: one more candle.                                                *)

\* The edges of a candle are numbers, and the close lies between them.
LEMMA Edges ==
  ASSUME SwingsAssumption, NEW s \in Sides, NEW c \in Candles
  PROVE  Edge(s, c) \in Int /\ c.close \in Int /\ ~Beyond(s, c.close, Edge(s, c))
<1>1. c \in [high : Int, low : Int, close : Int] /\ c.low <= c.close /\ c.close <= c.high
  BY DEF SwingsAssumption
<1>2. QED
  BY <1>1 DEF Edge, Beyond, Sides

LEMMA Appended ==
  ASSUME NEW bs \in Seq(Candles), NEW c \in Candles
  PROVE  /\ Append(bs, c) \in Seq(Candles) /\ Len(bs) \in Nat /\ Len(Append(bs, c)) = Len(bs) + 1
         /\ \A i \in 1..Len(bs) : Append(bs, c)[i] = bs[i] /\ bs[i] \in Candles
         /\ Append(bs, c)[Len(bs) + 1] = c
         /\ DOMAIN bs = 1..Len(bs) /\ DOMAIN Append(bs, c) = 1..(Len(bs) + 1)
BY AppendProperties, LenProperties, ElementOfSeq

\* A swing stays one, and is only found when the last candle of its window arrives.
LEMMA SwingGrows ==
  ASSUME NEW bs \in Seq(Candles), NEW c \in Candles, NEW s, NEW p \in Int, NEW w \in Nat
  PROVE  /\ IsSwing(bs, s, p, w) => p \in 1..Len(bs) /\ p + w <= Len(bs) /\ IsSwing(Append(bs, c), s, p, w)
         /\ IsSwing(Append(bs, c), s, p, w) => IsSwing(bs, s, p, w) \/ p = Len(bs) + 1 - w
<1> DEFINE b2 == Append(bs, c)
           n == Len(bs)
<1>1. n \in Nat /\ Len(b2) = n + 1 /\ \A i \in 1..n : b2[i] = bs[i]
  BY Appended
<1> HIDE DEF b2, n
<1>2. ASSUME p - w >= 1, p + w <= n, NEW k \in 1..w
      PROVE  b2[p - k] = bs[p - k] /\ b2[p + k] = bs[p + k] /\ b2[p] = bs[p]
  <2>1. p - k \in 1..n /\ p + k \in 1..n /\ p \in 1..n
    BY <1>1, <1>2
  <2>2. QED
    BY <1>1, <2>1
<1>3. p - w >= 1 /\ p + w <= n => (IsSwing(bs, s, p, w) <=> IsSwing(b2, s, p, w))
  BY <1>1, <1>2 DEF IsSwing, n
<1>4. IsSwing(bs, s, p, w) => p \in 1..n /\ p - w >= 1 /\ p + w <= n
  BY <1>1 DEF IsSwing, n
<1>5. IsSwing(b2, s, p, w) => p - w >= 1 /\ (p + w <= n \/ p = n + 1 - w)
  BY <1>1 DEF IsSwing
<1>6. QED
  BY <1>3, <1>4, <1>5 DEF b2, n

\* A major swing is a minor one.
LEMMA WindowsNest ==
  ASSUME SwingsAssumption, NEW bs \in Seq(Candles), NEW s, NEW p \in Int, IsSwing(bs, s, p, MajorW)
  PROVE  IsSwing(bs, s, p, MinorW)
<1>1. MinorW \in Nat /\ MajorW \in Nat /\ MinorW <= MajorW /\ Len(bs) \in Nat
  BY LenProperties DEF SwingsAssumption
<1>2. \A k \in 1..MinorW : k \in 1..MajorW
  BY <1>1
<1>3. p - MinorW >= 1 /\ p + MinorW <= Len(bs)
  BY <1>1 DEF IsSwing
<1>4. QED
  BY <1>2, <1>3 DEF IsSwing

\* What one more candle adds to the swings of the history.
LEMMA ConfirmedGrows ==
  ASSUME SwingsAssumption, NEW bs \in Seq(Candles), NEW c \in Candles, NEW s
  PROVE  /\ \A p \in Confirmed(bs, s) : p \in 1..(Len(bs) - MinorW) /\ p \in Confirmed(Append(bs, c), s)
         /\ \A p \in Confirmed(Append(bs, c), s) : p \in Confirmed(bs, s) \/ p = Len(bs) + 1 - MinorW
         /\ Len(bs) + 1 - MinorW \in Confirmed(Append(bs, c), s) <=>
              IsSwing(Append(bs, c), s, Len(bs) + 1 - MinorW, MinorW)
<1>1. /\ MinorW \in Nat /\ MinorW >= 1 /\ Len(bs) \in Nat /\ DOMAIN bs = 1..Len(bs)
      /\ DOMAIN Append(bs, c) = 1..(Len(bs) + 1) /\ Len(Append(bs, c)) = Len(bs) + 1
  BY Appended DEF SwingsAssumption
<1>2. ASSUME NEW p \in Confirmed(bs, s)
      PROVE  p \in 1..(Len(bs) - MinorW) /\ p \in Confirmed(Append(bs, c), s)
  <2>1. p \in 1..Len(bs) /\ IsSwing(bs, s, p, MinorW)
    BY <1>1, <1>2 DEF Confirmed
  <2>2. p + MinorW <= Len(bs) /\ IsSwing(Append(bs, c), s, p, MinorW)
    BY <1>1, <2>1, SwingGrows
  <2>3. p \in 1..(Len(bs) - MinorW) /\ p \in 1..(Len(bs) + 1)
    BY <1>1, <2>1, <2>2
  <2>4. QED
    BY <1>1, <2>2, <2>3 DEF Confirmed
<1>3. ASSUME NEW p \in Confirmed(Append(bs, c), s)
      PROVE  p \in Confirmed(bs, s) \/ p = Len(bs) + 1 - MinorW
  <2>1. p \in 1..(Len(bs) + 1) /\ IsSwing(Append(bs, c), s, p, MinorW)
    BY <1>1, <1>3 DEF Confirmed
  <2>2. IsSwing(bs, s, p, MinorW) \/ p = Len(bs) + 1 - MinorW
    BY <1>1, <2>1, SwingGrows
  <2>3. IsSwing(bs, s, p, MinorW) => p \in 1..Len(bs)
    BY <1>1, <2>1, SwingGrows
  <2>4. QED
    BY <1>1, <2>2, <2>3 DEF Confirmed
<1>4. IsSwing(Append(bs, c), s, Len(bs) + 1 - MinorW, MinorW) => Len(bs) + 1 - MinorW \in 1..(Len(bs) + 1)
  BY <1>1 DEF IsSwing
<1>5. QED
  BY <1>1, <1>2, <1>3, <1>4 DEF Confirmed

-----------------------------------------------------------------------------
(* The list of swings of one side.                                         *)

\* The latest elements of a sequence.
LEMMA LastOfKeeps ==
  ASSUME NEW S, NEW q \in Seq(S), NEW n \in Nat \ {0}
  PROVE  /\ LastOf(q, n) \in Seq(S) /\ Len(q) \in Nat
         /\ Len(LastOf(q, n)) = IF Len(q) > n THEN n ELSE Len(q)
         /\ \A i \in 1..Len(LastOf(q, n)) : LastOf(q, n)[i] = q[i + (Len(q) - Len(LastOf(q, n)))]
<1>1. Len(q) \in Nat
  BY LenProperties
<1>2. CASE Len(q) > n
  <2>1. /\ Len(q) - n + 1 \in 1..(Len(q) + 1) /\ Len(q) \in (Len(q) - n + 1 - 1)..Len(q)
        /\ Len(q) - (Len(q) - n + 1) + 1 = n
        /\ LastOf(q, n) = SubSeq(q, Len(q) - n + 1, Len(q))
    BY <1>1, <1>2 DEF LastOf
  <2>2. /\ LastOf(q, n) \in Seq(S) /\ Len(LastOf(q, n)) = n
        /\ \A i \in 1..n : LastOf(q, n)[i] = q[Len(q) - n + 1 + i - 1]
    <3>1. Len(q) - n + 1 <= Len(q)
      BY <1>1, <1>2
    <3>2. QED
      BY <2>1, <3>1, SubSeqProperties
  <2>3. \A i \in 1..n : Len(q) - n + 1 + i - 1 = i + (Len(q) - n)
    BY <1>1
  <2>4. QED
    BY <1>1, <1>2, <2>2, <2>3
<1>3. CASE ~(Len(q) > n)
  BY <1>1, <1>3 DEF LastOf
<1>4. QED
  BY <1>2, <1>3

SwingRows == [at : Nat, price : Int, major : BOOLEAN]

LEMMA PriceOfRow ==
  ASSUME NEW x, NEW p, NEW e, NEW a, x = [at |-> p, price |-> e, major |-> a]
  PROVE  x.price = e
OBVIOUS

LEMMA MarkedRow ==
  ASSUME NEW x \in SwingRows, NEW y, y = [x EXCEPT !.major = TRUE]
  PROVE  y \in SwingRows /\ y = [at |-> x.at, price |-> x.price, major |-> TRUE]
<1>1. y \in SwingRows /\ y.at = x.at /\ y.price = x.price /\ y.major
  BY DEF SwingRows
<1>2. y = [at |-> y.at, price |-> y.price, major |-> y.major]
  BY <1>1 DEF SwingRows
<1>3. y.major = TRUE
  BY <1>1 DEF SwingRows
<1>4. QED
  BY <1>1, <1>2, <1>3, Zenon

(***************************************************************************)
(* The lists are ordered, and by positions: elements that are k apart are  *)
(* at least k candles apart.  This is what makes a major swing, confirmed  *)
(* MajorW - MinorW candles after the minor one, still be in the list.      *)
(***************************************************************************)
Spaced(q) == \A i, j \in DOMAIN q : i <= j => q[j].at - q[i].at >= j - i

\* The list of the swings of bs, of which the major ones of ms are marked.
ListOf(ms, bs, s, q) ==
  /\ q \in Seq(SwingRows) /\ Len(q) <= MaxSwings /\ Spaced(q)
  /\ \A i \in DOMAIN q : /\ q[i].at \in Confirmed(bs, s)
                         /\ q[i] = Swing(bs, s, q[i].at, IsSwing(ms, s, q[i].at, MajorW))
  /\ \A p \in Confirmed(bs, s) :
       (\E i \in DOMAIN q : q[i].at = p) \/ (Len(q) = MaxSwings /\ p < q[1].at)

Listed(bs, s, q) == ListOf(bs, bs, s, q)

LEMMA ListedIsExact ==
  ASSUME SwingsAssumption, NEW bs \in Seq(Candles), NEW s, NEW q, Listed(bs, s, q)
  PROVE  Exact(bs, s, q)
<1>1. DOMAIN q = 1..Len(q) /\ Len(q) \in Nat /\ \A i \in 1..Len(q) : q[i] \in SwingRows
  BY LenProperties, ElementOfSeq DEF Listed, ListOf
<1>2. \A i, j \in DOMAIN q : i < j => q[i].at < q[j].at
  <2> SUFFICES ASSUME NEW i \in DOMAIN q, NEW j \in DOMAIN q, i < j PROVE q[i].at < q[j].at
    OBVIOUS
  <2>0. Spaced(q)
    BY DEF Listed, ListOf
  <2>1. q[j].at - q[i].at >= j - i /\ i \in Nat /\ j \in Nat
    <3>1. i <= j /\ i \in Nat /\ j \in Nat
      BY <1>1
    <3>2. QED
      BY <2>0, <3>1 DEF Spaced
  <2>2. q[i].at \in Nat /\ q[j].at \in Nat
    BY <1>1 DEF SwingRows
  <2>3. QED
    BY <1>1, <2>1, <2>2
<1>3. QED
  BY <1>2 DEF Listed, ListOf, Exact

\* What becomes of list q when swing x is added to it.
Added(q, x, r) ==
  /\ r \in Seq(SwingRows) /\ Len(r) <= MaxSwings /\ Spaced(r)
  /\ \A i \in DOMAIN r : r[i] = x \/ \E j \in DOMAIN q : r[i] = q[j]
  /\ \E i \in DOMAIN r : r[i] = x
  /\ \A j \in DOMAIN q : (\E i \in DOMAIN r : r[i] = q[j]) \/ (Len(r) = MaxSwings /\ q[j].at < r[1].at)
  /\ Len(q) = MaxSwings => Len(r) = MaxSwings /\ q[1].at < r[1].at

\* A later swing is added, and the oldest one dropped when there are too many.
LEMMA LaterAdded ==
  ASSUME SwingsAssumption, NEW q \in Seq(SwingRows), Len(q) <= MaxSwings, Spaced(q), NEW x \in SwingRows,
         \A i \in DOMAIN q : q[i].at < x.at, NEW r, r = LastOf(Append(q, x), MaxSwings)
  PROVE  Added(q, x, r)
<1> DEFINE a == Append(q, x)
           n == Len(q)
           d == (n + 1) - Len(r)
<1>1. /\ MaxSwings \in Nat /\ MaxSwings >= 1 /\ MaxSwings \in Nat \ {0}
      /\ n \in Nat /\ DOMAIN q = 1..n /\ n <= MaxSwings
      /\ \A i \in 1..n : q[i] \in SwingRows
  BY LenProperties, ElementOfSeq DEF SwingsAssumption
<1>0. /\ \A i \in 1..n : q[i].at \in Nat
      /\ \A i, j \in 1..n : i <= j => q[j].at - q[i].at >= j - i
  <2>1. \A i \in 1..n : q[i].at \in Nat
    BY <1>1 DEF SwingRows
  <2>2. \A i, j \in 1..n : i <= j => q[j].at - q[i].at >= j - i
    BY <1>1 DEF Spaced
  <2>3. QED
    BY <2>1, <2>2
<1>2. a \in Seq(SwingRows) /\ Len(a) = n + 1 /\ a[n + 1] = x /\ \A i \in 1..n : a[i] = q[i]
  BY AppendProperties
<1>3. \A i, j \in 1..(n + 1) : i <= j => a[j].at - a[i].at >= j - i
  <2> SUFFICES ASSUME NEW i \in 1..(n + 1), NEW j \in 1..(n + 1), i <= j PROVE a[j].at - a[i].at >= j - i
    OBVIOUS
  <2>0. x.at \in Nat
    BY DEF SwingRows
  <2>1. CASE j <= n
    <3>1. i \in 1..n /\ j \in 1..n
      BY <1>1, <2>1
    <3>2. QED
      BY <1>0, <1>2, <3>1
  <2>2. CASE j = n + 1 /\ i = n + 1
    BY <1>1, <1>2, <2>0, <2>2
  <2>3. CASE j = n + 1 /\ i <= n
    <3>0. n \in 1..n /\ i \in 1..n
      BY <1>1, <2>3
    <3>1. q[n].at - q[i].at >= n - i /\ q[n].at < x.at /\ q[n].at \in Nat /\ q[i].at \in Nat
      BY <1>0, <1>1, <3>0
    <3>2. a[j] = x /\ a[i] = q[i]
      BY <1>1, <1>2, <2>3
    <3>3. QED
      BY <1>1, <2>0, <2>3, <3>1, <3>2
  <2>4. QED
    BY <1>1, <2>1, <2>2, <2>3
<1>4. /\ r \in Seq(SwingRows) /\ Len(r) = IF n + 1 > MaxSwings THEN MaxSwings ELSE n + 1
      /\ \A i \in 1..Len(r) : r[i] = a[i + d]
  <2>1. /\ r \in Seq(SwingRows) /\ Len(r) = IF Len(a) > MaxSwings THEN MaxSwings ELSE Len(a)
        /\ \A i \in 1..Len(r) : r[i] = a[i + (Len(a) - Len(r))]
    BY <1>1, <1>2, LastOfKeeps
  <2>2. QED
    BY <1>2, <2>1
<1> HIDE DEF a, n
<1>5. DOMAIN r = 1..Len(r)
  BY <1>4, LenProperties
<1>6. /\ Len(r) \in Nat /\ Len(r) >= 1 /\ Len(r) <= MaxSwings /\ d \in {0, 1} /\ (d = 1 => Len(r) = MaxSwings /\ n = MaxSwings)
      /\ (d = 0 => Len(r) = n + 1 /\ n < MaxSwings) /\ Len(r) + d = n + 1
  BY <1>1, <1>4
<1> HIDE DEF d
<1>7. \A i \in 1..Len(r) : i + d \in 1..(n + 1) /\ r[i] = a[i + d]
  BY <1>1, <1>4, <1>6
<1>7a. \A i \in 1..Len(r) : r[i].at \in Nat
  <2>1. \A i \in 1..Len(r) : r[i] \in SwingRows
    BY <1>4, ElementOfSeq
  <2>2. QED
    BY <2>1 DEF SwingRows
<1>8. Spaced(r)
  <2> SUFFICES ASSUME NEW i \in 1..Len(r), NEW j \in 1..Len(r), i <= j PROVE r[j].at - r[i].at >= j - i
    BY <1>5 DEF Spaced
  <2>0. i + d \in 1..(n + 1) /\ j + d \in 1..(n + 1) /\ i + d <= j + d
    BY <1>6, <1>7
  <2>1. a[j + d].at - a[i + d].at >= (j + d) - (i + d)
    BY <1>3, <2>0
  <2>2. (j + d) - (i + d) = j - i
    BY <1>6
  <2>3. QED
    BY <1>7, <2>1, <2>2
<1>9. \A i \in 1..Len(r) : r[i] = x \/ \E j \in 1..n : r[i] = q[j]
  BY <1>1, <1>2, <1>7
<1>10. r[Len(r)] = x
  BY <1>2, <1>6, <1>7
<1>11. \A j \in 1..n : (\E i \in 1..Len(r) : r[i] = q[j]) \/ (Len(r) = MaxSwings /\ q[j].at < r[1].at)
  <2> SUFFICES ASSUME NEW j \in 1..n
               PROVE  (\E i \in 1..Len(r) : r[i] = q[j]) \/ (Len(r) = MaxSwings /\ q[j].at < r[1].at)
    OBVIOUS
  <2>1. CASE j - d >= 1
    <3>1. j - d \in 1..Len(r) /\ (j - d) + d = j
      BY <1>1, <1>6, <2>1
    <3>2. r[j - d] = q[j]
      BY <1>2, <1>7, <3>1
    <3>3. QED
      BY <3>1, <3>2
  <2>2. CASE j - d < 1
    <3>1. j = 1 /\ d = 1
      BY <1>1, <1>6, <2>2
    <3>2. r[1] = a[2] /\ a[1] = q[1] /\ 2 \in 1..(n + 1)
      BY <1>2, <1>6, <1>7, <3>1
    <3>3. a[2].at - a[1].at >= 1
      BY <1>1, <1>3, <3>2
    <3>4. r[1].at \in Nat /\ q[1].at \in Nat
      BY <1>0, <1>6, <1>7a, <3>1
    <3>5. QED
      BY <1>6, <3>1, <3>2, <3>3, <3>4
  <2>3. QED
    BY <1>1, <1>6, <2>1, <2>2
<1>12. n = MaxSwings => Len(r) = MaxSwings /\ q[1].at < r[1].at
  <2> SUFFICES ASSUME n = MaxSwings PROVE q[1].at < r[1].at
    BY <1>1, <1>4
  <2>1. d = 1 /\ 1 \in 1..Len(r)
    BY <1>1, <1>6
  <2>2. r[1] = a[2] /\ a[1] = q[1] /\ 2 \in 1..(n + 1) /\ 1 \in 1..(n + 1)
    BY <1>1, <1>2, <1>6, <1>7, <2>1
  <2>3. a[2].at - a[1].at >= 1
    BY <1>3, <2>2
  <2>4. r[1].at \in Nat /\ q[1].at \in Nat
    BY <1>0, <1>1, <1>7a, <2>1
  <2>5. QED
    BY <2>2, <2>3, <2>4
<1>13. /\ r \in Seq(SwingRows) /\ Len(r) <= MaxSwings /\ Spaced(r)
       /\ \A i \in DOMAIN r : r[i] = x \/ \E j \in DOMAIN q : r[i] = q[j]
       /\ \E i \in DOMAIN r : r[i] = x
       /\ \A j \in DOMAIN q : (\E i \in DOMAIN r : r[i] = q[j]) \/ (Len(r) = MaxSwings /\ q[j].at < r[1].at)
       /\ n = MaxSwings => Len(r) = MaxSwings /\ q[1].at < r[1].at
  <2>1. Len(r) \in 1..Len(r)
    BY <1>6
  <2>2. QED
    BY <1>1, <1>4, <1>5, <1>6, <1>8, <1>9, <1>10, <1>11, <1>12, <2>1
<1>14. QED
  BY <1>13 DEF n, Added

\* The minor swing that the last candle confirms is added.
LEMMA MinorAdded ==
  ASSUME SwingsAssumption, NEW bs \in Seq(Candles), NEW c \in Candles, NEW s \in Sides, NEW q, Listed(bs, s, q)
  PROVE  ListOf(bs, Append(bs, c), s, AddMinor(Append(bs, c), s, q))
<1>1. PICK b2, n, p : b2 = Append(bs, c) /\ n = Len(bs) /\ p = n + 1 - MinorW
  OBVIOUS
<1>2. /\ n \in Nat /\ Len(b2) = n + 1 /\ b2 \in Seq(Candles)
      /\ \A i \in 1..n : b2[i] = bs[i]
      /\ MinorW \in Nat /\ MinorW >= 1 /\ MajorW \in Nat /\ MinorW <= MajorW
      /\ p \in Int /\ p + MinorW = n + 1 /\ p <= n /\ Len(b2) - MinorW = p
  <2>1. MinorW \in Nat /\ MinorW >= 1 /\ MajorW \in Nat /\ MinorW <= MajorW
    BY DEF SwingsAssumption
  <2>2. /\ n \in Nat /\ Len(b2) = n + 1 /\ b2 \in Seq(Candles)
        /\ \A i \in 1..n : b2[i] = bs[i]
    BY <1>1, Appended
  <2>3. p \in Int /\ p + MinorW = n + 1 /\ p <= n /\ Len(b2) - MinorW = p
    BY <1>1, <2>1, <2>2
  <2>4. QED
    BY <2>1, <2>2, <2>3
<1>3. /\ \A x \in Confirmed(bs, s) : x \in 1..(n - MinorW) /\ x \in Confirmed(b2, s)
      /\ \A x \in Confirmed(b2, s) : x \in Confirmed(bs, s) \/ x = p
      /\ p \in Confirmed(b2, s) <=> IsSwing(b2, s, p, MinorW)
  BY <1>1, ConfirmedGrows
<1>4. /\ q \in Seq(SwingRows) /\ Len(q) <= MaxSwings /\ Spaced(q)
      /\ \A i \in DOMAIN q : /\ q[i].at \in Confirmed(bs, s)
                             /\ q[i] = Swing(bs, s, q[i].at, IsSwing(bs, s, q[i].at, MajorW))
      /\ \A x \in Confirmed(bs, s) :
           (\E i \in DOMAIN q : q[i].at = x) \/ (Len(q) = MaxSwings /\ x < q[1].at)
  BY DEF Listed, ListOf
<1>5. \A i \in DOMAIN q : /\ q[i].at \in Confirmed(b2, s) /\ q[i].at \in 1..(n - MinorW) /\ q[i].at < p
                          /\ q[i] = Swing(b2, s, q[i].at, IsSwing(bs, s, q[i].at, MajorW))
  <2> SUFFICES ASSUME NEW i \in DOMAIN q
               PROVE  /\ q[i].at \in Confirmed(b2, s) /\ q[i].at \in 1..(n - MinorW) /\ q[i].at < p
                      /\ q[i] = Swing(b2, s, q[i].at, IsSwing(bs, s, q[i].at, MajorW))
    OBVIOUS
  <2>1. q[i].at \in Confirmed(b2, s) /\ q[i].at \in 1..(n - MinorW)
    BY <1>3, <1>4
  <2>2. q[i].at \in 1..n /\ q[i].at < p
    <3>1. PICK y : y = q[i].at
      OBVIOUS
    <3>2. y \in 1..(n - MinorW) => y \in 1..n /\ y < p
      BY <1>2
    <3>3. QED
      BY <2>1, <3>1, <3>2
  <2>3. b2[q[i].at] = bs[q[i].at]
    BY <1>2, <2>2
  <2>4. Swing(b2, s, q[i].at, IsSwing(bs, s, q[i].at, MajorW)) = Swing(bs, s, q[i].at, IsSwing(bs, s, q[i].at, MajorW))
    BY <2>3 DEF Swing
  <2>5. QED
    BY <1>4, <2>1, <2>2, <2>4
<1>6. CASE ~IsSwing(b2, s, p, MinorW)
  <2>1. AddMinor(b2, s, q) = q
    BY <1>2, <1>6 DEF AddMinor
  <2>2. \A x \in Confirmed(b2, s) : x \in Confirmed(bs, s)
    BY <1>3, <1>6
  <2>3. QED
    BY <1>1, <1>4, <1>5, <2>1, <2>2 DEF ListOf
<1>7. CASE IsSwing(b2, s, p, MinorW)
  <2>1. PICK x : x = Swing(b2, s, p, FALSE)
    OBVIOUS
  <2>2. x \in SwingRows /\ x.at = p /\ x = Swing(b2, s, p, FALSE)
    <3>1. p \in 1..(n + 1) /\ p \in Nat /\ b2[p] \in Candles
      <4>1. p - MinorW >= 1
        BY <1>7 DEF IsSwing
      <4>2. p \in 1..(n + 1)
        BY <1>2, <4>1
      <4>3. QED
        BY <1>2, <4>2, ElementOfSeq
    <3>2. Edge(s, b2[p]) \in Int
      BY <3>1, Edges
    <3>3. QED
      BY <2>1, <3>1, <3>2 DEF Swing, SwingRows
  <2>3. PICK r : r = LastOf(Append(q, x), MaxSwings)
    OBVIOUS
  <2>4. AddMinor(b2, s, q) = r
    <3>1. \A i \in DOMAIN q : q[i].at # p
      BY <1>5, <1>2
    <3>2. QED
      BY <1>2, <1>7, <2>1, <2>3, <3>1 DEF AddMinor
  <2>5. /\ r \in Seq(SwingRows) /\ Len(r) <= MaxSwings /\ Spaced(r)
        /\ \A i \in DOMAIN r : r[i] = x \/ \E j \in DOMAIN q : r[i] = q[j]
        /\ \E i \in DOMAIN r : r[i] = x
        /\ \A j \in DOMAIN q : (\E i \in DOMAIN r : r[i] = q[j]) \/ (Len(r) = MaxSwings /\ q[j].at < r[1].at)
        /\ Len(q) = MaxSwings => Len(r) = MaxSwings /\ q[1].at < r[1].at
    <3>1. \A i \in DOMAIN q : q[i].at < x.at
      BY <1>5, <2>2
    <3>2. q \in Seq(SwingRows) /\ Len(q) <= MaxSwings /\ Spaced(q) /\ x \in SwingRows
      BY <1>4, <2>2
    <3>3. Added(q, x, r)
      BY <2>3, <3>1, <3>2, LaterAdded
    <3>4. QED
      BY <3>3 DEF Added
  <2>6. ~IsSwing(bs, s, p, MajorW)
    BY <1>1, <1>2 DEF IsSwing
  <2>7. \A i \in DOMAIN r : /\ r[i].at \in Confirmed(b2, s)
                            /\ r[i] = Swing(b2, s, r[i].at, IsSwing(bs, s, r[i].at, MajorW))
    <3> SUFFICES ASSUME NEW i \in DOMAIN r
                 PROVE  /\ r[i].at \in Confirmed(b2, s)
                        /\ r[i] = Swing(b2, s, r[i].at, IsSwing(bs, s, r[i].at, MajorW))
      OBVIOUS
    <3>1. CASE r[i] = x
      <4>1. IsSwing(bs, s, p, MajorW) = FALSE
        BY <2>6 DEF IsSwing
      <4>2. QED
        BY <1>3, <1>7, <2>2, <3>1, <4>1
    <3>2. CASE \E j \in DOMAIN q : r[i] = q[j]
      BY <1>5, <3>2
    <3>3. QED
      BY <2>5, <3>1, <3>2
  <2>8. \A y \in Confirmed(b2, s) : (\E i \in DOMAIN r : r[i].at = y) \/ (Len(r) = MaxSwings /\ y < r[1].at)
    <3> SUFFICES ASSUME NEW y \in Confirmed(b2, s)
                 PROVE  (\E i \in DOMAIN r : r[i].at = y) \/ (Len(r) = MaxSwings /\ y < r[1].at)
      OBVIOUS
    <3>1. CASE y = p
      BY <2>2, <2>5, <3>1
    <3>2. ASSUME NEW j \in DOMAIN q, q[j].at = y
          PROVE  (\E i \in DOMAIN r : r[i].at = y) \/ (Len(r) = MaxSwings /\ y < r[1].at)
      BY <2>5, <3>2
    <3>3. CASE y \in Confirmed(bs, s) /\ Len(q) = MaxSwings /\ y < q[1].at
      <4>1. Len(r) = MaxSwings /\ q[1].at < r[1].at /\ 1 \in DOMAIN q /\ 1 \in DOMAIN r
        BY <1>4, <2>5, <3>3, LenProperties DEF SwingsAssumption
      <4>2. q[1] \in SwingRows /\ r[1] \in SwingRows
        BY <1>4, <2>5, <4>1, LenProperties, ElementOfSeq
      <4>3. q[1].at \in Nat /\ r[1].at \in Nat /\ y \in Nat
        <5>1. q[1].at \in Nat /\ r[1].at \in Nat
          BY <4>2 DEF SwingRows
        <5>2. y \in 1..(n - MinorW)
          BY <1>3, <3>3
        <5>3. QED
          BY <5>1, <5>2
      <4>4. QED
        BY <3>3, <4>1, <4>3
    <3>4. QED
      BY <1>3, <1>4, <3>1, <3>2, <3>3
  <2>9. QED
    BY <1>1, <2>4, <2>5, <2>7, <2>8 DEF ListOf
<1>8. QED
  BY <1>6, <1>7

\* The major swing that the last candle confirms is in the list, and is marked.
LEMMA MajorMarked ==
  ASSUME SwingsAssumption, NEW bs \in Seq(Candles), NEW c \in Candles, NEW s \in Sides, NEW b2, b2 = Append(bs, c),
         NEW q, ListOf(bs, b2, s, q)
  PROVE  Listed(b2, s, MarkMajor(b2, s, q))
<1>1. PICK n, p : n = Len(bs) /\ p = n + 1 - MajorW
  OBVIOUS
<1>2. /\ n \in Nat /\ b2 \in Seq(Candles) /\ MinorW \in Nat /\ MajorW \in Nat /\ MajorW >= 1
      /\ MaxSwings \in Nat /\ MaxSwings >= 1 /\ MajorW - MinorW < MaxSwings
      /\ p \in Int /\ p + MajorW = n + 1 /\ Len(b2) - MajorW = p
  <2>1. /\ MinorW \in Nat /\ MajorW \in Nat /\ MajorW >= 1 /\ MaxSwings \in Nat /\ MaxSwings >= 1
        /\ MajorW - MinorW < MaxSwings
    BY DEF SwingsAssumption
  <2>2. n \in Nat /\ Len(b2) = n + 1 /\ b2 \in Seq(Candles)
    BY <1>1, Appended
  <2>3. QED
    BY <1>1, <2>1, <2>2
<1>3. /\ q \in Seq(SwingRows) /\ Len(q) <= MaxSwings /\ Spaced(q)
      /\ \A i \in DOMAIN q : /\ q[i].at \in Confirmed(b2, s)
                             /\ q[i] = Swing(b2, s, q[i].at, IsSwing(bs, s, q[i].at, MajorW))
      /\ \A x \in Confirmed(b2, s) :
           (\E i \in DOMAIN q : q[i].at = x) \/ (Len(q) = MaxSwings /\ x < q[1].at)
  BY DEF ListOf
<1>4. /\ DOMAIN q = 1..Len(q) /\ Len(q) \in Nat /\ \A i \in 1..Len(q) : q[i] \in SwingRows /\ q[i].at \in Nat
  <2>1. DOMAIN q = 1..Len(q) /\ Len(q) \in Nat /\ \A i \in 1..Len(q) : q[i] \in SwingRows
    BY <1>3, LenProperties, ElementOfSeq
  <2>2. QED
    BY <2>1 DEF SwingRows
<1>5. \A x \in Int : x # p => (IsSwing(b2, s, x, MajorW) <=> IsSwing(bs, s, x, MajorW))
  <2> SUFFICES ASSUME NEW x \in Int, x # p PROVE IsSwing(b2, s, x, MajorW) <=> IsSwing(bs, s, x, MajorW)
    OBVIOUS
  <2>1. QED
    BY <1>1, <1>2, SwingGrows
<1>6. ~IsSwing(bs, s, p, MajorW)
  BY <1>1, <1>2 DEF IsSwing
<1>7. CASE ~IsSwing(b2, s, p, MajorW)
  <2>1. MarkMajor(b2, s, q) = q
    BY <1>2, <1>7 DEF MarkMajor
  <2>2. \A x \in Int : IsSwing(b2, s, x, MajorW) = IsSwing(bs, s, x, MajorW)
    BY <1>5, <1>6, <1>7 DEF IsSwing
  <2>3. \A i \in DOMAIN q : q[i] = Swing(b2, s, q[i].at, IsSwing(b2, s, q[i].at, MajorW))
    <3> SUFFICES ASSUME NEW i \in DOMAIN q
                 PROVE  q[i] = Swing(b2, s, q[i].at, IsSwing(b2, s, q[i].at, MajorW))
      OBVIOUS
    <3>1. q[i] = Swing(b2, s, q[i].at, IsSwing(bs, s, q[i].at, MajorW))
      BY <1>3
    <3>2. IsSwing(b2, s, q[i].at, MajorW) = IsSwing(bs, s, q[i].at, MajorW)
      BY <1>4, <2>2
    <3>3. QED
      BY <3>1, <3>2, Zenon
  <2>4. QED
    BY <1>3, <2>1, <2>3 DEF Listed, ListOf
<1>8. CASE IsSwing(b2, s, p, MajorW)
  <2>1. p \in Confirmed(b2, s) /\ \A x \in Confirmed(b2, s) : x \in Int /\ x <= n + 1 - MinorW
    <3>1. IsSwing(b2, s, p, MinorW)
      BY <1>2, <1>8, WindowsNest
    <3>2. DOMAIN b2 = 1..(n + 1) /\ Len(b2) = n + 1
      BY <1>1, Appended
    <3>3. p \in 1..(n + 1)
      BY <1>2, <1>8 DEF IsSwing
    <3>4. \A x \in Confirmed(b2, s) : x \in 1..(n + 1) /\ x + MinorW <= n + 1
      BY <3>2 DEF Confirmed, IsSwing
    <3>5. \A x \in 1..(n + 1) : x + MinorW <= n + 1 => x \in Int /\ x <= n + 1 - MinorW
      BY <1>2
    <3>6. QED
      BY <3>1, <3>2, <3>3, <3>4, <3>5 DEF Confirmed
  <2>2. ASSUME Len(q) = MaxSwings, p < q[1].at PROVE FALSE
    <3>1. 1 \in 1..Len(q) /\ MaxSwings \in 1..Len(q)
      BY <1>2, <2>2
    <3>2. q[MaxSwings].at - q[1].at >= MaxSwings - 1
      BY <1>2, <1>3, <1>4, <3>1 DEF Spaced
    <3>3. q[MaxSwings].at <= n + 1 - MinorW
      BY <1>3, <1>4, <2>1, <3>1
    <3>4. q[MaxSwings].at \in Nat /\ q[1].at \in Nat
      BY <1>4, <3>1
    <3>5. QED
      BY <1>2, <2>2, <3>2, <3>3, <3>4
  <2>3. \E i \in DOMAIN q : q[i].at = p
    BY <1>3, <2>1, <2>2
  <2>4. PICK m : m = [i \in DOMAIN q |-> IF q[i].at = p THEN [q[i] EXCEPT !.major = TRUE] ELSE q[i]]
    OBVIOUS
  <2>5. MarkMajor(b2, s, q) = m
    BY <1>2, <1>8, <2>3, <2>4 DEF MarkMajor
  <2>6. \A i \in 1..Len(q) : /\ m[i] \in SwingRows /\ m[i].at = q[i].at
                             /\ m[i] = IF q[i].at = p THEN [q[i] EXCEPT !.major = TRUE] ELSE q[i]
    BY <1>4, <2>4 DEF SwingRows
  <2>7. m \in Seq(SwingRows) /\ Len(m) = Len(q) /\ DOMAIN m = 1..Len(q)
    <3>0. m = [i \in 1..Len(q) |-> m[i]]
      BY <1>4, <2>4
    <3>1. m \in [1..Len(q) -> SwingRows]
      BY <2>6, <3>0
    <3>2. QED
      BY <1>4, <3>1, IsSequence
  <2>8. Spaced(m)
    BY <1>3, <1>4, <2>6, <2>7 DEF Spaced
  <2>9. \A i \in 1..Len(q) : m[i] = Swing(b2, s, m[i].at, IsSwing(b2, s, m[i].at, MajorW))
    <3> SUFFICES ASSUME NEW i \in 1..Len(q)
                 PROVE  m[i] = Swing(b2, s, q[i].at, IsSwing(b2, s, q[i].at, MajorW))
      BY <2>6
    <3>0. q[i] = Swing(b2, s, q[i].at, IsSwing(bs, s, q[i].at, MajorW))
      BY <1>3, <1>4, Zenon
    <3>1. q[i] = Swing(b2, s, q[i].at, IsSwing(bs, s, q[i].at, MajorW)) /\ q[i].at \in Int
      BY <1>4, <3>0
    <3>2. CASE q[i].at = p
      <4>1. q[i] \in SwingRows /\ m[i] = [q[i] EXCEPT !.major = TRUE]
        BY <1>4, <2>6, <3>2
      <4>2. m[i] = [at |-> q[i].at, price |-> q[i].price, major |-> TRUE]
        BY <4>1, MarkedRow
      <4>3. q[i].price = Edge(s, b2[q[i].at])
        <5>1. PICK a : a = IsSwing(bs, s, q[i].at, MajorW)
          OBVIOUS
        <5>2. q[i] = [at |-> q[i].at, price |-> Edge(s, b2[q[i].at]), major |-> a]
          BY <3>1, <5>1 DEF Swing
        <5>3. QED
          BY <5>2, PriceOfRow
      <4>4. IsSwing(b2, s, q[i].at, MajorW) = TRUE
        BY <1>8, <3>2 DEF IsSwing
      <4>5. QED
        BY <4>2, <4>3, <4>4 DEF Swing
    <3>3. CASE q[i].at # p
      <4>1. IsSwing(b2, s, q[i].at, MajorW) = IsSwing(bs, s, q[i].at, MajorW)
        BY <1>5, <3>1, <3>3 DEF IsSwing
      <4>2. QED
        BY <2>6, <3>1, <3>3, <4>1
    <3>4. QED
      BY <3>2, <3>3
  <2>10. \A x \in Confirmed(b2, s) :
           (\E i \in DOMAIN m : m[i].at = x) \/ (Len(m) = MaxSwings /\ x < m[1].at)
    <3> SUFFICES ASSUME NEW x \in Confirmed(b2, s)
                 PROVE  (\E i \in DOMAIN m : m[i].at = x) \/ (Len(m) = MaxSwings /\ x < m[1].at)
      OBVIOUS
    <3>1. CASE \E i \in DOMAIN q : q[i].at = x
      BY <1>4, <2>6, <2>7, <3>1
    <3>2. CASE Len(q) = MaxSwings /\ x < q[1].at
      <4>1. 1 \in 1..Len(q)
        BY <1>2, <3>2
      <4>2. QED
        BY <2>6, <2>7, <3>2, <4>1
    <3>3. QED
      BY <1>3, <3>1, <3>2
  <2>11. QED
    <3>1. \A i \in DOMAIN m : m[i].at \in Confirmed(b2, s)
      BY <1>3, <1>4, <2>6, <2>7
    <3>2. QED
      BY <1>3, <2>5, <2>7, <2>8, <2>9, <2>10, <3>1 DEF Listed, ListOf
<1>9. QED
  BY <1>7, <1>8

\* What one candle does to the list of a side.
LEMMA ListStep ==
  ASSUME SwingsAssumption, NEW bs \in Seq(Candles), NEW c \in Candles, NEW s \in Sides, NEW q, Listed(bs, s, q)
  PROVE  Listed(Append(bs, c), s, MarkMajor(Append(bs, c), s, AddMinor(Append(bs, c), s, q)))
BY MinorAdded, MajorMarked

LEMMA ListBegins == ASSUME SwingsAssumption, NEW s PROVE Listed(<<>>, s, <<>>)
<1>1. <<>> \in Seq(SwingRows) /\ Len(<<>>) = 0 /\ DOMAIN <<>> = {}
  BY EmptySeq
<1>2. 0 <= MaxSwings
  BY DEF SwingsAssumption
<1>3. Confirmed(<<>>, s) = {}
  BY <1>1 DEF Confirmed
<1>4. QED
  BY <1>1, <1>2, <1>3 DEF Listed, ListOf, Spaced

-----------------------------------------------------------------------------
(* Zones.                                                                  *)

ZoneRows == [side : Sides, at : Nat, edge : Int, mitigated : BOOLEAN]

\* The zones whose mark says what the candles since their swing have done.
HonestIn(bs) ==
  {z \in ZoneRows : /\ z.at <= Len(bs)
                    /\ z.mitigated <=> \E k \in z.at + 1 .. Len(bs) : Beyond(z.side, bs[k].close, z.edge)}

\* No candle between a swing and its confirmation has closed beyond it.
LEMMA NewZoneHonest ==
  ASSUME SwingsAssumption, bars \in Seq(Candles), NEW c \in Candles, bars' = Append(bars, c), NEW s \in Sides
  PROVE  NewZone(s) \in Seq(HonestIn(bars))
<1>1. PICK n, p : n = Len(bars) /\ p = n + 1 - MinorW
  OBVIOUS
<1>2. /\ n \in Nat /\ Len(bars') = n + 1 /\ bars' \in Seq(Candles)
      /\ \A i \in 1..n : bars'[i] = bars[i] /\ bars'[i] \in Candles
      /\ MinorW \in Nat /\ MinorW >= 1
      /\ p \in Int /\ p + MinorW = n + 1 /\ p <= n /\ Len(bars') - MinorW = p
  <2>1. MinorW \in Nat /\ MinorW >= 1
    BY DEF SwingsAssumption
  <2>2. /\ n \in Nat /\ Len(bars') = n + 1 /\ bars' \in Seq(Candles)
        /\ \A i \in 1..n : bars'[i] = bars[i] /\ bars'[i] \in Candles
    BY <1>1, Appended
  <2>3. p \in Int /\ p + MinorW = n + 1 /\ p <= n /\ Len(bars') - MinorW = p
    BY <1>1, <2>1, <2>2
  <2>4. QED
    BY <2>1, <2>2, <2>3
<1>3. CASE ~(IsSwing(bars', s, p, MinorW) /\ \A i \in DOMAIN swings[s] : swings[s][i].at # p)
  <2>1. NewZone(s) = <<>>
    BY <1>2, <1>3 DEF NewZone
  <2>2. QED
    BY <2>1, EmptySeq
<1>4. CASE IsSwing(bars', s, p, MinorW) /\ \A i \in DOMAIN swings[s] : swings[s][i].at # p
  <2>1. PICK z : z = [side |-> s, at |-> p, edge |-> Edge(s, bars'[p]), mitigated |-> FALSE]
    OBVIOUS
  <2>2. NewZone(s) = <<z>>
    BY <1>2, <1>4, <2>1 DEF NewZone
  <2>3. p \in 1..n /\ p \in Nat /\ bars'[p] \in Candles /\ Edge(s, bars'[p]) \in Int
    <3>0. p - MinorW >= 1
      BY <1>4 DEF IsSwing
    <3>1. p \in 1..n /\ p \in Nat
      BY <1>2, <3>0
    <3>2. bars'[p] \in Candles
      BY <1>2, <3>1, ElementOfSeq
    <3>3. QED
      BY <3>1, <3>2, Edges, Zenon
  <2>4. ASSUME NEW k \in p + 1 .. n PROVE ~Beyond(s, bars[k].close, Edge(s, bars'[p]))
    <3>1. k \in 1..n /\ k - p \in 1..MinorW /\ p + (k - p) = k
      <4>1. n \in Nat /\ MinorW \in Nat /\ p \in Int /\ p + MinorW = n + 1 /\ p >= 1 /\ k \in p + 1 .. n
        BY <1>2, <2>3, <2>4
      <4>2. QED
        BY <4>1
    <3>2. Beyond(s, Edge(s, bars'[p]), Edge(s, bars'[k]))
      BY <1>4, <3>1 DEF IsSwing
    <3>3. /\ bars'[k] = bars[k] /\ Edge(s, bars'[k]) \in Int /\ bars[k].close \in Int
          /\ ~Beyond(s, bars[k].close, Edge(s, bars'[k]))
      BY <1>2, <3>1, Edges
    <3>4. \A x, y, w \in Int : Beyond(s, w, y) /\ ~Beyond(s, x, y) => ~Beyond(s, x, w)
      BY DEF Beyond, Sides
    <3>5. QED
      BY <2>3, <3>2, <3>3, <3>4
  <2>5. z \in ZoneRows /\ z.side = s /\ z.at = p /\ z.edge = Edge(s, bars'[p]) /\ ~z.mitigated
    <3>1. PICK e : e = Edge(s, bars'[p])
      OBVIOUS
    <3>2. z = [side |-> s, at |-> p, edge |-> e, mitigated |-> FALSE] /\ p \in Nat /\ e \in Int
      <4>1. z = [side |-> s, at |-> p, edge |-> e, mitigated |-> FALSE]
        BY <2>1, <3>1
      <4>2. p \in Nat /\ e \in Int
        BY <2>3, <3>1
      <4>3. QED
        BY <4>1, <4>2
    <3>3. z \in ZoneRows /\ z.side = s /\ z.at = p /\ z.edge = e /\ ~z.mitigated
      BY <3>2 DEF ZoneRows
    <3>4. QED
      BY <3>1, <3>3
  <2>6. z \in HonestIn(bars)
    BY <1>1, <1>2, <2>4, <2>5 DEF HonestIn
  <2>7. QED
    BY <2>2, <2>6
<1>5. QED
  BY <1>3, <1>4

\* The last candle marks the zones it closes beyond.
LEMMA ZonesStep ==
  ASSUME SwingsAssumption, bars \in Seq(Candles), NEW c \in Candles, bars' = Append(bars, c),
         NEW zs \in Seq(HonestIn(bars))
  PROVE  Mitigated(zs) \in Seq(HonestIn(bars'))
<1>1. PICK n : n = Len(bars)
  OBVIOUS
<1>2. /\ n \in Nat /\ Len(bars') = n + 1 /\ bars'[n + 1] = c
      /\ \A i \in 1..n : bars'[i] = bars[i]
  BY <1>1, Appended
<1>3. Len(zs) \in Nat /\ DOMAIN zs = 1..Len(zs) /\ \A i \in 1..Len(zs) : zs[i] \in HonestIn(bars)
  BY LenProperties, ElementOfSeq
<1>4. PICK m : m = Mitigated(zs)
  OBVIOUS
<1>5. ASSUME NEW i \in 1..Len(zs) PROVE m[i] \in HonestIn(bars')
  <2>1. PICK z, y : z = zs[i] /\ y = [z EXCEPT !.mitigated = @ \/ Beyond(z.side, c.close, z.edge)]
    OBVIOUS
  <2>2. m[i] = y
    BY <1>2, <1>3, <1>4, <2>1 DEF Mitigated, Close, Now
  <2>3. /\ z \in ZoneRows /\ z.at \in Nat /\ z.at <= n
        /\ z.mitigated <=> \E k \in z.at + 1 .. n : Beyond(z.side, bars[k].close, z.edge)
    <3>1. z \in HonestIn(bars)
      BY <1>3, <2>1
    <3>2. QED
      BY <1>1, <3>1 DEF HonestIn, ZoneRows
  <2>4. /\ y \in ZoneRows /\ y.side = z.side /\ y.at = z.at /\ y.edge = z.edge
        /\ y.mitigated <=> z.mitigated \/ Beyond(z.side, c.close, z.edge)
    BY <2>1, <2>3 DEF ZoneRows, Beyond
  <2>5. (\E k \in z.at + 1 .. n + 1 : Beyond(z.side, bars'[k].close, z.edge))
        <=> (\E k \in z.at + 1 .. n : Beyond(z.side, bars[k].close, z.edge)) \/ Beyond(z.side, c.close, z.edge)
    <3>0. \A a \in Nat : /\ \A k \in a + 1 .. n + 1 : k = n + 1 \/ (k \in a + 1 .. n /\ k \in 1..n)
                         /\ \A k \in a + 1 .. n : k \in a + 1 .. n + 1 /\ k \in 1..n
      <4>1. TAKE a \in Nat
      <4>2. n \in Nat
        BY <1>2
      <4>3. QED
        BY <4>2
    <3>1. \A k \in z.at + 1 .. n + 1 : k = n + 1 \/ (k \in z.at + 1 .. n /\ bars'[k] = bars[k])
      BY <1>2, <2>3, <3>0
    <3>2. \A k \in z.at + 1 .. n : k \in z.at + 1 .. n + 1 /\ bars'[k] = bars[k]
      BY <1>2, <2>3, <3>0
    <3>3. n + 1 \in z.at + 1 .. n + 1
      BY <1>2, <2>3
    <3>4. QED
      BY <1>2, <3>1, <3>2, <3>3
  <2>6. y.at <= n + 1
    BY <1>2, <2>3, <2>4
  <2>7. QED
    BY <1>2, <2>2, <2>3, <2>4, <2>5, <2>6 DEF HonestIn
<1>6. m = [i \in 1..Len(zs) |-> m[i]]
  BY <1>3, <1>4 DEF Mitigated
<1>7. m \in [1..Len(zs) -> HonestIn(bars')]
  BY <1>5, <1>6
<1>8. QED
  BY <1>3, <1>4, <1>7, IsSequence

-----------------------------------------------------------------------------
(* What the two structure engines have in common.                          *)

StructureInv ==
  /\ bars \in Seq(Candles)
  /\ \A s \in Sides : Listed(bars, s, swings[s])
  /\ zones \in Seq(HonestIn(bars))

LEMMA FedAreCandles ==
  ASSUME SwingsAssumption, bars \in Seq(Candles), NEW c \in Fed
  PROVE  c \in Candles
<1>1. Len(bars) \in Nat
  BY LenProperties
<1>2. ASSUME NEW o \in Openings, Len(bars) < Len(o), c = o[Len(bars) + 1]
      PROVE  c \in Candles
  <2>1. o \in Seq(Candles) /\ Len(o) \in Nat
    BY LenProperties DEF SwingsAssumption
  <2>2. Len(bars) + 1 \in 1..Len(o)
    BY <1>1, <1>2, <2>1
  <2>3. QED
    BY <1>2, <2>1, <2>2, ElementOfSeq
<1>3. QED
  BY <1>2 DEF Fed

LEMMA StructureStep ==
  ASSUME SwingsAssumption, StructureInv, NEW c \in Fed, bars' = Append(bars, c), DetectSwings,
         \/ zones' = Mitigated(zones \o NewZone("up") \o NewZone("down"))
         \/ zones' = Mitigated(LastOf(zones \o NewZone("up") \o NewZone("down"), MaxSwings))
  PROVE  StructureInv'
<1>1. c \in Candles /\ bars \in Seq(Candles) /\ bars' \in Seq(Candles)
  BY FedAreCandles, Appended DEF StructureInv
<1>2. ASSUME NEW s \in Sides PROVE Listed(bars', s, swings'[s])
  <2>1. Listed(bars, s, swings[s])
    BY DEF StructureInv
  <2>2. Listed(Append(bars, c), s, MarkMajor(Append(bars, c), s, AddMinor(Append(bars, c), s, swings[s])))
    BY <1>1, <2>1, ListStep
  <2>3. swings'[s] = MarkMajor(bars', s, AddMinor(bars', s, swings[s]))
    BY DEF DetectSwings
  <2>4. QED
    BY <2>2, <2>3
<1>3. PICK q : q = zones \o NewZone("up") \o NewZone("down")
  OBVIOUS
<1>4. q \in Seq(HonestIn(bars))
  <2>1. /\ zones \in Seq(HonestIn(bars)) /\ NewZone("up") \in Seq(HonestIn(bars))
        /\ NewZone("down") \in Seq(HonestIn(bars))
    BY <1>1, NewZoneHonest DEF StructureInv, Sides
  <2>2. QED
    BY <1>3, <2>1, ConcatProperties
<1>5. LastOf(q, MaxSwings) \in Seq(HonestIn(bars))
  BY <1>4, LastOfKeeps DEF SwingsAssumption
<1>6. zones' \in Seq(HonestIn(bars'))
  BY <1>1, <1>3, <1>4, <1>5, ZonesStep
<1>7. QED
  BY <1>1, <1>2, <1>6 DEF StructureInv

LEMMA StructureBegins == ASSUME SwingsAssumption, StructureInit PROVE StructureInv
<1>1. bars \in Seq(Candles) /\ zones \in Seq(HonestIn(bars))
  BY EmptySeq DEF StructureInit
<1>2. QED
  BY <1>1, ListBegins DEF StructureInit, StructureInv

LEMMA StructureSays ==
  ASSUME SwingsAssumption, StructureInv
  PROVE  SwingsExact /\ ZonesHonest /\ Len(bars) \in Nat
<1>1. SwingsExact
  BY ListedIsExact DEF StructureInv, SwingsExact
<1>2. ZonesHonest
  <2>1. \A i \in DOMAIN zones : zones[i] \in HonestIn(bars)
    BY LenProperties, ElementOfSeq DEF StructureInv
  <2>2. QED
    BY <2>1 DEF ZonesHonest, HonestIn
<1>3. QED
  BY <1>1, <1>2, LenProperties DEF StructureInv

-----------------------------------------------------------------------------
(* The premium engine.                                                     *)

PullRows == [active : BOOLEAN, type : {"NONE", "HEALTHY", "DEEP", "FAILED", "NESTED"},
             start : Nat, duration : Nat]
RecoveryRows == [status : {"NONE", "ACTIVE", "CONFIRMED", "EXPIRED"}, start : Nat]

PremiumInv ==
  /\ trend \in Sides \cup {"ranging"}
  /\ pull \in PullRows /\ pull.start <= Len(bars)
  /\ recovery \in RecoveryRows /\ recovery.start <= Len(bars)
  /\ RecoveryInPullback

\* What only the premium engine makes of the breaks and of the protecting levels.
TrendInv ==
  /\ DOMAIN protected = Sides
  /\ \E S : breaks \in Seq(S)
  /\ TrendProtected

LEMMA BreakAdded ==
  ASSUME NEW S, NEW q \in Seq(S), NEW x
  PROVE  /\ \E T : Append(q, x) \in Seq(T)
         /\ \E i \in DOMAIN Append(q, x) : Append(q, x)[i] = x
<1>1. q \in Seq(S \cup {x})
  BY SeqMonotonic
<1>2. Append(q, x) \in Seq(S \cup {x}) /\ Len(q) \in Nat /\ Append(q, x)[Len(q) + 1] = x
      /\ DOMAIN Append(q, x) = 1..(Len(q) + 1)
  BY <1>1, AppendProperties, LenProperties
<1>3. QED
  BY <1>2

\* The trend: a new one comes with a break, an old one has stood the test of the close.
LEMMA TrendStep ==
  ASSUME StructureInv, PremiumInv, TrendInv, NEW c, bars' = Append(bars, c), PremiumBreaks
  PROVE  TrendInv' /\ trend' \in Sides \cup {"ranging"}
<1>1. PICK S : breaks \in Seq(S)
  BY DEF TrendInv
<1>2. DOMAIN protected = Sides /\ trend \in Sides \cup {"ranging"}
  BY DEF TrendInv, PremiumInv
<1>3. CASE trend' = "ranging" /\ UNCHANGED <<breaks, protected>>
  BY <1>1, <1>2, <1>3 DEF TrendInv, TrendProtected, Sides
<1>4. ASSUME NEW s \in Sides, trend' = s, NEW q, NEW type, NEW level, \E T : q \in Seq(T),
             breaks' = Append(q, Break(type, s, level)), DOMAIN protected' = Sides
      PROVE  TrendInv'
  <2>1. PICK x : x = Break(type, s, level)
    OBVIOUS
  <2>2. (\E T : breaks' \in Seq(T)) /\ \E i \in DOMAIN breaks' : breaks'[i] = x
    BY <1>4, <2>1, BreakAdded
  <2>3. x.at = Len(bars') /\ x.side = s
    BY <2>1 DEF Break, Now
  <2>4. TrendProtected'
    BY <1>4, <2>2, <2>3 DEF TrendProtected
  <2>5. QED
    BY <1>4, <2>2, <2>4 DEF TrendInv
<1>5. CASE FirstBreak
  <2>1. PICK s \in Sides : s = IF Beyond("up", Close, Major("up").price) THEN "up" ELSE "down"
    BY DEF Sides
  <2>2. CASE Beyond(s, Close, Major(s).price)
    <3>1. trend' = s /\ breaks' = Append(breaks, Break("BOS", s, Major(s).price)) /\ DOMAIN protected' = Sides
      BY <1>2, <1>5, <2>1, <2>2 DEF FirstBreak
    <3>2. QED
      BY <1>1, <1>4, <3>1
  <2>3. CASE ~Beyond(s, Close, Major(s).price)
    <3>1. trend' = "ranging" /\ UNCHANGED <<breaks, protected>>
      BY <1>5, <2>1, <2>3 DEF FirstBreak
    <3>2. QED
      BY <1>3, <3>1
  <2>4. QED
    BY <2>2, <2>3
<1>6. CASE InTrend
  <2>1. PICK s, t : s = trend /\ t = Other(s)
    OBVIOUS
  <2>2. s \in Sides /\ t \in Sides /\ s # t
    BY <1>6, <2>1 DEF InTrend, Other, Sides
  <2>3. PICK bos : bos = IF Beyond(s, Close, Major(s).price)
                         THEN Protected(s, Major(s).at, protected[s]) ELSE protected[s]
    OBVIOUS
  <2>4. PICK limit : limit = IF bos # <<>> THEN bos[1] ELSE Major(t).price
    OBVIOUS
  <2>5. PICK q : q = breaks \o (IF Beyond(s, Close, Major(s).price)
                                THEN <<Break("BOS", s, Major(s).price)>> ELSE <<>>)
    OBVIOUS
  <2>6. /\ trend' = IF Beyond(t, Close, limit) THEN t ELSE s
        /\ protected' = [protected EXCEPT ![s] = bos,
                                          ![t] = IF Beyond(t, Close, limit) THEN Protected(t, Now, @) ELSE @]
        /\ breaks' = q \o (IF Beyond(t, Close, limit) THEN <<Break("CHOCH", t, limit)>> ELSE <<>>)
    BY <1>6, <2>1, <2>3, <2>4, <2>5, Zenon DEF InTrend
  <2>7. \E T : q \in Seq(T)
    <3>1. PICK x : x = Break("BOS", s, Major(s).price)
      OBVIOUS
    <3>2. breaks \in Seq(S \cup {x}) /\ <<x>> \in Seq(S \cup {x}) /\ <<>> \in Seq(S \cup {x})
      BY <1>1, SeqMonotonic
    <3>3. QED
      BY <2>5, <3>1, <3>2, ConcatProperties
  <2>8. DOMAIN protected' = Sides /\ protected'[s] = bos
    BY <1>2, <2>2, <2>6
  <2>9. CASE Beyond(t, Close, limit)
    <3>1. PICK T : q \in Seq(T)
      BY <2>7
    <3>2. breaks' = Append(q, Break("CHOCH", t, limit))
      <4>1. PICK x : x = Break("CHOCH", t, limit)
        OBVIOUS
      <4>2. q \in Seq(T \cup {x})
        BY <3>1, SeqMonotonic
      <4>3. q \o <<x>> = Append(q, x)
        BY <4>2
      <4>4. QED
        BY <2>6, <2>9, <4>1, <4>3
    <3>3. QED
      BY <1>4, <2>2, <2>6, <2>7, <2>8, <2>9, <3>2
  <2>10. CASE ~Beyond(t, Close, limit)
    <3>1. trend' = s /\ breaks' = q
      <4>1. PICK T : q \in Seq(T)
        BY <2>7
      <4>2. q \o <<>> = q
        BY <4>1, ConcatEmptySeq
      <4>3. QED
        BY <2>6, <2>10, <4>2
    <3>2. TrendProtected'
      <4>1. bos # <<>> => limit = bos[1]
        BY <2>4
      <4>2. bars'[Len(bars')].close = Close
        BY DEF Close, Now
      <4>3. QED
        BY <2>1, <2>2, <2>8, <2>10, <3>1, <4>1, <4>2 DEF TrendProtected
    <3>3. QED
      BY <2>2, <2>7, <2>8, <3>1, <3>2 DEF TrendInv
  <2>11. QED
    BY <2>2, <2>6, <2>9, <2>10
<1>7. trend' \in Sides \cup {"ranging"}
  <2>1. CASE NoStructure
    BY <2>1 DEF NoStructure
  <2>2. CASE FirstBreak
    BY <2>2 DEF FirstBreak, Sides
  <2>3. CASE InTrend
    BY <2>3 DEF InTrend, Sides, Other
  <2>4. QED
    BY <2>1, <2>2, <2>3 DEF PremiumBreaks
<1>8. QED
  BY <1>3, <1>5, <1>6, <1>7 DEF PremiumBreaks, NoStructure

\* The pullback keeps its start as long as it is under way.
LEMMA PullbackStep ==
  ASSUME PremiumInv, Len(bars) \in Nat, Now = Len(bars) + 1, Pullback
  PROVE  /\ pull' \in PullRows /\ pull'.start <= Now
         /\ pull.active /\ pull'.active => pull'.start = pull.start
<1>1. pull \in PullRows /\ pull.start \in Nat /\ pull.start <= Len(bars) /\ pull.start <= Now /\ Now \in Nat
  BY DEF PremiumInv, PullRows
<1>2. PICK r : r = Retraced
  OBVIOUS
<1>3. r = pull \/ r = Ended \/ \E t \in {"HEALTHY", "DEEP", "FAILED"} : r = Going(t)
  BY <1>2 DEF Retraced, Depth
<1>4. /\ Ended \in PullRows /\ Ended.start = pull.start /\ ~Ended.active
  BY <1>1 DEF Ended, PullRows
<1>5. ASSUME NEW t \in {"HEALTHY", "DEEP", "FAILED"}
      PROVE  /\ Going(t) \in PullRows /\ Going(t).start <= Now
             /\ pull.active => Going(t).start = pull.start
  <2>1. pull.active \in BOOLEAN /\ pull.duration \in Nat
    BY <1>1 DEF PullRows
  <2>2. QED
    BY <1>1, <2>1 DEF Going, PullRows
<1>6. r \in PullRows /\ r.start <= Now /\ (pull.active /\ r.active => r.start = pull.start)
  BY <1>1, <1>3, <1>4, <1>5
<1>7. PICK y : y = [r EXCEPT !.type = "NESTED"]
  OBVIOUS
<1>8. y \in PullRows /\ y.start = r.start /\ y.active = r.active
  BY <1>6, <1>7 DEF PullRows
<1>9. pull' = r \/ pull' = y
  BY <1>2, <1>7 DEF Pullback
<1>10. QED
  BY <1>6, <1>8, <1>9

LEMMA RecoveryStep ==
  ASSUME PremiumInv, Len(bars) \in Nat, Now = Len(bars) + 1, AnalyzePullbackRecovery
  PROVE  /\ pull' \in PullRows /\ pull'.start <= Now
         /\ recovery' \in RecoveryRows /\ recovery'.start <= Now
         /\ RecoveryInPullback'
<1>1. /\ pull \in PullRows /\ pull.start \in Nat /\ pull.start <= Len(bars) /\ pull.start <= Now /\ Now \in Nat
      /\ recovery \in RecoveryRows /\ recovery.start \in Nat /\ recovery.start <= Len(bars)
      /\ recovery.start <= Now
      /\ recovery.status # "NONE" => pull.active /\ recovery.start >= pull.start
  BY DEF PremiumInv, PullRows, RecoveryRows, RecoveryInPullback
<1>2. CASE UNCHANGED <<pull, recovery>>
  BY <1>1, <1>2 DEF RecoveryInPullback
<1>3. CASE Pullback /\ Recovery
  <2>1. /\ pull' \in PullRows /\ pull'.start <= Now /\ pull'.start \in Nat
        /\ pull.active /\ pull'.active => pull'.start = pull.start
    BY <1>3, PullbackStep DEF PullRows
  <2>2. NoRecovery \in RecoveryRows /\ NoRecovery.status = "NONE" /\ NoRecovery.start = 0
    BY DEF NoRecovery, RecoveryRows
  <2>3. ASSUME pull'.active, NEW r \in RecoveryRows,
               \/ recovery.status # "NONE" /\ r.start = recovery.start
               \/ r.start = Now
               \/ r.status = "NONE" /\ r.start <= Now,
               recovery' = r
        PROVE  recovery' \in RecoveryRows /\ recovery'.start <= Now /\ RecoveryInPullback'
    BY <1>1, <2>1, <2>3 DEF RecoveryInPullback
  <2>4. ASSUME NEW s, pull'.active, recovery' = Recovering(s)
        PROVE  recovery' \in RecoveryRows /\ recovery'.start <= Now /\ RecoveryInPullback'
    <3>1. PICK r : r = IF recovery.status = "NONE" THEN [status |-> "ACTIVE", start |-> Now] ELSE recovery
      OBVIOUS
    <3>2. /\ r \in RecoveryRows
          /\ (recovery.status # "NONE" /\ r.start = recovery.start) \/ r.start = Now
      BY <1>1, <3>1 DEF RecoveryRows
    <3>3. PICK y, z : y = [r EXCEPT !.status = "CONFIRMED"] /\ z = [r EXCEPT !.status = "EXPIRED"]
      OBVIOUS
    <3>4. y \in RecoveryRows /\ y.start = r.start /\ z \in RecoveryRows /\ z.start = r.start
      BY <3>2, <3>3 DEF RecoveryRows
    <3>5. recovery' = r \/ recovery' = y \/ recovery' = z
      BY <2>4, <3>1, <3>3 DEF Recovering
    <3>6. QED
      BY <2>3, <2>4, <3>2, <3>4, <3>5
  <2>5. CASE recovery' = NoRecovery
    BY <1>1, <2>1, <2>2, <2>5 DEF RecoveryInPullback
  <2>6. CASE pull'.active /\ recovery' = recovery
    BY <1>1, <2>1, <2>3, <2>6
  <2>7. \/ recovery' = NoRecovery
        \/ pull'.active /\ recovery' = recovery
        \/ pull'.active /\ \E s \in Sides : recovery' = Recovering(s)
    <3>1. (IF trend' = "up" THEN "up" ELSE "down") \in Sides
      BY DEF Sides
    <3>2. QED
      BY <1>3, <3>1 DEF Recovery
  <2>8. recovery' \in RecoveryRows /\ recovery'.start <= Now /\ RecoveryInPullback'
    BY <2>4, <2>5, <2>6, <2>7
  <2>9. QED
    BY <2>1, <2>8
<1>4. QED
  BY <1>2, <1>3 DEF AnalyzePullbackRecovery

LEMMA PremiumStep ==
  ASSUME SwingsAssumption, StructureInv, PremiumInv, TrendInv, PremiumNext
  PROVE  StructureInv' /\ PremiumInv' /\ TrendInv'
<1>1. PICK c \in Fed : PremiumUpdate(c)
  BY DEF PremiumNext
<1>2. /\ bars' = Append(bars, c) /\ DetectSwings /\ PremiumBreaks /\ AnalyzePullbackRecovery
      /\ zones' = Mitigated(LastOf(zones \o NewZone("up") \o NewZone("down"), MaxSwings))
  BY <1>1 DEF PremiumUpdate
<1>3. Len(bars) \in Nat /\ Len(bars') = Len(bars) + 1 /\ Now = Len(bars) + 1
  BY <1>2, FedAreCandles, Appended DEF StructureInv, Now
<1>4. StructureInv'
  BY <1>2, StructureStep
<1>5. TrendInv' /\ trend' \in Sides \cup {"ranging"}
  BY <1>2, TrendStep
<1>6. /\ pull' \in PullRows /\ pull'.start <= Now
      /\ recovery' \in RecoveryRows /\ recovery'.start <= Now
      /\ RecoveryInPullback'
  BY <1>2, <1>3, RecoveryStep
<1>7. QED
  BY <1>3, <1>4, <1>5, <1>6 DEF PremiumInv

LEMMA PremiumBegins ==
  ASSUME StructureInit, PremiumInit
  PROVE  PremiumInv /\ TrendInv
<1>1. PremiumInv
  BY DEF StructureInit, PremiumInit, PremiumInv, PullRows, RecoveryRows, NoRecovery, RecoveryInPullback
<1>2. breaks \in Seq({}) /\ DOMAIN protected = Sides
  BY EmptySeq DEF StructureInit
<1>3. TrendProtected
  BY DEF PremiumInit, TrendProtected, Sides
<1>4. QED
  BY <1>1, <1>2, <1>3 DEF TrendInv

-----------------------------------------------------------------------------
(* The underlying's engine.                                                *)

UnderlyingInv == streak \in [Sides -> Nat] /\ \A s \in Sides : streak[s] <= Len(bars)

LEMMA UnderlyingStep ==
  ASSUME SwingsAssumption, StructureInv, PremiumInv, UnderlyingInv, UnderlyingNext, UNCHANGED premiumVars
  PROVE  StructureInv' /\ PremiumInv' /\ UnderlyingInv'
<1>1. PICK c \in Fed : UnderlyingUpdate(c)
  BY DEF UnderlyingNext
<1>2. /\ bars' = Append(bars, c) /\ DetectSwings /\ UnderlyingBreaks
      /\ zones' = Mitigated(zones \o NewZone("up") \o NewZone("down"))
  BY <1>1 DEF UnderlyingUpdate
<1>3. Len(bars) \in Nat /\ Len(bars') = Len(bars) + 1
  BY <1>2, FedAreCandles, Appended DEF StructureInv
<1>4. StructureInv'
  BY <1>2, StructureStep
<1>5. PremiumInv'
  BY <1>3 DEF PremiumInv, PullRows, RecoveryRows, RecoveryInPullback, premiumVars
<1>6. Tally \in [Sides -> Nat] /\ \A s \in Sides : Tally[s] <= Len(bars')
  <2>1. CASE Tally = streak
    BY <1>3, <2>1 DEF UnderlyingInv
  <2>2. ASSUME NEW s \in Sides, Tally = [[t \in Sides |-> 0] EXCEPT ![s] = streak[s] + 1]
        PROVE  Tally \in [Sides -> Nat] /\ \A t \in Sides : Tally[t] <= Len(bars')
    <3>1. streak[s] \in Nat /\ streak[s] <= Len(bars)
      BY DEF UnderlyingInv
    <3>2. QED
      BY <1>3, <2>2, <3>1
  <2>3. Tally = streak \/ \E s \in Sides : Tally = [[t \in Sides |-> 0] EXCEPT ![s] = streak[s] + 1]
    BY DEF Tally, Sides
  <2>4. QED
    BY <2>1, <2>2, <2>3
<1>7. streak' = Tally \/ \E b \in Sides : streak' = [Tally EXCEPT ![b] = 0]
  BY <1>2 DEF UnderlyingBreaks
<1>8. UnderlyingInv'
  BY <1>3, <1>6, <1>7 DEF UnderlyingInv
<1>9. QED
  BY <1>4, <1>5, <1>8

\* Of the underlying's engine alone: what a break is, that a failed one did fail, and that
\* one which failed while the engine looked at it is marked.
RealBreak(bs, x) ==
  /\ DOMAIN x = {"type", "side", "at", "level", "failed"} /\ x.at \in 1..Len(bs)
  /\ x.failed => ClosedBack(bs, x)

RealBreaks(bs, q) == (\E S : q \in Seq(S)) /\ \A i \in DOMAIN q : RealBreak(bs, q[i])

BreaksInv == RealBreaks(bars, breaks) /\ Noticed(bars, breaks)

\* One more candle leaves what was, and is no reason to take a failure back.
LEMMA RealLater ==
  ASSUME NEW bs \in Seq(Candles), NEW c \in Candles, NEW x, RealBreak(bs, x)
  PROVE  RealBreak(Append(bs, c), x)
<1>1. /\ Len(bs) \in Nat /\ Len(Append(bs, c)) = Len(bs) + 1
      /\ \A i \in 1..Len(bs) : Append(bs, c)[i] = bs[i]
  BY Appended
<1>2. x.at \in 1..Len(bs) /\ x.at \in 1..Len(Append(bs, c))
  BY <1>1 DEF RealBreak
<1>3. ASSUME NEW k \in x.at .. Len(bs)
      PROVE  k \in x.at .. Len(Append(bs, c)) /\ Append(bs, c)[k] = bs[k]
  BY <1>1, <1>2
<1>4. ClosedBack(bs, x) => ClosedBack(Append(bs, c), x)
  BY <1>3 DEF ClosedBack, ClosesBack
<1>5. QED
  BY <1>2, <1>4 DEF RealBreak

LEMMA NewBreakReal ==
  ASSUME NEW q, RealBreaks(bars', q), NEW type, NEW s, NEW level, Len(bars') \in Nat \ {0}
  PROVE  RealBreaks(bars', Append(q, Break(type, s, level)))
<1> DEFINE x == Break(type, s, level)
<1>1. RealBreak(bars', x)
  BY DEF Break, RealBreak, Now
<1>2. PICK S : q \in Seq(S)
  BY DEF RealBreaks
<1>3. q \in Seq(S \cup {x}) /\ x \in S \cup {x}
  BY <1>2, SeqMonotonic
<1>4. /\ Append(q, x) \in Seq(S \cup {x}) /\ Len(q) \in Nat /\ DOMAIN q = 1..Len(q)
      /\ DOMAIN Append(q, x) = 1..(Len(q) + 1) /\ Append(q, x)[Len(q) + 1] = x
      /\ \A i \in 1..Len(q) : Append(q, x)[i] = q[i]
  BY <1>3, AppendProperties, LenProperties
<1> HIDE DEF x
<1>5. ASSUME NEW i \in DOMAIN Append(q, x) PROVE RealBreak(bars', Append(q, x)[i])
  <2>1. i \in DOMAIN q \/ i = Len(q) + 1
    BY <1>4
  <2>2. QED
    BY <1>1, <1>4, <2>1 DEF RealBreaks
<1>6. RealBreaks(bars', Append(q, x))
  BY <1>4, <1>5 DEF RealBreaks
<1>7. QED
  BY <1>6 DEF x

\* A break is only marked as failed by a candle that closes back while it is recent.
LEMMA FailingReal ==
  ASSUME NEW q, RealBreaks(bars', q), Len(bars') \in Nat
  PROVE  RealBreaks(bars', Failing(q))
<1>1. PICK S : q \in Seq(S)
  BY DEF RealBreaks
<1>2. Len(q) \in Nat /\ DOMAIN q = 1..Len(q)
  BY <1>1, LenProperties
<1>3. DOMAIN Failing(q) = DOMAIN q
  BY DEF Failing
<1>4. ASSUME NEW i \in DOMAIN q PROVE RealBreak(bars', Failing(q)[i])
  <2> DEFINE x == q[i]
             now == /\ i > Len(q) - 5 /\ Now - x.at <= FailsWithin
                    /\ Beyond(Other(x.side), Close, x.level)
             y == [x EXCEPT !.failed = x.failed \/ now]
  <2>1. RealBreak(bars', x)
    BY DEF RealBreaks
  <2>2. Failing(q)[i] = y
    BY DEF Failing
  <2>3. /\ DOMAIN y = DOMAIN x /\ y.at = x.at /\ y.side = x.side /\ y.level = x.level
        /\ y.failed = (x.failed \/ now)
    BY <2>1 DEF RealBreak
  <2>4. now => ClosedBack(bars', x)
    <3>1. Now \in x.at .. Len(bars')
      BY <2>1 DEF RealBreak, Now
    <3>2. QED
      BY <3>1 DEF ClosedBack, ClosesBack, Now, Close
  <2>5. ClosedBack(bars', y) <=> ClosedBack(bars', x)
    BY <2>3 DEF ClosedBack, ClosesBack
  <2> HIDE DEF now, y, x
  <2>6. RealBreak(bars', y)
    BY <2>1, <2>3, <2>4, <2>5 DEF RealBreak
  <2>7. QED
    BY <2>2, <2>6
<1>5. \E T : Failing(q) \in Seq(T)
  <2> DEFINE T == {Failing(q)[i] : i \in 1..Len(q)}
  <2>1. \A i \in 1..Len(q) : Failing(q)[i] \in T
    OBVIOUS
  <2>2. Failing(q) = [i \in 1..Len(q) |-> Failing(q)[i]]
    BY <1>2, <1>3 DEF Failing
  <2> HIDE DEF T
  <2>3. Failing(q) \in Seq(T)
    BY <1>2, <2>1, <2>2, IsSequence
  <2>4. QED
    BY <2>3
<1>6. QED
  BY <1>3, <1>4, <1>5 DEF RealBreaks

\* A set of positions in a list has a greatest one.
LEMMA HasGreatest ==
  ASSUME NEW n \in Nat, NEW S, S \subseteq 1..n, S # {}
  PROVE  \E x \in S : \A y \in S : y <= x
<1> DEFINE T == {k \in Nat : n - k \in S}
<1>1. \A y \in S : y \in Nat /\ n - y \in Nat /\ n - (n - y) = y
  OBVIOUS
<1>2. \A y \in S : n - y \in T
  BY <1>1
<1>3. T # {} /\ T \subseteq Nat
  BY <1>2
<1>4. PICK m \in T : \A k \in T : <<k, m>> \notin OpToRel(<, Nat)
  BY <1>3, NatLessThanWellFounded, WFMin, Zenon
<1>5. n - m \in S /\ m \in Nat /\ \A k \in T : ~(k < m)
  <2>1. \A k \in T : ~(k < m)
    BY <1>3, <1>4, Zenon DEF OpToRel
  <2>2. m \in T
    OBVIOUS
  <2>3. QED
    BY <2>1, <2>2
<1>6. ASSUME NEW y \in S PROVE y <= n - m
  <2>1. n - y \in T /\ ~(n - y < m)
    BY <1>2, <1>5
  <2> HIDE DEF T
  <2>2. QED
    BY <1>1, <1>5, <2>1
<1>7. QED
  BY <1>5, <1>6

\* A list that holds a major swing has a last one, and its position is not 0.
LEMMA LastMajorFound ==
  ASSUME NEW n \in Nat, NEW q, DOMAIN q = 1..n, NEW i \in DOMAIN q, q[i].major,
         \A j \in DOMAIN q : q[j].at > 0
  PROVE  LastMajor(q).at > 0
<1> DEFINE m == {j \in DOMAIN q : q[j].major}
           last == CHOOSE k \in m : \A j \in m : j <= k
<1>1. m \subseteq 1..n /\ m # {}
  OBVIOUS
<1>2. \E k \in m : \A j \in m : j <= k
  BY <1>1, HasGreatest
<1>3. last \in m
  BY <1>2
<1>4. LastMajor(q) = q[last]
  BY <1>1 DEF LastMajor
<1>5. last \in DOMAIN q
  BY <1>3
<1> HIDE DEF m, last
<1>6. QED
  BY <1>4, <1>5

\* A major swing in reach is in the list: the swings after it do not fill the list.
LEMMA ReachedIsListed ==
  ASSUME SwingsAssumption, NEW bs \in Seq(Candles), NEW s, NEW q, Listed(bs, s, q), MajorInReach(bs, s)
  PROVE  \E i \in DOMAIN q : q[i].major
<1>1. PICK p \in Confirmed(bs, s) : /\ IsSwing(bs, s, p, MajorW)
                                    /\ Cardinality({r \in Confirmed(bs, s) : r > p}) < MaxSwings
  BY DEF MajorInReach
<1> DEFINE later == {r \in Confirmed(bs, s) : r > p}
<1>2. /\ Len(bs) \in Nat /\ DOMAIN bs = 1..Len(bs) /\ Confirmed(bs, s) \subseteq 1..Len(bs)
      /\ MaxSwings \in Nat \ {0} /\ p \in Nat
  BY LenProperties DEF Confirmed, SwingsAssumption
<1>3. IsFiniteSet(later) /\ Cardinality(later) \in Nat
  <2>1. later \in SUBSET (1..Len(bs)) /\ IsFiniteSet(1..Len(bs))
    BY <1>2, FS_Interval
  <2>2. QED
    BY <2>1, FS_Subset, FS_CardinalityType
<1>4. /\ DOMAIN q = 1..Len(q) /\ Len(q) \in Nat
      /\ \A i, j \in DOMAIN q : i < j => q[i].at < q[j].at
      /\ \A i \in DOMAIN q : /\ q[i].at \in Confirmed(bs, s)
                             /\ q[i] = Swing(bs, s, q[i].at, IsSwing(bs, s, q[i].at, MajorW))
      /\ \A r \in Confirmed(bs, s) :
           (\E i \in DOMAIN q : q[i].at = r) \/ (Len(q) = MaxSwings /\ r < q[1].at)
  <2>1. Exact(bs, s, q)
    BY ListedIsExact
  <2>2. DOMAIN q = 1..Len(q) /\ Len(q) \in Nat
    BY LenProperties DEF Listed, ListOf
  <2>3. QED
    BY <2>1, <2>2, Zenon DEF Exact
<1>5. CASE \E i \in DOMAIN q : q[i].at = p
  <2>1. PICK i \in DOMAIN q : q[i].at = p
    BY <1>5
  <2>2. q[i] = Swing(bs, s, p, IsSwing(bs, s, p, MajorW))
    BY <1>4, <2>1, Zenon
  <2>3. q[i].major = IsSwing(bs, s, p, MajorW)
    BY <2>2 DEF Swing
  <2>4. QED
    BY <1>1, <2>3, Zenon
<1>6. CASE ~ \E i \in DOMAIN q : q[i].at = p
  <2>1. Len(q) = MaxSwings /\ p < q[1].at
    BY <1>4, <1>6, Zenon
  <2>2. ASSUME NEW i \in DOMAIN q PROVE q[i].at \in Confirmed(bs, s) /\ q[i].at \in Nat
    <3>1. q[i].at \in Confirmed(bs, s)
      BY <1>4, Zenon
    <3>2. QED
      BY <1>2, <3>1
  <2>3. ASSUME NEW i \in DOMAIN q, NEW j \in DOMAIN q, i # j PROVE q[i].at # q[j].at
    <3>1. i < j \/ j < i
      BY <1>2, <2>1, <2>3, LenProperties DEF Listed, ListOf
    <3>2. q[i].at \in Nat /\ q[j].at \in Nat
      BY <2>2
    <3>3. (i < j => q[i].at < q[j].at) /\ (j < i => q[j].at < q[i].at)
      BY <1>4, Zenon
    <3>4. QED
      BY <3>1, <3>2, <3>3
  <2>4. ASSUME NEW i \in DOMAIN q PROVE q[i].at \in later
    <3>1. 1 \in DOMAIN q /\ (i = 1 \/ 1 < i)
      BY <1>2, <1>4, <2>1
    <3>2. i = 1 \/ q[1].at < q[i].at
      BY <1>4, <3>1
    <3>3. q[1].at \in Nat /\ q[i].at \in Nat
      BY <2>2, <3>1
    <3>4. QED
      BY <1>2, <2>1, <2>2, <3>2, <3>3
  <2> DEFINE f == [i \in 1..MaxSwings |-> q[i].at]
  <2>5. f \in Injection(1..MaxSwings, later)
    BY <1>4, <2>1, <2>3, <2>4 DEF Injection, IsInjective
  <2>6. Cardinality(1..MaxSwings) <= Cardinality(later)
    <3> HIDE DEF f, later
    <3>1. QED
      BY <1>3, <2>5, FS_Injection
  <2>7. Cardinality(1..MaxSwings) = MaxSwings
    BY <1>2, FS_Interval
  <2>8. QED
    BY <1>1, <1>2, <1>3, <2>6, <2>7
<1>7. QED
  BY <1>5, <1>6

\* With a major swing in reach on both sides the engine looks at its breaks.
LEMMA EngineLooks ==
  ASSUME SwingsAssumption, StructureInv', \A s \in Sides : MajorInReach(bars', s)
  PROVE  BothMajors
<1> SUFFICES ASSUME NEW s \in Sides PROVE Major(s).at > 0
  BY DEF BothMajors
<1> DEFINE q == swings'[s]
<1>1. bars' \in Seq(Candles) /\ Listed(bars', s, q)
  BY DEF StructureInv
<1> HIDE DEF q
<1>2. DOMAIN q = 1..Len(q) /\ Len(q) \in Nat /\ Exact(bars', s, q)
  BY <1>1, ListedIsExact, LenProperties DEF Listed, ListOf
<1>3. ASSUME NEW j \in DOMAIN q PROVE q[j].at > 0
  <2>1. q[j].at \in DOMAIN bars' /\ DOMAIN bars' = 1..Len(bars') /\ Len(bars') \in Nat
    BY <1>1, <1>2, LenProperties DEF Exact, Confirmed
  <2>2. QED
    BY <2>1
<1>4. PICK i \in DOMAIN q : q[i].major
  BY <1>1, ReachedIsListed
<1>5. LastMajor(q).at > 0
  BY <1>2, <1>3, <1>4, LastMajorFound
<1>6. QED
  BY <1>5 DEF Major, q

\* The breaks r are the breaks q, some newly marked, and after them new ones of the last candle.
Extended(bs, q, r) ==
  /\ DOMAIN q \subseteq DOMAIN r
  /\ \A i \in DOMAIN q : /\ r[i].at = q[i].at /\ r[i].side = q[i].side /\ r[i].level = q[i].level
                         /\ q[i].failed => r[i].failed
  /\ \A i \in DOMAIN r \ DOMAIN q : r[i].at = Len(bs)

LEMMA ExtendedTwice ==
  ASSUME NEW bs, NEW q, NEW r, NEW t, Extended(bs, q, r), Extended(bs, r, t)
  PROVE  Extended(bs, q, t)
<1>1. DOMAIN q \subseteq DOMAIN r /\ DOMAIN r \subseteq DOMAIN t
  BY DEF Extended
<1>2. ASSUME NEW i \in DOMAIN q
      PROVE  /\ t[i].at = q[i].at /\ t[i].side = q[i].side /\ t[i].level = q[i].level
             /\ q[i].failed => t[i].failed
  BY <1>1, Zenon DEF Extended
<1>3. ASSUME NEW i \in DOMAIN t \ DOMAIN q PROVE t[i].at = Len(bs)
  BY <1>1 DEF Extended
<1>4. QED
  BY <1>1, <1>2, <1>3 DEF Extended

LEMMA NewBreakExtends ==
  ASSUME NEW q, RealBreaks(bars', q), NEW type, NEW s, NEW level
  PROVE  Extended(bars', q, Append(q, Break(type, s, level)))
<1> DEFINE x == Break(type, s, level)
<1>1. PICK S : q \in Seq(S)
  BY DEF RealBreaks
<1>2. q \in Seq(S \cup {x}) /\ x \in S \cup {x}
  BY <1>1, SeqMonotonic
<1>3. /\ Len(q) \in Nat /\ DOMAIN q = 1..Len(q)
      /\ DOMAIN Append(q, x) = 1..(Len(q) + 1) /\ Append(q, x)[Len(q) + 1] = x
      /\ \A i \in 1..Len(q) : Append(q, x)[i] = q[i]
  BY <1>2, AppendProperties, LenProperties
<1>4. x.at = Len(bars')
  BY DEF Break, Now
<1> HIDE DEF x
<1>5. DOMAIN q \subseteq DOMAIN Append(q, x)
  BY <1>3
<1>6. ASSUME NEW i \in DOMAIN Append(q, x) \ DOMAIN q PROVE Append(q, x)[i].at = Len(bars')
  <2>1. i = Len(q) + 1
    BY <1>3
  <2>2. QED
    BY <1>3, <1>4, <2>1
<1>7. Extended(bars', q, Append(q, x))
  BY <1>3, <1>5, <1>6 DEF Extended
<1>8. QED
  BY <1>7 DEF x

\* The engine's look leaves no break among the last five unmarked beyond whose level the last
\* candle closed back.
LEMMA FailingMarks ==
  ASSUME NEW q, RealBreaks(bars', q)
  PROVE  /\ Extended(bars', q, Failing(q))
         /\ \A i \in DOMAIN q :
              i > Len(q) - 5 /\ ClosesBack(bars', Failing(q)[i], Len(bars')) => Failing(q)[i].failed
<1>1. DOMAIN Failing(q) = DOMAIN q
  BY DEF Failing
<1>2. ASSUME NEW i \in DOMAIN q
      PROVE  /\ Failing(q)[i].at = q[i].at /\ Failing(q)[i].side = q[i].side
             /\ Failing(q)[i].level = q[i].level
             /\ q[i].failed => Failing(q)[i].failed
             /\ i > Len(q) - 5 /\ ClosesBack(bars', Failing(q)[i], Len(bars')) => Failing(q)[i].failed
  <2> DEFINE x == q[i]
             now == /\ i > Len(q) - 5 /\ Now - x.at <= FailsWithin
                    /\ Beyond(Other(x.side), Close, x.level)
             y == [x EXCEPT !.failed = x.failed \/ now]
  <2>1. Failing(q)[i] = y
    BY DEF Failing
  <2>2. RealBreak(bars', x)
    BY DEF RealBreaks
  <2>3. y.at = x.at /\ y.side = x.side /\ y.level = x.level /\ y.failed = (x.failed \/ now)
    BY <2>2 DEF RealBreak
  <2>4. i > Len(q) - 5 /\ ClosesBack(bars', y, Len(bars')) => now
    <3> HIDE DEF x, y
    <3>1. QED
      BY <2>3 DEF ClosesBack, Now, Close
  <2> HIDE DEF x, now, y
  <2>5. /\ x.failed => y.failed
        /\ i > Len(q) - 5 /\ ClosesBack(bars', y, Len(bars')) => y.failed
    BY <2>3, <2>4, Zenon
  <2>6. QED
    BY <2>1, <2>3, <2>5 DEF x
<1>3. QED
  BY <1>1, <1>2 DEF Extended

\* One more candle changes nothing of the history up to an earlier one.
LEMMA EarlierSame ==
  ASSUME NEW bs \in Seq(Candles), NEW c \in Candles, NEW k \in 1..Len(bs)
  PROVE  /\ Append(bs, c)[k] = bs[k] /\ SubSeq(Append(bs, c), 1, k) = SubSeq(bs, 1, k)
<1>1. Len(bs) \in Nat /\ \A i \in 1..Len(bs) : Append(bs, c)[i] = bs[i]
  BY Appended
<1> DEFINE q1 == SubSeq(Append(bs, c), 1, k)
           q2 == SubSeq(bs, 1, k)
<1>2. k \in Nat \ {0} /\ \A i \in 1..k : /\ i \in 1..Len(bs) /\ i + 1 - 1 = i
                                         /\ bs[i] \in Candles /\ Append(bs, c)[i] \in Candles
  BY <1>1, ElementOfSeq
<1>3. /\ q1 \in Seq(Candles) /\ q2 \in Seq(Candles) /\ Len(q1) = k /\ Len(q2) = k
      /\ \A i \in 1..k : q1[i] = Append(bs, c)[i] /\ q2[i] = bs[i]
  BY <1>2, SubSeqProperties
<1> HIDE DEF q1, q2
<1>4. q1 = q2
  BY <1>1, <1>2, <1>3, SeqEqual
<1>5. QED
  BY <1>1, <1>4 DEF q1, q2

LEMMA WholeSame ==
  ASSUME NEW bs \in Seq(Candles)
  PROVE  SubSeq(bs, 1, Len(bs)) = bs
<1>1. Len(bs) \in Nat /\ \A i \in 1..Len(bs) : i + 1 - 1 = i /\ bs[i] \in Candles
  BY LenProperties, ElementOfSeq
<1> DEFINE q == SubSeq(bs, 1, Len(bs))
<1>2. q \in Seq(Candles) /\ Len(q) = Len(bs) /\ \A i \in 1..Len(bs) : q[i] = bs[i]
  BY <1>1, SubSeqProperties
<1> HIDE DEF q
<1>3. q = bs
  BY <1>1, <1>2, SeqEqual
<1>4. QED
  BY <1>3 DEF q

\* What an earlier candle should have marked is still marked when the breaks are extended.
LEMMA EarlierNoticed ==
  ASSUME NEW bs \in Seq(Candles), NEW c \in Candles, NEW q, RealBreaks(bs, q), Noticed(bs, q),
         NEW r, Extended(Append(bs, c), q, r),
         NEW i \in DOMAIN r, NEW k \in 1..Len(bs), k >= r[i].at,
         ClosesBack(Append(bs, c), r[i], k), Watched(Append(bs, c), r, i, k)
  PROVE  r[i].failed
<1>1. Len(bs) \in Nat /\ Len(Append(bs, c)) = Len(bs) + 1
  BY Appended
<1>2. i \in DOMAIN q
  <2>1. r[i].at # Len(Append(bs, c))
    BY <1>1
  <2>2. QED
    BY <2>1 DEF Extended
<1>3. /\ r[i].at = q[i].at /\ r[i].side = q[i].side /\ r[i].level = q[i].level
      /\ q[i].failed => r[i].failed
  BY <1>2, Zenon DEF Extended
<1>4. k \in q[i].at .. Len(bs)
  BY <1>1, <1>2, <1>3 DEF RealBreaks, RealBreak
<1>5. ClosesBack(bs, q[i], k)
  BY <1>3, EarlierSame DEF ClosesBack
<1>6. Watched(bs, q, i, k)
  <2>1. \A s \in Sides : MajorInReach(SubSeq(bs, 1, k), s)
    BY EarlierSame DEF Watched
  <2>2. i + 5 \in DOMAIN q => i + 5 \in DOMAIN r /\ r[i + 5].at = q[i + 5].at
    BY Zenon DEF Extended
  <2>3. QED
    BY <2>1, <2>2 DEF Watched
<1>7. q[i].failed
  BY <1>2, <1>4, <1>5, <1>6 DEF Noticed
<1>8. QED
  BY <1>3, <1>7

LEMMA NoticedStep ==
  ASSUME NEW bs \in Seq(Candles), NEW c \in Candles, NEW q, RealBreaks(bs, q), Noticed(bs, q),
         NEW r, Extended(Append(bs, c), q, r), RealBreaks(Append(bs, c), r),
         (\A s \in Sides : MajorInReach(Append(bs, c), s)) =>
           \A i \in DOMAIN r : i > Len(r) - 5 /\ ClosesBack(Append(bs, c), r[i], Len(Append(bs, c)))
                               => r[i].failed
  PROVE  Noticed(Append(bs, c), r)
<1> DEFINE b2 == Append(bs, c)
<1>1. Len(bs) \in Nat /\ Len(b2) = Len(bs) + 1 /\ b2 \in Seq(Candles)
  BY Appended
<1> SUFFICES ASSUME NEW i \in DOMAIN r, NEW k \in r[i].at .. Len(b2),
                    ClosesBack(b2, r[i], k), Watched(b2, r, i, k)
             PROVE  r[i].failed
  BY DEF Noticed
<1>2. r[i].at \in 1..Len(b2)
  BY DEF RealBreaks, RealBreak
<1>3. k \in 1..Len(bs) \/ k = Len(b2)
  BY <1>1, <1>2
<1>4. CASE k \in 1..Len(bs)
  <2>1. k >= r[i].at
    BY <1>1, <1>2
  <2>2. QED
    BY <1>4, <2>1, EarlierNoticed
<1>5. CASE k = Len(b2)
  <2>1. \A s \in Sides : MajorInReach(b2, s)
    BY <1>1, <1>5, WholeSame DEF Watched
  <2>2. PICK S : r \in Seq(S)
    BY DEF RealBreaks
  <2>3. DOMAIN r = 1..Len(r) /\ Len(r) \in Nat
    BY <2>2, LenProperties
  <2>4. i + 5 \notin DOMAIN r
    <3>1. SUFFICES ASSUME i + 5 \in DOMAIN r PROVE FALSE
      OBVIOUS
    <3>2. r[i + 5].at \in 1..Len(b2) /\ r[i + 5].at > k
      BY <3>1 DEF RealBreaks, RealBreak, Watched
    <3>3. QED
      BY <1>1, <1>5, <3>2
  <2>5. i > Len(r) - 5
    BY <2>3, <2>4
  <2>6. QED
    BY <1>5, <2>1, <2>5
<1>6. QED
  BY <1>3, <1>4, <1>5

LEMMA BreaksStep ==
  ASSUME SwingsAssumption, StructureInv, StructureInv', BreaksInv, UnderlyingNext
  PROVE  BreaksInv'
<1>1. PICK c \in Fed : UnderlyingUpdate(c)
  BY DEF UnderlyingNext
<1>2. bars' = Append(bars, c) /\ UnderlyingBreaks /\ bars \in Seq(Candles)
  BY <1>1 DEF UnderlyingUpdate, StructureInv
<1>3. c \in Candles /\ Len(bars') \in Nat \ {0}
  BY <1>2, FedAreCandles, Appended
<1>4. RealBreaks(bars', breaks)
  BY <1>2, <1>3, RealLater DEF BreaksInv, RealBreaks
<1>5. \/ breaks' = breaks /\ ~BothMajors
      \/ \E q, added :
           /\ breaks' = Failing(q)
           /\ added = breaks \/ \E s, level : added = Append(breaks, Break("BOS", s, level))
           /\ q = added \/ \E s, level : q = Append(added, Break("CHOCH", s, level))
  <2>1. CASE ~BothMajors
    BY <1>2, <2>1 DEF UnderlyingBreaks
  <2>2. CASE BothMajors
    <3> DEFINE s == IF Beyond("up", Close, Major("up").price) THEN "up" ELSE "down"
               level == Major(s).price
               bos == Beyond(s, Close, level) /\ ~Recorded(breaks, "BOS", s, level)
               added == IF bos THEN Append(breaks, Break("BOS", s, level)) ELSE breaks
               moved == IF bos THEN [protected EXCEPT ![s] = Protected(s, Major(s).at, @)] ELSE protected
               b == Bias(Tally)
               choch == /\ b \in Sides /\ moved[b] # <<>>
                        /\ Beyond(Other(b), Close, moved[b][1])
                        /\ ~Recorded(added, "CHOCH", Other(b), moved[b][1])
               q == IF choch THEN Append(added, Break("CHOCH", Other(b), moved[b][1])) ELSE added
    <3>1. breaks' = Failing(q)
      BY <1>2, <2>2 DEF UnderlyingBreaks
    <3>2. added = breaks \/ added = Append(breaks, Break("BOS", s, level))
      OBVIOUS
    <3>3. q = added \/ q = Append(added, Break("CHOCH", Other(b), moved[b][1]))
      OBVIOUS
    <3> HIDE DEF q, added, s, level, moved, b
    <3>4. QED
      BY <3>1, <3>2, <3>3, Zenon
  <2>3. QED
    BY <2>1, <2>2
<1>6. RealBreaks(bars', breaks')
  <2>1. ASSUME NEW q, RealBreaks(bars', q) PROVE RealBreaks(bars', Failing(q))
    BY <1>3, <2>1, FailingReal
  <2>2. ASSUME NEW q, RealBreaks(bars', q), NEW type, NEW s, NEW level
        PROVE  RealBreaks(bars', Append(q, Break(type, s, level)))
    BY <1>3, <2>2, NewBreakReal
  <2>3. QED
    BY <1>4, <1>5, <2>1, <2>2, Zenon
<1>7. \/ breaks' = breaks /\ ~BothMajors
      \/ \E q : /\ Extended(bars', breaks, q) /\ RealBreaks(bars', q) /\ breaks' = Failing(q)
  <2>1. ASSUME NEW q, RealBreaks(bars', q), NEW type, NEW s, NEW level
        PROVE  /\ RealBreaks(bars', Append(q, Break(type, s, level)))
               /\ Extended(bars', q, Append(q, Break(type, s, level)))
    BY <1>3, <2>1, NewBreakReal, NewBreakExtends
  <2>2. Extended(bars', breaks, breaks)
    BY DEF Extended
  <2>3. ASSUME NEW added, added = breaks \/ \E s, level : added = Append(breaks, Break("BOS", s, level)),
               NEW q, q = added \/ \E s, level : q = Append(added, Break("CHOCH", s, level))
        PROVE  Extended(bars', breaks, q) /\ RealBreaks(bars', q)
    <3>1. Extended(bars', breaks, added) /\ RealBreaks(bars', added)
      <4>1. CASE added = breaks
        BY <1>4, <2>2, <4>1
      <4>2. ASSUME NEW s, NEW level, added = Append(breaks, Break("BOS", s, level))
            PROVE  Extended(bars', breaks, added) /\ RealBreaks(bars', added)
        BY <1>4, <2>1, <4>2
      <4>3. QED
        BY <2>3, <4>1, <4>2
    <3>2. CASE q = added
      BY <3>1, <3>2
    <3>3. ASSUME NEW s, NEW level, q = Append(added, Break("CHOCH", s, level))
          PROVE  Extended(bars', breaks, q) /\ RealBreaks(bars', q)
      <4>1. Extended(bars', added, q) /\ RealBreaks(bars', q)
        BY <2>1, <3>1, <3>3
      <4>2. QED
        BY <3>1, <4>1, ExtendedTwice
    <3>4. QED
      BY <2>3, <3>2, <3>3
  <2>4. QED
    BY <1>5, <2>3, Zenon
<1>8. Noticed(bars', breaks')
  <2>1. (\A s \in Sides : MajorInReach(bars', s)) => BothMajors
    BY EngineLooks
  <2>2. CASE breaks' = breaks /\ ~BothMajors
    <3>1. Extended(bars', breaks, breaks')
      BY <2>2 DEF Extended
    <3>2. QED
      BY <1>2, <1>3, <1>6, <2>1, <2>2, <3>1, NoticedStep DEF BreaksInv
  <2>3. ASSUME NEW q, Extended(bars', breaks, q), RealBreaks(bars', q), breaks' = Failing(q)
        PROVE  Noticed(bars', breaks')
    <3>1. /\ Extended(bars', q, breaks')
          /\ \A i \in DOMAIN q : i > Len(q) - 5 /\ ClosesBack(bars', breaks'[i], Len(bars'))
                                 => breaks'[i].failed
      BY <2>3, FailingMarks
    <3>2. Len(breaks') = Len(q) /\ DOMAIN breaks' = DOMAIN q
      <4>1. PICK S, T : q \in Seq(S) /\ breaks' \in Seq(T)
        BY <1>6, <2>3 DEF RealBreaks
      <4>2. DOMAIN breaks' = DOMAIN q
        BY <2>3 DEF Failing
      <4>3. QED
        BY <4>1, <4>2, LenProperties
    <3>3. Extended(bars', breaks, breaks')
      BY <2>3, <3>1, ExtendedTwice
    <3>4. QED
      BY <1>2, <1>3, <1>6, <3>1, <3>2, <3>3, NoticedStep DEF BreaksInv
  <2>4. QED
    BY <1>7, <2>2, <2>3
<1>9. QED
  BY <1>6, <1>8 DEF BreaksInv

LEMMA BreaksBegin == ASSUME StructureInit PROVE BreaksInv
<1>1. breaks = <<>>
  BY DEF StructureInit
<1>2. breaks \in Seq({}) /\ DOMAIN breaks = {}
  BY <1>1
<1>3. QED
  BY <1>1, <1>2 DEF BreaksInv, RealBreaks, Noticed

-----------------------------------------------------------------------------
(* The shared candles.                                                     *)

BarRows == [at : Nat, loaded : BOOLEAN]
LongRows == [at : Nat, of : SUBSET Nat]
BuilderRows ==
  [mode : {"new", "running", "stopping", "last", "dead"}, ones : Seq(BarRows), fives : Seq(LongRows),
   cur : 0..MaxMinute, ticks : 0..TicksPerSave]
StoreRows == [ones : Seq(Nat), fives : Seq(LongRows), cur : 0..MaxMinute, history : {0, History}]

\* The bars are in order and before minute n.
BarsBefore(q, n) ==
  /\ Len(q) <= KeepBars
  /\ \A i \in 1..Len(q) : q[i].at < n
  /\ \A i, j \in 1..Len(q) : i < j => q[i].at < q[j].at

MinutesBefore(q, n) ==
  /\ Len(q) <= KeepBars
  /\ \A i \in 1..Len(q) : q[i] < n
  /\ \A i, j \in 1..Len(q) : i < j => q[i] < q[j]

(***************************************************************************)
(* The developing bar is later than every closed one, in each builder's    *)
(* memory and in Redis, and is never ahead of the clock: so whichever      *)
(* builder saves, and whenever, what the next one loads can be continued.  *)
(***************************************************************************)
CandleInv ==
  /\ minute \in 1..MaxMinute /\ registered \in Builders \cup {NoBuilder}
  /\ builder \in [Builders -> BuilderRows]
  /\ \A b \in Builders : builder[b].cur <= minute /\ BarsBefore(builder[b].ones, builder[b].cur)
  /\ store \in StoreRows
  /\ store.cur <= minute /\ MinutesBefore(store.ones, store.cur)

\* A bar that closes is added, and the oldest one dropped when there are too many.
LEMMA BarCloses ==
  ASSUME CandleAssumption, NEW n \in Nat, NEW k \in Nat, n < k, NEW q \in Seq(BarRows), BarsBefore(q, n),
         NEW r, r = KeepLast(Append(q, [at |-> n, loaded |-> FALSE]), KeepBars)
  PROVE  r \in Seq(BarRows) /\ BarsBefore(r, k)
<1>1. PICK x, a, l : x = [at |-> n, loaded |-> FALSE] /\ a = Append(q, x) /\ l = Len(q)
  OBVIOUS
<1>2. x \in BarRows /\ x.at = n
  BY <1>1 DEF BarRows
<1>3. a \in Seq(BarRows) /\ l \in Nat /\ Len(a) = l + 1 /\ a[l + 1] = x /\ \A i \in 1..l : a[i] = q[i]
  BY <1>1, <1>2, AppendProperties, LenProperties
<1>4. \A i \in 1..l : q[i].at \in Nat /\ q[i].at < n
  <2>1. \A i \in 1..l : q[i] \in BarRows
    BY <1>1, LenProperties, ElementOfSeq
  <2>2. QED
    BY <1>1, <2>1 DEF BarRows, BarsBefore
<1>5. \A i \in 1..(l + 1) : a[i].at \in Nat /\ a[i].at < k
  <2> SUFFICES ASSUME NEW i \in 1..(l + 1) PROVE a[i].at \in Nat /\ a[i].at < k
    OBVIOUS
  <2>1. CASE i = l + 1
    BY <1>2, <1>3, <2>1
  <2>2. CASE i # l + 1
    <3>1. i \in 1..l
      BY <1>3, <2>2
    <3>2. a[i].at \in Nat /\ a[i].at < n
      BY <1>3, <1>4, <3>1
    <3>3. QED
      BY <3>2
  <2>3. QED
    BY <2>1, <2>2
<1>6. \A i, j \in 1..(l + 1) : i < j => a[i].at < a[j].at
  <2> SUFFICES ASSUME NEW i \in 1..(l + 1), NEW j \in 1..(l + 1), i < j PROVE a[i].at < a[j].at
    OBVIOUS
  <2>1. i \in 1..l /\ (j \in 1..l \/ j = l + 1)
    BY <1>3
  <2>2. QED
    BY <1>1, <1>2, <1>3, <1>4, <2>1 DEF BarsBefore
<1>7. /\ r \in Seq(BarRows) /\ Len(r) = IF l + 1 > KeepBars THEN KeepBars ELSE l + 1
      /\ \A i \in 1..Len(r) : r[i] = a[i + ((l + 1) - Len(r))]
  <2>1. r = LastOf(a, KeepBars)
    BY <1>1 DEF KeepLast, LastOf
  <2>2. KeepBars \in Nat \ {0}
    BY DEF CandleAssumption
  <2>3. /\ r \in Seq(BarRows) /\ Len(r) = IF Len(a) > KeepBars THEN KeepBars ELSE Len(a)
        /\ \A i \in 1..Len(r) : r[i] = a[i + (Len(a) - Len(r))]
    <3>1. a \in Seq(BarRows)
      BY <1>3
    <3>2. /\ LastOf(a, KeepBars) \in Seq(BarRows)
          /\ Len(LastOf(a, KeepBars)) = IF Len(a) > KeepBars THEN KeepBars ELSE Len(a)
          /\ \A i \in 1..Len(LastOf(a, KeepBars)) :
               LastOf(a, KeepBars)[i] = a[i + (Len(a) - Len(LastOf(a, KeepBars)))]
      BY <2>2, <3>1, LastOfKeeps
    <3>3. QED
      BY <2>1, <3>2, Zenon
  <2>4. QED
    BY <1>3, <2>3
<1>8. PICK d : d = (l + 1) - Len(r)
  OBVIOUS
<1>9. KeepBars \in Nat /\ Len(r) \in Nat /\ d \in Nat /\ Len(r) + d = l + 1 /\ Len(r) <= KeepBars
  <2>1. KeepBars \in Nat /\ l \in Nat /\ Len(r) = IF l + 1 > KeepBars THEN KeepBars ELSE l + 1
    BY <1>3, <1>7 DEF CandleAssumption
  <2>2. QED
    BY <1>8, <2>1
<1>10. \A i \in 1..Len(r) : i + d \in 1..(l + 1) /\ r[i] = a[i + d]
  <2>1. TAKE i \in 1..Len(r)
  <2>2. i + d \in 1..(l + 1)
    BY <1>3, <1>9
  <2>3. QED
    BY <1>7, <1>8, <2>2
<1>11. \A i, j \in 1..Len(r) : i < j => r[i].at < r[j].at
  <2> SUFFICES ASSUME NEW i \in 1..Len(r), NEW j \in 1..Len(r), i < j PROVE r[i].at < r[j].at
    OBVIOUS
  <2>1. i + d < j + d
    BY <1>9
  <2>2. QED
    BY <1>6, <1>10, <2>1
<1>12. QED
  BY <1>5, <1>7, <1>9, <1>10, <1>11 DEF BarsBefore

\* What a builder saves is as sound as the builder.
LEMMA SaveSound ==
  ASSUME CandleAssumption, minute \in 1..MaxMinute, NEW m \in BuilderRows, m.cur <= minute, BarsBefore(m.ones, m.cur),
         store \in StoreRows, store.cur <= minute, NEW st, st = Saved(m)
  PROVE  st \in StoreRows /\ st.cur <= minute /\ MinutesBefore(st.ones, st.cur)
<1>1. PICK q, l, cur : q = Minutes(m.ones) /\ l = Len(m.ones) /\ cur = IF m.cur = 0 THEN store.cur ELSE m.cur
  OBVIOUS
<1>2. m.ones \in Seq(BarRows) /\ m.fives \in Seq(LongRows) /\ m.cur \in 0..MaxMinute /\ m.cur \in Nat
      /\ store.cur \in 0..MaxMinute /\ store.cur \in Nat /\ MaxMinute \in Nat
  BY DEF BuilderRows, StoreRows, CandleAssumption
<1>3. l \in Nat /\ DOMAIN m.ones = 1..l /\ \A i \in 1..l : m.ones[i] \in BarRows /\ m.ones[i].at \in Nat
  <2>1. l \in Nat /\ DOMAIN m.ones = 1..l /\ \A i \in 1..l : m.ones[i] \in BarRows
    BY <1>1, <1>2, LenProperties, ElementOfSeq
  <2>2. QED
    BY <2>1 DEF BarRows
<1>4. q = [i \in 1..l |-> m.ones[i].at]
  BY <1>1, <1>3 DEF Minutes
<1>5. q \in Seq(Nat) /\ Len(q) = l /\ \A i \in 1..l : q[i] = m.ones[i].at
  <2>1. q \in [1..l -> Nat]
    BY <1>3, <1>4
  <2>2. QED
    BY <1>3, <1>4, <2>1, IsSequence
<1>6. cur \in 0..MaxMinute /\ cur <= minute /\ \A i \in 1..l : m.ones[i].at < cur
  <2>1. \A i \in 1..l : m.ones[i].at < m.cur
    BY <1>1 DEF BarsBefore
  <2>2. CASE m.cur = 0
    BY <1>1, <1>2, <1>3, <2>1, <2>2
  <2>3. CASE m.cur # 0
    BY <1>1, <1>2, <2>1, <2>3
  <2>4. QED
    BY <2>2, <2>3
<1>7. MinutesBefore(q, cur)
  <2>1. l <= KeepBars /\ \A i, j \in 1..l : i < j => m.ones[i].at < m.ones[j].at
    BY <1>1 DEF BarsBefore
  <2>2. QED
    BY <1>5, <1>6, <2>1 DEF MinutesBefore
<1>8. st = [store EXCEPT !.ones = q, !.fives = m.fives, !.cur = cur]
  BY <1>1 DEF Saved
<1>9. st \in StoreRows /\ st.ones = q /\ st.cur = cur
  BY <1>2, <1>5, <1>6, <1>8 DEF StoreRows
<1>10. QED
  BY <1>6, <1>7, <1>9

\* A change to one builder, to the lists in Redis and to nothing else that matters.
LEMMA BuilderChanges ==
  ASSUME CandleInv, NEW b \in Builders, NEW m \in BuilderRows, m.cur <= minute, BarsBefore(m.ones, m.cur),
         builder' = [builder EXCEPT ![b] = m],
         store' \in StoreRows, store'.cur <= minute, MinutesBefore(store'.ones, store'.cur),
         UNCHANGED minute, registered' \in Builders \cup {NoBuilder}
  PROVE  CandleInv'
<1>1. builder' \in [Builders -> BuilderRows]
  BY DEF CandleInv
<1>2. ASSUME NEW e \in Builders
      PROVE  builder'[e].cur <= minute /\ BarsBefore(builder'[e].ones, builder'[e].cur)
  <2>1. CASE e = b
    BY <2>1 DEF CandleInv
  <2>2. CASE e # b
    <3>1. builder'[e] = builder[e]
      BY <2>2 DEF CandleInv
    <3>2. QED
      BY <3>1 DEF CandleInv
  <2>3. QED
    BY <2>1, <2>2
<1>3. QED
  BY <1>1, <1>2 DEF CandleInv, BarsBefore, MinutesBefore

LEMMA StartKeeps == ASSUME CandleAssumption, CandleInv, NEW b \in Builders, StartBuilder(b) PROVE CandleInv'
<1>1. PICK q, l : q = store.ones /\ l = Len(q)
  OBVIOUS
<1>2. /\ store \in StoreRows /\ q \in Seq(Nat) /\ store.fives \in Seq(LongRows) /\ store.cur \in 0..MaxMinute
      /\ store.cur <= minute /\ MinutesBefore(q, store.cur)
  BY <1>1 DEF CandleInv, StoreRows
<1>3. l \in Nat /\ DOMAIN q = 1..l /\ \A i \in 1..l : q[i] \in Nat
  BY <1>1, <1>2, LenProperties, ElementOfSeq
<1>4. PICK o : o = [i \in 1..l |-> [at |-> q[i], loaded |-> TRUE]]
  OBVIOUS
<1>5. o \in Seq(BarRows) /\ Len(o) = l /\ \A i \in 1..l : o[i].at = q[i]
  <2>1. \A i \in 1..l : o[i] \in BarRows /\ o[i].at = q[i]
    BY <1>3, <1>4 DEF BarRows
  <2>2. o \in [1..l -> BarRows]
    BY <1>4, <2>1
  <2>3. QED
    BY <1>3, <2>1, <2>2, IsSequence
<1>6. BarsBefore(o, store.cur)
  BY <1>1, <1>2, <1>5 DEF BarsBefore, MinutesBefore
<1>7. PICK m : m = [mode |-> "running", fives |-> store.fives, cur |-> store.cur, ticks |-> 0, ones |-> o]
  OBVIOUS
<1>8. m \in BuilderRows /\ m.cur = store.cur /\ m.ones = o
  BY <1>2, <1>5, <1>7 DEF BuilderRows, CandleAssumption
<1>9. builder' = [builder EXCEPT ![b] = m]
  BY <1>1, <1>3, <1>4, <1>7 DEF StartBuilder
<1>10. store' \in StoreRows /\ store'.cur = store.cur /\ store'.ones = q
  <2>1. store' = [store EXCEPT !.history = History]
    BY DEF StartBuilder
  <2>2. QED
    BY <1>1, <1>2, <2>1 DEF StoreRows
<1>11. UNCHANGED minute /\ registered' = b
  BY DEF StartBuilder
<1>12. QED
  BY <1>2, <1>6, <1>8, <1>9, <1>10, <1>11, BuilderChanges

LEMMA TickKeeps == ASSUME CandleAssumption, CandleInv, NEW b \in Builders, ProcessTick(b) PROVE CandleInv'
<1>1. PICK m, x : m = builder[b] /\ x = [at |-> m.cur, loaded |-> FALSE]
  OBVIOUS
<1> DEFINE closing == m.cur # minute /\ m.cur # 0
<1>2. PICK ones : ones = IF closing THEN KeepLast(Append(m.ones, x), KeepBars) ELSE m.ones
  OBVIOUS
<1> DEFINE long == closing /\ minute % Span = 0 /\ Window(ones) # {}
<1>3. PICK bar : bar = [at |-> minute, of |-> {ones[i].at : i \in Window(ones)}]
  OBVIOUS
<1>4. PICK fives : fives = IF long THEN KeepLast(Append(m.fives, bar), KeepBars) ELSE m.fives
  OBVIOUS
<1>5. PICK m2 : m2 = [mode |-> IF m.mode = "stopping" THEN "last" ELSE m.mode,
                      ones |-> ones, fives |-> fives, cur |-> minute, ticks |-> m.ticks + 1]
  OBVIOUS
<1>6. /\ m.mode \in {"running", "stopping"} /\ m.ticks < TicksPerSave
      /\ builder' = [builder EXCEPT ![b] = m2]
      /\ store' = [store EXCEPT !.cur = minute, !.fives = IF long THEN fives ELSE @]
      /\ UNCHANGED <<minute, registered>>
  BY <1>1, <1>2, <1>3, <1>4, <1>5 DEF ProcessTick
<1> HIDE DEF long
<1>7. /\ m \in BuilderRows /\ m.cur <= minute /\ BarsBefore(m.ones, m.cur)
      /\ minute \in 1..MaxMinute /\ minute \in Nat /\ MaxMinute \in Nat /\ TicksPerSave \in Nat
      /\ registered \in Builders \cup {NoBuilder}
  BY <1>1 DEF CandleInv, CandleAssumption
<1>8. /\ m.cur \in 0..MaxMinute /\ m.cur \in Nat /\ m.ones \in Seq(BarRows) /\ m.fives \in Seq(LongRows)
      /\ m.ticks \in 0..TicksPerSave
  BY <1>7 DEF BuilderRows
<1>9. ones \in Seq(BarRows) /\ BarsBefore(ones, minute)
  <2>1. CASE closing
    <3>1. m.cur < minute
      BY <1>1, <1>7, <1>8, <2>1
    <3>2. ones = KeepLast(Append(m.ones, [at |-> m.cur, loaded |-> FALSE]), KeepBars)
      BY <1>1, <1>2, <2>1
    <3>3. QED
      BY <1>7, <1>8, <3>1, <3>2, BarCloses
  <2>2. CASE ~closing
    <3>1. ones = m.ones
      BY <1>2, <2>2
    <3>2. \A i \in 1..Len(ones) : ones[i].at \in Nat
      <4>1. \A i \in 1..Len(ones) : ones[i] \in BarRows
        BY <1>8, <3>1, ElementOfSeq
      <4>2. QED
        BY <4>1 DEF BarRows
    <3>3. \A i \in 1..Len(ones) : ones[i].at < minute
      BY <1>7, <1>8, <3>1, <3>2 DEF BarsBefore
    <3>4. QED
      BY <1>7, <1>8, <3>1, <3>3 DEF BarsBefore
  <2>3. QED
    BY <2>1, <2>2
<1>10. fives \in Seq(LongRows)
  <2>1. CASE long
    <3>1. bar \in LongRows
      <4>1. DOMAIN ones = 1..Len(ones) /\ \A i \in 1..Len(ones) : ones[i] \in BarRows
        BY <1>9, LenProperties, ElementOfSeq
      <4>2. \A i \in Window(ones) : ones[i].at \in Nat
        BY <4>1 DEF Window, BarRows
      <4>3. {ones[i].at : i \in Window(ones)} \in SUBSET Nat
        BY <4>2
      <4>4. QED
        BY <1>3, <1>7, <4>3 DEF LongRows
    <3>2. Append(m.fives, bar) \in Seq(LongRows)
      BY <1>8, <3>1, AppendProperties
    <3>3. LastOf(Append(m.fives, bar), KeepBars) \in Seq(LongRows)
      <4>1. KeepBars \in Nat \ {0}
        BY DEF CandleAssumption
      <4>2. QED
        BY <3>2, <4>1, LastOfKeeps
    <3>4. QED
      BY <1>4, <2>1, <3>3 DEF LastOf, KeepLast
  <2>2. QED
    BY <1>4, <1>8, <2>1
<1>11. m2 \in BuilderRows /\ m2.cur = minute /\ m2.ones = ones
  <2>1. m.ticks + 1 \in 0..TicksPerSave
    BY <1>6, <1>7, <1>8
  <2>2. (IF m.mode = "stopping" THEN "last" ELSE m.mode) \in {"new", "running", "stopping", "last", "dead"}
    BY <1>6
  <2>3. minute \in 0..MaxMinute
    BY <1>7
  <2>4. QED
    BY <1>5, <1>9, <1>10, <2>1, <2>2, <2>3 DEF BuilderRows
<1>12. store' \in StoreRows /\ store'.cur = minute /\ store'.ones = store.ones
  <2>1. store \in StoreRows /\ minute \in 0..MaxMinute /\ store.fives \in Seq(LongRows)
    BY <1>7 DEF CandleInv, StoreRows
  <2>2. PICK f : f = IF long THEN fives ELSE store.fives
    OBVIOUS
  <2>3. f \in Seq(LongRows) /\ store' = [store EXCEPT !.cur = minute, !.fives = f]
    BY <1>6, <1>10, <2>1, <2>2
  <2>4. QED
    BY <2>1, <2>3 DEF StoreRows
<1>13. MinutesBefore(store.ones, minute)
  <2>1. store.ones \in Seq(Nat) /\ store.cur \in Nat /\ store.cur <= minute /\ MinutesBefore(store.ones, store.cur)
    BY DEF CandleInv, StoreRows
  <2>2. \A i \in 1..Len(store.ones) : store.ones[i] \in Nat
    BY <2>1, ElementOfSeq
  <2>3. \A i \in 1..Len(store.ones) : store.ones[i] < minute
    <3>1. \A x1, y1 \in Nat : x1 < y1 /\ y1 <= minute => x1 < minute
      BY <1>7
    <3>2. QED
      BY <2>1, <2>2, <3>1 DEF MinutesBefore
  <2>4. QED
    BY <2>1, <2>3 DEF MinutesBefore
<1>14. minute <= minute
  BY <1>7
<1>15. QED
  BY <1>6, <1>7, <1>9, <1>11, <1>12, <1>13, <1>14, BuilderChanges

LEMMA SaveKeeps ==
  ASSUME CandleAssumption, CandleInv, NEW b \in Builders, SaveToRedis(b) \/ StopBuilder(b)
  PROVE  CandleInv'
<1>1. PICK m, st : m = builder[b] /\ st = Saved(m)
  OBVIOUS
<1>2. /\ m \in BuilderRows /\ m.cur <= minute /\ BarsBefore(m.ones, m.cur)
      /\ store \in StoreRows /\ store.cur <= minute /\ minute \in 1..MaxMinute
      /\ registered \in Builders \cup {NoBuilder} /\ builder \in [Builders -> BuilderRows]
  BY <1>1 DEF CandleInv
<1>3. st \in StoreRows /\ st.cur <= minute /\ MinutesBefore(st.ones, st.cur)
  BY <1>1, <1>2, SaveSound
<1>4. PICK y, z : y = [m EXCEPT !.ticks = 0] /\ z = [m EXCEPT !.mode = "stopping"]
  OBVIOUS
<1>5. /\ y \in BuilderRows /\ y.cur = m.cur /\ y.ones = m.ones
      /\ z \in BuilderRows /\ z.cur = m.cur /\ z.ones = m.ones
  <2>1. 0 \in 0..TicksPerSave
    BY DEF CandleAssumption
  <2>2. y \in BuilderRows /\ y.cur = m.cur /\ y.ones = m.ones
    BY <1>2, <1>4, <2>1 DEF BuilderRows
  <2>3. z \in BuilderRows /\ z.cur = m.cur /\ z.ones = m.ones
    BY <1>2, <1>4 DEF BuilderRows
  <2>4. QED
    BY <2>2, <2>3
<1>6. store' = st /\ UNCHANGED minute /\ registered' \in Builders \cup {NoBuilder}
  BY <1>1, <1>2 DEF SaveToRedis, StopBuilder
<1>7. builder' = [builder EXCEPT ![b] = y] \/ builder' = [builder EXCEPT ![b] = z]
  BY <1>1, <1>4 DEF SaveToRedis, StopBuilder
<1>8. QED
  BY <1>2, <1>3, <1>5, <1>6, <1>7, BuilderChanges

LEMMA CrashKeeps == ASSUME CandleInv, CrashBuilder PROVE CandleInv'
<1>1. /\ builder' = [b \in Builders |-> IF builder[b].mode = "new" THEN builder[b]
                                        ELSE [builder[b] EXCEPT !.mode = "dead"]]
      /\ UNCHANGED <<minute, store>> /\ registered' = NoBuilder
  BY DEF CrashBuilder
<1>2. ASSUME NEW b \in Builders
      PROVE  builder'[b] \in BuilderRows /\ builder'[b].cur = builder[b].cur /\ builder'[b].ones = builder[b].ones
  <2>1. PICK m, y : m = builder[b] /\ y = [m EXCEPT !.mode = "dead"]
    OBVIOUS
  <2>2. m \in BuilderRows
    BY <2>1 DEF CandleInv
  <2>3. y \in BuilderRows /\ y.cur = m.cur /\ y.ones = m.ones
    BY <2>1, <2>2 DEF BuilderRows
  <2>4. builder'[b] = m \/ builder'[b] = y
    BY <1>1, <2>1
  <2>5. QED
    BY <2>1, <2>2, <2>3, <2>4
<1>3. builder' \in [Builders -> BuilderRows]
  BY <1>1, <1>2
<1>4. QED
  BY <1>1, <1>2, <1>3 DEF CandleInv, BarsBefore, MinutesBefore

LEMMA CandleStep == ASSUME CandleAssumption, CandleInv, CandleNext PROVE CandleInv'
<1>1. ASSUME NEW b \in Builders, StartBuilder(b) PROVE CandleInv'
  BY <1>1, StartKeeps
<1>2. ASSUME NEW b \in Builders, ProcessTick(b) PROVE CandleInv'
  BY <1>2, TickKeeps
<1>3. ASSUME NEW b \in Builders, SaveToRedis(b) \/ StopBuilder(b) PROVE CandleInv'
  BY <1>3, SaveKeeps
<1>4. ASSUME CrashBuilder PROVE CandleInv'
  BY <1>4, CrashKeeps
<1>5. ASSUME NextMinute PROVE CandleInv'
  <2>1. /\ minute \in 1..MaxMinute /\ minute < MaxMinute /\ minute' = minute + 1 /\ MaxMinute \in Nat
        /\ UNCHANGED <<registered, builder, store>>
    BY <1>5 DEF NextMinute, CandleInv, CandleAssumption
  <2>2. minute' \in 1..MaxMinute /\ minute <= minute' /\ minute \in Nat /\ minute' \in Nat
    BY <2>1
  <2>3. \A b \in Builders : builder[b].cur \in Nat /\ builder[b].cur <= minute
    BY DEF CandleInv, BuilderRows
  <2>4. store.cur \in Nat /\ store.cur <= minute
    BY DEF CandleInv, StoreRows
  <2>5. (\A b \in Builders : builder[b].cur <= minute') /\ store.cur <= minute'
    BY <2>2, <2>3, <2>4
  <2>6. QED
    BY <2>1, <2>2, <2>5 DEF CandleInv, BarsBefore, MinutesBefore
<1>6. ASSUME UNCHANGED <<minute, registered, builder, store>> PROVE CandleInv'
  BY <1>6 DEF CandleInv, BarsBefore, MinutesBefore
<1>7. ASSUME OnCandleClose \/ AnalyzeStructure \/ EvaluateStrategies \/ \E r \in Readers : LoseEvents(r)
      PROVE  UNCHANGED <<minute, registered, builder, store>>
  BY <1>7 DEF OnCandleClose, AnalyzeStructure, EvaluateStrategies, LoseEvents, Take
<1>8. QED
  BY <1>1, <1>2, <1>3, <1>4, <1>5, <1>6, <1>7 DEF CandleNext

LEMMA CandleBegins == ASSUME CandleAssumption, CandleInit PROVE CandleInv
<1>1. PICK m : m = [mode |-> "new", ones |-> <<>>, fives |-> <<>>, cur |-> 0, ticks |-> 0]
  OBVIOUS
<1>2. <<>> \in Seq(BarRows) /\ <<>> \in Seq(LongRows) /\ <<>> \in Seq(Nat) /\ Len(<<>>) = 0
  BY EmptySeq
<1>3. MaxMinute \in Nat /\ MaxMinute >= 1 /\ TicksPerSave \in Nat /\ KeepBars \in Nat
  BY DEF CandleAssumption
<1>4. m \in BuilderRows /\ m.cur = 0 /\ m.ones = <<>>
  BY <1>1, <1>2, <1>3 DEF BuilderRows
<1>5. store \in StoreRows /\ store.cur = 0 /\ store.ones = <<>>
  BY <1>2, <1>3 DEF CandleInit, StoreRows
<1>6. BarsBefore(<<>>, 0) /\ MinutesBefore(<<>>, 0)
  BY <1>2, <1>3 DEF BarsBefore, MinutesBefore
<1>7. minute = 1 /\ registered = NoBuilder /\ builder = [b \in Builders |-> m]
  BY <1>1 DEF CandleInit
<1>8. minute \in 1..MaxMinute /\ 0 <= minute
  BY <1>3, <1>7
<1>9. QED
  BY <1>4, <1>5, <1>6, <1>7, <1>8 DEF CandleInv

LEMMA CandlesSay == ASSUME CandleInv PROVE CandleTypeOK /\ BarsAscending
<1>1. CandleTypeOK
  BY DEF CandleInv, CandleTypeOK, BuilderRows, StoreRows, BarsBefore
<1>2. /\ store.ones \in Seq(Nat) /\ Len(store.ones) \in Nat /\ DOMAIN store.ones = 1..Len(store.ones)
      /\ MinutesBefore(store.ones, store.cur)
  <2>1. store.ones \in Seq(Nat) /\ MinutesBefore(store.ones, store.cur)
    BY DEF CandleInv, StoreRows
  <2>2. QED
    BY <2>1, LenProperties
<1>3. Ascending(store.ones) /\ (store.ones # <<>> => LastOne < store.cur)
  <2>1. Ascending(store.ones)
    BY <1>2 DEF MinutesBefore, Ascending
  <2>2. store.ones # <<>> => Len(store.ones) \in 1..Len(store.ones)
    BY <1>2, EmptySeq
  <2>3. QED
    BY <1>2, <2>1, <2>2 DEF MinutesBefore, LastOne
<1>4. ASSUME NEW b \in Builders, NEW q, q = Minutes(builder[b].ones)
      PROVE  Ascending(q) /\ (q # <<>> => q[Len(q)] < builder[b].cur)
  <2>1. PICK o, l : o = builder[b].ones /\ l = Len(o)
    OBVIOUS
  <2>2. o \in Seq(BarRows) /\ BarsBefore(o, builder[b].cur)
    BY <2>1 DEF CandleInv, BuilderRows
  <2>3. l \in Nat /\ DOMAIN o = 1..l /\ \A i \in 1..l : o[i].at \in Nat
    <3>1. l \in Nat /\ DOMAIN o = 1..l /\ \A i \in 1..l : o[i] \in BarRows
      BY <2>1, <2>2, LenProperties, ElementOfSeq
    <3>2. QED
      BY <3>1 DEF BarRows
  <2>4. q = [i \in 1..l |-> o[i].at]
    BY <1>4, <2>1, <2>3 DEF Minutes
  <2>5. q \in Seq(Nat) /\ Len(q) = l /\ DOMAIN q = 1..l /\ \A i \in 1..l : q[i] = o[i].at
    <3>1. q \in [1..l -> Nat]
      BY <2>3, <2>4
    <3>2. QED
      BY <2>3, <2>4, <3>1, IsSequence
  <2>6. Ascending(q)
    BY <2>1, <2>2, <2>5 DEF BarsBefore, Ascending
  <2>7. q # <<>> => l \in 1..l
    BY <2>3, <2>5, EmptySeq
  <2>8. QED
    BY <2>1, <2>2, <2>5, <2>6, <2>7 DEF BarsBefore
<1>5. QED
  BY <1>1, <1>3, <1>4 DEF BarsAscending

-----------------------------------------------------------------------------
(* The option series of an engine, and the shared stream.                  *)

\* A thread's instrument is one that there is, from the moment the broker is asked for it
\* until its rows are stored.
SeriesInv ==
  /\ market.side \in OptTypes /\ SeriesTypeOK
  /\ \A j \in Jobs : job[j].at = "asked" => job[j].key \in Instruments
  /\ DOMAIN job = Jobs

LEMMA SeriesBegins == ASSUME SeriesInit PROVE SeriesInv
BY DEF SeriesInit, SeriesInv, SeriesTypeOK, OptTypes, Idle

JobStates == {"idle", "depth", "reselect", "fetch", "asked", "direction", "select"}

\* A thread's new state, and the state in which it starts another.
JobsOK(jobs) ==
  /\ DOMAIN jobs = Jobs
  /\ \A j \in Jobs : jobs[j].at \in JobStates /\ (jobs[j].at = "asked" => jobs[j].key \in Instruments)

LEMMA JobMoves ==
  ASSUME JobsOK(job), NEW j \in Jobs, NEW at \in JobStates \ {"asked"}
  PROVE  JobsOK(Go(j, at)) /\ \A q \in Spawned(Go(j, at)) : JobsOK(q)
<1>1. ASSUME NEW jobs, JobsOK(jobs), NEW k \in Jobs, NEW a \in JobStates \ {"asked"}
      PROVE  JobsOK([jobs EXCEPT ![k] = [Idle EXCEPT !.at = a]])
  <2>1. PICK r : r = [Idle EXCEPT !.at = a]
    OBVIOUS
  <2>2. r.at = a
    BY <2>1 DEF Idle
  <2>3. QED
    BY <1>1, <2>1, <2>2 DEF JobsOK
<1>2. JobsOK(Go(j, at))
  BY <1>1 DEF Go
<1>3. ASSUME NEW q \in Spawned(Go(j, at)) PROVE JobsOK(q)
  <2>1. PICK l \in Loaders : q = [Go(j, at) EXCEPT ![l] = [Idle EXCEPT !.at = "fetch"]]
    BY <1>3 DEF Spawned
  <2>2. l \in Jobs /\ "fetch" \in JobStates \ {"asked"}
    BY DEF Jobs, JobStates
  <2>3. QED
    BY <1>1, <1>2, <2>1, <2>2
<1>4. QED
  BY <1>2, <1>3

LEMMA SeriesStep == ASSUME SeriesInv, SeriesNext PROVE SeriesInv'
<1>1. JobsOK(job)
  BY DEF SeriesInv, SeriesTypeOK, JobsOK, JobStates
<1>2. JobsOK(job')
  <2>1. "loop" \in Jobs /\ "bar" \in Jobs /\ {"idle", "depth", "fetch", "direction", "select"} \subseteq JobStates \ {"asked"}
    BY DEF Jobs, JobStates
  <2>2. CASE UNCHANGED job
    BY <1>1, <2>2 DEF JobsOK
  <2>3. ASSUME NEW j \in Jobs, NEW at \in JobStates \ {"asked"},
               job' = Go(j, at) \/ job' \in Spawned(Go(j, at))
        PROVE  JobsOK(job')
    BY <1>1, <2>3, JobMoves
  <2>4. CASE Turn \/ UnderlyingTick \/ OptionTick \/ OptionBar \/ StartPoll \/ StayAtStrike
    BY <2>1, <2>2, <2>3, <2>4 DEF Turn, UnderlyingTick, OptionTick, OptionBar, StartPoll, StayAtStrike
  <2>5. CASE TooDeep
    <3>1. PICK r : r = [at |-> "reselect", key |-> [side |-> optType, strike |-> 0], rows |-> {}]
      OBVIOUS
    <3>2. r.at = "reselect" /\ job' = [job EXCEPT !["loop"] = r]
      BY <2>5, <3>1 DEF TooDeep
    <3>3. QED
      BY <1>1, <2>1, <3>2 DEF JobsOK, JobStates
  <2>6. CASE Reselect
    BY <2>1, <2>3, <2>6 DEF Reselect
  <2>7. ASSUME NEW j \in Jobs, JobAdvances(j) PROVE JobsOK(job')
    <3>1. CASE Ask(j)
      <4>1. PICK r : r = IF instrument = NoKey THEN [Idle EXCEPT !.at = "direction"]
                         ELSE [at |-> "asked", key |-> instrument, rows |-> {}]
        OBVIOUS
      <4>2. job' = [job EXCEPT ![j] = r]
        BY <3>1, <4>1 DEF Ask
      <4>3. r.at \in JobStates /\ (r.at = "asked" => r.key \in Instruments)
        <5>1. CASE instrument = NoKey
          BY <4>1, <5>1 DEF Idle, JobStates
        <5>2. CASE instrument # NoKey
          <6>1. r = [at |-> "asked", key |-> instrument, rows |-> {}] /\ instrument \in Instruments
            BY <4>1, <5>2 DEF SeriesInv, SeriesTypeOK
          <6>2. r.at = "asked" /\ r.key = instrument
            BY <6>1
          <6>3. QED
            BY <6>1, <6>2 DEF JobStates
        <5>3. QED
          BY <5>1, <5>2
      <4>4. QED
        BY <1>1, <4>2, <4>3 DEF JobsOK
    <3>2. CASE Store(j) \/ StoreNothing(j)
      <4>1. job' = Go(j, "idle") \/ job' = Go(j, "direction")
        BY <3>2 DEF Store, StoreNothing
      <4>2. QED
        BY <2>1, <2>3, <4>1
    <3>3. CASE SameDirection(j) \/ Flip(j) \/ SelectFlipped(j) \/ SelectFails(j)
      <4>1. job' = Go(j, "idle") \/ job' = Go(j, "select") \/ job' \in Spawned(Go(j, "idle"))
        BY <3>3 DEF SameDirection, Flip, SelectFlipped, SelectFails
      <4>2. QED
        BY <2>1, <2>3, <4>1
    <3>4. QED
      BY <2>7, <3>1, <3>2, <3>3 DEF JobAdvances
  <2>8. QED
    BY <2>4, <2>5, <2>6, <2>7 DEF SeriesNext
<1>3. /\ market'.side \in OptTypes /\ direction' \in OptTypes \cup {"none"} /\ optType' \in OptTypes \cup {"none"}
      /\ instrument' \in Instruments \cup {NoKey} /\ flipper' \in Jobs \cup {"none"}
      /\ series' \subseteq Instruments /\ forming' \subseteq Instruments
  <2>1. /\ market.side \in OptTypes /\ direction \in OptTypes \cup {"none"} /\ optType \in OptTypes \cup {"none"}
        /\ instrument \in Instruments \cup {NoKey} /\ flipper \in Jobs \cup {"none"}
        /\ series \subseteq Instruments /\ forming \subseteq Instruments
    BY DEF SeriesInv, SeriesTypeOK
  <2>2. CASE Turn
    BY <2>1, <2>2 DEF Turn, OptTypes
  <2>3. CASE UnderlyingTick \/ StartPoll \/ StayAtStrike \/ TooDeep
    BY <2>1, <2>3 DEF UnderlyingTick, StartPoll, StayAtStrike, TooDeep
  <2>4. CASE OptionTick \/ OptionBar
    BY <2>1, <2>4 DEF OptionTick, OptionBar
  <2>5. CASE Reselect
    BY <2>1, <2>5 DEF Reselect
  <2>6. ASSUME NEW j \in Jobs, JobAdvances(j)
        PROVE  /\ market'.side \in OptTypes /\ direction' \in OptTypes \cup {"none"} /\ optType' \in OptTypes \cup {"none"}
               /\ instrument' \in Instruments \cup {NoKey} /\ flipper' \in Jobs \cup {"none"}
               /\ series' \subseteq Instruments /\ forming' \subseteq Instruments
    <3>1. CASE Ask(j) \/ StoreNothing(j) \/ SameDirection(j) \/ SelectFails(j)
      BY <2>1, <3>1 DEF Ask, StoreNothing, SameDirection, SelectFails
    <3>2. CASE Store(j)
      <4>1. series' = {job[j].key} /\ job[j].key \in Instruments
        BY <3>2 DEF Store, SeriesInv
      <4>2. QED
        BY <2>1, <3>2, <4>1 DEF Store
    <3>3. CASE Flip(j)
      BY <2>1, <3>3 DEF Flip
    <3>4. CASE SelectFlipped(j)
      BY <2>1, <3>4 DEF SelectFlipped
    <3>5. QED
      BY <2>6, <3>1, <3>2, <3>3, <3>4 DEF JobAdvances
  <2>7. QED
    BY <2>2, <2>3, <2>4, <2>5, <2>6 DEF SeriesNext
<1>4. QED
  BY <1>2, <1>3 DEF SeriesInv, SeriesTypeOK, JobsOK, JobStates

FeedInv == FeedTypeOK /\ DOMAIN feed = Feeds

LEMMA FeedBegins == ASSUME FeedInit PROVE FeedInv
BY DEF FeedInit, FeedInv, FeedTypeOK

LEMMA FeedStep == ASSUME FeedInv, FeedNext PROVE FeedInv'
<1> DEFINE PC == {"new", "loop", "making", "connecting", "open", "ended"}
<1>1. /\ current \in Feeds \cup {NoFeed} /\ streams \subseteq Feeds /\ DOMAIN feed = Feeds
      /\ \A f \in Feeds : feed[f].pc \in PC
  BY DEF FeedInv, FeedTypeOK
<1>2. CASE GetOrCreate
  BY <1>1, <1>2 DEF GetOrCreate, FeedInv, FeedTypeOK
<1>3. CASE StopFeed
  BY <1>1, <1>3 DEF StopFeed, FeedInv, FeedTypeOK
<1>4. CASE Drop
  BY <1>1, <1>4 DEF Drop, FeedInv, FeedTypeOK
<1>5. ASSUME NEW f \in Feeds, FeedAdvances(f) PROVE FeedInv'
  <2>1. CASE MakeStreamer(f)
    BY <1>1, <2>1 DEF MakeStreamer, FeedInv, FeedTypeOK
  <2>2. CASE KeepStreamer(f)
    BY <1>1, <2>2 DEF KeepStreamer, FeedInv, FeedTypeOK
  <2>3. CASE StreamOpens(f)
    BY <1>1, <2>3 DEF StreamOpens, FeedInv, FeedTypeOK
  <2>4. CASE ConnectFails(f)
    BY <1>1, <2>4 DEF ConnectFails, FeedInv, FeedTypeOK
  <2>5. CASE StreamEnds(f)
    BY <1>1, <2>5 DEF StreamEnds, FeedInv, FeedTypeOK
  <2>6. QED
    BY <1>5, <2>1, <2>2, <2>3, <2>4, <2>5 DEF FeedAdvances
<1>6. QED
  BY <1>2, <1>3, <1>4, <1>5 DEF FeedNext

-----------------------------------------------------------------------------
(***************************************************************************)
(* The option chain: the lock is given up by nobody but its holder.        *)
(*                                                                         *)
(* Why it holds: values are unique.  Two services never hold the same one, *)
(* so a service whose own value is not in the key cannot delete it.        *)
(***************************************************************************)

Service == [pc : {"idle", "locked", "fetched", "releasing"}, held : Nat, seen : Nat]

LockInv ==
  /\ refreshes \in 0..MaxRefreshes /\ expiries \in 0..MaxExpiries
  /\ lock \in 0..refreshes /\ analysis \in 0..refreshes
  /\ service \in [Services -> Service]
  /\ \A s \in Services : /\ service[s].held <= refreshes /\ service[s].seen <= refreshes
                         /\ service[s].held = 0 => service[s].pc = "idle"
  /\ \A s, t \in Services : service[s].held = service[t].held => s = t \/ service[s].held = 0

LEMMA LockInitially == ASSUME ChainAssumption, ChainInit PROVE LockInv
<1>1. [pc |-> "idle", held |-> 0, seen |-> 0] \in Service
  BY DEF Service
<1>2. QED
  BY <1>1 DEF ChainInit, LockInv, ChainAssumption

\* A service's new state, which holds nothing, what it held, or a value nobody has had.
LEMMA ServiceMoves ==
  ASSUME ChainAssumption, LockInv, NEW s \in Services, NEW r \in Service, service' = [service EXCEPT ![s] = r],
         refreshes' \in 0..MaxRefreshes, refreshes <= refreshes', UNCHANGED expiries,
         lock' \in 0..refreshes', analysis' \in 0..refreshes',
         r.held = 0 => r.pc = "idle", r.held <= refreshes', r.seen <= refreshes',
         r.held = 0 \/ r.held = service[s].held \/ r.held > refreshes
  PROVE  LockInv'
<1>0. refreshes \in Nat /\ refreshes' \in Nat
  BY DEF LockInv, ChainAssumption
<1>1. service' \in [Services -> Service]
  BY DEF LockInv
<1>2. \A t \in Services : service'[t] = IF t = s THEN r ELSE service[t]
  BY DEF LockInv
<1>3. \A t \in Services : service[t] \in Service /\ service[t].held \in Nat /\ service[t].seen \in Nat
  BY DEF LockInv, Service
<1>4. \A t \in Services : /\ service'[t].held <= refreshes' /\ service'[t].seen <= refreshes'
                          /\ service'[t].held = 0 => service'[t].pc = "idle"
  BY <1>0, <1>2, <1>3 DEF LockInv
<1>5. \A t, u \in Services : service'[t].held = service'[u].held => t = u \/ service'[t].held = 0
  BY <1>0, <1>2, <1>3 DEF LockInv
<1>6. QED
  BY <1>1, <1>4, <1>5 DEF LockInv

LEMMA LockSteps == ASSUME ChainAssumption, LockInv, ChainNext PROVE LockInv'
<1>0. /\ refreshes \in 0..MaxRefreshes /\ refreshes \in Nat /\ MaxRefreshes \in Nat /\ refreshes <= refreshes
      /\ lock \in 0..refreshes /\ analysis \in 0..refreshes
      /\ \A s \in Services : /\ service[s] \in Service /\ service[s].held \in Nat /\ service[s].seen \in Nat
                             /\ service[s].held <= refreshes /\ service[s].seen <= refreshes
  BY DEF LockInv, Service, ChainAssumption
<1>1. ASSUME NEW s \in Services, Acquire(s) PROVE LockInv'
  <2>1. PICK r : r = [service[s] EXCEPT !.pc = "locked", !.held = refreshes + 1]
    OBVIOUS
  <2>2. /\ service' = [service EXCEPT ![s] = r] /\ refreshes' = refreshes + 1 /\ lock' = refreshes + 1
        /\ UNCHANGED <<analysis, expiries>> /\ refreshes < MaxRefreshes
    BY <1>1, <2>1 DEF Acquire, LockInv
  <2>3. r \in Service /\ r.held = refreshes + 1 /\ r.seen = service[s].seen
    <3>1. PICK x, n : x = service[s] /\ n = refreshes + 1
      OBVIOUS
    <3>2. x \in Service /\ n \in Nat /\ r = [x EXCEPT !.pc = "locked", !.held = n]
      BY <1>0, <2>1, <3>1
    <3>3. r \in Service /\ r.held = n /\ r.seen = x.seen
      BY <3>2 DEF Service
    <3>4. QED
      BY <3>1, <3>3
  <2>4. /\ refreshes' \in 0..MaxRefreshes /\ refreshes <= refreshes' /\ lock' \in 0..refreshes'
        /\ analysis' \in 0..refreshes'
        /\ r.held # 0 /\ r.held <= refreshes' /\ r.held > refreshes /\ r.seen <= refreshes'
    BY <1>0, <2>2, <2>3
  <2>5. QED
    BY <2>2, <2>3, <2>4, ServiceMoves
<1>2. ASSUME NEW s \in Services, FetchChain(s) PROVE LockInv'
  <2>1. PICK next \in {"fetched", "releasing"} : service' = [service EXCEPT ![s].pc = next]
    BY <1>2 DEF FetchChain
  <2>2. PICK r : r = [service[s] EXCEPT !.pc = next]
    OBVIOUS
  <2>3. service' = [service EXCEPT ![s] = r]
    BY <2>1, <2>2
  <2>4. r \in Service /\ r.held = service[s].held /\ service[s].held # 0 /\ r.seen = service[s].seen
    BY <1>0, <1>2, <2>2 DEF Service, FetchChain, LockInv
  <2>5. UNCHANGED <<lock, analysis, refreshes, expiries>>
    BY <1>2 DEF FetchChain
  <2>6. QED
    BY <1>0, <2>3, <2>4, <2>5, ServiceMoves
<1>3. ASSUME NEW s \in Services, Analyze(s) PROVE LockInv'
  <2>1. PICK r : r = [service[s] EXCEPT !.pc = "releasing", !.seen = service[s].held]
    OBVIOUS
  <2>2. /\ service' = [service EXCEPT ![s] = r] /\ analysis' \in {analysis, service[s].held}
        /\ UNCHANGED <<lock, refreshes, expiries>>
    BY <1>3, <2>1 DEF Analyze, LockInv
  <2>3. r \in Service /\ r.held = service[s].held /\ service[s].held # 0 /\ r.seen = service[s].held
    BY <1>0, <1>3, <2>1 DEF Service, Analyze, LockInv
  <2>4. analysis' \in 0..refreshes'
    BY <1>0, <2>2
  <2>5. QED
    BY <1>0, <2>2, <2>3, <2>4, ServiceMoves
<1>4. ASSUME NEW s \in Services, Release(s) PROVE LockInv'
  <2>1. PICK r : r = [service[s] EXCEPT !.pc = "idle", !.held = 0]
    OBVIOUS
  <2>2. /\ service' = [service EXCEPT ![s] = r] /\ lock' \in {0, lock} /\ UNCHANGED <<analysis, refreshes, expiries>>
    BY <1>4, <2>1 DEF Release, LockInv
  <2>3. r \in Service /\ r.held = 0 /\ r.pc = "idle" /\ r.seen = service[s].seen
    BY <1>0, <2>1 DEF Service
  <2>4. lock' \in 0..refreshes' /\ r.held <= refreshes'
    BY <1>0, <2>2, <2>3
  <2>5. QED
    BY <1>0, <2>2, <2>3, <2>4, ServiceMoves
<1>5. ASSUME NEW s \in Services, CrashService(s) PROVE LockInv'
  <2>1. PICK r : r = [pc |-> "idle", held |-> 0, seen |-> 0]
    OBVIOUS
  <2>2. service' = [service EXCEPT ![s] = r] /\ UNCHANGED <<lock, analysis, refreshes, expiries>>
    BY <1>5, <2>1 DEF CrashService
  <2>3. r \in Service /\ r.held = 0 /\ r.pc = "idle" /\ r.seen = 0
    BY <2>1 DEF Service
  <2>4. r.held <= refreshes' /\ r.seen <= refreshes'
    BY <1>0, <2>2, <2>3
  <2>5. QED
    BY <1>0, <2>2, <2>3, <2>4, ServiceMoves
<1>6. CASE Expire
  <2>1. expiries' \in 0..MaxExpiries
    BY <1>6 DEF LockInv, Expire, ChainAssumption
  <2>2. QED
    BY <1>6, <2>1 DEF LockInv, Expire
<1>7. QED
  BY <1>1, <1>2, <1>3, <1>4, <1>5, <1>6 DEF ChainNext

\* What LockKept says of one step.
KeepsLock ==
  \A s \in Services :
    service[s].held # 0 /\ service[s].held = lock /\ service'[s].held = lock
      => lock' = lock \/ expiries' > expiries

LEMMA StepKeepsLock == ASSUME ChainAssumption, LockInv, ChainNext PROVE KeepsLock
<1> SUFFICES ASSUME NEW s \in Services,
                    service[s].held # 0, service[s].held = lock, service'[s].held = lock
             PROVE  lock' = lock \/ expiries' > expiries
  BY DEF KeepsLock
<1>1. ASSUME NEW t \in Services, Acquire(t) PROVE FALSE
  BY <1>1 DEF Acquire
<1>2. ASSUME NEW t \in Services, FetchChain(t) \/ Analyze(t) \/ CrashService(t) PROVE lock' = lock
  BY <1>2 DEF FetchChain, Analyze, CrashService
<1>3. ASSUME NEW t \in Services, Release(t) PROVE lock' = lock
  <2>1. service'[t].held = 0
    BY <1>3 DEF Release, LockInv, Service
  <2>2. t # s
    BY <2>1
  <2>3. service[t].held # lock
    BY <2>2 DEF LockInv
  <2>4. QED
    BY <1>3, <2>3 DEF Release
<1>4. CASE Expire
  BY <1>4 DEF Expire, LockInv
<1>5. QED
  BY <1>1, <1>2, <1>3, <1>4 DEF ChainNext

LEMMA ChainSays == ASSUME ChainAssumption, LockInv PROVE ChainTypeOK
<1>1. /\ refreshes \in 0..MaxRefreshes /\ refreshes \in Nat /\ MaxRefreshes \in Nat
      /\ lock \in 0..refreshes /\ analysis \in 0..refreshes /\ expiries \in 0..MaxExpiries
  BY DEF LockInv, ChainAssumption
<1>2. {lock, analysis, refreshes} \subseteq 0..MaxRefreshes
  BY <1>1
<1>3. ASSUME NEW s \in Services
      PROVE  service[s] \in [pc : {"idle", "locked", "fetched", "releasing"},
                             held : 0..MaxRefreshes, seen : 0..MaxRefreshes]
  <2>1. service[s] \in Service /\ service[s].held <= refreshes /\ service[s].seen <= refreshes
    BY DEF LockInv
  <2>2. service[s].held \in 0..MaxRefreshes /\ service[s].seen \in 0..MaxRefreshes
    BY <1>1, <2>1 DEF Service
  <2>3. QED
    BY <2>1, <2>2 DEF Service
<1>4. service \in [Services -> Service]
  BY DEF LockInv
<1>5. QED
  BY <1>1, <1>2, <1>3, <1>4 DEF ChainTypeOK

-----------------------------------------------------------------------------
(* All the parts.                                                          *)

MarketInv ==
  /\ StructureInv /\ PremiumInv /\ (which = "premium" => TrendInv)
  /\ UnderlyingInv /\ (which = "underlying" => BreaksInv)
  /\ CandleInv /\ SeriesInv /\ FeedInv /\ LockInv

LEMMA MarketBegins == ASSUME MCInit PROVE MarketInv
<1>1. StructureInv
  BY StructureBegins, SwingsAssumption DEF MCInit
<1>2. PremiumInv /\ TrendInv
  BY PremiumBegins DEF MCInit
<1>3. UnderlyingInv /\ BreaksInv
  <2>1. Len(bars) = 0 /\ streak = [s \in Sides |-> 0]
    BY EmptySeq DEF MCInit, StructureInit, UnderlyingInit
  <2>2. UnderlyingInv
    BY <2>1 DEF UnderlyingInv
  <2>3. QED
    BY <2>2, BreaksBegin DEF MCInit
<1>4. CandleInv
  BY CandleBegins, CandleAssumption DEF MCInit
<1>5. SeriesInv /\ FeedInv /\ LockInv
  BY SeriesBegins, FeedBegins, LockInitially, ChainAssumption DEF MCInit
<1>6. QED
  BY <1>1, <1>2, <1>3, <1>4, <1>5 DEF MarketInv

\* A part that does not move keeps its invariant.
LEMMA StructureStays == ASSUME StructureInv, UNCHANGED structureVars PROVE StructureInv'
BY DEF StructureInv, structureVars

LEMMA PremiumStays == ASSUME PremiumInv, UNCHANGED bars, UNCHANGED premiumVars PROVE PremiumInv'
BY DEF PremiumInv, premiumVars, RecoveryInPullback

LEMMA TrendStays == ASSUME TrendInv, UNCHANGED structureVars, UNCHANGED premiumVars PROVE TrendInv'
BY DEF TrendInv, structureVars, premiumVars, TrendProtected

LEMMA UnderlyingStays ==
  ASSUME UnderlyingInv, UNCHANGED underlyingVars, UNCHANGED bars
  PROVE  UnderlyingInv'
BY DEF UnderlyingInv, underlyingVars

LEMMA BreaksStay == ASSUME BreaksInv, UNCHANGED structureVars PROVE BreaksInv'
BY DEF BreaksInv, structureVars

LEMMA CandlesStay == ASSUME CandleInv, UNCHANGED candleVars PROVE CandleInv'
BY DEF CandleInv, candleVars, BarsBefore, MinutesBefore

LEMMA SeriesStays == ASSUME SeriesInv, UNCHANGED seriesVars PROVE SeriesInv'
BY DEF SeriesInv, seriesVars, SeriesTypeOK

LEMMA FeedStays == ASSUME FeedInv, UNCHANGED feedVars PROVE FeedInv'
BY DEF FeedInv, feedVars, FeedTypeOK

LEMMA LockStays == ASSUME LockInv, UNCHANGED chainVars PROVE LockInv'
BY DEF LockInv, chainVars

LEMMA MarketStep == ASSUME MarketInv, [MCNext]_allVars PROVE MarketInv'
<1>1. /\ StructureInv /\ PremiumInv /\ (which = "premium" => TrendInv)
      /\ UnderlyingInv /\ (which = "underlying" => BreaksInv)
      /\ CandleInv /\ SeriesInv /\ FeedInv /\ LockInv
  BY DEF MarketInv
<1>2. UNCHANGED which
  BY DEF MCNext, allVars
<1>3. ASSUME UNCHANGED structureVars PROVE UNCHANGED bars
  BY <1>3 DEF structureVars
<1>4. CASE which = "premium" /\ PremiumNext
           /\ UNCHANGED <<underlyingVars, candleVars, seriesVars, feedVars, chainVars>>
  <2>1. StructureInv' /\ PremiumInv' /\ TrendInv'
    BY <1>1, <1>4, PremiumStep, SwingsAssumption
  <2>2. UnderlyingInv'
    <3>1. PICK c \in Fed : bars' = Append(bars, c)
      BY <1>4 DEF PremiumNext, PremiumUpdate
    <3>2. Len(bars) \in Nat /\ Len(bars') = Len(bars) + 1
      BY <1>1, <3>1, FedAreCandles, Appended, SwingsAssumption DEF StructureInv
    <3>3. QED
      BY <1>1, <1>4, <3>2 DEF UnderlyingInv, underlyingVars
  <2>3. CandleInv' /\ SeriesInv' /\ FeedInv' /\ LockInv'
    BY <1>1, <1>4, CandlesStay, SeriesStays, FeedStays, LockStays
  <2>4. which' # "underlying"
    BY <1>2, <1>4
  <2>5. QED
    BY <2>1, <2>2, <2>3, <2>4 DEF MarketInv
<1>5. CASE which = "underlying" /\ UnderlyingNext
           /\ UNCHANGED <<premiumVars, candleVars, seriesVars, feedVars, chainVars>>
  <2>1. StructureInv' /\ PremiumInv' /\ UnderlyingInv'
    BY <1>1, <1>5, UnderlyingStep, SwingsAssumption
  <2>2. BreaksInv'
    BY <1>1, <1>5, <2>1, BreaksStep, SwingsAssumption
  <2>3. CandleInv' /\ SeriesInv' /\ FeedInv' /\ LockInv'
    BY <1>1, <1>5, CandlesStay, SeriesStays, FeedStays, LockStays
  <2>4. QED
    BY <1>2, <1>5, <2>1, <2>2, <2>3 DEF MarketInv
<1>6. ASSUME UNCHANGED <<structureVars, premiumVars, underlyingVars>>
      PROVE  /\ StructureInv' /\ PremiumInv' /\ (which' = "premium" => TrendInv')
             /\ UnderlyingInv' /\ (which' = "underlying" => BreaksInv')
  BY <1>1, <1>2, <1>3, <1>6, StructureStays, PremiumStays, TrendStays, UnderlyingStays, BreaksStay
<1>7. CASE CandleNext
           /\ UNCHANGED <<structureVars, premiumVars, underlyingVars, seriesVars, feedVars, chainVars>>
  BY <1>1, <1>6, <1>7, CandleStep, CandleAssumption, SeriesStays, FeedStays, LockStays DEF MarketInv
<1>8. CASE SeriesNext
           /\ UNCHANGED <<structureVars, premiumVars, underlyingVars, candleVars, feedVars, chainVars>>
  BY <1>1, <1>6, <1>8, SeriesStep, CandlesStay, FeedStays, LockStays DEF MarketInv
<1>9. CASE FeedNext
           /\ UNCHANGED <<structureVars, premiumVars, underlyingVars, candleVars, seriesVars, chainVars>>
  BY <1>1, <1>6, <1>9, FeedStep, CandlesStay, SeriesStays, LockStays DEF MarketInv
<1>10. CASE ChainNext
            /\ UNCHANGED <<structureVars, premiumVars, underlyingVars, candleVars, seriesVars, feedVars>>
  BY <1>1, <1>6, <1>10, LockSteps, ChainAssumption, CandlesStay, SeriesStays, FeedStays DEF MarketInv
<1>11. CASE UNCHANGED allVars
  <2>1. UNCHANGED <<structureVars, premiumVars, underlyingVars, candleVars, seriesVars, feedVars, chainVars>>
    BY <1>11 DEF allVars
  <2>2. QED
    BY <1>1, <1>6, <2>1, CandlesStay, SeriesStays, FeedStays, LockStays DEF MarketInv
<1>12. QED
  BY <1>4, <1>5, <1>7, <1>8, <1>9, <1>10, <1>11 DEF MCNext

LEMMA MarketSays == ASSUME MarketInv PROVE MarketSound /\ StructureExact
<1>1. SwingsExact /\ ZonesHonest /\ Len(bars) \in Nat
  BY StructureSays, SwingsAssumption DEF MarketInv
<1>2. PremiumTypeOK /\ RecoveryInPullback
  <2>1. PremiumInv
    BY DEF MarketInv
  <2>2. PremiumTypeOK
    BY <1>1, <2>1 DEF PremiumInv, PremiumTypeOK, PullRows, RecoveryRows
  <2>3. QED
    BY <2>1, <2>2 DEF PremiumInv
<1>3. UnderlyingTypeOK
  <2>1. UnderlyingInv
    BY DEF MarketInv
  <2>2. QED
    BY <1>1, <2>1 DEF UnderlyingInv, UnderlyingTypeOK
<1>4. CandleTypeOK /\ BarsAscending
  BY CandlesSay DEF MarketInv
<1>5. SeriesTypeOK /\ FeedTypeOK /\ ChainTypeOK
  BY ChainSays, ChainAssumption DEF MarketInv, SeriesInv, FeedInv
<1>6. MarketSound
  BY <1>2, <1>3, <1>4, <1>5 DEF MarketSound, MarketTypeOK
<1>7. which = "premium" => TrendProtected
  BY DEF MarketInv, TrendInv
<1>8. QED
  BY <1>1, <1>2, <1>6, <1>7 DEF StructureExact

\* The parts that make and read market data keep, together, an invariant that every step of
\* any of them preserves: it is what the theorems below rest on.
THEOREM MarketInvariant == MCSpec => []MarketInv
<1>1. MCInit => MarketInv
  BY MarketBegins
<1>2. MarketInv /\ [MCNext]_allVars => MarketInv'
  BY MarketStep
<1>3. QED
  BY <1>1, <1>2, PTL DEF MCSpec

\* Of the shared candles (candle_builder.py) each minute has at most one bar, in order and
\* before the developing one, in every builder's memory and in Redis, for any number of
\* builders, of stops, of crashes and of saves; and every part's variables are of their types.
THEOREM MarketSoundHolds == MCSpec => []MarketSound
<1>1. MarketInv => MarketSound
  BY MarketSays
<1>2. QED
  BY <1>1, MarketInvariant, PTL

\* For any candles and any windows, what the structure engines (market_structure.py,
\* underlying_market_structure.py) keep candle by candle is what the whole history says: the
\* swings, the zones and their mitigation; and in the premium engine no trend survives a
\* close beyond the level that protects it, and no recovery its pullback.
THEOREM StructureExactHolds == MCSpec => []StructureExact
<1>1. MarketInv => StructureExact
  BY MarketSays
<1>2. QED
  BY <1>1, MarketInvariant, PTL

\* In the underlying's engine a break that is marked as failed did fail, for any candles, any
\* windows and any span in which a break may fail: within it a candle closed back beyond the
\* level (underlying_market_structure.py:1150-1187), although the marking looks breaks up by
\* their place in a list.  And a break is marked if a candle closed back while the engine
\* looked: at a break among the last five, with a major swing in reach on both sides.
THEOREM FailedBreaksHold == MCSpec => []FailedBreaksKnown
<1>1. MarketInv => FailedBreaksKnown
  BY DEF MarketInv, BreaksInv, RealBreaks, RealBreak, FailedBreaksKnown, FailuresReal, FailuresNoticed
<1>2. QED
  BY <1>1, MarketInvariant, PTL

\* For any number of services, refreshes and expiries, no service takes the option chain's
\* lock (dist_locks.py) from another: only its holder, and the key's own time to live, end it.
THEOREM LockIsKept == MCSpec => LockKept
<1>1. MarketInv /\ [MCNext]_allVars => [KeepsLock]_chainVars
  <2> SUFFICES ASSUME MarketInv, [MCNext]_allVars PROVE [KeepsLock]_chainVars
    OBVIOUS
  <2>1. CASE ChainNext
    BY <2>1, StepKeepsLock, ChainAssumption DEF MarketInv
  <2>2. CASE UNCHANGED chainVars
    BY <2>2
  <2>3. QED
    BY <2>1, <2>2 DEF MCNext, allVars
<1>2. LockKept <=> [][KeepsLock]_chainVars
  BY DEF LockKept, KeepsLock
<1>3. QED
  BY <1>1, <1>2, MarketInvariant, PTL DEF MCSpec
=============================================================================

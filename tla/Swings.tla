------------------------------- MODULE Swings -------------------------------
(***************************************************************************)
(* What the two market-structure engines have in common: the candles they  *)
(* have been fed, the swing points found in them, and the supply and       *)
(* demand zones left at the swings (backend/engine/market_structure.py and *)
(* backend/engine/underlying_market_structure.py).                         *)
(*                                                                         *)
(* A swing is confirmed late: a minor one MinorW candles after it, a major *)
(* one MajorW candles after it, by marking the minor one.  A side is "up"  *)
(* (swing highs, supply) or "down" (swing lows, demand).  Positions count  *)
(* from 1; prices are integers, and two prices that the code takes for the *)
(* same within a thousandth are equal; the open, the volume and the scores *)
(* that are computed from them decide nothing here and are left out.  The  *)
(* lists of breaks are cut at 20 and 30 in the code, which no instance     *)
(* reaches.                                                                *)
(***************************************************************************)
EXTENDS Integers, Sequences

CONSTANTS
  MinorW, MajorW,   \* confirmation windows: 2 and 5 in the code
  MaxSwings,        \* a list of swings keeps so many: 30 in the code
  Candles,          \* records [high, low, close]
  Openings,         \* the first candles come from one of these sequences...
  MaxFree           \* bound: ...and are followed by so many of any kind

ASSUME SwingsAssumption ==
  /\ MinorW \in Nat \ {0} /\ MajorW \in Nat /\ MinorW <= MajorW
  /\ MaxSwings \in Nat \ {0} /\ MajorW - MinorW < MaxSwings /\ MaxFree \in Nat
  /\ Candles \subseteq [high : Int, low : Int, close : Int]
  /\ \A c \in Candles : c.low <= c.close /\ c.close <= c.high
  /\ Openings \subseteq Seq(Candles)

VARIABLES
  bars,     \* the candles, the last one just fed
  swings,   \* for each side, the swings found, oldest first
  zones,    \* supply and demand zones, oldest first
  breaks,   \* breaks of structure and changes of character, oldest first
  protected \* for each side, <<price>> of the level that ends a trend to it, or <<>>

structureVars == <<bars, swings, zones, breaks, protected>>

Sides == {"up", "down"}
Other(s) == IF s = "up" THEN "down" ELSE "up"

Beyond(s, x, y) == IF s = "up" THEN x > y ELSE x < y
Edge(s, c) == IF s = "up" THEN c.high ELSE c.low

\* The latest n elements of a sequence.
LastOf(q, n) == IF Len(q) > n THEN SubSeq(q, Len(q) - n + 1, Len(q)) ELSE q

Now == Len(bars')
Close == bars'[Now].close

\* Candles the next update may be fed: the rest of an opening, then any.
Fed ==
  LET fits(o) == \A i \in DOMAIN bars \cap DOMAIN o : bars[i] = o[i]
      n == Len(bars)
  IN  {o[n + 1] : o \in {p \in Openings : fits(p) /\ n < Len(p)}}
      \cup {c \in Candles : \E o \in Openings : fits(o) /\ n \in Len(o) .. Len(o) + MaxFree - 1}

StructureInit ==
  /\ bars = <<>> /\ swings = [s \in Sides |-> <<>>] /\ zones = <<>>
  /\ breaks = <<>> /\ protected = [s \in Sides |-> <<>>]

-----------------------------------------------------------------------------
\* No candle within w of p goes further, and none after it as far.
IsSwing(bs, s, p, w) ==
  /\ p - w >= 1 /\ p + w <= Len(bs)
  /\ \A k \in 1..w : /\ ~Beyond(s, Edge(s, bs[p - k]), Edge(s, bs[p]))
                     /\ Beyond(s, Edge(s, bs[p]), Edge(s, bs[p + k]))

Swing(bs, s, p, m) == [at |-> p, price |-> Edge(s, bs[p]), major |-> m]

AddMinor(bs, s, q) ==
  LET p == Len(bs) - MinorW
  IN  IF IsSwing(bs, s, p, MinorW) /\ \A i \in DOMAIN q : q[i].at # p
      THEN LastOf(Append(q, Swing(bs, s, p, FALSE)), MaxSwings) ELSE q

\* For mutation: the minor swing at the position is not looked for.
AddMajor(bs, s, q) ==
  LET p == Len(bs) - MajorW
  IN  IF IsSwing(bs, s, p, MajorW) THEN LastOf(Append(q, Swing(bs, s, p, TRUE)), MaxSwings) ELSE q

MarkMajor(bs, s, q) ==
  LET p == Len(bs) - MajorW
  IN  IF ~IsSwing(bs, s, p, MajorW) THEN q
      ELSE IF \E i \in DOMAIN q : q[i].at = p
           THEN [i \in DOMAIN q |-> IF q[i].at = p THEN [q[i] EXCEPT !.major = TRUE] ELSE q[i]]
           ELSE LastOf(Append(q, Swing(bs, s, p, TRUE)), MaxSwings)

DetectSwings ==
  swings' = [s \in Sides |-> MarkMajor(bars', s, AddMinor(bars', s, swings[s]))]

\* A new minor swing leaves a zone; `at` is a history field.
NewZone(s) ==
  LET p == Len(bars') - MinorW
  IN  IF IsSwing(bars', s, p, MinorW) /\ \A i \in DOMAIN swings[s] : swings[s][i].at # p
      THEN <<[side |-> s, at |-> p, edge |-> Edge(s, bars'[p]), mitigated |-> FALSE]>>
      ELSE <<>>

Mitigated(zs) ==
  [i \in DOMAIN zs |-> [zs[i] EXCEPT !.mitigated = @ \/ Beyond(zs[i].side, Close, zs[i].edge)]]

\* The last major swing of a side in a list of swings: none is position 0.
LastMajor(q) ==
  LET m == {i \in DOMAIN q : q[i].major}
  IN  IF m = {} THEN [at |-> 0, price |-> 0, major |-> TRUE] ELSE q[CHOOSE i \in m : \A j \in m : j <= i]

Major(s) == LastMajor(swings'[s])
BothMajors == \A s \in Sides : Major(s).at > 0

Break(type, s, level) == [type |-> type, side |-> s, at |-> Now, level |-> level, failed |-> FALSE]

\* The level that protects a trend to side s: the furthest swing of the other side up to p.
Protected(s, p, old) ==
  LET before == {i \in DOMAIN swings'[Other(s)] : swings'[Other(s)][i].at <= p}
      best == CHOOSE i \in before : \A j \in before :
                ~Beyond(Other(s), swings'[Other(s)][j].price, swings'[Other(s)][i].price)
  IN  IF before = {} THEN old ELSE <<swings'[Other(s)][best].price>>

-----------------------------------------------------------------------------
(* Reference: the swings of the whole history at once.                     *)

Confirmed(bs, s) == {p \in DOMAIN bs : IsSwing(bs, s, p, MinorW)}

\* A list holds the latest swings of the whole history, in order, the major ones marked.
Exact(bs, s, q) ==
  /\ Len(q) <= MaxSwings
  /\ \A i, j \in DOMAIN q : i < j => q[i].at < q[j].at
  /\ \A i \in DOMAIN q : /\ q[i].at \in Confirmed(bs, s)
                         /\ q[i] = Swing(bs, s, q[i].at, IsSwing(bs, s, q[i].at, MajorW))
  /\ \A p \in Confirmed(bs, s) :
       (\E i \in DOMAIN q : q[i].at = p) \/ (Len(q) = MaxSwings /\ p < q[1].at)

\* The lists kept candle by candle are the latest swings of the whole history: no swing is
\* missed, found twice or out of place by the two windows.
SwingsExact == \A s \in Sides : Exact(bars, s, swings[s])

\* A zone is mitigated if and only if some candle after its swing closed beyond it,
\* although it is only registered MinorW candles after that swing.
ZonesHonest ==
  \A i \in DOMAIN zones :
    zones[i].mitigated <=> \E k \in zones[i].at + 1 .. Len(bars) :
                             Beyond(zones[i].side, bars[k].close, zones[i].edge)
=============================================================================

------------------------- MODULE RiskTrackerProofs -------------------------
(***************************************************************************)
(* Proofs about RiskTracker for any finite set of symbol engines, any      *)
(* limits, any P&L values and any number of days and approvals.            *)
(***************************************************************************)
EXTENDS RiskTracker, FiniteSetTheorems, TLAPS

(***************************************************************************)
(* The strengthenings.  EntryBound alone is not inductive: what bounds the *)
(* overshoot is the sum of the entries recorded and of the engines that    *)
(* may still enter on a check they have passed.                            *)
(***************************************************************************)
EntryInv ==
  tradesToday + Cardinality(Fresh) <= MaxTrades - 1 + Cardinality(Engines) + bypassed

LossInv ==
  /\ netPnl > -MaxLoss => lateEntries = 0
  /\ netPnl <= -MaxLoss => lateEntries + Cardinality(Fresh) <= Cardinality(Engines)

AlertInv ==
  \A d \in Days, kind \in Breaches :
    /\ alerts[d][kind] <= 1
    /\ alerts[d][kind] # 0 => d < lastDate \/ (d = lastDate /\ kind \in alerted)

RiskInv == TypeOK /\ EntryInv /\ LossInv /\ AlertInv

-----------------------------------------------------------------------------
(* The number of engines past a check, as one of them joins or leaves. *)

\* Fresh is a finite subset of Engines, so its size is at most theirs.
LEMMA FreshSize ==
  ASSUME RiskAssumption
  PROVE  /\ IsFiniteSet(Fresh)
         /\ Cardinality(Fresh) \in Nat
         /\ Cardinality(Engines) \in Nat \ {0}
         /\ Cardinality(Fresh) <= Cardinality(Engines)
<1>1. Fresh \subseteq Engines /\ IsFiniteSet(Engines) /\ Engines # {}
  BY DEF RiskAssumption, Fresh
<1>2. IsFiniteSet(Fresh) /\ Cardinality(Fresh) <= Cardinality(Engines)
  BY <1>1, FS_Subset
<1>3. Cardinality(Engines) # 0
  BY <1>1, FS_EmptySet
<1>4. QED
  BY <1>1, <1>2, <1>3, FS_CardinalityType

\* An engine that is not past a check leaves room for one less.
LEMMA FreshStrict ==
  ASSUME RiskAssumption, NEW e \in Engines, e \notin Fresh
  PROVE  Cardinality(Fresh) <= Cardinality(Engines) - 1
<1>1. Fresh \subseteq Engines /\ IsFiniteSet(Engines) /\ Fresh # Engines
  BY DEF RiskAssumption, Fresh
<1>2. Cardinality(Fresh) # Cardinality(Engines)
  BY <1>1, FS_Subset
<1>3. QED
  BY <1>2, FreshSize

\* Sizes after e joins or leaves.
LEMMA FreshCount ==
  ASSUME RiskAssumption, NEW e \in Engines
  PROVE  /\ e \notin Fresh => Cardinality(Fresh \cup {e}) = Cardinality(Fresh) + 1
         /\ e \in Fresh => Cardinality(Fresh \ {e}) = Cardinality(Fresh) - 1
         /\ Cardinality(Fresh \ {e}) <= Cardinality(Fresh)
         /\ Cardinality(Fresh \ {e}) \in Nat
<1>1. IsFiniteSet(Fresh) /\ Cardinality(Fresh) \in Nat
  BY FreshSize
<1>2. /\ Cardinality(Fresh \cup {e}) =
           IF e \in Fresh THEN Cardinality(Fresh) ELSE Cardinality(Fresh) + 1
      /\ Cardinality(Fresh \ {e}) =
           IF e \in Fresh THEN Cardinality(Fresh) - 1 ELSE Cardinality(Fresh)
  BY <1>1, FS_AddElement, FS_RemoveElement
<1>3. IsFiniteSet(Fresh \ {e})
  BY <1>1, FS_RemoveElement
<1>4. Cardinality(Fresh \ {e}) \in Nat
  BY <1>3, FS_CardinalityType
<1>5. QED
  BY <1>1, <1>2, <1>4

-----------------------------------------------------------------------------
(* The initial states, then one lemma per part of RiskInv. *)

LEMMA RiskInit == ASSUME RiskAssumption, Init PROVE RiskInv
<1>1. TypeOK
  BY DEF Init, RiskAssumption, TypeOK, Days, Stages
<1>2. Fresh = {}
  BY DEF Init, Fresh
<1>3. Cardinality(Fresh) = 0
  BY <1>2, FS_EmptySet
<1>4. EntryInv /\ LossInv
  BY <1>3, FreshSize DEF Init, EntryInv, LossInv, RiskAssumption
<1>5. AlertInv
  BY DEF Init, AlertInv
<1>6. QED
  BY <1>1, <1>4, <1>5 DEF RiskInv

\* Type correctness is inductive on its own.
LEMMA RiskTypes ==
  ASSUME RiskAssumption, TypeOK, [Next]_vars
  PROVE  TypeOK'
<1> USE DEF RiskAssumption, TypeOK, Days, Stages, Trades, Pnl, Alerted, Current, Rolled,
            KeepTrades, KeepPnl, KeepAlerts, counters, bar, trades, history
<1>1. CASE NewDay
  BY <1>1 DEF NewDay
<1>2. CASE Snapshot
  BY <1>2 DEF Snapshot
<1>3. ASSUME NEW e \in Engines, Check(e) PROVE TypeOK'
  <2>1. ASSUME NEW kind \in Breaches, Breach(kind)
        PROVE  alerted' \subseteq Breaches /\ alerts' \in [Days -> [Breaches -> Nat]]
    BY <2>1 DEF Breach
  <2>2. KeepAlerts => alerted' \subseteq Breaches
    OBVIOUS
  <2>3. alerted' \subseteq Breaches /\ alerts' \in [Days -> [Breaches -> Nat]]
    BY <1>3, <2>1, <2>2 DEF Check, Breaches
  <2>4. /\ stage' \in [Engines -> Stages]
        /\ left' \in [Engines -> 0..Strategies]
        /\ spent' \subseteq Engines
    <3>1. CASE UNCHANGED bar
      BY <3>1
    <3>2. CASE /\ stage' = [stage EXCEPT ![e] = "eval"]
               /\ left' = [left EXCEPT ![e] = Strategies]
               /\ spent' = spent \ {e}
      BY <3>2
    <3>3. QED
      BY <1>3, <3>1, <3>2 DEF Check, Breach
  <2>5. QED
    BY <1>3, <2>3, <2>4 DEF Check
<1>4. ASSUME NEW e \in Engines, Fire(e) PROVE TypeOK'
  BY <1>4 DEF Fire
<1>5. ASSUME NEW e \in Engines, Abandon(e) \/ EndBar(e) PROVE TypeOK'
  <2>1. CASE Abandon(e)
    BY <2>1 DEF Abandon
  <2>2. CASE EndBar(e)
    BY <2>2 DEF EndBar
  <2>3. QED
    BY <1>5, <2>1, <2>2
<1>6. ASSUME NEW e \in Engines, RecordEntry(e) PROVE TypeOK'
  BY <1>6 DEF RecordEntry
<1>7. ASSUME NEW e \in Engines, ApprovedEntry(e) PROVE TypeOK'
  BY <1>7 DEF ApprovedEntry
<1>8. ASSUME NEW e \in Engines, BeginExit(e) \/ LoseExit(e) PROVE TypeOK'
  <2>1. CASE BeginExit(e)
    BY <2>1 DEF BeginExit
  <2>2. CASE LoseExit(e)
    BY <2>2 DEF LoseExit
  <2>3. QED
    BY <1>8, <2>1, <2>2
<1>9. ASSUME NEW e \in Engines, NEW pnl \in PnLs, RecordExit(e, pnl) PROVE TypeOK'
  BY <1>9 DEF RecordExit
<1>10. CASE UNCHANGED vars
  BY <1>10 DEF vars
<1>11. QED
  BY <1>1, <1>2, <1>3, <1>4, <1>5, <1>6, <1>7, <1>8, <1>9, <1>10 DEF Next

-----------------------------------------------------------------------------
(* The engines past a check, action by action. *)

\* Only a check that passes adds an engine; an entry and the end of a bar
\* take one away; everything else leaves them alone.
LEMMA FreshSteps ==
  ASSUME RiskAssumption, TypeOK, NEW e \in Engines
  PROVE  /\ Check(e) => \/ UNCHANGED Fresh
                        \/ ~TradeCapHit /\ ~LossHit /\ e \notin Fresh /\ Fresh' = Fresh \cup {e}
         /\ Fire(e) \/ Abandon(e) => UNCHANGED Fresh
         /\ RecordEntry(e) => /\ Fresh' = Fresh \ {e}
                              /\ e \in Fresh <=> e \notin spent
         /\ EndBar(e) => Fresh' = Fresh \ {e}
<1> USE DEF TypeOK, Fresh, Stages
<1>1. ASSUME Check(e)
      PROVE  \/ UNCHANGED Fresh
             \/ ~TradeCapHit /\ ~LossHit /\ e \notin Fresh /\ Fresh' = Fresh \cup {e}
  <2>1. CASE UNCHANGED bar
    BY <2>1 DEF bar
  <2>2. CASE /\ ~TradeCapHit /\ ~LossHit
             /\ stage' = [stage EXCEPT ![e] = "eval"]
             /\ spent' = spent \ {e}
    BY <1>1, <2>2 DEF Check
  <2>3. QED
    BY <1>1, <2>1, <2>2 DEF Check, Breach
<1>2. ASSUME Fire(e) \/ Abandon(e) PROVE UNCHANGED Fresh
  BY <1>2 DEF Fire, Abandon
<1>3. ASSUME RecordEntry(e)
      PROVE  Fresh' = Fresh \ {e} /\ (e \in Fresh <=> e \notin spent)
  BY <1>3 DEF RecordEntry
<1>4. ASSUME EndBar(e) PROVE Fresh' = Fresh \ {e}
  BY <1>4 DEF EndBar
<1>5. QED
  BY <1>1, <1>2, <1>3, <1>4

\* The steps that do not touch a bar close.
LEMMA FreshKept ==
  ASSUME UNCHANGED bar
  PROVE  UNCHANGED Fresh
BY DEF bar, Fresh

-----------------------------------------------------------------------------
(* One lemma per conjunct of RiskInv, with one step per action. *)

LEMMA EntrySteps ==
  ASSUME RiskAssumption, TypeOK, EntryInv, Next
  PROVE  EntryInv'
<1> USE DEF RiskAssumption, TypeOK, EntryInv, Trades, TradeCapHit, Current, KeepTrades
<1>1. /\ Cardinality(Fresh) \in Nat
      /\ Cardinality(Engines) \in Nat \ {0}
      /\ Cardinality(Fresh) <= Cardinality(Engines)
  BY FreshSize
<1>2. CASE NewDay \/ Snapshot
  <2>1. UNCHANGED Fresh
    BY <1>2, FreshKept DEF NewDay, Snapshot
  <2>2. QED
    BY <1>1, <1>2, <2>1 DEF NewDay, Snapshot, counters, history
<1>3. ASSUME NEW e \in Engines, Check(e) PROVE EntryInv'
  <2>1. tradesToday' = Trades /\ bypassed' = Current(bypassed, 0)
    BY <1>3 DEF Check
  <2>2. CASE UNCHANGED Fresh
    BY <1>1, <2>1, <2>2
  <2>3. CASE ~TradeCapHit /\ e \notin Fresh /\ Fresh' = Fresh \cup {e}
    <3>1. Cardinality(Fresh') = Cardinality(Fresh) + 1
      BY <2>3, FreshCount
    <3>2. Cardinality(Fresh) <= Cardinality(Engines) - 1
      BY <2>3, FreshStrict
    <3>3. QED
      BY <1>1, <2>1, <2>3, <3>1, <3>2
  <2>4. QED
    BY <1>3, <2>2, <2>3, FreshSteps
<1>4. ASSUME NEW e \in Engines, Fire(e) \/ Abandon(e) PROVE EntryInv'
  <2>1. UNCHANGED Fresh
    BY <1>4, FreshSteps
  <2>2. QED
    BY <1>1, <1>4, <2>1 DEF Fire, Abandon, counters, history
<1>5. ASSUME NEW e \in Engines, RecordEntry(e) PROVE EntryInv'
  <2>1. Fresh' = Fresh \ {e} /\ (e \in Fresh <=> e \notin spent)
    BY <1>5, FreshSteps
  <2>2. /\ e \in Fresh => Cardinality(Fresh') = Cardinality(Fresh) - 1
        /\ Cardinality(Fresh') <= Cardinality(Fresh)
        /\ Cardinality(Fresh') \in Nat
    BY <2>1, FreshCount
  <2>3. /\ tradesToday' = Trades + 1
        /\ bypassed' = Current(bypassed, 0) + (IF e \in spent THEN 1 ELSE 0)
    BY <1>5 DEF RecordEntry
  <2>4. QED
    BY <1>1, <2>1, <2>2, <2>3
<1>6. ASSUME NEW e \in Engines, EndBar(e) PROVE EntryInv'
  <2>1. Fresh' = Fresh \ {e}
    BY <1>6, FreshSteps
  <2>2. Cardinality(Fresh') <= Cardinality(Fresh) /\ Cardinality(Fresh') \in Nat
    BY <2>1, FreshCount
  <2>3. QED
    BY <1>1, <1>6, <2>2 DEF EndBar, counters, history
<1>7. ASSUME NEW e \in Engines, ApprovedEntry(e) PROVE EntryInv'
  <2>1. UNCHANGED Fresh
    BY <1>7, FreshKept DEF ApprovedEntry
  <2>2. QED
    BY <1>1, <1>7, <2>1 DEF ApprovedEntry
<1>8. ASSUME NEW e \in Engines, BeginExit(e) \/ LoseExit(e) PROVE EntryInv'
  <2>1. UNCHANGED Fresh
    BY <1>8, FreshKept DEF BeginExit, LoseExit
  <2>2. QED
    BY <1>1, <1>8, <2>1 DEF BeginExit, LoseExit, counters, history
<1>9. ASSUME NEW e \in Engines, NEW pnl \in PnLs, RecordExit(e, pnl) PROVE EntryInv'
  <2>1. UNCHANGED Fresh
    BY <1>9, FreshKept DEF RecordExit
  <2>2. QED
    BY <1>1, <1>9, <2>1 DEF RecordExit
<1>10. QED
  BY <1>2, <1>3, <1>4, <1>5, <1>6, <1>7, <1>8, <1>9 DEF Next

LEMMA LossSteps ==
  ASSUME RiskAssumption, TypeOK, LossInv, Next
  PROVE  LossInv'
<1> USE DEF RiskAssumption, TypeOK, LossInv, Pnl, LossHit, UnderLimit, Current, KeepPnl
<1>1. /\ Cardinality(Fresh) \in Nat
      /\ Cardinality(Engines) \in Nat \ {0}
      /\ Cardinality(Fresh) <= Cardinality(Engines)
  BY FreshSize
<1>2. CASE NewDay \/ Snapshot
  <2>1. UNCHANGED Fresh
    BY <1>2, FreshKept DEF NewDay, Snapshot
  <2>2. QED
    BY <1>1, <1>2, <2>1 DEF NewDay, Snapshot, counters, history
<1>3. ASSUME NEW e \in Engines, Check(e) PROVE LossInv'
  <2>1. netPnl' = Pnl /\ lateEntries' = Current(lateEntries, 0)
    BY <1>3 DEF Check
  <2>2. CASE UNCHANGED Fresh
    BY <1>1, <2>1, <2>2
  <2>3. CASE ~LossHit
    BY <2>1, <2>3
  <2>4. QED
    BY <1>3, <2>2, <2>3, FreshSteps
<1>4. ASSUME NEW e \in Engines, Fire(e) \/ Abandon(e) PROVE LossInv'
  <2>1. UNCHANGED Fresh
    BY <1>4, FreshSteps
  <2>2. QED
    BY <1>1, <1>4, <2>1 DEF Fire, Abandon, counters, history
<1>5. ASSUME NEW e \in Engines, RecordEntry(e) PROVE LossInv'
  <2>1. Fresh' = Fresh \ {e} /\ (e \in Fresh <=> e \notin spent)
    BY <1>5, FreshSteps
  <2>2. /\ e \in Fresh => Cardinality(Fresh') = Cardinality(Fresh) - 1
        /\ Cardinality(Fresh') <= Cardinality(Fresh)
        /\ Cardinality(Fresh') \in Nat
    BY <2>1, FreshCount
  <2>3. /\ netPnl' = Pnl
        /\ lateEntries' = IF UnderLimit(Pnl) /\ e \notin spent
                             THEN Current(lateEntries, 0) + 1 ELSE Current(lateEntries, 0)
    BY <1>5 DEF RecordEntry
  <2>4. QED
    BY <1>1, <2>1, <2>2, <2>3
<1>6. ASSUME NEW e \in Engines, EndBar(e) PROVE LossInv'
  <2>1. Fresh' = Fresh \ {e}
    BY <1>6, FreshSteps
  <2>2. Cardinality(Fresh') <= Cardinality(Fresh) /\ Cardinality(Fresh') \in Nat
    BY <2>1, FreshCount
  <2>3. QED
    BY <1>1, <1>6, <2>2 DEF EndBar, counters, history
<1>7. ASSUME NEW e \in Engines, ApprovedEntry(e) PROVE LossInv'
  <2>1. UNCHANGED Fresh
    BY <1>7, FreshKept DEF ApprovedEntry
  <2>2. QED
    BY <1>1, <1>7, <2>1 DEF ApprovedEntry
<1>8. ASSUME NEW e \in Engines, BeginExit(e) \/ LoseExit(e) PROVE LossInv'
  <2>1. UNCHANGED Fresh
    BY <1>8, FreshKept DEF BeginExit, LoseExit
  <2>2. QED
    BY <1>1, <1>8, <2>1 DEF BeginExit, LoseExit, counters, history
<1>9. ASSUME NEW e \in Engines, NEW pnl \in PnLs, RecordExit(e, pnl) PROVE LossInv'
  <2>1. UNCHANGED Fresh
    BY <1>9, FreshKept DEF RecordExit
  <2>2. QED
    BY <1>1, <1>9, <2>1 DEF RecordExit
<1>10. QED
  BY <1>2, <1>3, <1>4, <1>5, <1>6, <1>7, <1>8, <1>9 DEF Next

LEMMA AlertSteps ==
  ASSUME RiskAssumption, TypeOK, AlertInv, Next
  PROVE  AlertInv'
<1> USE DEF RiskAssumption, TypeOK, AlertInv, Alerted, Current, KeepAlerts, Rolled, Days
<1>1. CASE NewDay
  BY <1>1 DEF NewDay, counters, history
<1>2. CASE Rolled /\ KeepAlerts /\ UNCHANGED <<today, alerts>>
  BY <1>2
<1>3. ASSUME NEW kind \in Breaches, Breach(kind), Rolled, UNCHANGED today
      PROVE  AlertInv'
  BY <1>3 DEF Breach
<1>4. ASSUME NEW e \in Engines, Check(e) PROVE AlertInv'
  BY <1>2, <1>3, <1>4 DEF Check, Breaches
<1>5. ASSUME NEW e \in Engines,
             Fire(e) \/ Abandon(e) \/ EndBar(e) \/ BeginExit(e) \/ LoseExit(e)
      PROVE  AlertInv'
  BY <1>5 DEF Fire, Abandon, EndBar, BeginExit, LoseExit, counters, history
<1>6. CASE Snapshot
  BY <1>2, <1>6 DEF Snapshot
<1>7. ASSUME NEW e \in Engines, RecordEntry(e) \/ ApprovedEntry(e) PROVE AlertInv'
  BY <1>2, <1>7 DEF RecordEntry, ApprovedEntry
<1>8. ASSUME NEW e \in Engines, NEW pnl \in PnLs, RecordExit(e, pnl) PROVE AlertInv'
  BY <1>2, <1>8 DEF RecordExit
<1>9. QED
  BY <1>1, <1>4, <1>5, <1>6, <1>7, <1>8 DEF Next

LEMMA RiskStep ==
  ASSUME RiskAssumption, RiskInv, [Next]_vars
  PROVE  RiskInv'
<1>1. TypeOK'
  BY RiskTypes DEF RiskInv
<1>2. CASE Next
  BY <1>1, <1>2, EntrySteps, LossSteps, AlertSteps DEF RiskInv
<1>3. CASE UNCHANGED vars
  <2>1. UNCHANGED Fresh
    BY <1>3, FreshKept DEF vars
  <2>2. QED
    BY <1>1, <1>3, <2>1 DEF vars, counters, history, RiskInv, EntryInv, LossInv, AlertInv
<1>4. QED
  BY <1>2, <1>3

-----------------------------------------------------------------------------
(* The theorems. *)

\* RiskInv is an invariant of the tracker and its users.
THEOREM RiskInvariant == RiskAssumption => (Spec => []RiskInv)
<1>1. RiskAssumption /\ Init => RiskInv
  BY RiskInit
<1>2. RiskAssumption /\ RiskInv /\ [Next]_vars => RiskInv'
  BY RiskStep
<1>3. QED
  BY <1>1, <1>2, RiskAssumption, PTL DEF Spec

\* The counters stay well formed, and the tracker's date never runs ahead of the clock.
THEOREM RiskTypeCorrect == Spec => []TypeOK
<1>1. RiskInv => TypeOK
  BY DEF RiskInv
<1>2. QED
  BY <1>1, RiskInvariant, RiskAssumption, PTL

(***************************************************************************)
(* trades_today exceeds max_trades_per_day by at most one entry per other  *)
(* engine, plus the entries that no check of their own preceded.           *)
(***************************************************************************)
THEOREM EntryBoundHolds == Spec => []EntryBound
<1>1. RiskInv => EntryBound
  BY RiskAssumption, FreshSize DEF RiskInv, TypeOK, EntryInv, EntryBound
<1>2. QED
  BY <1>1, RiskInvariant, RiskAssumption, PTL

\* No limit is alerted twice on one date.
THEOREM OneAlertHolds == Spec => []OneAlertPerBreach
<1>1. RiskInv => OneAlertPerBreach
  BY DEF RiskInv, AlertInv, OneAlertPerBreach
<1>2. QED
  BY <1>1, RiskInvariant, RiskAssumption, PTL

\* Once the loss limit is hit, each engine records at most the one entry that
\* a check passed before.
THEOREM LossHaltsHolds == Spec => []LossHaltsEntries
<1>1. RiskInv => LossHaltsEntries
  BY RiskAssumption, FreshSize DEF RiskInv, TypeOK, LossInv, LossHaltsEntries
<1>2. QED
  BY <1>1, RiskInvariant, RiskAssumption, PTL
=============================================================================

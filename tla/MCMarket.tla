------------------------------ MODULE MCMarket ------------------------------
(***************************************************************************)
(* The parts that make and read market data, each on a small instance: the *)
(* two structure engines, the shared candles, the option series of an      *)
(* engine, the shared stream and the option chain.  A behaviour is a       *)
(* behaviour of one part, `which`; the others stay as they begin.          *)
(***************************************************************************)
EXTENDS PremiumStructure, UnderlyingStructure, CandlePipeline, OptionSeries,
        MarketFeed, ChainRefresh

CONSTANT Parts     \* the parts to check

VARIABLE which

allVars == <<which, structureVars, premiumVars, underlyingVars, candleVars, seriesVars,
             feedVars, chainVars>>

\* Candles without wicks at six prices, and one that goes from low to high and closes low.
Flat(n) == [high |-> n, low |-> n, close |-> n]
Wide == [high |-> 6, low |-> 1, close |-> 2]
MCCandles == {Flat(n) : n \in 1..6} \cup {Wide}

\* To begin with: a rising structure and its pullback, a falling one, a range, a fall from
\* whose first low the price stays away, and more swings than a list keeps.
Closes(q) == [i \in DOMAIN q |-> Flat(q[i])]
MCOpenings ==
  {Closes(<<5, 4, 3, 2, 3, 4, 5, 4, 4, 4, 6>>), Closes(<<5, 4, 3, 2, 3, 4, 5, 4, 4, 4, 6, 3, 3, 4>>),
   Closes(<<2, 3, 4, 5, 4, 3, 2, 3, 3, 3, 1>>), Closes(<<5, 4, 3, 2, 3, 4, 5, 4, 4, 4>>),
   Closes(<<6, 5, 5, 4, 5, 5, 6, 2, 2, 2, 2, 1, 1>>),
   Closes(<<2, 3, 4, 3, 2, 3, 4, 3, 2, 3, 4, 3, 2, 3, 4>>)}

MCInit ==
  /\ which \in Parts
  /\ StructureInit /\ PremiumInit /\ UnderlyingInit
  /\ CandleInit /\ SeriesInit /\ FeedInit /\ ChainInit

MCNext ==
  /\ UNCHANGED which
  /\ \/ /\ which = "premium" /\ PremiumNext
        /\ UNCHANGED <<underlyingVars, candleVars, seriesVars, feedVars, chainVars>>
     \/ /\ which = "underlying" /\ UnderlyingNext
        /\ UNCHANGED <<premiumVars, candleVars, seriesVars, feedVars, chainVars>>
     \/ /\ which = "candles" /\ CandleNext
        /\ UNCHANGED <<structureVars, premiumVars, underlyingVars, seriesVars, feedVars, chainVars>>
     \/ /\ which = "series" /\ SeriesNext
        /\ UNCHANGED <<structureVars, premiumVars, underlyingVars, candleVars, feedVars, chainVars>>
     \/ /\ which = "feed" /\ FeedNext
        /\ UNCHANGED <<structureVars, premiumVars, underlyingVars, candleVars, seriesVars, chainVars>>
     \/ /\ which = "chain" /\ ChainNext
        /\ UNCHANGED <<structureVars, premiumVars, underlyingVars, candleVars, seriesVars, feedVars>>

\* The engine's poll goes on and its threads end; the broker answers the poll with candles
\* again and again.
SeriesFairness ==
  /\ WF_seriesVars(which = "series" /\ StartPoll)
  /\ WF_seriesVars(which = "series" /\ (StayAtStrike \/ TooDeep \/ Reselect))
  /\ \A j \in Jobs : WF_seriesVars(which = "series" /\ JobAdvances(j))
  /\ SF_seriesVars(which = "series" /\ Store("loop"))

\* The stream's thread goes on, and a connection that is tried again and again succeeds.
FeedFairness ==
  \A f \in Feeds : /\ WF_feedVars(which = "feed" /\ FeedAdvances(f))
                   /\ SF_feedVars(which = "feed" /\ StreamOpens(f))

MCSpec == MCInit /\ [][MCNext]_allVars /\ SeriesFairness /\ FeedFairness

-----------------------------------------------------------------------------
\* Every part's variables are of their types.
MarketTypeOK ==
  PremiumTypeOK /\ UnderlyingTypeOK /\ CandleTypeOK /\ SeriesTypeOK /\ FeedTypeOK /\ ChainTypeOK

\* Every part's variables are of their types, and of the shared candles each minute has at
\* most one bar, in order, through saves, stops, crashes and builders that overlap.
MarketSound == MarketTypeOK /\ BarsAscending

\* What the structure engines keep candle by candle is what the whole history says: the
\* swings, the zones, and (premium) the trend's protection and the place of the recovery.
StructureExact ==
  /\ SwingsExact /\ ZonesHonest
  /\ which = "premium" => RecoveryInPullback /\ TrendProtected

\* A break of the underlying's structure is marked as failed only if a candle closed back
\* while it was recent, and if the engine looked at the break then.
FailedBreaksKnown == which = "underlying" => FailuresReal /\ FailuresNoticed

\* Data of the right instrument comes in the end: to the engine's option series, and to a
\* shared stream that the broker has closed.
DataArrives == SeriesSettles /\ FeedRecovers
=============================================================================

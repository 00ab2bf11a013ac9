-------------------------- MODULE MCPendingTrade --------------------------
EXTENDS PendingTrade, TLC

\* Neither trades nor slots are told apart by any action.
TradeSymmetry == Permutations(Trades) \cup Permutations(Slots)
=============================================================================

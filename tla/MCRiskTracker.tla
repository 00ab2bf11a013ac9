--------------------------- MODULE MCRiskTracker ---------------------------
EXTENDS RiskTracker, TLC

MCPnLs == {-2, 1}

\* The engines are interchangeable: nothing in RiskTracker names one.
EngineSymmetry == Permutations(Engines)
=============================================================================

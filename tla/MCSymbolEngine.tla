-------------------------- MODULE MCSymbolEngine --------------------------
EXTENDS SymbolEngine, TLC

KeySymmetry == Permutations(Keys)
=============================================================================

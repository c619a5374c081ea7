----------------------------- MODULE MCRiskGate ----------------------------
(* RiskGate for the model checker: the symbols are interchangeable.         *)
EXTENDS RiskGate, TLC
CONSTANTS s1, s2

TwoSymbols == {s1, s2}
Sym == Permutations({s1, s2})
=============================================================================

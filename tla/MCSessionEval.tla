---------------------------- MODULE MCSessionEval ----------------------------
EXTENDS SessionEval, TLC

\* Model values of a run that may be exchanged for each other.
Symmetry == Permutations(Eval) \cup Permutations(User)
=============================================================================

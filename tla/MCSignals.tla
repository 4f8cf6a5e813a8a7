------------------------------ MODULE MCSignals ------------------------------
(* Signals with its signals and its objects taken as interchangeable: no    *)
(* operation tells two of them apart, and nothing temporal is checked.      *)
EXTENDS Signals, TLC

Symmetry == Permutations(Sigs) \cup Permutations(Objects)
=============================================================================

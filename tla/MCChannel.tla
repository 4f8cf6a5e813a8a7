----------------------------- MODULE MCChannel -----------------------------
(* Instances of Channel for TLC.  Writers and readers of one kind behave    *)
(* alike, so the safety runs may permute them.                              *)
EXTENDS Channel, TLC

SymWriters == Permutations(Writers)
=============================================================================

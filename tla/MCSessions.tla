----------------------------- MODULE MCSessions -----------------------------
(* Instances of Sessions for TLC.                                          *)
EXTENDS Sessions, TLC

\* Tokens, families and slots are only compared.
Symmetry == Permutations(Tokens) \cup Permutations(Families) \cup Permutations(Slots)
=============================================================================

--------------------------- MODULE MCSessionClient ---------------------------
(* Instances of SessionClient for TLC: which tab sends which call.         *)
EXTENDS SessionClient, TLC

CONSTANTS tab1, tab2, c1, c2

OneTab == c1 :> tab1 @@ c2 :> tab1

\* Two tabs that share the token of localStorage: Tabs = {tab1, tab2}.
TwoTabs == c1 :> tab1 @@ c2 :> tab2

\* Tokens, families and lines are only compared.
Symmetry == Permutations(Tokens) \cup Permutations(Families) \cup Permutations(Lines)
=============================================================================

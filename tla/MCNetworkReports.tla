--------------------------- MODULE MCNetworkReports ---------------------------
(* NetworkReports for TLC.  Correlations and reversal keys are only compared  *)
(* for equality, and all properties are safety: both sets are symmetric.      *)
EXTENDS NetworkReports, TLC

Symmetry == Permutations(Correlations) \union Permutations(ReversalKeys)
===============================================================================

--------------------------- MODULE MCQuotaUsage ----------------------------
(***************************************************************************)
(* Instances of QuotaUsage for TLC.                                        *)
(***************************************************************************)
EXTENDS QuotaUsage, TLC

\* requests are interchangeable
Symmetry == Permutations(Requests)
=============================================================================

------------------------- MODULE MCSystemOperation -------------------------
(***************************************************************************)
(* Instances of SystemOperation for TLC.                                   *)
(***************************************************************************)
EXTENDS SystemOperation, TLC

\* workers are interchangeable, and so are keys of one kind
Symmetry == Permutations(Workers) \cup Permutations(SystemKeys)
=============================================================================

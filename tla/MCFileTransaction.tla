-------------------------- MODULE MCFileTransaction --------------------------
(***************************************************************************)
(* FileTransaction on two configuration files and one file outside the     *)
(* configuration directories that a link may point to.                     *)
(***************************************************************************)
EXTENDS FileTransaction, TLC

CONSTANTS available, enabled, elsewhere, old, new, mode644, mode600

MCPath == {available, enabled, elsewhere}
MCConfigPath == {available, enabled}
MCContent == {old, new}
MCMode == {mode644, mode600}

\* The two configuration paths play the same part, and so do the two texts.
Symmetry == Permutations(MCConfigPath) \cup Permutations(MCContent)
=============================================================================

----------------------------- MODULE MCCreation -----------------------------
(***************************************************************************)
(* A form, a draft and a list small enough for TLC.                        *)
(***************************************************************************)
EXTENDS Creation, TLC

CONSTANT a

\* The deadline passes during the run.
Deadlines == a :> 2

ReaderSymmetry == Permutations(Readers)
=============================================================================

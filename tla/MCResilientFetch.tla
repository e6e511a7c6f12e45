-------------------------- MODULE MCResilientFetch --------------------------
(***************************************************************************)
(* Instances of ResilientFetch for TLC.                                    *)
(***************************************************************************)
EXTENDS ResilientFetch, TLC

\* Call sites are interchangeable in safety runs.
Symmetry == Permutations(Calls)
=============================================================================

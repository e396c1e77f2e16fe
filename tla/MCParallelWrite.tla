-------------------------- MODULE MCParallelWrite --------------------------
(***************************************************************************)
(* Model-checking of ParallelWrite.                                        *)
(***************************************************************************)
EXTENDS ParallelWrite, TLC

\* Slots and handles are interchangeable where no liveness is checked.
Symmetry == Permutations(Reqs) \cup Permutations(Handles)
=============================================================================

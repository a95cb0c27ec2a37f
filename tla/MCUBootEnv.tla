------------------------------ MODULE MCUBootEnv ------------------------------
(***************************************************************************)
(* Instances of UBootEnv for TLC.  Two processes suffice for every pair of  *)
(* steps; a third file lets one process leave, and another one re-create,   *)
(* the shared file while the second process still maps the first.          *)
(***************************************************************************)
EXTENDS UBootEnv, TLC

\* The factory environment: every variable has the same value.
MCFirstEnv == [k \in Keys |-> CHOOSE v \in Vals : v # ""]

Symmetry == Permutations(Procs) \cup Permutations(Inodes)

=============================================================================

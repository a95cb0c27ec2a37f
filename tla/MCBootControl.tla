---------------------------- MODULE MCBootControl ----------------------------
(***************************************************************************)
(* Instances of BootControl for TLC.                                        *)
(***************************************************************************)
EXTENDS BootControl, TLC

MCSlots == {0, 1}

Symmetry == Permutations(Procs)

=============================================================================

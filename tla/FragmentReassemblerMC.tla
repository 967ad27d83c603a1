---------------------- MODULE FragmentReassemblerMC ----------------------
(* Instances of FragmentReassembler for TLC. *)
EXTENDS FragmentReassembler, TLC

CONSTANTS p, q, m1, m2, m3, m4

\* Authenticated peers are alike, and so are message ids.
Alike == Permutations({p, q}) \cup Permutations({m1, m2, m3, m4})
=============================================================================

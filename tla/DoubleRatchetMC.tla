-------------------------- MODULE DoubleRatchetMC --------------------------
(* Instances of DoubleRatchet for TLC. *)
EXTENDS DoubleRatchet

\* Headers of either end's first pairs, and of one never generated, with any
\* of the small counts.
MCDamage ==
  [dhPublicKey : [owner : Parties, number : {0, 1, 9}],
   previousChainLength : 0 .. 1, messageNumber : 0 .. 2]
=============================================================================

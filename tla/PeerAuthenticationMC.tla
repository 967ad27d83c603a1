------------------------- MODULE PeerAuthenticationMC -------------------------
(* Instances of PeerAuthentication for TLC. *)
EXTENDS PeerAuthentication

CONSTANTS n1, n2, i1, i2, i3, s1, s2, s3

MCKeys == [n \in Nodes |-> IF n = n1 THEN [identity |-> i1, static |-> s1]
                           ELSE [identity |-> i2, static |-> s2]]

Code(n, i, s, usable) == [identity |-> i, static |-> s, usable |-> usable, node |-> n]

\* One code of each node.
GoodCodes == {Code(n1, i1, s1, TRUE), Code(n2, i2, s2, TRUE)}

\* More codes of n1: one of an identity it does not hold, one with a static key
\* it does not use, and one for another transport.
AllCodes ==
  GoodCodes \cup {Code(n1, i3, s1, TRUE), Code(n1, i1, s3, TRUE), Code(n1, i1, s1, FALSE)}

\* An identity message takes two frames of the radio.
MCChunks == [reply |-> 1, identity |-> 2]
=============================================================================

--------------------------- MODULE SecureChannel ---------------------------
(***************************************************************************)
(* What a session promises its two ends: a message that is opened was sent *)
(* by the other end, and is opened once.  Messages may be lost and may be  *)
(* opened in any order.                                                    *)
(***************************************************************************)
EXTENDS Integers

CONSTANTS
  Parties,      \* the two ends
  MaxMessages   \* bound: messages each end sends

VARIABLES
  sent,     \* party -> how many messages it has sent
  openings  \* party -> message -> how often the party has opened it

vars == <<sent, openings>>

Messages == [from : Parties, number : 1 .. MaxMessages]

Init ==
  /\ sent = [p \in Parties |-> 0]
  /\ openings = [p \in Parties |-> [m \in Messages |-> 0]]

Send(p) ==
  /\ sent[p] < MaxMessages
  /\ sent' = [sent EXCEPT ![p] = @ + 1]
  /\ UNCHANGED openings

Open(p, m) ==
  /\ m.from # p
  /\ m.number <= sent[m.from]
  /\ openings[p][m] = 0
  /\ openings' = [openings EXCEPT ![p][m] = 1]
  /\ UNCHANGED sent

Next ==
  \/ \E p \in Parties : Send(p)
  \/ \E p \in Parties, m \in Messages : Open(p, m)

Spec == Init /\ [][Next]_vars
=============================================================================

------------------------------ MODULE MCInbox ------------------------------
(***************************************************************************)
(* Instances of InboxSync for TLC: the sender of each position.            *)
(***************************************************************************)
EXTENDS InboxSync

CONSTANTS s1, s2

OneSender == [m \in Positions |-> s1]
TwoSenders == [m \in Positions |-> IF m % 2 = 1 THEN s1 ELSE s2]

=============================================================================

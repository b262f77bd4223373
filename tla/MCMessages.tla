----------------------------- MODULE MCMessages -----------------------------
(* Small instances of Messages for TLC.                                    *)
EXTENDS Messages, TLC

CONSTANT school

MCSenderOf == [m \in Mails |-> school]

(* Processors and tabs are interchangeable.                                *)
Interchangeable ==
  Permutations(Processors) \cup Permutations(Reviewers) \cup Permutations(Proposals)

=============================================================================

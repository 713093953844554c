---------------------------- MODULE MCAnalyses ----------------------------
(* Values of the constants of Analyses for TLC. *)
EXTENDS Analyses, TLC

CONSTANTS a1, a2, u1, w1, w2

MCOwner == [a \in Analyses |-> u1]      \* the uploads compete for one balance
MCCredits == [u \in Users |-> 1]        \* enough for one of two uploads

\* The uploads are of one user, and any worker takes any message.
MCSymmetry == Permutations(Analyses) \cup Permutations(Workers)
===========================================================================

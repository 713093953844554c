------------------------------ MODULE MCAuth ------------------------------
(* Values of the constants of Auth for TLC. *)
EXTENDS Auth, TLC

CONSTANTS s1, s2, e1, e2

\* Two identities share an address, and one of them changes its own.
MCIdentities == {<<s1, e1>>, <<s2, e1>>, <<s1, e2>>}
RequestSymmetry == Permutations(Requests)
===========================================================================

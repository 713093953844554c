---------------------------- MODULE MCLastSeen ----------------------------
(* Values of the constants of LastSeen for TLC. *)
EXTENDS LastSeen

CONSTANTS a1, a2, o1, o2, u1, u2

MCOwner == [a \in Analyses |-> u1]
MCBuyer == [o \in Orders |-> u1]
MCPack == [o \in Orders |-> 1]
MCOne == [u \in Users |-> 1]
===========================================================================

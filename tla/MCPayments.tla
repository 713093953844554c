---------------------------- MODULE MCPayments ----------------------------
(* Values of the constants of Payments for TLC. *)
EXTENDS Payments

CONSTANTS o1, o2, o3, u1, h1, h2

MCBuyer == [o \in Orders |-> u1]             \* the orders share one balance

MCPack == [o \in Orders |-> IF o = o2 THEN 0 ELSE 2]   \* o2: no variant matches
MCCredits == [u \in Users |-> 1]
===========================================================================

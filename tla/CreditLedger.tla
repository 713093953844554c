--------------------------- MODULE CreditLedger ---------------------------
(***************************************************************************)
(* What the credit accounting promises, without rows, handlers or workers. *)
(* Every upload is a ticket of its owner.  A ticket is charged at most     *)
(* once, only against a positive balance, and the credit it holds leaves   *)
(* it at most once: back to the owner, or kept when the analysis that      *)
(* holds it is deleted.                                                    *)
(***************************************************************************)
EXTENDS Integers

CONSTANTS Users,     \* the accounts
          Tickets,   \* one per upload request
          Owner      \* Owner[t] \in Users is the account that sends upload t

VARIABLES balance,   \* balance[u]: User.credits
          ticket     \* ticket[t]: where the credit of upload t is

vars == <<balance, ticket>>

TypeOK == /\ balance \in [Users -> Nat]
          /\ ticket \in [Tickets -> {"unused", "held", "returned", "kept"}]

Init == /\ balance \in [Users -> Nat]
        /\ ticket = [t \in Tickets |-> "unused"]

\* spend_credit, in the transaction that inserts the analysis.
Charge(t) == /\ ticket[t] = "unused"
             /\ balance[Owner[t]] > 0
             /\ ticket' = [ticket EXCEPT ![t] = "held"]
             /\ balance' = [balance EXCEPT ![Owner[t]] = @ - 1]

\* refund_analysis_credit and its async twin.
GiveBack(t) == /\ ticket[t] = "held"
               /\ ticket' = [ticket EXCEPT ![t] = "returned"]
               /\ balance' = [balance EXCEPT ![Owner[t]] = @ + 1]

\* delete_analysis: the credit goes with the row.
Keep(t) == /\ ticket[t] = "held"
           /\ ticket' = [ticket EXCEPT ![t] = "kept"]
           /\ UNCHANGED balance

Next == \E t \in Tickets : Charge(t) \/ GiveBack(t) \/ Keep(t)

Spec == Init /\ [][Next]_vars
===========================================================================

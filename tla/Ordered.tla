------------------------------ MODULE Ordered ------------------------------
(***************************************************************************)
(* A Python dict keeps its keys in the order they were put in; those of    *)
(* pending_orders and open_orders are order ids, which grow.               *)
(***************************************************************************)
EXTENDS Integers, FiniteSets

\* The keys, oldest first.
InOrder(S) ==
    CHOOSE q \in [1..Cardinality(S) -> S] : \A j, k \in DOMAIN q : j < k => q[j] < q[k]
=============================================================================

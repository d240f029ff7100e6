-------------------------- MODULE MCReconciliation --------------------------
(***************************************************************************)
(* An instance of Reconciliation for TLC.  All tenders and rows have one    *)
(* key; a day has ten minutes, and two of the sales are close to midnight. *)
(***************************************************************************)
EXTENDS Reconciliation, TLC

MCTenderKey == [t \in Tenders |-> "k"]
MCRowKey == [r \in Rows |-> "k"]
MCCreatedAt == [t \in Tenders |-> CASE t = 1 -> 6 [] t = 2 -> 8 [] OTHER -> 11]
MCSettledAt == [r \in Rows |-> CASE r = 1 -> 7 [] r = 2 -> 9 [] OTHER -> 10]

Symmetry == Permutations(Passes)
=============================================================================

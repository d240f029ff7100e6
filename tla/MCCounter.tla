------------------------------- MODULE MCCounter -------------------------------
(***************************************************************************)
(* A cup of coffee takes two measures of beans by its recipe; a bun is its *)
(* own stock.  A customer asks for one of each.                            *)
(***************************************************************************)
EXTENDS Counter, TLC

CONSTANTS ACup, ABun, Cup, Bun, Beans

MCItemOf == ACup :> Cup @@ ABun :> Bun
MCUses == Cup :> (Beans :> 2 @@ Bun :> 0) @@ Bun :> (Beans :> 0 @@ Bun :> 1)
MCOnHand == Beans :> 3 @@ Bun :> 1
=============================================================================

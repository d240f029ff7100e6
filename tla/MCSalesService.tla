--------------------------- MODULE MCSalesService ---------------------------
(***************************************************************************)
(* Instances of SalesService for TLC.  The catalog sells latte, made of     *)
(* beans and one cup, and beans themselves; three states of it differ in   *)
(* the beans of the recipe, the price and the tax, and in the last one the *)
(* recipe of latte cannot be found.                                        *)
(***************************************************************************)
EXTENDS SalesService, TLC

CONSTANTS
    r1, r2, s1, s2, d1, d2, v1, v2, f1, f2,
    latte, beans, cup, one, two, mix,
    morning, noon, night,
    NoBom, DanglingBom

MCItems == {latte, beans, cup}
MCQuantity == [k \in Carts |->
    (latte :> IF k = two THEN 2 ELSE 1) @@ (beans :> IF k = mix THEN 1 ELSE 0) @@ (cup :> 0)]

Explode == INSTANCE Explosion

Recipe(bom) == (latte :> [active |-> TRUE, bom |-> bom, tracked |-> FALSE])
            @@ [i \in {beans, cup} |-> [active |-> TRUE, bom |-> NoBom, tracked |-> TRUE]]
MCCatalog == (morning :> Recipe(beans :> 1 @@ cup :> 1))
          @@ (noon :> Recipe(beans :> 2 @@ cup :> 1))
          @@ (night :> Recipe(DanglingBom))
MCPrice == (morning :> 1) @@ (noon :> 2) @@ (night :> 1)

MCUses == [v \in Versions |-> [k \in Carts |->
              Explode!ExplodeLines(MCCatalog[v], MCQuantity[k])]]
MCSellable == [v \in Versions |->
              {k \in Carts : Explode!Resolvable(MCCatalog[v], MCQuantity[k])}]
MCSubtotal == [v \in Versions |-> [k \in Carts |->
              MCPrice[v] * MCQuantity[k][latte] + MCQuantity[k][beans]]]
MCTax == [v \in Versions |-> [k \in Carts |-> IF v = noon THEN 1 ELSE 0]]
MCOpening == latte :> 0 @@ beans :> 3 @@ cup :> 2

Symmetry == Permutations(Requests) \union Permutations(Sales)
            \union Permutations(VoidIds) \union Permutations(RefundIds)
============================================================================

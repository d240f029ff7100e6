------------------------------ MODULE Explosion ------------------------------
(***************************************************************************)
(* How the lines of a sale, a void or a refund become stock movements: the *)
(* explosion every write path of the API's sales service performs before   *)
(* it touches the ledger.                                                  *)
(*                                                                         *)
(* A catalog is a function from the item ids it knows to records           *)
(*   [active, bom, tracked]                                                *)
(* where bom is NoBom, DanglingBom (the item names a BOM nobody stored) or *)
(* a function from component ids to quantities per unit.  Lines are a      *)
(* function from item ids to quantities: the arrays of the code with equal *)
(* ids summed, which is all the explosion looks at.                        *)
(***************************************************************************)
EXTENDS Naturals, FiniteSetsExt

CONSTANTS NoBom, DanglingBom

(* What one unit of item p moves of item c. *)
PerUnit(catalog, p, c) ==
    IF p \notin DOMAIN catalog THEN 0
    ELSE IF catalog[p].bom = NoBom
         THEN IF catalog[p].tracked /\ c = p THEN 1 ELSE 0
         ELSE IF catalog[p].bom = DanglingBom \/ c \notin DOMAIN catalog[p].bom
              THEN 0
              ELSE catalog[p].bom[c]

(* explodeLines: the total moved of every item, summed across the lines.  An *)
(* unknown item and a dangling BOM are skipped without an error.             *)
ExplodeLines(catalog, lines) ==
    [c \in DOMAIN lines |->
        MapThenSumSet(LAMBDA p : lines[p] * PerUnit(catalog, p, c), DOMAIN lines)]

(* What submit refuses before it explodes: a line whose item is unknown or   *)
(* inactive, a BOM that does not resolve, a component nobody registered.     *)
Resolvable(catalog, lines) ==
    \A p \in {q \in DOMAIN lines : lines[q] > 0} :
        /\ p \in DOMAIN catalog
        /\ catalog[p].active
        /\ catalog[p].bom # DanglingBom
        /\ \A c \in DOMAIN lines :
              PerUnit(catalog, p, c) > 0 => c \in DOMAIN catalog
==============================================================================

------------------------------ MODULE MCDayClose ------------------------------
(***************************************************************************)
(* Instances of DayClose for TLC: a sale paid exactly, one for which the   *)
(* clerk hands back change, one paid by other means, and a probe.          *)
(***************************************************************************)
EXTENDS DayClose, TLC

CONSTANTS s1, s2, r1, r2, exact, change, cashless, probe

MCTotal == [k \in Kinds |-> 1]
MCCash == [k \in Kinds |->
    CASE k = exact -> 1 [] k = change -> 2 [] OTHER -> 0]
MCOther == [k \in Kinds |-> IF k \in {cashless, probe} THEN 1 ELSE 0]

Symmetry == Permutations(Sales) \union Permutations(Requests)
=============================================================================

------------------------------ MODULE MCReceipts ------------------------------
(* Receipts of the till, a part of it in each behaviour: lookups by receipt  *)
(* code, the void of a sale beside them, and the printer, which shares no    *)
(* state with them; a sale's renditions are compared where nothing moves,    *)
(* for no step reads the sale.  Sale 1 is of this till, 2 of a sibling, 3 of *)
(* another outlet; they share a receipt code.  Beside a void, the sales rung *)
(* are chosen at the start: 1, 2 or both; lookups and attempts together      *)
(* number three about one sale and two about both, so that a search can come *)
(* before a void and after it, or a void be tried again beside a search.     *)
EXTENDS FindSale, ReceiptPrint

VARIABLES part, rung

MCCodeOf == <<"a", "a", "a">>

MCSlips ==
    LET Total(d, t) == 3 - d + (IF t > 0 THEN t ELSE 0)
        Slip(d, t, v, c, method, over) ==
            [subtotal |-> 3, discount |-> d, tax |-> t, total |-> Total(d, t), voided |-> v,
             salinan |-> c,
             tender |-> [method |-> method, amount |-> Total(d, t) + over]]
    IN {Slip(d, t, v, FALSE, "cash", 1) : d \in {0, 1}, t \in {-1, 0, 1}, v \in BOOLEAN}
       \union {Slip(1, t, v, c, "qris", 0) : t \in {-1, 0, 1}, v, c \in BOOLEAN}
       \union {Slip(3, -1, FALSE, TRUE, "cash", 0)}

finding == <<part, rung>>
mcVars == <<findVars, printVars, finding>>

Init ==
    /\ FindInit /\ PrintInit
    /\ \/ part \in {"find", "print"} /\ rung = Sales /\ slip = CHOOSE s \in MCSlips : TRUE
       \/ /\ part = "void" /\ slip = CHOOSE s \in MCSlips : TRUE
          /\ rung \in SUBSET {1, 2} \ {{}}
       \/ part = "media" /\ rung = {}

Tries == Cardinality(DOMAIN lookups) + Cardinality(DOMAIN voids)

Finds ==
    /\ part \in {"find", "void"} /\ FindNext /\ UNCHANGED <<printVars, finding>>
    /\ part = "find" => Cardinality(DOMAIN voids') = 0
    /\ part = "void" => Tries' <= 4 - Cardinality(rung)
    /\ \A s \in Sales \ rung : held'[s] = Nothing /\ served'[s] = Nothing

Prints == part = "print" /\ PrintNext /\ UNCHANGED <<findVars, finding>>

Next == Finds \/ Prints

Looking == LookupStep /\ UNCHANGED <<printVars, finding>>

Spec == Init /\ [][Next]_mcVars /\ WF_mcVars(Looking)
=============================================================================

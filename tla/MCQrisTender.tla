---------------------------- MODULE MCQrisTender ----------------------------
(***************************************************************************)
(* An instance of QrisTender for TLC, with the moves of an order that       *)
(* Midtrans documents for QRIS.                                             *)
(***************************************************************************)
EXTENDS QrisTender, TLC

Tx(tx, fraud) == [tx |-> tx, fraud |-> fraud]

MCLifecycle ==
    LET pending == Tx("pending", "accept")
        challenged == Tx("capture", "challenge")
        captured == Tx("capture", "accept")
        settled == Tx("settlement", "accept")
    IN  {<<pending, challenged>>, <<pending, captured>>,
         <<pending, Tx("expire", "accept")>>, <<challenged, captured>>,
         <<challenged, Tx("capture", "deny")>>, <<captured, settled>>,
         <<settled, Tx("refund", "accept")>>}

=============================================================================

---------------------------- MODULE SalesService ----------------------------
(***************************************************************************)
(* The sales service of the API: submit, void and refund, over the         *)
(* repository that keeps the sales and the stock ledger of one outlet.     *)
(*                                                                         *)
(* Every repository method is asynchronous, so a handler is a few steps:   *)
(* what it reads and decides, then the one repository call that writes.    *)
(* With the in-memory repository that ships, nothing else runs between     *)
(* those steps (AwaitYields = FALSE); the contract of the port lets a      *)
(* database stand behind it, where other handlers do (AwaitYields = TRUE). *)
(*                                                                         *)
(* Abstractions.  A cart is the array of lines of a request, an opaque     *)
(* value; Quantity[k] is what it asks of each item.  Uses[v][k] is what    *)
(* cart k moves in stock when the catalog is in state v (module Explosion  *)
(* computes it for the instances that are checked), Sellable[v] the carts  *)
(* submit accepts then, Subtotal[v][k] and Tax[v][k] the price and the tax *)
(* on top of it that it stamps.  onHand is the sum over the ledger that    *)
(* the code computes at each read.                                         *)
(***************************************************************************)
EXTENDS Integers, FiniteSets, FiniteSetsExt

CONSTANTS
    Requests,     \* handler invocations that may be under way at once
    Sales,        \* localSaleId values, one server sale each
    Items,        \* item ids
    Guarded,      \* items whose allowNegative is false
    Carts,        \* the lines a sale or a refund may carry
    Quantity,     \* units of each item a cart holds
    Versions,     \* states of the catalog
    Uses, Sellable, Subtotal, Tax,
    Discounts,    \* what a client may take off a sale
    Opening,      \* stock on hand at the start
    Dates,        \* business dates
    VoidIds, RefundIds, Amounts,
    NoShift,      \* no shift is open at the outlet
    NoVoid,       \* localVoidId of a sale that is not voided
    NoReply,
    AwaitYields   \* whether another handler may run while one awaits

ASSUME ConstantsAssumption ==
    /\ Guarded \subseteq Items
    /\ Quantity \in [Carts -> [Items -> Nat]]
    /\ Uses \in [Versions -> [Carts -> [Items -> Nat]]]
    /\ Sellable \in [Versions -> SUBSET Carts]
    /\ Subtotal \in [Versions -> [Carts -> Nat]]
    /\ Tax \in [Versions -> [Carts -> Nat]]
    /\ Discounts \subseteq Nat
    /\ Opening \in [Items -> Nat]
    /\ Amounts \subseteq Nat
    /\ NoShift \notin Dates
    /\ NoVoid \notin VoidIds
    /\ AwaitYields \in BOOLEAN

VARIABLES
    sales,     \* the sales by localSaleId: a function on the recorded ones
    ledger,    \* per sale and reason: batches written, and their sum
    onHand,    \* what the ledger sums to, per item
    catalog,   \* the state of the catalog the repository serves
    openDate,  \* business date of the outlet's open shift, or NoShift
    req,       \* per request: how far its handler got, and what it holds
    last       \* the reply the latest step sent, or NoReply

vars == <<sales, ledger, onHand, catalog, openDate, req, last>>

Reasons == {"sale", "sale_void", "refund"}
Movement == [Items -> Int]
Batches == [n : Nat, delta : Movement]

Refund == [lines : Carts, amount : Amounts]
Sale == [cart : Carts, date : Dates, total : Nat,
         void : VoidIds \union {NoVoid},
         refunds : UNION {[F -> Refund] : F \in SUBSET RefundIds}]

Recorded == DOMAIN sales
Voided(s) == sales[s].void # NoVoid
Refunds(s) == DOMAIN sales[s].refunds

-----------------------------------------------------------------------------
(* Requests. *)

Idle == [phase |-> "idle"]

(* A handler starts when its slot is free and, unless awaits yield, no other *)
(* handler is under way; the same holds for the other services' handlers.    *)
Quiet == AwaitYields \/ \A q \in Requests : req[q] = Idle
Starts(r) == req[r] = Idle /\ Quiet

Reply(r, reply) ==
    /\ req' = [req EXCEPT ![r] = Idle]
    /\ last' = reply

Continue(r, state) ==
    /\ req' = [req EXCEPT ![r] = state]
    /\ last' = NoReply

KeyedByReason(s, w, move) ==  \* mutant: a second refund's rows replace the first's
    /\ ledger' = [ledger EXCEPT ![s][w] = [n |-> 1, delta |-> move]]
    /\ onHand' = [c \in Items |-> onHand[c] + move[c]]

(* Append one batch of ledger rows for sale s and reason w. *)
Post(s, w, move) ==
    /\ ledger' = [ledger EXCEPT ![s][w] =
                     [n |-> @.n + 1,
                      delta |-> [c \in Items |-> @.delta[c] + move[c]]]]
    /\ onHand' = [c \in Items |-> onHand[c] + move[c]]

Stored == <<sales, ledger, onHand>>

Refused(op, code) == [op |-> op, code |-> code]

-----------------------------------------------------------------------------
(* POST /v1/sales/submit *)

SubmitReply(code, s, k) == [op |-> "submit", code |-> code, sale |-> s, cart |-> k]

AnyShape(s, k) == TRUE  \* mutant: every replay is taken for the same sale

(* salesAgreeOnShape: the recorded sale has the lines of the request. *)
SameShape(s, k) == sales[s].cart = k

(* The idempotency lookup by localSaleId. *)
SubmitLookup(r, s, k, d, off) ==
    /\ Starts(r)
    /\ \/ /\ s \in Recorded /\ SameShape(s, k)
          /\ Reply(r, SubmitReply("conflict", s, k))
       \/ /\ s \in Recorded /\ ~SameShape(s, k)
          /\ Reply(r, Refused("submit", "idempotency_conflict"))
       \/ /\ s \notin Recorded
          /\ Continue(r, [phase |-> "submitLooked", sale |-> s, cart |-> k, date |-> d,
                          discount |-> off])
    /\ UNCHANGED <<Stored, catalog, openDate>>

ShortBefore(move) == \E c \in Guarded : move[c] > 0 /\ onHand[c] < 0  \* mutant

(* The allowNegative guard: the sale would take a guarded item below zero. *)
Short(move) == \E c \in Guarded : move[c] > 0 /\ onHand[c] - move[c] < 0

UncappedTotal(v, k, off) == Subtotal[v][k] - off + Tax[v][k]  \* mutant

(* The server's own total: the discount is the client's, capped at the subtotal. *)
AuthoritativeTotal(v, k, off) ==
    Subtotal[v][k] - (IF off < Subtotal[v][k] THEN off ELSE Subtotal[v][k]) + Tax[v][k]

(* Validation, authoritative prices, BOM explosion and the allowNegative guard. *)
SubmitCheck(r) ==
    /\ req[r].phase = "submitLooked"
    /\ LET s == req[r].sale
           k == req[r].cart
           move == Uses[catalog][k]
       IN \/ /\ k \notin Sellable[catalog]
             /\ Reply(r, Refused("submit", "rejected"))
          \/ /\ k \in Sellable[catalog] /\ Short(move)
             /\ Reply(r, Refused("submit", "insufficient_stock"))
          \/ /\ k \in Sellable[catalog] /\ ~Short(move)
             /\ Continue(r, [phase |-> "submitChecked", sale |-> s, cart |-> k,
                             date |-> req[r].date, move |-> move,
                             total |-> AuthoritativeTotal(catalog, k, req[r].discount)])
    /\ UNCHANGED <<Stored, catalog, openDate>>

NeverMeanwhile(s) == FALSE  \* mutant: the repository does not look again

(* What recordSale and voidSale look at again before they write. *)
RecordedMeanwhile(s) == s \in Recorded
VoidedMeanwhile(s) == Voided(s)

(* recordSale: the sale and its ledger rows in one write.  When the sale has *)
(* appeared meanwhile, it is returned as if created, with no ledger row.     *)
SubmitRecord(r) ==
    /\ req[r].phase = "submitChecked"
    /\ LET s == req[r].sale
           stored == [cart |-> req[r].cart, date |-> req[r].date,
                      total |-> req[r].total, void |-> NoVoid, refunds |-> <<>>]
       IN IF RecordedMeanwhile(s)
          THEN UNCHANGED Stored
          ELSE /\ sales' = [x \in Recorded \union {s} |->
                               IF x = s THEN stored ELSE sales[x]]
               /\ Post(s, "sale", [c \in Items |-> -req[r].move[c]])
    /\ Reply(r, SubmitReply("created", req[r].sale, req[r].cart))
    /\ UNCHANGED <<catalog, openDate>>

-----------------------------------------------------------------------------
(* POST /v1/sales/:saleId/void, once the manager's PIN has been verified *)

VoidReply(code, s) == [op |-> "void", code |-> code, sale |-> s]

Ungated(s) == FALSE           \* mutant: a gate of void is dropped
UngatedId(s, v) == FALSE      \* mutant
AnyShift(s) == openDate # NoShift  \* mutant: any open shift will do

(* The gates of void. *)
HasRefunds(s) == Refunds(s) # {}
InOpenShift(s) == openDate = sales[s].date
VoidIdTaken(s, v) == \E x \in Recorded \ {s} : sales[x].void = v

(* The reads and gates, in the order of the code, and the explosion against *)
(* the catalog of this moment.                                              *)
VoidCheck(r, s, v) ==
    /\ Starts(r)
    /\ \/ /\ s \notin Recorded
          /\ Reply(r, Refused("void", "sale_not_found"))
       \/ /\ s \in Recorded /\ Voided(s)
          /\ Reply(r, VoidReply("already_voided", s))
       \/ /\ s \in Recorded /\ ~Voided(s)
          /\ \/ /\ HasRefunds(s)
                /\ Reply(r, Refused("void", "sale_has_refunds"))
             \/ /\ ~HasRefunds(s) /\ VoidIdTaken(s, v)
                /\ Reply(r, Refused("void", "void_idempotency_conflict"))
             \/ /\ ~HasRefunds(s) /\ ~VoidIdTaken(s, v) /\ ~InOpenShift(s)
                /\ Reply(r, Refused("void", "void_outside_open_shift"))
             \/ /\ ~HasRefunds(s) /\ ~VoidIdTaken(s, v) /\ InOpenShift(s)
                /\ Continue(r, [phase |-> "voidChecked", sale |-> s, void |-> v,
                                move |-> Uses[catalog][sales[s].cart]])
    /\ UNCHANGED <<Stored, catalog, openDate>>

(* voidSale: looks again at voidedAt, and at nothing else. *)
VoidRecord(r) ==
    /\ req[r].phase = "voidChecked"
    /\ LET s == req[r].sale
       IN IF VoidedMeanwhile(s)
          THEN /\ UNCHANGED Stored
               /\ Reply(r, VoidReply("already_voided", s))
          ELSE /\ sales' = [sales EXCEPT ![s].void = req[r].void]
               /\ Post(s, "sale_void", req[r].move)
               /\ Reply(r, VoidReply("voided", s))
    /\ UNCHANGED <<catalog, openDate>>

-----------------------------------------------------------------------------
(* POST /v1/sales/:saleId/refund *)

RefundReply(code, s, f, q, a) ==
    [op |-> "refund", code |-> code, sale |-> s, refund |-> f, lines |-> q, amount |-> a]

RefundedQuantity(s, p) ==
    MapThenSumSet(LAMBDA f : Quantity[sales[s].refunds[f].lines][p], Refunds(s))
RefundedAmount(s) ==
    MapThenSumSet(LAMBDA f : sales[s].refunds[f].amount, Refunds(s))

WithinSale(s, q, a) ==  \* mutant: earlier refunds are forgotten
    /\ \A p \in Items : Quantity[q][p] <= Quantity[sales[s].cart][p]
    /\ a <= sales[s].total

(* remainingRefundableByItem and the amount cap. *)
WithinRemaining(s, q, a) ==
    /\ \A p \in Items : Quantity[q][p] <= Quantity[sales[s].cart][p] - RefundedQuantity(s, p)
    /\ RefundedAmount(s) + a <= sales[s].total

WholeSaleMove(s, q) == Uses[catalog][sales[s].cart]  \* mutant

(* explodeRefundLines. *)
RefundMove(s, q) == Uses[catalog][q]

RefundCheck(r, s, f, q, a) ==
    /\ Starts(r)
    /\ \/ /\ s \notin Recorded
          /\ Reply(r, Refused("refund", "sale_not_found"))
       \/ /\ s \in Recorded /\ Voided(s)
          /\ Reply(r, Refused("refund", "sale_voided"))
       \/ /\ s \in Recorded /\ ~Voided(s) /\ f \in Refunds(s)
          /\ IF sales[s].refunds[f] = [lines |-> q, amount |-> a]
             THEN Reply(r, RefundReply("replayed", s, f, q, a))
             ELSE Reply(r, Refused("refund", "refund_idempotency_conflict"))
       \/ /\ s \in Recorded /\ ~Voided(s) /\ f \notin Refunds(s)
          /\ ~WithinRemaining(s, q, a)
          /\ Reply(r, Refused("refund", "exceeds_remaining"))
       \/ /\ s \in Recorded /\ ~Voided(s) /\ f \notin Refunds(s)
          /\ WithinRemaining(s, q, a)
          /\ Continue(r, [phase |-> "refundChecked", sale |-> s, refund |-> f,
                          lines |-> q, amount |-> a, move |-> RefundMove(s, q)])
    /\ UNCHANGED <<Stored, catalog, openDate>>

(* recordRefund: looks again at clientRefundId, and at nothing else. *)
RefundRecord(r) ==
    /\ req[r].phase = "refundChecked"
    /\ LET s == req[r].sale
           f == req[r].refund
           booked == [lines |-> req[r].lines, amount |-> req[r].amount]
           code == IF f \in Refunds(s) THEN "replayed" ELSE "refunded"
       IN /\ IF f \in Refunds(s)
             THEN UNCHANGED Stored
             ELSE /\ sales' = [sales EXCEPT ![s].refunds =
                                  [g \in Refunds(s) \union {f} |->
                                      IF g = f THEN booked ELSE sales[s].refunds[g]]]
                  /\ Post(s, "refund", req[r].move)
          /\ Reply(r, RefundReply(code, s, f, req[r].lines, req[r].amount))
    /\ UNCHANGED <<catalog, openDate>>

-----------------------------------------------------------------------------
(* What the other services do to the state the sales service reads. *)

EditCatalog(v) ==
    /\ Quiet
    /\ catalog' = v
    /\ last' = NoReply
    /\ UNCHANGED <<Stored, openDate, req>>

(* The shifts service refuses no second open shift, and findOpenShiftForOutlet *)
(* answers with the latest: opening or closing one can move the date anywhere. *)
MoveShift(d) ==
    /\ Quiet
    /\ openDate' = d
    /\ last' = NoReply
    /\ UNCHANGED <<Stored, catalog, req>>

-----------------------------------------------------------------------------
Init ==
    /\ sales = <<>>
    /\ ledger = [s \in Sales |->
                    [w \in Reasons |-> [n |-> 0, delta |-> [c \in Items |-> 0]]]]
    /\ onHand = Opening
    /\ catalog \in Versions
    /\ openDate = NoShift
    /\ req = [r \in Requests |-> Idle]
    /\ last = NoReply

Handle(r) ==
    \/ \E s \in Sales, k \in Carts, d \in Dates, off \in Discounts :
           SubmitLookup(r, s, k, d, off)
    \/ SubmitCheck(r)
    \/ SubmitRecord(r)
    \/ \E s \in Sales, v \in VoidIds : VoidCheck(r, s, v)
    \/ VoidRecord(r)
    \/ \E s \in Sales, f \in RefundIds, q \in Carts, a \in Amounts :
           RefundCheck(r, s, f, q, a)
    \/ RefundRecord(r)

Next ==
    \/ \E r \in Requests : Handle(r)
    \/ \E v \in Versions \ {catalog} : EditCatalog(v)
    \/ \E d \in (Dates \union {NoShift}) \ {openDate} : MoveShift(d)

Spec == Init /\ [][Next]_vars

-----------------------------------------------------------------------------
(* Properties *)

ReqStates ==
    {Idle}
    \union [phase : {"submitLooked"}, sale : Sales, cart : Carts, date : Dates,
            discount : Discounts]
    \union [phase : {"submitChecked"}, sale : Sales, cart : Carts, date : Dates,
            total : Nat, move : [Items -> Nat]]
    \union [phase : {"voidChecked"}, sale : Sales, void : VoidIds, move : [Items -> Nat]]
    \union [phase : {"refundChecked"}, sale : Sales, refund : RefundIds,
            lines : Carts, amount : Amounts, move : [Items -> Nat]]

(* Every variable keeps its shape.  In particular no sale is stored with a    *)
(* negative total, whatever discount the client claims and however the price *)
(* fell since, and a handler about to write a void or a refund holds a sale  *)
(* that is recorded.                                                         *)
TypeOK ==
    /\ Recorded \subseteq Sales /\ sales \in [Recorded -> Sale]
    /\ ledger \in [Sales -> [Reasons -> Batches]]
    /\ onHand \in Movement
    /\ catalog \in Versions
    /\ openDate \in Dates \union {NoShift}
    /\ req \in [Requests -> ReqStates]
    /\ \A r \in Requests :
          req[r].phase \in {"voidChecked", "refundChecked"} => req[r].sale \in Recorded

(* Each document is booked exactly once, whatever replays and races: a sale *)
(* has one batch of "sale" rows from the moment it is recorded, one of      *)
(* "sale_void" rows iff it is voided, and one of "refund" rows per refund.  *)
PostedOnce ==
    \A s \in Sales :
        /\ ledger[s]["sale"].n = IF s \in Recorded THEN 1 ELSE 0
        /\ ledger[s]["sale_void"].n = IF s \in Recorded /\ Voided(s) THEN 1 ELSE 0
        /\ ledger[s]["refund"].n = IF s \in Recorded THEN Cardinality(Refunds(s)) ELSE 0

(* No sequence of sales, voids and refunds drives an item that forbids      *)
(* negative stock below zero, although submit's guard and its write are     *)
(* separate repository calls.                                               *)
NoOversell == \A c \in Guarded : onHand[c] >= 0

(* A sale is never both voided and refunded: its goods are not put back twice. *)
VoidXorRefund == \A s \in Recorded : Voided(s) => Refunds(s) = {}

(* Refunds never exceed what the sale holds, per item and in rupiah. *)
RefundsWithinSale ==
    \A s \in Recorded :
        /\ \A p \in Items : RefundedQuantity(s, p) <= Quantity[sales[s].cart][p]
        /\ RefundedAmount(s) <= sales[s].total

(* A localVoidId is bound to one sale. *)
VoidIdBoundOnce ==
    \A s, t \in Recorded : Voided(s) /\ sales[s].void = sales[t].void => s = t

Net(s, c) == ledger[s]["sale"].delta[c] + ledger[s]["sale_void"].delta[c]
             + ledger[s]["refund"].delta[c]

Steady == {c \in Items : \A v, w \in Versions, k \in Carts : Uses[v][k][c] = Uses[w][k][c]}

(* Of an item whose use no edit of the catalog changes, the ledger rows of a  *)
(* sale balance: the rows of a void cancel the sale's to zero, and refunds    *)
(* never put back more than the sale took.  (When the recipe did change, both *)
(* documents explode against the newer one, and the rows need not balance.)   *)
LedgerBalances ==
    \A s \in Recorded, c \in Steady :
        /\ Net(s, c) <= 0
        /\ Voided(s) => Net(s, c) = 0

(* A reply tells the truth: a sale answered created or conflict is on record *)
(* with the very lines of the request, a void answered so is on record, a    *)
(* refund answered so is on record with its lines and amount.                *)
ReplyHonest ==
    last # NoReply =>
        /\ last.op = "submit" /\ last.code \in {"created", "conflict"} =>
              last.sale \in Recorded /\ sales[last.sale].cart = last.cart
        /\ last.op = "void" /\ last.code \in {"voided", "already_voided"} =>
              last.sale \in Recorded /\ Voided(last.sale)
        /\ last.op = "refund" /\ last.code \in {"refunded", "replayed"} =>
              /\ last.sale \in Recorded /\ last.refund \in Refunds(last.sale)
              /\ sales[last.sale].refunds[last.refund]
                    = [lines |-> last.lines, amount |-> last.amount]

(* A sale becomes voided only while the outlet's open shift is of its date. *)
VoidsInOpenShift ==
    [][\A s \in Recorded :
          ~Voided(s) /\ sales'[s].void # NoVoid => openDate = sales[s].date]_vars

(* Nothing on record is ever forgotten or rewritten: sales, voids and refunds *)
(* only accumulate, and a sale keeps its lines, date and total.               *)
RecordsAppendOnly ==
    [][\A s \in Recorded :
          /\ s \in DOMAIN sales'
          /\ sales'[s].cart = sales[s].cart /\ sales'[s].total = sales[s].total
          /\ Voided(s) => sales'[s].void = sales[s].void
          /\ \A f \in Refunds(s) : /\ f \in DOMAIN sales'[s].refunds
                                   /\ sales'[s].refunds[f] = sales[s].refunds[f]]_vars
==============================================================================
